---------------------------- MODULE TenantDoors ----------------------------
(***************************************************************************)
(* What each API key may see and do: the auth providers, the operator's    *)
(* command-line tool that edits the sqlite store meanwhile, and the doors  *)
(* onto jobs -- the HTTP job routes and the MCP tasks/* methods -- with    *)
(* the ownership rules of lib/job-control.js, repeatable schedulers, and   *)
(* the history it writes from queue events.                                *)
(*                                                                         *)
(* A client stands for the key it sends, and there is one device.  What    *)
(* runs a job is JobTasks; the queue (bullmq) is external and has only its *)
(* states here.                                                            *)
(***************************************************************************)
EXTENDS Integers, Sequences, FiniteSets, SequencesExt

CONSTANTS
  Clients,
  Scenarios,  \* [auth, file, envKey, users, admins, grants, edits, mishaps, old, post]: the provider's
              \* kind, what its store holds at first, how many commands the operator
              \* gives and how many jobs are tried again or records lost (bounds), the
              \* schedulers of an earlier release, and the requests each client sends in turn
  MaxJobs,    \* bound: jobs created
  HistMax,    \* entries ltrim leaves in a history list
  HistCap,    \* records getJobHistory returns at most
  PageMax,    \* jobs of a state listJobs asks for
  None

JobIDs == 1 .. MaxJobs
JobNames == {"n", "m"}

\* the doors a request names a job at, and those it names none or a job's name at
ByJob == {"get", "remove", "taskget", "result", "cancel"}
ByName == {"add", "repeat", "history", "unrepeat", "task", "devices", "load", "balance", "tasks"}

Requests == [door : ByJob, arg : JobIDs] \cup [door : ByName, arg : JobNames]

ASSUME DoorsAssumption ==
  /\ MaxJobs \in Nat /\ None \notin Clients
  /\ HistMax \in Nat \ {0} /\ HistCap \in Nat \ {0} /\ PageMax \in Nat \ {0}
  /\ \A s \in Scenarios :
       /\ s.auth \in {"file", "sqlite"} /\ s.users \subseteq Clients /\ s.edits \in Nat /\ s.mishaps \in Nat
       /\ s.old \subseteq [id : {None} \X JobNames, owner : Clients \cup {None}, name : JobNames]
       /\ s.post \in [Clients -> Seq(Requests)]

VARIABLES
  auth,     \* "file" or "sqlite", fixed
  users,    \* keys with a row (an entry of auth.json)
  admins,   \* those with the admin flag
  grants,   \* keys granted the device, in a table of its own
  stray,    \* those granted it with no user row, or while remove-user was at theirs
  cli,      \* keys whose user row a remove-user has still to delete
  edits,    \* commands the operator may still give
  post,     \* per client, the requests [door, arg] it still has to send
  req,      \* per client, the request being served
  answers,  \* answers given: [to, door, arg, got, admin]
  jobs,     \* per job, [st, owner, name]
  scheds,   \* repeatable job schedulers: [id, owner, name]
  made,     \* schedulers created and not removed by their creator, <<owner, name>>
  events,   \* queue events not handled yet, in stream order
  mishaps,  \* retries, stalls and lost records still to come
  hist,     \* jobinfo lists: per name, records [job, st], newest first
  lost      \* jobs whose last event found redis failing and left no record

storeVars == <<auth, users, admins, grants, stray, cli, edits>>
jobVars == <<jobs, scheds, made, events, mishaps>>
histVars == <<hist, lost>>
doorsVars == <<storeVars, post, req, answers, jobVars, histVars>>

NoJob == [st |-> "none", owner |-> None, name |-> "n"]
Idle  == [st |-> "idle", door |-> "none", arg |-> None, admin |-> FALSE]

(* FileAuthProvider reads auth.json once: a file that cannot be read or parsed
   leaves nobody authorised, a missing one is written with a demo key nobody
   has yet; COUNTINGHOUSE_API_KEY counts in any case, as an admin. *)
EnvKey(s) == {c \in Clients : s.auth = "file" /\ c = s.envKey}

FileUsers(s) ==
  LET inFile == IF s.file = "good" THEN s.users ELSE {}
  IN  inFile \cup EnvKey(s)

DoorsInit ==
  /\ \E s \in Scenarios :
       /\ auth = s.auth /\ post = s.post /\ edits = s.edits /\ mishaps = s.mishaps /\ scheds = s.old
       /\ users = IF s.auth = "file" THEN FileUsers(s) ELSE s.users
       /\ admins = (s.admins \cap users) \cup EnvKey(s)
       /\ grants = IF s.auth = "file" THEN (s.grants \cap users) \cup EnvKey(s) ELSE s.grants
  /\ stray = grants \ users
  /\ cli = {}
  /\ req = [c \in Clients |-> Idle]
  /\ answers = {}
  /\ jobs = [j \in JobIDs |-> NoJob]
  /\ made = {} /\ events = <<>>
  /\ hist = [n \in JobNames |-> <<>>]
  /\ lost = {}

-----------------------------------------------------------------------------
(* The command-line tool edits the sqlite file beside the running server, each
   command a process of its own.  grant does not ask whether the key has a row. *)

Edit == auth = "sqlite" /\ edits > 0 /\ edits' = edits - 1
Serving == UNCHANGED <<post, req, answers, jobVars, histVars>>

AddUser(k) ==
  /\ Edit
  /\ users' = users \cup {k}
  /\ UNCHANGED <<auth, admins, grants, stray, cli>> /\ Serving

SetAdmin(k) ==
  /\ Edit /\ k \in users
  /\ admins' \in {admins \cup {k}, admins \ {k}}
  /\ UNCHANGED <<auth, users, grants, stray, cli>> /\ Serving

Grant(k) ==
  /\ Edit
  /\ grants' = grants \cup {k}
  /\ stray' = IF k \in users \ cli THEN stray ELSE stray \cup {k}
  /\ UNCHANGED <<auth, users, admins, cli>> /\ Serving

Revoke(k) ==
  /\ Edit
  /\ grants' = grants \ {k} /\ stray' = stray \ {k}
  /\ UNCHANGED <<auth, users, admins, cli>> /\ Serving

\* a slip: the user's row goes first
RemoveUserFirst(k) ==
  /\ Edit
  /\ users' = users \ {k} /\ admins' = admins \ {k}
  /\ cli' = cli \cup {k}
  /\ UNCHANGED <<auth, grants, stray>> /\ Serving

\* remove-user, its first statement: the device grants ...
RemoveUser(k) ==
  /\ Edit
  /\ grants' = grants \ {k} /\ stray' = stray \ {k}
  /\ cli' = cli \cup {k}
  /\ UNCHANGED <<auth, users, admins>> /\ Serving

\* ... and its second: the user, whose admin flag is in the same row, unless the
\* statement fails and the command exits
RemoveUserRow(k) ==
  /\ k \in cli
  /\ cli' = cli \ {k}
  /\ \/ users' = users \ {k} /\ admins' = admins \ {k}
     \/ UNCHANGED <<users, admins>>
  /\ UNCHANGED <<auth, grants, stray, edits>> /\ Serving

-----------------------------------------------------------------------------
(* A request, up to the door it is for *)

DeviceDoors == {"add", "repeat", "get", "history", "remove", "unrepeat", "task"}

Answer(c, got) ==
  /\ req' = [req EXCEPT ![c] = Idle]
  /\ answers' = answers \cup {[to |-> c, door |-> req[c].door, arg |-> req[c].arg, got |-> got, admin |-> req[c].admin]}

Refuse(c) == req' = [req EXCEPT ![c] = Idle] /\ UNCHANGED answers

Goto(c, st) == req' = [req EXCEPT ![c].st = st] /\ UNCHANGED answers

Send(c) ==
  /\ req[c].st = "idle" /\ post[c] # <<>>
  /\ req' = [req EXCEPT ![c] = [st |-> "user", door |-> Head(post[c]).door, arg |-> Head(post[c]).arg, admin |-> FALSE]]
  /\ post' = [post EXCEPT ![c] = Tail(@)]
  /\ UNCHANGED <<storeVars, answers, jobVars, histVars>>

Same == UNCHANGED <<storeVars, post, jobVars, histVars>>

\* FileAuthProvider.authenticate: user and device in one look
AuthenticateByFile(c) ==
  /\ req[c].st = "user" /\ req[c].door # "devices" /\ auth = "file"
  /\ IF c \in users /\ (req[c].door \in DeviceDoors => c \in grants)
       THEN req' = [req EXCEPT ![c].st = "gate", ![c].admin = c \in admins] /\ UNCHANGED answers
       ELSE Refuse(c)
  /\ Same

\* SqliteAuthProvider.authenticate: the user's row, then, for a device, the grant
AuthenticateUser(c) ==
  /\ req[c].st = "user" /\ req[c].door # "devices" /\ auth = "sqlite"
  /\ IF c \in users
       THEN /\ req' = [req EXCEPT ![c].st = IF req[c].door \in DeviceDoors THEN "device" ELSE "gate",
                                  ![c].admin = c \in admins]
            /\ UNCHANGED answers
       ELSE Refuse(c)
  /\ Same

AuthenticateDevice(c) ==
  /\ req[c].st = "device"
  /\ IF c \in grants THEN Goto(c, "gate") ELSE Refuse(c)
  /\ Same

\* listDevices, of the rows granted, without asking for a user
Granted(c) == c \in grants

\* the device-list route asks that and nothing else: a key without grants is
\* shown an empty list, which is no more than a refusal
ListDevices(c) ==
  /\ req[c].st = "user" /\ req[c].door = "devices"
  /\ IF Granted(c) THEN Answer(c, {}) ELSE Refuse(c)
  /\ Same

\* a query fails: SYSTEM_ERROR_USERDB_NA
AuthenticationFails(c) == req[c].st \in {"user", "device"} /\ auth = "sqlite" /\ Refuse(c) /\ Same

\* rateLimitGate: over the key's budget, or through, also when the limiter fails
Gate(c) ==
  /\ req[c].st = "gate" /\ req[c].door # "load"
  /\ Refuse(c) \/ Goto(c, "door")
  /\ Same

\* adminOnly, before a module-lifecycle route: not rate limited
AdminOnly(c) ==
  /\ req[c].st = "gate" /\ req[c].door = "load"
  /\ IF req[c].admin THEN Answer(c, {}) ELSE Refuse(c)
  /\ Same

At(c, doors) == req[c].st = "door" /\ req[c].door \in doors

-----------------------------------------------------------------------------
(* Jobs *)

\* a slip: any authenticated key, as before ownership was recorded
OwnsAny(c, j) == TRUE

\* ownsJob
Owns(c, j) == req[c].admin \/ jobs[j].owner = c

There(j) == jobs[j].st \notin {"none", "removed"}

Fresh == {j \in JobIDs : jobs[j].st = "none" /\ \A i \in 1 .. (j - 1) : jobs[i].st # "none"}

\* Queue.add: waiting at once, or delayed, of which no event is handled
Queued(j, owner, name) ==
  \E st \in {"waiting", "delayed"} :
    /\ jobs' = [jobs EXCEPT ![j] = [st |-> st, owner |-> owner, name |-> name]]
    /\ events' = IF st = "waiting" THEN Append(events, [job |-> j, st |-> st]) ELSE events

\* JobControl.addJob: the job, or an error of the queue's
Adds(c) ==
  /\ \/ Refuse(c) /\ UNCHANGED <<jobs, events>>
     \/ \E j \in Fresh : Queued(j, c, req[c].arg) /\ Answer(c, {j})
  /\ UNCHANGED <<storeVars, post, scheds, made, mishaps, histVars>>

\* the add-job route, and a task-augmented tools/call: the owner is the
\* authenticated key, whatever the request says
AddJobDoor(c) == At(c, {"add"}) /\ Adds(c)
CreateTask(c) == At(c, {"task"}) /\ Adds(c)

\* a slip: the scheduler is found by the name alone, as it was
BareId(c, name) == <<None, name>>

\* schedulerId
SchedulerId(c, name) == <<c, name>>

\* addJob with opts.repeat: upsertJobScheduler replaces one of the same id, or fails
AddRepeat(c) ==
  /\ At(c, {"repeat"})
  /\ \/ /\ LET id == SchedulerId(c, req[c].arg) IN
             scheds' = {s \in scheds : s.id # id} \cup {[id |-> id, owner |-> c, name |-> req[c].arg]}
        /\ made' = made \cup {<<c, req[c].arg>>}
        /\ Answer(c, {})
     \/ Refuse(c) /\ UNCHANGED <<scheds, made>>
  /\ UNCHANGED <<storeVars, post, jobs, events, mishaps, histVars>>

\* removeJob with isRepeat: the caller's own scheduler of that name; an admin
\* that has none tries the bare name, of a scheduler from before 8.0.0
RemoveRepeat(c) ==
  /\ At(c, {"unrepeat"})
  /\ LET own == {s \in scheds : s.id = SchedulerId(c, req[c].arg)}
         old == {s \in scheds : s.id = <<None, req[c].arg>> /\ req[c].admin}
         gone == IF own # {} THEN own ELSE old
     IN  /\ scheds' = scheds \ gone
         /\ IF gone = {} THEN Refuse(c) ELSE Answer(c, {})
  /\ made' = made \ {<<c, req[c].arg>>}
  /\ UNCHANGED <<storeVars, post, jobs, events, mishaps, histVars>>

\* a job that is not there, and one that is another's
Denied(c) == Refuse(c)

\* getJob and removeJob fetch the job and check its owner before anything else
Fetches(c, st) ==
  /\ LET j == req[c].arg IN IF There(j) /\ Owns(c, j) THEN Goto(c, st) ELSE Denied(c)
  /\ Same

GetJob(c) == At(c, {"get"}) /\ Fetches(c, "state")
TasksGet(c) == At(c, {"taskget"}) /\ Fetches(c, "state")
TasksResult(c) == At(c, {"result"}) /\ Fetches(c, "state")
TasksCancel(c) == At(c, {"cancel"}) /\ Fetches(c, "state")
AskRemove(c) == At(c, {"remove"}) /\ Fetches(c, "removing")

\* bullmqStateToTaskStatus
TaskStatus(st) == IF st \in {"completed", "failed"} THEN st ELSE "working"

\* getState, and the fields again: the answer; for tasks/result only that of a
\* settled task; for tasks/cancel the task's shape before it is removed
ReadJobState(c) ==
  /\ req[c].st = "state"
  /\ LET j == req[c].arg IN
       IF req[c].door = "cancel" THEN Goto(c, "again")
       ELSE IF req[c].door = "result" /\ TaskStatus(jobs[j].st) = "working" THEN Refuse(c)
       ELSE Answer(c, {j})
  /\ Same

\* handleTasksCancel: removeJob fetches and checks for itself
FetchAgain(c) == req[c].st = "again" /\ Fetches(c, "removing")

\* a slip: job.remove() is called and not awaited
RemovesAnyway(j) == TRUE

\* job.remove() rejects for a job that a queue worker has locked
Removes(j) == jobs[j].st # "active"

RemoveFetched(c) ==
  /\ req[c].st = "removing"
  /\ LET j == req[c].arg IN
       /\ IF Removes(j) THEN Answer(c, {j}) ELSE Refuse(c)
       /\ jobs' = IF jobs[j].st = "active" THEN jobs ELSE [jobs EXCEPT ![j].st = "removed"]
  /\ UNCHANGED <<storeVars, post, scheds, made, events, mishaps, histVars>>

\* listJobs: the newest of each state, whoever's they are, then the caller's own
Page == {j \in JobIDs : There(j) /\ Cardinality({i \in JobIDs : i > j /\ jobs[i].st = jobs[j].st}) < PageMax}

\* then their states; a job whose state cannot be read is left out
Readable(c) == SUBSET {j \in Page : Owns(c, j)}

ListJobs(c) ==
  /\ At(c, {"tasks"})
  /\ \E js \in Readable(c) : Answer(c, js)
  /\ Same

\* checkBalance of the authenticated key
ReadBalance(c) ==
  /\ At(c, {"balance"})
  /\ Answer(c, {}) \/ Refuse(c)
  /\ Same

-----------------------------------------------------------------------------
(* History *)

Trimmed(list) == IF Len(list) > HistMax THEN SubSeq(list, 1, HistMax) ELSE list

\* a slip: the record is put at the end of the list
SavedLast(list, record) == Trimmed(Append(list, record))

\* saveJobInfoToRedis: lpush, and ltrim
Saved(list, record) == Trimmed(<<record>> \o list)

Mishap == mishaps > 0 /\ mishaps' = mishaps - 1

\* An event's handler fetches the job as it is by now, under the state of the
\* event, and saves it; a job that is gone leaves no record, and neither does
\* an event at which redis fails, which is caught and forgotten.
EventHandled ==
  /\ events # <<>>
  /\ LET e == Head(events)
         n == jobs[e.job].name
     IN  \/ /\ hist' = IF There(e.job) THEN [hist EXCEPT ![n] = Saved(@, e)] ELSE hist
            /\ lost' = lost \ {e.job}
            /\ UNCHANGED mishaps
         \/ hist' = hist /\ lost' = lost \cup {e.job} /\ Mishap
  /\ events' = Tail(events)
  /\ UNCHANGED <<storeVars, post, req, answers, jobs, scheds, made>>

\* getJobHistory: the first record of each job of the caller's, up to the cap
Told(list, mine) ==
  LET own == {i \in DOMAIN list : list[i].job \in mine /\ \A k \in 1 .. (i - 1) : list[k].job # list[i].job}
  IN  {list[i] : i \in {i \in own : Cardinality({k \in own : k < i}) < HistCap}}

History(c) ==
  /\ At(c, {"history"})
  /\ Answer(c, {e.job : e \in Told(hist[req[c].arg], {j \in JobIDs : Owns(c, j)})})
  /\ Same

-----------------------------------------------------------------------------
(* The queue *)

Moves(j, st) ==
  /\ jobs' = [jobs EXCEPT ![j].st = st]
  /\ events' = Append(events, [job |-> j, st |-> st])
  /\ UNCHANGED <<storeVars, post, req, answers, scheds, made, histVars>>

JobDue(j) == jobs[j].st = "delayed" /\ Moves(j, "waiting") /\ UNCHANGED mishaps
JobStarts(j) == jobs[j].st = "waiting" /\ Moves(j, "active") /\ UNCHANGED mishaps
JobEnds(j) == jobs[j].st = "active" /\ (\E st \in {"completed", "failed"} : Moves(j, st)) /\ UNCHANGED mishaps

\* an attempt that was not the last fails
JobRetries(j) == jobs[j].st = "active" /\ Mishap /\ Moves(j, "waiting")

\* its queue worker lost the lock: the job waits again, then the event says why
JobStalls(j) ==
  /\ jobs[j].st = "active" /\ Mishap
  /\ jobs' = [jobs EXCEPT ![j].st = "waiting"]
  /\ events' = Append(Append(events, [job |-> j, st |-> "waiting"]), [job |-> j, st |-> "stalled"])
  /\ UNCHANGED <<storeVars, post, req, answers, scheds, made, histVars>>

\* a scheduler's next job: the data it was created with, its owner included
SchedulerFires(s) ==
  /\ \E j \in Fresh : Queued(j, s.owner, s.name)
  /\ UNCHANGED <<storeVars, post, req, answers, scheds, made, mishaps, histVars>>

-----------------------------------------------------------------------------
DoorsNext ==
  \/ \E c \in Clients :
       \/ Send(c) \/ AuthenticateByFile(c) \/ AuthenticateUser(c) \/ AuthenticateDevice(c)
       \/ AuthenticationFails(c) \/ ListDevices(c) \/ Gate(c) \/ AdminOnly(c)
       \/ AddJobDoor(c) \/ CreateTask(c) \/ AddRepeat(c) \/ RemoveRepeat(c)
       \/ GetJob(c) \/ TasksGet(c) \/ TasksResult(c) \/ TasksCancel(c) \/ AskRemove(c)
       \/ ReadJobState(c) \/ FetchAgain(c) \/ RemoveFetched(c) \/ ListJobs(c) \/ ReadBalance(c) \/ History(c)
       \/ AddUser(c) \/ SetAdmin(c) \/ Grant(c) \/ Revoke(c) \/ RemoveUser(c) \/ RemoveUserRow(c)
  \/ EventHandled
  \/ \E j \in JobIDs : JobDue(j) \/ JobStarts(j) \/ JobEnds(j) \/ JobRetries(j) \/ JobStalls(j)
  \/ \E s \in scheds : SchedulerFires(s)

DoorsSpec == DoorsInit /\ [][DoorsNext]_doorsVars

-----------------------------------------------------------------------------
\* A key that was no admin when its request came has been shown, and has
\* removed, no job but its own, through whichever door.
OnlyOwn ==
  \A a \in answers : ~a.admin => \A j \in a.got : jobs[j].owner = a.to

\* Whatever names other keys choose, a key's scheduler is there, and is its
\* own, until that key removes it.
SchedulersApart ==
  \A m \in made : \E s \in scheds : s.owner = m[1] /\ s.name = m[2]

\* Tenants never meet: not through any door, not through the names they share.
TenantsApart == OnlyOwn /\ SchedulersApart

\* Two queries decide as one, though the operator may be removing the user
\* between them: when the device's row is found the user's row is there too,
\* unless the device was granted again to a key removed or being removed.
PassedIsKnown ==
  [][\A c \in Clients : req[c].st = "device" /\ req'[c].st = "gate" => c \in grants /\ c \in users \cup stray]_doorsVars

\* A job reported removed or cancelled is gone: nothing will run it.
RemovedIsGone ==
  \A a \in answers : a.door \in {"remove", "cancel"} => jobs[a.arg].st = "removed"

\* the state of the queue a record stands for
Tells(st) == IF st = "stalled" THEN "waiting" ELSE st

\* Once the events are handled a key's history shows each of its jobs once, in
\* the state the job is in, as many as the cap and the trimmed list allow: all
\* but those delayed, and those whose last event met a failing redis.
HistoryTells ==
  events = <<>> =>
    \A c \in Clients, n \in JobNames :
      LET mine == {j \in JobIDs : jobs[j].owner = c /\ jobs[j].name = n}
          told == Told(hist[n], mine)
      IN  /\ \A e \in told : There(e.job) => e.job \in lost \/ jobs[e.job].st = Tells(e.st)
          /\ Cardinality({e.job : e \in told}) = Cardinality(told)
          /\ Len(hist[n]) < HistMax /\ Cardinality(told) < HistCap =>
               \A j \in mine : There(j) /\ jobs[j].st # "delayed" /\ j \notin lost => \E e \in told : e.job = j

\* What a key was told of its jobs is so: removed is removed, and the history
\* agrees with the queue once the events are in.
ReportsTrue == RemovedIsGone /\ HistoryTells
=============================================================================
