------------------------------- MODULE JobTasks -------------------------------
(***************************************************************************)
(* Background jobs and MCP tasks: the queue processor of                   *)
(* lib/job-control.js with its own timeout, DeviceManager.invokeJobs and   *)
(* jobsInFlight, the completion hook that stamps a job with its output     *)
(* schema, getJob's three reads, and tasks/result and tasks/cancel of      *)
(* lib/mcp/gateway.js.  The module that runs the jobs may be unloaded,     *)
(* reloaded or crash at any moment; each load may change its output        *)
(* schema, so a schema is named by the load that brought it.               *)
(***************************************************************************)
EXTENDS Integers, FiniteSets

CONSTANTS
  Jobs,         \* jobs that may be added
  MaxAttempts,  \* bound: opts.attempts
  MaxVersions   \* bound: loads of the module

ASSUME JobsAssumption ==
  /\ IsFiniteSet(Jobs) /\ "none" \notin Jobs
  /\ MaxAttempts \in Nat \ {0} /\ MaxVersions \in Nat \ {0}

Attempts == 1 .. MaxAttempts
Versions == 1 .. MaxVersions

VARIABLES
  version,   \* the loaded module's version, or 0
  loads,     \* modules loaded so far
  qstate,    \* the queue's state of each job
  attempts,  \* opts.attempts
  timed,     \* jobs with opts.timeout
  attempt,   \* the attempt each job is at
  returned,  \* job.returnvalue: the version that produced it, or 0
  hash,      \* job.data.outputSchemaHash: the schema it names, or 0
  run,       \* run[j][n]: the version that runs attempt n, or 0
  phase,     \* phase[j][n]: how far the processor's callback is
  settled,   \* attempts whose promise is settled
  inFlight,  \* jobsInFlight, as <<version, job>>
  charges,   \* recordCall calls made for each job
  expired,   \* history: attempts whose timeout fired
  read,      \* the one reader: a tasks/result request
  ask        \* one request of module code to the main thread, from the worker that
             \* is loaded then: about a job, a device log entry, a redis command

queueVars == <<qstate, attempts, timed, attempt, returned, hash>>
runVars == <<run, phase, settled, inFlight, charges, expired>>
moduleVars == <<version, loads>>
vars == <<moduleVars, queueVars, runVars, read, ask>>

Snapshot(j) == [returned |-> returned[j], hash |-> hash[j]]
Nothing == [returned |-> 0, hash |-> 0]
NoAsk == [what |-> "none", from |-> 0, job |-> "none", at |-> "idle"]
NoRead == [job |-> "none", at |-> "idle", state |-> "none", snap |-> Nothing, schema |-> 0]

Init ==
  /\ version = 0 /\ loads = 0
  /\ qstate = [j \in Jobs |-> "absent"]
  /\ attempts = [j \in Jobs |-> 1] /\ timed = {}
  /\ attempt = [j \in Jobs |-> 0]
  /\ returned = [j \in Jobs |-> 0] /\ hash = [j \in Jobs |-> 0]
  /\ run = [j \in Jobs |-> [n \in Attempts |-> 0]]
  /\ phase = [j \in Jobs |-> [n \in Attempts |-> "none"]]
  /\ settled = {} /\ inFlight = {} /\ expired = {}
  /\ charges = [j \in Jobs |-> 0]
  /\ read = NoRead /\ ask = NoAsk

(***************************************************************************)
(* The queue (bullmq): a failed attempt is retried while any are left.     *)
(***************************************************************************)

\* addJob: a task has one attempt and no timeout, an HTTP job may have both.
AddJob(j) ==
  /\ qstate[j] = "absent"
  /\ qstate' = [qstate EXCEPT ![j] = "waiting"]
  /\ \E n \in Attempts : attempts' = [attempts EXCEPT ![j] = n]
  /\ timed' \in {timed, timed \cup {j}}
  /\ UNCHANGED <<moduleVars, attempt, returned, hash, runVars, read, ask>>

\* Where a rejection of attempt n leaves job j: nowhere new once n's promise is
\* settled; UnrecoverableError (MODULE_UNLOADED) is not retried.
FailedAttempt(j, n, retry) == IF retry /\ n < attempts[j] THEN "waiting" ELSE "failed"

Reject(j, n, retry) ==
  /\ settled' = settled \cup {<<j, n>>}
  /\ qstate' = IF <<j, n>> \in settled THEN qstate
               ELSE [qstate EXCEPT ![j] = FailedAttempt(j, n, retry)]

\* The processor: invokeJobs finds the device, or fails at once.
StartAttempt(j) ==
  LET n == attempt[j] + 1 IN
    /\ qstate[j] = "waiting"
    /\ attempt' = [attempt EXCEPT ![j] = n]
    /\ IF version = 0
       THEN /\ settled' = settled \cup {<<j, n>>}
            /\ qstate' = [qstate EXCEPT ![j] = FailedAttempt(j, n, TRUE)]
            /\ phase' = [phase EXCEPT ![j][n] = "over"]
            /\ UNCHANGED <<run, inFlight>>
       ELSE /\ qstate' = [qstate EXCEPT ![j] = "active"]
            /\ phase' = [phase EXCEPT ![j][n] = "running"]
            /\ run' = [run EXCEPT ![j][n] = version]
            /\ inFlight' = inFlight \cup {<<version, j>>}
            /\ UNCHANGED settled
    /\ UNCHANGED <<moduleVars, attempts, timed, returned, hash, charges, expired, read, ask>>

\* The processor's own timer: the attempt is given up, and goes on running.
TimeoutFires(j, n) ==
  /\ j \in timed /\ phase[j][n] = "running" /\ <<j, n>> \notin settled
  /\ Reject(j, n, TRUE)
  /\ expired' = expired \cup {<<j, n>>}
  /\ UNCHANGED <<moduleVars, attempts, timed, attempt, returned, hash,
                 run, phase, inFlight, charges, read, ask>>

(***************************************************************************)
(* The answer of the worker, and what the processor does with it.          *)
(***************************************************************************)

\* invokeJobs' callback: the job leaves its worker's list.
Deleted(j, n) == inFlight \ {<<run[j][n], j>>}

\* Mutant: a callback that fails is recorded too.
ActionFailsCharged(j, n) ==
  /\ phase[j][n] = "running" /\ run[j][n] = version
  /\ inFlight' = Deleted(j, n)
  /\ phase' = [phase EXCEPT ![j][n] = "over"]
  /\ charges' = [charges EXCEPT ![j] = @ + 1]
  /\ Reject(j, n, TRUE)
  /\ UNCHANGED <<moduleVars, attempts, timed, attempt, returned, hash, run, expired, read, ask>>

ActionFails(j, n) ==
  /\ phase[j][n] = "running" /\ run[j][n] = version
  /\ inFlight' = Deleted(j, n)
  /\ phase' = [phase EXCEPT ![j][n] = "over"]
  /\ Reject(j, n, TRUE)
  /\ UNCHANGED <<moduleVars, attempts, timed, attempt, returned, hash,
                 run, charges, expired, read, ask>>

\* The call is recorded, whether or not the attempt was given up meanwhile, and
\* the hook looks the action up among the loaded modules.
ActionSucceeds(j, n) ==
  /\ phase[j][n] = "running" /\ run[j][n] = version
  /\ inFlight' = Deleted(j, n)
  /\ charges' = [charges EXCEPT ![j] = @ + 1]
  /\ phase' = [phase EXCEPT ![j][n] = "stamping"]
  /\ UNCHANGED <<moduleVars, queueVars, run, settled, expired, read, ask>>

\* fetchSchema answers after an authorisation lookup: the schema of whatever is
\* loaded by then, or none (the lookup failed, or the module is gone); updateData
\* fails for a job that was removed.
StampResolves(j, n) ==
  /\ phase[j][n] = "stamping"
  /\ phase' = [phase EXCEPT ![j][n] = "resolving"]
  /\ \E s \in {0, version} :
       hash' = IF s = 0 \/ qstate[j] = "removed" THEN hash ELSE [hash EXCEPT ![j] = s]
  /\ UNCHANGED <<moduleVars, qstate, attempts, timed, attempt, returned,
                 run, settled, inFlight, charges, expired, read, ask>>

\* resolve(results): too late for an attempt that was given up.
Resolve(j, n) ==
  /\ phase[j][n] = "resolving"
  /\ phase' = [phase EXCEPT ![j][n] = "over"]
  /\ settled' = settled \cup {<<j, n>>}
  /\ IF <<j, n>> \in settled THEN UNCHANGED <<qstate, returned>>
     ELSE /\ qstate' = [qstate EXCEPT ![j] = "completed"]
          /\ returned' = [returned EXCEPT ![j] = run[j][n]]
  /\ UNCHANGED <<moduleVars, attempts, timed, attempt, hash,
                 run, inFlight, charges, expired, read, ask>>

(***************************************************************************)
(* The module.                                                             *)
(***************************************************************************)

LoadModule ==
  /\ version = 0 /\ loads < MaxVersions
  /\ loads' = loads + 1
  /\ version' = loads'
  /\ UNCHANGED <<queueVars, runVars, read, ask>>

\* Mutant: the requests an ended worker held are forgotten.
NoneOwed == {}

\* The requests the loaded worker has not answered.
Owed == {a \in Jobs \X Attempts : phase[a[1]][a[2]] = "running" /\ run[a[1]][a[2]] = version}

\* endWith answers them: MODULE_UNLOADED is final, MODULE_RELOADING and
\* MODULE_RESTARTING are retried.
ModuleEnds(retry) ==
  /\ version # 0
  /\ version' = 0
  /\ phase' = [j \in Jobs |-> [n \in Attempts |-> IF <<j, n>> \in Owed THEN "over" ELSE phase[j][n]]]
  /\ settled' = settled \cup Owed
  /\ qstate' = [j \in Jobs |->
       IF <<j, attempt[j]>> \in Owed \ settled THEN FailedAttempt(j, attempt[j], retry) ELSE qstate[j]]
  /\ inFlight' = inFlight \ {<<version, a[1]>> : a \in Owed}
  /\ UNCHANGED <<loads, attempts, timed, attempt, returned, hash, run, charges, expired, read, ask>>

(***************************************************************************)
(* The front doors.                                                        *)
(***************************************************************************)

\* tasks/cancel and remove-job: an active job is locked and is not removed.
RemoveJob(j) ==
  /\ qstate[j] \in {"waiting", "completed", "failed"}
  /\ qstate' = [qstate EXCEPT ![j] = "removed"]
  /\ UNCHANGED <<moduleVars, attempts, timed, attempt, returned, hash, runVars, read, ask>>

\* tasks/result: getJob fetches the job ...
ReadJob(j) ==
  /\ read.at = "idle" /\ qstate[j] \notin {"absent", "removed"}
  /\ read' = [NoRead EXCEPT !.job = j, !.at = "state", !.snap = Snapshot(j)]
  /\ UNCHANGED <<moduleVars, queueVars, runVars, ask>>

\* ... then asks for its state ...
ReadState ==
  /\ read.at = "state"
  /\ read' = [read EXCEPT !.state = qstate[read.job],
                          !.at = IF qstate[read.job] \in {"completed", "failed"} THEN "refetch" ELSE "schema"]
  /\ UNCHANGED <<moduleVars, queueVars, runVars, ask>>

\* Mutant: the job as first fetched is good enough.
FirstFetch == read.snap

\* ... and fetches a finished job again, unless it was removed meanwhile.
Refetched == IF qstate[read.job] = "removed" THEN read.snap ELSE Snapshot(read.job)

Refetch ==
  /\ read.at = "refetch"
  /\ read' = [read EXCEPT !.snap = Refetched, !.at = "schema"]
  /\ UNCHANGED <<moduleVars, queueVars, runVars, ask>>

\* A completed job is shaped by the schema of the module as it is loaded now, if
\* it resolves and is the one the job is stamped with.
ReadSchema ==
  /\ read.at = "schema"
  /\ \E s \in {0, version} :
       read' = [read EXCEPT !.at = "answered",
                            !.schema = IF read.state = "completed" /\ read.snap.hash = s THEN s ELSE 0]
  /\ UNCHANGED <<moduleVars, queueVars, runVars, ask>>

ReadAgain ==
  /\ read.at = "answered"
  /\ read' = NoRead
  /\ UNCHANGED <<moduleVars, queueVars, runVars, ask>>

(***************************************************************************)
(* What a worker may do to a job.                                          *)
(***************************************************************************)

Replied == [NoAsk EXCEPT !.at = "replied"]

\* sendActiveMessageToParent, and sendMessageToParent for progress.
Asks(what, j) ==
  /\ version # 0 /\ ask.at = "idle"
  /\ ask' = [what |-> what, from |-> version, job |-> j, at |-> "sent"]
  /\ UNCHANGED <<moduleVars, queueVars, runVars, read>>

\* ctx.job.info and ctx.job.progress, with a job id of the module's choosing.
JobInfo(j) == Asks("info", j)
JobProgress(j) == Asks("progress", j)

\* ctx.log, and the redis client of a worker, with an operation of its choosing.
DeviceLog == Asks("log", "none")
RedisCommand == \E op \in {"get", "other"} : Asks(op, "none")

\* Mutant: any job of the queue, as it was.
RunsAnyJob(v, j) == TRUE

\* runsJob.
RunsJob(v, j) == <<v, j>> \in inFlight

\* isCommand: the commands both the library and the server's list know.
IsCommand(op) == op = "get"

\* A message of the kinds given arrives: it is served, or answered on the spot.
\* Progress is never answered.
Received(kinds, served) ==
  /\ ask.at = "sent" /\ ask.what \in kinds
  /\ ask' = IF served THEN [ask EXCEPT !.at = "serving"]
            ELSE IF ask.what = "progress" THEN NoAsk ELSE Replied
  /\ UNCHANGED <<moduleVars, queueVars, runVars, read>>

\* --moduleMessageRate: one message too many.  Progress is not counted.
OverRate == Received({"info", "log", "get", "other"}, FALSE)

\* 'getjobinfo' and 'jobprogress': the list is consulted, and then the queue.
InfoReceived == Received({"info"}, RunsJob(ask.from, ask.job))
ProgressReceived == Received({"progress"}, RunsJob(ask.from, ask.job))
LogReceived == Received({"log"}, TRUE)
RedisReceived == Received({"get", "other"}, IsCommand(ask.what))

Served(kinds, next) ==
  /\ ask.at = "serving" /\ ask.what \in kinds
  /\ ask' = next
  /\ UNCHANGED <<moduleVars, queueVars, runVars, read>>

\* getJob for the main thread itself, without the creator's key, and the reply;
\* updateJobProgress, without one.
InfoServed == Served({"info"}, Replied)
ProgressUpdated == Served({"progress"}, NoAsk)

\* Redis answers the log's transaction, or the command, or fails it.
LogStored == Served({"log"}, Replied)
RedisAnswers == Served({"get"}, Replied)

\* The reply finds its callback in the worker's msgQueue, or the worker is gone.
ReplyHeard ==
  /\ ask.at = "replied"
  /\ ask' = NoAsk
  /\ UNCHANGED <<moduleVars, queueVars, runVars, read>>

AskStep ==
  \/ \E j \in Jobs : JobInfo(j) \/ JobProgress(j)
  \/ DeviceLog \/ RedisCommand
  \/ OverRate \/ InfoReceived \/ ProgressReceived \/ LogReceived \/ RedisReceived
  \/ InfoServed \/ ProgressUpdated \/ LogStored \/ RedisAnswers \/ ReplyHeard

ReaderStep == ReadState \/ Refetch \/ ReadSchema \/ ReadAgain \/ \E j \in Jobs : ReadJob(j)

AttemptStep(j, n) ==
  ActionFails(j, n) \/ ActionSucceeds(j, n) \/ StampResolves(j, n) \/ Resolve(j, n)

Next ==
  \/ \E j \in Jobs : AddJob(j) \/ StartAttempt(j) \/ RemoveJob(j)
  \/ \E j \in Jobs, n \in Attempts : TimeoutFires(j, n) \/ AttemptStep(j, n)
  \/ LoadModule
  \/ \E retry \in BOOLEAN : ModuleEnds(retry)
  \/ ReaderStep
  \/ AskStep

\* The queue hands out what waits, actions call back or their worker ends, and
\* the lookups and Redis writes after them finish.
Fairness ==
  \A j \in Jobs : WF_vars(StartAttempt(j)) /\ \A n \in Attempts : WF_vars(AttemptStep(j, n))

Spec == Init /\ [][Next]_vars /\ Fairness

(***************************************************************************)
(* Properties.                                                             *)
(***************************************************************************)

QueueStates == {"absent", "waiting", "active", "completed", "failed", "removed"}

QueueType ==
  /\ version \in 0 .. MaxVersions /\ loads \in 0 .. MaxVersions
  /\ qstate \in [Jobs -> QueueStates]
  /\ attempts \in [Jobs -> Attempts] /\ timed \subseteq Jobs
  /\ attempt \in [Jobs -> 0 .. MaxAttempts]
  /\ returned \in [Jobs -> 0 .. MaxVersions] /\ hash \in [Jobs -> 0 .. MaxVersions]

RunType ==
  /\ run \in [Jobs -> [Attempts -> 0 .. MaxVersions]]
  /\ phase \in [Jobs -> [Attempts -> {"none", "running", "stamping", "resolving", "over"}]]
  /\ settled \subseteq Jobs \X Attempts /\ expired \subseteq Jobs \X Attempts
  /\ inFlight \subseteq Versions \X Jobs
  /\ charges \in [Jobs -> Nat]

ReadType ==
  read \in [job : Jobs \cup {"none"}, at : {"idle", "state", "refetch", "schema", "answered"},
            state : QueueStates \cup {"none"}, schema : 0 .. MaxVersions,
            snap : [returned : 0 .. MaxVersions, hash : 0 .. MaxVersions]]

AskType ==
  ask \in [what : {"none", "info", "progress", "log", "get", "other"}, from : 0 .. MaxVersions,
           job : Jobs \cup {"none"}, at : {"idle", "sent", "serving", "replied"}]

\* Every variable has its type.
TypeOK == QueueType /\ RunType /\ ReadType /\ AskType

Expired(j) == {n \in Attempts : <<j, n>> \in expired}

\* However often a job is retried, it is charged once at most, plus once for each
\* attempt that was given up on its timeout and then succeeded all the same; one
\* reported completed was charged, one reported failed was not, unless an attempt
\* of it timed out.
ChargedOnce ==
  \A j \in Jobs :
    /\ charges[j] <= 1 + Cardinality(Expired(j))
    /\ qstate[j] = "failed" /\ Expired(j) = {} => charges[j] = 0
    /\ qstate[j] = "completed" => charges[j] > 0

\* The list a worker's requests are checked against names only what it is running
\* now, through timeouts, retries and reloads; so a worker that reads or updates
\* a job has itself been given that job to run.
WorkersSeeOwnJobs ==
  /\ \A p \in inFlight : \E n \in Attempts : phase[p[2]][n] = "running" /\ run[p[2]][n] = p[1]
  /\ ask.at = "serving" /\ ask.job \in Jobs => \E n \in Attempts : run[ask.job][n] = ask.from

\* A read that reports a job completed carries its result, although state and
\* result are read apart; only a removal in between may lose it.
SettledRead ==
  read.at \in {"schema", "answered"} /\ read.state = "completed" =>
    read.snap.returned # 0 \/ qstate[read.job] = "removed"

\* Every job comes to an end, whatever happens to the module that runs it.
JobsFinish ==
  \A j \in Jobs : qstate[j] = "waiting" ~> qstate[j] \in {"completed", "failed", "removed"}
=============================================================================
