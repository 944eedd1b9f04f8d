----------------------------- MODULE JobProofs -----------------------------
(***************************************************************************)
(* Proofs about the jobs: JobTasks.tla, for every set of jobs and any      *)
(* number of attempts and loads of the module, and TenantDoors.tla, for    *)
(* every set of clients, jobs and names and any number of requests in      *)
(* flight.                                                                 *)
(*                                                                         *)
(* IInv is the inductive invariant of JobTasks. It adds to the properties  *)
(* the run checks which attempt a job is at and what the others can still  *)
(* do (Attempting), which attempts a charge can be for (Charging), and     *)
(* what the reader and the asking worker hold on to (Reading, Asking).     *)
(*                                                                         *)
(* DoorsInv is the one of TenantDoors: the providers' store (StoreInv),    *)
(* the jobs and the order they were made in, and what each request under   *)
(* way has established so far (RequestsInv).                               *)
(***************************************************************************)
EXTENDS JobTasks, TenantDoors, QueueLemmas

\* An attempt the processor is not done with.
Open == {"running", "stamping", "resolving"}

\* Only the attempt a job is at can still settle it, and the job is active then;
\* an attempt that runs on after it was settled has timed out.
Attempting ==
  \A j \in Jobs :
    /\ qstate[j] = "absent" => attempt[j] = 0
    /\ qstate[j] = "waiting" => attempt[j] < attempts[j]
    /\ \A n \in Attempts :
         /\ n > attempt[j] => /\ phase[j][n] = "none"
                              /\ <<j, n>> \notin settled /\ <<j, n>> \notin expired
         /\ phase[j][n] \in Open => run[j][n] # 0
         /\ phase[j][n] \in Open /\ <<j, n>> \notin settled =>
              qstate[j] = "active" /\ n = attempt[j]
         /\ phase[j][n] = "running" /\ <<j, n>> \in settled => <<j, n>> \in expired

\* The attempts that timed out and have answered since.
LateAnswers(j) == {n \in Attempts : <<j, n>> \in expired /\ phase[j][n] # "running"}

\* The job has completed, or its current attempt succeeded and is being recorded.
Succeeding(j) ==
  \/ qstate[j] \in {"completed", "removed"}
  \/ \E n \in Attempts : phase[j][n] \in {"stamping", "resolving"} /\ <<j, n>> \notin settled

\* A charge is for the success of the job or for a late answer.
ChargedRight(j) ==
  /\ charges[j] <= Cardinality(LateAnswers(j)) + (IF Succeeding(j) THEN 1 ELSE 0)
  /\ \A n \in Attempts : phase[j][n] \in {"stamping", "resolving"} => charges[j] > 0
  /\ qstate[j] = "completed" => charges[j] > 0

Charging == \A j \in Jobs : ChargedRight(j)

\* The list of a worker's jobs names what it runs.
InFlight ==
  \A p \in inFlight : \E n \in Attempts : phase[p[2]][n] = "running" /\ run[p[2]][n] = p[1]

\* A completed job has its result, and a job once seen completed is so, or gone.
Reading ==
  /\ \A j \in Jobs : qstate[j] = "completed" => returned[j] # 0
  /\ read.at # "idle" => read.job \in Jobs
  /\ read.at = "refetch" /\ read.state = "completed" => qstate[read.job] \in {"completed", "removed"}
  /\ SettledRead

\* A request that is served is about a job the worker was given.
Asking ==
  /\ ask.what \notin {"info", "progress"} => ask.job = "none"
  /\ ask.at = "serving" /\ ask.job \in Jobs =>
       \E n \in Attempts : n <= attempt[ask.job] /\ run[ask.job][n] = ask.from

IInv == TypeOK /\ Attempting /\ Charging /\ InFlight /\ Reading /\ Asking

(***************************************************************************)
(* Types.                                                                  *)
(***************************************************************************)

\* A waiting job has an attempt left.
LEMMA NextAttempt ==
  ASSUME QueueType, Attempting, NEW j \in Jobs, qstate[j] = "waiting"
  PROVE  attempt[j] + 1 \in Attempts /\ attempt[j] + 1 <= attempts[j]
  BY JobsAssumption DEF QueueType, Attempting, Attempts

\* The steps of the queue, the worker and the module leave the doors alone.
LEMMA QueueOnly ==
  ASSUME [Next]_vars
  PROVE  ReaderStep \/ AskStep \/ UNCHANGED <<read, ask>>
  BY DEF Next, AttemptStep, AddJob, StartAttempt, RemoveJob, TimeoutFires, ActionFails,
         ActionSucceeds, StampResolves, Resolve, LoadModule, ModuleEnds, vars

\* The reader and the asking worker change nothing but themselves.
LEMMA DoorsOnly ==
  ASSUME ReaderStep \/ AskStep \/ UNCHANGED vars
  PROVE  UNCHANGED <<moduleVars, queueVars, runVars>>
  BY DEF vars, ReaderStep, ReadState, Refetch, ReadSchema, ReadAgain, ReadJob,
         AskStep, JobInfo, JobProgress, DeviceLog, RedisCommand, Asks, OverRate, InfoReceived,
         ProgressReceived, LogReceived, RedisReceived, Received, InfoServed, ProgressUpdated,
         LogStored, RedisAnswers, Served, ReplyHeard

\* One entry of a table of tables changes.
LEMMA Update2 ==
  ASSUME NEW S, NEW T, NEW V, NEW f \in [S -> [T -> V]], NEW s \in S, NEW t \in T, NEW v \in V
  PROVE  /\ [f EXCEPT ![s][t] = v] \in [S -> [T -> V]]
         /\ \A a \in S, b \in T :
              [f EXCEPT ![s][t] = v][a][b] = IF a = s /\ b = t THEN v ELSE f[a][b]
  OBVIOUS

\* A rejection settles the attempt, and decides its job unless it was settled.
LEMMA RejectFacts ==
  ASSUME QueueType, RunType, NEW j \in Jobs, NEW n \in Attempts, NEW retry \in BOOLEAN,
         Reject(j, n, retry)
  PROVE  /\ settled' = settled \cup {<<j, n>>} /\ settled' \subseteq Jobs \X Attempts
         /\ qstate' \in [Jobs -> QueueStates]
         /\ <<j, n>> \in settled => qstate' = qstate
         /\ <<j, n>> \notin settled =>
              qstate' = [qstate EXCEPT ![j] = FailedAttempt(j, n, retry)]
         /\ FailedAttempt(j, n, retry) \in {"waiting", "failed"}
         /\ FailedAttempt(j, n, retry) = "waiting" => n < attempts[j]
  <1>1. FailedAttempt(j, n, retry) \in {"waiting", "failed"}
    BY DEF FailedAttempt
  <1>2. qstate' \in [Jobs -> QueueStates]
    BY <1>1 DEF Reject, QueueType, QueueStates
  <1> QED BY <1>1, <1>2 DEF Reject, RunType, FailedAttempt

\* The processor starts attempt n of job j, which leaves the job in state q.
StartFacts(j, n, q) ==
  /\ n = attempt[j] + 1 /\ qstate[j] = "waiting" /\ n <= attempts[j]
  /\ attempt' = [attempt EXCEPT ![j] = n]
  /\ qstate' = [qstate EXCEPT ![j] = q]
  /\ q = "waiting" => n < attempts[j]
  /\ q # "active" => /\ settled' = settled \cup {<<j, n>>}
                     /\ phase' = [phase EXCEPT ![j][n] = "over"]
                     /\ UNCHANGED <<run, inFlight>>
  /\ q = "active" => /\ version # 0
                     /\ phase' = [phase EXCEPT ![j][n] = "running"]
                     /\ run' = [run EXCEPT ![j][n] = version]
                     /\ inFlight' = inFlight \cup {<<version, j>>}
                     /\ UNCHANGED settled
  /\ UNCHANGED <<moduleVars, attempts, timed, returned, hash, charges, expired, read, ask>>

\* StartAttempt starts one of the job's attempts.
LEMMA StartAttemptFacts ==
  ASSUME QueueType, Attempting, NEW j \in Jobs, StartAttempt(j)
  PROVE  \E n \in Attempts, q \in {"waiting", "failed", "active"} : StartFacts(j, n, q)
  <1> DEFINE n == attempt[j] + 1
             q == IF version = 0 THEN FailedAttempt(j, n, TRUE) ELSE "active"
  <1>1. n \in Attempts /\ n <= attempts[j]
    BY NextAttempt DEF StartAttempt
  <1>2. FailedAttempt(j, n, TRUE) \in {"waiting", "failed"}
    BY DEF FailedAttempt
  <1>3. FailedAttempt(j, n, TRUE) = "waiting" => n < attempts[j]
    BY DEF FailedAttempt
  <1>4. StartFacts(j, n, q)
    BY <1>1, <1>2, <1>3 DEF StartFacts, StartAttempt
  <1>5. q \in {"waiting", "failed", "active"}
    BY <1>2
  <1> QED BY <1>1, <1>4, <1>5

\* The queue and the attempts keep their types.
LEMMA QueueTypeStep ==
  ASSUME QueueType, RunType, Attempting, [Next]_vars
  PROVE  QueueType' /\ RunType'
  <1>1. ASSUME NEW j \in Jobs, AddJob(j) PROVE QueueType' /\ RunType'
    <2>1. QueueType'
      BY <1>1 DEF AddJob, QueueType, QueueStates, moduleVars
    <2>2. RunType'
      BY <1>1 DEF AddJob, RunType, runVars
    <2> QED BY <2>1, <2>2
  <1>2. ASSUME NEW j \in Jobs, StartAttempt(j) PROVE QueueType' /\ RunType'
    <2>1. PICK n \in Attempts, q \in {"waiting", "failed", "active"} : StartFacts(j, n, q)
      BY <1>2, StartAttemptFacts
    <2>2. n \in 0 .. MaxAttempts
      BY JobsAssumption DEF Attempts
    <2>3. /\ qstate' \in [Jobs -> QueueStates]
          /\ attempt' \in [Jobs -> 0 .. MaxAttempts]
      <3>1. q \in QueueStates
        BY DEF QueueStates
      <3> QED BY <2>1, <2>2, <3>1 DEF StartFacts, QueueType
    <2>4. QueueType'
      BY <2>1, <2>3 DEF StartFacts, QueueType, moduleVars
    <2>5. phase' \in [Jobs -> [Attempts -> {"none", "running", "stamping", "resolving", "over"}]]
      <3>1. PICK v \in {"running", "over"} : phase' = [phase EXCEPT ![j][n] = v]
        BY <2>1 DEF StartFacts
      <3> QED BY <3>1 DEF RunType
    <2>6. run' \in [Jobs -> [Attempts -> 0 .. MaxVersions]]
      <3>1. version \in 0 .. MaxVersions
        BY DEF QueueType
      <3>2. run' = run \/ run' = [run EXCEPT ![j][n] = version]
        BY <2>1 DEF StartFacts
      <3>3. CASE run' = run
        BY <3>3 DEF RunType
      <3>4. CASE run' = [run EXCEPT ![j][n] = version]
        BY <3>1, <3>4 DEF RunType
      <3> QED BY <3>2, <3>3, <3>4
    <2>7. settled' \subseteq Jobs \X Attempts /\ inFlight' \subseteq Versions \X Jobs
      BY <2>1, JobsAssumption DEF StartFacts, RunType, QueueType, Versions
    <2> QED BY <2>1, <2>4, <2>5, <2>6, <2>7 DEF StartFacts, RunType
  <1>3. ASSUME NEW j \in Jobs, RemoveJob(j) PROVE QueueType' /\ RunType'
    <2>1. QueueType'
      BY <1>3 DEF RemoveJob, QueueType, QueueStates, moduleVars
    <2>2. RunType'
      BY <1>3 DEF RemoveJob, RunType, runVars
    <2> QED BY <2>1, <2>2
  <1>4. ASSUME NEW j \in Jobs, NEW n \in Attempts, TimeoutFires(j, n) PROVE QueueType' /\ RunType'
    <2>1. settled' \subseteq Jobs \X Attempts /\ qstate' \in [Jobs -> QueueStates]
      BY <1>4, RejectFacts DEF TimeoutFires
    <2>2. QueueType'
      BY <1>4, <2>1 DEF TimeoutFires, QueueType, moduleVars
    <2>3. RunType'
      BY <1>4, <2>1 DEF TimeoutFires, RunType
    <2> QED BY <2>2, <2>3
  <1>5. ASSUME NEW j \in Jobs, NEW n \in Attempts, ActionFails(j, n) PROVE QueueType' /\ RunType'
    <2>1. settled' \subseteq Jobs \X Attempts /\ qstate' \in [Jobs -> QueueStates]
      BY <1>5, RejectFacts DEF ActionFails
    <2>2. QueueType'
      BY <1>5, <2>1 DEF ActionFails, QueueType, moduleVars
    <2>3. phase' \in [Jobs -> [Attempts -> {"none", "running", "stamping", "resolving", "over"}]]
      BY <1>5 DEF ActionFails, RunType
    <2>4. RunType'
      BY <1>5, <2>1, <2>3 DEF ActionFails, RunType, Deleted
    <2> QED BY <2>2, <2>4
  <1>6. ASSUME NEW j \in Jobs, NEW n \in Attempts, ActionSucceeds(j, n) PROVE QueueType' /\ RunType'
    <2>1. QueueType'
      BY <1>6 DEF ActionSucceeds, QueueType, moduleVars, queueVars
    <2>2. phase' \in [Jobs -> [Attempts -> {"none", "running", "stamping", "resolving", "over"}]]
      BY <1>6 DEF ActionSucceeds, RunType
    <2>3. charges' \in [Jobs -> Nat]
      BY <1>6 DEF ActionSucceeds, RunType
    <2>4. RunType'
      BY <1>6, <2>2, <2>3 DEF ActionSucceeds, RunType, Deleted
    <2> QED BY <2>1, <2>4
  <1>7. ASSUME NEW j \in Jobs, NEW n \in Attempts, StampResolves(j, n) PROVE QueueType' /\ RunType'
    <2>1. hash' \in [Jobs -> 0 .. MaxVersions]
      BY <1>7 DEF StampResolves, QueueType
    <2>2. QueueType'
      BY <1>7, <2>1 DEF StampResolves, QueueType, moduleVars
    <2>3. phase' \in [Jobs -> [Attempts -> {"none", "running", "stamping", "resolving", "over"}]]
      BY <1>7 DEF StampResolves, RunType
    <2>4. RunType'
      BY <1>7, <2>3 DEF StampResolves, RunType
    <2> QED BY <2>2, <2>4
  <1>8. ASSUME NEW j \in Jobs, NEW n \in Attempts, Resolve(j, n) PROVE QueueType' /\ RunType'
    <2>0. run[j][n] \in 0 .. MaxVersions
      BY DEF RunType
    <2>1. /\ qstate' \in [Jobs -> QueueStates]
          /\ returned' \in [Jobs -> 0 .. MaxVersions]
      BY <1>8, <2>0 DEF Resolve, QueueType, QueueStates
    <2>2. QueueType'
      BY <1>8, <2>1 DEF Resolve, QueueType, moduleVars
    <2>3. phase' \in [Jobs -> [Attempts -> {"none", "running", "stamping", "resolving", "over"}]]
      BY <1>8 DEF Resolve, RunType
    <2>4. RunType'
      BY <1>8, <2>3 DEF Resolve, RunType
    <2> QED BY <2>2, <2>4
  <1>9. ASSUME LoadModule PROVE QueueType' /\ RunType'
    <2>1. QueueType'
      BY <1>9, JobsAssumption DEF LoadModule, QueueType, queueVars
    <2>2. RunType'
      BY <1>9 DEF LoadModule, RunType, runVars
    <2> QED BY <2>1, <2>2
  <1>10. ASSUME NEW retry \in BOOLEAN, ModuleEnds(retry) PROVE QueueType' /\ RunType'
    <2>1. qstate' \in [Jobs -> QueueStates]
      BY <1>10 DEF ModuleEnds, QueueType, FailedAttempt, QueueStates
    <2>2. QueueType'
      BY <1>10, <2>1, JobsAssumption DEF ModuleEnds, QueueType
    <2>3. phase' \in [Jobs -> [Attempts -> {"none", "running", "stamping", "resolving", "over"}]]
      BY <1>10 DEF ModuleEnds, RunType
    <2>4. RunType'
      BY <1>10, <2>3 DEF ModuleEnds, RunType, Owed
    <2> QED BY <2>2, <2>4
  <1>11. ASSUME UNCHANGED <<moduleVars, queueVars, runVars>> PROVE QueueType' /\ RunType'
    <2>1. QueueType'
      BY <1>11 DEF QueueType, moduleVars, queueVars
    <2>2. RunType'
      BY <1>11 DEF RunType, runVars
    <2> QED BY <2>1, <2>2
  <1> QED BY <1>1, <1>2, <1>3, <1>4, <1>5, <1>6, <1>7, <1>8, <1>9, <1>10, <1>11, DoorsOnly
          DEF Next, AttemptStep

\* The reader and the asking worker keep their types.
LEMMA DoorTypeStep ==
  ASSUME TypeOK, Reading, [Next]_vars
  PROVE  ReadType' /\ AskType'
  <1>1. ASSUME ReaderStep PROVE ReadType' /\ AskType'
    <2>0. /\ read \in [job : Jobs \cup {"none"}, at : {"idle", "state", "refetch", "schema", "answered"},
                       state : QueueStates \cup {"none"}, schema : 0 .. MaxVersions,
                       snap : [returned : 0 .. MaxVersions, hash : 0 .. MaxVersions]]
          /\ read.at # "idle" => read.job \in Jobs
          /\ \A j \in Jobs : /\ qstate[j] \in QueueStates
                             /\ Snapshot(j) \in [returned : 0 .. MaxVersions, hash : 0 .. MaxVersions]
          /\ version \in 0 .. MaxVersions
      BY DEF TypeOK, ReadType, QueueType, Snapshot, Reading
    <2>1. AskType'
      BY <1>1 DEF TypeOK, AskType, ReaderStep, ReadState, Refetch, ReadSchema, ReadAgain, ReadJob
    <2>2. NoRead \in [job : Jobs \cup {"none"}, at : {"idle", "state", "refetch", "schema", "answered"},
                      state : QueueStates \cup {"none"}, schema : 0 .. MaxVersions,
                      snap : [returned : 0 .. MaxVersions, hash : 0 .. MaxVersions]]
      BY JobsAssumption DEF NoRead, Nothing
    <2>3. ASSUME NEW j \in Jobs, ReadJob(j) PROVE ReadType'
      BY <2>3, <2>0, <2>2 DEF ReadJob, ReadType
    <2>4. ASSUME ReadState PROVE ReadType'
      BY <2>4, <2>0 DEF ReadState, ReadType
    <2>5. ASSUME Refetch PROVE ReadType'
      <3>1. Refetched \in [returned : 0 .. MaxVersions, hash : 0 .. MaxVersions]
        BY <2>5, <2>0 DEF Refetch, Refetched
      <3> QED BY <2>5, <2>0, <3>1 DEF Refetch, ReadType
    <2>6. ASSUME ReadSchema PROVE ReadType'
      <3>1. PICK s \in 0 .. MaxVersions : read' = [read EXCEPT !.at = "answered", !.schema = s]
        <4>1. PICK s \in {0, version} :
                read' = [read EXCEPT !.at = "answered",
                           !.schema = IF read.state = "completed" /\ read.snap.hash = s THEN s ELSE 0]
          BY <2>6 DEF ReadSchema
        <4>2. (IF read.state = "completed" /\ read.snap.hash = s THEN s ELSE 0) \in 0 .. MaxVersions
          BY <2>0, JobsAssumption
        <4> QED BY <4>1, <4>2
      <3> QED BY <3>1, <2>0 DEF ReadType
    <2>7. ASSUME ReadAgain PROVE ReadType'
      BY <2>7, <2>2 DEF ReadAgain, ReadType
    <2> QED BY <1>1, <2>1, <2>3, <2>4, <2>5, <2>6, <2>7 DEF ReaderStep
  <1>2. ASSUME AskStep PROVE ReadType' /\ AskType'
    BY <1>2, JobsAssumption
       DEF TypeOK, ReadType, AskType, QueueType,
           AskStep, JobInfo, JobProgress, DeviceLog, RedisCommand, Asks, OverRate, InfoReceived,
           ProgressReceived, LogReceived, RedisReceived, Received, InfoServed, ProgressUpdated,
           LogStored, RedisAnswers, Served, ReplyHeard, Replied, NoAsk
  <1>3. ASSUME UNCHANGED <<read, ask>> PROVE ReadType' /\ AskType'
    BY <1>3 DEF TypeOK, ReadType, AskType
  <1> QED BY <1>1, <1>2, <1>3, QueueOnly

(***************************************************************************)
(* What each step does, entry by entry.                                    *)
(***************************************************************************)

\* Only attempt n of job j moves, to phase v.
AttemptMoves(j, n, v) ==
  \A k \in Jobs, m \in Attempts : phase'[k][m] = IF k = j /\ m = n THEN v ELSE phase[k][m]

\* Only job j may change its state, and then to q.
Turns(j, q) == \A k \in Jobs : qstate'[k] = IF k = j THEN q ELSE qstate[k]

\* Attempt n is rejected: its job is retried or fails, unless it was settled.
Rejects(j, n) ==
  /\ settled' = settled \cup {<<j, n>>}
  /\ IF <<j, n>> \in settled THEN qstate' = qstate
     ELSE Turns(j, "failed") \/ (n < attempts[j] /\ Turns(j, "waiting"))

\* Reject rejects the attempt.
LEMMA RejectsFacts ==
  ASSUME QueueType, RunType, NEW j \in Jobs, NEW n \in Attempts, NEW retry \in BOOLEAN,
         Reject(j, n, retry)
  PROVE  Rejects(j, n)
  BY RejectFacts DEF Rejects, Turns, QueueType

\* A change of one entry of phase moves that attempt only.
LEMMA MovesFacts ==
  ASSUME RunType, NEW j \in Jobs, NEW n \in Attempts,
         NEW v \in {"none", "running", "stamping", "resolving", "over"},
         phase' = [phase EXCEPT ![j][n] = v]
  PROVE  AttemptMoves(j, n, v)
  BY Update2 DEF RunType, AttemptMoves

\* The answer of the worker to attempt n takes the job off its list.
LeavesList(j, n) ==
  /\ phase[j][n] = "running" /\ run[j][n] = version
  /\ inFlight' = inFlight \ {<<run[j][n], j>>}

\* The unsettled attempts of the ended worker settle their jobs.
EndsFacts ==
  /\ \A k \in Jobs, m \in Attempts :
       phase'[k][m] = IF phase[k][m] = "running" /\ run[k][m] = version THEN "over" ELSE phase[k][m]
  /\ \A k \in Jobs, m \in Attempts :
       <<k, m>> \in settled' <=>
         <<k, m>> \in settled \/ (phase[k][m] = "running" /\ run[k][m] = version)
  /\ \A k \in Jobs :
       \/ qstate'[k] = qstate[k] /\ \A m \in Attempts :
             m = attempt[k] /\ phase[k][m] = "running" /\ run[k][m] = version => <<k, m>> \in settled
       \/ /\ qstate'[k] \in {"waiting", "failed"}
          /\ qstate'[k] = "waiting" => attempt[k] < attempts[k]
          /\ \E m \in Attempts : /\ m = attempt[k] /\ phase[k][m] = "running" /\ run[k][m] = version
                                /\ <<k, m>> \notin settled
  /\ \A p \in inFlight' : p \in inFlight /\ \A m \in Attempts :
       phase[p[2]][m] = "running" /\ run[p[2]][m] = version => p[1] # version
  /\ version' = 0

\* ModuleEnds settles what the ended worker ran.
LEMMA ModuleEndsFacts ==
  ASSUME QueueType, RunType, NEW retry \in BOOLEAN, ModuleEnds(retry)
  PROVE  EndsFacts
  <1>1. \A k \in Jobs, m \in Attempts :
          <<k, m>> \in Owed <=> phase[k][m] = "running" /\ run[k][m] = version
    BY DEF Owed
  <1>2. Owed \subseteq Jobs \X Attempts
    BY DEF Owed
  <1>3. \A k \in Jobs, m \in Attempts :
          phase'[k][m] = IF phase[k][m] = "running" /\ run[k][m] = version THEN "over" ELSE phase[k][m]
    BY <1>1 DEF ModuleEnds
  <1>4. \A k \in Jobs, m \in Attempts :
          <<k, m>> \in settled' <=>
            <<k, m>> \in settled \/ (phase[k][m] = "running" /\ run[k][m] = version)
    BY <1>1 DEF ModuleEnds
  <1>5. ASSUME NEW k \in Jobs
        PROVE  \/ qstate'[k] = qstate[k] /\ \A m \in Attempts :
                    m = attempt[k] /\ phase[k][m] = "running" /\ run[k][m] = version
                      => <<k, m>> \in settled
               \/ /\ qstate'[k] \in {"waiting", "failed"}
                  /\ qstate'[k] = "waiting" => attempt[k] < attempts[k]
                  /\ \E m \in Attempts :
                       /\ m = attempt[k] /\ phase[k][m] = "running" /\ run[k][m] = version
                       /\ <<k, m>> \notin settled
    <2>1. qstate'[k] = IF <<k, attempt[k]>> \in Owed \ settled
                       THEN FailedAttempt(k, attempt[k], retry) ELSE qstate[k]
      BY DEF ModuleEnds
    <2>2. CASE <<k, attempt[k]>> \in Owed \ settled
      <3>1. attempt[k] \in Attempts
        BY <2>2, <1>2
      <3>2. phase[k][attempt[k]] = "running" /\ run[k][attempt[k]] = version
        BY <2>2, <1>1, <3>1
      <3> QED BY <2>1, <2>2, <3>1, <3>2 DEF FailedAttempt
    <2>3. CASE <<k, attempt[k]>> \notin Owed \ settled
      BY <2>1, <2>3, <1>1
    <2> QED BY <2>2, <2>3
  <1>6. ASSUME NEW p \in inFlight'
        PROVE  p \in inFlight /\ \A m \in Attempts :
                 phase[p[2]][m] = "running" /\ run[p[2]][m] = version => p[1] # version
    <2>1. p \in inFlight /\ p \notin {<<version, a[1]>> : a \in Owed}
      BY <1>6 DEF ModuleEnds
    <2>2. p[2] \in Jobs /\ p = <<p[1], p[2]>>
      BY <2>1 DEF RunType
    <2>3. ASSUME NEW m \in Attempts, phase[p[2]][m] = "running", run[p[2]][m] = version,
                 p[1] = version
          PROVE  FALSE
      <3>1. <<p[2], m>> \in Owed /\ <<p[2], m>>[1] = p[2]
        BY <2>2, <2>3, <1>1
      <3> QED BY <3>1, <2>1, <2>2, <2>3
    <2> QED BY <2>1, <2>3
  <1>7. version' = 0
    BY DEF ModuleEnds
  <1> QED BY <1>3, <1>4, <1>5, <1>6, <1>7 DEF EndsFacts

(***************************************************************************)
(* The invariant, step by step.                                            *)
(***************************************************************************)

\* Where an unsettled attempt is open, its job is active and at that attempt.
LEMMA OpenFacts ==
  ASSUME Attempting, NEW j \in Jobs, NEW n \in Attempts, phase[j][n] \in Open
  PROVE  /\ run[j][n] # 0
         /\ <<j, n>> \notin settled => qstate[j] = "active" /\ n = attempt[j]
         /\ phase[j][n] = "running" /\ <<j, n>> \in settled => <<j, n>> \in expired
         /\ ~(n > attempt[j])
  BY DEF Attempting, Open

\* Every step keeps Attempting.
LEMMA AttemptingStep ==
  ASSUME IInv, [Next]_vars
  PROVE  Attempting'
  <1>0. QueueType /\ RunType /\ Attempting
    BY DEF IInv, TypeOK
  <1>a. /\ \A j \in Jobs : attempt[j] \in Nat /\ attempts[j] \in Nat /\ attempt'[j] \in Nat
        /\ Attempts \subseteq Nat
    BY <1>0, QueueTypeStep, JobsAssumption DEF QueueType, Attempts
  <1>1. ASSUME NEW j \in Jobs, AddJob(j) PROVE Attempting'
    <2>1. /\ Turns(j, "waiting") /\ qstate[j] = "absent"
          /\ UNCHANGED <<attempt, runVars>>
      BY <1>1, <1>0 DEF AddJob, Turns, QueueType
    <2>2. attempts'[j] > 0 /\ \A k \in Jobs \ {j} : attempts'[k] = attempts[k]
      BY <1>1, <1>0, JobsAssumption DEF AddJob, QueueType, Attempts
    <2> QED BY <2>1, <2>2, <1>0, <1>a DEF Attempting, Turns, Open, runVars
  <1>2. ASSUME NEW j \in Jobs, StartAttempt(j) PROVE Attempting'
    <2>1. PICK n \in Attempts, q \in {"waiting", "failed", "active"} : StartFacts(j, n, q)
      BY <1>2, <1>0, StartAttemptFacts
    <2>2. AttemptMoves(j, n, IF q = "active" THEN "running" ELSE "over") /\ Turns(j, q)
      BY <2>1, <1>0, MovesFacts DEF StartFacts, Turns, QueueType
    <2>3. \A k \in Jobs : attempt'[k] = IF k = j THEN n ELSE attempt[k]
      BY <2>1, <1>0 DEF StartFacts, QueueType
    <2>4. \A k \in Jobs, m \in Attempts :
            run'[k][m] = IF q = "active" /\ k = j /\ m = n THEN version ELSE run[k][m]
      <3>1. CASE q = "active"
        <4>1. run' = [run EXCEPT ![j][n] = version]
          BY <2>1, <3>1 DEF StartFacts
        <4>2. version \in 0 .. MaxVersions /\ run \in [Jobs -> [Attempts -> 0 .. MaxVersions]]
          BY <1>0 DEF RunType, QueueType
        <4>3. \A k \in Jobs, m \in Attempts :
                run'[k][m] = IF k = j /\ m = n THEN version ELSE run[k][m]
          BY <4>1, <4>2, Update2
        <4> QED BY <3>1, <4>3
      <3>2. CASE q # "active"
        BY <2>1, <3>2 DEF StartFacts
      <3> QED BY <3>1, <3>2
    <2>5. /\ n = attempt[j] + 1 /\ qstate[j] = "waiting" /\ UNCHANGED <<attempts, expired>>
          /\ q = "waiting" => n < attempts[j]
          /\ q = "active" => version # 0
          /\ settled' = IF q = "active" THEN settled ELSE settled \cup {<<j, n>>}
      BY <2>1 DEF StartFacts
    <2> QED BY <2>2, <2>3, <2>4, <2>5, <1>0, <1>a DEF Attempting, AttemptMoves, Turns, Open
  <1>3. ASSUME NEW j \in Jobs, RemoveJob(j) PROVE Attempting'
    <2>1. /\ Turns(j, "removed") /\ qstate[j] \in {"waiting", "completed", "failed"}
          /\ UNCHANGED <<attempt, attempts, runVars>>
      BY <1>3, <1>0 DEF RemoveJob, Turns, QueueType
    <2> QED BY <2>1, <1>0 DEF Attempting, Turns, Open, runVars
  <1>4. ASSUME NEW j \in Jobs, NEW n \in Attempts, TimeoutFires(j, n) PROVE Attempting'
    <2>1. Rejects(j, n) /\ <<j, n>> \notin settled /\ phase[j][n] = "running"
      BY <1>4, <1>0, RejectsFacts DEF TimeoutFires
    <2>2. qstate[j] = "active" /\ n = attempt[j]
      BY <2>1, <1>0 DEF Attempting, Open
    <2>3. expired' = expired \cup {<<j, n>>} /\ UNCHANGED <<attempt, attempts, run, phase>>
      BY <1>4 DEF TimeoutFires
    <2> QED BY <2>1, <2>2, <2>3, <1>0, <1>a DEF Attempting, Rejects, Turns, Open
  <1>5. ASSUME NEW j \in Jobs, NEW n \in Attempts, ActionFails(j, n) PROVE Attempting'
    <2>1. Rejects(j, n) /\ phase[j][n] = "running" /\ AttemptMoves(j, n, "over")
      BY <1>5, <1>0, RejectsFacts, MovesFacts DEF ActionFails
    <2>2. n <= attempt[j] /\ (<<j, n>> \notin settled => qstate[j] = "active" /\ n = attempt[j])
      BY <2>1, <1>0, <1>a DEF Attempting, Open
    <2>3. UNCHANGED <<attempt, attempts, run, expired>>
      BY <1>5 DEF ActionFails
    <2> QED BY <2>1, <2>2, <2>3, <1>0, <1>a DEF Attempting, Rejects, AttemptMoves, Turns, Open
  <1>6. ASSUME NEW j \in Jobs, NEW n \in Attempts, ActionSucceeds(j, n) PROVE Attempting'
    <2>1. phase[j][n] = "running" /\ AttemptMoves(j, n, "stamping")
      BY <1>6, <1>0, MovesFacts DEF ActionSucceeds
    <2>2. UNCHANGED <<qstate, attempt, attempts, run, settled, expired>>
      BY <1>6 DEF ActionSucceeds, queueVars
    <2> QED BY <2>1, <2>2, <1>0, <1>a DEF Attempting, AttemptMoves, Open
  <1>7. ASSUME NEW j \in Jobs, NEW n \in Attempts, StampResolves(j, n) PROVE Attempting'
    <2>1. phase[j][n] = "stamping" /\ AttemptMoves(j, n, "resolving")
      BY <1>7, <1>0, MovesFacts DEF StampResolves
    <2>2. UNCHANGED <<qstate, attempt, attempts, run, settled, expired>>
      BY <1>7 DEF StampResolves
    <2> QED BY <2>1, <2>2, <1>0, <1>a DEF Attempting, AttemptMoves, Open
  <1>8. ASSUME NEW j \in Jobs, NEW n \in Attempts, Resolve(j, n) PROVE Attempting'
    <2>1. phase[j][n] = "resolving" /\ AttemptMoves(j, n, "over")
      BY <1>8, <1>0, MovesFacts DEF Resolve
    <2>2. /\ settled' = settled \cup {<<j, n>>} /\ UNCHANGED <<attempt, attempts, run, expired>>
          /\ IF <<j, n>> \in settled THEN qstate' = qstate ELSE Turns(j, "completed")
      BY <1>8, <1>0 DEF Resolve, Turns, QueueType
    <2>3. n <= attempt[j] /\ (<<j, n>> \notin settled => qstate[j] = "active" /\ n = attempt[j])
      BY <2>1, <1>0, <1>a DEF Attempting, Open
    <2> QED BY <2>1, <2>2, <2>3, <1>0, <1>a DEF Attempting, AttemptMoves, Turns, Open
  <1>9. ASSUME LoadModule PROVE Attempting'
    BY <1>9, <1>0 DEF LoadModule, Attempting, queueVars, runVars
  <1>10. ASSUME NEW retry \in BOOLEAN, ModuleEnds(retry) PROVE Attempting'
    <2>1. EndsFacts
      BY <1>10, <1>0, ModuleEndsFacts
    <2>2. UNCHANGED <<attempt, attempts, run, expired>>
      BY <1>10 DEF ModuleEnds
    <2>3. ASSUME NEW k \in Jobs
          PROVE  /\ (qstate[k] = "absent" => attempt[k] = 0)'
                 /\ (qstate[k] = "waiting" => attempt[k] < attempts[k])'
      BY <2>1, <2>2, <1>0 DEF Attempting, EndsFacts
    <2>4. ASSUME NEW k \in Jobs, NEW m \in Attempts, (m > attempt[k])'
          PROVE  (phase[k][m] = "none" /\ <<k, m>> \notin settled /\ <<k, m>> \notin expired)'
      BY <2>1, <2>2, <2>4, <1>0 DEF Attempting, EndsFacts
    <2>5. ASSUME NEW k \in Jobs, NEW m \in Attempts, phase'[k][m] \in Open
          PROVE  /\ phase[k][m] = phase'[k][m]
                 /\ <<k, m>> \in settled' <=> <<k, m>> \in settled
                 /\ ~(phase[k][m] = "running" /\ run[k][m] = version)
      BY <2>1, <2>5 DEF EndsFacts, Open
    <2>6. ASSUME NEW k \in Jobs, NEW m \in Attempts, phase'[k][m] \in Open, <<k, m>> \notin settled'
          PROVE  qstate'[k] = "active" /\ m = attempt[k]
      <3>1. m = attempt[k] /\ qstate[k] = "active"
        BY <2>5, <2>6, <1>0, OpenFacts
      <3>2. qstate'[k] = qstate[k]
        BY <2>1, <2>5, <2>6, <3>1 DEF EndsFacts
      <3> QED BY <3>1, <3>2
    <2>7. ASSUME NEW k \in Jobs, NEW m \in Attempts, phase'[k][m] \in Open
          PROVE  run[k][m] # 0 /\ (phase[k][m] = "running" /\ <<k, m>> \in settled' => <<k, m>> \in expired)
      BY <2>5, <2>7, <1>0, OpenFacts
    <2>8. ASSUME NEW k \in Jobs, NEW m \in Attempts, phase'[k][m] = "running"
          PROVE  phase'[k][m] \in Open
      BY <2>8 DEF Open
    <2> QED BY <2>2, <2>3, <2>4, <2>5, <2>6, <2>7, <2>8 DEF Attempting
  <1>11. ASSUME UNCHANGED <<moduleVars, queueVars, runVars>> PROVE Attempting'
    BY <1>11, <1>0 DEF Attempting, queueVars, runVars
  <1> QED BY <1>1, <1>2, <1>3, <1>4, <1>5, <1>6, <1>7, <1>8, <1>9, <1>10, <1>11, DoorsOnly
          DEF Next, AttemptStep

\* Sets of attempts are counted.
LEMMA CountAttempts ==
  ASSUME NEW A \in SUBSET Attempts, NEW B \in SUBSET Attempts, A \subseteq B
  PROVE  /\ Cardinality(A) \in Nat /\ Cardinality(B) \in Nat
         /\ Cardinality(A) <= Cardinality(B)
         /\ \A n \in B : n \notin A => Cardinality(A) + 1 <= Cardinality(B)
  <1>1. IsFiniteSet(Attempts)
    BY FS_Interval, JobsAssumption DEF Attempts
  <1>2. IsFiniteSet(A) /\ IsFiniteSet(B)
    BY <1>1, FS_Subset
  <1>3. Cardinality(A) \in Nat /\ Cardinality(B) \in Nat /\ Cardinality(A) <= Cardinality(B)
    BY <1>2, FS_CardinalityType, FS_Subset
  <1>4. ASSUME NEW n \in B, n \notin A PROVE Cardinality(A) + 1 <= Cardinality(B)
    <2>1. IsFiniteSet(A \cup {n}) /\ Cardinality(A \cup {n}) = Cardinality(A) + 1
      BY <1>2, <1>4, FS_AddElement
    <2>2. Cardinality(A \cup {n}) <= Cardinality(B)
      BY <1>2, <1>4, FS_Subset
    <2> QED BY <2>1, <2>2
  <1> QED BY <1>3, <1>4

\* A step that charges nothing for job j, and takes none of its reasons away.
Uncharged(j) ==
  /\ charges'[j] = charges[j]
  /\ LateAnswers(j) \subseteq LateAnswers(j)'
  /\ Succeeding(j) => Succeeding(j)'
  /\ \A n \in Attempts : phase'[j][n] \in {"stamping", "resolving"} =>
                          phase[j][n] \in {"stamping", "resolving"}
  /\ qstate'[j] = "completed" =>
       \/ qstate[j] = "completed"
       \/ \E n \in Attempts : phase[j][n] \in {"stamping", "resolving"}

\* Such a step leaves the job charged right.
LEMMA UnchargedRight ==
  ASSUME RunType, RunType', NEW j \in Jobs, ChargedRight(j), Uncharged(j)
  PROVE  ChargedRight(j)'
  <1>1. /\ Cardinality(LateAnswers(j)) \in Nat /\ Cardinality(LateAnswers(j)') \in Nat
        /\ Cardinality(LateAnswers(j)) <= Cardinality(LateAnswers(j)')
    <2>1. LateAnswers(j) \in SUBSET Attempts /\ LateAnswers(j)' \in SUBSET Attempts
      BY DEF LateAnswers
    <2> QED BY <2>1, CountAttempts DEF Uncharged
  <1>2. charges[j] \in Nat
    BY DEF RunType
  <1>3. (charges[j] <= Cardinality(LateAnswers(j)) + (IF Succeeding(j) THEN 1 ELSE 0))'
    BY <1>1, <1>2 DEF Uncharged, ChargedRight
  <1> QED BY <1>3, <1>2 DEF Uncharged, ChargedRight

\* Nothing of job k changes but its state, which is not a success.
LEMMA UnchargedElsewhere ==
  ASSUME NEW k \in Jobs, charges'[k] = charges[k],
         \A n \in Attempts : <<k, n>> \in expired => <<k, n>> \in expired',
         \A n \in Attempts : phase'[k][n] = phase[k][n],
         \A n \in Attempts : <<k, n>> \in settled' => <<k, n>> \in settled,
         qstate'[k] = qstate[k]
  PROVE  Uncharged(k)
  BY DEF Uncharged, LateAnswers, Succeeding

\* A job that runs, waits or failed does not count as a success.
LEMMA NotSucceeding ==
  ASSUME Attempting, NEW j \in Jobs,
         \/ qstate[j] \in {"absent", "waiting", "failed"}
         \/ \E n \in Attempts : phase[j][n] = "running" /\ <<j, n>> \notin settled
  PROVE  ~Succeeding(j)
  <1>1. CASE qstate[j] \in {"absent", "waiting", "failed"}
    BY <1>1 DEF Attempting, Succeeding, Open
  <1>2. ASSUME NEW n \in Attempts, phase[j][n] = "running", <<j, n>> \notin settled
        PROVE  ~Succeeding(j)
    <2>1. qstate[j] = "active" /\ n = attempt[j]
      BY <1>2, OpenFacts DEF Open
    <2>2. ASSUME NEW m \in Attempts, phase[j][m] \in {"stamping", "resolving"}, <<j, m>> \notin settled
          PROVE  m = attempt[j]
      BY <2>2, OpenFacts DEF Open
    <2> QED BY <1>2, <2>1, <2>2 DEF Succeeding
  <1> QED BY <1>1, <1>2

\* Every step keeps Charging.
LEMMA ChargingStep ==
  ASSUME IInv, [Next]_vars
  PROVE  Charging'
  <1>0. QueueType /\ RunType /\ RunType' /\ Attempting /\ Charging
    BY QueueTypeStep DEF IInv, TypeOK
  <1>a. SUFFICES ASSUME NEW k \in Jobs PROVE ChargedRight(k)'
    BY DEF Charging
  <1>b. ChargedRight(k)
    BY <1>0 DEF Charging
  <1>c. ASSUME Uncharged(k) PROVE ChargedRight(k)'
    BY <1>c, <1>0, <1>b, UnchargedRight
  <1>1. ASSUME NEW j \in Jobs, AddJob(j) PROVE Uncharged(k)
    <2>1. Turns(j, "waiting") /\ qstate[j] = "absent" /\ UNCHANGED runVars
      BY <1>1, <1>0 DEF AddJob, Turns, QueueType
    <2>2. k = j => ~Succeeding(k)
      BY <2>1, <1>0, NotSucceeding
    <2> QED BY <2>1, <2>2 DEF Turns, Uncharged, LateAnswers, Succeeding, runVars
  <1>2. ASSUME NEW j \in Jobs, StartAttempt(j) PROVE Uncharged(k)
    <2>1. PICK n \in Attempts, q \in {"waiting", "failed", "active"} : StartFacts(j, n, q)
      BY <1>2, <1>0, StartAttemptFacts
    <2>2. PICK v \in {"running", "over"} : AttemptMoves(j, n, v)
      BY <2>1, <1>0, MovesFacts DEF StartFacts
    <2>3. Turns(j, q) /\ qstate[j] = "waiting" /\ n = attempt[j] + 1
      BY <2>1, <1>0 DEF StartFacts, Turns, QueueType
    <2>4. UNCHANGED <<charges, expired>> /\ settled' \subseteq settled \cup {<<j, n>>}
      BY <2>1 DEF StartFacts
    <2>5. CASE k = j
      <3>1. ~Succeeding(k)
        BY <2>3, <2>5, <1>0, NotSucceeding
      <3>2. <<j, n>> \notin expired
        BY <2>3, <1>0 DEF Attempting, QueueType
      <3>3. LateAnswers(k) \subseteq LateAnswers(k)'
        BY <2>2, <2>4, <2>5, <3>2 DEF AttemptMoves, LateAnswers
      <3> QED BY <2>2, <2>3, <2>4, <2>5, <3>1, <3>3 DEF AttemptMoves, Turns, Uncharged
    <2>6. CASE k # j
      BY <2>2, <2>3, <2>4, <2>6, UnchargedElsewhere DEF AttemptMoves, Turns
    <2> QED BY <2>5, <2>6
  <1>3. ASSUME NEW j \in Jobs, RemoveJob(j) PROVE Uncharged(k)
    <2>1. Turns(j, "removed") /\ UNCHANGED runVars
      BY <1>3, <1>0 DEF RemoveJob, Turns, QueueType
    <2> QED BY <2>1 DEF Turns, Uncharged, LateAnswers, Succeeding, runVars
  <1>4. ASSUME NEW j \in Jobs, NEW n \in Attempts, TimeoutFires(j, n) PROVE Uncharged(k)
    <2>1. Rejects(j, n) /\ <<j, n>> \notin settled /\ phase[j][n] = "running"
      BY <1>4, <1>0, RejectsFacts DEF TimeoutFires
    <2>2. expired' = expired \cup {<<j, n>>} /\ UNCHANGED <<phase, charges>>
      BY <1>4 DEF TimeoutFires
    <2>3. CASE k = j
      <3>1. ~Succeeding(k)
        BY <2>1, <2>3, <1>0, NotSucceeding
      <3>2. LateAnswers(k) \subseteq LateAnswers(k)'
        BY <2>2 DEF LateAnswers
      <3> QED BY <2>1, <2>2, <2>3, <3>1, <3>2 DEF Rejects, Turns, Uncharged
    <2>4. CASE k # j
      BY <2>1, <2>2, <2>4, UnchargedElsewhere DEF Rejects, Turns
    <2> QED BY <2>3, <2>4
  <1>5. ASSUME NEW j \in Jobs, NEW n \in Attempts, ActionFails(j, n) PROVE Uncharged(k)
    <2>1. Rejects(j, n) /\ phase[j][n] = "running" /\ AttemptMoves(j, n, "over")
      BY <1>5, <1>0, RejectsFacts, MovesFacts DEF ActionFails
    <2>2. UNCHANGED <<expired, charges>>
      BY <1>5 DEF ActionFails
    <2>3. CASE k = j
      <3>1. Succeeding(k) => Succeeding(k)'
        <4>1. CASE <<j, n>> \notin settled
          BY <2>1, <2>3, <4>1, <1>0, NotSucceeding
        <4>2. CASE <<j, n>> \in settled
          BY <2>1, <2>3, <4>2 DEF Rejects, AttemptMoves, Succeeding
        <4> QED BY <4>1, <4>2
      <3>2. LateAnswers(k) \subseteq LateAnswers(k)'
        BY <2>1, <2>2 DEF LateAnswers, AttemptMoves
      <3>3. qstate'[k] = "completed" => qstate[k] = "completed"
        BY <2>1 DEF Rejects, Turns
      <3> QED BY <2>1, <2>2, <2>3, <3>1, <3>2, <3>3 DEF AttemptMoves, Uncharged
    <2>4. CASE k # j
      BY <2>1, <2>2, <2>4, UnchargedElsewhere DEF Rejects, Turns, AttemptMoves
    <2> QED BY <2>3, <2>4
  <1>6. ASSUME NEW j \in Jobs, NEW n \in Attempts, ActionSucceeds(j, n) PROVE ChargedRight(k)'
    <2>1. phase[j][n] = "running" /\ AttemptMoves(j, n, "stamping")
      BY <1>6, <1>0, MovesFacts DEF ActionSucceeds
    <2>2. /\ UNCHANGED <<qstate, settled, expired>>
          /\ charges'[k] = IF k = j THEN charges[k] + 1 ELSE charges[k]
      BY <1>6, <1>0 DEF ActionSucceeds, queueVars, RunType
    <2>3. CASE k = j
      <3>1. LateAnswers(k) \in SUBSET Attempts /\ LateAnswers(k)' \in SUBSET Attempts
        BY DEF LateAnswers
      <3>2. LateAnswers(k) \subseteq LateAnswers(k)'
        BY <2>1, <2>2 DEF LateAnswers, AttemptMoves
      <3>3. charges[k] \in Nat
        BY <1>0 DEF RunType
      <3>4. CASE <<j, n>> \in settled
        <4>1. <<j, n>> \in expired
          BY <3>4, <2>1, <1>0 DEF Attempting
        <4>2. n \in LateAnswers(k)' /\ n \notin LateAnswers(k)
          BY <4>1, <2>1, <2>2, <2>3 DEF LateAnswers, AttemptMoves
        <4>3. Succeeding(k) => Succeeding(k)'
          BY <2>1, <2>2, <2>3, <3>4 DEF AttemptMoves, Succeeding
        <4>4. /\ Cardinality(LateAnswers(k)) \in Nat /\ Cardinality(LateAnswers(k)') \in Nat
              /\ Cardinality(LateAnswers(k)) + 1 <= Cardinality(LateAnswers(k)')
          BY <3>1, <3>2, <4>2, CountAttempts
        <4>5. (charges[k] <= Cardinality(LateAnswers(k)) + (IF Succeeding(k) THEN 1 ELSE 0))'
          BY <4>3, <4>4, <3>3, <2>2, <2>3, <1>b DEF ChargedRight
        <4> QED BY <4>5, <3>3, <2>2, <2>3 DEF ChargedRight
      <3>5. CASE <<j, n>> \notin settled
        <4>1. ~Succeeding(k) /\ Succeeding(k)'
          <5>1. ~Succeeding(k)
            BY <3>5, <2>1, <2>3, <1>0, NotSucceeding
          <5>2. Succeeding(k)'
            BY <3>5, <2>1, <2>2, <2>3 DEF Succeeding, AttemptMoves
          <5> QED BY <5>1, <5>2
        <4>2. /\ Cardinality(LateAnswers(k)) \in Nat /\ Cardinality(LateAnswers(k)') \in Nat
              /\ Cardinality(LateAnswers(k)) <= Cardinality(LateAnswers(k)')
          BY <3>1, <3>2, CountAttempts
        <4>3. (charges[k] <= Cardinality(LateAnswers(k)) + (IF Succeeding(k) THEN 1 ELSE 0))'
          BY <4>1, <4>2, <3>3, <2>2, <2>3, <1>b DEF ChargedRight
        <4> QED BY <4>3, <3>3, <2>2, <2>3 DEF ChargedRight
      <3> QED BY <3>4, <3>5
    <2>4. CASE k # j
      BY <2>1, <2>2, <2>4, <1>c, UnchargedElsewhere DEF AttemptMoves
    <2> QED BY <2>3, <2>4
  <1>7. ASSUME NEW j \in Jobs, NEW n \in Attempts, StampResolves(j, n) PROVE Uncharged(k)
    <2>1. phase[j][n] = "stamping" /\ AttemptMoves(j, n, "resolving")
      BY <1>7, <1>0, MovesFacts DEF StampResolves
    <2>2. UNCHANGED <<qstate, settled, expired, charges>>
      BY <1>7 DEF StampResolves
    <2> QED BY <2>1, <2>2 DEF AttemptMoves, Uncharged, LateAnswers, Succeeding
  <1>8. ASSUME NEW j \in Jobs, NEW n \in Attempts, Resolve(j, n) PROVE Uncharged(k)
    <2>1. phase[j][n] = "resolving" /\ AttemptMoves(j, n, "over")
      BY <1>8, <1>0, MovesFacts DEF Resolve
    <2>2. /\ settled' = settled \cup {<<j, n>>} /\ UNCHANGED <<expired, charges>>
          /\ IF <<j, n>> \in settled THEN qstate' = qstate ELSE Turns(j, "completed")
      BY <1>8, <1>0 DEF Resolve, Turns, QueueType
    <2>3. CASE k = j
      <3>1. Succeeding(k) => Succeeding(k)'
        <4>1. CASE <<j, n>> \notin settled
          BY <2>2, <2>3, <4>1 DEF Turns, Succeeding
        <4>2. CASE <<j, n>> \in settled
          BY <2>1, <2>2, <2>3, <4>2 DEF AttemptMoves, Succeeding
        <4> QED BY <4>1, <4>2
      <3>2. LateAnswers(k) \subseteq LateAnswers(k)'
        BY <2>1, <2>2 DEF LateAnswers, AttemptMoves
      <3> QED BY <2>1, <2>2, <2>3, <3>1, <3>2 DEF AttemptMoves, Uncharged
    <2>4. CASE k # j
      BY <2>1, <2>2, <2>4, UnchargedElsewhere DEF Turns, AttemptMoves
    <2> QED BY <2>3, <2>4
  <1>9. ASSUME LoadModule PROVE Uncharged(k)
    BY <1>9 DEF LoadModule, Uncharged, LateAnswers, Succeeding, queueVars, runVars
  <1>10. ASSUME NEW retry \in BOOLEAN, ModuleEnds(retry) PROVE Uncharged(k)
    <2>1. EndsFacts
      BY <1>10, <1>0, ModuleEndsFacts
    <2>2. UNCHANGED <<expired, charges>>
      BY <1>10 DEF ModuleEnds
    <2>3. LateAnswers(k) \subseteq LateAnswers(k)'
      BY <2>1, <2>2 DEF LateAnswers, EndsFacts
    <2>4. \A n \in Attempts : phase[k][n] \in {"stamping", "resolving"} =>
            phase'[k][n] = phase[k][n] /\ (<<k, n>> \in settled' => <<k, n>> \in settled)
      BY <2>1 DEF EndsFacts
    <2>5. qstate'[k] = qstate[k] \/ (qstate'[k] \in {"waiting", "failed"} /\ ~Succeeding(k))
      BY <2>1, <1>0, NotSucceeding DEF EndsFacts
    <2>6. Succeeding(k) => Succeeding(k)'
      BY <2>4, <2>5 DEF Succeeding
    <2>7. \A n \in Attempts : phase'[k][n] \in {"stamping", "resolving"} =>
                             phase[k][n] \in {"stamping", "resolving"}
      BY <2>1 DEF EndsFacts
    <2> QED BY <2>2, <2>3, <2>5, <2>6, <2>7 DEF Uncharged
  <1>11. ASSUME UNCHANGED <<moduleVars, queueVars, runVars>> PROVE Uncharged(k)
    BY <1>11 DEF Uncharged, LateAnswers, Succeeding, queueVars, runVars
  <1> QED BY <1>c, <1>1, <1>2, <1>3, <1>4, <1>5, <1>6, <1>7, <1>8, <1>9, <1>10, <1>11, DoorsOnly
          DEF Next, AttemptStep

\* Every step keeps InFlight.
LEMMA InFlightStep ==
  ASSUME IInv, [Next]_vars
  PROVE  InFlight'
  <1>0. QueueType /\ RunType /\ Attempting /\ InFlight
    BY DEF IInv, TypeOK
  <1>a. \A p \in inFlight : p[2] \in Jobs /\ p = <<p[1], p[2]>>
    BY <1>0 DEF RunType
  <1>1. ASSUME NEW j \in Jobs, StartAttempt(j) PROVE InFlight'
    <2>1. PICK n \in Attempts, q \in {"waiting", "failed", "active"} : StartFacts(j, n, q)
      BY <1>1, <1>0, StartAttemptFacts
    <2>2. phase[j][n] = "none"
      <3>1. n > attempt[j]
        BY <2>1, <1>0 DEF StartFacts, QueueType
      <3> QED BY <3>1, <1>0 DEF Attempting
    <2>3. CASE q # "active"
      <3>1. AttemptMoves(j, n, "over") /\ UNCHANGED <<run, inFlight>>
        BY <2>1, <2>3, <1>0, MovesFacts DEF StartFacts
      <3> QED BY <3>1, <2>2, <1>0, <1>a DEF InFlight, AttemptMoves
    <2>4. CASE q = "active"
      <3>1. AttemptMoves(j, n, "running") /\ inFlight' = inFlight \cup {<<version, j>>}
        BY <2>1, <2>4, <1>0, MovesFacts DEF StartFacts
      <3>2. version \in 0 .. MaxVersions /\ run \in [Jobs -> [Attempts -> 0 .. MaxVersions]]
        BY <1>0 DEF RunType, QueueType
      <3>3. \A k \in Jobs, m \in Attempts :
              run'[k][m] = IF k = j /\ m = n THEN version ELSE run[k][m]
        BY <2>1, <2>4, <3>2, Update2 DEF StartFacts
      <3>4. ASSUME NEW p \in inFlight
            PROVE  \E m \in Attempts : phase'[p[2]][m] = "running" /\ run'[p[2]][m] = p[1]
        <4>1. PICK m \in Attempts : phase[p[2]][m] = "running" /\ run[p[2]][m] = p[1]
          BY <1>0 DEF InFlight
        <4>2. phase'[p[2]][m] = "running" /\ run'[p[2]][m] = p[1]
          BY <4>1, <3>1, <3>3, <2>2, <1>a DEF AttemptMoves
        <4> QED BY <4>2
      <3>5. phase'[j][n] = "running" /\ run'[j][n] = version
        BY <3>1, <3>3 DEF AttemptMoves
      <3> QED BY <3>1, <3>4, <3>5 DEF InFlight
    <2> QED BY <2>3, <2>4
  <1>2. ASSUME NEW j \in Jobs, NEW n \in Attempts, NEW v \in {"over", "stamping"},
               LeavesList(j, n), AttemptMoves(j, n, v), UNCHANGED run
        PROVE  InFlight'
    <2> SUFFICES ASSUME NEW p \in inFlight'
                 PROVE  \E m \in Attempts : phase'[p[2]][m] = "running" /\ run'[p[2]][m] = p[1]
      BY DEF InFlight
    <2>1. p \in inFlight /\ p # <<run[j][n], j>>
      BY <1>2 DEF LeavesList
    <2>2. PICK m \in Attempts : phase[p[2]][m] = "running" /\ run[p[2]][m] = p[1]
      BY <2>1, <1>0 DEF InFlight
    <2>3. ~(p[2] = j /\ m = n)
      BY <2>1, <2>2, <1>a
    <2> QED BY <1>2, <2>1, <2>2, <2>3, <1>a DEF AttemptMoves
  <1>3. ASSUME NEW j \in Jobs, NEW n \in Attempts, ActionFails(j, n) PROVE InFlight'
    BY <1>3, <1>2, <1>0, MovesFacts DEF ActionFails, LeavesList, Deleted
  <1>4. ASSUME NEW j \in Jobs, NEW n \in Attempts, ActionSucceeds(j, n) PROVE InFlight'
    BY <1>4, <1>2, <1>0, MovesFacts DEF ActionSucceeds, LeavesList, Deleted
  <1>5. ASSUME NEW j \in Jobs, NEW n \in Attempts, StampResolves(j, n) \/ Resolve(j, n) PROVE InFlight'
    <2>1. PICK v \in {"resolving", "over"} : AttemptMoves(j, n, v)
      BY <1>5, <1>0, MovesFacts DEF StampResolves, Resolve
    <2>2. phase[j][n] # "running" /\ UNCHANGED <<run, inFlight>>
      BY <1>5 DEF StampResolves, Resolve
    <2> QED BY <2>1, <2>2, <1>0, <1>a DEF InFlight, AttemptMoves
  <1>6. ASSUME NEW retry \in BOOLEAN, ModuleEnds(retry) PROVE InFlight'
    <2>1. EndsFacts /\ UNCHANGED run
      BY <1>6, <1>0, ModuleEndsFacts DEF ModuleEnds
    <2> SUFFICES ASSUME NEW p \in inFlight'
                 PROVE  \E m \in Attempts : phase'[p[2]][m] = "running" /\ run'[p[2]][m] = p[1]
      BY DEF InFlight
    <2>2. p \in inFlight /\ \A m \in Attempts :
            phase[p[2]][m] = "running" /\ run[p[2]][m] = version => p[1] # version
      BY <2>1 DEF EndsFacts
    <2>3. PICK m \in Attempts : phase[p[2]][m] = "running" /\ run[p[2]][m] = p[1]
      BY <2>2, <1>0 DEF InFlight
    <2>4. phase'[p[2]][m] = "running"
      BY <2>1, <2>2, <2>3, <1>a DEF EndsFacts
    <2> QED BY <2>1, <2>3, <2>4
  <1>7. ASSUME UNCHANGED <<phase, run, inFlight>> PROVE InFlight'
    BY <1>7, <1>0 DEF InFlight
  <1>8. ASSUME NEW j \in Jobs, AddJob(j) \/ RemoveJob(j) PROVE InFlight'
    BY <1>8, <1>7 DEF AddJob, RemoveJob, runVars
  <1>9. ASSUME NEW j \in Jobs, NEW n \in Attempts, TimeoutFires(j, n) PROVE InFlight'
    BY <1>9, <1>7 DEF TimeoutFires
  <1>10. ASSUME LoadModule \/ ReaderStep \/ AskStep \/ UNCHANGED vars PROVE InFlight'
    BY <1>10, <1>7, DoorsOnly DEF LoadModule, runVars
  <1> QED BY <1>1, <1>3, <1>4, <1>5, <1>6, <1>8, <1>9, <1>10 DEF Next, AttemptStep

\* A finished job stays as it is, or is removed; its result is kept.
Finished(j) ==
  /\ qstate[j] \in {"completed", "removed"} => qstate'[j] \in {qstate[j], "removed"}
  /\ returned[j] # 0 => returned'[j] # 0
  /\ qstate'[j] = "completed" => qstate[j] = "completed" \/ returned'[j] # 0

\* Only the attempt a job is at changes its state, and a finished job has none.
LEMMA FinishedStep ==
  ASSUME QueueType, RunType, Attempting, [Next]_vars, NEW k \in Jobs
  PROVE  Finished(k)
  <1>1. ASSUME NEW j \in Jobs, AddJob(j) PROVE Finished(k)
    BY <1>1 DEF AddJob, QueueType, Finished
  <1>2. ASSUME NEW j \in Jobs, StartAttempt(j) PROVE Finished(k)
    <2>1. PICK n \in Attempts, q \in {"waiting", "failed", "active"} : StartFacts(j, n, q)
      BY <1>2, StartAttemptFacts
    <2> QED BY <2>1 DEF StartFacts, QueueType, Finished
  <1>3. ASSUME NEW j \in Jobs, RemoveJob(j) PROVE Finished(k)
    BY <1>3 DEF RemoveJob, QueueType, Finished
  <1>4. ASSUME NEW j \in Jobs, NEW n \in Attempts, Rejects(j, n), phase[j][n] = "running",
               UNCHANGED returned
        PROVE  Finished(k)
    <2>1. <<j, n>> \notin settled => qstate[j] = "active"
      BY <1>4, OpenFacts DEF Open
    <2> QED BY <1>4, <2>1 DEF Rejects, Turns, Finished
  <1>5. ASSUME NEW j \in Jobs, NEW n \in Attempts, TimeoutFires(j, n) \/ ActionFails(j, n)
        PROVE  Finished(k)
    BY <1>4, <1>5, RejectsFacts DEF TimeoutFires, ActionFails
  <1>6. ASSUME NEW j \in Jobs, NEW n \in Attempts, ActionSucceeds(j, n) \/ StampResolves(j, n)
        PROVE  Finished(k)
    BY <1>6 DEF ActionSucceeds, StampResolves, queueVars, Finished
  <1>7. ASSUME NEW j \in Jobs, NEW n \in Attempts, Resolve(j, n) PROVE Finished(k)
    <2>1. run[j][n] # 0 /\ (<<j, n>> \notin settled => qstate[j] = "active")
      BY <1>7, OpenFacts DEF Resolve, Open
    <2> QED BY <1>7, <2>1 DEF Resolve, QueueType, Finished
  <1>8. ASSUME NEW retry \in BOOLEAN, ModuleEnds(retry) PROVE Finished(k)
    <2>1. EndsFacts /\ UNCHANGED returned
      BY <1>8, ModuleEndsFacts DEF ModuleEnds
    <2>2. ASSUME NEW m \in Attempts, phase[k][m] = "running", <<k, m>> \notin settled
          PROVE  qstate[k] = "active"
      BY <2>2, OpenFacts DEF Open
    <2> QED BY <2>1, <2>2 DEF EndsFacts, Finished
  <1>9. ASSUME LoadModule \/ ReaderStep \/ AskStep \/ UNCHANGED vars PROVE Finished(k)
    BY <1>9, DoorsOnly DEF LoadModule, queueVars, Finished
  <1> QED BY <1>1, <1>2, <1>3, <1>5, <1>6, <1>7, <1>8, <1>9 DEF Next, AttemptStep

\* Every step keeps Reading.
LEMMA ReadingStep ==
  ASSUME IInv, [Next]_vars
  PROVE  Reading'
  <1>0. QueueType /\ RunType /\ Attempting /\ Reading /\ ReadType
    BY DEF IInv, TypeOK
  <1>1. \A j \in Jobs : Finished(j)
    BY <1>0, FinishedStep
  <1>2. (\A j \in Jobs : qstate[j] = "completed" => returned[j] # 0)'
    BY <1>0, <1>1 DEF Reading, Finished
  <1>3. ASSUME UNCHANGED read PROVE Reading'
    BY <1>3, <1>0, <1>1, <1>2 DEF Reading, SettledRead, Finished
  <1>4. ASSUME ReaderStep PROVE Reading'
    <2>0. UNCHANGED queueVars
      BY <1>4, DoorsOnly
    <2>1. ASSUME NEW j \in Jobs, ReadJob(j) PROVE Reading'
      <3>1. read'.at = "state" /\ read'.job = j
        BY <2>1 DEF ReadJob, NoRead
      <3> QED BY <3>1, <1>2 DEF Reading, SettledRead
    <2>2. ASSUME ReadState PROVE Reading'
      <3>1. /\ read'.at = IF qstate[read.job] \in {"completed", "failed"} THEN "refetch" ELSE "schema"
            /\ read'.state = qstate[read.job] /\ read'.job = read.job /\ read.job \in Jobs
        BY <2>2, <1>0 DEF ReadState, ReadType, Reading
      <3> QED BY <3>1, <2>0, <1>2 DEF Reading, SettledRead, queueVars
    <2>3. ASSUME Refetch PROVE Reading'
      <3>1. /\ read'.at = "schema" /\ read'.state = read.state /\ read'.job = read.job
            /\ read'.snap = Refetched /\ read.job \in Jobs
        BY <2>3, <1>0 DEF Refetch, ReadType, Reading
      <3>2. read.state = "completed" => Refetched.returned # 0 \/ qstate[read.job] = "removed"
        BY <2>3, <1>0, <3>1 DEF Refetch, Reading, Refetched, Snapshot
      <3> QED BY <3>1, <3>2, <2>0, <1>2 DEF Reading, SettledRead, queueVars
    <2>4. ASSUME ReadSchema PROVE Reading'
      <3>1. /\ read'.at = "answered" /\ read'.state = read.state /\ read'.job = read.job
            /\ read'.snap = read.snap /\ read.job \in Jobs /\ read.at = "schema"
        BY <2>4, <1>0 DEF ReadSchema, ReadType, Reading
      <3> QED BY <3>1, <2>0, <1>0, <1>2 DEF Reading, SettledRead, queueVars
    <2>5. ASSUME ReadAgain PROVE Reading'
      <3>1. read'.at = "idle"
        BY <2>5 DEF ReadAgain, NoRead
      <3> QED BY <3>1, <1>2 DEF Reading, SettledRead
    <2> QED BY <1>4, <2>1, <2>2, <2>3, <2>4, <2>5 DEF ReaderStep
  <1>5. ASSUME AskStep PROVE UNCHANGED read
    BY <1>5 DEF AskStep, JobInfo, JobProgress, DeviceLog, RedisCommand, Asks, OverRate, InfoReceived,
         ProgressReceived, LogReceived, RedisReceived, Received, InfoServed, ProgressUpdated,
         LogStored, RedisAnswers, Served, ReplyHeard
  <1> QED BY <1>3, <1>4, <1>5, QueueOnly

\* What an attempt was given to run stays on record, and attempts only go up.
LEMMA GivenStep ==
  ASSUME QueueType, RunType, Attempting, [Next]_vars, NEW k \in Jobs, NEW m \in Attempts, m <= attempt[k]
  PROVE  m <= attempt'[k] /\ run'[k][m] = run[k][m]
  <1>1. ASSUME NEW j \in Jobs, StartAttempt(j) PROVE m <= attempt'[k] /\ run'[k][m] = run[k][m]
    <2>1. PICK n \in Attempts, q \in {"waiting", "failed", "active"} : StartFacts(j, n, q)
      BY <1>1, StartAttemptFacts
    <2>2. n = attempt[j] + 1 /\ attempt' = [attempt EXCEPT ![j] = n]
      BY <2>1 DEF StartFacts
    <2>3. attempt \in [Jobs -> 0 .. MaxAttempts] /\ Attempts \subseteq Nat
      BY JobsAssumption DEF QueueType, Attempts
    <2>4. m <= attempt'[k] /\ ~(k = j /\ m = n)
      BY <2>2, <2>3
    <2>5. version \in 0 .. MaxVersions /\ run \in [Jobs -> [Attempts -> 0 .. MaxVersions]]
      BY DEF RunType, QueueType
    <2>6. run' = run \/ run' = [run EXCEPT ![j][n] = version]
      BY <2>1 DEF StartFacts
    <2>7. CASE run' = [run EXCEPT ![j][n] = version]
      BY <2>4, <2>5, <2>7, Update2
    <2> QED BY <2>4, <2>6, <2>7
  <1>2. ASSUME NEW j \in Jobs, AddJob(j) \/ RemoveJob(j) PROVE UNCHANGED <<attempt, run>>
    BY <1>2 DEF AddJob, RemoveJob, runVars
  <1>3. ASSUME NEW j \in Jobs, NEW n \in Attempts, TimeoutFires(j, n) \/ AttemptStep(j, n)
        PROVE  UNCHANGED <<attempt, run>>
    BY <1>3 DEF TimeoutFires, AttemptStep, ActionFails, ActionSucceeds, StampResolves, Resolve, queueVars
  <1>4. ASSUME LoadModule \/ (\E retry \in BOOLEAN : ModuleEnds(retry)) PROVE UNCHANGED <<attempt, run>>
    BY <1>4 DEF LoadModule, ModuleEnds, queueVars, runVars
  <1>5. ASSUME ReaderStep \/ AskStep \/ UNCHANGED vars PROVE UNCHANGED <<attempt, run>>
    BY <1>5, DoorsOnly DEF queueVars, runVars
  <1> QED BY <1>1, <1>2, <1>3, <1>4, <1>5 DEF Next

\* Every step keeps Asking.
LEMMA AskingStep ==
  ASSUME IInv, [Next]_vars
  PROVE  Asking'
  <1>0. QueueType /\ RunType /\ Attempting /\ InFlight /\ Asking /\ AskType
    BY DEF IInv, TypeOK
  <1>a. \A k \in Jobs, m \in Attempts : m <= attempt[k] => m <= attempt'[k] /\ run'[k][m] = run[k][m]
    BY <1>0, GivenStep
  <1>1. ASSUME UNCHANGED ask PROVE Asking'
    <2>1. ASSUME ask.at = "serving", ask.job \in Jobs
          PROVE  \E n \in Attempts : n <= attempt'[ask.job] /\ run'[ask.job][n] = ask.from
      BY <2>1, <1>0, <1>a DEF Asking
    <2> QED BY <1>1, <2>1, <1>0 DEF Asking
  <1>2. ASSUME NEW kinds, NEW served \in BOOLEAN, Received(kinds, served),
               served /\ ask.what \in {"info", "progress"} => <<ask.from, ask.job>> \in inFlight
        PROVE  Asking'
    <2>1. CASE ~served
      <3>1. ask' = NoAsk \/ ask' = Replied
        BY <1>2, <2>1 DEF Received
      <3> QED BY <3>1 DEF NoAsk, Replied, Asking
    <2>2. CASE served
      <3>1. /\ ask'.what = ask.what /\ ask'.from = ask.from /\ ask'.job = ask.job
            /\ UNCHANGED <<queueVars, runVars>>
        BY <1>2, <2>2, <1>0 DEF Received, AskType
      <3>2. ASSUME ask.job \in Jobs
            PROVE  \E n \in Attempts : n <= attempt[ask.job] /\ run[ask.job][n] = ask.from
        <4>1. <<ask.from, ask.job>> \in inFlight
          BY <1>2, <2>2, <3>2, <1>0, JobsAssumption DEF Asking
        <4>2. PICK n \in Attempts : phase[ask.job][n] = "running" /\ run[ask.job][n] = ask.from
          BY <4>1, <1>0 DEF InFlight
        <4>3. ~(n > attempt[ask.job])
          BY <4>2, <3>2, <1>0, OpenFacts DEF Open
        <4>4. n <= attempt[ask.job]
          BY <4>3, <3>2, <1>0, JobsAssumption DEF QueueType, Attempts
        <4> QED BY <4>2, <4>4
      <3> QED BY <3>1, <3>2, <1>0 DEF Asking, queueVars, runVars
    <2> QED BY <2>1, <2>2
  <1>3. ASSUME NEW kinds, NEW next \in {NoAsk, Replied}, Served(kinds, next) PROVE Asking'
    BY <1>3 DEF Served, NoAsk, Replied, Asking
  <1>4. ASSUME NEW j \in Jobs, JobInfo(j) \/ JobProgress(j) PROVE Asking'
    BY <1>4 DEF JobInfo, JobProgress, Asks, Asking
  <1>5. ASSUME DeviceLog \/ RedisCommand PROVE Asking'
    BY <1>5 DEF DeviceLog, RedisCommand, Asks, Asking
  <1>6. ASSUME OverRate PROVE Asking'
    BY <1>6, <1>2 DEF OverRate
  <1>7. ASSUME InfoReceived \/ ProgressReceived PROVE Asking'
    <2>1. RunsJob(ask.from, ask.job) \in BOOLEAN
      BY DEF RunsJob
    <2> QED BY <1>7, <1>2, <2>1 DEF InfoReceived, ProgressReceived, RunsJob
  <1>8. ASSUME LogReceived PROVE Asking'
    <2>1. Received({"log"}, TRUE) /\ ask.what = "log"
      BY <1>8 DEF LogReceived, Received
    <2> QED BY <2>1, <1>2
  <1>9. ASSUME RedisReceived PROVE Asking'
    <2>1. Received({"get", "other"}, IsCommand(ask.what)) /\ ask.what \in {"get", "other"}
      BY <1>9 DEF RedisReceived, Received
    <2>2. IsCommand(ask.what) \in BOOLEAN
      BY DEF IsCommand
    <2> QED BY <2>1, <2>2, <1>2
  <1>10. ASSUME InfoServed \/ ProgressUpdated \/ LogStored \/ RedisAnswers PROVE Asking'
    BY <1>10, <1>3 DEF InfoServed, ProgressUpdated, LogStored, RedisAnswers
  <1>11. ASSUME ReplyHeard PROVE Asking'
    BY <1>11 DEF ReplyHeard, NoAsk, Asking
  <1>12. ASSUME ReaderStep PROVE UNCHANGED ask
    BY <1>12 DEF ReaderStep, ReadState, Refetch, ReadSchema, ReadAgain, ReadJob
  <1>13. ASSUME AskStep PROVE Asking'
    BY <1>13, <1>4, <1>5, <1>6, <1>7, <1>8, <1>9, <1>10, <1>11 DEF AskStep
  <1> QED BY <1>1, <1>12, <1>13, QueueOnly

\* The invariant holds at first.
LEMMA InitInv ==
  ASSUME Init
  PROVE  IInv
  <1>1. QueueType
    BY JobsAssumption DEF Init, QueueType, QueueStates, Attempts
  <1>2. RunType
    BY JobsAssumption DEF Init, RunType
  <1>3. ReadType
    BY JobsAssumption DEF Init, ReadType, NoRead, Nothing
  <1>4. AskType
    BY JobsAssumption DEF Init, AskType, NoAsk
  <1>5. Attempting
    BY JobsAssumption DEF Init, Attempting, Open, Attempts
  <1>6. Charging
    <2> SUFFICES ASSUME NEW j \in Jobs PROVE ChargedRight(j)
      BY DEF Charging
    <2>1. LateAnswers(j) \in SUBSET Attempts
      BY DEF LateAnswers
    <2>2. Cardinality(LateAnswers(j)) \in Nat
      BY <2>1, CountAttempts
    <2>3. charges[j] = 0 /\ qstate[j] = "absent" /\ \A n \in Attempts : phase[j][n] = "none"
      BY DEF Init
    <2> QED BY <2>2, <2>3 DEF ChargedRight
  <1>7. InFlight /\ Reading /\ Asking
    BY DEF Init, InFlight, Reading, SettledRead, Asking, NoRead, NoAsk
  <1> QED BY <1>1, <1>2, <1>3, <1>4, <1>5, <1>6, <1>7 DEF IInv, TypeOK

(***************************************************************************)
(* The theorems.                                                           *)
(***************************************************************************)

\* IInv is an invariant of the jobs and tasks: through retries, timeouts, reloads
\* and removals, a charge stands for a success or a late answer, and the list of
\* a worker's jobs is what it runs.
THEOREM Invariance == Spec => []IInv
  <1>1. IInv /\ [Next]_vars => IInv'
    <2> SUFFICES ASSUME IInv, [Next]_vars PROVE IInv'
      OBVIOUS
    <2>1. QueueType' /\ RunType'
      BY QueueTypeStep DEF IInv, TypeOK
    <2>2. ReadType' /\ AskType'
      BY DoorTypeStep DEF IInv
    <2> QED BY <2>1, <2>2, AttemptingStep, ChargingStep, InFlightStep, ReadingStep, AskingStep
            DEF IInv, TypeOK
  <1> QED BY InitInv, <1>1, PTL DEF Spec

\* Every variable keeps its type.
THEOREM TypeCorrect == Spec => []TypeOK
  <1>1. IInv => TypeOK
    BY DEF IInv
  <1> QED BY Invariance, <1>1, PTL

\* recordCall's calls for a job (lib/job-control.js): one at most, plus one for
\* each attempt that timed out and succeeded all the same; at least one for a job
\* reported completed, none for one reported failed that never timed out.
THEOREM JobChargedOnce == Spec => []ChargedOnce
  <1>1. IInv => ChargedOnce
    <2> SUFFICES ASSUME IInv, NEW j \in Jobs
                 PROVE  /\ charges[j] <= 1 + Cardinality(Expired(j))
                        /\ qstate[j] = "failed" /\ Expired(j) = {} => charges[j] = 0
                        /\ qstate[j] = "completed" => charges[j] > 0
      BY DEF ChargedOnce
    <2>1. LateAnswers(j) \subseteq Expired(j) /\ LateAnswers(j) \in SUBSET Attempts
          /\ Expired(j) \in SUBSET Attempts
      BY DEF LateAnswers, Expired
    <2>2. /\ Cardinality(LateAnswers(j)) \in Nat /\ Cardinality(Expired(j)) \in Nat
          /\ Cardinality(LateAnswers(j)) <= Cardinality(Expired(j))
      BY <2>1, CountAttempts
    <2>3. charges[j] \in Nat /\ ChargedRight(j) /\ Attempting
      BY DEF IInv, TypeOK, RunType, Charging
    <2>4. ASSUME qstate[j] = "failed", Expired(j) = {} PROVE charges[j] = 0
      <3>1. ~Succeeding(j)
        BY <2>3, <2>4, NotSucceeding
      <3>2. Cardinality(Expired(j)) = 0
        BY <2>4, FS_EmptySet
      <3> QED BY <3>1, <3>2, <2>2, <2>3 DEF ChargedRight
    <2> QED BY <2>2, <2>3, <2>4 DEF ChargedRight
  <1> QED BY Invariance, <1>1, PTL

\* jobsInFlight (DeviceManager) names only what a worker is running now, and a
\* worker that reads or updates a job was itself given that job to run.
THEOREM OwnJobsOnly == Spec => []WorkersSeeOwnJobs
  <1>1. IInv => WorkersSeeOwnJobs
    BY DEF IInv, WorkersSeeOwnJobs, InFlight, Asking
  <1> QED BY Invariance, <1>1, PTL

\* getJob's three reads: a job reported completed comes with its result, unless
\* it was removed between the reads.
THEOREM CompletedIsRead == Spec => []SettledRead
  <1>1. IInv => SettledRead
    BY DEF IInv, Reading
  <1> QED BY Invariance, <1>1, PTL

-----------------------------------------------------------------------------
(* The doors onto jobs, TenantDoors.tla *)

Stages == {"idle", "user", "device", "gate", "door", "state", "again", "removing"}
JobStates == {"none", "delayed", "waiting", "active", "completed", "failed", "removed"}
Doors == ByJob \cup ByName \cup {"none"}
Args == JobIDs \cup JobNames \cup {None}
Keys == Clients \cup {None}
RequestStates == [st : Stages, door : Doors, arg : Args, admin : BOOLEAN]
Answers == [to : Clients, door : Doors, arg : Args, got : SUBSET JobIDs, admin : BOOLEAN]
JobRecords == [st : JobStates, owner : Keys, name : JobNames]
Records == [job : JobIDs, st : JobStates \cup {"stalled"}]

\* What a request that is being served can be, at each of its stages.
RequestOK(c, r) ==
  /\ r.st # "idle" => \/ r.door \in ByJob /\ r.arg \in JobIDs
                      \/ r.door \in ByName /\ r.arg \in JobNames
  /\ r.st = "state" => r.door \in {"get", "taskget", "result", "cancel"}
  /\ r.st = "again" => r.door = "cancel"
  /\ r.st = "removing" => r.door \in {"remove", "cancel"}
  /\ r.st \in {"state", "again", "removing"} => r.admin \/ jobs[r.arg].owner = c

\* An answer names its receiver's own jobs, and one that says a job is removed is right.
AnswerOK(a) ==
  /\ a.admin \/ \A j \in a.got : jobs[j].owner = a.to
  /\ a.door \in {"remove", "cancel"} => a.arg \in JobIDs /\ jobs[a.arg].st = "removed"

\* A key's scheduler is found by the key and the name together.
Scheduled ==
  \A m \in made : \E s \in scheds : s.id = <<m[1], m[2]>> /\ s.owner = m[1] /\ s.name = m[2]

\* The last event of job j still to be handled tells its state.
LastTells(j, queue, st) ==
  \E i \in DOMAIN queue :
    /\ queue[i].job = j /\ Tells(queue[i].st) = st
    /\ \A k \in DOMAIN queue : k > i => queue[k].job # j

Silent(j, queue) == \A i \in DOMAIN queue : queue[i].job # j

\* The newest record of job j in a list tells its state, and only the trim of a
\* full list takes it away.
Shown(j, list, st) ==
  /\ Len(list) < HistMax => \E i \in DOMAIN list : list[i].job = j
  /\ \A i \in DOMAIN list :
       list[i].job = j /\ (\A k \in 1 .. (i - 1) : list[k].job # j) => Tells(list[i].st) = st

\* Nothing was said of a job that does not wait yet.
Unseen(j) == Silent(j, events) /\ \A n \in JobNames : Silent(j, hist[n])

\* A job's state is in the last event about it, or, when none is left, in its
\* history, unless that event's record was lost.
Recorded(j) ==
  /\ jobs[j].st \in {"none", "delayed"} => Unseen(j)
  /\ There(j) /\ jobs[j].st # "delayed" =>
       \/ LastTells(j, events, jobs[j].st)
       \/ Silent(j, events) /\ (j \in lost \/ Shown(j, hist[jobs[j].name], jobs[j].st))

\* The store: a key that is granted the device has its row, and none that is
\* being removed has a grant, but for the grants written while it had no row or
\* was losing it.
StoreInv ==
  /\ auth \in {"file", "sqlite"} /\ users \subseteq Clients /\ admins \subseteq Clients
  /\ cli \subseteq Clients /\ edits \in Nat
  /\ grants \subseteq users \cup stray
  /\ grants \cap cli \subseteq stray

RequestsInv ==
  /\ req \in [Clients -> RequestStates]
  /\ answers \subseteq Answers
  /\ \A c \in Clients : RequestOK(c, req[c])
  /\ \A a \in answers : AnswerOK(a)

JobsInv ==
  /\ jobs \in [JobIDs -> JobRecords]
  /\ scheds \subseteq [id : Keys \X JobNames, owner : Keys, name : JobNames]
  /\ made \subseteq Clients \X JobNames
  /\ \A j \in JobIDs : jobs[j].st = "none" => jobs[j].owner = None
  /\ Scheduled

HistoryInv ==
  /\ events \in Seq(Records)
  /\ hist \in [JobNames -> Seq(Records)]
  /\ \A j \in JobIDs : Recorded(j)

DoorsInv ==
  /\ post \in [Clients -> Seq(Requests)]
  /\ StoreInv /\ RequestsInv /\ JobsInv /\ HistoryInv

\* No job passes to another key, and a job that is removed stays so.
Kept ==
  \A j \in JobIDs : /\ jobs[j].owner \in Clients => jobs'[j].owner = jobs[j].owner
                    /\ jobs[j].st = "removed" => jobs'[j].st = "removed"

\* An answer keeps right what was asked and answered, when it gives what is its receiver's.
LEMMA AnswerKeeps ==
  ASSUME RequestsInv, Kept, NEW c \in Clients, NEW got \in SUBSET JobIDs,
         Answer(c, got),
         req[c].admin \/ \A j \in got : jobs'[j].owner = c,
         req[c].door \in {"remove", "cancel"} => req[c].arg \in JobIDs /\ jobs'[req[c].arg].st = "removed"
  PROVE  RequestsInv'
  <1> DEFINE a == [to |-> c, door |-> req[c].door, arg |-> req[c].arg, got |-> got, admin |-> req[c].admin]
  <1>1. /\ req[c] \in RequestStates /\ Idle \in RequestStates
    BY DEF RequestsInv, RequestStates, Idle, Stages, Doors, Args
  <1>2. a \in Answers
    BY <1>1 DEF RequestStates, Answers
  <1>3. /\ req' = [req EXCEPT ![c] = Idle]
        /\ answers' = answers \cup {a}
    BY DEF Answer
  <1>4. req' \in [Clients -> RequestStates]
    BY <1>1, <1>3 DEF RequestsInv
  <1>5. answers' \subseteq Answers
    BY <1>2, <1>3 DEF RequestsInv
  <1>6. ASSUME NEW d \in Clients
        PROVE  RequestOK(d, req[d])'
    <2>1. CASE d = c
      <3>1. req'[d] = Idle
        BY <1>3, <2>1 DEF RequestsInv
      <3> QED BY <3>1 DEF RequestOK, Idle
    <2>2. CASE d # c
      <3>1. req'[d] = req[d] /\ RequestOK(d, req[d])
        BY <1>3, <2>2 DEF RequestsInv
      <3>2. req[d].st \in {"state", "again", "removing"} => req[d].arg \in JobIDs
        BY <3>1 DEF RequestOK, ByJob, ByName
      <3> QED BY <3>1, <3>2 DEF RequestOK, Kept
    <2> QED BY <2>1, <2>2
  <1>7. ASSUME NEW b \in answers'
        PROVE  AnswerOK(b)'
    <2>1. CASE b \in answers
      <3>1. AnswerOK(b) /\ b.to \in Clients /\ b.got \subseteq JobIDs
        BY <2>1 DEF RequestsInv, Answers
      <3> QED BY <3>1 DEF AnswerOK, Kept
    <2>2. CASE b = a
      BY <2>2 DEF AnswerOK
    <2> QED BY <1>3, <2>1, <2>2
  <1> QED BY <1>4, <1>5, <1>6, <1>7 DEF RequestsInv

\* So does a refusal, and every step that answers nothing and leaves the requests alone
\* or moves one on to a stage it may be at.
LEMMA MoveKeeps ==
  ASSUME RequestsInv, Kept, NEW c \in Clients, NEW r \in RequestStates,
         req' = [req EXCEPT ![c] = r], answers' = answers, RequestOK(c, r)'
  PROVE  RequestsInv'
  <1>1. req' \in [Clients -> RequestStates] /\ answers' \subseteq Answers
    BY DEF RequestsInv
  <1>2. ASSUME NEW d \in Clients
        PROVE  RequestOK(d, req[d])'
    <2>1. CASE d = c
      <3>1. req'[d] = r
        BY <2>1 DEF RequestsInv
      <3> QED BY <2>1, <3>1 DEF RequestOK
    <2>2. CASE d # c
      <3>1. req'[d] = req[d] /\ RequestOK(d, req[d])
        BY <2>2 DEF RequestsInv
      <3>2. req[d].st \in {"state", "again", "removing"} => req[d].arg \in JobIDs
        BY <3>1 DEF RequestOK, ByJob, ByName
      <3> QED BY <3>1, <3>2 DEF RequestOK, Kept
    <2> QED BY <2>1, <2>2
  <1>3. ASSUME NEW b \in answers'
        PROVE  AnswerOK(b)'
    <2>1. AnswerOK(b) /\ b.to \in Clients /\ b.got \subseteq JobIDs
      BY DEF RequestsInv, Answers
    <2> QED BY <2>1 DEF AnswerOK, Kept
  <1> QED BY <1>1, <1>2, <1>3 DEF RequestsInv

\* A request that is refused leaves the other requests and the jobs alone.
LEMMA RefuseKeeps ==
  ASSUME RequestsInv, Kept, NEW c \in Clients, Refuse(c)
  PROVE  RequestsInv'
  <1>1. Idle \in RequestStates /\ RequestOK(c, Idle)'
    BY DEF RequestStates, RequestOK, Idle, Stages, Doors, Args
  <1> QED BY <1>1, MoveKeeps DEF Refuse

\* A request goes on to its next stage, and nothing else moves.
LEMMA GotoKeeps ==
  ASSUME RequestsInv, Kept, NEW c \in Clients, NEW st \in Stages \ {"idle"}, Goto(c, st),
         req[c].st # "idle",
         st = "state" => req[c].door \in {"get", "taskget", "result", "cancel"},
         st = "again" => req[c].door = "cancel",
         st = "removing" => req[c].door \in {"remove", "cancel"},
         st \in {"state", "again", "removing"} => req[c].admin \/ jobs'[req[c].arg].owner = c
  PROVE  RequestsInv'
  <1>1. req[c] \in RequestStates /\ RequestOK(c, req[c])
    BY DEF RequestsInv
  <1>2. PICK r \in RequestStates : r = [st |-> st, door |-> req[c].door, arg |-> req[c].arg, admin |-> req[c].admin]
    BY <1>1 DEF RequestStates
  <1>3. [req[c] EXCEPT !.st = st] = r
    BY <1>1, <1>2 DEF RequestStates
  <1>4. req' = [req EXCEPT ![c] = r]
    BY <1>3 DEF Goto
  <1>5. RequestOK(c, r)'
    BY <1>1, <1>2 DEF RequestOK
  <1>6. answers' = answers
    BY DEF Goto
  <1> QED BY <1>4, <1>5, <1>6, MoveKeeps

\* Steps that leave requests and answers alone.
LEMMA IdleKeeps ==
  ASSUME RequestsInv, Kept, UNCHANGED <<req, answers>>
  PROVE  RequestsInv'
  <1>1. ASSUME NEW d \in Clients
        PROVE  RequestOK(d, req[d])'
    <2>1. req'[d] = req[d] /\ RequestOK(d, req[d])
      BY DEF RequestsInv
    <2>2. req[d].st \in {"state", "again", "removing"} => req[d].arg \in JobIDs
      BY <2>1 DEF RequestOK, ByJob, ByName
    <2> QED BY <2>1, <2>2 DEF RequestOK, Kept
  <1>2. ASSUME NEW b \in answers'
        PROVE  AnswerOK(b)'
    <2>1. AnswerOK(b) /\ b.to \in Clients /\ b.got \subseteq JobIDs
      BY DEF RequestsInv, Answers
    <2> QED BY <2>1 DEF AnswerOK, Kept
  <1> QED BY <1>1, <1>2 DEF RequestsInv

\* A step that leaves the jobs alone keeps them.
LEMMA SameJobs ==
  ASSUME UNCHANGED jobs
  PROVE  Kept
  BY DEF Kept

\* The event just queued about a job is its last; events about other jobs change nothing.
LEMMA AppendTells ==
  ASSUME NEW queue \in Seq(Records), NEW e \in Records, NEW j, NEW st
  PROVE  /\ LastTells(e.job, Append(queue, e), Tells(e.st))
         /\ j # e.job /\ LastTells(j, queue, st) => LastTells(j, Append(queue, e), st)
         /\ j # e.job /\ Silent(j, queue) => Silent(j, Append(queue, e))
  <1> DEFINE q == Append(queue, e)
  <1>1. /\ Len(queue) + 1 \notin DOMAIN queue /\ q[Len(queue) + 1] = e
        /\ DOMAIN q = DOMAIN queue \cup {Len(queue) + 1}
        /\ \A i \in DOMAIN queue : q[i] = queue[i]
    BY AppendIndex
  <1>2. DOMAIN queue = 1 .. Len(queue) /\ Len(queue) \in Nat
    BY LenProperties
  <1> HIDE DEF q
  <1>3. \A k \in DOMAIN q : ~(k > Len(queue) + 1)
    BY <1>1, <1>2
  <1>4. LastTells(e.job, q, Tells(e.st))
    BY <1>1, <1>3 DEF LastTells
  <1>5. j # e.job /\ LastTells(j, queue, st) => LastTells(j, q, st)
    BY <1>1 DEF LastTells
  <1>6. j # e.job /\ Silent(j, queue) => Silent(j, q)
    BY <1>1 DEF Silent
  <1> QED BY <1>4, <1>5, <1>6 DEF q

\* The first event is handled: what the others tell is still to come.
LEMMA TailTells ==
  ASSUME NEW queue \in Seq(Records), queue # <<>>, NEW j, NEW st
  PROVE  /\ LastTells(j, queue, st) => \/ LastTells(j, Tail(queue), st)
                                       \/ queue[1].job = j /\ Tells(queue[1].st) = st /\ Silent(j, Tail(queue))
         /\ Silent(j, queue) => Silent(j, Tail(queue)) /\ queue[1].job # j
         /\ queue[1] \in Records /\ Tail(queue) \in Seq(Records) /\ Head(queue) = queue[1]
  <1> DEFINE q == Tail(queue)
  <1>1. /\ q \in Seq(Records) /\ 1 \in DOMAIN queue /\ queue[1] \in Records
        /\ \A i \in DOMAIN q : i \in Nat /\ i + 1 \in DOMAIN queue /\ i + 1 # 1 /\ q[i] = queue[i + 1]
        /\ \A i \in DOMAIN queue : i # 1 => i \in Nat /\ i - 1 \in DOMAIN q /\ q[i - 1] = queue[i]
    BY TailIndex
  <1>2. Head(queue) = queue[1]
    BY HeadTailProperties
  <1>3. \A i \in DOMAIN q : i + 1 > 1
    <2>1. DOMAIN q = 1 .. Len(q) /\ Len(q) \in Nat
      BY <1>1, LenProperties
    <2> QED BY <2>1
  <1> HIDE DEF q
  <1>4. ASSUME NEW i \in DOMAIN queue, queue[i].job = j, Tells(queue[i].st) = st,
               \A k \in DOMAIN queue : k > i => queue[k].job # j
        PROVE  LastTells(j, q, st) \/ (queue[1].job = j /\ Tells(queue[1].st) = st /\ Silent(j, q))
    <2>1. CASE i = 1
      <3>1. \A k \in DOMAIN q : q[k].job # j
        BY <1>1, <1>3, <1>4, <2>1
      <3> QED BY <1>4, <2>1, <3>1 DEF Silent
    <2>2. CASE i # 1
      <3>1. i - 1 \in DOMAIN q /\ q[i - 1] = queue[i] /\ i \in Nat
        BY <1>1, <2>2
      <3>2. \A k \in DOMAIN q : k > i - 1 => q[k].job # j
        <4> TAKE k \in DOMAIN q
        <4>1. k \in Nat /\ k + 1 \in DOMAIN queue /\ q[k] = queue[k + 1]
          BY <1>1
        <4>2. k > i - 1 => k + 1 > i
          BY <3>1, <4>1
        <4> QED BY <1>4, <4>1, <4>2
      <3> QED BY <1>4, <3>1, <3>2 DEF LastTells
    <2> QED BY <2>1, <2>2
  <1>5. Silent(j, queue) => Silent(j, q) /\ queue[1].job # j
    BY <1>1 DEF Silent
  <1>6. LastTells(j, queue, st) => LastTells(j, q, st) \/ (queue[1].job = j /\ Tells(queue[1].st) = st /\ Silent(j, q))
    BY <1>4 DEF LastTells
  <1> QED BY <1>1, <1>2, <1>5, <1>6 DEF q

\* saveJobInfoToRedis: the record is first, the others one further, the last perhaps gone.
LEMMA SavedFacts ==
  ASSUME NEW list \in Seq(Records), NEW e \in Records
  PROVE  LET new == Saved(list, e) IN
         /\ new \in Seq(Records) /\ 1 \in DOMAIN new /\ new[1] = e
         /\ Len(list) \in Nat /\ Len(new) = IF Len(list) + 1 > HistMax THEN HistMax ELSE Len(list) + 1
         /\ DOMAIN new = 1 .. Len(new) /\ DOMAIN list = 1 .. Len(list)
         /\ \A i \in DOMAIN new : i # 1 => i - 1 \in DOMAIN list /\ new[i] = list[i - 1]
  <1> DEFINE all == <<e>> \o list
  <1> DEFINE new == Saved(list, e)
  <1>1. /\ <<e>> \in Seq(Records) /\ Len(<<e>>) = 1 /\ <<e>>[1] = e
        /\ Len(list) \in Nat /\ DOMAIN list = 1 .. Len(list) /\ HistMax \in Nat \ {0}
    BY LenProperties, DoorsAssumption
  <1>2. /\ all \in Seq(Records) /\ Len(all) = 1 + Len(list)
        /\ \A i \in 1 .. (1 + Len(list)) : all[i] = IF i <= 1 THEN <<e>>[i] ELSE list[i - 1]
    BY <1>1, ConcatProperties
  <1>3. DOMAIN all = 1 .. (1 + Len(list)) /\ all[1] = e
        /\ \A i \in DOMAIN all : i # 1 => i - 1 \in DOMAIN list /\ all[i] = list[i - 1]
    BY <1>1, <1>2, LenProperties
  <1>4. new = Trimmed(all)
    BY DEF Saved
  <1> HIDE DEF all, new
  <1>5. CASE Len(all) > HistMax
    <2>1. new = SubSeq(all, 1, HistMax)
      BY <1>4, <1>5 DEF Trimmed
    <2>2. /\ new \in Seq(Records) /\ Len(new) = HistMax /\ \A i \in 1 .. HistMax : new[i] = all[i]
      BY <1>1, <1>2, <1>5, <2>1, SubSeqProperties
    <2>3. DOMAIN new = 1 .. HistMax /\ 1 .. HistMax \subseteq DOMAIN all
      BY <1>1, <1>2, <1>3, <1>5, <2>2, LenProperties
    <2> QED BY <1>1, <1>2, <1>3, <1>5, <2>2, <2>3 DEF new
  <1>6. CASE ~(Len(all) > HistMax)
    <2>1. new = all
      BY <1>4, <1>6 DEF Trimmed
    <2> QED BY <1>1, <1>2, <1>3, <1>6, <2>1 DEF new
  <1> QED BY <1>5, <1>6

\* A saved record tells of its own job, and hides no other.
LEMMA SavedShown ==
  ASSUME NEW list \in Seq(Records), NEW e \in Records, NEW j, NEW st
  PROVE  /\ Shown(e.job, Saved(list, e), Tells(e.st))
         /\ j # e.job /\ Shown(j, list, st) => Shown(j, Saved(list, e), st)
         /\ j # e.job /\ Silent(j, list) => Silent(j, Saved(list, e))
  <1> DEFINE new == Saved(list, e)
  <1>1. /\ new \in Seq(Records) /\ 1 \in DOMAIN new /\ new[1] = e
        /\ Len(list) \in Nat /\ Len(new) = IF Len(list) + 1 > HistMax THEN HistMax ELSE Len(list) + 1
        /\ DOMAIN new = 1 .. Len(new) /\ DOMAIN list = 1 .. Len(list)
        /\ \A i \in DOMAIN new : i # 1 => i - 1 \in DOMAIN list /\ new[i] = list[i - 1]
    BY SavedFacts
  <1> HIDE DEF new
  <1>2. HistMax \in Nat \ {0} /\ Len(new) \in Nat
    BY <1>1, DoorsAssumption
  <1>3. Shown(e.job, new, Tells(e.st))
    <2>1. \A i \in DOMAIN new : i # 1 => 1 \in 1 .. (i - 1)
      BY <1>1, <1>2
    <2> QED BY <1>1, <2>1 DEF Shown
  <1>4. ASSUME j # e.job, Shown(j, list, st)
        PROVE  Shown(j, new, st)
    <2>1. ASSUME Len(new) < HistMax
          PROVE  \E i \in DOMAIN new : new[i].job = j
      <3>1. Len(new) = Len(list) + 1 /\ Len(list) < HistMax
        BY <1>1, <1>2, <2>1
      <3>2. PICK i \in DOMAIN list : list[i].job = j
        BY <1>4, <3>1 DEF Shown
      <3>3. i + 1 \in DOMAIN new /\ i + 1 # 1 /\ (i + 1) - 1 = i
        BY <1>1, <3>1, <3>2
      <3> QED BY <1>1, <3>2, <3>3
    <2>2. ASSUME NEW i \in DOMAIN new, new[i].job = j, \A k \in 1 .. (i - 1) : new[k].job # j
          PROVE  Tells(new[i].st) = st
      <3>1. i # 1
        BY <1>1, <1>4, <2>2
      <3>2. i - 1 \in DOMAIN list /\ new[i] = list[i - 1]
        BY <1>1, <3>1
      <3>3. ASSUME NEW k \in 1 .. ((i - 1) - 1)
            PROVE  list[k].job # j
        <4>1. k + 1 \in DOMAIN new /\ k + 1 # 1 /\ k + 1 \in 1 .. (i - 1) /\ (k + 1) - 1 = k
          BY <1>1, <1>2, <3>2, <3>3
        <4> QED BY <1>1, <2>2, <4>1
      <3> QED BY <1>4, <2>2, <3>2, <3>3 DEF Shown
    <2> QED BY <2>1, <2>2 DEF Shown
  <1>5. j # e.job /\ Silent(j, list) => Silent(j, new)
    BY <1>1 DEF Silent
  <1> QED BY <1>3, <1>4, <1>5 DEF new

\* What the events say of job j, the queue says too.
Passed(j, queue) ==
  /\ LastTells(j, events, jobs[j].st) => LastTells(j, queue, jobs[j].st)
  /\ Silent(j, events) => Silent(j, queue)

\* A job is queued, or moves on, and the event that says so is the last about it.
LEMMA JobMoves ==
  ASSUME JobsInv, HistoryInv, NEW j \in JobIDs, NEW r \in JobRecords, NEW e \in Records, NEW queue \in Seq(Records),
         r.st \notin {"none", "delayed", "removed"}, e.job = j, Tells(e.st) = r.st,
         \A i \in JobIDs : i # j => Passed(i, queue),
         jobs' = [jobs EXCEPT ![j] = r], events' = Append(queue, e), UNCHANGED histVars,
         jobs[j].st = "none" \/ (jobs[j].st # "removed" /\ r.owner = jobs[j].owner)
  PROVE  /\ jobs' \in [JobIDs -> JobRecords] /\ \A i \in JobIDs : jobs'[i].st = "none" => jobs'[i].owner = None
         /\ Kept /\ HistoryInv'
  <1>1. /\ jobs \in [JobIDs -> JobRecords] /\ events \in Seq(Records) /\ hist \in [JobNames -> Seq(Records)]
        /\ \A i \in JobIDs : jobs[i].st = "none" => jobs[i].owner = None
    BY DEF JobsInv, HistoryInv
  <1>2. jobs' \in [JobIDs -> JobRecords] /\ jobs'[j] = r /\ \A i \in JobIDs : i # j => jobs'[i] = jobs[i]
    BY <1>1
  <1>3. \A i \in JobIDs : jobs'[i].st = "none" => jobs'[i].owner = None
    BY <1>1, <1>2
  <1>4. Kept
    BY <1>1, <1>2, DoorsAssumption DEF Kept
  <1>5. hist' = hist /\ lost' = lost
    BY DEF histVars
  <1>6. events' \in Seq(Records)
    BY AppendIndex
  <1>7. ASSUME NEW i \in JobIDs
        PROVE  Recorded(i)'
    <2>1. CASE i = j
      <3>1. LastTells(j, events', jobs'[j].st)
        BY <1>2, AppendTells
      <3> QED BY <1>2, <2>1, <3>1 DEF Recorded
    <2>2. CASE i # j
      <3>1. /\ LastTells(i, events, jobs[i].st) => LastTells(i, events', jobs[i].st)
            /\ Silent(i, events) => Silent(i, events')
        <4>1. /\ LastTells(i, events, jobs[i].st) => LastTells(i, queue, jobs[i].st)
              /\ Silent(i, events) => Silent(i, queue)
          BY <2>2 DEF Passed
        <4>2. /\ LastTells(i, queue, jobs[i].st) => LastTells(i, Append(queue, e), jobs[i].st)
              /\ Silent(i, queue) => Silent(i, Append(queue, e))
          BY <2>2, AppendTells
        <4> QED BY <4>1, <4>2
      <3>2. jobs'[i] = jobs[i] /\ Recorded(i)
        BY <1>2, <2>2 DEF HistoryInv
      <3> QED BY <1>5, <3>1, <3>2 DEF Recorded, There, Unseen
    <2> QED BY <2>1, <2>2
  <1>8. HistoryInv'
    BY <1>1, <1>5, <1>6, <1>7 DEF HistoryInv
  <1> QED BY <1>2, <1>3, <1>4, <1>8

\* A job that is delayed says nothing yet.
LEMMA JobDelayed ==
  ASSUME JobsInv, HistoryInv, NEW j \in JobIDs, NEW r \in JobRecords, r.st = "delayed", jobs[j].st = "none",
         jobs' = [jobs EXCEPT ![j] = r], UNCHANGED <<events, histVars>>
  PROVE  /\ jobs' \in [JobIDs -> JobRecords] /\ \A i \in JobIDs : jobs'[i].st = "none" => jobs'[i].owner = None
         /\ Kept /\ HistoryInv'
  <1>1. /\ jobs \in [JobIDs -> JobRecords] /\ events \in Seq(Records) /\ hist \in [JobNames -> Seq(Records)]
        /\ \A i \in JobIDs : jobs[i].st = "none" => jobs[i].owner = None
    BY DEF JobsInv, HistoryInv
  <1>2. jobs' \in [JobIDs -> JobRecords] /\ jobs'[j] = r /\ \A i \in JobIDs : i # j => jobs'[i] = jobs[i]
    BY <1>1
  <1>3. \A i \in JobIDs : jobs'[i].st = "none" => jobs'[i].owner = None
    BY <1>1, <1>2
  <1>4. Kept
    BY <1>1, <1>2, DoorsAssumption DEF Kept
  <1>5. hist' = hist /\ lost' = lost /\ events' = events
    BY DEF histVars
  <1>6. ASSUME NEW i \in JobIDs
        PROVE  Recorded(i)'
    <2>1. Recorded(i)
      BY DEF HistoryInv
    <2>2. i = j => Unseen(i)
      BY <2>1 DEF Recorded
    <2> QED BY <1>2, <1>5, <2>1, <2>2 DEF Recorded, There, Unseen
  <1>7. HistoryInv'
    BY <1>1, <1>5, <1>6 DEF HistoryInv
  <1> QED BY <1>2, <1>3, <1>4, <1>7

\* A job that is gone has nothing left to tell.
LEMMA JobRemoved ==
  ASSUME JobsInv, HistoryInv, NEW j \in JobIDs,
         jobs' = [jobs EXCEPT ![j].st = "removed"], UNCHANGED <<events, histVars, scheds, made>>
  PROVE  JobsInv' /\ HistoryInv' /\ Kept /\ jobs'[j].st = "removed" /\ jobs'[j].owner = jobs[j].owner
  <1> DEFINE r == [st |-> "removed", owner |-> jobs[j].owner, name |-> jobs[j].name]
  <1>1. /\ jobs \in [JobIDs -> JobRecords] /\ events \in Seq(Records) /\ hist \in [JobNames -> Seq(Records)]
        /\ \A i \in JobIDs : jobs[i].st = "none" => jobs[i].owner = None
    BY DEF JobsInv, HistoryInv
  <1>2. r \in JobRecords
    BY <1>1 DEF JobRecords, JobStates
  <1>3. [jobs[j] EXCEPT !.st = "removed"] = r
    BY <1>1 DEF JobRecords
  <1>4. r.st = "removed" /\ r.owner = jobs[j].owner
    OBVIOUS
  <1> HIDE DEF r
  <1>5. jobs' \in [JobIDs -> JobRecords] /\ jobs'[j] = r /\ \A i \in JobIDs : i # j => jobs'[i] = jobs[i]
    BY <1>1, <1>2, <1>3
  <1>6. \A i \in JobIDs : jobs'[i].st = "none" => jobs'[i].owner = None
    BY <1>1, <1>4, <1>5
  <1>7. JobsInv'
    <2>1. Scheduled'
      BY DEF Scheduled, JobsInv
    <2> QED BY <1>5, <1>6, <2>1 DEF JobsInv
  <1>8. ASSUME NEW i \in JobIDs
        PROVE  Recorded(i)'
    <2>1. CASE i = j
      BY <1>4, <1>5, <2>1 DEF Recorded, There
    <2>2. CASE i # j
      <3>1. jobs'[i] = jobs[i] /\ Recorded(i)
        BY <1>5, <2>2 DEF HistoryInv
      <3> QED BY <3>1 DEF Recorded, There, Unseen, histVars
    <2> QED BY <2>1, <2>2
  <1>9. HistoryInv'
    BY <1>1, <1>8 DEF HistoryInv, histVars
  <1>10. Kept
    BY <1>4, <1>5 DEF Kept
  <1> QED BY <1>4, <1>5, <1>7, <1>9, <1>10

\* A handled event moves into the history what it tells, or is lost.
LEMMA EventHandledStep ==
  ASSUME JobsInv, HistoryInv, EventHandled
  PROVE  HistoryInv'
  <1> DEFINE e == events[1]
  <1> DEFINE n == jobs[e.job].name
  <1>1. /\ jobs \in [JobIDs -> JobRecords] /\ events \in Seq(Records) /\ hist \in [JobNames -> Seq(Records)]
        /\ events # <<>> /\ UNCHANGED jobs /\ events' = Tail(events)
    BY DEF JobsInv, HistoryInv, EventHandled
  <1>2. e \in Records /\ events' \in Seq(Records) /\ Head(events) = e
    BY <1>1, TailTells
  <1>3. e.job \in JobIDs /\ n \in JobNames
    BY <1>1, <1>2 DEF Records, JobRecords
  <1>4. \/ /\ hist' = IF There(e.job) THEN [hist EXCEPT ![n] = Saved(hist[n], e)] ELSE hist
           /\ lost' = lost \ {e.job}
        \/ hist' = hist /\ lost' = lost \cup {e.job}
    BY <1>2 DEF EventHandled
  <1>5. \A j \in JobIDs : jobs'[j] = jobs[j] /\ (There(j)' <=> There(j))
    BY <1>1 DEF There
  <1> HIDE DEF e
  <1>6. Saved(hist[n], e) \in Seq(Records)
    BY <1>1, <1>2, <1>3, SavedFacts
  <1> HIDE DEF n
  <1>7. hist' \in [JobNames -> Seq(Records)]
    BY <1>1, <1>3, <1>4, <1>6
  \* what was shown or silent of another job stays so
  <1>8. ASSUME NEW j \in JobIDs, j # e.job, NEW m \in JobNames
        PROVE  /\ \A st : Shown(j, hist[m], st) => Shown(j, hist'[m], st)
               /\ Silent(j, hist[m]) => Silent(j, hist'[m])
               /\ j \in lost => j \in lost'
    <2>1. \/ hist'[m] = hist[m]
          \/ m = n /\ hist'[m] = Saved(hist[m], e)
      BY <1>1, <1>3, <1>4
    <2>2. hist[m] \in Seq(Records)
      BY <1>1
    <2>3. ASSUME NEW st, Shown(j, hist[m], st)
          PROVE  Shown(j, hist'[m], st)
      BY <1>2, <1>8, <2>1, <2>2, <2>3, SavedShown
    <2>4. Silent(j, hist[m]) => Silent(j, hist'[m])
      BY <1>2, <1>8, <2>1, <2>2, SavedShown
    <2>5. j \in lost => j \in lost'
      BY <1>4, <1>8
    <2> QED BY <2>3, <2>4, <2>5
  <1>9. ASSUME NEW j \in JobIDs, There(j), jobs[j].st # "delayed"
        PROVE  \/ LastTells(j, events', jobs[j].st)
               \/ Silent(j, events') /\ (j \in lost' \/ Shown(j, hist'[jobs[j].name], jobs[j].st))
    <2>1. Recorded(j) /\ jobs[j].name \in JobNames
      BY <1>1 DEF HistoryInv, JobRecords
    <2>2. CASE LastTells(j, events, jobs[j].st)
      <3>1. \/ LastTells(j, events', jobs[j].st)
            \/ e.job = j /\ Tells(e.st) = jobs[j].st /\ Silent(j, events')
        BY <1>1, <2>2, TailTells DEF e
      <3>2. ASSUME e.job = j, Tells(e.st) = jobs[j].st, j \notin lost'
            PROVE  Shown(j, hist'[jobs[j].name], jobs[j].st)
        <4>1. n = jobs[j].name /\ hist'[n] = Saved(hist[n], e)
          BY <1>1, <1>3, <1>4, <1>9, <3>2 DEF n
        <4>2. Shown(e.job, Saved(hist[n], e), Tells(e.st))
          BY <1>1, <1>2, <1>3, SavedShown
        <4> QED BY <3>2, <4>1, <4>2
      <3> QED BY <3>1, <3>2
    <2>3. CASE Silent(j, events) /\ (j \in lost \/ Shown(j, hist[jobs[j].name], jobs[j].st))
      <3>1. Silent(j, events') /\ e.job # j
        BY <1>1, <2>3, TailTells DEF e
      <3> QED BY <1>8, <2>1, <2>3, <3>1
    <2> QED BY <1>9, <2>1, <2>2, <2>3 DEF Recorded
  <1>10. ASSUME NEW j \in JobIDs, jobs[j].st \in {"none", "delayed"}
         PROVE  Silent(j, events') /\ \A m \in JobNames : Silent(j, hist'[m])
    <2>1. Silent(j, events) /\ \A m \in JobNames : Silent(j, hist[m])
      BY <1>10 DEF HistoryInv, Recorded, Unseen
    <2>2. Silent(j, events') /\ e.job # j
      BY <1>1, <2>1, TailTells DEF e
    <2> QED BY <1>8, <2>1, <2>2
  <1>11. \A j \in JobIDs : Recorded(j)'
    BY <1>5, <1>9, <1>10 DEF Recorded, Unseen
  <1> QED BY <1>2, <1>7, <1>11 DEF HistoryInv

\* What the steps that leave the jobs, the queue and the history alone keep.
LEMMA SameQueue ==
  ASSUME JobsInv, HistoryInv, UNCHANGED <<jobVars, histVars>>
  PROVE  JobsInv' /\ HistoryInv' /\ Kept
  <1>1. JobsInv'
    BY DEF JobsInv, jobVars, Scheduled
  <1>2. HistoryInv'
    BY DEF HistoryInv, jobVars, histVars, Recorded, There, Unseen
  <1>3. Kept
    BY SameJobs DEF jobVars
  <1> QED BY <1>1, <1>2, <1>3

\* The store of the providers stays as it is.
LEMMA SameStore ==
  ASSUME StoreInv, UNCHANGED storeVars
  PROVE  StoreInv'
  BY DEF StoreInv, storeVars

\* The operator's commands: a key's grants go before its row.
LEMMA EditStep ==
  ASSUME DoorsInv, NEW k \in Clients,
         AddUser(k) \/ SetAdmin(k) \/ Grant(k) \/ Revoke(k) \/ RemoveUser(k) \/ RemoveUserRow(k)
  PROVE  DoorsInv'
  <1>1. Serving
    BY DEF AddUser, SetAdmin, Grant, Revoke, RemoveUser, RemoveUserRow
  <1>2. post' = post /\ UNCHANGED <<req, answers>> /\ UNCHANGED <<jobVars, histVars>>
    BY <1>1 DEF Serving
  <1>3. JobsInv' /\ HistoryInv' /\ Kept
    BY <1>2, SameQueue DEF DoorsInv
  <1>4. RequestsInv'
    BY <1>2, <1>3, IdleKeeps DEF DoorsInv
  <1>5. StoreInv
    BY DEF DoorsInv
  <1>6. ASSUME AddUser(k) \/ SetAdmin(k) \/ Grant(k) \/ Revoke(k) \/ RemoveUser(k)
        PROVE  StoreInv'
    <2>1. edits' \in Nat
      BY <1>5, <1>6 DEF StoreInv, AddUser, SetAdmin, Grant, Revoke, RemoveUser, Edit
    <2> QED BY <1>5, <1>6, <2>1 DEF StoreInv, AddUser, SetAdmin, Grant, Revoke, RemoveUser, Edit
  <1>7. ASSUME RemoveUserRow(k)
        PROVE  StoreInv'
    BY <1>5, <1>7 DEF StoreInv, RemoveUserRow
  <1>8. StoreInv'
    BY <1>6, <1>7
  <1> QED BY <1>2, <1>3, <1>4, <1>8 DEF DoorsInv

\* A step of one request that leaves store, queue and history alone.
LEMMA SameStep ==
  ASSUME DoorsInv, Same, RequestsInv'
  PROVE  DoorsInv'
  <1>1. UNCHANGED storeVars /\ post' = post /\ UNCHANGED <<jobVars, histVars>>
    BY DEF Same
  <1>2. JobsInv' /\ HistoryInv' /\ StoreInv'
    BY <1>1, SameQueue, SameStore DEF DoorsInv
  <1> QED BY <1>1, <1>2 DEF DoorsInv

\* A request comes in, and is authenticated.
LEMMA AuthStep ==
  ASSUME DoorsInv, NEW c \in Clients,
         \/ Send(c) \/ AuthenticateByFile(c) \/ AuthenticateUser(c) \/ AuthenticateDevice(c)
         \/ AuthenticationFails(c) \/ ListDevices(c) \/ Gate(c) \/ AdminOnly(c)
  PROVE  DoorsInv'
  <1>1. /\ req \in [Clients -> RequestStates] /\ req[c] \in RequestStates /\ RequestOK(c, req[c])
        /\ RequestsInv /\ StoreInv /\ JobsInv /\ HistoryInv /\ post \in [Clients -> Seq(Requests)]
    BY DEF DoorsInv, RequestsInv
  <1>2. Same => Kept
    BY SameJobs DEF Same, jobVars
  <1>3. CASE Send(c)
    <2>1. UNCHANGED storeVars /\ UNCHANGED <<jobVars, histVars>> /\ answers' = answers
      BY <1>3 DEF Send
    <2>2. JobsInv' /\ HistoryInv' /\ StoreInv' /\ Kept
      BY <1>1, <2>1, SameQueue, SameStore
    <2>3. post[c] \in Seq(Requests) /\ post[c] # <<>>
      BY <1>1, <1>3 DEF Send
    <2>4. Head(post[c]) \in Requests /\ Tail(post[c]) \in Seq(Requests)
      BY <2>3, HeadTailProperties
    <2>5. post' \in [Clients -> Seq(Requests)]
      BY <1>1, <1>3, <2>4 DEF Send
    <2>6. PICK r \in RequestStates : r = [st |-> "user", door |-> Head(post[c]).door, arg |-> Head(post[c]).arg, admin |-> FALSE]
      BY <2>4 DEF Requests, RequestStates, Stages, Doors, Args
    <2>7. RequestOK(c, r)'
      BY <2>4, <2>6 DEF RequestOK, Requests
    <2>8. RequestsInv'
      BY <1>1, <1>3, <2>1, <2>2, <2>6, <2>7, MoveKeeps DEF Send
    <2> QED BY <2>2, <2>5, <2>8 DEF DoorsInv
  <1>4. ASSUME NEW st \in {"gate", "device"}, NEW b \in BOOLEAN, req[c].st = "user",
               req' = [req EXCEPT ![c].st = st, ![c].admin = b], answers' = answers, Same
        PROVE  RequestsInv'
    <2>1. PICK r \in RequestStates : r = [st |-> st, door |-> req[c].door, arg |-> req[c].arg, admin |-> b]
      BY <1>1 DEF RequestStates, Stages
    <2>2. PICK q \in RequestStates : q = [st |-> st, door |-> req[c].door, arg |-> req[c].arg, admin |-> req[c].admin]
      BY <1>1 DEF RequestStates, Stages
    <2>3. [req[c] EXCEPT !.st = st] = q /\ [q EXCEPT !.admin = b] = r
      BY <1>1, <2>1, <2>2 DEF RequestStates
    <2>4. req' = [req EXCEPT ![c] = r]
      BY <1>1, <1>4, <2>3
    <2>5. RequestOK(c, r)'
      BY <1>1, <1>4, <2>1 DEF RequestOK
    <2> QED BY <1>1, <1>2, <1>4, <2>4, <2>5, MoveKeeps
  <1>5. CASE AuthenticateByFile(c)
    <2>1. Same /\ req[c].st = "user"
      BY <1>5 DEF AuthenticateByFile
    <2>2. CASE Refuse(c)
      BY <1>1, <1>2, <2>1, <2>2, RefuseKeeps, SameStep
    <2>3. CASE req' = [req EXCEPT ![c].st = "gate", ![c].admin = c \in admins] /\ answers' = answers
      <3>1. (c \in admins) \in BOOLEAN
        OBVIOUS
      <3> QED BY <1>4, <2>1, <2>3, <3>1, SameStep
    <2> QED BY <1>5, <2>2, <2>3 DEF AuthenticateByFile
  <1>6. CASE AuthenticateUser(c)
    <2>1. Same /\ req[c].st = "user"
      BY <1>6 DEF AuthenticateUser
    <2>2. CASE Refuse(c)
      BY <1>1, <1>2, <2>1, <2>2, RefuseKeeps, SameStep
    <2>3. CASE /\ req' = [req EXCEPT ![c].st = IF req[c].door \in DeviceDoors THEN "device" ELSE "gate",
                                     ![c].admin = c \in admins]
               /\ answers' = answers
      <3>1. (c \in admins) \in BOOLEAN /\ (IF req[c].door \in DeviceDoors THEN "device" ELSE "gate") \in {"gate", "device"}
        OBVIOUS
      <3> QED BY <1>4, <2>1, <2>3, <3>1, SameStep
    <2> QED BY <1>6, <2>2, <2>3 DEF AuthenticateUser
  <1>7. CASE AuthenticateDevice(c)
    <2>1. Same /\ req[c].st = "device" /\ (Refuse(c) \/ Goto(c, "gate"))
      BY <1>7 DEF AuthenticateDevice
    <2> QED BY <1>1, <1>2, <2>1, RefuseKeeps, GotoKeeps, SameStep DEF Stages
  <1>8. CASE AuthenticationFails(c)
    BY <1>1, <1>2, <1>8, RefuseKeeps, SameStep DEF AuthenticationFails
  <1>9. CASE ListDevices(c)
    <2>1. Same /\ req[c].door = "devices" /\ (Refuse(c) \/ Answer(c, {}))
      BY <1>9 DEF ListDevices
    <2> QED BY <1>1, <1>2, <2>1, RefuseKeeps, AnswerKeeps, SameStep
  <1>10. CASE Gate(c)
    <2>1. Same /\ req[c].st = "gate" /\ (Refuse(c) \/ Goto(c, "door"))
      BY <1>10 DEF Gate
    <2> QED BY <1>1, <1>2, <2>1, RefuseKeeps, GotoKeeps, SameStep DEF Stages
  <1>11. CASE AdminOnly(c)
    <2>1. Same /\ req[c].door = "load" /\ (Refuse(c) \/ Answer(c, {}))
      BY <1>11 DEF AdminOnly
    <2> QED BY <1>1, <1>2, <2>1, RefuseKeeps, AnswerKeeps, SameStep
  <1> QED BY <1>3, <1>5, <1>6, <1>7, <1>8, <1>9, <1>10, <1>11

\* The doors that only read: a job is fetched for its owner or an admin, and what an
\* answer names is the caller's.
LEMMA ReadStep ==
  ASSUME DoorsInv, NEW c \in Clients,
         \/ GetJob(c) \/ TasksGet(c) \/ TasksResult(c) \/ TasksCancel(c) \/ AskRemove(c)
         \/ ReadJobState(c) \/ FetchAgain(c) \/ ListJobs(c) \/ ReadBalance(c) \/ History(c)
  PROVE  DoorsInv'
  <1>1. /\ req[c] \in RequestStates /\ RequestOK(c, req[c])
        /\ RequestsInv /\ StoreInv /\ JobsInv /\ HistoryInv
    BY DEF DoorsInv, RequestsInv
  <1>2. Same => Kept /\ jobs' = jobs
    BY SameJobs DEF Same, jobVars
  <1>3. ASSUME NEW st \in {"state", "removing"}, Fetches(c, st),
               st = "state" => req[c].door \in {"get", "taskget", "result", "cancel"},
               st = "removing" => req[c].door \in {"remove", "cancel"},
               req[c].st # "idle"
        PROVE  DoorsInv'
    <2>1. Same /\ (Refuse(c) \/ (Goto(c, st) /\ Owns(c, req[c].arg)))
      BY <1>3 DEF Fetches, Denied
    <2>2. CASE Refuse(c)
      BY <1>1, <1>2, <2>1, <2>2, RefuseKeeps, SameStep
    <2>3. CASE Goto(c, st) /\ Owns(c, req[c].arg)
      <3>1. st \in Stages \ {"idle"} /\ st # "again" /\ (req[c].admin \/ jobs'[req[c].arg].owner = c)
        BY <1>2, <2>1, <2>3 DEF Stages, Owns
      <3>2. RequestsInv'
        BY <1>1, <1>2, <1>3, <2>1, <2>3, <3>1, GotoKeeps
      <3> QED BY <2>1, <3>2, SameStep
    <2> QED BY <2>1, <2>2, <2>3
  <1>4. CASE GetJob(c) \/ TasksGet(c) \/ TasksResult(c) \/ TasksCancel(c) \/ AskRemove(c)
    BY <1>3, <1>4 DEF GetJob, TasksGet, TasksResult, TasksCancel, AskRemove, At
  <1>5. CASE FetchAgain(c)
    <2>1. req[c].st = "again" /\ req[c].door = "cancel"
      BY <1>1, <1>5 DEF FetchAgain, RequestOK
    <2> QED BY <1>3, <1>5, <2>1 DEF FetchAgain
  <1>6. CASE ReadJobState(c)
    <2> DEFINE j == req[c].arg
    <2>1. /\ Same /\ req[c].st = "state" /\ req[c].door \in {"get", "taskget", "result", "cancel"}
          /\ j \in JobIDs /\ (req[c].admin \/ jobs[j].owner = c)
      BY <1>1, <1>6 DEF ReadJobState, RequestOK, ByJob, ByName
    <2>2. \/ req[c].door = "cancel" /\ Goto(c, "again")
          \/ Refuse(c)
          \/ req[c].door # "cancel" /\ Answer(c, {j})
      BY <1>6 DEF ReadJobState
    <2> HIDE DEF j
    <2>3. CASE req[c].door = "cancel" /\ Goto(c, "again")
      <3>1. req[c].admin \/ jobs'[req[c].arg].owner = c
        BY <1>2, <2>1 DEF j
      <3>2. RequestsInv'
        BY <1>1, <1>2, <2>1, <2>3, <3>1, GotoKeeps DEF Stages
      <3> QED BY <2>1, <3>2, SameStep
    <2>4. CASE Refuse(c)
      BY <1>1, <1>2, <2>1, <2>4, RefuseKeeps, SameStep
    <2>5. CASE req[c].door # "cancel" /\ Answer(c, {j})
      <3>1. {j} \in SUBSET JobIDs /\ (req[c].admin \/ \A i \in {j} : jobs'[i].owner = c)
        BY <1>2, <2>1
      <3>2. ~(req[c].door \in {"remove", "cancel"})
        BY <2>1, <2>5
      <3>3. RequestsInv'
        BY <1>1, <1>2, <2>1, <2>5, <3>1, <3>2, AnswerKeeps
      <3> QED BY <2>1, <3>3, SameStep
    <2> QED BY <2>2, <2>3, <2>4, <2>5
  <1>7. CASE ListJobs(c)
    <2>1. PICK js \in Readable(c) : Same /\ Answer(c, js) /\ req[c].door = "tasks"
      BY <1>7 DEF ListJobs, At
    <2>2. js \in SUBSET JobIDs /\ (req[c].admin \/ \A j \in js : jobs'[j].owner = c)
      BY <1>2, <2>1 DEF Readable, Page, Owns
    <2>3. RequestsInv'
      BY <1>1, <1>2, <2>1, <2>2, AnswerKeeps
    <2> QED BY <2>1, <2>3, SameStep
  <1>8. CASE ReadBalance(c)
    <2>1. Same /\ req[c].door = "balance" /\ (Refuse(c) \/ Answer(c, {}))
      BY <1>8 DEF ReadBalance, At
    <2> QED BY <1>1, <1>2, <2>1, RefuseKeeps, AnswerKeeps, SameStep
  <1>9. CASE History(c)
    <2> DEFINE got == {e.job : e \in Told(hist[req[c].arg], {j \in JobIDs : Owns(c, j)})}
    <2>1. Same /\ Answer(c, got) /\ req[c].door = "history"
      BY <1>9 DEF History, At
    <2>2. got \subseteq {j \in JobIDs : Owns(c, j)}
      BY DEF Told
    <2> HIDE DEF got
    <2>3. got \in SUBSET JobIDs /\ (req[c].admin \/ \A j \in got : jobs'[j].owner = c)
      BY <1>2, <2>1, <2>2 DEF Owns
    <2>4. RequestsInv'
      BY <1>1, <1>2, <2>1, <2>3, AnswerKeeps
    <2> QED BY <2>1, <2>4, SameStep
  <1> QED BY <1>4, <1>5, <1>6, <1>7, <1>8, <1>9

\* A job is queued for its owner, by a door or by a scheduler.
LEMMA QueuedFacts ==
  ASSUME JobsInv, HistoryInv, NEW j \in Fresh, NEW owner \in Keys, NEW name \in JobNames,
         Queued(j, owner, name), UNCHANGED <<scheds, made, histVars>>
  PROVE  /\ JobsInv' /\ HistoryInv' /\ Kept /\ j \in JobIDs /\ jobs'[j].owner = owner
  <1>1. PICK st \in {"waiting", "delayed"} :
          /\ jobs' = [jobs EXCEPT ![j] = [st |-> st, owner |-> owner, name |-> name]]
          /\ events' = IF st = "waiting" THEN Append(events, [job |-> j, st |-> st]) ELSE events
    BY DEF Queued
  <1>2. PICK r \in JobRecords : r = [st |-> st, owner |-> owner, name |-> name]
    BY <1>1 DEF JobRecords, JobStates
  <1>3. j \in JobIDs /\ jobs[j].st = "none" /\ jobs' = [jobs EXCEPT ![j] = r] /\ r.st = st /\ r.owner = owner
        /\ events \in Seq(Records)
    BY <1>1, <1>2 DEF Fresh, HistoryInv
  <1>4. /\ jobs' \in [JobIDs -> JobRecords] /\ \A i \in JobIDs : jobs'[i].st = "none" => jobs'[i].owner = None
        /\ Kept /\ HistoryInv'
    <2>1. CASE st = "waiting"
      <3>1. PICK e \in Records : e = [job |-> j, st |-> "waiting"]
        BY <1>3 DEF Records, JobStates
      <3>2. e.job = j /\ Tells(e.st) = r.st /\ events' = Append(events, e) /\ r.st = "waiting"
        BY <1>1, <1>3, <2>1, <3>1 DEF Tells
      <3>3. \A i \in JobIDs : i # j => Passed(i, events)
        BY DEF Passed
      <3> QED BY <1>3, <3>2, <3>3, JobMoves
    <2>2. CASE st = "delayed"
      BY <1>1, <1>3, <2>2, JobDelayed
    <2> QED BY <1>1, <2>1, <2>2
  <1>5. Scheduled'
    BY DEF Scheduled, JobsInv
  <1>6. JobsInv'
    BY <1>4, <1>5 DEF JobsInv
  <1>7. jobs'[j].owner = owner
    BY <1>3 DEF JobsInv
  <1> QED BY <1>3, <1>4, <1>6, <1>7

\* The doors that change jobs and schedulers.
LEMMA ChangeStep ==
  ASSUME DoorsInv, NEW c \in Clients,
         AddJobDoor(c) \/ CreateTask(c) \/ AddRepeat(c) \/ RemoveRepeat(c) \/ RemoveFetched(c)
  PROVE  DoorsInv'
  <1>1. /\ req[c] \in RequestStates /\ RequestOK(c, req[c])
        /\ RequestsInv /\ StoreInv /\ JobsInv /\ HistoryInv /\ post \in [Clients -> Seq(Requests)]
    BY DEF DoorsInv, RequestsInv
  <1>2. UNCHANGED storeVars /\ post' = post
    BY DEF AddJobDoor, CreateTask, Adds, AddRepeat, RemoveRepeat, RemoveFetched
  <1>3. StoreInv'
    BY <1>1, <1>2, SameStore
  <1>4. SUFFICES RequestsInv' /\ JobsInv' /\ HistoryInv'
    BY <1>1, <1>2, <1>3 DEF DoorsInv
  <1>5. CASE AddJobDoor(c) \/ CreateTask(c)
    <2>1. Adds(c) /\ req[c].door \in {"add", "task"} /\ req[c].st = "door"
      BY <1>5 DEF AddJobDoor, CreateTask, At
    <2>2. req[c].arg \in JobNames /\ ~(req[c].door \in {"remove", "cancel"}) /\ c \in Keys
      BY <1>1, <2>1 DEF RequestOK, ByJob, ByName, Keys
    <2>3. CASE Refuse(c) /\ UNCHANGED <<jobs, events>>
      <3>1. UNCHANGED <<jobVars, histVars>>
        BY <2>1, <2>3 DEF Adds, jobVars
      <3> QED BY <1>1, <2>3, <3>1, SameQueue, RefuseKeeps
    <2>4. CASE \E j \in Fresh : Queued(j, c, req[c].arg) /\ Answer(c, {j})
      <3>1. PICK j \in Fresh : Queued(j, c, req[c].arg) /\ Answer(c, {j})
        BY <2>4
      <3>2. JobsInv' /\ HistoryInv' /\ Kept /\ j \in JobIDs /\ jobs'[j].owner = c
        BY <1>1, <2>1, <2>2, <3>1, QueuedFacts DEF Adds
      <3>3. {j} \in SUBSET JobIDs /\ \A i \in {j} : jobs'[i].owner = c
        BY <3>2
      <3>4. RequestsInv'
        BY <1>1, <2>2, <3>1, <3>2, <3>3, AnswerKeeps
      <3> QED BY <3>2, <3>4
    <2> QED BY <2>1, <2>3, <2>4 DEF Adds
  <1>6. ASSUME AddRepeat(c), ~(Refuse(c) /\ UNCHANGED <<scheds, made>>)
        PROVE  RequestsInv' /\ JobsInv' /\ HistoryInv'
    <2> DEFINE n == req[c].arg
    <2> DEFINE s == [id |-> <<c, n>>, owner |-> c, name |-> n]
    <2>1. /\ Answer(c, {}) /\ UNCHANGED <<jobs, events, histVars>>
          /\ scheds' = {t \in scheds : t.id # <<c, n>>} \cup {s}
          /\ made' = made \cup {<<c, n>>} /\ req[c].door = "repeat" /\ req[c].st = "door"
      BY <1>6 DEF AddRepeat, At, SchedulerId
    <2>2. n \in JobNames /\ c \in Keys
      BY <1>1, <2>1 DEF RequestOK, ByJob, ByName, Keys
    <2>3. s \in [id : Keys \X JobNames, owner : Keys, name : JobNames] /\ <<c, n>> \in Clients \X JobNames
          /\ s.id = <<c, n>> /\ s.owner = c /\ s.name = n /\ <<c, n>>[1] = c /\ <<c, n>>[2] = n
      BY <2>2
    <2> HIDE DEF s, n
    <2>4. ASSUME NEW m \in made'
          PROVE  \E t \in scheds' : t.id = <<m[1], m[2]>> /\ t.owner = m[1] /\ t.name = m[2]
      <3>1. CASE m = <<c, n>>
        BY <2>1, <2>3, <3>1
      <3>2. CASE m # <<c, n>>
        <4>1. m \in made /\ m \in Clients \X JobNames /\ Scheduled
          BY <1>1, <2>1, <3>2 DEF JobsInv
        <4>2. PICK t \in scheds : t.id = <<m[1], m[2]>> /\ t.owner = m[1] /\ t.name = m[2]
          BY <4>1 DEF Scheduled
        <4>3. <<m[1], m[2]>> # <<c, n>>
          BY <3>2, <4>1
        <4> QED BY <2>1, <4>2, <4>3
      <3> QED BY <3>1, <3>2
    <2>5. JobsInv'
      BY <1>1, <2>1, <2>3, <2>4 DEF JobsInv, Scheduled
    <2>6. HistoryInv'
      BY <1>1, <2>1 DEF HistoryInv, Recorded, There, Unseen, histVars
    <2>7. Kept
      BY <2>1, SameJobs
    <2> QED BY <1>1, <2>1, <2>5, <2>6, <2>7, AnswerKeeps
  <1>9. CASE AddRepeat(c) /\ Refuse(c) /\ UNCHANGED <<scheds, made>>
    <2>1. UNCHANGED <<jobs, events, histVars>> /\ req[c].st = "door" /\ req[c].door = "repeat"
      BY <1>9 DEF AddRepeat, At
    <2>2. UNCHANGED <<scheds, made>>
      BY <1>9
    <2>3. JobsInv'
      BY <1>1, <2>1, <2>2 DEF JobsInv, Scheduled
    <2>4. HistoryInv'
      BY <1>1, <2>1 DEF HistoryInv, Recorded, There, Unseen, histVars
    <2>5. Kept
      BY <2>1, SameJobs
    <2> QED BY <1>1, <1>9, <2>3, <2>4, <2>5, RefuseKeeps
  <1>7. CASE RemoveRepeat(c)
    <2> DEFINE n == req[c].arg
    <2> DEFINE own == {s \in scheds : s.id = <<c, n>>}
    <2> DEFINE old == {s \in scheds : s.id = <<None, n>> /\ req[c].admin}
    <2>1. /\ UNCHANGED <<jobs, events, histVars>> /\ (Refuse(c) \/ Answer(c, {}))
          /\ scheds' = scheds \ (IF own # {} THEN own ELSE old)
          /\ made' = made \ {<<c, n>>} /\ req[c].door = "unrepeat"
      BY <1>7 DEF RemoveRepeat, At, SchedulerId
    <2>2. \A s \in scheds : s \notin scheds' => s.id = <<c, n>> \/ s.id = <<None, n>>
      BY <2>1
    <2>3. scheds' \subseteq scheds
      BY <2>1
    <2> HIDE DEF own, old, n
    <2>4. ASSUME NEW m \in made'
          PROVE  \E t \in scheds' : t.id = <<m[1], m[2]>> /\ t.owner = m[1] /\ t.name = m[2]
      <3>1. m \in made /\ m # <<c, n>> /\ m \in Clients \X JobNames /\ Scheduled
        BY <1>1, <2>1 DEF JobsInv
      <3>2. PICK t \in scheds : t.id = <<m[1], m[2]>> /\ t.owner = m[1] /\ t.name = m[2]
        BY <3>1 DEF Scheduled
      <3>3. <<m[1], m[2]>> # <<c, n>> /\ <<m[1], m[2]>> # <<None, n>>
        BY <3>1, DoorsAssumption
      <3> QED BY <2>2, <3>2, <3>3
    <2>5. JobsInv'
      BY <1>1, <2>1, <2>3, <2>4 DEF JobsInv, Scheduled
    <2>6. HistoryInv'
      BY <1>1, <2>1 DEF HistoryInv, Recorded, There, Unseen, histVars
    <2>7. Kept
      BY <2>1, SameJobs
    <2> QED BY <1>1, <2>1, <2>5, <2>6, <2>7, AnswerKeeps, RefuseKeeps
  <1>8. CASE RemoveFetched(c)
    <2> DEFINE j == req[c].arg
    <2>1. /\ j \in JobIDs /\ (req[c].admin \/ jobs[j].owner = c)
      BY <1>1, <1>8 DEF RemoveFetched, RequestOK, ByJob, ByName
    <2>2. /\ UNCHANGED <<scheds, made, events, mishaps, histVars>>
          /\ \/ jobs[j].st # "active" /\ Answer(c, {j}) /\ jobs' = [jobs EXCEPT ![j].st = "removed"]
             \/ Refuse(c) /\ jobs' = jobs
      BY <1>8 DEF RemoveFetched, Removes
    <2>3. CASE Refuse(c) /\ jobs' = jobs
      <3>1. UNCHANGED <<jobVars, histVars>>
        BY <2>2, <2>3 DEF jobVars
      <3> QED BY <1>1, <2>3, <3>1, SameQueue, RefuseKeeps
    <2>4. CASE Answer(c, {j}) /\ jobs' = [jobs EXCEPT ![j].st = "removed"]
      <3>1. JobsInv' /\ HistoryInv' /\ Kept /\ jobs'[j].st = "removed" /\ jobs'[j].owner = jobs[j].owner
        BY <1>1, <2>1, <2>2, <2>4, JobRemoved
      <3>2. {j} \in SUBSET JobIDs /\ (req[c].admin \/ \A i \in {j} : jobs'[i].owner = c)
        BY <2>1, <3>1
      <3>3. RequestsInv'
        BY <1>1, <2>1, <2>4, <3>1, <3>2, AnswerKeeps
      <3> QED BY <3>1, <3>3
    <2> QED BY <2>2, <2>3, <2>4
  <1> QED BY <1>5, <1>6, <1>7, <1>8, <1>9

\* The queue's own steps.
LEMMA QueueStep ==
  ASSUME DoorsInv,
         \/ EventHandled
         \/ \E j \in JobIDs : JobDue(j) \/ JobStarts(j) \/ JobEnds(j) \/ JobRetries(j) \/ JobStalls(j)
         \/ \E s \in scheds : SchedulerFires(s)
  PROVE  DoorsInv'
  <1>1. RequestsInv /\ StoreInv /\ JobsInv /\ HistoryInv /\ post \in [Clients -> Seq(Requests)]
    BY DEF DoorsInv
  <1>2. UNCHANGED storeVars /\ post' = post /\ UNCHANGED <<req, answers>> /\ UNCHANGED <<scheds, made>>
    BY DEF EventHandled, JobDue, JobStarts, JobEnds, JobRetries, JobStalls, SchedulerFires, Moves
  <1>3. StoreInv' /\ (Kept => RequestsInv')
    BY <1>1, <1>2, SameStore, IdleKeeps
  <1>4. SUFFICES Kept /\ JobsInv' /\ HistoryInv'
    BY <1>1, <1>2, <1>3 DEF DoorsInv
  <1>5. CASE EventHandled
    <2>1. UNCHANGED jobs
      BY <1>5 DEF EventHandled
    <2>2. JobsInv'
      BY <1>1, <1>2, <2>1 DEF JobsInv, Scheduled
    <2> QED BY <1>1, <1>5, <2>1, <2>2, SameJobs, EventHandledStep
  <1>6. ASSUME NEW j \in JobIDs, NEW st \in {"waiting", "active", "completed", "failed"}, NEW e \in Records,
               NEW queue \in Seq(Records), e.job = j, Tells(e.st) = st,
               \A i \in JobIDs : i # j => Passed(i, queue),
               jobs[j].st \in {"delayed", "waiting", "active"}, jobs' = [jobs EXCEPT ![j].st = st],
               events' = Append(queue, e), UNCHANGED histVars
        PROVE  Kept /\ JobsInv' /\ HistoryInv'
    <2>1. jobs[j] \in JobRecords
      BY <1>1 DEF JobsInv
    <2>2. PICK r \in JobRecords : r = [st |-> st, owner |-> jobs[j].owner, name |-> jobs[j].name]
      BY <2>1 DEF JobRecords, JobStates
    <2>3. [jobs[j] EXCEPT !.st = st] = r
      BY <2>1, <2>2 DEF JobRecords
    <2>4. /\ jobs' = [jobs EXCEPT ![j] = r] /\ Tells(e.st) = r.st
          /\ r.st \notin {"none", "delayed", "removed"} /\ r.owner = jobs[j].owner /\ jobs[j].st # "removed"
      BY <1>6, <2>2, <2>3
    <2>5. /\ jobs' \in [JobIDs -> JobRecords] /\ \A i \in JobIDs : jobs'[i].st = "none" => jobs'[i].owner = None
          /\ Kept /\ HistoryInv'
      BY <1>1, <1>6, <2>4, JobMoves
    <2>6. Scheduled'
      BY <1>1, <1>2 DEF JobsInv, Scheduled
    <2> QED BY <1>1, <1>2, <2>5, <2>6 DEF JobsInv
  <1>8. ASSUME NEW j \in JobIDs, JobDue(j) \/ JobStarts(j) \/ JobEnds(j) \/ JobRetries(j)
        PROVE  Kept /\ JobsInv' /\ HistoryInv'
    <2>1. PICK st \in {"waiting", "active", "completed", "failed"} :
            jobs[j].st \in {"delayed", "waiting", "active"} /\ Moves(j, st)
      BY <1>8 DEF JobDue, JobStarts, JobEnds, JobRetries
    <2>2. PICK e \in Records : e = [job |-> j, st |-> st]
      BY <2>1 DEF Records, JobStates
    <2>3. e.job = j /\ Tells(e.st) = st /\ events \in Seq(Records)
      BY <1>1, <2>1, <2>2 DEF Tells, HistoryInv
    <2>4. jobs' = [jobs EXCEPT ![j].st = st] /\ events' = Append(events, e) /\ UNCHANGED histVars
      BY <2>1, <2>2 DEF Moves
    <2>5. \A i \in JobIDs : i # j => Passed(i, events)
      BY DEF Passed
    <2> QED BY <1>6, <2>1, <2>3, <2>4, <2>5
  <1>9. ASSUME NEW j \in JobIDs, JobStalls(j)
        PROVE  Kept /\ JobsInv' /\ HistoryInv'
    <2>1. PICK e \in Records, f \in Records : e = [job |-> j, st |-> "stalled"] /\ f = [job |-> j, st |-> "waiting"]
      BY DEF Records, JobStates
    <2>2. e.job = j /\ Tells(e.st) = "waiting" /\ f.job = j /\ events \in Seq(Records)
      BY <1>1, <2>1 DEF Tells, HistoryInv
    <2>3. PICK queue \in Seq(Records) : queue = Append(events, f)
      BY <2>2, AppendIndex
    <2>4. \A i \in JobIDs : i # j => Passed(i, queue)
      BY <2>2, <2>3, AppendTells DEF Passed
    <2>5. /\ jobs[j].st = "active" /\ jobs' = [jobs EXCEPT ![j].st = "waiting"] /\ events' = Append(queue, e)
          /\ UNCHANGED histVars
      BY <1>9, <2>1, <2>3 DEF JobStalls
    <2> QED BY <1>6, <2>2, <2>4, <2>5
  <1>7. CASE \E s \in scheds : SchedulerFires(s)
    <2>1. PICK s \in scheds, j \in Fresh : Queued(j, s.owner, s.name) /\ UNCHANGED <<scheds, made, histVars>>
      BY <1>7 DEF SchedulerFires
    <2>2. s.owner \in Keys /\ s.name \in JobNames
      BY <1>1 DEF JobsInv
    <2> QED BY <1>1, <2>1, <2>2, QueuedFacts
  <1> QED BY <1>5, <1>7, <1>8, <1>9

\* Every step keeps the invariant of the doors.
LEMMA DoorsStep ==
  ASSUME DoorsInv, [DoorsNext]_doorsVars
  PROVE  DoorsInv'
  <1>1. CASE UNCHANGED doorsVars
    <2>1. UNCHANGED storeVars /\ post' = post /\ UNCHANGED <<req, answers>> /\ UNCHANGED <<jobVars, histVars>>
      BY <1>1 DEF doorsVars
    <2> QED BY <2>1, SameQueue, SameStore, IdleKeeps DEF DoorsInv
  <1>2. CASE DoorsNext
    <2> QED BY <1>2, EditStep, AuthStep, ReadStep, ChangeStep, QueueStep DEF DoorsNext
  <1> QED BY <1>1, <1>2

\* The invariant of the doors holds at the start, when no request has come.
LEMMA DoorsStart ==
  ASSUME DoorsInit
  PROVE  DoorsInv
  <1>1. PICK s \in Scenarios :
          /\ auth = s.auth /\ post = s.post /\ edits = s.edits /\ scheds = s.old
          /\ users = IF s.auth = "file" THEN FileUsers(s) ELSE s.users
          /\ admins = (s.admins \cap users) \cup EnvKey(s)
          /\ grants = IF s.auth = "file" THEN (s.grants \cap users) \cup EnvKey(s) ELSE s.grants
          /\ stray = grants \ users /\ cli = {}
    BY DEF DoorsInit
  <1>2. /\ s.auth \in {"file", "sqlite"} /\ s.users \subseteq Clients /\ s.edits \in Nat
        /\ s.old \subseteq [id : {None} \X JobNames, owner : Clients \cup {None}, name : JobNames]
        /\ s.post \in [Clients -> Seq(Requests)]
    BY DoorsAssumption
  <1>3. EnvKey(s) \subseteq Clients /\ EnvKey(s) \subseteq users /\ users \subseteq Clients
    BY <1>1, <1>2 DEF EnvKey, FileUsers
  <1>4. StoreInv
    BY <1>1, <1>2, <1>3 DEF StoreInv, DoorsInit
  <1>5. RequestsInv
    <2>1. Idle \in RequestStates /\ \A c \in Clients : RequestOK(c, Idle)
      BY DEF RequestStates, RequestOK, Idle, Stages, Doors, Args
    <2> QED BY <2>1 DEF DoorsInit, RequestsInv
  <1>6. JobsInv
    <2>1. NoJob \in JobRecords /\ NoJob.owner = None
      BY DEF NoJob, JobRecords, JobStates, Keys, JobNames
    <2>2. scheds \subseteq [id : Keys \X JobNames, owner : Keys, name : JobNames]
      BY <1>1, <1>2 DEF Keys
    <2> QED BY <2>1, <2>2 DEF DoorsInit, JobsInv, Scheduled
  <1>7. HistoryInv
    <2>1. \A j \in JobIDs : ~There(j) /\ Unseen(j)
      BY DEF DoorsInit, NoJob, There, Unseen, Silent
    <2>2. events \in Seq(Records) /\ hist \in [JobNames -> Seq(Records)]
      BY DEF DoorsInit
    <2> QED BY <2>1, <2>2 DEF HistoryInv, Recorded
  <1> QED BY <1>1, <1>2, <1>4, <1>5, <1>6, <1>7 DEF DoorsInv

\* The invariant of the doors: who passed, what it may see, and what it was told.
THEOREM DoorsInvariance == DoorsSpec => []DoorsInv
  <1> QED BY DoorsStart, DoorsStep, PTL DEF DoorsSpec

\* Tenants never meet, whatever number of keys, jobs, names, requests and commands.
THEOREM TenantsStayApart == DoorsSpec => []TenantsApart
  <1>1. DoorsInv => TenantsApart
    <2> SUFFICES ASSUME DoorsInv PROVE TenantsApart
      OBVIOUS
    <2>1. OnlyOwn
      BY DEF DoorsInv, RequestsInv, AnswerOK, OnlyOwn
    <2>2. SchedulersApart
      BY DEF DoorsInv, JobsInv, Scheduled, SchedulersApart
    <2> QED BY <2>1, <2>2 DEF TenantsApart
  <1> QED BY <1>1, DoorsInvariance, PTL

\* A request goes from the device query to the rate limit only by the device query.
LEMMA DevicePassed ==
  ASSUME DoorsInv, [DoorsNext]_doorsVars, NEW c \in Clients, req[c].st = "device", req'[c].st = "gate"
  PROVE  c \in grants /\ c \in users \cup stray
  <1>1. req \in [Clients -> RequestStates]
    BY DEF DoorsInv, RequestsInv
  <1>2. CASE AuthenticateDevice(c)
    <2>1. ~Refuse(c)
      BY <1>1 DEF Refuse, Idle
    <2> QED BY <1>2, <2>1 DEF AuthenticateDevice, DoorsInv, StoreInv
  <1>3. req' # req
    OBVIOUS
  <1>4. ASSUME NEW d \in Clients, NEW r, req' = [req EXCEPT ![d] = r], req[d].st # "device" \/ r = Idle
        PROVE  FALSE
    <2>1. CASE d = c
      BY <1>1, <1>4, <2>1 DEF Idle
    <2>2. CASE d # c
      BY <1>1, <1>4, <2>2
    <2> QED BY <2>1, <2>2
  <1>5. \A d \in Clients : ~Refuse(d) /\ \A got : ~Answer(d, got)
    BY <1>4 DEF Refuse, Answer
  <1>6. ASSUME NEW d \in Clients, NEW st, Goto(d, st), req[d].st # "device"
        PROVE  FALSE
    BY <1>4, <1>6 DEF Goto
  <1>7. ASSUME NEW d \in Clients, Send(d) \/ AuthenticateByFile(d) \/ AuthenticateUser(d)
        PROVE  FALSE
    <2>1. CASE Send(d)
      BY <1>4, <2>1 DEF Send
    <2>2. ASSUME NEW st, NEW b, req[d].st = "user", req' = [req EXCEPT ![d].st = st, ![d].admin = b]
          PROVE  FALSE
      BY <1>4, <2>2
    <2>3. CASE AuthenticateByFile(d)
      BY <1>5, <2>2, <2>3 DEF AuthenticateByFile
    <2>4. CASE AuthenticateUser(d)
      BY <1>5, <2>2, <2>4 DEF AuthenticateUser
    <2> QED BY <1>7, <2>1, <2>3, <2>4
  <1>8. ASSUME NEW d \in Clients, d # c, AuthenticateDevice(d)
        PROVE  FALSE
    <2>1. Goto(d, "gate")
      BY <1>5, <1>8 DEF AuthenticateDevice
    <2> QED BY <1>1, <1>8, <2>1 DEF Goto
  <1>9. ASSUME NEW d \in Clients,
               \/ AuthenticationFails(d) \/ ListDevices(d) \/ Gate(d) \/ AdminOnly(d)
               \/ AddJobDoor(d) \/ CreateTask(d) \/ AddRepeat(d) \/ RemoveRepeat(d)
        PROVE  FALSE
    BY <1>5, <1>6, <1>9 DEF AuthenticationFails, ListDevices, Gate, AdminOnly, AddJobDoor, CreateTask, Adds,
                            AddRepeat, RemoveRepeat
  <1>10. ASSUME NEW d \in Clients,
               \/ GetJob(d) \/ TasksGet(d) \/ TasksResult(d) \/ TasksCancel(d) \/ AskRemove(d)
               \/ ReadJobState(d) \/ FetchAgain(d) \/ RemoveFetched(d)
               \/ ListJobs(d) \/ ReadBalance(d) \/ History(d)
        PROVE  FALSE
    <2>1. ASSUME NEW st, Fetches(d, st), req[d].st # "device"
          PROVE  FALSE
      BY <1>5, <1>6, <2>1 DEF Fetches, Denied
    <2> QED BY <1>5, <1>6, <1>10, <2>1 DEF GetJob, TasksGet, TasksResult, TasksCancel, AskRemove, ReadJobState,
                            FetchAgain, RemoveFetched, ListJobs, ReadBalance, History, At
  <1>11. ASSUME \/ \E d \in Clients : AddUser(d) \/ SetAdmin(d) \/ Grant(d) \/ Revoke(d) \/ RemoveUser(d) \/ RemoveUserRow(d)
                \/ EventHandled
                \/ \E j \in JobIDs : JobDue(j) \/ JobStarts(j) \/ JobEnds(j) \/ JobRetries(j) \/ JobStalls(j)
                \/ \E s \in scheds : SchedulerFires(s)
                \/ UNCHANGED doorsVars
         PROVE  FALSE
    BY <1>3, <1>11 DEF AddUser, SetAdmin, Grant, Revoke, RemoveUser, RemoveUserRow, Serving, EventHandled,
                      JobDue, JobStarts, JobEnds, JobRetries, JobStalls, SchedulerFires, Moves, doorsVars
  <1> QED BY <1>2, <1>7, <1>8, <1>9, <1>10, <1>11 DEF DoorsNext

\* Two queries decide as one, however the operator's commands fall between them,
\* but for a key the operator granted the device without a row.
THEOREM PassedKeysAreKnown == DoorsSpec => PassedIsKnown
  <1>1. DoorsInv /\ [DoorsNext]_doorsVars =>
          [\A c \in Clients : req[c].st = "device" /\ req'[c].st = "gate" => c \in grants /\ c \in users \cup stray]_doorsVars
    BY DevicePassed
  <1> QED BY <1>1, DoorsInvariance, PTL DEF DoorsSpec, PassedIsKnown

\* The newest records of the jobs of mine in a list, and those of them within the cap.
Newest(list, mine) ==
  {i \in DOMAIN list : list[i].job \in mine /\ \A k \in 1 .. (i - 1) : list[k].job # list[i].job}
Capped(list, mine) ==
  {i \in Newest(list, mine) : Cardinality({k \in Newest(list, mine) : k < i}) < HistCap}

\* getJobHistory names no job twice, and under the cap leaves none out.
LEMMA ToldFacts ==
  ASSUME NEW list \in Seq(Records), NEW mine
  PROVE  /\ Told(list, mine) = {list[i] : i \in Capped(list, mine)}
         /\ Cardinality({e.job : e \in Told(list, mine)}) = Cardinality(Told(list, mine))
         /\ Cardinality(Told(list, mine)) < HistCap => Capped(list, mine) = Newest(list, mine)
  <1> DEFINE own == Newest(list, mine)
  <1> DEFINE sel == Capped(list, mine)
  <1> DEFINE told == Told(list, mine)
  <1>1. Len(list) \in Nat /\ DOMAIN list = 1 .. Len(list) /\ HistCap \in Nat
    BY LenProperties, DoorsAssumption
  <1>2. told = {list[i] : i \in sel}
    BY DEF Told, Newest, Capped
  <1>3. sel \subseteq own /\ own \subseteq 1 .. Len(list)
    BY <1>1 DEF Newest, Capped
  <1>4. \A i, k \in own : list[i].job = list[k].job => i = k
    <2> SUFFICES ASSUME NEW i \in own, NEW k \in own, list[i].job = list[k].job, i < k
                 PROVE  FALSE
      BY <1>1, <1>3
    <2>1. i \in 1 .. (k - 1)
      BY <1>1, <1>3
    <2> QED BY <2>1 DEF Newest
  <1>5. \A i \in own : i \in Nat
    BY <1>1, <1>3
  <1>6. sel = {i \in own : Cardinality({k \in own : k < i}) < HistCap}
    BY DEF Capped
  <1> HIDE DEF own, sel, told
  <1>7. IsFiniteSet(own) /\ IsFiniteSet(sel)
    <2>1. IsFiniteSet(1 .. Len(list))
      BY <1>1, FS_Interval
    <2> QED BY <1>3, <2>1, FS_Subset
  <1>8. IsFiniteSet(told) /\ Cardinality(told) = Cardinality(sel) /\ Cardinality(sel) \in Nat
    <2> DEFINE f == [i \in sel |-> list[i]]
    <2>1. f \in Bijection(sel, told)
      <3>1. f \in [sel -> told] /\ \A e \in told : \E i \in sel : f[i] = e
        BY <1>2
      <3>2. \A i, k \in sel : f[i] = f[k] => i = k
        BY <1>3, <1>4
      <3> QED BY <3>1, <3>2 DEF Bijection, Injection, Surjection, IsInjective
    <2>2. ExistsBijection(sel, told)
      BY <2>1 DEF ExistsBijection
    <2> QED BY <1>7, <2>2, FS_Bijection, FS_CardinalityType
  <1>9. Cardinality({e.job : e \in told}) = Cardinality(told)
    <2> DEFINE names == {e.job : e \in told}
    <2> DEFINE f == [e \in told |-> e.job]
    <2>1. f \in Bijection(told, names)
      <3>1. f \in [told -> names] /\ \A n \in names : \E e \in told : f[e] = n
        OBVIOUS
      <3>2. \A e, g \in told : e.job = g.job => e = g
        BY <1>2, <1>3, <1>4
      <3>3. \A e, g \in told : f[e] = f[g] => e = g
        BY <3>2
      <3> QED BY <3>1, <3>3 DEF Bijection, Injection, Surjection, IsInjective
    <2>2. ExistsBijection(told, names)
      BY <2>1 DEF ExistsBijection
    <2> QED BY <1>8, <2>2, FS_Bijection
  <1>10. ASSUME Cardinality(told) < HistCap, own # sel
         PROVE  FALSE
    <2>1. own \ sel # {} /\ own \ sel \subseteq Nat
      BY <1>3, <1>5, <1>10
    <2>2. PICK m \in own \ sel : \A k \in own \ sel : m <= k
      BY <2>1, LeastNat
    <2> DEFINE before == {k \in own : k < m}
    <2>3. before \subseteq sel
      <3> SUFFICES ASSUME NEW k \in own, k < m, k \notin sel
                   PROVE  FALSE
        OBVIOUS
      <3>1. m <= k
        BY <2>2
      <3> QED BY <1>5, <2>2, <3>1
    <2>4. Cardinality(before) <= Cardinality(sel) /\ Cardinality(before) \in Nat
      BY <1>7, <2>3, FS_Subset, FS_CardinalityType
    <2>5. ~(Cardinality(before) < HistCap)
      BY <1>6, <2>2
    <2> HIDE DEF before
    <2> QED BY <1>1, <1>8, <1>10, <2>4, <2>5
  <1> QED BY <1>2, <1>9, <1>10 DEF own, sel, told

\* What a key is told of its jobs is so, for every length of the lists and every cap.
THEOREM ReportsStayTrue == DoorsSpec => []ReportsTrue
  <1>1. ASSUME DoorsInv, events = <<>>, NEW c \in Clients, NEW n \in JobNames
        PROVE  LET mine == {j \in JobIDs : jobs[j].owner = c /\ jobs[j].name = n}
                   told == Told(hist[n], mine)
               IN  /\ \A e \in told : There(e.job) => e.job \in lost \/ jobs[e.job].st = Tells(e.st)
                   /\ Cardinality({e.job : e \in told}) = Cardinality(told)
                   /\ Len(hist[n]) < HistMax /\ Cardinality(told) < HistCap =>
                        \A j \in mine : There(j) /\ jobs[j].st # "delayed" /\ j \notin lost => \E e \in told : e.job = j
    <2> DEFINE mine == {j \in JobIDs : jobs[j].owner = c /\ jobs[j].name = n}
    <2> DEFINE list == hist[n]
    <2> DEFINE told == Told(list, mine)
    <2>1. list \in Seq(Records)
      BY <1>1 DEF DoorsInv, HistoryInv
    <2>2. \A j \in mine : j \in JobIDs /\ jobs[j].name = n
      OBVIOUS
    <2>3. \A j \in mine : /\ There(j) /\ jobs[j].st # "delayed" /\ j \notin lost => Shown(j, list, jobs[j].st)
                          /\ jobs[j].st = "delayed" => Silent(j, list)
      <3>1. \A j \in JobIDs : ~LastTells(j, events, jobs[j].st)
        BY <1>1 DEF LastTells
      <3> QED BY <1>1, <3>1 DEF DoorsInv, HistoryInv, Recorded, Unseen
    <2>4. /\ told = {list[i] : i \in Capped(list, mine)}
          /\ Cardinality({e.job : e \in told}) = Cardinality(told)
          /\ Cardinality(told) < HistCap => Capped(list, mine) = Newest(list, mine)
      BY <2>1, ToldFacts
    <2>5. Len(list) \in Nat /\ DOMAIN list = 1 .. Len(list)
      BY <2>1, LenProperties
    <2> HIDE DEF mine, told, list
    <2>6. ASSUME NEW e \in told, There(e.job), e.job \notin lost
          PROVE  jobs[e.job].st = Tells(e.st)
      <3>1. PICK i \in Newest(list, mine) : e = list[i]
        BY <2>4, <2>6 DEF Capped
      <3>2. i \in DOMAIN list /\ list[i].job \in mine /\ \A k \in 1 .. (i - 1) : list[k].job # e.job
        BY <3>1 DEF Newest
      <3>3. jobs[e.job].st # "delayed"
        BY <2>3, <3>1, <3>2 DEF Silent
      <3> QED BY <2>3, <2>6, <3>1, <3>2, <3>3 DEF Shown
    <2>7. ASSUME Len(list) < HistMax, Cardinality(told) < HistCap, NEW j \in mine, There(j), jobs[j].st # "delayed", j \notin lost
          PROVE  \E e \in told : e.job = j
      <3> DEFINE at == {i \in DOMAIN list : list[i].job = j}
      <3>1. at # {} /\ at \subseteq Nat
        BY <2>3, <2>5, <2>7 DEF Shown
      <3>2. PICK i \in at : \A k \in at : i <= k
        BY <3>1, LeastNat
      <3>3. \A k \in 1 .. (i - 1) : list[k].job # j
        BY <2>5, <3>2
      <3>4. i \in Newest(list, mine)
        BY <2>7, <3>2, <3>3 DEF Newest
      <3> QED BY <2>4, <2>7, <3>2, <3>4
    <2> QED BY <2>4, <2>6, <2>7 DEF mine, told, list
  <1>2. DoorsInv => ReportsTrue
    <2> SUFFICES ASSUME DoorsInv PROVE ReportsTrue
      OBVIOUS
    <2>1. RemovedIsGone
      BY DEF DoorsInv, RequestsInv, AnswerOK, RemovedIsGone
    <2>2. HistoryTells
      BY <1>1 DEF HistoryTells
    <2> QED BY <2>1, <2>2 DEF ReportsTrue
  <1> QED BY <1>2, DoorsInvariance, PTL
=============================================================================
