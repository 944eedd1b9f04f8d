---------------------------- MODULE ModuleProofs ----------------------------
(***************************************************************************)
(* Proofs about the modules: ModuleWorkers.tla, for every number of worker *)
(* threads and operator requests and every SUSPEND_AFTER (one thread of a  *)
(* module runs at a time and is the one the manager knows, a module        *)
(* reported restarting has a restart ahead of it, a module taken away      *)
(* stays away, and no request is answered twice), and Discovery.tla, for   *)
(* every set of modules and devices, every startup list and any number of  *)
(* workers that end.                                                       *)
(*                                                                         *)
(* IInv is the inductive invariant of ModuleWorkers, in parts: the threads *)
(* (Threads), the registered worker (Registered), the lock (Locked), the   *)
(* spawns under way and the requests they are for (Spawns, Requests), the  *)
(* unloads under way (Unloading), the supervisor's record and what quiet   *)
(* means (Supervised).                                                     *)
(*                                                                         *)
(* DiscoveryInv is the one of Discovery: the types, the verdicts on their  *)
(* way to each worker (WorkerOK) and the device manager's two tables       *)
(* (TablesAgree).                                                          *)
(***************************************************************************)
EXTENDS ModuleWorkers, Discovery, QueueLemmas

\* The threads: the last one started may run, all before it have settled.
Threads ==
  /\ \A w \in Workers : (thread[w] = "none" <=> w > used) /\ (w < used => w \in settled)
  /\ \A w \in settled : thread[w] = "exited"
  /\ \A w \in Workers : thread[w] = "exited" => w \in called
  /\ \A w \in called : w <= used
  /\ ended \subseteq called /\ unloading \subseteq called

\* The registered worker is the last one, its spawn has called back, and its
\* exit will be acted upon: by the supervisor or by an unload.
Registered ==
  /\ modules # 0 =>
       /\ modules = used /\ thread[used] # "exited" /\ used \in called
       /\ used \in ended => used \in unloading
       /\ used \in unloading => Unloads(used) # {}
  /\ NoOrphan

\* A supervised spawn that still counts.
Wanted(j) == j.kind = "supervised" /\ ~j.stale

\* The lock: what its holder is and has seen.
Locked ==
  /\ lock # "idle" => chain # <<>>
  /\ lock = "wait_exit" => chain[1].kind = "load" /\ used # 0
  /\ lock = "walk" => chain[1].kind \in {"load", "supervised"}
  /\ lock = "delete" => chain[1].kind = "uninstall"
  /\ lock \in {"walk", "delete"} => used = 0 \/ used \in settled
  /\ lock \in {"wait_settled", "delete"} /\ chain[1].kind = "uninstall" => ~Busy

\* A job under way is for a request that waits for it, or for the supervisor.
JobFor(j, st, kd) ==
  /\ j.kind \in {"load", "supervised", "uninstall"}
  /\ j.kind = "supervised" => j.op = 0
  /\ j.kind # "supervised" => j.op \in Ops /\ st[j.op] = "spawning"
  /\ j.kind = "load" => kd[j.op] \in {"load", "restart"}
JobOk(j) == JobFor(j, stage, kind)

\* The worker whose spawn has not called back, if there is one.
Spawning == used # 0 /\ used \notin called

\* No two jobs are for one request.
Spawns ==
  /\ \A i \in DOMAIN chain : JobOk(chain[i])
  /\ \A i, j \in DOMAIN chain : i # j /\ chain[i].op # 0 => chain[i].op # chain[j].op
  /\ Spawning => /\ JobOk(job[used]) /\ job[used].kind # "uninstall"
                 /\ \A i \in DOMAIN chain : chain[i].op # 0 => chain[i].op # job[used].op

\* How far a request is, and its answers.
Requests ==
  /\ \A o \in Ops : stage[o] = "none" <=> o > asked
  /\ \A o \in Ops : Len(replies[o]) = IF stage[o] = "done" THEN 1 ELSE 0

\* An unload under way is of the last worker, and the supervisor keeps out.
Unloading ==
  \A o \in Ops : stage[o] \in {"unloading", "ending"} =>
    /\ target[o] = used /\ used # 0 /\ used \in called \cap unloading /\ used \notin settled
    /\ stage[o] = "unloading" => thread[used] # "exited"
    /\ kind[o] \in {"load", "restart", "unload"}
    /\ sup.state = "none"
    /\ \A i \in DOMAIN chain : ~Wanted(chain[i])

\* A module that is restarting has a restart ahead of it.
Ahead ==
  sup.state = "restarting" =>
    \/ sup.timer
    \/ \E i \in DOMAIN chain : Wanted(chain[i])
    \/ Spawning /\ Wanted(job[used])

\* The stages of a request that has its answer to come.
Open == {"unloading", "ending", "spawning"}

\* The supervisor's record, and what quiet promises.
Supervised ==
  /\ sup.state = "none" => ~sup.timer
  /\ Ahead
  /\ quiet => /\ modules = 0 /\ sup.state = "none"
              /\ \A o \in Ops : stage[o] \in Open => kind[o] \notin {"load", "restart"}
              /\ \A i \in DOMAIN chain : ~Wanted(chain[i])
              /\ Spawning => ~Wanted(job[used])

IInv ==
  TypeOK /\ Threads /\ Registered /\ Locked /\ Spawns /\ Requests /\ Unloading /\ Supervised

\* No request is answered a second time.
NoSecondAnswer == \A o \in Ops : Len(replies[o]) <= 1

(***************************************************************************)
(* Jobs, records and the queue of the lock.                                *)
(***************************************************************************)

\* What the type invariant says of single values.
LEMMA TypeFacts ==
  ASSUME IInv
  PROVE  /\ MaxWorkers \in Nat /\ MaxOps \in Nat /\ SuspendAfter \in Nat \ {0}
         /\ sup \in Records /\ modules \in 0 .. MaxWorkers
         /\ chain \in Seq(Jobs) /\ used \in 0 .. MaxWorkers /\ job \in [Workers -> Jobs]
         /\ \A i \in DOMAIN chain : chain[i] \in Jobs
         /\ used # 0 => used \in Workers /\ job[used] \in Jobs
         /\ \A w \in Workers : w \in Nat \ {0}
         /\ asked \in Nat /\ Ops = 1 .. MaxOps
  <1>1. RegistryType /\ LockType /\ OpType
    BY DEF IInv, TypeOK
  <1>2. \A i \in DOMAIN chain : chain[i] \in Jobs
    BY <1>1, ElemsFacts, ElementOfSeq DEF LockType
  <1>3. used # 0 => used \in Workers
    BY <1>1, WorkersAssumption DEF LockType, Workers
  <1> QED BY <1>1, <1>2, <1>3, WorkersAssumption
          DEF RegistryType, LockType, OpType, Workers, Ops

\* Jobs made, and jobs made stale.
LEMMA JobFacts ==
  /\ \A k \in {"load", "supervised", "uninstall"}, o \in 0 .. MaxOps :
       /\ Job(k, o) \in Jobs /\ Job(k, o).kind = k /\ Job(k, o).op = o /\ ~Job(k, o).stale
  /\ \A j \in Jobs : /\ Stale(j) \in Jobs /\ Stale(j).kind = j.kind /\ Stale(j).op = j.op
                     /\ ~Wanted(Stale(j)) /\ (j.stale => Stale(j).stale)
  <1>1. \A k \in {"load", "supervised", "uninstall"}, o \in 0 .. MaxOps :
          Job(k, o) \in Jobs /\ Job(k, o).kind = k /\ Job(k, o).op = o /\ ~Job(k, o).stale
    BY DEF Job, Jobs
  <1>2. ASSUME NEW j \in Jobs
        PROVE  /\ Stale(j) \in Jobs /\ Stale(j).kind = j.kind /\ Stale(j).op = j.op
               /\ j.kind = "supervised" => Stale(j).stale
               /\ j.stale => Stale(j).stale
    <2>1. Stale(j) = [j EXCEPT !.stale = j.stale \/ j.kind = "supervised"]
      BY DEF Stale
    <2>2. CASE j.stale \/ j.kind = "supervised"
      <3>1. Stale(j) = [j EXCEPT !.stale = TRUE]
        BY <2>1, <2>2 DEF Jobs
      <3> QED BY <3>1 DEF Jobs
    <2>3. CASE ~ (j.stale \/ j.kind = "supervised")
      <3>1. Stale(j) = [j EXCEPT !.stale = FALSE]
        BY <2>1, <2>3 DEF Jobs
      <3> QED BY <3>1, <2>3 DEF Jobs
    <2> QED BY <2>2, <2>3
  <1>3. \A j \in Jobs : ~Wanted(Stale(j))
    BY <1>2 DEF Wanted
  <1> QED BY <1>1, <1>2, <1>3

\* Queue q holds the jobs of the chain, some perhaps out of date.
Follows(q) ==
  /\ q \in Seq(Jobs) /\ DOMAIN q = DOMAIN chain /\ (q = <<>> <=> chain = <<>>)
  /\ \A i \in DOMAIN chain : /\ q[i].kind = chain[i].kind /\ q[i].op = chain[i].op
                             /\ Wanted(q[i]) => Wanted(chain[i])

\* clear() leaves the queue in order, and none of its supervised spawns counts.
LEMMA StaleChainFacts ==
  ASSUME chain \in Seq(Jobs)
  PROVE  Follows(StaleChain) /\ \A i \in DOMAIN chain : ~Wanted(StaleChain[i])
  <1>1. Len(chain) \in Nat /\ DOMAIN chain = 1 .. Len(chain)
        /\ \A i \in 1 .. Len(chain) : chain[i] \in Jobs
    BY ElemsFacts, ElementOfSeq
  <1>2. \A i \in 1 .. Len(chain) : StaleChain[i] = Stale(chain[i])
    BY <1>1 DEF StaleChain
  <1>3. StaleChain \in [1 .. Len(chain) -> Jobs]
    BY <1>1, JobFacts DEF StaleChain
  <1>4. StaleChain \in Seq(Jobs) /\ DOMAIN StaleChain = 1 .. Len(chain)
    BY <1>1, <1>3, SeqDef
  <1>5. Len(StaleChain) = Len(chain)
    BY <1>1, <1>4, LenProperties
  <1>6. StaleChain = <<>> <=> chain = <<>>
    BY <1>4, <1>5, EmptySeq
  <1>7. \A i \in DOMAIN chain : /\ StaleChain[i].kind = chain[i].kind
                                /\ StaleChain[i].op = chain[i].op /\ ~Wanted(StaleChain[i])
    BY <1>1, <1>2, JobFacts
  <1> QED BY <1>1, <1>4, <1>6, <1>7 DEF Follows

\* The supervisor's record is left alone, or cleared with all that counted.
Touch(q) ==
  \/ q = chain /\ UNCHANGED <<sup, job>>
  \/ q = StaleChain /\ Clear

\* What is left of the supervisor's spawns.
LEMMA TouchFacts ==
  ASSUME IInv, NEW q, Touch(q)
  PROVE  /\ Follows(q) /\ sup' \in Records /\ job' \in [Workers -> Jobs]
         /\ \A w \in Workers : /\ job'[w].kind = job[w].kind /\ job'[w].op = job[w].op
                               /\ Wanted(job'[w]) => Wanted(job[w])
         /\ \/ sup' = sup /\ q = chain /\ job' = job
            \/ /\ sup'.state = "none" /\ ~sup'.timer
               /\ \A i \in DOMAIN chain : ~Wanted(q[i])
               /\ \A w \in Workers : ~Wanted(job'[w])
  <1>1. chain \in Seq(Jobs) /\ job \in [Workers -> Jobs] /\ sup \in Records
    BY TypeFacts
  <1>2. CASE q = chain /\ UNCHANGED <<sup, job>>
    BY <1>1, <1>2 DEF Follows
  <1>3. CASE q = StaleChain /\ Clear
    <2>1. Follows(q) /\ \A i \in DOMAIN chain : ~Wanted(q[i])
      BY <1>1, <1>3, StaleChainFacts
    <2>2. sup' = NoRecord /\ NoRecord \in Records /\ NoRecord.state = "none" /\ ~NoRecord.timer
      BY <1>3, WorkersAssumption DEF Clear, NoRecord, Records
    <2>3. job' = [w \in Workers |-> Stale(job[w])]
      BY <1>3 DEF Clear
    <2>4. job' \in [Workers -> Jobs]
          /\ \A w \in Workers : /\ job'[w].kind = job[w].kind /\ job'[w].op = job[w].op
                                /\ ~Wanted(job'[w])
      BY <1>1, <2>3, JobFacts
    <2> QED BY <2>1, <2>2, <2>4
  <1> QED BY <1>2, <1>3 DEF Touch

\* A record that needs no spawn under way.
Accounted(t) == t.state \in {"running", "suspended"} \/ (t.state = "restarting" /\ t.timer)

\* exited(): restarting with the timer armed, or suspended.
LEMMA ExitedFacts ==
  ASSUME NEW r \in Records, NEW t \in Exited(r)
  PROVE  t \in Records /\ Accounted(t)
  <1>1. PICK kept \in IF r.state = "running" THEN 0 .. r.exits ELSE {r.exits} :
          t = LET n == kept + 1 IN
              IF n >= SuspendAfter
              THEN [state |-> "suspended", exits |-> SuspendAfter, timer |-> FALSE]
              ELSE [state |-> "restarting", exits |-> n, timer |-> TRUE]
    BY DEF Exited
  <1>2. kept \in Nat /\ SuspendAfter \in Nat
    BY <1>1, WorkersAssumption DEF Records
  <1>3. CASE kept + 1 >= SuspendAfter
    <2>1. t = [state |-> "suspended", exits |-> SuspendAfter, timer |-> FALSE]
      BY <1>1, <1>3
    <2> QED BY <2>1, <1>2 DEF Records, Accounted
  <1>4. CASE ~ (kept + 1 >= SuspendAfter)
    <2>1. t = [state |-> "restarting", exits |-> kept + 1, timer |-> TRUE]
      BY <1>1, <1>4
    <2>2. kept + 1 \in 0 .. SuspendAfter
      BY <1>2, <1>4
    <2> QED BY <2>1, <2>2 DEF Records, Accounted
  <1> QED BY <1>3, <1>4

\* A failed restart that still counts is not left "restarting" with no timer.
LEMMA RestartFailsFacts ==
  ASSUME NEW r \in Records, NEW j, NEW e, NEW t \in RestartFails(j, e, r)
  PROVE  /\ t \in Records
         /\ (j.stale /\ t = r) \/ (~j.stale /\ Accounted(t))
  <1>1. CASE j.stale
    <2>1. RestartFails(j, e, r) = {r}
      BY <1>1 DEF RestartFails
    <2> QED BY <2>1, <1>1
  <1>2. CASE ~j.stale /\ e = "refused"
    <2>1. t = Suspended(r)
      BY <1>2 DEF RestartFails
    <2>2. Suspended(r) \in Records /\ Suspended(r).state = "suspended"
      BY DEF Suspended, Records
    <2> QED BY <2>1, <2>2, <1>2 DEF Accounted
  <1>3. CASE ~j.stale /\ e # "refused"
    <2>1. t \in Exited(r)
      BY <1>3 DEF RestartFails
    <2> QED BY <2>1, <1>3, ExitedFacts
  <1> QED BY <1>1, <1>2, <1>3

(***************************************************************************)
(* A turn of the lock or of a worker thread.  Turn(x) says what such a     *)
(* step may do to the parts of the state; x is the request it answers, or  *)
(* 0 when it answers none.                                                 *)
(***************************************************************************)

\* The last worker may have been ended, and its spawn may have called back.
Churn ==
  /\ UNCHANGED <<used, settled, unloading>>
  /\ thread' \in [Workers -> {"none", "alive", "crashed", "dying", "exited"}]
  /\ \A w \in Workers :
       \/ thread'[w] = thread[w]
       \/ /\ thread[w] \in {"alive", "crashed", "dying"}
          /\ thread'[w] \in {"crashed", "dying"} \/ (thread'[w] = "exited" /\ w \in called')
  /\ called' = called \/ (Spawning /\ called' = called \cup {used})
  /\ loaded' \subseteq Workers /\ ended' \subseteq called'

\* Request x is answered, and an unload may have come to its end.
Answered(x) ==
  /\ UNCHANGED <<asked, kind, target, quiet, dropped>>
  /\ stage' \in [Ops -> {"none", "unloading", "ending", "spawning", "done"}]
  /\ replies' \in [Ops -> Seq({"ok", "failed"})]
  /\ x \in Ops => /\ stage[x] = "spawning" /\ stage'[x] = "done"
                  /\ Len(replies'[x]) = Len(replies[x]) + 1
  /\ \A o \in Ops \ {x} :
       /\ replies'[o] = replies[o]
       /\ stage'[o] = stage[o] \/ (stage[o] = "unloading" /\ stage'[o] = "ending")

\* The job of request x is over: the head of the queue, or the last worker's.
Over(x) ==
  /\ job' = job
  /\ \/ chain' = chain /\ (x \in Ops => Spawning /\ used \in called' /\ x = job[used].op)
     \/ /\ chain # <<>> /\ chain' = Tail(chain) /\ called' = called
        /\ x \in Ops => x = chain[1].op

\* No unload is under way.
NoUnload == \A o \in Ops : stage[o] \notin {"unloading", "ending"}

\* The supervisor has been told of a spawn of its own that is over.
Informed ==
  \/ /\ sup' = sup
     /\ chain' = chain \/ ~Wanted(chain[1])
     /\ called' = called \/ ~Wanted(job[used])
  \/ sup' \in Records /\ Accounted(sup') /\ ~quiet /\ NoUnload

Turn(x) ==
  /\ Churn /\ Answered(x) /\ Over(x) /\ Informed
  /\ modules' \in 0 .. MaxWorkers /\ (quiet => modules' = 0)
  /\ lock' \in {"idle", "wait_exit", "wait_settled", "walk", "delete"}
  /\ used # 0 /\ thread'[used] = "exited" /\ thread[used] # "exited" =>
       \A o \in Ops : target[o] = used => stage'[o] # "unloading"

\* The threads keep their order.
LEMMA ThreadsKept ==
  ASSUME IInv, Churn
  PROVE  Threads' /\ WorkerType'
  <1>1. WorkerType /\ Threads
    BY DEF IInv, TypeOK
  <1>2. used # 0 => used \in Workers /\ used \in Nat
    BY TypeFacts
  <1>3. called \subseteq called' /\ called' \subseteq Workers /\ \A w \in called' : w <= used
    BY <1>1, <1>2 DEF Churn, Spawning, WorkerType, Threads
  <1>4. WorkerType'
    BY <1>1, <1>3 DEF Churn, WorkerType
  <1>5. \A w \in Workers : (thread'[w] = "none" <=> w > used) /\ (w < used => w \in settled)
    BY <1>1 DEF Churn, Threads
  <1>6. \A w \in settled : thread'[w] = "exited"
    BY <1>1 DEF Churn, Threads, WorkerType
  <1>7. \A w \in Workers : thread'[w] = "exited" => w \in called'
    BY <1>1, <1>3 DEF Churn, Threads
  <1>8. ended' \subseteq called' /\ unloading \subseteq called'
    BY <1>1, <1>3 DEF Churn, Threads
  <1> QED BY <1>3, <1>4, <1>5, <1>6, <1>7, <1>8 DEF Churn, Threads

\* One answer to a request that waited for it.
LEMMA RequestsKept ==
  ASSUME IInv, NEW x, Answered(x)
  PROVE  Requests' /\ OpType'
  <1>1. OpType /\ Requests
    BY DEF IInv, TypeOK
  <1>2. asked' = asked /\ Ops = 1 .. MaxOps /\ asked \in Nat
    BY TypeFacts DEF Answered
  <1>3. \A o \in Ops : stage'[o] = "none" <=> o > asked
    BY <1>1 DEF Answered, Requests
  <1>4. ASSUME NEW o \in Ops
        PROVE  Len(replies'[o]) = IF stage'[o] = "done" THEN 1 ELSE 0
    <2>1. CASE o = x
      <3>1. stage[o] = "spawning" /\ stage'[o] = "done" /\ Len(replies'[o]) = Len(replies[o]) + 1
        BY <2>1 DEF Answered
      <3>2. Len(replies[o]) = 0
        BY <3>1, <1>1 DEF Requests
      <3> QED BY <3>1, <3>2
    <2>2. CASE o # x
      <3>1. Len(replies'[o]) = Len(replies[o]) /\ (stage'[o] = "done" <=> stage[o] = "done")
        BY <2>2 DEF Answered
      <3> QED BY <3>1, <1>1 DEF Requests
    <2> QED BY <2>1, <2>2
  <1> QED BY <1>1, <1>2, <1>3, <1>4 DEF Requests, OpType, Answered

\* The queue is as it was, or its head has left it.
LEMMA OverFacts ==
  ASSUME IInv, NEW x, Over(x)
  PROVE  /\ chain' \in Seq(Jobs)
         /\ \A i \in DOMAIN chain' : \E k \in DOMAIN chain :
              chain'[i] = chain[k] /\ (chain' # chain => k # 1)
         /\ \A i, j \in DOMAIN chain' : i # j => \E k, l \in DOMAIN chain :
              k # l /\ chain'[i] = chain[k] /\ chain'[j] = chain[l]
         /\ \A k \in DOMAIN chain : (chain' # chain /\ k = 1)
                                    \/ \E i \in DOMAIN chain' : chain'[i] = chain[k]
  <1>1. chain \in Seq(Jobs)
    BY TypeFacts
  <1>2. CASE chain' = chain
    BY <1>1, <1>2
  <1>3. CASE chain # <<>> /\ chain' = Tail(chain)
    <2>1. /\ chain' \in Seq(Jobs) /\ 1 \in DOMAIN chain
          /\ \A i \in DOMAIN chain' : /\ i \in Nat /\ i + 1 \in DOMAIN chain /\ i + 1 # 1
                                      /\ chain'[i] = chain[i + 1]
          /\ \A i \in DOMAIN chain : i # 1 => /\ i \in Nat /\ i - 1 \in DOMAIN chain'
                                              /\ chain'[i - 1] = chain[i]
      BY <1>1, <1>3, TailIndex
    <2>2. Len(chain') # Len(chain)
      BY <1>1, <1>3, TailFacts
    <2>3. chain' # chain
      BY <2>2
    <2>4. \A i, j \in DOMAIN chain' : i # j => i + 1 # j + 1
      BY <2>1
    <2>5. \A i \in DOMAIN chain' : \E k \in DOMAIN chain : chain'[i] = chain[k] /\ k # 1
      BY <2>1
    <2>6. \A i, j \in DOMAIN chain' : i # j => \E k, l \in DOMAIN chain :
            k # l /\ chain'[i] = chain[k] /\ chain'[j] = chain[l]
      BY <2>1, <2>4
    <2>7. \A k \in DOMAIN chain : k = 1 \/ \E i \in DOMAIN chain' : chain'[i] = chain[k]
      BY <2>1
    <2> QED BY <2>1, <2>3, <2>5, <2>6, <2>7
  <1> QED BY <1>2, <1>3 DEF Over

\* The jobs that are not over are still waited for.
LEMMA SpawnsKept ==
  ASSUME IInv, NEW x, Churn, Answered(x), Over(x)
  PROVE  Spawns' /\ chain' \in Seq(Jobs) /\ job' = job
  <1>1. Spawns
    BY DEF IInv
  <1>2. used # 0 => used \in Workers
    BY TypeFacts
  <1>3. 0 \notin Ops
    BY TypeFacts
  <1>4. Spawning' => Spawning
    BY DEF Churn, Spawning
  <1>5. /\ \A i \in DOMAIN chain' : \E k \in DOMAIN chain :
             chain'[i] = chain[k] /\ (chain' # chain => k # 1)
        /\ \A i, j \in DOMAIN chain' : i # j => \E k, l \in DOMAIN chain :
             k # l /\ chain'[i] = chain[k] /\ chain'[j] = chain[l]
        /\ chain' \in Seq(Jobs)
    BY OverFacts
  <1>6. ASSUME NEW j, JobOk(j), x \in Ops => j.op # x
        PROVE  JobFor(j, stage', kind')
    <2>1. j.kind # "supervised" => j.op \in Ops /\ stage[j.op] = "spawning"
      BY <1>6 DEF JobOk, JobFor
    <2>2. j.kind # "supervised" => j.op # x
      BY <1>6, <2>1
    <2>3. j.kind # "supervised" => stage'[j.op] = "spawning"
      BY <2>1, <2>2 DEF Answered
    <2> QED BY <1>6, <2>3 DEF JobOk, JobFor, Answered
  <1>7. ASSUME NEW k \in DOMAIN chain, chain' # chain => k # 1, x \in Ops
        PROVE  chain[k].op # x
    <2>1. CASE chain' = chain /\ Spawning /\ x = job[used].op
      BY <1>1, <1>3, <1>7, <2>1 DEF Spawns
    <2>2. CASE chain # <<>> /\ chain' = Tail(chain) /\ x = chain[1].op
      <3>1. 1 \in DOMAIN chain /\ k # 1
        <4>1. chain \in Seq(Jobs)
          BY TypeFacts
        <4>2. 1 \in DOMAIN chain
          BY <4>1, <2>2, TailIndex
        <4>3. Len(chain') # Len(chain)
          BY <4>1, <2>2, TailFacts
        <4> QED BY <4>2, <4>3, <1>7
      <3> QED BY <1>1, <1>3, <1>7, <2>2, <3>1 DEF Spawns
    <2> QED BY <2>1, <2>2, <1>7 DEF Over
  <1>8. \A i \in DOMAIN chain' : JobFor(chain'[i], stage', kind')
    <2> TAKE i \in DOMAIN chain'
    <2>1. PICK k \in DOMAIN chain : chain'[i] = chain[k] /\ (chain' # chain => k # 1)
      BY <1>5
    <2>2. JobOk(chain[k])
      BY <1>1 DEF Spawns
    <2>3. x \in Ops => chain[k].op # x
      BY <1>7, <2>1
    <2>4. JobOk(chain'[i]) /\ (x \in Ops => chain'[i].op # x)
      BY <2>1, <2>2, <2>3
    <2> QED BY <2>4, <1>6
  <1>9. \A i, j \in DOMAIN chain' : i # j /\ chain'[i].op # 0 => chain'[i].op # chain'[j].op
    BY <1>1, <1>5 DEF Spawns
  <1>10. ASSUME Spawning'
         PROVE  /\ JobFor(job[used], stage', kind') /\ job[used].kind # "uninstall"
                /\ \A i \in DOMAIN chain' : chain'[i].op # 0 => chain'[i].op # job[used].op
    <2>1. JobOk(job[used]) /\ job[used].kind # "uninstall"
          /\ \A i \in DOMAIN chain : chain[i].op # 0 => chain[i].op # job[used].op
      BY <1>1, <1>4, <1>10 DEF Spawns
    <2>2. used \notin called'
      BY <1>10 DEF Spawning, Churn
    <2>3. x \in Ops => /\ chain # <<>> /\ x = chain[1].op
      BY <2>2 DEF Over
    <2>4. x \in Ops => 1 \in DOMAIN chain
      BY <2>3, TypeFacts, TailIndex
    <2>5. x \in Ops => job[used].op # x
      BY <1>3, <2>1, <2>3, <2>4
    <2> QED BY <1>5, <1>6, <2>1, <2>5
  <1>11. job' = job /\ used' = used
    BY DEF Over, Churn
  <1> QED BY <1>5, <1>8, <1>9, <1>10, <1>11 DEF Spawns, JobOk

\* An unload under way keeps its worker, and the supervisor stays out.
LEMMA UnloadingKept ==
  ASSUME IInv, NEW x, Turn(x)
  PROVE  Unloading'
  <1> SUFFICES ASSUME NEW o \in Ops, stage'[o] \in {"unloading", "ending"}
               PROVE  /\ target'[o] = used' /\ used' # 0 /\ used' \in called' \cap unloading'
                      /\ used' \notin settled'
                      /\ stage'[o] = "unloading" => thread'[used'] # "exited"
                      /\ kind'[o] \in {"load", "restart", "unload"}
                      /\ sup'.state = "none"
                      /\ \A i \in DOMAIN chain' : ~Wanted(chain'[i])
    BY DEF Unloading, Wanted
  <1>1. /\ UNCHANGED <<used, settled, unloading>> /\ called \subseteq called'
        /\ UNCHANGED <<kind, target>>
    BY DEF Turn, Churn, Answered
  <1>2. o # x /\ stage[o] \in {"unloading", "ending"}
        /\ (stage'[o] = "unloading" => stage[o] = "unloading")
    BY DEF Turn, Answered
  <1>3. /\ target[o] = used /\ used # 0 /\ used \in called \cap unloading /\ used \notin settled
        /\ stage[o] = "unloading" => thread[used] # "exited"
        /\ kind[o] \in {"load", "restart", "unload"}
        /\ sup.state = "none"
        /\ \A i \in DOMAIN chain : ~Wanted(chain[i])
    BY <1>2 DEF IInv, Unloading
  <1>4. stage'[o] = "unloading" => thread'[used] # "exited"
    BY <1>2, <1>3 DEF Turn
  <1>5. sup' = sup
    BY <1>2 DEF Turn, Informed, NoUnload
  <1>6. \A i \in DOMAIN chain' : \E k \in DOMAIN chain : chain'[i] = chain[k]
    BY OverFacts DEF Turn
  <1>7. \A i \in DOMAIN chain' : ~Wanted(chain'[i])
    BY <1>3, <1>6
  <1> QED BY <1>1, <1>3, <1>4, <1>5, <1>7

\* The supervisor's record still says what is ahead.
LEMMA SupervisedKept ==
  ASSUME IInv, NEW x, Turn(x)
  PROVE  Supervised'
  <1>1. Supervised
    BY DEF IInv
  <1>2. UNCHANGED <<used, job, kind, quiet>>
    BY DEF Turn, Churn, Answered, Over
  <1>3. Spawning' => Spawning
    BY DEF Turn, Churn, Spawning
  <1>4. /\ \A i \in DOMAIN chain' : \E k \in DOMAIN chain : chain'[i] = chain[k]
        /\ \A k \in DOMAIN chain : (chain' # chain /\ k = 1)
                                   \/ \E i \in DOMAIN chain' : chain'[i] = chain[k]
    BY OverFacts DEF Turn
  <1>5. sup'.state = "none" => ~sup'.timer
    BY <1>1 DEF Supervised, Turn, Informed, Accounted
  <1>6. Ahead'
    <2>1. CASE Accounted(sup')
      BY <2>1 DEF Accounted, Ahead
    <2>2. CASE /\ sup' = sup
               /\ chain' = chain \/ ~Wanted(chain[1])
               /\ called' = called \/ ~Wanted(job[used])
      <3> SUFFICES ASSUME sup'.state = "restarting", ~sup'.timer
                   PROVE  \/ \E i \in DOMAIN chain' : Wanted(chain'[i])
                          \/ Spawning' /\ Wanted(job[used])
        BY <1>2 DEF Ahead, Wanted
      <3>1. (\E i \in DOMAIN chain : Wanted(chain[i])) \/ (Spawning /\ Wanted(job[used]))
        BY <1>1, <2>2 DEF Supervised, Ahead
      <3>2. CASE \E i \in DOMAIN chain : Wanted(chain[i])
        BY <1>4, <2>2, <3>2
      <3>3. CASE Spawning /\ Wanted(job[used])
        BY <1>2, <2>2, <3>3 DEF Spawning
      <3> QED BY <3>1, <3>2, <3>3
    <2> QED BY <2>1, <2>2 DEF Turn, Informed
  <1>7. ASSUME quiet
        PROVE  /\ modules' = 0 /\ sup'.state = "none"
               /\ \A o \in Ops : stage'[o] \in Open => kind[o] \notin {"load", "restart"}
               /\ \A i \in DOMAIN chain' : ~Wanted(chain'[i])
               /\ Spawning' => ~Wanted(job[used])
    <2>1. modules' = 0 /\ sup' = sup
      BY <1>7 DEF Turn, Informed
    <2>2. /\ sup.state = "none"
          /\ \A o \in Ops : stage[o] \in Open => kind[o] \notin {"load", "restart"}
          /\ \A i \in DOMAIN chain : ~Wanted(chain[i])
          /\ Spawning => ~Wanted(job[used])
      BY <1>1, <1>7 DEF Supervised
    <2>3. \A o \in Ops : stage'[o] \in Open => stage[o] \in Open
      BY DEF Turn, Answered, Open
    <2> QED BY <1>3, <1>4, <2>1, <2>2, <2>3
  <1> QED BY <1>2, <1>5, <1>6, <1>7 DEF Supervised, Wanted

\* What a turn keeps whatever it does to the registry and to the lock.
LEMMA TurnKeeps ==
  ASSUME IInv, NEW x, Turn(x)
  PROVE  TypeOK' /\ Threads' /\ Spawns' /\ Requests' /\ Unloading' /\ Supervised'
  <1>1. Churn /\ Answered(x) /\ Over(x) /\ Informed
    BY DEF Turn
  <1>2. Threads' /\ WorkerType'
    BY <1>1, ThreadsKept
  <1>3. Requests' /\ OpType'
    BY <1>1, RequestsKept
  <1>4. Spawns' /\ chain' \in Seq(Jobs) /\ job' = job
    BY <1>1, SpawnsKept
  <1>5. Unloading' /\ Supervised'
    BY UnloadingKept, SupervisedKept
  <1>6. sup' \in Records /\ used' = used
    BY <1>1, TypeFacts DEF Informed, Churn
  <1>7. RegistryType'
    BY <1>6 DEF Turn, RegistryType
  <1>8. LockType'
    BY <1>4, <1>6, TypeFacts DEF Turn, LockType
  <1> QED BY <1>2, <1>3, <1>4, <1>5, <1>7, <1>8 DEF TypeOK

\* Who holds the lock keeps what it has seen.
LEMMA LockKept ==
  ASSUME IInv, UNCHANGED <<lock, used, settled>>, chain' = chain, Busy' => Busy
  PROVE  Locked'
  BY DEF IInv, Locked

\* The lock is free.
LEMMA LockFree ==
  ASSUME lock' = "idle"
  PROVE  Locked'
  BY DEF Locked

\* The registered worker stays, and the last worker is not left alone.
LEMMA RegisteredKept ==
  ASSUME IInv, Churn, modules' = modules, dropped' = dropped,
         \A w \in Workers : thread'[w] = "alive" /\ w \in called' => w \in called,
         modules # 0 => /\ thread'[used] # "exited"
                        /\ used \in ended' => used \in ended \cup unloading
                        /\ Unloads(used) # {} => Unloads(used)' # {}
  PROVE  Registered'
  <1>1. Registered
    BY DEF IInv
  <1>2. UNCHANGED <<used, unloading>> /\ called \subseteq called'
    BY DEF Churn
  <1>3. \A w \in Workers : thread'[w] = "alive" => thread[w] = "alive"
    BY DEF Churn
  <1>4. NoOrphan'
    BY <1>1, <1>3 DEF Registered, NoOrphan
  <1>5. modules # 0 => /\ modules = used /\ used \in called
                       /\ used \in ended => used \in unloading
                       /\ used \in unloading => Unloads(used) # {}
    BY <1>1 DEF Registered
  <1>6. modules' # 0 => /\ modules' = used' /\ thread'[used'] # "exited" /\ used' \in called'
                        /\ used' \in ended' => used' \in unloading'
                        /\ used' \in unloading' => Unloads(used)' # {}
    BY <1>2, <1>5
  <1> QED BY <1>4, <1>6 DEF Registered

\* Nothing is registered, and no worker is left running that should be.
LEMMA RegisteredGone ==
  ASSUME modules' = 0,
         \A w \in Workers : thread'[w] = "alive" => w \notin called' \/ w \in dropped'
  PROVE  Registered'
  BY DEF Registered, NoOrphan

\* A thread that runs is the last one.
LEMMA RunningFacts ==
  ASSUME IInv, NEW w \in Workers, thread[w] \in {"alive", "crashed", "dying"}
  PROVE  w = used /\ used # 0 /\ used \in Workers /\ used \notin settled /\ Busy
  <1>1. Threads /\ WorkerType
    BY DEF IInv, TypeOK
  <1>2. w \in Nat \ {0} /\ used \in Nat
    BY TypeFacts
  <1>3. w \notin settled
    BY <1>1 DEF Threads
  <1>4. ~ (w > used) /\ ~ (w < used)
    BY <1>1, <1>3 DEF Threads
  <1>5. w = used
    BY <1>2, <1>4
  <1> QED BY <1>2, <1>3, <1>5 DEF Busy, Live

\* The job at the head of the queue.
LEMMA HeadFacts ==
  ASSUME IInv, chain # <<>>
  PROVE  1 \in DOMAIN chain /\ chain[1] \in Jobs /\ JobOk(chain[1]) /\ Head1 = chain[1]
  <1>1. chain \in Seq(Jobs)
    BY TypeFacts
  <1>2. 1 \in DOMAIN chain /\ chain[1] \in Jobs
    BY <1>1, TailIndex
  <1> QED BY <1>2 DEF IInv, Spawns, Head1

\* The job of a worker whose spawn has not called back.
LEMMA SpawningFacts ==
  ASSUME IInv, Spawning
  PROVE  used \in Workers /\ job[used] \in Jobs /\ JobOk(job[used]) /\ job[used].kind # "uninstall"
  BY TypeFacts DEF Spawning, IInv, Spawns

\* While a supervised spawn counts, no unload is under way.
LEMMA WantedFacts ==
  ASSUME IInv, (chain # <<>> /\ Wanted(chain[1])) \/ (Spawning /\ Wanted(job[used]))
  PROVE  ~quiet /\ NoUnload
  <1>1. CASE chain # <<>> /\ Wanted(chain[1])
    <2>1. 1 \in DOMAIN chain
      BY <1>1, HeadFacts
    <2> QED BY <1>1, <2>1 DEF IInv, Supervised, Unloading, NoUnload
  <1>2. CASE Spawning /\ Wanted(job[used])
    BY <1>2 DEF IInv, Supervised, Unloading, NoUnload, Spawning
  <1> QED BY <1>1, <1>2

\* A request is answered.
LEMMA AnswerFacts ==
  ASSUME IInv, NEW o \in Ops, NEW r \in {"ok", "failed"}, Answer(o, r)
  PROVE  /\ stage' \in [Ops -> {"none", "unloading", "ending", "spawning", "done"}]
         /\ replies' \in [Ops -> Seq({"ok", "failed"})]
         /\ stage'[o] = "done" /\ Len(replies'[o]) = Len(replies[o]) + 1
         /\ \A p \in Ops \ {o} : stage'[p] = stage[p] /\ replies'[p] = replies[p]
  <1>1. /\ stage \in [Ops -> {"none", "unloading", "ending", "spawning", "done"}]
        /\ replies \in [Ops -> Seq({"ok", "failed"})]
    BY DEF IInv, TypeOK, OpType
  <1>2. /\ Append(replies[o], r) \in Seq({"ok", "failed"})
        /\ Len(Append(replies[o], r)) = Len(replies[o]) + 1
    BY <1>1, AppendFacts
  <1>3. replies' = [replies EXCEPT ![o] = Append(replies[o], r)]
        /\ stage' = [stage EXCEPT ![o] = "done"]
    BY DEF Answer
  <1>4. replies' \in [Ops -> Seq({"ok", "failed"})] /\ replies'[o] = Append(replies[o], r)
        /\ \A p \in Ops \ {o} : replies'[p] = replies[p]
    BY <1>1, <1>2, <1>3
  <1>5. /\ stage' \in [Ops -> {"none", "unloading", "ending", "spawning", "done"}]
        /\ stage'[o] = "done" /\ \A p \in Ops \ {o} : stage'[p] = stage[p]
    BY <1>1, <1>3
  <1> QED BY <1>2, <1>4, <1>5

\* No unload comes to its end.
Steady == \A o \in Ops : stage[o] = "unloading" => stage'[o] = "unloading"

\* A request that waited for its job is answered.
LEMMA AnswerTurn ==
  ASSUME IInv, NEW o \in Ops, NEW r \in {"ok", "failed"}, Answer(o, r), stage[o] = "spawning",
         UNCHANGED <<asked, kind, target, quiet, dropped>>
  PROVE  Answered(o) /\ Steady
  <1>1. /\ stage' \in [Ops -> {"none", "unloading", "ending", "spawning", "done"}]
        /\ replies' \in [Ops -> Seq({"ok", "failed"})]
        /\ stage'[o] = "done" /\ Len(replies'[o]) = Len(replies[o]) + 1
        /\ \A p \in Ops \ {o} : stage'[p] = stage[p] /\ replies'[p] = replies[p]
    BY AnswerFacts
  <1> QED BY <1>1 DEF Answered, Steady

\* No request is answered.
LEMMA NoAnswer ==
  ASSUME IInv, UNCHANGED <<stage, replies, asked, kind, target, quiet, dropped>>
  PROVE  Answered(0) /\ Steady
  <1>1. 0 \notin Ops
    BY TypeFacts
  <1>2. OpType
    BY DEF IInv, TypeOK
  <1> QED BY <1>1, <1>2 DEF Answered, Steady, OpType

\* The threads do nothing.
LEMMA NoChurn ==
  ASSUME IInv, UNCHANGED <<used, settled, unloading, thread, called, loaded, ended>>
  PROVE  Churn
  BY DEF IInv, TypeOK, WorkerType, Threads, Churn

\* A spawn that fails: its request is answered, or the supervisor is told.
LEMMA SpawnFailsTurn ==
  ASSUME IInv, NEW j \in Jobs, JobOk(j), j.kind # "uninstall", NEW e, SpawnFails(j, e),
         UNCHANGED <<asked, kind, target, quiet, dropped>>
  PROVE  /\ Answered(j.op) /\ Steady
         /\ (sup' = sup /\ ~Wanted(j)) \/ (sup' \in Records /\ Accounted(sup') /\ Wanted(j))
  <1>1. CASE j.kind = "load"
    <2>1. j.op \in Ops /\ stage[j.op] = "spawning"
      BY <1>1 DEF JobOk, JobFor
    <2>2. Answer(j.op, "failed") /\ sup' = sup
      BY <1>1 DEF SpawnFails
    <2>3. ~Wanted(j)
      BY <1>1 DEF Wanted
    <2> QED BY <2>1, <2>2, <2>3, AnswerTurn
  <1>2. CASE j.kind = "supervised"
    <2>1. j.op = 0
      BY <1>2 DEF JobOk, JobFor
    <2>2. sup' \in RestartFails(j, e, sup) /\ UNCHANGED <<replies, stage>>
      BY <1>2 DEF SpawnFails
    <2>3. Answered(j.op) /\ Steady
      BY <2>1, <2>2, NoAnswer
    <2>4. sup' \in Records /\ ((j.stale /\ sup' = sup) \/ (~j.stale /\ Accounted(sup')))
      BY <2>2, TypeFacts, RestartFailsFacts
    <2> QED BY <1>2, <2>3, <2>4 DEF Wanted
  <1> QED BY <1>1, <1>2 DEF JobOk, JobFor

\* terminate().
LEMMA TerminateFacts ==
  ASSUME IInv, NEW w \in Workers, Terminate(w)
  PROVE  /\ thread' \in [Workers -> {"none", "alive", "crashed", "dying", "exited"}]
         /\ thread'[w] # "alive"
         /\ \A v \in Workers : \/ thread'[v] = thread[v]
                               \/ thread[v] = "alive" /\ thread'[v] = "dying"
  <1>1. thread \in [Workers -> {"none", "alive", "crashed", "dying", "exited"}]
    BY DEF IInv, TypeOK, WorkerType
  <1>2. thread' = [thread EXCEPT ![w] = IF thread[w] = "alive" THEN "dying" ELSE thread[w]]
    BY DEF Terminate
  <1>3. thread'[w] = IF thread[w] = "alive" THEN "dying" ELSE thread[w]
    BY <1>1, <1>2
  <1>4. \A v \in Workers : v # w => thread'[v] = thread[v]
    BY <1>1, <1>2
  <1>5. thread' \in [Workers -> {"none", "alive", "crashed", "dying", "exited"}]
    BY <1>1, <1>2
  <1> QED BY <1>3, <1>4, <1>5

\* Some unloads of the last worker are under way as before.
LEMMA SameUnloads ==
  ASSUME IInv, NEW x, Answered(x), used' = used, Steady
  PROVE  Unloads(used) # {} => Unloads(used)' # {}
  BY DEF Unloads, Answered, Steady

\* A turn that leaves the registry and the threads alone keeps the registration.
LEMMA QuietRegistered ==
  ASSUME IInv, NEW x, Answered(x), Steady,
         UNCHANGED <<modules, used, settled, thread, called, loaded, ended, unloading>>
  PROVE  Registered'
  <1>1. Churn
    BY NoChurn
  <1>2. Unloads(used) # {} => Unloads(used)' # {}
    BY SameUnloads
  <1>3. modules # 0 => thread[used] # "exited"
    BY DEF IInv, Registered
  <1>4. dropped' = dropped
    BY DEF Answered
  <1> QED BY <1>1, <1>2, <1>3, <1>4, RegisteredKept

\* Nothing but the lock moves on.
LEMMA LockMoves ==
  ASSUME IInv, UNCHANGED <<mainVars, chain, used, job, workerVars, opVars>>,
         lock' \in {"idle", "wait_exit", "wait_settled", "walk", "delete"}, Locked'
  PROVE  IInv'
  <1>1. /\ UNCHANGED <<modules, sup, chain, used, job>>
        /\ UNCHANGED <<used, settled, unloading, thread, called, loaded, ended>>
        /\ UNCHANGED <<stage, replies, asked, kind, target, quiet, dropped>>
    BY DEF mainVars, workerVars, opVars
  <1>2. Churn
    BY <1>1, NoChurn
  <1>3. Answered(0) /\ Steady
    BY <1>1, NoAnswer
  <1>4. Over(0)
    BY <1>1, TypeFacts DEF Over
  <1>5. Informed
    BY <1>1 DEF Informed
  <1>6. modules' \in 0 .. MaxWorkers /\ (quiet => modules' = 0)
    BY <1>1, TypeFacts DEF IInv, Supervised
  <1>7. Turn(0)
    BY <1>1, <1>2, <1>3, <1>4, <1>5, <1>6 DEF Turn
  <1>8. Registered'
    BY <1>1, <1>3, QuietRegistered
  <1> QED BY <1>7, <1>8, TurnKeeps DEF IInv

\* The worker awaited has exited.
LEMMA ExitAwaitedStep ==
  ASSUME IInv, ExitAwaited
  PROVE  IInv'
  <1>1. chain # <<>> /\ chain[1].kind = "load"
    BY DEF ExitAwaited, IInv, Locked
  <1>2. Locked'
    BY <1>1 DEF ExitAwaited, Locked
  <1> QED BY <1>2, LockMoves DEF ExitAwaited

\* The last broker has settled.
LEMMA SettleAwaitedStep ==
  ASSUME IInv, SettleAwaited
  PROVE  IInv'
  <1>1. chain # <<>> /\ (chain[1].kind = "uninstall" => ~Busy)
    BY DEF SettleAwaited, IInv, Locked
  <1>2. chain[1].kind \in {"load", "supervised", "uninstall"} /\ Head1 = chain[1]
    BY <1>1, HeadFacts DEF JobOk, JobFor
  <1>3. /\ UNCHANGED <<chain, used, settled>>
        /\ Busy' <=> Busy
        /\ used = 0 \/ used \in settled
        /\ lock' = IF chain[1].kind = "uninstall" THEN "delete" ELSE "walk"
    BY <1>2 DEF SettleAwaited, Busy, Live, mainVars, workerVars
  <1>4. Locked'
    BY <1>1, <1>2, <1>3 DEF Locked
  <1> QED BY <1>3, <1>4, LockMoves DEF SettleAwaited

\* The head of the queue is done with.
LEMMA HeadDone ==
  ASSUME IInv, chain # <<>>, NEW x, Answered(x), Steady, x \in Ops => x = chain[1].op,
         Release, UNCHANGED <<modules, used, job, workerVars>>,
         (sup' = sup /\ ~Wanted(chain[1]))
         \/ (sup' \in Records /\ Accounted(sup') /\ Wanted(chain[1]))
  PROVE  IInv'
  <1>1. UNCHANGED <<used, settled, unloading, thread, called, loaded, ended>>
    BY DEF workerVars
  <1>2. Churn
    BY <1>1, NoChurn
  <1>3. Over(x)
    BY <1>1 DEF Release, Over
  <1>4. Informed
    BY <1>1, WantedFacts DEF Informed
  <1>5. modules' \in 0 .. MaxWorkers /\ (quiet => modules' = 0)
    BY TypeFacts DEF IInv, Supervised
  <1>6. Turn(x)
    BY <1>1, <1>2, <1>3, <1>4, <1>5 DEF Turn, Release
  <1>7. Registered'
    BY <1>1, QuietRegistered
  <1>8. Locked'
    BY LockFree DEF Release
  <1> QED BY <1>6, <1>7, <1>8, TurnKeeps DEF IInv

\* The head's spawn fails.
LEMMA HeadFails ==
  ASSUME IInv, chain # <<>>, chain[1].kind # "uninstall", NEW e, SpawnFails(Head1, e), Release,
         UNCHANGED <<modules, used, job, workerVars, asked, kind, target, quiet, dropped>>
  PROVE  IInv'
  <1>1. chain[1] \in Jobs /\ JobOk(chain[1]) /\ Head1 = chain[1]
    BY HeadFacts
  <1>2. SpawnFails(chain[1], e)
    BY <1>1
  <1>3. /\ Answered(chain[1].op) /\ Steady
        /\ (sup' = sup /\ ~Wanted(chain[1]))
           \/ (sup' \in Records /\ Accounted(sup') /\ Wanted(chain[1]))
    BY <1>1, <1>2, SpawnFailsTurn
  <1> QED BY <1>3, HeadDone

\* The head's uninstall is answered.
LEMMA HeadAnswered ==
  ASSUME IInv, chain # <<>>, chain[1].kind = "uninstall", NEW r \in {"ok", "failed"},
         Answer(Head1.op, r), Release,
         UNCHANGED <<mainVars, used, job, workerVars, asked, kind, target, quiet, dropped>>
  PROVE  IInv'
  <1>1. chain[1] \in Jobs /\ JobOk(chain[1]) /\ Head1 = chain[1]
    BY HeadFacts
  <1>2. chain[1].op \in Ops /\ stage[chain[1].op] = "spawning"
    BY <1>1 DEF JobOk, JobFor
  <1>3. Answer(chain[1].op, r)
    BY <1>1
  <1>4. Answered(chain[1].op) /\ Steady
    BY <1>2, <1>3, AnswerTurn
  <1>5. sup' = sup /\ ~Wanted(chain[1]) /\ modules' = modules
    BY DEF Wanted, mainVars
  <1> QED BY <1>4, <1>5, HeadDone

\* createForWorker fails, or startWorker throws.
LEMMA WalkFailsStep ==
  ASSUME IInv, WalkFails
  PROVE  IInv'
  <1>1. chain # <<>> /\ chain[1].kind # "uninstall"
    BY DEF WalkFails, IInv, Locked
  <1> QED BY <1>1, HeadFails DEF WalkFails

\* The deletion is answered.
LEMMA DeleteDoneStep ==
  ASSUME IInv, DeleteDone
  PROVE  IInv'
  <1>1. chain # <<>> /\ chain[1].kind = "uninstall"
    BY DEF DeleteDone, IInv, Locked
  <1> QED BY <1>1, HeadAnswered DEF DeleteDone

\* A worker that was not live does not come back.
LEMMA LiveKept ==
  ASSUME IInv, Churn
  PROVE  Live' => Live
  <1>1. used # 0 => used \in Workers
    BY TypeFacts
  <1> QED BY <1>1 DEF Churn, Live

\* Threads move on short of their exit, and the lock with them.
LEMMA OnlyThreads ==
  ASSUME IInv, Churn, UNCHANGED <<mainVars, chain, job, called, ended, opVars>>, Locked',
         \A w \in Workers : thread'[w] = "exited" => thread[w] = "exited",
         lock' \in {"idle", "wait_exit", "wait_settled", "walk", "delete"}
  PROVE  IInv'
  <1>1. /\ UNCHANGED <<modules, sup, chain, job, called, ended, dropped>>
        /\ UNCHANGED <<stage, replies, asked, kind, target, quiet, dropped>>
    BY DEF mainVars, opVars
  <1>2. Answered(0) /\ Steady
    BY <1>1, NoAnswer
  <1>3. Over(0)
    BY <1>1, TypeFacts DEF Over
  <1>4. Informed
    BY <1>1 DEF Informed
  <1>5. modules' \in 0 .. MaxWorkers /\ (quiet => modules' = 0)
    BY <1>1, TypeFacts DEF IInv, Supervised
  <1>6. used # 0 => used \in Workers
    BY TypeFacts
  <1>7. Turn(0)
    BY <1>2, <1>3, <1>4, <1>5, <1>6 DEF Turn
  <1>8. used' = used
    BY DEF Churn
  <1>9. Unloads(used) # {} => Unloads(used)' # {}
    BY <1>2, <1>8, SameUnloads
  <1>10. modules # 0 => thread'[used] # "exited"
    <2>1. modules # 0 => thread[used] # "exited" /\ used # 0
      BY DEF IInv, Registered
    <2> QED BY <2>1, <1>6
  <1>11. Registered'
    BY <1>1, <1>9, <1>10, RegisteredKept
  <1> QED BY <1>7, <1>11, TurnKeeps DEF IInv

\* The head of the queue starts.
LEMMA StartJobStep ==
  ASSUME IInv, StartJob
  PROVE  IInv'
  <1>1. /\ chain # <<>> /\ lock = "idle"
        /\ UNCHANGED <<modules, used, job, loaded, called, ended, unloading, settled>>
        /\ UNCHANGED <<asked, kind, target, quiet, dropped>>
    BY DEF StartJob
  <1>2. Head1 = chain[1] /\ chain[1].kind \in {"load", "supervised", "uninstall"}
    BY <1>1, HeadFacts DEF JobOk, JobFor
  <1>3. CASE /\ Head1.kind = "supervised" /\ SpawnFails(Head1, "superseded") /\ Release
             /\ UNCHANGED thread
    <2>1. UNCHANGED workerVars
      BY <1>1, <1>3 DEF workerVars
    <2> QED BY <1>1, <1>2, <1>3, <2>1, HeadFails
  <1>4. CASE /\ Head1.kind = "load" /\ Live /\ ReplaceLive
             /\ UNCHANGED <<chain, sup, stage, replies>>
    <2>1. used # 0 /\ used \in Workers
      BY <1>4, TypeFacts DEF Live
    <2>2. Terminate(used) /\ lock' = "wait_exit"
      BY <1>4 DEF ReplaceLive
    <2>3. /\ thread' \in [Workers -> {"none", "alive", "crashed", "dying", "exited"}]
          /\ \A v \in Workers : \/ thread'[v] = thread[v]
                                \/ thread[v] = "alive" /\ thread'[v] = "dying"
      BY <2>1, <2>2, TerminateFacts
    <2>4. Churn
      <3>1. loaded \subseteq Workers /\ ended \subseteq called
        BY DEF IInv, TypeOK, WorkerType, Threads
      <3> QED BY <1>1, <2>3, <3>1 DEF Churn
    <2>5. Locked'
      BY <1>1, <1>2, <1>4, <2>1, <2>2 DEF Locked
    <2>6. UNCHANGED <<mainVars, chain, job, called, ended, opVars>>
      BY <1>1, <1>4 DEF mainVars, opVars
    <2> QED BY <2>2, <2>3, <2>4, <2>5, <2>6, OnlyThreads
  <1>5. CASE /\ Head1.kind = "uninstall" /\ Answer(Head1.op, "failed") /\ Release
             /\ UNCHANGED <<sup, thread>>
    <2>1. UNCHANGED workerVars /\ UNCHANGED mainVars
      BY <1>1, <1>5 DEF workerVars, mainVars
    <2> QED BY <1>1, <1>2, <1>5, <2>1, HeadAnswered
  <1>6. CASE /\ IF Head1.kind = "uninstall" THEN ~Busy ELSE ~Live
             /\ lock' = "wait_settled"
             /\ UNCHANGED <<chain, sup, stage, replies, thread>>
    <2>1. UNCHANGED <<mainVars, chain, used, job, workerVars, opVars>>
      BY <1>1, <1>6 DEF workerVars, mainVars, opVars
    <2>2. Busy' <=> Busy
      BY <1>1, <1>6 DEF Busy, Live
    <2>3. Locked'
      BY <1>1, <1>2, <1>6, <2>2 DEF Locked
    <2> QED BY <1>6, <2>1, <2>3, LockMoves
  <1> QED BY <1>3, <1>4, <1>5, <1>6 DEF StartJob

\* The module throws, exits, or is ended by a limit.
LEMMA CrashStep ==
  ASSUME IInv, NEW w \in Workers, Crash(w)
  PROVE  IInv'
  <1>1. UNCHANGED <<mainVars, lockVars, loaded, called, ended, unloading, settled, opVars>>
    BY DEF Crash
  <1>2. PICK t \in {"crashed", "dying"} : thread' = [thread EXCEPT ![w] = t]
    BY DEF Crash
  <1>3. thread \in [Workers -> {"none", "alive", "crashed", "dying", "exited"}]
        /\ thread[w] = "alive" /\ loaded \subseteq Workers /\ ended \subseteq called
    BY DEF IInv, TypeOK, WorkerType, Threads, Crash
  <1>4. Churn
    BY <1>1, <1>2, <1>3 DEF Churn, lockVars
  <1>5. \A v \in Workers : thread'[v] = "exited" => thread[v] = "exited"
    BY <1>2, <1>3
  <1>6. UNCHANGED <<chain, lock, used, job, modules, sup, settled>>
    BY <1>1 DEF lockVars, mainVars
  <1>7. Locked'
    <2>1. Busy' => Busy
      BY <1>4, <1>6, LiveKept DEF Busy
    <2> QED BY <1>6, <2>1, LockKept
  <1>8. lock' \in {"idle", "wait_exit", "wait_settled", "walk", "delete"}
    BY <1>6 DEF IInv, TypeOK, LockType
  <1> QED BY <1>1, <1>4, <1>5, <1>6, <1>7, <1>8, OnlyThreads

\* A worker whose spawn is about to call back.
LEMMA CallsBackFacts ==
  ASSUME IInv, NEW w \in Running \ called
  PROVE  w \in Workers /\ w = used /\ Spawning /\ Busy /\ modules = 0 /\ NoUnload
  <1>1. w \in Workers /\ thread[w] \in {"alive", "crashed", "dying"} /\ w \notin called
    BY DEF Running
  <1>2. w = used /\ used # 0 /\ Busy
    BY <1>1, RunningFacts
  <1>3. modules = 0
    BY <1>1, <1>2 DEF IInv, Registered
  <1>4. NoUnload
    BY <1>1, <1>2 DEF IInv, Unloading, NoUnload
  <1> QED BY <1>1, <1>2, <1>3, <1>4 DEF Spawning

\* The spawn of the last worker is over, and the worker is not left running.
LEMMA SpawnOver ==
  ASSUME IInv, Spawning, Busy, modules = 0, modules' = 0, UNCHANGED lockVars,
         NEW x, Answered(x), x \in Ops => x = job[used].op,
         UNCHANGED <<unloading, settled, loaded>>, called' = called \cup {used},
         ended' = ended \/ ended' = ended \cup {used},
         thread' \in [Workers -> {"none", "alive", "crashed", "dying", "exited"}],
         thread'[used] # "alive",
         \A v \in Workers : \/ thread'[v] = thread[v]
                            \/ /\ v = used /\ thread[v] \in {"alive", "crashed", "dying"}
                               /\ thread'[v] \in {"crashed", "dying", "exited"},
         (sup' = sup /\ ~Wanted(job[used]))
         \/ (sup' \in Records /\ Accounted(sup') /\ Wanted(job[used]))
  PROVE  IInv'
  <1>1. UNCHANGED <<chain, lock, used, job>>
    BY DEF lockVars
  <1>2. used \in Workers /\ used \notin called /\ used # 0
    BY SpawningFacts DEF Spawning
  <1>3. Churn
    <2>1. loaded \subseteq Workers /\ ended \subseteq called
      BY DEF IInv, TypeOK, WorkerType, Threads
    <2> QED BY <1>1, <2>1 DEF Churn
  <1>4. Over(x)
    BY <1>1 DEF Over
  <1>5. (~quiet /\ NoUnload) \/ ~Wanted(job[used])
    BY WantedFacts
  <1>6. Informed
    BY <1>1, <1>5 DEF Informed
  <1>7. NoUnload
    BY <1>2 DEF IInv, Unloading, NoUnload
  <1>8. \A o \in Ops : stage'[o] # "unloading"
    BY <1>7 DEF NoUnload, Answered
  <1>9. modules' \in 0 .. MaxWorkers
        /\ lock' \in {"idle", "wait_exit", "wait_settled", "walk", "delete"}
    BY <1>1, TypeFacts DEF IInv, TypeOK, LockType
  <1>10. Turn(x)
    BY <1>3, <1>4, <1>6, <1>8, <1>9 DEF Turn
  <1>11. Registered'
    <2>1. dropped' = dropped
      BY DEF Answered
    <2> QED BY <1>3, <2>1, RegisteredKept
  <1>12. Locked'
    BY <1>1, LockKept
  <1> QED BY <1>10, <1>11, <1>12, TurnKeeps DEF IInv

\* A spawn that calls back with an error.
LEMMA SpawnErrsStep ==
  ASSUME IInv, NEW w \in Workers, SpawnErrs(w)
  PROVE  IInv'
  <1>1. w \in Running \ called /\ called' = called \cup {w}
        /\ UNCHANGED <<lockVars, ended, unloading, settled, loaded, modules>>
        /\ UNCHANGED <<asked, kind, target, quiet, dropped>>
        /\ Terminate(w) /\ SpawnFails(job[w], "failed")
    BY DEF SpawnErrs, CallsBack
  <1>2. w = used /\ Spawning /\ Busy /\ modules = 0
    BY <1>1, CallsBackFacts
  <1>3. /\ thread' \in [Workers -> {"none", "alive", "crashed", "dying", "exited"}]
        /\ thread'[w] # "alive"
        /\ \A v \in Workers : \/ thread'[v] = thread[v]
                              \/ thread[v] = "alive" /\ thread'[v] = "dying"
    BY <1>1, TerminateFacts
  <1>4. \A v \in Workers : thread[v] = "alive" => v = used
    BY RunningFacts
  <1>5. job[used] \in Jobs /\ JobOk(job[used]) /\ job[used].kind # "uninstall"
    BY <1>2, SpawningFacts
  <1>6. /\ Answered(job[used].op)
        /\ (sup' = sup /\ ~Wanted(job[used]))
           \/ (sup' \in Records /\ Accounted(sup') /\ Wanted(job[used]))
    <2>1. SpawnFails(job[used], "failed")
      BY <1>1, <1>2
    <2> QED BY <1>1, <1>5, <2>1, SpawnFailsTurn
  <1>7. \A v \in Workers : \/ thread'[v] = thread[v]
                           \/ /\ v = used /\ thread[v] \in {"alive", "crashed", "dying"}
                              /\ thread'[v] \in {"crashed", "dying", "exited"}
    BY <1>3, <1>4
  <1> QED BY <1>1, <1>2, <1>3, <1>6, <1>7, SpawnOver

\* The module is loaded, and the worker is registered or stands down.
LEMMA LoadReplyStep ==
  ASSUME IInv, NEW w \in Workers, LoadReply(w)
  PROVE  IInv'
  <1>1. w \in Running \ called /\ called' = called \cup {w}
        /\ UNCHANGED <<lockVars, ended, unloading, settled>>
        /\ UNCHANGED <<asked, kind, target, quiet, dropped>>
    BY DEF LoadReply, CallsBack
  <1>2. w = used /\ Spawning /\ Busy /\ modules = 0 /\ NoUnload
    BY <1>1, CallsBackFacts
  <1>3. \A v \in Workers : thread[v] = "alive" => v = used
    BY RunningFacts
  <1>4. job[used] \in Jobs /\ JobOk(job[used]) /\ job[used].kind \in {"load", "supervised"}
    BY <1>2, SpawningFacts DEF JobOk, JobFor
  <1>5. CASE job[w].stale /\ StandDown(w) /\ UNCHANGED <<modules, sup, loaded, replies, stage>>
    <2>1. /\ thread' \in [Workers -> {"none", "alive", "crashed", "dying", "exited"}]
          /\ thread'[w] # "alive"
          /\ \A v \in Workers : \/ thread'[v] = thread[v]
                                \/ thread[v] = "alive" /\ thread'[v] = "dying"
      BY <1>5, TerminateFacts DEF StandDown
    <2>2. Answered(0) /\ 0 \notin Ops
      BY <1>1, <1>5, NoAnswer, TypeFacts
    <2>3. ~Wanted(job[used])
      BY <1>2, <1>5 DEF Wanted
    <2>4. \A v \in Workers : \/ thread'[v] = thread[v]
                             \/ /\ v = used /\ thread[v] \in {"alive", "crashed", "dying"}
                                /\ thread'[v] \in {"crashed", "dying", "exited"}
      BY <1>3, <2>1
    <2> QED BY <1>1, <1>2, <1>5, <2>1, <2>2, <2>3, <2>4, SpawnOver
  <1>6. CASE /\ ~job[w].stale /\ loaded' = loaded \cup {w} /\ sup' = Tracked(sup) /\ modules' = w
             /\ IF modules = 0 THEN UNCHANGED thread ELSE Terminate(modules)
             /\ IF job[w].kind = "load"
                THEN Answer(job[w].op, "ok")
                ELSE UNCHANGED <<replies, stage>>
    <2>1. UNCHANGED <<chain, lock, used, job, settled, unloading, thread>>
      BY <1>1, <1>2, <1>6 DEF lockVars
    <2>2. used \in Workers /\ used \notin called /\ used # 0
      BY <1>2, SpawningFacts DEF Spawning
    <2>3. PICK x \in {0, job[used].op} : Answered(x) /\ (x \in Ops => x = job[used].op)
      <3>1. CASE job[used].kind = "load"
        <4>1. job[used].op \in Ops /\ stage[job[used].op] = "spawning"
          BY <1>4, <3>1 DEF JobOk, JobFor
        <4>2. Answer(job[used].op, "ok")
          BY <1>2, <1>6, <3>1
        <4>3. Answered(job[used].op)
          BY <1>1, <4>1, <4>2, AnswerTurn
        <4> QED BY <4>3
      <3>2. CASE job[used].kind = "supervised"
        <4>1. UNCHANGED <<replies, stage>>
          BY <1>2, <1>6, <3>2
        <4>2. Answered(0) /\ 0 \notin Ops
          BY <1>1, <4>1, NoAnswer, TypeFacts
        <4> QED BY <4>2
      <3> QED BY <1>4, <3>1, <3>2
    <2>4. Churn
      <3>1. /\ loaded \subseteq Workers /\ ended \subseteq called
            /\ thread \in [Workers -> {"none", "alive", "crashed", "dying", "exited"}]
        BY DEF IInv, TypeOK, WorkerType, Threads
      <3> QED BY <1>1, <1>2, <1>6, <2>1, <3>1 DEF Churn
    <2>5. Over(x)
      BY <1>1, <1>2, <2>1, <2>3 DEF Over
    <2>6. sup' \in Records /\ Accounted(sup')
      BY <1>6, TypeFacts DEF Tracked, Records, Accounted
    <2>7. ~quiet
      <3>1. CASE job[used].kind = "load"
        <4>1. /\ job[used].op \in Ops /\ stage[job[used].op] \in Open
              /\ kind[job[used].op] \in {"load", "restart"}
          BY <1>4, <3>1 DEF JobOk, JobFor, Open
        <4> QED BY <4>1 DEF IInv, Supervised
      <3>2. CASE job[used].kind = "supervised"
        BY <1>2, <1>6, <3>2, WantedFacts DEF Wanted
      <3> QED BY <1>4, <3>1, <3>2
    <2>8. Informed
      BY <1>2, <2>6, <2>7 DEF Informed
    <2>9. modules' \in 0 .. MaxWorkers
          /\ lock' \in {"idle", "wait_exit", "wait_settled", "walk", "delete"}
      BY <1>2, <1>6, <2>1, TypeFacts DEF IInv, TypeOK, LockType
    <2>10. Turn(x)
      BY <2>1, <2>3, <2>4, <2>5, <2>7, <2>8, <2>9 DEF Turn
    <2>11. Registered'
      <3>1. used \notin ended /\ used \notin unloading
        BY <2>2 DEF IInv, Threads
      <3>2. thread[used] # "exited"
        BY <1>1, <1>2 DEF Running
      <3>3. NoOrphan'
        BY <1>2, <1>3, <1>6, <2>1 DEF NoOrphan
      <3> QED BY <1>1, <1>2, <1>6, <2>1, <3>1, <3>2, <3>3 DEF Registered
    <2>12. Locked'
      BY <1>2, <2>1, LockKept
    <2> QED BY <2>10, <2>11, <2>12, TurnKeeps DEF IInv
  <1> QED BY <1>5, <1>6 DEF LoadReply

\* Whatever worker is registered goes, and the last one is not left running.
LEMMA UnloadStep ==
  ASSUME IInv, Churn, Answered(0), modules' = 0,
         UNCHANGED <<chain, lock, job, sup, called>>,
         used # 0, thread'[used] # "alive",
         thread'[used] = "exited" /\ thread[used] # "exited" =>
           \A o \in Ops : target[o] = used => stage'[o] # "unloading"
  PROVE  IInv'
  <1>1. used' = used /\ settled' = settled
    BY DEF Churn
  <1>2. Over(0)
    BY TypeFacts DEF Over
  <1>3. Informed
    BY DEF Informed
  <1>4. modules' \in 0 .. MaxWorkers
        /\ lock' \in {"idle", "wait_exit", "wait_settled", "walk", "delete"}
    BY TypeFacts DEF IInv, TypeOK, LockType
  <1>5. Turn(0)
    BY <1>2, <1>3, <1>4 DEF Turn
  <1>6. Registered'
    <2>1. \A v \in Workers : thread'[v] = "alive" => thread[v] = "alive"
      BY DEF Churn
    <2>2. \A v \in Workers : thread[v] = "alive" => v = used
      BY RunningFacts
    <2> QED BY <2>1, <2>2, RegisteredGone
  <1>7. Locked'
    <2>1. Busy' => Busy
      BY LiveKept DEF Busy
    <2> QED BY <1>1, <2>1, LockKept
  <1> QED BY <1>5, <1>6, <1>7, TurnKeeps DEF IInv

\* finish(): the unloaded worker is terminated.
LEMMA FinishUnloadStep ==
  ASSUME IInv, NEW o \in Ops, FinishUnload(o)
  PROVE  IInv'
  <1>1. stage[o] = "unloading" /\ modules' = 0 /\ Terminate(target[o])
        /\ stage' = [stage EXCEPT ![o] = "ending"]
        /\ UNCHANGED <<sup, lockVars, loaded, called, ended, unloading, settled>>
        /\ UNCHANGED <<asked, kind, target, replies, quiet, dropped>>
    BY DEF FinishUnload
  <1>2. target[o] = used /\ used # 0
    BY <1>1 DEF IInv, Unloading
  <1>3. used \in Workers
    BY <1>2, TypeFacts
  <1>4. UNCHANGED <<chain, lock, used, job, sup, called>>
    BY <1>1 DEF lockVars
  <1>5. /\ thread' \in [Workers -> {"none", "alive", "crashed", "dying", "exited"}]
        /\ thread'[used] # "alive"
        /\ \A v \in Workers : \/ thread'[v] = thread[v]
                              \/ thread[v] = "alive" /\ thread'[v] = "dying"
    BY <1>1, <1>2, <1>3, TerminateFacts
  <1>6. Churn
    <2>1. loaded \subseteq Workers /\ ended \subseteq called
      BY DEF IInv, TypeOK, WorkerType, Threads
    <2> QED BY <1>1, <1>4, <1>5, <2>1 DEF Churn
  <1>7. Answered(0)
    <2>1. OpType /\ 0 \notin Ops
      BY TypeFacts DEF IInv, TypeOK
    <2>2. stage' \in [Ops -> {"none", "unloading", "ending", "spawning", "done"}]
          /\ \A p \in Ops : stage'[p] = IF p = o THEN "ending" ELSE stage[p]
      BY <1>1, <2>1 DEF OpType
    <2> QED BY <1>1, <2>1, <2>2 DEF OpType, Answered
  <1>8. thread'[used] = "exited" => thread[used] = "exited"
    BY <1>3, <1>5
  <1> QED BY <1>1, <1>2, <1>4, <1>5, <1>6, <1>7, <1>8, UnloadStep

\* onUnexpectedExit, at 'error' or at an 'exit' no unload waits for.
LEMMA UnexpectedExitStep ==
  ASSUME IInv, NEW w \in Workers, thread[w] \in {"crashed", "dying"},
         NEW t \in {"dying", "exited"}, thread' = [thread EXCEPT ![w] = t],
         t = "exited" => Unloads(w) = {}, OnUnexpectedExit(w),
         UNCHANGED <<lockVars, loaded, unloading, settled, asked, kind, target, quiet, dropped>>
  PROVE  IInv'
  <1>1. w = used /\ used # 0 /\ Busy
    BY RunningFacts
  <1>2. UNCHANGED <<chain, lock, used, job>>
    BY DEF lockVars
  <1>3. /\ thread' \in [Workers -> {"none", "alive", "crashed", "dying", "exited"}]
        /\ thread'[used] = t
        /\ \A v \in Workers : v # used => thread'[v] = thread[v]
    BY <1>1 DEF IInv, TypeOK, WorkerType
  <1>4. ended' = ended \cup {used} /\ ended \subseteq called /\ loaded \subseteq Workers
    BY <1>1 DEF OnUnexpectedExit, IInv, Threads, TypeOK, WorkerType
  <1>5. CASE /\ w \notin called /\ called' = called \cup {w}
             /\ SpawnFails(job[w], "failed") /\ UNCHANGED modules
    <2>1. Spawning /\ modules = 0
      BY <1>1, <1>5 DEF Spawning, IInv, Registered
    <2>2. job[used] \in Jobs /\ JobOk(job[used]) /\ job[used].kind # "uninstall"
      BY <2>1, SpawningFacts
    <2>3. /\ Answered(job[used].op)
          /\ (sup' = sup /\ ~Wanted(job[used]))
             \/ (sup' \in Records /\ Accounted(sup') /\ Wanted(job[used]))
      <3>1. SpawnFails(job[used], "failed")
        BY <1>1, <1>5
      <3> QED BY <2>2, <3>1, SpawnFailsTurn
    <2>4. \A v \in Workers : \/ thread'[v] = thread[v]
                             \/ /\ v = used /\ thread[v] \in {"alive", "crashed", "dying"}
                                /\ thread'[v] \in {"crashed", "dying", "exited"}
      BY <1>1, <1>3
    <2> QED BY <1>1, <1>3, <1>4, <1>5, <2>1, <2>3, <2>4, SpawnOver
  <1>6. ASSUME w \in called, called' = called, UNCHANGED <<replies, stage>>
        PROVE  /\ Churn /\ Answered(0) /\ Steady /\ Over(0) /\ 0 \notin Ops
               /\ thread'[used] = "exited" => \A o \in Ops : target[o] = used => stage'[o] # "unloading"
               /\ lock' \in {"idle", "wait_exit", "wait_settled", "walk", "delete"}
    <2>1. Churn
      BY <1>1, <1>2, <1>3, <1>4, <1>6 DEF Churn
    <2>2. Answered(0) /\ Steady
      BY <1>6, NoAnswer
    <2>3. Over(0) /\ 0 \notin Ops
      BY <1>2, TypeFacts DEF Over
    <2>4. thread'[used] = "exited" => \A o \in Ops : target[o] = used => stage'[o] # "unloading"
      BY <1>1, <1>3, <1>6 DEF Unloads
    <2> QED BY <1>2, <2>1, <2>2, <2>3, <2>4 DEF IInv, TypeOK, LockType
  <1>7. CASE /\ w \in called /\ modules = w /\ w \notin unloading /\ modules' = 0
             /\ sup' \in Exited(sup) /\ UNCHANGED <<called, replies, stage>>
    <2>1. sup' \in Records /\ Accounted(sup')
      BY <1>7, TypeFacts, ExitedFacts
    <2>2. NoUnload /\ ~quiet
      BY <1>1, <1>7 DEF IInv, Unloading, Supervised, NoUnload
    <2>3. Informed
      BY <2>1, <2>2 DEF Informed
    <2>4. modules' \in 0 .. MaxWorkers
      BY <1>7, TypeFacts
    <2>5. Turn(0)
      BY <1>6, <1>7, <2>2, <2>3, <2>4 DEF Turn
    <2>6. Registered'
      <3>1. \A v \in Workers : thread'[v] # "alive"
        BY <1>3, RunningFacts
      <3> QED BY <1>7, <3>1, RegisteredGone
    <2>7. Locked'
      BY <1>1, <1>2, LockKept
    <2> QED BY <2>5, <2>6, <2>7, TurnKeeps DEF IInv
  <1>8. CASE /\ w \in ended \/ (w \in called /\ (modules # w \/ w \in unloading))
             /\ UNCHANGED <<called, modules, sup, replies, stage>>
    <2>1. w \in called
      BY <1>4, <1>8
    <2>2. Informed
      BY <1>2, <1>8 DEF Informed
    <2>3. modules' \in 0 .. MaxWorkers /\ (quiet => modules' = 0)
      BY <1>8, TypeFacts DEF IInv, Supervised
    <2>4. Turn(0)
      BY <1>6, <1>8, <2>1, <2>2, <2>3 DEF Turn
    <2>5. modules # 0 => used \in unloading /\ thread'[used] # "exited"
      <3>1. modules # 0 => /\ modules = used
                           /\ used \in ended => used \in unloading
                           /\ used \in unloading => Unloads(used) # {}
        BY DEF IInv, Registered
      <3> QED BY <1>1, <1>3, <1>8, <3>1
    <2>6. Unloads(used) # {} => Unloads(used)' # {}
      BY <1>2, <1>6, <1>8, <2>1, SameUnloads
    <2>7. \A v \in Workers : thread'[v] # "alive"
      BY <1>3, RunningFacts
    <2>8. Registered'
      BY <1>6, <1>8, <2>1, <2>5, <2>6, <2>7, RegisteredKept
    <2>9. Locked'
      BY <1>1, <1>2, LockKept
    <2> QED BY <2>4, <2>8, <2>9, TurnKeeps DEF IInv
  <1> QED BY <1>5, <1>7, <1>8 DEF OnUnexpectedExit, StillLoading

\* The 'error' event.
LEMMA ErrorEventStep ==
  ASSUME IInv, NEW w \in Workers, ErrorEvent(w)
  PROVE  IInv'
  BY UnexpectedExitStep DEF ErrorEvent

\* The 'exit' event.
LEMMA ExitEventStep ==
  ASSUME IInv, NEW w \in Workers, ExitEvent(w)
  PROVE  IInv'
  <1>1. thread[w] = "dying" /\ thread' = [thread EXCEPT ![w] = "exited"]
        /\ UNCHANGED <<lockVars, loaded, unloading, settled, asked, kind, target, quiet, dropped>>
    BY DEF ExitEvent
  <1>2. CASE Unloads(w) = {} /\ OnUnexpectedExit(w)
    BY <1>1, <1>2, UnexpectedExitStep
  <1>3. CASE /\ Unloads(w) # {} /\ ended' = ended \cup {w} /\ EndWith(w)
             /\ UNCHANGED <<called, sup, replies>>
    <2>1. w = used /\ used # 0
      BY <1>1, RunningFacts
    <2>2. used \in called
      BY <1>3, <2>1 DEF IInv, Unloading, Unloads
    <2>3. UNCHANGED <<chain, lock, used, job>>
      BY <1>1 DEF lockVars
    <2>4. /\ thread' \in [Workers -> {"none", "alive", "crashed", "dying", "exited"}]
          /\ thread'[used] = "exited"
          /\ \A v \in Workers : v # used => thread'[v] = thread[v]
      BY <1>1, <2>1 DEF IInv, TypeOK, WorkerType
    <2>5. Churn
      <3>1. loaded \subseteq Workers /\ ended \subseteq called
        BY DEF IInv, TypeOK, WorkerType, Threads
      <3> QED BY <1>1, <1>3, <2>1, <2>2, <2>3, <2>4, <3>1 DEF Churn
    <2>6. \A o \in Ops : stage'[o] = IF stage[o] = "unloading" /\ target[o] = used
                                    THEN "ending" ELSE stage[o]
      BY <1>3, <2>1 DEF EndWith, Unloads
    <2>7. Answered(0)
      <3>1. OpType /\ 0 \notin Ops
        BY TypeFacts DEF IInv, TypeOK
      <3>2. stage' \in [Ops -> {"none", "unloading", "ending", "spawning", "done"}]
        BY <1>3, <3>1 DEF EndWith, OpType
      <3> QED BY <1>1, <1>3, <2>6, <3>1, <3>2 DEF OpType, Answered
    <2> QED BY <1>3, <2>1, <2>3, <2>4, <2>5, <2>6, <2>7, UnloadStep DEF EndWith
  <1> QED BY <1>2, <1>3 DEF ExitEvent

\* The file broker of an exited worker settles.
LEMMA SettleStep ==
  ASSUME IInv, ~Pending, NEW w \in Workers, Settle(w)
  PROVE  IInv'
  <1>1. /\ thread[w] = "exited" /\ settled' = settled \cup {w}
        /\ UNCHANGED <<modules, sup, chain, lock, used, job, thread, loaded, called, ended, unloading>>
        /\ UNCHANGED <<asked, kind, stage, target, replies, quiet, dropped>>
    BY DEF Settle, mainVars, lockVars, opVars
  <1>2. TypeOK' /\ Requests' /\ Registered'
    <2>1. OpType' /\ LockType' /\ RegistryType' /\ WorkerType' /\ Requests'
      BY <1>1 DEF IInv, TypeOK, OpType, LockType, RegistryType, WorkerType, Requests
    <2>2. Unloads(used)' = Unloads(used)
      BY <1>1 DEF Unloads
    <2>3. Registered'
      BY <1>1, <2>2 DEF IInv, Registered, NoOrphan
    <2> QED BY <2>1, <2>3 DEF TypeOK
  <1>3. Threads'
    BY <1>1 DEF IInv, Threads
  <1>4. Locked'
    <2>1. Busy' <=> Busy
      BY <1>1 DEF Busy, Live
    <2> QED BY <1>1, <2>1 DEF IInv, Locked
  <1>5. Spawning' <=> Spawning
    BY <1>1 DEF Spawning
  <1>6. Spawns'
    BY <1>1, <1>5 DEF IInv, Spawns, JobOk
  <1>7. Supervised'
    BY <1>1, <1>5 DEF IInv, Supervised, Ahead, Wanted
  <1>8. \A o \in Ops : stage[o] \in {"unloading", "ending"} => w # used
    <2> SUFFICES ASSUME NEW o \in Ops, stage[o] \in {"unloading", "ending"}, w = used
                 PROVE  FALSE
      OBVIOUS
    <2>1. target[o] = used /\ (stage[o] = "unloading" => thread[used] # "exited")
      BY DEF IInv, Unloading
    <2>2. stage[o] = "ending" /\ thread[target[o]] = "exited"
      BY <1>1, <2>1
    <2> QED BY <2>2 DEF Pending
  <1>9. Unloading'
    BY <1>1, <1>8 DEF IInv, Unloading, Wanted
  <1> QED BY <1>2, <1>3, <1>4, <1>6, <1>7, <1>9 DEF IInv

\* A new worker is started: the ones before it have settled.
LEMMA WalkSucceedsStep ==
  ASSUME IInv, WalkSucceeds
  PROVE  IInv'
  <1>1. /\ lock = "walk" /\ used < MaxWorkers /\ used' = used + 1 /\ lock' = "idle"
        /\ chain' = Tail(chain)
        /\ thread' = [thread EXCEPT ![used + 1] = "alive"]
        /\ job' = [job EXCEPT ![used + 1] = Head1]
        /\ UNCHANGED <<modules, sup, loaded, called, ended, unloading, settled>>
        /\ UNCHANGED <<asked, kind, stage, target, replies, quiet, dropped>>
    BY DEF WalkSucceeds, Release, mainVars, opVars
  <1>2. chain # <<>> /\ chain[1].kind \in {"load", "supervised"} /\ (used = 0 \/ used \in settled)
    BY <1>1 DEF IInv, Locked
  <1>3. used \in Nat /\ used + 1 \in Workers /\ \A w \in Workers : w \in Nat
    BY <1>1, TypeFacts DEF Workers
  <1>4. 1 \in DOMAIN chain /\ chain[1] \in Jobs /\ JobOk(chain[1]) /\ Head1 = chain[1]
    BY <1>2, HeadFacts
  <1>5. WorkerType /\ Threads
    BY DEF IInv, TypeOK
  <1>6. ~Spawning /\ used + 1 \notin called /\ thread[used + 1] = "none"
        /\ used + 1 \notin settled
    BY <1>2, <1>3, <1>5 DEF Spawning, Threads, WorkerType
  <1>7. NoUnload /\ modules = 0
    BY <1>2, <1>5 DEF IInv, Unloading, Registered, Threads, NoUnload
  <1>8. /\ thread' \in [Workers -> {"none", "alive", "crashed", "dying", "exited"}]
        /\ thread'[used + 1] = "alive"
        /\ \A w \in Workers : w # used + 1 => thread'[w] = thread[w]
    BY <1>1, <1>3, <1>5 DEF WorkerType
  <1>9. /\ job' \in [Workers -> Jobs] /\ job'[used + 1] = chain[1]
    BY <1>1, <1>3, <1>4, TypeFacts
  <1>10. Threads'
    <2>1. \A w \in Workers : /\ thread'[w] = "none" <=> w > used + 1
                             /\ w < used + 1 => w \in settled
      <3> TAKE w \in Workers
      <3>1. w < used + 1 => w < used \/ w = used
        BY <1>3
      <3>2. w # used + 1 => (w > used <=> w > used + 1)
        BY <1>3
      <3>3. w < used + 1 => w \in settled
        BY <1>2, <1>3, <1>5, <3>1, TypeFacts DEF Threads
      <3>4. CASE w = used + 1
        BY <1>3, <1>8, <3>4
      <3>5. CASE w # used + 1
        BY <1>5, <1>8, <3>2, <3>3, <3>5 DEF Threads
      <3> QED BY <3>3, <3>4, <3>5
    <2>2. \A w \in settled : thread'[w] = "exited"
      BY <1>5, <1>6, <1>8 DEF Threads, WorkerType
    <2>3. \A w \in Workers : thread'[w] = "exited" => w \in called
      BY <1>5, <1>8 DEF Threads
    <2>4. \A w \in called : w <= used + 1
      BY <1>3, <1>5 DEF Threads, WorkerType
    <2> QED BY <1>1, <1>5, <2>1, <2>2, <2>3, <2>4 DEF Threads
  <1>11. /\ chain' \in Seq(Jobs)
         /\ \A i \in DOMAIN chain' : i \in Nat /\ i + 1 \in DOMAIN chain /\ i + 1 # 1
                                     /\ chain'[i] = chain[i + 1]
         /\ \A i \in DOMAIN chain : i # 1 => i - 1 \in DOMAIN chain' /\ chain'[i - 1] = chain[i]
    BY <1>1, <1>2, TypeFacts, TailIndex
  <1>12. TypeOK'
    <2>1. used + 1 \in 0 .. MaxWorkers
      BY <1>1, <1>3, TypeFacts
    <2> QED BY <1>1, <1>8, <1>9, <1>11, <2>1
            DEF IInv, TypeOK, OpType, LockType, RegistryType, WorkerType
  <1>13. Registered'
    <2>1. \A w \in Workers : thread[w] = "alive" => FALSE
      BY <1>2, RunningFacts
    <2>2. \A w \in Workers : thread'[w] = "alive" => w \notin called'
      BY <1>1, <1>6, <1>8, <2>1
    <2> QED BY <1>1, <1>7, <2>2, RegisteredGone
  <1>14. Locked'
    BY <1>1, LockFree
  <1>15. Requests'
    BY <1>1 DEF IInv, Requests
  <1>16. Unloading'
    BY <1>1, <1>7 DEF Unloading, NoUnload
  <1>17. Spawning' /\ used' = used + 1
    BY <1>1, <1>3, <1>6 DEF Spawning
  <1>18. Spawns'
    <2>1. \A i \in DOMAIN chain : JobFor(chain[i], stage', kind')
      BY <1>1 DEF IInv, Spawns, JobOk
    <2>2. \A i, j \in DOMAIN chain : i # j /\ chain[i].op # 0 => chain[i].op # chain[j].op
      BY DEF IInv, Spawns
    <2>3. \A i \in DOMAIN chain' : JobFor(chain'[i], stage', kind')
      BY <1>11, <2>1
    <2>4. \A i, j \in DOMAIN chain' : i # j => i + 1 # j + 1
      BY <1>11
    <2>5. \A i, j \in DOMAIN chain' : i # j /\ chain'[i].op # 0 => chain'[i].op # chain'[j].op
      BY <1>11, <2>2, <2>4
    <2>6. \A i \in DOMAIN chain' : chain'[i].op # 0 => chain'[i].op # chain[1].op
      BY <1>4, <1>11, <2>2
    <2>7. JobFor(chain[1], stage', kind') /\ chain[1].kind # "uninstall"
      BY <1>2, <1>4, <2>1
    <2> QED BY <1>9, <1>17, <2>3, <2>5, <2>6, <2>7 DEF Spawns, JobOk
  <1>19. Supervised'
    <2>1. sup'.state = "none" => ~sup'.timer
      BY <1>1 DEF IInv, Supervised
    <2>2. ASSUME sup.state = "restarting", ~sup.timer
          PROVE  (\E i \in DOMAIN chain' : Wanted(chain'[i])) \/ Wanted(job'[used + 1])
      <3>1. PICK i \in DOMAIN chain : Wanted(chain[i])
        BY <1>6, <2>2 DEF IInv, Supervised, Ahead
      <3>2. CASE i = 1
        BY <1>9, <3>1, <3>2
      <3>3. CASE i # 1
        BY <1>11, <3>1, <3>3
      <3> QED BY <3>2, <3>3
    <2>3. Ahead'
      BY <1>1, <1>17, <2>2 DEF Ahead, Wanted
    <2>4. ASSUME quiet
          PROVE  /\ modules' = 0 /\ sup'.state = "none"
                 /\ \A o \in Ops : stage'[o] \in Open => kind'[o] \notin {"load", "restart"}
                 /\ \A i \in DOMAIN chain' : ~Wanted(chain'[i])
                 /\ ~Wanted(job'[used + 1])
      BY <1>1, <1>4, <1>9, <1>11, <2>4 DEF IInv, Supervised
    <2> QED BY <1>1, <1>17, <2>1, <2>3, <2>4 DEF Supervised, Wanted
  <1> QED BY <1>10, <1>12, <1>13, <1>14, <1>15, <1>16, <1>18, <1>19 DEF IInv

(***************************************************************************)
(* The queue grows: the supervisor's timer, and operator requests.         *)
(***************************************************************************)

\* The queue as it was but for what is out of date, and a job joining it.
LEMMA AppendFollows ==
  ASSUME IInv, NEW q, Follows(q), NEW j \in Jobs
  PROVE  /\ Append(q, j) \in Seq(Jobs) /\ Append(q, j) # <<>>
         /\ Len(q) + 1 \in DOMAIN Append(q, j) /\ Append(q, j)[Len(q) + 1] = j
         /\ \A i \in DOMAIN Append(q, j) :
              \/ i = Len(q) + 1 /\ i \notin DOMAIN chain
              \/ /\ i \in DOMAIN chain /\ Append(q, j)[i] = q[i] /\ q[i].kind = chain[i].kind
                 /\ q[i].op = chain[i].op /\ (Wanted(q[i]) => Wanted(chain[i]))
         /\ \A i \in DOMAIN chain : i \in DOMAIN Append(q, j) /\ Append(q, j)[i] = q[i]
         /\ chain # <<>> => 1 \in DOMAIN chain /\ Append(q, j)[1].kind = chain[1].kind
  <1>1. /\ q \in Seq(Jobs) /\ DOMAIN q = DOMAIN chain /\ (q = <<>> <=> chain = <<>>)
        /\ \A i \in DOMAIN chain : /\ q[i].kind = chain[i].kind /\ q[i].op = chain[i].op
                                   /\ Wanted(q[i]) => Wanted(chain[i])
    BY DEF Follows
  <1>2. /\ Append(q, j) \in Seq(Jobs)
        /\ Len(q) + 1 \notin DOMAIN q /\ Append(q, j)[Len(q) + 1] = j
        /\ DOMAIN Append(q, j) = DOMAIN q \cup {Len(q) + 1}
        /\ \A i \in DOMAIN q : Append(q, j)[i] = q[i]
        /\ q # <<>> => 1 \in DOMAIN q /\ Append(q, j)[1] = q[1]
        /\ Append(q, j) # <<>>
    BY <1>1, AppendIndex
  <1> QED BY <1>1, <1>2

\* The jobs under way are still waited for.
JobsKept ==
  /\ UNCHANGED <<used, called>>
  /\ \A w \in Workers : job'[w].kind = job[w].kind /\ job'[w].op = job[w].op
  /\ \A p \in Ops : stage[p] = "spawning" => stage'[p] = "spawning" /\ kind'[p] = kind[p]

\* One job fits as the other did.
LEMMA SameJob ==
  ASSUME IInv, JobsKept, NEW j, JobOk(j), NEW k, k.kind = j.kind, k.op = j.op
  PROVE  JobFor(k, stage', kind')
  BY DEF JobsKept, JobOk, JobFor

\* The queue keeps its jobs.
LEMMA SpawnsFollow ==
  ASSUME IInv, JobsKept, NEW q, Follows(q), chain' = q
  PROVE  Spawns'
  <1>1. Spawns
    BY DEF IInv
  <1>2. /\ DOMAIN q = DOMAIN chain
        /\ \A i \in DOMAIN chain : q[i].kind = chain[i].kind /\ q[i].op = chain[i].op
    BY DEF Follows
  <1>3. \A i \in DOMAIN q : JobFor(q[i], stage', kind')
    BY <1>1, <1>2, SameJob DEF Spawns
  <1>4. \A i, j \in DOMAIN q : i # j /\ q[i].op # 0 => q[i].op # q[j].op
    BY <1>1, <1>2 DEF Spawns
  <1>5. ASSUME Spawning
        PROVE  /\ JobFor(job'[used], stage', kind') /\ job'[used].kind # "uninstall"
               /\ \A i \in DOMAIN q : q[i].op # 0 => q[i].op # job'[used].op
    <2>1. used \in Workers /\ job'[used].kind = job[used].kind /\ job'[used].op = job[used].op
      BY <1>5, SpawningFacts DEF JobsKept
    <2> QED BY <1>1, <1>2, <1>5, <2>1, SameJob DEF Spawns
  <1>6. used' = used /\ (Spawning' <=> Spawning)
    BY DEF JobsKept, Spawning
  <1> QED BY <1>3, <1>4, <1>5, <1>6 DEF Spawns, JobOk

\* A job of a request that had none joins the queue.
LEMMA SpawnsAppend ==
  ASSUME IInv, JobsKept, NEW q, Follows(q), NEW n \in Jobs, chain' = Append(q, n),
         JobFor(n, stage', kind'), n.op # 0 => stage[n.op] # "spawning"
  PROVE  Spawns'
  <1>1. Spawns
    BY DEF IInv
  <1>2. \A i \in DOMAIN chain' :
          \/ i \notin DOMAIN chain /\ i = Len(q) + 1 /\ chain'[i] = n
          \/ i \in DOMAIN chain /\ chain'[i].kind = chain[i].kind /\ chain'[i].op = chain[i].op
    BY AppendFollows
  <1>3. \A i \in DOMAIN chain : chain[i].op # 0 => chain[i].op # n.op
    BY <1>1 DEF Spawns, JobOk, JobFor
  <1>4. \A i \in DOMAIN chain' : JobFor(chain'[i], stage', kind')
    BY <1>1, <1>2, SameJob DEF Spawns
  <1>5. \A i, j \in DOMAIN chain' : i # j /\ chain'[i].op # 0 => chain'[i].op # chain'[j].op
    <2> SUFFICES ASSUME NEW i \in DOMAIN chain', NEW j \in DOMAIN chain', i # j, chain'[i].op # 0
                 PROVE  chain'[i].op # chain'[j].op
      OBVIOUS
    <2>1. CASE i \in DOMAIN chain /\ j \in DOMAIN chain
      BY <1>1, <1>2, <2>1 DEF Spawns
    <2>2. CASE i \in DOMAIN chain /\ j \notin DOMAIN chain
      BY <1>2, <1>3, <2>2
    <2>3. CASE i \notin DOMAIN chain /\ j \in DOMAIN chain
      BY <1>2, <1>3, <2>3
    <2>4. CASE i \notin DOMAIN chain /\ j \notin DOMAIN chain
      BY <1>2, <2>4
    <2> QED BY <2>1, <2>2, <2>3, <2>4
  <1>6. ASSUME Spawning
        PROVE  /\ JobFor(job'[used], stage', kind') /\ job'[used].kind # "uninstall"
               /\ \A i \in DOMAIN chain' : chain'[i].op # 0 => chain'[i].op # job'[used].op
    <2>1. used \in Workers /\ job'[used].kind = job[used].kind /\ job'[used].op = job[used].op
      BY <1>6, SpawningFacts DEF JobsKept
    <2>2. JobOk(job[used]) /\ job[used].kind # "uninstall"
          /\ \A i \in DOMAIN chain : chain[i].op # 0 => chain[i].op # job[used].op
      BY <1>1, <1>6 DEF Spawns
    <2>3. n.op # 0 => n.op # job[used].op
      BY <2>2 DEF JobOk, JobFor
    <2> QED BY <1>2, <2>1, <2>2, <2>3, SameJob
  <1>7. used' = used /\ (Spawning' <=> Spawning)
    BY DEF JobsKept, Spawning
  <1> QED BY <1>4, <1>5, <1>6, <1>7 DEF Spawns, JobOk

\* Who holds the lock keeps it, and what it has seen.
LEMMA LockFollows ==
  ASSUME IInv, UNCHANGED <<lock, used, settled>>, Busy' => Busy,
         chain # <<>> => chain' # <<>> /\ chain'[1].kind = chain[1].kind
  PROVE  Locked'
  BY DEF IInv, Locked

\* The supervisor's record alone changes.
LEMMA RecordStep ==
  ASSUME IInv, sup' \in Records, Accounted(sup'), ~quiet, NoUnload, sup.state # "none",
         UNCHANGED <<modules, chain, lock, used, job, workerVars, opVars>>
  PROVE  IInv'
  <1>1. /\ UNCHANGED <<used, settled, unloading, thread, called, loaded, ended>>
        /\ UNCHANGED <<stage, replies, asked, kind, target, quiet, dropped>>
    BY DEF workerVars, opVars
  <1>2. Churn
    BY <1>1, NoChurn
  <1>3. Answered(0) /\ Steady
    BY <1>1, NoAnswer
  <1>4. Over(0) /\ Informed
    BY <1>1, TypeFacts DEF Over, Informed
  <1>5. Turn(0)
    BY <1>1, <1>2, <1>3, <1>4, TypeFacts DEF Turn, IInv, TypeOK, LockType
  <1>6. Registered'
    BY <1>1, <1>3, QuietRegistered
  <1>7. Locked'
    BY <1>1, LockKept DEF Busy
  <1> QED BY <1>5, <1>6, <1>7, TurnKeeps DEF IInv

\* The backoff timer.
LEMMA RestartTimerStep ==
  ASSUME IInv, RestartTimer
  PROVE  IInv'
  <1>1. /\ sup.timer /\ UNCHANGED <<modules, lock, used, job, workerVars, opVars>>
        /\ UNCHANGED <<used, settled, unloading, thread, called, loaded, ended>>
        /\ UNCHANGED <<stage, replies, asked, kind, target, quiet, dropped>>
    BY DEF RestartTimer, workerVars, opVars
  <1>2. sup \in Records /\ sup.state # "none"
    BY <1>1, TypeFacts DEF IInv, Supervised
  <1>3. ~quiet /\ NoUnload
    BY <1>2 DEF IInv, Supervised, Unloading, NoUnload
  <1>4. CASE sup' = [sup EXCEPT !.timer = FALSE] /\ chain' = Append(chain, Job("supervised", 0))
             /\ sup.state = "restarting"
    <2> DEFINE n == Job("supervised", 0)
    <2>1. n \in Jobs /\ n.kind = "supervised" /\ n.op = 0 /\ ~n.stale
      BY JobFacts, TypeFacts
    <2>2. sup' \in Records /\ sup'.state = "restarting"
      BY <1>2, <1>4 DEF Records
    <2> HIDE DEF n
    <2>3. Follows(chain)
      BY TypeFacts DEF Follows
    <2>4. /\ chain' \in Seq(Jobs) /\ Len(chain) + 1 \in DOMAIN chain' /\ chain'[Len(chain) + 1] = n
          /\ chain' # <<>> /\ (chain # <<>> => chain'[1].kind = chain[1].kind)
      BY <1>4, <2>1, <2>3, AppendFollows DEF n
    <2>5. Spawns'
      <3>1. JobsKept
        BY <1>1 DEF JobsKept
      <3>2. JobFor(n, stage', kind')
        BY <2>1 DEF JobFor
      <3> QED BY <1>4, <2>1, <2>3, <3>1, <3>2, SpawnsAppend DEF n
    <2>6. Locked'
      BY <1>1, <1>2, <2>4, LockFollows DEF Busy
    <2>7. Churn
      BY <1>1, NoChurn
    <2>8. Answered(0) /\ Steady
      BY <1>1, NoAnswer
    <2>9. Threads' /\ WorkerType' /\ Requests' /\ OpType' /\ Registered'
      BY <1>1, <2>7, <2>8, ThreadsKept, RequestsKept, QuietRegistered
    <2>10. TypeOK'
      BY <1>1, <2>2, <2>4, <2>9 DEF IInv, TypeOK, LockType, RegistryType
    <2>11. Unloading'
      BY <1>1, <1>3 DEF Unloading, NoUnload
    <2>12. Supervised'
      <3>1. Wanted(chain'[Len(chain) + 1])
        BY <2>1, <2>4 DEF Wanted
      <3>2. \E i \in DOMAIN chain' : Wanted(chain'[i])
        BY <2>4, <3>1
      <3>3. Ahead'
        BY <3>2 DEF Ahead, Wanted
      <3> QED BY <1>1, <1>3, <2>2, <3>3 DEF Supervised
    <2> QED BY <2>5, <2>6, <2>9, <2>10, <2>11, <2>12 DEF IInv
  <1>5. CASE /\ \E e \in {"refused", "failed"} : sup' \in RestartFails(Job("supervised", 0), e, sup)
             /\ UNCHANGED chain
    <2>1. Job("supervised", 0).stale = FALSE
      BY DEF Job
    <2>2. sup' \in Records /\ Accounted(sup')
      BY <1>2, <1>5, <2>1, RestartFailsFacts
    <2> QED BY <1>1, <1>2, <1>3, <1>5, <2>2, RecordStep
  <1>6. CASE /\ sup.state # "restarting" /\ sup' = [sup EXCEPT !.timer = FALSE] /\ UNCHANGED chain
    <2>1. sup' \in Records /\ Accounted(sup')
      BY <1>2, <1>6 DEF Records, Accounted
    <2> QED BY <1>1, <1>2, <1>3, <1>6, <2>1, RecordStep
  <1> QED BY <1>4, <1>5, <1>6 DEF RestartTimer

(***************************************************************************)
(* An operator request.  Asked(o, q) says what request o may do when it is *)
(* made, or when the unload it began has ended; q is the queue it finds.   *)
(***************************************************************************)

\* What quiet promises.
Hush ==
  quiet => /\ modules = 0 /\ sup.state = "none"
           /\ \A o \in Ops : stage[o] \in Open => kind[o] \notin {"load", "restart"}
           /\ \A i \in DOMAIN chain : ~Wanted(chain[i])
           /\ Spawning => ~Wanted(job[used])

\* The request joins the queue with a job of kind k.
Joins(o, q, k) ==
  /\ chain' = Append(q, Job(k, o)) /\ stage'[o] = "spawning"
  /\ k = "load" => kind'[o] \in {"load", "restart"}

\* The request has unload-module sent to the registered worker.
Sends(o, q) ==
  /\ modules # 0 /\ modules' = modules /\ unloading' = unloading \cup {modules}
  /\ target'[o] = modules /\ stage'[o] = "unloading"
  /\ kind'[o] \in {"load", "restart", "unload"}
  /\ q = StaleChain /\ Clear /\ chain' = q

Asked(o, q) ==
  /\ UNCHANGED <<lock, used, thread, loaded, called, ended, settled>>
  /\ Touch(q)
  /\ (asked' = asked /\ stage[o] = "ending") \/ (o = asked + 1 /\ asked' = o)
  /\ kind' \in [Ops -> OpKinds \cup {"none"}] /\ target' \in [Ops -> 0 .. MaxWorkers]
  /\ stage' \in [Ops -> {"none", "unloading", "ending", "spawning", "done"}]
  /\ replies' \in [Ops -> Seq({"ok", "failed"})]
  /\ \A p \in Ops \ {o} : /\ kind'[p] = kind[p] /\ target'[p] = target[p]
                          /\ stage'[p] = stage[p] /\ replies'[p] = replies[p]
  /\ \/ /\ stage'[o] = "done" /\ Len(replies'[o]) = Len(replies[o]) + 1
        /\ chain' = q /\ unloading' = unloading
     \/ /\ replies'[o] = replies[o] /\ unloading' = unloading
        /\ Joins(o, q, "load") \/ Joins(o, q, "uninstall")
     \/ replies'[o] = replies[o] /\ Sends(o, q)
  /\ \/ UNCHANGED <<modules, dropped>>
     \/ modules' = 0 /\ dropped' = dropped \cup (Workers \cap {modules})
  /\ quiet' \in BOOLEAN /\ Hush'

\* The request was not waiting for a job.
LEMMA AskedFacts ==
  ASSUME IInv, NEW o \in Ops, NEW q, Asked(o, q)
  PROVE  /\ stage[o] \in {"none", "ending"} /\ Len(replies[o]) = 0 /\ o # 0 /\ o \in 0 .. MaxOps
         /\ Requests' /\ OpType' /\ JobsKept /\ Follows(q) /\ job' \in [Workers -> Jobs]
  <1>1. OpType /\ Requests /\ Ops = 1 .. MaxOps /\ asked \in Nat /\ MaxOps \in Nat
    BY TypeFacts DEF IInv, TypeOK
  <1>2. stage[o] \in {"none", "ending"}
    BY <1>1 DEF Asked, Requests
  <1>3. Len(replies[o]) = 0
    BY <1>1, <1>2 DEF Requests
  <1>4. \A p \in Ops : stage'[p] = "none" <=> p > asked'
    <2> TAKE p \in Ops
    <2>1. CASE p = o
      BY <1>1, <1>2, <2>1 DEF Asked, Requests, Joins, Sends
    <2>2. CASE p # o
      <3>1. stage'[p] = stage[p] /\ (stage[p] = "none" <=> p > asked)
        BY <1>1, <2>2 DEF Asked, Requests
      <3>2. p > asked <=> p > asked'
        BY <1>1, <2>2 DEF Asked
      <3> QED BY <3>1, <3>2
    <2> QED BY <2>1, <2>2
  <1>5. \A p \in Ops : Len(replies'[p]) = IF stage'[p] = "done" THEN 1 ELSE 0
    <2> TAKE p \in Ops
    <2>1. CASE p = o /\ stage'[o] = "done" /\ Len(replies'[o]) = Len(replies[o]) + 1
      BY <1>3, <2>1
    <2>2. CASE p = o /\ replies'[o] = replies[o] /\ stage'[o] # "done"
      BY <1>3, <2>2
    <2>3. CASE p # o
      <3>1. stage'[p] = stage[p] /\ replies'[p] = replies[p]
        BY <2>3 DEF Asked
      <3> QED BY <1>1, <3>1 DEF Requests
    <2> QED BY <2>1, <2>2, <2>3 DEF Asked, Joins, Sends
  <1>6. asked' \in 0 .. MaxOps
    BY <1>1 DEF Asked, OpType
  <1>7. dropped' \subseteq Workers
    BY <1>1 DEF Asked, OpType
  <1>8. OpType'
    BY <1>6, <1>7 DEF Asked, OpType
  <1>9. /\ Follows(q) /\ job' \in [Workers -> Jobs]
        /\ \A w \in Workers : job'[w].kind = job[w].kind /\ job'[w].op = job[w].op
    BY TouchFacts DEF Asked
  <1>10. JobsKept
    BY <1>2, <1>9 DEF JobsKept, Asked
  <1> QED BY <1>1, <1>2, <1>3, <1>4, <1>5, <1>8, <1>9, <1>10 DEF Requests

\* The queue after the request.
LEMMA AskedQueue ==
  ASSUME IInv, NEW o \in Ops, NEW q, Asked(o, q)
  PROVE  /\ Spawns' /\ chain' \in Seq(Jobs)
         /\ chain # <<>> => chain' # <<>> /\ chain'[1].kind = chain[1].kind
         /\ \A i \in DOMAIN chain' : Wanted(chain'[i]) => i \in DOMAIN chain /\ Wanted(chain[i])
                                                          /\ Wanted(q[i])
         /\ \A i \in DOMAIN chain : i \in DOMAIN chain' /\ chain'[i] = q[i]
  <1>1. /\ stage[o] \in {"none", "ending"} /\ o # 0 /\ o \in 0 .. MaxOps
        /\ JobsKept /\ Follows(q)
    BY AskedFacts
  <1>2. CASE chain' = q
    <2>1. Spawns'
      BY <1>1, <1>2, SpawnsFollow
    <2>2. chain # <<>> => 1 \in DOMAIN chain
      BY TypeFacts, TailIndex
    <2> QED BY <1>1, <1>2, <2>1, <2>2 DEF Follows
  <1>3. ASSUME NEW k \in {"load", "uninstall"}, Joins(o, q, k)
        PROVE  /\ Spawns' /\ chain' \in Seq(Jobs)
               /\ chain # <<>> => chain' # <<>> /\ chain'[1].kind = chain[1].kind
               /\ \A i \in DOMAIN chain' :
                    Wanted(chain'[i]) => i \in DOMAIN chain /\ Wanted(chain[i]) /\ Wanted(q[i])
               /\ \A i \in DOMAIN chain : i \in DOMAIN chain' /\ chain'[i] = q[i]
    <2> DEFINE n == Job(k, o)
    <2>1. n \in Jobs /\ n.kind = k /\ n.op = o
      BY <1>1, JobFacts
    <2> HIDE DEF n
    <2>2. chain' = Append(q, n) /\ stage'[o] = "spawning"
          /\ (k = "load" => kind'[o] \in {"load", "restart"})
      BY <1>3 DEF Joins, n
    <2>3. JobFor(n, stage', kind')
      BY <2>1, <2>2 DEF JobFor
    <2>4. n.op # 0 => stage[n.op] # "spawning"
      BY <1>1, <2>1
    <2>5. Spawns'
      BY <1>1, <2>1, <2>2, <2>3, <2>4, SpawnsAppend
    <2>6. ~Wanted(n)
      BY <2>1 DEF Wanted
    <2>7. /\ chain' \in Seq(Jobs) /\ chain' # <<>> /\ chain'[Len(q) + 1] = n
          /\ \A i \in DOMAIN chain' :
               \/ i = Len(q) + 1
               \/ /\ i \in DOMAIN chain /\ chain'[i] = q[i] /\ (Wanted(q[i]) => Wanted(chain[i]))
          /\ \A i \in DOMAIN chain : i \in DOMAIN chain' /\ chain'[i] = q[i]
          /\ chain # <<>> => chain'[1].kind = chain[1].kind
      BY <1>1, <2>1, <2>2, AppendFollows
    <2> QED BY <2>5, <2>6, <2>7
  <1> QED BY <1>2, <1>3 DEF Asked, Sends

\* Whatever the request, every part of the invariant is kept.
LEMMA AskedKeeps ==
  ASSUME IInv, NEW o \in Ops, NEW q, Asked(o, q)
  PROVE  IInv'
  <1>1. /\ stage[o] \in {"none", "ending"} /\ Requests' /\ OpType' /\ job' \in [Workers -> Jobs]
    BY AskedFacts
  <1>2. /\ Spawns' /\ chain' \in Seq(Jobs)
        /\ chain # <<>> => chain' # <<>> /\ chain'[1].kind = chain[1].kind
        /\ \A i \in DOMAIN chain' : Wanted(chain'[i]) => i \in DOMAIN chain /\ Wanted(chain[i])
                                                         /\ Wanted(q[i])
        /\ \A i \in DOMAIN chain : i \in DOMAIN chain' /\ chain'[i] = q[i]
    BY AskedQueue
  <1>3. UNCHANGED <<lock, used, thread, loaded, called, ended, settled>>
    BY DEF Asked
  <1>4. /\ sup' \in Records
        /\ \/ sup' = sup /\ q = chain /\ job' = job
           \/ /\ sup'.state = "none" /\ ~sup'.timer
              /\ \A i \in DOMAIN chain : ~Wanted(q[i])
              /\ \A w \in Workers : ~Wanted(job'[w])
    BY TouchFacts DEF Asked
  <1>5. Registered
    BY DEF IInv
  <1>6. modules # 0 => modules \in Workers /\ modules = used /\ used \in called
                       /\ thread[used] # "exited"
    BY <1>5, TypeFacts DEF Registered
  <1>7. /\ unloading \subseteq unloading' /\ unloading' \subseteq called /\ called \subseteq Workers
        /\ unloading' = unloading \/ (Sends(o, q) /\ unloading' = unloading \cup {used})
    BY <1>6 DEF Asked, Sends, IInv, Threads, TypeOK, WorkerType
  <1>8. TypeOK'
    <2>1. RegistryType'
      BY <1>4, TypeFacts DEF Asked, RegistryType
    <2>2. LockType'
      BY <1>1, <1>2, <1>3 DEF IInv, TypeOK, LockType
    <2>3. WorkerType'
      BY <1>3, <1>7 DEF IInv, TypeOK, WorkerType
    <2> QED BY <1>1, <2>1, <2>2, <2>3 DEF TypeOK
  <1>9. Threads'
    BY <1>3, <1>7 DEF IInv, Threads
  <1>10. Locked'
    <2>1. Busy' => Busy
      BY <1>3, <1>4 DEF Asked, Busy, Live
    <2> QED BY <1>2, <1>3, <2>1, LockFollows
  <1>11. Registered'
    <2>1. NoOrphan'
      BY <1>3, <1>5 DEF Asked, Registered, NoOrphan
    <2>2. ASSUME modules' # 0
          PROVE  /\ modules' = used /\ thread[used] # "exited" /\ used \in called
                 /\ used \in ended => used \in unloading'
                 /\ used \in unloading' => Unloads(used)' # {}
      <3>1. modules' = modules
        BY <2>2 DEF Asked
      <3>2. used \in ended => used \in unloading
        BY <1>5, <2>2, <3>1 DEF Registered
      <3>3. ASSUME used \in unloading
            PROVE  Unloads(used)' # {}
        <4>1. PICK p \in Ops : stage[p] = "unloading" /\ target[p] = used
          BY <1>5, <2>2, <3>1, <3>3 DEF Registered, Unloads
        <4>2. stage'[p] = "unloading" /\ target'[p] = used
          BY <1>1, <4>1 DEF Asked
        <4> QED BY <1>3, <4>2 DEF Unloads
      <3>4. ASSUME Sends(o, q)
            PROVE  Unloads(used)' # {}
        <4>1. stage'[o] = "unloading" /\ target'[o] = used
          BY <1>6, <3>4 DEF Sends
        <4> QED BY <1>3, <4>1 DEF Unloads
      <3> QED BY <1>6, <1>7, <2>2, <3>1, <3>2, <3>3, <3>4
    <2> QED BY <1>3, <2>1, <2>2 DEF Registered
  <1>12. Unloading'
    <2> SUFFICES ASSUME NEW p \in Ops, stage'[p] \in {"unloading", "ending"}
                 PROVE  /\ target'[p] = used /\ used # 0 /\ used \in called \cap unloading'
                        /\ used \notin settled
                        /\ stage'[p] = "unloading" => thread[used] # "exited"
                        /\ kind'[p] \in {"load", "restart", "unload"}
                        /\ sup'.state = "none"
                        /\ \A i \in DOMAIN chain' : ~Wanted(chain'[i])
      BY <1>3 DEF Unloading, Wanted
    <2>1. CASE p # o
      <3>1. stage[p] = stage'[p] /\ target'[p] = target[p] /\ kind'[p] = kind[p]
        BY <2>1 DEF Asked
      <3>2. /\ target[p] = used /\ used # 0 /\ used \in called \cap unloading /\ used \notin settled
            /\ stage[p] = "unloading" => thread[used] # "exited"
            /\ kind[p] \in {"load", "restart", "unload"}
            /\ sup.state = "none"
            /\ \A i \in DOMAIN chain : ~Wanted(chain[i])
        BY <3>1 DEF IInv, Unloading
      <3> QED BY <1>2, <1>4, <1>7, <3>1, <3>2
    <2>2. CASE p = o
      <3>1. Sends(o, q)
        BY <2>2 DEF Asked, Joins
      <3>2. /\ target'[o] = used /\ used # 0 /\ used \in called /\ used \in unloading'
            /\ thread[used] # "exited" /\ kind'[o] \in {"load", "restart", "unload"}
        BY <1>6, <3>1 DEF Sends
      <3>3. used \notin settled
        BY <3>2 DEF IInv, Threads
      <3>4. sup'.state = "none" /\ q = StaleChain
        BY <3>1 DEF Sends, Clear, NoRecord
      <3>5. \A i \in DOMAIN chain : ~Wanted(q[i])
        BY <3>4, TypeFacts, StaleChainFacts
      <3> QED BY <1>2, <2>2, <3>2, <3>3, <3>4, <3>5
    <2> QED BY <2>1, <2>2
  <1>13. Supervised'
    <2>1. sup'.state = "none" => ~sup'.timer
      BY <1>4 DEF IInv, Supervised
    <2>2. Spawning' <=> Spawning
      BY <1>3 DEF Spawning
    <2>3. Ahead'
      <3>1. CASE sup'.state = "none"
        BY <3>1 DEF Ahead
      <3>2. CASE sup' = sup /\ q = chain /\ job' = job
        <4>1. \A i \in DOMAIN chain : i \in DOMAIN chain' /\ chain'[i] = chain[i]
          BY <1>2, <3>2
        <4> QED BY <1>3, <2>2, <3>2, <4>1 DEF IInv, Supervised, Ahead, Wanted
      <3> QED BY <1>4, <3>1, <3>2
    <2> QED BY <2>1, <2>3 DEF Asked, Hush, Supervised
  <1> QED BY <1>1, <1>2, <1>8, <1>9, <1>10, <1>11, <1>12, <1>13 DEF IInv

\* The request is new, or its unload has ended.
Begins(o) ==
  /\ UNCHANGED <<lock, used, thread, loaded, called, ended, settled>>
  /\ (asked' = asked /\ stage[o] = "ending") \/ (o = asked + 1 /\ asked' = o)
  /\ kind' \in [Ops -> OpKinds \cup {"none"}] /\ quiet' \in BOOLEAN
  /\ \A p \in Ops \ {o} : kind'[p] = kind[p]

\* A new request.
LEMMA AskBegins ==
  ASSUME IInv, NEW o \in Ops, NEW k \in OpKinds, NEW b \in BOOLEAN, Ask(o, k, b)
  PROVE  Begins(o) /\ kind'[o] = k /\ quiet' = b /\ o = asked + 1
  <1>1. kind \in [Ops -> OpKinds \cup {"none"}]
    BY DEF IInv, TypeOK, OpType
  <1>2. kind' = [kind EXCEPT ![o] = k]
    BY DEF Ask
  <1>3. kind' \in [Ops -> OpKinds \cup {"none"}] /\ kind'[o] = k
        /\ \A p \in Ops \ {o} : kind'[p] = kind[p]
    BY <1>1, <1>2
  <1> QED BY <1>3 DEF Ask, Begins

\* The request is answered on the spot.
LEMMA AnsweredAtOnce ==
  ASSUME IInv, NEW o \in Ops, NEW q, Begins(o), Touch(q), chain' = q,
         NEW r \in {"ok", "failed"}, Answer(o, r), UNCHANGED <<unloading, target>>,
         UNCHANGED <<modules, dropped>>
         \/ (modules' = 0 /\ dropped' = dropped \cup (Workers \cap {modules})),
         Hush'
  PROVE  IInv'
  <1>1. /\ stage' \in [Ops -> {"none", "unloading", "ending", "spawning", "done"}]
        /\ replies' \in [Ops -> Seq({"ok", "failed"})]
        /\ stage'[o] = "done" /\ Len(replies'[o]) = Len(replies[o]) + 1
        /\ \A p \in Ops \ {o} : stage'[p] = stage[p] /\ replies'[p] = replies[p]
    BY AnswerFacts
  <1>2. target \in [Ops -> 0 .. MaxWorkers]
    BY DEF IInv, TypeOK, OpType
  <1>3. Asked(o, q)
    BY <1>1, <1>2 DEF Begins, Asked
  <1> QED BY <1>3, AskedKeeps

\* The request's job joins the queue.
LEMMA JoinsQueue ==
  ASSUME IInv, NEW o \in Ops, NEW q, Begins(o), Touch(q), NEW k \in {"load", "uninstall"},
         chain' = Append(q, Job(k, o)), stage' = [stage EXCEPT ![o] = "spawning"],
         k = "load" => kind'[o] \in {"load", "restart"},
         UNCHANGED <<replies, unloading, target, modules, dropped>>, Hush'
  PROVE  IInv'
  <1>1. OpType
    BY DEF IInv, TypeOK
  <1>2. /\ stage' \in [Ops -> {"none", "unloading", "ending", "spawning", "done"}]
        /\ stage'[o] = "spawning" /\ \A p \in Ops \ {o} : stage'[p] = stage[p]
    BY <1>1 DEF OpType
  <1>3. Joins(o, q, k)
    BY <1>2 DEF Joins
  <1>4. Joins(o, q, "load") \/ Joins(o, q, "uninstall")
    BY <1>3
  <1>5. Asked(o, q)
    BY <1>1, <1>2, <1>4 DEF Begins, Asked, OpType
  <1> QED BY <1>5, AskedKeeps

\* The request has the registered worker unloaded.
LEMMA SendsUnload ==
  ASSUME IInv, NEW o \in Ops, Begins(o), modules # 0, Clear, SendUnload(o), chain' = StaleChain,
         kind'[o] \in {"load", "restart", "unload"}, UNCHANGED <<modules, dropped>>, Hush'
  PROVE  IInv'
  <1>1. OpType /\ modules \in 0 .. MaxWorkers
    BY TypeFacts DEF IInv, TypeOK
  <1>2. stage' = [stage EXCEPT ![o] = "unloading"] /\ target' = [target EXCEPT ![o] = modules]
        /\ unloading' = unloading \cup {modules} /\ replies' = replies
    BY DEF SendUnload
  <1>3. /\ stage' \in [Ops -> {"none", "unloading", "ending", "spawning", "done"}]
        /\ stage'[o] = "unloading" /\ \A p \in Ops \ {o} : stage'[p] = stage[p]
    BY <1>1, <1>2 DEF OpType
  <1>4. /\ target' \in [Ops -> 0 .. MaxWorkers] /\ target'[o] = modules
        /\ \A p \in Ops \ {o} : target'[p] = target[p]
    BY <1>1, <1>2 DEF OpType
  <1>5. Sends(o, StaleChain)
    BY <1>2, <1>3, <1>4 DEF Sends
  <1>6. Touch(StaleChain)
    BY DEF Touch
  <1>7. Asked(o, StaleChain)
    BY <1>1, <1>2, <1>3, <1>4, <1>5, <1>6 DEF Begins, Asked, OpType
  <1> QED BY <1>7, AskedKeeps

\* spawnModuleWorker, refused or queued.
LEMMA SpawnForStep ==
  ASSUME IInv, NEW o \in Ops, NEW q, Begins(o), Touch(q), SpawnFor(o, q),
         kind'[o] \in {"load", "restart"}, UNCHANGED <<unloading, target, modules, dropped>>, ~quiet'
  PROVE  IInv'
  <1>1. Hush'
    BY DEF Hush
  <1>2. CASE chain' = q /\ Answer(o, "failed")
    BY <1>1, <1>2, AnsweredAtOnce
  <1>3. CASE chain' = Append(q, Job("load", o)) /\ stage' = [stage EXCEPT ![o] = "spawning"]
             /\ UNCHANGED replies
    BY <1>1, <1>3, JoinsQueue
  <1> QED BY <1>2, <1>3 DEF SpawnFor

\* loadModuleByWorker.
LEMMA LoadByWorkerStep ==
  ASSUME IInv, NEW o \in Ops, Begins(o), LoadByWorker(o),
         kind'[o] \in {"load", "restart"}, UNCHANGED <<modules, dropped>>, ~quiet'
  PROVE  IInv'
  <1>1. Clear /\ Touch(StaleChain) /\ Hush'
    BY DEF LoadByWorker, Touch, Hush
  <1>2. CASE modules = 0
    BY <1>1, <1>2, SpawnForStep DEF LoadByWorker
  <1>3. CASE modules # 0
    BY <1>1, <1>3, SendsUnload DEF LoadByWorker
  <1> QED BY <1>2, <1>3

\* A request that is refused.
LEMMA RefusedStep ==
  ASSUME IInv, NEW o \in Ops, Begins(o), Refused(o), ~quiet'
  PROVE  IInv'
  <1>1. Touch(chain) /\ chain' = chain /\ Answer(o, "failed") /\ Hush'
        /\ UNCHANGED <<unloading, target, modules, dropped>>
    BY DEF Refused, Touch, Hush
  <1> QED BY <1>1, AnsweredAtOnce

\* POST /load-module.
LEMMA LoadStep ==
  ASSUME IInv, NEW o \in Ops, Load(o)
  PROVE  IInv'
  <1>1. Begins(o) /\ kind'[o] = "load" /\ ~quiet'
    BY AskBegins DEF Load, OpKinds
  <1>2. CASE Refused(o)
    BY <1>1, <1>2, RefusedStep
  <1>3. CASE Loading(o)
    BY <1>1, <1>3, LoadByWorkerStep DEF Loading
  <1> QED BY <1>2, <1>3 DEF Load

\* POST /reload-module.
LEMMA ReloadStep ==
  ASSUME IInv, NEW o \in Ops, Reload(o)
  PROVE  IInv'
  <1>1. Begins(o) /\ kind'[o] = "load" /\ ~quiet'
    BY AskBegins DEF Reload, OpKinds
  <1>2. CASE Refused(o)
    BY <1>1, <1>2, RefusedStep
  <1>3. CASE Loading(o)
    BY <1>1, <1>3, LoadByWorkerStep DEF Loading
  <1>4. CASE /\ Answer(o, "failed") /\ modules' = 0
             /\ dropped' = dropped \cup (Workers \cap {modules})
             /\ UNCHANGED <<sup, job, chain, unloading, target>>
    <2>1. Touch(chain) /\ chain' = chain /\ Hush'
      BY <1>1, <1>4 DEF Touch, Hush
    <2> QED BY <1>1, <1>4, <2>1, AnsweredAtOnce
  <1> QED BY <1>2, <1>3, <1>4 DEF Reload

\* POST /restart-module.
LEMMA RestartStep ==
  ASSUME IInv, NEW o \in Ops, Restart(o)
  PROVE  IInv'
  <1>1. Begins(o) /\ kind'[o] = "restart" /\ ~quiet' /\ UNCHANGED <<modules, dropped>>
    BY AskBegins DEF Restart, OpKinds
  <1>2. CASE Refused(o)
    BY <1>1, <1>2, RefusedStep
  <1>3. CASE LoadByWorker(o)
    BY <1>1, <1>3, LoadByWorkerStep
  <1>4. CASE modules # 0 /\ Clear /\ SendUnload(o) /\ chain' = StaleChain
    <2>1. Hush'
      BY <1>1 DEF Hush
    <2> QED BY <1>1, <1>4, <2>1, SendsUnload
  <1> QED BY <1>2, <1>3, <1>4 DEF Restart

\* With no load outstanding, no load is under way.
LEMMA NoLoads ==
  ASSUME IInv, Loads = {}
  PROVE  \A p \in Ops : stage[p] \in Open => kind[p] \notin {"load", "restart"}
  <1> SUFFICES ASSUME NEW p \in Ops, stage[p] \in Open
               PROVE  p \in Outstanding
    BY DEF Loads
  <1>1. OpType /\ Requests /\ Ops = 1 .. MaxOps /\ asked \in Nat /\ MaxOps \in Nat
    BY TypeFacts DEF IInv, TypeOK
  <1>2. ~ (p > asked) /\ Len(replies[p]) = 0
    BY <1>1 DEF Requests, Open
  <1>3. replies[p] \in Seq({"ok", "failed"})
    BY <1>1 DEF OpType
  <1>4. replies[p] = <<>>
    BY <1>2, <1>3, EmptySeq
  <1>5. p \in 1 .. asked
    BY <1>1, <1>2
  <1> QED BY <1>4, <1>5 DEF Outstanding

\* POST /unload-module.
LEMMA UnloadRequestStep ==
  ASSUME IInv, NEW o \in Ops, Unload(o)
  PROVE  IInv'
  <1> DEFINE b == quiet \/ (modules = 0 /\ sup.state # "none" /\ Loads = {})
  <1>1. Ask(o, "unload", b) /\ UNCHANGED <<modules, dropped>> /\ Clear /\ chain' = StaleChain
    BY DEF Unload
  <1>2. Begins(o) /\ kind'[o] = "unload" /\ (quiet' <=> b)
    <2>1. b \in BOOLEAN /\ "unload" \in OpKinds
      BY DEF IInv, TypeOK, OpType, OpKinds
    <2> QED BY <1>1, <2>1, AskBegins
  <1>3. Touch(StaleChain)
    BY <1>1 DEF Touch
  <1>4. CASE modules # 0
    <2>1. ~b
      BY <1>4 DEF IInv, Supervised
    <2>2. Hush'
      BY <1>2, <2>1 DEF Hush
    <2>3. SendUnload(o)
      BY <1>4 DEF Unload
    <2> QED BY <1>1, <1>2, <1>4, <2>2, <2>3, SendsUnload
  <1>5. CASE modules = 0
    <2>1. PICK r \in {"ok", "failed"} : Answer(o, r)
      BY <1>5 DEF Unload
    <2>2. UNCHANGED <<unloading, target>>
      BY <1>5 DEF Unload
    <2>3. sup'.state = "none" /\ used' = used
      BY <1>1, <1>2 DEF Clear, NoRecord, Begins
    <2>4. \A i \in DOMAIN chain' : ~Wanted(chain'[i])
      <3>1. Follows(StaleChain) /\ \A i \in DOMAIN chain : ~Wanted(StaleChain[i])
        BY TypeFacts, StaleChainFacts
      <3> QED BY <1>1, <3>1 DEF Follows
    <2>5. \A w \in Workers : ~Wanted(job'[w])
      <3>1. job' = [w \in Workers |-> Stale(job[w])] /\ job \in [Workers -> Jobs]
        BY <1>1, TypeFacts DEF Clear
      <3>2. \A w \in Workers : job'[w] = Stale(job[w]) /\ job[w] \in Jobs
        BY <3>1
      <3> QED BY <3>2, JobFacts
    <2>6. Spawning' => used \in Workers
      BY <2>3, TypeFacts DEF Spawning
    <2>7. stage'[o] = "done" /\ \A p \in Ops \ {o} : stage'[p] = stage[p]
      BY <2>1, AnswerFacts
    <2>8. ASSUME b, NEW p \in Ops, stage'[p] \in Open
          PROVE  kind'[p] \notin {"load", "restart"}
      <3>1. p # o /\ stage[p] \in Open /\ kind'[p] = kind[p]
        BY <1>2, <2>7, <2>8 DEF Open, Begins
      <3>2. CASE quiet
        BY <3>1, <3>2 DEF IInv, Supervised
      <3>3. CASE Loads = {}
        BY <3>1, <3>3, NoLoads
      <3> QED BY <2>8, <3>2, <3>3
    <2>9. Hush'
      BY <1>1, <1>2, <1>5, <2>3, <2>4, <2>5, <2>6, <2>8 DEF Hush, Wanted
    <2> QED BY <1>1, <1>2, <1>3, <2>1, <2>2, <2>9, AnsweredAtOnce
  <1> QED BY <1>4, <1>5

\* A request that loads nothing leaves a quiet name quiet.
LEMMA HushKept ==
  ASSUME IInv, NEW o \in Ops, Begins(o), kind'[o] \notin {"load", "restart"}, quiet' = quiet,
         UNCHANGED <<modules, sup, job>>, \A p \in Ops \ {o} : stage'[p] = stage[p],
         \A i \in DOMAIN chain' : Wanted(chain'[i]) => i \in DOMAIN chain /\ Wanted(chain[i])
  PROVE  Hush'
  <1> SUFFICES ASSUME quiet
               PROVE  /\ modules' = 0 /\ sup'.state = "none"
                      /\ \A p \in Ops : stage'[p] \in Open => kind'[p] \notin {"load", "restart"}
                      /\ \A i \in DOMAIN chain' : ~Wanted(chain'[i])
                      /\ Spawning' => ~Wanted(job'[used'])
    BY DEF Hush, Wanted
  <1>1. /\ modules = 0 /\ sup.state = "none"
        /\ \A p \in Ops : stage[p] \in Open => kind[p] \notin {"load", "restart"}
        /\ \A i \in DOMAIN chain : ~Wanted(chain[i])
        /\ Spawning => ~Wanted(job[used])
    BY DEF IInv, Supervised
  <1>2. UNCHANGED <<used, called>> /\ \A p \in Ops \ {o} : kind'[p] = kind[p]
    BY DEF Begins
  <1>3. Spawning' => Spawning
    BY <1>2 DEF Spawning
  <1> QED BY <1>1, <1>2, <1>3

\* POST /get-module-device-list.
LEMMA StatusStep ==
  ASSUME IInv, NEW o \in Ops, Status(o)
  PROVE  IInv'
  <1>1. Begins(o) /\ kind'[o] = "status" /\ quiet' = quiet
    BY AskBegins DEF Status, OpKinds, IInv, TypeOK, OpType
  <1>2. UNCHANGED <<modules, sup, job, chain, unloading, target, dropped>>
    BY DEF Status
  <1>3. PICK r \in {"ok", "failed"} : Answer(o, r)
    BY DEF Status
  <1>4. \A p \in Ops \ {o} : stage'[p] = stage[p]
    BY <1>3, AnswerFacts
  <1>5. Hush' /\ Touch(chain)
    BY <1>1, <1>2, <1>4, HushKept DEF Touch
  <1> QED BY <1>1, <1>2, <1>3, <1>5, AnsweredAtOnce

\* POST /uninstall-module.
LEMMA UninstallStep ==
  ASSUME IInv, NEW o \in Ops, Uninstall(o)
  PROVE  IInv'
  <1>1. Begins(o) /\ kind'[o] = "uninstall" /\ quiet' = quiet
    BY AskBegins DEF Uninstall, OpKinds, IInv, TypeOK, OpType
  <1>2. UNCHANGED <<modules, sup, job, unloading, target, dropped>> /\ Touch(chain)
    BY DEF Uninstall, Touch
  <1>3. CASE Answer(o, "failed") /\ UNCHANGED chain
    <2>1. \A p \in Ops \ {o} : stage'[p] = stage[p]
      BY <1>3, AnswerFacts
    <2>2. Hush'
      BY <1>1, <1>2, <1>3, <2>1, HushKept
    <2> QED BY <1>1, <1>2, <1>3, <2>2, AnsweredAtOnce
  <1>4. CASE /\ chain' = Append(chain, Job("uninstall", o))
             /\ stage' = [stage EXCEPT ![o] = "spawning"] /\ UNCHANGED replies
    <2>1. \A p \in Ops \ {o} : stage'[p] = stage[p]
      BY <1>4 DEF IInv, TypeOK, OpType
    <2> DEFINE n == Job("uninstall", o)
    <2>2. n \in Jobs /\ n.kind = "uninstall"
      BY JobFacts, TypeFacts
    <2>3. Follows(chain)
      BY TypeFacts DEF Follows
    <2>4. chain' = Append(chain, n)
      BY <1>4
    <2> HIDE DEF n
    <2>5. ~Wanted(n)
      BY <2>2 DEF Wanted
    <2>6. \A i \in DOMAIN chain' : chain'[i] = n \/ (i \in DOMAIN chain /\ chain'[i] = chain[i])
      BY <2>2, <2>3, <2>4, AppendFollows
    <2>7. \A i \in DOMAIN chain' : Wanted(chain'[i]) => i \in DOMAIN chain /\ Wanted(chain[i])
      BY <2>5, <2>6
    <2>8. Hush'
      BY <1>1, <1>2, <2>1, <2>7, HushKept
    <2> QED BY <1>1, <1>2, <1>4, <2>8, JoinsQueue
  <1> QED BY <1>3, <1>4 DEF Uninstall

\* The callback of unloadModuleExternal.
LEMMA UnloadEndedStep ==
  ASSUME IInv, NEW o \in Ops, UnloadEnded(o)
  PROVE  IInv'
  <1>1. /\ stage[o] = "ending" /\ thread[target[o]] = "exited" /\ UNCHANGED <<modules, dropped, asked>>
        /\ UNCHANGED <<lock, used, thread, loaded, called, ended, settled>>
    BY DEF UnloadEnded
  <1>2. /\ target[o] = used /\ used \in called /\ sup.state = "none"
        /\ \A i \in DOMAIN chain : ~Wanted(chain[i])
    BY <1>1 DEF IInv, Unloading
  <1>3. modules = 0
    BY <1>1, <1>2 DEF IInv, Registered
  <1>4. /\ kind \in [Ops -> OpKinds \cup {"none"}] /\ quiet \in BOOLEAN
    BY DEF IInv, TypeOK, OpType
  <1>5. kind[o] \in {"load", "restart"} => ~quiet
    BY <1>1 DEF IInv, Supervised, Open
  <1>6. CASE /\ kind[o] = "unload" /\ Answer(o, "ok") /\ quiet' = (Loads = {})
             /\ UNCHANGED <<sup, job, chain, unloading, target, kind>>
    <2>1. Begins(o) /\ Touch(chain)
      BY <1>1, <1>4, <1>6 DEF Begins, Touch
    <2>2. stage'[o] = "done" /\ \A p \in Ops \ {o} : stage'[p] = stage[p]
      BY <1>6, AnswerFacts
    <2>3. ASSUME Loads = {}, NEW p \in Ops, stage'[p] \in Open
          PROVE  kind'[p] \notin {"load", "restart"}
      <3>1. p # o /\ stage[p] \in Open
        BY <2>2, <2>3 DEF Open
      <3> QED BY <1>6, <2>3, <3>1, NoLoads
    <2>4. ~Spawning'
      BY <1>1, <1>2 DEF Spawning
    <2>5. Hush'
      BY <1>1, <1>2, <1>3, <1>6, <2>3, <2>4 DEF Hush, Wanted
    <2> QED BY <1>1, <1>6, <2>1, <2>5, AnsweredAtOnce
  <1>7. CASE /\ kind[o] = "load" /\ SpawnFor(o, chain)
             /\ UNCHANGED <<sup, job, unloading, target, kind, quiet>>
    <2>1. Begins(o) /\ Touch(chain) /\ ~quiet' /\ kind'[o] \in {"load", "restart"}
      BY <1>1, <1>4, <1>5, <1>7 DEF Begins, Touch
    <2> QED BY <1>1, <1>7, <2>1, SpawnForStep
  <1>8. CASE /\ kind[o] = "restart" /\ LoadByWorker(o)
             /\ kind' = [kind EXCEPT ![o] = "load"] /\ UNCHANGED quiet
    <2>1. kind' \in [Ops -> OpKinds \cup {"none"}] /\ kind'[o] = "load"
          /\ \A p \in Ops \ {o} : kind'[p] = kind[p]
      BY <1>4, <1>8 DEF OpKinds
    <2>2. Begins(o) /\ ~quiet'
      BY <1>1, <1>4, <1>5, <1>8, <2>1 DEF Begins
    <2> QED BY <1>1, <1>8, <2>1, <2>2, LoadByWorkerStep
  <1> QED BY <1>6, <1>7, <1>8 DEF UnloadEnded

(***************************************************************************)
(* The theorems.                                                           *)
(***************************************************************************)

\* Nothing is loaded and nothing has been asked for.
LEMMA InitInv ==
  ASSUME Init
  PROVE  IInv
  <1>1. /\ modules = 0 /\ sup = NoRecord /\ chain = <<>> /\ lock = "idle" /\ used = 0
        /\ job = [w \in Workers |-> NoJob] /\ thread = [w \in Workers |-> "none"]
        /\ loaded = {} /\ called = {} /\ ended = {} /\ unloading = {} /\ settled = {}
        /\ asked = 0 /\ kind = [o \in Ops |-> "none"] /\ stage = [o \in Ops |-> "none"]
        /\ target = [o \in Ops |-> 0] /\ replies = [o \in Ops |-> <<>>]
        /\ quiet = FALSE /\ dropped = {}
    BY DEF Init
  <1>2. /\ \A w \in Workers : w \in Nat \ {0}
        /\ \A o \in Ops : o \in Nat \ {0}
        /\ MaxWorkers \in Nat /\ MaxOps \in Nat /\ SuspendAfter \in Nat
    BY WorkersAssumption DEF Workers, Ops
  <1>3. NoRecord \in Records /\ NoRecord.state = "none" /\ ~NoRecord.timer
    BY <1>2 DEF NoRecord, Records
  <1>4. NoJob \in Jobs
    BY <1>2 DEF NoJob, Job, Jobs
  <1>5. <<>> \in Seq(Jobs) /\ <<>> \in Seq({"ok", "failed"}) /\ Len(<<>>) = 0 /\ DOMAIN <<>> = {}
    OBVIOUS
  <1>6. RegistryType /\ LockType
    BY <1>1, <1>2, <1>3, <1>4, <1>5 DEF RegistryType, LockType
  <1>7. WorkerType
    BY <1>1 DEF WorkerType
  <1>8. OpType
    <2>1. target \in [Ops -> 0 .. MaxWorkers] /\ replies \in [Ops -> Seq({"ok", "failed"})]
      BY <1>1, <1>2, <1>5
    <2>2. stage \in [Ops -> {"none", "unloading", "ending", "spawning", "done"}]
          /\ kind \in [Ops -> OpKinds \cup {"none"}]
      BY <1>1
    <2>3. asked \in 0 .. MaxOps
      BY <1>1, <1>2
    <2>4. quiet \in BOOLEAN /\ dropped \subseteq Workers
      BY <1>1
    <2> QED BY <2>1, <2>2, <2>3, <2>4 DEF OpType
  <1>9. Threads /\ Registered
    BY <1>1, <1>2 DEF Threads, Registered, NoOrphan
  <1>10. Locked /\ Spawns
    BY <1>1, <1>5 DEF Locked, Spawns, Spawning
  <1>11. Requests
    BY <1>1, <1>2, <1>5 DEF Requests
  <1>12. Unloading
    BY <1>1 DEF Unloading
  <1>13. Supervised
    BY <1>1, <1>3 DEF Supervised, Ahead
  <1> QED BY <1>6, <1>7, <1>8, <1>9, <1>10, <1>11, <1>12, <1>13 DEF IInv, TypeOK

\* A step that changes nothing.
LEMMA StutterInv ==
  ASSUME IInv, UNCHANGED vars
  PROVE  IInv'
  <1>1. UNCHANGED <<mainVars, chain, used, job, workerVars, opVars>> /\ lock' = lock
    BY DEF vars, lockVars
  <1>2. UNCHANGED <<used, settled>> /\ (Busy' <=> Busy)
    BY <1>1 DEF workerVars, mainVars, Busy, Live
  <1>3. Locked'
    BY <1>1, <1>2, LockKept
  <1>4. lock' \in {"idle", "wait_exit", "wait_settled", "walk", "delete"}
    BY <1>1 DEF IInv, TypeOK, LockType
  <1> QED BY <1>1, <1>3, <1>4, LockMoves

\* Every step of the manager, the supervisor, the lock and the threads keeps IInv.
LEMMA NextInv ==
  ASSUME IInv, [Next]_vars
  PROVE  IInv'
  <1>1. CASE UNCHANGED vars
    BY <1>1, StutterInv
  <1>2. CASE Continuation
    <2>1. CASE StartJob
      BY <2>1, StartJobStep
    <2>2. CASE ExitAwaited
      BY <2>2, ExitAwaitedStep
    <2>3. CASE SettleAwaited
      BY <2>3, SettleAwaitedStep
    <2>4. CASE \E o \in Ops : UnloadEnded(o)
      BY <2>4, UnloadEndedStep
    <2> QED BY <1>2, <2>1, <2>2, <2>3, <2>4 DEF Continuation
  <1>3. CASE ~Pending /\ Event
    <2>1. ASSUME NEW o \in Ops,
                 Load(o) \/ Reload(o) \/ Restart(o) \/ Unload(o) \/ Uninstall(o)
                 \/ Status(o) \/ FinishUnload(o)
          PROVE  IInv'
      BY <2>1, LoadStep, ReloadStep, RestartStep, UnloadRequestStep, UninstallStep, StatusStep,
         FinishUnloadStep
    <2>2. CASE LockStep
      BY <2>2, WalkFailsStep, WalkSucceedsStep, DeleteDoneStep DEF LockStep
    <2>3. ASSUME NEW w \in Workers, WorkerStep(w) \/ Crash(w) \/ Settle(w)
          PROVE  IInv'
      <3>1. CASE SetOptionsFails(w) \/ LoadModuleFails(w)
        BY <3>1, SpawnErrsStep DEF SetOptionsFails, LoadModuleFails
      <3>2. CASE LoadReply(w)
        BY <3>2, LoadReplyStep
      <3>3. CASE ErrorEvent(w)
        BY <3>3, ErrorEventStep
      <3>4. CASE ExitEvent(w)
        BY <3>4, ExitEventStep
      <3>5. CASE Crash(w)
        BY <3>5, CrashStep
      <3>6. CASE Settle(w)
        BY <1>3, <3>6, SettleStep
      <3> QED BY <2>3, <3>1, <3>2, <3>3, <3>4, <3>5, <3>6 DEF WorkerStep
    <2>4. CASE RestartTimer
      BY <2>4, RestartTimerStep
    <2> QED BY <1>3, <2>1, <2>2, <2>3, <2>4 DEF Event
  <1> QED BY <1>1, <1>2, <1>3 DEF Next

\* Through every interleaving of requests, crashes and restarts IInv holds.
THEOREM Invariance == Spec => []IInv
  <1>1. Init => IInv
    BY InitInv
  <1>2. IInv /\ [Next]_vars => IInv'
    BY NextInv
  <1> QED BY <1>1, <1>2, PTL DEF Spec

\* The manager, the supervisor, the lock and the requests keep their types.
THEOREM TypeCorrect == Spec => []TypeOK
  <1>1. IInv => TypeOK
    BY DEF IInv
  <1> QED BY <1>1, Invariance, PTL

\* One thread of a module runs at a time, and none is left running that no
\* unload can reach: spawns wait under the lock for the exit of the one before.
THEOREM OneThread == Spec => []OneWorker
  <1>1. IInv => OneWorker
    <2> SUFFICES ASSUME IInv
                 PROVE  OneWorker
      OBVIOUS
    <2>1. Running \subseteq {used}
      BY RunningFacts DEF Running
    <2>2. IsFiniteSet({used}) /\ Cardinality({used}) = 1
      BY FS_Singleton
    <2>3. IsFiniteSet(Running) /\ Cardinality(Running) <= Cardinality({used})
      BY <2>1, <2>2, FS_Subset
    <2>4. Cardinality(Running) <= 1
      BY <2>2, <2>3
    <2> QED BY <2>4 DEF OneWorker, IInv, Registered
  <1> QED BY <1>1, Invariance, PTL

\* A module the supervisor reports restarting has its timer armed or a spawn of
\* its own under way that still counts, whatever cleared and crashed meanwhile.
THEOREM RestartAhead == Spec => []RestartPending
  <1>1. IInv => RestartPending
    <2> SUFFICES ASSUME IInv, sup.state = "restarting", ~sup.timer
                 PROVE  \/ \E i \in DOMAIN chain : Wanted(chain[i])
                        \/ \E w \in Workers \ called : Wanted(job[w])
      BY DEF RestartPending, Wanted
    <2>1. (\E i \in DOMAIN chain : Wanted(chain[i])) \/ (Spawning /\ Wanted(job[used]))
      BY DEF IInv, Supervised, Ahead
    <2>2. Spawning => used \in Workers \ called
      BY SpawningFacts DEF Spawning
    <2> QED BY <2>1, <2>2
  <1> QED BY <1>1, Invariance, PTL

\* An unload that has been answered sticks, and an uninstall deletes with no
\* thread, no registration, no restart and no unsettled broker about.
THEOREM StaysAway == Spec => []GoneIsGone
  <1>1. IInv => GoneIsGone
    <2> SUFFICES ASSUME IInv
                 PROVE  GoneIsGone
      OBVIOUS
    <2>1. quiet => modules = 0 /\ sup.state = "none"
      BY DEF IInv, Supervised
    <2>2. ASSUME lock = "delete"
          PROVE  /\ Running = {} /\ modules = 0 /\ sup.state = "none"
                 /\ \A w \in 1 .. used : w \in settled
      <3>1. ~Busy /\ (used = 0 \/ used \in settled)
        BY <2>2 DEF IInv, Locked
      <3>2. modules = 0 /\ sup.state = "none"
        BY <3>1 DEF Busy
      <3>3. Running = {}
        BY <3>1, RunningFacts DEF Running
      <3>4. ASSUME NEW w \in 1 .. used
            PROVE  w \in settled
        <4>1. w \in Workers /\ used \in Nat /\ w \in Nat
          BY TypeFacts DEF Workers
        <4>2. w < used \/ w = used
          BY <4>1
        <4> QED BY <3>1, <4>1, <4>2 DEF IInv, Threads
      <3> QED BY <3>2, <3>3, <3>4
    <2> QED BY <2>1, <2>2 DEF GoneIsGone, DeleteAlone
  <1> QED BY <1>1, Invariance, PTL

\* No request of the module manager is answered a second time, whichever of its
\* spawn, its unload, a crash and the supervisor comes first.
THEOREM AnsweredAtMostOnce == Spec => []NoSecondAnswer
  <1>1. IInv => NoSecondAnswer
    BY DEF IInv, Requests, NoSecondAnswer
  <1> QED BY <1>1, Invariance, PTL

-----------------------------------------------------------------------------
(* Discovery and composition verification, Discovery.tla *)

HasKind(q, k) == \E i \in DOMAIN q : q[i].kind = k

\* The last verdict on its way is b.
LastBinding(q, b) ==
  \E i \in DOMAIN q :
    /\ q[i].kind = "set-composition" /\ q[i].binding = b
    /\ \A k \in DOMAIN q : k > i => q[k].kind # "set-composition"

\* The verdict main reached last is in the last set-composition on its way to the
\* worker or, when none is, in the worker.
Relayed(r) ==
  IF HasKind(r.inbox, "set-composition") THEN LastBinding(r.inbox, r.verdict)
                                         ELSE r.composition = r.verdict

\* A worker says its device is online when it has made it.
Truthful(r) == HasKind(r.outbox, "deviceonline") => r.announced

\* A worker that ends takes no verdict any more.
WorkerOK(r) == (r.stage # "ending" => Relayed(r)) /\ Truthful(r)

DiscoveryInv ==
  /\ DiscoveryTypeOK
  /\ \A m \in Modules : WorkerOK(worker[m])
  /\ TablesAgree

(* What changing one field of a worker leaves alone. *)

\* Only stage changes.
LEMMA StageSet ==
  ASSUME NEW ws \in [Modules -> WorkerSet], NEW m \in Modules, NEW v \in WorkerStages
  PROVE  LET n == [ws EXCEPT ![m].stage = v]
             r == ws[m]
             s == n[m]
         IN  /\ n \in [Modules -> WorkerSet] /\ \A o \in Modules : o # m => n[o] = ws[o]
             /\ s.stage = v
             /\ s.gen = r.gen /\ s.inbox = r.inbox /\ s.outbox = r.outbox /\ s.announced = r.announced
             /\ s.timer = r.timer /\ s.composition = r.composition /\ s.verdict = r.verdict /\ s.query = r.query
  BY DEF WorkerSet

\* Only inbox changes.
LEMMA InboxSet ==
  ASSUME NEW ws \in [Modules -> WorkerSet], NEW m \in Modules, NEW v \in Seq(ToWorker)
  PROVE  LET n == [ws EXCEPT ![m].inbox = v]
             r == ws[m]
             s == n[m]
         IN  /\ n \in [Modules -> WorkerSet] /\ \A o \in Modules : o # m => n[o] = ws[o]
             /\ s.inbox = v
             /\ s.gen = r.gen /\ s.stage = r.stage /\ s.outbox = r.outbox /\ s.announced = r.announced
             /\ s.timer = r.timer /\ s.composition = r.composition /\ s.verdict = r.verdict /\ s.query = r.query
  BY DEF WorkerSet

\* Only outbox changes.
LEMMA OutboxSet ==
  ASSUME NEW ws \in [Modules -> WorkerSet], NEW m \in Modules, NEW v \in Seq(ToMain)
  PROVE  LET n == [ws EXCEPT ![m].outbox = v]
             r == ws[m]
             s == n[m]
         IN  /\ n \in [Modules -> WorkerSet] /\ \A o \in Modules : o # m => n[o] = ws[o]
             /\ s.outbox = v
             /\ s.gen = r.gen /\ s.stage = r.stage /\ s.inbox = r.inbox /\ s.announced = r.announced
             /\ s.timer = r.timer /\ s.composition = r.composition /\ s.verdict = r.verdict /\ s.query = r.query
  BY DEF WorkerSet

\* Only announced changes.
LEMMA AnnouncedSet ==
  ASSUME NEW ws \in [Modules -> WorkerSet], NEW m \in Modules, NEW v \in BOOLEAN
  PROVE  LET n == [ws EXCEPT ![m].announced = v]
             r == ws[m]
             s == n[m]
         IN  /\ n \in [Modules -> WorkerSet] /\ \A o \in Modules : o # m => n[o] = ws[o]
             /\ s.announced = v
             /\ s.gen = r.gen /\ s.stage = r.stage /\ s.inbox = r.inbox /\ s.outbox = r.outbox
             /\ s.timer = r.timer /\ s.composition = r.composition /\ s.verdict = r.verdict /\ s.query = r.query
  BY DEF WorkerSet

\* Only timer changes.
LEMMA TimerSet ==
  ASSUME NEW ws \in [Modules -> WorkerSet], NEW m \in Modules, NEW v \in {"set", "fired"}
  PROVE  LET n == [ws EXCEPT ![m].timer = v]
             r == ws[m]
             s == n[m]
         IN  /\ n \in [Modules -> WorkerSet] /\ \A o \in Modules : o # m => n[o] = ws[o]
             /\ s.timer = v
             /\ s.gen = r.gen /\ s.stage = r.stage /\ s.inbox = r.inbox /\ s.outbox = r.outbox
             /\ s.announced = r.announced /\ s.composition = r.composition /\ s.verdict = r.verdict /\ s.query = r.query
  BY DEF WorkerSet

\* Only composition changes.
LEMMA CompositionSet ==
  ASSUME NEW ws \in [Modules -> WorkerSet], NEW m \in Modules, NEW v \in Bindings
  PROVE  LET n == [ws EXCEPT ![m].composition = v]
             r == ws[m]
             s == n[m]
         IN  /\ n \in [Modules -> WorkerSet] /\ \A o \in Modules : o # m => n[o] = ws[o]
             /\ s.composition = v
             /\ s.gen = r.gen /\ s.stage = r.stage /\ s.inbox = r.inbox /\ s.outbox = r.outbox
             /\ s.announced = r.announced /\ s.timer = r.timer /\ s.verdict = r.verdict /\ s.query = r.query
  BY DEF WorkerSet

\* Only verdict changes.
LEMMA VerdictSet ==
  ASSUME NEW ws \in [Modules -> WorkerSet], NEW m \in Modules, NEW v \in Bindings
  PROVE  LET n == [ws EXCEPT ![m].verdict = v]
             r == ws[m]
             s == n[m]
         IN  /\ n \in [Modules -> WorkerSet] /\ \A o \in Modules : o # m => n[o] = ws[o]
             /\ s.verdict = v
             /\ s.gen = r.gen /\ s.stage = r.stage /\ s.inbox = r.inbox /\ s.outbox = r.outbox
             /\ s.announced = r.announced /\ s.timer = r.timer /\ s.composition = r.composition /\ s.query = r.query
  BY DEF WorkerSet

\* Only query changes.
LEMMA QuerySet ==
  ASSUME NEW ws \in [Modules -> WorkerSet], NEW m \in Modules, NEW v \in Results \cup {"none", "waiting"}
  PROVE  LET n == [ws EXCEPT ![m].query = v]
             r == ws[m]
             s == n[m]
         IN  /\ n \in [Modules -> WorkerSet] /\ \A o \in Modules : o # m => n[o] = ws[o]
             /\ s.query = v
             /\ s.gen = r.gen /\ s.stage = r.stage /\ s.inbox = r.inbox /\ s.outbox = r.outbox
             /\ s.announced = r.announced /\ s.timer = r.timer /\ s.composition = r.composition /\ s.verdict = r.verdict
  BY DEF WorkerSet

\* One more message on its way.
LEMMA AppendKind ==
  ASSUME NEW S, NEW q \in Seq(S), NEW x \in S
  PROVE  /\ Append(q, x) \in Seq(S)
         /\ \A k : HasKind(Append(q, x), k) <=> HasKind(q, k) \/ x.kind = k
         /\ \A b : x.kind # "set-composition" /\ LastBinding(q, b) => LastBinding(Append(q, x), b)
         /\ x.kind = "set-composition" => LastBinding(Append(q, x), x.binding)
  <1> DEFINE p == Append(q, x)
  <1>1. /\ p \in Seq(S) /\ Len(q) + 1 \notin DOMAIN q /\ p[Len(q) + 1] = x
        /\ DOMAIN p = DOMAIN q \cup {Len(q) + 1}
        /\ \A i \in DOMAIN q : p[i] = q[i]
    BY AppendIndex
  <1>2. DOMAIN q = 1 .. Len(q) /\ Len(q) \in Nat
    BY LenProperties
  <1> HIDE DEF p
  <1>3. \A i \in DOMAIN p : ~(i > Len(q) + 1)
    BY <1>1, <1>2
  <1>4. \A k : HasKind(p, k) <=> HasKind(q, k) \/ x.kind = k
    BY <1>1 DEF HasKind
  <1>6. \A b : x.kind # "set-composition" /\ LastBinding(q, b) => LastBinding(p, b)
    BY <1>1 DEF LastBinding
  <1>7. x.kind = "set-composition" => LastBinding(p, x.binding)
    BY <1>1, <1>3 DEF LastBinding
  <1> QED BY <1>1, <1>4, <1>6, <1>7 DEF p

\* The first message is taken.
LEMMA TailKind ==
  ASSUME NEW S, NEW q \in Seq(S), q # <<>>
  PROVE  /\ Tail(q) \in Seq(S) /\ Head(q) \in S /\ HasKind(q, Head(q).kind)
         /\ \A k : HasKind(q, k) <=> HasKind(Tail(q), k) \/ Head(q).kind = k
         /\ \A b : LastBinding(q, b) => \/ LastBinding(Tail(q), b) /\ HasKind(Tail(q), "set-composition")
                                 \/ /\ ~HasKind(Tail(q), "set-composition")
                                    /\ Head(q).kind = "set-composition" /\ Head(q).binding = b
  <1> DEFINE p == Tail(q)
  <1> DEFINE x == Head(q)
  <1>1. /\ p \in Seq(S) /\ 1 \in DOMAIN q /\ q[1] \in S /\ x = q[1]
        /\ \A i \in DOMAIN p : i \in Nat /\ i + 1 \in DOMAIN q /\ i + 1 # 1 /\ p[i] = q[i + 1]
        /\ \A i \in DOMAIN q : i # 1 => i \in Nat /\ i - 1 \in DOMAIN p /\ p[i - 1] = q[i]
    BY TailIndex, HeadTailProperties
  <1>2. \A i \in DOMAIN p : i + 1 > 1
    <2>1. DOMAIN p = 1 .. Len(p) /\ Len(p) \in Nat
      BY <1>1, LenProperties
    <2> QED BY <2>1
  <1> HIDE DEF p, x
  <1>3. \A k : HasKind(q, k) <=> HasKind(p, k) \/ x.kind = k
    BY <1>1 DEF HasKind
  <1>6. ASSUME NEW b, LastBinding(q, b)
        PROVE  \/ LastBinding(p, b) /\ HasKind(p, "set-composition")
               \/ ~HasKind(p, "set-composition") /\ x.kind = "set-composition" /\ x.binding = b
    <2>1. PICK i \in DOMAIN q : /\ q[i].kind = "set-composition" /\ q[i].binding = b
                                /\ \A j \in DOMAIN q : j > i => q[j].kind # "set-composition"
      BY <1>6 DEF LastBinding
    <2>2. CASE i = 1
      <3>1. ~HasKind(p, "set-composition")
        BY <1>1, <1>2, <2>1, <2>2 DEF HasKind
      <3> QED BY <1>1, <2>1, <2>2, <3>1
    <2>3. CASE i # 1
      <3>1. i - 1 \in DOMAIN p /\ p[i - 1] = q[i] /\ i \in Nat
        BY <1>1, <2>3
      <3>2. \A j \in DOMAIN p : j > i - 1 => p[j].kind # "set-composition"
        <4> TAKE j \in DOMAIN p
        <4>1. j \in Nat /\ j + 1 \in DOMAIN q /\ p[j] = q[j + 1]
          BY <1>1
        <4>2. j > i - 1 => j + 1 > i
          BY <3>1, <4>1
        <4> QED BY <2>1, <4>1, <4>2
      <3> QED BY <2>1, <3>1, <3>2 DEF LastBinding, HasKind
    <2> QED BY <2>2, <2>3
  <1>7. HasKind(q, x.kind)
    BY <1>1 DEF HasKind
  <1> QED BY <1>1, <1>3, <1>6, <1>7 DEF p, x

\* A step that leaves the ports, the verdict and the announcement alone.
LEMMA WorkerSame ==
  ASSUME NEW r \in WorkerSet, NEW s \in WorkerSet, s.inbox = r.inbox, s.outbox = r.outbox,
         s.composition = r.composition, s.verdict = r.verdict, r.announced => s.announced,
         r.stage = "ending" => s.stage = "ending"
  PROVE  WorkerOK(r) => WorkerOK(s)
  BY DEF WorkerOK, Relayed, Truthful

\* A message for main is posted, after the announcement when it says so.
LEMMA WorkerSends ==
  ASSUME NEW r \in WorkerSet, NEW s \in WorkerSet, NEW x \in ToMain, s.inbox = r.inbox,
         s.outbox = Append(r.outbox, x), s.composition = r.composition, s.verdict = r.verdict,
         r.announced => s.announced, x.kind = "deviceonline" => s.announced, s.stage = r.stage
  PROVE  WorkerOK(r) => WorkerOK(s)
  <1>1. r.outbox \in Seq(ToMain)
    BY DEF WorkerSet
  <1>2. HasKind(s.outbox, "deviceonline") <=> HasKind(r.outbox, "deviceonline") \/ x.kind = "deviceonline"
    BY <1>1, AppendKind
  <1> QED BY <1>2 DEF WorkerOK, Relayed, Truthful

\* Main takes a message.
LEMMA WorkerSent ==
  ASSUME NEW r \in WorkerSet, NEW s \in WorkerSet, r.outbox # <<>>, s.inbox = r.inbox,
         s.outbox = Tail(r.outbox), s.composition = r.composition, s.verdict = r.verdict,
         s.announced = r.announced, s.stage = r.stage, WorkerOK(r)
  PROVE  WorkerOK(s) /\ (Head(r.outbox).kind = "deviceonline" => r.announced)
  <1>1. r.outbox \in Seq(ToMain)
    BY DEF WorkerSet
  <1>2. HasKind(r.outbox, "deviceonline") <=> HasKind(s.outbox, "deviceonline") \/ Head(r.outbox).kind = "deviceonline"
    BY <1>1, TailKind
  <1> QED BY <1>2 DEF WorkerOK, Relayed, Truthful

\* Main answers a query, or relays a verdict.
LEMMA WorkerPosted ==
  ASSUME NEW r \in WorkerSet, NEW s \in WorkerSet, NEW x \in ToWorker, s.inbox = Append(r.inbox, x),
         s.outbox = r.outbox, s.composition = r.composition, s.announced = r.announced, s.stage = r.stage,
         IF x.kind = "set-composition" THEN s.verdict = x.binding ELSE s.verdict = r.verdict
  PROVE  WorkerOK(r) => WorkerOK(s)
  <1>1. r.inbox \in Seq(ToWorker)
    BY DEF WorkerSet
  <1>2. /\ HasKind(s.inbox, "set-composition") <=> HasKind(r.inbox, "set-composition") \/ x.kind = "set-composition"
        /\ x.kind # "set-composition" /\ LastBinding(r.inbox, r.verdict) => LastBinding(s.inbox, r.verdict)
        /\ x.kind = "set-composition" => LastBinding(s.inbox, s.verdict)
    BY <1>1, AppendKind
  <1> QED BY <1>2 DEF WorkerOK, Relayed, Truthful

\* The worker takes a message: a verdict becomes its composition.
LEMMA WorkerTakes ==
  ASSUME NEW r \in WorkerSet, NEW s \in WorkerSet, r.inbox # <<>>, s.inbox = Tail(r.inbox),
         s.verdict = r.verdict, s.announced = r.announced, s.outbox = r.outbox,
         s.stage = r.stage,
         r.stage # "ending" =>
           IF Head(r.inbox).kind = "set-composition" THEN s.composition = Head(r.inbox).binding
                                                     ELSE s.composition = r.composition
  PROVE  WorkerOK(r) => WorkerOK(s)
  <1>1. r.inbox \in Seq(ToWorker)
    BY DEF WorkerSet
  <1> DEFINE x == Head(r.inbox)
  <1>2. /\ HasKind(r.inbox, "set-composition") <=> HasKind(s.inbox, "set-composition") \/ x.kind = "set-composition"
        /\ LastBinding(r.inbox, r.verdict) => \/ LastBinding(s.inbox, r.verdict) /\ HasKind(s.inbox, "set-composition")
                                              \/ /\ ~HasKind(s.inbox, "set-composition")
                                                 /\ x.kind = "set-composition" /\ x.binding = r.verdict
    BY <1>1, TailKind
  <1> HIDE DEF x
  <1> QED BY <1>2 DEF WorkerOK, Relayed, Truthful, x

\* WellWorkers that keep what was posted to and by them in order.
WellWorkers(ws) == ws \in [Modules -> WorkerSet] /\ \A m \in Modules : WorkerOK(ws[m])

\* A worker that is registered stays so, and does not take its announcement back.
Lives(ws, vs) ==
  \A m \in Modules : ws[m].stage \in Listed =>
    /\ vs[m].gen = ws[m].gen /\ vs[m].stage \in Listed
    /\ ws[m].announced => vs[m].announced

\* An answer is posted to a worker.
LEMMA PostFacts ==
  ASSUME NEW ws, WellWorkers(ws), NEW m \in Modules, NEW x \in [kind : {"reply"}, res : Results]
  PROVE  LET vs == Post(ws, m, x) IN
         /\ WellWorkers(vs) /\ Lives(ws, vs)
         /\ \A o \in Modules : o # m => vs[o] = ws[o]
         /\ vs[m].inbox = Append(ws[m].inbox, x) /\ vs[m].outbox = ws[m].outbox
         /\ vs[m].query = ws[m].query /\ vs[m].gen = ws[m].gen /\ vs[m].stage = ws[m].stage
  <1> DEFINE v == Append(ws[m].inbox, x)
  <1> DEFINE vs == [ws EXCEPT ![m].inbox = v]
  <1>1. ws \in [Modules -> WorkerSet] /\ ws[m] \in WorkerSet /\ ws[m].inbox \in Seq(ToWorker) /\ x \in ToWorker
    BY DEF WellWorkers, WorkerSet, ToWorker
  <1>2. v \in Seq(ToWorker)
    BY <1>1, AppendKind
  <1> HIDE DEF v
  <1>3. /\ vs \in [Modules -> WorkerSet] /\ \A o \in Modules : o # m => vs[o] = ws[o]
        /\ vs[m].inbox = v
        /\ vs[m].gen = ws[m].gen /\ vs[m].stage = ws[m].stage /\ vs[m].outbox = ws[m].outbox
        /\ vs[m].announced = ws[m].announced /\ vs[m].composition = ws[m].composition
        /\ vs[m].verdict = ws[m].verdict /\ vs[m].query = ws[m].query
    BY <1>1, <1>2, InboxSet
  <1>4. Post(ws, m, x) = vs
    BY DEF Post, v
  <1> HIDE DEF vs
  <1>5. WorkerOK(vs[m])
    <2>1. x.kind # "set-composition" /\ vs[m] \in WorkerSet /\ WorkerOK(ws[m])
      BY <1>3 DEF WellWorkers
    <2> QED BY <1>1, <1>3, <2>1, WorkerPosted DEF v
  <1>6. WellWorkers(vs)
    BY <1>3, <1>5 DEF WellWorkers
  <1>7. Lives(ws, vs)
    BY <1>3 DEF Lives
  <1> QED BY <1>3, <1>4, <1>6, <1>7 DEF v

\* A worker posts a message to main.
LEMMA SendFacts ==
  ASSUME NEW ws, WellWorkers(ws), NEW m \in Modules, NEW x \in ToMain, x.kind = "deviceonline" => ws[m].announced
  PROVE  LET vs == Send(ws, m, x) IN
         /\ WellWorkers(vs) /\ Lives(ws, vs)
         /\ \A o \in Modules : o # m => vs[o] = ws[o]
         /\ vs[m].outbox = Append(ws[m].outbox, x) /\ vs[m].inbox = ws[m].inbox
         /\ vs[m].query = ws[m].query /\ vs[m].gen = ws[m].gen /\ vs[m].stage = ws[m].stage
  <1> DEFINE v == Append(ws[m].outbox, x)
  <1> DEFINE vs == [ws EXCEPT ![m].outbox = v]
  <1>1. ws \in [Modules -> WorkerSet] /\ ws[m] \in WorkerSet /\ ws[m].outbox \in Seq(ToMain)
    BY DEF WellWorkers, WorkerSet
  <1>2. v \in Seq(ToMain)
    BY <1>1, AppendKind
  <1> HIDE DEF v
  <1>3. /\ vs \in [Modules -> WorkerSet] /\ \A o \in Modules : o # m => vs[o] = ws[o]
        /\ vs[m].outbox = v
        /\ vs[m].gen = ws[m].gen /\ vs[m].stage = ws[m].stage /\ vs[m].inbox = ws[m].inbox
        /\ vs[m].announced = ws[m].announced /\ vs[m].composition = ws[m].composition
        /\ vs[m].verdict = ws[m].verdict /\ vs[m].query = ws[m].query
    BY <1>1, <1>2, OutboxSet
  <1>4. Send(ws, m, x) = vs
    BY DEF Send, v
  <1> HIDE DEF vs
  <1>5. WorkerOK(vs[m])
    <2>1. vs[m] \in WorkerSet /\ WorkerOK(ws[m])
      BY <1>3 DEF WellWorkers
    <2> QED BY <1>1, <1>3, <2>1, WorkerSends DEF v
  <1>6. WellWorkers(vs)
    BY <1>3, <1>5 DEF WellWorkers
  <1>7. Lives(ws, vs)
    BY <1>3 DEF Lives
  <1> QED BY <1>3, <1>4, <1>6, <1>7 DEF v

\* One message is taken from a worker's outbox.
LEMMA TakenFacts ==
  ASSUME NEW ws, WellWorkers(ws), NEW m \in Modules, ws[m].outbox # <<>>
  PROVE  LET vs == [ws EXCEPT ![m].outbox = Tail(@)] IN
         /\ WellWorkers(vs) /\ Lives(ws, vs) /\ Head(ws[m].outbox) \in ToMain
         /\ Head(ws[m].outbox).kind = "deviceonline" => vs[m].announced
         /\ \A o \in Modules : o # m => vs[o] = ws[o]
         /\ vs[m].outbox = Tail(ws[m].outbox) /\ vs[m].inbox = ws[m].inbox
         /\ vs[m].query = ws[m].query /\ vs[m].gen = ws[m].gen /\ vs[m].stage = ws[m].stage
  <1> DEFINE v == Tail(ws[m].outbox)
  <1> DEFINE vs == [ws EXCEPT ![m].outbox = v]
  <1>1. ws \in [Modules -> WorkerSet] /\ ws[m] \in WorkerSet /\ ws[m].outbox \in Seq(ToMain)
    BY DEF WellWorkers, WorkerSet
  <1>2. v \in Seq(ToMain) /\ Head(ws[m].outbox) \in ToMain
    BY <1>1, TailKind
  <1> HIDE DEF v
  <1>3. /\ vs \in [Modules -> WorkerSet] /\ \A o \in Modules : o # m => vs[o] = ws[o]
        /\ vs[m].outbox = v
        /\ vs[m].gen = ws[m].gen /\ vs[m].stage = ws[m].stage /\ vs[m].inbox = ws[m].inbox
        /\ vs[m].announced = ws[m].announced /\ vs[m].composition = ws[m].composition
        /\ vs[m].verdict = ws[m].verdict /\ vs[m].query = ws[m].query
    BY <1>1, <1>2, OutboxSet
  <1>4. [ws EXCEPT ![m].outbox = Tail(@)] = vs
    BY DEF v
  <1> HIDE DEF vs
  <1>5. WorkerOK(vs[m]) /\ (Head(ws[m].outbox).kind = "deviceonline" => vs[m].announced)
    <2>1. vs[m] \in WorkerSet /\ WorkerOK(ws[m])
      BY <1>3 DEF WellWorkers
    <2> QED BY <1>1, <1>3, <2>1, WorkerSent DEF v
  <1>6. WellWorkers(vs)
    BY <1>3, <1>5 DEF WellWorkers
  <1>7. Lives(ws, vs)
    BY <1>3 DEF Lives
  <1> QED BY <1>2, <1>3, <1>4, <1>5, <1>6, <1>7 DEF v

\* A worker moves on to another stage, a registered one stays registered.
LEMMA StageFacts ==
  ASSUME NEW ws, WellWorkers(ws), NEW m \in Modules, NEW vs \in [Modules -> WorkerSet],
         \A o \in Modules : o # m => vs[o] = ws[o],
         vs[m].gen = ws[m].gen, vs[m].outbox = ws[m].outbox, vs[m].inbox = ws[m].inbox,
         vs[m].announced = ws[m].announced, vs[m].composition = ws[m].composition,
         vs[m].verdict = ws[m].verdict, ws[m].stage # "ending"
  PROVE  /\ WellWorkers(vs)
         /\ (ws[m].stage \in Listed => vs[m].stage \in Listed) => Lives(ws, vs)
  <1>1. ws[m] \in WorkerSet /\ WorkerOK(ws[m]) /\ vs[m] \in WorkerSet
    BY DEF WellWorkers
  <1>2. WorkerOK(vs[m])
    BY <1>1, WorkerSame
  <1> QED BY <1>2 DEF WellWorkers, Lives

\* The workers a query of q is answered to.
Answers(ws, q, m) ==
  ws[m].stage \in Threaded /\ \E e \in q : e.kind = "query" /\ e.w = <<m, ws[m].gen>>

\* Every worker that is there and has a query in q is answered.
LEMMA AnswerAllFacts ==
  ASSUME NEW ws, WellWorkers(ws), NEW q, NEW res \in Results
  PROVE  LET vs == AnswerAll(ws, q, res) IN
         /\ WellWorkers(vs) /\ Lives(ws, vs)
         /\ \A m \in Modules : vs[m].gen = ws[m].gen /\ vs[m].stage = ws[m].stage
  <1> DEFINE vs == AnswerAll(ws, q, res)
  <1> DEFINE x == [kind |-> "reply", res |-> res]
  <1>1. x \in [kind : {"reply"}, res : Results]
    OBVIOUS
  <1> HIDE DEF x
  <1>2. vs = [m \in Modules |-> IF Answers(ws, q, m) THEN [ws[m] EXCEPT !.inbox = Append(@, x)] ELSE ws[m]]
    BY DEF AnswerAll, Answers, x
  <1> HIDE DEF vs
  <1>3. ASSUME NEW m \in Modules
        PROVE  /\ vs[m] \in WorkerSet /\ WorkerOK(vs[m])
               /\ vs[m].gen = ws[m].gen /\ vs[m].stage = ws[m].stage
               /\ ws[m].stage \in Listed => vs[m].stage \in Listed /\ (ws[m].announced => vs[m].announced)
    <2>1. CASE Answers(ws, q, m)
      <3> DEFINE us == Post(ws, m, x)
      <3>1. ws \in [Modules -> WorkerSet]
        BY DEF WellWorkers
      <3>2. us[m] = [ws[m] EXCEPT !.inbox = Append(@, x)]
        BY <3>1 DEF Post
      <3>3. vs[m] = us[m]
        BY <1>2, <2>1, <3>2
      <3>4. WellWorkers(us) /\ Lives(ws, us) /\ us[m].gen = ws[m].gen /\ us[m].stage = ws[m].stage
        BY <1>1, PostFacts
      <3> HIDE DEF us
      <3> QED BY <3>3, <3>4 DEF WellWorkers, Lives
    <2>2. CASE ~Answers(ws, q, m)
      <3>1. vs[m] = ws[m]
        BY <1>2, <2>2
      <3> QED BY <3>1 DEF WellWorkers
    <2> QED BY <2>1, <2>2
  <1>4. vs \in [Modules -> WorkerSet]
    BY <1>2, <1>3
  <1>5. WellWorkers(vs) /\ Lives(ws, vs)
    BY <1>3, <1>4 DEF WellWorkers, Lives
  <1> QED BY <1>3, <1>5 DEF vs

\* The types of what a count or a verdict changes besides the workers.
MainTypes ==
  /\ notifyDeviceLoad \in [Devices -> SUBSET Entries] /\ jobs \subseteq JobSet
  /\ allDevicesLoaded \in BOOLEAN /\ startupDone \in BOOLEAN /\ passes \in Nat

\* Staying through one step and then another.
LEMMA LivesThrough ==
  ASSUME NEW us, NEW vs, NEW ws, Lives(us, vs), Lives(vs, ws)
  PROVE  Lives(us, ws)
  BY DEF Lives

(* What keeps the two tables true. *)

\* What is queued is owed, unless the queues are jammed.
Owed ==
  ~Jammed => \A d \in Devices : notifyDeviceLoad[d] # {} => ~allDevicesLoaded /\ deviceMap[d] = None

\* A query is of a worker that is registered, or was heard of late.
AskerKnown(w) == Stands(w, Listed) \/ w \in late

\* A device is mapped to a worker that serves it.
Served(d) ==
  deviceMap[d] # None =>
    /\ DeviceOf[deviceMap[d][1]] = d
    /\ \/ Stands(deviceMap[d], Listed) /\ worker[deviceMap[d][1]].announced
       \/ deviceMap[d] \in late

\* The tables hold nothing of worker w.
Dropped(w) ==
  \A d \in Devices : /\ deviceMap[d] = None \/ deviceMap[d] # w
                     /\ \A e \in notifyDeviceLoad[d] : e.kind = "query" => e.w # w

\* The tables stay true while the workers in them stay, whatever is new in them is
\* true, and what is queued is owed.
LEMMA TablesKept ==
  ASSUME DiscoveryTypeOK, TablesAgree, DiscoveryTypeOK', late \subseteq late', Owed',
         \A m \in Modules : worker[m].stage \in Listed =>
           \/ /\ worker'[m].gen = worker[m].gen /\ worker'[m].stage \in Listed
              /\ worker[m].announced => worker'[m].announced
           \/ worker'[m].gen = worker[m].gen /\ Dropped(<<m, worker[m].gen>>)',
         \A d \in Devices : deviceMap'[d] = deviceMap[d] \/ Served(d)',
         \A d \in Devices : \A e \in notifyDeviceLoad'[d] :
           e \in notifyDeviceLoad[d] \/ (e.kind = "query" => AskerKnown(e.w)')
  PROVE  TablesAgree'
  <1>1. ASSUME NEW w \in Generations, ~Dropped(w)', Stands(w, Listed)
        PROVE  /\ w[1] \in Modules /\ Stands(w, Listed)'
               /\ worker[w[1]].announced => worker'[w[1]].announced
    <2>1. w[1] \in Modules /\ w = <<w[1], w[2]>>
      BY DEF Generations
    <2>2. worker[w[1]].gen = w[2] /\ worker[w[1]].stage \in Listed
      BY <1>1 DEF Stands
    <2>3. w = <<w[1], worker[w[1]].gen>>
      BY <2>1, <2>2
    <2>4. CASE worker'[w[1]].gen = worker[w[1]].gen
      <3>1. ~Dropped(<<w[1], worker[w[1]].gen>>)'
        BY <1>1, <2>3, <2>4
      <3> QED BY <2>1, <2>2, <2>4, <3>1 DEF Stands
    <2>5. CASE worker'[w[1]].gen # worker[w[1]].gen
      BY <2>1, <2>2, <2>5 DEF Stands
    <2> QED BY <2>4, <2>5
  <1>2. ASSUME NEW d \in Devices
        PROVE  Served(d)'
    <2> SUFFICES ASSUME deviceMap'[d] = deviceMap[d], deviceMap[d] # None
                 PROVE  Served(d)'
      BY DEF Served
    <2>1. deviceMap[d] \in Generations
      BY DEF DiscoveryTypeOK
    <2>2. ~Dropped(deviceMap[d])'
      <3> DEFINE w == deviceMap[d]
      <3>1. deviceMap'[d] = w
        OBVIOUS
      <3> HIDE DEF w
      <3>2. ~Dropped(w)' \/ deviceMap[d]' # deviceMap[d]
        BY <3>1 DEF Dropped, w
      <3> QED BY <3>2 DEF w, Dropped
    <2>3. /\ DeviceOf[deviceMap[d][1]] = d
          /\ \/ Stands(deviceMap[d], Listed) /\ worker[deviceMap[d][1]].announced
             \/ deviceMap[d] \in late
      BY DEF TablesAgree, MappedIsServed
    <2>4. CASE deviceMap[d] \in late
      BY <2>3, <2>4 DEF Served
    <2>5. CASE Stands(deviceMap[d], Listed) /\ worker[deviceMap[d][1]].announced
      BY <1>1, <2>1, <2>2, <2>3, <2>5 DEF Served, Stands
    <2> QED BY <2>3, <2>4, <2>5
  <1>3. ASSUME NEW d \in Devices, NEW e \in notifyDeviceLoad'[d], e.kind = "query"
        PROVE  AskerKnown(e.w)'
    <2>1. CASE e \in notifyDeviceLoad[d]
      <3>1. e.w \in Generations
        BY <2>1 DEF DiscoveryTypeOK, Entries
      <3>2. Stands(e.w, Listed) \/ e.w \in late
        BY <1>3, <2>1 DEF TablesAgree, QueuedIsOwed
      <3>3. ~Dropped(e.w)'
        BY <1>3 DEF Dropped
      <3> QED BY <1>1, <3>1, <3>2, <3>3 DEF AskerKnown, Stands
    <2> QED BY <1>3, <2>1
  <1>4. MappedIsServed'
    BY <1>2 DEF MappedIsServed, Served
  <1> QED BY <1>3, <1>4 DEF TablesAgree, QueuedIsOwed, Owed, AskerKnown

\* Dropping queries, unmapping devices and another module to discover leave what
\* is queued owed.
LEMMA OwedKept ==
  ASSUME Owed, allDevicesLoaded' = allDevicesLoaded \/ allDevicesLoaded' = FALSE,
         \A d \in Devices : deviceMap'[d] = deviceMap[d] \/ deviceMap'[d] = None,
         \A d \in Devices : notifyDeviceLoad'[d] \subseteq notifyDeviceLoad[d],
         \A d \in Devices : \A e \in notifyDeviceLoad[d] : e.kind # "query" => e \in notifyDeviceLoad'[d]
  PROVE  Owed'
  <1>1. Jammed => Jammed'
    BY DEF Jammed, Queued, FromWorkers
  <1> QED BY <1>1 DEF Owed

\* The steps of workers, and of main, that touch neither table.
LEMMA TablesSame ==
  ASSUME DiscoveryTypeOK, TablesAgree, DiscoveryTypeOK', Lives(worker, worker'),
         late \subseteq late', UNCHANGED <<deviceMap, notifyDeviceLoad>>,
         allDevicesLoaded' = allDevicesLoaded \/ allDevicesLoaded' = FALSE
  PROVE  TablesAgree'
  <1>1. Owed
    BY DEF TablesAgree, QueuedIsOwed, Owed
  <1>2. Owed'
    BY <1>1, OwedKept
  <1> QED BY <1>2, TablesKept DEF Lives

\* The drain of the queues, and the pass that begins with it.
LEMMA AllDiscoveredFacts ==
  ASSUME DiscoveryTypeOK, Owed, NEW ws, WellWorkers(ws), onAllModulesDiscovered(ws), UNCHANGED deviceMap
  PROVE  /\ WellWorkers(worker') /\ Lives(ws, worker') /\ MainTypes' /\ Owed'
         /\ \A d \in Devices : notifyDeviceLoad'[d] \subseteq notifyDeviceLoad[d]
  <1>1. \A d \in Devices : deviceMap[d] # None => deviceMap[d] \in Generations
    BY DEF DiscoveryTypeOK
  <1>2. "missing" \in Results /\ allDevicesLoaded' = TRUE
    BY DEF onAllModulesDiscovered, Results
  <1>3. CASE /\ worker' = AnswerAll(ws, Queued, "missing") /\ notifyDeviceLoad' = [d \in Devices |-> {}]
             /\ startupDone' = TRUE /\ passes' = passes + 1 /\ jobs' = jobs \cup Pass
    <2>1. WellWorkers(worker') /\ Lives(ws, worker')
      BY <1>2, <1>3, AnswerAllFacts
    <2>2. notifyDeviceLoad' \in [Devices -> SUBSET Entries] /\ startupDone' \in BOOLEAN /\ passes' \in Nat
      BY <1>3 DEF DiscoveryTypeOK
    <2>3. jobs' \subseteq JobSet
      BY <1>1, <1>3 DEF Pass, DiscoveryTypeOK, JobSet
    <2>4. Owed' /\ \A d \in Devices : notifyDeviceLoad'[d] \subseteq notifyDeviceLoad[d]
      BY <1>3 DEF Owed
    <2> QED BY <1>2, <2>1, <2>2, <2>3, <2>4 DEF MainTypes
  <1>4. CASE \E bare \in Devices :
               /\ ~FromWorkers(notifyDeviceLoad[bare])
               /\ \E done \in SUBSET {d \in Devices : FromWorkers(notifyDeviceLoad[d])},
                    front \in SUBSET notifyDeviceLoad[bare] :
                    /\ worker' = AnswerAll(ws, front \cup UNION {notifyDeviceLoad[d] : d \in done}, "missing")
                    /\ notifyDeviceLoad' = [d \in Devices |-> IF d \in done THEN {} ELSE notifyDeviceLoad[d]]
               /\ UNCHANGED <<startupDone, passes, jobs>>
    <2>1. PICK bare \in Devices, done \in SUBSET {d \in Devices : FromWorkers(notifyDeviceLoad[d])} :
            /\ ~FromWorkers(notifyDeviceLoad[bare])
            /\ \E q : worker' = AnswerAll(ws, q, "missing")
            /\ notifyDeviceLoad' = [d \in Devices |-> IF d \in done THEN {} ELSE notifyDeviceLoad[d]]
            /\ UNCHANGED <<startupDone, passes, jobs>>
      BY <1>4
    <2>2. WellWorkers(worker') /\ Lives(ws, worker')
      BY <1>2, <2>1, AnswerAllFacts
    <2>3. notifyDeviceLoad' \in [Devices -> SUBSET Entries]
          /\ \A d \in Devices : notifyDeviceLoad'[d] \subseteq notifyDeviceLoad[d]
      BY <2>1 DEF DiscoveryTypeOK
    <2>4. notifyDeviceLoad'[bare] = notifyDeviceLoad[bare]
      BY <2>1
    <2>5. Jammed'
      BY <2>1, <2>4 DEF Jammed, Queued, FromWorkers
    <2> QED BY <1>2, <2>1, <2>2, <2>3, <2>5 DEF MainTypes, DiscoveryTypeOK, Owed
  <1> QED BY <1>3, <1>4 DEF onAllModulesDiscovered

\* One more module is counted.
LEMMA CountedFacts ==
  ASSUME DiscoveryTypeOK, Owed, NEW ws, WellWorkers(ws), Counted(ws), UNCHANGED deviceMap
  PROVE  /\ WellWorkers(worker') /\ Lives(ws, worker') /\ MainTypes' /\ noofLoadedModules' \in Nat /\ Owed'
         /\ \A d \in Devices : notifyDeviceLoad'[d] \subseteq notifyDeviceLoad[d]
  <1>1. noofLoadedModules' \in Nat
    BY LenProperties, DiscoveryAssumption DEF Counted, DiscoveryTypeOK, noofTotalModules
  <1>2. CASE onAllModulesDiscovered(ws)
    BY <1>1, <1>2, AllDiscoveredFacts
  <1>3. CASE worker' = ws /\ UNCHANGED <<allDevicesLoaded, notifyDeviceLoad, startupDone, passes, jobs>>
    <2>1. Owed'
      BY <1>3, OwedKept
    <2> QED BY <1>1, <1>3, <2>1 DEF MainTypes, DiscoveryTypeOK, Lives
  <1> QED BY <1>2, <1>3 DEF Counted

\* A worker with nothing on its way and no verdict.
LEMMA QuietWorker ==
  ASSUME NEW r, r.inbox = <<>>, r.outbox = <<>>, r.composition = r.verdict
  PROVE  WorkerOK(r)
  <1>1. \A k : ~HasKind(<<>>, k)
    <2>1. DOMAIN <<>> = {}
      OBVIOUS
    <2> QED BY <2>1 DEF HasKind
  <1> QED BY <1>1 DEF WorkerOK, Relayed, Truthful

\* A worker that has just been spawned.
LEMMA FreshWorker ==
  ASSUME NEW g \in Nat
  PROVE  NewWorker(g) \in WorkerSet /\ WorkerOK(NewWorker(g)) /\ NewWorker(g).gen = g
  <1> DEFINE r == NewWorker(g)
  <1>1. <<>> \in Seq(ToWorker) /\ <<>> \in Seq(ToMain)
    OBVIOUS
  <1>2. r.inbox = <<>> /\ r.outbox = <<>> /\ r.composition = r.verdict /\ r.gen = g
    BY DEF NewWorker
  <1>3. r \in WorkerSet
    BY <1>1 DEF NewWorker, WorkerSet, Bindings, Results, WorkerStages
  <1> HIDE DEF r
  <1>4. WorkerOK(r)
    BY <1>2, QuietWorker
  <1> QED BY <1>2, <1>3, <1>4 DEF r

\* Spawns, failed loads and loads.
LEMMA DeviceLoadStep ==
  ASSUME DiscoveryInv, NEW m \in Modules, Spawn(m) \/ LoadFails(m) \/ onModuleLoad(m)
  PROVE  DiscoveryInv'
  <1>1. /\ DiscoveryTypeOK /\ WellWorkers(worker) /\ TablesAgree /\ worker \in [Modules -> WorkerSet]
        /\ worker[m] \in WorkerSet /\ worker[m].gen \in Nat
    BY DEF DiscoveryInv, WellWorkers, DiscoveryTypeOK, WorkerSet
  <1>2. Len(Startup) \in Nat /\ Owed
    BY <1>1, DiscoveryAssumption, LenProperties DEF TablesAgree, QueuedIsOwed, Owed
  <1>3. CASE Spawn(m)
    <2> DEFINE r == NewWorker(worker[m].gen + 1)
    <2>1. worker' = [worker EXCEPT ![m] = r] /\ worker[m].stage \notin Listed
      BY <1>3 DEF Spawn, Listed, Alive
    <2>2. r \in WorkerSet /\ WorkerOK(r)
      <3>1. worker[m].gen + 1 \in Nat
        BY <1>1
      <3> QED BY <3>1, FreshWorker
    <2> HIDE DEF r
    <2>3. WellWorkers(worker')
      BY <1>1, <2>1, <2>2 DEF WellWorkers
    <2>4. Lives(worker, worker')
      BY <1>1, <2>1 DEF WellWorkers, Lives
    <2>5. UNCHANGED <<next, noofLoadedModules, ends, deviceMap, notifyDeviceLoad,
                      allDevicesLoaded, startupDone, jobs, passes, late>>
      BY <1>3 DEF Spawn
    <2>6. DiscoveryTypeOK'
      BY <1>1, <2>3, <2>5 DEF WellWorkers, DiscoveryTypeOK
    <2>7. TablesAgree'
      BY <1>1, <2>4, <2>5, <2>6, TablesSame
    <2> QED BY <2>3, <2>6, <2>7 DEF DiscoveryInv, WellWorkers
  <1>4. CASE LoadFails(m)
    <2> DEFINE st == IF worker[m].gen = 1 THEN "refused" ELSE "down"
    <2> DEFINE ws == [worker EXCEPT ![m].stage = st]
    <2>1. st \in WorkerStages /\ worker[m].stage \notin Listed /\ worker[m].stage # "ending"
      BY <1>4 DEF WorkerStages, LoadFails, Listed, Alive
    <2> HIDE DEF st
    <2>2. WellWorkers(ws) /\ Lives(worker, ws)
      <3>1. /\ ws \in [Modules -> WorkerSet] /\ \A o \in Modules : o # m => ws[o] = worker[o]
            /\ ws[m].gen = worker[m].gen /\ ws[m].outbox = worker[m].outbox /\ ws[m].inbox = worker[m].inbox
            /\ ws[m].announced = worker[m].announced /\ ws[m].composition = worker[m].composition
            /\ ws[m].verdict = worker[m].verdict
        BY <1>1, <2>1, StageSet
      <3> HIDE DEF ws
      <3> QED BY <1>1, <2>1, <3>1, StageFacts
    <2>3. UNCHANGED <<deviceMap, late>> /\ ends' \in Nat
      BY <1>1, <1>4 DEF LoadFails, DiscoveryTypeOK
    <2>4. \/ StartupTurn(m) /\ StartupFails(ws)
          \/ worker' = ws /\ UNCHANGED <<next, noofLoadedModules, allDevicesLoaded, notifyDeviceLoad, startupDone, passes, jobs>>
      BY <1>4 DEF LoadFails, st
    <2> HIDE DEF ws
    <2>5. /\ WellWorkers(worker') /\ Lives(ws, worker') /\ MainTypes' /\ noofLoadedModules' \in Nat /\ Owed'
          /\ next' \in 1 .. (Len(Startup) + 1)
          /\ \A d \in Devices : notifyDeviceLoad'[d] \subseteq notifyDeviceLoad[d]
      <3>1. CASE StartupTurn(m) /\ StartupFails(ws)
        <4>1. next' = next + 1 /\ next <= Len(Startup) /\ next \in 1 .. (Len(Startup) + 1) /\ Counted(ws)
          BY <1>1, <3>1 DEF StartupTurn, StartupFails, DiscoveryTypeOK
        <4> QED BY <1>1, <1>2, <2>2, <2>3, <4>1, CountedFacts
      <3>2. CASE worker' = ws /\ UNCHANGED <<next, noofLoadedModules, allDevicesLoaded, notifyDeviceLoad, startupDone, passes, jobs>>
        <4>1. Owed'
          BY <1>2, <2>3, <3>2, OwedKept
        <4> QED BY <1>1, <2>2, <3>2, <4>1 DEF MainTypes, DiscoveryTypeOK, Lives
      <3> QED BY <2>4, <3>1, <3>2
    <2>6. Lives(worker, worker')
      BY <2>2, <2>5, LivesThrough
    <2>7. DiscoveryTypeOK'
      BY <1>1, <2>3, <2>5 DEF MainTypes, WellWorkers, DiscoveryTypeOK
    <2>8. TablesAgree'
      BY <1>1, <2>3, <2>5, <2>6, <2>7, TablesKept DEF Lives
    <2> QED BY <2>5, <2>7, <2>8 DEF DiscoveryInv, WellWorkers
  <1>5. CASE onModuleLoad(m)
    <2>1. worker' = [worker EXCEPT ![m].stage = "discovering"] /\ allDevicesLoaded' = FALSE
          /\ UNCHANGED <<noofLoadedModules, ends, deviceMap, notifyDeviceLoad, startupDone, jobs, passes, late>>
      BY <1>5 DEF onModuleLoad, Discover, onModuleDiscovering
    <2>2. "discovering" \in WorkerStages \cap Listed /\ worker[m].stage # "ending"
      BY <1>5 DEF WorkerStages, Listed, Alive, onModuleLoad
    <2>3. WellWorkers(worker') /\ Lives(worker, worker')
      <3>1. /\ worker' \in [Modules -> WorkerSet] /\ \A o \in Modules : o # m => worker'[o] = worker[o]
            /\ worker'[m].stage = "discovering"
            /\ worker'[m].gen = worker[m].gen /\ worker'[m].outbox = worker[m].outbox /\ worker'[m].inbox = worker[m].inbox
            /\ worker'[m].announced = worker[m].announced /\ worker'[m].composition = worker[m].composition
            /\ worker'[m].verdict = worker[m].verdict
        BY <1>1, <2>1, <2>2, StageSet
      <3> QED BY <1>1, <2>2, <3>1, StageFacts
    <2>4. next' \in 1 .. (Len(Startup) + 1)
      BY <1>1, <1>2, <1>5 DEF onModuleLoad, StartupTurn, DiscoveryTypeOK
    <2>5. DiscoveryTypeOK'
      BY <1>1, <2>1, <2>3, <2>4 DEF WellWorkers, DiscoveryTypeOK
    <2>6. TablesAgree'
      BY <1>1, <2>1, <2>3, <2>5, TablesSame
    <2> QED BY <2>3, <2>5, <2>6 DEF DiscoveryInv, WellWorkers
  <1> QED BY <1>3, <1>4, <1>5

\* What a worker does with the next message from main.
LEMMA ReceivesFacts ==
  ASSUME WellWorkers(worker), NEW m \in Modules, WorkerReceives(m)
  PROVE  WellWorkers(worker') /\ Lives(worker, worker')
  <1> DEFINE msg == Head(worker[m].inbox)
  <1> DEFINE v == Tail(worker[m].inbox)
  <1> DEFINE ws == [worker EXCEPT ![m].inbox = v]
  <1>1. /\ worker \in [Modules -> WorkerSet] /\ worker[m] \in WorkerSet /\ worker[m].inbox \in Seq(ToWorker)
        /\ worker[m].inbox # <<>> /\ WorkerOK(worker[m]) /\ worker[m].outbox \in Seq(ToMain)
    BY DEF WellWorkers, WorkerSet, WorkerReceives
  <1>2. v \in Seq(ToWorker) /\ msg \in ToWorker
    BY <1>1, TailKind
  <1>3. worker' = CASE msg.kind = "reply" -> QueryAnswered(ws, m, msg)
                    [] msg.kind = "set-composition" -> SetComposition(ws, m, msg)
    BY DEF WorkerReceives
  <1> HIDE DEF v, msg
  <1>4. /\ ws \in [Modules -> WorkerSet] /\ \A o \in Modules : o # m => ws[o] = worker[o]
        /\ ws[m].inbox = v
        /\ ws[m].gen = worker[m].gen /\ ws[m].stage = worker[m].stage /\ ws[m].outbox = worker[m].outbox
        /\ ws[m].announced = worker[m].announced /\ ws[m].composition = worker[m].composition
        /\ ws[m].verdict = worker[m].verdict /\ ws[m].query = worker[m].query
    BY <1>1, <1>2, InboxSet
  <1> HIDE DEF ws
  <1>5. CASE msg.kind = "reply"
    <2> DEFINE r == IF ws[m].query = "waiting" THEN msg.res ELSE ws[m].query
    <2>1. worker' = [ws EXCEPT ![m].query = r] /\ r \in Results \cup {"none", "waiting"}
      BY <1>2, <1>3, <1>4, <1>5 DEF QueryAnswered, ToWorker, WorkerSet
    <2> HIDE DEF r
    <2>2. /\ worker' \in [Modules -> WorkerSet] /\ \A o \in Modules : o # m => worker'[o] = ws[o]
          /\ worker'[m].gen = ws[m].gen /\ worker'[m].stage = ws[m].stage /\ worker'[m].outbox = ws[m].outbox
          /\ worker'[m].announced = ws[m].announced /\ worker'[m].composition = ws[m].composition
          /\ worker'[m].verdict = ws[m].verdict /\ worker'[m].inbox = ws[m].inbox
      BY <1>4, <2>1, QuerySet
    <2>3. worker'[m] \in WorkerSet
      BY <2>2
    <2>4. WorkerOK(worker'[m])
      BY <1>1, <1>4, <1>5, <2>2, <2>3, WorkerTakes DEF v, msg
    <2>5. WellWorkers(worker')
      BY <1>4, <2>2, <2>4 DEF WellWorkers
    <2>6. Lives(worker, worker')
      BY <1>4, <2>2 DEF Lives
    <2> QED BY <2>5, <2>6
  <1>6. CASE msg.kind # "reply"
    <2>1. msg.kind = "set-composition" /\ msg.binding \in Bindings /\ msg.job \in JobSet
      BY <1>2, <1>6 DEF ToWorker
    <2> DEFINE us == IF ws[m].stage = "ending" THEN ws ELSE [ws EXCEPT ![m].composition = msg.binding]
    <2> DEFINE x == [kind |-> "bound", job |-> msg.job]
    <2>2. worker' = Send(us, m, x)
      BY <1>3, <2>1 DEF SetComposition
    <2>3. /\ us \in [Modules -> WorkerSet] /\ \A o \in Modules : o # m => us[o] = ws[o]
          /\ us[m].stage # "ending" => us[m].composition = msg.binding
          /\ us[m].gen = ws[m].gen /\ us[m].stage = ws[m].stage /\ us[m].outbox = ws[m].outbox
          /\ us[m].announced = ws[m].announced /\ us[m].query = ws[m].query
          /\ us[m].verdict = ws[m].verdict /\ us[m].inbox = ws[m].inbox
      BY <1>4, <2>1, CompositionSet
    <2>4. x \in ToMain /\ x.kind = "bound"
      BY <2>1 DEF ToMain
    <2> HIDE DEF us, x
    <2>5. us[m] \in WorkerSet
      BY <2>3
    <2>6. WorkerOK(us[m])
      BY <1>1, <1>4, <2>1, <2>3, <2>5, WorkerTakes DEF v, msg
    <2>7. WellWorkers(us)
      BY <1>4, <2>3, <2>6 DEF WellWorkers
    <2>8. /\ WellWorkers(worker') /\ Lives(us, worker')
          /\ \A o \in Modules : o # m => worker'[o] = us[o]
          /\ worker'[m].outbox = Append(us[m].outbox, x) /\ worker'[m].inbox = us[m].inbox
          /\ worker'[m].query = us[m].query /\ worker'[m].gen = us[m].gen /\ worker'[m].stage = us[m].stage
      BY <2>2, <2>4, <2>7, SendFacts
    <2>9. Lives(worker, worker')
      <3>1. Lives(worker, us)
        BY <1>4, <2>3 DEF Lives
      <3> QED BY <2>8, <3>1, LivesThrough
    <2> QED BY <2>8, <2>9
  <1> QED BY <1>5, <1>6

\* What a worker does by itself: it announces its device, its discovery ends, or it asks.
LEMMA SpeaksFacts ==
  ASSUME WellWorkers(worker), NEW m \in Modules,
         Announce(m) \/ DiscoverTimer(m) \/ \E d \in Devices : AskDevice(m, d)
  PROVE  WellWorkers(worker') /\ Lives(worker, worker')
  <1>1. worker \in [Modules -> WorkerSet] /\ worker[m] \in WorkerSet /\ WorkerOK(worker[m])
    BY DEF WellWorkers
  <1>2. ASSUME NEW ws, NEW x \in ToMain, worker' = Send(ws, m, x),
               ws \in [Modules -> WorkerSet], \A o \in Modules : o # m => ws[o] = worker[o],
               ws[m].gen = worker[m].gen, ws[m].stage = worker[m].stage, ws[m].outbox = worker[m].outbox,
               ws[m].composition = worker[m].composition, ws[m].verdict = worker[m].verdict,
               ws[m].inbox = worker[m].inbox, worker[m].announced => ws[m].announced,
               x.kind = "deviceonline" => ws[m].announced
        PROVE  WellWorkers(worker') /\ Lives(worker, worker')
    <2>1. ws[m] \in WorkerSet
      BY <1>2
    <2>2. WorkerOK(ws[m])
      BY <1>1, <1>2, <2>1, WorkerSame
    <2>3. WellWorkers(ws)
      BY <1>1, <1>2, <2>2 DEF WellWorkers
    <2>4. Lives(worker, ws)
      BY <1>2 DEF Lives
    <2>5. /\ WellWorkers(worker') /\ Lives(ws, worker')
          /\ \A o \in Modules : o # m => worker'[o] = ws[o]
          /\ worker'[m].outbox = Append(ws[m].outbox, x) /\ worker'[m].inbox = ws[m].inbox
          /\ worker'[m].query = ws[m].query /\ worker'[m].gen = ws[m].gen /\ worker'[m].stage = ws[m].stage
      <3>1. worker' = Send(ws, m, x) /\ (x.kind = "deviceonline" => ws[m].announced)
        BY <1>2
      <3> HIDE <1>2
      <3> QED BY <2>3, <3>1, SendFacts
    <2> QED BY <1>2, <2>4, <2>5, LivesThrough
  <1>3. CASE Announce(m)
    <2> DEFINE ws == [worker EXCEPT ![m].announced = TRUE]
    <2> DEFINE x == [kind |-> "deviceonline"]
    <2>1. worker' = Send(ws, m, x) /\ x \in ToMain /\ x.kind = "deviceonline"
      BY <1>3 DEF Announce, Announced, ToMain
    <2>2. /\ ws \in [Modules -> WorkerSet] /\ \A o \in Modules : o # m => ws[o] = worker[o]
          /\ ws[m].announced
          /\ ws[m].gen = worker[m].gen /\ ws[m].stage = worker[m].stage /\ ws[m].outbox = worker[m].outbox
          /\ ws[m].composition = worker[m].composition /\ ws[m].query = worker[m].query
          /\ ws[m].verdict = worker[m].verdict /\ ws[m].inbox = worker[m].inbox
      BY <1>1, AnnouncedSet
    <2> HIDE DEF ws, x
    <2> QED BY <1>2, <2>1, <2>2
  <1>4. CASE DiscoverTimer(m)
    <2> DEFINE ws == [worker EXCEPT ![m].timer = "fired"]
    <2> DEFINE x == [kind |-> "discovered"]
    <2>1. worker' = Send(ws, m, x) /\ x \in ToMain /\ x.kind = "discovered"
      BY <1>4 DEF DiscoverTimer, StopDiscover, ToMain
    <2>2. /\ ws \in [Modules -> WorkerSet] /\ \A o \in Modules : o # m => ws[o] = worker[o]
          /\ ws[m].announced = worker[m].announced
          /\ ws[m].gen = worker[m].gen /\ ws[m].stage = worker[m].stage /\ ws[m].outbox = worker[m].outbox
          /\ ws[m].composition = worker[m].composition /\ ws[m].query = worker[m].query
          /\ ws[m].verdict = worker[m].verdict /\ ws[m].inbox = worker[m].inbox
      BY <1>1, TimerSet
    <2> HIDE DEF ws, x
    <2> QED BY <1>2, <2>1, <2>2
  <1>5. CASE \E d \in Devices : AskDevice(m, d)
    <2>1. PICK d \in Devices : AskDevice(m, d)
      BY <1>5
    <2> DEFINE ws == [worker EXCEPT ![m].query = "waiting"]
    <2> DEFINE x == [kind |-> "query", dev |-> d]
    <2>2. worker' = Send(ws, m, x) /\ x \in ToMain /\ x.kind = "query" /\ worker[m].query = "none"
      BY <2>1 DEF AskDevice, ToMain
    <2>3. /\ ws \in [Modules -> WorkerSet] /\ \A o \in Modules : o # m => ws[o] = worker[o]
          /\ ws[m].query = "waiting"
          /\ ws[m].gen = worker[m].gen /\ ws[m].stage = worker[m].stage /\ ws[m].outbox = worker[m].outbox
          /\ ws[m].composition = worker[m].composition /\ ws[m].announced = worker[m].announced
          /\ ws[m].verdict = worker[m].verdict /\ ws[m].inbox = worker[m].inbox
      BY <1>1, QuerySet
    <2> HIDE DEF ws, x
    <2> QED BY <1>2, <2>2, <2>3
  <1> QED BY <1>3, <1>4, <1>5

\* The verdict's way to the worker.
LEMMA VerdictFacts ==
  ASSUME DiscoveryTypeOK, WellWorkers(worker), NEW j \in jobs, NEW ok \in BOOLEAN, Verdict(j, ok)
  PROVE  /\ WellWorkers(worker') /\ Lives(worker, worker') /\ UNCHANGED notifyDeviceLoad
         /\ jobs' \subseteq JobSet
         /\ \A d \in Devices : deviceMap'[d] = deviceMap[d] \/ deviceMap'[d] = None
         /\ deviceMap' \in [Devices -> Generations \cup {None}]
  <1> DEFINE m == j.w[1]
  <1> DEFINE binding == IF ok /\ Calls[m] # {} THEN "bound" ELSE "cleared"
  <1> DEFINE sent == [j EXCEPT !.phase = "relay"]
  <1> DEFINE x == [kind |-> "set-composition", binding |-> binding, job |-> sent]
  <1>1. j \in JobSet /\ m \in Modules /\ binding \in Bindings /\ jobs \subseteq JobSet
        /\ j.dev \in Devices /\ deviceMap \in [Devices -> Generations \cup {None}]
    BY DEF DiscoveryTypeOK, JobSet, Generations, Bindings
  <1>2. sent \in JobSet /\ sent.phase = "relay"
    BY <1>1 DEF JobSet
  <1>3. \/ /\ worker' = Post([worker EXCEPT ![m].verdict = binding], m, x)
           /\ jobs' = (jobs \ {j}) \cup {sent} /\ UNCHANGED deviceMap
        \/ worker' = worker /\ jobs' = jobs \ {j} /\ UNCHANGED deviceMap
        \/ worker' = worker /\ jobs' = jobs \ {j} /\ deviceMap' = [deviceMap EXCEPT ![j.dev] = None]
    BY DEF Verdict
  <1>4. UNCHANGED notifyDeviceLoad
    BY DEF Verdict
  <1>5. x \in ToWorker /\ x.kind = "set-composition" /\ x.binding = binding
    BY <1>1, <1>2 DEF ToWorker
  <1> HIDE DEF m, binding, sent, x
  <1>6. jobs' \subseteq JobSet
    BY <1>1, <1>2, <1>3
  <1>7. /\ \A d \in Devices : deviceMap'[d] = deviceMap[d] \/ deviceMap'[d] = None
        /\ deviceMap' \in [Devices -> Generations \cup {None}]
    BY <1>1, <1>3
  <1>8. CASE worker' = worker
    BY <1>4, <1>6, <1>7, <1>8 DEF Lives
  <1>9. CASE worker' = Post([worker EXCEPT ![m].verdict = binding], m, x)
    <2> DEFINE ws == [worker EXCEPT ![m].verdict = binding]
    <2>1. worker \in [Modules -> WorkerSet] /\ worker[m] \in WorkerSet /\ WorkerOK(worker[m]) /\ worker[m].inbox \in Seq(ToWorker)
      BY <1>1 DEF WellWorkers, WorkerSet
    <2>2. /\ ws \in [Modules -> WorkerSet] /\ \A o \in Modules : o # m => ws[o] = worker[o]
          /\ ws[m].verdict = binding
          /\ ws[m].gen = worker[m].gen /\ ws[m].stage = worker[m].stage /\ ws[m].outbox = worker[m].outbox
          /\ ws[m].announced = worker[m].announced /\ ws[m].composition = worker[m].composition
          /\ ws[m].inbox = worker[m].inbox /\ ws[m].query = worker[m].query
      BY <1>1, <2>1, VerdictSet
    <2> DEFINE v == Append(ws[m].inbox, x)
    <2>3. worker' = [ws EXCEPT ![m].inbox = v]
      BY <1>9 DEF Post
    <2> HIDE DEF ws
    <2>4. v \in Seq(ToWorker)
      BY <1>5, <2>1, <2>2, AppendKind
    <2> HIDE DEF v
    <2>5. /\ worker' \in [Modules -> WorkerSet] /\ \A o \in Modules : o # m => worker'[o] = ws[o]
          /\ worker'[m].inbox = v
          /\ worker'[m].gen = ws[m].gen /\ worker'[m].stage = ws[m].stage /\ worker'[m].outbox = ws[m].outbox
          /\ worker'[m].announced = ws[m].announced /\ worker'[m].composition = ws[m].composition
          /\ worker'[m].verdict = ws[m].verdict /\ worker'[m].query = ws[m].query
      BY <1>1, <2>2, <2>3, <2>4, InboxSet
    <2>6. worker'[m] \in WorkerSet /\ v = Append(worker[m].inbox, x)
      BY <1>1, <2>2, <2>5 DEF v
    <2>7. WorkerOK(worker'[m])
      <3>1. /\ worker'[m].inbox = Append(worker[m].inbox, x) /\ worker'[m].outbox = worker[m].outbox
            /\ worker'[m].composition = worker[m].composition /\ worker'[m].announced = worker[m].announced
            /\ worker'[m].stage = worker[m].stage
            /\ IF x.kind = "set-composition" THEN worker'[m].verdict = x.binding
                                             ELSE worker'[m].verdict = worker[m].verdict
        BY <1>5, <2>2, <2>5, <2>6
      <3> QED BY <1>5, <2>1, <2>6, <3>1, WorkerPosted
    <2>8. WellWorkers(worker')
      BY <2>2, <2>5, <2>7 DEF WellWorkers
    <2>9. Lives(worker, worker')
      BY <2>2, <2>5 DEF Lives
    <2> QED BY <1>4, <1>6, <1>7, <2>8, <2>9
  <1> QED BY <1>3, <1>8, <1>9

\* The worker threads' steps.
LEMMA DeviceWorkerStep ==
  ASSUME DiscoveryInv, NEW m \in Modules,
         WorkerReceives(m) \/ Announce(m) \/ DiscoverTimer(m) \/ \E d \in Devices : AskDevice(m, d)
  PROVE  DiscoveryInv'
  <1>1. DiscoveryTypeOK /\ WellWorkers(worker) /\ TablesAgree
    BY DEF DiscoveryInv, WellWorkers, DiscoveryTypeOK
  <1>2. UNCHANGED <<next, noofLoadedModules, ends, deviceMap, notifyDeviceLoad,
                    allDevicesLoaded, startupDone, jobs, passes, late>>
    BY DEF WorkerReceives, Announce, DiscoverTimer, AskDevice
  <1>3. WellWorkers(worker') /\ Lives(worker, worker')
    BY <1>1, ReceivesFacts, SpeaksFacts
  <1>4. DiscoveryTypeOK'
    BY <1>1, <1>2, <1>3 DEF DiscoveryTypeOK, WellWorkers
  <1>5. TablesAgree'
    BY <1>1, <1>2, <1>3, <1>4, TablesSame
  <1> QED BY <1>3, <1>4, <1>5 DEF DiscoveryInv, WellWorkers

\* The main thread takes a worker's message, of one that ended too.
LEMMA MessageStep ==
  ASSUME DiscoveryInv, NEW m \in Modules, onWorkerMessage(m)
  PROVE  DiscoveryInv'
  <1> DEFINE msg == Head(worker[m].outbox)
  <1> DEFINE ws == [worker EXCEPT ![m].outbox = Tail(@)]
  <1> DEFINE d == DeviceOf[m]
  <1>1. DiscoveryTypeOK /\ WellWorkers(worker) /\ TablesAgree /\ worker[m].outbox # <<>> /\ worker[m].stage \in Threaded
        /\ UNCHANGED <<next, ends>> /\ Owed
    BY DEF DiscoveryInv, WellWorkers, DiscoveryTypeOK, onWorkerMessage, TablesAgree, QueuedIsOwed, Owed
  <1>2. /\ WellWorkers(ws) /\ Lives(worker, ws) /\ msg \in ToMain
        /\ msg.kind = "deviceonline" => ws[m].announced
        /\ ws[m].gen = worker[m].gen /\ ws[m].stage = worker[m].stage
    BY <1>1, TakenFacts
  <1>3. \/ /\ msg.kind = "deviceonline" /\ DeviceOnline(ws, m)
           /\ UNCHANGED <<noofLoadedModules, allDevicesLoaded, startupDone, jobs, passes>>
        \/ /\ msg.kind = "discovered" /\ worker[m].stage # "ending"
           /\ Counted([ws EXCEPT ![m].stage = "idle", ![m].acked = TRUE]) /\ UNCHANGED deviceMap
        \/ /\ jobs' \in {jobs, jobs \ {msg.job}} /\ worker' = ws
           /\ UNCHANGED <<noofLoadedModules, allDevicesLoaded, startupDone, deviceMap, notifyDeviceLoad, passes>>
        \/ /\ msg.kind = "query" /\ queryDeviceForChild(ws, m, msg.dev)
           /\ UNCHANGED <<noofLoadedModules, allDevicesLoaded, startupDone, deviceMap, jobs, passes>>
        \/ /\ msg.kind = "query" /\ worker' = Post(ws, m, [kind |-> "reply", res |-> "limited"])
           /\ UNCHANGED <<noofLoadedModules, allDevicesLoaded, startupDone, deviceMap, notifyDeviceLoad, jobs, passes>>
    BY DEF onWorkerMessage
  <1>4. DeviceOf \in [Modules -> Devices] /\ d \in Devices /\ wm(m) \in Generations
    BY <1>1, DiscoveryAssumption DEF wm, Generations, DiscoveryTypeOK, WorkerSet
  <1>5. /\ late \subseteq late' /\ late' \subseteq Generations
        /\ worker[m].stage = "ending" => wm(m) \in late'
        /\ worker[m].stage # "ending" => worker[m].stage \in Listed
    BY <1>1, <1>4 DEF onWorkerMessage, DiscoveryTypeOK, Threaded, Listed
  <1> HIDE DEF msg, ws, d
  <1>6. ASSUME WellWorkers(worker'), Lives(ws, worker'), MainTypes', noofLoadedModules' \in Nat, Owed', UNCHANGED deviceMap,
               \A x \in Devices : \A e \in notifyDeviceLoad'[x] :
                 e \in notifyDeviceLoad[x] \/ (e.kind = "query" => AskerKnown(e.w)')
        PROVE  DiscoveryInv'
    <2>1. Lives(worker, worker')
      BY <1>2, <1>6, LivesThrough
    <2>2. DiscoveryTypeOK'
      BY <1>1, <1>5, <1>6 DEF DiscoveryTypeOK, WellWorkers, MainTypes
    <2>3. TablesAgree'
      BY <1>1, <1>5, <1>6, <2>1, <2>2, TablesKept DEF Lives
    <2> QED BY <1>6, <2>2, <2>3 DEF DiscoveryInv, WellWorkers
  <1>7. ASSUME Lives(ws, worker'), NEW w, w = wm(m)
        PROVE  /\ w[1] = m /\ AskerKnown(w)'
               /\ \/ Stands(w, Listed)' /\ (ws[m].announced => worker'[m].announced)
                  \/ w \in late'
    <2>1. CASE worker[m].stage = "ending"
      BY <1>5, <1>7, <2>1 DEF wm, AskerKnown
    <2>2. CASE worker[m].stage # "ending"
      <3>1. w[1] = m /\ worker'[m].gen = w[2] /\ worker'[m].stage \in Listed /\ (ws[m].announced => worker'[m].announced)
        BY <1>2, <1>5, <1>7, <2>2 DEF Lives, wm
      <3>2. Stands(w, Listed)'
        BY <3>1 DEF Stands
      <3> QED BY <3>1, <3>2 DEF AskerKnown
    <2> QED BY <2>1, <2>2
  <1>8. CASE msg.kind = "deviceonline" /\ DeviceOnline(ws, m)
             /\ UNCHANGED <<noofLoadedModules, allDevicesLoaded, startupDone, jobs, passes>>
    <2>1. /\ worker' = ws \/ \E q : worker' = AnswerAll(ws, q, "found")
          /\ \/ UNCHANGED <<deviceMap, notifyDeviceLoad>>
             \/ /\ deviceMap' = [deviceMap EXCEPT ![d] = wm(m)]
                /\ \/ UNCHANGED notifyDeviceLoad /\ (allDevicesLoaded \/ ~FromWorkers(notifyDeviceLoad[d]))
                   \/ /\ ~allDevicesLoaded /\ FromWorkers(notifyDeviceLoad[d])
                      /\ notifyDeviceLoad' = [notifyDeviceLoad EXCEPT ![d] = {}]
      BY <1>8 DEF DeviceOnline, d
    <2>2. WellWorkers(worker') /\ Lives(ws, worker')
      <3>1. CASE worker' = ws
        BY <1>2, <3>1 DEF Lives
      <3>2. CASE \E q : worker' = AnswerAll(ws, q, "found")
        BY <1>2, <3>2, AnswerAllFacts DEF Results
      <3> QED BY <2>1, <3>1, <3>2
    <2>3. Lives(worker, worker')
      BY <1>2, <2>2, LivesThrough
    <2>4. deviceMap' \in [Devices -> Generations \cup {None}] /\ \A e \in Devices : e # d => deviceMap'[e] = deviceMap[e]
      BY <1>1, <1>4, <2>1 DEF DiscoveryTypeOK
    <2>5. /\ notifyDeviceLoad' \in [Devices -> SUBSET Entries]
          /\ \A e \in Devices : notifyDeviceLoad'[e] \subseteq notifyDeviceLoad[e]
      BY <1>1, <1>4, <2>1 DEF DiscoveryTypeOK
    <2>6. DiscoveryTypeOK'
      BY <1>1, <1>5, <1>8, <2>2, <2>4, <2>5 DEF DiscoveryTypeOK, WellWorkers
    <2>7. ASSUME NEW e \in Devices
          PROVE  deviceMap'[e] = deviceMap[e] \/ Served(e)'
      <3>1. CASE deviceMap'[e] # deviceMap[e]
        <4>1. e = d /\ deviceMap'[e] = wm(m)
          BY <1>1, <2>1, <2>4, <3>1 DEF DiscoveryTypeOK
        <4>2. PICK w : w = wm(m) /\ deviceMap'[e] = w
          BY <4>1
        <4>3. /\ w[1] = m
              /\ \/ Stands(w, Listed)' /\ (ws[m].announced => worker'[m].announced)
                 \/ w \in late'
          BY <1>7, <2>2, <4>2
        <4>4. ws[m].announced /\ DeviceOf[m] = e
          BY <1>2, <1>8, <4>1 DEF d
        <4>5. CASE w \in late'
          BY <4>2, <4>3, <4>4, <4>5 DEF Served
        <4>6. CASE Stands(w, Listed)' /\ worker'[m].announced
          BY <4>2, <4>3, <4>4, <4>6 DEF Served, Stands
        <4> QED BY <4>3, <4>4, <4>5, <4>6
      <3> QED BY <3>1
    <2>8. Owed'
      <3>1. CASE UNCHANGED <<deviceMap, notifyDeviceLoad>>
        BY <1>1, <1>8, <3>1, OwedKept
      <3>2. CASE UNCHANGED notifyDeviceLoad /\ allDevicesLoaded
        BY <1>8, <1>1, <3>2 DEF Owed, Jammed, Queued
      <3>3. CASE UNCHANGED notifyDeviceLoad /\ ~FromWorkers(notifyDeviceLoad[d])
        <4>1. Jammed'
          BY <1>4, <3>3 DEF Jammed, Queued, FromWorkers
        <4> QED BY <4>1 DEF Owed
      <3>4. CASE /\ ~allDevicesLoaded /\ FromWorkers(notifyDeviceLoad[d])
                 /\ notifyDeviceLoad' = [notifyDeviceLoad EXCEPT ![d] = {}]
        <4>1. \A e \in Devices : notifyDeviceLoad'[e] = IF e = d THEN {} ELSE notifyDeviceLoad[e]
          BY <1>1, <3>4 DEF DiscoveryTypeOK
        <4>2. Jammed => Jammed'
          BY <3>4, <4>1 DEF Jammed, Queued, FromWorkers
        <4> QED BY <1>1, <1>8, <2>4, <4>1, <4>2 DEF Owed
      <3> QED BY <2>1, <3>1, <3>2, <3>3, <3>4
    <2>9. TablesAgree'
      BY <1>1, <1>5, <2>3, <2>5, <2>6, <2>7, <2>8, TablesKept DEF Lives
    <2> QED BY <2>2, <2>6, <2>9 DEF DiscoveryInv, WellWorkers
  <1>9. CASE msg.kind = "discovered" /\ worker[m].stage # "ending"
             /\ Counted([ws EXCEPT ![m].stage = "idle", ![m].acked = TRUE]) /\ UNCHANGED deviceMap
    <2> DEFINE us == [ws EXCEPT ![m].stage = "idle", ![m].acked = TRUE]
    <2>1. WellWorkers(us) /\ Lives(ws, us)
      <3>1. "idle" \in WorkerStages /\ "idle" \in Listed /\ ws \in [Modules -> WorkerSet]
        BY <1>2 DEF WorkerStages, Listed, Alive, WellWorkers
      <3>2. us = [ws EXCEPT ![m].stage = "idle", ![m].acked = TRUE]
        OBVIOUS
      <3> HIDE DEF us
      <3>3. /\ us \in [Modules -> WorkerSet] /\ \A o \in Modules : o # m => us[o] = ws[o]
            /\ us[m].stage = "idle"
            /\ us[m].gen = ws[m].gen /\ us[m].outbox = ws[m].outbox /\ us[m].inbox = ws[m].inbox
            /\ us[m].announced = ws[m].announced /\ us[m].composition = ws[m].composition
            /\ us[m].verdict = ws[m].verdict
        BY <3>1, <3>2 DEF WorkerSet
      <3> QED BY <1>2, <1>9, <3>1, <3>3, StageFacts
    <2>2. Counted(us) /\ UNCHANGED deviceMap
      BY <1>9
    <2> HIDE DEF us
    <2>3. /\ WellWorkers(worker') /\ Lives(us, worker') /\ MainTypes' /\ noofLoadedModules' \in Nat /\ Owed'
          /\ \A x \in Devices : notifyDeviceLoad'[x] \subseteq notifyDeviceLoad[x]
      BY <1>1, <2>1, <2>2, CountedFacts
    <2>4. Lives(ws, worker')
      BY <2>1, <2>3, LivesThrough
    <2> QED BY <1>6, <2>2, <2>3, <2>4
  <1>10. CASE jobs' \in {jobs, jobs \ {msg.job}} /\ worker' = ws
             /\ UNCHANGED <<noofLoadedModules, allDevicesLoaded, startupDone, deviceMap, notifyDeviceLoad, passes>>
    <2>1. Owed'
      BY <1>1, <1>10, OwedKept
    <2> QED BY <1>1, <1>2, <1>6, <1>10, <2>1 DEF DiscoveryTypeOK, MainTypes, Lives
  <1>11. CASE msg.kind = "query" /\ queryDeviceForChild(ws, m, msg.dev)
              /\ UNCHANGED <<noofLoadedModules, allDevicesLoaded, startupDone, deviceMap, jobs, passes>>
    <2>0. PICK w : w = wm(m)
      OBVIOUS
    <2> DEFINE entry == [kind |-> "query", w |-> w]
    <2>1. \/ \E r \in Results : worker' = Post(ws, m, [kind |-> "reply", res |-> r]) /\ UNCHANGED notifyDeviceLoad
          \/ /\ worker' = ws /\ notifyDeviceLoad' = [notifyDeviceLoad EXCEPT ![msg.dev] = @ \cup {entry}]
             /\ ~allDevicesLoaded /\ deviceMap[msg.dev] = None
      BY <1>1, <1>11, <2>0 DEF queryDeviceForChild, Results, DiscoveryTypeOK
    <2>2. entry \in Entries /\ entry.kind = "query" /\ entry.w = w
      BY <1>4, <2>0 DEF Entries
    <2>3. notifyDeviceLoad \in [Devices -> SUBSET Entries] /\ msg.dev \in Devices
      BY <1>1, <1>2, <1>11 DEF DiscoveryTypeOK, ToMain
    <2>4. WellWorkers(worker') /\ Lives(ws, worker')
      <3>1. CASE worker' = ws
        BY <1>2, <3>1 DEF Lives
      <3>2. ASSUME NEW r \in Results, worker' = Post(ws, m, [kind |-> "reply", res |-> r])
            PROVE  WellWorkers(worker') /\ Lives(ws, worker')
        <4>1. [kind |-> "reply", res |-> r] \in [kind : {"reply"}, res : Results]
          OBVIOUS
        <4> QED BY <1>2, <3>2, <4>1, PostFacts
      <3> QED BY <2>1, <3>1, <3>2
    <2>5. AskerKnown(w)'
      BY <1>7, <2>0, <2>4
    <2> HIDE DEF entry
    <2>6. notifyDeviceLoad' \in [Devices -> SUBSET Entries]
          /\ \A x \in Devices : \A e \in notifyDeviceLoad'[x] : e \in notifyDeviceLoad[x] \/ e = entry
      <3>1. notifyDeviceLoad[msg.dev] \cup {entry} \in SUBSET Entries
        BY <2>2, <2>3
      <3> QED BY <2>1, <2>3, <3>1
    <2>7. Owed'
      <3>1. CASE UNCHANGED notifyDeviceLoad
        BY <1>1, <1>11, <3>1, OwedKept
      <3>2. CASE /\ notifyDeviceLoad' = [notifyDeviceLoad EXCEPT ![msg.dev] = @ \cup {entry}]
                 /\ ~allDevicesLoaded /\ deviceMap[msg.dev] = None
        <4>1. \A x \in Devices : notifyDeviceLoad[x] \subseteq notifyDeviceLoad'[x]
                                 /\ (x # msg.dev => notifyDeviceLoad'[x] = notifyDeviceLoad[x])
          BY <2>3, <3>2
        <4>2. Jammed => Jammed'
          BY <4>1 DEF Jammed, Queued, FromWorkers
        <4> QED BY <1>1, <1>11, <3>2, <4>1, <4>2 DEF Owed
      <3> QED BY <2>1, <3>1, <3>2
    <2>8. \A x \in Devices : \A e \in notifyDeviceLoad'[x] :
            e \in notifyDeviceLoad[x] \/ (e.kind = "query" => AskerKnown(e.w)')
      <3> SUFFICES ASSUME NEW x \in Devices, NEW e \in notifyDeviceLoad'[x], e \notin notifyDeviceLoad[x]
                   PROVE  AskerKnown(e.w)'
        OBVIOUS
      <3>1. e.w = w
        BY <2>2, <2>6
      <3> QED BY <2>5, <3>1 DEF AskerKnown, Stands
    <2> QED BY <1>1, <1>6, <1>11, <2>4, <2>6, <2>7, <2>8 DEF DiscoveryTypeOK, MainTypes
  <1>12. CASE msg.kind = "query" /\ worker' = Post(ws, m, [kind |-> "reply", res |-> "limited"])
              /\ UNCHANGED <<noofLoadedModules, allDevicesLoaded, startupDone, deviceMap, notifyDeviceLoad, jobs, passes>>
    <2>1. [kind |-> "reply", res |-> "limited"] \in [kind : {"reply"}, res : Results]
      BY DEF Results
    <2>2. WellWorkers(worker') /\ Lives(ws, worker')
      BY <1>2, <1>12, <2>1, PostFacts
    <2>3. Owed'
      BY <1>1, <1>12, OwedKept
    <2> QED BY <1>1, <1>6, <1>12, <2>2, <2>3 DEF DiscoveryTypeOK, MainTypes
  <1> QED BY <1>3, <1>8, <1>9, <1>10, <1>11, <1>12

\* What the purge of worker m takes: nothing of it stays in the tables.
LEMMA PurgeFacts ==
  ASSUME DiscoveryTypeOK, Owed, NEW m \in Modules, deviceMap' = Purged(wm(m)),
         notifyDeviceLoad' = Unqueued(wm(m)), UNCHANGED allDevicesLoaded, worker'[m].gen = worker[m].gen
  PROVE  /\ deviceMap' \in [Devices -> Generations \cup {None}]
         /\ notifyDeviceLoad' \in [Devices -> SUBSET Entries]
         /\ \A d \in Devices : deviceMap'[d] = deviceMap[d] \/ deviceMap'[d] = None
         /\ \A d \in Devices : notifyDeviceLoad'[d] \subseteq notifyDeviceLoad[d]
         /\ Owed' /\ Dropped(<<m, worker[m].gen>>)'
  <1>1. /\ deviceMap \in [Devices -> Generations \cup {None}]
        /\ notifyDeviceLoad \in [Devices -> SUBSET Entries]
        /\ worker[m].gen \in Nat
    BY DEF DiscoveryTypeOK, WorkerSet
  <1>2. \A d \in Devices : deviceMap'[d] = IF deviceMap[d] = wm(m) THEN None ELSE deviceMap[d]
    BY DEF Purged
  <1>3. \A d \in Devices : notifyDeviceLoad'[d] = {e \in notifyDeviceLoad[d] : ~(e.kind = "query" /\ e.w = wm(m))}
    BY DEF Unqueued
  <1>4. deviceMap' \in [Devices -> Generations \cup {None}] /\ notifyDeviceLoad' \in [Devices -> SUBSET Entries]
    BY <1>1 DEF Purged, Unqueued
  <1>5. Owed'
    BY <1>2, <1>3, OwedKept
  <1>6. Dropped(<<m, worker[m].gen>>)'
    BY <1>2, <1>3 DEF Dropped, wm
  <1> QED BY <1>2, <1>3, <1>4, <1>5, <1>6

\* The thread of a worker is gone.
LEMMA DepartedFacts ==
  ASSUME WellWorkers(worker), NEW m \in Modules, Departed(m)
  PROVE  /\ WellWorkers(worker') /\ worker'[m].gen = worker[m].gen
         /\ \A o \in Modules : o # m => worker'[o] = worker[o]
  <1>1. worker \in [Modules -> WorkerSet] /\ worker[m].gen \in Nat /\ worker[m].acked \in BOOLEAN
    BY DEF WellWorkers, WorkerSet
  <1>2. PICK s \in {"down", "gone"} :
          worker' = [worker EXCEPT ![m] = [NewWorker(worker[m].gen) EXCEPT !.stage = s, !.acked = worker[m].acked]]
    BY DEF Departed
  <1> DEFINE r == [NewWorker(worker[m].gen) EXCEPT !.stage = s, !.acked = worker[m].acked]
  <1>3. r \in WorkerSet /\ WorkerOK(r) /\ r.gen = worker[m].gen
    <2>1. <<>> \in Seq(ToWorker) /\ <<>> \in Seq(ToMain)
      OBVIOUS
    <2>2. r.inbox = <<>> /\ r.outbox = <<>> /\ r.composition = r.verdict /\ r.gen = worker[m].gen
      BY DEF NewWorker
    <2>3. r \in WorkerSet
      BY <1>1, <2>1 DEF NewWorker, WorkerSet, Bindings, Results, WorkerStages
    <2> HIDE DEF r
    <2>4. WorkerOK(r)
      BY <2>2, QuietWorker
    <2> QED BY <2>2, <2>3, <2>4
  <1> HIDE DEF r
  <1>4. worker' = [worker EXCEPT ![m] = r]
    BY <1>2 DEF r
  <1> QED BY <1>1, <1>3, <1>4 DEF WellWorkers

\* A module is purged, its thread exits, or it exits while an unload waits for it.
LEMMA EndStep ==
  ASSUME DiscoveryInv, NEW m \in Modules, Purge(m) \/ ThreadExits(m) \/ ExitsUnloading(m) \/ UnloadEnds(m)
  PROVE  DiscoveryInv'
  <1>1. /\ DiscoveryTypeOK /\ WellWorkers(worker) /\ TablesAgree /\ Owed
        /\ worker \in [Modules -> WorkerSet] /\ worker[m] \in WorkerSet
    BY DEF DiscoveryInv, WellWorkers, DiscoveryTypeOK, TablesAgree, QueuedIsOwed, Owed
  <1>2. /\ UNCHANGED <<next, late>> /\ ends' \in Nat
    BY <1>1 DEF Purge, ThreadExits, ExitsUnloading, UnloadEnds, DiscoveryTypeOK
  <1>3. ASSUME WellWorkers(worker'), worker'[m].gen = worker[m].gen, \A o \in Modules : o # m => worker'[o] = worker[o],
               deviceMap' = Purged(wm(m)), notifyDeviceLoad' = Unqueued(wm(m)), jobs' \subseteq JobSet,
               UNCHANGED <<noofLoadedModules, allDevicesLoaded, startupDone, passes>>
        PROVE  DiscoveryInv'
    <2>1. /\ deviceMap' \in [Devices -> Generations \cup {None}]
          /\ notifyDeviceLoad' \in [Devices -> SUBSET Entries]
          /\ \A d \in Devices : deviceMap'[d] = deviceMap[d] \/ deviceMap'[d] = None
          /\ \A d \in Devices : notifyDeviceLoad'[d] \subseteq notifyDeviceLoad[d]
          /\ Owed' /\ Dropped(<<m, worker[m].gen>>)'
      BY <1>1, <1>3, PurgeFacts
    <2>2. DiscoveryTypeOK'
      BY <1>1, <1>2, <1>3, <2>1 DEF DiscoveryTypeOK, WellWorkers
    <2>3. \A d \in Devices : deviceMap'[d] = deviceMap[d] \/ Served(d)'
      BY <2>1 DEF Served
    <2>4. \A o \in Modules : worker[o].stage \in Listed =>
            \/ /\ worker'[o].gen = worker[o].gen /\ worker'[o].stage \in Listed
               /\ worker[o].announced => worker'[o].announced
            \/ worker'[o].gen = worker[o].gen /\ Dropped(<<o, worker[o].gen>>)'
      BY <1>3, <2>1
    <2>5. TablesAgree'
      BY <1>1, <1>2, <2>1, <2>2, <2>3, <2>4, TablesKept
    <2> QED BY <1>3, <2>2, <2>5 DEF DiscoveryInv, WellWorkers
  <1>4. CASE Purge(m)
    <2>1. worker' = [worker EXCEPT ![m].stage = "ending"] /\ "ending" \in WorkerStages /\ worker[m].stage # "ending"
      BY <1>4 DEF Purge, WorkerStages, Alive
    <2>2. /\ worker' \in [Modules -> WorkerSet] /\ \A o \in Modules : o # m => worker'[o] = worker[o]
          /\ worker'[m].stage = "ending"
          /\ worker'[m].gen = worker[m].gen /\ worker'[m].outbox = worker[m].outbox /\ worker'[m].inbox = worker[m].inbox
          /\ worker'[m].announced = worker[m].announced /\ worker'[m].composition = worker[m].composition
          /\ worker'[m].verdict = worker[m].verdict
      BY <1>1, <2>1, StageSet
    <2>3. WellWorkers(worker')
      <3>1. worker'[m] \in WorkerSet /\ WorkerOK(worker[m])
        BY <1>1, <2>2 DEF WellWorkers
      <3>2. WorkerOK(worker'[m])
        BY <1>1, <2>2, <3>1, WorkerSame
      <3> QED BY <1>1, <2>2, <3>2 DEF WellWorkers
    <2>4. jobs' \subseteq JobSet
      BY <1>1, <1>4 DEF Purge, DiscoveryTypeOK
    <2> QED BY <1>3, <1>4, <2>2, <2>3, <2>4 DEF Purge
  <1>5. CASE UnloadEnds(m)
    <2>1. WellWorkers(worker') /\ worker'[m].gen = worker[m].gen /\ \A o \in Modules : o # m => worker'[o] = worker[o]
      BY <1>1, <1>5, DepartedFacts DEF UnloadEnds
    <2>2. jobs' \subseteq JobSet
      BY <1>1, <1>5 DEF UnloadEnds, Unrelayed, DiscoveryTypeOK
    <2> QED BY <1>3, <1>5, <2>1, <2>2 DEF UnloadEnds
  <1>6. CASE ThreadExits(m)
    <2>1. WellWorkers(worker') /\ \A o \in Modules : o # m => worker'[o] = worker[o]
      BY <1>1, <1>6, DepartedFacts DEF ThreadExits
    <2>2. worker[m].stage \notin Listed
      BY <1>6 DEF ThreadExits, Listed, Alive
    <2>3. Lives(worker, worker')
      BY <2>1, <2>2 DEF Lives
    <2>4. jobs' \subseteq JobSet /\ UNCHANGED <<noofLoadedModules, deviceMap, notifyDeviceLoad,
                                                allDevicesLoaded, startupDone, passes>>
      BY <1>1, <1>6 DEF ThreadExits, Unrelayed, DiscoveryTypeOK
    <2>5. DiscoveryTypeOK'
      BY <1>1, <1>2, <2>1, <2>4 DEF DiscoveryTypeOK, WellWorkers
    <2>6. TablesAgree'
      BY <1>1, <1>2, <2>3, <2>4, <2>5, TablesSame
    <2> QED BY <2>1, <2>5, <2>6 DEF DiscoveryInv, WellWorkers
  <1>7. CASE ExitsUnloading(m)
    <2> DEFINE ws == [worker EXCEPT ![m].stage = "exited", ![m].acked = TRUE]
    <2>1. "exited" \in WorkerStages /\ "exited" \in Listed /\ worker[m].stage # "ending" /\ UNCHANGED deviceMap
      BY <1>7 DEF ExitsUnloading, WorkerStages, Listed, Alive
    <2>2. WellWorkers(ws) /\ Lives(worker, ws)
      <3>1. ws = [worker EXCEPT ![m].stage = "exited", ![m].acked = TRUE]
        OBVIOUS
      <3> HIDE DEF ws
      <3>2. /\ ws \in [Modules -> WorkerSet] /\ \A o \in Modules : o # m => ws[o] = worker[o]
            /\ ws[m].stage = "exited"
            /\ ws[m].gen = worker[m].gen /\ ws[m].outbox = worker[m].outbox /\ ws[m].inbox = worker[m].inbox
            /\ ws[m].announced = worker[m].announced /\ ws[m].composition = worker[m].composition
            /\ ws[m].verdict = worker[m].verdict
        BY <1>1, <2>1, <3>1 DEF WorkerSet
      <3> QED BY <1>1, <2>1, <3>2, StageFacts
    <2>3. \/ Counted(ws)
          \/ worker' = ws /\ UNCHANGED <<noofLoadedModules, allDevicesLoaded, notifyDeviceLoad, startupDone, passes, jobs>>
      BY <1>7 DEF ExitsUnloading
    <2> HIDE DEF ws
    <2>4. /\ WellWorkers(worker') /\ Lives(ws, worker') /\ MainTypes' /\ noofLoadedModules' \in Nat /\ Owed'
          /\ \A d \in Devices : notifyDeviceLoad'[d] \subseteq notifyDeviceLoad[d]
      <3>1. CASE Counted(ws)
        BY <1>1, <2>1, <2>2, <3>1, CountedFacts
      <3>2. CASE worker' = ws /\ UNCHANGED <<noofLoadedModules, allDevicesLoaded, notifyDeviceLoad, startupDone, passes, jobs>>
        <4>1. Owed'
          BY <1>1, <2>1, <3>2, OwedKept
        <4> QED BY <1>1, <2>2, <3>2, <4>1 DEF MainTypes, DiscoveryTypeOK, Lives
      <3> QED BY <2>3, <3>1, <3>2
    <2>5. Lives(worker, worker')
      BY <2>2, <2>4, LivesThrough
    <2>6. DiscoveryTypeOK'
      BY <1>1, <1>2, <2>1, <2>4 DEF MainTypes, WellWorkers, DiscoveryTypeOK
    <2>7. TablesAgree'
      BY <1>1, <1>2, <2>1, <2>4, <2>5, <2>6, TablesKept DEF Lives
    <2> QED BY <2>4, <2>6, <2>7 DEF DiscoveryInv, WellWorkers
  <1> QED BY <1>4, <1>5, <1>6, <1>7

\* A verification goes on: a verdict, or one more look.
LEMMA VerifyFacts ==
  ASSUME DiscoveryTypeOK, Owed, NEW j \in jobs, verifyComposition(j)
  PROVE  \/ \E ok \in BOOLEAN : Verdict(j, ok)
         \/ /\ UNCHANGED <<worker, deviceMap>> /\ jobs' \subseteq JobSet
            /\ notifyDeviceLoad' \in [Devices -> SUBSET Entries] /\ Owed'
            /\ \A d \in Devices : \A e \in notifyDeviceLoad'[d] : e \in notifyDeviceLoad[d] \/ e.kind = "callback"
  <1>1. j \in JobSet /\ jobs \subseteq JobSet /\ j.w \in Generations /\ j.w[1] \in Modules /\ Calls[j.w[1]] \subseteq Devices
        /\ notifyDeviceLoad \in [Devices -> SUBSET Entries]
    BY DiscoveryAssumption DEF DiscoveryTypeOK, JobSet, Generations
  <1>2. UNCHANGED allDevicesLoaded
    BY DEF verifyComposition
  <1>3. ASSUME UNCHANGED <<deviceMap, notifyDeviceLoad>>
        PROVE  Owed'
    BY <1>2, <1>3, OwedKept
  <1>4. ASSUME NEW claimants, Identity(j, claimants)
        PROVE  \/ \E ok \in BOOLEAN : Verdict(j, ok)
               \/ /\ UNCHANGED <<worker, deviceMap>> /\ jobs' \subseteq JobSet
                  /\ notifyDeviceLoad' \in [Devices -> SUBSET Entries] /\ Owed'
                  /\ \A d \in Devices : \A e \in notifyDeviceLoad'[d] : e \in notifyDeviceLoad[d] \/ e.kind = "callback"
    <2> DEFINE targets == Calls[j.w[1]]
    <2> DEFINE missing == {d \in targets : deviceMap[d] = None}
    <2> DEFINE following == [j EXCEPT !.phase = "targets", !.todo = targets, !.queued = missing]
    <2> DEFINE bare == [kind |-> "callback", w |-> j.w]
    <2>1. \/ \E ok \in BOOLEAN : Verdict(j, ok)
          \/ /\ jobs' = (jobs \ {j}) \cup {following} /\ UNCHANGED <<worker, deviceMap>>
             /\ notifyDeviceLoad' = [d \in Devices |-> IF d \in missing THEN notifyDeviceLoad[d] \cup {bare} ELSE notifyDeviceLoad[d]]
      BY <1>4 DEF Identity, onQueryDevice
    <2>2. following \in JobSet
      BY <1>1 DEF JobSet
    <2>3. bare \in Entries /\ bare.kind = "callback" /\ missing \subseteq Devices
      BY <1>1 DEF Entries
    <2> HIDE DEF missing, following, bare
    <2>4. ASSUME /\ jobs' = (jobs \ {j}) \cup {following} /\ UNCHANGED <<worker, deviceMap>>
                 /\ notifyDeviceLoad' = [d \in Devices |-> IF d \in missing THEN notifyDeviceLoad[d] \cup {bare} ELSE notifyDeviceLoad[d]]
          PROVE  /\ UNCHANGED <<worker, deviceMap>> /\ jobs' \subseteq JobSet
                 /\ notifyDeviceLoad' \in [Devices -> SUBSET Entries] /\ Owed'
                 /\ \A d \in Devices : \A e \in notifyDeviceLoad'[d] : e \in notifyDeviceLoad[d] \/ e.kind = "callback"
      <3>1. jobs' \subseteq JobSet
        BY <1>1, <2>2, <2>4
      <3>2. notifyDeviceLoad' \in [Devices -> SUBSET Entries]
        BY <1>1, <2>3, <2>4
      <3>3. \A d \in Devices : \A e \in notifyDeviceLoad'[d] : e \in notifyDeviceLoad[d] \/ e.kind = "callback"
        BY <2>3, <2>4
      <3>4. CASE missing = {}
        <4>1. notifyDeviceLoad' = notifyDeviceLoad
          BY <1>1, <2>4, <3>4
        <4> QED BY <1>3, <2>4, <3>1, <3>2, <3>3, <4>1
      <3>5. CASE missing # {}
        <4>1. PICK d \in Devices : d \in missing
          BY <2>3, <3>5
        <4>2. bare \in notifyDeviceLoad'[d]
          BY <2>4, <4>1
        <4>3. Jammed'
          BY <2>3, <4>2 DEF Jammed, Queued, FromWorkers
        <4>4. Owed'
          BY <4>3 DEF Owed
        <4> QED BY <2>4, <3>1, <3>2, <3>3, <4>4
      <3> QED BY <3>4, <3>5
    <2> QED BY <2>1, <2>4
  <1>5. ASSUME NEW d, NEW ok \in BOOLEAN, Grant(j, d, ok)
        PROVE  \/ \E b \in BOOLEAN : Verdict(j, b)
               \/ /\ UNCHANGED <<worker, deviceMap, notifyDeviceLoad>> /\ jobs' \subseteq JobSet /\ Owed'
    <2> DEFINE less == [j EXCEPT !.todo = @ \ {d}]
    <2>1. less \in JobSet
      BY <1>1 DEF JobSet
    <2>2. \/ \E b \in BOOLEAN : Verdict(j, b)
          \/ jobs' = (jobs \ {j}) \cup {less} /\ UNCHANGED <<worker, deviceMap, notifyDeviceLoad>>
      BY <1>5 DEF Grant
    <2> HIDE DEF less
    <2> QED BY <1>1, <1>3, <2>1, <2>2
  <1> QED BY <1>1, <1>4, <1>5 DEF verifyComposition

\* A verification goes on, or reaches its verdict.
LEMMA VerifyStep ==
  ASSUME DiscoveryInv, NEW j \in jobs, verifyComposition(j)
  PROVE  DiscoveryInv'
  <1>1. DiscoveryTypeOK /\ WellWorkers(worker) /\ TablesAgree /\ Owed
    BY DEF DiscoveryInv, WellWorkers, DiscoveryTypeOK, TablesAgree, QueuedIsOwed, Owed
  <1>2. UNCHANGED <<next, noofLoadedModules, ends, allDevicesLoaded, startupDone, passes, late>>
    BY DEF verifyComposition
  <1>3. CASE \E ok \in BOOLEAN : Verdict(j, ok)
    <2>1. PICK ok \in BOOLEAN : Verdict(j, ok)
      BY <1>3
    <2>2. /\ WellWorkers(worker') /\ Lives(worker, worker') /\ UNCHANGED notifyDeviceLoad /\ jobs' \subseteq JobSet
          /\ \A d \in Devices : deviceMap'[d] = deviceMap[d] \/ deviceMap'[d] = None
          /\ deviceMap' \in [Devices -> Generations \cup {None}]
      BY <1>1, <2>1, VerdictFacts
    <2>3. DiscoveryTypeOK'
      BY <1>1, <1>2, <2>2 DEF DiscoveryTypeOK, WellWorkers
    <2>4. Owed'
      BY <1>1, <1>2, <2>2, OwedKept
    <2>5. \A d \in Devices : deviceMap'[d] = deviceMap[d] \/ Served(d)'
      BY <2>2 DEF Served
    <2>6. TablesAgree'
      BY <1>1, <1>2, <2>2, <2>3, <2>4, <2>5, TablesKept DEF Lives
    <2> QED BY <2>2, <2>3, <2>6 DEF DiscoveryInv, WellWorkers
  <1>4. CASE /\ UNCHANGED <<worker, deviceMap>> /\ jobs' \subseteq JobSet
             /\ notifyDeviceLoad' \in [Devices -> SUBSET Entries] /\ Owed'
             /\ \A d \in Devices : \A e \in notifyDeviceLoad'[d] : e \in notifyDeviceLoad[d] \/ e.kind = "callback"
    <2>1. DiscoveryTypeOK' /\ WellWorkers(worker')
      BY <1>1, <1>2, <1>4 DEF DiscoveryTypeOK, WellWorkers
    <2>2. TablesAgree'
      BY <1>1, <1>2, <1>4, <2>1, TablesKept
    <2> QED BY <2>1, <2>2 DEF DiscoveryInv, WellWorkers
  <1> QED BY <1>1, <1>3, <1>4, VerifyFacts

\* The invariant of discovery holds at the start.
LEMMA DiscoveryStart ==
  ASSUME DiscoveryInit
  PROVE  DiscoveryInv
  <1>1. Len(Startup) \in Nat
    BY DiscoveryAssumption, LenProperties
  <1>2. WellWorkers(worker)
    <2> DEFINE r == [NewWorker(0) EXCEPT !.stage = "none"]
    <2>1. <<>> \in Seq(ToWorker) /\ <<>> \in Seq(ToMain)
      OBVIOUS
    <2>2. r \in WorkerSet /\ r.inbox = <<>> /\ r.outbox = <<>> /\ r.composition = r.verdict
      BY <2>1 DEF NewWorker, WorkerSet, Bindings, Results, WorkerStages
    <2>3. worker = [m \in Modules |-> r]
      BY DEF DiscoveryInit
    <2> HIDE DEF r
    <2>4. WorkerOK(r)
      BY <2>2, QuietWorker
    <2> QED BY <2>2, <2>3, <2>4 DEF WellWorkers
  <1>3. DiscoveryTypeOK
    BY <1>1, <1>2 DEF DiscoveryInit, DiscoveryTypeOK, WellWorkers
  <1>4. TablesAgree
    BY DEF DiscoveryInit, TablesAgree, MappedIsServed, QueuedIsOwed
  <1> QED BY <1>2, <1>3, <1>4 DEF DiscoveryInv, WellWorkers

\* Every step keeps the invariant of discovery.
LEMMA DiscoveryStep ==
  ASSUME DiscoveryInv, [DiscoveryNext]_discoveryVars
  PROVE  DiscoveryInv'
  <1>1. CASE UNCHANGED discoveryVars
    <2>1. DiscoveryTypeOK /\ TablesAgree /\ UNCHANGED <<worker, deviceMap, notifyDeviceLoad, allDevicesLoaded, late>>
      BY <1>1 DEF DiscoveryInv, discoveryVars
    <2>2. DiscoveryTypeOK' /\ \A m \in Modules : WorkerOK(worker'[m])
      BY <1>1 DEF DiscoveryInv, DiscoveryTypeOK, discoveryVars
    <2>3. Lives(worker, worker')
      BY <2>1 DEF Lives
    <2>4. TablesAgree'
      BY <2>1, <2>2, <2>3, TablesSame
    <2> QED BY <2>2, <2>4 DEF DiscoveryInv
  <1>2. CASE DiscoveryNext
    BY <1>2, DeviceLoadStep, DeviceWorkerStep, MessageStep, EndStep, VerifyStep DEF DiscoveryNext
  <1> QED BY <1>1, <1>2

\* The invariant of discovery: verdicts arrive in order, and the tables agree.
THEOREM DiscoveryInvariance == DiscoverySpec => []DiscoveryInv
  <1> QED BY DiscoveryStart, DiscoveryStep, PTL DEF DiscoverySpec

\* The variables of discovery have their types.
THEOREM DiscoveryTypes == DiscoverySpec => []DiscoveryTypeOK
  <1>1. DiscoveryInv => DiscoveryTypeOK
    BY DEF DiscoveryInv
  <1> QED BY <1>1, DiscoveryInvariance, PTL

\* A worker that has taken what was relayed to it holds the last verdict main reached.
THEOREM LastVerdictIsHeld == DiscoverySpec => []LastVerdictHolds
  <1>1. DiscoveryInv => LastVerdictHolds
    BY DEF DiscoveryInv, LastVerdictHolds, WorkerOK, Relayed, HasKind, Alive
  <1> QED BY <1>1, DiscoveryInvariance, PTL

\* Whichever provider answers and whenever workers end, the device manager's two tables agree
\* with each other and with the workers: a device is mapped to the registered worker that
\* announced it or to one that was heard of after its purge, a query is queued for such a worker
\* only, and what is queued is for a device that is not served while discovery is under way,
\* unless a bare callback jams the queues.
THEOREM TablesStayInStep == DiscoverySpec => []TablesAgree
  <1>1. DiscoveryInv => TablesAgree
    BY DEF DiscoveryInv
  <1> QED BY <1>1, DiscoveryInvariance, PTL

\* Main and the workers stay in step: the two statements above together.
THEOREM MainAndWorkersInStep == DiscoverySpec => []InStep
  BY LastVerdictIsHeld, TablesStayInStep, PTL DEF InStep
=============================================================================
