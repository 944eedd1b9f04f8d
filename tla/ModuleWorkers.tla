----------------------------- MODULE ModuleWorkers -----------------------------
(***************************************************************************)
(* The workers of one module name: ModuleManager's spawns, loads, unloads, *)
(* restarts and uninstalls (lib/module-manager.js), the supervisor that    *)
(* restarts a module whose worker ended unexpectedly                       *)
(* (lib/module-supervisor.js) and the lock that spawns and uninstalls of a *)
(* name run under (lib/module-lifecycle.js).                               *)
(*                                                                         *)
(* Worker mode with the sandbox on.  One action is one event-loop turn of  *)
(* the main thread, or one event of a worker thread.                       *)
(***************************************************************************)
EXTENDS Integers, Sequences, FiniteSets

CONSTANTS
  MaxWorkers,   \* bound: worker threads started
  MaxOps,       \* bound: operator requests made
  SuspendAfter  \* SUSPEND_AFTER

ASSUME WorkersAssumption == MaxWorkers \in Nat /\ MaxOps \in Nat /\ SuspendAfter \in Nat \ {0}

Workers == 1 .. MaxWorkers
Ops == 1 .. MaxOps
OpKinds == {"load", "restart", "unload", "uninstall", "status"}

VARIABLES
  modules,    \* modules[name]: the registered worker, or 0
  sup,        \* the supervisor's record of the name: [state, exits, timer]
  chain,      \* the lifecycle lock's queue of jobs; the head holds the lock
  lock,       \* how far the head's critical section is
  used,       \* workers started; the last one is the lock's tracked entry
  thread,     \* each worker thread
  loaded,     \* workers whose module has been loaded and registered
  called,     \* workers whose spawn has called back
  ended,      \* workers onUnexpectedExit has been called for
  unloading,  \* workers an operator unload is under way for
  settled,    \* workers whose file broker has settled
  job,        \* job[w]: the job that started w
  asked,      \* operator requests made
  kind, stage, target, replies,   \* of each operator request
  quiet,      \* history: unloaded, and no load asked for since
  dropped     \* history: workers a failed reload took off the registry

mainVars == <<modules, sup>>
lockVars == <<chain, lock, used, job>>
workerVars == <<thread, loaded, called, ended, unloading, settled>>
opVars == <<asked, kind, stage, target, replies, quiet, dropped>>
vars == <<mainVars, lockVars, workerVars, opVars>>

\* An operator's spawn carries its request; a supervised one asks stillWanted,
\* that is whether its record has been cleared (stale) since it was started.
Job(k, o) == [kind |-> k, op |-> o, stale |-> FALSE]
NoJob == Job("none", 0)
NoRecord == [state |-> "none", exits |-> 0, timer |-> FALSE]

\* "crashed": the 'error' event comes first; "dying": the 'exit' event is next.
Running == {w \in Workers : thread[w] \in {"alive", "crashed", "dying"}}

\* ModuleLifecycle.live: the tracked worker, until its exit.
Live == used # 0 /\ thread[used] # "exited"

Init ==
  /\ modules = 0 /\ sup = NoRecord
  /\ chain = <<>> /\ lock = "idle" /\ used = 0 /\ job = [w \in Workers |-> NoJob]
  /\ thread = [w \in Workers |-> "none"]
  /\ loaded = {} /\ called = {} /\ ended = {} /\ unloading = {} /\ settled = {}
  /\ asked = 0
  /\ kind = [o \in Ops |-> "none"] /\ stage = [o \in Ops |-> "none"]
  /\ target = [o \in Ops |-> 0] /\ replies = [o \in Ops |-> <<>>]
  /\ quiet = FALSE /\ dropped = {}

(***************************************************************************)
(* The supervisor.                                                         *)
(***************************************************************************)

\* The records exited() may leave behind.  Exits leave the window only while
\* the module runs: backoff and loading are far shorter than WINDOW_MS.
Exited(r) ==
  {LET n == kept + 1 IN
     IF n >= SuspendAfter
     THEN [state |-> "suspended", exits |-> SuspendAfter, timer |-> FALSE]
     ELSE [state |-> "restarting", exits |-> n, timer |-> TRUE] :
   kept \in IF r.state = "running" THEN 0 .. r.exits ELSE {r.exits}}

\* track(): the record's timer is left alone.
Tracked(r) == [r EXCEPT !.state = "running"]

\* suspend().
Suspended(r) == [r EXCEPT !.state = "suspended", !.timer = FALSE]

\* Mutant: isCurrent() always holds.
NeverStale(j) == j

\* clear(): the record goes, and every supervised spawn is out of date.
Stale(j) == [j EXCEPT !.stale = @ \/ j.kind = "supervised"]
Clear ==
  /\ sup' = NoRecord
  /\ job' = [w \in Workers |-> Stale(job[w])]

\* Mutant: a failed restart is only logged.
RestartFailsLogged(j, e, r) == IF e = "refused" /\ ~j.stale THEN {Suspended(r)} ELSE {r}

\* The restart callback's answer to a failed supervised spawn.
RestartFails(j, e, r) ==
  IF j.stale THEN {r} ELSE IF e = "refused" THEN {Suspended(r)} ELSE Exited(r)

(***************************************************************************)
(* Operator requests.                                                      *)
(***************************************************************************)

Answer(o, r) ==
  /\ replies' = [replies EXCEPT ![o] = Append(@, r)]
  /\ stage' = [stage EXCEPT ![o] = "done"]
Outstanding == {o \in 1 .. asked : replies[o] = <<>>}
Loads == {o \in Outstanding : kind[o] \in {"load", "restart"}}

\* A spawn calls back with an error: to its request, or to the supervisor.
SpawnFails(j, e) ==
  IF j.kind = "load"
  THEN Answer(j.op, "failed") /\ UNCHANGED sup
  ELSE sup' \in RestartFails(j, e, sup) /\ UNCHANGED <<replies, stage>>

\* spawnModuleWorker for request o: refused on the spot (package name, sandbox),
\* or queued for the lock.  q is the queue it joins.
SpawnFor(o, q) ==
  \/ chain' = q /\ Answer(o, "failed")
  \/ /\ chain' = Append(q, Job("load", o))
     /\ stage' = [stage EXCEPT ![o] = "spawning"]
     /\ UNCHANGED replies

\* unloadModuleExternal with a worker registered: unload-module is sent.
SendUnload(o) ==
  /\ unloading' = unloading \cup {modules}
  /\ target' = [target EXCEPT ![o] = modules]
  /\ stage' = [stage EXCEPT ![o] = "unloading"]
  /\ UNCHANGED replies

StaleChain == [i \in DOMAIN chain |-> Stale(chain[i])]

\* loadModuleByWorker.
LoadByWorker(o) ==
  /\ Clear
  /\ IF modules = 0
     THEN SpawnFor(o, StaleChain) /\ UNCHANGED <<unloading, target>>
     ELSE SendUnload(o) /\ chain' = StaleChain

\* busy(), in uninstallModule.
Busy == sup.state # "none" \/ modules # 0 \/ Live

\* A new request o of kind k; q is whether the name is quiet after it.
Ask(o, k, q) ==
  /\ asked < MaxOps /\ o = asked + 1
  /\ asked' = o
  /\ kind' = [kind EXCEPT ![o] = k]
  /\ quiet' = q
  /\ UNCHANGED <<lock, used, thread, loaded, called, ended, settled>>

\* The path, the name or the hardened root refuses a request before it touches
\* anything.
Refused(o) ==
  /\ Answer(o, "failed")
  /\ UNCHANGED <<modules, sup, job, chain, unloading, target, dropped>>

Loading(o) == LoadByWorker(o) /\ UNCHANGED <<modules, dropped>>

\* POST /load-module.
Load(o) == Ask(o, "load", FALSE) /\ (Refused(o) \/ Loading(o))

\* POST /reload-module.  With an invalid version the module is unloaded in this
\* thread only: it goes off the registry, and its worker is not told.
Reload(o) ==
  /\ Ask(o, "load", FALSE)
  /\ \/ Refused(o)
     \/ Loading(o)
     \/ /\ Answer(o, "failed")
        /\ modules' = 0
        /\ dropped' = dropped \cup (Workers \cap {modules})
        /\ UNCHANGED <<sup, job, chain, unloading, target>>

\* POST /restart-module: an unknown module or a bad path changes nothing.
Restart(o) ==
  /\ Ask(o, "restart", FALSE)
  /\ UNCHANGED <<modules, dropped>>
  /\ \/ Refused(o)
     \/ modules = 0 /\ sup.state # "none" /\ LoadByWorker(o)
     \/ modules # 0 /\ Clear /\ SendUnload(o) /\ chain' = StaleChain

\* POST /unload-module: it takes effect on a module that is only being restarted
\* or suspended too.
Unload(o) ==
  /\ Ask(o, "unload", quiet \/ (modules = 0 /\ sup.state # "none" /\ Loads = {}))
  /\ UNCHANGED <<modules, dropped>>
  /\ Clear /\ chain' = StaleChain
  /\ IF modules # 0 THEN SendUnload(o)
     ELSE Answer(o, IF sup.state = "none" THEN "failed" ELSE "ok") /\ UNCHANGED <<unloading, target>>

\* POST /uninstall-module.
Uninstall(o) ==
  /\ Ask(o, "uninstall", quiet)
  /\ IF Busy THEN Answer(o, "failed") /\ UNCHANGED chain
     ELSE /\ chain' = Append(chain, Job("uninstall", o))
          /\ stage' = [stage EXCEPT ![o] = "spawning"]
          /\ UNCHANGED replies
  /\ UNCHANGED <<modules, sup, job, unloading, target, dropped>>

\* getModuleDeviceListByName: what is not loaded is still known while the
\* supervisor keeps a record of it.
Known == modules # 0 \/ sup.state # "none"

\* POST /get-module-device-list.
Status(o) ==
  /\ Ask(o, "status", quiet)
  /\ Answer(o, IF Known THEN "ok" ELSE "failed")
  /\ UNCHANGED <<modules, sup, job, chain, unloading, target, dropped>>

\* finish(), on the worker's acknowledgement or on the timer: whatever worker is
\* registered under the name goes, and the request's own worker is terminated.
Terminate(w) == thread' = [thread EXCEPT ![w] = IF @ = "alive" THEN "dying" ELSE @]
FinishUnload(o) ==
  /\ stage[o] = "unloading"
  /\ stage' = [stage EXCEPT ![o] = "ending"]
  /\ modules' = 0
  /\ Terminate(target[o])
  /\ UNCHANGED <<sup, lockVars, loaded, called, ended, unloading, settled,
                 asked, kind, target, replies, quiet, dropped>>

\* The callback of unloadModuleExternal, once terminate() has resolved.
UnloadEnded(o) ==
  /\ stage[o] = "ending" /\ thread[target[o]] = "exited"
  /\ \/ /\ kind[o] = "unload"
        /\ Answer(o, "ok")
        /\ quiet' = (Loads = {})
        /\ UNCHANGED <<sup, job, chain, unloading, target, kind>>
     \/ /\ kind[o] = "load"
        /\ SpawnFor(o, chain)
        /\ UNCHANGED <<sup, job, unloading, target, kind, quiet>>
     \/ /\ kind[o] = "restart"
        /\ LoadByWorker(o)
        /\ kind' = [kind EXCEPT ![o] = "load"]
        /\ UNCHANGED quiet
  /\ UNCHANGED <<modules, lock, used, thread, loaded, called, ended, settled, asked, dropped>>

(***************************************************************************)
(* The lifecycle lock: the head of the chain runs alone.                   *)
(***************************************************************************)

Head1 == chain[1]
Release == chain' = Tail(chain) /\ lock' = "idle"

\* Mutant: the live worker is told to end, and not waited for.
ReplaceLiveAtOnce == Terminate(used) /\ lock' = "walk"

\* An operator's spawn ends the live worker.
ReplaceLive == Terminate(used) /\ lock' = "wait_exit"

\* The head starts.  A supervised spawn gives way to a live worker, an
\* operator's ends it; an uninstall is refused while the module is in use.
StartJob ==
  /\ chain # <<>> /\ lock = "idle"
  /\ \/ /\ Head1.kind = "supervised" /\ Live
        /\ SpawnFails(Head1, "superseded") /\ Release
        /\ UNCHANGED thread
     \/ /\ Head1.kind = "load" /\ Live
        /\ ReplaceLive
        /\ UNCHANGED <<chain, sup, stage, replies>>
     \/ /\ Head1.kind = "uninstall" /\ Busy
        /\ Answer(Head1.op, "failed")
        /\ Release
        /\ UNCHANGED <<sup, thread>>
     \/ /\ IF Head1.kind = "uninstall" THEN ~Busy ELSE ~Live
        /\ lock' = "wait_settled"
        /\ UNCHANGED <<chain, sup, stage, replies, thread>>
  /\ UNCHANGED <<modules, used, job, loaded, called, ended, unloading, settled,
                 asked, kind, target, quiet, dropped>>

ExitAwaited ==
  /\ lock = "wait_exit" /\ thread[used] = "exited"
  /\ lock' = "wait_settled"
  /\ UNCHANGED <<mainVars, chain, used, job, workerVars, opVars>>

\* Mutant: the last broker is not waited for.
SettleSkipped ==
  /\ lock = "wait_settled"
  /\ lock' = IF Head1.kind = "uninstall" THEN "delete" ELSE "walk"
  /\ UNCHANGED <<mainVars, chain, used, job, workerVars, opVars>>

SettleAwaited ==
  /\ lock = "wait_settled" /\ (used = 0 \/ used \in settled)
  /\ lock' = IF Head1.kind = "uninstall" THEN "delete" ELSE "walk"
  /\ UNCHANGED <<mainVars, chain, used, job, workerVars, opVars>>

\* Mutant: a failed walk answers nobody.
WalkFailsSilently ==
  /\ lock = "walk" /\ Release
  /\ UNCHANGED <<mainVars, used, job, workerVars, opVars>>

\* createForWorker fails, or startWorker throws.
WalkFails ==
  /\ lock = "walk"
  /\ \E e \in {"refused", "failed"} : SpawnFails(Head1, e)
  /\ Release
  /\ UNCHANGED <<modules, used, job, workerVars, asked, kind, target, quiet, dropped>>

WalkSucceeds ==
  /\ lock = "walk" /\ used < MaxWorkers
  /\ used' = used + 1
  /\ thread' = [thread EXCEPT ![used'] = "alive"]
  /\ job' = [job EXCEPT ![used'] = Head1]
  /\ Release
  /\ UNCHANGED <<mainVars, loaded, called, ended, unloading, settled, opVars>>

DeleteDone ==
  /\ lock = "delete"
  /\ \E r \in {"ok", "failed"} : Answer(Head1.op, r)
  /\ Release
  /\ UNCHANGED <<mainVars, used, job, workerVars, asked, kind, target, quiet, dropped>>

(***************************************************************************)
(* Worker threads.                                                         *)
(***************************************************************************)

\* Mutant: a superseded worker is not registered, and not ended either.
StandDownOnly(w) == UNCHANGED thread

\* stillWanted() is false: the worker is terminated instead of registered.
StandDown(w) == Terminate(w)

\* The spawn of w calls back; an answer sent before the thread ended may still
\* be delivered.
CallsBack(w) ==
  /\ w \in Running \ called
  /\ called' = called \cup {w}
  /\ UNCHANGED <<lockVars, ended, unloading, settled, asked, kind, target, quiet, dropped>>

SpawnErrs(w) ==
  /\ CallsBack(w)
  /\ Terminate(w) /\ SpawnFails(job[w], "failed")
  /\ UNCHANGED <<modules, loaded>>

\* The worker could not be locked down (set-options), or its module's code does
\* not load (load-module).
SetOptionsFails(w) == SpawnErrs(w)
LoadModuleFails(w) == SpawnErrs(w)

\* The module is loaded: registered, unless a supervised spawn is out of date.
LoadReply(w) ==
  /\ CallsBack(w)
  /\ \/ /\ job[w].stale
        /\ StandDown(w)
        /\ UNCHANGED <<modules, sup, loaded, replies, stage>>
     \/ /\ ~job[w].stale
        /\ loaded' = loaded \cup {w}
        /\ sup' = Tracked(sup)
        /\ modules' = w
        /\ IF modules = 0 THEN UNCHANGED thread ELSE Terminate(modules)
        /\ IF job[w].kind = "load"
           THEN Answer(job[w].op, "ok")
           ELSE UNCHANGED <<replies, stage>>

\* The module throws, exits, or is ended by a limit (lib/worker-limits.js).
Crash(w) ==
  /\ thread[w] = "alive"
  /\ \E t \in {"crashed", "dying"} : thread' = [thread EXCEPT ![w] = t]
  /\ UNCHANGED <<mainVars, lockVars, loaded, called, ended, unloading, settled, opVars>>

\* Mutant: done() has no settled flag.
NotLoaded(w) == w \notin loaded

\* The spawn has not called back.
StillLoading(w) == w \notin called

\* onUnexpectedExit: only the first of 'error' and 'exit' counts.
OnUnexpectedExit(w) ==
  /\ ended' = ended \cup {w}
  /\ \/ /\ w \notin ended /\ StillLoading(w)
        /\ called' = called \cup {w}
        /\ SpawnFails(job[w], "failed")
        /\ UNCHANGED modules
     \/ /\ w \notin ended /\ w \in called /\ modules = w /\ w \notin unloading
        /\ modules' = 0
        /\ sup' \in Exited(sup)
        /\ UNCHANGED <<called, replies, stage>>
     \/ /\ w \in ended \/ (w \in called /\ (modules # w \/ w \in unloading))
        /\ UNCHANGED <<called, modules, sup, replies, stage>>

ErrorEvent(w) ==
  /\ thread[w] = "crashed"
  /\ thread' = [thread EXCEPT ![w] = "dying"]
  /\ OnUnexpectedExit(w)
  /\ UNCHANGED <<lockVars, loaded, unloading, settled, asked, kind, target, quiet, dropped>>

Unloads(w) == {o \in Ops : stage[o] = "unloading" /\ target[o] = w}

\* endWith answers the unload-module requests of w: finish() runs for each.
EndWith(w) ==
  /\ modules' = 0
  /\ stage' = [o \in Ops |-> IF o \in Unloads(w) THEN "ending" ELSE stage[o]]

\* The 'exit' event: onUnexpectedExit, then endWith answers what w still owed.
ExitEvent(w) ==
  /\ thread[w] = "dying"
  /\ thread' = [thread EXCEPT ![w] = "exited"]
  /\ \/ Unloads(w) = {} /\ OnUnexpectedExit(w)
     \/ /\ Unloads(w) # {}
        /\ ended' = ended \cup {w}
        /\ EndWith(w)
        /\ UNCHANGED <<called, sup, replies>>
  /\ UNCHANGED <<lockVars, loaded, unloading, settled, asked, kind, target, quiet, dropped>>

\* Bridge closed, broker idle or the bound passed.
Settle(w) ==
  /\ thread[w] = "exited" /\ w \notin settled
  /\ settled' = settled \cup {w}
  /\ UNCHANGED <<mainVars, lockVars, thread, loaded, called, ended, unloading, opVars>>

\* The backoff timer; restart() reaches the lock, or is refused on the spot.
RestartTimer ==
  /\ sup.timer
  /\ \/ /\ sup.state = "restarting"
        /\ sup' = [sup EXCEPT !.timer = FALSE]
        /\ chain' = Append(chain, Job("supervised", 0))
     \/ /\ sup.state = "restarting"
        /\ \E e \in {"refused", "failed"} : sup' \in RestartFails(Job("supervised", 0), e, sup)
        /\ UNCHANGED chain
     \/ /\ sup.state # "restarting"
        /\ sup' = [sup EXCEPT !.timer = FALSE]
        /\ UNCHANGED chain
  /\ UNCHANGED <<modules, lock, used, job, workerVars, opVars>>

(***************************************************************************)
(* Continuations run before the event loop takes its next event.           *)
(***************************************************************************)

Continuation == StartJob \/ ExitAwaited \/ SettleAwaited \/ \E o \in Ops : UnloadEnded(o)

Pending ==
  \/ chain # <<>> /\ lock = "idle"
  \/ lock = "wait_exit" /\ thread[used] = "exited"
  \/ lock = "wait_settled" /\ (used = 0 \/ used \in settled)
  \/ \E o \in Ops : stage[o] = "ending" /\ thread[target[o]] = "exited"

\* What happens by itself, as opposed to requests and crashes.
LockStep == WalkFails \/ WalkSucceeds \/ DeleteDone
WorkerStep(w) ==
  SetOptionsFails(w) \/ LoadModuleFails(w) \/ LoadReply(w) \/ ErrorEvent(w) \/ ExitEvent(w)

Event ==
  \/ \E o \in Ops : Load(o) \/ Reload(o) \/ Restart(o) \/ Unload(o) \/ Uninstall(o)
                     \/ Status(o) \/ FinishUnload(o)
  \/ LockStep
  \/ \E w \in Workers : WorkerStep(w) \/ Crash(w) \/ Settle(w)
  \/ RestartTimer

Next == Continuation \/ (~Pending /\ Event)

\* Continuations always run; the file system answers; threads run until they
\* answer or end; timers fire; settling is bounded (IDLE_BOUND_MS).
Fairness ==
  /\ WF_vars(Continuation)
  /\ WF_vars(~Pending /\ LockStep)
  /\ \A w \in Workers : WF_vars(~Pending /\ WorkerStep(w)) /\ WF_vars(~Pending /\ Settle(w))
  /\ \A o \in Ops : WF_vars(~Pending /\ FinishUnload(o))
  /\ WF_vars(~Pending /\ RestartTimer)

Spec == Init /\ [][Next]_vars /\ Fairness

(***************************************************************************)
(* Properties.                                                             *)
(***************************************************************************)

Jobs == [kind : {"none", "load", "supervised", "uninstall"}, op : 0 .. MaxOps, stale : BOOLEAN]

Records == [state : {"none", "running", "restarting", "suspended"},
            exits : 0 .. SuspendAfter, timer : BOOLEAN]

RegistryType == modules \in 0 .. MaxWorkers /\ sup \in Records

LockType ==
  /\ chain \in Seq(Jobs)
  /\ lock \in {"idle", "wait_exit", "wait_settled", "walk", "delete"}
  /\ used \in 0 .. MaxWorkers
  /\ job \in [Workers -> Jobs]

WorkerType ==
  /\ thread \in [Workers -> {"none", "alive", "crashed", "dying", "exited"}]
  /\ loaded \subseteq Workers /\ called \subseteq Workers /\ ended \subseteq Workers
  /\ unloading \subseteq Workers /\ settled \subseteq Workers

OpType ==
  /\ asked \in 0 .. MaxOps
  /\ kind \in [Ops -> OpKinds \cup {"none"}]
  /\ stage \in [Ops -> {"none", "unloading", "ending", "spawning", "done"}]
  /\ target \in [Ops -> 0 .. MaxWorkers]
  /\ replies \in [Ops -> Seq({"ok", "failed"})]
  /\ quiet \in BOOLEAN /\ dropped \subseteq Workers

\* Every variable has its type.
TypeOK == RegistryType /\ LockType /\ WorkerType /\ OpType

\* A worker that runs undisturbed is the registered one, or its spawn has yet to
\* call back: none is left running that no unload can reach, but those a reload
\* with an invalid version has dropped, which the next spawn ends.
NoOrphan ==
  \A w \in Workers : thread[w] = "alive" => modules = w \/ w \notin called \/ w \in dropped

\* "A restart's new worker never overlaps the old one": whatever loads, unloads,
\* restarts, crashes and supervised restarts cross, one thread of the name runs,
\* and it is the one the module manager knows.
OneWorker == Cardinality(Running) <= 1 /\ NoOrphan

\* A module reported restarting has a restart ahead of it: the timer is armed, or
\* the spawn is queued or loading.  It cannot stay MODULE_RESTARTING for ever.
RestartPending ==
  sup.state = "restarting" =>
    \/ sup.timer
    \/ \E i \in DOMAIN chain : chain[i].kind = "supervised" /\ ~chain[i].stale
    \/ \E w \in Workers \ called : job[w].kind = "supervised" /\ ~job[w].stale

\* Data is deleted only with the module out of the way: no thread runs, none is
\* registered or to be restarted, and the last worker's file broker has settled.
DeleteAlone ==
  lock = "delete" => /\ Running = {} /\ modules = 0 /\ sup.state = "none"
                     /\ \A w \in 1 .. used : w \in settled

\* A module that was taken away stays away.  An unload sticks: answered with no
\* load outstanding, and none asked for since, it leaves no worker registered and
\* nothing for the supervisor to restart; and an uninstall deletes alone.
GoneIsGone ==
  /\ quiet => modules = 0 /\ sup.state = "none"
  /\ DeleteAlone

\* Every request of the module manager comes to have one answer, and never a
\* second, whoever crashes meanwhile.
OpsAnswered ==
  \A o \in Ops : asked >= o ~> [](Len(replies[o]) = 1)
=============================================================================
