----------------------------- MODULE Discovery -----------------------------
(***************************************************************************)
(* Module discovery and composition verification, seen from the main       *)
(* thread under --workerThread: the startup list is loaded one module at a *)
(* time (module-manager.js loadAllModules), each loaded worker is told to  *)
(* discover, announces its device and acknowledges; when enough modules    *)
(* have acknowledged, 'allmodulediscovered' fires and the device manager   *)
(* answers the queries it had queued and verifies the composition of every *)
(* device it serves (device-manager.js onAllModulesDiscovered).  Workers   *)
(* end at any moment and are restarted or stay down, what they posted may  *)
(* be taken after they were purged, a module may be loaded at run time,    *)
(* and two modules may claim one device.                                   *)
(*                                                                         *)
(* A module here brings one device online.  A worker is the pair of its    *)
(* module and a generation, for the main thread keeps references to        *)
(* workers that have ended.  AsyncAuth tells the sqlite provider, whose    *)
(* answers come back in later turns, from the file provider, which calls   *)
(* back in the same turn.                                                  *)
(***************************************************************************)
EXTENDS Naturals, Sequences, SequencesExt, FiniteSets

CONSTANTS Modules,     \* module names
          Devices,     \* device IDs
          DeviceOf,    \* [Modules -> Devices]: derived from friendlyName
          Calls,       \* [Modules -> SUBSET Devices]: "countinghouse.calls"
          Startup,     \* the startup list, a sequence of modules
          AsyncAuth,   \* the auth provider answers in a later turn
          MayStayDown, \* a worker that ends may be suspended or unloaded
          Askers,      \* bound: the modules that ask main for a device
          MaxGen,      \* bound on the workers spawned per module
          MaxEnds,     \* bound on the workers that end
          None

ASSUME DiscoveryAssumption ==
  /\ DeviceOf \in [Modules -> Devices]
  /\ Calls \in [Modules -> SUBSET Devices]
  /\ Startup \in Seq(Modules)
  /\ IsInjective(Startup)
  /\ Askers \subseteq Modules
  /\ AsyncAuth \in BOOLEAN /\ MayStayDown \in BOOLEAN
  /\ MaxGen \in Nat /\ MaxEnds \in Nat

VARIABLES
  next,              \* loadAllModules: index of the module being loaded
  noofLoadedModules,
  worker,            \* per module, the state of its newest worker
  ends,              \* how many workers have ended
  deviceMap,         \* per device, the worker that serves it, or None
  notifyDeviceLoad,  \* per device, the queries queued until it comes online
  allDevicesLoaded,
  startupDone,       \* _compositionStartupDone
  jobs,              \* verifications under way, one per device of a pass
  passes,            \* how many passes have begun
  late               \* history: the workers heard of after they were purged

discoveryVars == <<next, noofLoadedModules, worker, ends, deviceMap, notifyDeviceLoad,
                   allDevicesLoaded, startupDone, jobs, passes, late>>

noofTotalModules == Len(Startup)

(***************************************************************************)
(* A worker: its stage, the two FIFO ports, whether its device is made and *)
(* in wm.deviceList, the composition it holds ("unset" until a verdict     *)
(* arrives), the last verdict main reached about it, and its one query.    *)
(***************************************************************************)
NewWorker(g) == [gen |-> g, stage |-> "loading", inbox |-> <<>>,
                 outbox |-> <<>>, announced |-> FALSE, timer |-> "set",
                 composition |-> "unset", verdict |-> "unset",
                 query |-> "none", acked |-> FALSE]

\* A worker is registered until it is purged ("exited" is the rest of the turn
\* in which an unload hears of its exit), and its thread runs on while it ends.
Alive == {"discovering", "idle"}
Threaded == Alive \cup {"ending"}
Listed == Alive \cup {"exited"}
wm(m) == <<m, worker[m].gen>>
Stands(w, stages) == worker[w[1]].gen = w[2] /\ worker[w[1]].stage \in stages

DiscoveryInit ==
  /\ next = 1
  /\ noofLoadedModules = 0
  /\ worker = [m \in Modules |-> [NewWorker(0) EXCEPT !.stage = "none"]]
  /\ ends = 0
  /\ deviceMap = [d \in Devices |-> None]
  /\ notifyDeviceLoad = [d \in Devices |-> {}]
  /\ allDevicesLoaded = (noofTotalModules = 0)
  /\ startupDone = (noofTotalModules = 0)
  /\ jobs = {}
  /\ passes = 0
  /\ late = {}

(***************************************************************************)
(* Verification steps that the provider answers in the same turn, and the  *)
(* end of an unload whose worker exited, run before the main thread takes  *)
(* up anything else.                                                       *)
(***************************************************************************)
Unanswered(j) == j.phase \in {"identity", "targets"}
Settled == AsyncAuth \/ \A j \in jobs : ~Unanswered(j)
MainFree == Settled /\ \A m \in Modules : worker[m].stage # "exited"

Post(ws, m, msg) == [ws EXCEPT ![m].inbox = Append(@, msg)]
Send(ws, m, msg) == [ws EXCEPT ![m].outbox = Append(@, msg)]

\* A queued entry is a worker's query or a bare callback of verifyComposition,
\* which has no wm to reply through.
FromWorkers(q) == \A e \in q : e.kind = "query"

\* every queued query of q answered with r, if its worker is there to hear it
AnswerAll(ws, q, r) ==
  [m \in Modules |->
    IF ws[m].stage \in Threaded /\ \E e \in q : e.kind = "query" /\ e.w = <<m, ws[m].gen>>
      THEN [ws[m] EXCEPT !.inbox = Append(@, [kind |-> "reply", res |-> r])]
      ELSE ws[m]]

Queued == UNION {notifyDeviceLoad[d] : d \in Devices}

(***************************************************************************)
(* onAllModulesDiscovered.  A bare callback in the queues makes the drain  *)
(* throw (its .wm is undefined); framework.js only logs the exception, so  *)
(* the flag is set, the queues in front of it are answered and deleted,    *)
(* the rest stay and no pass begins.                                       *)
(***************************************************************************)
Pass == {[pass |-> passes + 1, dev |-> d, w |-> deviceMap[d], again |-> startupDone,
          phase |-> "identity", todo |-> {}, queued |-> {}] :
         d \in {x \in Devices : deviceMap[x] # None}}

onAllModulesDiscovered(ws) ==
  /\ allDevicesLoaded' = TRUE
  /\ \/ /\ FromWorkers(Queued)
        /\ worker' = AnswerAll(ws, Queued, "missing")
        /\ notifyDeviceLoad' = [d \in Devices |-> {}]
        /\ startupDone' = TRUE
        /\ passes' = passes + 1
        /\ jobs' = jobs \cup Pass
     \/ \E bare \in Devices :
        /\ ~FromWorkers(notifyDeviceLoad[bare])
        /\ \E done \in SUBSET {d \in Devices : FromWorkers(notifyDeviceLoad[d])},
             front \in SUBSET notifyDeviceLoad[bare] :
             /\ worker' = AnswerAll(ws, front \cup UNION {notifyDeviceLoad[d] : d \in done}, "missing")
             /\ notifyDeviceLoad' = [d \in Devices |-> IF d \in done THEN {} ELSE notifyDeviceLoad[d]]
        /\ UNCHANGED <<startupDone, passes, jobs>>

\* a slip: the count runs past the total
CountedUnclamped(ws) ==
  LET c == noofLoadedModules + 1
  IN  /\ noofLoadedModules' = c
      /\ IF noofTotalModules = 0 \/ c = noofTotalModules
           THEN onAllModulesDiscovered(ws)
           ELSE /\ worker' = ws
                /\ UNCHANGED <<allDevicesLoaded, notifyDeviceLoad,
                               startupDone, passes, jobs>>

\* one more module is through: count it, clamp, and say when all are
Counted(ws) ==
  LET n == noofLoadedModules + 1
      c == IF noofTotalModules > 0 /\ n > noofTotalModules
             THEN noofTotalModules ELSE n
  IN  /\ noofLoadedModules' = c
      /\ IF noofTotalModules = 0 \/ c = noofTotalModules
           THEN onAllModulesDiscovered(ws)
           ELSE /\ worker' = ws
                /\ UNCHANGED <<allDevicesLoaded, notifyDeviceLoad,
                               startupDone, passes, jobs>>

-----------------------------------------------------------------------------
(* Loading *)

StartupTurn(m) == next <= Len(Startup) /\ Startup[next] = m

\* spawnModuleWorker, for the startup list, a run-time load or a restart
Spawn(m) ==
  /\ MainFree
  /\ worker[m].gen < MaxGen
  /\ \/ worker[m].stage = "none" /\ StartupTurn(m)
     \/ worker[m].stage = "none" /\ m \notin ToSet(Startup)
     \/ worker[m].stage = "down"
  /\ worker' = [worker EXCEPT ![m] = NewWorker(@.gen + 1)]
  /\ UNCHANGED <<next, noofLoadedModules, ends, deviceMap, notifyDeviceLoad,
                 allDevicesLoaded, startupDone, jobs, passes, late>>

\* the startup list goes on without the module, and counts it
StartupFails(ws) == next' = next + 1 /\ Counted(ws)

\* A refusal, or the worker ends while loading.  Only the startup list counts
\* the failure; a first load is not tried again, a restart is.
LoadFails(m) ==
  /\ MainFree
  /\ worker[m].stage = "loading"
  /\ ends < MaxEnds
  /\ ends' = ends + 1
  /\ LET first == worker[m].gen = 1
         ws == [worker EXCEPT ![m].stage = IF first THEN "refused" ELSE "down"]
     IN  IF first /\ StartupTurn(m)
           THEN StartupFails(ws)
           ELSE /\ worker' = ws
                /\ UNCHANGED <<next, noofLoadedModules, allDevicesLoaded,
                               notifyDeviceLoad, startupDone, passes, jobs>>
  /\ UNCHANGED <<deviceMap, late>>

\* the discover message, which makes the worker's module look for its device
Discover(m) == [worker EXCEPT ![m].stage = "discovering"]

\* onModuleDiscovering, in the main thread
onModuleDiscovering == allDevicesLoaded' = FALSE

\* The load reply: 'workerloaded' and 'moduleload', the discover message and
\* 'modulediscovering', then the spawn's callback lets the next module load.
onModuleLoad(m) ==
  /\ MainFree
  /\ worker[m].stage = "loading"
  /\ worker' = Discover(m)
  /\ onModuleDiscovering
  /\ next' = IF StartupTurn(m) THEN next + 1 ELSE next
  /\ UNCHANGED <<noofLoadedModules, ends, deviceMap, notifyDeviceLoad,
                 startupDone, jobs, passes, late>>

-----------------------------------------------------------------------------
(* The worker thread, whose first message is discover-device *)

\* query-device-reply: its callback is in msgQueue the first time
QueryAnswered(ws, m, msg) == [ws EXCEPT ![m].query = IF @ = "waiting" THEN msg.res ELSE @]

\* set-composition replaces what ctx.call may address, and is acknowledged,
\* with an error when the worker has unloaded the device
SetComposition(ws, m, msg) ==
  Send(IF ws[m].stage = "ending" THEN ws ELSE [ws EXCEPT ![m].composition = msg.binding],
       m, [kind |-> "bound", job |-> msg.job])

\* the next message from main: a verdict, or the answer to a query
WorkerReceives(m) ==
  /\ worker[m].stage \in Threaded
  /\ worker[m].inbox # <<>>
  /\ LET msg == Head(worker[m].inbox)
         ws  == [worker EXCEPT ![m].inbox = Tail(@)]
     IN  worker' = CASE msg.kind = "reply" -> QueryAnswered(ws, m, msg)
                     [] msg.kind = "set-composition" -> SetComposition(ws, m, msg)
  /\ UNCHANGED <<next, noofLoadedModules, ends, deviceMap, notifyDeviceLoad,
                 allDevicesLoaded, startupDone, jobs, passes, late>>

\* the device is made and its spec checked, and the main thread told
Announced(ws, m) == Send([ws EXCEPT ![m].announced = TRUE], m, [kind |-> "deviceonline"])

\* the module's device comes online, before or after the discovery timer
Announce(m) ==
  /\ worker[m].stage \in Threaded
  /\ ~worker[m].announced
  /\ worker' = Announced(worker, m)
  /\ UNCHANGED <<next, noofLoadedModules, ends, deviceMap, notifyDeviceLoad,
                 allDevicesLoaded, startupDone, jobs, passes, late>>

\* stopDiscoverAll
StopDiscover(ws, m) == [ws EXCEPT ![m].timer = "fired"]

\* five seconds after the discover message
DiscoverTimer(m) ==
  /\ worker[m].timer = "set"
  /\ worker[m].stage \in Threaded
  /\ worker' = Send(StopDiscover(worker, m), m, [kind |-> "discovered"])
  /\ UNCHANGED <<next, noofLoadedModules, ends, deviceMap, notifyDeviceLoad,
                 allDevicesLoaded, startupDone, jobs, passes, late>>

\* createServiceClient or ctx.call asks main for a device
AskDevice(m, d) ==
  /\ m \in Askers
  /\ worker[m].stage \in Threaded
  /\ worker[m].query = "none"
  /\ d # DeviceOf[m]
  /\ worker' = Send([worker EXCEPT ![m].query = "waiting"], m,
                    [kind |-> "query", dev |-> d])
  /\ UNCHANGED <<next, noofLoadedModules, ends, deviceMap, notifyDeviceLoad,
                 allDevicesLoaded, startupDone, jobs, passes, late>>

-----------------------------------------------------------------------------
(* The main thread takes the next message of a worker *)

\* deviceIdConflict: another module's path holds this device already
Conflicts(d, m) == deviceMap[d] # None /\ deviceMap[d][1] # m

\* A bare callback among the queued makes the answers stop in front of it.
DeviceOnline(ws, m) ==
  LET d == DeviceOf[m]
      q == notifyDeviceLoad[d]
  IN  IF Conflicts(d, m)
        THEN worker' = ws /\ UNCHANGED <<deviceMap, notifyDeviceLoad>>
        ELSE /\ deviceMap' = [deviceMap EXCEPT ![d] = wm(m)]
             /\ \/ /\ allDevicesLoaded
                   /\ worker' = ws /\ UNCHANGED notifyDeviceLoad
                \/ /\ ~allDevicesLoaded /\ FromWorkers(q)
                   /\ worker' = AnswerAll(ws, q, "found")
                   /\ notifyDeviceLoad' = [notifyDeviceLoad EXCEPT ![d] = {}]
                \/ /\ ~allDevicesLoaded /\ ~FromWorkers(q)
                   /\ \E front \in SUBSET q : worker' = AnswerAll(ws, front, "found")
                   /\ UNCHANGED notifyDeviceLoad

queryDeviceForChild(ws, m, d) ==
  LET entry == [kind |-> "query", w |-> wm(m)]
      answer(r) == /\ worker' = Post(ws, m, [kind |-> "reply", res |-> r])
                   /\ UNCHANGED notifyDeviceLoad
  IN  CASE deviceMap[d] # None -> answer("found")
        [] deviceMap[d] = None /\ allDevicesLoaded -> answer("missing")
        [] OTHER ->
             /\ notifyDeviceLoad' = [notifyDeviceLoad EXCEPT ![d] = @ \cup {entry}]
             /\ worker' = ws

\* The port of a worker is read until its thread is gone; a module that was
\* purged is not counted, but the other messages are taken as they are.
onWorkerMessage(m) ==
  /\ MainFree
  /\ worker[m].stage \in Threaded
  /\ worker[m].outbox # <<>>
  /\ LET msg == Head(worker[m].outbox)
         ws  == [worker EXCEPT ![m].outbox = Tail(@)]
     IN  \/ /\ msg.kind = "deviceonline"
            /\ DeviceOnline(ws, m)
            /\ UNCHANGED <<noofLoadedModules, allDevicesLoaded, startupDone,
                           jobs, passes>>
         \/ /\ msg.kind = "discovered"
            /\ IF worker[m].stage = "ending"
                 THEN worker' = ws /\ UNCHANGED <<noofLoadedModules, allDevicesLoaded, startupDone,
                                                  notifyDeviceLoad, jobs, passes>>
                 ELSE Counted([ws EXCEPT ![m].stage = "idle", ![m].acked = TRUE])
            /\ UNCHANGED deviceMap
         \/ /\ msg.kind = "bound"      \* verdictDelivered
            /\ jobs' = jobs \ {msg.job}
            /\ worker' = ws
            /\ UNCHANGED <<noofLoadedModules, allDevicesLoaded, startupDone,
                           deviceMap, notifyDeviceLoad, passes>>
         \/ /\ msg.kind = "query"
            /\ queryDeviceForChild(ws, m, msg.dev)
            /\ UNCHANGED <<noofLoadedModules, allDevicesLoaded, startupDone,
                           deviceMap, jobs, passes>>
         \/ /\ msg.kind = "query"      \* --moduleMessageRate: no token left
            /\ worker' = Post(ws, m, [kind |-> "reply", res |-> "limited"])
            /\ UNCHANGED <<noofLoadedModules, allDevicesLoaded, startupDone,
                           deviceMap, notifyDeviceLoad, jobs, passes>>
  /\ late' = IF worker[m].stage = "ending" THEN late \cup {wm(m)} ELSE late
  /\ UNCHANGED <<next, ends>>

-----------------------------------------------------------------------------
(* A worker ends *)

\* slips: the purge leaves the devices, or the queued queries
PurgedNothing(w) == deviceMap
UnqueuedNothing(w) == notifyDeviceLoad

\* onPurgeDevice, main-thread branch
Purged(w) == [d \in Devices |-> IF deviceMap[d] = w THEN None ELSE deviceMap[d]]
Unqueued(w) ==
  [d \in Devices |->
    {e \in notifyDeviceLoad[d] : ~(e.kind = "query" /\ e.w = w)}]

\* its relays that are still to be acknowledged, answered by endWith
Unrelayed(w) == {j \in jobs : ~(j.phase = "relay" /\ j.w = w)}

\* the thread is gone: the module is started again, or stays away
Departed(m) ==
  \E s \in IF MayStayDown THEN {"down", "gone"} ELSE {"down"} :
    worker' = [worker EXCEPT ![m] = [NewWorker(@.gen) EXCEPT !.stage = s, !.acked = worker[m].acked]]

\* An unload's acknowledgement or timer, or the 'error' of a crash: the module
\* is purged, and its thread is still to end.
Purge(m) ==
  /\ MainFree
  /\ worker[m].stage \in Alive
  /\ ends < MaxEnds
  /\ ends' = ends + 1
  /\ deviceMap' = Purged(wm(m))
  /\ notifyDeviceLoad' = Unqueued(wm(m))
  /\ worker' = [worker EXCEPT ![m].stage = "ending"]
  /\ UNCHANGED <<next, noofLoadedModules, allDevicesLoaded, startupDone, jobs, passes, late>>

\* 'exit', which comes after everything the worker had posted.  A discovery that
\* endWith answers now counts nothing: the module is off the registry.
ThreadExits(m) ==
  /\ MainFree
  /\ worker[m].stage = "ending"
  /\ worker[m].outbox = <<>>
  /\ Departed(m)
  /\ jobs' = Unrelayed(wm(m))
  /\ UNCHANGED <<next, noofLoadedModules, ends, deviceMap, notifyDeviceLoad,
                 allDevicesLoaded, startupDone, passes, late>>

\* 'exit' while an unload waits for its acknowledgement: endWith answers the
\* discovery first, and the module is still registered.
ExitsUnloading(m) ==
  /\ MainFree
  /\ worker[m].stage \in Alive
  /\ worker[m].outbox = <<>>
  /\ ends < MaxEnds
  /\ ends' = ends + 1
  /\ LET ws == [worker EXCEPT ![m].stage = "exited", ![m].acked = TRUE]
     IN  IF worker[m].stage = "discovering" THEN Counted(ws)
         ELSE /\ worker' = ws
              /\ UNCHANGED <<noofLoadedModules, allDevicesLoaded, notifyDeviceLoad,
                             startupDone, passes, jobs>>
  /\ UNCHANGED <<next, deviceMap, late>>

\* endWith goes on to the unload's own request, whose finish() purges.
UnloadEnds(m) ==
  /\ Settled
  /\ worker[m].stage = "exited"
  /\ deviceMap' = Purged(wm(m))
  /\ notifyDeviceLoad' = Unqueued(wm(m))
  /\ jobs' = Unrelayed(wm(m))
  /\ Departed(m)
  /\ UNCHANGED <<next, noofLoadedModules, ends, allDevicesLoaded, startupDone, passes, late>>

-----------------------------------------------------------------------------
(* verifyComposition, one job per device *)

\* a slip: a failed re-verification is logged and nothing is relayed
VerdictLogged(j, ok) ==
  LET m == j.w[1]
      binding == IF ok /\ Calls[m] # {} THEN "bound" ELSE "cleared"
      sent == [j EXCEPT !.phase = "relay"]
  IN  /\ IF ok
           THEN IF Stands(j.w, Threaded)
                  THEN /\ worker' = Post([worker EXCEPT ![m].verdict = binding], m,
                             [kind |-> "set-composition", binding |-> binding,
                              job |-> sent])
                       /\ jobs' = (jobs \ {j}) \cup {sent}
                  ELSE worker' = worker /\ jobs' = jobs \ {j}
           ELSE /\ jobs' = jobs \ {j}
                /\ worker' = IF Stands(j.w, Threaded) /\ j.again
                               THEN [worker EXCEPT ![m].verdict = binding]
                               ELSE worker
      /\ deviceMap' = IF ok \/ j.again THEN deviceMap
                       ELSE [deviceMap EXCEPT ![j.dev] = None]
      /\ UNCHANGED notifyDeviceLoad

\* The verdict's way to the device: a failed first pass purges it, any other
\* verdict is relayed into its worker (answered at once when that has ended).
Verdict(j, ok) ==
  LET m == j.w[1]
      binding == IF ok /\ Calls[m] # {} THEN "bound" ELSE "cleared"
      sent == [j EXCEPT !.phase = "relay"]
  IN  /\ IF ok \/ j.again
           THEN /\ IF Stands(j.w, Threaded)
                     THEN /\ worker' = Post([worker EXCEPT ![m].verdict = binding], m,
                                [kind |-> "set-composition", binding |-> binding,
                                 job |-> sent])
                          /\ jobs' = (jobs \ {j}) \cup {sent}
                     ELSE worker' = worker /\ jobs' = jobs \ {j}
                /\ UNCHANGED deviceMap
           ELSE /\ deviceMap' = [deviceMap EXCEPT ![j.dev] = None]
                /\ jobs' = jobs \ {j}
                /\ UNCHANGED worker
      /\ UNCHANGED notifyDeviceLoad

\* onQueryDevice for a device that is not there yet
onQueryDevice(d, w) == notifyDeviceLoad[d] \cup {[kind |-> "callback", w |-> w]}

\* the module runs as the one key that claims it: none is no identity, and two
\* are none either
IdentityForModule(claimants) == claimants = 1

\* identityForModule answers: nothing declared and no identity end it here,
\* otherwise every declared target is looked up in one go; the callback of
\* one that is missing is queued while discovery is under way.
Identity(j, claimants) ==
  LET targets == Calls[j.w[1]]
      missing == {d \in targets : deviceMap[d] = None}
      asked   == [j EXCEPT !.phase = "targets", !.todo = targets,
                    !.queued = missing]
  IN  /\ j.phase = "identity"
      /\ CASE targets = {} -> Verdict(j, TRUE)
           [] targets # {} /\ (~IdentityForModule(claimants) \/ (missing # {} /\ allDevicesLoaded)) ->
                Verdict(j, FALSE)
           [] OTHER ->
                /\ jobs' = (jobs \ {j}) \cup {asked}
                /\ notifyDeviceLoad' =
                     [d \in Devices |-> IF d \in missing
                        THEN onQueryDevice(d, j.w) ELSE notifyDeviceLoad[d]]
                /\ UNCHANGED <<worker, deviceMap>>

\* authenticate answers for one target that was found
Grant(j, d, ok) ==
  /\ j.phase = "targets"
  /\ d \in j.todo \ j.queued
  /\ IF ~ok THEN Verdict(j, FALSE)
     ELSE IF j.todo = {d} THEN Verdict(j, TRUE)
     ELSE /\ jobs' = (jobs \ {j}) \cup {[j EXCEPT !.todo = @ \ {d}]}
          /\ UNCHANGED <<worker, deviceMap, notifyDeviceLoad>>

verifyComposition(j) ==
  /\ \/ \E claimants \in 0 .. 2 : Identity(j, claimants)
     \/ \E d \in Devices, ok \in BOOLEAN : Grant(j, d, ok)
  /\ UNCHANGED <<next, noofLoadedModules, ends, allDevicesLoaded, startupDone,
                 passes, late>>

-----------------------------------------------------------------------------
DiscoveryNext ==
  \/ \E m \in Modules :
       \/ Spawn(m) \/ LoadFails(m) \/ onModuleLoad(m)
       \/ WorkerReceives(m) \/ Announce(m) \/ DiscoverTimer(m)
       \/ onWorkerMessage(m)
       \/ Purge(m) \/ ThreadExits(m) \/ ExitsUnloading(m) \/ UnloadEnds(m)
       \/ \E d \in Devices : AskDevice(m, d)
  \/ \E j \in jobs : verifyComposition(j)

DiscoverySpec == DiscoveryInit /\ [][DiscoveryNext]_discoveryVars

(***************************************************************************)
(* The event loops run, timers fire, startup loads and supervised restarts *)
(* are attempted; nothing forces a worker to end, a load to fail, a query  *)
(* or a run-time load.  Every behaviour within the bounds is finite, so    *)
(* one weak fairness over these steps serves each of them.                 *)
(***************************************************************************)
Progress ==
  \/ \E m \in Modules :
       \/ (m \in ToSet(Startup) \/ worker[m].stage = "down") /\ Spawn(m)
       \/ onModuleLoad(m) \/ WorkerReceives(m) \/ Announce(m)
       \/ DiscoverTimer(m) \/ onWorkerMessage(m)
       \/ ThreadExits(m) \/ UnloadEnds(m)
  \/ \E j \in jobs : verifyComposition(j)

LiveSpec == DiscoverySpec /\ WF_discoveryVars(Progress)

-----------------------------------------------------------------------------
WorkerStages == {"none", "loading", "discovering", "idle", "ending", "exited",
                 "refused", "down", "gone"}
Bindings == {"unset", "bound", "cleared"}
Results == {"found", "missing", "limited"}
Generations == Modules \X Nat
JobSet == [pass : Nat, dev : Devices, w : Generations, again : BOOLEAN,
           phase : {"identity", "targets", "relay"}, todo : SUBSET Devices, queued : SUBSET Devices]
ToWorker == [kind : {"reply"}, res : Results]
              \cup [kind : {"set-composition"}, binding : Bindings, job : JobSet]
ToMain == [kind : {"deviceonline", "discovered"}] \cup [kind : {"bound"}, job : JobSet]
            \cup [kind : {"query"}, dev : Devices]
WorkerSet == [gen : Nat, stage : WorkerStages, inbox : Seq(ToWorker), outbox : Seq(ToMain),
              announced : BOOLEAN, timer : {"set", "fired"}, composition : Bindings,
              verdict : Bindings, query : Results \cup {"none", "waiting"}, acked : BOOLEAN]
Entries == [kind : {"query", "callback"}, w : Generations]

\* Every variable has its type.
DiscoveryTypeOK ==
  /\ next \in 1 .. (Len(Startup) + 1) /\ noofLoadedModules \in Nat /\ ends \in Nat
  /\ worker \in [Modules -> WorkerSet]
  /\ deviceMap \in [Devices -> Generations \cup {None}]
  /\ notifyDeviceLoad \in [Devices -> SUBSET Entries]
  /\ jobs \subseteq JobSet
  /\ allDevicesLoaded \in BOOLEAN /\ startupDone \in BOOLEAN /\ passes \in Nat
  /\ late \subseteq Generations

\* A bare callback of verifyComposition is in the queues: from then on every
\* drain stops at it.
Jammed == ~FromWorkers(Queued)

\* A query is held back only while discovery is under way and its device is not
\* served yet, unless the queues are jammed; and a purge drops the queries of
\* its worker, for good unless the worker is heard of after it.
QueuedIsOwed ==
  \A d \in Devices : \A e \in notifyDeviceLoad[d] :
    /\ ~Jammed => ~allDevicesLoaded /\ deviceMap[d] = None
    /\ e.kind = "query" => Stands(e.w, Listed) \/ e.w \in late

\* A device is mapped only to a worker of a module that owns it, which is
\* registered and has announced it, or was heard of after its purge.
MappedIsServed ==
  \A d \in Devices : deviceMap[d] # None =>
    /\ DeviceOf[deviceMap[d][1]] = d
    /\ \/ Stands(deviceMap[d], Listed) /\ worker[deviceMap[d][1]].announced
       \/ deviceMap[d] \in late

\* The device manager's two tables never contradict the workers or each other.
TablesAgree == QueuedIsOwed /\ MappedIsServed

\* Once the relays of a worker are through, its device holds the verdict main
\* reached last: a device whose re-verification failed can no longer ctx.call.
LastVerdictHolds ==
  \A m \in Modules :
    (/\ worker[m].stage \in Alive
     /\ \A i \in DOMAIN worker[m].inbox :
          worker[m].inbox[i].kind # "set-composition")
      => worker[m].composition = worker[m].verdict

\* The main thread and the workers agree: the two tables on who serves which
\* device and who still waits for one, the relays on what a device may call.
InStep == TablesAgree /\ LastVerdictHolds

\* A worker that was told to discover went away for good before its module was
\* counted.
LeftOut == \E m \in Modules : worker[m].stage = "gone" /\ ~worker[m].acked

\* 'allmodulediscovered' has come after the last 'modulediscovering', every
\* query and every verdict has been answered.
Ended ==
  /\ allDevicesLoaded
  /\ jobs = {}
  /\ \A m \in Modules : worker[m].query # "waiting"

\* Discovery ends, unless a module is left out or a bare callback jams the queues.
DiscoveryEnds == <>[](Ended \/ LeftOut \/ Jammed)

-----------------------------------------------------------------------------
(* What comments in the code say, and the code does not do. *)

\* The comment on noofLoadedModules (module-manager.js:364): a module that fails
\* does not keep 'allmodulediscovered' from being emitted after the last load.
DiscoveryNotBlocked == <>[]allDevicesLoaded

\* onAllModulesDiscovered (device-manager.js:680): once the flag is set, what is
\* left in the queues has been called back with an error.
QueuesDrained == allDevicesLoaded => \A d \in Devices : notifyDeviceLoad[d] = {}

\* The comment on unloadModule (module-manager.js:1093): unloading cleans the
\* worker out of deviceMap.
UnloadedIsUnmapped == \A d \in Devices : deviceMap[d] # None => Stands(deviceMap[d], Listed)
=============================================================================
