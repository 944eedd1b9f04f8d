------------------------------ MODULE PeerBroker ------------------------------
(***************************************************************************)
(* The control plane of direct peer channels: the main thread's            *)
(* PeerChannelBroker (lib/peer-channel-broker.js), its AuthProvider        *)
(* lookups, and the worker side of lib/device-manager.js (peerChannels,    *)
(* peerDeviceWorkerMap, pendingPeerInvokes).  What travels on an open      *)
(* channel is PeerChannel.tla; here a channel is its number, the state of  *)
(* its two ends and the set of devices its callee serves.                  *)
(*                                                                         *)
(* One action is one event-loop turn of one thread.  Each worker has one   *)
(* FIFO port to the main thread and one from it.                           *)
(***************************************************************************)
EXTENDS Integers, Sequences, FiniteSets, SequencesExt

CONSTANTS
  Workers,     \* worker threads; a restarted module gets a new one
  Devices,
  None,        \* no worker
  Home,        \* Home[d]: the worker that first hosts device d
  Successor,   \* Successor[w]: the worker started in place of w, or None
  Uses,        \* the <<worker, device>> pairs module code makes calls for
  Mortal,      \* the workers that may be unloaded or exit
  Revocable,   \* the pairs whose authorisation may be taken away
  MaxChannels  \* bound: MessageChannels created

ASSUME BrokerAssumption ==
  /\ None \notin Workers
  /\ Home \in [Devices -> Workers] /\ Successor \in [Workers -> Workers \cup {None}]
  /\ Uses \subseteq Workers \X Devices /\ Revocable \subseteq Uses
  /\ Mortal \subseteq Workers /\ MaxChannels \in Nat
  /\ \A d \in Devices, w \in Workers : Successor[w] # Home[d]

VARIABLES
  \* the main thread
  deviceMap,    \* deviceMap[d]: the worker hosting d, or None
  registry,     \* channelRegistry: the live channel of a <<caller, callee>> pair, or 0
  grants,       \* grants[ch]: devices granted on the entry created with channel ch
  used,         \* channels created so far
  lookups,      \* userAuth calls in flight
  current,      \* workers modules[] still names: not yet purged
  acks,         \* peer-channel-allow requests waiting in a callee's msgQueue
  authorised,   \* what the AuthProvider would say now
  \* the ports between the main thread and each worker
  toWorker, toMain,
  \* each worker
  phase,        \* its life: see Phases
  peerDeviceWorkerMap, peerChannels, pendingPeerInvokes,
  \* each channel: who it connects, its two ends, its callee's allowed set
  pair, callerEnd, calleeEnd, allowed

mainVars   == <<deviceMap, registry, grants, used, lookups, current, acks, authorised>>
workerVars == <<phase, peerDeviceWorkerMap, peerChannels, pendingPeerInvokes>>
chanVars   == <<pair, callerEnd, calleeEnd, allowed>>
brokerVars == <<mainVars, toWorker, toMain, workerVars, chanVars>>

Channels == 1 .. MaxChannels
Pairs == Workers \X Workers
\* "transit": the port is in a message; "stranded": nobody will ever close it.
EndStates == {"none", "transit", "open", "closed", "stranded"}

\* "unloading": the main thread has sent unload-module; "purged": the worker has
\* purged its devices for it; "ended": its 'exit' event has been handled.
Phases == {"unborn", "up", "unloading", "purged", "exited", "ended"}
Up == {w \in Workers : phase[w] \in {"up", "unloading", "purged"}}
Ended == {w \in Workers : phase[w] = "ended"}

Msg(kind, dev, peer, port) == [kind |-> kind, dev |-> dev, peer |-> peer, port |-> port]
\* kind "grant" (for a request), "missing" (for a device that is not loaded)
\* or "recheck"; ok: whether the provider had a reason to say yes.
Lookup(kind, caller, dev, callee, ch) ==
  [kind |-> kind, caller |-> caller, dev |-> dev, callee |-> callee, ch |-> ch,
   ok |-> <<caller, dev>> \in authorised]

BrokerInit ==
  /\ deviceMap = Home
  /\ registry = [p \in Pairs |-> 0]
  /\ grants = [ch \in Channels |-> {}] /\ used = 0
  /\ lookups = {} /\ acks = {} /\ current = Workers
  /\ authorised = Uses
  /\ toWorker = [w \in Workers |-> <<>>] /\ toMain = [w \in Workers |-> <<>>]
  /\ phase = [w \in Workers |-> IF \E v \in Workers : Successor[v] = w THEN "unborn" ELSE "up"]
  /\ peerDeviceWorkerMap = [w \in Workers |-> [d \in Devices |-> None]]
  /\ peerChannels = [w \in Workers |-> [v \in Workers |-> 0]]
  /\ pendingPeerInvokes = [w \in Workers |-> {}]
  /\ pair = [ch \in Channels |-> <<None, None>>]
  /\ callerEnd = [ch \in Channels |-> "none"] /\ calleeEnd = [ch \in Channels |-> "none"]
  /\ allowed = [ch \in Channels |-> {}]

(***************************************************************************)
(* A worker's side.                                                        *)
(***************************************************************************)

\* The channel invokeActionViaPeerChannel would use at once for device d.
\* (A closed PeerChannel has taken itself out of peerChannels: onClose.)
FastPath(w, d) ==
  IF peerDeviceWorkerMap[w][d] = None THEN 0
  ELSE peerChannels[w][peerDeviceWorkerMap[w][d]]

\* invokeActionViaPeerChannel off the fast path: the call is queued, and the
\* first one queued for a device asks the main thread for a channel.
Call(w, d) ==
  /\ <<w, d>> \in Uses /\ w \in Up
  /\ FastPath(w, d) = 0 /\ d \notin pendingPeerInvokes[w]
  /\ used + Cardinality(UNION {pendingPeerInvokes[v] : v \in Workers}) < MaxChannels
  /\ pendingPeerInvokes' = [pendingPeerInvokes EXCEPT ![w] = @ \cup {d}]
  /\ toMain' = [toMain EXCEPT ![w] = Append(@, Msg("request", d, None, 0))]
  /\ UNCHANGED <<mainVars, toWorker, phase, peerDeviceWorkerMap, peerChannels, chanVars>>

\* PeerChannel.invalidate at worker w's end of ch, and the onClose given to it.
CloseEnd(w, ch) ==
  LET other == IF pair[ch][1] = w THEN pair[ch][2] ELSE pair[ch][1] IN
    /\ IF pair[ch][1] = w
       THEN callerEnd' = [callerEnd EXCEPT ![ch] = "closed"] /\ UNCHANGED calleeEnd
       ELSE calleeEnd' = [calleeEnd EXCEPT ![ch] = "closed"] /\ UNCHANGED callerEnd
    /\ peerChannels' = [peerChannels EXCEPT ![w][other] = IF @ = ch THEN 0 ELSE @]

\* onPeerChannelGrant: a new port is wrapped unless a channel to that worker
\* is there already, in which case nobody keeps it; flushPendingPeerInvokes.
OnGrant(w, m) ==
  /\ peerDeviceWorkerMap' = [peerDeviceWorkerMap EXCEPT ![w][m.dev] = m.peer]
  /\ IF m.port # 0
     THEN IF peerChannels[w][m.peer] = 0
          THEN /\ peerChannels' = [peerChannels EXCEPT ![w][m.peer] = m.port]
               /\ callerEnd' = [callerEnd EXCEPT ![m.port] = "open"]
          ELSE /\ callerEnd' = [callerEnd EXCEPT ![m.port] = "stranded"]
               /\ UNCHANGED peerChannels
     ELSE UNCHANGED <<peerChannels, callerEnd>>
  /\ pendingPeerInvokes' = [pendingPeerInvokes EXCEPT ![w] = @ \ {m.dev}]
  /\ UNCHANGED <<toMain, calleeEnd, allowed>>

\* onPeerChannelDeny.
OnDeny(w, m) ==
  /\ pendingPeerInvokes' = [pendingPeerInvokes EXCEPT ![w] = @ \ {m.dev}]
  /\ UNCHANGED <<toMain, peerDeviceWorkerMap, peerChannels, callerEnd, calleeEnd, allowed>>

\* onPeerChannelOpen.
OnOpen(w, m) ==
  /\ peerChannels' = [peerChannels EXCEPT ![w][m.peer] = m.port]
  /\ calleeEnd' = [calleeEnd EXCEPT ![m.port] = "open"]
  /\ allowed' = [allowed EXCEPT ![m.port] = {m.dev}]
  /\ UNCHANGED <<toMain, peerDeviceWorkerMap, pendingPeerInvokes, callerEnd>>

\* onPeerChannelAllow, and the acknowledgement sandbox.js sends after it.
OnAllow(w, m) ==
  /\ LET ch == peerChannels[w][m.peer] IN
       allowed' = IF ch # 0 /\ pair[ch][2] = w
                  THEN [allowed EXCEPT ![ch] = @ \cup {m.dev}] ELSE allowed
  /\ toMain' = [toMain EXCEPT ![w] = Append(@, Msg("ack", m.dev, m.peer, 0))]
  /\ UNCHANGED <<peerDeviceWorkerMap, peerChannels, pendingPeerInvokes, callerEnd, calleeEnd>>

\* onPeerInvalidate.
OnInvalidate(w, m) ==
  /\ IF peerChannels[w][m.peer] # 0 THEN CloseEnd(w, peerChannels[w][m.peer])
     ELSE UNCHANGED <<peerChannels, callerEnd, calleeEnd>>
  /\ UNCHANGED <<toMain, peerDeviceWorkerMap, pendingPeerInvokes, allowed>>

\* sandbox.js: the worker takes its next message from the main thread.
WorkerReceives(w) ==
  /\ w \in Up /\ toWorker[w] # <<>>
  /\ LET m == Head(toWorker[w]) IN
       \/ m.kind = "grant" /\ OnGrant(w, m)
       \/ m.kind = "deny" /\ OnDeny(w, m)
       \/ m.kind = "open" /\ OnOpen(w, m)
       \/ m.kind = "allow" /\ OnAllow(w, m)
       \/ m.kind = "invalidate" /\ OnInvalidate(w, m)
  /\ toWorker' = [toWorker EXCEPT ![w] = Tail(@)]
  /\ UNCHANGED <<mainVars, phase, pair>>

\* The port's own 'close' event: the other end was closed.
PortClose(w, ch) ==
  /\ w \in Up
  /\ \/ pair[ch][1] = w /\ callerEnd[ch] = "open" /\ calleeEnd[ch] = "closed"
     \/ pair[ch][2] = w /\ calleeEnd[ch] = "open" /\ callerEnd[ch] = "closed"
  /\ CloseEnd(w, ch)
  /\ UNCHANGED <<mainVars, toWorker, toMain, phase, peerDeviceWorkerMap,
                 pendingPeerInvokes, pair, allowed>>

\* The worker handles unload-module: onPurgeDevice's worker branch, which ends
\* with sendPeerSelfInvalidateToParent.
WorkerPurges(w) ==
  /\ phase[w] = "unloading"
  /\ phase' = [phase EXCEPT ![w] = "purged"]
  /\ toMain' = [toMain EXCEPT ![w] = Append(@, Msg("purged", None, None, 0))]
  /\ UNCHANGED <<mainVars, toWorker, peerDeviceWorkerMap, peerChannels, pendingPeerInvokes,
                 chanVars>>

\* The worker exits: its ends close, ports on their way to it included.
WorkerExits(w) ==
  /\ w \in Up \cap Mortal
  /\ phase' = [phase EXCEPT ![w] = "exited"]
  /\ toWorker' = [toWorker EXCEPT ![w] = <<>>]
  /\ callerEnd' = [ch \in Channels |-> IF pair[ch][1] = w THEN "closed" ELSE callerEnd[ch]]
  /\ calleeEnd' = [ch \in Channels |-> IF pair[ch][2] = w /\ calleeEnd[ch] # "stranded"
                                       THEN "closed" ELSE calleeEnd[ch]]
  /\ peerChannels' = [peerChannels EXCEPT ![w] = [v \in Workers |-> 0]]
  /\ pendingPeerInvokes' = [pendingPeerInvokes EXCEPT ![w] = {}]
  /\ UNCHANGED <<mainVars, toMain, peerDeviceWorkerMap, pair, allowed>>

(***************************************************************************)
(* The main thread.                                                        *)
(***************************************************************************)

\* worker.postMessage: out[w] is posted to each worker w that is running.
Post(out) ==
  toWorker' = [w \in Workers |-> IF w \in Up THEN toWorker[w] \o out[w] ELSE toWorker[w]]
Nothing == [w \in Workers |-> <<>>]
To(w, m) == [Nothing EXCEPT ![w] = <<m>>]

DenyTo(w, d) == Post(To(w, Msg("deny", d, None, 0)))

\* Mutant: a rate-limited request is dropped without a denial.
HandleRequestDropped(w, d) ==
  /\ \/ UNCHANGED <<toWorker, lookups>>
     \/ /\ deviceMap[d] \in {None, w}
        /\ DenyTo(w, d) /\ UNCHANGED lookups
     \/ /\ deviceMap[d] \notin {None, w}
        /\ lookups' = lookups \cup {Lookup("grant", w, d, deviceMap[d], 0)}
        /\ UNCHANGED toWorker
  /\ UNCHANGED <<registry, acks>>

\* handleRequest, and the refusals of onWorkerMessage's token bucket.
HandleRequest(w, d) ==
  /\ \/ DenyTo(w, d) /\ UNCHANGED lookups                     \* RATE_LIMITED
     \/ /\ deviceMap[d] = None
        /\ \/ DenyTo(w, d) /\ UNCHANGED lookups               \* DEVICE_NOT_FOUND
           \/ /\ lookups' = lookups \cup {Lookup("missing", w, d, None, 0)}
              /\ UNCHANGED toWorker
     \/ /\ deviceMap[d] = w                                   \* PEER_SELF_TARGET
        /\ DenyTo(w, d) /\ UNCHANGED lookups
     \/ /\ deviceMap[d] \notin {None, w}
        /\ lookups' = lookups \cup {Lookup("grant", w, d, deviceMap[d], 0)}
        /\ UNCHANGED toWorker
  /\ UNCHANGED <<registry, acks>>

\* The acknowledgement of a peer-channel-allow: now the caller may be told.
HandleAck(w, m) ==
  /\ acks' = acks \ {<<m.peer, m.dev, w>>}
  /\ IF <<m.peer, m.dev, w>> \in acks
     THEN Post(To(m.peer, Msg("grant", m.dev, w, 0)))
     ELSE UNCHANGED toWorker
  /\ UNCHANGED <<lookups, registry>>

\* The pairs of the registry worker w takes part in.
Involving(w) == {p \in Pairs : registry[p] # 0 /\ (p[1] = w \/ p[2] = w)}

\* invalidateWorker: the other party of every such pair is told, and the pairs
\* are forgotten.  extra is posted in the same turn, afterwards.
InvalidateWorker(w, extra) ==
  /\ registry' = [p \in Pairs |-> IF p \in Involving(w) THEN 0 ELSE registry[p]]
  /\ Post([v \in Workers |->
       (IF v # w /\ <<v, w>> \in Involving(w) THEN <<Msg("invalidate", None, w, 0)>> ELSE <<>>)
       \o (IF v # w /\ <<w, v>> \in Involving(w) THEN <<Msg("invalidate", None, w, 0)>> ELSE <<>>)
       \o extra[v]])

\* The main thread takes the next message of worker w.
MainReceives(w) ==
  /\ toMain[w] # <<>>
  /\ LET m == Head(toMain[w]) IN
       \/ m.kind = "request" /\ HandleRequest(w, m.dev)
       \/ m.kind = "ack" /\ HandleAck(w, m)
       \/ m.kind = "purged" /\ InvalidateWorker(w, Nothing) /\ UNCHANGED <<lookups, acks>>
  /\ toMain' = [toMain EXCEPT ![w] = Tail(@)]
  /\ UNCHANGED <<deviceMap, grants, used, current, authorised, workerVars, chanVars>>

\* Mutant: a device granted on an open channel is not recorded in its entry.
GrantUnrecorded(l, ch) ==
  /\ IF l.callee \in Ended
     THEN DenyTo(l.caller, l.dev) /\ UNCHANGED acks
     ELSE /\ Post(To(l.callee, Msg("allow", l.dev, l.caller, 0)))
          /\ acks' = acks \cup {<<l.caller, l.dev, l.callee>>}
  /\ UNCHANGED <<grants, registry, used, pair, callerEnd, calleeEnd>>

\* grant, when a channel connects the pair: the callee learns the device, or
\* its WorkerMessage has ended and answers at once.
GrantOnPair(l, ch) ==
  /\ grants' = [grants EXCEPT ![ch] = @ \cup {l.dev}]
  /\ IF l.callee \in Ended
     THEN DenyTo(l.caller, l.dev) /\ UNCHANGED acks
     ELSE /\ Post(To(l.callee, Msg("allow", l.dev, l.caller, 0)))
          /\ acks' = acks \cup {<<l.caller, l.dev, l.callee>>}
  /\ UNCHANGED <<registry, used, pair, callerEnd, calleeEnd>>

\* A port posted to worker w: in transit; destroyed with the message when the
\* thread is gone; never transferred at all once the Worker object has ended.
PostedPort(w) ==
  IF w \in Up THEN "transit" ELSE IF w \in Ended THEN "stranded" ELSE "closed"

\* grant, for a pair without a channel (MaxChannels bounds the channels created).
GrantNewPair(l) ==
  LET ch == used + 1 IN
    /\ ch <= MaxChannels
    /\ used' = ch
    /\ registry' = [registry EXCEPT ![<<l.caller, l.callee>>] = ch]
    /\ grants' = [grants EXCEPT ![ch] = {l.dev}]
    /\ pair' = [pair EXCEPT ![ch] = <<l.caller, l.callee>>]
    /\ callerEnd' = [callerEnd EXCEPT ![ch] = PostedPort(l.caller)]
    /\ calleeEnd' = [calleeEnd EXCEPT ![ch] = PostedPort(l.callee)]
    /\ Post([Nothing EXCEPT ![l.callee] = <<Msg("open", l.dev, l.caller, ch)>>,
                            ![l.caller] = <<Msg("grant", l.dev, l.callee, ch)>>])
    /\ UNCHANGED acks

\* userAuth calls handleRequest's callback.  An AuthProvider that cannot be
\* reached is a denial too.
RequestAnswered(l) ==
  /\ l \in lookups /\ l.kind # "recheck"
  /\ lookups' = lookups \ {l}
  /\ \/ /\ DenyTo(l.caller, l.dev)
        /\ UNCHANGED <<registry, grants, used, acks, pair, callerEnd, calleeEnd>>
     \/ /\ l.ok /\ l.kind = "grant"
        /\ LET ch == registry[<<l.caller, l.callee>>] IN
             IF ch # 0 THEN GrantOnPair(l, ch) ELSE GrantNewPair(l)
  /\ UNCHANGED <<deviceMap, current, authorised, toMain, workerVars, allowed>>

\* recheckGrants: one lookup for every grant behind every open channel, unless
\* the previous pass still waits (recheckInFlight).
RecheckGrants ==
  /\ ~ \E l \in lookups : l.kind = "recheck"
  /\ \E p \in Pairs : registry[p] # 0
  /\ lookups' = lookups \cup
       UNION {{Lookup("recheck", p[1], d, p[2], registry[p]) : d \in grants[registry[p]]} :
              p \in {q \in Pairs : registry[q] # 0}}
  /\ UNCHANGED <<deviceMap, registry, grants, used, current, acks, authorised,
                 toWorker, toMain, workerVars, chanVars>>

\* Mutant: the pair's entry is closed, whichever it is by now.
CloseRevokedAnyEntry(l) ==
  /\ registry' = [registry EXCEPT ![<<l.caller, l.callee>>] = 0]
  /\ Post([Nothing EXCEPT ![l.caller] = <<Msg("invalidate", None, l.callee, 0)>>,
                          ![l.callee] = <<Msg("invalidate", None, l.caller, 0)>>])

\* Mutant: the two workers are told and the entry stays.
CloseRevokedKeepsEntry(l) ==
  /\ Post([Nothing EXCEPT ![l.caller] = <<Msg("invalidate", None, l.callee, 0)>>,
                          ![l.callee] = <<Msg("invalidate", None, l.caller, 0)>>])
  /\ UNCHANGED registry

\* closeRevoked, for the entry the lookup was made for.
CloseRevoked(l) ==
  IF registry[<<l.caller, l.callee>>] # l.ch
  THEN UNCHANGED <<registry, toWorker>>
  ELSE /\ registry' = [registry EXCEPT ![<<l.caller, l.callee>>] = 0]
       /\ Post([Nothing EXCEPT ![l.caller] = <<Msg("invalidate", None, l.callee, 0)>>,
                               ![l.callee] = <<Msg("invalidate", None, l.caller, 0)>>])

\* userAuth calls recheckGrants' callback.
RecheckAnswered(l) ==
  /\ l \in lookups /\ l.kind = "recheck"
  /\ lookups' = lookups \ {l}
  /\ \/ l.ok /\ UNCHANGED <<registry, toWorker>>
     \/ CloseRevoked(l)
  /\ UNCHANGED <<deviceMap, grants, used, current, acks, authorised, toMain,
                 workerVars, chanVars>>

\* deviceMap without worker w's devices.
WithoutDevicesOf(w) == [d \in Devices |-> IF deviceMap[d] = w THEN None ELSE deviceMap[d]]

\* unloadModuleExternal up to its unload-module message.
StartUnload(w) ==
  /\ phase[w] = "up" /\ w \in current \cap Mortal
  /\ phase' = [phase EXCEPT ![w] = "unloading"]
  /\ UNCHANGED <<mainVars, toWorker, toMain, peerDeviceWorkerMap, peerChannels,
                 pendingPeerInvokes, chanVars>>

\* unloadModule, with onPurgeDevice's main-thread branch: the unload was
\* acknowledged or its 3 s timer fired, or a crash's 'error' event.
UnloadModule(w) ==
  /\ w \in current /\ phase[w] \in {"unloading", "purged", "exited"}
  /\ current' = current \ {w}
  /\ deviceMap' = WithoutDevicesOf(w)
  /\ InvalidateWorker(w, Nothing)
  /\ UNCHANGED <<grants, used, lookups, acks, authorised, toMain, workerVars, chanVars>>

\* The 'exit' event, after the messages the worker had posted: unloadModule if
\* the module is still this worker's, and endWith answers the allows it owes.
ExitEvent(w) ==
  LET owed == [v \in Workers |-> SetToSeq(
                 {Msg("deny", k[2], None, 0) : k \in {j \in acks : j[1] = v /\ j[3] = w}})]
  IN /\ phase[w] = "exited" /\ toMain[w] = <<>>
     /\ phase' = [phase EXCEPT ![w] = "ended"]
     /\ IF w \in current
        THEN deviceMap' = WithoutDevicesOf(w) /\ InvalidateWorker(w, owed)
        ELSE Post(owed) /\ UNCHANGED <<deviceMap, registry>>
     /\ current' = current \ {w}
     /\ acks' = {k \in acks : k[3] # w}
     /\ UNCHANGED <<grants, used, lookups, authorised, toMain, peerDeviceWorkerMap,
                    peerChannels, pendingPeerInvokes, chanVars>>

\* The module comes up again on a new worker ('deviceonline').
Restart(w) ==
  /\ phase[w] = "ended" /\ Successor[w] # None
  /\ phase[Successor[w]] = "unborn"
  /\ phase' = [phase EXCEPT ![Successor[w]] = "up"]
  /\ deviceMap' = [d \in Devices |-> IF Home[d] = w THEN Successor[w] ELSE deviceMap[d]]
  /\ UNCHANGED <<registry, grants, used, lookups, current, acks, authorised, toWorker, toMain,
                 peerDeviceWorkerMap, peerChannels, pendingPeerInvokes, chanVars>>

\* The AuthProvider's data changes (the sqlite CLI, a CouchDB write).
Revoke(u) ==
  /\ u \in Revocable \cap authorised
  /\ authorised' = authorised \ {u}
  /\ UNCHANGED <<deviceMap, registry, grants, used, lookups, current, acks, toWorker, toMain,
                 workerVars, chanVars>>

(***************************************************************************)
(* The specification.                                                      *)
(***************************************************************************)

BrokerNext ==
  \/ \E w \in Workers :
       \/ \E d \in Devices : Call(w, d)
       \/ \E ch \in Channels : PortClose(w, ch)
       \/ WorkerReceives(w) \/ WorkerPurges(w) \/ WorkerExits(w)
       \/ MainReceives(w) \/ StartUnload(w) \/ UnloadModule(w) \/ ExitEvent(w) \/ Restart(w)
  \/ \E l \in lookups : RequestAnswered(l) \/ RecheckAnswered(l)
  \/ RecheckGrants
  \/ \E u \in Uses : Revoke(u)

BrokerSpec == BrokerInit /\ [][BrokerNext]_brokerVars

\* Threads run, ports deliver, the AuthProvider answers, the recheck interval
\* ticks, and an unload ends (its 3 s timer) with the worker terminated.
FairSpec ==
  /\ BrokerSpec
  /\ \A w \in Workers :
       /\ WF_brokerVars(WorkerReceives(w)) /\ WF_brokerVars(MainReceives(w)) /\ WF_brokerVars(ExitEvent(w))
       /\ WF_brokerVars(UnloadModule(w)) /\ WF_brokerVars(w \notin current /\ WorkerExits(w))
       /\ \A ch \in Channels : WF_brokerVars(PortClose(w, ch))
  /\ \A u \in Uses :
       WF_brokerVars(\E l \in lookups : <<l.caller, l.dev>> = u /\ RequestAnswered(l))
  /\ WF_brokerVars(\E l \in lookups : RecheckAnswered(l))
  /\ WF_brokerVars(RecheckGrants)

(***************************************************************************)
(* Properties.                                                             *)
(***************************************************************************)

ToMain ==
  [kind : {"request"}, dev : Devices, peer : {None}, port : {0}]
  \cup [kind : {"ack"}, dev : Devices, peer : Workers, port : {0}]
  \cup [kind : {"purged"}, dev : {None}, peer : {None}, port : {0}]
ToWorker ==
  [kind : {"grant"}, dev : Devices, peer : Workers, port : 0 .. MaxChannels]
  \cup [kind : {"open"}, dev : Devices, peer : Workers, port : Channels]
  \cup [kind : {"allow"}, dev : Devices, peer : Workers, port : {0}]
  \cup [kind : {"deny"}, dev : Devices, peer : {None}, port : {0}]
  \cup [kind : {"invalidate"}, dev : {None}, peer : Workers, port : {0}]
Lookups == [kind : {"grant", "recheck"}, caller : Workers, dev : Devices, callee : Workers,
            ch : 0 .. MaxChannels, ok : BOOLEAN]
           \cup [kind : {"missing"}, caller : Workers, dev : Devices, callee : {None},
                 ch : {0}, ok : BOOLEAN]

\* Every variable has the shape the code gives it.
BrokerTypeOK ==
  /\ deviceMap \in [Devices -> Workers \cup {None}]
  /\ registry \in [Pairs -> 0 .. MaxChannels]
  /\ grants \in [Channels -> SUBSET Devices] /\ used \in 0 .. MaxChannels
  /\ lookups \subseteq Lookups /\ acks \subseteq Workers \X Devices \X Workers
  /\ authorised \subseteq Uses
  /\ toWorker \in [Workers -> Seq(ToWorker)] /\ toMain \in [Workers -> Seq(ToMain)]
  /\ phase \in [Workers -> Phases] /\ current \subseteq Workers
  /\ peerDeviceWorkerMap \in [Workers -> [Devices -> Workers \cup {None}]]
  /\ peerChannels \in [Workers -> [Workers -> 0 .. MaxChannels]]
  /\ pendingPeerInvokes \in [Workers -> SUBSET Devices]
  /\ pair \in [Channels -> (Workers \cup {None}) \X (Workers \cup {None})]
  /\ callerEnd \in [Channels -> EndStates] /\ calleeEnd \in [Channels -> EndStates]
  /\ allowed \in [Channels -> SUBSET Devices]

InFlight(q, kinds, d) == {i \in DOMAIN q : q[i].kind \in kinds /\ q[i].dev = d}

\* Calls queued for a device wait for exactly one thing on its way to them: a
\* request, a lookup, an acknowledgement, a grant or a denial.  None gets lost
\* when the rate limiter, the AuthProvider or the callee's exit intervenes.
OneRequestInFlight ==
  \A w \in Up, d \in Devices :
    Cardinality(InFlight(toMain[w], {"request"}, d))
      + Cardinality({l \in lookups : l.kind # "recheck" /\ l.caller = w /\ l.dev = d})
      + Cardinality({a \in acks : a[1] = w /\ a[2] = d})
      + Cardinality(InFlight(toWorker[w], {"grant", "deny"}, d))
    = IF d \in pendingPeerInvokes[w] THEN 1 ELSE 0

Told(w, peer) == \E i \in DOMAIN toWorker[w] :
  toWorker[w][i].kind = "invalidate" /\ toWorker[w][i].peer = peer

\* A channel that is about to go down: one end is closed, or a peer-invalidate
\* for it is on its way.
Closing(ch) ==
  \/ "closed" \in {callerEnd[ch], calleeEnd[ch]}
  \/ Told(pair[ch][1], pair[ch][2]) \/ Told(pair[ch][2], pair[ch][1])

\* Worker w may call devices that v hosts.
May(w, v) == v # w /\ \E d \in Devices : <<w, d>> \in Uses /\ v \in {Home[d], Successor[Home[d]]}

\* A device is served to a caller only on a channel whose registry entry holds its grant,
\* so that recheckGrants asks for it again; otherwise the channel is closing.
ServedIsRegistered(ch) ==
  calleeEnd[ch] = "open" /\ callerEnd[ch] = "open" =>
    \/ Closing(ch)
    \/ registry[pair[ch]] = ch /\ allowed[ch] \subseteq grants[ch]

\* A registered channel between two workers that stay has its port at the caller, or
\* on the way there: a pair the broker takes for connected while the caller has no
\* port would answer every later call with PEER_GONE.
RegisteredIsPorted(p) ==
  registry[p] # 0 /\ phase[p[1]] = "up" /\ phase[p[2]] = "up"
    => callerEnd[registry[p]] \in {"open", "transit"}

\* The registry of lib/peer-channel-broker.js agrees with the channels themselves for
\* every pair whose callee does not call its caller too, whatever other workers do.
\* (A worker's peerChannels has one entry for both directions: see DirectionsApart.)
RegistryHonest ==
  /\ \A ch \in Channels : ~May(pair[ch][2], pair[ch][1]) => ServedIsRegistered(ch)
  /\ \A p \in Pairs : ~May(p[2], p[1]) => RegisteredIsPorted(p)

\* "This registry key is NOT the same as its reverse": two directions between the same
\* workers are brokered independently, so that the registry is honest about both.
DirectionsApart ==
  /\ \A ch \in Channels : ServedIsRegistered(ch)
  /\ \A p \in Pairs : RegisteredIsPorted(p)

\* A pair leaves the registry because one of the two workers purged, unloaded
\* or exited, or because a lookup for one of the entry's own grants failed.
\* (An entry keeps its grants, so a stale lookup cannot close a newer channel.)
RevokedForCause ==
  [][\A l \in lookups \ lookups' : \A p \in Pairs :
       l.kind = "recheck" /\ registry'[p] # registry[p] => l.dev \in grants[registry[p]]]_brokerVars

\* Worker w can still reach device d directly.
Reaches(w, d) ==
  \E ch \in Channels : /\ pair[ch][1] = w /\ callerEnd[ch] = "open"
                         /\ calleeEnd[ch] = "open" /\ d \in allowed[ch]

\* "A revoked grant stops working within one interval plus one lookup."
RevocationTakesEffect ==
  \A u \in Uses : u \notin authorised ~> [] ~Reaches(u[1], u[2])
===============================================================================
