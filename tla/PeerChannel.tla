----------------------------- MODULE PeerChannel -----------------------------
(***************************************************************************)
(* One direct peer channel (lib/peer-channel.js): the two PeerChannel      *)
(* objects wrapped around the ends of one MessageChannel, the caller's     *)
(* pending table and send queue, the callee's dispatch queue, and the hop  *)
(* the callee serves (DeviceManager.onPeerChannelOpen's onInvoke) with its *)
(* metering round trip to the main thread.                                 *)
(*                                                                         *)
(* A call is its msgID: PeerChannel numbers calls and never reuses one.    *)
(* The worker threads run their handlers to completion, so one action is   *)
(* one event-loop turn of one thread; messages travel between turns.       *)
(***************************************************************************)
EXTENDS Integers, Sequences, FiniteSets

CONSTANTS
  Calls,       \* the calls that may be made on this channel
  Granted,     \* those whose device is in the channel's allowed set
  Billable,    \* those with a billing identity (their own or the grant's)
  MaxSends,    \* maxConcurrentInvokes of the caller's PeerChannel
  MaxDispatches \* maxConcurrentInvokes of the callee's

ASSUME CallsAssumption == IsFiniteSet(Calls)
ASSUME KindsAssumption == Granted \subseteq Calls /\ Billable \subseteq Calls
ASSUME MaxAssumption == MaxSends \in Nat /\ MaxDispatches \in Nat

VARIABLES
  \* the caller's end
  asked,             \* calls invoke() was called for (msgID has passed them)
  pending,           \* pending[]: calls with a callback and a running timer
  sendQueue,         \* calls waiting for a send slot
  activeSends,       \* the caller's activeSends counter
  callerClosed,
  answers,           \* answers[c]: every value call c's callback was given
  \* the port, one FIFO queue per direction
  toCallee,          \* posted peer-invokes
  toCaller,          \* posted peer-replies
  \* the callee's end
  dispatchQueue,     \* peer-invokes waiting for a dispatch slot
  activeDispatches,  \* the callee's activeDispatches counter
  calleeClosed,
  calleeAlive,       \* FALSE once the callee's worker thread has exited
  stage,             \* how far onInvoke got with each call
  \* the main thread
  charged            \* charged[c]: times recordCall charged for call c

callerVars == <<asked, pending, sendQueue, activeSends, callerClosed, answers>>
calleeVars == <<dispatchQueue, activeDispatches, calleeClosed, calleeAlive, stage>>
vars == <<callerVars, toCallee, toCaller, calleeVars, charged>>

Contract == INSTANCE HopContract WITH
  status <- [c \in Calls |-> IF answers[c] # <<>> THEN answers[c][1]
                             ELSE IF c \in asked THEN "waiting" ELSE "idle"],
  bill   <- charged

Outcomes == {"billed", "unbilled", "not_granted", "identity_unresolved",
             "rate_limited", "failed", "timeout", "gone"}

\* stage: "run" while invokeDeviceAction has not called back, "ask" while the
\* metering request is at the main thread, then the answer that travels back.
Replying == {"m_billed", "m_unbilled", "m_limited"}
Busy     == {"run", "ask"} \cup Replying
Stages   == {"none", "done"} \cup Busy

Init ==
  /\ asked = {} /\ pending = {} /\ sendQueue = <<>> /\ activeSends = 0
  /\ callerClosed = FALSE
  /\ answers = [c \in Calls |-> <<>>]
  /\ toCallee = <<>> /\ toCaller = <<>>
  /\ dispatchQueue = <<>> /\ activeDispatches = 0
  /\ calleeClosed = FALSE /\ calleeAlive = TRUE
  /\ stage = [c \in Calls |-> "none"]
  /\ charged = [c \in Calls |-> 0]

(***************************************************************************)
(* The caller's end.                                                       *)
(***************************************************************************)

\* A callback is called with o.
Callback(c, o) == answers' = [answers EXCEPT ![c] = Append(@, o)]

\* port.postMessage by the caller: nothing happens once either end is closed.
PostInvokes(s) ==
  toCallee' = IF callerClosed \/ calleeClosed THEN toCallee ELSE toCallee \o s

\* PeerChannel.prototype.invoke, with _sendInvoke when a slot is free.
Invoke(c) ==
  /\ c \in Calls \ asked
  /\ asked' = asked \cup {c}
  /\ IF callerClosed
     THEN /\ Callback(c, "gone")
          /\ UNCHANGED <<pending, sendQueue, activeSends, toCallee>>
     ELSE /\ pending' = pending \cup {c}
          /\ UNCHANGED answers
          /\ IF activeSends >= MaxSends
             THEN /\ sendQueue' = Append(sendQueue, c)
                  /\ UNCHANGED <<activeSends, toCallee>>
             ELSE /\ activeSends' = activeSends + 1
                  /\ PostInvokes(<<c>>)
                  /\ UNCHANGED sendQueue
  /\ UNCHANGED <<callerClosed, toCaller, calleeVars, charged>>

\* sendQueue.filter(item => item.id !== c); an id is queued at most once.
WithoutCall(s, c) ==
  IF \E i \in DOMAIN s : s[i] = c
  THEN LET at == CHOOSE i \in DOMAIN s : s[i] = c
       IN [j \in 1 .. Len(s) - 1 |-> IF j < at THEN s[j] ELSE s[j + 1]]
  ELSE s

\* Mutant: the timer gives the slot of a call back, sent or not.
TimerFreesSlot(c) ==
  /\ c \in pending
  /\ pending' = pending \ {c}
  /\ sendQueue' = WithoutCall(sendQueue, c)
  /\ activeSends' = activeSends - 1
  /\ Callback(c, "timeout")
  /\ UNCHANGED <<asked, callerClosed, toCallee, toCaller, calleeVars, charged>>

\* Mutant: the timer leaves the call in sendQueue.
TimerLeavesQueued(c) ==
  /\ c \in pending
  /\ pending' = pending \ {c}
  /\ Callback(c, "timeout")
  /\ UNCHANGED <<asked, sendQueue, activeSends, callerClosed, toCallee, toCaller,
                 calleeVars, charged>>

\* The timer invoke() started fires.  activeSends is not touched: a request
\* that was already sent keeps its slot until its reply comes back.
TimerFires(c) ==
  /\ c \in pending
  /\ pending' = pending \ {c}
  /\ sendQueue' = WithoutCall(sendQueue, c)
  /\ Callback(c, "timeout")
  /\ UNCHANGED <<asked, activeSends, callerClosed, toCallee, toCaller,
                 calleeVars, charged>>

\* Mutant: nobody drains.
NoDrain(free) == activeSends' = free /\ UNCHANGED <<sendQueue, toCallee>>

\* _drainSendQueue after a reply freed a slot (free is the new activeSends).
DrainSendQueue(free) ==
  IF sendQueue = <<>> \/ free >= MaxSends
  THEN activeSends' = free /\ UNCHANGED <<sendQueue, toCallee>>
  ELSE /\ activeSends' = free + 1
       /\ sendQueue' = Tail(sendQueue)
       /\ PostInvokes(<<Head(sendQueue)>>)

\* Mutant: a reply calls back without looking the call up in pending.
HandleReplyUnguarded ==
  /\ ~callerClosed /\ toCaller # <<>>
  /\ LET msg == Head(toCaller) IN
       /\ DrainSendQueue(activeSends - 1)
       /\ pending' = pending \ {msg.id} /\ Callback(msg.id, msg.out)
  /\ toCaller' = Tail(toCaller)
  /\ UNCHANGED <<asked, callerClosed, calleeVars, charged>>

\* _handleReply: the slot is freed whether or not the call is still pending.
HandleReply ==
  /\ ~callerClosed /\ toCaller # <<>>
  /\ LET msg == Head(toCaller) IN
       /\ DrainSendQueue(activeSends - 1)
       /\ IF msg.id \in pending
          THEN pending' = pending \ {msg.id} /\ Callback(msg.id, msg.out)
          ELSE UNCHANGED <<pending, answers>>
  /\ toCaller' = Tail(toCaller)
  /\ UNCHANGED <<asked, callerClosed, calleeVars, charged>>

\* invalidate() at the caller's end; its incoming messages are dropped.
CloseCallerEnd ==
  /\ ~callerClosed
  /\ callerClosed' = TRUE
  /\ answers' = [c \in Calls |-> IF c \in pending THEN Append(answers[c], "gone")
                                 ELSE answers[c]]
  /\ pending' = {}
  /\ sendQueue' = <<>>
  /\ toCaller' = <<>>
  /\ UNCHANGED <<asked, activeSends, toCallee, calleeVars, charged>>

\* The main thread's peer-invalidate reaches the caller's worker
\* (DeviceManager.prototype.onPeerInvalidate).
CallerInvalidated == CloseCallerEnd

\* The port's own 'close' event: it follows whatever the other end had sent.
CallerPortClose == calleeClosed /\ toCaller = <<>> /\ CloseCallerEnd

(***************************************************************************)
(* The callee's end.                                                       *)
(***************************************************************************)

\* port.postMessage by the callee.
PostReplies(s) ==
  toCaller' = IF callerClosed \/ calleeClosed THEN toCaller ELSE toCaller \o s

\* onInvoke refuses, in its own turn, a device outside the channel's allowed
\* set; so a drain of q goes on past the n refused requests at its head.
Refuses(q, n) ==
  /\ \A i \in 1 .. n : q[i] \notin Granted
  /\ n < Len(q) => q[n + 1] \in Granted

\* Mutant: the reply is not followed by _drainDispatchQueue.
ReplyWithoutDrain(c, o, taken) ==
  /\ PostReplies(<<[id |-> c, out |-> o]>>)
  /\ stage' = [stage EXCEPT ![c] = "done"]
  /\ activeDispatches' = taken
  /\ UNCHANGED dispatchQueue

\* The callback _dispatchInvoke gave to onInvoke for call c, which leaves taken
\* slots in use: reply, then _drainDispatchQueue until a request keeps a slot.
Reply(c, o, taken) ==
  \E n \in 0 .. Len(dispatchQueue) :
    LET q      == dispatchQueue
        starts == taken < MaxDispatches /\ n < Len(q)
    IN /\ IF taken < MaxDispatches THEN Refuses(q, n) ELSE n = 0
       /\ PostReplies(<<[id |-> c, out |-> o]>>
                       \o [i \in 1 .. n |-> [id |-> q[i], out |-> "not_granted"]])
       /\ stage' = [d \in Calls |->
                      IF d = c \/ \E i \in 1 .. n : d = q[i] THEN "done"
                      ELSE IF starts /\ d = q[n + 1] THEN "run" ELSE stage[d]]
       /\ activeDispatches' = IF starts THEN taken + 1 ELSE taken
       /\ dispatchQueue' = IF starts THEN SubSeq(q, n + 2, Len(q))
                           ELSE SubSeq(q, n + 1, Len(q))

\* _handleInvoke: dispatch at once, or queue at capacity.
HandleInvoke ==
  /\ ~calleeClosed /\ toCallee # <<>>
  /\ LET c == Head(toCallee) IN
       \/ /\ activeDispatches >= MaxDispatches
          /\ dispatchQueue' = Append(dispatchQueue, c)
          /\ UNCHANGED <<activeDispatches, stage, toCaller>>
       \/ /\ activeDispatches < MaxDispatches /\ c \in Granted
          /\ activeDispatches' = activeDispatches + 1
          /\ stage' = [stage EXCEPT ![c] = "run"]
          /\ UNCHANGED <<dispatchQueue, toCaller>>
       \/ /\ activeDispatches < MaxDispatches /\ c \notin Granted
          /\ Reply(c, "not_granted", activeDispatches)
  /\ toCallee' = Tail(toCallee)
  /\ UNCHANGED <<callerVars, calleeClosed, calleeAlive, charged>>

\* onInvoke calls back in a later turn.
CompleteDispatch(c, o) ==
  /\ Reply(c, o, activeDispatches - 1)
  /\ UNCHANGED <<callerVars, toCallee, calleeClosed, calleeAlive, charged>>

\* invokeDeviceAction called back with an error.
ActionFails(c) ==
  /\ calleeAlive /\ stage[c] = "run"
  /\ CompleteDispatch(c, "failed")

\* It called back with a result nobody can be billed for.
ActionUnbillable(c) ==
  /\ calleeAlive /\ stage[c] = "run" /\ c \notin Billable
  /\ CompleteDispatch(c, "identity_unresolved")

\* It called back with a result: ask the main thread to meter the hop.
ActionSucceeds(c) ==
  /\ calleeAlive /\ stage[c] = "run" /\ c \in Billable
  /\ stage' = [stage EXCEPT ![c] = "ask"]
  /\ UNCHANGED <<callerVars, toCallee, toCaller, dispatchQueue, activeDispatches,
                 calleeClosed, calleeAlive, charged>>

\* The main thread handles the metering request.  It refuses it
\* (--moduleMessageRate), records the call, or fails to: a recordCall error
\* may come before or after Redis applied the charge.
HandleMeteringRequest(c) ==
  /\ stage[c] = "ask"
  /\ \/ /\ stage' = [stage EXCEPT ![c] = "m_limited"]
        /\ UNCHANGED charged
     \/ /\ stage' = [stage EXCEPT ![c] = "m_billed"]
        /\ charged' = [charged EXCEPT ![c] = @ + 1]
     \/ /\ stage' = [stage EXCEPT ![c] = "m_unbilled"]
        /\ \/ UNCHANGED charged
           \/ charged' = [charged EXCEPT ![c] = @ + 1]
  /\ UNCHANGED <<callerVars, toCallee, toCaller, dispatchQueue, activeDispatches,
                 calleeClosed, calleeAlive>>

\* Mutant: a metering error is reported as a bill.
FailedMeteringBilled(s) ==
  IF s = "m_limited" THEN "rate_limited" ELSE "billed"

\* What the caller is told once the metering request has answered.
MeteredOutcome(s) ==
  CASE s = "m_billed"   -> "billed"
    [] s = "m_unbilled" -> "unbilled"
    [] s = "m_limited"  -> "rate_limited"

\* PeerChannel.finishMeteredHop.
FinishMeteredHop(c) ==
  /\ calleeAlive /\ stage[c] \in Replying
  /\ CompleteDispatch(c, MeteredOutcome(stage[c]))

\* invalidate() at the callee's end.  Calls onInvoke is serving run on.
CloseCalleeEnd ==
  /\ ~calleeClosed
  /\ calleeClosed' = TRUE
  /\ dispatchQueue' = <<>>
  /\ toCallee' = <<>>

\* Mutant: invalidate() resets the counter of hops still being served.
InvalidateResetsCount ==
  /\ calleeAlive
  /\ CloseCalleeEnd
  /\ activeDispatches' = 0
  /\ UNCHANGED <<callerVars, toCaller, calleeAlive, stage, charged>>

\* peer-invalidate reaches the callee's worker (a revoked grant).
CalleeInvalidated ==
  /\ calleeAlive
  /\ CloseCalleeEnd
  /\ UNCHANGED <<callerVars, toCaller, activeDispatches, calleeAlive, stage, charged>>

\* The port's own 'close' event at the callee.
CalleePortClose ==
  /\ callerClosed /\ toCallee = <<>>
  /\ CalleeInvalidated

\* The callee's worker exits or is terminated: its port closes and the
\* handlers it was running stop; a metering request already at the main
\* thread is still recorded.
CalleeExits ==
  /\ calleeAlive
  /\ calleeAlive' = FALSE
  /\ calleeClosed' = TRUE
  /\ dispatchQueue' = <<>>
  /\ toCallee' = <<>>
  /\ stage' = [c \in Calls |-> IF stage[c] = "run" THEN "done" ELSE stage[c]]
  /\ UNCHANGED <<callerVars, toCaller, activeDispatches, charged>>

(***************************************************************************)
(* The specification.                                                      *)
(***************************************************************************)

\* A step of the callee's side of call c.
Serve(c) ==
  \/ ActionFails(c) \/ ActionUnbillable(c)
  \/ ActionSucceeds(c) \/ HandleMeteringRequest(c) \/ FinishMeteredHop(c)

Next ==
  \/ \E c \in Calls : Invoke(c) \/ TimerFires(c) \/ Serve(c)
  \/ HandleReply \/ CallerInvalidated \/ CallerPortClose
  \/ HandleInvoke \/ CalleeInvalidated \/ CalleePortClose \/ CalleeExits

Spec == Init /\ [][Next]_vars

\* The worker threads keep running, handlers call back, the main thread
\* answers, and ports deliver.  No timer is assumed to fire.
TransportRuns ==
  /\ WF_vars(HandleReply) /\ WF_vars(HandleInvoke)
  /\ WF_vars(CallerPortClose) /\ WF_vars(CalleePortClose)
  /\ \A c \in Calls : WF_vars(Serve(c))

(***************************************************************************)
(* Properties.                                                             *)
(***************************************************************************)

Replies == [id : Calls, out : Outcomes]

\* Every variable has the shape lib/peer-channel.js gives it.
TypeOK ==
  /\ asked \in SUBSET Calls /\ pending \in SUBSET asked
  /\ sendQueue \in Seq(Calls) /\ activeSends \in Nat
  /\ callerClosed \in BOOLEAN
  /\ answers \in [Calls -> Seq(Outcomes)]
  /\ toCallee \in Seq(Calls) /\ toCaller \in Seq(Replies)
  /\ dispatchQueue \in Seq(Calls) /\ activeDispatches \in Nat
  /\ calleeClosed \in BOOLEAN /\ calleeAlive \in BOOLEAN
  /\ stage \in [Calls -> Stages]
  /\ charged \in [Calls -> Nat]

\* Every call's callback fires exactly once: never while the call is pending,
\* and once it is not (reply, timer, invalidate and close all race for it).
ExactlyOneAnswer ==
  \A c \in Calls : Len(answers[c]) = IF c \in asked \ pending THEN 1 ELSE 0

Serving == {c \in Calls : stage[c] \in Busy}

\* The caller's slot count is exactly the requests somewhere between the two
\* ends (on the wire, queued, being served, or answered on the wire), so a
\* timed-out call neither leaks nor frees a slot; and it respects the cap.
SendWindow ==
  /\ activeSends <= MaxSends
  /\ ~callerClosed /\ ~calleeClosed =>
       activeSends = Len(toCallee) + Len(dispatchQueue) + activeDispatches
                     + Len(toCaller)

\* The callee never serves more than the cap at once, and its counter is
\* exactly the hops onInvoke has not called back for, a closed channel included.
DispatchWindow ==
  /\ activeDispatches <= MaxDispatches
  /\ calleeAlive => activeDispatches = Cardinality(Serving)

\* No call waits in a queue while a slot is free: both drains are called
\* wherever a slot comes back.
NoIdleSlot ==
  /\ sendQueue # <<>> => activeSends = MaxSends
  /\ dispatchQueue # <<>> => activeDispatches = MaxDispatches

\* Both concurrency windows of lib/peer-channel.js are exact: each counter counts
\* the work it stands for, respects its cap, and no call waits beside a free slot,
\* through timeouts, closes, invalidations and a callee that exits.
WindowsExact == SendWindow /\ DispatchWindow /\ NoIdleSlot

\* The callee's queue holds at most what the caller's window exceeds its own by,
\* even after a caller that has gone.  Both ends are given the same
\* --directPeerChannelsMaxConcurrency, so nothing ever waits for a dispatch slot.
SendWindowSuffices ==
  dispatchQueue # <<>> => Len(dispatchQueue) + MaxDispatches <= MaxSends

\* A queued request whose caller gave up is dropped from the queue, so
\* everything still queued has somebody waiting for it, once.
QueuedIsAwaited ==
  /\ \A i \in DOMAIN sendQueue : sendQueue[i] \in pending
  /\ \A i, j \in DOMAIN sendQueue : sendQueue[i] = sendQueue[j] => i = j

\* A request goes out only while its caller waits for it ("so a stale entry
\* doesn't get sent after the caller already gave up on it").
StaleNeverSent ==
  [][\A i \in DOMAIN toCallee' :
       (\A j \in DOMAIN toCallee : toCallee[j] # toCallee'[i])
       => toCallee'[i] \in pending \cup (asked' \ asked)]_vars

\* A hop is charged at most once, the caller is shown a bill only for a hop
\* that was charged, and no refused hop was charged.
BillMatchesAnswer ==
  \A c \in Calls :
    /\ charged[c] <= 1
    /\ answers[c] # <<>> =>
         /\ answers[c][1] = "billed" => charged[c] = 1
         /\ answers[c][1] \in {"not_granted", "identity_unresolved", "rate_limited",
                               "failed"} => charged[c] = 0

\* The channel implements the contract of a hop.
ImplementsContract == Contract!Spec

Answered == \A c \in Calls : c \in asked ~> answers[c] # <<>>

\* No timer has to fire for a call to be answered: no request is lost between
\* the two queues and the two windows.
AnsweredByTransport == TransportRuns => Answered
==============================================================================
