------------------------------- MODULE RoutedHop -------------------------------
(***************************************************************************)
(* The main-thread-routed hop (--no-directPeerChannels): a module in the   *)
(* caller's worker invokes a device hosted by the callee's worker, and the *)
(* main thread carries the call (DeviceManager's 'invokeforeignaction'     *)
(* handler and sendInvokeActionMessageToWorker), keeping a Session with a  *)
(* timer and a request in the callee's WorkerMessage.msgQueue for it.      *)
(*                                                                         *)
(* One caller worker, one callee worker that may exit at any moment, and   *)
(* any number of calls.  One action is one event-loop turn of one thread.  *)
(***************************************************************************)
EXTENDS Integers, Sequences, FiniteSets

CONSTANTS
  Calls,      \* the calls that may be made; a call is its msgID
  Authorised, \* those userAuth accepts
  Billable    \* those with a billing identity

ASSUME HopAssumption ==
  IsFiniteSet(Calls) /\ Authorised \subseteq Calls /\ Billable \subseteq Calls

VARIABLES
  \* the caller's worker
  asked,        \* calls ServiceClient.invoke was called for
  callerQueue,  \* the worker's own msgQueue: calls awaiting invoke-action-reply
  callerAlive,
  answers,      \* answers[c]: every value call c's callback was given
  \* the two directions of the caller's parentPort
  up, down,
  \* the main thread
  stage,        \* how far the main thread is with each call
  timer,        \* calls whose Session still has its timer
  calleeQueue,  \* calleeWM.msgQueue: invoke-action requests awaiting a reply
  known,        \* deviceMap still names the callee's WorkerMessage
  ended,        \* calleeWM.ended has been set
  \* the callee's worker and the two directions of its port
  toCallee, fromCallee, running, calleeAlive,
  \* the metering store
  charged

callerVars == <<asked, callerQueue, callerAlive, answers>>
mainVars   == <<stage, timer, calleeQueue, known, ended>>
calleeVars == <<toCallee, fromCallee, running, calleeAlive>>
vars == <<callerVars, up, down, mainVars, calleeVars, charged>>

Contract == INSTANCE HopContract WITH
  status <- [c \in Calls |-> IF answers[c] # <<>> THEN answers[c][1]
                             ELSE IF c \in asked THEN "waiting" ELSE "idle"],
  bill   <- charged

Outcomes == {"billed", "unbilled", "not_granted", "identity_unresolved",
             "rate_limited", "failed", "timeout", "gone"}

\* "auth": userAuth has not answered; "missing": neither has it, for a device
\* whose module is restarting or suspended; "sent": the request is in
\* calleeQueue; "meter": recordCall is at the store; "m_*": the store is done.
Stages == {"none", "auth", "missing", "sent", "meter", "m_billed", "m_unbilled", "done"}

Init ==
  /\ asked = {} /\ callerQueue = {} /\ callerAlive = TRUE
  /\ answers = [c \in Calls |-> <<>>]
  /\ up = <<>> /\ down = <<>>
  /\ stage = [c \in Calls |-> "none"]
  /\ timer = {} /\ calleeQueue = {} /\ known = TRUE /\ ended = FALSE
  /\ toCallee = <<>> /\ fromCallee = <<>> /\ running = {} /\ calleeAlive = TRUE
  /\ charged = [c \in Calls |-> 0]

(***************************************************************************)
(* The caller's worker.                                                    *)
(***************************************************************************)

\* ServiceClient.invoke, sendActionInvokeMessageToParent.
Invoke(c) ==
  /\ callerAlive /\ c \in Calls \ asked
  /\ asked' = asked \cup {c}
  /\ callerQueue' = callerQueue \cup {c}
  /\ up' = Append(up, c)
  /\ UNCHANGED <<callerAlive, answers, down, mainVars, calleeVars, charged>>

\* sandbox.js, 'invoke-action-reply' and 'rate-limited-reply'.
CallerReceives ==
  /\ callerAlive /\ down # <<>>
  /\ LET msg == Head(down) IN
       IF msg.id \in callerQueue
       THEN /\ answers' = [answers EXCEPT ![msg.id] = Append(@, msg.out)]
            /\ callerQueue' = callerQueue \ {msg.id}
       ELSE UNCHANGED <<answers, callerQueue>>
  /\ down' = Tail(down)
  /\ UNCHANGED <<asked, callerAlive, up, mainVars, calleeVars, charged>>

\* The caller's worker exits; what it had posted is still delivered.
CallerExits ==
  /\ callerAlive
  /\ callerAlive' = FALSE
  /\ down' = <<>>
  /\ UNCHANGED <<asked, callerQueue, answers, up, mainVars, calleeVars, charged>>

(***************************************************************************)
(* The main thread.                                                        *)
(***************************************************************************)

\* Replies posted to the caller's worker; lost once it has exited.
ReplyAll(s) == down' = IF callerAlive THEN down \o s ELSE down
ReplyTo(c, o) == ReplyAll(<<[id |-> c, out |-> o]>>)

\* Mutant: the session calls back every time it is asked to.
SessionCallbackAgain(c, o) == timer' = timer \ {c} /\ ReplyTo(c, o)

\* Session.callback: once, and only while the session has its timer.
SessionCallback(c, o) ==
  IF c \in timer THEN timer' = timer \ {c} /\ ReplyTo(c, o)
  ELSE UNCHANGED <<timer, down>>

\* The token bucket of --moduleMessageRate depends on the clock: any message may
\* be one too many, and is answered at once.
OverRate(c) == stage' = [stage EXCEPT ![c] = "done"] /\ ReplyTo(c, "rate_limited")

\* onWorkerMessage for 'invokeforeignaction', up to the userAuth call.
MainReceives ==
  /\ up # <<>>
  /\ LET c == Head(up) IN
       \/ OverRate(c)
       \/ /\ known
          /\ stage' = [stage EXCEPT ![c] = "auth"]
          /\ UNCHANGED down
       \/ /\ ~known     \* MODULE_RESTARTING, MODULE_SUSPENDED: after userAuth
          /\ stage' = [stage EXCEPT ![c] = "missing"]
          /\ UNCHANGED down
       \/ /\ ~known     \* device not found in map
          /\ stage' = [stage EXCEPT ![c] = "done"]
          /\ ReplyTo(c, "failed")
  /\ up' = Tail(up)
  /\ UNCHANGED <<callerVars, timer, calleeQueue, known, ended, calleeVars, charged>>

\* userAuth answers for a device that was missing: refused either way.
MissingAnswers(c) ==
  /\ stage[c] = "missing"
  /\ stage' = [stage EXCEPT ![c] = "done"]
  /\ ReplyTo(c, IF c \in Authorised THEN "failed" ELSE "not_granted")
  /\ UNCHANGED <<callerVars, up, timer, calleeQueue, known, ended, calleeVars, charged>>

\* Mutant: the session is given no timer.
AuthWithoutTimer(c) ==
  /\ stage[c] = "auth" /\ c \in Authorised /\ ~ended
  /\ stage' = [stage EXCEPT ![c] = "sent"]
  /\ calleeQueue' = calleeQueue \cup {c}
  /\ toCallee' = IF calleeAlive THEN Append(toCallee, c) ELSE toCallee
  /\ UNCHANGED <<callerVars, up, down, timer, known, ended, fromCallee, running,
                 calleeAlive, charged>>

\* userAuth answers.  calleeWM was looked up before; by now its worker may
\* have exited: an ended WorkerMessage answers at once, and one whose 'exit'
\* has not been handled yet takes the request and drops the message.
AuthAnswers(c) ==
  /\ stage[c] = "auth"
  /\ IF c \notin Authorised \/ ended
     THEN /\ stage' = [stage EXCEPT ![c] = "done"]
          /\ ReplyTo(c, IF c \in Authorised THEN "failed" ELSE "not_granted")
          /\ UNCHANGED <<timer, calleeQueue, toCallee>>
     ELSE /\ stage' = [stage EXCEPT ![c] = "sent"]
          /\ timer' = timer \cup {c}
          /\ calleeQueue' = calleeQueue \cup {c}
          /\ toCallee' = IF calleeAlive THEN Append(toCallee, c) ELSE toCallee
          /\ UNCHANGED down
  /\ UNCHANGED <<callerVars, up, known, ended, fromCallee, running, calleeAlive, charged>>

\* The session's timer expires: DEVICE_NOT_RESPONDING.  The request stays in
\* the callee's msgQueue.
TimerExpires(c) ==
  /\ c \in timer
  /\ SessionCallback(c, "timeout")
  /\ UNCHANGED <<callerVars, up, stage, calleeQueue, known, ended, calleeVars, charged>>

\* A reply from the callee reaches onWorkerMessage, and through msgQueue the
\* callback sendInvokeActionMessageToWorker left there.
MainReply ==
  /\ fromCallee # <<>>
  /\ LET msg == Head(fromCallee)
         c   == msg.id
     IN /\ calleeQueue' = calleeQueue \ {c}
        /\ \/ /\ c \notin calleeQueue
              /\ UNCHANGED <<stage, timer, down>>
           \/ /\ c \in calleeQueue /\ ~msg.ok
              /\ stage' = [stage EXCEPT ![c] = "done"]
              /\ SessionCallback(c, "failed")
           \/ /\ c \in calleeQueue /\ msg.ok /\ c \notin Billable
              /\ stage' = [stage EXCEPT ![c] = "done"]
              /\ SessionCallback(c, "identity_unresolved")
           \/ /\ c \in calleeQueue /\ msg.ok /\ c \in Billable
              /\ stage' = [stage EXCEPT ![c] = "meter"]
              /\ UNCHANGED <<timer, down>>
  /\ fromCallee' = Tail(fromCallee)
  /\ UNCHANGED <<callerVars, up, known, ended, toCallee, running, calleeAlive, charged>>

\* Mutant: a recordCall that failed is tried again.
StoreRetries(c) ==
  /\ stage[c] = "meter" /\ charged[c] < 2
  /\ \/ stage' = [stage EXCEPT ![c] = "m_billed"]
     \/ UNCHANGED stage
  /\ charged' = [charged EXCEPT ![c] = @ + 1]
  /\ UNCHANGED <<callerVars, up, down, timer, calleeQueue, known, ended, calleeVars>>

\* recordCall at the store: charged, or an error before or after the charge.
StoreCharges(c) ==
  /\ stage[c] = "meter"
  /\ \/ /\ stage' = [stage EXCEPT ![c] = "m_billed"]
        /\ charged' = [charged EXCEPT ![c] = @ + 1]
     \/ /\ stage' = [stage EXCEPT ![c] = "m_unbilled"]
        /\ \/ UNCHANGED charged
           \/ charged' = [charged EXCEPT ![c] = @ + 1]
  /\ UNCHANGED <<callerVars, up, down, timer, calleeQueue, known, ended, calleeVars>>

\* recordCall's callback: a metering error fails open.
MeteringAnswers(c) ==
  /\ stage[c] \in {"m_billed", "m_unbilled"}
  /\ SessionCallback(c, IF stage[c] = "m_billed" THEN "billed" ELSE "unbilled")
  /\ stage' = [stage EXCEPT ![c] = "done"]
  /\ UNCHANGED <<callerVars, up, calleeQueue, known, ended, calleeVars, charged>>

\* 'purgedevice' before the exit: an operator unload, or a crash's 'error' event.
DevicePurged ==
  /\ known
  /\ known' = FALSE
  /\ UNCHANGED <<callerVars, up, down, stage, timer, calleeQueue, ended, calleeVars, charged>>

\* The order endWith answers in: Object.keys of msgQueue, ascending ids, which
\* is the order the calls were sent in.  Any order will do here.
Orders(S) == {f \in [1 .. Cardinality(S) -> S] : \A c \in S : \E i \in DOMAIN f : f[i] = c}

\* Mutant: the exit purges the devices and answers nobody.
ExitWithoutEndWith ==
  /\ ~calleeAlive /\ ~ended /\ fromCallee = <<>>
  /\ ended' = TRUE
  /\ known' = FALSE
  /\ UNCHANGED <<callerVars, up, down, stage, timer, calleeQueue, calleeVars, charged>>

\* The callee worker's 'exit' event, after the messages it had posted: purge,
\* and endWith answers every request it still owes (an unload under way too).
CalleeExitEvent ==
  /\ ~calleeAlive /\ ~ended /\ fromCallee = <<>>
  /\ ended' = TRUE
  /\ known' = FALSE
  /\ stage' = [c \in Calls |-> IF c \in calleeQueue THEN "done" ELSE stage[c]]
  /\ \E f \in Orders(calleeQueue \cap timer) :
       ReplyAll([i \in DOMAIN f |-> [id |-> f[i], out |-> "failed"]])
  /\ timer' = timer \ calleeQueue
  /\ calleeQueue' = {}
  /\ UNCHANGED <<callerVars, up, calleeVars, charged>>

(***************************************************************************)
(* The callee's worker.                                                    *)
(***************************************************************************)

\* sandbox.js, 'invoke-action': the action starts.
CalleeStarts ==
  /\ calleeAlive /\ toCallee # <<>>
  /\ running' = running \cup {Head(toCallee)}
  /\ toCallee' = Tail(toCallee)
  /\ UNCHANGED <<callerVars, up, down, mainVars, fromCallee, calleeAlive, charged>>

\* The action calls back, with a result or an error.
CalleeReturns(c) ==
  /\ calleeAlive /\ c \in running
  /\ running' = running \ {c}
  /\ \E ok \in BOOLEAN : fromCallee' = Append(fromCallee, [id |-> c, ok |-> ok])
  /\ UNCHANGED <<callerVars, up, down, mainVars, toCallee, calleeAlive, charged>>

\* The callee's worker crashes or is terminated.
CalleeExits ==
  /\ calleeAlive
  /\ calleeAlive' = FALSE
  /\ running' = {} /\ toCallee' = <<>>
  /\ UNCHANGED <<callerVars, up, down, mainVars, fromCallee, charged>>

(***************************************************************************)
(* The specification.                                                      *)
(***************************************************************************)

\* What the main thread does for call c, its timer left aside.
Carry(c) ==
  MissingAnswers(c) \/ AuthAnswers(c) \/ StoreCharges(c) \/ MeteringAnswers(c)

Next ==
  \/ \E c \in Calls : Invoke(c) \/ Carry(c) \/ TimerExpires(c) \/ CalleeReturns(c)
  \/ CallerReceives \/ CallerExits \/ MainReceives \/ MainReply
  \/ DevicePurged \/ CalleeExitEvent \/ CalleeStarts \/ CalleeExits

Spec == Init /\ [][Next]_vars

\* The main thread, its AuthProvider and its store answer; ports deliver.
MainFairness ==
  /\ WF_vars(MainReceives) /\ WF_vars(MainReply) /\ WF_vars(CallerReceives)
  /\ WF_vars(CalleeExitEvent)
  /\ \A c \in Calls : WF_vars(Carry(c))

\* Actions call back, and no timer is assumed to fire.
TransportRuns ==
  MainFairness /\ WF_vars(CalleeStarts) /\ \A c \in Calls : WF_vars(CalleeReturns(c))

\* Timers fire, and the callee may hang.
TimersFire == MainFairness /\ \A c \in Calls : WF_vars(TimerExpires(c))

(***************************************************************************)
(* Properties.                                                             *)
(***************************************************************************)

\* Every variable has the shape the code gives it.
TypeOK ==
  /\ asked \in SUBSET Calls /\ callerQueue \in SUBSET asked
  /\ callerAlive \in BOOLEAN /\ answers \in [Calls -> Seq(Outcomes)]
  /\ up \in Seq(Calls) /\ down \in Seq([id : Calls, out : Outcomes])
  /\ stage \in [Calls -> Stages]
  /\ timer \in SUBSET Calls /\ calleeQueue \in SUBSET Calls
  /\ known \in BOOLEAN /\ ended \in BOOLEAN
  /\ toCallee \in Seq(Calls) /\ fromCallee \in Seq([id : Calls, ok : BOOLEAN])
  /\ running \in SUBSET Calls /\ calleeAlive \in BOOLEAN
  /\ charged \in [Calls -> Nat]

\* The places that will answer call c.
Owners(c) ==
  {i \in 1 .. 4 :
     \/ i = 1 /\ \E j \in DOMAIN up : up[j] = c
     \/ i = 2 /\ stage[c] \in {"auth", "missing"}
     \/ i = 3 /\ c \in timer
     \/ i = 4 /\ \E j \in DOMAIN down : down[j].id = c}

\* While its worker lives, a call that waits is in exactly one place that will
\* answer it, and an answered call is in none: it can be neither lost nor
\* answered twice, whichever of reply, timer and worker exit comes first.
OneOwner ==
  callerAlive => \A c \in Calls :
    /\ Len(answers[c]) = IF c \in asked \ callerQueue THEN 1 ELSE 0
    /\ Cardinality(Owners(c)) = IF c \in callerQueue THEN 1 ELSE 0

\* The routed path implements the contract of a hop.
ImplementsContract == Contract!Spec

Answered == \A c \in Calls : c \in asked ~> (answers[c] # <<>> \/ ~callerAlive)

\* Every call is answered unless its own worker is gone, by either of two means
\* alone: no timer has to fire (a callee that exits leaves no request behind), and
\* the session timers are enough when the callee and its port stay silent.
AlwaysAnswered == TransportRuns \/ TimersFire => Answered
================================================================================
