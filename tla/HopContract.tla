----------------------------- MODULE HopContract -----------------------------
(***************************************************************************)
(* What one module may rely on when it calls another through               *)
(* ServiceClient.invoke, whichever transport carries the hop: the direct   *)
(* peer channel (PeerChannel.tla) or the main-thread-routed path           *)
(* (RoutedHop.tla).  docs/direct-peer-channels.md promises that the flag   *)
(* --directPeerChannels changes only the transport, so both modules are    *)
(* shown to implement this one.                                            *)
(*                                                                         *)
(* A hop is answered once, with one outcome, and is charged at most once.  *)
(* An outcome that reports a charge was charged; an outcome that refuses   *)
(* the hop was not and never will be; only a caller that gave up waiting   *)
(* may be charged after its answer.                                        *)
(***************************************************************************)
EXTENDS Integers

CONSTANT Calls          \* the hops that may be made

\* The callback carried the callee's output and the platform's bill.
Billed == "billed"
\* The callback carried the output; the metering itself failed (fail open),
\* so whether the charge went through is not known to the caller.
Unbilled == "unbilled"
\* The platform refused the hop or the callee reported a failure.
Refusals == {"not_granted", "identity_unresolved", "rate_limited", "failed"}
\* The caller stopped waiting: its timer fired or the callee went away.
GaveUp == {"timeout", "gone"}

Outcomes == {Billed, Unbilled} \cup Refusals \cup GaveUp

VARIABLES status,   \* "idle", "waiting" or the outcome handed to the callback
          bill      \* how many times the platform charged for the hop

contractVars == <<status, bill>>

Init ==
  /\ status = [c \in Calls |-> "idle"]
  /\ bill = [c \in Calls |-> 0]

\* A hop is asked for; a refusal known on the spot answers it in the same step.
Ask(c) ==
  /\ status[c] = "idle"
  /\ \E s \in {"waiting"} \cup GaveUp \cup Refusals :
        status' = [status EXCEPT ![c] = s]
  /\ UNCHANGED bill

\* The platform charges for a hop its caller waits for or has given up on.
Charge(c) ==
  /\ status[c] \in {"waiting"} \cup GaveUp
  /\ bill[c] = 0
  /\ bill' = [bill EXCEPT ![c] = 1]
  /\ UNCHANGED status

\* The bill an outcome is allowed to be reported with.
Consistent(o, b) ==
  /\ o = Billed => b = 1
  /\ o \in Refusals => b = 0

\* Callbacks fire.  One step may answer several hops: closing a channel
\* answers every hop pending on it.
Answer ==
  /\ status' \in [Calls -> {"idle", "waiting"} \cup Outcomes]
  /\ \A c \in Calls : status'[c] # status[c] =>
        /\ status[c] = "waiting"
        /\ status'[c] \in Outcomes
        /\ Consistent(status'[c], bill[c])
  /\ UNCHANGED bill

Next ==
  \/ \E c \in Calls : Ask(c) \/ Charge(c)
  \/ Answer

Spec == Init /\ [][Next]_contractVars
==============================================================================
