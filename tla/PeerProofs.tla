----------------------------- MODULE PeerProofs ------------------------------
(***************************************************************************)
(* Proofs about direct peer channels: PeerChannel.tla, for every set of    *)
(* calls and every cap, and PeerBroker.tla, for any workers, devices,      *)
(* rights, restarts and number of channels.                                *)
(*                                                                         *)
(* IInv is the inductive invariant of PeerChannel.  It adds to the         *)
(* properties the runs check where a call can be (Placement), what the     *)
(* charge of a call can be at each stage of serving it (Billing), and what *)
(* the ends of a closed channel hold (Windows).                            *)
(*                                                                         *)
(* BrokerInv is the one of PeerBroker: the types, where each request is    *)
(* (Tracking), and the entries that rechecks are for (Rechecking).         *)
(*                                                                         *)
(* WiringInv adds to it how the registry, the workers' tables, the ends of *)
(* the channels and the order of the messages in each port fit together;   *)
(* RegistryHonest follows from it.                                         *)
(***************************************************************************)
EXTENDS PeerChannel, PeerBroker, QueueLemmas

Refused == {"not_granted", "identity_unresolved", "rate_limited", "failed"}

\* A call that is not being served yet is in at most one of the three queues a
\* request goes through, once; a reply on its way is for a call served.
Placement ==
  /\ Once(sendQueue) /\ Once(toCallee) /\ Once(dispatchQueue)
  /\ Elems(sendQueue) \subseteq pending
  /\ Elems(toCallee) \subseteq asked /\ Elems(dispatchQueue) \subseteq asked
  /\ Elems(sendQueue) \cap Elems(toCallee) = {}
  /\ Elems(sendQueue) \cap Elems(dispatchQueue) = {}
  /\ Elems(toCallee) \cap Elems(dispatchQueue) = {}
  /\ \A c \in Elems(sendQueue) \cup Elems(toCallee) \cup Elems(dispatchQueue) :
        stage[c] = "none"
  /\ \A c \in Calls \ asked : stage[c] = "none"

\* The bill that may go with an outcome.
BillFits(o, b) == (o = "billed" => b = 1) /\ (o \in Refused => b = 0)

\* What a call has been charged, by how far it got; and the replies under way.
Billing ==
  /\ \A c \in Calls :
       /\ charged[c] \in {0, 1}
       /\ stage[c] \in {"none", "run", "ask", "m_limited"} => charged[c] = 0
       /\ stage[c] = "m_billed" => charged[c] = 1
       /\ answers[c] # <<>> =>
            /\ BillFits(answers[c][1], charged[c])
            /\ answers[c][1] \notin {"timeout", "gone"} => stage[c] = "done"
  /\ \A m \in Elems(toCaller) :
       stage[m.id] = "done" /\ BillFits(m.out, charged[m.id])

\* The two windows, and what an open end may rely on when the other is closed.
Windows ==
  /\ SendWindow /\ DispatchWindow /\ NoIdleSlot
  /\ ~callerClosed => activeSends >= Len(toCaller)
  /\ callerClosed => toCaller = <<>>

IInv == TypeOK /\ ExactlyOneAnswer /\ Placement /\ Billing /\ Windows

\* sendQueue.filter takes the call out and leaves the others, in order.
LEMMA WithoutCallFacts ==
  ASSUME NEW S, NEW s \in Seq(S), NEW c, Once(s)
  PROVE  /\ WithoutCall(s, c) \in Seq(S) /\ Once(WithoutCall(s, c))
         /\ Elems(WithoutCall(s, c)) = Elems(s) \ {c}
         /\ WithoutCall(s, c) # <<>> => s # <<>>
  <1>1. Len(s) \in Nat /\ DOMAIN s = 1 .. Len(s)
    BY LenProperties
  <1>2. CASE ~ \E i \in DOMAIN s : s[i] = c
    BY <1>2 DEF WithoutCall, Elems
  <1>3. CASE \E i \in DOMAIN s : s[i] = c
    <2> DEFINE at == CHOOSE i \in DOMAIN s : s[i] = c
    <2>1. at \in 1 .. Len(s) /\ s[at] = c
      BY <1>1, <1>3
    <2>2. WithoutCall(s, c) = LeftOf(s, at)
      BY <1>3 DEF WithoutCall, LeftOf
    <2> HIDE DEF at
    <2> QED BY <1>1, <2>1, <2>2, LeftOfFacts, EmptySeq
  <1> QED BY <1>2, <1>3

(***************************************************************************)
(* The inductive invariant: the initial states.                            *)
(***************************************************************************)

\* What the constants allow to be counted.
LEMMA ServingFacts ==
  IsFiniteSet(Serving) /\ Cardinality(Serving) \in Nat
  <1>1. Serving \in SUBSET Calls
    BY DEF Serving
  <1>2. IsFiniteSet(Serving)
    BY <1>1, CallsAssumption, FS_Subset
  <1> QED BY <1>2, FS_CardinalityType

\* The two ends as their constructors leave them.
LEMMA InitIInv == Init => IInv
  <1> SUFFICES ASSUME Init PROVE IInv
    OBVIOUS
  <1> USE DEF Init
  <1>1. TypeOK
    <2>1. /\ sendQueue \in Seq(Calls) /\ toCallee \in Seq(Calls) /\ dispatchQueue \in Seq(Calls)
          /\ toCaller \in Seq(Replies) /\ answers \in [Calls -> Seq(Outcomes)]
      BY EmptySeq
    <2>2. callerClosed \in BOOLEAN /\ calleeClosed \in BOOLEAN /\ calleeAlive \in BOOLEAN
      BY Zenon
    <2>3. stage \in [Calls -> Stages] /\ charged \in [Calls -> Nat]
      BY DEF Stages
    <2> QED BY <2>1, <2>2, <2>3 DEF TypeOK
  <1>2. ExactlyOneAnswer
    BY EmptyFacts DEF ExactlyOneAnswer
  <1>3. Placement
    BY EmptyFacts DEF Placement
  <1>4. Billing
    BY EmptyFacts DEF Billing
  <1>5. Windows
    <2>1. Serving = {}
      BY DEF Serving, Busy, Replying
    <2>2. DispatchWindow
      BY <2>1, FS_EmptySet, MaxAssumption DEF DispatchWindow
    <2>3. SendWindow /\ NoIdleSlot
      BY EmptyFacts, MaxAssumption DEF SendWindow, NoIdleSlot
    <2> QED BY <2>2, <2>3, EmptyFacts DEF Windows
  <1> QED BY <1>1, <1>2, <1>3, <1>4, <1>5 DEF IInv

(***************************************************************************)
(* The steps of the caller's end.                                          *)
(***************************************************************************)

\* A callback that fires for the first time.
LEMMA CallbackFacts ==
  ASSUME TypeOK, ExactlyOneAnswer, NEW c \in Calls, c \notin asked \ pending,
         NEW o \in Outcomes, Callback(c, o)
  PROVE  /\ answers[c] = <<>> /\ answers' \in [Calls -> Seq(Outcomes)]
         /\ answers'[c] # <<>> /\ answers'[c][1] = o /\ Len(answers'[c]) = 1
         /\ \A d \in Calls \ {c} : answers'[d] = answers[d]
  <1>1. answers[c] \in Seq(Outcomes) /\ Len(answers[c]) = 0
    BY DEF TypeOK, ExactlyOneAnswer
  <1>2. answers[c] = <<>>
    BY <1>1, ElemsFacts
  <1>3. answers'[c] = Append(answers[c], o) /\ \A d \in Calls \ {c} : answers'[d] = answers[d]
    BY DEF Callback, TypeOK
  <1>4. /\ answers'[c] \in Seq(Outcomes) /\ Len(answers'[c]) = 1 /\ answers'[c][1] = o
    BY <1>1, <1>2, <1>3, AppendFacts
  <1>5. answers'[c] # <<>>
    BY <1>4, ElemsFacts
  <1>6. answers' \in [Calls -> Seq(Outcomes)]
    BY <1>1, AppendFacts DEF Callback, TypeOK
  <1> QED BY <1>2, <1>3, <1>4, <1>5, <1>6

\* A callback keeps ExactlyOneAnswer when its call stops waiting with it.
LEMMA CallbackOnce ==
  ASSUME TypeOK, ExactlyOneAnswer, NEW c \in Calls, c \notin asked \ pending,
         NEW o \in Outcomes, Callback(c, o),
         asked' \ pending' = (asked \ pending) \cup {c}
  PROVE  ExactlyOneAnswer'
  <1> SUFFICES ASSUME NEW d \in Calls
               PROVE  Len(answers'[d]) = IF d \in asked' \ pending' THEN 1 ELSE 0
    BY DEF ExactlyOneAnswer
  <1>1. CASE d = c
    BY <1>1, CallbackFacts
  <1>2. CASE d # c
    BY <1>2, CallbackFacts DEF ExactlyOneAnswer
  <1> QED BY <1>1, <1>2

\* Call counts are the same when the callee's end does not move.
LEMMA CalleeStays ==
  ASSUME UNCHANGED calleeVars
  PROVE  /\ Serving' = Serving /\ (DispatchWindow => DispatchWindow')
         /\ dispatchQueue' = dispatchQueue /\ activeDispatches' = activeDispatches
         /\ calleeClosed' = calleeClosed /\ calleeAlive' = calleeAlive /\ stage' = stage
  BY DEF calleeVars, Serving, DispatchWindow

\* invoke() on a closed channel.
LEMMA InvokeClosed ==
  ASSUME IInv, NEW c \in Calls, Invoke(c), callerClosed
  PROVE  IInv'
  <1>1. c \notin asked /\ asked' = asked \cup {c} /\ Callback(c, "gone")
    BY DEF Invoke
  <1>2. /\ UNCHANGED <<pending, sendQueue, activeSends, toCallee, callerClosed, toCaller,
                       calleeVars, charged>>
    BY DEF Invoke
  <1>3. TypeOK /\ ExactlyOneAnswer /\ Placement /\ Billing /\ Windows /\ "gone" \in Outcomes
    BY DEF IInv, Outcomes
  <1>4. c \notin pending
    BY <1>1, <1>3 DEF TypeOK
  <1>5. TypeOK'
    BY <1>1, <1>2, <1>3, CallbackFacts, CalleeStays DEF TypeOK
  <1>6. ExactlyOneAnswer'
    BY <1>1, <1>2, <1>3, <1>4, CallbackOnce
  <1>7. Placement'
    BY <1>1, <1>2, <1>3, CalleeStays DEF Placement
  <1>8. Billing'
    <2>1. \A d \in Calls : answers'[d] # <<>> =>
             /\ BillFits(answers'[d][1], charged[d])
             /\ answers'[d][1] \notin {"timeout", "gone"} => stage[d] = "done"
      BY <1>1, <1>3, <1>4, CallbackFacts DEF Billing, BillFits, Refused
    <2> QED BY <2>1, <1>2, <1>3, CalleeStays DEF Billing
  <1>9. Windows'
    <2>1. SendWindow' /\ NoIdleSlot'
      BY <1>2, <1>3, CalleeStays DEF Windows, SendWindow, NoIdleSlot
    <2>2. DispatchWindow'
      BY <1>2, <1>3, CalleeStays DEF Windows
    <2> QED BY <2>1, <2>2, <1>2, <1>3 DEF Windows
  <1> QED BY <1>5, <1>6, <1>7, <1>8, <1>9 DEF IInv

\* invoke() at capacity: the call waits in sendQueue.
LEMMA InvokeQueued ==
  ASSUME IInv, NEW c \in Calls, Invoke(c), ~callerClosed, activeSends >= MaxSends
  PROVE  IInv'
  <1>1. /\ c \notin asked /\ asked' = asked \cup {c} /\ pending' = pending \cup {c}
        /\ sendQueue' = Append(sendQueue, c)
    BY DEF Invoke
  <1>2. UNCHANGED <<answers, activeSends, toCallee, callerClosed, toCaller, calleeVars, charged>>
    BY DEF Invoke
  <1>3. TypeOK /\ ExactlyOneAnswer /\ Placement /\ Billing /\ Windows
    BY DEF IInv
  <1>4. c \notin pending /\ sendQueue \in Seq(Calls) /\ c \notin Elems(sendQueue)
    BY <1>1, <1>3 DEF TypeOK, Placement
  <1>5. /\ sendQueue' \in Seq(Calls) /\ Once(sendQueue')
        /\ Elems(sendQueue') = Elems(sendQueue) \cup {c}
    BY <1>1, <1>3, <1>4, AppendFacts DEF Placement
  <1>6. TypeOK'
    BY <1>1, <1>2, <1>3, <1>5, CalleeStays DEF TypeOK
  <1>7. ExactlyOneAnswer'
    BY <1>1, <1>2, <1>3, <1>4 DEF ExactlyOneAnswer
  <1>8. Placement'
    <2>1. c \notin Elems(toCallee) /\ c \notin Elems(dispatchQueue) /\ stage[c] = "none"
      BY <1>1, <1>3 DEF Placement
    <2> QED BY <2>1, <1>1, <1>2, <1>3, <1>5, CalleeStays DEF Placement
  <1>9. Billing'
    BY <1>2, <1>3, CalleeStays DEF Billing
  <1>10. Windows'
    <2>1. activeSends = MaxSends
      BY <1>3, MaxAssumption DEF Windows, SendWindow, TypeOK
    <2>2. SendWindow' /\ NoIdleSlot'
      BY <2>1, <1>2, <1>3, CalleeStays DEF Windows, SendWindow, NoIdleSlot
    <2>3. DispatchWindow'
      BY <1>2, <1>3, CalleeStays DEF Windows
    <2> QED BY <2>2, <2>3, <1>2, <1>3 DEF Windows
  <1> QED BY <1>6, <1>7, <1>8, <1>9, <1>10 DEF IInv

\* Posting a request whose call is in no queue.
LEMMA PostInvokeFacts ==
  ASSUME TypeOK, Placement, NEW c \in Calls, PostInvokes(<<c>>), c \notin Elems(toCallee)
  PROVE  /\ toCallee' \in Seq(Calls) /\ Once(toCallee')
         /\ Elems(toCallee') \subseteq Elems(toCallee) \cup {c}
         /\ ~callerClosed /\ ~calleeClosed => Len(toCallee') = Len(toCallee) + 1
  <1>1. toCallee \in Seq(Calls) /\ Once(toCallee)
    BY DEF TypeOK, Placement
  <1>2. toCallee \o <<c>> = Append(toCallee, c)
    BY <1>1, PostOne
  <1>3. toCallee' = IF callerClosed \/ calleeClosed THEN toCallee ELSE Append(toCallee, c)
    BY <1>2 DEF PostInvokes
  <1> QED BY <1>1, <1>3, AppendFacts

\* invoke() with a free slot.
LEMMA InvokeSent ==
  ASSUME IInv, NEW c \in Calls, Invoke(c), ~callerClosed, activeSends < MaxSends
  PROVE  IInv'
  <1>1. TypeOK /\ ExactlyOneAnswer /\ Placement /\ Billing /\ Windows
    BY DEF IInv
  <1>2. activeSends \in Nat /\ ~ (activeSends >= MaxSends)
    BY <1>1, MaxAssumption DEF TypeOK
  <1>3. /\ c \notin asked /\ asked' = asked \cup {c} /\ pending' = pending \cup {c}
        /\ activeSends' = activeSends + 1 /\ PostInvokes(<<c>>)
    BY <1>2 DEF Invoke
  <1>4. UNCHANGED <<answers, sendQueue, callerClosed, toCaller, calleeVars, charged>>
    BY <1>2 DEF Invoke
  <1>5. /\ c \notin pending /\ c \notin Elems(sendQueue) /\ c \notin Elems(toCallee)
        /\ c \notin Elems(dispatchQueue) /\ stage[c] = "none"
    BY <1>1, <1>3 DEF TypeOK, Placement
  <1>6. /\ toCallee' \in Seq(Calls) /\ Once(toCallee')
        /\ Elems(toCallee') \subseteq Elems(toCallee) \cup {c}
        /\ ~callerClosed /\ ~calleeClosed => Len(toCallee') = Len(toCallee) + 1
    BY <1>1, <1>3, <1>5, PostInvokeFacts
  <1>7. TypeOK'
    BY <1>1, <1>2, <1>3, <1>4, <1>6, CalleeStays DEF TypeOK
  <1>8. ExactlyOneAnswer'
    BY <1>1, <1>3, <1>4, <1>5 DEF ExactlyOneAnswer
  <1>9. Placement'
    BY <1>1, <1>3, <1>4, <1>5, <1>6, CalleeStays DEF Placement
  <1>10. Billing'
    BY <1>1, <1>4, CalleeStays DEF Billing
  <1>11. Windows'
    <2>1. /\ Len(toCallee) \in Nat /\ Len(dispatchQueue) \in Nat /\ Len(toCaller) \in Nat
          /\ activeDispatches \in Nat
      BY <1>1, LenProperties DEF TypeOK
    <2>2. sendQueue = <<>>
      BY <1>1, <1>2, MaxAssumption DEF Windows, NoIdleSlot
    <2>3. SendWindow'
      BY <2>1, <1>1, <1>2, <1>3, <1>4, <1>6, MaxAssumption, CalleeStays DEF Windows, SendWindow
    <2>4. NoIdleSlot'
      BY <2>2, <1>1, <1>4, CalleeStays DEF Windows, NoIdleSlot
    <2>5. DispatchWindow'
      BY <1>1, <1>4, CalleeStays DEF Windows
    <2>6. (~callerClosed => activeSends >= Len(toCaller))'
      BY <2>1, <1>1, <1>2, <1>3, <1>4 DEF Windows
    <2> QED BY <2>3, <2>4, <2>5, <2>6, <1>1, <1>4 DEF Windows
  <1> QED BY <1>7, <1>8, <1>9, <1>10, <1>11 DEF IInv

\* invoke().
LEMMA InvokeStep ==
  ASSUME IInv, NEW c \in Calls, Invoke(c)
  PROVE  IInv'
  <1>1. activeSends \in Nat
    BY DEF IInv, TypeOK
  <1>2. activeSends >= MaxSends \/ activeSends < MaxSends
    BY <1>1, MaxAssumption
  <1> QED BY <1>2, InvokeClosed, InvokeQueued, InvokeSent

\* The caller's timer.
LEMMA TimerStep ==
  ASSUME IInv, NEW c \in Calls, TimerFires(c)
  PROVE  IInv'
  <1>1. /\ c \in pending /\ pending' = pending \ {c}
        /\ sendQueue' = WithoutCall(sendQueue, c) /\ Callback(c, "timeout")
    BY DEF TimerFires
  <1>2. UNCHANGED <<asked, activeSends, callerClosed, toCallee, toCaller, calleeVars, charged>>
    BY DEF TimerFires
  <1>3. TypeOK /\ ExactlyOneAnswer /\ Placement /\ Billing /\ Windows /\ "timeout" \in Outcomes
    BY DEF IInv, Outcomes
  <1>4. /\ sendQueue' \in Seq(Calls) /\ Once(sendQueue')
        /\ Elems(sendQueue') = Elems(sendQueue) \ {c}
        /\ sendQueue' # <<>> => sendQueue # <<>>
    BY <1>1, <1>3, WithoutCallFacts DEF TypeOK, Placement
  <1>5. TypeOK'
    BY <1>1, <1>2, <1>3, <1>4, CallbackFacts, CalleeStays DEF TypeOK
  <1>6. ExactlyOneAnswer'
    <2>1. asked' \ pending' = (asked \ pending) \cup {c}
      BY <1>1, <1>2, <1>3 DEF TypeOK
    <2> QED BY <2>1, <1>1, <1>3, CallbackOnce
  <1>7. Placement'
    BY <1>1, <1>2, <1>3, <1>4, CalleeStays DEF Placement
  <1>8. Billing'
    <2>1. \A d \in Calls : answers'[d] # <<>> =>
             /\ BillFits(answers'[d][1], charged[d])
             /\ answers'[d][1] \notin {"timeout", "gone"} => stage[d] = "done"
      BY <1>1, <1>3, CallbackFacts DEF Billing, BillFits, Refused
    <2> QED BY <2>1, <1>2, <1>3, CalleeStays DEF Billing
  <1>9. Windows'
    <2>1. SendWindow' /\ NoIdleSlot'
      BY <1>2, <1>3, <1>4, CalleeStays DEF Windows, SendWindow, NoIdleSlot
    <2>2. DispatchWindow'
      BY <1>2, <1>3, CalleeStays DEF Windows
    <2> QED BY <2>1, <2>2, <1>2, <1>3 DEF Windows
  <1> QED BY <1>5, <1>6, <1>7, <1>8, <1>9 DEF IInv

\* _handleReply's callback: at most one call's callback, with the reply's bill.
LEMMA ReplyCallback ==
  ASSUME IInv, HandleReply
  PROVE  LET msg == Head(toCaller) IN
         /\ msg \in Elems(toCaller) /\ msg.id \in Calls /\ msg.out \in Outcomes
         /\ pending' = pending \ {msg.id} /\ ExactlyOneAnswer'
         /\ answers' \in [Calls -> Seq(Outcomes)]
         /\ \A d \in Calls : \/ answers'[d] = answers[d]
                             \/ /\ d = msg.id /\ d \in pending /\ answers[d] = <<>>
                                /\ answers'[d] # <<>> /\ answers'[d][1] = msg.out
  <1> DEFINE msg == Head(toCaller)
  <1>1. TypeOK /\ ExactlyOneAnswer
    BY DEF IInv
  <1>2. msg \in Elems(toCaller) /\ msg \in Replies
    BY <1>1, TailFacts DEF HandleReply, TypeOK
  <1>3. msg.id \in Calls /\ msg.out \in Outcomes
    BY <1>2 DEF Replies
  <1>4. /\ asked' = asked
        /\ IF msg.id \in pending
           THEN pending' = pending \ {msg.id} /\ Callback(msg.id, msg.out)
           ELSE UNCHANGED <<pending, answers>>
    BY DEF HandleReply
  <1> HIDE DEF msg
  <1>5. CASE msg.id \in pending
    <2>1. Callback(msg.id, msg.out) /\ pending' = pending \ {msg.id}
      BY <1>4, <1>5
    <2>2. asked' \ pending' = (asked \ pending) \cup {msg.id}
      BY <2>1, <1>1, <1>4, <1>5 DEF TypeOK
    <2>3. msg.id \notin asked \ pending
      BY <1>5
    <2>4. ExactlyOneAnswer'
      BY <2>1, <2>2, <2>3, <1>1, <1>3, CallbackOnce
    <2>5. /\ answers[msg.id] = <<>> /\ answers' \in [Calls -> Seq(Outcomes)]
          /\ answers'[msg.id] # <<>> /\ answers'[msg.id][1] = msg.out
          /\ \A d \in Calls \ {msg.id} : answers'[d] = answers[d]
      BY <2>1, <2>3, <1>1, <1>3, CallbackFacts
    <2> QED BY <2>1, <2>4, <2>5, <1>2, <1>3, <1>5 DEF msg
  <1>6. CASE msg.id \notin pending
    <2>1. pending' = pending /\ answers' = answers
      BY <1>4, <1>6
    <2> QED BY <2>1, <1>1, <1>2, <1>3, <1>4, <1>6 DEF msg, ExactlyOneAnswer, TypeOK
  <1> QED BY <1>5, <1>6

\* _drainSendQueue: the freed slot is taken by the next queued call, if any.
LEMMA DrainFacts ==
  ASSUME IInv, HandleReply
  PROVE  /\ activeSends \in Nat \ {0} /\ Len(toCaller) \in Nat \ {0}
         /\ \/ /\ sendQueue = <<>> /\ activeSends' = activeSends - 1
               /\ UNCHANGED <<sendQueue, toCallee>>
            \/ /\ sendQueue # <<>> /\ activeSends' = activeSends
               /\ sendQueue' = Tail(sendQueue) /\ PostInvokes(<<Head(sendQueue)>>)
  <1>1. ~callerClosed /\ toCaller # <<>> /\ DrainSendQueue(activeSends - 1)
    BY DEF HandleReply
  <1>2. Len(toCaller) \in Nat \ {0} /\ activeSends \in Nat
    BY <1>1, TailFacts DEF IInv, TypeOK
  <1>3. activeSends >= Len(toCaller) /\ activeSends <= MaxSends
    BY <1>1 DEF IInv, Windows, SendWindow
  <1>4. activeSends \in Nat \ {0} /\ ~ (activeSends - 1 >= MaxSends)
        /\ (activeSends - 1) + 1 = activeSends
    BY <1>2, <1>3, MaxAssumption
  <1> QED BY <1>1, <1>2, <1>4 DEF DrainSendQueue

\* A reply reaches the caller.
LEMMA HandleReplyStep ==
  ASSUME IInv, HandleReply
  PROVE  IInv'
  <1> DEFINE msg == Head(toCaller)
  <1>1. TypeOK /\ ExactlyOneAnswer /\ Placement /\ Billing /\ Windows
    BY DEF IInv
  <1>2. /\ toCaller # <<>> /\ ~callerClosed /\ toCaller' = Tail(toCaller)
        /\ UNCHANGED <<asked, callerClosed, calleeVars, charged>>
    BY DEF HandleReply
  <1>3. /\ toCaller' \in Seq(Replies) /\ Len(toCaller') = Len(toCaller) - 1
        /\ Elems(toCaller') \subseteq Elems(toCaller)
    BY <1>1, <1>2, TailFacts DEF TypeOK
  <1>4. /\ msg \in Elems(toCaller) /\ msg.id \in Calls /\ msg.out \in Outcomes
        /\ pending' = pending \ {msg.id} /\ ExactlyOneAnswer'
        /\ answers' \in [Calls -> Seq(Outcomes)]
        /\ \A d \in Calls : \/ answers'[d] = answers[d]
                            \/ /\ d = msg.id /\ d \in pending /\ answers[d] = <<>>
                               /\ answers'[d] # <<>> /\ answers'[d][1] = msg.out
    BY ReplyCallback
  <1> HIDE DEF msg
  <1>5. stage[msg.id] = "done" /\ BillFits(msg.out, charged[msg.id])
    BY <1>1, <1>4 DEF Billing
  <1>6. msg.id \notin Elems(sendQueue)
    BY <1>1, <1>5 DEF Placement
  <1>7. Billing'
    <2>1. \A d \in Calls : answers'[d] # <<>> =>
             /\ BillFits(answers'[d][1], charged[d])
             /\ answers'[d][1] \notin {"timeout", "gone"} => stage[d] = "done"
      BY <1>1, <1>4, <1>5 DEF Billing
    <2> QED BY <2>1, <1>1, <1>2, <1>3, CalleeStays DEF Billing
  <1>8. DispatchWindow' /\ (callerClosed => toCaller = <<>>)'
    BY <1>1, <1>2, CalleeStays DEF Windows
  <1>9. /\ Len(toCallee) \in Nat /\ Len(dispatchQueue) \in Nat /\ Len(toCaller) \in Nat
        /\ activeDispatches \in Nat /\ activeSends \in Nat
    BY <1>1, LenProperties DEF TypeOK
  <1>10. CASE /\ sendQueue = <<>> /\ activeSends' = activeSends - 1
              /\ UNCHANGED <<sendQueue, toCallee>>
    <2>1. TypeOK'
      BY <1>10, <1>1, <1>2, <1>3, <1>4, DrainFacts, CalleeStays DEF TypeOK
    <2>2. Placement'
      BY <1>10, <1>1, <1>2, <1>4, <1>6, CalleeStays DEF Placement
    <2>3. SendWindow' /\ NoIdleSlot' /\ (~callerClosed => activeSends >= Len(toCaller))'
      <3>1. SendWindow'
        BY <1>10, <1>1, <1>2, <1>3, <1>9, MaxAssumption, CalleeStays DEF Windows, SendWindow
      <3>2. NoIdleSlot'
        BY <1>10, <1>1, <1>2, CalleeStays DEF Windows, NoIdleSlot
      <3>3. activeSends' >= Len(toCaller')
        BY <1>10, <1>1, <1>2, <1>3, <1>9 DEF Windows
      <3> QED BY <3>1, <3>2, <3>3
    <2> QED BY <2>1, <2>2, <2>3, <1>4, <1>7, <1>8 DEF IInv, Windows
  <1>11. CASE /\ sendQueue # <<>> /\ activeSends' = activeSends
              /\ sendQueue' = Tail(sendQueue) /\ PostInvokes(<<Head(sendQueue)>>)
    <2> DEFINE c == Head(sendQueue)
    <2>1. /\ c \in Calls /\ c \in Elems(sendQueue) /\ sendQueue' \in Seq(Calls)
          /\ Once(sendQueue') /\ Elems(sendQueue') = Elems(sendQueue) \ {c}
      BY <1>11, <1>1, TailFacts DEF TypeOK, Placement
    <2>2. PostInvokes(<<c>>)
      BY <1>11
    <2> HIDE DEF c
    <2>3. c \in pending /\ c \notin Elems(toCallee) /\ c \notin Elems(dispatchQueue)
          /\ stage[c] = "none"
      BY <2>1, <1>1 DEF Placement
    <2>4. /\ toCallee' \in Seq(Calls) /\ Once(toCallee')
          /\ Elems(toCallee') \subseteq Elems(toCallee) \cup {c}
          /\ ~callerClosed /\ ~calleeClosed => Len(toCallee') = Len(toCallee) + 1
      BY <2>1, <2>2, <2>3, <1>1, PostInvokeFacts
    <2>5. TypeOK'
      BY <2>1, <2>4, <1>11, <1>1, <1>2, <1>3, <1>4, CalleeStays DEF TypeOK
    <2>6. Placement'
      <3>1. c \in asked
        BY <2>3, <1>1 DEF TypeOK
      <3> QED BY <3>1, <2>1, <2>3, <2>4, <1>1, <1>2, <1>4, <1>6, CalleeStays DEF Placement
    <2>7. SendWindow' /\ NoIdleSlot' /\ (~callerClosed => activeSends >= Len(toCaller))'
      <3>1. SendWindow'
        <4>1. activeSends' <= MaxSends
          BY <1>11, <1>1 DEF Windows, SendWindow
        <4>2. ASSUME ~callerClosed', ~calleeClosed'
              PROVE  activeSends' = Len(toCallee') + Len(dispatchQueue') + activeDispatches'
                                    + Len(toCaller')
          <5>1. ~callerClosed /\ ~calleeClosed
            BY <4>2, <1>2, CalleeStays
          <5>2. activeSends = Len(toCallee) + Len(dispatchQueue) + activeDispatches
                              + Len(toCaller)
            BY <5>1, <1>1 DEF Windows, SendWindow
          <5>3. /\ Len(toCallee') = Len(toCallee) + 1 /\ Len(toCaller') = Len(toCaller) - 1
                /\ activeSends' = activeSends /\ dispatchQueue' = dispatchQueue
                /\ activeDispatches' = activeDispatches
            BY <5>1, <2>4, <1>2, <1>3, <1>11, CalleeStays
          <5> QED BY <5>2, <5>3, <1>9
        <4> QED BY <4>1, <4>2 DEF SendWindow
      <3>2. NoIdleSlot'
        BY <1>11, <1>1, <1>2, CalleeStays DEF Windows, NoIdleSlot
      <3>3. activeSends' >= Len(toCaller')
        BY <1>11, <1>1, <1>2, <1>3, <1>9 DEF Windows
      <3> QED BY <3>1, <3>2, <3>3
    <2> QED BY <2>5, <2>6, <2>7, <1>4, <1>7, <1>8 DEF IInv, Windows
  <1> QED BY <1>10, <1>11, DrainFacts

\* invalidate() answers every pending call, each for the first time.
LEMMA CloseAnswers ==
  ASSUME TypeOK, ExactlyOneAnswer, CloseCallerEnd
  PROVE  /\ answers' \in [Calls -> Seq(Outcomes)] /\ ExactlyOneAnswer'
         /\ \A d \in Calls : \/ answers'[d] = answers[d]
                             \/ /\ d \in pending /\ answers[d] = <<>>
                                /\ answers'[d] # <<>> /\ answers'[d][1] = "gone"
  <1>1. /\ pending' = {} /\ asked' = asked /\ pending \subseteq asked
        /\ answers' = [c \in Calls |-> IF c \in pending THEN Append(answers[c], "gone")
                                       ELSE answers[c]]
    BY DEF CloseCallerEnd, TypeOK
  <1>2. ASSUME NEW d \in Calls
        PROVE  /\ answers'[d] \in Seq(Outcomes)
               /\ Len(answers'[d]) = IF d \in asked' \ pending' THEN 1 ELSE 0
               /\ \/ answers'[d] = answers[d]
                  \/ /\ d \in pending /\ answers[d] = <<>>
                     /\ answers'[d] # <<>> /\ answers'[d][1] = "gone"
    <2>1. "gone" \in Outcomes /\ answers[d] \in Seq(Outcomes)
      BY DEF Outcomes, TypeOK
    <2>2. Len(answers[d]) = IF d \in asked \ pending THEN 1 ELSE 0
      BY DEF ExactlyOneAnswer
    <2>3. CASE d \in pending
      <3>1. Len(answers[d]) = 0 /\ answers'[d] = Append(answers[d], "gone")
        BY <2>2, <2>3, <1>1
      <3>2. answers[d] = <<>>
        BY <3>1, <2>1, ElemsFacts
      <3>3. /\ answers'[d] \in Seq(Outcomes) /\ Len(answers'[d]) = 1
            /\ answers'[d][1] = "gone"
        BY <3>1, <3>2, <2>1, AppendFacts
      <3>4. answers'[d] # <<>>
        BY <3>3, ElemsFacts
      <3> QED BY <3>2, <3>3, <3>4, <2>3, <1>1
    <2>4. CASE d \notin pending
      BY <2>1, <2>2, <2>4, <1>1
    <2> QED BY <2>3, <2>4
  <1>3. answers' \in [Calls -> Seq(Outcomes)]
    <2>1. \A d \in Calls : (IF d \in pending THEN Append(answers[d], "gone") ELSE answers[d])
                           \in Seq(Outcomes)
      BY <1>1, <1>2
    <2> QED BY <2>1, <1>1
  <1> QED BY <1>2, <1>3 DEF ExactlyOneAnswer

\* The caller's end closes.
LEMMA CloseCallerStep ==
  ASSUME IInv, CloseCallerEnd
  PROVE  IInv'
  <1>1. TypeOK /\ ExactlyOneAnswer /\ Placement /\ Billing /\ Windows
    BY DEF IInv
  <1>2. /\ callerClosed' = TRUE /\ pending' = {} /\ sendQueue' = <<>> /\ toCaller' = <<>>
        /\ UNCHANGED <<asked, activeSends, toCallee, calleeVars, charged>>
    BY DEF CloseCallerEnd
  <1>3. /\ answers' \in [Calls -> Seq(Outcomes)] /\ ExactlyOneAnswer'
        /\ \A d \in Calls : \/ answers'[d] = answers[d]
                            \/ /\ d \in pending /\ answers[d] = <<>>
                               /\ answers'[d] # <<>> /\ answers'[d][1] = "gone"
    BY <1>1, CloseAnswers
  <1>4. TypeOK'
    <2>1. sendQueue' \in Seq(Calls) /\ toCaller' \in Seq(Replies)
      BY <1>2, EmptySeq
    <2> QED BY <2>1, <1>1, <1>2, <1>3, CalleeStays DEF TypeOK
  <1>5. Placement'
    BY <1>1, <1>2, EmptyFacts, CalleeStays DEF Placement
  <1>6. Billing'
    <2>1. \A d \in Calls : answers'[d] # <<>> =>
             /\ BillFits(answers'[d][1], charged[d])
             /\ answers'[d][1] \notin {"timeout", "gone"} => stage[d] = "done"
      BY <1>1, <1>3 DEF Billing, BillFits, Refused
    <2> QED BY <2>1, <1>1, <1>2, EmptyFacts, CalleeStays DEF Billing
  <1>7. Windows'
    <2>1. SendWindow' /\ NoIdleSlot'
      BY <1>1, <1>2, CalleeStays DEF Windows, SendWindow, NoIdleSlot
    <2>2. DispatchWindow'
      BY <1>1, <1>2, CalleeStays DEF Windows
    <2> QED BY <2>1, <2>2, <1>2 DEF Windows
  <1> QED BY <1>3, <1>4, <1>5, <1>6, <1>7 DEF IInv

(***************************************************************************)
(* The steps of the callee's end.                                          *)
(***************************************************************************)

\* The replies of one turn: the one for c and n refusals.
LEMMA PostRepliesFacts ==
  ASSUME TypeOK, NEW c \in Calls, NEW o \in Outcomes, NEW n \in 0 .. Len(dispatchQueue),
         PostReplies(<<[id |-> c, out |-> o]>>
            \o [i \in 1 .. n |-> [id |-> dispatchQueue[i], out |-> "not_granted"]])
  PROVE  /\ toCaller' \in Seq(Replies)
         /\ callerClosed \/ calleeClosed => toCaller' = toCaller
         /\ ~callerClosed /\ ~calleeClosed => Len(toCaller') = Len(toCaller) + 1 + n
         /\ \A m \in Elems(toCaller') :
              \/ m \in Elems(toCaller) \/ m = [id |-> c, out |-> o]
              \/ \E i \in 1 .. n : m = [id |-> dispatchQueue[i], out |-> "not_granted"]
  <1> DEFINE first == <<[id |-> c, out |-> o]>>
  <1> DEFINE more == [i \in 1 .. n |-> [id |-> dispatchQueue[i], out |-> "not_granted"]]
  <1>1. toCaller \in Seq(Replies) /\ dispatchQueue \in Seq(Calls)
    BY DEF TypeOK
  <1>2. /\ Len(toCaller) \in Nat /\ Len(dispatchQueue) \in Nat /\ n \in Nat
        /\ DOMAIN toCaller = 1 .. Len(toCaller)
    BY <1>1, LenProperties
  <1>3. [id |-> c, out |-> o] \in Replies
    BY DEF Replies
  <1>4. first \in Seq(Replies) /\ Len(first) = 1 /\ first[1] = [id |-> c, out |-> o]
    BY <1>3
  <1>5. \A i \in 1 .. n : [id |-> dispatchQueue[i], out |-> "not_granted"] \in Replies
    <2>1. \A i \in 1 .. n : i \in 1 .. Len(dispatchQueue)
      BY <1>2
    <2>2. \A i \in 1 .. n : dispatchQueue[i] \in Calls
      BY <2>1, <1>1, ElementOfSeq
    <2> QED BY <2>2 DEF Replies, Outcomes
  <1>6. more \in [1 .. n -> Replies] /\ DOMAIN more = 1 .. n
    BY <1>5
  <1>7. more \in Seq(Replies)
    BY <1>2, <1>6, SeqDef
  <1>8. Len(more) = n
    BY <1>2, <1>6, <1>7, LenProperties
  <1>9. \A i \in 1 .. n : more[i] = [id |-> dispatchQueue[i], out |-> "not_granted"]
    OBVIOUS
  <1>10. toCaller' = IF callerClosed \/ calleeClosed THEN toCaller
                     ELSE toCaller \o (first \o more)
    BY DEF PostReplies
  <1> HIDE DEF first, more
  <1>11. /\ first \o more \in Seq(Replies) /\ Len(first \o more) = 1 + n
         /\ \A i \in 1 .. 1 + n :
              (first \o more)[i] = IF i <= 1 THEN first[i] ELSE more[i - 1]
    BY <1>4, <1>7, <1>8, ConcatProperties
  <1>12. CASE callerClosed \/ calleeClosed
    BY <1>12, <1>10, <1>1
  <1>13. CASE ~callerClosed /\ ~calleeClosed
    <2> DEFINE burst == first \o more
    <2>1. toCaller' = toCaller \o burst /\ burst \in Seq(Replies) /\ Len(burst) = 1 + n
      BY <1>10, <1>11, <1>13
    <2>2. \A i \in 1 .. 1 + n : burst[i] = IF i <= 1 THEN first[i] ELSE more[i - 1]
      BY <1>11
    <2> HIDE DEF burst
    <2>3. /\ toCaller' \in Seq(Replies) /\ Len(toCaller') = Len(toCaller) + (1 + n)
          /\ \A i \in 1 .. Len(toCaller) + (1 + n) :
               toCaller'[i] = IF i <= Len(toCaller) THEN toCaller[i]
                              ELSE burst[i - Len(toCaller)]
      BY <2>1, <1>1, ConcatProperties
    <2>4. Len(toCaller') = Len(toCaller) + 1 + n
      BY <2>3, <1>2
    <2>5. DOMAIN toCaller' = 1 .. Len(toCaller) + (1 + n)
      BY <2>3, LenProperties
    <2>6. ASSUME NEW m \in Elems(toCaller')
          PROVE  \/ m \in Elems(toCaller) \/ m = [id |-> c, out |-> o]
                 \/ \E i \in 1 .. n : m = [id |-> dispatchQueue[i], out |-> "not_granted"]
      <3>1. PICK j \in 1 .. Len(toCaller) + (1 + n) : m = toCaller'[j]
        BY <2>5 DEF Elems
      <3>2. CASE j <= Len(toCaller)
        <4>1. j \in 1 .. Len(toCaller) /\ m = toCaller[j]
          BY <3>1, <3>2, <2>3, <1>2
        <4> QED BY <4>1, <1>2 DEF Elems
      <3>3. CASE ~ (j <= Len(toCaller))
        <4> DEFINE k == j - Len(toCaller)
        <4>1. k \in 1 .. 1 + n /\ m = burst[k]
          BY <3>1, <3>3, <2>3, <1>2
        <4> HIDE DEF k
        <4>2. CASE k <= 1
          <5>1. k = 1
            BY <4>1, <4>2, <1>2
          <5> QED BY <5>1, <4>1, <2>2, <1>4
        <4>3. CASE ~ (k <= 1)
          <5>1. k - 1 \in 1 .. n /\ m = more[k - 1]
            BY <4>1, <4>3, <2>2, <1>2
          <5> QED BY <5>1, <1>9
        <4> QED BY <4>2, <4>3
      <3> QED BY <3>2, <3>3
    <2> QED BY <2>3, <2>4, <2>6, <1>13
  <1> QED BY <1>12, <1>13

\* Where a reply for c leaves the callee's end, when taken slots stay in use: R
\* are the queued calls it refused, T the queued call it started, if any was left.
ReplyLeaves(c, o, taken, R, T) ==
  /\ R \subseteq Elems(dispatchQueue) /\ T \subseteq Elems(dispatchQueue) /\ R \cap T = {}
  /\ dispatchQueue' \in Seq(Calls) /\ Once(dispatchQueue')
  /\ Elems(dispatchQueue') \subseteq Elems(dispatchQueue) \ (R \cup T)
  /\ stage' = [d \in Calls |-> IF d = c \/ d \in R THEN "done"
                               ELSE IF d \in T THEN "run" ELSE stage[d]]
  /\ toCaller' \in Seq(Replies)
  /\ callerClosed \/ calleeClosed => toCaller' = toCaller
  /\ \A m \in Elems(toCaller') :
       \/ m \in Elems(toCaller) \/ m = [id |-> c, out |-> o]
       \/ \E d \in R : m = [id |-> d, out |-> "not_granted"]
  /\ \/ T = {} /\ activeDispatches' = taken /\ dispatchQueue' = <<>>
     \/ (\E d : T = {d}) /\ activeDispatches' = taken + 1 /\ dispatchQueue # <<>>
  /\ ~callerClosed /\ ~calleeClosed =>
       Len(toCaller') + Len(dispatchQueue') + activeDispatches'
         = Len(toCaller) + Len(dispatchQueue) + taken + 1
  /\ Len(dispatchQueue') + activeDispatches' <= Len(dispatchQueue) + taken

\* reply() and _drainDispatchQueue.
LEMMA ReplyEffect ==
  ASSUME TypeOK, Placement, NEW c \in Calls, NEW o \in Outcomes, NEW taken \in Nat,
         taken < MaxDispatches, Reply(c, o, taken)
  PROVE  \E R, T \in SUBSET Elems(dispatchQueue) : ReplyLeaves(c, o, taken, R, T)
  <1> DEFINE q == dispatchQueue
  <1>1. q \in Seq(Calls) /\ Once(q) /\ Len(q) \in Nat /\ DOMAIN q = 1 .. Len(q)
    BY LenProperties DEF TypeOK, Placement
  <1>2. PICK n \in 0 .. Len(q) :
          LET starts == taken < MaxDispatches /\ n < Len(q) IN
          /\ PostReplies(<<[id |-> c, out |-> o]>>
                       \o [i \in 1 .. n |-> [id |-> q[i], out |-> "not_granted"]])
          /\ stage' = [d \in Calls |->
                         IF d = c \/ \E i \in 1 .. n : d = q[i] THEN "done"
                         ELSE IF starts /\ d = q[n + 1] THEN "run" ELSE stage[d]]
          /\ activeDispatches' = IF starts THEN taken + 1 ELSE taken
          /\ dispatchQueue' = IF starts THEN SubSeq(q, n + 2, Len(q))
                              ELSE SubSeq(q, n + 1, Len(q))
    BY DEF Reply
  <1>3. n \in Nat /\ n <= Len(q)
    BY <1>1
  <1> DEFINE R == {q[i] : i \in 1 .. n}
  <1>4. /\ toCaller' \in Seq(Replies)
        /\ callerClosed \/ calleeClosed => toCaller' = toCaller
        /\ ~callerClosed /\ ~calleeClosed => Len(toCaller') = Len(toCaller) + 1 + n
        /\ \A m \in Elems(toCaller') :
             \/ m \in Elems(toCaller) \/ m = [id |-> c, out |-> o]
             \/ \E i \in 1 .. n : m = [id |-> q[i], out |-> "not_granted"]
    BY <1>2, PostRepliesFacts
  <1>5. \A m \in Elems(toCaller') :
             \/ m \in Elems(toCaller) \/ m = [id |-> c, out |-> o]
             \/ \E d \in R : m = [id |-> d, out |-> "not_granted"]
    BY <1>4
  <1>6. R \subseteq Elems(q)
    <2>1. \A i \in 1 .. n : i \in DOMAIN q
      BY <1>1, <1>3
    <2> QED BY <2>1 DEF Elems
  <1>7. Len(toCaller) \in Nat
    BY LenProperties DEF TypeOK
  <1>8. CASE n < Len(q)
    <2> DEFINE T == {q[n + 1]}
    <2>1. /\ activeDispatches' = taken + 1 /\ dispatchQueue' = SubSeq(q, n + 2, Len(q))
          /\ stage' = [d \in Calls |->
                         IF d = c \/ \E i \in 1 .. n : d = q[i] THEN "done"
                         ELSE IF d = q[n + 1] THEN "run" ELSE stage[d]]
      BY <1>2, <1>8
    <2>2. n + 1 \in 0 .. Len(q) /\ n + 1 \in 1 .. Len(q) /\ n + 2 = (n + 1) + 1
      BY <1>1, <1>3, <1>8
    <2>3. LET t == SubSeq(q, (n + 1) + 1, Len(q)) IN
            /\ t \in Seq(Calls) /\ Len(t) = Len(q) - (n + 1) /\ Once(t)
            /\ Elems(t) = {q[i] : i \in (n + 1) + 1 .. Len(q)}
            /\ \A i \in 1 .. n + 1 : q[i] \notin Elems(t)
      BY <2>2, <1>1, RestFacts
    <2>4. /\ dispatchQueue' \in Seq(Calls) /\ Len(dispatchQueue') = Len(q) - (n + 1)
          /\ Once(dispatchQueue')
          /\ Elems(dispatchQueue') = {q[i] : i \in (n + 1) + 1 .. Len(q)}
          /\ \A i \in 1 .. n + 1 : q[i] \notin Elems(dispatchQueue')
      BY <2>1, <2>2, <2>3
    <2>5. T \subseteq Elems(q)
      BY <2>2, <1>1 DEF Elems
    <2>6. R \cap T = {}
      <3>1. \A i \in 1 .. n : i \in 1 .. Len(q) /\ i # n + 1
        BY <1>1, <1>3
      <3>2. \A i \in 1 .. n : q[i] # q[n + 1]
        BY <3>1, <2>2, <1>1 DEF Once
      <3> QED BY <3>2
    <2>7. Elems(dispatchQueue') \subseteq Elems(q) \ (R \cup T)
      <3>1. \A i \in (n + 1) + 1 .. Len(q) : i \in DOMAIN q
        BY <1>1, <1>3
      <3>2. Elems(dispatchQueue') \subseteq Elems(q)
        BY <3>1, <2>4 DEF Elems
      <3>3. \A i \in 1 .. n : i \in 1 .. n + 1
        BY <1>3
      <3>4. n + 1 \in 1 .. n + 1
        BY <1>3
      <3> QED BY <3>2, <3>3, <3>4, <2>4
    <2>8. stage' = [d \in Calls |-> IF d = c \/ d \in R THEN "done"
                                    ELSE IF d \in T THEN "run" ELSE stage[d]]
      BY <2>1
    <2>9. dispatchQueue # <<>>
      BY <2>2, <1>1, <1>3, <1>8, EmptySeq
    <2>10. ~callerClosed /\ ~calleeClosed =>
             Len(toCaller') + Len(dispatchQueue') + activeDispatches'
               = Len(toCaller) + Len(q) + taken + 1
      <3>1. \A x, y, k, u \in Nat : (x + 1 + k) + (y - (k + 1)) + (u + 1) = x + y + u + 1
        OBVIOUS
      <3>2. SUFFICES ASSUME ~callerClosed /\ ~calleeClosed
                     PROVE  Len(toCaller') + Len(dispatchQueue') + activeDispatches'
                              = Len(toCaller) + Len(q) + taken + 1
        OBVIOUS
      <3>3. /\ Len(toCaller') = Len(toCaller) + 1 + n
            /\ Len(dispatchQueue') = Len(q) - (n + 1) /\ activeDispatches' = taken + 1
        BY <3>2, <2>1, <2>4, <1>4
      <3>4. Len(q) \in Nat
        BY <1>1
      <3> HIDE DEF q
      <3> QED BY <3>1, <3>3, <3>4, <1>3, <1>7
    <2>11. \E d : T = {d}
      OBVIOUS
    <2>12. Len(dispatchQueue') + activeDispatches' <= Len(dispatchQueue) + taken
      <3>1. \A x, k, u \in Nat : (x - (k + 1)) + (u + 1) <= x + u
        OBVIOUS
      <3>2. Len(q) \in Nat
        BY <1>1
      <3> QED BY <3>1, <3>2, <2>1, <2>4, <1>3
    <2> HIDE DEF R, T
    <2>13. ReplyLeaves(c, o, taken, R, T)
      BY <2>1, <2>4, <2>5, <2>6, <2>7, <2>8, <2>9, <2>10, <2>11, <2>12, <1>4, <1>5, <1>6
         DEF ReplyLeaves
    <2> QED BY <2>5, <2>13, <1>6
  <1>9. CASE ~ (n < Len(q))
    <2>1. /\ activeDispatches' = taken /\ dispatchQueue' = SubSeq(q, n + 1, Len(q))
          /\ stage' = [d \in Calls |->
                         IF d = c \/ \E i \in 1 .. n : d = q[i] THEN "done" ELSE stage[d]]
      BY <1>2, <1>9
    <2>2. n = Len(q)
      <3>1. \A x, y \in Nat : x <= y /\ ~ (x < y) => x = y
        OBVIOUS
      <3> QED BY <3>1, <1>1, <1>3, <1>9
    <2>3. dispatchQueue' = <<>>
      <3>1. n + 1 \in Int /\ Len(q) \in Int /\ Len(q) < n + 1
        BY <2>2, <1>1
      <3> QED BY <3>1, <2>1, SubSeqEmpty
    <2>4. stage' = [d \in Calls |-> IF d = c \/ d \in R THEN "done"
                                    ELSE IF d \in {} THEN "run" ELSE stage[d]]
      BY <2>1
    <2>5. ~callerClosed /\ ~calleeClosed =>
             Len(toCaller') + Len(dispatchQueue') + activeDispatches'
               = Len(toCaller) + Len(q) + taken + 1
      <3>1. \A x, k, u \in Nat : (x + 1 + k) + 0 + u = x + k + u + 1
        OBVIOUS
      <3>2. SUFFICES ASSUME ~callerClosed /\ ~calleeClosed
                     PROVE  Len(toCaller') + Len(dispatchQueue') + activeDispatches'
                              = Len(toCaller) + Len(q) + taken + 1
        OBVIOUS
      <3>3. /\ Len(toCaller') = Len(toCaller) + 1 + n /\ Len(q) = n
            /\ Len(dispatchQueue') = 0 /\ activeDispatches' = taken
        BY <3>2, <2>1, <2>2, <2>3, <1>4, EmptyFacts
      <3> HIDE DEF q
      <3> QED BY <3>1, <3>3, <1>3, <1>7
    <2>6. dispatchQueue' \in Seq(Calls) /\ Once(dispatchQueue') /\ Elems(dispatchQueue') = {}
      BY <2>3, EmptyFacts, EmptySeq
    <2> HIDE DEF R
    <2>7. Len(dispatchQueue') + activeDispatches' <= Len(dispatchQueue) + taken
      <3>1. Len(dispatchQueue') = 0
        BY <2>3, EmptyFacts
      <3>2. \A x, u \in Nat : 0 + u <= x + u
        OBVIOUS
      <3>3. Len(q) \in Nat
        BY <1>1
      <3> QED BY <3>1, <3>2, <3>3, <2>1
    <2>8. ReplyLeaves(c, o, taken, R, {})
      BY <2>1, <2>3, <2>4, <2>5, <2>6, <2>7, <1>4, <1>5, <1>6 DEF ReplyLeaves
    <2> QED BY <2>8, <1>6
  <1> QED BY <1>8, <1>9

\* Two balances add up.
LEMMA Balances ==
  ASSUME NEW a \in Nat, NEW b \in Nat, NEW d \in Nat, NEW i \in Nat, NEW e \in Nat,
         NEW f \in Nat, NEW g \in Nat, NEW h \in Nat, NEW t \in Nat,
         e + t + 1 = a + d, h + f + g = i + b + t + 1
  PROVE  a + b + d + i = e + f + g + h
  OBVIOUS

\* A reply moves requests between the places SendWindow counts.
LEMMA ReplyKeepsSum ==
  ASSUME NEW taken \in Nat, activeDispatches \in Nat, activeDispatches' \in Nat,
         Len(toCallee) \in Nat, Len(dispatchQueue) \in Nat, Len(toCaller) \in Nat,
         Len(toCallee') \in Nat, Len(dispatchQueue') \in Nat, Len(toCaller') \in Nat,
         Len(toCallee') + taken + 1 = Len(toCallee) + activeDispatches,
         Len(toCaller') + Len(dispatchQueue') + activeDispatches'
           = Len(toCaller) + Len(dispatchQueue) + taken + 1
  PROVE  Len(toCallee) + Len(dispatchQueue) + activeDispatches + Len(toCaller)
           = Len(toCallee') + Len(dispatchQueue') + activeDispatches' + Len(toCaller')
  BY Balances

\* A reply keeps the invariant: c leaves the hands of onInvoke with an outcome its
\* charge fits, its slot is one of those not taken, and a drain follows.
LEMMA ReplyStep ==
  ASSUME IInv, NEW c \in asked, NEW o \in Outcomes, NEW taken \in Nat,
         taken < MaxDispatches, Reply(c, o, taken),
         c \notin Elems(sendQueue), c \notin Elems(dispatchQueue), c \notin Elems(toCallee'),
         BillFits(o, charged[c]),
         calleeAlive => Cardinality(Serving \ {c}) = taken,
         dispatchQueue # <<>> => taken + 1 = MaxDispatches,
         toCallee' \in Seq(Calls), Once(toCallee'), Elems(toCallee') \subseteq Elems(toCallee),
         Len(toCallee') + taken + 1 = Len(toCallee) + activeDispatches,
         UNCHANGED <<callerVars, calleeClosed, calleeAlive, charged>>
  PROVE  IInv'
  <1>1. TypeOK /\ ExactlyOneAnswer /\ Placement /\ Billing /\ Windows /\ c \in Calls
    BY DEF IInv, TypeOK
  <1>2. PICK R, T \in SUBSET Elems(dispatchQueue) : ReplyLeaves(c, o, taken, R, T)
    BY <1>1, ReplyEffect
  <1>3. UNCHANGED <<asked, pending, sendQueue, activeSends, callerClosed, answers>>
    BY DEF callerVars
  <1>4. /\ Elems(dispatchQueue) \subseteq asked /\ Elems(dispatchQueue) \subseteq Calls
        /\ \A d \in Elems(dispatchQueue) : stage[d] = "none"
    BY <1>1 DEF Placement, TypeOK
  <1>5. \A d \in Calls : stage'[d] = IF d = c \/ d \in R THEN "done"
                                     ELSE IF d \in T THEN "run" ELSE stage[d]
    BY <1>2 DEF ReplyLeaves
  <1>6. activeDispatches' \in Nat /\ activeDispatches' <= MaxDispatches
    BY <1>2, MaxAssumption DEF ReplyLeaves
  <1>7. TypeOK'
    <2>1. stage' \in [Calls -> Stages]
      BY <1>1, <1>2 DEF ReplyLeaves, TypeOK, Stages, Busy
    <2>2. dispatchQueue' \in Seq(Calls) /\ toCaller' \in Seq(Replies)
      BY <1>2 DEF ReplyLeaves
    <2> QED BY <2>1, <2>2, <1>1, <1>3, <1>6 DEF TypeOK
  <1>8. ExactlyOneAnswer'
    BY <1>1, <1>3 DEF ExactlyOneAnswer
  <1>9. Placement'
    <2>1. /\ Once(dispatchQueue')
          /\ Elems(dispatchQueue') \subseteq Elems(dispatchQueue) \ (R \cup T)
      BY <1>2 DEF ReplyLeaves
    <2>2. \A d \in Elems(sendQueue) \cup Elems(toCallee') \cup Elems(dispatchQueue') :
             d \in Calls /\ d # c /\ d \notin R /\ d \notin T /\ stage[d] = "none"
      <3>1. \A d \in Elems(sendQueue) \cup Elems(toCallee') : d \notin Elems(dispatchQueue)
        BY <1>1 DEF Placement
      <3>2. \A d \in Elems(sendQueue) \cup Elems(toCallee') \cup Elems(dispatchQueue') :
               d \in Calls /\ stage[d] = "none"
        BY <2>1, <1>1 DEF Placement, TypeOK
      <3> QED BY <3>1, <3>2, <2>1
    <2>3. \A d \in Elems(sendQueue) \cup Elems(toCallee') \cup Elems(dispatchQueue') :
             stage'[d] = "none"
      BY <2>2, <1>5
    <2>4. \A d \in Calls \ asked : stage'[d] = "none"
      <3>1. \A d \in Calls \ asked : d # c /\ d \notin R /\ d \notin T /\ stage[d] = "none"
        BY <1>1, <1>4 DEF Placement
      <3> QED BY <3>1, <1>5
    <2> QED BY <2>1, <2>3, <2>4, <1>1, <1>3 DEF Placement
  <1>10. Billing'
    <2>1. \A d \in R \cup T : charged[d] = 0
      BY <1>1, <1>4 DEF Billing
    <2>2. ASSUME NEW d \in Calls
          PROVE  /\ stage'[d] \in {"none", "run", "ask", "m_limited"} => charged[d] = 0
                 /\ stage'[d] = "m_billed" => charged[d] = 1
                 /\ stage[d] = "done" => stage'[d] = "done"
      BY <2>1, <1>1, <1>4, <1>5 DEF Billing
    <2>3. ASSUME NEW m \in Elems(toCaller')
          PROVE  stage'[m.id] = "done" /\ BillFits(m.out, charged[m.id])
      <3>1. \/ m \in Elems(toCaller) \/ m = [id |-> c, out |-> o]
            \/ \E d \in R : m = [id |-> d, out |-> "not_granted"]
        BY <1>2 DEF ReplyLeaves
      <3>2. CASE m \in Elems(toCaller)
        <4>1. m.id \in Calls
          <5>1. toCaller \in Seq(Replies)
            BY <1>1 DEF TypeOK
          <5>2. m \in Replies
            BY <5>1, <3>2, ElemsFacts
          <5> QED BY <5>2 DEF Replies
        <4> QED BY <4>1, <3>2, <2>2, <1>1 DEF Billing
      <3>3. CASE m = [id |-> c, out |-> o]
        BY <3>3, <1>1, <1>5
      <3>4. CASE \E d \in R : m = [id |-> d, out |-> "not_granted"]
        BY <3>4, <2>1, <1>4, <1>5 DEF BillFits, Refused
      <3> QED BY <3>1, <3>2, <3>3, <3>4
    <2> QED BY <2>2, <2>3, <1>1, <1>3 DEF Billing
  <1>11. SendWindow'
    <2>1. /\ Len(toCallee) \in Nat /\ Len(dispatchQueue) \in Nat /\ Len(toCaller) \in Nat
          /\ activeDispatches \in Nat /\ Len(toCallee') \in Nat /\ Len(toCaller') \in Nat
          /\ Len(dispatchQueue') \in Nat
      BY <1>1, <1>7, LenProperties DEF TypeOK
    <2>2. ASSUME ~callerClosed', ~calleeClosed'
          PROVE  activeSends' = Len(toCallee') + Len(dispatchQueue') + activeDispatches'
                                + Len(toCaller')
      <3>1. Len(toCaller') + Len(dispatchQueue') + activeDispatches'
              = Len(toCaller) + Len(dispatchQueue) + taken + 1
        BY <2>2, <1>2, <1>3 DEF ReplyLeaves
      <3>2. activeSends' = Len(toCallee) + Len(dispatchQueue) + activeDispatches + Len(toCaller)
        BY <2>2, <1>1, <1>3 DEF Windows, SendWindow
      <3> QED BY <3>1, <3>2, <2>1, <1>6, ReplyKeepsSum
    <2> QED BY <2>2, <1>1, <1>3 DEF Windows, SendWindow
  <1>12. DispatchWindow'
    <2>1. ASSUME calleeAlive PROVE activeDispatches' = Cardinality(Serving')
      <3>1. Serving' = (Serving \ {c}) \cup T
        <4>1. \A d \in Calls : stage'[d] \in Busy <=> (stage[d] \in Busy /\ d # c) \/ d \in T
          <5>1. c \notin T /\ R \cap T = {} /\ \A d \in R \cup T : stage[d] = "none"
            BY <1>2, <1>4 DEF ReplyLeaves
          <5>2. "done" \notin Busy /\ "none" \notin Busy /\ "run" \in Busy
            BY DEF Busy, Replying
          <5> QED BY <5>1, <5>2, <1>5
        <4>2. T \subseteq Calls
          BY <1>4
        <4> QED BY <4>1, <4>2 DEF Serving
      <3>2. \A d \in T : d \notin Serving
        BY <1>4 DEF Serving, Busy, Replying
      <3>3. IsFiniteSet(Serving \ {c}) /\ Cardinality(Serving \ {c}) = taken
        BY <2>1, ServingFacts, FS_RemoveElement
      <3>4. CASE T = {} /\ activeDispatches' = taken
        BY <3>1, <3>3, <3>4
      <3>5. CASE (\E d : T = {d}) /\ activeDispatches' = taken + 1
        <4>1. PICK d : T = {d}
          BY <3>5
        <4>2. d \notin Serving \ {c}
          BY <4>1, <3>2
        <4>3. Cardinality((Serving \ {c}) \cup {d}) = taken + 1
          BY <4>2, <3>3, FS_AddElement
        <4> QED BY <4>1, <4>3, <3>1, <3>5
      <3> QED BY <3>4, <3>5, <1>2 DEF ReplyLeaves
    <2> QED BY <2>1, <1>6 DEF DispatchWindow
  <1>13. NoIdleSlot'
    <2>1. dispatchQueue' # <<>> => activeDispatches' = MaxDispatches
      BY <1>2 DEF ReplyLeaves
    <2> QED BY <2>1, <1>1, <1>3 DEF Windows, NoIdleSlot
  <1>14. (~callerClosed => activeSends >= Len(toCaller))'
    <2>1. /\ Len(toCallee') \in Nat /\ Len(toCaller') \in Nat /\ Len(dispatchQueue') \in Nat
          /\ activeSends' \in Nat
      BY <1>7, LenProperties DEF TypeOK
    <2>2. CASE calleeClosed
      BY <2>2, <1>1, <1>2, <1>3 DEF ReplyLeaves, Windows
    <2>3. CASE ~calleeClosed
      BY <2>1, <2>3, <1>6, <1>11 DEF SendWindow
    <2> QED BY <2>2, <2>3
  <1>15. (callerClosed => toCaller = <<>>)'
    BY <1>1, <1>2, <1>3 DEF ReplyLeaves, Windows
  <1> QED BY <1>7, <1>8, <1>9, <1>10, <1>11, <1>12, <1>13, <1>14, <1>15 DEF IInv, Windows

\* A hop onInvoke is serving calls back.
LEMMA CompleteStep ==
  ASSUME IInv, NEW c \in Calls, NEW o \in Outcomes, calleeAlive, stage[c] \in Busy,
         BillFits(o, charged[c]), CompleteDispatch(c, o)
  PROVE  IInv'
  <1>1. TypeOK /\ Placement /\ Windows
    BY DEF IInv
  <1>2. /\ Reply(c, o, activeDispatches - 1)
        /\ UNCHANGED <<callerVars, toCallee, calleeClosed, calleeAlive, charged>>
    BY DEF CompleteDispatch
  <1>3. stage[c] # "none"
    BY DEF Busy, Replying
  <1>4. /\ c \in asked /\ c \notin Elems(sendQueue) /\ c \notin Elems(dispatchQueue)
        /\ c \notin Elems(toCallee)
    BY <1>1, <1>3 DEF Placement
  <1>5. /\ activeDispatches = Cardinality(Serving) /\ activeDispatches <= MaxDispatches
        /\ activeDispatches \in Nat
    BY <1>1 DEF Windows, DispatchWindow, TypeOK
  <1>6. c \in Serving
    BY DEF Serving
  <1>7. /\ Cardinality(Serving \ {c}) = activeDispatches - 1
        /\ Cardinality(Serving \ {c}) \in Nat
    BY <1>5, <1>6, ServingFacts, FS_RemoveElement, FS_CardinalityType
  <1>8. activeDispatches - 1 \in Nat /\ activeDispatches - 1 < MaxDispatches
    BY <1>5, <1>7, MaxAssumption
  <1>9. dispatchQueue # <<>> => (activeDispatches - 1) + 1 = MaxDispatches
    BY <1>1, <1>5, MaxAssumption DEF Windows, NoIdleSlot
  <1>10. /\ toCallee' \in Seq(Calls) /\ Once(toCallee') /\ Elems(toCallee') \subseteq Elems(toCallee)
         /\ c \notin Elems(toCallee')
    BY <1>1, <1>2, <1>4 DEF TypeOK, Placement
  <1>11. Len(toCallee') + (activeDispatches - 1) + 1 = Len(toCallee) + activeDispatches
    <2>1. Len(toCallee) \in Nat /\ toCallee' = toCallee
      BY <1>1, <1>2, LenProperties DEF TypeOK
    <2> QED BY <2>1, <1>5
  <1> QED BY <1>2, <1>4, <1>7, <1>8, <1>9, <1>10, <1>11, ReplyStep

\* A request reaches the callee: queued, started, or refused.
LEMMA HandleInvokeStep ==
  ASSUME IInv, HandleInvoke
  PROVE  IInv'
  <1> DEFINE c == Head(toCallee)
  <1>1. TypeOK /\ ExactlyOneAnswer /\ Placement /\ Billing /\ Windows
    BY DEF IInv
  <1>2. /\ ~calleeClosed /\ toCallee # <<>> /\ toCallee' = Tail(toCallee)
        /\ UNCHANGED <<callerVars, calleeClosed, calleeAlive, charged>>
    BY DEF HandleInvoke
  <1>3. UNCHANGED <<asked, pending, sendQueue, activeSends, callerClosed, answers>>
    BY <1>2 DEF callerVars
  <1>4. /\ toCallee' \in Seq(Calls) /\ Len(toCallee') = Len(toCallee) - 1
        /\ Len(toCallee) \in Nat \ {0} /\ c \in Calls /\ c \in Elems(toCallee)
        /\ Once(toCallee') /\ Elems(toCallee') = Elems(toCallee) \ {c}
    BY <1>1, <1>2, TailFacts DEF TypeOK, Placement
  <1>5. \/ /\ activeDispatches >= MaxDispatches
           /\ dispatchQueue' = Append(dispatchQueue, c)
           /\ UNCHANGED <<activeDispatches, stage, toCaller>>
        \/ /\ activeDispatches < MaxDispatches /\ c \in Granted
           /\ activeDispatches' = activeDispatches + 1
           /\ stage' = [stage EXCEPT ![c] = "run"]
           /\ UNCHANGED <<dispatchQueue, toCaller>>
        \/ /\ activeDispatches < MaxDispatches /\ c \notin Granted
           /\ Reply(c, "not_granted", activeDispatches)
    BY DEF HandleInvoke
  <1> HIDE DEF c
  <1>6. /\ c \in asked /\ c \notin Elems(sendQueue) /\ c \notin Elems(dispatchQueue)
        /\ stage[c] = "none"
    BY <1>1, <1>4 DEF Placement
  <1>7. /\ Len(dispatchQueue) \in Nat /\ Len(toCaller) \in Nat /\ activeDispatches \in Nat
        /\ activeSends \in Nat
    BY <1>1, LenProperties DEF TypeOK
  <1>8. ExactlyOneAnswer'
    BY <1>1, <1>3 DEF ExactlyOneAnswer
  <1>9. CASE /\ activeDispatches >= MaxDispatches
             /\ dispatchQueue' = Append(dispatchQueue, c)
             /\ UNCHANGED <<activeDispatches, stage, toCaller>>
    <2>1. /\ dispatchQueue' \in Seq(Calls) /\ Len(dispatchQueue') = Len(dispatchQueue) + 1
          /\ Elems(dispatchQueue') = Elems(dispatchQueue) \cup {c} /\ Once(dispatchQueue')
      BY <1>1, <1>4, <1>6, <1>9, AppendFacts DEF TypeOK, Placement
    <2>2. TypeOK'
      BY <2>1, <1>1, <1>2, <1>3, <1>4, <1>9 DEF TypeOK
    <2>3. Placement'
      BY <2>1, <1>1, <1>3, <1>4, <1>6, <1>9 DEF Placement
    <2>4. Billing'
      BY <1>1, <1>2, <1>3, <1>9 DEF Billing
    <2>5. SendWindow'
      <3>1. ASSUME ~callerClosed', ~calleeClosed'
            PROVE  activeSends' = Len(toCallee') + Len(dispatchQueue') + activeDispatches'
                                  + Len(toCaller')
        <4>1. activeSends' = Len(toCallee) + Len(dispatchQueue) + activeDispatches + Len(toCaller)
          BY <3>1, <1>1, <1>2, <1>3 DEF Windows, SendWindow
        <4> QED BY <4>1, <2>1, <1>4, <1>7, <1>9
      <3> QED BY <3>1, <1>1, <1>3 DEF Windows, SendWindow
    <2>6. activeDispatches = MaxDispatches
      BY <1>1, <1>7, <1>9, MaxAssumption DEF Windows, DispatchWindow
    <2>7. NoIdleSlot'
      BY <2>6, <1>1, <1>3, <1>9 DEF Windows, NoIdleSlot
    <2>8. DispatchWindow'
      BY <1>1, <1>2, <1>9 DEF Windows, DispatchWindow, Serving
    <2>9. Windows'
      BY <2>5, <2>7, <2>8, <1>1, <1>3, <1>9 DEF Windows
    <2> QED BY <2>2, <2>3, <2>4, <2>9, <1>8 DEF IInv
  <1>10. CASE /\ activeDispatches < MaxDispatches /\ c \in Granted
              /\ activeDispatches' = activeDispatches + 1
              /\ stage' = [stage EXCEPT ![c] = "run"]
              /\ UNCHANGED <<dispatchQueue, toCaller>>
    <2>1. stage'[c] = "run" /\ \A d \in Calls \ {c} : stage'[d] = stage[d]
      BY <1>1, <1>4, <1>10 DEF TypeOK
    <2>2. TypeOK'
      <3>1. stage' \in [Calls -> Stages]
        BY <1>1, <1>10 DEF TypeOK, Stages, Busy
      <3> QED BY <3>1, <1>1, <1>2, <1>3, <1>4, <1>7, <1>10 DEF TypeOK
    <2>3. Placement'
      <3>1. \A d \in Elems(sendQueue) \cup Elems(toCallee') \cup Elems(dispatchQueue) :
               d \in Calls /\ d # c /\ stage[d] = "none"
        BY <1>1, <1>4, <1>6 DEF Placement, TypeOK
      <3>2. \A d \in Elems(sendQueue) \cup Elems(toCallee') \cup Elems(dispatchQueue) :
               stage'[d] = "none"
        BY <3>1, <2>1
      <3>3. \A d \in Calls \ asked : stage'[d] = "none"
        BY <2>1, <1>1, <1>6 DEF Placement
      <3> QED BY <3>2, <3>3, <1>1, <1>3, <1>4, <1>10 DEF Placement
    <2>4. Billing'
      <3>1. charged[c] = 0
        BY <1>1, <1>4, <1>6 DEF Billing
      <3>2. \A d \in Calls : stage[d] = "done" => stage'[d] = "done"
        BY <2>1, <1>6
      <3>3. \A d \in Calls :
              /\ stage'[d] \in {"none", "run", "ask", "m_limited"} => charged[d] = 0
              /\ stage'[d] = "m_billed" => charged[d] = 1
        BY <3>1, <2>1, <1>1 DEF Billing
      <3>4. \A m \in Elems(toCaller) : m.id \in Calls
        <4>1. toCaller \in Seq(Replies)
          BY <1>1 DEF TypeOK
        <4>2. Elems(toCaller) \subseteq Replies
          BY <4>1, ElemsFacts
        <4> QED BY <4>2 DEF Replies
      <3> QED BY <3>2, <3>3, <3>4, <1>1, <1>2, <1>3, <1>10 DEF Billing
    <2>5. SendWindow'
      <3>1. ASSUME ~callerClosed', ~calleeClosed'
            PROVE  activeSends' = Len(toCallee') + Len(dispatchQueue') + activeDispatches'
                                  + Len(toCaller')
        <4>1. activeSends' = Len(toCallee) + Len(dispatchQueue) + activeDispatches + Len(toCaller)
          BY <3>1, <1>1, <1>2, <1>3 DEF Windows, SendWindow
        <4> QED BY <4>1, <1>4, <1>7, <1>10
      <3> QED BY <3>1, <1>1, <1>3 DEF Windows, SendWindow
    <2>6. DispatchWindow'
      <3>1. Serving' = Serving \cup {c} /\ c \notin Serving
        BY <2>1, <1>4, <1>6 DEF Serving, Busy, Replying
      <3>2. Cardinality(Serving') = Cardinality(Serving) + 1
        BY <3>1, ServingFacts, FS_AddElement
      <3> QED BY <3>2, <1>1, <1>2, <1>7, <1>10, MaxAssumption DEF Windows, DispatchWindow
    <2>7. NoIdleSlot'
      <3>1. dispatchQueue = <<>>
        BY <1>1, <1>7, <1>10, MaxAssumption DEF Windows, NoIdleSlot
      <3> QED BY <3>1, <1>1, <1>3, <1>10 DEF Windows, NoIdleSlot
    <2>8. Windows'
      BY <2>5, <2>6, <2>7, <1>1, <1>3, <1>10 DEF Windows
    <2> QED BY <2>2, <2>3, <2>4, <2>8, <1>8 DEF IInv
  <1>11. CASE /\ activeDispatches < MaxDispatches /\ c \notin Granted
              /\ Reply(c, "not_granted", activeDispatches)
    <2>1. "not_granted" \in Outcomes /\ BillFits("not_granted", charged[c])
      BY <1>1, <1>4, <1>6 DEF Outcomes, BillFits, Billing
    <2>2. dispatchQueue = <<>>
      BY <1>1, <1>7, <1>11, MaxAssumption DEF Windows, NoIdleSlot
    <2>3. calleeAlive => Cardinality(Serving \ {c}) = activeDispatches
      <3>1. Serving \ {c} = Serving
        BY <1>6 DEF Serving, Busy, Replying
      <3> QED BY <3>1, <1>1 DEF Windows, DispatchWindow
    <2>4. Len(toCallee') + activeDispatches + 1 = Len(toCallee) + activeDispatches
      BY <1>4, <1>7
    <2>5. c \notin Elems(toCallee') /\ Elems(toCallee') \subseteq Elems(toCallee)
      BY <1>4
    <2> QED BY <2>1, <2>2, <2>3, <2>4, <2>5, <1>2, <1>4, <1>6, <1>7, <1>11, ReplyStep
  <1> QED BY <1>5, <1>9, <1>10, <1>11

\* The ids of replies under way are calls.
LEMMA RepliesAreCalls ==
  ASSUME TypeOK
  PROVE  \A m \in Elems(toCaller) : m.id \in Calls
  <1>1. toCaller \in Seq(Replies)
    BY DEF TypeOK
  <1>2. Elems(toCaller) \subseteq Replies
    BY <1>1, ElemsFacts
  <1> QED BY <1>2 DEF Replies

\* A hop in onInvoke's hands moves on and stays there.
LEMMA ServeStep ==
  ASSUME IInv, NEW c \in Calls, stage[c] \in Busy, NEW s \in Busy,
         stage' = [stage EXCEPT ![c] = s],
         charged' \in [Calls -> Nat], \A d \in Calls \ {c} : charged'[d] = charged[d],
         charged'[c] \in {0, 1},
         s \in {"run", "ask", "m_limited"} => charged'[c] = 0,
         s = "m_billed" => charged'[c] = 1,
         UNCHANGED <<callerVars, toCallee, toCaller, dispatchQueue, activeDispatches,
                     calleeClosed, calleeAlive>>
  PROVE  IInv'
  <1>1. TypeOK /\ ExactlyOneAnswer /\ Placement /\ Billing /\ Windows
    BY DEF IInv
  <1>2. UNCHANGED <<asked, pending, sendQueue, activeSends, callerClosed, answers>>
    BY DEF callerVars
  <1>3. stage'[c] = s /\ \A d \in Calls \ {c} : stage'[d] = stage[d]
    BY <1>1 DEF TypeOK
  <1>4. "none" \notin Busy /\ "done" \notin Busy
    BY DEF Busy, Replying
  <1>5. TypeOK'
    <2>1. stage' \in [Calls -> Stages]
      BY <1>1 DEF TypeOK, Stages
    <2> QED BY <2>1, <1>1, <1>2 DEF TypeOK
  <1>6. ExactlyOneAnswer'
    BY <1>1, <1>2 DEF ExactlyOneAnswer
  <1>7. Placement'
    <2>1. \A d \in Elems(sendQueue) \cup Elems(toCallee) \cup Elems(dispatchQueue) :
             d \in Calls /\ stage[d] = "none"
      BY <1>1 DEF Placement, TypeOK
    <2>2. \A d \in Elems(sendQueue) \cup Elems(toCallee) \cup Elems(dispatchQueue) :
             stage'[d] = "none"
      BY <2>1, <1>3, <1>4
    <2>3. \A d \in Calls \ asked : stage'[d] = "none"
      BY <1>1, <1>3, <1>4 DEF Placement
    <2> QED BY <2>2, <2>3, <1>1, <1>2 DEF Placement
  <1>8. Billing'
    <2>1. ASSUME NEW d \in Calls
          PROVE  /\ charged'[d] \in {0, 1}
                 /\ stage'[d] \in {"none", "run", "ask", "m_limited"} => charged'[d] = 0
                 /\ stage'[d] = "m_billed" => charged'[d] = 1
                 /\ answers[d] # <<>> =>
                      /\ BillFits(answers[d][1], charged'[d])
                      /\ answers[d][1] \notin {"timeout", "gone"} => stage'[d] = "done"
      <3>1. CASE d = c
        <4>1. answers[c] # <<>> => answers[c][1] \in {"timeout", "gone"}
          BY <1>1, <1>4 DEF Billing
        <4>2. answers[c] # <<>> => BillFits(answers[c][1], charged'[c])
          BY <4>1 DEF BillFits, Refused
        <4> QED BY <4>1, <4>2, <3>1, <1>3, <1>4
      <3>2. CASE d # c
        BY <3>2, <1>1, <1>3 DEF Billing
      <3> QED BY <3>1, <3>2
    <2>2. ASSUME NEW m \in Elems(toCaller)
          PROVE  stage'[m.id] = "done" /\ BillFits(m.out, charged'[m.id])
      <3>1. m.id \in Calls /\ m.id # c
        BY <1>1, <1>4, RepliesAreCalls DEF Billing
      <3> QED BY <3>1, <1>1, <1>3 DEF Billing
    <2> QED BY <2>1, <2>2, <1>2 DEF Billing
  <1>9. Windows'
    <2>1. Serving' = Serving
      BY <1>3 DEF Serving
    <2>2. DispatchWindow'
      BY <2>1, <1>1 DEF Windows, DispatchWindow
    <2>3. SendWindow' /\ NoIdleSlot'
      BY <1>1, <1>2 DEF Windows, SendWindow, NoIdleSlot
    <2> QED BY <2>2, <2>3, <1>1, <1>2 DEF Windows
  <1> QED BY <1>5, <1>6, <1>7, <1>8, <1>9 DEF IInv

\* The callee's side of one hop.
LEMMA ServeKeeps ==
  ASSUME IInv, NEW c \in Calls, Serve(c)
  PROVE  IInv'
  <1>1. TypeOK /\ Billing
    BY DEF IInv
  <1>2. stage[c] \in {"run", "ask", "m_limited"} => charged[c] = 0
    BY <1>1 DEF Billing
  <1>3. CASE ActionFails(c)
    <2>1. /\ calleeAlive /\ stage[c] \in Busy /\ CompleteDispatch(c, "failed")
          /\ BillFits("failed", charged[c]) /\ "failed" \in Outcomes
      BY <1>2, <1>3 DEF ActionFails, Busy, BillFits, Outcomes
    <2> QED BY <2>1, CompleteStep
  <1>4. CASE ActionUnbillable(c)
    <2>1. /\ calleeAlive /\ stage[c] \in Busy /\ CompleteDispatch(c, "identity_unresolved")
          /\ BillFits("identity_unresolved", charged[c]) /\ "identity_unresolved" \in Outcomes
      BY <1>2, <1>4 DEF ActionUnbillable, Busy, BillFits, Outcomes
    <2> QED BY <2>1, CompleteStep
  <1>5. CASE ActionSucceeds(c)
    <2>1. /\ stage[c] = "run" /\ stage' = [stage EXCEPT ![c] = "ask"] /\ charged' = charged
          /\ UNCHANGED <<callerVars, toCallee, toCaller, dispatchQueue, activeDispatches,
                         calleeClosed, calleeAlive>>
      BY <1>5 DEF ActionSucceeds
    <2>2. "ask" \in Busy /\ stage[c] \in Busy /\ charged[c] = 0
      BY <2>1, <1>2 DEF Busy
    <2>3. charged' \in [Calls -> Nat] /\ charged'[c] \in {0, 1} /\ charged'[c] = 0
      BY <2>1, <2>2, <1>1 DEF TypeOK
    <2> QED BY <2>1, <2>2, <2>3, ServeStep
  <1>6. CASE HandleMeteringRequest(c)
    <2>1. /\ stage[c] = "ask"
          /\ UNCHANGED <<callerVars, toCallee, toCaller, dispatchQueue, activeDispatches,
                         calleeClosed, calleeAlive>>
      BY <1>6 DEF HandleMeteringRequest
    <2>2. charged[c] = 0 /\ stage[c] \in Busy /\ Replying \subseteq Busy
      BY <2>1, <1>2 DEF Busy
    <2>3. PICK s \in Replying :
             /\ stage' = [stage EXCEPT ![c] = s]
             /\ \/ s # "m_billed" /\ charged' = charged
                \/ s # "m_limited" /\ charged' = [charged EXCEPT ![c] = @ + 1]
      BY <1>6 DEF HandleMeteringRequest, Replying
    <2>4. /\ charged' \in [Calls -> Nat] /\ \A d \in Calls \ {c} : charged'[d] = charged[d]
          /\ charged'[c] \in {0, 1}
          /\ s = "m_limited" => charged'[c] = 0
          /\ s = "m_billed" => charged'[c] = 1
      <3>1. charged \in [Calls -> Nat]
        BY <1>1 DEF TypeOK
      <3>2. CASE s # "m_billed" /\ charged' = charged
        BY <3>1, <3>2, <2>2
      <3>3. CASE s # "m_limited" /\ charged' = [charged EXCEPT ![c] = @ + 1]
        <4>1. charged'[c] = 1 /\ \A d \in Calls \ {c} : charged'[d] = charged[d]
          BY <3>1, <3>3, <2>2
        <4>2. charged' \in [Calls -> Nat]
          BY <3>1, <3>3
        <4> QED BY <4>1, <4>2, <3>3
      <3> QED BY <3>2, <3>3, <2>3
    <2>5. s \in Busy /\ s \notin {"run", "ask"}
      BY <2>2 DEF Replying
    <2> QED BY <2>1, <2>2, <2>3, <2>4, <2>5, ServeStep
  <1>7. CASE FinishMeteredHop(c)
    <2>1. /\ calleeAlive /\ stage[c] \in Replying /\ stage[c] \in Busy
          /\ CompleteDispatch(c, MeteredOutcome(stage[c]))
      BY <1>7 DEF FinishMeteredHop, Busy
    <2>2. \/ stage[c] = "m_billed" /\ MeteredOutcome(stage[c]) = "billed"
          \/ stage[c] = "m_unbilled" /\ MeteredOutcome(stage[c]) = "unbilled"
          \/ stage[c] = "m_limited" /\ MeteredOutcome(stage[c]) = "rate_limited"
      BY <2>1 DEF Replying, MeteredOutcome
    <2>3. /\ MeteredOutcome(stage[c]) \in Outcomes
          /\ BillFits(MeteredOutcome(stage[c]), charged[c])
      BY <2>2, <1>1 DEF Billing, BillFits, Refused, Outcomes
    <2> QED BY <2>1, <2>3, CompleteStep
  <1> QED BY <1>3, <1>4, <1>5, <1>6, <1>7 DEF Serve

\* The callee's end closes, and the hops it serves run on.
LEMMA CalleeInvalidatedStep ==
  ASSUME IInv, CalleeInvalidated
  PROVE  IInv'
  <1>1. TypeOK /\ ExactlyOneAnswer /\ Placement /\ Billing /\ Windows
    BY DEF IInv
  <1>2. /\ calleeClosed' = TRUE /\ dispatchQueue' = <<>> /\ toCallee' = <<>>
        /\ UNCHANGED <<callerVars, toCaller, activeDispatches, calleeAlive, stage, charged>>
    BY DEF CalleeInvalidated, CloseCalleeEnd
  <1>3. UNCHANGED <<asked, pending, sendQueue, activeSends, callerClosed, answers>>
    BY <1>2 DEF callerVars
  <1>4. TypeOK'
    <2>1. dispatchQueue' \in Seq(Calls) /\ toCallee' \in Seq(Calls)
      BY <1>2, EmptySeq
    <2> QED BY <2>1, <1>1, <1>2, <1>3 DEF TypeOK
  <1>5. ExactlyOneAnswer'
    BY <1>1, <1>3 DEF ExactlyOneAnswer
  <1>6. Placement'
    BY <1>1, <1>2, <1>3, EmptyFacts DEF Placement
  <1>7. Billing'
    BY <1>1, <1>2, <1>3 DEF Billing
  <1>8. Windows'
    <2>1. DispatchWindow'
      BY <1>1, <1>2 DEF Windows, DispatchWindow, Serving
    <2>2. SendWindow' /\ NoIdleSlot'
      BY <1>1, <1>2, <1>3 DEF Windows, SendWindow, NoIdleSlot
    <2> QED BY <2>1, <2>2, <1>1, <1>2, <1>3 DEF Windows
  <1> QED BY <1>4, <1>5, <1>6, <1>7, <1>8 DEF IInv

\* The callee's worker exits.
LEMMA CalleeExitsStep ==
  ASSUME IInv, CalleeExits
  PROVE  IInv'
  <1>1. TypeOK /\ ExactlyOneAnswer /\ Placement /\ Billing /\ Windows
    BY DEF IInv
  <1>2. /\ calleeAlive' = FALSE /\ calleeClosed' = TRUE /\ dispatchQueue' = <<>>
        /\ toCallee' = <<>> /\ UNCHANGED <<callerVars, toCaller, activeDispatches, charged>>
        /\ stage' = [c \in Calls |-> IF stage[c] = "run" THEN "done" ELSE stage[c]]
    BY DEF CalleeExits
  <1>3. UNCHANGED <<asked, pending, sendQueue, activeSends, callerClosed, answers>>
    BY <1>2 DEF callerVars
  <1>4. \A d \in Calls : stage'[d] = IF stage[d] = "run" THEN "done" ELSE stage[d]
    BY <1>2
  <1>5. TypeOK'
    <2>1. dispatchQueue' \in Seq(Calls) /\ toCallee' \in Seq(Calls)
      BY <1>2, EmptySeq
    <2>2. stage' \in [Calls -> Stages]
      BY <1>1, <1>2 DEF TypeOK, Stages
    <2>3. calleeAlive' \in BOOLEAN /\ calleeClosed' \in BOOLEAN
      BY <1>2, Zenon
    <2> QED BY <2>1, <2>2, <2>3, <1>1, <1>2, <1>3 DEF TypeOK
  <1>6. ExactlyOneAnswer'
    BY <1>1, <1>3 DEF ExactlyOneAnswer
  <1>7. Placement'
    <2>1. \A d \in Elems(sendQueue) : d \in Calls /\ stage[d] = "none"
      BY <1>1 DEF Placement, TypeOK
    <2>2. \A d \in Elems(sendQueue) \cup (Calls \ asked) : stage'[d] = "none"
      BY <2>1, <1>1, <1>4 DEF Placement
    <2> QED BY <2>2, <1>1, <1>2, <1>3, EmptyFacts DEF Placement
  <1>8. Billing'
    <2>1. \A d \in Calls : stage[d] = "done" => stage'[d] = "done"
      BY <1>4
    <2>2. \A d \in Calls : stage'[d] # "done" => stage'[d] = stage[d]
      BY <1>4
    <2>3. \A d \in Calls :
            /\ stage'[d] \in {"none", "run", "ask", "m_limited"} => charged[d] = 0
            /\ stage'[d] = "m_billed" => charged[d] = 1
      BY <2>2, <1>1 DEF Billing
    <2> QED BY <2>1, <2>3, <1>1, <1>2, <1>3, RepliesAreCalls DEF Billing
  <1>9. Windows'
    <2>1. DispatchWindow'
      BY <1>1, <1>2 DEF Windows, DispatchWindow
    <2>2. SendWindow' /\ NoIdleSlot'
      BY <1>1, <1>2, <1>3 DEF Windows, SendWindow, NoIdleSlot
    <2> QED BY <2>1, <2>2, <1>1, <1>2, <1>3 DEF Windows
  <1> QED BY <1>5, <1>6, <1>7, <1>8, <1>9 DEF IInv

(***************************************************************************)
(* The theorems.                                                           *)
(***************************************************************************)

\* Every step keeps the invariant, one case per action of Next.
LEMMA NextIInv == IInv /\ [Next]_vars => IInv'
  <1> SUFFICES ASSUME IInv, [Next]_vars PROVE IInv'
    OBVIOUS
  <1>1. ASSUME NEW c \in Calls, Invoke(c) PROVE IInv'
    BY <1>1, InvokeStep
  <1>2. ASSUME NEW c \in Calls, TimerFires(c) PROVE IInv'
    BY <1>2, TimerStep
  <1>3. ASSUME NEW c \in Calls, Serve(c) PROVE IInv'
    BY <1>3, ServeKeeps
  <1>4. CASE HandleReply
    BY <1>4, HandleReplyStep
  <1>5. CASE CallerInvalidated \/ CallerPortClose
    BY <1>5, CloseCallerStep DEF CallerInvalidated, CallerPortClose
  <1>6. CASE HandleInvoke
    BY <1>6, HandleInvokeStep
  <1>7. CASE CalleeInvalidated \/ CalleePortClose
    BY <1>7, CalleeInvalidatedStep DEF CalleePortClose
  <1>8. CASE CalleeExits
    BY <1>8, CalleeExitsStep
  <1>9. CASE UNCHANGED vars
    <2>1. UNCHANGED <<asked, pending, sendQueue, activeSends, callerClosed, answers, toCallee,
                      toCaller, dispatchQueue, activeDispatches, calleeClosed, calleeAlive,
                      stage, charged>>
      BY <1>9 DEF vars, callerVars, calleeVars
    <2>2. TypeOK' /\ ExactlyOneAnswer' /\ Placement' /\ Billing'
      BY <2>1 DEF IInv, TypeOK, ExactlyOneAnswer, Placement, Billing
    <2>3. Windows'
      BY <2>1 DEF IInv, Windows, SendWindow, DispatchWindow, NoIdleSlot, Serving
    <2> QED BY <2>2, <2>3 DEF IInv
  <1> QED BY <1>1, <1>2, <1>3, <1>4, <1>5, <1>6, <1>7, <1>8, <1>9 DEF Next

\* The inductive invariant holds in every reachable state of a channel.
THEOREM Invariance == Spec => []IInv
  BY InitIInv, NextIInv, PTL DEF Spec

\* Every variable keeps the shape lib/peer-channel.js gives it; in particular no
\* counter goes below zero.
THEOREM TypeCorrect == Spec => []TypeOK
  BY Invariance, PTL DEF IInv

\* Reply, timer, invalidate and close never answer a call twice, and a call that
\* has stopped waiting was answered.
THEOREM AnswersOnce == Spec => []ExactlyOneAnswer
  BY Invariance, PTL DEF IInv

\* The slot counters of both ends are exactly the requests they stand for, stay
\* within maxConcurrentInvokes, and leave no request queued beside a free slot.
THEOREM WindowsKept == Spec => []WindowsExact
  <1>1. IInv => WindowsExact
    BY DEF IInv, Windows, WindowsExact
  <1> QED BY <1>1, Invariance, PTL

\* No call waits in sendQueue after its caller gave up.
THEOREM QueueAwaited == Spec => []QueuedIsAwaited
  <1>1. IInv => QueuedIsAwaited
    BY DEF IInv, Placement, QueuedIsAwaited, Once, Elems
  <1> QED BY <1>1, Invariance, PTL

\* A hop is charged at most once, and its answer tells the truth about it.
THEOREM BillsRight == Spec => []BillMatchesAnswer
  <1>1. IInv => BillMatchesAnswer
    <2> SUFFICES ASSUME IInv, NEW c \in Calls
                 PROVE  /\ charged[c] <= 1
                        /\ answers[c] # <<>> => BillFits(answers[c][1], charged[c])
      BY DEF BillMatchesAnswer, BillFits, Refused
    <2>1. charged[c] \in {0, 1} /\ (answers[c] # <<>> => BillFits(answers[c][1], charged[c]))
      BY DEF IInv, Billing
    <2> QED BY <2>1
  <1> QED BY <1>1, Invariance, PTL

(***************************************************************************)
(* The callee's queue under the caller's window.                           *)
(***************************************************************************)

\* What is at the callee's end never exceeds the caller's window, even after the
\* caller's end has closed and stopped counting.
Incoming ==
  /\ calleeClosed => dispatchQueue = <<>>
  /\ ~calleeClosed => Len(toCallee) + Len(dispatchQueue) + activeDispatches <= MaxSends

\* A reply leaves no more at the callee's end than there was.
LEMMA ReplyIncoming ==
  ASSUME IInv, Incoming, NEW c \in Calls, NEW o \in Outcomes, NEW taken \in Nat,
         taken < MaxDispatches, Reply(c, o, taken), calleeClosed' = calleeClosed,
         Len(toCallee') \in Nat, taken <= activeDispatches, activeDispatches' \in Nat,
         ~calleeClosed => Len(toCallee') <= Len(toCallee)
  PROVE  Incoming'
  <1>1. TypeOK /\ Placement
    BY DEF IInv
  <1>2. PICK R, T \in SUBSET Elems(dispatchQueue) : ReplyLeaves(c, o, taken, R, T)
    BY <1>1, ReplyEffect
  <1>3. /\ Len(dispatchQueue') \in Nat /\ Len(dispatchQueue) \in Nat /\ Len(toCallee) \in Nat
        /\ activeDispatches \in Nat
    BY <1>1, <1>2, LenProperties DEF TypeOK, ReplyLeaves
  <1>4. Len(dispatchQueue') + activeDispatches' <= Len(dispatchQueue) + taken
    BY <1>2 DEF ReplyLeaves
  <1>5. CASE calleeClosed
    BY <1>2, <1>5 DEF Incoming, ReplyLeaves
  <1>6. CASE ~calleeClosed
    <2>1. Len(toCallee) + Len(dispatchQueue) + activeDispatches <= MaxSends
      BY <1>6 DEF Incoming
    <2>2. Len(toCallee') + Len(dispatchQueue') + activeDispatches' <= MaxSends
      BY <2>1, <1>3, <1>4, <1>6, MaxAssumption
    <2> QED BY <2>2, <1>6 DEF Incoming
  <1> QED BY <1>5, <1>6

\* Every step keeps it; with both ends open it is the caller's own window.
LEMMA NextIncoming == IInv /\ IInv' /\ Incoming /\ [Next]_vars => Incoming'
  <1> SUFFICES ASSUME IInv, IInv', Incoming, [Next]_vars PROVE Incoming'
    OBVIOUS
  <1>1. /\ TypeOK /\ Windows /\ TypeOK' /\ Windows'
    BY DEF IInv
  <1>2. /\ Len(toCallee') \in Nat /\ Len(dispatchQueue') \in Nat /\ Len(toCaller') \in Nat
        /\ activeDispatches' \in Nat /\ activeSends' \in Nat
        /\ Len(toCallee) \in Nat /\ Len(dispatchQueue) \in Nat /\ activeDispatches \in Nat
    BY <1>1, LenProperties DEF TypeOK
  <1>3. CASE ~callerClosed' /\ ~calleeClosed'
    <2>1. /\ activeSends' <= MaxSends
          /\ activeSends' = Len(toCallee') + Len(dispatchQueue') + activeDispatches'
                            + Len(toCaller')
      BY <1>1, <1>3 DEF Windows, SendWindow
    <2>2. Len(toCallee') + Len(dispatchQueue') + activeDispatches' <= MaxSends
      BY <2>1, <1>2, MaxAssumption
    <2> QED BY <2>2, <1>3 DEF Incoming
  <1>4. ASSUME UNCHANGED <<dispatchQueue, activeDispatches, calleeClosed>>,
               toCallee' = toCallee \/ calleeClosed
        PROVE  Incoming'
    BY <1>4 DEF Incoming
  <1>5. ASSUME NEW c \in Calls, Invoke(c) PROVE Incoming'
    <2>1. CASE callerClosed \/ calleeClosed
      <3>1. toCallee' = toCallee \/ calleeClosed
        BY <2>1, <1>5 DEF Invoke, PostInvokes
      <3> QED BY <3>1, <1>4, <1>5 DEF Invoke, calleeVars
    <2>2. CASE ~callerClosed /\ ~calleeClosed
      BY <2>2, <1>3, <1>5 DEF Invoke, calleeVars
    <2> QED BY <2>1, <2>2
  <1>6. CASE HandleReply
    <2>1. ~callerClosed' /\ calleeClosed' = calleeClosed /\ dispatchQueue' = dispatchQueue
      BY <1>6 DEF HandleReply, calleeVars
    <2> QED BY <2>1, <1>3 DEF Incoming
  <1>7. ASSUME NEW c \in Calls, NEW o \in Outcomes, calleeAlive, stage[c] \in Busy,
               CompleteDispatch(c, o)
        PROVE  Incoming'
    <2>1. /\ Reply(c, o, activeDispatches - 1) /\ toCallee' = toCallee
          /\ calleeClosed' = calleeClosed
      BY <1>7 DEF CompleteDispatch
    <2>2. activeDispatches = Cardinality(Serving) /\ activeDispatches <= MaxDispatches
      BY <1>1, <1>7 DEF Windows, DispatchWindow
    <2>3. activeDispatches # 0
      <3>1. c \in Serving
        BY <1>7 DEF Serving
      <3> QED BY <3>1, <2>2, ServingFacts, FS_EmptySet
    <2>4. /\ activeDispatches - 1 \in Nat /\ activeDispatches - 1 < MaxDispatches
          /\ activeDispatches - 1 <= activeDispatches /\ Len(toCallee') <= Len(toCallee)
      BY <2>1, <2>2, <2>3, <1>2, MaxAssumption
    <2> QED BY <2>1, <2>4, <1>2, ReplyIncoming
  <1>8. ASSUME NEW c \in Calls, Serve(c) PROVE Incoming'
    <2>1. CASE ActionFails(c)
      BY <2>1, <1>7 DEF ActionFails, Busy, Outcomes
    <2>2. CASE ActionUnbillable(c)
      BY <2>2, <1>7 DEF ActionUnbillable, Busy, Outcomes
    <2>3. CASE ActionSucceeds(c) \/ HandleMeteringRequest(c)
      BY <2>3, <1>4 DEF ActionSucceeds, HandleMeteringRequest
    <2>4. CASE FinishMeteredHop(c)
      <3>1. /\ calleeAlive /\ stage[c] \in Busy /\ MeteredOutcome(stage[c]) \in Outcomes
            /\ CompleteDispatch(c, MeteredOutcome(stage[c]))
        BY <2>4 DEF FinishMeteredHop, Busy, Replying, MeteredOutcome, Outcomes
      <3> QED BY <3>1, <1>7
    <2> QED BY <2>1, <2>2, <2>3, <2>4, <1>8 DEF Serve
  <1>9. CASE HandleInvoke
    <2> DEFINE c == Head(toCallee)
    <2>1. ~calleeClosed /\ toCallee # <<>> /\ toCallee' = Tail(toCallee)
          /\ calleeClosed' = calleeClosed
      BY <1>9 DEF HandleInvoke
    <2>2. c \in Calls /\ Len(toCallee') = Len(toCallee) - 1
      BY <2>1, <1>1, TailFacts DEF TypeOK
    <2>3. Len(toCallee) + Len(dispatchQueue) + activeDispatches <= MaxSends
      BY <2>1 DEF Incoming
    <2>4. \/ /\ dispatchQueue' = Append(dispatchQueue, c) /\ activeDispatches' = activeDispatches
          \/ /\ dispatchQueue' = dispatchQueue /\ activeDispatches' = activeDispatches + 1
          \/ /\ activeDispatches < MaxDispatches /\ Reply(c, "not_granted", activeDispatches)
      BY <1>9 DEF HandleInvoke
    <2> HIDE DEF c
    <2>5. CASE dispatchQueue' = Append(dispatchQueue, c) /\ activeDispatches' = activeDispatches
      <3>1. Len(dispatchQueue') = Len(dispatchQueue) + 1
        BY <2>2, <2>5, <1>1, AppendFacts DEF TypeOK
      <3>2. Len(toCallee') + Len(dispatchQueue') + activeDispatches' <= MaxSends
        BY <3>1, <2>2, <2>3, <2>5, <1>2, MaxAssumption
      <3> QED BY <3>2, <2>1 DEF Incoming
    <2>6. CASE dispatchQueue' = dispatchQueue /\ activeDispatches' = activeDispatches + 1
      <3>1. Len(toCallee') + Len(dispatchQueue') + activeDispatches' <= MaxSends
        BY <2>2, <2>3, <2>6, <1>2, MaxAssumption
      <3> QED BY <3>1, <2>1 DEF Incoming
    <2>7. CASE activeDispatches < MaxDispatches /\ Reply(c, "not_granted", activeDispatches)
      <3>1. "not_granted" \in Outcomes /\ Len(toCallee') <= Len(toCallee)
            /\ activeDispatches <= activeDispatches
        BY <2>2, <1>2 DEF Outcomes
      <3> QED BY <3>1, <2>1, <2>2, <2>7, <1>2, ReplyIncoming
    <2> QED BY <2>4, <2>5, <2>6, <2>7
  <1>10. CASE CalleeInvalidated \/ CalleePortClose \/ CalleeExits
    <2>1. calleeClosed' = TRUE /\ dispatchQueue' = <<>>
      BY <1>10 DEF CalleePortClose, CalleeInvalidated, CloseCalleeEnd, CalleeExits
    <2> QED BY <2>1 DEF Incoming
  <1>11. CASE \/ \E c \in Calls : TimerFires(c)
              \/ CallerInvalidated \/ CallerPortClose \/ UNCHANGED vars
    <2>1. UNCHANGED <<dispatchQueue, activeDispatches, calleeClosed, toCallee>>
      BY <1>11 DEF TimerFires, CallerInvalidated, CallerPortClose, CloseCallerEnd, vars,
                   calleeVars
    <2> QED BY <2>1, <1>4
  <1> QED BY <1>5, <1>6, <1>8, <1>9, <1>10, <1>11 DEF Next

\* The callee's queue is bounded by the difference of the two caps; with the same
\* cap at both ends it is never used.
THEOREM CallerWindowSuffices == Spec => []SendWindowSuffices
  <1>1. Init => Incoming
    BY EmptyFacts, MaxAssumption DEF Init, Incoming
  <1>2. IInv /\ Incoming => SendWindowSuffices
    <2> SUFFICES ASSUME IInv, Incoming, dispatchQueue # <<>>
                 PROVE  Len(dispatchQueue) + MaxDispatches <= MaxSends
      BY DEF SendWindowSuffices
    <2>1. /\ Len(toCallee) \in Nat /\ Len(dispatchQueue) \in Nat
          /\ activeDispatches = MaxDispatches
      BY LenProperties DEF IInv, TypeOK, Windows, NoIdleSlot
    <2>2. Len(toCallee) + Len(dispatchQueue) + activeDispatches <= MaxSends
      BY DEF Incoming
    <2> QED BY <2>1, <2>2, MaxAssumption
  <1> QED BY <1>1, <1>2, NextIncoming, Invariance, PTL DEF Spec

(***************************************************************************)
(* A fact about steps: no request its caller gave up on is sent.           *)
(***************************************************************************)

\* A request goes out only while its caller waits for it.
LEMMA StaleStep ==
  ASSUME IInv, [Next]_vars, NEW i \in DOMAIN toCallee',
         \A j \in DOMAIN toCallee : toCallee[j] # toCallee'[i]
  PROVE  toCallee'[i] \in pending \cup (asked' \ asked)
  <1>1. TypeOK /\ Placement
    BY DEF IInv
  <1>2. toCallee'[i] \in Elems(toCallee') /\ toCallee'[i] \notin Elems(toCallee)
    BY DEF Elems
  <1>3. Elems(<<>>) = {}
    BY EmptyFacts
  <1>4. ASSUME NEW c \in Calls, Invoke(c) PROVE toCallee'[i] \in asked' \ asked
    <2>1. c \in asked' \ asked /\ (PostInvokes(<<c>>) \/ UNCHANGED toCallee)
      BY <1>4 DEF Invoke
    <2>2. c \notin Elems(toCallee)
      BY <2>1, <1>1 DEF Placement
    <2>3. CASE PostInvokes(<<c>>)
      BY <2>1, <2>2, <2>3, <1>1, <1>2, PostInvokeFacts
    <2>4. CASE UNCHANGED toCallee
      BY <2>4, <1>2
    <2> QED BY <2>1, <2>3, <2>4
  <1>5. ASSUME HandleReply PROVE toCallee'[i] \in pending
    <2>1. \/ UNCHANGED toCallee
          \/ sendQueue # <<>> /\ PostInvokes(<<Head(sendQueue)>>)
      BY <1>5, DrainFacts
    <2>2. CASE sendQueue # <<>> /\ PostInvokes(<<Head(sendQueue)>>)
      <3>1. Head(sendQueue) \in Calls /\ Head(sendQueue) \in Elems(sendQueue)
        BY <2>2, <1>1, TailFacts DEF TypeOK
      <3>2. Head(sendQueue) \in pending /\ Head(sendQueue) \notin Elems(toCallee)
        BY <3>1, <1>1 DEF Placement
      <3>3. Elems(toCallee') \subseteq Elems(toCallee) \cup {Head(sendQueue)}
        BY <3>1, <3>2, <2>2, <1>1, PostInvokeFacts
      <3> QED BY <3>2, <3>3, <1>2
    <2> QED BY <2>1, <2>2, <1>2
  <1>6. ASSUME HandleInvoke PROVE FALSE
    <2>1. toCallee # <<>> /\ toCallee' = Tail(toCallee)
      BY <1>6 DEF HandleInvoke
    <2>2. Elems(toCallee') \subseteq Elems(toCallee)
      BY <2>1, <1>1, TailFacts DEF TypeOK
    <2> QED BY <2>2, <1>2
  <1>7. ASSUME CalleeInvalidated \/ CalleePortClose \/ CalleeExits PROVE FALSE
    <2>1. toCallee' = <<>>
      BY <1>7 DEF CalleePortClose, CalleeInvalidated, CloseCalleeEnd, CalleeExits
    <2> QED BY <2>1, <1>2, <1>3
  <1>8. ASSUME \/ \E c \in Calls : TimerFires(c) \/ Serve(c)
               \/ CallerInvalidated \/ CallerPortClose \/ UNCHANGED vars
        PROVE  FALSE
    <2>1. toCallee' = toCallee
      BY <1>8 DEF TimerFires, Serve, ActionFails, ActionUnbillable, ActionSucceeds,
                  HandleMeteringRequest, FinishMeteredHop, CompleteDispatch,
                  CallerInvalidated, CallerPortClose, CloseCallerEnd, vars
    <2> QED BY <2>1, <1>2
  <1> QED BY <1>4, <1>5, <1>6, <1>7, <1>8 DEF Next

\* Nothing stale is ever put on the wire.
THEOREM StaleStaysHome == Spec => StaleNeverSent
  <1>1. IInv /\ [Next]_vars =>
          [\A i \in DOMAIN toCallee' :
             (\A j \in DOMAIN toCallee : toCallee[j] # toCallee'[i])
             => toCallee'[i] \in pending \cup (asked' \ asked)]_vars
    BY StaleStep
  <1> QED BY <1>1, Invariance, PTL DEF Spec, StaleNeverSent

(***************************************************************************)
(* Refinement.                                                             *)
(***************************************************************************)

\* The abstract status, as the refinement mapping gives it.
Status == [c \in Calls |-> IF answers[c] # <<>> THEN answers[c][1]
                           ELSE IF c \in asked THEN "waiting" ELSE "idle"]

\* The two ends of a new channel are the contract's initial state.
LEMMA InitRefines == Init => Contract!Init
  BY DEF Init, Contract!Init

\* A step that fires no callback, makes no call and charges nobody stutters.
LEMMA Stutters ==
  ASSUME UNCHANGED <<asked, answers, charged>>
  PROVE  UNCHANGED Contract!contractVars
  BY DEF Contract!contractVars

\* A step that fires callbacks only is an answer.
LEMMA AnswerRefines ==
  ASSUME TypeOK, ExactlyOneAnswer, UNCHANGED <<asked, charged>>,
         answers' \in [Calls -> Seq(Outcomes)],
         \A d \in Calls : \/ answers'[d] = answers[d]
                          \/ /\ d \in pending /\ answers[d] = <<>> /\ answers'[d] # <<>>
                             /\ BillFits(answers'[d][1], charged[d])
  PROVE  Contract!Answer
  <1>1. \A d \in Calls : answers'[d] # <<>> => answers'[d][1] \in Outcomes
    <2> SUFFICES ASSUME NEW d \in Calls, answers'[d] # <<>> PROVE answers'[d][1] \in Outcomes
      OBVIOUS
    <2>1. answers'[d] \in Seq(Outcomes) /\ Len(answers'[d]) \in Nat \ {0}
      BY EmptySeq
    <2> QED BY <2>1, ElementOfSeq
  <1>2. \A d \in Calls : Status'[d] = IF answers'[d] # <<>> THEN answers'[d][1]
                                      ELSE IF d \in asked THEN "waiting" ELSE "idle"
    BY DEF Status
  <1>3. Contract!Outcomes = Outcomes
    BY DEF Contract!Outcomes, Contract!Billed, Contract!Unbilled, Contract!Refusals,
           Contract!GaveUp, Outcomes
  <1>4. Status' \in [Calls -> {"idle", "waiting"} \cup Outcomes]
    BY <1>1, <1>2 DEF Status
  <1>5. ASSUME NEW d \in Calls, Status'[d] # Status[d]
        PROVE  /\ Status[d] = "waiting" /\ Status'[d] \in Outcomes
               /\ Contract!Consistent(Status'[d], charged[d])
    <2>1. /\ d \in pending /\ answers[d] = <<>> /\ answers'[d] # <<>>
          /\ BillFits(answers'[d][1], charged[d])
      BY <1>2, <1>5 DEF Status
    <2>2. d \in asked /\ Status[d] = "waiting" /\ Status'[d] = answers'[d][1]
      BY <2>1, <1>2 DEF Status, TypeOK
    <2> QED BY <2>1, <2>2, <1>1
            DEF BillFits, Refused, Contract!Consistent, Contract!Billed, Contract!Refusals
  <1> QED BY <1>3, <1>4, <1>5 DEF Contract!Answer, Status

\* invoke() asks, and on a closed channel is answered on the spot.
LEMMA InvokeRefines ==
  ASSUME IInv, NEW c \in Calls, Invoke(c)
  PROVE  Contract!Ask(c)
  <1>1. TypeOK /\ ExactlyOneAnswer
    BY DEF IInv
  <1>2. c \notin asked /\ asked' = asked \cup {c} /\ charged' = charged
    BY DEF Invoke
  <1>3. answers[c] = <<>>
    BY <1>1, <1>2, ElemsFacts DEF ExactlyOneAnswer, TypeOK
  <1>4. Status[c] = "idle"
    BY <1>2, <1>3 DEF Status
  <1>5. CASE callerClosed
    <2>1. Callback(c, "gone") /\ "gone" \in Outcomes
      BY <1>5 DEF Invoke, Outcomes
    <2>2. /\ answers'[c] # <<>> /\ answers'[c][1] = "gone"
          /\ \A d \in Calls \ {c} : answers'[d] = answers[d]
      BY <2>1, <1>1, <1>2, CallbackFacts
    <2>3. Status' = [Status EXCEPT ![c] = "gone"]
      BY <2>2, <1>2 DEF Status
    <2> QED BY <2>3, <1>2, <1>4 DEF Contract!Ask, Contract!GaveUp, Status
  <1>6. CASE ~callerClosed
    <2>1. answers' = answers
      BY <1>6 DEF Invoke
    <2>2. Status' = [Status EXCEPT ![c] = "waiting"]
      BY <2>1, <1>2, <1>3 DEF Status
    <2> QED BY <2>2, <1>2, <1>4 DEF Contract!Ask, Status
  <1> QED BY <1>5, <1>6

\* The metering request charges a hop that is awaited or was given up on.
LEMMA MeteringRefines ==
  ASSUME IInv, NEW c \in Calls, HandleMeteringRequest(c)
  PROVE  Contract!Charge(c) \/ UNCHANGED Contract!contractVars
  <1>1. TypeOK /\ Billing /\ Placement /\ stage[c] = "ask" /\ UNCHANGED <<asked, answers>>
    BY DEF IInv, HandleMeteringRequest, callerVars
  <1>2. charged' = charged \/ charged' = [charged EXCEPT ![c] = @ + 1]
    BY DEF HandleMeteringRequest
  <1>3. CASE charged' = charged
    BY <1>1, <1>3, Stutters
  <1>4. CASE charged' = [charged EXCEPT ![c] = @ + 1]
    <2>1. charged[c] = 0 /\ c \in asked
      BY <1>1 DEF Billing, Placement
    <2>2. answers[c] # <<>> => answers[c][1] \in {"timeout", "gone"}
      BY <1>1 DEF Billing
    <2>3. Status[c] \in {"waiting", "timeout", "gone"}
      BY <2>1, <2>2 DEF Status
    <2>4. charged' = [charged EXCEPT ![c] = 1] /\ Status' = Status
      BY <2>1, <1>1, <1>4 DEF TypeOK, Status
    <2> QED BY <2>1, <2>3, <2>4 DEF Contract!Charge, Contract!GaveUp, Status
  <1> QED BY <1>2, <1>3, <1>4

\* A reply that is still awaited answers with a bill that fits.
LEMMA HandleReplyRefines ==
  ASSUME IInv, HandleReply
  PROVE  Contract!Answer
  <1> DEFINE msg == Head(toCaller)
  <1>1. TypeOK /\ ExactlyOneAnswer /\ Billing /\ UNCHANGED <<asked, charged>>
    BY DEF IInv, HandleReply
  <1>2. /\ msg \in Elems(toCaller) /\ answers' \in [Calls -> Seq(Outcomes)]
        /\ \A d \in Calls : \/ answers'[d] = answers[d]
                            \/ /\ d = msg.id /\ d \in pending /\ answers[d] = <<>>
                               /\ answers'[d] # <<>> /\ answers'[d][1] = msg.out
    BY ReplyCallback
  <1> HIDE DEF msg
  <1>3. BillFits(msg.out, charged[msg.id])
    BY <1>1, <1>2 DEF Billing
  <1>4. \A d \in Calls : \/ answers'[d] = answers[d]
                         \/ /\ d \in pending /\ answers[d] = <<>> /\ answers'[d] # <<>>
                            /\ BillFits(answers'[d][1], charged[d])
    BY <1>2, <1>3
  <1> QED BY <1>1, <1>2, <1>4, AnswerRefines

\* The timer answers the call it was started for.
LEMMA TimerRefines ==
  ASSUME IInv, NEW c \in Calls, TimerFires(c)
  PROVE  Contract!Answer
  <1>1. /\ TypeOK /\ ExactlyOneAnswer /\ c \in pending /\ Callback(c, "timeout")
        /\ "timeout" \in Outcomes /\ UNCHANGED <<asked, charged>>
    BY DEF IInv, TimerFires, Outcomes
  <1>2. /\ answers[c] = <<>> /\ answers' \in [Calls -> Seq(Outcomes)]
        /\ answers'[c] # <<>> /\ answers'[c][1] = "timeout"
        /\ \A d \in Calls \ {c} : answers'[d] = answers[d]
    BY <1>1, CallbackFacts
  <1>3. BillFits("timeout", charged[c])
    BY DEF BillFits, Refused
  <1>4. \A d \in Calls : \/ answers'[d] = answers[d]
                         \/ /\ d \in pending /\ answers[d] = <<>> /\ answers'[d] # <<>>
                            /\ BillFits(answers'[d][1], charged[d])
    BY <1>1, <1>2, <1>3
  <1> QED BY <1>1, <1>2, <1>4, AnswerRefines

\* Closing the caller's end answers everything that waits.
LEMMA CloseRefines ==
  ASSUME IInv, CloseCallerEnd
  PROVE  Contract!Answer
  <1>1. TypeOK /\ ExactlyOneAnswer /\ UNCHANGED <<asked, charged>>
    BY DEF IInv, CloseCallerEnd
  <1>2. /\ answers' \in [Calls -> Seq(Outcomes)]
        /\ \A d \in Calls : \/ answers'[d] = answers[d]
                            \/ /\ d \in pending /\ answers[d] = <<>>
                               /\ answers'[d] # <<>> /\ answers'[d][1] = "gone"
    BY <1>1, CloseAnswers
  <1>3. \A d \in Calls : BillFits("gone", charged[d])
    BY DEF BillFits, Refused
  <1>4. \A d \in Calls : \/ answers'[d] = answers[d]
                         \/ /\ d \in pending /\ answers[d] = <<>> /\ answers'[d] # <<>>
                            /\ BillFits(answers'[d][1], charged[d])
    BY <1>2, <1>3
  <1> QED BY <1>1, <1>2, <1>4, AnswerRefines

\* Every step of the channel is a step of the contract, or none of its business.
LEMMA NextRefines == IInv /\ [Next]_vars => [Contract!Next]_(Contract!contractVars)
  <1> SUFFICES ASSUME IInv, [Next]_vars
               PROVE  Contract!Next \/ UNCHANGED Contract!contractVars
    OBVIOUS
  <1>1. ASSUME NEW c \in Calls, Invoke(c) PROVE Contract!Next
    BY <1>1, InvokeRefines DEF Contract!Next
  <1>2. ASSUME NEW c \in Calls, TimerFires(c) PROVE Contract!Next
    BY <1>2, TimerRefines DEF Contract!Next
  <1>3. ASSUME NEW c \in Calls, HandleMeteringRequest(c)
        PROVE  Contract!Next \/ UNCHANGED Contract!contractVars
    BY <1>3, MeteringRefines DEF Contract!Next
  <1>4. CASE HandleReply
    BY <1>4, HandleReplyRefines DEF Contract!Next
  <1>5. CASE CallerInvalidated \/ CallerPortClose
    BY <1>5, CloseRefines DEF CallerInvalidated, CallerPortClose, Contract!Next
  <1>6. ASSUME NEW c \in Calls, ActionFails(c) \/ ActionUnbillable(c) \/ ActionSucceeds(c)
                                \/ FinishMeteredHop(c)
        PROVE  UNCHANGED Contract!contractVars
    <2>1. UNCHANGED <<asked, answers, charged>>
      BY <1>6 DEF ActionFails, ActionUnbillable, ActionSucceeds, FinishMeteredHop,
                  CompleteDispatch, callerVars
    <2> QED BY <2>1, Stutters
  <1>7. CASE HandleInvoke \/ CalleeInvalidated \/ CalleePortClose \/ CalleeExits \/ UNCHANGED vars
    <2>1. UNCHANGED <<asked, answers, charged>>
      BY <1>7 DEF HandleInvoke, CalleePortClose, CalleeInvalidated, CalleeExits, vars, callerVars
    <2> QED BY <2>1, Stutters
  <1> QED BY <1>1, <1>2, <1>3, <1>4, <1>5, <1>6, <1>7 DEF Next, Serve

\* The direct peer channel implements the contract of a hop, for every number of
\* calls and every cap.
THEOREM ChannelImplementsContract == Spec => ImplementsContract
  BY InitRefines, NextRefines, Invariance, PTL DEF Spec, ImplementsContract, Contract!Spec

-----------------------------------------------------------------------------
(* The control plane, PeerBroker.tla *)

\* A queue holds a message of one of the kinds K about device d, and one only.
Holds(q, K, d) == \E i \in DOMAIN q : q[i].kind \in K /\ q[i].dev = d
HoldsOne(q, K, d) ==
  \A i, j \in DOMAIN q :
    q[i].kind \in K /\ q[i].dev = d /\ q[j].kind \in K /\ q[j].dev = d => i = j

Ask == {"request"}
Tells == {"grant", "deny"}

\* The lookups made, and the acknowledgements awaited, for a request of w for d.
Asking(ls, w, d) == {l \in ls : l.kind # "recheck" /\ l.caller = w /\ l.dev = d}
Owing(as, w, d) == {a \in as : a[1] = w /\ a[2] = d}
Lone(S) == \A x, y \in S : x = y

\* What a request for device d has become is in one place, and the calls queued
\* for d wait for it.
OneToken(tm, ls, as, tw, d, waits) ==
  /\ HoldsOne(tm, Ask, d) /\ Lone(ls) /\ Lone(as) /\ HoldsOne(tw, Tells, d)
  /\ waits <=> (Holds(tm, Ask, d) \/ ls # {} \/ as # {} \/ Holds(tw, Tells, d))
  /\ Holds(tm, Ask, d) => ls = {} /\ as = {} /\ ~Holds(tw, Tells, d)
  /\ ls # {} => as = {} /\ ~Holds(tw, Tells, d)
  /\ as # {} => ~Holds(tw, Tells, d)

Tracked(w, d) ==
  OneToken(toMain[w], Asking(lookups, w, d), Owing(acks, w, d), toWorker[w], d,
           d \in pendingPeerInvokes[w])

\* Every request of a worker that has not exited is tracked; one not started has none.
Tracking ==
  \A w \in Workers : phase[w] \notin {"exited", "ended"} =>
    /\ \A d \in Devices : Tracked(w, d)
    /\ phase[w] = "unborn" => pendingPeerInvokes[w] = {}

\* A recheck is for a device granted on the entry it was made for.
Rechecking ==
  /\ \A p \in Pairs : registry[p] <= used
  /\ \A l \in lookups : l.kind = "recheck" => l.ch \in 1 .. used /\ l.dev \in grants[l.ch]

BrokerInv == BrokerTypeOK /\ IsFiniteSet(acks) /\ Tracking /\ Rechecking

\* A message of one of the kinds K about device d.
Fits(m, K, d) == m.kind \in K /\ m.dev = d

\* An empty port.
LEMMA HoldsEmpty ==
  ASSUME NEW K, NEW d
  PROVE  ~Holds(<<>>, K, d) /\ HoldsOne(<<>>, K, d)
  BY DEF Holds, HoldsOne

\* Posting one message.
LEMMA HoldsAppend ==
  ASSUME NEW S, NEW s \in Seq(S), NEW x \in S, NEW K, NEW d
  PROVE  /\ Append(s, x) \in Seq(S)
         /\ Holds(Append(s, x), K, d) <=> Holds(s, K, d) \/ Fits(x, K, d)
         /\ HoldsOne(s, K, d) /\ ~(Holds(s, K, d) /\ Fits(x, K, d)) => HoldsOne(Append(s, x), K, d)
  <1>1. /\ Append(s, x) \in Seq(S)
        /\ Append(s, x)[Len(s) + 1] = x
        /\ DOMAIN Append(s, x) = DOMAIN s \cup {Len(s) + 1}
        /\ \A i \in DOMAIN s : Append(s, x)[i] = s[i]
    BY AppendIndex
  <1> QED BY <1>1 DEF Holds, HoldsOne, Fits

\* Taking the first message.
LEMMA HoldsTail ==
  ASSUME NEW S, NEW s \in Seq(S), s # <<>>, NEW K, NEW d
  PROVE  /\ Tail(s) \in Seq(S) /\ Head(s) \in S
         /\ Holds(s, K, d) <=> Fits(Head(s), K, d) \/ Holds(Tail(s), K, d)
         /\ HoldsOne(s, K, d) => /\ HoldsOne(Tail(s), K, d)
                                 /\ Fits(Head(s), K, d) => ~Holds(Tail(s), K, d)
  <1> DEFINE t == Tail(s)
  <1>1. /\ t \in Seq(S) /\ 1 \in DOMAIN s /\ s[1] \in S
        /\ \A i \in DOMAIN t : /\ i \in Nat /\ i + 1 \in DOMAIN s /\ i + 1 # 1
                               /\ t[i] = s[i + 1]
        /\ \A i \in DOMAIN s : i # 1 => i \in Nat /\ i - 1 \in DOMAIN t /\ t[i - 1] = s[i]
    BY TailIndex
  <1>2. Head(s) = s[1]
    OBVIOUS
  <1> HIDE DEF t
  <1>3. \A i, j \in DOMAIN t : i + 1 = j + 1 => i = j
    BY <1>1
  <1>4. Holds(s, K, d) <=> Fits(s[1], K, d) \/ Holds(t, K, d)
    BY <1>1 DEF Holds, Fits
  <1>5. ASSUME HoldsOne(s, K, d)
        PROVE  HoldsOne(t, K, d) /\ (Fits(s[1], K, d) => ~Holds(t, K, d))
    <2>1. HoldsOne(t, K, d)
      <3> SUFFICES ASSUME NEW i \in DOMAIN t, NEW j \in DOMAIN t,
                          t[i].kind \in K /\ t[i].dev = d /\ t[j].kind \in K /\ t[j].dev = d
                   PROVE  i = j
        BY DEF HoldsOne
      <3>1. i + 1 \in DOMAIN s /\ j + 1 \in DOMAIN s /\ t[i] = s[i + 1] /\ t[j] = s[j + 1]
        BY <1>1
      <3>2. i + 1 = j + 1
        BY <1>5, <3>1 DEF HoldsOne
      <3> QED BY <1>3, <3>2
    <2>2. Fits(s[1], K, d) => ~Holds(t, K, d)
      BY <1>1, <1>5 DEF HoldsOne, Holds, Fits
    <2> QED BY <2>1, <2>2
  <1> QED BY <1>1, <1>2, <1>4, <1>5 DEF t

\* Posting several messages.
LEMMA HoldsConcat ==
  ASSUME NEW S, NEW s \in Seq(S), NEW t \in Seq(S), NEW K, NEW d
  PROVE  /\ s \o t \in Seq(S)
         /\ Holds(s \o t, K, d) <=> Holds(s, K, d) \/ Holds(t, K, d)
         /\ HoldsOne(s, K, d) /\ HoldsOne(t, K, d) /\ ~(Holds(s, K, d) /\ Holds(t, K, d))
              => HoldsOne(s \o t, K, d)
  <1> DEFINE u == s \o t
  <1>1. /\ Len(s) \in Nat /\ Len(t) \in Nat
        /\ DOMAIN s = 1 .. Len(s) /\ DOMAIN t = 1 .. Len(t)
    BY LenProperties
  <1>2. /\ u \in Seq(S) /\ Len(u) = Len(s) + Len(t)
        /\ \A i \in 1 .. Len(s) + Len(t) :
             u[i] = IF i <= Len(s) THEN s[i] ELSE t[i - Len(s)]
    BY ConcatProperties
  <1>3. DOMAIN u = 1 .. Len(s) + Len(t)
    BY <1>2, LenProperties
  <1> HIDE DEF u
  <1>4. \A i \in DOMAIN u : (i \in DOMAIN s /\ u[i] = s[i])
                            \/ (i - Len(s) \in DOMAIN t /\ u[i] = t[i - Len(s)])
    BY <1>1, <1>2, <1>3
  <1>5. \A i \in DOMAIN s : i \in DOMAIN u /\ u[i] = s[i]
    BY <1>1, <1>2, <1>3
  <1>6. \A i \in DOMAIN t : i + Len(s) \in DOMAIN u /\ u[i + Len(s)] = t[i]
    <2> TAKE i \in DOMAIN t
    <2>1. i + Len(s) \in 1 .. Len(s) + Len(t) /\ ~(i + Len(s) <= Len(s)) /\ (i + Len(s)) - Len(s) = i
      BY <1>1
    <2> QED BY <2>1, <1>2, <1>3
  <1>7. Holds(u, K, d) <=> Holds(s, K, d) \/ Holds(t, K, d)
    BY <1>4, <1>5, <1>6 DEF Holds
  <1>8. ASSUME HoldsOne(s, K, d), HoldsOne(t, K, d), ~(Holds(s, K, d) /\ Holds(t, K, d))
        PROVE  HoldsOne(u, K, d)
    <2> SUFFICES ASSUME NEW i \in DOMAIN u, NEW j \in DOMAIN u,
                        u[i].kind \in K /\ u[i].dev = d /\ u[j].kind \in K /\ u[j].dev = d
                 PROVE  i = j
      BY DEF HoldsOne
    <2>0. i \in Nat /\ j \in Nat
      BY <1>1, <1>3
    <2>1. CASE i \in DOMAIN s /\ u[i] = s[i]
      <3>1. Holds(s, K, d)
        BY <2>1 DEF Holds
      <3>2. j \in DOMAIN s /\ u[j] = s[j]
        BY <1>4, <1>8, <3>1 DEF Holds
      <3> QED BY <1>8, <2>1, <3>2 DEF HoldsOne
    <2>2. CASE i - Len(s) \in DOMAIN t /\ u[i] = t[i - Len(s)]
      <3>1. Holds(t, K, d)
        BY <2>2 DEF Holds
      <3>2. j - Len(s) \in DOMAIN t /\ u[j] = t[j - Len(s)]
        BY <1>4, <1>8, <3>1 DEF Holds
      <3>3. i - Len(s) = j - Len(s)
        BY <1>8, <2>2, <3>2 DEF HoldsOne
      <3> QED BY <1>1, <2>0, <3>3
    <2> QED BY <1>4, <2>1, <2>2
  <1> QED BY <1>2, <1>7, <1>8 DEF u

\* One message.
LEMMA HoldsSingle ==
  ASSUME NEW S, NEW x \in S, NEW K, NEW d
  PROVE  /\ <<x>> \in Seq(S) /\ Holds(<<x>>, K, d) <=> Fits(x, K, d)
         /\ HoldsOne(<<x>>, K, d)
  <1>1. <<x>> \in Seq(S) /\ DOMAIN <<x>> = 1 .. 1 /\ <<x>>[1] = x
    OBVIOUS
  <1>2. \A i \in 1 .. 1 : i = 1
    OBVIOUS
  <1> QED BY <1>1, <1>2 DEF Holds, HoldsOne, Fits

\* The messages of a finite set, in some order.
LEMMA OrderFacts ==
  ASSUME NEW S, IsFiniteSet(S)
  PROVE  /\ SetToSeq(S) \in Seq(S)
         /\ \A i, j \in DOMAIN SetToSeq(S) : SetToSeq(S)[i] = SetToSeq(S)[j] => i = j
         /\ \A x \in S : \E i \in DOMAIN SetToSeq(S) : SetToSeq(S)[i] = x
  <1> DEFINE n == Cardinality(S)
             Fine(f) == f \in [1 .. n -> S] /\ IsInjective(f)
             q == SetToSeq(S)
  <1>1. n \in Nat /\ ExistsBijection(1 .. n, S)
    BY FS_CardinalityType
  <1>2. \E f \in [1 .. n -> S] : IsInjective(f)
    BY <1>1 DEF ExistsBijection, Bijection, Injection, Surjection, IsInjective
  <1>3. q \in [1 .. n -> S] /\ IsInjective(q)
    BY <1>2 DEF SetToSeq
  <1> HIDE DEF q
  <1>4. q \in Seq(S) /\ DOMAIN q = 1 .. n
    BY <1>1, <1>3
  <1>5. \A i, j \in DOMAIN q : q[i] = q[j] => i = j
    BY <1>3, <1>4 DEF IsInjective
  <1>6. \A x \in S : \E i \in DOMAIN q : q[i] = x
    <2> DEFINE R == {q[i] : i \in 1 .. n}
    <2>1. R \subseteq S
      BY <1>3
    <2>2. ExistsBijection(1 .. n, R)
      <3>1. q \in Bijection(1 .. n, R)
        BY <1>3, <1>4, <1>5 DEF Bijection, Injection, Surjection, IsInjective
      <3> QED BY <3>1 DEF ExistsBijection
    <2>3. IsFiniteSet(R) /\ Cardinality(R) = n
      BY <1>1, <2>2, FS_CountingElements, FS_NatBijection
    <2>4. R = S
      <3> HIDE DEF R
      <3> QED BY <2>1, <2>3, FS_Subset
    <2> QED BY <2>4, <1>4
  <1> QED BY <1>4, <1>5, <1>6 DEF q

(* Types. *)

\* The fields of what is on the ports, by kind.
LEMMA AskFields ==
  ASSUME NEW m \in ToMain
  PROVE  /\ m.kind \in {"request", "ack", "purged"}
         /\ m.kind \in {"request", "ack"} => m.dev \in Devices
         /\ m.kind = "ack" => m.peer \in Workers
  BY DEF ToMain

\* What the kind of a message to a worker says about its fields.
LEMMA TellFields ==
  ASSUME NEW m \in ToWorker
  PROVE  /\ m.kind \in {"grant", "deny", "open", "allow", "invalidate"}
         /\ m.kind # "invalidate" => m.dev \in Devices
         /\ m.kind # "deny" => m.peer \in Workers
         /\ m.port \in 0 .. MaxChannels /\ (m.kind = "open" => m.port \in Channels)
  <1>1. Channels \subseteq 0 .. MaxChannels /\ 0 \in 0 .. MaxChannels
    BY BrokerAssumption DEF Channels
  <1> QED BY <1>1 DEF ToWorker

\* The messages the main thread posts, and those a worker does.
LEMMA MsgTypes ==
  ASSUME NEW d \in Devices, NEW w \in Workers, NEW ch \in Channels
  PROVE  /\ Msg("grant", d, w, ch) \in ToWorker /\ Msg("grant", d, w, 0) \in ToWorker
         /\ Msg("open", d, w, ch) \in ToWorker /\ Msg("allow", d, w, 0) \in ToWorker
         /\ Msg("deny", d, None, 0) \in ToWorker
         /\ Msg("invalidate", None, w, 0) \in ToWorker
         /\ Msg("request", d, None, 0) \in ToMain /\ Msg("ack", d, w, 0) \in ToMain
         /\ Msg("purged", None, None, 0) \in ToMain
  <1>1. Channels \subseteq 0 .. MaxChannels /\ 0 \in 0 .. MaxChannels
    BY BrokerAssumption DEF Channels
  <1> QED BY <1>1 DEF ToWorker, ToMain, Msg

\* What a message is about.
LEMMA MsgFits ==
  ASSUME NEW k, NEW e, NEW w, NEW ch, NEW K, NEW d
  PROVE  Fits(Msg(k, e, w, ch), K, d) <=> k \in K /\ e = d
  BY DEF Fits, Msg

\* The fields of a lookup.
LEMMA LookupFields ==
  ASSUME NEW l \in Lookups
  PROVE  /\ l.kind \in {"grant", "recheck", "missing"} /\ l.caller \in Workers /\ l.dev \in Devices
         /\ l.ch \in 0 .. MaxChannels
         /\ l.kind # "missing" => l.callee \in Workers /\ <<l.caller, l.callee>> \in Pairs
  <1>1. 0 \in 0 .. MaxChannels
    BY BrokerAssumption
  <1> QED BY <1>1 DEF Lookups, Pairs

\* The lookups the broker starts are of their type.
LEMMA LookupTypes ==
  ASSUME NEW w \in Workers, NEW d \in Devices, NEW v \in Workers, NEW ch \in 0 .. MaxChannels
  PROVE  /\ Lookup("grant", w, d, v, 0) \in Lookups /\ Lookup("missing", w, d, None, 0) \in Lookups
         /\ Lookup("recheck", w, d, v, ch) \in Lookups
  <1>1. 0 \in 0 .. MaxChannels
    BY BrokerAssumption
  <1>2. (<<w, d>> \in authorised) \in BOOLEAN
    OBVIOUS
  <1> QED BY <1>1, <1>2 DEF Lookup, Lookups

\* Posting to the workers that are running.
LEMMA PostFacts ==
  ASSUME toWorker \in [Workers -> Seq(ToWorker)], NEW out \in [Workers -> Seq(ToWorker)], Post(out)
  PROVE  /\ toWorker' \in [Workers -> Seq(ToWorker)]
         /\ \A w \in Workers : w \notin Up => toWorker'[w] = toWorker[w]
         /\ \A w \in Up : toWorker'[w] = toWorker[w] \o out[w]
  <1>1. \A w \in Workers : toWorker[w] \o out[w] \in Seq(ToWorker)
    BY ConcatProperties
  <1> QED BY <1>1 DEF Post, Up

\* One message, to one worker.
LEMMA ToFacts ==
  ASSUME NEW w \in Workers, NEW m \in ToWorker
  PROVE  /\ To(w, m) \in [Workers -> Seq(ToWorker)]
         /\ To(w, m)[w] = <<m>> /\ \A v \in Workers : v # w => To(w, m)[v] = <<>>
  <1>1. <<m>> \in Seq(ToWorker) /\ <<>> \in Seq(ToWorker)
    OBVIOUS
  <1>2. Nothing \in [Workers -> Seq(ToWorker)] /\ \A v \in Workers : Nothing[v] = <<>>
    BY <1>1 DEF Nothing
  <1> QED BY <1>1, <1>2 DEF To

(* Where the token of a request for device d of worker w is, before and after a step. *)

SameAsk(w, d) ==
  /\ Holds(toMain'[w], Ask, d) <=> Holds(toMain[w], Ask, d)
  /\ HoldsOne(toMain[w], Ask, d) => HoldsOne(toMain'[w], Ask, d)
SameTold(w, d) ==
  /\ Holds(toWorker'[w], Tells, d) <=> Holds(toWorker[w], Tells, d)
  /\ HoldsOne(toWorker[w], Tells, d) => HoldsOne(toWorker'[w], Tells, d)
SameLookups(w, d) == Asking(lookups', w, d) = Asking(lookups, w, d)
SameOwed(w, d) == Owing(acks', w, d) = Owing(acks, w, d)
SameWait(w, d) == d \in pendingPeerInvokes'[w] <=> d \in pendingPeerInvokes[w]

\* A post that tells nobody anything, and one that tells w of its request for e.
QuietPost ==
  /\ toWorker' \in [Workers -> Seq(ToWorker)]
  /\ \A v \in Workers, d \in Devices : SameTold(v, d)
TellPost(w, e) ==
  /\ toWorker' \in [Workers -> Seq(ToWorker)]
  /\ \A v \in Workers, d \in Devices : v # w \/ d # e => SameTold(v, d)
  /\ w \in Up /\ ~Holds(toWorker[w], Tells, e)
       => Holds(toWorker'[w], Tells, e) /\ HoldsOne(toWorker'[w], Tells, e)

\* A step that leaves the token where it is.
LEMMA TrackedSame ==
  ASSUME NEW w, NEW d, Tracked(w, d), SameAsk(w, d), SameTold(w, d), SameLookups(w, d),
         SameOwed(w, d), SameWait(w, d)
  PROVE  Tracked(w, d)'
  BY DEF Tracked, OneToken, SameAsk, SameTold, SameLookups, SameOwed, SameWait

\* Nothing changes where nothing is assigned.
LEMMA SameIfUnchanged ==
  ASSUME NEW w, NEW d
  PROVE  /\ toMain'[w] = toMain[w] => SameAsk(w, d)
         /\ toWorker'[w] = toWorker[w] => SameTold(w, d)
         /\ lookups' = lookups => SameLookups(w, d)
         /\ acks' = acks => SameOwed(w, d)
         /\ pendingPeerInvokes'[w] = pendingPeerInvokes[w] => SameWait(w, d)
  BY DEF SameAsk, SameTold, SameLookups, SameOwed, SameWait

\* What posting does to the tokens.
LEMMA PostedTokens ==
  ASSUME toWorker \in [Workers -> Seq(ToWorker)], NEW out \in [Workers -> Seq(ToWorker)], Post(out),
         NEW w \in Workers, NEW d \in Devices
  PROVE  /\ ~Holds(out[w], Tells, d) => SameTold(w, d)
         /\ w \in Up /\ ~Holds(toWorker[w], Tells, d) /\ Holds(out[w], Tells, d) /\ HoldsOne(out[w], Tells, d)
              => Holds(toWorker'[w], Tells, d) /\ HoldsOne(toWorker'[w], Tells, d)
  <1>1. /\ w \notin Up => toWorker'[w] = toWorker[w]
        /\ w \in Up => toWorker'[w] = toWorker[w] \o out[w]
    BY PostFacts
  <1>2. toWorker[w] \in Seq(ToWorker) /\ out[w] \in Seq(ToWorker)
    OBVIOUS
  <1>3. /\ Holds(toWorker[w] \o out[w], Tells, d)
             <=> Holds(toWorker[w], Tells, d) \/ Holds(out[w], Tells, d)
        /\ HoldsOne(toWorker[w], Tells, d) /\ HoldsOne(out[w], Tells, d)
             /\ ~(Holds(toWorker[w], Tells, d) /\ Holds(out[w], Tells, d))
             => HoldsOne(toWorker[w] \o out[w], Tells, d)
    BY <1>2, HoldsConcat
  <1>4. ~Holds(out[w], Tells, d) => HoldsOne(out[w], Tells, d)
    BY DEF Holds, HoldsOne
  <1>5. ~Holds(toWorker[w], Tells, d) => HoldsOne(toWorker[w], Tells, d)
    BY DEF Holds, HoldsOne
  <1> QED BY <1>1, <1>3, <1>4, <1>5 DEF SameTold

\* Posting no answer to any request leaves every worker's answers alone.
LEMMA PostQuiet ==
  ASSUME toWorker \in [Workers -> Seq(ToWorker)], NEW out \in [Workers -> Seq(ToWorker)], Post(out),
         \A v \in Workers, d \in Devices : ~Holds(out[v], Tells, d)
  PROVE  QuietPost
  BY PostFacts, PostedTokens DEF QuietPost

\* Posting one answer, to worker w about device e, adds that answer only.
LEMMA PostTell ==
  ASSUME toWorker \in [Workers -> Seq(ToWorker)], NEW out \in [Workers -> Seq(ToWorker)], Post(out),
         NEW w \in Workers, NEW e \in Devices, NEW m \in ToWorker,
         out[w] = <<m>>, m.kind \in Tells, m.dev = e,
         \A v \in Workers, d \in Devices : v # w => ~Holds(out[v], Tells, d)
  PROVE  TellPost(w, e)
  <1>1. \A d \in Devices : Holds(out[w], Tells, d) <=> d = e
    BY HoldsSingle DEF Fits
  <1>2. HoldsOne(out[w], Tells, e)
    BY HoldsSingle
  <1> QED BY <1>1, <1>2, PostFacts, PostedTokens DEF TellPost

\* One message to one worker.
LEMMA SendFacts ==
  ASSUME toWorker \in [Workers -> Seq(ToWorker)], NEW w \in Workers, NEW m \in ToWorker, Post(To(w, m))
  PROVE  /\ m.kind \in Tells => TellPost(w, m.dev)
         /\ m.kind \notin Tells => QuietPost
  <1> DEFINE out == To(w, m)
  <1>1. /\ out \in [Workers -> Seq(ToWorker)]
        /\ out[w] = <<m>> /\ \A v \in Workers : v # w => out[v] = <<>>
    BY ToFacts
  <1>2. Post(out)
    OBVIOUS
  <1> HIDE DEF out
  <1>3. \A v \in Workers, d \in Devices : v # w => ~Holds(out[v], Tells, d)
    BY <1>1, HoldsEmpty
  <1>4. ASSUME m.kind \in Tells PROVE TellPost(w, m.dev)
    <2>1. m.dev \in Devices
      BY <1>4, TellFields DEF Tells
    <2> QED BY <1>1, <1>2, <1>3, <1>4, <2>1, PostTell
  <1>5. ASSUME m.kind \notin Tells PROVE QuietPost
    <2>1. \A d \in Devices : ~Holds(out[w], Tells, d)
      BY <1>1, <1>5, HoldsSingle DEF Fits
    <2> QED BY <1>1, <1>2, <1>3, <2>1, PostQuiet
  <1> QED BY <1>4, <1>5

\* A denial is one answer to its caller, and nothing else.
LEMMA DenyFacts ==
  ASSUME toWorker \in [Workers -> Seq(ToWorker)], NEW w \in Workers, NEW d \in Devices, DenyTo(w, d)
  PROVE  TellPost(w, d)
  <1> DEFINE m == Msg("deny", d, None, 0)
  <1>1. m \in ToWorker /\ m.kind \in Tells /\ m.dev = d
    BY DEF ToWorker, Msg, Tells
  <1>2. Post(To(w, m))
    BY DEF DenyTo
  <1> HIDE DEF m
  <1> QED BY <1>1, <1>2, SendFacts

\* A worker whose request is tracked and waited for is running.
LEMMA WaitingIsUp ==
  ASSUME BrokerTypeOK, Tracking, NEW w \in Workers, phase[w] \notin {"exited", "ended"},
         pendingPeerInvokes[w] # {}
  PROVE  w \in Up
  BY DEF BrokerTypeOK, Tracking, Up, Phases

(* Where a step takes a token. *)

\* It is enough to follow the tokens of the workers that have not exited.
LEMMA TrackingSplit ==
  ASSUME Tracking,
         \A w \in Workers : phase'[w] \notin {"exited", "ended"} =>
           /\ phase[w] \notin {"exited", "ended"}
           /\ \A d \in Devices : Tracked(w, d)'
           /\ phase'[w] = "unborn" => phase[w] = "unborn" /\ pendingPeerInvokes'[w] = pendingPeerInvokes[w]
  PROVE  Tracking'
  BY DEF Tracking

\* A step of the main thread that moves no token.
LEMMA TokensStay ==
  ASSUME Tracking, UNCHANGED <<phase, pendingPeerInvokes>>,
         \A w \in Workers, d \in Devices :
           SameAsk(w, d) /\ SameTold(w, d) /\ SameLookups(w, d) /\ SameOwed(w, d)
  PROVE  Tracking'
  <1> SUFFICES ASSUME NEW w \in Workers, phase[w] \notin {"exited", "ended"}
               PROVE  \A d \in Devices : Tracked(w, d)'
    BY TrackingSplit
  <1> TAKE d \in Devices
  <1>1. Tracked(w, d)
    BY DEF Tracking
  <1>2. SameWait(w, d)
    BY SameIfUnchanged
  <1> QED BY <1>1, <1>2, TrackedSame

\* The lookup for a request is answered: the caller is told, or the callee is asked.
LEMMA LookupAnswered ==
  ASSUME BrokerTypeOK, Tracking, NEW l \in lookups, l.kind # "recheck", lookups' = lookups \ {l},
         UNCHANGED <<toMain, phase, pendingPeerInvokes>>,
         \/ TellPost(l.caller, l.dev) /\ acks' = acks
         \/ QuietPost /\ l.callee \in Workers /\ acks' = acks \cup {<<l.caller, l.dev, l.callee>>}
  PROVE  Tracking'
  <1> SUFFICES ASSUME NEW w \in Workers, phase[w] \notin {"exited", "ended"}
               PROVE  \A d \in Devices : Tracked(w, d)'
    BY TrackingSplit
  <1> TAKE d \in Devices
  <1>1. Tracked(w, d)
    BY DEF Tracking
  <1>2. SameWait(w, d) /\ SameAsk(w, d)
    BY SameIfUnchanged
  <1>3. l.caller \in Workers /\ l.dev \in Devices
    BY LookupFields DEF BrokerTypeOK
  <1>4. CASE w # l.caller \/ d # l.dev
    <2>1. SameLookups(w, d)
      BY <1>4 DEF SameLookups, Asking
    <2>2. SameOwed(w, d) /\ SameTold(w, d)
      BY <1>4 DEF SameOwed, Owing, TellPost, QuietPost
    <2> QED BY <1>1, <1>2, <2>1, <2>2, TrackedSame
  <1>5. CASE w = l.caller /\ d = l.dev
    <2>1. l \in Asking(lookups, w, d)
      BY <1>5 DEF Asking
    <2>2. /\ Lone(Asking(lookups, w, d)) /\ Owing(acks, w, d) = {} /\ d \in pendingPeerInvokes[w]
          /\ ~Holds(toMain[w], Ask, d) /\ ~Holds(toWorker[w], Tells, d)
          /\ HoldsOne(toMain[w], Ask, d) /\ HoldsOne(toWorker[w], Tells, d)
      BY <1>1, <2>1 DEF Tracked, OneToken
    <2>3. w \in Up
      BY <2>2, WaitingIsUp
    <2>4. Asking(lookups', w, d) = {}
      BY <2>1, <2>2 DEF Asking, Lone
    <2>5. CASE TellPost(l.caller, l.dev) /\ acks' = acks
      <3>1. Holds(toWorker'[w], Tells, d) /\ HoldsOne(toWorker'[w], Tells, d)
        BY <1>5, <2>2, <2>3, <2>5 DEF TellPost
      <3>2. Owing(acks', w, d) = {}
        BY <2>2, <2>5
      <3>3. Lone({})
        BY DEF Lone
      <3> QED BY <2>2, <2>4, <3>1, <3>2, <3>3 DEF Tracked, OneToken
    <2>6. CASE QuietPost /\ l.callee \in Workers /\ acks' = acks \cup {<<l.caller, l.dev, l.callee>>}
      <3>1. Owing(acks', w, d) = {<<w, d, l.callee>>}
        BY <1>5, <2>2, <2>6 DEF Owing
      <3>2. ~Holds(toWorker'[w], Tells, d) /\ HoldsOne(toWorker'[w], Tells, d)
        BY <2>2, <2>6 DEF QuietPost, SameTold
      <3>3. Lone({}) /\ Lone({<<w, d, l.callee>>})
        BY DEF Lone
      <3> QED BY <2>2, <2>4, <3>1, <3>2, <3>3 DEF Tracked, OneToken
    <2> QED BY <2>5, <2>6
  <1> QED BY <1>4, <1>5

\* The main thread takes the request of worker w for device e: it refuses it, or
\* looks the right up.
LEMMA RequestTaken ==
  ASSUME BrokerTypeOK, Tracking, NEW w \in Workers, NEW e \in Devices,
         toMain[w] # <<>>, Head(toMain[w]).kind = "request", Head(toMain[w]).dev = e,
         toMain' = [toMain EXCEPT ![w] = Tail(@)],
         UNCHANGED <<phase, pendingPeerInvokes, acks>>,
         \/ TellPost(w, e) /\ lookups' = lookups
         \/ /\ UNCHANGED toWorker
            /\ \E l : lookups' = lookups \cup {l} /\ l.kind # "recheck" /\ l.caller = w /\ l.dev = e
  PROVE  Tracking'
  <1> SUFFICES ASSUME NEW v \in Workers, phase[v] \notin {"exited", "ended"}
               PROVE  \A d \in Devices : Tracked(v, d)'
    BY TrackingSplit
  <1> TAKE d \in Devices
  <1>1. Tracked(v, d)
    BY DEF Tracking
  <1>2. SameWait(v, d) /\ SameOwed(v, d)
    BY SameIfUnchanged
  <1>3. toMain[w] \in Seq(ToMain) /\ toMain'[w] = Tail(toMain[w])
        /\ \A u \in Workers : u # w => toMain'[u] = toMain[u]
    BY DEF BrokerTypeOK
  <1>4. /\ Holds(toMain[w], Ask, d) <=> Fits(Head(toMain[w]), Ask, d) \/ Holds(toMain'[w], Ask, d)
        /\ HoldsOne(toMain[w], Ask, d) => /\ HoldsOne(toMain'[w], Ask, d)
                                          /\ Fits(Head(toMain[w]), Ask, d) => ~Holds(toMain'[w], Ask, d)
    BY <1>3, HoldsTail
  <1>5. Fits(Head(toMain[w]), Ask, d) <=> d = e
    BY DEF Fits, Ask
  <1>6. CASE v # w \/ d # e
    <2>1. SameAsk(v, d)
      BY <1>3, <1>4, <1>5, <1>6, SameIfUnchanged DEF SameAsk
    <2>2. SameLookups(v, d)
      BY <1>6 DEF SameLookups, Asking
    <2>3. SameTold(v, d)
      BY <1>6, SameIfUnchanged DEF TellPost
    <2> QED BY <1>1, <1>2, <2>1, <2>2, <2>3, TrackedSame
  <1>7. CASE v = w /\ d = e
    <2>1. /\ Asking(lookups, w, d) = {} /\ Owing(acks, w, d) = {} /\ d \in pendingPeerInvokes[w]
          /\ ~Holds(toMain'[w], Ask, d) /\ ~Holds(toWorker[w], Tells, d)
          /\ HoldsOne(toMain'[w], Ask, d) /\ HoldsOne(toWorker[w], Tells, d)
      BY <1>1, <1>4, <1>5, <1>7 DEF Tracked, OneToken
    <2>2. w \in Up
      BY <1>7, <2>1, WaitingIsUp
    <2>3. Lone({})
      BY DEF Lone
    <2>4. CASE TellPost(w, e) /\ lookups' = lookups
      <3>1. Holds(toWorker'[w], Tells, d) /\ HoldsOne(toWorker'[w], Tells, d)
        BY <1>7, <2>1, <2>2, <2>4 DEF TellPost
      <3> QED BY <1>7, <2>1, <2>3, <2>4, <3>1 DEF Tracked, OneToken
    <2>5. CASE /\ UNCHANGED toWorker
               /\ \E l : lookups' = lookups \cup {l} /\ l.kind # "recheck" /\ l.caller = w /\ l.dev = e
      <3>1. PICK l : lookups' = lookups \cup {l} /\ l.kind # "recheck" /\ l.caller = w /\ l.dev = e
        BY <2>5
      <3>2. Asking(lookups', w, d) = {l}
        BY <1>7, <2>1, <3>1 DEF Asking
      <3>3. Lone({l})
        BY DEF Lone
      <3> QED BY <1>7, <2>1, <2>3, <2>5, <3>2, <3>3 DEF Tracked, OneToken
    <2> QED BY <2>4, <2>5
  <1> QED BY <1>6, <1>7

\* A worker's port to the main thread loses a message that is no request.
LEMMA NoRequestTaken ==
  ASSUME BrokerTypeOK, NEW w \in Workers, toMain[w] # <<>>, Head(toMain[w]).kind # "request",
         toMain' = [toMain EXCEPT ![w] = Tail(@)]
  PROVE  \A v \in Workers, d \in Devices : SameAsk(v, d)
  <1> TAKE v \in Workers, d \in Devices
  <1>1. toMain[w] \in Seq(ToMain) /\ toMain'[w] = Tail(toMain[w])
        /\ \A u \in Workers : u # w => toMain'[u] = toMain[u]
    BY DEF BrokerTypeOK
  <1>2. /\ Holds(toMain[w], Ask, d) <=> Fits(Head(toMain[w]), Ask, d) \/ Holds(toMain'[w], Ask, d)
        /\ HoldsOne(toMain[w], Ask, d) => HoldsOne(toMain'[w], Ask, d)
    BY <1>1, HoldsTail
  <1>3. ~Fits(Head(toMain[w]), Ask, d)
    BY DEF Fits, Ask
  <1> QED BY <1>1, <1>2, <1>3, SameIfUnchanged DEF SameAsk

\* The callee has acknowledged: the caller is told.
LEMMA AckTaken ==
  ASSUME BrokerTypeOK, Tracking, NEW w \in Workers, NEW p \in Workers, NEW e \in Devices,
         <<p, e, w>> \in acks, acks' = acks \ {<<p, e, w>>}, TellPost(p, e),
         \A v \in Workers, d \in Devices : SameAsk(v, d),
         UNCHANGED <<phase, pendingPeerInvokes, lookups>>
  PROVE  Tracking'
  <1> SUFFICES ASSUME NEW v \in Workers, phase[v] \notin {"exited", "ended"}
               PROVE  \A d \in Devices : Tracked(v, d)'
    BY TrackingSplit
  <1> TAKE d \in Devices
  <1>1. Tracked(v, d)
    BY DEF Tracking
  <1>2. SameWait(v, d) /\ SameLookups(v, d) /\ SameAsk(v, d)
    BY SameIfUnchanged
  <1>3. CASE v # p \/ d # e
    <2>1. SameOwed(v, d) /\ SameTold(v, d)
      BY <1>3 DEF SameOwed, Owing, TellPost
    <2> QED BY <1>1, <1>2, <2>1, TrackedSame
  <1>4. CASE v = p /\ d = e
    <2>1. <<p, e, w>> \in Owing(acks, v, d)
      BY <1>4 DEF Owing
    <2>2. /\ Lone(Owing(acks, v, d)) /\ Asking(lookups, v, d) = {} /\ d \in pendingPeerInvokes[v]
          /\ ~Holds(toMain[v], Ask, d) /\ ~Holds(toWorker[v], Tells, d)
          /\ HoldsOne(toMain[v], Ask, d) /\ HoldsOne(toWorker[v], Tells, d)
      BY <1>1, <2>1 DEF Tracked, OneToken
    <2>3. v \in Up
      BY <2>2, WaitingIsUp
    <2>4. Owing(acks', v, d) = {}
      BY <2>1, <2>2 DEF Owing, Lone
    <2>5. Holds(toWorker'[v], Tells, d) /\ HoldsOne(toWorker'[v], Tells, d)
      BY <1>4, <2>2, <2>3 DEF TellPost
    <2>6. Lone({})
      BY DEF Lone
    <2>7. ~Holds(toMain'[v], Ask, d) /\ HoldsOne(toMain'[v], Ask, d)
      BY <1>2, <2>2 DEF SameAsk
    <2> QED BY <2>2, <2>4, <2>5, <2>6, <2>7 DEF Tracked, OneToken
  <1> QED BY <1>3, <1>4

(* The workers' steps. *)

\* Posting to the main thread.
LEMMA AskPost ==
  ASSUME BrokerTypeOK, NEW w \in Workers, NEW m \in ToMain,
         toMain' = [toMain EXCEPT ![w] = Append(@, m)]
  PROVE  /\ toMain' \in [Workers -> Seq(ToMain)]
         /\ \A v \in Workers, d \in Devices : v # w \/ ~Fits(m, Ask, d) => SameAsk(v, d)
         /\ \A d \in Devices : Fits(m, Ask, d) /\ ~Holds(toMain[w], Ask, d) =>
              Holds(toMain'[w], Ask, d) /\ HoldsOne(toMain'[w], Ask, d)
  <1>1. /\ toMain[w] \in Seq(ToMain) /\ toMain'[w] = Append(toMain[w], m)
        /\ \A u \in Workers : u # w => toMain'[u] = toMain[u]
    BY DEF BrokerTypeOK
  <1>2. toMain'[w] \in Seq(ToMain)
    BY <1>1, AppendIndex
  <1>3. toMain' \in [Workers -> Seq(ToMain)]
    BY <1>1, <1>2 DEF BrokerTypeOK
  <1>4. ASSUME NEW d \in Devices
        PROVE  /\ Holds(toMain'[w], Ask, d) <=> Holds(toMain[w], Ask, d) \/ Fits(m, Ask, d)
               /\ HoldsOne(toMain[w], Ask, d) /\ ~(Holds(toMain[w], Ask, d) /\ Fits(m, Ask, d))
                    => HoldsOne(toMain'[w], Ask, d)
               /\ ~Holds(toMain[w], Ask, d) => HoldsOne(toMain[w], Ask, d)
    BY <1>1, HoldsAppend DEF Holds, HoldsOne
  <1>5. ASSUME NEW v \in Workers, NEW d \in Devices, v # w \/ ~Fits(m, Ask, d)
        PROVE  SameAsk(v, d)
    BY <1>1, <1>4, <1>5, SameIfUnchanged DEF SameAsk
  <1> QED BY <1>3, <1>4, <1>5

\* A worker asks for a channel.
LEMMA CallKeeps ==
  ASSUME BrokerInv, NEW w \in Workers, NEW d \in Devices, Call(w, d)
  PROVE  BrokerInv'
  <1> DEFINE m == Msg("request", d, None, 0)
  <1>1. /\ toMain' = [toMain EXCEPT ![w] = Append(@, m)]
        /\ pendingPeerInvokes' = [pendingPeerInvokes EXCEPT ![w] = @ \cup {d}]
        /\ w \in Up /\ d \notin pendingPeerInvokes[w]
        /\ UNCHANGED <<mainVars, toWorker, phase, peerDeviceWorkerMap, peerChannels, chanVars>>
    BY DEF Call
  <1>2. m \in ToMain /\ \A e \in Devices : Fits(m, Ask, e) <=> e = d
    BY DEF ToMain, Msg, Fits, Ask
  <1>3. BrokerTypeOK
    BY DEF BrokerInv
  <1> HIDE DEF m
  <1>4. /\ toMain' \in [Workers -> Seq(ToMain)]
        /\ \A v \in Workers, e \in Devices : v # w \/ e # d => SameAsk(v, e)
        /\ ~Holds(toMain[w], Ask, d) => Holds(toMain'[w], Ask, d) /\ HoldsOne(toMain'[w], Ask, d)
    BY <1>1, <1>2, <1>3, AskPost
  <1>5. BrokerTypeOK'
    <2>1. pendingPeerInvokes' \in [Workers -> SUBSET Devices]
      BY <1>1, <1>3 DEF BrokerTypeOK
    <2> QED BY <1>1, <1>3, <1>4, <2>1 DEF BrokerTypeOK, mainVars, chanVars
  <1>6. IsFiniteSet(acks') /\ Rechecking'
    BY <1>1 DEF BrokerInv, Rechecking, mainVars
  <1>7. Tracking'
    <2>0. Tracking /\ phase' = phase
      BY <1>1 DEF BrokerInv
    <2>1. ASSUME NEW v \in Workers, phase[v] \notin {"exited", "ended"}, NEW e \in Devices
          PROVE  Tracked(v, e)'
      <3>1. Tracked(v, e)
        BY <2>0, <2>1 DEF Tracking
      <3>2. SameLookups(v, e) /\ SameOwed(v, e) /\ SameTold(v, e)
        BY <1>1, SameIfUnchanged DEF mainVars
      <3>3. CASE v # w \/ e # d
        <4>1. SameWait(v, e)
          BY <1>1, <1>3, <3>3 DEF SameWait, BrokerTypeOK
        <4> QED BY <1>4, <3>1, <3>2, <3>3, <4>1, TrackedSame
      <3>4. CASE v = w /\ e = d
        <4>1. /\ Asking(lookups, v, e) = {} /\ Owing(acks, v, e) = {}
              /\ ~Holds(toMain[v], Ask, e) /\ ~Holds(toWorker[v], Tells, e)
              /\ HoldsOne(toWorker[v], Tells, e)
          BY <1>1, <3>1, <3>4 DEF Tracked, OneToken
        <4>2. Holds(toMain'[v], Ask, e) /\ HoldsOne(toMain'[v], Ask, e)
          BY <1>4, <3>4, <4>1
        <4>3. e \in pendingPeerInvokes'[v]
          BY <1>1, <1>3, <3>4 DEF BrokerTypeOK
        <4>4. Lone({})
          BY DEF Lone
        <4>5. /\ Asking(lookups', v, e) = {} /\ Owing(acks', v, e) = {}
              /\ ~Holds(toWorker'[v], Tells, e) /\ HoldsOne(toWorker'[v], Tells, e)
          BY <3>2, <4>1 DEF SameLookups, SameOwed, SameTold
        <4> QED BY <4>2, <4>3, <4>4, <4>5 DEF Tracked, OneToken
      <3> QED BY <3>3, <3>4
    <2>2. \A v \in Workers : phase[v] = "unborn" => pendingPeerInvokes'[v] = pendingPeerInvokes[v]
      BY <1>1, <1>3 DEF Up, BrokerTypeOK
    <2> QED BY <2>0, <2>1, <2>2, TrackingSplit
  <1> QED BY <1>5, <1>6, <1>7 DEF BrokerInv

\* An end of a channel is closed.
LEMMA CloseEndTypes ==
  ASSUME BrokerTypeOK, NEW w \in Workers, NEW ch \in Channels, CloseEnd(w, ch)
  PROVE  /\ peerChannels' \in [Workers -> [Workers -> 0 .. MaxChannels]]
         /\ callerEnd' \in [Channels -> EndStates] /\ calleeEnd' \in [Channels -> EndStates]
  <1>1. 0 \in 0 .. MaxChannels
    BY BrokerAssumption
  <1> DEFINE other == IF pair[ch][1] = w THEN pair[ch][2] ELSE pair[ch][1]
  <1>2. peerChannels' = [peerChannels EXCEPT ![w][other] = IF @ = ch THEN 0 ELSE @]
    BY DEF CloseEnd
  <1>3. /\ callerEnd' \in [Channels -> EndStates] /\ calleeEnd' \in [Channels -> EndStates]
    BY DEF CloseEnd, BrokerTypeOK, EndStates
  <1> HIDE DEF other
  <1>4. peerChannels' \in [Workers -> [Workers -> 0 .. MaxChannels]]
    BY <1>1, <1>2 DEF BrokerTypeOK
  <1> QED BY <1>3, <1>4

\* The other end of a channel was closed.
LEMMA PortCloseKeeps ==
  ASSUME BrokerInv, NEW w \in Workers, NEW ch \in Channels, PortClose(w, ch)
  PROVE  BrokerInv'
  <1>1. BrokerTypeOK /\ CloseEnd(w, ch)
        /\ UNCHANGED <<mainVars, toWorker, toMain, phase, peerDeviceWorkerMap,
                       pendingPeerInvokes, pair, allowed>>
    BY DEF BrokerInv, PortClose
  <1>2. BrokerTypeOK'
    BY <1>1, CloseEndTypes DEF BrokerTypeOK, mainVars
  <1>3. IsFiniteSet(acks') /\ Rechecking'
    BY <1>1 DEF BrokerInv, Rechecking, mainVars
  <1>4. Tracking'
    BY <1>1 DEF BrokerInv, Tracking, Tracked, mainVars
  <1> QED BY <1>2, <1>3, <1>4 DEF BrokerInv

\* A worker takes a message that answers no request.
LEMMA TokensHeld ==
  ASSUME BrokerTypeOK, Tracking, NEW w \in Workers, toWorker[w] # <<>>,
         Head(toWorker[w]).kind \notin Tells, toWorker' = [toWorker EXCEPT ![w] = Tail(@)],
         \A v \in Workers, d \in Devices : SameAsk(v, d),
         UNCHANGED <<phase, pendingPeerInvokes, lookups, acks>>
  PROVE  Tracking' /\ toWorker' \in [Workers -> Seq(ToWorker)]
  <1>1. /\ toWorker[w] \in Seq(ToWorker) /\ toWorker'[w] = Tail(toWorker[w])
        /\ \A u \in Workers : u # w => toWorker'[u] = toWorker[u]
    BY DEF BrokerTypeOK
  <1>2. ASSUME NEW v \in Workers, NEW d \in Devices PROVE SameTold(v, d)
    <2>1. /\ Holds(toWorker[w], Tells, d) <=> Fits(Head(toWorker[w]), Tells, d) \/ Holds(toWorker'[w], Tells, d)
          /\ HoldsOne(toWorker[w], Tells, d) => HoldsOne(toWorker'[w], Tells, d)
      BY <1>1, HoldsTail
    <2> QED BY <1>1, <2>1, SameIfUnchanged DEF SameTold, Fits
  <1>3. toWorker' \in [Workers -> Seq(ToWorker)]
    <2>1. toWorker'[w] \in Seq(ToWorker)
      BY <1>1, TailIndex
    <2> QED BY <1>1, <2>1 DEF BrokerTypeOK
  <1>4. \A v \in Workers, d \in Devices : SameLookups(v, d) /\ SameOwed(v, d)
    BY SameIfUnchanged
  <1> QED BY <1>2, <1>3, <1>4, TokensStay

\* A worker takes the answer to its request for device e.
LEMMA AnswerTaken ==
  ASSUME BrokerTypeOK, Tracking, NEW w \in Workers, NEW e \in Devices, w \in Up, toWorker[w] # <<>>,
         Head(toWorker[w]).kind \in Tells, Head(toWorker[w]).dev = e,
         toWorker' = [toWorker EXCEPT ![w] = Tail(@)],
         pendingPeerInvokes' = [pendingPeerInvokes EXCEPT ![w] = @ \ {e}],
         UNCHANGED <<phase, toMain, lookups, acks>>
  PROVE  /\ Tracking' /\ toWorker' \in [Workers -> Seq(ToWorker)]
         /\ pendingPeerInvokes' \in [Workers -> SUBSET Devices]
  <1>1. /\ toWorker[w] \in Seq(ToWorker) /\ toWorker'[w] = Tail(toWorker[w])
        /\ \A u \in Workers : u # w => toWorker'[u] = toWorker[u]
    BY DEF BrokerTypeOK
  <1>2. toWorker' \in [Workers -> Seq(ToWorker)]
    <2>1. toWorker'[w] \in Seq(ToWorker)
      BY <1>1, TailIndex
    <2> QED BY <1>1, <2>1 DEF BrokerTypeOK
  <1>3. /\ pendingPeerInvokes' \in [Workers -> SUBSET Devices]
        /\ \A v \in Workers : v # w => pendingPeerInvokes'[v] = pendingPeerInvokes[v]
        /\ pendingPeerInvokes'[w] = pendingPeerInvokes[w] \ {e}
    BY DEF BrokerTypeOK
  <1>4. ASSUME NEW v \in Workers, phase[v] \notin {"exited", "ended"}, NEW d \in Devices
        PROVE  Tracked(v, d)'
    <2>1. Tracked(v, d) /\ SameAsk(v, d) /\ SameLookups(v, d) /\ SameOwed(v, d)
      BY <1>4, SameIfUnchanged DEF Tracking
    <2>2. /\ Holds(toWorker[w], Tells, d) <=> Fits(Head(toWorker[w]), Tells, d) \/ Holds(toWorker'[w], Tells, d)
          /\ HoldsOne(toWorker[w], Tells, d) =>
               /\ HoldsOne(toWorker'[w], Tells, d)
               /\ Fits(Head(toWorker[w]), Tells, d) => ~Holds(toWorker'[w], Tells, d)
      BY <1>1, HoldsTail
    <2>3. Fits(Head(toWorker[w]), Tells, d) <=> d = e
      BY DEF Fits
    <2>4. CASE v # w \/ d # e
      <3>1. SameTold(v, d)
        BY <1>1, <2>2, <2>3, <2>4, SameIfUnchanged DEF SameTold
      <3>2. SameWait(v, d)
        BY <1>3, <2>4 DEF SameWait
      <3> QED BY <2>1, <3>1, <3>2, TrackedSame
    <2>5. CASE v = w /\ d = e
      <3>1. /\ Asking(lookups, v, d) = {} /\ Owing(acks, v, d) = {}
            /\ ~Holds(toMain[v], Ask, d) /\ HoldsOne(toMain[v], Ask, d)
            /\ ~Holds(toWorker'[v], Tells, d) /\ HoldsOne(toWorker'[v], Tells, d)
        BY <2>1, <2>2, <2>3, <2>5 DEF Tracked, OneToken
      <3>2. d \notin pendingPeerInvokes'[v]
        BY <1>3, <2>5
      <3>3. Lone({})
        BY DEF Lone
      <3> QED BY <3>1, <3>2, <3>3 DEF Tracked, OneToken
    <2> QED BY <2>4, <2>5
  <1>5. \A v \in Workers : phase[v] = "unborn" => pendingPeerInvokes'[v] = pendingPeerInvokes[v]
    BY <1>3 DEF Up
  <1>6. Tracking'
    BY <1>4, <1>5, TrackingSplit
  <1> QED BY <1>2, <1>3, <1>6

\* What a worker does with a grant, a denial, a new port, a widened channel and an
\* invalidation keeps the types of its own tables and of the channel ends.
LEMMA ReceiveTypes ==
  ASSUME BrokerTypeOK, NEW w \in Workers, NEW m \in ToWorker,
         \/ m.kind = "grant" /\ OnGrant(w, m)
         \/ m.kind = "deny" /\ OnDeny(w, m)
         \/ m.kind = "open" /\ OnOpen(w, m)
         \/ m.kind = "allow" /\ OnAllow(w, m)
         \/ m.kind = "invalidate" /\ OnInvalidate(w, m)
  PROVE  /\ peerDeviceWorkerMap' \in [Workers -> [Devices -> Workers \cup {None}]]
         /\ peerChannels' \in [Workers -> [Workers -> 0 .. MaxChannels]]
         /\ callerEnd' \in [Channels -> EndStates] /\ calleeEnd' \in [Channels -> EndStates]
         /\ allowed' \in [Channels -> SUBSET Devices]
  <1>1. /\ m.kind # "invalidate" => m.dev \in Devices
        /\ m.kind # "deny" => m.peer \in Workers
        /\ m.port \in 0 .. MaxChannels /\ (m.kind = "open" => m.port \in Channels)
    BY TellFields
  <1>2. \A ch \in 0 .. MaxChannels : ch # 0 => ch \in Channels
    BY BrokerAssumption DEF Channels
  <1>3. CASE m.kind = "grant" /\ OnGrant(w, m)
    <2>1. peerDeviceWorkerMap' \in [Workers -> [Devices -> Workers \cup {None}]]
      BY <1>1, <1>3 DEF OnGrant, BrokerTypeOK
    <2>2. peerChannels' \in [Workers -> [Workers -> 0 .. MaxChannels]]
      <3>1. CASE m.port # 0 /\ peerChannels[w][m.peer] = 0
        <4>1. peerChannels' = [peerChannels EXCEPT ![w][m.peer] = m.port]
          BY <1>3, <3>1 DEF OnGrant
        <4> QED BY <1>1, <1>3, <4>1 DEF BrokerTypeOK
      <3>2. CASE ~(m.port # 0 /\ peerChannels[w][m.peer] = 0)
        <4>1. peerChannels' = peerChannels
          BY <1>3, <3>2 DEF OnGrant
        <4> QED BY <4>1 DEF BrokerTypeOK
      <3> QED BY <3>1, <3>2
    <2>3. callerEnd' \in [Channels -> EndStates]
      BY <1>1, <1>2, <1>3 DEF OnGrant, BrokerTypeOK, EndStates
    <2> QED BY <1>3, <2>1, <2>2, <2>3 DEF OnGrant, BrokerTypeOK
  <1>4. CASE m.kind = "deny" /\ OnDeny(w, m)
    BY <1>4 DEF OnDeny, BrokerTypeOK
  <1>5. CASE m.kind = "open" /\ OnOpen(w, m)
    <2>1. peerChannels' \in [Workers -> [Workers -> 0 .. MaxChannels]]
      BY <1>1, <1>5 DEF OnOpen, BrokerTypeOK
    <2>2. calleeEnd' \in [Channels -> EndStates] /\ allowed' \in [Channels -> SUBSET Devices]
      BY <1>1, <1>5 DEF OnOpen, BrokerTypeOK, EndStates
    <2> QED BY <1>5, <2>1, <2>2 DEF OnOpen, BrokerTypeOK
  <1>6. CASE m.kind = "allow" /\ OnAllow(w, m)
    <2>1. peerChannels[w][m.peer] \in 0 .. MaxChannels
      BY <1>1, <1>6 DEF BrokerTypeOK
    <2>2. allowed' \in [Channels -> SUBSET Devices]
      BY <1>1, <1>2, <1>6, <2>1 DEF OnAllow, BrokerTypeOK
    <2> QED BY <1>6, <2>2 DEF OnAllow, BrokerTypeOK
  <1>7. CASE m.kind = "invalidate" /\ OnInvalidate(w, m)
    <2>1. peerChannels[w][m.peer] \in 0 .. MaxChannels
      BY <1>1, <1>7 DEF BrokerTypeOK
    <2>2. CASE peerChannels[w][m.peer] # 0
      <3>1. peerChannels[w][m.peer] \in Channels /\ CloseEnd(w, peerChannels[w][m.peer])
        BY <1>2, <1>7, <2>1, <2>2 DEF OnInvalidate
      <3>2. /\ peerChannels' \in [Workers -> [Workers -> 0 .. MaxChannels]]
            /\ callerEnd' \in [Channels -> EndStates] /\ calleeEnd' \in [Channels -> EndStates]
        BY <3>1, CloseEndTypes
      <3> QED BY <1>7, <3>2 DEF OnInvalidate, BrokerTypeOK
    <2>3. CASE peerChannels[w][m.peer] = 0
      BY <1>7, <2>3 DEF OnInvalidate, BrokerTypeOK
    <2> QED BY <2>2, <2>3
  <1> QED BY <1>3, <1>4, <1>5, <1>6, <1>7

\* A worker takes its next message.
LEMMA WorkerReceivesKeeps ==
  ASSUME BrokerInv, NEW w \in Workers, WorkerReceives(w)
  PROVE  BrokerInv'
  <1> DEFINE m == Head(toWorker[w])
  <1>1. /\ w \in Up /\ toWorker[w] # <<>>
        /\ toWorker' = [toWorker EXCEPT ![w] = Tail(@)]
        /\ UNCHANGED <<mainVars, phase, pair>>
        /\ \/ m.kind = "grant" /\ OnGrant(w, m)
           \/ m.kind = "deny" /\ OnDeny(w, m)
           \/ m.kind = "open" /\ OnOpen(w, m)
           \/ m.kind = "allow" /\ OnAllow(w, m)
           \/ m.kind = "invalidate" /\ OnInvalidate(w, m)
    BY DEF WorkerReceives
  <1>2. BrokerTypeOK /\ Tracking
    BY DEF BrokerInv
  <1>3. m \in ToWorker
    <2>1. toWorker[w] \in Seq(ToWorker)
      BY <1>2 DEF BrokerTypeOK
    <2> QED BY <1>1, <2>1
  <1> HIDE DEF m
  <1>4. /\ peerDeviceWorkerMap' \in [Workers -> [Devices -> Workers \cup {None}]]
        /\ peerChannels' \in [Workers -> [Workers -> 0 .. MaxChannels]]
        /\ callerEnd' \in [Channels -> EndStates] /\ calleeEnd' \in [Channels -> EndStates]
        /\ allowed' \in [Channels -> SUBSET Devices]
    BY <1>1, <1>2, <1>3, ReceiveTypes
  <1>5. UNCHANGED <<phase, lookups, acks>>
    BY <1>1 DEF mainVars
  <1>6. /\ Tracking' /\ toWorker' \in [Workers -> Seq(ToWorker)]
        /\ pendingPeerInvokes' \in [Workers -> SUBSET Devices]
        /\ toMain' \in [Workers -> Seq(ToMain)]
    <2>1. CASE m.kind \in {"grant", "deny"}
      <3>1. m.dev \in Devices /\ m.kind \in Tells
        BY <1>3, <2>1, TellFields DEF Tells
      <3>2. /\ pendingPeerInvokes' = [pendingPeerInvokes EXCEPT ![w] = @ \ {m.dev}]
            /\ UNCHANGED toMain
        BY <1>1, <2>1 DEF OnGrant, OnDeny
      <3>3. /\ Tracking' /\ toWorker' \in [Workers -> Seq(ToWorker)]
            /\ pendingPeerInvokes' \in [Workers -> SUBSET Devices]
        BY <1>1, <1>2, <1>5, <3>1, <3>2, AnswerTaken DEF m
      <3> QED BY <1>2, <3>2, <3>3 DEF BrokerTypeOK
    <2>2. CASE m.kind \in {"open", "invalidate"}
      <3>1. m.kind \notin Tells /\ UNCHANGED <<toMain, pendingPeerInvokes>>
        BY <1>1, <2>2 DEF OnOpen, OnInvalidate, Tells
      <3>2. \A v \in Workers, d \in Devices : SameAsk(v, d)
        BY <3>1, SameIfUnchanged
      <3>3. Tracking' /\ toWorker' \in [Workers -> Seq(ToWorker)]
        BY <1>1, <1>2, <1>5, <3>1, <3>2, TokensHeld DEF m
      <3> QED BY <1>2, <3>1, <3>3 DEF BrokerTypeOK
    <2>3. CASE m.kind = "allow"
      <3> DEFINE a == Msg("ack", m.dev, m.peer, 0)
      <3>1. m.kind \notin Tells /\ UNCHANGED pendingPeerInvokes
            /\ toMain' = [toMain EXCEPT ![w] = Append(@, a)]
        BY <1>1, <2>3 DEF OnAllow, Tells
      <3>2. a \in ToMain /\ \A d \in Devices : ~Fits(a, Ask, d)
        BY <1>3, <2>3, TellFields DEF ToMain, Msg, Fits, Ask
      <3> HIDE DEF a
      <3>3. toMain' \in [Workers -> Seq(ToMain)] /\ \A v \in Workers, d \in Devices : SameAsk(v, d)
        BY <1>2, <3>1, <3>2, AskPost
      <3>4. Tracking' /\ toWorker' \in [Workers -> Seq(ToWorker)]
        BY <1>1, <1>2, <1>5, <3>1, <3>3, TokensHeld DEF m
      <3> QED BY <1>2, <3>1, <3>3, <3>4 DEF BrokerTypeOK
    <2> QED BY <1>1, <2>1, <2>2, <2>3
  <1>7. BrokerTypeOK'
    BY <1>1, <1>2, <1>4, <1>6 DEF BrokerTypeOK, mainVars
  <1>8. IsFiniteSet(acks') /\ Rechecking'
    BY <1>1 DEF BrokerInv, Rechecking, mainVars
  <1> QED BY <1>6, <1>7, <1>8 DEF BrokerInv

\* A worker purges its devices for an unload.
LEMMA WorkerPurgesKeeps ==
  ASSUME BrokerInv, NEW w \in Workers, WorkerPurges(w)
  PROVE  BrokerInv'
  <1> DEFINE m == Msg("purged", None, None, 0)
  <1>1. /\ phase[w] = "unloading" /\ phase' = [phase EXCEPT ![w] = "purged"]
        /\ toMain' = [toMain EXCEPT ![w] = Append(@, m)]
        /\ UNCHANGED <<mainVars, toWorker, peerDeviceWorkerMap, peerChannels, pendingPeerInvokes, chanVars>>
    BY DEF WorkerPurges
  <1>2. m \in ToMain /\ \A d \in Devices : ~Fits(m, Ask, d)
    BY DEF ToMain, Msg, Fits, Ask
  <1>3. BrokerTypeOK /\ Tracking
    BY DEF BrokerInv
  <1> HIDE DEF m
  <1>4. toMain' \in [Workers -> Seq(ToMain)] /\ \A v \in Workers, d \in Devices : SameAsk(v, d)
    BY <1>1, <1>2, <1>3, AskPost
  <1>5. phase' \in [Workers -> Phases]
    BY <1>1, <1>3 DEF BrokerTypeOK, Phases
  <1>6. BrokerTypeOK'
    BY <1>1, <1>3, <1>4, <1>5 DEF BrokerTypeOK, mainVars, chanVars
  <1>7. IsFiniteSet(acks') /\ Rechecking'
    BY <1>1 DEF BrokerInv, Rechecking, mainVars
  <1>8. Tracking'
    <2>1. ASSUME NEW v \in Workers, phase'[v] \notin {"exited", "ended"}
          PROVE  phase[v] \notin {"exited", "ended"} /\ (phase'[v] = "unborn" => phase[v] = "unborn")
      BY <1>1, <1>3, <2>1 DEF BrokerTypeOK
    <2>2. ASSUME NEW v \in Workers, phase[v] \notin {"exited", "ended"}, NEW d \in Devices
          PROVE  Tracked(v, d)'
      <3>1. Tracked(v, d)
        BY <1>3, <2>2 DEF Tracking
      <3>2. SameTold(v, d) /\ SameLookups(v, d) /\ SameOwed(v, d) /\ SameWait(v, d)
        BY <1>1, SameIfUnchanged DEF mainVars
      <3> QED BY <1>4, <3>1, <3>2, TrackedSame
    <2> QED BY <1>1, <1>3, <2>1, <2>2, TrackingSplit
  <1> QED BY <1>6, <1>7, <1>8 DEF BrokerInv

\* A worker exits: its requests are nobody's.
LEMMA WorkerExitsKeeps ==
  ASSUME BrokerInv, NEW w \in Workers, WorkerExits(w)
  PROVE  BrokerInv'
  <1>1. BrokerTypeOK /\ Tracking
    BY DEF BrokerInv
  <1>2. UNCHANGED <<mainVars, toMain, peerDeviceWorkerMap, pair, allowed>>
    BY DEF WorkerExits
  <1>3. /\ phase' \in [Workers -> Phases] /\ phase'[w] = "exited"
        /\ \A v \in Workers : v # w => phase'[v] = phase[v]
    BY <1>1 DEF WorkerExits, BrokerTypeOK, Phases
  <1>4. /\ toWorker' \in [Workers -> Seq(ToWorker)]
        /\ \A v \in Workers : v # w => toWorker'[v] = toWorker[v]
    BY <1>1 DEF WorkerExits, BrokerTypeOK
  <1>5. callerEnd' \in [Channels -> EndStates] /\ calleeEnd' \in [Channels -> EndStates]
    BY <1>1 DEF WorkerExits, BrokerTypeOK, EndStates
  <1>6. peerChannels' \in [Workers -> [Workers -> 0 .. MaxChannels]]
    <2>1. 0 \in 0 .. MaxChannels
      BY BrokerAssumption
    <2>2. [v \in Workers |-> 0] \in [Workers -> 0 .. MaxChannels]
      BY <2>1
    <2> QED BY <1>1, <2>2 DEF WorkerExits, BrokerTypeOK
  <1>7. /\ pendingPeerInvokes' \in [Workers -> SUBSET Devices]
        /\ \A v \in Workers : v # w => pendingPeerInvokes'[v] = pendingPeerInvokes[v]
    BY <1>1 DEF WorkerExits, BrokerTypeOK
  <1>8. BrokerTypeOK'
    BY <1>1, <1>2, <1>3, <1>4, <1>5, <1>6, <1>7 DEF BrokerTypeOK, mainVars
  <1>9. IsFiniteSet(acks') /\ Rechecking'
    BY <1>2 DEF BrokerInv, Rechecking, mainVars
  <1>10. Tracking'
    <2>1. ASSUME NEW v \in Workers, phase'[v] \notin {"exited", "ended"}
          PROVE  /\ v # w /\ phase[v] \notin {"exited", "ended"} /\ phase'[v] = phase[v]
                 /\ \A d \in Devices : Tracked(v, d)'
      <3>1. v # w /\ phase[v] \notin {"exited", "ended"} /\ phase'[v] = phase[v]
        BY <1>3, <2>1
      <3>2. ASSUME NEW d \in Devices PROVE Tracked(v, d)'
        <4>1. Tracked(v, d)
          BY <1>1, <3>1 DEF Tracking
        <4>2. SameTold(v, d) /\ SameLookups(v, d) /\ SameOwed(v, d) /\ SameWait(v, d) /\ SameAsk(v, d)
          BY <1>2, <1>4, <1>7, <3>1, SameIfUnchanged DEF mainVars
        <4> QED BY <4>1, <4>2, TrackedSame
      <3> QED BY <3>1, <3>2
    <2> QED BY <1>1, <1>7, <2>1, TrackingSplit
  <1> QED BY <1>8, <1>9, <1>10 DEF BrokerInv

\* An unload begins, a module comes up again, a right is taken away: no request moves.
LEMMA LifeKeeps ==
  ASSUME BrokerInv, NEW w \in Workers, StartUnload(w) \/ Restart(w) \/ \E u \in Uses : Revoke(u)
  PROVE  BrokerInv'
  <1>1. BrokerTypeOK /\ Tracking
    BY DEF BrokerInv
  <1>2. /\ UNCHANGED <<registry, grants, used, lookups, current, acks, toWorker, toMain,
                       peerDeviceWorkerMap, peerChannels, pendingPeerInvokes, chanVars>>
    BY DEF StartUnload, Restart, Revoke, mainVars, workerVars
  <1>3. /\ phase' \in [Workers -> Phases]
        /\ \A v \in Workers : phase'[v] \notin {"exited", "ended"} =>
             /\ phase[v] \notin {"exited", "ended"}
             /\ phase'[v] = "unborn" => phase[v] = "unborn"
    <2>1. CASE StartUnload(w)
      BY <1>1, <2>1 DEF StartUnload, BrokerTypeOK, Phases
    <2>2. CASE Restart(w)
      BY <1>1, <2>2, BrokerAssumption DEF Restart, BrokerTypeOK, Phases
    <2>3. CASE \E u \in Uses : Revoke(u)
      BY <1>1, <2>3 DEF Revoke, BrokerTypeOK, workerVars
    <2> QED BY <2>1, <2>2, <2>3
  <1>4. deviceMap' \in [Devices -> Workers \cup {None}] /\ authorised' \subseteq Uses
    <2>1. CASE StartUnload(w)
      BY <1>1, <2>1 DEF StartUnload, BrokerTypeOK, mainVars
    <2>2. CASE Restart(w)
      BY <1>1, <2>2, BrokerAssumption DEF Restart, BrokerTypeOK
    <2>3. CASE \E u \in Uses : Revoke(u)
      BY <1>1, <2>3 DEF Revoke, BrokerTypeOK
    <2> QED BY <2>1, <2>2, <2>3
  <1>5. BrokerTypeOK'
    BY <1>1, <1>2, <1>3, <1>4 DEF BrokerTypeOK, chanVars
  <1>6. IsFiniteSet(acks') /\ Rechecking'
    BY <1>2 DEF BrokerInv, Rechecking
  <1>7. Tracking'
    <2>1. ASSUME NEW v \in Workers, NEW d \in Devices, phase[v] \notin {"exited", "ended"}
          PROVE  Tracked(v, d)'
      <3>1. Tracked(v, d)
        BY <1>1, <2>1 DEF Tracking
      <3> QED BY <1>2, <3>1 DEF Tracked
    <2> QED BY <1>1, <1>2, <1>3, <2>1, TrackingSplit
  <1> QED BY <1>5, <1>6, <1>7 DEF BrokerInv

(* The main thread's steps. *)

\* Pairs may be forgotten and lookups answered, while no entry gets a new channel.
LEMMA RecheckingKept ==
  ASSUME BrokerTypeOK, Rechecking, \A p \in Pairs : registry'[p] \in {0, registry[p]},
         \A l \in lookups' : l.kind = "recheck" => l \in lookups, UNCHANGED <<grants, used>>
  PROVE  Rechecking'
  <1>1. used \in Nat
    BY BrokerAssumption DEF BrokerTypeOK
  <1>2. \A p \in Pairs : registry'[p] <= used
    BY <1>1 DEF Rechecking
  <1> QED BY <1>2 DEF Rechecking

\* invalidateWorker forgets w's pairs and tells nobody about a request but in what
\* is posted besides.
LEMMA InvalidateFacts ==
  ASSUME BrokerTypeOK, NEW w \in Workers, NEW extra \in [Workers -> Seq(ToWorker)],
         InvalidateWorker(w, extra)
  PROVE  /\ registry' \in [Pairs -> 0 .. MaxChannels]
         /\ \A p \in Pairs : registry'[p] \in {0, registry[p]}
         /\ \E out \in [Workers -> Seq(ToWorker)] :
              /\ Post(out)
              /\ \A v \in Workers, d \in Devices :
                   /\ Holds(out[v], Tells, d) <=> Holds(extra[v], Tells, d)
                   /\ HoldsOne(extra[v], Tells, d) => HoldsOne(out[v], Tells, d)
  <1> DEFINE m == Msg("invalidate", None, w, 0)
             a(v) == IF v # w /\ <<v, w>> \in Involving(w) THEN <<m>> ELSE <<>>
             b(v) == IF v # w /\ <<w, v>> \in Involving(w) THEN <<m>> ELSE <<>>
             out == [v \in Workers |-> a(v) \o b(v) \o extra[v]]
  <1>1. 0 \in 0 .. MaxChannels
    BY BrokerAssumption
  <1>2. registry' \in [Pairs -> 0 .. MaxChannels] /\ \A p \in Pairs : registry'[p] \in {0, registry[p]}
    BY <1>1 DEF InvalidateWorker, BrokerTypeOK
  <1>3. Post(out)
    BY DEF InvalidateWorker
  <1>4. m \in ToWorker /\ \A d \in Devices : ~Fits(m, Tells, d)
    BY DEF ToWorker, Msg, Fits, Tells
  <1> HIDE DEF m
  <1>5. /\ <<m>> \in Seq(ToWorker) /\ <<>> \in Seq(ToWorker)
        /\ \A d \in Devices : /\ ~Holds(<<m>>, Tells, d) /\ HoldsOne(<<m>>, Tells, d)
                              /\ ~Holds(<<>>, Tells, d) /\ HoldsOne(<<>>, Tells, d)
    BY <1>4, HoldsSingle, HoldsEmpty
  <1>6. ASSUME NEW v \in Workers
        PROVE  /\ a(v) \in Seq(ToWorker) /\ b(v) \in Seq(ToWorker)
               /\ \A d \in Devices : /\ ~Holds(a(v), Tells, d) /\ HoldsOne(a(v), Tells, d)
                                     /\ ~Holds(b(v), Tells, d) /\ HoldsOne(b(v), Tells, d)
    BY <1>5
  <1> HIDE DEF a, b
  <1>7. ASSUME NEW v \in Workers
        PROVE  /\ a(v) \o b(v) \in Seq(ToWorker) /\ a(v) \o b(v) \o extra[v] \in Seq(ToWorker)
               /\ \A d \in Devices :
                    /\ Holds(a(v) \o b(v) \o extra[v], Tells, d) <=> Holds(extra[v], Tells, d)
                    /\ HoldsOne(extra[v], Tells, d) => HoldsOne(a(v) \o b(v) \o extra[v], Tells, d)
    <2>1. a(v) \in Seq(ToWorker) /\ b(v) \in Seq(ToWorker) /\ extra[v] \in Seq(ToWorker)
      BY <1>6
    <2>2. a(v) \o b(v) \in Seq(ToWorker)
      BY <2>1, ConcatProperties
    <2>3. a(v) \o b(v) \o extra[v] \in Seq(ToWorker)
      BY <2>1, <2>2, ConcatProperties
    <2>4. ASSUME NEW d \in Devices
          PROVE  ~Holds(a(v) \o b(v), Tells, d) /\ HoldsOne(a(v) \o b(v), Tells, d)
      BY <1>6, <2>1, HoldsConcat
    <2>5. ASSUME NEW d \in Devices
          PROVE  /\ Holds(a(v) \o b(v) \o extra[v], Tells, d) <=> Holds(extra[v], Tells, d)
                 /\ HoldsOne(extra[v], Tells, d) => HoldsOne(a(v) \o b(v) \o extra[v], Tells, d)
      <3>1. ~Holds(a(v) \o b(v), Tells, d) /\ HoldsOne(a(v) \o b(v), Tells, d)
        BY <2>4
      <3> DEFINE c == a(v) \o b(v)
      <3>2. c \in Seq(ToWorker) /\ ~Holds(c, Tells, d) /\ HoldsOne(c, Tells, d)
        BY <2>2, <3>1
      <3> HIDE DEF c
      <3>3. /\ Holds(c \o extra[v], Tells, d) <=> Holds(extra[v], Tells, d)
            /\ HoldsOne(extra[v], Tells, d) => HoldsOne(c \o extra[v], Tells, d)
        BY <2>1, <3>2, HoldsConcat
      <3> QED BY <3>3 DEF c
    <2> QED BY <2>2, <2>3, <2>5
  <1>8. out \in [Workers -> Seq(ToWorker)] /\ \A v \in Workers : out[v] = a(v) \o b(v) \o extra[v]
    BY <1>7
  <1>9. \A v \in Workers, d \in Devices :
          /\ Holds(out[v], Tells, d) <=> Holds(extra[v], Tells, d)
          /\ HoldsOne(extra[v], Tells, d) => HoldsOne(out[v], Tells, d)
    BY <1>7, <1>8
  <1> HIDE DEF out
  <1>10. \E o \in [Workers -> Seq(ToWorker)] :
           /\ Post(o)
           /\ \A v \in Workers, d \in Devices :
                /\ Holds(o[v], Tells, d) <=> Holds(extra[v], Tells, d)
                /\ HoldsOne(extra[v], Tells, d) => HoldsOne(o[v], Tells, d)
    BY <1>3, <1>8, <1>9
  <1> QED BY <1>2, <1>10

\* With nothing besides, it is a post that tells nobody anything.
LEMMA InvalidateQuiet ==
  ASSUME BrokerTypeOK, NEW w \in Workers, InvalidateWorker(w, Nothing)
  PROVE  /\ registry' \in [Pairs -> 0 .. MaxChannels]
         /\ \A p \in Pairs : registry'[p] \in {0, registry[p]}
         /\ QuietPost
  <1>1. Nothing \in [Workers -> Seq(ToWorker)] /\ \A v \in Workers : Nothing[v] = <<>>
    <2>1. <<>> \in Seq(ToWorker)
      OBVIOUS
    <2> QED BY <2>1 DEF Nothing
  <1>2. /\ registry' \in [Pairs -> 0 .. MaxChannels]
        /\ \A p \in Pairs : registry'[p] \in {0, registry[p]}
    BY <1>1, InvalidateFacts
  <1>3. PICK out \in [Workers -> Seq(ToWorker)] :
          /\ Post(out)
          /\ \A v \in Workers, d \in Devices :
               /\ Holds(out[v], Tells, d) <=> Holds(Nothing[v], Tells, d)
               /\ HoldsOne(Nothing[v], Tells, d) => HoldsOne(out[v], Tells, d)
    <2> HIDE DEF Nothing
    <2> QED BY <1>1, InvalidateFacts
  <1>4. \A v \in Workers, d \in Devices : ~Holds(out[v], Tells, d)
    BY <1>1, <1>3, HoldsEmpty
  <1>5. QuietPost
    BY <1>3, <1>4, PostQuiet DEF BrokerTypeOK
  <1> QED BY <1>2, <1>5

\* The main thread takes a worker's message.
LEMMA MainReceivesKeeps ==
  ASSUME BrokerInv, NEW w \in Workers, MainReceives(w)
  PROVE  BrokerInv'
  <1> DEFINE m == Head(toMain[w])
  <1>1. /\ toMain[w] # <<>> /\ toMain' = [toMain EXCEPT ![w] = Tail(@)]
        /\ UNCHANGED <<deviceMap, grants, used, current, authorised, workerVars, chanVars>>
        /\ \/ m.kind = "request" /\ HandleRequest(w, m.dev)
           \/ m.kind = "ack" /\ HandleAck(w, m)
           \/ m.kind = "purged" /\ InvalidateWorker(w, Nothing) /\ UNCHANGED <<lookups, acks>>
    BY DEF MainReceives
  <1>2. BrokerTypeOK /\ Tracking /\ Rechecking /\ IsFiniteSet(acks)
        /\ toWorker \in [Workers -> Seq(ToWorker)]
    BY DEF BrokerInv, BrokerTypeOK
  <1>3. toMain[w] \in Seq(ToMain) /\ m \in ToMain
    BY <1>1, <1>2 DEF BrokerTypeOK
  <1>4. toMain' \in [Workers -> Seq(ToMain)]
    <2>1. Tail(toMain[w]) \in Seq(ToMain)
      BY <1>1, <1>3, TailIndex
    <2> QED BY <1>1, <1>2, <2>1 DEF BrokerTypeOK
  <1>5. UNCHANGED <<phase, pendingPeerInvokes>>
    BY <1>1 DEF workerVars
  <1> HIDE DEF m
  <1>6. ASSUME /\ registry' \in [Pairs -> 0 .. MaxChannels]
               /\ lookups' \subseteq Lookups /\ acks' \subseteq Workers \X Devices \X Workers
               /\ IsFiniteSet(acks')
               /\ toWorker' \in [Workers -> Seq(ToWorker)]
               /\ \A p \in Pairs : registry'[p] \in {0, registry[p]}
               /\ \A l \in lookups' : l.kind = "recheck" => l \in lookups
               /\ Tracking'
        PROVE  BrokerInv'
    <2>1. BrokerTypeOK'
      BY <1>1, <1>2, <1>4, <1>6 DEF BrokerTypeOK, workerVars, chanVars
    <2>2. Rechecking'
      BY <1>1, <1>2, <1>6, RecheckingKept
    <2> QED BY <1>6, <2>1, <2>2 DEF BrokerInv
  <1>7. ASSUME m.kind = "request" /\ HandleRequest(w, m.dev)
        PROVE  BrokerInv'
    <2> DEFINE e == m.dev
    <2>1. e \in Devices
      BY <1>3, <1>7, AskFields
    <2>2. UNCHANGED <<registry, acks>>
      BY <1>7 DEF HandleRequest
    <2>3. \/ DenyTo(w, e) /\ UNCHANGED lookups
          \/ UNCHANGED toWorker /\ lookups' = lookups \cup {Lookup("missing", w, e, None, 0)}
          \/ /\ UNCHANGED toWorker /\ deviceMap[e] \notin {None, w}
             /\ lookups' = lookups \cup {Lookup("grant", w, e, deviceMap[e], 0)}
      BY <1>7 DEF HandleRequest
    <2>4. \/ TellPost(w, e) /\ lookups' = lookups
          \/ /\ UNCHANGED toWorker
             /\ \E l : lookups' = lookups \cup {l} /\ l.kind # "recheck" /\ l.caller = w /\ l.dev = e
      <3>1. CASE DenyTo(w, e) /\ UNCHANGED lookups
        BY <1>2, <2>1, <3>1, DenyFacts
      <3>2. CASE UNCHANGED toWorker /\ lookups' = lookups \cup {Lookup("missing", w, e, None, 0)}
        <4> DEFINE l == Lookup("missing", w, e, None, 0)
        <4>1. l.kind # "recheck" /\ l.caller = w /\ l.dev = e
          BY DEF Lookup
        <4> HIDE DEF l
        <4> QED BY <3>2, <4>1 DEF l
      <3>3. CASE UNCHANGED toWorker /\ lookups' = lookups \cup {Lookup("grant", w, e, deviceMap[e], 0)}
        <4> DEFINE l == Lookup("grant", w, e, deviceMap[e], 0)
        <4>1. l.kind # "recheck" /\ l.caller = w /\ l.dev = e
          BY DEF Lookup
        <4> HIDE DEF l
        <4> QED BY <3>3, <4>1 DEF l
      <3> QED BY <2>3, <3>1, <3>2, <3>3
    <2>5. lookups' \subseteq Lookups
      <3>1. 0 \in 0 .. MaxChannels
        BY BrokerAssumption
      <3>2. deviceMap[e] \in Workers \cup {None}
        BY <1>2, <2>1 DEF BrokerTypeOK
      <3>3. Lookup("missing", w, e, None, 0) \in Lookups
        BY <2>1, <3>1, LookupTypes
      <3>4. deviceMap[e] \notin {None, w} => Lookup("grant", w, e, deviceMap[e], 0) \in Lookups
        BY <2>1, <3>1, <3>2, LookupTypes
      <3>5. lookups \subseteq Lookups
        BY <1>2 DEF BrokerTypeOK
      <3> QED BY <2>3, <3>3, <3>4, <3>5
    <2>6. \A l \in lookups' : l.kind = "recheck" => l \in lookups
      BY <2>4
    <2>7. toWorker' \in [Workers -> Seq(ToWorker)]
      BY <1>2, <2>4 DEF TellPost
    <2>8. m.kind = "request" /\ m.dev = e /\ m = Head(toMain[w])
      BY <1>7 DEF m
    <2> HIDE DEF e
    <2>9. Tracking'
      BY <1>1, <1>2, <1>5, <2>1, <2>2, <2>4, <2>8, RequestTaken
    <2>10. registry' \in [Pairs -> 0 .. MaxChannels] /\ acks' \subseteq Workers \X Devices \X Workers
      BY <1>2, <2>2 DEF BrokerTypeOK
    <2> QED BY <1>2, <1>6, <2>2, <2>5, <2>6, <2>7, <2>9, <2>10
  <1>8. ASSUME m.kind # "request"
        PROVE  \A v \in Workers, d \in Devices : SameAsk(v, d)
    BY <1>1, <1>2, <1>8, NoRequestTaken DEF m
  <1>9. ASSUME m.kind = "ack" /\ HandleAck(w, m)
        PROVE  BrokerInv'
    <2> DEFINE k == <<m.peer, m.dev, w>>
               g == Msg("grant", m.dev, w, 0)
    <2>1. m.dev \in Devices /\ m.peer \in Workers
      BY <1>3, <1>9, AskFields
    <2>2. acks' = acks \ {k} /\ UNCHANGED <<lookups, registry>>
          /\ IF k \in acks THEN Post(To(m.peer, g)) ELSE UNCHANGED toWorker
      BY <1>9 DEF HandleAck
    <2>3. IsFiniteSet(acks') /\ acks' \subseteq Workers \X Devices \X Workers
      BY <1>2, <2>2, FS_Subset DEF BrokerTypeOK
    <2>4. g \in ToWorker /\ g.kind \in Tells /\ g.dev = m.dev
      <3>1. 0 \in 0 .. MaxChannels
        BY BrokerAssumption
      <3> QED BY <2>1, <3>1 DEF ToWorker, Msg, Tells
    <2> HIDE DEF g
    <2>5. \A v \in Workers, d \in Devices : SameAsk(v, d) /\ SameLookups(v, d)
      BY <1>8, <1>9, <2>2, SameIfUnchanged
    <2>6. Tracking' /\ toWorker' \in [Workers -> Seq(ToWorker)]
      <3>1. CASE k \in acks
        <4>1. TellPost(m.peer, m.dev)
          BY <1>2, <2>1, <2>2, <2>4, <3>1, SendFacts
        <4>2. Tracking'
          BY <1>2, <1>5, <2>1, <2>2, <2>5, <3>1, <4>1, AckTaken
        <4> QED BY <4>1, <4>2 DEF TellPost
      <3>2. CASE k \notin acks
        <4>1. acks' = acks /\ toWorker' = toWorker
          BY <2>2, <3>2
        <4>2. \A v \in Workers, d \in Devices : SameOwed(v, d) /\ SameTold(v, d)
          BY <4>1, SameIfUnchanged
        <4> QED BY <1>2, <1>5, <2>5, <4>1, <4>2, TokensStay
      <3> QED BY <3>1, <3>2
    <2>7. registry' \in [Pairs -> 0 .. MaxChannels] /\ lookups' \subseteq Lookups
      BY <1>2, <2>2 DEF BrokerTypeOK
    <2> QED BY <1>6, <2>2, <2>3, <2>6, <2>7
  <1>10. ASSUME m.kind = "purged" /\ InvalidateWorker(w, Nothing) /\ UNCHANGED <<lookups, acks>>
         PROVE  BrokerInv'
    <2>1. /\ registry' \in [Pairs -> 0 .. MaxChannels]
          /\ \A p \in Pairs : registry'[p] \in {0, registry[p]}
          /\ QuietPost
      BY <1>2, <1>10, InvalidateQuiet
    <2>2. \A v \in Workers, d \in Devices :
            SameAsk(v, d) /\ SameLookups(v, d) /\ SameOwed(v, d) /\ SameTold(v, d)
      BY <1>8, <1>10, <2>1, SameIfUnchanged DEF QuietPost
    <2>3. Tracking'
      BY <1>2, <1>5, <2>2, TokensStay
    <2>4. toWorker' \in [Workers -> Seq(ToWorker)] /\ lookups' \subseteq Lookups
          /\ acks' \subseteq Workers \X Devices \X Workers /\ IsFiniteSet(acks')
      BY <1>2, <1>10, <2>1 DEF QuietPost, BrokerTypeOK
    <2> QED BY <1>6, <1>10, <2>1, <2>3, <2>4
  <1> QED BY <1>1, <1>7, <1>9, <1>10

\* The AuthProvider answers for a request.
LEMMA RequestAnsweredKeeps ==
  ASSUME BrokerInv, NEW l \in lookups, RequestAnswered(l)
  PROVE  BrokerInv'
  <1> DEFINE p == <<l.caller, l.callee>>
             ch == registry[p]
             nch == used + 1
  <1>1. /\ l.kind # "recheck" /\ lookups' = lookups \ {l}
        /\ UNCHANGED <<deviceMap, current, authorised, toMain, workerVars, allowed>>
        /\ \/ /\ DenyTo(l.caller, l.dev)
              /\ UNCHANGED <<registry, grants, used, acks, pair, callerEnd, calleeEnd>>
           \/ l.ok /\ l.kind = "grant" /\ ch # 0 /\ GrantOnPair(l, ch)
           \/ l.ok /\ l.kind = "grant" /\ ch = 0 /\ GrantNewPair(l)
    BY DEF RequestAnswered
  <1>2. BrokerTypeOK /\ Tracking /\ Rechecking /\ IsFiniteSet(acks)
        /\ toWorker \in [Workers -> Seq(ToWorker)]
    BY DEF BrokerInv, BrokerTypeOK
  <1>3. /\ l.caller \in Workers /\ l.dev \in Devices
        /\ l.kind = "grant" => l.callee \in Workers /\ p \in Pairs
    BY <1>2, LookupFields DEF BrokerTypeOK
  <1>4. UNCHANGED <<phase, pendingPeerInvokes, toMain>> /\ used \in Nat /\ 0 \in 0 .. MaxChannels
    BY <1>1, <1>2, BrokerAssumption DEF workerVars, BrokerTypeOK
  <1>5. ASSUME /\ registry' \in [Pairs -> 0 .. MaxChannels]
               /\ grants' \in [Channels -> SUBSET Devices] /\ used' \in 0 .. MaxChannels
               /\ acks' \subseteq Workers \X Devices \X Workers /\ IsFiniteSet(acks')
               /\ pair' \in [Channels -> (Workers \cup {None}) \X (Workers \cup {None})]
               /\ callerEnd' \in [Channels -> EndStates] /\ calleeEnd' \in [Channels -> EndStates]
               /\ \/ TellPost(l.caller, l.dev) /\ acks' = acks
                  \/ QuietPost /\ l.callee \in Workers /\ acks' = acks \cup {<<l.caller, l.dev, l.callee>>}
               /\ Rechecking'
        PROVE  BrokerInv'
    <2>1. toWorker' \in [Workers -> Seq(ToWorker)]
      BY <1>5 DEF TellPost, QuietPost
    <2>2. BrokerTypeOK'
      BY <1>1, <1>2, <1>5, <2>1 DEF BrokerTypeOK, workerVars
    <2>3. Tracking'
      BY <1>1, <1>2, <1>4, <1>5, LookupAnswered
    <2> QED BY <1>5, <2>2, <2>3 DEF BrokerInv
  <1>6. ASSUME DenyTo(l.caller, l.dev), UNCHANGED <<registry, grants, used, acks, pair, callerEnd, calleeEnd>>
        PROVE  BrokerInv'
    <2>1. TellPost(l.caller, l.dev)
      BY <1>2, <1>3, <1>6, DenyFacts
    <2>2. Rechecking'
      BY <1>1, <1>2, <1>6 DEF Rechecking
    <2> QED BY <1>2, <1>5, <1>6, <2>1, <2>2 DEF BrokerTypeOK
  <1>7. ASSUME l.ok /\ l.kind = "grant" /\ ch # 0 /\ GrantOnPair(l, ch)
        PROVE  BrokerInv'
    <2>1. p \in Pairs /\ l.callee \in Workers
      BY <1>3, <1>7
    <2>2. ch \in Channels /\ ch \in 1 .. used
      BY <1>2, <1>4, <1>7, <2>1, BrokerAssumption DEF BrokerTypeOK, Channels, Rechecking
    <2>3. /\ grants' = [grants EXCEPT ![ch] = @ \cup {l.dev}]
          /\ UNCHANGED <<registry, used, pair, callerEnd, calleeEnd>>
          /\ \/ DenyTo(l.caller, l.dev) /\ UNCHANGED acks
             \/ /\ Post(To(l.callee, Msg("allow", l.dev, l.caller, 0)))
                /\ acks' = acks \cup {<<l.caller, l.dev, l.callee>>}
      BY <1>7 DEF GrantOnPair
    <2> HIDE DEF p, ch
    <2>4. grants' \in [Channels -> SUBSET Devices]
      BY <1>2, <1>3, <2>2, <2>3 DEF BrokerTypeOK
    <2>5. \/ TellPost(l.caller, l.dev) /\ acks' = acks
          \/ QuietPost /\ l.callee \in Workers /\ acks' = acks \cup {<<l.caller, l.dev, l.callee>>}
      <3>1. CASE DenyTo(l.caller, l.dev) /\ UNCHANGED acks
        BY <1>2, <1>3, <3>1, DenyFacts
      <3>2. CASE /\ Post(To(l.callee, Msg("allow", l.dev, l.caller, 0)))
                 /\ acks' = acks \cup {<<l.caller, l.dev, l.callee>>}
        <4> DEFINE m == Msg("allow", l.dev, l.caller, 0)
        <4>1. m \in ToWorker /\ m.kind \notin Tells
          BY <1>3, <1>4 DEF ToWorker, Msg, Tells
        <4>2. Post(To(l.callee, m))
          BY <3>2
        <4> HIDE DEF m
        <4>3. QuietPost
          BY <1>2, <2>1, <4>1, <4>2, SendFacts
        <4> QED BY <2>1, <3>2, <4>3
      <3> QED BY <2>3, <3>1, <3>2
    <2>6. acks' \subseteq Workers \X Devices \X Workers /\ IsFiniteSet(acks')
      <3>1. acks' = acks \/ acks' = acks \cup {<<l.caller, l.dev, l.callee>>}
        BY <2>3
      <3>2. IsFiniteSet(acks \cup {<<l.caller, l.dev, l.callee>>})
        BY <1>2, FS_AddElement
      <3>3. <<l.caller, l.dev, l.callee>> \in Workers \X Devices \X Workers
        BY <1>3, <2>1
      <3>4. acks \subseteq Workers \X Devices \X Workers
        BY <1>2 DEF BrokerTypeOK
      <3>5. acks' \subseteq Workers \X Devices \X Workers
        BY <3>1, <3>3, <3>4
      <3> QED BY <1>2, <3>1, <3>2, <3>5
    <2>7. Rechecking'
      <3>1. \A k \in lookups' : k.kind = "recheck" => k.ch \in 1 .. used /\ k.dev \in grants[k.ch]
        BY <1>1, <1>2 DEF Rechecking
      <3>2. \A k \in 1 .. used : grants[k] \subseteq grants'[k]
        <4>1. \A k \in 1 .. used : k \in Channels
          BY <1>2, BrokerAssumption DEF BrokerTypeOK, Channels
        <4> QED BY <1>2, <2>3, <4>1 DEF BrokerTypeOK
      <3> QED BY <1>2, <2>3, <3>1, <3>2 DEF Rechecking
    <2> QED BY <1>2, <1>5, <2>3, <2>4, <2>5, <2>6, <2>7 DEF BrokerTypeOK
  <1>8. ASSUME l.ok /\ l.kind = "grant" /\ ch = 0 /\ GrantNewPair(l)
        PROVE  BrokerInv'
    <2>1. p \in Pairs /\ l.callee \in Workers
      BY <1>3, <1>8
    <2>2. /\ nch <= MaxChannels /\ used' = nch
          /\ registry' = [registry EXCEPT ![p] = nch] /\ grants' = [grants EXCEPT ![nch] = {l.dev}]
          /\ pair' = [pair EXCEPT ![nch] = p]
          /\ callerEnd' = [callerEnd EXCEPT ![nch] = PostedPort(l.caller)]
          /\ calleeEnd' = [calleeEnd EXCEPT ![nch] = PostedPort(l.callee)]
          /\ Post([Nothing EXCEPT ![l.callee] = <<Msg("open", l.dev, l.caller, nch)>>,
                                  ![l.caller] = <<Msg("grant", l.dev, l.callee, nch)>>])
          /\ UNCHANGED acks
      BY <1>8 DEF GrantNewPair
    <2>3. nch \in Channels /\ nch \in 0 .. MaxChannels
      BY <1>4, <2>2, BrokerAssumption DEF Channels
    <2>4. registry' \in [Pairs -> 0 .. MaxChannels] /\ used' \in 0 .. MaxChannels
      BY <1>2, <2>1, <2>2, <2>3 DEF BrokerTypeOK
    <2>5. grants' \in [Channels -> SUBSET Devices]
      BY <1>2, <1>3, <2>2, <2>3 DEF BrokerTypeOK
    <2>6. pair' \in [Channels -> (Workers \cup {None}) \X (Workers \cup {None})]
      BY <1>2, <1>3, <2>1, <2>2, <2>3 DEF BrokerTypeOK
    <2>7. callerEnd' \in [Channels -> EndStates] /\ calleeEnd' \in [Channels -> EndStates]
      <3>1. PostedPort(l.caller) \in EndStates /\ PostedPort(l.callee) \in EndStates
        BY DEF PostedPort, EndStates
      <3> QED BY <1>2, <2>2, <2>3, <3>1 DEF BrokerTypeOK
    <2>8. TellPost(l.caller, l.dev)
      <3> DEFINE o == Msg("open", l.dev, l.caller, nch)
                 g == Msg("grant", l.dev, l.callee, nch)
                 out == [Nothing EXCEPT ![l.callee] = <<o>>, ![l.caller] = <<g>>]
      <3>1. /\ o \in ToWorker /\ \A d \in Devices : ~Fits(o, Tells, d)
            /\ g \in ToWorker /\ g.kind \in Tells /\ g.dev = l.dev
        BY <1>3, <2>1, <2>3 DEF ToWorker, Msg, Tells, Fits
      <3>2. Post(out)
        BY <2>2
      <3> HIDE DEF o, g
      <3>3. <<o>> \in Seq(ToWorker) /\ <<g>> \in Seq(ToWorker) /\ <<>> \in Seq(ToWorker)
        BY <3>1
      <3>4. /\ out \in [Workers -> Seq(ToWorker)] /\ out[l.caller] = <<g>>
            /\ \A v \in Workers : v # l.caller => out[v] \in {<<o>>, <<>>}
        BY <1>3, <2>1, <3>3 DEF Nothing
      <3> HIDE DEF out
      <3>5. \A v \in Workers, d \in Devices : v # l.caller => ~Holds(out[v], Tells, d)
        BY <3>1, <3>4, HoldsSingle, HoldsEmpty
      <3> QED BY <1>2, <1>3, <3>1, <3>2, <3>4, <3>5, PostTell
    <2>9. Rechecking'
      <3> HIDE DEF p
      <3>1. \A q \in Pairs : registry'[q] <= used'
        <4> SUFFICES ASSUME NEW q \in Pairs PROVE registry'[q] <= used + 1
          BY <2>2
        <4>1. registry[q] \in Nat /\ registry[q] <= used
          BY <1>2, BrokerAssumption DEF BrokerTypeOK, Rechecking
        <4>2. registry'[q] = registry[q] \/ registry'[q] = used + 1
          BY <1>2, <2>2 DEF BrokerTypeOK
        <4> QED BY <1>4, <4>1, <4>2
      <3>2. \A k \in lookups' : k.kind = "recheck" => k.ch \in 1 .. used /\ k.dev \in grants[k.ch]
        BY <1>1, <1>2 DEF Rechecking
      <3>3. \A k \in 1 .. used : k \in 1 .. used' /\ grants'[k] = grants[k]
        <4> SUFFICES ASSUME NEW k \in 1 .. used PROVE k \in 1 .. used' /\ grants'[k] = grants[k]
          OBVIOUS
        <4>1. k \in Channels /\ k # nch /\ k \in 1 .. (used + 1)
          BY <1>2, <1>4, BrokerAssumption DEF BrokerTypeOK, Channels
        <4> QED BY <1>2, <2>2, <4>1 DEF BrokerTypeOK
      <3> QED BY <3>1, <3>2, <3>3 DEF Rechecking
    <2>10. acks' \subseteq Workers \X Devices \X Workers /\ IsFiniteSet(acks') /\ acks' = acks
      BY <1>2, <2>2 DEF BrokerTypeOK
    <2> QED BY <1>5, <2>4, <2>5, <2>6, <2>7, <2>8, <2>9, <2>10
  <1> QED BY <1>1, <1>6, <1>7, <1>8

\* The recheck interval ticks.
LEMMA RecheckGrantsKeeps ==
  ASSUME BrokerInv, RecheckGrants
  PROVE  BrokerInv'
  <1> DEFINE open == {q \in Pairs : registry[q] # 0}
             new == UNION {{Lookup("recheck", p[1], d, p[2], registry[p]) : d \in grants[registry[p]]} : p \in open}
  <1>1. lookups' = lookups \cup new
        /\ UNCHANGED <<deviceMap, registry, grants, used, current, acks, authorised,
                       toWorker, toMain, workerVars, chanVars>>
    BY DEF RecheckGrants
  <1>2. BrokerTypeOK /\ Tracking /\ Rechecking /\ IsFiniteSet(acks)
    BY DEF BrokerInv
  <1>3. ASSUME NEW l \in new
        PROVE  /\ l \in Lookups /\ l.kind = "recheck"
               /\ l.ch \in 1 .. used /\ l.dev \in grants[l.ch]
    <2>1. PICK p \in open : \E d \in grants[registry[p]] :
            l = Lookup("recheck", p[1], d, p[2], registry[p])
      OBVIOUS
    <2>2. PICK d \in grants[registry[p]] : l = Lookup("recheck", p[1], d, p[2], registry[p])
      BY <2>1
    <2>3. /\ p \in Pairs /\ registry[p] # 0 /\ p[1] \in Workers /\ p[2] \in Workers
      BY DEF Pairs
    <2>4. registry[p] \in Channels /\ registry[p] \in 0 .. MaxChannels /\ registry[p] \in 1 .. used
      BY <1>2, <2>3, BrokerAssumption DEF BrokerTypeOK, Channels, Rechecking
    <2>5. d \in Devices
      BY <1>2, <2>4 DEF BrokerTypeOK
    <2>6. l \in Lookups
      BY <2>2, <2>3, <2>4, <2>5, LookupTypes
    <2>7. l.kind = "recheck" /\ l.ch = registry[p] /\ l.dev = d
      BY <2>2 DEF Lookup
    <2> QED BY <2>2, <2>4, <2>6, <2>7
  <1> HIDE DEF new
  <1>4. BrokerTypeOK'
    <2>1. lookups' \subseteq Lookups
      BY <1>1, <1>2, <1>3 DEF BrokerTypeOK
    <2> QED BY <1>1, <1>2, <2>1 DEF BrokerTypeOK, workerVars, chanVars
  <1>5. Rechecking'
    BY <1>1, <1>2, <1>3 DEF Rechecking
  <1>6. Tracking'
    <2>1. \A w \in Workers, d \in Devices : SameLookups(w, d)
      BY <1>1, <1>3 DEF SameLookups, Asking
    <2>2. \A w \in Workers, d \in Devices : SameAsk(w, d) /\ SameTold(w, d) /\ SameOwed(w, d)
      BY <1>1, SameIfUnchanged
    <2> QED BY <1>1, <1>2, <2>1, <2>2, TokensStay DEF workerVars
  <1> QED BY <1>1, <1>2, <1>4, <1>5, <1>6 DEF BrokerInv

\* The AuthProvider answers for a recheck: only the entry asked about is closed.
LEMMA RecheckAnsweredFacts ==
  ASSUME BrokerTypeOK, NEW l \in lookups, RecheckAnswered(l)
  PROVE  /\ QuietPost /\ registry' \in [Pairs -> 0 .. MaxChannels]
         /\ \A p \in Pairs : \/ registry'[p] = registry[p]
                             \/ p = <<l.caller, l.callee>> /\ registry'[p] = 0 /\ registry[p] = l.ch
  <1> DEFINE c == <<l.caller, l.callee>>
             a == Msg("invalidate", None, l.callee, 0)
             b == Msg("invalidate", None, l.caller, 0)
             out == [Nothing EXCEPT ![l.caller] = <<a>>, ![l.callee] = <<b>>]
  <1>1. /\ l.kind = "recheck"
        /\ \/ UNCHANGED <<registry, toWorker>>
           \/ registry[c] = l.ch /\ registry' = [registry EXCEPT ![c] = 0] /\ Post(out)
    <2>1. l.kind = "recheck" /\ (UNCHANGED <<registry, toWorker>> \/ CloseRevoked(l))
      BY DEF RecheckAnswered
    <2>2. ASSUME CloseRevoked(l), registry[c] # l.ch
          PROVE  UNCHANGED <<registry, toWorker>>
      BY <2>2 DEF CloseRevoked
    <2>3. ASSUME CloseRevoked(l), registry[c] = l.ch
          PROVE  registry' = [registry EXCEPT ![c] = 0] /\ Post(out)
      BY <2>3 DEF CloseRevoked
    <2>4. CASE UNCHANGED <<registry, toWorker>>
      BY <2>1, <2>4
    <2>5. CASE CloseRevoked(l)
      <3> DEFINE same == registry[c] = l.ch
      <3>1. CASE same
        BY <2>1, <2>3, <2>5, <3>1
      <3>2. CASE ~same
        BY <2>1, <2>2, <2>5, <3>2
      <3> QED BY <3>1, <3>2
    <2> QED BY <2>1, <2>4, <2>5
  <1>2. l.caller \in Workers /\ l.callee \in Workers /\ c \in Pairs
    BY <1>1, LookupFields DEF BrokerTypeOK
  <1>3. CASE UNCHANGED <<registry, toWorker>>
    <2>1. \A v \in Workers, d \in Devices : SameTold(v, d)
      BY <1>3, SameIfUnchanged
    <2> QED BY <1>3, <2>1 DEF QuietPost, BrokerTypeOK
  <1>4. CASE registry[c] = l.ch /\ registry' = [registry EXCEPT ![c] = 0] /\ Post(out)
    <2>1. /\ a \in ToWorker /\ \A d \in Devices : ~Fits(a, Tells, d)
          /\ b \in ToWorker /\ \A d \in Devices : ~Fits(b, Tells, d)
      BY <1>2 DEF ToWorker, Msg, Tells, Fits
    <2> HIDE DEF a, b
    <2>2. <<a>> \in Seq(ToWorker) /\ <<b>> \in Seq(ToWorker) /\ <<>> \in Seq(ToWorker)
      BY <2>1
    <2>3. /\ out \in [Workers -> Seq(ToWorker)]
          /\ \A v \in Workers : out[v] \in {<<a>>, <<b>>, <<>>}
      BY <1>2, <2>2 DEF Nothing
    <2> HIDE DEF out
    <2>4. \A v \in Workers, d \in Devices : ~Holds(out[v], Tells, d)
      BY <2>1, <2>3, HoldsSingle, HoldsEmpty
    <2>5. QuietPost
      BY <1>4, <2>3, <2>4, PostQuiet DEF BrokerTypeOK
    <2> HIDE DEF c
    <2>6. 0 \in 0 .. MaxChannels
      BY BrokerAssumption
    <2>7. /\ registry' \in [Pairs -> 0 .. MaxChannels] /\ registry'[c] = 0
          /\ \A p \in Pairs : p # c => registry'[p] = registry[p]
      BY <1>2, <1>4, <2>6 DEF BrokerTypeOK
    <2> QED BY <1>4, <2>5, <2>7 DEF c
  <1> QED BY <1>1, <1>3, <1>4

\* RecheckAnswered: the verdict on one granted device; a revocation closes the entry.
LEMMA RecheckAnsweredKeeps ==
  ASSUME BrokerInv, NEW l \in lookups, RecheckAnswered(l)
  PROVE  BrokerInv'
  <1>1. BrokerTypeOK /\ Tracking /\ Rechecking /\ IsFiniteSet(acks)
    BY DEF BrokerInv
  <1>2. /\ l.kind = "recheck" /\ lookups' = lookups \ {l}
        /\ UNCHANGED <<deviceMap, grants, used, current, acks, authorised, toMain, workerVars, chanVars>>
    BY DEF RecheckAnswered
  <1>3. /\ QuietPost /\ registry' \in [Pairs -> 0 .. MaxChannels]
        /\ \A p \in Pairs : registry'[p] \in {0, registry[p]}
    BY <1>1, RecheckAnsweredFacts
  <1>4. BrokerTypeOK'
    BY <1>1, <1>2, <1>3 DEF BrokerTypeOK, QuietPost, workerVars, chanVars
  <1>5. Rechecking'
    BY <1>1, <1>2, <1>3, RecheckingKept
  <1>6. Tracking'
    <2>1. \A w \in Workers, d \in Devices : SameLookups(w, d)
      BY <1>2 DEF SameLookups, Asking
    <2>2. \A w \in Workers, d \in Devices : SameAsk(w, d) /\ SameTold(w, d) /\ SameOwed(w, d)
      BY <1>2, <1>3, SameIfUnchanged DEF QuietPost
    <2> QED BY <1>1, <1>2, <2>1, <2>2, TokensStay DEF workerVars
  <1> QED BY <1>1, <1>2, <1>4, <1>5, <1>6 DEF BrokerInv

\* An unload: the pairs of the worker are forgotten.
LEMMA UnloadModuleKeeps ==
  ASSUME BrokerInv, NEW w \in Workers, UnloadModule(w)
  PROVE  BrokerInv'
  <1>1. BrokerTypeOK /\ Tracking /\ Rechecking /\ IsFiniteSet(acks)
    BY DEF BrokerInv
  <1>2. /\ current' = current \ {w} /\ deviceMap' = WithoutDevicesOf(w) /\ InvalidateWorker(w, Nothing)
        /\ UNCHANGED <<grants, used, lookups, acks, authorised, toMain, workerVars, chanVars>>
    BY DEF UnloadModule
  <1>3. /\ QuietPost /\ registry' \in [Pairs -> 0 .. MaxChannels]
        /\ \A p \in Pairs : registry'[p] \in {0, registry[p]}
    BY <1>1, <1>2, InvalidateQuiet
  <1>4. BrokerTypeOK'
    <2>1. deviceMap' \in [Devices -> Workers \cup {None}] /\ current' \subseteq Workers
      BY <1>1, <1>2 DEF BrokerTypeOK, WithoutDevicesOf
    <2> QED BY <1>1, <1>2, <1>3, <2>1 DEF BrokerTypeOK, QuietPost, workerVars, chanVars
  <1>5. Rechecking'
    BY <1>1, <1>2, <1>3, RecheckingKept
  <1>6. Tracking'
    <2>1. \A v \in Workers, d \in Devices :
            SameAsk(v, d) /\ SameTold(v, d) /\ SameOwed(v, d) /\ SameLookups(v, d)
      BY <1>2, <1>3, SameIfUnchanged DEF QuietPost
    <2> QED BY <1>1, <1>2, <2>1, TokensStay DEF workerVars
  <1> QED BY <1>1, <1>2, <1>4, <1>5, <1>6 DEF BrokerInv

\* An acknowledgement awaited is of a caller, for a device, from a callee.
LEMMA AckFields ==
  ASSUME BrokerTypeOK
  PROVE  \A a \in acks : a = <<a[1], a[2], a[3]>> /\ a[1] \in Workers /\ a[2] \in Devices /\ a[3] \in Workers
  <1>1. acks \subseteq Workers \X Devices \X Workers
    BY DEF BrokerTypeOK
  <1>2. \A a \in Workers \X Devices \X Workers :
          a = <<a[1], a[2], a[3]>> /\ a[1] \in Workers /\ a[2] \in Devices /\ a[3] \in Workers
    OBVIOUS
  <1> QED BY <1>1, <1>2

\* The denials endWith posts when a callee has exited: one for every allow it owes.
LEMMA OwedFacts ==
  ASSUME BrokerTypeOK, IsFiniteSet(acks), NEW w \in Workers, NEW v \in Workers
  PROVE  LET owed == SetToSeq({Msg("deny", k[2], None, 0) : k \in {j \in acks : j[1] = v /\ j[3] = w}})
         IN  /\ owed \in Seq(ToWorker)
             /\ \A d \in Devices : /\ Holds(owed, Tells, d) <=> <<v, d, w>> \in acks
                                   /\ HoldsOne(owed, Tells, d)
             /\ \A i \in DOMAIN owed : owed[i].kind = "deny"
  <1> DEFINE S == {j \in acks : j[1] = v /\ j[3] = w}
             D == {Msg("deny", k[2], None, 0) : k \in S}
             owed == SetToSeq(D)
  <1>1. IsFiniteSet(S)
    BY FS_Subset
  <1>2. IsFiniteSet(D)
    <2> DEFINE f == [k \in S |-> Msg("deny", k[2], None, 0)]
    <2> HIDE DEF S
    <2>1. f \in Surjection(S, D)
      BY DEF Surjection
    <2> HIDE DEF f, D
    <2> QED BY <1>1, <2>1, FS_Surjection
  <1>3. \A k \in S : k = <<v, k[2], w>> /\ k[2] \in Devices /\ k \in acks
    BY AckFields
  <1>4. \A m \in D : m \in ToWorker /\ m.kind = "deny" /\ m.dev \in Devices /\ <<v, m.dev, w>> \in acks
                     /\ m = Msg("deny", m.dev, None, 0)
    <2> SUFFICES ASSUME NEW m \in D
                 PROVE  m \in ToWorker /\ m.kind = "deny" /\ m.dev \in Devices /\ <<v, m.dev, w>> \in acks
                        /\ m = Msg("deny", m.dev, None, 0)
      OBVIOUS
    <2>1. PICK k \in S : m = Msg("deny", k[2], None, 0)
      OBVIOUS
    <2>2. k[2] \in Devices /\ <<v, k[2], w>> \in acks
      BY <1>3
    <2>3. m.kind = "deny" /\ m.dev = k[2]
      BY <2>1 DEF Msg
    <2>4. m \in ToWorker
      BY <2>1, <2>2 DEF Msg, ToWorker
    <2> QED BY <2>1, <2>2, <2>3, <2>4
  <1>5. ASSUME NEW d \in Devices, <<v, d, w>> \in acks PROVE Msg("deny", d, None, 0) \in D
    <2> DEFINE k == <<v, d, w>>
    <2>1. k \in S /\ k[2] = d
      BY <1>5
    <2> QED BY <2>1
  <1> HIDE DEF D
  <1>6. /\ owed \in Seq(D) /\ \A i, j \in DOMAIN owed : owed[i] = owed[j] => i = j
        /\ \A x \in D : \E i \in DOMAIN owed : owed[i] = x
    BY <1>2, OrderFacts
  <1> HIDE DEF owed
  <1>7. \A i \in DOMAIN owed : owed[i] \in D
    BY <1>6
  <1>8. owed \in Seq(ToWorker)
    <2>1. Len(owed) \in Nat /\ DOMAIN owed = 1 .. Len(owed) /\ owed \in [1 .. Len(owed) -> D]
      BY <1>6, LenProperties
    <2>2. owed \in [1 .. Len(owed) -> ToWorker]
      BY <1>4, <2>1
    <2> QED BY <2>1, <2>2
  <1>9. ASSUME NEW d \in Devices
        PROVE  (Holds(owed, Tells, d) <=> <<v, d, w>> \in acks) /\ HoldsOne(owed, Tells, d)
    <2>1. ASSUME Holds(owed, Tells, d) PROVE <<v, d, w>> \in acks
      BY <1>4, <1>7, <2>1 DEF Holds
    <2>2. ASSUME <<v, d, w>> \in acks PROVE Holds(owed, Tells, d)
      <3>1. PICK i \in DOMAIN owed : owed[i] = Msg("deny", d, None, 0)
        BY <1>5, <1>6, <2>2
      <3>2. owed[i].kind \in Tells /\ owed[i].dev = d
        BY <3>1 DEF Msg, Tells
      <3> QED BY <3>2 DEF Holds
    <2>3. HoldsOne(owed, Tells, d)
      <3> SUFFICES ASSUME NEW i \in DOMAIN owed, NEW j \in DOMAIN owed, owed[i].dev = d, owed[j].dev = d
                   PROVE  i = j
        BY DEF HoldsOne
      <3>1. owed[i] = Msg("deny", d, None, 0) /\ owed[j] = Msg("deny", d, None, 0)
        BY <1>4, <1>7
      <3> QED BY <1>6, <3>1
    <2> QED BY <2>1, <2>2, <2>3
  <1>10. \A i \in DOMAIN owed : owed[i].kind = "deny"
    BY <1>4, <1>7
  <1> QED BY <1>8, <1>9, <1>10 DEF owed, D

\* The 'exit' event: whoever waited for the callee is told.
LEMMA ExitEventKeeps ==
  ASSUME BrokerInv, NEW w \in Workers, ExitEvent(w)
  PROVE  BrokerInv'
  <1> DEFINE owed == [v \in Workers |-> SetToSeq(
                 {Msg("deny", k[2], None, 0) : k \in {j \in acks : j[1] = v /\ j[3] = w}})]
  <1>1. BrokerTypeOK /\ Tracking /\ Rechecking /\ IsFiniteSet(acks) /\ toWorker \in [Workers -> Seq(ToWorker)]
    BY DEF BrokerInv, BrokerTypeOK
  <1>2. /\ phase[w] = "exited" /\ phase' = [phase EXCEPT ![w] = "ended"]
        /\ \/ deviceMap' = WithoutDevicesOf(w) /\ InvalidateWorker(w, owed)
           \/ Post(owed) /\ UNCHANGED <<deviceMap, registry>>
        /\ current' = current \ {w} /\ acks' = {k \in acks : k[3] # w}
        /\ UNCHANGED <<grants, used, lookups, authorised, toMain, peerDeviceWorkerMap,
                       peerChannels, pendingPeerInvokes, chanVars>>
    BY DEF ExitEvent
  <1>3. ASSUME NEW v \in Workers
        PROVE  /\ owed[v] \in Seq(ToWorker)
               /\ \A d \in Devices : /\ Holds(owed[v], Tells, d) <=> <<v, d, w>> \in acks
                                     /\ HoldsOne(owed[v], Tells, d)
    <2>1. owed[v] = SetToSeq({Msg("deny", k[2], None, 0) : k \in {j \in acks : j[1] = v /\ j[3] = w}})
      OBVIOUS
    <2> HIDE DEF owed
    <2> QED BY <1>1, <2>1, OwedFacts
  <1>4. owed \in [Workers -> Seq(ToWorker)]
    BY <1>3
  <1> HIDE DEF owed
  <1>5. /\ registry' \in [Pairs -> 0 .. MaxChannels]
        /\ \A p \in Pairs : registry'[p] \in {0, registry[p]}
        /\ \E out \in [Workers -> Seq(ToWorker)] :
              /\ Post(out)
              /\ \A v \in Workers, d \in Devices :
                   (Holds(out[v], Tells, d) <=> <<v, d, w>> \in acks) /\ HoldsOne(out[v], Tells, d)
    <2>1. CASE InvalidateWorker(w, owed)
      <3>1. /\ registry' \in [Pairs -> 0 .. MaxChannels]
            /\ \A p \in Pairs : registry'[p] \in {0, registry[p]}
            /\ \E out \in [Workers -> Seq(ToWorker)] :
                 /\ Post(out)
                 /\ \A v \in Workers, d \in Devices :
                      /\ Holds(out[v], Tells, d) <=> Holds(owed[v], Tells, d)
                      /\ HoldsOne(owed[v], Tells, d) => HoldsOne(out[v], Tells, d)
        BY <1>1, <1>4, <2>1, InvalidateFacts
      <3> QED BY <1>3, <3>1
    <2>2. CASE Post(owed) /\ UNCHANGED registry
      BY <1>1, <1>3, <1>4, <2>2 DEF BrokerTypeOK
    <2> QED BY <1>2, <2>1, <2>2
  <1>6. PICK out \in [Workers -> Seq(ToWorker)] :
              /\ Post(out)
              /\ \A v \in Workers, d \in Devices :
                   (Holds(out[v], Tells, d) <=> <<v, d, w>> \in acks) /\ HoldsOne(out[v], Tells, d)
    BY <1>5
  <1>7. toWorker' \in [Workers -> Seq(ToWorker)]
    BY <1>1, <1>6, PostFacts
  <1>8. /\ phase' \in [Workers -> Phases] /\ phase'[w] = "ended"
        /\ \A v \in Workers : v # w => phase'[v] = phase[v]
    BY <1>1, <1>2 DEF BrokerTypeOK, Phases
  <1>9. IsFiniteSet(acks') /\ acks' \subseteq acks
    BY <1>1, <1>2, FS_Subset
  <1>10. BrokerTypeOK'
    <2>1. deviceMap' \in [Devices -> Workers \cup {None}] /\ current' \subseteq Workers
      BY <1>1, <1>2 DEF BrokerTypeOK, WithoutDevicesOf
    <2> QED BY <1>1, <1>2, <1>5, <1>7, <1>8, <1>9, <2>1 DEF BrokerTypeOK, chanVars
  <1>11. Rechecking'
    BY <1>1, <1>2, <1>5, RecheckingKept
  <1>12. Tracking'
    <2>1. ASSUME NEW v \in Workers, phase'[v] \notin {"exited", "ended"}
          PROVE  /\ phase[v] \notin {"exited", "ended"} /\ phase'[v] = phase[v]
                 /\ \A d \in Devices : Tracked(v, d)'
      <3>1. phase[v] \notin {"exited", "ended"} /\ phase'[v] = phase[v]
        BY <1>8, <2>1
      <3>2. ASSUME NEW d \in Devices PROVE Tracked(v, d)'
        <4>1. Tracked(v, d) /\ SameAsk(v, d) /\ SameLookups(v, d) /\ SameWait(v, d)
          BY <1>1, <1>2, <3>1, SameIfUnchanged DEF Tracking
        <4>2. CASE <<v, d, w>> \notin acks
          <5>1. SameTold(v, d)
            BY <1>1, <1>6, <4>2, PostedTokens
          <5>2. \A a \in acks : a = <<a[1], a[2], a[3]>>
            BY <1>1, AckFields
          <5>3. SameOwed(v, d)
            BY <1>2, <4>2, <5>2 DEF SameOwed, Owing
          <5> QED BY <4>1, <5>1, <5>3, TrackedSame
        <4>3. CASE <<v, d, w>> \in acks
          <5>1. <<v, d, w>> \in Owing(acks, v, d)
            BY <4>3 DEF Owing
          <5>2. /\ Lone(Owing(acks, v, d)) /\ Asking(lookups, v, d) = {} /\ d \in pendingPeerInvokes[v]
                /\ ~Holds(toMain[v], Ask, d) /\ HoldsOne(toMain[v], Ask, d)
                /\ ~Holds(toWorker[v], Tells, d)
            BY <4>1, <5>1 DEF Tracked, OneToken
          <5>3. v \in Up
            BY <1>1, <3>1, <5>2, WaitingIsUp
          <5>4. Holds(toWorker'[v], Tells, d) /\ HoldsOne(toWorker'[v], Tells, d)
            BY <1>1, <1>6, <4>3, <5>2, <5>3, PostedTokens
          <5>5. Owing(acks', v, d) = {}
            <6>1. \A a \in Owing(acks, v, d) : a = <<v, d, w>> /\ a[3] = w
              BY <5>1, <5>2 DEF Lone
            <6> QED BY <1>2, <6>1 DEF Owing
          <5>6. Lone({})
            BY DEF Lone
          <5> QED BY <1>2, <5>2, <5>4, <5>5, <5>6 DEF Tracked, OneToken
        <4> QED BY <4>2, <4>3
      <3> QED BY <3>1, <3>2
    <2> QED BY <1>1, <1>2, <2>1, TrackingSplit
  <1> QED BY <1>9, <1>10, <1>11, <1>12 DEF BrokerInv

-----------------------------------------------------------------------------
\* Initially nothing is asked for.
LEMMA BrokerStarts == BrokerInit => BrokerInv
  <1> SUFFICES ASSUME BrokerInit PROVE BrokerInv
    OBVIOUS
  <1>1. 0 \in 0 .. MaxChannels /\ <<>> \in Seq(ToWorker) /\ <<>> \in Seq(ToMain)
    BY BrokerAssumption
  <1>2. BrokerTypeOK
    <2>1. /\ deviceMap \in [Devices -> Workers \cup {None}] /\ registry \in [Pairs -> 0 .. MaxChannels]
          /\ grants \in [Channels -> SUBSET Devices] /\ used \in 0 .. MaxChannels
          /\ lookups \subseteq Lookups /\ acks \subseteq Workers \X Devices \X Workers
          /\ authorised \subseteq Uses /\ current \subseteq Workers
      BY <1>1, BrokerAssumption DEF BrokerInit
    <2>2. toWorker \in [Workers -> Seq(ToWorker)] /\ toMain \in [Workers -> Seq(ToMain)]
      BY <1>1 DEF BrokerInit
    <2>3. phase \in [Workers -> Phases]
      BY DEF BrokerInit, Phases
    <2>4. /\ peerDeviceWorkerMap \in [Workers -> [Devices -> Workers \cup {None}]]
          /\ peerChannels \in [Workers -> [Workers -> 0 .. MaxChannels]]
          /\ pendingPeerInvokes \in [Workers -> SUBSET Devices]
      BY <1>1 DEF BrokerInit
    <2>5. /\ pair \in [Channels -> (Workers \cup {None}) \X (Workers \cup {None})]
          /\ callerEnd \in [Channels -> EndStates] /\ calleeEnd \in [Channels -> EndStates]
          /\ allowed \in [Channels -> SUBSET Devices]
      BY DEF BrokerInit, EndStates
    <2> QED BY <2>1, <2>2, <2>3, <2>4, <2>5 DEF BrokerTypeOK
  <1>3. IsFiniteSet(acks) /\ Rechecking
    BY <1>1, FS_EmptySet, BrokerAssumption DEF BrokerInit, Rechecking
  <1>4. Tracking
    <2> SUFFICES ASSUME NEW w \in Workers, NEW d \in Devices
                 PROVE  Tracked(w, d) /\ pendingPeerInvokes[w] = {}
      BY DEF Tracking, BrokerInit
    <2>1. /\ toMain[w] = <<>> /\ toWorker[w] = <<>> /\ pendingPeerInvokes[w] = {}
          /\ Asking(lookups, w, d) = {} /\ Owing(acks, w, d) = {}
      BY DEF BrokerInit, Asking, Owing
    <2>2. Lone({})
      BY DEF Lone
    <2> QED BY <2>1, <2>2, HoldsEmpty DEF Tracked, OneToken
  <1> QED BY <1>2, <1>3, <1>4 DEF BrokerInv

\* Every step keeps the invariant.
LEMMA BrokerSteps == BrokerInv /\ [BrokerNext]_brokerVars => BrokerInv'
  <1> SUFFICES ASSUME BrokerInv, [BrokerNext]_brokerVars PROVE BrokerInv'
    OBVIOUS
  <1>1. ASSUME NEW w \in Workers, NEW d \in Devices, Call(w, d) PROVE BrokerInv'
    BY <1>1, CallKeeps
  <1>2. ASSUME NEW w \in Workers, NEW ch \in Channels, PortClose(w, ch) PROVE BrokerInv'
    BY <1>2, PortCloseKeeps
  <1>3. ASSUME NEW w \in Workers, WorkerReceives(w) \/ WorkerPurges(w) \/ WorkerExits(w)
        PROVE  BrokerInv'
    BY <1>3, WorkerReceivesKeeps, WorkerPurgesKeeps, WorkerExitsKeeps
  <1>4. ASSUME NEW w \in Workers,
               MainReceives(w) \/ StartUnload(w) \/ UnloadModule(w) \/ ExitEvent(w) \/ Restart(w)
        PROVE  BrokerInv'
    BY <1>4, MainReceivesKeeps, LifeKeeps, UnloadModuleKeeps, ExitEventKeeps
  <1>5. ASSUME NEW l \in lookups, RequestAnswered(l) \/ RecheckAnswered(l) PROVE BrokerInv'
    BY <1>5, RequestAnsweredKeeps, RecheckAnsweredKeeps
  <1>6. ASSUME RecheckGrants PROVE BrokerInv'
    BY <1>6, RecheckGrantsKeeps
  <1>7. ASSUME NEW u \in Uses, Revoke(u) PROVE BrokerInv'
    <2>1. \E w \in Workers : TRUE
      BY BrokerAssumption
    <2> QED BY <1>7, <2>1, LifeKeeps
  <1>8. CASE UNCHANGED brokerVars
    <2>1. UNCHANGED <<deviceMap, registry, grants, used, lookups, current, acks, authorised, toWorker,
                      toMain, phase, peerDeviceWorkerMap, peerChannels, pendingPeerInvokes,
                      pair, callerEnd, calleeEnd, allowed>>
      BY <1>8 DEF brokerVars, mainVars, workerVars, chanVars
    <2> QED BY <2>1 DEF BrokerInv, BrokerTypeOK, Tracking, Tracked, Rechecking
  <1>9. CASE BrokerNext
    BY <1>1, <1>2, <1>3, <1>4, <1>5, <1>6, <1>7, <1>9 DEF BrokerNext
  <1> QED BY <1>8, <1>9

\* The inductive invariant of the broker, the workers' tables and the ports between
\* them holds in every reachable state, for any workers, devices, restarts and rights.
THEOREM BrokerInvariance == BrokerSpec => []BrokerInv
  BY BrokerStarts, BrokerSteps, PTL DEF BrokerSpec

\* Every variable of the control plane keeps its type.
THEOREM BrokerTypes == BrokerSpec => []BrokerTypeOK
  <1>1. BrokerInv => BrokerTypeOK
    BY DEF BrokerInv
  <1> QED BY <1>1, BrokerInvariance, PTL

\* How many there are of what there is at most one of.
LEMMA LoneCount ==
  ASSUME NEW S, Lone(S)
  PROVE  /\ S = {} => Cardinality(S) = 0
         /\ S # {} => Cardinality(S) = 1
  <1>1. S = {} => Cardinality(S) = 0
    BY FS_EmptySet
  <1>2. ASSUME S # {} PROVE Cardinality(S) = 1
    <2>1. PICK x \in S : TRUE
      BY <1>2
    <2>2. S = {x}
      BY <2>1 DEF Lone
    <2> QED BY <2>2, FS_Singleton
  <1> QED BY <1>1, <1>2

\* The calls queued in pendingPeerInvokes wait for exactly one thing on its way: a
\* request, a lookup, an acknowledgement, a grant or a denial, whatever the rate
\* limiter, the AuthProvider and the exits of workers do.
THEOREM NeverTwoRequests == BrokerSpec => []OneRequestInFlight
  <1>1. BrokerInv => OneRequestInFlight
    <2> SUFFICES ASSUME BrokerInv, NEW w \in Up, NEW d \in Devices
                 PROVE  Cardinality(InFlight(toMain[w], {"request"}, d))
                          + Cardinality({l \in lookups : l.kind # "recheck" /\ l.caller = w /\ l.dev = d})
                          + Cardinality({a \in acks : a[1] = w /\ a[2] = d})
                          + Cardinality(InFlight(toWorker[w], {"grant", "deny"}, d))
                        = IF d \in pendingPeerInvokes[w] THEN 1 ELSE 0
      BY DEF OneRequestInFlight
    <2> DEFINE A == InFlight(toMain[w], Ask, d)
               T == InFlight(toWorker[w], Tells, d)
               L == Asking(lookups, w, d)
               O == Owing(acks, w, d)
    <2>1. Tracked(w, d)
      BY DEF BrokerInv, Tracking, Up
    <2>2. /\ A # {} <=> Holds(toMain[w], Ask, d)
          /\ T # {} <=> Holds(toWorker[w], Tells, d)
      BY DEF InFlight, Holds
    <2>3. Lone(A) /\ Lone(T) /\ Lone(L) /\ Lone(O)
      BY <2>1 DEF Tracked, OneToken, HoldsOne, InFlight, Lone
    <2>4. /\ d \in pendingPeerInvokes[w] <=> A # {} \/ L # {} \/ O # {} \/ T # {}
          /\ A # {} => L = {} /\ O = {} /\ T = {}
          /\ L # {} => O = {} /\ T = {}
          /\ O # {} => T = {}
      BY <2>1, <2>2 DEF Tracked, OneToken
    <2>5. /\ (A = {} => Cardinality(A) = 0) /\ (A # {} => Cardinality(A) = 1)
          /\ (T = {} => Cardinality(T) = 0) /\ (T # {} => Cardinality(T) = 1)
          /\ (L = {} => Cardinality(L) = 0) /\ (L # {} => Cardinality(L) = 1)
          /\ (O = {} => Cardinality(O) = 0) /\ (O # {} => Cardinality(O) = 1)
      <3> HIDE DEF A, T, L, O
      <3> QED BY <2>3, LoneCount
    <2>6. /\ InFlight(toMain[w], {"request"}, d) = A /\ InFlight(toWorker[w], {"grant", "deny"}, d) = T
          /\ {l \in lookups : l.kind # "recheck" /\ l.caller = w /\ l.dev = d} = L
          /\ {a \in acks : a[1] = w /\ a[2] = d} = O
      BY DEF Ask, Tells, Asking, Owing
    <2> HIDE DEF A, T, L, O
    <2>7. Cardinality(A) + Cardinality(L) + Cardinality(O) + Cardinality(T)
            = IF d \in pendingPeerInvokes[w] THEN 1 ELSE 0
      BY <2>4, <2>5
    <2> QED BY <2>6, <2>7
  <1> QED BY <1>1, BrokerInvariance, PTL

\* closeRevoked closes a channel only for one of that channel's own grants: a lookup
\* of recheckGrants that is answered late never closes a newer channel of the pair.
THEOREM LateLookupsHarmless == BrokerSpec => RevokedForCause
  <1> DEFINE A == \A l \in lookups \ lookups' : \A p \in Pairs :
                    l.kind = "recheck" /\ registry'[p] # registry[p] => l.dev \in grants[registry[p]]
  <1>1. BrokerInv /\ [BrokerNext]_brokerVars => [A]_brokerVars
    <2> SUFFICES ASSUME BrokerInv, BrokerNext, NEW l \in lookups \ lookups', NEW p \in Pairs,
                        l.kind = "recheck", registry'[p] # registry[p]
                 PROVE  l.dev \in grants[registry[p]]
      OBVIOUS
    <2>1. RecheckAnswered(l)
      <3>1. \A w \in Workers :
              /\ \A d \in Devices : ~Call(w, d)
              /\ \A ch \in Channels : ~PortClose(w, ch)
              /\ ~WorkerReceives(w) /\ ~WorkerPurges(w) /\ ~WorkerExits(w)
              /\ ~StartUnload(w) /\ ~UnloadModule(w) /\ ~ExitEvent(w) /\ ~Restart(w)
        BY DEF Call, PortClose, WorkerReceives, WorkerPurges, WorkerExits, StartUnload, UnloadModule,
               ExitEvent, Restart, mainVars
      <3>2. \A w \in Workers : ~MainReceives(w)
        BY DEF MainReceives, HandleRequest, HandleAck
      <3>3. ~RecheckGrants /\ \A u \in Uses : ~Revoke(u)
        BY DEF RecheckGrants, Revoke
      <3>4. \A k \in lookups : RequestAnswered(k) \/ RecheckAnswered(k) => k = l
        BY DEF RequestAnswered, RecheckAnswered
      <3>5. ~RequestAnswered(l)
        BY DEF RequestAnswered
      <3> QED BY <3>1, <3>2, <3>3, <3>4, <3>5 DEF BrokerNext
    <2>2. registry[p] = l.ch
      BY <2>1, RecheckAnsweredFacts DEF BrokerInv
    <2> QED BY <2>2 DEF BrokerInv, Rechecking
  <1> QED BY <1>1, BrokerInvariance, PTL DEF BrokerSpec, RevokedForCause

-----------------------------------------------------------------------------
(* The registry and the channels.                                          *)

\* Messages: one that carries port ch, one that opens a channel from v, one that
\* grants v's port, one that shuts the channel with v.
Carries(m, kind, ch) == m.kind = kind /\ m.port = ch
Opens(m, v) == m.kind = "open" /\ m.peer = v
Grants(m, v) == m.kind = "grant" /\ m.port # 0 /\ m.peer = v
Shuts(m, v) == m.kind = "invalidate" /\ m.peer = v
Allows(m, v) == m.kind = "allow" /\ m.peer = v

\* Their order in a port.
Carried(q, kind, ch) == \E i \in DOMAIN q : Carries(q[i], kind, ch)
ShutIn(q, v) == \E i \in DOMAIN q : Shuts(q[i], v)
OpenIn(q, v) == \E i \in DOMAIN q : Opens(q[i], v)
ShutAfter(q, kind, ch, v) == \E i, j \in DOMAIN q : i < j /\ Carries(q[i], kind, ch) /\ Shuts(q[j], v)
OpenAfter(q, ch, v) == \E i, j \in DOMAIN q : i < j /\ Carries(q[i], "open", ch) /\ Opens(q[j], v)
\* a shut comes before v opens another channel, now or once ch is opened
ShutFirst(q, v) == \E j \in DOMAIN q : Shuts(q[j], v) /\ \A k \in DOMAIN q : k < j => ~Opens(q[k], v)
ShutNext(q, ch, v) ==
  \E i, j \in DOMAIN q :
    /\ i < j /\ Carries(q[i], "open", ch) /\ Shuts(q[j], v)
    /\ \A k \in DOMAIN q : i < k /\ k < j => ~Opens(q[k], v)
\* a shut comes before every grant of v's, and between any two
ShutEach(q, v) == \A i \in DOMAIN q : Grants(q[i], v) => \E j \in DOMAIN q : j < i /\ Shuts(q[j], v)
Spaced(q, v) ==
  \A i, k \in DOMAIN q : k < i /\ Grants(q[k], v) /\ Grants(q[i], v) =>
    \E j \in DOMAIN q : k < j /\ j < i /\ Shuts(q[j], v)
\* an allow of v's is about a device granted on the channel it will find, c now
AllowsFit(q, v, c, gr) ==
  \A i \in DOMAIN q : Allows(q[i], v) =>
    /\ \A j \in DOMAIN q :
         j < i /\ Opens(q[j], v) /\ (\A k \in DOMAIN q : j < k /\ k < i => ~Opens(q[k], v))
           => q[i].dev \in gr[q[j].port]
    /\ (\A j \in DOMAIN q : j < i => ~Opens(q[j], v)) => c = 0 \/ q[i].dev \in gr[c]

Made == 1 .. used
CallerOf(ch) == pair[ch][1]
CalleeOf(ch) == pair[ch][2]
\* the pairs, and the channels, whose callee does not call the caller too
SinglePairs == {p \in Pairs : ~May(p[2], p[1])}
Single == {ch \in Made : ~May(CalleeOf(ch), CallerOf(ch))}
Alive == {"transit", "open"}

\* Who may ask for what.
Asked ==
  /\ \A d \in Devices : deviceMap[d] # None =>
       deviceMap[d] \in {Home[d], Successor[Home[d]]} /\ phase[deviceMap[d]] # "unborn"
  /\ \A w \in Workers : \A i \in DOMAIN toMain[w] :
       /\ toMain[w][i].kind = "request" => <<w, toMain[w][i].dev>> \in Uses /\ phase[w] # "unborn"
       /\ toMain[w][i].kind = "purged" => phase[w] \notin {"unborn", "up"}
  /\ \A l \in lookups : l.kind = "grant" =>
       May(l.caller, l.callee) /\ phase[l.caller] # "unborn" /\ phase[l.callee] # "unborn"

\* Channels are made for such pairs, and the registry's is one of them.
Founded ==
  /\ \A ch \in Channels : ch > used =>
       callerEnd[ch] = "none" /\ calleeEnd[ch] = "none" /\ pair[ch] = <<None, None>>
  /\ \A ch \in Made :
       /\ CallerOf(ch) \in Workers /\ CalleeOf(ch) \in Workers /\ May(CallerOf(ch), CalleeOf(ch))
       /\ phase[CallerOf(ch)] # "unborn" /\ phase[CalleeOf(ch)] # "unborn"
  /\ \A p \in Pairs : registry[p] # 0 => registry[p] \in Made /\ pair[registry[p]] = p

\* A port on its way is in one message, and a message's port is on its way.
Carrying(w, q) ==
  /\ \A i \in DOMAIN q :
       LET m == q[i] IN
         /\ m.kind = "grant" /\ m.port # 0 =>
              m.port \in Made /\ pair[m.port] = <<w, m.peer>> /\ callerEnd[m.port] = "transit"
         /\ m.kind = "open" =>
              /\ m.port \in Made /\ pair[m.port] = <<m.peer, w>> /\ calleeEnd[m.port] = "transit"
              /\ m.dev \in grants[m.port]
         /\ m.kind = "allow" => May(m.peer, w)
  /\ \A i, j \in DOMAIN q : q[i].kind = q[j].kind /\ q[i].kind \in {"grant", "open"} /\ q[i].port = q[j].port
                              /\ q[i].port # 0 => i = j

Ports ==
  /\ \A w \in Workers : Carrying(w, toWorker[w]) /\ (w \notin Up => toWorker[w] = <<>>)
  /\ \A ch \in Made :
       /\ callerEnd[ch] \in Alive => CallerOf(ch) \in Up
       /\ calleeEnd[ch] \in Alive => CalleeOf(ch) \in Up
       /\ callerEnd[ch] = "transit" => Carried(toWorker[CallerOf(ch)], "grant", ch)
       /\ calleeEnd[ch] = "transit" => Carried(toWorker[CalleeOf(ch)], "open", ch)

\* A worker's table has open channels; a single one it opened as a caller is there.
Tabled ==
  /\ \A w, v \in Workers : LET c == peerChannels[w][v] IN
       c # 0 => c \in Made /\ \/ pair[c] = <<w, v>> /\ callerEnd[c] = "open"
                              \/ pair[c] = <<v, w>> /\ calleeEnd[c] = "open"
  /\ \A ch \in Single : callerEnd[ch] = "open" => peerChannels[CallerOf(ch)][CalleeOf(ch)] = ch

\* One of a channel's workers will hear that it is to be closed.
CallerWarned(ch) ==
  LET q == toWorker[CallerOf(ch)] IN
    \/ callerEnd[ch] = "open" /\ ShutIn(q, CalleeOf(ch))
    \/ callerEnd[ch] = "transit" /\ ShutAfter(q, "grant", ch, CalleeOf(ch))
CalleeWarned(ch) ==
  LET q == toWorker[CalleeOf(ch)] IN
    \/ calleeEnd[ch] = "open" /\ peerChannels[CalleeOf(ch)][CallerOf(ch)] = ch /\ ShutFirst(q, CallerOf(ch))
    \/ calleeEnd[ch] = "transit" /\ ShutNext(q, ch, CallerOf(ch))
CalleeTold(ch) ==
  LET q == toWorker[CalleeOf(ch)] IN
    \/ calleeEnd[ch] = "open" /\ ShutIn(q, CallerOf(ch))
    \/ calleeEnd[ch] = "transit" /\ ShutAfter(q, "open", ch, CallerOf(ch))

Warned ==
  \A ch \in Single : callerEnd[ch] \in Alive =>
    \/ registry[pair[ch]] = ch
    \/ CallerWarned(ch)
    \/ phase[CallerOf(ch)] # "up" /\ (calleeEnd[ch] \in Alive => CalleeWarned(ch))

\* A caller that is up has closed its channel before the next port arrives.
NoneStranded ==
  \A w, v \in Workers : May(w, v) /\ ~May(v, w) /\ phase[w] = "up" =>
    /\ Spaced(toWorker[w], v)
    /\ peerChannels[w][v] # 0 => ShutEach(toWorker[w], v)

\* The channel in the registry is the last its callee was told of.
Latest ==
  \A p \in SinglePairs : LET r == registry[p] IN r # 0 /\ p[2] \in Up =>
    \/ calleeEnd[r] = "transit" /\ ~OpenAfter(toWorker[p[2]], r, p[1])
    \/ calleeEnd[r] = "open" /\ peerChannels[p[2]][p[1]] = r /\ ~OpenIn(toWorker[p[2]], p[1])
    \/ calleeEnd[r] = "closed" /\ peerChannels[p[2]][p[1]] = 0 /\ ~OpenIn(toWorker[p[2]], p[1])

\* Between workers that are up, it is open or about to be.
Whole ==
  \A p \in SinglePairs : LET r == registry[p] IN
    r # 0 /\ phase[p[1]] = "up" /\ phase[p[2]] = "up" =>
      /\ callerEnd[r] \in Alive /\ ~CallerWarned(r)
      /\ calleeEnd[r] \in Alive /\ ~CalleeTold(r)

\* What a callee serves on a channel, or will, was granted on it.
Backed ==
  /\ \A ch \in Single : calleeEnd[ch] = "open" => allowed[ch] \subseteq grants[ch]
  /\ \A w, v \in Workers : May(v, w) /\ ~May(w, v) => AllowsFit(toWorker[w], v, peerChannels[w][v], grants)

Wired == Founded /\ Ports /\ Tabled /\ Warned /\ NoneStranded /\ Latest /\ Whole /\ Backed
WiringInv == Asked /\ Wired

\* Which channels are single is settled when they are made.
LEMMA SingleKept ==
  ASSUME used' = used, pair' = pair
  PROVE  Single' = Single /\ Single \subseteq Made
  <1>1. Made' = Made /\ \A ch : CallerOf(ch)' = CallerOf(ch) /\ CalleeOf(ch)' = CalleeOf(ch)
    BY DEF Made, CallerOf, CalleeOf
  <1> QED BY <1>1 DEF Single, May

\* The next message, and what is left after it is taken.
LEMMA TakeFacts ==
  ASSUME NEW q \in Seq(ToWorker), q # <<>>
  PROVE  LET m == Head(q)
             t == Tail(q)
         IN /\ m \in ToWorker /\ t \in Seq(ToWorker)
            /\ 1 \in DOMAIN q /\ q[1] = m /\ DOMAIN q \subseteq Nat \ {0} /\ DOMAIN t \subseteq Nat \ {0}
            /\ \A i \in DOMAIN t : i + 1 \in DOMAIN q /\ q[i + 1] = t[i]
            /\ \A i \in DOMAIN q : i # 1 => i - 1 \in DOMAIN t /\ t[i - 1] = q[i]
  <1> DEFINE t == Tail(q)
  <1>1. /\ t \in Seq(ToWorker) /\ 1 \in DOMAIN q /\ q[1] \in ToWorker
        /\ \A i \in DOMAIN t : /\ i \in Nat /\ i + 1 \in DOMAIN q /\ i + 1 # 1 /\ t[i] = q[i + 1]
        /\ \A i \in DOMAIN q : i # 1 => /\ i \in Nat /\ i - 1 \in DOMAIN t /\ t[i - 1] = q[i]
    BY TailIndex
  <1>2. DOMAIN q = 1 .. Len(q) /\ DOMAIN t = 1 .. Len(t) /\ Len(q) \in Nat /\ Len(t) \in Nat
    BY <1>1, LenProperties
  <1>3. Head(q) = q[1]
    OBVIOUS
  <1>4. DOMAIN q \subseteq Nat \ {0} /\ DOMAIN t \subseteq Nat \ {0}
    BY <1>2
  <1> QED BY <1>1, <1>3, <1>4

\* What a port has before and after its next message is taken.
LEMMA TakeHas ==
  ASSUME NEW q \in Seq(ToWorker), q # <<>>, NEW v
  PROVE  LET m == Head(q)
             t == Tail(q)
         IN /\ ShutIn(q, v) <=> Shuts(m, v) \/ ShutIn(t, v)
            /\ OpenIn(q, v) <=> Opens(m, v) \/ OpenIn(t, v)
            /\ ShutFirst(q, v) <=> Shuts(m, v) \/ (~Opens(m, v) /\ ShutFirst(t, v))
            /\ Spaced(q, v) => Spaced(t, v) /\ (Grants(m, v) => ShutEach(t, v))
            /\ ShutEach(q, v) /\ ~Shuts(m, v) => ~Grants(m, v) /\ ShutEach(t, v)
  <1> DEFINE m == Head(q)
             t == Tail(q)
  <1>1. /\ 1 \in DOMAIN q /\ q[1] = m /\ DOMAIN q \subseteq Nat \ {0} /\ DOMAIN t \subseteq Nat \ {0}
        /\ \A i \in DOMAIN t : i + 1 \in DOMAIN q /\ q[i + 1] = t[i]
        /\ \A i \in DOMAIN q : i # 1 => i - 1 \in DOMAIN t /\ t[i - 1] = q[i]
    BY TakeFacts
  <1> HIDE DEF m, t
  <1>2. ShutIn(q, v) <=> Shuts(m, v) \/ ShutIn(t, v)
    BY <1>1 DEF ShutIn
  <1>3. OpenIn(q, v) <=> Opens(m, v) \/ OpenIn(t, v)
    BY <1>1 DEF OpenIn
  <1>4. ShutFirst(q, v) => Shuts(m, v) \/ (~Opens(m, v) /\ ShutFirst(t, v))
    <2> SUFFICES ASSUME ShutFirst(q, v), ~Shuts(m, v) PROVE ~Opens(m, v) /\ ShutFirst(t, v)
      OBVIOUS
    <2>1. PICK j \in DOMAIN q : Shuts(q[j], v) /\ \A k \in DOMAIN q : k < j => ~Opens(q[k], v)
      BY DEF ShutFirst
    <2>2. j # 1 /\ j \in Nat \ {0} /\ j - 1 \in DOMAIN t /\ Shuts(t[j - 1], v)
      BY <1>1, <2>1
    <2>3. \A k \in DOMAIN t : k < j - 1 => ~Opens(t[k], v)
      <3> TAKE k \in DOMAIN t
      <3>1. k \in Nat /\ k + 1 \in DOMAIN q /\ q[k + 1] = t[k]
        BY <1>1
      <3> QED BY <2>1, <2>2, <3>1
    <2>4. ~Opens(m, v)
      BY <1>1, <2>1, <2>2
    <2> QED BY <2>2, <2>3, <2>4 DEF ShutFirst
  <1>5. Shuts(m, v) => ShutFirst(q, v)
    BY <1>1 DEF ShutFirst
  <1>6. ASSUME ~Opens(m, v), ShutFirst(t, v) PROVE ShutFirst(q, v)
    <2>1. PICK j \in DOMAIN t : Shuts(t[j], v) /\ \A k \in DOMAIN t : k < j => ~Opens(t[k], v)
      BY <1>6 DEF ShutFirst
    <2>2. j \in Nat /\ j + 1 \in DOMAIN q /\ Shuts(q[j + 1], v)
      BY <1>1, <2>1
    <2>3. \A k \in DOMAIN q : k < j + 1 => ~Opens(q[k], v)
      <3> TAKE k \in DOMAIN q
      <3>1. CASE k = 1
        BY <1>1, <1>6, <3>1
      <3>2. CASE k # 1
        <4>1. k \in Nat /\ k - 1 \in DOMAIN t /\ t[k - 1] = q[k]
          BY <1>1, <3>2
        <4> QED BY <2>1, <2>2, <4>1
      <3> QED BY <3>1, <3>2
    <2> QED BY <2>2, <2>3 DEF ShutFirst
  <1>7. ASSUME Spaced(q, v) PROVE Spaced(t, v) /\ (Grants(m, v) => ShutEach(t, v))
    <2>1. Spaced(t, v)
      <3> SUFFICES ASSUME NEW i \in DOMAIN t, NEW k \in DOMAIN t, k < i, Grants(t[k], v), Grants(t[i], v)
                   PROVE  \E j \in DOMAIN t : k < j /\ j < i /\ Shuts(t[j], v)
        BY DEF Spaced
      <3>1. /\ i \in Nat /\ k \in Nat /\ i + 1 \in DOMAIN q /\ k + 1 \in DOMAIN q
            /\ Grants(q[k + 1], v) /\ Grants(q[i + 1], v) /\ k + 1 < i + 1
        BY <1>1
      <3>2. PICK j \in DOMAIN q : k + 1 < j /\ j < i + 1 /\ Shuts(q[j], v)
        BY <1>7, <3>1 DEF Spaced
      <3>3. j \in Nat /\ j # 1 /\ j - 1 \in DOMAIN t /\ Shuts(t[j - 1], v)
        BY <1>1, <3>1, <3>2
      <3>4. k < j - 1 /\ j - 1 < i
        BY <3>1, <3>2, <3>3
      <3> QED BY <3>3, <3>4
    <2>2. ASSUME Grants(m, v) PROVE ShutEach(t, v)
      <3> SUFFICES ASSUME NEW i \in DOMAIN t, Grants(t[i], v)
                   PROVE  \E j \in DOMAIN t : j < i /\ Shuts(t[j], v)
        BY DEF ShutEach
      <3>1. i \in Nat \ {0} /\ i + 1 \in DOMAIN q /\ Grants(q[i + 1], v) /\ 1 < i + 1
        BY <1>1
      <3>2. PICK j \in DOMAIN q : 1 < j /\ j < i + 1 /\ Shuts(q[j], v)
        BY <1>1, <1>7, <2>2, <3>1 DEF Spaced
      <3>3. j \in Nat /\ j # 1 /\ j - 1 \in DOMAIN t /\ Shuts(t[j - 1], v) /\ j - 1 < i
        BY <1>1, <3>1, <3>2
      <3> QED BY <3>3
    <2> QED BY <2>1, <2>2
  <1>8. ASSUME ShutEach(q, v), ~Shuts(m, v) PROVE ~Grants(m, v) /\ ShutEach(t, v)
    <2>1. ~Grants(m, v)
      BY <1>1, <1>8 DEF ShutEach
    <2>2. ASSUME NEW i \in DOMAIN t, Grants(t[i], v)
          PROVE  \E j \in DOMAIN t : j < i /\ Shuts(t[j], v)
      <3>1. i \in Nat /\ i + 1 \in DOMAIN q /\ Grants(q[i + 1], v)
        BY <1>1, <2>2
      <3>2. PICK j \in DOMAIN q : j < i + 1 /\ Shuts(q[j], v)
        BY <1>8, <3>1 DEF ShutEach
      <3>3. j \in Nat /\ j # 1 /\ j - 1 \in DOMAIN t /\ Shuts(t[j - 1], v) /\ j - 1 < i
        BY <1>1, <1>8, <3>1, <3>2
      <3> QED BY <3>3
    <2> QED BY <2>1, <2>2 DEF ShutEach
  <1> QED BY <1>2, <1>3, <1>4, <1>5, <1>6, <1>7, <1>8 DEF m, t

\* The same for what comes after a port.
LEMMA TakeAfter ==
  ASSUME NEW q \in Seq(ToWorker), q # <<>>, NEW kind, NEW ch, NEW v
  PROVE  LET m == Head(q)
             t == Tail(q)
         IN /\ Carried(q, kind, ch) <=> Carries(m, kind, ch) \/ Carried(t, kind, ch)
            /\ ShutAfter(q, kind, ch, v) <=> (Carries(m, kind, ch) /\ ShutIn(t, v)) \/ ShutAfter(t, kind, ch, v)
            /\ OpenAfter(q, ch, v) <=> (Carries(m, "open", ch) /\ OpenIn(t, v)) \/ OpenAfter(t, ch, v)
            /\ ShutNext(q, ch, v) <=> (Carries(m, "open", ch) /\ ShutFirst(t, v)) \/ ShutNext(t, ch, v)
  <1> DEFINE m == Head(q)
             t == Tail(q)
  <1>1. /\ 1 \in DOMAIN q /\ q[1] = m /\ DOMAIN q \subseteq Nat \ {0} /\ DOMAIN t \subseteq Nat \ {0}
        /\ \A i \in DOMAIN t : i + 1 \in DOMAIN q /\ q[i + 1] = t[i]
        /\ \A i \in DOMAIN q : i # 1 => i - 1 \in DOMAIN t /\ t[i - 1] = q[i]
    BY TakeFacts
  <1> HIDE DEF m, t
  <1>2. Carried(q, kind, ch) <=> Carries(m, kind, ch) \/ Carried(t, kind, ch)
    BY <1>1 DEF Carried
  <1>3. ASSUME ShutAfter(q, kind, ch, v)
        PROVE  (Carries(m, kind, ch) /\ ShutIn(t, v)) \/ ShutAfter(t, kind, ch, v)
    <2>1. PICK i \in DOMAIN q, j \in DOMAIN q : i < j /\ Carries(q[i], kind, ch) /\ Shuts(q[j], v)
      BY <1>3 DEF ShutAfter
    <2>2. i \in Nat \ {0} /\ j \in Nat /\ j # 1 /\ j - 1 \in DOMAIN t /\ Shuts(t[j - 1], v)
      BY <1>1, <2>1
    <2>3. CASE i = 1
      BY <1>1, <2>1, <2>2, <2>3 DEF ShutIn
    <2>4. CASE i # 1
      <3>1. i - 1 \in DOMAIN t /\ Carries(t[i - 1], kind, ch) /\ i - 1 < j - 1
        BY <1>1, <2>1, <2>2, <2>4
      <3> QED BY <2>2, <3>1 DEF ShutAfter
    <2> QED BY <2>3, <2>4
  <1>4. ASSUME Carries(m, kind, ch), ShutIn(t, v) PROVE ShutAfter(q, kind, ch, v)
    <2>1. PICK j \in DOMAIN t : Shuts(t[j], v)
      BY <1>4 DEF ShutIn
    <2>2. j \in Nat \ {0} /\ j + 1 \in DOMAIN q /\ Shuts(q[j + 1], v) /\ 1 < j + 1
      BY <1>1, <2>1
    <2> QED BY <1>1, <1>4, <2>2 DEF ShutAfter
  <1>5. ASSUME ShutAfter(t, kind, ch, v) PROVE ShutAfter(q, kind, ch, v)
    <2>1. PICK i \in DOMAIN t, j \in DOMAIN t : i < j /\ Carries(t[i], kind, ch) /\ Shuts(t[j], v)
      BY <1>5 DEF ShutAfter
    <2>2. i + 1 \in DOMAIN q /\ j + 1 \in DOMAIN q /\ Carries(q[i + 1], kind, ch) /\ Shuts(q[j + 1], v) /\ i + 1 < j + 1
      BY <1>1, <2>1
    <2> QED BY <2>2 DEF ShutAfter
  <1>6. ASSUME OpenAfter(q, ch, v)
        PROVE  (Carries(m, "open", ch) /\ OpenIn(t, v)) \/ OpenAfter(t, ch, v)
    <2>1. PICK i \in DOMAIN q, j \in DOMAIN q : i < j /\ Carries(q[i], "open", ch) /\ Opens(q[j], v)
      BY <1>6 DEF OpenAfter
    <2>2. i \in Nat \ {0} /\ j \in Nat /\ j # 1 /\ j - 1 \in DOMAIN t /\ Opens(t[j - 1], v)
      BY <1>1, <2>1
    <2>3. CASE i = 1
      BY <1>1, <2>1, <2>2, <2>3 DEF OpenIn
    <2>4. CASE i # 1
      <3>1. i - 1 \in DOMAIN t /\ Carries(t[i - 1], "open", ch) /\ i - 1 < j - 1
        BY <1>1, <2>1, <2>2, <2>4
      <3> QED BY <2>2, <3>1 DEF OpenAfter
    <2> QED BY <2>3, <2>4
  <1>7. ASSUME Carries(m, "open", ch), OpenIn(t, v) PROVE OpenAfter(q, ch, v)
    <2>1. PICK j \in DOMAIN t : Opens(t[j], v)
      BY <1>7 DEF OpenIn
    <2>2. j \in Nat \ {0} /\ j + 1 \in DOMAIN q /\ Opens(q[j + 1], v) /\ 1 < j + 1
      BY <1>1, <2>1
    <2> QED BY <1>1, <1>7, <2>2 DEF OpenAfter
  <1>8. ASSUME OpenAfter(t, ch, v) PROVE OpenAfter(q, ch, v)
    <2>1. PICK i \in DOMAIN t, j \in DOMAIN t : i < j /\ Carries(t[i], "open", ch) /\ Opens(t[j], v)
      BY <1>8 DEF OpenAfter
    <2>2. i + 1 \in DOMAIN q /\ j + 1 \in DOMAIN q /\ Carries(q[i + 1], "open", ch) /\ Opens(q[j + 1], v) /\ i + 1 < j + 1
      BY <1>1, <2>1
    <2> QED BY <2>2 DEF OpenAfter
  <1>9. ASSUME ShutNext(q, ch, v)
        PROVE  (Carries(m, "open", ch) /\ ShutFirst(t, v)) \/ ShutNext(t, ch, v)
    <2>1. PICK i \in DOMAIN q, j \in DOMAIN q :
            /\ i < j /\ Carries(q[i], "open", ch) /\ Shuts(q[j], v)
            /\ \A k \in DOMAIN q : i < k /\ k < j => ~Opens(q[k], v)
      BY <1>9 DEF ShutNext
    <2>2. i \in Nat \ {0} /\ j \in Nat /\ j # 1 /\ j - 1 \in DOMAIN t /\ Shuts(t[j - 1], v)
      BY <1>1, <2>1
    <2>3. \A k \in DOMAIN t : i - 1 < k /\ k < j - 1 => ~Opens(t[k], v)
      <3> TAKE k \in DOMAIN t
      <3>1. k \in Nat /\ k + 1 \in DOMAIN q /\ q[k + 1] = t[k]
        BY <1>1
      <3> QED BY <2>1, <2>2, <3>1
    <2>4. CASE i = 1
      <3>1. \A k \in DOMAIN t : k < j - 1 => ~Opens(t[k], v)
        BY <1>1, <2>3, <2>4
      <3> QED BY <1>1, <2>1, <2>2, <2>4, <3>1 DEF ShutFirst
    <2>5. CASE i # 1
      <3>1. i - 1 \in DOMAIN t /\ Carries(t[i - 1], "open", ch) /\ i - 1 < j - 1
        BY <1>1, <2>1, <2>2, <2>5
      <3> QED BY <2>2, <2>3, <3>1 DEF ShutNext
    <2> QED BY <2>4, <2>5
  <1>10. ASSUME Carries(m, "open", ch), ShutFirst(t, v) PROVE ShutNext(q, ch, v)
    <2>1. PICK j \in DOMAIN t : Shuts(t[j], v) /\ \A k \in DOMAIN t : k < j => ~Opens(t[k], v)
      BY <1>10 DEF ShutFirst
    <2>2. j \in Nat \ {0} /\ j + 1 \in DOMAIN q /\ Shuts(q[j + 1], v) /\ 1 < j + 1
      BY <1>1, <2>1
    <2>3. \A k \in DOMAIN q : 1 < k /\ k < j + 1 => ~Opens(q[k], v)
      <3> SUFFICES ASSUME NEW k \in DOMAIN q, 1 < k, k < j + 1 PROVE ~Opens(q[k], v)
        OBVIOUS
      <3>1. k \in Nat /\ k # 1 /\ k - 1 \in DOMAIN t /\ t[k - 1] = q[k] /\ k - 1 < j
        BY <1>1, <2>2
      <3> QED BY <2>1, <3>1
    <2> QED BY <1>1, <1>10, <2>2, <2>3 DEF ShutNext
  <1>11. ASSUME ShutNext(t, ch, v) PROVE ShutNext(q, ch, v)
    <2>1. PICK i \in DOMAIN t, j \in DOMAIN t :
            /\ i < j /\ Carries(t[i], "open", ch) /\ Shuts(t[j], v)
            /\ \A k \in DOMAIN t : i < k /\ k < j => ~Opens(t[k], v)
      BY <1>11 DEF ShutNext
    <2>2. /\ i \in Nat \ {0} /\ j \in Nat /\ i + 1 \in DOMAIN q /\ j + 1 \in DOMAIN q
          /\ Carries(q[i + 1], "open", ch) /\ Shuts(q[j + 1], v) /\ i + 1 < j + 1
      BY <1>1, <2>1
    <2>3. \A k \in DOMAIN q : i + 1 < k /\ k < j + 1 => ~Opens(q[k], v)
      <3> SUFFICES ASSUME NEW k \in DOMAIN q, i + 1 < k, k < j + 1 PROVE ~Opens(q[k], v)
        OBVIOUS
      <3>1. k \in Nat /\ k # 1 /\ k - 1 \in DOMAIN t /\ t[k - 1] = q[k] /\ i < k - 1 /\ k - 1 < j
        BY <1>1, <2>2
      <3> QED BY <2>1, <3>1
    <2> QED BY <2>2, <2>3 DEF ShutNext
  <1> QED BY <1>2, <1>3, <1>4, <1>5, <1>6, <1>7, <1>8, <1>9, <1>10, <1>11 DEF m, t

\* The allows left once a message is taken still fit.
LEMMA TakeAllows ==
  ASSUME NEW q \in Seq(ToWorker), q # <<>>, NEW v, NEW c, NEW gr, AllowsFit(q, v, c, gr)
  PROVE  LET m == Head(q)
             t == Tail(q)
         IN /\ Opens(m, v) => AllowsFit(t, v, m.port, gr)
            /\ ~Opens(m, v) => AllowsFit(t, v, c, gr)
            /\ Allows(m, v) => c = 0 \/ m.dev \in gr[c]
  <1> DEFINE m == Head(q)
             t == Tail(q)
  <1>1. /\ 1 \in DOMAIN q /\ q[1] = m /\ DOMAIN q \subseteq Nat \ {0} /\ DOMAIN t \subseteq Nat \ {0}
        /\ \A i \in DOMAIN t : i + 1 \in DOMAIN q /\ q[i + 1] = t[i]
        /\ \A i \in DOMAIN q : i # 1 => i - 1 \in DOMAIN t /\ t[i - 1] = q[i]
    BY TakeFacts
  <1> HIDE DEF m, t
  <1>2. ASSUME NEW i \in DOMAIN t, Allows(t[i], v)
        PROVE  /\ i \in Nat /\ i + 1 \in DOMAIN q /\ q[i + 1] = t[i] /\ Allows(q[i + 1], v)
               /\ \A j \in DOMAIN t :
                    j < i /\ Opens(t[j], v) /\ (\A k \in DOMAIN t : j < k /\ k < i => ~Opens(t[k], v))
                      => t[i].dev \in gr[t[j].port]
    <2>1. i \in Nat /\ i + 1 \in DOMAIN q /\ q[i + 1] = t[i] /\ Allows(q[i + 1], v)
      BY <1>1, <1>2
    <2>2. ASSUME NEW j \in DOMAIN t, j < i, Opens(t[j], v), \A k \in DOMAIN t : j < k /\ k < i => ~Opens(t[k], v)
          PROVE  t[i].dev \in gr[t[j].port]
      <3>1. j \in Nat \ {0} /\ j + 1 \in DOMAIN q /\ q[j + 1] = t[j] /\ j + 1 < i + 1
        BY <1>1, <2>1, <2>2
      <3>2. \A k \in DOMAIN q : j + 1 < k /\ k < i + 1 => ~Opens(q[k], v)
        <4> SUFFICES ASSUME NEW k \in DOMAIN q, j + 1 < k, k < i + 1 PROVE ~Opens(q[k], v)
          OBVIOUS
        <4>1. k \in Nat /\ k # 1 /\ k - 1 \in DOMAIN t /\ t[k - 1] = q[k] /\ j < k - 1 /\ k - 1 < i
          BY <1>1, <2>1, <3>1
        <4> QED BY <2>2, <4>1
      <3> QED BY <2>1, <2>2, <3>1, <3>2 DEF AllowsFit
    <2> QED BY <2>1, <2>2
  <1>3. ASSUME Opens(m, v) PROVE AllowsFit(t, v, m.port, gr)
    <2>1. ASSUME NEW i \in DOMAIN t, Allows(t[i], v), \A j \in DOMAIN t : j < i => ~Opens(t[j], v)
          PROVE  t[i].dev \in gr[m.port]
      <3>1. i \in Nat \ {0} /\ i + 1 \in DOMAIN q /\ q[i + 1] = t[i] /\ Allows(q[i + 1], v) /\ 1 < i + 1
        BY <1>1, <1>2, <2>1
      <3>2. \A k \in DOMAIN q : 1 < k /\ k < i + 1 => ~Opens(q[k], v)
        <4> SUFFICES ASSUME NEW k \in DOMAIN q, 1 < k, k < i + 1 PROVE ~Opens(q[k], v)
          OBVIOUS
        <4>1. k \in Nat /\ k # 1 /\ k - 1 \in DOMAIN t /\ t[k - 1] = q[k] /\ k - 1 < i
          BY <1>1, <3>1
        <4> QED BY <2>1, <4>1
      <3> QED BY <1>1, <1>3, <3>1, <3>2 DEF AllowsFit
    <2> QED BY <1>2, <2>1 DEF AllowsFit
  <1>4. ASSUME ~Opens(m, v) PROVE AllowsFit(t, v, c, gr)
    <2>1. ASSUME NEW i \in DOMAIN t, Allows(t[i], v), \A j \in DOMAIN t : j < i => ~Opens(t[j], v)
          PROVE  c = 0 \/ t[i].dev \in gr[c]
      <3>1. i \in Nat \ {0} /\ i + 1 \in DOMAIN q /\ q[i + 1] = t[i] /\ Allows(q[i + 1], v)
        BY <1>1, <1>2, <2>1
      <3>2. \A k \in DOMAIN q : k < i + 1 => ~Opens(q[k], v)
        <4> SUFFICES ASSUME NEW k \in DOMAIN q, k < i + 1 PROVE ~Opens(q[k], v)
          OBVIOUS
        <4>1. CASE k = 1
          BY <1>1, <1>4, <4>1
        <4>2. CASE k # 1
          <5>1. k \in Nat /\ k - 1 \in DOMAIN t /\ t[k - 1] = q[k] /\ k - 1 < i
            BY <1>1, <3>1, <4>2
          <5> QED BY <2>1, <5>1
        <4> QED BY <4>1, <4>2
      <3> QED BY <3>1, <3>2 DEF AllowsFit
    <2> QED BY <1>2, <2>1 DEF AllowsFit
  <1>5. ASSUME Allows(m, v) PROVE c = 0 \/ m.dev \in gr[c]
    <2>1. \A j \in DOMAIN q : ~(j < 1)
      BY <1>1
    <2> QED BY <1>1, <1>5, <2>1 DEF AllowsFit
  <1> QED BY <1>3, <1>4, <1>5 DEF m, t

\* They fit when more is granted, and when the channel they would find is gone.
LEMMA AllowsMore ==
  ASSUME NEW q, NEW v, NEW c, NEW gr, NEW more, AllowsFit(q, v, c, gr),
         \A j \in DOMAIN q : Opens(q[j], v) => gr[q[j].port] \subseteq more[q[j].port],
         c # 0 => gr[c] \subseteq more[c]
  PROVE  AllowsFit(q, v, c, more) /\ AllowsFit(q, v, 0, more)
  BY DEF AllowsFit

\* The messages of a port and those posted to it.
LEMMA JoinFacts ==
  ASSUME NEW q \in Seq(ToWorker), NEW o \in Seq(ToWorker)
  PROVE  LET r == q \o o
             n == Len(q)
         IN /\ n \in Nat /\ r \in Seq(ToWorker)
            /\ DOMAIN q \subseteq Nat \ {0} /\ DOMAIN o \subseteq Nat \ {0} /\ DOMAIN r \subseteq Nat \ {0}
            /\ \A i \in DOMAIN q : i <= n /\ i \in DOMAIN r /\ r[i] = q[i]
            /\ \A j \in DOMAIN o : j + n \in DOMAIN r /\ r[j + n] = o[j]
            /\ \A i \in DOMAIN r : i \in DOMAIN q \/ (i - n \in DOMAIN o /\ r[i] = o[i - n])
  <1> DEFINE r == q \o o
             n == Len(q)
  <1>1. /\ n \in Nat /\ Len(o) \in Nat
        /\ DOMAIN q = 1 .. n /\ DOMAIN o = 1 .. Len(o)
    BY LenProperties
  <1>2. /\ r \in Seq(ToWorker) /\ Len(r) = n + Len(o)
        /\ \A i \in 1 .. n + Len(o) : r[i] = IF i <= n THEN q[i] ELSE o[i - n]
    BY ConcatProperties
  <1>3. DOMAIN r = 1 .. n + Len(o)
    BY <1>2, LenProperties
  <1> HIDE DEF r, n
  <1>4. \A i \in DOMAIN q : i <= n /\ i \in DOMAIN r /\ r[i] = q[i]
    BY <1>1, <1>2, <1>3
  <1>5. \A j \in DOMAIN o : j + n \in DOMAIN r /\ r[j + n] = o[j]
    <2> TAKE j \in DOMAIN o
    <2>1. j + n \in 1 .. n + Len(o) /\ ~(j + n <= n) /\ (j + n) - n = j
      BY <1>1
    <2> QED BY <2>1, <1>2, <1>3
  <1>6. \A i \in DOMAIN r : i \in DOMAIN q \/ (i - n \in DOMAIN o /\ r[i] = o[i - n])
    <2> TAKE i \in DOMAIN r
    <2>1. CASE i <= n
      BY <1>1, <1>3, <2>1
    <2>2. CASE ~(i <= n)
      <3>1. i - n \in 1 .. Len(o)
        BY <1>1, <1>3, <2>2
      <3> QED BY <1>1, <1>2, <1>3, <2>2, <3>1
    <2> QED BY <2>1, <2>2
  <1>7. DOMAIN q \subseteq Nat \ {0} /\ DOMAIN o \subseteq Nat \ {0} /\ DOMAIN r \subseteq Nat \ {0}
    BY <1>1, <1>3
  <1> QED BY <1>1, <1>2, <1>4, <1>5, <1>6, <1>7 DEF r, n

\* What a port has before and after a post.
LEMMA JoinHas ==
  ASSUME NEW q \in Seq(ToWorker), NEW o \in Seq(ToWorker), NEW v
  PROVE  LET r == q \o o
         IN /\ ShutIn(r, v) <=> ShutIn(q, v) \/ ShutIn(o, v)
            /\ OpenIn(r, v) <=> OpenIn(q, v) \/ OpenIn(o, v)
            /\ ShutFirst(q, v) => ShutFirst(r, v)
            /\ ~OpenIn(q, v) /\ ~OpenIn(o, v) /\ ShutIn(o, v) => ShutFirst(r, v)
  <1> DEFINE r == q \o o
             n == Len(q)
  <1>1. /\ n \in Nat
        /\ DOMAIN q \subseteq Nat \ {0} /\ DOMAIN o \subseteq Nat \ {0} /\ DOMAIN r \subseteq Nat \ {0}
        /\ \A i \in DOMAIN q : i <= n /\ i \in DOMAIN r /\ r[i] = q[i]
        /\ \A j \in DOMAIN o : j + n \in DOMAIN r /\ r[j + n] = o[j]
        /\ \A i \in DOMAIN r : i \in DOMAIN q \/ (i - n \in DOMAIN o /\ r[i] = o[i - n])
    BY JoinFacts
  <1> HIDE DEF r, n
  <1>2. ShutIn(r, v) <=> ShutIn(q, v) \/ ShutIn(o, v)
    BY <1>1 DEF ShutIn
  <1>3. OpenIn(r, v) <=> OpenIn(q, v) \/ OpenIn(o, v)
    BY <1>1 DEF OpenIn
  <1>4. ASSUME ShutFirst(q, v) PROVE ShutFirst(r, v)
    <2>1. PICK j \in DOMAIN q : Shuts(q[j], v) /\ \A k \in DOMAIN q : k < j => ~Opens(q[k], v)
      BY <1>4 DEF ShutFirst
    <2>2. \A k \in DOMAIN r : k < j => ~Opens(r[k], v)
      <3> SUFFICES ASSUME NEW k \in DOMAIN r, k < j PROVE ~Opens(r[k], v)
        OBVIOUS
      <3>1. k \in DOMAIN q
        <4>1. j <= n /\ j \in Nat /\ k \in Nat /\ \A x \in DOMAIN o : x > 0
          BY <1>1
        <4> QED BY <1>1, <4>1
      <3> QED BY <1>1, <2>1, <3>1
    <2> QED BY <1>1, <2>1, <2>2 DEF ShutFirst
  <1>5. ASSUME ~OpenIn(q, v), ~OpenIn(o, v), ShutIn(o, v) PROVE ShutFirst(r, v)
    <2>1. ~OpenIn(r, v) /\ ShutIn(r, v)
      BY <1>2, <1>3, <1>5
    <2> QED BY <2>1 DEF ShutIn, OpenIn, ShutFirst
  <1> QED BY <1>2, <1>3, <1>4, <1>5 DEF r

\* The same for what comes after a port.
LEMMA JoinAfter ==
  ASSUME NEW q \in Seq(ToWorker), NEW o \in Seq(ToWorker), NEW kind, NEW ch, NEW v
  PROVE  LET r == q \o o
         IN /\ Carried(r, kind, ch) <=> Carried(q, kind, ch) \/ Carried(o, kind, ch)
            /\ ShutAfter(r, kind, ch, v) <=>
                 ShutAfter(q, kind, ch, v) \/ ShutAfter(o, kind, ch, v) \/ (Carried(q, kind, ch) /\ ShutIn(o, v))
            /\ OpenAfter(r, ch, v) <=>
                 OpenAfter(q, ch, v) \/ OpenAfter(o, ch, v) \/ (Carried(q, "open", ch) /\ OpenIn(o, v))
            /\ ShutNext(q, ch, v) => ShutNext(r, ch, v)
            /\ Carried(q, "open", ch) /\ ~OpenAfter(q, ch, v) /\ ~OpenIn(o, v) /\ ShutIn(o, v)
                 => ShutNext(r, ch, v)
  <1> DEFINE r == q \o o
             n == Len(q)
  <1>1. /\ n \in Nat
        /\ DOMAIN q \subseteq Nat \ {0} /\ DOMAIN o \subseteq Nat \ {0} /\ DOMAIN r \subseteq Nat \ {0}
        /\ \A i \in DOMAIN q : i <= n /\ i \in DOMAIN r /\ r[i] = q[i]
        /\ \A j \in DOMAIN o : j + n \in DOMAIN r /\ r[j + n] = o[j]
        /\ \A i \in DOMAIN r : i \in DOMAIN q \/ (i - n \in DOMAIN o /\ r[i] = o[i - n])
    BY JoinFacts
  <1> HIDE DEF r, n
  <1>2. Carried(r, kind, ch) <=> Carried(q, kind, ch) \/ Carried(o, kind, ch)
    BY <1>1 DEF Carried
  <1>3. ASSUME NEW i \in DOMAIN r, NEW j \in DOMAIN r, i < j
        PROVE  \/ i \in DOMAIN q /\ j \in DOMAIN q
               \/ i \in DOMAIN q /\ j - n \in DOMAIN o /\ r[j] = o[j - n]
               \/ i - n \in DOMAIN o /\ r[i] = o[i - n] /\ j - n \in DOMAIN o /\ r[j] = o[j - n] /\ i - n < j - n
    <2>1. i \in Nat /\ j \in Nat /\ (j \in DOMAIN q => j <= n) /\ (i - n \in DOMAIN o => i - n > 0)
      BY <1>1
    <2>2. j \in DOMAIN q => ~(i - n \in DOMAIN o)
      BY <1>1, <1>3, <2>1
    <2>3. i - n < j - n
      BY <1>1, <1>3, <2>1
    <2> QED BY <1>1, <2>2, <2>3
  <1>4. ASSUME ShutAfter(r, kind, ch, v)
        PROVE  ShutAfter(q, kind, ch, v) \/ ShutAfter(o, kind, ch, v) \/ (Carried(q, kind, ch) /\ ShutIn(o, v))
    <2>1. PICK i \in DOMAIN r, j \in DOMAIN r : i < j /\ Carries(r[i], kind, ch) /\ Shuts(r[j], v)
      BY <1>4 DEF ShutAfter
    <2>2. CASE i \in DOMAIN q /\ j \in DOMAIN q
      BY <1>1, <2>1, <2>2 DEF ShutAfter
    <2>3. CASE i \in DOMAIN q /\ j - n \in DOMAIN o /\ r[j] = o[j - n]
      BY <1>1, <2>1, <2>3 DEF Carried, ShutIn
    <2>4. CASE i - n \in DOMAIN o /\ r[i] = o[i - n] /\ j - n \in DOMAIN o /\ r[j] = o[j - n] /\ i - n < j - n
      BY <2>1, <2>4 DEF ShutAfter
    <2> QED BY <1>3, <2>1, <2>2, <2>3, <2>4
  <1>5. ASSUME ShutAfter(q, kind, ch, v) PROVE ShutAfter(r, kind, ch, v)
    BY <1>1, <1>5 DEF ShutAfter
  <1>6. ASSUME ShutAfter(o, kind, ch, v) PROVE ShutAfter(r, kind, ch, v)
    <2>1. PICK i \in DOMAIN o, j \in DOMAIN o : i < j /\ Carries(o[i], kind, ch) /\ Shuts(o[j], v)
      BY <1>6 DEF ShutAfter
    <2>2. i + n \in DOMAIN r /\ r[i + n] = o[i] /\ j + n \in DOMAIN r /\ r[j + n] = o[j] /\ i + n < j + n
      BY <1>1, <2>1
    <2> QED BY <2>1, <2>2 DEF ShutAfter
  <1>7. ASSUME NEW i \in DOMAIN q, NEW j \in DOMAIN o
        PROVE  i \in DOMAIN r /\ r[i] = q[i] /\ j + n \in DOMAIN r /\ r[j + n] = o[j] /\ i < j + n
    <2>1. i \in Nat /\ i <= n /\ j \in Nat \ {0}
      BY <1>1
    <2>2. i < j + n
      BY <1>1, <2>1
    <2> QED BY <1>1, <2>2
  <1>8. ASSUME Carried(q, kind, ch), ShutIn(o, v) PROVE ShutAfter(r, kind, ch, v)
    <2>1. PICK i \in DOMAIN q : Carries(q[i], kind, ch)
      BY <1>8 DEF Carried
    <2>2. PICK j \in DOMAIN o : Shuts(o[j], v)
      BY <1>8 DEF ShutIn
    <2> QED BY <1>7, <2>1, <2>2 DEF ShutAfter
  <1>9. ASSUME OpenAfter(r, ch, v)
        PROVE  OpenAfter(q, ch, v) \/ OpenAfter(o, ch, v) \/ (Carried(q, "open", ch) /\ OpenIn(o, v))
    <2>1. PICK i \in DOMAIN r, j \in DOMAIN r : i < j /\ Carries(r[i], "open", ch) /\ Opens(r[j], v)
      BY <1>9 DEF OpenAfter
    <2>2. CASE i \in DOMAIN q /\ j \in DOMAIN q
      BY <1>1, <2>1, <2>2 DEF OpenAfter
    <2>3. CASE i \in DOMAIN q /\ j - n \in DOMAIN o /\ r[j] = o[j - n]
      BY <1>1, <2>1, <2>3 DEF Carried, OpenIn
    <2>4. CASE i - n \in DOMAIN o /\ r[i] = o[i - n] /\ j - n \in DOMAIN o /\ r[j] = o[j - n] /\ i - n < j - n
      BY <2>1, <2>4 DEF OpenAfter
    <2> QED BY <1>3, <2>1, <2>2, <2>3, <2>4
  <1>10. ASSUME OpenAfter(q, ch, v) PROVE OpenAfter(r, ch, v)
    BY <1>1, <1>10 DEF OpenAfter
  <1>11. ASSUME OpenAfter(o, ch, v) PROVE OpenAfter(r, ch, v)
    <2>1. PICK i \in DOMAIN o, j \in DOMAIN o : i < j /\ Carries(o[i], "open", ch) /\ Opens(o[j], v)
      BY <1>11 DEF OpenAfter
    <2>2. i + n \in DOMAIN r /\ r[i + n] = o[i] /\ j + n \in DOMAIN r /\ r[j + n] = o[j] /\ i + n < j + n
      BY <1>1, <2>1
    <2> QED BY <2>1, <2>2 DEF OpenAfter
  <1>12. ASSUME Carried(q, "open", ch), OpenIn(o, v) PROVE OpenAfter(r, ch, v)
    <2>1. PICK i \in DOMAIN q : Carries(q[i], "open", ch)
      BY <1>12 DEF Carried
    <2>2. PICK j \in DOMAIN o : Opens(o[j], v)
      BY <1>12 DEF OpenIn
    <2> QED BY <1>7, <2>1, <2>2 DEF OpenAfter
  <1>13. ASSUME ShutNext(q, ch, v) PROVE ShutNext(r, ch, v)
    <2>1. PICK i \in DOMAIN q, j \in DOMAIN q :
            /\ i < j /\ Carries(q[i], "open", ch) /\ Shuts(q[j], v)
            /\ \A k \in DOMAIN q : i < k /\ k < j => ~Opens(q[k], v)
      BY <1>13 DEF ShutNext
    <2>2. \A k \in DOMAIN r : i < k /\ k < j => ~Opens(r[k], v)
      <3> SUFFICES ASSUME NEW k \in DOMAIN r, i < k, k < j PROVE ~Opens(r[k], v)
        OBVIOUS
      <3>1. j \in DOMAIN r /\ j \in DOMAIN q
        BY <1>1
      <3>2. k \in DOMAIN q
        <4>1. j <= n /\ j \in Nat /\ k \in Nat /\ \A x \in DOMAIN o : x > 0
          BY <1>1
        <4> QED BY <1>1, <4>1
      <3> QED BY <1>1, <2>1, <3>2
    <2> QED BY <1>1, <2>1, <2>2 DEF ShutNext
  <1>14. ASSUME Carried(q, "open", ch), ~OpenAfter(q, ch, v), ~OpenIn(o, v), ShutIn(o, v)
         PROVE  ShutNext(r, ch, v)
    <2>1. PICK i \in DOMAIN q : Carries(q[i], "open", ch)
      BY <1>14 DEF Carried
    <2>2. PICK j \in DOMAIN o : Shuts(o[j], v)
      BY <1>14 DEF ShutIn
    <2>3. i \in DOMAIN r /\ r[i] = q[i] /\ j + n \in DOMAIN r /\ r[j + n] = o[j] /\ i < j + n
      BY <1>7
    <2>4. \A k \in DOMAIN r : i < k => ~Opens(r[k], v)
      BY <1>1, <1>14, <2>1 DEF OpenAfter, OpenIn
    <2> QED BY <2>1, <2>2, <2>3, <2>4 DEF ShutNext
  <1> QED BY <1>2, <1>4, <1>5, <1>6, <1>8, <1>9, <1>10, <1>11, <1>12, <1>13, <1>14 DEF r

\* Posting no port of v's, or one after a shut.
LEMMA JoinSpaced ==
  ASSUME NEW q \in Seq(ToWorker), NEW o \in Seq(ToWorker), NEW v,
         \/ \A i \in DOMAIN o : ~Grants(o[i], v)
         \/ /\ DOMAIN o = {1}
            /\ \A k \in DOMAIN q : Grants(q[k], v) => \E j \in DOMAIN q : k < j /\ Shuts(q[j], v)
  PROVE  LET r == q \o o
         IN /\ Spaced(q, v) => Spaced(r, v)
            /\ ShutEach(q, v) /\ ((\E i \in DOMAIN o : Grants(o[i], v)) => ShutIn(q, v)) => ShutEach(r, v)
  <1> DEFINE r == q \o o
             n == Len(q)
  <1>1. /\ n \in Nat
        /\ DOMAIN q \subseteq Nat \ {0} /\ DOMAIN o \subseteq Nat \ {0} /\ DOMAIN r \subseteq Nat \ {0}
        /\ \A i \in DOMAIN q : i <= n /\ i \in DOMAIN r /\ r[i] = q[i]
        /\ \A j \in DOMAIN o : j + n \in DOMAIN r /\ r[j + n] = o[j]
        /\ \A i \in DOMAIN r : i \in DOMAIN q \/ (i - n \in DOMAIN o /\ r[i] = o[i - n])
    BY JoinFacts
  <1> HIDE DEF r, n
  <1>2. ASSUME NEW i \in DOMAIN r, i - n \in DOMAIN o, NEW j \in DOMAIN q PROVE j < i
    <2>1. j \in Nat /\ j <= n /\ i \in Nat /\ i - n > 0
      BY <1>1, <1>2
    <2> QED BY <1>1, <2>1
  <1>3. ASSUME Spaced(q, v) PROVE Spaced(r, v)
    <2> SUFFICES ASSUME NEW i \in DOMAIN r, NEW k \in DOMAIN r, k < i, Grants(r[k], v), Grants(r[i], v)
                 PROVE  \E j \in DOMAIN r : k < j /\ j < i /\ Shuts(r[j], v)
      BY DEF Spaced
    <2>1. CASE i \in DOMAIN q
      <3>1. k \in DOMAIN q
        <4>1. i <= n /\ i \in Nat /\ k \in Nat /\ \A x \in DOMAIN o : x > 0
          BY <1>1, <2>1
        <4> QED BY <1>1, <4>1
      <3>2. PICK j \in DOMAIN q : k < j /\ j < i /\ Shuts(q[j], v)
        BY <1>1, <1>3, <2>1, <3>1 DEF Spaced
      <3> QED BY <1>1, <3>2
    <2>2. CASE i - n \in DOMAIN o /\ r[i] = o[i - n]
      <3>1. DOMAIN o = {1} /\ \A x \in DOMAIN q : Grants(q[x], v) => \E j \in DOMAIN q : x < j /\ Shuts(q[j], v)
        BY <2>2
      <3>2. i = n + 1
        BY <1>1, <2>2, <3>1
      <3>3. k \in DOMAIN q
        <4>1. k - n \in DOMAIN o => k = n + 1
          BY <1>1, <3>1
        <4> QED BY <1>1, <3>2, <4>1
      <3>4. PICK j \in DOMAIN q : k < j /\ Shuts(q[j], v)
        BY <1>1, <3>1, <3>3
      <3> QED BY <1>1, <1>2, <2>2, <3>4
    <2> QED BY <1>1, <2>1, <2>2
  <1>4. ASSUME ShutEach(q, v), (\E i \in DOMAIN o : Grants(o[i], v)) => ShutIn(q, v) PROVE ShutEach(r, v)
    <2> SUFFICES ASSUME NEW i \in DOMAIN r, Grants(r[i], v)
                 PROVE  \E j \in DOMAIN r : j < i /\ Shuts(r[j], v)
      BY DEF ShutEach
    <2>1. CASE i \in DOMAIN q
      BY <1>1, <1>4, <2>1 DEF ShutEach
    <2>2. CASE i - n \in DOMAIN o /\ r[i] = o[i - n]
      <3>1. PICK j \in DOMAIN q : Shuts(q[j], v)
        BY <1>4, <2>2 DEF ShutIn
      <3> QED BY <1>1, <1>2, <2>2, <3>1
    <2> QED BY <1>1, <2>1, <2>2
  <1> QED BY <1>3, <1>4 DEF r

\* Posting allows that fit, with no port; or anything but allows.
LEMMA JoinAllows ==
  ASSUME NEW q \in Seq(ToWorker), NEW o \in Seq(ToWorker), NEW v, NEW c, NEW gr, AllowsFit(q, v, c, gr),
         \A i \in DOMAIN o : Allows(o[i], v) =>
           /\ ~OpenIn(o, v)
           /\ \A j \in DOMAIN q : Opens(q[j], v) /\ (\A k \in DOMAIN q : j < k => ~Opens(q[k], v))
                                    => o[i].dev \in gr[q[j].port]
           /\ ~OpenIn(q, v) => c = 0 \/ o[i].dev \in gr[c]
  PROVE  AllowsFit(q \o o, v, c, gr)
  <1> DEFINE r == q \o o
             n == Len(q)
  <1>1. /\ n \in Nat
        /\ DOMAIN q \subseteq Nat \ {0} /\ DOMAIN o \subseteq Nat \ {0} /\ DOMAIN r \subseteq Nat \ {0}
        /\ \A i \in DOMAIN q : i <= n /\ i \in DOMAIN r /\ r[i] = q[i]
        /\ \A j \in DOMAIN o : j + n \in DOMAIN r /\ r[j + n] = o[j]
        /\ \A i \in DOMAIN r : i \in DOMAIN q \/ (i - n \in DOMAIN o /\ r[i] = o[i - n])
    BY JoinFacts
  <1> HIDE DEF r, n
  <1>2. ASSUME NEW i \in DOMAIN r, i - n \in DOMAIN o, NEW j \in DOMAIN q PROVE j < i
    <2>1. j \in Nat /\ j <= n /\ i \in Nat /\ i - n > 0
      BY <1>1, <1>2
    <2> QED BY <1>1, <2>1
  <1>3. ASSUME NEW i \in DOMAIN q, NEW j \in DOMAIN r, j < i PROVE j \in DOMAIN q
    <2>1. i <= n /\ i \in Nat /\ j \in Nat /\ \A x \in DOMAIN o : x > 0
      BY <1>1
    <2> QED BY <1>1, <1>3, <2>1
  <1>4. ASSUME NEW i \in DOMAIN r, Allows(r[i], v), NEW j \in DOMAIN r, j < i, Opens(r[j], v),
               \A k \in DOMAIN r : j < k /\ k < i => ~Opens(r[k], v)
        PROVE  r[i].dev \in gr[r[j].port]
    <2>1. CASE i \in DOMAIN q
      <3>1. j \in DOMAIN q
        BY <1>3, <1>4, <2>1
      <3> QED BY <1>1, <1>4, <2>1, <3>1 DEF AllowsFit
    <2>2. CASE i - n \in DOMAIN o /\ r[i] = o[i - n]
      <3>1. j \in DOMAIN q
        BY <1>1, <1>4, <2>2 DEF OpenIn
      <3>2. \A k \in DOMAIN q : j < k => ~Opens(q[k], v)
        BY <1>1, <1>2, <1>4, <2>2
      <3> QED BY <1>1, <1>4, <2>2, <3>1, <3>2
    <2> QED BY <1>1, <2>1, <2>2
  <1>5. ASSUME NEW i \in DOMAIN r, Allows(r[i], v), \A j \in DOMAIN r : j < i => ~Opens(r[j], v)
        PROVE  c = 0 \/ r[i].dev \in gr[c]
    <2>1. CASE i \in DOMAIN q
      <3>1. \A j \in DOMAIN q : j < i => ~Opens(q[j], v)
        BY <1>1, <1>5
      <3> QED BY <1>1, <1>5, <2>1, <3>1 DEF AllowsFit
    <2>2. CASE i - n \in DOMAIN o /\ r[i] = o[i - n]
      <3>1. ~OpenIn(q, v)
        BY <1>1, <1>2, <1>5, <2>2 DEF OpenIn
      <3> QED BY <1>5, <2>2, <3>1
    <2> QED BY <1>1, <2>1, <2>2
  <1> QED BY <1>4, <1>5 DEF r, AllowsFit

\* A post that carries no port, and what it says of the registry: pairs leave it,
\* and one of their workers is told; an allow is for a pair that is in it.
Announced(out) ==
  /\ out \in [Workers -> Seq(ToWorker)]
  /\ \A w \in Workers : toWorker'[w] = IF w \in Up THEN toWorker[w] \o out[w] ELSE toWorker[w]
  /\ \A w \in Workers : \A i \in DOMAIN out[w] :
       LET m == out[w][i] IN
         /\ m.kind # "open" /\ (m.kind = "grant" => m.port = 0)
         /\ m.kind = "allow" /\ w \in Up =>
              /\ May(m.peer, w) /\ registry[<<m.peer, w>>] # 0
              /\ m.dev \in grants'[registry[<<m.peer, w>>]]
         /\ m.kind = "invalidate" =>
              /\ <<w, m.peer>> \in SinglePairs => registry'[<<w, m.peer>>] = 0
              /\ <<m.peer, w>> \in SinglePairs => registry'[<<m.peer, w>>] = 0
  /\ \A p \in Pairs :
       /\ registry'[p] \in {registry[p], 0}
       /\ registry'[p] # registry[p] =>
            \/ p[1] \in Up => ShutIn(out[p[1]], p[2])
            \/ phase'[p[1]] # "up" /\ (p[2] \in Up => ShutIn(out[p[2]], p[1]))

\* The channels stay as they are; a worker may stop being up.
Undisturbed ==
  /\ UNCHANGED <<used, pair, callerEnd, calleeEnd, peerChannels, allowed>>
  /\ \A ch \in Channels : grants[ch] \subseteq grants'[ch]
  /\ Up' = Up
  /\ \A w \in Workers : (phase'[w] = "unborn" <=> phase[w] = "unborn") /\ (phase'[w] = "up" => phase[w] = "up")

\* What such a post adds to a worker's port.
LEMMA PostEffect ==
  ASSUME BrokerTypeOK, NEW out, Announced(out), NEW w \in Workers, NEW v \in Workers, NEW kind, NEW ch
  PROVE  LET q == toWorker[w]
             r == toWorker'[w]
             told == w \in Up /\ ShutIn(out[w], v)
         IN /\ ShutIn(r, v) <=> ShutIn(q, v) \/ told
            /\ OpenIn(r, v) <=> OpenIn(q, v)
            /\ ShutFirst(q, v) => ShutFirst(r, v)
            /\ ~OpenIn(q, v) /\ told => ShutFirst(r, v)
            /\ Carried(q, kind, ch) => Carried(r, kind, ch)
            /\ ShutAfter(q, kind, ch, v) => ShutAfter(r, kind, ch, v)
            /\ ShutAfter(r, kind, ch, v) => ShutAfter(q, kind, ch, v) \/ told
            /\ Carried(q, kind, ch) /\ told => ShutAfter(r, kind, ch, v)
            /\ OpenAfter(r, ch, v) <=> OpenAfter(q, ch, v)
            /\ ShutNext(q, ch, v) => ShutNext(r, ch, v)
            /\ Carried(q, "open", ch) /\ ~OpenAfter(q, ch, v) /\ told => ShutNext(r, ch, v)
            /\ Spaced(q, v) => Spaced(r, v)
            /\ ShutEach(q, v) => ShutEach(r, v)
  <1> DEFINE q == toWorker[w]
             o == out[w]
             r == toWorker'[w]
  <1>1. q \in Seq(ToWorker) /\ o \in Seq(ToWorker)
    BY DEF BrokerTypeOK, Announced
  <1>2. CASE w \notin Up
    <2>1. r = q
      BY <1>2 DEF Announced
    <2>2. ShutAfter(q, kind, ch, v) <=> ShutAfter(r, kind, ch, v)
      BY <2>1
    <2> QED BY <1>2, <2>1
  <1>3. CASE w \in Up
    <2>1. r = q \o o
      BY <1>3 DEF Announced
    <2>2. /\ ~OpenIn(o, v) /\ ~OpenAfter(o, ch, v) /\ \A i \in DOMAIN o : ~Grants(o[i], v)
          /\ ShutAfter(o, kind, ch, v) => ShutIn(o, v)
      <3>1. \A i \in DOMAIN o : o[i].kind # "open" /\ (o[i].kind = "grant" => o[i].port = 0)
        BY DEF Announced
      <3> HIDE DEF o
      <3> QED BY <3>1 DEF OpenIn, OpenAfter, Opens, Grants, ShutAfter, ShutIn
    <2> HIDE DEF q, o, r
    <2>3. /\ ShutIn(r, v) <=> ShutIn(q, v) \/ ShutIn(o, v)
          /\ OpenIn(r, v) <=> OpenIn(q, v)
          /\ ShutFirst(q, v) => ShutFirst(r, v)
          /\ ~OpenIn(q, v) /\ ShutIn(o, v) => ShutFirst(r, v)
      BY <1>1, <2>1, <2>2, JoinHas
    <2>4. /\ Carried(q, kind, ch) => Carried(r, kind, ch)
          /\ ShutAfter(q, kind, ch, v) => ShutAfter(r, kind, ch, v)
          /\ ShutAfter(r, kind, ch, v) => ShutAfter(q, kind, ch, v) \/ ShutIn(o, v)
          /\ Carried(q, kind, ch) /\ ShutIn(o, v) => ShutAfter(r, kind, ch, v)
          /\ OpenAfter(r, ch, v) <=> OpenAfter(q, ch, v)
          /\ ShutNext(q, ch, v) => ShutNext(r, ch, v)
          /\ Carried(q, "open", ch) /\ ~OpenAfter(q, ch, v) /\ ShutIn(o, v) => ShutNext(r, ch, v)
      BY <1>1, <2>1, <2>2, JoinAfter
    <2>5. (Spaced(q, v) => Spaced(r, v)) /\ (ShutEach(q, v) => ShutEach(r, v))
      BY <1>1, <2>1, <2>2, JoinSpaced
    <2> QED BY <1>3, <2>3, <2>4, <2>5 DEF q, o, r
  <1> QED BY <1>2, <1>3

\* Channels that are there are numbered, and connect two workers.
LEMMA MadeFacts ==
  ASSUME BrokerTypeOK, Founded
  PROVE  /\ Made \subseteq Channels
         /\ \A ch \in Channels : callerEnd[ch] # "none" \/ calleeEnd[ch] # "none" => ch \in Made
         /\ \A ch \in Made : /\ CallerOf(ch) \in Workers /\ CalleeOf(ch) \in Workers /\ pair[ch] \in Pairs
                             /\ pair[ch] = <<CallerOf(ch), CalleeOf(ch)>> /\ May(CallerOf(ch), CalleeOf(ch))
                             /\ phase[CallerOf(ch)] # "unborn" /\ phase[CalleeOf(ch)] # "unborn"
         /\ \A p \in Pairs : registry[p] # 0 =>
              /\ registry[p] \in Made /\ pair[registry[p]] = p /\ p = <<p[1], p[2]>>
              /\ CallerOf(registry[p]) = p[1] /\ CalleeOf(registry[p]) = p[2]
              /\ p[1] \in Workers /\ p[2] \in Workers /\ May(p[1], p[2])
              /\ phase[p[1]] # "unborn" /\ phase[p[2]] # "unborn"
  <1>1. Made \subseteq Channels
    BY BrokerAssumption DEF BrokerTypeOK, Made, Channels
  <1>2. \A ch \in Channels : ch \in Made \/ ch > used
    BY BrokerAssumption DEF BrokerTypeOK, Made, Channels
  <1>3. \A ch \in Made : /\ CallerOf(ch) \in Workers /\ CalleeOf(ch) \in Workers /\ pair[ch] \in Pairs
                         /\ pair[ch] = <<CallerOf(ch), CalleeOf(ch)>>
    <2> TAKE ch \in Made
    <2>1. pair[ch] \in (Workers \cup {None}) \X (Workers \cup {None})
      BY <1>1 DEF BrokerTypeOK
    <2>2. CallerOf(ch) \in Workers /\ CalleeOf(ch) \in Workers
      BY DEF Founded
    <2> QED BY <2>1, <2>2 DEF CallerOf, CalleeOf, Pairs
  <1>4. \A p \in Pairs : p = <<p[1], p[2]>> /\ p[1] \in Workers /\ p[2] \in Workers
    BY DEF Pairs
  <1>5. \A ch \in Made : /\ May(CallerOf(ch), CalleeOf(ch))
                         /\ phase[CallerOf(ch)] # "unborn" /\ phase[CalleeOf(ch)] # "unborn"
    BY DEF Founded
  <1>6. \A p \in Pairs : registry[p] # 0 =>
              /\ registry[p] \in Made /\ pair[registry[p]] = p
              /\ CallerOf(registry[p]) = p[1] /\ CalleeOf(registry[p]) = p[2]
    BY DEF Founded, CallerOf, CalleeOf
  <1>7. \A ch \in Channels : callerEnd[ch] # "none" \/ calleeEnd[ch] # "none" => ch \in Made
    BY <1>2 DEF Founded
  <1> QED BY <1>1, <1>3, <1>4, <1>5, <1>6, <1>7

\* A single pair and its channel.
LEMMA SingleFacts ==
  ASSUME BrokerTypeOK, Founded
  PROVE  /\ \A ch \in Single : /\ ch \in Made /\ pair[ch] \in SinglePairs
                               /\ May(CallerOf(ch), CalleeOf(ch)) /\ ~May(CalleeOf(ch), CallerOf(ch))
         /\ \A p \in SinglePairs : p \in Pairs /\ ~May(p[2], p[1])
  <1>1. \A ch \in Made : /\ pair[ch] \in Pairs /\ pair[ch][1] = CallerOf(ch) /\ pair[ch][2] = CalleeOf(ch)
                         /\ May(CallerOf(ch), CalleeOf(ch))
    BY MadeFacts DEF CallerOf, CalleeOf
  <1> QED BY <1>1 DEF Single, SinglePairs

\* The ports on their way stay so when no other is posted.
LEMMA PostPorts ==
  ASSUME BrokerTypeOK, BrokerTypeOK', NEW out, Announced(out), Undisturbed, Founded, Ports
  PROVE  Founded' /\ Ports'
  <1>1. /\ Made \subseteq Channels
        /\ \A ch \in Made : CallerOf(ch) \in Workers /\ CalleeOf(ch) \in Workers
    BY MadeFacts
  <1>2. /\ used' = used /\ pair' = pair /\ callerEnd' = callerEnd /\ calleeEnd' = calleeEnd
        /\ Made' = Made /\ Up' = Up
        /\ \A ch \in Channels : grants[ch] \subseteq grants'[ch]
        /\ \A w \in Workers : phase'[w] = "unborn" <=> phase[w] = "unborn"
    BY DEF Undisturbed, Made
  <1>3. \A ch : CallerOf(ch)' = CallerOf(ch) /\ CalleeOf(ch)' = CalleeOf(ch)
    BY <1>2 DEF CallerOf, CalleeOf
  <1>4. Founded'
    <2>1. \A ch \in Channels : ch > used' =>
            callerEnd'[ch] = "none" /\ calleeEnd'[ch] = "none" /\ pair'[ch] = <<None, None>>
      BY <1>2 DEF Founded
    <2>2. \A ch \in Made' :
            /\ CallerOf(ch)' \in Workers /\ CalleeOf(ch)' \in Workers /\ May(CallerOf(ch), CalleeOf(ch))'
            /\ phase'[CallerOf(ch)'] # "unborn" /\ phase'[CalleeOf(ch)'] # "unborn"
      BY <1>1, <1>2, <1>3 DEF Founded, May
    <2>3. \A p \in Pairs : registry'[p] # 0 => registry'[p] \in Made' /\ pair'[registry'[p]] = p
      BY <1>2 DEF Founded, Announced
    <2> QED BY <2>1, <2>2, <2>3 DEF Founded
  <1>5. ASSUME NEW w \in Workers PROVE Carrying(w, toWorker[w])' /\ (w \notin Up' => toWorker'[w] = <<>>)
    <2> DEFINE q == toWorker[w]
               o == out[w]
               r == toWorker'[w]
    <2>1. /\ q \in Seq(ToWorker) /\ o \in Seq(ToWorker)
          /\ r = IF w \in Up THEN q \o o ELSE q
          /\ w \notin Up => q = <<>>
      BY DEF BrokerTypeOK, Announced, Ports
    <2>2. \A i \in DOMAIN o :
            /\ o[i].kind # "open" /\ (o[i].kind = "grant" => o[i].port = 0)
            /\ o[i].kind = "allow" /\ w \in Up => May(o[i].peer, w)
      BY DEF Announced
    <2>3. \A i \in DOMAIN q :
            /\ q[i].kind = "grant" /\ q[i].port # 0 =>
                 q[i].port \in Made /\ pair[q[i].port] = <<w, q[i].peer>> /\ callerEnd[q[i].port] = "transit"
            /\ q[i].kind = "open" =>
                 /\ q[i].port \in Made /\ pair[q[i].port] = <<q[i].peer, w>> /\ calleeEnd[q[i].port] = "transit"
                 /\ q[i].dev \in grants[q[i].port]
            /\ q[i].kind = "allow" => May(q[i].peer, w)
      BY DEF Ports, Carrying
    <2>4. \A i, j \in DOMAIN q : q[i].kind = q[j].kind /\ q[i].kind \in {"grant", "open"}
                                   /\ q[i].port = q[j].port /\ q[i].port # 0 => i = j
      BY DEF Ports, Carrying
    <2> HIDE DEF q, o
    <2>5. \A i \in DOMAIN r : (i \in DOMAIN q /\ r[i] = q[i]) \/ (w \in Up /\ i - Len(q) \in DOMAIN o /\ r[i] = o[i - Len(q)])
      <3> HIDE DEF r
      <3>1. CASE w \in Up
        BY <2>1, <3>1, JoinFacts
      <3>2. CASE w \notin Up
        BY <2>1, <3>2
      <3> QED BY <3>1, <3>2
    <2>6. \A i \in DOMAIN r :
            /\ r[i].kind = "grant" /\ r[i].port # 0 =>
                 r[i].port \in Made' /\ pair'[r[i].port] = <<w, r[i].peer>> /\ callerEnd'[r[i].port] = "transit"
            /\ r[i].kind = "open" =>
                 /\ r[i].port \in Made' /\ pair'[r[i].port] = <<r[i].peer, w>> /\ calleeEnd'[r[i].port] = "transit"
                 /\ r[i].dev \in grants'[r[i].port]
            /\ r[i].kind = "allow" => May(r[i].peer, w)
      <3> HIDE DEF r
      <3> TAKE i \in DOMAIN r
      <3>1. CASE i \in DOMAIN q /\ r[i] = q[i]
        BY <1>1, <1>2, <2>3, <3>1
      <3>2. CASE w \in Up /\ i - Len(q) \in DOMAIN o /\ r[i] = o[i - Len(q)]
        BY <2>2, <3>2
      <3> QED BY <2>5, <3>1, <3>2
    <2>7. \A i, j \in DOMAIN r : r[i].kind = r[j].kind /\ r[i].kind \in {"grant", "open"}
                                   /\ r[i].port = r[j].port /\ r[i].port # 0 => i = j
      <3> HIDE DEF r
      <3>1. \A i \in DOMAIN r : r[i].kind \in {"grant", "open"} /\ r[i].port # 0 => i \in DOMAIN q /\ r[i] = q[i]
        BY <2>2, <2>5
      <3> SUFFICES ASSUME NEW i \in DOMAIN r, NEW j \in DOMAIN r, r[i].kind = r[j].kind,
                          r[i].kind \in {"grant", "open"}, r[i].port = r[j].port, r[i].port # 0
                   PROVE  i = j
        OBVIOUS
      <3>2. i \in DOMAIN q /\ r[i] = q[i]
        BY <3>1
      <3>3. j \in DOMAIN q /\ r[j] = q[j]
        BY <3>1
      <3> QED BY <2>4, <3>2, <3>3
    <2>8. Carrying(w, toWorker[w])'
      BY <2>6, <2>7 DEF Carrying
    <2> QED BY <1>2, <2>1, <2>8
  <1>6. \A ch \in Made' :
       /\ callerEnd'[ch] \in Alive => CallerOf(ch)' \in Up'
       /\ calleeEnd'[ch] \in Alive => CalleeOf(ch)' \in Up'
       /\ callerEnd'[ch] = "transit" => Carried(toWorker'[CallerOf(ch)'], "grant", ch)
       /\ calleeEnd'[ch] = "transit" => Carried(toWorker'[CalleeOf(ch)'], "open", ch)
    <2> TAKE ch \in Made'
    <2>1. /\ callerEnd[ch] \in Alive => CallerOf(ch) \in Up
          /\ calleeEnd[ch] \in Alive => CalleeOf(ch) \in Up
          /\ callerEnd[ch] = "transit" => Carried(toWorker[CallerOf(ch)], "grant", ch)
          /\ calleeEnd[ch] = "transit" => Carried(toWorker[CalleeOf(ch)], "open", ch)
      BY <1>2 DEF Ports
    <2>2. CallerOf(ch) \in Workers /\ CalleeOf(ch) \in Workers
      BY <1>1, <1>2
    <2>3. /\ Carried(toWorker[CallerOf(ch)], "grant", ch) => Carried(toWorker'[CallerOf(ch)], "grant", ch)
          /\ Carried(toWorker[CalleeOf(ch)], "open", ch) => Carried(toWorker'[CalleeOf(ch)], "open", ch)
      BY <2>2, PostEffect
    <2> QED BY <1>2, <1>3, <2>1, <2>3
  <1>7. Ports'
    BY <1>5, <1>6 DEF Ports
  <1> QED BY <1>4, <1>7

\* A worker told before is told still; when a pair leaves the registry one is told.
LEMMA PostWarned ==
  ASSUME BrokerTypeOK, BrokerTypeOK', NEW out, Announced(out), Undisturbed, Wired
  PROVE  Warned' /\ Whole'
  <1>1. /\ Made \subseteq Channels
        /\ \A ch \in Made : /\ CallerOf(ch) \in Workers /\ CalleeOf(ch) \in Workers /\ pair[ch] \in Pairs
                            /\ pair[ch] = <<CallerOf(ch), CalleeOf(ch)>>
        /\ \A p \in Pairs : registry[p] # 0 =>
              /\ registry[p] \in Made /\ pair[registry[p]] = p /\ p = <<p[1], p[2]>>
              /\ CallerOf(registry[p]) = p[1] /\ CalleeOf(registry[p]) = p[2]
              /\ p[1] \in Workers /\ p[2] \in Workers
    BY MadeFacts DEF Wired
  <1>0. /\ \A ch \in Single : ch \in Made /\ pair[ch] \in SinglePairs
        /\ \A p \in SinglePairs : p \in Pairs
    BY SingleFacts DEF Wired
  <1>2. /\ used' = used /\ pair' = pair /\ callerEnd' = callerEnd /\ calleeEnd' = calleeEnd
        /\ peerChannels' = peerChannels /\ Made' = Made /\ Single' = Single /\ Up' = Up
        /\ \A w \in Workers : phase'[w] = "up" => phase[w] = "up"
    BY SingleKept DEF Undisturbed, Made
  <1>3. \A ch : CallerOf(ch)' = CallerOf(ch) /\ CalleeOf(ch)' = CalleeOf(ch)
    BY <1>2 DEF CallerOf, CalleeOf
  <1>4. ASSUME NEW ch \in Made, CallerWarned(ch) PROVE CallerWarned(ch)'
    <2>1. CallerOf(ch) \in Workers /\ CalleeOf(ch) \in Workers
      BY <1>1
    <2>2. /\ ShutIn(toWorker[CallerOf(ch)], CalleeOf(ch)) => ShutIn(toWorker'[CallerOf(ch)], CalleeOf(ch))
          /\ ShutAfter(toWorker[CallerOf(ch)], "grant", ch, CalleeOf(ch))
               => ShutAfter(toWorker'[CallerOf(ch)], "grant", ch, CalleeOf(ch))
      BY <2>1, PostEffect
    <2> QED BY <1>2, <1>3, <1>4, <2>2 DEF CallerWarned
  <1>5. ASSUME NEW ch \in Made, CalleeWarned(ch) PROVE CalleeWarned(ch)'
    <2>1. CallerOf(ch) \in Workers /\ CalleeOf(ch) \in Workers
      BY <1>1
    <2>2. /\ ShutFirst(toWorker[CalleeOf(ch)], CallerOf(ch)) => ShutFirst(toWorker'[CalleeOf(ch)], CallerOf(ch))
          /\ ShutNext(toWorker[CalleeOf(ch)], ch, CallerOf(ch)) => ShutNext(toWorker'[CalleeOf(ch)], ch, CallerOf(ch))
      BY <2>1, PostEffect
    <2> QED BY <1>2, <1>3, <1>5, <2>2 DEF CalleeWarned
  <1>6. ASSUME NEW ch \in Single, callerEnd[ch] \in Alive, registry[pair[ch]] = ch, registry'[pair[ch]] # ch
        PROVE  \/ CallerWarned(ch)'
               \/ phase'[CallerOf(ch)] # "up" /\ (calleeEnd[ch] \in Alive => CalleeWarned(ch)')
    <2> DEFINE w == CallerOf(ch)
               v == CalleeOf(ch)
    <2>1. w \in Workers /\ v \in Workers /\ pair[ch] \in Pairs /\ pair[ch] = <<w, v>> /\ ch # 0
          /\ ch \in Made /\ pair[ch] \in SinglePairs
      BY <1>0, <1>1, <1>6 DEF Made
    <2>2. /\ w \in Up /\ (calleeEnd[ch] \in Alive => v \in Up)
          /\ callerEnd[ch] = "transit" => Carried(toWorker[w], "grant", ch)
          /\ calleeEnd[ch] = "transit" => Carried(toWorker[v], "open", ch)
      BY <1>6, <2>1 DEF Wired, Ports
    <2>3. \/ ShutIn(out[w], v)
          \/ phase'[w] # "up" /\ (v \in Up => ShutIn(out[v], w))
      <3>1. \/ pair[ch][1] \in Up => ShutIn(out[pair[ch][1]], pair[ch][2])
            \/ phase'[pair[ch][1]] # "up" /\ (pair[ch][2] \in Up => ShutIn(out[pair[ch][2]], pair[ch][1]))
        BY <1>6, <2>1 DEF Announced
      <3> QED BY <2>2, <3>1 DEF CallerOf, CalleeOf
    <2> HIDE DEF w, v
    <2>4. CASE ShutIn(out[w], v)
      <3>1. /\ ShutIn(toWorker'[w], v)
            /\ Carried(toWorker[w], "grant", ch) => ShutAfter(toWorker'[w], "grant", ch, v)
        BY <2>1, <2>2, <2>4, PostEffect
      <3> QED BY <1>2, <1>3, <1>6, <2>2, <3>1 DEF CallerWarned, Alive, w, v
    <2>5. CASE phase'[w] # "up" /\ (v \in Up => ShutIn(out[v], w))
      <3> SUFFICES ASSUME calleeEnd[ch] \in Alive PROVE CalleeWarned(ch)'
        BY <2>5 DEF w
      <3>1. v \in Up /\ ShutIn(out[v], w)
        BY <2>2, <2>5
      <3>2. \/ calleeEnd[ch] = "transit" /\ ~OpenAfter(toWorker[v], ch, w)
            \/ calleeEnd[ch] = "open" /\ peerChannels[v][w] = ch /\ ~OpenIn(toWorker[v], w)
        <4>1. pair[ch][1] = w /\ pair[ch][2] = v
          BY DEF w, v, CallerOf, CalleeOf
        <4>2. calleeEnd[ch] # "closed"
          BY DEF Alive
        <4> QED BY <1>6, <2>1, <3>1, <4>1, <4>2 DEF Wired, Latest
      <3>3. /\ ~OpenIn(toWorker[v], w) => ShutFirst(toWorker'[v], w)
            /\ Carried(toWorker[v], "open", ch) /\ ~OpenAfter(toWorker[v], ch, w) => ShutNext(toWorker'[v], ch, w)
        BY <2>1, <3>1, PostEffect
      <3> QED BY <1>2, <1>3, <2>2, <3>2, <3>3 DEF CalleeWarned, w, v
    <2> QED BY <2>3, <2>4, <2>5 DEF w
  <1>7. Warned'
    <2> SUFFICES ASSUME NEW ch \in Single, callerEnd[ch] \in Alive
                 PROVE  \/ registry'[pair[ch]] = ch
                        \/ CallerWarned(ch)'
                        \/ phase'[CallerOf(ch)] # "up" /\ (calleeEnd[ch] \in Alive => CalleeWarned(ch)')
      BY <1>2, <1>3 DEF Warned
    <2>1. \/ registry[pair[ch]] = ch
          \/ CallerWarned(ch)
          \/ phase[CallerOf(ch)] # "up" /\ (calleeEnd[ch] \in Alive => CalleeWarned(ch))
      BY DEF Wired, Warned
    <2>2. CASE registry[pair[ch]] = ch
      BY <1>6, <2>2
    <2>3. CASE CallerWarned(ch)
      BY <1>0, <1>4, <2>3
    <2>4. CASE phase[CallerOf(ch)] # "up" /\ (calleeEnd[ch] \in Alive => CalleeWarned(ch))
      <3>1. phase'[CallerOf(ch)] # "up"
        BY <1>0, <1>1, <1>2, <2>4
      <3>2. calleeEnd[ch] \in Alive => CalleeWarned(ch)'
        BY <1>0, <1>5, <2>4
      <3> QED BY <3>1, <3>2
    <2> QED BY <2>1, <2>2, <2>3, <2>4
  <1>8. Whole'
    <2> SUFFICES ASSUME NEW p \in SinglePairs, NEW r, r = registry'[p], r # 0, phase'[p[1]] = "up", phase'[p[2]] = "up"
                 PROVE  /\ callerEnd'[r] \in Alive /\ ~CallerWarned(r)'
                        /\ calleeEnd'[r] \in Alive /\ ~CalleeTold(r)'
      BY DEF Whole, CallerWarned, CalleeTold
    <2>0. PICK w \in Workers, v \in Workers : p = <<w, v>> /\ p[1] = w /\ p[2] = v
      BY <1>0 DEF Pairs
    <2>1. registry[p] = r
      BY <1>0 DEF Announced
    <2>2. /\ callerEnd[r] \in Alive /\ ~CallerWarned(r)
          /\ calleeEnd[r] \in Alive /\ ~CalleeTold(r)
      BY <1>2, <2>0, <2>1 DEF Wired, Whole
    <2>3. r \in Made /\ CallerOf(r) = w /\ CalleeOf(r) = v
      BY <1>0, <1>1, <2>0, <2>1
    <2>4. /\ \A i \in DOMAIN out[w] : ~Shuts(out[w][i], v)
          /\ \A i \in DOMAIN out[v] : ~Shuts(out[v][i], w)
      <3>1. <<w, v>> \in SinglePairs /\ registry'[<<w, v>>] # 0
        BY <2>0
      <3>2. \A x \in Workers : \A i \in DOMAIN out[x] : out[x][i].kind = "invalidate" =>
              /\ <<x, out[x][i].peer>> \in SinglePairs => registry'[<<x, out[x][i].peer>>] = 0
              /\ <<out[x][i].peer, x>> \in SinglePairs => registry'[<<out[x][i].peer, x>>] = 0
        BY DEF Announced
      <3> QED BY <3>1, <3>2 DEF Shuts
    <2>5. ~ShutIn(out[w], v) /\ ~ShutIn(out[v], w)
      BY <2>4 DEF ShutIn
    <2>6. /\ ShutIn(toWorker'[w], v) => ShutIn(toWorker[w], v)
          /\ ShutAfter(toWorker'[w], "grant", r, v) => ShutAfter(toWorker[w], "grant", r, v)
      BY <2>5, PostEffect
    <2>7. /\ ShutIn(toWorker'[v], w) => ShutIn(toWorker[v], w)
          /\ ShutAfter(toWorker'[v], "open", r, w) => ShutAfter(toWorker[v], "open", r, w)
      BY <2>5, PostEffect
    <2>8. ~CallerWarned(r)'
      BY <1>2, <1>3, <2>2, <2>3, <2>6 DEF CallerWarned
    <2>9. ~CalleeTold(r)'
      BY <1>2, <1>3, <2>2, <2>3, <2>7 DEF CalleeTold
    <2> QED BY <1>2, <2>2, <2>8, <2>9
  <1> QED BY <1>7, <1>8

\* The rest: no port is posted, and an allow is for a device granted on the pair's channel.
LEMMA PostKeeps ==
  ASSUME BrokerTypeOK, BrokerTypeOK', NEW out, Announced(out), Undisturbed, Wired
  PROVE  Wired'
  <1>1. Founded' /\ Ports' /\ Warned' /\ Whole'
    BY PostPorts, PostWarned DEF Wired
  <1>2. /\ used' = used /\ pair' = pair /\ callerEnd' = callerEnd /\ calleeEnd' = calleeEnd
        /\ peerChannels' = peerChannels /\ allowed' = allowed /\ Made' = Made /\ Single' = Single /\ Up' = Up
        /\ \A w \in Workers : phase'[w] = "up" => phase[w] = "up"
        /\ \A ch \in Channels : grants[ch] \subseteq grants'[ch]
    BY SingleKept DEF Undisturbed, Made
  <1>3. \A ch : CallerOf(ch)' = CallerOf(ch) /\ CalleeOf(ch)' = CalleeOf(ch)
    BY <1>2 DEF CallerOf, CalleeOf
  <1>4. Made \subseteq Channels /\ Single \subseteq Channels /\ SinglePairs \subseteq Pairs
    <2>1. Made \subseteq Channels
      BY MadeFacts DEF Wired
    <2> QED BY <2>1 DEF Single, SinglePairs
  <1>5. Tabled'
    BY <1>2, <1>3 DEF Wired, Tabled
  <1>6. NoneStranded'
    <2> SUFFICES ASSUME NEW w \in Workers, NEW v \in Workers, May(w, v), ~May(v, w), phase'[w] = "up"
                 PROVE  Spaced(toWorker'[w], v) /\ (peerChannels[w][v] # 0 => ShutEach(toWorker'[w], v))
      BY <1>2 DEF NoneStranded, May
    <2>1. Spaced(toWorker[w], v) /\ (peerChannels[w][v] # 0 => ShutEach(toWorker[w], v))
      BY <1>2 DEF Wired, NoneStranded
    <2> QED BY <2>1, PostEffect
  <1>7. Latest'
    <2> SUFFICES ASSUME NEW p \in SinglePairs, registry'[p] # 0, p[2] \in Up
                 PROVE  LET r == registry'[p] IN
                          \/ calleeEnd[r] = "transit" /\ ~OpenAfter(toWorker'[p[2]], r, p[1])
                          \/ calleeEnd[r] = "open" /\ peerChannels[p[2]][p[1]] = r /\ ~OpenIn(toWorker'[p[2]], p[1])
                          \/ calleeEnd[r] = "closed" /\ peerChannels[p[2]][p[1]] = 0 /\ ~OpenIn(toWorker'[p[2]], p[1])
      BY <1>2 DEF Latest
    <2>1. registry'[p] = registry[p] /\ p[1] \in Workers /\ p[2] \in Workers
      BY <1>4 DEF Announced, Pairs
    <2>2. /\ OpenIn(toWorker'[p[2]], p[1]) <=> OpenIn(toWorker[p[2]], p[1])
          /\ OpenAfter(toWorker'[p[2]], registry[p], p[1]) <=> OpenAfter(toWorker[p[2]], registry[p], p[1])
      BY <2>1, PostEffect
    <2> QED BY <2>1, <2>2 DEF Wired, Latest
  <1>8. ASSUME NEW w \in Workers, NEW v \in Workers, May(v, w), ~May(w, v)
        PROVE  AllowsFit(toWorker'[w], v, peerChannels[w][v], grants')
    <2> DEFINE q == toWorker[w]
               o == out[w]
               c == peerChannels[w][v]
               s == registry[<<v, w>>]
    <2>1. /\ q \in Seq(ToWorker) /\ o \in Seq(ToWorker) /\ c \in 0 .. MaxChannels
          /\ toWorker'[w] = IF w \in Up THEN q \o o ELSE q
      <3>1. q \in Seq(ToWorker) /\ c \in 0 .. MaxChannels
        BY DEF BrokerTypeOK
      <3>2. o \in Seq(ToWorker) /\ toWorker'[w] = IF w \in Up THEN q \o o ELSE q
        BY DEF Announced
      <3> QED BY <3>1, <3>2
    <2>2. AllowsFit(q, v, c, grants)
      BY <1>8 DEF Wired, Backed
    <2>3. \A j \in DOMAIN q : Opens(q[j], v) =>
            /\ q[j].port \in Made /\ calleeEnd[q[j].port] = "transit"
            /\ q[j].kind = "open" /\ q[j].port # 0
      BY DEF Wired, Ports, Carrying, Opens, Made
    <2>4. c # 0 => c \in Made
      BY DEF Wired, Tabled
    <2> HIDE DEF q, o, c
    <2>5. AllowsFit(q, v, c, grants')
      <3>1. /\ \A j \in DOMAIN q : Opens(q[j], v) => grants[q[j].port] \subseteq grants'[q[j].port]
            /\ c # 0 => grants[c] \subseteq grants'[c]
        BY <1>2, <1>4, <2>3, <2>4
      <3> QED BY <2>2, <3>1, AllowsMore
    <2>6. CASE w \notin Up
      BY <2>1, <2>5, <2>6 DEF c
    <2>7. CASE w \in Up
      <3>1. ~OpenIn(o, v)
        BY DEF Announced, OpenIn, Opens, o
      <3>2. ASSUME NEW i \in DOMAIN o, Allows(o[i], v)
            PROVE  /\ \A j \in DOMAIN q : Opens(q[j], v) /\ (\A k \in DOMAIN q : j < k => ~Opens(q[k], v))
                                           => o[i].dev \in grants'[q[j].port]
                   /\ ~OpenIn(q, v) => c = 0 \/ o[i].dev \in grants'[c]
        <4>1. s # 0 /\ o[i].dev \in grants'[s]
          BY <2>7, <3>2 DEF Announced, Allows, o
        <4>2. <<v, w>> \in Pairs /\ <<v, w>> \in SinglePairs
          BY <1>8 DEF Pairs, SinglePairs
        <4>3. \/ calleeEnd[s] = "transit" /\ ~OpenAfter(q, s, v)
              \/ calleeEnd[s] = "open" /\ c = s /\ ~OpenIn(q, v)
              \/ calleeEnd[s] = "closed" /\ c = 0 /\ ~OpenIn(q, v)
          BY <2>7, <4>1, <4>2 DEF Wired, Latest, q, c
        <4>4. s \in Made /\ CalleeOf(s) = w /\ CallerOf(s) = v
          BY <4>1, <4>2, MadeFacts DEF Wired
        <4> HIDE DEF s
        <4>5. CASE calleeEnd[s] = "transit" /\ ~OpenAfter(q, s, v)
          <5>1. Carried(q, "open", s)
            BY <4>4, <4>5 DEF Wired, Ports, q
          <5>2. PICK a \in DOMAIN q : Carries(q[a], "open", s)
            BY <5>1 DEF Carried
          <5>3. \A j \in DOMAIN q : a < j => ~Opens(q[j], v)
            BY <4>5, <5>2 DEF OpenAfter
          <5>4. Opens(q[a], v)
            <6>1. pair[s] = <<q[a].peer, w>>
              BY <5>2 DEF Wired, Ports, Carrying, Carries, q
            <6> QED BY <4>4, <5>2, <6>1 DEF Opens, Carries, CallerOf
          <5>5. \A j \in DOMAIN q : a \in Nat /\ j \in Nat
            BY <2>1, TakeFacts
          <5>6. ASSUME NEW j \in DOMAIN q, Opens(q[j], v), \A k \in DOMAIN q : j < k => ~Opens(q[k], v)
                PROVE  o[i].dev \in grants'[q[j].port]
            <6>1. j = a
              <7>1. ~(a < j) /\ ~(j < a)
                BY <5>3, <5>4, <5>6
              <7> QED BY <5>5, <7>1
            <6> QED BY <4>1, <5>2, <6>1 DEF Carries
          <5> QED BY <5>4, <5>6 DEF OpenIn
        <4>6. CASE calleeEnd[s] = "open" /\ c = s /\ ~OpenIn(q, v)
          BY <4>1, <4>6 DEF OpenIn
        <4>7. CASE calleeEnd[s] = "closed" /\ c = 0 /\ ~OpenIn(q, v)
          BY <4>7 DEF OpenIn
        <4> QED BY <4>3, <4>5, <4>6, <4>7
      <3>3. AllowsFit(q \o o, v, c, grants')
        BY <2>1, <2>5, <3>1, <3>2, JoinAllows
      <3> QED BY <2>1, <2>7, <3>3 DEF c
    <2> QED BY <2>6, <2>7
  <1>9. Backed'
    <2>1. \A ch \in Single : calleeEnd[ch] = "open" => allowed[ch] \subseteq grants'[ch]
      BY <1>2, <1>4 DEF Wired, Backed
    <2> QED BY <1>2, <1>8, <2>1 DEF Backed, May
  <1> QED BY <1>1, <1>5, <1>6, <1>7, <1>9 DEF Wired

\* What taking its next message changes in worker w's table and at the channels' ends.
Turn(w) ==
  LET m == Head(toWorker[w])
      c == peerChannels[w][m.peer]
  IN /\ w \in Up /\ toWorker[w] # <<>>
     /\ \A u \in Workers : toWorker'[u] = IF u = w THEN Tail(toWorker[w]) ELSE toWorker[u]
     /\ UNCHANGED <<used, pair, registry, grants, phase>>
     /\ \A x, y \in Workers :
          peerChannels'[x][y] =
            IF x = w /\ m.kind = "open" /\ y = m.peer THEN m.port
            ELSE IF x = w /\ m.kind = "grant" /\ y = m.peer /\ m.port # 0 /\ c = 0 THEN m.port
            ELSE IF x = w /\ m.kind = "invalidate" /\ y = m.peer THEN 0
            ELSE peerChannels[x][y]
     /\ \A ch \in Channels :
          /\ callerEnd'[ch] =
               IF m.kind = "grant" /\ m.port = ch THEN IF c = 0 THEN "open" ELSE "stranded"
               ELSE IF m.kind = "invalidate" /\ c = ch /\ pair[ch][1] = w THEN "closed"
               ELSE callerEnd[ch]
          /\ calleeEnd'[ch] =
               IF m.kind = "open" /\ m.port = ch THEN "open"
               ELSE IF m.kind = "invalidate" /\ c = ch /\ pair[ch][1] # w THEN "closed"
               ELSE calleeEnd[ch]
          /\ allowed'[ch] =
               IF m.kind = "open" /\ m.port = ch THEN {m.dev}
               ELSE IF m.kind = "allow" /\ c = ch /\ pair[ch][2] = w THEN allowed[ch] \cup {m.dev}
               ELSE allowed[ch]

\* Every message's handler is such a turn.
LEMMA ReceiveIsTurn ==
  ASSUME BrokerTypeOK, Wired, NEW w \in Workers, WorkerReceives(w)
  PROVE  Turn(w)
  <1> DEFINE m == Head(toWorker[w])
             c == peerChannels[w][m.peer]
  <1>1. /\ w \in Up /\ toWorker[w] # <<>> /\ toWorker' = [toWorker EXCEPT ![w] = Tail(toWorker[w])]
        /\ UNCHANGED <<used, pair, registry, grants, phase>>
        /\ \/ m.kind = "grant" /\ OnGrant(w, m)
           \/ m.kind = "deny" /\ OnDeny(w, m)
           \/ m.kind = "open" /\ OnOpen(w, m)
           \/ m.kind = "allow" /\ OnAllow(w, m)
           \/ m.kind = "invalidate" /\ OnInvalidate(w, m)
    BY DEF WorkerReceives, mainVars
  <1>2. /\ \A u \in Workers : toWorker'[u] = IF u = w THEN Tail(toWorker[w]) ELSE toWorker[u]
        /\ m \in ToWorker
    BY <1>1, TakeFacts DEF BrokerTypeOK
  <1> HIDE DEF m
  <1>3. /\ m.kind # "deny" => m.peer \in Workers /\ c \in 0 .. MaxChannels
        /\ m.port \in 0 .. MaxChannels /\ (m.kind = "open" => m.port \in Channels)
        /\ m.kind \in {"grant", "deny", "open", "allow", "invalidate"}
    BY <1>2, TellFields DEF BrokerTypeOK
  <1>4. /\ 0 \notin Channels /\ \A ch \in 0 .. MaxChannels : ch # 0 => ch \in Channels
        /\ callerEnd \in [Channels -> EndStates] /\ calleeEnd \in [Channels -> EndStates]
        /\ allowed \in [Channels -> SUBSET Devices]
        /\ peerChannels \in [Workers -> [Workers -> 0 .. MaxChannels]]
    BY BrokerAssumption DEF Channels, BrokerTypeOK
  <1>5. ASSUME m.kind = "invalidate", c # 0
        PROVE  IF pair[c][1] = w THEN pair[c][2] = m.peer ELSE pair[c][1] = m.peer
    <2>1. pair[c] = <<w, m.peer>> \/ pair[c] = <<m.peer, w>>
      BY <1>3, <1>5 DEF Wired, Tabled
    <2> QED BY <2>1
  <1> DEFINE T == \A x, y \in Workers :
               peerChannels'[x][y] =
                 IF x = w /\ m.kind = "open" /\ y = m.peer THEN m.port
                 ELSE IF x = w /\ m.kind = "grant" /\ y = m.peer /\ m.port # 0 /\ c = 0 THEN m.port
                 ELSE IF x = w /\ m.kind = "invalidate" /\ y = m.peer THEN 0
                 ELSE peerChannels[x][y]
             E == \A ch \in Channels :
               /\ callerEnd'[ch] =
                    IF m.kind = "grant" /\ m.port = ch THEN IF c = 0 THEN "open" ELSE "stranded"
                    ELSE IF m.kind = "invalidate" /\ c = ch /\ pair[ch][1] = w THEN "closed"
                    ELSE callerEnd[ch]
               /\ calleeEnd'[ch] =
                    IF m.kind = "open" /\ m.port = ch THEN "open"
                    ELSE IF m.kind = "invalidate" /\ c = ch /\ pair[ch][1] # w THEN "closed"
                    ELSE calleeEnd[ch]
               /\ allowed'[ch] =
                    IF m.kind = "open" /\ m.port = ch THEN {m.dev}
                    ELSE IF m.kind = "allow" /\ c = ch /\ pair[ch][2] = w THEN allowed[ch] \cup {m.dev}
                    ELSE allowed[ch]
  <1>6. ASSUME m.kind = "grant", OnGrant(w, m) PROVE T /\ E
    <2>1. CASE m.port # 0 /\ c = 0
      <3>1. /\ peerChannels' = [peerChannels EXCEPT ![w][m.peer] = m.port]
            /\ callerEnd' = [callerEnd EXCEPT ![m.port] = "open"]
            /\ calleeEnd' = calleeEnd /\ allowed' = allowed
        BY <1>6, <2>1 DEF OnGrant
      <3> QED BY <1>3, <1>4, <1>6, <2>1, <3>1
    <2>2. CASE m.port # 0 /\ c # 0
      <3>1. /\ peerChannels' = peerChannels
            /\ callerEnd' = [callerEnd EXCEPT ![m.port] = "stranded"]
            /\ calleeEnd' = calleeEnd /\ allowed' = allowed
        BY <1>6, <2>2 DEF OnGrant
      <3> QED BY <1>3, <1>4, <1>6, <2>2, <3>1
    <2>3. CASE m.port = 0
      <3>1. peerChannels' = peerChannels /\ callerEnd' = callerEnd /\ calleeEnd' = calleeEnd /\ allowed' = allowed
        BY <1>6, <2>3 DEF OnGrant
      <3> QED BY <1>3, <1>4, <1>6, <2>3, <3>1
    <2> QED BY <2>1, <2>2, <2>3
  <1>7. ASSUME m.kind = "deny", OnDeny(w, m) PROVE T /\ E
    BY <1>4, <1>7 DEF OnDeny
  <1>8. ASSUME m.kind = "open", OnOpen(w, m) PROVE T /\ E
    BY <1>3, <1>4, <1>8 DEF OnOpen
  <1>9. ASSUME m.kind = "allow", OnAllow(w, m) PROVE T /\ E
    BY <1>3, <1>4, <1>9 DEF OnAllow
  <1>10. ASSUME m.kind = "invalidate", OnInvalidate(w, m) PROVE T /\ E
    <2>1. CASE c = 0
      BY <1>3, <1>4, <1>10, <2>1 DEF OnInvalidate
    <2>2. CASE c # 0
      <3>1. CloseEnd(w, c) /\ allowed' = allowed
        BY <1>10, <2>2 DEF OnInvalidate
      <3>2. IF pair[c][1] = w
            THEN callerEnd' = [callerEnd EXCEPT ![c] = "closed"] /\ calleeEnd' = calleeEnd
            ELSE calleeEnd' = [calleeEnd EXCEPT ![c] = "closed"] /\ callerEnd' = callerEnd
        BY <3>1 DEF CloseEnd
      <3>3. peerChannels' = [peerChannels EXCEPT ![w][m.peer] = 0]
        <4>1. peerChannels' = [peerChannels EXCEPT ![w][m.peer] = IF @ = c THEN 0 ELSE @]
          BY <1>5, <1>10, <2>2, <3>1 DEF CloseEnd
        <4> QED BY <4>1
      <3>4. T
        BY <1>3, <1>4, <1>10, <3>3
      <3>5. E
        BY <1>3, <1>4, <1>10, <2>2, <3>1, <3>2
      <3> QED BY <3>4, <3>5
    <2> QED BY <2>1, <2>2
  <1>11. T /\ E
    BY <1>1, <1>6, <1>7, <1>8, <1>9, <1>10
  <1> QED BY <1>1, <1>2, <1>11 DEF Turn, m

\* What is known of the message taken.
LEMMA TurnFacts ==
  ASSUME BrokerTypeOK, Wired, NEW w \in Workers, Turn(w)
  PROVE  LET q == toWorker[w]
             m == Head(q)
             t == Tail(q)
             c == peerChannels[w][m.peer]
         IN /\ q \in Seq(ToWorker) /\ q # <<>> /\ m \in ToWorker /\ t \in Seq(ToWorker)
            /\ m.kind \in {"grant", "deny", "open", "allow", "invalidate"}
            /\ m.kind # "deny" => m.peer \in Workers /\ c \in 0 .. MaxChannels
            /\ m.kind = "grant" /\ m.port # 0 =>
                 /\ m.port \in Made /\ pair[m.port] = <<w, m.peer>> /\ callerEnd[m.port] = "transit"
                 /\ May(w, m.peer) /\ ~Carried(t, "grant", m.port)
            /\ m.kind = "open" =>
                 /\ m.port \in Made /\ pair[m.port] = <<m.peer, w>> /\ calleeEnd[m.port] = "transit"
                 /\ May(m.peer, w) /\ ~Carried(t, "open", m.port)
                 /\ m.dev \in grants[m.port]
            /\ m.kind = "allow" => May(m.peer, w)
            /\ m.kind # "deny" /\ c # 0 =>
                 /\ c \in Made /\ m.peer # w
                 /\ \/ pair[c] = <<w, m.peer>> /\ callerEnd[c] = "open" /\ May(w, m.peer)
                    \/ pair[c] = <<m.peer, w>> /\ calleeEnd[c] = "open" /\ May(m.peer, w)
  <1> DEFINE q == toWorker[w]
             m == Head(q)
             t == Tail(q)
             c == peerChannels[w][m.peer]
  <1>1. q \in Seq(ToWorker) /\ q # <<>>
    BY DEF BrokerTypeOK, Turn
  <1>2. /\ m \in ToWorker /\ t \in Seq(ToWorker)
        /\ 1 \in DOMAIN q /\ q[1] = m /\ DOMAIN t \subseteq Nat \ {0}
        /\ \A i \in DOMAIN t : i + 1 \in DOMAIN q /\ q[i + 1] = t[i]
    BY <1>1, TakeFacts
  <1>3. /\ \A i \in DOMAIN q :
          /\ q[i].kind = "grant" /\ q[i].port # 0 =>
               q[i].port \in Made /\ pair[q[i].port] = <<w, q[i].peer>> /\ callerEnd[q[i].port] = "transit"
          /\ q[i].kind = "open" =>
               /\ q[i].port \in Made /\ pair[q[i].port] = <<q[i].peer, w>> /\ calleeEnd[q[i].port] = "transit"
               /\ q[i].dev \in grants[q[i].port]
          /\ q[i].kind = "allow" => May(q[i].peer, w)
        /\ \A i, j \in DOMAIN q : q[i].kind = q[j].kind /\ q[i].kind \in {"grant", "open"}
                                   /\ q[i].port = q[j].port /\ q[i].port # 0 => i = j
    BY DEF Wired, Ports, Carrying
  <1>4. \A ch \in Made : May(pair[ch][1], pair[ch][2]) /\ ch # 0
    BY DEF Wired, Founded, CallerOf, CalleeOf, Made
  <1> HIDE DEF q, m, t
  <1>5. \A x, y \in Workers : May(x, y) => x # y
    BY DEF May
  <1>6. /\ m.kind \in {"grant", "deny", "open", "allow", "invalidate"}
        /\ m.kind # "deny" => m.peer \in Workers /\ c \in 0 .. MaxChannels
    BY <1>2, TellFields DEF BrokerTypeOK
  <1>7. ASSUME m.kind \in {"grant", "open"}, m.port # 0 PROVE ~Carried(t, m.kind, m.port)
    <2> SUFFICES ASSUME NEW i \in DOMAIN t, Carries(t[i], m.kind, m.port) PROVE FALSE
      BY DEF Carried
    <2>1. i + 1 = 1
      BY <1>2, <1>3, <1>7 DEF Carries
    <2> QED BY <1>2, <2>1
  <1>8. ASSUME m.kind = "grant", m.port # 0
        PROVE  /\ m.port \in Made /\ pair[m.port] = <<w, m.peer>> /\ callerEnd[m.port] = "transit"
               /\ May(w, m.peer) /\ ~Carried(t, "grant", m.port)
    <2>1. m.port \in Made /\ pair[m.port] = <<w, m.peer>> /\ callerEnd[m.port] = "transit"
      BY <1>2, <1>3, <1>8
    <2> QED BY <1>4, <1>5, <1>6, <1>7, <1>8, <2>1
  <1>9. ASSUME m.kind = "open"
        PROVE  /\ m.port \in Made /\ pair[m.port] = <<m.peer, w>> /\ calleeEnd[m.port] = "transit"
               /\ May(m.peer, w) /\ ~Carried(t, "open", m.port)
               /\ m.dev \in grants[m.port]
    <2>1. /\ m.port \in Made /\ pair[m.port] = <<m.peer, w>> /\ calleeEnd[m.port] = "transit"
          /\ m.dev \in grants[m.port]
      BY <1>2, <1>3, <1>9
    <2> QED BY <1>4, <1>5, <1>6, <1>7, <1>9, <2>1
  <1>10. ASSUME m.kind # "deny", c # 0
         PROVE  /\ c \in Made /\ m.peer # w
                /\ \/ pair[c] = <<w, m.peer>> /\ callerEnd[c] = "open" /\ May(w, m.peer)
                   \/ pair[c] = <<m.peer, w>> /\ calleeEnd[c] = "open" /\ May(m.peer, w)
    <2>1. /\ c \in Made
          /\ \/ pair[c] = <<w, m.peer>> /\ callerEnd[c] = "open"
             \/ pair[c] = <<m.peer, w>> /\ calleeEnd[c] = "open"
      BY <1>6, <1>10 DEF Wired, Tabled
    <2> QED BY <1>4, <1>5, <1>6, <1>10, <2>1
  <1> QED BY <1>1, <1>2, <1>3, <1>6, <1>8, <1>9, <1>10 DEF q, m, t

\* A port taken is no longer on its way; a worker's table is right about its ends.
LEMMA TurnPorts ==
  ASSUME BrokerTypeOK, BrokerTypeOK', Wired, NEW w \in Workers, Turn(w)
  PROVE  Founded' /\ Ports' /\ Tabled'
  <1> DEFINE q == toWorker[w]
             m == Head(q)
             t == Tail(q)
             c == peerChannels[w][m.peer]
  <1>1. /\ q \in Seq(ToWorker) /\ q # <<>> /\ m \in ToWorker /\ t \in Seq(ToWorker)
        /\ m.kind \in {"grant", "deny", "open", "allow", "invalidate"}
        /\ m.kind # "deny" => m.peer \in Workers /\ c \in 0 .. MaxChannels
        /\ m.kind = "grant" /\ m.port # 0 =>
             /\ m.port \in Made /\ pair[m.port] = <<w, m.peer>> /\ callerEnd[m.port] = "transit"
             /\ May(w, m.peer) /\ ~Carried(t, "grant", m.port)
        /\ m.kind = "open" =>
             /\ m.port \in Made /\ pair[m.port] = <<m.peer, w>> /\ calleeEnd[m.port] = "transit"
             /\ May(m.peer, w) /\ ~Carried(t, "open", m.port)
        /\ m.kind # "deny" /\ c # 0 =>
             /\ c \in Made /\ m.peer # w
             /\ \/ pair[c] = <<w, m.peer>> /\ callerEnd[c] = "open" /\ May(w, m.peer)
                \/ pair[c] = <<m.peer, w>> /\ calleeEnd[c] = "open" /\ May(m.peer, w)
    BY TurnFacts
  <1>2. /\ w \in Up /\ used' = used /\ pair' = pair /\ registry' = registry /\ grants' = grants /\ phase' = phase
        /\ toWorker'[w] = t /\ \A u \in Workers : u # w => toWorker'[u] = toWorker[u]
    BY DEF Turn
  <1>3. /\ \A ch \in Channels : callerEnd'[ch] =
             IF m.kind = "grant" /\ m.port = ch THEN IF c = 0 THEN "open" ELSE "stranded"
             ELSE IF m.kind = "invalidate" /\ c = ch /\ pair[ch][1] = w THEN "closed"
             ELSE callerEnd[ch]
        /\ \A ch \in Channels : calleeEnd'[ch] =
             IF m.kind = "open" /\ m.port = ch THEN "open"
             ELSE IF m.kind = "invalidate" /\ c = ch /\ pair[ch][1] # w THEN "closed"
             ELSE calleeEnd[ch]
    BY DEF Turn
  <1>4. \A x, y \in Workers :
          peerChannels'[x][y] =
            IF x = w /\ m.kind = "open" /\ y = m.peer THEN m.port
            ELSE IF x = w /\ m.kind = "grant" /\ y = m.peer /\ m.port # 0 /\ c = 0 THEN m.port
            ELSE IF x = w /\ m.kind = "invalidate" /\ y = m.peer THEN 0
            ELSE peerChannels[x][y]
    BY DEF Turn
  <1>5. /\ Made' = Made /\ Up' = Up
        /\ \A ch : CallerOf(ch)' = CallerOf(ch) /\ CalleeOf(ch)' = CalleeOf(ch)
    BY <1>2 DEF Made, Up, CallerOf, CalleeOf
  <1>6. /\ Made \subseteq Channels /\ 0 \notin Channels
        /\ \A ch \in Made : /\ CallerOf(ch) \in Workers /\ CalleeOf(ch) \in Workers
                            /\ pair[ch] = <<CallerOf(ch), CalleeOf(ch)>> /\ May(CallerOf(ch), CalleeOf(ch))
    BY MadeFacts DEF Wired, Channels
  <1>7. \A x, y \in Workers : May(x, y) => x # y
    BY DEF May
  <1>8. \A kind, ch : Carried(q, kind, ch) <=> Carries(m, kind, ch) \/ Carried(t, kind, ch)
    BY <1>1, TakeAfter
  <1>9. \A i \in DOMAIN t : \E j \in DOMAIN q : t[i] = q[j]
    BY <1>1, TakeFacts
  <1>10. Carrying(w, q) /\ \A u \in Workers : Carrying(u, toWorker[u]) /\ (u \notin Up => toWorker[u] = <<>>)
    BY DEF Wired, Ports
  <1> HIDE DEF q, m, t, c
  <1>11. Founded'
    <2>1. ASSUME NEW ch \in Channels, ch > used PROVE callerEnd'[ch] = callerEnd[ch] /\ calleeEnd'[ch] = calleeEnd[ch]
      <3>1. ch \notin Made /\ ch # 0
        BY <1>6, <2>1 DEF Made, BrokerTypeOK
      <3> QED BY <1>1, <1>3, <3>1
    <2> QED BY <1>2, <1>5, <2>1 DEF Wired, Founded, May
  \* a port still on its way is not at an end that changed
  <1>12. ASSUME NEW u \in Workers, NEW ch \in Made, NEW i \in DOMAIN toWorker'[u]
         PROVE  /\ Carries(toWorker'[u][i], "grant", ch) => callerEnd'[ch] = "transit"
                /\ Carries(toWorker'[u][i], "open", ch) => calleeEnd'[ch] = "transit"
    <2>1. \E j \in DOMAIN toWorker[u] : toWorker'[u][i] = toWorker[u][j]
      BY <1>2, <1>9 DEF q
    <2>2. PICK j \in DOMAIN toWorker[u] : toWorker'[u][i] = toWorker[u][j]
      BY <2>1
    <2>3. ch # 0
      BY DEF Made
    <2>4. /\ Carries(toWorker[u][j], "grant", ch) => callerEnd[ch] = "transit" /\ pair[ch][1] = u
          /\ Carries(toWorker[u][j], "open", ch) => calleeEnd[ch] = "transit" /\ pair[ch][2] = u
      <3>1. LET n == toWorker[u][j] IN
              /\ n.kind = "grant" /\ n.port # 0 => pair[n.port] = <<u, n.peer>> /\ callerEnd[n.port] = "transit"
              /\ n.kind = "open" => pair[n.port] = <<n.peer, u>> /\ calleeEnd[n.port] = "transit"
        BY <1>10 DEF Carrying
      <3> QED BY <2>3, <3>1 DEF Carries
    <2>5. ASSUME Carries(toWorker'[u][i], "grant", ch) PROVE callerEnd'[ch] = "transit"
      <3>1. callerEnd[ch] = "transit" /\ pair[ch][1] = u
        BY <2>2, <2>4, <2>5
      <3>2. ~(m.kind = "grant" /\ m.port = ch)
        <4> SUFFICES ASSUME m.kind = "grant", m.port = ch PROVE FALSE
          OBVIOUS
        <4>1. u = w
          BY <1>1, <2>3, <3>1
        <4>2. Carried(t, "grant", ch)
          BY <1>2, <2>5, <4>1 DEF Carried
        <4> QED BY <1>1, <2>3, <4>2
      <3>3. ~(m.kind = "invalidate" /\ c = ch /\ pair[ch][1] = w)
        BY <1>1, <1>6, <1>7, <2>3, <3>1
      <3> QED BY <1>3, <1>6, <3>1, <3>2, <3>3
    <2>6. ASSUME Carries(toWorker'[u][i], "open", ch) PROVE calleeEnd'[ch] = "transit"
      <3>1. calleeEnd[ch] = "transit" /\ pair[ch][2] = u
        BY <2>2, <2>4, <2>6
      <3>2. ~(m.kind = "open" /\ m.port = ch)
        <4> SUFFICES ASSUME m.kind = "open", m.port = ch PROVE FALSE
          OBVIOUS
        <4>1. u = w
          BY <1>1, <2>3, <3>1
        <4>2. Carried(t, "open", ch)
          BY <1>2, <2>6, <4>1 DEF Carried
        <4> QED BY <1>1, <2>3, <4>2
      <3>3. ~(m.kind = "invalidate" /\ c = ch /\ pair[ch][1] # w)
        BY <1>1, <1>6, <1>7, <2>3, <3>1
      <3> QED BY <1>3, <1>6, <3>1, <3>2, <3>3
    <2> QED BY <2>5, <2>6
  <1>13. ASSUME NEW u \in Workers PROVE Carrying(u, toWorker[u])' /\ (u \notin Up' => toWorker'[u] = <<>>)
    <2> DEFINE r == toWorker'[u]
    <2>1. \A i \in DOMAIN r :
            /\ r[i].kind = "grant" /\ r[i].port # 0 =>
                 r[i].port \in Made' /\ pair'[r[i].port] = <<u, r[i].peer>> /\ callerEnd'[r[i].port] = "transit"
            /\ r[i].kind = "open" =>
                 /\ r[i].port \in Made' /\ pair'[r[i].port] = <<r[i].peer, u>> /\ calleeEnd'[r[i].port] = "transit"
                 /\ r[i].dev \in grants'[r[i].port]
            /\ r[i].kind = "allow" => May(r[i].peer, u)
      <3> TAKE i \in DOMAIN r
      <3>1. \E j \in DOMAIN toWorker[u] : r[i] = toWorker[u][j]
        BY <1>2, <1>9 DEF q
      <3>2. PICK j \in DOMAIN toWorker[u] : r[i] = toWorker[u][j]
        BY <3>1
      <3> HIDE DEF r
      <3>3. /\ r[i].kind = "grant" /\ r[i].port # 0 =>
                 r[i].port \in Made /\ pair[r[i].port] = <<u, r[i].peer>>
            /\ r[i].kind = "open" =>
                 /\ r[i].port \in Made /\ pair[r[i].port] = <<r[i].peer, u>>
                 /\ r[i].dev \in grants[r[i].port]
            /\ r[i].kind = "allow" => May(r[i].peer, u)
        BY <1>10, <3>2 DEF Carrying
      <3>4. /\ r[i].kind = "grant" /\ r[i].port \in Made => callerEnd'[r[i].port] = "transit"
            /\ r[i].kind = "open" /\ r[i].port \in Made => calleeEnd'[r[i].port] = "transit"
        BY <1>12 DEF Carries, r
      <3> QED BY <1>2, <1>5, <3>3, <3>4
    <2>2. \A i, j \in DOMAIN r : r[i].kind = r[j].kind /\ r[i].kind \in {"grant", "open"}
                                   /\ r[i].port = r[j].port /\ r[i].port # 0 => i = j
      <3>1. CASE u = w
        <4>1. r = t
          BY <1>2, <3>1
        <4>2. /\ DOMAIN t \subseteq Nat \ {0}
              /\ \A i \in DOMAIN t : i + 1 \in DOMAIN q /\ q[i + 1] = t[i]
          BY <1>1, TakeFacts DEF t
        <4>3. \A i, j \in DOMAIN q : q[i].kind = q[j].kind /\ q[i].kind \in {"grant", "open"}
                                   /\ q[i].port = q[j].port /\ q[i].port # 0 => i = j
          BY <1>10 DEF Carrying
        <4> HIDE DEF r
        <4> SUFFICES ASSUME NEW i \in DOMAIN t, NEW j \in DOMAIN t, t[i].kind = t[j].kind,
                            t[i].kind \in {"grant", "open"}, t[i].port = t[j].port, t[i].port # 0
                     PROVE  i = j
          BY <4>1
        <4>4. i + 1 \in DOMAIN q /\ q[i + 1] = t[i] /\ j + 1 \in DOMAIN q /\ q[j + 1] = t[j] /\ i \in Nat /\ j \in Nat
          BY <4>2
        <4>5. i + 1 = j + 1
          BY <4>3, <4>4
        <4> QED BY <4>4, <4>5
      <3>2. CASE u # w
        <4>1. r = toWorker[u]
          BY <1>2, <3>2
        <4> HIDE DEF r
        <4> QED BY <1>10, <4>1 DEF Carrying
      <3> QED BY <3>1, <3>2
    <2>3. Carrying(u, toWorker[u])'
      BY <2>1, <2>2 DEF Carrying
    <2>4. u \notin Up' => toWorker'[u] = <<>>
      BY <1>2, <1>5, <1>10
    <2> QED BY <2>3, <2>4
  <1>14. \A ch \in Made :
       /\ callerEnd'[ch] \in Alive => CallerOf(ch) \in Up
       /\ calleeEnd'[ch] \in Alive => CalleeOf(ch) \in Up
       /\ callerEnd'[ch] = "transit" => Carried(toWorker'[CallerOf(ch)], "grant", ch)
       /\ calleeEnd'[ch] = "transit" => Carried(toWorker'[CalleeOf(ch)], "open", ch)
    <2> TAKE ch \in Made
    <2>1. /\ callerEnd[ch] \in Alive => CallerOf(ch) \in Up
          /\ calleeEnd[ch] \in Alive => CalleeOf(ch) \in Up
          /\ callerEnd[ch] = "transit" => Carried(toWorker[CallerOf(ch)], "grant", ch)
          /\ calleeEnd[ch] = "transit" => Carried(toWorker[CalleeOf(ch)], "open", ch)
      BY DEF Wired, Ports
    <2>2. ch \in Channels /\ CallerOf(ch) \in Workers /\ CalleeOf(ch) \in Workers /\ ch # 0
      BY <1>6
    <2>3. callerEnd'[ch] \in Alive => CallerOf(ch) \in Up
      <3>1. callerEnd'[ch] \in Alive => callerEnd[ch] \in Alive
        BY <1>1, <1>3, <2>2 DEF Alive
      <3> QED BY <2>1, <3>1
    <2>4. calleeEnd'[ch] \in Alive => CalleeOf(ch) \in Up
      <3>1. calleeEnd'[ch] \in Alive => calleeEnd[ch] \in Alive
        BY <1>1, <1>3, <2>2 DEF Alive
      <3> QED BY <2>1, <3>1
    <2>5. ASSUME callerEnd'[ch] = "transit" PROVE Carried(toWorker'[CallerOf(ch)], "grant", ch)
      <3>1. callerEnd[ch] = "transit" /\ ~Carries(m, "grant", ch)
        BY <1>3, <2>2, <2>5 DEF Carries
      <3> QED BY <1>2, <1>8, <2>1, <2>2, <3>1 DEF q
    <2>6. ASSUME calleeEnd'[ch] = "transit" PROVE Carried(toWorker'[CalleeOf(ch)], "open", ch)
      <3>1. calleeEnd[ch] = "transit" /\ ~Carries(m, "open", ch)
        BY <1>3, <2>2, <2>6 DEF Carries
      <3> QED BY <1>2, <1>8, <2>1, <2>2, <3>1 DEF q
    <2> QED BY <2>3, <2>4, <2>5, <2>6
  <1>15. Ports'
    BY <1>5, <1>13, <1>14 DEF Ports
  <1>16. ASSUME NEW x \in Workers, NEW y \in Workers, peerChannels'[x][y] # 0
         PROVE  LET k == peerChannels'[x][y] IN
                  /\ k \in Made
                  /\ \/ pair[k] = <<x, y>> /\ callerEnd'[k] = "open"
                     \/ pair[k] = <<y, x>> /\ calleeEnd'[k] = "open"
    <2>1. CASE x = w /\ m.kind = "open" /\ y = m.peer
      BY <1>1, <1>3, <1>4, <1>6, <2>1
    <2>2. CASE x = w /\ m.kind = "grant" /\ y = m.peer /\ m.port # 0 /\ c = 0
      <3>1. peerChannels'[x][y] = m.port
        BY <1>4, <2>2
      <3> QED BY <1>1, <1>3, <1>6, <2>2, <3>1
    <2>3. CASE /\ ~(x = w /\ m.kind = "open" /\ y = m.peer)
               /\ ~(x = w /\ m.kind = "grant" /\ y = m.peer /\ m.port # 0 /\ c = 0)
      <3> DEFINE k == peerChannels[x][y]
      <3>1. peerChannels'[x][y] = k /\ k # 0 /\ ~(x = w /\ m.kind = "invalidate" /\ y = m.peer)
        BY <1>4, <1>16, <2>3
      <3>2. /\ k \in Made
            /\ \/ pair[k] = <<x, y>> /\ callerEnd[k] = "open"
               \/ pair[k] = <<y, x>> /\ calleeEnd[k] = "open"
        BY <3>1 DEF Wired, Tabled
      <3> HIDE DEF k
      <3>3. CASE pair[k] = <<x, y>> /\ callerEnd[k] = "open"
        <4>1. ~(m.kind = "grant" /\ m.port = k)
          BY <1>1, <1>6, <3>2, <3>3
        <4>2. ~(m.kind = "invalidate" /\ c = k /\ pair[k][1] = w)
          BY <1>1, <1>6, <3>1, <3>2, <3>3
        <4> QED BY <1>3, <1>6, <3>1, <3>2, <3>3, <4>1, <4>2
      <3>4. CASE pair[k] = <<y, x>> /\ calleeEnd[k] = "open"
        <4>1. ~(m.kind = "open" /\ m.port = k)
          BY <1>1, <1>6, <3>2, <3>4
        <4>2. ~(m.kind = "invalidate" /\ c = k /\ pair[k][1] # w)
          BY <1>1, <1>6, <3>1, <3>2, <3>4
        <4> QED BY <1>3, <1>6, <3>1, <3>2, <3>4, <4>1, <4>2
      <3> QED BY <3>2, <3>3, <3>4
    <2> QED BY <2>1, <2>2, <2>3
  <1>17. ASSUME NEW ch \in Single, callerEnd'[ch] = "open"
         PROVE  peerChannels'[CallerOf(ch)][CalleeOf(ch)] = ch
    <2> DEFINE x == CallerOf(ch)
               y == CalleeOf(ch)
    <2>1. ch \in Channels /\ x \in Workers /\ y \in Workers /\ ch # 0 /\ pair[ch] = <<x, y>> /\ May(x, y) /\ ~May(y, x)
          /\ ch \in Made
      BY <1>6 DEF Single
    <2>2. callerEnd[ch] = "open" => peerChannels[x][y] = ch
      BY DEF Wired, Tabled
    <2> HIDE DEF x, y
    <2>3. CASE m.kind = "grant" /\ m.port = ch
      BY <1>1, <1>3, <1>4, <1>17, <2>1, <2>3 DEF x, y
    <2>4. CASE ~(m.kind = "grant" /\ m.port = ch)
      <3>1. callerEnd[ch] = "open" /\ ~(m.kind = "invalidate" /\ c = ch /\ pair[ch][1] = w)
        BY <1>3, <1>17, <2>1, <2>4
      <3>2. peerChannels[x][y] = ch
        BY <2>2, <3>1
      <3>3. ~(x = w /\ m.kind = "open" /\ y = m.peer)
        BY <1>1, <2>1
      <3>4. ~(x = w /\ m.kind = "grant" /\ y = m.peer /\ m.port # 0 /\ c = 0)
        BY <2>1, <3>2 DEF c
      <3>5. ~(x = w /\ m.kind = "invalidate" /\ y = m.peer)
        BY <2>1, <3>1, <3>2 DEF c
      <3>6. peerChannels'[x][y] = ch
        BY <1>4, <2>1, <3>2, <3>3, <3>4, <3>5
      <3> QED BY <3>6 DEF x, y
    <2> QED BY <2>3, <2>4
  <1>18. Tabled'
    BY <1>2, <1>5, <1>16, <1>17, SingleKept DEF Tabled
  <1> QED BY <1>11, <1>15, <1>18

\* The rest: who is warned is so until it closes, and what is registered stays whole.
LEMMA TurnKeeps ==
  ASSUME BrokerTypeOK, BrokerTypeOK', Wired, NEW w \in Workers, Turn(w)
  PROVE  Wired'
  <1> DEFINE q == toWorker[w]
             m == Head(q)
             t == Tail(q)
             c == peerChannels[w][m.peer]
  <1>1. /\ q \in Seq(ToWorker) /\ q # <<>> /\ m \in ToWorker /\ t \in Seq(ToWorker)
        /\ m.kind \in {"grant", "deny", "open", "allow", "invalidate"}
        /\ m.kind # "deny" => m.peer \in Workers /\ c \in 0 .. MaxChannels
        /\ m.kind = "grant" /\ m.port # 0 =>
             /\ m.port \in Made /\ pair[m.port] = <<w, m.peer>> /\ callerEnd[m.port] = "transit"
             /\ May(w, m.peer) /\ ~Carried(t, "grant", m.port)
        /\ m.kind = "open" =>
             /\ m.port \in Made /\ pair[m.port] = <<m.peer, w>> /\ calleeEnd[m.port] = "transit"
             /\ May(m.peer, w) /\ ~Carried(t, "open", m.port)
             /\ m.dev \in grants[m.port]
        /\ m.kind = "allow" => May(m.peer, w)
        /\ m.kind # "deny" /\ c # 0 =>
             /\ c \in Made /\ m.peer # w
             /\ \/ pair[c] = <<w, m.peer>> /\ callerEnd[c] = "open" /\ May(w, m.peer)
                \/ pair[c] = <<m.peer, w>> /\ calleeEnd[c] = "open" /\ May(m.peer, w)
    BY TurnFacts
  <1>2. /\ w \in Up /\ used' = used /\ pair' = pair /\ registry' = registry /\ grants' = grants /\ phase' = phase
        /\ toWorker'[w] = t /\ \A u \in Workers : u # w => toWorker'[u] = toWorker[u]
    BY DEF Turn
  <1>3. /\ \A ch \in Channels : callerEnd'[ch] =
             IF m.kind = "grant" /\ m.port = ch THEN IF c = 0 THEN "open" ELSE "stranded"
             ELSE IF m.kind = "invalidate" /\ c = ch /\ pair[ch][1] = w THEN "closed"
             ELSE callerEnd[ch]
        /\ \A ch \in Channels : calleeEnd'[ch] =
             IF m.kind = "open" /\ m.port = ch THEN "open"
             ELSE IF m.kind = "invalidate" /\ c = ch /\ pair[ch][1] # w THEN "closed"
             ELSE calleeEnd[ch]
    BY DEF Turn
  <1>4. \A x, y \in Workers :
          peerChannels'[x][y] =
            IF x = w /\ m.kind = "open" /\ y = m.peer THEN m.port
            ELSE IF x = w /\ m.kind = "grant" /\ y = m.peer /\ m.port # 0 /\ c = 0 THEN m.port
            ELSE IF x = w /\ m.kind = "invalidate" /\ y = m.peer THEN 0
            ELSE peerChannels[x][y]
    BY DEF Turn
  <1>5. /\ Made' = Made /\ Single' = Single /\ Up' = Up
        /\ \A ch : CallerOf(ch)' = CallerOf(ch) /\ CalleeOf(ch)' = CalleeOf(ch)
    BY <1>2, SingleKept DEF Made, Up, CallerOf, CalleeOf
  <1>6. /\ Made \subseteq Channels /\ 0 \notin Channels
        /\ \A ch \in Made : /\ CallerOf(ch) \in Workers /\ CalleeOf(ch) \in Workers
                            /\ pair[ch] = <<CallerOf(ch), CalleeOf(ch)>> /\ May(CallerOf(ch), CalleeOf(ch))
    BY MadeFacts DEF Wired, Channels
  <1>0. /\ \A ch \in Single : ch \in Made /\ pair[ch] \in SinglePairs /\ ~May(CalleeOf(ch), CallerOf(ch))
        /\ \A p \in SinglePairs : p \in Pairs /\ ~May(p[2], p[1])
    BY SingleFacts DEF Wired
  <1>7. \A x, y \in Workers : May(x, y) => x # y
    BY DEF May
  <1>8. \A v : /\ ShutIn(q, v) <=> Shuts(m, v) \/ ShutIn(t, v)
               /\ OpenIn(q, v) <=> Opens(m, v) \/ OpenIn(t, v)
               /\ ShutFirst(q, v) <=> Shuts(m, v) \/ (~Opens(m, v) /\ ShutFirst(t, v))
               /\ Spaced(q, v) => Spaced(t, v) /\ (Grants(m, v) => ShutEach(t, v))
               /\ ShutEach(q, v) /\ ~Shuts(m, v) => ~Grants(m, v) /\ ShutEach(t, v)
    BY <1>1, TakeHas
  <1>9. \A kind, ch, v :
          /\ Carried(q, kind, ch) <=> Carries(m, kind, ch) \/ Carried(t, kind, ch)
          /\ ShutAfter(q, kind, ch, v) <=> (Carries(m, kind, ch) /\ ShutIn(t, v)) \/ ShutAfter(t, kind, ch, v)
          /\ OpenAfter(q, ch, v) <=> (Carries(m, "open", ch) /\ OpenIn(t, v)) \/ OpenAfter(t, ch, v)
          /\ ShutNext(q, ch, v) <=> (Carries(m, "open", ch) /\ ShutFirst(t, v)) \/ ShutNext(t, ch, v)
    BY <1>1, TakeAfter
  <1>10. \A kind, ch, v : /\ ShutAfter(t, kind, ch, v) => ShutIn(t, v) /\ Carried(t, kind, ch)
                          /\ ShutNext(t, ch, v) => Carried(t, "open", ch)
    BY DEF ShutAfter, ShutNext, ShutIn, Carried
  <1>11. /\ toWorker[w] = q
         /\ \A ch \in Single : callerEnd[ch] = "open" => peerChannels[CallerOf(ch)][CalleeOf(ch)] = ch
         /\ \A ch \in Made : ch # 0 /\ ch \in Channels
         /\ peerChannels[w][m.peer] = c
    BY <1>6 DEF Wired, Tabled
  <1> HIDE DEF q, m, t, c
  \* how a channel's ends can have changed
  <1>12. ASSUME NEW ch \in Made, NEW x \in Workers, NEW y \in Workers, pair[ch] = <<x, y>>
         PROVE  /\ \/ callerEnd'[ch] = callerEnd[ch] /\ ~Carries(m, "grant", ch)
                   \/ /\ Carries(m, "grant", ch) /\ x = w /\ y = m.peer /\ callerEnd[ch] = "transit"
                      /\ callerEnd'[ch] = IF c = 0 THEN "open" ELSE "stranded"
                   \/ Shuts(m, y) /\ x = w /\ c = ch /\ callerEnd[ch] = "open" /\ callerEnd'[ch] = "closed"
                /\ \/ calleeEnd'[ch] = calleeEnd[ch] /\ ~Carries(m, "open", ch)
                   \/ /\ Carries(m, "open", ch) /\ y = w /\ x = m.peer /\ calleeEnd[ch] = "transit"
                      /\ calleeEnd'[ch] = "open" /\ peerChannels'[w][x] = ch
                   \/ Shuts(m, x) /\ y = w /\ c = ch /\ calleeEnd[ch] = "open" /\ calleeEnd'[ch] = "closed"
    <2>1. ch \in Channels /\ ch # 0 /\ May(x, y) /\ x # y /\ pair[ch][1] = x /\ pair[ch][2] = y
      <3>1. CallerOf(ch) = x /\ CalleeOf(ch) = y
        BY <1>12 DEF CallerOf, CalleeOf
      <3> QED BY <1>6, <1>7, <1>11, <1>12, <3>1
    <2>2. CASE m.kind = "grant" /\ m.port = ch
      <3>1. x = w /\ y = m.peer /\ callerEnd[ch] = "transit"
        BY <1>1, <1>12, <2>1, <2>2
      <3> QED BY <1>3, <2>1, <2>2, <3>1 DEF Carries
    <2>3. CASE m.kind = "open" /\ m.port = ch
      <3>1. y = w /\ x = m.peer /\ calleeEnd[ch] = "transit"
        BY <1>1, <1>12, <2>1, <2>3
      <3>2. peerChannels'[w][x] = ch
        BY <1>4, <2>3, <3>1
      <3> QED BY <1>3, <2>1, <2>3, <3>1, <3>2 DEF Carries
    <2>4. CASE m.kind = "invalidate" /\ c = ch
      <3>1. /\ m.peer \in Workers
            /\ \/ x = w /\ y = m.peer /\ callerEnd[ch] = "open"
               \/ x = m.peer /\ y = w /\ calleeEnd[ch] = "open"
        BY <1>1, <1>12, <2>1, <2>4
      <3> QED BY <1>3, <2>1, <2>4, <3>1 DEF Carries, Shuts
    <2>5. CASE /\ ~(m.kind = "grant" /\ m.port = ch) /\ ~(m.kind = "open" /\ m.port = ch)
               /\ ~(m.kind = "invalidate" /\ c = ch)
      BY <1>3, <2>1, <2>5 DEF Carries
    <2> QED BY <2>2, <2>3, <2>4, <2>5
  \* how a worker's table can have changed
  <1>13. ASSUME NEW x \in Workers, NEW y \in Workers
         PROVE  \/ peerChannels'[x][y] = peerChannels[x][y] /\ ~(x = w /\ Opens(m, y)) /\ ~(x = w /\ Shuts(m, y))
                \/ x = w /\ Opens(m, y) /\ May(y, w) /\ peerChannels'[x][y] = m.port
                \/ /\ x = w /\ Grants(m, y) /\ May(w, y)
                   /\ peerChannels[x][y] = 0 /\ peerChannels'[x][y] = m.port
                \/ x = w /\ Shuts(m, y) /\ peerChannels'[x][y] = 0
    BY <1>1, <1>4, <1>11 DEF Opens, Grants, Shuts
  <1>14. ASSUME NEW ch \in Single, CallerWarned(ch), callerEnd'[ch] \in Alive PROVE CallerWarned(ch)'
    <2>1. PICK x \in Workers, y \in Workers : x = CallerOf(ch) /\ y = CalleeOf(ch) /\ pair[ch] = <<x, y>> /\ ch \in Made
      BY <1>0, <1>6
    <2>2. \/ callerEnd[ch] = "open" /\ ShutIn(toWorker[x], y) /\ peerChannels[x][y] = ch
          \/ callerEnd[ch] = "transit" /\ ShutAfter(toWorker[x], "grant", ch, y)
      BY <1>11, <1>14, <2>1 DEF CallerWarned
    <2>3. \/ callerEnd'[ch] = callerEnd[ch] /\ ~Carries(m, "grant", ch)
          \/ Carries(m, "grant", ch) /\ x = w /\ callerEnd[ch] = "transit" /\ callerEnd'[ch] = "open"
      BY <1>12, <1>14, <2>1 DEF Alive
    <2>4. \/ callerEnd'[ch] = "open" /\ ShutIn(toWorker'[x], y)
          \/ callerEnd'[ch] = "transit" /\ ShutAfter(toWorker'[x], "grant", ch, y)
      <3>1. CASE x # w
        BY <1>2, <2>2, <2>3, <3>1
      <3>2. CASE x = w
        <4>1. CASE callerEnd[ch] = "open" /\ ShutIn(q, y) /\ peerChannels[x][y] = ch
          <5>1. callerEnd'[ch] = "open"
            BY <2>3, <4>1
          <5>2. ~Shuts(m, y)
            <6> SUFFICES ASSUME Shuts(m, y) PROVE FALSE
              OBVIOUS
            <6>1. m.kind = "invalidate" /\ c = ch /\ pair[ch][1] = w
              BY <1>11, <2>1, <3>2, <4>1 DEF Shuts
            <6> QED BY <1>3, <1>6, <2>1, <5>1, <6>1
          <5> QED BY <1>2, <1>8, <3>2, <4>1, <5>1, <5>2
        <4>2. CASE callerEnd[ch] = "transit" /\ ShutAfter(q, "grant", ch, y)
          <5>1. (Carries(m, "grant", ch) /\ ShutIn(t, y)) \/ ShutAfter(t, "grant", ch, y)
            BY <1>9, <4>2
          <5>2. ShutIn(t, y)
            BY <1>10, <5>1
          <5> QED BY <1>2, <2>3, <3>2, <4>2, <5>1, <5>2
        <4> QED BY <1>11, <2>2, <3>2, <4>1, <4>2
      <3> QED BY <3>1, <3>2
    <2> QED BY <1>5, <2>1, <2>4 DEF CallerWarned
  <1>15. ASSUME NEW ch \in Single, CalleeWarned(ch), calleeEnd'[ch] \in Alive PROVE CalleeWarned(ch)'
    <2>1. PICK x \in Workers, y \in Workers : x = CallerOf(ch) /\ y = CalleeOf(ch) /\ pair[ch] = <<x, y>> /\ ch \in Made
      BY <1>0, <1>6
    <2>2. \/ calleeEnd[ch] = "open" /\ peerChannels[y][x] = ch /\ ShutFirst(toWorker[y], x)
          \/ calleeEnd[ch] = "transit" /\ ShutNext(toWorker[y], ch, x)
      BY <1>15, <2>1 DEF CalleeWarned
    <2>3. \/ calleeEnd'[ch] = calleeEnd[ch] /\ ~Carries(m, "open", ch)
          \/ /\ Carries(m, "open", ch) /\ y = w /\ calleeEnd[ch] = "transit" /\ calleeEnd'[ch] = "open"
             /\ peerChannels'[w][x] = ch
      BY <1>12, <1>15, <2>1 DEF Alive
    <2>4. \/ calleeEnd'[ch] = "open" /\ peerChannels'[y][x] = ch /\ ShutFirst(toWorker'[y], x)
          \/ calleeEnd'[ch] = "transit" /\ ShutNext(toWorker'[y], ch, x)
      <3>1. CASE y # w
        <4>1. peerChannels'[y][x] = peerChannels[y][x] /\ toWorker'[y] = toWorker[y]
          BY <1>2, <1>13, <3>1
        <4> QED BY <2>2, <2>3, <3>1, <4>1
      <3>2. CASE y = w
        <4>1. CASE calleeEnd[ch] = "open" /\ peerChannels[y][x] = ch /\ ShutFirst(q, x)
          <5>1. calleeEnd'[ch] = "open"
            BY <2>3, <4>1
          <5>2. ~Shuts(m, x)
            <6> SUFFICES ASSUME Shuts(m, x) PROVE FALSE
              OBVIOUS
            <6>1. m.kind = "invalidate" /\ c = ch
              BY <1>11, <3>2, <4>1 DEF Shuts
            <6>2. pair[ch][1] # w
              <7>1. May(x, y)
                BY <1>6, <2>1
              <7> QED BY <1>7, <2>1, <3>2, <7>1
            <6>3. ~(m.kind = "open" /\ m.port = ch)
              BY <6>1
            <6>4. calleeEnd'[ch] = "closed"
              BY <1>3, <1>6, <2>1, <6>1, <6>2, <6>3
            <6> QED BY <5>1, <6>4
          <5>3. ~Opens(m, x) /\ ShutFirst(t, x)
            BY <1>8, <4>1, <5>2
          <5>4. peerChannels'[y][x] = ch
            <6>1. peerChannels[y][x] # 0
              BY <1>11, <2>1, <4>1
            <6> QED BY <1>11, <1>13, <2>1, <4>1, <5>2, <5>3, <6>1
          <5> QED BY <1>2, <3>2, <5>1, <5>3, <5>4
        <4>2. CASE calleeEnd[ch] = "transit" /\ ShutNext(q, ch, x)
          <5>1. CASE Carries(m, "open", ch) /\ ShutFirst(t, x)
            BY <1>2, <2>3, <3>2, <5>1
          <5>2. CASE ShutNext(t, ch, x)
            <6>1. Carried(t, "open", ch)
              BY <1>10, <5>2
            <6>2. ~Carries(m, "open", ch)
              BY <1>1, <6>1 DEF Carries
            <6> QED BY <1>2, <2>3, <3>2, <4>2, <5>2, <6>2
          <5> QED BY <1>9, <4>2, <5>1, <5>2
        <4> QED BY <1>11, <2>2, <3>2, <4>1, <4>2
      <3> QED BY <3>1, <3>2
    <2> QED BY <1>5, <2>1, <2>4 DEF CalleeWarned
  <1>16. Warned'
    <2> SUFFICES ASSUME NEW ch \in Single, callerEnd'[ch] \in Alive
                 PROVE  \/ registry[pair[ch]] = ch
                        \/ CallerWarned(ch)'
                        \/ phase[CallerOf(ch)] # "up" /\ (calleeEnd'[ch] \in Alive => CalleeWarned(ch)')
      BY <1>2, <1>5 DEF Warned
    <2>1. PICK x \in Workers, y \in Workers : pair[ch] = <<x, y>> /\ ch \in Made
      BY <1>0, <1>6
    <2>2. /\ callerEnd[ch] \in Alive
          /\ calleeEnd'[ch] \in Alive => calleeEnd[ch] \in Alive
      BY <1>12, <2>1 DEF Alive
    <2>3. \/ registry[pair[ch]] = ch
          \/ CallerWarned(ch)
          \/ phase[CallerOf(ch)] # "up" /\ (calleeEnd[ch] \in Alive => CalleeWarned(ch))
      BY <2>2 DEF Wired, Warned
    <2> QED BY <1>14, <1>15, <2>2, <2>3
  <1>17. Whole'
    <2> SUFFICES ASSUME NEW p \in SinglePairs, NEW r, r = registry'[p], r # 0, phase'[p[1]] = "up", phase'[p[2]] = "up"
                 PROVE  /\ callerEnd'[r] \in Alive /\ ~CallerWarned(r)'
                        /\ calleeEnd'[r] \in Alive /\ ~CalleeTold(r)'
      BY DEF Whole, CallerWarned, CalleeTold
    <2>1. PICK x \in Workers, y \in Workers : p = <<x, y>> /\ p[1] = x /\ p[2] = y /\ ~May(y, x)
      BY <1>0 DEF Pairs
    <2>2. r = registry[p] /\ phase[x] = "up" /\ phase[y] = "up"
      BY <1>2, <2>1
    <2>3. r \in Made /\ CallerOf(r) = x /\ CalleeOf(r) = y /\ pair[r] = <<x, y>>
      BY <1>0, <2>1, <2>2, MadeFacts DEF Wired
    <2>4. /\ callerEnd[r] \in Alive /\ ~CallerWarned(r)
          /\ calleeEnd[r] \in Alive /\ ~CalleeTold(r)
      BY <2>1, <2>2 DEF Wired, Whole
    <2>5. /\ ~(callerEnd[r] = "open" /\ ShutIn(toWorker[x], y))
          /\ ~(callerEnd[r] = "transit" /\ ShutAfter(toWorker[x], "grant", r, y))
          /\ ~(calleeEnd[r] = "open" /\ ShutIn(toWorker[y], x))
          /\ ~(calleeEnd[r] = "transit" /\ ShutAfter(toWorker[y], "open", r, x))
      BY <2>3, <2>4 DEF CallerWarned, CalleeTold
    <2>6. \/ callerEnd'[r] = callerEnd[r] /\ ~Carries(m, "grant", r)
          \/ Carries(m, "grant", r) /\ x = w /\ callerEnd[r] = "transit" /\ callerEnd'[r] = "open"
      <3>1. ASSUME Carries(m, "grant", r), x = w, y = m.peer PROVE c = 0
        <4>1. Grants(m, y) /\ May(w, y)
          BY <1>6, <1>11, <2>3, <3>1 DEF Carries, Grants
        <4>2. c # 0 => ShutEach(q, y)
          BY <1>11, <2>1, <2>2, <3>1, <4>1 DEF Wired, NoneStranded
        <4>3. ~Shuts(m, y)
          BY <4>1 DEF Grants, Shuts
        <4> QED BY <1>8, <4>1, <4>2, <4>3
      <3>2. ~(Shuts(m, y) /\ x = w /\ callerEnd[r] = "open")
        BY <1>8, <1>11, <2>5
      <3> QED BY <1>12, <2>3, <3>1, <3>2
    <2>7. \/ calleeEnd'[r] = calleeEnd[r] /\ ~Carries(m, "open", r)
          \/ Carries(m, "open", r) /\ y = w /\ calleeEnd[r] = "transit" /\ calleeEnd'[r] = "open"
      <3>1. ~(Shuts(m, x) /\ y = w /\ calleeEnd[r] = "open")
        BY <1>8, <1>11, <2>5
      <3> QED BY <1>12, <2>3, <3>1
    <2>8. /\ ~(callerEnd'[r] = "open" /\ ShutIn(toWorker'[x], y))
          /\ ~(callerEnd'[r] = "transit" /\ ShutAfter(toWorker'[x], "grant", r, y))
      <3>1. CASE x = w
        BY <1>2, <1>8, <1>9, <1>11, <2>5, <2>6, <3>1
      <3>2. CASE x # w
        BY <1>2, <2>5, <2>6, <3>2
      <3> QED BY <3>1, <3>2
    <2>9. /\ ~(calleeEnd'[r] = "open" /\ ShutIn(toWorker'[y], x))
          /\ ~(calleeEnd'[r] = "transit" /\ ShutAfter(toWorker'[y], "open", r, x))
      <3>1. CASE y = w
        BY <1>2, <1>8, <1>9, <1>11, <2>5, <2>7, <3>1
      <3>2. CASE y # w
        BY <1>2, <2>5, <2>7, <3>2
      <3> QED BY <3>1, <3>2
    <2>10. callerEnd'[r] \in Alive /\ calleeEnd'[r] \in Alive
      BY <2>4, <2>6, <2>7 DEF Alive
    <2> QED BY <1>5, <2>3, <2>8, <2>9, <2>10 DEF CallerWarned, CalleeTold
  <1>18. NoneStranded'
    <2> SUFFICES ASSUME NEW x \in Workers, NEW y \in Workers, May(x, y), ~May(y, x), phase[x] = "up"
                 PROVE  Spaced(toWorker'[x], y) /\ (peerChannels'[x][y] # 0 => ShutEach(toWorker'[x], y))
      BY <1>2 DEF NoneStranded, May
    <2>1. Spaced(toWorker[x], y) /\ (peerChannels[x][y] # 0 => ShutEach(toWorker[x], y))
      BY DEF Wired, NoneStranded
    <2>2. CASE x # w
      BY <1>2, <1>13, <2>1, <2>2
    <2>3. CASE x = w
      BY <1>2, <1>8, <1>11, <1>13, <2>1, <2>3
    <2> QED BY <2>2, <2>3
  <1>19. Latest'
    <2> SUFFICES ASSUME NEW p \in SinglePairs, registry[p] # 0, p[2] \in Up
                 PROVE  LET r == registry[p] IN
                          \/ calleeEnd'[r] = "transit" /\ ~OpenAfter(toWorker'[p[2]], r, p[1])
                          \/ calleeEnd'[r] = "open" /\ peerChannels'[p[2]][p[1]] = r /\ ~OpenIn(toWorker'[p[2]], p[1])
                          \/ calleeEnd'[r] = "closed" /\ peerChannels'[p[2]][p[1]] = 0 /\ ~OpenIn(toWorker'[p[2]], p[1])
      BY <1>2, <1>5 DEF Latest
    <2>1. PICK x \in Workers, y \in Workers, r \in Made : p = <<x, y>> /\ p[1] = x /\ p[2] = y /\ r = registry[p] /\ pair[r] = <<x, y>>
      <3>1. p[1] \in Workers /\ p[2] \in Workers /\ p = <<p[1], p[2]>> /\ registry[p] \in Made /\ pair[registry[p]] = p
        BY <1>0, MadeFacts DEF Wired
      <3> QED BY <3>1
    <2>2. \/ calleeEnd[r] = "transit" /\ ~OpenAfter(toWorker[y], r, x)
          \/ calleeEnd[r] = "open" /\ peerChannels[y][x] = r /\ ~OpenIn(toWorker[y], x)
          \/ calleeEnd[r] = "closed" /\ peerChannels[y][x] = 0 /\ ~OpenIn(toWorker[y], x)
      BY <2>1 DEF Wired, Latest
    <2>3. May(x, y) /\ ~May(y, x)
      BY <1>0, <1>6, <2>1 DEF CallerOf, CalleeOf
    <2>4. \/ calleeEnd'[r] = "transit" /\ ~OpenAfter(toWorker'[y], r, x)
          \/ calleeEnd'[r] = "open" /\ peerChannels'[y][x] = r /\ ~OpenIn(toWorker'[y], x)
          \/ calleeEnd'[r] = "closed" /\ peerChannels'[y][x] = 0 /\ ~OpenIn(toWorker'[y], x)
      <3>1. CASE y # w
        <4>1. calleeEnd'[r] = calleeEnd[r] /\ peerChannels'[y][x] = peerChannels[y][x] /\ toWorker'[y] = toWorker[y]
          BY <1>2, <1>12, <1>13, <2>1, <3>1
        <4> QED BY <2>2, <4>1
      <3>2. CASE y = w
        <4>1. CASE calleeEnd[r] = "transit" /\ ~OpenAfter(q, r, x)
          BY <1>2, <1>9, <1>12, <2>1, <3>2, <4>1
        <4>2. CASE calleeEnd[r] = "open" /\ peerChannels[y][x] = r /\ ~OpenIn(q, x)
          <5>1. ~Opens(m, x) /\ ~OpenIn(t, x) /\ r # 0
            BY <1>8, <1>11, <4>2
          <5>2. CASE Shuts(m, x)
            <6>1. peerChannels'[y][x] = 0
              BY <1>13, <2>3, <3>2, <5>1, <5>2
            <6>2. m.kind = "invalidate" /\ c = r /\ pair[r][1] # w
              BY <1>7, <1>11, <2>1, <2>3, <3>2, <4>2, <5>2 DEF Shuts
            <6>3. calleeEnd'[r] = "closed"
              <7>1. ~(m.kind = "open" /\ m.port = r)
                BY <6>2
              <7> QED BY <1>3, <1>6, <6>2, <7>1
            <6> QED BY <1>2, <3>2, <5>1, <6>1, <6>3
          <5>3. CASE ~Shuts(m, x)
            <6>1. peerChannels'[y][x] = r
              BY <1>13, <2>3, <4>2, <5>1, <5>3
            <6>2. calleeEnd'[r] = "open"
              BY <1>12, <2>1, <4>2, <5>3
            <6> QED BY <1>2, <3>2, <5>1, <6>1, <6>2
          <5> QED BY <5>2, <5>3
        <4>3. CASE calleeEnd[r] = "closed" /\ peerChannels[y][x] = 0 /\ ~OpenIn(q, x)
          <5>1. ~Opens(m, x) /\ ~OpenIn(t, x)
            BY <1>8, <4>3
          <5>2. peerChannels'[y][x] = 0
            BY <1>13, <2>3, <3>2, <4>3, <5>1
          <5>3. calleeEnd'[r] = "closed"
            BY <1>12, <2>1, <4>3
          <5> QED BY <1>2, <3>2, <5>1, <5>2, <5>3
        <4> QED BY <1>11, <2>2, <3>2, <4>1, <4>2, <4>3
      <3> QED BY <3>1, <3>2
    <2> QED BY <2>1, <2>4
  <1>20. ASSUME NEW x \in Workers, NEW y \in Workers, May(y, x), ~May(x, y)
         PROVE  AllowsFit(toWorker'[x], y, peerChannels'[x][y], grants)
    <2>1. AllowsFit(toWorker[x], y, peerChannels[x][y], grants)
      BY <1>20 DEF Wired, Backed
    <2>2. CASE x # w
      BY <1>2, <1>13, <2>1, <2>2
    <2>3. CASE x = w
      <3>1. /\ Opens(m, y) => AllowsFit(t, y, m.port, grants)
            /\ ~Opens(m, y) => AllowsFit(t, y, peerChannels[x][y], grants)
        BY <1>1, <1>11, <2>1, <2>3, TakeAllows DEF m, t
      <3>2. AllowsFit(t, y, peerChannels[x][y], grants) => AllowsFit(t, y, 0, grants)
        BY DEF AllowsFit
      <3>3. ~May(x, y)
        BY <1>7, <1>20
      <3>4. CASE Opens(m, y)
        <4>1. peerChannels'[x][y] = m.port
          <5>1. ~Grants(m, y) /\ ~Shuts(m, y)
            BY <3>4 DEF Opens, Grants, Shuts
          <5> QED BY <1>13, <2>3, <3>4, <5>1
        <4> QED BY <1>2, <2>3, <3>1, <3>4, <4>1
      <3>5. CASE ~Opens(m, y)
        <4>1. peerChannels'[x][y] \in {peerChannels[x][y], 0}
          BY <1>13, <2>3, <3>3, <3>5
        <4> QED BY <1>2, <2>3, <3>1, <3>2, <3>5, <4>1
      <3> QED BY <3>4, <3>5
    <2> QED BY <2>2, <2>3
  <1>21. ASSUME NEW ch \in Single, calleeEnd'[ch] = "open" PROVE allowed'[ch] \subseteq grants[ch]
    <2>1. ch \in Channels /\ ch # 0 /\ ch \in Made
      BY <1>0, <1>11
    <2>2. calleeEnd[ch] = "open" => allowed[ch] \subseteq grants[ch]
      BY DEF Wired, Backed
    <2>3. allowed'[ch] = IF m.kind = "open" /\ m.port = ch THEN {m.dev}
               ELSE IF m.kind = "allow" /\ c = ch /\ pair[ch][2] = w THEN allowed[ch] \cup {m.dev}
               ELSE allowed[ch]
      BY <2>1 DEF Turn, m, c, q
    <2>4. CASE m.kind = "open" /\ m.port = ch
      BY <1>1, <2>3, <2>4
    <2>5. CASE ~(m.kind = "open" /\ m.port = ch)
      <3>1. calleeEnd[ch] = "open"
        BY <1>3, <1>21, <2>1, <2>5
      <3>2. ASSUME m.kind = "allow", c = ch, pair[ch][2] = w PROVE m.dev \in grants[ch]
        <4>0. pair[ch] = <<m.peer, w>> /\ m.peer \in Workers
          BY <1>1, <2>1, <3>2
        <4>1. m.peer \in Workers /\ May(m.peer, w) /\ ~May(w, m.peer) /\ Allows(m, m.peer)
          BY <1>0, <1>1, <1>21, <3>2, <4>0 DEF Allows, CallerOf, CalleeOf
        <4>2. AllowsFit(q, m.peer, c, grants)
          BY <1>11, <4>1 DEF Wired, Backed
        <4>3. c = 0 \/ m.dev \in grants[c]
          BY <1>1, <4>1, <4>2, TakeAllows DEF m
        <4> QED BY <2>1, <3>2, <4>3
      <3> QED BY <2>2, <2>3, <2>5, <3>1, <3>2
    <2> QED BY <2>4, <2>5
  <1>22. Backed'
    BY <1>2, <1>5, <1>20, <1>21 DEF Backed, May
  <1>23. Founded' /\ Ports' /\ Tabled'
    BY TurnPorts
  <1> QED BY <1>16, <1>17, <1>18, <1>19, <1>22, <1>23 DEF Wired

\* The port's 'close' event: the other end was closed, so the pair is not whole.
LEMMA PortCloseWired ==
  ASSUME BrokerTypeOK, BrokerTypeOK', Wired, NEW w \in Workers, NEW ch \in Channels, PortClose(w, ch)
  PROVE  Wired'
  <1>1. /\ w \in Up /\ CloseEnd(w, ch)
        /\ \/ pair[ch][1] = w /\ callerEnd[ch] = "open" /\ calleeEnd[ch] = "closed"
           \/ pair[ch][2] = w /\ calleeEnd[ch] = "open" /\ callerEnd[ch] = "closed"
        /\ used' = used /\ pair' = pair /\ registry' = registry /\ grants' = grants /\ phase' = phase
        /\ toWorker' = toWorker /\ allowed' = allowed
    BY DEF PortClose, mainVars
  <1>2. /\ Made' = Made /\ Single' = Single /\ Up' = Up
        /\ \A k : CallerOf(k)' = CallerOf(k) /\ CalleeOf(k)' = CalleeOf(k)
    BY <1>1, SingleKept DEF Made, Up, CallerOf, CalleeOf
  <1>3. /\ ch \in Made /\ Made \subseteq Channels /\ 0 \notin Made
        /\ \A k \in Made : /\ CallerOf(k) \in Workers /\ CalleeOf(k) \in Workers
                           /\ pair[k] = <<CallerOf(k), CalleeOf(k)>> /\ May(CallerOf(k), CalleeOf(k))
        /\ Single \subseteq Made /\ SinglePairs \subseteq Pairs
    BY <1>1, MadeFacts DEF Wired, Single, SinglePairs, Made
  <1>4. \A x, y \in Workers : May(x, y) => x # y
    BY DEF May
  <1>5. PICK a \in Workers, b \in Workers : pair[ch] = <<a, b>> /\ pair[ch][1] = a /\ pair[ch][2] = b /\ May(a, b) /\ a # b
    BY <1>3, <1>4
  <1>6. /\ callerEnd \in [Channels -> EndStates] /\ calleeEnd \in [Channels -> EndStates]
        /\ peerChannels \in [Workers -> [Workers -> 0 .. MaxChannels]]
    BY DEF BrokerTypeOK
  <1>7. \/ /\ a = w /\ callerEnd[ch] = "open" /\ calleeEnd[ch] = "closed"
           /\ callerEnd' = [callerEnd EXCEPT ![ch] = "closed"] /\ calleeEnd' = calleeEnd
           /\ peerChannels' = [peerChannels EXCEPT ![w][b] = IF @ = ch THEN 0 ELSE @]
        \/ /\ b = w /\ calleeEnd[ch] = "open" /\ callerEnd[ch] = "closed"
           /\ calleeEnd' = [calleeEnd EXCEPT ![ch] = "closed"] /\ callerEnd' = callerEnd
           /\ peerChannels' = [peerChannels EXCEPT ![w][a] = IF @ = ch THEN 0 ELSE @]
    BY <1>1, <1>5 DEF CloseEnd
  \* the ends, and the tables
  <1>8. ASSUME NEW k \in Made
        PROVE  /\ \/ callerEnd'[k] = callerEnd[k]
                  \/ k = ch /\ a = w /\ callerEnd[k] = "open" /\ callerEnd'[k] = "closed" /\ calleeEnd[k] = "closed"
               /\ \/ calleeEnd'[k] = calleeEnd[k]
                  \/ k = ch /\ b = w /\ calleeEnd[k] = "open" /\ calleeEnd'[k] = "closed" /\ callerEnd[k] = "closed"
    BY <1>3, <1>6, <1>7
  <1>9. ASSUME NEW x \in Workers, NEW y \in Workers
        PROVE  \/ peerChannels'[x][y] = peerChannels[x][y] /\ peerChannels[x][y] # ch
               \/ peerChannels'[x][y] = peerChannels[x][y] /\ x # w
               \/ x = w /\ a = w /\ y = b /\ peerChannels[x][y] = ch /\ peerChannels'[x][y] = 0 /\ callerEnd'[ch] = "closed"
               \/ x = w /\ b = w /\ y = a /\ peerChannels[x][y] = ch /\ peerChannels'[x][y] = 0 /\ calleeEnd'[ch] = "closed"
    <2>1. peerChannels[x][y] = ch => (x = a /\ y = b) \/ (x = b /\ y = a)
      <3>1. ch # 0
        BY <1>3
      <3> QED BY <1>5, <3>1 DEF Wired, Tabled
    <2> QED BY <1>3, <1>6, <1>7, <2>1
  <1>10. Founded'
    <2>1. \A k \in Channels : k > used => callerEnd'[k] = callerEnd[k] /\ calleeEnd'[k] = calleeEnd[k]
      <3>1. ~(ch > used)
        BY <1>3 DEF Made, BrokerTypeOK
      <3> QED BY <1>6, <1>7, <3>1
    <2> QED BY <1>1, <1>2, <2>1 DEF Wired, Founded, May
  <1>11. Ports'
    <2>1. ASSUME NEW u \in Workers PROVE Carrying(u, toWorker[u])' /\ (u \notin Up' => toWorker'[u] = <<>>)
      <3>1. Carrying(u, toWorker[u]) /\ (u \notin Up => toWorker[u] = <<>>)
        BY DEF Wired, Ports
      <3>2. \A k \in Made : /\ callerEnd[k] = "transit" => callerEnd'[k] = "transit"
                            /\ calleeEnd[k] = "transit" => calleeEnd'[k] = "transit"
        BY <1>8
      <3> QED BY <1>1, <1>2, <3>1, <3>2 DEF Carrying, May
    <2>2. ASSUME NEW k \in Made
          PROVE  /\ callerEnd'[k] \in Alive => callerEnd'[k] = callerEnd[k]
                 /\ calleeEnd'[k] \in Alive => calleeEnd'[k] = calleeEnd[k]
      BY <1>8 DEF Alive
    <2>3. \A k \in Made :
            /\ callerEnd'[k] \in Alive => CallerOf(k) \in Up
            /\ calleeEnd'[k] \in Alive => CalleeOf(k) \in Up
            /\ callerEnd'[k] = "transit" => Carried(toWorker[CallerOf(k)], "grant", k)
            /\ calleeEnd'[k] = "transit" => Carried(toWorker[CalleeOf(k)], "open", k)
      BY <2>2 DEF Wired, Ports, Alive
    <2> QED BY <1>1, <1>2, <2>1, <2>3 DEF Ports
  <1>12. Tabled'
    <2>1. ASSUME NEW x \in Workers, NEW y \in Workers, peerChannels'[x][y] # 0
          PROVE  LET k == peerChannels'[x][y] IN
                   /\ k \in Made
                   /\ \/ pair[k] = <<x, y>> /\ callerEnd'[k] = "open"
                      \/ pair[k] = <<y, x>> /\ calleeEnd'[k] = "open"
      <3>1. PICK k : k = peerChannels'[x][y]
        OBVIOUS
      <3>2. k = peerChannels[x][y] /\ k # 0 /\ (k # ch \/ x # w)
        BY <1>9, <2>1, <3>1
      <3>3. /\ k \in Made
            /\ \/ pair[k] = <<x, y>> /\ callerEnd[k] = "open"
               \/ pair[k] = <<y, x>> /\ calleeEnd[k] = "open"
        BY <3>2 DEF Wired, Tabled
      <3>4. CASE pair[k] = <<x, y>> /\ callerEnd[k] = "open"
        <4>1. callerEnd'[k] = "open"
          BY <1>5, <1>8, <3>2, <3>3, <3>4
        <4> QED BY <3>1, <3>3, <3>4, <4>1
      <3>5. CASE pair[k] = <<y, x>> /\ calleeEnd[k] = "open"
        <4>1. calleeEnd'[k] = "open"
          BY <1>5, <1>8, <3>2, <3>3, <3>5
        <4> QED BY <3>1, <3>3, <3>5, <4>1
      <3> QED BY <3>3, <3>4, <3>5
    <2>2. ASSUME NEW k \in Single, callerEnd'[k] = "open" PROVE peerChannels'[CallerOf(k)][CalleeOf(k)] = k
      <3>1. callerEnd[k] = "open" /\ peerChannels[CallerOf(k)][CalleeOf(k)] = k
        BY <1>3, <1>8, <2>2 DEF Wired, Tabled
      <3>2. CallerOf(k) \in Workers /\ CalleeOf(k) \in Workers
        BY <1>3
      <3>3. k # ch \/ CallerOf(k) # w
        <4>1. CASE a = w
          BY <1>6, <1>7, <1>5, <2>2, <1>4, <3>1
        <4>2. CASE b = w
          BY <1>5, <4>2 DEF CallerOf
        <4> QED BY <1>7, <4>1, <4>2
      <3> QED BY <1>9, <3>1, <3>2, <3>3
    <2> QED BY <1>1, <1>2, <2>1, <2>2 DEF Tabled
  <1>13. ASSUME NEW k \in Made, CallerWarned(k), callerEnd'[k] \in Alive PROVE CallerWarned(k)'
    <2>1. callerEnd'[k] = callerEnd[k]
      BY <1>8, <1>13 DEF Alive
    <2> QED BY <1>1, <1>2, <1>13, <2>1 DEF CallerWarned
  <1>14. ASSUME NEW k \in Made, CalleeWarned(k), calleeEnd'[k] \in Alive, callerEnd'[k] \in Alive PROVE CalleeWarned(k)'
    <2>1. calleeEnd'[k] = calleeEnd[k] /\ callerEnd'[k] = callerEnd[k]
      BY <1>8, <1>14 DEF Alive
    <2>2. CallerOf(k) \in Workers /\ CalleeOf(k) \in Workers
      BY <1>3
    <2>3. ASSUME peerChannels[CalleeOf(k)][CallerOf(k)] = k PROVE peerChannels'[CalleeOf(k)][CallerOf(k)] = k
      <3>1. ~(k = ch /\ CalleeOf(k) = w)
        <4> SUFFICES ASSUME k = ch, CalleeOf(k) = w PROVE FALSE
          OBVIOUS
        <4>1. b = w /\ a # w
          BY <1>5 DEF CalleeOf
        <4>2. callerEnd[ch] = "closed"
          BY <1>7, <4>1
        <4> QED BY <1>14, <2>1, <4>2 DEF Alive
      <3> QED BY <1>9, <2>2, <2>3, <3>1
    <2> QED BY <1>1, <1>2, <1>14, <2>1, <2>3 DEF CalleeWarned
  <1>15. Warned'
    <2> SUFFICES ASSUME NEW k \in Single, callerEnd'[k] \in Alive
                 PROVE  \/ registry[pair[k]] = k
                        \/ CallerWarned(k)'
                        \/ phase[CallerOf(k)] # "up" /\ (calleeEnd'[k] \in Alive => CalleeWarned(k)')
      BY <1>1, <1>2 DEF Warned
    <2>1. callerEnd[k] \in Alive /\ (calleeEnd'[k] \in Alive => calleeEnd[k] \in Alive) /\ k \in Made
      BY <1>3, <1>8 DEF Alive
    <2>2. \/ registry[pair[k]] = k
          \/ CallerWarned(k)
          \/ phase[CallerOf(k)] # "up" /\ (calleeEnd[k] \in Alive => CalleeWarned(k))
      BY <2>1 DEF Wired, Warned
    <2> QED BY <1>13, <1>14, <2>1, <2>2
  <1>16. NoneStranded'
    <2> SUFFICES ASSUME NEW x \in Workers, NEW y \in Workers, May(x, y), ~May(y, x), phase[x] = "up"
                 PROVE  Spaced(toWorker[x], y) /\ (peerChannels'[x][y] # 0 => ShutEach(toWorker[x], y))
      BY <1>1 DEF NoneStranded, May
    <2>1. peerChannels'[x][y] # 0 => peerChannels[x][y] # 0
      BY <1>3, <1>9
    <2> QED BY <2>1 DEF Wired, NoneStranded
  <1>17. Latest'
    <2> SUFFICES ASSUME NEW p \in SinglePairs, registry[p] # 0, p[2] \in Up
                 PROVE  LET r == registry[p] IN
                          \/ calleeEnd'[r] = "transit" /\ ~OpenAfter(toWorker[p[2]], r, p[1])
                          \/ calleeEnd'[r] = "open" /\ peerChannels'[p[2]][p[1]] = r /\ ~OpenIn(toWorker[p[2]], p[1])
                          \/ calleeEnd'[r] = "closed" /\ peerChannels'[p[2]][p[1]] = 0 /\ ~OpenIn(toWorker[p[2]], p[1])
      BY <1>1, <1>2 DEF Latest
    <2>1. PICK x \in Workers, y \in Workers, r \in Made : p[1] = x /\ p[2] = y /\ r = registry[p] /\ pair[r] = <<x, y>>
      <3>1. p[1] \in Workers /\ p[2] \in Workers /\ p = <<p[1], p[2]>> /\ registry[p] \in Made /\ pair[registry[p]] = p
        BY <1>3, MadeFacts DEF Wired
      <3> QED BY <3>1
    <2>2. \/ calleeEnd[r] = "transit" /\ ~OpenAfter(toWorker[y], r, x)
          \/ calleeEnd[r] = "open" /\ peerChannels[y][x] = r /\ ~OpenIn(toWorker[y], x)
          \/ calleeEnd[r] = "closed" /\ peerChannels[y][x] = 0 /\ ~OpenIn(toWorker[y], x)
      BY <2>1 DEF Wired, Latest
    <2>3. \/ calleeEnd'[r] = "transit" /\ ~OpenAfter(toWorker[y], r, x)
          \/ calleeEnd'[r] = "open" /\ peerChannels'[y][x] = r /\ ~OpenIn(toWorker[y], x)
          \/ calleeEnd'[r] = "closed" /\ peerChannels'[y][x] = 0 /\ ~OpenIn(toWorker[y], x)
      <3>1. CASE r = ch /\ b = w
        <4>1. x = a /\ y = b /\ a # w
          BY <1>5, <2>1, <3>1
        <4>2. calleeEnd[ch] = "open" /\ calleeEnd'[ch] = "closed"
          BY <1>6, <1>7, <3>1, <4>1
        <4>3. peerChannels[y][x] = ch /\ ~OpenIn(toWorker[y], x)
          BY <2>2, <3>1, <4>2
        <4>4. peerChannels'[y][x] = 0
          BY <1>9, <3>1, <4>1, <4>3
        <4> QED BY <3>1, <4>2, <4>3, <4>4
      <3>2. CASE ~(r = ch /\ b = w)
        <4>1. calleeEnd'[r] = calleeEnd[r]
          BY <1>8, <3>2
        <4>2. peerChannels[y][x] = r => peerChannels'[y][x] = r
          <5>1. r = ch => y = b
            BY <1>5, <2>1
          <5>2. ~(r = ch /\ y = w)
            BY <3>2, <5>1
          <5> QED BY <1>9, <5>2
        <4>3. peerChannels[y][x] = 0 => peerChannels'[y][x] = 0
          BY <1>3, <1>9
        <4> QED BY <2>2, <4>1, <4>2, <4>3
      <3> QED BY <3>1, <3>2
    <2> QED BY <2>1, <2>3
  <1>18. Whole'
    <2> SUFFICES ASSUME NEW p \in SinglePairs, NEW r, r = registry'[p], r # 0, phase'[p[1]] = "up", phase'[p[2]] = "up"
                 PROVE  /\ callerEnd'[r] \in Alive /\ ~CallerWarned(r)'
                        /\ calleeEnd'[r] \in Alive /\ ~CalleeTold(r)'
      BY DEF Whole, CallerWarned, CalleeTold
    <2>1. r = registry[p] /\ r \in Made
      BY <1>1, <1>3, MadeFacts DEF Wired
    <2>2. /\ callerEnd[r] \in Alive /\ ~CallerWarned(r)
          /\ calleeEnd[r] \in Alive /\ ~CalleeTold(r)
      BY <1>1, <2>1 DEF Wired, Whole
    <2>3. callerEnd'[r] = callerEnd[r] /\ calleeEnd'[r] = calleeEnd[r]
      BY <1>8, <2>1, <2>2 DEF Alive
    <2> QED BY <1>1, <1>2, <2>2, <2>3 DEF CallerWarned, CalleeTold
  <1>19. Backed'
    <2>1. \A k \in Single : calleeEnd'[k] = "open" => allowed[k] \subseteq grants[k]
      BY <1>3, <1>8 DEF Wired, Backed
    <2>2. ASSUME NEW x \in Workers, NEW y \in Workers, May(y, x), ~May(x, y)
          PROVE  AllowsFit(toWorker[x], y, peerChannels'[x][y], grants)
      <3>1. AllowsFit(toWorker[x], y, peerChannels[x][y], grants)
        BY <2>2 DEF Wired, Backed
      <3>2. AllowsFit(toWorker[x], y, 0, grants)
        BY <3>1 DEF AllowsFit
      <3>3. peerChannels'[x][y] \in {peerChannels[x][y], 0}
        BY <1>9
      <3> QED BY <3>1, <3>2, <3>3
    <2> QED BY <1>1, <1>2, <2>1, <2>2 DEF Backed, May
  <1> QED BY <1>10, <1>11, <1>12, <1>15, <1>16, <1>17, <1>18, <1>19 DEF Wired

\* A port's messages go on carrying what they did while the ends on their way stay so.
LEMMA CarryingKept ==
  ASSUME NEW u \in Workers, Carrying(u, toWorker[u]), toWorker'[u] = toWorker[u],
         Made' = Made, pair' = pair, grants' = grants,
         \A k \in Made : /\ pair[k][1] = u => callerEnd'[k] = callerEnd[k]
                         /\ pair[k][2] = u => calleeEnd'[k] = calleeEnd[k]
  PROVE  Carrying(u, toWorker[u])'
  <1> DEFINE q == toWorker[u]
             r == toWorker'[u]
  <1>1. \A i \in DOMAIN q :
          /\ q[i].kind = "grant" /\ q[i].port # 0 =>
               q[i].port \in Made /\ pair[q[i].port] = <<u, q[i].peer>> /\ callerEnd[q[i].port] = "transit"
          /\ q[i].kind = "open" =>
               /\ q[i].port \in Made /\ pair[q[i].port] = <<q[i].peer, u>> /\ calleeEnd[q[i].port] = "transit"
               /\ q[i].dev \in grants[q[i].port]
          /\ q[i].kind = "allow" => May(q[i].peer, u)
    BY DEF Carrying
  <1>2. \A i, j \in DOMAIN q : q[i].kind = q[j].kind /\ q[i].kind \in {"grant", "open"}
                                 /\ q[i].port = q[j].port /\ q[i].port # 0 => i = j
    BY DEF Carrying
  <1>3. r = q
    OBVIOUS
  <1>4. \A i \in DOMAIN r :
          /\ r[i].kind = "grant" /\ r[i].port # 0 =>
               r[i].port \in Made' /\ pair'[r[i].port] = <<u, r[i].peer>> /\ callerEnd'[r[i].port] = "transit"
          /\ r[i].kind = "open" =>
               /\ r[i].port \in Made' /\ pair'[r[i].port] = <<r[i].peer, u>> /\ calleeEnd'[r[i].port] = "transit"
               /\ r[i].dev \in grants'[r[i].port]
          /\ r[i].kind = "allow" => May(r[i].peer, u)
    <2> HIDE DEF q, r
    <2> TAKE i \in DOMAIN r
    <2>1. i \in DOMAIN q /\ r[i] = q[i]
      BY <1>3
    <2>2. ASSUME q[i].kind = "grant", q[i].port # 0
          PROVE  q[i].port \in Made /\ pair[q[i].port] = <<u, q[i].peer>> /\ callerEnd'[q[i].port] = "transit"
      <3>1. q[i].port \in Made /\ pair[q[i].port] = <<u, q[i].peer>> /\ callerEnd[q[i].port] = "transit"
        BY <1>1, <2>1, <2>2
      <3>2. pair[q[i].port][1] = u
        BY <3>1
      <3> QED BY <3>1, <3>2
    <2>3. ASSUME q[i].kind = "open"
          PROVE  /\ q[i].port \in Made /\ pair[q[i].port] = <<q[i].peer, u>> /\ calleeEnd'[q[i].port] = "transit"
                 /\ q[i].dev \in grants[q[i].port]
      <3>1. /\ q[i].port \in Made /\ pair[q[i].port] = <<q[i].peer, u>> /\ calleeEnd[q[i].port] = "transit"
            /\ q[i].dev \in grants[q[i].port]
        BY <1>1, <2>1, <2>3
      <3>2. pair[q[i].port][2] = u
        BY <3>1
      <3> QED BY <3>1, <3>2
    <2>4. q[i].kind = "allow" => May(q[i].peer, u)
      BY <1>1, <2>1
    <2> QED BY <2>1, <2>2, <2>3, <2>4
  <1>5. \A i, j \in DOMAIN r : r[i].kind = r[j].kind /\ r[i].kind \in {"grant", "open"}
                                 /\ r[i].port = r[j].port /\ r[i].port # 0 => i = j
    BY <1>2, <1>3
  <1> QED BY <1>4, <1>5 DEF Carrying

\* A worker exits: its ends close, its port is gone, and it is not up any more.
LEMMA WorkerExitsWired ==
  ASSUME BrokerTypeOK, BrokerTypeOK', Wired, NEW w \in Workers, WorkerExits(w)
  PROVE  Wired'
  <1>1. /\ phase' = [phase EXCEPT ![w] = "exited"] /\ toWorker' = [toWorker EXCEPT ![w] = <<>>]
        /\ callerEnd' = [ch \in Channels |-> IF pair[ch][1] = w THEN "closed" ELSE callerEnd[ch]]
        /\ calleeEnd' = [ch \in Channels |-> IF pair[ch][2] = w /\ calleeEnd[ch] # "stranded"
                                             THEN "closed" ELSE calleeEnd[ch]]
        /\ peerChannels' = [peerChannels EXCEPT ![w] = [v \in Workers |-> 0]]
        /\ used' = used /\ pair' = pair /\ registry' = registry /\ grants' = grants /\ allowed' = allowed
    BY DEF WorkerExits, mainVars
  <1>2. /\ Made' = Made /\ Single' = Single
        /\ \A k : CallerOf(k)' = CallerOf(k) /\ CalleeOf(k)' = CalleeOf(k)
    BY <1>1, SingleKept DEF Made, CallerOf, CalleeOf
  <1>3. /\ Made \subseteq Channels /\ 0 \notin Made
        /\ \A k \in Made : /\ CallerOf(k) \in Workers /\ CalleeOf(k) \in Workers
                           /\ pair[k] = <<CallerOf(k), CalleeOf(k)>> /\ May(CallerOf(k), CalleeOf(k))
        /\ Single \subseteq Made /\ SinglePairs \subseteq Pairs
    BY MadeFacts DEF Wired, Single, SinglePairs, Made
  <1>4. /\ \A u \in Workers : u # w => phase'[u] = phase[u] /\ toWorker'[u] = toWorker[u]
        /\ phase'[w] = "exited" /\ toWorker'[w] = <<>>
        /\ \A x, y \in Workers : peerChannels'[x][y] = IF x = w THEN 0 ELSE peerChannels[x][y]
    BY <1>1 DEF BrokerTypeOK
  <1>5. Up' = Up \ {w}
    BY <1>4 DEF Up
  <1>6. \A k \in Made :
          /\ callerEnd'[k] = IF CallerOf(k) = w THEN "closed" ELSE callerEnd[k]
          /\ CalleeOf(k) = w => calleeEnd'[k] \notin Alive
          /\ CalleeOf(k) # w => calleeEnd'[k] = calleeEnd[k]
    BY <1>1, <1>3 DEF CallerOf, CalleeOf, Alive
  <1>7. Founded'
    <2>1. \A k \in Channels : k > used => callerEnd'[k] = callerEnd[k] /\ calleeEnd'[k] = calleeEnd[k]
      <3> TAKE k \in Channels
      <3>1. k > used => pair[k][1] # w /\ pair[k][2] # w
        BY BrokerAssumption DEF Wired, Founded
      <3> QED BY <1>1, <3>1
    <2>2. \A k \in Made : phase'[CallerOf(k)] # "unborn" /\ phase'[CalleeOf(k)] # "unborn"
      BY <1>3, <1>4 DEF Wired, Founded
    <2> QED BY <1>1, <1>2, <2>1, <2>2 DEF Wired, Founded, May
  <1>8. Ports'
    <2>1. ASSUME NEW u \in Workers PROVE Carrying(u, toWorker[u])' /\ (u \notin Up' => toWorker'[u] = <<>>)
      <3>1. Carrying(u, toWorker[u]) /\ (u \notin Up => toWorker[u] = <<>>)
        BY DEF Wired, Ports
      <3>2. CASE u = w
        <4>1. toWorker'[u] = <<>> /\ DOMAIN toWorker'[u] = {}
          BY <1>4, <3>2
        <4> QED BY <4>1 DEF Carrying
      <3>3. CASE u # w
        <4>1. \A k \in Made : /\ pair[k][1] = u => callerEnd'[k] = callerEnd[k]
                              /\ pair[k][2] = u => calleeEnd'[k] = calleeEnd[k]
          BY <1>6, <3>3 DEF CallerOf, CalleeOf
        <4>2. toWorker'[u] = toWorker[u]
          BY <1>4, <3>3
        <4>3. Carrying(u, toWorker[u])'
          BY <1>1, <1>2, <3>1, <4>1, <4>2, CarryingKept
        <4> QED BY <1>5, <3>1, <3>3, <4>2, <4>3
      <3> QED BY <3>2, <3>3
    <2>2. \A k \in Made :
            /\ callerEnd'[k] \in Alive => CallerOf(k) \in Up'
            /\ calleeEnd'[k] \in Alive => CalleeOf(k) \in Up'
            /\ callerEnd'[k] = "transit" => Carried(toWorker'[CallerOf(k)], "grant", k)
            /\ calleeEnd'[k] = "transit" => Carried(toWorker'[CalleeOf(k)], "open", k)
      <3> TAKE k \in Made
      <3>1. /\ callerEnd[k] \in Alive => CallerOf(k) \in Up
            /\ calleeEnd[k] \in Alive => CalleeOf(k) \in Up
            /\ callerEnd[k] = "transit" => Carried(toWorker[CallerOf(k)], "grant", k)
            /\ calleeEnd[k] = "transit" => Carried(toWorker[CalleeOf(k)], "open", k)
        BY DEF Wired, Ports
      <3>2. /\ callerEnd'[k] \in Alive => CallerOf(k) # w /\ callerEnd'[k] = callerEnd[k]
            /\ calleeEnd'[k] \in Alive => CalleeOf(k) # w /\ calleeEnd'[k] = calleeEnd[k]
            /\ "transit" \in Alive
        BY <1>6 DEF Alive
      <3> QED BY <1>3, <1>4, <1>5, <3>1, <3>2
    <2> QED BY <1>2, <2>1, <2>2 DEF Ports
  <1>9. Tabled'
    <2>1. ASSUME NEW x \in Workers, NEW y \in Workers, peerChannels'[x][y] # 0
          PROVE  LET k == peerChannels'[x][y] IN
                   /\ k \in Made
                   /\ \/ pair[k] = <<x, y>> /\ callerEnd'[k] = "open"
                      \/ pair[k] = <<y, x>> /\ calleeEnd'[k] = "open"
      <3>1. x # w /\ peerChannels'[x][y] = peerChannels[x][y]
        BY <1>4, <2>1
      <3>2. LET k == peerChannels[x][y] IN
              /\ k \in Made
              /\ \/ pair[k] = <<x, y>> /\ callerEnd[k] = "open"
                 \/ pair[k] = <<y, x>> /\ calleeEnd[k] = "open"
        BY <2>1, <3>1 DEF Wired, Tabled
      <3> QED BY <1>6, <3>1, <3>2 DEF CallerOf, CalleeOf
    <2>2. \A k \in Single : callerEnd'[k] = "open" => peerChannels'[CallerOf(k)][CalleeOf(k)] = k
      BY <1>3, <1>4, <1>6 DEF Wired, Tabled
    <2> QED BY <1>1, <1>2, <2>1, <2>2 DEF Tabled
  <1>10. Warned'
    <2> SUFFICES ASSUME NEW k \in Single, callerEnd'[k] \in Alive
                 PROVE  \/ registry[pair[k]] = k
                        \/ CallerWarned(k)'
                        \/ phase'[CallerOf(k)] # "up" /\ (calleeEnd'[k] \in Alive => CalleeWarned(k)')
      BY <1>1, <1>2 DEF Warned
    <2>1. CallerOf(k) # w /\ callerEnd'[k] = callerEnd[k] /\ CallerOf(k) \in Workers /\ CalleeOf(k) \in Workers
          /\ k \in Made
      BY <1>3, <1>6 DEF Alive
    <2>2. \/ registry[pair[k]] = k
          \/ CallerWarned(k)
          \/ phase[CallerOf(k)] # "up" /\ (calleeEnd[k] \in Alive => CalleeWarned(k))
      BY <2>1 DEF Wired, Warned
    <2>3. CallerWarned(k) => CallerWarned(k)'
      BY <1>2, <1>4, <2>1 DEF CallerWarned
    <2>4. ASSUME calleeEnd'[k] \in Alive, CalleeWarned(k) PROVE CalleeWarned(k)'
      <3>1. CalleeOf(k) # w /\ calleeEnd'[k] = calleeEnd[k]
        BY <1>6, <2>1, <2>4
      <3> QED BY <1>2, <1>4, <2>1, <2>4, <3>1 DEF CalleeWarned
    <2>5. phase'[CallerOf(k)] = phase[CallerOf(k)] /\ (calleeEnd'[k] \in Alive => calleeEnd[k] \in Alive)
      BY <1>4, <1>6, <2>1
    <2> QED BY <2>2, <2>3, <2>4, <2>5
  <1>11. NoneStranded'
    <2> SUFFICES ASSUME NEW x \in Workers, NEW y \in Workers, May(x, y), ~May(y, x), phase'[x] = "up"
                 PROVE  Spaced(toWorker'[x], y) /\ (peerChannels'[x][y] # 0 => ShutEach(toWorker'[x], y))
      BY DEF NoneStranded, May
    <2>1. x # w
      BY <1>4
    <2> QED BY <1>4, <2>1 DEF Wired, NoneStranded
  <1>12. Latest'
    <2> SUFFICES ASSUME NEW p \in SinglePairs, registry[p] # 0, p[2] \in Up'
                 PROVE  LET r == registry[p] IN
                          \/ calleeEnd'[r] = "transit" /\ ~OpenAfter(toWorker'[p[2]], r, p[1])
                          \/ calleeEnd'[r] = "open" /\ peerChannels'[p[2]][p[1]] = r /\ ~OpenIn(toWorker'[p[2]], p[1])
                          \/ calleeEnd'[r] = "closed" /\ peerChannels'[p[2]][p[1]] = 0 /\ ~OpenIn(toWorker'[p[2]], p[1])
      BY <1>1 DEF Latest
    <2>1. /\ p[1] \in Workers /\ p[2] \in Workers /\ registry[p] \in Made /\ CalleeOf(registry[p]) = p[2]
          /\ p[2] # w /\ p[2] \in Up
      BY <1>3, <1>5, MadeFacts DEF Wired
    <2>2. /\ calleeEnd'[registry[p]] = calleeEnd[registry[p]] /\ toWorker'[p[2]] = toWorker[p[2]]
          /\ peerChannels'[p[2]][p[1]] = peerChannels[p[2]][p[1]]
      BY <1>4, <1>6, <2>1
    <2> QED BY <2>1, <2>2 DEF Wired, Latest
  <1>13. Whole'
    <2> SUFFICES ASSUME NEW p \in SinglePairs, NEW r, r = registry'[p], r # 0, phase'[p[1]] = "up", phase'[p[2]] = "up"
                 PROVE  /\ callerEnd'[r] \in Alive /\ ~CallerWarned(r)'
                        /\ calleeEnd'[r] \in Alive /\ ~CalleeTold(r)'
      BY DEF Whole, CallerWarned, CalleeTold
    <2>1. /\ r = registry[p] /\ r \in Made /\ CallerOf(r) = p[1] /\ CalleeOf(r) = p[2]
          /\ p[1] \in Workers /\ p[2] \in Workers
      BY <1>1, <1>3, MadeFacts DEF Wired
    <2>2. p[1] # w /\ p[2] # w /\ phase[p[1]] = "up" /\ phase[p[2]] = "up"
      BY <1>4, <2>1
    <2>3. /\ callerEnd[r] \in Alive /\ ~CallerWarned(r)
          /\ calleeEnd[r] \in Alive /\ ~CalleeTold(r)
      BY <2>1, <2>2 DEF Wired, Whole
    <2>4. /\ callerEnd'[r] = callerEnd[r] /\ calleeEnd'[r] = calleeEnd[r]
          /\ toWorker'[p[1]] = toWorker[p[1]] /\ toWorker'[p[2]] = toWorker[p[2]]
      BY <1>4, <1>6, <2>1, <2>2
    <2> QED BY <1>2, <2>1, <2>3, <2>4 DEF CallerWarned, CalleeTold
  <1>14. Backed'
    <2>1. \A k \in Single : calleeEnd'[k] = "open" => allowed[k] \subseteq grants[k]
      BY <1>3, <1>6 DEF Wired, Backed, Alive
    <2>2. ASSUME NEW x \in Workers, NEW y \in Workers, May(y, x), ~May(x, y)
          PROVE  AllowsFit(toWorker'[x], y, peerChannels'[x][y], grants)
      <3>1. CASE x = w
        <4>1. toWorker'[x] = <<>> /\ DOMAIN toWorker'[x] = {}
          BY <1>4, <3>1
        <4> QED BY <4>1 DEF AllowsFit
      <3>2. CASE x # w
        BY <1>4, <2>2, <3>2 DEF Wired, Backed
      <3> QED BY <3>1, <3>2
    <2> QED BY <1>1, <1>2, <2>1, <2>2 DEF Backed, May
  <1> QED BY <1>7, <1>8, <1>9, <1>10, <1>11, <1>12, <1>13, <1>14 DEF Wired

\* A module restarted on a new worker: no channel has been made for it yet.
LEMMA RestartWired ==
  ASSUME BrokerTypeOK, BrokerTypeOK', Wired, NEW w \in Workers, Restart(w)
  PROVE  Wired'
  <1> DEFINE s == Successor[w]
  <1>1. /\ s \in Workers /\ phase[s] = "unborn" /\ phase' = [phase EXCEPT ![s] = "up"]
        /\ toWorker' = toWorker /\ callerEnd' = callerEnd /\ calleeEnd' = calleeEnd /\ peerChannels' = peerChannels
        /\ used' = used /\ pair' = pair /\ registry' = registry /\ grants' = grants /\ allowed' = allowed
    BY BrokerAssumption DEF Restart, chanVars
  <1> HIDE DEF s
  <1>2. /\ Made' = Made /\ Single' = Single
        /\ \A k : CallerOf(k)' = CallerOf(k) /\ CalleeOf(k)' = CalleeOf(k)
    BY <1>1, SingleKept DEF Made, CallerOf, CalleeOf
  <1>3. /\ \A k \in Made : CallerOf(k) \in Workers \ {s} /\ CalleeOf(k) \in Workers \ {s}
        /\ \A p \in Pairs : registry[p] # 0 =>
             p[1] \in Workers \ {s} /\ p[2] \in Workers \ {s} /\ registry[p] \in Made
        /\ Single \subseteq Made /\ SinglePairs \subseteq Pairs
    BY <1>1, MadeFacts DEF Wired, Single, SinglePairs
  <1>4. phase'[s] = "up" /\ \A u \in Workers : u # s => phase'[u] = phase[u]
    BY <1>1 DEF BrokerTypeOK
  <1>5. Up' = Up \cup {s} /\ s \notin Up
    BY <1>1, <1>4 DEF Up
  <1>6. toWorker[s] = <<>> /\ DOMAIN toWorker[s] = {}
    BY <1>1, <1>5 DEF Wired, Ports
  <1>7. Founded'
    BY <1>1, <1>2, <1>3, <1>4 DEF Wired, Founded, May
  <1>8. Ports'
    <2>1. \A u \in Workers : Carrying(u, toWorker[u])'
      BY <1>1, <1>2, CarryingKept DEF Wired, Ports
    <2> QED BY <1>1, <1>2, <1>5, <2>1 DEF Wired, Ports
  <1>9. Tabled'
    BY <1>1, <1>2 DEF Wired, Tabled
  <1>10. \A k \in Made : /\ CallerWarned(k)' <=> CallerWarned(k)
                         /\ CalleeWarned(k)' <=> CalleeWarned(k)
                         /\ CalleeTold(k)' <=> CalleeTold(k)
    BY <1>1, <1>2 DEF CallerWarned, CalleeWarned, CalleeTold
  <1>11. Warned'
    BY <1>1, <1>2, <1>3, <1>4, <1>10 DEF Wired, Warned
  <1>12. NoneStranded'
    <2> SUFFICES ASSUME NEW x \in Workers, NEW y \in Workers, May(x, y), ~May(y, x), phase'[x] = "up"
                 PROVE  Spaced(toWorker[x], y) /\ (peerChannels[x][y] # 0 => ShutEach(toWorker[x], y))
      BY <1>1 DEF NoneStranded, May
    <2>1. CASE x = s
      BY <1>6, <2>1 DEF Spaced, ShutEach
    <2>2. CASE x # s
      BY <1>4, <2>2 DEF Wired, NoneStranded
    <2> QED BY <2>1, <2>2
  <1>13. Latest'
    BY <1>1, <1>3, <1>5 DEF Wired, Latest
  <1>14. Whole'
    <2> SUFFICES ASSUME NEW p \in SinglePairs, NEW r, r = registry'[p], r # 0, phase'[p[1]] = "up", phase'[p[2]] = "up"
                 PROVE  /\ callerEnd'[r] \in Alive /\ ~CallerWarned(r)'
                        /\ calleeEnd'[r] \in Alive /\ ~CalleeTold(r)'
      BY DEF Whole, CallerWarned, CalleeTold
    <2> QED BY <1>1, <1>3, <1>4, <1>10 DEF Wired, Whole
  <1>15. Backed'
    BY <1>1, <1>2 DEF Wired, Backed, May
  <1> QED BY <1>7, <1>8, <1>9, <1>11, <1>12, <1>13, <1>14, <1>15 DEF Wired

\* A channel made for a pair that has none: what changes besides the ports.
LEMMA NewPairFacts ==
  ASSUME BrokerTypeOK, Founded, NEW l \in lookups, GrantNewPair(l), UNCHANGED workerVars, UNCHANGED allowed,
         May(l.caller, l.callee), l.kind = "grant"
  PROVE  LET x == l.caller
             y == l.callee
             ch == used + 1
         IN /\ x \in Workers /\ y \in Workers /\ x # y /\ l.dev \in Devices /\ <<x, y>> \in Pairs
            /\ ch \in Channels /\ ch \notin Made /\ ch # 0 /\ Made' = Made \cup {ch} /\ Made \subseteq Channels
            /\ registry'[<<x, y>>] = ch /\ \A p \in Pairs : p # <<x, y>> => registry'[p] = registry[p]
            /\ \A k \in Channels : k # ch => /\ pair'[k] = pair[k] /\ grants'[k] = grants[k]
                                             /\ callerEnd'[k] = callerEnd[k] /\ calleeEnd'[k] = calleeEnd[k]
            /\ pair'[ch] = <<x, y>> /\ grants'[ch] = {l.dev}
            /\ callerEnd'[ch] = PostedPort(x) /\ calleeEnd'[ch] = PostedPort(y)
            /\ used' = ch /\ phase' = phase /\ peerChannels' = peerChannels /\ allowed' = allowed /\ Up' = Up
  <1> DEFINE x == l.caller
             y == l.callee
             ch == used + 1
  <1>1. x \in Workers /\ y \in Workers /\ l.dev \in Devices /\ <<x, y>> \in Pairs
    BY LookupFields DEF BrokerTypeOK
  <1>2. x # y
    BY DEF May
  <1>3. /\ ch <= MaxChannels /\ used' = ch
        /\ registry' = [registry EXCEPT ![<<x, y>>] = ch] /\ grants' = [grants EXCEPT ![ch] = {l.dev}]
        /\ pair' = [pair EXCEPT ![ch] = <<x, y>>]
        /\ callerEnd' = [callerEnd EXCEPT ![ch] = PostedPort(x)]
        /\ calleeEnd' = [calleeEnd EXCEPT ![ch] = PostedPort(y)]
    BY DEF GrantNewPair
  <1>4. ch \in Channels /\ ch \notin Made /\ ch # 0 /\ Made' = Made \cup {ch} /\ Made \subseteq Channels
    BY <1>3, BrokerAssumption DEF BrokerTypeOK, Made, Channels
  <1>5. phase' = phase /\ peerChannels' = peerChannels /\ allowed' = allowed /\ Up' = Up
    BY DEF workerVars, Up
  <1> HIDE DEF x, y, ch
  <1>6. registry'[<<x, y>>] = ch /\ \A p \in Pairs : p # <<x, y>> => registry'[p] = registry[p]
    BY <1>1, <1>3 DEF BrokerTypeOK
  <1>7. /\ \A k \in Channels : k # ch => /\ pair'[k] = pair[k] /\ grants'[k] = grants[k]
                                         /\ callerEnd'[k] = callerEnd[k] /\ calleeEnd'[k] = calleeEnd[k]
        /\ pair'[ch] = <<x, y>> /\ grants'[ch] = {l.dev}
        /\ callerEnd'[ch] = PostedPort(x) /\ calleeEnd'[ch] = PostedPort(y)
    BY <1>3, <1>4 DEF BrokerTypeOK
  <1> QED BY <1>1, <1>2, <1>3, <1>4, <1>5, <1>6, <1>7 DEF x, y, ch

\* What is posted for it: its two ports, one to each worker.
LEMMA NewPairPost ==
  ASSUME BrokerTypeOK, Founded, NEW l \in lookups, GrantNewPair(l), UNCHANGED workerVars, UNCHANGED allowed,
         May(l.caller, l.callee), l.kind = "grant"
  PROVE  \E out \in [Workers -> Seq(ToWorker)] :
           /\ \A u \in Workers : toWorker'[u] = IF u \in Up THEN toWorker[u] \o out[u] ELSE toWorker[u]
           /\ \A u \in Workers :
                /\ DOMAIN out[u] \subseteq {1}
                /\ u \in {l.caller, l.callee} => DOMAIN out[u] = {1}
                /\ u \notin {l.caller, l.callee} => DOMAIN out[u] = {}
           /\ out[l.caller][1] = Msg("grant", l.dev, l.callee, used + 1)
           /\ out[l.callee][1] = Msg("open", l.dev, l.caller, used + 1)
  <1> DEFINE x == l.caller
             y == l.callee
             g == Msg("grant", l.dev, l.callee, used + 1)
             o == Msg("open", l.dev, l.caller, used + 1)
             out == [Nothing EXCEPT ![y] = <<o>>, ![x] = <<g>>]
  <1>1. x \in Workers /\ y \in Workers /\ x # y /\ l.dev \in Devices /\ used + 1 \in Channels
    BY NewPairFacts
  <1>2. Post(out)
    BY DEF GrantNewPair
  <1>3. g \in ToWorker /\ o \in ToWorker
    BY <1>1, MsgTypes
  <1> HIDE DEF g, o, x, y
  <1>4. <<g>> \in Seq(ToWorker) /\ <<o>> \in Seq(ToWorker) /\ <<>> \in Seq(ToWorker)
    BY <1>3
  <1>5. /\ out \in [Workers -> Seq(ToWorker)] /\ out[x] = <<g>> /\ out[y] = <<o>>
        /\ \A u \in Workers : u \notin {x, y} => out[u] = <<>>
    BY <1>1, <1>4 DEF Nothing
  <1> HIDE DEF out
  <1>6. DOMAIN <<g>> = {1} /\ DOMAIN <<o>> = {1} /\ DOMAIN <<>> = {} /\ <<g>>[1] = g /\ <<o>>[1] = o
    OBVIOUS
  <1>7. \A u \in Workers : toWorker'[u] = IF u \in Up THEN toWorker[u] \o out[u] ELSE toWorker[u]
    BY <1>2, <1>5 DEF Post
  <1>8. \A u \in Workers : /\ DOMAIN out[u] \subseteq {1}
                           /\ u \in {x, y} => DOMAIN out[u] = {1}
                           /\ u \notin {x, y} => DOMAIN out[u] = {}
    <2> TAKE u \in Workers
    <2>1. CASE u = x
      BY <1>5, <1>6, <2>1
    <2>2. CASE u = y
      BY <1>5, <1>6, <2>2
    <2>3. CASE u \notin {x, y}
      BY <1>5, <1>6, <2>3
    <2> QED BY <2>1, <2>2, <2>3
  <1>9. out[x][1] = g /\ out[y][1] = o
    BY <1>5, <1>6
  <1> QED BY <1>5, <1>7, <1>8, <1>9 DEF x, y, g, o

\* A step that makes a channel from x to y, for device d, and posts its ports.
Opened(x, y, d, out) ==
  LET ch == used + 1 IN
    /\ x \in Workers /\ y \in Workers /\ x # y /\ d \in Devices /\ <<x, y>> \in Pairs /\ May(x, y)
    /\ phase[x] # "unborn" /\ phase[y] # "unborn"
    /\ ch \in Channels /\ ch \notin Made /\ ch # 0 /\ Made' = Made \cup {ch} /\ Made \subseteq Channels
    /\ registry[<<x, y>>] = 0 /\ registry'[<<x, y>>] = ch
    /\ \A p \in Pairs : p # <<x, y>> => registry'[p] = registry[p]
    /\ \A k \in Channels : k # ch => /\ pair'[k] = pair[k] /\ grants'[k] = grants[k]
                                     /\ callerEnd'[k] = callerEnd[k] /\ calleeEnd'[k] = calleeEnd[k]
    /\ pair'[ch] = <<x, y>> /\ grants'[ch] = {d}
    /\ callerEnd'[ch] = PostedPort(x) /\ calleeEnd'[ch] = PostedPort(y)
    /\ used' = ch /\ phase' = phase /\ peerChannels' = peerChannels /\ allowed' = allowed /\ Up' = Up
    /\ out \in [Workers -> Seq(ToWorker)]
    /\ \A u \in Workers : toWorker'[u] = IF u \in Up THEN toWorker[u] \o out[u] ELSE toWorker[u]
    /\ \A u \in Workers : /\ DOMAIN out[u] \subseteq {1}
                          /\ u \in {x, y} => DOMAIN out[u] = {1}
                          /\ u \notin {x, y} => DOMAIN out[u] = {}
    /\ out[x][1] = Msg("grant", d, y, ch) /\ out[y][1] = Msg("open", d, x, ch)

\* grant on a pair without a channel is such a step.
LEMMA NewPairOpens ==
  ASSUME BrokerTypeOK, Founded, NEW l \in lookups, GrantNewPair(l), UNCHANGED workerVars, UNCHANGED allowed,
         May(l.caller, l.callee), l.kind = "grant", phase[l.caller] # "unborn", phase[l.callee] # "unborn",
         registry[<<l.caller, l.callee>>] = 0
  PROVE  \E out : Opened(l.caller, l.callee, l.dev, out)
  BY NewPairFacts, NewPairPost DEF Opened

\* What it adds to a worker's port: at most one message, the grant or the open.
LEMMA OpenedOut ==
  ASSUME NEW x, NEW y, NEW d, NEW out, Opened(x, y, d, out), NEW u \in Workers, NEW i \in DOMAIN out[u]
  PROVE  LET m == out[u][i] IN
           /\ i = 1
           /\ \/ /\ u = x /\ m.kind = "grant" /\ m.peer = y /\ m.port = used + 1 /\ m.dev = d
              \/ /\ u = y /\ m.kind = "open" /\ m.peer = x /\ m.port = used + 1 /\ m.dev = d
  <1>1. i = 1 /\ u \in {x, y}
    BY DEF Opened
  <1>2. out[x][1] = Msg("grant", d, y, used + 1) /\ out[y][1] = Msg("open", d, x, used + 1)
    BY DEF Opened
  <1> QED BY <1>1, <1>2 DEF Msg

\* How it changes what a port holds.
LEMMA OpenedEffect ==
  ASSUME BrokerTypeOK, NEW x, NEW y, NEW d, NEW out, Opened(x, y, d, out),
         NEW u \in Workers, NEW v \in Workers, NEW kind, NEW k
  PROVE  LET q == toWorker[u]
             r == toWorker'[u]
             here == u \in Up /\ u = y /\ v = x
         IN /\ ShutIn(r, v) <=> ShutIn(q, v)
            /\ OpenIn(r, v) <=> OpenIn(q, v) \/ here
            /\ ShutFirst(q, v) => ShutFirst(r, v)
            /\ Carried(q, kind, k) => Carried(r, kind, k)
            /\ ShutAfter(r, kind, k, v) <=> ShutAfter(q, kind, k, v)
            /\ OpenAfter(r, k, v) <=> OpenAfter(q, k, v) \/ (Carried(q, "open", k) /\ here)
            /\ ShutNext(q, k, v) => ShutNext(r, k, v)
  <1> DEFINE q == toWorker[u]
             o == out[u]
             r == toWorker'[u]
  <1>1. q \in Seq(ToWorker) /\ o \in Seq(ToWorker)
    BY DEF BrokerTypeOK, Opened
  <1>2. CASE u \notin Up
    <2>1. r = q
      BY <1>2 DEF Opened
    <2> HIDE DEF q, r
    <2> QED BY <1>2, <2>1 DEF q, r
  <1>3. CASE u \in Up
    <2>1. r = q \o o
      BY <1>3 DEF Opened
    <2>2. \A i \in DOMAIN o : /\ i = 1
                              /\ \/ u = x /\ o[i].kind = "grant"
                                 \/ u = y /\ o[i].kind = "open" /\ o[i].peer = x
      BY OpenedOut
    <2>3. /\ x # y /\ (u = y => 1 \in DOMAIN o)
      BY DEF Opened
    <2> HIDE DEF q, o, r
    <2>4. /\ ~ShutIn(o, v) /\ ~ShutAfter(o, kind, k, v) /\ ~OpenAfter(o, k, v)
      <3>1. ~ShutIn(o, v) /\ ~ShutAfter(o, kind, k, v)
        BY <2>2 DEF ShutIn, ShutAfter, Shuts
      <3>2. ~(1 < 1)
        OBVIOUS
      <3>3. ~OpenAfter(o, k, v)
        BY <2>2, <3>2 DEF OpenAfter
      <3> QED BY <3>1, <3>3
    <2>5. OpenIn(o, v) <=> u = y /\ v = x
      BY <2>2, <2>3 DEF OpenIn, Opens
    <2>6. /\ ShutIn(r, v) <=> ShutIn(q, v)
          /\ OpenIn(r, v) <=> OpenIn(q, v) \/ (u = y /\ v = x)
          /\ ShutFirst(q, v) => ShutFirst(r, v)
      BY <1>1, <2>1, <2>4, <2>5, JoinHas
    <2>7. /\ Carried(q, kind, k) => Carried(r, kind, k)
          /\ ShutAfter(r, kind, k, v) <=> ShutAfter(q, kind, k, v)
          /\ OpenAfter(r, k, v) <=> OpenAfter(q, k, v) \/ (Carried(q, "open", k) /\ u = y /\ v = x)
          /\ ShutNext(q, k, v) => ShutNext(r, k, v)
      <3>1. /\ Carried(r, kind, k) <=> Carried(q, kind, k) \/ Carried(o, kind, k)
            /\ ShutAfter(r, kind, k, v) <=>
                 ShutAfter(q, kind, k, v) \/ ShutAfter(o, kind, k, v) \/ (Carried(q, kind, k) /\ ShutIn(o, v))
            /\ OpenAfter(r, k, v) <=>
                 OpenAfter(q, k, v) \/ OpenAfter(o, k, v) \/ (Carried(q, "open", k) /\ OpenIn(o, v))
            /\ ShutNext(q, k, v) => ShutNext(r, k, v)
        BY <1>1, <2>1, JoinAfter
      <3> QED BY <2>4, <2>5, <3>1
    <2> QED BY <1>3, <2>6, <2>7 DEF q, r
  <1> QED BY <1>2, <1>3

\* Ports in messages are of channels made before; the new channel's are in the new ones.
LEMMA OpenedPorts ==
  ASSUME BrokerTypeOK, BrokerTypeOK', NEW x, NEW y, NEW d, NEW out, Opened(x, y, d, out), Founded, Ports
  PROVE  Founded' /\ Ports' /\ \A u \in Workers : /\ ~Carried(toWorker[u], "grant", used + 1)
                                                  /\ ~Carried(toWorker[u], "open", used + 1)
  <1>0. PICK ch : ch = used + 1
    OBVIOUS
  <1>1. /\ x \in Workers /\ y \in Workers /\ x # y /\ May(x, y)
        /\ ch \in Channels /\ ch \notin Made /\ ch # 0 /\ Made' = Made \cup {ch} /\ Made \subseteq Channels
        /\ \A k \in Made : /\ pair'[k] = pair[k] /\ grants'[k] = grants[k]
                           /\ callerEnd'[k] = callerEnd[k] /\ calleeEnd'[k] = calleeEnd[k]
        /\ pair'[ch] = <<x, y>> /\ grants'[ch] = {d}
        /\ callerEnd'[ch] = PostedPort(x) /\ calleeEnd'[ch] = PostedPort(y)
        /\ used' = ch /\ phase' = phase /\ Up' = Up
    BY <1>0 DEF Opened
  <1>2. \A k \in Made : CallerOf(k)' = CallerOf(k) /\ CalleeOf(k)' = CalleeOf(k)
    BY <1>1 DEF CallerOf, CalleeOf
  <1>3. CallerOf(ch)' = x /\ CalleeOf(ch)' = y
    BY <1>1 DEF CallerOf, CalleeOf
  <1>4. Founded'
    <2>1. ASSUME NEW k \in Channels, k > used'
          PROVE  callerEnd'[k] = "none" /\ calleeEnd'[k] = "none" /\ pair'[k] = <<None, None>>
      <3>1. k # ch /\ k > used
        BY <1>0, <1>1, <2>1 DEF Channels, BrokerTypeOK
      <3> QED BY <1>0, <3>1 DEF Founded, Opened
    <2>2. ASSUME NEW k \in Made'
          PROVE  /\ CallerOf(k)' \in Workers /\ CalleeOf(k)' \in Workers /\ May(CallerOf(k)', CalleeOf(k)')
                 /\ phase'[CallerOf(k)'] # "unborn" /\ phase'[CalleeOf(k)'] # "unborn"
      <3>1. CASE k \in Made
        BY <1>1, <1>2, <3>1, MadeFacts
      <3>2. CASE k = ch
        BY <1>1, <1>3, <3>2 DEF Opened
      <3> QED BY <1>1, <3>1, <3>2
    <2>3. ASSUME NEW p \in Pairs, registry'[p] # 0
          PROVE  registry'[p] \in Made' /\ pair'[registry'[p]] = p
      <3>1. CASE p = <<x, y>>
        BY <1>0, <1>1, <3>1 DEF Opened
      <3>2. CASE p # <<x, y>>
        <4>1. registry'[p] = registry[p]
          BY <3>2 DEF Opened
        <4> QED BY <1>1, <2>3, <4>1, MadeFacts
      <3> QED BY <3>1, <3>2
    <2> QED BY <2>1, <2>2, <2>3 DEF Founded, May
  <1>5. ASSUME NEW u \in Workers
        PROVE  /\ Carrying(u, toWorker[u])' /\ (u \notin Up' => toWorker'[u] = <<>>)
               /\ ~Carried(toWorker[u], "grant", ch) /\ ~Carried(toWorker[u], "open", ch)
    <2> DEFINE q == toWorker[u]
               o == out[u]
               r == toWorker'[u]
    <2>1. /\ q \in Seq(ToWorker) /\ o \in Seq(ToWorker)
          /\ r = IF u \in Up THEN q \o o ELSE q
          /\ u \notin Up => q = <<>>
      <3>1. q \in Seq(ToWorker) /\ (u \notin Up => q = <<>>)
        BY DEF BrokerTypeOK, Ports
      <3>2. o \in Seq(ToWorker) /\ r = IF u \in Up THEN q \o o ELSE q
        BY DEF Opened
      <3> QED BY <3>1, <3>2
    <2>2. \A i \in DOMAIN o :
            /\ i = 1
            /\ \/ /\ u = x /\ o[i].kind = "grant" /\ o[i].peer = y /\ o[i].port = ch /\ o[i].dev = d
               \/ /\ u = y /\ o[i].kind = "open" /\ o[i].peer = x /\ o[i].port = ch /\ o[i].dev = d
      BY <1>0, OpenedOut
    <2>3. \A i \in DOMAIN q :
            /\ q[i].kind = "grant" /\ q[i].port # 0 =>
                 q[i].port \in Made /\ pair[q[i].port] = <<u, q[i].peer>> /\ callerEnd[q[i].port] = "transit"
            /\ q[i].kind = "open" =>
                 /\ q[i].port \in Made /\ pair[q[i].port] = <<q[i].peer, u>> /\ calleeEnd[q[i].port] = "transit"
                 /\ q[i].dev \in grants[q[i].port]
            /\ q[i].kind = "allow" => May(q[i].peer, u)
      BY DEF Ports, Carrying
    <2>4. \A i, j \in DOMAIN q : q[i].kind = q[j].kind /\ q[i].kind \in {"grant", "open"}
                                   /\ q[i].port = q[j].port /\ q[i].port # 0 => i = j
      BY DEF Ports, Carrying
    <2> HIDE DEF q, o
    <2>5. \A i \in DOMAIN r : \/ i \in DOMAIN q /\ r[i] = q[i]
                              \/ u \in Up /\ i - Len(q) \in DOMAIN o /\ r[i] = o[i - Len(q)] /\ i \in Nat /\ Len(q) \in Nat
      <3> HIDE DEF r
      <3>1. CASE u \in Up
        BY <2>1, <3>1, JoinFacts
      <3>2. CASE u \notin Up
        BY <2>1, <3>2
      <3> QED BY <3>1, <3>2
    <2>6. \A i \in DOMAIN r :
            /\ r[i].kind = "grant" /\ r[i].port # 0 =>
                 r[i].port \in Made' /\ pair'[r[i].port] = <<u, r[i].peer>> /\ callerEnd'[r[i].port] = "transit"
            /\ r[i].kind = "open" =>
                 /\ r[i].port \in Made' /\ pair'[r[i].port] = <<r[i].peer, u>> /\ calleeEnd'[r[i].port] = "transit"
                 /\ r[i].dev \in grants'[r[i].port]
            /\ r[i].kind = "allow" => May(r[i].peer, u)
      <3> HIDE DEF r
      <3> TAKE i \in DOMAIN r
      <3>1. CASE i \in DOMAIN q /\ r[i] = q[i]
        BY <1>1, <2>3, <3>1
      <3>2. CASE u \in Up /\ i - Len(q) \in DOMAIN o /\ r[i] = o[i - Len(q)]
        <4>1. PostedPort(u) = "transit"
          BY <3>2 DEF PostedPort
        <4>2. CASE u = x /\ r[i].kind = "grant" /\ r[i].peer = y /\ r[i].port = ch
          BY <1>1, <4>1, <4>2
        <4>3. CASE u = y /\ r[i].kind = "open" /\ r[i].peer = x /\ r[i].port = ch /\ r[i].dev = d
          BY <1>1, <4>1, <4>3
        <4> QED BY <2>2, <3>2, <4>2, <4>3
      <3> QED BY <2>5, <3>1, <3>2
    <2>7. \A i, j \in DOMAIN r : r[i].kind = r[j].kind /\ r[i].kind \in {"grant", "open"}
                                   /\ r[i].port = r[j].port /\ r[i].port # 0 => i = j
      <3> HIDE DEF r
      <3> SUFFICES ASSUME NEW i \in DOMAIN r, NEW j \in DOMAIN r, r[i].kind = r[j].kind,
                          r[i].kind \in {"grant", "open"}, r[i].port = r[j].port, r[i].port # 0
                   PROVE  i = j
        OBVIOUS
      <3> DEFINE Old(a) == a \in DOMAIN q /\ r[a] = q[a] /\ r[a].port # ch
                 New(a) == a \in Nat /\ Len(q) \in Nat /\ a - Len(q) = 1 /\ r[a].port = ch
      <3>1. Old(i) \/ New(i)
        BY <1>1, <2>2, <2>3, <2>5
      <3>2. Old(j) \/ New(j)
        BY <1>1, <2>2, <2>3, <2>5
      <3>3. CASE Old(i) /\ Old(j)
        BY <2>4, <3>3
      <3>4. CASE New(i) /\ New(j)
        <4>1. i \in Nat /\ j \in Nat /\ Len(q) \in Nat /\ i - Len(q) = 1 /\ j - Len(q) = 1
          BY <3>4
        <4> QED BY ONLY <4>1
      <3> QED BY <3>1, <3>2, <3>3, <3>4
    <2>8. Carrying(u, toWorker[u])'
      BY <2>6, <2>7 DEF Carrying
    <2>9. ~Carried(q, "grant", ch) /\ ~Carried(q, "open", ch)
      BY <1>1, <2>3 DEF Carried, Carries
    <2> QED BY <1>1, <2>1, <2>8, <2>9 DEF q
  <1>6. ASSUME NEW k \in Made'
        PROVE  /\ callerEnd'[k] \in Alive => CallerOf(k)' \in Up'
               /\ calleeEnd'[k] \in Alive => CalleeOf(k)' \in Up'
               /\ callerEnd'[k] = "transit" => Carried(toWorker'[CallerOf(k)'], "grant", k)
               /\ calleeEnd'[k] = "transit" => Carried(toWorker'[CalleeOf(k)'], "open", k)
    <2>1. CASE k \in Made
      <3>1. /\ callerEnd[k] \in Alive => CallerOf(k) \in Up
            /\ calleeEnd[k] \in Alive => CalleeOf(k) \in Up
            /\ callerEnd[k] = "transit" => Carried(toWorker[CallerOf(k)], "grant", k)
            /\ calleeEnd[k] = "transit" => Carried(toWorker[CalleeOf(k)], "open", k)
        BY <2>1 DEF Ports
      <3>2. CallerOf(k) \in Workers /\ CalleeOf(k) \in Workers
        BY <2>1, MadeFacts
      <3>3. /\ Carried(toWorker[CallerOf(k)], "grant", k) => Carried(toWorker'[CallerOf(k)], "grant", k)
            /\ Carried(toWorker[CalleeOf(k)], "open", k) => Carried(toWorker'[CalleeOf(k)], "open", k)
        BY <3>2, OpenedEffect
      <3> QED BY <1>1, <1>2, <2>1, <3>1, <3>3
    <2>2. CASE k = ch
      <3>1. \A u \in Workers : PostedPort(u) \in Alive => u \in Up
        BY DEF PostedPort, Alive
      <3>2. ASSUME NEW u \in Up, NEW kind, Carried(out[u], kind, ch) PROVE Carried(toWorker'[u], kind, ch)
        <4>1. u \in Workers
          BY DEF Up
        <4>2. toWorker[u] \in Seq(ToWorker) /\ out[u] \in Seq(ToWorker) /\ toWorker'[u] = toWorker[u] \o out[u]
          BY <3>2, <4>1 DEF BrokerTypeOK, Opened
        <4>3. PICK i \in DOMAIN out[u] : Carries(out[u][i], kind, ch)
          BY <3>2 DEF Carried
        <4>4. i + Len(toWorker[u]) \in DOMAIN toWorker'[u] /\ toWorker'[u][i + Len(toWorker[u])] = out[u][i]
          <5> DEFINE q == toWorker[u]
                     o == out[u]
                     r == toWorker'[u]
          <5>1. q \in Seq(ToWorker) /\ o \in Seq(ToWorker) /\ r = q \o o /\ i \in DOMAIN o
            BY <4>2
          <5> HIDE DEF q, o, r
          <5>2. i + Len(q) \in DOMAIN r /\ r[i + Len(q)] = o[i]
            BY <5>1, JoinFacts
          <5> QED BY <5>2 DEF q, o, r
        <4> QED BY <4>3, <4>4 DEF Carried
      <3>3. Carried(out[x], "grant", ch) /\ Carried(out[y], "open", ch)
        <4>1. 1 \in DOMAIN out[x] /\ 1 \in DOMAIN out[y]
          BY <1>1 DEF Opened
        <4>2. out[x][1].kind = "grant" /\ out[x][1].port = ch /\ out[y][1].kind = "open" /\ out[y][1].port = ch
          BY <1>0, <1>1, <4>1, OpenedOut
        <4> QED BY <4>1, <4>2 DEF Carried, Carries
      <3>4. "transit" \in Alive
        BY DEF Alive
      <3> QED BY <1>1, <1>3, <2>2, <3>1, <3>2, <3>3, <3>4
    <2> QED BY <1>1, <2>1, <2>2
  <1>7. Ports'
    BY <1>5, <1>6 DEF Ports
  <1> QED BY <1>0, <1>4, <1>5, <1>7

\* A channel is made: the pair had none, so what it had before is to be closed.
LEMMA OpenedKeeps ==
  ASSUME BrokerTypeOK, BrokerTypeOK', NEW x, NEW y, NEW d, NEW out, Opened(x, y, d, out), Wired
  PROVE  Wired'
  <1>0. PICK ch : ch = used + 1
    OBVIOUS
  <1>1. /\ x \in Workers /\ y \in Workers /\ x # y /\ May(x, y) /\ <<x, y>> \in Pairs
        /\ ch \in Channels /\ ch \notin Made /\ ch # 0 /\ Made' = Made \cup {ch} /\ Made \subseteq Channels
        /\ \A k \in Made : /\ pair'[k] = pair[k] /\ grants'[k] = grants[k]
                           /\ callerEnd'[k] = callerEnd[k] /\ calleeEnd'[k] = calleeEnd[k]
        /\ pair'[ch] = <<x, y>> /\ grants'[ch] = {d}
        /\ callerEnd'[ch] = PostedPort(x) /\ calleeEnd'[ch] = PostedPort(y)
        /\ phase' = phase /\ Up' = Up /\ peerChannels' = peerChannels /\ allowed' = allowed
        /\ registry[<<x, y>>] = 0 /\ registry'[<<x, y>>] = ch
        /\ \A p \in Pairs : p # <<x, y>> => registry'[p] = registry[p]
    BY <1>0 DEF Opened
  <1>2. \A k \in Made : CallerOf(k)' = CallerOf(k) /\ CalleeOf(k)' = CalleeOf(k)
    BY <1>1 DEF CallerOf, CalleeOf
  <1>3. CallerOf(ch)' = x /\ CalleeOf(ch)' = y
    BY <1>1 DEF CallerOf, CalleeOf
  <1>4. /\ Founded' /\ Ports'
        /\ \A u \in Workers : ~Carried(toWorker[u], "grant", ch) /\ ~Carried(toWorker[u], "open", ch)
    BY <1>0, OpenedPorts DEF Wired
  <1>5. /\ \A k \in Made : /\ CallerOf(k) \in Workers /\ CalleeOf(k) \in Workers /\ pair[k] \in Pairs
                           /\ pair[k] = <<CallerOf(k), CalleeOf(k)>> /\ May(CallerOf(k), CalleeOf(k))
        /\ \A p \in Pairs : registry[p] # 0 =>
              /\ registry[p] \in Made /\ CallerOf(registry[p]) = p[1] /\ CalleeOf(registry[p]) = p[2]
        /\ \A p \in Pairs : p = <<p[1], p[2]>> /\ p[1] \in Workers /\ p[2] \in Workers
        /\ Single \subseteq Made /\ SinglePairs \subseteq Pairs
    BY MadeFacts DEF Wired, Single, SinglePairs, Pairs
  <1>14. \A k \in Single' : (k \in Made /\ k \in Single) \/ (k = ch /\ ~May(y, x))
    <2>1. \A k \in Single' : k \in Made' /\ ~May(CalleeOf(k)', CallerOf(k)')
      BY DEF Single, May
    <2> QED BY <1>1, <1>2, <1>3, <2>1 DEF Single
  <1>6. \A u \in Workers : /\ PostedPort(u) # "open"
                           /\ u \in Up => PostedPort(u) = "transit"
    BY DEF PostedPort
  <1>7. Tabled'
    <2>1. ASSUME NEW w \in Workers, NEW v \in Workers, peerChannels[w][v] # 0
          PROVE  LET c == peerChannels[w][v] IN
                   c \in Made' /\ \/ pair'[c] = <<w, v>> /\ callerEnd'[c] = "open"
                                  \/ pair'[c] = <<v, w>> /\ calleeEnd'[c] = "open"
      <3>1. LET c == peerChannels[w][v] IN
              c \in Made /\ \/ pair[c] = <<w, v>> /\ callerEnd[c] = "open"
                            \/ pair[c] = <<v, w>> /\ calleeEnd[c] = "open"
        BY <2>1 DEF Wired, Tabled
      <3> QED BY <1>1, <3>1
    <2>2. ASSUME NEW k \in Single', callerEnd'[k] = "open"
          PROVE  peerChannels[CallerOf(k)'][CalleeOf(k)'] = k
      <3>1. k \in Made /\ k \in Single
        BY <1>1, <1>6, <1>14, <2>2
      <3> QED BY <1>1, <1>2, <2>2, <3>1 DEF Wired, Tabled
    <2> QED BY <1>1, <2>1, <2>2 DEF Tabled
  <1>8. ASSUME NEW k \in Made
        PROVE  /\ CallerWarned(k)' <=> CallerWarned(k)
               /\ CalleeWarned(k) => CalleeWarned(k)'
               /\ CalleeTold(k)' <=> CalleeTold(k)
    <2>1. CallerOf(k) \in Workers /\ CalleeOf(k) \in Workers
      BY <1>5
    <2>2. LET q == toWorker[CallerOf(k)]
              r == toWorker'[CallerOf(k)]
          IN /\ ShutIn(r, CalleeOf(k)) <=> ShutIn(q, CalleeOf(k))
             /\ ShutAfter(r, "grant", k, CalleeOf(k)) <=> ShutAfter(q, "grant", k, CalleeOf(k))
      BY <2>1, OpenedEffect
    <2>3. LET q == toWorker[CalleeOf(k)]
              r == toWorker'[CalleeOf(k)]
          IN /\ ShutIn(r, CallerOf(k)) <=> ShutIn(q, CallerOf(k))
             /\ ShutAfter(r, "open", k, CallerOf(k)) <=> ShutAfter(q, "open", k, CallerOf(k))
             /\ ShutFirst(q, CallerOf(k)) => ShutFirst(r, CallerOf(k))
             /\ ShutNext(q, k, CallerOf(k)) => ShutNext(r, k, CallerOf(k))
      BY <2>1, OpenedEffect
    <2>4. CallerWarned(k)' <=> CallerWarned(k)
      BY <1>1, <1>2, <1>8, <2>2 DEF CallerWarned
    <2>5. CalleeWarned(k) => CalleeWarned(k)'
      BY <1>1, <1>2, <1>8, <2>3 DEF CalleeWarned
    <2>6. CalleeTold(k)' <=> CalleeTold(k)
      BY <1>1, <1>2, <1>8, <2>3 DEF CalleeTold
    <2> QED BY <2>4, <2>5, <2>6
  <1>9. Warned'
    <2> SUFFICES ASSUME NEW k \in Single', callerEnd'[k] \in Alive
                 PROVE  \/ registry'[pair'[k]] = k
                        \/ CallerWarned(k)'
                        \/ phase'[CallerOf(k)'] # "up" /\ (calleeEnd'[k] \in Alive => CalleeWarned(k)')
      BY DEF Warned
    <2>1. CASE k = ch
      BY <1>1, <2>1
    <2>2. CASE k \in Made /\ k \in Single
      <3>1. \/ registry[pair[k]] = k
            \/ CallerWarned(k)
            \/ phase[CallerOf(k)] # "up" /\ (calleeEnd[k] \in Alive => CalleeWarned(k))
        BY <1>1, <2>2 DEF Wired, Warned
      <3>2. CASE registry[pair[k]] = k
        <4>1. k # 0 /\ pair[k] # <<x, y>> /\ pair[k] \in Pairs
          BY <1>1, <1>5, <2>2, <3>2 DEF Made
        <4> QED BY <1>1, <2>2, <3>2, <4>1
      <3>3. CASE CallerWarned(k)
        BY <1>8, <2>2, <3>3
      <3>4. CASE phase[CallerOf(k)] # "up" /\ (calleeEnd[k] \in Alive => CalleeWarned(k))
        BY <1>1, <1>2, <1>8, <2>2, <3>4
      <3> QED BY <3>1, <3>2, <3>3, <3>4
    <2> QED BY <1>14, <2>1, <2>2
  <1>10. NoneStranded'
    <2> SUFFICES ASSUME NEW w \in Workers, NEW v \in Workers, May(w, v), ~May(v, w), phase[w] = "up"
                 PROVE  Spaced(toWorker'[w], v) /\ (peerChannels[w][v] # 0 => ShutEach(toWorker'[w], v))
      BY <1>1 DEF NoneStranded, May
    <2> DEFINE q == toWorker[w]
               o == out[w]
               r == toWorker'[w]
    <2>1. Spaced(q, v) /\ (peerChannels[w][v] # 0 => ShutEach(q, v))
      BY DEF Wired, NoneStranded
    <2>2. w \in Up
      BY DEF Up
    <2>3. q \in Seq(ToWorker) /\ o \in Seq(ToWorker) /\ r = q \o o
      BY <2>2 DEF BrokerTypeOK, Opened
    <2>4. CASE w = x /\ v = y
      <3>1. \A k \in DOMAIN q : Grants(q[k], v) =>
              /\ q[k].port \in Made /\ pair[q[k].port] = <<w, v>> /\ callerEnd[q[k].port] = "transit"
              /\ q[k].kind = "grant" /\ q[k].port # 0
        BY DEF Wired, Ports, Carrying, Grants
      <3>2. \A i, j \in DOMAIN q : q[i].kind = q[j].kind /\ q[i].kind \in {"grant", "open"}
                                   /\ q[i].port = q[j].port /\ q[i].port # 0 => i = j
        BY DEF Wired, Ports, Carrying
      <3>3. ASSUME NEW k \in Made, pair[k] = <<x, y>>, callerEnd[k] \in Alive PROVE CallerWarned(k)
        <4>1. CallerOf(k) = x /\ k # 0 /\ k \in Single
          BY <2>4, <3>3 DEF CallerOf, CalleeOf, Made, Single
        <4> QED BY <1>1, <2>4, <3>3, <4>1 DEF Wired, Warned
      <3>4. ASSUME NEW k \in DOMAIN q, Grants(q[k], v) PROVE \E j \in DOMAIN q : k < j /\ Shuts(q[j], v)
        <4>1. PICK p \in Made : /\ q[k].port = p /\ pair[p] = <<x, y>> /\ callerEnd[p] = "transit"
                                /\ q[k].kind = "grant" /\ p # 0
          BY <2>4, <3>1, <3>4
        <4>2. CallerWarned(p)
          BY <3>3, <4>1 DEF Alive
        <4>3. CallerOf(p) = w /\ CalleeOf(p) = v
          BY <2>4, <4>1 DEF CallerOf, CalleeOf
        <4>4. ShutAfter(q, "grant", p, v)
          BY <4>1, <4>2, <4>3 DEF CallerWarned
        <4>5. PICK i \in DOMAIN q, j \in DOMAIN q : i < j /\ Carries(q[i], "grant", p) /\ Shuts(q[j], v)
          BY <4>4 DEF ShutAfter
        <4>6. i = k
          BY <3>2, <4>1, <4>5 DEF Carries
        <4> QED BY <4>5, <4>6
      <3>5. ASSUME peerChannels[w][v] # 0 PROVE ShutIn(q, v)
        <4>1. PICK c \in Made : \/ pair[c] = <<x, y>> /\ callerEnd[c] = "open"
                                \/ pair[c] = <<y, x>> /\ calleeEnd[c] = "open"
          BY <2>4, <3>5 DEF Wired, Tabled
        <4>2. pair[c] # <<y, x>>
          <5>1. pair[c] = <<y, x>> => May(y, x)
            BY <1>5, <4>1 DEF CallerOf, CalleeOf
          <5> QED BY <2>4, <5>1
        <4>3. CallerWarned(c)
          BY <3>3, <4>1, <4>2 DEF Alive
        <4>4. CallerOf(c) = w /\ CalleeOf(c) = v /\ callerEnd[c] = "open"
          BY <2>4, <4>1, <4>2 DEF CallerOf, CalleeOf
        <4> QED BY <4>3, <4>4 DEF CallerWarned
      <3>6. DOMAIN o = {1}
        BY <2>4 DEF Opened
      <3> HIDE DEF q, o, r
      <3>7. /\ Spaced(q, v) => Spaced(r, v)
            /\ ShutEach(q, v) /\ ShutIn(q, v) => ShutEach(r, v)
        BY <2>3, <3>4, <3>6, JoinSpaced
      <3> QED BY <2>1, <3>5, <3>7 DEF r
    <2>5. CASE ~(w = x /\ v = y)
      <3>1. \A i \in DOMAIN o : ~Grants(o[i], v)
        <4> TAKE i \in DOMAIN o
        <4>1. \/ w = x /\ o[i].kind = "grant" /\ o[i].peer = y
              \/ w = y /\ o[i].kind = "open"
          BY OpenedOut
        <4> QED BY <2>5, <4>1 DEF Grants
      <3> HIDE DEF q, o, r
      <3>2. /\ Spaced(q, v) => Spaced(r, v)
            /\ ShutEach(q, v) => ShutEach(r, v)
        BY <2>3, <3>1, JoinSpaced
      <3> QED BY <2>1, <3>2 DEF r
    <2> QED BY <2>4, <2>5
  <1>11. Latest'
    <2> SUFFICES ASSUME NEW p \in SinglePairs, registry'[p] # 0, p[2] \in Up
                 PROVE  LET r == registry'[p] IN
                          \/ calleeEnd'[r] = "transit" /\ ~OpenAfter(toWorker'[p[2]], r, p[1])
                          \/ calleeEnd'[r] = "open" /\ peerChannels[p[2]][p[1]] = r /\ ~OpenIn(toWorker'[p[2]], p[1])
                          \/ calleeEnd'[r] = "closed" /\ peerChannels[p[2]][p[1]] = 0 /\ ~OpenIn(toWorker'[p[2]], p[1])
      BY <1>1 DEF Latest
    <2>1. CASE p = <<x, y>>
      <3>1. p[1] = x /\ p[2] = y /\ registry'[p] = ch /\ calleeEnd'[ch] = "transit"
        BY <1>1, <1>6, <2>1
      <3>2. ~Carried(toWorker[y], "open", ch)
        BY <1>1, <1>4
      <3>3. ~OpenAfter(toWorker[y], ch, x)
        BY <3>2 DEF OpenAfter, Carried
      <3>4. ~OpenAfter(toWorker'[y], ch, x)
        BY <1>1, <3>2, <3>3, OpenedEffect
      <3> QED BY <3>1, <3>4
    <2>2. CASE p # <<x, y>>
      <3>1. registry'[p] = registry[p] /\ registry[p] \in Made /\ p[1] \in Workers /\ p[2] \in Workers
        BY <1>1, <1>5, <2>2
      <3>2. ~(p[2] = y /\ p[1] = x)
        BY <1>5, <2>2
      <3>3. /\ OpenIn(toWorker'[p[2]], p[1]) <=> OpenIn(toWorker[p[2]], p[1])
            /\ OpenAfter(toWorker'[p[2]], registry[p], p[1]) <=> OpenAfter(toWorker[p[2]], registry[p], p[1])
        BY <3>1, <3>2, OpenedEffect
      <3>4. calleeEnd'[registry[p]] = calleeEnd[registry[p]]
        BY <1>1, <3>1
      <3> QED BY <3>1, <3>3, <3>4 DEF Wired, Latest
    <2> QED BY <2>1, <2>2
  <1>12. Whole'
    <2> SUFFICES ASSUME NEW p \in SinglePairs, NEW r, r = registry'[p], r # 0, phase'[p[1]] = "up", phase'[p[2]] = "up"
                 PROVE  /\ callerEnd'[r] \in Alive /\ ~CallerWarned(r)'
                        /\ calleeEnd'[r] \in Alive /\ ~CalleeTold(r)'
      BY DEF Whole, CallerWarned, CalleeTold
    <2>1. CASE p = <<x, y>>
      <3>1. r = ch /\ x \in Up /\ y \in Up
        BY <1>1, <2>1 DEF Up
      <3>2. callerEnd'[ch] = "transit" /\ calleeEnd'[ch] = "transit"
        BY <1>1, <1>6, <3>1
      <3>3. ~Carried(toWorker[x], "grant", ch) /\ ~Carried(toWorker[y], "open", ch)
        BY <1>1, <1>4
      <3>4. ~ShutAfter(toWorker[x], "grant", ch, y) /\ ~ShutAfter(toWorker[y], "open", ch, x)
        BY <3>3 DEF ShutAfter, Carried
      <3>5. ~ShutAfter(toWorker'[x], "grant", ch, y)
        BY <1>1, <3>4, OpenedEffect
      <3>6. ~ShutAfter(toWorker'[y], "open", ch, x)
        BY <1>1, <3>4, OpenedEffect
      <3> QED BY <1>3, <3>1, <3>2, <3>5, <3>6 DEF CallerWarned, CalleeTold, Alive
    <2>2. CASE p # <<x, y>>
      <3>1. r = registry[p] /\ r \in Made
        BY <1>1, <1>5, <2>2
      <3> QED BY <1>1, <1>8, <3>1 DEF Wired, Whole
    <2> QED BY <2>1, <2>2
  <1>13. Backed'
    <2>1. ASSUME NEW k \in Single', calleeEnd'[k] = "open" PROVE allowed[k] \subseteq grants'[k]
      <3>1. k \in Made /\ k \in Single
        BY <1>1, <1>6, <1>14, <2>1
      <3> QED BY <1>1, <2>1, <3>1 DEF Wired, Backed
    <2>2. ASSUME NEW w \in Workers, NEW v \in Workers, May(v, w), ~May(w, v)
          PROVE  AllowsFit(toWorker'[w], v, peerChannels[w][v], grants')
      <3> DEFINE q == toWorker[w]
                 o == out[w]
                 r == toWorker'[w]
                 c == peerChannels[w][v]
      <3>1. AllowsFit(q, v, c, grants)
        BY <2>2 DEF Wired, Backed
      <3>2. \A j \in DOMAIN q : Opens(q[j], v) => q[j].port \in Made
        BY DEF Wired, Ports, Carrying, Opens
      <3>3. c # 0 => c \in Made
        BY DEF Wired, Tabled
      <3>4. q \in Seq(ToWorker) /\ o \in Seq(ToWorker) /\ r = IF w \in Up THEN q \o o ELSE q
        BY DEF BrokerTypeOK, Opened
      <3>5. \A i \in DOMAIN o : ~Allows(o[i], v)
        BY OpenedOut DEF Allows
      <3> HIDE DEF q, o, r, c
      <3>6. AllowsFit(q, v, c, grants')
        <4>1. /\ \A j \in DOMAIN q : Opens(q[j], v) => grants[q[j].port] \subseteq grants'[q[j].port]
              /\ c # 0 => grants[c] \subseteq grants'[c]
          BY <1>1, <3>2, <3>3
        <4> QED BY <3>1, <4>1, AllowsMore
      <3>7. AllowsFit(q \o o, v, c, grants')
        BY <3>4, <3>5, <3>6, JoinAllows
      <3> QED BY <3>4, <3>6, <3>7 DEF r, c
    <2> QED BY <1>1, <2>1, <2>2 DEF Backed, May
  <1> QED BY <1>4, <1>7, <1>9, <1>10, <1>11, <1>12, <1>13 DEF Wired

\* Nothing is posted, and no pair leaves the registry.
LEMMA SilenceAnnounced ==
  ASSUME BrokerTypeOK, toWorker' = toWorker, registry' = registry
  PROVE  \E out : Announced(out)
  <1>1. Nothing \in [Workers -> Seq(ToWorker)] /\ \A w \in Workers : Nothing[w] = <<>>
    BY DEF Nothing
  <1>2. \A w \in Workers : toWorker[w] \in Seq(ToWorker) /\ toWorker[w] \o <<>> = toWorker[w]
    BY DEF BrokerTypeOK
  <1>3. DOMAIN <<>> = {}
    OBVIOUS
  <1>4. \A w \in Workers : toWorker'[w] = IF w \in Up THEN toWorker[w] \o Nothing[w] ELSE toWorker[w]
    BY <1>1, <1>2
  <1>5. \A w \in Workers : DOMAIN Nothing[w] = {}
    BY <1>1, <1>3
  <1> HIDE DEF Nothing
  <1>6. Announced(Nothing)
    BY <1>1, <1>4, <1>5 DEF Announced
  <1> QED BY <1>6

\* One message that carries no port, and no pair leaves the registry.
LEMMA MessageAnnounced ==
  ASSUME BrokerTypeOK, NEW u \in Workers, NEW m \in ToWorker, Post(To(u, m)), registry' = registry,
         m.kind \notin {"open", "invalidate"}, m.kind = "grant" => m.port = 0,
         m.kind = "allow" /\ u \in Up =>
              /\ May(m.peer, u) /\ registry[<<m.peer, u>>] # 0
              /\ m.dev \in grants'[registry[<<m.peer, u>>]]
  PROVE  \E out : Announced(out)
  <1> DEFINE out == To(u, m)
  <1>1. /\ out \in [Workers -> Seq(ToWorker)]
        /\ out[u] = <<m>> /\ \A v \in Workers : v # u => out[v] = <<>>
    BY ToFacts
  <1>2. \A w \in Workers : toWorker'[w] = IF w \in Up THEN toWorker[w] \o out[w] ELSE toWorker[w]
    BY DEF Post
  <1> HIDE DEF out
  <1>3. ASSUME NEW w \in Workers, NEW i \in DOMAIN out[w] PROVE w = u /\ out[w][i] = m
    <2>1. w = u
      BY <1>1, <1>3
    <2> QED BY <1>1, <1>3, <2>1
  <1>4. Announced(out)
    BY <1>1, <1>2, <1>3 DEF Announced
  <1> QED BY <1>4

\* invalidateWorker, for a worker that is not up: the others are told of it.
LEMMA InvalidateAnnounced ==
  ASSUME BrokerTypeOK, Founded, NEW w \in Workers, NEW extra \in [Workers -> Seq(ToWorker)],
         \A v \in Workers : \A i \in DOMAIN extra[v] : extra[v][i].kind = "deny",
         InvalidateWorker(w, extra), phase'[w] # "up"
  PROVE  \E out : Announced(out)
  <1> DEFINE m == Msg("invalidate", None, w, 0)
             a(v) == IF v # w /\ <<v, w>> \in Involving(w) THEN <<m>> ELSE <<>>
             b(v) == IF v # w /\ <<w, v>> \in Involving(w) THEN <<m>> ELSE <<>>
             out == [v \in Workers |-> a(v) \o b(v) \o extra[v]]
  <1>1. \A p \in Pairs : registry'[p] = IF p \in Involving(w) THEN 0 ELSE registry[p]
    BY DEF InvalidateWorker
  <1>2. \A u \in Workers : toWorker'[u] = IF u \in Up THEN toWorker[u] \o out[u] ELSE toWorker[u]
    BY DEF InvalidateWorker, Post
  <1>3. m \in ToWorker /\ m.kind = "invalidate" /\ m.peer = w
    BY DEF ToWorker, Msg
  <1> HIDE DEF m
  <1>4. ASSUME NEW v \in Workers
        PROVE  /\ a(v) \in Seq(ToWorker) /\ b(v) \in Seq(ToWorker)
               /\ \A i \in DOMAIN a(v) : a(v)[i] = m /\ v # w
               /\ \A i \in DOMAIN b(v) : b(v)[i] = m /\ v # w
               /\ v # w /\ <<v, w>> \in Involving(w) => 1 \in DOMAIN a(v)
               /\ v # w /\ <<w, v>> \in Involving(w) => 1 \in DOMAIN b(v)
    <2>1. /\ <<m>> \in Seq(ToWorker) /\ <<>> \in Seq(ToWorker) /\ DOMAIN <<m>> = {1} /\ DOMAIN <<>> = {}
          /\ <<m>>[1] = m
      BY <1>3
    <2> DEFINE A == v # w /\ <<v, w>> \in Involving(w)
               B == v # w /\ <<w, v>> \in Involving(w)
    <2>2. /\ a(v) \in Seq(ToWorker) /\ (\A i \in DOMAIN a(v) : a(v)[i] = m /\ v # w)
          /\ A => 1 \in DOMAIN a(v)
      <3>1. CASE A
        <4>1. a(v) = <<m>> /\ v # w
          BY <3>1
        <4> HIDE DEF a
        <4> QED BY <2>1, <4>1
      <3>2. CASE ~A
        <4>1. a(v) = <<>>
          BY <3>2
        <4> HIDE DEF a
        <4> QED BY <2>1, <3>2, <4>1
      <3> QED BY <3>1, <3>2
    <2>3. /\ b(v) \in Seq(ToWorker) /\ (\A i \in DOMAIN b(v) : b(v)[i] = m /\ v # w)
          /\ B => 1 \in DOMAIN b(v)
      <3>1. CASE B
        <4>1. b(v) = <<m>> /\ v # w
          BY <3>1
        <4> HIDE DEF b
        <4> QED BY <2>1, <4>1
      <3>2. CASE ~B
        <4>1. b(v) = <<>>
          BY <3>2
        <4> HIDE DEF b
        <4> QED BY <2>1, <3>2, <4>1
      <3> QED BY <3>1, <3>2
    <2> QED BY <2>2, <2>3
  <1> HIDE DEF a, b
  <1>5. ASSUME NEW v \in Workers
        PROVE  /\ a(v) \o b(v) \o extra[v] \in Seq(ToWorker)
               /\ \A i \in DOMAIN (a(v) \o b(v) \o extra[v]) :
                    LET x == (a(v) \o b(v) \o extra[v])[i] IN x.kind = "deny" \/ (x = m /\ v # w)
               /\ v # w /\ (<<v, w>> \in Involving(w) \/ <<w, v>> \in Involving(w))
                    => ShutIn(a(v) \o b(v) \o extra[v], w)
    <2> DEFINE p == a(v)
               q == b(v)
               e == extra[v]
               c == p \o q
               r == c \o e
    <2>1. p \in Seq(ToWorker) /\ q \in Seq(ToWorker) /\ e \in Seq(ToWorker)
      BY <1>4
    <2>2. c \in Seq(ToWorker)
      BY <2>1, ConcatProperties
    <2>3. r \in Seq(ToWorker)
      BY <2>1, <2>2, ConcatProperties
    <2>4. /\ \A i \in DOMAIN p : p[i] = m /\ v # w
          /\ \A i \in DOMAIN q : q[i] = m /\ v # w
          /\ \A i \in DOMAIN e : e[i].kind = "deny"
          /\ v # w /\ <<v, w>> \in Involving(w) => 1 \in DOMAIN p
          /\ v # w /\ <<w, v>> \in Involving(w) => 1 \in DOMAIN q
      BY <1>4
    <2> HIDE DEF p, q, e
    <2>5. \A i \in DOMAIN c : c[i] = m /\ v # w
      <3> HIDE DEF c
      <3>1. \A i \in DOMAIN c : (i \in DOMAIN p /\ c[i] = p[i]) \/ (i - Len(p) \in DOMAIN q /\ c[i] = q[i - Len(p)])
        BY <2>1, JoinFacts DEF c
      <3> QED BY <2>4, <3>1
    <2>6. ShutIn(p, w) \/ ShutIn(q, w) => ShutIn(c, w)
      BY <2>1, JoinHas
    <2> HIDE DEF c
    <2>7. \A i \in DOMAIN r : r[i].kind = "deny" \/ (r[i] = m /\ v # w)
      <3> HIDE DEF r
      <3>1. \A i \in DOMAIN r : (i \in DOMAIN c /\ r[i] = c[i]) \/ (i - Len(c) \in DOMAIN e /\ r[i] = e[i - Len(c)])
        BY <2>1, <2>2, JoinFacts DEF r
      <3> QED BY <2>4, <2>5, <3>1
    <2>8. ShutIn(c, w) => ShutIn(r, w)
      BY <2>1, <2>2, JoinHas
    <2>9. /\ v # w /\ <<v, w>> \in Involving(w) => ShutIn(p, w)
          /\ v # w /\ <<w, v>> \in Involving(w) => ShutIn(q, w)
      BY <1>3, <2>4 DEF ShutIn, Shuts
    <2>10. v # w /\ (<<v, w>> \in Involving(w) \/ <<w, v>> \in Involving(w)) => ShutIn(r, w)
      BY <2>6, <2>8, <2>9
    <2> QED BY <2>3, <2>7, <2>10 DEF p, q, e, c, r
  <1>6. /\ out \in [Workers -> Seq(ToWorker)]
        /\ \A v \in Workers : \A i \in DOMAIN out[v] : out[v][i].kind = "deny" \/ (out[v][i] = m /\ v # w)
        /\ \A v \in Workers : v # w /\ (<<v, w>> \in Involving(w) \/ <<w, v>> \in Involving(w)) => ShutIn(out[v], w)
    <2>1. \A v \in Workers : out[v] = a(v) \o b(v) \o extra[v]
      OBVIOUS
    <2>2. out \in [Workers -> Seq(ToWorker)]
      BY <1>5
    <2> HIDE DEF out
    <2>3. ASSUME NEW v \in Workers, NEW i \in DOMAIN out[v]
          PROVE  out[v][i].kind = "deny" \/ (out[v][i] = m /\ v # w)
      BY <1>5, <2>1, <2>3
    <2>4. ASSUME NEW v \in Workers, v # w, <<v, w>> \in Involving(w) \/ <<w, v>> \in Involving(w)
          PROVE  ShutIn(out[v], w)
      BY <1>5, <2>1, <2>4
    <2> QED BY <2>2, <2>3, <2>4
  <1> HIDE DEF out
  <1>7. ASSUME NEW v \in Workers, NEW i \in DOMAIN out[v], out[v][i].kind = "invalidate"
        PROVE  registry'[<<v, out[v][i].peer>>] = 0 /\ registry'[<<out[v][i].peer, v>>] = 0
    <2>1. out[v][i].peer = w
      BY <1>3, <1>6, <1>7
    <2>2. /\ <<v, w>> \in Pairs /\ <<w, v>> \in Pairs
          /\ <<v, w>>[1] = v /\ <<v, w>>[2] = w /\ <<w, v>>[1] = w /\ <<w, v>>[2] = v
      BY DEF Pairs
    <2>3. /\ <<v, w>> \in Involving(w) \/ registry[<<v, w>>] = 0
          /\ <<w, v>> \in Involving(w) \/ registry[<<w, v>>] = 0
      BY <2>2 DEF Involving
    <2> QED BY <1>1, <2>1, <2>2, <2>3
  <1>8. ASSUME NEW p \in Pairs, registry'[p] # registry[p]
        PROVE  \/ p[1] \in Up => ShutIn(out[p[1]], p[2])
               \/ phase'[p[1]] # "up" /\ (p[2] \in Up => ShutIn(out[p[2]], p[1]))
    <2>1. p \in Involving(w) /\ registry[p] # 0 /\ (p[1] = w \/ p[2] = w)
      BY <1>1, <1>8 DEF Involving
    <2>2. p = <<p[1], p[2]>> /\ p[1] \in Workers /\ p[2] \in Workers /\ p[1] # p[2]
      BY <2>1, MadeFacts DEF May
    <2>3. CASE p[1] = w
      BY <1>6, <2>1, <2>2, <2>3
    <2>4. CASE p[2] = w
      BY <1>6, <2>1, <2>2, <2>4
    <2> QED BY <2>1, <2>3, <2>4
  <1>9. ASSUME NEW v \in Workers, NEW i \in DOMAIN out[v] PROVE out[v][i].kind \in {"deny", "invalidate"}
    BY <1>3, <1>6, <1>9
  <1>10. \A p \in Pairs : registry'[p] \in {registry[p], 0}
    BY <1>1
  <1>11. Announced(out)
    <2>1. \A u \in Workers : toWorker'[u] = IF u \in Up THEN toWorker[u] \o out[u] ELSE toWorker[u]
      BY <1>2
    <2> QED BY <1>6, <1>7, <1>8, <1>9, <1>10, <2>1 DEF Announced
  <1> QED BY <1>11

\* closeRevoked: both workers of the pair are told.
LEMMA CloseAnnounced ==
  ASSUME BrokerTypeOK, Founded, NEW l \in lookups, l.kind = "recheck", CloseRevoked(l),
         registry[<<l.caller, l.callee>>] = l.ch, l.ch # 0
  PROVE  \E out : Announced(out)
  <1> DEFINE x == l.caller
             y == l.callee
             a == Msg("invalidate", None, y, 0)
             b == Msg("invalidate", None, x, 0)
             out == [Nothing EXCEPT ![x] = <<a>>, ![y] = <<b>>]
  <1>1. x \in Workers /\ y \in Workers /\ <<x, y>> \in Pairs /\ <<y, x>> \in Pairs
    BY LookupFields DEF BrokerTypeOK, Pairs
  <1>2. May(x, y) /\ x # y
    BY <1>1, MadeFacts DEF May
  <1>3. <<y, x>> \notin SinglePairs
    BY <1>2 DEF SinglePairs
  <1>4. registry' = [registry EXCEPT ![<<x, y>>] = 0] /\ Post(out)
    BY DEF CloseRevoked
  <1>5. /\ a \in ToWorker /\ a.kind = "invalidate" /\ a.peer = y
        /\ b \in ToWorker /\ b.kind = "invalidate" /\ b.peer = x
    BY <1>1 DEF ToWorker, Msg
  <1> HIDE DEF a, b, x, y
  <1>6. /\ <<a>> \in Seq(ToWorker) /\ <<b>> \in Seq(ToWorker) /\ <<>> \in Seq(ToWorker)
        /\ DOMAIN <<a>> = {1} /\ DOMAIN <<b>> = {1} /\ DOMAIN <<>> = {} /\ <<a>>[1] = a /\ <<b>>[1] = b
    BY <1>5
  <1>7. /\ out \in [Workers -> Seq(ToWorker)] /\ out[x] = <<a>> /\ out[y] = <<b>>
        /\ \A u \in Workers : u \notin {x, y} => out[u] = <<>>
    BY <1>1, <1>2, <1>6 DEF Nothing
  <1>8. \A u \in Workers : toWorker'[u] = IF u \in Up THEN toWorker[u] \o out[u] ELSE toWorker[u]
    BY <1>4 DEF Post
  <1> HIDE DEF out
  <1>9. ASSUME NEW u \in Workers, NEW i \in DOMAIN out[u]
        PROVE  (u = x /\ out[u][i] = a) \/ (u = y /\ out[u][i] = b)
    <2>1. CASE u = x
      BY <1>6, <1>7, <1>9, <2>1
    <2>2. CASE u = y
      BY <1>6, <1>7, <1>9, <2>2
    <2>3. CASE u \notin {x, y}
      BY <1>6, <1>7, <1>9, <2>3
    <2> QED BY <2>1, <2>2, <2>3
  <1>10. registry'[<<x, y>>] = 0 /\ \A p \in Pairs : p # <<x, y>> => registry'[p] = registry[p]
    BY <1>1, <1>4 DEF BrokerTypeOK
  <1>12. ShutIn(out[x], y)
    BY <1>5, <1>6, <1>7 DEF ShutIn, Shuts
  <1>13. \A p \in Pairs : /\ registry'[p] \in {registry[p], 0}
                          /\ registry'[p] # registry[p] => ShutIn(out[p[1]], p[2])
    <2> TAKE p \in Pairs
    <2>1. CASE p = <<x, y>>
      BY <1>10, <1>12, <2>1
    <2>2. CASE p # <<x, y>>
      BY <1>10, <2>2
    <2> QED BY <2>1, <2>2
  <1>14. ASSUME NEW u \in Workers, NEW i \in DOMAIN out[u]
         PROVE  LET m == out[u][i] IN
                  /\ m.kind = "invalidate"
                  /\ <<u, m.peer>> \in SinglePairs => registry'[<<u, m.peer>>] = 0
                  /\ <<m.peer, u>> \in SinglePairs => registry'[<<m.peer, u>>] = 0
    BY <1>3, <1>5, <1>9, <1>10, <1>14
  <1>15. Announced(out)
    BY <1>7, <1>8, <1>13, <1>14 DEF Announced
  <1> QED BY <1>15

\* Nothing about channels and workers changes, but for what is granted.
LEMMA CalmIsUndisturbed ==
  ASSUME UNCHANGED <<used, pair, callerEnd, calleeEnd, peerChannels, allowed, phase>>,
         \A ch \in Channels : grants[ch] \subseteq grants'[ch]
  PROVE  Undisturbed
  BY DEF Undisturbed, Up

\* A worker goes on towards its end.
LEMMA AgedIsUndisturbed ==
  ASSUME BrokerTypeOK, NEW w \in Workers, NEW next, phase' = [phase EXCEPT ![w] = next],
         \/ phase[w] \in {"up", "unloading"} /\ next \in {"unloading", "purged"}
         \/ phase[w] = "exited" /\ next = "ended",
         UNCHANGED <<used, grants, pair, callerEnd, calleeEnd, peerChannels, allowed>>
  PROVE  Undisturbed
  <1>1. phase'[w] = next /\ \A v \in Workers : v # w => phase'[v] = phase[v]
    BY DEF BrokerTypeOK
  <1>2. Up' = Up
    BY <1>1 DEF Up
  <1>3. \A v \in Workers : (phase'[v] = "unborn" <=> phase[v] = "unborn") /\ (phase'[v] = "up" => phase[v] = "up")
    BY <1>1
  <1> QED BY <1>2, <1>3 DEF Undisturbed

\* Steps that post nothing.
LEMMA QuietStepWired ==
  ASSUME BrokerTypeOK, BrokerTypeOK', Wired, NEW w \in Workers, NEW d, NEW u,
         Call(w, d) \/ WorkerPurges(w) \/ StartUnload(w) \/ RecheckGrants \/ Revoke(u)
  PROVE  Wired'
  <1>1. toWorker' = toWorker /\ registry' = registry
    BY DEF Call, WorkerPurges, StartUnload, RecheckGrants, Revoke, mainVars
  <1>2. \E out : Announced(out)
    BY <1>1, SilenceAnnounced
  <1>3. Undisturbed
    <2>1. UNCHANGED <<used, grants, pair, callerEnd, calleeEnd, peerChannels, allowed>>
      BY DEF Call, WorkerPurges, StartUnload, RecheckGrants, Revoke, mainVars, chanVars, workerVars
    <2>2. CASE WorkerPurges(w)
      <3>1. phase[w] = "unloading" /\ phase' = [phase EXCEPT ![w] = "purged"]
        BY <2>2 DEF WorkerPurges
      <3> QED BY <2>1, <3>1, AgedIsUndisturbed
    <2>3. CASE StartUnload(w)
      <3>1. phase[w] = "up" /\ phase' = [phase EXCEPT ![w] = "unloading"]
        BY <2>3 DEF StartUnload
      <3> QED BY <2>1, <3>1, AgedIsUndisturbed
    <2>4. CASE Call(w, d) \/ RecheckGrants \/ Revoke(u)
      <3>1. phase' = phase
        BY <2>4 DEF Call, RecheckGrants, Revoke, workerVars
      <3> QED BY <2>1, <3>1, CalmIsUndisturbed
    <2> QED BY <2>2, <2>3, <2>4
  <1> QED BY <1>2, <1>3, PostKeeps

\* An unload: the workers that shared a channel with it are told.
LEMMA UnloadModuleWired ==
  ASSUME BrokerTypeOK, BrokerTypeOK', Wired, NEW w \in Workers, UnloadModule(w)
  PROVE  Wired'
  <1>1. /\ phase[w] # "up" /\ InvalidateWorker(w, Nothing) /\ phase' = phase
        /\ UNCHANGED <<used, grants, pair, callerEnd, calleeEnd, peerChannels, allowed>>
    BY DEF UnloadModule, workerVars, chanVars
  <1>2. Nothing \in [Workers -> Seq(ToWorker)] /\ \A v \in Workers : DOMAIN Nothing[v] = {}
    BY DEF Nothing
  <1>3. \E out : Announced(out)
    BY <1>1, <1>2, InvalidateAnnounced DEF Wired
  <1>4. Undisturbed
    BY <1>1, CalmIsUndisturbed
  <1> QED BY <1>3, <1>4, PostKeeps

\* The 'exit' event tells them too, unless an unload has.
LEMMA ExitEventWired ==
  ASSUME BrokerTypeOK, BrokerTypeOK', IsFiniteSet(acks), Wired, NEW w \in Workers, ExitEvent(w)
  PROVE  Wired'
  <1> DEFINE owed == [v \in Workers |-> SetToSeq(
                 {Msg("deny", k[2], None, 0) : k \in {j \in acks : j[1] = v /\ j[3] = w}})]
  <1>1. /\ phase[w] = "exited" /\ phase' = [phase EXCEPT ![w] = "ended"]
        /\ \/ InvalidateWorker(w, owed)
           \/ Post(owed) /\ registry' = registry
        /\ UNCHANGED <<used, grants, pair, callerEnd, calleeEnd, peerChannels, allowed>>
    BY DEF ExitEvent, chanVars
  <1>2. ASSUME NEW v \in Workers
        PROVE  owed[v] \in Seq(ToWorker) /\ \A i \in DOMAIN owed[v] : owed[v][i].kind = "deny"
    <2>1. owed[v] = SetToSeq({Msg("deny", k[2], None, 0) : k \in {j \in acks : j[1] = v /\ j[3] = w}})
      OBVIOUS
    <2> HIDE DEF owed
    <2> QED BY <2>1, OwedFacts
  <1>3. owed \in [Workers -> Seq(ToWorker)]
    BY <1>2
  <1> HIDE DEF owed
  <1>4. phase'[w] # "up"
    BY <1>1 DEF BrokerTypeOK
  <1>5. \E out : Announced(out)
    <2>1. CASE InvalidateWorker(w, owed)
      BY <1>2, <1>3, <1>4, <2>1, InvalidateAnnounced DEF Wired
    <2>2. CASE Post(owed) /\ registry' = registry
      <3>1. \A u \in Workers : toWorker'[u] = IF u \in Up THEN toWorker[u] \o owed[u] ELSE toWorker[u]
        BY <2>2 DEF Post
      <3>2. Announced(owed)
        BY <1>2, <1>3, <2>2, <3>1 DEF Announced
      <3> QED BY <3>2
    <2> QED BY <1>1, <2>1, <2>2
  <1>6. Undisturbed
    BY <1>1, AgedIsUndisturbed
  <1> QED BY <1>5, <1>6, PostKeeps

\* A denial is announced.
LEMMA DenyAnnounced ==
  ASSUME BrokerTypeOK, NEW w \in Workers, NEW d \in Devices, DenyTo(w, d), registry' = registry
  PROVE  \E out : Announced(out)
  <1> DEFINE m == Msg("deny", d, None, 0)
  <1>1. m \in ToWorker /\ m.kind = "deny"
    BY DEF ToWorker, Msg
  <1>2. Post(To(w, m))
    BY DEF DenyTo
  <1> HIDE DEF m
  <1> QED BY <1>1, <1>2, MessageAnnounced

\* The main thread takes a worker's message.
LEMMA MainReceivesWired ==
  ASSUME BrokerTypeOK, BrokerTypeOK', Asked, Wired, NEW w \in Workers, MainReceives(w)
  PROVE  Wired'
  <1> DEFINE m == Head(toMain[w])
  <1>1. /\ toMain[w] # <<>>
        /\ \/ m.kind = "request" /\ HandleRequest(w, m.dev)
           \/ m.kind = "ack" /\ HandleAck(w, m)
           \/ m.kind = "purged" /\ InvalidateWorker(w, Nothing)
        /\ UNCHANGED <<used, grants, pair, callerEnd, calleeEnd, peerChannels, allowed, phase>>
    BY DEF MainReceives, workerVars, chanVars
  <1>2. m \in ToMain /\ 1 \in DOMAIN toMain[w] /\ toMain[w][1] = m
    BY <1>1 DEF BrokerTypeOK
  <1> HIDE DEF m
  <1>3. Undisturbed
    BY <1>1, CalmIsUndisturbed
  <1>4. \E out : Announced(out)
    <2>1. CASE m.kind = "request" /\ HandleRequest(w, m.dev)
      <3>1. m.dev \in Devices /\ registry' = registry /\ (DenyTo(w, m.dev) \/ toWorker' = toWorker)
        BY <1>2, <2>1, AskFields DEF HandleRequest
      <3> QED BY <3>1, DenyAnnounced, SilenceAnnounced
    <2>2. CASE m.kind = "ack" /\ HandleAck(w, m)
      <3> DEFINE g == Msg("grant", m.dev, w, 0)
      <3>1. m.dev \in Devices /\ m.peer \in Workers
        BY <1>2, <2>2, AskFields
      <3>2. registry' = registry /\ (Post(To(m.peer, g)) \/ toWorker' = toWorker)
        BY <2>2 DEF HandleAck
      <3>3. g \in ToWorker /\ g.kind = "grant" /\ g.port = 0
        <4>1. 0 \in 0 .. MaxChannels
          BY BrokerAssumption
        <4> QED BY <3>1, <4>1 DEF ToWorker, Msg
      <3> HIDE DEF g
      <3> QED BY <3>1, <3>2, <3>3, MessageAnnounced, SilenceAnnounced
    <2>3. CASE m.kind = "purged" /\ InvalidateWorker(w, Nothing)
      <3>1. phase'[w] # "up"
        BY <1>1, <1>2, <2>3 DEF Asked
      <3>2. Nothing \in [Workers -> Seq(ToWorker)] /\ \A v \in Workers : DOMAIN Nothing[v] = {}
        BY DEF Nothing
      <3> QED BY <2>3, <3>1, <3>2, InvalidateAnnounced DEF Wired
    <2> QED BY <1>1, <2>1, <2>2, <2>3
  <1> QED BY <1>3, <1>4, PostKeeps

\* The AuthProvider's answer to a request.
LEMMA RequestAnsweredWired ==
  ASSUME BrokerTypeOK, BrokerTypeOK', Asked, Wired, NEW l \in lookups, RequestAnswered(l)
  PROVE  Wired'
  <1> DEFINE x == l.caller
             y == l.callee
             c == registry[<<x, y>>]
  <1>1. /\ x \in Workers /\ l.dev \in Devices
        /\ l.kind = "grant" => /\ y \in Workers /\ <<x, y>> \in Pairs
                               /\ May(x, y) /\ phase[x] # "unborn" /\ phase[y] # "unborn"
    <2>1. l \in Lookups
      BY DEF BrokerTypeOK
    <2> QED BY <2>1, LookupFields DEF Asked
  <1>2. /\ UNCHANGED workerVars /\ UNCHANGED allowed
        /\ \/ DenyTo(x, l.dev) /\ UNCHANGED <<registry, grants, used, pair, callerEnd, calleeEnd>>
           \/ l.kind = "grant" /\ c # 0 /\ GrantOnPair(l, c)
           \/ l.kind = "grant" /\ c = 0 /\ GrantNewPair(l)
    <2>1. /\ UNCHANGED workerVars /\ UNCHANGED allowed
          /\ \/ DenyTo(x, l.dev) /\ UNCHANGED <<registry, grants, used, pair, callerEnd, calleeEnd>>
             \/ l.kind = "grant" /\ (IF c # 0 THEN GrantOnPair(l, c) ELSE GrantNewPair(l))
      BY DEF RequestAnswered
    <2> HIDE DEF c
    <2> QED BY <2>1
  <1>3. phase' = phase /\ peerChannels' = peerChannels /\ allowed' = allowed
    BY <1>2 DEF workerVars
  <1>4. CASE DenyTo(x, l.dev) /\ UNCHANGED <<registry, grants, used, pair, callerEnd, calleeEnd>>
    <2>1. Undisturbed
      BY <1>3, <1>4, CalmIsUndisturbed
    <2>2. \E out : Announced(out)
      BY <1>1, <1>4, DenyAnnounced
    <2> QED BY <2>1, <2>2, PostKeeps
  <1>5. CASE l.kind = "grant" /\ c # 0 /\ GrantOnPair(l, c)
    <2> DEFINE m == Msg("allow", l.dev, x, 0)
    <2>1. /\ grants' = [grants EXCEPT ![c] = @ \cup {l.dev}]
          /\ DenyTo(x, l.dev) \/ Post(To(y, m))
          /\ UNCHANGED <<registry, used, pair, callerEnd, calleeEnd>>
      BY <1>5 DEF GrantOnPair
    <2>2. c \in Channels
      BY <1>1, <1>5, MadeFacts DEF Wired
    <2>3. l.dev \in grants'[c] /\ \A ch \in Channels : grants[ch] \subseteq grants'[ch]
      <3> HIDE DEF c
      <3> QED BY <2>1, <2>2 DEF BrokerTypeOK
    <2>4. Undisturbed
      BY <1>3, <2>1, <2>3, CalmIsUndisturbed
    <2>5. CASE DenyTo(x, l.dev)
      <3>1. \E out : Announced(out)
        BY <1>1, <2>1, <2>5, DenyAnnounced
      <3> QED BY <2>4, <3>1, PostKeeps
    <2>6. CASE Post(To(y, m))
      <3>1. m \in ToWorker /\ m.kind = "allow" /\ m.dev = l.dev /\ m.peer = x
        BY <1>1 DEF ToWorker, Msg
      <3> HIDE DEF m
      <3>2. \E out : Announced(out)
        BY <1>1, <1>5, <2>1, <2>3, <2>6, <3>1, MessageAnnounced
      <3> QED BY <2>4, <3>2, PostKeeps
    <2> QED BY <2>1, <2>5, <2>6
  <1>6. CASE l.kind = "grant" /\ c = 0 /\ GrantNewPair(l)
    <2>1. \E out : Opened(x, y, l.dev, out)
      BY <1>1, <1>2, <1>6, NewPairOpens DEF Wired
    <2> QED BY <2>1, OpenedKeeps
  <1> QED BY <1>2, <1>4, <1>5, <1>6

\* The AuthProvider's answer to a recheck.
LEMMA RecheckAnsweredWired ==
  ASSUME BrokerTypeOK, BrokerTypeOK', Rechecking, Wired, NEW l \in lookups, RecheckAnswered(l)
  PROVE  Wired'
  <1> DEFINE c == registry[<<l.caller, l.callee>>]
  <1>1. /\ l.kind = "recheck" /\ (UNCHANGED <<registry, toWorker>> \/ CloseRevoked(l))
        /\ UNCHANGED <<used, grants, pair, callerEnd, calleeEnd, peerChannels, allowed, phase>>
    BY DEF RecheckAnswered, workerVars, chanVars
  <1>2. l.ch # 0
    BY <1>1 DEF Rechecking
  <1>3. \E out : Announced(out)
    <2>1. CASE UNCHANGED <<registry, toWorker>>
      BY <2>1, SilenceAnnounced
    <2>2. CASE CloseRevoked(l) /\ c # l.ch
      <3>1. UNCHANGED <<registry, toWorker>>
        BY <2>2 DEF CloseRevoked
      <3> QED BY <3>1, SilenceAnnounced
    <2>3. CASE CloseRevoked(l) /\ c = l.ch
      BY <1>1, <1>2, <2>3, CloseAnnounced DEF Wired
    <2> HIDE DEF c
    <2> QED BY <1>1, <2>1, <2>2, <2>3
  <1>4. Undisturbed
    BY <1>1, CalmIsUndisturbed
  <1> QED BY <1>3, <1>4, PostKeeps

\* A worker that was started stays so, and does not come up a second time.
Ageing ==
  \A v \in Workers : phase[v] # "unborn" => phase'[v] # "unborn" /\ (phase[v] # "up" => phase'[v] # "up")

\* Every change of a phase is of that kind.
LEMMA PhaseAges ==
  ASSUME BrokerTypeOK,
         \/ phase' = phase
         \/ \E w \in Workers : \E next : /\ phase' = [phase EXCEPT ![w] = next] /\ next # "unborn"
                                         /\ next = "up" => phase[w] = "unborn"
  PROVE  Ageing
  BY DEF Ageing, BrokerTypeOK

\* What is asked stays well founded when what is added is.
LEMMA AskedKept ==
  ASSUME BrokerTypeOK, Asked, Ageing,
         \A d \in Devices :
           \/ deviceMap'[d] \in {deviceMap[d], None}
           \/ deviceMap'[d] = Successor[Home[d]] /\ phase'[deviceMap'[d]] # "unborn",
         \A w \in Workers : \A i \in DOMAIN toMain'[w] :
           LET m == toMain'[w][i] IN
             \/ \E j \in DOMAIN toMain[w] : m = toMain[w][j]
             \/ m.kind = "ack"
             \/ m.kind = "request" /\ <<w, m.dev>> \in Uses /\ phase'[w] # "unborn"
             \/ m.kind = "purged" /\ phase'[w] \notin {"unborn", "up"},
         \A l \in lookups' : l.kind = "grant" =>
           \/ l \in lookups
           \/ May(l.caller, l.callee) /\ phase'[l.caller] # "unborn" /\ phase'[l.callee] # "unborn"
  PROVE  Asked'
  <1>1. \A v \in Workers : phase[v] # "unborn" => phase'[v] # "unborn" /\ (phase[v] # "up" => phase'[v] # "up")
    BY DEF Ageing
  <1>2. ASSUME NEW d \in Devices, deviceMap'[d] # None
        PROVE  deviceMap'[d] \in {Home[d], Successor[Home[d]]} /\ phase'[deviceMap'[d]] # "unborn"
    <2>1. CASE deviceMap'[d] = deviceMap[d]
      <3>1. deviceMap[d] \in Workers
        BY <1>2, <2>1 DEF BrokerTypeOK
      <3> QED BY <1>1, <1>2, <2>1, <3>1 DEF Asked
    <2>2. CASE deviceMap'[d] = Successor[Home[d]] /\ phase'[deviceMap'[d]] # "unborn"
      BY <2>2
    <2> QED BY <1>2, <2>1, <2>2
  <1>3. ASSUME NEW w \in Workers, NEW i \in DOMAIN toMain'[w]
        PROVE  /\ toMain'[w][i].kind = "request" => <<w, toMain'[w][i].dev>> \in Uses /\ phase'[w] # "unborn"
               /\ toMain'[w][i].kind = "purged" => phase'[w] \notin {"unborn", "up"}
    <2> DEFINE m == toMain'[w][i]
    <2>1. CASE \E j \in DOMAIN toMain[w] : m = toMain[w][j]
      <3>1. /\ m.kind = "request" => <<w, m.dev>> \in Uses /\ phase[w] # "unborn"
            /\ m.kind = "purged" => phase[w] \notin {"unborn", "up"}
        BY <2>1 DEF Asked
      <3> QED BY <1>1, <3>1
    <2>2. CASE m.kind = "ack"
      BY <2>2
    <2>3. CASE m.kind = "request" /\ <<w, m.dev>> \in Uses /\ phase'[w] # "unborn"
      BY <2>3
    <2>4. CASE m.kind = "purged" /\ phase'[w] \notin {"unborn", "up"}
      BY <2>4
    <2> QED BY <1>3, <2>1, <2>2, <2>3, <2>4
  <1>4. ASSUME NEW l \in lookups', l.kind = "grant"
        PROVE  May(l.caller, l.callee) /\ phase'[l.caller] # "unborn" /\ phase'[l.callee] # "unborn"
    <2>1. CASE l \in lookups
      <3>1. l.caller \in Workers /\ l.callee \in Workers
        BY <1>4, <2>1, LookupFields DEF BrokerTypeOK
      <3> QED BY <1>1, <1>4, <2>1, <3>1 DEF Asked
    <2> QED BY <1>4, <2>1
  <1> QED BY <1>2, <1>3, <1>4 DEF Asked, May

\* Ports to the main thread, after one message is added, or the first taken.
LEMMA MainPorts ==
  ASSUME BrokerTypeOK, NEW w \in Workers, NEW m \in ToMain
  PROVE  /\ toMain' = [toMain EXCEPT ![w] = Append(@, m)] =>
              \A v \in Workers : \A i \in DOMAIN toMain'[v] :
                (\E j \in DOMAIN toMain[v] : toMain'[v][i] = toMain[v][j]) \/ (v = w /\ toMain'[v][i] = m)
         /\ toMain[w] # <<>> /\ toMain' = [toMain EXCEPT ![w] = Tail(@)] =>
              \A v \in Workers : \A i \in DOMAIN toMain'[v] : \E j \in DOMAIN toMain[v] : toMain'[v][i] = toMain[v][j]
         /\ toMain' = toMain =>
              \A v \in Workers : \A i \in DOMAIN toMain'[v] : \E j \in DOMAIN toMain[v] : toMain'[v][i] = toMain[v][j]
  <1>1. toMain \in [Workers -> Seq(ToMain)] /\ toMain[w] \in Seq(ToMain)
    BY DEF BrokerTypeOK
  <1>2. ASSUME toMain' = [toMain EXCEPT ![w] = Append(@, m)], NEW v \in Workers, NEW i \in DOMAIN toMain'[v]
        PROVE  (\E j \in DOMAIN toMain[v] : toMain'[v][i] = toMain[v][j]) \/ (v = w /\ toMain'[v][i] = m)
    <2>1. CASE v = w
      <3> DEFINE q == toMain[w]
      <3>1. toMain'[v] = Append(q, m) /\ q \in Seq(ToMain)
        BY <1>1, <1>2, <2>1
      <3> HIDE DEF q
      <3>2. /\ Append(q, m)[Len(q) + 1] = m
            /\ DOMAIN Append(q, m) = DOMAIN q \cup {Len(q) + 1}
            /\ \A k \in DOMAIN q : Append(q, m)[k] = q[k]
        BY <3>1, AppendIndex
      <3> QED BY <1>2, <2>1, <3>1, <3>2 DEF q
    <2>2. CASE v # w
      BY <1>1, <1>2, <2>2
    <2> QED BY <2>1, <2>2
  <1>3. ASSUME toMain[w] # <<>>, toMain' = [toMain EXCEPT ![w] = Tail(@)], NEW v \in Workers, NEW i \in DOMAIN toMain'[v]
        PROVE  \E j \in DOMAIN toMain[v] : toMain'[v][i] = toMain[v][j]
    <2>1. CASE v = w
      <3> DEFINE q == toMain[w]
      <3>1. toMain'[v] = Tail(q) /\ q \in Seq(ToMain) /\ q # <<>>
        BY <1>1, <1>3, <2>1
      <3> HIDE DEF q
      <3>2. \A k \in DOMAIN Tail(q) : k + 1 \in DOMAIN q /\ Tail(q)[k] = q[k + 1]
        BY <3>1, TailIndex
      <3> QED BY <1>3, <2>1, <3>1, <3>2 DEF q
    <2>2. CASE v # w
      BY <1>1, <1>3, <2>2
    <2> QED BY <2>1, <2>2
  <1>4. ASSUME toMain' = toMain, NEW v \in Workers, NEW i \in DOMAIN toMain'[v]
        PROVE  \E j \in DOMAIN toMain[v] : toMain'[v][i] = toMain[v][j]
    BY <1>4
  <1> QED BY <1>2, <1>3, <1>4

\* A worker's own steps.
LEMMA WorkerAsked ==
  ASSUME BrokerTypeOK, Asked, NEW w \in Workers,
         \/ \E d \in Devices : Call(w, d)
         \/ \E ch \in Channels : PortClose(w, ch)
         \/ WorkerReceives(w) \/ WorkerPurges(w) \/ WorkerExits(w)
  PROVE  Asked'
  <1>1. deviceMap' = deviceMap /\ lookups' = lookups
    BY DEF Call, PortClose, WorkerReceives, WorkerPurges, WorkerExits, mainVars
  <1>2. \E m : m \in ToMain
    <2>1. Msg("purged", None, None, 0) \in ToMain
      BY DEF ToMain, Msg
    <2> QED BY <2>1
  <1>3. Ageing
    <2>1. (\E d \in Devices : Call(w, d)) \/ (\E ch \in Channels : PortClose(w, ch)) \/ WorkerReceives(w)
            => phase' = phase
      BY DEF Call, PortClose, WorkerReceives
    <2>2. WorkerPurges(w) \/ WorkerExits(w) =>
            \E next : phase' = [phase EXCEPT ![w] = next] /\ next # "unborn" /\ next # "up"
      BY DEF WorkerPurges, WorkerExits
    <2> QED BY <2>1, <2>2, PhaseAges
  <1>4. ASSUME NEW d \in Devices, Call(w, d) PROVE Asked'
    <2> DEFINE m == Msg("request", d, None, 0)
    <2>1. toMain' = [toMain EXCEPT ![w] = Append(@, m)] /\ <<w, d>> \in Uses /\ phase'[w] # "unborn"
      BY <1>4 DEF Call, Up
    <2>2. m \in ToMain /\ m.kind = "request" /\ m.dev = d
      BY DEF ToMain, Msg
    <2> HIDE DEF m
    <2>3. \A v \in Workers : \A i \in DOMAIN toMain'[v] :
            (\E j \in DOMAIN toMain[v] : toMain'[v][i] = toMain[v][j]) \/ (v = w /\ toMain'[v][i] = m)
      BY <2>1, <2>2, MainPorts
    <2> QED BY <1>1, <1>3, <2>1, <2>2, <2>3, AskedKept
  <1>5. CASE WorkerPurges(w)
    <2> DEFINE m == Msg("purged", None, None, 0)
    <2>1. toMain' = [toMain EXCEPT ![w] = Append(@, m)] /\ phase'[w] = "purged"
      BY <1>5 DEF WorkerPurges, BrokerTypeOK
    <2>2. m \in ToMain /\ m.kind = "purged"
      BY DEF ToMain, Msg
    <2> HIDE DEF m
    <2>3. \A v \in Workers : \A i \in DOMAIN toMain'[v] :
            (\E j \in DOMAIN toMain[v] : toMain'[v][i] = toMain[v][j]) \/ (v = w /\ toMain'[v][i] = m)
      BY <2>1, <2>2, MainPorts
    <2> QED BY <1>1, <1>3, <2>1, <2>2, <2>3, AskedKept
  <1>6. CASE (\E ch \in Channels : PortClose(w, ch)) \/ WorkerExits(w)
    <2>1. toMain' = toMain
      BY <1>6 DEF PortClose, WorkerExits
    <2> QED BY <1>1, <1>2, <1>3, <2>1, MainPorts, AskedKept
  <1>7. CASE WorkerReceives(w)
    <2> DEFINE t == Head(toWorker[w])
               m == Msg("ack", t.dev, t.peer, 0)
    <2>1. /\ toWorker[w] # <<>>
          /\ \/ toMain' = toMain
             \/ t.kind = "allow" /\ toMain' = [toMain EXCEPT ![w] = Append(@, m)]
      BY <1>7 DEF WorkerReceives, OnGrant, OnDeny, OnOpen, OnAllow, OnInvalidate
    <2>2. t \in ToWorker
      BY <2>1 DEF BrokerTypeOK
    <2>3. t.kind = "allow" => m \in ToMain /\ m.kind = "ack"
      BY <2>2, TellFields DEF ToMain, Msg
    <2> HIDE DEF m, t
    <2>4. CASE toMain' = toMain
      BY <1>1, <1>2, <1>3, <2>4, MainPorts, AskedKept
    <2>5. CASE t.kind = "allow" /\ toMain' = [toMain EXCEPT ![w] = Append(@, m)]
      BY <1>1, <1>3, <2>3, <2>5, MainPorts, AskedKept
    <2> QED BY <2>1, <2>4, <2>5
  <1> QED BY <1>4, <1>5, <1>6, <1>7

\* The steps of the main thread, but for a request it takes.
LEMMA MainAsked ==
  ASSUME BrokerTypeOK, Asked, NEW w \in Workers, NEW u,
         \/ StartUnload(w) \/ UnloadModule(w) \/ ExitEvent(w) \/ Restart(w) \/ RecheckGrants \/ Revoke(u)
         \/ \E l \in lookups : RequestAnswered(l) \/ RecheckAnswered(l)
  PROVE  Asked'
  <1>1. toMain' = toMain
    BY DEF StartUnload, UnloadModule, ExitEvent, Restart, RecheckGrants, Revoke, RequestAnswered, RecheckAnswered
  <1>2. Ageing
    <2>1. \/ phase' = phase
          \/ phase' = [phase EXCEPT ![w] = "unloading"]
          \/ phase' = [phase EXCEPT ![w] = "ended"]
          \/ /\ Successor[w] \in Workers /\ phase[Successor[w]] = "unborn"
             /\ phase' = [phase EXCEPT ![Successor[w]] = "up"]
      BY BrokerAssumption
         DEF StartUnload, UnloadModule, ExitEvent, Restart, RecheckGrants, Revoke, RequestAnswered, RecheckAnswered,
             workerVars
    <2> QED BY <2>1, PhaseAges
  <1>3. \A l \in lookups' : l.kind = "grant" => l \in lookups
    <2>1. CASE RecheckGrants
      <3> SUFFICES ASSUME NEW l \in lookups', l \notin lookups PROVE l.kind = "recheck"
        OBVIOUS
      <3>1. PICK p \in Pairs : \E e \in grants[registry[p]] : l = Lookup("recheck", p[1], e, p[2], registry[p])
        BY <2>1 DEF RecheckGrants
      <3> QED BY <3>1 DEF Lookup
    <2>2. CASE ~RecheckGrants
      <3>1. lookups' \subseteq lookups
        BY <2>2 DEF StartUnload, UnloadModule, ExitEvent, Restart, Revoke, RequestAnswered, RecheckAnswered, mainVars
      <3> QED BY <3>1
    <2> QED BY <2>1, <2>2
  <1>4. ASSUME NEW d \in Devices
        PROVE  \/ deviceMap'[d] \in {deviceMap[d], None}
               \/ deviceMap'[d] = Successor[Home[d]] /\ phase'[deviceMap'[d]] # "unborn"
    <2>1. CASE Restart(w)
      <3>1. /\ Successor[w] \in Workers /\ phase' = [phase EXCEPT ![Successor[w]] = "up"]
            /\ deviceMap' = [e \in Devices |-> IF Home[e] = w THEN Successor[w] ELSE deviceMap[e]]
        BY <2>1, BrokerAssumption DEF Restart
      <3>2. phase'[Successor[w]] = "up"
        BY <3>1 DEF BrokerTypeOK
      <3>3. deviceMap'[d] = IF Home[d] = w THEN Successor[w] ELSE deviceMap[d]
        BY <3>1
      <3> QED BY <3>2, <3>3
    <2>2. CASE ~Restart(w)
      <3>1. deviceMap' = deviceMap \/ deviceMap' = WithoutDevicesOf(w)
        BY <2>2
           DEF StartUnload, UnloadModule, ExitEvent, RecheckGrants, Revoke, RequestAnswered, RecheckAnswered, mainVars
      <3> QED BY <3>1 DEF WithoutDevicesOf
    <2> QED BY <2>1, <2>2
  <1>5. \A v \in Workers : \A i \in DOMAIN toMain'[v] : \E j \in DOMAIN toMain[v] : toMain'[v][i] = toMain[v][j]
    BY <1>1
  <1> QED BY <1>2, <1>3, <1>4, <1>5, AskedKept

\* A request is looked up for the worker that hosts the device.
LEMMA MainReceivesAsked ==
  ASSUME BrokerTypeOK, Asked, NEW w \in Workers, MainReceives(w)
  PROVE  Asked'
  <1> DEFINE m == Head(toMain[w])
  <1>1. /\ toMain[w] # <<>> /\ toMain' = [toMain EXCEPT ![w] = Tail(@)]
        /\ deviceMap' = deviceMap /\ phase' = phase
        /\ \/ m.kind = "request" /\ HandleRequest(w, m.dev)
           \/ lookups' = lookups
    BY DEF MainReceives, HandleAck, workerVars
  <1>2. m \in ToMain /\ 1 \in DOMAIN toMain[w] /\ toMain[w][1] = m
    BY <1>1 DEF BrokerTypeOK
  <1> HIDE DEF m
  <1>3. Ageing
    BY <1>1, PhaseAges
  <1>4. \A v \in Workers : \A i \in DOMAIN toMain'[v] : \E j \in DOMAIN toMain[v] : toMain'[v][i] = toMain[v][j]
    BY <1>1, <1>2, MainPorts
  <1>5. ASSUME NEW l \in lookups', l.kind = "grant", l \notin lookups
        PROVE  May(l.caller, l.callee) /\ phase'[l.caller] # "unborn" /\ phase'[l.callee] # "unborn"
    <2> DEFINE d == m.dev
               v == deviceMap[d]
    <2>1. m.kind = "request" /\ HandleRequest(w, d)
      BY <1>1, <1>5
    <2>2. /\ v \notin {None, w} /\ l = Lookup("grant", w, d, v, 0)
      <3>1. \/ lookups' = lookups
            \/ lookups' = lookups \cup {Lookup("missing", w, d, None, 0)}
            \/ v \notin {None, w} /\ lookups' = lookups \cup {Lookup("grant", w, d, v, 0)}
        BY <2>1 DEF HandleRequest
      <3>2. l # Lookup("missing", w, d, None, 0)
        BY <1>5 DEF Lookup
      <3> HIDE DEF d, v
      <3> QED BY <1>5, <3>1, <3>2
    <2>3. l.caller = w /\ l.callee = v
      BY <2>2 DEF Lookup
    <2>4. d \in Devices /\ <<w, d>> \in Uses /\ phase[w] # "unborn"
      BY <1>2, <2>1, AskFields DEF Asked
    <2>5. v \in {Home[d], Successor[Home[d]]} /\ phase[v] # "unborn"
      BY <2>2, <2>4 DEF Asked
    <2>6. May(w, v)
      BY <2>2, <2>4, <2>5 DEF May
    <2> QED BY <1>1, <2>3, <2>4, <2>5, <2>6
  <1> QED BY <1>1, <1>3, <1>4, <1>5, AskedKept

\* Nothing has been asked for, and there is no channel yet.
LEMMA WiringStarts == BrokerInit => WiringInv
  <1> SUFFICES ASSUME BrokerInit PROVE WiringInv
    OBVIOUS
  <1>1. /\ deviceMap = Home /\ lookups = {} /\ used = 0 /\ registry = [p \in Pairs |-> 0]
        /\ toWorker = [w \in Workers |-> <<>>] /\ toMain = [w \in Workers |-> <<>>]
        /\ phase = [w \in Workers |-> IF \E v \in Workers : Successor[v] = w THEN "unborn" ELSE "up"]
        /\ peerChannels = [w \in Workers |-> [v \in Workers |-> 0]]
        /\ pair = [ch \in Channels |-> <<None, None>>]
        /\ callerEnd = [ch \in Channels |-> "none"] /\ calleeEnd = [ch \in Channels |-> "none"]
    BY DEF BrokerInit
  <1>2. Made = {} /\ Single = {}
    BY <1>1 DEF Made, Single
  <1>3. \A w \in Workers : /\ toWorker[w] = <<>> /\ DOMAIN toWorker[w] = {} /\ DOMAIN toMain[w] = {}
                           /\ \A v \in Workers : peerChannels[w][v] = 0
    BY <1>1
  <1>4. \A p \in Pairs : registry[p] = 0
    BY <1>1
  <1>5. Asked
    <2>1. ASSUME NEW d \in Devices PROVE deviceMap[d] = Home[d] /\ phase[deviceMap[d]] # "unborn"
      <3>1. Home[d] \in Workers /\ ~ \E v \in Workers : Successor[v] = Home[d]
        BY BrokerAssumption
      <3> QED BY <1>1, <3>1
    <2> QED BY <1>1, <1>3, <2>1 DEF Asked
  <1>6. Founded
    BY <1>1, <1>2, <1>4 DEF Founded
  <1>7. Ports
    <2>1. \A w \in Workers : Carrying(w, toWorker[w])
      BY <1>3 DEF Carrying
    <2> QED BY <1>2, <1>3, <2>1 DEF Ports
  <1>8. Tabled /\ Warned /\ Latest /\ Whole
    BY <1>2, <1>3, <1>4 DEF Tabled, Warned, Latest, Whole, SinglePairs
  <1>9. NoneStranded
    BY <1>3 DEF NoneStranded, Spaced
  <1>10. Backed
    BY <1>2, <1>3 DEF Backed, AllowsFit
  <1> QED BY <1>5, <1>6, <1>7, <1>8, <1>9, <1>10 DEF WiringInv, Wired

\* Every step keeps the wiring.
LEMMA WiringSteps ==
  ASSUME BrokerInv, BrokerInv', WiringInv, [BrokerNext]_brokerVars
  PROVE  WiringInv'
  <1>0. BrokerTypeOK /\ BrokerTypeOK' /\ IsFiniteSet(acks) /\ Rechecking /\ Asked /\ Wired
    BY DEF BrokerInv, WiringInv
  <1>1. ASSUME NEW w \in Workers, NEW d \in Devices, Call(w, d) PROVE WiringInv'
    BY <1>0, <1>1, QuietStepWired, WorkerAsked DEF WiringInv
  <1>2. ASSUME NEW w \in Workers, NEW ch \in Channels, PortClose(w, ch) PROVE WiringInv'
    BY <1>0, <1>2, PortCloseWired, WorkerAsked DEF WiringInv
  <1>3. ASSUME NEW w \in Workers, WorkerReceives(w) \/ WorkerPurges(w) \/ WorkerExits(w)
        PROVE  WiringInv'
    <2>1. WorkerReceives(w) => Wired'
      BY <1>0, ReceiveIsTurn, TurnKeeps
    <2>2. WorkerPurges(w) => Wired'
      BY <1>0, QuietStepWired
    <2>3. WorkerExits(w) => Wired'
      BY <1>0, WorkerExitsWired
    <2>4. Asked'
      BY <1>0, <1>3, WorkerAsked
    <2> QED BY <1>3, <2>1, <2>2, <2>3, <2>4 DEF WiringInv
  <1>4. ASSUME NEW w \in Workers, MainReceives(w) PROVE WiringInv'
    BY <1>0, <1>4, MainReceivesWired, MainReceivesAsked DEF WiringInv
  <1>5. ASSUME NEW w \in Workers, StartUnload(w) \/ UnloadModule(w) \/ ExitEvent(w) \/ Restart(w)
        PROVE  WiringInv'
    <2>1. StartUnload(w) => Wired'
      BY <1>0, QuietStepWired
    <2>2. UnloadModule(w) => Wired'
      BY <1>0, UnloadModuleWired
    <2>3. ExitEvent(w) => Wired'
      BY <1>0, ExitEventWired
    <2>4. Restart(w) => Wired'
      BY <1>0, RestartWired
    <2>5. Asked'
      BY <1>0, <1>5, MainAsked
    <2> QED BY <1>5, <2>1, <2>2, <2>3, <2>4, <2>5 DEF WiringInv
  <1>6. ASSUME NEW l \in lookups, RequestAnswered(l) \/ RecheckAnswered(l) PROVE WiringInv'
    <2>1. RequestAnswered(l) => Wired'
      BY <1>0, RequestAnsweredWired
    <2>2. RecheckAnswered(l) => Wired'
      BY <1>0, RecheckAnsweredWired
    <2>3. \E w \in Workers : TRUE
      BY <1>0, LookupFields DEF BrokerTypeOK
    <2>4. Asked'
      BY <1>0, <1>6, <2>3, MainAsked
    <2> QED BY <1>6, <2>1, <2>2, <2>4 DEF WiringInv
  <1>7. ASSUME RecheckGrants PROVE WiringInv'
    <2>1. \E w \in Workers : TRUE
      BY <1>7 DEF RecheckGrants, Pairs
    <2>2. PICK w \in Workers : TRUE
      BY <2>1
    <2>3. Wired' /\ Asked'
      BY <1>0, <1>7, <2>2, QuietStepWired, MainAsked
    <2> QED BY <2>3 DEF WiringInv
  <1>8. ASSUME NEW u \in Uses, Revoke(u) PROVE WiringInv'
    <2>1. PICK w \in Workers : TRUE
      BY BrokerAssumption
    <2>2. Wired' /\ Asked'
      BY <1>0, <1>8, <2>1, QuietStepWired, MainAsked
    <2> QED BY <2>2 DEF WiringInv
  <1>9. CASE UNCHANGED brokerVars
    <2>1. UNCHANGED <<deviceMap, registry, grants, used, lookups, current, acks, authorised, toWorker,
                      toMain, phase, peerDeviceWorkerMap, peerChannels, pendingPeerInvokes,
                      pair, callerEnd, calleeEnd, allowed>>
      BY <1>9 DEF brokerVars, mainVars, workerVars, chanVars
    <2>2. \E out : Announced(out)
      BY <1>0, <2>1, SilenceAnnounced
    <2>3. Undisturbed
      BY <2>1, CalmIsUndisturbed
    <2>4. Wired'
      BY <1>0, <2>2, <2>3, PostKeeps
    <2>5. Asked'
      BY <1>0, <2>1 DEF Asked, May
    <2> QED BY <2>4, <2>5 DEF WiringInv
  <1>10. CASE BrokerNext
    BY <1>1, <1>2, <1>3, <1>4, <1>5, <1>6, <1>7, <1>8, <1>10 DEF BrokerNext
  <1> QED BY <1>9, <1>10

\* Such wiring is what an honest registry rests on.
LEMMA WiringIsHonest == ASSUME BrokerTypeOK, WiringInv PROVE RegistryHonest
  <1>1. Wired
    BY DEF WiringInv
  <1>2. ASSUME NEW ch \in Channels, calleeEnd[ch] = "open", callerEnd[ch] = "open", ~May(pair[ch][2], pair[ch][1])
        PROVE  Closing(ch) \/ (registry[pair[ch]] = ch /\ allowed[ch] \subseteq grants[ch])
    <2>1. ch \in Made /\ ch \in Single
      BY <1>1, <1>2, MadeFacts DEF Wired, Single, CallerOf, CalleeOf
    <2>2. \A w, v : ShutIn(toWorker[w], v) => Told(w, v)
      BY DEF ShutIn, Shuts, Told
    <2>3. CASE registry[pair[ch]] = ch
      BY <1>1, <1>2, <2>1, <2>3 DEF Wired, Backed
    <2>4. CASE CallerWarned(ch)
      <3>1. ShutIn(toWorker[pair[ch][1]], pair[ch][2])
        BY <1>2, <2>4 DEF CallerWarned, CallerOf, CalleeOf
      <3> QED BY <2>2, <3>1 DEF Closing
    <2>5. CASE CalleeWarned(ch)
      <3>1. ShutIn(toWorker[pair[ch][2]], pair[ch][1])
        BY <1>2, <2>5 DEF CalleeWarned, CallerOf, CalleeOf, ShutFirst, ShutIn
      <3> QED BY <2>2, <3>1 DEF Closing
    <2> QED BY <1>1, <1>2, <2>1, <2>3, <2>4, <2>5 DEF Wired, Warned, Alive
  <1>3. ASSUME NEW p \in Pairs, ~May(p[2], p[1]), registry[p] # 0, phase[p[1]] = "up", phase[p[2]] = "up"
        PROVE  callerEnd[registry[p]] \in {"open", "transit"}
    BY <1>1, <1>3 DEF Wired, Whole, Alive, SinglePairs
  <1> QED BY <1>2, <1>3 DEF RegistryHonest, ServedIsRegistered, RegisteredIsPorted

\* The registry of lib/peer-channel-broker.js stays honest (RegistryHonest), whatever
\* workers exit, unload, restart or lose a right while ports and peer-invalidates are
\* on their way, for every pair whose callee does not call its caller too.
THEOREM RegistryStaysHonest == BrokerSpec => []RegistryHonest
  <1>1. BrokerInit => WiringInv
    BY WiringStarts
  <1>2. BrokerInv /\ BrokerInv' /\ WiringInv /\ [BrokerNext]_brokerVars => WiringInv'
    BY WiringSteps
  <1>3. BrokerInv /\ WiringInv => RegistryHonest
    BY WiringIsHonest DEF BrokerInv
  <1> QED BY <1>1, <1>2, <1>3, BrokerInvariance, PTL DEF BrokerSpec
==============================================================================
