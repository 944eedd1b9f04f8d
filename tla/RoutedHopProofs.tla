--------------------------- MODULE RoutedHopProofs ---------------------------
(***************************************************************************)
(* Proofs about RoutedHop.tla, for every set of calls: a call is never     *)
(* lost and never answered twice, whichever of reply, timer, metering and  *)
(* worker exit comes first, and the routed path implements HopContract.    *)
(*                                                                         *)
(* IInv is the inductive invariant.  It ties the place a call is in to how *)
(* far the main thread is with it (Placed) and what it was charged to the  *)
(* answers given and under way (Billed).                                   *)
(***************************************************************************)
EXTENDS RoutedHop, QueueLemmas

Messages == [id : Calls, out : Outcomes]

\* The stages in which a call waits in the main thread without a timer of its
\* own, and those in which its Session may still have one.
Untimed == {"none", "auth", "missing"}
Timed == {"sent", "meter", "m_billed", "m_unbilled"}

\* Where call c is.
Placed(c) ==
  /\ c \in Elems(up) <=> c \in asked /\ stage[c] = "none"
  /\ c \notin asked => stage[c] = "none"
  /\ c \in calleeQueue <=> stage[c] = "sent"
  /\ c \in timer => stage[c] \in Timed
  /\ c \in Ids(down) => c \notin timer /\ stage[c] \notin Untimed
  /\ callerAlive => ( c \in callerQueue <=>
                        /\ c \in asked
                        /\ stage[c] \in Untimed \/ c \in timer \/ c \in Ids(down) )
  /\ Len(answers[c]) = IF c \in asked \ callerQueue THEN 1 ELSE 0

\* The two directions of the caller's port.
Ports == Once(up) /\ OnceIds(down) /\ (~callerAlive => down = <<>>)

\* The bill that may go with an outcome, and when an outcome may be reported.
Refused == {"not_granted", "identity_unresolved", "rate_limited", "failed"}
BillFits(o, b) == (o = "billed" => b = 1) /\ (o \in Refused => b = 0)
Fits(o, c) ==
  BillFits(o, charged[c]) /\ (o \notin {"timeout", "gone"} => stage[c] = "done")

\* What call c has been charged, by how far it got, and what it was answered.
Billed(c) ==
  /\ charged[c] \in {0, 1}
  /\ stage[c] \in Untimed \cup {"sent", "meter"} => charged[c] = 0
  /\ stage[c] = "m_billed" => charged[c] = 1
  /\ answers[c] # <<>> => Fits(answers[c][1], c)

\* The answers under way.
Answers == \A m \in Elems(down) : Fits(m.out, m.id)

IInv ==
  /\ TypeOK /\ Ports /\ Answers
  /\ \A c \in Calls : Placed(c) /\ Billed(c)

(***************************************************************************)
(* What the main thread posts to the caller's worker.                      *)
(***************************************************************************)

\* Outcome o is posted for each call of D, and lost if the worker has exited.
Sends(D, o) ==
  /\ down' \in Seq(Messages) /\ OnceIds(down')
  /\ ~callerAlive => down' = <<>>
  /\ callerAlive => Ids(down') = Ids(down) \cup D
  /\ \A m \in Elems(down') : m \in Elems(down) \/ (m.id \in D /\ m.out = o)

\* No message is about no call.
LEMMA NoIds == Ids(<<>>) = {} /\ OnceIds(<<>>) /\ Elems(<<>>) = {}
  BY DEF Ids, OnceIds, Elems

\* What messages are about are calls.
LEMMA IdsAreCalls ==
  ASSUME NEW s \in Seq(Messages)
  PROVE  /\ Ids(s) \subseteq Calls /\ Elems(s) \subseteq Messages
         /\ \A m \in Elems(s) : m.id \in Ids(s) /\ m.id \in Calls
  <1>1. \A i \in DOMAIN s : s[i] \in Messages
    BY ElemsFacts, ElementOfSeq
  <1>2. \A m \in Messages : m.id \in Calls
    BY DEF Messages
  <1> QED BY <1>1, <1>2 DEF Ids, Elems

\* A turn that posts nothing.
LEMMA SilentSends ==
  ASSUME TypeOK, Ports, UNCHANGED down, NEW o
  PROVE  Sends({}, o)
  BY DEF TypeOK, Ports, Sends, Messages

\* Posting a sequence of messages with one outcome.
LEMMA PostSends ==
  ASSUME TypeOK, Ports, NEW s \in Seq(Messages), NEW D, NEW o,
         OnceIds(s), Ids(s) = D, D \cap Ids(down) = {},
         \A m \in Elems(s) : m.out = o,
         ReplyAll(s)
  PROVE  Sends(D, o)
  <1>1. down \in Seq(Messages)
    BY DEF TypeOK, Messages
  <1>2. CASE callerAlive
    <2>1. down' = down \o s
      BY <1>2 DEF ReplyAll
    <2>2. /\ down' \in Seq(Messages) /\ Elems(down') = Elems(down) \cup Elems(s)
          /\ Ids(down') = Ids(down) \cup Ids(s) /\ OnceIds(down')
      BY <1>1, <2>1, ConcatFacts DEF Ports
    <2>3. \A m \in Elems(s) : m.id \in Ids(s)
      BY IdsAreCalls
    <2> QED BY <2>2, <2>3, <1>2 DEF Sends
  <1>3. CASE ~callerAlive
    <2>1. down' = down /\ down = <<>>
      BY <1>3 DEF ReplyAll, Ports
    <2> QED BY <2>1, <1>1, <1>3, NoIds DEF Sends
  <1> QED BY <1>2, <1>3

\* Posting one reply.
LEMMA ReplySends ==
  ASSUME TypeOK, Ports, NEW c \in Calls, NEW o \in Outcomes, c \notin Ids(down),
         ReplyTo(c, o)
  PROVE  Sends({c}, o)
  <1> DEFINE m == [id |-> c, out |-> o]
  <1>1. m \in Messages /\ m.id = c /\ m.out = o /\ ReplyAll(<<m>>)
    BY DEF Messages, ReplyTo
  <1> HIDE DEF m
  <1>2. /\ <<m>> \in Seq(Messages) /\ Elems(<<m>>) = {m} /\ Ids(<<m>>) = {c}
        /\ OnceIds(<<m>>)
    BY <1>1, OneMessage
  <1>3. {c} \cap Ids(down) = {} /\ \A x \in Elems(<<m>>) : x.out = o
    BY <1>1, <1>2
  <1> QED BY <1>1, <1>2, <1>3, PostSends

\* Session.callback answers only a call that still has its timer.
LEMMA CallbackSends ==
  ASSUME TypeOK, Ports, NEW c \in Calls, NEW o \in Outcomes, Placed(c),
         SessionCallback(c, o)
  PROVE  timer' = timer \ {c} /\ Sends(timer \cap {c}, o)
  <1>1. CASE c \in timer
    <2>1. c \notin Ids(down) /\ timer' = timer \ {c} /\ ReplyTo(c, o)
      BY <1>1 DEF Placed, SessionCallback
    <2>2. timer \cap {c} = {c}
      BY <1>1
    <2> QED BY <2>1, <2>2, ReplySends
  <1>2. CASE c \notin timer
    <2>1. timer' = timer /\ UNCHANGED down /\ timer \cap {c} = {} /\ timer \ {c} = timer
      BY <1>2 DEF SessionCallback
    <2> QED BY <2>1, SilentSends
  <1> QED BY <1>1, <1>2

\* An order of a finite set names each of its elements once.
LEMMA OrdersAreInjective ==
  ASSUME NEW S, IsFiniteSet(S), NEW f \in Orders(S)
  PROVE  /\ Cardinality(S) \in Nat /\ f \in [1 .. Cardinality(S) -> S]
         /\ \A i, j \in 1 .. Cardinality(S) : f[i] = f[j] => i = j
         /\ \A c \in S : \E i \in 1 .. Cardinality(S) : f[i] = c
  <1> DEFINE n == Cardinality(S)
  <1>1. n \in Nat
    BY FS_CardinalityType
  <1>2. f \in [1 .. n -> S] /\ \A c \in S : \E i \in 1 .. n : f[i] = c
    BY DEF Orders
  <1>3. f \in Surjection(1 .. n, S)
    BY <1>2 DEF Surjection
  <1>4. IsFiniteSet(1 .. n) /\ Cardinality(1 .. n) = n
    BY <1>1, FS_Interval
  <1>5. f \in Injection(1 .. n, S)
    BY <1>3, <1>4, FS_SurjSameCardinalityImpliesInj
  <1> HIDE DEF n
  <1>6. \A i, j \in 1 .. n : f[i] = f[j] => i = j
    BY <1>5 DEF Injection, IsInjective
  <1> QED BY <1>1, <1>2, <1>6 DEF n

\* endWith answers each request it still owes, once.
LEMMA EndSends ==
  ASSUME TypeOK, Ports, NEW D \in SUBSET Calls, D \cap Ids(down) = {}, NEW f \in Orders(D),
         ReplyAll([i \in DOMAIN f |-> [id |-> f[i], out |-> "failed"]])
  PROVE  Sends(D, "failed")
  <1> DEFINE n == Cardinality(D)
             s == [i \in DOMAIN f |-> [id |-> f[i], out |-> "failed"]]
  <1>1. IsFiniteSet(D)
    BY HopAssumption, FS_Subset
  <1>2. /\ n \in Nat /\ f \in [1 .. n -> D]
        /\ \A i, j \in 1 .. n : f[i] = f[j] => i = j
        /\ \A c \in D : \E i \in 1 .. n : f[i] = c
    BY <1>1, OrdersAreInjective
  <1> HIDE DEF n
  <1>3. DOMAIN s = 1 .. n
    BY <1>2
  <1>4. \A i \in 1 .. n : s[i] \in Messages /\ s[i].id = f[i] /\ s[i].out = "failed"
    BY <1>2 DEF Messages, Outcomes
  <1>5. s \in [1 .. n -> Messages]
    BY <1>2, <1>4
  <1>6. s \in Seq(Messages)
    BY <1>2, <1>5, SeqDef
  <1>7. ReplyAll(s)
    OBVIOUS
  <1> HIDE DEF s
  <1>8. OnceIds(s)
    BY <1>2, <1>3, <1>4 DEF OnceIds
  <1>9. Ids(s) = D
    BY <1>2, <1>3, <1>4 DEF Ids
  <1>10. \A m \in Elems(s) : m.out = "failed"
    BY <1>3, <1>4 DEF Elems
  <1> QED BY <1>6, <1>7, <1>8, <1>9, <1>10, PostSends

(***************************************************************************)
(* What a turn of the main thread keeps.                                   *)
(***************************************************************************)

\* A call's stage and charge change only while it is not done.
Moves == \A d \in Calls : stage[d] # "done" \/ (stage'[d] = stage[d] /\ charged'[d] = charged[d])

\* What an answer says stays true while other things happen to its call.
LEMMA FitsKept ==
  ASSUME NEW d \in Calls, NEW o, Moves, Fits(o, d)
  PROVE  Fits(o, d)'
  BY DEF Moves, Fits, BillFits, Refused

\* The turn does not touch call d.
Same(d) ==
  /\ stage'[d] = stage[d] /\ charged'[d] = charged[d]
  /\ d \in Elems(up') <=> d \in Elems(up)
  /\ d \in timer' <=> d \in timer
  /\ d \in calleeQueue' <=> d \in calleeQueue
  /\ d \in Ids(down') => d \in Ids(down)
  /\ callerAlive /\ d \in Ids(down) => d \in Ids(down')

\* A call no turn touches stays where it is.
LEMMA SamePlaced ==
  ASSUME NEW d \in Calls, Placed(d), UNCHANGED callerVars, Same(d)
  PROVE  Placed(d)'
  BY DEF Placed, Same, callerVars

\* Posting answers for the calls of D touches no other.
LEMMA SendsElsewhere ==
  ASSUME NEW D, NEW o, Sends(D, o), NEW d \in Calls \ D
  PROVE  /\ d \in Ids(down') => d \in Ids(down)
         /\ callerAlive /\ d \in Ids(down) => d \in Ids(down')
  BY NoIds DEF Sends

\* The answers under way after a turn that posts outcome o for the calls of D.
LEMMA AnswersKept ==
  ASSUME TypeOK, Answers, Moves, NEW D \in SUBSET Calls, NEW o, Sends(D, o),
         \A d \in D : Fits(o, d)'
  PROVE  Answers'
  <1> SUFFICES ASSUME NEW m \in Elems(down') PROVE Fits(m.out, m.id)'
    BY DEF Answers
  <1>1. CASE m \in Elems(down)
    <2>1. m.id \in Calls
      BY <1>1, IdsAreCalls DEF TypeOK, Messages
    <2>2. Fits(m.out, m.id)
      BY <1>1 DEF Answers
    <2> QED BY <2>1, <2>2, FitsKept
  <1>2. CASE m.id \in D /\ m.out = o
    BY <1>2
  <1> QED BY <1>1, <1>2 DEF Sends

\* The charge of call c, and its answer, after a turn of the main thread.
LEMMA BilledKept ==
  ASSUME NEW d \in Calls, Billed(d), Moves, UNCHANGED answers,
         charged'[d] \in {0, 1},
         stage'[d] \in Untimed \cup {"sent", "meter"} => charged'[d] = 0,
         stage'[d] = "m_billed" => charged'[d] = 1
  PROVE  Billed(d)'
  <1>1. answers'[d] # <<>> => Fits(answers[d][1], d)'
    BY FitsKept DEF Billed
  <1> QED BY <1>1 DEF Billed

\* A turn of the main thread that posts outcome o for the calls of D keeps the
\* invariant if it keeps the place and the charge of every call.
LEMMA MainTurn ==
  ASSUME IInv, TypeOK', Once(up'), UNCHANGED <<callerAlive, answers>>, Moves,
         NEW D \in SUBSET Calls, NEW o, Sends(D, o), \A d \in D : Fits(o, d)',
         \A d \in Calls : /\ Placed(d)'
                          /\ charged'[d] \in {0, 1}
                          /\ stage'[d] \in Untimed \cup {"sent", "meter"} => charged'[d] = 0
                          /\ stage'[d] = "m_billed" => charged'[d] = 1
  PROVE  IInv'
  <1>1. Answers'
    BY AnswersKept DEF IInv
  <1>2. Ports'
    BY DEF Ports, Sends
  <1>3. \A d \in Calls : Billed(d)'
    BY BilledKept DEF IInv
  <1> QED BY <1>1, <1>2, <1>3 DEF IInv

(***************************************************************************)
(* The inductive invariant: the initial states and the caller's worker.    *)
(***************************************************************************)

\* No call is anywhere yet.
LEMMA InitInv == Init => IInv
  <1> SUFFICES ASSUME Init PROVE IInv
    OBVIOUS
  <1>1. /\ Elems(up) = {} /\ Once(up) /\ Ids(down) = {} /\ OnceIds(down) /\ Elems(down) = {}
        /\ Len(<<>>) = 0
    BY EmptyFacts, NoIds DEF Init
  <1>2. <<>> \in Seq(Outcomes) /\ <<>> \in Seq(Calls) /\ <<>> \in Seq([id : Calls, out : Outcomes])
        /\ <<>> \in Seq([id : Calls, ok : BOOLEAN])
    OBVIOUS
  <1>3. TypeOK
    BY <1>2 DEF Init, TypeOK, Stages
  <1>4. ASSUME NEW c \in Calls PROVE Placed(c) /\ Billed(c)
    BY <1>1 DEF Init, Placed, Billed, Untimed, Timed
  <1> QED BY <1>1, <1>3, <1>4 DEF Init, IInv, Ports, Answers

\* A new call is put on the way to the main thread.
LEMMA InvokeStep ==
  ASSUME IInv, NEW c \in Calls, Invoke(c)
  PROVE  IInv'
  <1>1. /\ TypeOK /\ Ports /\ Answers /\ callerAlive /\ c \notin asked
        /\ asked' = asked \cup {c} /\ callerQueue' = callerQueue \cup {c}
        /\ up' = Append(up, c)
        /\ UNCHANGED <<callerAlive, answers, down, stage, timer, calleeQueue, charged>>
        /\ \A d \in Calls : Placed(d) /\ Billed(d)
    BY DEF Invoke, IInv, mainVars
  <1>2. c \notin Elems(up) /\ stage[c] = "none" /\ c \notin callerQueue
    BY <1>1 DEF Placed, TypeOK
  <1>3. /\ up' \in Seq(Calls) /\ Once(up') /\ Elems(up') = Elems(up) \cup {c}
    BY <1>1, <1>2, AppendFacts DEF TypeOK, Ports
  <1>4. TypeOK'
    BY <1>1, <1>3 DEF TypeOK, Invoke, mainVars, calleeVars
  <1>5. ASSUME NEW d \in Calls PROVE Placed(d)'
    <2>1. Placed(d)
      BY <1>1
    <2>2. CASE d = c
      BY <2>1, <2>2, <1>1, <1>2, <1>3 DEF Placed, Untimed
    <2>3. CASE d # c
      BY <2>1, <2>3, <1>1, <1>3 DEF Placed
    <2> QED BY <2>2, <2>3
  <1>6. \A d \in Calls : Billed(d)'
    BY <1>1 DEF Billed, Fits
  <1>7. Ports' /\ Answers'
    BY <1>1, <1>3 DEF Ports, Answers, Fits
  <1> QED BY <1>4, <1>5, <1>6, <1>7 DEF IInv

\* A reply is for a call that is awaited; the callback gets its outcome.
LEMMA ReceiveFacts ==
  ASSUME IInv, CallerReceives
  PROVE  /\ Head(down).id \in callerQueue /\ Head(down).out \in Outcomes
         /\ Head(down) \in Elems(down)
         /\ answers[Head(down).id] = <<>>
         /\ answers' \in [Calls -> Seq(Outcomes)]
         /\ answers'[Head(down).id] = <<Head(down).out>>
         /\ \A d \in Calls \ {Head(down).id} : answers'[d] = answers[d]
         /\ callerQueue' = callerQueue \ {Head(down).id}
  <1> DEFINE msg == Head(down)
  <1>1. TypeOK /\ OnceIds(down) /\ callerAlive /\ down # <<>> /\ down \in Seq(Messages)
    BY DEF IInv, Ports, CallerReceives, TypeOK, Messages
  <1>2. msg.id \in Ids(down) /\ msg \in Messages /\ msg \in Elems(down)
    BY <1>1, TailIds, TailFacts
  <1>3. /\ msg.id \in callerQueue =>
             /\ answers' = [answers EXCEPT ![msg.id] = Append(@, msg.out)]
             /\ callerQueue' = callerQueue \ {msg.id}
    BY DEF CallerReceives
  <1> HIDE DEF msg
  <1>4. msg.id \in Calls /\ msg.out \in Outcomes
    BY <1>2 DEF Messages
  <1>5. Placed(msg.id)
    BY <1>4 DEF IInv
  <1>6. msg.id \in asked
    BY <1>2, <1>5 DEF Placed, Untimed
  <1>7. msg.id \in callerQueue /\ Len(answers[msg.id]) = 0
    BY <1>1, <1>2, <1>5, <1>6 DEF Placed
  <1>8. answers[msg.id] \in Seq(Outcomes) /\ answers \in [Calls -> Seq(Outcomes)]
    BY <1>1, <1>4 DEF TypeOK
  <1>9. answers[msg.id] = <<>>
    BY <1>7, <1>8, EmptySeq
  <1>10. Append(<<>>, msg.out) = <<msg.out>> /\ <<msg.out>> \in Seq(Outcomes)
    BY <1>4
  <1>11. answers' = [answers EXCEPT ![msg.id] = <<msg.out>>]
    BY <1>3, <1>7, <1>9, <1>10
  <1> QED BY <1>2, <1>3, <1>4, <1>7, <1>8, <1>9, <1>10, <1>11 DEF msg

\* A reply is received.
LEMMA ReceiveStep ==
  ASSUME IInv, CallerReceives
  PROVE  IInv'
  <1> DEFINE msg == Head(down)
  <1>1. /\ TypeOK /\ Ports /\ Answers /\ callerAlive /\ down # <<>> /\ down' = Tail(down)
        /\ UNCHANGED <<asked, callerAlive, up, stage, timer, calleeQueue, charged>>
        /\ \A d \in Calls : Placed(d) /\ Billed(d)
    BY DEF CallerReceives, IInv, mainVars
  <1>2. /\ msg.id \in callerQueue /\ msg.out \in Outcomes /\ msg \in Elems(down)
        /\ answers' \in [Calls -> Seq(Outcomes)]
        /\ answers'[msg.id] = <<msg.out>>
        /\ \A d \in Calls \ {msg.id} : answers'[d] = answers[d]
        /\ callerQueue' = callerQueue \ {msg.id}
    BY ReceiveFacts
  <1>3. /\ OnceIds(down') /\ Ids(down') = Ids(down) \ {msg.id} /\ msg.id \in Ids(down)
        /\ Elems(down') \subseteq Elems(down) /\ down' \in Seq([id : Calls, out : Outcomes])
    BY <1>1, TailIds, TailFacts DEF Ports, TypeOK
  <1> HIDE DEF msg
  <1>4. TypeOK'
    BY <1>1, <1>2, <1>3 DEF TypeOK, CallerReceives, mainVars, calleeVars
  <1>5. ASSUME NEW d \in Calls PROVE Placed(d)'
    <2>1. Placed(d)
      BY <1>1
    <2>2. CASE d = msg.id
      <3>1. Len(answers'[d]) = 1
        BY <2>2, <1>2
      <3> QED BY <2>1, <2>2, <3>1, <1>1, <1>2, <1>3 DEF Placed, TypeOK
    <2>3. CASE d # msg.id
      BY <2>1, <2>3, <1>1, <1>2, <1>3 DEF Placed
    <2> QED BY <2>2, <2>3
  <1>6. ASSUME NEW d \in Calls PROVE Billed(d)'
    <2>1. Billed(d) /\ Fits(msg.out, msg.id)
      BY <1>1, <1>2 DEF Answers
    <2>2. CASE d = msg.id
      <3>1. PICK o \in Outcomes : o = msg.out
        BY <1>2
      <3>2. answers'[d][1] = o /\ Fits(o, d)
        BY <2>1, <2>2, <3>1, <1>2
      <3>3. Fits(o, d)'
        BY <3>2, <1>1 DEF Fits
      <3> QED BY <2>1, <3>2, <3>3, <1>1 DEF Billed
    <2>3. CASE d # msg.id
      BY <2>1, <2>3, <1>1, <1>2 DEF Billed, Fits
    <2> QED BY <2>2, <2>3
  <1>7. Ports' /\ Answers'
    BY <1>1, <1>3 DEF Ports, Answers, Fits
  <1> QED BY <1>4, <1>5, <1>6, <1>7 DEF IInv

\* The caller's worker exits: what was on its way to it is lost.
LEMMA CallerExitsStep ==
  ASSUME IInv, CallerExits
  PROVE  IInv'
  <1>1. /\ TypeOK /\ Ports /\ callerAlive' = FALSE /\ down' = <<>>
        /\ UNCHANGED <<asked, callerQueue, answers, up, stage, timer, calleeQueue, charged>>
        /\ \A d \in Calls : Placed(d) /\ Billed(d)
    BY DEF CallerExits, IInv, mainVars
  <1>2. Ids(down') = {} /\ OnceIds(down') /\ Elems(down') = {}
    BY <1>1, NoIds
  <1>3. TypeOK'
    <2>1. down' \in Seq([id : Calls, out : Outcomes])
      BY <1>1
    <2> QED BY <2>1, <1>1 DEF TypeOK, CallerExits, mainVars, calleeVars
  <1>4. \A d \in Calls : Placed(d)'
    BY <1>1, <1>2 DEF Placed
  <1>5. \A d \in Calls : Billed(d)'
    BY <1>1 DEF Billed, Fits
  <1>6. Ports' /\ Answers'
    BY <1>1, <1>2 DEF Ports, Answers
  <1> QED BY <1>3, <1>4, <1>5, <1>6 DEF IInv

(***************************************************************************)
(* The main thread.                                                        *)
(***************************************************************************)

\* A turn that changes no call but c keeps the invariant if it does so for c.
LEMMA OneCallTurn ==
  ASSUME IInv, TypeOK', Once(up'), UNCHANGED callerVars, NEW c \in Calls, NEW D, NEW o,
         D = {} \/ D = {c}, Sends(D, o), D = {c} => Fits(o, c)',
         stage[c] # "done" \/ (stage'[c] = stage[c] /\ charged'[c] = charged[c]),
         \A d \in Calls \ {c} :
           /\ stage'[d] = stage[d] /\ charged'[d] = charged[d]
           /\ d \in Elems(up') <=> d \in Elems(up)
           /\ d \in timer' <=> d \in timer
           /\ d \in calleeQueue' <=> d \in calleeQueue,
         Placed(c)', charged'[c] \in {0, 1},
         stage'[c] \in Untimed \cup {"sent", "meter"} => charged'[c] = 0,
         stage'[c] = "m_billed" => charged'[c] = 1
  PROVE  IInv'
  <1>1. Moves /\ D \in SUBSET Calls /\ \A d \in D : Fits(o, d)'
    BY DEF Moves
  <1>2. ASSUME NEW d \in Calls
        PROVE  /\ Placed(d)'
               /\ charged'[d] \in {0, 1}
               /\ stage'[d] \in Untimed \cup {"sent", "meter"} => charged'[d] = 0
               /\ stage'[d] = "m_billed" => charged'[d] = 1
    <2>1. CASE d = c
      BY <2>1
    <2>2. CASE d # c
      <3>1. d \in Calls \ D /\ Placed(d) /\ Billed(d)
        BY <2>2 DEF IInv
      <3>2. Same(d)
        BY <3>1, <2>2, SendsElsewhere DEF Same
      <3>3. Placed(d)'
        BY <3>1, <3>2, SamePlaced
      <3> QED BY <3>1, <3>3, <2>2 DEF Billed
    <2> QED BY <2>1, <2>2
  <1>3. UNCHANGED <<callerAlive, answers>>
    BY DEF callerVars
  <1> QED BY <1>1, <1>2, <1>3, MainTurn

\* A call is taken off the caller's port.
LEMMA MainReceivesStep ==
  ASSUME IInv, MainReceives
  PROVE  IInv'
  <1>1. /\ up # <<>> /\ up' = Tail(up) /\ up \in Seq(Calls) /\ Once(up)
        /\ UNCHANGED <<callerVars, timer, calleeQueue, charged>> /\ TypeOK /\ Ports
    BY DEF IInv, TypeOK, Ports, MainReceives
  <1> PICK c \in Calls : c = Head(up)
    BY <1>1, TailFacts
  <1>2. /\ c \in Calls /\ c \in Elems(up) /\ up' \in Seq(Calls) /\ Once(up')
        /\ Elems(up') = Elems(up) \ {c}
    BY <1>1, TailFacts
  <1>3. \/ /\ stage' = [stage EXCEPT ![c] = "done"]
           /\ \E o \in {"rate_limited", "failed"} : ReplyTo(c, o)
        \/ /\ \E s \in {"auth", "missing"} : stage' = [stage EXCEPT ![c] = s]
           /\ UNCHANGED down
    BY DEF MainReceives, OverRate
  <1>4. Placed(c) /\ Billed(c) /\ stage \in [Calls -> Stages]
    BY <1>2, <1>1 DEF IInv, TypeOK
  <1>5. /\ stage[c] = "none" /\ c \in asked /\ c \notin Ids(down) /\ c \notin timer
        /\ c \notin calleeQueue /\ charged[c] = 0
    BY <1>2, <1>4 DEF Placed, Billed, Untimed, Timed
  <1>6. callerAlive => c \in callerQueue
    BY <1>4, <1>5 DEF Placed, Untimed
  <1>7. CASE /\ stage' = [stage EXCEPT ![c] = "done"]
             /\ \E o \in {"rate_limited", "failed"} : ReplyTo(c, o)
    <2>1. PICK o \in {"rate_limited", "failed"} : ReplyTo(c, o)
      BY <1>7
    <2>2. o \in Outcomes
      BY DEF Outcomes
    <2>3. Sends({c}, o)
      BY <2>1, <2>2, <1>1, <1>2, <1>5, ReplySends
    <2>4. stage'[c] = "done" /\ \A d \in Calls \ {c} : stage'[d] = stage[d]
      BY <1>2, <1>4, <1>7
    <2>5. Fits(o, c)'
      BY <2>4, <1>1, <1>5 DEF Fits, BillFits, Refused
    <2>6. TypeOK'
      BY <2>3, <1>1, <1>2, <1>7
         DEF TypeOK, MainReceives, callerVars, calleeVars, Sends, Messages, Stages
    <2>7. Placed(c)'
      <3>1. callerAlive => c \in Ids(down')
        BY <2>3 DEF Sends
      <3> QED BY <3>1, <2>4, <1>1, <1>2, <1>4, <1>5, <1>6 DEF Placed, callerVars, Untimed
    <2> QED BY <2>3, <2>4, <2>5, <2>6, <2>7, <1>1, <1>2, <1>5, OneCallTurn DEF Untimed
  <1>8. CASE /\ \E s \in {"auth", "missing"} : stage' = [stage EXCEPT ![c] = s]
             /\ UNCHANGED down
    <2>1. PICK s \in {"auth", "missing"} : stage' = [stage EXCEPT ![c] = s]
      BY <1>8
    <2>2. Sends({}, "failed")
      BY <1>1, <1>8, SilentSends
    <2>3. stage'[c] = s /\ \A d \in Calls \ {c} : stage'[d] = stage[d]
      BY <1>2, <1>4, <2>1
    <2>4. TypeOK'
      BY <2>1, <1>1, <1>2, <1>8
         DEF TypeOK, MainReceives, callerVars, calleeVars, Stages
    <2>5. Placed(c)'
      BY <2>3, <1>1, <1>2, <1>4, <1>5, <1>6, <1>8 DEF Placed, callerVars, Untimed
    <2> QED BY <2>2, <2>3, <2>4, <2>5, <1>1, <1>2, <1>5, OneCallTurn DEF Untimed
  <1> QED BY <1>3, <1>7, <1>8

\* A turn that answers call c, which has no timer yet, and is done with it.
LEMMA RefuseStep ==
  ASSUME IInv, NEW c \in Calls, stage[c] \in {"auth", "missing"}, NEW o \in {"failed", "not_granted"},
         stage' = [stage EXCEPT ![c] = "done"], ReplyTo(c, o),
         UNCHANGED <<callerVars, up, timer, calleeQueue, known, ended, calleeVars, charged>>
  PROVE  IInv'
  <1>1. TypeOK /\ Ports /\ Placed(c) /\ Billed(c) /\ stage \in [Calls -> Stages]
    BY DEF IInv, TypeOK
  <1>2. /\ c \in asked /\ c \notin Ids(down) /\ c \notin timer /\ c \notin Elems(up)
        /\ c \notin calleeQueue /\ charged[c] = 0 /\ (callerAlive => c \in callerQueue)
    BY <1>1 DEF Placed, Billed, Untimed, Timed
  <1>3. o \in Outcomes
    BY DEF Outcomes
  <1>4. Sends({c}, o)
    BY <1>1, <1>2, <1>3, ReplySends
  <1>5. stage'[c] = "done" /\ \A d \in Calls \ {c} : stage'[d] = stage[d]
    BY <1>1
  <1>6. Fits(o, c)'
    BY <1>5, <1>2 DEF Fits, BillFits, Refused
  <1>7. TypeOK'
    BY <1>1, <1>4 DEF TypeOK, callerVars, calleeVars, Sends, Messages, Stages
  <1>8. Placed(c)'
    <2>1. callerAlive => c \in Ids(down')
      BY <1>4 DEF Sends
    <2> QED BY <2>1, <1>1, <1>2, <1>5 DEF Placed, callerVars, Untimed
  <1>9. Once(up')
    BY <1>1 DEF Ports
  <1> QED BY <1>2, <1>4, <1>5, <1>6, <1>7, <1>8, <1>9, OneCallTurn DEF Untimed

\* userAuth answers for a device that is there: refused, or sent on.
LEMMA AuthAnswersStep ==
  ASSUME IInv, NEW c \in Calls, AuthAnswers(c)
  PROVE  IInv'
  <1>1. TypeOK /\ Ports /\ Placed(c) /\ Billed(c) /\ stage \in [Calls -> Stages] /\ stage[c] = "auth"
    BY DEF IInv, TypeOK, AuthAnswers
  <1>2. CASE c \notin Authorised \/ ended
    <2>1. \E o \in {"failed", "not_granted"} : ReplyTo(c, o)
      BY <1>2 DEF AuthAnswers
    <2>2. PICK o \in {"failed", "not_granted"} : ReplyTo(c, o)
      BY <2>1
    <2>3. /\ stage' = [stage EXCEPT ![c] = "done"]
          /\ UNCHANGED <<callerVars, up, timer, calleeQueue, known, ended, calleeVars, charged>>
      BY <1>2 DEF AuthAnswers, calleeVars
    <2> QED BY <2>2, <2>3, <1>1, RefuseStep
  <1>3. CASE ~(c \notin Authorised \/ ended)
    <2>1. /\ stage' = [stage EXCEPT ![c] = "sent"] /\ timer' = timer \cup {c}
          /\ calleeQueue' = calleeQueue \cup {c}
          /\ toCallee' = (IF calleeAlive THEN Append(toCallee, c) ELSE toCallee)
          /\ UNCHANGED <<callerVars, up, down, known, ended, fromCallee, running, calleeAlive, charged>>
      BY <1>3 DEF AuthAnswers
    <2>2. toCallee' \in Seq(Calls)
      BY <2>1, <1>1, AppendFacts DEF TypeOK
    <2>3. stage'[c] = "sent" /\ \A d \in Calls \ {c} : stage'[d] = stage[d]
      BY <2>1, <1>1
    <2>4. /\ c \in asked /\ c \notin Ids(down) /\ c \notin Elems(up)
          /\ charged[c] = 0 /\ (callerAlive => c \in callerQueue)
      BY <1>1 DEF Placed, Billed, Untimed, Timed
    <2>5. TypeOK'
      BY <2>1, <2>2, <1>1 DEF TypeOK, callerVars, Stages
    <2>6. Placed(c)'
      BY <2>1, <2>3, <2>4, <1>1 DEF Placed, callerVars, Untimed, Timed
    <2>7. Sends({}, "failed") /\ Once(up')
      BY <2>1, <1>1, SilentSends DEF Ports
    <2> QED BY <2>1, <2>3, <2>4, <2>5, <2>6, <2>7, <1>1, OneCallTurn DEF Untimed
  <1> QED BY <1>2, <1>3

\* A turn that touches neither a call's place nor its charge.
LEMMA QuietStep ==
  ASSUME IInv, TypeOK', UNCHANGED <<callerVars, up, down, stage, timer, calleeQueue, charged>>
  PROVE  IInv'
  <1>1. UNCHANGED <<asked, callerQueue, callerAlive, answers>>
    BY DEF callerVars
  <1>2. Ports /\ Answers /\ \A d \in Calls : Placed(d) /\ Billed(d)
    BY DEF IInv
  <1>3. Ports' /\ Answers'
    BY <1>1, <1>2 DEF Ports, Answers, Fits
  <1>4. \A d \in Calls : Placed(d)' /\ Billed(d)'
    BY <1>1, <1>2 DEF Placed, Billed, Fits
  <1> QED BY <1>3, <1>4 DEF IInv

\* The timer answers; the request stays where it is.
LEMMA TimerExpiresStep ==
  ASSUME IInv, NEW c \in Calls, TimerExpires(c)
  PROVE  IInv'
  <1>1. TypeOK /\ Ports /\ Placed(c) /\ Billed(c) /\ c \in timer
    BY DEF IInv, TimerExpires
  <1>2. SessionCallback(c, "timeout") /\ "timeout" \in Outcomes
        /\ UNCHANGED <<callerVars, up, stage, calleeQueue, known, ended, calleeVars, charged>>
    BY DEF TimerExpires, Outcomes
  <1>3. timer' = timer \ {c} /\ Sends(timer \cap {c}, "timeout")
    BY <1>1, <1>2, CallbackSends
  <1>4. timer \cap {c} = {c}
    BY <1>1
  <1>5. Fits("timeout", c)'
    BY DEF Fits, BillFits, Refused
  <1>6. TypeOK'
    BY <1>1, <1>2, <1>3 DEF TypeOK, callerVars, calleeVars, Sends, Messages
  <1>7. Placed(c)'
    <2>1. callerAlive => c \in Ids(down')
      BY <1>3, <1>4 DEF Sends
    <2>2. c \in asked /\ stage[c] \notin Untimed
      BY <1>1 DEF Placed, Timed, Untimed
    <2> QED BY <2>1, <2>2, <1>1, <1>2, <1>3 DEF Placed, callerVars
  <1>8. Once(up')
    BY <1>1, <1>2 DEF Ports
  <1> QED BY <1>1, <1>2, <1>3, <1>4, <1>5, <1>6, <1>7, <1>8, OneCallTurn DEF Billed

\* The main thread is done with call c, and answers it if its timer still runs.
LEMMA FinishStep ==
  ASSUME IInv, NEW c \in Calls, stage[c] \in Timed, NEW o \in Outcomes,
         BillFits(o, charged[c]), SessionCallback(c, o),
         stage' = [stage EXCEPT ![c] = "done"], calleeQueue' = calleeQueue \ {c},
         fromCallee' \in Seq([id : Calls, ok : BOOLEAN]),
         UNCHANGED <<callerVars, up, known, ended, toCallee, running, calleeAlive, charged>>
  PROVE  IInv'
  <1>1. TypeOK /\ Ports /\ Placed(c) /\ Billed(c) /\ stage \in [Calls -> Stages]
    BY DEF IInv, TypeOK
  <1>2. timer' = timer \ {c} /\ Sends(timer \cap {c}, o)
    BY <1>1, CallbackSends
  <1>3. stage'[c] = "done" /\ \A d \in Calls \ {c} : stage'[d] = stage[d]
    BY <1>1
  <1>4. Fits(o, c)'
    BY <1>3 DEF Fits, BillFits
  <1>5. TypeOK'
    BY <1>1, <1>2 DEF TypeOK, callerVars, Sends, Messages, Stages
  <1>6. Placed(c)'
    <2>1. /\ c \in asked /\ c \notin Elems(up) /\ stage[c] \notin Untimed
          /\ (callerAlive => (c \in callerQueue <=> c \in timer \/ c \in Ids(down)))
      BY <1>1 DEF Placed, Timed, Untimed
    <2>2. callerAlive => Ids(down') = Ids(down) \cup (timer \cap {c})
      BY <1>2 DEF Sends
    <2>3. "done" \notin Untimed
      BY DEF Untimed
    <2> QED BY <2>1, <2>2, <2>3, <1>1, <1>2, <1>3 DEF Placed, callerVars
  <1>7. Once(up') /\ stage[c] # "done" /\ "done" \notin Untimed \cup {"sent", "meter"}
    BY <1>1 DEF Ports, Timed, Untimed
  <1>8. timer \cap {c} = {} \/ timer \cap {c} = {c}
    OBVIOUS
  <1> QED BY <1>1, <1>2, <1>3, <1>4, <1>5, <1>6, <1>7, <1>8, OneCallTurn DEF Billed

\* A reply from the callee.
LEMMA MainReplyStep ==
  ASSUME IInv, MainReply
  PROVE  IInv'
  <1>1. /\ TypeOK /\ fromCallee # <<>> /\ fromCallee' = Tail(fromCallee)
        /\ fromCallee \in Seq([id : Calls, ok : BOOLEAN])
        /\ UNCHANGED <<callerVars, up, known, ended, toCallee, running, calleeAlive, charged>>
    BY DEF IInv, TypeOK, MainReply
  <1>2. /\ Head(fromCallee) \in [id : Calls, ok : BOOLEAN]
        /\ fromCallee' \in Seq([id : Calls, ok : BOOLEAN])
    BY <1>1, TailFacts
  <1> PICK c \in Calls : c = Head(fromCallee).id
    BY <1>2
  <1>3. /\ calleeQueue' = calleeQueue \ {c}
        /\ \/ c \notin calleeQueue /\ UNCHANGED <<stage, timer, down>>
           \/ /\ c \in calleeQueue /\ stage' = [stage EXCEPT ![c] = "done"]
              /\ \E o \in {"failed", "identity_unresolved"} : SessionCallback(c, o)
           \/ /\ c \in calleeQueue /\ stage' = [stage EXCEPT ![c] = "meter"]
              /\ UNCHANGED <<timer, down>>
    BY DEF MainReply
  <1>4. Placed(c) /\ Billed(c) /\ Ports /\ stage \in [Calls -> Stages]
    BY <1>1 DEF IInv, TypeOK
  <1>5. CASE c \notin calleeQueue /\ UNCHANGED <<stage, timer, down>>
    <2>1. calleeQueue' = calleeQueue
      BY <1>3, <1>5
    <2>2. TypeOK'
      BY <2>1, <1>1, <1>2, <1>5 DEF TypeOK, callerVars
    <2> QED BY <2>1, <2>2, <1>1, <1>5, QuietStep
  <1>6. CASE /\ c \in calleeQueue /\ stage' = [stage EXCEPT ![c] = "done"]
             /\ \E o \in {"failed", "identity_unresolved"} : SessionCallback(c, o)
    <2>1. PICK o \in {"failed", "identity_unresolved"} : SessionCallback(c, o)
      BY <1>6
    <2>2. o \in Outcomes
      BY DEF Outcomes
    <2>3. stage[c] \in Timed /\ BillFits(o, charged[c])
      BY <1>4, <1>6 DEF Placed, Billed, Timed, BillFits, Refused
    <2> QED BY <2>1, <2>2, <2>3, <1>1, <1>2, <1>3, <1>6, FinishStep
  <1>7. CASE /\ c \in calleeQueue /\ stage' = [stage EXCEPT ![c] = "meter"]
             /\ UNCHANGED <<timer, down>>
    <2>1. stage[c] = "sent" /\ charged[c] = 0
      BY <1>4, <1>7 DEF Placed, Billed
    <2>2. stage'[c] = "meter" /\ \A d \in Calls \ {c} : stage'[d] = stage[d]
      BY <1>4, <1>7
    <2>3. TypeOK'
      BY <1>1, <1>2, <1>3, <1>7 DEF TypeOK, callerVars, Stages
    <2>4. Placed(c)'
      BY <2>1, <2>2, <1>1, <1>3, <1>4, <1>7 DEF Placed, callerVars, Timed, Untimed
    <2>5. Sends({}, "failed") /\ Once(up')
      BY <1>1, <1>4, <1>7, SilentSends DEF Ports
    <2> QED BY <2>1, <2>2, <2>3, <2>4, <2>5, <1>1, <1>3, <1>7, OneCallTurn
  <1> QED BY <1>3, <1>5, <1>6, <1>7

\* recordCall at the store.
LEMMA StoreChargesStep ==
  ASSUME IInv, NEW c \in Calls, StoreCharges(c)
  PROVE  IInv'
  <1>1. /\ TypeOK /\ Ports /\ Placed(c) /\ Billed(c) /\ stage \in [Calls -> Stages]
        /\ charged \in [Calls -> Nat] /\ stage[c] = "meter"
        /\ UNCHANGED <<callerVars, up, down, timer, calleeQueue, known, ended, calleeVars>>
    BY DEF IInv, TypeOK, StoreCharges
  <1>2. charged[c] = 0
    BY <1>1 DEF Billed
  <1>3. \/ stage' = [stage EXCEPT ![c] = "m_billed"] /\ charged' = [charged EXCEPT ![c] = 1]
        \/ stage' = [stage EXCEPT ![c] = "m_unbilled"] /\ charged' = charged
        \/ stage' = [stage EXCEPT ![c] = "m_unbilled"] /\ charged' = [charged EXCEPT ![c] = 1]
    BY <1>1, <1>2 DEF StoreCharges
  <1>4. /\ stage'[c] \in {"m_billed", "m_unbilled"} /\ charged'[c] \in {0, 1}
        /\ stage'[c] = "m_billed" => charged'[c] = 1
        /\ \A d \in Calls \ {c} : stage'[d] = stage[d] /\ charged'[d] = charged[d]
    BY <1>1, <1>2, <1>3
  <1>5. stage' \in [Calls -> Stages] /\ charged' \in [Calls -> Nat]
    BY <1>1, <1>3 DEF Stages
  <1>6. TypeOK'
    BY <1>1, <1>5 DEF TypeOK, callerVars, calleeVars
  <1>7. Placed(c)'
    BY <1>1, <1>4 DEF Placed, callerVars, Timed, Untimed
  <1>8. Sends({}, "failed") /\ Once(up')
    BY <1>1, SilentSends DEF Ports
  <1> QED BY <1>1, <1>4, <1>6, <1>7, <1>8, OneCallTurn DEF Untimed

\* recordCall's callback.
LEMMA MeteringAnswersStep ==
  ASSUME IInv, NEW c \in Calls, MeteringAnswers(c)
  PROVE  IInv'
  <1>1. /\ stage[c] \in Timed /\ Placed(c) /\ Billed(c) /\ c \notin calleeQueue
        /\ fromCallee \in Seq([id : Calls, ok : BOOLEAN])
    BY DEF IInv, MeteringAnswers, Timed, Placed, TypeOK
  <1>2. \E o \in {"billed", "unbilled"} : SessionCallback(c, o) /\ BillFits(o, charged[c])
    <2>1. CASE stage[c] = "m_billed"
      <3>1. SessionCallback(c, "billed") /\ charged[c] = 1
        BY <2>1, <1>1 DEF MeteringAnswers, Billed
      <3> QED BY <3>1 DEF BillFits, Refused
    <2>2. CASE stage[c] = "m_unbilled"
      <3>1. SessionCallback(c, "unbilled")
        BY <2>2 DEF MeteringAnswers
      <3> QED BY <3>1 DEF BillFits, Refused
    <2> QED BY <2>1, <2>2 DEF MeteringAnswers
  <1>3. PICK o \in {"billed", "unbilled"} : SessionCallback(c, o) /\ BillFits(o, charged[c])
    BY <1>2
  <1>4. o \in Outcomes
    BY DEF Outcomes
  <1>5. /\ stage' = [stage EXCEPT ![c] = "done"] /\ calleeQueue' = calleeQueue \ {c}
        /\ fromCallee' \in Seq([id : Calls, ok : BOOLEAN])
        /\ UNCHANGED <<callerVars, up, known, ended, toCallee, running, calleeAlive, charged>>
    BY <1>1 DEF MeteringAnswers, calleeVars
  <1> QED BY <1>1, <1>3, <1>4, <1>5, FinishStep

\* The callee's exit: every request it still owes is answered as failed.
LEMMA CalleeExitStep ==
  ASSUME IInv, CalleeExitEvent
  PROVE  IInv'
  <1>1. /\ TypeOK /\ Ports /\ stage \in [Calls -> Stages]
        /\ stage' = [c \in Calls |-> IF c \in calleeQueue THEN "done" ELSE stage[c]]
        /\ timer' = timer \ calleeQueue /\ calleeQueue' = {}
        /\ UNCHANGED <<callerVars, up, calleeVars, charged>>
        /\ \A d \in Calls : Placed(d) /\ Billed(d)
    BY DEF IInv, TypeOK, CalleeExitEvent
  <1> PICK D \in SUBSET Calls : D = calleeQueue \cap timer
    BY <1>1 DEF TypeOK
  <1>2. D \cap Ids(down) = {}
    BY <1>1 DEF Placed
  <1>3. Sends(D, "failed")
    <2>1. PICK f \in Orders(D) : ReplyAll([i \in DOMAIN f |-> [id |-> f[i], out |-> "failed"]])
      BY DEF CalleeExitEvent
    <2> QED BY <2>1, <1>1, <1>2, EndSends
  <1>4. \A d \in Calls : IF d \in calleeQueue THEN stage[d] = "sent" /\ stage'[d] = "done"
                         ELSE stage[d] # "sent" /\ stage'[d] = stage[d]
    BY <1>1 DEF Placed
  <1>5. TypeOK'
    <2>1. stage' \in [Calls -> Stages]
      BY <1>1 DEF Stages
    <2>2. timer' \in SUBSET Calls /\ calleeQueue' \in SUBSET Calls
      BY <1>1 DEF TypeOK
    <2>3. known' \in BOOLEAN /\ ended' \in BOOLEAN
      BY DEF CalleeExitEvent
    <2> QED BY <2>1, <2>2, <2>3, <1>1, <1>3 DEF TypeOK, callerVars, calleeVars, Sends, Messages
  <1>6. Moves /\ \A d \in D : Fits("failed", d)'
    <2>1. \A d \in D : charged[d] = 0
      BY <1>1, <1>4 DEF Billed
    <2> QED BY <2>1, <1>1, <1>4 DEF Moves, Fits, BillFits, Refused
  <1>7. ASSUME NEW d \in Calls
        PROVE  /\ Placed(d)'
               /\ charged'[d] \in {0, 1}
               /\ stage'[d] \in Untimed \cup {"sent", "meter"} => charged'[d] = 0
               /\ stage'[d] = "m_billed" => charged'[d] = 1
    <2>1. Placed(d) /\ Billed(d) /\ charged'[d] = charged[d]
      BY <1>1
    <2>2. CASE d \in calleeQueue
      <3>1. stage[d] = "sent" /\ stage'[d] = "done"
        BY <2>2, <1>4
      <3>2. callerAlive => Ids(down') = Ids(down) \cup D
        BY <1>3 DEF Sends
      <3>3. ~callerAlive => Ids(down') = {}
        BY <1>3, NoIds DEF Sends
      <3>4. d \in D <=> d \in timer
        BY <2>2
      <3>5. Placed(d)'
        BY <2>1, <2>2, <3>1, <3>2, <3>3, <3>4, <1>1 DEF Placed, callerVars, Timed, Untimed
      <3> QED BY <2>1, <3>1, <3>5 DEF Billed, Untimed
    <2>3. CASE d \notin calleeQueue
      <3>1. d \in Calls \ D /\ stage'[d] = stage[d] /\ (d \in timer' <=> d \in timer)
        BY <2>3, <1>1, <1>4
      <3>2. Same(d)
        BY <3>1, <2>1, <2>3, <1>1, <1>3, SendsElsewhere DEF Same
      <3>3. Placed(d)'
        BY <2>1, <3>2, <1>1, SamePlaced
      <3> QED BY <2>1, <3>1, <3>3 DEF Billed
    <2> QED BY <2>2, <2>3
  <1>8. Once(up') /\ UNCHANGED <<callerAlive, answers>>
    BY <1>1 DEF Ports, callerVars
  <1> QED BY <1>3, <1>5, <1>6, <1>7, <1>8, MainTurn

(***************************************************************************)
(* The callee's worker, and every step.                                    *)
(***************************************************************************)

\* What the callee's worker does, and a purge, leave every call in its place.
LEMMA CalleeStep ==
  ASSUME IInv, DevicePurged \/ CalleeStarts \/ CalleeExits \/ \E c \in Calls : CalleeReturns(c)
  PROVE  IInv'
  <1>1. TypeOK
    BY DEF IInv
  <1>2. UNCHANGED <<callerVars, up, down, stage, timer, calleeQueue, charged>>
    BY DEF DevicePurged, CalleeStarts, CalleeExits, CalleeReturns, mainVars
  <1>3. UNCHANGED <<asked, callerQueue, callerAlive, answers>>
    BY <1>2 DEF callerVars
  <1>4. CASE DevicePurged
    <2>1. TypeOK'
      BY <1>1, <1>2, <1>3, <1>4 DEF TypeOK, DevicePurged, calleeVars
    <2> QED BY <2>1, <1>2, QuietStep
  <1>5. CASE CalleeStarts
    <2>1. Head(toCallee) \in Calls /\ toCallee' \in Seq(Calls)
      BY <1>1, <1>5, TailFacts DEF TypeOK, CalleeStarts
    <2>2. TypeOK'
      BY <2>1, <1>1, <1>2, <1>3, <1>5 DEF TypeOK, CalleeStarts, mainVars
    <2> QED BY <2>2, <1>2, QuietStep
  <1>6. ASSUME NEW c \in Calls, CalleeReturns(c) PROVE IInv'
    <2>1. PICK ok \in BOOLEAN : fromCallee' = Append(fromCallee, [id |-> c, ok |-> ok])
      BY <1>6 DEF CalleeReturns
    <2>2. [id |-> c, ok |-> ok] \in [id : Calls, ok : BOOLEAN]
      OBVIOUS
    <2>3. fromCallee' \in Seq([id : Calls, ok : BOOLEAN])
      BY <2>1, <2>2, <1>1, AppendFacts DEF TypeOK
    <2>4. TypeOK'
      BY <2>3, <1>1, <1>2, <1>3, <1>6 DEF TypeOK, CalleeReturns, mainVars
    <2> QED BY <2>4, <1>2, QuietStep
  <1>7. CASE CalleeExits
    <2>1. toCallee' \in Seq(Calls)
      BY <1>7 DEF CalleeExits
    <2>2. TypeOK'
      BY <2>1, <1>1, <1>2, <1>3, <1>7 DEF TypeOK, CalleeExits, mainVars
    <2> QED BY <2>2, <1>2, QuietStep
  <1> QED BY <1>4, <1>5, <1>6, <1>7

\* Every step keeps the invariant.
LEMMA NextInv == IInv /\ [Next]_vars => IInv'
  <1> SUFFICES ASSUME IInv, [Next]_vars PROVE IInv'
    OBVIOUS
  <1>1. CASE UNCHANGED vars
    <2>1. UNCHANGED <<callerVars, up, down, stage, timer, calleeQueue, charged>>
      BY <1>1 DEF vars, mainVars
    <2>2. TypeOK'
      BY <1>1 DEF IInv, TypeOK, vars, callerVars, mainVars, calleeVars
    <2> QED BY <2>1, <2>2, QuietStep
  <1>2. ASSUME NEW c \in Calls, Invoke(c) PROVE IInv'
    BY <1>2, InvokeStep
  <1>3. ASSUME NEW c \in Calls, MissingAnswers(c) PROVE IInv'
    <2>1. \E o \in {"failed", "not_granted"} : ReplyTo(c, o)
      BY <1>3 DEF MissingAnswers
    <2>2. PICK o \in {"failed", "not_granted"} : ReplyTo(c, o)
      BY <2>1
    <2>3. /\ stage[c] \in {"auth", "missing"} /\ stage' = [stage EXCEPT ![c] = "done"]
          /\ UNCHANGED <<callerVars, up, timer, calleeQueue, known, ended, calleeVars, charged>>
      BY <1>3 DEF MissingAnswers
    <2> QED BY <2>2, <2>3, RefuseStep
  <1>4. ASSUME NEW c \in Calls, AuthAnswers(c) \/ StoreCharges(c) \/ MeteringAnswers(c)
        PROVE  IInv'
    BY <1>4, AuthAnswersStep, StoreChargesStep, MeteringAnswersStep
  <1>5. ASSUME NEW c \in Calls, TimerExpires(c) PROVE IInv'
    BY <1>5, TimerExpiresStep
  <1>6. CASE CallerReceives \/ CallerExits \/ MainReceives \/ MainReply \/ CalleeExitEvent
    BY <1>6, ReceiveStep, CallerExitsStep, MainReceivesStep, MainReplyStep, CalleeExitStep
  <1>7. CASE DevicePurged \/ CalleeStarts \/ CalleeExits \/ \E c \in Calls : CalleeReturns(c)
    BY <1>7, CalleeStep
  <1> QED BY <1>1, <1>2, <1>3, <1>4, <1>5, <1>6, <1>7 DEF Next, Carry

(***************************************************************************)
(* The theorems.                                                           *)
(***************************************************************************)

\* The inductive invariant holds in every reachable state.
THEOREM Invariance == Spec => []IInv
  BY InitInv, NextInv, PTL DEF Spec

\* Every variable keeps the shape the code gives it.
THEOREM TypeCorrect == Spec => []TypeOK
  <1>1. IInv => TypeOK
    BY DEF IInv
  <1> QED BY <1>1, Invariance, PTL

\* A call that waits is in one of the four places, an answered one in none.
LEMMA OwnersCounted ==
  ASSUME IInv, callerAlive, NEW c \in Calls
  PROVE  Cardinality(Owners(c)) = IF c \in callerQueue THEN 1 ELSE 0
  <1>1. Placed(c) /\ TypeOK
    BY DEF IInv
  <1>2. /\ (\E j \in DOMAIN up : up[j] = c) <=> c \in Elems(up)
        /\ (\E j \in DOMAIN down : down[j].id = c) <=> c \in Ids(down)
    BY DEF Elems, Ids
  <1>3. Owners(c) = {i \in 1 .. 4 : \/ i = 1 /\ c \in Elems(up)
                                    \/ i = 2 /\ stage[c] \in {"auth", "missing"}
                                    \/ i = 3 /\ c \in timer
                                    \/ i = 4 /\ c \in Ids(down)}
    BY <1>2 DEF Owners
  <1>4. callerQueue \subseteq asked
    BY <1>1 DEF TypeOK
  <1>5. CASE c \notin callerQueue
    <2>1. c \notin asked \/ (stage[c] \notin Untimed /\ c \notin timer /\ c \notin Ids(down))
      BY <1>1, <1>5 DEF Placed
    <2>2. /\ c \notin Elems(up) /\ stage[c] \notin {"auth", "missing"}
          /\ c \notin timer /\ c \notin Ids(down)
      BY <1>1, <2>1 DEF Placed, Untimed, Timed
    <2>3. Owners(c) = {}
      BY <1>3, <2>2
    <2> QED BY <2>3, <1>5, FS_EmptySet
  <1>6. CASE c \in callerQueue
    <2>1. c \in asked /\ (stage[c] \in Untimed \/ c \in timer \/ c \in Ids(down))
      BY <1>1, <1>6 DEF Placed
    <2>2. PICK k \in 1 .. 4 : Owners(c) = {k}
      <3>1. CASE stage[c] = "none"
        <4>1. c \in Elems(up) /\ c \notin timer /\ c \notin Ids(down)
          BY <3>1, <2>1, <1>1 DEF Placed, Timed, Untimed
        <4>2. Owners(c) = {1}
          BY <4>1, <3>1, <1>3
        <4> QED BY <4>2
      <3>2. CASE stage[c] \in {"auth", "missing"}
        <4>1. c \notin Elems(up) /\ c \notin timer /\ c \notin Ids(down)
          BY <3>2, <1>1 DEF Placed, Timed, Untimed
        <4>2. Owners(c) = {2}
          BY <4>1, <3>2, <1>3
        <4> QED BY <4>2
      <3>3. CASE stage[c] \notin Untimed /\ c \in timer
        <4>1. c \notin Elems(up) /\ stage[c] \notin {"auth", "missing"} /\ c \notin Ids(down)
          BY <3>3, <1>1 DEF Placed, Untimed
        <4>2. Owners(c) = {3}
          BY <4>1, <3>3, <1>3
        <4> QED BY <4>2
      <3>4. CASE stage[c] \notin Untimed /\ c \notin timer
        <4>1. c \notin Elems(up) /\ stage[c] \notin {"auth", "missing"} /\ c \in Ids(down)
          BY <3>4, <2>1, <1>1 DEF Placed, Untimed
        <4>2. Owners(c) = {4}
          BY <4>1, <3>4, <1>3
        <4> QED BY <4>2
      <3> QED BY <3>1, <3>2, <3>3, <3>4 DEF Untimed
    <2> QED BY <2>2, <1>6, FS_Singleton
  <1> QED BY <1>5, <1>6

\* No call is lost and none is answered twice, whichever of the reply, the
\* session's timer, the metering and the callee's exit comes first.
THEOREM NeitherLostNorTwice == Spec => []OneOwner
  <1>1. IInv => OneOwner
    BY OwnersCounted DEF IInv, Placed, OneOwner
  <1> QED BY <1>1, Invariance, PTL

(***************************************************************************)
(* Refinement.                                                             *)
(***************************************************************************)

\* The abstract status, as the refinement mapping gives it.
Status == [c \in Calls |-> IF answers[c] # <<>> THEN answers[c][1]
                           ELSE IF c \in asked THEN "waiting" ELSE "idle"]

\* Before the first call.
LEMMA InitRefines == Init => Contract!Init
  BY DEF Init, Contract!Init

\* A step that fires no callback, makes no call and charges nobody stutters.
LEMMA Stutters ==
  ASSUME UNCHANGED <<asked, answers, charged>>
  PROVE  UNCHANGED Contract!contractVars
  BY DEF Contract!contractVars

\* A call that is not asked for, or is awaited, has no answer.
LEMMA Unanswered ==
  ASSUME IInv, NEW c \in Calls, c \notin asked \/ c \in callerQueue
  PROVE  answers[c] = <<>>
  <1>1. answers[c] \in Seq(Outcomes) /\ Len(answers[c]) = 0
    BY DEF IInv, TypeOK, Placed
  <1> QED BY <1>1, EmptySeq

\* invoke() asks.
LEMMA InvokeRefines ==
  ASSUME IInv, NEW c \in Calls, Invoke(c)
  PROVE  Contract!Ask(c)
  <1>1. c \notin asked /\ asked' = asked \cup {c} /\ UNCHANGED <<answers, charged>>
    BY DEF Invoke
  <1>2. answers[c] = <<>>
    BY <1>1, Unanswered
  <1>3. Status[c] = "idle" /\ Status' = [Status EXCEPT ![c] = "waiting"]
    BY <1>1, <1>2 DEF Status
  <1> QED BY <1>1, <1>3 DEF Contract!Ask, Status

\* The store charges a hop that is awaited or was given up on.
LEMMA StoreRefines ==
  ASSUME IInv, NEW c \in Calls, StoreCharges(c)
  PROVE  Contract!Charge(c) \/ UNCHANGED Contract!contractVars
  <1>1. /\ TypeOK /\ Placed(c) /\ Billed(c) /\ stage[c] = "meter"
        /\ UNCHANGED <<asked, answers>>
        /\ charged' = charged \/ charged' = [charged EXCEPT ![c] = @ + 1]
    BY DEF IInv, StoreCharges, callerVars
  <1>2. CASE charged' = charged
    BY <1>1, <1>2, Stutters
  <1>3. CASE charged' = [charged EXCEPT ![c] = @ + 1]
    <2>1. charged[c] = 0 /\ c \in asked
      BY <1>1 DEF Billed, Placed
    <2>2. answers[c] # <<>> => answers[c][1] \in {"timeout", "gone"}
      BY <1>1 DEF Billed, Fits
    <2>3. Status[c] \in {"waiting", "timeout", "gone"}
      BY <2>1, <2>2 DEF Status
    <2>4. charged' = [charged EXCEPT ![c] = 1] /\ Status' = Status
      BY <2>1, <1>1, <1>3 DEF TypeOK, Status
    <2> QED BY <2>1, <2>3, <2>4 DEF Contract!Charge, Contract!GaveUp, Status
  <1> QED BY <1>1, <1>2, <1>3

\* A reply answers the call it is for, with a bill that fits.
LEMMA ReceiveRefines ==
  ASSUME IInv, CallerReceives
  PROVE  Contract!Answer
  <1> DEFINE msg == Head(down)
  <1>1. TypeOK /\ TypeOK' /\ Answers /\ UNCHANGED <<asked, charged>>
    BY ReceiveStep DEF IInv, CallerReceives
  <1>2. /\ msg.id \in callerQueue /\ msg.out \in Outcomes /\ msg \in Elems(down)
        /\ answers[msg.id] = <<>> /\ answers'[msg.id] = <<msg.out>>
        /\ \A d \in Calls \ {msg.id} : answers'[d] = answers[d]
    BY ReceiveFacts
  <1> HIDE DEF msg
  <1>3. BillFits(msg.out, charged[msg.id])
    BY <1>1, <1>2 DEF Answers, Fits
  <1>4. msg.id \in Calls /\ msg.id \in asked
    BY <1>1, <1>2 DEF TypeOK
  <1>5. Contract!Outcomes = Outcomes
    BY DEF Contract!Outcomes, Contract!Billed, Contract!Unbilled, Contract!Refusals,
           Contract!GaveUp, Outcomes
  <1>6. /\ Status[msg.id] = "waiting" /\ Status'[msg.id] = msg.out
        /\ \A d \in Calls \ {msg.id} : Status'[d] = Status[d]
    BY <1>1, <1>2, <1>4 DEF Status
  <1>7. Status' \in [Calls -> {"idle", "waiting"} \cup Outcomes]
    <2>1. ASSUME NEW d \in Calls, answers'[d] # <<>> PROVE answers'[d][1] \in Outcomes
      <3>1. answers'[d] \in Seq(Outcomes)
        BY <1>1 DEF TypeOK
      <3>2. Len(answers'[d]) \in Nat \ {0}
        BY <2>1, <3>1, EmptySeq
      <3> QED BY <3>1, <3>2, ElementOfSeq
    <2>2. Status' = [d \in Calls |-> IF answers'[d] # <<>> THEN answers'[d][1]
                                     ELSE IF d \in asked' THEN "waiting" ELSE "idle"]
      BY DEF Status
    <2> QED BY <2>1, <2>2
  <1>8. Contract!Consistent(msg.out, charged[msg.id])
    BY <1>3 DEF BillFits, Refused, Contract!Consistent, Contract!Billed, Contract!Refusals
  <1>9. \A d \in Calls : Status'[d] # Status[d] =>
          /\ Status[d] = "waiting" /\ Status'[d] \in Outcomes
          /\ Contract!Consistent(Status'[d], charged[d])
    BY <1>2, <1>6, <1>8
  <1> QED BY <1>1, <1>5, <1>7, <1>9 DEF Contract!Answer, Status

\* Every step of the routed path is a step of the contract, or none of its business.
LEMMA NextRefines == IInv /\ [Next]_vars => [Contract!Next]_(Contract!contractVars)
  <1> SUFFICES ASSUME IInv, [Next]_vars
               PROVE  Contract!Next \/ UNCHANGED Contract!contractVars
    OBVIOUS
  <1>1. ASSUME NEW c \in Calls, Invoke(c) PROVE Contract!Next
    BY <1>1, InvokeRefines DEF Contract!Next
  <1>2. ASSUME NEW c \in Calls, StoreCharges(c)
        PROVE  Contract!Next \/ UNCHANGED Contract!contractVars
    BY <1>2, StoreRefines DEF Contract!Next
  <1>3. CASE CallerReceives
    BY <1>3, ReceiveRefines DEF Contract!Next
  <1>4. ASSUME NEW c \in Calls, \/ MissingAnswers(c) \/ AuthAnswers(c) \/ MeteringAnswers(c)
                                \/ TimerExpires(c) \/ CalleeReturns(c)
        PROVE  UNCHANGED Contract!contractVars
    <2>1. UNCHANGED <<asked, answers, charged>>
      BY <1>4 DEF MissingAnswers, AuthAnswers, MeteringAnswers, TimerExpires, CalleeReturns,
                  callerVars
    <2> QED BY <2>1, Stutters
  <1>5. CASE \/ CallerExits \/ MainReceives \/ MainReply \/ DevicePurged \/ CalleeExitEvent
             \/ CalleeStarts \/ CalleeExits \/ UNCHANGED vars
    <2>1. UNCHANGED <<asked, answers, charged>>
      BY <1>5 DEF CallerExits, MainReceives, MainReply, DevicePurged, CalleeExitEvent,
                  CalleeStarts, CalleeExits, vars, callerVars
    <2> QED BY <2>1, Stutters
  <1> QED BY <1>1, <1>2, <1>3, <1>4, <1>5 DEF Next, Carry

\* The main-thread-routed path implements the contract of a hop, for every set of
\* calls: with ChannelImplementsContract of PeerProofs, the flag
\* --directPeerChannels changes the transport and not what a caller may rely on.
THEOREM RouteImplementsContract == Spec => ImplementsContract
  BY InitRefines, NextRefines, Invariance, PTL DEF Spec, ImplementsContract, Contract!Spec

==============================================================================
