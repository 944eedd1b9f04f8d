----------------------------- MODULE QueueLemmas -----------------------------
(***************************************************************************)
(* Facts about sequences used as queues (a port's messages, a waiting      *)
(* queue, an order of answers), shared by the proofs of the components.    *)
(***************************************************************************)
EXTENDS Integers, Sequences, FiniteSets, TLAPS, FiniteSetTheorems, SequenceTheorems,
        WellFoundedInduction

\* The elements of a sequence, and that it holds each of them once.
Elems(s) == {s[i] : i \in DOMAIN s}
Once(s) == \A i, j \in DOMAIN s : s[i] = s[j] => i = j

\* The calls a sequence of messages is about, and that each has one message.
Ids(s) == {s[i].id : i \in DOMAIN s}
OnceIds(s) == \A i, j \in DOMAIN s : s[i].id = s[j].id => i = j

\* The empty queue.
LEMMA EmptyFacts == Elems(<<>>) = {} /\ Once(<<>>) /\ Len(<<>>) = 0
  BY DEF Elems, Once

\* A sequence that is not empty has an element.
LEMMA ElemsFacts ==
  ASSUME NEW S, NEW s \in Seq(S)
  PROVE  /\ Elems(s) \subseteq S /\ Len(s) \in Nat /\ DOMAIN s = 1 .. Len(s)
         /\ s = <<>> <=> Len(s) = 0
         /\ \A i \in 1 .. Len(s) : s[i] \in Elems(s)
  BY LenProperties, EmptySeq, ElementOfSeq DEF Elems

\* Queueing an element at the end of a queue.
LEMMA AppendFacts ==
  ASSUME NEW S, NEW s \in Seq(S), NEW x \in S
  PROVE  /\ Append(s, x) \in Seq(S) /\ Len(Append(s, x)) = Len(s) + 1
         /\ Elems(Append(s, x)) = Elems(s) \cup {x}
         /\ Once(s) /\ x \notin Elems(s) => Once(Append(s, x))
         /\ s = <<>> => Append(s, x)[1] = x
  <1> DEFINE t == Append(s, x)
  <1>1. /\ t \in Seq(S) /\ Len(t) = Len(s) + 1 /\ Len(s) \in Nat
        /\ t[Len(s) + 1] = x /\ \A i \in 1 .. Len(s) : t[i] = s[i]
    BY LenProperties
  <1>2. DOMAIN s = 1 .. Len(s) /\ DOMAIN t = 1 .. Len(s) + 1
    BY <1>1, LenProperties
  <1>3. \A i \in 1 .. Len(s) + 1 : i \in 1 .. Len(s) \/ i = Len(s) + 1
    BY <1>1
  <1>4. Elems(t) = Elems(s) \cup {x}
    BY <1>1, <1>2, <1>3 DEF Elems
  <1>5. ASSUME Once(s), x \notin Elems(s) PROVE Once(t)
    BY <1>1, <1>2, <1>3, <1>5 DEF Once, Elems
  <1>6. s = <<>> => t[1] = x
    BY <1>1
  <1> QED BY <1>1, <1>4, <1>5, <1>6

\* Posting one message is queueing it on the port.
LEMMA PostOne ==
  ASSUME NEW S, NEW s \in Seq(S), NEW x \in S
  PROVE  s \o <<x>> = Append(s, x)
  <1>1. <<x>> \in Seq(S) /\ Len(<<x>>) = 1 /\ <<x>>[1] = x
    OBVIOUS
  <1>2. /\ s \o <<x>> \in Seq(S) /\ Len(s \o <<x>>) = Len(s) + 1
        /\ \A i \in 1 .. Len(s) + 1 :
             (s \o <<x>>)[i] = IF i <= Len(s) THEN s[i] ELSE <<x>>[i - Len(s)]
    BY <1>1, ConcatProperties
  <1>3. Append(s, x) \in Seq(S) /\ Len(Append(s, x)) = Len(s) + 1
    BY LenProperties
  <1>4. \A i \in 1 .. Len(s) + 1 : (s \o <<x>>)[i] = Append(s, x)[i]
    BY <1>1, <1>2, <1>3, LenProperties
  <1> QED BY <1>2, <1>3, <1>4, SeqEqual

\* Taking the first element of a queue.
LEMMA TailFacts ==
  ASSUME NEW S, NEW s \in Seq(S), s # <<>>
  PROVE  /\ Tail(s) \in Seq(S) /\ Len(Tail(s)) = Len(s) - 1 /\ Len(s) \in Nat \ {0}
         /\ Head(s) \in S /\ Head(s) \in Elems(s) /\ Elems(Tail(s)) \subseteq Elems(s)
         /\ Once(s) => Once(Tail(s)) /\ Elems(Tail(s)) = Elems(s) \ {Head(s)}
  <1> DEFINE t == Tail(s)
  <1>1. Len(s) \in Nat \ {0} /\ DOMAIN s = 1 .. Len(s)
    BY LenProperties, EmptySeq
  <1>2. /\ t \in Seq(S) /\ Len(t) = Len(s) - 1 /\ Head(s) \in S /\ Head(s) = s[1]
        /\ \A i \in 1 .. Len(s) - 1 : t[i] = s[i + 1]
    BY <1>1, HeadTailProperties
  <1>3. DOMAIN t = 1 .. Len(s) - 1
    BY <1>2, LenProperties
  <1>4. Head(s) \in Elems(s)
    BY <1>1, <1>2 DEF Elems
  <1>5. \A i \in 1 .. Len(s) - 1 : i + 1 \in 1 .. Len(s) /\ i + 1 # 1
    BY <1>1
  <1>6. Elems(t) \subseteq Elems(s)
    BY <1>1, <1>2, <1>3, <1>5 DEF Elems
  <1>7. ASSUME Once(s) PROVE Once(t) /\ Elems(t) = Elems(s) \ {Head(s)}
    <2>1. Once(t)
      <3> SUFFICES ASSUME NEW i \in 1 .. Len(s) - 1, NEW j \in 1 .. Len(s) - 1, t[i] = t[j]
                   PROVE  i = j
        BY <1>3 DEF Once
      <3>1. s[i + 1] = s[j + 1]
        BY <1>2
      <3>2. i + 1 = j + 1
        BY <3>1, <1>5, <1>1, <1>7 DEF Once
      <3> QED BY <3>2
    <2>2. \A i \in 1 .. Len(s) - 1 : s[i + 1] # s[1]
      BY <1>1, <1>5, <1>7 DEF Once
    <2>3. \A i \in 1 .. Len(s) : i = 1 \/ (i - 1 \in 1 .. Len(s) - 1 /\ s[i] = t[i - 1])
      BY <1>1, <1>2
    <2>4. Elems(t) \subseteq Elems(s) \ {Head(s)}
      BY <1>2, <1>3, <1>6, <2>2 DEF Elems
    <2>5. Elems(s) \ {Head(s)} \subseteq Elems(t)
      <3> SUFFICES ASSUME NEW i \in 1 .. Len(s), s[i] # s[1] PROVE s[i] \in Elems(t)
        BY <1>1, <1>2 DEF Elems
      <3>1. i - 1 \in 1 .. Len(s) - 1 /\ s[i] = t[i - 1]
        BY <2>3
      <3> QED BY <3>1, <1>3 DEF Elems
    <2> QED BY <2>1, <2>4, <2>5
  <1> QED BY <1>1, <1>2, <1>4, <1>6, <1>7

\* What is left of a queue after its first k elements.
LEMMA RestFacts ==
  ASSUME NEW S, NEW s \in Seq(S), NEW k \in 0 .. Len(s), Once(s)
  PROVE  LET t == SubSeq(s, k + 1, Len(s)) IN
           /\ t \in Seq(S) /\ Len(t) = Len(s) - k /\ Once(t)
           /\ Elems(t) = {s[i] : i \in k + 1 .. Len(s)}
           /\ \A i \in 1 .. k : s[i] \notin Elems(t)
  <1> DEFINE t == SubSeq(s, k + 1, Len(s))
  <1>1. Len(s) \in Nat /\ DOMAIN s = 1 .. Len(s) /\ k \in Nat /\ k <= Len(s)
    BY LenProperties
  <1>2. \A i \in k + 1 .. Len(s) : s[i] \in S
    BY <1>1, ElementOfSeq
  <1>3. /\ t \in Seq(S) /\ Len(t) = Len(s) - k
        /\ \A i \in 1 .. Len(s) - k : t[i] = s[k + i]
    <2>1. k + 1 \in Int /\ Len(s) \in Int
      BY <1>1
    <2>2. /\ t \in Seq(S)
          /\ Len(t) = IF k + 1 <= Len(s) THEN Len(s) - (k + 1) + 1 ELSE 0
          /\ \A i \in 1 .. Len(s) - (k + 1) + 1 : t[i] = s[(k + 1) + i - 1]
      BY <2>1, <1>2, SubSeqProperties
    <2> HIDE DEF t
    <2>3. Len(t) = Len(s) - k
      <3>1. CASE k + 1 <= Len(s)
        <4>1. Len(t) = Len(s) - (k + 1) + 1
          BY <2>2, <3>1
        <4> QED BY <4>1, <1>1
      <3>2. CASE k = Len(s)
        <4>1. ~ (k + 1 <= Len(s)) /\ Len(s) - k = 0
          BY <3>2, <1>1
        <4> QED BY <4>1, <2>2
      <3>3. \A m, n \in Nat : m <= n => m + 1 <= n \/ m = n
        OBVIOUS
      <3> QED BY <3>1, <3>2, <3>3, <1>1
    <2>4. ASSUME NEW i \in 1 .. Len(s) - k PROVE t[i] = s[k + i]
      <3>1. i \in 1 .. Len(s) - (k + 1) + 1 /\ (k + 1) + i - 1 = k + i
        BY <1>1
      <3> QED BY <3>1, <2>2
    <2> QED BY <2>2, <2>3, <2>4
  <1> HIDE DEF t
  <1>4. DOMAIN t = 1 .. Len(s) - k
    BY <1>3, LenProperties
  <1>5. \A i \in 1 .. Len(s) - k : k + i \in k + 1 .. Len(s) /\ k + i \in 1 .. Len(s)
    BY <1>1
  <1>6. Once(t)
    <2> SUFFICES ASSUME NEW i \in 1 .. Len(s) - k, NEW j \in 1 .. Len(s) - k, t[i] = t[j]
                 PROVE  i = j
      BY <1>4 DEF Once
    <2>1. k + i = k + j
      BY <1>1, <1>3, <1>5 DEF Once
    <2> QED BY <2>1, <1>1
  <1>7. Elems(t) \subseteq {s[i] : i \in k + 1 .. Len(s)}
    BY <1>3, <1>4, <1>5 DEF Elems
  <1>8. ASSUME NEW i \in k + 1 .. Len(s) PROVE s[i] \in Elems(t)
    <2>1. i - k \in 1 .. Len(s) - k /\ k + (i - k) = i
      BY <1>1
    <2>2. t[i - k] = s[i]
      BY <2>1, <1>3
    <2> QED BY <2>1, <2>2, <1>4 DEF Elems
  <1>9. ASSUME NEW i \in 1 .. k PROVE s[i] \notin Elems(t)
    <2>1. \A j \in k + 1 .. Len(s) : i \in 1 .. Len(s) /\ j \in 1 .. Len(s) /\ i # j
      BY <1>1
    <2>2. \A j \in k + 1 .. Len(s) : s[i] # s[j]
      BY <1>1, <2>1 DEF Once
    <2> QED BY <2>2, <1>7
  <1>10. /\ t \in Seq(S) /\ Len(t) = Len(s) - k /\ Once(t)
         /\ Elems(t) = {s[i] : i \in k + 1 .. Len(s)}
         /\ \A i \in 1 .. k : s[i] \notin Elems(t)
    BY <1>3, <1>6, <1>7, <1>8, <1>9
  <1> QED BY <1>10 DEF t

\* What is posted follows what is on the port.
LEMMA ConcatFacts ==
  ASSUME NEW S, NEW s \in Seq(S), NEW t \in Seq(S)
  PROVE  /\ s \o t \in Seq(S)
         /\ Elems(s \o t) = Elems(s) \cup Elems(t)
         /\ Ids(s \o t) = Ids(s) \cup Ids(t)
         /\ OnceIds(s) /\ OnceIds(t) /\ Ids(s) \cap Ids(t) = {} => OnceIds(s \o t)
  <1> DEFINE u == s \o t
  <1>1. /\ Len(s) \in Nat /\ Len(t) \in Nat
        /\ DOMAIN s = 1 .. Len(s) /\ DOMAIN t = 1 .. Len(t)
    BY LenProperties
  <1>2. /\ u \in Seq(S) /\ Len(u) = Len(s) + Len(t)
        /\ \A i \in 1 .. Len(s) + Len(t) :
             u[i] = IF i <= Len(s) THEN s[i] ELSE t[i - Len(s)]
    BY ConcatProperties
  <1>3. DOMAIN u = 1 .. Len(s) + Len(t)
    BY <1>2, LenProperties
  <1> HIDE DEF u
  <1>4. \A i \in 1 .. Len(s) : i \in DOMAIN u /\ u[i] = s[i]
    BY <1>1, <1>2, <1>3
  <1>5. \A i \in 1 .. Len(t) : i + Len(s) \in DOMAIN u /\ u[i + Len(s)] = t[i]
    <2> TAKE i \in 1 .. Len(t)
    <2>1. i + Len(s) \in 1 .. Len(s) + Len(t) /\ ~ (i + Len(s) <= Len(s))
          /\ (i + Len(s)) - Len(s) = i
      BY <1>1
    <2> QED BY <2>1, <1>2, <1>3
  <1>6. \A i \in DOMAIN u : \/ i \in DOMAIN s /\ u[i] = s[i]
                            \/ i - Len(s) \in DOMAIN t /\ u[i] = t[i - Len(s)]
    <2> TAKE i \in DOMAIN u
    <2>1. i \in 1 .. Len(s) + Len(t)
      BY <1>3
    <2>2. CASE i <= Len(s)
      BY <2>1, <2>2, <1>1, <1>2
    <2>3. CASE ~ (i <= Len(s))
      <3>1. i - Len(s) \in 1 .. Len(t)
        BY <2>1, <2>3, <1>1
      <3> QED BY <3>1, <2>1, <2>3, <1>1, <1>2
    <2> QED BY <2>2, <2>3
  <1>7. Elems(u) = Elems(s) \cup Elems(t)
    BY <1>1, <1>4, <1>5, <1>6 DEF Elems
  <1>8. Ids(u) = Ids(s) \cup Ids(t)
    BY <1>1, <1>4, <1>5, <1>6 DEF Ids
  <1>9. ASSUME OnceIds(s), OnceIds(t), Ids(s) \cap Ids(t) = {} PROVE OnceIds(u)
    <2> SUFFICES ASSUME NEW i \in DOMAIN u, NEW j \in DOMAIN u, u[i].id = u[j].id
                 PROVE  i = j
      BY DEF OnceIds
    <2>1. i \in Int /\ j \in Int
      BY <1>3, <1>1
    <2>2. CASE i \in DOMAIN s /\ u[i] = s[i] /\ j \in DOMAIN s /\ u[j] = s[j]
      BY <2>2, <1>9 DEF OnceIds
    <2>3. CASE /\ i - Len(s) \in DOMAIN t /\ u[i] = t[i - Len(s)]
               /\ j - Len(s) \in DOMAIN t /\ u[j] = t[j - Len(s)]
      <3>1. i - Len(s) = j - Len(s)
        BY <2>3, <1>9 DEF OnceIds
      <3> QED BY <3>1, <2>1, <1>1
    <2>4. CASE /\ i \in DOMAIN s /\ u[i] = s[i]
               /\ j - Len(s) \in DOMAIN t /\ u[j] = t[j - Len(s)]
      <3>1. s[i].id \in Ids(s) /\ t[j - Len(s)].id \in Ids(t)
        BY <2>4 DEF Ids
      <3> QED BY <3>1, <2>4, <1>9
    <2>5. CASE /\ j \in DOMAIN s /\ u[j] = s[j]
               /\ i - Len(s) \in DOMAIN t /\ u[i] = t[i - Len(s)]
      <3>1. s[j].id \in Ids(s) /\ t[i - Len(s)].id \in Ids(t)
        BY <2>5 DEF Ids
      <3> QED BY <3>1, <2>5, <1>9
    <2> QED BY <2>2, <2>3, <2>4, <2>5, <1>6
  <1> QED BY <1>2, <1>7, <1>8, <1>9 DEF u

\* A single message.
LEMMA OneMessage ==
  ASSUME NEW S, NEW m \in S
  PROVE  /\ <<m>> \in Seq(S) /\ Elems(<<m>>) = {m} /\ Ids(<<m>>) = {m.id}
         /\ OnceIds(<<m>>)
  <1>1. <<m>> \in Seq(S) /\ DOMAIN <<m>> = 1 .. 1 /\ <<m>>[1] = m
    OBVIOUS
  <1>2. \A i \in 1 .. 1 : i = 1
    OBVIOUS
  <1> QED BY <1>1, <1>2 DEF Elems, Ids, OnceIds

\* Taking the first message off a port.
LEMMA TailIds ==
  ASSUME NEW S, NEW s \in Seq(S), s # <<>>, OnceIds(s)
  PROVE  /\ OnceIds(Tail(s)) /\ Ids(Tail(s)) = Ids(s) \ {Head(s).id}
         /\ Head(s).id \in Ids(s) /\ Elems(Tail(s)) \subseteq Elems(s)
  <1> DEFINE t == Tail(s)
  <1>1. Len(s) \in Nat \ {0} /\ DOMAIN s = 1 .. Len(s)
    BY LenProperties, EmptySeq
  <1>2. /\ t \in Seq(S) /\ Len(t) = Len(s) - 1 /\ Head(s) = s[1]
        /\ \A i \in 1 .. Len(s) - 1 : t[i] = s[i + 1]
    BY <1>1, HeadTailProperties
  <1>3. DOMAIN t = 1 .. Len(s) - 1
    BY <1>2, LenProperties
  <1> HIDE DEF t
  <1>4. \A i \in 1 .. Len(s) - 1 : i + 1 \in 1 .. Len(s) /\ i + 1 # 1
    BY <1>1
  <1>5. OnceIds(t)
    <2> SUFFICES ASSUME NEW i \in 1 .. Len(s) - 1, NEW j \in 1 .. Len(s) - 1, t[i].id = t[j].id
                 PROVE  i = j
      BY <1>3 DEF OnceIds
    <2>1. s[i + 1].id = s[j + 1].id
      BY <1>2
    <2>2. i + 1 = j + 1
      BY <2>1, <1>4, <1>1 DEF OnceIds
    <2> QED BY <2>2
  <1>6. \A i \in 1 .. Len(s) - 1 : t[i].id \in Ids(s) \ {s[1].id}
    <2> TAKE i \in 1 .. Len(s) - 1
    <2>1. i + 1 \in 1 .. Len(s) /\ 1 \in 1 .. Len(s) /\ i + 1 # 1
      BY <1>1, <1>4
    <2>2. s[i + 1].id # s[1].id
      BY <2>1, <1>1 DEF OnceIds
    <2> QED BY <2>1, <2>2, <1>1, <1>2 DEF Ids
  <1>7. ASSUME NEW i \in 1 .. Len(s), s[i].id # s[1].id PROVE s[i].id \in Ids(t)
    <2>1. i - 1 \in 1 .. Len(s) - 1 /\ (i - 1) + 1 = i
      BY <1>1, <1>7
    <2>2. t[i - 1] = s[i]
      BY <2>1, <1>2
    <2> QED BY <2>1, <2>2, <1>3 DEF Ids
  <1>8. Ids(t) \subseteq Ids(s) \ {s[1].id}
    BY <1>3, <1>6 DEF Ids
  <1>9. Ids(s) \ {s[1].id} \subseteq Ids(t)
    BY <1>1, <1>7 DEF Ids
  <1>10. s[1].id \in Ids(s)
    BY <1>1 DEF Ids
  <1> QED BY <1>2, <1>5, <1>8, <1>9, <1>10, TailFacts DEF t

\* Where the elements of a queue are after one more is queued.
LEMMA AppendIndex ==
  ASSUME NEW S, NEW s \in Seq(S), NEW x \in S
  PROVE  /\ Append(s, x) \in Seq(S)
         /\ Len(s) + 1 \notin DOMAIN s /\ Append(s, x)[Len(s) + 1] = x
         /\ DOMAIN Append(s, x) = DOMAIN s \cup {Len(s) + 1}
         /\ \A i \in DOMAIN s : Append(s, x)[i] = s[i]
         /\ s # <<>> => 1 \in DOMAIN s /\ Append(s, x)[1] = s[1]
         /\ s = <<>> => Append(s, x)[1] = x /\ Len(s) + 1 = 1
         /\ Append(s, x) # <<>>
  <1>1. /\ Append(s, x) \in Seq(S) /\ Len(Append(s, x)) = Len(s) + 1 /\ Len(s) \in Nat
        /\ Append(s, x)[Len(s) + 1] = x /\ \A i \in 1 .. Len(s) : Append(s, x)[i] = s[i]
        /\ DOMAIN s = 1 .. Len(s)
    BY LenProperties
  <1>2. DOMAIN Append(s, x) = 1 .. Len(s) + 1
    BY <1>1, LenProperties
  <1>3. s # <<>> => Len(s) # 0
    BY EmptySeq
  <1>4. s = <<>> => Len(s) = 0
    OBVIOUS
  <1>5. 1 .. Len(s) + 1 = 1 .. Len(s) \cup {Len(s) + 1} /\ Len(s) + 1 \notin 1 .. Len(s)
    BY <1>1
  <1>6. s # <<>> => 1 \in 1 .. Len(s)
    BY <1>1, <1>3
  <1>7. Append(s, x) # <<>>
    BY <1>1, <1>4
  <1> QED BY <1>1, <1>2, <1>4, <1>5, <1>6, <1>7

\* Where the elements of a queue are after the first is taken.
LEMMA TailIndex ==
  ASSUME NEW S, NEW s \in Seq(S), s # <<>>
  PROVE  /\ Tail(s) \in Seq(S) /\ 1 \in DOMAIN s /\ s[1] \in S
         /\ \A i \in DOMAIN Tail(s) : /\ i \in Nat /\ i + 1 \in DOMAIN s /\ i + 1 # 1
                                      /\ Tail(s)[i] = s[i + 1]
         /\ \A i \in DOMAIN s : i # 1 => /\ i \in Nat /\ i - 1 \in DOMAIN Tail(s)
                                         /\ Tail(s)[i - 1] = s[i]
  <1> DEFINE t == Tail(s)
  <1>1. Len(s) \in Nat \ {0} /\ DOMAIN s = 1 .. Len(s)
    BY LenProperties, EmptySeq
  <1>2. /\ t \in Seq(S) /\ Len(t) = Len(s) - 1 /\ \A i \in 1 .. Len(s) - 1 : t[i] = s[i + 1]
    BY <1>1, HeadTailProperties
  <1>3. DOMAIN t = 1 .. Len(s) - 1
    BY <1>2, LenProperties
  <1> HIDE DEF t
  <1>4. \A i \in 1 .. Len(s) - 1 : i \in Nat /\ i + 1 \in 1 .. Len(s) /\ i + 1 # 1
    BY <1>1
  <1>5. \A i \in 1 .. Len(s) : i # 1 => i \in Nat /\ i - 1 \in 1 .. Len(s) - 1 /\ (i - 1) + 1 = i
    BY <1>1
  <1>6. 1 \in 1 .. Len(s) /\ s[1] \in S
    BY <1>1, ElementOfSeq
  <1>7. \A i \in 1 .. Len(s) : i # 1 => t[i - 1] = s[i]
    BY <1>2, <1>5
  <1> QED BY <1>1, <1>2, <1>3, <1>4, <1>5, <1>6, <1>7 DEF t

\* Naturals have no infinite descent: a set of them that is not empty has a least.
LEMMA LeastNat ==
  ASSUME NEW T, T \subseteq Nat, T # {}
  PROVE  \E n \in T : \A m \in T : n <= m
  <1> DEFINE R == OpToRel(<, Nat)
  <1>1. \E n \in T : \A m \in T : ~ (<<m, n>> \in R)
    <2>1. IsWellFoundedOn(R, Nat)
      BY NatLessThanWellFounded
    <2> HIDE DEF R
    <2> QED BY <2>1, WFMin
  <1>2. \A m, n \in Nat : <<m, n>> \notin R => n <= m
    BY DEF OpToRel
  <1> HIDE DEF R
  <1> QED BY <1>1, <1>2

\* A sequence without the element at one place.
LeftOf(s, at) == [j \in 1 .. Len(s) - 1 |-> IF j < at THEN s[j] ELSE s[j + 1]]

\* Taking one element out leaves the others, each once.
LEMMA LeftOfFacts ==
  ASSUME NEW S, NEW s \in Seq(S), NEW at \in 1 .. Len(s), Once(s)
  PROVE  /\ LeftOf(s, at) \in Seq(S) /\ Once(LeftOf(s, at))
         /\ Elems(LeftOf(s, at)) = Elems(s) \ {s[at]}
  <1> DEFINE t == LeftOf(s, at)
  <1> USE DEF LeftOf
  <1>1. Len(s) \in Nat /\ DOMAIN s = 1 .. Len(s)
    BY LenProperties
  <1>2. Len(s) - 1 \in Nat /\ Len(s) # 0
    BY <1>1
  <1>3. \A j \in 1 .. Len(s) - 1 :
           j \in 1 .. Len(s) /\ j + 1 \in 1 .. Len(s) /\ s[j] \in S /\ s[j + 1] \in S
    BY <1>1, <1>2, ElementOfSeq
  <1>4. t \in [1 .. Len(s) - 1 -> S] /\ DOMAIN t = 1 .. Len(s) - 1
    BY <1>3
  <1>5. t \in Seq(S)
    BY <1>2, <1>4, SeqDef
  <1>6. Once(t)
    <2> SUFFICES ASSUME NEW i \in 1 .. Len(s) - 1, NEW j \in 1 .. Len(s) - 1, t[i] = t[j]
                 PROVE  i = j
      BY <1>4 DEF Once
    <2> DEFINE at_i == IF i < at THEN i ELSE i + 1
    <2> DEFINE at_j == IF j < at THEN j ELSE j + 1
    <2>1. s[at_i] = s[at_j] /\ at_i \in 1 .. Len(s) /\ at_j \in 1 .. Len(s)
      BY <1>3
    <2>2. at_i = at_j
      BY <2>1, <1>1 DEF Once
    <2> QED BY <2>2
  <1>7. Elems(t) \subseteq Elems(s) \ {s[at]}
    <2> SUFFICES ASSUME NEW i \in 1 .. Len(s) - 1 PROVE t[i] \in Elems(s) \ {s[at]}
      BY <1>4 DEF Elems
    <2> DEFINE at_i == IF i < at THEN i ELSE i + 1
    <2>1. t[i] = s[at_i] /\ at_i \in 1 .. Len(s) /\ at_i # at
      BY <1>3
    <2>2. s[at_i] # s[at]
      BY <2>1, <1>1 DEF Once
    <2> QED BY <2>1, <2>2, <1>1 DEF Elems
  <1>8. Elems(s) \ {s[at]} \subseteq Elems(t)
    <2> SUFFICES ASSUME NEW i \in 1 .. Len(s), s[i] # s[at] PROVE s[i] \in Elems(t)
      BY <1>1 DEF Elems
    <2> DEFINE k == IF i < at THEN i ELSE i - 1
    <2>1. i # at
      OBVIOUS
    <2>2. k \in 1 .. Len(s) - 1 /\ t[k] = s[i]
      BY <2>1, <1>1
    <2> QED BY <2>2, <1>4 DEF Elems
  <1> QED BY <1>2, <1>5, <1>6, <1>7, <1>8
=============================================================================
