-------------------------- MODULE McpGatewayProofs --------------------------
(***************************************************************************)
(* Proofs about McpGateway.tla, for any clients, batches, options and      *)
(* rights, and about ToolCatalog.tla, for any modules, builds and plans.   *)
(*                                                                         *)
(* IInv is the gateway's inductive invariant; of the catalog it uses       *)
(* nothing but the target a call looked up.  It ties the stage a message   *)
(* is at to its method and to what was authorised for it (Staged), a load  *)
(* under way to the message that asked for it (Loading), a validation to   *)
(* the message that waits for it (Validations), and a bill to its result   *)
(* (Billed).                                                               *)
(*                                                                         *)
(* CatalogInv is the catalog's: whose worker and whose specs are on offer. *)
(* With it, what dedupeName does to one name after the other gives every   *)
(* tool a name of its own.                                                 *)
(***************************************************************************)
EXTENDS McpGateway, QueueLemmas

\* A request and a load have their fields, and a client has a result for each
\* message before the one that is handled.
Shaped(r) == r = [st |-> r.st, i |-> r.i, tgt |-> r.tgt, schema |-> r.schema, g |-> r.g]
LoadShaped(l) == l = [c |-> l.c, i |-> l.i, mod |-> l.mod, st |-> l.st]
Validation == [st : {"none", "creating", "running", "tearing", "torn"}, i : Nat, answered : BOOLEAN]

Shapes ==
  /\ req = [c \in Clients |-> req[c]] /\ results = [c \in Clients |-> results[c]]
  /\ val \in [Clients -> Validation]
  /\ \A c \in Clients :
       /\ Shaped(req[c]) /\ req[c].i \in Nat \ {0}
       /\ results[c] = [i \in 1 .. req[c].i - 1 |-> results[c][i]]

\* The stages of a call, and those it reaches only for a device of its key.
Calling == {"auth", "schema", "invoke", "running"}
Allowed == {"schema", "invoke", "running"}

\* What stage r of client c's message says of its method and its target.
StageOk(c, method, r) ==
  /\ r.st \in {"listing", "appending"} => method = "list"
  /\ r.st = "appending" => r.tgt \subseteq Owns[c]
  /\ r.st \in Calling => method \in {"call", "task"} \cup Authoring
  /\ r.st \in Allowed => r.tgt.dev \in Owns[c]
  /\ r.st \in {"loading", "polling"} => method = "load"

Staged == \A c \in Clients : Open(c) => StageOk(c, Msg(c).method, req[c])

\* A load was asked for by an admin, in a message that asks for one.
LoadOk(l, p) ==
  /\ LoadShaped(l) /\ l.c \in Clients /\ Role[l.c] = "admin"
  /\ l.i \in Nat /\ l.i <= Len(p[l.c]) /\ p[l.c][l.i].method = "load"

Loading == \A l \in loads : LoadOk(l, post)

\* The clients with a slot.
Slot == {"creating", "running", "tearing"}
Holding(v) == {c \in Clients : v[c].st \in Slot}

\* A message waits for a validation exactly while there is one, which is its own.
Validations ==
  /\ twice = {}
  /\ validating = Cardinality(Holding(val)) /\ validating <= ValidateMax
  /\ \A c \in Clients :
       /\ val[c].st # "none" <=> At(c, "validating")
       /\ val[c].st # "none" => val[c].i = req[c].i /\ Role[c] = "admin"
       /\ val[c].st \in {"tearing", "torn"} => val[c].answered

\* Bills are for messages that have been answered.
Billed ==
  /\ BillsWhatRan
  /\ \A b \in bills : b.c \in Clients /\ b.i \in DOMAIN results[b.c]

\* A result shows or ran what the client's key is for.
ResultOk(c, method, r) ==
  /\ method = "list" /\ r # None =>
       r \subseteq Owns[c] \cup (IF Role[c] = "admin" THEN AuthoringTools ELSE {})
  /\ method \in {"call", "calltool"} /\ r # None => r[1] \in Owns[c]

Rightful == \A c \in Clients : \A i \in DOMAIN results[c] : ResultOk(c, post[c][i].method, results[c][i].ran)

IInv == Shapes /\ Staged /\ Loading /\ Validations /\ Billed /\ Rightful

(***************************************************************************)
(* What a step of one message does.                                        *)
(***************************************************************************)

\* The results of a client are a sequence, one shorter than its current number.
LEMMA ResultsAre ==
  ASSUME Shapes, NEW c \in Clients
  PROVE  /\ results[c] \in Seq(Elems(results[c])) /\ Len(results[c]) = req[c].i - 1
         /\ DOMAIN results[c] = 1 .. req[c].i - 1 /\ req[c].i \in Nat /\ req[c].i - 1 \in Nat
  <1>1. /\ req[c].i - 1 \in Nat /\ req[c].i \in Nat
        /\ results[c] = [i \in 1 .. req[c].i - 1 |-> results[c][i]]
    BY DEF Shapes
  <1>2. DOMAIN results[c] = 1 .. req[c].i - 1
    BY <1>1
  <1>3. results[c] \in [1 .. req[c].i - 1 -> Elems(results[c])]
    BY <1>1, <1>2 DEF Elems
  <1>4. results[c] \in Seq(Elems(results[c]))
    BY <1>1, <1>3, SeqDef
  <1>5. Len(results[c]) \in Nat /\ DOMAIN results[c] = 1 .. Len(results[c])
    BY <1>4, LenProperties
  <1>6. \A m, n \in Nat : 1 .. m = 1 .. n => m = n
    <2> SUFFICES ASSUME NEW m \in Nat, NEW n \in Nat, 1 .. m = 1 .. n, m < n PROVE FALSE
      BY DEF Nat
    <2>1. n \in 1 .. n
      OBVIOUS
    <2>2. n \notin 1 .. m
      OBVIOUS
    <2> QED BY <2>1, <2>2
  <1> QED BY <1>1, <1>2, <1>4, <1>5, <1>6

\* One more result.
LEMMA ResultAdded ==
  ASSUME Shapes, NEW c \in Clients, NEW r
  PROVE  LET s == Append(results[c], r)
         IN  /\ s = [i \in 1 .. req[c].i |-> s[i]] /\ DOMAIN s = 1 .. req[c].i
             /\ s[req[c].i] = r /\ \A i \in DOMAIN results[c] : s[i] = results[c][i]
  <1> DEFINE s == Append(results[c], r)
             S == Elems(results[c]) \cup {r}
  <1>1. /\ results[c] \in Seq(Elems(results[c])) /\ Len(results[c]) = req[c].i - 1
        /\ DOMAIN results[c] = 1 .. req[c].i - 1 /\ req[c].i \in Nat /\ req[c].i - 1 \in Nat
    BY ResultsAre
  <1>2. results[c] \in Seq(S) /\ r \in S
    <2>1. results[c] \in [1 .. req[c].i - 1 -> S]
      BY <1>1 DEF Elems
    <2> QED BY <1>1, <2>1, SeqDef
  <1> HIDE DEF S
  <1>3. /\ s \in Seq(S) /\ Len(s) = req[c].i
        /\ s[req[c].i] = r /\ \A i \in 1 .. req[c].i - 1 : s[i] = results[c][i]
    BY <1>1, <1>2
  <1>4. DOMAIN s = 1 .. req[c].i /\ s \in [1 .. req[c].i -> S]
    BY <1>3, LenProperties
  <1> HIDE DEF s
  <1>5. s = [i \in 1 .. req[c].i |-> s[i]]
    BY <1>4
  <1> QED BY <1>1, <1>3, <1>4, <1>5 DEF s

\* Message c of a client is answered with r.  Nothing else waits for it: it is
\* not being validated, or its validation is over.
LEMMA Replies ==
  ASSUME IInv, NEW c \in Clients, Open(c), NEW r, Answer(c, r), post' = post,
         ResultOk(c, Msg(c).method, r.ran),
         \/ bills' = bills /\ (Msg(c).method \in {"call", "calltool"} => r.ran = None)
         \/ bills' = bills \cup {[c |-> c, i |-> req[c].i, tool |-> r.ran]},
         \A l \in loads' : LoadOk(l, post),
         validating' = validating,
         \/ val' = val /\ req[c].st # "validating"
         \/ val' = [val EXCEPT ![c].st = "none"] /\ val[c].st = "torn"
  PROVE  IInv'
  <1> DEFINE n == [Idle EXCEPT !.i = req[c].i + 1]
             k == req[c].i
  <1>1. /\ results' = [results EXCEPT ![c] = Append(results[c], r)]
        /\ req' = [req EXCEPT ![c] = n] /\ twice' = twice
    BY DEF Answer, Reply
  <1>2. /\ req = [d \in Clients |-> req[d]] /\ results = [d \in Clients |-> results[d]]
        /\ \A d \in Clients : /\ Shaped(req[d]) /\ req[d].i \in Nat \ {0}
                              /\ results[d] = [i \in 1 .. req[d].i - 1 |-> results[d][i]]
    BY DEF IInv, Shapes
  <1>3. n.st = "start" /\ n.i = k + 1 /\ Shaped(n) /\ k \in Nat \ {0} /\ n.i - 1 = k /\ n.i \in Nat \ {0}
    <2>1. n = [st |-> "start", i |-> k + 1, tgt |-> None, schema |-> None, g |-> 0]
      BY DEF Idle
    <2>2. k \in Nat \ {0}
      BY <1>2
    <2> HIDE DEF n, k
    <2> QED BY <2>1, <2>2 DEF Shaped
  <1>4. /\ req'[c] = n /\ results'[c] = Append(results[c], r)
        /\ \A d \in Clients : d # c => req'[d] = req[d] /\ results'[d] = results[d]
        /\ req' = [d \in Clients |-> req'[d]] /\ results' = [d \in Clients |-> results'[d]]
    BY <1>1, <1>2
  <1> HIDE DEF n
  <1>5. /\ results'[c] = [i \in 1 .. k |-> results'[c][i]] /\ DOMAIN results'[c] = 1 .. k
        /\ results'[c][k] = r /\ \A i \in DOMAIN results[c] : results'[c][i] = results[c][i]
        /\ DOMAIN results[c] = 1 .. k - 1
    BY <1>4, ResultAdded, ResultsAre DEF IInv
  <1>6. ASSUME NEW d \in Clients, NEW i \in DOMAIN results'[d], ~(d = c /\ i = k)
         PROVE  i \in DOMAIN results[d] /\ results'[d][i] = results[d][i]
    <2>1. CASE d = c
      <3>1. i \in 1 .. k /\ i # k
        BY <1>5, <1>6, <2>1
      <3>2. i \in 1 .. k - 1
        BY <1>3, <3>1
      <3> QED BY <1>5, <2>1, <3>2
    <2> QED BY <1>4, <1>6, <2>1
  <1>7. ASSUME NEW d \in Clients, NEW i \in DOMAIN results[d]
         PROVE  i \in DOMAIN results'[d] /\ results'[d][i] = results[d][i]
    <2>1. CASE d = c
      <3>1. i \in 1 .. k - 1
        BY <1>5, <2>1
      <3>2. i \in 1 .. k
        BY <1>3, <3>1
      <3> QED BY <1>5, <2>1, <3>2
    <2> QED BY <1>4, <2>1
  <1>8. val \in [Clients -> Validation] /\ val' \in [Clients -> Validation]
    <2>1. val \in [Clients -> Validation]
      BY DEF IInv, Shapes
    <2>2. CASE val' = [val EXCEPT ![c].st = "none"] /\ val[c].st = "torn"
      <3>1. [val[c] EXCEPT !.st = "none"] \in Validation
        BY <2>1 DEF Validation
      <3> QED BY <2>1, <2>2, <3>1
    <2> QED BY <2>1, <2>2
  <1>9. Shapes'
    <2>1. \A d \in Clients : /\ Shaped(req'[d]) /\ req'[d].i \in Nat \ {0}
                             /\ results'[d] = [i \in 1 .. req'[d].i - 1 |-> results'[d][i]]
      BY <1>2, <1>3, <1>4, <1>5
    <2>2. \A d \in Clients : Shaped(req[d])'
      BY <2>1 DEF Shaped
    <2> QED BY <1>4, <1>8, <2>1, <2>2 DEF Shapes
  <1>10. Staged'
    <2> SUFFICES ASSUME NEW d \in Clients, Open(d)'
                 PROVE  StageOk(d, post[d][req'[d].i].method, req'[d])
      BY DEF Staged, Msg, StageOk
    <2>1. CASE d = c
      BY <1>3, <1>4, <2>1 DEF StageOk, Calling, Allowed
    <2>2. CASE d # c
      BY <1>4, <2>2 DEF IInv, Staged, Open, Msg
    <2> QED BY <2>1, <2>2
  <1>11. Loading'
    BY DEF Loading, LoadOk, LoadShaped
  <1>12. Validations'
    <2>1. \A d \in Clients : d # c => val'[d] = val[d] /\ (At(d, "validating")' <=> At(d, "validating"))
      BY <1>4, <1>8 DEF At, Open
    <2>2. val'[c].st = "none" /\ val[c].st \in {"none", "torn"}
      <3>1. CASE val' = val /\ req[c].st # "validating"
        BY <3>1 DEF IInv, Validations, At
      <3>2. CASE val' = [val EXCEPT ![c].st = "none"] /\ val[c].st = "torn"
        BY <1>8, <3>2 DEF Validation
      <3> QED BY <3>1, <3>2
    <2>3. ~At(c, "validating")'
      BY <1>3, <1>4 DEF At
    <2>4. Holding(val') = Holding(val)
      BY <2>1, <2>2 DEF Holding, Slot
    <2>5. ASSUME NEW d \in Clients
          PROVE  /\ val'[d].st # "none" <=> At(d, "validating")'
                 /\ val'[d].st # "none" => val'[d].i = req'[d].i /\ Role[d] = "admin"
                 /\ val'[d].st \in {"tearing", "torn"} => val'[d].answered
      <3>1. CASE d = c
        BY <2>2, <2>3, <3>1
      <3>2. CASE d # c
        BY <1>4, <2>1, <3>2 DEF IInv, Validations
      <3> QED BY <3>1, <3>2
    <2> QED BY <1>1, <2>4, <2>5 DEF IInv, Validations
  <1>13. Rightful'
    <2> SUFFICES ASSUME NEW d \in Clients, NEW i \in DOMAIN results'[d]
                 PROVE  ResultOk(d, post[d][i].method, results'[d][i].ran)
      BY DEF Rightful, ResultOk
    <2>1. CASE d = c /\ i = k
      BY <1>5, <2>1 DEF Msg
    <2>2. CASE ~(d = c /\ i = k)
      <3>1. i \in DOMAIN results[d] /\ results'[d][i] = results[d][i]
        BY <1>6, <2>2
      <3> QED BY <3>1 DEF IInv, Rightful
    <2> QED BY <2>1, <2>2
  <1>14. Billed'
    <2> DEFINE b0 == [c |-> c, i |-> k, tool |-> r.ran]
               Of(B, d, i) == {b \in B : b.c = d /\ b.i = i}
    <2>1. /\ bills' = bills \/ bills' = bills \cup {b0}
          /\ bills' = bills => (Msg(c).method \in {"call", "calltool"} => r.ran = None)
                               \/ b0 \in bills
      BY DEF Msg
    <2>2. b0.c = c /\ b0.i = k /\ b0.tool = r.ran
      OBVIOUS
    <2>3. \A b \in bills : /\ b.c \in Clients /\ b.i \in DOMAIN results[b.c]
                           /\ results[b.c][b.i].ran = b.tool
      BY DEF IInv, Billed, BillsWhatRan
    <2>4. \A b \in bills : ~(b.c = c /\ b.i = k)
      BY <1>3, <1>5, <2>3
    <2> HIDE DEF b0
    <2>5. ASSUME NEW b \in bills'
          PROVE  /\ b.c \in Clients /\ b.i \in DOMAIN results'[b.c]
                 /\ results'[b.c][b.i].ran = b.tool
      <3>1. CASE b \in bills
        <4>1. b.i \in DOMAIN results[b.c] /\ b.c \in Clients /\ results[b.c][b.i].ran = b.tool
          BY <2>3, <3>1
        <4> QED BY <1>7, <4>1
      <3>2. CASE b = b0
        BY <1>3, <1>5, <2>2, <3>2
      <3> QED BY <2>1, <2>5, <3>1, <3>2
    <2>6. ASSUME NEW d \in Clients, NEW i \in DOMAIN results'[d],
                 post[d][i].method \in {"call", "calltool"}, results'[d][i].ran # None
          PROVE  Cardinality(Of(bills', d, i)) = 1
      <3>1. CASE d = c /\ i = k
        <4>1. bills' = bills \cup {b0}
          BY <1>5, <2>1, <2>2, <2>4, <2>6, <3>1 DEF Msg
        <4>2. Of(bills', d, i) = {b0}
          BY <2>2, <2>4, <3>1, <4>1
        <4> QED BY <4>2, FS_Singleton
      <3>2. CASE ~(d = c /\ i = k)
        <4>1. i \in DOMAIN results[d] /\ results'[d][i] = results[d][i]
          BY <1>6, <3>2
        <4>2. Of(bills', d, i) = Of(bills, d, i)
          BY <2>1, <2>2, <3>2
        <4>3. Cardinality(Of(bills, d, i)) = 1
          BY <2>6, <4>1 DEF IInv, Billed, BillsWhatRan
        <4> QED BY <4>2, <4>3
      <3> QED BY <3>1, <3>2
    <2> QED BY <2>5, <2>6 DEF Billed, BillsWhatRan
  <1> QED BY <1>9, <1>10, <1>11, <1>12, <1>13, <1>14 DEF IInv
\* Request r at stage st, with its target, schema and worker.
AtStage(r, st, tgt, schema, g) == [st |-> st, i |-> r.i, tgt |-> tgt, schema |-> schema, g |-> g]

\* A request at another stage is otherwise the same.
LEMMA Restaged ==
  ASSUME NEW r, Shaped(r), NEW st, NEW x
  PROVE  /\ [r EXCEPT !.st = st] = AtStage(r, st, r.tgt, r.schema, r.g)
         /\ [r EXCEPT !.st = st, !.tgt = x] = AtStage(r, st, x, r.schema, r.g)
         /\ [r EXCEPT !.st = st, !.schema = x] = AtStage(r, st, r.tgt, x, r.g)
  <1>1. DOMAIN r = {"st", "i", "tgt", "schema", "g"}
    BY DEF Shaped
  <1>2. [r EXCEPT !.st = st] = AtStage(r, st, r.tgt, r.schema, r.g)
    BY <1>1 DEF AtStage
  <1>3. [r EXCEPT !.st = st, !.tgt = x] = AtStage(r, st, x, r.schema, r.g)
    <2> DEFINE n == [r EXCEPT !.st = st, !.tgt = x]
               m == AtStage(r, st, x, r.schema, r.g)
    <2>1. DOMAIN n = DOMAIN r /\ DOMAIN m = {"st", "i", "tgt", "schema", "g"}
      BY DEF AtStage
    <2>2. n["st"] = m["st"] /\ n["i"] = m["i"] /\ n["tgt"] = m["tgt"] /\ n["schema"] = m["schema"] /\ n["g"] = m["g"]
      BY <1>1 DEF AtStage
    <2>3. n = [f \in DOMAIN r |-> n[f]]
      OBVIOUS
    <2>4. m = [f \in DOMAIN m |-> m[f]]
      BY DEF AtStage
    <2> HIDE DEF n, m
    <2>5. n = m
      BY <1>1, <2>1, <2>2, <2>3, <2>4
    <2> QED BY <2>5, Zenon DEF n, m
  <1>4. [r EXCEPT !.st = st, !.schema = x] = AtStage(r, st, r.tgt, x, r.g)
    <2> DEFINE n == [r EXCEPT !.st = st, !.schema = x]
               m == AtStage(r, st, r.tgt, x, r.g)
    <2>1. DOMAIN n = DOMAIN r /\ DOMAIN m = {"st", "i", "tgt", "schema", "g"}
      BY DEF AtStage
    <2>2. n["st"] = m["st"] /\ n["i"] = m["i"] /\ n["tgt"] = m["tgt"] /\ n["schema"] = m["schema"] /\ n["g"] = m["g"]
      BY <1>1 DEF AtStage
    <2>3. n = [f \in DOMAIN r |-> n[f]]
      OBVIOUS
    <2>4. m = [f \in DOMAIN m |-> m[f]]
      BY DEF AtStage
    <2> HIDE DEF n, m
    <2>5. n = m
      BY <1>1, <2>1, <2>2, <2>3, <2>4
    <2> QED BY <2>5, Zenon DEF n, m
  <1> QED BY <1>2, <1>3, <1>4, Zenon

\* Nor does it change when it goes to a worker.
LEMMA Rebound ==
  ASSUME NEW r, Shaped(r), NEW st, NEW x
  PROVE  [r EXCEPT !.st = st, !.g = x] = AtStage(r, st, r.tgt, r.schema, x)
  <1> DEFINE n == [r EXCEPT !.st = st, !.g = x]
             m == AtStage(r, st, r.tgt, r.schema, x)
  <1>1. DOMAIN r = {"st", "i", "tgt", "schema", "g"}
    BY DEF Shaped
  <1>2. DOMAIN n = DOMAIN r /\ DOMAIN m = {"st", "i", "tgt", "schema", "g"}
    BY DEF AtStage
  <1>3. n["st"] = m["st"] /\ n["i"] = m["i"] /\ n["tgt"] = m["tgt"] /\ n["schema"] = m["schema"] /\ n["g"] = m["g"]
    BY <1>1 DEF AtStage
  <1>4. n = [f \in DOMAIN r |-> n[f]]
    OBVIOUS
  <1>5. m = [f \in DOMAIN m |-> m[f]]
    BY DEF AtStage
  <1> HIDE DEF n, m
  <1>6. n = m
    BY <1>1, <1>2, <1>3, <1>4, <1>5
  <1> QED BY <1>6, Zenon DEF n, m

\* Its fields.
LEMMA StageFields ==
  ASSUME NEW r, NEW st, NEW tgt, NEW schema, NEW g
  PROVE  LET n == AtStage(r, st, tgt, schema, g)
         IN  n.st = st /\ n.i = r.i /\ n.tgt = tgt /\ n.schema = schema /\ n.g = g /\ Shaped(n)
  BY DEF AtStage, Shaped

\* Messages, results and bills stay what they were.
LEMMA ResultsStay ==
  ASSUME Billed, Rightful, UNCHANGED <<post, results, bills>>
  PROVE  Billed' /\ Rightful'
  BY DEF Billed, BillsWhatRan, Rightful, ResultOk

\* A message moves on to a stage that has nothing to do with validation.
LEMMA Moves ==
  ASSUME IInv, NEW c \in Clients, NEW n, Shaped(n), n.i = req[c].i,
         Open(c) => StageOk(c, Msg(c).method, n),
         req' = [req EXCEPT ![c] = n], UNCHANGED <<post, results, twice, val, validating, bills>>,
         \A l \in loads' : LoadOk(l, post),
         req[c].st # "validating", n.st # "validating"
  PROVE  IInv'
  <1>1. /\ req = [d \in Clients |-> req[d]] /\ results = [d \in Clients |-> results[d]]
        /\ val \in [Clients -> Validation]
        /\ \A d \in Clients : /\ Shaped(req[d]) /\ req[d].i \in Nat \ {0}
                              /\ results[d] = [i \in 1 .. req[d].i - 1 |-> results[d][i]]
    BY DEF IInv, Shapes
  <1>2. /\ req'[c] = n /\ \A d \in Clients : d # c => req'[d] = req[d]
        /\ req' = [d \in Clients |-> req'[d]]
    BY <1>1
  <1>3. \A d \in Clients : req'[d].i = req[d].i
    BY <1>2
  <1>4. Shapes'
    <2>1. \A d \in Clients : Shaped(req'[d])
      BY <1>1, <1>2
    <2>2. \A d \in Clients : Shaped(req[d])'
      BY <2>1 DEF Shaped
    <2>3. \A d \in Clients : results'[d] = [i \in 1 .. req'[d].i - 1 |-> results'[d][i]]
      BY <1>1, <1>3
    <2> QED BY <1>1, <1>2, <1>3, <2>2, <2>3 DEF Shapes
  <1>5. Staged'
    <2> SUFFICES ASSUME NEW d \in Clients, Open(d)'
                 PROVE  StageOk(d, post[d][req'[d].i].method, req'[d])
      BY DEF Staged, Msg, StageOk
    <2>1. Open(d)
      BY <1>3 DEF Open
    <2>2. CASE d = c
      BY <1>2, <2>1, <2>2 DEF Msg
    <2>3. CASE d # c
      BY <1>2, <2>1, <2>3 DEF IInv, Staged, Msg
    <2> QED BY <2>2, <2>3
  <1>6. Loading'
    BY DEF Loading, LoadOk, LoadShaped
  <1>7. Validations'
    <2>1. ASSUME NEW d \in Clients
          PROVE  At(d, "validating")' <=> At(d, "validating")
      <3>1. CASE d = c
        BY <1>2, <3>1 DEF At
      <3>2. CASE d # c
        BY <1>2, <3>2 DEF At, Open
      <3> QED BY <3>1, <3>2
    <2>2. Holding(val') = Holding(val)
      BY DEF Holding
    <2> QED BY <1>3, <2>1, <2>2 DEF IInv, Validations
  <1>8. Billed' /\ Rightful'
    BY ResultsStay DEF IInv
  <1> QED BY <1>4, <1>5, <1>6, <1>7, <1>8 DEF IInv

\* The messages stay where they are; loads go on.
LEMMA Waits ==
  ASSUME IInv, UNCHANGED <<post, req, results, twice, val, validating, bills>>,
         \A l \in loads' : LoadOk(l, post)
  PROVE  IInv'
  <1>1. Shapes' /\ Staged'
    BY DEF IInv, Shapes, Shaped, Staged, StageOk, Open, Msg
  <1>2. Loading'
    BY DEF Loading, LoadOk, LoadShaped
  <1>3. Validations'
    BY DEF IInv, Validations, Holding, At, Open
  <1>4. Billed' /\ Rightful'
    BY ResultsStay DEF IInv
  <1> QED BY <1>1, <1>2, <1>3, <1>4 DEF IInv

\* The loads under way were asked for as they should.
LEMMA LoadsFine ==
  ASSUME IInv, NEW ls, ls \subseteq loads
  PROVE  \A l \in ls : LoadOk(l, post)
  BY DEF IInv, Loading

\* Slots: one more, the same, or one less.
LEMMA SlotsCount ==
  ASSUME val \in [Clients -> Validation], NEW c \in Clients, NEW v \in Validation, val' = [val EXCEPT ![c] = v]
  PROVE  /\ Cardinality(Holding(val)) \in Nat
         /\ v.st \in Slot /\ val[c].st \notin Slot => Cardinality(Holding(val')) = Cardinality(Holding(val)) + 1
         /\ (v.st \in Slot <=> val[c].st \in Slot) => Cardinality(Holding(val')) = Cardinality(Holding(val))
         /\ v.st \notin Slot /\ val[c].st \in Slot => Cardinality(Holding(val')) = Cardinality(Holding(val)) - 1
  <1> DEFINE H == Holding(val)
             G == Holding(val')
  <1>1. /\ val'[c] = v /\ \A d \in Clients : d # c => val'[d] = val[d]
        /\ H \subseteq Clients /\ G \subseteq Clients
        /\ \A d \in Clients : (d \in H <=> val[d].st \in Slot) /\ (d \in G <=> val'[d].st \in Slot)
    BY DEF Holding
  <1>2. IsFiniteSet(H) /\ Cardinality(H) \in Nat
    BY <1>1, GatewayAssumption, FS_Subset, FS_CardinalityType
  <1> HIDE DEF H, G
  <1>3. v.st \in Slot /\ val[c].st \notin Slot => G = H \cup {c} /\ c \notin H
    BY <1>1
  <1>4. (v.st \in Slot <=> val[c].st \in Slot) => G = H
    BY <1>1
  <1>5. v.st \notin Slot /\ val[c].st \in Slot => G = H \ {c} /\ c \in H
    BY <1>1
  <1>6. v.st \in Slot /\ val[c].st \notin Slot => Cardinality(G) = Cardinality(H) + 1
    BY <1>2, <1>3, FS_AddElement
  <1>7. v.st \notin Slot /\ val[c].st \in Slot => Cardinality(G) = Cardinality(H) - 1
    BY <1>2, <1>5, FS_RemoveElement
  <1> QED BY <1>2, <1>4, <1>6, <1>7 DEF H, G

\* A validation goes on; its message keeps waiting.
LEMMA ValidationGoesOn ==
  ASSUME IInv, NEW c \in Clients, val[c].st # "none",
         NEW v \in Validation, v.st # "none", v.i = val[c].i, v.st \in {"tearing", "torn"} => v.answered,
         val' = [val EXCEPT ![c] = v], UNCHANGED <<post, req, results, twice, loads, bills>>,
         validating' = Cardinality(Holding(val')), validating' <= ValidateMax
  PROVE  IInv'
  <1>1. val \in [Clients -> Validation]
    BY DEF IInv, Shapes
  <1>2. /\ val' \in [Clients -> Validation]
        /\ val'[c] = v /\ \A d \in Clients : d # c => val'[d] = val[d]
    BY <1>1
  <1>3. Shapes' /\ Staged'
    BY <1>2 DEF IInv, Shapes, Shaped, Staged, StageOk, Open, Msg
  <1>4. Loading'
    BY DEF IInv, Loading, LoadOk, LoadShaped
  <1>5. Validations'
    <2>1. \A d \in Clients : At(d, "validating")' <=> At(d, "validating")
      BY DEF At, Open
    <2>2. ASSUME NEW d \in Clients
          PROVE  /\ val'[d].st # "none" <=> At(d, "validating")'
                 /\ val'[d].st # "none" => val'[d].i = req'[d].i /\ Role[d] = "admin"
                 /\ val'[d].st \in {"tearing", "torn"} => val'[d].answered
      <3>1. CASE d = c
        BY <1>2, <2>1, <3>1 DEF IInv, Validations
      <3>2. CASE d # c
        BY <1>2, <2>1, <3>2 DEF IInv, Validations
      <3> QED BY <3>1, <3>2
    <2> QED BY <2>2 DEF IInv, Validations
  <1>6. Billed' /\ Rightful'
    BY ResultsStay DEF IInv
  <1> QED BY <1>3, <1>4, <1>5, <1>6 DEF IInv

\* A sandboxed validation starts: a slot is taken for the message of c.
LEMMA ValidationStarts ==
  ASSUME IInv, NEW c \in Clients, At(c, "identity"), MayAuthor(c), Goto(c, "validating"),
         validating < ValidateMax, validating' = validating + 1,
         val' = [val EXCEPT ![c] = [st |-> "creating", i |-> req[c].i, answered |-> FALSE]],
         UNCHANGED <<post, loads, bills>>
  PROVE  IInv'
  <1> DEFINE v == [st |-> "creating", i |-> req[c].i, answered |-> FALSE]
             n == AtStage(req[c], "validating", req[c].tgt, req[c].schema, req[c].g)
  <1>1. /\ req = [d \in Clients |-> req[d]] /\ results = [d \in Clients |-> results[d]]
        /\ val \in [Clients -> Validation]
        /\ \A d \in Clients : /\ Shaped(req[d]) /\ req[d].i \in Nat \ {0}
                              /\ results[d] = [i \in 1 .. req[d].i - 1 |-> results[d][i]]
    BY DEF IInv, Shapes
  <1>2. v \in Validation /\ v.st = "creating" /\ v.i = req[c].i /\ v.answered = FALSE
    BY <1>1 DEF Validation
  <1>3. n.st = "validating" /\ n.i = req[c].i /\ Shaped(n)
    BY StageFields
  <1>4. req' = [req EXCEPT ![c] = n] /\ val' = [val EXCEPT ![c] = v] /\ UNCHANGED <<results, twice>>
    <2>1. n = [req[c] EXCEPT !.st = "validating"]
      BY <1>1, Restaged, Zenon
    <2> HIDE DEF n
    <2> QED BY <2>1 DEF Goto
  <1> HIDE DEF v, n
  <1>5. /\ req'[c] = n /\ \A d \in Clients : d # c => req'[d] = req[d]
        /\ req' = [d \in Clients |-> req'[d]]
        /\ val' \in [Clients -> Validation]
        /\ val'[c] = v /\ \A d \in Clients : d # c => val'[d] = val[d]
    BY <1>1, <1>2, <1>4
  <1>6. \A d \in Clients : req'[d].i = req[d].i
    BY <1>3, <1>5
  <1>7. Shapes'
    <2>1. \A d \in Clients : Shaped(req'[d])
      BY <1>1, <1>3, <1>5
    <2>2. \A d \in Clients : Shaped(req[d])'
      BY <2>1 DEF Shaped
    <2>3. \A d \in Clients : results'[d] = [i \in 1 .. req'[d].i - 1 |-> results'[d][i]]
      BY <1>1, <1>4, <1>6
    <2> QED BY <1>1, <1>4, <1>5, <1>6, <2>2, <2>3 DEF Shapes
  <1>8. Staged'
    <2> SUFFICES ASSUME NEW d \in Clients, Open(d)'
                 PROVE  StageOk(d, post[d][req'[d].i].method, req'[d])
      BY DEF Staged, Msg, StageOk
    <2>1. Open(d)
      BY <1>6 DEF Open
    <2>2. CASE d = c
      BY <1>3, <1>5, <2>2 DEF StageOk, Calling, Allowed
    <2>3. CASE d # c
      BY <1>5, <2>1, <2>3 DEF IInv, Staged, Msg
    <2> QED BY <2>2, <2>3
  <1>9. Loading'
    BY DEF IInv, Loading, LoadOk, LoadShaped
  <1>10. Validations'
    <2>1. val[c].st = "none"
      BY DEF IInv, Validations, At
    <2>2. validating' = Cardinality(Holding(val')) /\ validating' <= ValidateMax
      <3>1. v.st \in Slot /\ val[c].st \notin Slot
        BY <1>2, <2>1 DEF Slot
      <3>2. Cardinality(Holding(val')) = Cardinality(Holding(val)) + 1 /\ Cardinality(Holding(val)) \in Nat
        BY <1>1, <1>2, <1>4, <3>1, SlotsCount
      <3>3. validating = Cardinality(Holding(val))
        BY DEF IInv, Validations
      <3> QED BY <3>2, <3>3, GatewayAssumption
    <2>3. ASSUME NEW d \in Clients
          PROVE  /\ val'[d].st # "none" <=> At(d, "validating")'
                 /\ val'[d].st # "none" => val'[d].i = req'[d].i /\ Role[d] = "admin"
                 /\ val'[d].st \in {"tearing", "torn"} => val'[d].answered
      <3>1. CASE d = c
        BY <1>2, <1>3, <1>5, <3>1 DEF At, Open, MayAuthor
      <3>2. CASE d # c
        <4>1. At(d, "validating")' <=> At(d, "validating")
          BY <1>5, <3>2 DEF At, Open
        <4> QED BY <1>5, <3>2, <4>1 DEF IInv, Validations
      <3> QED BY <3>1, <3>2
    <2> QED BY <1>4, <2>2, <2>3 DEF IInv, Validations
  <1>11. Billed' /\ Rightful'
    BY <1>4, ResultsStay DEF IInv
  <1> QED BY <1>7, <1>8, <1>9, <1>10, <1>11 DEF IInv
\* An answer that ran and shows nothing, whatever the message was.
LEMMA RepliesPlainly ==
  ASSUME IInv, NEW c \in Clients, Open(c), req[c].st # "validating",
         NEW r, r.ran = None, Answer(c, r), UNCHANGED <<post, loads, val, validating, bills>>
  PROVE  IInv'
  <1>1. ResultOk(c, Msg(c).method, r.ran)
    BY DEF ResultOk
  <1>2. \A l \in loads' : LoadOk(l, post)
    BY LoadsFine
  <1> QED BY <1>1, <1>2, Replies

\* What the constant answers hold.
LEMMA AnswerFields ==
  /\ Error.ran = None /\ Ok.ran = None /\ Silent.ran = None
  /\ \A x : Done(x).ran = x
  /\ \A x, s : ModuleToolResult(x, s).ran = x
  <1>1. Error.ran = None /\ Ok.ran = None /\ Silent.ran = None
    BY DEF Error, Ok, Silent
  <1>2. ASSUME NEW x PROVE Done(x) = [kind |-> "ok", ran |-> x, schema |-> None]
    BY DEF Done, Ok
  <1>3. ASSUME NEW x, NEW s PROVE ModuleToolResult(x, s) = [kind |-> "ok", ran |-> x, schema |-> s]
    BY <1>2 DEF ModuleToolResult
  <1> QED BY <1>1, <1>2, <1>3

\* An answer to a message that is neither a call nor a listing.
LEMMA RepliesOtherwise ==
  ASSUME IInv, NEW c \in Clients, Open(c), req[c].st # "validating",
         Msg(c).method \notin {"list", "call", "calltool"},
         NEW r, Answer(c, r), UNCHANGED <<post, loads, val, validating, bills>>
  PROVE  IInv'
  <1>1. ResultOk(c, Msg(c).method, r.ran)
    BY DEF ResultOk
  <1>2. \A l \in loads' : LoadOk(l, post)
    BY LoadsFine
  <1> QED BY <1>1, <1>2, Replies

\* Goto.
LEMMA Goes ==
  ASSUME IInv, NEW c \in Clients, req[c].st # "validating", NEW st, st # "validating", Goto(c, st),
         Open(c) => StageOk(c, Msg(c).method, AtStage(req[c], st, req[c].tgt, req[c].schema, req[c].g)),
         UNCHANGED <<post, val, validating, bills>>, \A l \in loads' : LoadOk(l, post)
  PROVE  IInv'
  <1> DEFINE n == AtStage(req[c], st, req[c].tgt, req[c].schema, req[c].g)
  <1>1. n = [req[c] EXCEPT !.st = st]
    <2>1. Shaped(req[c])
      BY DEF IInv, Shapes
    <2> QED BY <2>1, Restaged, Zenon
  <1>2. n.st = st /\ n.i = req[c].i /\ Shaped(n)
    BY StageFields
  <1>3. StageOk(c, Msg(c).method, n) \/ ~Open(c)
    OBVIOUS
  <1> HIDE DEF n
  <1>4. req' = [req EXCEPT ![c] = n] /\ UNCHANGED <<results, twice>>
    BY <1>1 DEF Goto
  <1> QED BY <1>2, <1>3, <1>4, Moves

\* A stage about which nothing is claimed.
Free == {"identity", "limited", "child"}

\* A message goes on to such a stage.
LEMMA GoesFreely ==
  ASSUME IInv, NEW c \in Clients, req[c].st # "validating", NEW st \in Free, Goto(c, st),
         UNCHANGED <<post, loads, val, validating, bills>>
  PROVE  IInv'
  <1>1. StageOk(c, Msg(c).method, AtStage(req[c], st, req[c].tgt, req[c].schema, req[c].g))
    BY StageFields DEF StageOk, Free, Calling, Allowed
  <1>2. \A l \in loads' : LoadOk(l, post)
    BY LoadsFine
  <1>3. st # "validating"
    BY DEF Free
  <1> QED BY <1>1, <1>2, <1>3, Goes

\* handleToolsCall finds the target of the name, or answers.
LEMMA LooksUp ==
  ASSUME IInv, NEW c \in Clients, Open(c), req[c].st # "validating", NEW name, LookUp(c, name),
         Msg(c).method \in {"call", "task"} \cup Authoring,
         UNCHANGED <<post, loads, val, validating, bills>>
  PROVE  IInv'
  <1>1. CASE name \notin Names(ToolTargets)
    <2>1. Answer(c, Error)
      BY <1>1 DEF LookUp
    <2> QED BY <2>1, RepliesPlainly, AnswerFields
  <1>2. CASE name \in Names(ToolTargets)
    <2> DEFINE t == CHOOSE t \in ToolTargets : t.name = name
               n == AtStage(req[c], "auth", t, req[c].schema, req[c].g)
    <2>1. /\ req' = [req EXCEPT ![c] = [req[c] EXCEPT !.st = "auth", !.tgt = t]]
          /\ UNCHANGED <<results, twice>>
      BY <1>2 DEF LookUp
    <2> HIDE DEF t
    <2>2. [req[c] EXCEPT !.st = "auth", !.tgt = t] = n
      <3>1. Shaped(req[c])
        BY DEF IInv, Shapes
      <3> QED BY <3>1, Restaged, Zenon
    <2>3. n.st = "auth" /\ n.i = req[c].i /\ n.tgt = t /\ Shaped(n)
      BY StageFields
    <2> HIDE DEF n
    <2>4. StageOk(c, Msg(c).method, n)
      BY <2>3 DEF StageOk, Calling, Allowed
    <2>5. req' = [req EXCEPT ![c] = n]
      BY <2>1, <2>2
    <2>6. \A l \in loads' : LoadOk(l, post)
      BY LoadsFine
    <2> QED BY <2>1, <2>3, <2>4, <2>5, <2>6, Moves
  <1> QED BY <1>1, <1>2

\* A message that is not at a validation's stage is open and free to answer.
LEMMA Elsewhere ==
  ASSUME NEW c \in Clients, NEW st, st # "validating", At(c, st)
  PROVE  Open(c) /\ req[c].st # "validating" /\ req[c].st = st
  BY DEF At

(***************************************************************************)
(* The steps of a message.                                                 *)
(***************************************************************************)

\* handle: every method is answered, looked up, listed or taken to an identity.
LEMMA HandleKeeps ==
  ASSUME IInv, NEW c \in Clients, Handle(c)
  PROVE  IInv'
  <1> DEFINE msg == Msg(c)
  <1>1. /\ Open(c) /\ req[c].st # "validating" /\ UNCHANGED <<post, loads, val, validating, bills>>
    BY Elsewhere DEF Handle, Quiet
  <1>2. \/ msg.method = "initialize" /\ Initialize(c)
        \/ msg.method = "ping" /\ Ping(c)
        \/ msg.method = "unknown" /\ Answer(c, Error)
        \/ msg.method = "notification" /\ Answer(c, Silent)
        \/ /\ msg.method = "list"
           /\ req' = [req EXCEPT ![c] = [req[c] EXCEPT !.st = "listing", !.tgt = {t.dev : t \in ToolTargets}]]
           /\ UNCHANGED <<results, twice>>
        \/ msg.method \in {"call", "task"} /\ LookUp(c, msg.arg)
        \/ Goto(c, "identity")
        \/ msg.method \in Authoring /\ LookUp(c, <<msg.method>>)
    BY DEF Handle
  <1>3. CASE msg.method = "initialize" /\ Initialize(c)
    BY <1>1, <1>3, RepliesOtherwise DEF Initialize
  <1>4. CASE msg.method = "ping" /\ Ping(c)
    BY <1>1, <1>4, RepliesPlainly, AnswerFields DEF Ping
  <1>5. CASE Answer(c, Error) \/ Answer(c, Silent)
    BY <1>1, <1>5, RepliesPlainly, AnswerFields
  <1>6. CASE /\ msg.method = "list"
             /\ req' = [req EXCEPT ![c] = [req[c] EXCEPT !.st = "listing", !.tgt = {t.dev : t \in ToolTargets}]]
             /\ UNCHANGED <<results, twice>>
    <2> DEFINE ds == {t.dev : t \in ToolTargets}
               n == AtStage(req[c], "listing", ds, req[c].schema, req[c].g)
    <2>1. req' = [req EXCEPT ![c] = [req[c] EXCEPT !.st = "listing", !.tgt = ds]]
      BY <1>6
    <2> HIDE DEF ds
    <2>2. [req[c] EXCEPT !.st = "listing", !.tgt = ds] = n
      <3>1. Shaped(req[c])
        BY DEF IInv, Shapes
      <3> QED BY <3>1, Restaged, Zenon
    <2>3. n.st = "listing" /\ n.i = req[c].i /\ Shaped(n)
      BY StageFields
    <2> HIDE DEF n
    <2>4. StageOk(c, Msg(c).method, n)
      BY <1>6, <2>3 DEF StageOk, Calling, Allowed
    <2>5. req' = [req EXCEPT ![c] = n]
      BY <2>1, <2>2
    <2>6. \A l \in loads' : LoadOk(l, post)
      BY <1>1, LoadsFine
    <2> QED BY <1>1, <1>6, <2>3, <2>4, <2>5, <2>6, Moves
  <1>7. CASE msg.method \in {"call", "task"} /\ LookUp(c, msg.arg)
    BY <1>1, <1>7, LooksUp
  <1>8. CASE Goto(c, "identity")
    BY <1>1, <1>8, GoesFreely DEF Free
  <1>9. CASE msg.method \in Authoring /\ LookUp(c, <<msg.method>>)
    BY <1>1, <1>9, LooksUp
  <1> QED BY <1>2, <1>3, <1>4, <1>5, <1>6, <1>7, <1>8, <1>9
\* buildToolList and handleToolsList: what is shown is filtered by the key first.
LEMMA ListKeeps ==
  ASSUME IInv, NEW c \in Clients, List(c) \/ ListAppended(c)
  PROVE  IInv'
  <1>1. /\ Open(c) /\ req[c].st # "validating" /\ UNCHANGED <<post, loads, val, validating, bills>>
        /\ req[c].st \in {"listing", "appending"}
    BY Elsewhere DEF List, ListAppended, Quiet
  <1>2. Msg(c).method = "list" /\ StageOk(c, Msg(c).method, req[c])
    BY <1>1 DEF IInv, Staged, StageOk
  <1>3. \A l \in loads' : LoadOk(l, post)
    BY <1>1, LoadsFine
  <1>4. Listed(c) \subseteq Owns[c]
    BY DEF Listed
  <1>5. ASSUME NEW x, x \subseteq Owns[c] \cup (IF Role[c] = "admin" THEN AuthoringTools ELSE {}),
               Answer(c, Done(x))
        PROVE  IInv'
    <2>1. Done(x).ran = x
      BY AnswerFields
    <2>2. ResultOk(c, Msg(c).method, Done(x).ran)
      BY <1>2, <1>5, <2>1 DEF ResultOk
    <2>3. Msg(c).method \notin {"call", "calltool"}
      BY <1>2
    <2> QED BY <1>1, <1>3, <1>5, <2>2, <2>3, Replies
  <1>6. CASE List(c)
    <2>1. CASE Answer(c, Error)
      BY <1>1, <2>1, RepliesPlainly, AnswerFields
    <2>2. CASE Answer(c, Done(Listed(c)))
      BY <1>4, <1>5, <2>2
    <2>3. CASE /\ req' = [req EXCEPT ![c] = [req[c] EXCEPT !.st = "appending", !.tgt = Listed(c)]]
               /\ UNCHANGED <<results, twice>>
      <3> DEFINE n == AtStage(req[c], "appending", Listed(c), req[c].schema, req[c].g)
      <3>1. [req[c] EXCEPT !.st = "appending", !.tgt = Listed(c)] = n
        <4>1. Shaped(req[c])
          BY DEF IInv, Shapes
        <4> QED BY <4>1, Restaged, Zenon
      <3>2. n.st = "appending" /\ n.i = req[c].i /\ n.tgt = Listed(c) /\ Shaped(n)
        BY StageFields
      <3> HIDE DEF n
      <3>3. StageOk(c, Msg(c).method, n)
        BY <1>2, <1>4, <3>2 DEF StageOk, Calling, Allowed
      <3>4. req' = [req EXCEPT ![c] = n]
        BY <2>3, <3>1
      <3> QED BY <1>1, <1>3, <2>3, <3>2, <3>3, <3>4, Moves
    <2> QED BY <1>6, <2>1, <2>2, <2>3 DEF List
  <1>7. CASE ListAppended(c)
    <2>1. req[c].tgt \subseteq Owns[c]
      BY <1>2, <1>7 DEF ListAppended, At, StageOk
    <2>2. CASE Answer(c, Done(req[c].tgt))
      BY <1>5, <2>1, <2>2
    <2>3. CASE MayAuthor(c) /\ Answer(c, Done(req[c].tgt \cup AuthoringTools))
      BY <1>5, <2>1, <2>3 DEF MayAuthor
    <2> QED BY <1>7, <2>2, <2>3 DEF ListAppended
  <1> QED BY <1>6, <1>7

\* The platform tool, tasks and refusals show nothing; a plan is not a call.
LEMMA IdentityKeeps ==
  ASSUME IInv, NEW c \in Clients, Identified(c) \/ Balances(c) \/ Refused(c) \/ Plan(c) \/ ChildEnds(c)
  PROVE  IInv'
  <1>1. /\ Open(c) /\ req[c].st # "validating" /\ UNCHANGED <<post, loads, val, validating, bills>>
    BY Elsewhere DEF Identified, Balances, Refused, Plan, ChildEnds, Quiet
  <1>2. CASE Answer(c, Error) \/ Answer(c, Ok)
    BY <1>1, <1>2, RepliesPlainly, AnswerFields
  <1>3. CASE Plan(c)
    <2>1. Msg(c).method \notin {"list", "call", "calltool"}
      BY <1>3 DEF Plan
    <2> QED BY <1>1, <1>3, <2>1, RepliesOtherwise DEF Plan
  <1> QED BY <1>2, <1>3 DEF Identified, Balances, Refused, ChildEnds

\* countinghouse_call_tool re-enters handleToolsCall.
LEMMA CallToolKeeps ==
  ASSUME IInv, NEW c \in Clients, CallTool(c)
  PROVE  IInv'
  <1>1. /\ Open(c) /\ req[c].st # "validating" /\ UNCHANGED <<post, loads, val, validating, bills>>
        /\ Msg(c).method \in Authoring
        /\ LookUp(c, Msg(c).arg) \/ Goto(c, "limited")
    BY Elsewhere DEF CallTool, Quiet, Authoring
  <1>2. CASE LookUp(c, Msg(c).arg)
    BY <1>1, <1>2, LooksUp
  <1>3. CASE Goto(c, "limited")
    BY <1>1, <1>3, GoesFreely DEF Free
  <1> QED BY <1>1, <1>2, <1>3

\* A call goes on only for a device of its key.
LEMMA AuthorisedKeeps ==
  ASSUME IInv, NEW c \in Clients, Authorised(c)
  PROVE  IInv'
  <1>1. /\ Open(c) /\ req[c].st = "auth" /\ req[c].st # "validating"
        /\ UNCHANGED <<post, loads, val, validating, bills>>
    BY Elsewhere DEF Authorised, Quiet
  <1>2. CASE Answer(c, Error) \/ Answer(c, Ok)
    BY <1>1, <1>2, RepliesPlainly, AnswerFields
  <1>3. ASSUME NEW st \in {"schema", "invoke"}, Goto(c, st), req[c].tgt.dev \in Owns[c]
        PROVE  IInv'
    <2>1. Msg(c).method \in {"call", "task"} \cup Authoring
      BY <1>1 DEF IInv, Staged, StageOk, Calling
    <2>2. StageOk(c, Msg(c).method, AtStage(req[c], st, req[c].tgt, req[c].schema, req[c].g))
      BY <1>3, <2>1, StageFields DEF StageOk, Calling, Allowed
    <2>3. \A l \in loads' : LoadOk(l, post)
      BY <1>1, LoadsFine
    <2> QED BY <1>1, <1>3, <2>2, <2>3, Goes
  <1> QED BY <1>2, <1>3 DEF Authorised

\* The schema and the worker are looked up for the target as it was authorised.
LEMMA InvokeKeeps ==
  ASSUME IInv, NEW c \in Clients, Schema(c) \/ Invoke(c)
  PROVE  IInv'
  <1>1. /\ Open(c) /\ req[c].st \in {"schema", "invoke"} /\ req[c].st # "validating"
        /\ UNCHANGED <<post, loads, val, validating, bills>>
    BY Elsewhere DEF Schema, Invoke, Quiet
  <1>2. CASE Answer(c, Error)
    BY <1>1, <1>2, RepliesPlainly, AnswerFields
  <1>3. Msg(c).method \in {"call", "task"} \cup Authoring /\ req[c].tgt.dev \in Owns[c] /\ Shaped(req[c])
    BY <1>1 DEF IInv, Shapes, Staged, StageOk, Calling, Allowed
  <1>4. \A l \in loads' : LoadOk(l, post)
    BY <1>1, LoadsFine
  <1>5. CASE Schema(c)
    <2>1. PICK s : /\ req' = [req EXCEPT ![c] = [req[c] EXCEPT !.st = "invoke", !.schema = s]]
                   /\ UNCHANGED <<results, twice>>
      BY <1>5 DEF Schema
    <2> DEFINE n == AtStage(req[c], "invoke", req[c].tgt, s, req[c].g)
    <2>2. [req[c] EXCEPT !.st = "invoke", !.schema = s] = n
      BY <1>3, Restaged, Zenon
    <2>3. n.st = "invoke" /\ n.i = req[c].i /\ n.tgt = req[c].tgt /\ Shaped(n)
      BY StageFields
    <2> HIDE DEF n
    <2>4. req' = [req EXCEPT ![c] = n]
      BY <2>1, <2>2
    <2>5. StageOk(c, Msg(c).method, n)
      BY <1>3, <2>3 DEF StageOk, Calling, Allowed
    <2> QED BY <1>1, <1>4, <2>1, <2>3, <2>4, <2>5, Moves
  <1>6. CASE Invoke(c) /\ ~Answer(c, Error)
    <2> DEFINE w == worker[req[c].tgt.dev]
               n == AtStage(req[c], "running", req[c].tgt, req[c].schema, w)
    <2>1. /\ req' = [req EXCEPT ![c] = [req[c] EXCEPT !.st = "running", !.g = w]]
          /\ UNCHANGED <<results, twice>>
      BY <1>6 DEF Invoke
    <2> HIDE DEF w
    <2>2. [req[c] EXCEPT !.st = "running", !.g = w] = n
      BY <1>3, Rebound, Zenon
    <2>3. n.st = "running" /\ n.i = req[c].i /\ n.tgt = req[c].tgt /\ Shaped(n)
      BY StageFields
    <2> HIDE DEF n
    <2>4. req' = [req EXCEPT ![c] = n]
      BY <2>1, <2>2
    <2>5. StageOk(c, Msg(c).method, n)
      BY <1>3, <2>3 DEF StageOk, Calling, Allowed
    <2> QED BY <1>1, <1>4, <2>1, <2>3, <2>4, <2>5, Moves
  <1> QED BY <1>2, <1>5, <1>6

\* respond: the bill, the result and the authorisation are for one target.
LEMMA RespondsKeeps ==
  ASSUME IInv, NEW c \in Clients, Responds(c)
  PROVE  IInv'
  <1>1. /\ Open(c) /\ req[c].st = "running" /\ req[c].st # "validating"
        /\ UNCHANGED <<post, loads, val, validating>>
    BY Elsewhere DEF Responds
  <1>2. CASE Answer(c, Error) /\ UNCHANGED bills
    BY <1>1, <1>2, RepliesPlainly, AnswerFields
  <1>3. CASE ~(Answer(c, Error) /\ UNCHANGED bills)
    <2> DEFINE tool == <<req[c].tgt.dev, req[c].tgt.act>>
               r == ModuleToolResult(tool, req[c].schema)
    <2>1. Answer(c, r) /\ bills' = bills \cup {[c |-> c, i |-> req[c].i, tool |-> tool]}
      BY <1>3 DEF Responds, BilledAs
    <2>2. r.ran = tool
      BY AnswerFields
    <2>3. tool[1] = req[c].tgt.dev
      OBVIOUS
    <2>4. req[c].tgt.dev \in Owns[c] /\ Msg(c).method \in {"call", "task"} \cup Authoring
      BY <1>1 DEF IInv, Staged, StageOk, Calling, Allowed
    <2>5. Msg(c).method # "list"
      BY <2>4 DEF Authoring
    <2> HIDE DEF r, tool
    <2>6. ResultOk(c, Msg(c).method, r.ran)
      BY <2>2, <2>3, <2>4, <2>5 DEF ResultOk
    <2>7. \A l \in loads' : LoadOk(l, post)
      BY <1>1, LoadsFine
    <2> QED BY <1>1, <2>1, <2>2, <2>6, <2>7, Replies
  <1> QED BY <1>2, <1>3

\* countinghouse_load_module: the load, its deadline and the poll.
LEMMA LoadModuleKeeps ==
  ASSUME IInv, NEW c \in Clients, LoadModule(c) \/ LoadTimesOut(c) \/ Polled(c)
  PROVE  IInv'
  <1>1. CASE LoadTimesOut(c)
    BY <1>1, Elsewhere, RepliesPlainly, AnswerFields DEF LoadTimesOut, Quiet
  <1>2. CASE Polled(c)
    <2>1. Open(c) /\ req[c].st = "polling" /\ UNCHANGED <<post, loads, val, validating, bills>>
      BY <1>2, Elsewhere DEF Polled, Quiet
    <2>2. Msg(c).method \notin {"list", "call", "calltool"}
      BY <2>1 DEF IInv, Staged, StageOk
    <2>3. \E r : Answer(c, r)
      BY <1>2 DEF Polled
    <2> QED BY <2>1, <2>2, <2>3, RepliesOtherwise
  <1>3. CASE LoadModule(c)
    <2> DEFINE l0 == [c |-> c, i |-> req[c].i, mod |-> Msg(c).arg, st |-> "asked"]
    <2>1. /\ Open(c) /\ req[c].st # "validating" /\ UNCHANGED <<post, val, validating, bills>>
          /\ Msg(c).method = "load" /\ Role[c] = "admin" /\ Goto(c, "loading")
          /\ loads' = loads \cup {l0}
      BY <1>3, Elsewhere DEF LoadModule, MayAuthor
    <2>2. req[c].i \in Nat
      BY DEF IInv, Shapes
    <2>3. LoadOk(l0, post)
      BY <2>1, <2>2 DEF LoadOk, LoadShaped, Msg, Open
    <2> HIDE DEF l0
    <2>4. \A l \in loads' : LoadOk(l, post)
      BY <2>1, <2>3 DEF IInv, Loading
    <2>5. StageOk(c, Msg(c).method, AtStage(req[c], "loading", req[c].tgt, req[c].schema, req[c].g))
      BY <2>1, StageFields DEF StageOk, Calling, Allowed
    <2> QED BY <2>1, <2>4, <2>5, Goes
  <1> QED BY <1>1, <1>2, <1>3

\* The load begins.
LEMMA LoadBeginsKeeps ==
  ASSUME IInv, NEW l \in loads, LoadBegins(l)
  PROVE  IInv'
  <1> DEFINE b == [l EXCEPT !.st = "begun"]
  <1>1. /\ loads' = (loads \ {l}) \cup {b} /\ UNCHANGED <<post, req, results, twice, val, validating, bills>>
    BY DEF LoadBegins
  <1>2. LoadOk(l, post)
    BY DEF IInv, Loading
  <1>3. b = [c |-> l.c, i |-> l.i, mod |-> l.mod, st |-> "begun"]
    <2>1. DOMAIN l = {"c", "i", "mod", "st"}
      BY <1>2 DEF LoadOk, LoadShaped
    <2> QED BY <2>1
  <1> HIDE DEF b
  <1>4. LoadOk(b, post)
    BY <1>2, <1>3 DEF LoadOk, LoadShaped
  <1>5. \A x \in loads' : LoadOk(x, post)
    BY <1>1, <1>4 DEF IInv, Loading
  <1> QED BY <1>1, <1>5, Waits

\* loadModuleFromPath calls back, heard by the message that waits or by nobody.
LEMMA CallsBackKeeps ==
  ASSUME IInv, NEW m \in Modules, FailedBack(m) \/ \E v \in Versions[m] : LoadedBack(m, v)
  PROVE  IInv'
  <1> DEFINE mine == {l \in Begun(m) : CallbackTaken(l)}
             heard == CHOOSE l \in mine : TRUE
  <1>1. loads' = loads \ Begun(m) /\ UNCHANGED <<post, val, validating, bills>>
    BY DEF FailedBack, LoadedBack
  <1>2. \A l \in loads' : LoadOk(l, post)
    BY <1>1, LoadsFine
  <1>3. CASE mine = {}
    <2>1. UNCHANGED <<req, results, twice>>
      BY <1>3 DEF FailedBack, LoadedBack
    <2> QED BY <1>1, <1>2, <2>1, Waits
  <1>4. CASE mine # {}
    <2> DEFINE c == heard.c
    <2>1. heard \in mine
      BY <1>4
    <2>2. heard \in loads /\ req[c].i = heard.i /\ req[c].st = "loading"
      BY <2>1 DEF Begun, CallbackTaken
    <2>3. c \in Clients
      BY <2>2 DEF IInv, Loading, LoadOk
    <2>4. Msg(c).method = "load"
      BY <2>2 DEF IInv, Loading, LoadOk, Msg
    <2>5. CASE FailedBack(m)
      <3>1. Reply(c, heard.i, Error)
        BY <1>4, <2>5 DEF FailedBack
      <3> HIDE DEF heard, mine
      <3>2. Open(c)
        BY <2>2 DEF IInv, Loading, LoadOk, Open
      <3>3. Answer(c, Error)
        BY <2>2, <3>1 DEF Answer
      <3>4. ResultOk(c, Msg(c).method, Error.ran)
        BY AnswerFields DEF ResultOk
      <3>5. req[c].st # "validating" /\ Error.ran = None
        BY <2>2, AnswerFields
      <3> HIDE DEF c
      <3> QED BY <1>1, <1>2, <2>3, <3>2, <3>3, <3>4, <3>5, Replies
    <2>6. CASE \E v \in Versions[m] : LoadedBack(m, v)
      <3> DEFINE n == AtStage(req[c], "polling", req[c].tgt, req[c].schema, gen')
      <3>1. /\ req' = [req EXCEPT ![c] = [req[c] EXCEPT !.st = "polling", !.g = gen']]
            /\ twice' = IF req[c].i = heard.i THEN twice ELSE twice \cup {c}
            /\ results' = results
        BY <1>4, <2>6 DEF LoadedBack
      <3>2. twice' = twice
        BY <2>2, <3>1
      <3> HIDE DEF heard, mine
      <3>3. Shaped(req[c])
        BY <2>3 DEF IInv, Shapes
      <3> HIDE DEF c
      <3>4. [req[c] EXCEPT !.st = "polling", !.g = gen'] = n
        BY <3>3, Rebound, Zenon
      <3>5. n.st = "polling" /\ n.i = req[c].i /\ Shaped(n)
        BY StageFields
      <3> HIDE DEF n
      <3>6. StageOk(c, Msg(c).method, n)
        BY <2>4, <3>5 DEF StageOk, Calling, Allowed
      <3>7. req' = [req EXCEPT ![c] = n]
        BY <3>1, <3>4
      <3>8. req[c].st # "validating"
        BY <2>2
      <3> QED BY <1>1, <1>2, <2>3, <3>1, <3>2, <3>5, <3>6, <3>7, <3>8, Moves
    <2> QED BY <2>5, <2>6
  <1> QED BY <1>3, <1>4
\* countinghouse_validate_module, answered at once, by a child or by the sandbox.
LEMMA ValidateKeeps ==
  ASSUME IInv, NEW c \in Clients, Validate(c)
  PROVE  IInv'
  <1>1. /\ At(c, "identity") /\ MayAuthor(c) /\ Open(c) /\ req[c].st # "validating"
        /\ UNCHANGED <<post, loads, bills>>
    BY Elsewhere DEF Validate
  <1>2. CASE Answer(c, Error) /\ UNCHANGED <<val, validating>>
    BY <1>1, <1>2, RepliesPlainly, AnswerFields
  <1>3. CASE Goto(c, "child") /\ UNCHANGED <<val, validating>>
    BY <1>1, <1>3, GoesFreely DEF Free
  <1>4. CASE /\ validating < ValidateMax /\ Goto(c, "validating")
             /\ val' = [val EXCEPT ![c] = [st |-> "creating", i |-> req[c].i, answered |-> FALSE]]
             /\ validating' = validating + 1
    BY <1>1, <1>4, ValidationStarts
  <1> QED BY <1>2, <1>3, <1>4 DEF Validate

\* The broker is ready, finish tears down once, and the slot comes back once.
LEMMA ValidationKeeps ==
  ASSUME IInv, NEW c \in Clients, BrokerReady(c) \/ Finish(c) \/ TornDown(c)
  PROVE  IInv'
  <1>1. /\ val \in [Clients -> Validation] /\ val[c] \in Validation
        /\ validating = Cardinality(Holding(val)) /\ validating <= ValidateMax /\ validating \in Nat
        /\ val[c].st \in {"tearing", "torn"} => val[c].answered
    <2>1. val \in [Clients -> Validation]
      BY DEF IInv, Shapes
    <2>2. Cardinality(Holding(val)) \in Nat
      <3>1. Holding(val) \subseteq Clients
        BY DEF Holding
      <3> QED BY <3>1, GatewayAssumption, FS_Subset, FS_CardinalityType
    <2> QED BY <2>1, <2>2 DEF IInv, Validations
  <1>2. UNCHANGED <<post, req, results, twice, loads, bills>>
    BY DEF BrokerReady, Finish, TornDown
  <1>3. CASE BrokerReady(c)
    <2> DEFINE v == [val[c] EXCEPT !.st = "running"]
    <2>1. val[c].st = "creating" /\ val' = [val EXCEPT ![c] = v] /\ validating' = validating
      BY <1>3 DEF BrokerReady
    <2>2. v \in Validation /\ v.st = "running" /\ v.i = val[c].i
      BY <1>1 DEF Validation
    <2> HIDE DEF v
    <2>3. Cardinality(Holding(val')) = Cardinality(Holding(val))
      <3>1. v.st \in Slot /\ val[c].st \in Slot
        BY <2>1, <2>2 DEF Slot
      <3> QED BY <1>1, <2>1, <2>2, <3>1, SlotsCount
    <2> QED BY <1>1, <1>2, <2>1, <2>2, <2>3, ValidationGoesOn
  <1>4. CASE Finish(c)
    <2> DEFINE v == [val[c] EXCEPT !.st = "tearing", !.answered = TRUE]
    <2>1. /\ val[c].st \in {"creating", "running"} /\ val' = [val EXCEPT ![c] = v]
          /\ validating' = validating
      BY <1>1, <1>4 DEF Finish, Finishes
    <2>2. v \in Validation /\ v.st = "tearing" /\ v.i = val[c].i /\ v.answered
      BY <1>1 DEF Validation
    <2> HIDE DEF v
    <2>3. Cardinality(Holding(val')) = Cardinality(Holding(val))
      <3>1. v.st \in Slot /\ val[c].st \in Slot
        BY <2>1, <2>2 DEF Slot
      <3> QED BY <1>1, <2>1, <2>2, <3>1, SlotsCount
    <2> QED BY <1>1, <1>2, <2>1, <2>2, <2>3, ValidationGoesOn
  <1>5. CASE TornDown(c)
    <2> DEFINE v == [val[c] EXCEPT !.st = "torn"]
    <2>1. val[c].st = "tearing" /\ val' = [val EXCEPT ![c] = v] /\ validating' = validating - 1
      BY <1>5 DEF TornDown
    <2>2. v \in Validation /\ v.st = "torn" /\ v.i = val[c].i /\ v.answered
      BY <1>1, <2>1 DEF Validation
    <2> HIDE DEF v
    <2>3. Cardinality(Holding(val')) = Cardinality(Holding(val)) - 1
      <3>1. v.st \notin Slot /\ val[c].st \in Slot
        BY <2>1, <2>2 DEF Slot
      <3> QED BY <1>1, <2>1, <2>2, <3>1, SlotsCount
    <2>4. validating' = Cardinality(Holding(val')) /\ validating' <= ValidateMax
      BY <1>1, <2>1, <2>3, GatewayAssumption
    <2> QED BY <1>2, <2>1, <2>2, <2>4, ValidationGoesOn
  <1> QED BY <1>3, <1>4, <1>5

\* The validation's answer finds its message waiting.
LEMMA ValidatedKeeps ==
  ASSUME IInv, NEW c \in Clients, Validated(c)
  PROVE  IInv'
  <1>1. /\ val[c].st = "torn" /\ val' = [val EXCEPT ![c].st = "none"]
        /\ UNCHANGED <<post, loads, validating, bills>>
        /\ \E r \in {Ok, Error} : Reply(c, val[c].i, r)
    BY DEF Validated
  <1>2. Open(c) /\ val[c].i = req[c].i
    BY <1>1 DEF IInv, Validations, At
  <1>3. PICK r \in {Ok, Error} : Reply(c, val[c].i, r)
    BY <1>1
  <1>4. Answer(c, r) /\ r.ran = None
    BY <1>2, <1>3, AnswerFields DEF Answer
  <1>5. ResultOk(c, Msg(c).method, r.ran)
    BY <1>4 DEF ResultOk
  <1>6. \A l \in loads' : LoadOk(l, post)
    BY <1>1, LoadsFine
  <1> QED BY <1>1, <1>2, <1>4, <1>5, <1>6, Replies

\* The operator's steps and the workers' touch the catalog only.
LEMMA OperatorKeeps ==
  ASSUME IInv, UNCHANGED gatewayVars
  PROVE  IInv'
  <1>1. UNCHANGED <<post, req, results, twice, loads, val, validating, bills>>
    BY DEF gatewayVars
  <1>2. \A l \in loads' : LoadOk(l, post)
    BY <1>1, LoadsFine
  <1> QED BY <1>1, <1>2, Waits

\* Before the first message nothing was shown, run, loaded or billed.
LEMMA InitHolds ==
  ASSUME Init
  PROVE  IInv
  <1>1. /\ req = [c \in Clients |-> Idle] /\ results = [c \in Clients |-> <<>>]
        /\ val = [c \in Clients |-> NoVal] /\ loads = {} /\ bills = {} /\ twice = {} /\ validating = 0
    BY DEF Init
  <1>2. Idle.st = "start" /\ Idle.i = 1 /\ Shaped(Idle)
    BY DEF Idle, Shaped
  <1>3. NoVal \in Validation /\ NoVal.st = "none"
    BY DEF NoVal, Validation
  <1>4. \A c \in Clients : req[c] = Idle /\ results[c] = <<>> /\ val[c] = NoVal /\ DOMAIN results[c] = {}
    BY <1>1
  <1>5. Shapes
    <2>1. \A c \in Clients : /\ Shaped(req[c]) /\ req[c].i \in Nat \ {0}
                             /\ results[c] = [i \in 1 .. req[c].i - 1 |-> results[c][i]]
      <3> SUFFICES ASSUME NEW c \in Clients
                   PROVE  results[c] = [i \in 1 .. req[c].i - 1 |-> results[c][i]]
        BY <1>2, <1>4
      <3>1. 1 .. req[c].i - 1 = {}
        BY <1>2, <1>4
      <3>2. [i \in {} |-> results[c][i]] = <<>>
        OBVIOUS
      <3> QED BY <1>4, <3>1, <3>2
    <2> QED BY <1>1, <1>3, <2>1 DEF Shapes
  <1>6. Staged /\ Loading
    BY <1>1, <1>2, <1>4 DEF Staged, Loading, StageOk, Calling, Allowed
  <1>7. Validations
    <2>1. Holding(val) = {}
      BY <1>3, <1>4 DEF Holding, Slot
    <2>2. Cardinality(Holding(val)) = 0
      BY <2>1, FS_EmptySet
    <2>3. validating = Cardinality(Holding(val)) /\ validating <= ValidateMax
      BY <1>1, <2>2, GatewayAssumption
    <2>4. ASSUME NEW c \in Clients PROVE val[c].st = "none" /\ ~At(c, "validating")
      BY <1>2, <1>3, <1>4 DEF At
    <2> QED BY <1>1, <2>3, <2>4 DEF Validations
  <1>8. Billed /\ Rightful
    BY <1>1, <1>4 DEF Billed, BillsWhatRan, Rightful
  <1> QED BY <1>5, <1>6, <1>7, <1>8 DEF IInv

\* Every step keeps the invariant.
LEMMA StepKeeps ==
  ASSUME IInv, [Next]_vars
  PROVE  IInv'
  <1>1. ASSUME NEW c \in Clients, Gateway(c) PROVE IInv'
    BY <1>1, HandleKeeps, ListKeeps, IdentityKeeps, CallToolKeeps, AuthorisedKeeps, InvokeKeeps,
       RespondsKeeps, LoadModuleKeeps, ValidateKeeps, ValidationKeeps, ValidatedKeeps DEF Gateway
  <1>2. ASSUME NEW l \in loads, LoadBegins(l) PROVE IInv'
    BY <1>2, LoadBeginsKeeps
  <1>3. ASSUME NEW m \in Modules, Operator(m) PROVE IInv'
    BY <1>3, OperatorKeeps DEF Operator
  <1>4. ASSUME NEW m \in Modules, FailedBack(m) \/ \E v \in Versions[m] : LoadedBack(m, v) PROVE IInv'
    BY <1>4, CallsBackKeeps
  <1>5. CASE UNCHANGED vars
    BY <1>5, OperatorKeeps DEF vars
  <1> QED BY <1>1, <1>2, <1>3, <1>4, <1>5 DEF Next

(***************************************************************************)
(* Theorems.                                                               *)
(***************************************************************************)

\* The inductive invariant holds of every behaviour.
THEOREM Invariance == Spec => []IInv
  BY InitHolds, StepKeeps, PTL DEF Spec

\* No message calls back twice, and every validation gives its slot back once
\* (CallbackTaken's `settled`, finish's `answered`).
THEOREM CalledBackOnce == Spec => []RepliedOnce
  <1>1. ASSUME IInv PROVE RepliedOnce
    <2>1. SlotsExact
      BY <1>1 DEF IInv, Validations, SlotsExact, Holding, Slot, At
    <2> QED BY <1>1, <2>1 DEF IInv, Validations, RepliedOnce
  <1> QED BY <1>1, Invariance, PTL

\* One bill for each successful call, for the action that ran (respond), whatever
\* became of the name meanwhile.
THEOREM BilledWhatRan == Spec => []BillsWhatRan
  <1>1. IInv => BillsWhatRan
    BY DEF IInv, Billed
  <1> QED BY <1>1, Invariance, PTL

\* No client is shown, runs, loads or validates what its key is not for
\* (filterTargetsByAuth, userAuth, dispatchAuthoringTool).
THEOREM RightsKept == Spec => []WithinRights
  <1>1. ASSUME IInv PROVE WithinRights
    <2>1. \A l \in loads : Role[l.c] = "admin"
      BY <1>1 DEF IInv, Loading, LoadOk
    <2>2. \A c \in Clients : val[c].st # "none" => Role[c] = "admin"
      BY <1>1 DEF IInv, Validations
    <2>3. ASSUME NEW c \in Clients, NEW i \in DOMAIN results[c]
          PROVE  ResultOk(c, post[c][i].method, results[c][i].ran)
      BY <1>1 DEF IInv, Rightful
    <2> QED BY <2>1, <2>2, <2>3 DEF WithinRights, ResultOk
  <1> QED BY <1>1, Invariance, PTL
-----------------------------------------------------------------------------
(* The names of tools.                                                     *)

\* Of positions there is a first.
LEMMA FirstPosition ==
  ASSUME NEW T, T # {}, \A p \in T : p[1] \in Nat /\ p[2] \in Nat
  PROVE  \E p \in T : \A q \in T : ~Before(q, p)
  <1> DEFINE A == {p[1] : p \in T}
  <1>1. PICK a \in A : \A b \in A : a <= b
    <2>1. A \subseteq Nat /\ A # {}
      OBVIOUS
    <2> HIDE DEF A
    <2> QED BY <2>1, LeastNat
  <1> DEFINE R == {p \in T : p[1] = a}
             B == {p[2] : p \in R}
  <1>2. PICK b \in B : \A c \in B : b <= c
    <2>1. B \subseteq Nat /\ B # {}
      OBVIOUS
    <2> HIDE DEF B
    <2> QED BY <2>1, LeastNat
  <1>3. PICK p \in T : p[1] = a /\ p[2] = b
    BY <1>2
  <1>4. ASSUME NEW q \in T PROVE ~Before(q, p)
    <2>1. q[1] \in Nat /\ q[2] \in Nat /\ a \in Nat /\ b \in Nat /\ a <= q[1]
      BY <1>1, <1>3
    <2>2. q[1] = a => b <= q[2]
      BY <1>2
    <2> QED BY <1>3, <2>1, <2>2 DEF Before
  <1> QED BY <1>3, <1>4

\* The image of a finite set is finite.
LEMMA ImageFinite ==
  ASSUME NEW S, IsFiniteSet(S), NEW f
  PROVE  IsFiniteSet({f[x] : x \in S})
  <1> DEFINE T == {f[x] : x \in S}
             g == [x \in S |-> f[x]]
  <1>1. g \in Surjection(S, T)
    BY DEF Surjection
  <1> HIDE DEF T, g
  <1> QED BY <1>1, FS_Surjection DEF T

\* A sequence is one over its own elements.
LEMMA OwnSeq ==
  ASSUME NEW s, IsSequence(s)
  PROVE  \E S : s \in Seq(S) /\ DOMAIN s = 1 .. Len(s)
  <1>1. Len(s) \in Nat /\ s = [i \in 1 .. Len(s) |-> s[i]]
    BY DEF IsSequence
  <1> DEFINE n == Len(s)
             S == {s[i] : i \in 1 .. n}
  <1>2. s \in [1 .. n -> S] /\ DOMAIN s = 1 .. n /\ n \in Nat
    BY <1>1
  <1>3. s \in Seq(S)
    BY <1>2
  <1> QED BY <1>2, <1>3

\* Different suffixes make different names.
LEMMA SuffixApart ==
  ASSUME NEW s, IsSequence(s), NEW k \in Nat, NEW n \in Nat, Append(s, k) = Append(s, n)
  PROVE  k = n
  <1>1. PICK S : s \in Seq(S) /\ DOMAIN s = 1 .. Len(s)
    BY OwnSeq
  <1> DEFINE R == S \cup Nat
  <1>2. s \in Seq(R) /\ k \in R /\ n \in R
    BY <1>1
  <1> HIDE DEF R
  <1>3. Append(s, k)[Len(s) + 1] = k
    BY <1>2, AppendIndex
  <1>4. Append(s, n)[Len(s) + 1] = n
    BY <1>2, AppendIndex
  <1> QED BY <1>3, <1>4

\* dedupeName: a free suffix is found among as many as there are names and one.
LEMMA Deduped ==
  ASSUME NEW used, IsFiniteSet(used), NEW s, IsSequence(s)
  PROVE  /\ DedupeName(used, s) \notin used
         /\ s \notin used => DedupeName(used, s) = s
  <1> DEFINE c == Cardinality(used)
             N == 2 .. (c + 2)
             F == {n \in N : Append(s, n) \notin used}
  <1>1. c \in Nat
    BY FS_CardinalityType
  <1>2. F # {}
    <2> SUFFICES ASSUME F = {} PROVE FALSE
      OBVIOUS
    <2> DEFINE f == [n \in N |-> Append(s, n)]
    <2>1. f \in [N -> used]
      OBVIOUS
    <2>2. IsFiniteSet(N) /\ Cardinality(N) = c + 1
      BY <1>1, FS_Interval
    <2>3. c < Cardinality(N)
      BY <1>1, <2>2
    <2>4. PICK x \in N, y \in N : x # y /\ f[x] = f[y]
      <3> HIDE DEF f, N
      <3> QED BY <2>1, <2>2, <2>3, FS_PigeonHole
    <2>5. x \in Nat /\ y \in Nat /\ Append(s, x) = Append(s, y)
      BY <1>1, <2>4
    <2> QED BY <2>4, <2>5, SuffixApart
  <1>3. PICK m \in F : \A n \in F : m <= n
    <2>1. F \subseteq Nat
      BY <1>1
    <2> HIDE DEF F
    <2> QED BY <1>2, <2>1, LeastNat
  <1>4. /\ m \in N /\ Append(s, m) \notin used
        /\ \A k \in 2 .. (m - 1) : Append(s, k) \in used
    <2>1. m \in N /\ Append(s, m) \notin used /\ m \in Nat
      BY <1>1, <1>3
    <2>2. ASSUME NEW k \in 2 .. (m - 1) PROVE Append(s, k) \in used
      <3>1. k \in N /\ ~(m <= k)
        BY <1>1, <2>1
      <3> QED BY <1>3, <3>1
    <2> QED BY <2>1, <2>2
  <1> DEFINE w == CHOOSE n \in N : /\ Append(s, n) \notin used
                                   /\ \A k \in 2 .. (n - 1) : Append(s, k) \in used
  <1>5. Append(s, w) \notin used
    <2> HIDE DEF N
    <2> QED BY <1>4
  <1>6. DedupeName(used, s) = IF s \notin used THEN s ELSE Append(s, w)
    BY DEF DedupeName
  <1> HIDE DEF w
  <1> QED BY <1>5, <1>6

\* The actions before one, and its slug.
Earlier(s, p) == {r \in Described(s) : Before(r, p)}
SlugOf(s, p) == s[p[1]].spec[p[2]].slug

\* f names the actions in D as buildToolTargets does.
NamedIn(f, s, D) ==
  f = [p \in D |-> DedupeName(Reserved \cup {f[q] : q \in Earlier(s, p)}, SlugOf(s, p))]

\* The devices are a sequence, and each has a build.
SpecsOk(s) == Len(s) \in Nat /\ DOMAIN s = 1 .. Len(s) /\ \A i \in DOMAIN s : IsBuild(s[i].spec)

\* A described action: where it is, and that it has a slug.
LEMMA DescribedFacts ==
  ASSUME NEW s, SpecsOk(s)
  PROVE  /\ \A p \in Described(s) :
              /\ p = <<p[1], p[2]>> /\ p[1] \in DOMAIN s /\ p[1] \in Nat
              /\ p[2] \in DOMAIN s[p[1]].spec /\ p[2] \in Nat
              /\ Readable(s[p[1]].spec[p[2]]) /\ IsSequence(SlugOf(s, p))
         /\ \A i \in DOMAIN s : \A k \in DOMAIN s[i].spec :
              Readable(s[i].spec[k]) => <<i, k>> \in Described(s)
  <1>1. ASSUME NEW p \in Described(s)
        PROVE  /\ p = <<p[1], p[2]>> /\ p[1] \in DOMAIN s /\ p[1] \in Nat
               /\ p[2] \in DOMAIN s[p[1]].spec /\ p[2] \in Nat
               /\ Readable(s[p[1]].spec[p[2]]) /\ IsSequence(SlugOf(s, p))
    <2>1. PICK i \in DOMAIN s : p \in {<<i, k>> : k \in {j \in DOMAIN s[i].spec : Readable(s[i].spec[j])}}
      BY <1>1 DEF Described
    <2>2. PICK k \in DOMAIN s[i].spec : Readable(s[i].spec[k]) /\ p = <<i, k>>
      BY <2>1
    <2>3. IsBuild(s[i].spec) /\ i \in Nat
      BY DEF SpecsOk
    <2>4. k \in Nat /\ IsSequence(s[i].spec[k].slug)
      <3>1. IsSequence(s[i].spec) /\ IsSequence(s[i].spec[k].slug)
        BY <2>3 DEF IsBuild
      <3>2. DOMAIN s[i].spec = 1 .. Len(s[i].spec) /\ Len(s[i].spec) \in Nat
        BY <3>1 DEF IsSequence
      <3> QED BY <3>1, <3>2
    <2>5. p[1] = i /\ p[2] = k
      BY <2>2
    <2> QED BY <2>2, <2>3, <2>4, <2>5 DEF SlugOf
  <1>2. ASSUME NEW i \in DOMAIN s, NEW k \in DOMAIN s[i].spec, Readable(s[i].spec[k])
        PROVE  <<i, k>> \in Described(s)
    BY <1>2 DEF Described
  <1> QED BY <1>1, <1>2

\* They are finitely many.
LEMMA DescribedFinite ==
  ASSUME NEW s, SpecsOk(s)
  PROVE  IsFiniteSet(Described(s))
  <1> DEFINE K(i) == {j \in DOMAIN s[i].spec : Readable(s[i].spec[j])}
             f == [i \in DOMAIN s |-> {<<i, k>> : k \in K(i)}]
             SS == {f[i] : i \in DOMAIN s}
  <1>1. ASSUME NEW i \in DOMAIN s PROVE IsFiniteSet(f[i])
    <2>1. Len(s[i].spec) \in Nat /\ DOMAIN s[i].spec = 1 .. Len(s[i].spec)
      BY DEF SpecsOk, IsBuild, IsSequence
    <2>2. IsFiniteSet(1 .. Len(s[i].spec))
      BY <2>1, FS_Interval
    <2>3. IsFiniteSet(K(i))
      BY <2>1, <2>2, FS_Subset
    <2> DEFINE KK == K(i)
               g == [k \in KK |-> <<i, k>>]
    <2>4. IsFiniteSet({g[k] : k \in KK})
      <3> HIDE DEF g, KK
      <3>1. IsFiniteSet(KK)
        BY <2>3 DEF KK
      <3> QED BY <3>1, ImageFinite
    <2>5. f[i] = {g[k] : k \in KK}
      OBVIOUS
    <2> QED BY <2>4, <2>5
  <1>2. IsFiniteSet(SS)
    <2>1. IsFiniteSet(DOMAIN s)
      BY FS_Interval DEF SpecsOk
    <2> HIDE DEF f
    <2> QED BY <2>1, ImageFinite
  <1>3. Described(s) = UNION SS
    BY DEF Described
  <1>4. \A T \in SS : IsFiniteSet(T)
    <2> HIDE DEF f
    <2> QED BY <1>1
  <1> HIDE DEF SS
  <1> QED BY <1>2, <1>3, <1>4, FS_UNION

\* What two sequences of devices have in C is the same, and first in both.
AlikeIn(C, s, t) ==
  \A p \in C : /\ p[1] \in Nat /\ p[2] \in Nat /\ SlugOf(s, p) = SlugOf(t, p)
               /\ Earlier(s, p) = Earlier(t, p) /\ Earlier(s, p) \subseteq C

\* Names agree as far as what is named does.
LEMMA NamesAgree ==
  ASSUME NEW s, NEW t, NEW f, NEW g, NEW D, NEW E, NEW C,
         NamedIn(f, s, D), NamedIn(g, t, E), C \subseteq D, C \subseteq E, AlikeIn(C, s, t)
  PROVE  \A p \in C : f[p] = g[p]
  <1> USE DEF AlikeIn
  <1> DEFINE T == {p \in C : f[p] # g[p]}
  <1> SUFFICES ASSUME T # {} PROVE FALSE
    OBVIOUS
  <1>1. PICK p \in T : \A q \in T : ~Before(q, p)
    <2>1. \A p \in T : p[1] \in Nat /\ p[2] \in Nat
      OBVIOUS
    <2> HIDE DEF T
    <2> QED BY <2>1, FirstPosition
  <1>2. p \in C /\ p \in D /\ p \in E /\ f[p] # g[p]
    OBVIOUS
  <1>3. \A q \in Earlier(s, p) : f[q] = g[q]
    <2>1. ASSUME NEW q \in Earlier(s, p) PROVE f[q] = g[q]
      <3>1. q \in C /\ Before(q, p)
        BY <1>2 DEF Earlier
      <3> QED BY <1>1, <3>1
    <2> QED BY <2>1
  <1>4. {f[q] : q \in Earlier(s, p)} = {g[q] : q \in Earlier(t, p)}
    BY <1>2, <1>3
  <1>5. f[p] = DedupeName(Reserved \cup {f[q] : q \in Earlier(s, p)}, SlugOf(s, p))
    BY <1>2 DEF NamedIn
  <1>6. g[p] = DedupeName(Reserved \cup {g[q] : q \in Earlier(t, p)}, SlugOf(t, p))
    BY <1>2 DEF NamedIn
  <1> QED BY <1>2, <1>4, <1>5, <1>6

\* The order of the loops is one.
LEMMA EarlierFacts ==
  ASSUME NEW s, SpecsOk(s), NEW p \in Described(s)
  PROVE  /\ Earlier(s, p) \subseteq Described(s) /\ p \notin Earlier(s, p)
         /\ \A q \in Earlier(s, p) : Earlier(s, q) \subseteq Earlier(s, p)
         /\ \A q \in Described(s) : q # p => q \in Earlier(s, p) \/ p \in Earlier(s, q)
  <1>1. \A q \in Described(s) : q = <<q[1], q[2]>> /\ q[1] \in Nat /\ q[2] \in Nat
    BY DescribedFacts
  <1>2. p \notin Earlier(s, p)
    BY <1>1 DEF Earlier, Before
  <1>3. ASSUME NEW q \in Earlier(s, p), NEW r \in Earlier(s, q) PROVE r \in Earlier(s, p)
    BY <1>1, <1>3 DEF Earlier, Before
  <1>4. ASSUME NEW q \in Described(s), q # p PROVE q \in Earlier(s, p) \/ p \in Earlier(s, q)
    <2>1. q[1] # p[1] \/ q[2] # p[2]
      BY <1>1, <1>4
    <2>2. q[1] \in Nat /\ q[2] \in Nat /\ p[1] \in Nat /\ p[2] \in Nat
      BY <1>1
    <2>3. Before(q, p) \/ Before(p, q)
      BY <2>1, <2>2 DEF Before
    <2> QED BY <2>3 DEF Earlier
  <1> QED BY <1>2, <1>3, <1>4 DEF Earlier

\* The names up to an action.
UpToHere(s, p) == Earlier(s, p) \cup {p}
NamesTo(s, p) == CHOOSE h : NamedIn(h, s, UpToHere(s, p))

\* The names up to an action continue those up to an earlier one.
LEMMA NamesJoin ==
  ASSUME NEW s, SpecsOk(s), NEW p \in Described(s),
         \A q \in UpToHere(s, p) : NamedIn(NamesTo(s, q), s, UpToHere(s, q))
  PROVE  NamesTo(s, p)[p] =
           DedupeName(Reserved \cup {NamesTo(s, q)[q] : q \in Earlier(s, p)}, SlugOf(s, p))
  <1> DEFINE f == NamesTo(s, p)
  <1>1. NamedIn(f, s, UpToHere(s, p)) /\ p \in UpToHere(s, p)
    BY DEF UpToHere
  <1>2. f[p] = DedupeName(Reserved \cup {f[q] : q \in Earlier(s, p)}, SlugOf(s, p))
    <2> HIDE DEF f
    <2> QED BY <1>1 DEF NamedIn
  <1>3. ASSUME NEW q \in Earlier(s, p) PROVE f[q] = NamesTo(s, q)[q]
    <2> DEFINE g == NamesTo(s, q)
               C == UpToHere(s, q)
    <2>1. q \in Described(s) /\ Earlier(s, q) \subseteq Earlier(s, p) /\ q \in UpToHere(s, p)
      BY <1>3, EarlierFacts DEF UpToHere
    <2>2. NamedIn(g, s, C) /\ C \subseteq UpToHere(s, p) /\ q \in C /\ C \subseteq Described(s)
      BY <2>1, EarlierFacts DEF UpToHere
    <2>3. ASSUME NEW r \in C
          PROVE  r[1] \in Nat /\ r[2] \in Nat /\ Earlier(s, r) \subseteq C
      <3>1. r \in Described(s)
        BY <2>2
      <3>2. r = q \/ r \in Earlier(s, q)
        BY DEF UpToHere
      <3>3. Earlier(s, r) \subseteq Earlier(s, q)
        BY <2>1, <3>2, EarlierFacts
      <3> QED BY <3>1, <3>3, DescribedFacts DEF UpToHere
    <2> HIDE DEF f, g, C
    <2>4. AlikeIn(C, s, s)
      BY <2>3 DEF AlikeIn
    <2>5. \A r \in C : f[r] = g[r]
      BY <1>1, <2>2, <2>4, NamesAgree
    <2> QED BY <2>2, <2>5 DEF g
  <1>4. {f[q] : q \in Earlier(s, p)} = {NamesTo(s, q)[q] : q \in Earlier(s, p)}
    BY <1>3
  <1> QED BY <1>2, <1>4

\* There are names up to every action.
LEMMA NamesToExist ==
  ASSUME NEW s, SpecsOk(s)
  PROVE  \A p \in Described(s) : NamedIn(NamesTo(s, p), s, UpToHere(s, p))
  <1> DEFINE T == {p \in Described(s) : ~NamedIn(NamesTo(s, p), s, UpToHere(s, p))}
  <1> SUFFICES ASSUME T # {} PROVE FALSE
    OBVIOUS
  <1>1. PICK p \in T : \A q \in T : ~Before(q, p)
    <2>1. \A q \in T : q[1] \in Nat /\ q[2] \in Nat
      BY DescribedFacts
    <2> HIDE DEF T
    <2> QED BY <2>1, FirstPosition
  <1>2. p \in Described(s) /\ ~NamedIn(NamesTo(s, p), s, UpToHere(s, p))
    OBVIOUS
  <1>3. ASSUME NEW q \in Earlier(s, p) PROVE NamedIn(NamesTo(s, q), s, UpToHere(s, q))
    BY <1>1, <1>3 DEF Earlier
  <1> HIDE DEF T
  <1> DEFINE last == DedupeName(Reserved \cup {NamesTo(s, q)[q] : q \in Earlier(s, p)}, SlugOf(s, p))
             g == [r \in UpToHere(s, p) |-> IF r = p THEN last ELSE NamesTo(s, r)[r]]
  <1>4. ASSUME NEW r \in UpToHere(s, p)
        PROVE  g[r] = DedupeName(Reserved \cup {g[q] : q \in Earlier(s, r)}, SlugOf(s, r))
    <2>1. r \in Described(s) /\ Earlier(s, r) \subseteq Earlier(s, p) /\ p \notin Earlier(s, r)
      BY <1>2, EarlierFacts DEF UpToHere
    <2>2. {g[q] : q \in Earlier(s, r)} = {NamesTo(s, q)[q] : q \in Earlier(s, r)}
      BY <2>1 DEF UpToHere
    <2>3. CASE r = p
      BY <2>2, <2>3
    <2>4. CASE r # p
      <3>1. r \in Earlier(s, p) /\ UpToHere(s, r) \subseteq Earlier(s, p)
        BY <2>1, <2>4 DEF UpToHere
      <3>2. \A q \in UpToHere(s, r) : NamedIn(NamesTo(s, q), s, UpToHere(s, q))
        BY <1>3, <3>1
      <3>3. NamesTo(s, r)[r] =
              DedupeName(Reserved \cup {NamesTo(s, q)[q] : q \in Earlier(s, r)}, SlugOf(s, r))
        BY <2>1, <3>2, NamesJoin
      <3>4. g[r] = NamesTo(s, r)[r]
        BY <2>4
      <3> HIDE DEF g
      <3> QED BY <2>2, <3>3, <3>4
    <2> QED BY <2>3, <2>4
  <1>5. NamedIn(g, s, UpToHere(s, p))
    <2>1. g = [r \in UpToHere(s, p) |-> g[r]]
      OBVIOUS
    <2> HIDE DEF g
    <2> QED BY <1>4, <2>1 DEF NamedIn
  <1> HIDE DEF g
  <1> QED BY <1>2, <1>5 DEF NamesTo

\* What buildToolTargets names is named as NamedIn says.
LEMMA ToolNamesNamed ==
  ASSUME NEW s, SpecsOk(s)
  PROVE  NamedIn(ToolNames(s), s, Described(s))
  <1> DEFINE f == [p \in Described(s) |-> NamesTo(s, p)[p]]
  <1>1. ASSUME NEW p \in Described(s)
        PROVE  f[p] = DedupeName(Reserved \cup {f[q] : q \in Earlier(s, p)}, SlugOf(s, p))
    <2>1. Earlier(s, p) \subseteq Described(s) /\ UpToHere(s, p) \subseteq Described(s)
      BY EarlierFacts DEF UpToHere
    <2>2. NamesTo(s, p)[p] =
            DedupeName(Reserved \cup {NamesTo(s, q)[q] : q \in Earlier(s, p)}, SlugOf(s, p))
      BY <2>1, NamesToExist, NamesJoin
    <2>3. {f[q] : q \in Earlier(s, p)} = {NamesTo(s, q)[q] : q \in Earlier(s, p)}
      BY <2>1
    <2>4. f[p] = NamesTo(s, p)[p]
      OBVIOUS
    <2> HIDE DEF f
    <2> QED BY <2>2, <2>3, <2>4
  <1>2. NamedIn(f, s, Described(s))
    <2>1. f = [p \in Described(s) |-> f[p]]
      OBVIOUS
    <2> HIDE DEF f
    <2> QED BY <1>1, <2>1 DEF NamedIn
  <1>3. ToolNames(s) = CHOOSE g : NamedIn(g, s, Described(s))
    BY DEF ToolNames, NamedIn, Earlier, SlugOf
  <1> HIDE DEF f
  <1> QED BY <1>2, <1>3

\* No two actions get one name, and none a built-in one; a slug that is free is kept.
LEMMA ToolNamesFacts ==
  ASSUME NEW s, SpecsOk(s)
  PROVE  LET name == ToolNames(s) IN
         /\ \A p, q \in Described(s) : p # q => name[p] # name[q]
         /\ \A p \in Described(s) : name[p] \notin Reserved
         /\ \A p \in Described(s) :
              SlugOf(s, p) \notin Reserved \cup {name[q] : q \in Earlier(s, p)} => name[p] = SlugOf(s, p)
  <1> DEFINE name == ToolNames(s)
             used(p) == Reserved \cup {name[q] : q \in Earlier(s, p)}
  <1>1. NamedIn(name, s, Described(s))
    BY ToolNamesNamed
  <1> HIDE DEF name
  <1>2. ASSUME NEW p \in Described(s)
        PROVE  /\ name[p] \notin used(p)
               /\ SlugOf(s, p) \notin used(p) => name[p] = SlugOf(s, p)
    <2>1. name[p] = DedupeName(used(p), SlugOf(s, p))
      BY <1>1 DEF NamedIn
    <2>2. IsFiniteSet(Earlier(s, p))
      BY DescribedFinite, EarlierFacts, FS_Subset
    <2>3. IsFiniteSet(used(p))
      <3>1. IsFiniteSet({name[q] : q \in Earlier(s, p)})
        BY <2>2, ImageFinite
      <3> QED BY <3>1, CatalogAssumption, FS_Union
    <2>4. IsSequence(SlugOf(s, p))
      BY DescribedFacts
    <2> HIDE DEF used
    <2> QED BY <2>1, <2>3, <2>4, Deduped
  <1>3. ASSUME NEW p \in Described(s), NEW q \in Described(s), p # q PROVE name[p] # name[q]
    <2>1. q \in Earlier(s, p) \/ p \in Earlier(s, q)
      BY <1>3, EarlierFacts
    <2> QED BY <1>2, <2>1
  <1> QED BY <1>2, <1>3 DEF name

\* The devices with a plan's among them: what stands before it is as without it.
WithPlan(s, x, t) == s \o <<x>> \o t

\* Where the devices of two joined sequences are, and of three.
LEMMA JoinedSpecs ==
  ASSUME NEW S, NEW s \in Seq(S), NEW t \in Seq(S), NEW x \in S
  PROVE  /\ Len(s) \in Nat /\ Len(t) \in Nat
         /\ DOMAIN (s \o t) = 1 .. Len(s) + Len(t) /\ Len(s \o t) = Len(s) + Len(t)
         /\ \A i \in DOMAIN (s \o t) :
              (s \o t)[i] = IF i <= Len(s) THEN s[i] ELSE t[i - Len(s)]
         /\ DOMAIN WithPlan(s, x, t) = 1 .. Len(s) + Len(t) + 1
         /\ Len(WithPlan(s, x, t)) = Len(s) + Len(t) + 1
         /\ \A i \in DOMAIN WithPlan(s, x, t) :
              WithPlan(s, x, t)[i] = IF i <= Len(s) THEN s[i]
                                     ELSE IF i = Len(s) + 1 THEN x ELSE t[i - Len(s) - 1]
  <1> DEFINE u == s \o <<x>>
             w == u \o t
  <1>1. /\ Len(s) \in Nat /\ Len(t) \in Nat
        /\ <<x>> \in Seq(S) /\ Len(<<x>>) = 1 /\ <<x>>[1] = x
    BY LenProperties
  <1>2. /\ s \o t \in Seq(S) /\ Len(s \o t) = Len(s) + Len(t) /\ DOMAIN (s \o t) = 1 .. Len(s) + Len(t)
        /\ \A i \in 1 .. Len(s) + Len(t) : (s \o t)[i] = IF i <= Len(s) THEN s[i] ELSE t[i - Len(s)]
    BY ConcatProperties, LenProperties
  <1>3. /\ u \in Seq(S) /\ Len(u) = Len(s) + 1
        /\ \A i \in 1 .. Len(s) + 1 : u[i] = IF i <= Len(s) THEN s[i] ELSE <<x>>[i - Len(s)]
    BY <1>1, ConcatProperties
  <1>4. \A i \in 1 .. Len(s) + 1 : u[i] = IF i <= Len(s) THEN s[i] ELSE x
    <2> SUFFICES ASSUME NEW i \in 1 .. Len(s) + 1, ~(i <= Len(s)) PROVE u[i] = x
      BY <1>3
    <2>1. i - Len(s) = 1
      BY <1>1
    <2> QED BY <1>1, <1>3, <2>1
  <1> HIDE DEF u
  <1>5. /\ w \in Seq(S) /\ Len(w) = Len(u) + Len(t) /\ DOMAIN w = 1 .. Len(w)
        /\ \A i \in 1 .. Len(u) + Len(t) : w[i] = IF i <= Len(u) THEN u[i] ELSE t[i - Len(u)]
    <2>1. u \in Seq(S)
      BY <1>3
    <2>2. /\ w \in Seq(S) /\ Len(w) = Len(u) + Len(t)
          /\ \A i \in 1 .. Len(u) + Len(t) : w[i] = IF i <= Len(u) THEN u[i] ELSE t[i - Len(u)]
      BY <2>1, ConcatProperties
    <2> HIDE DEF w
    <2>3. DOMAIN w = 1 .. Len(w)
      BY <2>2, LenProperties
    <2> QED BY <2>2, <2>3
  <1>6. WithPlan(s, x, t) = w
    BY DEF WithPlan, u
  <1> HIDE DEF w
  <1>7. Len(w) = Len(s) + Len(t) + 1 /\ DOMAIN w = 1 .. Len(s) + Len(t) + 1
    BY <1>1, <1>3, <1>5
  <1>8. ASSUME NEW i \in 1 .. Len(s) + Len(t) + 1
        PROVE  w[i] = IF i <= Len(s) THEN s[i] ELSE IF i = Len(s) + 1 THEN x ELSE t[i - Len(s) - 1]
    <2>1. i \in 1 .. Len(u) + Len(t) /\ i \in Nat /\ i >= 1
      BY <1>1, <1>3
    <2>2. CASE i <= Len(s) + 1
      <3>1. i <= Len(u) /\ i \in 1 .. Len(s) + 1
        BY <1>1, <1>3, <2>1, <2>2
      <3>2. w[i] = u[i]
        BY <1>5, <2>1, <3>1
      <3>3. (i <= Len(s)) \/ (i = Len(s) + 1 /\ ~(i <= Len(s)))
        BY <1>1, <2>1, <2>2
      <3> QED BY <1>4, <3>1, <3>2, <3>3
    <2>3. CASE ~(i <= Len(s) + 1)
      <3>1. ~(i <= Len(u)) /\ ~(i <= Len(s)) /\ i # Len(s) + 1 /\ i - Len(u) = i - Len(s) - 1
        BY <1>1, <1>3, <2>1, <2>3
      <3> QED BY <1>5, <2>1, <3>1
    <2> QED BY <2>2, <2>3
  <1> QED BY <1>1, <1>2, <1>6, <1>7, <1>8

\* A plan whose slugs are free, and differ, gets them as the names of its
\* described actions.
LEMMA PlanGetsSlugs ==
  ASSUME NEW S, NEW s \in Seq(S), NEW t \in Seq(S), NEW x \in S,
         SpecsOk(s \o t), IsBuild(x.spec),
         \A k \in DOMAIN x.spec : /\ x.spec[k].slug \notin Reserved
                                  /\ \A p \in Described(s \o t) : ToolNames(s \o t)[p] # x.spec[k].slug,
         \A j, k \in DOMAIN x.spec : x.spec[j].slug = x.spec[k].slug => j = k
  PROVE  LET w == WithPlan(s, x, t) IN
         /\ SpecsOk(w)
         /\ \A k \in DOMAIN x.spec :
              Readable(x.spec[k]) => /\ <<Len(s) + 1, k>> \in Described(w)
                                     /\ ToolNames(w)[<<Len(s) + 1, k>>] = x.spec[k].slug
  <1> DEFINE n == Len(s)
             v == s \o t
             w == WithPlan(s, x, t)
             old == ToolNames(v)
             name == ToolNames(w)
  <1>1. /\ n \in Nat /\ Len(t) \in Nat
        /\ Len(v) = n + Len(t) /\ DOMAIN v = 1 .. n + Len(t)
        /\ \A i \in DOMAIN v : v[i] = IF i <= n THEN s[i] ELSE t[i - n]
        /\ Len(w) = n + Len(t) + 1 /\ DOMAIN w = 1 .. n + Len(t) + 1
        /\ \A i \in DOMAIN w : w[i] = IF i <= n THEN s[i] ELSE IF i = n + 1 THEN x ELSE t[i - n - 1]
    BY JoinedSpecs
  <1>0. SpecsOk(v) /\ NamedIn(old, v, Described(v))
    BY ToolNamesNamed
  <1>k. /\ \A k \in DOMAIN x.spec : x.spec[k].slug \notin Reserved
        /\ \A k \in DOMAIN x.spec : \A p \in Described(v) : old[p] # x.spec[k].slug
    OBVIOUS
  <1> HIDE DEF n, v, w, old, name
  <1>2. \A i \in 1 .. n : i \in DOMAIN v /\ i \in DOMAIN w /\ w[i] = v[i]
    BY <1>1
  <1>3. n + 1 \in DOMAIN w /\ w[n + 1] = x
    BY <1>1
  <1>4. SpecsOk(w)
    <2>1. ASSUME NEW i \in DOMAIN w PROVE IsBuild(w[i].spec)
      <3>1. CASE i <= n
        <4>1. i \in 1 .. n
          BY <1>1, <3>1
        <4> QED BY <1>0, <1>2, <4>1 DEF SpecsOk
      <3>2. CASE i = n + 1
        BY <1>3, <3>2
      <3>3. CASE ~(i <= n) /\ i # n + 1
        <4>1. i - 1 \in DOMAIN v /\ ~(i - 1 <= n) /\ (i - 1) - n = i - n - 1
          BY <1>1, <3>3
        <4>2. v[i - 1] = w[i]
          BY <1>1, <3>3, <4>1
        <4> QED BY <1>0, <4>1, <4>2 DEF SpecsOk
      <3> QED BY <3>1, <3>2, <3>3
    <2> QED BY <1>1, <2>1 DEF SpecsOk
  <1>5. NamedIn(name, w, Described(w))
    BY <1>4, ToolNamesNamed DEF name
  <1> DEFINE C == {p \in Described(v) : p[1] <= n}
  <1>6. C = {p \in Described(w) : p[1] <= n}
    <2>1. ASSUME NEW p \in Described(v), p[1] <= n PROVE p \in Described(w)
      <3>1. /\ p = <<p[1], p[2]>> /\ p[1] \in DOMAIN v /\ p[1] \in Nat
            /\ p[2] \in DOMAIN v[p[1]].spec /\ Readable(v[p[1]].spec[p[2]])
        BY <1>0, DescribedFacts
      <3>2. p[1] \in 1 .. n
        BY <1>1, <2>1, <3>1
      <3>3. p[1] \in DOMAIN w /\ w[p[1]] = v[p[1]]
        BY <1>2, <3>2
      <3> QED BY <1>4, <3>1, <3>3, DescribedFacts
    <2>2. ASSUME NEW p \in Described(w), p[1] <= n PROVE p \in Described(v)
      <3>1. /\ p = <<p[1], p[2]>> /\ p[1] \in DOMAIN w /\ p[1] \in Nat
            /\ p[2] \in DOMAIN w[p[1]].spec /\ Readable(w[p[1]].spec[p[2]])
        BY <1>4, DescribedFacts
      <3>2. p[1] \in 1 .. n
        BY <1>1, <2>2, <3>1
      <3>3. p[1] \in DOMAIN v /\ w[p[1]] = v[p[1]]
        BY <1>2, <3>2
      <3> QED BY <1>0, <3>1, <3>3, DescribedFacts
    <2> QED BY <2>1, <2>2
  <1>7. ASSUME NEW p \in C
        PROVE  /\ p[1] \in Nat /\ p[2] \in Nat /\ SlugOf(v, p) = SlugOf(w, p)
               /\ Earlier(v, p) = Earlier(w, p) /\ Earlier(v, p) \subseteq C
    <2>1. p \in Described(v) /\ p[1] <= n
      BY <1>7
    <2>2. p[1] \in DOMAIN v /\ p[1] \in Nat /\ p[2] \in Nat
      BY <1>0, <2>1, DescribedFacts
    <2>3. p[1] \in 1 .. n
      BY <1>1, <2>1, <2>2
    <2>4. SlugOf(v, p) = SlugOf(w, p)
      BY <1>2, <2>3 DEF SlugOf
    <2>5. ASSUME NEW q \in Described(v) \cup Described(w), Before(q, p) PROVE q[1] <= n
      <3>1. q[1] \in Nat
        BY <1>0, <1>4, DescribedFacts
      <3> QED BY <1>1, <2>1, <2>2, <2>5, <3>1 DEF Before
    <2>6. Earlier(v, p) \subseteq C /\ Earlier(w, p) \subseteq C
      BY <1>6, <2>5 DEF Earlier
    <2>7. Earlier(v, p) = {q \in C : Before(q, p)}
      BY <2>6 DEF Earlier
    <2>8. Earlier(w, p) = {q \in C : Before(q, p)}
      BY <1>6, <2>6 DEF Earlier
    <2> QED BY <2>2, <2>4, <2>6, <2>7, <2>8
  <1>8. \A p \in C : old[p] = name[p]
    <2>1. C \subseteq Described(v) /\ C \subseteq Described(w)
      BY <1>6
    <2> HIDE DEF C
    <2>2. AlikeIn(C, v, w)
      BY <1>7 DEF AlikeIn
    <2>3. NamedIn(old, v, Described(v))
      BY <1>0
    <2> QED BY ONLY <1>5, <2>1, <2>2, <2>3, NamesAgree
  <1>9. ASSUME NEW k \in DOMAIN x.spec, Readable(x.spec[k])
        PROVE  <<n + 1, k>> \in Described(w) /\ SlugOf(w, <<n + 1, k>>) = x.spec[k].slug
    BY <1>3, <1>4, <1>9, DescribedFacts DEF SlugOf
  <1> DEFINE B == {k \in DOMAIN x.spec : Readable(x.spec[k]) /\ name[<<n + 1, k>>] # x.spec[k].slug}
  <1>10. B = {}
    <2> SUFFICES ASSUME B # {} PROVE FALSE
      OBVIOUS
    <2>1. PICK k \in B : \A j \in B : k <= j
      <3>1. DOMAIN x.spec = 1 .. Len(x.spec) /\ Len(x.spec) \in Nat
        BY DEF IsBuild, IsSequence
      <3>2. B \subseteq Nat
        BY <3>1
      <3> HIDE DEF B
      <3> QED BY <3>2, LeastNat
    <2>2. k \in DOMAIN x.spec /\ Readable(x.spec[k]) /\ name[<<n + 1, k>>] # x.spec[k].slug
      OBVIOUS
    <2> DEFINE p == <<n + 1, k>>
               slug == x.spec[k].slug
    <2>3. p \in Described(w) /\ SlugOf(w, p) = slug /\ p[1] = n + 1 /\ p[2] = k /\ k \in Nat
      <3>1. p \in Described(w) /\ SlugOf(w, p) = slug /\ p[1] = n + 1 /\ p[2] = k
        BY <1>9, <2>2
      <3> QED BY <1>4, <3>1, DescribedFacts
    <2>4. ASSUME NEW q \in Earlier(w, p) PROVE name[q] # slug
      <3>1. q \in Described(w) /\ Before(q, p)
        BY <2>4 DEF Earlier
      <3>2. q = <<q[1], q[2]>> /\ q[1] \in Nat /\ q[2] \in Nat /\ q[2] \in DOMAIN w[q[1]].spec
        BY <1>4, <3>1, DescribedFacts
      <3>3. q[1] <= n \/ (q[1] = n + 1 /\ q[2] < k)
        BY <1>1, <2>3, <3>1, <3>2 DEF Before
      <3>4. CASE q[1] <= n
        <4>1. q \in C
          BY <1>6, <3>1, <3>4
        <4>2. q \in Described(v) /\ name[q] = old[q]
          BY <1>8, <4>1
        <4> QED BY <1>k, <2>2, <4>2
      <3>5. CASE q[1] = n + 1 /\ q[2] < k
        <4>0. Readable(w[q[1]].spec[q[2]])
          BY <1>4, <3>1, DescribedFacts
        <4>1. q[2] \in DOMAIN x.spec /\ Readable(x.spec[q[2]]) /\ ~(k <= q[2])
          BY <1>3, <2>3, <3>2, <3>5, <4>0
        <4>2. q[2] \notin B
          BY <2>1, <4>1
        <4>3. name[q] = x.spec[q[2]].slug
          BY <3>2, <3>5, <4>1, <4>2
        <4>4. q[2] # k
          BY <2>3, <3>2, <3>5
        <4> QED BY <2>2, <4>1, <4>3, <4>4
      <3> QED BY <3>3, <3>4, <3>5
    <2>5. slug \notin Reserved \cup {name[q] : q \in Earlier(w, p)}
      BY <1>k, <2>2, <2>4
    <2> HIDE DEF p, slug
    <2>6. name[p] = slug
      BY <1>4, <2>3, <2>5, ToolNamesFacts DEF name
    <2> QED BY <2>2, <2>6 DEF p, slug
  <1> QED BY <1>4, <1>9, <1>10 DEF n, w, name

-----------------------------------------------------------------------------
(* The catalog.                                                            *)

\* The builds there are, how far a load is, and what the supervisor records.
Builds == UNION {Versions[m] : m \in Modules}
Loadings == {"no", "spawning", "replacing", "removing", "restarting"}
States == {"none", "running", "restarting", "suspended"}
Records == [state : States, specs : Builds \cup {None}]

\* The catalog's types, and deviceMap has a device once.
Catalogued ==
  /\ order \in Seq(Modules) /\ Once(order) /\ recOrder \in Seq(Modules)
  /\ gen \in 0 .. MaxGen /\ worker \in [Modules -> 0 .. gen]
  /\ build \in [Gens -> Builds \cup {None}] /\ list \in [Gens -> Builds \cup {None}]
  /\ record \in [Modules -> Records]
  /\ loading \in [Modules -> Loadings]

\* A worker is one module's and has a build; a device in deviceMap has a worker
\* that announced it; while a module starts or waits to, it has none.
Manned ==
  \A m \in Modules :
    /\ worker[m] # 0 => build[worker[m]] \in Builds /\ \A n \in Modules : n # m => worker[n] # worker[m]
    /\ m \in Elems(order) => worker[m] # 0 /\ list[worker[m]] \in Builds
    /\ loading[m] \in {"spawning", "restarting"} \/ record[m].state \in {"restarting", "suspended"} => worker[m] = 0

CatalogInv == Catalogued /\ Manned

\* A device of the catalog, or a plan's.
Devices == [dev : Modules \cup {None}, spec : {v \in Builds \cup {<<>>} \cup {p.acts : p \in Plans} : IsBuild(v)}]

\* What is on offer, device by device.
LEMMA CatalogSpecs ==
  ASSUME CatalogInv
  PROVE  /\ Serving \in Seq(Devices) /\ Away \in Seq(Devices)
         /\ \A i \in DOMAIN Serving : Serving[i].dev \in Modules
         /\ \A i \in DOMAIN Away : Away[i].dev \in Modules
         /\ SpecsOk(AllDevices)
  <1>1. /\ order \in Seq(Modules) /\ DOMAIN order = 1 .. Len(order) /\ Len(order) \in Nat
        /\ recOrder \in Seq(Modules) /\ DOMAIN recOrder = 1 .. Len(recOrder) /\ Len(recOrder) \in Nat
    BY LenProperties DEF CatalogInv, Catalogued
  <1>2. IsBuild(<<>>) /\ \A v \in Builds : IsBuild(v)
    <2>1. IsBuild(<<>>)
      <3>1. Len(<<>>) = 0 /\ <<>> = [i \in 1 .. 0 |-> <<>>[i]] /\ DOMAIN <<>> = {}
        OBVIOUS
      <3> QED BY <3>1 DEF IsBuild, IsSequence
    <2> QED BY <2>1, CatalogAssumption DEF Builds
  <1>3. ASSUME NEW i \in DOMAIN order PROVE Serving[i] \in Devices /\ Serving[i].dev \in Modules
    <2>1. order[i] \in Modules /\ order[i] \in Elems(order)
      BY <1>1, <1>3 DEF Elems
    <2>2. list[worker[order[i]]] \in Builds
      BY <2>1 DEF CatalogInv, Manned
    <2>3. Serving[i] = [dev |-> order[i], spec |-> list[worker[order[i]]]]
      BY <1>3 DEF Serving
    <2> QED BY <1>2, <2>1, <2>2, <2>3 DEF Devices
  <1>4. ASSUME NEW i \in DOMAIN recOrder PROVE Away[i] \in Devices /\ Away[i].dev \in Modules
    <2>1. recOrder[i] \in Modules
      BY <1>1, <1>4
    <2>2. Retained(recOrder[i]) \in Builds \cup {<<>>}
      BY <2>1 DEF CatalogInv, Catalogued, Records, Retained, Kept
    <2>3. Away[i] = [dev |-> recOrder[i], spec |-> Retained(recOrder[i])]
      BY <1>4 DEF Away
    <2> QED BY <1>2, <2>1, <2>2, <2>3 DEF Devices
  <1>5. /\ DOMAIN Serving = 1 .. Len(order) /\ Serving = [i \in 1 .. Len(order) |-> Serving[i]]
        /\ DOMAIN Away = 1 .. Len(recOrder) /\ Away = [i \in 1 .. Len(recOrder) |-> Away[i]]
    BY <1>1 DEF Serving, Away
  <1>6. Serving \in Seq(Devices)
    <2>1. Serving \in [1 .. Len(order) -> Devices]
      BY <1>1, <1>3, <1>5
    <2> QED BY <1>1, <2>1
  <1>7. Away \in Seq(Devices)
    <2>1. Away \in [1 .. Len(recOrder) -> Devices]
      BY <1>1, <1>4, <1>5
    <2> QED BY <1>1, <2>1
  <1>8. SpecsOk(AllDevices)
    <2>1. Serving \o Away \in Seq(Devices)
      BY <1>6, <1>7, ConcatProperties
    <2>2. Len(AllDevices) \in Nat /\ DOMAIN AllDevices = 1 .. Len(AllDevices)
          /\ \A i \in DOMAIN AllDevices : AllDevices[i] \in Devices
      BY <2>1, LenProperties, ElementOfSeq DEF AllDevices
    <2>3. \A d \in Devices : IsBuild(d.spec)
      BY DEF Devices
    <2> QED BY <2>2, <2>3 DEF SpecsOk
  <1> QED BY <1>1, <1>3, <1>4, <1>5, <1>6, <1>7, <1>8

\* Names on offer are the names given.
LEMMA TargetNames ==
  ASSUME NEW s
  PROVE  /\ \A t \in Targets(s) : \E p \in Described(s) : t.name = ToolNames(s)[p] /\ t.dev = s[p[1]].dev
         /\ \A p \in Described(s) : \E t \in Targets(s) : t.name = ToolNames(s)[p] /\ t.dev = s[p[1]].dev
  <1> DEFINE name == ToolNames(s)
             at(p) == [name |-> name[p], dev |-> s[p[1]].dev,
                       act |-> s[p[1]].spec[p[2]].act, out |-> s[p[1]].spec[p[2]].out]
  <1>1. Targets(s) = {at(p) : p \in Described(s)}
    BY DEF Targets
  <1>2. \A p \in Described(s) : at(p).name = name[p] /\ at(p).dev = s[p[1]].dev
    OBVIOUS
  <1> HIDE DEF name, at
  <1>3. \A t \in Targets(s) : \E p \in Described(s) : t.name = name[p] /\ t.dev = s[p[1]].dev
    BY <1>1, <1>2
  <1>4. \A p \in Described(s) : \E t \in Targets(s) : t.name = name[p] /\ t.dev = s[p[1]].dev
    BY <1>1, <1>2
  <1> QED BY <1>3, <1>4 DEF name

\* As many different slugs as actions: no two share one.
LEMMA SlugsDiffer ==
  ASSUME NEW v, IsBuild(v), Cardinality({v[i].slug : i \in DOMAIN v}) = Len(v)
  PROVE  \A j, k \in DOMAIN v : v[j].slug = v[k].slug => j = k
  <1> DEFINE P == {v[i].slug : i \in DOMAIN v}
             D == DOMAIN v
             f == [i \in D |-> v[i].slug]
  <1>1. Len(v) \in Nat /\ D = 1 .. Len(v)
    BY DEF IsBuild, IsSequence
  <1>2. IsFiniteSet(D) /\ Cardinality(D) = Len(v)
    <2> DEFINE n == Len(v)
    <2>0. n \in Nat
      BY ONLY <1>1
    <2> HIDE DEF n
    <2>1. 1 \in Int /\ n \in Int
      BY ONLY <2>0
    <2>2. IsFiniteSet(1 .. n) /\ Cardinality(1 .. n) = IF 1 > n THEN 0 ELSE n - 1 + 1
      BY ONLY <2>1, FS_Interval
    <2>3. Cardinality(1 .. n) = n
      BY ONLY <2>0, <2>2
    <2> QED BY <1>1, <2>2, <2>3 DEF n
  <1>3. f \in Surjection(D, P)
    BY DEF Surjection
  <1>4. Cardinality(P) = Cardinality(D)
    BY <1>2
  <1>5. f \in Injection(D, P)
    <2> HIDE DEF f, D, P
    <2> QED BY <1>2, <1>3, <1>4, FS_Surjection
  <1> QED BY <1>5 DEF Injection, IsInjective

\* Tool names differ, and a plan that was found in order gets its slugs.
LEMMA CatalogNamesHold ==
  ASSUME CatalogInv
  PROVE  NamesHold
  <1>0. SpecsOk(AllDevices) /\ AllDevices = Serving \o Away
    BY CatalogSpecs DEF AllDevices
  <1>1. NamesDistinct
    BY <1>0, ToolNamesFacts DEF NamesDistinct
  <1>2. ASSUME NEW p \in Plans, PlanOk(p), Predicted(p) \cap Reserved = {},
               Cardinality(Predicted(p)) = Len(p.acts)
        PROVE  Given(p) = {p.acts[i].slug : i \in {j \in DOMAIN p.acts : Readable(p.acts[j])}}
    <2> DEFINE x == [dev |-> None, spec |-> p.acts]
               w == WithPlan(Serving, x, Away)
               n == Len(Serving)
               name == ToolNames(w)
    <2>1. x \in Devices /\ IsBuild(x.spec) /\ x.spec = p.acts /\ x.dev = None
      BY CatalogAssumption DEF Devices
    <2>2. \A j, k \in DOMAIN x.spec : x.spec[j].slug = x.spec[k].slug => j = k
      BY <1>2, <2>1, SlugsDiffer DEF Predicted
    <2>3. ASSUME NEW k \in DOMAIN x.spec
          PROVE  /\ x.spec[k].slug \notin Reserved
                 /\ \A q \in Described(Serving \o Away) : ToolNames(Serving \o Away)[q] # x.spec[k].slug
      <3>1. x.spec[k].slug \notin Names(ToolTargets)
        BY <1>2, <2>1 DEF PlanOk, Collides
      <3>2. x.spec[k].slug \notin Reserved
        BY <1>2, <2>1 DEF Predicted
      <3>3. ASSUME NEW q \in Described(AllDevices) PROVE ToolNames(AllDevices)[q] \in Names(ToolTargets)
        <4>1. PICK t \in Targets(AllDevices) : t.name = ToolNames(AllDevices)[q]
          BY <3>3, TargetNames
        <4> QED BY <4>1 DEF Names, ToolTargets
      <3> QED BY <1>0, <3>1, <3>2, <3>3
    <2> HIDE DEF x, w
    <2>4. /\ SpecsOk(w)
          /\ \A k \in DOMAIN x.spec : Readable(x.spec[k]) =>
               <<n + 1, k>> \in Described(w) /\ name[<<n + 1, k>>] = x.spec[k].slug
      <3>1. Serving \in Seq(Devices) /\ Away \in Seq(Devices) /\ x \in Devices
            /\ SpecsOk(Serving \o Away) /\ IsBuild(x.spec)
        BY <1>0, <2>1, CatalogSpecs
      <3>2. \A k \in DOMAIN x.spec :
              /\ x.spec[k].slug \notin Reserved
              /\ \A q \in Described(Serving \o Away) : ToolNames(Serving \o Away)[q] # x.spec[k].slug
        BY <2>3
      <3> QED BY ONLY <2>2, <3>1, <3>2, PlanGetsSlugs DEF w
    <2>5. /\ n \in Nat /\ Len(Away) \in Nat /\ DOMAIN w = 1 .. n + Len(Away) + 1
          /\ \A i \in DOMAIN w : w[i] = IF i <= n THEN Serving[i]
                                        ELSE IF i = n + 1 THEN x ELSE Away[i - n - 1]
      BY <2>1, CatalogSpecs, JoinedSpecs DEF w
    <2>6. ASSUME NEW i \in DOMAIN w PROVE w[i].dev = None <=> i = n + 1
      <3>1. DOMAIN Serving = 1 .. n /\ DOMAIN Away = 1 .. Len(Away)
        BY CatalogSpecs, LenProperties
      <3>2. CASE i <= n
        <4>1. i \in DOMAIN Serving /\ i # n + 1 /\ w[i] = Serving[i]
          BY <2>5, <2>6, <3>1, <3>2
        <4> QED BY <4>1, CatalogSpecs, CatalogAssumption
      <3>3. CASE i = n + 1
        <4>1. w[i] = x
          BY <2>5, <2>6, <3>3
        <4> QED BY <2>1, <3>3, <4>1
      <3>4. CASE ~(i <= n) /\ i # n + 1
        <4>1. i - n - 1 \in DOMAIN Away /\ w[i] = Away[i - n - 1]
          BY <2>5, <2>6, <3>1, <3>4
        <4> QED BY <3>4, <4>1, CatalogSpecs, CatalogAssumption
      <3> QED BY <3>2, <3>3, <3>4
    <2> DEFINE mine == {t \in Targets(w) : t.dev = None}
               told == {x.spec[k].slug : k \in {j \in DOMAIN x.spec : Readable(x.spec[j])}}
    <2>7. ASSUME NEW t \in mine PROVE t.name \in told
      <3>1. PICK q \in Described(w) : t.name = name[q] /\ t.dev = w[q[1]].dev
        BY <2>7, TargetNames
      <3>2. /\ q = <<q[1], q[2]>> /\ q[1] \in DOMAIN w /\ q[2] \in DOMAIN w[q[1]].spec
            /\ Readable(w[q[1]].spec[q[2]])
        BY <2>4, DescribedFacts
      <3>3. q[1] = n + 1 /\ w[q[1]] = x
        <4>1. q[1] = n + 1
          BY <2>6, <2>7, <3>1, <3>2
        <4> QED BY <2>5, <3>2, <4>1
      <3>4. t.name = x.spec[q[2]].slug /\ q[2] \in DOMAIN x.spec /\ Readable(x.spec[q[2]])
        BY <2>4, <3>1, <3>2, <3>3
      <3> QED BY <3>4
    <2>8. ASSUME NEW k \in DOMAIN x.spec, Readable(x.spec[k]) PROVE x.spec[k].slug \in Names(mine)
      <3>1. <<n + 1, k>> \in Described(w) /\ name[<<n + 1, k>>] = x.spec[k].slug
        BY <2>4, <2>8
      <3>2. PICK t \in Targets(w) : t.name = name[<<n + 1, k>>] /\ t.dev = w[<<n + 1, k>>[1]].dev
        BY <3>1, TargetNames
      <3>3. t.dev = None
        BY <2>5, <2>6, <3>2
      <3> QED BY <3>1, <3>2, <3>3 DEF Names
    <2>9. told = Names(mine)
      <3> HIDE DEF mine
      <3> QED BY <2>7, <2>8 DEF Names
    <2>10. Given(p) = Names(mine)
      BY DEF Given, w, x, WithPlan
    <2> HIDE DEF mine
    <2> QED BY <2>1, <2>9, <2>10 DEF told
  <1>3. PlanNamesHold
    BY <1>2 DEF PlanNamesHold
  <1> QED BY <1>1, <1>3 DEF NamesHold

\* Removal of a key from a map's keys.
LEMMA RemoveFacts ==
  ASSUME NEW S, NEW s \in Seq(S), NEW x
  PROVE  /\ RemoveFirst(s, x) \in Seq(S)
         /\ Elems(RemoveFirst(s, x)) \subseteq Elems(s)
         /\ Once(s) => Once(RemoveFirst(s, x)) /\ x \notin Elems(RemoveFirst(s, x))
  <1>1. Len(s) \in Nat /\ DOMAIN s = 1 .. Len(s) /\ \A i \in 1 .. Len(s) : s[i] \in S
    BY LenProperties, ElementOfSeq
  <1>2. CASE ~\E i \in 1 .. Len(s) : s[i] = x
    <2>1. RemoveFirst(s, x) = s
      BY <1>2 DEF RemoveFirst
    <2> QED BY <1>1, <1>2, <2>1 DEF Elems
  <1>3. CASE \E i \in 1 .. Len(s) : s[i] = x
    <2> DEFINE I == {i \in 1 .. Len(s) : s[i] = x}
               k == Min(I)
               t == SubSeq(s, 1, k - 1)
               u == SubSeq(s, k + 1, Len(s))
               r == t \o u
    <2>1. PICK m \in I : \A i \in I : m <= i
      <3>1. I # {} /\ I \subseteq Nat
        BY <1>1, <1>3
      <3> HIDE DEF I
      <3> QED BY <3>1, LeastNat
    <2>2. k \in I
      <3> HIDE DEF I
      <3> QED BY <2>1 DEF Min
    <2>3. k \in 1 .. Len(s) /\ s[k] = x /\ k \in Nat
      BY <1>1, <2>2
    <2>4. RemoveFirst(s, x) = r
      BY <1>3, <2>2 DEF RemoveFirst, RemoveAt, SelectInSeq
    <2> HIDE DEF k, I
    <2>5. /\ t \in Seq(S) /\ Len(t) = k - 1 /\ \A i \in 1 .. k - 1 : t[i] = s[i]
      <3>1. \A i \in 1 .. k - 1 : s[i] \in S
        BY <1>1, <2>3
      <3>2. /\ t \in Seq(S) /\ Len(t) = (IF 1 <= k - 1 THEN (k - 1) - 1 + 1 ELSE 0)
            /\ \A i \in 1 .. (k - 1) - 1 + 1 : t[i] = s[1 + i - 1]
        BY <2>3, <3>1, SubSeqProperties
      <3> QED BY <2>3, <3>2
    <2>6. /\ u \in Seq(S) /\ Len(u) = Len(s) - k /\ \A i \in 1 .. Len(s) - k : u[i] = s[k + i]
      <3>1. \A i \in k + 1 .. Len(s) : s[i] \in S
        BY <1>1, <2>3
      <3>2. /\ u \in Seq(S) /\ Len(u) = (IF k + 1 <= Len(s) THEN Len(s) - (k + 1) + 1 ELSE 0)
            /\ \A i \in 1 .. Len(s) - (k + 1) + 1 : u[i] = s[(k + 1) + i - 1]
        BY <1>1, <2>3, <3>1, SubSeqProperties
      <3>3. (~(k + 1 <= Len(s)) => 0 = Len(s) - k) /\ Len(s) - (k + 1) + 1 = Len(s) - k
        <4> DEFINE n == Len(s)
        <4>1. n \in Nat /\ k \in Nat /\ k <= n
          BY <1>1, <2>3
        <4> HIDE DEF n
        <4>2. (~(k + 1 <= n) => 0 = n - k) /\ n - (k + 1) + 1 = n - k
          BY ONLY <4>1
        <4> QED BY <4>2 DEF n
      <3>4. \A i \in 1 .. Len(s) - k : (k + 1) + i - 1 = k + i
        BY <1>1, <2>3
      <3> HIDE DEF u
      <3> QED BY <3>2, <3>3, <3>4
    <2> HIDE DEF t, u
    <2>7. /\ r \in Seq(S) /\ Len(r) = Len(s) - 1 /\ DOMAIN r = 1 .. Len(s) - 1
          /\ \A i \in 1 .. Len(t) + Len(u) : r[i] = IF i <= Len(t) THEN t[i] ELSE u[i - Len(t)]
      <3>1. /\ r \in Seq(S) /\ Len(r) = Len(t) + Len(u)
            /\ \A i \in 1 .. Len(t) + Len(u) : r[i] = IF i <= Len(t) THEN t[i] ELSE u[i - Len(t)]
        BY <2>5, <2>6, ConcatProperties
      <3> HIDE DEF r
      <3>2. DOMAIN r = 1 .. Len(r)
        BY <3>1, LenProperties
      <3> QED BY <1>1, <2>3, <2>5, <2>6, <3>1, <3>2
    <2> DEFINE at(i) == IF i < k THEN i ELSE i + 1
    <2>8. ASSUME NEW i \in DOMAIN r
          PROVE  r[i] = s[at(i)] /\ at(i) \in DOMAIN s /\ at(i) # k /\ i \in Nat
      <3>1. i \in 1 .. Len(t) + Len(u) /\ i \in Nat /\ i >= 1 /\ i <= Len(s) - 1
        <4>1. Len(t) + Len(u) = Len(s) - 1
          BY <1>1, <2>3, <2>5, <2>6
        <4>2. i \in 1 .. Len(s) - 1
          BY <2>7
        <4> QED BY <1>1, <4>1, <4>2
      <3>2. CASE i < k
        <4>1. i <= Len(t) /\ i \in 1 .. k - 1 /\ i \in 1 .. Len(s) /\ at(i) = i
          BY <1>1, <2>3, <2>5, <3>1, <3>2
        <4>2. r[i] = s[i]
          BY <2>5, <2>7, <3>1, <4>1
        <4> QED BY <1>1, <2>3, <3>1, <3>2, <4>1, <4>2
      <3>3. CASE ~(i < k)
        <4>1. ~(i <= Len(t)) /\ i - Len(t) \in 1 .. Len(s) - k /\ k + (i - Len(t)) = i + 1
          BY <1>1, <2>3, <2>5, <3>1, <3>3
        <4>2. r[i] = s[i + 1]
          BY <2>6, <2>7, <3>1, <4>1
        <4> QED BY <1>1, <2>3, <3>1, <3>3, <4>2
      <3> QED BY <3>2, <3>3
    <2>9. Elems(r) \subseteq Elems(s)
      <3> HIDE DEF r, at
      <3> QED BY <2>8 DEF Elems
    <2>10. ASSUME Once(s) PROVE Once(r) /\ x \notin Elems(r)
      <3>1. ASSUME NEW i \in DOMAIN r PROVE r[i] # x
        <4>1. k \in DOMAIN s /\ s[k] = x
          BY <1>1, <2>3
        <4> HIDE DEF r, at
        <4> QED BY <2>8, <2>10, <4>1 DEF Once
      <3>2. ASSUME NEW i \in DOMAIN r, NEW j \in DOMAIN r, r[i] = r[j] PROVE i = j
        <4>1. at(i) = at(j)
          <5> HIDE DEF r, at
          <5> QED BY <2>8, <2>10, <3>2 DEF Once
        <4>2. i \in Nat /\ j \in Nat
          BY <2>8
        <4> QED BY <2>3, <4>1, <4>2
      <3> QED BY <3>1, <3>2 DEF Once, Elems
    <2> QED BY <2>4, <2>7, <2>9, <2>10
  <1> QED BY <1>2, <1>3

\* A record without specs.
LEMMA BareRecord ==
  ASSUME NEW st \in States
  PROVE  [state |-> st, specs |-> None] \in Records
  BY DEF Records

\* A value of a function replaced, whether or not it has one there.
LEMMA Replaced ==
  ASSUME NEW D, NEW R, NEW f \in [D -> R], NEW x, NEW r \in R
  PROVE  /\ [f EXCEPT ![x] = r] \in [D -> R]
         /\ \A n \in D : [f EXCEPT ![x] = r][n] = IF n = x THEN r ELSE f[n]
  OBVIOUS

\* The catalog is empty at first.
LEMMA CatalogStarts ==
  ASSUME CatalogInit
  PROVE  CatalogInv
  <1>1. <<>> \in Seq(Modules) /\ Elems(<<>>) = {} /\ Once(<<>>)
    BY EmptyFacts
  <1>2. Catalogued
    <2>1. order \in Seq(Modules) /\ Once(order) /\ recOrder \in Seq(Modules)
      BY <1>1 DEF CatalogInit
    <2>2. gen \in 0 .. MaxGen /\ worker \in [Modules -> 0 .. gen]
      BY CatalogAssumption DEF CatalogInit
    <2>3. build \in [Gens -> Builds \cup {None}] /\ list \in [Gens -> Builds \cup {None}]
      BY DEF CatalogInit
    <2>4. record \in [Modules -> Records]
      BY BareRecord DEF CatalogInit, NoRecord, States
    <2>5. loading \in [Modules -> Loadings]
      BY DEF CatalogInit, Loadings
    <2> QED BY <2>1, <2>2, <2>3, <2>4, <2>5 DEF Catalogued
  <1>3. Manned
    BY <1>1 DEF CatalogInit, Manned, NoRecord
  <1> QED BY <1>2, <1>3 DEF CatalogInv

\* A load or an unload is asked for: the record goes, and a load that spawns at
\* once does so without a worker.
LEMMA AskedKeeps ==
  ASSUME CatalogInv, NEW m, Cleared(m), NEW l \in Loadings, loading' = [loading EXCEPT ![m] = l],
         l = "spawning" => worker[m] = 0, l # "restarting",
         UNCHANGED <<worker, gen, build, list, order>>
  PROVE  CatalogInv'
  <1>1. recOrder' \in Seq(Modules)
    BY RemoveFacts DEF Cleared, CatalogInv, Catalogued
  <1>2. /\ record' \in [Modules -> Records]
        /\ \A n \in Modules : record'[n] = IF n = m THEN NoRecord ELSE record[n]
    <2>1. record \in [Modules -> Records] /\ NoRecord \in Records
      BY BareRecord DEF CatalogInv, Catalogued, NoRecord, States
    <2>2. record' = [record EXCEPT ![m] = NoRecord]
      BY DEF Cleared
    <2> HIDE DEF NoRecord
    <2> QED BY <2>1, <2>2, Replaced
  <1>3. loading' \in [Modules -> Loadings] /\ \A n \in Modules : loading'[n] = IF n = m THEN l ELSE loading[n]
    BY DEF CatalogInv, Catalogued
  <1>4. Catalogued'
    BY <1>1, <1>2, <1>3 DEF CatalogInv, Catalogued
  <1>5. Manned'
    BY <1>2, <1>3 DEF CatalogInv, Manned, NoRecord
  <1> QED BY <1>4, <1>5 DEF CatalogInv

\* A worker's end takes its device, its specs and its build, and nobody else's.
LEMMA PurgedFacts ==
  ASSUME CatalogInv, NEW m \in Modules, Purged(m)
  PROVE  /\ order' \in Seq(Modules) /\ Once(order') /\ m \notin Elems(order') /\ Elems(order') \subseteq Elems(order)
         /\ worker' \in [Modules -> 0 .. gen] /\ worker'[m] = 0
         /\ build' \in [Gens -> Builds \cup {None}] /\ list' \in [Gens -> Builds \cup {None}]
         /\ \A n \in Modules : n # m =>
              /\ worker'[n] = worker[n]
              /\ worker[n] # 0 => list'[worker[n]] = list[worker[n]] /\ build'[worker[n]] = build[worker[n]]
  <1>1. order' \in Seq(Modules) /\ Once(order') /\ m \notin Elems(order') /\ Elems(order') \subseteq Elems(order)
    BY RemoveFacts DEF Purged, CatalogInv, Catalogued
  <1>2. gen \in Nat /\ gen <= MaxGen /\ MaxGen \in Nat /\ worker \in [Modules -> 0 .. gen]
    BY CatalogAssumption DEF CatalogInv, Catalogued
  <1>3. worker' \in [Modules -> 0 .. gen] /\ worker'[m] = 0 /\ \A n \in Modules : n # m => worker'[n] = worker[n]
    BY <1>2 DEF Purged
  <1>4. build' \in [Gens -> Builds \cup {None}] /\ list' \in [Gens -> Builds \cup {None}]
    BY DEF Purged, CatalogInv, Catalogued
  <1>5. ASSUME NEW n \in Modules, n # m, worker[n] # 0
        PROVE  list'[worker[n]] = list[worker[n]] /\ build'[worker[n]] = build[worker[n]]
    <2>1. worker[n] \in Gens
      BY <1>2, <1>5 DEF Gens
    <2>2. worker[n] # worker[m]
      BY <1>5 DEF CatalogInv, Manned
    <2> QED BY <2>1, <2>2 DEF Purged
  <1> QED BY <1>1, <1>3, <1>4, <1>5

\* An unload finishes, or a worker ends by itself.
LEMMA PurgeKeeps ==
  ASSUME CatalogInv, NEW m \in Modules, Purged(m), UNCHANGED gen, recOrder' = recOrder,
         record' \in [Modules -> Records],
         loading' \in [Modules -> Loadings],
         \A n \in Modules : n # m => record'[n] = record[n] /\ loading'[n] = loading[n]
  PROVE  CatalogInv'
  <1>1. Catalogued'
    BY PurgedFacts DEF CatalogInv, Catalogued
  <1>2. ASSUME NEW n \in Modules
        PROVE  /\ worker'[n] # 0 => build'[worker'[n]] \in Builds /\ \A k \in Modules : k # n => worker'[k] # worker'[n]
               /\ n \in Elems(order') => worker'[n] # 0 /\ list'[worker'[n]] \in Builds
               /\ loading'[n] \in {"spawning", "restarting"} \/ record'[n].state \in {"restarting", "suspended"} => worker'[n] = 0
    <2>1. CASE n = m
      BY <2>1, PurgedFacts
    <2>2. CASE n # m
      <3>1. /\ worker'[n] = worker[n] /\ record'[n] = record[n] /\ loading'[n] = loading[n]
            /\ worker[n] # 0 => list'[worker[n]] = list[worker[n]] /\ build'[worker[n]] = build[worker[n]]
            /\ \A k \in Modules : worker'[k] = worker[k] \/ worker'[k] = 0
            /\ Elems(order') \subseteq Elems(order)
        BY <2>2, PurgedFacts
      <3> QED BY <3>1 DEF CatalogInv, Manned
    <2> QED BY <2>1, <2>2
  <1> QED BY <1>1, <1>2 DEF CatalogInv, Manned

\* A load or restart that succeeds makes a worker where there is none.
LEMMA LoadAckedKeeps ==
  ASSUME CatalogInv, NEW m \in Modules, NEW v \in Versions[m], LoadAcked(m, v)
  PROVE  CatalogInv'
  <1> DEFINE g == gen + 1
  <1>1. /\ worker[m] = 0 /\ gen \in Nat /\ g \in Gens /\ g \in 0 .. MaxGen /\ v \in Builds
        /\ gen' = g /\ UNCHANGED <<list, order>>
        /\ worker' = [worker EXCEPT ![m] = g] /\ build' = [build EXCEPT ![g] = v]
        /\ record' = [record EXCEPT ![m] = [state |-> "running", specs |-> None]]
        /\ loading' = [loading EXCEPT ![m] = "no"]
    BY CatalogAssumption DEF LoadAcked, CatalogInv, Catalogued, Manned, Builds, Gens
  <1>2. m \notin Elems(order)
    BY <1>1 DEF CatalogInv, Manned
  <1>3. recOrder' \in Seq(Modules)
    BY AppendFacts DEF LoadAcked, CatalogInv, Catalogued
  <1>4. \A n \in Modules : worker[n] \in Nat /\ worker[n] <= gen
    BY <1>1 DEF CatalogInv, Catalogued
  <1>5. /\ worker' \in [Modules -> 0 .. g] /\ worker'[m] = g /\ g # 0
        /\ \A n \in Modules : n # m => worker'[n] = worker[n] /\ worker[n] # g
    BY <1>1, <1>4 DEF CatalogInv, Catalogued
  <1>6. /\ build' \in [Gens -> Builds \cup {None}] /\ build'[g] = v
        /\ \A k \in Gens : k # g => build'[k] = build[k]
    BY <1>1 DEF CatalogInv, Catalogued
  <1>7. /\ record' \in [Modules -> Records]
        /\ loading' \in [Modules -> Loadings] /\ loading'[m] = "no" /\ record'[m].state = "running"
        /\ \A n \in Modules : n # m => record'[n] = record[n] /\ loading'[n] = loading[n]
    <2>1. record \in [Modules -> Records] /\ loading \in [Modules -> Loadings]
      BY DEF CatalogInv, Catalogued
    <2>2. loading' \in [Modules -> Loadings] /\ \A n \in Modules : loading'[n] = IF n = m THEN "no" ELSE loading[n]
      BY <1>1, <2>1 DEF Loadings
    <2> DEFINE r == [state |-> "running", specs |-> None]
    <2>3. r \in Records /\ r.state = "running" /\ record' = [record EXCEPT ![m] = r]
      BY <1>1, BareRecord DEF States
    <2> HIDE DEF r
    <2>4. record' \in [Modules -> Records] /\ \A n \in Modules : record'[n] = IF n = m THEN r ELSE record[n]
      BY <2>1, <2>3, Replaced
    <2> QED BY <2>2, <2>3, <2>4
  <1>8. Catalogued'
    BY <1>1, <1>3, <1>5, <1>6, <1>7 DEF CatalogInv, Catalogued
  <1>9. ASSUME NEW n \in Modules
        PROVE  /\ worker'[n] # 0 => build'[worker'[n]] \in Builds /\ \A k \in Modules : k # n => worker'[k] # worker'[n]
               /\ n \in Elems(order) => worker'[n] # 0 /\ list[worker'[n]] \in Builds
               /\ loading'[n] \in {"spawning", "restarting"} \/ record'[n].state \in {"restarting", "suspended"} => worker'[n] = 0
    <2>1. CASE n = m
      BY <1>1, <1>2, <1>5, <1>6, <1>7, <2>1
    <2>2. CASE n # m
      <3>1. worker'[n] = worker[n] /\ worker[n] # g /\ record'[n] = record[n] /\ loading'[n] = loading[n]
        BY <1>5, <1>7, <2>2
      <3>2. worker[n] # 0 => worker[n] \in Gens
        <4>1. worker[n] \in Nat /\ worker[n] <= gen /\ gen \in Nat /\ gen + 1 <= MaxGen /\ MaxGen \in Nat
          BY <1>1, <1>4, CatalogAssumption
        <4> QED BY <4>1 DEF Gens
      <3>3. worker[n] # 0 => build'[worker'[n]] = build[worker[n]]
        BY <1>6, <3>1, <3>2
      <3> QED BY <1>5, <3>1, <3>3 DEF CatalogInv, Manned
    <2> QED BY <2>1, <2>2
  <1>10. Manned'
    BY <1>1, <1>9 DEF Manned
  <1> QED BY <1>8, <1>10 DEF CatalogInv

\* A worker's device comes online with the build's specs.
LEMMA DeviceOnlineKeeps ==
  ASSUME CatalogInv, NEW m \in Modules, DeviceOnline(m)
  PROVE  CatalogInv'
  <1> DEFINE g == worker[m]
  <1>1. /\ g # 0 /\ list' = [list EXCEPT ![g] = build[g]]
        /\ UNCHANGED <<worker, gen, build, record, recOrder, loading>>
        /\ order' = IF Contains(order, m) THEN order ELSE Append(order, m)
    BY DEF DeviceOnline
  <1>2. g \in Gens /\ build[g] \in Builds
    BY <1>1, CatalogAssumption DEF CatalogInv, Catalogued, Manned, Gens
  <1>3. order' \in Seq(Modules) /\ Once(order') /\ Elems(order') \subseteq Elems(order) \cup {m}
    <2>1. order \in Seq(Modules) /\ Once(order) /\ DOMAIN order = 1 .. Len(order)
      BY LenProperties DEF CatalogInv, Catalogued
    <2>2. CASE Contains(order, m)
      BY <1>1, <2>1, <2>2
    <2>3. CASE ~Contains(order, m)
      <3>1. m \notin Elems(order) /\ order' = Append(order, m)
        BY <1>1, <2>1, <2>3 DEF Contains, Elems
      <3> QED BY <2>1, <3>1, AppendFacts
    <2> QED BY <2>2, <2>3
  <1>4. /\ list' \in [Gens -> Builds \cup {None}] /\ list'[g] \in Builds
        /\ \A k \in Gens : k # g => list'[k] = list[k]
    BY <1>1, <1>2 DEF CatalogInv, Catalogued
  <1>5. Catalogued'
    BY <1>1, <1>3, <1>4 DEF CatalogInv, Catalogued
  <1>6. ASSUME NEW n \in Modules, n \in Elems(order') PROVE worker[n] # 0 /\ list'[worker[n]] \in Builds
    <2>1. CASE n = m
      BY <1>1, <1>4, <2>1
    <2>2. CASE n # m
      <3>1. worker[n] # 0 /\ list[worker[n]] \in Builds /\ worker[n] # g
        BY <1>1, <1>3, <1>6, <2>2 DEF CatalogInv, Manned
      <3>2. worker[n] \in Gens
        BY <3>1, CatalogAssumption DEF CatalogInv, Catalogued, Gens
      <3> QED BY <1>4, <3>1, <3>2
    <2> QED BY <2>1, <2>2
  <1>7. Manned'
    BY <1>1, <1>6 DEF CatalogInv, Manned
  <1> QED BY <1>5, <1>7 DEF CatalogInv

\* A load or restart that fails leaves the module without a worker.
LEMMA LoadFailsKeeps ==
  ASSUME CatalogInv, NEW m \in Modules, LoadFails(m)
  PROVE  CatalogInv'
  <1>1. /\ worker[m] = 0 /\ record \in [Modules -> Records] /\ loading \in [Modules -> Loadings]
        /\ UNCHANGED <<worker, gen, build, list, order, recOrder>> /\ loading' = [loading EXCEPT ![m] = "no"]
    BY DEF LoadFails, CatalogInv, Catalogued, Manned
  <1>2. loading' \in [Modules -> Loadings] /\ \A n \in Modules : n # m => loading'[n] = loading[n]
    BY <1>1 DEF Loadings
  <1>3. record' \in [Modules -> Records] /\ \A n \in Modules : n # m => record'[n] = record[n]
    <2>1. CASE UNCHANGED record
      BY <1>1, <2>1
    <2>2. CASE \E s \in {"restarting", "suspended"} : record' = [record EXCEPT ![m].state = s]
      <3>1. PICK s \in {"restarting", "suspended"} : record' = [record EXCEPT ![m].state = s]
        BY <2>2
      <3> DEFINE r == [record[m] EXCEPT !.state = s]
      <3>2. r \in Records
        BY <1>1 DEF Records, States
      <3>3. record' = [record EXCEPT ![m] = r]
        BY <3>1
      <3> HIDE DEF r
      <3> QED BY <1>1, <3>2, <3>3, Replaced
    <2> QED BY <2>1, <2>2 DEF LoadFails
  <1>4. Catalogued'
    BY <1>1, <1>2, <1>3 DEF CatalogInv, Catalogued
  <1>5. Manned'
    BY <1>1, <1>2, <1>3 DEF CatalogInv, Manned
  <1> QED BY <1>4, <1>5 DEF CatalogInv

\* A worker that ends by itself takes its devices; the record keeps their specs.
LEMMA WorkerExitsKeeps ==
  ASSUME CatalogInv, NEW m \in Modules, WorkerExits(m)
  PROVE  CatalogInv'
  <1>1. /\ Purged(m) /\ UNCHANGED gen /\ recOrder' = recOrder /\ loading' = loading /\ worker[m] # 0
        /\ record \in [Modules -> Records] /\ loading \in [Modules -> Loadings]
    BY DEF WorkerExits, CatalogInv, Catalogued
  <1>2. PICK s \in {"restarting", "suspended"} :
          record' = [record EXCEPT ![m] = [state |-> s, specs |-> list[worker[m]]]]
    BY DEF WorkerExits
  <1>3. worker[m] \in Gens
    <2>1. gen \in Nat /\ gen <= MaxGen /\ MaxGen \in Nat /\ worker[m] \in 0 .. gen
      BY CatalogAssumption DEF CatalogInv, Catalogued
    <2> QED BY <1>1, <2>1 DEF Gens
  <1>4. list[worker[m]] \in Builds \cup {None}
    BY <1>3 DEF CatalogInv, Catalogued
  <1> DEFINE r == [state |-> s, specs |-> list[worker[m]]]
  <1>5. r \in Records /\ record' = [record EXCEPT ![m] = r]
    BY <1>2, <1>4 DEF Records, States
  <1> HIDE DEF r
  <1>6. record' \in [Modules -> Records] /\ \A n \in Modules : n # m => record'[n] = record[n]
    BY <1>1, <1>5, Replaced
  <1> QED BY <1>1, <1>6, PurgeKeeps

\* An unload that finishes.
LEMMA UnloadFinishesKeeps ==
  ASSUME CatalogInv, NEW m \in Modules, UnloadFinishes(m)
  PROVE  CatalogInv'
  <1>1. Purged(m) /\ UNCHANGED gen /\ recOrder' = recOrder /\ record' = record
    BY DEF UnloadFinishes
  <1>2. record \in [Modules -> Records] /\ loading \in [Modules -> Loadings]
    BY DEF CatalogInv, Catalogued
  <1>3. loading' \in [Modules -> Loadings] /\ \A n \in Modules : n # m => loading'[n] = loading[n]
    BY <1>2 DEF UnloadFinishes, Loadings
  <1> QED BY <1>1, <1>2, <1>3, PurgeKeeps

\* A restart begins where the record says so, and so without a worker.
LEMMA RestartFiresKeeps ==
  ASSUME CatalogInv, NEW m \in Modules, RestartFires(m)
  PROVE  CatalogInv'
  <1>1. /\ worker[m] = 0 /\ loading \in [Modules -> Loadings] /\ loading' = [loading EXCEPT ![m] = "restarting"]
        /\ UNCHANGED <<worker, gen, build, list, order, record, recOrder>>
    BY DEF RestartFires, CatalogInv, Catalogued, Manned
  <1>2. loading' \in [Modules -> Loadings] /\ \A n \in Modules : n # m => loading'[n] = loading[n]
    BY <1>1 DEF Loadings
  <1>3. Catalogued'
    BY <1>1, <1>2 DEF CatalogInv, Catalogued
  <1>4. Manned'
    BY <1>1, <1>2 DEF CatalogInv, Manned
  <1> QED BY <1>3, <1>4 DEF CatalogInv

\* A load is asked for, of a module or of a path that is none.
LEMMA AskLoadKeeps ==
  ASSUME CatalogInv, NEW m, AskLoad(m)
  PROVE  CatalogInv'
  <1> DEFINE l == IF worker[m] = 0 THEN "spawning" ELSE "replacing"
  <1>1. /\ l \in Loadings /\ l # "restarting" /\ (l = "spawning" => worker[m] = 0)
        /\ Cleared(m) /\ loading' = [loading EXCEPT ![m] = l] /\ UNCHANGED <<worker, gen, build, list, order>>
    BY DEF AskLoad, Loadings
  <1> HIDE DEF l
  <1> QED BY <1>1, AskedKeeps

\* An unload is asked for.
LEMMA AskUnloadKeeps ==
  ASSUME CatalogInv, NEW m, AskUnload(m)
  PROVE  CatalogInv'
  <1> DEFINE l == IF worker[m] = 0 THEN "no" ELSE "removing"
  <1>1. /\ l \in Loadings /\ l # "restarting" /\ l # "spawning"
        /\ Cleared(m) /\ loading' = [loading EXCEPT ![m] = l] /\ UNCHANGED <<worker, gen, build, list, order>>
    BY DEF AskUnload, Loadings
  <1> HIDE DEF l
  <1> QED BY <1>1, AskedKeeps

\* A client's message, whatever it is, leaves the catalog to the loads it asks for.
LEMMA GatewayLeaves ==
  ASSUME NEW c, Gateway(c)
  PROVE  UNCHANGED catalogVars
  BY DEF Gateway, Handle, List, ListAppended, Identified, Balances, Refused, Plan, CallTool, Authorised,
         Schema, Invoke, Responds, LoadModule, LoadTimesOut, Polled, Validate, ChildEnds, BrokerReady,
         Finish, TornDown, Validated, Quiet

\* Every step keeps the catalog's invariant.
LEMMA CatalogSteps ==
  ASSUME CatalogInv, [Next]_vars
  PROVE  CatalogInv'
  <1>1. CASE UNCHANGED catalogVars
    BY <1>1 DEF catalogVars, CatalogInv, Catalogued, Manned
  <1>2. CASE UNCHANGED vars
    BY <1>1, <1>2 DEF vars
  <1>3. CASE \E c \in Clients : Gateway(c)
    BY <1>1, <1>3, GatewayLeaves
  <1>4. CASE \E l \in loads : LoadBegins(l)
    BY <1>4, AskLoadKeeps DEF LoadBegins
  <1>5. ASSUME NEW m \in Modules, Operator(m) PROVE CatalogInv'
    BY <1>5, AskLoadKeeps, AskUnloadKeeps, WorkerExitsKeeps, UnloadFinishesKeeps, DeviceOnlineKeeps, RestartFiresKeeps
    DEF Operator
  <1>6. ASSUME NEW m \in Modules, FailedBack(m) PROVE CatalogInv'
    BY <1>6, LoadFailsKeeps DEF FailedBack
  <1>7. ASSUME NEW m \in Modules, NEW v \in Versions[m], LoadedBack(m, v) PROVE CatalogInv'
    BY <1>7, LoadAckedKeeps DEF LoadedBack
  <1> QED BY <1>2, <1>3, <1>4, <1>5, <1>6, <1>7 DEF Next

\* The catalog's invariant holds: a worker is one module's, a device in
\* deviceMap is its worker's, and specs are of builds that were there.
THEOREM CatalogInvariance == Spec => []CatalogInv
  <1>1. Init => CatalogInv
    BY CatalogStarts DEF Init
  <1>2. CatalogInv /\ [Next]_vars => CatalogInv'
    BY CatalogSteps
  <1> QED BY <1>1, <1>2, PTL DEF Spec

\* However modules are loaded, crash and come back, the tools on offer have
\* names of their own, apart from the built-in ones, and a plan found in order
\* gets the names it was promised.
THEOREM NamesStay == Spec => []NamesHold
  <1>1. CatalogInv => NamesHold
    BY CatalogNamesHold
  <1> QED BY <1>1, CatalogInvariance, PTL
==============================================================================
