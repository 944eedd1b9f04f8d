----------------------------- MODULE FileProofs -----------------------------
(***************************************************************************)
(* Proofs about FilePaths.tla, for every set of places, roots and          *)
(* protected paths and any number of operations in flight, about           *)
(* FileBridge.tla, for any workers, any finite number of calls and every   *)
(* size of the pool, the queues and the descriptor tables, and about       *)
(* FileQuota.tla, for any finite number of names, files and descriptors.   *)
(*                                                                         *)
(* IInv is the inductive invariant of FilePaths.  Whatever others do to    *)
(* the names, it keeps what was decided for an operation (Deciding) and    *)
(* that an exclusive one is alone (Alone); while nobody else touches them, *)
(* it also keeps the cache and the checks true of the names (Undisturbed). *)
(*                                                                         *)
(* BridgeInv is that of FileBridge: the books of the bridge (Counted), of  *)
(* the lock (Locked), of the scheduler (Scheduled) and of the descriptors  *)
(* (Chained) agree with the stages of the calls, and what was answered is  *)
(* an answer to the call it names (Replies).                               *)
(*                                                                         *)
(* QuotaInv is that of FileQuota: the quota counts what is on the disk and *)
(* what is reserved and not settled (BytesKept, EntriesKept), because what *)
(* an operation measured is still so when it runs (Apart, Naming, Jobs).   *)
(***************************************************************************)
EXTENDS FilePaths, FileBridge, FileQuota, QueueLemmas

\* An exclusive operation runs alone, and one that moves the directory's name
\* leaves nothing in the cache.
Alone ==
  \A s \in Slots : op[s] # Idle /\ op[s].kind \in Exclusive =>
    /\ \A t \in Slots : t # s => op[t] = Idle
    /\ op[s].kind \in OnDir => cache = None

\* The root was decided for the checked place, or is the one the path names where
\* nothing is known of the object; a recognised descriptor past its check lies in
\* a root, a writing one in the root decided on; nothing is emptied before.
Settled(o) ==
  /\ o.kind \in {"relink", "symlink"} => o.to \in Places
  /\ o.st # "granted" /\ o.kind \in OnDir => o.parent = Home
  /\ o.st \in {"granted", "parent", "checked"} => o.hit = None
  /\ o.st \notin {"granted", "parent"} =>
       /\ o.root # None /\ (o.kind \in Writes => o.root.writable)
       /\ o.ident # "null" => o.loc \in Places /\ o.root = RootForReal(o.loc)
  /\ o.st \in {"opened", "verified", "handed", "acted"} => o.hit \in Places
  /\ o.st \in {"verified", "handed"} /\ Recognised(o) => InDecidedRoot(o)
  /\ o.emptied => (o.st = "handed" /\ o.kind = "create") \/ (o.st = "acted" /\ o.kind = "truncate")

Deciding == \A s \in Slots : op[s] # Idle => Settled(op[s])

\* What an operation has checked is still so, with the directory at r, its file
\* name leading to l, and a file there if f.
StillTrue(o, r, l, f) ==
  /\ o.st # "granted" => o.parent = IF o.kind \in OnDir THEN Home ELSE r
  /\ o.st \notin {"granted", "parent"} =>
       /\ o.ident = "null" => r = None /\ o.kind \notin OnDir
       /\ o.kind \notin Following /\ o.ident # "null" => o.ident = "name" /\ o.loc = o.parent
       /\ o.kind \in Following /\ o.ident \notin {"parent", "null"} => o.loc = l
       /\ o.kind \in Following /\ o.ident = "parent" => ~f

\* The operation acts on what it checked.
OnTarget(o) ==
  o.hit # None => /\ o.ident # "null" /\ (o.ident # "parent" => o.hit = o.loc)
                  /\ o.kind = "truncate" => o.ident # "parent"

Undisturbed ==
  races = 0 =>
    /\ cache \in {None, real}
    /\ \A s \in Slots : op[s] # Idle =>
         /\ op[s].hit = None => StillTrue(op[s], real, Lands, FileThere)
         /\ OnTarget(op[s])

IInv == TypeOK /\ Alone /\ Deciding /\ Undisturbed

(***************************************************************************)
(* The roots.                                                              *)
(***************************************************************************)

\* A prefix of a path is the path cut short.
LEMMA PrefixFacts ==
  ASSUME NEW S, NEW a \in Seq(S), NEW p \in Seq(S)
  PROVE  IsPrefix(a, p) <=> Len(a) <= Len(p) /\ \A i \in 1 .. Len(a) : a[i] = p[i]
  <1> DEFINE x == SubSeq(a, 1, Len(a))
             y == SubSeq(p, 1, Len(a))
  <1>1. Len(a) \in Nat /\ Len(p) \in Nat
    BY LenProperties
  <1>2. ASSUME Len(a) <= Len(p)
        PROVE  x = y <=> \A i \in 1 .. Len(a) : a[i] = p[i]
    <2>1. /\ x \in Seq(S) /\ Len(x) = Len(a)
          /\ \A i \in 1 .. Len(a) : x[i] = a[i]
      BY <1>1, SubSeqProperties
    <2>2. /\ y \in Seq(S) /\ Len(y) = Len(a)
          /\ \A i \in 1 .. Len(a) : y[i] = p[i]
      BY <1>1, <1>2, SubSeqProperties
    <2> HIDE DEF x, y
    <2>3. ASSUME \A i \in 1 .. Len(a) : a[i] = p[i] PROVE x = y
      BY <2>1, <2>2, <2>3, SeqEqual
    <2> QED BY <2>1, <2>2, <2>3
  <1> QED BY <1>2 DEF IsPrefix

\* Two paths above the same place are one above the other.
LEMMA PrefixesMeet ==
  ASSUME NEW S, NEW a \in Seq(S), NEW b \in Seq(S), NEW p \in Seq(S),
         IsPrefix(a, p), IsPrefix(b, p)
  PROVE  IsPrefix(a, b) \/ IsPrefix(b, a)
  <1>1. Len(a) \in Nat /\ Len(b) \in Nat
    BY LenProperties
  <1>2. /\ \A i \in 1 .. Len(a) : a[i] = p[i]
        /\ \A i \in 1 .. Len(b) : b[i] = p[i]
    BY PrefixFacts
  <1>3. CASE Len(a) <= Len(b)
    <2>1. \A i \in 1 .. Len(a) : a[i] = b[i]
      BY <1>1, <1>2, <1>3
    <2> QED BY <1>3, <2>1, PrefixFacts
  <1>4. CASE Len(b) <= Len(a)
    <2>1. \A i \in 1 .. Len(b) : b[i] = a[i]
      BY <1>1, <1>2, <1>4
    <2> QED BY <1>4, <2>1, PrefixFacts
  <1> QED BY <1>1, <1>3, <1>4

\* rootForReal finds the deepest root there is, whenever there is one.
LEMMA RootFacts ==
  ASSUME NEW p \in Places
  PROVE  /\ RootForReal(p) = None <=> Holders(p) = {}
         /\ RootForReal(p) # None =>
              /\ RootForReal(p) \in Roots /\ Inside(p, RootForReal(p).real)
              /\ \A r \in Roots : Inside(p, r.real) => Len(r.real) <= Len(RootForReal(p).real)
  <1>1. /\ p \in Seq(STRING) /\ Len(p) \in Nat /\ None \notin Roots
        /\ \A r \in Roots : r.real \in Seq(STRING) /\ Len(r.real) \in Nat
    BY PathConstants, LenProperties DEF Roots, Kept
  <1>2. ASSUME Holders(p) # {}
        PROVE  \E r \in Holders(p) : \A s \in Holders(p) : Len(s.real) <= Len(r.real)
    <2> DEFINE T == {Len(p) - Len(r.real) : r \in Holders(p)}
    <2>1. \A r \in Holders(p) : Len(r.real) \in Nat /\ Len(r.real) <= Len(p)
      BY <1>1, PrefixFacts DEF Holders, Inside
    <2>2. T \subseteq Nat /\ T # {}
      BY <1>1, <1>2, <2>1
    <2>3. PICK n \in T : \A m \in T : n <= m
      BY <2>2, LeastNat
    <2>4. PICK r \in Holders(p) : n = Len(p) - Len(r.real)
      BY <2>3
    <2>5. \A s \in Holders(p) : Len(p) - Len(r.real) <= Len(p) - Len(s.real)
      BY <2>3, <2>4
    <2>6. \A s \in Holders(p) : Len(s.real) <= Len(r.real)
      BY <1>1, <2>1, <2>5
    <2> QED BY <2>6
  <1>3. ASSUME Holders(p) # {}
        PROVE  /\ RootForReal(p) \in Holders(p)
               /\ \A s \in Holders(p) : Len(s.real) <= Len(RootForReal(p).real)
    BY <1>2, <1>3 DEF RootForReal
  <1>4. Holders(p) = {} => RootForReal(p) = None
    BY DEF RootForReal
  <1>5. Holders(p) \subseteq Roots /\ \A r \in Roots : r \in Holders(p) <=> Inside(p, r.real)
    BY DEF Holders
  <1> QED BY <1>1, <1>3, <1>4, <1>5

\* A place in a declared root is not in a protected path: prepare refused every
\* declared one that is above or below one.
LEMMA RootsClear ==
  ASSUME NEW p \in Places, NEW r \in Kept, Inside(p, r.real), NEW q \in Protected
  PROVE  ~Inside(p, q)
  <1>1. /\ p \in Seq(STRING) /\ r.real \in Seq(STRING) /\ q \in Seq(STRING)
        /\ ~Inside(q, r.real) /\ ~Inside(r.real, q)
    BY PathConstants DEF Kept
  <1>2. SUFFICES ASSUME Inside(p, q) PROVE FALSE
    OBVIOUS
  <1>3. IsPrefix(r.real, q) \/ IsPrefix(q, r.real)
    BY <1>1, <1>2, PrefixesMeet DEF Inside
  <1> QED BY <1>1, <1>3 DEF Inside

\* The root Dir's path names is one of the roots.
LEMMA NamedFacts == NamedRoot \in Roots /\ NamedRoot # None
  BY HomeNamed, RootFacts, PathConstants DEF NamedRoot

(***************************************************************************)
(* Steps.                                                                  *)
(***************************************************************************)

\* An idle slot is not an operation, and the leaves are told apart by their kind.
LEMMA RecordFacts ==
  /\ Idle \notin Operations
  /\ \A l \in Leaves : /\ l.kind = "file" => l = File
                       /\ l.kind = "link" => l.to \in Places
  <1>1. \A o \in Operations : o.kind # "idle"
    BY DEF Operations, Following, Opening, Exclusive, OnDir
  <1>2. Idle.kind = "idle"
    BY DEF Idle
  <1>3. ASSUME NEW l \in Leaves
        PROVE  (l.kind = "file" => l = File) /\ (l.kind = "link" => l.to \in Places)
    BY DEF Leaves, File, Gone, LinkTo
  <1> QED BY <1>1, <1>2, <1>3

\* Where the file name leads, if anywhere, is a place.
LEMMA LandsType ==
  ASSUME TypeOK
  PROVE  /\ Lands \in MaybePlace
         /\ Lands # None => Lands \in Places /\ leaf[Lands] \in Leaves /\ real \in Places
         /\ real # None => leaf[real] \in Leaves /\ Lands # None
         /\ real = None => Lands = None
  <1>1. real # None => real \in Places /\ leaf[real] \in Leaves
    BY DEF TypeOK, MaybePlace
  <1>2. real # None => Lands \in Places
    BY <1>1, RecordFacts DEF TypeOK, Lands
  <1>3. real = None => Lands = None
    BY DEF Lands
  <1>4. Lands \in Places => leaf[Lands] \in Leaves /\ Lands # None
    BY PathConstants DEF TypeOK
  <1> QED BY <1>1, <1>2, <1>3, <1>4 DEF MaybePlace

\* A step of one operation in flight.  Only an exclusive one changes names, only
\* one on the directory's own name changes where that leads, and then the cache
\* is empty.
LEMMA Advances ==
  ASSUME IInv, NEW s \in Slots, op[s] # Idle,
         NEW o, o = Idle \/ (o \in Operations /\ o.kind = op[s].kind /\ Settled(o)),
         op' = [op EXCEPT ![s] = o], races' = races,
         real' \in MaybePlace, leaf' \in [Places -> Leaves],
         \/ cache' = cache
         \/ cache' = CachedRealpath /\ real' = real /\ op[s].kind \notin OnDir,
         op[s].kind \notin Exclusive => real' = real /\ leaf' = leaf,
         real' = real \/ op[s].kind \in OnDir,
         o # Idle /\ races = 0 => (o.hit = None => StillTrue(o, real', Lands', FileThere')) /\ OnTarget(o)
  PROVE  IInv'
  <1>1. /\ op \in [Slots -> Operations \cup {Idle}] /\ real \in MaybePlace /\ cache \in MaybePlace
        /\ op' \in [Slots -> Operations \cup {Idle}]
        /\ op'[s] = o /\ \A t \in Slots : t # s => op'[t] = op[t]
    BY DEF IInv, TypeOK
  <1>2. TypeOK'
    BY <1>1 DEF IInv, TypeOK, CachedRealpath, MaybePlace
  <1>3. Alone'
    <2> SUFFICES ASSUME NEW t \in Slots, op'[t] # Idle, op'[t].kind \in Exclusive
                 PROVE  /\ \A u \in Slots : u # t => op'[u] = Idle
                        /\ op'[t].kind \in OnDir => cache' = None
      BY DEF Alone
    <2>1. op[t] # Idle /\ op[t].kind = op'[t].kind
      BY <1>1
    <2>2. t = s
      BY <1>1, <2>1 DEF IInv, Alone
    <2>3. \A u \in Slots : u # t => op'[u] = Idle
      BY <1>1, <2>1, <2>2 DEF IInv, Alone
    <2>4. op'[t].kind \in OnDir => cache' = None
      BY <2>1, <2>2 DEF IInv, Alone
    <2> QED BY <2>3, <2>4
  <1>4. Deciding'
    BY <1>1 DEF IInv, Deciding
  <1>5. Undisturbed'
    <2> SUFFICES ASSUME races = 0
                 PROVE  /\ cache' \in {None, real'}
                        /\ \A t \in Slots : op'[t] # Idle =>
                             /\ op'[t].hit = None => StillTrue(op'[t], real', Lands', FileThere')
                             /\ OnTarget(op'[t])
      BY DEF Undisturbed
    <2>1. cache \in {None, real}
      BY DEF IInv, Undisturbed
    <2>2. cache' \in {None, real'}
      <3>1. CASE real' = real
        BY <2>1, <3>1 DEF CachedRealpath
      <3>2. CASE real' # real
        BY <3>2 DEF IInv, Alone, Exclusive, OnDir
      <3> QED BY <3>1, <3>2
    <2>3. ASSUME NEW t \in Slots, op'[t] # Idle, t # s
          PROVE  /\ op'[t].hit = None => StillTrue(op'[t], real', Lands', FileThere')
                 /\ OnTarget(op'[t])
      <3>1. op[t] = op'[t] /\ op[t] # Idle
        BY <1>1, <2>3
      <3>2. op[s].kind \notin Exclusive
        BY <2>3, <3>1 DEF IInv, Alone
      <3>3. real' = real /\ Lands' = Lands /\ FileThere' = FileThere
        BY <3>2 DEF Lands, FileThere
      <3> QED BY <3>1, <3>3 DEF IInv, Undisturbed
    <2> QED BY <1>1, <2>2, <2>3
  <1> QED BY <1>2, <1>3, <1>4, <1>5 DEF IInv

\* An operation that ends, changing nothing.
LEMMA Ends ==
  ASSUME IInv, NEW s \in Slots, op[s] # Idle, End(s), UNCHANGED <<real, leaf, cache, races>>
  PROVE  IInv'
  <1>1. real' \in MaybePlace /\ leaf' \in [Places -> Leaves]
    BY DEF IInv, TypeOK
  <1> QED BY <1>1, Advances DEF End

\* handleOne grants the lock to an operation that may run beside the others.
LEMMA BeginKeeps ==
  ASSUME IInv, NEW s \in Slots, NEW k \in Following \cup Exclusive, NEW to \in MaybePlace, Begin(s, k, to)
  PROVE  IInv'
  <1> DEFINE o == [kind |-> k, to |-> to, st |-> "granted", parent |-> None, loc |-> None,
                   ident |-> "none", root |-> None, hit |-> None, emptied |-> FALSE]
  <1>1. /\ op[s] = Idle /\ op' = [op EXCEPT ![s] = o] /\ UNCHANGED <<real, leaf, races>>
        /\ cache' = IF k \in Exclusive THEN None ELSE cache
        /\ (k \in {"relink", "symlink"}) <=> (to # None)
        /\ \A t \in Slots : op[t] # Idle => k \notin Exclusive /\ op[t].kind \notin Exclusive
    BY DEF Begin, Clears
  <1>2. /\ o \in Operations /\ o.kind = k /\ o.to = to /\ o.st = "granted" /\ o.hit = None
        /\ ~o.emptied
    BY DEF Operations, MaybePlace
  <1>3. Settled(o)
    BY <1>1, <1>2 DEF Settled, MaybePlace
  <1>4. StillTrue(o, real, Lands, FileThere) /\ OnTarget(o)
    BY <1>2 DEF StillTrue, OnTarget
  <1> HIDE DEF o
  <1>5. /\ op \in [Slots -> Operations \cup {Idle}] /\ op' \in [Slots -> Operations \cup {Idle}]
        /\ op'[s] = o /\ \A t \in Slots : t # s => op'[t] = op[t]
    BY <1>1, <1>2 DEF IInv, TypeOK
  <1>6. TypeOK'
    BY <1>1, <1>5 DEF IInv, TypeOK, MaybePlace
  <1>7. Alone'
    <2> SUFFICES ASSUME NEW t \in Slots, op'[t] # Idle, op'[t].kind \in Exclusive
                 PROVE  /\ \A u \in Slots : u # t => op'[u] = Idle
                        /\ op'[t].kind \in OnDir => cache' = None
      BY DEF Alone
    <2>1. t = s /\ k \in Exclusive
      BY <1>1, <1>2, <1>5
    <2> QED BY <1>1, <1>5, <2>1
  <1>8. Deciding'
    BY <1>3, <1>5 DEF IInv, Deciding
  <1>9. Undisturbed'
    <2>1. Lands' = Lands /\ FileThere' = FileThere
      BY <1>1 DEF Lands, FileThere
    <2>2. ASSUME NEW t \in Slots, op'[t] # Idle, races = 0
          PROVE  (op'[t].hit = None => StillTrue(op'[t], real, Lands, FileThere)) /\ OnTarget(op'[t])
      BY <1>4, <1>5, <2>2 DEF IInv, Undisturbed
    <2>3. races = 0 => cache' \in {None, real}
      BY <1>1 DEF IInv, Undisturbed
    <2> QED BY <1>1, <2>1, <2>2, <2>3 DEF Undisturbed
  <1> QED BY <1>6, <1>7, <1>8, <1>9 DEF IInv
\* cachedRealpath: while nobody else moves the name, a cached path is the real one.
LEMMA CheckDirectoryKeeps ==
  ASSUME IInv, NEW s \in Slots, CheckDirectory(s)
  PROVE  IInv'
  <1> DEFINE holder == IF op[s].kind \in OnDir THEN Home ELSE CachedRealpath
             o == [op[s] EXCEPT !.st = "parent", !.parent = holder]
  <1>1. /\ op[s] # Idle /\ op[s].st = "granted" /\ op' = [op EXCEPT ![s] = o]
        /\ cache' = IF op[s].kind \in OnDir THEN cache ELSE CachedRealpath
        /\ UNCHANGED <<real, leaf, races>>
    BY DEF CheckDirectory
  <1>2. op[s] \in Operations /\ Settled(op[s]) /\ holder \in MaybePlace
    BY <1>1, PathConstants DEF IInv, TypeOK, Deciding, CachedRealpath, MaybePlace
  <1>3. /\ o \in Operations /\ o.st = "parent" /\ o.parent = holder
        /\ o.kind = op[s].kind /\ o.to = op[s].to /\ o.hit = op[s].hit /\ o.emptied = op[s].emptied
    BY <1>2 DEF Operations, MaybePlace
  <1>4. o.hit = None /\ ~o.emptied
    BY <1>1, <1>2, <1>3 DEF Settled
  <1>5. Settled(o)
    BY <1>2, <1>3, <1>4 DEF Settled
  <1>6. races = 0 => StillTrue(o, real', Lands', FileThere')
    BY <1>1, <1>3 DEF StillTrue, IInv, Undisturbed, CachedRealpath
  <1>7. OnTarget(o)
    BY <1>4 DEF OnTarget
  <1>8. real' \in MaybePlace /\ leaf' \in [Places -> Leaves]
    BY <1>1 DEF IInv, TypeOK
  <1> HIDE DEF o
  <1> QED BY <1>1, <1>3, <1>5, <1>6, <1>7, <1>8, Advances

\* checkHost: what the check leaves of the operation, and where it places it.
LEMMA LeafCheckFacts ==
  ASSUME IInv, NEW s \in Slots, op[s] # Idle, op[s].st = "parent"
  PROVE  LET c == LeafCheck(op[s])
         IN  /\ c \in Operations /\ c.kind = op[s].kind /\ c.to = op[s].to /\ c.st = "parent"
             /\ c.hit = None /\ ~c.emptied /\ (c.ident # "null" => c.loc \in Places)
             /\ c.kind \in OnDir => c.parent = Home
             /\ races = 0 => StillTrue([c EXCEPT !.st = "checked"], real, Lands, FileThere)
  <1> DEFINE o == op[s]
             c == LeafCheck(op[s])
             p == op[s].parent
             at(l, i) == Found(o, l, i)
             via == [at(CachedRealpath, "parent") EXCEPT !.parent = CachedRealpath]
  <1>1. /\ o \in Operations /\ o.st = "parent" /\ o.hit = None /\ ~o.emptied /\ p \in MaybePlace
        /\ o.kind \in OnDir => p = Home
        /\ races = 0 => p = (IF o.kind \in OnDir THEN Home ELSE real) /\ cache \in {None, real}
    BY DEF IInv, TypeOK, Deciding, Settled, Undisturbed, StillTrue, Operations
  <1>2. /\ Lands \in MaybePlace /\ (FileThere => Lands \in Places) /\ CachedRealpath \in MaybePlace
        /\ Home \in Places /\ Home # None
    BY LandsType, PathConstants DEF IInv, TypeOK, FileThere, CachedRealpath
  <1>3. ASSUME NEW l \in MaybePlace, NEW i \in {"null", "name", "parent", "inode"}
        PROVE  LET d == [at(l, i) EXCEPT !.st = "checked"]
               IN  /\ at(l, i) \in Operations /\ at(l, i).kind = o.kind /\ at(l, i).to = o.to
                   /\ at(l, i).st = "parent" /\ at(l, i).parent = p /\ at(l, i).hit = None
                   /\ ~at(l, i).emptied /\ at(l, i).loc = l /\ at(l, i).ident = i
                   /\ d.kind = o.kind /\ d.st = "checked" /\ d.parent = p /\ d.loc = l /\ d.ident = i
    BY <1>1, <1>3 DEF Operations, Found
  <1>4. LET d == [via EXCEPT !.st = "checked"]
        IN  /\ via \in Operations /\ via.kind = o.kind /\ via.to = o.to
            /\ via.st = "parent" /\ via.parent = CachedRealpath /\ via.hit = None
            /\ ~via.emptied /\ via.loc = CachedRealpath /\ via.ident = "parent"
            /\ d.kind = o.kind /\ d.st = "checked" /\ d.parent = CachedRealpath
            /\ d.loc = CachedRealpath /\ d.ident = "parent"
    BY <1>1, <1>2 DEF Operations, Found
  <1>5. CASE o.kind \notin Following
    <2>1. c = IF p = None THEN at(None, "null") ELSE at(p, "name")
      BY <1>5 DEF LeafCheck
    <2>2. None \in MaybePlace
      BY DEF MaybePlace
    <2> HIDE DEF at, c, o, p
    <2>3. CASE p = None
      <3>1. o.kind \notin OnDir
        BY <1>1, <1>2, <2>3
      <3> QED BY <1>1, <1>3, <1>5, <2>1, <2>2, <2>3, <3>1 DEF StillTrue, c, o
    <2>4. CASE p # None
      BY <1>1, <1>3, <1>5, <2>1, <2>4 DEF StillTrue, MaybePlace, c, o
    <2> QED BY <2>3, <2>4
  <1>6. CASE o.kind \in Following
    <2>1. o.kind \notin OnDir
      BY <1>6 DEF Following, Opening, OnDir
    <2>2. CASE p # None /\ leaf[p].kind = "missing"
      <3>1. c = at(p, "parent")
        BY <1>6, <2>2 DEF LeafCheck
      <3>2. races = 0 => ~FileThere
        BY <1>1, <2>1, <2>2 DEF FileThere, Lands
      <3> HIDE DEF at, c, o, p
      <3> QED BY <1>1, <1>3, <1>6, <2>1, <2>2, <3>1, <3>2 DEF StillTrue, MaybePlace, c, o
    <2>3. CASE p # None /\ leaf[p].kind = "file"
      <3>1. c = at(p, "inode")
        BY <1>6, <2>3 DEF LeafCheck
      <3>2. races = 0 => p = Lands
        BY <1>1, <2>1, <2>3 DEF Lands
      <3> HIDE DEF at, c, o, p
      <3> QED BY <1>1, <1>3, <1>6, <2>1, <2>3, <3>1, <3>2 DEF StillTrue, MaybePlace, c, o
    <2>4. CASE ~(p # None /\ leaf[p].kind \in {"missing", "file"})
      <3>1. c = IF FileThere THEN at(Lands, "inode")
                ELSE IF CachedRealpath = None THEN at(None, "null") ELSE via
        BY <1>6, <2>4 DEF LeafCheck, ViaParent
      <3>2. None \in MaybePlace
        BY DEF MaybePlace
      <3>3. races = 0 => CachedRealpath = real
        BY <1>1 DEF CachedRealpath
      <3> HIDE DEF at, c, o, p, via
      <3>4. CASE FileThere
        BY <1>1, <1>2, <1>3, <1>6, <2>1, <3>1, <3>4 DEF StillTrue, c, o
      <3>5. CASE ~FileThere /\ CachedRealpath = None
        BY <1>1, <1>2, <1>3, <1>6, <2>1, <3>1, <3>2, <3>3, <3>5 DEF StillTrue, c, o
      <3>6. CASE ~FileThere /\ CachedRealpath # None
        BY <1>1, <1>2, <1>4, <1>6, <2>1, <3>1, <3>3, <3>6 DEF StillTrue, MaybePlace, c, o
      <3> QED BY <3>4, <3>5, <3>6
    <2> QED BY <2>2, <2>3, <2>4
  <1> QED BY <1>5, <1>6

\* place: an operation goes on only with a root that allows it.
LEMMA CheckLeafKeeps ==
  ASSUME IInv, NEW s \in Slots, CheckLeaf(s)
  PROVE  IInv'
  <1> DEFINE c == LeafCheck(op[s])
             r == IF c.ident = "null" THEN NamedRoot ELSE RootForReal(c.loc)
             o == [c EXCEPT !.root = r, !.st = "checked"]
  <1>1. /\ op[s] # Idle /\ op[s].st = "parent" /\ op' = [op EXCEPT ![s] = Decided(c)]
        /\ UNCHANGED <<real, leaf, cache, races>>
    BY DEF CheckLeaf
  <1>2. /\ c \in Operations /\ c.kind = op[s].kind /\ c.to = op[s].to /\ c.st = "parent"
        /\ c.hit = None /\ ~c.emptied /\ (c.ident # "null" => c.loc \in Places)
        /\ c.kind \in OnDir => c.parent = Home
        /\ races = 0 => StillTrue([c EXCEPT !.st = "checked"], real, Lands, FileThere)
    BY <1>1, LeafCheckFacts
  <1>3. Settled(op[s])
    BY <1>1 DEF IInv, Deciding
  <1>4. Decided(c) = Idle \/ (Decided(c) = o /\ r # None /\ (c.kind \in Writes => r.writable))
    BY DEF Decided
  <1> HIDE DEF c
  <1>5. CASE Decided(c) = Idle
    BY <1>1, <1>5, Ends DEF End
  <1>6. CASE Decided(c) = o /\ r # None /\ (c.kind \in Writes => r.writable)
    <2>1. r \in Roots
      BY <1>2, <1>6, RootFacts, NamedFacts
    <2>2. /\ o \in Operations /\ o.st = "checked" /\ o.root = r /\ o.kind = c.kind /\ o.to = c.to
          /\ o.parent = c.parent /\ o.loc = c.loc /\ o.ident = c.ident /\ o.hit = None /\ ~o.emptied
      BY <1>2, <2>1 DEF Operations
    <2> DEFINE d == [c EXCEPT !.st = "checked"]
    <2>3. d.kind = c.kind /\ d.st = "checked" /\ d.parent = c.parent /\ d.loc = c.loc /\ d.ident = c.ident
      BY <1>2 DEF Operations
    <2> HIDE DEF o, d
    <2>4. Settled(o)
      BY <1>1, <1>2, <1>3, <1>6, <2>2 DEF Settled
    <2>5. races = 0 => StillTrue(o, real', Lands', FileThere')
      <3>1. real' = real /\ Lands' = Lands /\ FileThere' = FileThere
        BY <1>1 DEF Lands, FileThere
      <3>2. races = 0 => StillTrue(d, real, Lands, FileThere)
        BY <1>2 DEF d
      <3>3. races = 0 => StillTrue(o, real, Lands, FileThere)
        BY <2>2, <2>3, <3>2 DEF StillTrue
      <3> QED BY <3>1, <3>3
    <2>6. OnTarget(o)
      BY <2>2 DEF OnTarget
    <2>7. real' \in MaybePlace /\ leaf' \in [Places -> Leaves]
      BY <1>1 DEF IInv, TypeOK
    <2> QED BY <1>1, <1>2, <1>6, <2>2, <2>4, <2>5, <2>6, <2>7, Advances
  <1> QED BY <1>4, <1>5, <1>6

\* stat only looks, and a finished operation gives its lock back.
LEMMA EndingKeeps ==
  ASSUME IInv, NEW s \in Slots, RunStat(s) \/ Released(s)
  PROVE  IInv'
  BY Ends DEF RunStat, Released

\* The host opens what is there; only a create, which is alone, makes a file.  A
\* truncate by path changes what is there and leaves the names alone.
LEMMA HostOpenKeeps ==
  ASSUME IInv, NEW s \in Slots, HostOpen(s) \/ RunTruncate(s)
  PROVE  IInv'
  <1> DEFINE o == [op[s] EXCEPT !.st = "opened", !.hit = Lands]
             u == [op[s] EXCEPT !.st = "acted", !.hit = Lands, !.emptied = TRUE]
  <1>1. /\ op[s] # Idle /\ op[s].st = "checked" /\ op[s].kind \in Opening \cup {"truncate"}
        /\ UNCHANGED <<real, cache, races>>
        /\ \/ End(s) /\ leaf' = leaf
           \/ /\ FileThere \/ op[s].kind = "create"
              /\ Lands # None /\ op[s].kind \in Opening
              /\ op' = [op EXCEPT ![s] = o] /\ leaf' = [leaf EXCEPT ![Lands] = File]
           \/ FileThere /\ op[s].kind = "truncate" /\ op' = [op EXCEPT ![s] = u] /\ leaf' = leaf
    BY DEF HostOpen, RunTruncate, FileThere
  <1>2. /\ op[s] \in Operations /\ Settled(op[s]) /\ op[s].hit = None /\ ~op[s].emptied
        /\ op[s].kind \in Following
        /\ races = 0 => StillTrue(op[s], real, Lands, FileThere)
    BY <1>1 DEF IInv, TypeOK, Deciding, Undisturbed, Settled, Following, Opening
  <1>3. /\ Lands # None => Lands \in Places /\ leaf[Lands] \in Leaves /\ real # None
        /\ leaf \in [Places -> Leaves] /\ real' \in MaybePlace
    BY <1>1, LandsType DEF IInv, TypeOK
  <1>4. CASE End(s) /\ leaf' = leaf
    BY <1>1, <1>4, Ends
  <1>5. CASE /\ FileThere \/ op[s].kind = "create"
             /\ Lands # None /\ op[s].kind \in Opening
             /\ op' = [op EXCEPT ![s] = o] /\ leaf' = [leaf EXCEPT ![Lands] = File]
    <2>1. leaf' \in [Places -> Leaves]
      BY <1>3, <1>5 DEF Leaves
    <2>2. op[s].kind \notin Exclusive => leaf' = leaf
      <3>1. op[s].kind \notin Exclusive => leaf[Lands] = File
        BY <1>3, <1>5, RecordFacts DEF Exclusive, FileThere
      <3> QED BY <1>3, <1>5, <3>1
    <2>3. /\ o \in Operations /\ o.st = "opened" /\ o.hit = Lands /\ o.kind = op[s].kind /\ o.to = op[s].to
          /\ o.parent = op[s].parent /\ o.loc = op[s].loc /\ o.ident = op[s].ident
          /\ o.root = op[s].root /\ o.emptied = op[s].emptied
      BY <1>2, <1>3, <1>5 DEF Operations, MaybePlace
    <2> HIDE DEF o
    <2>4. Settled(o)
      BY <1>1, <1>2, <1>3, <1>5, <2>3 DEF Settled
    <2>5. races = 0 => OnTarget(o)
      BY <1>1, <1>2, <1>3, <1>5, <2>3 DEF OnTarget, StillTrue, Opening
    <2> QED BY <1>1, <1>3, <1>5, <2>1, <2>2, <2>3, <2>4, <2>5, Advances
  <1>6. CASE FileThere /\ op[s].kind = "truncate" /\ op' = [op EXCEPT ![s] = u] /\ leaf' = leaf
    <2>1. Lands # None
      BY <1>6 DEF FileThere
    <2>2. /\ u \in Operations /\ u.st = "acted" /\ u.hit = Lands /\ u.kind = op[s].kind /\ u.to = op[s].to
          /\ u.parent = op[s].parent /\ u.loc = op[s].loc /\ u.ident = op[s].ident
          /\ u.root = op[s].root /\ u.emptied
      BY <1>2, <1>3, <2>1 DEF Operations, MaybePlace
    <2> HIDE DEF u
    <2>3. Settled(u)
      BY <1>1, <1>2, <1>3, <1>6, <2>1, <2>2 DEF Settled
    <2>4. races = 0 => OnTarget(u)
      BY <1>1, <1>2, <1>3, <1>6, <2>1, <2>2 DEF OnTarget, StillTrue
    <2> QED BY <1>1, <1>3, <1>6, <2>1, <2>2, <2>3, <2>4, Advances
  <1> QED BY <1>1, <1>4, <1>5, <1>6

\* verifyOpened and what open does after it touch nothing but the operation.
LEMMA VerifyKeeps ==
  ASSUME IInv, NEW s \in Slots, VerifyOpened(s) \/ OpenReturns(s)
  PROVE  IInv'
  <1> DEFINE v == [op[s] EXCEPT !.st = "verified"]
             h == [op[s] EXCEPT !.st = "handed", !.emptied = (op[s].kind = "create")]
  <1>1. /\ op[s] # Idle /\ op[s].st \in {"opened", "verified"} /\ UNCHANGED <<real, leaf, cache, races>>
        /\ \/ End(s)
           \/ op[s].st = "opened" /\ Verified(op[s]) /\ op' = [op EXCEPT ![s] = v]
           \/ op[s].st = "verified" /\ op' = [op EXCEPT ![s] = h]
    BY DEF VerifyOpened, OpenReturns
  <1>2. /\ op[s] \in Operations /\ Settled(op[s]) /\ op[s].hit \in Places /\ op[s].hit # None
        /\ races = 0 => OnTarget(op[s])
        /\ real' \in MaybePlace /\ leaf' \in [Places -> Leaves]
    BY <1>1, PathConstants DEF IInv, TypeOK, Deciding, Undisturbed, Settled
  <1>3. CASE End(s)
    BY <1>1, <1>3, Ends
  <1>4. CASE op[s].st = "opened" /\ Verified(op[s]) /\ op' = [op EXCEPT ![s] = v]
    <2>1. /\ v \in Operations /\ v.st = "verified" /\ v.hit = op[s].hit /\ v.kind = op[s].kind
          /\ v.to = op[s].to /\ v.parent = op[s].parent /\ v.loc = op[s].loc /\ v.ident = op[s].ident
          /\ v.root = op[s].root /\ v.emptied = op[s].emptied
      BY <1>2 DEF Operations
    <2> HIDE DEF v
    <2>2. Recognised(op[s]) => InDecidedRoot(op[s])
      BY <1>2, <1>4 DEF Verified, Recognised, SameObject, InDecidedRoot, Settled
    <2>3. Settled(v)
      BY <1>2, <1>4, <2>1, <2>2 DEF Settled, InDecidedRoot, Recognised
    <2>4. races = 0 => OnTarget(v)
      BY <1>2, <2>1 DEF OnTarget
    <2> QED BY <1>1, <1>2, <1>4, <2>1, <2>3, <2>4, Advances
  <1>5. CASE op[s].st = "verified" /\ op' = [op EXCEPT ![s] = h]
    <2>1. /\ h \in Operations /\ h.st = "handed" /\ h.hit = op[s].hit /\ h.kind = op[s].kind
          /\ h.to = op[s].to /\ h.parent = op[s].parent /\ h.loc = op[s].loc /\ h.ident = op[s].ident
          /\ h.root = op[s].root /\ (h.emptied => op[s].kind = "create")
      BY <1>2 DEF Operations
    <2> HIDE DEF h
    <2>2. Settled(h)
      BY <1>2, <1>5, <2>1 DEF Settled, InDecidedRoot, Recognised
    <2>3. races = 0 => OnTarget(h)
      BY <1>2, <2>1 DEF OnTarget
    <2> QED BY <1>1, <1>2, <1>5, <2>1, <2>2, <2>3, Advances
  <1> QED BY <1>1, <1>3, <1>4, <1>5

\* Operations on a name act on the directory they were checked in, which an
\* exclusive operation keeps to itself.
LEMMA ActingKeeps ==
  ASSUME IInv, NEW s \in Slots, RunUnlink(s) \/ RunSymlink(s) \/ RunOnDir(s)
  PROVE  IInv'
  <1>0. /\ op[s] # Idle /\ op[s].st = "checked" /\ op[s].kind \in {"unlink", "symlink"} \cup OnDir
        /\ UNCHANGED <<cache, races>>
    BY DEF RunUnlink, RunSymlink, RunOnDir
  <1>1. /\ op[s] \in Operations /\ Settled(op[s]) /\ op[s].hit = None /\ op[s].kind \in Exclusive
        /\ ~op[s].emptied /\ op[s].kind \notin Following
        /\ races = 0 => StillTrue(op[s], real, Lands, FileThere)
        /\ Home \in Places /\ real \in MaybePlace /\ leaf \in [Places -> Leaves] /\ Gone \in Leaves
    BY <1>0, PathConstants DEF IInv, TypeOK, Deciding, Undisturbed, Settled, Exclusive, Following, Opening, OnDir, Leaves
  <1>2. ASSUME NEW on \in Places, op' = [op EXCEPT ![s].st = "acted", ![s].hit = on],
               real' \in MaybePlace, leaf' \in [Places -> Leaves],
               real' = real \/ op[s].kind \in OnDir,
               on = IF op[s].kind \in OnDir THEN Home ELSE real
        PROVE  IInv'
    <2> DEFINE o == [op[s] EXCEPT !.st = "acted", !.hit = on]
    <2>1. op' = [op EXCEPT ![s] = o]
      BY <1>2
    <2>2. /\ o \in Operations /\ o.st = "acted" /\ o.hit = on /\ o.kind = op[s].kind /\ o.to = op[s].to
          /\ o.parent = op[s].parent /\ o.loc = op[s].loc /\ o.ident = op[s].ident
          /\ o.root = op[s].root /\ o.emptied = op[s].emptied
      BY <1>1, <1>2 DEF Operations, MaybePlace
    <2>3. on # None
      BY <1>2, PathConstants
    <2> HIDE DEF o
    <2>4. Settled(o)
      BY <1>0, <1>1, <1>2, <2>2 DEF Settled
    <2>5. races = 0 => OnTarget(o)
      BY <1>0, <1>1, <1>2, <2>2, <2>3 DEF OnTarget, StillTrue, OnDir
    <2> QED BY <1>0, <1>1, <1>2, <2>1, <2>2, <2>3, <2>4, <2>5, Advances
  <1>3. CASE RunUnlink(s)
    <2>1. op[s].kind \notin OnDir
      BY <1>3 DEF RunUnlink, OnDir
    <2>2. CASE real = None
      BY <1>0, <1>3, <2>2, Ends DEF RunUnlink
    <2>3. CASE real # None
      <3>1. /\ real \in Places /\ op' = [op EXCEPT ![s].st = "acted", ![s].hit = real]
            /\ leaf' = [leaf EXCEPT ![real] = Gone] /\ real' = real
        BY <1>1, <1>3, <2>3 DEF RunUnlink, MaybePlace
      <3>2. leaf' \in [Places -> Leaves]
        BY <1>1, <3>1
      <3> QED BY <1>1, <1>2, <2>1, <3>1, <3>2
    <2> QED BY <2>2, <2>3
  <1>4. CASE RunSymlink(s)
    <2>1. op[s].kind \notin OnDir /\ op[s].to \in Places
      BY <1>1, <1>4 DEF RunSymlink, OnDir, Settled
    <2>2. CASE ~SymlinkAllowed(op[s]) \/ real = None
      BY <1>0, <1>4, <2>2, Ends DEF RunSymlink
    <2>3. CASE SymlinkAllowed(op[s]) /\ real # None
      <3>1. /\ real \in Places /\ op' = [op EXCEPT ![s].st = "acted", ![s].hit = real] /\ real' = real
            /\ \E lead \in Leads(op[s]) :
                 leaf' = IF leaf[real] = Gone /\ lead # real THEN [leaf EXCEPT ![real] = LinkTo(lead)] ELSE leaf
        BY <1>1, <1>4, <2>3 DEF RunSymlink, MaybePlace
      <3>2. \A lead \in Leads(op[s]) : LinkTo(lead) \in Leaves
        BY <2>1 DEF Leads, Leaves
      <3>3. leaf' \in [Places -> Leaves]
        BY <1>1, <3>1, <3>2
      <3> QED BY <1>1, <1>2, <2>1, <3>1, <3>3
    <2> QED BY <2>2, <2>3
  <1>5. CASE RunOnDir(s)
    <2>1. /\ op[s].kind \in OnDir /\ op' = [op EXCEPT ![s].st = "acted", ![s].hit = Home]
          /\ real' = DirAfter(op[s])
          /\ leaf' = IF op[s].kind = "mkdir" /\ real = None THEN [leaf EXCEPT ![Home] = Gone] ELSE leaf
      BY <1>5 DEF RunOnDir
    <2>2. real' \in MaybePlace
      BY <1>1, <2>1 DEF DirAfter, MaybePlace, OnDir, Settled
    <2>3. leaf' \in [Places -> Leaves]
      BY <1>1, <2>1
    <2> QED BY <1>1, <1>2, <2>1, <2>2, <2>3
  <1> QED BY <1>3, <1>4, <1>5

\* Others change the names: from then on only what was decided is relied on.
LEMMA OthersKeep ==
  ASSUME IInv, CacheExpires \/ Interfere
  PROVE  IInv'
  <1>1. CASE CacheExpires
    <2>1. cache' = None /\ UNCHANGED <<real, leaf, op, races>>
      BY <1>1 DEF CacheExpires
    <2>2. Lands' = Lands /\ FileThere' = FileThere
      BY <2>1 DEF Lands, FileThere
    <2> QED BY <2>1, <2>2 DEF IInv, TypeOK, MaybePlace, Alone, Deciding, Undisturbed
  <1>2. CASE Interfere
    <2>1. races' \in 1 .. MaxRaces /\ UNCHANGED <<cache, op>>
      BY <1>2, PathConstants DEF Interfere, IInv, TypeOK
    <2>2. real' \in MaybePlace
      BY <1>2 DEF Interfere, IInv, TypeOK, MaybePlace
    <2>3. leaf' \in [Places -> Leaves]
      BY <1>2 DEF Interfere, IInv, TypeOK, Leaves
    <2> QED BY <2>1, <2>2, <2>3 DEF IInv, TypeOK, Alone, Deciding, Undisturbed
  <1> QED BY <1>1, <1>2

\* Before the first operation nothing is claimed.
LEMMA InitHolds ==
  ASSUME Init
  PROVE  IInv
  <1>1. \A s \in Slots : op[s] = Idle
    BY DEF Init
  <1>2. TypeOK
    BY PathConstants DEF Init, TypeOK, MaybePlace, Leaves
  <1>3. Alone /\ Deciding
    BY <1>1 DEF Alone, Deciding
  <1>4. Undisturbed
    BY <1>1 DEF Init, Undisturbed
  <1> QED BY <1>2, <1>3, <1>4 DEF IInv

\* Every step keeps the invariant.
LEMMA StepKeeps ==
  ASSUME IInv, [Next]_vars
  PROVE  IInv'
  <1>1. CASE Next
    <2>1. ASSUME NEW s \in Slots, NEW k \in Following \cup {"unlink", "mkdir", "rmdir"}, Begin(s, k, None)
          PROVE  IInv'
      BY <2>1, BeginKeeps DEF Exclusive, OnDir, MaybePlace
    <2>2. ASSUME NEW s \in Slots, NEW k \in {"relink", "symlink"}, NEW to \in Places, Begin(s, k, to)
          PROVE  IInv'
      BY <2>2, BeginKeeps DEF Exclusive, OnDir, MaybePlace
    <2>3. ASSUME NEW s \in Slots, CheckDirectory(s) PROVE IInv'
      BY <2>3, CheckDirectoryKeeps
    <2>4. ASSUME NEW s \in Slots, CheckLeaf(s) PROVE IInv'
      BY <2>4, CheckLeafKeeps
    <2>5. ASSUME NEW s \in Slots, RunStat(s) \/ Released(s) PROVE IInv'
      BY <2>5, EndingKeeps
    <2>6. ASSUME NEW s \in Slots, HostOpen(s) \/ RunTruncate(s) PROVE IInv'
      BY <2>6, HostOpenKeeps
    <2>7. ASSUME NEW s \in Slots, VerifyOpened(s) \/ OpenReturns(s) PROVE IInv'
      BY <2>7, VerifyKeeps
    <2>8. ASSUME NEW s \in Slots, RunUnlink(s) \/ RunSymlink(s) \/ RunOnDir(s) PROVE IInv'
      BY <2>8, ActingKeeps
    <2>9. ASSUME CacheExpires \/ Interfere PROVE IInv'
      BY <2>9, OthersKeep
    <2> QED BY <1>1, <2>1, <2>2, <2>3, <2>4, <2>5, <2>6, <2>7, <2>8, <2>9 DEF Next
  <1>2. CASE UNCHANGED vars
    <2>1. UNCHANGED <<real, leaf, cache, op, races>>
      BY <1>2 DEF vars
    <2>2. Lands' = Lands /\ FileThere' = FileThere
      BY <2>1 DEF Lands, FileThere
    <2> QED BY <2>1, <2>2 DEF IInv, TypeOK, Alone, Deciding, Undisturbed
  <1> QED BY <1>1, <1>2

(***************************************************************************)
(* Theorems.                                                               *)
(***************************************************************************)

\* The inductive invariant holds of every behaviour.
THEOREM Invariance == Spec => []IInv
  BY InitHolds, StepKeeps, PTL DEF Spec

\* Every variable keeps its type.
THEOREM TypeCorrect == Spec => []TypeOK
  <1>1. IInv => TypeOK
    BY DEF IInv
  <1> QED BY <1>1, Invariance, PTL

\* What a module is handed, empties and acts on is what its roots allow, whatever
\* others do to the names between place and verifyOpened (open, rwlock.js), as far
\* as checkHost could say what it would be (Recognised).
THEOREM InsideRoots == Spec => []StaysInside
  <1>1. ASSUME IInv PROVE StaysInside
    <2>1. ASSUME NEW s \in Slots, op[s] # Idle
          PROVE  op[s] \in Operations /\ Settled(op[s]) /\ (races = 0 => OnTarget(op[s]))
      BY <1>1, <2>1 DEF IInv, TypeOK, Deciding, Undisturbed
    <2>2. HandedInside
      <3> SUFFICES ASSUME NEW s \in Slots, op[s] # Idle, op[s].st = "handed", Recognised(op[s])
                   PROVE  Allowed(op[s])
        BY DEF HandedInside
      <3> QED BY <2>1 DEF Settled, InDecidedRoot, Writable, Allowed
    <2>3. EmptiesInside
      <3> SUFFICES ASSUME NEW s \in Slots, op[s] # Idle, op[s].emptied,
                          IF op[s].kind = "truncate" THEN races = 0 ELSE Recognised(op[s])
                   PROVE  Writable(op[s].hit)
        BY DEF EmptiesInside
      <3>1. CASE op[s].kind = "truncate"
        <4>1. op[s].st = "acted" /\ op[s].hit \in Places /\ op[s].hit # None
          BY <2>1, <3>1, PathConstants DEF Settled
        <4>2. op[s].hit = op[s].loc /\ op[s].ident # "null"
          BY <2>1, <3>1, <4>1 DEF OnTarget
        <4>3. op[s].kind \in Writes
          BY <3>1 DEF Writes, Exclusive
        <4> QED BY <2>1, <4>1, <4>2, <4>3 DEF Settled, Writable
      <3>2. CASE op[s].kind # "truncate"
        <4>1. op[s].st = "handed" /\ op[s].kind \in Writes
          BY <2>1, <3>2 DEF Settled, Writes, Exclusive
        <4> QED BY <2>1, <3>2, <4>1 DEF Settled, InDecidedRoot, Writable
      <3> QED BY <3>1, <3>2
    <2>4. NoSelfRace
      BY <2>1 DEF OnTarget, NoSelfRace
    <2> QED BY <2>2, <2>3, <2>4 DEF StaysInside
  <1> QED BY <1>1, Invariance, PTL

\* Countinghouse's own paths: a recognised descriptor of a file in a protected path
\* lies in one of the roots every module has (/app, /data, /tmp), for a write in a
\* writable one: nothing a module declares opens a protected path, though these
\* are looked at only once, in prepare.
ProtectedKept ==
  \A s \in Slots : op[s] # Idle /\ op[s].st = "handed" /\ Recognised(op[s]) =>
    \A q \in Protected : Inside(op[s].hit, q) =>
      \E r \in Base : Inside(op[s].hit, r.real) /\ (op[s].kind \in Writes => r.writable)

\* No declared root leads into a protected path (prepare, rootForReal and
\* verifyOpened together).
THEOREM ProtectedStays == Spec => []ProtectedKept
  <1>1. ASSUME IInv PROVE ProtectedKept
    <2> SUFFICES ASSUME NEW s \in Slots, op[s] # Idle, op[s].st = "handed", Recognised(op[s]),
                        NEW q \in Protected, Inside(op[s].hit, q)
                 PROVE  \E r \in Base : Inside(op[s].hit, r.real) /\ (op[s].kind \in Writes => r.writable)
      BY DEF ProtectedKept
    <2> DEFINE p == op[s].hit
               r == RootForReal(p)
    <2>1. p \in Places /\ r # None /\ (op[s].kind \in Writes => r.writable)
      BY <1>1 DEF IInv, Deciding, Settled, InDecidedRoot
    <2> HIDE DEF r
    <2>2. r \in Roots /\ Inside(p, r.real)
      BY <2>1, RootFacts DEF r
    <2>3. r \in Base
      BY <2>1, <2>2, RootsClear DEF Roots
    <2> QED BY <2>1, <2>2, <2>3
  <1> QED BY <1>1, Invariance, PTL

-----------------------------------------------------------------------------
(* FileBridge.  BridgeInv is the inductive invariant. *)

\* What a call says it waits for is there; a descriptor was opened by the same
\* worker and its open is over, as is whatever was answered "ok".
Replies ==
  /\ \A w \in Workers : client[w].pc \in {"load", "drain", "check", "asleep"} => client[w].cur \in Calls
  /\ \A c \in Calls :
       /\ call[c].op \in FdOps <=> call[c].fd # NoCall
       /\ call[c].fd # NoCall => By[call[c].fd] = By[c] /\ call[call[c].fd].st = "over"
       /\ call[c].st \in {"new", "sent"} => call[c].res = "none"
       /\ call[c].res = "ok" => call[c].st = "over"
       /\ got[c] # <<>> => got[c][1] = c /\ (got[c][2] = "ok" => call[c].st = "over")
  /\ \A w \in Workers : \A i \in DOMAIN port[w] :
       port[w][i][2] = "ok" => call[port[w][i][1]].st = "over"

\* The bridge's counters count the accepted calls, those past their deadline and
\* the blocking ones before it.
InWork(w) == {c \in Of(w) : call[c].st \in Accepted}
Late(w) == {c \in InWork(w) : call[c].res # "none"}
Blocking(w) == {c \in InWork(w) : call[c].res = "none" /\ call[c].sync}
Counted ==
  \A w \in Workers :
    /\ bridge[w].inFlight = Cardinality(InWork(w)) /\ bridge[w].stuck = Cardinality(Late(w))
    /\ bridge[w].syncIn = Cardinality(Blocking(w))

\* Lock l, with the calls W waiting for it or about to go on, the calls K past it,
\* and the operations o.
Grantees(l, K) == K \cup Elems(l.granted)
LockFits(l, W, K, o) ==
  /\ l \in LockStates /\ Once(l.queue) /\ Once(l.granted)
  /\ Elems(l.queue) \cap Elems(l.granted) = {}
  /\ W = Elems(l.queue) \cup Elems(l.granted) /\ W \cap K = {}
  /\ \A c \in W \cup K : o[c] \in PathOps
  /\ l.readers = Cardinality({c \in Grantees(l, K) : o[c] \in SharedOps})
  /\ l.writer <=> \E c \in Grantees(l, K) : o[c] \in ExclusiveOps
  /\ \A c \in Grantees(l, K) : o[c] \in ExclusiveOps => Grantees(l, K) = {c}

\* Whoever waits, waits for a holder.
Waits(l) == l.queue # <<>> => l.writer \/ l.readers > 0

Locking(w) == {c \in Of(w) : call[c].st = "locking"}
Past(w) == {c \in Of(w) : Held(c) /\ call[c].st \in {"queued", "run", "opening", "rejected"}}
OpOf == [c \in Calls |-> call[c].op]
Locked == \A w \in Workers : LockFits(lock[w], Locking(w), Past(w), OpOf) /\ Waits(lock[w])

\* Scheduler s, with the calls Q queued or about to start and the calls H on the host.
InSlots(s, H) == H \cup Elems(s.starting)
SchedFits(s, Q, H) ==
  /\ s \in SchedStates /\ Once(s.order) /\ Once(s.starting)
  /\ Q \cap H = {}
  /\ \A c \in Calls : c \in Q <=> c \in Elems(s.starting) \/ c \in Elems(s.queues[By[c]])
  /\ \A w \in Workers :
       /\ Once(s.queues[w]) /\ Elems(s.queues[w]) \subseteq Of(w)
       /\ Elems(s.queues[w]) \cap Elems(s.starting) = {}
       /\ s.queues[w] # <<>> => w \in Elems(s.order)
       /\ s.active[w] = Cardinality({c \in InSlots(s, H) : By[c] = w})
  /\ s.running = Cardinality(InSlots(s, H)) /\ s.running <= GlobalCap

\* Whoever is queued, has no slot to go to.
Pumped(s) == \A w \in Workers : s.queues[w] # <<>> => s.running = GlobalCap \/ s.active[w] >= PerWorker

Queued == {c \in Calls : call[c].st = "queued"}
Hosted == {c \in Calls : OnHost(c)}
Scheduled == SchedFits(sched, Queued, Hosted) /\ Pumped(sched)

\* A descriptor's chain has the operations on it that run, a close last; the
\* descriptor is open on the host, and in the table until its close has started.
OnFd(d) == {c \in Calls : call[c].st = "run" /\ call[c].op \in FdOps /\ call[c].fd = d}
Chained ==
  /\ \A w \in Workers : fds[w] \subseteq Of(w) \cap hostOpen
  /\ \A d \in Calls :
       /\ Once(chain[d]) /\ Elems(chain[d]) = OnFd(d)
       /\ \A i \in DOMAIN chain[d] :
            call[chain[d][i]].op = "close" => i = Len(chain[d]) /\ d \notin fds[By[d]]
       /\ chain[d] # <<>> /\ ~bridge[By[d]].closed => d \in hostOpen

BridgeInv == BridgeTypeOK /\ Replies /\ Counted /\ Locked /\ Scheduled /\ Chained

\* Induction along 0 .. n, for a set of naturals.
LEMMA UpTo ==
  ASSUME NEW n \in Nat, NEW T, 0 \in T, \A i \in 0 .. n - 1 : i \in T => i + 1 \in T
  PROVE  \A i \in 0 .. n : i \in T
  <1> DEFINE B == {i \in 0 .. n : i \notin T}
  <1> SUFFICES ASSUME B # {} PROVE FALSE
    OBVIOUS
  <1>1. PICK m \in B : \A k \in B : m <= k
    <2>1. B \subseteq Nat
      OBVIOUS
    <2> HIDE DEF B
    <2> QED BY <2>1, LeastNat
  <1>2. m \in 0 .. n /\ m \notin T
    OBVIOUS
  <1>3. m # 0 /\ m - 1 \in 0 .. n - 1 /\ m - 1 \in 0 .. n /\ (m - 1) + 1 = m
    BY <1>2
  <1>4. m - 1 \in T
    BY <1>1, <1>3
  <1> QED BY <1>2, <1>3, <1>4

\* A step function g can be followed n times from s.
Follows(f, S, s, g, n) == f \in [0 .. n -> S] /\ f[0] = s /\ \A i \in 1 .. n : f[i] = g[f[i - 1]]

\* A function of steps always can be followed.
LEMMA Iterates ==
  ASSUME NEW S, NEW s \in S, NEW g \in [S -> S], NEW n \in Nat
  PROVE  \E f : Follows(f, S, s, g, n)
  <1> DEFINE Ok(f, k) == f \in [0 .. k -> S] /\ f[0] = s /\ \A i \in 1 .. k : f[i] = g[f[i - 1]]
  <1> DEFINE T == {k \in Nat : \E f : Ok(f, k)}
  <1>1. 0 \in T
    <2>1. Ok([i \in 0 .. 0 |-> s], 0)
      OBVIOUS
    <2> QED BY <2>1
  <1>2. ASSUME NEW k \in 0 .. n - 1, k \in T PROVE k + 1 \in T
    <2>1. PICK f : Ok(f, k)
      BY <1>2
    <2> DEFINE h == [i \in 0 .. k + 1 |-> IF i <= k THEN f[i] ELSE g[f[k]]]
    <2>2. k \in Nat /\ k \in 0 .. k /\ f[k] \in S
      BY <2>1
    <2>3. h \in [0 .. k + 1 -> S] /\ h[0] = s
      BY <2>1, <2>2
    <2>4. ASSUME NEW i \in 1 .. k + 1 PROVE h[i] = g[h[i - 1]]
      <3>1. i - 1 \in 0 .. k + 1 /\ i \in 0 .. k + 1 /\ h[i - 1] = f[i - 1]
        BY <2>2
      <3>2. CASE i <= k
        BY <2>1, <2>2, <3>1, <3>2
      <3>3. CASE i = k + 1
        BY <2>2, <3>1, <3>3
      <3> QED BY <2>2, <3>2, <3>3
    <2>5. Ok(h, k + 1)
      BY <2>3, <2>4
    <2> HIDE DEF h, Ok
    <2>6. k + 1 \in Nat /\ \E f2 : Ok(f2, k + 1)
      BY <2>2, <2>5
    <2> QED BY <2>6
  <1>3. n \in T
    <2> HIDE DEF T
    <2> QED BY <1>1, <1>2, UpTo
  <1> QED BY <1>3 DEF Follows

\* A worker whose visit starts nothing.
Passed(s, w) ==
  \/ s.queues[w] = <<>>
  \/ s.active[w] >= PerWorker /\ WaitingOthers(s, w)

\* One visit, field by field.
LEMMA VisitFields ==
  ASSUME NEW s \in SchedStates, s.order # <<>>
  PROVE  LET w == Head(s.order)
             t == Visit(s) IN
         /\ w \in Workers /\ t \in SchedStates /\ t.order = Append(Tail(s.order), w)
         /\ Passed(s, w) => /\ t.queues = s.queues /\ t.active = s.active
                            /\ t.running = s.running /\ t.starting = s.starting
         /\ ~Passed(s, w) => /\ s.queues[w] # <<>> /\ Head(s.queues[w]) \in Calls
                             /\ t.queues = [s.queues EXCEPT ![w] = Tail(@)]
                             /\ t.active = [s.active EXCEPT ![w] = @ + 1]
                             /\ t.running = s.running + 1
                             /\ t.starting = Append(s.starting, Head(s.queues[w]))
  <1> DEFINE w == Head(s.order)
  <1>1. /\ s.queues \in [Workers -> Seq(Calls)] /\ s.active \in [Workers -> Nat] /\ s.running \in Nat
        /\ s.order \in Seq(Workers) /\ s.starting \in Seq(Calls)
        /\ s = [queues |-> s.queues, order |-> s.order, active |-> s.active,
                running |-> s.running, starting |-> s.starting]
    BY DEF SchedStates
  <1>2. w \in Workers /\ Tail(s.order) \in Seq(Workers)
    BY <1>1, TailFacts
  <1>3. Append(Tail(s.order), w) \in Seq(Workers)
    BY <1>2, AppendFacts
  <1> HIDE DEF w
  <1>4. CASE Passed(s, w)
    <2>1. Visit(s) = [s EXCEPT !.order = Append(Tail(@), w)]
      BY <1>4 DEF Visit, Passed, w
    <2>2. Visit(s) = [queues |-> s.queues, order |-> Append(Tail(s.order), w), active |-> s.active,
                      running |-> s.running, starting |-> s.starting]
      BY <2>1, <1>1
    <2>3. Visit(s) \in SchedStates
      BY <2>2, <1>1, <1>3 DEF SchedStates
    <2> QED BY <2>2, <2>3, <1>2, <1>4 DEF w
  <1>5. CASE ~Passed(s, w)
    <2>0. s.queues[w] # <<>>
      BY <1>5 DEF Passed
    <2>1. s.queues[w] \in Seq(Calls) /\ s.queues[w] # <<>>
      BY <1>1, <1>2, <2>0
    <2>2. Head(s.queues[w]) \in Calls /\ Tail(s.queues[w]) \in Seq(Calls)
      BY <2>1, TailFacts
    <2>3. Append(s.starting, Head(s.queues[w])) \in Seq(Calls)
      BY <2>2, <1>1, AppendFacts
    <2>4. Visit(s) = [[s EXCEPT !.order = Append(Tail(@), w)] EXCEPT
                        !.queues[w] = Tail(@), !.active[w] = @ + 1, !.running = @ + 1,
                        !.starting = Append(@, Head(s.queues[w]))]
      <3>1. ~ (s.queues[w] = <<>> \/ (s.active[w] >= PerWorker /\ WaitingOthers(s, w)))
        BY <1>5 DEF Passed
      <3> QED BY <3>1 DEF Visit, w
    <2>5. Visit(s) = [queues |-> [s.queues EXCEPT ![w] = Tail(@)], order |-> Append(Tail(s.order), w),
                      active |-> [s.active EXCEPT ![w] = @ + 1], running |-> s.running + 1,
                      starting |-> Append(s.starting, Head(s.queues[w]))]
      BY <2>4, <1>1
    <2>6. /\ [s.queues EXCEPT ![w] = Tail(@)] \in [Workers -> Seq(Calls)]
          /\ [s.active EXCEPT ![w] = @ + 1] \in [Workers -> Nat] /\ s.running + 1 \in Nat
      BY <1>1, <1>2, <2>2
    <2>7. Visit(s) \in SchedStates
      BY <2>5, <2>6, <2>3, <1>3 DEF SchedStates
    <2> QED BY <2>1, <2>2, <2>5, <2>7, <1>2, <1>5 DEF w
  <1> QED BY <1>4, <1>5 DEF w

\* What is counted is finite.
LEMMA Countable ==
  ASSUME NEW A, A \subseteq Calls
  PROVE  /\ IsFiniteSet(A) /\ Cardinality(A) \in Nat /\ (Cardinality(A) = 0 <=> A = {})
         /\ \A c : c \notin A => Cardinality(A \cup {c}) = Cardinality(A) + 1
         /\ \A c \in A : Cardinality(A \ {c}) = Cardinality(A) - 1
  <1>1. IsFiniteSet(A)
    BY BridgeConstants, FS_Subset
  <1>2. ASSUME NEW c, c \notin A PROVE Cardinality(A \cup {c}) = Cardinality(A) + 1
    BY <1>1, <1>2, FS_AddElement
  <1>3. ASSUME NEW c \in A PROVE Cardinality(A \ {c}) = Cardinality(A) - 1
    BY <1>1, FS_RemoveElement
  <1> QED BY <1>1, <1>2, <1>3, FS_CardinalityType, FS_EmptySet

\* A visit keeps the books.
LEMMA VisitFits ==
  ASSUME NEW s, NEW Q, NEW H \in SUBSET Calls, SchedFits(s, Q, H), s.order # <<>>,
         s.running < GlobalCap
  PROVE  /\ SchedFits(Visit(s), Q, H) /\ Elems(Visit(s).order) = Elems(s.order)
         /\ Len(Visit(s).order) = Len(s.order)
  <1> DEFINE w == Head(s.order)
             t == Visit(s)
  <1>1. s \in SchedStates /\ GlobalCap \in Nat
    BY BridgeConstants DEF SchedFits
  <1>2. s.order \in Seq(Workers) /\ s.queues \in [Workers -> Seq(Calls)] /\ s.starting \in Seq(Calls)
        /\ s.active \in [Workers -> Nat] /\ s.running \in Nat
    BY <1>1 DEF SchedStates
  <1>3. /\ w \in Workers /\ t \in SchedStates /\ t.order = Append(Tail(s.order), w)
        /\ Passed(s, w) => /\ t.queues = s.queues /\ t.active = s.active
                           /\ t.running = s.running /\ t.starting = s.starting
        /\ ~Passed(s, w) => /\ s.queues[w] # <<>> /\ Head(s.queues[w]) \in Calls
                            /\ t.queues = [s.queues EXCEPT ![w] = Tail(@)]
                            /\ t.active = [s.active EXCEPT ![w] = @ + 1]
                            /\ t.running = s.running + 1
                            /\ t.starting = Append(s.starting, Head(s.queues[w]))
    BY <1>1, VisitFields
  <1>4. Once(t.order) /\ Elems(t.order) = Elems(s.order) /\ Len(t.order) = Len(s.order)
    <2>1. Once(s.order)
      BY DEF SchedFits
    <2>2. /\ Tail(s.order) \in Seq(Workers) /\ Once(Tail(s.order)) /\ w \in Elems(s.order)
          /\ Elems(Tail(s.order)) = Elems(s.order) \ {w} /\ Len(Tail(s.order)) = Len(s.order) - 1
          /\ Len(s.order) \in Nat
      BY <1>2, <2>1, TailFacts
    <2>0. w \in Workers /\ t.order = Append(Tail(s.order), w)
      BY <1>3
    <2> HIDE DEF w, t
    <2>3. w \notin Elems(Tail(s.order))
      BY <2>2
    <2>4. /\ Once(Append(Tail(s.order), w)) /\ Len(Append(Tail(s.order), w)) = Len(Tail(s.order)) + 1
          /\ Elems(Append(Tail(s.order), w)) = Elems(Tail(s.order)) \cup {w}
      <3> DEFINE q == Tail(s.order)
      <3>1. q \in Seq(Workers) /\ Once(q) /\ w \notin Elems(q) /\ w \in Workers
        BY <2>0, <2>2, <2>3
      <3> HIDE DEF q
      <3>2. /\ Once(Append(q, w)) /\ Len(Append(q, w)) = Len(q) + 1
            /\ Elems(Append(q, w)) = Elems(q) \cup {w}
        BY <3>1, AppendFacts
      <3> QED BY <3>2 DEF q
    <2>5. (Elems(s.order) \ {w}) \cup {w} = Elems(s.order) /\ (Len(s.order) - 1) + 1 = Len(s.order)
      BY <2>2
    <2> QED BY <2>0, <2>2, <2>4, <2>5
  <1> HIDE DEF w, t
  <1>5. CASE Passed(s, w)
    BY <1>3, <1>4, <1>5 DEF SchedFits, InSlots, t
  <1>6. CASE ~Passed(s, w)
    <2> DEFINE c == Head(s.queues[w])
    <2>1. s.queues[w] \in Seq(Calls) /\ s.queues[w] # <<>> /\ Once(s.queues[w])
      BY <1>2, <1>3, <1>6 DEF SchedFits
    <2>2. /\ Tail(s.queues[w]) \in Seq(Calls) /\ Once(Tail(s.queues[w])) /\ c \in Elems(s.queues[w])
          /\ Elems(Tail(s.queues[w])) = Elems(s.queues[w]) \ {c} /\ c \in Calls
      BY <2>1, TailFacts
    <2> HIDE DEF c
    <2>3. c \notin Elems(s.starting) /\ By[c] = w /\ c \in Q /\ c \notin H
      BY <2>2, <1>3 DEF SchedFits, Of
    <2>4. /\ Elems(t.starting) = Elems(s.starting) \cup {c} /\ Once(t.starting)
      <3>1. Once(s.starting) /\ t.starting = Append(s.starting, c)
        BY <1>3, <1>6 DEF SchedFits, c
      <3> QED BY <3>1, <2>2, <2>3, <1>2, AppendFacts
    <2>5. \A v \in Workers : t.queues[v] = IF v = w THEN Tail(s.queues[w]) ELSE s.queues[v]
      BY <1>2, <1>3, <1>6
    <2>6. \A v \in Workers :
            /\ Once(t.queues[v]) /\ Elems(t.queues[v]) = Elems(s.queues[v]) \ {c}
            /\ t.queues[v] # <<>> => s.queues[v] # <<>>
      <3> SUFFICES ASSUME NEW v \in Workers
                   PROVE  /\ Once(t.queues[v]) /\ Elems(t.queues[v]) = Elems(s.queues[v]) \ {c}
                          /\ t.queues[v] # <<>> => s.queues[v] # <<>>
        OBVIOUS
      <3>1. CASE v = w
        BY <3>1, <2>1, <2>2, <2>5
      <3>2. CASE v # w
        <4>1. c \notin Elems(s.queues[v])
          BY <2>3, <3>2 DEF SchedFits, Of
        <4> QED BY <3>2, <4>1, <2>5 DEF SchedFits
      <3> QED BY <3>1, <3>2
    <2>7. InSlots(t, H) = InSlots(s, H) \cup {c} /\ c \notin InSlots(s, H) /\ InSlots(s, H) \subseteq Calls
      BY <2>3, <2>4, <1>2, ElemsFacts DEF InSlots
    <2>8. t.running = Cardinality(InSlots(t, H)) /\ t.running <= GlobalCap
      <3>1. Cardinality(InSlots(t, H)) = Cardinality(InSlots(s, H)) + 1
        BY <2>7, Countable
      <3>2. t.running = s.running + 1 /\ s.running = Cardinality(InSlots(s, H))
        BY <1>3, <1>6 DEF SchedFits
      <3> QED BY <3>1, <3>2, <1>1, <1>2
    <2>9. ASSUME NEW v \in Workers PROVE t.active[v] = Cardinality({e \in InSlots(t, H) : By[e] = v})
      <3> DEFINE A == {e \in InSlots(s, H) : By[e] = v}
      <3>1. A \subseteq Calls /\ c \notin A /\ s.active[v] = Cardinality(A)
        BY <2>7 DEF SchedFits
      <3>2. CASE v = w
        <4>1. {e \in InSlots(t, H) : By[e] = v} = A \cup {c}
          BY <3>2, <2>3, <2>7
        <4>2. t.active[v] = s.active[v] + 1
          BY <3>2, <1>2, <1>3, <1>6
        <4> HIDE DEF A
        <4> QED BY <4>1, <4>2, <3>1, Countable
      <3>3. CASE v # w
        <4>1. {e \in InSlots(t, H) : By[e] = v} = A
          BY <3>3, <2>3, <2>7
        <4>2. t.active[v] = s.active[v]
          BY <3>3, <1>2, <1>3, <1>6
        <4> HIDE DEF A
        <4> QED BY <4>1, <4>2, <3>1
      <3> QED BY <3>2, <3>3
    <2>10. \A e \in Calls : e \in Q <=> e \in Elems(t.starting) \/ e \in Elems(t.queues[By[e]])
      BY <2>2, <2>3, <2>4, <2>6, BridgeConstants DEF SchedFits
    <2>11. \A v \in Workers :
             /\ Elems(t.queues[v]) \subseteq Of(v) /\ Elems(t.queues[v]) \cap Elems(t.starting) = {}
             /\ t.queues[v] # <<>> => v \in Elems(t.order)
      BY <2>4, <2>6, <1>4 DEF SchedFits
    <2> QED BY <1>3, <1>4, <2>4, <2>6, <2>8, <2>9, <2>10, <2>11 DEF SchedFits, t
  <1> QED BY <1>5, <1>6

\* A pass is a run of visits, all of which keep the books.
Turn(t) == IF t.running < GlobalCap THEN Visit(t) ELSE t

\* Such a run: one turn for each place of the rotation.
RunOfTurns(f, s, Q, H) ==
  /\ f[0] = s /\ Pass(s) = f[Len(s.order)]
  /\ \A i \in 0 .. Len(s.order) : /\ SchedFits(f[i], Q, H) /\ Elems(f[i].order) = Elems(s.order)
                                  /\ Len(f[i].order) = Len(s.order)
  /\ \A i \in 1 .. Len(s.order) : f[i] = Turn(f[i - 1])

\* Pass is a run of turns.
LEMMA PassRun ==
  ASSUME NEW s, NEW Q, NEW H \in SUBSET Calls, SchedFits(s, Q, H)
  PROVE  Len(s.order) \in Nat /\ \E f : RunOfTurns(f, s, Q, H)
  <1> DEFINE n == Len(s.order)
             S == {t \in SchedStates : /\ SchedFits(t, Q, H) /\ Elems(t.order) = Elems(s.order)
                                       /\ Len(t.order) = n}
             g == [t \in S |-> IF n > 0 THEN Turn(t) ELSE t]
             E(a) == [i \in 0 .. n |-> IF i = 0 THEN s
                                       ELSE LET t == a[i - 1]
                                            IN IF t.running < GlobalCap THEN Visit(t) ELSE t]
  <1>1. s \in SchedStates /\ s.order \in Seq(Workers)
    BY DEF SchedFits, SchedStates
  <1>2. n \in Nat /\ s \in S
    BY <1>1, ElemsFacts
  <1>3. ASSUME NEW t \in S PROVE g[t] \in S
    <2>1. CASE n > 0 /\ t.running < GlobalCap
      <3>1. t.order # <<>>
        <4>1. t.order \in Seq(Workers) /\ Len(t.order) > 0
          BY <2>1 DEF SchedStates
        <4> QED BY <4>1
      <3>2. g[t] = Visit(t)
        BY <2>1 DEF Turn
      <3>3. /\ SchedFits(Visit(t), Q, H) /\ Elems(Visit(t).order) = Elems(t.order)
            /\ Len(Visit(t).order) = Len(t.order)
        BY <2>1, <3>1, VisitFits
      <3>4. Visit(t) \in SchedStates
        BY <3>3 DEF SchedFits
      <3> QED BY <3>2, <3>3, <3>4
    <2>2. CASE ~ (n > 0 /\ t.running < GlobalCap)
      BY <2>2 DEF Turn
    <2> QED BY <2>1, <2>2
  <1>4. g \in [S -> S]
    BY <1>3
  <1>5. PICK f : Follows(f, S, s, g, n)
    <2>1. n \in Nat /\ s \in S /\ g \in [S -> S]
      BY <1>2, <1>4
    <2> HIDE DEF g, S, n, E
    <2> QED BY <2>1, Iterates
  <1>a. f \in [0 .. n -> S] /\ f[0] = s /\ \A i \in 1 .. n : f[i] = g[f[i - 1]]
    BY <1>5 DEF Follows
  <1>6. f = E(f)
    <2>1. ASSUME NEW i \in 0 .. n PROVE f[i] = E(f)[i]
      <3>1. CASE i = 0
        BY <3>1, <1>a
      <3>2. CASE i # 0
        <4>1. i \in 1 .. n /\ i - 1 \in 0 .. n /\ n > 0
          BY <3>2, <1>2
        <4>2. f[i] = g[f[i - 1]] /\ f[i - 1] \in S
          BY <4>1, <1>a
        <4>3. g[f[i - 1]] = Turn(f[i - 1])
          BY <4>1, <4>2
        <4> QED BY <3>2, <4>2, <4>3 DEF Turn
      <3> QED BY <3>1, <3>2
    <2> QED BY <2>1, <1>a
  <1> DEFINE after == CHOOSE a : a = E(a)
  <1>7. Pass(s) = after[n]
    BY DEF Pass
  <1>8. after = E(after)
    <2> HIDE DEF E
    <2> QED BY <1>6
  <1> HIDE DEF after, S, n
  <1>9. after[0] = s /\ \A i \in 1 .. n : after[i] = Turn(after[i - 1])
    BY <1>8, <1>2 DEF Turn
  <1>10. \A i \in 0 .. n : after[i] = f[i]
    <2> DEFINE T == {i \in 0 .. n : after[i] = f[i]}
    <2>1. 0 \in T
      BY <1>2, <1>a, <1>9
    <2>2. ASSUME NEW i \in 0 .. n - 1, i \in T PROVE i + 1 \in T
      <3>1. i + 1 \in 1 .. n /\ i + 1 \in 0 .. n /\ (i + 1) - 1 = i /\ i \in 0 .. n /\ n > 0
        BY <1>2
      <3>2. after[i + 1] = Turn(after[i]) /\ f[i + 1] = g[f[i]] /\ f[i] \in S
        BY <3>1, <1>a, <1>9
      <3>3. g[f[i]] = Turn(f[i])
        BY <3>1, <3>2
      <3> QED BY <3>1, <3>2, <3>3, <2>2
    <2>3. \A i \in 0 .. n : i \in T
      <3> HIDE DEF T
      <3> QED BY <1>2, <2>1, <2>2, UpTo
    <2> QED BY <2>3
  <1>11. \A i \in 0 .. n : after[i] \in S
    BY <1>a, <1>10
  <1>12. RunOfTurns(after, s, Q, H)
    BY <1>2, <1>7, <1>9, <1>11 DEF S, n, RunOfTurns
  <1> QED BY <1>2, <1>12 DEF n

\* Nothing more can start.
Stopped(s) == s.running = GlobalCap \/ \A w \in Workers : Passed(s, w)

\* Only the rotation differs.
Alike(s, t) == t.queues = s.queues /\ t.active = s.active /\ t.running = s.running

\* What starts nothing does not depend on the rotation.
LEMMA AlikePassed ==
  ASSUME NEW s, NEW t, Alike(s, t)
  PROVE  (\A w : Passed(t, w) <=> Passed(s, w)) /\ (Stopped(t) <=> Stopped(s))
  BY DEF Alike, Passed, Stopped, WaitingOthers

\* One turn of a pass.
LEMMA TurnEffect ==
  ASSUME NEW t, NEW Q, NEW H \in SUBSET Calls, SchedFits(t, Q, H), t.order # <<>>
  PROVE  /\ t.running \in Nat /\ Turn(t).running \in Nat /\ Turn(t).running >= t.running
         /\ Passed(t, Head(t.order)) => Alike(t, Turn(t))
         /\ t.running < GlobalCap /\ Turn(t).running = t.running =>
              /\ Alike(t, Turn(t)) /\ Passed(t, Head(t.order))
              /\ Turn(t).order = Append(Tail(t.order), Head(t.order))
  <1> DEFINE w == Head(t.order)
             u == Visit(t)
  <1>1. t \in SchedStates /\ t.running \in Nat /\ GlobalCap \in Nat
    BY BridgeConstants DEF SchedFits, SchedStates
  <1>2. /\ u.order = Append(Tail(t.order), w)
        /\ Passed(t, w) => /\ u.queues = t.queues /\ u.active = t.active /\ u.running = t.running
        /\ ~Passed(t, w) => u.running = t.running + 1
    BY <1>1, VisitFields
  <1>3. Turn(t) = IF t.running < GlobalCap THEN u ELSE t
    BY DEF Turn
  <1> HIDE DEF w, u
  <1>4. CASE t.running < GlobalCap
    <2>1. Turn(t) = u
      BY <1>3, <1>4
    <2> QED BY <2>1, <1>1, <1>2 DEF Alike, w
  <1>5. CASE ~ (t.running < GlobalCap)
    <2>1. Turn(t) = t
      BY <1>3, <1>5
    <2> QED BY <2>1, <1>1, <1>5 DEF Alike, w
  <1> QED BY <1>4, <1>5

\* Sequence t is q after i turns.
Turned(q, i, t) ==
  \A j \in 1 .. Len(q) : t[j] = IF j + i <= Len(q) THEN q[j + i] ELSE q[j + i - Len(q)]

\* One more turn brings the next element to the front.
LEMMA TurnedOnce ==
  ASSUME NEW S, NEW q \in Seq(S), NEW t \in Seq(S), Len(t) = Len(q), NEW i \in 0 .. Len(q) - 1,
         Turned(q, i, t)
  PROVE  t # <<>> /\ Head(t) = q[i + 1] /\ Turned(q, i + 1, Append(Tail(t), Head(t)))
  <1> DEFINE n == Len(q)
             u == Append(Tail(t), Head(t))
  <1>1. n \in Nat /\ i \in Nat /\ n > 0 /\ i + 1 <= n /\ n \in 1 .. n /\ 1 \in 1 .. n
    BY LenProperties
  <1>2. t # <<>> /\ Head(t) = t[1]
    BY <1>1
  <1>3. t[1] = q[i + 1]
    BY <1>1 DEF Turned
  <1>4. Tail(t) \in Seq(S) /\ Len(Tail(t)) = n - 1 /\ Head(t) \in S
        /\ \A j \in 1 .. n - 1 : Tail(t)[j] = t[j + 1]
    BY <1>1, <1>2, TailFacts
  <1>5. /\ \A j \in 1 .. n - 1 : u[j] = t[j + 1]
        /\ u[n] = t[1]
    <2> DEFINE r == Tail(t)
               x == Head(t)
    <2>1. r \in Seq(S) /\ x \in S /\ Len(r) = n - 1 /\ x = t[1] /\ \A j \in 1 .. n - 1 : r[j] = t[j + 1]
      BY <1>2, <1>4
    <2> HIDE DEF r, x
    <2>2. (\A j \in 1 .. Len(r) : Append(r, x)[j] = r[j]) /\ Append(r, x)[Len(r) + 1] = x
      BY <2>1
    <2>3. (\A j \in 1 .. n - 1 : Append(r, x)[j] = t[j + 1]) /\ Append(r, x)[n] = t[1]
      BY <2>1, <2>2, <1>1
    <2> QED BY <2>3 DEF r, x
  <1> HIDE DEF u
  <1>6. ASSUME NEW j \in 1 .. n
        PROVE  u[j] = IF j + (i + 1) <= n THEN q[j + (i + 1)] ELSE q[j + (i + 1) - n]
    <2>1. CASE j = n
      <3>1. n + (i + 1) - n = i + 1 /\ ~ (n + (i + 1) <= n)
        BY <1>1
      <3> QED BY <2>1, <3>1, <1>3, <1>5
    <2>2. CASE j # n
      <3>1. j \in 1 .. n - 1 /\ j + 1 \in 1 .. n /\ (j + 1) + i = j + (i + 1)
        BY <2>2, <1>1
      <3>2. t[j + 1] = IF (j + 1) + i <= n THEN q[(j + 1) + i] ELSE q[(j + 1) + i - n]
        BY <3>1 DEF Turned
      <3> QED BY <3>1, <3>2, <1>5
    <2> QED BY <2>1, <2>2
  <1>7. Turned(q, i + 1, u)
    BY <1>6 DEF Turned
  <1> QED BY <1>2, <1>3, <1>7 DEF u

\* A pass keeps the books, and starts something unless nothing can start.
LEMMA PassEffect ==
  ASSUME NEW s, NEW Q, NEW H \in SUBSET Calls, SchedFits(s, Q, H)
  PROVE  /\ SchedFits(Pass(s), Q, H)
         /\ s.running \in Nat /\ Pass(s).running \in Nat /\ Pass(s).running >= s.running
         /\ Pass(s).running > s.running \/ Stopped(Pass(s))
         /\ Stopped(s) => Stopped(Pass(s))
  <1> DEFINE n == Len(s.order)
  <1>1. PICK f : /\ f[0] = s /\ Pass(s) = f[n]
                 /\ \A i \in 0 .. n : /\ SchedFits(f[i], Q, H) /\ Elems(f[i].order) = Elems(s.order)
                                      /\ Len(f[i].order) = n
                 /\ \A i \in 1 .. n : f[i] = Turn(f[i - 1])
    <2>1. \E f : RunOfTurns(f, s, Q, H)
      BY PassRun
    <2> QED BY <2>1 DEF RunOfTurns
  <1>2. n \in Nat /\ s.order \in Seq(Workers) /\ s.running \in Nat /\ GlobalCap \in Nat
        /\ DOMAIN s.order = 1 .. n
    BY PassRun, BridgeConstants DEF SchedFits, SchedStates
  <1> HIDE DEF n
  <1>3. \A i \in 0 .. n : f[i].running \in Nat /\ f[i].running <= GlobalCap /\ f[i].order \in Seq(Workers)
    BY <1>1 DEF SchedFits, SchedStates
  <1>4. ASSUME NEW i \in 0 .. n - 1
        PROVE  /\ i \in 0 .. n /\ i + 1 \in 0 .. n /\ f[i].order # <<>> /\ f[i + 1].running >= f[i].running
               /\ Passed(f[i], Head(f[i].order)) => Alike(f[i], f[i + 1])
               /\ f[i].running < GlobalCap /\ f[i + 1].running = f[i].running =>
                    /\ Alike(f[i], f[i + 1]) /\ Passed(f[i], Head(f[i].order))
                    /\ f[i + 1].order = Append(Tail(f[i].order), Head(f[i].order))
    <2>1. i \in 0 .. n /\ i + 1 \in 1 .. n /\ i + 1 \in 0 .. n /\ (i + 1) - 1 = i /\ n > 0
      BY <1>2
    <2>2. f[i + 1] = Turn(f[i]) /\ SchedFits(f[i], Q, H) /\ Len(f[i].order) = n
      BY <1>1, <2>1
    <2>3. f[i].order # <<>>
      BY <2>1, <2>2, <1>3
    <2> QED BY <2>1, <2>2, <2>3, TurnEffect
  <1>5. \A i \in 0 .. n : f[i].running >= s.running
    <2> DEFINE T == {i \in 0 .. n : f[i].running >= s.running}
    <2>1. 0 \in T
      BY <1>1, <1>2
    <2>2. ASSUME NEW i \in 0 .. n - 1, i \in T PROVE i + 1 \in T
      BY <1>2, <1>3, <1>4, <2>2
    <2>3. \A i \in 0 .. n : i \in T
      <3> HIDE DEF T
      <3> QED BY <1>2, <2>1, <2>2, UpTo
    <2> QED BY <2>3
  <1>6. n \in 0 .. n
    BY <1>2
  <1>7. ASSUME f[n].running = s.running, s.running < GlobalCap PROVE Stopped(f[n])
    <2> DEFINE P(i) == f[i].running = s.running =>
                         /\ Alike(s, f[i]) /\ Turned(s.order, i, f[i].order)
                         /\ \A k \in 1 .. i : Passed(s, s.order[k])
               T == {i \in 0 .. n : P(i)}
    <2>1. 0 \in T
      <3>1. Turned(s.order, 0, s.order)
        BY <1>2 DEF Turned, n
      <3> QED BY <3>1, <1>1, <1>2 DEF Alike
    <2>2. ASSUME NEW i \in 0 .. n - 1, i \in T PROVE i + 1 \in T
      <3> SUFFICES ASSUME f[i + 1].running = s.running
                   PROVE  /\ Alike(s, f[i + 1]) /\ Turned(s.order, i + 1, f[i + 1].order)
                          /\ \A k \in 1 .. i + 1 : Passed(s, s.order[k])
        BY <1>4
      <3>1. f[i].running = s.running
        BY <1>2, <1>3, <1>4, <1>5
      <3>2. /\ Alike(s, f[i]) /\ Turned(s.order, i, f[i].order)
            /\ \A k \in 1 .. i : Passed(s, s.order[k])
        BY <2>2, <3>1
      <3>3. /\ Alike(f[i], f[i + 1]) /\ Passed(f[i], Head(f[i].order))
            /\ f[i + 1].order = Append(Tail(f[i].order), Head(f[i].order))
        BY <1>4, <1>7, <3>1
      <3>4. Head(f[i].order) = s.order[i + 1] /\ Turned(s.order, i + 1, f[i + 1].order)
        <4>1. i \in 0 .. Len(s.order) - 1 /\ f[i].order \in Seq(Workers) /\ Len(f[i].order) = Len(s.order)
          BY <1>1, <1>3, <1>4 DEF n
        <4> DEFINE t == f[i].order
                   q == s.order
        <4>2. q \in Seq(Workers) /\ t \in Seq(Workers) /\ Len(t) = Len(q) /\ i \in 0 .. Len(q) - 1 /\ Turned(q, i, t)
          BY <4>1, <3>2, <1>2
        <4> HIDE DEF t, q
        <4>3. Head(t) = q[i + 1] /\ Turned(q, i + 1, Append(Tail(t), Head(t)))
          BY <4>2, TurnedOnce
        <4> QED BY <4>3, <3>3 DEF t, q
      <3>5. Passed(s, s.order[i + 1])
        BY <3>2, <3>3, <3>4, AlikePassed
      <3>6. \A k \in 1 .. i + 1 : k \in 1 .. i \/ k = i + 1
        BY <1>2
      <3>7. Alike(s, f[i + 1])
        BY <3>2, <3>3 DEF Alike
      <3> QED BY <3>2, <3>4, <3>5, <3>6, <3>7
    <2>3. n \in T
      <3> HIDE DEF T
      <3> QED BY <1>2, <1>6, <2>1, <2>2, UpTo
    <2>4. Alike(s, f[n]) /\ \A k \in 1 .. n : Passed(s, s.order[k])
      BY <2>3, <1>7
    <2>5. \A w \in Workers : Passed(s, w)
      <3> SUFFICES ASSUME NEW w \in Workers, s.queues[w] # <<>> PROVE Passed(s, w)
        BY DEF Passed
      <3>1. w \in Elems(s.order)
        BY DEF SchedFits
      <3>2. PICK k \in 1 .. n : s.order[k] = w
        BY <3>1, <1>2 DEF Elems
      <3> QED BY <2>4, <3>2
    <2> QED BY <2>4, <2>5, AlikePassed DEF Stopped
  <1>8. ASSUME Stopped(s) PROVE Stopped(f[n])
    <2>1. CASE s.running = GlobalCap
      BY <2>1, <1>2, <1>3, <1>5, <1>6 DEF Stopped
    <2>2. CASE \A w \in Workers : Passed(s, w)
      <3> DEFINE T == {i \in 0 .. n : Alike(s, f[i])}
      <3>1. 0 \in T
        BY <1>1, <1>2 DEF Alike
      <3>2. ASSUME NEW i \in 0 .. n - 1, i \in T PROVE i + 1 \in T
        <4>1. Alike(s, f[i]) /\ Head(f[i].order) \in Workers
          BY <3>2, <1>3, <1>4
        <4>2. Passed(f[i], Head(f[i].order))
          BY <4>1, <2>2, AlikePassed
        <4>3. Alike(f[i], f[i + 1])
          BY <4>2, <1>4
        <4> QED BY <4>1, <4>3, <1>4 DEF Alike
      <3>3. n \in T
        <4> HIDE DEF T
        <4> QED BY <1>2, <1>6, <3>1, <3>2, UpTo
      <3> QED BY <3>3, <1>8, AlikePassed
    <2> QED BY <1>8, <2>1, <2>2 DEF Stopped
  <1>9. f[n].running > s.running \/ Stopped(f[n])
    <2>1. CASE f[n].running > s.running
      BY <2>1
    <2>2. CASE f[n].running = s.running /\ s.running < GlobalCap
      BY <2>2, <1>7
    <2>3. CASE s.running = GlobalCap
      BY <2>3, <1>8 DEF Stopped
    <2>4. f[n].running >= s.running /\ f[n].running <= GlobalCap /\ f[n].running \in Nat
      BY <1>3, <1>5, <1>6
    <2> QED BY <2>1, <2>2, <2>3, <2>4, <1>2
  <1> QED BY <1>1, <1>2, <1>3, <1>5, <1>6, <1>8, <1>9

\* pump keeps the books and stops when nothing can start.
LEMMA PumpEffect ==
  ASSUME NEW s, NEW Q, NEW H \in SUBSET Calls, SchedFits(s, Q, H)
  PROVE  SchedFits(Pump(s), Q, H) /\ Pumped(Pump(s))
  <1> DEFINE n == GlobalCap
             S == {t \in SchedStates : SchedFits(t, Q, H)}
             g == [t \in S |-> Pass(t)]
             E(a) == [i \in 0 .. n |-> IF i = 0 THEN s ELSE Pass(a[i - 1])]
  <1>1. n \in Nat /\ s \in S
    BY BridgeConstants DEF SchedFits
  <1>2. g \in [S -> S]
    <2>1. ASSUME NEW t \in S PROVE Pass(t) \in S
      <3>1. SchedFits(Pass(t), Q, H)
        BY PassEffect
      <3> QED BY <3>1 DEF SchedFits
    <2> QED BY <2>1
  <1>3. PICK f : Follows(f, S, s, g, n)
    <2> HIDE DEF g, S, n
    <2> QED BY <1>1, <1>2, Iterates
  <1>4. f \in [0 .. n -> S] /\ f[0] = s /\ \A i \in 1 .. n : f[i] = g[f[i - 1]]
    BY <1>3 DEF Follows
  <1>5. f = E(f)
    <2>1. ASSUME NEW i \in 0 .. n PROVE f[i] = E(f)[i]
      <3>1. CASE i = 0
        BY <3>1, <1>4
      <3>2. CASE i # 0
        <4>1. i \in 1 .. n /\ i - 1 \in 0 .. n
          BY <3>2, <1>1
        <4>2. f[i] = g[f[i - 1]] /\ f[i - 1] \in S
          BY <4>1, <1>4
        <4> QED BY <3>2, <4>2
      <3> QED BY <3>1, <3>2
    <2> QED BY <2>1, <1>4
  <1> DEFINE after == CHOOSE a : a = E(a)
  <1>6. Pump(s) = after[n]
    BY DEF Pump
  <1>7. after = E(after)
    <2> HIDE DEF E
    <2> QED BY <1>5
  <1> HIDE DEF after, S, n
  <1>8. after[0] = s /\ \A i \in 1 .. n : after[i] = Pass(after[i - 1])
    BY <1>7, <1>1
  <1> HIDE DEF E
  <1> DEFINE T == {i \in 0 .. n : /\ SchedFits(after[i], Q, H)
                                  /\ Stopped(after[i]) \/ after[i].running >= i}
  <1>9. 0 \in T
    <2>1. s.running \in Nat
      BY DEF SchedFits, SchedStates
    <2> QED BY <2>1, <1>1, <1>8
  <1>10. ASSUME NEW i \in 0 .. n - 1, i \in T PROVE i + 1 \in T
    <2>1. i + 1 \in 1 .. n /\ i + 1 \in 0 .. n /\ (i + 1) - 1 = i
      BY <1>1
    <2> DEFINE t == after[i]
    <2>2. after[i + 1] = Pass(t) /\ SchedFits(t, Q, H) /\ (Stopped(t) \/ t.running >= i)
      BY <1>8, <1>10, <2>1
    <2> HIDE DEF t
    <2>3. /\ SchedFits(Pass(t), Q, H)
          /\ t.running \in Nat /\ Pass(t).running \in Nat
          /\ Pass(t).running > t.running \/ Stopped(Pass(t))
          /\ Stopped(t) => Stopped(Pass(t))
      BY <2>2, PassEffect
    <2>4. Stopped(Pass(t)) \/ Pass(t).running >= i + 1
      BY <2>2, <2>3
    <2> QED BY <2>1, <2>2, <2>3, <2>4
  <1>11. n \in T
    <2>1. n \in 0 .. n
      BY <1>1
    <2> HIDE DEF T
    <2> QED BY <1>1, <1>9, <1>10, <2>1, UpTo
  <1>12. SchedFits(Pump(s), Q, H) /\ (Stopped(Pump(s)) \/ Pump(s).running >= GlobalCap)
    BY <1>6, <1>11 DEF n
  <1>13. Pump(s).running \in Nat /\ GlobalCap \in Nat /\ Pump(s).running <= GlobalCap
    BY <1>12, BridgeConstants DEF SchedFits, SchedStates
  <1>14. Stopped(Pump(s))
    BY <1>12, <1>13 DEF Stopped
  <1> QED BY <1>12, <1>14 DEF Stopped, Pumped, Passed

\* Without removes the one occurrence there is.
LEMMA WithoutFacts ==
  ASSUME NEW S, NEW s \in Seq(S), NEW x, Once(s)
  PROVE  /\ Without(s, x) \in Seq(S) /\ Once(Without(s, x))
         /\ Elems(Without(s, x)) = Elems(s) \ {x}
         /\ Without(s, x) # <<>> => s # <<>>
  <1>1. Len(s) \in Nat /\ DOMAIN s = 1 .. Len(s)
    BY LenProperties
  <1>2. CASE x \notin ToSet(s)
    BY <1>2 DEF Without, Elems, ToSet
  <1>3. CASE x \in ToSet(s)
    <2> DEFINE at == CHOOSE i \in DOMAIN s : s[i] = x
    <2> DEFINE t == [j \in 1 .. Len(s) - 1 |-> IF j < at THEN s[j] ELSE s[j + 1]]
    <2>1. at \in 1 .. Len(s) /\ s[at] = x
      BY <1>1, <1>3 DEF ToSet
    <2>2. Without(s, x) = t
      BY <1>3 DEF Without
    <2> HIDE DEF at
    <2>3. Len(s) - 1 \in Nat /\ Len(s) # 0
      BY <1>1, <2>1
    <2>4. \A j \in 1 .. Len(s) - 1 :
             j \in 1 .. Len(s) /\ j + 1 \in 1 .. Len(s) /\ s[j] \in S /\ s[j + 1] \in S
      BY <1>1, <2>3, ElementOfSeq
    <2>5. t \in [1 .. Len(s) - 1 -> S] /\ DOMAIN t = 1 .. Len(s) - 1
      BY <2>4
    <2>6. t \in Seq(S)
      BY <2>3, <2>5, SeqDef
    <2>7. Once(t)
      <3> SUFFICES ASSUME NEW i \in 1 .. Len(s) - 1, NEW j \in 1 .. Len(s) - 1, t[i] = t[j]
                   PROVE  i = j
        BY <2>5 DEF Once
      <3> DEFINE at_i == IF i < at THEN i ELSE i + 1
      <3> DEFINE at_j == IF j < at THEN j ELSE j + 1
      <3>1. s[at_i] = s[at_j] /\ at_i \in 1 .. Len(s) /\ at_j \in 1 .. Len(s)
        BY <2>4
      <3>2. at_i = at_j
        BY <3>1, <1>1 DEF Once
      <3> QED BY <3>2, <2>1
    <2>8. Elems(t) \subseteq Elems(s) \ {x}
      <3> SUFFICES ASSUME NEW i \in 1 .. Len(s) - 1 PROVE t[i] \in Elems(s) \ {x}
        BY <2>5 DEF Elems
      <3> DEFINE at_i == IF i < at THEN i ELSE i + 1
      <3>1. t[i] = s[at_i] /\ at_i \in 1 .. Len(s) /\ at_i # at
        BY <2>4, <2>1
      <3>2. s[at_i] # s[at]
        BY <3>1, <2>1, <1>1 DEF Once
      <3> QED BY <3>1, <3>2, <2>1, <1>1 DEF Elems
    <2>9. Elems(s) \ {x} \subseteq Elems(t)
      <3> SUFFICES ASSUME NEW i \in 1 .. Len(s), s[i] # x PROVE s[i] \in Elems(t)
        BY <1>1 DEF Elems
      <3> DEFINE k == IF i < at THEN i ELSE i - 1
      <3>1. i # at
        BY <2>1
      <3>2. k \in 1 .. Len(s) - 1 /\ t[k] = s[i]
        BY <3>1, <2>1, <1>1
      <3> QED BY <3>2, <2>5 DEF Elems
    <2> QED BY <2>2, <2>3, <2>6, <2>7, <2>8, <2>9
  <1> QED BY <1>2, <1>3

\* submit: the call is queued, or starts at once.
LEMMA SubmittedFits ==
  ASSUME NEW s, NEW Q, NEW H \in SUBSET Calls, SchedFits(s, Q, H), NEW c \in Calls, c \notin Q, c \notin H
  PROVE  SchedFits(Submitted(s, c), Q \cup {c}, H) /\ Pumped(Submitted(s, c))
  <1> DEFINE w == By[c]
             o == IF InRotation(s, w) THEN s.order ELSE Append(s.order, w)
             q == Append(s.queues[w], c)
             u == [queues |-> [s.queues EXCEPT ![w] = q], order |-> o, active |-> s.active,
                   running |-> s.running, starting |-> s.starting]
  <1>1. /\ s.queues \in [Workers -> Seq(Calls)] /\ s.active \in [Workers -> Nat] /\ s.running \in Nat
        /\ s.order \in Seq(Workers) /\ s.starting \in Seq(Calls)
        /\ s = [queues |-> s.queues, order |-> s.order, active |-> s.active,
                running |-> s.running, starting |-> s.starting]
    BY DEF SchedStates, SchedFits
  <1>2. w \in Workers /\ s.queues[w] \in Seq(Calls)
    BY <1>1, BridgeConstants
  <1>3. Submitted(s, c) = Pump(u)
    <2>1. CASE InRotation(s, w)
      <3>1. Submitted(s, c) = Pump([s EXCEPT !.queues[w] = Append(@, c)])
        BY <2>1 DEF Submitted
      <3>2. [s EXCEPT !.queues[w] = Append(@, c)] = u
        <4> HIDE DEF w
        <4>1. s.order = o
          BY <2>1
        <4> HIDE DEF o
        <4> DEFINE x == [s EXCEPT !.queues[w] = Append(@, c)]
        <4>2. x = [s EXCEPT !.queues[w] = Append(@, c)]
          OBVIOUS
        <4> HIDE DEF x
        <4>3. x = u
          BY <4>1, <4>2, <1>1, <1>2
        <4> QED BY <4>2, <4>3
      <3> QED BY <3>1, <3>2
    <2>2. CASE ~InRotation(s, w)
      <3>1. Submitted(s, c) = Pump([[s EXCEPT !.order = Append(@, w)] EXCEPT !.queues[w] = Append(@, c)])
        BY <2>2 DEF Submitted
      <3>2. [[s EXCEPT !.order = Append(@, w)] EXCEPT !.queues[w] = Append(@, c)] = u
        <4> HIDE DEF w
        <4>1. Append(s.order, w) = o
          BY <2>2
        <4> HIDE DEF o
        <4> DEFINE x == [[s EXCEPT !.order = Append(@, w)] EXCEPT !.queues[w] = Append(@, c)]
        <4>2. x = [[s EXCEPT !.order = Append(@, w)] EXCEPT !.queues[w] = Append(@, c)]
          OBVIOUS
        <4> HIDE DEF x
        <4>3. x = u
          BY <4>1, <4>2, <1>1, <1>2
        <4> QED BY <4>2, <4>3
      <3> QED BY <3>1, <3>2
    <2> QED BY <2>1, <2>2
  <1>4. o \in Seq(Workers) /\ Once(o) /\ Elems(o) = Elems(s.order) \cup {w}
    <2>1. Once(s.order) /\ (InRotation(s, w) <=> w \in Elems(s.order))
      BY DEF SchedFits, InRotation, ToSet, Elems
    <2>2. CASE InRotation(s, w)
      BY <2>1, <2>2, <1>1
    <2>3. CASE ~InRotation(s, w)
      <3>1. o = Append(s.order, w) /\ w \notin Elems(s.order)
        BY <2>1, <2>3
      <3> HIDE DEF o, w
      <3> QED BY <2>1, <3>1, <1>1, <1>2, AppendFacts
    <2> QED BY <2>2, <2>3
  <1>5. c \notin Elems(s.queues[w]) /\ c \notin Elems(s.starting) /\ Once(s.queues[w])
    BY <1>2 DEF SchedFits
  <1>6. q \in Seq(Calls) /\ Once(q) /\ Elems(q) = Elems(s.queues[w]) \cup {c}
    <2> DEFINE p == s.queues[w]
    <2>1. p \in Seq(Calls) /\ Once(p) /\ c \notin Elems(p)
      BY <1>2, <1>5
    <2> HIDE DEF p
    <2>2. Append(p, c) \in Seq(Calls) /\ Once(Append(p, c)) /\ Elems(Append(p, c)) = Elems(p) \cup {c}
      BY <2>1, AppendFacts
    <2> QED BY <2>2 DEF p
  <1> HIDE DEF q, o, w
  <1>7. \A v \in Workers : u.queues[v] = IF v = w THEN q ELSE s.queues[v]
    BY <1>1, <1>2
  <1>8. u \in SchedStates
    BY <1>1, <1>2, <1>4, <1>6 DEF SchedStates
  <1>9. u.order = o /\ u.active = s.active /\ u.running = s.running /\ u.starting = s.starting
    OBVIOUS
  <1> HIDE DEF u
  <1>10. InSlots(u, H) = InSlots(s, H)
    BY <1>9 DEF InSlots
  <1>11. ASSUME NEW v \in Workers
         PROVE  /\ Once(u.queues[v]) /\ Elems(u.queues[v]) \subseteq Of(v)
                /\ Elems(u.queues[v]) \cap Elems(u.starting) = {}
                /\ u.queues[v] # <<>> => v \in Elems(u.order)
    <2>1. CASE v = w
      <3>1. u.queues[v] = q /\ Elems(s.queues[w]) \subseteq Of(w) /\ Elems(s.queues[w]) \cap Elems(s.starting) = {}
        BY <2>1, <1>2, <1>7 DEF SchedFits
      <3>2. c \in Of(w)
        BY DEF Of, w
      <3> QED BY <2>1, <3>1, <3>2, <1>4, <1>5, <1>6, <1>9
    <2>2. CASE v # w
      BY <2>2, <1>4, <1>7, <1>9 DEF SchedFits
    <2> QED BY <2>1, <2>2
  <1>12. ASSUME NEW e \in Calls
         PROVE  e \in Q \cup {c} <=> e \in Elems(u.starting) \/ e \in Elems(u.queues[By[e]])
    <2>1. By[e] \in Workers
      BY BridgeConstants
    <2>2. e \in Q <=> e \in Elems(s.starting) \/ e \in Elems(s.queues[By[e]])
      BY DEF SchedFits
    <2>3. CASE By[e] = w
      BY <2>1, <2>2, <2>3, <1>6, <1>7, <1>9 DEF w
    <2>4. CASE By[e] # w
      BY <2>1, <2>2, <2>4, <1>7, <1>9 DEF w
    <2> QED BY <2>3, <2>4
  <1>13. SchedFits(u, Q \cup {c}, H)
    BY <1>4, <1>8, <1>9, <1>10, <1>11, <1>12 DEF SchedFits
  <1> QED BY <1>3, <1>13, PumpEffect

\* A slot is given back: whoever waits for it gets it.
LEMMA FreedFits ==
  ASSUME NEW s, NEW Q, NEW H \in SUBSET Calls, SchedFits(s, Q, H), NEW c \in H
  PROVE  SchedFits(Freed(s, By[c]), Q, H \ {c}) /\ Pumped(Freed(s, By[c]))
  <1> DEFINE w == By[c]
             u == [queues |-> s.queues, order |-> s.order, active |-> [s.active EXCEPT ![w] = @ - 1],
                   running |-> s.running - 1, starting |-> s.starting]
  <1>1. /\ s.queues \in [Workers -> Seq(Calls)] /\ s.active \in [Workers -> Nat] /\ s.running \in Nat
        /\ s.order \in Seq(Workers) /\ s.starting \in Seq(Calls)
        /\ s = [queues |-> s.queues, order |-> s.order, active |-> s.active,
                running |-> s.running, starting |-> s.starting]
    BY DEF SchedStates, SchedFits
  <1>2. w \in Workers /\ s.active[w] \in Nat /\ GlobalCap \in Nat
    BY <1>1, BridgeConstants
  <1>3. Freed(s, w) = Pump(u)
    <2>1. Freed(s, w) = Pump([s EXCEPT !.running = @ - 1, !.active[w] = @ - 1])
      BY DEF Freed
    <2>2. [s EXCEPT !.running = @ - 1, !.active[w] = @ - 1] = u
      <3> HIDE DEF w
      <3> DEFINE x == [s EXCEPT !.running = @ - 1, !.active[w] = @ - 1]
      <3>1. x = [s EXCEPT !.running = @ - 1, !.active[w] = @ - 1]
        OBVIOUS
      <3> HIDE DEF x
      <3>2. x = u
        BY <3>1, <1>1, <1>2
      <3> QED BY <3>1, <3>2
    <2> QED BY <2>1, <2>2
  <1>4. c \in Calls /\ c \notin Elems(s.starting) /\ InSlots(s, H) \subseteq Calls
    <2>1. c \in Calls /\ c \notin Q
      BY DEF SchedFits
    <2>2. c \notin Elems(s.starting)
      BY <2>1 DEF SchedFits
    <2> QED BY <2>1, <2>2, <1>1, ElemsFacts DEF InSlots
  <1>5. InSlots(u, H \ {c}) = InSlots(s, H) \ {c} /\ c \in InSlots(s, H)
    BY <1>4 DEF InSlots
  <1> HIDE DEF w
  <1>6. s.running - 1 = Cardinality(InSlots(s, H) \ {c}) /\ s.running - 1 \in Nat
    <2>1. Cardinality(InSlots(s, H) \ {c}) = Cardinality(InSlots(s, H)) - 1
      BY <1>4, <1>5, Countable
    <2>2. InSlots(s, H) \ {c} \subseteq Calls
      BY <1>4
    <2>3. Cardinality(InSlots(s, H) \ {c}) \in Nat
      BY <2>2, Countable
    <2>4. s.running = Cardinality(InSlots(s, H))
      BY DEF SchedFits
    <2> QED BY <2>1, <2>3, <2>4
  <1>7. ASSUME NEW v \in Workers
        PROVE  /\ u.active[v] \in Nat
               /\ u.active[v] = Cardinality({e \in InSlots(u, H \ {c}) : By[e] = v})
    <2> DEFINE A == {e \in InSlots(s, H) : By[e] = v}
    <2>1. A \subseteq Calls /\ s.active[v] = Cardinality(A) /\ s.active[v] \in Nat
      BY <1>1, <1>4 DEF SchedFits
    <2>2. {e \in InSlots(u, H \ {c}) : By[e] = v} = A \ {c}
      BY <1>5
    <2>3. CASE v = w
      <3>1. c \in A /\ A \ {c} \subseteq Calls
        BY <2>1, <2>3, <1>5 DEF w
      <3>2. u.active[v] = s.active[v] - 1
        BY <2>3, <1>1, <1>2
      <3> HIDE DEF A, u
      <3>3. Cardinality(A \ {c}) = Cardinality(A) - 1 /\ Cardinality(A \ {c}) \in Nat
        BY <3>1, <2>1, Countable
      <3> QED BY <2>1, <2>2, <3>2, <3>3
    <2>4. CASE v # w
      <3>1. A \ {c} = A
        BY <2>4 DEF w
      <3>2. u.active[v] = s.active[v]
        BY <2>4, <1>1, <1>2
      <3> HIDE DEF A, u
      <3> QED BY <2>1, <2>2, <3>1, <3>2
    <2> QED BY <2>3, <2>4
  <1>8. u \in SchedStates
    <2>1. u.active \in [Workers -> Nat]
      BY <1>1, <1>7
    <2> QED BY <2>1, <1>1, <1>6 DEF SchedStates
  <1>9. u.queues = s.queues /\ u.order = s.order /\ u.starting = s.starting /\ u.running = s.running - 1
    OBVIOUS
  <1> HIDE DEF u
  <1>10. u.running <= GlobalCap
    BY <1>1, <1>2, <1>9 DEF SchedFits
  <1>11. SchedFits(u, Q, H \ {c})
    BY <1>5, <1>6, <1>7, <1>8, <1>9, <1>10 DEF SchedFits
  <1>12. H \ {c} \in SUBSET Calls
    OBVIOUS
  <1> QED BY <1>3, <1>11, <1>12, PumpEffect DEF w

\* A task starts: its slot is the host's from now on.
LEMMA StartFits ==
  ASSUME NEW s, NEW Q, NEW H \in SUBSET Calls, SchedFits(s, Q, H), s.starting # <<>>
  PROVE  LET c == Head(s.starting)
             u == [s EXCEPT !.starting = Tail(@)] IN
         /\ c \in Calls /\ c \in Q /\ c \notin H /\ SchedFits(u, Q \ {c}, H \cup {c})
         /\ Pumped(s) => Pumped(u)
  <1> DEFINE c == Head(s.starting)
             u == [s EXCEPT !.starting = Tail(@)]
  <1>1. /\ s.queues \in [Workers -> Seq(Calls)] /\ s.active \in [Workers -> Nat] /\ s.running \in Nat
        /\ s.order \in Seq(Workers) /\ s.starting \in Seq(Calls)
        /\ s = [queues |-> s.queues, order |-> s.order, active |-> s.active,
                running |-> s.running, starting |-> s.starting]
    BY DEF SchedStates, SchedFits
  <1>2. /\ c \in Calls /\ c \in Elems(s.starting) /\ Tail(s.starting) \in Seq(Calls)
        /\ Once(Tail(s.starting)) /\ Elems(Tail(s.starting)) = Elems(s.starting) \ {c}
    <2>1. Once(s.starting)
      BY DEF SchedFits
    <2> QED BY <2>1, <1>1, TailFacts
  <1> HIDE DEF c
  <1>3. c \in Q /\ c \notin H
    BY <1>2 DEF SchedFits
  <1>4. /\ u \in SchedStates /\ u.queues = s.queues /\ u.order = s.order /\ u.active = s.active
        /\ u.running = s.running /\ u.starting = Tail(s.starting)
    BY <1>1, <1>2 DEF SchedStates
  <1> HIDE DEF u
  <1>5. InSlots(u, H \cup {c}) = InSlots(s, H)
    BY <1>2, <1>4 DEF InSlots
  <1>6. \A e \in Calls : e \in Q \ {c} <=> e \in Elems(u.starting) \/ e \in Elems(u.queues[By[e]])
    <2> SUFFICES ASSUME NEW e \in Calls
                 PROVE  e \in Q \ {c} <=> e \in Elems(u.starting) \/ e \in Elems(u.queues[By[e]])
      OBVIOUS
    <2>1. By[e] \in Workers
      BY BridgeConstants
    <2>2. c \notin Elems(s.queues[By[e]])
      BY <1>2, <2>1 DEF SchedFits
    <2>3. e \in Q <=> e \in Elems(s.starting) \/ e \in Elems(s.queues[By[e]])
      BY DEF SchedFits
    <2> QED BY <2>2, <2>3, <1>2, <1>4
  <1>7. SchedFits(u, Q \ {c}, H \cup {c})
    BY <1>2, <1>3, <1>4, <1>5, <1>6 DEF SchedFits
  <1>8. Pumped(s) => Pumped(u)
    BY <1>4 DEF Pumped
  <1> QED BY <1>2, <1>3, <1>7, <1>8 DEF c, u

\* forget: the worker's queue and its place in the rotation are gone.
LEMMA ForgottenFits ==
  ASSUME NEW s, NEW Q, NEW H \in SUBSET Calls, SchedFits(s, Q, H), NEW w \in Workers
  PROVE  /\ SchedFits(Forgotten(s, w), Q \ Elems(s.queues[w]), H)
         /\ Pumped(s) => Pumped(Forgotten(s, w))
  <1> DEFINE u == Forgotten(s, w)
             o == Without(s.order, w)
  <1>1. /\ s.queues \in [Workers -> Seq(Calls)] /\ s.active \in [Workers -> Nat] /\ s.running \in Nat
        /\ s.order \in Seq(Workers) /\ s.starting \in Seq(Calls)
        /\ s = [queues |-> s.queues, order |-> s.order, active |-> s.active,
                running |-> s.running, starting |-> s.starting]
    BY DEF SchedStates, SchedFits
  <1>2. o \in Seq(Workers) /\ Once(o) /\ Elems(o) = Elems(s.order) \ {w}
    <2>1. Once(s.order)
      BY DEF SchedFits
    <2> QED BY <2>1, <1>1, WithoutFacts
  <1> HIDE DEF o
  <1>3. u = [queues |-> [s.queues EXCEPT ![w] = <<>>], order |-> o, active |-> s.active,
             running |-> s.running, starting |-> s.starting]
    <2>1. u = [s EXCEPT !.queues[w] = <<>>, !.order = o]
      BY DEF Forgotten, o
    <2> QED BY <2>1, <1>1
  <1>4. [s.queues EXCEPT ![w] = <<>>] \in [Workers -> Seq(Calls)]
    BY <1>1
  <1>5. /\ u \in SchedStates /\ u.order = o /\ u.active = s.active
        /\ u.running = s.running /\ u.starting = s.starting
    BY <1>1, <1>2, <1>3, <1>4 DEF SchedStates
  <1>6. \A v \in Workers : u.queues[v] = IF v = w THEN <<>> ELSE s.queues[v]
    BY <1>1, <1>3
  <1> HIDE DEF u
  <1>7. InSlots(u, H) = InSlots(s, H)
    BY <1>5 DEF InSlots
  <1>8. ASSUME NEW v \in Workers
        PROVE  /\ Once(u.queues[v]) /\ Elems(u.queues[v]) \subseteq Of(v)
               /\ Elems(u.queues[v]) \cap Elems(u.starting) = {}
               /\ u.queues[v] # <<>> => v \in Elems(u.order)
    <2>1. CASE v = w
      BY <2>1, <1>6, EmptyFacts
    <2>2. CASE v # w
      BY <2>2, <1>2, <1>5, <1>6 DEF SchedFits
    <2> QED BY <2>1, <2>2
  <1>9. ASSUME NEW e \in Calls
        PROVE  e \in Q \ Elems(s.queues[w]) <=> e \in Elems(u.starting) \/ e \in Elems(u.queues[By[e]])
    <2>1. By[e] \in Workers
      BY BridgeConstants
    <2>2. e \in Q <=> e \in Elems(s.starting) \/ e \in Elems(s.queues[By[e]])
      BY DEF SchedFits
    <2>3. e \in Elems(s.queues[w]) => By[e] = w /\ e \notin Elems(s.starting)
      BY DEF SchedFits, Of
    <2>4. CASE By[e] = w
      <3>1. Elems(u.queues[By[e]]) = {}
        BY <2>4, <1>6, EmptyFacts
      <3> QED BY <3>1, <2>2, <2>3, <2>4, <1>5
    <2>5. CASE By[e] # w
      BY <2>1, <2>2, <2>3, <2>5, <1>5, <1>6
    <2> QED BY <2>4, <2>5
  <1>10. SchedFits(u, Q \ Elems(s.queues[w]), H)
    BY <1>2, <1>5, <1>7, <1>8, <1>9 DEF SchedFits
  <1>11. Pumped(s) => Pumped(u)
    BY <1>5, <1>6 DEF Pumped
  <1> QED BY <1>10, <1>11 DEF u

\* The first k elements of a sequence, and what follows them.
LEMMA FrontFacts ==
  ASSUME NEW S, NEW s \in Seq(S), NEW k \in 0 .. Len(s), Once(s)
  PROVE  LET f == SubSeq(s, 1, k)
             t == SubSeq(s, k + 1, Len(s)) IN
         /\ f \in Seq(S) /\ t \in Seq(S) /\ Once(f) /\ Once(t)
         /\ Elems(f) = {s[i] : i \in 1 .. k} /\ Elems(f) \cup Elems(t) = Elems(s)
         /\ Elems(f) \cap Elems(t) = {}
  <1> DEFINE f == SubSeq(s, 1, k)
             t == SubSeq(s, k + 1, Len(s))
  <1>1. Len(s) \in Nat /\ k \in Nat /\ k <= Len(s) /\ DOMAIN s = 1 .. Len(s)
    BY LenProperties
  <1>2. f \in Seq(S) /\ Len(f) = k /\ DOMAIN f = 1 .. k /\ \A i \in 1 .. k : f[i] = s[i] /\ i \in 1 .. Len(s)
    <2>1. \A i \in 1 .. k : i \in 1 .. Len(s) /\ s[i] \in S
      BY <1>1, ElementOfSeq
    <2>2. f = [i \in 1 .. k |-> s[i]]
      BY <1>1
    <2>3. f \in [1 .. k -> S]
      BY <2>1, <2>2
    <2>4. f \in Seq(S)
      BY <2>3, <1>1, SeqDef
    <2> QED BY <1>1, <2>1, <2>2, <2>4, LenProperties
  <1>3. /\ t \in Seq(S) /\ Once(t) /\ Elems(t) = {s[i] : i \in k + 1 .. Len(s)}
        /\ \A i \in 1 .. k : s[i] \notin Elems(t)
    BY RestFacts
  <1> HIDE DEF f, t
  <1>4. Once(f)
    BY <1>1, <1>2 DEF Once
  <1>5. Elems(f) = {s[i] : i \in 1 .. k}
    BY <1>2 DEF Elems
  <1>6. \A i \in 1 .. Len(s) : i \in 1 .. k \/ i \in k + 1 .. Len(s)
    BY <1>1
  <1>7. \A i \in k + 1 .. Len(s) : i \in 1 .. Len(s)
    BY <1>1
  <1>8. Elems(f) \cup Elems(t) = Elems(s)
    BY <1>1, <1>2, <1>3, <1>5, <1>6, <1>7 DEF Elems
  <1> QED BY <1>2, <1>3, <1>4, <1>5, <1>8 DEF f, t

\* Two sequences with nothing in common, one after the other.
LEMMA OnceConcat ==
  ASSUME NEW S, NEW s \in Seq(S), NEW t \in Seq(S), Once(s), Once(t), Elems(s) \cap Elems(t) = {}
  PROVE  s \o t \in Seq(S) /\ Once(s \o t) /\ Elems(s \o t) = Elems(s) \cup Elems(t)
  <1> DEFINE u == s \o t
  <1>1. /\ Len(s) \in Nat /\ Len(t) \in Nat /\ DOMAIN s = 1 .. Len(s) /\ DOMAIN t = 1 .. Len(t)
    BY LenProperties
  <1>2. /\ u \in Seq(S) /\ Len(u) = Len(s) + Len(t) /\ DOMAIN u = 1 .. Len(s) + Len(t)
        /\ \A i \in 1 .. Len(s) + Len(t) : u[i] = IF i <= Len(s) THEN s[i] ELSE t[i - Len(s)]
    BY <1>1
  <1>3. Elems(u) = Elems(s) \cup Elems(t)
    BY ConcatFacts
  <1> HIDE DEF u
  <1>4. \A i \in 1 .. Len(s) + Len(t) :
          /\ i <= Len(s) => i \in DOMAIN s /\ u[i] = s[i] /\ u[i] \in Elems(s)
          /\ ~ (i <= Len(s)) => i - Len(s) \in DOMAIN t /\ u[i] = t[i - Len(s)] /\ u[i] \in Elems(t)
    <2> SUFFICES ASSUME NEW i \in 1 .. Len(s) + Len(t)
                 PROVE  /\ i <= Len(s) => i \in DOMAIN s /\ u[i] = s[i] /\ u[i] \in Elems(s)
                        /\ ~ (i <= Len(s)) => i - Len(s) \in DOMAIN t /\ u[i] = t[i - Len(s)] /\ u[i] \in Elems(t)
      OBVIOUS
    <2>1. /\ i <= Len(s) => i \in DOMAIN s /\ u[i] = s[i]
          /\ ~ (i <= Len(s)) => i - Len(s) \in DOMAIN t /\ u[i] = t[i - Len(s)]
      BY <1>1, <1>2
    <2>2. (\A j \in DOMAIN s : s[j] \in Elems(s)) /\ (\A j \in DOMAIN t : t[j] \in Elems(t))
      BY DEF Elems
    <2> QED BY <2>1, <2>2
  <1>5. Once(u)
    <2> SUFFICES ASSUME NEW i \in 1 .. Len(s) + Len(t), NEW j \in 1 .. Len(s) + Len(t), u[i] = u[j]
                 PROVE  i = j
      BY <1>2 DEF Once
    <2>1. CASE i <= Len(s) /\ j <= Len(s)
      BY <2>1, <1>4 DEF Once
    <2>2. CASE ~ (i <= Len(s)) /\ ~ (j <= Len(s))
      <3>1. i - Len(s) = j - Len(s)
        BY <2>2, <1>4 DEF Once
      <3> QED BY <3>1, <1>1
    <2>3. CASE i <= Len(s) /\ ~ (j <= Len(s))
      BY <2>3, <1>4
    <2>4. CASE ~ (i <= Len(s)) /\ j <= Len(s)
      BY <2>4, <1>4
    <2> QED BY <2>1, <2>2, <2>3, <2>4
  <1> QED BY <1>2, <1>3, <1>5 DEF u

\* k different elements are k.
LEMMA OnceCounts ==
  ASSUME NEW s \in Seq(Calls), NEW k \in 0 .. Len(s), Once(s)
  PROVE  Cardinality({s[i] : i \in 1 .. k}) = k
  <1>1. Len(s) \in Nat /\ k \in Nat /\ k <= Len(s) /\ DOMAIN s = 1 .. Len(s)
    BY LenProperties
  <1> DEFINE M(j) == {s[i] : i \in 1 .. j}
             T == {j \in 0 .. k : Cardinality(M(j)) = j}
  <1>2. 0 \in T
    <2>1. M(0) = {}
      OBVIOUS
    <2>2. Cardinality({}) = 0
      BY FS_EmptySet
    <2> QED BY <2>1, <2>2, <1>1
  <1>3. ASSUME NEW j \in 0 .. k - 1, j \in T PROVE j + 1 \in T
    <2>1. j + 1 \in 0 .. k /\ j + 1 \in 1 .. Len(s) /\ j \in Nat /\ \A i \in 1 .. j : i \in 1 .. Len(s) /\ i # j + 1
      BY <1>1
    <2>2. M(j) \subseteq Calls
      BY <2>1, ElementOfSeq
    <2>3. s[j + 1] \notin M(j)
      BY <2>1, <1>1 DEF Once
    <2>4. M(j + 1) = M(j) \cup {s[j + 1]}
      <3>1. \A i : i \in 1 .. j + 1 <=> i \in 1 .. j \/ i = j + 1
        BY <2>1
      <3> QED BY <3>1
    <2>5. Cardinality(M(j) \cup {s[j + 1]}) = Cardinality(M(j)) + 1
      <3> DEFINE A == M(j)
      <3> HIDE DEF A, M
      <3>1. A \subseteq Calls /\ s[j + 1] \notin A
        BY <2>2, <2>3 DEF A
      <3>2. Cardinality(A \cup {s[j + 1]}) = Cardinality(A) + 1
        BY <3>1, Countable
      <3> QED BY <3>2 DEF A
    <2>6. Cardinality(M(j)) = j
      BY <1>3
    <2> HIDE DEF M
    <2> QED BY <2>1, <2>4, <2>5, <2>6
  <1>4. k \in T
    <2>1. k \in 0 .. k
      BY <1>1
    <2> HIDE DEF T
    <2> QED BY <1>1, <1>2, <1>3, <2>1, UpTo
  <1> QED BY <1>4

\* The shared requests at the head of the lock's queue.
LEMMA LeadingFacts ==
  ASSUME NEW q \in Seq(Calls)
  PROVE  /\ LeadingShared(q) \in 0 .. Len(q)
         /\ \A i \in 1 .. LeadingShared(q) : call[q[i]].op \in SharedOps
         /\ LeadingShared(q) = 0 /\ q # <<>> => call[q[1]].op \notin SharedOps
  <1> DEFINE A == {k \in 0 .. Len(q) : \A i \in 1 .. k : call[q[i]].op \in SharedOps}
             B == {Len(q) - k : k \in A}
  <1>1. Len(q) \in Nat /\ 0 \in A /\ A \subseteq Nat
    BY LenProperties
  <1>2. B \subseteq Nat /\ B # {}
    BY <1>1
  <1>3. PICK b \in B : \A x \in B : b <= x
    <2> HIDE DEF B
    <2> QED BY <1>2, LeastNat
  <1>4. PICK m \in A : b = Len(q) - m
    OBVIOUS
  <1>5. \A k \in A : m >= k
    <2> SUFFICES ASSUME NEW k \in A PROVE m >= k
      OBVIOUS
    <2>1. Len(q) - k \in B /\ k \in Nat /\ m \in Nat
      BY <1>1, <1>4
    <2>2. Len(q) - m <= Len(q) - k
      BY <1>3, <1>4, <2>1
    <2> QED BY <2>1, <2>2, <1>1
  <1> DEFINE n == Max(A)
  <1>6. n \in A /\ \A k \in A : n >= k
    <2> HIDE DEF A
    <2> QED BY <1>4, <1>5 DEF Max
  <1>7. LeadingShared(q) = n
    BY DEF LeadingShared
  <1> HIDE DEF n
  <1>8. n = 0 /\ q # <<>> => call[q[1]].op \notin SharedOps
    <2> SUFFICES ASSUME n = 0, q # <<>>, call[q[1]].op \in SharedOps PROVE FALSE
      OBVIOUS
    <2>1. 1 \in 0 .. Len(q) /\ \A i \in 1 .. 1 : i = 1
      BY <1>1, EmptySeq
    <2>2. 1 \in A
      BY <2>1
    <2> QED BY <2>2, <1>6
  <1> QED BY <1>6, <1>7, <1>8

\* The lock's four fields.
LEMMA LockFields ==
  ASSUME NEW l \in LockStates
  PROVE  /\ l.readers \in Nat /\ l.writer \in BOOLEAN /\ l.queue \in Seq(Calls) /\ l.granted \in Seq(Calls)
         /\ l = [readers |-> l.readers, writer |-> l.writer, queue |-> l.queue, granted |-> l.granted]
  BY DEF LockStates

\* The head of the queue is let in as far as the holders allow.
LEMMA GrantingFits ==
  ASSUME NEW l, NEW W, NEW K \in SUBSET Calls, LockFits(l, W, K, OpOf)
  PROVE  LockFits(Granting(l), W, K, OpOf) /\ Waits(Granting(l))
  <1> DEFINE n == LeadingShared(l.queue)
             q == l.queue
             take(k) == [l EXCEPT !.queue = SubSeq(@, k + 1, Len(@)), !.granted = @ \o SubSeq(l.queue, 1, k)]
  <1>1. /\ l.readers \in Nat /\ l.writer \in BOOLEAN /\ q \in Seq(Calls) /\ l.granted \in Seq(Calls)
        /\ l = [readers |-> l.readers, writer |-> l.writer, queue |-> q, granted |-> l.granted]
    BY LockFields DEF LockFits
  <1>2. /\ n \in 0 .. Len(q) /\ (\A i \in 1 .. n : call[q[i]].op \in SharedOps)
        /\ n = 0 /\ q # <<>> => call[q[1]].op \notin SharedOps
    BY <1>1, LeadingFacts
  <1>3. Len(q) \in Nat /\ n \in Nat /\ \A i \in 1 .. Len(q) : q[i] \in Elems(q) /\ q[i] \in Calls
    BY <1>1, <1>2, ElemsFacts
  <1>4. Grantees(l, K) \subseteq Calls /\ W \subseteq Calls
    BY <1>1, ElemsFacts DEF Grantees, LockFits
  <1> HIDE DEF n
  <1>5. CASE l.writer \/ q = <<>>
    BY <1>5 DEF Granting, Waits
  <1>6. CASE ~ (l.writer \/ q = <<>>) /\ n = 0 /\ l.readers > 0
    BY <1>1, <1>6 DEF Granting, Waits, n
  <1>7. ASSUME NEW k \in 1 .. Len(q), ~l.writer,
               NEW r \in Nat, NEW x \in BOOLEAN, Granting(l) = [take(k) EXCEPT !.readers = r, !.writer = x],
               \A e \in Elems(q) : e \in {q[i] : i \in 1 .. k} =>
                 \/ call[e].op \in SharedOps /\ x = FALSE /\ r = l.readers + k
                 \/ call[e].op \in ExclusiveOps /\ x = TRUE /\ k = 1 /\ r = 0 /\ l.readers = 0
        PROVE  LockFits(Granting(l), W, K, OpOf) /\ Waits(Granting(l))
    <2> DEFINE f == SubSeq(q, 1, k)
               t == SubSeq(q, k + 1, Len(q))
               g == Granting(l)
               M == {q[i] : i \in 1 .. k}
    <2>1. k \in 0 .. Len(q) /\ k \in Nat /\ k > 0 /\ Once(q) /\ Once(l.granted) /\ 1 \in 1 .. k
      BY <1>3 DEF LockFits
    <2>2. /\ f \in Seq(Calls) /\ t \in Seq(Calls) /\ Once(f) /\ Once(t)
          /\ Elems(f) = M /\ Elems(f) \cup Elems(t) = Elems(q) /\ Elems(f) \cap Elems(t) = {}
      BY <1>1, <2>1, FrontFacts
    <2>3. g = [readers |-> r, writer |-> x, queue |-> t, granted |-> l.granted \o f]
      <3>1. g = [[l EXCEPT !.queue = t, !.granted = l.granted \o f] EXCEPT !.readers = r, !.writer = x]
        BY <1>7
      <3> HIDE DEF t, f, g
      <3> QED BY <3>1, <1>1
    <2> HIDE DEF f, t, g
    <2>4. Elems(l.granted) \cap Elems(f) = {}
      BY <2>2 DEF LockFits
    <2>5. /\ l.granted \o f \in Seq(Calls) /\ Once(l.granted \o f)
          /\ Elems(l.granted \o f) = Elems(l.granted) \cup Elems(f)
      BY <1>1, <2>1, <2>2, <2>4, OnceConcat
    <2>6. g \in LockStates /\ g.queue = t /\ g.granted = l.granted \o f /\ g.readers = r /\ g.writer = x
      BY <2>2, <2>3, <2>5 DEF LockStates
    <2>7. Grantees(g, K) = Grantees(l, K) \cup M /\ Grantees(l, K) \cap M = {} /\ M \subseteq Elems(q)
      BY <2>2, <2>4, <2>5, <2>6 DEF Grantees, LockFits
    <2>8. \A e \in Grantees(l, K) : OpOf[e] \in SharedOps /\ OpOf[e] \notin ExclusiveOps
      <3>1. \A e \in Grantees(l, K) : OpOf[e] \in PathOps /\ OpOf[e] \notin ExclusiveOps
        BY <1>7 DEF LockFits, Grantees
      <3> QED BY <3>1 DEF PathOps
    <2>9. \A e \in Calls : OpOf[e] = call[e].op
      BY DEF OpOf
    <2>10. M \subseteq Calls /\ M # {} /\ q[1] \in M
      BY <1>3, <2>1
    <2>11. /\ g.readers = Cardinality({e \in Grantees(g, K) : OpOf[e] \in SharedOps})
           /\ g.writer <=> \E e \in Grantees(g, K) : OpOf[e] \in ExclusiveOps
           /\ \A e \in Grantees(g, K) : OpOf[e] \in ExclusiveOps => Grantees(g, K) = {e}
           /\ Waits(g)
      <3> DEFINE A == Grantees(l, K)
      <3>0. SharedOps \cap ExclusiveOps = {}
        BY DEF SharedOps, ExclusiveOps
      <3>1. A \subseteq Calls /\ {e \in A : OpOf[e] \in SharedOps} = A /\ l.readers = Cardinality(A)
        <4>1. {e \in A : OpOf[e] \in SharedOps} = A
          BY <2>8
        <4>2. l.readers = Cardinality({e \in A : OpOf[e] \in SharedOps})
          BY DEF LockFits
        <4> QED BY <4>1, <4>2, <1>4
      <3> HIDE DEF A, M
      <3>2. CASE x = FALSE
        <4>1. \A e \in M : OpOf[e] \in SharedOps /\ OpOf[e] \notin ExclusiveOps /\ r = l.readers + k
          BY <3>2, <1>7, <2>7, <2>9, <2>10, <3>0 DEF M
        <4>2. {e \in A \cup M : OpOf[e] \in SharedOps} = A \cup M
          BY <4>1, <2>8 DEF A
        <4>3. Cardinality(M) = k
          BY <1>1, <2>1, OnceCounts DEF M
        <4>4. Cardinality(A \cup M) = Cardinality(A) + Cardinality(M)
          <5>1. IsFiniteSet(A) /\ IsFiniteSet(M) /\ Cardinality(A) \in Nat /\ Cardinality(M) \in Nat
            BY <3>1, <2>10, Countable
          <5>2. A \cap M = {}
            BY <2>7 DEF A
          <5>3. Cardinality(A \cup M) = Cardinality(A) + Cardinality(M) - Cardinality(A \cap M)
            BY <5>1, FS_Union
          <5>4. Cardinality(A \cap M) = 0
            BY <5>2, FS_EmptySet
          <5> QED BY <5>1, <5>3, <5>4
        <4>5. r = l.readers + k
          BY <4>1, <2>10
        <4>6. r = Cardinality(A \cup M) /\ r > 0
          BY <4>3, <4>4, <4>5, <3>1, <1>1, <2>1
        <4>7. Grantees(g, K) = A \cup M
          BY <2>7 DEF A
        <4>8. \A e \in A \cup M : OpOf[e] \notin ExclusiveOps
          BY <4>1, <2>8 DEF A
        <4> QED BY <4>2, <4>6, <4>7, <4>8, <3>2, <2>6 DEF Waits
      <3>3. CASE x = TRUE
        <4>1. \A e \in M : OpOf[e] \in ExclusiveOps /\ OpOf[e] \notin SharedOps /\ k = 1 /\ r = 0 /\ l.readers = 0
          BY <3>3, <1>7, <2>7, <2>9, <2>10, <3>0 DEF M
        <4>2. k = 1 /\ r = 0 /\ l.readers = 0
          BY <4>1, <2>10
        <4>3. A = {}
          BY <4>2, <3>1, Countable
        <4>4. M = {q[1]}
          <5>1. \A i \in 1 .. k : i = 1
            BY <4>2
          <5> QED BY <5>1, <2>1 DEF M
        <4>5. Grantees(g, K) = {q[1]}
          BY <2>7, <4>3, <4>4 DEF A
        <4>6. {e \in Grantees(g, K) : OpOf[e] \in SharedOps} = {}
          BY <4>1, <4>4, <4>5
        <4>7. g.readers = Cardinality({e \in Grantees(g, K) : OpOf[e] \in SharedOps})
          BY <4>2, <4>6, <2>6, FS_EmptySet
        <4> QED BY <4>1, <4>4, <4>5, <4>7, <3>3, <2>6 DEF Waits
      <3> QED BY <3>2, <3>3
    <2>12. /\ Elems(g.queue) \cap Elems(g.granted) = {} /\ W = Elems(g.queue) \cup Elems(g.granted)
      BY <2>2, <2>5, <2>6 DEF LockFits
    <2> QED BY <2>2, <2>5, <2>6, <2>11, <2>12 DEF LockFits, g
  <1>8. CASE ~ (l.writer \/ q = <<>>) /\ n > 0
    <2>1. Granting(l) = [take(n) EXCEPT !.readers = @ + n]
      BY <1>8 DEF Granting, n
    <2>2. [take(n) EXCEPT !.readers = @ + n] = [take(n) EXCEPT !.readers = l.readers + n, !.writer = FALSE]
      <3> DEFINE a == SubSeq(q, n + 1, Len(q))
                 b == l.granted \o SubSeq(q, 1, n)
                 y == take(n)
      <3>1. y = [l EXCEPT !.queue = a, !.granted = b] /\ l.writer = FALSE
        BY <1>1, <1>8
      <3> HIDE DEF a, b, y
      <3>2. y = [readers |-> l.readers, writer |-> FALSE, queue |-> a, granted |-> b]
        BY <3>1, <1>1
      <3>3. [y EXCEPT !.readers = @ + n] = [y EXCEPT !.readers = l.readers + n, !.writer = FALSE]
        <4> DEFINE z1 == [y EXCEPT !.readers = @ + n]
                   z2 == [y EXCEPT !.readers = l.readers + n, !.writer = FALSE]
        <4>1. z1 = [y EXCEPT !.readers = @ + n] /\ z2 = [y EXCEPT !.readers = l.readers + n, !.writer = FALSE]
          OBVIOUS
        <4> HIDE DEF z1, z2
        <4>2. z1 = [readers |-> l.readers + n, writer |-> FALSE, queue |-> a, granted |-> b]
          BY <4>1, <3>2, <1>1
        <4>3. z2 = [readers |-> l.readers + n, writer |-> FALSE, queue |-> a, granted |-> b]
          BY <4>1, <3>2, <1>1
        <4> QED BY <4>1, <4>2, <4>3
      <3> QED BY <3>3 DEF y
    <2>3. Granting(l) = [take(n) EXCEPT !.readers = l.readers + n, !.writer = FALSE]
      BY <2>1, <2>2
    <2>4. n \in 1 .. Len(q) /\ l.readers + n \in Nat /\ FALSE \in BOOLEAN /\ ~l.writer
      BY <1>1, <1>2, <1>3, <1>8
    <2>5. \A e \in Elems(q) : e \in {q[i] : i \in 1 .. n} => call[e].op \in SharedOps
      BY <1>2
    <2> HIDE DEF take
    <2> QED BY <2>3, <2>4, <2>5, <1>7
  <1>9. CASE ~ (l.writer \/ q = <<>>) /\ n = 0 /\ l.readers = 0
    <2>1. Granting(l) = [take(1) EXCEPT !.writer = TRUE]
      BY <1>9 DEF Granting, n
    <2>2. [take(1) EXCEPT !.writer = TRUE] = [take(1) EXCEPT !.readers = 0, !.writer = TRUE]
      <3> DEFINE a == SubSeq(q, 1 + 1, Len(q))
                 b == l.granted \o SubSeq(q, 1, 1)
                 y == take(1)
      <3>1. y = [l EXCEPT !.queue = a, !.granted = b] /\ l.readers = 0
        BY <1>9
      <3> HIDE DEF a, b, y
      <3>2. y = [readers |-> 0, writer |-> l.writer, queue |-> a, granted |-> b]
        BY <3>1, <1>1
      <3>3. [y EXCEPT !.writer = TRUE] = [y EXCEPT !.readers = 0, !.writer = TRUE]
        <4> DEFINE z1 == [y EXCEPT !.writer = TRUE]
                   z2 == [y EXCEPT !.readers = 0, !.writer = TRUE]
        <4>1. z1 = [y EXCEPT !.writer = TRUE] /\ z2 = [y EXCEPT !.readers = 0, !.writer = TRUE]
          OBVIOUS
        <4> HIDE DEF z1, z2
        <4>2. z1 = [readers |-> 0, writer |-> TRUE, queue |-> a, granted |-> b]
          BY <4>1, <3>2, <1>1
        <4>3. z2 = [readers |-> 0, writer |-> TRUE, queue |-> a, granted |-> b]
          BY <4>1, <3>2, <1>1
        <4> QED BY <4>1, <4>2, <4>3
      <3> QED BY <3>3 DEF y
    <2>3. Granting(l) = [take(1) EXCEPT !.readers = 0, !.writer = TRUE]
      BY <2>1, <2>2
    <2>4. 1 \in 1 .. Len(q) /\ q[1] \in Elems(q) /\ q[1] \in Calls
      <3>1. 1 \in 1 .. Len(q)
        BY <1>1, <1>3, <1>9, EmptySeq
      <3> QED BY <3>1, <1>3
    <2>5. call[q[1]].op \in ExclusiveOps
      <3>1. OpOf[q[1]] \in PathOps /\ OpOf[q[1]] = call[q[1]].op
        BY <2>4 DEF LockFits, OpOf
      <3>2. call[q[1]].op \notin SharedOps
        BY <1>2, <1>9
      <3> QED BY <3>1, <3>2 DEF PathOps
    <2>6. \A e \in {q[i] : i \in 1 .. 1} : e = q[1]
      OBVIOUS
    <2>7. ~l.writer /\ l.readers = 0 /\ 0 \in Nat /\ TRUE \in BOOLEAN
      BY <1>9
    <2> HIDE DEF take
    <2> QED BY <2>3, <2>4, <2>5, <2>6, <2>7, <1>7
  <1>10. n > 0 \/ n = 0
    BY <1>3
  <1>11. l.readers > 0 \/ l.readers = 0
    BY <1>1
  <1> QED BY <1>5, <1>6, <1>8, <1>9, <1>10, <1>11

\* The lock is given back, and goes to whoever is next.
LEMMA ReleasedFits ==
  ASSUME NEW l, NEW W, NEW K \in SUBSET Calls, LockFits(l, W, K, OpOf), NEW c \in K
  PROVE  LockFits(LockReleased(l, c), W, K \ {c}, OpOf) /\ Waits(LockReleased(l, c))
  <1>1. /\ l.readers \in Nat /\ l.writer \in BOOLEAN /\ l.queue \in Seq(Calls) /\ l.granted \in Seq(Calls)
        /\ l = [readers |-> l.readers, writer |-> l.writer, queue |-> l.queue, granted |-> l.granted]
    BY LockFields DEF LockFits
  <1>2. c \in Calls /\ OpOf[c] = call[c].op /\ c \in Grantees(l, K) /\ c \notin Elems(l.granted)
    BY DEF OpOf, Grantees, LockFits
  <1>3. Grantees(l, K) \subseteq Calls
    BY <1>1, ElemsFacts DEF Grantees
  <1>4. K \ {c} \in SUBSET Calls
    OBVIOUS
  <1>5. CASE call[c].op \in ExclusiveOps
    <2> DEFINE u == [l EXCEPT !.writer = FALSE]
    <2>1. LockReleased(l, c) = Granting(u)
      BY <1>5 DEF LockReleased
    <2>2. u = [readers |-> l.readers, writer |-> FALSE, queue |-> l.queue, granted |-> l.granted]
      <3>1. u = [l EXCEPT !.writer = FALSE]
        OBVIOUS
      <3> HIDE DEF u
      <3> QED BY <3>1, <1>1
    <2>3. u \in LockStates /\ u.readers = l.readers /\ u.writer = FALSE /\ u.queue = l.queue /\ u.granted = l.granted
      BY <2>2, <1>1 DEF LockStates
    <2> HIDE DEF u
    <2>4. Grantees(l, K) = {c}
      BY <1>2, <1>5 DEF LockFits
    <2>5. Grantees(u, K \ {c}) = {}
      BY <2>3, <2>4, <1>2 DEF Grantees
    <2>6. {e \in Grantees(l, K) : OpOf[e] \in SharedOps} = {}
      BY <2>4, <1>2, <1>5 DEF SharedOps, ExclusiveOps
    <2>7. {e \in Grantees(u, K \ {c}) : OpOf[e] \in SharedOps} = {}
      BY <2>5
    <2>8. u.readers = Cardinality({e \in Grantees(u, K \ {c}) : OpOf[e] \in SharedOps})
      BY <2>3, <2>6, <2>7 DEF LockFits
    <2>9. LockFits(u, W, K \ {c}, OpOf)
      BY <2>3, <2>5, <2>8 DEF LockFits
    <2> QED BY <2>1, <2>9, <1>4, GrantingFits
  <1>6. CASE call[c].op \notin ExclusiveOps
    <2> DEFINE u == [l EXCEPT !.readers = @ - 1]
               A == {e \in Grantees(l, K) : OpOf[e] \in SharedOps}
    <2>1. LockReleased(l, c) = Granting(u)
      BY <1>6 DEF LockReleased
    <2>2. c \in A /\ A \subseteq Calls /\ A \ {c} \subseteq Calls /\ l.readers = Cardinality(A)
      <3>1. OpOf[c] \in PathOps
        BY DEF LockFits
      <3> QED BY <3>1, <1>2, <1>3, <1>6 DEF LockFits, PathOps
    <2> HIDE DEF A
    <2>3. l.readers - 1 = Cardinality(A \ {c}) /\ l.readers - 1 \in Nat
      <3>1. Cardinality(A \ {c}) = Cardinality(A) - 1 /\ Cardinality(A \ {c}) \in Nat
        BY <2>2, Countable
      <3> QED BY <3>1, <2>2
    <2>4. u = [readers |-> l.readers - 1, writer |-> l.writer, queue |-> l.queue, granted |-> l.granted]
      <3>1. u = [l EXCEPT !.readers = @ - 1]
        OBVIOUS
      <3> HIDE DEF u
      <3> QED BY <3>1, <1>1
    <2>5. /\ u \in LockStates /\ u.readers = l.readers - 1 /\ u.writer = l.writer /\ u.queue = l.queue
          /\ u.granted = l.granted
      BY <2>4, <2>3, <1>1 DEF LockStates
    <2> HIDE DEF u
    <2>6. Grantees(u, K \ {c}) = Grantees(l, K) \ {c}
      BY <2>5, <1>2 DEF Grantees
    <2>7. {e \in Grantees(u, K \ {c}) : OpOf[e] \in SharedOps} = A \ {c}
      BY <2>6 DEF A
    <2>8. u.writer <=> \E e \in Grantees(u, K \ {c}) : OpOf[e] \in ExclusiveOps
      BY <2>5, <2>6, <1>2, <1>6 DEF LockFits
    <2>9. \A e \in Grantees(u, K \ {c}) : OpOf[e] \in ExclusiveOps => Grantees(u, K \ {c}) = {e}
      BY <2>6, <1>2 DEF LockFits
    <2>10. LockFits(u, W, K \ {c}, OpOf)
      <3>1. \A e \in W \cup (K \ {c}) : OpOf[e] \in PathOps
        BY DEF LockFits
      <3>2. u.readers = Cardinality({e \in Grantees(u, K \ {c}) : OpOf[e] \in SharedOps})
        BY <2>3, <2>5, <2>7
      <3>3. W \cap (K \ {c}) = {}
        BY DEF LockFits
      <3> QED BY <3>1, <3>2, <3>3, <2>5, <2>8, <2>9 DEF LockFits
    <2> QED BY <2>1, <2>10, <1>4, GrantingFits
  <1> QED BY <1>5, <1>6

\* A call joins the queue.
LEMMA EnqueuedFits ==
  ASSUME NEW l, NEW W, NEW K \in SUBSET Calls, LockFits(l, W, K, OpOf),
         NEW c \in Calls, c \notin W, c \notin K, call[c].op \in PathOps
  PROVE  LET u == Granting([l EXCEPT !.queue = Append(@, c)]) IN
         LockFits(u, W \cup {c}, K, OpOf) /\ Waits(u)
  <1> DEFINE u == [l EXCEPT !.queue = Append(@, c)]
  <1>1. /\ l.readers \in Nat /\ l.writer \in BOOLEAN /\ l.queue \in Seq(Calls) /\ l.granted \in Seq(Calls)
        /\ l = [readers |-> l.readers, writer |-> l.writer, queue |-> l.queue, granted |-> l.granted]
    BY LockFields DEF LockFits
  <1>2. Once(l.queue) /\ c \notin Elems(l.queue) /\ c \notin Elems(l.granted)
    BY DEF LockFits
  <1>3. /\ Append(l.queue, c) \in Seq(Calls) /\ Once(Append(l.queue, c))
        /\ Elems(Append(l.queue, c)) = Elems(l.queue) \cup {c}
    <2> DEFINE q == l.queue
    <2>1. q \in Seq(Calls) /\ Once(q) /\ c \notin Elems(q)
      BY <1>1, <1>2
    <2> HIDE DEF q
    <2>2. Append(q, c) \in Seq(Calls) /\ Once(Append(q, c)) /\ Elems(Append(q, c)) = Elems(q) \cup {c}
      BY <2>1, AppendFacts
    <2> QED BY <2>2 DEF q
  <1>4. u = [readers |-> l.readers, writer |-> l.writer, queue |-> Append(l.queue, c), granted |-> l.granted]
    <2>1. u = [l EXCEPT !.queue = Append(@, c)]
      OBVIOUS
    <2> HIDE DEF u
    <2> QED BY <2>1, <1>1
  <1>5. /\ u \in LockStates /\ u.readers = l.readers /\ u.writer = l.writer
        /\ u.queue = Append(l.queue, c) /\ u.granted = l.granted
    BY <1>1, <1>3, <1>4 DEF LockStates
  <1> HIDE DEF u
  <1>6. Grantees(u, K) = Grantees(l, K)
    BY <1>5 DEF Grantees
  <1>7. OpOf[c] \in PathOps
    BY DEF OpOf
  <1>8. LockFits(u, W \cup {c}, K, OpOf)
    <2>1. Once(u.queue) /\ Once(u.granted) /\ Elems(u.queue) \cap Elems(u.granted) = {}
          /\ W \cup {c} = Elems(u.queue) \cup Elems(u.granted) /\ (W \cup {c}) \cap K = {}
      BY <1>2, <1>3, <1>5 DEF LockFits
    <2>2. \A e \in (W \cup {c}) \cup K : OpOf[e] \in PathOps
      BY <1>7 DEF LockFits
    <2> QED BY <2>1, <2>2, <1>5, <1>6 DEF LockFits
  <1> QED BY <1>8, GrantingFits DEF u

\* The next of the granted goes on to the scheduler.
LEMMA GoesOnFits ==
  ASSUME NEW l, NEW W, NEW K \in SUBSET Calls, NEW o, LockFits(l, W, K, o), Waits(l), l.granted # <<>>
  PROVE  LET c == Head(l.granted)
             u == [l EXCEPT !.granted = Tail(@)] IN
         /\ c \in Calls /\ c \in W /\ LockFits(u, W \ {c}, K \cup {c}, o) /\ Waits(u)
  <1> DEFINE c == Head(l.granted)
             u == [l EXCEPT !.granted = Tail(@)]
  <1>1. /\ l.readers \in Nat /\ l.writer \in BOOLEAN /\ l.queue \in Seq(Calls) /\ l.granted \in Seq(Calls)
        /\ l = [readers |-> l.readers, writer |-> l.writer, queue |-> l.queue, granted |-> l.granted]
    BY LockFields DEF LockFits
  <1>2. /\ Tail(l.granted) \in Seq(Calls) /\ Once(Tail(l.granted)) /\ c \in Calls /\ c \in Elems(l.granted)
        /\ Elems(Tail(l.granted)) = Elems(l.granted) \ {c}
    <2>1. Once(l.granted)
      BY DEF LockFits
    <2> QED BY <1>1, <2>1, TailFacts
  <1>3. u = [readers |-> l.readers, writer |-> l.writer, queue |-> l.queue, granted |-> Tail(l.granted)]
    <2>1. u = [l EXCEPT !.granted = Tail(@)]
      OBVIOUS
    <2> HIDE DEF u
    <2> QED BY <2>1, <1>1
  <1>4. /\ u \in LockStates /\ u.readers = l.readers /\ u.writer = l.writer
        /\ u.queue = l.queue /\ u.granted = Tail(l.granted)
    BY <1>1, <1>2, <1>3 DEF LockStates
  <1> HIDE DEF u, c
  <1>5. Grantees(u, K \cup {c}) = Grantees(l, K)
    BY <1>2, <1>4 DEF Grantees
  <1>6. /\ c \in W /\ Elems(u.queue) \cap Elems(u.granted) = {}
        /\ W \ {c} = Elems(u.queue) \cup Elems(u.granted) /\ (W \ {c}) \cap (K \cup {c}) = {}
        /\ (W \ {c}) \cup (K \cup {c}) = W \cup K
    BY <1>2, <1>4 DEF LockFits
  <1>7. LockFits(u, W \ {c}, K \cup {c}, o)
    BY <1>2, <1>4, <1>5, <1>6 DEF LockFits
  <1>8. Waits(u)
    BY <1>4 DEF Waits
  <1> QED BY <1>2, <1>6, <1>7, <1>8 DEF u, c

\* Only the operations of the calls in it matter to a lock.
LEMMA LockSame ==
  ASSUME NEW l, NEW W, NEW K, NEW o, NEW p, LockFits(l, W, K, o), \A c \in W \cup K : p[c] = o[c]
  PROVE  LockFits(l, W, K, p)
  <1>1. \A c \in Grantees(l, K) : p[c] = o[c]
    BY DEF Grantees, LockFits
  <1>2. {c \in Grantees(l, K) : p[c] \in SharedOps} = {c \in Grantees(l, K) : o[c] \in SharedOps}
    BY <1>1
  <1> QED BY <1>1, <1>2 DEF LockFits

\* Call c goes to stage a with result r.
SetsTo(c, a, r) ==
  /\ call' \in [Calls -> CallStates] /\ call'[c].st = a /\ call'[c].res = r
  /\ \A e \in Calls : /\ e # c => call'[e] = call[e]
                      /\ call'[e].op = call[e].op /\ call'[e].sync = call[e].sync /\ call'[e].fd = call[e].fd

\* A call gets its stage and its result.
LEMMA SetsBoth ==
  ASSUME BridgeTypeOK, NEW c \in Calls, NEW a \in Accepted \cup {"over"}, NEW r \in Results,
         call' = [call EXCEPT ![c].st = a, ![c].res = r]
  PROVE  SetsTo(c, a, r)
  <1>1. call \in [Calls -> CallStates] /\ call[c] \in CallStates
    BY DEF BridgeTypeOK
  <1>2. call'[c] = [op |-> call[c].op, sync |-> call[c].sync, fd |-> call[c].fd, st |-> a, res |-> r]
    BY <1>1 DEF CallStates
  <1>3. call'[c] \in CallStates
    BY <1>1, <1>2 DEF CallStates
  <1>4. \A e \in Calls : e # c => call'[e] = call[e]
    BY <1>1
  <1>5. call' \in [Calls -> CallStates]
    BY <1>1, <1>3, <1>4
  <1> QED BY <1>2, <1>4, <1>5 DEF SetsTo

\* A call gets its stage and keeps its result.
LEMMA SetsStage ==
  ASSUME BridgeTypeOK, NEW c \in Calls, NEW a \in Accepted \cup {"over"}, call' = [call EXCEPT ![c].st = a]
  PROVE  SetsTo(c, a, call[c].res)
  <1>1. call \in [Calls -> CallStates] /\ call[c] \in CallStates
    BY DEF BridgeTypeOK
  <1>2. call'[c] = [op |-> call[c].op, sync |-> call[c].sync, fd |-> call[c].fd, st |-> a, res |-> call[c].res]
    BY <1>1 DEF CallStates
  <1>3. call'[c] \in CallStates
    BY <1>1, <1>2 DEF CallStates
  <1>4. \A e \in Calls : e # c => call'[e] = call[e]
    BY <1>1
  <1>5. call' \in [Calls -> CallStates]
    BY <1>1, <1>3, <1>4
  <1> QED BY <1>2, <1>4, <1>5 DEF SetsTo

\* The fields of a call.
LEMMA CallFields ==
  ASSUME BridgeTypeOK, NEW c \in Calls
  PROVE  /\ call[c] \in CallStates /\ call[c].op \in PathOps \cup FdOps \cup {"none"}
         /\ call[c].sync \in BOOLEAN /\ call[c].fd \in Calls \cup {NoCall}
         /\ call[c].st \in Accepted \cup {"new", "sent", "over"} /\ call[c].res \in Results
         /\ By[c] \in Workers /\ NoCall \notin Calls /\ NoCall \notin Workers
  BY BridgeConstants DEF BridgeTypeOK, CallStates

\* What the sets of the invariant are about.
LEMMA SetFacts ==
  ASSUME NEW w \in Workers
  PROVE  /\ InWork(w) \subseteq Calls /\ Late(w) \subseteq Calls /\ Blocking(w) \subseteq Calls
         /\ Locking(w) \subseteq Calls /\ Past(w) \in SUBSET Calls /\ Hosted \in SUBSET Calls
         /\ Queued \subseteq Calls /\ Locking(w)' \subseteq Calls /\ Past(w)' \in SUBSET Calls
         /\ Hosted' \in SUBSET Calls
  BY DEF InWork, Late, Blocking, Locking, Past, Hosted, Queued, Of

\* A port has what it had, in part or all of it, and at most a reply r to call c.
OnePort(c, r) ==
  \A w \in Workers : \A i \in DOMAIN port'[w] :
    port'[w][i] = <<c, r>> \/ \E j \in DOMAIN port[w] : port'[w][i] = port[w][j]

\* Calls only go on, and none is answered "ok" before it is over.
Onwards ==
  \A e \in Calls : /\ call'[e].op = call[e].op /\ call'[e].fd = call[e].fd
                   /\ call[e].st = "over" => call'[e].st = "over"
                   /\ call'[e].st \in {"new", "sent"} => call[e].st \in {"new", "sent"} /\ call'[e].res = call[e].res
                   /\ call'[e].res = "ok" => call'[e].st = "over"

\* What a reply adds to a port.
LEMMA ReplyFacts ==
  ASSUME BridgeTypeOK, NEW c \in Calls, NEW r \in Results, Reply(c, r)
  PROVE  /\ port' \in [Workers -> Seq(Calls \X Results)] /\ back' \subseteq Calls
         /\ bump' \in Workers \cup {NoCall}
         /\ OnePort(c, r)
  <1> DEFINE w == By[c]
             m == <<c, r>>
  <1>1. /\ port \in [Workers -> Seq(Calls \X Results)] /\ back \subseteq Calls /\ bump \in Workers \cup {NoCall}
        /\ w \in Workers /\ m \in Calls \X Results
    BY CallFields DEF BridgeTypeOK
  <1>2. CASE UNCHANGED <<port, back, bump>>
    BY <1>1, <1>2 DEF OnePort
  <1>3. CASE /\ port' = [port EXCEPT ![w] = Append(@, m)] /\ bump' = w /\ UNCHANGED back
    <2> DEFINE q == port[w]
    <2>1. q \in Seq(Calls \X Results)
      BY <1>1
    <2> HIDE DEF q, m, w
    <2>2. /\ Append(q, m) \in Seq(Calls \X Results) /\ Append(q, m)[Len(q) + 1] = m
          /\ DOMAIN Append(q, m) = DOMAIN q \cup {Len(q) + 1}
          /\ \A i \in DOMAIN q : Append(q, m)[i] = q[i]
      BY <2>1, <1>1, AppendIndex
    <2>3. port' \in [Workers -> Seq(Calls \X Results)] /\ port'[w] = Append(q, m)
          /\ \A v \in Workers : v # w => port'[v] = port[v]
      BY <1>1, <1>3, <2>2 DEF q
    <2>4. \A v \in Workers : \A i \in DOMAIN port'[v] :
            port'[v][i] = m \/ \E j \in DOMAIN port[v] : port'[v][i] = port[v][j]
      <3> SUFFICES ASSUME NEW v \in Workers, NEW i \in DOMAIN port'[v], port'[v][i] # m
                   PROVE  \E j \in DOMAIN port[v] : port'[v][i] = port[v][j]
        OBVIOUS
      <3>1. CASE v = w
        BY <3>1, <2>2, <2>3 DEF q
      <3>2. CASE v # w
        BY <3>2, <2>3
      <3> QED BY <3>1, <3>2
    <2> QED BY <2>3, <2>4, <1>1, <1>3 DEF m, OnePort
  <1>4. CASE back' = back \cup {c} /\ UNCHANGED <<port, bump>>
    BY <1>1, <1>4 DEF OnePort
  <1> QED BY <1>2, <1>3, <1>4 DEF Reply

\* What a step of the main thread leaves of Replies.
LEMMA RepliesKept ==
  ASSUME BridgeTypeOK, Replies, client' = client, got' = got, NEW c \in Calls, NEW r,
         Onwards,
         r = "ok" => call'[c].st = "over",
         OnePort(c, r)
  PROVE  Replies'
  <1>1. \A w \in Workers : client'[w].pc \in {"load", "drain", "check", "asleep"} => client'[w].cur \in Calls
    BY DEF Replies
  <1>2. ASSUME NEW e \in Calls
        PROVE  /\ call'[e].op \in FdOps <=> call'[e].fd # NoCall
               /\ call'[e].fd # NoCall => By[call'[e].fd] = By[e] /\ call'[call'[e].fd].st = "over"
               /\ call'[e].st \in {"new", "sent"} => call'[e].res = "none"
               /\ call'[e].res = "ok" => call'[e].st = "over"
               /\ got'[e] # <<>> => got'[e][1] = e /\ (got'[e][2] = "ok" => call'[e].st = "over")
    <2>1. call[e].fd \in Calls \cup {NoCall}
      BY CallFields
    <2> QED BY <2>1 DEF Replies, Onwards
  <1>3. ASSUME NEW w \in Workers, NEW i \in DOMAIN port'[w], port'[w][i][2] = "ok"
        PROVE  call'[port'[w][i][1]].st = "over"
    <2>1. CASE port'[w][i] = <<c, r>>
      BY <1>3, <2>1
    <2>2. CASE \E j \in DOMAIN port[w] : port'[w][i] = port[w][j]
      <3>1. PICK j \in DOMAIN port[w] : port'[w][i] = port[w][j]
        BY <2>2
      <3>2. port[w][j] \in Calls \X Results
        <4>1. port[w] \in Seq(Calls \X Results)
          BY DEF BridgeTypeOK
        <4> QED BY <4>1, ElementOfSeq
      <3>3. call[port[w][j][1]].st = "over" /\ port[w][j][1] \in Calls
        BY <1>3, <3>1, <3>2 DEF Replies
      <3> QED BY <3>1, <3>3 DEF Onwards
    <2> QED BY <2>1, <2>2 DEF OnePort
  <1> QED BY <1>1, <1>2, <1>3 DEF Replies

\* Set A with c, or without.
Put(A, c, p) == IF p THEN A \cup {c} ELSE A \ {c}

\* Where a call goes when its stage changes; the others stay where they are.
LEMMA Moves ==
  ASSUME NEW c \in Calls, NEW a, NEW r, SetsTo(c, a, r)
  PROVE  /\ \A v \in Workers :
              /\ InWork(v)' = Put(InWork(v), c, v = By[c] /\ a \in Accepted)
              /\ Late(v)' = Put(Late(v), c, v = By[c] /\ a \in Accepted /\ r # "none")
              /\ Blocking(v)' = Put(Blocking(v), c, v = By[c] /\ a \in Accepted /\ r = "none" /\ call[c].sync)
              /\ Locking(v)' = Put(Locking(v), c, v = By[c] /\ a = "locking")
              /\ Past(v)' = Put(Past(v), c, v = By[c] /\ Held(c) /\ a \in {"queued", "run", "opening", "rejected"})
         /\ Queued' = Put(Queued, c, a = "queued")
         /\ Hosted' = Put(Hosted, c, a \in {"run", "opening"})
         /\ \A d \in Calls : OnFd(d)' = Put(OnFd(d), c, a = "run" /\ call[c].op \in FdOps /\ call[c].fd = d)
         /\ OpOf' = OpOf
  <1>1. call'[c].st = a /\ call'[c].res = r
        /\ \A e \in Calls : /\ e # c => call'[e].st = call[e].st /\ call'[e].res = call[e].res
                            /\ call'[e].op = call[e].op /\ call'[e].sync = call[e].sync /\ call'[e].fd = call[e].fd
    BY DEF SetsTo
  <1>2. ASSUME NEW v \in Workers
        PROVE  /\ InWork(v)' = Put(InWork(v), c, v = By[c] /\ a \in Accepted)
               /\ Late(v)' = Put(Late(v), c, v = By[c] /\ a \in Accepted /\ r # "none")
               /\ Blocking(v)' = Put(Blocking(v), c, v = By[c] /\ a \in Accepted /\ r = "none" /\ call[c].sync)
    <2>1. InWork(v)' = Put(InWork(v), c, v = By[c] /\ a \in Accepted)
      BY <1>1 DEF InWork, Of, Put
    <2>2. Late(v)' = Put(Late(v), c, v = By[c] /\ a \in Accepted /\ r # "none")
      BY <1>1 DEF InWork, Late, Of, Put
    <2>3. Blocking(v)' = Put(Blocking(v), c, v = By[c] /\ a \in Accepted /\ r = "none" /\ call[c].sync)
      BY <1>1 DEF InWork, Blocking, Of, Put
    <2> QED BY <2>1, <2>2, <2>3
  <1>3. ASSUME NEW v \in Workers
        PROVE  /\ Locking(v)' = Put(Locking(v), c, v = By[c] /\ a = "locking")
               /\ Past(v)' = Put(Past(v), c, v = By[c] /\ Held(c) /\ a \in {"queued", "run", "opening", "rejected"})
    <2>1. Locking(v)' = Put(Locking(v), c, v = By[c] /\ a = "locking")
      BY <1>1 DEF Locking, Of, Put
    <2>2. Past(v)' = Put(Past(v), c, v = By[c] /\ Held(c) /\ a \in {"queued", "run", "opening", "rejected"})
      BY <1>1 DEF Past, Of, Put, Held
    <2> QED BY <2>1, <2>2
  <1>4. Queued' = Put(Queued, c, a = "queued")
    BY <1>1 DEF Queued, Put
  <1>5. Hosted' = Put(Hosted, c, a \in {"run", "opening"})
    BY <1>1 DEF Hosted, OnHost, Put
  <1>6. ASSUME NEW d \in Calls
        PROVE  OnFd(d)' = Put(OnFd(d), c, a = "run" /\ call[c].op \in FdOps /\ call[c].fd = d)
    BY <1>1 DEF OnFd, Put
  <1>7. OpOf' = OpOf
    BY <1>1 DEF OpOf
  <1> QED BY <1>2, <1>3, <1>4, <1>5, <1>6, <1>7

\* The fields of a bridge.
LEMMA BridgeFields ==
  ASSUME BridgeTypeOK, NEW w \in Workers
  PROVE  /\ bridge \in [Workers -> [stuck : Nat, syncIn : {0, 1}, inFlight : Nat, closed : BOOLEAN]]
         /\ bridge[w].stuck \in Nat /\ bridge[w].syncIn \in {0, 1} /\ bridge[w].inFlight \in Nat
         /\ bridge[w].closed \in BOOLEAN
         /\ bridge[w] = [stuck |-> bridge[w].stuck, syncIn |-> bridge[w].syncIn,
                         inFlight |-> bridge[w].inFlight, closed |-> bridge[w].closed]
  BY DEF BridgeTypeOK

\* One bridge's counters are set.
SetsCounters(w, f, g, h) ==
  bridge' = [bridge EXCEPT ![w] = [stuck |-> g, syncIn |-> h, inFlight |-> f, closed |-> @.closed]]
Counts(c, a, r, f, g, h) ==
  /\ f = Cardinality(Put(InWork(By[c]), c, a \in Accepted))
  /\ g = Cardinality(Put(Late(By[c]), c, a \in Accepted /\ r # "none"))
  /\ h = Cardinality(Put(Blocking(By[c]), c, a \in Accepted /\ r = "none" /\ call[c].sync))

\* One bridge's counters change as its calls do.
LEMMA CountedKept ==
  ASSUME BridgeTypeOK, Counted, NEW c \in Calls, NEW a, NEW r, SetsTo(c, a, r),
         NEW f \in Int, NEW g \in Int, NEW h \in Int,
         SetsCounters(By[c], f, g, h), Counts(c, a, r, f, g, h),
         h <= 1
  PROVE  /\ Counted' /\ bridge' \in [Workers -> [stuck : Nat, syncIn : {0, 1}, inFlight : Nat, closed : BOOLEAN]]
         /\ \A w \in Workers : bridge'[w].closed = bridge[w].closed
  <1> DEFINE w == By[c]
  <1>1. w \in Workers
    BY CallFields
  <1>2. /\ bridge \in [Workers -> [stuck : Nat, syncIn : {0, 1}, inFlight : Nat, closed : BOOLEAN]]
        /\ bridge[w].closed \in BOOLEAN
    BY <1>1, BridgeFields
  <1>3. f \in Nat /\ g \in Nat /\ h \in {0, 1}
    <2>1. /\ Put(InWork(w), c, a \in Accepted) \subseteq Calls
          /\ Put(Late(w), c, a \in Accepted /\ r # "none") \subseteq Calls
          /\ Put(Blocking(w), c, a \in Accepted /\ r = "none" /\ call[c].sync) \subseteq Calls
      BY <1>1, SetFacts DEF Put
    <2>2. f \in Nat
      BY <2>1, Countable DEF Counts
    <2>3. g \in Nat
      BY <2>1, Countable DEF Counts
    <2>4. h \in Nat
      BY <2>1, Countable DEF Counts
    <2> QED BY <2>2, <2>3, <2>4
  <1>4. /\ bridge'[w] = [stuck |-> g, syncIn |-> h, inFlight |-> f, closed |-> bridge[w].closed]
        /\ \A v \in Workers : v # w => bridge'[v] = bridge[v]
    BY <1>1, <1>2 DEF SetsCounters
  <1>5. bridge' \in [Workers -> [stuck : Nat, syncIn : {0, 1}, inFlight : Nat, closed : BOOLEAN]]
    <2>1. bridge'[w] \in [stuck : Nat, syncIn : {0, 1}, inFlight : Nat, closed : BOOLEAN]
      BY <1>2, <1>3, <1>4
    <2> QED BY <2>1, <1>1, <1>2, <1>4 DEF SetsCounters
  <1>6. ASSUME NEW v \in Workers
        PROVE  /\ bridge'[v].inFlight = Cardinality(InWork(v)') /\ bridge'[v].stuck = Cardinality(Late(v)')
               /\ bridge'[v].syncIn = Cardinality(Blocking(v)')
    <2>1. CASE v = w
      <3>1. /\ InWork(v)' = Put(InWork(w), c, a \in Accepted)
            /\ Late(v)' = Put(Late(w), c, a \in Accepted /\ r # "none")
            /\ Blocking(v)' = Put(Blocking(w), c, a \in Accepted /\ r = "none" /\ call[c].sync)
        <4>1. /\ InWork(v)' = Put(InWork(v), c, v = By[c] /\ a \in Accepted)
              /\ Late(v)' = Put(Late(v), c, v = By[c] /\ a \in Accepted /\ r # "none")
              /\ Blocking(v)' = Put(Blocking(v), c, v = By[c] /\ a \in Accepted /\ r = "none" /\ call[c].sync)
          BY Moves
        <4>2. InWork(v) = InWork(w) /\ Late(v) = Late(w) /\ Blocking(v) = Blocking(w)
          BY <2>1
        <4>3. InWork(v)' = Put(InWork(w), c, a \in Accepted)
          BY <4>1, <4>2, <2>1 DEF Put
        <4>4. Late(v)' = Put(Late(w), c, a \in Accepted /\ r # "none")
          BY <4>1, <4>2, <2>1 DEF Put
        <4>5. Blocking(v)' = Put(Blocking(w), c, a \in Accepted /\ r = "none" /\ call[c].sync)
          BY <4>1, <4>2, <2>1 DEF Put
        <4> QED BY <4>3, <4>4, <4>5
      <3> QED BY <2>1, <3>1, <1>4 DEF Counts
    <2>2. CASE v # w
      <3>1. InWork(v)' = InWork(v) /\ Late(v)' = Late(v) /\ Blocking(v)' = Blocking(v)
        <4>1. c \notin InWork(v)
          BY <2>2 DEF InWork, Of
        <4>2. c \notin Late(v) /\ c \notin Blocking(v)
          BY <4>1 DEF Late, Blocking
        <4>3. /\ InWork(v)' = Put(InWork(v), c, v = By[c] /\ a \in Accepted)
              /\ Late(v)' = Put(Late(v), c, v = By[c] /\ a \in Accepted /\ r # "none")
              /\ Blocking(v)' = Put(Blocking(v), c, v = By[c] /\ a \in Accepted /\ r = "none" /\ call[c].sync)
          BY Moves
        <4> QED BY <4>1, <4>2, <4>3, <2>2 DEF Put
      <3> QED BY <2>2, <3>1, <1>4 DEF Counted
    <2> QED BY <2>1, <2>2
  <1>7. \A v \in Workers : bridge'[v].closed = bridge[v].closed
    BY <1>4
  <1> QED BY <1>5, <1>6, <1>7 DEF Counted

\* Nothing to count: the call is accepted before and after, with the same result.
LEMMA CountedSame ==
  ASSUME Counted, NEW c \in Calls, NEW a, SetsTo(c, a, call[c].res),
         (a \in Accepted) <=> (call[c].st \in Accepted),
         \A w \in Workers : /\ bridge'[w].inFlight = bridge[w].inFlight /\ bridge'[w].stuck = bridge[w].stuck
                            /\ bridge'[w].syncIn = bridge[w].syncIn
  PROVE  Counted'
  <1>1. ASSUME NEW v \in Workers
        PROVE  InWork(v)' = InWork(v) /\ Late(v)' = Late(v) /\ Blocking(v)' = Blocking(v)
    <2>1. InWork(v)' = InWork(v)
      BY DEF SetsTo, InWork, Of
    <2>2. \A e \in Calls : call'[e].res = call[e].res /\ call'[e].sync = call[e].sync
      BY DEF SetsTo
    <2>3. InWork(v) \subseteq Calls
      BY SetFacts
    <2> QED BY <2>1, <2>2, <2>3 DEF Late, Blocking
  <1> QED BY <1>1 DEF Counted


\* Nothing to count: the call is not accepted, before or after.
LEMMA CountedOut ==
  ASSUME Counted, NEW c \in Calls, NEW a, NEW r, SetsTo(c, a, r), a \notin Accepted, call[c].st \notin Accepted,
         bridge' = bridge
  PROVE  Counted'
  <1>1. ASSUME NEW v \in Workers
        PROVE  InWork(v)' = InWork(v) /\ Late(v)' = Late(v) /\ Blocking(v)' = Blocking(v)
    <2>1. InWork(v)' = InWork(v)
      BY DEF SetsTo, InWork, Of
    <2>2. \A e \in InWork(v) : call'[e].res = call[e].res /\ call'[e].sync = call[e].sync
      BY DEF SetsTo, InWork, Of
    <2> QED BY <2>1, <2>2 DEF Late, Blocking
  <1> QED BY <1>1 DEF Counted

\* The stages of a call that is past its lock.
Beyond == {"queued", "run", "opening", "rejected"}

\* One lock changes, and one call's place in it; the other locks keep theirs.
LEMMA LockedKept ==
  ASSUME BridgeTypeOK, Locked, NEW c \in Calls, NEW a, NEW r, SetsTo(c, a, r), NEW l,
         lock' = [lock EXCEPT ![By[c]] = l],
         LockFits(l, Put(Locking(By[c]), c, a = "locking"), Put(Past(By[c]), c, Held(c) /\ a \in Beyond), OpOf),
         Waits(l)
  PROVE  Locked' /\ lock' \in [Workers -> LockStates]
  <1> DEFINE w == By[c]
  <1>1. w \in Workers /\ lock \in [Workers -> LockStates]
    BY CallFields DEF BridgeTypeOK
  <1>2. l \in LockStates
    BY DEF LockFits
  <1>3. OpOf' = OpOf
    BY Moves
  <1>4. ASSUME NEW v \in Workers
        PROVE  LockFits(lock'[v], Locking(v)', Past(v)', OpOf') /\ Waits(lock'[v])
    <2>1. /\ Locking(v)' = Put(Locking(v), c, v = By[c] /\ a = "locking")
          /\ Past(v)' = Put(Past(v), c, v = By[c] /\ Held(c) /\ a \in {"queued", "run", "opening", "rejected"})
      BY Moves
    <2>2. CASE v = w
      <3>1. Locking(v)' = Put(Locking(w), c, a = "locking")
        BY <2>1, <2>2 DEF Put
      <3>2. Past(v)' = Put(Past(w), c, Held(c) /\ a \in Beyond)
        BY <2>1, <2>2 DEF Put, Beyond
      <3>3. lock'[v] = l
        BY <1>1, <2>2
      <3> QED BY <3>1, <3>2, <3>3, <1>3
    <2>3. CASE v # w
      <3>1. c \notin Locking(v) /\ c \notin Past(v)
        BY <2>3 DEF Locking, Past, Of
      <3>2. Locking(v)' = Locking(v) /\ Past(v)' = Past(v)
        BY <3>1, <2>1, <2>3 DEF Put
      <3>3. lock'[v] = lock[v]
        BY <1>1, <2>3
      <3> QED BY <3>2, <3>3, <1>3 DEF Locked
    <2> QED BY <2>2, <2>3
  <1>5. lock' \in [Workers -> LockStates]
    BY <1>1, <1>2
  <1> QED BY <1>4, <1>5 DEF Locked

\* No lock changes.
LEMMA LockedSame ==
  ASSUME Locked, NEW c \in Calls, NEW a, NEW r, SetsTo(c, a, r), lock' = lock,
         (a = "locking") <=> (call[c].st = "locking"),
         Held(c) => ((a \in Beyond) <=> (call[c].st \in Beyond))
  PROVE  Locked'
  <1>1. OpOf' = OpOf
    BY Moves
  <1>2. ASSUME NEW v \in Workers
        PROVE  Locking(v)' = Locking(v) /\ Past(v)' = Past(v)
    BY DEF SetsTo, Locking, Past, Of, Held, Beyond
  <1> QED BY <1>1, <1>2 DEF Locked

\* The scheduler's sets change for one call.
LEMMA ScheduledSame ==
  ASSUME Scheduled, NEW c \in Calls, NEW a, NEW r, SetsTo(c, a, r), sched' = sched,
         (a = "queued") <=> (call[c].st = "queued"),
         (a \in {"run", "opening"}) <=> (call[c].st \in {"run", "opening"})
  PROVE  Scheduled'
  <1>1. Queued' = Queued
    BY DEF SetsTo, Queued
  <1>2. Hosted' = Hosted
    BY DEF SetsTo, Hosted, OnHost
  <1> QED BY <1>1, <1>2 DEF Scheduled

\* No chain changes: what runs on descriptors is the same.
LEMMA ChainedSame ==
  ASSUME BridgeTypeOK, Chained, NEW c \in Calls, NEW a, NEW r, SetsTo(c, a, r),
         chain' = chain, fds' = fds, hostOpen' = hostOpen,
         call[c].op \in FdOps => ((a = "run") <=> (call[c].st = "run")),
         \A w \in Workers : bridge'[w].closed = bridge[w].closed
  PROVE  Chained'
  <1>1. ASSUME NEW d \in Calls
        PROVE  OnFd(d)' = OnFd(d)
    BY DEF SetsTo, OnFd
  <1>2. ASSUME NEW d \in Calls, NEW i \in DOMAIN chain[d]
        PROVE  chain[d][i] \in Calls /\ call'[chain[d][i]].op = call[chain[d][i]].op
    <2>1. chain[d] \in Seq(Calls)
      BY DEF BridgeTypeOK
    <2>2. chain[d][i] \in Calls
      BY <2>1, ElementOfSeq
    <2> QED BY <2>2 DEF SetsTo
  <1>3. \A d \in Calls : By[d] \in Workers
    BY CallFields
  <1>4. \A w \in Workers : fds'[w] \subseteq Of(w) \cap hostOpen'
    BY DEF Chained
  <1>5. ASSUME NEW d \in Calls
        PROVE  /\ Once(chain'[d]) /\ Elems(chain'[d]) = OnFd(d)'
               /\ \A i \in DOMAIN chain'[d] :
                    call'[chain'[d][i]].op = "close" => i = Len(chain'[d]) /\ d \notin fds'[By[d]]
               /\ chain'[d] # <<>> /\ ~bridge'[By[d]].closed => d \in hostOpen'
    BY <1>1, <1>2, <1>3 DEF Chained
  <1>6. \A w \in Workers : Of(w)' = Of(w)
    BY DEF Of
  <1> QED BY <1>4, <1>5, <1>6 DEF Chained

\* Where an accepted call is counted, and what its end leaves.
LEMMA CountsWithout ==
  ASSUME BridgeTypeOK, Counted, NEW c \in Calls, call[c].st \in Accepted
  PROVE  LET w == By[c] IN
         /\ Cardinality(InWork(w) \ {c}) = bridge[w].inFlight - 1
         /\ Cardinality(Late(w) \ {c}) = IF call[c].res # "none" THEN bridge[w].stuck - 1 ELSE bridge[w].stuck
         /\ Cardinality(Blocking(w) \ {c}) = IF call[c].res # "none" THEN bridge[w].syncIn
                                             ELSE bridge[w].syncIn - SyncIn(c)
  <1> DEFINE w == By[c]
  <1>1. w \in Workers /\ c \in InWork(w)
    BY CallFields DEF InWork, Of
  <1>2. /\ InWork(w) \subseteq Calls /\ Late(w) \subseteq Calls /\ Blocking(w) \subseteq Calls
    BY <1>1, SetFacts
  <1>3. /\ bridge[w].inFlight = Cardinality(InWork(w)) /\ bridge[w].stuck = Cardinality(Late(w))
        /\ bridge[w].syncIn = Cardinality(Blocking(w))
    BY <1>1 DEF Counted
  <1>4. Cardinality(InWork(w) \ {c}) = bridge[w].inFlight - 1
    BY <1>1, <1>2, <1>3, Countable
  <1>5. Cardinality(Late(w) \ {c}) = IF call[c].res # "none" THEN bridge[w].stuck - 1 ELSE bridge[w].stuck
    <2>1. CASE call[c].res # "none"
      <3>1. c \in Late(w)
        BY <2>1, <1>1 DEF Late
      <3> QED BY <2>1, <3>1, <1>2, <1>3, Countable
    <2>2. CASE call[c].res = "none"
      <3>1. Late(w) \ {c} = Late(w)
        BY <2>2 DEF Late
      <3> QED BY <2>2, <3>1, <1>3
    <2> QED BY <2>1, <2>2
  <1>6. Cardinality(Blocking(w) \ {c}) = IF call[c].res # "none" THEN bridge[w].syncIn
                                         ELSE bridge[w].syncIn - SyncIn(c)
    <2>1. CASE call[c].res = "none" /\ call[c].sync
      <3>1. c \in Blocking(w)
        BY <2>1, <1>1 DEF Blocking
      <3>2. Cardinality(Blocking(w) \ {c}) = Cardinality(Blocking(w)) - 1
        BY <3>1, <1>2, Countable
      <3> QED BY <2>1, <3>2, <1>3 DEF SyncIn
    <2>2. CASE ~(call[c].res = "none" /\ call[c].sync)
      <3>1. Blocking(w) \ {c} = Blocking(w)
        BY <2>2 DEF Blocking
      <3>2. bridge[w].syncIn \in {0, 1}
        BY <1>1, BridgeFields
      <3> QED BY <2>2, <3>1, <3>2, <1>3 DEF SyncIn
    <2> QED BY <2>1, <2>2
  <1> QED BY <1>4, <1>5, <1>6

\* The end of a call's work: its stage.
LEMMA EndStage ==
  ASSUME BridgeTypeOK, NEW c \in Calls, NEW r \in Results, WorkEnds(c, r)
  PROVE  SetsTo(c, "over", IF call[c].res # "none" THEN call[c].res ELSE r)
  <1> DEFINE q == IF call[c].res # "none" THEN call[c].res ELSE r
  <1>1. call \in [Calls -> CallStates] /\ call[c] \in CallStates /\ call[c].res \in Results
    BY CallFields DEF BridgeTypeOK
  <1>2. call' = [call EXCEPT ![c].st = "over", ![c].res = IF call[c].res # "none" THEN @ ELSE r]
    BY DEF WorkEnds
  <1>3. call' = [call EXCEPT ![c].st = "over", ![c].res = q]
    BY <1>1, <1>2 DEF CallStates
  <1>4. q \in Results
    BY <1>1
  <1> HIDE DEF q
  <1>5. SetsTo(c, "over", q)
    BY <1>3, <1>4, SetsBoth
  <1> QED BY <1>5 DEF q

\* The end of a call's work: the counters.
LEMMA EndCounted ==
  ASSUME BridgeTypeOK, Counted, NEW c \in Calls, NEW r \in Results, WorkEnds(c, r), call[c].st \in Accepted
  PROVE  /\ Counted' /\ bridge' \in [Workers -> [stuck : Nat, syncIn : {0, 1}, inFlight : Nat, closed : BOOLEAN]]
         /\ \A w \in Workers : bridge'[w].closed = bridge[w].closed
  <1> DEFINE w == By[c]
             q == IF call[c].res # "none" THEN call[c].res ELSE r
             f == bridge[w].inFlight - 1
             g == IF call[c].res # "none" THEN bridge[w].stuck - 1 ELSE bridge[w].stuck
             h == IF call[c].res # "none" THEN bridge[w].syncIn ELSE bridge[w].syncIn - SyncIn(c)
  <1>1. /\ w \in Workers
        /\ bridge \in [Workers -> [stuck : Nat, syncIn : {0, 1}, inFlight : Nat, closed : BOOLEAN]]
        /\ bridge[w].stuck \in Nat /\ bridge[w].syncIn \in {0, 1} /\ bridge[w].inFlight \in Nat
        /\ bridge[w] = [stuck |-> bridge[w].stuck, syncIn |-> bridge[w].syncIn,
                        inFlight |-> bridge[w].inFlight, closed |-> bridge[w].closed]
    BY CallFields, BridgeFields
  <1>2. SyncIn(c) \in {0, 1}
    BY DEF SyncIn
  <1>3. f \in Int /\ g \in Int /\ h \in Int /\ h <= 1
    BY <1>1, <1>2
  <1>4. bridge' = [bridge EXCEPT ![w].inFlight = @ - 1,
                                 ![w].stuck = IF call[c].res # "none" THEN @ - 1 ELSE @,
                                 ![w].syncIn = IF call[c].res # "none" THEN @ ELSE @ - SyncIn(c)]
    BY DEF WorkEnds
  <1>5. /\ bridge'[w] = [stuck |-> g, syncIn |-> h, inFlight |-> f, closed |-> bridge[w].closed]
        /\ \A v \in Workers : v # w => bridge'[v] = bridge[v]
        /\ DOMAIN bridge' = Workers
    BY <1>1, <1>4
  <1>6. SetsCounters(w, f, g, h)
    <2> HIDE DEF f, g, h, w
    <2>1. bridge' = [v \in Workers |-> bridge'[v]]
      BY <1>4, <1>1
    <2> QED BY <1>1, <1>5, <2>1 DEF SetsCounters
  <1>7. SetsTo(c, "over", q)
    BY EndStage
  <1>8. Counts(c, "over", q, f, g, h)
    <2>1. "over" \notin Accepted
      BY DEF Accepted
    <2>2. /\ Put(InWork(w), c, "over" \in Accepted) = InWork(w) \ {c}
          /\ Put(Late(w), c, "over" \in Accepted /\ q # "none") = Late(w) \ {c}
          /\ Put(Blocking(w), c, "over" \in Accepted /\ q = "none" /\ call[c].sync) = Blocking(w) \ {c}
      BY <2>1 DEF Put
    <2> QED BY <2>2, CountsWithout DEF Counts
  <1> HIDE DEF f, g, h, q
  <1> QED BY <1>3, <1>6, <1>7, <1>8, CountedKept

\* The end of a call's work: its module's lock.
LEMMA EndLocked ==
  ASSUME BridgeTypeOK, Locked, NEW c \in Calls, NEW r \in Results, WorkEnds(c, r), call[c].st \in Beyond
  PROVE  Locked' /\ lock' \in [Workers -> LockStates]
  <1> DEFINE w == By[c]
             q == IF call[c].res # "none" THEN call[c].res ELSE r
  <1>1. SetsTo(c, "over", q)
    BY EndStage
  <1>2. w \in Workers /\ lock \in [Workers -> LockStates]
    BY CallFields DEF BridgeTypeOK
  <1> HIDE DEF q
  <1>3. CASE Held(c)
    <2> DEFINE l == LockReleased(lock[w], c)
    <2>1. lock' = [lock EXCEPT ![w] = l]
      BY <1>3 DEF WorkEnds
    <2>2. c \in Past(w) /\ c \notin Locking(w) /\ Past(w) \in SUBSET Calls
      BY <1>2, <1>3, SetFacts DEF Past, Locking, Of, Beyond
    <2>3. LockFits(lock[w], Locking(w), Past(w), OpOf)
      BY <1>2 DEF Locked
    <2>4. LockFits(l, Locking(w), Past(w) \ {c}, OpOf) /\ Waits(l)
      BY <2>2, <2>3, ReleasedFits
    <2>5. /\ Put(Locking(w), c, "over" = "locking") = Locking(w)
          /\ Put(Past(w), c, Held(c) /\ "over" \in Beyond) = Past(w) \ {c}
      BY <2>2 DEF Put, Beyond
    <2> HIDE DEF l
    <2> QED BY <1>1, <2>1, <2>4, <2>5, LockedKept
  <1>4. CASE ~Held(c)
    <2>1. lock' = lock
      BY <1>4 DEF WorkEnds
    <2>2. Locked'
      BY <1>1, <1>4, <2>1, LockedSame DEF Beyond
    <2> QED BY <2>1, <2>2, <1>2
  <1> QED BY <1>3, <1>4

\* The end of a call's work: what was answered.
LEMMA EndReplies ==
  ASSUME BridgeTypeOK, Replies, NEW c \in Calls, NEW r \in Results \ {"none"}, WorkEnds(c, r),
         client' = client, got' = got
  PROVE  /\ Replies' /\ port' \in [Workers -> Seq(Calls \X Results)] /\ back' \subseteq Calls
         /\ bump' \in Workers \cup {NoCall}
  <1> DEFINE q == IF call[c].res # "none" THEN call[c].res ELSE r
  <1>1. SetsTo(c, "over", q)
    BY EndStage
  <1>2. /\ port' \in [Workers -> Seq(Calls \X Results)] /\ back' \subseteq Calls
        /\ bump' \in Workers \cup {NoCall}
        /\ OnePort(c, r)
    <2>1. CASE Reply(c, r)
      BY <2>1, ReplyFacts
    <2>2. CASE UNCHANGED <<port, back, bump>>
      BY <2>2 DEF BridgeTypeOK, OnePort
    <2> QED BY <2>1, <2>2 DEF WorkEnds
  <1>3. Onwards
    BY <1>1 DEF SetsTo, Replies, Onwards
  <1>4. call'[c].st = "over"
    BY <1>1 DEF SetsTo
  <1>5. Replies'
    BY <1>2, <1>3, <1>4, RepliesKept
  <1> QED BY <1>2, <1>5

\* The end of a call's work keeps the invariant, if the scheduler and the chains keep theirs.
LEMMA WorkEndsKeeps ==
  ASSUME BridgeInv, NEW c \in Calls, NEW r \in Results \ {"none"}, WorkEnds(c, r), UNCHANGED clientVars,
         call[c].st \in Beyond, Scheduled', Chained',
         fds' \in [Workers -> SUBSET Calls], chain' \in [Calls -> Seq(Calls)], hostOpen' \subseteq Calls
  PROVE  BridgeInv'
  <1>1. BridgeTypeOK /\ Replies /\ Counted /\ Locked
    BY DEF BridgeInv
  <1>2. call[c].st \in Accepted
    BY DEF Beyond, Accepted
  <1>3. client' = client /\ got' = got /\ counter' = counter
    BY DEF clientVars
  <1>4. call' \in [Calls -> CallStates]
    BY <1>1, EndStage DEF SetsTo
  <1>5. /\ Counted' /\ bridge' \in [Workers -> [stuck : Nat, syncIn : {0, 1}, inFlight : Nat, closed : BOOLEAN]]
    BY <1>1, <1>2, EndCounted
  <1>6. Locked' /\ lock' \in [Workers -> LockStates]
    BY <1>1, EndLocked
  <1>7. /\ Replies' /\ port' \in [Workers -> Seq(Calls \X Results)] /\ back' \subseteq Calls
        /\ bump' \in Workers \cup {NoCall}
    BY <1>1, <1>3, EndReplies
  <1>8. sched' \in SchedStates
    BY DEF Scheduled, SchedFits
  <1>9. BridgeTypeOK'
    BY <1>1, <1>3, <1>4, <1>5, <1>6, <1>7, <1>8 DEF BridgeTypeOK
  <1> QED BY <1>5, <1>6, <1>7, <1>9 DEF BridgeInv

\* A host operation returns: its slot is free.
LEMMA SlotFreed ==
  ASSUME BridgeTypeOK, Scheduled, NEW c \in Calls, NEW r, SetsTo(c, "over", r), OnHost(c),
         sched' = Freed(sched, By[c])
  PROVE  Scheduled'
  <1>1. c \in Hosted /\ c \notin Queued /\ Hosted \in SUBSET Calls
    BY DEF Hosted, Queued, OnHost
  <1>2. Queued' = Queued /\ Hosted' = Hosted \ {c}
    BY <1>1, Moves DEF Put
  <1>3. SchedFits(Freed(sched, By[c]), Queued, Hosted \ {c}) /\ Pumped(Freed(sched, By[c]))
    BY <1>1, FreedFits DEF Scheduled
  <1> QED BY <1>2, <1>3 DEF Scheduled

\* A host operation that leaves tables and chains as they are.
LEMMA HostDoneKeeps ==
  ASSUME BridgeInv, NEW c \in Calls, NEW r \in Results \ {"none"}, HostDone(c, r), OnHost(c),
         call[c].op \notin FdOps, UNCHANGED <<fds, chain, hostOpen>>
  PROVE  BridgeInv'
  <1> DEFINE q == IF call[c].res # "none" THEN call[c].res ELSE r
  <1>1. BridgeTypeOK /\ Scheduled /\ Chained /\ Counted
    BY DEF BridgeInv
  <1>2. WorkEnds(c, r) /\ sched' = Freed(sched, By[c]) /\ UNCHANGED clientVars
    BY DEF HostDone
  <1>3. SetsTo(c, "over", q)
    BY <1>1, <1>2, EndStage
  <1> HIDE DEF q
  <1>4. Scheduled'
    BY <1>1, <1>2, <1>3, SlotFreed
  <1>5. call[c].st \in Beyond /\ call[c].st \in Accepted
    BY DEF OnHost, Beyond, Accepted
  <1>6. \A w \in Workers : bridge'[w].closed = bridge[w].closed
    BY <1>1, <1>2, <1>5, EndCounted
  <1>7. Chained'
    BY <1>1, <1>3, <1>6, ChainedSame
  <1>8. fds' \in [Workers -> SUBSET Calls] /\ chain' \in [Calls -> Seq(Calls)] /\ hostOpen' \subseteq Calls
    BY <1>1 DEF BridgeTypeOK
  <1> QED BY <1>2, <1>4, <1>5, <1>7, <1>8, WorkEndsKeeps

\* The end of work that had no slot.
LEMMA RejectKeeps ==
  ASSUME BridgeInv, NEW c \in Calls, Reject(c)
  PROVE  BridgeInv'
  <1> DEFINE r == IF bridge[By[c]].closed THEN "EIO" ELSE "EMFILE"
             q == IF call[c].res # "none" THEN call[c].res ELSE r
  <1>1. BridgeTypeOK /\ Scheduled /\ Chained /\ Counted
    BY DEF BridgeInv
  <1>2. /\ WorkEnds(c, r) /\ UNCHANGED clientVars /\ sched' = sched /\ fds' = fds /\ chain' = chain
        /\ hostOpen' = hostOpen /\ call[c].st = "rejected"
    BY DEF Reject
  <1>3. r \in Results \ {"none"}
    BY DEF Results
  <1> HIDE DEF r
  <1>4. SetsTo(c, "over", q)
    BY <1>1, <1>2, <1>3, EndStage
  <1> HIDE DEF q
  <1>5. Scheduled'
    BY <1>1, <1>2, <1>4, ScheduledSame
  <1>6. call[c].st \in Beyond /\ call[c].st \in Accepted
    BY <1>2 DEF Beyond, Accepted
  <1>7. \A w \in Workers : bridge'[w].closed = bridge[w].closed
    BY <1>1, <1>2, <1>3, <1>6, EndCounted
  <1>8. Chained'
    BY <1>1, <1>2, <1>4, <1>7, ChainedSame
  <1>9. fds' \in [Workers -> SUBSET Calls] /\ chain' \in [Calls -> Seq(Calls)] /\ hostOpen' \subseteq Calls
    BY <1>1, <1>2 DEF BridgeTypeOK
  <1> QED BY <1>2, <1>3, <1>5, <1>6, <1>8, <1>9, WorkEndsKeeps

\* A stage of an accepted call changes and nothing is answered.
LEMMA StageKeeps ==
  ASSUME BridgeInv, NEW c \in Calls, NEW a \in Accepted, SetsTo(c, a, call[c].res), call[c].st \in Accepted,
         UNCHANGED <<client, got, port, back, counter, bump, bridge>>,
         Locked', lock' \in [Workers -> LockStates], Scheduled', Chained',
         fds' \in [Workers -> SUBSET Calls], chain' \in [Calls -> Seq(Calls)], hostOpen' \subseteq Calls
  PROVE  BridgeInv'
  <1>1. BridgeTypeOK /\ Replies /\ Counted
    BY DEF BridgeInv
  <1>2. call' \in [Calls -> CallStates]
    BY DEF SetsTo
  <1>3. Counted'
    BY <1>1, CountedSame
  <1>4. Onwards
    <2>1. call[c].res # "ok" /\ call[c].st # "over" /\ a \notin {"new", "sent", "over"}
      BY <1>1 DEF Replies, Accepted
    <2>2. call'[c].res # "ok" /\ call'[c].st \notin {"new", "sent", "over"}
      BY <2>1 DEF SetsTo
    <2>3. \A e \in Calls : e # c => call'[e] = call[e]
      BY DEF SetsTo
    <2>4. \A e \in Calls : call[e].res = "ok" => call[e].st = "over"
      BY <1>1 DEF Replies
    <2>5. \A e \in Calls : call'[e].op = call[e].op /\ call'[e].fd = call[e].fd
      BY DEF SetsTo
    <2> QED BY <2>1, <2>2, <2>3, <2>4, <2>5 DEF Onwards
  <1>5. OnePort(c, "none")
    BY DEF OnePort
  <1>6. Replies'
    BY <1>1, <1>4, <1>5, RepliesKept
  <1>7. sched' \in SchedStates
    BY DEF Scheduled, SchedFits
  <1>8. BridgeTypeOK'
    BY <1>1, <1>2, <1>7 DEF BridgeTypeOK
  <1> QED BY <1>3, <1>6, <1>8 DEF BridgeInv

\* stat and rename return.
LEMMA RunPathKeeps ==
  ASSUME BridgeInv, NEW c \in Calls, RunPath(c)
  PROVE  BridgeInv'
  <1>1. HostDone(c, "ok") /\ OnHost(c) /\ call[c].op \notin FdOps /\ UNCHANGED <<fds, chain, hostOpen>>
    BY DEF RunPath, OnHost, PathOps, SharedOps, ExclusiveOps, FdOps
  <1>2. "ok" \in Results \ {"none"}
    BY DEF Results
  <1> QED BY <1>1, <1>2, HostDoneKeeps

\* open is on the host, or the table is full.
LEMMA RunOpenKeeps ==
  ASSUME BridgeInv, NEW c \in Calls, RunOpen(c)
  PROVE  BridgeInv'
  <1>1. call[c].st = "run" /\ OnHost(c) /\ call[c].op \notin FdOps /\ UNCHANGED <<fds, chain, hostOpen>>
    BY DEF RunOpen, OnHost, OpenOps, FdOps
  <1>2. CASE HostDone(c, "EMFILE")
    <2>1. "EMFILE" \in Results \ {"none"}
      BY DEF Results
    <2> QED BY <1>1, <1>2, <2>1, HostDoneKeeps
  <1>3. CASE /\ call' = [call EXCEPT ![c].st = "opening"]
             /\ UNCHANGED <<clientVars, port, back, bump, bridge, lock, sched>>
    <2>1. BridgeTypeOK /\ Scheduled /\ Chained /\ Locked
      BY DEF BridgeInv
    <2>2. "opening" \in Accepted /\ call[c].st \in Accepted
      BY <1>1 DEF Accepted
    <2>3. SetsTo(c, "opening", call[c].res)
      BY <1>3, <2>1, <2>2, SetsStage
    <2>4. UNCHANGED <<client, got, port, back, counter, bump, bridge, lock, sched>>
      BY <1>3 DEF clientVars
    <2>5. Scheduled'
      BY <1>1, <2>1, <2>3, <2>4, ScheduledSame
    <2>6. Locked'
      BY <1>1, <2>1, <2>3, <2>4, LockedSame DEF Beyond
    <2>7. Chained'
      BY <1>1, <2>1, <2>3, <2>4, ChainedSame
    <2>8. /\ fds' \in [Workers -> SUBSET Calls] /\ chain' \in [Calls -> Seq(Calls)] /\ hostOpen' \subseteq Calls
          /\ lock' \in [Workers -> LockStates]
      BY <1>1, <2>1, <2>4 DEF BridgeTypeOK
    <2> QED BY <2>2, <2>3, <2>4, <2>5, <2>6, <2>7, <2>8, StageKeeps
  <1> QED BY <1>2, <1>3 DEF RunOpen

\* The first of a sequence is removed.
LEMMA WithoutHead ==
  ASSUME NEW S, NEW s \in Seq(S), s # <<>>, Once(s)
  PROVE  Without(s, Head(s)) = Tail(s)
  <1> DEFINE x == Head(s)
             at == CHOOSE i \in DOMAIN s : s[i] = x
  <1>1. 1 \in DOMAIN s /\ s[1] = x /\ Len(s) \in Nat /\ DOMAIN s = 1 .. Len(s)
    BY TailIndex, ElemsFacts
  <1>2. x \in ToSet(s)
    BY <1>1 DEF ToSet
  <1>3. at \in DOMAIN s /\ s[at] = x
    BY <1>1
  <1>4. at = 1
    BY <1>1, <1>3 DEF Once
  <1>5. Without(s, x) = [j \in 1 .. Len(s) - 1 |-> IF j < at THEN s[j] ELSE s[j + 1]]
    BY <1>2 DEF Without
  <1> HIDE DEF at
  <1>6. Without(s, x) = [j \in 1 .. Len(s) - 1 |-> s[j + 1]]
    BY <1>4, <1>5
  <1>7. Tail(s) = [j \in 1 .. Len(s) - 1 |-> s[j + 1]]
    <2> DEFINE t == Tail(s)
    <2>1. t \in Seq(S) /\ Len(t) = Len(s) - 1 /\ \A j \in DOMAIN t : t[j] = s[j + 1]
      BY TailFacts, TailIndex
    <2> HIDE DEF t
    <2>2. DOMAIN t = 1 .. Len(s) - 1 /\ t = [j \in DOMAIN t |-> t[j]]
      BY <2>1
    <2>3. t = [j \in 1 .. Len(s) - 1 |-> s[j + 1]]
      BY <2>1, <2>2
    <2> QED BY <2>3 DEF t
  <1> QED BY <1>6, <1>7

\* open returns.
LEMMA OpenDoneKeeps ==
  ASSUME BridgeInv, NEW c \in Calls, OpenDone(c)
  PROVE  BridgeInv'
  <1>0. BridgeTypeOK /\ Scheduled /\ Chained /\ Counted /\ Replies
    BY DEF BridgeInv
  <1>1. call[c].st = "opening" /\ OnHost(c) /\ chain' = chain /\ call[c].st \in Beyond /\ call[c].st \in Accepted
    BY DEF OpenDone, OnHost, Beyond, Accepted
  <1>2. PICK r \in {"ok", "ENOENT"} :
          /\ HostDone(c, r)
          /\ \/ fds' = [fds EXCEPT ![By[c]] = @ \cup {c}] /\ hostOpen' = hostOpen \cup {c}
             \/ fds' = fds /\ hostOpen' = hostOpen
    BY DEF OpenDone
  <1> DEFINE q == IF call[c].res # "none" THEN call[c].res ELSE r
  <1>3. r \in Results \ {"none"}
    BY DEF Results
  <1>4. WorkEnds(c, r) /\ sched' = Freed(sched, By[c]) /\ UNCHANGED clientVars
    BY <1>2 DEF HostDone
  <1>5. SetsTo(c, "over", q)
    BY <1>0, <1>3, <1>4, EndStage
  <1> HIDE DEF q
  <1>6. Scheduled'
    BY <1>0, <1>1, <1>4, <1>5, SlotFreed
  <1>7. \A w \in Workers : bridge'[w].closed = bridge[w].closed
    BY <1>0, <1>1, <1>3, <1>4, EndCounted
  <1>8. /\ fds \in [Workers -> SUBSET Calls] /\ chain \in [Calls -> Seq(Calls)] /\ hostOpen \subseteq Calls
        /\ By[c] \in Workers
    BY <1>0, CallFields DEF BridgeTypeOK
  <1>9. CASE fds' = fds /\ hostOpen' = hostOpen
    <2>1. Chained'
      BY <1>0, <1>1, <1>5, <1>7, <1>9, ChainedSame
    <2> QED BY <2>1, <1>1, <1>3, <1>4, <1>6, <1>8, <1>9, WorkEndsKeeps
  <1>10. CASE fds' = [fds EXCEPT ![By[c]] = @ \cup {c}] /\ hostOpen' = hostOpen \cup {c}
    <2>1. fds' \in [Workers -> SUBSET Calls] /\ hostOpen' \subseteq Calls
      BY <1>8, <1>10
    <2>2. \A w \in Workers : fds'[w] \subseteq Of(w) \cap hostOpen'
      BY <1>0, <1>8, <1>10 DEF Chained, Of
    <2>3. \A d \in Calls : d # c => (d \in fds'[By[d]] <=> d \in fds[By[d]])
      BY <1>0, <1>8, <1>10, CallFields
    <2>4. ASSUME NEW d \in Calls
          PROVE  OnFd(d)' = OnFd(d)
      BY <1>1, <1>5 DEF SetsTo, OnFd
    <2>5. chain[c] = <<>>
      <3>1. \A e \in Calls : call[e].fd # c
        <4>1. c # NoCall
          BY <1>0, CallFields
        <4> QED BY <4>1, <1>0, <1>1 DEF Replies
      <3>2. OnFd(c) = {}
        BY <3>1 DEF OnFd
      <3>3. Elems(chain[c]) = {}
        BY <3>2, <1>0 DEF Chained
      <3> QED BY <3>3, <1>8, ElemsFacts
    <2>6. ASSUME NEW d \in Calls
          PROVE  /\ Once(chain'[d]) /\ Elems(chain'[d]) = OnFd(d)'
                 /\ chain'[d] # <<>> /\ ~bridge'[By[d]].closed => d \in hostOpen'
      BY <1>0, <1>1, <1>7, <1>10, <2>4, CallFields DEF Chained
    <2>7. ASSUME NEW d \in Calls, NEW i \in DOMAIN chain'[d], call'[chain'[d][i]].op = "close"
          PROVE  i = Len(chain'[d]) /\ d \notin fds'[By[d]]
      <3>1. d # c
        BY <1>1, <2>5, <2>7
      <3>2. chain[d][i] \in Calls
        BY <1>1, <1>8, <2>7, ElementOfSeq
      <3>3. call[chain[d][i]].op = "close"
        BY <1>1, <1>5, <2>7, <3>2 DEF SetsTo
      <3>4. i = Len(chain[d]) /\ d \notin fds[By[d]]
        BY <1>0, <1>1, <2>7, <3>3 DEF Chained
      <3> QED BY <1>1, <2>3, <3>1, <3>4
    <2>8. \A w \in Workers : Of(w)' = Of(w)
      BY DEF Of
    <2>9. Chained'
      BY <2>2, <2>6, <2>7, <2>8 DEF Chained
    <2> QED BY <2>1, <2>9, <1>1, <1>3, <1>4, <1>6, <1>8, WorkEndsKeeps
  <1> QED BY <1>2, <1>9, <1>10

\* An operation on a descriptor returns: the next of its chain may run, and a close is the last.
LEMMA RunFdKeeps ==
  ASSUME BridgeInv, NEW c \in Calls, RunFd(c)
  PROVE  BridgeInv'
  <1> DEFINE d == call[c].fd
             r == IF call[c].res # "none" THEN call[c].res ELSE "ok"
             s == chain[d]
  <1>0. BridgeTypeOK /\ Scheduled /\ Chained /\ Counted /\ Replies
    BY DEF BridgeInv
  <1>1. /\ call[c].st = "run" /\ call[c].op \in FdOps /\ c = Head(s) /\ HostDone(c, "ok") /\ fds' = fds
        /\ chain' = [chain EXCEPT ![d] = Without(@, c)]
        /\ hostOpen' = IF call[c].op = "close" THEN hostOpen \ {d} ELSE hostOpen
    BY DEF RunFd, IsNext
  <1>2. call[c].st \in Beyond /\ call[c].st \in Accepted /\ OnHost(c) /\ "ok" \in Results \ {"none"}
    BY <1>1 DEF OnHost, Beyond, Accepted, Results
  <1>3. WorkEnds(c, "ok") /\ sched' = Freed(sched, By[c]) /\ UNCHANGED clientVars
    BY <1>1 DEF HostDone
  <1>4. SetsTo(c, "over", r)
    BY <1>0, <1>2, <1>3, EndStage
  <1> HIDE DEF r
  <1>5. Scheduled'
    BY <1>0, <1>2, <1>3, <1>4, SlotFreed
  <1>6. \A w \in Workers : bridge'[w].closed = bridge[w].closed
    BY <1>0, <1>2, <1>3, EndCounted
  <1>7. /\ fds \in [Workers -> SUBSET Calls] /\ chain \in [Calls -> Seq(Calls)] /\ hostOpen \subseteq Calls
    BY <1>0 DEF BridgeTypeOK
  <1>8. d \in Calls /\ By[d] = By[c] /\ By[d] \in Workers
    <2>1. d # NoCall
      BY <1>0, <1>1 DEF Replies
    <2>2. d \in Calls
      BY <1>0, <2>1, CallFields
    <2> QED BY <1>0, <2>1, <2>2, CallFields DEF Replies
  <1>9. s \in Seq(Calls) /\ Once(s) /\ c \in Elems(s) /\ s # <<>>
    <2>1. s \in Seq(Calls) /\ Once(s) /\ Elems(s) = OnFd(d)
      BY <1>0, <1>7, <1>8 DEF Chained
    <2>2. c \in OnFd(d)
      BY <1>1 DEF OnFd
    <2> QED BY <2>1, <2>2, EmptyFacts
  <1> DEFINE t == Tail(s)
  <1> HIDE DEF s
  <1>10. /\ t \in Seq(Calls) /\ Once(t) /\ Elems(t) = Elems(s) \ {c} /\ Len(t) = Len(s) - 1
         /\ Len(s) \in Nat \ {0} /\ DOMAIN s = 1 .. Len(s) /\ s[1] = c
         /\ \A i \in DOMAIN t : i + 1 \in DOMAIN s /\ t[i] = s[i + 1] /\ i \in Nat
    BY <1>1, <1>9, TailFacts, TailIndex, ElemsFacts
  <1>11. Without(s, c) = t
    BY <1>1, <1>9, WithoutHead
  <1> HIDE DEF t
  <1>12. chain' = [chain EXCEPT ![d] = t]
    BY <1>1, <1>11 DEF s
  <1>13. chain' \in [Calls -> Seq(Calls)] /\ chain'[d] = t /\ \A e \in Calls : e # d => chain'[e] = chain[e]
    BY <1>7, <1>8, <1>10, <1>12
  <1>14. \A e \in Calls : OnFd(e)' = IF e = d THEN OnFd(e) \ {c} ELSE OnFd(e)
    BY <1>4, <1>1 DEF SetsTo, OnFd
  <1>15. call[c].op = "close" => s = <<c>> /\ t = <<>> /\ d \notin fds[By[d]]
    <2>1. ASSUME call[c].op = "close"
          PROVE  Len(s) = 1 /\ d \notin fds[By[d]]
      <3>1. 1 \in DOMAIN s
        BY <1>10
      <3>2. \A i \in DOMAIN s : call[s[i]].op = "close" => i = Len(s) /\ d \notin fds[By[d]]
        BY <1>0, <1>8 DEF Chained, s
      <3> QED BY <3>1, <3>2, <2>1, <1>10
    <2>2. Len(s) = 1 => t = <<>>
      BY <1>10, ElemsFacts
    <2>3. Len(s) = 1 => s = <<c>>
      BY <1>9, <1>10
    <2> QED BY <2>1, <2>2, <2>3
  <1>16. \A w \in Workers : fds'[w] \subseteq Of(w) \cap hostOpen'
    BY <1>0, <1>1, <1>15 DEF Chained, Of
  <1>17. ASSUME NEW e \in Calls
         PROVE  /\ Once(chain'[e]) /\ Elems(chain'[e]) = OnFd(e)'
                /\ chain'[e] # <<>> /\ ~bridge'[By[e]].closed => e \in hostOpen'
    <2>1. CASE e = d
      <3>1. Once(chain'[e]) /\ Elems(chain'[e]) = OnFd(e)'
        BY <2>1, <1>0, <1>8, <1>10, <1>13, <1>14 DEF Chained, s
      <3>2. chain[d] # <<>> /\ ~bridge[By[d]].closed => d \in hostOpen
        BY <1>0, <1>8 DEF Chained
      <3>3. chain[d] # <<>> /\ bridge'[By[d]].closed = bridge[By[d]].closed
        BY <1>6, <1>8, <1>9 DEF s
      <3> QED BY <2>1, <3>1, <3>2, <3>3, <1>1, <1>13, <1>15
    <2>2. CASE e # d
      BY <2>2, <1>0, <1>1, <1>6, <1>13, <1>14, CallFields DEF Chained
    <2> QED BY <2>1, <2>2
  <1>18. ASSUME NEW e \in Calls, NEW i \in DOMAIN chain'[e], call'[chain'[e][i]].op = "close"
         PROVE  i = Len(chain'[e]) /\ e \notin fds'[By[e]]
    <2>1. CASE e = d
      <3>1. i + 1 \in DOMAIN s /\ t[i] = s[i + 1] /\ i \in Nat
        BY <2>1, <1>10, <1>13, <1>18
      <3>2. s[i + 1] \in Calls
        BY <3>1, <1>9, ElementOfSeq
      <3>3. call[s[i + 1]].op = "close"
        BY <1>4, <1>13, <1>18, <2>1, <3>1, <3>2 DEF SetsTo
      <3>4. i + 1 = Len(s) /\ d \notin fds[By[d]]
        BY <1>0, <1>8, <3>1, <3>3 DEF Chained, s
      <3> QED BY <2>1, <3>1, <3>4, <1>1, <1>10, <1>13
    <2>2. CASE e # d
      <3>1. chain'[e] = chain[e] /\ chain[e][i] \in Calls
        BY <1>7, <1>13, <1>18, <2>2, ElementOfSeq
      <3>2. call[chain[e][i]].op = "close"
        BY <1>4, <1>18, <3>1 DEF SetsTo
      <3> QED BY <1>0, <1>1, <1>18, <3>1, <3>2 DEF Chained
    <2> QED BY <2>1, <2>2
  <1>19. \A w \in Workers : Of(w)' = Of(w)
    BY DEF Of
  <1>20. Chained'
    BY <1>16, <1>17, <1>18, <1>19 DEF Chained
  <1>21. fds' \in [Workers -> SUBSET Calls] /\ hostOpen' \subseteq Calls
    BY <1>1, <1>7
  <1> QED BY <1>2, <1>3, <1>5, <1>13, <1>20, <1>21, WorkEndsKeeps

\* A task whose descriptor is not in the table ends.
LEMMA StartFailsKeeps ==
  ASSUME BridgeInv, sched.starting # <<>>, UNCHANGED clientVars, UNCHANGED <<fds, chain, hostOpen>>,
         WorkEnds(Head(sched.starting), "EBADF"),
         sched' = Freed([sched EXCEPT !.starting = Tail(@)], By[Head(sched.starting)])
  PROVE  BridgeInv'
  <1> DEFINE c == Head(sched.starting)
             sc == [sched EXCEPT !.starting = Tail(@)]
             r == IF call[c].res # "none" THEN call[c].res ELSE "EBADF"
  <1>0. BridgeTypeOK /\ Scheduled /\ Chained /\ Counted
    BY DEF BridgeInv
  <1>1. SchedFits(sched, Queued, Hosted) /\ Pumped(sched) /\ Hosted \in SUBSET Calls
    BY <1>0 DEF Scheduled, Hosted
  <1>2. c \in Calls /\ c \in Queued /\ c \notin Hosted /\ SchedFits(sc, Queued \ {c}, Hosted \cup {c})
    BY <1>1, StartFits
  <1>3. sched' = Freed(sc, By[c]) /\ WorkEnds(c, "EBADF")
    OBVIOUS
  <1> HIDE DEF sc, c
  <1>4. call[c].st = "queued" /\ call[c].st \in Beyond /\ call[c].st \in Accepted /\ "EBADF" \in Results \ {"none"}
    BY <1>2 DEF Queued, Beyond, Accepted, Results
  <1>5. SetsTo(c, "over", r)
    BY <1>0, <1>2, <1>3, <1>4, EndStage
  <1> HIDE DEF r
  <1>6. Scheduled'
    <2>1. Hosted \cup {c} \in SUBSET Calls /\ c \in Hosted \cup {c} /\ (Hosted \cup {c}) \ {c} = Hosted
      BY <1>1, <1>2
    <2>2. SchedFits(Freed(sc, By[c]), Queued \ {c}, (Hosted \cup {c}) \ {c}) /\ Pumped(Freed(sc, By[c]))
      BY <2>1, <1>2, FreedFits
    <2>3. Queued' = Queued \ {c} /\ Hosted' = Hosted
      <3>1. Queued' = Put(Queued, c, "over" = "queued") /\ Hosted' = Put(Hosted, c, "over" \in {"run", "opening"})
        BY <1>2, <1>5, Moves
      <3> QED BY <3>1, <1>2 DEF Put
    <2> QED BY <2>1, <2>2, <2>3, <1>3 DEF Scheduled
  <1>7. \A w \in Workers : bridge'[w].closed = bridge[w].closed
    BY <1>0, <1>2, <1>3, <1>4, EndCounted
  <1>8. Chained'
    BY <1>0, <1>2, <1>4, <1>5, <1>7, ChainedSame
  <1>9. fds' \in [Workers -> SUBSET Calls] /\ chain' \in [Calls -> Seq(Calls)] /\ hostOpen' \subseteq Calls
    BY <1>0 DEF BridgeTypeOK
  <1> QED BY <1>2, <1>3, <1>4, <1>6, <1>8, <1>9, WorkEndsKeeps

\* An operation joins the chain of a descriptor in the table.
LEMMA JoinsChain ==
  ASSUME BridgeTypeOK, Replies, Chained, NEW c \in Calls, NEW r, SetsTo(c, "run", r), call[c].st # "run",
         call[c].op \in FdOps, call[c].fd \in fds[By[c]], bridge' = bridge, hostOpen' = hostOpen,
         chain' = [chain EXCEPT ![call[c].fd] = Append(@, c)],
         fds' = IF call[c].op = "close" THEN [fds EXCEPT ![By[c]] = @ \ {call[c].fd}] ELSE fds
  PROVE  Chained' /\ fds' \in [Workers -> SUBSET Calls] /\ chain' \in [Calls -> Seq(Calls)]
  <1> DEFINE d == call[c].fd
             s == chain[d]
             t == Append(s, c)
             w == By[c]
  <1>1. fds \in [Workers -> SUBSET Calls] /\ chain \in [Calls -> Seq(Calls)] /\ w \in Workers
    BY CallFields DEF BridgeTypeOK
  <1>2. d \in Calls /\ By[d] = w /\ d \in hostOpen
    BY <1>1 DEF Chained, Of
  <1>3. s \in Seq(Calls) /\ Once(s) /\ Elems(s) = OnFd(d) /\ c \notin Elems(s)
    <2>1. s \in Seq(Calls) /\ Once(s) /\ Elems(s) = OnFd(d)
      BY <1>1, <1>2 DEF Chained
    <2> QED BY <2>1 DEF OnFd
  <1>4. \A i \in DOMAIN s : call[s[i]].op # "close"
    BY <1>2 DEF Chained
  <1> HIDE DEF s
  <1>5. /\ t \in Seq(Calls) /\ Once(t) /\ Elems(t) = Elems(s) \cup {c} /\ Len(t) = Len(s) + 1
        /\ t[Len(s) + 1] = c /\ DOMAIN t = DOMAIN s \cup {Len(s) + 1} /\ \A i \in DOMAIN s : t[i] = s[i]
    BY <1>3, AppendFacts, AppendIndex
  <1>6. chain' = [chain EXCEPT ![d] = t]
    BY DEF s
  <1> HIDE DEF t
  <1>7. chain' \in [Calls -> Seq(Calls)] /\ chain'[d] = t /\ \A e \in Calls : e # d => chain'[e] = chain[e]
    BY <1>1, <1>2, <1>5, <1>6
  <1>8. /\ fds' \in [Workers -> SUBSET Calls]
        /\ \A v \in Workers : fds'[v] \subseteq fds[v]
        /\ call[c].op = "close" => d \notin fds'[w]
    BY <1>1
  <1> HIDE DEF d, w
  <1>9. \A v \in Workers : fds'[v] \subseteq Of(v) \cap hostOpen'
    BY <1>8 DEF Chained
  <1>10. \A e \in Calls : OnFd(e)' = IF e = d THEN OnFd(e) \cup {c} ELSE OnFd(e)
    BY DEF SetsTo, OnFd, d
  <1>11. ASSUME NEW e \in Calls
         PROVE  /\ Once(chain'[e]) /\ Elems(chain'[e]) = OnFd(e)'
                /\ chain'[e] # <<>> /\ ~bridge'[By[e]].closed => e \in hostOpen'
    <2>1. CASE e = d
      BY <2>1, <1>2, <1>3, <1>5, <1>7, <1>10
    <2>2. CASE e # d
      BY <2>2, <1>7, <1>10 DEF Chained
    <2> QED BY <2>1, <2>2
  <1>12. ASSUME NEW e \in Calls, NEW i \in DOMAIN chain'[e], call'[chain'[e][i]].op = "close"
         PROVE  i = Len(chain'[e]) /\ e \notin fds'[By[e]]
    <2>1. CASE e = d
      <3>1. t[i] \in Calls
        BY <1>5, <1>7, <1>12, <2>1, ElementOfSeq
      <3>2. call[t[i]].op = "close"
        BY <1>7, <1>12, <2>1, <3>1 DEF SetsTo
      <3>3. i = Len(s) + 1
        BY <1>4, <1>5, <1>7, <1>12, <2>1, <3>2
      <3>4. call[c].op = "close"
        BY <3>2, <3>3, <1>5
      <3> QED BY <2>1, <3>3, <3>4, <1>2, <1>5, <1>7, <1>8
    <2>2. CASE e # d
      <3>1. chain'[e] = chain[e] /\ chain[e][i] \in Calls
        BY <1>1, <1>7, <1>12, <2>2, ElementOfSeq
      <3>2. call[chain[e][i]].op = "close"
        BY <1>12, <3>1 DEF SetsTo
      <3>3. i = Len(chain[e]) /\ e \notin fds[By[e]] /\ By[e] \in Workers
        BY <1>12, <3>1, <3>2, CallFields DEF Chained
      <3> QED BY <3>1, <3>3, <1>8
    <2> QED BY <2>1, <2>2
  <1>13. \A v \in Workers : Of(v)' = Of(v)
    BY DEF Of
  <1>14. Chained'
    BY <1>9, <1>11, <1>12, <1>13 DEF Chained
  <1> QED BY <1>7, <1>8, <1>14

\* A task starts.
LEMMA StartKeeps ==
  ASSUME BridgeInv, Start
  PROVE  BridgeInv'
  <1> DEFINE c == Head(sched.starting)
             d == call[c].fd
             sc == [sched EXCEPT !.starting = Tail(@)]
  <1>0. BridgeTypeOK /\ Scheduled /\ Chained /\ Replies /\ Locked
    BY DEF BridgeInv
  <1>1. sched.starting # <<>> /\ UNCHANGED clientVars
    BY DEF Start
  <1>2. CASE /\ WorkEnds(c, "EBADF") /\ sched' = Freed(sc, By[c]) /\ UNCHANGED <<fds, chain, hostOpen>>
    BY <1>1, <1>2, StartFailsKeeps
  <1>3. CASE /\ call[c].op \in FdOps => d \in fds[By[c]]
             /\ sched' = sc
             /\ call' = [call EXCEPT ![c].st = "run"]
             /\ chain' = IF d = NoCall THEN chain ELSE [chain EXCEPT ![d] = Append(@, c)]
             /\ fds' = IF call[c].op = "close" THEN [fds EXCEPT ![By[c]] = @ \ {d}] ELSE fds
             /\ UNCHANGED <<lock, bridge, port, back, bump, hostOpen>>
    <2>1. SchedFits(sched, Queued, Hosted) /\ Pumped(sched) /\ Hosted \in SUBSET Calls
      BY <1>0 DEF Scheduled, Hosted
    <2>2. /\ c \in Calls /\ c \in Queued /\ c \notin Hosted /\ SchedFits(sc, Queued \ {c}, Hosted \cup {c})
          /\ Pumped(sc)
      BY <1>1, <2>1, StartFits
    <2> HIDE DEF sc, c
    <2>3. call[c].st = "queued" /\ call[c].st \in Accepted /\ "run" \in Accepted
      BY <2>2 DEF Queued, Accepted
    <2>4. SetsTo(c, "run", call[c].res)
      BY <1>0, <1>3, <2>2, <2>3, SetsStage
    <2>5. Scheduled'
      <3>1. Queued' = Put(Queued, c, "run" = "queued") /\ Hosted' = Put(Hosted, c, "run" \in {"run", "opening"})
        BY <2>2, <2>4, Moves
      <3>2. Queued' = Queued \ {c} /\ Hosted' = Hosted \cup {c}
        BY <3>1, <2>2 DEF Put
      <3> QED BY <3>2, <2>2, <1>3 DEF Scheduled
    <2>6. Locked'
      BY <1>0, <1>3, <2>2, <2>3, <2>4, LockedSame DEF Beyond
    <2>7. lock' \in [Workers -> LockStates] /\ hostOpen' \subseteq Calls
      BY <1>0, <1>3 DEF BridgeTypeOK
    <2>8. Chained' /\ fds' \in [Workers -> SUBSET Calls] /\ chain' \in [Calls -> Seq(Calls)]
      <3>1. CASE call[c].op \in FdOps
        <4>1. d # NoCall
          BY <1>0, <2>2, <3>1 DEF Replies
        <4> QED BY <1>0, <1>3, <2>2, <2>3, <2>4, <3>1, <4>1, JoinsChain
      <3>2. CASE call[c].op \notin FdOps
        <4>1. d = NoCall /\ call[c].op # "close"
          BY <1>0, <2>2, <3>2 DEF Replies, FdOps
        <4>2. chain' = chain /\ fds' = fds /\ hostOpen' = hostOpen /\ bridge' = bridge
          BY <1>3, <4>1
        <4>3. Chained'
          BY <1>0, <2>2, <2>4, <3>2, <4>2, ChainedSame
        <4> QED BY <1>0, <4>2, <4>3 DEF BridgeTypeOK
      <3> QED BY <3>1, <3>2
    <2>9. UNCHANGED <<client, got, port, back, counter, bump, bridge>>
      BY <1>1, <1>3 DEF clientVars
    <2> QED BY <2>2, <2>3, <2>4, <2>5, <2>6, <2>7, <2>8, <2>9, StageKeeps
  <1> QED BY <1>2, <1>3 DEF Start

\* A call with its result only: its stage is what it was.
LEMMA SetsResult ==
  ASSUME BridgeTypeOK, NEW c \in Calls, NEW r \in Results, call' = [call EXCEPT ![c].res = r]
  PROVE  SetsTo(c, call[c].st, r)
  <1>1. call \in [Calls -> CallStates] /\ call[c] \in CallStates
    BY DEF BridgeTypeOK
  <1>2. call'[c] = [op |-> call[c].op, sync |-> call[c].sync, fd |-> call[c].fd, st |-> call[c].st, res |-> r]
    BY <1>1 DEF CallStates
  <1>3. call'[c] \in CallStates
    BY <1>1, <1>2 DEF CallStates
  <1>4. \A e \in Calls : e # c => call'[e] = call[e]
    BY <1>1
  <1>5. call' \in [Calls -> CallStates]
    BY <1>1, <1>3, <1>4
  <1> QED BY <1>2, <1>4, <1>5 DEF SetsTo

\* A call is handed to the scheduler, or its worker's queue is full.
LEMMA QueuesUp ==
  ASSUME BridgeTypeOK, Scheduled, NEW c \in Calls, NEW a, NEW r, SetsTo(c, a, r),
         call[c].st \notin {"queued", "run", "opening"},
         a = IF QueueFull(By[c]) THEN "rejected" ELSE "queued",
         sched' = IF QueueFull(By[c]) THEN sched ELSE Submitted(sched, c)
  PROVE  Scheduled'
  <1>1. CASE QueueFull(By[c])
    BY <1>1, ScheduledSame
  <1>2. CASE ~QueueFull(By[c])
    <2>1. a = "queued" /\ sched' = Submitted(sched, c)
      BY <1>2
    <2>2. Queued' = Put(Queued, c, a = "queued") /\ Hosted' = Put(Hosted, c, a \in {"run", "opening"})
      BY Moves
    <2>3. c \notin Queued /\ c \notin Hosted /\ Hosted \in SUBSET Calls
      BY DEF Queued, Hosted, OnHost
    <2>4. Queued' = Queued \cup {c} /\ Hosted' = Hosted
      BY <2>1, <2>2, <2>3 DEF Put
    <2>5. SchedFits(Submitted(sched, c), Queued \cup {c}, Hosted) /\ Pumped(Submitted(sched, c))
      BY <2>3, SubmittedFits DEF Scheduled
    <2> QED BY <2>1, <2>4, <2>5 DEF Scheduled
  <1> QED BY <1>1, <1>2

\* The next of the granted goes to the scheduler.
LEMMA SubmitGrantedKeeps ==
  ASSUME BridgeInv, NEW w \in Workers, SubmitGranted(w)
  PROVE  BridgeInv'
  <1> DEFINE l == lock[w]
             c == Head(l.granted)
             u == [l EXCEPT !.granted = Tail(@)]
             a == IF QueueFull(w) THEN "rejected" ELSE "queued"
  <1>0. BridgeTypeOK /\ Scheduled /\ Chained /\ Locked
    BY DEF BridgeInv
  <1>1. /\ l.granted # <<>> /\ call' = [call EXCEPT ![c].st = a]
        /\ sched' = IF QueueFull(w) THEN sched ELSE Submitted(sched, c)
        /\ lock' = [lock EXCEPT ![w].granted = Tail(@)]
        /\ UNCHANGED <<client, got, port, back, counter, bump, bridge, fds, chain, hostOpen>>
    BY DEF SubmitGranted
  <1>2. LockFits(l, Locking(w), Past(w), OpOf) /\ Waits(l) /\ Past(w) \in SUBSET Calls
    BY <1>0, SetFacts DEF Locked
  <1>3. c \in Calls /\ c \in Locking(w) /\ LockFits(u, Locking(w) \ {c}, Past(w) \cup {c}, OpOf) /\ Waits(u)
    BY <1>1, <1>2, GoesOnFits
  <1>4. lock' = [lock EXCEPT ![w] = u]
    <2>1. lock \in [Workers -> LockStates]
      BY <1>0 DEF BridgeTypeOK
    <2> QED BY <1>1, <2>1
  <1>5. Held(c)
    BY <1>2, <1>3 DEF LockFits, OpOf, Held
  <1> HIDE DEF c, u, l
  <1>6. By[c] = w /\ call[c].st = "locking" /\ call[c].st \in Accepted /\ a \in Accepted /\ a \in Beyond
    BY <1>3 DEF Locking, Of, Accepted, Beyond
  <1>7. SetsTo(c, a, call[c].res)
    BY <1>0, <1>1, <1>3, <1>6, SetsStage
  <1>8. Scheduled'
    BY <1>0, <1>1, <1>3, <1>6, <1>7, QueuesUp
  <1>9. Locked' /\ lock' \in [Workers -> LockStates]
    <2>1. /\ Put(Locking(By[c]), c, a = "locking") = Locking(w) \ {c}
          /\ Put(Past(By[c]), c, Held(c) /\ a \in Beyond) = Past(w) \cup {c}
      BY <1>5, <1>6 DEF Put
    <2>2. LockFits(u, Put(Locking(By[c]), c, a = "locking"), Put(Past(By[c]), c, Held(c) /\ a \in Beyond), OpOf)
      BY <1>3, <2>1
    <2>3. lock' = [lock EXCEPT ![By[c]] = u]
      BY <1>4, <1>6
    <2> HIDE DEF a
    <2> QED BY <1>0, <1>3, <1>7, <2>2, <2>3, LockedKept
  <1>10. Chained'
    BY <1>0, <1>1, <1>3, <1>6, <1>7, ChainedSame
  <1>11. fds' \in [Workers -> SUBSET Calls] /\ chain' \in [Calls -> Seq(Calls)] /\ hostOpen' \subseteq Calls
    BY <1>0, <1>1 DEF BridgeTypeOK
  <1> HIDE DEF a
  <1> QED BY <1>1, <1>3, <1>6, <1>7, <1>8, <1>9, <1>10, <1>11, StageKeeps

\* A call is answered and its worker's counters are set; the lock, the scheduler and the
\* chains are as they were.
LEMMA AnswerKeeps ==
  ASSUME BridgeInv, NEW c \in Calls, NEW a, NEW r \in Results \ {"none", "ok"}, SetsTo(c, a, r), Reply(c, r),
         a = call[c].st \/ (a = "over" /\ call[c].st = "sent"), call[c].st \notin {"new", "over"},
         a # "sent", UNCHANGED <<client, got, counter, hostVars>>,
         Counted', bridge' \in [Workers -> [stuck : Nat, syncIn : {0, 1}, inFlight : Nat, closed : BOOLEAN]],
         \A w \in Workers : bridge'[w].closed = bridge[w].closed
  PROVE  BridgeInv'
  <1>0. BridgeTypeOK /\ Scheduled /\ Chained /\ Locked /\ Replies
    BY DEF BridgeInv
  <1>1. lock' = lock /\ sched' = sched /\ fds' = fds /\ chain' = chain /\ hostOpen' = hostOpen
    BY DEF hostVars
  <1>2. Scheduled'
    BY <1>0, <1>1, ScheduledSame
  <1>3. Locked'
    BY <1>0, <1>1, LockedSame DEF Beyond
  <1>4. Chained'
    BY <1>0, <1>1, ChainedSame
  <1>5. /\ port' \in [Workers -> Seq(Calls \X Results)] /\ back' \subseteq Calls
        /\ bump' \in Workers \cup {NoCall} /\ OnePort(c, r)
    BY <1>0, ReplyFacts
  <1>6. Onwards
    <2>1. call'[c].res # "ok" /\ call'[c].st \notin {"new", "sent"} /\ call[c].st # "over"
      BY DEF SetsTo
    <2>2. \A e \in Calls : e # c => call'[e] = call[e]
      BY DEF SetsTo
    <2>3. \A e \in Calls : call[e].res = "ok" => call[e].st = "over"
      BY <1>0 DEF Replies
    <2>4. \A e \in Calls : call'[e].op = call[e].op /\ call'[e].fd = call[e].fd
      BY DEF SetsTo
    <2> QED BY <2>1, <2>2, <2>3, <2>4 DEF Onwards
  <1>7. Replies'
    BY <1>0, <1>5, <1>6, RepliesKept
  <1>8. call' \in [Calls -> CallStates]
    BY DEF SetsTo
  <1>9. BridgeTypeOK'
    BY <1>0, <1>1, <1>5, <1>8 DEF BridgeTypeOK
  <1> QED BY <1>2, <1>3, <1>4, <1>7, <1>9 DEF BridgeInv

\* The deadline passes: the call is answered, and counts as stuck until its work ends.
LEMMA DeadlineKeeps ==
  ASSUME BridgeInv, NEW c \in Calls, Deadline(c)
  PROVE  BridgeInv'
  <1> DEFINE w == By[c]
             a == call[c].st
             r == "ETIMEDOUT"
             f == bridge[w].inFlight
             g == bridge[w].stuck + 1
             h == bridge[w].syncIn - SyncIn(c)
  <1>0. BridgeTypeOK /\ Counted
    BY DEF BridgeInv
  <1>1. /\ call[c].st \in Accepted /\ call[c].res = "none" /\ Reply(c, r) /\ call' = [call EXCEPT ![c].res = r]
        /\ bridge' = [bridge EXCEPT ![w].stuck = @ + 1, ![w].syncIn = @ - SyncIn(c)]
        /\ UNCHANGED <<client, got, counter, hostVars>>
    BY DEF Deadline
  <1>2. r \in Results /\ r \in Results \ {"none", "ok"} /\ r # "none"
    BY DEF Results
  <1> HIDE DEF r
  <1>3. SetsTo(c, a, r)
    BY <1>0, <1>1, <1>2, SetsResult
  <1>4. /\ w \in Workers
        /\ bridge \in [Workers -> [stuck : Nat, syncIn : {0, 1}, inFlight : Nat, closed : BOOLEAN]]
        /\ bridge[w].stuck \in Nat /\ bridge[w].syncIn \in {0, 1} /\ bridge[w].inFlight \in Nat
        /\ bridge[w] = [stuck |-> bridge[w].stuck, syncIn |-> bridge[w].syncIn,
                        inFlight |-> bridge[w].inFlight, closed |-> bridge[w].closed]
    BY <1>0, CallFields, BridgeFields
  <1>5. SyncIn(c) \in {0, 1}
    BY DEF SyncIn
  <1>6. f \in Int /\ g \in Int /\ h \in Int /\ h <= 1
    BY <1>4, <1>5
  <1>7. /\ bridge'[w] = [stuck |-> g, syncIn |-> h, inFlight |-> f, closed |-> bridge[w].closed]
        /\ \A v \in Workers : v # w => bridge'[v] = bridge[v]
        /\ DOMAIN bridge' = Workers
    BY <1>1, <1>4
  <1>8. SetsCounters(w, f, g, h)
    <2> HIDE DEF f, g, h, w
    <2>1. bridge' = [v \in Workers |-> bridge'[v]]
      BY <1>1, <1>4
    <2> QED BY <1>4, <1>7, <2>1 DEF SetsCounters
  <1>9. Counts(c, a, r, f, g, h)
    <2>1. /\ Put(InWork(w), c, a \in Accepted) = InWork(w) \cup {c}
          /\ Put(Late(w), c, a \in Accepted /\ r # "none") = Late(w) \cup {c}
          /\ Put(Blocking(w), c, a \in Accepted /\ r = "none" /\ call[c].sync) = Blocking(w) \ {c}
      BY <1>1, <1>2 DEF Put
    <2>2. c \in InWork(w) /\ c \notin Late(w) /\ Late(w) \subseteq Calls
      BY <1>1, <1>4, SetFacts DEF InWork, Late, Of
    <2>3. f = Cardinality(InWork(w) \cup {c})
      <3>1. InWork(w) \cup {c} = InWork(w)
        BY <2>2
      <3> QED BY <3>1, <1>0, <1>4 DEF Counted
    <2>4. g = Cardinality(Late(w) \cup {c})
      <3>1. Cardinality(Late(w) \cup {c}) = Cardinality(Late(w)) + 1
        BY <2>2, Countable
      <3> QED BY <3>1, <1>0, <1>4 DEF Counted
    <2>5. h = Cardinality(Blocking(w) \ {c})
      BY <1>0, <1>1, CountsWithout
    <2> QED BY <2>1, <2>3, <2>4, <2>5 DEF Counts
  <1> HIDE DEF f, g, h, a
  <1>10. /\ Counted' /\ bridge' \in [Workers -> [stuck : Nat, syncIn : {0, 1}, inFlight : Nat, closed : BOOLEAN]]
         /\ \A v \in Workers : bridge'[v].closed = bridge[v].closed
    BY <1>0, <1>3, <1>6, <1>8, <1>9, CountedKept
  <1>11. a = call[c].st /\ call[c].st \notin {"new", "over"} /\ a # "sent"
    BY <1>1 DEF Accepted, a
  <1> QED BY <1>1, <1>2, <1>3, <1>10, <1>11, AnswerKeeps

\* A message is refused.
LEMMA RefusedKeeps ==
  ASSUME BridgeInv, NEW c \in Calls, call[c].st = "sent", Refused(c, "EIO"),
         UNCHANGED <<client, got, counter, bridge, hostVars>>
  PROVE  BridgeInv'
  <1>0. BridgeTypeOK /\ Counted
    BY DEF BridgeInv
  <1>1. "EIO" \in Results /\ "EIO" \in Results \ {"none", "ok"}
    BY DEF Results
  <1>2. Reply(c, "EIO") /\ call' = [call EXCEPT ![c].st = "over", ![c].res = "EIO"]
    BY DEF Refused
  <1>3. SetsTo(c, "over", "EIO")
    BY <1>0, <1>1, <1>2, SetsBoth
  <1>4. call[c].st \notin Accepted /\ "over" \notin Accepted
    BY DEF Accepted
  <1>5. Counted'
    BY <1>0, <1>3, <1>4, CountedOut
  <1>6. /\ bridge' \in [Workers -> [stuck : Nat, syncIn : {0, 1}, inFlight : Nat, closed : BOOLEAN]]
        /\ \A w \in Workers : bridge'[w].closed = bridge[w].closed
    BY <1>0 DEF BridgeTypeOK
  <1> QED BY <1>1, <1>2, <1>3, <1>5, <1>6, AnswerKeeps

\* A message is accepted: the counters.
LEMMA AcceptedCounted ==
  ASSUME BridgeTypeOK, Counted, NEW c \in Calls, NEW a \in Accepted, SetsTo(c, a, "none"),
         call[c].st = "sent", ~(call[c].sync /\ bridge[By[c]].syncIn > 0),
         bridge' = [bridge EXCEPT ![By[c]].inFlight = @ + 1, ![By[c]].syncIn = @ + SyncIn(c)]
  PROVE  /\ Counted' /\ bridge' \in [Workers -> [stuck : Nat, syncIn : {0, 1}, inFlight : Nat, closed : BOOLEAN]]
         /\ \A v \in Workers : bridge'[v].closed = bridge[v].closed
  <1> DEFINE w == By[c]
             f == bridge[w].inFlight + 1
             g == bridge[w].stuck
             h == bridge[w].syncIn + SyncIn(c)
  <1>1. /\ w \in Workers
        /\ bridge \in [Workers -> [stuck : Nat, syncIn : {0, 1}, inFlight : Nat, closed : BOOLEAN]]
        /\ bridge[w].stuck \in Nat /\ bridge[w].syncIn \in {0, 1} /\ bridge[w].inFlight \in Nat
        /\ bridge[w] = [stuck |-> bridge[w].stuck, syncIn |-> bridge[w].syncIn,
                        inFlight |-> bridge[w].inFlight, closed |-> bridge[w].closed]
    BY CallFields, BridgeFields
  <1>2. SyncIn(c) = IF call[c].sync THEN 1 ELSE 0
    BY DEF SyncIn
  <1>3. f \in Int /\ g \in Int /\ h \in Int /\ h <= 1
    BY <1>1, <1>2
  <1>4. /\ bridge'[w] = [stuck |-> g, syncIn |-> h, inFlight |-> f, closed |-> bridge[w].closed]
        /\ \A v \in Workers : v # w => bridge'[v] = bridge[v]
        /\ DOMAIN bridge' = Workers
    BY <1>1
  <1>5. SetsCounters(w, f, g, h)
    <2> HIDE DEF f, g, h
    <2>1. bridge' = [v \in Workers |-> bridge'[v]]
      BY <1>1
    <2> QED BY <1>1, <1>4, <2>1 DEF SetsCounters
  <1>6. Counts(c, a, "none", f, g, h)
    <2>1. /\ c \notin InWork(w) /\ c \notin Late(w) /\ c \notin Blocking(w)
          /\ InWork(w) \subseteq Calls /\ Blocking(w) \subseteq Calls
      BY <1>1, SetFacts DEF InWork, Late, Blocking, Accepted
    <2>2. /\ Put(InWork(w), c, a \in Accepted) = InWork(w) \cup {c}
          /\ Put(Late(w), c, a \in Accepted /\ "none" # "none") = Late(w)
      BY <2>1 DEF Put
    <2>3. Put(Blocking(w), c, a \in Accepted /\ "none" = "none" /\ call[c].sync)
            = IF call[c].sync THEN Blocking(w) \cup {c} ELSE Blocking(w)
      BY <2>1 DEF Put
    <2>4. /\ bridge[w].inFlight = Cardinality(InWork(w)) /\ bridge[w].stuck = Cardinality(Late(w))
          /\ bridge[w].syncIn = Cardinality(Blocking(w))
      BY <1>1 DEF Counted
    <2>5. f = Cardinality(InWork(w) \cup {c})
      BY <2>1, <2>4, Countable
    <2>6. h = Cardinality(IF call[c].sync THEN Blocking(w) \cup {c} ELSE Blocking(w))
      <3>1. Cardinality(Blocking(w) \cup {c}) = Cardinality(Blocking(w)) + 1
        BY <2>1, Countable
      <3> QED BY <3>1, <2>4, <1>1, <1>2
    <2> QED BY <2>2, <2>3, <2>4, <2>5, <2>6 DEF Counts
  <1> HIDE DEF f, g, h
  <1> QED BY <1>3, <1>5, <1>6, CountedKept

\* broker.handle.
LEMMA HandleKeeps ==
  ASSUME BridgeInv, NEW c \in Calls, call[c].st = "sent", ~(call[c].sync /\ bridge[By[c]].syncIn > 0), Handle(c)
  PROVE  BridgeInv'
  <1> DEFINE w == By[c]
             a == IF Held(c) THEN "locking" ELSE IF QueueFull(w) THEN "rejected" ELSE "queued"
  <1>0. BridgeTypeOK /\ Scheduled /\ Chained /\ Locked /\ Replies /\ Counted
    BY DEF BridgeInv
  <1>1. /\ call' = [call EXCEPT ![c].st = a]
        /\ bridge' = [bridge EXCEPT ![By[c]].inFlight = @ + 1, ![By[c]].syncIn = @ + SyncIn(c)]
        /\ UNCHANGED <<client, got, counter, port, back, bump, fds, chain, hostOpen>>
    BY DEF Handle
  <1>2. a \in Accepted /\ a \in {"locking", "rejected", "queued"}
    BY DEF Accepted
  <1>3. call[c].res = "none" /\ w \in Workers /\ lock \in [Workers -> LockStates]
    BY <1>0, CallFields DEF Replies, BridgeTypeOK
  <1>4. SetsTo(c, a, call[c].res)
    BY <1>0, <1>1, <1>2, SetsStage
  <1>5. SetsTo(c, a, "none")
    BY <1>3, <1>4
  <1>6. /\ Counted' /\ bridge' \in [Workers -> [stuck : Nat, syncIn : {0, 1}, inFlight : Nat, closed : BOOLEAN]]
        /\ \A v \in Workers : bridge'[v].closed = bridge[v].closed
    <2> HIDE DEF a
    <2> QED BY <1>0, <1>1, <1>2, <1>5, AcceptedCounted
  <1>7. Locked' /\ lock' \in [Workers -> LockStates] /\ Scheduled'
    <2>1. CASE Held(c)
      <3> DEFINE l == lock[w]
                 u == Enqueued(l, c)
      <3>1. lock' = [lock EXCEPT ![w] = u] /\ sched' = sched /\ a = "locking"
        BY <2>1 DEF Handle
      <3>2. LockFits(l, Locking(w), Past(w), OpOf) /\ Past(w) \in SUBSET Calls
        BY <1>0, <1>3, SetFacts DEF Locked
      <3>3. c \notin Locking(w) /\ c \notin Past(w) /\ call[c].op \in PathOps
        BY <2>1 DEF Locking, Past, Held
      <3>4. LockFits(u, Locking(w) \cup {c}, Past(w), OpOf) /\ Waits(u)
        BY <3>2, <3>3, EnqueuedFits DEF Enqueued
      <3> HIDE DEF l, u
      <3>5. /\ Put(Locking(w), c, a = "locking") = Locking(w) \cup {c}
            /\ Put(Past(w), c, Held(c) /\ a \in Beyond) = Past(w)
        BY <3>1, <3>3 DEF Put, Beyond
      <3>6. LockFits(u, Put(Locking(By[c]), c, a = "locking"), Put(Past(By[c]), c, Held(c) /\ a \in Beyond), OpOf)
        BY <3>4, <3>5
      <3>7. lock' = [lock EXCEPT ![By[c]] = u]
        BY <3>1
      <3>8. Scheduled'
        BY <1>0, <1>4, <3>1, ScheduledSame
      <3> HIDE DEF a
      <3>9. Locked' /\ lock' \in [Workers -> LockStates]
        BY <1>0, <1>4, <3>4, <3>6, <3>7, LockedKept
      <3> QED BY <3>8, <3>9
    <2>2. CASE ~Held(c)
      <3>1. /\ lock' = lock /\ sched' = IF QueueFull(w) THEN sched ELSE Submitted(sched, c)
            /\ a = IF QueueFull(w) THEN "rejected" ELSE "queued"
        BY <2>2 DEF Handle
      <3>2. a # "locking"
        BY <3>1
      <3> HIDE DEF a
      <3>3. Locked'
        BY <1>0, <1>4, <2>2, <3>1, <3>2, LockedSame
      <3>4. Scheduled'
        BY <1>0, <1>4, <3>1, QueuesUp
      <3> QED BY <1>3, <3>1, <3>3, <3>4
    <2> QED BY <2>1, <2>2
  <1>8. Chained'
    BY <1>0, <1>1, <1>2, <1>4, <1>6, ChainedSame
  <1> HIDE DEF a
  <1>9. Onwards
    <2>1. call'[c].res # "ok" /\ call'[c].st \notin {"new", "sent"}
      BY <1>2, <1>5 DEF SetsTo
    <2>2. \A e \in Calls : e # c => call'[e] = call[e]
      BY <1>5 DEF SetsTo
    <2>3. \A e \in Calls : call[e].res = "ok" => call[e].st = "over"
      BY <1>0 DEF Replies
    <2>4. \A e \in Calls : call'[e].op = call[e].op /\ call'[e].fd = call[e].fd
      BY <1>5 DEF SetsTo
    <2> QED BY <2>1, <2>2, <2>3, <2>4 DEF Onwards
  <1>10. OnePort(c, "none")
    BY <1>1 DEF OnePort
  <1>11. Replies'
    BY <1>0, <1>1, <1>9, <1>10, RepliesKept
  <1>12. call' \in [Calls -> CallStates]
    BY <1>5 DEF SetsTo
  <1>13. sched' \in SchedStates
    BY <1>7 DEF Scheduled, SchedFits
  <1>14. BridgeTypeOK'
    BY <1>0, <1>1, <1>6, <1>7, <1>12, <1>13 DEF BridgeTypeOK
  <1> QED BY <1>6, <1>7, <1>8, <1>11, <1>14 DEF BridgeInv

\* A message arrives.
LEMMA ReceiveKeeps ==
  ASSUME BridgeInv, NEW c \in Calls, Receive(c)
  PROVE  BridgeInv'
  <1>1. call[c].st = "sent"
    BY DEF Receive
  <1>2. CASE Refused(c, "EIO") /\ UNCHANGED <<client, got, counter, bridge, hostVars>>
    BY <1>1, <1>2, RefusedKeeps
  <1>3. CASE ~(call[c].sync /\ bridge[By[c]].syncIn > 0) /\ Handle(c)
    BY <1>1, <1>3, HandleKeeps
  <1> QED BY <1>2, <1>3 DEF Receive

\* The bridge closes: what was queued is rejected, and the worker's descriptors are closed.
LEMMA CloseKeeps ==
  ASSUME BridgeInv, NEW w \in Workers, CloseBridge(w)
  PROVE  BridgeInv'
  <1> DEFINE Z == Elems(sched.queues[w])
  <1>0. BridgeTypeOK /\ Scheduled /\ Chained /\ Locked /\ Replies /\ Counted
    BY DEF BridgeInv
  <1>1. /\ bridge' = [bridge EXCEPT ![w] = Closed(@)] /\ sched' = Forgotten(sched, w)
        /\ call' = [c \in Calls |-> IF c \in ToSet(sched.queues[w]) THEN [call[c] EXCEPT !.st = "rejected"]
                                    ELSE call[c]]
        /\ fds' = [fds EXCEPT ![w] = {}] /\ hostOpen' = hostOpen \ fds[w]
        /\ UNCHANGED <<client, got, port, back, counter, bump, lock, chain>>
    BY DEF CloseBridge
  <1>2. ToSet(sched.queues[w]) = Z
    BY DEF ToSet, Elems
  <1>3. /\ SchedFits(sched, Queued, Hosted) /\ Pumped(sched) /\ Hosted \in SUBSET Calls
        /\ Z \subseteq Of(w) /\ \A c \in Z : c \in Calls /\ By[c] = w /\ call[c].st = "queued"
    <2>1. SchedFits(sched, Queued, Hosted) /\ Pumped(sched) /\ Hosted \in SUBSET Calls
      BY <1>0 DEF Scheduled, Hosted
    <2>2. Z \subseteq Of(w) /\ \A c \in Calls : By[c] = w /\ c \in Z => c \in Queued
      BY <2>1 DEF SchedFits
    <2> QED BY <2>1, <2>2 DEF Of, Queued
  <1> HIDE DEF Z
  <1>4. call \in [Calls -> CallStates]
    BY <1>0 DEF BridgeTypeOK
  <1>5. ASSUME NEW c \in Calls
        PROVE  /\ call'[c] \in CallStates /\ call'[c].op = call[c].op /\ call'[c].sync = call[c].sync
               /\ call'[c].fd = call[c].fd /\ call'[c].res = call[c].res
               /\ call'[c].st = IF c \in Z THEN "rejected" ELSE call[c].st
    <2>1. call[c] \in CallStates
      BY <1>4
    <2>2. CASE c \in Z
      <3>1. call'[c] = [op |-> call[c].op, sync |-> call[c].sync, fd |-> call[c].fd, st |-> "rejected",
                        res |-> call[c].res]
        <4>1. call'[c] = [call[c] EXCEPT !.st = "rejected"]
          BY <1>1, <1>2, <2>2
        <4> QED BY <4>1, <2>1 DEF CallStates
      <3> QED BY <2>1, <2>2, <3>1 DEF CallStates, Accepted
    <2>3. CASE c \notin Z
      BY <1>1, <1>2, <2>1, <2>3
    <2> QED BY <2>2, <2>3
  <1>6. call' \in [Calls -> CallStates]
    BY <1>1, <1>5
  <1>7. /\ bridge \in [Workers -> [stuck : Nat, syncIn : {0, 1}, inFlight : Nat, closed : BOOLEAN]]
        /\ bridge[w].stuck \in Nat /\ bridge[w].syncIn \in {0, 1} /\ bridge[w].inFlight \in Nat
        /\ bridge[w] = [stuck |-> bridge[w].stuck, syncIn |-> bridge[w].syncIn,
                        inFlight |-> bridge[w].inFlight, closed |-> bridge[w].closed]
    BY <1>0, BridgeFields
  <1>8. /\ bridge'[w] = [stuck |-> bridge[w].stuck, syncIn |-> bridge[w].syncIn,
                         inFlight |-> bridge[w].inFlight, closed |-> TRUE]
        /\ \A v \in Workers : v # w => bridge'[v] = bridge[v]
    BY <1>1, <1>7 DEF Closed
  <1>9. bridge' \in [Workers -> [stuck : Nat, syncIn : {0, 1}, inFlight : Nat, closed : BOOLEAN]]
    <2>1. bridge'[w] \in [stuck : Nat, syncIn : {0, 1}, inFlight : Nat, closed : BOOLEAN]
      BY <1>7, <1>8
    <2> QED BY <1>1, <1>7, <1>8, <2>1
  <1>10. Counted'
    <2>1. ASSUME NEW v \in Workers
          PROVE  InWork(v)' = InWork(v) /\ Late(v)' = Late(v) /\ Blocking(v)' = Blocking(v)
      <3>1. InWork(v)' = InWork(v)
        BY <1>3, <1>5 DEF InWork, Of, Accepted
      <3>2. InWork(v) \subseteq Calls
        BY SetFacts
      <3> QED BY <1>5, <3>1, <3>2 DEF Late, Blocking
    <2>2. \A v \in Workers : /\ bridge'[v].inFlight = bridge[v].inFlight /\ bridge'[v].stuck = bridge[v].stuck
                             /\ bridge'[v].syncIn = bridge[v].syncIn
      BY <1>8
    <2> QED BY <1>0, <2>1, <2>2 DEF Counted
  <1>11. Locked'
    <2>1. OpOf' = OpOf
      BY <1>5 DEF OpOf
    <2>2. ASSUME NEW v \in Workers
          PROVE  Locking(v)' = Locking(v) /\ Past(v)' = Past(v)
      BY <1>3, <1>5 DEF Locking, Past, Of, Held
    <2> QED BY <1>0, <1>1, <2>1, <2>2 DEF Locked
  <1>12. Scheduled'
    <2>1. Queued' = Queued \ Z /\ Hosted' = Hosted
      BY <1>3, <1>5 DEF Queued, Hosted, OnHost
    <2>2. SchedFits(Forgotten(sched, w), Queued \ Z, Hosted) /\ Pumped(Forgotten(sched, w))
      BY <1>3, ForgottenFits DEF Z
    <2> QED BY <1>1, <2>1, <2>2 DEF Scheduled
  <1>13. fds \in [Workers -> SUBSET Calls] /\ chain \in [Calls -> Seq(Calls)] /\ hostOpen \subseteq Calls
    BY <1>0 DEF BridgeTypeOK
  <1>14. Chained'
    <2>1. \A v \in Workers : fds'[v] = IF v = w THEN {} ELSE fds[v]
      BY <1>1, <1>13
    <2>2. \A v \in Workers : fds[v] \subseteq Of(v) \cap hostOpen
      BY <1>0 DEF Chained
    <2>3. \A v \in Workers : fds'[v] \subseteq Of(v) \cap hostOpen'
      BY <1>1, <2>1, <2>2 DEF Of
    <2>4. \A d \in Calls : OnFd(d)' = OnFd(d)
      BY <1>3, <1>5 DEF OnFd
    <2>5. ASSUME NEW d \in Calls
          PROVE  /\ Once(chain'[d]) /\ Elems(chain'[d]) = OnFd(d)'
                 /\ chain'[d] # <<>> /\ ~bridge'[By[d]].closed => d \in hostOpen'
      <3>1. By[d] \in Workers
        BY <1>0, CallFields
      <3>2. Once(chain'[d]) /\ Elems(chain'[d]) = OnFd(d)'
        BY <1>0, <1>1, <2>4 DEF Chained
      <3>3. ASSUME chain'[d] # <<>>, ~bridge'[By[d]].closed
            PROVE  d \in hostOpen'
        <4>1. By[d] # w
          BY <1>8, <3>3
        <4>2. d \in hostOpen
          BY <1>0, <1>1, <1>8, <3>1, <3>3, <4>1 DEF Chained
        <4>3. d \notin fds[w]
          BY <2>2, <4>1 DEF Of
        <4> QED BY <1>1, <4>2, <4>3
      <3> QED BY <3>2, <3>3
    <2>6. ASSUME NEW d \in Calls, NEW i \in DOMAIN chain'[d], call'[chain'[d][i]].op = "close"
          PROVE  i = Len(chain'[d]) /\ d \notin fds'[By[d]]
      <3>1. chain'[d] = chain[d] /\ chain[d][i] \in Calls /\ By[d] \in Workers
        BY <1>0, <1>1, <1>13, <2>6, ElementOfSeq, CallFields
      <3>2. call[chain[d][i]].op = "close"
        BY <1>5, <2>6, <3>1
      <3>3. i = Len(chain[d]) /\ d \notin fds[By[d]]
        BY <1>0, <2>6, <3>1, <3>2 DEF Chained
      <3> QED BY <2>1, <3>1, <3>3
    <2>7. \A v \in Workers : Of(v)' = Of(v)
      BY DEF Of
    <2> QED BY <2>3, <2>5, <2>6, <2>7 DEF Chained
  <1>15. Replies'
    <2>1. Onwards
      BY <1>0, <1>3, <1>5 DEF Onwards, Replies
    <2>2. PICK c : c \in Calls \/ Calls = {}
      OBVIOUS
    <2>3. CASE Calls = {}
      <3>1. \A v \in Workers : client[v].pc \in {"load", "drain", "check", "asleep"} => client[v].cur \in Calls
        BY <1>0 DEF Replies
      <3>2. \A v \in Workers : port[v] \in Seq(Calls \X Results)
        BY <1>0 DEF BridgeTypeOK
      <3>3. \A v \in Workers : \A i \in DOMAIN port[v] : port[v][i] \in Calls \X Results
        BY <3>2, ElementOfSeq
      <3>4. \A v \in Workers : DOMAIN port[v] = {}
        BY <2>3, <3>3
      <3> QED BY <1>1, <2>3, <3>1, <3>4 DEF Replies
    <2>4. CASE c \in Calls
      <3>1. OnePort(c, "none")
        BY <1>1 DEF OnePort
      <3> QED BY <1>0, <1>1, <2>1, <2>4, <3>1, RepliesKept
    <2> QED BY <2>2, <2>3, <2>4
  <1>16. sched' \in SchedStates
    BY <1>12 DEF Scheduled, SchedFits
  <1>17. BridgeTypeOK'
    <2>1. fds' \in [Workers -> SUBSET Calls] /\ hostOpen' \subseteq Calls
      BY <1>1, <1>13
    <2> QED BY <1>0, <1>1, <1>6, <1>9, <1>16, <2>1 DEF BridgeTypeOK
  <1> QED BY <1>10, <1>11, <1>12, <1>14, <1>15, <1>17 DEF BridgeInv

\* What the worker's end may say: it waits in a call, it has the reply of that very call, and
\* what its ports answer "ok" is over.
ClientFits ==
  /\ \A w \in Workers : client[w].pc \in {"load", "drain", "check", "asleep"} => client[w].cur \in Calls
  /\ \A c \in Calls : got[c] # <<>> => got[c][1] = c /\ (got[c][2] = "ok" => call[c].st = "over")
  /\ \A w \in Workers : \A i \in DOMAIN port[w] : port[w][i][2] = "ok" => call[port[w][i][1]].st = "over"

\* The worker's variables have their types.
ClientTypes ==
  /\ client \in [Workers -> [pc : {"idle", "load", "drain", "check", "asleep", "gone"},
                            cur : Calls \cup {NoCall}, seen : Nat]]
  /\ got \in [Calls -> {<<>>} \cup (Calls \X Results)]
  /\ port \in [Workers -> Seq(Calls \X Results)] /\ back \subseteq Calls
  /\ counter \in [Workers -> Nat] /\ bump \in Workers \cup {NoCall}

\* Both are parts of the invariant.
LEMMA ClientFacts ==
  ASSUME BridgeInv
  PROVE  ClientFits /\ ClientTypes
  <1>1. ClientFits
    BY DEF BridgeInv, Replies, ClientFits
  <1>2. ClientTypes
    BY DEF BridgeInv, BridgeTypeOK, ClientTypes
  <1> QED BY <1>1, <1>2

\* A step of the worker's end that leaves the main thread's state alone.
LEMMA ClientKeeps ==
  ASSUME BridgeInv, UNCHANGED <<call, bridge, hostVars>>, ClientFits', ClientTypes'
  PROVE  BridgeInv'
  <1>0. BridgeTypeOK /\ Scheduled /\ Chained /\ Locked /\ Replies /\ Counted
    BY DEF BridgeInv
  <1>1. lock' = lock /\ sched' = sched /\ fds' = fds /\ chain' = chain /\ hostOpen' = hostOpen /\ call' = call
        /\ bridge' = bridge
    BY DEF hostVars
  <1>2. BridgeTypeOK'
    BY <1>0, <1>1 DEF BridgeTypeOK, ClientTypes
  <1>3. Replies'
    BY <1>0, <1>1 DEF Replies, ClientFits
  <1>4. Counted'
    BY <1>0, <1>1 DEF Counted, InWork, Late, Blocking, Of
  <1>5. Locked'
    BY <1>0, <1>1 DEF Locked, Locking, Past, OpOf, Of, Held
  <1>6. Scheduled'
    BY <1>0, <1>1 DEF Scheduled, Queued, Hosted, OnHost
  <1>7. Chained'
    BY <1>0, <1>1 DEF Chained, OnFd, Of
  <1> QED BY <1>2, <1>3, <1>4, <1>5, <1>6, <1>7 DEF BridgeInv

\* The worker's loop: the counter is read, the worker goes to sleep, is woken.
LEMMA LoopKeeps ==
  ASSUME BridgeInv,
         \/ \E w \in Workers : LoadCounter(w) \/ Wait(w)
         \/ Bump
  PROVE  BridgeInv'
  <1>0. ClientFits /\ ClientTypes
    BY ClientFacts
  <1>1. ASSUME NEW w \in Workers, LoadCounter(w)
        PROVE  BridgeInv'
    <2>1. ClientFits'
      BY <1>0, <1>1 DEF ClientFits, ClientTypes, LoadCounter
    <2>2. ClientTypes'
      BY <1>0, <1>1 DEF ClientTypes, LoadCounter
    <2> QED BY <1>1, <2>1, <2>2, ClientKeeps DEF LoadCounter
  <1>2. ASSUME NEW w \in Workers, Wait(w)
        PROVE  BridgeInv'
    <2>1. PICK p \in {"asleep", "load"} : client' = [client EXCEPT ![w].pc = p]
      BY <1>2 DEF Wait
    <2>2. client[w].pc = "check" /\ UNCHANGED <<call, got, port, back, counter, bump, bridge, hostVars>>
      BY <1>2 DEF Wait
    <2>3. ClientFits'
      BY <1>0, <2>1, <2>2 DEF ClientFits, ClientTypes
    <2>4. ClientTypes'
      BY <1>0, <2>1, <2>2 DEF ClientTypes
    <2> QED BY <2>2, <2>3, <2>4, ClientKeeps
  <1>3. ASSUME Bump
        PROVE  BridgeInv'
    <2>1. /\ bump \in Workers /\ bump' = NoCall /\ counter' = [counter EXCEPT ![bump] = @ + 1]
          /\ client' = [client EXCEPT ![bump].pc = IF @ = "asleep" THEN "load" ELSE @]
          /\ UNCHANGED <<call, got, port, back, bridge, hostVars>>
      BY <1>0, <1>3 DEF Bump, Notified, ClientTypes
    <2>2. PICK p \in {"idle", "load", "drain", "check", "asleep", "gone"} :
            /\ client' = [client EXCEPT ![bump].pc = p]
            /\ p \in {"load", "drain", "check", "asleep"} => client[bump].pc \in {"load", "drain", "check", "asleep"}
      <3>1. client[bump].pc \in {"idle", "load", "drain", "check", "asleep", "gone"}
        BY <1>0, <2>1 DEF ClientTypes
      <3>2. CASE client[bump].pc = "asleep"
        BY <2>1, <3>2
      <3>3. CASE client[bump].pc # "asleep"
        BY <2>1, <3>1, <3>3
      <3> QED BY <3>2, <3>3
    <2>3. ClientFits'
      BY <1>0, <2>1, <2>2 DEF ClientFits, ClientTypes
    <2>4. ClientTypes'
      <3>1. counter' \in [Workers -> Nat]
        BY <1>0, <2>1 DEF ClientTypes
      <3>2. client' \in [Workers -> [pc : {"idle", "load", "drain", "check", "asleep", "gone"},
                                     cur : Calls \cup {NoCall}, seen : Nat]]
        BY <1>0, <2>1, <2>2 DEF ClientTypes
      <3> QED BY <1>0, <2>1, <3>1, <3>2 DEF ClientTypes
    <2> QED BY <2>1, <2>3, <2>4, ClientKeeps
  <1> QED BY <1>1, <1>2, <1>3

\* The worker's caller has its answer: the backstop's, or an asynchronous reply.
LEMMA GotKeeps ==
  ASSUME BridgeInv,
         (\E w \in Workers : Backstop(w)) \/ (\E c \in Calls : ReceiveAsync(c))
  PROVE  BridgeInv'
  <1>0. ClientFits /\ ClientTypes
    BY ClientFacts
  <1>1. ASSUME NEW w \in Workers, Backstop(w)
        PROVE  BridgeInv'
    <2> DEFINE e == client[w].cur
    <2>1. e \in Calls /\ got' = [got EXCEPT ![e] = <<e, "EIO">>]
          /\ client' = [client EXCEPT ![w].pc = "idle", ![w].cur = NoCall]
          /\ UNCHANGED <<call, port, back, counter, bump, bridge, hostVars>>
      BY <1>0, <1>1 DEF Backstop, ClientFits
    <2> HIDE DEF e
    <2>2. ClientFits'
      <3>1. \A v \in Workers : client'[v].pc \in {"load", "drain", "check", "asleep"} => client'[v].cur \in Calls
        BY <1>0, <2>1 DEF ClientFits, ClientTypes
      <3>2. \A c \in Calls : got'[c] # <<>> => got'[c][1] = c /\ (got'[c][2] = "ok" => call'[c].st = "over")
        BY <1>0, <2>1 DEF ClientFits, ClientTypes
      <3>3. \A v \in Workers : \A i \in DOMAIN port'[v] : port'[v][i][2] = "ok" => call'[port'[v][i][1]].st = "over"
        BY <1>0, <2>1 DEF ClientFits
      <3> QED BY <3>1, <3>2, <3>3 DEF ClientFits
    <2>3. ClientTypes'
      <3>1. got' \in [Calls -> {<<>>} \cup (Calls \X Results)]
        BY <1>0, <2>1 DEF ClientTypes, Results
      <3>2. client' \in [Workers -> [pc : {"idle", "load", "drain", "check", "asleep", "gone"},
                                     cur : Calls \cup {NoCall}, seen : Nat]]
        BY <1>0, <2>1 DEF ClientTypes
      <3> QED BY <1>0, <2>1, <3>1, <3>2 DEF ClientTypes
    <2> QED BY <2>1, <2>2, <2>3, ClientKeeps
  <1>2. ASSUME NEW e \in Calls, ReceiveAsync(e)
        PROVE  BridgeInv'
    <2> DEFINE r == call[e].res
    <2>1. /\ got' = [got EXCEPT ![e] = <<e, r>>] /\ back' = back \ {e}
          /\ UNCHANGED <<client, call, port, counter, bump, bridge, hostVars>>
      BY <1>2 DEF ReceiveAsync
    <2>2. r \in Results /\ (r = "ok" => call[e].st = "over")
      <3>1. BridgeTypeOK /\ Replies
        BY DEF BridgeInv
      <3> QED BY <3>1, CallFields DEF Replies
    <2> HIDE DEF r
    <2>3. ClientFits'
      <3>1. \A v \in Workers : client'[v].pc \in {"load", "drain", "check", "asleep"} => client'[v].cur \in Calls
        BY <1>0, <2>1 DEF ClientFits, ClientTypes
      <3>2. \A c \in Calls : got'[c] # <<>> => got'[c][1] = c /\ (got'[c][2] = "ok" => call'[c].st = "over")
        BY <1>0, <2>1, <2>2 DEF ClientFits, ClientTypes
      <3>3. \A v \in Workers : \A i \in DOMAIN port'[v] : port'[v][i][2] = "ok" => call'[port'[v][i][1]].st = "over"
        BY <1>0, <2>1 DEF ClientFits
      <3> QED BY <3>1, <3>2, <3>3 DEF ClientFits
    <2>4. ClientTypes'
      <3>1. got' \in [Calls -> {<<>>} \cup (Calls \X Results)]
        BY <1>0, <2>1, <2>2 DEF ClientTypes
      <3> QED BY <1>0, <2>1, <3>1 DEF ClientTypes
    <2> QED BY <2>1, <2>3, <2>4, ClientKeeps
  <1> QED BY <1>1, <1>2

\* What is left of a port after its first k replies.
LEMMA RestOfPort ==
  ASSUME NEW S, NEW s \in Seq(S), NEW k \in DOMAIN s
  PROVE  LET t == SubSeq(s, k + 1, Len(s)) IN
         t \in Seq(S) /\ \A i \in DOMAIN t : \E j \in DOMAIN s : t[i] = s[j]
  <1> DEFINE t == SubSeq(s, k + 1, Len(s))
             n == Len(s) - (k + 1) + 1
  <1>1. Len(s) \in Nat /\ DOMAIN s = 1 .. Len(s) /\ k \in Nat /\ k >= 1 /\ k <= Len(s)
    BY LenProperties
  <1>2. k + 1 \in Int /\ Len(s) \in Int /\ \A i \in k + 1 .. Len(s) : s[i] \in S
    BY <1>1, ElementOfSeq
  <1>3. /\ t \in Seq(S)
        /\ Len(t) = IF k + 1 <= Len(s) THEN n ELSE 0
        /\ \A i \in 1 .. n : t[i] = s[(k + 1) + i - 1]
    BY <1>2, SubSeqProperties
  <1> HIDE DEF t
  <1>4. DOMAIN t = 1 .. Len(t)
    BY <1>3, LenProperties
  <1>5. ASSUME NEW i \in DOMAIN t
        PROVE  \E j \in DOMAIN s : t[i] = s[j]
    <2>1. i \in 1 .. n
      BY <1>1, <1>3, <1>4
    <2>2. t[i] = s[(k + 1) + i - 1] /\ (k + 1) + i - 1 \in DOMAIN s
      BY <1>1, <1>3, <2>1
    <2> QED BY <2>2
  <1> QED BY <1>3, <1>5 DEF t

\* The port is drained: replies to earlier calls are dropped, the call's own ends the loop.
LEMMA DrainKeeps ==
  ASSUME BridgeInv, NEW w \in Workers, Drain(w)
  PROVE  BridgeInv'
  <1> DEFINE own == {i \in DOMAIN port[w] : Mine(w, port[w][i])}
             e == client[w].cur
             s == port[w]
  <1>0. ClientFits /\ ClientTypes
    BY ClientFacts
  <1>1. e \in Calls /\ client[w].pc = "drain" /\ UNCHANGED <<call, back, counter, bump, bridge, hostVars>>
    BY <1>0 DEF Drain, ClientFits
  <1>2. s \in Seq(Calls \X Results) /\ DOMAIN s \subseteq Nat
    BY <1>0 DEF ClientTypes
  <1>3. CASE /\ port' = [port EXCEPT ![w] = <<>>] /\ client' = [client EXCEPT ![w].pc = "check"] /\ got' = got
    <2>1. ClientFits'
      <3>1. \A v \in Workers : client'[v].pc \in {"load", "drain", "check", "asleep"} => client'[v].cur \in Calls
        BY <1>0, <1>1, <1>3 DEF ClientFits, ClientTypes
      <3>2. \A c \in Calls : got'[c] # <<>> => got'[c][1] = c /\ (got'[c][2] = "ok" => call'[c].st = "over")
        BY <1>0, <1>1, <1>3 DEF ClientFits, ClientTypes
      <3>3. \A v \in Workers : port'[v] = IF v = w THEN <<>> ELSE port[v]
        BY <1>0, <1>3 DEF ClientTypes
      <3>4. \A v \in Workers : \A i \in DOMAIN port'[v] : port'[v][i][2] = "ok" => call'[port'[v][i][1]].st = "over"
        BY <1>0, <1>1, <3>3 DEF ClientFits
      <3> QED BY <3>1, <3>2, <3>4 DEF ClientFits
    <2>2. ClientTypes'
      <3>1. port' \in [Workers -> Seq(Calls \X Results)]
        BY <1>0, <1>3 DEF ClientTypes
      <3>2. client' \in [Workers -> [pc : {"idle", "load", "drain", "check", "asleep", "gone"},
                                     cur : Calls \cup {NoCall}, seen : Nat]]
        BY <1>0, <1>3 DEF ClientTypes
      <3> QED BY <1>0, <1>1, <1>3, <3>1, <3>2 DEF ClientTypes
    <2> QED BY <1>1, <2>1, <2>2, ClientKeeps
  <1>4. CASE /\ own # {}
             /\ port' = [port EXCEPT ![w] = SubSeq(@, Min(own) + 1, Len(@))]
             /\ got' = [got EXCEPT ![client[w].cur] = port[w][Min(own)]]
             /\ client' = [client EXCEPT ![w].pc = "idle", ![w].cur = NoCall]
    <2> DEFINE k == Min(own)
               t == SubSeq(s, k + 1, Len(s))
               m == s[k]
    <2>1. k \in own
      <3>1. own \subseteq Nat
        BY <1>2
      <3>2. own # {}
        BY <1>4
      <3> HIDE DEF own
      <3>3. \E n \in own : \A x \in own : n <= x
        BY <3>1, <3>2, LeastNat
      <3> QED BY <3>3 DEF Min
    <2>2. k \in DOMAIN s /\ m[1] = e
      BY <2>1 DEF Mine
    <2>3. /\ port' = [port EXCEPT ![w] = t] /\ got' = [got EXCEPT ![e] = m]
          /\ client' = [client EXCEPT ![w].pc = "idle", ![w].cur = NoCall]
      BY <1>4
    <2> HIDE DEF k, s
    <2>4. t \in Seq(Calls \X Results) /\ \A i \in DOMAIN t : \E j \in DOMAIN s : t[i] = s[j]
      BY <1>2, <2>2, RestOfPort
    <2>5. m \in Calls \X Results
      BY <1>2, <2>2, ElementOfSeq
    <2>6. m[2] = "ok" => call[e].st = "over"
      BY <1>0, <2>2 DEF ClientFits, s
    <2> HIDE DEF t, m, e
    <2>7. ClientFits'
      <3>1. \A v \in Workers : client'[v].pc \in {"load", "drain", "check", "asleep"} => client'[v].cur \in Calls
        BY <1>0, <2>3 DEF ClientFits, ClientTypes
      <3>2. \A c \in Calls : got'[c] # <<>> => got'[c][1] = c /\ (got'[c][2] = "ok" => call'[c].st = "over")
        BY <1>0, <1>1, <2>2, <2>3, <2>6 DEF ClientFits, ClientTypes
      <3>3. \A v \in Workers : \A i \in DOMAIN port'[v] : \E j \in DOMAIN port[v] : port'[v][i] = port[v][j]
        BY <1>0, <2>3, <2>4 DEF ClientTypes, s
      <3>4. \A v \in Workers : \A i \in DOMAIN port'[v] : port'[v][i][2] = "ok" => call'[port'[v][i][1]].st = "over"
        BY <1>0, <1>1, <3>3 DEF ClientFits
      <3> QED BY <3>1, <3>2, <3>4 DEF ClientFits
    <2>8. ClientTypes'
      <3>1. port' \in [Workers -> Seq(Calls \X Results)]
        BY <1>0, <2>3, <2>4 DEF ClientTypes
      <3>2. client' \in [Workers -> [pc : {"idle", "load", "drain", "check", "asleep", "gone"},
                                     cur : Calls \cup {NoCall}, seen : Nat]]
        BY <1>0, <2>3 DEF ClientTypes
      <3>3. got' \in [Calls -> {<<>>} \cup (Calls \X Results)]
        BY <1>0, <2>3, <2>5 DEF ClientTypes
      <3> QED BY <1>0, <1>1, <3>1, <3>2, <3>3 DEF ClientTypes
    <2> QED BY <1>1, <2>7, <2>8, ClientKeeps
  <1> QED BY <1>3, <1>4 DEF Drain

\* The worker's thread ends.
LEMMA ExitKeeps ==
  ASSUME BridgeInv, NEW w \in Workers, WorkerExits(w)
  PROVE  BridgeInv'
  <1>0. ClientFits /\ ClientTypes
    BY ClientFacts
  <1>1. /\ client' = [client EXCEPT ![w] = [pc |-> "gone", cur |-> NoCall, seen |-> 0]]
        /\ got' = [c \in Calls |-> IF By[c] = w THEN <<>> ELSE got[c]]
        /\ port' = [port EXCEPT ![w] = <<>>] /\ back' = back \ Of(w) /\ counter' = [counter EXCEPT ![w] = 0]
        /\ UNCHANGED <<call, bump, bridge, hostVars>>
    BY DEF WorkerExits
  <1>2. ClientFits'
    <2>1. \A v \in Workers : client'[v].pc \in {"load", "drain", "check", "asleep"} => client'[v].cur \in Calls
      BY <1>0, <1>1 DEF ClientFits, ClientTypes
    <2>2. \A c \in Calls : got'[c] # <<>> => got'[c][1] = c /\ (got'[c][2] = "ok" => call'[c].st = "over")
      BY <1>0, <1>1 DEF ClientFits
    <2>3. \A v \in Workers : port'[v] = IF v = w THEN <<>> ELSE port[v]
      BY <1>0, <1>1 DEF ClientTypes
    <2>4. \A v \in Workers : \A i \in DOMAIN port'[v] : port'[v][i][2] = "ok" => call'[port'[v][i][1]].st = "over"
      BY <1>0, <1>1, <2>3 DEF ClientFits
    <2> QED BY <2>1, <2>2, <2>4 DEF ClientFits
  <1>3. ClientTypes'
    <2>1. got' \in [Calls -> {<<>>} \cup (Calls \X Results)]
      BY <1>0, <1>1 DEF ClientTypes
    <2>2. port' \in [Workers -> Seq(Calls \X Results)] /\ counter' \in [Workers -> Nat]
      BY <1>0, <1>1 DEF ClientTypes
    <2>3. client' \in [Workers -> [pc : {"idle", "load", "drain", "check", "asleep", "gone"},
                                   cur : Calls \cup {NoCall}, seen : Nat]]
      BY <1>0, <1>1 DEF ClientTypes
    <2> QED BY <1>0, <1>1, <2>1, <2>2, <2>3 DEF ClientTypes
  <1> QED BY <1>1, <1>2, <1>3, ClientKeeps

\* A call is made: it names a descriptor one of the worker's own opens returned.
LEMMA PostKeeps ==
  ASSUME BridgeInv, NEW c \in Calls, NEW kind \in PathOps \cup FdOps, NEW d \in Calls \cup {NoCall}, NEW y \in BOOLEAN,
         Post(c, kind, y, d), UNCHANGED <<got, port, back, counter, bump, bridge, hostVars>>,
         \/ client' = client
         \/ client' = [client EXCEPT ![By[c]] = [@ EXCEPT !.pc = "load", !.cur = c]]
  PROVE  BridgeInv'
  <1> DEFINE n == [op |-> kind, sync |-> y, fd |-> d, st |-> "sent", res |-> "none"]
  <1>0. BridgeTypeOK /\ Scheduled /\ Chained /\ Locked /\ Replies /\ Counted
    BY DEF BridgeInv
  <1>1. /\ call[c].st = "new" /\ call' = [call EXCEPT ![c] = n]
        /\ IF kind \in FdOps THEN d \in Known(By[c]) ELSE d = NoCall
    BY DEF Post
  <1>2. lock' = lock /\ sched' = sched /\ fds' = fds /\ chain' = chain /\ hostOpen' = hostOpen
        /\ bridge' = bridge /\ got' = got /\ port' = port /\ back' = back /\ counter' = counter /\ bump' = bump
    BY DEF hostVars
  <1>3. By[c] \in Workers /\ NoCall \notin Calls
    BY <1>0, CallFields
  <1>4. n \in CallStates
    BY DEF CallStates, Results
  <1>5. call' \in [Calls -> CallStates] /\ call'[c] = n /\ \A e \in Calls : e # c => call'[e] = call[e]
    BY <1>0, <1>1, <1>4 DEF BridgeTypeOK
  <1>6. call'[c].st = "sent" /\ call'[c].res = "none" /\ call'[c].op = kind /\ call'[c].fd = d
    BY <1>5
  <1>7. kind \in FdOps => d \in Calls /\ By[d] = By[c] /\ d # c /\ call[d].st = "over"
    <2> SUFFICES ASSUME kind \in FdOps
                 PROVE  d \in Calls /\ By[d] = By[c] /\ d # c /\ call[d].st = "over"
      OBVIOUS
    <2>1. d \in Calls /\ By[d] = By[c] /\ got[d] = <<d, "ok">>
      BY <1>1 DEF Known, Of
    <2>2. got[d] # <<>> /\ got[d][2] = "ok"
      BY <2>1
    <2>3. call[d].st = "over"
      BY <1>0, <2>1, <2>2 DEF Replies
    <2> QED BY <1>1, <2>1, <2>3
  <1> HIDE DEF n
  <1>8. Counted'
    <2>1. ASSUME NEW v \in Workers
          PROVE  InWork(v)' = InWork(v) /\ Late(v)' = Late(v) /\ Blocking(v)' = Blocking(v)
      <3>1. InWork(v)' = InWork(v) /\ c \notin InWork(v)
        BY <1>1, <1>5, <1>6 DEF InWork, Of, Accepted
      <3>2. \A e \in InWork(v) : call'[e] = call[e]
        BY <1>5, <3>1 DEF InWork, Of
      <3> QED BY <3>1, <3>2 DEF Late, Blocking
    <2> QED BY <1>0, <1>2, <2>1 DEF Counted
  <1>9. Locked'
    <2>1. ASSUME NEW v \in Workers
          PROVE  LockFits(lock'[v], Locking(v)', Past(v)', OpOf') /\ Waits(lock'[v])
      <3>1. Locking(v)' = Locking(v) /\ Past(v)' = Past(v) /\ c \notin Locking(v) /\ c \notin Past(v)
        BY <1>1, <1>5, <1>6 DEF Locking, Past, Of, Held
      <3>2. Locking(v) \subseteq Calls /\ Past(v) \subseteq Calls
        BY SetFacts
      <3>3. \A e \in Locking(v) \cup Past(v) : OpOf'[e] = OpOf[e]
        BY <1>5, <3>1, <3>2 DEF OpOf
      <3>4. LockFits(lock[v], Locking(v), Past(v), OpOf) /\ Waits(lock[v])
        BY <1>0 DEF Locked
      <3>5. LockFits(lock[v], Locking(v), Past(v), OpOf')
        BY <3>3, <3>4, LockSame
      <3> QED BY <1>2, <3>1, <3>4, <3>5
    <2> QED BY <2>1 DEF Locked
  <1>10. Scheduled'
    <2>1. Queued' = Queued
      BY <1>1, <1>5, <1>6 DEF Queued
    <2>2. Hosted' = Hosted
      BY <1>1, <1>5, <1>6 DEF Hosted, OnHost
    <2> QED BY <1>0, <1>2, <2>1, <2>2 DEF Scheduled
  <1>11. Chained'
    <2>1. \A e \in Calls : OnFd(e)' = OnFd(e) /\ c \notin OnFd(e)
      BY <1>1, <1>5, <1>6 DEF OnFd
    <2>2. ASSUME NEW e \in Calls, NEW i \in DOMAIN chain[e]
          PROVE  call'[chain[e][i]].op = call[chain[e][i]].op
      <3>1. chain[e][i] \in OnFd(e)
        BY <1>0 DEF Chained, Elems
      <3>2. chain[e][i] \in Calls /\ chain[e][i] # c
        BY <2>1, <3>1 DEF OnFd
      <3> QED BY <1>5, <3>2
    <2>3. ASSUME NEW e \in Calls
          PROVE  /\ Once(chain'[e]) /\ Elems(chain'[e]) = OnFd(e)'
                 /\ \A i \in DOMAIN chain'[e] :
                      call'[chain'[e][i]].op = "close" => i = Len(chain'[e]) /\ e \notin fds'[By[e]]
                 /\ chain'[e] # <<>> /\ ~bridge'[By[e]].closed => e \in hostOpen'
      BY <1>0, <1>2, <2>1, <2>2 DEF Chained
    <2>4. \A v \in Workers : Of(v)' = Of(v)
      BY DEF Of
    <2>5. \A v \in Workers : fds'[v] \subseteq Of(v)' \cap hostOpen'
      BY <1>0, <1>2, <2>4 DEF Chained
    <2> QED BY <2>3, <2>5 DEF Chained
  <1>12. /\ client' \in [Workers -> [pc : {"idle", "load", "drain", "check", "asleep", "gone"},
                                     cur : Calls \cup {NoCall}, seen : Nat]]
         /\ \A v \in Workers : client'[v].pc \in {"load", "drain", "check", "asleep"} => client'[v].cur \in Calls
    <2> DEFINE k == client[By[c]]
               T == [pc : {"idle", "load", "drain", "check", "asleep", "gone"}, cur : Calls \cup {NoCall}, seen : Nat]
    <2>1. /\ client \in [Workers -> T]
          /\ \A v \in Workers : client[v].pc \in {"load", "drain", "check", "asleep"} => client[v].cur \in Calls
      BY <1>0 DEF BridgeTypeOK, Replies
    <2>2. CASE client' = client
      BY <2>1, <2>2
    <2>3. CASE client' = [client EXCEPT ![By[c]] = [@ EXCEPT !.pc = "load", !.cur = c]]
      <3>1. client'[By[c]] = [k EXCEPT !.pc = "load", !.cur = c] /\ k \in T
        BY <1>3, <2>1, <2>3
      <3> HIDE DEF k
      <3>2. client'[By[c]] \in T /\ client'[By[c]].cur = c
        BY <3>1
      <3>3. client' \in [Workers -> T] /\ \A v \in Workers : v # By[c] => client'[v] = client[v]
        BY <1>3, <2>1, <2>3, <3>2
      <3> QED BY <2>1, <3>2, <3>3
    <2> QED BY <2>2, <2>3
  <1>13. Replies'
    <2>1. ASSUME NEW e \in Calls
          PROVE  /\ call'[e].op \in FdOps <=> call'[e].fd # NoCall
                 /\ call'[e].fd # NoCall => By[call'[e].fd] = By[e] /\ call'[call'[e].fd].st = "over"
      <3>1. CASE e = c
        BY <1>1, <1>3, <1>5, <1>6, <1>7, <3>1
      <3>2. CASE e # c
        <4>1. call'[e] = call[e] /\ call[e].fd \in Calls \cup {NoCall}
          BY <1>0, <1>5, <3>2, CallFields
        <4>2. /\ call[e].op \in FdOps <=> call[e].fd # NoCall
              /\ call[e].fd # NoCall => By[call[e].fd] = By[e] /\ call[call[e].fd].st = "over"
          BY <1>0 DEF Replies
        <4>3. call[e].fd # NoCall => call[e].fd # c
          BY <1>1, <4>2
        <4> QED BY <1>5, <4>1, <4>2, <4>3
      <3> QED BY <3>1, <3>2
    <2>2. ASSUME NEW e \in Calls
          PROVE  /\ call'[e].st \in {"new", "sent"} => call'[e].res = "none"
                 /\ call'[e].res = "ok" => call'[e].st = "over"
                 /\ got'[e] # <<>> => got'[e][1] = e /\ (got'[e][2] = "ok" => call'[e].st = "over")
      BY <1>0, <1>1, <1>2, <1>5, <1>6 DEF Replies
    <2>3. ASSUME NEW w \in Workers, NEW i \in DOMAIN port'[w], port'[w][i][2] = "ok"
          PROVE  call'[port'[w][i][1]].st = "over"
      <3>1. port[w] \in Seq(Calls \X Results) /\ port'[w] = port[w]
        BY <1>0, <1>2 DEF BridgeTypeOK
      <3>2. port[w][i] \in Calls \X Results
        BY <2>3, <3>1, ElementOfSeq
      <3>3. port[w][i][1] \in Calls /\ call[port[w][i][1]].st = "over"
        BY <1>0, <2>3, <3>1, <3>2 DEF Replies
      <3> QED BY <1>1, <1>5, <3>1, <3>3
    <2> QED BY <1>12, <2>1, <2>2, <2>3 DEF Replies
  <1>14. BridgeTypeOK'
    BY <1>0, <1>2, <1>5, <1>12 DEF BridgeTypeOK
  <1> QED BY <1>8, <1>9, <1>10, <1>11, <1>13, <1>14 DEF BridgeInv

\* The state in which the server starts.
LEMMA BridgeStarts == BridgeInit => BridgeInv
  <1> SUFFICES ASSUME BridgeInit PROVE BridgeInv
    OBVIOUS
  <1>1. /\ client = [w \in Workers |-> [pc |-> "idle", cur |-> NoCall, seen |-> 0]]
        /\ call = [c \in Calls |-> [op |-> "none", sync |-> FALSE, fd |-> NoCall, st |-> "new", res |-> "none"]]
        /\ got = [c \in Calls |-> <<>>] /\ port = [w \in Workers |-> <<>>] /\ back = {}
        /\ counter = [w \in Workers |-> 0] /\ bump = NoCall
        /\ bridge = [w \in Workers |-> [stuck |-> 0, syncIn |-> 0, inFlight |-> 0, closed |-> FALSE]]
        /\ lock = [w \in Workers |-> [readers |-> 0, writer |-> FALSE, queue |-> <<>>, granted |-> <<>>]]
        /\ sched = [queues |-> [w \in Workers |-> <<>>], order |-> <<>>,
                    active |-> [w \in Workers |-> 0], running |-> 0, starting |-> <<>>]
        /\ fds = [w \in Workers |-> {}] /\ chain = [c \in Calls |-> <<>>] /\ hostOpen = {}
    BY DEF BridgeInit
  <1>2. \A c \in Calls : call[c].st = "new" /\ call[c].op = "none" /\ call[c].fd = NoCall /\ call[c].res = "none"
    BY <1>1
  <1>3. BridgeTypeOK
    <2>1. call \in [Calls -> CallStates]
      BY <1>1 DEF CallStates, Results
    <2>2. lock \in [Workers -> LockStates]
      BY <1>1 DEF LockStates
    <2>3. sched \in SchedStates
      BY <1>1 DEF SchedStates
    <2>4. client \in [Workers -> [pc : {"idle", "load", "drain", "check", "asleep", "gone"},
                                  cur : Calls \cup {NoCall}, seen : Nat]]
      BY <1>1
    <2>5. bridge \in [Workers -> [stuck : Nat, syncIn : {0, 1}, inFlight : Nat, closed : BOOLEAN]]
      BY <1>1
    <2>6. got \in [Calls -> {<<>>} \cup (Calls \X Results)]
      BY <1>1
    <2>7. port \in [Workers -> Seq(Calls \X Results)]
      BY <1>1
    <2>8. chain \in [Calls -> Seq(Calls)]
      BY <1>1
    <2>9. counter \in [Workers -> Nat] /\ fds \in [Workers -> SUBSET Calls]
      BY <1>1
    <2> QED BY <1>1, <2>1, <2>2, <2>3, <2>4, <2>5, <2>6, <2>7, <2>8, <2>9 DEF BridgeTypeOK
  <1>4. Replies
    BY <1>1, <1>2 DEF Replies, FdOps
  <1>5. Cardinality({}) = 0
    BY FS_EmptySet
  <1>6. Counted
    <2>1. \A w \in Workers : InWork(w) = {} /\ Late(w) = {} /\ Blocking(w) = {}
      BY <1>2 DEF InWork, Late, Blocking, Of, Accepted
    <2> QED BY <1>1, <1>5, <2>1 DEF Counted
  <1>7. Locked
    <2>1. ASSUME NEW w \in Workers
          PROVE  LockFits(lock[w], Locking(w), Past(w), OpOf) /\ Waits(lock[w])
      <3>1. Locking(w) = {} /\ Past(w) = {}
        BY <1>2 DEF Locking, Past, Of, Held
      <3>2. /\ lock[w].readers = 0 /\ lock[w].writer = FALSE /\ lock[w].queue = <<>> /\ lock[w].granted = <<>>
            /\ lock[w] \in LockStates
        BY <1>1, <1>3 DEF BridgeTypeOK
      <3>3. Elems(<<>>) = {} /\ Once(<<>>)
        BY EmptyFacts
      <3>4. Grantees(lock[w], {}) = {}
        BY <3>2, <3>3 DEF Grantees
      <3>5. LockFits(lock[w], {}, {}, OpOf)
        <4>1. {c \in {} : OpOf[c] \in SharedOps} = {}
          OBVIOUS
        <4> QED BY <1>5, <3>2, <3>3, <3>4, <4>1 DEF LockFits
      <3>6. Waits(lock[w])
        BY <3>2 DEF Waits
      <3> QED BY <3>1, <3>5, <3>6
    <2> QED BY <2>1 DEF Locked
  <1>8. Scheduled
    <2>1. Queued = {} /\ Hosted = {}
      BY <1>2 DEF Queued, Hosted, OnHost
    <2>2. Elems(<<>>) = {} /\ Once(<<>>)
      BY EmptyFacts
    <2>3. /\ sched.order = <<>> /\ sched.starting = <<>> /\ sched.running = 0 /\ sched \in SchedStates
          /\ \A w \in Workers : sched.queues[w] = <<>> /\ sched.active[w] = 0
      BY <1>1, <1>3 DEF BridgeTypeOK
    <2>4. InSlots(sched, {}) = {}
      BY <2>2, <2>3 DEF InSlots
    <2>5. \A w \in Workers : {c \in {} : By[c] = w} = {}
      OBVIOUS
    <2>6. \A c \in Calls : By[c] \in Workers
      BY <1>3, CallFields
    <2>7. GlobalCap \in Nat
      BY BridgeConstants
    <2>8. SchedFits(sched, {}, {})
      <3>1. \A c \in Calls : c \in {} <=> c \in Elems(sched.starting) \/ c \in Elems(sched.queues[By[c]])
        BY <2>2, <2>3, <2>6
      <3>2. ASSUME NEW w \in Workers
            PROVE  /\ Once(sched.queues[w]) /\ Elems(sched.queues[w]) \subseteq Of(w)
                   /\ Elems(sched.queues[w]) \cap Elems(sched.starting) = {}
                   /\ sched.queues[w] # <<>> => w \in Elems(sched.order)
        BY <2>2, <2>3
      <3>3. ASSUME NEW w \in Workers
            PROVE  sched.active[w] = Cardinality({c \in InSlots(sched, {}) : By[c] = w})
        BY <1>5, <2>3, <2>4, <2>5
      <3>4. sched.running = Cardinality(InSlots(sched, {})) /\ sched.running <= GlobalCap
        <4>1. sched.running = 0 /\ 0 <= GlobalCap
          BY <2>3, <2>7
        <4>2. Cardinality(InSlots(sched, {})) = 0
          BY <1>5, <2>4
        <4> QED BY <4>1, <4>2
      <3>5. Once(sched.order) /\ Once(sched.starting)
        BY <2>2, <2>3
      <3> QED BY <2>3, <3>1, <3>2, <3>3, <3>4, <3>5 DEF SchedFits
    <2>9. Pumped(sched)
      BY <2>3 DEF Pumped
    <2> QED BY <2>1, <2>8, <2>9 DEF Scheduled
  <1>9. Chained
    <2>1. Elems(<<>>) = {} /\ Once(<<>>)
      BY EmptyFacts
    <2>2. \A d \in Calls : OnFd(d) = {}
      BY <1>2 DEF OnFd
    <2>3. \A d \in Calls : chain[d] = <<>>
      BY <1>1
    <2>4. ASSUME NEW d \in Calls
          PROVE  Once(chain[d]) /\ Elems(chain[d]) = OnFd(d) /\ DOMAIN chain[d] = {}
      <3>1. DOMAIN chain[d] = {}
        BY <2>1, <2>3 DEF Elems
      <3> QED BY <2>1, <2>2, <2>3, <3>1
    <2>5. \A w \in Workers : fds[w] \subseteq Of(w) \cap hostOpen
      BY <1>1
    <2> QED BY <2>3, <2>4, <2>5 DEF Chained
  <1> QED BY <1>3, <1>4, <1>6, <1>7, <1>8, <1>9 DEF BridgeInv

\* Every step keeps the invariant.
LEMMA BridgeSteps ==
  ASSUME BridgeInv, [BridgeNext]_bridgeVars
  PROVE  BridgeInv'
  <1>1. CASE UNCHANGED bridgeVars
    <2>1. UNCHANGED <<call, bridge, hostVars>> /\ UNCHANGED <<client, got, port, back, counter, bump>>
      BY <1>1 DEF bridgeVars, hostVars
    <2>2. ClientFits' /\ ClientTypes'
      <3>1. ClientFits /\ ClientTypes
        BY ClientFacts
      <3> QED BY <2>1, <3>1 DEF ClientFits, ClientTypes
    <2> QED BY <2>1, <2>2, ClientKeeps
  <1>2. ASSUME NEW c \in Calls, NEW kind \in PathOps \cup FdOps, NEW d \in Calls \cup {NoCall},
               PostSync(c, kind, d) \/ PostAsync(c, kind, d)
        PROVE  BridgeInv'
    <2>1. CASE PostSync(c, kind, d)
      BY <2>1, PostKeeps DEF PostSync
    <2>2. CASE PostAsync(c, kind, d)
      <3>1. Post(c, kind, FALSE, d) /\ client' = client /\ UNCHANGED <<got, port, back, counter, bump, bridge, hostVars>>
        BY <2>2 DEF PostAsync
      <3> QED BY <3>1, PostKeeps
    <2> QED BY <1>2, <2>1, <2>2
  <1>3. CASE Progress
    <2>1. ASSUME NEW w \in Workers, LoadCounter(w) \/ Drain(w) \/ Wait(w) \/ SubmitGranted(w)
          PROVE  BridgeInv'
      BY <2>1, LoopKeeps, DrainKeeps, SubmitGrantedKeeps
    <2>2. ASSUME NEW c \in Calls, ReceiveAsync(c) \/ Receive(c) \/ Reject(c) \/ Deadline(c)
          PROVE  BridgeInv'
      BY <2>2, GotKeeps, ReceiveKeeps, RejectKeeps, DeadlineKeeps
    <2>3. CASE Bump
      BY <2>3, LoopKeeps
    <2>4. CASE Start
      BY <2>4, StartKeeps
    <2> QED BY <1>3, <2>1, <2>2, <2>3, <2>4 DEF Progress
  <1>4. CASE HostStep
    BY <1>4, RunPathKeeps, RunOpenKeeps, OpenDoneKeeps, RunFdKeeps DEF HostStep
  <1>5. ASSUME NEW w \in Workers, Backstop(w) \/ WorkerExits(w) \/ CloseBridge(w)
        PROVE  BridgeInv'
    BY <1>5, GotKeeps, ExitKeeps, CloseKeeps
  <1> QED BY <1>1, <1>2, <1>3, <1>4, <1>5 DEF BridgeNext

\* The bridge's books agree with the calls in every state: its counters count the accepted calls,
\* the lock holds who it says it holds, the scheduler has every queued call in one queue and
\* counts the slots in use, and a descriptor's chain has the operations on it (server.js,
\* rwlock.js, scheduler.js, broker.js).
THEOREM BridgeInvariance == BridgeSpec => []BridgeInv
  <1>1. BridgeInit => BridgeInv
    BY BridgeStarts
  <1>2. BridgeInv /\ [BridgeNext]_bridgeVars => BridgeInv'
    BY BridgeSteps
  <1> QED BY <1>1, <1>2, PTL DEF BridgeSpec

\* Every variable of the file bridge has its type.
THEOREM BridgeTypes == BridgeSpec => []BridgeTypeOK
  <1>1. BridgeInv => BridgeTypeOK
    BY DEF BridgeInv
  <1> QED BY <1>1, BridgeInvariance, PTL

\* The reply a caller of client.js gets is the reply to its own call, whatever came late.
THEOREM AnswersOwnCall == BridgeSpec => []OwnReply
  <1>1. BridgeInv => OwnReply
    BY DEF BridgeInv, Replies, OwnReply
  <1> QED BY <1>1, BridgeInvariance, PTL

\* A closed bridge whose count of operations is zero has none on the host or on its way there.
THEOREM QuietMeansIdle == BridgeSpec => []QuietWhenIdle
  <1>1. BridgeInv => QuietWhenIdle
    <2> SUFFICES ASSUME BridgeInv, NEW w \in Workers, bridge[w].inFlight = 0, NEW c \in Of(w)
                 PROVE  call[c].st \notin Accepted
      BY DEF QuietWhenIdle
    <2>1. Cardinality(InWork(w)) = 0 /\ InWork(w) \subseteq Calls
      BY SetFacts DEF BridgeInv, Counted
    <2>2. InWork(w) = {}
      BY <2>1, Countable
    <2> QED BY <2>2 DEF InWork
  <1> QED BY <1>1, BridgeInvariance, PTL

\* Two holders of a module's lock both share it.
LEMMA HoldersShare ==
  ASSUME BridgeInv
  PROVE  LockExcludes
  <1> SUFFICES ASSUME NEW c \in Calls, NEW d \in Calls, c # d, By[c] = By[d], Holds(c), Holds(d)
               PROVE  call[c].op \in SharedOps /\ call[d].op \in SharedOps
    BY DEF LockExcludes
  <1> DEFINE w == By[c]
             l == lock[w]
             G == Grantees(l, Past(w))
  <1>1. BridgeTypeOK /\ Locked
    BY DEF BridgeInv
  <1>2. w \in Workers
    BY <1>1, CallFields
  <1>3. LockFits(l, Locking(w), Past(w), OpOf)
    BY <1>1, <1>2 DEF Locked
  <1>4. ASSUME NEW e \in Calls, By[e] = w, Holds(e)
        PROVE  e \in G /\ OpOf[e] = call[e].op /\ call[e].op \in PathOps
    <2>1. call[e].op \in PathOps /\ OpOf[e] = call[e].op
      BY <1>4 DEF Holds, Held, OpOf
    <2>2. CASE call[e].st = "locking"
      <3>1. e \in Elems(l.granted)
        BY <1>4, <2>2 DEF Holds, ToSet, Elems
      <3> QED BY <2>1, <3>1 DEF Grantees
    <2>3. CASE call[e].st # "locking"
      <3>1. e \in Past(w)
        BY <1>4, <2>3 DEF Holds, Past, Of, Accepted
      <3> QED BY <2>1, <3>1 DEF Grantees
    <2> QED BY <2>2, <2>3
  <1>5. /\ c \in G /\ OpOf[c] = call[c].op /\ call[c].op \in PathOps
        /\ d \in G /\ OpOf[d] = call[d].op /\ call[d].op \in PathOps
    BY <1>4
  <1>6. \A e \in G : OpOf[e] \in ExclusiveOps => G = {e}
    BY <1>3 DEF LockFits
  <1> HIDE DEF G
  <1>7. OpOf[c] \notin ExclusiveOps /\ OpOf[d] \notin ExclusiveOps
    BY <1>5, <1>6
  <1> QED BY <1>5, <1>7 DEF PathOps

\* Whoever waits on an idle main thread, waits for the host.
LEMMA WaitersWait ==
  ASSUME BridgeInv
  PROVE  WaitsForHost
  <1> SUFFICES ASSUME MainIdle
               PROVE  /\ \A w \in Workers : lock[w].queue # <<>> => \E c \in Of(w) : Holds(c)
                      /\ \A w \in Workers : sched.queues[w] # <<>> => sched.running = GlobalCap \/ sched.active[w] >= PerWorker
                      /\ sched.running = Cardinality({c \in Calls : OnHost(c)})
                      /\ \A d \in Calls : chain[d] # <<>> => OnHost(Head(chain[d]))
    BY DEF WaitsForHost
  <1>1. BridgeTypeOK /\ Locked /\ Scheduled /\ Chained
    BY DEF BridgeInv
  <1>2. ASSUME NEW w \in Workers, lock[w].queue # <<>>
        PROVE  \E c \in Of(w) : Holds(c)
    <2> DEFINE l == lock[w]
               G == Grantees(l, Past(w))
    <2>1. LockFits(l, Locking(w), Past(w), OpOf) /\ (l.writer \/ l.readers > 0) /\ l \in LockStates
      BY <1>1, <1>2 DEF Locked, Waits, LockFits
    <2>2. l.granted = <<>>
      BY DEF MainIdle
    <2>3. G = Past(w)
      BY <2>2, EmptyFacts DEF Grantees
    <2>4. G # {}
      <3> SUFFICES ASSUME G = {} PROVE FALSE
        OBVIOUS
      <3>1. l.readers = Cardinality({c \in G : OpOf[c] \in SharedOps}) /\ (l.writer => \E c \in G : OpOf[c] \in ExclusiveOps)
        BY <2>1 DEF LockFits
      <3>2. {c \in G : OpOf[c] \in SharedOps} = {}
        OBVIOUS
      <3>3. l.readers = 0 /\ ~l.writer
        <4> HIDE DEF G
        <4>1. Cardinality({}) = 0
          BY FS_EmptySet
        <4> QED BY <3>1, <3>2, <4>1
      <3> QED BY <2>1, <3>3
    <2>5. PICK c : c \in Past(w)
      BY <2>3, <2>4
    <2>6. c \in Of(w) /\ Holds(c)
      BY <2>5 DEF Past, Holds, Accepted
    <2> QED BY <2>6
  <1>3. \A w \in Workers : sched.queues[w] # <<>> => sched.running = GlobalCap \/ sched.active[w] >= PerWorker
    BY <1>1 DEF Scheduled, Pumped
  <1>4. sched.running = Cardinality({c \in Calls : OnHost(c)})
    <2>1. sched.starting = <<>>
      BY DEF MainIdle
    <2>2. sched.running = Cardinality(InSlots(sched, Hosted))
      BY <1>1 DEF Scheduled, SchedFits
    <2>3. InSlots(sched, Hosted) = Hosted
      BY <2>1, EmptyFacts DEF InSlots
    <2> QED BY <2>2, <2>3 DEF Hosted
  <1>5. ASSUME NEW d \in Calls, chain[d] # <<>>
        PROVE  OnHost(Head(chain[d]))
    <2>1. chain[d] \in Seq(Calls)
      BY <1>1 DEF BridgeTypeOK
    <2>2. Head(chain[d]) \in Elems(chain[d])
      BY <1>5, <2>1, TailFacts
    <2>3. Head(chain[d]) \in OnFd(d)
      BY <1>1, <2>2 DEF Chained
    <2> QED BY <2>3 DEF OnFd, OnHost
  <1> QED BY <1>2, <1>3, <1>4, <1>5

\* What is on the host is there in order: an exclusive operation is alone on its module's paths,
\* a descriptor in use is open, and nothing is held back that could go.
THEOREM HostStaysInOrder == BridgeSpec => []HostInOrder
  <1>1. BridgeInv => HostInOrder
    <2> SUFFICES ASSUME BridgeInv PROVE HostInOrder
      OBVIOUS
    <2>1. InUseIsOpen
      BY DEF BridgeInv, Chained, InUseIsOpen
    <2> QED BY <2>1, HoldersShare, WaitersWait DEF HostInOrder
  <1> QED BY <1>1, BridgeInvariance, PTL

-----------------------------------------------------------------------------
(* Sums over a finite set, which FileQuota takes with MapThenSumSet.       *)

Total(f, S) == MapThenSumSet(LAMBDA i : f[i], S)

\* The element the sum takes first, and a function of subsets that adds as the
\* sum does.
Picked(s) == CHOOSE x \in s : TRUE
Sums(a, f, S) ==
  a = [s \in SUBSET S |-> IF s = {} THEN 0 ELSE f[Picked(s)] + a[s \ {Picked(s)}]]

\* A subset without the element taken first is smaller.
LEMMA PickedSmaller ==
  ASSUME NEW S, IsFiniteSet(S), NEW s \in SUBSET S, s # {}
  PROVE  /\ Picked(s) \in s /\ s \ {Picked(s)} \in SUBSET S
         /\ IsFiniteSet(s) /\ IsFiniteSet(s \ {Picked(s)})
         /\ Cardinality(s) \in Nat /\ Cardinality(s \ {Picked(s)}) = Cardinality(s) - 1
         /\ Cardinality(s \ {Picked(s)}) \in Nat /\ Cardinality(s) <= Cardinality(S)
  <1>1. Picked(s) \in s
    BY DEF Picked
  <1>2. IsFiniteSet(s) /\ Cardinality(s) <= Cardinality(S)
    BY FS_Subset
  <1>3. IsFiniteSet(s \ {Picked(s)}) /\ Cardinality(s \ {Picked(s)}) = Cardinality(s) - 1
    BY <1>1, <1>2, FS_RemoveElement
  <1>4. Cardinality(s) \in Nat /\ Cardinality(s \ {Picked(s)}) \in Nat
    BY <1>2, <1>3, FS_CardinalityType
  <1> QED BY <1>1, <1>2, <1>3, <1>4

\* Such a function exists, so the sum is what its definition says.
LEMMA SumsExist ==
  ASSUME NEW S, IsFiniteSet(S), NEW f, \A x \in S : f[x] \in Int
  PROVE  \E a : Sums(a, f, S) /\ a \in [SUBSET S -> Int]
  <1> DEFINE Step(a, s) == IF s = {} THEN 0 ELSE f[Picked(s)] + a[s \ {Picked(s)}]
             Ok(a, k) == /\ a \in [SUBSET S -> Int]
                         /\ \A s \in SUBSET S : Cardinality(s) <= k => a[s] = Step(a, s)
             T == {k \in Nat : \E a : Ok(a, k)}
  <1>0. Cardinality(S) \in Nat /\ Cardinality({}) = 0
    BY FS_CardinalityType, FS_EmptySet
  <1>1. 0 \in T
    <2> DEFINE z == [s \in SUBSET S |-> 0]
    <2>1. ASSUME NEW s \in SUBSET S, Cardinality(s) <= 0 PROVE z[s] = Step(z, s)
      <3>1. IsFiniteSet(s) /\ Cardinality(s) \in Nat
        BY FS_Subset, FS_CardinalityType
      <3>2. s = {}
        BY <2>1, <3>1, FS_EmptySet
      <3> QED BY <3>2
    <2>2. z \in [SUBSET S -> Int]
      OBVIOUS
    <2>3. Ok(z, 0)
      <3> HIDE DEF z, Step
      <3> QED BY <2>1, <2>2
    <2> HIDE DEF z, Ok
    <2> QED BY <2>3
  <1>2. ASSUME NEW k \in 0 .. Cardinality(S) - 1, k \in T PROVE k + 1 \in T
    <2>1. PICK a : Ok(a, k)
      BY <1>2
    <2> DEFINE b == [s \in SUBSET S |-> Step(a, s)]
    <2>2. b \in [SUBSET S -> Int]
      <3>1. ASSUME NEW s \in SUBSET S PROVE Step(a, s) \in Int
        <4>1. CASE s = {}
          BY <4>1
        <4>2. CASE s # {}
          <5>1. Picked(s) \in S /\ s \ {Picked(s)} \in SUBSET S
            BY <4>2, PickedSmaller
          <5>2. a[s \ {Picked(s)}] \in Int
            BY <2>1, <5>1
          <5> QED BY <5>1, <5>2
        <4> QED BY <4>1, <4>2
      <3> QED BY <3>1
    <2>3. ASSUME NEW s \in SUBSET S, Cardinality(s) <= k + 1 PROVE b[s] = Step(b, s)
      <3>1. CASE s = {}
        BY <3>1
      <3>2. CASE s # {}
        <4> DEFINE t == s \ {Picked(s)}
        <4>0. t \in SUBSET S /\ Cardinality(s) \in Nat /\ Cardinality(t) = Cardinality(s) - 1
          BY <3>2, PickedSmaller
        <4>1. t \in SUBSET S /\ Cardinality(t) <= k
          BY <1>2, <2>3, <4>0
        <4>2. a[t] = Step(a, t)
          BY <2>1, <4>1
        <4>3. b[t] = Step(a, t) /\ b[s] = f[Picked(s)] + a[t]
          BY <3>2, <4>1
        <4> QED BY <3>2, <4>2, <4>3
      <3> QED BY <3>1, <3>2
    <2>4. Ok(b, k + 1)
      BY <2>2, <2>3
    <2> HIDE DEF b, Ok
    <2>5. k + 1 \in Nat /\ \E c : Ok(c, k + 1)
      BY <1>2, <2>4
    <2> QED BY <2>5
  <1>3. Cardinality(S) \in T
    <2> HIDE DEF T
    <2> QED BY <1>0, <1>1, <1>2, UpTo
  <1>4. PICK a : Ok(a, Cardinality(S))
    BY <1>3
  <1>5. \A s \in SUBSET S : Cardinality(s) <= Cardinality(S)
    BY FS_Subset
  <1>6. \A s \in SUBSET S : a[s] = Step(a, s)
    BY <1>4, <1>5
  <1>7. a = [s \in SUBSET S |-> Step(a, s)]
    BY <1>4, <1>6
  <1> QED BY <1>4, <1>7 DEF Sums

\* Two of them agree where their functions do.
LEMMA SumsAgree ==
  ASSUME NEW S, IsFiniteSet(S), NEW T \in SUBSET S, NEW a, NEW b, NEW f, NEW g,
         Sums(a, f, S), Sums(b, g, T), \A x \in T : f[x] = g[x]
  PROVE  \A s \in SUBSET T : a[s] = b[s]
  <1> DEFINE K == {k \in Nat : \A s \in SUBSET T : Cardinality(s) = k => a[s] = b[s]}
  <1>0. IsFiniteSet(T) /\ Cardinality(T) \in Nat /\ Cardinality({}) = 0
    BY FS_Subset, FS_CardinalityType, FS_EmptySet
  <1>1. 0 \in K
    <2>1. ASSUME NEW s \in SUBSET T, Cardinality(s) = 0 PROVE a[s] = b[s]
      <3>1. IsFiniteSet(s)
        BY <1>0, FS_Subset
      <3>2. s = {}
        BY <2>1, <3>1, FS_EmptySet
      <3> QED BY <3>2 DEF Sums
    <2> QED BY <2>1
  <1>2. ASSUME NEW k \in 0 .. Cardinality(T) - 1, k \in K PROVE k + 1 \in K
    <2>1. ASSUME NEW s \in SUBSET T, Cardinality(s) = k + 1 PROVE a[s] = b[s]
      <3>1. s # {}
        BY <1>0, <2>1
      <3>2. Picked(s) \in T /\ s \ {Picked(s)} \in SUBSET T /\ Cardinality(s \ {Picked(s)}) = k
        BY <1>0, <1>2, <2>1, <3>1, PickedSmaller
      <3>3. a[s \ {Picked(s)}] = b[s \ {Picked(s)}]
        BY <1>2, <3>2
      <3>4. a[s] = f[Picked(s)] + a[s \ {Picked(s)}]
        BY <3>1 DEF Sums
      <3>5. b[s] = g[Picked(s)] + b[s \ {Picked(s)}]
        BY <3>1 DEF Sums
      <3> QED BY <3>2, <3>3, <3>4, <3>5
    <2> QED BY <1>2, <2>1
  <1>3. \A k \in 0 .. Cardinality(T) : k \in K
    <2> HIDE DEF K
    <2> QED BY <1>0, <1>1, <1>2, UpTo
  <1> SUFFICES ASSUME NEW s \in SUBSET T PROVE a[s] = b[s]
    OBVIOUS
  <1>4. Cardinality(s) \in 0 .. Cardinality(T)
    BY <1>0, FS_Subset, FS_CardinalityType
  <1> QED BY <1>3, <1>4

\* The sum as the value of such a function.
LEMMA TotalIs ==
  ASSUME NEW S, IsFiniteSet(S), NEW f, \A x \in S : f[x] \in Int
  PROVE  \E a : Sums(a, f, S) /\ a \in [SUBSET S -> Int] /\ Total(f, S) = a[S]
  <1> DEFINE c == CHOOSE a : Sums(a, f, S)
  <1>1. PICK a : Sums(a, f, S) /\ a \in [SUBSET S -> Int]
    BY SumsExist
  <1>2. Sums(c, f, S)
    BY <1>1
  <1>3. \A s \in SUBSET S : a[s] = c[s]
    BY <1>1, <1>2, SumsAgree
  <1>4. Total(f, S) = c[S]
    BY DEF Total, MapThenSumSet, MapThenFoldSet, Sums, Picked
  <1> QED BY <1>1, <1>3, <1>4

\* A sum depends on the values over its set only.
LEMMA TotalSame ==
  ASSUME NEW S, IsFiniteSet(S), NEW f, NEW g, \A x \in S : f[x] \in Int /\ g[x] = f[x]
  PROVE  Total(g, S) = Total(f, S) /\ Total(f, S) \in Int
  <1>1. PICK a : Sums(a, f, S) /\ a \in [SUBSET S -> Int] /\ Total(f, S) = a[S]
    BY TotalIs
  <1>2. PICK b : Sums(b, g, S) /\ b \in [SUBSET S -> Int] /\ Total(g, S) = b[S]
    BY TotalIs
  <1>3. \A s \in SUBSET S : a[s] = b[s]
    BY <1>1, <1>2, SumsAgree
  <1> QED BY <1>1, <1>2, <1>3

\* The sum of nothing, and of the rest when the first element is taken.
LEMMA TotalFirst ==
  ASSUME NEW S, IsFiniteSet(S), NEW f, \A x \in S : f[x] \in Int
  PROVE  /\ S = {} => Total(f, S) = 0
         /\ S # {} => Total(f, S) = f[Picked(S)] + Total(f, S \ {Picked(S)})
  <1>1. PICK a : Sums(a, f, S) /\ a \in [SUBSET S -> Int] /\ Total(f, S) = a[S]
    BY TotalIs
  <1>2. CASE S = {}
    BY <1>1, <1>2 DEF Sums
  <1>3. CASE S # {}
    <2> DEFINE R == S \ {Picked(S)}
    <2>1. Picked(S) \in S /\ R \in SUBSET S /\ IsFiniteSet(R)
      BY <1>3, PickedSmaller
    <2>2. PICK b : Sums(b, f, R) /\ b \in [SUBSET R -> Int] /\ Total(f, R) = b[R]
      <3> HIDE DEF R
      <3> QED BY <2>1, TotalIs
    <2>3. \A s \in SUBSET R : a[s] = b[s]
      <3> HIDE DEF R
      <3> QED BY <1>1, <2>1, <2>2, SumsAgree
    <2>4. a[S] = f[Picked(S)] + a[R]
      BY <1>1, <1>3 DEF Sums
    <2> QED BY <1>1, <1>3, <2>2, <2>3, <2>4
  <1> QED BY <1>2, <1>3

\* Any element may be taken first.
LEMMA TotalAdd ==
  ASSUME NEW U, IsFiniteSet(U), NEW f, \A x \in U : f[x] \in Int
  PROVE  \A S \in SUBSET U : \A x \in U \ S : Total(f, S \cup {x}) = Total(f, S) + f[x]
  <1> DEFINE K == {k \in Nat : \A S \in SUBSET U : Cardinality(S) = k =>
                     \A x \in U \ S : Total(f, S \cup {x}) = Total(f, S) + f[x]}
  <1>0. Cardinality(U) \in Nat /\ Cardinality({}) = 0
    BY FS_CardinalityType, FS_EmptySet
  <1>1. 0 \in K
    <2>1. ASSUME NEW S \in SUBSET U, Cardinality(S) = 0, NEW x \in U \ S
          PROVE  Total(f, S \cup {x}) = Total(f, S) + f[x]
      <3>1. S = {}
        BY <2>1, FS_EmptySet, FS_Subset
      <3>2. IsFiniteSet({x}) /\ IsFiniteSet({})
        BY FS_Singleton, FS_EmptySet
      <3>3. Picked({x}) = x
        BY DEF Picked
      <3>4. {x} \ {x} = {} /\ {x} # {} /\ S \cup {x} = {x}
        BY <3>1
      <3>5. Total(f, {x}) = f[x] + Total(f, {})
        BY <3>2, <3>3, <3>4, TotalFirst
      <3>6. Total(f, {}) = 0
        BY <3>2, TotalFirst
      <3>7. f[x] \in Int
        OBVIOUS
      <3> QED BY <3>1, <3>4, <3>5, <3>6, <3>7
    <2> QED BY <2>1
  <1>2. ASSUME NEW k \in 0 .. Cardinality(U) - 1, k \in K PROVE k + 1 \in K
    <2>1. ASSUME NEW S \in SUBSET U, Cardinality(S) = k + 1, NEW x \in U \ S
          PROVE  Total(f, S \cup {x}) = Total(f, S) + f[x]
      <3> DEFINE V == S \cup {x}
                 y == Picked(V)
                 R == S \ {y}
      <3>1. IsFiniteSet(S) /\ IsFiniteSet(V) /\ V \in SUBSET U /\ V # {} /\ y \in V
        BY FS_Subset DEF Picked
      <3>2. \A z \in V : f[z] \in Int
        BY <3>1
      <3>3. Total(f, V) = f[y] + Total(f, V \ {y})
        <4> HIDE DEF V, y
        <4> QED BY <3>1, <3>2, TotalFirst DEF y
      <3>4. CASE y = x
        <4>1. V \ {y} = S
          BY <3>4
        <4>2. Total(f, S) \in Int /\ f[y] \in Int
          BY <3>1, <3>2, TotalSame
        <4> HIDE DEF V, y
        <4>3. Total(f, V) = f[x] + Total(f, S)
          BY <3>3, <3>4, <4>1
        <4>4. Total(f, V) = Total(f, S) + f[x]
          BY <3>4, <4>2, <4>3
        <4> QED BY <4>4 DEF V
      <3>5. CASE y # x
        <4>1. y \in S /\ R \in SUBSET U /\ IsFiniteSet(R) /\ V \ {y} = R \cup {x} /\ S = R \cup {y}
          BY <3>1, <3>5, FS_Subset
        <4>a. Cardinality(R) = Cardinality(S) - 1
          BY <3>1, <4>1, FS_RemoveElement
        <4>b. k \in Nat /\ (k + 1) - 1 = k
          BY <1>2
        <4>2. Cardinality(R) = k /\ x \in U \ R /\ y \in U \ R
          BY <2>1, <4>1, <4>a, <4>b
        <4>3. Total(f, R \cup {x}) = Total(f, R) + f[x] /\ Total(f, R \cup {y}) = Total(f, R) + f[y]
          <5> HIDE DEF R, y
          <5> QED BY <1>2, <4>1, <4>2
        <4>4. Total(f, R) \in Int /\ f[x] \in Int /\ f[y] \in Int
          BY <3>2, <4>1, TotalSame
        <4> HIDE DEF V, R, y
        <4>5. Total(f, V) = f[y] + (Total(f, R) + f[x])
          BY <3>3, <4>1, <4>3
        <4>6. Total(f, S) = Total(f, R) + f[y]
          BY <4>1, <4>3
        <4>7. Total(f, V) = Total(f, S) + f[x]
          BY <4>4, <4>5, <4>6
        <4> QED BY <4>7 DEF V
      <3> QED BY <3>4, <3>5
    <2>2. k + 1 \in Nat
      BY <1>2
    <2> QED BY <2>1, <2>2
  <1>3. \A k \in 0 .. Cardinality(U) : k \in K
    <2> HIDE DEF K
    <2> QED BY <1>0, <1>1, <1>2, UpTo
  <1> SUFFICES ASSUME NEW S \in SUBSET U, NEW x \in U \ S PROVE Total(f, S \cup {x}) = Total(f, S) + f[x]
    OBVIOUS
  <1>4. Cardinality(S) \in 0 .. Cardinality(U)
    BY <1>0, FS_Subset, FS_CardinalityType
  <1> QED BY <1>3, <1>4

\* The sum over a set without one element.
LEMMA TotalOut ==
  ASSUME NEW S, IsFiniteSet(S), NEW f, \A z \in S : f[z] \in Int
  PROVE  /\ Total(f, S) \in Int
         /\ \A x \in S : Total(f, S) = Total(f, S \ {x}) + f[x] /\ Total(f, S \ {x}) \in Int
  <1>1. \A T \in SUBSET S : \A z \in S \ T : Total(f, T \cup {z}) = Total(f, T) + f[z]
    BY TotalAdd
  <1>2. Total(f, S) \in Int
    BY TotalSame
  <1>3. ASSUME NEW x \in S PROVE Total(f, S) = Total(f, S \ {x}) + f[x] /\ Total(f, S \ {x}) \in Int
    <2> DEFINE R == S \ {x}
    <2>1. R \in SUBSET S /\ x \in S \ R /\ R \cup {x} = S /\ IsFiniteSet(R)
      BY FS_Subset
    <2>2. \A z \in R : f[z] \in Int
      OBVIOUS
    <2> HIDE DEF R
    <2>3. Total(f, R) \in Int
      BY <2>1, <2>2, TotalSame
    <2>4. Total(f, S) = Total(f, R) + f[x]
      BY <1>1, <2>1
    <2> QED BY <2>3, <2>4 DEF R
  <1> QED BY <1>2, <1>3

\* The sum when one value is replaced.
LEMMA TotalPut ==
  ASSUME NEW S, IsFiniteSet(S), NEW f, \A z \in S : f[z] \in Int, NEW x \in S,
         NEW g, \A z \in S : g[z] \in Int /\ (z # x => g[z] = f[z])
  PROVE  Total(g, S) = Total(f, S) - f[x] + g[x]
  <1> DEFINE R == S \ {x}
  <1>1. IsFiniteSet(R) /\ \A z \in R : f[z] \in Int /\ g[z] = f[z]
    BY FS_Subset
  <1>2. Total(f, S) = Total(f, R) + f[x] /\ Total(f, R) \in Int
    BY TotalOut
  <1>3. Total(g, S) = Total(g, R) + g[x]
    BY TotalOut
  <1> HIDE DEF R
  <1>4. Total(g, R) = Total(f, R)
    BY <1>1, TotalSame
  <1>5. f[x] \in Int /\ g[x] \in Int
    OBVIOUS
  <1> QED BY <1>2, <1>3, <1>4, <1>5

\* A sum of naturals is one, and bounds each of them; a sum of zeros is zero.
LEMMA TotalNat ==
  ASSUME NEW U, IsFiniteSet(U), NEW f, \A x \in U : f[x] \in Nat
  PROVE  \A S \in SUBSET U :
           /\ Total(f, S) \in Nat /\ \A x \in S : f[x] <= Total(f, S)
           /\ (\A x \in S : f[x] = 0) => Total(f, S) = 0
  <1> DEFINE P(S) == Total(f, S) \in Nat /\ ((\A x \in S : f[x] = 0) => Total(f, S) = 0)
             K == {k \in Nat : \A S \in SUBSET U : Cardinality(S) = k => P(S)}
  <1>0. Cardinality(U) \in Nat /\ Cardinality({}) = 0
    BY FS_CardinalityType, FS_EmptySet
  <1>1. 0 \in K
    <2>1. ASSUME NEW S \in SUBSET U, Cardinality(S) = 0 PROVE P(S)
      <3>1. S = {} /\ IsFiniteSet(S)
        BY <2>1, FS_EmptySet, FS_Subset
      <3>2. Total(f, S) = 0
        BY <3>1, TotalFirst
      <3> QED BY <3>2
    <2> QED BY <2>1
  <1>2. ASSUME NEW k \in 0 .. Cardinality(U) - 1, k \in K PROVE k + 1 \in K
    <2>1. ASSUME NEW S \in SUBSET U, Cardinality(S) = k + 1 PROVE P(S)
      <3> DEFINE y == Picked(S)
                 R == S \ {y}
      <3>a. k \in Nat /\ k + 1 # 0
        BY <1>2
      <3>0. S # {} /\ k \in Nat
        BY <1>0, <2>1, <3>a
      <3>1. y \in S /\ R \in SUBSET U /\ IsFiniteSet(S) /\ Cardinality(R) = Cardinality(S) - 1
        BY <3>0, PickedSmaller
      <3>2. Cardinality(R) = k
        BY <2>1, <3>0, <3>1
      <3>3. P(R)
        <4> HIDE DEF P, R, y
        <4> QED BY <1>2, <3>1, <3>2
      <3>4. \A z \in S : f[z] \in Int
        OBVIOUS
      <3>5. Total(f, S) = f[y] + Total(f, R)
        BY <3>0, <3>1, <3>4, TotalFirst
      <3>6. f[y] \in Nat /\ \A z \in R : z \in S
        BY <3>1
      <3> HIDE DEF R, y
      <3> QED BY <3>1, <3>3, <3>5, <3>6
    <2> HIDE DEF P
    <2>2. k + 1 \in Nat
      BY <1>2
    <2> QED BY <2>1, <2>2
  <1>3. \A k \in 0 .. Cardinality(U) : k \in K
    <2> HIDE DEF K
    <2> QED BY <1>0, <1>1, <1>2, UpTo
  <1>4. \A S \in SUBSET U : P(S)
    <2> HIDE DEF P
    <2> SUFFICES ASSUME NEW S \in SUBSET U PROVE P(S)
      OBVIOUS
    <2>1. Cardinality(S) \in 0 .. Cardinality(U)
      BY <1>0, FS_Subset, FS_CardinalityType
    <2> QED BY <1>3, <2>1
  <1>5. ASSUME NEW S \in SUBSET U, NEW x \in S PROVE f[x] <= Total(f, S)
    <2>1. IsFiniteSet(S) /\ S \ {x} \in SUBSET U
      BY FS_Subset
    <2>2. \A z \in S : f[z] \in Int
      OBVIOUS
    <2>3. Total(f, S) = Total(f, S \ {x}) + f[x]
      BY <2>1, <2>2, TotalOut
    <2>4. Total(f, S \ {x}) \in Nat /\ f[x] \in Nat
      BY <1>4, <2>1
    <2> QED BY <2>3, <2>4
  <1> QED BY <1>4, <1>5

-----------------------------------------------------------------------------
(* The quota.                                                              *)

\* The inodes that have a name, and what a walk measures.
Linked(d) == {i \in Inodes : \E x \in Names : d[x] = i}
BytesOf(d, s) == Total(s, Linked(d))
EntriesOf(d) == Cardinality({x \in Names : d[x] # Missing})

Over0(a) == IF a > 0 THEN a ELSE 0

\* What an operation has reserved and not settled, less what it already changed.
JobOwes(j) ==
  CASE j.kind = "write" -> IF j.written > 0 THEN j.growth - Over0(j.at + j.written - j.size) ELSE j.growth
    [] j.kind = "ftruncate" -> IF j.done = "yes" THEN j.growth - (j.len - j.size) ELSE j.growth
    [] OTHER -> 0
OwedOf(jb) == Total([f \in Fds |-> JobOwes(jb[f])], Fds)
OwedNow == OwedOf(job)
Pending == ex # NoOp /\ ex.st \in {"measured", "failed"}
ExOwesBytes == IF ex = NoOp \/ ex.st = "sized" THEN 0 ELSE IF Pending THEN ex.rb ELSE ex.rb - ex.ab
ExOwesEntries == IF ex = NoOp THEN 0 ELSE IF Pending THEN ex.re ELSE ex.re - ex.ae

\* An operation on a descriptor keeps what it was given.
Applied(j) == (j.kind = "write" /\ j.written >= 0) \/ (j.kind = "ftruncate" /\ j.done # "no")
JobFits(j, d, l) ==
  /\ d.ino \in Inodes
  /\ j.kind = "write" => /\ d.append /\ ~l => j.at = j.size
                         /\ j.growth = Over0(j.at + j.n - j.size) /\ j.written <= j.n
  /\ j.kind = "ftruncate" => j.growth = Over0(j.len - j.size)
Jobs == \A f \in Fds : job[f] # NoOp => JobFits(job[f], fd[f], loose)

\* No two operations are on one file, each is on a file with a name, and until it
\* reaches the host the file has the size that was measured.
Apart ==
  ~shared => \A f \in Fds : job[f] # NoOp =>
    /\ fd[f].ino \in Linked(dir)
    /\ \A g \in Fds : g # f /\ job[g] # NoOp => fd[g].ino # fd[f].ino
    /\ ex # NoOp => fd[f].ino \notin {ex.ino, ex.ino2}
    /\ ~Applied(job[f]) => size[fd[f].ino] = job[f].size

\* What the operation on names has measured is still so when it reaches the host.
Replaces == dir[ex.y] # Missing /\ ~(IsFile(ex.x) /\ dir[ex.x] = dir[ex.y])
NamesAsMeasured ==
  /\ ex.ino = InodeOf(ex.x) /\ ex.ino2 = InodeOf(ex.y)
  /\ Opens => ex.rb = 0 /\ ex.ab = 0 /\ ex.y = ex.x /\ ex.re = ex.ae
           /\ (~loose => ex.re = NewEntry(ex.x))
  /\ ex.kind \in {"mkdir", "symlink", "link"} => ex.rb = 0 /\ ex.ab = 0 /\ ex.re = 1 /\ ex.ae = 1
  /\ ex.kind = "link" => ex.x # ex.y /\ IsFile(ex.x)
  /\ ex.kind = "unlink" => ex.rb = 0 /\ ex.re = 0 /\ ex.ae = -1 /\ dir[ex.x] # Missing
  /\ ex.kind = "rmtree" => /\ ex.rb = 0 /\ ex.re = 0 /\ ex.ae = -2 /\ ex.x # ex.y
                           /\ dir[ex.x] = Dir /\ dir[ex.y] # Missing
  /\ ex.kind = "rename" => /\ ex.rb = 0 /\ ex.re = 0 /\ ex.x # ex.y /\ dir[ex.x] # Missing
                           /\ ex.ae = (IF Replaces THEN -1 ELSE 0)
  /\ ex.kind \in {"truncate0", "truncate1"} => ex.re = 0 /\ ex.ae = 0
  /\ Copies => /\ ex.re = ex.ae /\ IsFile(ex.x)
               /\ ~loose => ex.re = NewEntry(ex.y) /\ (ex.kind = "copy" => dir[ex.x] # dir[ex.y])
BytesAsMeasured ==
  /\ ex.kind = "unlink" => ex.ab = -BytesGone(ex.x)
  /\ ex.kind = "rmtree" => ex.ab = -BytesGone(ex.y)
  /\ ex.kind = "rename" => ex.ab = (IF Replaces THEN -BytesGone(ex.y) ELSE 0)
  /\ ex.kind = "truncate0" => ex.ab = 0 - SizeAt(ex.x) /\ ex.rb = Over0(ex.ab)
  /\ ex.kind = "truncate1" => ex.ab = 1 - SizeAt(ex.x) /\ ex.rb = Over0(ex.ab)
  /\ Copies => ex.ab = ex.rb /\ ex.rb = SizeAt(ex.x) - SizeAt(ex.y)
Stands == ex.st = "measured" \/ (ex.st = "failed" /\ ~torn)
OpenFits ==
  /\ IsFile(ex.x) /\ ex.rb = 0 /\ ex.re = ex.ae /\ ex.ab <= 0
  /\ ex.st = "done" => ex.ab = 0
  /\ IF ex.ino = Missing THEN ex.st = "done" /\ ~Opened(dir[ex.x]) ELSE ex.ino = dir[ex.x]
Naming ==
  ex # NoOp =>
    /\ Stands => NamesAsMeasured /\ (~shared /\ ~loose => BytesAsMeasured)
    /\ ex.st \in {"sized", "emptied"} => ex.kind = "opentrunc"
    /\ Opens /\ ~Pending => OpenFits
    /\ ex.st = "sized" /\ ~shared => ex.ab = -size[ex.ino]
    /\ ~Opens /\ ex.st = "done" /\ ~shared /\ ~loose => ex.rb - ex.ab >= 0

BytesKept == ~torn /\ ~shared /\ ~loose => quota.bytes = BytesOf(dir, size) + ExOwesBytes + OwedNow
EntriesKept == ~torn /\ ~loose => quota.entries = EntriesOf(dir) + ExOwesEntries

QuotaInv == QuotaTypeOK /\ Jobs /\ Apart /\ Naming /\ BytesKept /\ EntriesKept

\* The constants, piece by piece.
LEMMA QuotaParams ==
  /\ MaxSize \in Nat /\ MaxSize > 0 /\ Chunks \subseteq Nat
  /\ Missing \notin Inodes /\ Dir \notin Inodes /\ Missing # Dir
  /\ IsFiniteSet(Names) /\ IsFiniteSet(Inodes) /\ IsFiniteSet(Fds)
  /\ \A l \in Links : l \notin Inodes /\ l # Missing /\ l # Dir
  BY QuotaConstants, LinksApart

\* The larger of zero and a number.
LEMMA OverZero ==
  ASSUME NEW a \in Int
  PROVE  Max({0, a}) = Over0(a) /\ Over0(a) \in Nat /\ Over0(a) >= a
  <1>1. \E m \in {0, a} : \A y \in {0, a} : m >= y
    BY Z3
  <1>2. Max({0, a}) \in {0, a} /\ \A y \in {0, a} : Max({0, a}) >= y
    BY <1>1 DEF Max
  <1> QED BY <1>2 DEF Over0

\* The larger of two numbers.
LEMMA MaxOfTwo ==
  ASSUME NEW a \in Int, NEW b \in Int
  PROVE  Max({a, b}) = IF b > a THEN b ELSE a
  <1>1. \E m \in {a, b} : \A y \in {a, b} : m >= y
    BY Z3
  <1>2. Max({a, b}) \in {a, b} /\ \A y \in {a, b} : Max({a, b}) >= y
    BY <1>1 DEF Max
  <1> QED BY <1>2

\* How many names an inode has.
LEMMA NamesOfInode ==
  ASSUME NEW d, NEW i
  PROVE  LET N == {x \in Names : d[x] = i} IN
         /\ IsFiniteSet(N) /\ Cardinality(N) \in Nat
         /\ Cardinality(N) = 0 <=> \A x \in Names : d[x] # i
         /\ Cardinality(N) = 1 <=> \E x \in Names : d[x] = i /\ \A y \in Names : d[y] = i => y = x
  <1> DEFINE N == {x \in Names : d[x] = i}
  <1>1. IsFiniteSet(N) /\ Cardinality(N) \in Nat
    BY QuotaParams, FS_Subset, FS_CardinalityType
  <1>2. Cardinality(N) = 0 <=> N = {}
    <2> HIDE DEF N
    <2> QED BY <1>1, FS_EmptySet
  <1>3. Cardinality(N) = 1 <=> \E x : N = {x}
    <2> HIDE DEF N
    <2> QED BY <1>1, FS_Singleton
  <1>4. (\E x : N = {x}) <=> \E x \in Names : d[x] = i /\ \A y \in Names : d[y] = i => y = x
    <2>1. ASSUME NEW x, N = {x} PROVE \E z \in Names : d[z] = i /\ \A y \in Names : d[y] = i => y = z
      <3>1. x \in N /\ \A y \in N : y = x
        BY <2>1
      <3> QED BY <3>1
    <2>2. ASSUME NEW x \in Names, d[x] = i, \A y \in Names : d[y] = i => y = x PROVE N = {x}
      BY <2>2
    <2> QED BY <2>1, <2>2
  <1> QED BY <1>1, <1>2, <1>3, <1>4

\* The walk's measure.
LEMMA Walked ==
  /\ ActualBytes = BytesOf(dir, size) /\ ActualEntries = EntriesOf(dir)
  /\ \A i \in Inodes : Nlink(i) = 0 <=> i \notin Linked(dir)
  /\ \A i : Nlink(i) \in Nat
  <1>1. \A i \in Inodes : Nlink(i) \in Nat /\ (Nlink(i) = 0 <=> i \notin Linked(dir))
    BY NamesOfInode DEF Nlink, Linked
  <1>2. \A i \in Inodes : Nlink(i) > 0 <=> i \in Linked(dir)
    BY <1>1
  <1>3. {i \in Inodes : Nlink(i) > 0} = Linked(dir)
    BY <1>2 DEF Linked
  <1>4. ActualBytes = BytesOf(dir, size)
    BY <1>3 DEF ActualBytes, BytesOf, Total
  <1>5. \A i : Nlink(i) \in Nat
    BY NamesOfInode DEF Nlink
  <1> QED BY <1>1, <1>4, <1>5 DEF ActualEntries, EntriesOf

\* A walk's sums are naturals, and no file is larger than the sum.
LEMMA BytesFit ==
  ASSUME NEW d, NEW s \in [Inodes -> 0 .. MaxSize]
  PROVE  /\ BytesOf(d, s) \in Nat /\ \A i \in Linked(d) : s[i] <= BytesOf(d, s)
         /\ IsFiniteSet(Linked(d)) /\ \A i \in Inodes : s[i] \in Nat
  <1>1. Linked(d) \in SUBSET Inodes /\ IsFiniteSet(Linked(d))
    BY QuotaParams, FS_Subset DEF Linked
  <1>2. \A i \in Inodes : s[i] \in Nat
    BY QuotaParams
  <1> QED BY <1>1, <1>2, QuotaParams, TotalNat DEF BytesOf

\* The entries a walk counts are finitely many.
LEMMA EntriesFit ==
  ASSUME NEW d
  PROVE  EntriesOf(d) \in Nat /\ IsFiniteSet({x \in Names : d[x] # Missing})
  <1>1. IsFiniteSet({x \in Names : d[x] # Missing})
    BY QuotaParams, FS_Subset
  <1> QED BY <1>1, FS_CardinalityType DEF EntriesOf

\* A file changes its size.
LEMMA Resized ==
  ASSUME NEW d, NEW s \in [Inodes -> 0 .. MaxSize]
  PROVE  \A i \in Linked(d) : \A t : (\A z \in Inodes : t[z] \in Int /\ (z # i => t[z] = s[z]))
            => BytesOf(d, t) = BytesOf(d, s) - s[i] + t[i]
  <1> SUFFICES ASSUME NEW i \in Linked(d),
                      NEW t, \A z \in Inodes : t[z] \in Int /\ (z # i => t[z] = s[z])
               PROVE  BytesOf(d, t) = BytesOf(d, s) - s[i] + t[i]
    OBVIOUS
  <1> DEFINE L == Linked(d)
  <1>1. IsFiniteSet(L) /\ i \in L /\ L \subseteq Inodes /\ \A z \in Inodes : s[z] \in Nat
    BY BytesFit DEF Linked
  <1>2. (\A z \in L : s[z] \in Int) /\ \A z \in L : t[z] \in Int /\ (z # i => t[z] = s[z])
    BY <1>1
  <1> HIDE DEF L
  <1>3. Total(t, L) = Total(s, L) - s[i] + t[i]
    BY <1>1, <1>2, TotalPut
  <1> QED BY <1>3 DEF BytesOf, L

\* A name is taken from nothing: by a directory, a link or a file.
LEMMA EntryAdded ==
  ASSUME NEW d \in [Names -> Inodes \cup Links \cup {Missing, Dir}], NEW x \in Names, d[x] = Missing,
         NEW v \in Inodes \cup Links \cup {Dir}
  PROVE  EntriesOf([d EXCEPT ![x] = v]) = EntriesOf(d) + 1
  <1> DEFINE P == {y \in Names : d[y] # Missing}
             e == [d EXCEPT ![x] = v]
  <1>1. {y \in Names : e[y] # Missing} = P \cup {x} /\ x \notin P
    BY QuotaParams
  <1>2. IsFiniteSet(P)
    BY EntriesFit
  <1>3. Cardinality(P \cup {x}) = Cardinality(P) + 1
    <2> HIDE DEF P
    <2> QED BY <1>1, <1>2, FS_AddElement
  <1> QED BY <1>1, <1>3 DEF EntriesOf

\* A new file, of n bytes.
LEMMA FileAdded ==
  ASSUME NEW d \in [Names -> Inodes \cup Links \cup {Missing, Dir}], NEW s \in [Inodes -> 0 .. MaxSize],
         NEW x \in Names, d[x] = Missing, NEW i \in Inodes \ Linked(d),
         NEW e, e[x] = i, \A z \in Names : z # x => e[z] = d[z],
         NEW t, \A z \in Inodes : t[z] \in Int /\ (z # i => t[z] = s[z])
  PROVE  BytesOf(e, t) = BytesOf(d, s) + t[i]
  <1> DEFINE L == Linked(d)
  <1>1. Linked(e) = L \cup {i} /\ L \subseteq Inodes /\ i \notin L
    BY QuotaParams DEF Linked
  <1>2. \A z \in Inodes : s[z] \in Nat
    BY BytesFit
  <1>3. \A z \in L : s[z] \in Int /\ t[z] = s[z]
    BY <1>1, <1>2
  <1> HIDE DEF L
  <1>a. IsFiniteSet(Inodes) /\ \A z \in Inodes : t[z] \in Int
    BY QuotaParams
  <1>4. Total(t, L \cup {i}) = Total(t, L) + t[i]
    BY <1>1, <1>a, TotalAdd
  <1>5. IsFiniteSet(L)
    BY BytesFit DEF L
  <1>6. Total(t, L) = Total(s, L)
    BY <1>3, <1>5, TotalSame
  <1> QED BY <1>1, <1>4, <1>6 DEF BytesOf, L

\* Only which inodes have a name matters.
LEMMA SameLinks ==
  ASSUME NEW d, NEW e, NEW s, Linked(e) = Linked(d)
  PROVE  BytesOf(e, s) = BytesOf(d, s)
  BY DEF BytesOf

\* A name goes: the entry, and with a file's last name its bytes.
GoneFrom(d, s, x) ==
  IF d[x] \in Inodes /\ Cardinality({y \in Names : d[y] = d[x]}) = 1 THEN s[d[x]] ELSE 0

\* removalUsage: a name that goes takes one entry, and its file's bytes if it was the last.
LEMMA Removed ==
  ASSUME NEW d \in [Names -> Inodes \cup Links \cup {Missing, Dir}], NEW s \in [Inodes -> 0 .. MaxSize],
         NEW x \in Names, d[x] # Missing
  PROVE  LET e == [d EXCEPT ![x] = Missing] IN
         /\ BytesOf(e, s) = BytesOf(d, s) - GoneFrom(d, s, x)
         /\ EntriesOf(e) = EntriesOf(d) - 1
  <1> DEFINE e == [d EXCEPT ![x] = Missing]
             P == {y \in Names : d[y] # Missing}
             L == Linked(d)
             i == d[x]
  <1>1. EntriesOf(e) = EntriesOf(d) - 1
    <2>1. {y \in Names : e[y] # Missing} = P \ {x} /\ x \in P
      OBVIOUS
    <2>2. IsFiniteSet(P)
      BY EntriesFit
    <2>3. Cardinality(P \ {x}) = Cardinality(P) - 1
      <3> HIDE DEF P
      <3> QED BY <2>1, <2>2, FS_RemoveElement
    <2> QED BY <2>1, <2>3 DEF EntriesOf
  <1>2. CASE i \in Inodes /\ Cardinality({y \in Names : d[y] = i}) = 1
    <2>1. PICK z \in Names : d[z] = i /\ \A y \in Names : d[y] = i => y = z
      BY <1>2, NamesOfInode
    <2>2. z = x
      BY <2>1
    <2>3. Linked(e) = L \ {i} /\ i \in L
      BY <1>2, <2>1, <2>2, QuotaParams DEF Linked
    <2>4. IsFiniteSet(L) /\ \A y \in L : s[y] \in Int
      <3>1. L \subseteq Inodes /\ IsFiniteSet(L)
        BY BytesFit DEF Linked
      <3>2. \A y \in Inodes : s[y] \in Int
        BY BytesFit
      <3> QED BY <3>1, <3>2
    <2>5. Total(s, L) = Total(s, L \ {i}) + s[i] /\ Total(s, L \ {i}) \in Int /\ s[i] \in Int
      <3> HIDE DEF L, i
      <3>1. IsFiniteSet(L) /\ i \in L /\ (\A y \in L : s[y] \in Int) /\ s[i] \in Int
        BY <2>3, <2>4
      <3> QED BY <3>1, TotalOut
    <2>6. GoneFrom(d, s, x) = s[i]
      BY <1>2 DEF GoneFrom
    <2> HIDE DEF L, e, i
    <2>7. BytesOf(e, s) = BytesOf(d, s) - GoneFrom(d, s, x)
      BY <2>3, <2>5, <2>6 DEF BytesOf, L
    <2> QED BY <1>1, <2>7 DEF e
  <1>3. CASE ~(i \in Inodes /\ Cardinality({y \in Names : d[y] = i}) = 1)
    <2>1. Linked(e) = L
      <3>1. ASSUME NEW j \in L PROVE j \in Linked(e)
        <4>1. PICK y \in Names : d[y] = j
          BY DEF Linked
        <4>2. CASE y # x
          BY <4>1, <4>2 DEF Linked
        <4>3. CASE y = x
          <5>1. j = i /\ i \in Inodes
            BY <4>1, <4>3 DEF Linked
          <5>2. ~(\E z \in Names : d[z] = i /\ \A w \in Names : d[w] = i => w = z)
            BY <1>3, <5>1, NamesOfInode
          <5>3. \E w \in Names : d[w] = i /\ w # x
            BY <5>2
          <5> QED BY <5>1, <5>3 DEF Linked
        <4> QED BY <4>2, <4>3
      <3>2. Linked(e) \subseteq L
        BY QuotaParams DEF Linked
      <3> QED BY <3>1, <3>2
    <2>2. BytesOf(e, s) = BytesOf(d, s)
      BY <2>1, SameLinks
    <2>3. GoneFrom(d, s, x) = 0 /\ BytesOf(d, s) \in Nat
      BY <1>3, BytesFit DEF GoneFrom
    <2> QED BY <1>1, <2>2, <2>3
  <1> QED BY <1>2, <1>3

\* A second name of a file, and a directory, add no bytes.
LEMMA LinkAdded ==
  ASSUME NEW d, NEW s, NEW y \in Names, d[y] = Missing,
         NEW e, e[y] \in Linked(d), \A z \in Names : z # y => e[z] = d[z]
  PROVE  BytesOf(e, s) = BytesOf(d, s)
  <1>1. PICK x \in Names : d[x] = e[y] /\ e[y] \in Inodes
    BY DEF Linked
  <1>2. ASSUME NEW i \in Inodes PROVE i \in Linked(e) <=> i \in Linked(d)
    <2>1. ASSUME NEW z \in Names, d[z] = i PROVE e[z] = i
      BY <2>1, QuotaParams
    <2>2. ASSUME NEW z \in Names, e[z] = i PROVE \E w \in Names : d[w] = i
      BY <1>1, <2>2
    <2> QED BY <2>1, <2>2 DEF Linked
  <1>3. Linked(e) = Linked(d)
    BY <1>2 DEF Linked
  <1> QED BY <1>3, SameLinks

\* mkdir and symlink add a name and no bytes.
LEMMA DirAdded ==
  ASSUME NEW d \in [Names -> Inodes \cup Links \cup {Missing, Dir}], NEW s, NEW x \in Names, d[x] = Missing,
         NEW v \in Links \cup {Dir}
  PROVE  BytesOf([d EXCEPT ![x] = v], s) = BytesOf(d, s)
  <1> DEFINE e == [d EXCEPT ![x] = v]
  <1>1. \A z \in Names, i \in Inodes : e[z] = i <=> d[z] = i
    BY QuotaParams
  <1> HIDE DEF e
  <1>2. Linked(e) = Linked(d)
    BY <1>1 DEF Linked
  <1> QED BY <1>2, SameLinks DEF e

\* A name moves to a name that is missing.
LEMMA Moved ==
  ASSUME NEW d \in [Names -> Inodes \cup Links \cup {Missing, Dir}], NEW s,
         NEW x \in Names, NEW y \in Names, x # y, d[x] # Missing, d[y] = Missing,
         NEW e, e[x] = Missing, e[y] = d[x], \A z \in Names : z \notin {x, y} => e[z] = d[z]
  PROVE  BytesOf(e, s) = BytesOf(d, s) /\ EntriesOf(e) = EntriesOf(d)
  <1> DEFINE P == {z \in Names : d[z] # Missing}
  <1>0. e[x] = Missing /\ e[y] = d[x] /\ \A z \in Names : z \notin {x, y} => e[z] = d[z]
    OBVIOUS
  <1>1. ASSUME NEW i \in Inodes PROVE (\E z \in Names : e[z] = i) <=> \E z \in Names : d[z] = i
    <2>1. ASSUME NEW z \in Names, d[z] = i PROVE \E w \in Names : e[w] = i
      <3>1. z # y
        BY <2>1, QuotaParams
      <3>2. CASE z = x
        BY <1>0, <2>1, <3>2
      <3>3. CASE z # x
        BY <1>0, <2>1, <3>1, <3>3
      <3> QED BY <3>2, <3>3
    <2>2. ASSUME NEW z \in Names, e[z] = i PROVE \E w \in Names : d[w] = i
      <3>1. z # x
        BY <1>0, <2>2, QuotaParams
      <3> QED BY <1>0, <2>2, <3>1
    <2> QED BY <2>1, <2>2
  <1>2. BytesOf(e, s) = BytesOf(d, s)
    <2>1. Linked(e) = Linked(d)
      BY <1>1 DEF Linked
    <2> QED BY <2>1, SameLinks
  <1>3. EntriesOf(e) = EntriesOf(d)
    <2>1. {z \in Names : e[z] # Missing} = (P \ {x}) \cup {y} /\ x \in P /\ y \notin P \ {x}
      BY <1>0
    <2>2. IsFiniteSet(P) /\ Cardinality(P) \in Nat
      BY EntriesFit, FS_CardinalityType
    <2> HIDE DEF P
    <2>3. IsFiniteSet(P \ {x}) /\ Cardinality(P \ {x}) = Cardinality(P) - 1
      BY <2>1, <2>2, FS_RemoveElement
    <2>4. Cardinality((P \ {x}) \cup {y}) = Cardinality(P \ {x}) + 1
      BY <2>1, <2>3, FS_AddElement
    <2>5. Cardinality((P \ {x}) \cup {y}) = Cardinality(P)
      BY <2>2, <2>3, <2>4
    <2>6. Cardinality({z \in Names : e[z] # Missing}) = Cardinality(P)
      BY <2>1, <2>5
    <2> QED BY <2>6 DEF EntriesOf, P
  <1> QED BY <1>2, <1>3

\* A name moves over another.
LEMMA MovedOver ==
  ASSUME NEW d \in [Names -> Inodes \cup Links \cup {Missing, Dir}], NEW s \in [Inodes -> 0 .. MaxSize],
         NEW x \in Names, NEW y \in Names, x # y, d[x] # Missing, d[y] # Missing
  PROVE  LET e == [d EXCEPT ![x] = Missing, ![y] = d[x]] IN
         BytesOf(e, s) = BytesOf(d, s) - GoneFrom(d, s, y) /\ EntriesOf(e) = EntriesOf(d) - 1
  <1> DEFINE e == [d EXCEPT ![x] = Missing, ![y] = d[x]]
             r == [d EXCEPT ![y] = Missing]
  <1>1. r \in [Names -> Inodes \cup Links \cup {Missing, Dir}] /\ r[x] = d[x] /\ r[y] = Missing
    OBVIOUS
  <1>2. e[x] = Missing /\ e[y] = r[x] /\ r[x] # Missing /\ \A z \in Names : z \notin {x, y} => e[z] = r[z]
    OBVIOUS
  <1>3. BytesOf(r, s) = BytesOf(d, s) - GoneFrom(d, s, y) /\ EntriesOf(r) = EntriesOf(d) - 1
    BY Removed
  <1>4. BytesOf(e, s) = BytesOf(r, s) /\ EntriesOf(e) = EntriesOf(r)
    <2> HIDE DEF r, e
    <2> QED BY <1>1, <1>2, Moved
  <1> QED BY <1>3, <1>4

\* What is owed for one descriptor changes.
LEMMA OwedPut ==
  ASSUME NEW jb, NEW kb, \A g \in Fds : JobOwes(jb[g]) \in Int, NEW f \in Fds,
         \A g \in Fds : JobOwes(kb[g]) \in Int /\ (g # f => kb[g] = jb[g])
  PROVE  OwedOf(kb) = OwedOf(jb) - JobOwes(jb[f]) + JobOwes(kb[f])
  <1> DEFINE a == [g \in Fds |-> JobOwes(jb[g])]
             b == [g \in Fds |-> JobOwes(kb[g])]
  <1>1. IsFiniteSet(Fds) /\ (\A g \in Fds : a[g] \in Int) /\ \A g \in Fds : b[g] \in Int /\ (g # f => b[g] = a[g])
    BY QuotaParams
  <1>2. a[f] = JobOwes(jb[f]) /\ b[f] = JobOwes(kb[f])
    OBVIOUS
  <1> HIDE DEF a, b
  <1>3. Total(b, Fds) = Total(a, Fds) - a[f] + b[f]
    BY <1>1, TotalPut
  <1> QED BY <1>2, <1>3 DEF OwedOf, a, b

\* What the descriptors owe together is at least what each owes.
LEMMA OwedNat ==
  ASSUME NEW jb, \A g \in Fds : JobOwes(jb[g]) \in Nat
  PROVE  /\ OwedOf(jb) \in Nat /\ \A f \in Fds : JobOwes(jb[f]) <= OwedOf(jb)
         /\ (\A g \in Fds : JobOwes(jb[g]) = 0) => OwedOf(jb) = 0
  <1> DEFINE a == [g \in Fds |-> JobOwes(jb[g])]
  <1>1. (\A g \in Fds : a[g] = JobOwes(jb[g])) /\ IsFiniteSet(Fds) /\ Fds \in SUBSET Fds
    BY QuotaParams
  <1> HIDE DEF a
  <1>2. \A g \in Fds : a[g] \in Nat
    BY <1>1
  <1>3. /\ Total(a, Fds) \in Nat /\ \A x \in Fds : a[x] <= Total(a, Fds)
        /\ (\A x \in Fds : a[x] = 0) => Total(a, Fds) = 0
    BY <1>1, <1>2, TotalNat
  <1> QED BY <1>1, <1>3 DEF OwedOf, a

\* What an operation on a descriptor owes is never negative.
LEMMA JobOwesNat ==
  ASSUME NEW j \in {NoOp} \cup WriteOps \cup TruncateOps, NEW d, NEW l, j # NoOp => JobFits(j, d, l)
  PROVE  JobOwes(j) \in Nat
  <1>1. CASE j = NoOp
    BY <1>1 DEF NoOp, JobOwes
  <1>2. CASE j \in WriteOps
    <2>1. j # NoOp /\ j.kind = "write" /\ j.at \in Nat /\ j.n \in Nat /\ j.size \in Nat /\ j.written \in Int
      BY <1>2 DEF WriteOps, NoOp
    <2>2. j.growth = Over0(j.at + j.n - j.size) /\ j.written <= j.n
      BY <2>1 DEF JobFits
    <2> QED BY <2>1, <2>2 DEF JobOwes, Over0
  <1>3. CASE j \in TruncateOps
    <2>1. j # NoOp /\ j.kind = "ftruncate" /\ j.len \in Nat /\ j.size \in Nat
      BY <1>3, QuotaParams DEF TruncateOps, NoOp
    <2>2. j.growth = Over0(j.len - j.size)
      BY <2>1 DEF JobFits
    <2> QED BY <2>1, <2>2 DEF JobOwes, Over0
  <1> QED BY <1>1, <1>2, <1>3

\* What is owed for a name never exceeds what is stored.
LEMMA ExOwesFits ==
  ASSUME QuotaTypeOK, Naming, ~torn, ~shared, ~loose
  PROVE  ExOwesBytes \in Int /\ BytesOf(dir, size) + ExOwesBytes >= 0
  <1>0. BytesOf(dir, size) \in Nat /\ (\A i \in Linked(dir) : size[i] <= BytesOf(dir, size))
        /\ \A i \in Inodes : size[i] \in Nat
    BY BytesFit DEF QuotaTypeOK
  <1>1. CASE ex = NoOp
    BY <1>0, <1>1 DEF ExOwesBytes
  <1>2. CASE ex \in NameOps
    <2>0. ex # NoOp /\ ex.rb \in Int /\ ex.ab \in Int /\ ex.x \in Names /\ ex.y \in Names
      BY <1>2 DEF NameOps, NoOp
    <2>1. CASE ex.st = "sized"
      BY <1>0, <2>1 DEF ExOwesBytes
    <2>2. CASE ex.st \in {"measured", "failed"}
      <3>1. ExOwesBytes = ex.rb
        BY <2>0, <2>2 DEF ExOwesBytes, Pending
      <3>2. NamesAsMeasured /\ BytesAsMeasured
        BY <2>0, <2>2 DEF Naming, Stands
      <3>3. CASE ex.kind \notin {"truncate0", "truncate1", "copy", "copyexcl"}
        <4>1. ex.rb = 0
          BY <1>2, <3>2, <3>3 DEF NameOps, NameKinds, NamesAsMeasured, Opens
        <4> QED BY <1>0, <3>1, <4>1
      <3>4. CASE ex.kind \in {"truncate0", "truncate1"}
        <4>1. ex.rb = Over0(ex.ab)
          BY <3>2, <3>4 DEF BytesAsMeasured
        <4>2. ex.rb >= 0
          BY <2>0, <4>1 DEF Over0
        <4> QED BY <1>0, <2>0, <3>1, <4>2
      <3>5. CASE Copies
        <4>1. ex.rb = SizeAt(ex.x) - SizeAt(ex.y)
          BY <3>2, <3>5 DEF BytesAsMeasured
        <4>2. SizeAt(ex.x) \in Nat
          BY <1>0 DEF SizeAt, IsFile
        <4>3. SizeAt(ex.y) \in Nat /\ SizeAt(ex.y) <= BytesOf(dir, size)
          BY <1>0, <2>0 DEF SizeAt, IsFile, Linked
        <4> QED BY <1>0, <3>1, <4>1, <4>2, <4>3
      <3> QED BY <3>3, <3>4, <3>5 DEF Copies
    <2>3. CASE ex.st \in {"done", "emptied"}
      <3>1. ExOwesBytes = ex.rb - ex.ab
        BY <2>0, <2>3 DEF ExOwesBytes, Pending
      <3>2. ex.rb - ex.ab >= 0
        <4>1. CASE Opens
          <5>1. OpenFits
            BY <2>0, <2>3, <4>1 DEF Naming, Pending
          <5> QED BY <2>0, <5>1 DEF OpenFits
        <4>2. CASE ~Opens
          <5>1. ex.st = "done"
            BY <2>0, <2>3, <4>2 DEF Naming, Opens
          <5> QED BY <2>0, <4>2, <5>1 DEF Naming
        <4> QED BY <4>1, <4>2
      <3> QED BY <1>0, <2>0, <3>1, <3>2
    <2> QED BY <1>2, <2>1, <2>2, <2>3 DEF NameOps
  <1> QED BY <1>1, <1>2 DEF QuotaTypeOK

-----------------------------------------------------------------------------
(* The quota's operations on descriptors.                                  *)

\* At spawn nothing runs and the quota is what was measured.
LEMMA QuotaInitInv == QuotaInit => QuotaInv
  <1> SUFFICES ASSUME QuotaInit PROVE QuotaInv
    OBVIOUS
  <1>1. QuotaTypeOK
    <2>1. dir \in [Names -> Inodes \cup Links \cup {Missing, Dir}] /\ size \in [Inodes -> 0 .. MaxSize]
      BY QuotaParams DEF QuotaInit
    <2>2. /\ fd \in [Fds -> [ino : Inodes \cup {Missing}, pos : Nat, append : BOOLEAN]]
          /\ job \in [Fds -> {NoOp} \cup WriteOps \cup TruncateOps]
      BY DEF QuotaInit, Free
    <2>3. quota \in [bytes : Int, entries : Nat]
      <3>1. ActualBytes \in Nat /\ ActualEntries \in Nat
        BY <2>1, Walked, BytesFit, EntriesFit
      <3> QED BY <3>1 DEF QuotaInit
    <2> QED BY <2>1, <2>2, <2>3 DEF QuotaInit, QuotaTypeOK
  <1>2. \A f \in Fds : job[f] = NoOp
    BY DEF QuotaInit
  <1>3. Jobs /\ Apart /\ Naming
    BY <1>2 DEF QuotaInit, Jobs, Apart, Naming
  <1>4. OwedNow = 0
    <2>1. \A f \in Fds : JobOwes(job[f]) = 0
      BY <1>2 DEF JobOwes, NoOp
    <2> QED BY <2>1, OwedNat DEF OwedNow
  <1>5. ExOwesBytes = 0 /\ ExOwesEntries = 0
    BY DEF QuotaInit, ExOwesBytes, ExOwesEntries
  <1>6. BytesOf(dir, size) \in Nat /\ EntriesOf(dir) \in Nat
    BY <1>1, BytesFit, EntriesFit DEF QuotaTypeOK
  <1>7. quota.bytes = BytesOf(dir, size) /\ quota.entries = EntriesOf(dir)
    BY Walked DEF QuotaInit
  <1>8. BytesKept /\ EntriesKept
    BY <1>4, <1>5, <1>6, <1>7 DEF BytesKept, EntriesKept
  <1> QED BY <1>1, <1>3, <1>8 DEF QuotaInv

\* A step that leaves the names, the operation on names and its files alone.
LEMMA NamingStays ==
  ASSUME QuotaTypeOK, Naming, UNCHANGED <<dir, ex, torn>>, shared => shared', loose => loose',
         \A f \in Fds : fd'[f].ino \in {fd[f].ino, Missing},
         ~shared' /\ ex # NoOp => \A i \in Inodes \cap {ex.ino, ex.ino2} : size'[i] = size[i]
  PROVE  Naming'
  <1> SUFFICES ASSUME ex # NoOp PROVE Naming'
    BY DEF Naming
  <1>0. ex \in NameOps /\ ex.x \in Names /\ ex.y \in Names
    BY DEF QuotaTypeOK, NameOps
  <1>a. (Opens' <=> Opens) /\ (Copies' <=> Copies) /\ (Stands' <=> Stands) /\ (Pending' <=> Pending)
    BY DEF Opens, Copies, Stands, Pending
  <1>1. ASSUME Stands PROVE NamesAsMeasured'
    <2>1. NamesAsMeasured
      BY <1>1 DEF Naming
    <2> QED BY <2>1, <1>a DEF NamesAsMeasured, InodeOf, IsFile, Replaces, NewEntry
  <1>2. ASSUME Stands, ~shared', ~loose' PROVE BytesAsMeasured'
    <2>1. NamesAsMeasured /\ BytesAsMeasured
      BY <1>2 DEF Naming
    <2>2. ASSUME NEW z \in {ex.x, ex.y} PROVE SizeAt(z)' = SizeAt(z) /\ BytesGone(z)' = BytesGone(z)
      <3>1. InodeOf(z) \in {ex.ino, ex.ino2}
        BY <2>1 DEF NamesAsMeasured
      <3>2. IsFile(z) => dir[z] \in Inodes \cap {ex.ino, ex.ino2}
        BY <3>1 DEF InodeOf, IsFile
      <3>3. SizeAt(z)' = SizeAt(z)
        BY <1>2, <3>2 DEF SizeAt, IsFile
      <3> QED BY <3>3 DEF BytesGone, IsFile, Nlink
    <2>3. Replaces' <=> Replaces
      BY DEF Replaces, IsFile
    <2> QED BY <1>a, <2>1, <2>2, <2>3 DEF BytesAsMeasured
  <1>3. ASSUME Opens, ~Pending PROVE OpenFits'
    <2>1. OpenFits
      BY <1>3 DEF Naming
    <2>2. dir[ex.x] # Missing
      BY <2>1, QuotaParams DEF OpenFits, IsFile
    <2>3. ~Opened(dir[ex.x]) => ~Opened(dir[ex.x])'
      BY <2>2 DEF Opened
    <2> QED BY <2>1, <2>3 DEF OpenFits, IsFile
  <1>4. ASSUME ex.st = "sized", ~shared' PROVE ex.ab = -size'[ex.ino]
    <2>1. ex.ab = -size[ex.ino] /\ Opens /\ ~Pending
      BY <1>4 DEF Naming, Opens, Pending
    <2>2. ex.ino = dir[ex.x] /\ ex.ino \in Inodes
      BY <1>4, <2>1 DEF Naming, OpenFits, IsFile
    <2> QED BY <1>4, <2>1, <2>2
  <1> QED BY <1>a, <1>1, <1>2, <1>3, <1>4 DEF Naming

\* What an operation uses from now on is not used by another.
LEMMA UsesAlone ==
  ASSUME QuotaTypeOK, NEW files \in SUBSET Inodes, Uses(files)
  PROVE  /\ (shared => shared') /\ shared' \in BOOLEAN
         /\ ~shared' => \A i \in files : i \in Linked(dir) /\ ~Busy(i)
  <1>1. \A i \in Inodes : Nlink(i) = 0 <=> i \notin Linked(dir)
    BY Walked
  <1> QED BY <1>1 DEF Uses, QuotaTypeOK

\* A refused operation leaves its mark in the history only.
LEMMA RefusedStep ==
  ASSUME QuotaInv, UNCHANGED <<dir, size, fd, job, ex, quota, torn>>, shared => shared', loose => loose',
         {shared', loose', slack'} \subseteq BOOLEAN
  PROVE  QuotaInv'
  <1>1. QuotaTypeOK' /\ Jobs'
    BY DEF QuotaInv, QuotaTypeOK, Jobs, JobFits
  <1>2. Apart'
    BY DEF QuotaInv, Apart
  <1>3. Naming'
    BY NamingStays DEF QuotaInv
  <1>4. BytesKept' /\ EntriesKept'
    BY DEF QuotaInv, BytesKept, EntriesKept, ExOwesBytes, ExOwesEntries, Pending, OwedNow
  <1> QED BY <1>1, <1>2, <1>3, <1>4 DEF QuotaInv

\* What is owed when only one descriptor's operation changes.
LEMMA OwedChange ==
  ASSUME QuotaTypeOK, Jobs, Jobs', QuotaTypeOK', NEW f \in Fds, \A g \in Fds : g # f => job'[g] = job[g]
  PROVE  /\ OwedNow' = OwedNow - JobOwes(job[f]) + JobOwes(job'[f])
         /\ OwedNow \in Nat /\ OwedNow' \in Nat /\ JobOwes(job[f]) \in Nat /\ JobOwes(job'[f]) \in Nat
         /\ JobOwes(job[f]) <= OwedNow
  <1>1. \A g \in Fds : JobOwes(job[g]) \in Nat
    BY JobOwesNat DEF QuotaTypeOK, Jobs
  <1>2. \A g \in Fds : JobOwes(job'[g]) \in Nat
    BY JobOwesNat DEF QuotaTypeOK, Jobs
  <1> QED BY <1>1, <1>2, OwedPut, OwedNat DEF OwedNow

\* An operation on a descriptor starts: it has measured the file and reserved.
LEMMA JobStarts ==
  ASSUME QuotaInv, NEW f \in Fds, fd[f].ino # Missing, job[f] = NoOp, Uses({fd[f].ino}),
         NEW j \in WriteOps \cup TruncateOps, ~Applied(j), JobFits(j, fd[f], loose'), j.size = size[fd[f].ino], loose => loose', loose' \in BOOLEAN,
         Reserve(j.growth, 0), job' = [job EXCEPT ![f] = j], UNCHANGED <<dir, size, fd, ex, torn, slack>>
  PROVE  QuotaInv'
  <1> DEFINE i == fd[f].ino
  <1>0. QuotaTypeOK /\ i \in Inodes /\ j # NoOp
    BY DEF QuotaInv, QuotaTypeOK, WriteOps, TruncateOps, NoOp
  <1>1. /\ (shared => shared') /\ shared' \in BOOLEAN
        /\ ~shared' => i \in Linked(dir) /\ ~Busy(i) /\ ~shared
    BY <1>0, UsesAlone DEF QuotaTypeOK
  <1>2. j.growth \in Nat /\ quota.bytes \in Int /\ quota.entries \in Nat
    BY <1>0 DEF WriteOps, TruncateOps, QuotaTypeOK
  <1>3. quota' = [bytes |-> quota.bytes + j.growth, entries |-> quota.entries + 0]
    BY DEF Reserve
  <1>4. job'[f] = j /\ \A g \in Fds : g # f => job'[g] = job[g]
    BY <1>0 DEF QuotaTypeOK
  <1>5. QuotaTypeOK'
    <2>1. quota' \in [bytes : Int, entries : Nat]
      BY <1>2, <1>3
    <2>2. job' \in [Fds -> {NoOp} \cup WriteOps \cup TruncateOps]
      BY <1>0 DEF QuotaTypeOK
    <2> QED BY <1>0, <1>1, <2>1, <2>2 DEF QuotaTypeOK
  <1>6. Jobs'
    <2> SUFFICES ASSUME NEW g \in Fds, job'[g] # NoOp PROVE JobFits(job'[g], fd[g], loose')
      BY DEF Jobs
    <2>1. g # f => JobFits(job[g], fd[g], loose)
      BY <1>4 DEF QuotaInv, Jobs
    <2> QED BY <1>4, <2>1 DEF JobFits
  <1>7. Apart'
    <2> SUFFICES ASSUME ~shared', NEW g \in Fds, job'[g] # NoOp
                 PROVE  /\ fd[g].ino \in Linked(dir)
                        /\ \A h \in Fds : h # g /\ job'[h] # NoOp => fd[h].ino # fd[g].ino
                        /\ ex # NoOp => fd[g].ino \notin {ex.ino, ex.ino2}
                        /\ ~Applied(job'[g]) => size[fd[g].ino] = job'[g].size
      BY DEF Apart
    <2>1. \A h \in Fds : h # f /\ job[h] # NoOp => fd[h].ino # i
      BY <1>1 DEF Busy
    <2>2. CASE g = f
      BY <1>1, <1>4, <2>1, <2>2 DEF Busy
    <2>3. CASE g # f
      BY <1>1, <1>4, <2>1, <2>3 DEF QuotaInv, Apart
    <2> QED BY <2>2, <2>3
  <1>8. Naming'
    BY <1>1, NamingStays DEF QuotaInv
  <1>9. EntriesKept'
    BY <1>2, <1>3 DEF QuotaInv, EntriesKept, ExOwesEntries, Pending
  <1>10. BytesKept'
    <2> SUFFICES ASSUME ~torn, ~shared', ~loose' PROVE quota'.bytes = BytesOf(dir, size) + ExOwesBytes + OwedNow'
      BY DEF BytesKept, ExOwesBytes, Pending
    <2>1. quota.bytes = BytesOf(dir, size) + ExOwesBytes + OwedNow
      BY <1>1 DEF QuotaInv, BytesKept
    <2>2. OwedNow' = OwedNow - JobOwes(job[f]) + JobOwes(j) /\ OwedNow \in Nat
      BY <1>0, <1>4, <1>5, <1>6, OwedChange DEF QuotaInv
    <2>3. JobOwes(job[f]) = 0
      BY DEF JobOwes, NoOp
    <2>4. JobOwes(j) = j.growth
      BY DEF JobOwes, Applied, WriteOps, TruncateOps
    <2>5. ExOwesBytes \in Int /\ BytesOf(dir, size) \in Nat
      BY <1>0, <1>1, ExOwesFits, BytesFit DEF QuotaInv, QuotaTypeOK
    <2> QED BY <1>2, <1>3, <2>1, <2>2, <2>3, <2>4, <2>5
  <1> QED BY <1>5, <1>6, <1>7, <1>8, <1>9, <1>10 DEF QuotaInv

\* An operation on a descriptor reaches the host: the file has n bytes.
LEMMA JobOnHost ==
  ASSUME QuotaInv, NEW f \in Fds, job[f] # NoOp, ~Applied(job[f]),
         NEW n \in 0 .. MaxSize, size' = [size EXCEPT ![fd[f].ino] = n],
         NEW j \in WriteOps \cup TruncateOps, Applied(j), JobFits(j, fd[f], loose),
         ~shared /\ ~loose => JobOwes(j) = JobOwes(job[f]) - (n - size[fd[f].ino]),
         job' = [job EXCEPT ![f] = j], UNCHANGED <<dir, fd, ex, quota, torn, shared, loose, slack>>
  PROVE  QuotaInv'
  <1> DEFINE i == fd[f].ino
  <1>0. QuotaTypeOK /\ i \in Inodes /\ j # NoOp
    BY DEF QuotaInv, QuotaTypeOK, Jobs, JobFits, WriteOps, TruncateOps, NoOp
  <1>1. job'[f] = j /\ \A g \in Fds : g # f => job'[g] = job[g]
    BY <1>0 DEF QuotaTypeOK
  <1>2. size'[i] = n /\ \A k \in Inodes : k # i => size'[k] = size[k]
    BY <1>0 DEF QuotaTypeOK
  <1>3. QuotaTypeOK'
    <2>1. job' \in [Fds -> {NoOp} \cup WriteOps \cup TruncateOps]
      BY <1>0 DEF QuotaTypeOK
    <2>2. size' \in [Inodes -> 0 .. MaxSize]
      BY <1>0 DEF QuotaTypeOK
    <2> QED BY <1>0, <2>1, <2>2 DEF QuotaTypeOK
  <1>4. Jobs'
    BY <1>1 DEF QuotaInv, Jobs
  <1>5. ~shared => /\ i \in Linked(dir) /\ (ex # NoOp => i \notin {ex.ino, ex.ino2})
                   /\ \A g \in Fds : g # f /\ job[g] # NoOp => fd[g].ino # i
    BY DEF QuotaInv, Apart
  <1>6. Apart'
    <2> SUFFICES ASSUME ~shared, NEW g \in Fds, job'[g] # NoOp
                 PROVE  /\ fd[g].ino \in Linked(dir)
                        /\ \A h \in Fds : h # g /\ job'[h] # NoOp => fd[h].ino # fd[g].ino
                        /\ ex # NoOp => fd[g].ino \notin {ex.ino, ex.ino2}
                        /\ ~Applied(job'[g]) => size'[fd[g].ino] = job'[g].size
      BY DEF Apart
    <2>1. CASE g = f
      BY <1>1, <1>5, <2>1
    <2>2. CASE g # f
      <3>1. fd[g].ino \in Linked(dir) /\ fd[g].ino \in Inodes /\ fd[g].ino # i
        BY <1>1, <1>5, <2>2 DEF QuotaInv, Apart, Linked
      <3>2. /\ ex # NoOp => fd[g].ino \notin {ex.ino, ex.ino2}
            /\ ~Applied(job[g]) => size[fd[g].ino] = job[g].size
            /\ \A h \in Fds : h # g /\ job[h] # NoOp => fd[h].ino # fd[g].ino
        BY <1>1, <2>2 DEF QuotaInv, Apart
      <3> QED BY <1>1, <1>2, <2>2, <3>1, <3>2
    <2> QED BY <2>1, <2>2
  <1>7. Naming'
    <2>1. ~shared' /\ ex # NoOp => \A k \in Inodes \cap {ex.ino, ex.ino2} : size'[k] = size[k]
      BY <1>2, <1>5
    <2> QED BY <1>0, <2>1, NamingStays DEF QuotaInv
  <1>8. EntriesKept'
    BY DEF QuotaInv, EntriesKept, ExOwesEntries, Pending
  <1>9. BytesKept'
    <2> SUFFICES ASSUME ~torn, ~shared, ~loose PROVE quota.bytes = BytesOf(dir, size') + ExOwesBytes + OwedNow'
      BY DEF BytesKept, ExOwesBytes, Pending
    <2>1. quota.bytes = BytesOf(dir, size) + ExOwesBytes + OwedNow
      BY DEF QuotaInv, BytesKept
    <2>2. OwedNow' = OwedNow - JobOwes(job[f]) + JobOwes(j) /\ OwedNow \in Nat /\ JobOwes(job[f]) \in Nat
      BY <1>0, <1>1, <1>3, <1>4, OwedChange DEF QuotaInv
    <2>3. BytesOf(dir, size') = BytesOf(dir, size) - size[i] + n
      <3>1. i \in Linked(dir) /\ size \in [Inodes -> 0 .. MaxSize]
        BY <1>0, <1>5 DEF QuotaTypeOK
      <3>2. \A z \in Inodes : size'[z] \in Int /\ (z # i => size'[z] = size[z])
        BY <1>2, <1>3, QuotaParams DEF QuotaTypeOK
      <3> HIDE DEF i
      <3>3. \A k \in Linked(dir) : \A t : (\A z \in Inodes : t[z] \in Int /\ (z # k => t[z] = size[z]))
               => BytesOf(dir, t) = BytesOf(dir, size) - size[k] + t[k]
        BY <3>1, Resized
      <3>4. BytesOf(dir, size') = BytesOf(dir, size) - size[i] + size'[i]
        BY <3>1, <3>2, <3>3
      <3> QED BY <1>2, <3>4
    <2>4. ExOwesBytes \in Int /\ BytesOf(dir, size) \in Nat /\ size[i] \in Int /\ n \in Int
      BY <1>0, QuotaParams, ExOwesFits, BytesFit DEF QuotaInv, QuotaTypeOK
    <2>5. JobOwes(j) = JobOwes(job[f]) - (n - size[i])
      OBVIOUS
    <2> HIDE DEF i
    <2> QED BY <2>1, <2>2, <2>3, <2>4, <2>5
  <1> QED BY <1>3, <1>4, <1>6, <1>7, <1>8, <1>9 DEF QuotaInv

\* An operation on a descriptor settles with a bytes more than before it.
LEMMA JobSettles ==
  ASSUME QuotaInv, NEW f \in Fds, job[f] # NoOp, NEW a \in Int, JobOwes(job[f]) = job[f].growth - a,
         Settle(job[f].growth, 0, a, 0), job' = [job EXCEPT ![f] = NoOp],
         fd' \in [Fds -> [ino : Inodes \cup {Missing}, pos : Nat, append : BOOLEAN]],
         \A g \in Fds : fd'[g].ino = fd[g].ino /\ (g # f => fd'[g] = fd[g]),
         UNCHANGED <<dir, size, ex, torn, shared, loose, slack>>
  PROVE  QuotaInv'
  <1>0. QuotaTypeOK /\ quota.bytes \in Int /\ quota.entries \in Nat /\ job[f].growth \in Nat
    BY DEF QuotaInv, QuotaTypeOK, WriteOps, TruncateOps
  <1>1. job'[f] = NoOp /\ \A g \in Fds : g # f => job'[g] = job[g]
    BY <1>0 DEF QuotaTypeOK
  <1>2. quota' = [bytes |-> Over0(quota.bytes - job[f].growth + a), entries |-> quota.entries]
    <2>1. Max({0, quota.bytes - job[f].growth + a}) = Over0(quota.bytes - job[f].growth + a)
      <3>1. quota.bytes - job[f].growth + a \in Int
        BY <1>0
      <3> QED BY <3>1, OverZero
    <2>2. quota.entries - 0 + 0 \in Int /\ Over0(quota.entries - 0 + 0) = quota.entries
      BY <1>0 DEF Over0
    <2>3. Max({0, quota.entries - 0 + 0}) = quota.entries
      BY <2>2, OverZero
    <2> QED BY <2>1, <2>3 DEF Settle
  <1>3. QuotaTypeOK'
    <2>0. quota.bytes - job[f].growth + a \in Int
      BY <1>0
    <2>1. Over0(quota.bytes - job[f].growth + a) \in Nat
      BY <2>0, OverZero
    <2>2. quota' \in [bytes : Int, entries : Nat]
      BY <1>0, <1>2, <2>1
    <2>3. job' \in [Fds -> {NoOp} \cup WriteOps \cup TruncateOps]
      BY <1>0 DEF QuotaTypeOK
    <2> QED BY <1>0, <2>2, <2>3 DEF QuotaTypeOK
  <1>4. Jobs'
    BY <1>1 DEF QuotaInv, Jobs
  <1>5. Apart'
    BY <1>1 DEF QuotaInv, Apart
  <1>6. Naming'
    BY <1>0, NamingStays DEF QuotaInv
  <1>7. EntriesKept'
    BY <1>0, <1>2 DEF QuotaInv, EntriesKept, ExOwesEntries, Pending
  <1>8. BytesKept'
    <2> SUFFICES ASSUME ~torn, ~shared, ~loose PROVE quota'.bytes = BytesOf(dir, size) + ExOwesBytes + OwedNow'
      BY DEF BytesKept, ExOwesBytes, Pending
    <2>1. quota.bytes = BytesOf(dir, size) + ExOwesBytes + OwedNow
      BY DEF QuotaInv, BytesKept
    <2>2. /\ OwedNow' = OwedNow - JobOwes(job[f]) + JobOwes(job'[f]) /\ OwedNow \in Nat /\ JobOwes(job[f]) \in Nat
          /\ JobOwes(job[f]) <= OwedNow
      BY <1>0, <1>1, <1>3, <1>4, OwedChange DEF QuotaInv
    <2>3. JobOwes(job'[f]) = 0
      BY <1>1 DEF JobOwes, NoOp
    <2>4. ExOwesBytes \in Int /\ BytesOf(dir, size) \in Nat /\ BytesOf(dir, size) + ExOwesBytes >= 0
      BY <1>0, ExOwesFits, BytesFit DEF QuotaInv, QuotaTypeOK
    <2>5. quota.bytes - job[f].growth + a >= 0
      BY <1>0, <2>1, <2>2, <2>4
    <2>6. quota'.bytes = quota.bytes - job[f].growth + a
      BY <1>0, <1>2, <2>5 DEF Over0
    <2> QED BY <1>0, <2>1, <2>2, <2>3, <2>4, <2>6
  <1> QED BY <1>3, <1>4, <1>5, <1>6, <1>7, <1>8 DEF QuotaInv

\* write measures and reserves its growth, or is refused.
LEMMA WriteStep ==
  ASSUME QuotaInv, NEW f \in Fds, NEW n \in Chunks, NEW given \in -1 .. MaxSize, Write(f, n, given)
  PROVE  QuotaInv'
  <1> DEFINE i == fd[f].ino
             at == IF given >= 0 THEN given ELSE IF fd[f].append THEN size[i] ELSE fd[f].pos
             lost == loose \/ (fd[f].append /\ at # size[i])
             growth == Max({0, at + n - size[i]})
             j == [kind |-> "write", at |-> at, n |-> n, size |-> size[i], growth |-> growth,
                   moves |-> given < 0, written |-> -1]
  <1>0. QuotaTypeOK /\ i \in Inodes /\ i # Missing /\ job[f] = NoOp
    BY DEF Write, QuotaInv, QuotaTypeOK
  <1>1. size[i] \in Nat /\ at \in Nat /\ n \in Nat
    <2>1. size[i] \in Nat /\ fd[f].pos \in Nat /\ n \in Nat /\ given \in Int
      BY <1>0, QuotaParams DEF QuotaTypeOK
    <2> QED BY <2>1
  <1>2. Uses({i}) /\ UNCHANGED <<dir, size, fd, ex, torn, slack>> /\ loose' = lost /\ {lost, slack} \subseteq BOOLEAN
    BY <1>0 DEF Write, QuotaTypeOK
  <1>3. growth = Over0(at + n - size[i]) /\ growth \in Nat
    <2>1. at + n - size[i] \in Int
      BY <1>1
    <2> HIDE DEF at, i
    <2> QED BY <2>1, OverZero
  <1>4. CASE Refuse(growth, 0)
    <2>1. UNCHANGED <<quota, job>>
      BY <1>4 DEF Write
    <2>2. (shared => shared') /\ shared' \in BOOLEAN
      BY <1>0, <1>2, UsesAlone
    <2> HIDE DEF lost
    <2>3. loose => loose'
      BY <1>2 DEF lost
    <2> QED BY <1>2, <2>1, <2>2, <2>3, RefusedStep
  <1>5. CASE ~Refuse(growth, 0)
    <2>1. Reserve(growth, 0) /\ job' = [job EXCEPT ![f] = j]
      BY <1>5 DEF Write
    <2>2. j.kind = "write" /\ j.at = at /\ j.n = n /\ j.size = size[i] /\ j.growth = growth /\ j.written = -1
      OBVIOUS
    <2>a. fd[f].append /\ ~lost => at = size[i]
      OBVIOUS
    <2>3. j \in WriteOps
      <3> HIDE DEF at, growth
      <3> QED BY <1>1, <1>3 DEF WriteOps
    <2> HIDE DEF growth, j, at, lost
    <2>4. ~Applied(j)
      BY <2>2 DEF Applied
    <2>5. JobFits(j, fd[f], lost)
      BY <1>0, <1>1, <1>3, <2>2, <2>a DEF JobFits
    <2>6. loose => loose'
      BY <1>2 DEF lost
    <2> QED BY <1>0, <1>2, <2>1, <2>2, <2>3, <2>4, <2>5, <2>6, JobStarts
  <1> QED BY <1>4, <1>5

\* ftruncate measures and reserves its growth, or is refused.
LEMMA FtruncateStep ==
  ASSUME QuotaInv, NEW f \in Fds, NEW len \in 0 .. MaxSize, Ftruncate(f, len)
  PROVE  QuotaInv'
  <1> DEFINE i == fd[f].ino
             growth == Max({0, len - size[i]})
             j == [kind |-> "ftruncate", len |-> len, size |-> size[i], growth |-> growth, done |-> "no"]
  <1>0. QuotaTypeOK /\ i \in Inodes /\ i # Missing /\ job[f] = NoOp
    BY DEF Ftruncate, QuotaInv, QuotaTypeOK
  <1>1. size[i] \in Nat /\ len \in Nat
    BY <1>0, QuotaParams DEF QuotaTypeOK
  <1>2. Uses({i}) /\ UNCHANGED <<dir, size, fd, ex, torn, loose, slack>> /\ {loose, slack} \subseteq BOOLEAN
    BY <1>0 DEF Ftruncate, QuotaTypeOK
  <1>3. growth = Over0(len - size[i]) /\ growth \in Nat
    <2>1. len - size[i] \in Int
      BY <1>1
    <2> HIDE DEF i
    <2> QED BY <2>1, OverZero
  <1>4. CASE Refuse(growth, 0)
    <2>1. UNCHANGED <<quota, job>>
      BY <1>4 DEF Ftruncate
    <2>2. (shared => shared') /\ shared' \in BOOLEAN
      BY <1>0, <1>2, UsesAlone
    <2> QED BY <1>2, <2>1, <2>2, RefusedStep
  <1>5. CASE ~Refuse(growth, 0)
    <2>1. Reserve(growth, 0) /\ job' = [job EXCEPT ![f] = j]
      BY <1>5 DEF Ftruncate
    <2>2. j.kind = "ftruncate" /\ j.len = len /\ j.size = size[i] /\ j.growth = growth /\ j.done = "no"
      OBVIOUS
    <2>3. j \in TruncateOps
      <3> HIDE DEF growth
      <3> QED BY <1>1, <1>3 DEF TruncateOps
    <2> HIDE DEF growth, j
    <2>4. ~Applied(j)
      BY <2>2 DEF Applied
    <2>5. JobFits(j, fd[f], loose)
      BY <1>0, <1>1, <1>3, <2>2 DEF JobFits
    <2> QED BY <1>0, <1>2, <2>1, <2>2, <2>3, <2>4, <2>5, JobStarts
  <1> QED BY <1>4, <1>5

\* The host writes, less than asked or nothing.
LEMMA WriteOnHostStep ==
  ASSUME QuotaInv, NEW f \in Fds, NEW k \in Nat, WriteOnHost(f, k)
  PROVE  QuotaInv'
  <1> DEFINE i == fd[f].ino
             at == IF fd[f].append THEN size[i] ELSE job[f].at
             n == IF k = 0 THEN size[i] ELSE Max({size[i], at + k})
             o == job[f]
             j == [job[f] EXCEPT !.written = k]
  <1>0. QuotaTypeOK /\ o \in WriteOps /\ o # NoOp /\ o.kind = "write" /\ o.written < 0
    BY DEF WriteOnHost, QuotaInv, QuotaTypeOK, WriteOps, TruncateOps, NoOp
  <1>1. JobFits(o, fd[f], loose) /\ i \in Inodes
    BY <1>0 DEF QuotaInv, Jobs, JobFits
  <1>2. size[i] \in 0 .. MaxSize /\ size[i] \in Nat /\ at \in Nat /\ MaxSize \in Nat
    <2>1. size[i] \in 0 .. MaxSize /\ MaxSize \in Nat /\ o.at \in Nat
      BY <1>0, <1>1, QuotaParams DEF QuotaTypeOK, WriteOps
    <2> QED BY <2>1
  <1>a. o.at \in Nat /\ o.n \in Nat /\ o.size \in Nat /\ o.growth \in Nat /\ o.written \in Int
    BY <1>0 DEF WriteOps
  <1>3. k <= o.n /\ at + k <= MaxSize
    BY <1>a DEF WriteOnHost
  <1>4. n = (IF k # 0 /\ at + k > size[i] THEN at + k ELSE size[i])
    <2>1. at + k \in Int /\ size[i] \in Int
      BY <1>2
    <2> HIDE DEF at, i
    <2>2. Max({size[i], at + k}) = IF at + k > size[i] THEN at + k ELSE size[i]
      BY <2>1, MaxOfTwo
    <2> QED BY <2>2
  <1>5. n \in 0 .. MaxSize
    <2> HIDE DEF at, i, n
    <2> QED BY <1>2, <1>3, <1>4
  <1>6. size' = [size EXCEPT ![i] = n] /\ job' = [job EXCEPT ![f] = j] /\ UNCHANGED <<dir, fd, ex, quota, torn, shared, loose, slack>>
    BY <1>0, <1>1 DEF WriteOnHost, history, QuotaTypeOK
  <1>7. j \in WriteOps /\ j.kind = "write" /\ j.written = k /\ j.at = o.at /\ j.n = o.n /\ j.size = o.size /\ j.growth = o.growth
    BY <1>0 DEF WriteOps
  <1>8. Applied(j) /\ ~Applied(o)
    BY <1>0, <1>a, <1>7 DEF Applied
  <1>9. JobFits(j, fd[f], loose)
    <2> HIDE DEF j, o
    <2> QED BY <1>0, <1>1, <1>3, <1>7 DEF JobFits
  <1>10. ASSUME ~shared, ~loose PROVE JobOwes(j) = JobOwes(o) - (n - size[i])
    <2>1. size[i] = o.size
      BY <1>0, <1>8, <1>10 DEF QuotaInv, Apart
    <2>2. at = o.at
      BY <1>0, <1>1, <1>10, <2>1 DEF JobFits
    <2>3. JobOwes(o) = o.growth
      BY <1>0, <1>a DEF JobOwes
    <2>4. JobOwes(j) = IF k > 0 THEN o.growth - Over0(o.at + k - o.size) ELSE o.growth
      <3> HIDE DEF j, o
      <3> QED BY <1>7 DEF JobOwes
    <2> HIDE DEF at, i, n, o, j
    <2> QED BY <1>2, <1>a, <1>4, <2>1, <2>2, <2>3, <2>4 DEF Over0
  <1> HIDE DEF n, j
  <1> QED BY <1>0, <1>5, <1>6, <1>7, <1>8, <1>9, <1>10, JobOnHost

\* The host cuts or extends the file, or fails.
LEMMA FtruncateOnHostStep ==
  ASSUME QuotaInv, NEW f \in Fds, FtruncateOnHost(f)
  PROVE  QuotaInv'
  <1> DEFINE i == fd[f].ino
             o == job[f]
  <1>0. QuotaTypeOK /\ o \in TruncateOps /\ o # NoOp /\ o.kind = "ftruncate" /\ o.done = "no"
    BY DEF FtruncateOnHost, QuotaInv, QuotaTypeOK, WriteOps, TruncateOps, NoOp
  <1>1. JobFits(o, fd[f], loose) /\ i \in Inodes
    BY <1>0 DEF QuotaInv, Jobs, JobFits
  <1>2. size[i] \in 0 .. MaxSize /\ size[i] \in Nat /\ MaxSize \in Nat
    BY <1>0, <1>1, QuotaParams DEF QuotaTypeOK
  <1>a. o.len \in Nat /\ o.size \in Nat /\ o.growth \in Nat
    BY <1>0, QuotaParams DEF TruncateOps
  <1>3. UNCHANGED <<dir, fd, ex, quota, torn, shared, loose, slack>> /\ ~Applied(o)
    BY <1>0 DEF FtruncateOnHost, history, Applied
  <1>4. ASSUME NEW v \in {"yes", "failed"}, job' = [job EXCEPT ![f].done = v],
               NEW n \in 0 .. MaxSize, size' = [size EXCEPT ![i] = n],
               n = IF v = "yes" THEN o.len ELSE size[i]
        PROVE  QuotaInv'
    <2> DEFINE j == [job[f] EXCEPT !.done = v]
    <2>1. job' = [job EXCEPT ![f] = j]
      BY <1>4
    <2>2. j \in TruncateOps /\ j.kind = "ftruncate" /\ j.done = v /\ j.len = o.len /\ j.size = o.size /\ j.growth = o.growth
      BY <1>0 DEF TruncateOps
    <2>3. Applied(j)
      BY <2>2 DEF Applied
    <2> HIDE DEF j
    <2>4. JobFits(j, fd[f], loose)
      BY <1>1, <1>0, <2>2 DEF JobFits
    <2>5. ASSUME ~shared PROVE JobOwes(j) = JobOwes(o) - (n - size[i])
      <3>1. size[i] = o.size
        BY <1>0, <1>3, <2>5 DEF QuotaInv, Apart
      <3>2. JobOwes(o) = o.growth
        BY <1>0 DEF JobOwes
      <3>3. JobOwes(j) = IF v = "yes" THEN o.growth - (o.len - o.size) ELSE o.growth
        BY <2>2 DEF JobOwes
      <3> HIDE DEF i, o
      <3> QED BY <1>2, <1>a, <1>4, <3>1, <3>2, <3>3
    <2> QED BY <1>0, <1>3, <1>4, <2>1, <2>2, <2>3, <2>4, <2>5, JobOnHost
  <1>5. CASE size' = [size EXCEPT ![i] = o.len] /\ job' = [job EXCEPT ![f].done = "yes"]
    <2>1. o.len \in 0 .. MaxSize
      BY <1>0 DEF TruncateOps
    <2> QED BY <1>4, <1>5, <2>1
  <1>6. CASE size' = size /\ job' = [job EXCEPT ![f].done = "failed"]
    <2>1. size' = [size EXCEPT ![i] = size[i]]
      BY <1>0, <1>6 DEF QuotaTypeOK
    <2> QED BY <1>2, <1>4, <1>6, <2>1
  <1> QED BY <1>5, <1>6 DEF FtruncateOnHost

\* write settles its reservation with what was written.
LEMMA WriteSettlesStep ==
  ASSUME QuotaInv, NEW f \in Fds, WriteSettles(f)
  PROVE  QuotaInv'
  <1> DEFINE o == job[f]
             b == Max({0, o.at + o.written - o.size})
             a == IF o.written = 0 THEN 0 ELSE b
  <1>0. QuotaTypeOK /\ o \in WriteOps /\ o # NoOp /\ o.kind = "write" /\ o.written >= 0
    BY DEF WriteSettles, QuotaInv, QuotaTypeOK, WriteOps, TruncateOps, NoOp
  <1>1. o.at \in Nat /\ o.written \in Nat /\ o.size \in Nat /\ o.growth \in Nat
    BY <1>0 DEF WriteOps
  <1>2. b = Over0(o.at + o.written - o.size) /\ b \in Nat
    <2>1. o.at + o.written - o.size \in Int
      BY <1>1
    <2> HIDE DEF o
    <2> QED BY <2>1, OverZero
  <1>3. Settle(o.growth, 0, a, 0) /\ job' = [job EXCEPT ![f] = NoOp] /\ UNCHANGED <<dir, size, ex, torn, shared, loose, slack>>
    BY DEF WriteSettles, history
  <1>4. fd' = [fd EXCEPT ![f].pos = IF ~o.moves THEN @ ELSE IF fd[f].append THEN o.at + o.written ELSE @ + o.written]
    BY DEF WriteSettles
  <1>5. \A g \in Fds : fd'[g].ino = fd[g].ino /\ (g # f => fd'[g] = fd[g])
    BY <1>0, <1>4 DEF QuotaTypeOK
  <1>6. fd' \in [Fds -> [ino : Inodes \cup {Missing}, pos : Nat, append : BOOLEAN]]
    <2>1. fd[f].pos \in Nat
      BY <1>0 DEF QuotaTypeOK
    <2>2. o.at + o.written \in Nat /\ fd[f].pos + o.written \in Nat
      BY <1>1, <2>1
    <2>3. (IF ~o.moves THEN fd[f].pos ELSE IF fd[f].append THEN o.at + o.written ELSE fd[f].pos + o.written) \in Nat
      BY <2>1, <2>2
    <2> HIDE DEF o
    <2> QED BY <1>0, <1>4, <2>3 DEF QuotaTypeOK
  <1>7. JobOwes(o) = o.growth - a /\ a \in Int
    <2> HIDE DEF o, b
    <2> QED BY <1>0, <1>1, <1>2 DEF JobOwes
  <1> HIDE DEF a
  <1> QED BY <1>0, <1>3, <1>5, <1>6, <1>7, JobSettles

\* ftruncate settles with the change it made, none if it failed.
LEMMA FtruncateSettlesStep ==
  ASSUME QuotaInv, NEW f \in Fds, FtruncateSettles(f)
  PROVE  QuotaInv'
  <1> DEFINE o == job[f]
             a == IF o.done = "yes" THEN o.len - o.size ELSE 0
  <1>0. QuotaTypeOK /\ o \in TruncateOps /\ o # NoOp /\ o.kind = "ftruncate" /\ o.done # "no"
    BY DEF FtruncateSettles, QuotaInv, QuotaTypeOK, WriteOps, TruncateOps, NoOp
  <1>1. o.len \in Nat /\ o.size \in Nat /\ o.growth \in Nat
    BY <1>0, QuotaParams DEF TruncateOps
  <1>3. Settle(o.growth, 0, a, 0) /\ job' = [job EXCEPT ![f] = NoOp] /\ UNCHANGED <<dir, size, fd, ex, torn, shared, loose, slack>>
    BY DEF FtruncateSettles, history
  <1>4. fd' \in [Fds -> [ino : Inodes \cup {Missing}, pos : Nat, append : BOOLEAN]]
    BY <1>0, <1>3 DEF QuotaTypeOK
  <1>7. JobOwes(o) = o.growth - a /\ a \in Int
    <2> HIDE DEF o
    <2> QED BY <1>0, <1>1 DEF JobOwes
  <1> HIDE DEF a
  <1> QED BY <1>0, <1>3, <1>4, <1>7, JobSettles

\* close leaves the books alone: no operation is on the descriptor.
LEMMA CloseStep ==
  ASSUME QuotaInv, NEW f \in Fds, Close(f)
  PROVE  QuotaInv'
  <1>0. QuotaTypeOK /\ UNCHANGED <<dir, size, job, ex, quota, torn, shared, loose, slack>> /\ job[f] = NoOp
    BY DEF Close, history, QuotaInv
  <1>1. fd'[f] = Free /\ \A g \in Fds : g # f => fd'[g] = fd[g]
    BY <1>0 DEF Close, QuotaTypeOK
  <1>2. QuotaTypeOK'
    <2>1. fd' \in [Fds -> [ino : Inodes \cup {Missing}, pos : Nat, append : BOOLEAN]]
      BY <1>0 DEF Close, QuotaTypeOK, Free
    <2> QED BY <1>0, <2>1 DEF QuotaTypeOK
  <1>3. \A g \in Fds : fd'[g].ino \in {fd[g].ino, Missing}
    BY <1>1 DEF Free
  <1>4. Jobs'
    BY <1>0, <1>1 DEF QuotaInv, Jobs
  <1>5. Apart'
    BY <1>0, <1>1 DEF QuotaInv, Apart
  <1>6. Naming'
    BY <1>0, <1>3, NamingStays DEF QuotaInv
  <1>7. BytesKept' /\ EntriesKept'
    BY <1>0 DEF QuotaInv, BytesKept, EntriesKept, ExOwesBytes, ExOwesEntries, Pending, OwedNow
  <1> QED BY <1>2, <1>4, <1>5, <1>6, <1>7 DEF QuotaInv

-----------------------------------------------------------------------------
(* The quota's operations on names.                                        *)

\* The record of an operation that has measured and reserved.
MeasuredAs(e, kind, x, y, rb, re, ab, ae) ==
  /\ e.kind = kind /\ e.x = x /\ e.y = y /\ e.ino = InodeOf(x) /\ e.ino2 = InodeOf(y)
  /\ e.rb = rb /\ e.re = re /\ e.ab = ab /\ e.ae = ae /\ e.st = "measured"

\* What a measure of a name yields.
LEMMA InodeOfType ==
  ASSUME QuotaTypeOK, NEW x \in Names
  PROVE  InodeOf(x) \in Inodes \cup {Missing} /\ SizeAt(x) \in Nat /\ SizeAt(x) <= MaxSize
         /\ BytesGone(x) \in Nat
  <1>1. \A i \in Inodes : size[i] \in Nat /\ size[i] <= MaxSize
    BY QuotaParams DEF QuotaTypeOK
  <1> QED BY <1>1, QuotaParams DEF InodeOf, IsFile, SizeAt, BytesGone

\* An operation on names starts, when what it measured is what it records.
LEMMA MeasuredStep ==
  ASSUME QuotaInv, NEW kind \in NameKinds, NEW x \in Names, NEW y \in Names,
         NEW rb \in Int, NEW re \in {0, 1}, NEW ab \in Int, NEW ae \in {-2, -1, 0, 1},
         NEW misses \in BOOLEAN, Measured(kind, x, y, rb, re, ab, ae, misses),
         MeasuredAs(ex', kind, x, y, rb, re, ab, ae) /\ dir' = dir /\ size' = size /\ (misses => loose')
            => NamesAsMeasured' /\ (~loose' => BytesAsMeasured')
  PROVE  QuotaInv'
  <1> DEFINE files == {InodeOf(x), InodeOf(y)} \ {Missing}
             e == [kind |-> kind, x |-> x, y |-> y, ino |-> InodeOf(x), ino2 |-> InodeOf(y),
                   rb |-> rb, re |-> re, ab |-> ab, ae |-> ae, st |-> "measured"]
  <1>0. QuotaTypeOK /\ ex = NoOp /\ Uses(files) /\ UNCHANGED <<dir, size, fd, job, torn>>
    BY DEF Measured, QuotaInv
  <1>a. (loose => loose') /\ (misses => loose') /\ {loose', slack'} \subseteq BOOLEAN
    BY <1>0 DEF Measured, QuotaTypeOK
  <1>1. InodeOf(x) \in Inodes \cup {Missing} /\ InodeOf(y) \in Inodes \cup {Missing}
    BY <1>0, InodeOfType
  <1>2. /\ (shared => shared') /\ shared' \in BOOLEAN
        /\ ~shared' => \A i \in files : ~Busy(i)
    <2>1. files \in SUBSET Inodes
      BY <1>1
    <2> HIDE DEF files
    <2> QED BY <1>0, <2>1, UsesAlone
  <1>3. CASE Refuse(rb, re)
    <2>1. UNCHANGED <<quota, ex>>
      BY <1>3 DEF Measured
    <2> QED BY <1>0, <1>2, <1>a, <2>1, RefusedStep
  <1>4. CASE ~Refuse(rb, re)
    <2>1. Reserve(rb, re) /\ ex' = e
      BY <1>4 DEF Measured
    <2>2. MeasuredAs(ex', kind, x, y, rb, re, ab, ae)
      BY <2>1 DEF MeasuredAs
    <2>3. ex' \in NameOps /\ ex' # NoOp
      BY <1>1, <2>1 DEF NameOps, NoOp
    <2> HIDE DEF e
    <2>4. quota' = [bytes |-> quota.bytes + rb, entries |-> quota.entries + re]
          /\ quota.bytes \in Int /\ quota.entries \in Nat
      BY <1>0, <2>1 DEF Reserve, QuotaTypeOK
    <2>5. QuotaTypeOK'
      <3>1. quota' \in [bytes : Int, entries : Nat]
        BY <2>4
      <3> QED BY <1>0, <1>2, <1>a, <2>3, <3>1 DEF QuotaTypeOK
    <2>6. Jobs'
      BY <1>0, <1>a DEF QuotaInv, Jobs, JobFits
    <2>7. Apart'
      <3> SUFFICES ASSUME ~shared', NEW f \in Fds, job[f] # NoOp
                   PROVE  fd[f].ino \notin {ex'.ino, ex'.ino2}
        BY <1>0, <1>2 DEF QuotaInv, Apart
      <3>1. fd[f].ino \in Inodes
        BY DEF QuotaInv, Jobs, JobFits
      <3>2. \A i \in files : fd[f].ino # i
        BY <1>2 DEF Busy
      <3> QED BY <2>2, <3>1, <3>2, QuotaParams DEF MeasuredAs
    <2>8. Naming'
      <3>1. NamesAsMeasured' /\ (~loose' => BytesAsMeasured')
        BY <1>0, <1>a, <2>2
      <3>2. ex'.st = "measured"
        BY <2>2 DEF MeasuredAs
      <3>3. Pending'
        BY <2>3, <3>2 DEF Pending
      <3> QED BY <3>1, <3>2, <3>3 DEF Naming
    <2>9. ExOwesBytes = 0 /\ ExOwesBytes' = rb /\ ExOwesEntries = 0 /\ ExOwesEntries' = re
      <3>1. ex'.st = "measured" /\ ex'.rb = rb /\ ex'.re = re
        BY <2>2 DEF MeasuredAs
      <3> QED BY <1>0, <2>3, <3>1 DEF ExOwesBytes, ExOwesEntries, Pending
    <2>10. OwedNow' = OwedNow
      BY <1>0 DEF OwedNow
    <2>11. OwedNow \in Int
      <3>1. \A g \in Fds : JobOwes(job[g]) \in Nat
        BY JobOwesNat DEF QuotaInv, QuotaTypeOK, Jobs
      <3> QED BY <3>1, OwedNat DEF OwedNow
    <2>12. BytesOf(dir, size) \in Int /\ EntriesOf(dir) \in Int
      <3>1. BytesOf(dir, size) \in Nat
        BY <1>0, BytesFit DEF QuotaTypeOK
      <3>2. EntriesOf(dir) \in Nat
        BY EntriesFit
      <3> QED BY <3>1, <3>2
    <2>13. BytesKept'
      <3> SUFFICES ASSUME ~torn, ~shared', ~loose' PROVE quota'.bytes = BytesOf(dir, size) + ExOwesBytes' + OwedNow
        BY <1>0, <2>10 DEF BytesKept
      <3>1. quota.bytes = BytesOf(dir, size) + ExOwesBytes + OwedNow
        BY <1>2, <1>a DEF QuotaInv, BytesKept
      <3> QED BY <2>4, <2>9, <2>11, <2>12, <3>1
    <2>14. EntriesKept'
      <3> SUFFICES ASSUME ~torn, ~loose' PROVE quota'.entries = EntriesOf(dir) + ExOwesEntries'
        BY <1>0 DEF EntriesKept
      <3>1. quota.entries = EntriesOf(dir) + ExOwesEntries
        BY <1>a DEF QuotaInv, EntriesKept
      <3> QED BY <2>4, <2>9, <2>12, <3>1
    <2> QED BY <2>5, <2>6, <2>7, <2>8, <2>13, <2>14 DEF QuotaInv
  <1> QED BY <1>3, <1>4

\* When names and sizes stay, what is measured of them does.
LEMMA SameMeasures ==
  ASSUME dir' = dir, size' = size, NEW x
  PROVE  /\ InodeOf(x)' = InodeOf(x) /\ IsFile(x)' = IsFile(x)
         /\ SizeAt(x)' = SizeAt(x) /\ BytesGone(x)' = BytesGone(x) /\ NewEntry(x)' = NewEntry(x)
  BY DEF InodeOf, IsFile, SizeAt, BytesGone, Nlink, NewEntry

\* open measures the name and reserves an entry for a new one.
LEMMA OpenStep ==
  ASSUME QuotaInv, NEW x \in Names, NEW trunc \in BOOLEAN, Open(x, trunc)
  PROVE  QuotaInv'
  <1> DEFINE k == IF trunc THEN "opentrunc" ELSE "open"
             n == NewEntry(x)
  <1>1. k \in NameKinds /\ k \in {"open", "opentrunc"} /\ n \in {0, 1} /\ n \in {-2, -1, 0, 1}
    BY DEF NameKinds, NewEntry
  <1>p. PICK t \in Names : Measured(k, t, t, 0, n, 0, n, n # NewEntry(t))
    BY DEF Open
  <1> DEFINE m == n # NewEntry(t)
  <1>2. Measured(k, t, t, 0, n, 0, n, m)
    BY <1>p
  <1>3. ASSUME MeasuredAs(ex', k, t, t, 0, n, 0, n), dir' = dir, size' = size, m => loose'
        PROVE  NamesAsMeasured' /\ BytesAsMeasured'
    <2>1. /\ ex'.x = t /\ ex'.y = t /\ ex'.kind \in {"open", "opentrunc"} /\ ex'.ino = InodeOf(t) /\ ex'.ino2 = InodeOf(t)
          /\ ex'.rb = 0 /\ ex'.ab = 0 /\ ex'.re = ex'.ae /\ ex'.re = n
      BY <1>1, <1>3 DEF MeasuredAs
    <2>2. NewEntry(ex.x)' = NewEntry(t)
      BY <1>3, <2>1 DEF NewEntry
    <2> HIDE DEF n
    <2> QED BY <1>3, <2>1, <2>2, SameMeasures DEF NamesAsMeasured, BytesAsMeasured, Opens, Copies
  <1>4. m \in BOOLEAN /\ 0 \in Int
    OBVIOUS
  <1> HIDE DEF k, n, m
  <1> QED BY <1>1, <1>2, <1>3, <1>4, MeasuredStep

\* mkdir reserves an entry.
LEMMA MkdirStep ==
  ASSUME QuotaInv, NEW x \in Names, Mkdir(x)
  PROVE  QuotaInv'
  <1>1. Measured("mkdir", x, x, 0, 1, 0, 1, FALSE)
    BY DEF Mkdir
  <1>2. ASSUME MeasuredAs(ex', "mkdir", x, x, 0, 1, 0, 1), dir' = dir, size' = size
        PROVE  NamesAsMeasured' /\ BytesAsMeasured'
    BY <1>2, SameMeasures DEF MeasuredAs, NamesAsMeasured, BytesAsMeasured, Opens, Copies
  <1>3. "mkdir" \in NameKinds
    BY DEF NameKinds
  <1>4. 0 \in Int /\ {0, 1} \subseteq {-2, -1, 0, 1} /\ {-2, -1} \subseteq {-2, -1, 0, 1} /\ FALSE \in BOOLEAN
    OBVIOUS
  <1> QED BY <1>1, <1>2, <1>3, <1>4, MeasuredStep

\* symlink reserves an entry.
LEMMA SymlinkStep ==
  ASSUME QuotaInv, NEW x \in Names, Symlink(x)
  PROVE  QuotaInv'
  <1>1. Measured("symlink", x, x, 0, 1, 0, 1, FALSE)
    BY DEF Symlink
  <1>2. ASSUME MeasuredAs(ex', "symlink", x, x, 0, 1, 0, 1), dir' = dir, size' = size
        PROVE  NamesAsMeasured' /\ BytesAsMeasured'
    BY <1>2, SameMeasures DEF MeasuredAs, NamesAsMeasured, BytesAsMeasured, Opens, Copies
  <1>3. "symlink" \in NameKinds
    BY DEF NameKinds
  <1>4. 0 \in Int /\ {0, 1} \subseteq {-2, -1, 0, 1} /\ {-2, -1} \subseteq {-2, -1, 0, 1} /\ FALSE \in BOOLEAN
    OBVIOUS
  <1> QED BY <1>1, <1>2, <1>3, <1>4, MeasuredStep

\* link reserves an entry and no bytes.
LEMMA LinkStep ==
  ASSUME QuotaInv, NEW x \in Names, NEW y \in Names, Link(x, y)
  PROVE  QuotaInv'
  <1>1. Measured("link", x, y, 0, 1, 0, 1, FALSE) /\ x # y /\ IsFile(x)
    BY DEF Link
  <1>2. ASSUME MeasuredAs(ex', "link", x, y, 0, 1, 0, 1), dir' = dir, size' = size
        PROVE  NamesAsMeasured' /\ BytesAsMeasured'
    BY <1>1, <1>2, SameMeasures DEF MeasuredAs, NamesAsMeasured, BytesAsMeasured, Opens, Copies
  <1>3. "link" \in NameKinds
    BY DEF NameKinds
  <1>4. 0 \in Int /\ {0, 1} \subseteq {-2, -1, 0, 1} /\ {-2, -1} \subseteq {-2, -1, 0, 1} /\ FALSE \in BOOLEAN
    OBVIOUS
  <1> QED BY <1>1, <1>2, <1>3, <1>4, MeasuredStep

\* unlink measures what the name's removal frees.
LEMMA UnlinkStep ==
  ASSUME QuotaInv, NEW x \in Names, Unlink(x)
  PROVE  QuotaInv'
  <1> DEFINE b == -BytesGone(x)
  <1>1. Measured("unlink", x, x, 0, 0, b, -1, FALSE) /\ dir[x] # Missing
    BY DEF Unlink
  <1>2. ASSUME MeasuredAs(ex', "unlink", x, x, 0, 0, b, -1), dir' = dir, size' = size
        PROVE  NamesAsMeasured' /\ BytesAsMeasured'
    BY <1>1, <1>2, SameMeasures DEF MeasuredAs, NamesAsMeasured, BytesAsMeasured, Opens, Copies
  <1>3. "unlink" \in NameKinds /\ b \in Int
    BY InodeOfType DEF NameKinds, QuotaInv
  <1> HIDE DEF b
  <1>4. 0 \in Int /\ {0, 1} \subseteq {-2, -1, 0, 1} /\ {-2, -1} \subseteq {-2, -1, 0, 1} /\ FALSE \in BOOLEAN
    OBVIOUS
  <1> QED BY <1>1, <1>2, <1>3, <1>4, MeasuredStep

\* rm of a directory measures what its removal and that of the name in it free.
LEMMA RmTreeStep ==
  ASSUME QuotaInv, NEW x \in Names, NEW y \in Names, RmTree(x, y)
  PROVE  QuotaInv'
  <1> DEFINE b == -BytesGone(y)
  <1>1. Measured("rmtree", x, y, 0, 0, b, -2, FALSE) /\ x # y /\ dir[x] = Dir /\ dir[y] # Missing
    BY DEF RmTree
  <1>2. ASSUME MeasuredAs(ex', "rmtree", x, y, 0, 0, b, -2), dir' = dir, size' = size
        PROVE  NamesAsMeasured' /\ BytesAsMeasured'
    BY <1>1, <1>2, SameMeasures DEF MeasuredAs, NamesAsMeasured, BytesAsMeasured, Opens, Copies
  <1>3. "rmtree" \in NameKinds /\ b \in Int
    BY InodeOfType DEF NameKinds, QuotaInv
  <1> HIDE DEF b
  <1>4. 0 \in Int /\ {0, 1} \subseteq {-2, -1, 0, 1} /\ {-2, -1} \subseteq {-2, -1, 0, 1} /\ FALSE \in BOOLEAN
    OBVIOUS
  <1> QED BY <1>1, <1>2, <1>3, <1>4, MeasuredStep

\* rename measures what the removal of the name it replaces frees.
LEMMA RenameStep ==
  ASSUME QuotaInv, NEW x \in Names, NEW y \in Names, Rename(x, y)
  PROVE  QuotaInv'
  <1> DEFINE replaced == dir[y] # Missing /\ ~(IsFile(x) /\ dir[x] = dir[y])
             b == IF replaced THEN -BytesGone(y) ELSE 0
             n == IF replaced THEN -1 ELSE 0
  <1>1. Measured("rename", x, y, 0, 0, b, n, FALSE) /\ x # y /\ dir[x] # Missing
    BY DEF Rename
  <1>2. ASSUME MeasuredAs(ex', "rename", x, y, 0, 0, b, n), dir' = dir, size' = size
        PROVE  NamesAsMeasured' /\ BytesAsMeasured'
    <2>1. /\ ex'.x = x /\ ex'.y = y /\ ex'.kind = "rename" /\ ex'.ino = InodeOf(x) /\ ex'.ino2 = InodeOf(y)
          /\ ex'.rb = 0 /\ ex'.re = 0 /\ ex'.ab = b /\ ex'.ae = n
      BY <1>2 DEF MeasuredAs
    <2>2. Replaces' <=> replaced
      BY <1>2, <2>1 DEF Replaces, IsFile
    <2> QED BY <1>1, <1>2, <2>1, <2>2, SameMeasures DEF NamesAsMeasured, BytesAsMeasured, Opens, Copies
  <1>3. "rename" \in NameKinds /\ b \in Int /\ n \in {-2, -1, 0, 1}
    BY InodeOfType DEF NameKinds, QuotaInv
  <1> HIDE DEF b, n
  <1>4. 0 \in Int /\ {0, 1} \subseteq {-2, -1, 0, 1} /\ {-2, -1} \subseteq {-2, -1, 0, 1} /\ FALSE \in BOOLEAN
    OBVIOUS
  <1> QED BY <1>1, <1>2, <1>3, <1>4, MeasuredStep

\* truncate measures the file and reserves what it grows by.
LEMMA TruncateStep ==
  ASSUME QuotaInv, NEW x \in Names, NEW len \in 0 .. 1, Truncate(x, len)
  PROVE  QuotaInv'
  <1> DEFINE k == IF len = 0 THEN "truncate0" ELSE "truncate1"
  <1>p. PICK t \in Names : Measured(k, t, t, Max({0, len - SizeAt(t)}), 0, len - SizeAt(t), 0, FALSE)
    BY DEF Truncate
  <1> DEFINE b == len - SizeAt(t)
             r == Max({0, len - SizeAt(t)})
  <1>0. b \in Int /\ len \in Int /\ SizeAt(t) \in Nat
    BY InodeOfType DEF QuotaInv
  <1>1. Measured(k, t, t, r, 0, b, 0, FALSE)
    BY <1>p
  <1>a. r = Over0(b) /\ r \in Int
    <2> HIDE DEF b
    <2>1. Max({0, b}) = Over0(b) /\ Over0(b) \in Nat
      BY <1>0, OverZero
    <2> QED BY <2>1 DEF b
  <1>2. ASSUME MeasuredAs(ex', k, t, t, r, 0, b, 0), dir' = dir, size' = size
        PROVE  NamesAsMeasured' /\ BytesAsMeasured'
    <2>1. /\ ex'.x = t /\ ex'.y = t /\ ex'.kind = k /\ ex'.ino = InodeOf(t) /\ ex'.ino2 = InodeOf(t)
          /\ ex'.rb = r /\ ex'.re = 0 /\ ex'.ab = b /\ ex'.ae = 0
      BY <1>2 DEF MeasuredAs
    <2>2. ex'.rb = Over0(ex'.ab)
      BY <1>a, <2>1
    <2>3. SizeAt(ex.x)' = SizeAt(t)
      BY <1>2, <2>1 DEF SizeAt, IsFile
    <2>4. ex'.kind \in {"truncate0", "truncate1"}
      BY <2>1
    <2>5. NamesAsMeasured'
      BY <1>2, <2>1, <2>4, SameMeasures DEF NamesAsMeasured, Opens, Copies
    <2>6. BytesAsMeasured'
      BY <1>0, <2>1, <2>2, <2>3, <2>4 DEF BytesAsMeasured, Copies
    <2> QED BY <2>5, <2>6
  <1>3. k \in NameKinds
    BY DEF NameKinds
  <1> HIDE DEF b, r, k
  <1> QED BY <1>0, <1>a, <1>1, <1>2, <1>3, MeasuredStep

\* copyFile measures both files and reserves the difference; it misses what it
\* does to another file than the one measured, and to the file it reads.
LEMMA CopyFileStep ==
  ASSUME QuotaInv, NEW x \in Names, NEW y \in Names, NEW excl \in BOOLEAN, CopyFile(x, y, excl)
  PROVE  QuotaInv'
  <1> DEFINE k == IF excl THEN "copyexcl" ELSE "copy"
             n == NewEntry(y)
  <1>p. PICK s \in Names, t \in Names :
          /\ IsFile(s)
          /\ Measured(k, s, t, CopyBytes(s, y), n, CopyBytes(s, y), n,
                      n # NewEntry(t) \/ SizeAt(t) # SizeAt(y) \/ (~excl /\ dir[s] = dir[t]))
    BY DEF CopyFile
  <1> DEFINE b == CopyBytes(s, y)
             m == n # NewEntry(t) \/ SizeAt(t) # SizeAt(y) \/ (~excl /\ dir[s] = dir[t])
  <1>1. Measured(k, s, t, b, n, b, n, m) /\ IsFile(s)
    BY <1>p
  <1>2. ASSUME MeasuredAs(ex', k, s, t, b, n, b, n), dir' = dir, size' = size, m => loose'
        PROVE  NamesAsMeasured' /\ (~loose' => BytesAsMeasured')
    <2>1. /\ ex'.x = s /\ ex'.y = t /\ ex'.kind = k /\ ex'.ino = InodeOf(s) /\ ex'.ino2 = InodeOf(t)
          /\ ex'.rb = b /\ ex'.re = n /\ ex'.ab = b /\ ex'.ae = n
      BY <1>2 DEF MeasuredAs
    <2>2. b = SizeAt(s) - SizeAt(y) /\ (k = "copy" => ~excl) /\ k \in {"copy", "copyexcl"}
      BY DEF CopyBytes
    <2>3. ~loose' => n = NewEntry(t) /\ SizeAt(t) = SizeAt(y) /\ (k = "copy" => dir[s] # dir[t])
      BY <1>2, <2>2
    <2>4. NewEntry(ex.y)' = NewEntry(t) /\ SizeAt(ex.x)' = SizeAt(s) /\ SizeAt(ex.y)' = SizeAt(t)
      BY <1>2, <2>1 DEF NewEntry, SizeAt, IsFile
    <2> HIDE DEF b, n, m, k
    <2>5. NamesAsMeasured'
      BY <1>1, <1>2, <2>1, <2>2, <2>3, <2>4, SameMeasures DEF NamesAsMeasured, Opens, Copies
    <2>6. ~loose' => BytesAsMeasured'
      BY <2>1, <2>2, <2>3, <2>4 DEF BytesAsMeasured, Copies
    <2> QED BY <2>5, <2>6
  <1>3. k \in NameKinds /\ b \in Int /\ n \in {-2, -1, 0, 1} /\ n \in {0, 1} /\ m \in BOOLEAN
    BY InodeOfType DEF NameKinds, QuotaInv, CopyBytes, NewEntry
  <1> HIDE DEF b, n, k, m
  <1> QED BY <1>1, <1>2, <1>3, MeasuredStep

\* The host's answer to the operation on names: what it changed, in the books.
\* Files in other operations keep their names and their sizes.
LEMMA AnsweredStep ==
  ASSUME QuotaInv, ex # NoOp, UNCHANGED <<fd, job, quota, shared, loose, slack>>, torn => torn',
         QuotaTypeOK', Naming', ex' # NoOp,
         ~shared => \A f \in Fds : job[f] # NoOp /\ fd[f].ino \in Inodes =>
                      /\ fd[f].ino \in Linked(dir') /\ size'[fd[f].ino] = size[fd[f].ino]
                      /\ fd[f].ino \notin {ex'.ino, ex'.ino2},
         ~torn' /\ ~shared /\ ~loose => BytesOf(dir', size') + ExOwesBytes' = BytesOf(dir, size) + ExOwesBytes,
         ~torn' /\ ~loose => EntriesOf(dir') + ExOwesEntries' = EntriesOf(dir) + ExOwesEntries
  PROVE  QuotaInv'
  <1>1. Jobs'
    BY DEF QuotaInv, Jobs
  <1>2. Apart'
    <2>1. \A f \in Fds : job[f] # NoOp => fd[f].ino \in Inodes
      BY DEF QuotaInv, Jobs, JobFits
    <2> QED BY <2>1 DEF QuotaInv, Apart
  <1>3. OwedNow' = OwedNow
    BY DEF OwedNow
  <1>4. BytesKept'
    <2> SUFFICES ASSUME ~torn', ~shared, ~loose PROVE quota.bytes = BytesOf(dir', size') + ExOwesBytes' + OwedNow
      BY <1>3 DEF BytesKept
    <2>1. quota.bytes = BytesOf(dir, size) + ExOwesBytes + OwedNow
      BY DEF QuotaInv, BytesKept
    <2> QED BY <2>1
  <1>5. EntriesKept'
    BY DEF QuotaInv, EntriesKept
  <1> QED BY <1>1, <1>2, <1>4, <1>5 DEF QuotaInv

\* What an operation on names has fixed before it reaches the host.
LEMMA AtHost ==
  ASSUME QuotaInv, ex # NoOp, ex.st = "measured"
  PROVE  /\ QuotaTypeOK /\ ex \in NameOps /\ ex.x \in Names /\ ex.y \in Names /\ Pending
         /\ ex.rb \in Int /\ ex.ab \in Int /\ ex.re \in Int /\ ex.ae \in Int
         /\ NamesAsMeasured /\ (~shared /\ ~loose => BytesAsMeasured)
         /\ ExOwesBytes = ex.rb /\ ExOwesEntries = ex.re
         /\ BytesOf(dir, size) \in Int /\ EntriesOf(dir) \in Int
         /\ \A i \in Inodes : size[i] \in Nat /\ size[i] <= MaxSize
         /\ ~shared => \A f \in Fds : job[f] # NoOp =>
              /\ fd[f].ino \in Linked(dir)
              /\ \A z \in {ex.x, ex.y} : dir[z] # fd[f].ino
  <1>1. QuotaTypeOK /\ ex \in NameOps
    BY DEF QuotaInv, QuotaTypeOK
  <1>2. /\ ex.x \in Names /\ ex.y \in Names /\ ex.rb \in Int /\ ex.ab \in Int /\ ex.re \in Int /\ ex.ae \in Int
    BY <1>1 DEF NameOps
  <1>3. NamesAsMeasured /\ (~shared /\ ~loose => BytesAsMeasured)
    BY DEF QuotaInv, Naming, Stands
  <1>4. Pending /\ ExOwesBytes = ex.rb /\ ExOwesEntries = ex.re
    BY DEF Pending, ExOwesBytes, ExOwesEntries
  <1>5. BytesOf(dir, size) \in Int
    <2>1. BytesOf(dir, size) \in Nat
      BY <1>1, BytesFit DEF QuotaTypeOK
    <2> QED BY <2>1
  <1>6. EntriesOf(dir) \in Int
    <2>1. EntriesOf(dir) \in Nat
      BY EntriesFit
    <2> QED BY <2>1
  <1>7. \A i \in Inodes : size[i] \in Nat /\ size[i] <= MaxSize
    BY <1>1, QuotaParams DEF QuotaTypeOK
  <1>8. ASSUME ~shared, NEW f \in Fds, job[f] # NoOp
        PROVE  fd[f].ino \in Linked(dir) /\ \A z \in {ex.x, ex.y} : dir[z] # fd[f].ino
    <2>1. fd[f].ino \in Linked(dir) /\ fd[f].ino \notin {ex.ino, ex.ino2} /\ fd[f].ino \in Inodes
      BY <1>8 DEF QuotaInv, Apart, Linked
    <2>2. ex.ino = InodeOf(ex.x) /\ ex.ino2 = InodeOf(ex.y)
      BY <1>3 DEF NamesAsMeasured
    <2> QED BY <2>1, <2>2 DEF InodeOf, IsFile
  <1> QED BY <1>1, <1>2, <1>3, <1>4, <1>5, <1>6, <1>7, <1>8

\* The host fails and has changed nothing.
LEMMA OnHostFailsStep ==
  ASSUME QuotaInv, OnHostFails
  PROVE  QuotaInv'
  <1>0. ex # NoOp /\ ex.st = "measured" /\ UNCHANGED <<dir, size, fd, job, quota, torn, shared, loose, slack>>
    BY DEF OnHostFails, history
  <1>1. QuotaTypeOK /\ ex \in NameOps
    BY <1>0, AtHost
  <1>2. /\ ex' \in NameOps /\ ex' # NoOp /\ ex'.st = "failed" /\ ex'.kind = ex.kind /\ ex'.x = ex.x /\ ex'.y = ex.y
        /\ ex'.ino = ex.ino /\ ex'.ino2 = ex.ino2 /\ ex'.rb = ex.rb /\ ex'.re = ex.re
        /\ ex'.ab = ex.ab /\ ex'.ae = ex.ae
    BY <1>1 DEF OnHostFails, NameOps, NoOp
  <1>3. QuotaTypeOK'
    BY <1>0, <1>1, <1>2 DEF QuotaTypeOK
  <1>4. NamesAsMeasured' /\ (~shared /\ ~loose => BytesAsMeasured')
    <2>1. NamesAsMeasured /\ (~shared /\ ~loose => BytesAsMeasured)
      BY <1>0, AtHost
    <2>2. (Opens' <=> Opens) /\ (Copies' <=> Copies)
      BY <1>2 DEF Opens, Copies
    <2>3. Replaces' <=> Replaces
      BY <1>0, <1>2 DEF Replaces, IsFile
    <2>4. /\ InodeOf(ex.x)' = InodeOf(ex.x) /\ InodeOf(ex.y)' = InodeOf(ex.y) /\ IsFile(ex.x)' = IsFile(ex.x)
          /\ SizeAt(ex.x)' = SizeAt(ex.x) /\ SizeAt(ex.y)' = SizeAt(ex.y)
          /\ BytesGone(ex.x)' = BytesGone(ex.x) /\ BytesGone(ex.y)' = BytesGone(ex.y)
      BY <1>0, <1>2 DEF InodeOf, IsFile, SizeAt, BytesGone, Nlink
    <2>5. NamesAsMeasured'
      BY <1>0, <1>2, <2>1, <2>2, <2>3, <2>4 DEF NamesAsMeasured, NewEntry
    <2>6. ~shared /\ ~loose => BytesAsMeasured'
      BY <1>0, <1>2, <2>1, <2>2, <2>3, <2>4 DEF BytesAsMeasured
    <2> QED BY <2>5, <2>6
  <1>5. Naming'
    <2>1. Pending'
      BY <1>2 DEF Pending
    <2> QED BY <1>0, <1>2, <1>4, <2>1 DEF Naming
  <1>6. ExOwesBytes' = ExOwesBytes /\ ExOwesEntries' = ExOwesEntries
    BY <1>0, <1>2 DEF ExOwesBytes, ExOwesEntries, Pending
  <1>7. ~shared => \A f \in Fds : job[f] # NoOp /\ fd[f].ino \in Inodes =>
                      /\ fd[f].ino \in Linked(dir') /\ size'[fd[f].ino] = size[fd[f].ino]
                      /\ fd[f].ino \notin {ex'.ino, ex'.ino2}
    BY <1>0, <1>2 DEF QuotaInv, Apart
  <1> QED BY <1>0, <1>2, <1>3, <1>5, <1>6, <1>7, AnsweredStep

\* What is given back beyond the reservation is never negative.
LEMMA ExtraReserved ==
  ASSUME QuotaInv, ex # NoOp, ex.st = "measured", ~Opens, ~shared, ~loose
  PROVE  ex.rb - ex.ab >= 0
  <1>0. /\ ex \in NameOps /\ NamesAsMeasured /\ BytesAsMeasured /\ ex.rb \in Int /\ ex.ab \in Int
        /\ QuotaTypeOK /\ ex.x \in Names /\ ex.y \in Names
    BY AtHost
  <1>1. BytesGone(ex.x) \in Nat /\ BytesGone(ex.y) \in Nat
    BY <1>0, InodeOfType
  <1>2. CASE ex.kind \in {"mkdir", "symlink", "link"}
    BY <1>0, <1>2 DEF NamesAsMeasured
  <1>3. CASE ex.kind \in {"unlink", "rmtree"}
    BY <1>0, <1>1, <1>3 DEF NamesAsMeasured, BytesAsMeasured
  <1>4. CASE ex.kind = "rename"
    BY <1>0, <1>1, <1>4 DEF NamesAsMeasured, BytesAsMeasured
  <1>5. CASE ex.kind \in {"truncate0", "truncate1"}
    <2>1. ex.rb = Over0(ex.ab)
      BY <1>0, <1>5 DEF BytesAsMeasured
    <2> QED BY <1>0, <2>1 DEF Over0
  <1>6. CASE Copies
    BY <1>0, <1>6 DEF BytesAsMeasured
  <1> QED BY <1>0, <1>2, <1>3, <1>4, <1>5, <1>6 DEF NameOps, NameKinds, Opens, Copies

\* The host has done it: names and sizes changed by what was measured.
LEMMA DoneStep ==
  ASSUME QuotaInv, ex # NoOp, ex.st = "measured", ex' = [ex EXCEPT !.st = "done"],
         UNCHANGED <<fd, job, quota, torn, shared, loose, slack>>,
         dir' \in [Names -> Inodes \cup Links \cup {Missing, Dir}], size' \in [Inodes -> 0 .. MaxSize],
         \A i \in Linked(dir) : dir[ex.x] # i /\ dir[ex.y] # i => i \in Linked(dir') /\ size'[i] = size[i],
         Opens => /\ dir'[ex.x] \in Inodes
                  /\ IF ex.ino = Missing THEN \A f \in Fds : fd[f].ino # dir'[ex.x] ELSE ex.ino = dir'[ex.x],
         ~loose => EntriesOf(dir') = EntriesOf(dir) + ex.ae,
         ~shared /\ ~loose => BytesOf(dir', size') = BytesOf(dir, size) + ex.ab
  PROVE  QuotaInv'
  <1>0. /\ QuotaTypeOK /\ ex \in NameOps /\ ex.rb \in Int /\ ex.ab \in Int /\ ex.re \in Int /\ ex.ae \in Int
        /\ NamesAsMeasured /\ BytesOf(dir, size) \in Int /\ EntriesOf(dir) \in Int
        /\ ExOwesBytes = ex.rb /\ ExOwesEntries = ex.re
    BY AtHost
  <1>1. /\ ex' \in NameOps /\ ex' # NoOp /\ ex'.st = "done" /\ ex'.kind = ex.kind /\ ex'.x = ex.x
        /\ ex'.ino = ex.ino /\ ex'.ino2 = ex.ino2 /\ ex'.rb = ex.rb /\ ex'.re = ex.re
        /\ ex'.ab = ex.ab /\ ex'.ae = ex.ae
    BY <1>0 DEF NameOps, NoOp
  <1>2. QuotaTypeOK'
    BY <1>0, <1>1 DEF QuotaTypeOK
  <1>3. (Opens' <=> Opens) /\ ~Pending' /\ ~Stands'
    BY <1>1 DEF Opens, Pending, Stands
  <1>4. Naming'
    <2>1. ASSUME Opens PROVE OpenFits'
      <3>1. ex.rb = 0 /\ ex.ab = 0 /\ ex.re = ex.ae
        BY <1>0, <2>1 DEF NamesAsMeasured
      <3> QED BY <1>1, <2>1, <3>1 DEF OpenFits, IsFile, Opened
    <2>2. ASSUME ~Opens, ~shared, ~loose PROVE ex.rb - ex.ab >= 0
      BY <2>2, ExtraReserved
    <2> QED BY <1>1, <1>3, <2>1, <2>2 DEF Naming
  <1>5. ExOwesBytes' = ex.rb - ex.ab /\ ExOwesEntries' = ex.re - ex.ae
    BY <1>1, <1>3 DEF ExOwesBytes, ExOwesEntries
  <1>6. ~torn' /\ ~shared /\ ~loose => BytesOf(dir', size') + ExOwesBytes' = BytesOf(dir, size) + ExOwesBytes
    BY <1>0, <1>5
  <1>7. ~torn' /\ ~loose => EntriesOf(dir') + ExOwesEntries' = EntriesOf(dir) + ExOwesEntries
    BY <1>0, <1>5
  <1>8. ~shared => \A f \in Fds : job[f] # NoOp /\ fd[f].ino \in Inodes =>
                      /\ fd[f].ino \in Linked(dir') /\ size'[fd[f].ino] = size[fd[f].ino]
                      /\ fd[f].ino \notin {ex'.ino, ex'.ino2}
    <2> SUFFICES ASSUME ~shared, NEW f \in Fds, job[f] # NoOp, fd[f].ino \in Inodes
                 PROVE  /\ fd[f].ino \in Linked(dir') /\ size'[fd[f].ino] = size[fd[f].ino]
                        /\ fd[f].ino \notin {ex'.ino, ex'.ino2}
      OBVIOUS
    <2>1. fd[f].ino \in Linked(dir) /\ dir[ex.x] # fd[f].ino /\ dir[ex.y] # fd[f].ino
      BY AtHost
    <2>2. fd[f].ino \notin {ex.ino, ex.ino2}
      BY DEF QuotaInv, Apart
    <2> QED BY <1>1, <2>1, <2>2
  <1> QED BY <1>1, <1>2, <1>4, <1>6, <1>7, <1>8, AnsweredStep

\* A file is created: in the books, and nobody else's file changes.
LEMMA Created ==
  ASSUME QuotaTypeOK, NEW x \in Names, dir[x] = Missing, NEW n \in 0 .. MaxSize, Create(x, n)
  PROVE  \E i \in Inodes \ Linked(dir) :
           /\ dir' = [dir EXCEPT ![x] = i] /\ (\A f \in Fds : fd[f].ino # i) /\ dir'[x] = i
           /\ dir' \in [Names -> Inodes \cup Links \cup {Missing, Dir}] /\ size' \in [Inodes -> 0 .. MaxSize]
           /\ \A k \in Linked(dir) : k \in Linked(dir') /\ size'[k] = size[k]
           /\ EntriesOf(dir') = EntriesOf(dir) + 1
           /\ BytesOf(dir', size') = BytesOf(dir, size) + n
  <1>1. PICK i \in Inodes : Unused(i) /\ dir' = [dir EXCEPT ![x] = i] /\ size' = [size EXCEPT ![i] = n]
    BY DEF Create, New
  <1>2. i \notin Linked(dir) /\ \A f \in Fds : fd[f].ino # i
    BY <1>1, Walked DEF Unused, Opened
  <1>3. dir' \in [Names -> Inodes \cup Links \cup {Missing, Dir}] /\ size' \in [Inodes -> 0 .. MaxSize]
    BY <1>1 DEF QuotaTypeOK
  <1>4. dir'[x] = i /\ \A z \in Names : z # x => dir'[z] = dir[z]
    BY <1>1 DEF QuotaTypeOK
  <1>5. size'[i] = n /\ \A k \in Inodes : k # i => size'[k] = size[k]
    BY <1>1 DEF QuotaTypeOK
  <1>6. ASSUME NEW k \in Linked(dir) PROVE k \in Linked(dir') /\ size'[k] = size[k]
    <2>1. PICK z \in Names : dir[z] = k
      BY DEF Linked
    <2>2. k \in Inodes /\ z # x
      BY <2>1, QuotaParams DEF Linked
    <2> QED BY <1>2, <1>4, <1>5, <2>1, <2>2 DEF Linked
  <1>7. EntriesOf(dir') = EntriesOf(dir) + 1
    BY <1>1, EntryAdded DEF QuotaTypeOK
  <1>8. BytesOf(dir', size') = BytesOf(dir, size) + n
    <2>1. dir \in [Names -> Inodes \cup Links \cup {Missing, Dir}] /\ size \in [Inodes -> 0 .. MaxSize]
      BY DEF QuotaTypeOK
    <2>2. \A z \in Inodes : size'[z] \in Int /\ (z # i => size'[z] = size[z])
      BY <1>3, <1>5, QuotaParams
    <2>3. BytesOf(dir', size') = BytesOf(dir, size) + size'[i]
      BY <1>2, <1>4, <2>1, <2>2, FileAdded
    <2> QED BY <1>5, <2>3
  <1> QED BY <1>1, <1>2, <1>3, <1>4, <1>6, <1>7, <1>8

\* A file is resized through its name.
LEMMA ResizedByName ==
  ASSUME QuotaTypeOK, NEW x \in Names, dir[x] \in Inodes, NEW n \in 0 .. MaxSize, Resize(x, n)
  PROVE  /\ dir' = dir /\ size' \in [Inodes -> 0 .. MaxSize]
         /\ \A k \in Inodes : k # dir[x] => size'[k] = size[k]
         /\ BytesOf(dir', size') = BytesOf(dir, size) - size[dir[x]] + n
  <1> DEFINE i == dir[x]
  <1>1. dir' = dir /\ size' = [size EXCEPT ![i] = n]
    BY DEF Resize
  <1>2. size' \in [Inodes -> 0 .. MaxSize] /\ size'[i] = n /\ \A k \in Inodes : k # i => size'[k] = size[k]
    BY <1>1 DEF QuotaTypeOK
  <1>3. i \in Linked(dir) /\ size \in [Inodes -> 0 .. MaxSize]
    BY DEF Linked, QuotaTypeOK
  <1>4. \A z \in Inodes : size'[z] \in Int /\ (z # i => size'[z] = size[z])
    BY <1>2, QuotaParams
  <1>5. \A k \in Linked(dir) : \A t : (\A z \in Inodes : t[z] \in Int /\ (z # k => t[z] = size[z]))
           => BytesOf(dir, t) = BytesOf(dir, size) - size[k] + t[k]
    <2> HIDE DEF i
    <2> QED BY <1>3, Resized
  <1>6. BytesOf(dir, size') = BytesOf(dir, size) - size[i] + size'[i]
    <2> HIDE DEF i
    <2> QED BY <1>3, <1>4, <1>5
  <1> QED BY <1>1, <1>2, <1>6

\* What the host does, by the kind of operation.
LEMMA OpenDoneStep ==
  ASSUME QuotaInv, OnHostDone, Opens
  PROVE  QuotaInv'
  <1> DEFINE x == ex.x
  <1>0. /\ ex # NoOp /\ ex.st = "measured" /\ ex' = [ex EXCEPT !.st = "done"]
        /\ UNCHANGED <<fd, job, quota, torn, shared, loose, slack>>
    BY DEF OnHostDone, history
  <1>1. QuotaTypeOK /\ x \in Names /\ NamesAsMeasured /\ BytesOf(dir, size) \in Int /\ EntriesOf(dir) \in Int
    BY <1>0, AtHost
  <1>2. /\ ex.ino = InodeOf(x) /\ ex.ab = 0 /\ ex.y = x
        /\ ~loose => ex.ae = (IF dir[x] = Missing THEN 1 ELSE 0)
    BY <1>1 DEF NamesAsMeasured, NewEntry
  <1>3. CASE dir[x] = Missing
    <2>1. Create(x, 0) /\ ex.ino = Missing /\ (~loose => ex.ae = 1)
      BY <1>2, <1>3, QuotaParams DEF OnHostDone, Effect, Opens, Copies, InodeOf, IsFile
    <2>2. 0 \in 0 .. MaxSize
      BY QuotaParams
    <2>3. PICK i \in Inodes \ Linked(dir) :
           /\ dir' = [dir EXCEPT ![x] = i] /\ (\A f \in Fds : fd[f].ino # i) /\ dir'[x] = i
           /\ dir' \in [Names -> Inodes \cup Links \cup {Missing, Dir}] /\ size' \in [Inodes -> 0 .. MaxSize]
           /\ \A k \in Linked(dir) : k \in Linked(dir') /\ size'[k] = size[k]
           /\ EntriesOf(dir') = EntriesOf(dir) + 1
           /\ BytesOf(dir', size') = BytesOf(dir, size) + 0
      BY <1>1, <1>3, <2>1, <2>2, Created
    <2> QED BY <1>0, <1>2, <2>1, <2>3, DoneStep
  <1>4. CASE dir[x] # Missing
    <2>1. dir' = dir /\ size' = size /\ dir[x] \in Inodes
      BY <1>4 DEF OnHostDone, Effect, Possible, Opens, Copies, IsFile
    <2>2. ex.ino = dir[x] /\ ex.ino # Missing /\ (~loose => ex.ae = 0)
      BY <1>2, <1>4, <2>1, QuotaParams DEF InodeOf, IsFile
    <2>3. (~loose => EntriesOf(dir') = EntriesOf(dir) + ex.ae) /\ BytesOf(dir', size') = BytesOf(dir, size) + ex.ab
      BY <1>1, <1>2, <2>1, <2>2
    <2>4. dir' \in [Names -> Inodes \cup Links \cup {Missing, Dir}] /\ size' \in [Inodes -> 0 .. MaxSize]
      BY <1>1, <2>1 DEF QuotaTypeOK
    <2> QED BY <1>0, <2>1, <2>2, <2>3, <2>4, DoneStep
  <1> QED BY <1>3, <1>4

\* A copy done on the host has made the change it reserved.
LEMMA CopyDoneStep ==
  ASSUME QuotaInv, OnHostDone, Copies
  PROVE  QuotaInv'
  <1> DEFINE x == ex.x
             y == ex.y
             n == SizeAt(ex.x)
  <1>0. /\ ex # NoOp /\ ex.st = "measured" /\ ex' = [ex EXCEPT !.st = "done"] /\ ~Opens
        /\ UNCHANGED <<fd, job, quota, torn, shared, loose, slack>>
    BY DEF OnHostDone, history, Opens, Copies
  <1>1. /\ QuotaTypeOK /\ x \in Names /\ y \in Names /\ NamesAsMeasured /\ (~shared /\ ~loose => BytesAsMeasured)
        /\ BytesOf(dir, size) \in Int /\ EntriesOf(dir) \in Int
    BY <1>0, AtHost
  <1>2. n \in 0 .. MaxSize /\ n \in Nat
    BY <1>1, InodeOfType, QuotaParams
  <1>3. /\ ~loose => ex.ae = NewEntry(y) /\ (ex.kind = "copy" => dir[x] # dir[y])
        /\ ~shared /\ ~loose => ex.ab = n - SizeAt(y)
    BY <1>1 DEF NamesAsMeasured, BytesAsMeasured
  <1>4. CASE dir[y] = Missing
    <2>1. Create(y, n) /\ (~loose => ex.ae = 1)
      BY <1>0, <1>3, <1>4 DEF OnHostDone, Effect, Opens, Copies, NewEntry
    <2>2. SizeAt(y) = 0
      BY <1>4, QuotaParams DEF SizeAt, IsFile
    <2> HIDE DEF n
    <2>3. PICK i \in Inodes \ Linked(dir) :
           /\ dir' \in [Names -> Inodes \cup Links \cup {Missing, Dir}] /\ size' \in [Inodes -> 0 .. MaxSize]
           /\ \A k \in Linked(dir) : k \in Linked(dir') /\ size'[k] = size[k]
           /\ EntriesOf(dir') = EntriesOf(dir) + 1
           /\ BytesOf(dir', size') = BytesOf(dir, size) + n
      BY <1>1, <1>2, <1>4, <2>1, Created
    <2>4. ~shared /\ ~loose => BytesOf(dir', size') = BytesOf(dir, size) + ex.ab
      BY <1>2, <1>3, <2>2, <2>3
    <2> QED BY <1>0, <2>1, <2>3, <2>4, DoneStep
  <1>5. CASE dir[y] # Missing
    <2> DEFINE m == CopySize(x, y)
    <2>1. Resize(y, m) /\ dir[y] \in Inodes /\ (~loose => ex.ae = 0 /\ m = n) /\ m \in 0 .. MaxSize
      <3>1. Resize(y, m)
        BY <1>0, <1>5 DEF OnHostDone, Effect, Opens, Copies
      <3>2. IsFile(y) /\ ex.kind = "copy"
        BY <1>0, <1>5 DEF OnHostDone, Possible, Copies, Opens
      <3>3. m \in {0, n} /\ (dir[x] # dir[y] => m = n)
        BY DEF CopySize
      <3> QED BY <1>2, <1>3, <1>5, <3>1, <3>2, <3>3, QuotaParams DEF IsFile, NewEntry
    <2>2. SizeAt(y) = size[dir[y]] /\ SizeAt(y) \in Nat
      BY <1>1, <2>1, InodeOfType DEF SizeAt, IsFile
    <2> HIDE DEF n, m
    <2>3. /\ dir' = dir /\ size' \in [Inodes -> 0 .. MaxSize]
          /\ \A k \in Inodes : k # dir[y] => size'[k] = size[k]
          /\ BytesOf(dir', size') = BytesOf(dir, size) - size[dir[y]] + m
      BY <1>1, <2>1, ResizedByName
    <2>4. ~shared /\ ~loose => BytesOf(dir', size') = BytesOf(dir, size) + ex.ab
      BY <1>1, <1>2, <1>3, <2>1, <2>2, <2>3
    <2>5. ~loose => EntriesOf(dir') = EntriesOf(dir) + ex.ae
      BY <1>1, <2>1, <2>3
    <2>6. dir' \in [Names -> Inodes \cup Links \cup {Missing, Dir}]
      BY <1>1, <2>3 DEF QuotaTypeOK
    <2>7. \A i \in Linked(dir) : dir[ex.x] # i /\ dir[ex.y] # i => i \in Linked(dir') /\ size'[i] = size[i]
      BY <2>3 DEF Linked
    <2> QED BY <1>0, <2>3, <2>4, <2>5, <2>6, <2>7, DoneStep
  <1> QED BY <1>4, <1>5

\* A truncation done on the host has made the change it measured.
LEMMA TruncateDoneStep ==
  ASSUME QuotaInv, OnHostDone, ex.kind \in {"truncate0", "truncate1"}
  PROVE  QuotaInv'
  <1> DEFINE x == ex.x
             n == IF ex.kind = "truncate0" THEN 0 ELSE 1
  <1>0. /\ ex # NoOp /\ ex.st = "measured" /\ ex' = [ex EXCEPT !.st = "done"] /\ ~Opens /\ ~Copies
        /\ UNCHANGED <<fd, job, quota, torn, shared, loose, slack>>
    BY DEF OnHostDone, history, Opens, Copies
  <1>1. /\ QuotaTypeOK /\ x \in Names /\ NamesAsMeasured /\ (~shared /\ ~loose => BytesAsMeasured)
        /\ BytesOf(dir, size) \in Int /\ EntriesOf(dir) \in Int
    BY <1>0, AtHost
  <1>2. n \in 0 .. MaxSize /\ n \in Nat
    BY QuotaParams
  <1>3. ex.ae = 0 /\ (~shared /\ ~loose => ex.ab = n - SizeAt(x))
    BY <1>1 DEF NamesAsMeasured, BytesAsMeasured
  <1>4. Resize(x, n) /\ dir[x] \in Inodes
    <2>1. Resize(x, n)
      BY <1>0 DEF OnHostDone, Effect
    <2>2. IsFile(x)
      BY <1>0 DEF OnHostDone, Possible
    <2> QED BY <2>1, <2>2 DEF IsFile
  <1>5. SizeAt(x) = size[dir[x]] /\ SizeAt(x) \in Nat
    BY <1>1, <1>4, InodeOfType DEF SizeAt, IsFile
  <1> HIDE DEF n
  <1>6. /\ dir' = dir /\ size' \in [Inodes -> 0 .. MaxSize]
        /\ \A k \in Inodes : k # dir[x] => size'[k] = size[k]
        /\ BytesOf(dir', size') = BytesOf(dir, size) - size[dir[x]] + n
    BY <1>1, <1>2, <1>4, ResizedByName
  <1>7. ~shared /\ ~loose => BytesOf(dir', size') = BytesOf(dir, size) + ex.ab
    BY <1>1, <1>2, <1>3, <1>5, <1>6
  <1>8. EntriesOf(dir') = EntriesOf(dir) + ex.ae
    BY <1>1, <1>3, <1>6
  <1>9. dir' \in [Names -> Inodes \cup Links \cup {Missing, Dir}]
    BY <1>1, <1>6 DEF QuotaTypeOK
  <1>10. \A i \in Linked(dir) : dir[ex.x] # i /\ dir[ex.y] # i => i \in Linked(dir') /\ size'[i] = size[i]
    BY <1>6 DEF Linked
  <1> QED BY <1>0, <1>6, <1>7, <1>8, <1>9, <1>10, DoneStep

\* A directory or a symbolic link made on the host is one entry more.
LEMMA EntryDoneStep ==
  ASSUME QuotaInv, OnHostDone, ex.kind \in {"mkdir", "symlink"}
  PROVE  QuotaInv'
  <1> DEFINE x == ex.x
  <1>0. /\ ex # NoOp /\ ex.st = "measured" /\ ex' = [ex EXCEPT !.st = "done"] /\ ~Opens /\ ~Copies
        /\ UNCHANGED <<fd, job, quota, torn, shared, loose, slack>>
    BY DEF OnHostDone, history, Opens, Copies
  <1>1. /\ QuotaTypeOK /\ x \in Names /\ NamesAsMeasured
        /\ BytesOf(dir, size) \in Int /\ EntriesOf(dir) \in Int
    BY <1>0, AtHost
  <1>2. ex.ae = 1 /\ ex.ab = 0
    BY <1>1 DEF NamesAsMeasured
  <1>3. PICK v \in Links \cup {Dir} : dir[x] = Missing /\ dir' = [dir EXCEPT ![x] = v] /\ size' = size
    <2>1. dir[x] = Missing
      BY <1>0 DEF OnHostDone, Possible
    <2>2. CASE ex.kind = "mkdir"
      BY <1>0, <2>1, <2>2 DEF OnHostDone, Effect
    <2>3. CASE ex.kind = "symlink"
      <3>1. PICK z \in Names : dir' = [dir EXCEPT ![x] = SoftLink(z)] /\ UNCHANGED size
        BY <1>0, <2>3 DEF OnHostDone, Effect
      <3>2. SoftLink(z) \in Links
        BY DEF Links
      <3> QED BY <2>1, <3>1, <3>2
    <2> QED BY <2>2, <2>3
  <1>4. dir' \in [Names -> Inodes \cup Links \cup {Missing, Dir}] /\ size' \in [Inodes -> 0 .. MaxSize]
    BY <1>1, <1>3 DEF QuotaTypeOK
  <1>5. EntriesOf(dir') = EntriesOf(dir) + 1
    BY <1>1, <1>3, EntryAdded DEF QuotaTypeOK
  <1>6. BytesOf(dir', size') = BytesOf(dir, size)
    <2>1. dir \in [Names -> Inodes \cup Links \cup {Missing, Dir}]
      BY <1>1 DEF QuotaTypeOK
    <2>2. BytesOf([dir EXCEPT ![x] = v], size) = BytesOf(dir, size)
      BY <1>1, <1>3, <2>1, DirAdded
    <2> QED BY <1>3, <2>2
  <1>7. \A i \in Linked(dir) : i \in Linked(dir') /\ size'[i] = size[i]
    BY <1>1, <1>3, QuotaParams DEF Linked, QuotaTypeOK
  <1>8. BytesOf(dir', size') = BytesOf(dir, size) + ex.ab /\ EntriesOf(dir') = EntriesOf(dir) + ex.ae
    BY <1>1, <1>2, <1>5, <1>6
  <1> QED BY <1>0, <1>4, <1>7, <1>8, DoneStep

\* A link made on the host is one entry more and no bytes.
LEMMA LinkDoneStep ==
  ASSUME QuotaInv, OnHostDone, ex.kind = "link"
  PROVE  QuotaInv'
  <1> DEFINE x == ex.x
             y == ex.y
  <1>0. /\ ex # NoOp /\ ex.st = "measured" /\ ex' = [ex EXCEPT !.st = "done"] /\ ~Opens /\ ~Copies
        /\ UNCHANGED <<fd, job, quota, torn, shared, loose, slack>>
    BY DEF OnHostDone, history, Opens, Copies
  <1>1. /\ QuotaTypeOK /\ x \in Names /\ y \in Names /\ NamesAsMeasured
        /\ BytesOf(dir, size) \in Int /\ EntriesOf(dir) \in Int
    BY <1>0, AtHost
  <1>2. ex.ae = 1 /\ ex.ab = 0 /\ dir[x] \in Inodes
    BY <1>1 DEF NamesAsMeasured, IsFile
  <1>3. dir[y] = Missing /\ dir' = [dir EXCEPT ![y] = dir[x]] /\ size' = size
    BY <1>0 DEF OnHostDone, Possible, Effect
  <1>4. dir' \in [Names -> Inodes \cup Links \cup {Missing, Dir}] /\ size' \in [Inodes -> 0 .. MaxSize]
    BY <1>1, <1>2, <1>3 DEF QuotaTypeOK
  <1>5. EntriesOf(dir') = EntriesOf(dir) + 1
    BY <1>1, <1>2, <1>3, EntryAdded DEF QuotaTypeOK
  <1>6. BytesOf(dir', size') = BytesOf(dir, size)
    <2>1. y \in Names /\ dir[y] = Missing /\ dir'[y] \in Linked(dir)
          /\ \A z \in Names : z # y => dir'[z] = dir[z]
      BY <1>1, <1>2, <1>3 DEF QuotaTypeOK, Linked
    <2> HIDE DEF x, y
    <2>2. BytesOf(dir', size) = BytesOf(dir, size)
      BY ONLY <2>1, LinkAdded
    <2> QED BY <1>3, <2>2
  <1>7. \A i \in Linked(dir) : i \in Linked(dir') /\ size'[i] = size[i]
    BY <1>1, <1>3, QuotaParams DEF Linked, QuotaTypeOK
  <1>8. BytesOf(dir', size') = BytesOf(dir, size) + ex.ab /\ EntriesOf(dir') = EntriesOf(dir) + ex.ae
    BY <1>1, <1>2, <1>5, <1>6
  <1> QED BY <1>0, <1>4, <1>7, <1>8, DoneStep

\* The bytes a removal gives back, of names and sizes as they are.
LEMMA GoneIs ==
  ASSUME NEW x \in Names
  PROVE  BytesGone(x) = GoneFrom(dir, size, x)
  BY DEF BytesGone, GoneFrom, IsFile, Nlink, SizeAt

\* A removal on the host frees what was measured.
LEMMA UnlinkDoneStep ==
  ASSUME QuotaInv, OnHostDone, ex.kind = "unlink"
  PROVE  QuotaInv'
  <1> DEFINE x == ex.x
  <1>0. /\ ex # NoOp /\ ex.st = "measured" /\ ex' = [ex EXCEPT !.st = "done"] /\ ~Opens /\ ~Copies
        /\ UNCHANGED <<fd, job, quota, torn, shared, loose, slack>>
    BY DEF OnHostDone, history, Opens, Copies
  <1>1. /\ QuotaTypeOK /\ x \in Names /\ NamesAsMeasured /\ (~shared /\ ~loose => BytesAsMeasured)
        /\ BytesOf(dir, size) \in Int /\ EntriesOf(dir) \in Int
    BY <1>0, AtHost
  <1>2. ex.ae = -1 /\ (~shared /\ ~loose => ex.ab = -BytesGone(x)) /\ dir[x] # Missing /\ BytesGone(x) \in Nat
    BY <1>1, InodeOfType DEF NamesAsMeasured, BytesAsMeasured
  <1>3. dir' = [dir EXCEPT ![x] = Missing] /\ size' = size
    BY <1>0 DEF OnHostDone, Effect
  <1>4. dir' \in [Names -> Inodes \cup Links \cup {Missing, Dir}] /\ size' \in [Inodes -> 0 .. MaxSize]
    BY <1>1, <1>3 DEF QuotaTypeOK
  <1>5. BytesOf(dir', size') = BytesOf(dir, size) - GoneFrom(dir, size, x) /\ EntriesOf(dir') = EntriesOf(dir) - 1
    <2>1. dir \in [Names -> Inodes \cup Links \cup {Missing, Dir}] /\ size \in [Inodes -> 0 .. MaxSize]
      BY <1>1 DEF QuotaTypeOK
    <2> QED BY <1>1, <1>2, <1>3, <2>1, Removed
  <1>6. \A i \in Linked(dir) : dir[ex.x] # i /\ dir[ex.y] # i => i \in Linked(dir') /\ size'[i] = size[i]
    BY <1>1, <1>3, QuotaParams DEF Linked, QuotaTypeOK
  <1>7. EntriesOf(dir') = EntriesOf(dir) + ex.ae
    BY <1>1, <1>2, <1>5
  <1>8. ~shared /\ ~loose => BytesOf(dir', size') = BytesOf(dir, size) + ex.ab
    BY <1>1, <1>2, <1>5, GoneIs
  <1> QED BY <1>0, <1>4, <1>6, <1>7, <1>8, DoneStep

\* A subtree removed on the host frees what was measured, name by name.
LEMMA RmTreeDoneStep ==
  ASSUME QuotaInv, OnHostDone, ex.kind = "rmtree"
  PROVE  QuotaInv'
  <1> DEFINE x == ex.x
             y == ex.y
             r == [dir EXCEPT ![y] = Missing]
  <1>0. /\ ex # NoOp /\ ex.st = "measured" /\ ex' = [ex EXCEPT !.st = "done"] /\ ~Opens /\ ~Copies
        /\ UNCHANGED <<fd, job, quota, torn, shared, loose, slack>>
    BY DEF OnHostDone, history, Opens, Copies
  <1>1. /\ QuotaTypeOK /\ x \in Names /\ y \in Names /\ NamesAsMeasured /\ (~shared /\ ~loose => BytesAsMeasured)
        /\ BytesOf(dir, size) \in Int /\ EntriesOf(dir) \in Int
    BY <1>0, AtHost
  <1>2. /\ ex.ae = -2 /\ (~shared /\ ~loose => ex.ab = -BytesGone(y)) /\ x # y
        /\ dir[x] = Dir /\ dir[y] # Missing /\ BytesGone(y) \in Nat
    BY <1>1, InodeOfType DEF NamesAsMeasured, BytesAsMeasured
  <1>a. dir \in [Names -> Inodes \cup Links \cup {Missing, Dir}] /\ size \in [Inodes -> 0 .. MaxSize]
    BY <1>1 DEF QuotaTypeOK
  <1>3. dir' = [dir EXCEPT ![x] = Missing, ![y] = Missing] /\ size' = size
    BY <1>0 DEF OnHostDone, Effect
  <1>4. /\ r \in [Names -> Inodes \cup Links \cup {Missing, Dir}] /\ r[x] = Dir
        /\ dir' = [r EXCEPT ![x] = Missing]
    BY <1>1, <1>2, <1>3, <1>a
  <1>5. BytesOf(r, size) = BytesOf(dir, size) - GoneFrom(dir, size, y) /\ EntriesOf(r) = EntriesOf(dir) - 1
    BY <1>1, <1>2, <1>a, Removed
  <1>6. BytesOf(dir', size) = BytesOf(r, size) - 0 /\ EntriesOf(dir') = EntriesOf(r) - 1
    <2> HIDE DEF r, x, y
    <2>1. GoneFrom(r, size, x) = 0 /\ r[x] # Missing
      BY <1>4, QuotaParams DEF GoneFrom
    <2> QED BY <1>1, <1>4, <1>a, <2>1, Removed
  <1> HIDE DEF r
  <1>7. BytesOf(dir', size') = BytesOf(dir, size) - BytesGone(y) /\ EntriesOf(dir') = EntriesOf(dir) - 2
    <2>1. GoneFrom(dir, size, y) = BytesGone(y)
      BY <1>1, GoneIs
    <2> QED BY <1>1, <1>2, <1>3, <1>5, <1>6, <2>1
  <1>8. dir' \in [Names -> Inodes \cup Links \cup {Missing, Dir}] /\ size' \in [Inodes -> 0 .. MaxSize]
    BY <1>3, <1>a
  <1>9. \A i \in Linked(dir) : dir[ex.x] # i /\ dir[ex.y] # i => i \in Linked(dir') /\ size'[i] = size[i]
    BY <1>3, <1>a DEF Linked
  <1>10. EntriesOf(dir') = EntriesOf(dir) + ex.ae /\ (~shared /\ ~loose => BytesOf(dir', size') = BytesOf(dir, size) + ex.ab)
    BY <1>1, <1>2, <1>7
  <1> QED BY <1>0, <1>8, <1>9, <1>10, DoneStep

\* A rename on the host frees what was measured, nothing between two names of one file.
LEMMA RenameDoneStep ==
  ASSUME QuotaInv, OnHostDone, ex.kind = "rename"
  PROVE  QuotaInv'
  <1> DEFINE x == ex.x
             y == ex.y
  <1>0. /\ ex # NoOp /\ ex.st = "measured" /\ ex' = [ex EXCEPT !.st = "done"] /\ ~Opens /\ ~Copies
        /\ UNCHANGED <<fd, job, quota, torn, shared, loose, slack>>
    BY DEF OnHostDone, history, Opens, Copies
  <1>1. /\ QuotaTypeOK /\ x \in Names /\ y \in Names /\ NamesAsMeasured /\ (~shared /\ ~loose => BytesAsMeasured)
        /\ BytesOf(dir, size) \in Int /\ EntriesOf(dir) \in Int
    BY <1>0, AtHost
  <1>2. /\ ex.ae = (IF Replaces THEN -1 ELSE 0) /\ (~shared /\ ~loose => ex.ab = (IF Replaces THEN -BytesGone(y) ELSE 0))
        /\ x # y /\ dir[x] # Missing /\ BytesGone(y) \in Nat
    BY <1>1, InodeOfType DEF NamesAsMeasured, BytesAsMeasured
  <1>a. dir \in [Names -> Inodes \cup Links \cup {Missing, Dir}] /\ size \in [Inodes -> 0 .. MaxSize]
    BY <1>1 DEF QuotaTypeOK
  <1>3. CASE IsFile(x) /\ dir[x] = dir[y]
    <2>1. dir' = dir /\ size' = size /\ ~Replaces
      BY <1>0, <1>3 DEF OnHostDone, Effect, Replaces
    <2>2. EntriesOf(dir') = EntriesOf(dir) + ex.ae /\ (~shared /\ ~loose => BytesOf(dir', size') = BytesOf(dir, size) + ex.ab)
      BY <1>1, <1>2, <2>1
    <2> QED BY <1>0, <1>a, <2>1, <2>2, DoneStep
  <1>4. CASE ~(IsFile(x) /\ dir[x] = dir[y])
    <2>1. dir' = [dir EXCEPT ![x] = Missing, ![y] = dir[x]] /\ size' = size /\ (Replaces <=> dir[y] # Missing)
      BY <1>0, <1>4 DEF OnHostDone, Effect, Replaces
    <2>2. dir'[x] = Missing /\ dir'[y] = dir[x] /\ \A z \in Names : z \notin {x, y} => dir'[z] = dir[z]
      BY <1>1, <1>2, <1>a, <2>1
    <2>3. dir' \in [Names -> Inodes \cup Links \cup {Missing, Dir}] /\ size' \in [Inodes -> 0 .. MaxSize]
      BY <1>1, <1>a, <2>1
    <2>4. \A i \in Linked(dir) : dir[ex.x] # i /\ dir[ex.y] # i => i \in Linked(dir') /\ size'[i] = size[i]
      BY <2>1, <2>2 DEF Linked
    <2>5. CASE dir[y] = Missing
      <3>1. BytesOf(dir', size) = BytesOf(dir, size) /\ EntriesOf(dir') = EntriesOf(dir)
        BY <1>1, <1>2, <1>a, <2>2, <2>5, Moved
      <3>2. EntriesOf(dir') = EntriesOf(dir) + ex.ae /\ (~shared /\ ~loose => BytesOf(dir', size') = BytesOf(dir, size) + ex.ab)
        BY <1>1, <1>2, <2>1, <2>5, <3>1
      <3> QED BY <1>0, <2>3, <2>4, <3>2, DoneStep
    <2>6. CASE dir[y] # Missing
      <3>1. BytesOf(dir', size) = BytesOf(dir, size) - GoneFrom(dir, size, y) /\ EntriesOf(dir') = EntriesOf(dir) - 1
        BY <1>1, <1>2, <1>a, <2>1, <2>6, MovedOver
      <3>2. BytesGone(y) = GoneFrom(dir, size, y)
        BY <1>1, GoneIs
      <3>3. EntriesOf(dir') = EntriesOf(dir) + ex.ae /\ (~shared /\ ~loose => BytesOf(dir', size') = BytesOf(dir, size) + ex.ab)
        BY <1>1, <1>2, <2>1, <2>6, <3>1, <3>2
      <3> QED BY <1>0, <2>3, <2>4, <3>3, DoneStep
    <2> QED BY <2>5, <2>6
  <1> QED BY <1>3, <1>4

\* Whatever the exclusive operation is, it changes the host by what it will settle with.
LEMMA OnHostDoneStep ==
  ASSUME QuotaInv, OnHostDone
  PROVE  QuotaInv'
  <1>1. ex \in NameOps
    BY DEF OnHostDone, QuotaInv, QuotaTypeOK
  <1>2. ex.kind \in NameKinds
    BY <1>1 DEF NameOps
  <1> QED BY <1>2, OpenDoneStep, CopyDoneStep, TruncateDoneStep, EntryDoneStep, LinkDoneStep, UnlinkDoneStep,
             RmTreeDoneStep, RenameDoneStep DEF NameKinds, Opens, Copies

\* A copy that fails half-way is only followed in its types: the history has it.
LEMMA CopyTearsStep ==
  ASSUME QuotaInv, CopyTears
  PROVE  QuotaInv'
  <1> DEFINE y == ex.y
  <1>0. /\ ex # NoOp /\ ex.st = "measured" /\ ex' = [ex EXCEPT !.st = "failed"] /\ Copies /\ Possible
        /\ UNCHANGED <<fd, job, quota, shared, loose, slack>> /\ torn' = TRUE
    BY DEF CopyTears, Torn
  <1>1. QuotaTypeOK /\ ex \in NameOps /\ y \in Names
    BY <1>0, AtHost
  <1>2. /\ ex' \in NameOps /\ ex' # NoOp /\ ex'.st = "failed" /\ ex'.kind = ex.kind
        /\ ex'.ino = ex.ino /\ ex'.ino2 = ex.ino2
    BY <1>0, <1>1 DEF NameOps, NoOp
  <1>z. 0 \in 0 .. MaxSize
    BY QuotaParams
  <1>3. /\ dir' \in [Names -> Inodes \cup Links \cup {Missing, Dir}] /\ size' \in [Inodes -> 0 .. MaxSize]
        /\ \A i \in Linked(dir) : dir[y] # i => i \in Linked(dir') /\ size'[i] = size[i]
    <2>1. CASE dir[y] = Missing
      <3>1. Create(y, 0)
        BY <2>1 DEF CopyTears
      <3>2. /\ dir' \in [Names -> Inodes \cup Links \cup {Missing, Dir}] /\ size' \in [Inodes -> 0 .. MaxSize]
            /\ \A k \in Linked(dir) : k \in Linked(dir') /\ size'[k] = size[k]
        BY <1>1, <1>z, <2>1, <3>1, Created
      <3> QED BY <3>2
    <2>2. CASE dir[y] # Missing
      <3>1. Resize(y, 0)
        BY <2>2 DEF CopyTears
      <3>2. dir[y] \in Inodes
        BY <1>0, <2>2 DEF Possible, Opens, Copies, IsFile
      <3>3. /\ dir' = dir /\ size' \in [Inodes -> 0 .. MaxSize]
            /\ \A k \in Inodes : k # dir[y] => size'[k] = size[k]
        BY <1>1, <1>z, <3>1, <3>2, ResizedByName
      <3>4. dir' \in [Names -> Inodes \cup Links \cup {Missing, Dir}]
        BY <1>1, <3>3 DEF QuotaTypeOK
      <3> QED BY <3>3, <3>4 DEF Linked
    <2> QED BY <2>1, <2>2
  <1>4. QuotaTypeOK'
    BY <1>0, <1>1, <1>2, <1>3 DEF QuotaTypeOK
  <1>5. Naming'
    BY <1>0, <1>2 DEF Naming, Stands, Pending, Opens, Copies
  <1>6. ~shared => \A f \in Fds : job[f] # NoOp /\ fd[f].ino \in Inodes =>
                      /\ fd[f].ino \in Linked(dir') /\ size'[fd[f].ino] = size[fd[f].ino]
                      /\ fd[f].ino \notin {ex'.ino, ex'.ino2}
    <2> SUFFICES ASSUME ~shared, NEW f \in Fds, job[f] # NoOp, fd[f].ino \in Inodes
                 PROVE  /\ fd[f].ino \in Linked(dir') /\ size'[fd[f].ino] = size[fd[f].ino]
                        /\ fd[f].ino \notin {ex'.ino, ex'.ino2}
      OBVIOUS
    <2>1. fd[f].ino \in Linked(dir) /\ dir[y] # fd[f].ino
      BY <1>0, AtHost
    <2>2. fd[f].ino \notin {ex.ino, ex.ino2}
      BY <1>0 DEF QuotaInv, Apart
    <2> QED BY <1>2, <1>3, <2>1, <2>2
  <1> QED BY <1>0, <1>2, <1>4, <1>5, <1>6, AnsweredStep

\* An rm that fails half-way likewise.
LEMMA RmTearsStep ==
  ASSUME QuotaInv, RmTears
  PROVE  QuotaInv'
  <1> DEFINE y == ex.y
  <1>0. /\ ex # NoOp /\ ex.st = "measured" /\ ex' = [ex EXCEPT !.st = "failed"] /\ ex.kind = "rmtree"
        /\ UNCHANGED <<fd, job, quota, shared, loose, slack>> /\ torn' = TRUE
        /\ dir' = [dir EXCEPT ![y] = Missing] /\ size' = size
    BY DEF RmTears, Torn
  <1>1. QuotaTypeOK /\ ex \in NameOps /\ y \in Names
    BY <1>0, AtHost
  <1>2. /\ ex' \in NameOps /\ ex' # NoOp /\ ex'.st = "failed" /\ ex'.kind = ex.kind
        /\ ex'.ino = ex.ino /\ ex'.ino2 = ex.ino2
    BY <1>0, <1>1 DEF NameOps, NoOp
  <1>3. /\ dir' \in [Names -> Inodes \cup Links \cup {Missing, Dir}] /\ size' \in [Inodes -> 0 .. MaxSize]
        /\ \A i \in Linked(dir) : dir[y] # i => i \in Linked(dir') /\ size'[i] = size[i]
    BY <1>0, <1>1 DEF QuotaTypeOK, Linked
  <1>4. QuotaTypeOK'
    BY <1>0, <1>1, <1>2, <1>3 DEF QuotaTypeOK
  <1>5. Naming'
    BY <1>0, <1>2 DEF Naming, Stands, Pending, Opens, Copies
  <1>6. ~shared => \A f \in Fds : job[f] # NoOp /\ fd[f].ino \in Inodes =>
                      /\ fd[f].ino \in Linked(dir') /\ size'[fd[f].ino] = size[fd[f].ino]
                      /\ fd[f].ino \notin {ex'.ino, ex'.ino2}
    <2> SUFFICES ASSUME ~shared, NEW f \in Fds, job[f] # NoOp, fd[f].ino \in Inodes
                 PROVE  /\ fd[f].ino \in Linked(dir') /\ size'[fd[f].ino] = size[fd[f].ino]
                        /\ fd[f].ino \notin {ex'.ino, ex'.ino2}
      OBVIOUS
    <2>1. fd[f].ino \in Linked(dir) /\ dir[y] # fd[f].ino
      BY <1>0, AtHost
    <2>2. fd[f].ino \notin {ex.ino, ex.ino2}
      BY <1>0 DEF QuotaInv, Apart
    <2> QED BY <1>2, <1>3, <2>1, <2>2
  <1> QED BY <1>0, <1>2, <1>4, <1>5, <1>6, AnsweredStep

\* The operation on names is over, and its books are closed.
LEMMA ClosedStep ==
  ASSUME QuotaInv, ex # NoOp, ex' = NoOp, UNCHANGED <<dir, size, job, torn, shared, loose, slack>>,
         fd' \in [Fds -> [ino : Inodes \cup {Missing}, pos : Nat, append : BOOLEAN]],
         \A f \in Fds : job[f] # NoOp => fd'[f] = fd[f],
         quota' \in [bytes : Int, entries : Nat],
         ~torn /\ ~loose => quota'.entries = quota.entries - ExOwesEntries,
         ~torn /\ ~shared /\ ~loose /\ quota.bytes - ExOwesBytes >= 0 => quota'.bytes = quota.bytes - ExOwesBytes
  PROVE  QuotaInv'
  <1>1. QuotaTypeOK'
    BY DEF QuotaInv, QuotaTypeOK
  <1>2. Jobs' /\ Apart' /\ Naming'
    BY DEF QuotaInv, Jobs, Apart, Naming
  <1>3. ExOwesBytes' = 0 /\ ExOwesEntries' = 0
    BY DEF ExOwesBytes, ExOwesEntries
  <1>4. OwedNow' = OwedNow /\ OwedNow \in Nat
    <2>1. \A g \in Fds : JobOwes(job[g]) \in Nat
      BY JobOwesNat DEF QuotaInv, QuotaTypeOK, Jobs
    <2> QED BY <2>1, OwedNat DEF OwedNow
  <1>5. BytesKept'
    <2> SUFFICES ASSUME ~torn, ~shared, ~loose PROVE quota'.bytes = BytesOf(dir, size) + 0 + OwedNow
      BY <1>3, <1>4 DEF BytesKept
    <2>1. quota.bytes = BytesOf(dir, size) + ExOwesBytes + OwedNow
      BY DEF QuotaInv, BytesKept
    <2>2. ExOwesBytes \in Int
      BY ExOwesFits DEF QuotaInv
    <2>3. BytesOf(dir, size) \in Nat
      BY BytesFit DEF QuotaInv, QuotaTypeOK
    <2>4. quota.bytes - ExOwesBytes = BytesOf(dir, size) + OwedNow /\ quota.bytes - ExOwesBytes >= 0
      BY <1>4, <2>1, <2>2, <2>3
    <2> QED BY <1>4, <2>3, <2>4
  <1>6. EntriesKept'
    <2> SUFFICES ASSUME ~torn, ~loose PROVE quota'.entries = EntriesOf(dir) + 0
      BY <1>3 DEF EntriesKept
    <2>1. quota.entries = EntriesOf(dir) + ExOwesEntries
      BY DEF QuotaInv, EntriesKept
    <2>2. ExOwesEntries \in Int
      BY DEF QuotaInv, QuotaTypeOK, ExOwesEntries, NameOps
    <2>3. EntriesOf(dir) \in Nat
      BY EntriesFit
    <2> QED BY <2>1, <2>2, <2>3
  <1> QED BY <1>1, <1>2, <1>5, <1>6 DEF QuotaInv

\* Settling keeps the quota's types, and is exact unless it would go below zero.
LEMMA SettleFacts ==
  ASSUME QuotaTypeOK, NEW rb \in Int, NEW re \in Int, NEW ab \in Int, NEW ae \in Int, Settle(rb, re, ab, ae)
  PROVE  /\ quota' \in [bytes : Int, entries : Nat]
         /\ quota'.bytes = Over0(quota.bytes - rb + ab) /\ quota'.entries = Over0(quota.entries - re + ae)
  <1>1. quota.bytes - rb + ab \in Int /\ quota.entries - re + ae \in Int
    BY DEF QuotaTypeOK
  <1> DEFINE b == quota.bytes - rb + ab
             n == quota.entries - re + ae
  <1>2. quota' = [bytes |-> Max({0, b}), entries |-> Max({0, n})]
    BY DEF Settle
  <1> HIDE DEF b, n
  <1>3. Max({0, b}) = Over0(b) /\ Over0(b) \in Nat
    BY <1>1, OverZero DEF b
  <1>4. Max({0, n}) = Over0(n) /\ Over0(n) \in Nat
    BY <1>1, OverZero DEF n
  <1> QED BY <1>2, <1>3, <1>4 DEF b, n

\* counted: the exclusive operation settles, with nothing if it failed.
LEMMA SettlesStep ==
  ASSUME QuotaInv, Settles
  PROVE  QuotaInv'
  <1>0. ex # NoOp /\ ~Opens /\ ex.st \in {"done", "failed"} /\ ex' = NoOp /\ UNCHANGED <<dir, size, fd, job, torn, shared, loose, slack>>
    BY DEF Settles, history
  <1>1. QuotaTypeOK /\ ex \in NameOps /\ ex.rb \in Int /\ ex.re \in Int /\ ex.ab \in Int /\ ex.ae \in Int
    BY <1>0 DEF QuotaInv, QuotaTypeOK, NameOps
  <1>2. quota.entries \in Nat /\ quota.bytes \in Int
    BY <1>1 DEF QuotaTypeOK
  <1>3. fd' \in [Fds -> [ino : Inodes \cup {Missing}, pos : Nat, append : BOOLEAN]]
    BY <1>0, <1>1 DEF QuotaTypeOK
  <1>4. ~torn /\ ~loose => quota.entries - ExOwesEntries = EntriesOf(dir) /\ EntriesOf(dir) \in Nat
    <2>1. EntriesOf(dir) \in Nat
      BY EntriesFit
    <2>2. ExOwesEntries \in Int
      BY <1>0, <1>1 DEF ExOwesEntries
    <2> QED BY <2>1, <2>2 DEF QuotaInv, EntriesKept
  <1>5. CASE ex.st = "done"
    <2>1. Settle(ex.rb, ex.re, ex.ab, ex.ae)
      BY <1>5 DEF Settles
    <2>2. /\ quota' \in [bytes : Int, entries : Nat]
          /\ quota'.bytes = Over0(quota.bytes - ex.rb + ex.ab) /\ quota'.entries = Over0(quota.entries - ex.re + ex.ae)
      BY <1>1, <2>1, SettleFacts
    <2>3. ExOwesBytes = ex.rb - ex.ab /\ ExOwesEntries = ex.re - ex.ae
      BY <1>0, <1>5 DEF ExOwesBytes, ExOwesEntries, Pending
    <2>4. ~torn /\ ~loose => quota'.entries = quota.entries - ExOwesEntries
      BY <1>1, <1>2, <1>4, <2>2, <2>3 DEF Over0
    <2>5. quota.bytes - ExOwesBytes >= 0 => quota'.bytes = quota.bytes - ExOwesBytes
      BY <1>1, <1>2, <2>2, <2>3 DEF Over0
    <2> QED BY <1>0, <1>3, <2>2, <2>4, <2>5, ClosedStep
  <1>6. CASE ex.st = "failed"
    <2>1. Settle(ex.rb, ex.re, 0, 0)
      BY <1>6 DEF Settles
    <2>2. /\ quota' \in [bytes : Int, entries : Nat]
          /\ quota'.bytes = Over0(quota.bytes - ex.rb + 0) /\ quota'.entries = Over0(quota.entries - ex.re + 0)
      BY <1>1, <2>1, SettleFacts
    <2>3. ExOwesBytes = ex.rb /\ ExOwesEntries = ex.re
      BY <1>0, <1>6 DEF ExOwesBytes, ExOwesEntries, Pending
    <2>4. ~torn /\ ~loose => quota'.entries = quota.entries - ExOwesEntries
      BY <1>1, <1>2, <1>4, <2>2, <2>3 DEF Over0
    <2>5. quota.bytes - ExOwesBytes >= 0 => quota'.bytes = quota.bytes - ExOwesBytes
      BY <1>1, <1>2, <2>2, <2>3 DEF Over0
    <2> QED BY <1>0, <1>3, <2>2, <2>4, <2>5, ClosedStep
  <1> QED BY <1>0, <1>5, <1>6

\* A failed open gives its entry back.
LEMMA OpenFailsStep ==
  ASSUME QuotaInv, OpenFails
  PROVE  QuotaInv'
  <1>0. ex # NoOp /\ Opens /\ ex.st = "failed" /\ ex' = NoOp /\ UNCHANGED <<dir, size, fd, job, torn, shared, loose, slack>>
        /\ Settle(0, ex.re, 0, 0)
    BY DEF OpenFails, history
  <1>1. QuotaTypeOK /\ ex.re \in Int
    BY <1>0 DEF QuotaInv, QuotaTypeOK, NameOps
  <1>2. quota.entries \in Nat /\ quota.bytes \in Int
    BY <1>1 DEF QuotaTypeOK
  <1>3. fd' \in [Fds -> [ino : Inodes \cup {Missing}, pos : Nat, append : BOOLEAN]]
    BY <1>0, <1>1 DEF QuotaTypeOK
  <1>4. /\ quota' \in [bytes : Int, entries : Nat]
        /\ quota'.bytes = Over0(quota.bytes - 0 + 0) /\ quota'.entries = Over0(quota.entries - ex.re + 0)
    BY <1>0, <1>1, SettleFacts
  <1>5. ExOwesEntries = ex.re /\ ExOwesBytes = ex.rb
    BY <1>0 DEF ExOwesEntries, ExOwesBytes, Pending
  <1>6. ~torn => ex.rb = 0
    BY <1>0 DEF QuotaInv, Naming, Stands, NamesAsMeasured
  <1>7. ~torn /\ ~loose => quota'.entries = quota.entries - ExOwesEntries
    <2>1. ~torn /\ ~loose => quota.entries = EntriesOf(dir) + ex.re
      BY <1>5 DEF QuotaInv, EntriesKept
    <2>2. EntriesOf(dir) \in Nat
      BY EntriesFit
    <2> QED BY <1>1, <1>2, <1>4, <1>5, <2>1, <2>2 DEF Over0
  <1>8. ~torn /\ ~shared /\ ~loose /\ quota.bytes - ExOwesBytes >= 0 => quota'.bytes = quota.bytes - ExOwesBytes
    BY <1>2, <1>4, <1>5, <1>6 DEF Over0
  <1> QED BY <1>0, <1>3, <1>4, <1>7, <1>8, ClosedStep

\* open with truncation measures the file it got.
LEMMA OpenMeasuresStep ==
  ASSUME QuotaInv, OpenMeasures
  PROVE  QuotaInv'
  <1>0. /\ ex # NoOp /\ ex.kind = "opentrunc" /\ ex.st = "done" /\ UNCHANGED <<dir, size, fd, job, quota, torn, shared, loose, slack>>
        /\ ex' = [ex EXCEPT !.st = "sized", !.ab = -SizeAt(ex.x), !.ino = dir[ex.x]]
    BY DEF OpenMeasures, history
  <1>1. QuotaTypeOK /\ ex \in NameOps /\ ex.x \in Names /\ Opens /\ ~Pending /\ OpenFits
    BY <1>0 DEF QuotaInv, QuotaTypeOK, NameOps, Naming, Opens, Pending
  <1>2. dir[ex.x] \in Inodes /\ SizeAt(ex.x) = size[dir[ex.x]] /\ SizeAt(ex.x) \in Nat /\ ex.ab = 0 /\ ex.rb = 0
        /\ ex.re = ex.ae
    BY <1>0, <1>1, InodeOfType DEF OpenFits, IsFile, SizeAt
  <1>3. /\ ex' \in NameOps /\ ex' # NoOp /\ ex'.st = "sized" /\ ex'.kind = "opentrunc" /\ ex'.x = ex.x
        /\ ex'.ino = dir[ex.x] /\ ex'.ino2 = ex.ino2 /\ ex'.rb = 0 /\ ex'.re = ex.re
        /\ ex'.ab = -SizeAt(ex.x) /\ ex'.ae = ex.ae
    <2>1. -SizeAt(ex.x) \in Int
      BY <1>2
    <2> QED BY <1>0, <1>1, <1>2, <2>1 DEF NameOps, NoOp
  <1>4. QuotaTypeOK'
    BY <1>0, <1>1, <1>3 DEF QuotaTypeOK
  <1>5. ~Stands' /\ Opens' /\ ~Pending'
    BY <1>3 DEF Stands, Opens, Pending
  <1>6. OpenFits'
    <2>1. dir[ex.x] # Missing /\ -SizeAt(ex.x) <= 0
      BY <1>2, QuotaParams
    <2> QED BY <1>0, <1>2, <1>3, <2>1 DEF OpenFits, IsFile
  <1>7. Naming'
    <2>1. ex'.ab = -size'[ex'.ino]
      BY <1>0, <1>2, <1>3
    <2> QED BY <1>3, <1>5, <1>6, <2>1 DEF Naming
  <1>8. ExOwesBytes' = 0 /\ ExOwesBytes = 0 /\ ExOwesEntries' = ExOwesEntries
    BY <1>0, <1>1, <1>2, <1>3, <1>5 DEF ExOwesBytes, ExOwesEntries
  <1>9. ~shared => \A f \in Fds : job[f] # NoOp /\ fd[f].ino \in Inodes =>
                      /\ fd[f].ino \in Linked(dir') /\ size'[fd[f].ino] = size[fd[f].ino]
                      /\ fd[f].ino \notin {ex'.ino, ex'.ino2}
    <2> SUFFICES ASSUME ~shared, NEW f \in Fds, job[f] # NoOp
                 PROVE  fd[f].ino \in Linked(dir) /\ fd[f].ino \notin {dir[ex.x], ex.ino2}
      BY <1>0, <1>3
    <2>1. fd[f].ino \in Linked(dir) /\ fd[f].ino \notin {ex.ino, ex.ino2}
      BY <1>0 DEF QuotaInv, Apart
    <2>2. fd[f].ino # dir[ex.x]
      BY <1>1, <2>1 DEF OpenFits, Opened
    <2> QED BY <2>1, <2>2
  <1>10. BytesOf(dir', size') + ExOwesBytes' = BytesOf(dir, size) + ExOwesBytes
         /\ EntriesOf(dir') + ExOwesEntries' = EntriesOf(dir) + ExOwesEntries
    BY <1>0, <1>8
  <1> QED BY <1>0, <1>3, <1>4, <1>7, <1>9, <1>10, AnsweredStep

\* open with truncation empties the file it measured.
LEMMA OpenEmptiesStep ==
  ASSUME QuotaInv, OpenEmpties
  PROVE  QuotaInv'
  <1> DEFINE i == ex.ino
  <1>0. /\ ex # NoOp /\ ex.st = "sized" /\ UNCHANGED <<dir, fd, job, quota, torn, shared, loose, slack>>
        /\ ex' = [ex EXCEPT !.st = "emptied"] /\ size' = [size EXCEPT ![i] = 0]
    BY DEF OpenEmpties, history
  <1>1. QuotaTypeOK /\ ex \in NameOps /\ ex.x \in Names /\ Opens /\ ~Pending /\ OpenFits
    BY <1>0 DEF QuotaInv, QuotaTypeOK, NameOps, Naming, Opens, Pending
  <1>2. dir[ex.x] \in Inodes /\ i = dir[ex.x] /\ i # Missing /\ ex.rb = 0 /\ ex.re = ex.ae /\ i \in Linked(dir) /\ ex.ab \in Int
    BY <1>0, <1>1 DEF OpenFits, IsFile, Linked, NameOps
  <1>3. /\ ex' \in NameOps /\ ex' # NoOp /\ ex'.st = "emptied" /\ ex'.kind = "opentrunc" /\ ex'.x = ex.x
        /\ ex'.ino = i /\ ex'.ino2 = ex.ino2 /\ ex'.rb = 0 /\ ex'.re = ex.re
        /\ ex'.ab = ex.ab /\ ex'.ae = ex.ae
    <2>1. ex.kind = "opentrunc"
      BY <1>0 DEF QuotaInv, Naming
    <2> QED BY <1>0, <1>1, <1>2, <2>1 DEF NameOps, NoOp
  <1>4. size' \in [Inodes -> 0 .. MaxSize] /\ size'[i] = 0 /\ \A k \in Inodes : k # i => size'[k] = size[k]
    BY <1>0, <1>1, <1>2, QuotaParams DEF QuotaTypeOK
  <1>5. QuotaTypeOK'
    BY <1>0, <1>1, <1>3, <1>4 DEF QuotaTypeOK
  <1>6. ~Stands' /\ Opens' /\ ~Pending'
    BY <1>3 DEF Stands, Opens, Pending
  <1>7. OpenFits'
    BY <1>0, <1>1, <1>2, <1>3 DEF OpenFits, IsFile
  <1>8. Naming'
    BY <1>3, <1>6, <1>7 DEF Naming
  <1>9. ExOwesBytes = 0 /\ ExOwesBytes' = 0 - ex.ab /\ ExOwesEntries' = ExOwesEntries
    BY <1>0, <1>1, <1>3, <1>6 DEF ExOwesBytes, ExOwesEntries
  <1>10. ASSUME ~shared PROVE BytesOf(dir', size') + ExOwesBytes' = BytesOf(dir, size) + ExOwesBytes
    <2>1. size \in [Inodes -> 0 .. MaxSize] /\ size[i] \in Nat /\ BytesOf(dir, size) \in Nat
      BY <1>1, <1>2, BytesFit DEF QuotaTypeOK
    <2>2. \A z \in Inodes : size'[z] \in Int /\ (z # i => size'[z] = size[z])
      BY <1>4, QuotaParams
    <2>3. \A k \in Linked(dir) : \A t : (\A z \in Inodes : t[z] \in Int /\ (z # k => t[z] = size[z]))
             => BytesOf(dir, t) = BytesOf(dir, size) - size[k] + t[k]
      BY <2>1, Resized
    <2> HIDE DEF i
    <2>4. BytesOf(dir, size') = BytesOf(dir, size) - size[i] + size'[i]
      BY <1>2, <2>2, <2>3
    <2>5. ex.ab = -size[i]
      BY <1>0, <1>10 DEF QuotaInv, Naming, i
    <2> QED BY <1>0, <1>2, <1>4, <1>9, <2>1, <2>4, <2>5
  <1>11. ~shared => \A f \in Fds : job[f] # NoOp /\ fd[f].ino \in Inodes =>
                      /\ fd[f].ino \in Linked(dir') /\ size'[fd[f].ino] = size[fd[f].ino]
                      /\ fd[f].ino \notin {ex'.ino, ex'.ino2}
    BY <1>0, <1>3, <1>4 DEF QuotaInv, Apart
  <1>12. EntriesOf(dir') + ExOwesEntries' = EntriesOf(dir) + ExOwesEntries
    BY <1>0, <1>9
  <1> QED BY <1>0, <1>3, <1>5, <1>8, <1>10, <1>11, <1>12, AnsweredStep

\* open settles what it emptied and hands the descriptor out.
LEMMA OpenHandsOutStep ==
  ASSUME QuotaInv, NEW f \in Fds, NEW append \in BOOLEAN, OpenHandsOut(f, append)
  PROVE  QuotaInv'
  <1>0. /\ ex # NoOp /\ ((ex.kind = "open" /\ ex.st = "done") \/ ex.st = "emptied")
        /\ fd[f].ino = Missing /\ Settle(0, 0, ex.ab, 0) /\ ex' = NoOp
        /\ fd' = [fd EXCEPT ![f] = [ino |-> dir[ex.x], pos |-> 0, append |-> append]]
        /\ UNCHANGED <<dir, size, job, torn, shared, loose, slack>>
    BY DEF OpenHandsOut, history
  <1>1. QuotaTypeOK /\ ex \in NameOps /\ ex.x \in Names /\ Opens /\ ~Pending /\ OpenFits
    BY <1>0 DEF QuotaInv, QuotaTypeOK, NameOps, Naming, Opens, Pending
  <1>2. dir[ex.x] \in Inodes /\ ex.rb = 0 /\ ex.re = ex.ae /\ ex.ab \in Int /\ ex.re \in Int
    BY <1>1 DEF OpenFits, IsFile, NameOps
  <1>3. quota.entries \in Nat /\ quota.bytes \in Int
    BY <1>1 DEF QuotaTypeOK
  <1>4. fd' \in [Fds -> [ino : Inodes \cup {Missing}, pos : Nat, append : BOOLEAN]]
    BY <1>0, <1>1, <1>2 DEF QuotaTypeOK
  <1>5. \A g \in Fds : job[g] # NoOp => fd'[g] = fd[g]
    <2>1. job[f] = NoOp
      BY <1>0, QuotaParams DEF QuotaInv, Jobs, JobFits
    <2> QED BY <1>0, <1>1, <2>1 DEF QuotaTypeOK
  <1>6. /\ quota' \in [bytes : Int, entries : Nat]
        /\ quota'.bytes = Over0(quota.bytes - 0 + ex.ab) /\ quota'.entries = Over0(quota.entries - 0 + 0)
    BY <1>0, <1>1, <1>2, SettleFacts
  <1>7. ExOwesEntries = ex.re - ex.re /\ ExOwesBytes = 0 - ex.ab
    BY <1>0, <1>1, <1>2 DEF ExOwesEntries, ExOwesBytes
  <1>8. quota'.entries = quota.entries - ExOwesEntries
    BY <1>2, <1>3, <1>6, <1>7 DEF Over0
  <1>9. quota.bytes - ExOwesBytes >= 0 => quota'.bytes = quota.bytes - ExOwesBytes
    BY <1>2, <1>3, <1>6, <1>7 DEF Over0
  <1> QED BY <1>0, <1>4, <1>5, <1>6, <1>8, <1>9, ClosedStep

\* Every step keeps the invariant.
LEMMA QuotaNextInv == QuotaInv /\ [QuotaNext]_quotaVars => QuotaInv'
  <1> SUFFICES ASSUME QuotaInv, [QuotaNext]_quotaVars PROVE QuotaInv'
    OBVIOUS
  <1>1. CASE DescriptorSteps
    <2>1. PICK f \in Fds :
            \/ \E n \in Chunks : \/ \E given \in -1 .. MaxSize : Write(f, n, given)
                                 \/ WriteOnHost(f, n) \/ WriteOnHost(f, 0)
            \/ WriteSettles(f)
            \/ \E len \in 0 .. MaxSize : Ftruncate(f, len)
            \/ FtruncateOnHost(f) \/ FtruncateSettles(f)
            \/ Close(f)
      BY <1>1 DEF DescriptorSteps
    <2>2. \A n \in Chunks : n \in Nat
      BY QuotaParams
    <2> QED BY <2>1, <2>2, WriteStep, WriteOnHostStep, WriteSettlesStep, FtruncateStep, FtruncateOnHostStep,
               FtruncateSettlesStep, CloseStep
  <1>2. CASE \E x, y \in Names : Link(x, y) \/ Rename(x, y) \/ RmTree(x, y) \/ CopyFile(x, y, TRUE) \/ CopyFile(x, y, FALSE)
    BY <1>2, LinkStep, RenameStep, RmTreeStep, CopyFileStep
  <1>3. CASE \E x \in Names : \/ Open(x, TRUE) \/ Open(x, FALSE) \/ Mkdir(x) \/ Symlink(x) \/ Unlink(x)
                              \/ \E len \in 0 .. 1 : Truncate(x, len)
    BY <1>3, OpenStep, MkdirStep, SymlinkStep, UnlinkStep, TruncateStep
  <1>4. CASE OnHostDone \/ OnHostFails \/ CopyTears \/ RmTears \/ Settles
    BY <1>4, OnHostDoneStep, OnHostFailsStep, CopyTearsStep, RmTearsStep, SettlesStep
  <1>5. CASE OpenFails \/ OpenMeasures \/ OpenEmpties
    BY <1>5, OpenFailsStep, OpenMeasuresStep, OpenEmptiesStep
  <1>6. CASE \E f \in Fds, append \in BOOLEAN : OpenHandsOut(f, append)
    BY <1>6, OpenHandsOutStep
  <1>7. CASE UNCHANGED quotaVars
    <2>1. UNCHANGED <<dir, size, fd, job, ex, quota, torn, shared, loose, slack>>
      BY <1>7 DEF quotaVars
    <2>2. {shared', loose', slack'} \subseteq BOOLEAN
      BY <2>1 DEF QuotaInv, QuotaTypeOK
    <2> QED BY <2>1, <2>2, RefusedStep
  <1> QED BY <1>1, <1>2, <1>3, <1>4, <1>5, <1>6, <1>7 DEF QuotaNext, NameStarts, NameSteps

\* The books of the quota (quota.js, broker.js) agree with the host in every
\* reachable state in which no operation failed half-way or changed what it had
\* not measured: what is counted is what is stored and what running operations
\* have reserved and not yet used.
THEOREM QuotaInvariance == QuotaSpec => []QuotaInv
  <1>1. QuotaInit => QuotaInv
    BY QuotaInitInv
  <1>2. QuotaInv /\ [QuotaNext]_quotaVars => QuotaInv'
    BY QuotaNextInv
  <1> QED BY <1>1, <1>2, PTL DEF QuotaSpec

\* The quota's variables have their types, after a torn copy too.
THEOREM QuotaTypes == QuotaSpec => []QuotaTypeOK
  <1>1. QuotaInv => QuotaTypeOK
    BY DEF QuotaInv
  <1> QED BY <1>1, QuotaInvariance, PTL

\* A quiet module is charged what a fresh walk of its directories would measure
\* (Quota.reserve and settle around every host operation of broker.js), with
\* positional writes, symbolic links and subtrees, as long as no operation failed
\* half-way and none changed what it had not measured.
THEOREM QuotaIsUsage == QuotaSpec => []UsageExact
  <1>1. QuotaInv => UsageExact
    <2> SUFFICES ASSUME QuotaInv PROVE UsageExact
      OBVIOUS
    <2>1. ASSUME Quiet PROVE OwedNow = 0 /\ ExOwesBytes = 0 /\ ExOwesEntries = 0
      <3>1. \A f \in Fds : JobOwes(job[f]) = 0
        BY <2>1 DEF Quiet, JobOwes, NoOp
      <3>2. OwedNow = 0
        BY <3>1, OwedNat DEF OwedNow
      <3> QED BY <2>1, <3>2 DEF Quiet, ExOwesBytes, ExOwesEntries
    <2>2. BytesOf(dir, size) \in Nat
      BY BytesFit DEF QuotaInv, QuotaTypeOK
    <2>3. EntriesOf(dir) \in Nat
      BY EntriesFit
    <2>4. ActualBytes = BytesOf(dir, size) /\ ActualEntries = EntriesOf(dir)
      BY Walked
    <2>5. BytesExact
      BY <2>1, <2>2, <2>4 DEF BytesExact, QuotaInv, BytesKept
    <2>6. EntriesExact
      BY <2>1, <2>3, <2>4 DEF EntriesExact, QuotaInv, EntriesKept
    <2> QED BY <2>5, <2>6 DEF UsageExact
  <1> QED BY <1>1, QuotaInvariance, PTL
=============================================================================
