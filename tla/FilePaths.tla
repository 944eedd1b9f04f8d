----------------------------- MODULE FilePaths ------------------------------
(***************************************************************************)
(* How the file broker decides where a path leads (lib/fs-broker/          *)
(* namespace.js and place, checkHost, verifyOpened, cachedRealpath of      *)
(* broker.js, under --moduleSandbox enforce): the check and the operation  *)
(* are separate steps on the host, the real path of a directory may come   *)
(* from a cache, and between them the module's own operations, another     *)
(* module's in a shared directory and host processes may change what a     *)
(* name leads to.                                                          *)
(*                                                                         *)
(* A place is a real directory, written as its sequence of names.  The     *)
(* module works on one file name in one directory name, Dir.  Dir is       *)
(* missing, the directory Home or a link to another place, and the file    *)
(* name in a place is missing, a file or a link to the same name in        *)
(* another place.                                                          *)
(***************************************************************************)
EXTENDS Naturals, Sequences, SequencesExt

CONSTANTS Places,     \* real directories the names can lead to
          Home,       \* Dir's own place, where it is a directory and no link
          Base,       \* the roots every module has (/app, /data, /tmp), [real, writable]
          Declared,   \* the roots the module declares
          Protected,  \* countinghouse's own paths, Base among them
          ProcFd,     \* /proc/self/fd can be read (Linux)
          Slots,      \* operations in flight
          MaxRaces,   \* bound: changes made by others
          None

ASSUME PathConstants ==
  /\ Home \in Places /\ Places \subseteq Seq(STRING)
  /\ Base \cup Declared \subseteq [real : Seq(STRING), writable : BOOLEAN]
  /\ Protected \subseteq Seq(STRING) /\ ProcFd \in BOOLEAN /\ MaxRaces \in Nat
  /\ None \notin Places /\ None \notin Base \cup Declared

(* inside: the path or below it. prepare: a declared path that overlaps a  *)
(* protected one is refused; the module's own roots are never filtered.    *)
Inside(p, root) == IsPrefix(root, p)
Kept == {r \in Declared : \A q \in Protected : ~Inside(q, r.real) /\ ~Inside(r.real, q)}
Roots == Base \cup Kept

(* rootForReal: the deepest root that holds the place. *)
Holders(p) == {r \in Roots : Inside(p, r.real)}
RootForReal(p) ==
  IF Holders(p) = {} THEN None
  ELSE CHOOSE r \in Holders(p) : \A s \in Holders(p) : Len(s.real) <= Len(r.real)

Writable(p) == RootForReal(p) # None /\ RootForReal(p).writable

(* resolve: the root Dir's virtual path names.  A path in no root never    *)
(* comes to the checks below.                                              *)
NamedRoot == RootForReal(Home)
ASSUME HomeNamed == NamedRoot # None

VARIABLES real,      \* the place Dir leads to, or None
          leaf,      \* place -> what the file name is there
          cache,     \* the cached real path of Dir, or None
          op,        \* slot -> the operation in flight
          races      \* changes others than the module made to the names

vars == <<real, leaf, cache, op, races>>

File == [kind |-> "file", to |-> None]
Gone == [kind |-> "missing", to |-> None]
LinkTo(q) == [kind |-> "link", to |-> q]
Idle == [kind |-> "idle"]

(* stat: every operation that only reads a path. open: r; openw: r+;       *)
(* create: w; truncate: by path, as chmod, chown and utimes.  unlink,      *)
(* symlink: on the file name itself; mkdir, rmdir, relink: on Dir itself.  *)
Opening == {"open", "openw", "create"}
Following == {"stat", "truncate"} \cup Opening
OnDir == {"mkdir", "rmdir", "relink"}
Exclusive == {"create", "truncate", "unlink", "symlink"} \cup OnDir
Writes == {"openw"} \cup Exclusive

Init ==
  /\ real \in {Home, None}
  /\ leaf = [p \in Places |-> IF p = Home THEN Gone ELSE File]
  /\ cache = None
  /\ op = [s \in Slots |-> Idle]
  /\ races = 0

(* Where the host takes the file name now, and whether a file is there. *)
Lands == IF real = None THEN None ELSE IF leaf[real].kind = "link" THEN leaf[real].to ELSE real
FileThere == Lands # None /\ leaf[Lands].kind = "file"

-----------------------------------------------------------------------------
(* Slip: the cache outlives the module's own changes. *)
ClearsNever(k) == FALSE

(* handleOne: the lock is granted; an exclusive operation starts with an   *)
(* empty cache.                                                            *)
Clears(k) == k \in Exclusive

Begin(s, k, to) ==
  /\ op[s] = Idle
  /\ \A t \in Slots : op[t] # Idle => k \notin Exclusive /\ op[t].kind \notin Exclusive
  /\ (k \in {"relink", "symlink"}) = (to # None)
  /\ op' = [op EXCEPT ![s] = [kind |-> k, to |-> to, st |-> "granted", parent |-> None, loc |-> None,
                              ident |-> "none", root |-> None, hit |-> None, emptied |-> FALSE]]
  /\ cache' = IF Clears(k) THEN None ELSE cache
  /\ UNCHANGED <<real, leaf, races>>

End(s) == op' = [op EXCEPT ![s] = Idle]

(* cachedRealpath: an entry younger than its limit is used as it is.       *)
CachedRealpath == IF cache # None THEN cache ELSE real

(* An operation on Dir itself has Dir's parent, which is always there. *)
CheckDirectory(s) ==
  /\ op[s] # Idle /\ op[s].st = "granted"
  /\ LET own == op[s].kind \in OnDir IN
     /\ op' = [op EXCEPT ![s].st = "parent", ![s].parent = IF own THEN Home ELSE CachedRealpath]
     /\ cache' = IF own THEN cache ELSE CachedRealpath
  /\ UNCHANGED <<real, leaf, races>>

CacheExpires ==
  /\ cache # None
  /\ cache' = None
  /\ UNCHANGED <<real, leaf, op, races>>

(* checkHost: where the object is and how it will be recognised.  A link,  *)
(* or a name whose directory was missing, is followed on the host as it is *)
(* now; when it leads nowhere, viaParent takes the directory's real path   *)
(* again.  With no directory nothing is known of the object (ident null).  *)
Found(o, loc, ident) == [o EXCEPT !.loc = loc, !.ident = ident]
ViaParent(o) ==
  IF CachedRealpath = None THEN Found(o, None, "null")
  ELSE [Found(o, CachedRealpath, "parent") EXCEPT !.parent = CachedRealpath]

LeafCheck(o) ==
  CASE o.kind \notin Following -> IF o.parent = None THEN Found(o, None, "null") ELSE Found(o, o.parent, "name")
    [] o.kind \in Following /\ o.parent # None /\ leaf[o.parent].kind = "missing" -> Found(o, o.parent, "parent")
    [] o.kind \in Following /\ o.parent # None /\ leaf[o.parent].kind = "file" -> Found(o, o.parent, "inode")
    [] OTHER -> IF FileThere THEN Found(o, Lands, "inode") ELSE ViaParent(o)

(* place: no root, or a write outside a writable one, ends the operation.  *)
(* Where nothing is known of the object, its root is the one its path      *)
(* names.                                                                  *)
Decided(o) ==
  LET r == IF o.ident = "null" THEN NamedRoot ELSE RootForReal(o.loc)
  IN IF r = None \/ (o.kind \in Writes /\ ~r.writable) THEN Idle
     ELSE [o EXCEPT !.root = r, !.st = "checked"]

CheckLeaf(s) ==
  /\ op[s] # Idle /\ op[s].st = "parent"
  /\ op' = [op EXCEPT ![s] = Decided(LeafCheck(op[s]))]
  /\ UNCHANGED <<real, leaf, cache, races>>

(* The operation itself.  stat only looks. *)
RunStat(s) ==
  /\ op[s] # Idle /\ op[s].st = "checked" /\ op[s].kind = "stat"
  /\ End(s)
  /\ UNCHANGED <<real, leaf, cache, races>>

(* truncate by path: what the name leads to now is changed, and nothing is *)
(* verified.                                                               *)
RunTruncate(s) ==
  /\ op[s] # Idle /\ op[s].st = "checked" /\ op[s].kind = "truncate"
  /\ IF FileThere THEN op' = [op EXCEPT ![s].st = "acted", ![s].hit = Lands, ![s].emptied = TRUE]
     ELSE End(s)
  /\ UNCHANGED <<real, leaf, cache, races>>

(* Slip: a create is opened with O_TRUNC, before anything is verified. *)
HostOpenEmpties(s) ==
  /\ op[s] # Idle /\ op[s].st = "checked" /\ op[s].kind = "create" /\ Lands # None
  /\ op' = [op EXCEPT ![s].st = "opened", ![s].hit = Lands, ![s].emptied = TRUE]
  /\ leaf' = [leaf EXCEPT ![Lands] = File]
  /\ UNCHANGED <<real, cache, races>>

HostOpen(s) ==
  /\ op[s] # Idle /\ op[s].st = "checked" /\ op[s].kind \in Opening
  /\ IF FileThere \/ (op[s].kind = "create" /\ Lands # None)
     THEN /\ op' = [op EXCEPT ![s].st = "opened", ![s].hit = Lands]
          /\ leaf' = [leaf EXCEPT ![Lands] = File]
     ELSE End(s) /\ UNCHANGED leaf
  /\ UNCHANGED <<real, cache, races>>

(* Slip: a write may land in any of the module's roots. *)
InAnyRoot(o) == RootForReal(o.hit) # None

(* verifyOpened: the same inode, or the same parent; and, where /proc can  *)
(* be read, the descriptor's own path in a root, for a write the very root *)
(* that was decided on.  With ident null it returns at once.               *)
SameObject(o) == IF o.ident = "parent" THEN real = o.parent ELSE o.hit = o.loc
InDecidedRoot(o) ==
  /\ RootForReal(o.hit) # None
  /\ o.kind \in Writes => RootForReal(o.hit) = o.root
Verified(o) == o.ident = "null" \/ (SameObject(o) /\ (ProcFd => InDecidedRoot(o)))

VerifyOpened(s) ==
  /\ op[s] # Idle /\ op[s].st = "opened"
  /\ IF Verified(op[s])
     THEN op' = [op EXCEPT ![s].st = "verified"]
     ELSE End(s)
  /\ UNCHANGED <<real, leaf, cache, races>>

(* Only a verified file is emptied; then the descriptor is handed out.     *)
OpenReturns(s) ==
  /\ op[s] # Idle /\ op[s].st = "verified"
  /\ op' = [op EXCEPT ![s].st = "handed", ![s].emptied = (op[s].kind = "create")]
  /\ UNCHANGED <<real, leaf, cache, races>>

RunUnlink(s) ==
  /\ op[s] # Idle /\ op[s].st = "checked" /\ op[s].kind = "unlink"
  /\ IF real = None THEN End(s) /\ UNCHANGED leaf
     ELSE /\ op' = [op EXCEPT ![s].st = "acted", ![s].hit = real]
          /\ leaf' = [leaf EXCEPT ![real] = Gone]
  /\ UNCHANGED <<real, cache, races>>

(* A link's target is taken from the virtual path alone and must stay in   *)
(* the root that names.  Through a Dir that is itself a link the same      *)
(* relative target leads anywhere.                                         *)
SymlinkAllowed(o) == Inside(o.to, NamedRoot.real)
Leads(o) == IF real = Home THEN {o.to} ELSE Places

RunSymlink(s) ==
  /\ op[s] # Idle /\ op[s].st = "checked" /\ op[s].kind = "symlink"
  /\ IF ~SymlinkAllowed(op[s]) \/ real = None THEN End(s) /\ UNCHANGED leaf
     ELSE /\ op' = [op EXCEPT ![s].st = "acted", ![s].hit = real]
          /\ \E lead \in Leads(op[s]) :
               leaf' = IF leaf[real] = Gone /\ lead # real THEN [leaf EXCEPT ![real] = LinkTo(lead)] ELSE leaf
  /\ UNCHANGED <<real, cache, races>>

(* rm of Dir, and a directory or a link in its place when it is missing. *)
DirAfter(o) ==
  CASE o.kind = "rmdir" -> None
    [] o.kind # "rmdir" /\ real # None -> real
    [] o.kind = "mkdir" /\ real = None -> Home
    [] OTHER -> IF SymlinkAllowed(o) THEN o.to ELSE None

RunOnDir(s) ==
  /\ op[s] # Idle /\ op[s].st = "checked" /\ op[s].kind \in OnDir
  /\ op' = [op EXCEPT ![s].st = "acted", ![s].hit = Home]
  /\ real' = DirAfter(op[s])
  /\ leaf' = IF op[s].kind = "mkdir" /\ real = None THEN [leaf EXCEPT ![Home] = Gone] ELSE leaf
  /\ UNCHANGED <<cache, races>>

Released(s) ==
  /\ op[s] # Idle /\ op[s].st \in {"acted", "handed"}
  /\ End(s)
  /\ UNCHANGED <<real, leaf, cache, races>>

(* A host process, or another module in a shared directory. *)
Interfere ==
  /\ races < MaxRaces
  /\ \/ \E p \in Places \cup {None} : real' = p /\ UNCHANGED leaf
     \/ \E p \in Places, l \in {File, Gone} \cup {LinkTo(q) : q \in Places} :
          l.to # p /\ leaf' = [leaf EXCEPT ![p] = l] /\ UNCHANGED real
  /\ races' = races + 1
  /\ UNCHANGED <<cache, op>>

Next ==
  \/ \E s \in Slots :
       \/ \E k \in Following \cup {"unlink", "mkdir", "rmdir"} : Begin(s, k, None)
       \/ \E k \in {"relink", "symlink"}, to \in Places : Begin(s, k, to)
       \/ CheckDirectory(s) \/ CheckLeaf(s) \/ RunStat(s) \/ RunTruncate(s)
       \/ HostOpen(s) \/ VerifyOpened(s) \/ OpenReturns(s)
       \/ RunUnlink(s) \/ RunSymlink(s) \/ RunOnDir(s) \/ Released(s)
  \/ CacheExpires
  \/ Interfere

Spec == Init /\ [][Next]_vars

-----------------------------------------------------------------------------
(* Every variable has its type. *)
Leaves == {File, Gone} \cup {LinkTo(q) : q \in Places}
MaybePlace == Places \cup {None}
Operations ==
  [kind : Following \cup Exclusive, to : MaybePlace, parent : MaybePlace, loc : MaybePlace, hit : MaybePlace,
   st : {"granted", "parent", "checked", "opened", "verified", "handed", "acted"},
   ident : {"none", "null", "name", "parent", "inode"}, root : Roots \cup {None}, emptied : BOOLEAN]

TypeOK ==
  /\ real \in MaybePlace /\ cache \in MaybePlace /\ races \in 0..MaxRaces
  /\ leaf \in [Places -> Leaves]
  /\ op \in [Slots -> Operations \cup {Idle}]

(* What verifyOpened can recognise: an inode, or the parent when the       *)
(* descriptor's own path can be read too.                                  *)
Recognised(o) == o.ident = "inode" \/ (o.ident = "parent" /\ ProcFd)

(* Whatever others do to the names between check and open, and however     *)
(* stale the cached directory was, a recognised descriptor the module gets *)
(* is of a file inside one of its roots, and a writing one inside a        *)
(* writable root (verifyOpened).                                           *)
Allowed(o) == RootForReal(o.hit) # None /\ (o.kind \in Writes => Writable(o.hit))
HandedInside == \A s \in Slots : op[s] # Idle /\ op[s].st = "handed" /\ Recognised(op[s]) => Allowed(op[s])

(* "a target swapped by a host process is refused before anything is lost" *)
(* (open): a recognised open empties no file outside a writable root, and  *)
(* nor does a truncate by path while nobody else touches the names.        *)
EmptiesInside ==
  \A s \in Slots :
    op[s] # Idle /\ op[s].emptied /\ (IF op[s].kind = "truncate" THEN races = 0 ELSE Recognised(op[s]))
      => Writable(op[s].hit)

(* "a module cannot race itself between the broker's check and the         *)
(* operation" (rwlock.js): while nobody else touches the names, whatever   *)
(* an operation reaches was known to the check, and it is what was checked *)
(* unless it is reached through a link that led nowhere.                   *)
NoSelfRace ==
  \A s \in Slots :
    op[s] # Idle /\ op[s].hit # None /\ races = 0 =>
      op[s].ident # "null" /\ (op[s].ident # "parent" => op[s].hit = op[s].loc)

(* The three promises of namespace.js and broker.js's open together: what  *)
(* a module reaches, empties and acts on is what its roots allow.          *)
StaysInside == HandedInside /\ EmptiesInside /\ NoSelfRace

(* "Under `enforce` every opened descriptor is then verified (its device   *)
(* and inode, and on Linux `/proc/self/fd`) against that location"         *)
(* (docs/security-model.md): every descriptor handed out is of a file the  *)
(* module's roots allow.  It fails for a file whose directory was missing  *)
(* when the path was checked and there when it was opened.                 *)
EveryDescriptorVerified == \A s \in Slots : op[s] # Idle /\ op[s].st = "handed" => Allowed(op[s])
=============================================================================
