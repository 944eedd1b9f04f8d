----------------------------- MODULE FileQuota ------------------------------
(***************************************************************************)
(* The disk quota of one module (lib/fs-broker/quota.js) and the brokered  *)
(* operations that move it (lib/fs-broker/broker.js): each measures the    *)
(* host, reserves, lets the host operation run and settles with what       *)
(* happened.  Operations that change names take the module's exclusive     *)
(* lock, so one of them runs at a time; operations on descriptors take no  *)
(* lock and run one at a time per descriptor.  Between two steps of one    *)
(* operation anything else may run.                                        *)
(*                                                                         *)
(* The host is a directory of names in /data and /tmp, each missing, a     *)
(* directory, a link to a name or a name of an inode, and the inodes'      *)
(* sizes.                                                                  *)
(***************************************************************************)
EXTENDS Integers, FiniteSets, FiniteSetsExt

CONSTANTS Names, Inodes, Fds, Missing, Dir,
          MaxBytes, MaxEntries,  \* the quota
          MaxSize,               \* bound: bytes a file may reach
          Chunks,                \* lengths of one write
          Enforce,               \* --moduleSandbox enforce: a full quota refuses
          HostFails              \* host operations may fail half-way

ASSUME QuotaConstants ==
  /\ {MaxBytes, MaxEntries, MaxSize} \cup Chunks \subseteq Nat
  /\ {Enforce, HostFails} \subseteq BOOLEAN
  /\ {Missing, Dir} \cap Inodes = {} /\ Missing # Dir
  /\ IsFiniteSet(Names) /\ IsFiniteSet(Inodes) /\ IsFiniteSet(Fds)
  /\ MaxSize > 0  \* a new /data may hold a file of one byte

SoftLink(x) == [link |-> x]
Links == {SoftLink(x) : x \in Names}
ASSUME LinksApart == Links \cap (Inodes \cup {Missing, Dir}) = {}

VARIABLES dir,    \* name -> inode, Dir, link or Missing
          size,   \* inode -> bytes
          fd,     \* descriptor -> its inode, position and append flag; NoOp when closed
          job,    \* descriptor -> the operation running on it
          ex,     \* the operation that holds the exclusive lock
          quota,  \* bytes and entries counted
          torn,   \* a copy failed after it had opened its destination
          shared, \* a file was used by two operations at once, or after its removal
          loose,  \* an operation changed more, or less, than it measured
          slack   \* over the limit at spawn, or room was given back before it was free

quotaVars == <<dir, size, fd, job, ex, quota, torn, shared, loose, slack>>
history == <<torn, shared, loose, slack>>

NoOp == [kind |-> "idle"]
Free == [ino |-> Missing, pos |-> 0, append |-> FALSE]

Nlink(i) == Cardinality({x \in Names : dir[x] = i})
IsFile(x) == dir[x] \in Inodes
SizeAt(x) == IF IsFile(x) THEN size[dir[x]] ELSE 0
Opened(i) == \E f \in Fds : fd[f].ino = i
Unused(i) == Nlink(i) = 0 /\ ~Opened(i)

(* Where the host takes name x: through its links to a name that is none.  *)
LeadsTo(x, z) ==
  /\ dir[z] \notin Links
  /\ \E n \in 0 .. Cardinality(Names) : \E p \in [0 .. n -> Names] :
       p[0] = x /\ p[n] = z /\ \A k \in 0 .. n - 1 : dir[p[k]] = SoftLink(p[k + 1])

(* The spawn walk's measure: bytes once per inode, one entry per name. *)
ActualBytes == MapThenSumSet(LAMBDA i : size[i], {i \in Inodes : Nlink(i) > 0})
ActualEntries == Cardinality({x \in Names : dir[x] # Missing})

-----------------------------------------------------------------------------
(* Quota.reserve and Quota.settle. *)
(* Slip: the limit is compared with what is used, before the growth. *)
FitsBefore(b, e) == (b > 0 => quota.bytes <= MaxBytes) /\ (e > 0 => quota.entries <= MaxEntries)

Fits(b, e) == (b > 0 => quota.bytes + b <= MaxBytes) /\ (e > 0 => quota.entries + e <= MaxEntries)

Reserve(b, e) ==
  quota' = [bytes |-> quota.bytes + b, entries |-> quota.entries + e]

Settle(rb, re, ab, ae) ==
  quota' = [bytes |-> Max({0, quota.bytes - rb + ab}), entries |-> Max({0, quota.entries - re + ae})]

Refuse(b, e) == Enforce /\ ~Fits(b, e)

(* At spawn /tmp is emptied and the quota starts from what is measured.    *)
QuotaInit ==
  /\ dir \in [Names -> Inodes \cup {Missing}] /\ size \in [Inodes -> {0, 1}]
  /\ \A i \in Inodes : Nlink(i) <= 1 /\ (Nlink(i) = 0 => size[i] = 0)
  /\ fd = [f \in Fds |-> Free]
  /\ job = [f \in Fds |-> NoOp]
  /\ ex = NoOp
  /\ quota = [bytes |-> ActualBytes, entries |-> ActualEntries]
  /\ torn = FALSE /\ shared = FALSE /\ loose = FALSE
  /\ slack = (ActualBytes > MaxBytes \/ ActualEntries > MaxEntries)

-----------------------------------------------------------------------------
(* Descriptors: write and ftruncate.                                       *)

Busy(i) == \/ \E f \in Fds : job[f] # NoOp /\ fd[f].ino = i
           \/ ex # NoOp /\ (i = ex.ino \/ i = ex.ino2)

(* History: two operations on one file at once, or one on a removed file.  *)
Uses(files) ==
  shared' = (shared \/ \E i \in files : Busy(i) \/ Nlink(i) = 0)

(* A write at a given position, at the end (append) or at the descriptor's *)
(* own position, which is -1 here.                                         *)
Write(f, n, given) ==
  LET i == fd[f].ino
      at == IF given >= 0 THEN given ELSE IF fd[f].append THEN size[i] ELSE fd[f].pos
      growth == Max({0, at + n - size[i]})
  IN /\ i # Missing /\ job[f] = NoOp /\ Uses({i})
     /\ at + n <= MaxSize /\ size[i] + n <= MaxSize
     /\ IF Refuse(growth, 0) THEN UNCHANGED <<quota, job>>
        ELSE /\ Reserve(growth, 0)
             /\ job' = [job EXCEPT ![f] = [kind |-> "write", at |-> at, n |-> n, size |-> size[i],
                                           growth |-> growth, moves |-> given < 0, written |-> -1]]
     /\ loose' = (loose \/ (fd[f].append /\ at # size[i]))
     /\ UNCHANGED <<dir, size, fd, ex, torn, slack>>

(* The host writes at the end of a file opened to append, whatever the     *)
(* position given.  It may write less, and when it writes nothing the call *)
(* fails.                                                                  *)
WriteOnHost(f, k) ==
  LET i == fd[f].ino
      at == IF fd[f].append THEN size[i] ELSE job[f].at
  IN /\ job[f].kind = "write" /\ job[f].written < 0
     /\ k \in (IF HostFails THEN 0 ELSE job[f].n) .. job[f].n
     /\ at + k <= MaxSize
     /\ size' = [size EXCEPT ![i] = IF k = 0 THEN @ ELSE Max({@, at + k})]
     /\ job' = [job EXCEPT ![f].written = k]
     /\ UNCHANGED <<dir, fd, ex, quota, history>>

WriteSettles(f) ==
  LET j == job[f] IN
  /\ j.kind = "write" /\ j.written >= 0
  /\ Settle(j.growth, 0, IF j.written = 0 THEN 0 ELSE Max({0, j.at + j.written - j.size}), 0)
  /\ fd' = [fd EXCEPT ![f].pos = IF ~j.moves THEN @ ELSE IF fd[f].append THEN j.at + j.written ELSE @ + j.written]
  /\ job' = [job EXCEPT ![f] = NoOp]
  /\ UNCHANGED <<dir, size, ex, history>>

Ftruncate(f, len) ==
  LET i == fd[f].ino
      growth == Max({0, len - size[i]})
  IN /\ i # Missing /\ job[f] = NoOp /\ Uses({i})
     /\ IF Refuse(growth, 0) THEN UNCHANGED <<quota, job>>
        ELSE /\ Reserve(growth, 0)
             /\ job' = [job EXCEPT ![f] = [kind |-> "ftruncate", len |-> len, size |-> size[i],
                                           growth |-> growth, done |-> "no"]]
     /\ UNCHANGED <<dir, size, fd, ex, torn, loose, slack>>

FtruncateOnHost(f) ==
  /\ job[f].kind = "ftruncate" /\ job[f].done = "no"
  /\ \/ /\ size' = [size EXCEPT ![fd[f].ino] = job[f].len]
        /\ job' = [job EXCEPT ![f].done = "yes"]
     \/ /\ HostFails
        /\ job' = [job EXCEPT ![f].done = "failed"]
        /\ UNCHANGED size
  /\ UNCHANGED <<dir, fd, ex, quota, history>>

FtruncateSettles(f) ==
  LET j == job[f] IN
  /\ j.kind = "ftruncate" /\ j.done # "no"
  /\ Settle(j.growth, 0, IF j.done = "yes" THEN j.len - j.size ELSE 0, 0)
  /\ job' = [job EXCEPT ![f] = NoOp]
  /\ UNCHANGED <<dir, size, fd, ex, history>>

Close(f) ==
  /\ fd[f].ino # Missing /\ job[f] = NoOp
  /\ fd' = [fd EXCEPT ![f] = Free]
  /\ UNCHANGED <<dir, size, job, ex, quota, history>>

-----------------------------------------------------------------------------
(* Names: one exclusive operation at a time.  ex records what it measured  *)
(* and reserved: bytes rb and entries re reserved, ab and ae to settle     *)
(* with if the host operation succeeds.                                    *)

InodeOf(x) == IF IsFile(x) THEN dir[x] ELSE Missing

Measured(kind, x, y, rb, re, ab, ae, misses) ==
  /\ ex = NoOp
  /\ Uses({InodeOf(x), InodeOf(y)} \ {Missing})
  /\ IF Refuse(rb, re) THEN UNCHANGED <<quota, ex>>
     ELSE /\ Reserve(rb, re)
          /\ ex' = [kind |-> kind, x |-> x, y |-> y, ino |-> InodeOf(x), ino2 |-> InodeOf(y),
                    rb |-> rb, re |-> re, ab |-> ab, ae |-> ae, st |-> "measured"]
  /\ loose' = (loose \/ misses) /\ slack' = (slack \/ rb < 0)
  /\ UNCHANGED <<dir, size, fd, job, torn>>

(* What lstat of the name says: not there, and so one more entry. *)
NewEntry(x) == IF dir[x] = Missing THEN 1 ELSE 0

(* open with O_CREAT: a new name is one entry.  The host follows the name, *)
(* so through a link that leads nowhere it makes a name not counted.       *)
Open(x, trunc) ==
  \E t \in Names :
    /\ LeadsTo(x, t)
    /\ Measured(IF trunc THEN "opentrunc" ELSE "open", t, t, 0, NewEntry(x), 0, NewEntry(x), NewEntry(x) # NewEntry(t))

(* mkdir, mkdtemp, symlink: one entry. *)
Mkdir(x) == Measured("mkdir", x, x, 0, 1, 0, 1, FALSE)
Symlink(x) == Measured("symlink", x, x, 0, 1, 0, 1, FALSE)
Link(x, y) == x # y /\ IsFile(x) /\ Measured("link", x, y, 0, 1, 0, 1, FALSE)

(* Slip: the bytes with any name of the file. *)
GoneWithAnyName(x) == SizeAt(x)

(* removalUsage: the bytes only when the last name goes. *)
BytesGone(x) == IF IsFile(x) /\ Nlink(dir[x]) = 1 THEN SizeAt(x) ELSE 0
Unlink(x) == dir[x] # Missing /\ Measured("unlink", x, x, 0, 0, -BytesGone(x), -1, FALSE)

(* rm of a directory x and the one name y in it. *)
RmTree(x, y) ==
  x # y /\ dir[x] = Dir /\ dir[y] # Missing /\ Measured("rmtree", x, y, 0, 0, -BytesGone(y), -2, FALSE)

(* What is replaced is given back, unless both names are of one file. *)
Rename(x, y) ==
  LET replaced == dir[y] # Missing /\ ~(IsFile(x) /\ dir[x] = dir[y])
  IN /\ x # y /\ dir[x] # Missing
     /\ Measured("rename", x, y, 0, 0, IF replaced THEN -BytesGone(y) ELSE 0, IF replaced THEN -1 ELSE 0, FALSE)

Truncate(x, len) ==
  \E t \in Names :
    /\ LeadsTo(x, t)
    /\ Measured(IF len = 0 THEN "truncate0" ELSE "truncate1", t, t, Max({0, len - SizeAt(t)}), 0, len - SizeAt(t), 0, FALSE)

(* The copy reserves the difference to what lstat says of the destination, *)
(* which may be negative.  The host follows the destination, except for    *)
(* COPYFILE_EXCL, and empties it before it reads the source.               *)
CopyBytes(x, y) == SizeAt(x) - SizeAt(y)
CopyFile(x, y, excl) ==
  \E s, t \in Names :
    /\ LeadsTo(x, s) /\ IsFile(s)
    /\ IF excl THEN t = y ELSE LeadsTo(y, t)
    /\ LET b == CopyBytes(s, y)
           e == NewEntry(y)
       IN Measured(IF excl THEN "copyexcl" ELSE "copy", s, t, b, e, b, e,
                   \/ e # NewEntry(t) \/ SizeAt(t) # SizeAt(y)
                   \/ ~excl /\ dir[s] = dir[t])

(* Whether the host can do it, and what that does to names and sizes. *)
New == {i \in Inodes : Unused(i)}
Opens == ex.kind \in {"open", "opentrunc"}
Copies == ex.kind \in {"copy", "copyexcl"}

Possible ==
  LET x == ex.x
      y == ex.y
  IN CASE Opens -> IF dir[x] = Missing THEN New # {} ELSE IsFile(x)
       [] ex.kind \in {"mkdir", "symlink"} -> dir[x] = Missing
       [] ex.kind = "link" -> dir[y] = Missing
       [] ex.kind \in {"unlink", "rmtree"} -> TRUE
       [] ex.kind = "rename" -> dir[y] = Missing \/ (dir[x] = Dir <=> dir[y] = Dir)
       [] ex.kind \in {"truncate0", "truncate1"} -> IsFile(x)
       [] Copies -> IF dir[y] = Missing THEN New # {} ELSE ex.kind = "copy" /\ IsFile(y)

CopySize(x, y) == IF dir[x] = dir[y] THEN 0 ELSE SizeAt(x)
Create(x, n) == \E i \in New : dir' = [dir EXCEPT ![x] = i] /\ size' = [size EXCEPT ![i] = n]
Resize(x, n) == size' = [size EXCEPT ![dir[x]] = n] /\ UNCHANGED dir

Effect ==
  LET x == ex.x
      y == ex.y
  IN CASE Opens -> IF dir[x] = Missing THEN Create(x, 0) ELSE UNCHANGED <<dir, size>>
       [] Copies -> IF dir[y] = Missing THEN Create(y, SizeAt(x)) ELSE Resize(y, CopySize(x, y))
       [] ex.kind = "truncate0" -> Resize(x, 0)
       [] ex.kind = "truncate1" -> Resize(x, 1)
       [] ex.kind = "symlink" -> \E z \in Names : dir' = [dir EXCEPT ![x] = SoftLink(z)] /\ UNCHANGED size
       [] OTHER ->
            /\ dir' = CASE ex.kind = "mkdir" -> [dir EXCEPT ![x] = Dir]
                        [] ex.kind = "link" -> [dir EXCEPT ![y] = dir[x]]
                        [] ex.kind = "unlink" -> [dir EXCEPT ![x] = Missing]
                        [] ex.kind = "rmtree" -> [dir EXCEPT ![x] = Missing, ![y] = Missing]
                        [] ex.kind = "rename" /\ IsFile(x) /\ dir[x] = dir[y] -> dir
                        [] OTHER -> [dir EXCEPT ![x] = Missing, ![y] = dir[x]]
            /\ UNCHANGED size

OnHostDone ==
  /\ ex # NoOp /\ ex.st = "measured"
  /\ Possible /\ Effect
  /\ ex' = [ex EXCEPT !.st = "done"]
  /\ UNCHANGED <<fd, job, quota, history>>

(* The host operation fails and has changed nothing: the name is taken, is *)
(* a directory, or the host refuses.                                       *)
OnHostFails ==
  /\ ex # NoOp /\ ex.st = "measured"
  /\ HostFails \/ ~Possible
  /\ ex' = [ex EXCEPT !.st = "failed"]
  /\ UNCHANGED <<dir, size, fd, job, quota, history>>

(* A copy fails after its destination was created or emptied, an rm after  *)
(* a part of the subtree is gone.                                          *)
Torn ==
  /\ HostFails /\ ex # NoOp /\ ex.st = "measured"
  /\ ex' = [ex EXCEPT !.st = "failed"]
  /\ torn' = TRUE
  /\ UNCHANGED <<fd, job, quota, shared, loose, slack>>

CopyTears ==
  /\ Torn /\ Copies /\ Possible
  /\ IF dir[ex.y] = Missing THEN Create(ex.y, 0) ELSE Resize(ex.y, 0)

RmTears ==
  /\ Torn /\ ex.kind = "rmtree"
  /\ dir' = [dir EXCEPT ![ex.y] = Missing] /\ UNCHANGED size

Settles ==
  /\ ex # NoOp /\ ~Opens /\ ex.st \in {"done", "failed"}
  /\ IF ex.st = "done" THEN Settle(ex.rb, ex.re, ex.ab, ex.ae) ELSE Settle(ex.rb, ex.re, 0, 0)
  /\ ex' = NoOp
  /\ UNCHANGED <<dir, size, fd, job, history>>

(* Slip: a failed open keeps its reserved entry. *)
OpenFailsKept ==
  /\ ex # NoOp /\ Opens /\ ex.st = "failed"
  /\ ex' = NoOp
  /\ UNCHANGED <<dir, size, fd, job, quota, history>>

OpenFails ==
  /\ ex # NoOp /\ Opens /\ ex.st = "failed"
  /\ Settle(0, ex.re, 0, 0)
  /\ ex' = NoOp
  /\ UNCHANGED <<dir, size, fd, job, history>>

(* The opened file is measured, then emptied, then its old size is given   *)
(* back and the descriptor handed out.                                     *)
OpenMeasures ==
  /\ ex # NoOp /\ ex.kind = "opentrunc" /\ ex.st = "done"
  /\ ex' = [ex EXCEPT !.st = "sized", !.ab = -SizeAt(ex.x), !.ino = dir[ex.x]]
  /\ UNCHANGED <<dir, size, fd, job, quota, history>>

OpenEmpties ==
  /\ ex # NoOp /\ ex.st = "sized"
  /\ size' = [size EXCEPT ![ex.ino] = 0]
  /\ ex' = [ex EXCEPT !.st = "emptied"]
  /\ UNCHANGED <<dir, fd, job, quota, history>>

OpenHandsOut(f, append) ==
  /\ ex # NoOp /\ ((ex.kind = "open" /\ ex.st = "done") \/ ex.st = "emptied")
  /\ fd[f].ino = Missing
  /\ fd' = [fd EXCEPT ![f] = [ino |-> dir[ex.x], pos |-> 0, append |-> append]]
  /\ Settle(0, 0, ex.ab, 0)
  /\ ex' = NoOp
  /\ UNCHANGED <<dir, size, job, history>>

DescriptorSteps ==
  \E f \in Fds :
    \/ \E n \in Chunks : \/ \E given \in -1 .. MaxSize : Write(f, n, given)
                         \/ WriteOnHost(f, n) \/ WriteOnHost(f, 0)
    \/ WriteSettles(f)
    \/ \E len \in 0 .. MaxSize : Ftruncate(f, len)
    \/ FtruncateOnHost(f) \/ FtruncateSettles(f)
    \/ Close(f)

NameStarts ==
  /\ ex = NoOp
  /\ \/ \E x, y \in Names :
          Link(x, y) \/ Rename(x, y) \/ RmTree(x, y) \/ CopyFile(x, y, TRUE) \/ CopyFile(x, y, FALSE)
     \/ \E x \in Names : \/ Open(x, TRUE) \/ Open(x, FALSE) \/ Mkdir(x) \/ Symlink(x) \/ Unlink(x)
                         \/ \E len \in 0 .. 1 : Truncate(x, len)

NameSteps ==
  \/ OnHostDone \/ OnHostFails \/ CopyTears \/ RmTears \/ Settles
  \/ OpenFails \/ OpenMeasures \/ OpenEmpties
  \/ \E f \in Fds, append \in BOOLEAN : OpenHandsOut(f, append)

QuotaNext == DescriptorSteps \/ NameStarts \/ NameSteps
QuotaSpec == QuotaInit /\ [][QuotaNext]_quotaVars

-----------------------------------------------------------------------------
Quiet == ex = NoOp /\ \A f \in Fds : job[f] = NoOp

WriteOps == [kind : {"write"}, at : Nat, n : Nat, size : Nat, growth : Nat, moves : BOOLEAN, written : Nat \cup {-1}]
TruncateOps == [kind : {"ftruncate"}, len : 0 .. MaxSize, size : Nat, growth : Nat, done : {"no", "yes", "failed"}]
NameKinds ==
  {"open", "opentrunc", "mkdir", "symlink", "link", "unlink", "rmtree", "rename", "truncate0", "truncate1", "copy", "copyexcl"}
NameOps ==
  [kind : NameKinds,
   x : Names, y : Names, ino : Inodes \cup {Missing}, ino2 : Inodes \cup {Missing},
   rb : Int, re : {0, 1}, ab : Int, ae : {-2, -1, 0, 1},
   st : {"measured", "done", "failed", "sized", "emptied"}]

(* Every variable has its type. *)
QuotaTypeOK ==
  /\ dir \in [Names -> Inodes \cup Links \cup {Missing, Dir}]
  /\ size \in [Inodes -> 0 .. MaxSize]
  /\ fd \in [Fds -> [ino : Inodes \cup {Missing}, pos : Nat, append : BOOLEAN]]
  /\ job \in [Fds -> {NoOp} \cup WriteOps \cup TruncateOps]
  /\ ex \in {NoOp} \cup NameOps
  /\ quota \in [bytes : Int, entries : Nat]
  /\ torn \in BOOLEAN /\ shared \in BOOLEAN /\ loose \in BOOLEAN /\ slack \in BOOLEAN

(* A module that uses each file from one operation at a time is charged    *)
(* exactly what it stores: after any interleaving of its operations on     *)
(* different files, with host failures, the bytes counted are what a walk  *)
(* of its directories would measure, unless a copy or an rm failed         *)
(* half-way, a copy replaced what a link leads to or the file it reads, or *)
(* a position was given for a file opened to append.                       *)
BytesExact == Quiet /\ ~torn /\ ~shared /\ ~loose => quota.bytes = ActualBytes

(* Names are counted under the exclusive lock only: their number is exact  *)
(* whatever the descriptors do at the same time, unless a copy or an rm    *)
(* failed half-way or a name was made through a link.                      *)
EntriesExact == Quiet /\ ~torn /\ ~loose => quota.entries = ActualEntries

(* What the quota counts (quota.js, broker.js) is what a fresh walk would. *)
UsageExact == BytesExact /\ EntriesExact

(* "two operations racing at the edge cannot both pass" (quota.js): under  *)
(* enforce what is on the disk never exceeds the quota, at any moment of   *)
(* any operation, with the same exceptions, and unless it did at spawn or  *)
(* a copy onto a larger file gave room back before the host made it free.  *)
WithinLimit ==
  Enforce /\ ~torn /\ ~shared /\ ~loose /\ ~slack => ActualBytes <= MaxBytes /\ ActualEntries <= MaxEntries

(* "It is approximate in the safe direction: [...] usage drifts up, never  *)
(* down" (quota.js).  It fails for a module that uses each file from one   *)
(* operation at a time: a write with a position to a file opened to append *)
(* grows the file and is not counted.                                      *)
NeverUnder == Quiet /\ ~torn /\ ~shared => quota.bytes >= ActualBytes
=============================================================================
