----------------------------- MODULE FileBridge -----------------------------
(***************************************************************************)
(* The file bridge between module workers and the main thread: the         *)
(* worker's blocking and asynchronous calls (lib/fs-broker/client.js), the *)
(* main thread's end with its deadline and its stuck count (server.js),    *)
(* the module's read/write lock (rwlock.js), the scheduler that shares the *)
(* thread pool (scheduler.js) and the broker's descriptor table            *)
(* (broker.js).                                                            *)
(*                                                                         *)
(* The worker is a thread of its own: it interleaves with every step of    *)
(* the main thread.  The main thread is an event loop: a message, a timer  *)
(* or a finished host operation is taken up only when no promise           *)
(* continuation is pending (MainIdle).  What an operation does to files is *)
(* left to FileQuota and FilePaths; here it is a host operation that       *)
(* returns or hangs.                                                       *)
(***************************************************************************)
EXTENDS Naturals, Sequences, FiniteSets, SequencesExt

CONSTANTS Workers,    \* module workers (scheduler keys, one per spawn)
          Calls,      \* file calls, numbered in the order a worker makes them
          By,         \* the worker that makes a call
          May,        \* the operations a call may be, each blocking (TRUE) or not
          Mortal,     \* the workers that may exit
          NoCall,     \* no call, no descriptor
          GlobalCap,  \* host operations in flight, all workers together
          PerWorker,  \* perWorkerWhenContended
          QueueCap,   \* queued operations per worker
          MaxStuck,   \* unanswered-in-time operations that put a worker on EIO
          MaxFds      \* MAX_FDS

ASSUME BridgeConstants ==
  /\ Calls \subseteq Nat /\ IsFiniteSet(Calls) /\ By \in [Calls -> Workers]
  /\ May \in [Calls -> SUBSET ({"stat", "open", "rename", "create", "read", "close"} \X BOOLEAN)]
  /\ Mortal \subseteq Workers
  /\ NoCall \notin Calls \cup Workers
  /\ {GlobalCap, PerWorker, QueueCap, MaxStuck, MaxFds} \subseteq Nat \ {0}

VARIABLES client,   \* worker: the sync call it is in and where it is in its loop
          call,     \* call: operation, descriptor, progress on the main thread
          got,      \* call: the reply the worker's caller received
          port,     \* worker: replies in its sync port
          back,     \* replies in the async ports
          counter,  \* worker: the shared counter
          bump,     \* the worker whose counter the main thread is about to bump
          bridge,   \* worker: the bridge's own counters and its closed flag
          lock,     \* worker: the module's read/write lock
          sched,    \* the shared scheduler
          fds,      \* worker: descriptor table (a descriptor is its open call)
          chain,    \* descriptor: operations on it, in order
          hostOpen  \* descriptors open on the host

bridgeVars == <<client, call, got, port, back, counter, bump, bridge, lock, sched,
          fds, chain, hostOpen>>

(* Operations by what they take: a path with the shared lock (stat, open), *)
(* a path with the exclusive lock (rename, create) or a descriptor.        *)
SharedOps == {"stat", "open"}
ExclusiveOps == {"rename", "create"}
PathOps == SharedOps \cup ExclusiveOps
OpenOps == {"open", "create"}
FdOps == {"read", "close"}

Held(c) == call[c].op \in PathOps
Of(w) == {c \in Calls : By[c] = w}
Accepted == {"locking", "queued", "run", "opening", "rejected"}

(* A sequence that holds x once at most, without it. *)
Without(s, x) ==
  IF x \in ToSet(s)
  THEN LET at == CHOOSE i \in DOMAIN s : s[i] = x
       IN [j \in 1 .. Len(s) - 1 |-> IF j < at THEN s[j] ELSE s[j + 1]]
  ELSE s

BridgeInit ==
  /\ client = [w \in Workers |-> [pc |-> "idle", cur |-> NoCall, seen |-> 0]]
  /\ call = [c \in Calls |-> [op |-> "none", sync |-> FALSE, fd |-> NoCall, st |-> "new", res |-> "none"]]
  /\ got = [c \in Calls |-> <<>>]
  /\ port = [w \in Workers |-> <<>>]
  /\ back = {}
  /\ counter = [w \in Workers |-> 0]
  /\ bump = NoCall
  /\ bridge = [w \in Workers |-> [stuck |-> 0, syncIn |-> 0, inFlight |-> 0, closed |-> FALSE]]
  /\ lock = [w \in Workers |-> [readers |-> 0, writer |-> FALSE, queue |-> <<>>, granted |-> <<>>]]
  /\ sched = [queues |-> [w \in Workers |-> <<>>], order |-> <<>>,
              active |-> [w \in Workers |-> 0], running |-> 0, starting |-> <<>>]
  /\ fds = [w \in Workers |-> {}]
  /\ chain = [c \in Calls |-> <<>>]
  /\ hostOpen = {}

clientVars == <<client, got, counter>>
hostVars == <<lock, sched, fds, chain, hostOpen>>

-----------------------------------------------------------------------------
(* The worker's end. *)

(* A descriptor the module can name: one of its opens returned it. *)
Known(w) == {d \in Of(w) : call[d].op \in OpenOps /\ got[d] = <<d, "ok">>}

Post(c, op, sync, d) ==
  /\ call[c].st = "new"
  /\ \A e \in Of(By[c]) : e < c => call[e].st # "new"
  /\ client[By[c]].pc = "idle"
  /\ <<op, sync>> \in May[c]
  /\ IF op \in FdOps THEN d \in Known(By[c]) ELSE d = NoCall
  /\ call' = [call EXCEPT ![c] = [op |-> op, sync |-> sync, fd |-> d, st |-> "sent", res |-> "none"]]

PostSync(c, op, d) ==
  /\ Post(c, op, TRUE, d)
  /\ client' = [client EXCEPT ![By[c]] = [@ EXCEPT !.pc = "load", !.cur = c]]
  /\ UNCHANGED <<got, port, back, counter, bump, bridge, hostVars>>

PostAsync(c, op, d) ==
  /\ Post(c, op, FALSE, d)
  /\ UNCHANGED <<client, got, port, back, counter, bump, bridge, hostVars>>

(* The counter is read before the port is drained. *)
LoadCounter(w) ==
  /\ client[w].pc = "load"
  /\ client' = [client EXCEPT ![w].pc = "drain", ![w].seen = counter[w]]
  /\ UNCHANGED <<call, got, port, back, counter, bump, bridge, hostVars>>

(* Slip: any reply ends the loop. *)
AnyReply(w, m) == client[w].cur # NoCall

(* Replies to earlier calls are dropped, the call's own ends the loop.     *)
Mine(w, m) == m[1] = client[w].cur

Drain(w) ==
  /\ client[w].pc = "drain"
  /\ LET own == {i \in DOMAIN port[w] : Mine(w, port[w][i])} IN
     IF own = {}
     THEN /\ port' = [port EXCEPT ![w] = <<>>]
          /\ client' = [client EXCEPT ![w].pc = "check"]
          /\ UNCHANGED got
     ELSE LET i == Min(own) IN
          /\ port' = [port EXCEPT ![w] = SubSeq(@, i + 1, Len(@))]
          /\ got' = [got EXCEPT ![client[w].cur] = port[w][i]]
          /\ client' = [client EXCEPT ![w].pc = "idle", ![w].cur = NoCall]
  /\ UNCHANGED <<call, back, counter, bump, bridge, hostVars>>

(* Slip: the counter is read after the port was drained. *)
SleepsAnyway(w) == TRUE

(* Atomics.wait: sleeps only while the counter is what was read. *)
Sleeps(w) == counter[w] = client[w].seen

Wait(w) ==
  /\ client[w].pc = "check"
  /\ client' = [client EXCEPT ![w].pc = IF Sleeps(w) THEN "asleep" ELSE "load"]
  /\ UNCHANGED <<call, got, port, back, counter, bump, bridge, hostVars>>

(* The backstop: the main thread was blocked past it. *)
Backstop(w) ==
  /\ client[w].pc \in {"check", "asleep"}
  /\ got' = [got EXCEPT ![client[w].cur] = <<client[w].cur, "EIO">>]
  /\ client' = [client EXCEPT ![w].pc = "idle", ![w].cur = NoCall]
  /\ UNCHANGED <<call, port, back, counter, bump, bridge, hostVars>>

ReceiveAsync(c) ==
  /\ c \in back
  /\ client[By[c]].pc = "idle"
  /\ back' = back \ {c}
  /\ got' = [got EXCEPT ![c] = <<c, call[c].res>>]
  /\ UNCHANGED <<client, call, port, counter, bump, bridge, hostVars>>

(* The thread ends; what it knew and what was in its ports is gone with it. *)
WorkerExits(w) ==
  /\ w \in Mortal /\ client[w].pc # "gone"
  /\ client' = [client EXCEPT ![w] = [pc |-> "gone", cur |-> NoCall, seen |-> 0]]
  /\ got' = [c \in Calls |-> IF By[c] = w THEN <<>> ELSE got[c]]
  /\ port' = [port EXCEPT ![w] = <<>>]
  /\ back' = back \ Of(w)
  /\ counter' = [counter EXCEPT ![w] = 0]
  /\ UNCHANGED <<call, bump, bridge, hostVars>>

-----------------------------------------------------------------------------
(* The scheduler: one visit of the round robin, one pass over every worker, *)
(* passes until none starts anything (a pass that starts nothing is a full  *)
(* turn of the rotation, so it changes nothing).                            *)

WaitingOthers(s, w) == \E v \in Workers \ {w} : s.queues[v] # <<>>

Visit(s) ==
  LET w == Head(s.order)
      t == [s EXCEPT !.order = Append(Tail(@), w)]
  IN IF \/ s.queues[w] = <<>>
        \/ s.active[w] >= PerWorker /\ WaitingOthers(s, w)
     THEN t
     ELSE [t EXCEPT !.queues[w] = Tail(@), !.active[w] = @ + 1, !.running = @ + 1,
                    !.starting = Append(@, Head(s.queues[w]))]

Pass(s) ==
  LET after[i \in 0 .. Len(s.order)] ==
        IF i = 0 THEN s ELSE LET t == after[i - 1] IN IF t.running < GlobalCap THEN Visit(t) ELSE t
  IN after[Len(s.order)]

Pump(s) == LET after[i \in 0 .. GlobalCap] == IF i = 0 THEN s ELSE Pass(after[i - 1]) IN after[GlobalCap]

InRotation(s, w) == w \in ToSet(s.order)
Submitted(s, c) ==
  LET w == By[c]
      t == IF InRotation(s, w) THEN s ELSE [s EXCEPT !.order = Append(@, w)]
  IN Pump([t EXCEPT !.queues[w] = Append(@, c)])

(* Slip: a freed slot is left to the next submit. *)
FreedOnly(s, w) == [s EXCEPT !.running = @ - 1, !.active[w] = @ - 1]

Freed(s, w) == Pump([s EXCEPT !.running = @ - 1, !.active[w] = @ - 1])

(* The lock: the head of its queue if it is exclusive and nobody reads, or *)
(* the shared requests before the first exclusive one.                     *)
LeadingShared(q) == Max({k \in 0 .. Len(q) : \A i \in 1 .. k : call[q[i]].op \in SharedOps})

(* Slip: a waiting reader does not look at the writer. *)
GrantsReaders(l) ==
  LET n == LeadingShared(l.queue)
      take(k) == [l EXCEPT !.queue = SubSeq(@, k + 1, Len(@)), !.granted = @ \o SubSeq(l.queue, 1, k)]
  IN IF n > 0 THEN [take(n) EXCEPT !.readers = @ + n]
     ELSE IF l.writer \/ l.queue = <<>> \/ l.readers > 0 THEN l
     ELSE [take(1) EXCEPT !.writer = TRUE]

Granting(l) ==
  LET n == LeadingShared(l.queue)
      take(k) == [l EXCEPT !.queue = SubSeq(@, k + 1, Len(@)), !.granted = @ \o SubSeq(l.queue, 1, k)]
  IN IF l.writer \/ l.queue = <<>> THEN l
     ELSE IF n > 0 THEN [take(n) EXCEPT !.readers = @ + n]
     ELSE IF l.readers > 0 THEN l
     ELSE [take(1) EXCEPT !.writer = TRUE]

Enqueued(l, c) == Granting([l EXCEPT !.queue = Append(@, c)])

LockReleased(l, c) ==
  Granting(IF call[c].op \in ExclusiveOps THEN [l EXCEPT !.writer = FALSE] ELSE [l EXCEPT !.readers = @ - 1])

-----------------------------------------------------------------------------
(* The main thread's end. *)

MainIdle ==
  /\ bump = NoCall
  /\ sched.starting = <<>>
  /\ \A w \in Workers : lock[w].granted = <<>>
  /\ \A c \in Calls : call[c].st # "rejected"

Reply(c, res) ==
  LET w == By[c] IN
  IF bridge[w].closed \/ client[w].pc = "gone" THEN UNCHANGED <<port, back, bump>>
  ELSE IF call[c].sync
       THEN /\ port' = [port EXCEPT ![w] = Append(@, <<c, res>>)]
            /\ bump' = w
            /\ UNCHANGED back
       ELSE /\ back' = back \cup {c}
            /\ UNCHANGED <<port, bump>>

(* The rest of a sync reply: the counter is bumped and the sleeper woken.  *)
Notified(w) == [client EXCEPT ![w].pc = IF @ = "asleep" THEN "load" ELSE @]

Bump ==
  /\ bump # NoCall
  /\ counter' = [counter EXCEPT ![bump] = @ + 1]
  /\ client' = Notified(bump)
  /\ bump' = NoCall
  /\ UNCHANGED <<call, got, port, back, bridge, hostVars>>

SyncIn(c) == IF call[c].sync THEN 1 ELSE 0

(* The work of call c ends with res: the slot and the lock are given back, *)
(* the operation is no longer counted, and the reply is sent unless the    *)
(* deadline was first.                                                     *)
WorkEnds(c, res) ==
  LET w == By[c]
      late == call[c].res # "none"
  IN /\ lock' = IF Held(c) THEN [lock EXCEPT ![w] = LockReleased(@, c)] ELSE lock
     /\ call' = [call EXCEPT ![c].st = "over", ![c].res = IF late THEN @ ELSE res]
     /\ bridge' = [bridge EXCEPT ![w].inFlight = @ - 1,
                                 ![w].stuck = IF late THEN @ - 1 ELSE @,
                                 ![w].syncIn = IF late THEN @ ELSE @ - SyncIn(c)]
     /\ IF late THEN UNCHANGED <<port, back, bump>> ELSE Reply(c, res)

Refused(c, res) ==
  /\ Reply(c, res)
  /\ call' = [call EXCEPT ![c].st = "over", ![c].res = res]

(* broker.handle: the operation queues for the lock, or for the scheduler  *)
(* when it names a descriptor.                                             *)
QueueFull(w) == Len(sched.queues[w]) >= QueueCap

Handle(c) ==
  LET w == By[c] IN
  /\ IF Held(c)
     THEN /\ lock' = [lock EXCEPT ![w] = Enqueued(@, c)]
          /\ call' = [call EXCEPT ![c].st = "locking"]
          /\ UNCHANGED sched
     ELSE /\ call' = [call EXCEPT ![c].st = IF QueueFull(w) THEN "rejected" ELSE "queued"]
          /\ sched' = IF QueueFull(w) THEN sched ELSE Submitted(sched, c)
          /\ UNCHANGED lock
  /\ bridge' = [bridge EXCEPT ![w].inFlight = @ + 1, ![w].syncIn = @ + SyncIn(c)]
  /\ UNCHANGED <<client, got, counter, port, back, bump, fds, chain, hostOpen>>

(* A message arrives: EIO for a second sync call in flight and for a       *)
(* worker with too many stuck operations.                                  *)
Receive(c) ==
  LET w == By[c] IN
  /\ MainIdle
  /\ call[c].st = "sent"
  /\ ~bridge[w].closed
  /\ IF (call[c].sync /\ bridge[w].syncIn > 0) \/ bridge[w].stuck >= MaxStuck
     THEN /\ Refused(c, "EIO")
          /\ UNCHANGED <<client, got, counter, bridge, hostVars>>
     ELSE Handle(c)

(* The lock was granted: submit to the scheduler. *)
SubmitGranted(w) ==
  /\ bump = NoCall
  /\ lock[w].granted # <<>>
  /\ LET c == Head(lock[w].granted) IN
     /\ call' = [call EXCEPT ![c].st = IF QueueFull(w) THEN "rejected" ELSE "queued"]
     /\ sched' = IF QueueFull(w) THEN sched ELSE Submitted(sched, c)
  /\ lock' = [lock EXCEPT ![w].granted = Tail(@)]
  /\ UNCHANGED <<client, got, port, back, counter, bump, bridge, fds, chain, hostOpen>>

(* EMFILE past the queue's cap, EIO for what was queued when the bridge    *)
(* closed: the work ends without having had a slot.                        *)
Reject(c) ==
  /\ bump = NoCall
  /\ call[c].st = "rejected"
  /\ WorkEnds(c, IF bridge[By[c]].closed THEN "EIO" ELSE "EMFILE")
  /\ UNCHANGED <<clientVars, sched, fds, chain, hostOpen>>

(* A task starts.  One that names a descriptor looks it up now, and joins  *)
(* the descriptor's chain; close takes it out of the table now.            *)
Start ==
  /\ bump = NoCall
  /\ sched.starting # <<>>
  /\ LET c == Head(sched.starting)
         w == By[c]
         d == call[c].fd
         sc == [sched EXCEPT !.starting = Tail(@)]
     IN IF call[c].op \in FdOps /\ d \notin fds[w]
        THEN /\ WorkEnds(c, "EBADF")
             /\ sched' = Freed(sc, w)
             /\ UNCHANGED <<fds, chain, hostOpen>>
        ELSE /\ sched' = sc
             /\ call' = [call EXCEPT ![c].st = "run"]
             /\ chain' = IF d = NoCall THEN chain ELSE [chain EXCEPT ![d] = Append(@, c)]
             /\ fds' = IF call[c].op = "close" THEN [fds EXCEPT ![w] = @ \ {d}] ELSE fds
             /\ UNCHANGED <<lock, bridge, port, back, bump, hostOpen>>
  /\ UNCHANGED clientVars

(* A host operation returns. *)
HostDone(c, res) ==
  /\ WorkEnds(c, res)
  /\ sched' = Freed(sched, By[c])
  /\ UNCHANGED clientVars

RunPath(c) ==
  /\ MainIdle
  /\ call[c].st = "run" /\ call[c].op \in PathOps \ OpenOps
  /\ HostDone(c, "ok")
  /\ UNCHANGED <<fds, chain, hostOpen>>

(* open: placed on the host, then the table's size is checked. *)
TableFull(w) == Cardinality(fds[w]) >= MaxFds

RunOpen(c) ==
  /\ MainIdle
  /\ call[c].st = "run" /\ call[c].op \in OpenOps
  /\ IF TableFull(By[c])
     THEN HostDone(c, "EMFILE")
     ELSE /\ call' = [call EXCEPT ![c].st = "opening"]
          /\ UNCHANGED <<clientVars, port, back, bump, bridge, lock, sched>>
  /\ UNCHANGED <<fds, chain, hostOpen>>

OpenDone(c) ==
  /\ MainIdle
  /\ call[c].st = "opening"
  /\ \/ /\ HostDone(c, "ok")
        /\ fds' = [fds EXCEPT ![By[c]] = @ \cup {c}]
        /\ hostOpen' = hostOpen \cup {c}
     \/ /\ HostDone(c, "ENOENT")
        /\ UNCHANGED <<fds, hostOpen>>
  /\ UNCHANGED chain

(* Slip: an operation does not wait for the descriptor's chain. *)
IsAnyNext(c) == TRUE

(* Operations on one descriptor run one after another; close runs last.    *)
IsNext(c) == Head(chain[call[c].fd]) = c

RunFd(c) ==
  /\ MainIdle
  /\ call[c].st = "run" /\ call[c].op \in FdOps /\ IsNext(c)
  /\ HostDone(c, "ok")
  /\ chain' = [chain EXCEPT ![call[c].fd] = Without(@, c)]
  /\ hostOpen' = IF call[c].op = "close" THEN hostOpen \ {call[c].fd} ELSE hostOpen
  /\ UNCHANGED fds

(* Past the deadline the call is answered; its work goes on, and counts as *)
(* stuck until it ends.                                                    *)
Deadline(c) ==
  /\ MainIdle
  /\ call[c].st \in Accepted /\ call[c].res = "none"
  /\ Reply(c, "ETIMEDOUT")
  /\ call' = [call EXCEPT ![c].res = "ETIMEDOUT"]
  /\ bridge' = [bridge EXCEPT ![By[c]].stuck = @ + 1, ![By[c]].syncIn = @ - SyncIn(c)]
  /\ UNCHANGED <<client, got, counter, hostVars>>

(* Slip: closing forgets the operations that still run. *)
ClosedIdle(b) == [b EXCEPT !.closed = TRUE, !.inFlight = 0]

(* The worker is gone: its queue is forgotten, its descriptors closed.     *)
Closed(b) == [b EXCEPT !.closed = TRUE]
Forgotten(s, w) == [s EXCEPT !.queues[w] = <<>>, !.order = Without(@, w)]

CloseBridge(w) ==
  /\ MainIdle
  /\ client[w].pc = "gone"
  /\ ~bridge[w].closed
  /\ bridge' = [bridge EXCEPT ![w] = Closed(@)]
  /\ sched' = Forgotten(sched, w)
  /\ call' = [c \in Calls |-> IF c \in ToSet(sched.queues[w]) THEN [call[c] EXCEPT !.st = "rejected"] ELSE call[c]]
  /\ fds' = [fds EXCEPT ![w] = {}]
  /\ hostOpen' = hostOpen \ fds[w]
  /\ UNCHANGED <<client, got, port, back, counter, bump, lock, chain>>

(* What goes on by itself: the worker's loop, the main thread's event loop *)
(* and its timers.  A host operation need never return.                    *)
Progress ==
  \/ \E w \in Workers : LoadCounter(w) \/ Drain(w) \/ Wait(w) \/ SubmitGranted(w)
  \/ \E c \in Calls : ReceiveAsync(c) \/ Receive(c) \/ Reject(c) \/ Deadline(c)
  \/ Bump \/ Start

HostStep == \E c \in Calls : RunPath(c) \/ RunOpen(c) \/ OpenDone(c) \/ RunFd(c)

BridgeNext ==
  \/ \E c \in Calls, op \in PathOps \cup FdOps, d \in Calls \cup {NoCall} : PostSync(c, op, d) \/ PostAsync(c, op, d)
  \/ Progress
  \/ HostStep
  \/ \E w \in Workers : Backstop(w) \/ WorkerExits(w) \/ CloseBridge(w)

BridgeSpec == BridgeInit /\ [][BridgeNext]_bridgeVars

(* Calls are finite in number and no loop of Progress goes on without a    *)
(* reply, so that both threads keep running is all that is assumed.        *)
Fairness == WF_bridgeVars(Progress)

BridgeLiveSpec == BridgeSpec /\ Fairness

-----------------------------------------------------------------------------
OnHost(c) == call[c].st \in {"run", "opening"}

Results == {"none", "ok", "EIO", "EMFILE", "EBADF", "ENOENT", "ETIMEDOUT"}
CallStates == [op : PathOps \cup FdOps \cup {"none"}, sync : BOOLEAN, fd : Calls \cup {NoCall},
               st : Accepted \cup {"new", "sent", "over"}, res : Results]
LockStates == [readers : Nat, writer : BOOLEAN, queue : Seq(Calls), granted : Seq(Calls)]
SchedStates == [queues : [Workers -> Seq(Calls)], order : Seq(Workers), active : [Workers -> Nat],
                running : Nat, starting : Seq(Calls)]

(* Every variable has its type. *)
BridgeTypeOK ==
  /\ client \in [Workers -> [pc : {"idle", "load", "drain", "check", "asleep", "gone"},
                            cur : Calls \cup {NoCall}, seen : Nat]]
  /\ call \in [Calls -> CallStates] /\ got \in [Calls -> {<<>>} \cup (Calls \X Results)]
  /\ port \in [Workers -> Seq(Calls \X Results)] /\ back \subseteq Calls
  /\ counter \in [Workers -> Nat] /\ bump \in Workers \cup {NoCall}
  /\ bridge \in [Workers -> [stuck : Nat, syncIn : {0, 1}, inFlight : Nat, closed : BOOLEAN]]
  /\ lock \in [Workers -> LockStates] /\ sched \in SchedStates
  /\ fds \in [Workers -> SUBSET Calls] /\ chain \in [Calls -> Seq(Calls)]
  /\ hostOpen \subseteq Calls

(* What a blocking call returns is the reply to that very call: one that   *)
(* comes after the backstop gave up is not taken for the next call's.      *)
OwnReply == \A c \in Calls : got[c] # <<>> => got[c][1] = c

(* A call holds its module's path lock. *)
Holds(c) ==
  /\ Held(c) /\ call[c].st \in Accepted
  /\ call[c].st = "locking" => c \in ToSet(lock[By[c]].granted)

(* On one module's paths an exclusive operation runs alone, from its       *)
(* lock's grant until the host has answered, deadline or not.              *)
LockExcludes ==
  \A c, d \in Calls : c # d /\ By[c] = By[d] /\ Holds(c) /\ Holds(d) => {call[c].op, call[d].op} \subseteq SharedOps

(* A descriptor an operation uses is open on the host: close waits for the *)
(* operations started before it and none can start after it.               *)
InUseIsOpen ==
  \A d \in Calls : chain[d] # <<>> /\ ~bridge[By[d]].closed => d \in hostOpen

(* Nothing waits for nothing: a lock with waiters is held, a worker with   *)
(* queued operations has used the pool up or its share of it, and a        *)
(* descriptor's chain is headed by an operation that is on the host.       *)
WaitsForHost ==
  MainIdle =>
    /\ \A w \in Workers : lock[w].queue # <<>> => \E c \in Of(w) : Holds(c)
    /\ \A w \in Workers : sched.queues[w] # <<>> => sched.running = GlobalCap \/ sched.active[w] >= PerWorker
    /\ sched.running = Cardinality({c \in Calls : OnHost(c)})
    /\ \A d \in Calls : chain[d] # <<>> => OnHost(Head(chain[d]))

(* What is on the host is there in order: lock, descriptor chains and      *)
(* scheduler (rwlock.js, broker.js, scheduler.js) let in what they may and *)
(* hold nothing back that could go.                                        *)
HostInOrder == LockExcludes /\ InUseIsOpen /\ WaitsForHost

(* Once a bridge is closed and its broker reports idle (module-lifecycle   *)
(* waits for both, for 35 s at most, before the module's directories are   *)
(* removed or reused), no operation of the worker is on the host or on its *)
(* way there.                                                              *)
QuietWhenIdle ==
  \A w \in Workers : bridge[w].closed /\ bridge[w].inFlight = 0 => \A c \in Of(w) : call[c].st \notin Accepted

(* A call whose worker blocks in it. *)
Owed(c) == call[c].st # "new" /\ got[c] = <<>> /\ client[By[c]].pc # "gone"

(* Every call is answered, by the deadline at the latest, even if the host *)
(* operations ahead of it never return: no wake-up is lost between the     *)
(* client's counter, its port and the server.                              *)
Answered == []<>(\A c \in Calls : ~Owed(c))
=============================================================================
