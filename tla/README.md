# TLA+ models of countinghouse

countinghouse runs third-party *modules* as metered services: each module is
loaded into a worker thread of one Node.js process, announces *devices* with
*actions*, and is called over HTTP, over MCP, by background jobs and by other
modules. Every successful call is authorised and charged. This directory models
the parts of `src/lib/` whose correctness depends on the order of events in
several threads or across several awaits: a client's call from the HTTP door to
the ledger, calls between modules on both of their transports, the brokering of
direct channels, discovery, the life of a module's workers, background jobs and
the MCP tasks built on them, the MCP gateway, what each API key may see, and the
file broker that stands between a sandboxed module and the disk.

Paths below are relative to the repository. Line numbers of every definition
are in `PROJECT.json` under `map`.

## 1. The system

### 1.1 Components, their state and operations

| Component | Source | State | Operations | Modelled in |
|---|---|---|---|---|
| Direct peer channel | `lib/peer-channel.js` | `pending`, `sendQueue`, `activeSends`, `dispatchQueue`, `activeDispatches`, `closed` per end | `invoke`, timers, `_handleInvoke`, `_handleReply`, the two drains, `invalidate`, the port's `close` | `PeerChannel` |
| Peer channel broker | `lib/peer-channel-broker.js` | `channelRegistry` with its grants, `recheckInFlight` | `handleRequest`, `grant`, `recheckGrants`, `closeRevoked`, `invalidateWorker`, `handleMeteringRequest` | `PeerBroker` (metering: `PeerChannel`) |
| Device manager | `lib/device-manager.js` | `deviceMap`, `notifyDeviceLoad`, `allDevicesLoaded`, `peerChannels`, `peerDeviceWorkerMap`, `pendingPeerInvokes`, `jobsInFlight` | device announcements and queries, purge, composition verdicts, client, foreign and job invocations, `onPeerChannel*` | `Discovery`, `ServiceCall`, `RoutedHop`, `PeerBroker`, `JobTasks` |
| Worker message ports | `lib/worker-message.js`, `lib/sandbox.js` | `msgQueue`, `msgID`, `ended`, token bucket | send, reply, `endWith` | with the protocol each message belongs to |
| Session and timers | `lib/session.js`, `lib/timer.js` | callback, device timer, metered tool | `callback` (once), expiry, `recordMeteredCall` | `ServiceCall`, `RoutedHop` |
| In-worker dispatch | `lib/service.js`, `lib/handler-ctx.js` | the settled flag of a call, cached service clients | `invokeAction`, `ctx.call` | `ServiceCall` |
| Module manager | `lib/module-manager.js` | `modules`, the workers' flags, `noofLoadedModules`, validation slots | load, reload, unload, restart, uninstall, exits, discovery, validation | `ModuleWorkers`, `Discovery`, `McpGateway` |
| Module supervisor | `lib/module-supervisor.js` | one record a name: state, exits, timer, retained specs | `track`, `exited`, `clear`, `suspend`, `isCurrent` | `ModuleWorkers`, `ToolCatalog` |
| Lifecycle lock | `lib/module-lifecycle.js` | chain of critical sections, tracked worker | `run`, `live`, `settled` | `ModuleWorkers` |
| Job control | `lib/job-control.js` (on bullmq) | jobs, attempts, promises, schedulers, history lists | `addJob`, the processor, `getJob`, `removeJob`, `listJobs`, `getJobHistory` | `JobTasks`, `TenantDoors` |
| MCP gateway | `lib/mcp/*.js`, `lib/plan-validator.js` | tool targets and names, batches, stamped schemas | lists, calls, tasks, balances, plans, authoring tools | `ToolCatalog`, `McpGateway`, `JobTasks`, `TenantDoors` |
| HTTP routes | `lib/routes/*.js`, `lib/route-manager.js` | none of their own | the gates in front of each operation | `TenantDoors`, `ServiceCall`, `McpGateway`, `ModuleWorkers` |
| Metering | `lib/metering/*.js` | Redis balances, free calls, ledger | `recordCall` and its script | `ServiceCall`; in the hop modules one step with three outcomes |
| Authorisation | `lib/user-auth.js`, `lib/auth/*` | users, admins, grants | `authenticate`, `listDevices`, the operator's tool | `TenantDoors`; elsewhere an asynchronous answer |
| Rate limiting | `lib/rate-limit-gate.js` | counters in Redis | allow, refuse | `ServiceCall`; elsewhere a refusal at any message |
| File broker | `lib/fs-broker/*` | shared counter, ports, deadlines, read-write locks, scheduler, descriptors, quota | file requests of a worker | `FileBridge`, `FileQuota` |
| Path handling | `lib/fs-broker/namespace.js`, `broker.js` | roots, realpath cache | placement, verification of opened files | `FilePaths` |
| Patched `fs`, lockdown, single-thread mode, validators, logging | | | | no (section 6) |

### 1.2 How they interact

The main thread owns `deviceMap`, `modules`, the supervisor, the broker, the job
queue and the metering and auth providers. Each module worker talks to it over
one FIFO `parentPort` in each direction (`WorkerMessage`). A module that calls
another module's device does so through `ServiceClient.invoke`:

* *routed* (`--no-directPeerChannels`): caller worker → main thread →
  `userAuth` → callee worker → main thread → `recordCall` → caller worker. The
  main thread keeps a `Session` with a timer and a `msgQueue` entry for each call;
* *direct* (the default): the first call for a device asks the broker for a
  channel; the broker authorises it, creates a `MessageChannel` and hands one
  port to each worker. Later calls go over it without the main thread, which
  only meters them when the callee asks it to.

`docs/direct-peer-channels.md` promises that the flag changes the transport only.
`HopContract` states what a caller may rely on in either case, and both
transports are shown to implement it.

A worker that exits is purged from `deviceMap`, its channels are invalidated, the
requests it owed are answered by `endWith`, and the supervisor restarts the module
with a backoff or suspends it. Spawns and uninstalls of one module name run one
at a time under the lifecycle lock. A background job reaches a worker through
`invokeJobs`, and an MCP task is such a job, read with `tasks/result`.

Under `--moduleSandbox` a worker has no file system of its own: each `fs` call is
a message to the main thread's broker, and a synchronous one blocks the worker on
a shared counter until the reply is in its port. The broker checks the path,
takes the module's lock, waits for its share of the thread pool and accounts for
what the module stores.

An HTTP client's action, an MCP `tools/call` and a background job end in the same
place: a session in the main thread, an `invoke-action` message, the handler in
the worker, and a charge when it succeeded. The MCP gateway names tools after
what is online at that moment, so names move when modules come and go.

### 1.3 What is hard here

Everything is single-threaded between two awaits, so the hazards are at the
awaits, the ports and the exits (PROJECT.json, `hazards`, has each at its line):

* reply, timer, invalidation, port close and worker exit race to answer one call;
* a call that timed out is still running at the other end: its late answer must
  release what it holds and nothing else;
* a worker or channel looked up before an asynchronous authorisation is used
  after it;
* ports, grants, acknowledgements and invalidations for one pair of workers cross;
* a supervised restart crosses an operator's load, unload or uninstall;
* Redis may fail after a charge was applied, and overlapping charges spend the
  same balance;
* a handler reports by callback, promise and exception, perhaps all three;
* a worker sleeps on a counter that another thread bumps, and a late reply to a
  call it gave up on arrives during the next;
* a path is checked, opened, verified and truncated in separate host operations;
* what is counted for a module is reserved before and settled after its host
  operation, beside others;
* authorisation is two queries, and an operator edits the tables between them;
* the tool a client saw under a name, the one authorised, the one run and the one
  billed are looked up at different moments.

What makes each component correct: a call is answered once and its slot comes
back once (channel); queued calls always have one request under way for them,
and a revoked grant stops working (broker); one worker a name, none orphaned,
every request answered (module manager); a job ends, is charged for what it did,
and its result is reported as what it is (jobs); queued queries are answered and
discovery ends (device manager); a request is answered once, and billed to its
own caller when it was served (sessions, metering); names are distinct and what
is billed is what ran (gateway); tenants never meet (doors); a blocked worker is
woken with its own answer, writers are alone, usage is exact, and no file outside
the roots is handed out (file broker).

## 2. Modules

One action is one event-loop turn of one thread, with everything it does in that
turn; messages travel between actions. Names follow the source.

* **`HopContract`**: the abstract specification of a call between modules. A hop
  is asked for, may be charged once, and is answered once. A reported bill was
  charged; a refused hop is not charged, ever; only a caller that gave up may be
  charged after its answer.
* **`PeerChannel`**: both ends of one channel and the hop `onInvoke` serves.
  `Invoke`, `TimerFires`, `HandleReply` (with `DrainSendQueue`),
  `CallerInvalidated` and `CallerPortClose` are the caller's; `HandleInvoke`,
  `ActionFails`, `ActionUnbillable`, `ActionSucceeds`, `FinishMeteredHop` (each
  replying with the whole recursive drain of the dispatch queue),
  `CalleeInvalidated`, `CalleePortClose` and `CalleeExits` the callee's;
  `HandleMeteringRequest` the main thread's. A call is its message id.
* **`RoutedHop`**: the same call carried by the main thread: `MainReceives`,
  `AuthAnswers`, `TimerExpires`, `MainReply`, `StoreCharges`, `MeteringAnswers`,
  `CalleeExitEvent` with `endWith`, and the two workers, either of which may exit.
* **`PeerBroker`**: the control plane: the registry, the lookups in flight, both
  ports of every worker, `peerDeviceWorkerMap`, `peerChannels` and
  `pendingPeerInvokes` of each worker, and each channel's two ends. A channel is
  its number; what travels on it is `PeerChannel`. A port posted to a worker that
  has ended is *stranded*: nothing will ever close it.
* **`ModuleWorkers`**: all workers of one module name: operator requests (`Load`,
  `Restart`, `Unload`, `Uninstall`), the unload handshake (`FinishUnload`,
  `UnloadEnded`), the lock's critical sections (`StartJob` to `WalkSucceeds` and
  `DeleteDone`), the threads (`LoadReply`, `Crash`, `ErrorEvent`, `ExitEvent`,
  `Settle`) and the supervisor (`Exited`, `RestartFails`, `RestartTimer`).
  Promise continuations (`Continuation`) run before the next event, as
  microtasks do. In the supervisor's window, exits age only while the module
  runs, and delays are timers that may fire at any moment.
* **`JobTasks`**: one queue, the module that runs the jobs, the attempts with
  their promises, `jobsInFlight`, the completion hook and one reader. Every load
  of the module brings its own output schema, named by the load's number. A
  failed attempt is retried as bullmq does it (external); the delay before the
  retry is left out.

* **`Discovery`**: the startup list, the worker's and the main thread's halves of
  load and discover, `notifyDeviceLoad`, the passes of `verifyComposition` (each
  device of a pass is a job of its own), crashes, restarts and run-time loads. A
  worker is its module and a generation, because the main thread keeps references
  to workers that have ended. Its end is two steps, the purge (`Purge`) and the
  thread's exit (`ThreadExits`), with its port still read between them; an exit
  that an unload was waiting for is the other order (`ExitsUnloading`,
  `UnloadEnds`). `late` remembers the workers heard of after their purge.
* **`ServiceCall`**: one HTTP request from authentication to ledger: the limiters,
  the session and its timer, the worker's validation of input and output, the
  handler with its three ways to report, one `ctx.call` hop through the cached
  client, the reply, the session's charge and the hop's, and the Redis script as
  one step on free calls and balance. The hop's transport is `RoutedHop` and
  `PeerChannel`. Call logging assumes `--apiMonitor`.
* **`ToolCatalog`**: the devices and retained specs the gateway draws on and the
  tool names made of them (`DedupeName`, `ToolTargets`, `PlanOk`, `Predicted`). An
  action's description is missing, blank or a text: the registry wants a text
  (`Readable`), a plan is content with blanks.
  **`McpGateway`** extends it with the batches of several clients: lists, calls
  with both authorisations and the schema lookup, balances, tasks, plans, loads
  with their deadline and validations with their slots.
* **`TenantDoors`**: the file and sqlite providers, the operator's tool, the job
  routes and `tasks/*` methods with their gates and ownership checks, schedulers,
  and the history list written behind queue events. Jobs may be delayed, retried
  or stall, and the write of an event may be lost (`lost`); an operator may grant
  to a key without a row (`stray`), and a removal may fail between its statements.
* **`FileBridge`**: a worker's blocking and asynchronous file calls, step by step
  on the worker's side (load, drain, check, wait), and the main thread's deadline,
  stuck count, read-write lock, scheduler and descriptor chains. Promise
  continuations run before the next message, timer or host completion
  (`MainIdle`). **`FileQuota`** and **`FilePaths`** take up what an operation does
  to the quota and where its path leads; they share no state with the bridge but
  the rule that exclusive operations are alone, which `HostInOrder` establishes.
  In `FileQuota` a name is missing, a directory, a link or a name of a file; in
  `FilePaths` the module works on one name in one directory, which is missing,
  the directory or a link, and which its own operations and others may replace.

`*Proofs` modules and `QueueLemmas` are section 5. `MC*` modules give the
constants their values. Definitions marked *Mutant* or *Slip* are wrong on purpose: each is a plausible slip in the code beside it, and
putting it in that code's place must violate the property `PROJECT.json` pairs it
with.

How the modules fit: `HopContract` is implemented by `PeerChannel` and
`RoutedHop`; `McpGateway` extends `ToolCatalog`. The others meet at an interface
that one side models in detail and the other as an outcome, named in each
module's header (a hop in `ServiceCall`, a job's run in `TenantDoors`, a worker's
coming and going in `ToolCatalog`, a host operation in `FileBridge`).

## 3. Runs

### 3.1 What holds

| Run | Instance | Distinct states | Shows |
|---|---|---|---|
| `peer_channel` | 4 calls (one not granted, one not billable), 2 send slots, 1 dispatch slot | 347518 | one answer a call; both windows exact; nothing stale sent; `HopContract` implemented; answered without any timer |
| `routed_hop` | 3 calls (one not authorised, one not billable) | 71626 | one owner for every waiting call; `HopContract` implemented; answered by the transport alone, and by the timers alone |
| `peer_broker` | caller, callee with two devices that may end, its successor, 2 channels, one revocable right | 72690 | one request under way for every queued call; the registry agrees with the channels; a channel is revoked for a cause of its own; a revocation takes effect for good |
| `module_workers` | 3 operator requests, 4 workers, suspended at the third exit | 118170 | workers never overlap, none is orphaned; what is unloaded or uninstalled stays away; a restarting module has a restart ahead of it; requests are answered, once |
| `job_tasks` | 1 job, 2 attempts, 3 loads, one reader, one asking worker | 1596391 | charged once, plus once for each given-up attempt; workers see only jobs they were given; a completed read has its result; jobs finish |
| `discovery` | 3 modules on 2 devices, 2 workers each, either 1 end for good or for a time or a run-time load of the third, which claims another's device; an asynchronous provider, one asker | 210479 | queued queries, mapped devices and verdicts agree with the workers; discovery ends, but for the two cases of section 3.2 |
| `service_call` | 2 requests (an action and one of each kind), same or different callers, 1 free call, no funds, 2 reports a handler, 1 crash, device limit 1 | 1211720 | billed exactly when served and to its own caller; the first report and the first answer win; the ledger is exact; every request is answered |
| `mcp_gateway` | 3 clients, 2 modules, 3 workers, 1 crash, 1 validation slot | 1042423 | names distinct and plans true; one reply a message and one release a slot; what is billed ran; nobody exceeds its key |
| `tenant_doors` | 2 tenants and an admin, 2 jobs, history of 4 and 1 shown, lost writes and stalls | 2843896 | tenants never meet; reports are true; two queries decide as one |
| `file_bridge` | 2 workers, one of which may exit, 4 calls, pool of 2, share of 1, 1 stuck, 1 descriptor | 99169 | each call gets its own reply; writers are alone, descriptors open while used, nothing waits without a cause; closed and idle is quiet; every call is answered |
| `file_rules` | paths: 2 operations at once over a writable root, a read-only root and a place whose declared root is refused, with links among them, 2 changes by others; quota: 2 names, 2 files, 1 descriptor, quota of 2 bytes and 2 entries, links, host failures | 3993346 | what is handed out, emptied or acted on is within the roots; usage exact at rest; never more stored than allowed |

Some properties are conjunctions of named parts (`WindowsExact`, `RegistryHonest`,
`OneWorker`, `GoneIsGone`, `HostInOrder`, `InStep`, `BillsRight`, `FirstReportWins`,
`NamesHold`, `TenantsApart`, `ReportsTrue`, `StaysInside`, `UsageExact`): the parts
are one concern of one component and have mutants of their own.

The run `peer_directions` refutes what a comment says of the code, and so do six
more configurations that are kept to be run by hand; section 3.2 has them.

Bounds, and why they suffice. In `PeerChannel` two send slots and one dispatch
slot let four calls fill a slot, the callee's queue, the send queue, and leave
one to time out; the caps differ because the code does not require the two ends
to agree, and the theorems of section 5 hold for all caps and any number of
calls. In `RoutedHop` calls meet only in the exit event and the FIFO ports; three
cover all kinds and two sharing an exit. `MaxChannels` counts `MessageChannel`s:
two give one reopening, which the crossing of old and new messages needs. Four
workers in `ModuleWorkers` allow a supervised restart between two operator loads;
three requests allow an unload crossing a restart crossing a load. One job in
`JobTasks` is enough because the code relates two jobs nowhere; two attempts give
a retry beside a late answer. In `Discovery` a
second generation lets stale references meet new workers; the module whose device
is another's is loaded only where no worker ends (`EndsOrClaims`), for the two
questions are apart. Two
overlapping requests in `ServiceCall` share the cached client, the free call and
the ledger, which is all that requests share. Two modules with colliding slugs
and three workers let a name move and move back in `McpGateway`. Two jobs and a
history that shows one reach trimming, duplicates and removal of a locked job in
`TenantDoors`. Four calls of two workers in `FileBridge` fill the pool, the
share, the lock's queue and a descriptor's chain; the queue's own cap (4096
operations, `EMFILE`) is not reached. The paths and the quota share no
variable: `MCFileRules` explores each beside a resting other, in one run. In
`FilePaths` two changes by others are one before the check and one after it. In
`FileQuota` two names and two files are
what a rename, link or copy relates. What follows an
operation that failed half-way or changed more than it measured is cut off
(`Claimed`), because the properties speak of no such state. `rm` of a directory
finds one name in it; a hard link to a link is left out. Where a bound ends the system's activity
(`CHECK_DEADLOCK FALSE`) the modelled system does stop: every call, request or
job there is has been dealt with, and the server waits for the next.

### 3.2 Observations

What modelling showed of the code beside what the runs check. Where it keeps a
stronger property from holding, the property in the run excepts that case and no
more. What a comment or a document says and the code does not do is stated as a
property too, and violated: by the run `peer_directions`, and by these
configurations, with `tlc -config <file> <module>`:

| Configuration | Module | Violates |
|---|---|---|
| `MCDiscoveryBlocked.cfg` | `MCDiscovery` | `DiscoveryNotBlocked`, `lib/module-manager.js:364-366` |
| `MCDiscoveryJam.cfg` | `MCDiscovery` | `QueuesDrained`, `lib/device-manager.js:680-681` |
| `MCDiscoveryUnmapped.cfg` | `MCDiscovery` | `UnloadedIsUnmapped`, `lib/module-manager.js:1093` |
| `MCFileVerified.cfg` | `MCFilePaths` | `EveryDescriptorVerified`, `docs/security-model.md:147-149` |
| `MCFileQuotaUnder.cfg` | `MCFileQuota` | `NeverUnder`, `lib/fs-broker/quota.js:5-7` |
| `MCPlanNames.cfg` | `MCMcpGateway` | `PlanNamesAppear`, `lib/plan-validator.js:100-101` |

Direct channels and jobs:

* `peerChannels` is keyed by the other worker and shared by both directions,
  although `lib/peer-channel-broker.js:15-18` calls the two directions
  independent. Two workers that call each other can end up calling on the channel
  opened for the other direction, whose far end serves nothing, or with a port
  nobody has (`lib/device-manager.js:278, 406`). Run `peer_directions` shows the
  latter in nine states; `RegistryHonest` speaks of the pairs whose callee may not
  call its caller, and of those whatever other pairs do.
* After a channel was closed and reopened for one device, `peerDeviceWorkerMap`
  still sends calls for another device over it; they are refused with
  `PEER_NOT_GRANTED` instead of "naturally re-trigger[ing] brokering"
  (`lib/device-manager.js:288-292`).
* A callee whose exit is handled while the authorisation of a channel to it is
  looked up leaves the caller with a port nobody closes
  (`lib/peer-channel-broker.js:82`); `docs/direct-peer-channels.md:33-35` says it
  is invalidated automatically. Calls on it end in their timeout.
* The late answer of a timed-out attempt takes the job off `jobsInFlight` while
  its retry runs on the same worker, whose `ctx.job` requests are refused from
  then on (`lib/device-manager.js:1229, 1250`).
* The output schema of a task is looked up after the result, across an
  asynchronous authorisation; a reload in between stamps the old result with the
  new schema (`lib/mcp/gateway.js:1047`; lines 912-915 say the opposite). In a
  synchronous `tools/call` the schema is looked up before the dispatch, with the
  same effect the other way round.
* `updateJobProgress` (`lib/job-control.js:479-485`) does not return
  `updateProgress`'s promise, so a job removed in between is an unhandled
  rejection. A device log with an empty device id, or under `--debug`, is never
  answered (`lib/countinghouse-util.js:324-335`).
* A job attempt that succeeds after its timeout is still charged. `tasks/result`
  can report a job completed without a result when the job is removed between the
  two reads of `getJob` (`SettledRead` allows exactly that).
* `docs/direct-peer-channels.md:71-72` lists four error codes of a direct call,
  and the code has more; a timed-out call is `DEVICE_NOT_RESPONDING` on the routed
  path and `PEER_CHANNEL_TIMEOUT` on the direct one.

Modules and devices:

* A reload refused for an invalid version (`lib/module-manager.js:976-981,
  1103-1109`) takes the module off the registry and leaves its worker running
  until the next load or restart ends it; an unload in between answers ok.
  `NoOrphan` excepts exactly these workers.
* `/get-module-device-list` shows no devices in worker mode: it compares the
  `module` of a `WorkerMessage` (`lib/device-manager.js:1094-1125`).
* The device limiter is asked with `this.deviceID` of the device manager, which is
  never set, so all limited devices share one key (`lib/device-manager.js:1326,
  1344`).
* A module that ends for good before it acknowledged discovery keeps discovery
  from ending, although failures are counted "so we don't block" it
  (`lib/module-manager.js:364-366`): `MCDiscoveryBlocked.cfg`. `DiscoveryEnds`
  excepts it (`LeftOut`).
* With a provider that answers in a later turn, as sqlite does, a verification may
  queue its bare callback while a later discovery is under way; the drain reads
  `.wm` of it and throws, so what is behind it is never answered, now or in later
  drains (`lib/device-manager.js:680-681, 698-707`): `MCDiscoveryJam.cfg`.
  `DiscoveryEnds` and `TablesAgree` except what follows (`Jammed`).
* A `deviceonline` taken after its worker was purged maps the device to that
  worker, and nothing purges it again (`lib/device-manager.js:428`;
  `lib/module-manager.js:1093` says the map is cleaned): `MCDiscoveryUnmapped.cfg`.
  `TablesAgree` says that there is no other way to it (`late`).
* A worker counted twice can end discovery before the last module is in.
* A restarted worker that crashes again before `deviceonline` loses the specs the
  supervisor had retained for it (`lib/device-manager.js:1186-1187`), so its tools
  disappear from the list until it is back.
* A supervised restart refused because a worker of the name is alive counts as
  one more exit.

Gateway and doors:

* Colliding tool names swap their suffixes when a module crashes and comes back.
* A plan is promised names "that will actually appear in tools/list"
  (`lib/plan-validator.js:100-101`). Its check of descriptions refuses the empty
  one only (line 155), where the registry trims (`lib/mcp/tool-registry.js:246`),
  it does not compare a plan's own slugs with each other and it is not given the
  built-in names: `MCPlanNames.cfg`. `NamesHold` says what such a plan does get,
  where its slugs differ and are not built-in: the names of the actions with a text.
* `tasks/list` pages over all tenants before it filters by owner; `tasks/cancel`
  of a completed task reports it cancelled.
* The operator's `grant` does not require a user row, and `remove-user` may fail
  after its first statement (`bin/countinghouse-auth-sqlite.js:83-105`). A key so
  granted while it is being removed may pass between the two queries;
  `PassedIsKnown` excepts these grants (`stray`) and no other.
* A delayed job has no record in the history, for there is no handler of
  `delayed`, and a record whose write fails is not written again
  (`lib/job-control.js:219, 487-567`). `ReportsTrue` excepts both.

Files:

* An `open` on the host while `closeAll` runs puts its descriptor in the cleared
  table, and nobody closes it (`lib/fs-broker/broker.js:315-320, 579-584`).
* Usage can also drift down, though `lib/fs-broker/quota.js:5-7` says "never
  down": a write with a position to a file opened to append grows the file and is
  not counted (`lib/fs-broker/broker.js:653`): `MCFileQuotaUnder.cfg`. So does a
  truncation by one descriptor between another's measure and settlement.
* `lstat` of a link says nothing of what it leads to: a file created through a
  dangling link is not counted, nor what a copy replaces through one
  (`lib/fs-broker/broker.js:469-471, 559-560`); a copy of a file onto itself empties
  it and settles for no change.
* A copy that fails half-way has created its target and written part of it, an
  `rm` that fails has removed part of the subtree; neither is counted before the
  next spawn's walk (`lib/fs-broker/broker.js:434-440, 474`).
* A copy onto a larger file gives room back before the host has made it free, so
  for a moment more may be stored than the quota allows. `UsageExact` and
  `WithinLimit` except these cases (`loose`, `torn`, `slack`) and files used by two
  operations at once (`shared`).
* Where the directory of a file is missing at the check, nothing is known of the
  file, and `verifyOpened` returns at once (`lib/fs-broker/broker.js:211, 242-245,
  255`). If somebody else creates the directory, as a link, before the open, the
  descriptor is handed out unverified; `docs/security-model.md:147-149` says that
  every opened descriptor is verified: `MCFileVerified.cfg`. So is `truncate` by path
  (lines 539-546), with `chmod`, `chown` and `utimes`. A link's target is judged on
  the virtual path alone (lines 513-516), so through a linked directory it may lead
  out of its root. `StaysInside` is about the descriptors whose object the check
  could recognise (`Recognised`: by its inode, or by its parent where
  `/proc/self/fd` can be read), and about `truncate` while nobody else interferes.

Options:

* `--directPeerChannelsMaxConcurrency` is parsed and not validated
  (`lib/cli-options.js:36`): with 0 or less every call is queued until its timer
  fires (the theorems cover 0), and a value that is no number removes the cap.

## 4. Fairness

Safety properties are checked without fairness. The liveness properties assume:

* `PeerChannel` and `RoutedHop` state their assumptions as premises of the
  properties. `TransportRuns`: threads run, ports deliver, handlers call back,
  the main thread and its providers answer; *no timer has to fire*.
  `TimersFire` (of `RoutedHop`): timers fire, the main thread runs and the
  providers answer; *the callee may hang for ever*. Node delivers posted
  messages in order and fires due timers, and a busy handler does not stop the
  other thread's timers.
* `PeerBroker`: threads run, ports deliver, the `AuthProvider` answers, the
  recheck interval is on (0 turns it off) and ticks, an unload ends by its 3 s
  timer, and a worker told to terminate exits. No worker is assumed to exit by
  itself, nor any call to be made.
* `ModuleWorkers`: continuations run, the file system answers, a thread answers
  or ends, timers fire, and a settling broker is bounded by `IDLE_BOUND_MS`.
  A `load-module` has no timer in the code, so a module that hangs while it loads
  holds its request: that threads answer or end is an assumption on the module.
* `JobTasks`: the queue hands out waiting jobs, and an action calls back or its
  worker ends. Timeouts, cancellations and reads are not assumed to happen.
* `Discovery`, `ServiceCall` and `FileBridge` have one weak fairness over the steps
  of the event loops (`Progress`): behaviours within the bounds are finite, so
  whatever stays possible there is taken. It contains no crash or purge, no client's request
  and, in `ServiceCall`, no step of the worker, whose handler may hang; in
  `FileBridge` host operations may hang, the deadline timers fire.
* `McpGateway`, `TenantDoors`, `FileQuota` and `FilePaths` are checked for safety
  only.

## 5. Proofs

Thirteen modules have proofs. They are in modules of their own, named after what they
are about (`RoutedHopProofs` and so on); `PeerProofs` is about `PeerChannel` and
`PeerBroker`, `ModuleProofs` about `ModuleWorkers` and `Discovery`, `JobProofs` about
`JobTasks` and `TenantDoors`, `FileProofs` about `FilePaths`, `FileBridge` and
`FileQuota`, which is why all but the first of each name their specification
`BrokerSpec`, `DiscoverySpec`, `DoorsSpec`, `BridgeSpec` and `QuotaSpec`.
`McpGatewayProofs` is about `McpGateway` and the `ToolCatalog` it extends.
`QueueLemmas` holds what they share: lemmas on sequences used as queues (what
`Append`, `Tail`, `\o` and removal leave of the members, of "each once", of the ids
and of the order). Every theorem is about a module's specification without its
fairness and holds for every value of the constants that satisfies the assumptions
below; every inductive invariant was checked by TLC on the run's instance first.

| Module | Theorem | States |
|---|---|---|
| `PeerProofs` | `AnswersOnce` | `[]ExactlyOneAnswer` |
| | `WindowsKept` | `[]WindowsExact` |
| | `QueueAwaited` | `[]QueuedIsAwaited` |
| | `BillsRight` | `[]BillMatchesAnswer` |
| | `CallerWindowSuffices` | `[]SendWindowSuffices` |
| | `StaleStaysHome` | `StaleNeverSent`, an action property |
| | `ChannelImplementsContract` | `Spec => Contract!Spec` |
| | `NeverTwoRequests` | `[]OneRequestInFlight` |
| | `LateLookupsHarmless` | `RevokedForCause`, an action property |
| | `RegistryStaysHonest` | `[]RegistryHonest` |
| `RoutedHopProofs` | `NeitherLostNorTwice` | `[]OneOwner` |
| | `RouteImplementsContract` | `Spec => Contract!Spec` |
| `ModuleProofs` | `OneThread` | `[]OneWorker` |
| | `RestartAhead` | `[]RestartPending` |
| | `StaysAway` | `[]GoneIsGone` |
| | `AnsweredAtMostOnce` | `[]NoSecondAnswer`, the safety half of `OpsAnswered` |
| | `LastVerdictIsHeld` | `[]LastVerdictHolds` |
| | `TablesStayInStep` | `[]TablesAgree` |
| | `MainAndWorkersInStep` | `[]InStep`, both of the above |
| `JobProofs` | `JobChargedOnce` | `[]ChargedOnce` |
| | `OwnJobsOnly` | `[]WorkersSeeOwnJobs` |
| | `CompletedIsRead` | `[]SettledRead` |
| | `TenantsStayApart` | `[]TenantsApart` |
| | `ReportsStayTrue` | `[]ReportsTrue` |
| | `PassedKeysAreKnown` | `PassedIsKnown`, an action property |
| `ServiceCallProofs` | `ReportedOnce` | `[]FirstReportWins` |
| | `BilledRight` | `[]BillsRight` |
| | `AccountsExact` | `[]LedgerExact` |
| `FileProofs` | `InsideRoots` | `[]StaysInside` |
| | `ProtectedStays` | `[]ProtectedKept` |
| | `AnswersOwnCall` | `[]OwnReply` |
| | `HostStaysInOrder` | `[]HostInOrder` |
| | `QuietMeansIdle` | `[]QuietWhenIdle` |
| | `QuotaIsUsage` | `[]UsageExact` |
| `McpGatewayProofs` | `CalledBackOnce` | `[]RepliedOnce` |
| | `BilledWhatRan` | `[]BillsWhatRan` |
| | `RightsKept` | `[]WithinRights` |
| | `NamesStay` | `[]NamesHold` |

Each module also has `Invariance` (`Spec => []IInv`), and all but the gateway's
`TypeCorrect` (`[]TypeOK`; the gateway's invariant has `Shapes` instead, and
the catalog's, `CatalogInvariance`, has `Catalogued`). For `PeerBroker` they are
`BrokerInvariance` and `BrokerTypes`; for `Discovery` `DiscoveryInvariance` and
`DiscoveryTypes`; for `FileBridge` `BridgeInvariance` and `BridgeTypes`; for
`FileQuota` `QuotaInvariance` and `QuotaTypes`; for `TenantDoors` `DoorsInvariance`,
whose invariant begins with the types.

**Assumptions.** They are evaluated by TLC in every run.

* `PeerChannel`: `CallsAssumption` (finitely many calls, so that the hops being
  served can be counted), `KindsAssumption` (the kinds are subsets of the calls)
  and `MaxAssumption` (the caps are naturals; 0 is included, because
  `--directPeerChannelsMaxConcurrency 0` is accepted by the command line).
* `PeerBroker`: `BrokerAssumption`. Every device has a home among the workers; a
  worker may have a successor; who uses, loses or dies is any subset; the number of
  channels is any natural. Calls may go in both directions between two workers.
  A successor is a new worker: no device is at home there at first.
* `RoutedHop`: `HopAssumption`, the same for its calls.
* `ModuleWorkers`: `WorkersAssumption`. The bounds are naturals and
  `SUSPEND_AFTER` is positive.
* `Discovery`: `DiscoveryAssumption`. Every module has a device and a set of devices
  it calls; the startup list names a module once; the bounds are naturals. Two
  modules may have one device, and the provider may answer at once or later.
* `TenantDoors`: `DoorsAssumption`. The scenarios are of either provider and start
  with any users, schedulers of an older release and requests; the bounds of the
  history are positive.
* `JobTasks`: `JobsAssumption`. Finitely many jobs, none of them the value that
  stands for no job, and at least one attempt.
* `ServiceCall`: `ServiceCallAssumption`. Callers and kinds are functions on the
  requests; `Identity` is no key and `None` neither a result nor a count; the
  balance is any integer.
* `FilePaths`: `PathConstants`. Places, roots and protected paths are sequences of
  names; the module's directory is a place; `None` is neither place nor root.
  `HomeNamed`: the path of that directory is in a root, for a path in none never
  comes to the checks. Roots may nest and overlap protected paths.
* `FileBridge`: `BridgeConstants`. Finitely many calls (they are counted), each of one
  worker and of any of the operations; any workers, any of which may exit; the caps of
  pool, share, queue, stuck calls and descriptors are positive.
* `FileQuota`: `QuotaConstants`. Finitely many names, files and descriptors (usage is
  a sum over them); any quota, enforced or not; host operations may or may not fail;
  files may grow to any positive size. `LinksApart`: a link is no file.
* `ToolCatalog`: `CatalogAssumption`. The built-in names are finitely many; builds and
  plans are sequences of actions, each with or without a description, whose slugs are sequences; the
  value that stands for nothing is no module; the bounds are naturals. Any actions may
  have equal slugs, slugs that look like a suffixed name, or built-in names.
* `McpGateway`: `GatewayAssumption`. Finitely many clients (slots are counted) and
  a natural number of slots, 0 included.

**The arguments.** No property is inductive alone; what each invariant adds is
what the property silently relies on.

*`PeerChannel`.* `IInv == TypeOK /\ ExactlyOneAnswer /\ Placement /\ Billing /\
Windows`. That a slot comes back once needs to know that a request is in one place
at a time: `Placement` says that the send queue, the wire and the dispatch queue
are disjoint and hold a call once, and that a call in one of them has not been
started. That a bill matches its answer needs what each stage of serving and each
reply under way implies about the charge: `Billing`. `Windows` adds to the window
properties that a reply under way to an open end holds a slot and that a closed
end has none under way, without which `activeSends - 1` could not be shown to stay
natural. `CallerWindowSuffices` needs one more conjunct, `Incoming`, which bounds
what is on the wire, queued and being served together by the caller's cap, also
after the caller has gone. The recursive drain of the dispatch queue (`Reply`) is
characterised once (`ReplyLeaves`) for the four actions that use it.

*`PeerBroker`.* `BrokerInv`. That the four places a request can be in add up to one
does not say which of them to look in, and each step moves it from one to the next:
`Tracking` says that a worker's request for a device is in one place at most (its
port to main, a lookup, an awaited acknowledgement, an answer on its way back), and
in one exactly while calls are queued for it. It speaks of a worker up to its exit:
the thread's queued calls are gone then, and what main had under way for them is not.
`Rechecking` says that a lookup of the recheck names a channel that was created and
a device granted on it; entries only gain grants, so a lookup answered after the
pair was closed and opened again finds another channel there and leaves it alone.

`RegistryStaysHonest` rests on `WiringInv` besides, which is relative to `BrokerInv`
and about one pair of workers at a time, whose callee may not call its caller: a
worker's table has one entry for another worker, and calls between others do not
touch it.
A channel the registry no longer has may be in use for a while, so the invariant must
say who will hear of it, and that depends on the order of messages in two ports.
`Ports`: a port on its way is in one message, to the right worker. `Tabled`: a table's
entry is an open channel. `Warned`: a caller's end that is open or under way belongs
to the channel in the registry, or a peer-invalidate follows it in the caller's port,
or the caller is on its way out and the callee's port has one before the next open
from that caller (an invalidate closes what the table has when it arrives, so one
behind a newer channel's open would close the wrong one). `NoneStranded`: between two
grants of one callee's ports, and before the first if the caller's table has an entry,
the caller finds a peer-invalidate, so that it has room for every port. `Latest`: the
registry's channel is the last the callee was told of, so an allow posted for it
reaches it (`Backed`: what a callee serves, or will after the allows on their way, was
granted on that channel). `Whole`: between workers that are up no peer-invalidate is
ahead of the registry's channel. The steps fall into three kinds: a post that carries
no port, or none at all (`PostKeeps`, for most actions), a worker's taking of a message
(`TurnKeeps`), and the making of a channel (`OpenedKeeps`); an exit, a port's close
and a restart are shown on their own.

*`RoutedHop`.* `Placed(c)` says which of the port, the main thread's stages, its
timer, the callee's queue and the answers under way hold call `c`, and that the
caller's own record of it exists exactly while one of them will answer. `Billed`
gives the charge at each stage, and `Answers` the same for what is under way: a
callee's exit ends calls at any stage, metering included, so the charge of an
answer cannot be read off the step that posts it.

*Refinement.* Both transports are proved to implement `HopContract`: a call maps
to the first value its callback was given, and every step is an `Ask`, a `Charge`,
an `Answer` or a stutter. A caller cannot tell the transports apart, and what
`HopContract` forbids (a second answer, a second charge, a charge for a refused
hop) neither can do.

*`ModuleWorkers`.* The thread that may run is the last one started (`Threads`),
and a registered worker is that thread, has called back, and has its exit
awaited by the supervisor or an unload (`Registered`). `Locked` says what the
lock's holder has established (no thread before it deletes or spawns), `Spawns`
that each job in the lock is for one request or for the supervisor, `Requests`
that an answered request is done, `Unloading` that an unload is of the last
worker and keeps the supervisor out, `Supervised` what the supervisor's record
and a quiet module promise. The steps are of two classes: turns of the main
thread, which touch threads and lock, and answers to a request.

*`Discovery`.* `DiscoveryInv` is inductive for every provider. That a worker ends up
with the verdict main reached last needs what is under way: `Relayed` says that the
last `set-composition` in a worker's inbox, or the worker when there is none, holds
that verdict, which a relay for an older worker of the module cannot disturb. That
a mapped device is served needs `Truthful`: a worker announces a device it has made.
`TablesAgree` is inductive with these: a step maps a device or queues a query for a
worker that stands or that it adds to `late`, a purge removes both, and a query is
queued with the flag down and answered by whatever raises it or maps the device, as
long as no bare callback is among the queued; once one is, it stays.

*`JobTasks`.* `Attempting` says that only the attempt a job is at can still settle
it, and that an attempt running on has timed out: `Promise.race` leaves the loser
running. `Charging` bounds a job's charges by its late answers plus one for a
success being recorded or recorded; the run's property follows, while the
property alone is not preserved by the step from answer to settlement.

*`TenantDoors`.* `DoorsInv`. That nobody is told of another key's job needs what a
request has established at each stage (`RequestOK`: past its gate it holds a job of
its own key, or an administrator's key), and that a job never changes owner while
the request waits for Redis (`Kept`). That histories are right needs the order of
the events: `Recorded` says that a job's state is in the last event about it still
to be handled or, when none is, in the newest record of it in its list, unless the
trim of a full list took that away, the job is delayed (no event tells of it) or
the write of the record was lost (`lost`). `StoreInv` says that a grant is of a key
with a row or is remembered in `stray`. `Scheduled` finds a key's scheduler by the key
and the name together, so a scheduler of the same name and another key, or of an
older release, is never it.

*`ServiceCall`.* `SessionInv` states a session's life, `CallInv` an invocation's in
the worker, `Joined` what ties them: an invocation exists only for a dispatched
request, runs as its caller, and so does its hop. `LedgerExact` is inductive with
the types and with `Charging`: a charge under way is for its request's caller and
carries the quota it was seeded with.

*`FilePaths`.* `Deciding` is what the broker has decided for an operation, which
holds whatever the host does to names: the root fits the checked place, or is the
one the path names where nothing is known of the object; a recognised and verified
descriptor lies in the decided root; nothing is emptied before it is handed out.
`Undisturbed` holds while nobody else touches the names: cache and checks are true of
them, and an object nothing was known of is not reached. `Alone` is what `rwlock.js`
gives. `ProtectedStays` is about declared roots, which `prepare` filters; the module's
own lie in protected paths. It needs two facts on prefixes: of the roots above a
place one is deepest, and two prefixes of a path are ordered.

*`FileBridge`.* `BridgeInv` says that four sets of books agree with the stages of the
calls. `Counted`: in flight, stuck and blocking are the numbers of calls accepted, past
their deadline, and blocking before it, so a count of zero means none
(`QuietMeansIdle`). `Locked`: a call waits in the lock's queue or among the granted, once;
readers and writer are those who hold it; whoever waits, waits for a holder. That the
last holder hands the lock on is a fact on `Granting` alone (`GrantingFits`), whatever was
in the queue. `Scheduled`: a queued call is in one queue or about to start, a slot is
counted for each call in one, and whoever is queued has no slot to go to (`Pumped`).
The last is the deep part: `pump` goes round until a pass starts nothing. `PassEffect`
shows that a pass starts something or leaves nothing that could start, by following
the rotation through a full turn (`TurnedOnce`), and `PumpEffect` that as many passes as
the pool has slots are enough. Both are inductions along a recursive function; they use
that a set of naturals has a least member (`LeastNat`, `UpTo`) instead of an induction
theorem with an operator as its parameter. `Chained`: a descriptor's chain has the
operations on it that run, each once, a close last and only when the descriptor has left
the table, so none can start behind it and the descriptor is open until the close has run.
A chain's descriptor was opened by the same worker and its open is over (`Replies`): an
open that returns finds nobody waiting on the descriptor it adds.

*`FileQuota`.* Usage is exact at rest because at every moment what is counted is what a
walk would measure plus what the operations under way have reserved and not settled,
less what they have already done on the host: `BytesKept` and `EntriesKept`, with one
summand per descriptor (`JobOwes`) and one for the operation that holds the exclusive
lock. They hold only if each operation settles for the change it really makes, so the
sizes and names it measured must still be so when it reaches the host: `Apart` (no two
operations are on one file, each is on a file with a name, whose size is the measured
one until the operation changes it), `Naming` (the same for the names of the exclusive
operation) and `Jobs`. `Max(0, ...)` in `settle` never cuts anything off: that too follows
from the sums. `Apart` and the byte part of `Naming` are claimed until two operations meet
on one file (`shared`), the sums until an operation fails half-way (`torn`) or changes what
it did not measure (`loose`): the exceptions of section 3.2. The sum is the library's fold; what adding, removing or
changing one member does to it (`TotalAdd`, `TotalOut`, `TotalPut`) is
proved from the definition of the fold with `LeastNat` and `UpTo`. The attempt showed that
two arms of a `CASE` in `Effect` overlapped for the removal of a file, where TLC had taken
the first: they are now disjoint.

*`McpGateway`.* `Staged` ties a message's stage to its method and, past the
authorisation, to a device of the client's key; `Loading` a load under way, which
may outlive its message, to an admin's message; `Validations` a validation to the
message that waits for it, and the slots in use to the validations that hold one;
`Billed` a bill to a result. Nothing is used of the catalog but the target a call
looked up, so names may move at any moment.

*`ToolCatalog`.* `dedupeName` finds a free suffix because there are more of them than
names in use (`Deduped`, a pigeonhole argument on the finite set of names). The names
of a catalog are a recursive function on the positions of its described actions, in the
order of `buildToolTargets`' loops. That there is such a function (`NamesToExist`),
that it agrees with that of any catalog which starts alike (`NamesAgree`), and that it
gives no name twice (`ToolNamesFacts`) is shown with a first position for which it could
fail (`FirstPosition`), again in place of an induction theorem. A plan's device comes
after those in `deviceMap` and before the retained ones, so the names it must avoid are
those of the devices before it; `validatePlan` compares its slugs with all names on
offer, and each action that has a text keeps its slug (`PlanGetsSlugs`). All of this is about any sequence of
builds. That the catalog always is one is `CatalogInv`: a device in `deviceMap` is
that of its module's worker, which has announced a build (`Manned`). A worker's end
must not take another's specs, so workers differ between modules; and a load that
succeeds must not find an old worker, so a module that starts or waits to restart has
none.

**Only model-checked.** All liveness (the prover does not handle fairness), and
`WithinLimit`. Nothing here is proved about data the models abstract
from.

## 6. What is left out

* Payloads, schemas, prices and identities are reduced to the classes the
  control distinguishes; error objects to an outcome. Argument checks that
  return before any state changes are not modelled.
* Time: a timer is an action that may be taken while it is armed.
* A crash of the whole server. Everything but Redis is lost with it; bullmq's
  stalled-job handling would run, and charge, an active job again
  (`hazards`, `crash_recovery`).
* In `JobTasks`: more than one reader at a time. In `TenantDoors`: `--debug`
  authentication; an event's fetch and push are one step, as on the one FIFO
  connection.
* In `PeerChannel` the answer `PEER_NO_HANDLER` of an end that serves nothing
  (`lib/peer-channel.js:136-139`); in `ServiceCall` the client's own key as billing
  key where the caller has none (`lib/service-client.js:74`), which an authenticated
  request always has.
* Single-thread mode (`lib/single-thread-facade.js`), the module registry and the
  scan of the modules directory.
* The sliding windows of the rate limiters, and the couchdb-backed providers.
* `lib/fs-broker/patch.js` and `identity.js`: one adapter per `fs` function, with
  no state but what `FileBridge` has; `lib/module-lockdown.js` and the permission
  setup run once before a module is loaded.
* Validators, migration tools and logging have no state that outlives a call, or
  are text processing; `perf/` are measurement scripts.

## 7. Plan

Done: the contract and both transports, brokering, workers, jobs, discovery,
client calls with metering, the catalog and the gateway, the tenants' doors, and
the file broker's bridge, quota and paths. Proved: the safety of both
transports and of brokering, of workers and discovery, jobs and their doors, client
calls, the catalog and the gateway, the file bridge, the quota and the paths. Left,
most important first:

1. `WithinLimit` as a theorem, from `BytesKept` and what is reserved.
2. The properties refuted in section 3.2, once the code keeps what its comments say.

Abstract specifications worth stating next: an account that `ServiceCall`'s
metering implements, and a single-writer lock for `FileBridge`.
