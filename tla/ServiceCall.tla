---------------------------- MODULE ServiceCall ----------------------------
(***************************************************************************)
(* One HTTP request to a worker-hosted device, end to end: authentication  *)
(* and rate limits in the main thread, the session with its timer, the     *)
(* invoke-action message to the worker, input validation, the handler with *)
(* its three ways to report (callback, throw, promise), one composed hop   *)
(* through the cached service client, the reply, and the metering of the   *)
(* request and of the hop.  Requests of several callers overlap, handlers  *)
(* report late or twice, and the worker may end.                           *)
(*                                                                         *)
(* How a hop reaches its callee is RoutedHop and PeerChannel; here it is   *)
(* one step that succeeds or fails.  Rate limiters and the auth provider   *)
(* are external: each says yes or no, a limiter that errs says yes.        *)
(***************************************************************************)
EXTENDS Integers, Sequences, FiniteSets

CONSTANTS Requests, Keys,
          Callers,     \* the assignments of keys to requests considered
          Asked,       \* the assignments of kinds to requests considered
          Identity,    \* the auth identity the composing module runs as
          Quota,       \* free calls a legacy price record grants per tool
          Funds,       \* the balance every account starts with; a call costs 1
          MaxReports,  \* bound on the reports of one handler
          MaxEnds,     \* bound on the times the worker ends
          RateLimit,   \* the spec's device.rateLimit, None when absent
          None

Kinds == {"invoke", "unknown", "read", "balance"}  \* "unknown": an action no spec declares

ASSUME ServiceCallAssumption ==
  /\ Callers \subseteq [Requests -> Keys]
  /\ Asked \subseteq [Requests -> Kinds]
  /\ Identity \notin Keys /\ None \notin {"ok", "error"} /\ None \notin 0 .. Quota
  /\ Quota \in Nat /\ Funds \in Int /\ MaxEnds \in Nat /\ MaxReports \in Nat

Accounts == Keys \cup {Identity}
Tools    == {"action", "hop"}

VARIABLES
  caller,  \* per request, the key it is sent with
  req,     \* per request, where it is in the main thread, and its session
  call,    \* per request, its invocation inside the worker
  hop,     \* per request, its handler's ctx.call
  client,  \* device._ctxServiceClients: the cached client's own billing key
  up, gen, \* whether the worker runs, and its generation
  meter,   \* recordCalls under way
  count,   \* toolPriceRecord, per account and tool; None until seeded
  balance, \* per account
  scripts  \* per account and tool, how many times the script has run

vars == <<caller, req, call, hop, client, up, gen, meter, count, balance, scripts>>

NoCall == [state |-> "none", owed |-> FALSE, first |-> None, ctx |-> None, reports |-> {},
           outbox |-> <<>>, replied |-> 0]

Init ==
  /\ caller \in Callers
  /\ \E kind \in Asked :
       req = [r \in Requests |->
                [at |-> "new", kind |-> kind[r], w |-> 0, timer |-> "none",
                 called |-> FALSE, metered |-> FALSE, answers |-> <<>>, bills |-> 0,
                 logged |-> 0]]
  /\ call = [r \in Requests |-> NoCall]
  /\ hop = [r \in Requests |-> [st |-> "none", key |-> None]]
  /\ client = None
  /\ up = TRUE /\ gen = 1
  /\ meter = {}
  /\ count = [p \in Accounts \X Tools |-> None]
  /\ balance = [a \in Accounts |-> Funds]
  /\ scripts = [p \in Accounts \X Tools |-> 0]

-----------------------------------------------------------------------------
(* The session *)

RecordCall(a, t, r) == [acct |-> a, tool |-> t, req |-> r, step |-> "read", seed |-> None]

\* a slip: a failed action is billed too
BillsAny(q, res) == q.metered

\* Session.response bills a metered session, on success only
Bills(q, res) == q.metered /\ res = "ok"

\* specDeclaresAction, over the spec the device published
Declares(k) == k = "invoke"

\* logAPICall, with --apiMonitor: calls that reached the device and name an
\* action its spec declares
Logs(q) == q.at = "waiting" /\ Declares(q.kind)

\* Session.response, and the direct answers on res: the HTTP response goes out
Respond(q, res) ==
  [q EXCEPT !.answers = Append(@, res), !.at = "done",
            !.logged = IF Logs(q) THEN @ + 1 ELSE @,
            !.metered = IF Bills(q, res) THEN FALSE ELSE @,
            !.bills = IF Bills(q, res) THEN @ + 1 ELSE @]

\* recordMeteredCall
NewBill(r, q, res) ==
  IF Bills(q, res) THEN {RecordCall(caller[r], "action", r)} ELSE {}

\* a slip: neither once() nor the cleared timer stops a second callback
SessionCallbackAgain(q, res) == Respond([q EXCEPT !.timer = "none"], res)

\* Session.callback: once, and only while the timer is installed
SessionCallback(q, res) ==
  IF q.called THEN q
  ELSE IF q.timer = "none" THEN [q EXCEPT !.called = TRUE]
  ELSE Respond([q EXCEPT !.called = TRUE, !.timer = "none"], res)

\* what callback(res) of request r charges: nothing after the first time
CallbackBill(r, res) ==
  IF SessionCallback(req[r], res).bills > req[r].bills
    THEN {RecordCall(caller[r], "action", r)} ELSE {}

\* callbackWithoutTimer, and a denial answered on res
Answer(r, res) ==
  /\ req' = [req EXCEPT ![r] = Respond(@, res)]
  /\ meter' = meter \cup NewBill(r, req[r], res)

-----------------------------------------------------------------------------
(* The main thread: route, limits, device *)

\* validateUser, a body parser or the route's own auth refuses the request
Denied(r) ==
  /\ req[r].at = "new"
  /\ Answer(r, "error")
  /\ UNCHANGED <<caller, call, hop, client, up, gen, count, balance, scripts>>

Admitted(r, kinds, next) ==
  /\ req[r].at = "new" /\ req[r].kind \in kinds
  /\ req' = [req EXCEPT ![r] = [@ EXCEPT !.at = next,
                                         !.metered = req[r].kind \in {"invoke", "unknown"}]]
  /\ UNCHANGED <<caller, call, hop, client, up, gen, meter, count, balance, scripts>>

\* POST invoke-action, metered from here on; a body that is not BSON or names
\* no service or action is refused like a denied one
ArriveInvoke(r) == Admitted(r, {"invoke", "unknown"}, "limits")

\* GET get-spec and schema: no limiter
ArriveRead(r) == Admitted(r, {"read"}, "lookup")

\* GET /balance
ArriveBalance(r) == Admitted(r, {"balance"}, "limits")

\* invokeDeviceAction's global and per-key limiters
ActionLimits(r) ==
  /\ req[r].at = "limits" /\ req[r].kind # "balance"
  /\ \/ Answer(r, "error")
     \/ /\ req' = [req EXCEPT ![r].at = "lookup"]
        /\ UNCHANGED meter
  /\ UNCHANGED <<caller, call, hop, client, up, gen, count, balance, scripts>>

\* rateLimitGate, then checkBalance, which only reads
Balance(r) ==
  /\ req[r].at = "limits" /\ req[r].kind = "balance"
  /\ \E res \in {"ok", "error"} : Answer(r, res)
  /\ UNCHANGED <<caller, call, hop, client, up, gen, count, balance, scripts>>

\* ensureDeviceState takes the worker of this moment; the device's own
\* limiter answers in a later turn
Lookup(r) ==
  /\ req[r].at = "lookup"
  /\ \/ ~up /\ Answer(r, "error")
     \/ /\ up
        /\ req' = [req EXCEPT ![r] = [@ EXCEPT !.at = "dispatch", !.w = gen]]
        /\ UNCHANGED meter
  /\ UNCHANGED <<caller, call, hop, client, up, gen, count, balance, scripts>>

\* wireIdentityOf: what of the session travels into the worker
WireIdentityOf(r) == caller[r]

\* a slip: the timer is not installed
TimedNot(q) == [q EXCEPT !.at = "waiting", !.w = 0]

\* setDeviceTimer
Timed(q) == [q EXCEPT !.at = "waiting", !.w = 0, !.timer = "on"]

\* createRateLimiterForDevice: only a positive integer limit makes a limiter
HasLimiter == RateLimit # None /\ RateLimit > 0

\* the device's limiter refuses, in a turn of its own
DeviceLimiter(r) ==
  /\ req[r].at = "dispatch" /\ req[r].kind # "read"
  /\ HasLimiter
  /\ Answer(r, "error")
  /\ UNCHANGED <<caller, call, hop, client, up, gen, count, balance, scripts>>

\* the timer, then the message, which carries the caller's identity; a worker
\* that has ended since the lookup answers at once with an error
Sends(r) ==
  /\ req[r].at = "dispatch"
  /\ \/ /\ up /\ req[r].w = gen
        /\ req' = [req EXCEPT ![r] = Timed(@)]
        /\ call' = [call EXCEPT ![r] = [@ EXCEPT !.state = "posted", !.owed = TRUE,
                                                !.ctx = WireIdentityOf(r)]]
     \/ /\ ~up \/ req[r].w # gen
        /\ req' = [req EXCEPT ![r] = SessionCallback(Timed(@), "error")]
        /\ UNCHANGED call
  /\ UNCHANGED <<caller, hop, client, up, gen, meter, count, balance, scripts>>

\* invokeAction
Dispatch(r) == req[r].kind # "read" /\ Sends(r)

\* onGetDeviceSpec and onGetDeviceSchema
DispatchRead(r) == req[r].kind = "read" /\ Sends(r)

TimerExpires(r) ==
  /\ req[r].timer = "on"
  /\ req' = [req EXCEPT ![r] = SessionCallback(@, "error")]
  /\ UNCHANGED <<caller, call, hop, client, up, gen, meter, count, balance, scripts>>

\* onWorkerMessage: the first reply finds the callback in msgQueue, a second
\* one nothing
TakeReply(r) ==
  /\ call[r].outbox # <<>>
  /\ LET res == Head(call[r].outbox)
     IN  IF call[r].owed
           THEN /\ req' = [req EXCEPT ![r] = SessionCallback(@, res)]
                /\ meter' = meter \cup CallbackBill(r, res)
           ELSE UNCHANGED <<req, meter>>
  /\ call' = [call EXCEPT ![r] = [@ EXCEPT !.outbox = Tail(call[r].outbox), !.owed = FALSE]]
  /\ UNCHANGED <<caller, hop, client, up, gen, count, balance, scripts>>

-----------------------------------------------------------------------------
(* The worker: Service.invokeAction and doActionCall *)

\* finish and fail: any code but success is "error" here
Outcome(v) == IF v = "valid" THEN "ok" ELSE "error"

\* sendMessageToParent
Replied(c, res) == [c EXCEPT !.outbox = Append(@, res), !.replied = @ + 1]

Over(r, res) ==
  /\ call[r].state = "posted"
  /\ call' = [call EXCEPT ![r] = [Replied(@, res) EXCEPT !.state = "over"]]
  /\ UNCHANGED <<caller, req, hop, client, up, gen, meter, count, balance, scripts>>

\* the device has its spec, or none; a schema's pointer may lead nowhere
GetDeviceSpec(r) == \E res \in {"ok", "error"} : Over(r, res)
ResolveSchema(r) == \E res \in {"ok", "error"} : Over(r, res)

\* get-spec and get-schema in the worker
ReadServed(r) == req[r].kind = "read" /\ (GetDeviceSpec(r) \/ ResolveSchema(r))

\* deviceControl: the device has no such service
ServiceMissing(r) == req[r].kind = "unknown" /\ Over(r, "error")

\* validateActionCall on the input, after the checks that the action is there
InputRefused(r) ==
  /\ req[r].kind \in {"invoke", "unknown"}
  /\ Over(r, "error")

\* invokeAction calls doActionCall
HandlerStarts(r) ==
  /\ call[r].state = "posted" /\ req[r].kind = "invoke"
  /\ call' = [call EXCEPT ![r].state = "running"]
  /\ UNCHANGED <<caller, req, hop, client, up, gen, meter, count, balance, scripts>>

\* a slip: a later report is answered as well
SettledTwice(c, v) == Replied([c EXCEPT !.first = Outcome(v)], Outcome(v))

\* the first report settles the call: its output is validated, or its error
\* classified, and the caller gets one reply
Settled(c, v) ==
  IF c.first # None THEN c
  ELSE Replied([c EXCEPT !.first = Outcome(v)], Outcome(v))

\* The handler calls back, throws before it returns, or settles the promise it
\* returned; a handler that threw returned no promise.
Report(r, how, v) ==
  /\ call[r].state = "running"
  /\ how \notin call[r].reports /\ Cardinality(call[r].reports) < MaxReports
  /\ how = "throw" => v = "error" /\ "promise" \notin call[r].reports
  /\ how = "promise" => "throw" \notin call[r].reports
  /\ call' = [call EXCEPT ![r] = [Settled(@, v) EXCEPT !.reports = call[r].reports \cup {how}]]
  /\ UNCHANGED <<caller, req, hop, client, up, gen, meter, count, balance, scripts>>

-----------------------------------------------------------------------------
(* The handler's ctx.call *)

\* callerIdentityOf, over the identity that came with the message
CallerIdentityOf(c) == c.ctx

\* buildCtx, anew for each call: nothing of it outlives the call
Ctx(r) == [caller |-> CallerIdentityOf(call[r])]

\* a slip: the per-call key is dropped, so the client's own is used
ClientBillingKey(r) == Identity

\* billingWrapper over the cached client: the key rides on each invoke and
\* overrides the client's, which is the identity it was created for
BillingKey(r) == Ctx(r).caller

\* The composition may be unsettled, unbound or not declare the address, and
\* the call is refused; otherwise the callee's spec is asked for.
CtxCall(r) ==
  /\ call[r].state = "running"
  /\ hop[r].st = "none"
  /\ \E st \in {"resolving", "over"} : hop' = [hop EXCEPT ![r].st = st]
  /\ UNCHANGED <<caller, req, call, client, up, gen, meter, count, balance, scripts>>

\* the spec cannot be had, or resolveAddress finds no one service, or no action,
\* of that name in it
Unresolved(r) ==
  /\ hop[r].st = "resolving"
  /\ hop' = [hop EXCEPT ![r].st = "over"]
  /\ UNCHANGED <<caller, req, call, client, up, gen, meter, count, balance, scripts>>

\* the spec is there: invoke through the cached client, or create one first
Resolved(r) ==
  /\ hop[r].st = "resolving"
  /\ hop' = [hop EXCEPT ![r] =
       IF client # None THEN [st |-> "invoked", key |-> BillingKey(r)]
       ELSE [@ EXCEPT !.st = "creating"]]
  /\ UNCHANGED <<caller, req, call, client, up, gen, meter, count, balance, scripts>>

\* createServiceClient errs: the device or its service is gone meanwhile
NoClient(r) ==
  /\ hop[r].st = "creating"
  /\ hop' = [hop EXCEPT ![r].st = "over"]
  /\ UNCHANGED <<caller, req, call, client, up, gen, meter, count, balance, scripts>>

\* createServiceClient answers, and whoever comes last is cached
ClientCreated(r) ==
  /\ hop[r].st = "creating"
  /\ client' = Identity
  /\ hop' = [hop EXCEPT ![r] = [st |-> "invoked", key |-> BillingKey(r)]]
  /\ UNCHANGED <<caller, req, call, up, gen, meter, count, balance, scripts>>

\* the callee answers in the main thread, which charges a success
HopServed(r, ok) ==
  /\ hop[r].st = "invoked"
  /\ hop' = [hop EXCEPT ![r].st = "over"]
  /\ meter' = IF ok THEN meter \cup {RecordCall(hop[r].key, "hop", r)} ELSE meter
  /\ UNCHANGED <<caller, req, call, client, up, gen, count, balance, scripts>>

\* the worker ends: endWith answers every call it owed, and what lives in it
\* is gone
WorkerEnds ==
  /\ up
  /\ gen <= MaxEnds
  /\ up' = FALSE
  /\ req' = [r \in Requests |->
       IF call[r].owed
         THEN SessionCallback(req[r], "error") ELSE req[r]]
  /\ call' = [r \in Requests |->
       IF call[r].state = "none" THEN NoCall
       ELSE [call[r] EXCEPT !.state = "gone", !.owed = FALSE, !.outbox = <<>>]]
  /\ hop' = [r \in Requests |->
       IF hop[r].st \in {"resolving", "creating"}
         THEN [hop[r] EXCEPT !.st = "over"] ELSE hop[r]]
  /\ client' = None
  /\ UNCHANGED <<caller, gen, meter, count, balance, scripts>>

\* the supervisor starts the next one
Restart ==
  /\ ~up
  /\ up' = TRUE
  /\ gen' = gen + 1
  /\ UNCHANGED <<caller, req, call, hop, client, meter, count, balance, scripts>>

-----------------------------------------------------------------------------
(* RedisMeteringProvider.recordCall *)

\* HMGET devices: the legacy price record gives the seed; redis may fail
ReadSeed(c) ==
  /\ c.step = "read"
  /\ \/ meter' = (meter \ {c}) \cup {[c EXCEPT !.step = "eval", !.seed = Quota]}
     \/ meter' = meter \ {c}
  /\ UNCHANGED <<caller, req, call, hop, client, up, gen, count, balance, scripts>>

\* a slip: the seed replaces the count that is there
FreeCallsReseeded(c) == c.seed

\* the count the script finds, seeded only when there is none
FreeCalls(c) ==
  IF count[<<c.acct, c.tool>>] = None THEN c.seed ELSE count[<<c.acct, c.tool>>]

\* RECORD_CALL_SCRIPT, one step in redis: a free call while there is one,
\* otherwise the balance
Script(c) ==
  /\ c.step = "eval"
  /\ meter' = meter \ {c}
  /\ scripts' = [scripts EXCEPT ![<<c.acct, c.tool>>] = @ + 1]
  /\ IF FreeCalls(c) > 0
       THEN /\ count' = [count EXCEPT ![<<c.acct, c.tool>>] = FreeCalls(c) - 1]
            /\ UNCHANGED balance
       ELSE /\ balance' = [balance EXCEPT ![c.acct] = @ - 1]
            /\ UNCHANGED count
  /\ UNCHANGED <<caller, req, call, hop, client, up, gen>>

-----------------------------------------------------------------------------
Progress ==
  \/ \E r \in Requests :
       \/ ActionLimits(r) \/ Balance(r) \/ Lookup(r) \/ DeviceLimiter(r)
       \/ Dispatch(r) \/ DispatchRead(r) \/ TimerExpires(r) \/ TakeReply(r)
  \/ \E c \in meter : ReadSeed(c) \/ Script(c)

Next ==
  \/ Progress
  \/ \E r \in Requests :
       \/ Denied(r) \/ ArriveInvoke(r) \/ ArriveRead(r) \/ ArriveBalance(r)
       \/ ReadServed(r) \/ ServiceMissing(r) \/ InputRefused(r) \/ HandlerStarts(r)
       \/ \E how \in {"callback", "throw", "promise"},
             v \in {"valid", "invalid", "error"} : Report(r, how, v)
       \/ CtxCall(r) \/ Unresolved(r) \/ Resolved(r) \/ NoClient(r) \/ ClientCreated(r)
       \/ \E ok \in BOOLEAN : HopServed(r, ok)
  \/ WorkerEnds \/ Restart

Spec == Init /\ [][Next]_vars

(* The main thread's event loop runs and its timers fire; a handler may hang
   for ever, so nothing is assumed of the worker. *)
LiveSpec == Spec /\ WF_vars(Progress)

-----------------------------------------------------------------------------
Sessions ==
  [at : {"new", "limits", "lookup", "dispatch", "waiting", "done"}, kind : Kinds, w : Nat,
   timer : {"none", "on"}, called : BOOLEAN, metered : BOOLEAN, answers : Seq({"ok", "error"}),
   bills : Nat, logged : Nat]

Invocations ==
  [state : {"none", "posted", "running", "over", "gone"}, owed : BOOLEAN,
   first : {None, "ok", "error"}, ctx : Keys \cup {None},
   reports : SUBSET {"callback", "throw", "promise"}, outbox : Seq({"ok", "error"}), replied : Nat]

Hops == [st : {"none", "resolving", "creating", "invoked", "over"}, key : Keys \cup {None}]

Charges == [acct : Keys, tool : Tools, req : Requests, step : {"read", "eval"}, seed : {None, Quota}]

\* Every variable has its type.
TypeOK ==
  /\ caller \in [Requests -> Keys]
  /\ req \in [Requests -> Sessions] /\ call \in [Requests -> Invocations]
  /\ hop \in [Requests -> Hops]
  /\ client \in {None, Identity} /\ up \in BOOLEAN /\ gen \in Nat
  /\ meter \subseteq Charges
  /\ count \in [Accounts \X Tools -> (0 .. Quota) \cup {None}]
  /\ balance \in [Accounts -> Int] /\ scripts \in [Accounts \X Tools -> Nat]

\* A request is answered at most once, whichever of the timer, the reply, the
\* worker's end and a limiter's late answer comes first, and logged at most
\* once, as a call of a declared action that reached its device.
AnsweredOnce ==
  \A r \in Requests :
    /\ Len(req[r].answers) <= 1
    /\ req[r].logged <= IF req[r].kind = "invoke" THEN Len(req[r].answers) ELSE 0

\* A request is charged exactly when an action answered it with success: a
\* timeout, a refusal, a read of the spec or a late success costs nothing.
BilledIffServed ==
  \A r \in Requests :
    req[r].bills = IF req[r].kind = "invoke" /\ req[r].answers = <<"ok">> THEN 1 ELSE 0

\* Whatever client a hop went through, and whoever it was cached for, its
\* charge goes to the caller of the request whose handler made it.
HopPaidByCaller == \A c \in meter : c.acct = caller[c.req]

\* The bill of a request follows its outcome and its caller.
BillsRight == BilledIffServed /\ HopPaidByCaller

\* The first to settle wins, at both ends: a session is answered once, and one
\* reply leaves the worker per call, the verdict on the first thing the handler
\* reported, by callback, promise or throw, however often it reports after that.
FirstReportWins ==
  /\ AnsweredOnce
  /\ \A r \in Requests :
       /\ call[r].replied <= 1
       /\ call[r].first # None /\ call[r].outbox # <<>> =>
            call[r].outbox = <<call[r].first>>

\* What is gone from the free calls of a tool, and from the balance.
Used(a, t) == IF count[<<a, t>>] = None THEN 0 ELSE Quota - count[<<a, t>>]
Paid(a, t) == scripts[<<a, t>>] - Used(a, t)

\* Overlapping charges move an account exactly once each: what is gone from
\* the free calls and from the balance is the number of scripts that ran, and
\* the balance is touched only when the tool's free calls are used up.
LedgerExact ==
  \A a \in Accounts :
    /\ balance[a] = Funds - (Paid(a, "action") + Paid(a, "hop"))
    /\ \A t \in Tools : Paid(a, t) >= 0 /\ (Paid(a, t) > 0 => Used(a, t) = Quota)

\* Every request is answered, even when its handler never reports.
RequestsAnswered ==
  []<>(\A r \in Requests : req[r].at # "new" => req[r].answers # <<>>)
=============================================================================
