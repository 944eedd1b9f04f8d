--------------------------- MODULE ServiceCallProofs ---------------------------
(***************************************************************************)
(* Proofs about ServiceCall.tla, for any requests, callers, quotas and     *)
(* number of worker restarts.                                              *)
(*                                                                         *)
(* IInv is the inductive invariant: what a session promises at each stage  *)
(* of its life (SessionInv), what an invocation in the worker has said so  *)
(* far (CallInv), what ties the two and the hop together (Joined), who a   *)
(* charge under way is for, and the ledger.                                *)
(***************************************************************************)
EXTENDS ServiceCall, TLAPS

\* A session is open, with nothing said or billed, until it is done; it has its
\* timer while it waits; it is metered from its admission to its answer.
SessionInv(q) ==
  /\ q.at # "done" => q.answers = <<>> /\ q.bills = 0 /\ q.logged = 0 /\ ~q.called
  /\ q.at = "done" =>
       /\ q.answers \in {<<"ok">>, <<"error">>}
       /\ q.bills = IF q.kind = "invoke" /\ q.answers = <<"ok">> THEN 1 ELSE 0
       /\ q.logged <= IF q.kind = "invoke" THEN 1 ELSE 0
  /\ q.timer = "on" <=> q.at = "waiting"
  /\ q.at = "new" => ~q.metered
  /\ q.at \notin {"new", "done"} => (q.metered <=> q.kind \in {"invoke", "unknown"})

\* An invocation replies once, and a handler runs for a declared action only.
CallInv(c, kind) ==
  /\ c.state = "none" => c = NoCall
  /\ c.state = "posted" => c.first = None
  /\ c.state = "running" => kind = "invoke"
  /\ c.state \in {"posted", "running"} /\ c.first = None => c.replied = 0 /\ c.outbox = <<>>
  /\ c.replied <= 1
  /\ c.outbox \in {<<>>, <<"ok">>, <<"error">>}
  /\ c.outbox # <<>> => /\ c.first # None => c.outbox = <<c.first>>
                        /\ kind = "unknown" => c.outbox = <<"error">>

\* An invocation belongs to a request that was dispatched, runs as its caller,
\* and so does its hop.
Joined(r) ==
  /\ req[r].at \in {"new", "limits", "lookup", "dispatch"} => call[r] = NoCall
  /\ call[r].state # "none" => call[r].ctx = caller[r]
  /\ hop[r].st # "none" => call[r].state # "none"
  /\ hop[r].st = "invoked" => hop[r].key = caller[r]

RequestInv(r) == SessionInv(req[r]) /\ CallInv(call[r], req[r].kind) /\ Joined(r)

Requested == \A r \in Requests : RequestInv(r)

Charging == \A c \in meter : c.acct = caller[c.req] /\ (c.step = "eval" => c.seed = Quota)

IInv == TypeOK /\ Requested /\ Charging /\ LedgerExact

(***************************************************************************)
(* Sessions.                                                               *)
(***************************************************************************)

Early == {"new", "limits", "lookup", "dispatch"}

Result == {"ok", "error"}

\* What Session.response leaves of a session.
LEMMA RespondFacts ==
  ASSUME NEW q \in Sessions, NEW res \in Result
  PROVE  /\ Respond(q, res) \in Sessions
         /\ Respond(q, res).answers = Append(q.answers, res) /\ Respond(q, res).at = "done"
         /\ Respond(q, res).kind = q.kind /\ Respond(q, res).timer = q.timer
         /\ Respond(q, res).bills = IF q.metered /\ res = "ok" THEN q.bills + 1 ELSE q.bills
         /\ Respond(q, res).logged =
              IF q.at = "waiting" /\ q.kind = "invoke" THEN q.logged + 1 ELSE q.logged
  <1>1. Append(q.answers, res) \in Seq({"ok", "error"})
    BY DEF Sessions, Result
  <1>2. /\ (IF Logs(q) THEN q.logged + 1 ELSE q.logged) \in Nat
        /\ (IF Bills(q, res) THEN q.bills + 1 ELSE q.bills) \in Nat
    BY DEF Sessions
  <1>4. (IF Bills(q, res) THEN FALSE ELSE q.metered) \in BOOLEAN
    <2>1. q.metered \in BOOLEAN
      BY DEF Sessions
    <2> QED BY <2>1, Zenon
  <1>3. Respond(q, res) \in Sessions
    BY <1>1, <1>2, <1>4 DEF Respond, Sessions
  <1> QED BY <1>3 DEF Respond, Sessions, Bills, Logs, Declares

\* An open session without a timer is answered by Session.response.
LEMMA RespondInv ==
  ASSUME NEW q \in Sessions, SessionInv(q), q.at # "done", q.timer = "none", NEW res \in Result,
         res = "ok" => q.kind \notin {"invoke", "unknown"}
  PROVE  Respond(q, res) \in Sessions /\ SessionInv(Respond(q, res))
  <1>1. q.answers = <<>> /\ q.bills = 0 /\ q.logged = 0 /\ q.at # "waiting"
    BY DEF SessionInv, Sessions
  <1>2. Append(q.answers, res) = <<res>>
    BY <1>1
  <1>3. res = "ok" => ~q.metered
    BY DEF SessionInv, Sessions
  <1>4. /\ Respond(q, res) \in Sessions
        /\ Respond(q, res).answers = <<res>> /\ Respond(q, res).at = "done"
        /\ Respond(q, res).kind = q.kind /\ Respond(q, res).timer = "none"
        /\ Respond(q, res).bills = 0 /\ Respond(q, res).logged = 0
    BY <1>1, <1>2, <1>3, RespondFacts
  <1>5. <<"error">> # <<"ok">>
    OBVIOUS
  <1> QED BY <1>4, <1>5 DEF SessionInv, Result

\* Session.callback of a dispatched request leaves it done, and answered once.
LEMMA CallbackInv ==
  ASSUME NEW q \in Sessions, SessionInv(q), q.at \in {"waiting", "done"}, NEW res \in Result,
         res = "ok" => q.kind # "unknown"
  PROVE  /\ SessionCallback(q, res) \in Sessions /\ SessionInv(SessionCallback(q, res))
         /\ SessionCallback(q, res).kind = q.kind /\ SessionCallback(q, res).at = "done"
         /\ SessionCallback(q, res).bills > q.bills => q.kind = "invoke" /\ q.at = "waiting"
  <1>1. CASE q.called
    <2>1. q.at = "done"
      BY <1>1 DEF SessionInv
    <2> QED BY <1>1, <2>1 DEF SessionCallback, Sessions
  <1>2. CASE ~q.called /\ q.timer = "none"
    <2>1. q.at = "done"
      BY <1>2 DEF SessionInv, Sessions
    <2>2. SessionCallback(q, res) = [q EXCEPT !.called = TRUE]
      BY <1>2 DEF SessionCallback
    <2>3. /\ SessionCallback(q, res).at = q.at /\ SessionCallback(q, res).kind = q.kind
          /\ SessionCallback(q, res).answers = q.answers /\ SessionCallback(q, res).bills = q.bills
          /\ SessionCallback(q, res).logged = q.logged /\ SessionCallback(q, res).timer = q.timer
          /\ SessionCallback(q, res) \in Sessions /\ q.bills \in Nat
      BY <2>2 DEF Sessions
    <2> QED BY <2>1, <2>3 DEF SessionInv
  <1>3. CASE ~q.called /\ q.timer = "on"
    <2> DEFINE p == [q EXCEPT !.called = TRUE, !.timer = "none"]
    <2>1. /\ p \in Sessions /\ p.at = q.at /\ p.kind = q.kind /\ p.metered = q.metered
          /\ p.answers = q.answers /\ p.bills = q.bills /\ p.logged = q.logged /\ p.timer = "none"
      BY DEF Sessions
    <2>2. q.at = "waiting" /\ q.answers = <<>> /\ q.bills = 0 /\ q.logged = 0
      BY <1>3 DEF SessionInv
    <2>3. SessionCallback(q, res) = Respond(p, res)
      BY <1>3 DEF SessionCallback
    <2> HIDE DEF p
    <2>4. Append(p.answers, res) = <<res>>
      BY <2>1, <2>2
    <2>5. p.metered /\ res = "ok" <=> q.kind = "invoke" /\ res = "ok"
      BY <2>1, <2>2 DEF SessionInv, Sessions
    <2>6. /\ Respond(p, res) \in Sessions
          /\ Respond(p, res).answers = <<res>> /\ Respond(p, res).at = "done"
          /\ Respond(p, res).kind = q.kind /\ Respond(p, res).timer = "none"
          /\ Respond(p, res).bills = IF q.kind = "invoke" /\ res = "ok" THEN 1 ELSE 0
          /\ Respond(p, res).logged = IF q.kind = "invoke" THEN 1 ELSE 0
      BY <2>1, <2>2, <2>4, <2>5, RespondFacts
    <2>7. SessionInv(Respond(p, res))
      BY <2>6 DEF SessionInv, Result
    <2> QED BY <2>2, <2>3, <2>6, <2>7
  <1> QED BY <1>1, <1>2, <1>3 DEF Sessions

\* Dispatching installs the timer.
LEMMA TimedInv ==
  ASSUME NEW q \in Sessions, SessionInv(q), q.at = "dispatch"
  PROVE  Timed(q) \in Sessions /\ SessionInv(Timed(q)) /\ Timed(q).kind = q.kind /\ Timed(q).at = "waiting"
  BY DEF Timed, Sessions, SessionInv

(***************************************************************************)
(* Invocations.                                                            *)
(***************************************************************************)

\* The message that is posted to the worker starts an invocation.
Posted(key) == [NoCall EXCEPT !.state = "posted", !.owed = TRUE, !.ctx = key]

\* A request that was not dispatched has no invocation.
LEMMA NoCallFacts ==
  /\ NoCall \in Invocations /\ \A kind : CallInv(NoCall, kind)
  /\ NoCall.state = "none" /\ NoCall.outbox = <<>> /\ NoCall.owed = FALSE
  BY DEF NoCall, Invocations, CallInv

\* Posting makes an invocation that has said nothing.
LEMMA PostedInv ==
  ASSUME NEW key \in Keys, NEW kind
  PROVE  /\ Posted(key) \in Invocations /\ CallInv(Posted(key), kind)
         /\ Posted(key).state = "posted" /\ Posted(key).ctx = key
  <1>1. NoCall.first = None /\ NoCall.replied = 0 /\ NoCall.outbox = <<>>
    BY DEF NoCall
  <1>2. /\ Posted(key) \in Invocations
        /\ Posted(key).state = "posted" /\ Posted(key).ctx = key
        /\ Posted(key).first = None /\ Posted(key).replied = 0 /\ Posted(key).outbox = <<>>
    BY <1>1, NoCallFacts DEF Posted, Invocations
  <1>3. CallInv(Posted(key), kind)
    BY <1>2 DEF CallInv
  <1> QED BY <1>2, <1>3

\* sendMessageToParent adds one reply.
LEMMA RepliedFacts ==
  ASSUME NEW c \in Invocations, NEW res \in Result
  PROVE  /\ Replied(c, res) \in Invocations
         /\ Replied(c, res).outbox = Append(c.outbox, res) /\ Replied(c, res).replied = c.replied + 1
         /\ Replied(c, res).state = c.state /\ Replied(c, res).first = c.first
         /\ Replied(c, res).ctx = c.ctx /\ Replied(c, res).reports = c.reports
  <1>1. Append(c.outbox, res) \in Seq({"ok", "error"}) /\ c.replied + 1 \in Nat
    BY DEF Invocations, Result
  <1> QED BY <1>1 DEF Replied, Invocations

\* A call that is answered before its handler starts replies once.
LEMMA OverInv ==
  ASSUME NEW c \in Invocations, NEW kind, CallInv(c, kind), c.state = "posted", NEW res \in Result,
         kind = "unknown" => res = "error"
  PROVE  LET d == [Replied(c, res) EXCEPT !.state = "over"]
         IN  d \in Invocations /\ CallInv(d, kind) /\ d.state = "over" /\ d.ctx = c.ctx
  <1> DEFINE e == Replied(c, res)
             d == [e EXCEPT !.state = "over"]
  <1>1. c.first = None /\ c.replied = 0 /\ c.outbox = <<>>
    BY DEF CallInv
  <1>2. Append(c.outbox, res) = <<res>>
    BY <1>1
  <1>3. e \in Invocations /\ e.outbox = <<res>> /\ e.replied = 1 /\ e.first = None /\ e.ctx = c.ctx
    BY <1>1, <1>2, RepliedFacts
  <1> HIDE DEF e
  <1>4. /\ d \in Invocations /\ d.outbox = <<res>> /\ d.replied = 1 /\ d.first = None
        /\ d.ctx = c.ctx /\ d.state = "over"
    BY <1>3 DEF Invocations
  <1> HIDE DEF d
  <1>5. CallInv(d, kind)
    BY <1>4 DEF CallInv, Result
  <1> QED BY <1>4, <1>5 DEF d, e

\* The invocation after a report.
Reported(c, v, how) == [Settled(c, v) EXCEPT !.reports = c.reports \cup {how}]

\* The first report of a handler is the one that replies.
LEMMA ReportInv ==
  ASSUME NEW c \in Invocations, NEW kind, CallInv(c, kind), c.state = "running",
         NEW v \in {"valid", "invalid", "error"}, NEW how \in {"callback", "throw", "promise"}
  PROVE  /\ Reported(c, v, how) \in Invocations /\ CallInv(Reported(c, v, how), kind)
         /\ Reported(c, v, how).state = "running" /\ Reported(c, v, how).ctx = c.ctx
  <1> DEFINE e == Settled(c, v)
             d == [e EXCEPT !.reports = c.reports \cup {how}]
  <1>1. kind = "invoke"
    BY DEF CallInv
  <1>2. e \in Invocations /\ CallInv(e, kind) /\ e.state = "running" /\ e.ctx = c.ctx
    <2>1. CASE c.first # None
      BY <2>1 DEF Settled
    <2>2. CASE c.first = None
      <3> DEFINE b == [c EXCEPT !.first = Outcome(v)]
      <3>1. c.replied = 0 /\ c.outbox = <<>>
        BY <2>2 DEF CallInv
      <3>2. Outcome(v) \in Result
        BY DEF Outcome, Result
      <3>3. /\ b \in Invocations /\ b.outbox = <<>> /\ b.replied = 0 /\ b.first = Outcome(v)
            /\ b.ctx = c.ctx /\ b.state = "running"
        BY <3>1, <3>2 DEF Invocations, Result
      <3> HIDE DEF b
      <3>4. Append(b.outbox, Outcome(v)) = <<Outcome(v)>>
        BY <3>3
      <3>5. e = Replied(b, Outcome(v))
        BY <2>2 DEF Settled, b
      <3>6. /\ e \in Invocations /\ e.outbox = <<Outcome(v)>> /\ e.replied = 1
            /\ e.first = Outcome(v) /\ e.ctx = c.ctx /\ e.state = "running"
        BY <3>2, <3>3, <3>4, <3>5, RepliedFacts
      <3> HIDE DEF e
      <3>7. CallInv(e, kind)
        BY <1>1, <3>2, <3>6, ServiceCallAssumption DEF CallInv, Result
      <3> QED BY <3>6, <3>7
    <2> QED BY <2>1, <2>2
  <1> HIDE DEF e
  <1>3. c.reports \cup {how} \in SUBSET {"callback", "throw", "promise"}
    BY DEF Invocations
  <1>4. /\ d \in Invocations /\ d.state = "running" /\ d.ctx = c.ctx /\ d.first = e.first
        /\ d.outbox = e.outbox /\ d.replied = e.replied
    BY <1>2, <1>3 DEF Invocations
  <1> HIDE DEF d
  <1>5. CallInv(d, kind)
    BY <1>2, <1>4 DEF CallInv
  <1> QED BY <1>4, <1>5 DEF d, e, Reported

\* The main thread takes the reply.
LEMMA TakenInv ==
  ASSUME NEW c \in Invocations, NEW kind, CallInv(c, kind), c.outbox # <<>>
  PROVE  LET d == [c EXCEPT !.outbox = Tail(@), !.owed = FALSE]
         IN  /\ d \in Invocations /\ CallInv(d, kind) /\ d.state = c.state /\ d.ctx = c.ctx
             /\ Head(c.outbox) \in Result /\ (kind = "unknown" => Head(c.outbox) = "error")
             /\ c.state # "none"
  <1> DEFINE d == [c EXCEPT !.outbox = Tail(@), !.owed = FALSE]
  <1>1. PICK res \in Result : c.outbox = <<res>>
    BY DEF CallInv, Result
  <1>2. Tail(c.outbox) = <<>> /\ Head(c.outbox) = res
    BY <1>1
  <1>3. kind = "unknown" => res = "error"
    <2>1. Head(<<"error">>) = "error"
      OBVIOUS
    <2> QED BY <1>1, <1>2, <2>1 DEF CallInv
  <1>4. c.state # "none"
    BY NoCallFacts DEF CallInv
  <1>5. /\ d \in Invocations /\ d.state = c.state /\ d.ctx = c.ctx /\ d.first = c.first
        /\ d.outbox = <<>> /\ d.replied = c.replied
    <2>1. <<>> \in Seq({"ok", "error"})
      OBVIOUS
    <2>2. d = [c EXCEPT !.outbox = <<>>, !.owed = FALSE]
      BY <1>2
    <2> HIDE DEF d
    <2> QED BY <2>1, <2>2 DEF Invocations
  <1> HIDE DEF d
  <1>6. ~(c.state \in {"posted", "running"} /\ c.first = None)
    BY DEF CallInv
  <1>7. CallInv(d, kind)
    BY <1>4, <1>5, <1>6 DEF CallInv
  <1> QED BY <1>2, <1>3, <1>4, <1>5, <1>7 DEF d

\* The worker is gone, and what it had not delivered with it.
LEMMA GoneInv ==
  ASSUME NEW c \in Invocations, NEW kind, CallInv(c, kind)
  PROVE  LET d == [c EXCEPT !.state = "gone", !.owed = FALSE, !.outbox = <<>>]
         IN  d \in Invocations /\ CallInv(d, kind) /\ d.state = "gone" /\ d.ctx = c.ctx
  <1> DEFINE d == [c EXCEPT !.state = "gone", !.owed = FALSE, !.outbox = <<>>]
  <1>1. /\ d \in Invocations /\ d.state = "gone" /\ d.ctx = c.ctx /\ d.outbox = <<>>
        /\ d.replied = c.replied
    <2>1. <<>> \in Seq({"ok", "error"})
      OBVIOUS
    <2> QED BY <2>1 DEF Invocations
  <1> HIDE DEF d
  <1>2. CallInv(d, kind)
    BY <1>1 DEF CallInv
  <1> QED BY <1>1, <1>2 DEF d

(***************************************************************************)
(* One request moves at a time.                                            *)
(***************************************************************************)

CoreType ==
  /\ caller \in [Requests -> Keys] /\ req \in [Requests -> Sessions]
  /\ call \in [Requests -> Invocations] /\ hop \in [Requests -> Hops]

\* A step that changes what belongs to one request, and leaves that right.
LEMMA RequestMoves ==
  ASSUME CoreType, Requested, NEW r \in Requests,
         NEW q \in Sessions, SessionInv(q), q.kind = req[r].kind,
         NEW c \in Invocations, CallInv(c, q.kind),
         NEW h \in Hops,
         q.at \in Early => c = NoCall,
         c.state # "none" => c.ctx = caller[r],
         h.st # "none" => c.state # "none",
         h.st = "invoked" => h.key = caller[r],
         req' = [req EXCEPT ![r] = q], call' = [call EXCEPT ![r] = c], hop' = [hop EXCEPT ![r] = h],
         UNCHANGED caller
  PROVE  CoreType' /\ Requested'
  <1>1. CoreType'
    BY DEF CoreType
  <1>2. ASSUME NEW k \in Requests PROVE RequestInv(k)'
    <2>1. CASE k = r
      <3>1. req'[k] = q /\ call'[k] = c /\ hop'[k] = h /\ caller'[k] = caller[r]
        BY <2>1 DEF CoreType
      <3>2. q.kind = req'[k].kind
        BY <3>1
      <3> QED BY <3>1, <3>2 DEF RequestInv, Joined, Early
    <2>2. CASE k # r
      <3>1. req'[k] = req[k] /\ call'[k] = call[k] /\ hop'[k] = hop[k] /\ caller'[k] = caller[k]
        BY <2>2 DEF CoreType
      <3> QED BY <3>1 DEF Requested, RequestInv, Joined
    <2> QED BY <2>1, <2>2
  <1> QED BY <1>1, <1>2 DEF Requested

\* What is known of one request.
LEMMA RequestFacts ==
  ASSUME CoreType, Requested, NEW r \in Requests
  PROVE  /\ req[r] \in Sessions /\ SessionInv(req[r])
         /\ call[r] \in Invocations /\ CallInv(call[r], req[r].kind) /\ hop[r] \in Hops
         /\ req[r].at \in Early => call[r] = NoCall
         /\ call[r].state # "none" => call[r].ctx = caller[r] /\ req[r].at \in {"waiting", "done"}
         /\ hop[r].st # "none" => call[r].state # "none"
         /\ hop[r].st = "invoked" => hop[r].key = caller[r]
         /\ caller[r] \in Keys
  <1>1. /\ req[r] \in Sessions /\ call[r] \in Invocations /\ hop[r] \in Hops /\ caller[r] \in Keys
        /\ SessionInv(req[r]) /\ CallInv(call[r], req[r].kind) /\ Joined(r)
    BY DEF CoreType, Requested, RequestInv
  <1>2. req[r].at \in Early \cup {"waiting", "done"}
    BY <1>1 DEF Sessions, Early
  <1> QED BY <1>1, <1>2, NoCallFacts DEF Joined, Early

\* Only the session changes.
LEMMA SessionMoves ==
  ASSUME CoreType, Requested, NEW r \in Requests,
         NEW q \in Sessions, SessionInv(q), q.kind = req[r].kind,
         q.at \in Early => req[r].at \in Early,
         req' = [req EXCEPT ![r] = q], UNCHANGED <<caller, call, hop>>
  PROVE  CoreType' /\ Requested'
  <1>1. call' = [call EXCEPT ![r] = call[r]] /\ hop' = [hop EXCEPT ![r] = hop[r]]
    BY DEF CoreType
  <1>2. /\ call[r] \in Invocations /\ CallInv(call[r], q.kind) /\ hop[r] \in Hops
        /\ q.at \in Early => call[r] = NoCall
        /\ call[r].state # "none" => call[r].ctx = caller[r]
        /\ hop[r].st # "none" => call[r].state # "none"
        /\ hop[r].st = "invoked" => hop[r].key = caller[r]
    BY RequestFacts
  <1> QED BY <1>1, <1>2, RequestMoves

\* Only the invocation changes.
LEMMA CallMoves ==
  ASSUME CoreType, Requested, NEW r \in Requests,
         NEW c \in Invocations, CallInv(c, req[r].kind),
         call[r].state # "none", c.state # "none", c.ctx = call[r].ctx,
         call' = [call EXCEPT ![r] = c], UNCHANGED <<caller, req, hop>>
  PROVE  CoreType' /\ Requested'
  <1>1. req' = [req EXCEPT ![r] = req[r]] /\ hop' = [hop EXCEPT ![r] = hop[r]]
    BY DEF CoreType
  <1>2. req[r].at \notin Early
    BY RequestFacts, NoCallFacts
  <1>3. /\ req[r] \in Sessions /\ SessionInv(req[r]) /\ hop[r] \in Hops
        /\ c.ctx = caller[r]
        /\ hop[r].st = "invoked" => hop[r].key = caller[r]
    BY RequestFacts
  <1> QED BY <1>1, <1>2, <1>3, RequestMoves

\* Only the hop changes.
LEMMA HopMoves ==
  ASSUME CoreType, Requested, NEW r \in Requests,
         NEW h \in Hops, call[r].state # "none", h.st = "invoked" => h.key = caller[r],
         hop' = [hop EXCEPT ![r] = h], UNCHANGED <<caller, req, call>>
  PROVE  CoreType' /\ Requested'
  <1>1. req' = [req EXCEPT ![r] = req[r]] /\ call' = [call EXCEPT ![r] = call[r]]
    BY DEF CoreType
  <1> QED BY <1>1, RequestFacts, RequestMoves

\* The main thread answers an open session on the spot.
LEMMA AnswerMoves ==
  ASSUME CoreType, Requested, NEW r \in Requests, req[r].at \in Early, NEW res \in Result,
         res = "ok" => req[r].kind \notin {"invoke", "unknown"},
         Answer(r, res), UNCHANGED <<caller, call, hop>>
  PROVE  CoreType' /\ Requested' /\ UNCHANGED meter
  <1>1. req[r] \in Sessions /\ SessionInv(req[r])
    BY RequestFacts
  <1>2. req[r].at # "done" /\ req[r].timer = "none"
    BY <1>1 DEF SessionInv, Sessions, Early
  <1>3. Respond(req[r], res) \in Sessions /\ SessionInv(Respond(req[r], res))
    BY <1>1, <1>2, RespondInv
  <1>4. Respond(req[r], res).kind = req[r].kind /\ Respond(req[r], res).at = "done"
    BY <1>1, RespondFacts
  <1>5. CoreType' /\ Requested'
    BY <1>3, <1>4, SessionMoves DEF Answer, Early
  <1>6. ~Bills(req[r], res)
    BY <1>1 DEF Bills, SessionInv, Sessions, Early
  <1> QED BY <1>5, <1>6 DEF Answer, NewBill

(***************************************************************************)
(* Sessions, invocations and hops, step by step.                           *)
(***************************************************************************)

\* A request is admitted with its metering decided, or gets its worker.
LEMMA AdmittedMoves ==
  ASSUME CoreType, Requested, NEW r \in Requests, NEW kinds, NEW next \in {"limits", "lookup"},
         Admitted(r, kinds, next)
  PROVE  CoreType' /\ Requested'
  <1> DEFINE m == req[r].kind \in {"invoke", "unknown"}
             q == [req[r] EXCEPT !.at = next, !.metered = m]
  <1>1. req[r] \in Sessions /\ SessionInv(req[r]) /\ req[r].at = "new"
    BY RequestFacts DEF Admitted
  <1>0. m \in BOOLEAN /\ (m <=> req[r].kind \in {"invoke", "unknown"})
    OBVIOUS
  <1> HIDE DEF m
  <1>2. /\ q \in Sessions /\ q.at = next /\ q.kind = req[r].kind /\ q.answers = req[r].answers
        /\ q.bills = req[r].bills /\ q.logged = req[r].logged /\ q.called = req[r].called
        /\ q.timer = req[r].timer
    BY <1>0, <1>1 DEF Sessions
  <1>5. q.metered <=> req[r].kind \in {"invoke", "unknown"}
    BY <1>0, <1>1 DEF Sessions
  <1>3. req' = [req EXCEPT ![r] = q] /\ UNCHANGED <<caller, call, hop>>
    BY DEF Admitted, m
  <1> HIDE DEF q
  <1>4. SessionInv(q)
    BY <1>1, <1>2, <1>5 DEF SessionInv
  <1> QED BY <1>1, <1>2, <1>3, <1>4, SessionMoves DEF Early

\* The limiters and the lookup let it pass.
LEMMA PassMoves ==
  ASSUME CoreType, Requested, NEW r \in Requests, req[r].at \in {"limits", "lookup"},
         NEW q \in Sessions, q.at \in {"lookup", "dispatch"}, q.kind = req[r].kind,
         q.answers = req[r].answers, q.bills = req[r].bills, q.logged = req[r].logged,
         q.called = req[r].called, q.timer = req[r].timer, q.metered = req[r].metered,
         req' = [req EXCEPT ![r] = q], UNCHANGED <<caller, call, hop>>
  PROVE  CoreType' /\ Requested'
  <1>1. SessionInv(q)
    BY RequestFacts DEF SessionInv
  <1> QED BY <1>1, SessionMoves DEF Early

\* The timer and the message, or the answer of an ended worker.
LEMMA SendsMoves ==
  ASSUME CoreType, Requested, NEW r \in Requests, Sends(r)
  PROVE  CoreType' /\ Requested'
  <1>1. /\ req[r] \in Sessions /\ SessionInv(req[r]) /\ req[r].at = "dispatch"
        /\ call[r] = NoCall /\ caller[r] \in Keys /\ hop[r] \in Hops /\ hop[r].st = "none"
    BY RequestFacts, NoCallFacts DEF Sends, Early
  <1> DEFINE q == Timed(req[r])
  <1>2. q \in Sessions /\ SessionInv(q) /\ q.kind = req[r].kind /\ q.at = "waiting"
    BY <1>1, TimedInv
  <1>3. CASE /\ req' = [req EXCEPT ![r] = Timed(@)]
             /\ call' = [call EXCEPT ![r] = [@ EXCEPT !.state = "posted", !.owed = TRUE,
                                                     !.ctx = WireIdentityOf(r)]]
    <2>1. req' = [req EXCEPT ![r] = q] /\ call' = [call EXCEPT ![r] = Posted(caller[r])]
      BY <1>1, <1>3 DEF Posted, WireIdentityOf
    <2>2. hop' = [hop EXCEPT ![r] = hop[r]] /\ UNCHANGED caller
      BY DEF Sends, CoreType
    <2>3. /\ Posted(caller[r]) \in Invocations /\ CallInv(Posted(caller[r]), q.kind)
          /\ Posted(caller[r]).state = "posted" /\ Posted(caller[r]).ctx = caller[r]
      BY <1>1, PostedInv
    <2>4. q.at \notin Early
      BY <1>2 DEF Early
    <2> HIDE DEF q
    <2> QED BY <1>1, <1>2, <2>1, <2>2, <2>3, <2>4, RequestMoves
  <1>4. CASE req' = [req EXCEPT ![r] = SessionCallback(Timed(@), "error")] /\ UNCHANGED call
    <2> DEFINE p == SessionCallback(q, "error")
    <2>1. p \in Sessions /\ SessionInv(p) /\ p.kind = req[r].kind /\ p.at = "done"
      BY <1>2, CallbackInv DEF Result
    <2>2. req' = [req EXCEPT ![r] = p] /\ UNCHANGED <<caller, call, hop>>
      BY <1>4 DEF Sends
    <2>3. p.at \notin Early
      BY <2>1 DEF Early
    <2> HIDE DEF p
    <2> QED BY <2>1, <2>2, <2>3, SessionMoves
  <1> QED BY <1>3, <1>4 DEF Sends

\* The timer fires.
LEMMA TimerMoves ==
  ASSUME CoreType, Requested, NEW r \in Requests, TimerExpires(r)
  PROVE  CoreType' /\ Requested'
  <1> DEFINE p == SessionCallback(req[r], "error")
  <1>1. req[r] \in Sessions /\ SessionInv(req[r]) /\ req[r].at = "waiting"
    BY RequestFacts DEF TimerExpires, SessionInv
  <1>2. p \in Sessions /\ SessionInv(p) /\ p.kind = req[r].kind /\ p.at = "done"
    BY <1>1, CallbackInv DEF Result
  <1>3. req' = [req EXCEPT ![r] = p] /\ UNCHANGED <<caller, call, hop>>
    BY DEF TimerExpires
  <1>4. p.at \notin Early
    BY <1>2 DEF Early
  <1> HIDE DEF p
  <1> QED BY <1>2, <1>3, <1>4, SessionMoves

\* A reply reaches the main thread, and the bill it makes is for the caller.
LEMMA ReplyMoves ==
  ASSUME CoreType, Requested, NEW r \in Requests, TakeReply(r)
  PROVE  CoreType' /\ Requested' /\ meter' \subseteq meter \cup {RecordCall(caller[r], "action", r)}
  <1> DEFINE c == [call[r] EXCEPT !.outbox = Tail(@), !.owed = FALSE]
             res == Head(call[r].outbox)
             q == IF call[r].owed THEN SessionCallback(req[r], res) ELSE req[r]
  <1>1. /\ c \in Invocations /\ CallInv(c, req[r].kind) /\ c.state = call[r].state
        /\ c.ctx = call[r].ctx /\ res \in Result /\ (req[r].kind = "unknown" => res = "error")
        /\ call[r].state # "none"
    BY RequestFacts, TakenInv DEF TakeReply
  <1>2. /\ req[r] \in Sessions /\ SessionInv(req[r]) /\ req[r].at \in {"waiting", "done"}
        /\ c.ctx = caller[r] /\ hop[r] \in Hops /\ (hop[r].st = "invoked" => hop[r].key = caller[r])
    BY <1>1, RequestFacts
  <1>3. q \in Sessions /\ SessionInv(q) /\ q.kind = req[r].kind /\ q.at \in {"waiting", "done"}
    BY <1>1, <1>2, CallbackInv
  <1>4. /\ req' = [req EXCEPT ![r] = q] /\ call' = [call EXCEPT ![r] = c]
        /\ hop' = [hop EXCEPT ![r] = hop[r]] /\ UNCHANGED caller
    <2>1. call' = [call EXCEPT ![r] = c] /\ UNCHANGED <<caller, hop>>
      BY DEF TakeReply
    <2>2. req' = [req EXCEPT ![r] = q]
      <3>1. CASE call[r].owed
        BY <3>1 DEF TakeReply
      <3>2. CASE ~call[r].owed
        BY <3>2 DEF TakeReply, CoreType
      <3> QED BY <3>1, <3>2
    <2> QED BY <2>1, <2>2 DEF CoreType
  <1>5. meter' \subseteq meter \cup {RecordCall(caller[r], "action", r)}
    BY DEF TakeReply, CallbackBill
  <1>6. q.at \notin Early
    BY <1>3 DEF Early
  <1>7. CallInv(c, q.kind)
    BY <1>1, <1>3
  <1> HIDE DEF c, q
  <1>8. CoreType' /\ Requested'
    BY <1>1, <1>2, <1>3, <1>4, <1>6, <1>7, RequestMoves
  <1> QED BY <1>5, <1>8

\* The worker answers without a handler.
LEMMA OverMoves ==
  ASSUME CoreType, Requested, NEW r \in Requests, NEW res \in Result, Over(r, res),
         req[r].kind = "unknown" => res = "error"
  PROVE  CoreType' /\ Requested'
  <1> DEFINE c == [Replied(call[r], res) EXCEPT !.state = "over"]
  <1>1. call[r] \in Invocations /\ CallInv(call[r], req[r].kind) /\ call[r].state = "posted"
    BY RequestFacts DEF Over
  <1>2. c \in Invocations /\ CallInv(c, req[r].kind) /\ c.state = "over" /\ c.ctx = call[r].ctx
    BY <1>1, OverInv
  <1>3. call' = [call EXCEPT ![r] = c] /\ UNCHANGED <<caller, req, hop>>
    BY DEF Over
  <1> HIDE DEF c
  <1> QED BY <1>1, <1>2, <1>3, CallMoves

\* The handler starts, for a declared action.
LEMMA StartMoves ==
  ASSUME CoreType, Requested, NEW r \in Requests, HandlerStarts(r)
  PROVE  CoreType' /\ Requested'
  <1> DEFINE c == [call[r] EXCEPT !.state = "running"]
  <1>1. /\ call[r] \in Invocations /\ CallInv(call[r], req[r].kind) /\ call[r].state = "posted"
        /\ req[r].kind = "invoke"
    BY RequestFacts DEF HandlerStarts
  <1>2. /\ c \in Invocations /\ c.state = "running" /\ c.ctx = call[r].ctx /\ c.first = call[r].first
        /\ c.replied = call[r].replied /\ c.outbox = call[r].outbox
    BY <1>1 DEF Invocations
  <1>3. call' = [call EXCEPT ![r] = c] /\ UNCHANGED <<caller, req, hop>>
    BY DEF HandlerStarts
  <1> HIDE DEF c
  <1>4. CallInv(c, req[r].kind)
    BY <1>1, <1>2 DEF CallInv
  <1> QED BY <1>1, <1>2, <1>3, <1>4, CallMoves

\* The handler reports.
LEMMA ReportMoves ==
  ASSUME CoreType, Requested, NEW r \in Requests, NEW v \in {"valid", "invalid", "error"},
         NEW how \in {"callback", "throw", "promise"}, Report(r, how, v)
  PROVE  CoreType' /\ Requested'
  <1> DEFINE c == Reported(call[r], v, how)
  <1>1. call[r] \in Invocations /\ CallInv(call[r], req[r].kind) /\ call[r].state = "running"
    BY RequestFacts DEF Report
  <1>2. c \in Invocations /\ CallInv(c, req[r].kind) /\ c.state = "running" /\ c.ctx = call[r].ctx
    BY <1>1, ReportInv
  <1>3. call' = [call EXCEPT ![r] = c] /\ UNCHANGED <<caller, req, hop>>
    BY DEF Report, Reported
  <1> HIDE DEF c
  <1> QED BY <1>1, <1>2, <1>3, CallMoves

\* The handler's hop moves, and leaves as its caller.
LEMMA CtxMoves ==
  ASSUME CoreType, Requested, NEW r \in Requests, NEW ok \in BOOLEAN,
         CtxCall(r) \/ Unresolved(r) \/ Resolved(r) \/ NoClient(r) \/ ClientCreated(r) \/ HopServed(r, ok)
  PROVE  CoreType' /\ Requested'
  <1>1. hop[r] \in Hops /\ caller[r] \in Keys /\ call[r].state # "none" /\ BillingKey(r) = caller[r]
    <2>1. call[r].state # "none"
      BY RequestFacts DEF CtxCall, Unresolved, Resolved, NoClient, ClientCreated, HopServed
    <2> QED BY <2>1, RequestFacts DEF BillingKey, Ctx, CallerIdentityOf
  <1>2. ASSUME NEW st \in {"resolving", "creating", "over"}, hop' = [hop EXCEPT ![r] = [@ EXCEPT !.st = st]],
               UNCHANGED <<caller, req, call>>
        PROVE  CoreType' /\ Requested'
    <2> DEFINE h == [hop[r] EXCEPT !.st = st]
    <2>1. h \in Hops /\ h.st = st
      BY <1>1 DEF Hops
    <2>2. hop' = [hop EXCEPT ![r] = h]
      BY <1>2
    <2> HIDE DEF h
    <2> QED BY <1>1, <1>2, <2>1, <2>2, HopMoves
  <1>3. ASSUME hop' = [hop EXCEPT ![r] = [st |-> "invoked", key |-> BillingKey(r)]],
               UNCHANGED <<caller, req, call>>
        PROVE  CoreType' /\ Requested'
    <2> DEFINE h == [st |-> "invoked", key |-> BillingKey(r)]
    <2>1. h \in Hops /\ h.st = "invoked" /\ h.key = caller[r]
      BY <1>1 DEF Hops
    <2>2. hop' = [hop EXCEPT ![r] = h]
      BY <1>3
    <2> HIDE DEF h
    <2> QED BY <1>1, <1>3, <2>1, <2>2, HopMoves
  <1>4. CASE CtxCall(r)
    BY <1>2, <1>4 DEF CtxCall
  <1>5. CASE Unresolved(r) \/ NoClient(r) \/ HopServed(r, ok)
    BY <1>2, <1>5 DEF Unresolved, NoClient, HopServed
  <1>6. CASE Resolved(r)
    <2>1. CASE client # None
      BY <1>3, <1>6, <2>1 DEF Resolved
    <2>2. CASE client = None
      BY <1>2, <1>6, <2>2 DEF Resolved
    <2> QED BY <2>1, <2>2
  <1>7. CASE ClientCreated(r)
    BY <1>3, <1>7 DEF ClientCreated
  <1> QED BY <1>4, <1>5, <1>6, <1>7

\* endWith answers every call the ended worker owed.
LEMMA EndsMoves ==
  ASSUME CoreType, Requested, WorkerEnds
  PROVE  CoreType' /\ Requested'
  <1> DEFINE q(r) == IF call[r].owed THEN SessionCallback(req[r], "error") ELSE req[r]
             c(r) == IF call[r].state = "none" THEN NoCall
                     ELSE [call[r] EXCEPT !.state = "gone", !.owed = FALSE, !.outbox = <<>>]
             h(r) == IF hop[r].st \in {"resolving", "creating"} THEN [hop[r] EXCEPT !.st = "over"] ELSE hop[r]
  <1>1. ASSUME NEW r \in Requests
        PROVE  /\ q(r) \in Sessions /\ SessionInv(q(r)) /\ q(r).kind = req[r].kind
               /\ q(r).at \in Early => req[r].at \in Early
    <2>1. CASE call[r].owed
      <3>1. call[r].state # "none"
        BY <2>1, RequestFacts, NoCallFacts DEF CallInv
      <3>2. req[r] \in Sessions /\ SessionInv(req[r]) /\ req[r].at \in {"waiting", "done"}
        BY <3>1, RequestFacts
      <3>3. /\ SessionCallback(req[r], "error") \in Sessions /\ SessionInv(SessionCallback(req[r], "error"))
            /\ SessionCallback(req[r], "error").kind = req[r].kind
            /\ SessionCallback(req[r], "error").at = "done"
        BY <3>2, CallbackInv DEF Result
      <3> QED BY <2>1, <3>3 DEF Early
    <2>2. CASE ~call[r].owed
      BY <2>2, RequestFacts
    <2> QED BY <2>1, <2>2
  <1>2. ASSUME NEW r \in Requests
        PROVE  /\ c(r) \in Invocations /\ CallInv(c(r), req[r].kind)
               /\ c(r).state # "none" => c(r).ctx = caller[r]
               /\ call[r].state # "none" => c(r).state # "none"
               /\ call[r] = NoCall => c(r) = NoCall
    <2>1. CASE call[r].state = "none"
      BY <2>1, NoCallFacts
    <2>2. CASE call[r].state # "none"
      <3>0. call[r] \in Invocations /\ CallInv(call[r], req[r].kind) /\ call[r].ctx = caller[r]
        BY <2>2, RequestFacts
      <3>1. /\ c(r) \in Invocations /\ CallInv(c(r), req[r].kind) /\ c(r).state = "gone"
            /\ c(r).ctx = call[r].ctx
        BY <2>2, <3>0, GoneInv
      <3> QED BY <3>0, <3>1, <2>2, NoCallFacts
    <2> QED BY <2>1, <2>2
  <1>3. ASSUME NEW r \in Requests
        PROVE  /\ h(r) \in Hops /\ (h(r).st # "none" => hop[r].st # "none")
               /\ h(r).st = "invoked" => h(r).key = caller[r]
    <2>1. hop[r] \in Hops /\ (hop[r].st = "invoked" => hop[r].key = caller[r])
      BY RequestFacts
    <2> QED BY <2>1 DEF Hops
  <1>4. /\ req' = [r \in Requests |-> q(r)] /\ call' = [r \in Requests |-> c(r)]
        /\ hop' = [r \in Requests |-> h(r)] /\ UNCHANGED caller
    BY DEF WorkerEnds
  <1> HIDE DEF q, c, h
  <1>5. CoreType'
    BY <1>1, <1>2, <1>3, <1>4 DEF CoreType
  <1>6. ASSUME NEW r \in Requests PROVE RequestInv(r)'
    <2>1. req'[r] = q(r) /\ call'[r] = c(r) /\ hop'[r] = h(r) /\ caller'[r] = caller[r]
      BY <1>4
    <2>2. CallInv(c(r), q(r).kind)
      BY <1>1, <1>2
    <2>3. /\ (req[r].at \in Early => call[r] = NoCall)
          /\ (hop[r].st # "none" => call[r].state # "none")
      BY RequestFacts
    <2> QED BY <2>1, <2>2, <2>3, <1>1, <1>2, <1>3 DEF RequestInv, Joined, Early
  <1> QED BY <1>5, <1>6 DEF Requested

\* Every step leaves every request right.
LEMMA RequestStep ==
  ASSUME CoreType, Requested, gen \in Nat, [Next]_vars
  PROVE  CoreType' /\ Requested'
  <1>a. "ok" \in Result /\ "error" \in Result /\ "error" # "ok"
    BY DEF Result
  <1>1. ASSUME NEW r \in Requests, Denied(r) PROVE CoreType' /\ Requested'
    BY <1>1, <1>a, AnswerMoves DEF Denied, Early
  <1>2. ASSUME NEW r \in Requests, ArriveInvoke(r) \/ ArriveRead(r) \/ ArriveBalance(r)
        PROVE  CoreType' /\ Requested'
    BY <1>2, AdmittedMoves DEF ArriveInvoke, ArriveRead, ArriveBalance
  <1>3. ASSUME NEW r \in Requests, ActionLimits(r) PROVE CoreType' /\ Requested'
    <2>1. CASE Answer(r, "error")
      BY <1>3, <2>1, <1>a, AnswerMoves DEF ActionLimits, Early
    <2>2. CASE req' = [req EXCEPT ![r].at = "lookup"]
      <3> DEFINE q == [req[r] EXCEPT !.at = "lookup"]
      <3>1. /\ q \in Sessions /\ q.at = "lookup" /\ q.kind = req[r].kind
            /\ q.answers = req[r].answers /\ q.bills = req[r].bills /\ q.logged = req[r].logged
            /\ q.called = req[r].called /\ q.timer = req[r].timer /\ q.metered = req[r].metered
        BY RequestFacts DEF Sessions
      <3>2. req' = [req EXCEPT ![r] = q]
        BY <2>2
      <3> HIDE DEF q
      <3> QED BY <1>3, <3>1, <3>2, PassMoves DEF ActionLimits
    <2> QED BY <1>3, <2>1, <2>2 DEF ActionLimits
  <1>4. ASSUME NEW r \in Requests, Balance(r) PROVE CoreType' /\ Requested'
    <2>1. PICK res \in Result : Answer(r, res)
      BY <1>4 DEF Balance, Result
    <2>2. req[r].at \in Early /\ req[r].kind \notin {"invoke", "unknown"} /\ UNCHANGED <<caller, call, hop>>
      BY <1>4 DEF Balance, Early
    <2> QED BY <2>1, <2>2, AnswerMoves
  <1>5. ASSUME NEW r \in Requests, Lookup(r) PROVE CoreType' /\ Requested'
    <2>1. CASE Answer(r, "error")
      BY <1>5, <2>1, <1>a, AnswerMoves DEF Lookup, Early
    <2>2. CASE req' = [req EXCEPT ![r] = [@ EXCEPT !.at = "dispatch", !.w = gen]]
      <3> DEFINE q == [req[r] EXCEPT !.at = "dispatch", !.w = gen]
      <3>1. /\ q \in Sessions /\ q.at = "dispatch" /\ q.kind = req[r].kind
            /\ q.answers = req[r].answers /\ q.bills = req[r].bills /\ q.logged = req[r].logged
            /\ q.called = req[r].called /\ q.timer = req[r].timer /\ q.metered = req[r].metered
        BY RequestFacts DEF Sessions
      <3>2. req' = [req EXCEPT ![r] = q]
        BY <2>2
      <3> HIDE DEF q
      <3> QED BY <1>5, <3>1, <3>2, PassMoves DEF Lookup
    <2> QED BY <1>5, <2>1, <2>2 DEF Lookup
  <1>6. ASSUME NEW r \in Requests, DeviceLimiter(r) PROVE CoreType' /\ Requested'
    BY <1>6, <1>a, AnswerMoves DEF DeviceLimiter, Early
  <1>7. ASSUME NEW r \in Requests, Dispatch(r) \/ DispatchRead(r) PROVE CoreType' /\ Requested'
    BY <1>7, SendsMoves DEF Dispatch, DispatchRead
  <1>8. ASSUME NEW r \in Requests, TimerExpires(r) \/ TakeReply(r) PROVE CoreType' /\ Requested'
    BY <1>8, TimerMoves, ReplyMoves
  <1>9. ASSUME NEW r \in Requests, ReadServed(r) \/ ServiceMissing(r) \/ InputRefused(r)
        PROVE  CoreType' /\ Requested'
    <2>1. PICK res \in Result : Over(r, res) /\ (req[r].kind = "unknown" => res = "error")
      BY <1>9, <1>a DEF ReadServed, GetDeviceSpec, ResolveSchema, ServiceMissing, InputRefused, Result
    <2> QED BY <2>1, OverMoves
  <1>10. ASSUME NEW r \in Requests, HandlerStarts(r) PROVE CoreType' /\ Requested'
    BY <1>10, StartMoves
  <1>11. ASSUME NEW r \in Requests, NEW how \in {"callback", "throw", "promise"},
                NEW v \in {"valid", "invalid", "error"}, Report(r, how, v)
         PROVE  CoreType' /\ Requested'
    BY <1>11, ReportMoves
  <1>12. ASSUME NEW r \in Requests, NEW ok \in BOOLEAN,
                \/ CtxCall(r) \/ Unresolved(r) \/ Resolved(r) \/ NoClient(r) \/ ClientCreated(r)
                \/ HopServed(r, ok)
         PROVE  CoreType' /\ Requested'
    BY <1>12, CtxMoves
  <1>13. ASSUME UNCHANGED <<caller, req, call, hop>> PROVE CoreType' /\ Requested'
    BY <1>13 DEF CoreType, Requested, RequestInv, Joined
  <1>14. ASSUME Restart \/ UNCHANGED vars \/ (\E c \in meter : ReadSeed(c) \/ Script(c))
         PROVE  UNCHANGED <<caller, req, call, hop>>
    BY <1>14 DEF Restart, vars, ReadSeed, Script
  <1> QED BY <1>1, <1>2, <1>3, <1>4, <1>5, <1>6, <1>7, <1>8, <1>9, <1>10, <1>11, <1>12, <1>13, <1>14,
             EndsMoves DEF Next, Progress

(***************************************************************************)
(* The meter and the ledger.                                               *)
(***************************************************************************)

LedgerType ==
  /\ count \in [Accounts \X Tools -> (0 .. Quota) \cup {None}]
  /\ balance \in [Accounts -> Int] /\ scripts \in [Accounts \X Tools -> Nat]

\* A table with a row and a column.
LEMMA PairTable ==
  ASSUME NEW S, NEW T, NEW V, NEW f \in [S \X T -> V]
  PROVE  /\ \A a \in S, b \in T : f[<<a, b>>] \in V
         /\ \A s \in S, t \in T, v \in V :
              /\ [f EXCEPT ![<<s, t>>] = v] \in [S \X T -> V]
              /\ \A a \in S, b \in T :
                   [f EXCEPT ![<<s, t>>] = v][<<a, b>>] = IF a = s /\ b = t THEN v ELSE f[<<a, b>>]
  <1>1. \A a \in S, b \in T : <<a, b>> \in S \X T
    OBVIOUS
  <1>2. \A a \in S, b \in T : f[<<a, b>>] \in V
    BY <1>1
  <1>3. ASSUME NEW s \in S, NEW t \in T, NEW v \in V
        PROVE  /\ [f EXCEPT ![<<s, t>>] = v] \in [S \X T -> V]
               /\ \A a \in S, b \in T :
                    [f EXCEPT ![<<s, t>>] = v][<<a, b>>] = IF a = s /\ b = t THEN v ELSE f[<<a, b>>]
    <2> DEFINE p == <<s, t>>
    <2>1. p \in S \X T /\ \A a \in S, b \in T : <<a, b>> = p <=> a = s /\ b = t
      OBVIOUS
    <2> HIDE DEF p
    <2>2. [f EXCEPT ![p] = v] \in [S \X T -> V]
      BY <2>1
    <2>3. \A x \in S \X T : [f EXCEPT ![p] = v][x] = IF x = p THEN v ELSE f[x]
      BY <2>1
    <2> QED BY <1>1, <2>1, <2>2, <2>3 DEF p
  <1> QED BY <1>2, <1>3

\* The charges a step may add: to the caller of the request, of nothing read yet.
LEMMA NewCharge ==
  ASSUME CoreType, NEW r \in Requests, NEW t \in Tools, NEW c, c = RecordCall(caller[r], t, r)
  PROVE  c \in Charges /\ c.acct = caller[c.req] /\ c.step # "eval"
  BY DEF CoreType, RecordCall, Charges

\* Every step keeps the charges under way with their callers.
LEMMA ChargingStep ==
  ASSUME CoreType, Requested, meter \subseteq Charges, Charging, [Next]_vars
  PROVE  meter' \subseteq Charges /\ Charging'
  <1>0. UNCHANGED caller
    BY DEF Next, Progress, ActionLimits, Balance, Lookup, DeviceLimiter, Dispatch, DispatchRead, Sends,
           TimerExpires, TakeReply, ReadSeed, Script, Denied, ArriveInvoke, ArriveRead, ArriveBalance,
           Admitted, ReadServed, GetDeviceSpec, ResolveSchema, ServiceMissing, InputRefused, Over,
           HandlerStarts, Report, CtxCall, Unresolved, Resolved, NoClient, ClientCreated, HopServed,
           WorkerEnds, Restart, vars
  <1>1. ASSUME meter' \subseteq meter PROVE meter' \subseteq Charges /\ Charging'
    BY <1>0, <1>1 DEF Charging
  <1>2. ASSUME NEW r \in Requests, NEW t \in Tools,
               meter' \subseteq meter \cup {RecordCall(caller[r], t, r)}
        PROVE  meter' \subseteq Charges /\ Charging'
    BY <1>0, <1>2, NewCharge DEF Charging
  <1>3. ASSUME NEW r \in Requests, Denied(r) \/ DeviceLimiter(r) \/ ActionLimits(r) \/ Lookup(r) \/ Balance(r)
        PROVE  UNCHANGED meter
    <2>1. ASSUME NEW res \in Result, Answer(r, res), req[r].at \in Early, UNCHANGED <<caller, call, hop>>,
                 res = "ok" => req[r].kind \notin {"invoke", "unknown"}
          PROVE  UNCHANGED meter
      BY <2>1, AnswerMoves
    <2>2. ASSUME Denied(r) \/ DeviceLimiter(r) PROVE UNCHANGED meter
      BY <2>1, <2>2 DEF Denied, DeviceLimiter, Result, Early
    <2>3. ASSUME ActionLimits(r) PROVE UNCHANGED meter
      BY <2>1, <2>3 DEF ActionLimits, Result, Early
    <2>4. ASSUME Lookup(r) PROVE UNCHANGED meter
      BY <2>1, <2>4 DEF Lookup, Result, Early
    <2>5. ASSUME Balance(r) PROVE UNCHANGED meter
      BY <2>1, <2>5 DEF Balance, Result, Early
    <2> QED BY <1>3, <2>2, <2>3, <2>4, <2>5
  <1>4. ASSUME NEW r \in Requests, TakeReply(r) PROVE meter' \subseteq Charges /\ Charging'
    BY <1>2, <1>4, ReplyMoves DEF Tools
  <1>5. ASSUME NEW r \in Requests, NEW ok \in BOOLEAN, HopServed(r, ok)
        PROVE  meter' \subseteq Charges /\ Charging'
    <2>1. hop[r].key = caller[r]
      BY <1>5, RequestFacts DEF HopServed
    <2>2. meter' \subseteq meter \cup {RecordCall(caller[r], "hop", r)}
      BY <1>5, <2>1 DEF HopServed
    <2> QED BY <1>2, <2>2 DEF Tools
  <1>6. ASSUME NEW c \in meter, ReadSeed(c) PROVE meter' \subseteq Charges /\ Charging'
    <2> DEFINE d == [c EXCEPT !.step = "eval", !.seed = Quota]
    <2>1. d \in Charges /\ d.acct = c.acct /\ d.req = c.req /\ d.seed = Quota
      BY DEF Charges
    <2>2. meter' \subseteq meter \cup {d}
      BY <1>6 DEF ReadSeed
    <2>3. c.acct = caller[c.req]
      BY DEF Charging
    <2> HIDE DEF d
    <2> QED BY <1>0, <2>1, <2>2, <2>3 DEF Charging
  <1>7. ASSUME NEW c \in meter, Script(c) PROVE meter' \subseteq Charges /\ Charging'
    BY <1>1, <1>7 DEF Script
  <1>8. ASSUME NEW r \in Requests,
               \/ ArriveInvoke(r) \/ ArriveRead(r) \/ ArriveBalance(r) \/ Dispatch(r) \/ DispatchRead(r)
               \/ TimerExpires(r) \/ ReadServed(r) \/ ServiceMissing(r) \/ InputRefused(r)
               \/ HandlerStarts(r)
               \/ CtxCall(r) \/ Unresolved(r) \/ Resolved(r) \/ NoClient(r) \/ ClientCreated(r)
        PROVE  UNCHANGED meter
    BY <1>8 DEF ArriveInvoke, ArriveRead, ArriveBalance, Admitted, Dispatch, DispatchRead, Sends,
         TimerExpires, ReadServed, GetDeviceSpec, ResolveSchema, ServiceMissing, InputRefused, Over,
         HandlerStarts, CtxCall, Unresolved, Resolved, NoClient, ClientCreated
  <1>9. ASSUME NEW r \in Requests, NEW how, NEW v, Report(r, how, v) PROVE UNCHANGED meter
    BY <1>9 DEF Report
  <1>10. ASSUME WorkerEnds \/ Restart \/ UNCHANGED vars PROVE UNCHANGED meter
    BY <1>10 DEF WorkerEnds, Restart, vars
  <1> QED BY <1>1, <1>3, <1>4, <1>5, <1>6, <1>7, <1>8, <1>9, <1>10 DEF Next, Progress

\* Only the script moves an account.
LEMMA LedgerOnly ==
  ASSUME [Next]_vars
  PROVE  (\E c \in meter : Script(c)) \/ UNCHANGED <<count, balance, scripts>>
  BY DEF Next, Progress, ActionLimits, Balance, Lookup, DeviceLimiter, Dispatch, DispatchRead, Sends,
         TimerExpires, TakeReply, ReadSeed, Denied, ArriveInvoke, ArriveRead, ArriveBalance,
         Admitted, ReadServed, GetDeviceSpec, ResolveSchema, ServiceMissing, InputRefused, Over,
         HandlerStarts, Report, CtxCall, Unresolved, Resolved, NoClient, ClientCreated, HopServed,
         WorkerEnds, Restart, vars

\* Every step keeps the ledger exact.
LEMMA LedgerStep ==
  ASSUME LedgerType, LedgerExact, meter \subseteq Charges, Charging, [Next]_vars
  PROVE  LedgerType' /\ LedgerExact'
  <1>1. CASE UNCHANGED <<count, balance, scripts>>
    BY <1>1 DEF LedgerType, LedgerExact, Used, Paid
  <1>2. ASSUME NEW c \in meter, Script(c) PROVE LedgerType' /\ LedgerExact'
    <2> DEFINE b == c.acct
               u == c.tool
               n == scripts[<<b, u>>] + 1
               m == FreeCalls(c) - 1
    <2>0. b \in Accounts /\ u \in Tools /\ c.seed = Quota
      BY <1>2 DEF Charges, Charging, Accounts, Script
    <2>1. /\ FreeCalls(c) = IF count[<<b, u>>] = None THEN Quota ELSE count[<<b, u>>]
          /\ FreeCalls(c) \in 0 .. Quota
      <3>1. count[<<b, u>>] \in (0 .. Quota) \cup {None}
        BY <2>0, PairTable DEF LedgerType
      <3>2. FreeCalls(c) = IF count[<<b, u>>] = None THEN Quota ELSE count[<<b, u>>]
        BY <2>0 DEF FreeCalls
      <3> QED BY <3>1, <3>2, ServiceCallAssumption
    <2>2. scripts' = [scripts EXCEPT ![<<b, u>>] = n] /\ n \in Nat
      BY <1>2, <2>0, PairTable DEF Script, LedgerType
    <2>3. \/ /\ FreeCalls(c) > 0 /\ m \in (0 .. Quota) \cup {None}
             /\ count' = [count EXCEPT ![<<b, u>>] = m] /\ balance' = balance
          \/ /\ FreeCalls(c) = 0
             /\ balance' = [balance EXCEPT ![b] = balance[b] - 1] /\ count' = count
      BY <1>2, <2>1, ServiceCallAssumption DEF Script
    <2>4. /\ count' \in [Accounts \X Tools -> (0 .. Quota) \cup {None}]
          /\ balance' \in [Accounts -> Int] /\ scripts' \in [Accounts \X Tools -> Nat]
      <3>1. scripts' \in [Accounts \X Tools -> Nat]
        BY <2>0, <2>2, PairTable DEF LedgerType
      <3>2. count' \in [Accounts \X Tools -> (0 .. Quota) \cup {None}]
        BY <2>0, <2>3, PairTable DEF LedgerType
      <3>3. balance' \in [Accounts -> Int]
        BY <2>0, <2>3 DEF LedgerType
      <3> QED BY <3>1, <3>2, <3>3
    <2>5. \A a \in Accounts, t \in Tools :
            scripts'[<<a, t>>] = IF a = b /\ t = u THEN scripts[<<a, t>>] + 1 ELSE scripts[<<a, t>>]
      <3>1. n = scripts[<<b, u>>] + 1
        OBVIOUS
      <3> HIDE DEF n
      <3>0. scripts \in [Accounts \X Tools -> Nat]
        BY DEF LedgerType
      <3> HIDE DEF b, u
      <3>2. ASSUME NEW a \in Accounts, NEW t \in Tools
            PROVE  scripts'[<<a, t>>] = IF a = b /\ t = u THEN n ELSE scripts[<<a, t>>]
        <4>1. [scripts EXCEPT ![<<b, u>>] = n][<<a, t>>] = IF a = b /\ t = u THEN n ELSE scripts[<<a, t>>]
          BY <2>0, <2>2, <3>0, PairTable
        <4> QED BY <4>1, <2>2
      <3> QED BY <3>1, <3>2
    <2>6. ASSUME FreeCalls(c) > 0, NEW a \in Accounts, NEW t \in Tools
          PROVE  count'[<<a, t>>] = IF a = b /\ t = u THEN FreeCalls(c) - 1 ELSE count[<<a, t>>]
      BY <2>0, <2>3, <2>6, PairTable DEF LedgerType
    <2>7. ASSUME NEW a \in Accounts, NEW t \in Tools
          PROVE  /\ Used(a, t) \in 0 .. Quota /\ Paid(a, t) \in Int
                 /\ ~(a = b /\ t = u) => Used(a, t)' = Used(a, t) /\ Paid(a, t)' = Paid(a, t)
                 /\ a = b /\ t = u /\ FreeCalls(c) > 0 =>
                      Used(a, t)' = Used(a, t) + 1 /\ Paid(a, t)' = Paid(a, t) /\ Used(a, t) < Quota
                 /\ a = b /\ t = u /\ FreeCalls(c) = 0 =>
                      Used(a, t)' = Used(a, t) /\ Paid(a, t)' = Paid(a, t) + 1 /\ Used(a, t) = Quota
      <3>1. count[<<a, t>>] \in (0 .. Quota) \cup {None} /\ scripts[<<a, t>>] \in Nat
        BY PairTable DEF LedgerType
      <3>2. Used(a, t) \in 0 .. Quota /\ Paid(a, t) \in Int
        BY <3>1, ServiceCallAssumption DEF Used, Paid
      <3>3. ASSUME ~(a = b /\ t = u)
            PROVE  Used(a, t)' = Used(a, t) /\ Paid(a, t)' = Paid(a, t)
        <4>1. count'[<<a, t>>] = count[<<a, t>>]
          BY <2>1, <2>3, <2>6, <3>3
        <4> QED BY <4>1, <2>5, <3>3 DEF Used, Paid
      <3>4. ASSUME a = b, t = u, FreeCalls(c) > 0
            PROVE  Used(a, t)' = Used(a, t) + 1 /\ Paid(a, t)' = Paid(a, t) /\ Used(a, t) < Quota
        <4>1. /\ count'[<<a, t>>] = FreeCalls(c) - 1
              /\ scripts'[<<a, t>>] = scripts[<<a, t>>] + 1
              /\ FreeCalls(c) = IF count[<<a, t>>] = None THEN Quota ELSE count[<<a, t>>]
          BY <2>1, <2>5, <2>6, <3>4
        <4>2. FreeCalls(c) - 1 # None
          BY <2>1, <3>4, ServiceCallAssumption
        <4>3. Used(a, t) = Quota - FreeCalls(c) /\ Used(a, t)' = Quota - (FreeCalls(c) - 1)
          BY <4>1, <4>2, ServiceCallAssumption DEF Used
        <4> QED BY <4>1, <4>3, <3>1, <3>4, <2>1, ServiceCallAssumption DEF Paid
      <3>5. ASSUME a = b, t = u, FreeCalls(c) = 0
            PROVE  Used(a, t)' = Used(a, t) /\ Paid(a, t)' = Paid(a, t) + 1 /\ Used(a, t) = Quota
        <4>1. count'[<<a, t>>] = count[<<a, t>>] /\ scripts'[<<a, t>>] = scripts[<<a, t>>] + 1
          BY <2>3, <2>5, <3>5
        <4>2. Used(a, t)' = Used(a, t)
          BY <4>1 DEF Used
        <4>3. Used(a, t) = Quota
          BY <2>1, <3>5, <3>1, ServiceCallAssumption DEF Used
        <4> QED BY <4>1, <4>2, <4>3, <3>1, <3>2, ServiceCallAssumption DEF Paid
      <3> QED BY <3>2, <3>3, <3>4, <3>5
    <2>8. ASSUME NEW a \in Accounts
          PROVE  /\ balance'[a] = Funds - (Paid(a, "action")' + Paid(a, "hop")')
                 /\ \A t \in Tools : Paid(a, t)' >= 0 /\ (Paid(a, t)' > 0 => Used(a, t)' = Quota)
      <3>1. "action" \in Tools /\ "hop" \in Tools /\ (u = "action" \/ u = "hop")
        BY <2>0 DEF Tools
      <3>2. balance[a] \in Int /\ balance[a] = Funds - (Paid(a, "action") + Paid(a, "hop"))
        BY DEF LedgerType, LedgerExact
      <3>3. balance'[a] = IF a = b /\ FreeCalls(c) = 0 THEN balance[a] - 1 ELSE balance[a]
        BY <2>0, <2>1, <2>3 DEF LedgerType
      <3>4. \A t \in Tools : Paid(a, t)' >= 0 /\ (Paid(a, t)' > 0 => Used(a, t)' = Quota)
        BY <2>1, <2>7, ServiceCallAssumption DEF LedgerExact
      <3>5. balance'[a] = Funds - (Paid(a, "action")' + Paid(a, "hop")')
        <4> HIDE DEF b, u, n, m
        <4>1. CASE a = b /\ FreeCalls(c) = 0
          <5>1. CASE u = "action"
            BY <4>1, <5>1, <2>7, <3>1, <3>2, <3>3, ServiceCallAssumption
          <5>2. CASE u = "hop"
            BY <4>1, <5>2, <2>7, <3>1, <3>2, <3>3, ServiceCallAssumption
          <5> QED BY <5>1, <5>2, <3>1
        <4>2. CASE ~(a = b /\ FreeCalls(c) = 0)
          <5>1. \A t \in Tools : Paid(a, t)' = Paid(a, t)
            BY <4>2, <2>1, <2>7
          <5> QED BY <4>2, <5>1, <3>1, <3>2, <3>3
        <4> QED BY <4>1, <4>2
      <3> QED BY <3>4, <3>5
    <2> HIDE DEF b, u, n, m
    <2> QED BY <2>4, <2>8 DEF LedgerType, LedgerExact
  <1> QED BY <1>1, <1>2, LedgerOnly

(***************************************************************************)
(* The theorems.                                                           *)
(***************************************************************************)

\* The worker, its generation and its client keep their types.
LEMMA WorkerTypeStep ==
  ASSUME client \in {None, Identity}, up \in BOOLEAN, gen \in Nat, [Next]_vars
  PROVE  client' \in {None, Identity} /\ up' \in BOOLEAN /\ gen' \in Nat
  <1>1. CASE WorkerEnds
    BY <1>1 DEF WorkerEnds
  <1>2. CASE Restart
    BY <1>2 DEF Restart
  <1>3. ASSUME NEW r \in Requests, ClientCreated(r)
        PROVE  client' \in {None, Identity} /\ up' \in BOOLEAN /\ gen' \in Nat
    BY <1>3 DEF ClientCreated
  <1>4. \/ WorkerEnds \/ Restart \/ (\E r \in Requests : ClientCreated(r))
        \/ UNCHANGED <<client, up, gen>>
    BY DEF Next, Progress, ActionLimits, Balance, Lookup, DeviceLimiter, Dispatch, DispatchRead, Sends,
           TimerExpires, TakeReply, ReadSeed, Script, Denied, ArriveInvoke, ArriveRead, ArriveBalance,
           Admitted, ReadServed, GetDeviceSpec, ResolveSchema, ServiceMissing, InputRefused, Over,
           HandlerStarts, Report, CtxCall, Unresolved, Resolved, NoClient, HopServed, vars
  <1>5. CASE UNCHANGED <<client, up, gen>>
    BY <1>5
  <1> QED BY <1>1, <1>2, <1>3, <1>4, <1>5

\* The invariant holds at first.
LEMMA InitInv ==
  ASSUME Init
  PROVE  IInv
  <1>1. PICK kind \in Asked :
          req = [r \in Requests |->
                   [at |-> "new", kind |-> kind[r], w |-> 0, timer |-> "none",
                    called |-> FALSE, metered |-> FALSE, answers |-> <<>>, bills |-> 0, logged |-> 0]]
    BY DEF Init
  <1>2. \A r \in Requests : kind[r] \in Kinds
    BY ServiceCallAssumption
  <1>3. <<>> \in Seq({"ok", "error"})
    OBVIOUS
  <1>4. req \in [Requests -> Sessions] /\ \A r \in Requests : SessionInv(req[r]) /\ req[r].at = "new"
    BY <1>1, <1>2, <1>3 DEF Sessions, SessionInv
  <1>5. hop \in [Requests -> Hops] /\ \A r \in Requests : hop[r].st = "none"
    BY DEF Init, Hops
  <1>6. call \in [Requests -> Invocations] /\ \A r \in Requests : call[r] = NoCall
    BY NoCallFacts DEF Init
  <1>7. caller \in [Requests -> Keys]
    BY ServiceCallAssumption DEF Init
  <1>8. LedgerType
    BY ServiceCallAssumption DEF Init, LedgerType
  <1>9. LedgerExact
    <2>1. \A a \in Accounts, t \in Tools : Used(a, t) = 0 /\ Paid(a, t) = 0
      <3>1. \A a \in Accounts, t \in Tools : count[<<a, t>>] = None /\ scripts[<<a, t>>] = 0
        BY DEF Init
      <3>2. \A a \in Accounts, t \in Tools : Used(a, t) = 0
        BY <3>1 DEF Used
      <3>3. ASSUME NEW a \in Accounts, NEW t \in Tools PROVE Paid(a, t) = 0
        <4>1. scripts[<<a, t>>] = 0 /\ Used(a, t) = 0
          BY <3>1, <3>2
        <4> QED BY <4>1 DEF Paid
      <3> QED BY <3>2, <3>3
    <2>2. \A a \in Accounts : balance[a] = Funds
      BY DEF Init
    <2> QED BY <2>1, <2>2, ServiceCallAssumption DEF LedgerExact, Tools
  <1>10. Requested
    BY <1>4, <1>5, <1>6, NoCallFacts DEF Requested, RequestInv, Joined
  <1>11. Charging /\ meter \subseteq Charges /\ client \in {None, Identity} /\ up \in BOOLEAN /\ gen \in Nat
    BY DEF Init, Charging
  <1> QED BY <1>4, <1>5, <1>6, <1>7, <1>8, <1>9, <1>10, <1>11 DEF IInv, TypeOK, LedgerType

\* IInv is an invariant of a service call: whatever order the timer, the reply, the
\* worker's end, the handler's reports and the charges come in.
THEOREM Invariance == Spec => []IInv
  <1>1. IInv /\ [Next]_vars => IInv'
    <2> SUFFICES ASSUME IInv, [Next]_vars PROVE IInv'
      OBVIOUS
    <2>1. /\ CoreType /\ Requested /\ meter \subseteq Charges /\ Charging /\ LedgerType /\ LedgerExact
          /\ client \in {None, Identity} /\ up \in BOOLEAN /\ gen \in Nat
      BY DEF IInv, TypeOK, CoreType, LedgerType
    <2>2. CoreType' /\ Requested'
      BY <2>1, RequestStep
    <2>3. meter' \subseteq Charges /\ Charging'
      BY <2>1, ChargingStep
    <2>4. LedgerType' /\ LedgerExact'
      BY <2>1, LedgerStep
    <2>5. client' \in {None, Identity} /\ up' \in BOOLEAN /\ gen' \in Nat
      BY <2>1, WorkerTypeStep
    <2> QED BY <2>2, <2>3, <2>4, <2>5 DEF IInv, TypeOK, CoreType, LedgerType
  <1> QED BY InitInv, <1>1, PTL DEF Spec

\* Every variable keeps its type.
THEOREM TypeCorrect == Spec => []TypeOK
  <1>1. IInv => TypeOK
    BY DEF IInv
  <1> QED BY Invariance, <1>1, PTL

\* Session.callback and the reporting guard of Service.invokeAction: a request is
\* answered and logged once at most, and one reply leaves the worker for it, the
\* verdict on what its handler reported first.
THEOREM ReportedOnce == Spec => []FirstReportWins
  <1>1. IInv => FirstReportWins
    <2> SUFFICES ASSUME IInv PROVE FirstReportWins
      OBVIOUS
    <2>1. \A r \in Requests : SessionInv(req[r]) /\ CallInv(call[r], req[r].kind)
      BY DEF IInv, Requested, RequestInv
    <2>2. ASSUME NEW r \in Requests
          PROVE  /\ Len(req[r].answers) <= 1
                 /\ req[r].logged <= IF req[r].kind = "invoke" THEN Len(req[r].answers) ELSE 0
      <3>1. Len(<<>>) = 0 /\ Len(<<"ok">>) = 1 /\ Len(<<"error">>) = 1
        OBVIOUS
      <3>2. CASE req[r].at # "done"
        BY <2>1, <3>1, <3>2 DEF SessionInv
      <3>3. CASE req[r].at = "done"
        <4>1. req[r].answers \in {<<"ok">>, <<"error">>}
          BY <2>1, <3>3 DEF SessionInv
        <4>2. Len(req[r].answers) = 1
          BY <3>1, <4>1
        <4>3. req[r].logged <= IF req[r].kind = "invoke" THEN 1 ELSE 0
          BY <2>1, <3>3 DEF SessionInv
        <4> QED BY <4>2, <4>3
      <3> QED BY <3>2, <3>3
    <2>3. ASSUME NEW r \in Requests
          PROVE  /\ call[r].replied <= 1
                 /\ call[r].first # None /\ call[r].outbox # <<>> => call[r].outbox = <<call[r].first>>
      BY <2>1 DEF CallInv
    <2> QED BY <2>2, <2>3 DEF FirstReportWins, AnsweredOnce
  <1> QED BY Invariance, <1>1, PTL

\* Session.response and billingWrapper: a request is charged once exactly when an
\* action answered it with success, and every charge is its caller's, whichever
\* cached client a hop went through.
THEOREM BilledRight == Spec => []BillsRight
  <1>1. IInv => BillsRight
    <2> SUFFICES ASSUME IInv PROVE BillsRight
      OBVIOUS
    <2>1. \A r \in Requests : SessionInv(req[r])
      BY DEF IInv, Requested, RequestInv
    <2>2. <<"ok">> # <<>>
      OBVIOUS
    <2>3. BilledIffServed
      BY <2>1, <2>2 DEF BilledIffServed, SessionInv
    <2>4. HopPaidByCaller
      BY DEF IInv, Charging, HopPaidByCaller
    <2> QED BY <2>3, <2>4 DEF BillsRight
  <1> QED BY Invariance, <1>1, PTL

\* RECORD_CALL_SCRIPT: every script that ran took one free call or one unit of the
\* balance, the balance only when the tool's free calls were used up.
THEOREM AccountsExact == Spec => []LedgerExact
  <1>1. IInv => LedgerExact
    BY DEF IInv
  <1> QED BY Invariance, <1>1, PTL

=============================================================================
