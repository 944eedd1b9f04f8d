----------------------------- MODULE McpGateway -----------------------------
(***************************************************************************)
(* POST /mcp (routes/mcp.js, mcp/gateway.js) over the tool catalog: each   *)
(* client posts one batch, whose messages are handled one after the other; *)
(* tools/list, tools/call with its two authorisations and its schema       *)
(* lookup, task creation, the platform tool and the four authoring tools,  *)
(* with the deadline of a load and the slots of sandboxed validations.     *)
(* Modules are loaded, crash and come back meanwhile.                      *)
(*                                                                         *)
(* What a worker does with a call is ServiceCall, what becomes of a task   *)
(* is JobTasks.  The auth provider, the limiters and metering are external *)
(* and answer yes or no.                                                   *)
(***************************************************************************)
EXTENDS ToolCatalog

CONSTANTS Clients,
          Scenarios,    \* the cases considered, [opts, post]: the server's options
                        \* [authoring, sandbox], the modules an operator touches
                        \* (opts.mods), and the batch each client posts, a sequence
                        \* of messages [method, arg]
          Role,         \* per client, what its key resolves to: "none", "user", "admin"
          Owns,         \* per client, the devices its key is authorised for
          ValidateMax,  \* VALIDATE_MAX
          Balance       \* the name of the platform tool

ASSUME GatewayAssumption == IsFiniteSet(Clients) /\ ValidateMax \in Nat

VARIABLES
  opts,        \* the server's options, fixed
  post,        \* per client, the batch it posted
  req,         \* per client, the message being handled
  results,     \* per client, the result of each message handled, in order
  twice,       \* clients whose message called back more than once
  loads,       \* loadModuleFromPath calls under way, [c, i, mod]
  val,         \* per client, its sandboxed validation
  validating,  \* slots taken
  bills        \* recordCall of successful calls: [c, i, tool]

gatewayVars == <<opts, post, req, results, twice, loads, val, validating, bills>>
vars == <<catalogVars, gatewayVars>>

Idle  == [st |-> "start", i |-> 1, tgt |-> None, schema |-> None, g |-> 0]
NoVal == [st |-> "none", i |-> 0, answered |-> FALSE]

Init ==
  /\ CatalogInit
  /\ \E s \in Scenarios : opts = s.opts /\ post = s.post
  /\ req = [c \in Clients |-> Idle]
  /\ results = [c \in Clients |-> <<>>]
  /\ twice = {}
  /\ loads = {}
  /\ val = [c \in Clients |-> NoVal]
  /\ validating = 0
  /\ bills = {}

Open(c) == req[c].i <= Len(post[c])
Msg(c)  == post[c][req[c].i]
At(c, st) == Open(c) /\ req[c].st = st

-----------------------------------------------------------------------------
(* Answers *)

Error  == [kind |-> "error", ran |-> None, schema |-> None]
Ok     == [kind |-> "ok", ran |-> None, schema |-> None]
Silent == [kind |-> "none", ran |-> None, schema |-> None]  \* a notification's
Done(what) == [Ok EXCEPT !.ran = what]

\* moduleToolResult: structured content when there was a schema, text otherwise
ModuleToolResult(what, schema) == [Done(what) EXCEPT !.schema = schema]

\* The callback of message i of client c: the next message starts.  A second
\* callback for one message is an exception in async.mapSeries.
Reply(c, i, r) ==
  IF req[c].i = i
    THEN /\ results' = [results EXCEPT ![c] = Append(@, r)]
         /\ req' = [req EXCEPT ![c] = [Idle EXCEPT !.i = i + 1]]
         /\ UNCHANGED twice
    ELSE twice' = twice \cup {c} /\ UNCHANGED <<results, req>>

Answer(c, r) == Reply(c, req[c].i, r)

Goto(c, st) ==
  /\ req' = [req EXCEPT ![c].st = st]
  /\ UNCHANGED <<results, twice>>

Quiet == UNCHANGED <<opts, post, loads, val, validating, bills, catalogVars>>

-----------------------------------------------------------------------------
(* handle, and the methods that need an identity *)

\* AUTHORING_TOOL_NAMES, reserved and dispatched, and AUTHORING_TOOLS, listed
Authoring == {"plan", "validate", "load", "calltool"}
AuthoringTools == {"plan", "validate", "load", "calltool"}

\* handleToolsCall looks the name up when it starts: the target it finds is the
\* one authorised, invoked and billed
LookUp(c, name) ==
  IF name \in Names(ToolTargets)
    THEN /\ req' = [req EXCEPT ![c].st = "auth",
                               ![c].tgt = CHOOSE t \in ToolTargets : t.name = name]
         /\ UNCHANGED <<results, twice>>
    ELSE Answer(c, Error)

\* the server is multi-threaded: the tasks capability is announced
Initialize(c) == Answer(c, Done("tasks"))
Ping(c) == Answer(c, Ok)

\* an unknown method, a bad request or a tool without a name errs at once
Handle(c) ==
  /\ At(c, "start")
  /\ LET msg == Msg(c) IN
       \/ msg.method = "initialize" /\ Initialize(c)
       \/ msg.method = "ping" /\ Ping(c)
       \/ msg.method = "unknown" /\ Answer(c, Error)
       \/ msg.method = "notification" /\ Answer(c, Silent)
       \/ /\ msg.method = "list"
          /\ req' = [req EXCEPT ![c].st = "listing", ![c].tgt = {t.dev : t \in ToolTargets}]
          /\ UNCHANGED <<results, twice>>
       \/ msg.method \in {"call", "task"} /\ LookUp(c, msg.arg)
       \/ msg.method \in {"balance", "tasks"} /\ Goto(c, "identity")
       \/ /\ msg.method \in Authoring
          /\ IF opts.authoring THEN Goto(c, "identity") ELSE LookUp(c, <<msg.method>>)
  /\ Quiet

\* filterTargetsByAuth: the tools of the key's devices
Listed(c) == {d \in req[c].tgt : Role[c] # "none" /\ d \in Owns[c]}

\* buildToolList: the catalog as it was when the message came, filtered; the
\* provider may fail.  A schema that cannot be had is only left out.
List(c) ==
  /\ At(c, "listing")
  /\ \/ Answer(c, Error)
     \/ ~opts.authoring /\ Answer(c, Done(Listed(c)))
     \/ /\ opts.authoring
        /\ req' = [req EXCEPT ![c].st = "appending", ![c].tgt = Listed(c)]
        /\ UNCHANGED <<results, twice>>
  /\ Quiet

\* a slip: the key is known, and that is enough
MayAuthorKnown(c) == Role[c] # "none"

MayAuthor(c) == Role[c] = "admin"

\* handleToolsList: the authoring tools are added for an admin; a second
\* lookup of the key that fails only leaves them out
ListAppended(c) ==
  /\ At(c, "appending")
  /\ \/ Answer(c, Done(req[c].tgt))
     \/ MayAuthor(c) /\ Answer(c, Done(req[c].tgt \cup AuthoringTools))
  /\ Quiet

\* resolveCallerIdentity: no identity is an error everywhere; balance and
\* tasks/* are limited, authoring tools ask for an admin
Identified(c) ==
  /\ At(c, "identity")
  /\ Msg(c).method \in {"balance", "tasks"}
  /\ \/ Answer(c, Error)
     \/ Role[c] # "none" /\ Answer(c, Ok)
  /\ Quiet

\* the limiter, then checkBalance, behind countinghouse_call_tool
Balances(c) ==
  /\ At(c, "limited")
  /\ Answer(c, Error) \/ Answer(c, Ok)
  /\ Quiet

\* dispatchAuthoringTool, up to where the tools differ
Refused(c) ==
  /\ At(c, "identity") /\ Msg(c).method \in Authoring
  /\ ~MayAuthor(c)
  /\ Answer(c, Error)
  /\ Quiet

Plan(c) ==
  /\ At(c, "identity") /\ Msg(c).method = "plan"
  /\ MayAuthor(c)
  /\ Answer(c, Done(PlanOk(Msg(c).arg)))
  /\ Quiet

\* countinghouse_call_tool re-enters handleToolsCall with the inner name; an
\* authoring tool is refused, an error is wrapped into a result
CallTool(c) ==
  /\ At(c, "identity") /\ Msg(c).method = "calltool"
  /\ MayAuthor(c)
  /\ \/ Msg(c).arg # Balance /\ LookUp(c, Msg(c).arg)
     \/ Msg(c).arg = Balance /\ Goto(c, "limited")
  /\ Quiet

-----------------------------------------------------------------------------
(* tools/call of a module's tool *)

\* userAuth for the target: a task goes to the job queue if the limiter lets
\* it, a call looks its output schema up first
Authorised(c) ==
  /\ At(c, "auth")
  /\ \/ Answer(c, Error)
     \/ /\ Role[c] # "none" /\ req[c].tgt.dev \in Owns[c]
        /\ \/ Msg(c).method = "task" /\ Answer(c, Ok)
           \/ Msg(c).method # "task" /\ Goto(c, IF req[c].tgt.out THEN "schema" ELSE "invoke")
  /\ Quiet

\* resolveOutputSchema: what the worker of this moment has, or nothing when it
\* is missing, silent or refused
Schema(c) ==
  /\ At(c, "schema")
  /\ \E s \in {None} \cup (IF Contains(order, req[c].tgt.dev) THEN {worker[req[c].tgt.dev]} ELSE {}) :
       req' = [req EXCEPT ![c].st = "invoke", ![c].schema = s]
  /\ UNCHANGED <<results, twice>>
  /\ Quiet

\* invokeDeviceAction: a limiter refuses, the device is missing, or the
\* message goes to the worker of this moment
Invoke(c) ==
  /\ At(c, "invoke")
  /\ \/ Answer(c, Error)
     \/ /\ Contains(order, req[c].tgt.dev)
        /\ req' = [req EXCEPT ![c].st = "running", ![c].g = worker[req[c].tgt.dev]]
        /\ UNCHANGED <<results, twice>>
  /\ Quiet

Has(g, act) == \E i \in DOMAIN build[g] : build[g][i].act = act

\* a slip: the name is looked up again for the bill, as in an earlier version
BilledAsNamed(c) ==
  LET ts == {t \in ToolTargets : t.name = req[c].tgt.name}
  IN  IF ts = {} THEN <<req[c].tgt.dev, req[c].tgt.act>>
      ELSE LET t == CHOOSE t \in ts : TRUE IN <<t.dev, t.act>>

\* encodeLegacyTool of the target
BilledAs(c) == <<req[c].tgt.dev, req[c].tgt.act>>

\* respond: the worker's answer, or the session's error when it timed out or
\* the worker ended; a success is billed and answered, structured if there was
\* a schema
Responds(c) ==
  /\ At(c, "running")
  /\ \/ Answer(c, Error) /\ UNCHANGED bills
     \/ /\ worker[req[c].tgt.dev] = req[c].g /\ Has(req[c].g, req[c].tgt.act)
        /\ Answer(c, ModuleToolResult(<<req[c].tgt.dev, req[c].tgt.act>>, req[c].schema))
        /\ bills' = bills \cup {[c |-> c, i |-> req[c].i, tool |-> BilledAs(c)]}
  /\ UNCHANGED <<opts, post, loads, val, validating, catalogVars>>

-----------------------------------------------------------------------------
(* countinghouse_load_module *)

\* the deadline is armed, and the load asked for
LoadModule(c) ==
  /\ At(c, "identity") /\ Msg(c).method = "load"
  /\ MayAuthor(c)
  /\ Goto(c, "loading")
  /\ loads' = loads \cup {[c |-> c, i |-> req[c].i, mod |-> Msg(c).arg, st |-> "asked"]}
  /\ UNCHANGED <<opts, post, val, validating, bills, catalogVars>>

\* the module's lock is free: the load proper begins
LoadBegins(l) ==
  /\ l.st = "asked"
  /\ AskLoad(l.mod)
  /\ loads' = (loads \ {l}) \cup {[l EXCEPT !.st = "begun"]}
  /\ UNCHANGED <<opts, post, req, results, twice, val, validating, bills>>

\* a slip: a late callback goes on as if nobody had answered
CallbackAlways(l) == TRUE

\* `settled` is false: this load's message still waits for it
CallbackTaken(l) == req[l.c].i = l.i /\ req[l.c].st = "loading"

Begun(m) == {l \in loads : l.mod = m /\ l.st = "begun"}

\* loadModuleFromPath calls back with the new worker, for each load of the
\* gateway that began it: the poll for its devices starts
LoadedBack(m, v) ==
  /\ LoadAcked(m, v)
  /\ LET mine == {l \in Begun(m) : CallbackTaken(l)}
     IN  IF mine = {} THEN UNCHANGED <<req, results, twice>>
         ELSE LET l == CHOOSE l \in mine : TRUE IN
                /\ req' = [req EXCEPT ![l.c].st = "polling", ![l.c].g = gen']
                /\ twice' = IF req[l.c].i = l.i THEN twice ELSE twice \cup {l.c}
                /\ UNCHANGED results
  /\ loads' = loads \ Begun(m)
  /\ UNCHANGED <<opts, post, val, validating, bills>>

\* it calls back with an error; or never does
FailedBack(m) ==
  /\ LoadFails(m)
  /\ LET mine == {l \in Begun(m) : CallbackTaken(l)}
     IN  IF mine = {} THEN UNCHANGED <<req, results, twice>>
         ELSE LET l == CHOOSE l \in mine : TRUE IN Reply(l.c, l.i, Error)
  /\ loads' = loads \ Begun(m)
  /\ UNCHANGED <<opts, post, val, validating, bills>>

\* LOAD_MODULE_TIMEOUT: the load goes on unheard
LoadTimesOut(c) ==
  /\ At(c, "loading")
  /\ Answer(c, Error)
  /\ Quiet

\* waitForModuleTools: the worker's device is there, or the time is up; the
\* names are those of its device now
Polled(c) ==
  /\ At(c, "polling")
  /\ LET m == Msg(c).arg
         online == list[req[c].g] # None
     IN  Answer(c, Done(IF online THEN {t.name : t \in {u \in ToolTargets : u.dev = m}} ELSE {}))
  /\ Quiet

-----------------------------------------------------------------------------
(* countinghouse_validate_module *)

\* A path that is no directory, a module the sandbox refuses and a third
\* validation are answered at once; without the sandbox a child process
\* answers once
Validate(c) ==
  /\ At(c, "identity") /\ Msg(c).method = "validate"
  /\ MayAuthor(c)
  /\ \/ Answer(c, Error) /\ UNCHANGED <<val, validating>>
     \/ /\ ~opts.sandbox
        /\ Goto(c, "child") /\ UNCHANGED <<val, validating>>
     \/ /\ opts.sandbox /\ validating < ValidateMax
        /\ Goto(c, "validating")
        /\ val' = [val EXCEPT ![c] = [st |-> "creating", i |-> req[c].i, answered |-> FALSE]]
        /\ validating' = validating + 1
  /\ UNCHANGED <<opts, post, loads, bills, catalogVars>>

\* execFile calls back: a result, or why there is none, or its own timeout
ChildEnds(c) ==
  /\ At(c, "child")
  /\ \E r \in {Ok, Error} : Answer(c, r)
  /\ Quiet

BrokerReady(c) ==
  /\ val[c].st = "creating"
  /\ val' = [val EXCEPT ![c].st = "running"]
  /\ UNCHANGED <<opts, post, req, results, twice, loads, validating, bills, catalogVars>>

\* a slip: every event tears down and answers
FinishesAlways(v) == TRUE

\* `answered` in finish
Finishes(v) == ~v.answered

\* finish, on the broker's failure, the worker's answer, its error, its exit
\* or the timeout: the first tears down
Finish(c) ==
  /\ val[c].st \in {"creating", "running", "tearing", "torn"}
  /\ Finishes(val[c])
  /\ val' = [val EXCEPT ![c].st = "tearing", ![c].answered = TRUE]
  /\ UNCHANGED <<opts, post, req, results, twice, loads, validating, bills, catalogVars>>

\* settleAfterExit, and the throwaway directory removed: the slot is free
TornDown(c) ==
  /\ val[c].st = "tearing"
  /\ val' = [val EXCEPT ![c].st = "torn"]
  /\ validating' = validating - 1
  /\ UNCHANGED <<opts, post, req, results, twice, loads, bills, catalogVars>>

\* setImmediate: the answer
Validated(c) ==
  /\ val[c].st = "torn"
  /\ \E r \in {Ok, Error} : Reply(c, val[c].i, r)
  /\ val' = [val EXCEPT ![c].st = "none"]
  /\ UNCHANGED <<opts, post, loads, validating, bills, catalogVars>>

-----------------------------------------------------------------------------
Gateway(c) ==
  \/ Handle(c) \/ List(c) \/ ListAppended(c) \/ Identified(c) \/ Balances(c) \/ Refused(c) \/ Plan(c) \/ CallTool(c)
  \/ Authorised(c) \/ Schema(c) \/ Invoke(c) \/ Responds(c)
  \/ LoadModule(c) \/ LoadTimesOut(c) \/ Polled(c)
  \/ Validate(c) \/ ChildEnds(c) \/ BrokerReady(c) \/ Finish(c) \/ TornDown(c) \/ Validated(c)

Operator(m) ==
  /\ \/ m \in opts.mods /\ (AskLoad(m) \/ AskUnload(m) \/ WorkerExits(m))
     \/ UnloadFinishes(m) \/ DeviceOnline(m) \/ RestartFires(m)
  /\ UNCHANGED gatewayVars

Next ==
  \/ \E c \in Clients : Gateway(c)
  \/ \E l \in loads : LoadBegins(l)
  \/ \E m \in Modules :
       \/ Operator(m)
       \/ FailedBack(m)
       \/ \E v \in Versions[m] : LoadedBack(m, v)

Spec == Init /\ [][Next]_vars

-----------------------------------------------------------------------------
\* What is billed is what ran: one bill for each successful call, for the
\* action the worker executed, though names move between actions meanwhile.
BillsWhatRan ==
  /\ \A b \in bills : results[b.c][b.i].ran = b.tool
  /\ \A c \in Clients : \A i \in DOMAIN results[c] :
       post[c][i].method \in {"call", "calltool"} /\ results[c][i].ran # None =>
         Cardinality({b \in bills : b.c = c /\ b.i = i}) = 1

\* Whatever a client was shown, ran, loaded or had validated is within what its
\* key is for.
WithinRights ==
  /\ \A c \in Clients : \A i \in DOMAIN results[c] :
       LET r == results[c][i].ran IN
         /\ post[c][i].method = "list" /\ r # None =>
              r \subseteq Owns[c] \cup (IF Role[c] = "admin" THEN AuthoringTools ELSE {})
         /\ post[c][i].method \in {"call", "calltool"} /\ r # None => r[1] \in Owns[c]
  /\ \A l \in loads : Role[l.c] = "admin"
  /\ \A c \in Clients : val[c].st # "none" => Role[c] = "admin"

\* A slot is taken exactly while a validation has not been torn down, never
\* more than there are, and none by a message that has been answered; a message
\* that waits for a validation has one that will answer it.
SlotsExact ==
  /\ validating = Cardinality({c \in Clients : val[c].st \in {"creating", "running", "tearing"}})
  /\ validating <= ValidateMax
  /\ \A c \in Clients : val[c].st # "none" => Open(c) /\ req[c].i = val[c].i
  /\ \A c \in Clients : At(c, "validating") => val[c].st # "none"

\* No message of a batch calls back twice, whichever of a load's deadline, its
\* late callback and a validation's many endings come in which order; and each
\* validation gives back the slot it took, once.
RepliedOnce == twice = {} /\ SlotsExact
=============================================================================
