---------------------------- MODULE ToolCatalog ----------------------------
(***************************************************************************)
(* What the MCP gateway can offer at a moment: the devices in deviceMap    *)
(* with the specs their workers announced, the specs the supervisor keeps  *)
(* for a module that is restarting or suspended, and the tool names        *)
(* tool-registry.js makes of them.  A module has one device here, and the  *)
(* module's name stands for it.                                            *)
(*                                                                         *)
(* How a module's workers come and go is ModuleWorkers, and how devices    *)
(* are discovered is Discovery; here are only the steps the catalog sees.  *)
(***************************************************************************)
EXTENDS Integers, Sequences, FiniteSets, SequencesExt

CONSTANTS Modules,
          Versions,  \* per module, the builds an operator may put on its path
          Reserved,  \* PLATFORM_TOOL_NAMES and AUTHORING_TOOL_NAMES
          Plans,     \* the plans given to countinghouse_validate_plan
          MaxGen,    \* bound on the workers started
          MaxExits,  \* bound on unexpected exits
          None

(* A build is a sequence of actions [act, slug, text, out]: the action's name,
   the slug of device, service and action, its description ("none", "blank"
   when it is only white space, or "text"), and whether its spec names an
   output schema.  A tool name is a sequence: a slug, with what dedupeName
   appended to it. *)
Gens  == 1..MaxGen

IsSequence(s) == Len(s) \in Nat /\ s = [i \in 1..Len(s) |-> s[i]]
IsBuild(v) ==
  /\ IsSequence(v)
  /\ \A i \in DOMAIN v : v[i].text \in {"none", "blank", "text"} /\ v[i].out \in BOOLEAN /\ IsSequence(v[i].slug)

ASSUME CatalogAssumption ==
  /\ MaxGen \in Nat /\ MaxExits \in Nat
  /\ IsFiniteSet(Reserved) /\ None \notin Modules
  /\ \A m \in Modules : \A v \in Versions[m] : IsBuild(v)
  /\ \A p \in Plans : IsBuild(p.acts)

VARIABLES
  worker,   \* mm.modules: the generation of each module's worker, 0 for none
  gen,      \* workers started
  build,    \* per generation, the build it runs
  list,     \* per generation, its wm.deviceList: the spec, None before deviceonline
  order,    \* the keys of deviceMap, in insertion order
  record,   \* supervisor.records: [state, specs], state "none" without one
  recOrder, \* the keys of supervisor.records, in insertion order
  loading,  \* per module, how far an operator's load or a restart is
  exits     \* unexpected exits so far

catalogVars == <<worker, gen, build, list, order, record, recOrder, loading, exits>>

NoRecord == [state |-> "none", specs |-> None]

CatalogInit ==
  /\ worker = [m \in Modules |-> 0]
  /\ gen = 0
  /\ build = [g \in Gens |-> None]
  /\ list = [g \in Gens |-> None]
  /\ order = <<>>
  /\ record = [m \in Modules |-> NoRecord]
  /\ recOrder = <<>>
  /\ loading = [m \in Modules |-> "no"]
  /\ exits = 0

-----------------------------------------------------------------------------
(* Names *)

Kept(m) == record[m].state \in {"restarting", "suspended"} /\ record[m].specs # None

\* retainedSpecs: nothing of a module that is not kept or is back in deviceMap
Retained(m) == IF Kept(m) /\ ~Contains(order, m) THEN record[m].specs ELSE <<>>

Serving == [i \in DOMAIN order |-> [dev |-> order[i], spec |-> list[worker[order[i]]]]]
Away == [i \in DOMAIN recOrder |-> [dev |-> recOrder[i], spec |-> Retained(recOrder[i])]]

\* getAllDeviceSpecs: devices in the order of deviceMap, then the retained ones
\* in the order of the records
AllDevices == Serving \o Away

\* buildToolTargets trims a description, and skips the action when nothing is left
Readable(a) == a.text = "text"

\* the described actions of a sequence of [dev, spec], by their positions
Described(specs) ==
  UNION {{<<i, k>> : k \in {j \in DOMAIN specs[i].spec : Readable(specs[i].spec[j])}} : i \in DOMAIN specs}

\* the order of buildToolTargets' loops
Before(p, q) == p[1] < q[1] \/ (p[1] = q[1] /\ p[2] < q[2])

\* a slip: a taken name gets _2 whether or not that is taken too
DedupeOnce(used, name) == IF name \in used THEN Append(name, 2) ELSE name

\* dedupeName: the first free suffix
DedupeName(used, name) ==
  IF name \notin used THEN name
  ELSE Append(name, CHOOSE n \in 2..(Cardinality(used) + 2) :
                      /\ Append(name, n) \notin used
                      /\ \A k \in 2..(n - 1) : Append(name, k) \in used)

\* each gets its slug, deduped against the built-in names and those given before
ToolNames(specs) ==
  LET all == Described(specs)
      name[p \in all] ==
        DedupeName(Reserved \cup {name[q] : q \in {r \in all : Before(r, p)}}, specs[p[1]].spec[p[2]].slug)
  IN  name

\* buildToolTargets over a sequence of [dev, spec]
Targets(specs) ==
  LET name == ToolNames(specs)
      target(p) == LET a == specs[p[1]].spec[p[2]]
                   IN  [name |-> name[p], dev |-> specs[p[1]].dev, act |-> a.act, out |-> a.out]
  IN  {target(p) : p \in Described(specs)}

ToolTargets == Targets(AllDevices)

Names(targets) == {t.name : t \in targets}

-----------------------------------------------------------------------------
(* Plans: a plan is a build that does not exist yet, [acts, calls], with the
   actions <<device, action>> it means to call *)

\* a slip: names that are taken are not looked at
CollidesNever(plan) == FALSE

\* `existing` in validatePlan
Collides(plan) == \E i \in DOMAIN plan.acts : plan.acts[i].slug \in Names(ToolTargets)

\* callsProblems: every address is an action on offer, described or not
CallsResolve(plan) ==
  \A to \in plan.calls : \E i \in DOMAIN AllDevices :
    /\ AllDevices[i].dev = to[1]
    /\ \E k \in DOMAIN AllDevices[i].spec : AllDevices[i].spec[k].act = to[2]

\* validatePlan: every action named once and described (it does not trim), no
\* name taken
PlanOk(plan) ==
  /\ CallsResolve(plan)
  /\ \A i, j \in DOMAIN plan.acts : plan.acts[i].act = plan.acts[j].act => i = j
  /\ \A i \in DOMAIN plan.acts : plan.acts[i].text # "none"
  /\ ~Collides(plan)

\* predictedToolName of each action
Predicted(plan) == {plan.acts[i].slug : i \in DOMAIN plan.acts}

-----------------------------------------------------------------------------
(* Workers come and go *)

Purged(m) ==
  /\ order' = RemoveFirst(order, m)
  /\ list' = [g \in Gens |-> IF g = worker[m] THEN None ELSE list[g]]
  /\ build' = [g \in Gens |-> IF g = worker[m] THEN None ELSE build[g]]
  /\ worker' = [worker EXCEPT ![m] = 0]

\* supervisor.clear
Cleared(m) ==
  /\ record' = [record EXCEPT ![m] = NoRecord]
  /\ recOrder' = RemoveFirst(recOrder, m)

\* loadModuleByWorker: the record goes, and a worker that is there is asked to
\* unload first; a restart that is on its way stands down
AskLoad(m) ==
  /\ loading[m] \in {"no", "restarting"}
  /\ Cleared(m)
  /\ loading' = [loading EXCEPT ![m] = IF worker[m] = 0 THEN "spawning" ELSE "replacing"]
  /\ UNCHANGED <<worker, gen, build, list, order, exits>>

\* POST /unload-module
AskUnload(m) ==
  /\ loading[m] \in {"no", "restarting"}
  /\ worker[m] # 0 \/ record[m].state # "none"
  /\ Cleared(m)
  /\ loading' = [loading EXCEPT ![m] = IF worker[m] = 0 THEN "no" ELSE "removing"]
  /\ UNCHANGED <<worker, gen, build, list, order, exits>>

\* finish() of unloadModuleExternal: the acknowledgement or its timer
UnloadFinishes(m) ==
  /\ loading[m] \in {"replacing", "removing"}
  /\ Purged(m)
  /\ loading' = [loading EXCEPT ![m] = IF @ = "replacing" THEN "spawning" ELSE "no"]
  /\ UNCHANGED <<gen, record, recOrder, exits>>

\* the worker has loaded build v: registered and tracked, its record's specs
\* dropped; its device comes online later
LoadAcked(m, v) ==
  /\ loading[m] \in {"spawning", "restarting"}
  /\ gen < MaxGen
  /\ gen' = gen + 1
  /\ worker' = [worker EXCEPT ![m] = gen']
  /\ build' = [build EXCEPT ![gen'] = v]
  /\ record' = [record EXCEPT ![m] = [state |-> "running", specs |-> None]]
  /\ recOrder' = IF Contains(recOrder, m) THEN recOrder ELSE Append(recOrder, m)
  /\ loading' = [loading EXCEPT ![m] = "no"]
  /\ UNCHANGED <<list, order, exits>>

\* the load or restart fails; a failed restart keeps the specs, and is tried
\* again or given up
LoadFails(m) ==
  /\ loading[m] \in {"spawning", "restarting"}
  /\ loading' = [loading EXCEPT ![m] = "no"]
  /\ IF loading[m] = "restarting"
       THEN \E s \in {"restarting", "suspended"} : record' = [record EXCEPT ![m].state = s]
       ELSE UNCHANGED record
  /\ UNCHANGED <<worker, gen, build, list, order, recOrder, exits>>

DeviceOnline(m) ==
  /\ worker[m] # 0 /\ list[worker[m]] = None
  /\ list' = [list EXCEPT ![worker[m]] = build[worker[m]]]
  /\ order' = IF Contains(order, m) THEN order ELSE Append(order, m)
  /\ UNCHANGED <<worker, gen, build, record, recOrder, loading, exits>>

\* onUnexpectedExit: the devices are purged and their specs retained
WorkerExits(m) ==
  /\ worker[m] # 0 /\ loading[m] = "no" /\ exits < MaxExits
  /\ exits' = exits + 1
  /\ \E s \in {"restarting", "suspended"} :
       record' = [record EXCEPT ![m] = [state |-> s, specs |-> list[worker[m]]]]
  /\ Purged(m)
  /\ UNCHANGED <<gen, recOrder, loading>>

\* the backoff timer
RestartFires(m) ==
  /\ record[m].state = "restarting" /\ loading[m] = "no"
  /\ loading' = [loading EXCEPT ![m] = "restarting"]
  /\ UNCHANGED <<worker, gen, build, list, order, record, recOrder, exits>>

-----------------------------------------------------------------------------
\* Tool names are a function of the described actions on offer: each has one
\* name, no two share one, and none is the name of a built-in tool.
NamesDistinct ==
  LET name == ToolNames(AllDevices)
  IN  /\ \A p, q \in Described(AllDevices) : p # q => name[p] # name[q]
      /\ \A p \in Described(AllDevices) : name[p] \notin Reserved

\* the names the actions of plan p get if it is loaded now
Given(p) == Names({t \in Targets(Serving \o <<[dev |-> None, spec |-> p.acts]>> \o Away) : t.dev = None})

\* A plan that was found in order, whose slugs differ and are not built-in
\* names, gets the names it was promised if it is loaded now, for every action
\* with a description that is not blank, and no other.
PlanNamesHold ==
  \A p \in Plans :
    /\ PlanOk(p) /\ Predicted(p) \cap Reserved = {}
    /\ Cardinality(Predicted(p)) = Len(p.acts)
    => Given(p) = {p.acts[i].slug : i \in {j \in DOMAIN p.acts : Readable(p.acts[j])}}

\* What the gateway says of tool names (tool-catalog.js, plan-validator.js) holds.
NamesHold == NamesDistinct /\ PlanNamesHold

\* The comment on predictedToolName (plan-validator.js:100): the names a plan
\* that was found in order is told are the names that appear in tools/list.
PlanNamesAppear == \A p \in Plans : PlanOk(p) => Given(p) = Predicted(p)
=============================================================================
