------------------------------- MODULE ServePlan -------------------------------
(***************************************************************************)
(* A serve request from its submission to its recommendation               *)
(* (service/api/routes.py, _run_job and _default_planner): the workload    *)
(* and its demand, the hardware that is free, allowed and profiled, the    *)
(* fidelity router, a planner run in the service's process, the power cap  *)
(* and the devices of the winner. Others reserve and release devices       *)
(* meanwhile, and a conflict at confirmation plans again. What happens to  *)
(* the job around that is in ServiceJobs.                                  *)
(*                                                                         *)
(* The same machine also runs the jobs of the planner server, which have   *)
(* no request.                                                             *)
(***************************************************************************)
EXTENDS PlannerJob, Topology

CONSTANTS Requests,   \* [model, fp, slo, cap, exclude, force, scale]
          Registry,
          Oracles,    \* measured: [hw, model, tp, rates]; rates of its points, {} without
          Upstream,   \* profiles of the upstream simulator: [hw, model, tp]
          NPUs,       \* NPU_HARDWARE
          UnitTimesParams, LeastUnit, LargeBelow,  \* the constants of proxy_toks_per_unit, eval_jobs
          MaxPlans,   \* bound on the plans of a request
          Contested,  \* the devices that others reserve and release
          MaxMoves    \* bound on the reservations and releases of others

NoRequest == <<>>
\* ServeRequestIn; a trace lasts for whole seconds.
ASSUME RequestsAssumption ==
  /\ NoRequest \notin Requests
  /\ \A r \in Requests :
       /\ r.force \in {"", "measured", "upstream", "legacy"}
       /\ r.scale.duration \in Nat \ {0}
       /\ r.model.name \in ModelConfigs => Params(r.model) \in Nat \ {0}

\* RegistryV2, and what is read off directories and oracles. A device's id is
\* <node>/<hw>/<index>, a bandwidth is not negative.
ASSUME RegistryAssumption ==
  /\ IsFiniteSet(Registry.nodes) /\ IsFiniteSet(Registry.inter)
  /\ \A n \in Registry.nodes :
       /\ IsFiniteSet(n.devices) /\ IsFiniteSet(n.switches) /\ IsFiniteSet(n.links)
       /\ n.host \in Nat \cup {Nothing}
  /\ \A id \in DeviceIds(Registry) : id = <<id[1], id[2], id[3]>> /\ id[3] \in Nat
  /\ \A l \in Links(Registry) : l.bw \in Nat
  /\ Contested \subseteq DeviceIds(Registry)
ASSUME CatalogsAssumption ==
  /\ \A catalog \in {Oracles, Upstream, Profiles} :
       IsFiniteSet(catalog) /\ \A e \in catalog : e.tp \in Nat \ {0}
  /\ \A o \in Oracles : IsFiniteSet(o.rates) /\ o.rates \subseteq Nat
  /\ LeastUnit \in Nat \ {0} /\ UnitTimesParams \in Nat

VARIABLES request,    \* or NoRequest, for a job of the planner server
          generated,  \* the rate of its trace, which the seed fixes; None when there is no trace
          free,       \* what the ledger says is free
          moves, plans,
          phase,      \* pending, planning, answered, failed
          route,      \* the router's decision for the run
          answer

planVars == <<request, generated, free, moves, plans, phase, route, answer>>
NoAnswer == [state |-> "none"]

(***************************************************************************)
(* What can be evaluated (model_tp_catalog and the backends' list_hardware)*)
(***************************************************************************)

Ladder == <<"measured", "upstream", "legacy">>
\* The legacy listing does not ask whether a profile is complete.
Known == [measured |-> Oracles, upstream |-> Upstream, legacy |-> Profiles]

Catalog(backend, model) ==
  LET here == {e \in Known[backend] : e.model = model}
  IN [hw \in {e.hw : e \in here} |-> {e.tp : e \in {x \in here : x.hw = hw}}]

\* preferred_tp_options: the first rung that has any, for each hardware that has.
Preferred(model, hws) ==
  LET rungs(hw) == {i \in DOMAIN Ladder : hw \in DOMAIN Catalog(Ladder[i], model)}
  IN [hw \in {h \in hws : rungs(h) # {}} |-> Catalog(Ladder[Least(rungs(hw))], model)[hw]]

\* Mutant of Route: an NPU is taken for a GPU.
RouteBlindToNpus(hwTps, r) ==
  LET oracle == Catalog("measured", r.model.name)
      to(backend, confidence) == [backend |-> backend, confidence |-> confidence]
  IN IF r.force # "" THEN to(r.force, "high")
     ELSE IF \A hw \in DOMAIN hwTps : hwTps[hw] \subseteq At(oracle, hw, {})
     THEN to("measured", "high") ELSE to("upstream", "medium")

\* fidelity_router.route
Route(hwTps, r) ==
  LET oracle == Catalog("measured", r.model.name)
      covered == \A hw \in DOMAIN hwTps : hwTps[hw] \subseteq At(oracle, hw, {})
      npus == DOMAIN hwTps \cap NPUs
      legacy == \A hw \in npus : ProfiledTps(Profiles, hw, r.model.name) # {}
      to(backend, confidence) == [backend |-> backend, confidence |-> confidence]
  IN IF r.force # "" THEN to(r.force, "high")
     ELSE IF covered THEN to("measured", "high")
     ELSE IF npus = {} THEN to("upstream", "medium")
     ELSE IF legacy THEN to("legacy", "low") ELSE to("none", "none")

\* The routed backend's own degrees, unless it knows nothing of the model.
Restricted(hwTps, backend, model) ==
  LET catalog == Catalog(backend, model)
  IN IF catalog = <<>> THEN hwTps ELSE [hw \in DOMAIN catalog \cap DOMAIN hwTps |-> catalog[hw]]

(***************************************************************************)
(* The spec (_default_planner up to run_spec).                             *)
(***************************************************************************)

\* proxy_toks_per_unit; eval_jobs
ProxyUnit(model) ==
  IF model.name \notin ModelConfigs THEN None
  ELSE Most({LeastUnit, UnitTimesParams \div Params(model)})
EvalJobs(model) == IF ProxyUnit(model) # None /\ ProxyUnit(model) < LargeBelow THEN 2 ELSE 4

\* measured_capacity
MeasuredCapacity(model, hwTps) ==
  {[hw |-> o.hw, tp |-> o.tp, rate |-> Most(o.rates)] :
     o \in {x \in Oracles : /\ x.model = model /\ x.rates # {}
                            /\ x.hw \in DOMAIN hwTps /\ x.tp \in hwTps[x.hw]}}

ServeSpec(r, topo, hwTps, backend, toks) ==
  [nodes |-> {d.node : d \in topo.devices}, host |-> topo.host, devices |-> topo.devices,
   intra |-> topo.intra,
   links |-> SetToSeq({[src |-> l.a[1], dst |-> l.b[1], bw |-> [value |-> l.bw, prefix |-> "G", unit |-> "B"],
                        latency |-> [value |-> 0, unit |-> "ms"]] : l \in topo.links}),
   tps |-> UNION {hwTps[hw] : hw \in DOMAIN hwTps}, hwTps |-> hwTps,
   capacity |-> MeasuredCapacity(r.model.name, hwTps),
   model |-> r.model, fp |-> r.fp, pd |-> FALSE, prefills |-> <<1, 1>>, decodes |-> <<1, 1>>,
   demand |-> [toks |-> toks, req |-> None, preset |-> "", lengths |-> <<>>,
               unit |-> ProxyUnit(r.model), tolerance |-> 10, maxQueue |-> 3],
   topK |-> 4, steps |-> 3, jobs |-> EvalJobs(r.model), dry |-> FALSE, batchTokens |-> {1},
   objectives |-> <<[metric |-> "power", dir |-> "min", weight |-> 1]>>,
   slo |-> {[metric |-> m, op |-> "<=", value |-> r.slo[m]] : m \in DOMAIN r.slo},
   backend |-> backend]

Without(topo, hws) == [topo EXCEPT !.devices = {d \in @ : d.hw \notin hws}]
Blocked(why) == [state |-> "infeasible", why |-> why]

\* What the trace with the job's seed amounts to; None when synthesize raises.
RatesOf(scale) ==
  IF scale.preset \notin DOMAIN Presets THEN {None}
  ELSE {IF Synthesizes(scale, t) THEN Rates(scale, t).generated ELSE None : t \in Traces(scale)}

(***************************************************************************)
(* The job.                                                                *)
(***************************************************************************)

ServeInit ==
  /\ \/ request = NoRequest /\ generated = None /\ phase = "direct"
     \/ request \in Requests /\ generated \in RatesOf(request.scale) /\ phase = "pending"
  /\ free = DeviceIds(Registry) /\ moves = 0 /\ plans = 0
  /\ route = <<>> /\ answer = NoAnswer
  /\ IF request = NoRequest THEN Init
     ELSE spec = <<>> /\ main = "idle" /\ Idle /\ status = NoStatus

\* Another tenant takes a device of a node, or gives it back. Only Plan, Answer
\* and Replan look: a move while run_spec is at work might as well come after it.
Move ==
  /\ moves < MaxMoves
  /\ phase \in {"pending", "answered"} \/ (phase = "planning" /\ main = "report")
  /\ \E d \in Contested : free' = SymDiff(free, {d})
  /\ moves' = moves + 1
  /\ UNCHANGED <<vars, request, generated, plans, phase, route, answer>>

Fail == phase' = "failed" /\ answer' = [state |-> "failed"]
Refuse(why) ==
  phase' = "answered" /\ answer' = Blocked(why) /\ UNCHANGED <<vars, route>>

\* run_spec begins; in stage 1 a model without a config raises.
Begin(s) ==
  IF s.model.name \notin ModelConfigs THEN Fail /\ UNCHANGED vars
  ELSE /\ phase' = "planning" /\ UNCHANGED answer
       /\ spec' = s /\ main' = "start"
       /\ level' = 0 /\ combos' = {} /\ allocs' = <<>> /\ report' = "none"
       /\ worker' = <<>> /\ result' = <<>> /\ raised' = FALSE
       /\ best' = <<>> /\ pareto' = {}
       /\ UNCHANGED <<runs, disk>>

\* What is left once the router has decided: the hardware that its backend knows.
Routed(allowed, preferred, decision) ==
  \E hwTps \in {Restricted(preferred, decision.backend, request.model.name)} :
  \E topo \in {Without(allowed, Hardware(allowed.devices) \ DOMAIN hwTps)} :
    IF topo.devices = {} THEN Refuse("profiles")
    ELSE /\ route' = decision
         /\ Begin(ServeSpec(request, topo, hwTps, decision.backend, generated))

\* _run_job up to run_spec, in the order of its returns; synthesize raises.
Plan ==
  /\ phase = "pending" /\ main # "killed"
  /\ plans' = plans + 1
  /\ \E all \in {AvailableTopology(Registry, free)} :
     \E allowed \in {Without(all, request.exclude)} :
     \E preferred \in {Preferred(request.model.name, Hardware(allowed.devices))} :
     \E decision \in {Route(preferred, request)} :
       IF all.devices = {} THEN Refuse("availability")
       ELSE IF generated = None THEN Fail /\ UNCHANGED <<vars, route>>
       ELSE IF allowed.devices = {} THEN Refuse("availability")
       ELSE IF preferred = <<>> THEN Refuse("profiles")
       ELSE IF decision.backend = "none" THEN Refuse("evaluation")
       ELSE Routed(allowed, preferred, decision)
  /\ UNCHANGED <<request, generated, free, moves>>

\* Mutant of Winners: the cap is checked on the winner of the ranking only.
WinnerCapLast ==
  IF request.cap = None \/ best = <<>> THEN {best}
  ELSE IF result[best].power <= request.cap THEN {best} ELSE {CHOOSE c \in Passing : TRUE}

\* The best candidate: with a cap, the one of least power among those under it.
Winners ==
  IF request.cap = None THEN {best}
  ELSE LET under == {c \in Passing : result[c].power <= request.cap}
       IN IF under = {} THEN {<<>>}
          ELSE {c \in under : \A d \in under : result[c].power <= result[d].power}

\* One group for each replica of the winner; the order of its instances is the
\* solver's.
GroupsOf(instances) ==
  FlattenSeq([i \in DOMAIN instances |->
    LET t == instances[i][1] IN [k \in 1..instances[i][2] |-> <<t.node, t.hw, t.tp>>]])

\* run_spec has returned: the winner, its groups and, from a second look at the
\* ledger, its devices; when they are short, that raises.
Answer ==
  /\ phase = "planning" /\ main = "report"
  /\ main' = "ended"
  /\ \E c \in Winners :
       IF c = <<>> THEN /\ phase' = "answered"
                        /\ answer' = Blocked(report)
       ELSE \E groups \in {GroupsOf(order) : order \in SetToSeqs(c[1])} :
            \E picks \in {Picks(Registry, free, groups)} :
              IF Short(picks) THEN Fail
              ELSE /\ phase' = "answered"
                   /\ answer' = [state |-> "done", best |-> c, groups |-> groups,
                                 devices |-> Chosen(groups, picks),
                                 note |-> FellShort(spec, result[c])]
  /\ UNCHANGED <<spec, runs, stage1, worker, result, raised, best, pareto, disk,
                 request, generated, free, moves, plans, route>>

\* run_spec has raised.
Failed ==
  /\ phase = "planning" /\ main = "ended" /\ Fail
  /\ UNCHANGED <<vars, request, generated, free, moves, plans, route>>

\* Confirmed in vain: a device of the answer was taken. The job runs again.
Replan ==
  /\ phase = "answered" /\ answer.state = "done" /\ plans < MaxPlans
  /\ ~(ToSet(answer.devices) \subseteq free)
  /\ phase' = "pending" /\ answer' = NoAnswer
  /\ UNCHANGED <<vars, request, generated, free, moves, plans, route>>

Serve == Plan \/ Answer \/ Failed
Engine == (Solve \/ Evaluate \/ Expand \/ Raise \/ Rank) /\ UNCHANGED planVars
Server == phase = "direct" /\ (Report \/ Finish) /\ UNCHANGED planVars
Again == phase = "direct" /\ Rerun /\ UNCHANGED planVars
Die == Crash /\ UNCHANGED planVars
ServeNext == Serve \/ Engine \/ Server \/ Again \/ Die \/ Move \/ Replan

serveVars == <<vars, planVars>>
\* The threads of the service run on, as those of a planner run do. Nobody need
\* kill the process, reserve a device, run a job again or confirm.
ServeFairness == WF_serveVars(Serve \/ Engine \/ Server)
ServeSpecification == ServeInit /\ [][ServeNext]_serveVars /\ ServeFairness

(***************************************************************************)
(* Properties.                                                             *)
(***************************************************************************)

\* The devices of a recommendation are those of its groups, in their order: each
\* group has as many devices as its degree, all of its node and kind, and no
\* device serves twice, whatever the order in which groups were placed.
GroupsGetTheirDevices ==
  answer.state = "done" =>
    LET g == answer.groups
        from(i) == Total([k \in 1..(i - 1) |-> g[k][3]])
    IN /\ Len(answer.devices) = Total([k \in DOMAIN g |-> g[k][3]])
       /\ IsInjective(answer.devices)
       /\ \A i \in DOMAIN g : \A k \in (from(i) + 1)..(from(i) + g[i][3]) :
            answer.devices[k][1] = g[i][1] /\ answer.devices[k][2] = g[i][2]

\* What stage 1 may place for a request, the routed backend can evaluate, if it
\* knows the model at all; and an NPU is planned for by its oracles, or with low
\* confidence, unless the client forced a backend (route, the restriction after it).
PlansWhatItCanEvaluate ==
  phase = "planning" =>
    LET catalog == Catalog(route.backend, request.model.name)
    IN /\ catalog # <<>> => \A t \in Templates(spec) : t.hw \in DOMAIN catalog /\ t.tp \in catalog[t.hw]
       /\ request.force = "" /\ Hardware(spec.devices) \cap NPUs # {} =>
            route.backend = "measured" \/ route.confidence = "low"

\* A recommendation keeps to the request: its power is within the cap, it passed
\* its constraints, it uses no excluded hardware, and no candidate that passed
\* and is within the cap draws less.
BestIsLeastPower ==
  answer.state = "done" =>
    LET watts(c) == result[c].power
        within(c) == c \in Passing /\ (request.cap = None \/ watts(c) <= request.cap)
    IN /\ within(answer.best)
       /\ \A c \in DOMAIN result : within(c) => watts(answer.best) <= watts(c)
       /\ \A p \in answer.best[1] : p[1].hw \notin request.exclude

\* A run of the planner that is not killed ends, and a request is answered.
PlanEnds ==
  /\ main = "start" ~> main \in {"ended", "killed"}
  /\ phase = "pending" ~> phase \in {"answered", "failed"} \/ main = "killed"
=============================================================================
