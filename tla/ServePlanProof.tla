----------------------------- MODULE ServePlanProof -----------------------------
(***************************************************************************)
(* Theorems about ServePlan, for every registry, request, trace and spec,  *)
(* any number of candidates, threads, reruns and re-plans.                 *)
(***************************************************************************)
EXTENDS ServePlan, DataTheorems

Terminal == {"done", "failed"}

\* What makes a terminal status final: nobody who would still mirror an event is
\* there. A request has no status; a thread is busy only while the pool is open.
StatusInv ==
  /\ runs \in Nat \ {0}
  /\ "state" \in DOMAIN status
  /\ phase # "direct" => status = NoStatus
  /\ main # "pool" => \A c \in DOMAIN worker : worker[c] = "ended"
  /\ runs = 1 /\ status.state \in Terminal => main \in {"ended", "killed"}

LEMMA NobodyIn == \A c \in DOMAIN <<>> : c # c
  OBVIOUS

LEMMA StatusInit == ServeInit => StatusInv
  <1> SUFFICES ASSUME ServeInit PROVE StatusInv
    OBVIOUS
  <1>1. /\ runs = 1 /\ worker = <<>>
        /\ status \in {NoStatus, [NoStatus EXCEPT !.state = "queued"]}
        /\ phase # "direct" => status = NoStatus
    BY RequestsAssumption DEF ServeInit, Init, Idle
  <1>2. "state" \in DOMAIN status /\ status.state \notin Terminal
    BY <1>1 DEF NoStatus, Terminal
  <1> QED
    BY <1>1, <1>2, NobodyIn DEF StatusInv

\* The steps of the request that are not the planner's.
LEMMA ServeStatus ==
  ASSUME StatusInv, Serve \/ Move \/ Replan PROVE StatusInv' /\ status' = status
  <1>1. CASE Plan
    <2>1. phase = "pending" /\ status = NoStatus
      BY <1>1 DEF Plan, StatusInv
    <2>2. /\ runs' = runs /\ status' = status /\ phase' # "direct"
          /\ (worker' = worker /\ main' = main) \/ worker' = <<>>
      BY <1>1 DEF Plan, Refuse, Fail, Routed, Begin, vars, disk
    <2> QED
      BY <2>1, <2>2, NobodyIn DEF StatusInv, NoStatus, Terminal
  <1>2. CASE Answer
    BY <1>2 DEF StatusInv, Answer, Fail, disk
  <1>3. CASE Failed
    BY <1>3 DEF StatusInv, Failed, Fail, vars, disk
  <1>4. CASE Move
    BY <1>4 DEF StatusInv, Move, vars, disk
  <1>5. CASE Replan
    BY <1>5 DEF StatusInv, Replan, vars, disk
  <1> QED
    BY <1>1, <1>2, <1>3, <1>4, <1>5 DEF Serve

LEMMA SolveStatus ==
  ASSUME StatusInv, Solve, UNCHANGED planVars PROVE StatusInv' /\ status' = status
  <1>1. /\ main \notin {"pool", "ended", "killed"}
        /\ UNCHANGED <<runs, worker, status, phase>>
    BY DEF Solve, StartSweep, PowerLevel, Diversity, Anchors, EpsilonLevel, planVars, disk
  <1> QED
    BY <1>1 DEF StatusInv

LEMMA EvaluateStatus ==
  ASSUME StatusInv, Evaluate, UNCHANGED planVars
  PROVE  StatusInv' /\ (status.state \in Terminal => status' = status)
  <1>1. PICK c \in DOMAIN worker : Look(c) \/ Simulated(c) \/ Fails(c) \/ Store(c) \/ Emit(c)
    BY DEF Evaluate
  <1>2. worker[c] # "ended"
    BY <1>1 DEF Look, Simulated, Fails, Store, Emit
  <1>3. main = "pool" /\ main' = main /\ runs' = runs /\ phase' = phase
    BY <1>1, <1>2 DEF StatusInv, Look, Simulated, Fails, Store, Emit, planVars, stage1, disk
  <1>4. /\ DOMAIN status' = DOMAIN status /\ status'.state = status.state
        /\ status = NoStatus \/ runs # 1 => status' = status
    <2>1. CASE Emit(c)
      BY <2>1 DEF StatusInv, Emit, Mutate, Watched
    <2>2. CASE Look(c) \/ Simulated(c) \/ Fails(c) \/ Store(c)
      BY <2>2 DEF Look, Simulated, Fails, Store, disk
    <2> QED
      BY <1>1, <2>1, <2>2
  <1> QED
    BY <1>3, <1>4 DEF StatusInv, Terminal

LEMMA EngineStatus ==
  ASSUME StatusInv, Engine
  PROVE  StatusInv' /\ (status.state \in Terminal => status' = status)
  <1>1. CASE Solve
    BY <1>1, SolveStatus DEF Engine
  <1>2. CASE Evaluate
    BY <1>2, EvaluateStatus DEF Engine
  <1>3. CASE Expand
    BY <1>3 DEF Engine, Expand, Mutate, Watched, StatusInv, Terminal, planVars
  <1>4. CASE Raise
    BY <1>4 DEF Engine, Raise, AllEnded, Mutate, Watched, StatusInv, Terminal, planVars
  <1>5. CASE Rank
    BY <1>5 DEF Engine, Rank, AllEnded, Mutate, Watched, StatusInv, Terminal, planVars
  <1> QED
    BY <1>1, <1>2, <1>3, <1>4, <1>5 DEF Engine

LEMMA ServerStatus ==
  ASSUME StatusInv, Server \/ Again \/ Die
  PROVE  StatusInv' /\ (status.state \in Terminal => status' = status)
  <1>1. CASE Server
    BY <1>1 DEF Server, Report, Finish, Mutate, Watched, StatusInv, Terminal, planVars, disk
  <1>2. CASE Again
    BY <1>2, NobodyIn DEF Again, Rerun, StatusInv, planVars, disk
  <1>3. CASE Die
    BY <1>3, NobodyIn DEF Die, Crash, StatusInv, planVars, disk
  <1> QED
    BY <1>1, <1>2, <1>3

LEMMA StatusStep ==
  ASSUME StatusInv, [ServeNext]_serveVars
  PROVE  StatusInv' /\ (status.state \in Terminal => status' = status)
  <1>1. CASE UNCHANGED serveVars
    BY <1>1 DEF StatusInv, serveVars, vars, planVars, disk
  <1>2. CASE ServeNext
    BY <1>2, ServeStatus, EngineStatus, ServerStatus DEF ServeNext
  <1> QED
    BY <1>1, <1>2

\* StatusInv holds throughout.
THEOREM StatusInvariant == ServeSpecification => []StatusInv
  BY StatusInit, StatusStep, PTL DEF ServeSpecification

\* A terminal status is the last word (_mutate_status against the pool of threads).
THEOREM StatusIsFinal == ServeSpecification => TerminalIsFinal
  <1>1. StatusInv /\ [ServeNext]_serveVars
          => [status.state \in {"done", "failed"} => UNCHANGED status]_vars
    BY StatusStep DEF Terminal
  <1> QED
    BY <1>1, StatusInvariant, PTL DEF ServeSpecification, TerminalIsFinal

------------------------------------------------------------------------------
(* What stage 1 is given, the routed backend can evaluate. *)

LEMMA WithoutHardware ==
  ASSUME NEW topo, NEW hws, "devices" \in DOMAIN topo
  PROVE  /\ "devices" \in DOMAIN Without(topo, hws)
         /\ Without(topo, hws).devices = {d \in topo.devices : d.hw \notin hws}
  BY DEF Without

LEMMA CatalogIsFunction ==
  ASSUME NEW b, NEW m
  PROVE  Catalog(b, m) = [hw \in DOMAIN Catalog(b, m) |-> Catalog(b, m)[hw]]
  BY DEF Catalog

\* The restriction gives the degrees of the catalog, if there is one, and only
\* hardware that was there before.
LEMMA RestrictedTo ==
  ASSUME NEW hwTps, NEW b, NEW m
  PROVE  /\ DOMAIN Restricted(hwTps, b, m) \subseteq DOMAIN hwTps
         /\ Catalog(b, m) # <<>> => \A hw \in DOMAIN Restricted(hwTps, b, m) :
              /\ hw \in DOMAIN Catalog(b, m)
              /\ Restricted(hwTps, b, m)[hw] = Catalog(b, m)[hw]
  BY DEF Restricted

\* Of the templates of a spec, each has hardware the spec allows degrees for, and
\* one of these degrees.
LEMMA TemplatesAllowed ==
  ASSUME NEW s, NEW t \in Templates(s), Hardware(s.devices) \subseteq DOMAIN s.hwTps
  PROVE  t.hw \in DOMAIN s.hwTps /\ t.tp \in s.hwTps[t.hw]
  BY DEF Templates, Hardware

\* Without a forced backend, an NPU has oracles or is planned for with low
\* confidence.
LEMMA RouteKnowsNpus ==
  ASSUME NEW hwTps, NEW r, r.force = "", DOMAIN hwTps \cap NPUs # {}
  PROVE  Route(hwTps, r).backend \in {"measured", "none"} \/ Route(hwTps, r).confidence = "low"
  BY DEF Route

LEMMA AvailableDevices ==
  ASSUME NEW reg, NEW f PROVE "devices" \in DOMAIN AvailableTopology(reg, f)
  BY DEF AvailableTopology

\* A request that begins to be planned.
LEMMA PlanBegins ==
  ASSUME Plan, phase' = "planning" PROVE PlansWhatItCanEvaluate'
  <1> DEFINE name == request.model.name
  <1>1. PICK allowed, preferred, decision :
          /\ "devices" \in DOMAIN allowed
          /\ decision = Route(preferred, request) /\ decision.backend # "none"
          /\ Routed(allowed, preferred, decision)
    <2>1. PICK all, excluding, preferred, decision :
            /\ all = AvailableTopology(Registry, free)
            /\ excluding = Without(all, request.exclude)
            /\ decision = Route(preferred, request) /\ decision.backend # "none"
            /\ Routed(excluding, preferred, decision)
      BY DEF Plan, Refuse, Fail
    <2> QED
      BY <2>1, AvailableDevices, WithoutHardware
  <1>2. PICK hwTps, topo :
          /\ hwTps = Restricted(preferred, decision.backend, name)
          /\ topo = Without(allowed, Hardware(allowed.devices) \ DOMAIN hwTps)
          /\ route' = decision
          /\ Begin(ServeSpec(request, topo, hwTps, decision.backend, generated))
    BY <1>1 DEF Routed, Refuse
  <1>3. /\ spec' = ServeSpec(request, topo, hwTps, decision.backend, generated)
        /\ request' = request
    BY <1>2 DEF Begin, Fail, Plan
  <1>4. spec'.devices = topo.devices /\ spec'.hwTps = hwTps
    BY <1>3 DEF ServeSpec
  <1>5. Hardware(topo.devices) \subseteq DOMAIN hwTps
    BY <1>1, <1>2, WithoutHardware DEF Hardware
  <1>6. Catalog(decision.backend, name) # <<>> =>
          \A t \in Templates(spec') : /\ t.hw \in DOMAIN Catalog(decision.backend, name)
                                      /\ t.tp \in Catalog(decision.backend, name)[t.hw]
    <2> SUFFICES ASSUME Catalog(decision.backend, name) # <<>>, NEW t \in Templates(spec')
                 PROVE  /\ t.hw \in DOMAIN Catalog(decision.backend, name)
                        /\ t.tp \in Catalog(decision.backend, name)[t.hw]
      OBVIOUS
    <2>1. t.hw \in DOMAIN hwTps /\ t.tp \in hwTps[t.hw]
      BY <1>4, <1>5, TemplatesAllowed
    <2> QED
      BY <2>1, <1>2, RestrictedTo
  <1>7. request.force = "" /\ Hardware(spec'.devices) \cap NPUs # {} =>
          decision.backend = "measured" \/ decision.confidence = "low"
    <2>1. DOMAIN hwTps \subseteq DOMAIN preferred
      BY <1>2, RestrictedTo
    <2>2. Hardware(spec'.devices) \subseteq DOMAIN preferred
      BY <1>4, <1>5, <2>1
    <2> QED
      BY <1>1, <2>2, RouteKnowsNpus
  <1> QED
    BY <1>2, <1>3, <1>6, <1>7 DEF PlansWhatItCanEvaluate

\* While the planner works on a request, neither its spec nor its route changes.
LEMMA PlanGoesOn ==
  ASSUME [ServeNext]_serveVars, ~Plan
  PROVE  phase' = "planning" => phase = "planning" /\ UNCHANGED <<spec, route, request>>
  <1>1. CASE UNCHANGED serveVars
    BY <1>1 DEF serveVars, vars, planVars
  <1>2. CASE Answer \/ Failed \/ Replan \/ Again
    BY <1>2 DEF Answer, Fail, Failed, Replan, Again, planVars
  <1>3. CASE Move
    BY <1>3 DEF Move, vars
  <1>4. CASE Engine
    <2>1. CASE Solve
      BY <1>4, <2>1 DEF Engine, Solve, StartSweep, PowerLevel, Diversity, Anchors,
                        EpsilonLevel, planVars
    <2>2. CASE Evaluate
      BY <1>4, <2>2 DEF Engine, Evaluate, Look, Simulated, Fails, Store, Emit, planVars
    <2>3. CASE Expand \/ Raise \/ Rank
      BY <1>4, <2>3 DEF Engine, Expand, Raise, Rank, planVars
    <2> QED
      BY <1>4, <2>1, <2>2, <2>3 DEF Engine
  <1>5. CASE Server
    BY <1>5 DEF Server, planVars
  <1>6. CASE Die
    BY <1>6 DEF Die, Crash, planVars
  <1> QED
    BY <1>1, <1>2, <1>3, <1>4, <1>5, <1>6 DEF ServeNext, Serve

\* Whatever is free, excluded, profiled and measured, stage 1 is given only what the
\* routed backend can evaluate, and no NPU is silently planned for with confidence
\* (_default_planner, fidelity_router.route).
THEOREM PlansAreEvaluable == ServeSpecification => []PlansWhatItCanEvaluate
  <1>1. ServeInit => PlansWhatItCanEvaluate
    BY DEF ServeInit, PlansWhatItCanEvaluate
  <1>2. PlansWhatItCanEvaluate /\ [ServeNext]_serveVars => PlansWhatItCanEvaluate'
    <2> SUFFICES ASSUME PlansWhatItCanEvaluate, [ServeNext]_serveVars, phase' = "planning"
                 PROVE  PlansWhatItCanEvaluate'
      BY DEF PlansWhatItCanEvaluate
    <2>1. CASE Plan
      BY <2>1, PlanBegins
    <2>2. CASE ~Plan
      BY <2>2, PlanGoesOn DEF PlansWhatItCanEvaluate
    <2> QED
      BY <2>1, <2>2
  <1> QED
    BY <1>1, <1>2, PTL DEF ServeSpecification

------------------------------------------------------------------------------
(* Numbers *)

\* Most and Least of finite sets of numbers are elements of them.
LEMMA MostIs ==
  ASSUME NEW S, S \subseteq Int, IsFiniteSet(S), S # {}
  PROVE  Most(S) \in S /\ \A x \in S : x <= Most(S)
  <1>1. \E x \in S : \A y \in S : y <= x
    BY FiniteSetHasMax
  <1> QED
    BY <1>1 DEF Most

LEMMA LeastIs ==
  ASSUME NEW S, S \subseteq Int, IsFiniteSet(S), S # {}
  PROVE  Least(S) \in S /\ \A x \in S : Least(S) <= x
  <1>1. \E x \in S : \A y \in S : x <= y
    BY FiniteSetHasMin
  <1> QED
    BY <1>1 DEF Least

\* A sum over the domain of a function.
LEMMA SumOfFunction ==
  ASSUME NEW f
  PROVE  SumFunction(f) = SumFunctionOnSet(f, DOMAIN f)
  BY DEF SumFunction

\* Naturals add up to a natural.
LEMMA SumIsNatural ==
  ASSUME NEW f, IsFiniteSet(DOMAIN f), \A x \in DOMAIN f : f[x] \in Nat
  PROVE  SumFunction(f) \in Nat
  BY SumIsNat, SumOfFunction

------------------------------------------------------------------------------
(* A spec *)

\* There are finitely many templates, each of devices that the spec has.
LEMMA TemplatesAre ==
  ASSUME NEW s, IsSpec(s)
  PROVE  /\ IsFiniteSet(Templates(s))
         /\ \A t \in Templates(s) : /\ t.tp \in Nat \ {0} /\ t.node \in s.nodes
                                    /\ \E d \in s.devices : d.node = t.node /\ d.hw = t.hw
  <1> DEFINE Z == {y \in s.devices \X s.tps \X Roles(s) :
                    /\ y[1].hw \in DOMAIN s.hwTps => y[2] \in s.hwTps[y[1].hw]
                    /\ y[2] <= y[1].count
                    /\ MemoryFits(s, y[1], y[2])}
             template == [z \in Z |-> [node |-> z[1].node, hw |-> z[1].hw, tp |-> z[2], role |-> z[3]]]
  <1>1. IsFiniteSet(s.devices) /\ IsFiniteSet(s.tps) /\ s.tps \subseteq Nat \ {0}
        /\ \A d \in s.devices : d.node \in s.nodes
    BY DEF IsSpec
  <1>2. IsFiniteSet(Z)
    <2>1. IsFiniteSet({"both"}) /\ IsFiniteSet({"prefill"}) /\ IsFiniteSet({"prefill"} \cup {"decode"})
      BY FS_Singleton, FS_AddElement
    <2>2. {"prefill"} \cup {"decode"} = {"prefill", "decode"}
      OBVIOUS
    <2>3. IsFiniteSet(Roles(s))
      BY <2>1, <2>2 DEF Roles
    <2>4. IsFiniteSet(s.devices \X s.tps \X Roles(s))
      BY <1>1, <2>3, TriplesAreFinite
    <2>5. Z \in SUBSET (s.devices \X s.tps \X Roles(s))
      OBVIOUS
    <2> HIDE DEF Z
    <2> QED
      BY <2>4, <2>5, FS_Subset
  <1>3. Templates(s) = {template[z] : z \in Z}
    BY DEF Templates
  <1>4. ASSUME NEW t \in Templates(s)
        PROVE  /\ t.tp \in Nat \ {0} /\ t.node \in s.nodes
               /\ \E d \in s.devices : d.node = t.node /\ d.hw = t.hw
    BY <1>1 DEF Templates
  <1> HIDE DEF Z, template
  <1>5. IsFiniteSet(Templates(s))
    BY <1>2, <1>3, ImageIsFinite
  <1> QED
    BY <1>4, <1>5

\* Powers and throughputs are numbers.
LEMMA PowersAreNumbers ==
  \A hw : ActivePower(hw) \in Nat /\ HostBase(hw) \in Nat
  BY PowerAssumption DEF ActivePower, HostBase, At

LEMMA UnitIs ==
  ASSUME NEW s, IsSpec(s) PROVE Unit(s) \in Nat \ {0}
  BY RatesAssumption DEF Unit, IsSpec, None

\* A quotient and its remainder.
LEMMA Division ==
  ASSUME NEW a \in Nat, NEW b \in Nat \ {0}
  PROVE  /\ a \div b \in Nat /\ a % b \in Nat /\ a % b < b
         /\ a = b * (a \div b) + (a % b)
  OBVIOUS

LEMMA RoundedIsNumber ==
  ASSUME NEW a \in Nat, NEW b \in Nat \ {0}, NEW n PROVE Rounded(a, b, n) \in Nat
  BY Division DEF Rounded

\* However the float errs at a whole number, the ceiling is not below the quotient, and
\* at most one above it.
LEMMA CeilingIs ==
  ASSUME NEW a \in Nat, NEW b \in Nat \ {0}, NEW n
  PROVE  /\ Ceiling(a, b, n) \in Nat
         /\ a <= b * Ceiling(a, b, n) /\ b * Ceiling(a, b, n) <= a + b
  <1>1. PICK q, r : q = a \div b /\ r = a % b
    OBVIOUS
  <1>2. q \in Nat /\ r \in Nat /\ r < b /\ a = b * q + r
    BY <1>1, Division
  <1>3. PICK c : c = Ceiling(a, b, n)
    OBVIOUS
  <1>4. c = q \/ c = q + 1
    BY <1>1, <1>3 DEF Ceiling
  <1>5. c = q => r = 0
    BY <1>1, <1>2, <1>3 DEF Ceiling
  <1>6. b * (q + 1) = b * q + b
    BY <1>2
  <1>7. b * q \in Nat
    BY <1>2
  <1>8. c \in Nat /\ a <= b * c /\ b * c <= a + b
    BY <1>2, <1>4, <1>5, <1>6, <1>7
  <1> QED
    BY <1>3, <1>8

LEMMA ThroughputIsNumber ==
  ASSUME NEW s, IsSpec(s), NEW t \in Templates(s) PROVE Throughput(s, t) \in Nat
  <1>1. t.tp \in Nat
    BY TemplatesAre
  <1>2. Unit(s) \in Nat \ {0}
    BY UnitIs
  <1>3. At(RelThroughput, t.hw, 1000) \in Nat
    BY RatesAssumption DEF At
  <1>4. \A c \in s.capacity : c.rate \in Nat /\ 1000 * c.rate \in Nat
    BY DEF IsSpec
  <1>5. \A a, b \in Nat : a * b \in Nat
    OBVIOUS
  <1>6. \A c \in s.capacity : Rounded(1000 * c.rate, Unit(s), t.tp) \in Nat
    BY <1>2, <1>4, RoundedIsNumber
  <1> QED
    BY <1>1, <1>3, <1>5, <1>6 DEF Throughput

LEMMA HostIsNumber ==
  ASSUME NEW s, IsSpec(s), NEW v \in s.nodes PROVE NodeHostBase(s, v) \in Nat
  <1> DEFINE here == {e \in s.devices : e.node = v}
             base == [d \in here |-> HostBase(d.hw)]
             S == {base[d] : d \in here}
  <1>1. s.host[v] \in Nat \cup {None} /\ IsFiniteSet(s.devices)
    BY DEF IsSpec
  <1>2. here \in SUBSET s.devices
    OBVIOUS
  <1>3. \A d \in here : base[d] \in Nat
    BY PowersAreNumbers
  <1>4. {HostBase(d.hw) : d \in {e \in s.devices : e.node = v}} = S
    OBVIOUS
  <1> HIDE DEF here, base
  <1>5. IsFiniteSet(S)
    <2>1. IsFiniteSet(here)
      BY <1>1, <1>2, FS_Subset
    <2> QED
      BY <2>1, ImageIsFinite
  <1>6. S \subseteq Nat
    BY <1>3
  <1> HIDE DEF S
  <1>7. IsFiniteSet(S \cup {0})
    BY <1>5, FS_AddElement
  <1>8. S \cup {0} \subseteq Int /\ S \cup {0} # {} /\ S \cup {0} \subseteq Nat
    BY <1>6
  <1>9. Most(S \cup {0}) \in Nat
    BY <1>7, <1>8, MostIs
  <1> QED
    BY <1>1, <1>4, <1>9 DEF NodeHostBase

\* So are the devices there are for a template.
LEMMA RoomIsNumber ==
  ASSUME NEW s, IsSpec(s), NEW t PROVE Room(s, t) \in Nat
  <1> DEFINE here == {e \in s.devices : e.node = t.node /\ e.hw = t.hw}
             f == [d \in here |-> d.count]
  <1>1. IsFiniteSet(s.devices) /\ \A d \in s.devices : d.count \in Nat
    BY DEF IsSpec
  <1>2. here \in SUBSET s.devices
    OBVIOUS
  <1>3. DOMAIN f = here /\ \A d \in here : f[d] \in Nat
    BY <1>1
  <1>4. Room(s, t) = SumFunction(f)
    BY DEF Room
  <1> HIDE DEF here, f
  <1>5. IsFiniteSet(here)
    BY <1>1, <1>2, FS_Subset
  <1> QED
    BY <1>3, <1>4, <1>5, SumIsNatural

\* What stage 1 may place is finite, and counts instances.
LEMMA AllocationsAre ==
  ASSUME NEW s, IsSpec(s)
  PROVE  /\ IsFiniteSet(Allocations(s))
         /\ \A n \in Allocations(s) : n \in [Templates(s) -> Nat]
         /\ \A n \in Allocations(s) : n \in Structural(s, Templates(s))
  <1>1. PICK T : T = Templates(s)
    OBVIOUS
  <1>2. IsFiniteSet(T)
    BY <1>1, TemplatesAre
  <1> DEFINE room == [t \in T |-> Room(s, t)]
             S == {room[t] : t \in T}
             M == Most(S \cup {0})
  <1>3. \A t \in T : room[t] \in Nat
    BY RoomIsNumber
  <1>4. {Room(s, t) : t \in T} = S
    OBVIOUS
  <1> HIDE DEF room
  <1>5. M \in Nat
    <2>1. IsFiniteSet(S)
      BY <1>2, ImageIsFinite
    <2>2. S \subseteq Nat
      BY <1>3
    <2> HIDE DEF S
    <2>3. IsFiniteSet(S \cup {0})
      BY <2>1, FS_AddElement
    <2>4. S \cup {0} \subseteq Int /\ S \cup {0} # {} /\ S \cup {0} \subseteq Nat
      BY <2>2
    <2> QED
      BY <2>3, <2>4, MostIs
  <1>6. Allocations(s) = Structural(s, T)
    BY <1>1 DEF Allocations
  <1>7. Structural(s, T) \in SUBSET [T -> 0..M]
    BY <1>4 DEF Structural
  <1> HIDE DEF M
  <1>8. IsFiniteSet([T -> 0..M])
    <2>1. PICK U : U = 0..M
      OBVIOUS
    <2>2. IsFiniteSet(U)
      BY <1>5, <2>1, FS_Interval
    <2> QED
      BY <1>2, <2>1, <2>2, FunctionsAreFinite
  <1>9. IsFiniteSet(Allocations(s))
    BY <1>6, <1>7, <1>8, FS_Subset
  <1>10. ASSUME NEW n \in Allocations(s) PROVE n \in [T -> Nat]
    <2>1. n \in [T -> 0..M]
      BY <1>6, <1>7
    <2>2. 0..M \subseteq Nat
      BY <1>5
    <2> QED
      BY <2>1, <2>2
  <1> QED
    BY <1>1, <1>6, <1>9, <1>10

\* Throughput, device and host power of an allocation are numbers.
LEMMA AllocationNumbers ==
  ASSUME NEW s, IsSpec(s), NEW n \in Allocations(s)
  PROVE  /\ ThrOf(s, n) \in Nat /\ DevicePower(n) \in Nat /\ HostPower(s, n) \in Nat
         /\ TotalPower(s, n) = DevicePower(n) + HostPower(s, n) /\ TotalPower(s, n) \in Nat
  <1>1. PICK T : T = Templates(s)
    OBVIOUS
  <1>2. IsFiniteSet(T) /\ n \in [T -> Nat] /\ \A t \in T : t.tp \in Nat
    BY <1>1, TemplatesAre, AllocationsAre
  <1>3. \A a, b \in Nat : a * b \in Nat
    OBVIOUS
  <1>4. ThrOf(s, n) \in Nat
    <2> DEFINE f == [t \in T |-> Throughput(s, t) * n[t]]
    <2>1. DOMAIN f = T /\ \A t \in T : f[t] \in Nat
      BY <1>1, <1>2, <1>3, ThroughputIsNumber
    <2>2. ThrOf(s, n) = SumFunction(f)
      BY <1>2 DEF ThrOf, Sum
    <2> HIDE DEF f
    <2> QED
      BY <1>2, <2>1, <2>2, SumIsNatural
  <1>5. DevicePower(n) \in Nat
    <2> DEFINE f == [t \in T |-> Power(t) * n[t]]
    <2>1. DOMAIN f = T /\ \A t \in T : f[t] \in Nat
      BY <1>2, <1>3, PowersAreNumbers DEF Power
    <2>2. DevicePower(n) = SumFunction(f)
      BY <1>2 DEF DevicePower, Sum
    <2> HIDE DEF f
    <2> QED
      BY <1>2, <2>1, <2>2, SumIsNatural
  <1>6. HostPower(s, n) \in Nat
    <2> DEFINE V == {u \in s.nodes : \E t \in DOMAIN n : t.node = u /\ n[t] > 0}
               f == [v \in V |-> NodeHostBase(s, v)]
    <2>1. DOMAIN f = V /\ \A v \in V : f[v] \in Nat
      BY HostIsNumber
    <2>2. HostPower(s, n) = SumFunction(f)
      BY DEF HostPower
    <2>3. V \in SUBSET s.nodes /\ IsFiniteSet(s.nodes)
      BY DEF IsSpec
    <2> HIDE DEF f, V
    <2>4. IsFiniteSet(V)
      BY <2>3, FS_Subset
    <2> QED
      BY <2>1, <2>2, <2>4, SumIsNatural
  <1> QED
    BY <1>4, <1>5, <1>6 DEF TotalPower

------------------------------------------------------------------------------
(* What the solver returns *)

\* The optima of the power-min model, and that there is one whenever the demand can be met.
LEMMA PowerMinIs ==
  ASSUME NEW s, IsSpec(s), NEW T, NEW floor, NEW n \in PowerMin(s, T, floor)
  PROVE  /\ n \in Allocations(s) /\ ThrOf(s, n) >= floor
         /\ \A m \in Allocations(s) :
              (\A t \in DOMAIN m \ T : m[t] = 0) /\ ThrOf(s, m) >= floor
                => TotalPower(s, n) <= TotalPower(s, m)
  <1>1. /\ n \in Allocations(s) /\ ThrOf(s, n) >= floor
        /\ \A m \in Allocations(s) :
             (\A t \in DOMAIN m \ T : m[t] = 0) /\ ThrOf(s, m) >= floor
               => -TotalPower(s, m) <= -TotalPower(s, n)
    BY DEF PowerMin, Best
  <1>2. \A m \in Allocations(s) : TotalPower(s, m) \in Nat
    BY AllocationNumbers
  <1> QED
    BY <1>1, <1>2

LEMMA PowerMinFinds ==
  ASSUME NEW s, IsSpec(s), NEW floor, PowerMin(s, Templates(s), floor) = {},
         NEW m \in Allocations(s)
  PROVE  ~(ThrOf(s, m) >= floor)
  <1> SUFFICES ASSUME ThrOf(s, m) >= floor PROVE FALSE
    OBVIOUS
  <1> DEFINE X == {n \in Allocations(s) : /\ \A t \in DOMAIN n \ Templates(s) : n[t] = 0
                                          /\ ThrOf(s, n) >= floor}
             watts == [n \in X |-> TotalPower(s, n)]
             W == {watts[n] : n \in X}
  <1>1. X \in SUBSET Allocations(s) /\ m \in X
    BY AllocationsAre
  <1>2. \A n \in X : watts[n] = TotalPower(s, n) /\ watts[n] \in Nat
    BY AllocationNumbers
  <1>3. PowerMin(s, Templates(s), floor) = {n \in X : \A k \in X : -TotalPower(s, k) <= -TotalPower(s, n)}
    BY DEF PowerMin, Best
  <1> HIDE DEF X, watts
  <1>4. IsFiniteSet(W)
    <2>1. IsFiniteSet(X)
      BY <1>1, AllocationsAre, FS_Subset
    <2> QED
      BY <2>1, ImageIsFinite
  <1>5. W \in SUBSET Int /\ W # {}
    BY <1>1, <1>2
  <1>6. PICK w \in W : \A x \in W : w <= x
    <2> HIDE DEF W
    <2> QED
      BY <1>4, <1>5, FiniteSetHasMin
  <1>7. PICK n \in X : w = watts[n]
    OBVIOUS
  <1>8. \A k \in X : -TotalPower(s, k) <= -TotalPower(s, n)
    <2> TAKE k \in X
    <2>1. watts[n] <= watts[k]
      BY <1>6, <1>7
    <2> QED
      BY <1>2, <2>1
  <1> QED
    BY <1>3, <1>7, <1>8

\* The anchors of the epsilon sweep.
LEMMA MaxThroughputIs ==
  ASSUME NEW s, NEW S, NEW n \in MaxThroughput(s, S)
  PROVE  n \in S /\ \A m \in S : ThrOf(s, m) <= ThrOf(s, n)
  BY DEF MaxThroughput, Best

LEMMA MinDevicePowerIs ==
  ASSUME NEW S, NEW n \in MinDevicePower(S) PROVE n \in S
  BY DEF MinDevicePower, Best

\* What clears the floor of the first level meets the demand; what exceeds the demand by
\* a thousandth of a unit clears the floor.
LEMMA FloorIs ==
  ASSUME NEW s, IsSpec(s), s.demand.toks \in Nat, NEW x \in Nat
  PROVE  /\ Floor(s, 0) \in Nat
         /\ x >= Floor(s, 0) => Unit(s) * x >= 1000 * s.demand.toks
         /\ Unit(s) * x >= 1000 * s.demand.toks + Unit(s) => x >= Floor(s, 0)
  <1>1. PICK b, k, d : b = Unit(s) /\ k = Floor(s, 0) /\ d = s.demand.toks
    OBVIOUS
  <1>2. b \in Nat \ {0} /\ d \in Nat
    BY <1>1, UnitIs
  <1>3. PICK a \in Nat : a = 1000 * d /\ a = 100 * d * (10 + 0)
    BY <1>2
  <1>4. k = Ceiling(a, b, 0)
    BY <1>1, <1>3 DEF Floor
  <1>5. k \in Nat /\ a <= b * k /\ b * k <= a + b
    BY <1>2, <1>4, CeilingIs
  <1>6. x >= k => b * x >= b * k
    BY <1>2, <1>5
  <1>7. b * x >= a + b => x >= k
    <2> SUFFICES ASSUME x + 1 <= k, b * x >= a + b PROVE FALSE
      BY <1>5
    <2>1. b * (x + 1) <= b * k
      BY <1>2, <1>5
    <2>2. b * (x + 1) = b * x + b
      BY <1>2
    <2>3. b * x \in Nat /\ b * k \in Nat
      BY <1>2, <1>5
    <2> QED
      BY <1>2, <1>5, <2>1, <2>2, <2>3
  <1>8. b * x \in Nat /\ b * k \in Nat
    BY <1>2, <1>5
  <1> QED
    BY <1>1, <1>3, <1>5, <1>6, <1>7, <1>8

LEMMA AtLeastOne ==
  ASSUME IsSpec(spec) PROVE TopK \in Nat \ {0} /\ Steps \in Nat \ {0}
  <1>1. \A x \in Int : Most({1, x}) \in Nat \ {0}
    <2> TAKE x \in Int
    <2>1. IsFiniteSet({1} \cup {x}) /\ {1} \cup {x} = {1, x}
      BY FS_Singleton, FS_AddElement
    <2>2. Most({1, x}) \in {1, x} /\ 1 <= Most({1, x})
      BY <2>1, MostIs
    <2> QED
      BY <2>2
  <1> QED
    BY <1>1 DEF IsSpec, TopK, Steps

\* A signature tells allocations apart.
LEMMA SignaturesDiffer ==
  ASSUME NEW T, NEW m \in [T -> Nat], NEW n \in [T -> Nat], Signature(m) = Signature(n)
  PROVE  m = n
  <1>1. ASSUME NEW t \in T PROVE m[t] = n[t]
    <2>1. m[t] > 0 => <<t, m[t]>> \in Signature(n)
      BY DEF Signature
    <2>2. n[t] > 0 => <<t, n[t]>> \in Signature(m)
      BY DEF Signature
    <2>3. m[t] > 0 => n[t] = m[t]
      BY <2>1 DEF Signature
    <2>4. n[t] > 0 => n[t] = m[t]
      BY <2>2 DEF Signature
    <2> QED
      BY <2>3, <2>4
  <1> QED
    BY <1>1

------------------------------------------------------------------------------
(* The list of allocations *)

\* The allocations that stage 1 may list.
Placed == {Allocation(n) : n \in Allocations(spec)}

Demanded(n) == ThrOf(spec, n) >= Floor(spec, 0)

\* In power-min mode: the first one draws least among those that clear the floor.
FirstDrawsLeast ==
  \E m \in Allocations(spec) :
    /\ Signature(m) = allocs[1].sig /\ Demanded(m)
    /\ \A n \in Allocations(spec) : Demanded(n) => TotalPower(spec, m) <= TotalPower(spec, n)

\* The ends of the epsilon sweep; its upper end has the most throughput.
SweepRange ==
  \E hi \in Allocations(spec), lo \in Allocations(spec) :
    /\ combos = {DevicePower(lo), DevicePower(hi)} /\ DevicePower(lo) < DevicePower(hi)
    /\ \A n \in Allocations(spec) : ThrOf(spec, n) <= ThrOf(spec, hi)

StageInv ==
  /\ main \notin {"idle", "killed"} \/ phase = "direct" => IsSpec(spec) /\ allocs \in Seq(Placed)
  /\ main \in {"start", "powerMin", "combos", "anchors", "sweep"} => report = "none"
  /\ main \in {"start", "anchors"} => level = 0 /\ allocs = <<>>
  /\ main = "powerMin" => level \in Nat /\ (level = 0 <=> allocs = <<>>)
  /\ main \in {"powerMin", "combos"} => IsPowerMin(spec)
  /\ main = "combos" => allocs # <<>>
  /\ main \in {"powerMin", "combos"} /\ allocs # <<>> => FirstDrawsLeast
  /\ main \in {"anchors", "sweep"} => ~IsPowerMin(spec)
  /\ main = "sweep" => level \in 0..(Steps - 1) /\ SweepRange
  /\ FirstIsOptimal /\ DiagnosisSound

\* Recording an allocation keeps the list, its first one included, and the allocation is in it.
LEMMA RecordIs ==
  ASSUME IsSpec(spec), allocs \in Seq(Placed), NEW n \in Allocations(spec)
  PROVE  /\ Record(n) \in Seq(Placed) /\ Record(n) # <<>>
         /\ allocs # <<>> => Record(n)[1] = allocs[1]
         /\ allocs = <<>> => Record(n)[1] = Allocation(n)
         /\ \E i \in DOMAIN Record(n) : Record(n)[i] = Allocation(n)
  <1>1. Allocation(n) \in Placed
    BY DEF Placed
  <1>2. CASE Signature(n) \in Sigs
    <2>1. PICK i \in DOMAIN allocs : allocs[i].sig = Signature(n)
      BY <1>2 DEF Sigs, ToSet
    <2>2. PICK m \in Allocations(spec) : allocs[i] = Allocation(m)
      BY <2>1 DEF Placed
    <2>3. Signature(m) = Signature(n)
      BY <2>1, <2>2 DEF Allocation
    <2>4. m = n
      BY <2>3, AllocationsAre, SignaturesDiffer
    <2> QED
      BY <1>2, <2>1, <2>2, <2>4 DEF Record
  <1>3. CASE Signature(n) \notin Sigs
    <2>1. Record(n) = Append(allocs, Allocation(n))
      BY <1>3 DEF Record
    <2>2. PICK P : P = Placed
      OBVIOUS
    <2>3. PICK a : a = Allocation(n)
      OBVIOUS
    <2>4. /\ Append(allocs, a) \in Seq(P) /\ Len(Append(allocs, a)) = Len(allocs) + 1
          /\ \A i \in 1..Len(allocs) : Append(allocs, a)[i] = allocs[i]
          /\ Append(allocs, a)[Len(allocs) + 1] = a
      BY <1>1, <2>2, <2>3, AppendProperties
    <2>5. Len(allocs) \in Nat /\ (allocs = <<>> <=> Len(allocs) = 0)
      BY <2>2, EmptySeq, LenProperties
    <2>6. DOMAIN Append(allocs, a) = 1..(Len(allocs) + 1)
      BY <2>4, LenProperties
    <2> QED
      BY <2>1, <2>2, <2>3, <2>4, <2>5, <2>6
  <1> QED
    BY <1>2, <1>3

------------------------------------------------------------------------------
(* The spec of a request *)

IsTopology(topo) ==
  /\ "devices" \in DOMAIN topo /\ IsFiniteSet(topo.devices)
  /\ \A d \in topo.devices : d.count \in Nat /\ topo.host[d.node] \in Nat \cup {None}

IsDegrees(hwTps) ==
  /\ IsFiniteSet(DOMAIN hwTps)
  /\ \A hw \in DOMAIN hwTps : IsFiniteSet(hwTps[hw]) /\ hwTps[hw] \subseteq Nat \ {0}

\* What is free of a registry is finite and counted, also without some of its hardware.
LEMMA AvailableIs ==
  ASSUME NEW f, IsFiniteSet(f) PROVE IsTopology(AvailableTopology(Registry, f))
  <1> DEFINE count(n, hw) == Cardinality({i \in f : i[1] = n.id /\ i[2] = hw})
             rec(n, d) == [node |-> n.id, hw |-> d.hw, count |-> count(n, d.hw), mem |-> d.mem]
             some(n) == {x \in n.devices : count(n, x.hw) > 0}
             mine == [n \in Registry.nodes |-> {rec(n, d) : d \in some(n)}]
             D == UNION {mine[n] : n \in Registry.nodes}
             topo == AvailableTopology(Registry, f)
  <1>1. ASSUME NEW n, NEW hw PROVE count(n, hw) \in Nat
    <2>1. {i \in f : i[1] = n.id /\ i[2] = hw} \in SUBSET f
      OBVIOUS
    <2> QED
      BY <2>1, FS_Subset, FS_CardinalityType
  <1>2. ASSUME NEW n \in Registry.nodes PROVE IsFiniteSet(mine[n])
    <2>1. IsFiniteSet(n.devices) /\ some(n) \in SUBSET n.devices
      BY RegistryAssumption
    <2> HIDE DEF some
    <2>2. IsFiniteSet(some(n))
      BY <2>1, FS_Subset
    <2> DEFINE g == [d \in some(n) |-> rec(n, d)]
    <2>3. mine[n] = {g[d] : d \in some(n)}
      OBVIOUS
    <2> HIDE DEF g, mine
    <2> QED
      BY <2>2, <2>3, ImageIsFinite
  <1>3. topo.devices = D
    <2>1. topo.devices = UNION {{rec(n, d) : d \in some(n)} : n \in Registry.nodes}
      BY DEF AvailableTopology
    <2>2. \A n \in Registry.nodes : mine[n] = {rec(n, d) : d \in some(n)}
      OBVIOUS
    <2> HIDE DEF rec, some, mine, topo
    <2> QED
      BY <2>1, <2>2
  <1>4. IsFiniteSet(D)
    <2> HIDE DEF mine
    <2> DEFINE M == {mine[n] : n \in Registry.nodes}
    <2>1. IsFiniteSet(M)
      BY RegistryAssumption, ImageIsFinite
    <2>2. \A x \in M : IsFiniteSet(x)
      BY <1>2
    <2> HIDE DEF M
    <2>3. IsFiniteSet(UNION M)
      BY <2>1, <2>2, FinitelyManyFinite
    <2> QED
      BY <2>3 DEF M
  <1>5. ASSUME NEW d \in D PROVE d.count \in Nat /\ topo.host[d.node] \in Nat \cup {None}
    <2>0. PICK n \in Registry.nodes : d \in mine[n]
      OBVIOUS
    <2>1. PICK x \in n.devices :
            d = rec(n, x)
      BY <2>0
    <2>2. d.count \in Nat
      <3>1. d.count = count(n, x.hw)
        BY <2>1
      <3> HIDE DEF count
      <3> QED
        BY <1>1, <3>1
    <2>3. topo.host[d.node] = (CHOOSE m \in Registry.nodes : m.id = d.node).host
      <3>1. topo.host = [v \in {e.node : e \in topo.devices} |-> (CHOOSE m \in Registry.nodes : m.id = v).host]
        BY DEF AvailableTopology
      <3> HIDE DEF topo, mine
      <3> QED
        BY <1>3, <3>1
    <2>4. (CHOOSE m \in Registry.nodes : m.id = d.node) \in Registry.nodes
      BY <2>1
    <2> QED
      BY <2>2, <2>3, <2>4, RegistryAssumption DEF Nothing, None
  <1>6. "devices" \in DOMAIN topo
    BY DEF AvailableTopology
  <1> QED
    BY <1>3, <1>4, <1>5, <1>6 DEF IsTopology

LEMMA WithoutIs ==
  ASSUME NEW topo, IsTopology(topo), NEW hws PROVE IsTopology(Without(topo, hws))
  <1>1. /\ Without(topo, hws).devices = {d \in topo.devices : d.hw \notin hws}
        /\ Without(topo, hws).host = topo.host /\ "devices" \in DOMAIN Without(topo, hws)
    BY DEF Without, IsTopology
  <1>2. Without(topo, hws).devices \in SUBSET topo.devices
    BY <1>1
  <1> QED
    BY <1>1, <1>2, FS_Subset DEF IsTopology

\* The degrees that a catalog, the preference and the restriction allow are positive numbers.
LEMMA CatalogIs ==
  ASSUME NEW b \in {"measured", "upstream", "legacy"}, NEW m PROVE IsDegrees(Catalog(b, m))
  <1>1. PICK K : K = Known[b]
    OBVIOUS
  <1>2. IsFiniteSet(K) /\ \A e \in K : e.tp \in Nat \ {0}
    BY <1>1, CatalogsAssumption DEF Known
  <1> DEFINE here == {e \in K : e.model = m}
             kind == [e \in here |-> e.hw]
             degree == [e \in here |-> e.tp]
  <1>3. IsFiniteSet(here)
    <2>1. here \in SUBSET K
      OBVIOUS
    <2> QED
      BY <1>2, <2>1, FS_Subset
  <1>4. DOMAIN Catalog(b, m) = {kind[e] : e \in here}
    BY <1>1 DEF Catalog
  <1>5. IsFiniteSet(DOMAIN Catalog(b, m))
    <2> HIDE DEF here, kind
    <2> QED
      BY <1>3, <1>4, ImageIsFinite
  <1>6. ASSUME NEW hw \in DOMAIN Catalog(b, m)
        PROVE  IsFiniteSet(Catalog(b, m)[hw]) /\ Catalog(b, m)[hw] \subseteq Nat \ {0}
    <2> DEFINE same == {x \in here : x.hw = hw}
    <2>1. Catalog(b, m)[hw] = {degree[e] : e \in same}
      BY <1>1, <1>4 DEF Catalog
    <2>2. same \in SUBSET here /\ \A e \in same : degree[e] \in Nat \ {0}
      BY <1>2
    <2> HIDE DEF here, degree, same
    <2>3. IsFiniteSet(same)
      BY <1>3, <2>2, FS_Subset
    <2>4. IsFiniteSet({degree[e] : e \in same})
      BY <2>3, ImageIsFinite
    <2> QED
      BY <2>1, <2>2, <2>4
  <1> QED
    BY <1>5, <1>6 DEF IsDegrees

LEMMA PreferredIs ==
  ASSUME NEW model, NEW hws, IsFiniteSet(hws) PROVE IsDegrees(Preferred(model, hws))
  <1> DEFINE rungs(hw) == {i \in DOMAIN Ladder : hw \in DOMAIN Catalog(Ladder[i], model)}
             D == {h \in hws : rungs(h) # {}}
             P == Preferred(model, hws)
  <1>1. P = [hw \in D |-> Catalog(Ladder[Least(rungs(hw))], model)[hw]]
    BY DEF Preferred
  <1>2. IsFiniteSet(DOMAIN P)
    <2>1. D \in SUBSET hws
      OBVIOUS
    <2> QED
      BY <1>1, <2>1, FS_Subset
  <1>3. ASSUME NEW hw \in D PROVE IsFiniteSet(P[hw]) /\ P[hw] \subseteq Nat \ {0}
    <2>1. DOMAIN Ladder = 1..3 /\ \A i \in 1..3 : Ladder[i] \in {"measured", "upstream", "legacy"}
      BY DEF Ladder
    <2>2. PICK i : i = Least(rungs(hw))
      OBVIOUS
    <2>3. i \in rungs(hw)
      <3>1. rungs(hw) \in SUBSET (1..3) /\ rungs(hw) # {}
        BY <2>1
      <3>2. PICK U : U = 1..3
        OBVIOUS
      <3>3. IsFiniteSet(U) /\ U \subseteq Int
        <4>1. U \subseteq Int
          BY <3>2
        <4>2. 1 \in Int /\ 3 \in Int
          OBVIOUS
        <4> HIDE DEF rungs
        <4>3. IsFiniteSet(U)
          BY ONLY <3>2, <4>2, FS_Interval
        <4> QED
          BY <4>1, <4>3
      <3> HIDE DEF rungs
      <3>4. IsFiniteSet(rungs(hw)) /\ rungs(hw) \subseteq Int
        BY <3>1, <3>2, <3>3, FS_Subset
      <3> QED
        BY <2>2, <3>1, <3>4, LeastIs
    <2>4. IsDegrees(Catalog(Ladder[i], model))
      BY <2>1, <2>3, CatalogIs
    <2> QED
      BY <1>1, <2>2, <2>3, <2>4 DEF IsDegrees
  <1> QED
    BY <1>1, <1>2, <1>3 DEF IsDegrees

LEMMA RestrictedIs ==
  ASSUME NEW hwTps, IsDegrees(hwTps), NEW b \in {"measured", "upstream", "legacy"}, NEW m
  PROVE  IsDegrees(Restricted(hwTps, b, m))
  <1>1. CASE Catalog(b, m) = <<>>
    BY <1>1 DEF Restricted
  <1>2. CASE Catalog(b, m) # <<>>
    <2>1. PICK C : C = Catalog(b, m)
      OBVIOUS
    <2>2. IsDegrees(C)
      BY <2>1, CatalogIs
    <2>3. Restricted(hwTps, b, m) = [hw \in DOMAIN C \cap DOMAIN hwTps |-> C[hw]]
      BY <1>2, <2>1 DEF Restricted
    <2>4. DOMAIN C \cap DOMAIN hwTps \in SUBSET DOMAIN hwTps
      OBVIOUS
    <2>5. IsFiniteSet(DOMAIN C \cap DOMAIN hwTps)
      BY <2>4, FS_Subset DEF IsDegrees
    <2> QED
      BY <2>2, <2>3, <2>5 DEF IsDegrees
  <1> QED
    BY <1>1, <1>2

\* The route names a backend.
LEMMA RouteIs ==
  ASSUME NEW hwTps, NEW r \in Requests, Route(hwTps, r).backend # "none"
  PROVE  Route(hwTps, r).backend \in {"measured", "upstream", "legacy"}
  BY RequestsAssumption DEF Route

\* The unit and the measured capacities are numbers.
LEMMA ProxyUnitIs ==
  ASSUME NEW r \in Requests PROVE ProxyUnit(r.model) = None \/ ProxyUnit(r.model) \in Nat \ {0}
  <1>1. CASE r.model.name \in ModelConfigs
    <2>1. PICK p : p = Params(r.model)
      OBVIOUS
    <2>2. p \in Nat \ {0}
      BY <1>1, <2>1, RequestsAssumption
    <2>3. PICK q : q = UnitTimesParams \div p
      OBVIOUS
    <2>4. q \in Nat /\ LeastUnit \in Nat \ {0}
      BY <2>2, <2>3, CatalogsAssumption
    <2>5. IsFiniteSet({LeastUnit} \cup {q}) /\ {LeastUnit} \cup {q} = {LeastUnit, q}
      BY FS_Singleton, FS_AddElement
    <2>6. Most({LeastUnit, q}) \in {LeastUnit, q} /\ LeastUnit <= Most({LeastUnit, q})
      BY <2>4, <2>5, MostIs
    <2> QED
      BY <1>1, <2>1, <2>3, <2>4, <2>6 DEF ProxyUnit
  <1> QED
    BY <1>1 DEF ProxyUnit

LEMMA CapacityIs ==
  ASSUME NEW m, NEW hwTps, NEW c \in MeasuredCapacity(m, hwTps) PROVE c.rate \in Nat
  <1>1. PICK o \in Oracles : o.rates # {} /\ c.rate = Most(o.rates)
    BY DEF MeasuredCapacity
  <1>2. o.rates \subseteq Nat /\ o.rates \subseteq Int /\ IsFiniteSet(o.rates)
    BY CatalogsAssumption
  <1> QED
    BY <1>1, <1>2, MostIs

\* The spec that a request is planned with has its types.
LEMMA ServeSpecIs ==
  ASSUME NEW r \in Requests, NEW topo, IsTopology(topo), NEW hwTps, IsDegrees(hwTps), NEW b, NEW toks \in Nat
  PROVE  IsSpec(ServeSpec(r, topo, hwTps, b, toks))
  <1> DEFINE s == ServeSpec(r, topo, hwTps, b, toks)
             nodeOf == [d \in topo.devices |-> d.node]
  <1>0. PICK o : o = [metric |-> "power", dir |-> "min", weight |-> 1]
    OBVIOUS
  <1>p. PICK p : p = ProxyUnit(r.model)
    OBVIOUS
  <1>e. PICK none : none = ""
    OBVIOUS
  <1>1. /\ s.nodes = {d.node : d \in topo.devices} /\ s.host = topo.host /\ s.devices = topo.devices
        /\ s.tps = UNION {hwTps[hw] : hw \in DOMAIN hwTps}
        /\ s.capacity = MeasuredCapacity(r.model.name, hwTps) /\ s.topK = 4 /\ s.steps = 3
    BY DEF ServeSpec
  <1>1a. s.demand = [toks |-> toks, req |-> None, preset |-> none, lengths |-> <<>>,
                       unit |-> p, tolerance |-> 10, maxQueue |-> 3]
    BY <1>p, <1>e DEF ServeSpec
  <1>1b. s.objectives = <<o>>
    BY <1>0 DEF ServeSpec
  <1> HIDE DEF s
  <1>2. IsFiniteSet(s.nodes) /\ \A v \in s.nodes : s.host[v] \in Nat \cup {None}
    <2>1. s.nodes = {nodeOf[d] : d \in topo.devices}
      BY <1>1
    <2>2. IsFiniteSet({nodeOf[d] : d \in topo.devices})
      <3> HIDE DEF nodeOf
      <3> QED
        BY ImageIsFinite DEF IsTopology
    <2> QED
      BY <1>1, <2>1, <2>2 DEF IsTopology
  <1>3. IsFiniteSet(s.devices) /\ \A d \in s.devices : d.node \in s.nodes /\ d.count \in Nat
    BY <1>1 DEF IsTopology
  <1>4. IsFiniteSet(s.tps) /\ s.tps \subseteq Nat \ {0}
    <2> DEFINE S == {hwTps[hw] : hw \in DOMAIN hwTps}
    <2>1. IsFiniteSet(S) /\ \A x \in S : IsFiniteSet(x) /\ x \subseteq Nat \ {0}
      <3>1. PICK D : D = DOMAIN hwTps
        OBVIOUS
      <3>2. IsFiniteSet({hwTps[hw] : hw \in D})
        BY <3>1, ImageIsFinite DEF IsDegrees
      <3> QED
        BY <3>1, <3>2 DEF IsDegrees
    <2>2. s.tps = UNION S
      BY <1>1
    <2> HIDE DEF S
    <2>3. IsFiniteSet(UNION S)
      BY <2>1, FinitelyManyFinite
    <2> QED
      BY <2>1, <2>2, <2>3
  <1>5. \A c \in s.capacity : c.rate \in Nat
    BY <1>1, CapacityIs
  <1>6. /\ s.demand.unit = None \/ s.demand.unit \in Nat \ {0}
        /\ s.demand.toks \in Nat \cup {None}
        /\ s.demand # <<>> /\ s.demand.toks # None
    <2>1. s.demand.unit = p /\ s.demand.toks = toks
      BY <1>1a
    <2>2. "toks" \in DOMAIN s.demand /\ "toks" \notin DOMAIN <<>>
      BY <1>1a
    <2> QED
      BY <1>p, <2>1, <2>2, ProxyUnitIs DEF None
  <1>7. s.objectives \in Seq(ToSet(s.objectives)) /\ \A x \in ToSet(s.objectives) : x = o
    <2>1. DOMAIN s.objectives = 1..1 /\ s.objectives[1] = o /\ Len(s.objectives) = 1
      BY <1>1b
    <2>2. ToSet(s.objectives) = {o}
      BY <2>1 DEF ToSet
    <2>3. <<o>> \in Seq({o})
      OBVIOUS
    <2> QED
      BY <1>1b, <2>2, <2>3
  <1>8. o.metric \in {"thr", "perWh", "power"} /\ o.weight \in Int
    BY <1>0
  <1>9. IsSpec(s)
    BY <1>1, <1>2, <1>3, <1>4, <1>5, <1>6, <1>7, <1>8 DEF IsSpec
  <1> QED
    BY <1>9 DEF s

\* A trace generates tokens at some rate, if it can be synthesized.
LEMMA RatesAre ==
  ASSUME NEW r \in Requests, NEW g \in RatesOf(r.scale) PROVE g \in Nat \cup {None}
  <1>1. PICK d : d = r.scale.duration
    OBVIOUS
  <1>2. d \in Nat \ {0}
    BY <1>1, RequestsAssumption
  <1>3. ASSUME r.scale.preset \in DOMAIN Presets, NEW t \in Traces(r.scale)
        PROVE  Rates(r.scale, t).generated \in Nat
    <2>1. PICK p : p = Presets[r.scale.preset].output
      OBVIOUS
    <2>2. PICK at \in ArrivalTimes(r.scale), in \in Lengths(Presets[r.scale.preset].input), out \in Lengths(p) :
            t = [i \in DOMAIN at |-> [input |-> in, output |-> out, arrival |-> at[i]]]
      BY <2>1 DEF Traces
    <2>3. out \in Nat
      <3>1. p.cap \in Nat
        BY <1>3, <2>1, PresetsAssumption
      <3>2. Draws \subseteq Nat
        BY PresetsAssumption
      <3>3. PICK n \in Draws : out = IF n < 1 THEN 1 ELSE IF n > p.cap THEN p.cap ELSE n
        BY <2>2 DEF Lengths
      <3>4. n \in Nat
        BY <3>2
      <3> QED
        BY <3>1, <3>3, <3>4
    <2>4. IsFiniteSet(DOMAIN at)
      <3>1. PICK S \in SUBSET (0..(d - 1)) : at = Ascending(S)
        BY <1>1, <2>2 DEF ArrivalTimes
      <3>2. IsFiniteSet(S)
        <4>1. PICK U : U = 0..(d - 1)
          OBVIOUS
        <4>2. 0 \in Int /\ d - 1 \in Int
          BY <1>2
        <4>3. IsFiniteSet(U)
          BY <4>1, <4>2, FS_Interval
        <4> QED
          BY <3>1, <4>1, <4>3, FS_Subset
      <3>3. PICK n \in Nat : n = Cardinality(S)
        BY <3>2, FS_CardinalityType
      <3>4. DOMAIN at = 1..n
        <4>1. PICK before : before = [x \in S |-> Cardinality({y \in S : y < x})]
          OBVIOUS
        <4>2. at = Listed(before) /\ DOMAIN before = S
          BY <3>1, <4>1 DEF Ascending
        <4> QED
          BY <3>3, <4>2 DEF Listed
      <3>5. PICK U : U = 1..n
        OBVIOUS
      <3>6. 1 \in Int /\ n \in Int
        OBVIOUS
      <3>7. IsFiniteSet(U)
        BY ONLY <3>5, <3>6, FS_Interval
      <3> QED
        BY <3>4, <3>5, <3>7
    <2> DEFINE f == [i \in DOMAIN t |-> t[i]["output"]]
    <2>5. DOMAIN f = DOMAIN at /\ \A i \in DOMAIN f : f[i] \in Nat
      BY <2>2, <2>3
    <2>6. Rates(r.scale, t).generated = SumFunction(f) \div d
      BY <1>1 DEF Rates
    <2> HIDE DEF f
    <2>7. SumFunction(f) \in Nat
      BY <2>4, <2>5, SumIsNatural
    <2> QED
      BY <1>2, <2>6, <2>7
  <1> QED
    BY <1>3 DEF RatesOf

------------------------------------------------------------------------------
(* What is given *)

GivenInv ==
  /\ generated \in Nat \cup {None} /\ IsFiniteSet(free) /\ free \subseteq DeviceIds(Registry)
  /\ phase = "direct" \/ request \in Requests

\* A registry has finitely many devices.
LEMMA DeviceIdsAreFinite == IsFiniteSet(DeviceIds(Registry))
  <1> DEFINE idOf(n) == [d \in n.devices |-> d.id]
             ids == [n \in Registry.nodes |-> {idOf(n)[d] : d \in n.devices}]
             M == {ids[n] : n \in Registry.nodes}
  <1>1. \A n \in Registry.nodes : IsFiniteSet(ids[n])
    <2> TAKE n \in Registry.nodes
    <2> DEFINE f == idOf(n)
    <2>1. ids[n] = {f[d] : d \in n.devices}
      OBVIOUS
    <2> HIDE DEF f
    <2>2. PICK D : D = n.devices
      OBVIOUS
    <2>3. IsFiniteSet(D)
      BY <2>2, RegistryAssumption
    <2>4. IsFiniteSet({f[d] : d \in D})
      BY <2>3, ImageIsFinite
    <2> QED
      BY <2>1, <2>2, <2>4
  <1>2. DeviceIds(Registry) = UNION M
    <2>1. \A n \in Registry.nodes : ids[n] = {d.id : d \in n.devices}
      OBVIOUS
    <2> HIDE DEF ids
    <2> QED
      BY <2>1 DEF DeviceIds
  <1> HIDE DEF ids
  <1>3. IsFiniteSet(M)
    BY RegistryAssumption, ImageIsFinite
  <1>4. \A x \in M : IsFiniteSet(x)
    BY <1>1
  <1> HIDE DEF M
  <1> QED
    BY <1>2, <1>3, <1>4, FinitelyManyFinite

\* What is given stays what it is, but for the ledger.
LEMMA GivenInit == ServeInit => GivenInv
  <1> SUFFICES ASSUME ServeInit PROVE GivenInv
    OBVIOUS
  <1>1. IsFiniteSet(free) /\ free \subseteq DeviceIds(Registry)
    BY DeviceIdsAreFinite DEF ServeInit
  <1>2. generated \in Nat \cup {None} /\ (phase = "direct" \/ request \in Requests)
    <2>1. CASE request \in Requests /\ generated \in RatesOf(request.scale)
      BY <2>1, RatesAre
    <2>2. CASE generated = None /\ phase = "direct"
      BY <2>2
    <2> QED
      BY <2>1, <2>2 DEF ServeInit
  <1> QED
    BY <1>1, <1>2 DEF GivenInv

LEMMA GivenStep == ASSUME GivenInv, [ServeNext]_serveVars PROVE GivenInv'
  <1>1. CASE Move
    <2>1. PICK d : d \in Contested /\ free' = SymDiff(free, {d})
      BY <1>1 DEF Move
    <2>2. free' \in SUBSET (free \cup {d})
      BY <2>1 DEF SymDiff
    <2>3. IsFiniteSet(free \cup {d})
      BY FS_AddElement DEF GivenInv
    <2>4. IsFiniteSet(free') /\ free' \subseteq DeviceIds(Registry)
      BY <2>1, <2>2, <2>3, FS_Subset, RegistryAssumption DEF GivenInv
    <2> QED
      BY <1>1, <2>4 DEF Move, GivenInv
  <1>2. CASE ~Move
    <2>1. UNCHANGED <<generated, free, request>>
      BY <1>2 DEF ServeNext, Serve, Plan, Answer, Failed, Engine, Server, Again, Die, Replan, serveVars, planVars
    <2>2. phase' = phase \/ (phase # "direct" /\ phase' # "direct")
      <3>1. CASE Plan
        BY <3>1 DEF Plan, Refuse, Fail, Routed, Begin
      <3>2. CASE Answer
        BY <3>2 DEF Answer, Fail
      <3>3. CASE Failed
        BY <3>3 DEF Failed, Fail
      <3>4. CASE Replan
        BY <3>4 DEF Replan
      <3>5. CASE Engine \/ Server \/ Again \/ Die \/ UNCHANGED serveVars
        BY <3>5 DEF Engine, Server, Again, Die, serveVars, planVars
      <3> QED
        BY <1>2, <3>1, <3>2, <3>3, <3>4, <3>5 DEF ServeNext, Serve
    <2> QED
      BY <2>1, <2>2 DEF GivenInv
  <1> QED
    BY <1>1, <1>2

------------------------------------------------------------------------------
(* The cap of the epsilon sweep *)

\* a/b to the nearest whole number, one half to the even one.
ToEven(a, b) ==
  IF 2 * (a % b) = b THEN (a \div b) + ((a \div b) % 2) ELSE (2 * a + b) \div (2 * b)

\* The positions that the cap keeps: they are positions of the list, the first one among them.
LEMMA ToEvenIs ==
  ASSUME NEW N \in Nat, NEW b \in Nat \ {0}, NEW a \in Nat, a <= b * N
  PROVE  ToEven(a, b) \in 0..N
  <1>1. PICK q, r : q = a \div b /\ r = a % b
    OBVIOUS
  <1>2. q \in Nat /\ r \in Nat /\ r < b /\ a = b * q + r
    BY <1>1
  <1>3. q <= N
    <2> SUFFICES ASSUME N + 1 <= q PROVE FALSE
      BY <1>2
    <2>1. b * (N + 1) <= b * q
      BY <1>2, ProductsMonotone
    <2>2. b * (N + 1) = b * N + b
      OBVIOUS
    <2> QED
      BY <1>2, <2>1, <2>2
  <1>4. CASE 2 * r = b
    <2>1. r > 0
      BY <1>2, <1>4
    <2>2. q # N
      BY <1>2, <2>1
    <2>3. q % 2 \in 0..1
      BY <1>2
    <2>4. ToEven(a, b) = q + (q % 2)
      BY <1>1, <1>4 DEF ToEven
    <2> QED
      BY <1>2, <1>3, <2>2, <2>3, <2>4
  <1>5. CASE 2 * r # b
    <2>1. PICK z : z = (2 * a + b) \div (2 * b)
      OBVIOUS
    <2>2. PICK c, d : c = 2 * b /\ d = 2 * a + b
      OBVIOUS
    <2>3. c \in Nat /\ c > 0 /\ d \in Nat
      BY <2>2
    <2>4. z \in Nat /\ c * z <= d
      BY <2>1, <2>2, <2>3
    <2>5. z <= N
      <3> SUFFICES ASSUME N + 1 <= z PROVE FALSE
        BY <2>4
      <3>1. c * (N + 1) <= c * z
        BY <2>3, <2>4, ProductsMonotone
      <3>2. c * (N + 1) = 2 * (b * N) + 2 * b
        BY <2>2
      <3>3. d <= 2 * (b * N) + b
        BY <2>2
      <3> QED
        BY <2>2, <2>3, <2>4, <3>1, <3>2, <3>3
    <2>6. ToEven(a, b) = z
      BY <1>1, <1>5, <2>1 DEF ToEven
    <2> QED
      BY <2>4, <2>5, <2>6
  <1> QED
    BY <1>4, <1>5

LEMMA SampleIs ==
  ASSUME NEW k \in Nat \ {0}, NEW n \in Nat \ {0}
  PROVE  Sample(n, k) \in SUBSET (0..(n - 1)) /\ 0 \in Sample(n, k)
  <1>1. CASE k = 1
    BY <1>1 DEF Sample
  <1>2. CASE k # 1
    <2>1. PICK b, N : b = k - 1 /\ N = n - 1
      OBVIOUS
    <2>2. b \in Nat \ {0} /\ N \in Nat
      BY <1>2, <2>1
    <2>3. Sample(n, k) = {ToEven(i * N, b) : i \in 0..b}
      BY <1>2, <2>1 DEF Sample, ToEven
    <2>4. \A i \in 0..b : ToEven(i * N, b) \in 0..N
      <3> TAKE i \in 0..b
      <3>1. i * N \in Nat /\ i * N <= b * N
        BY <2>2, ProductsMonotone
      <3> QED
        BY <2>2, <3>1, ToEvenIs
    <2>5. ToEven(0 * N, b) = 0
      <3>1. 0 * N = 0 /\ 0 % b = 0 /\ 2 * 0 # b
        BY <2>2
      <3>2. (2 * 0 + b) \div (2 * b) = 0
        BY <2>2
      <3> QED
        BY <3>1, <3>2 DEF ToEven
    <2>6. 0 \in 0..b
      BY <2>2
    <2> QED
      BY <2>1, <2>3, <2>4, <2>5, <2>6
  <1> QED
    BY <1>1, <1>2

\* So the cap keeps the allocation of most throughput, and as the first one.
LEMMA CappedIs ==
  ASSUME NEW P, \A a \in P : a.thr \in Int, NEW seq \in Seq(P), seq # <<>>, NEW k \in Nat \ {0}
  PROVE  /\ Capped(seq, k) \in Seq(P) /\ Capped(seq, k) # <<>>
         /\ \A i \in DOMAIN seq : seq[i].thr <= Capped(seq, k)[1].thr
  <1>1. PICK n \in Nat : n = Len(seq)
    BY LenProperties
  <1>2. DOMAIN seq = 1..n /\ n >= 1 /\ \A i \in 1..n : seq[i] \in P
    BY <1>1, EmptySeq, LenProperties, ElementOfSeq
  <1>3. PICK key : key = [i \in DOMAIN seq |-> -seq[i].thr]
    OBVIOUS
  <1>4. key \in [1..n -> Int] /\ \A i \in 1..n : key[i] = -seq[i].thr
    BY <1>2, <1>3
  <1>5. PICK o : o = Order(key)
    OBVIOUS
  <1>6. /\ o \in [1..n -> 1..n] /\ \A i \in 1..n : \E j \in 1..n : o[j] = i
        /\ \A i, j \in 1..n : i < j => key[o[i]] <= key[o[j]]
    <2>1. key \in [1..n -> Int]
      BY <1>4
    <2>2. Sorts(o, n, key)
      BY <1>5, <2>1, OrderSorts
    <2> QED
      BY <2>2 DEF Sorts, Lists
  <1>7. PICK ranked : ranked = SortedBy(seq, key)
    OBVIOUS
  <1>8. ranked = [i \in 1..n |-> seq[o[i]]]
    BY <1>2, <1>5, <1>7 DEF SortedBy
  <1>9. ranked \in [1..n -> P]
    BY <1>2, <1>6, <1>8
  <1>10. ASSUME NEW i \in 1..n PROVE seq[i].thr <= ranked[1].thr
    <2>1. PICK j \in 1..n : o[j] = i
      BY <1>6
    <2>2. 1 \in 1..n /\ o[1] \in 1..n
      BY <1>2, <1>6
    <2>3. key[o[1]] <= key[i]
      <3>1. CASE j = 1
        BY <1>4, <2>1, <2>2, <3>1
      <3>2. CASE j # 1
        <4>1. 1 < j
          BY <3>2
        <4> QED
          BY <1>6, <2>1, <2>2, <4>1
      <3> QED
        BY <3>1, <3>2
    <2>4. ranked[1] = seq[o[1]]
      BY <1>8, <2>2
    <2>5. seq[i].thr \in Int /\ seq[o[1]].thr \in Int
      BY <1>2, <2>2
    <2>6. key[o[1]] = -seq[o[1]].thr /\ key[i] = -seq[i].thr
      BY <1>4, <2>2
    <2>7. PICK a, b \in Int : a = seq[i].thr /\ b = seq[o[1]].thr
      BY <2>5
    <2>8. -b <= -a
      BY <2>3, <2>6, <2>7
    <2> QED
      BY <2>4, <2>7, <2>8
  <1>11. CASE n <= k
    <2>1. Capped(seq, k) = ranked
      BY <1>1, <1>3, <1>7, <1>11 DEF Capped
    <2>2. ranked \in Seq(P) /\ ranked # <<>>
      BY <1>2, <1>9
    <2> QED
      BY <1>2, <1>10, <2>1, <2>2
  <1>12. CASE ~(n <= k)
    <2>1. PICK S : S = Sample(n, k)
      OBVIOUS
    <2>2. S \in SUBSET (0..(n - 1)) /\ 0 \in S
      BY <1>2, <2>1, SampleIs
    <2>3. IsFiniteSet(S)
      <3>1. PICK U : U = 0..(n - 1)
        OBVIOUS
      <3>2. 0 \in Int /\ n - 1 \in Int
        OBVIOUS
      <3>3. IsFiniteSet(U)
        BY ONLY <3>1, <3>2, FS_Interval
      <3> QED
        BY <2>2, <3>1, <3>3, FS_Subset
    <2>4. PICK m \in Nat : m = Cardinality(S)
      BY <2>3, FS_CardinalityType
    <2>5. S \subseteq Int
      BY <2>2
    <2>6. PICK js : js = Ascending(S)
      OBVIOUS
    <2>7. /\ js \in [1..m -> S] /\ \A x \in S : \E i \in 1..m : js[i] = x
          /\ \A i, j \in 1..m : i < j => js[i] < js[j]
      <3>1. Ascends(js, m, S)
        BY <2>3, <2>4, <2>5, <2>6, AscendingSorts
      <3> QED
        BY <3>1 DEF Ascends, Lists
    <2>8. Capped(seq, k) = [i \in 1..m |-> ranked[js[i] + 1]]
      <3>1. DOMAIN js = 1..m
        BY <2>7
      <3> QED
        BY <1>1, <1>3, <1>7, <1>12, <2>1, <2>6, <3>1 DEF Capped
    <2>9. \A i \in 1..m : js[i] + 1 \in 1..n /\ js[i] \in Nat
      <3>1. \A x \in S : x + 1 \in 1..n /\ x \in Nat
        BY <2>2
      <3>2. \A i \in 1..m : js[i] \in S
        BY <2>7
      <3> QED
        BY <3>1, <3>2
    <2>10. 1 \in 1..m /\ js[1] = 0
      <3>1. PICK i \in 1..m : js[i] = 0
        BY <2>2, <2>7
      <3>2. 1 \in 1..m
        OBVIOUS
      <3>3. js[1] >= 0 /\ js[1] \in Int
        BY <2>9, <3>2
      <3>4. i = 1
        BY <2>7, <3>1, <3>2, <3>3
      <3> QED
        BY <3>1, <3>2, <3>4
    <2>11. \A i \in 1..m : ranked[js[i] + 1] \in P
      BY <1>9, <2>9
    <2>12. Capped(seq, k) \in Seq(P)
      BY <2>8, <2>11
    <2>13. Capped(seq, k)[1] = ranked[1] /\ Capped(seq, k) # <<>>
      BY <2>8, <2>10
    <2> QED
      BY <1>2, <1>10, <2>12, <2>13
  <1> QED
    BY <1>11, <1>12

------------------------------------------------------------------------------
(* Stage 1, step by step *)

\* Nothing of stage 1 changes, and it is not entered.
LEMMA StageStays ==
  ASSUME StageInv, UNCHANGED <<spec, level, combos, allocs>>, phase' = "direct" <=> phase = "direct",
         \/ main' = main /\ report' = report
         \/ main' \in {"pool", "report", "finish", "ended"} /\ main \notin {"idle", "killed"}
         \/ main' = "killed"
  PROVE  StageInv'
  <1>1. spec' = spec /\ allocs' = allocs /\ level' = level /\ combos' = combos
    OBVIOUS
  <1>2. Placed' = Placed /\ (IsSpec(spec) <=> IsSpec(spec)')
    BY <1>1 DEF Placed, Allocation
  <1>3. CASE main' = main /\ report' = report
    <2>1. (FirstDrawsLeast <=> FirstDrawsLeast') /\ (SweepRange <=> SweepRange')
      BY <1>1 DEF FirstDrawsLeast, SweepRange, Demanded
    <2>2. (FirstIsOptimal <=> FirstIsOptimal') /\ (DiagnosisSound <=> DiagnosisSound') /\ Steps' = Steps
      BY <1>1, <1>3 DEF FirstIsOptimal, DiagnosisSound, Ample, Steps
    <2> QED
      BY <1>1, <1>2, <1>3, <2>1, <2>2 DEF StageInv
  <1>4. CASE ~(main' = main /\ report' = report)
    <2>1. main' \in {"pool", "report", "finish", "ended", "killed"}
      BY <1>4
    <2>2. main' \notin {"idle", "killed"} \/ phase' = "direct" => IsSpec(spec)' /\ allocs' \in Seq(Placed')
      BY <1>1, <1>2, <1>4 DEF StageInv
    <2>3. FirstIsOptimal' /\ DiagnosisSound'
      BY <2>1 DEF FirstIsOptimal, DiagnosisSound
    <2> QED
      BY <2>1, <2>2, <2>3 DEF StageInv
  <1> QED
    BY <1>3, <1>4

\* A run begins.
LEMMA StageBegins ==
  ASSUME IsSpec(spec'), main' = "start", level' = 0, allocs' = <<>>, report' = "none"
  PROVE  StageInv'
  <1>1. <<>> \in Seq(Placed')
    OBVIOUS
  <1> QED
    BY <1>1 DEF StageInv, FirstIsOptimal, DiagnosisSound

\* Without templates there are no allocations: one has an instance.
LEMMA NothingPlaced ==
  ASSUME NEW s, Templates(s) = {} PROVE Allocations(s) = {}
  BY DEF Allocations, Structural

\* In power-min mode there is a demand.
LEMMA DemandIs ==
  ASSUME IsSpec(spec), IsPowerMin(spec) PROVE spec.demand.toks \in Nat
  BY DEF IsSpec, None

\* What clears the floor meets the demand, and what exceeds the demand by the rounding
\* clears the floor.
LEMMA FloorsAre ==
  ASSUME IsSpec(spec), IsPowerMin(spec), NEW n \in Allocations(spec)
  PROVE  /\ Demanded(n) => Meets(spec, n)
         /\ Ample(n) => Demanded(n)
  <1>1. ThrOf(spec, n) \in Nat /\ spec.demand.toks \in Nat
    BY AllocationNumbers, DemandIs
  <1> QED
    BY <1>1, FloorIs DEF Demanded, Meets, Ample

\* The verdict on what the structural constraints allow, when none of it clears the floor.
LEMMA DiagnosisIsSound ==
  ASSUME IsSpec(spec), IsPowerMin(spec), NEW S, S = Allocations(spec),
         \A n \in S : ~Demanded(n),
         main' = "solved", report' = Diagnosis(spec, S), allocs' = <<>>, spec' = spec
  PROVE  DiagnosisSound'
  <1>1. report' \in {"memory", "structure", "demand", "links", "availability"}
    BY DEF Diagnosis
  <1>2. \A n \in Allocations(spec') : ~(Unit(spec') * ThrOf(spec', n) >= 1000 * spec'.demand.toks + Unit(spec'))
    <2>1. \A n \in Allocations(spec) : ~Ample(n)
      BY FloorsAre
    <2> QED
      BY <2>1 DEF Ample
  <1>3. report' = "demand" => Allocations(spec) # {} /\ \A n \in Allocations(spec) : ~Meets(spec, n)
    BY DEF Diagnosis
  <1>4. report' = "structure" => \E n \in Allocations(spec) : Meets(spec, n)
    BY DEF Diagnosis
  <1>5. report' \in {"memory", "links", "availability"} => Allocations(spec) = {}
    BY NothingPlaced DEF Diagnosis
  <1>6. IsPowerMin(spec') /\ allocs' = <<>> /\ report' # "none"
    BY <1>1
  <1> QED
    BY <1>2, <1>3, <1>4, <1>5, <1>6 DEF DiagnosisSound, Ample

\* Without a report nothing is claimed, unless the run is in power-min mode and empty-handed.
LEMMA NoReport ==
  ASSUME report' = "none", main' # "solved" \/ ~IsPowerMin(spec') \/ allocs' # <<>>
  PROVE  DiagnosisSound'
  BY DEF DiagnosisSound

\* The beginning of the sweep.
LEMMA StageStart ==
  ASSUME StageInv, StartSweep, UNCHANGED planVars PROVE StageInv'
  <1>1. /\ IsSpec(spec) /\ allocs = <<>> /\ level = 0 /\ report = "none"
        /\ spec' = spec /\ allocs' = allocs /\ level' = level
    BY DEF StageInv, StartSweep
  <1>2. IsSpec(spec') /\ <<>> \in Seq(Placed')
    BY <1>1
  <1>3. CASE Templates(spec) = {}
    <2>1. main' = "solved" /\ report' = IF IsPowerMin(spec) THEN Diagnosis(spec, {}) ELSE "none"
      BY <1>3 DEF StartSweep, SpecTemplates
    <2>2. DiagnosisSound'
      <3>1. CASE IsPowerMin(spec)
        <4>1. PICK A : A = Allocations(spec) /\ A = {}
          BY <1>3, NothingPlaced
        <4> QED
          BY <1>1, <1>3, <2>1, <3>1, <4>1, DiagnosisIsSound
      <3>2. CASE ~IsPowerMin(spec)
        BY <1>1, <2>1, <3>2, NoReport
      <3> QED
        BY <3>1, <3>2
    <2> QED
      BY <1>1, <1>2, <2>1, <2>2 DEF StageInv, FirstIsOptimal
  <1>4. CASE Templates(spec) # {}
    <2>1. /\ main' = (IF IsPowerMin(spec) THEN "powerMin" ELSE "anchors") /\ report' = "none"
      BY <1>1, <1>4 DEF StartSweep, SpecTemplates
    <2>2. DiagnosisSound' /\ FirstIsOptimal' /\ (IsPowerMin(spec') <=> IsPowerMin(spec))
      BY <1>1, <2>1, NoReport DEF FirstIsOptimal
    <2> QED
      BY <1>1, <1>2, <2>1, <2>2 DEF StageInv
  <1> QED
    BY <1>3, <1>4

\* In power-min mode the first stays the first.
LEMMA RecordKeepsFirst ==
  ASSUME IsSpec(spec), allocs \in Seq(Placed), allocs # <<>>, FirstDrawsLeast,
         NEW n \in Allocations(spec), allocs' = Record(n), spec' = spec
  PROVE  allocs' # <<>> /\ FirstDrawsLeast'
  <1>1. allocs' # <<>> /\ allocs'[1] = allocs[1]
    BY RecordIs
  <1> QED
    BY <1>1 DEF FirstDrawsLeast, Demanded

\* The first is the solver's optimum without headroom.
LEMMA RecordFirst ==
  ASSUME IsSpec(spec), IsPowerMin(spec), allocs = <<>>,
         NEW n \in PowerMin(spec, Templates(spec), Floor(spec, 0)), allocs' = Record(n), spec' = spec
  PROVE  allocs' # <<>> /\ FirstDrawsLeast'
  <1>0. allocs \in Seq(Placed)
    OBVIOUS
  <1>2. /\ n \in Allocations(spec) /\ Demanded(n)
        /\ \A m \in Allocations(spec) :
             (\A t \in DOMAIN m \ Templates(spec) : m[t] = 0) /\ Demanded(m)
               => TotalPower(spec, n) <= TotalPower(spec, m)
    BY PowerMinIs DEF Demanded
  <1>3. \A m \in Allocations(spec) : DOMAIN m = Templates(spec)
    BY AllocationsAre
  <1>4. \A m \in Allocations(spec) : Demanded(m) => TotalPower(spec, n) <= TotalPower(spec, m)
    BY <1>2, <1>3
  <1>5. allocs' # <<>> /\ allocs'[1].sig = Signature(n)
    <2>1. Record(n) # <<>> /\ Record(n)[1] = Allocation(n)
      BY <1>0, <1>2, RecordIs
    <2> QED
      BY <2>1 DEF Allocation
  <1>6. \E m \in Allocations(spec') :
          /\ Signature(m) = allocs'[1].sig /\ ThrOf(spec', m) >= Floor(spec', 0)
          /\ \A k \in Allocations(spec') :
               ThrOf(spec', k) >= Floor(spec', 0) => TotalPower(spec', m) <= TotalPower(spec', k)
    BY <1>2, <1>4, <1>5 DEF Demanded
  <1> QED
    BY <1>5, <1>6 DEF FirstDrawsLeast, Demanded

\* A level of headroom: only the first may find nothing, and what it finds draws least.
LEMMA StageLevel ==
  ASSUME StageInv, PowerLevel, UNCHANGED planVars PROVE StageInv'
  <1>1. /\ IsSpec(spec) /\ IsPowerMin(spec) /\ allocs \in Seq(Placed) /\ report = "none" /\ spec' = spec
        /\ level \in Nat /\ (level = 0 <=> allocs = <<>>) /\ (allocs # <<>> => FirstDrawsLeast)
        /\ phase' = phase /\ main = "powerMin"
    BY DEF StageInv, PowerLevel, planVars
  <1>2. Placed' = Placed /\ IsSpec(spec') /\ IsPowerMin(spec')
    BY <1>1 DEF Placed, Allocation
  <1>3. PICK S : /\ S = PowerMin(spec, Templates(spec), Floor(spec, level))
                 /\ \/ /\ S = {} /\ level = 0
                       /\ report' = Diagnosis(spec, Allocations(spec))
                       /\ main' = "solved"
                       /\ UNCHANGED <<level, combos, allocs>>
                    \/ /\ S = {} /\ level > 0
                       /\ main' = "combos" /\ combos' = Combos
                       /\ UNCHANGED <<level, allocs, report>>
                    \/ \E n \in S :
                         /\ allocs' = Record(n)
                         /\ level' = level + 1
                         /\ IF Len(allocs') >= TopK \/ level + 1 = Steps
                            THEN main' = "combos" /\ combos' = Combos
                            ELSE UNCHANGED <<main, combos>>
                         /\ UNCHANGED report
    BY DEF PowerLevel, SpecTemplates
  <1>4. CASE S = {} /\ level = 0 /\ report' = Diagnosis(spec, Allocations(spec)) /\ main' = "solved"
             /\ UNCHANGED <<level, combos, allocs>>
    <2>1. ASSUME NEW n \in Allocations(spec) PROVE ~Demanded(n)
      BY <1>1, <1>3, <1>4, PowerMinFinds DEF Demanded
    <2>2. DiagnosisSound'
      <3>1. PICK A : A = Allocations(spec)
        OBVIOUS
      <3> QED
        BY <1>1, <1>4, <2>1, <3>1, DiagnosisIsSound
    <2>3. allocs' = <<>>
      BY <1>1, <1>4
    <2> QED
      BY <1>2, <1>4, <2>2, <2>3 DEF StageInv, FirstIsOptimal
  <1>5. CASE S = {} /\ level > 0 /\ main' = "combos" /\ UNCHANGED <<level, allocs, report>>
    <2>1. FirstDrawsLeast /\ (FirstDrawsLeast <=> FirstDrawsLeast') /\ allocs' # <<>>
      BY <1>1, <1>5 DEF FirstDrawsLeast, Demanded
    <2>2. FirstIsOptimal' /\ DiagnosisSound'
      BY <1>1, <1>5, NoReport DEF FirstIsOptimal
    <2> QED
      BY <1>1, <1>2, <1>5, <2>1, <2>2 DEF StageInv
  <1>6. ASSUME NEW n \in S, allocs' = Record(n), level' = level + 1, main' \in {"combos", "powerMin"}, report' = report
        PROVE  StageInv'
    <2>1. n \in Allocations(spec)
      BY <1>1, <1>3, PowerMinIs
    <2>2. allocs' \in Seq(Placed')
      BY <1>1, <1>2, <1>6, <2>1, RecordIs
    <2>3. allocs' # <<>> /\ FirstDrawsLeast'
      <3>1. CASE level = 0
        BY <1>1, <1>3, <1>6, <3>1, RecordFirst
      <3>2. CASE level # 0
        BY <1>1, <1>6, <2>1, <3>2, RecordKeepsFirst
      <3> QED
        BY <3>1, <3>2
    <2>4. FirstIsOptimal' /\ DiagnosisSound'
      BY <1>1, <1>6, NoReport DEF FirstIsOptimal
    <2>5. level' \in Nat /\ level' # 0
      BY <1>1, <1>6
    <2> QED
      BY <1>1, <1>2, <1>6, <2>2, <2>3, <2>4, <2>5 DEF StageInv
  <1> QED
    BY <1>1, <1>3, <1>4, <1>5, <1>6

\* An extra candidate comes after the first.
LEMMA StageDiversity ==
  ASSUME StageInv, Diversity, UNCHANGED planVars PROVE StageInv'
  <1>1. /\ IsSpec(spec) /\ IsPowerMin(spec) /\ allocs \in Seq(Placed) /\ allocs # <<>> /\ FirstDrawsLeast
        /\ main = "combos" /\ report = "none" /\ UNCHANGED <<spec, report, phase>>
    BY DEF StageInv, Diversity, planVars
  <1>2. Placed' = Placed /\ IsSpec(spec') /\ IsPowerMin(spec')
    BY <1>1 DEF Placed, Allocation
  <1>3. allocs' # <<>> => DiagnosisSound'
    BY <1>1, NoReport
  <1>4. CASE main' = "solved" /\ allocs' = allocs
    <2>1. FirstIsOptimal'
      <3>1. PICK m \in Allocations(spec) :
              /\ Signature(m) = allocs[1].sig /\ Demanded(m)
              /\ \A n \in Allocations(spec) : Demanded(n) => TotalPower(spec, m) <= TotalPower(spec, n)
        BY <1>1 DEF FirstDrawsLeast
      <3>2. \A n \in Allocations(spec) : TotalPower(spec, n) = DevicePower(n) + HostPower(spec, n)
        BY DEF TotalPower
      <3>3. /\ Meets(spec, m)
            /\ \A n \in Allocations(spec) :
                 Ample(n) => DevicePower(m) + HostPower(spec, m) <= DevicePower(n) + HostPower(spec, n)
        BY <1>1, <3>1, <3>2, FloorsAre
      <3>4. /\ m \in Allocations(spec') /\ Signature(m) = allocs'[1].sig /\ Meets(spec', m)
            /\ \A n \in Allocations(spec') :
                 Unit(spec') * ThrOf(spec', n) >= 1000 * spec'.demand.toks + Unit(spec')
                   => DevicePower(m) + HostPower(spec', m) <= DevicePower(n) + HostPower(spec', n)
        BY <1>1, <1>4, <3>1, <3>3 DEF Ample
      <3> QED
        BY <1>2, <3>4 DEF FirstIsOptimal, Ample
    <2> QED
      BY <1>1, <1>2, <1>3, <1>4, <2>1 DEF StageInv
  <1>5. CASE main' = main /\ allocs' = allocs
    <2>1. FirstDrawsLeast'
      BY <1>1, <1>5 DEF FirstDrawsLeast, Demanded
    <2>2. FirstIsOptimal'
      BY <1>1, <1>5 DEF FirstIsOptimal
    <2> QED
      BY <1>1, <1>2, <1>3, <1>5, <2>1, <2>2 DEF StageInv
  <1>6. ASSUME main' = main, NEW Tc, NEW n \in PowerMin(spec, Tc, Floor(spec, 0)), allocs' = Record(n)
        PROVE  StageInv'
    <2>1. n \in Allocations(spec)
      BY <1>1, PowerMinIs
    <2>2. allocs' \in Seq(Placed')
      BY <1>1, <1>2, <1>6, <2>1, RecordIs
    <2>3. allocs' # <<>> /\ FirstDrawsLeast'
      BY <1>1, <1>6, <2>1, RecordKeepsFirst
    <2>4. FirstIsOptimal'
      BY <1>1, <1>6 DEF FirstIsOptimal
    <2> QED
      BY <1>1, <1>2, <1>3, <1>6, <2>2, <2>3, <2>4 DEF StageInv
  <1> QED
    BY <1>4, <1>5, <1>6 DEF Diversity

\* The anchors: if the range is empty, the one of most throughput is all there is.
LEMMA StageAnchors ==
  ASSUME StageInv, Anchors, UNCHANGED planVars PROVE StageInv'
  <1>1. /\ IsSpec(spec) /\ ~IsPowerMin(spec) /\ allocs = <<>> /\ level = 0
        /\ main = "anchors" /\ report = "none" /\ UNCHANGED <<spec, level, report, phase>>
    BY DEF StageInv, Anchors, planVars
  <1>2. Placed' = Placed /\ IsSpec(spec') /\ ~IsPowerMin(spec') /\ allocs \in Seq(Placed) /\ Steps' = Steps
    BY <1>1 DEF Placed, Allocation, Steps
  <1>3. DiagnosisSound'
    BY <1>1, <1>2, NoReport
  <1>4. CASE main' = "solved" /\ allocs' = allocs
    <2>1. FirstIsOptimal'
      BY <1>1, <1>4 DEF FirstIsOptimal
    <2> QED
      BY <1>1, <1>2, <1>3, <1>4, <2>1 DEF StageInv
  <1>5. ASSUME NEW hi \in MaxThroughput(spec, Allocations(spec)), main' = "solved", allocs' = Record(hi)
        PROVE  StageInv'
    <2>1. hi \in Allocations(spec) /\ \A m \in Allocations(spec) : ThrOf(spec, m) <= ThrOf(spec, hi)
      BY <1>5, MaxThroughputIs
    <2>2. allocs' \in Seq(Placed') /\ allocs'[1] = Allocation(hi)
      BY <1>1, <1>2, <1>5, <2>1, RecordIs
    <2>3. allocs'[1].thr = ThrOf(spec, hi)
      BY <2>2 DEF Allocation
    <2>4. FirstIsOptimal'
      <3>1. \A n \in Allocations(spec') : ThrOf(spec', n) <= allocs'[1].thr
        BY <1>1, <2>1, <2>3
      <3> QED
        BY <1>2, <3>1 DEF FirstIsOptimal
    <2> QED
      BY <1>1, <1>2, <1>3, <1>5, <2>2, <2>4 DEF StageInv
  <1>6. ASSUME NEW hi \in MaxThroughput(spec, Allocations(spec)), NEW lo \in MinDevicePower(Allocations(spec)),
               ~(DevicePower(hi) <= DevicePower(lo)), combos' = {DevicePower(lo), DevicePower(hi)},
               main' = "sweep", allocs' = allocs
        PROVE  StageInv'
    <2>1. hi \in Allocations(spec) /\ \A m \in Allocations(spec) : ThrOf(spec, m) <= ThrOf(spec, hi)
      BY <1>6, MaxThroughputIs
    <2>2. lo \in Allocations(spec)
      BY <1>6, MinDevicePowerIs
    <2>3. DevicePower(lo) < DevicePower(hi)
      BY <1>1, <1>6, <2>1, <2>2, AllocationNumbers
    <2>4. SweepRange'
      <3>1. \E h \in Allocations(spec'), l \in Allocations(spec') :
              /\ combos' = {DevicePower(l), DevicePower(h)} /\ DevicePower(l) < DevicePower(h)
              /\ \A n \in Allocations(spec') : ThrOf(spec', n) <= ThrOf(spec', h)
        BY <1>1, <1>6, <2>1, <2>2, <2>3
      <3> QED
        BY <3>1 DEF SweepRange
    <2>5. 0 \in 0..(Steps' - 1)
      BY <1>1, <1>2, AtLeastOne
    <2>6. FirstIsOptimal'
      BY <1>6 DEF FirstIsOptimal
    <2> QED
      BY <1>1, <1>2, <1>3, <1>6, <2>4, <2>5, <2>6 DEF StageInv
  <1> QED
    BY <1>4, <1>5, <1>6 DEF Anchors

\* The last step of the sweep allows all the power of its upper end.
LEMMA SweepEnds ==
  ASSUME NEW a \in Nat, NEW b \in Nat, a < b, NEW n \in Nat \ {0}
  PROVE  (IF n = 1 THEN Most({a, b})
          ELSE Least({a, b}) + ((Most({a, b}) - Least({a, b})) * (n - 1)) \div (n - 1)) = b
  <1>1. IsFiniteSet({a, b}) /\ {a, b} \subseteq Int /\ {a, b} # {}
    <2>1. IsFiniteSet({a} \cup {b})
      BY FS_Singleton, FS_AddElement
    <2>2. {a} \cup {b} = {a, b}
      OBVIOUS
    <2> QED
      BY <2>1, <2>2
  <1>2. Most({a, b}) = b
    <2>1. Most({a, b}) \in {a, b} /\ b <= Most({a, b})
      BY <1>1, MostIs
    <2> QED
      BY <2>1
  <1>3. Least({a, b}) = a
    <2>1. Least({a, b}) \in {a, b} /\ Least({a, b}) <= a
      BY <1>1, LeastIs
    <2> QED
      BY <2>1
  <1>4. CASE n = 1
    BY <1>2, <1>4
  <1>5. CASE n # 1
    <2>1. PICK d, m : d = b - a /\ m = n - 1
      OBVIOUS
    <2>2. d \in Positive /\ m \in Positive
      BY <1>5, <2>1 DEF Positive
    <2>3. (d * m) \div m = d
      BY <2>2, Products
    <2> QED
      BY <1>2, <1>3, <1>5, <2>1, <2>3
  <1> QED
    BY <1>4, <1>5

\* A level of the epsilon sweep: the last one has the whole range, and the cap ranks by throughput.
LEMMA StageSweep ==
  ASSUME StageInv, EpsilonLevel, UNCHANGED planVars PROVE StageInv'
  <1>1. /\ IsSpec(spec) /\ ~IsPowerMin(spec) /\ allocs \in Seq(Placed) /\ main = "sweep" /\ report = "none"
        /\ level \in 0..(Steps - 1) /\ SweepRange /\ UNCHANGED <<spec, combos, report, phase>> /\ level' = level + 1
    BY DEF StageInv, EpsilonLevel, planVars
  <1>2. Placed' = Placed /\ IsSpec(spec') /\ ~IsPowerMin(spec') /\ Steps' = Steps
    BY <1>1 DEF Placed, Allocation, Steps
  <1>3. DiagnosisSound'
    BY <1>1, <1>2, NoReport
  <1>4. Steps \in Nat \ {0} /\ TopK \in Nat \ {0}
    BY <1>1, AtLeastOne
  <1>5. PICK hi \in Allocations(spec), lo \in Allocations(spec) :
          /\ combos = {DevicePower(lo), DevicePower(hi)} /\ DevicePower(lo) < DevicePower(hi)
          /\ \A n \in Allocations(spec) : ThrOf(spec, n) <= ThrOf(spec, hi)
    BY <1>1 DEF SweepRange
  <1>6. PICK a, b : a = DevicePower(lo) /\ b = DevicePower(hi)
    OBVIOUS
  <1>7. a \in Nat /\ b \in Nat /\ a < b /\ combos = {a, b}
    BY <1>1, <1>5, <1>6, AllocationNumbers
  <1>8. PICK eps, S, n :
          /\ eps = IF Steps = 1 THEN Most(combos)
                   ELSE Least(combos) + ((Most(combos) - Least(combos)) * level) \div (Steps - 1)
          /\ S = {k \in Allocations(spec) : DevicePower(k) <= eps}
          /\ n \in MaxThroughput(spec, S)
          /\ IF level + 1 < Steps
             THEN allocs' = Record(n) /\ UNCHANGED main
             ELSE allocs' = Capped(Record(n), TopK) /\ main' = "solved"
    BY DEF EpsilonLevel
  <1>9. n \in S /\ n \in Allocations(spec) /\ \A m \in S : ThrOf(spec, m) <= ThrOf(spec, n)
    BY <1>8, MaxThroughputIs
  <1>10. /\ Record(n) \in Seq(Placed) /\ Record(n) # <<>>
         /\ \E i \in DOMAIN Record(n) : Record(n)[i] = Allocation(n)
    BY <1>1, <1>9, RecordIs
  <1>11. CASE level + 1 < Steps
    <2>1. allocs' \in Seq(Placed') /\ main' = main
      BY <1>2, <1>8, <1>10, <1>11
    <2>2. level' \in 0..(Steps' - 1)
      BY <1>1, <1>2, <1>4, <1>11
    <2>3. SweepRange'
      BY <1>1 DEF SweepRange
    <2>4. FirstIsOptimal'
      BY <1>1, <2>1 DEF FirstIsOptimal
    <2> QED
      BY <1>1, <1>2, <1>3, <2>1, <2>2, <2>3, <2>4 DEF StageInv
  <1>12. CASE ~(level + 1 < Steps)
    <2>1. level = Steps - 1
      BY <1>1, <1>4, <1>12
    <2>2. eps = b
      BY <1>4, <1>7, <1>8, <2>1, SweepEnds
    <2>3. hi \in S
      BY <1>6, <1>7, <1>8, <2>2
    <2>4. \A m \in Allocations(spec) : ThrOf(spec, m) <= ThrOf(spec, n)
      <3> TAKE m \in Allocations(spec)
      <3>1. ThrOf(spec, m) <= ThrOf(spec, hi) /\ ThrOf(spec, hi) <= ThrOf(spec, n)
        BY <1>5, <1>9, <2>3
      <3>2. ThrOf(spec, m) \in Nat /\ ThrOf(spec, hi) \in Nat /\ ThrOf(spec, n) \in Nat
        BY <1>1, <1>9, AllocationNumbers
      <3> QED
        BY <3>1, <3>2
    <2>5. \A x \in Placed : x.thr \in Nat
      <3>1. \A k \in Allocations(spec) : Allocation(k).thr = ThrOf(spec, k)
        BY DEF Allocation
      <3> QED
        BY <1>1, <3>1, AllocationNumbers DEF Placed
    <2>6. PICK P, seq, first : P = Placed /\ seq = Record(n) /\ first = Capped(seq, TopK)[1]
      OBVIOUS
    <2>7. \A x \in P : x.thr \in Int
      BY <2>5, <2>6
    <2>8. seq \in Seq(P) /\ seq # <<>>
      BY <1>10, <2>6
    <2>9. /\ Capped(seq, TopK) \in Seq(P) /\ Capped(seq, TopK) # <<>>
          /\ \A i \in DOMAIN seq : seq[i].thr <= first.thr
      BY <1>4, <2>6, <2>7, <2>8, CappedIs
    <2>10. allocs' = Capped(seq, TopK) /\ main' = "solved" /\ allocs'[1] = first
      BY <1>8, <1>12, <2>6
    <2>11. allocs' \in Seq(Placed')
      BY <1>2, <2>6, <2>9, <2>10
    <2>12. first \in P
      <3>1. Len(Capped(seq, TopK)) \in Nat /\ Len(Capped(seq, TopK)) # 0
        BY <2>9, EmptySeq, LenProperties
      <3>2. 1 \in 1..Len(Capped(seq, TopK))
        BY <3>1
      <3> QED
        BY <2>6, <2>9, <3>2, ElementOfSeq
    <2>13. \A m \in Allocations(spec) : ThrOf(spec, m) <= first.thr
      <3> TAKE m \in Allocations(spec)
      <3>1. PICK i \in DOMAIN seq : seq[i] = Allocation(n)
        BY <1>10, <2>6
      <3>2. seq[i].thr = ThrOf(spec, n)
        BY <3>1 DEF Allocation
      <3>3. ThrOf(spec, m) <= ThrOf(spec, n) /\ ThrOf(spec, n) <= first.thr
        BY <2>4, <2>9, <3>2
      <3>4. ThrOf(spec, m) \in Nat /\ ThrOf(spec, n) \in Nat /\ first.thr \in Nat
        BY <1>1, <1>9, <2>5, <2>6, <2>12, AllocationNumbers
      <3> QED
        BY <3>3, <3>4
    <2>14. FirstIsOptimal'
      <3>1. \A m \in Allocations(spec') : ThrOf(spec', m) <= allocs'[1].thr
        BY <1>1, <2>10, <2>13
      <3> QED
        BY <1>2, <3>1 DEF FirstIsOptimal
    <2> QED
      BY <1>1, <1>2, <1>3, <2>10, <2>11, <2>14 DEF StageInv
  <1> QED
    BY <1>11, <1>12

\* The spec of a request that begins to be planned.
LEMMA PlanStage ==
  ASSUME StageInv, GivenInv, Plan PROVE StageInv'
  <1>1. phase = "pending" /\ main # "killed" /\ phase' # "direct"
    BY DEF Plan, Refuse, Fail, Routed, Begin
  <1>2. CASE UNCHANGED vars
    BY <1>1, <1>2, StageStays DEF vars, stage1
  <1>3. CASE ~UNCHANGED vars
    <2>1. PICK all, allowed, preferred, decision :
            /\ all = AvailableTopology(Registry, free)
            /\ allowed = Without(all, request.exclude)
            /\ preferred = Preferred(request.model.name, Hardware(allowed.devices))
            /\ decision = Route(preferred, request) /\ decision.backend # "none"
            /\ generated # None
            /\ Routed(allowed, preferred, decision)
      BY <1>3 DEF Plan, Refuse, Fail
    <2>2. request \in Requests /\ generated \in Nat
      BY <1>1, <2>1 DEF GivenInv, None
    <2>3. IsTopology(allowed)
      BY <2>1, AvailableIs, WithoutIs DEF GivenInv
    <2>4. IsDegrees(preferred)
      <3> DEFINE kind == [d \in allowed.devices |-> d.hw]
      <3>1. Hardware(allowed.devices) = {kind[d] : d \in allowed.devices}
        BY DEF Hardware
      <3> HIDE DEF kind
      <3>2. IsFiniteSet(Hardware(allowed.devices))
        BY <2>3, <3>1, ImageIsFinite DEF IsTopology
      <3> QED
        BY <2>1, <3>2, PreferredIs
    <2>5. decision.backend \in {"measured", "upstream", "legacy"}
      BY <2>1, <2>2, RouteIs
    <2>6. PICK hwTps, topo :
            /\ hwTps = Restricted(preferred, decision.backend, request.model.name)
            /\ topo = Without(allowed, Hardware(allowed.devices) \ DOMAIN hwTps)
            /\ Begin(ServeSpec(request, topo, hwTps, decision.backend, generated))
      BY <1>3, <2>1 DEF Routed, Refuse
    <2>7. IsTopology(topo) /\ IsDegrees(hwTps)
      BY <2>3, <2>4, <2>5, <2>6, WithoutIs, RestrictedIs
    <2>8. PICK s : s = ServeSpec(request, topo, hwTps, decision.backend, generated)
      OBVIOUS
    <2>9. IsSpec(s)
      BY <2>2, <2>7, <2>8, ServeSpecIs
    <2>10. spec' = s /\ main' = "start" /\ level' = 0 /\ allocs' = <<>> /\ report' = "none"
      BY <1>3, <2>6, <2>8 DEF Begin, Fail
    <2> QED
      BY <2>9, <2>10, StageBegins
  <1> QED
    BY <1>2, <1>3

\* StageInv holds at first and is kept.
LEMMA StageInit == ServeInit => StageInv
  <1> SUFFICES ASSUME ServeInit PROVE StageInv
    OBVIOUS
  <1>1. CASE request = NoRequest
    <2>1. Init
      BY <1>1 DEF ServeInit
    <2>2. IsSpec(spec)
      BY <2>1, SubmittedAssumption DEF Init
    <2>3. main = "start" /\ level = 0 /\ allocs = <<>> /\ report = "none" /\ <<>> \in Seq(Placed)
      BY <2>1 DEF Init, Idle
    <2> QED
      BY <2>2, <2>3 DEF StageInv, FirstIsOptimal, DiagnosisSound
  <1>2. CASE request # NoRequest
    <2>1. main = "idle" /\ phase = "pending"
      BY <1>2 DEF ServeInit
    <2> QED
      BY <2>1 DEF StageInv, FirstIsOptimal, DiagnosisSound
  <1> QED
    BY <1>1, <1>2

LEMMA StageStep ==
  ASSUME StageInv, GivenInv, [ServeNext]_serveVars PROVE StageInv'
  <1>1. CASE UNCHANGED serveVars
    BY <1>1, StageStays DEF serveVars, vars, stage1, planVars
  <1>2. CASE Plan
    BY <1>2, PlanStage
  <1>3. CASE Answer
    BY <1>3, StageStays DEF Answer, Fail, stage1
  <1>4. CASE Failed \/ Move \/ Replan
    <2>1. UNCHANGED vars /\ (phase' = "direct" <=> phase = "direct")
      BY <1>4 DEF Failed, Fail, Move, Replan
    <2> QED
      BY <2>1, StageStays DEF vars, stage1
  <1>5. CASE Engine
    <2>1. UNCHANGED planVars /\ phase' = phase
      BY <1>5 DEF Engine, planVars
    <2>2. CASE Solve
      BY <2>1, <2>2, StageStart, StageLevel, StageDiversity, StageAnchors, StageSweep DEF Solve
    <2>3. CASE Evaluate
      BY <2>1, <2>3, StageStays DEF Evaluate, Look, Simulated, Fails, Store, Emit, stage1
    <2>4. CASE Expand \/ Raise \/ Rank
      BY <2>1, <2>4, StageStays DEF Expand, Raise, Rank, stage1
    <2> QED
      BY <1>5, <2>2, <2>3, <2>4 DEF Engine
  <1>6. CASE Server
    BY <1>6, StageStays DEF Server, Report, Finish, stage1, planVars
  <1>7. CASE Again
    <2>1. IsSpec(spec) /\ spec' = spec
      BY <1>7 DEF Again, Rerun, StageInv
    <2> QED
      BY <1>7, <2>1, StageBegins DEF Again, Rerun
  <1>8. CASE Die
    BY <1>8, StageStays DEF Die, Crash, stage1, planVars
  <1> QED
    BY <1>1, <1>2, <1>3, <1>4, <1>5, <1>6, <1>7, <1>8 DEF ServeNext, Serve

\* GivenInv holds throughout: the trace, the ledger and the request (serve_requests, _run_job).
THEOREM GivenInvariant == ServeSpecification => []GivenInv
  BY GivenInit, GivenStep, PTL DEF ServeSpecification

\* StageInv holds throughout (solve_with_report).
THEOREM StageInvariant == ServeSpecification => []StageInv
  BY GivenInvariant, StageInit, StageStep, PTL DEF ServeSpecification

\* Whatever the solver picks among its optima and however floats round, stage 1 ranks no
\* servable allocation above its first; only one that exceeds the demand by less than the
\* rounding of the floor may draw less (solve_with_report: levels, duplicates, extra
\* candidates and the cap together).
THEOREM FirstOfStage1 == ServeSpecification => []FirstIsOptimal
  <1>1. StageInv => FirstIsOptimal
    BY DEF StageInv
  <1> QED
    BY <1>1, StageInvariant, PTL

\* A power-min run that finds nothing has a report, and nothing the constraints allow
\* exceeds the demand by more than the rounding of the floor; "structure" is the verdict
\* only if that rounding alone refuses an allocation, and the other words are right about
\* the constraints (_diagnose_infeasible against _build_base_model), however floats round.
THEOREM DiagnosisIsRight == ServeSpecification => []DiagnosisSound
  <1>1. StageInv => DiagnosisSound
    BY DEF StageInv
  <1> QED
    BY <1>1, StageInvariant, PTL

------------------------------------------------------------------------------
(* Stage 2: what is known of candidates *)

\* What holds of a candidate: the metrics that may be objectives are numbers.
IsMeasure(m) ==
  /\ DOMAIN m = {"kind", "ttft", "tpot", "itl", "thr", "peak", "queue", "perWh", "power"}
  /\ m.thr \in Int /\ m.perWh \in Int /\ m.power \in Nat \cup {None}

FirstStage == {"start", "powerMin", "combos", "anchors", "sweep", "solved"}

\* A candidate that was measured has a power, reported or estimated.
HasPower(m) == m.kind = "metrics" => m.power # None

EvalInv ==
  /\ main \in FirstStage => result = <<>> /\ best = <<>>
  /\ main \in {"pool", "report"} => DOMAIN result \subseteq Candidates
  /\ main = "pool" => best = <<>> /\ DOMAIN worker = DOMAIN result
  /\ \A c \in DOMAIN result : IsMeasure(result[c])
  /\ \A k \in DOMAIN cache : IsMeasure(cache[k])
  /\ main = "pool" => \A c \in DOMAIN worker :
       worker[c] # "storing" => HasPower(result[c])
  /\ main = "report" => \A c \in DOMAIN result : HasPower(result[c])

\* All the objectives of the spec count.
AllCount == \A o \in ToSet(spec.objectives) : o.weight > 0

\* What status.json says of the candidates while the pool is at work and after it. A dry
\* run does not open the pool.
Mirrored ==
  /\ DOMAIN status = {"state", "cand", "best"}
  /\ status # NoStatus /\ spec.dry => status.best = <<>>
  /\ main = "pool" => ~spec.dry
  /\ main = "pool" /\ Watched =>
       /\ DOMAIN status.cand = DOMAIN worker
       /\ \A c \in DOMAIN worker : worker[c] = "ended" /\ status.cand[c] = "pending" => raised
  /\ main \in {"report", "finish"} =>
       /\ Watched => \A c \in DOMAIN status.cand : status.cand[c] = "pending" <=> spec.dry
       /\ best # <<>> /\ AllCount => best \in pareto
  /\ main = "finish" => reports

MirrorInv == Mirrored /\ DoneIsComplete

PowerOnly == <<[metric |-> "power", dir |-> "min", weight |-> 1]>>

AnswerInv ==
  /\ phase = "planning" =>
       /\ spec.objectives = PowerOnly
       /\ \A d \in spec.devices : d.hw \notin request.exclude
       /\ main = "report" /\ best # <<>> =>
            /\ best \in Passing
            /\ \A c \in Passing : Score(spec, result[c]) <= Score(spec, result[best])
  /\ answer.state = "done" => phase = "answered" /\ main = "ended"
  /\ BestIsLeastPower

\* The power of an instance and of an allocation at full load is a number, from profiles or not.
LEMMA EffectiveIs ==
  ASSUME NEW hw, NEW model, NEW tp \in Nat PROVE EffectivePower(hw, model, tp, 100) \in Nat
  <1> DEFINE all == IF hw \in DOMAIN PowerProfiles THEN PowerProfiles[hw].points ELSE {}
             points == {p \in all : p.model = model /\ p.tp = tp}
             load == [p \in points |-> p.load]
             loads == {load[p] : p \in points}
  <1>1. IsFiniteSet(all) /\ \A p \in all : p.load \in 1..100 /\ p.watts \in Nat
    <2>1. CASE hw \in DOMAIN PowerProfiles
      BY <2>1, PowerAssumption
    <2>2. CASE hw \notin DOMAIN PowerProfiles
      BY <2>2, FS_EmptySet
    <2> QED
      BY <2>1, <2>2
  <1>2. points \in SUBSET all
    OBVIOUS
  <1>3. {p \in points : p.load <= 100} = points /\ points \ points = {}
    BY <1>1
  <1>4. EffectivePower(hw, model, tp, 100)
          = IF points = {} THEN ActivePower(hw) * tp
            ELSE (CHOOSE p \in points : \A q \in points : q.load <= p.load).watts
    <2>1. PICK P, B, A : P = points /\ B = {p \in points : p.load <= 100} /\ A = points \ B
      OBVIOUS
    <2>2. /\ P = {} => EffectivePower(hw, model, tp, 100) = ActivePower(hw) * tp
          /\ P # {} /\ B # {} /\ A = {} =>
               EffectivePower(hw, model, tp, 100)
                 = (CHOOSE p \in B : \A q \in B : q.load <= p.load).watts
      <3> HIDE DEF points
      <3>1. points = {p \in all : p.model = model /\ p.tp = tp}
        BY DEF points
      <3>2. B = {p \in P : p.load <= 100} /\ A = P \ B /\ P = {p \in all : p.model = model /\ p.tp = tp}
        BY <2>1, <3>1
      <3> QED
        BY <3>2 DEF EffectivePower
    <2>3. B = P /\ A = {}
      BY <1>3, <2>1
    <2> HIDE DEF points
    <2> QED
      BY <2>1, <2>2, <2>3
  <1>5. CASE points = {}
    BY <1>4, <1>5, PowersAreNumbers
  <1>6. CASE points # {}
    <2>1. \A p \in points : load[p] = p.load /\ load[p] \in Nat /\ p.watts \in Nat
      BY <1>1, <1>2
    <2> HIDE DEF all, points, load
    <2>2. IsFiniteSet(points)
      BY <1>1, <1>2, FS_Subset
    <2>3. IsFiniteSet(loads)
      BY <2>2, ImageIsFinite
    <2>4. loads \in SUBSET Int /\ loads # {}
      BY <1>6, <2>1
    <2>5. PICK l \in loads : \A x \in loads : x <= l
      <3> HIDE DEF loads
      <3> QED
        BY <2>3, <2>4, FiniteSetHasMax
    <2>6. PICK p \in points : l = load[p]
      OBVIOUS
    <2>7. \E x \in points : \A q \in points : q.load <= x.load
      BY <2>1, <2>5, <2>6
    <2>8. (CHOOSE x \in points : \A q \in points : q.load <= x.load) \in points
      BY <2>7
    <2> QED
      BY <1>4, <1>6, <2>1, <2>8
  <1> QED
    BY <1>5, <1>6

LEMMA AllocationPowerIs ==
  ASSUME NEW s, IsSpec(s), NEW n \in Allocations(s)
  PROVE  AllocationPower(s, Signature(n)) \in Nat
  <1>1. PICK T : T = Templates(s)
    OBVIOUS
  <1>2. IsFiniteSet(T) /\ n \in [T -> Nat] /\ \A t \in T : t.tp \in Nat
    BY <1>1, TemplatesAre, AllocationsAre
  <1>3. PICK sig : sig = Signature(n)
    OBVIOUS
  <1>4. /\ IsFiniteSet(sig)
        /\ \A p \in sig : p[2] \in Nat /\ p[1].tp \in Nat
    <2> DEFINE U == {u \in DOMAIN n : n[u] > 0}
               pair == [t \in U |-> <<t, n[t]>>]
    <2>1. sig = {pair[t] : t \in U}
      BY <1>3 DEF Signature
    <2>2. U \in SUBSET T
      BY <1>2
    <2>3. \A t \in U : pair[t][1] = t /\ pair[t][2] = n[t]
      OBVIOUS
    <2> HIDE DEF U, pair
    <2>4. IsFiniteSet(U)
      BY <1>2, <2>2, FS_Subset
    <2>5. IsFiniteSet(sig)
      BY <2>1, <2>4, ImageIsFinite
    <2> QED
      BY <1>2, <2>1, <2>2, <2>3, <2>5
  <1> DEFINE f == [p \in sig |-> p[2] * EffectivePower(p[1].hw, s.model.name, p[1].tp, 100)]
             node == [p \in sig |-> p[1].node]
             V == {node[p] : p \in sig}
             here(v) == {q \in sig : q[1].node = v}
             base(v) == [p \in here(v) |-> HostBase(p[1].hw)]
             g == [v \in V |-> Most({base(v)[p] : p \in here(v)})]
  <1>5. SumFunction(f) \in Nat
    <2>1. DOMAIN f = sig /\ \A p \in sig : f[p] \in Nat
      <3>1. \A p \in sig : EffectivePower(p[1].hw, s.model.name, p[1].tp, 100) \in Nat
        BY <1>4, EffectiveIs
      <3> QED
        BY <1>4, <3>1
    <2> HIDE DEF f
    <2> QED
      BY <1>4, <2>1, SumIsNatural
  <1>6. SumFunction(g) \in Nat
    <2>1. ASSUME NEW v \in V PROVE Most({base(v)[p] : p \in here(v)}) \in Nat
      <3>1. here(v) \in SUBSET sig /\ here(v) # {}
        OBVIOUS
      <3> DEFINE h == base(v)
                 S == {h[p] : p \in here(v)}
      <3>2. \A p \in here(v) : h[p] \in Nat
        BY PowersAreNumbers
      <3> HIDE DEF here, h
      <3>3. IsFiniteSet(S)
        <4>1. IsFiniteSet(here(v))
          BY <1>4, <3>1, FS_Subset
        <4> QED
          BY <4>1, ImageIsFinite
      <3>4. S \subseteq Int /\ S \subseteq Nat /\ S # {}
        BY <3>1, <3>2
      <3> HIDE DEF S
      <3>5. Most(S) \in Nat
        BY <3>3, <3>4, MostIs
      <3> QED
        BY <3>5 DEF S, h
    <2>2. DOMAIN g = V /\ \A v \in V : g[v] \in Nat
      BY <2>1
    <2>3. IsFiniteSet(V)
      <3> HIDE DEF node
      <3> QED
        BY <1>4, ImageIsFinite
    <2> HIDE DEF g, V
    <2> QED
      BY <2>2, <2>3, SumIsNatural
  <1>7. AllocationPower(s, sig) = SumFunction(f) + SumFunction(g)
    <2>1. \A v : {base(v)[p] : p \in here(v)} = {HostBase(p[1].hw) : p \in {q \in sig : q[1].node = v}}
      OBVIOUS
    <2>2. V = {p[1].node : p \in sig}
      OBVIOUS
    <2>3. g = [v \in {p[1].node : p \in sig} |-> Most({HostBase(p[1].hw) : p \in {q \in sig : q[1].node = v}})]
      <3> HIDE DEF here, base, node
      <3> QED
        BY <2>1, <2>2
    <2> HIDE DEF g
    <2> QED
      BY <2>3 DEF AllocationPower
  <1> QED
    BY <1>3, <1>5, <1>6, <1>7

\* A measure with its power filled in; marks are measures.
LEMMA WithPowerIs ==
  ASSUME NEW s, NEW sig, AllocationPower(s, sig) \in Nat, NEW m, IsMeasure(m)
  PROVE  IsMeasure(WithPower(s, sig, m)) /\ HasPower(WithPower(s, sig, m))
  BY DEF WithPower, IsMeasure, HasPower, None

LEMMA MarksAre == \A kind : IsMeasure(Mark(kind)) /\ (kind # "metrics" => HasPower(Mark(kind)))
  BY DEF Mark, IsMeasure, HasPower, None

\* Sums, and the ends, of the columns of a CSV.
LEMMA ColumnTotal ==
  ASSUME NEW rows, NEW n \in Nat, DOMAIN rows = 1..n, NEW f, \A i \in 1..n : rows[i][f] \in Nat
  PROVE  Total(Column(rows, f)) \in Nat
  <1>1. PICK c : c = Column(rows, f)
    OBVIOUS
  <1>2. PICK U : U = 1..n
    OBVIOUS
  <1>3. IsFiniteSet(U)
    BY ONLY <1>2, n \in Nat, 1 \in Int, n \in Int, FS_Interval
  <1>4. DOMAIN c = U /\ \A i \in DOMAIN c : c[i] \in Nat
    BY <1>1, <1>2 DEF Column
  <1> QED
    BY <1>1, <1>3, <1>4, SumIsNatural DEF Total

LEMMA ColumnRange ==
  ASSUME NEW rows, NEW n \in Nat \ {0}, DOMAIN rows = 1..n, NEW f, \A i \in 1..n : rows[i][f] \in Int
  PROVE  Most(ToSet(Column(rows, f))) \in Int /\ Least(ToSet(Column(rows, f))) \in Int
  <1>1. PICK c, U : c = Column(rows, f) /\ U = 1..n
    OBVIOUS
  <1>2. IsFiniteSet(U)
    <2>1. 1 \in Int /\ n \in Int /\ U = 1..n
      BY <1>1
    <2> QED
      BY ONLY <2>1, FS_Interval
  <1>3. DOMAIN c = U /\ (\A i \in U : c[i] \in Int) /\ 1 \in U
    BY <1>1 DEF Column
  <1>4. PICK S : S = {c[i] : i \in U}
    OBVIOUS
  <1>5. ToSet(c) = S
    BY <1>3, <1>4 DEF ToSet
  <1>6. IsFiniteSet(S)
    BY <1>2, <1>4, ImageIsFinite
  <1>7. S \subseteq Int /\ S # {}
    BY <1>3, <1>4
  <1> QED
    BY <1>1, <1>5, <1>6, <1>7, MostIs, LeastIs

\* What a simulation measures are numbers, and none of them looks like a missing one.
LEMMA SimulatedIs ==
  ASSUME NEW run \in Simulations PROVE IsMeasure(Evaluated(run))
  <1>1. PICK rows, energy : rows = run.rows /\ energy = run.energy
    OBVIOUS
  <1>2. /\ energy \in Nat /\ Second \in Nat /\ rows \in Seq(ToSet(rows))
        /\ \A row \in ToSet(rows) : row.output \in Nat /\ row.arrival \in Int /\ row.end \in Int
    BY <1>1, SimulationsAssumption
  <1>3. CASE rows = <<>>
    BY <1>1, <1>3, MarksAre DEF Evaluated, Infeasible
  <1>4. CASE rows # <<>>
    <2>1. PICK n \in Nat \ {0} : n = Len(rows) /\ DOMAIN rows = 1..n
      BY <1>2, <1>4, EmptySeq, LenProperties
    <2>2. \A i \in 1..n : rows[i] \in ToSet(rows)
      BY <2>1 DEF ToSet
    <2>3. \A i \in 1..n : rows[i]["output"] \in Nat /\ rows[i]["arrival"] \in Int /\ rows[i]["end"] \in Int
      BY <1>2, <2>2
    <2>4. PICK out, span : out = Total(Column(rows, "output")) /\ span = Span(rows)
      OBVIOUS
    <2>5. out \in Nat
      BY <2>1, <2>3, <2>4, ColumnTotal
    <2>6. span \in Int
      <3>1. Most(ToSet(Column(rows, "end"))) \in Int
        BY <2>1, <2>3, ColumnRange
      <3>2. Least(ToSet(Column(rows, "arrival"))) \in Int
        BY <2>1, <2>3, ColumnRange
      <3> QED
        BY <2>4, <3>1, <3>2 DEF Span
    <2>7. PICK m : m = Metrics(rows, energy)
      OBVIOUS
    <2>8. /\ DOMAIN m = {"kind", "ttft", "tpot", "itl", "thr", "peak", "queue", "perWh", "power"}
          /\ m.thr = IF span > 0 THEN (out * Second) \div span ELSE 0
          /\ m.perWh = IF energy > 0 THEN (out * 3600) \div energy ELSE None
          /\ m.power = IF energy > 0 /\ span > 0 THEN (energy * Second) \div span ELSE None
      BY <2>4, <2>7 DEF Metrics
    <2>9. \A a \in Nat, b \in Int : b > 0 => a \div b \in Nat
      OBVIOUS
    <2>10. \A a, b \in Nat : a * b \in Nat
      OBVIOUS
    <2>11. m.thr \in Int /\ m.perWh \in Int /\ m.power \in Nat \cup {None}
      <3>1. PICK x, y, z : x = out * Second /\ y = out * 3600 /\ z = energy * Second
        OBVIOUS
      <3>2. x \in Nat /\ y \in Nat /\ z \in Nat
        BY <1>2, <2>5, <2>10, <3>1
      <3>3. m.thr = IF span > 0 THEN x \div span ELSE 0
        BY <2>8, <3>1
      <3>4. m.perWh = IF energy > 0 THEN y \div energy ELSE None
        BY <2>8, <3>1
      <3>5. m.power = IF energy > 0 /\ span > 0 THEN z \div span ELSE None
        BY <2>8, <3>1
      <3>6. m.thr \in Int
        BY <2>6, <2>9, <3>2, <3>3
      <3>7. m.perWh \in Int
        BY <1>2, <2>9, <3>2, <3>4 DEF None
      <3>8. m.power \in Nat \cup {None}
        BY <2>6, <2>9, <3>2, <3>5
      <3> QED
        BY <3>6, <3>7, <3>8
    <2>12. IsMeasure(m)
      BY <2>8, <2>11 DEF IsMeasure
    <2> QED
      BY <1>1, <2>7, <2>12, MarksAre DEF Evaluated, Infeasible
  <1> QED
    BY <1>3, <1>4

------------------------------------------------------------------------------
(* The ranking *)

\* The value of an objective is a number.
LEMMA SignedIs ==
  ASSUME IsSpec(spec), NEW i \in DOMAIN spec.objectives, NEW m, IsMeasure(m)
  PROVE  /\ m[spec.objectives[i].metric] \in Int /\ Signed(spec.objectives[i], m) \in Int
         /\ spec.objectives[i].weight \in Int /\ spec.objectives[i] \in ToSet(spec.objectives)
  <1>1. PICK o : o = spec.objectives[i]
    OBVIOUS
  <1>2. o \in ToSet(spec.objectives)
    BY <1>1 DEF ToSet
  <1>3. o.metric \in {"thr", "perWh", "power"} /\ o.weight \in Int
    BY <1>2 DEF IsSpec
  <1>4. m["thr"] \in Int /\ m["perWh"] \in Int /\ m["power"] \in Int
    BY DEF IsMeasure, None
  <1>5. m[o.metric] \in Int
    BY <1>3, <1>4
  <1>6. Signed(o, m) \in Int
    BY <1>5 DEF Signed
  <1> QED
    BY <1>1, <1>2, <1>3, <1>5, <1>6

\* If all objectives count, what dominates has the higher score.
LEMMA DominatorScoresMore ==
  ASSUME IsSpec(spec), AllCount, NEW a, IsMeasure(a), HasVector(spec, a), NEW b, IsMeasure(b),
         HasVector(spec, b), Dominates(spec, a, b)
  PROVE  Score(spec, b) < Score(spec, a) /\ Score(spec, a) \in Int /\ Score(spec, b) \in Int
  <1>1. PICK objs, n : objs = spec.objectives /\ n = Len(objs)
    OBVIOUS
  <1>2. n \in Nat /\ DOMAIN objs = 1..n
    <2>1. objs \in Seq(ToSet(objs))
      BY <1>1 DEF IsSpec
    <2> QED
      BY <1>1, <2>1, LenProperties
  <1>3. PICK U : U = 1..n
    OBVIOUS
  <1>4. IsFiniteSet(U)
    <2>1. 1 \in Int /\ n \in Int /\ U = 1..n
      BY <1>2, <1>3
    <2> QED
      BY ONLY <2>1, FS_Interval
  <1> DEFINE val(o, m) == IF m[o.metric] = None THEN 0 ELSE o.weight * Signed(o, m)
             f == [i \in U |-> val(objs[i], a)]
             h == [i \in U |-> val(objs[i], b)]
  <1>5. Score(spec, a) = SumFunctionOnSet(f, U) /\ Score(spec, b) = SumFunctionOnSet(h, U)
    <2>1. Score(spec, a) = SumFunction(f) /\ Score(spec, b) = SumFunction(h)
      BY <1>1, <1>2, <1>3 DEF Score, Total
    <2>2. DOMAIN f = U /\ DOMAIN h = U
      OBVIOUS
    <2> HIDE DEF f, h
    <2> QED
      BY <2>1, <2>2, SumOfFunction
  <1>6. ASSUME NEW i \in U
        PROVE  /\ objs[i] \in ToSet(objs) /\ objs[i].weight \in Int /\ objs[i].weight > 0
               /\ Signed(objs[i], a) \in Int /\ Signed(objs[i], b) \in Int
               /\ Signed(objs[i], a) >= Signed(objs[i], b)
               /\ f[i] = objs[i].weight * Signed(objs[i], a) /\ h[i] = objs[i].weight * Signed(objs[i], b)
    <2>1. /\ objs[i] \in ToSet(objs) /\ objs[i].weight \in Int
          /\ Signed(objs[i], a) \in Int /\ Signed(objs[i], b) \in Int
      BY <1>1, <1>2, <1>3, SignedIs
    <2>2. objs[i].weight > 0
      BY <1>1, <2>1 DEF AllCount
    <2>3. Signed(objs[i], a) >= Signed(objs[i], b)
      BY <1>1, <2>1 DEF Dominates
    <2>4. a[objs[i].metric] # None /\ b[objs[i].metric] # None
      BY <1>1, <2>1 DEF HasVector
    <2> QED
      BY <2>1, <2>2, <2>3, <2>4
  <1>7. \A w \in Int, x \in Int, y \in Int : w > 0 =>
          /\ w * x \in Int /\ w * y \in Int /\ (y <= x => w * y <= w * x) /\ (y < x => w * y < w * x)
    <2> SUFFICES ASSUME NEW w \in Int, NEW x \in Int, NEW y \in Int, w > 0, y <= x
                 PROVE  w * y <= w * x /\ (y < x => w * y < w * x)
      OBVIOUS
    <2>1. PICK d : d = x - y
      OBVIOUS
    <2>2. d \in Nat /\ w \in Nat /\ w * d \in Nat /\ (d > 0 => w * d > 0)
      BY <2>1
    <2>3. w * x = w * y + w * d
      BY <2>1
    <2> QED
      BY <2>1, <2>2, <2>3
  <1>8. PICK k \in U : Signed(objs[k], a) > Signed(objs[k], b)
    <2>1. PICK o \in ToSet(objs) : Signed(o, a) > Signed(o, b)
      BY <1>1 DEF Dominates
    <2>2. PICK k \in DOMAIN objs : o = objs[k]
      BY <2>1 DEF ToSet
    <2> QED
      BY <1>2, <1>3, <2>1, <2>2
  <1> HIDE DEF f, h
  <1>9. \A i \in U : f[i] \in Int /\ h[i] \in Int /\ h[i] <= f[i]
    <2> TAKE i \in U
    <2> QED
      BY <1>6, <1>7
  <1>10. h[k] < f[k]
    BY <1>6, <1>7, <1>8
  <1>11. SumFunctionOnSet(h, U) < SumFunctionOnSet(f, U)
    BY <1>4, <1>9, <1>10, SumsStrictlyMonotone
  <1>12. SumFunctionOnSet(h, U) \in Int /\ SumFunctionOnSet(f, U) \in Int
    BY <1>4, <1>9, SumIsInt
  <1> QED
    BY <1>5, <1>11, <1>12

\* So the best by score is on the frontier.
LEMMA BestIsOnFront ==
  ASSUME IsSpec(spec), AllCount, \A c \in DOMAIN result : IsMeasure(result[c]), NEW b \in Passing,
         \A c \in Passing : Score(spec, result[c]) <= Score(spec, result[b])
  PROVE  b \in ParetoFront(spec, Passing, result)
  <1>1. \A c \in Passing : IsMeasure(result[c])
    BY DEF Passing
  <1>2. ASSUME HasVector(spec, result[b]), NEW d \in Passing, HasVector(spec, result[d]),
               Dominates(spec, result[d], result[b])
        PROVE  FALSE
    <2>1. Score(spec, result[b]) < Score(spec, result[d])
          /\ Score(spec, result[d]) \in Int /\ Score(spec, result[b]) \in Int
      BY <1>1, <1>2, DominatorScoresMore
    <2> QED
      BY <2>1
  <1> QED
    BY <1>2 DEF ParetoFront

\* With power as the only objective, the score is less power.
LEMMA PowerScore ==
  ASSUME NEW s, s.objectives = PowerOnly, NEW m, m.power \in Nat
  PROVE  Score(s, m) = -m.power
  <1>1. PICK o : o = [metric |-> "power", dir |-> "min", weight |-> 1]
    OBVIOUS
  <1>2. DOMAIN s.objectives = 1..1 /\ s.objectives[1] = o
    BY <1>1 DEF PowerOnly
  <1>3. o.metric = "power" /\ o.dir = "min" /\ o.weight = 1
    BY <1>1
  <1> DEFINE val(x) == IF m[x.metric] = None THEN 0 ELSE x.weight * Signed(x, m)
             f == [i \in {1} |-> val(s.objectives[i])]
  <1>4. m["power"] \in Nat /\ m["power"] # None
    BY DEF None
  <1>5. f[1] = -m.power
    BY <1>2, <1>3, <1>4 DEF Signed
  <1>6. Score(s, m) = SumFunction(f)
    <2>1. 1..1 = {1}
      OBVIOUS
    <2> QED
      BY <1>2, <2>1 DEF Score, Total
  <1>7. DOMAIN f = {1}
    OBVIOUS
  <1> HIDE DEF f
  <1>8. f[1] \in Int
    BY <1>4, <1>5
  <1>9. SumFunctionOnSet(f, {1}) = f[1]
    BY <1>8, SumOfOne
  <1> QED
    BY <1>5, <1>6, <1>7, <1>9, SumOfFunction

------------------------------------------------------------------------------
(* The candidates, step by step *)

\* A candidate stands for an allocation, whose power can be estimated.
LEMMA CandidatePower ==
  ASSUME StageInv, main \in {"pool", "report"}, NEW c \in Candidates
  PROVE  /\ AllocationPower(spec, c[1]) \in Nat
         /\ \E n \in Allocations(spec) : c[1] = Signature(n)
  <1>1. IsSpec(spec) /\ allocs \in Seq(Placed)
    BY DEF StageInv
  <1>2. PICK a \in ToSet(allocs), bt \in spec.batchTokens : c = <<a.sig, bt>>
    BY DEF Candidates
  <1>3. PICK i \in DOMAIN allocs : a = allocs[i]
    BY <1>2 DEF ToSet
  <1>4. allocs[i] \in Placed
    BY <1>1, <1>3, ElementOfSeq, LenProperties
  <1>5. PICK n \in Allocations(spec) : allocs[i] = Allocation(n)
    BY <1>4 DEF Placed
  <1>6. c[1] = Signature(n)
    BY <1>2, <1>3, <1>5 DEF Allocation
  <1> QED
    BY <1>1, <1>6, AllocationPowerIs

\* What a thread finds in the cache.
LEMMA CachedIs == ASSUME EvalInv, NEW c PROVE IsMeasure(Cached(c))
  BY MarksAre DEF EvalInv, Cached, At, Absent

\* What is written to the cache is a measure.
LEMMA CacheHolds ==
  ASSUME EvalInv, NEW c, NEW v, IsMeasure(v), WriteCache(c, v)
  PROVE  \A k \in DOMAIN cache' : IsMeasure(cache'[k])
  BY DEF WriteCache, EvalInv

\* A step of one thread.
LEMMA ThreadEval ==
  ASSUME EvalInv, StageInv, main = "pool", main' = main, UNCHANGED <<spec, stage1, best>>,
         NEW c \in DOMAIN worker, NEW to, worker' = [worker EXCEPT ![c] = to],
         \/ result' = result
         \/ \E m : IsMeasure(m) /\ result' = [result EXCEPT ![c] = m],
         IsMeasure(result'[c]), to # "storing" => HasPower(result'[c]),
         \A k \in DOMAIN cache' : IsMeasure(cache'[k])
  PROVE  EvalInv'
  <1>1. DOMAIN result = DOMAIN worker /\ DOMAIN result \subseteq Candidates /\ best = <<>>
    BY DEF EvalInv
  <1>2. DOMAIN result' = DOMAIN result /\ DOMAIN worker' = DOMAIN worker
    OBVIOUS
  <1>3. Candidates' = Candidates
    BY DEF Candidates, stage1
  <1>4. \A d \in DOMAIN result : d # c => result'[d] = result[d] /\ worker'[d] = worker[d]
    <2>1. CASE result' = result
      BY <1>1, <2>1
    <2>2. CASE \E m : IsMeasure(m) /\ result' = [result EXCEPT ![c] = m]
      BY <1>1, <2>2
    <2> QED
      BY <2>1, <2>2
  <1>5. \A d \in DOMAIN result' : IsMeasure(result'[d])
    BY <1>1, <1>2, <1>4 DEF EvalInv
  <1>6. \A d \in DOMAIN worker' : worker'[d] # "storing" => HasPower(result'[d])
    <2>1. worker'[c] = to
      OBVIOUS
    <2> QED
      BY <1>1, <1>2, <1>4, <2>1 DEF EvalInv
  <1> QED
    BY <1>1, <1>2, <1>3, <1>5, <1>6 DEF EvalInv, FirstStage

\* Every step of a thread: looking, simulating, failing, storing, emitting.
LEMMA EvaluateEval ==
  ASSUME EvalInv, StageInv, StatusInv, Evaluate PROVE EvalInv'
  <1>1. PICK c \in DOMAIN worker : Look(c) \/ Simulated(c) \/ Fails(c) \/ Store(c) \/ Emit(c)
    BY DEF Evaluate
  <1>2. worker[c] # "ended"
    BY <1>1 DEF Look, Simulated, Fails, Store, Emit
  <1>3. main = "pool"
    BY <1>2 DEF StatusInv
  <1>4. /\ c \in DOMAIN result /\ c \in Candidates /\ IsMeasure(result[c])
        /\ worker[c] # "storing" => HasPower(result[c])
    BY <1>3 DEF EvalInv
  <1>5. AllocationPower(spec, c[1]) \in Nat
    BY <1>3, <1>4, CandidatePower
  <1>6. \A k \in DOMAIN cache : IsMeasure(cache[k])
    BY DEF EvalInv
  <1>7. CASE Look(c)
    <2>1. main' = main /\ UNCHANGED <<spec, stage1, best>> /\ cache' = cache
      BY <1>7 DEF Look, disk
    <2>2. CASE result' = result /\ \E to \in {"simulating", "ended"} : worker' = [worker EXCEPT ![c] = to]
      <3>1. PICK to \in {"simulating", "ended"} : worker' = [worker EXCEPT ![c] = to]
        BY <2>2
      <3>2. HasPower(result'[c]) /\ IsMeasure(result'[c])
        BY <1>4, <1>7, <2>2 DEF Look
      <3> QED
        BY <1>3, <1>6, <2>1, <2>2, <3>1, <3>2, ThreadEval
    <2>3. CASE worker' = [worker EXCEPT ![c] = "emitting"] /\ Hold(c, Cached(c))
      <3>1. PICK m : m = WithPower(spec, c[1], Cached(c))
        OBVIOUS
      <3>2. IsMeasure(m) /\ HasPower(m)
        BY <1>5, <3>1, CachedIs, WithPowerIs
      <3>3. result' = [result EXCEPT ![c] = m]
        BY <2>3, <3>1 DEF Hold
      <3>4. result'[c] = m
        BY <1>4, <3>3
      <3> QED
        BY <1>3, <1>6, <2>1, <2>3, <3>2, <3>3, <3>4, ThreadEval
    <2> QED
      BY <1>7, <2>2, <2>3 DEF Look
  <1>8. CASE Simulated(c)
    <2>1. PICK run \in Simulations : result' = [result EXCEPT ![c] = Evaluated(run)]
      BY <1>8 DEF Simulated, Outcomes
    <2>2. PICK m : m = Evaluated(run)
      OBVIOUS
    <2>3. IsMeasure(m) /\ result'[c] = m /\ result' = [result EXCEPT ![c] = m]
      BY <1>4, <2>1, <2>2, SimulatedIs
    <2>4. \A k \in DOMAIN cache' : IsMeasure(cache'[k])
      BY <1>8, CacheHolds, MarksAre DEF Simulated, Partial
    <2>5. main' = main /\ UNCHANGED <<spec, stage1, best>> /\ worker' = [worker EXCEPT ![c] = "storing"]
      BY <1>8 DEF Simulated
    <2> QED
      BY <1>3, <2>3, <2>4, <2>5, ThreadEval
  <1>9. CASE Fails(c)
    <2>1. /\ main' = main /\ UNCHANGED <<spec, stage1, best>> /\ cache' = cache
          /\ worker' = [worker EXCEPT ![c] = "ended"] /\ result' = result /\ worker[c] = "simulating"
      BY <1>9 DEF Fails, disk
    <2> QED
      BY <1>3, <1>4, <1>6, <2>1, ThreadEval
  <1>10. CASE Store(c)
    <2>1. PICK m : m = WithPower(spec, c[1], result[c])
      OBVIOUS
    <2>2. IsMeasure(m) /\ HasPower(m)
      BY <1>4, <1>5, <2>1, WithPowerIs
    <2>3. result' = [result EXCEPT ![c] = m] /\ result'[c] = m
      BY <1>4, <1>10, <2>1 DEF Store, Hold
    <2>4. \A k \in DOMAIN cache' : IsMeasure(cache'[k])
      BY <1>4, <1>10, CacheHolds DEF Store
    <2>5. main' = main /\ UNCHANGED <<spec, stage1, best>> /\ worker' = [worker EXCEPT ![c] = "emitting"]
      BY <1>10 DEF Store
    <2> QED
      BY <1>3, <2>2, <2>3, <2>4, <2>5, ThreadEval
  <1>11. CASE Emit(c)
    <2>1. /\ main' = main /\ UNCHANGED <<spec, stage1, best>> /\ cache' = cache
          /\ worker' = [worker EXCEPT ![c] = "ended"] /\ result' = result /\ worker[c] = "emitting"
      BY <1>11 DEF Emit
    <2> QED
      BY <1>3, <1>4, <1>6, <2>1, ThreadEval
  <1> QED
    BY <1>1, <1>7, <1>8, <1>9, <1>10, <1>11

\* Expansion names the candidates.
LEMMA ExpandEval == ASSUME EvalInv, Expand PROVE EvalInv'
  <1>1. result = <<>> /\ best = <<>> /\ best' = best /\ cache' = cache /\ main' \notin FirstStage
    BY DEF EvalInv, Expand, FirstStage
  <1>2. PICK C : C = Candidates
    OBVIOUS
  <1>3. Candidates' = C
    BY <1>2 DEF Expand, Candidates, stage1
  <1>4. /\ main' \in {"pool", "report"} /\ result' = [c \in C |-> Unknown]
        /\ main' = "pool" => worker' = [c \in C |-> "submitted"]
    BY <1>2 DEF Expand
  <1>5. IsMeasure(Unknown) /\ HasPower(Unknown)
    BY MarksAre DEF Unknown
  <1>6. /\ DOMAIN result' = C /\ \A c \in C : result'[c] = Unknown
        /\ main' = "pool" => DOMAIN worker' = C
    BY <1>4
  <1> QED
    BY <1>1, <1>3, <1>4, <1>5, <1>6 DEF EvalInv, FirstStage

\* What stands of the results stays, and the pool is not entered.
LEMMA EvalStays ==
  ASSUME EvalInv, UNCHANGED <<result, cache>>, main' # "pool",
         main' \in FirstStage => main \in FirstStage /\ best' = best,
         main' = "report" => main = "report" /\ UNCHANGED <<spec, allocs>>
  PROVE  EvalInv'
  <1>1. Candidates' = Candidates \/ main' # "report"
    BY DEF Candidates
  <1> QED
    BY <1>1 DEF EvalInv

\* A run begins without results.
LEMMA EvalBegins ==
  ASSUME EvalInv, main' = "start", result' = <<>>, best' = <<>>, cache' = cache
  PROVE  EvalInv'
  BY NobodyIn DEF EvalInv

\* EvalInv is kept.
LEMMA EvalStep ==
  ASSUME EvalInv, StageInv, StatusInv, [ServeNext]_serveVars PROVE EvalInv'
  <1>1. CASE UNCHANGED vars
    <2>1. Candidates' = Candidates
      BY <1>1 DEF Candidates, vars, stage1
    <2> QED
      BY <1>1, <2>1 DEF EvalInv, vars, disk
  <1>2. CASE Plan /\ ~UNCHANGED vars
    <2>1. PICK s : Begin(s)
      BY <1>2 DEF Plan, Refuse, Fail, Routed
    <2> QED
      BY <1>2, <2>1, EvalBegins DEF Begin, disk
  <1>3. CASE Answer
    BY <1>3, EvalStays DEF Answer, FirstStage, disk
  <1>4. CASE Engine
    <2>1. CASE Solve
      BY <2>1, EvalStays DEF Solve, StartSweep, PowerLevel, Diversity, Anchors, EpsilonLevel, FirstStage, disk
    <2>2. CASE Evaluate
      BY <2>2, EvaluateEval
    <2>3. CASE Expand
      BY <2>3, ExpandEval
    <2>4. CASE Raise
      BY <2>4, EvalStays DEF Raise, FirstStage
    <2>5. CASE Rank
      <3>1. main = "pool" /\ main' = "report" /\ AllEnded /\ UNCHANGED <<spec, allocs, worker, result, cache>>
        BY <2>5 DEF Rank
      <3>2. Candidates' = Candidates
        BY <3>1 DEF Candidates
      <3> QED
        BY <3>1, <3>2 DEF EvalInv, FirstStage, AllEnded
    <2> QED
      BY <1>4, <2>1, <2>2, <2>3, <2>4, <2>5 DEF Engine
  <1>5. CASE Server
    BY <1>5, EvalStays DEF Server, Report, Finish, FirstStage
  <1>6. CASE Again
    BY <1>6, EvalBegins DEF Again, Rerun, disk
  <1>7. CASE Die
    BY <1>7, EvalStays DEF Die, Crash, FirstStage, disk
  <1>8. CASE Failed \/ Move \/ Replan \/ UNCHANGED serveVars
    BY <1>1, <1>8 DEF Failed, Move, Replan, serveVars
  <1> QED
    BY <1>1, <1>2, <1>3, <1>4, <1>5, <1>6, <1>7, <1>8 DEF ServeNext, Serve

LEMMA EvalInit == ServeInit => EvalInv
  <1> SUFFICES ASSUME ServeInit PROVE EvalInv
    OBVIOUS
  <1>1. result = <<>> /\ best = <<>> /\ cache = <<>> /\ main \in {"start", "idle"}
    BY DEF ServeInit, Init, Idle
  <1> QED
    BY <1>1, NobodyIn DEF EvalInv, FirstStage

\* EvalInv holds throughout: what the cache and the results hold can be ranked (_eval, evaluate).
THEOREM EvalInvariant == ServeSpecification => []EvalInv
  BY StageInvariant, StatusInvariant, EvalInit, EvalStep, PTL DEF ServeSpecification

------------------------------------------------------------------------------
(* The status, step by step *)

\* Reports, once written, stay; only a rerun counts.
LEMMA RunsStay ==
  ASSUME [ServeNext]_serveVars PROVE (reports => reports') /\ (~Again => runs' = runs)
  <1>1. CASE Plan
    <2>1. UNCHANGED vars \/ \E s : Begin(s)
      BY <1>1 DEF Plan, Refuse, Fail, Routed
    <2> QED
      BY <2>1 DEF Begin, vars, disk
  <1>2. CASE Answer \/ Failed \/ Move \/ Replan \/ UNCHANGED serveVars
    BY <1>2 DEF Answer, Failed, Move, Replan, serveVars, vars, disk
  <1>3. CASE Engine
    <2>1. CASE Solve
      BY <2>1 DEF Solve, StartSweep, PowerLevel, Diversity, Anchors, EpsilonLevel, disk
    <2>2. CASE Evaluate
      BY <2>2 DEF Evaluate, Look, Simulated, Fails, Store, Emit, disk
    <2>3. CASE Expand \/ Raise \/ Rank
      BY <2>3 DEF Expand, Raise, Rank
    <2> QED
      BY <1>3, <2>1, <2>2, <2>3 DEF Engine
  <1>4. CASE Server \/ Again \/ Die
    BY <1>4 DEF Server, Report, Finish, Again, Rerun, Die, Crash, disk
  <1> QED
    BY <1>1, <1>2, <1>3, <1>4 DEF ServeNext, Serve

\* The spec of a job with a status is replaced by none.
LEMMA SpecStays ==
  ASSUME StatusInv, [ServeNext]_serveVars, status # NoStatus PROVE spec' = spec
  <1>1. phase = "direct"
    BY DEF StatusInv
  <1>2. CASE Serve \/ Move \/ Replan \/ UNCHANGED serveVars
    BY <1>1, <1>2 DEF Serve, Plan, Answer, Failed, Move, Replan, serveVars, vars
  <1>3. CASE Engine
    BY <1>3 DEF Engine, Solve, StartSweep, PowerLevel, Diversity, Anchors, EpsilonLevel, Evaluate,
       Look, Simulated, Fails, Store, Emit, Expand, Raise, Rank
  <1>4. CASE Server \/ Again \/ Die
    BY <1>4 DEF Server, Report, Finish, Again, Rerun, Die, Crash
  <1> QED
    BY <1>2, <1>3, <1>4 DEF ServeNext

\* A job that is done has no step left that could undo it.
LEMMA DoneStays ==
  ASSUME DoneIsComplete, StatusInv, [ServeNext]_serveVars, status.state = "done"
  PROVE  DoneIsComplete'
  <1>1. status' = status
    BY StatusStep DEF Terminal
  <1>2. reports => reports'
    BY RunsStay
  <1>3. ASSUME Watched' PROVE UNCHANGED <<spec, best, pareto>> /\ Watched
    <2>1. status # NoStatus /\ phase = "direct"
      BY <1>1, <1>3 DEF Watched, StatusInv
    <2>2. CASE Again
      BY <1>3, <2>2 DEF Again, Rerun, Watched, StatusInv
    <2>3. CASE runs' = runs /\ ~Again
      <3>1. main \in {"ended", "killed"}
        BY <1>3, <2>3 DEF StatusInv, Watched, Terminal
      <3>2. UNCHANGED vars
        BY <2>1, <2>3, <3>1 DEF ServeNext, serveVars, Serve, Plan, Answer, Failed, Engine,
           Solve, StartSweep, PowerLevel, Diversity, Anchors, EpsilonLevel, Evaluate, Look, Simulated, Fails,
           Store, Emit, StatusInv, Expand, Raise, Rank, Server, Report, Finish, Die, Crash, Move, Replan
      <3> QED
        BY <1>1, <1>3, <2>3, <3>2 DEF vars, Watched
    <2>4. Again \/ runs' = runs
      BY RunsStay
    <2> QED
      BY <2>2, <2>3, <2>4
  <1>4. /\ \A c \in DOMAIN status'.cand : status'.cand[c] = "pending" <=> spec'.dry
        /\ spec'.dry => status'.best = <<>>
    <2>1. spec' = spec
      BY SpecStays DEF NoStatus
    <2> QED
      BY <1>1, <2>1 DEF DoneIsComplete
  <1>5. reports'
    BY <1>2 DEF DoneIsComplete
  <1>6. Watched' /\ best' # <<>> /\ (\A o \in ToSet(spec'.objectives) : o.weight > 0) => best' \in pareto'
    BY <1>3 DEF DoneIsComplete
  <1> QED
    BY <1>4, <1>5, <1>6 DEF DoneIsComplete

\* A step at which the pool, the reports and the status are left alone.
LEMMA MirrorStays ==
  ASSUME MirrorInv, StatusInv, [ServeNext]_serveVars, status' = status, DoneIsComplete',
         main' \notin {"pool", "report", "finish"}
  PROVE  MirrorInv'
  BY SpecStays DEF MirrorInv, Mirrored

\* In a step of one thread the status tells what has become of its candidate.
LEMMA EvaluateMirror ==
  ASSUME MirrorInv, EvalInv, StatusInv, Evaluate, UNCHANGED planVars PROVE Mirrored'
  <1>1. PICK c \in DOMAIN worker : Look(c) \/ Simulated(c) \/ Fails(c) \/ Store(c) \/ Emit(c)
    BY DEF Evaluate
  <1>2. worker[c] # "ended"
    BY <1>1 DEF Look, Simulated, Fails, Store, Emit
  <1>3. main = "pool" /\ main' = main /\ runs' = runs /\ spec' = spec /\ ~spec.dry
    BY <1>1, <1>2 DEF StatusInv, Look, Simulated, Fails, Store, Emit, MirrorInv, Mirrored
  <1>4. DOMAIN worker' = DOMAIN worker /\ \A d \in DOMAIN worker : d # c => worker'[d] = worker[d]
    BY <1>1 DEF Look, Simulated, Fails, Store, Emit
  <1>5. raised => raised'
    BY <1>1 DEF Look, Simulated, Fails, Store, Emit
  <1>6. CASE Emit(c)
    <2>1. CASE Watched
      <3>1. PICK v \in {"infeasible", "done"} : status' = [status EXCEPT !.cand[c] = v]
        BY <1>6, <2>1 DEF Emit, Mutate
      <3>2. DOMAIN status' = DOMAIN status /\ status'.cand = [status.cand EXCEPT ![c] = v]
        BY <3>1 DEF MirrorInv, Mirrored
      <3>3. DOMAIN status.cand = DOMAIN worker
        BY <1>3, <2>1 DEF MirrorInv, Mirrored
      <3>4. status'.cand[c] # "pending" /\ \A d \in DOMAIN worker : d # c => status'.cand[d] = status.cand[d]
        BY <3>2, <3>3
      <3> QED
        BY <1>3, <1>4, <1>5, <2>1, <3>2, <3>3, <3>4 DEF MirrorInv, Mirrored
    <2>2. CASE ~Watched
      BY <1>3, <1>6, <2>2 DEF Emit, Mutate, Watched, MirrorInv, Mirrored
    <2> QED
      BY <2>1, <2>2
  <1>7. CASE ~Emit(c)
    <2>1. status' = status /\ (worker'[c] = "ended" => raised')
      BY <1>1, <1>7 DEF Look, Simulated, Fails, Store, disk
    <2> QED
      BY <1>3, <1>4, <1>5, <2>1 DEF MirrorInv, Mirrored, Watched
  <1> QED
    BY <1>6, <1>7

\* The "stage1" event lists the candidates.
LEMMA ExpandMirror ==
  ASSUME MirrorInv, EvalInv, StatusInv, Expand PROVE Mirrored'
  <1>1. runs' = runs /\ best' = <<>>
    BY DEF Expand, EvalInv, FirstStage
  <1>2. /\ Watched' => Watched
        /\ DOMAIN status' = {"state", "cand", "best"}
        /\ Watched => status'.cand = [c \in Candidates |-> "pending"]
    <2>1. CASE Watched
      BY <2>1 DEF Expand, Mutate, MirrorInv, Mirrored
    <2>2. CASE ~Watched
      BY <1>1, <2>2 DEF Expand, Mutate, Watched, MirrorInv, Mirrored
    <2> QED
      BY <2>1, <2>2
  <1>3. spec' = spec /\ (status' # NoStatus /\ spec.dry => status'.best = <<>>)
    <2>1. CASE Watched
      <3>1. status'.best = status.best /\ status # NoStatus
        BY <2>1 DEF Expand, Mutate, MirrorInv, Mirrored, Watched
      <3> QED
        BY <3>1 DEF Expand, MirrorInv, Mirrored
    <2>2. CASE ~Watched
      BY <2>2 DEF Expand, Mutate, MirrorInv, Mirrored
    <2> QED
      BY <2>1, <2>2
  <1>4. CASE allocs = <<>>
    <2>1. Candidates = {}
      BY <1>4, NobodyIn DEF Candidates, ToSet
    <2>2. main' = "report"
      BY <1>4 DEF Expand
    <2> QED
      BY <1>1, <1>2, <1>3, <2>1, <2>2 DEF Mirrored
  <1>5. CASE spec.dry
    <2>1. main' = "report"
      BY <1>5 DEF Expand
    <2>2. Watched' => \A c \in DOMAIN status'.cand : status'.cand[c] = "pending"
      BY <1>2
    <2> QED
      BY <1>1, <1>2, <1>3, <1>5, <2>1, <2>2 DEF Mirrored
  <1>6. CASE allocs # <<>> /\ ~spec.dry
    <2>1. main' = "pool" /\ worker' = [c \in Candidates |-> "submitted"]
      BY <1>6 DEF Expand
    <2> QED
      BY <1>2, <1>3, <1>6, <2>1 DEF Mirrored
  <1> QED
    BY <1>4, <1>5, <1>6

\* The ranking: all threads have ended, nothing was raised, so nothing is pending.
LEMMA RankMirror ==
  ASSUME MirrorInv, EvalInv, StageInv, Rank PROVE Mirrored'
  <1>1. /\ main = "pool" /\ main' = "report" /\ ~raised /\ AllEnded
        /\ UNCHANGED <<runs, spec, result, worker>> /\ pareto' = ParetoFront(spec, Passing, result)
        /\ ~spec.dry
    BY DEF Rank, MirrorInv, Mirrored
  <1>2. best' # <<>> /\ AllCount' => best' \in pareto'
    <2> SUFFICES ASSUME best' # <<>>, AllCount PROVE best' \in pareto'
      BY <1>1 DEF AllCount
    <2>1. best = <<>>
      BY <1>1 DEF EvalInv
    <2>2. PICK b \in Passing : /\ \A c \in Passing : Score(spec, result[c]) <= Score(spec, result[b])
                               /\ best' = b
      BY <2>1 DEF Rank
    <2>3. IsSpec(spec)
      BY <1>1 DEF StageInv
    <2> QED
      BY <1>1, <2>2, <2>3, BestIsOnFront DEF EvalInv
  <1>3. /\ DOMAIN status' = {"state", "cand", "best"}
        /\ Watched' => Watched
        /\ status'.cand = status.cand
    <2>1. CASE Watched
      BY <2>1 DEF Rank, Mutate, MirrorInv, Mirrored
    <2>2. CASE ~Watched
      BY <1>1, <2>2 DEF Rank, Mutate, Watched, MirrorInv, Mirrored
    <2> QED
      BY <2>1, <2>2
  <1>4. Watched => \A c \in DOMAIN status.cand : status.cand[c] # "pending"
    BY <1>1 DEF AllEnded, MirrorInv, Mirrored
  <1> QED
    BY <1>1, <1>2, <1>3, <1>4 DEF Mirrored

\* Only the end of a run makes a job done.
LEMMA DoneBegins ==
  ASSUME MirrorInv, [ServeNext]_serveVars, status.state # "done", ~Server PROVE DoneIsComplete'
  <1>1. CASE Plan
    <2>1. UNCHANGED vars \/ \E s : Begin(s)
      BY <1>1 DEF Plan, Refuse, Fail, Routed
    <2> QED
      BY <2>1 DEF Begin, vars, disk, DoneIsComplete
  <1>2. CASE Answer \/ Failed \/ Move \/ Replan \/ UNCHANGED serveVars \/ Again \/ Die
    BY <1>2 DEF Answer, Failed, Move, Replan, serveVars, vars, disk, Again, Rerun, Die, Crash, DoneIsComplete
  <1>3. CASE Engine
    <2>1. CASE Solve
      BY <2>1 DEF Solve, StartSweep, PowerLevel, Diversity, Anchors, EpsilonLevel, disk, DoneIsComplete
    <2>2. CASE Evaluate
      <3>1. PICK c \in DOMAIN worker : Look(c) \/ Simulated(c) \/ Fails(c) \/ Store(c) \/ Emit(c)
        BY <2>2 DEF Evaluate
      <3>2. status'.state = status.state
        BY <3>1 DEF Look, Simulated, Fails, Store, Emit, Mutate, disk, MirrorInv, Mirrored
      <3> QED
        BY <3>2 DEF DoneIsComplete
    <2>3. CASE Expand \/ Raise \/ Rank
      <3>1. status'.state # "done"
        BY <2>3 DEF Expand, Raise, Rank, Mutate, MirrorInv, Mirrored
      <3> QED
        BY <3>1 DEF DoneIsComplete
    <2> QED
      BY <1>3, <2>1, <2>2, <2>3 DEF Engine
  <1> QED
    BY <1>1, <1>2, <1>3 DEF ServeNext, Serve

\* Reports come before the end.
LEMMA ServerMirror ==
  ASSUME MirrorInv, StatusInv, Server PROVE MirrorInv'
  <1>1. CASE Report
    <2>1. /\ main = "report" /\ main' = "finish" /\ reports'
          /\ UNCHANGED <<status, runs, best, pareto, spec>>
      BY <1>1 DEF Report
    <2>2. (AllCount' <=> AllCount) /\ (Watched' <=> Watched)
      BY <2>1 DEF AllCount, Watched
    <2>3. Mirrored'
      BY <2>1, <2>2 DEF MirrorInv, Mirrored
    <2>4. DoneIsComplete'
      BY <2>1, <2>2 DEF MirrorInv, DoneIsComplete
    <2> QED
      BY <2>3, <2>4 DEF MirrorInv
  <1>2. CASE Finish
    <2>1. /\ main = "finish" /\ main' = "ended" /\ reports /\ reports'
          /\ UNCHANGED <<runs, best, pareto, spec>>
      BY <1>2 DEF Finish, MirrorInv, Mirrored
    <2>2. AllCount' <=> AllCount
      BY <2>1 DEF AllCount
    <2>3. CASE Watched
      <3>1. DOMAIN status' = {"state", "cand", "best"} /\ UNCHANGED <<status.cand, status.best>>
        BY <1>2, <2>3 DEF Finish, Mutate, MirrorInv, Mirrored
      <3>2. spec.dry => status.best = <<>>
        BY <2>3 DEF MirrorInv, Mirrored, Watched
      <3>3. Mirrored'
        BY <2>1, <3>1, <3>2 DEF Mirrored
      <3>4. best # <<>> /\ AllCount => best \in pareto
        BY <2>1 DEF MirrorInv, Mirrored
      <3>5. \A c \in DOMAIN status.cand : status.cand[c] = "pending" <=> spec.dry
        BY <2>1, <2>3 DEF MirrorInv, Mirrored
      <3>6. DoneIsComplete'
        BY <2>1, <2>2, <3>1, <3>4, <3>5, <3>2 DEF DoneIsComplete, AllCount
      <3> QED
        BY <3>3, <3>6 DEF MirrorInv
    <2>4. CASE ~Watched
      <3>1. status' = status /\ ~Watched'
        BY <1>2, <2>1, <2>4 DEF Finish, Mutate, Watched
      <3> QED
        BY <2>1, <3>1 DEF MirrorInv, Mirrored, DoneIsComplete
    <2> QED
      BY <2>3, <2>4
  <1> QED
    BY <1>1, <1>2 DEF Server

\* MirrorInv is kept.
LEMMA MirrorStep ==
  ASSUME MirrorInv, EvalInv, StageInv, StatusInv, [ServeNext]_serveVars PROVE MirrorInv'
  <1>1. CASE Server
    BY <1>1, ServerMirror
  <1>2. CASE ~Server
    <2>1. DoneIsComplete'
      BY <1>2, DoneStays, DoneBegins DEF MirrorInv
    <2>2. CASE UNCHANGED vars
      BY <2>1, <2>2 DEF vars, disk, MirrorInv, Mirrored, Watched, AllCount
    <2>3. CASE Plan /\ ~UNCHANGED vars
      <3>1. PICK s : Begin(s)
        BY <2>3 DEF Plan, Refuse, Fail, Routed
      <3> QED
        BY <2>1, <2>3, <3>1, MirrorStays DEF Begin, disk
    <2>4. CASE Answer
      BY <2>1, <2>4, MirrorStays DEF Answer, disk
    <2>5. CASE Engine
      <3>1. CASE Solve
        BY <2>1, <3>1, MirrorStays DEF Solve, StartSweep, PowerLevel, Diversity, Anchors, EpsilonLevel, disk
      <3>2. CASE Evaluate
        BY <2>1, <2>5, <3>2, EvaluateMirror DEF Engine, MirrorInv
      <3>3. CASE Expand
        BY <2>1, <3>3, ExpandMirror DEF MirrorInv
      <3>4. CASE Raise
        <4>1. DOMAIN status' = DOMAIN status /\ main' = "ended"
          BY <3>4 DEF Raise, Mutate, MirrorInv, Mirrored
        <4>2. spec' = spec /\ (status' # NoStatus /\ spec.dry => status'.best = <<>>)
          BY <3>4 DEF Raise, MirrorInv, Mirrored
        <4> QED
          BY <2>1, <4>1, <4>2 DEF MirrorInv, Mirrored
      <3>5. CASE Rank
        BY <2>1, <3>5, RankMirror DEF MirrorInv
      <3> QED
        BY <2>5, <3>1, <3>2, <3>3, <3>4, <3>5 DEF Engine
    <2>6. CASE Again
      BY <2>1, <2>6, MirrorStays DEF Again, Rerun, disk
    <2>7. CASE Die
      BY <2>1, <2>7, MirrorStays DEF Die, Crash, disk
    <2>8. CASE Failed \/ Move \/ Replan \/ UNCHANGED serveVars
      BY <2>2, <2>8 DEF Failed, Move, Replan, serveVars
    <2> QED
      BY <1>2, <2>2, <2>3, <2>4, <2>5, <2>6, <2>7, <2>8 DEF ServeNext, Serve
  <1> QED
    BY <1>1, <1>2

LEMMA MirrorInit == ServeInit => MirrorInv
  <1> SUFFICES ASSUME ServeInit PROVE MirrorInv
    OBVIOUS
  <1>1. main \in {"start", "idle"} /\ status \in {NoStatus, [NoStatus EXCEPT !.state = "queued"]}
    BY DEF ServeInit, Init
  <1>2. DOMAIN status = {"state", "cand", "best"} /\ status.state # "done" /\ status.best = <<>>
    BY <1>1 DEF NoStatus
  <1> QED
    BY <1>1, <1>2 DEF MirrorInv, Mirrored, DoneIsComplete

\* MirrorInv holds throughout (_mutate_status against the pool).
THEOREM MirrorInvariant == ServeSpecification => []MirrorInv
  BY EvalInvariant, StageInvariant, StatusInvariant, MirrorInit, MirrorStep, PTL DEF ServeSpecification

\* A job that says it is done has its reports and has no pending candidate, but for a dry
\* run, all of whose candidates are pending and which names no best; otherwise, if all
\* objectives count, its best is dominated by none (run_spec, write_reports, objective.py).
THEOREM DoneJobsAreComplete == ServeSpecification => []DoneIsComplete
  <1>1. MirrorInv => DoneIsComplete
    BY DEF MirrorInv
  <1> QED
    BY <1>1, MirrorInvariant, PTL

------------------------------------------------------------------------------
(* The answer, step by step *)

\* What a candidate is placed on, the spec has.
LEMMA CandidateHardware ==
  ASSUME StageInv, main \in {"pool", "report"}, NEW c \in Candidates, NEW p \in c[1]
  PROVE  \E d \in spec.devices : d.hw = p[1].hw
  <1>1. PICK n \in Allocations(spec) : c[1] = Signature(n)
    BY CandidatePower
  <1>2. PICK T : T = Templates(spec)
    OBVIOUS
  <1>3. n \in [T -> Nat]
    BY <1>2, AllocationsAre DEF StageInv
  <1>4. PICK t \in DOMAIN n : p = <<t, n[t]>>
    BY <1>1 DEF Signature
  <1>5. t \in T /\ p[1] = t
    BY <1>3, <1>4
  <1> QED
    BY <1>2, <1>5 DEF Templates

\* What passed has a power.
LEMMA PassingPower ==
  ASSUME EvalInv, main = "report", NEW c \in Passing
  PROVE  c \in DOMAIN result /\ c \in Candidates /\ result[c].power \in Nat
  <1>1. c \in DOMAIN result /\ result[c].kind = "metrics"
    BY DEF Passing, Satisfies
  <1> QED
    BY <1>1 DEF EvalInv, IsMeasure, HasPower

\* The winner draws least among those that passed, within the cap if there is one.
LEMMA WinnerIs ==
  ASSUME AnswerInv, EvalInv, phase = "planning", main = "report", NEW c \in Winners, c # <<>>
  PROVE  /\ c \in Passing /\ (request.cap = None \/ result[c].power <= request.cap)
         /\ \A d \in Passing : request.cap = None \/ result[d].power <= request.cap
                                 => result[c].power <= result[d].power
  <1>1. CASE request.cap = None
    <2>1. c = best
      BY <1>1 DEF Winners
    <2>2. c \in Passing /\ \A d \in Passing : Score(spec, result[d]) <= Score(spec, result[c])
      BY <2>1 DEF AnswerInv
    <2>3. ASSUME NEW d \in Passing PROVE Score(spec, result[d]) = -result[d].power /\ result[d].power \in Nat
      <3>1. result[d].power \in Nat
        BY PassingPower
      <3>2. spec.objectives = PowerOnly
        BY DEF AnswerInv
      <3> QED
        BY <3>1, <3>2, PowerScore
    <2>4. \A d \in Passing : result[c].power <= result[d].power
      <3> TAKE d \in Passing
      <3> QED
        BY <2>2, <2>3
    <2> QED
      BY <1>1, <2>2, <2>4
  <1>2. CASE request.cap # None
    BY <1>2 DEF Winners
  <1> QED
    BY <1>1, <1>2

\* The answer to a request.
LEMMA AnswerLeast ==
  ASSUME AnswerInv, EvalInv, StageInv, Answer PROVE AnswerInv'
  <1>1. /\ phase = "planning" /\ main = "report" /\ main' = "ended"
        /\ UNCHANGED <<spec, result, request>> /\ phase' \in {"answered", "failed"}
        /\ answer'.state = "done" => phase' = "answered"
    BY DEF Answer, Fail, Blocked
  <1>2. ASSUME answer'.state = "done" PROVE answer'.best \in Winners /\ answer'.best # <<>>
    BY <1>2 DEF Answer, Fail, Blocked
  <1>3. ASSUME answer'.state = "done" PROVE BestIsLeastPower'
    <2>1. PICK c \in Winners : c = answer'.best /\ c # <<>>
      BY <1>2, <1>3
    <2>2. /\ c \in Passing /\ (request.cap = None \/ result[c].power <= request.cap)
          /\ \A d \in Passing : request.cap = None \/ result[d].power <= request.cap
                                  => result[c].power <= result[d].power
      BY <1>1, <2>1, WinnerIs
    <2>3. \A p \in c[1] : p[1].hw \notin request.exclude
      <3> TAKE p \in c[1]
      <3>1. c \in Candidates
        BY <1>1, <2>2, PassingPower
      <3>2. \E d \in spec.devices : d.hw = p[1].hw
        BY <1>1, <3>1, CandidateHardware
      <3> QED
        BY <1>1, <3>2 DEF AnswerInv
    <2>4. Passing' = Passing
      BY <1>1 DEF Passing
    <2> QED
      BY <1>1, <2>1, <2>2, <2>3, <2>4 DEF BestIsLeastPower
  <1>4. BestIsLeastPower'
    BY <1>3 DEF BestIsLeastPower
  <1> QED
    BY <1>1, <1>4 DEF AnswerInv

\* The spec of a request aims at power only and has no excluded hardware.
LEMMA PlanAnswer ==
  ASSUME AnswerInv, Plan PROVE AnswerInv'
  <1>1. phase = "pending" /\ answer.state # "done"
    BY DEF Plan, AnswerInv
  <1>2. answer'.state # "done"
    BY <1>1 DEF Plan, Refuse, Blocked, Fail, Routed, Begin
  <1>3. CASE phase' # "planning"
    BY <1>2, <1>3 DEF AnswerInv, BestIsLeastPower
  <1>4. CASE phase' = "planning"
    <2>1. PICK all, allowed, preferred, decision :
            /\ all = AvailableTopology(Registry, free)
            /\ allowed = Without(all, request.exclude)
            /\ Routed(allowed, preferred, decision)
      BY <1>4 DEF Plan, Refuse, Fail
    <2>2. PICK hwTps, topo :
            /\ topo = Without(allowed, Hardware(allowed.devices) \ DOMAIN hwTps)
            /\ Begin(ServeSpec(request, topo, hwTps, decision.backend, generated))
      BY <1>4, <2>1 DEF Routed, Refuse
    <2>3. /\ spec' = ServeSpec(request, topo, hwTps, decision.backend, generated)
          /\ main' = "start" /\ request' = request
      BY <1>4, <2>2 DEF Begin, Fail, Plan
    <2>4. \A d \in topo.devices : d.hw \notin request.exclude
      BY <2>1, <2>2, AvailableDevices, WithoutHardware
    <2>5. spec'.objectives = PowerOnly
      BY <2>3 DEF ServeSpec, PowerOnly
    <2>6. spec'.devices = topo.devices
      BY <2>3 DEF ServeSpec
    <2> QED
      BY <1>2, <2>3, <2>4, <2>5, <2>6 DEF AnswerInv, BestIsLeastPower
  <1> QED
    BY <1>3, <1>4

\* A step of the planner, before the answer.
LEMMA EngineAnswer ==
  ASSUME AnswerInv, EvalInv, StatusInv, Engine PROVE AnswerInv'
  <1>1. UNCHANGED planVars /\ UNCHANGED <<spec, request, phase, answer>>
    BY DEF Engine, planVars, Solve, StartSweep, PowerLevel, Diversity, Anchors, EpsilonLevel,
           Evaluate, Look, Simulated, Fails, Store, Emit, Expand, Raise, Rank
  <1>2. main # "ended"
    BY DEF Engine, Solve, StartSweep, PowerLevel, Diversity, Anchors, EpsilonLevel,
           Evaluate, Look, Simulated, Fails, Store, Emit, Expand, Raise, Rank, StatusInv
  <1>3. answer.state # "done"
    BY <1>2 DEF AnswerInv
  <1>4. ASSUME main' = "report", best' # <<>>
        PROVE  /\ best' \in Passing'
               /\ \A c \in Passing' : Score(spec', result'[c]) <= Score(spec', result'[best'])
    <2>1. CASE Rank
      <3>1. UNCHANGED <<spec, result>> /\ best = <<>>
        BY <2>1 DEF Rank, EvalInv
      <3>2. Passing' = Passing
        BY <3>1 DEF Passing
      <3> QED
        BY <1>4, <2>1, <3>1, <3>2 DEF Rank
    <2>2. CASE Expand
      BY <1>4, <2>2 DEF Expand, EvalInv, FirstStage
    <2>3. CASE Evaluate
      BY <1>4, <2>3 DEF Evaluate, Look, Simulated, Fails, Store, Emit, StatusInv
    <2>4. CASE Solve \/ Raise
      BY <1>4, <2>4 DEF Solve, StartSweep, PowerLevel, Diversity, Anchors, EpsilonLevel, Raise
    <2> QED
      BY <2>1, <2>2, <2>3, <2>4 DEF Engine
  <1> QED
    BY <1>1, <1>3, <1>4 DEF AnswerInv, BestIsLeastPower

\* AnswerInv is kept.
LEMMA AnswerStep ==
  ASSUME AnswerInv, EvalInv, StageInv, StatusInv, [ServeNext]_serveVars PROVE AnswerInv'
  <1>1. CASE Plan
    BY <1>1, PlanAnswer
  <1>2. CASE Answer
    BY <1>2, AnswerLeast
  <1>3. CASE Engine
    BY <1>3, EngineAnswer
  <1>4. CASE Server \/ Again
    <2>1. phase' = "direct" /\ answer' = answer /\ phase = "direct"
      BY <1>4 DEF Server, Again, planVars
    <2> QED
      BY <2>1 DEF AnswerInv, BestIsLeastPower
  <1>5. CASE Die
    <2>1. main' = "killed" /\ main # "ended" /\ UNCHANGED <<spec, request, phase, answer>>
      BY <1>5 DEF Die, Crash, planVars
    <2> QED
      BY <2>1 DEF AnswerInv, BestIsLeastPower
  <1>6. CASE Failed \/ Replan
    <2>1. phase' # "planning" /\ answer'.state # "done"
      BY <1>6 DEF Failed, Fail, Replan, NoAnswer
    <2> QED
      BY <2>1 DEF AnswerInv, BestIsLeastPower
  <1>7. CASE Move \/ UNCHANGED serveVars
    <2>1. UNCHANGED <<spec, main, result, best, request, phase, answer>>
      BY <1>7 DEF Move, serveVars, vars, planVars
    <2>2. Passing' = Passing
      BY <2>1 DEF Passing
    <2> QED
      BY <2>1, <2>2 DEF AnswerInv, BestIsLeastPower
  <1> QED
    BY <1>1, <1>2, <1>3, <1>4, <1>5, <1>6, <1>7 DEF ServeNext, Serve

LEMMA AnswerInit == ServeInit => AnswerInv
  BY DEF ServeInit, NoAnswer, AnswerInv, BestIsLeastPower

\* AnswerInv holds throughout (_default_planner).
THEOREM AnswerInvariant == ServeSpecification => []AnswerInv
  BY EvalInvariant, StageInvariant, StatusInvariant, AnswerInit, AnswerStep, PTL DEF ServeSpecification

\* A recommendation passed its constraints, keeps within the cap and off the excluded
\* hardware, and draws least among those that do (_default_planner after run_spec).
THEOREM AnswerIsLeastPower == ServeSpecification => []BestIsLeastPower
  <1>1. AnswerInv => BestIsLeastPower
    BY DEF AnswerInv
  <1> QED
    BY <1>1, AnswerInvariant, PTL

------------------------------------------------------------------------------
(* Rendering *)

\* What a backend makes of an entry.
ReadTp(s, e) == IF s.backend = "legacy" THEN e.npu_num \div e.npu_group ELSE e.tp_size

\* Both dialects of an entry say the degree.
LEMMA EntryIs ==
  ASSUME NEW s, NEW t, t.tp \in Nat
  PROVE  Entry(s, t).hw = t.hw /\ Entry(s, t).pd_type = t.role /\ ReadTp(s, Entry(s, t)) = t.tp
  <1>1. CASE s.backend = "legacy"
    <2>1. Entry(s, t) = [hw |-> t.hw, pd_type |-> t.role, npu_num |-> t.tp, npu_group |-> 1]
      BY <1>1 DEF Entry
    <2>2. ReadTp(s, Entry(s, t)) = t.tp \div 1
      BY <1>1, <2>1 DEF ReadTp
    <2> QED
      BY <2>1, <2>2
  <1>2. CASE s.backend # "legacy"
    BY <1>2 DEF Entry, ReadTp
  <1> QED
    BY <1>1, <1>2

\* A template is its node, hardware, degree and role.
LEMMA TemplateFields ==
  ASSUME NEW s, NEW t \in Templates(s), NEW u \in Templates(s),
         t.node = u.node, t.hw = u.hw, t.tp = u.tp, t.role = u.role
  PROVE  t = u
  <1>1. \A x \in Templates(s) : x = [node |-> x.node, hw |-> x.hw, tp |-> x.tp, role |-> x.role]
    BY DEF Templates
  <1> QED
    BY <1>1

\* What is read from the file of an allocation for a node.
ReadOf(s, file, v) ==
  {[hw |-> p[1].hw, role |-> p[1].pd_type, tp |-> ReadTp(s, p[1]), n |-> p[2]] : p \in file.nodes[v].instances}
PlacedOn(n, v) ==
  {[hw |-> t.hw, role |-> t.role, tp |-> t.tp, n |-> n[t]] : t \in {u \in DOMAIN n : n[u] > 0 /\ u.node = v}}

\* What is read from a file is what was placed.
LEMMA ReadIs ==
  ASSUME NEW s, NEW n, \A t \in DOMAIN n : t.tp \in Nat, NEW file, file = Rendered(s, Signature(n)),
         NEW v \in DOMAIN file.nodes
  PROVE  ReadOf(s, file, v) = PlacedOn(n, v)
  <1>1. PICK sig : sig = Signature(n)
    OBVIOUS
  <1>2. /\ DOMAIN file.nodes = {p[1].node : p \in sig}
        /\ file.nodes[v].instances = {<<Entry(s, p[1]), p[2]>> : p \in {q \in sig : q[1].node = v}}
    BY <1>1 DEF Rendered
  <1> DEFINE inst(p) == <<Entry(s, p[1]), p[2]>>
             seen(q) == [hw |-> q[1].hw, role |-> q[1].pd_type, tp |-> ReadTp(s, q[1]), n |-> q[2]]
             rec(t) == [hw |-> t.hw, role |-> t.role, tp |-> t.tp, n |-> n[t]]
             U == {u \in DOMAIN n : n[u] > 0 /\ u.node = v}
  <1>3. ASSUME NEW t \in DOMAIN n PROVE seen(inst(<<t, n[t]>>)) = rec(t)
    <2>1. PICK e : e = Entry(s, t)
      OBVIOUS
    <2>2. inst(<<t, n[t]>>) = <<e, n[t]>>
      BY <2>1
    <2>3. e.hw = t.hw /\ e.pd_type = t.role /\ ReadTp(s, e) = t.tp
      BY <2>1, EntryIs
    <2>4. seen(<<e, n[t]>>) = [hw |-> e.hw, role |-> e.pd_type, tp |-> ReadTp(s, e), n |-> n[t]]
      OBVIOUS
    <2> QED
      BY <2>2, <2>3, <2>4
  <1>4. {q \in sig : q[1].node = v} = {<<t, n[t]>> : t \in U}
    BY <1>1 DEF Signature
  <1>5. file.nodes[v].instances = {inst(<<t, n[t]>>) : t \in U}
    <2>1. PICK Q : Q = {q \in sig : q[1].node = v}
      OBVIOUS
    <2>2. file.nodes[v].instances = {inst(p) : p \in Q}
      BY <1>2, <2>1
    <2> DEFINE pair(t) == <<t, n[t]>>
    <2>3. Q = {pair(t) : t \in U}
      BY <1>4, <2>1
    <2> HIDE DEF U, inst, pair
    <2>4. {inst(p) : p \in Q} = {inst(pair(t)) : t \in U}
      BY <2>3
    <2>5. file.nodes[v].instances = {inst(pair(t)) : t \in U}
      BY <2>2, <2>4
    <2> QED
      BY <2>5 DEF pair
  <1>6. ReadOf(s, file, v) = {seen(inst(<<t, n[t]>>)) : t \in U}
    <2>1. ReadOf(s, file, v) = {seen(q) : q \in file.nodes[v].instances}
      BY DEF ReadOf
    <2> HIDE DEF U, seen, inst
    <2> QED
      BY <1>5, <2>1
  <1>7. {seen(inst(<<t, n[t]>>)) : t \in U} = {rec(t) : t \in U}
    <2>1. \A t \in U : seen(inst(<<t, n[t]>>)) = rec(t)
      BY <1>3
    <2> HIDE DEF U, seen, inst, rec
    <2> QED
      BY <2>1
  <1> QED
    BY <1>6, <1>7 DEF PlacedOn

\* What an allocation places on a kind of devices of a node needs no more devices than
\* there are.
LEMMA PlacedFits ==
  ASSUME NEW s, IsSpec(s), NEW n \in Allocations(s), NEW d \in s.devices
  PROVE  SumFunction([i \in {e \in PlacedOn(n, d.node) : e.hw = d.hw} |-> i.tp * i.n]) <= d.count
  <1>1. PICK T : T = Templates(s)
    OBVIOUS
  <1>2. /\ IsFiniteSet(T) /\ n \in [T -> Nat] /\ n \in Structural(s, T) /\ \A t \in T : t.tp \in Nat
    BY <1>1, TemplatesAre, AllocationsAre
  <1>3. d.count \in Nat
    BY DEF IsSpec
  <1> DEFINE S == {t \in T : t.hw = d.hw /\ t.node = d.node}
             W == {t \in S : n[t] > 0}
             rec == [t \in W |-> [hw |-> t.hw, role |-> t.role, tp |-> t.tp, n |-> n[t]]]
             E == {e \in PlacedOn(n, d.node) : e.hw = d.hw}
             f == [i \in E |-> i.tp * i.n]
             h == [t \in S |-> t.tp * n[t]]
  <1>4. SumFunction(h) <= d.count
    <2>1. Sum(S, LAMBDA t : t.tp, n) <= d.count
      BY <1>2 DEF Structural
    <2> QED
      BY <2>1 DEF Sum
  <1>5. \A a, b \in Nat : a * b \in Nat
    OBVIOUS
  <1>6. E = {rec[t] : t \in W}
    <2>1. E \in SUBSET {rec[t] : t \in W}
      <3> SUFFICES ASSUME NEW e \in E PROVE \E t \in W : e = rec[t]
        OBVIOUS
      <3>1. PICK t \in DOMAIN n : /\ n[t] > 0 /\ t.node = d.node
                                  /\ e = [hw |-> t.hw, role |-> t.role, tp |-> t.tp, n |-> n[t]]
        BY DEF PlacedOn
      <3>2. t.hw = d.hw
        BY <3>1
      <3> QED
        BY <1>2, <3>1, <3>2
    <2>2. \A t \in W : rec[t] \in E
      <3> TAKE t \in W
      <3>1. t \in DOMAIN n /\ n[t] > 0 /\ t.node = d.node /\ t.hw = d.hw
        BY <1>2
      <3> QED
        BY <3>1 DEF PlacedOn
    <2> HIDE DEF E, rec, W
    <2> QED
      BY <2>1, <2>2
  <1>7. \A x, y \in W : rec[x] = rec[y] => x = y
    <2> SUFFICES ASSUME NEW x \in W, NEW y \in W, rec[x] = rec[y] PROVE x = y
      OBVIOUS
    <2>1. rec[x].hw = x.hw /\ rec[x].role = x.role /\ rec[x].tp = x.tp
          /\ rec[y].hw = y.hw /\ rec[y].role = y.role /\ rec[y].tp = y.tp
      OBVIOUS
    <2>2. x \in T /\ y \in T /\ x.node = d.node /\ y.node = d.node
      OBVIOUS
    <2> QED
      BY <1>1, <2>1, <2>2, TemplateFields
  <1>8. \A t \in W : rec[t].tp * rec[t].n = t.tp * n[t]
    OBVIOUS
  <1>9. /\ \A t \in S : h[t] = t.tp * n[t] /\ h[t] \in Nat
        /\ \A t \in W : t \in S
        /\ \A t \in S \ W : h[t] = 0
        /\ DOMAIN h = S /\ DOMAIN f = E
        /\ \A e \in E : f[e] = e.tp * e.n
    <2>1. \A t \in S : t.tp \in Nat /\ n[t] \in Nat
      BY <1>2
    <2>2. \A t \in S \ W : n[t] = 0
      BY <2>1
    <2> HIDE DEF E
    <2> QED
      BY <1>5, <2>1, <2>2
  <1>10. S \in SUBSET T /\ W \in SUBSET S /\ rec \in [W -> {rec[t] : t \in W}]
    OBVIOUS
  <1> HIDE DEF S, W, rec, E, f, h
  <1>11. IsFiniteSet(S) /\ IsFiniteSet(W)
    BY <1>2, <1>10, FS_Subset
  <1>12. SumFunctionOnSet(h, S) = SumFunctionOnSet(h, W)
    BY <1>9, <1>10, <1>11, SumOfSupport
  <1>13. \A t \in W : h[t] = f[rec[t]] /\ f[rec[t]] \in Int
    BY <1>6, <1>8, <1>9
  <1>14. SumFunctionOnSet(h, W) = SumFunctionOnSet(f, E)
    <2>1. rec \in [W -> E] /\ (\A y \in E : \E x \in W : rec[x] = y) /\ \A y \in E : f[y] \in Int
      BY <1>6, <1>10, <1>13
    <2> QED
      BY <1>7, <1>11, <1>13, <2>1, SumOfRenamed
  <1>15. SumFunction(h) = SumFunctionOnSet(h, S) /\ SumFunction(f) = SumFunctionOnSet(f, E)
    BY <1>9, SumOfFunction
  <1>16. SumFunction(f) <= d.count
    BY <1>4, <1>12, <1>14, <1>15
  <1> QED
    BY <1>16 DEF f, E

\* Each allocation that is evaluated has been rendered so.
LEMMA RenderedIs == ASSUME StageInv PROVE RenderedAsPlanned
  <1> SUFFICES ASSUME main = "pool", NEW a \in ToSet(allocs)
               PROVE  LET file == Rendered(spec, a.sig)
                      IN /\ \A p \in a.sig : [hw |-> p[1].hw, role |-> p[1].role, tp |-> p[1].tp, n |-> p[2]]
                                                \in ReadOf(spec, file, p[1].node)
                         /\ \A d \in spec.devices : d.node \in DOMAIN file.nodes =>
                              SumFunction([i \in {e \in ReadOf(spec, file, d.node) : e.hw = d.hw} |-> i.tp * i.n])
                                <= d.count
    BY DEF RenderedAsPlanned, ReadOf, ReadTp, SimulatedTp
  <1>1. IsSpec(spec) /\ allocs \in Seq(Placed)
    BY DEF StageInv
  <1>2. PICK i \in DOMAIN allocs : a = allocs[i]
    BY DEF ToSet
  <1>3. allocs[i] \in Placed
    BY <1>1, <1>2, ElementOfSeq, LenProperties
  <1>4. PICK n \in Allocations(spec) : allocs[i] = Allocation(n)
    BY <1>3 DEF Placed
  <1>5. a.sig = Signature(n)
    BY <1>2, <1>4 DEF Allocation
  <1>6. PICK T : T = Templates(spec)
    OBVIOUS
  <1>7. n \in [T -> Nat] /\ \A t \in T : t.tp \in Nat
    BY <1>1, <1>6, TemplatesAre, AllocationsAre
  <1>8. PICK file : file = Rendered(spec, a.sig)
    OBVIOUS
  <1>9. \A v \in DOMAIN file.nodes : ReadOf(spec, file, v) = PlacedOn(n, v)
    BY <1>5, <1>7, <1>8, ReadIs
  <1>10. ASSUME NEW p \in a.sig
         PROVE  [hw |-> p[1].hw, role |-> p[1].role, tp |-> p[1].tp, n |-> p[2]] \in ReadOf(spec, file, p[1].node)
    <2>1. PICK t \in DOMAIN n : n[t] > 0 /\ p = <<t, n[t]>>
      BY <1>5 DEF Signature
    <2>2. p[1].node \in DOMAIN file.nodes
      BY <1>8 DEF Rendered
    <2>3. p[1] = t /\ p[2] = n[t]
      BY <2>1
    <2>4. [hw |-> t.hw, role |-> t.role, tp |-> t.tp, n |-> n[t]] \in PlacedOn(n, t.node)
      BY <2>1 DEF PlacedOn
    <2> QED
      BY <1>9, <2>2, <2>3, <2>4
  <1>11. ASSUME NEW d \in spec.devices, d.node \in DOMAIN file.nodes
         PROVE  SumFunction([i2 \in {e \in ReadOf(spec, file, d.node) : e.hw = d.hw} |-> i2.tp * i2.n]) <= d.count
    <2>1. ReadOf(spec, file, d.node) = PlacedOn(n, d.node)
      BY <1>9, <1>11
    <2>2. SumFunction([i2 \in {e \in PlacedOn(n, d.node) : e.hw = d.hw} |-> i2.tp * i2.n]) <= d.count
      BY <1>1, PlacedFits
    <2> QED
      BY <2>1, <2>2
  <1> QED
    BY <1>8, <1>10, <1>11

\* A cluster file says what was planned, in the dialect of its backend, and asks for no more
\* devices than a node has (config_renderer.render).
THEOREM FilesAsPlanned == ServeSpecification => []RenderedAsPlanned
  BY StageInvariant, RenderedIs, PTL

-------------------------------------------------------------------------------
(* Devices for groups *)

\* Devices that their index tells apart: those of one node and kind.
Indexed(S) ==
  /\ \A d \in S : d[3] \in Nat
  /\ \A d, e \in S : d[3] = e[3] => d = e

\* A list of n elements of S, none of them twice.
ListOf(o, n, S) ==
  /\ o \in [1..n -> S]
  /\ \A j, k \in 1..n : o[j] = o[k] => j = k

\* InOrder lists all the devices, each once.
LEMMA InOrderIs ==
  ASSUME NEW S, IsFiniteSet(S), Indexed(S), NEW n \in Nat, n = Cardinality(S)
  PROVE  ListOf(InOrder(S), n, S)
  <1> DEFINE R == {p \in S \X S : p[1][3] < p[2][3]}
             before == [d \in S |-> Cardinality({e \in S : e[3] < d[3]})]
  <1>1. \A d, e \in S : <<d, e>> \in R <=> d[3] < e[3]
    OBVIOUS
  <1>2. IsStrictOrder(R, S)
    <2> HIDE DEF R
    <2> QED
      BY <1>1 DEF IsStrictOrder, Indexed
  <1>3. DOMAIN before = S /\ \A d \in S : before[d] = Cardinality(Below(S, R, d))
    <2>1. \A d \in S : Below(S, R, d) = {e \in S : e[3] < d[3]}
      <3> HIDE DEF R
      <3> QED
        BY <1>1 DEF Below
    <2> QED
      BY <2>1
  <1>4. InOrder(S) = Listed(before)
    BY DEF InOrder
  <1> HIDE DEF R, before
  <1>5. IsListing(Listed(before), S, n, R)
    BY <1>2, <1>3, ListedInOrder
  <1>6. PICK o : o = InOrder(S)
    OBVIOUS
  <1>7. o \in [1..n -> S] /\ \A j, k \in 1..n : j < k => <<o[j], o[k]>> \in R
    BY <1>4, <1>5, <1>6 DEF IsListing
  <1>8. ASSUME NEW j \in 1..n, NEW k \in 1..n, o[j] = o[k] PROVE j = k
    <2>1. o[j] \in S /\ o[k] \in S /\ o[j][3] \in Nat
      BY <1>7 DEF Indexed
    <2>2. j < k => o[j][3] < o[k][3]
      BY <1>1, <1>7, <2>1
    <2>3. k < j => o[k][3] < o[j][3]
      BY <1>1, <1>7, <2>1
    <2> QED
      BY <1>8, <2>1, <2>2, <2>3
  <1> QED
    BY <1>6, <1>7, <1>8 DEF ListOf

\* A finite set has a least element in a strict order.
LEMMA LeastInOrder ==
  ASSUME NEW S, IsFiniteSet(S), S # {}, NEW R, IsStrictOrder(R, S)
  PROVE  \E x \in S : \A y \in S : y = x \/ <<x, y>> \in R
  <1> DEFINE before == [x \in S |-> Cardinality(Below(S, R, x))]
  <1>1. PICK n \in Nat : n = Cardinality(S) /\ n # 0
    BY FS_CardinalityType, FS_EmptySet
  <1>2. DOMAIN before = S /\ \A x \in S : before[x] = Cardinality(Below(S, R, x))
    OBVIOUS
  <1> HIDE DEF before
  <1>3. IsListing(Listed(before), S, n, R)
    BY <1>1, <1>2, ListedInOrder
  <1>4. PICK o : IsListing(o, S, n, R)
    BY <1>3
  <1>5. o[1] \in S
    BY <1>1, <1>4 DEF IsListing
  <1>6. ASSUME NEW y \in S PROVE y = o[1] \/ <<o[1], y>> \in R
    <2>1. PICK k \in 1..n : o[k] = y
      BY <1>4 DEF IsListing
    <2>2. k = 1 \/ (1 < k /\ 1 \in 1..n)
      OBVIOUS
    <2> QED
      BY <1>4, <2>1, <2>2 DEF IsListing
  <1> QED
    BY <1>5, <1>6

\* Combinations of one length are ordered.
LEMMA BeforeIsOrder ==
  ASSUME NEW S, IsFiniteSet(S), Indexed(S), NEW n \in Nat, NEW T \in SUBSET kSubset(n, S)
  PROVE  IsStrictOrder({p \in T \X T : Before(p[1], p[2])}, T)
  <1> DEFINE R == {p \in T \X T : Before(p[1], p[2])}
  <1>1. \A C, D \in T : <<C, D>> \in R <=> Before(C, D)
    OBVIOUS
  <1> HIDE DEF R
  <1>2. \A C \in T : C \in SUBSET S /\ IsFiniteSet(C) /\ Cardinality(C) = n
    BY FS_Subset DEF kSubset
  <1>3. \A C \in T : ~Before(C, C)
    BY DEF Before
  <1>4. ASSUME NEW C \in T, NEW D \in T, NEW E \in T, Before(C, D), Before(D, E) PROVE Before(C, E)
    <2>1. PICK x \in C \ D : \A y \in D \ C : x[3] < y[3]
      BY <1>4 DEF Before
    <2>2. PICK z \in D \ E : \A y \in E \ D : z[3] < y[3]
      BY <1>4 DEF Before
    <2>3. x \in S /\ z \in S /\ \A y \in E : y \in S
      BY <1>2
    <2>4. x[3] \in Nat /\ z[3] \in Nat /\ \A y \in E : y[3] \in Nat
      BY <2>3 DEF Indexed
    <2>5. x # z
      BY <2>1, <2>2
    <2>6. x[3] # z[3]
      BY <2>3, <2>5 DEF Indexed
    <2>7. CASE x[3] < z[3]
      <3>1. x \in C \ E
        <4>1. x \in E => z[3] < x[3]
          BY <2>1, <2>2
        <4> QED
          BY <2>1, <2>4, <2>7, <4>1
      <3>2. ASSUME NEW y \in E \ C PROVE x[3] < y[3]
        <4>1. y \in D => x[3] < y[3]
          BY <2>1
        <4>2. y \notin D => z[3] < y[3]
          BY <2>2
        <4> QED
          BY <2>4, <2>7, <4>1, <4>2
      <3> QED
        BY <3>1, <3>2 DEF Before
    <2>8. CASE z[3] < x[3]
      <3>1. z \in C \ E
        <4>1. z \notin C => x[3] < z[3]
          BY <2>1, <2>2
        <4> QED
          BY <2>2, <2>4, <2>8, <4>1
      <3>2. ASSUME NEW y \in E \ C PROVE z[3] < y[3]
        <4>1. y \in D => x[3] < y[3]
          BY <2>1
        <4>2. y \notin D => z[3] < y[3]
          BY <2>2
        <4> QED
          BY <2>4, <2>8, <4>1, <4>2
      <3> QED
        BY <3>1, <3>2 DEF Before
    <2> QED
      BY <2>4, <2>6, <2>7, <2>8
  <1>5. ASSUME NEW C \in T, NEW D \in T, C # D PROVE Before(C, D) \/ Before(D, C)
    <2> DEFINE least(U) == CHOOSE x \in U : \A y \in U : x[3] <= y[3]
    <2>1. ASSUME NEW U \in SUBSET S, U # {} PROVE \E x \in U : \A y \in U : x[3] <= y[3]
      <3> DEFINE f == [x \in U |-> x[3]]
                 I == {f[x] : x \in U}
      <3>1. IsFiniteSet(U)
        BY FS_Subset
      <3>2. IsFiniteSet(I)
        <4> HIDE DEF f
        <4> QED
          BY <3>1, ImageIsFinite
      <3>3. I \in SUBSET Int /\ I # {}
        BY <2>1 DEF Indexed
      <3> HIDE DEF I
      <3>4. PICK i \in I : \A j \in I : i <= j
        BY <3>2, <3>3, FiniteSetHasMin
      <3> QED
        BY <3>4 DEF I
    <2>2. C \ D # {} /\ D \ C # {}
      <3>1. C \in SUBSET D => C = D
        BY <1>2, FS_Subset
      <3>2. D \in SUBSET C => C = D
        BY <1>2, FS_Subset
      <3> QED
        BY <1>5, <3>1, <3>2
    <2>3. C \ D \in SUBSET S /\ D \ C \in SUBSET S
      BY <1>2
    <2>4. PICK x \in C \ D : \A y \in C \ D : x[3] <= y[3]
      BY <2>1, <2>2, <2>3
    <2>5. PICK z \in D \ C : \A y \in D \ C : z[3] <= y[3]
      BY <2>1, <2>2, <2>3
    <2>6. x \in S /\ z \in S /\ x # z
      BY <2>3
    <2>7. x[3] \in Nat /\ z[3] \in Nat /\ x[3] # z[3]
      BY <2>6 DEF Indexed
    <2>8. \A y \in S : y[3] \in Nat
      BY DEF Indexed
    <2>9. CASE x[3] < z[3]
      <3>1. \A y \in D \ C : x[3] < y[3]
        BY <2>3, <2>5, <2>7, <2>8, <2>9
      <3> QED
        BY <3>1 DEF Before
    <2>10. CASE z[3] < x[3]
      <3>1. \A y \in C \ D : z[3] < y[3]
        BY <2>3, <2>4, <2>7, <2>8, <2>10
      <3> QED
        BY <3>1 DEF Before
    <2> QED
      BY <2>7, <2>9, <2>10
  <1>6. IsStrictOrder(R, T)
    BY <1>1, <1>3, <1>4, <1>5 DEF IsStrictOrder
  <1> QED
    BY <1>6 DEF R

\* Finitely many links, of bandwidths that are numbers.
Wired(reg) ==
  /\ IsFiniteSet(Links(reg)) /\ \A l \in Links(reg) : l.bw \in Nat
  /\ IsFiniteSet(UNION {n.switches : n \in reg.nodes})

\* The bandwidth between two devices is a number.
LEMMA BetweenIs ==
  ASSUME NEW reg, Wired(reg), NEW u, NEW v
  PROVE  Between(reg, u, v) \in Nat
  <1> DEFINE S == {x \in Links(reg) : {x.a, x.b} = {u, v}}
             f == [l \in S |-> l.bw]
  <1>1. S \in SUBSET Links(reg)
    OBVIOUS
  <1>2. IsFiniteSet(S)
    BY <1>1, FS_Subset DEF Wired
  <1>3. DOMAIN f = S /\ \A l \in S : f[l] = l.bw /\ f[l] \in Nat
    BY DEF Wired
  <1>4. Between(reg, u, v) = SumFunctionOnSet(f, DOMAIN f)
    BY DEF Between, SumFunction
  <1> HIDE DEF f, S
  <1> QED
    BY <1>2, <1>3, <1>4, SumIsNat

\* The affinity of two devices or more is a number.
LEMMA AffinityIs ==
  ASSUME NEW reg, Wired(reg), NEW devs, IsFiniteSet(devs), Cardinality(devs) > 1
  PROVE  Affinity(reg, devs) \in Nat
  <1> DEFINE joined(s) == {d \in devs : \E l \in Links(reg) : {l.a, l.b} = {d, s}}
             inside == {s \in UNION {n.switches : n \in reg.nodes} : Cardinality(joined(s)) >= 2}
             V == devs \cup inside
             sum(A) == [p \in A \X (V \ A) |-> Between(reg, p[1], p[2])]
             cut(A) == SumFunction(sum(A))
             sides == SUBSET V \ {{}, V}
  <1>1. Affinity(reg, devs) = Min({cut(A) : A \in sides})
    BY DEF Affinity
  <1>2. IsFiniteSet(V) /\ devs \subseteq V
    <2>1. inside \in SUBSET (UNION {n.switches : n \in reg.nodes})
      OBVIOUS
    <2>2. IsFiniteSet(inside)
      BY <2>1, FS_Subset DEF Wired
    <2> QED
      BY <2>2, FS_Union
  <1> HIDE DEF V
  <1>3. ASSUME NEW A \in SUBSET V PROVE cut(A) \in Nat
    <2>1. IsFiniteSet(A) /\ IsFiniteSet(V \ A)
      BY <1>2, FS_Subset
    <2>2. IsFiniteSet(A \X (V \ A))
      BY <2>1, FS_Product
    <2> DEFINE f == sum(A)
    <2>3. DOMAIN f = A \X (V \ A) /\ \A p \in A \X (V \ A) : f[p] \in Nat
      BY BetweenIs
    <2>4. cut(A) = SumFunctionOnSet(f, DOMAIN f)
      BY DEF SumFunction
    <2> HIDE DEF f
    <2> QED
      BY <2>2, <2>3, <2>4, SumIsNat
  <1> HIDE DEF cut, sum
  <1>4. IsFiniteSet(sides)
    <2>1. sides \in SUBSET SUBSET V
      OBVIOUS
    <2> QED
      BY <1>2, <2>1, FS_SUBSET, FS_Subset
  <1>5. \E A : A \in sides
    <2>1. PICK d \in devs : TRUE
      BY FS_EmptySet
    <2>2. IsFiniteSet({d}) /\ Cardinality({d}) = 1
      BY FS_Singleton
    <2>3. {d} # V
      <3>1. IsFiniteSet(V) /\ Cardinality(devs) <= Cardinality(V) /\ Cardinality(V) \in Nat /\ Cardinality(devs) \in Nat
        BY <1>2, FS_Subset, FS_CardinalityType
      <3> QED
        BY <2>2, <3>1
    <2> QED
      BY <1>2, <2>1, <2>3
  <1> DEFINE f == [A \in sides |-> cut(A)]
  <1>6. \A A \in sides : f[A] \in Nat
    BY <1>3
  <1>7. {cut(A) : A \in sides} = {f[A] : A \in sides}
    OBVIOUS
  <1> HIDE DEF f, sides
  <1>8. PICK A : A \in sides
    BY <1>5
  <1>9. Min({f[x] : x \in sides}) \in Nat
    BY <1>4, <1>6, <1>8, LeastOfImage
  <1> QED
    BY <1>1, <1>7, <1>9

\* A group that its node has enough devices for takes as many as it needs, each once.
LEMMA TakeIs ==
  ASSUME NEW reg, Wired(reg), NEW S, IsFiniteSet(S), Indexed(S),
         NEW size \in Nat \ {0}, size <= Cardinality(S)
  PROVE  ListOf(Take(reg, S, size), size, S)
  <1> DEFINE listed == [C \in kSubset(size, S) |-> InOrder(C)]
             firsts == {C \in DOMAIN listed :
                        \A D \in DOMAIN listed : Affinity(reg, D) <= Affinity(reg, C)}
             chosen == CHOOSE C \in firsts : \A D \in firsts : D = C \/ Before(C, D)
  <1>1. Take(reg, S, size) = IF size = 1 \/ Cardinality(DOMAIN listed) > MaxCombos
                             THEN SubSeq(InOrder(S), 1, size) ELSE listed[chosen]
    BY DEF Take
  <1>2. PICK n \in Nat : n = Cardinality(S) /\ size <= n
    BY FS_CardinalityType
  <1>3. ListOf(SubSeq(InOrder(S), 1, size), size, S)
    <2>1. PICK o : o = InOrder(S) /\ ListOf(o, n, S)
      BY <1>2, InOrderIs
    <2>2. \A i \in 1..size : o[i] \in S
      BY <1>2, <2>1 DEF ListOf
    <2>3. PICK s : s = SubSeq(o, 1, size)
      OBVIOUS
    <2>4. /\ s \in Seq(S) /\ Len(s) = size
          /\ \A i \in 1..(size - 1 + 1) : s[i] = o[1 + i - 1]
      BY <2>2, <2>3, SubSeqProperties
    <2>5. s \in [1..size -> S] /\ \A i \in 1..size : s[i] = o[i] /\ i \in 1..n
      BY <1>2, <2>4
    <2> QED
      BY <2>1, <2>3, <2>5 DEF ListOf
  <1>4. \A C \in DOMAIN listed : C \in SUBSET S /\ IsFiniteSet(C) /\ Cardinality(C) = size
    BY FS_Subset DEF kSubset
  <1>5. ASSUME size # 1 PROVE listed[chosen] = InOrder(chosen) /\ chosen \in DOMAIN listed
    <2>1. \A C \in DOMAIN listed : Affinity(reg, C) \in Nat
      BY <1>4, <1>5, AffinityIs
    <2>2. IsFiniteSet(DOMAIN listed) /\ DOMAIN listed # {}
      <3>1. DOMAIN listed \in SUBSET SUBSET S
        BY <1>4
      <3>2. IsFiniteSet(DOMAIN listed)
        BY <3>1, FS_SUBSET, FS_Subset
      <3>3. PICK o : ListOf(o, size, S)
        BY <1>3
      <3>4. PICK C : C = {o[i] : i \in 1..size}
        OBVIOUS
      <3>5. C \in SUBSET S
        BY <3>3, <3>4 DEF ListOf
      <3>6. Cardinality(C) = size
        <4>1. PICK U : U = 1..size
          OBVIOUS
        <4>2. o \in Bijection(U, C)
          BY <3>3, <3>4, <4>1 DEF ListOf, Bijection, Surjection, Injection, IsInjective
        <4>3. IsFiniteSet(U) /\ Cardinality(U) = size
          BY ONLY size \in Nat \ {0}, <4>1, FS_Interval
        <4>4. Cardinality(C) = Cardinality(U)
          BY ONLY <4>2, <4>3, FS_Bijection DEF ExistsBijection
        <4> QED
          BY <4>3, <4>4
      <3> QED
        BY <3>2, <3>5, <3>6 DEF kSubset
    <2>3. PICK K : K = DOMAIN listed
      OBVIOUS
    <2>4. firsts # {} /\ firsts \in SUBSET K
      <3> DEFINE f == [C \in K |-> Affinity(reg, C)]
                 I == {f[C] : C \in K}
      <3>1. I \in SUBSET Int /\ I # {}
        BY <2>1, <2>2, <2>3
      <3>2. IsFiniteSet(I)
        <4> HIDE DEF f
        <4> QED
          BY <2>2, <2>3, ImageIsFinite
      <3> HIDE DEF I
      <3>3. PICK i \in I : \A j \in I : j <= i
        BY <3>1, <3>2, FiniteSetHasMax
      <3>4. PICK C \in K : f[C] = i
        BY <3>3 DEF I
      <3>5. \A D \in K : f[D] <= f[C]
        BY <3>3, <3>4 DEF I
      <3> QED
        BY <2>3, <3>4, <3>5
    <2>5. firsts \in SUBSET kSubset(size, S) /\ IsFiniteSet(firsts)
      BY <2>2, <2>3, <2>4, FS_Subset
    <2> HIDE DEF firsts
    <2>6. IsStrictOrder({p \in firsts \X firsts : Before(p[1], p[2])}, firsts)
      BY <2>5, BeforeIsOrder
    <2>7. PICK R : R = {p \in firsts \X firsts : Before(p[1], p[2])}
      OBVIOUS
    <2>8. PICK C \in firsts : \A D \in firsts : D = C \/ <<C, D>> \in R
      BY <2>4, <2>5, <2>6, <2>7, LeastInOrder
    <2>9. \A D \in firsts : D = C \/ Before(C, D)
      BY <2>7, <2>8
    <2>10. chosen \in firsts
      BY <2>9
    <2> HIDE DEF chosen
    <2> QED
      BY <2>3, <2>4, <2>10
  <1>6. ASSUME size # 1 PROVE ListOf(listed[chosen], size, S)
    <2>1. PICK C : C = chosen /\ C \in SUBSET S /\ IsFiniteSet(C) /\ Cardinality(C) = size
      BY <1>4, <1>5, <1>6
    <2>2. Indexed(C)
      BY <2>1 DEF Indexed
    <2>3. ListOf(InOrder(C), size, C)
      BY <2>1, <2>2, InOrderIs
    <2>4. ListOf(InOrder(C), size, S)
      BY <2>1, <2>3 DEF ListOf
    <2> QED
      BY <1>5, <1>6, <2>1, <2>4
  <1> HIDE DEF listed, chosen
  <1> QED
    BY <1>1, <1>3, <1>6

\* Ids of devices: <<node, kind, index>>.
AreIds(S) == \A d \in S : d = <<d[1], d[2], d[3]>> /\ d[3] \in Nat

\* n groups of sizes above 0.
AreGroups(groups, n) == DOMAIN groups = 1..n /\ \A i \in 1..n : groups[i][3] \in Nat \ {0}

\* The free devices of a group's node and kind.
Eligible(unused, group) == {d \in unused : d[1] = group[1] /\ d[2] = group[2]}

\* Groups have nothing yet or what they need, and share no device.
Fitting(reg, unused, groups, n) ==
  {got \in [1..n -> Seq(DeviceIds(reg))] :
     /\ \A i \in 1..n : got[i] = <<>> \/ ListOf(got[i], groups[i][3], Eligible(unused, groups[i]))
     /\ \A i, k \in 1..n : i # k => ToSet(got[i]) \cap ToSet(got[k]) = {}}

\* The local definitions of Picks.
Taking(reg, size) ==
  [avail \in SUBSET DeviceIds(reg) |->
     IF Cardinality(avail) < size THEN <<>> ELSE Take(reg, avail, size)]
NextPick(reg, unused, groups, i) ==
  [got \in [DOMAIN groups -> Seq(DeviceIds(reg))] |->
     [got EXCEPT ![i] = Taking(reg, groups[i][3])[Available(unused, groups[i], got)]]]
NoPicks(groups) == [i \in DOMAIN groups |-> <<>>]

\* Picks, by the equation of its fold.
IsPicking(g, reg, unused, groups) ==
  g = [s \in SUBSET DOMAIN Largest(groups) |->
         IF s = {} THEN NoPicks(groups)
         ELSE NextPick(reg, unused, groups, Largest(groups)[Max(s)])[g[s \ {Max(s)}]]]

\* Picks is its fold's last value.
LEMMA PicksAre ==
  ASSUME NEW reg, NEW unused, NEW groups
  PROVE  Picks(reg, unused, groups)
           = (CHOOSE g : IsPicking(g, reg, unused, groups))[DOMAIN Largest(groups)]
  BY DEF Picks, FoldLeft, MapThenFoldSet, IsPicking, NextPick, Taking, NoPicks

\* The devices of a list.
LEMMA ListedDevices ==
  ASSUME NEW o, NEW n \in Nat, NEW S, ListOf(o, n, S)
  PROVE  o \in Seq(S) /\ Len(o) = n /\ ToSet(o) \subseteq S
  BY DEF ListOf, ToSet

\* One group picks: what others have stays theirs.
LEMMA NextPickFits ==
  ASSUME NEW reg, Wired(reg), AreIds(DeviceIds(reg)),
         NEW unused, IsFiniteSet(unused), unused \subseteq DeviceIds(reg),
         NEW n \in Nat, NEW groups, AreGroups(groups, n),
         NEW got \in Fitting(reg, unused, groups, n), NEW i \in 1..n
  PROVE  NextPick(reg, unused, groups, i)[got] \in Fitting(reg, unused, groups, n)
  <1>1. PICK D : D = DeviceIds(reg)
    OBVIOUS
  <1>2. PICK size \in Nat \ {0} : size = groups[i][3]
    BY DEF AreGroups
  <1>3. PICK avail : avail = Available(unused, groups[i], got)
    OBVIOUS
  <1>4. /\ avail \in SUBSET unused /\ avail \in SUBSET D /\ IsFiniteSet(avail)
        /\ avail \subseteq Eligible(unused, groups[i])
        /\ \A k \in 1..n : avail \cap ToSet(got[k]) = {}
    <2>1. DOMAIN got = 1..n
      BY DEF Fitting
    <2>2. /\ avail \in SUBSET unused /\ avail \subseteq Eligible(unused, groups[i])
          /\ \A k \in 1..n : avail \cap ToSet(got[k]) = {}
      BY <1>3, <2>1 DEF Available, Eligible
    <2> QED
      BY <1>1, <2>2, FS_Subset
  <1>5. Indexed(avail)
    <2>1. \A d \in avail : d = <<d[1], d[2], d[3]>> /\ d[3] \in Nat
      BY <1>1, <1>4 DEF AreIds
    <2>2. \A d \in avail : d[1] = groups[i][1] /\ d[2] = groups[i][2]
      BY <1>3 DEF Available
    <2>3. ASSUME NEW d \in avail, NEW e \in avail, d[3] = e[3] PROVE d = e
      <3>1. d = <<groups[i][1], groups[i][2], d[3]>> /\ e = <<groups[i][1], groups[i][2], d[3]>>
        BY <2>1, <2>2, <2>3
      <3> QED
        BY <3>1
    <2> QED
      BY <2>1, <2>3 DEF Indexed
  <1>6. PICK mine : mine = Taking(reg, size)[avail]
    OBVIOUS
  <1>7. mine = IF Cardinality(avail) < size THEN <<>> ELSE Take(reg, avail, size)
    BY <1>1, <1>2, <1>4, <1>6 DEF Taking
  <1>8. Cardinality(avail) \in Nat
    BY <1>4, FS_CardinalityType
  <1>9. mine = <<>> \/ ListOf(mine, size, avail)
    <2>1. ASSUME ~(Cardinality(avail) < size) PROVE ListOf(Take(reg, avail, size), size, avail)
      BY <1>4, <1>5, <1>8, <2>1, TakeIs
    <2> QED
      BY <1>7, <2>1
  <1>10. mine \in Seq(D) /\ ToSet(mine) \subseteq avail
    <2>1. CASE mine = <<>>
      BY <2>1 DEF ToSet
    <2>2. CASE ListOf(mine, size, avail)
      <3>1. mine \in Seq(avail) /\ ToSet(mine) \subseteq avail
        BY <2>2, ListedDevices
      <3> QED
        BY <1>4, <3>1
    <2> QED
      BY <1>9, <2>1, <2>2
  <1>11. mine = <<>> \/ ListOf(mine, size, Eligible(unused, groups[i]))
    BY <1>4, <1>9 DEF ListOf
  <1>12. PICK new : new = [got EXCEPT ![i] = mine]
    OBVIOUS
  <1>13. got \in [1..n -> Seq(D)]
    BY <1>1 DEF Fitting
  <1>14. NextPick(reg, unused, groups, i)[got] = new
    BY <1>1, <1>2, <1>3, <1>6, <1>12, <1>13 DEF NextPick, AreGroups
  <1>15. new \in [1..n -> Seq(D)] /\ new[i] = mine /\ \A k \in 1..n : k # i => new[k] = got[k]
    BY <1>10, <1>12, <1>13
  <1>16. \A k \in 1..n : new[k] = <<>> \/ ListOf(new[k], groups[k][3], Eligible(unused, groups[k]))
    <2> TAKE k \in 1..n
    <2>1. CASE k = i
      BY <1>2, <1>11, <1>15, <2>1
    <2>2. CASE k # i
      BY <1>15, <2>2 DEF Fitting
    <2> QED
      BY <2>1, <2>2
  <1>17. ASSUME NEW j \in 1..n, NEW k \in 1..n, j # k PROVE ToSet(new[j]) \cap ToSet(new[k]) = {}
    <2>1. CASE j = i
      BY <1>4, <1>10, <1>15, <1>17, <2>1
    <2>2. CASE k = i
      BY <1>4, <1>10, <1>15, <1>17, <2>2
    <2>3. CASE j # i /\ k # i
      BY <1>15, <1>17, <2>3 DEF Fitting
    <2> QED
      BY <2>1, <2>2, <2>3
  <1> QED
    BY <1>1, <1>14, <1>15, <1>16, <1>17 DEF Fitting

\* After all groups have picked.
LEMMA PicksFit ==
  ASSUME NEW reg, Wired(reg), AreIds(DeviceIds(reg)),
         NEW unused, IsFiniteSet(unused), unused \subseteq DeviceIds(reg),
         NEW n \in Nat, NEW groups, AreGroups(groups, n)
  PROVE  Picks(reg, unused, groups) \in Fitting(reg, unused, groups, n)
  <1>1. PICK V : V = Fitting(reg, unused, groups, n)
    OBVIOUS
  <1>2. PICK base : base = NoPicks(groups)
    OBVIOUS
  <1>3. base \in V
    <2>1. DOMAIN groups = 1..n
      BY DEF AreGroups
    <2>2. base \in [1..n -> Seq(DeviceIds(reg))] /\ \A i \in 1..n : base[i] = <<>>
      BY <1>2, <2>1 DEF NoPicks
    <2>3. \A i \in 1..n : ToSet(base[i]) = {}
      BY <2>2 DEF ToSet
    <2> QED
      BY <1>1, <2>2, <2>3 DEF Fitting
  <1>4. PICK order : order = Largest(groups)
    OBVIOUS
  <1>5. order \in [1..n -> 1..n]
    <2> DEFINE key == [i \in DOMAIN groups |-> -groups[i][3]]
    <2>1. key \in [1..n -> Int]
      BY DEF AreGroups
    <2>2. order = Order(key)
      BY <1>4 DEF Largest
    <2> HIDE DEF key
    <2>3. Sorts(order, n, key)
      BY <2>1, <2>2, OrderSorts
    <2> QED
      BY <2>3 DEF Sorts, Lists
  <1>6. PICK next : next = [i \in 1..n |-> NextPick(reg, unused, groups, i)]
    OBVIOUS
  <1>7. \A got \in V, i \in 1..n : next[i][got] \in V
    <2>1. \A i \in 1..n : next[i] = NextPick(reg, unused, groups, i)
      BY <1>6
    <2> QED
      BY <1>1, <2>1, NextPickFits
  <1> DEFINE step == [p \in V \X (1..n) |-> next[p[2]][p[1]]]
  <1>8. step \in [V \X (1..n) -> V] /\ \A got \in V, i \in 1..n : step[<<got, i>>] = next[i][got]
    BY <1>7
  <1> HIDE DEF step
  <1>9. PICK E : E = 1..n
    OBVIOUS
  <1>10. CanFold(step, base, n, order, V, E)
    BY <1>3, <1>5, <1>8, <1>9 DEF CanFold
  <1>11. PICK g : LeftFolds(g, step, base, n, order, V)
    BY <1>10, LeftFoldExists
  <1>12. ASSUME NEW s \in SUBSET (1..n)
         PROVE  g[s] = IF s = {} THEN base ELSE next[order[Max(s)]][g[s \ {Max(s)}]]
    <2>1. g[s] = LeftStep(g, step, base, order, s) /\ g \in [SUBSET (1..n) -> V]
      BY <1>11 DEF LeftFolds
    <2>2. CASE s = {}
      BY <2>1, <2>2 DEF LeftStep
    <2>3. CASE s # {}
      <3>1. Max(s) \in 1..n
        BY <2>3, LastOfInterval
      <3>2. g[s \ {Max(s)}] \in V /\ order[Max(s)] \in 1..n
        BY <1>5, <2>1, <3>1
      <3> QED
        BY <1>8, <2>1, <2>3, <3>2 DEF LeftStep
    <2> QED
      BY <2>2, <2>3
  <1>13. DOMAIN order = 1..n /\ \A s \in SUBSET (1..n) : s # {} => order[Max(s)] \in 1..n
    BY <1>5, LastOfInterval
  <1>14. \A i \in 1..n : next[i] = NextPick(reg, unused, groups, i)
    BY <1>6
  <1>15. IsPicking(g, reg, unused, groups)
    <2>1. g = [s \in SUBSET (1..n) |-> g[s]]
      BY <1>11 DEF LeftFolds
    <2> QED
      BY <1>2, <1>4, <1>12, <1>13, <1>14, <2>1 DEF IsPicking
  <1>16. PICK h : h = (CHOOSE f : IsPicking(f, reg, unused, groups)) /\ IsPicking(h, reg, unused, groups)
    BY <1>15
  <1>17. Picks(reg, unused, groups) = h[1..n]
    BY <1>4, <1>13, <1>16, PicksAre
  <1>18. \A s \in SUBSET (1..n) : h[s] = IF s = {} THEN base ELSE next[order[Max(s)]][h[s \ {Max(s)}]]
    <2> TAKE s \in SUBSET (1..n)
    <2>1. h[s] = IF s = {} THEN base ELSE NextPick(reg, unused, groups, order[Max(s)])[h[s \ {Max(s)}]]
      <3>1. \A x \in SUBSET DOMAIN Largest(groups) :
              h[x] = IF x = {} THEN NoPicks(groups)
                     ELSE NextPick(reg, unused, groups, Largest(groups)[Max(x)])[h[x \ {Max(x)}]]
        <4> HIDE DEF NoPicks, NextPick, Largest
        <4>1. h = [x \in SUBSET DOMAIN Largest(groups) |->
                     IF x = {} THEN NoPicks(groups)
                     ELSE NextPick(reg, unused, groups, Largest(groups)[Max(x)])[h[x \ {Max(x)}]]]
          BY <1>16, Zenon DEF IsPicking
        <4> QED
          BY <4>1
      <3>2. s \in SUBSET DOMAIN Largest(groups)
        BY <1>4, <1>13
      <3> QED
        BY <1>2, <1>4, <3>1, <3>2
    <2>2. s # {} => next[order[Max(s)]] = NextPick(reg, unused, groups, order[Max(s)])
      BY <1>13, <1>14
    <2> QED
      BY <2>1, <2>2
  <1> DEFINE Good == {k \in 0..n : h[1..k] \in V}
  <1>19. 0 \in Good
    <2>1. h[1..0] = base
      BY <1>18, LastOfInterval
    <2> QED
      BY <1>3, <2>1
  <1>20. ASSUME NEW k \in 0..(n - 1), k \in Good PROVE k + 1 \in Good
    <2>1. PICK j \in 1..n : j = k + 1 /\ j - 1 = k
      OBVIOUS
    <2>2. Max(1..j) = j /\ (1..j) \ {j} = 1..(j - 1) /\ 1..j # {} /\ 1..j \in SUBSET (1..n)
      BY LastOfInterval
    <2>3. h[1..j] = next[order[j]][h[1..k]]
      BY <1>18, <2>1, <2>2
    <2>4. h[1..k] \in V /\ order[j] \in 1..n
      BY <1>5, <1>20
    <2>5. h[1..j] \in V
      BY <1>7, <2>3, <2>4
    <2> QED
      BY <2>1, <2>5
  <1>21. n \in Good
    <2>1. PICK G : G = Good
      OBVIOUS
    <2> HIDE DEF Good
    <2>2. 0 \in G /\ \A k \in 0..(n - 1) : k \in G => k + 1 \in G
      BY <1>19, <1>20, <2>1
    <2>3. \A k \in 0..n : k \in G
      BY <2>2, IntervalInduction
    <2> QED
      BY <2>1, <2>3
  <1> QED
    BY <1>1, <1>17, <1>21

\* No group is short: the devices of all groups, list after list.
LEMMA ChosenAre ==
  ASSUME NEW reg, NEW unused, NEW n \in Nat, NEW groups, AreGroups(groups, n),
         NEW picks \in Fitting(reg, unused, groups, n), ~Short(picks),
         NEW len, \A i \in 1..n : len[i] = groups[i][3]
  PROVE  /\ IsFlat(Chosen(groups, picks), n, picks, len)
         /\ IsInjective(Chosen(groups, picks))
         /\ Chosen(groups, picks) \in Seq(DeviceIds(reg))
         /\ \A i \in 1..n : ListOf(picks[i], len[i], Eligible(unused, groups[i]))
  <1>1. PICK D : D = DeviceIds(reg)
    OBVIOUS
  <1>2. picks \in [1..n -> Seq(D)]
    BY <1>1 DEF Fitting
  <1>3. \A i \in 1..n : ListOf(picks[i], len[i], Eligible(unused, groups[i])) /\ len[i] \in Nat
    BY <1>2 DEF Fitting, Short, AreGroups
  <1>4. \A i \in 1..n : len[i] = Len(picks[i])
    BY <1>3, ListedDevices
  <1>5. PICK flat : flat = FlattenSeq(picks)
    OBVIOUS
  <1>6. Chosen(groups, picks) = flat
    <2>1. [i \in DOMAIN groups |-> picks[i]] = picks
      BY <1>2 DEF AreGroups
    <2> QED
      BY <1>5, <2>1 DEF Chosen
  <1>7. flat \in Seq(D) /\ IsFlat(flat, n, picks, len)
    <2>1. FlattenSeq(picks) \in Seq(D) /\ IsFlat(FlattenSeq(picks), n, picks, len)
      BY <1>2, <1>4, FlattenSeqIs
    <2> QED
      BY <1>5, <2>1
  <1>8. ASSUME NEW p \in 1..Len(flat), NEW q \in 1..Len(flat), flat[p] = flat[q] PROVE p = q
    <2>1. PICK i \in 1..n : \E j \in 1..len[i] : p = Spot(len, i, j)
      BY <1>7 DEF IsFlat
    <2>2. PICK j \in 1..len[i] : p = Spot(len, i, j)
      BY <2>1
    <2>3. PICK k \in 1..n : \E m \in 1..len[k] : q = Spot(len, k, m)
      BY <1>7 DEF IsFlat
    <2>4. PICK m \in 1..len[k] : q = Spot(len, k, m)
      BY <2>3
    <2>5. flat[p] = picks[i][j] /\ flat[q] = picks[k][m]
      BY <1>7, <2>2, <2>4 DEF IsFlat
    <2>6. j \in DOMAIN picks[i] /\ m \in DOMAIN picks[k]
      BY <1>3 DEF ListOf
    <2>7. i = k
      <3>1. picks[i][j] \in ToSet(picks[i]) /\ picks[k][m] \in ToSet(picks[k])
        BY <2>6 DEF ToSet
      <3> QED
        BY <1>8, <2>5, <3>1 DEF Fitting
    <2>8. j = m
      BY <1>3, <1>8, <2>5, <2>7 DEF ListOf
    <2> QED
      BY <2>2, <2>4, <2>7, <2>8
  <1>9. IsInjective(flat)
    BY <1>7, <1>8 DEF IsInjective
  <1> QED
    BY <1>1, <1>3, <1>6, <1>7, <1>9

\* The registry has finitely many links and switches.
LEMMA RegistryIsWired == Wired(Registry) /\ AreIds(DeviceIds(Registry))
  <1> DEFINE links == [n \in Registry.nodes |-> n.links]
             switches == [n \in Registry.nodes |-> n.switches]
             L == {links[n] : n \in Registry.nodes}
             W == {switches[n] : n \in Registry.nodes}
  <1>1. IsFiniteSet(L) /\ IsFiniteSet(W)
    <2> HIDE DEF links, switches
    <2> QED
      BY RegistryAssumption, ImageIsFinite
  <1>2. \A x \in L \cup W : IsFiniteSet(x)
    BY RegistryAssumption
  <1>3. L = {n.links : n \in Registry.nodes} /\ W = {n.switches : n \in Registry.nodes}
    OBVIOUS
  <1> HIDE DEF L, W
  <1>4. IsFiniteSet(UNION L) /\ IsFiniteSet(UNION W)
    BY <1>1, <1>2, FinitelyManyFinite
  <1>5. IsFiniteSet(Links(Registry))
    <2>1. Links(Registry) = Registry.inter \cup UNION L
      BY <1>3 DEF Links
    <2>2. IsFiniteSet(Registry.inter \cup UNION L)
      BY <1>4, RegistryAssumption, FS_Union
    <2> QED
      BY <2>1, <2>2
  <1> QED
    BY <1>3, <1>4, <1>5, RegistryAssumption DEF Wired, AreIds

\* A recommendation has one group for each instance of the candidate.
LEMMA GroupsAre ==
  ASSUME StageInv, main = "report", NEW c \in Candidates, NEW order \in SetToSeqs(c[1])
  PROVE  \E n \in Nat : AreGroups(GroupsOf(order), n)
  <1>1. PICK n \in Allocations(spec) : c[1] = Signature(n)
    BY CandidatePower
  <1>2. PICK T : T = Templates(spec) /\ IsFiniteSet(T) /\ \A t \in T : t.tp \in Nat \ {0}
    BY TemplatesAre DEF StageInv
  <1>3. n \in [T -> Nat]
    BY <1>2, AllocationsAre DEF StageInv
  <1>4. PICK P : P = c[1]
    OBVIOUS
  <1>5. \A p \in P : p[1] \in T /\ p[2] \in Nat
    BY <1>1, <1>3, <1>4 DEF Signature
  <1>6. IsFiniteSet(P)
    <2> DEFINE entry == [t \in T |-> <<t, n[t]>>]
               all == {entry[t] : t \in T}
    <2>1. P \in SUBSET all
      BY <1>1, <1>3, <1>4 DEF Signature
    <2>2. IsFiniteSet(all)
      <3> HIDE DEF entry
      <3> QED
        BY <1>2, ImageIsFinite
    <2> QED
      BY <2>1, <2>2, FS_Subset
  <1>7. PICK m \in Nat : m = Cardinality(P)
    BY <1>6, FS_CardinalityType
  <1>8. order \in [1..m -> P]
    BY <1>4, <1>7 DEF SetToSeqs
  <1> DEFINE group(p) == <<p[1].node, p[1].hw, p[1].tp>>
  <1>9. PICK E : E = {group(p) : p \in P}
    OBVIOUS
  <1>10. \A e \in E : e[3] \in Nat \ {0}
    BY <1>2, <1>5, <1>9
  <1>11. PICK seqs : seqs = [i \in DOMAIN order |->
           LET t == order[i][1] IN [k \in 1..order[i][2] |-> <<t.node, t.hw, t.tp>>]]
    OBVIOUS
  <1>12. GroupsOf(order) = FlattenSeq(seqs)
    BY <1>11 DEF GroupsOf
  <1>13. seqs \in [1..m -> Seq(E)]
    <2>1. DOMAIN seqs = 1..m /\ \A i \in 1..m : seqs[i] = [k \in 1..order[i][2] |-> group(order[i])]
      BY <1>8, <1>11
    <2>2. seqs = [i \in 1..m |-> seqs[i]]
      BY <1>8, <1>11
    <2>3. \A i \in 1..m : order[i] \in P /\ order[i][2] \in Nat /\ group(order[i]) \in E
      BY <1>5, <1>8, <1>9
    <2> HIDE DEF group
    <2>4. ASSUME NEW i \in 1..m PROVE seqs[i] \in Seq(E)
      <3>1. PICK z \in Nat, e \in E : z = order[i][2] /\ e = group(order[i])
        BY <2>3
      <3>2. [k \in 1..z |-> e] \in Seq(E)
        OBVIOUS
      <3> QED
        BY <2>1, <3>1, <3>2
    <2> QED
      BY <2>2, <2>4
  <1>14. FlattenSeq(seqs) \in Seq(E)
    <2> DEFINE len == [i \in 1..m |-> Len(seqs[i])]
    <2>1. \A i \in 1..m : len[i] = Len(seqs[i])
      OBVIOUS
    <2> HIDE DEF len
    <2> QED
      BY <1>13, <2>1, FlattenSeqIs
  <1>15. PICK groups \in Seq(E) : groups = GroupsOf(order)
    BY <1>12, <1>14
  <1>16. PICK q \in Nat : q = Len(groups) /\ DOMAIN groups = 1..q
    BY <1>15, LenProperties
  <1>17. \A i \in 1..q : groups[i] \in E
    BY <1>15, <1>16
  <1>18. AreGroups(groups, q)
    BY <1>10, <1>16, <1>17 DEF AreGroups
  <1> QED
    BY <1>15, <1>18

\* What GroupsGetTheirDevices says of an answer.
Gets(devices, g) ==
  LET from(i) == Total([k \in 1..(i - 1) |-> g[k][3]])
  IN /\ Len(devices) = Total([k \in DOMAIN g |-> g[k][3]])
     /\ IsInjective(devices)
     /\ \A i \in DOMAIN g : \A k \in (from(i) + 1)..(from(i) + g[i][3]) :
          devices[k][1] = g[i][1] /\ devices[k][2] = g[i][2]

\* Groups that all got devices got what they need, where their place in the list says.
LEMMA GroupsGet ==
  ASSUME NEW reg, NEW unused, NEW n \in Nat, NEW groups, AreGroups(groups, n),
         NEW picks \in Fitting(reg, unused, groups, n), ~Short(picks)
  PROVE  Gets(Chosen(groups, picks), groups)
  <1>1. PICK len : len = [i \in 1..n |-> groups[i][3]]
    OBVIOUS
  <1>2. \A i \in 1..n : len[i] = groups[i][3] /\ len[i] \in Nat
    BY <1>1 DEF AreGroups
  <1>3. PICK flat : flat = Chosen(groups, picks)
    OBVIOUS
  <1>4. /\ IsFlat(flat, n, picks, len) /\ IsInjective(flat)
        /\ \A i \in 1..n : ListOf(picks[i], len[i], Eligible(unused, groups[i]))
    <2>1. \A i \in 1..n : len[i] = groups[i][3]
      BY <1>2
    <2>2. /\ n \in Nat /\ AreGroups(groups, n)
          /\ picks \in Fitting(reg, unused, groups, n) /\ ~Short(picks)
      OBVIOUS
    <2>3. /\ IsFlat(Chosen(groups, picks), n, picks, len) /\ IsInjective(Chosen(groups, picks))
          /\ \A i \in 1..n : ListOf(picks[i], len[i], Eligible(unused, groups[i]))
      BY ONLY <2>1, <2>2, ChosenAre, ZenonT(60)
    <2> QED
      BY <1>3, <2>3
  <1>5. ASSUME NEW m \in 0..n PROVE Total([k \in 1..m |-> groups[k][3]]) = SumFunctionOnSet(len, 1..m)
    <2>1. PICK S : S = 1..m
      OBVIOUS
    <2>2. PICK f : f = [k \in S |-> groups[k][3]]
      OBVIOUS
    <2>3. DOMAIN f = S /\ \A k \in S : f[k] = len[k]
      BY <1>2, <2>1, <2>2
    <2>4. IsFiniteSet(S)
      BY ONLY n \in Nat, m \in 0..n, <2>1, FS_Interval
    <2>5. SumFunctionOnSet(f, S) = SumFunctionOnSet(len, S)
      BY <2>3, <2>4, SumsAgree
    <2>6. Total(f) = SumFunctionOnSet(f, DOMAIN f)
      BY DEF Total, SumFunction
    <2> QED
      BY <2>1, <2>2, <2>3, <2>5, <2>6
  <1> DEFINE from(i) == Total([k \in 1..(i - 1) |-> groups[k][3]])
  <1>6. Len(flat) = Total([k \in DOMAIN groups |-> groups[k][3]])
    <2>1. DOMAIN groups = 1..n /\ n \in 0..n
      BY DEF AreGroups
    <2> QED
      BY <1>4, <1>5, <2>1 DEF IsFlat
  <1>7. ASSUME NEW i \in 1..n, NEW k \in (from(i) + 1)..(from(i) + groups[i][3])
        PROVE  flat[k][1] = groups[i][1] /\ flat[k][2] = groups[i][2]
    <2>1. i - 1 \in 0..n
      OBVIOUS
    <2>2. from(i) = SumFunctionOnSet(len, 1..(i - 1))
      BY <1>5, <2>1
    <2>3. SumFunctionOnSet(len, 1..(i - 1)) \in Nat
      <3>1. PICK S : S = 1..(i - 1)
        OBVIOUS
      <3>2. IsFiniteSet(S)
        BY ONLY n \in Nat, i \in 1..n, <3>1, FS_Interval
      <3>3. \A x \in S : len[x] \in Nat
        BY <1>2, <3>1
      <3> QED
        BY <3>1, <3>2, <3>3, SumIsNat
    <2>4. PICK j \in 1..len[i] : k = Spot(len, i, j)
      <3>1. PICK b \in Nat : b = from(i) /\ b = SumFunctionOnSet(len, 1..(i - 1))
        BY <2>2, <2>3
      <3> HIDE DEF from
      <3>2. k - b \in 1..len[i] /\ k = b + (k - b)
        BY <1>2, <3>1
      <3> QED
        BY <3>1, <3>2 DEF Spot
    <2>5. flat[k] = picks[i][j]
      BY <1>4, <2>4 DEF IsFlat
    <2>6. picks[i][j] \in Eligible(unused, groups[i])
      BY <1>4, <2>4 DEF ListOf
    <2> QED
      BY <2>5, <2>6 DEF Eligible
  <1> HIDE DEF from
  <1>8. DOMAIN groups = 1..n
    BY DEF AreGroups
  <1>9. \A i \in DOMAIN groups : \A k \in (from(i) + 1)..(from(i) + groups[i][3]) :
          flat[k][1] = groups[i][1] /\ flat[k][2] = groups[i][2]
    BY <1>7, <1>8
  <1> QED
    BY <1>3, <1>4, <1>6, <1>9 DEF Gets, from

\* An answer gives every group what it needs, or none is given.
LEMMA AnswerGets ==
  ASSUME GivenInv, StageInv, EvalInv, AnswerInv, Answer, answer'.state = "done"
  PROVE  Gets(answer'.devices, answer'.groups)
  <1>1. PICK c \in Winners :
          /\ c # <<>>
          /\ \E groups \in {GroupsOf(order) : order \in SetToSeqs(c[1])} :
             \E picks \in {Picks(Registry, free, groups)} :
               /\ ~Short(picks)
               /\ answer'.groups = groups /\ answer'.devices = Chosen(groups, picks)
    BY DEF Answer, Fail, Blocked
  <1>2. PICK order, groups, picks :
          /\ order \in SetToSeqs(c[1]) /\ groups = GroupsOf(order) /\ picks = Picks(Registry, free, groups)
          /\ ~Short(picks)
          /\ answer'.groups = groups /\ answer'.devices = Chosen(groups, picks)
    BY <1>1
  <1>3. phase = "planning" /\ main = "report"
    BY DEF Answer
  <1>4. c \in Candidates
    <2>1. c \in Passing
      BY <1>1, <1>3, WinnerIs
    <2> QED
      BY <1>3, <2>1, PassingPower
  <1>5. PICK n \in Nat : AreGroups(groups, n)
    BY <1>2, <1>3, <1>4, GroupsAre
  <1>6. picks \in Fitting(Registry, free, groups, n)
    BY <1>2, <1>5, RegistryIsWired, PicksFit DEF GivenInv
  <1> QED
    BY <1>2, <1>5, <1>6, GroupsGet

\* GroupsGetTheirDevices is kept: an answer stays until the job is planned again.
LEMMA DevicesStep ==
  ASSUME GivenInv, StageInv, EvalInv, AnswerInv, GroupsGetTheirDevices, [ServeNext]_serveVars
  PROVE  GroupsGetTheirDevices'
  <1>1. CASE Answer
    <2>1. ASSUME answer'.state = "done" PROVE Gets(answer'.devices, answer'.groups)
      BY <1>1, <2>1, AnswerGets
    <2> QED
      BY <2>1 DEF GroupsGetTheirDevices, Gets
  <1>2. CASE Plan
    <2>1. answer.state # "done"
      BY <1>2 DEF Plan, AnswerInv
    <2>2. answer'.state # "done"
      BY <1>2, <2>1 DEF Plan, Refuse, Blocked, Fail, Routed, Begin
    <2> QED
      BY <2>2 DEF GroupsGetTheirDevices
  <1>3. CASE Failed \/ Replan
    <2>1. answer'.state # "done"
      BY <1>3 DEF Failed, Fail, Replan, NoAnswer
    <2> QED
      BY <2>1 DEF GroupsGetTheirDevices
  <1>4. CASE Engine \/ Server \/ Again \/ Die \/ Move \/ UNCHANGED serveVars
    <2>1. answer' = answer
      BY <1>4 DEF Engine, Server, Again, Die, Move, serveVars, planVars
    <2> QED
      BY <2>1 DEF GroupsGetTheirDevices
  <1> QED
    BY <1>1, <1>2, <1>3, <1>4 DEF ServeNext, Serve

\* The devices of a recommendation are those of its groups, each group has as many as
\* its degree, of its node and kind, and none serves twice (pick_devices_affinity).
THEOREM GroupsGetDevices == ServeSpecification => []GroupsGetTheirDevices
  <1>1. ServeInit => GroupsGetTheirDevices
    BY DEF ServeInit, NoAnswer, GroupsGetTheirDevices
  <1> QED
    BY <1>1, GivenInvariant, StageInvariant, EvalInvariant, AnswerInvariant, DevicesStep, PTL
    DEF ServeSpecification
================================================================================
