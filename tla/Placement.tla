------------------------------ MODULE Placement ------------------------------
(***************************************************************************)
(* Stage 1 of the planner (planner/milp_solver.py): which serving          *)
(* instances to place on which devices. A spec is expanded into templates  *)
(* (node, hardware, tp, role); the solver chooses how many of each. One    *)
(* call of the solver is one step that takes any optimum, as CP-SAT may.   *)
(* Bytes, tokens per second and watts are small numbers; solver time       *)
(* limits are long enough for an optimum.                                  *)
(*                                                                         *)
(* The solver counts throughput in thousandths of a proxy unit, and links  *)
(* in thousandths of a GB/s (_THR_SCALE, _FLOW_SCALE). Quotients are       *)
(* scaled in floating point before they are rounded.                       *)
(***************************************************************************)
EXTENDS PlanSpec

CONSTANT RoundsUp   \* <<a, b, n>>: what the code computes for a/b, with the factor n in
                    \* between, lies above a/b where it should be a whole number or a half

(***************************************************************************)
(* int(round(x)) and int(math.ceil(x)) of a quotient. The error of a float *)
(* tells only where a/b is a half or a whole number: math.ceil makes 16101 *)
(* of 161 / 10 * 1000.                                                     *)
(***************************************************************************)

Rounded(a, b, n) ==
  LET twice == 2 * (a % b)
  IN IF twice > b \/ (twice = b /\ <<a, b, n>> \in RoundsUp) THEN a \div b + 1 ELSE a \div b
Ceiling(a, b, n) ==
  IF a % b # 0 \/ <<a, b, n>> \in RoundsUp THEN a \div b + 1 ELSE a \div b

(***************************************************************************)
(* Templates (_enumerate_templates).                                       *)
(***************************************************************************)

Roles(s) == IF s.pd THEN {"prefill", "decode"} ELSE {"both"}

Templates(s) ==
  {[node |-> x[1].node, hw |-> x[1].hw, tp |-> x[2], role |-> x[3]] :
     x \in {y \in s.devices \X s.tps \X Roles(s) :
              /\ y[1].hw \in DOMAIN s.hwTps => y[2] \in s.hwTps[y[1].hw]
              /\ y[2] <= y[1].count
              /\ MemoryFits(s, y[1], y[2])}}

\* _proxy_unit
Unit(s) == IF s.demand # <<>> /\ s.demand.unit # None THEN s.demand.unit ELSE DefaultUnit

\* _rel_throughput times tp, scaled: the measured capacity of (hw, tp) where there
\* is one, the per-device constant otherwise.
Throughput(s, t) ==
  LET measured == {m \in s.capacity : m.hw = t.hw /\ m.tp = t.tp}
  IN IF measured # {} THEN Rounded(1000 * (CHOOSE m \in measured : TRUE).rate, Unit(s), t.tp)
     ELSE At(RelThroughput, t.hw, 1000) * t.tp
Power(t) == ActivePower(t.hw) * t.tp

\* An allocation: how many instances of each template (zero: none).
Sum(T, value(_), n) == SumFunction([t \in T |-> value(t) * n[t]])
ThrOf(s, n) == Sum(DOMAIN n, LAMBDA t : Throughput(s, t), n)
DevicePower(n) == Sum(DOMAIN n, Power, n)

\* Counted once for every node that is used at all.
HostPower(s, n) ==
  SumFunction([v \in {u \in s.nodes : \E t \in DOMAIN n : t.node = u /\ n[t] > 0} |-> NodeHostBase(s, v)])

\* Instance objects carry replicas; a signature names what is placed where.
Signature(n) == {<<t, n[t]>> : t \in {u \in DOMAIN n : n[u] > 0}}

(***************************************************************************)
(* Structural constraints (_build_base_model).                             *)
(***************************************************************************)

Instances(n, role) == Sum({t \in DOMAIN n : t.role = role}, LAMBDA t : 1, n)
InRange(k, range) == range[1] <= k /\ k <= range[2]

\* The KV that the prefill instances of the nodes X export.
Production(s, n, X) ==
  Sum({t \in DOMAIN n : t.role = "prefill" /\ t.node \in X}, LAMBDA t : Most({Throughput(s, t), 1}), n)
Decodes(n, v) == Sum({t \in DOMAIN n : t.role = "decode" /\ t.node = v}, LAMBDA t : 1, n)

Edges(s) == {<<l.src, l.dst>> : l \in ToSet(s.links)} \cup {<<l.dst, l.src>> : l \in ToSet(s.links)}
\* Of two links between the same nodes the later one is the edge.
Capacity(s, e) ==
  LET i == Most({k \in DOMAIN s.links : {s.links[k].src, s.links[k].dst} = {e[1], e[2]}})
  IN Bandwidth(s.links[i])

\* _add_flow_constraints: KV produced by prefill instances can flow over links
\* within their bandwidth to where decode instances are. There is such a flow iff no
\* set of nodes without a decode instance produces more than leaves it (the bound on
\* what a node consumes is all that can be produced).
Routable(s, n) ==
  \/ Cardinality(s.nodes) < 2 \/ Edges(s) = {}
  \/ \A t \in DOMAIN n : t.role # "prefill"
  \/ \A X \in SUBSET {v \in s.nodes : Decodes(n, v) = 0} :
       Production(s, n, X)
         <= SumFunction([e \in {x \in Edges(s) : x[1] \in X /\ x[2] \notin X} |-> Capacity(s, e)])

\* The instance counts for templates T that satisfy the base model.
Room(s, t) ==
  SumFunction([d \in {e \in s.devices : e.node = t.node /\ e.hw = t.hw} |-> d.count])
Structural(s, T) ==
  {n \in [T -> 0..Most({Room(s, t) : t \in T} \cup {0})] :
        /\ \A t \in T : n[t] <= Room(s, t) \div t.tp
        /\ \A d \in s.devices :
             Sum({t \in T : t.hw = d.hw /\ t.node = d.node}, LAMBDA t : t.tp, n) <= d.count
        /\ \E t \in T : n[t] >= 1
        /\ s.pd => /\ (\E t \in T : t.role = "prefill") => InRange(Instances(n, "prefill"), s.prefills)
                   /\ (\E t \in T : t.role = "decode") => InRange(Instances(n, "decode"), s.decodes)
                   /\ Routable(s, n)}

Allocations(s) == UNION {Structural(s, T) : T \in {Templates(s)}}

(***************************************************************************)
(* The solver: the optima of a set of allocations.                         *)
(***************************************************************************)

Best(S, value(_)) == UNION {{n \in X : \A m \in X : value(m) <= value(n)} : X \in {S}}
MaxThroughput(s, S) == Best(S, LAMBDA n : ThrOf(s, n))
MinDevicePower(S) == Best(S, LAMBDA n : -DevicePower(n))

\* Mutant of TotalPower: hosts are not counted.
TotalPowerDevices(s, n) == DevicePower(n)
TotalPower(s, n) == DevicePower(n) + HostPower(s, n)

\* _solve_power_min_level, with the templates in T only.
PowerMin(s, T, floor) ==
  Best({n \in Allocations(s) : /\ \A t \in DOMAIN n \ T : n[t] = 0
                               /\ ThrOf(s, n) >= floor},
       LAMBDA n : -TotalPower(s, n))

\* Mutant of Floor: the first level has headroom already.
FloorMore(s, k) == Ceiling(100 * s.demand.toks * (11 + k), Unit(s), k)

\* The demand with a headroom of k tenths (_HEADROOM_DELTA), scaled and rounded up.
Floor(s, k) == Ceiling(100 * s.demand.toks * (10 + k), Unit(s), k)

\* The comparison of _diagnose_infeasible: nothing is rounded up.
Meets(s, n) == Unit(s) * ThrOf(s, n) >= 1000 * s.demand.toks

(***************************************************************************)
(* Rendering (planner/config_renderer.py): the cluster file of a candidate *)
(***************************************************************************)

\* default_link_params
LinkParams(s) ==
  IF s.links # <<>> THEN <<Bandwidth(s.links[1]), Latency(s.links[1])>>
  ELSE IF s.intra # None THEN <<1000 * s.intra, 0>> ELSE <<112000, 0>>

\* Mutant of Entry: the group is taken for the tensor parallel degree.
EntryGrouped(s, t) ==
  IF s.backend = "legacy"
  THEN [hw |-> t.hw, pd_type |-> t.role, npu_num |-> t.tp, npu_group |-> t.tp]
  ELSE [hw |-> t.hw, pd_type |-> t.role, num_npus |-> t.tp, tp_size |-> t.tp]

\* One instance is one tensor parallel group; the backends name its size apart.
Entry(s, t) ==
  IF s.backend = "legacy"
  THEN [hw |-> t.hw, pd_type |-> t.role, npu_num |-> t.tp, npu_group |-> 1]
  ELSE [hw |-> t.hw, pd_type |-> t.role, num_npus |-> t.tp, tp_size |-> t.tp]

WantsEnergy(s) == \E o \in ToSet(s.objectives) : o.metric \in {"perWh", "power"}

\* render: of each node that is used, an entry for every replica (here: how many
\* of each), the power block and, for the measured backend, the host's power.
Rendered(s, sig) ==
  [link |-> LinkParams(s),
   nodes |-> [v \in {p[1].node : p \in sig} |->
     LET here == {p \in sig : p[1].node = v}
     IN [instances |-> {<<Entry(s, p[1]), p[2]>> : p \in here},
         power |-> IF WantsEnergy(s) THEN {p[1].hw : p \in here} ELSE {},
         host |-> IF s.backend = "measured" THEN s.host[v] ELSE None]]]
=============================================================================
