------------------------------- MODULE PlanSpec -------------------------------
(***************************************************************************)
(* A planner spec and what is read off it: its validity and its demand     *)
(* (planner/spec_schema.py), the size of the model and the profiles on     *)
(* disk (planner/utils.py), power (planner/power_profiles.py) and units    *)
(* (planner/graph_model.py).                                               *)
(*                                                                         *)
(* A spec is a record with the fields of PlannerSpec, flattened. devices   *)
(* is a set of [node, hw, count, mem]; demand is <<>> or a record; host    *)
(* maps a node to its host_base_w or None. model holds the fields of the   *)
(* checkpoint's config that decide its size and precision. jobs (the       *)
(* number of threads) and dry (no stage 2) are arguments of run_spec.      *)
(***************************************************************************)
EXTENDS Evaluation, Workload

CONSTANTS Gib,             \* bytes per unit of device memory
          KvReserve,       \* tokens of KV an instance must have room for (_KV_RESERVE_TOKENS)
          RelThroughput,   \* hw -> _HW_REL_THROUGHPUT, in thousandths (1000 otherwise)
          DefaultUnit,     \* tokens/s of 1000 of those (_PROXY_TOKS_PER_UNIT)
          PowerProfiles,   \* hw -> profile: [active, base, points]; a set of points of unlike loads
          LegacyActive, DefaultActive

\* PowerProfile's fields: a load is above 0 and at most 1, in percent here.
ASSUME PowerAssumption ==
  /\ \A hw \in DOMAIN PowerProfiles :
       LET profile == PowerProfiles[hw]
       IN /\ profile.active \in Nat /\ profile.base \in Nat
          /\ IsFiniteSet(profile.points)
          /\ \A p \in profile.points : p.load \in 1..100 /\ p.watts \in Nat
  /\ \A hw \in DOMAIN LegacyActive : LegacyActive[hw] \in Nat
  /\ DefaultActive \in Nat

ASSUME RatesAssumption ==
  /\ \A hw \in DOMAIN RelThroughput : RelThroughput[hw] \in Nat
  /\ DefaultUnit \in Nat \ {0}

At(f, x, default) == IF x \in DOMAIN f THEN f[x] ELSE default
Hardware(devices) == {d.hw : d \in devices}

(***************************************************************************)
(* Validation.                                                             *)
(***************************************************************************)

IsPowerMin(s) == \E o \in ToSet(s.objectives) : o.metric = "power"

\* The validators of Objective, DemandSpec, Requirements and SearchSpace.
Valid(s) ==
  /\ \A o \in ToSet(s.objectives) :
       /\ o.metric \in {"thr", "perWh", "power"}
       /\ o.metric = "power" => o.dir = "min"
  /\ s.demand # <<>> => \/ s.demand.toks # None
                        \/ s.demand.req # None /\ (s.demand.preset # "" \/ s.demand.lengths # <<>>)
  /\ s.demand # <<>> => s.demand.unit = None \/ s.demand.unit > 0
  /\ IsPowerMin(s) => s.demand # <<>>
  /\ \A tp \in s.tps : tp >= 1
  /\ \A hw \in DOMAIN s.hwTps : s.hwTps[hw] # {} /\ \A tp \in s.hwTps[hw] : tp >= 1
  /\ \A c \in s.capacity : c.tp >= 1 /\ c.rate > 0
  /\ \A r \in {s.prefills, s.decodes} : Len(r) = 2 /\ 0 <= r[1] /\ r[1] <= r[2]

\* The types of a spec's fields, once its demand is resolved.
IsSpec(s) ==
  LET OrNone(v) == v \in Nat \cup {None}
  IN /\ IsFiniteSet(s.nodes) /\ \A v \in s.nodes : OrNone(s.host[v])
     /\ IsFiniteSet(s.devices) /\ \A d \in s.devices : d.node \in s.nodes /\ d.count \in Nat
     /\ IsFiniteSet(s.tps) /\ s.tps \subseteq Nat \ {0}
     /\ \A c \in s.capacity : c.rate \in Nat
     /\ s.demand # <<>> => (s.demand.unit = None \/ s.demand.unit \in Nat \ {0}) /\ OrNone(s.demand.toks)
     /\ IsPowerMin(s) => s.demand # <<>> /\ s.demand.toks # None
     /\ s.topK \in Int /\ s.steps \in Int
     /\ s.objectives \in Seq(ToSet(s.objectives))
     /\ \A o \in ToSet(s.objectives) : o.metric \in {"thr", "perWh", "power"} /\ o.weight \in Int

\* resolve_toks_per_s, before stage 1.
Resolved(s) ==
  IF s.demand = <<>> \/ s.demand.toks # None THEN s
  ELSE [s EXCEPT !.demand.toks =
          IF s.demand.lengths # <<>>
          THEN s.demand.req * (s.demand.lengths.input + s.demand.lengths.output)
          ELSE DemandToksPerS(s.demand.req, s.demand.preset)]

\* scan_profile_catalog: the tp directories of (hw, model) that hold layers.csv
\* and both attention tables in one of their two formats.
ProfiledTps(profiles, hw, model) ==
  {p.tp : p \in {q \in profiles :
     /\ q.hw = hw /\ q.model = model
     /\ "layers" \in q.files
     /\ {"prefill.pkl", "decode.pkl"} \subseteq q.files
          \/ {"prefill.csv", "decode.csv"} \subseteq q.files}}

\* validate_against_repo: the hardware that cannot be simulated.
Problems(s, profiles, configs) ==
  (IF s.model.name \in configs THEN {} ELSE {"model"})
  \cup {hw \in Hardware(s.devices) : ~(s.tps \subseteq ProfiledTps(profiles, hw, s.model.name))}

(***************************************************************************)
(* The size of the model (estimate_weight_bytes, estimate_kv_bytes_per_    *)
(* token). Bits of a quantized checkpoint come from its own config         *)
(* (model_precision) and replace the spec's fp.                            *)
(***************************************************************************)

KvDim(c) == (IF c.heads > 0 THEN c.hidden \div c.heads ELSE c.hidden) * c.kvHeads
Params(c) ==
  c.layers * (2 * c.hidden * c.hidden + 2 * c.hidden * KvDim(c) + 3 * c.hidden * c.inter)
    + 2 * c.vocab * c.hidden

Quantized(c) == c.method # "none"
Or(bits, default) == IF bits = None THEN default ELSE bits
WeightBits(s) ==
  LET c == s.model
  IN IF ~Quantized(c) THEN s.fp
     ELSE IF c.method \in {"awq", "gptq"} THEN Or(c.bits, 4) ELSE Or(c.bits, 8)
KvBits(s) == IF Quantized(s.model) THEN Or(s.model.kvBits, s.model.dtype) ELSE s.fp

\* _memory_feasible: a shard of the weights and of the KV reserve on one device.
MemoryFits(s, d, tp) ==
  Params(s.model) * WeightBits(s) + 2 * s.model.layers * KvDim(s.model) * KvBits(s) * KvReserve
    <= d.mem * Gib * 8 * tp

(***************************************************************************)
(* Power.                                                                  *)
(***************************************************************************)

\* device_active_w
ActivePower(hw) ==
  IF hw \in DOMAIN PowerProfiles THEN PowerProfiles[hw].active
  ELSE At(LegacyActive, hw, DefaultActive)
HostBase(hw) == IF hw \in DOMAIN PowerProfiles THEN PowerProfiles[hw].base ELSE 0

\* effective_power_w: the measured points of (model, tp) by load, clamped at both
\* ends, linear in between; otherwise the active power of tp devices.
EffectivePower(hw, model, tp, load) ==
  LET points == {p \in (IF hw \in DOMAIN PowerProfiles THEN PowerProfiles[hw].points ELSE {}) :
                   p.model = model /\ p.tp = tp}
      below == {p \in points : p.load <= load}
      above == points \ below
      a == CHOOSE p \in below : \A q \in below : q.load <= p.load
      b == CHOOSE p \in above : \A q \in above : p.load <= q.load
  IN IF points = {} THEN ActivePower(hw) * tp
     ELSE IF below = {} THEN b.watts
     ELSE IF above = {} THEN a.watts
     ELSE a.watts + ((load - a.load) * (b.watts - a.watts)) \div (b.load - a.load)

\* _node_host_base_w: the spec's, or the most that the node's hardware asks for.
NodeHostBase(s, v) ==
  IF s.host[v] # None THEN s.host[v]
  ELSE Most({HostBase(d.hw) : d \in {e \in s.devices : e.node = v}} \cup {0})

\* allocation_power_w at full load (100 percent), for the signature of an
\* allocation; the host of a node counts once, by the hardware placed there.
AllocationPower(s, sig) ==
  SumFunction([p \in sig |-> p[2] * EffectivePower(p[1].hw, s.model.name, p[1].tp, 100)])
  + SumFunction([v \in {p[1].node : p \in sig} |->
                   Most({HostBase(p[1].hw) : p \in {q \in sig : q[1].node = v}})])

\* run_spec: the estimate stands in for a power the simulator did not report.
WithPower(s, sig, m) ==
  IF m.kind = "metrics" /\ m.power = None THEN [m EXCEPT !.power = AllocationPower(s, sig)] ELSE m

(***************************************************************************)
(* Units (parse_bandwidth_gbps_bytes, parse_latency_ns).                   *)
(***************************************************************************)

\* In thousandths of a GB/s; a lower-case b means bits. The prefix is G or T.
Bandwidth(l) ==
  l.bw.value * (IF l.bw.prefix = "T" THEN 1000 ELSE 1) * (IF l.bw.unit = "b" THEN 125 ELSE 1000)
Latency(l) ==
  l.latency.value * (CASE l.latency.unit \in {"ns", ""} -> 1 [] l.latency.unit = "us" -> 1000
                       [] l.latency.unit = "ms" -> 1000000 [] l.latency.unit = "s" -> 1000000000)
=============================================================================
