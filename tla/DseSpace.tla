------------------------------- MODULE DseSpace -------------------------------
(***************************************************************************)
(* The candidates of a design-space job (webapp/dse/core): counts of NPUs  *)
(* from the resource pool, the layouts of each (module Enumerate), the     *)
(* analytical filters of stage 1, the latency prediction and the order of  *)
(* stage 2, and the links of a candidate.                                  *)
(*                                                                         *)
(* A job carries its input and the metadata it needs as a record; an SLO   *)
(* that is not set is not in DOMAIN job.slo. Sizes, times and rates are    *)
(* small integers, and quotients are compared by cross-multiplication.     *)
(***************************************************************************)
EXTENDS Enumerate

CONSTANTS Catalog      \* build_catalog: the profiled TP degrees

\* They are the directories tp1, tp2, ... of a profile.
ASSUME CatalogAssumption ==
  \A at \in DOMAIN Catalog : IsFiniteSet(Catalog[at]) /\ Catalog[at] \subseteq Nat \ {0}

Total(S, value(_)) == SumFunctionOnSet([x \in S |-> value(x)], S)

\* The smallest memory, bandwidth, compute or link among the cards of kinds hs.
Weakest(job, hs, attr) == Min({job.hw[h][attr] : h \in hs})

(***************************************************************************)
(* generator.py                                                            *)
(***************************************************************************)

\* _enumerate_hw_counts
HwCounts(job) ==
  {c \in [DOMAIN job.pool -> UNION {job.pool[h][1]..job.pool[h][2] : h \in DOMAIN job.pool}] :
     /\ \A h \in DOMAIN c : job.pool[h][1] <= c[h] /\ c[h] <= job.pool[h][2]
     /\ \E h \in DOMAIN c : c[h] > 0
     /\ Total(DOMAIN c, LAMBDA h : c[h]) <= job.maxNpus}

\* Mutant of AggregateMemory: one card of each kind.
AggregateMemoryOnce(job, counts) ==
  Total({h \in DOMAIN counts : counts[h] > 0}, LAMBDA h : job.hw[h].mem)

\* _aggregate_npu_mem_gb
AggregateMemory(job, counts) == Total(DOMAIN counts, LAMBDA h : counts[h] * job.hw[h].mem)

\* _coarse_memory_prune
MayHoldWeights(job, counts) == AggregateMemory(job, counts) >= job.model.weight

\* _hw_counts_to_instance_groups, one group for every kind of hardware.
Groups(job, counts) ==
  LET used == SetToSeq({h \in DOMAIN counts : counts[h] > 0})
  IN [k \in DOMAIN used |->
        [hw |-> used[k], model |-> job.model.name, npus |-> counts[used[k]], role |-> "auto"]]

Axes(job) == [tp |-> TRUE, pp |-> TRUE, dp |-> TRUE, pd |-> job.allowPd]

NpusUsed(insts) == Total(DOMAIN insts, LAMBDA k : insts[k].npus)

\* Mutant of UsesAll: a layout may leave NPUs of its group idle.
UsesAllOrFewer(config, counts) == TRUE
UsesAll(config, counts) == NpusUsed(config.insts) = Total(DOMAIN counts, LAMBDA h : counts[h])

\* _config_spec_to_candidate: the label of a single group is prefixed.
Wrap(config, counts) ==
  LET dist == [h \in {x \in DOMAIN counts : counts[x] > 0} |-> counts[h]]
      label == config.label
  IN [label |-> IF label[1] = "het" THEN label ELSE <<label[1], label[2], dist>>,
      insts |-> config.insts,
      tp |-> config.tp, pp |-> config.pp, dp |-> config.dp, dist |-> dist]

\* What counts contribute, before the filters.
Expanded(job, counts) ==
  {Wrap(config, counts) :
     config \in {x \in EnumerateConfigs(Catalog, Groups(job, counts), Axes(job)) : UsesAll(x, counts)}}

(***************************************************************************)
(* stage1_filters.py. Each operator says that the candidate passes.        *)
(***************************************************************************)

Kinds(c) == DOMAIN c.dist
Tdp(job, c) == Total(Kinds(c), LAMBDA h : c.dist[h] * job.hw[h].tdp)
Has(job, slo) == slo \in DOMAIN job.slo

\* The shard of the weights, one request's KV cache and one layer's activation
\* within 85 % of the smallest card (filter_memory).
Memory(job, c) ==
  LET m == job.model
      headDim == m.hidden \div m.heads
      kv == 2 * m.layers * m.kvHeads * headDim * m.bytes * job.seqLen
      act == 4 * m.hidden * m.bytes * job.seqLen
  IN 20 * (m.weight + c.pp * (kv + act))
       <= 17 * Weakest(job, Kinds(c), "mem") * c.tp * c.pp

Divisibility(job, c) ==
  /\ job.model.heads % c.tp = 0
  /\ job.model.kvHeads % c.tp = 0
  /\ job.model.layers % c.pp = 0

\* A decode step reads the shard once.
RooflineDecode(job, c) ==
  Has(job, "tpot") =>
    job.model.weight <= job.slo["tpot"] * Weakest(job, Kinds(c), "bw") * c.tp * c.pp

\* Two operations per parameter and token of the prompt.
RooflinePrefill(job, c) ==
  Has(job, "ttft") =>
    2 * job.model.params * job.prompt
      <= job.slo["ttft"] * c.tp * Weakest(job, Kinds(c), "flops")

\* Two ring all-reduces per layer and token; without a link speed there is no bound.
Communication(job, c) ==
  LET link == Weakest(job, Kinds(c), "link")
  IN Has(job, "tpot") /\ c.tp > 1 /\ link > 0 =>
       4 * job.model.layers * (c.tp - 1) * job.model.hidden * job.model.bytes
         <= job.slo["tpot"] * c.tp * link

PowerBudget(job, c) == Has(job, "power") => Tdp(job, c) <= job.slo["power"]

TokensPerWh(job, c) ==
  Has(job, "tokwh") =>
    job.slo["tokwh"] * job.model.weight * Tdp(job, c)
      <= 3600 * Weakest(job, Kinds(c), "bw") * c.tp * c.pp

\* apply_stage1_filters, and check_candidate.
Stage1(job, c) ==
  /\ Memory(job, c) /\ Divisibility(job, c)
  /\ RooflineDecode(job, c) /\ RooflinePrefill(job, c) /\ Communication(job, c)
  /\ PowerBudget(job, c) /\ TokensPerWh(job, c)

(***************************************************************************)
(* stage2_predictor.py. A profile has tables of rows [key, at, lat].       *)
(***************************************************************************)

Distance(a, b) == IF a < b THEN b - a ELSE a - b

\* _lookup_layer: the row of that layer with the nearest input.
\* _lookup_attn_prefill: the nearest chunk, among exact KV sizes if there are any.
Nearest(rows, key, at, mustMatch) ==
  LET exact == {r \in rows : r.key = key}
      S == IF exact # {} \/ mustMatch THEN exact ELSE rows
  IN CHOOSE r \in S : \A q \in S : Distance(r.at, at) <= Distance(q.at, at)

\* predict_ttft_tpot; the layers of a block are one row of "block".
Ttft(job, profile) ==
  LET dense(name, n) == Nearest(profile.layers, name, n, TRUE).lat
  IN dense("embedding", job.prompt)
     + job.model.layers * (dense("block", job.prompt)
                           + Nearest(profile.prefill, 0, job.prompt, FALSE).lat)
     + dense("final_layernorm", 1) + dense("lm_head", 1)

\* The kind with the most NPUs.
Primary(c) == CHOOSE h \in Kinds(c) : \A g \in Kinds(c) : c.dist[g] <= c.dist[h]

Unprofiled == 1000000   \* infinity
Predicted(job, c) ==
  LET at == <<Primary(c), c.tp>>
  IN IF at \in DOMAIN job.profiles THEN Ttft(job, job.profiles[at]) ELSE Unprofiled

(***************************************************************************)
(* generate_candidates and _sample                                         *)
(***************************************************************************)

Space(job) ==
  UNION {Expanded(job, c) : c \in {x \in HwCounts(job) : MayHoldWeights(job, x)}}

\* In the order of stage 2; the order of generation is some order of the set.
Survivors(job, excluded) ==
  LET kept == SetToSeq({c \in Space(job) : /\ job.stage1 => Stage1(job, c)
                                           /\ c.label \notin excluded})
  IN IF job.stage2 THEN SortedBy(kept, [k \in DOMAIN kept |-> Predicted(job, kept[k])]) ELSE kept

\* The samples of k of a list: grid takes every (n/k)-th, random any.
Samples(job, list, k) ==
  IF Len(list) <= k THEN {ToSet(list)}
  ELSE IF job.sampling = "grid"
       THEN {{list[1 + i * (Len(list) \div k)] : i \in 0..(k - 1)}}
       ELSE {S \in SUBSET ToSet(list) : Cardinality(S) = k}

(***************************************************************************)
(* interconnect.py                                                         *)
(***************************************************************************)

Product(seq) == FoldLeft(LAMBDA x, y : x * y, 1, seq)
Gcd(a, b) == CHOOSE d \in 1..a : /\ a % d = 0 /\ b % d = 0
                                 /\ \A e \in 1..a : a % e = 0 /\ b % e = 0 => e <= d

\* Mutant of Decompose: a tier is used whole.
DecomposeWhole(tp, tiers) ==
  FoldLeft(LAMBDA acc, tier : IF acc.left = 1 THEN acc
                              ELSE [shape |-> Append(acc.shape, tier.size),
                                    bws |-> Append(acc.bws, tier.bw),
                                    left |-> IF acc.left % tier.size = 0
                                             THEN acc.left \div tier.size ELSE 1],
           [shape |-> <<>>, bws |-> <<>>, left |-> tp], tiers)

\* _decompose_tp: the TP group on the tiers of the fabric, innermost first; a tier
\* takes the part of the group that divides it.
TakeTier(acc, tier) ==
  LET use == Gcd(tier.size, acc.left)
  IN IF acc.left = 1 \/ use = 1 THEN acc
     ELSE [shape |-> Append(acc.shape, use), bws |-> Append(acc.bws, tier.bw),
           left |-> acc.left \div use]

Decompose(tp, tiers) == FoldLeft(TakeTier, [shape |-> <<>>, bws |-> <<>>, left |-> tp], tiers)

\* resolve_interconnect: the links of a candidate. An empty shape is a flat group;
\* without a fabric the slowest link of the catalog counts, the default if it has none.
Links(job, c) ==
  LET d == Decompose(c.tp, job.fabric)
      slowest == Min({t.bw : t \in ToSet(job.fabric)})
      known == {h \in Kinds(c) : job.hw[h].link > 0}
  IN IF job.fabric = <<>>
     THEN [shape |-> <<>>, bw |-> IF known = {} THEN <<>>
                                  ELSE <<Weakest(job, known, "link")>>]
     ELSE IF c.tp > 1 /\ d.left = 1 THEN [shape |-> d.shape, bw |-> d.bws]
     ELSE [shape |-> <<>>, bw |-> <<slowest>>]

(***************************************************************************)
(* cluster_builder.py: validate_spec                                       *)
(***************************************************************************)

ValidSpec(config) ==
  /\ config.insts # <<>>
  /\ \A k \in DOMAIN config.insts :
       LET i == config.insts[k]
       IN /\ i.group >= 1 /\ i.npus >= i.group /\ i.npus % i.group = 0
          /\ TpOf(i) \in TpOptions(Catalog, i.hw, i.model)
          /\ i.pd \in {"none", "prefill", "decode"}
=============================================================================
