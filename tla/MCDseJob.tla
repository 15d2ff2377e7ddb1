------------------------------- MODULE MCDseJob -------------------------------
EXTENDS DseJob, TLC

MCCatalog == (<<"a", "m">> :> {1, 2}) @@ (<<"b", "m">> :> {1}) @@ (<<"c", "m">> :> {1, 2, 4})

\* Memory in gigabytes, and so on: small numbers in the units of stage 1.
Cards == [a |-> [mem |-> 16, bw |-> 4, tdp |-> 3, flops |-> 8, link |-> 4],
          b |-> [mem |-> 20, bw |-> 2, tdp |-> 1, flops |-> 4, link |-> 0],
          c |-> [mem |-> 12, bw |-> 4, tdp |-> 2, flops |-> 4, link |-> 2]]

Model == [name |-> "m", weight |-> 18, params |-> 2, heads |-> 2, kvHeads |-> 2,
          layers |-> 2, hidden |-> 4, bytes |-> 1]

\* A profile's embedding, block and attention rows.
Profile(e, b, p) ==
  [layers |-> {[key |-> "embedding", at |-> 1, lat |-> e], [key |-> "block", at |-> 1, lat |-> b],
               [key |-> "block", at |-> 4, lat |-> 2 * b], [key |-> "final_layernorm", at |-> 1, lat |-> 1],
               [key |-> "lm_head", at |-> 1, lat |-> 1]},
   prefill |-> {[key |-> 0, at |-> 2, lat |-> p], [key |-> 0, at |-> 8, lat |-> 4 * p],
                [key |-> 4, at |-> 1, lat |-> 5 * p]}]

Base ==
  [pool |-> [a |-> <<0, 2>>, b |-> <<0, 1>>], maxNpus |-> 3, model |-> Model, hw |-> Cards,
   prompt |-> 1, seqLen |-> 0, slo |-> <<>>, allowPd |-> TRUE, stage1 |-> FALSE, stage2 |-> FALSE,
   profiles |-> (<<"a", 1>> :> Profile(2, 3, 1)) @@ (<<"a", 2>> :> Profile(1, 2, 1)),
   sampling |-> "random", maxCombinations |-> 2, topN |-> 2, fabric |-> <<>>,
   weights |-> [ttft |-> 2, thr |-> 1, energy |-> 1, tpot |-> 0, tokwh |-> 0]]

Tier(size, bw) == [size |-> size, bw |-> bw]

\* Random replacements; two jobs behind the filters of stage 1; one prefill and one
\* decode card; a box of four cards with two fast pairs; a model that no card of
\* the pool and one that no single card can hold.
MCJobSpecs ==
  {[Base EXCEPT !.pool = [a |-> <<0, 2>>], !.maxCombinations = 1],
   [Base EXCEPT !.model.weight = 12, !.stage1 = TRUE, !.stage2 = TRUE, !.sampling = "grid",
                !.maxCombinations = 3, !.slo = [tpot |-> 5, power |-> 6]],
   [Base EXCEPT !.model.weight = 12, !.prompt = 9, !.stage1 = TRUE, !.stage2 = TRUE,
                !.slo = [ttft |-> 4, tokwh |-> 300]],
   [Base EXCEPT !.pool = [a |-> <<1, 1>>, b |-> <<1, 1>>], !.model.weight = 12, !.stage1 = TRUE],
   [Base EXCEPT !.model.weight = 99],
   [Base EXCEPT !.pool = [c |-> <<4, 4>>], !.maxNpus = 4, !.model.heads = 4, !.model.kvHeads = 4,
                !.stage1 = TRUE, !.sampling = "grid",
                !.maxCombinations = 4, !.fabric = <<Tier(2, 4), Tier(4, 2)>>],
   [Base EXCEPT !.pool = [a |-> <<0, 2>>, c |-> <<0, 2>>], !.model.weight = 30, !.stage2 = TRUE,
                !.sampling = "grid", !.slo = [energy |-> 2]]}

M(ttft, thr, energy) == [ttft |-> ttft, thr |-> thr, energy |-> energy, tpot |-> 1, tokwh |-> 1]
\* Two that are on the frontier and one that is not, which its score may hide; one
\* without power model.
MCMetrics == {M(1, 2, 10001), M(2, 4, 1), M(1, 2, 10002), [ttft |-> 1, thr |-> 1, tpot |-> 1]}
=============================================================================
