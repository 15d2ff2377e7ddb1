---------------------------- MODULE MCServePlan -----------------------------
EXTENDS ServePlan, TLC

\* Two devices of kind a on node x, a larger one of kind b on node y.
Dev(node, hw, count, mem) == [node |-> node, hw |-> hw, count |-> count, mem |-> mem]
Objective(metric, dir) == [metric |-> metric, dir |-> dir, weight |-> 1]
Toks(n) == [toks |-> n, req |-> None, preset |-> "", lengths |-> <<>>, unit |-> None,
            tolerance |-> 10, maxQueue |-> 3]

\* 60 bytes with its KV reserve, and 268; the latter takes 82 with 4-bit weights.
Small == [name |-> "small", hidden |-> 2, layers |-> 1, inter |-> 2, heads |-> 2, kvHeads |-> 1,
          vocab |-> 1, method |-> "none", bits |-> None, kvBits |-> None, dtype |-> 16]
Large == [Small EXCEPT !.name = "large", !.layers = 5]
LargeAwq == [Large EXCEPT !.method = "awq"]

Base ==
  [nodes |-> {"x", "y"}, host |-> [x |-> 3, y |-> None],
   devices |-> {Dev("x", "a", 2, 2), Dev("y", "b", 1, 4)}, intra |-> None,
   tps |-> {1, 2}, hwTps |-> <<>>, model |-> Small, fp |-> 16, pd |-> FALSE,
   prefills |-> <<1, 1>>, decodes |-> <<1, 2>>,
   capacity |-> {[hw |-> "a", tp |-> 2, rate |-> 3]},
   links |-> <<>>, demand |-> Toks(4), topK |-> 2, steps |-> 3, jobs |-> 2, dry |-> FALSE,
   batchTokens |-> {1}, objectives |-> <<Objective("thr", "max"), Objective("perWh", "max")>>,
   slo |-> {[metric |-> "itl", op |-> "<=", value |-> 4]}, backend |-> "legacy"]

\* 8 Gb/s: one GB/s.
Link == <<[src |-> "x", dst |-> "y", bw |-> [value |-> 8, prefix |-> "G", unit |-> "b"],
           latency |-> [value |-> 1, unit |-> "us"]]>>
PowerMin0 == [Base EXCEPT !.objectives = <<Objective("power", "min")>>, !.backend = "upstream"]
Rate(n, preset, lengths) == [Toks(None) EXCEPT !.req = n, !.preset = preset, !.lengths = lengths]

\* The one that is run again after a crash or a failure: one allocation, two
\* batch sizes.
Twice == [Base EXCEPT !.topK = 1, !.steps = 1, !.batchTokens = {1, 2}]

\* 16.1 proxy units, of which the float makes 16.101: all that node x can do at degree
\* two, refused as "structure"; or, with b's help, more than is needed.
Tight == [PowerMin0 EXCEPT !.demand = [Toks(161) EXCEPT !.unit = 10],
                           !.capacity = {[hw |-> "a", tp |-> 2, rate |-> 161], [hw |-> "b", tp |-> 1, rate |-> 10]}]

\* A demand of 7 is all that the devices have; 20 is out of reach. The last two
\* are refused: an objective without its demand, a model without profiles.
MCSubmitted ==
  {Base, Twice, [Twice EXCEPT !.batchTokens = {1, 2, 3}],
   [Base EXCEPT !.pd = TRUE, !.links = Link, !.demand = <<>>],
   [Base EXCEPT !.model = Large],
   [PowerMin0 EXCEPT !.demand = Rate(2, "", [input |-> 1, output |-> 1])],
   [PowerMin0 EXCEPT !.demand = Toks(3), !.topK = 1, !.hwTps = [a |-> {1}]],
   [PowerMin0 EXCEPT !.demand = Rate(1, "chat", <<>>)],
   [PowerMin0 EXCEPT !.demand = Toks(20)],
   [PowerMin0 EXCEPT !.model = Large],
   Tight, [Tight EXCEPT !.tps = {2}], [Base EXCEPT !.dry = TRUE],
   [PowerMin0 EXCEPT !.model = LargeAwq, !.demand = Toks(3), !.backend = "measured"],
   [PowerMin0 EXCEPT !.pd = TRUE, !.prefills = <<2, 2>>, !.decodes = <<2, 2>>],
   [PowerMin0 EXCEPT !.pd = TRUE, !.prefills = <<2, 2>>, !.decodes = <<2, 2>>, !.links = Link],
   [PowerMin0 EXCEPT !.pd = TRUE, !.links = Link, !.demand = Toks(3)],
   [PowerMin0 EXCEPT !.demand = <<>>],
   [Base EXCEPT !.model.name = "other"]}

MCMaxRuns == [s \in {Resolved(x) : x \in MCSubmitted} |-> IF s = Twice THEN 2 ELSE 1]

MCModelConfigs == {"small", "large"}
MCProfiles ==
  {[hw |-> hw, model |-> m, tp |-> tp, files |-> {"layers", "prefill.csv", "decode.csv"}] :
     <<hw, m, tp>> \in {"a", "b"} \X MCModelConfigs \X {1, 2}}
  \cup {[hw |-> "n", model |-> "large", tp |-> 1, files |-> {"layers", "prefill.csv", "decode.csv"}],
        [hw |-> "a", model |-> "other", tp |-> 1, files |-> {"layers", "decode.pkl"}]}

\* b has a power profile, a only a legacy constant.
MCPowerProfiles ==
  [b |-> [active |-> 4, base |-> 1,
          points |-> {[model |-> "small", tp |-> 1, load |-> 50, watts |-> 3],
                      [model |-> "small", tp |-> 1, load |-> 90, watts |-> 5]}]]
MCRel == [a |-> 2000, b |-> 3000]
\* As Python's floats have it, for the demands and units above.
MCRoundsUp == {<<161000, 10, 0>>, <<177100, 10, 1>>, <<3300, 1, 1>>, <<7700, 1, 1>>, <<3300, 2, 1>>}
MCLegacy == [a |-> 2]
MCPresets == [chat |-> [input |-> [mean |-> 3, p90 |-> 5, cap |-> 4],
                        output |-> [mean |-> 4, p90 |-> 6, cap |-> 4]]]

(***************************************************************************)
(* Processes: two that measure something that passes, with and without     *)
(* energy, one whose requests wait too long, and the ways to fail.         *)
(***************************************************************************)
Row(out, at, end, itl, queue) ==
  [output |-> out, arrival |-> at, end |-> end, ttft |-> 1, tpot |-> 1, itl |-> itl, queue |-> queue]
Steady == <<[p \in {0} |-> [rss |-> 2, kids |-> {7}]]>>
Ran(rows, energy) ==
  [procs |-> Steady, code |-> 0, file |-> "csv", rows |-> rows, energy |-> energy]
Good == Ran(<<Row(4, 0, 4, <<1, 1, 2>>, 0), Row(4, 2, 6, <<1, 2, 1>>, 1)>>, 6)

MCSimulations ==
  {Good, Ran(<<Row(6, 0, 4, <<2, 2>>, None)>>, 0), Ran(<<Row(6, 0, 4, <<2, 2>>, 9)>>, 4),
   [Good EXCEPT !.code = 1], [Good EXCEPT !.file = "missing"], [Good EXCEPT !.rows = <<>>],
   [Good EXCEPT !.procs = <<Steady[1], (0 :> [rss |-> 2, kids |-> {1}]) @@ (1 :> [rss |-> 3, kids |-> {0}])>>],
   [Good EXCEPT !.procs = <<Steady[1], Steady[1], Steady[1]>>]}

(***************************************************************************)
(* The service: node x with three devices of kind a, two of them joined,   *)
(* node y with one b and one NPU n. Oracles cover a and b for the model    *)
(* "small"; n is profiled for "large" only, and by the legacy tree only.   *)
(***************************************************************************)
Gpu(node, hw, i, mem) == [id |-> <<node, hw, i>>, hw |-> hw, mem |-> mem]
NodeX ==
  [id |-> "x", host |-> 3, switches |-> {<<"x", "sw">>},
   devices |-> {Gpu("x", "a", i, 2) : i \in 0..2},
   links |-> {[a |-> <<"x", "a", 1>>, b |-> <<"x", "a", 2>>, bw |-> 9]}
             \cup {[a |-> <<"x", "a", i>>, b |-> <<"x", "sw">>, bw |-> 2] : i \in 0..2}]
Promoted == Promote([nodes |-> {[id |-> "y", host |-> Nothing,
                                 devices |-> {[hw |-> "b", count |-> 1, mem |-> 4],
                                              [hw |-> "n", count |-> 1, mem |-> 4]}]},
                     links |-> {}, intra |-> 5])
MCRegistry == [Promoted EXCEPT !.nodes = @ \cup {NodeX}]
ASSUME RegistryValid(MCRegistry)

MCOracles ==
  {[hw |-> "a", model |-> "small", tp |-> 2, rates |-> {3}],
   [hw |-> "b", model |-> "small", tp |-> 1, rates |-> {2, 3}],
   [hw |-> "n", model |-> "other", tp |-> 1, rates |-> {}]}
MCContested == {<<"x", "a", 1>>, <<"y", "b", 0>>}
MCUpstream == {[hw |-> "b", model |-> "small", tp |-> 1]}

Ask == [model |-> Small, fp |-> 16, slo |-> [itl |-> 4], cap |-> None, exclude |-> {},
        force |-> "", scale |-> [preset |-> "chat", duration |-> 2]]
MCRequests ==
  {[Ask EXCEPT !.exclude = {"n"}], Ask,
   [Ask EXCEPT !.cap = 2, !.exclude = {"a", "n"}],
   [Ask EXCEPT !.force = "upstream"],
   [Ask EXCEPT !.model = LargeAwq, !.exclude = {"b"}],
   [Ask EXCEPT !.exclude = {"a", "b", "n"}],
   [Ask EXCEPT !.model.name = "nowhere"],
   [Ask EXCEPT !.model.name = "other"], [Ask EXCEPT !.model.name = "other", !.exclude = {"n"}],
   [Ask EXCEPT !.scale.preset = ""]}
=============================================================================
