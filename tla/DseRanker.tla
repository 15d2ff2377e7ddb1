------------------------------ MODULE DseRanker ------------------------------
(***************************************************************************)
(* The ranking of simulated candidates (webapp/dse/core/ranker.py). A      *)
(* result is [state, metrics, dist]; a metric that the simulator did not   *)
(* report is not in DOMAIN metrics. R maps labels to results.              *)
(***************************************************************************)
EXTENDS Integers, Sequences, FiniteSets, FiniteSetsExt, SequencesExt, Ordering

(***************************************************************************)
(* filter_slo                                                              *)
(***************************************************************************)

AtMost == {"ttft", "tpot", "itl", "power", "energy"}

\* A missing metric fails its SLO, but for the average power.
MeetsSlo(slo, r) ==
  /\ r.state = "done"
  /\ \A o \in DOMAIN slo :
       IF o \notin DOMAIN r.metrics THEN o = "power"
       ELSE IF o \in AtMost THEN r.metrics[o] <= slo[o] ELSE r.metrics[o] >= slo[o]

Eligible(R, slo) == {l \in DOMAIN R : MeetsSlo(slo, R[l])}

(***************************************************************************)
(* pareto_frontier                                                         *)
(***************************************************************************)

ParetoKeys == {"ttft", "thr", "energy"}
Sense(o, v) == IF o \in AtMost THEN -v ELSE v

\* Objectives that no candidate has are dropped, then candidates without one.
Frontier(R, E) ==
  LET keys == {o \in ParetoKeys : \E l \in E : o \in DOMAIN R[l].metrics}
      valid == {l \in E : keys \subseteq DOMAIN R[l].metrics}
      value(l, o) == Sense(o, R[l].metrics[o])
      Dominates(a, b) == /\ \A o \in keys : value(a, o) >= value(b, o)
                         /\ \E o \in keys : value(a, o) > value(b, o)
  IN IF keys = {} THEN {}
     ELSE {l \in valid : \A m \in valid : ~Dominates(m, l)}

(***************************************************************************)
(* compute_scores                                                          *)
(***************************************************************************)

\* _OBJECTIVES; "power" is weighed by the energy.
Objectives == {"ttft", "tpot", "thr", "energy", "tokwh"}

Extent(R, E, o) ==
  LET vs == {R[l].metrics[o] : l \in E} IN Max(vs) - Min(vs)

\* _normalize_minmax: how far above the worst, of Extent.
Gain(R, E, l, o) == LET vs == {Sense(o, R[m].metrics[o]) : m \in E}
                    IN Sense(o, R[l].metrics[o]) - Min(vs)

\* An objective is scored if every eligible candidate has it, and spreads its
\* results if they differ.
Scored(R, E) == {o \in Objectives : \A m \in E : o \in DOMAIN R[m].metrics}
Extents(R, E) == [o \in Scored(R, E) |-> Extent(R, E, o)]
Spread(extents) == {o \in DOMAIN extents : extents[o] # 0}

Scale(extents, S) == FoldFunctionOnSet(LAMBDA x, y : x * y, 1, extents, S)

\* What the objectives contribute to a score, times the extents of all that spread;
\* without extent all results are best.
Points(R, E, weights, extents, l) ==
  LET spread == Spread(extents)
  IN [o \in DOMAIN extents |->
        weights[o] * (IF o \in spread THEN Gain(R, E, l, o) * Scale(extents, spread \ {o})
                                      ELSE Scale(extents, spread))]

\* a / b to the nearest integer, from the middle to the even one.
Rounded(a, b) == IF 2 * (a % b) < b \/ (2 * (a % b) = b /\ (a \div b) % 2 = 0)
                 THEN a \div b ELSE (a \div b) + 1

\* In units of the fourth digit; the weights of a spec add up to one.
Scores(R, E, weights) ==
  LET extents == Extents(R, E)
      whole == SumFunctionOnSet(weights, Objectives) * Scale(extents, Spread(extents))
  IN [l \in E |-> Rounded(10000 * SumFunction(Points(R, E, weights, extents, l)), whole)]

(***************************************************************************)
(* top_n, with diversity                                                   *)
(***************************************************************************)

\* The best first; results are in no particular order.
ByScore(R, E, weights) ==
  LET some == SetToSeq(E)
      score == Scores(R, E, weights)
  IN SortedBy(some, [k \in DOMAIN some |-> -score[some[k]]])

FirstOf(seq, n) == [k \in 1..(IF Len(seq) < n THEN Len(seq) ELSE n) |-> seq[k]]

\* Mutant of TopN: the best of a hardware distribution need not be the first.
TopNAnyOf(R, E, weights, n) ==
  LET ranked == ByScore(R, E, weights)
      last(k) == \A j \in (k + 1)..Len(ranked) : R[ranked[j]].dist # R[ranked[k]].dist
      picked == Ascending({k \in DOMAIN ranked : last(k)})
  IN FirstOf([k \in DOMAIN picked |-> ranked[picked[k]]], n)

TopN(R, E, weights, n) ==
  LET ranked == ByScore(R, E, weights)
      first(k) == \A j \in 1..(k - 1) : R[ranked[j]].dist # R[ranked[k]].dist
      picked == Ascending({k \in DOMAIN ranked : first(k)})
  IN FirstOf([k \in DOMAIN picked |-> ranked[picked[k]]], n)
=============================================================================
