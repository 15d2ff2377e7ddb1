----------------------------- MODULE MCEventSim -----------------------------
EXTENDS EventSim

\* Capacity curves: a fast instance that slows down with its load, a slow flat one.
Fast == {[c |-> 1, ttft |-> 1, tpot |-> 1], [c |-> 3, ttft |-> 3, tpot |-> 3]}
Slow == {[c |-> 2, ttft |-> 3, tpot |-> 2]}

Entry(role, npus, weight, cap, curve) ==
  [role |-> role, npus |-> npus, tp |-> 1, weight |-> weight, cap |-> cap, curve |-> curve]

MCClusters ==
  {ClusterOf("RR", <<Entry("both", 1, 1, None, Fast)>>),
   ClusterOf("RR", <<Entry("both", 2, 1, 1, Fast)>>),
   ClusterOf("WEIGHTED", <<Entry("both", 1, 2, 1, Fast), Entry("both", 1, 1, 2, Slow),
                           Entry("both", 1, 0, None, Fast)>>),
   ClusterOf("WEIGHTED", <<Entry("both", 2, 0, 1, Fast)>>),
   ClusterOf("RR", <<Entry("prefill", 2, 1, 1, Fast), Entry("decode", 1, 1, 1, Slow)>>),
   ClusterOf("RR", <<Entry("decode", 1, 1, 2, Fast)>>)}

MCRequests == 1..4
MCWorkloads ==
  [arrival : {<<0, 0, 0, 0>>, <<0, 1, 2, 3>>, <<5, 1, 1, 0>>},
   output  : {<<1, 3, 2, 2>>, <<4, 1, 2, 3>>, <<3, 3, 3, 3>>},
   handoff : {<<0, 0, 0, 0>>, <<2, 1, 3, 2>>}]
=============================================================================
