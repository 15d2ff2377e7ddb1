------------------------------- MODULE Topology -------------------------------
(***************************************************************************)
(* The cluster's registry, its promotion from the first format             *)
(* (service/topology/schema.py), what of it is free as the planner sees it *)
(* (views.py), how tightly devices are coupled (graph.py) and which        *)
(* devices the groups of an allocation get (placement.py).                 *)
(*                                                                         *)
(* A registry is [nodes, inter, intra]: nodes is a set of [id, host,       *)
(* devices, switches, links], a device [id, hw, mem] with id = <<node, hw, *)
(* index>>, a switch an id <<node, name>>; links and inter hold [a, b, bw] *)
(* with bandwidths in GB/s. Indices have one digit, so ids sort by index.  *)
(***************************************************************************)
EXTENDS Ordering, FiniteSetsExt, SequencesExt

CONSTANTS MaxCombos    \* sets of devices compared for one group (_MAX_COMBOS)

Nothing == -1
Undirected(S) == UNION {{{x, y} : y \in S \ {x}} : x \in S}

\* promote_v1: count devices each, a mesh when the cluster states a bandwidth, a
\* NIC on every node that a link names.
Promote(c) ==
  LET linked == UNION {{l.src, l.dst} : l \in c.links}
      ids(n) == UNION {{[id |-> <<n.id, d.hw, i>>, hw |-> d.hw, mem |-> d.mem] :
                          i \in 0..(d.count - 1)} : d \in n.devices}
      mesh(n) == IF c.intra = Nothing THEN {}
                 ELSE {[a |-> CHOOSE x \in e : TRUE, b |-> CHOOSE y \in e : y # CHOOSE x \in e : TRUE,
                        bw |-> c.intra] : e \in Undirected({d.id : d \in ids(n)})}
  IN [nodes |-> {[id |-> n.id, host |-> n.host, devices |-> ids(n), links |-> mesh(n),
                  switches |-> IF n.id \in linked THEN {<<n.id, "nic0">>} ELSE {}] : n \in c.nodes},
      inter |-> {[a |-> <<l.src, "nic0">>, b |-> <<l.dst, "nic0">>, bw |-> l.bw] : l \in c.links},
      intra |-> c.intra]

DeviceIds(reg) == UNION {{d.id : d \in n.devices} : n \in reg.nodes}

\* The validators of NodeV2 and RegistryV2.
RegistryValid(reg) ==
  LET elements(n) == {d.id : d \in n.devices} \cup n.switches
  IN /\ \A n \in reg.nodes : /\ \A d \in n.devices : d.id[1] = n.id
                             /\ \A l \in n.links : {l.a, l.b} \subseteq elements(n)
     /\ \A n, m \in reg.nodes : n # m => elements(n) \cap elements(m) = {}
     /\ \A l \in reg.inter : {l.a, l.b} \subseteq UNION {elements(n) : n \in reg.nodes}

\* available_topology: kinds of devices by how many of them are free; nodes
\* without any are left out, and links at them.
AvailableTopology(reg, free) ==
  LET count(n, hw) == Cardinality({i \in free : i[1] = n.id /\ i[2] = hw})
      devices == UNION {{[node |-> n.id, hw |-> d.hw, count |-> count(n, d.hw), mem |-> d.mem] :
                           d \in {x \in n.devices : count(n, x.hw) > 0}} : n \in reg.nodes}
      kept == {d.node : d \in devices}
  IN [devices |-> devices, host |-> [v \in kept |-> (CHOOSE n \in reg.nodes : n.id = v).host],
      links |-> {l \in reg.inter : l.a[1] \in kept /\ l.b[1] \in kept}, intra |-> reg.intra]

(***************************************************************************)
(* Affinity: the bandwidth of the least cut of a set of devices, with the  *)
(* switches that join two of them (TopologyGraph.affinity).                *)
(***************************************************************************)

Links(reg) == reg.inter \cup UNION {n.links : n \in reg.nodes}
Between(reg, u, v) == SumFunction([l \in {x \in Links(reg) : {x.a, x.b} = {u, v}} |-> l.bw])

Affinity(reg, devs) ==
  LET joined(s) == {d \in devs : \E l \in Links(reg) : {l.a, l.b} = {d, s}}
      V == devs \cup {s \in UNION {n.switches : n \in reg.nodes} : Cardinality(joined(s)) >= 2}
      cut(A) == SumFunction([p \in A \X (V \ A) |-> Between(reg, p[1], p[2])])
  IN Min({cut(A) : A \in SUBSET V \ {{}, V}})

(***************************************************************************)
(* Placement (pick_devices_affinity). groups is a sequence of              *)
(* <<node, hw, size>>.                                                     *)
(***************************************************************************)

\* sorted, for devices of one node and kind.
InOrder(devs) == Listed([d \in devs |-> Cardinality({e \in devs : e[3] < d[3]})])

\* The order of combinations of one length: that of the first device they do not share.
Before(C, D) == \E x \in C \ D : \A y \in D \ C : x[3] < y[3]

Take(reg, avail, size) ==
  LET combos == [C \in kSubset(size, avail) |-> InOrder(C)]
      best == {C \in DOMAIN combos : \A D \in DOMAIN combos : Affinity(reg, D) <= Affinity(reg, C)}
  IN IF size = 1 \/ Cardinality(DOMAIN combos) > MaxCombos THEN SubSeq(InOrder(avail), 1, size)
     ELSE combos[CHOOSE C \in best : \A D \in best : D = C \/ Before(C, D)]

\* Group numbers, the largest groups first.
Largest(groups) == Order([i \in DOMAIN groups |-> -groups[i][3]])

\* What is left for a group when others have got theirs, of its node and kind.
Available(free, group, got) ==
  {d \in free \ UNION {ToSet(got[k]) : k \in DOMAIN got} : d[1] = group[1] /\ d[2] = group[2]}

\* Group after group takes its devices, or none when they are too few.
Picks(reg, free, groups) ==
  LET take(size) == [avail \in SUBSET DeviceIds(reg) |->
                       IF Cardinality(avail) < size THEN <<>> ELSE Take(reg, avail, size)]
      next(i) == [got \in [DOMAIN groups -> Seq(DeviceIds(reg))] |->
                    [got EXCEPT ![i] = take(groups[i][3])[Available(free, groups[i], got)]]]
  IN FoldLeft(LAMBDA got, i : next(i)[got], [i \in DOMAIN groups |-> <<>>], Largest(groups))

\* A shortage raises.
Short(picks) == \E i \in DOMAIN picks : picks[i] = <<>>

\* Mutant of Chosen: in the order in which they were picked.
ChosenAsPicked(groups, picks) ==
  LET order == Largest(groups)
  IN FlattenSeq([k \in DOMAIN order |-> picks[order[k]]])

\* The devices of all groups, in the order of the groups.
Chosen(groups, picks) == FlattenSeq([i \in DOMAIN groups |-> picks[i]])
=============================================================================
