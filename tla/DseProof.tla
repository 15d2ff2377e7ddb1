------------------------------- MODULE DseProof -------------------------------
(***************************************************************************)
(* Proofs about the design-space job. Every candidate is of one of three   *)
(* forms (HasForm), which tells its instances, its label and the cards     *)
(* that it is charged for; the space is finite, so that lists of it exist; *)
(* the ranking sorts finitely many results with integer scores.            *)
(***************************************************************************)
EXTENDS DseJob, DataTheorems, TLAPS

-------------------------------------------------------------------------------
(* The candidates that counts of NPUs contribute *)

\* The kinds of hardware that counts take cards of.
Used(counts) == {h \in DOMAIN counts : counts[h] > 0}

\* The profiled degrees of tensor parallelism of the model on a kind of hardware.
Degrees(J, h) == TpOptions(Catalog, h, J.model.name)

\* An instance of p stages of t NPUs.
Shard(J, h, t, p, pd) ==
  [hw |-> h, model |-> J.model.name, npus |-> t * p, group |-> p, pd |-> pd]

\* A group as a candidate has it, from some kind of hardware.
GroupOf(J, h, n) == [hw |-> h, model |-> J.model.name, npus |-> n, role |-> "auto"]

\* The profiled degrees are finitely many and positive (CatalogAssumption).
LEMMA DegreesArePositive ==
  ASSUME NEW J, NEW h
  PROVE  IsFiniteSet(Degrees(J, h)) /\ Degrees(J, h) \subseteq Positive
  BY CatalogAssumption, FS_EmptySet DEF Degrees, TpOptions, Positive

\* Counts are natural numbers for finitely many kinds of cards, of which some are used.
LEMMA CountsType ==
  ASSUME NEW J, IsJob(J), NEW counts \in HwCounts(J)
  PROVE  /\ IsFiniteSet(DOMAIN counts) /\ IsFiniteSet(Used(counts)) /\ Used(counts) # {}
         /\ DOMAIN counts \subseteq DOMAIN J.hw
         /\ \A h \in DOMAIN counts : counts[h] \in Nat /\ J.hw[h].mem \in Nat
  <1>1. /\ DOMAIN counts = DOMAIN J.pool
        /\ \A h \in DOMAIN counts : J.pool[h][1] <= counts[h] /\ counts[h] <= J.pool[h][2]
        /\ \E h \in DOMAIN counts : counts[h] > 0
        /\ counts \in [DOMAIN J.pool -> UNION {J.pool[h][1]..J.pool[h][2] : h \in DOMAIN J.pool}]
    BY DEF HwCounts
  <1>2. /\ IsFiniteSet(DOMAIN J.pool) /\ DOMAIN J.pool \subseteq DOMAIN J.hw
        /\ \A h \in DOMAIN J.pool : J.pool[h] \in Nat \X Nat /\ J.hw[h].mem \in Nat
    BY DEF IsJob
  <1>3. ASSUME NEW h \in DOMAIN counts PROVE counts[h] \in Nat
    <2>1. PICK g \in DOMAIN J.pool : counts[h] \in J.pool[g][1]..J.pool[g][2]
      BY <1>1
    <2>2. J.pool[g][1] \in Nat /\ J.pool[g][2] \in Nat
      BY <1>2
    <2> QED
      BY <2>1, <2>2
  <1>4. Used(counts) \in SUBSET DOMAIN counts /\ Used(counts) # {}
    BY <1>1 DEF Used
  <1>5. IsFiniteSet(Used(counts))
    BY <1>1, <1>2, <1>4, FS_Subset
  <1> QED
    BY <1>1, <1>2, <1>3, <1>4, <1>5

\* The groups of a candidate are the kinds of hardware that it uses, each once.
LEMMA GroupsListUsed ==
  ASSUME NEW J, IsJob(J), NEW counts \in HwCounts(J), NEW n \in Nat, n = Cardinality(Used(counts))
  PROVE  \E o \in [1..n -> Used(counts)] :
           /\ Lists(o, n, Used(counts))
           /\ Groups(J, counts) = [k \in 1..n |-> GroupOf(J, o[k], counts[o[k]])]
  <1>1. IsFiniteSet(Used(counts))
    BY CountsType
  <1>2. PICK o : o = SetToSeq(Used(counts))
    OBVIOUS
  <1>3. Lists(o, n, Used(counts))
    BY <1>1, <1>2, SetToSeqLists
  <1>4. Groups(J, counts) = [k \in DOMAIN o |-> GroupOf(J, o[k], counts[o[k]])]
    BY <1>2 DEF Groups, Used, GroupOf
  <1>5. o \in [1..n -> Used(counts)] /\ DOMAIN o = 1..n
    BY <1>3 DEF Lists
  <1> QED
    BY <1>3, <1>4, <1>5

\* A layout is a degree times a number of stages, within the group (_per_instance_layouts).
LEMMA LayoutForm ==
  ASSUME NEW J, NEW h, NEW n \in Nat, NEW axes, NEW l \in Layouts(Catalog, GroupOf(J, h, n), axes)
  PROVE  \E t \in Degrees(J, h), p \in Positive : l = <<t * p, p>> /\ t * p <= n
  <1>1. PICK t \in IF axes.tp THEN Degrees(J, h) ELSE Lowest(Degrees(J, h)),
             p \in IF axes.pp THEN 1..n ELSE {1} : l = <<t * p, p>> /\ l[1] <= n
    BY DEF Layouts, GroupOf, Degrees
  <1>2. t \in Degrees(J, h)
    BY <1>1 DEF Lowest
  <1>3. p \in Positive
    BY <1>1 DEF Positive
  <1> QED
    BY <1>1, <1>2, <1>3

\* What _enum_single_group_combined and _enum_single_group_pd make, by their parameters.
CombinedConfig(J, h, t, p, dp) ==
  [label |-> <<"combined", <<t, p, dp>>>>, insts |-> [k \in 1..dp |-> Shard(J, h, t, p, "none")],
   tp |-> t, pp |-> p, dp |-> dp]

PdConfig(J, h, t, np, nd) ==
  [label |-> <<"pd", <<np, nd, t, 1>>>>,
   insts |-> [k \in 1..(np + nd) |-> IF k <= np THEN Shard(J, h, t, 1, "prefill")
                                                ELSE Shard(J, h, 1, 1, "decode")],
   tp |-> t, pp |-> 1, dp |-> nd]

\* Every layout without a split has such parameters.
LEMMA CombinedForm ==
  ASSUME NEW J, NEW h, NEW n \in Nat, NEW axes, NEW c \in Combined(Catalog, GroupOf(J, h, n), axes)
  PROVE  \E t \in Degrees(J, h), p \in Positive, dp \in Positive : c = CombinedConfig(J, h, t, p, dp)
  <1> DEFINE g == GroupOf(J, h, n)
  <1>1. PICK l \in Layouts(Catalog, g, axes), dp \in (IF axes.dp THEN 1..n ELSE {1}) :
          c = [label |-> <<"combined", <<l[1] \div l[2], l[2], dp>>>>,
               insts |-> Repeat(Inst(g, l, "none"), dp), tp |-> l[1] \div l[2], pp |-> l[2], dp |-> dp]
    BY DEF Combined, GroupOf
  <1>2. PICK t \in Degrees(J, h), p \in Positive : l = <<t * p, p>>
    BY LayoutForm
  <1>3. t \in Positive /\ dp \in Positive
    BY <1>1, DegreesArePositive DEF Positive
  <1>4. l[1] \div l[2] = t /\ l[2] = p
    BY <1>2, <1>3, Products
  <1>5. Inst(g, l, "none") = Shard(J, h, t, p, "none")
    BY <1>2 DEF Inst, GroupOf, Shard
  <1> QED
    BY <1>1, <1>3, <1>4, <1>5 DEF CombinedConfig, Repeat

\* Two repeated values one after the other are one list.
LEMMA RepeatTwice ==
  ASSUME NEW x, NEW y, NEW m \in Nat, NEW n \in Nat
  PROVE  Repeat(x, m) \o Repeat(y, n) = [k \in 1..(m + n) |-> IF k <= m THEN x ELSE y]
  <1>1. Repeat(x, m) \in Seq({x, y}) /\ Repeat(y, n) \in Seq({x, y})
    BY DEF Repeat
  <1>2. Len(Repeat(x, m)) = m /\ Len(Repeat(y, n)) = n
    BY DEF Repeat
  <1>3. /\ \A k \in 1..m : Repeat(x, m)[k] = x
        /\ \A k \in 1..n : Repeat(y, n)[k] = y
    BY DEF Repeat
  <1>4. PICK r \in Seq({x, y}), s \in Seq({x, y}) : r = Repeat(x, m) /\ s = Repeat(y, n)
    BY <1>1
  <1>5. /\ r \o s \in Seq({x, y}) /\ Len(r \o s) = m + n
        /\ \A k \in 1..(m + n) : (r \o s)[k] = IF k <= m THEN r[k] ELSE s[k - m]
    <2>1. PICK S : S = {x, y} /\ r \in Seq(S) /\ s \in Seq(S)
      OBVIOUS
    <2>2. /\ r \o s \in Seq(S) /\ Len(r \o s) = Len(r) + Len(s)
          /\ \A k \in 1..(Len(r) + Len(s)) : (r \o s)[k] = IF k <= Len(r) THEN r[k] ELSE s[k - Len(r)]
      BY <2>1, ConcatProperties
    <2>3. Len(r) = m /\ Len(s) = n
      BY <1>2, <1>4
    <2> QED
      BY <2>1, <2>2, <2>3
  <1>6. PICK q \in [1..(m + n) -> {x, y}] : q = r \o s
    BY <1>5, LenProperties
  <1>7. ASSUME NEW k \in 1..(m + n) PROVE q[k] = IF k <= m THEN x ELSE y
    <2>1. k \in Int /\ (k <= m => k \in 1..m) /\ (~(k <= m) => k - m \in 1..n)
      OBVIOUS
    <2> QED
      BY <1>3, <1>4, <1>5, <1>6, <2>1
  <1>8. q = [k \in 1..(m + n) |-> IF k <= m THEN x ELSE y]
    BY <1>7
  <1> QED
    BY <1>4, <1>6, <1>8

\* Every layout split into prefill and decode has such parameters; decodes have one NPU.
LEMMA PdForm ==
  ASSUME NEW J, NEW h, NEW n \in Nat, NEW axes, NEW c \in PdSplit(Catalog, GroupOf(J, h, n), axes)
  PROVE  \E t \in Degrees(J, h), np \in Positive, nd \in Positive :
           1 \in Degrees(J, h) /\ c = PdConfig(J, h, t, np, nd)
  <1> DEFINE g == GroupOf(J, h, n)
             L == Layouts(Catalog, g, axes)
  <1>0. PICK x \in {l \in L : l[2] = 1} \X {l \in L : l[1] = 1} \X (1..n) \X (1..n) :
          c = [label |-> <<"pd", <<x[3], x[4], x[1][1] \div x[1][2], x[1][2]>>>>,
               insts |-> Repeat(Inst(g, x[1], "prefill"), x[3]) \o Repeat(Inst(g, x[2], "decode"), x[4]),
               tp |-> x[1][1] \div x[1][2], pp |-> x[1][2], dp |-> x[4]]
    BY DEF PdSplit, GroupOf
  <1>1. PICK p \in L, d \in L, np \in 1..n, nd \in 1..n :
          /\ p[2] = 1 /\ d[1] = 1
          /\ c = [label |-> <<"pd", <<np, nd, p[1] \div p[2], p[2]>>>>,
                  insts |-> Repeat(Inst(g, p, "prefill"), np) \o Repeat(Inst(g, d, "decode"), nd),
                  tp |-> p[1] \div p[2], pp |-> p[2], dp |-> nd]
    BY <1>0
  <1>2. PICK t \in Degrees(J, h), tp \in Positive : p = <<t * tp, tp>>
    BY LayoutForm
  <1>3. PICK u \in Degrees(J, h), up \in Positive : d = <<u * up, up>>
    BY LayoutForm
  <1>4. t \in Positive /\ u \in Positive /\ np \in Positive /\ nd \in Positive
    BY DegreesArePositive DEF Positive
  <1>5. tp = 1 /\ t * tp = t
    BY <1>1, <1>2, <1>4 DEF Positive
  <1>6. u = 1 /\ up = 1
    <2>1. u * up = 1
      BY <1>1, <1>3
    <2>2. u <= 1 /\ up <= 1
      BY <2>1, <1>3, <1>4, Products
    <2> QED
      BY <2>2, <1>4 DEF Positive
  <1>7. p[1] \div p[2] = t /\ p[2] = 1
    BY <1>2, <1>4, <1>5, Products DEF Positive
  <1>8. /\ Inst(g, p, "prefill") = Shard(J, h, t, 1, "prefill")
        /\ Inst(g, d, "decode") = Shard(J, h, 1, 1, "decode")
    BY <1>2, <1>3, <1>5, <1>6 DEF Inst, GroupOf, Shard
  <1>9. c.insts = [k \in 1..(np + nd) |-> IF k <= np THEN Shard(J, h, t, 1, "prefill")
                                                     ELSE Shard(J, h, 1, 1, "decode")]
    BY <1>1, <1>4, <1>8, RepeatTwice DEF Positive
  <1>10. 1 \in Degrees(J, h)
    BY <1>6
  <1> QED
    BY <1>1, <1>4, <1>7, <1>9, <1>10 DEF PdConfig

Roles == {"none", "prefill", "decode"}

\* The instances that a kind of hardware can have.
Shards(J, h) == {Shard(J, h, t, p, pd) : t \in Degrees(J, h), p \in Positive, pd \in Roles}

\* An instance has a whole number of stages, of a profiled degree; its hardware, degree,
\* stages and role determine it.
LEMMA ShardFacts ==
  ASSUME NEW J, NEW h, NEW s \in Shards(J, h)
  PROVE  /\ s.hw = h /\ s.model = J.model.name /\ s.pd \in Roles
         /\ s.npus \in Positive /\ s.group \in Positive /\ TpOf(s) \in Degrees(J, h)
         /\ s.npus = TpOf(s) * s.group /\ s.npus >= s.group /\ s.npus % s.group = 0
         /\ s = Shard(J, h, TpOf(s), s.group, s.pd)
  <1>1. PICK t \in Degrees(J, h), p \in Positive, pd \in Roles : s = Shard(J, h, t, p, pd)
    BY DEF Shards
  <1>2. /\ s.hw = h /\ s.model = J.model.name /\ s.npus = t * p /\ s.group = p /\ s.pd = pd
    BY <1>1 DEF Shard
  <1>3. t \in Positive
    BY DegreesArePositive
  <1>4. /\ t * p \in Positive /\ t * p >= p /\ (t * p) \div p = t /\ (t * p) % p = 0
    BY <1>3, Products
  <1>5. TpOf(s) = t
    BY <1>2, <1>4 DEF TpOf
  <1> QED
    BY <1>1, <1>2, <1>4, <1>5

\* Any degree and number of stages make an instance.
LEMMA ShardIsShard ==
  ASSUME NEW J, NEW h, NEW t \in Degrees(J, h), NEW p \in Positive, NEW pd \in Roles
  PROVE  Shard(J, h, t, p, pd) \in Shards(J, h)
  BY DEF Shards

\* What _enum_multi_group makes of a list of instances.
MultiConfig(insts) ==
  LET decodes == Cardinality({k \in DOMAIN insts : insts[k].pd = "decode"})
  IN [label |-> <<"het", MultiLabel(insts)>>, insts |-> insts,
      tp |-> TpOf(insts[1]), pp |-> insts[1].group, dp |-> IF decodes > 0 THEN decodes ELSE 1]

\* A group of a mixed candidate becomes an instance within its NPUs.
LEMMA CandidateForm ==
  ASSUME NEW J, NEW h, NEW n \in Nat, NEW axes, NEW role \in {"combined", "prefill", "decode"},
         NEW i \in Candidate(Catalog, GroupOf(J, h, n), role, axes)
  PROVE  i \in Shards(J, h) /\ i.npus <= n
  <1> DEFINE g == GroupOf(J, h, n)
             pd == IF role = "combined" THEN "none" ELSE role
  <1>1. PICK l \in Layouts(Catalog, g, axes) : i = Inst(g, l, pd)
    BY DEF Candidate
  <1>2. PICK t \in Degrees(J, h), p \in Positive : l = <<t * p, p>> /\ t * p <= n
    BY LayoutForm
  <1>3. i = Shard(J, h, t, p, pd)
    BY <1>1, <1>2 DEF Inst, GroupOf, Shard
  <1>4. pd \in Roles
    BY DEF Roles
  <1> HIDE DEF pd
  <1>5. i.npus <= n
    BY <1>2, <1>3 DEF Shard
  <1> QED
    BY <1>3, <1>4, <1>5, ShardIsShard

\* Sorting by role keeps every instance once.
LEMMA ByRolePermutes ==
  ASSUME NEW n \in Nat, NEW insts, DOMAIN insts = 1..n, \A k \in 1..n : insts[k].pd \in Roles
  PROVE  \E r :
           /\ Lists(r, n, 1..n)
           /\ ByRole(insts) = [k \in 1..n |-> insts[r[k]]]
  <1>1. PICK key : key = [k \in DOMAIN insts |-> Place[insts[k].pd]]
    OBVIOUS
  <1>2. key \in [1..n -> Int]
    BY <1>1 DEF Place, Roles
  <1>3. PICK r : r = Order(key)
    OBVIOUS
  <1>4. Lists(r, n, 1..n)
    BY <1>2, <1>3, OrderSorts DEF Sorts
  <1>5. ByRole(insts) = [k \in 1..n |-> insts[r[k]]]
    BY <1>1, <1>3 DEF ByRole, SortedBy
  <1> QED
    BY <1>4, <1>5

\* The groups of n kinds of hardware with m[h] cards of each.
AreGroups(G, J, n, o, m) == G = [k \in 1..n |-> GroupOf(J, o[k], m[o[k]])]

\* A function on 1..n.
IsList(i, n) == i = [k \in 1..n |-> i[k]]

\* A candidate of several kinds of hardware has one instance on each.
LEMMA MultiForm ==
  ASSUME NEW J, NEW n \in Nat, NEW U, NEW m, \A h \in U : m[h] \in Nat,
         NEW o, Lists(o, n, U),
         NEW G, AreGroups(G, J, n, o, m), NEW axes, NEW c \in MultiGroup(Catalog, G, axes)
  PROVE  \E i, e :
           /\ c = MultiConfig(i) /\ DOMAIN i = 1..n /\ IsList(i, n)
           /\ Lists(e, n, U)
           /\ \A k \in 1..n : i[k] \in Shards(J, e[k]) /\ i[k].npus <= m[e[k]]
  <1>1. G = [k \in 1..n |-> GroupOf(J, o[k], m[o[k]])]
    BY DEF AreGroups
  <1>2. /\ c \in MultiGroup(Catalog, G, axes)
        /\ DOMAIN G = 1..n /\ \A k \in 1..n : G[k] = GroupOf(J, o[k], m[o[k]])
    BY <1>1
  <1> DEFINE options(rc) == [k \in DOMAIN G |-> Candidate(Catalog, G[k], rc[k], axes)]
             picks(rc) == {p \in [DOMAIN G -> UNION {options(rc)[k] : k \in DOMAIN G}] :
                             /\ \A k \in DOMAIN G : p[k] \in options(rc)[k]
                             /\ TopologyValid(p)}
  <1>3. PICK rc, p :
          /\ rc \in RoleCombos(G, axes)
          /\ DOMAIN p = 1..n
          /\ \A k \in 1..n : p[k] \in Candidate(Catalog, G[k], rc[k], axes)
          /\ c = MultiConfig(ByRole(p))
    <2>1. c \in UNION {{MultiConfig(ByRole(p)) : p \in picks(rc)} : rc \in RoleCombos(G, axes)}
      BY <1>2 DEF MultiGroup, MultiConfig
    <2> HIDE DEF picks
    <2>2. PICK rc \in RoleCombos(G, axes) : c \in {MultiConfig(ByRole(p)) : p \in picks(rc)}
      BY <2>1
    <2>3. PICK p \in picks(rc) : c = MultiConfig(ByRole(p))
      BY <2>2
    <2>4. DOMAIN p = 1..n /\ \A k \in 1..n : p[k] \in Candidate(Catalog, G[k], rc[k], axes)
      BY <1>2 DEF picks
    <2> QED
      BY <2>3, <2>4
  <1> HIDE DEF options, picks
  <1>4. \A k \in 1..n : rc[k] \in {"combined", "prefill", "decode"}
    BY <1>2, <1>3 DEF RoleCombos, EffectiveRoles, GroupOf
  <1>5. ASSUME NEW k \in 1..n PROVE p[k] \in Shards(J, o[k]) /\ p[k].npus <= m[o[k]]
    <2>1. o[k] \in U /\ m[o[k]] \in Nat
      BY DEF Lists
    <2>2. p[k] \in Candidate(Catalog, GroupOf(J, o[k], m[o[k]]), rc[k], axes)
      BY <1>2, <1>3
    <2> QED
      BY <1>4, <2>1, <2>2, CandidateForm
  <1>6. \A k \in 1..n : p[k].pd \in Roles
    BY <1>5, ShardFacts
  <1>7. PICK r :
           /\ Lists(r, n, 1..n)
           /\ ByRole(p) = [k \in 1..n |-> p[r[k]]]
    BY <1>3, <1>6, ByRolePermutes
  <1> DEFINE e == [k \in 1..n |-> o[r[k]]]
             i == [k \in 1..n |-> p[r[k]]]
  <1>8. Lists(e, n, U)
    <2>1. e \in [1..n -> U]
      BY <1>7 DEF Lists
    <2>2. ASSUME NEW h \in U PROVE \E k \in 1..n : e[k] = h
      <3>1. PICK a \in 1..n : o[a] = h
        BY DEF Lists
      <3>2. PICK b \in 1..n : r[b] = a
        BY <1>7 DEF Lists
      <3> QED
        BY <3>1, <3>2
    <2>3. \A j, k \in 1..n : e[j] = e[k] => j = k
      BY <1>7 DEF Lists
    <2> QED
      BY <2>1, <2>2, <2>3 DEF Lists
  <1>10. \A k \in 1..n : i[k] \in Shards(J, e[k]) /\ i[k].npus <= m[e[k]]
    BY <1>5, <1>7 DEF Lists
  <1>11. c = MultiConfig(i) /\ DOMAIN i = 1..n
    BY <1>3, <1>7
  <1>12. IsList(i, n)
    <2>1. i = [k \in 1..n |-> i[k]]
      OBVIOUS
    <2> HIDE DEF i
    <2> QED
      BY <2>1 DEF IsList
  <1> HIDE DEF e, i
  <1> QED
    BY <1>8, <1>10, <1>11, <1>12

\* The distribution of hardware of a candidate.
Dist(counts) == [h \in Used(counts) |-> counts[h]]

\* It is what the counts say of the kinds that are used.
LEMMA DistType ==
  ASSUME NEW J, IsJob(J), NEW counts \in HwCounts(J)
  PROVE  /\ DOMAIN Dist(counts) = Used(counts)
         /\ \A h \in Used(counts) : Dist(counts)[h] = counts[h] /\ counts[h] \in Nat
  <1>1. \A h \in DOMAIN counts : counts[h] \in Nat
    BY CountsType
  <1> QED
    BY <1>1 DEF Dist, Used

\* Kinds that are not used add nothing to the total.
LEMMA TotalOfCounts ==
  ASSUME NEW J, IsJob(J), NEW counts \in HwCounts(J)
  PROVE  Total(DOMAIN counts, LAMBDA h : counts[h]) = SumFunctionOnSet(Dist(counts), Used(counts))
  <1>1. PICK f, S, U, d : /\ f = [h \in DOMAIN counts |-> counts[h]] /\ S = DOMAIN counts
                          /\ U = Used(counts) /\ d = Dist(counts)
    OBVIOUS
  <1>2. Total(DOMAIN counts, LAMBDA h : counts[h]) = SumFunctionOnSet(f, S)
    BY <1>1 DEF Total
  <1>3. \A h \in S : counts[h] \in Nat
    BY <1>1, CountsType
  <1>4. U \in SUBSET S /\ (\A h \in U : f[h] \in Int) /\ \A h \in S \ U : f[h] = 0
    BY <1>1, <1>3 DEF Used
  <1>5. IsFiniteSet(S) /\ IsFiniteSet(U)
    BY <1>1, CountsType
  <1>6. SumFunctionOnSet(f, S) = SumFunctionOnSet(f, U)
    BY <1>4, <1>5, SumOfSupport
  <1>7. \A h \in U : f[h] = d[h]
    BY <1>1 DEF Dist, Used
  <1>8. SumFunctionOnSet(f, U) = SumFunctionOnSet(d, U)
    BY <1>5, <1>7, SumsAgree
  <1> QED
    BY <1>1, <1>2, <1>6, <1>8

\* The NPUs of a list of instances are a sum.
LEMMA NpusUsedIs ==
  ASSUME NEW insts, NEW n \in Nat, DOMAIN insts = 1..n
  PROVE  \E f : /\ NpusUsed(insts) = SumFunctionOnSet(f, 1..n)
                /\ \A k \in 1..n : f[k] = insts[k].npus
  <1>1. PICK f : f = [k \in DOMAIN insts |-> insts[k].npus]
    OBVIOUS
  <1>2. NpusUsed(insts) = SumFunctionOnSet(f, DOMAIN insts)
    BY <1>1 DEF NpusUsed, Total
  <1>3. \A k \in 1..n : f[k] = insts[k].npus
    BY <1>1
  <1> QED
    BY <1>2, <1>3

\* Candidates by form: the NPUs of the instances add up to the distribution.
IsCombined(J, c) ==
  \E h \in DOMAIN c.dist : \E t \in Degrees(J, h), p \in Positive, dp \in Positive :
    /\ DOMAIN c.dist = {h} /\ c.dist[h] = dp * (t * p)
    /\ c = [label |-> <<"combined", <<t, p, dp>>, c.dist>>,
            insts |-> CombinedConfig(J, h, t, p, dp).insts,
            tp |-> t, pp |-> p, dp |-> dp, dist |-> c.dist]

IsPd(J, c) ==
  \E h \in DOMAIN c.dist : \E t \in Degrees(J, h), np \in Positive, nd \in Positive :
    /\ DOMAIN c.dist = {h} /\ c.dist[h] = np * t + nd /\ 1 \in Degrees(J, h)
    /\ c = [label |-> <<"pd", <<np, nd, t, 1>>, c.dist>>, insts |-> PdConfig(J, h, t, np, nd).insts,
            tp |-> t, pp |-> 1, dp |-> nd, dist |-> c.dist]

IsMulti(J, c) ==
  \E n \in Nat : \E e :
    /\ n > 1 /\ Lists(e, n, DOMAIN c.dist)
    /\ DOMAIN c.insts = 1..n /\ IsList(c.insts, n)
    /\ \A k \in 1..n : c.insts[k] \in Shards(J, e[k]) /\ c.insts[k].npus = c.dist[e[k]]
    /\ c = [label |-> MultiConfig(c.insts).label, insts |-> c.insts, tp |-> MultiConfig(c.insts).tp,
            pp |-> MultiConfig(c.insts).pp, dp |-> MultiConfig(c.insts).dp, dist |-> c.dist]

\* A layout without a split that uses all cards is such a candidate.
LEMMA CombinedIsWhole ==
  ASSUME NEW J, IsJob(J), NEW counts \in HwCounts(J), NEW h, Used(counts) = {h},
         NEW t \in Degrees(J, h), NEW p \in Positive, NEW dp \in Positive,
         UsesAll(CombinedConfig(J, h, t, p, dp), counts)
  PROVE  IsCombined(J, Wrap(CombinedConfig(J, h, t, p, dp), counts))
  <1>1. PICK d : d = Dist(counts) /\ DOMAIN d = {h} /\ d[h] \in Nat
    BY DistType
  <1>2. PICK c : c = Wrap(CombinedConfig(J, h, t, p, dp), counts)
    OBVIOUS
  <1>3. c = [label |-> <<"combined", <<t, p, dp>>, d>>, insts |-> CombinedConfig(J, h, t, p, dp).insts,
             tp |-> t, pp |-> p, dp |-> dp, dist |-> d]
    BY <1>1, <1>2 DEF Wrap, CombinedConfig, Dist, Used
  <1>4. t * p \in Int /\ dp \in Nat
    BY DegreesArePositive DEF Positive
  <1>5. d[h] = dp * (t * p)
    <2>1. PICK i : i = CombinedConfig(J, h, t, p, dp).insts
      OBVIOUS
    <2>2. DOMAIN i = 1..dp /\ \A k \in 1..dp : i[k].npus = t * p
      BY <2>1 DEF CombinedConfig, Shard
    <2>3. PICK f : NpusUsed(i) = SumFunctionOnSet(f, 1..dp) /\ \A k \in 1..dp : f[k] = i[k].npus
      BY <1>4, <2>2, NpusUsedIs
    <2>4. NpusUsed(i) = dp * (t * p)
      BY <1>4, <2>2, <2>3, SumOfSame
    <2>5. NpusUsed(i) = SumFunctionOnSet(d, {h})
      BY <1>1, <2>1, TotalOfCounts DEF UsesAll
    <2>6. SumFunctionOnSet(d, {h}) = d[h]
      BY <1>1, SumOfOne
    <2> QED
      BY <2>4, <2>5, <2>6
  <1> QED
    BY <1>1, <1>2, <1>3, <1>5 DEF IsCombined

\* A split layout that uses all cards is such a candidate.
LEMMA PdIsWhole ==
  ASSUME NEW J, IsJob(J), NEW counts \in HwCounts(J), NEW h, Used(counts) = {h},
         NEW t \in Degrees(J, h), NEW np \in Positive, NEW nd \in Positive, 1 \in Degrees(J, h),
         UsesAll(PdConfig(J, h, t, np, nd), counts)
  PROVE  IsPd(J, Wrap(PdConfig(J, h, t, np, nd), counts))
  <1>1. PICK d : d = Dist(counts) /\ DOMAIN d = {h} /\ d[h] \in Nat
    BY DistType
  <1>2. PICK c : c = Wrap(PdConfig(J, h, t, np, nd), counts)
    OBVIOUS
  <1>3. c = [label |-> <<"pd", <<np, nd, t, 1>>, d>>, insts |-> PdConfig(J, h, t, np, nd).insts,
             tp |-> t, pp |-> 1, dp |-> nd, dist |-> d]
    BY <1>1, <1>2 DEF Wrap, PdConfig, Dist, Used
  <1>4. t \in Nat /\ np \in Nat /\ nd \in Nat /\ t * 1 = t /\ 1 * 1 = 1 /\ nd * 1 = nd /\ np + nd \in Nat
    BY DegreesArePositive DEF Positive
  <1>5. d[h] = np * t + nd
    <2>1. PICK i : i = PdConfig(J, h, t, np, nd).insts
      OBVIOUS
    <2>2. DOMAIN i = 1..(np + nd) /\ \A k \in 1..(np + nd) : i[k].npus = IF k <= np THEN t ELSE 1
      BY <1>4, <2>1 DEF PdConfig, Shard
    <2>3. PICK f : NpusUsed(i) = SumFunctionOnSet(f, 1..(np + nd)) /\ \A k \in 1..(np + nd) : f[k] = i[k].npus
      BY <1>4, <2>2, NpusUsedIs
    <2>4. NpusUsed(i) = np * t + nd * 1
      <3>1. InTwo(f, np, nd, t, 1)
        BY <1>4, <2>2, <2>3 DEF InTwo
      <3>2. t \in Int /\ 1 \in Int
        BY <1>4
      <3>3. SumFunctionOnSet(f, 1..(np + nd)) = np * t + nd * 1
        BY <1>4, <3>1, <3>2, SumOfTwo
      <3> QED
        BY <2>3, <3>3
    <2>5. NpusUsed(i) = SumFunctionOnSet(d, {h})
      BY <1>1, <2>1, TotalOfCounts DEF UsesAll
    <2>6. SumFunctionOnSet(d, {h}) = d[h]
      BY <1>1, SumOfOne
    <2> QED
      BY <1>4, <2>4, <2>5, <2>6
  <1>6. c.dist = d
    BY <1>3
  <1>7. /\ h \in DOMAIN c.dist /\ DOMAIN c.dist = {h} /\ c.dist[h] = np * t + nd
        /\ c = [label |-> <<"pd", <<np, nd, t, 1>>, c.dist>>, insts |-> PdConfig(J, h, t, np, nd).insts,
                tp |-> t, pp |-> 1, dp |-> nd, dist |-> c.dist]
    BY <1>1, <1>3, <1>5, <1>6
  <1> QED
    BY <1>2, <1>7 DEF IsPd

\* A mixed layout that uses all cards uses all of each kind: no instance has more than its kind.
LEMMA MultiIsWhole ==
  ASSUME NEW J, IsJob(J), NEW counts \in HwCounts(J), NEW n \in Nat, n > 1,
         NEW i, DOMAIN i = 1..n, IsList(i, n), NEW e, Lists(e, n, Used(counts)),
         \A k \in 1..n : i[k] \in Shards(J, e[k]) /\ i[k].npus <= counts[e[k]],
         UsesAll(MultiConfig(i), counts)
  PROVE  IsMulti(J, Wrap(MultiConfig(i), counts))
  <1>1. PICK d : /\ d = Dist(counts) /\ DOMAIN d = Used(counts)
                 /\ \A h \in Used(counts) : d[h] = counts[h] /\ d[h] \in Nat
    BY DistType
  <1>2. PICK c : c = Wrap(MultiConfig(i), counts)
    OBVIOUS
  <1>3. c = [label |-> MultiConfig(i).label, insts |-> i, tp |-> MultiConfig(i).tp,
             pp |-> MultiConfig(i).pp, dp |-> MultiConfig(i).dp, dist |-> d]
    BY <1>1, <1>2 DEF Wrap, MultiConfig, Dist, Used
  <1>4. PICK f : NpusUsed(i) = SumFunctionOnSet(f, 1..n) /\ \A k \in 1..n : f[k] = i[k].npus
    BY NpusUsedIs
  <1>5. PICK r : DOMAIN r = 1..n /\ \A k \in 1..n : r[k] = d[e[k]]
    <2> WITNESS [k \in 1..n |-> d[e[k]]]
    <2> QED
      OBVIOUS
  <1>6. e \in [1..n -> Used(counts)]
    BY DEF Lists
  <1>7. IsFiniteSet(1..n)
    BY FS_Interval
  <1>8. SumFunctionOnSet(r, 1..n) = SumFunctionOnSet(d, Used(counts))
    <2>1. \A y \in Used(counts) : d[y] \in Int
      BY <1>1
    <2>2. /\ \A y \in Used(counts) : \E x \in 1..n : e[x] = y
          /\ \A x, y \in 1..n : e[x] = e[y] => x = y
      BY DEF Lists
    <2>3. PICK S : S = 1..n
      OBVIOUS
    <2>4. SumFunctionOnSet(r, S) = SumFunctionOnSet(d, Used(counts))
      BY <1>5, <1>6, <1>7, <2>1, <2>2, <2>3, SumOfRenamed
    <2> QED
      BY <2>3, <2>4
  <1>9. NpusUsed(i) = SumFunctionOnSet(d, Used(counts))
    BY <1>1, TotalOfCounts DEF UsesAll, MultiConfig
  <1>10. ASSUME NEW k \in 1..n PROVE f[k] \in Int /\ r[k] \in Int /\ f[k] <= r[k]
    <2>1. i[k].npus \in Positive
      BY ShardFacts
    <2>2. e[k] \in Used(counts)
      BY <1>6
    <2> QED
      BY <1>1, <1>4, <1>5, <2>1, <2>2 DEF Positive
  <1>11. ASSUME NEW k \in 1..n PROVE i[k].npus = d[e[k]]
    <2>1. CASE f[k] < r[k]
      <3>1. SumFunctionOnSet(f, 1..n) < SumFunctionOnSet(r, 1..n)
        BY <1>7, <1>10, <2>1, SumsStrictlyMonotone
      <3>2. SumFunctionOnSet(f, 1..n) \in Int
        BY <1>7, <1>10, SumIsInt
      <3> QED
        BY <1>4, <1>8, <1>9, <3>1, <3>2
    <2>2. CASE ~(f[k] < r[k])
      BY <1>4, <1>5, <1>10, <2>2
    <2> QED
      BY <2>1, <2>2
  <1>12. c.dist = d /\ c.insts = i
    BY <1>3
  <1> QED
    BY <1>1, <1>2, <1>3, <1>11, <1>12 DEF IsMulti

HasForm(J, c) == IsCombined(J, c) \/ IsPd(J, c) \/ IsMulti(J, c)

\* Every candidate of the space is of one of the forms.
LEMMA ExpandedForm ==
  ASSUME NEW J, IsJob(J), NEW counts \in HwCounts(J), NEW c \in Expanded(J, counts)
  PROVE  c.dist = Dist(counts) /\ HasForm(J, c)
  <1>1. PICK config \in EnumerateConfigs(Catalog, Groups(J, counts), Axes(J)) :
          UsesAll(config, counts) /\ c = Wrap(config, counts)
    BY DEF Expanded
  <1>2. c.dist = Dist(counts)
    BY <1>1 DEF Wrap, Dist, Used
  <1>3. PICK n \in Nat : n = Cardinality(Used(counts))
    BY CountsType, FS_CardinalityType
  <1>4. PICK o : /\ Lists(o, n, Used(counts))
                 /\ Groups(J, counts) = [k \in 1..n |-> GroupOf(J, o[k], counts[o[k]])]
    BY <1>3, GroupsListUsed
  <1>5. PICK G : G = Groups(J, counts) /\ G = [k \in 1..n |-> GroupOf(J, o[k], counts[o[k]])]
    BY <1>4
  <1>6. DOMAIN G = 1..n /\ Len(G) = n
    BY <1>5
  <1>7. n # 0
    BY <1>3, CountsType, FS_EmptySet
  <1>8. \A h \in Used(counts) : counts[h] \in Nat
    BY DistType
  <1>9. CASE n = 1
    <2>1. PICK h : h = o[1] /\ Used(counts) = {h}
      <3>1. o \in [1..1 -> Used(counts)] /\ \A x \in Used(counts) : \E k \in 1..1 : o[k] = x
        BY <1>4, <1>9 DEF Lists
      <3> QED
        BY <3>1
    <2>2. G[1] = GroupOf(J, h, counts[h]) /\ G # <<>> /\ counts[h] \in Nat
      BY <1>5, <1>6, <1>8, <1>9, <2>1
    <2>3. config \in SingleGroup(Catalog, GroupOf(J, h, counts[h]), Axes(J))
      BY <1>1, <1>5, <1>6, <1>9, <2>2 DEF EnumerateConfigs
    <2>4. CASE config \in Combined(Catalog, GroupOf(J, h, counts[h]), Axes(J))
      <3>1. PICK t \in Degrees(J, h), p \in Positive, dp \in Positive :
                 config = CombinedConfig(J, h, t, p, dp)
        BY <2>2, <2>4, CombinedForm
      <3>2. IsCombined(J, c)
        BY <1>1, <2>1, <3>1, CombinedIsWhole
      <3> QED
        BY <1>2, <3>2 DEF HasForm
    <2>5. CASE config \in PdSplit(Catalog, GroupOf(J, h, counts[h]), Axes(J))
      <3>1. PICK t \in Degrees(J, h), np \in Positive, nd \in Positive :
              1 \in Degrees(J, h) /\ config = PdConfig(J, h, t, np, nd)
        BY <2>2, <2>5, PdForm
      <3>2. IsPd(J, c)
        BY <1>1, <2>1, <3>1, PdIsWhole
      <3> QED
        BY <1>2, <3>2 DEF HasForm
    <2> QED
      BY <2>3, <2>4, <2>5 DEF SingleGroup
  <1>10. CASE n > 1
    <2>1. G # <<>> /\ Len(G) # 1
      BY <1>6, <1>10
    <2>2. config \in MultiGroup(Catalog, G, Axes(J)) /\ AreGroups(G, J, n, o, counts)
      BY <1>1, <1>5, <1>6, <2>1 DEF EnumerateConfigs, AreGroups
    <2>3. PICK i, e :
           /\ config = MultiConfig(i) /\ DOMAIN i = 1..n /\ IsList(i, n)
           /\ Lists(e, n, Used(counts))
           /\ \A k \in 1..n : i[k] \in Shards(J, e[k]) /\ i[k].npus <= counts[e[k]]
      <3>1. Lists(o, n, Used(counts))
        BY <1>4
      <3> QED
        BY <1>8, <2>2, <3>1, MultiForm
    <2>4. IsMulti(J, c)
      BY <1>1, <1>10, <2>3, MultiIsWhole
    <2> QED
      BY <1>2, <2>4 DEF HasForm
  <1> QED
    BY <1>7, <1>9, <1>10

\* What every candidate is: instances, each on one kind of its hardware and with a
\* profiled degree, the first of which gives its degrees.
LEMMA FormFacts ==
  ASSUME NEW J, NEW c, HasForm(J, c)
  PROVE  /\ \E m \in Positive : DOMAIN c.insts = 1..m
         /\ \A k \in DOMAIN c.insts : \E h \in DOMAIN c.dist :
              c.insts[k] \in Shards(J, h) /\ c.insts[k].npus <= c.dist[h]
         /\ c.tp = TpOf(c.insts[1]) /\ c.pp = c.insts[1].group
  <1>1. CASE IsCombined(J, c)
    <2>1. PICK h \in DOMAIN c.dist : \E t \in Degrees(J, h), p \in Positive, dp \in Positive :
            /\ DOMAIN c.dist = {h} /\ c.dist[h] = dp * (t * p)
            /\ c = [label |-> <<"combined", <<t, p, dp>>, c.dist>>,
                    insts |-> CombinedConfig(J, h, t, p, dp).insts,
                    tp |-> t, pp |-> p, dp |-> dp, dist |-> c.dist]
      BY <1>1 DEF IsCombined
    <2>2. PICK t \in Degrees(J, h), p \in Positive, dp \in Positive :
            /\ c.dist[h] = dp * (t * p) /\ c.tp = t /\ c.pp = p
            /\ c.insts = CombinedConfig(J, h, t, p, dp).insts
      BY <2>1
    <2>3. DOMAIN c.insts = 1..dp /\ \A k \in 1..dp : c.insts[k] = Shard(J, h, t, p, "none")
      BY <2>2 DEF CombinedConfig
    <2>4. t \in Positive /\ t * p \in Positive
      BY DegreesArePositive, Products
    <2>5. t * p <= dp * (t * p)
      BY <2>4, Products
    <2>6. Shard(J, h, t, p, "none") \in Shards(J, h)
      BY ShardIsShard DEF Roles
    <2>7. Shard(J, h, t, p, "none").npus = t * p /\ Shard(J, h, t, p, "none").group = p
      BY DEF Shard
    <2>8. 1 \in 1..dp
      BY DEF Positive
    <2>9. TpOf(c.insts[1]) = t
      BY <2>3, <2>4, <2>7, <2>8, Products DEF TpOf
    <2> QED
      BY <2>2, <2>3, <2>5, <2>6, <2>7, <2>8, <2>9
  <1>2. CASE IsPd(J, c)
    <2>1. PICK h \in DOMAIN c.dist : \E t \in Degrees(J, h), np \in Positive, nd \in Positive :
            /\ DOMAIN c.dist = {h} /\ c.dist[h] = np * t + nd /\ 1 \in Degrees(J, h)
            /\ c = [label |-> <<"pd", <<np, nd, t, 1>>, c.dist>>, insts |-> PdConfig(J, h, t, np, nd).insts,
                    tp |-> t, pp |-> 1, dp |-> nd, dist |-> c.dist]
      BY <1>2 DEF IsPd
    <2>2. PICK t \in Degrees(J, h), np \in Positive, nd \in Positive :
            /\ c.dist[h] = np * t + nd /\ c.tp = t /\ c.pp = 1 /\ 1 \in Degrees(J, h)
            /\ c.insts = PdConfig(J, h, t, np, nd).insts
      BY <2>1
    <2>3. DOMAIN c.insts = 1..(np + nd) /\ \A k \in 1..(np + nd) :
            c.insts[k] = IF k <= np THEN Shard(J, h, t, 1, "prefill") ELSE Shard(J, h, 1, 1, "decode")
      BY <2>2 DEF PdConfig
    <2>4. t \in Positive /\ 1 \in Positive /\ t * 1 = t /\ 1 * 1 = 1 /\ np + nd \in Positive
      BY DegreesArePositive DEF Positive
    <2>5. t <= np * t + nd /\ 1 <= np * t + nd
      <3>1. np * t \in Positive /\ np * t >= t
        BY <2>4, Products
      <3> QED
        BY <3>1, <2>4 DEF Positive
    <2>6. Shard(J, h, t, 1, "prefill") \in Shards(J, h) /\ Shard(J, h, 1, 1, "decode") \in Shards(J, h)
      BY <2>2, <2>4, ShardIsShard DEF Roles
    <2>7. /\ Shard(J, h, t, 1, "prefill").npus = t /\ Shard(J, h, t, 1, "prefill").group = 1
          /\ Shard(J, h, 1, 1, "decode").npus = 1
      BY <2>4 DEF Shard
    <2>8. 1 \in 1..(np + nd) /\ 1 <= np
      BY DEF Positive
    <2>9. TpOf(c.insts[1]) = t /\ c.insts[1].group = 1
      <3>1. c.insts[1] = Shard(J, h, t, 1, "prefill")
        BY <2>3, <2>8
      <3>2. (t * 1) \div 1 = t
        BY <2>4, Products
      <3> QED
        BY <2>4, <2>7, <3>1, <3>2 DEF TpOf
    <2>10. \A k \in DOMAIN c.insts : c.insts[k] \in Shards(J, h) /\ c.insts[k].npus <= c.dist[h]
      BY <2>2, <2>3, <2>5, <2>6, <2>7
    <2> QED
      BY <2>2, <2>3, <2>4, <2>9, <2>10
  <1>3. CASE IsMulti(J, c)
    <2>1. PICK n, e :
            /\ n \in Nat
            /\ n > 1 /\ Lists(e, n, DOMAIN c.dist)
            /\ DOMAIN c.insts = 1..n
            /\ \A k \in 1..n : c.insts[k] \in Shards(J, e[k]) /\ c.insts[k].npus = c.dist[e[k]]
            /\ c.tp = MultiConfig(c.insts).tp /\ c.pp = MultiConfig(c.insts).pp
      BY <1>3 DEF IsMulti
    <2>2. e \in [1..n -> DOMAIN c.dist]
      BY <2>1 DEF Lists
    <2>3. c.tp = TpOf(c.insts[1]) /\ c.pp = c.insts[1].group /\ n \in Positive
      BY <2>1 DEF MultiConfig, Positive
    <2>4. ASSUME NEW k \in 1..n PROVE /\ c.insts[k] \in Shards(J, e[k]) /\ c.insts[k].npus <= c.dist[e[k]]
                /\ e[k] \in DOMAIN c.dist
      <3>1. c.insts[k].npus \in Positive
        BY <2>1, ShardFacts
      <3> QED
        BY <2>1, <2>2, <3>1 DEF Positive
    <2> QED
      BY <2>1, <2>3, <2>4
  <1> QED
    BY <1>1, <1>2, <1>3 DEF HasForm

\* A tensor- and pipeline-parallel group is no larger than the NPUs that the candidate
\* has of one of its kinds, so that the memory summed over all kinds bounds that of
\* the group, each card taken for the smallest.
LEMMA PrunedHaveNoMemory ==
  ASSUME NEW J, IsJob(J), NEW counts \in HwCounts(J), ~MayHoldWeights(J, counts),
         NEW c \in Expanded(J, counts)
  PROVE  ~Memory(J, c)
  <1> DEFINE mem == [g \in DOMAIN counts |-> J.hw[g].mem]
             total == AggregateMemory(J, counts)
             W == Weakest(J, Kinds(c), "mem")
  <1>1. /\ IsFiniteSet(DOMAIN counts) /\ IsFiniteSet(Used(counts)) /\ Used(counts) \subseteq DOMAIN counts
        /\ \A g \in DOMAIN counts : counts[g] \in Nat /\ mem[g] \in Nat
    BY CountsType DEF Used
  <1>2. c.dist = Dist(counts) /\ HasForm(J, c)
    BY ExpandedForm
  <1>3. Kinds(c) = Used(counts) /\ \A g \in Used(counts) : c.dist[g] = counts[g]
    BY <1>2, DistType DEF Kinds
  <1>4. PICK h \in Used(counts) : /\ c.insts[1] \in Shards(J, h) /\ c.insts[1].npus <= counts[h]
                                  /\ c.tp = TpOf(c.insts[1]) /\ c.pp = c.insts[1].group
    <2>1. 1 \in DOMAIN c.insts /\ c.tp = TpOf(c.insts[1]) /\ c.pp = c.insts[1].group
      BY <1>2, FormFacts DEF Positive
    <2>2. PICK h \in DOMAIN c.dist : c.insts[1] \in Shards(J, h) /\ c.insts[1].npus <= c.dist[h]
      BY <1>2, <2>1, FormFacts
    <2> QED
      BY <1>3, <2>1, <2>2 DEF Kinds
  <1>5. c.tp \in Positive /\ c.pp \in Positive /\ c.insts[1].npus = c.tp * c.pp
    BY <1>4, ShardFacts, DegreesArePositive
  <1>6. W \in Nat /\ W <= mem[h]
    <2>1. \A g \in Used(counts) : mem[g] \in Nat /\ mem[g] = J.hw[g]["mem"]
      BY <1>1
    <2>2. {J.hw[g]["mem"] : g \in Used(counts)} = {mem[g] : g \in Used(counts)}
      BY <2>1
    <2>3. W = Min({mem[g] : g \in Used(counts)})
      BY <1>3, <2>2 DEF Weakest
    <2> HIDE DEF mem, W
    <2> QED
      BY <1>1, <2>1, <2>3, LeastOfImage
  <1>7. counts[h] * mem[h] <= total /\ total \in Nat
    <2>1. PICK f : f = [g \in DOMAIN counts |-> counts[g] * J.hw[g].mem]
      OBVIOUS
    <2>2. total = SumFunctionOnSet(f, DOMAIN counts)
      BY <2>1 DEF AggregateMemory, Total
    <2>3. \A g \in DOMAIN counts : f[g] = counts[g] * mem[g] /\ f[g] \in Nat
      BY <1>1, <2>1
    <2>4. h \in DOMAIN counts
      BY <1>1
    <2> QED
      BY <1>1, <2>2, <2>3, <2>4, SumHasAtLeast, SumIsNat
  <1>8. J.model.weight \in Nat /\ total < J.model.weight
    BY <1>7 DEF MayHoldWeights, IsJob
  <1>9. (c.tp * c.pp) * W <= total
    <2>1. c.tp * c.pp \in Nat /\ c.tp * c.pp <= counts[h] /\ counts[h] \in Nat /\ mem[h] \in Nat
      BY <1>1, <1>4, <1>5, Products DEF Positive
    <2>2. (c.tp * c.pp) * W <= counts[h] * mem[h]
      BY <1>6, <2>1, ProductsMonotone
    <2>3. (c.tp * c.pp) * W \in Nat /\ counts[h] * mem[h] \in Nat
      BY <1>6, <2>1
    <2> QED
      BY <1>7, <2>2, <2>3
  <1>10. ASSUME Memory(J, c) PROVE FALSE
    <2> DEFINE headDim == J.model.hidden \div J.model.heads
               kv == 2 * J.model.layers * J.model.kvHeads * headDim * J.model.bytes * J.seqLen
               act == 4 * J.model.hidden * J.model.bytes * J.seqLen
    <2>1. kv \in Nat /\ act \in Nat
      <3>1. /\ J.model.layers \in Nat /\ J.model.kvHeads \in Nat
            /\ J.model.hidden \in Nat /\ J.model.bytes \in Nat
            /\ J.seqLen \in Nat /\ J.model.heads \in Nat \ {0}
        BY DEF IsJob
      <3>2. headDim \in Nat
        BY <3>1
      <3> HIDE DEF headDim
      <3> QED
        BY <3>1, <3>2
    <2>2. 20 * (J.model.weight + c.pp * (kv + act)) <= 17 * W * c.tp * c.pp
      BY <1>10 DEF Memory
    <2> HIDE DEF kv, act, W, total
    <2>3. PICK x \in Nat : x = c.pp * (kv + act)
      BY <1>5, <2>1 DEF Positive
    <2>4. PICK y \in Nat : y = (c.tp * c.pp) * W
      BY <1>5, <1>6 DEF Positive
    <2>5. 17 * W * c.tp * c.pp = 17 * y
      <3>1. PICK a \in Nat, b \in Nat, w \in Nat : a = c.tp /\ b = c.pp /\ w = W
        BY <1>5, <1>6 DEF Positive
      <3>2. 17 * w * a * b = 17 * ((a * b) * w)
        OBVIOUS
      <3> QED
        BY <2>4, <3>1, <3>2
    <2>6. 20 * (J.model.weight + x) <= 17 * y
      BY <2>2, <2>3, <2>5
    <2>7. y <= total
      BY <1>9, <2>4
    <2> QED
      BY <1>7, <1>8, <2>6, <2>7
  <1> QED
    BY <1>10

-------------------------------------------------------------------------------
(* The TP group on the tiers of the fabric *)

\* Product, by the equation of its fold.
IsProduct(g, seq) ==
  g = [s \in SUBSET DOMAIN seq |-> IF s = {} THEN 1 ELSE g[s \ {Max(s)}] * seq[Max(s)]]

\* Product is the value of this fold.
LEMMA ProductIs ==
  ASSUME NEW seq
  PROVE  Product(seq) = (CHOOSE g : IsProduct(g, seq))[DOMAIN seq]
  BY DEF Product, FoldLeft, MapThenFoldSet, IsProduct

\* The product of a list, factor by factor.
LEMMA ProductSteps ==
  ASSUME NEW n \in Nat, NEW seq \in [1..n -> Positive]
  PROVE  \E h : /\ Product(seq) = h[1..n] /\ h[1..0] = 1
                /\ \A k \in 1..n : h[1..k] = h[1..(k - 1)] * seq[k]
  <1> DEFINE step == [p \in Positive \X Positive |-> p[1] * p[2]]
  <1>1. step \in [Positive \X Positive -> Positive]
    BY Products
  <1>2. \A x, y \in Positive : step[<<x, y>>] = x * y
    OBVIOUS
  <1> HIDE DEF step
  <1>3. PICK g \in [SUBSET (1..n) -> Positive] : \A s \in SUBSET (1..n) : g[s] = LeftStep(g, step, 1, seq, s)
    <2>1. CanFold(step, 1, n, seq, Positive, Positive)
      BY <1>1 DEF CanFold, Positive
    <2>2. PICK g : LeftFolds(g, step, 1, n, seq, Positive)
      BY <2>1, LeftFoldExists
    <2> QED
      BY <2>2 DEF LeftFolds
  <1>4. ASSUME NEW s \in SUBSET (1..n)
        PROVE  g[s] = IF s = {} THEN 1 ELSE g[s \ {Max(s)}] * seq[Max(s)]
    <2>1. CASE s = {}
      BY <1>3, <2>1 DEF LeftStep
    <2>2. CASE s # {}
      <3>1. Max(s) \in 1..n
        BY <2>2, LastOfInterval
      <3>2. g[s \ {Max(s)}] \in Positive /\ seq[Max(s)] \in Positive
        BY <3>1
      <3> QED
        BY <1>2, <1>3, <2>2, <3>2 DEF LeftStep
    <2> QED
      BY <2>1, <2>2
  <1>5. IsProduct(g, seq)
    BY <1>4 DEF IsProduct
  <1>6. PICK h : h = (CHOOSE f : IsProduct(f, seq)) /\ IsProduct(h, seq)
    BY <1>5
  <1>7. \A s \in SUBSET (1..n) : h[s] = IF s = {} THEN 1 ELSE h[s \ {Max(s)}] * seq[Max(s)]
    BY <1>6 DEF IsProduct
  <1>8. Product(seq) = h[1..n]
    BY <1>6, ProductIs
  <1>9. h[1..0] = 1
    BY <1>7, LastOfInterval
  <1>10. ASSUME NEW k \in 1..n PROVE h[1..k] = h[1..(k - 1)] * seq[k]
    <2>1. Max(1..k) = k /\ (1..k) \ {k} = 1..(k - 1) /\ 1..k # {} /\ 1..k \in SUBSET (1..n)
      BY LastOfInterval
    <2> QED
      BY <1>7, <2>1
  <1> QED
    BY <1>8, <1>9, <1>10

\* The empty product.
LEMMA ProductOfNone == Product(<<>>) = 1
  <1>1. PICK seq : seq = <<>> /\ seq \in [1..0 -> Positive]
    <2>1. [k \in 1..0 |-> 1] \in [1..0 -> Positive]
      BY DEF Positive
    <2>2. [k \in 1..0 |-> 1] = <<>>
      OBVIOUS
    <2> QED
      BY <2>1, <2>2
  <1>2. PICK h : Product(seq) = h[1..0] /\ h[1..0] = 1
    BY <1>1, ProductSteps
  <1> QED
    BY <1>1, <1>2

\* A factor more.
LEMMA ProductOfAppend ==
  ASSUME NEW seq \in Seq(Positive), NEW u \in Positive
  PROVE  Product(Append(seq, u)) = Product(seq) * u
  <1>1. PICK n \in Nat : n = Len(seq) /\ seq \in [1..n -> Positive]
    OBVIOUS
  <1>2. PICK a : a = Append(seq, u)
    OBVIOUS
  <1>3. a \in [1..(n + 1) -> Positive] /\ (\A k \in 1..n : a[k] = seq[k]) /\ a[n + 1] = u
    <2>1. PICK S : S = Positive
      OBVIOUS
    <2>2. seq \in Seq(S) /\ u \in S
      BY <2>1
    <2>3. a \in Seq(S) /\ Len(a) = n + 1 /\ (\A k \in 1..n : a[k] = seq[k]) /\ a[n + 1] = u
      BY <1>1, <1>2, <2>2, AppendProperties
    <2>4. a \in [1..(n + 1) -> S]
      BY <2>3, LenProperties
    <2> QED
      BY <2>1, <2>3, <2>4
  <1>4. PICK h : /\ Product(seq) = h[1..n] /\ h[1..0] = 1
                 /\ \A k \in 1..n : h[1..k] = h[1..(k - 1)] * seq[k]
    BY <1>1, ProductSteps
  <1>5. PICK m \in Nat : m = n + 1
    OBVIOUS
  <1>6. PICK q : /\ Product(a) = q[1..m] /\ q[1..0] = 1
                 /\ \A k \in 1..m : q[1..k] = q[1..(k - 1)] * a[k]
    BY <1>3, <1>5, ProductSteps
  <1> DEFINE Good == {k \in 0..n : q[1..k] = h[1..k]}
  <1>7. 0 \in Good
    BY <1>4, <1>6
  <1>8. ASSUME NEW k \in 0..(n - 1), k \in Good PROVE k + 1 \in Good
    <2>1. PICK j \in 1..n : j = k + 1 /\ j - 1 = k /\ j \in 1..m
      BY <1>5
    <2>2. q[1..j] = q[1..(j - 1)] * a[j] /\ h[1..j] = h[1..(j - 1)] * seq[j] /\ a[j] = seq[j]
      BY <1>3, <1>4, <1>6, <2>1
    <2>3. q[1..(j - 1)] = h[1..(j - 1)]
      BY <1>8, <2>1
    <2>4. q[1..j] = h[1..j] /\ j \in 0..n
      BY <2>2, <2>3
    <2> QED
      BY <2>1, <2>4
  <1>9. n \in Good
    <2> HIDE DEF Good
    <2>1. \A k \in 0..(n - 1) : k \in Good => k + 1 \in Good
      BY <1>8
    <2>2. PICK G : G = Good
      OBVIOUS
    <2>3. 0 \in G /\ \A k \in 0..(n - 1) : k \in G => k + 1 \in G
      BY <1>7, <2>1, <2>2
    <2>4. \A k \in 0..n : k \in G
      BY <2>3, IntervalInduction
    <2> QED
      BY <2>2, <2>4
  <1>10. q[1..m] = q[1..n] * a[m]
    <2>1. m \in 1..m /\ m - 1 = n
      BY <1>5
    <2>2. q[1..m] = q[1..(m - 1)] * a[m]
      BY <1>6, <2>1
    <2> QED
      BY <2>1, <2>2
  <1> QED
    BY <1>2, <1>3, <1>4, <1>5, <1>6, <1>9, <1>10

\* Products of positive numbers are positive.
LEMMA ProductType ==
  ASSUME NEW seq \in Seq(Positive)
  PROVE  Product(seq) \in Positive
  <1>1. PICK n \in Nat : n = Len(seq) /\ seq \in [1..n -> Positive]
    OBVIOUS
  <1>2. PICK h : /\ Product(seq) = h[1..n] /\ h[1..0] = 1
                 /\ \A k \in 1..n : h[1..k] = h[1..(k - 1)] * seq[k]
    BY <1>1, ProductSteps
  <1> DEFINE Good == {k \in 0..n : h[1..k] \in Positive}
  <1>3. 0 \in Good
    BY <1>2 DEF Positive
  <1>4. ASSUME NEW k \in 0..(n - 1), k \in Good PROVE k + 1 \in Good
    <2>1. PICK j \in 1..n : j = k + 1 /\ j - 1 = k
      OBVIOUS
    <2>2. h[1..j] = h[1..(j - 1)] * seq[j] /\ h[1..(j - 1)] \in Positive /\ seq[j] \in Positive
      BY <1>1, <1>2, <1>4, <2>1
    <2>3. h[1..j] \in Positive
      BY <2>2, Products
    <2> QED
      BY <2>1, <2>3
  <1>5. n \in Good
    <2> HIDE DEF Good
    <2>1. \A k \in 0..(n - 1) : k \in Good => k + 1 \in Good
      BY <1>4
    <2>2. PICK G : G = Good
      OBVIOUS
    <2>3. 0 \in G /\ \A k \in 0..(n - 1) : k \in G => k + 1 \in G
      BY <1>3, <2>1, <2>2
    <2>4. \A k \in 0..n : k \in G
      BY <2>3, IntervalInduction
    <2> QED
      BY <2>2, <2>4
  <1> QED
    BY <1>2, <1>5

\* Gcd is a positive divisor.
LEMMA GcdDivides ==
  ASSUME NEW a \in Positive, NEW b \in Positive
  PROVE  Gcd(a, b) \in Positive /\ b % Gcd(a, b) = 0
  <1> DEFINE S == {d \in 1..a : a % d = 0 /\ b % d = 0}
  <1>1. IsFiniteSet(1..a)
    BY FS_Interval DEF Positive
  <1>2. IsFiniteSet(S)
    BY <1>1, FS_Subset
  <1>3. S \in SUBSET Int /\ 1 \in S
    BY DEF Positive
  <1>4. PICK d \in S : \A e \in S : e <= d
    <2> HIDE DEF S
    <2>1. S # {}
      BY <1>3
    <2> QED
      BY <1>2, <1>3, <2>1, FiniteSetHasMax
  <1>5. \E x \in 1..a : /\ a % x = 0 /\ b % x = 0
                        /\ \A e \in 1..a : a % e = 0 /\ b % e = 0 => e <= x
    BY <1>4
  <1>6. Gcd(a, b) \in 1..a /\ b % Gcd(a, b) = 0
    BY <1>5 DEF Gcd
  <1> QED
    BY <1>6 DEF Positive

\* The part of a TP group that is placed, with the links of its tiers, and the rest.
Placements == [shape : Seq(Positive), bws : Seq(Nat), left : Positive]

\* The tiers of a fabric.
Tiers == [size : Positive, bw : Nat]

\* Nothing of the group is placed yet.
Unplaced(tp) == [shape |-> <<>>, bws |-> <<>>, left |-> tp]

\* Decompose, by the equation of its fold.
IsDecomposition(g, tp, tiers) ==
  g = [s \in SUBSET DOMAIN tiers |->
         IF s = {} THEN Unplaced(tp) ELSE TakeTier(g[s \ {Max(s)}], tiers[Max(s)])]

\* Decompose is the value of this fold.
LEMMA DecomposeIs ==
  ASSUME NEW tp, NEW tiers
  PROVE  Decompose(tp, tiers) = (CHOOSE g : IsDecomposition(g, tp, tiers))[DOMAIN tiers]
  BY DEF Decompose, FoldLeft, MapThenFoldSet, IsDecomposition, Unplaced

\* What TakeTier keeps.
IsPlaced(acc, tp) == Product(acc.shape) * acc.left = tp /\ Len(acc.bws) = Len(acc.shape)

\* A tier keeps the product of the shape and the rest (_decompose_tp).
LEMMA TakeTierType ==
  ASSUME NEW acc \in Placements, NEW tier \in Tiers
  PROVE  /\ TakeTier(acc, tier) \in Placements
         /\ \A tp : IsPlaced(acc, tp) => IsPlaced(TakeTier(acc, tier), tp)
  <1>1. PICK use : use = Gcd(tier.size, acc.left)
    OBVIOUS
  <1>2. PICK a, b, c : a = acc.shape /\ b = acc.bws /\ c = acc.left
    OBVIOUS
  <1>3. a \in Seq(Positive) /\ b \in Seq(Nat) /\ c \in Positive /\ tier.size \in Positive /\ tier.bw \in Nat
    BY <1>2 DEF Placements, Tiers
  <1>4. use \in Positive /\ c % use = 0
    BY <1>1, <1>2, <1>3, GcdDivides
  <1>5. c \div use \in Positive /\ use * (c \div use) = c
    BY <1>3, <1>4, Quotient
  <1>6. CASE acc.left = 1 \/ use = 1
    BY <1>1, <1>6 DEF TakeTier
  <1>7. CASE ~(acc.left = 1 \/ use = 1)
    <2>1. TakeTier(acc, tier) = [shape |-> Append(a, use), bws |-> Append(b, tier.bw), left |-> c \div use]
      BY <1>1, <1>2, <1>7 DEF TakeTier
    <2>2. PICK S : S = Positive
      OBVIOUS
    <2>3. Append(a, use) \in Seq(S) /\ Len(Append(a, use)) = Len(a) + 1
      BY <1>3, <1>4, <2>2, AppendProperties
    <2>4. Append(b, tier.bw) \in Seq(Nat) /\ Len(Append(b, tier.bw)) = Len(b) + 1
      BY <1>3, AppendProperties
    <2>5. TakeTier(acc, tier) \in Placements
      BY <1>5, <2>1, <2>2, <2>3, <2>4 DEF Placements
    <2>6. Product(Append(a, use)) = Product(a) * use /\ Product(a) \in Positive
      BY <1>3, <1>4, ProductOfAppend, ProductType
    <2>7. ASSUME NEW tp, IsPlaced(acc, tp) PROVE IsPlaced(TakeTier(acc, tier), tp)
      <3>1. Product(a) * c = tp /\ Len(b) = Len(a)
        BY <1>2, <2>7 DEF IsPlaced
      <3>2. PICK p \in Int, x \in Int, y \in Int : p = Product(a) /\ x = use /\ y = c \div use
        BY <1>4, <1>5, <2>6 DEF Positive
      <3>3. (p * x) * y = p * (x * y)
        OBVIOUS
      <3>4. Product(Append(a, use)) * (c \div use) = tp
        BY <1>5, <2>6, <3>1, <3>2, <3>3
      <3>5. Len(Append(b, tier.bw)) = Len(Append(a, use))
        BY <2>3, <2>4, <3>1
      <3> QED
        BY <2>1, <3>4, <3>5 DEF IsPlaced
    <2> QED
      BY <2>5, <2>7
  <1> QED
    BY <1>6, <1>7

\* The decomposition of a TP group: the shape and the rest multiply to its degree, and every
\* dimension has a link.
LEMMA DecomposeFacts ==
  ASSUME NEW tp \in Positive, NEW tiers \in Seq(Tiers)
  PROVE  Decompose(tp, tiers) \in Placements /\ IsPlaced(Decompose(tp, tiers), tp)
  <1>1. PICK n \in Nat : n = Len(tiers) /\ tiers \in [1..n -> Tiers] /\ DOMAIN tiers = 1..n
    OBVIOUS
  <1>2. PICK base : base = Unplaced(tp)
    OBVIOUS
  <1>3. base \in Placements
    <2>1. <<>> \in Seq(Positive) /\ <<>> \in Seq(Nat)
      OBVIOUS
    <2> QED
      BY <1>2, <2>1 DEF Unplaced, Placements
  <1> DEFINE step == [p \in Placements \X Tiers |-> TakeTier(p[1], p[2])]
  <1>4. step \in [Placements \X Tiers -> Placements]
    BY TakeTierType
  <1>5. \A x \in Placements, y \in Tiers : step[<<x, y>>] = TakeTier(x, y)
    OBVIOUS
  <1> HIDE DEF step
  <1>6. CanFold(step, base, n, tiers, Placements, Tiers)
    BY <1>1, <1>3, <1>4 DEF CanFold
  <1>7. PICK g : LeftFolds(g, step, base, n, tiers, Placements)
    BY <1>6, LeftFoldExists
  <1>8. ASSUME NEW s \in SUBSET (1..n)
        PROVE  g[s] = IF s = {} THEN base ELSE TakeTier(g[s \ {Max(s)}], tiers[Max(s)])
    <2>1. g[s] = LeftStep(g, step, base, tiers, s) /\ g \in [SUBSET (1..n) -> Placements]
      BY <1>7 DEF LeftFolds
    <2>2. CASE s = {}
      BY <2>1, <2>2 DEF LeftStep
    <2>3. CASE s # {}
      <3>1. Max(s) \in 1..n
        BY <2>3, LastOfInterval
      <3>2. g[s \ {Max(s)}] \in Placements /\ tiers[Max(s)] \in Tiers
        BY <1>1, <2>1, <3>1
      <3> QED
        BY <1>5, <2>1, <2>3, <3>2 DEF LeftStep
    <2> QED
      BY <2>2, <2>3
  <1>9. IsDecomposition(g, tp, tiers)
    <2>1. g = [s \in SUBSET (1..n) |-> g[s]]
      BY <1>7 DEF LeftFolds
    <2> QED
      BY <1>1, <1>2, <1>8, <2>1 DEF IsDecomposition
  <1>10. PICK h : h = (CHOOSE f : IsDecomposition(f, tp, tiers)) /\ IsDecomposition(h, tp, tiers)
    BY <1>9
  <1>11. \A s \in SUBSET (1..n) : h[s] = IF s = {} THEN base ELSE TakeTier(h[s \ {Max(s)}], tiers[Max(s)])
    BY <1>1, <1>2, <1>10 DEF IsDecomposition
  <1> DEFINE Good == {k \in 0..n : h[1..k] \in Placements /\ IsPlaced(h[1..k], tp)}
  <1>12. 0 \in Good
    <2>1. h[1..0] = base
      BY <1>11, LastOfInterval
    <2>2. Product(base.shape) = 1 /\ base.left = tp /\ Len(base.bws) = Len(base.shape)
      BY <1>2, ProductOfNone DEF Unplaced
    <2>3. IsPlaced(base, tp)
      BY <2>2 DEF IsPlaced, Positive
    <2> QED
      BY <1>3, <2>1, <2>3
  <1>13. ASSUME NEW k \in 0..(n - 1), k \in Good PROVE k + 1 \in Good
    <2>1. PICK j \in 1..n : j = k + 1 /\ j - 1 = k
      OBVIOUS
    <2>2. Max(1..j) = j /\ (1..j) \ {j} = 1..(j - 1) /\ 1..j # {} /\ 1..j \in SUBSET (1..n)
      BY LastOfInterval
    <2>3. h[1..j] = TakeTier(h[1..k], tiers[j])
      BY <1>11, <2>1, <2>2
    <2>4. h[1..k] \in Placements /\ IsPlaced(h[1..k], tp) /\ tiers[j] \in Tiers
      BY <1>1, <1>13
    <2>5. h[1..j] \in Placements /\ IsPlaced(h[1..j], tp)
      BY <2>3, <2>4, TakeTierType
    <2> QED
      BY <2>1, <2>5
  <1>14. n \in Good
    <2> HIDE DEF Good
    <2>1. \A k \in 0..(n - 1) : k \in Good => k + 1 \in Good
      BY <1>13
    <2>2. PICK G : G = Good
      OBVIOUS
    <2>3. 0 \in G /\ \A k \in 0..(n - 1) : k \in G => k + 1 \in G
      BY <1>12, <2>1, <2>2
    <2>4. \A k \in 0..n : k \in G
      BY <2>3, IntervalInduction
    <2> QED
      BY <2>2, <2>4
  <1>15. Decompose(tp, tiers) = h[1..n]
    BY <1>1, <1>10, DecomposeIs
  <1> QED
    BY <1>14, <1>15

-------------------------------------------------------------------------------
(* The space is finite *)

\* A group has finitely many layouts.
LEMMA LayoutsAreFinite ==
  ASSUME NEW J, NEW h, NEW n \in Nat, NEW axes
  PROVE  IsFiniteSet(Layouts(Catalog, GroupOf(J, h, n), axes))
  <1>1. IsFiniteSet(1..n)
    BY FS_Interval
  <1>2. IsFiniteSet((1..n) \X (1..n))
    BY <1>1, FS_Product
  <1>3. ASSUME NEW l \in Layouts(Catalog, GroupOf(J, h, n), axes) PROVE l \in (1..n) \X (1..n)
    <2>1. PICK t \in Degrees(J, h), p \in Positive : l = <<t * p, p>> /\ t * p <= n
      BY LayoutForm
    <2>2. t \in Positive
      BY DegreesArePositive
    <2>3. t * p \in Positive /\ t * p >= p
      BY <2>2, Products
    <2>4. t * p \in 1..n /\ p \in 1..n
      BY <2>1, <2>3 DEF Positive
    <2> QED
      BY <2>1, <2>4
  <1>4. Layouts(Catalog, GroupOf(J, h, n), axes) \in SUBSET ((1..n) \X (1..n))
    BY <1>3
  <1> QED
    BY <1>2, <1>4, FS_Subset

\* One group has finitely many configurations.
LEMMA SingleGroupIsFinite ==
  ASSUME NEW J, NEW h, NEW n \in Nat, NEW axes
  PROVE  IsFiniteSet(SingleGroup(Catalog, GroupOf(J, h, n), axes))
  <1>1. PICK g : g = GroupOf(J, h, n) /\ g.npus = n
    <2>1. GroupOf(J, h, n).npus = n
      BY DEF GroupOf
    <2> QED
      BY <2>1
  <1>2. PICK L : L = Layouts(Catalog, g, axes) /\ IsFiniteSet(L)
    BY <1>1, LayoutsAreFinite
  <1>3. IsFiniteSet(1..n) /\ IsFiniteSet({1})
    <2>1. IsFiniteSet(1..n)
      BY FS_Interval
    <2>2. IsFiniteSet({1})
      BY FS_Singleton
    <2> QED
      BY <2>1, <2>2
  <1>4. IsFiniteSet(Combined(Catalog, g, axes))
    <2> DEFINE X == {y \in L \X (IF axes.dp THEN 1..g.npus ELSE {1}) :
                       y[2] * y[1][1] <= g.npus /\ g.npus % (y[2] * y[1][1]) = 0}
               config(l, dp) ==
                 [label |-> <<"combined", <<l[1] \div l[2], l[2], dp>>>>,
                  insts |-> Repeat(Inst(g, l, "none"), dp), tp |-> l[1] \div l[2], pp |-> l[2], dp |-> dp]
    <2>1. IsFiniteSet(L \X (IF axes.dp THEN 1..g.npus ELSE {1}))
      BY <1>1, <1>2, <1>3, FS_Product
    <2>2. X \in SUBSET (L \X (IF axes.dp THEN 1..g.npus ELSE {1}))
      OBVIOUS
    <2>3. IsFiniteSet(X)
      <3> HIDE DEF X
      <3> QED
        BY <2>1, <2>2, FS_Subset
    <2>4. PICK Y : Y = X
      OBVIOUS
    <2>5. PICK f : \A x \in Y : f[x] = config(x[1], x[2])
      <3>1. \A x \in Y : [y \in Y |-> config(y[1], y[2])][x] = config(x[1], x[2])
        OBVIOUS
      <3> HIDE DEF config
      <3> QED
        BY <3>1
    <2>6. Combined(Catalog, g, axes) = {config(x[1], x[2]) : x \in Y}
      BY <1>2, <2>4 DEF Combined
    <2>7. Combined(Catalog, g, axes) = {f[x] : x \in Y}
      <3> HIDE DEF config
      <3> QED
        BY <2>5, <2>6
    <2>8. IsFiniteSet({f[x] : x \in Y})
      BY <2>3, <2>4, ImageIsFinite
    <2> QED
      BY <2>7, <2>8
  <1>5. IsFiniteSet(PdSplit(Catalog, g, axes))
    <2> DEFINE All == {l \in L : l[2] = 1} \X {l \in L : l[1] = 1} \X (1..g.npus) \X (1..g.npus)
               Insts(p, d, np, nd) == Repeat(Inst(g, p, "prefill"), np) \o Repeat(Inst(g, d, "decode"), nd)
               config(p, d, np, nd) ==
                 [label |-> <<"pd", <<np, nd, p[1] \div p[2], p[2]>>>>,
                  insts |-> Insts(p, d, np, nd), tp |-> p[1] \div p[2], pp |-> p[2], dp |-> nd]
               X == {y \in All : /\ y[3] = 1 \/ y[4] = 1
                                 /\ y[3] * y[1][1] + y[4] * y[2][1] <= g.npus
                                 /\ TopologyValid(Insts(y[1], y[2], y[3], y[4]))}
    <2>1. IsFiniteSet(All)
      <3>1. PICK A, B, C : A = {l \in L : l[2] = 1} /\ B = {l \in L : l[1] = 1} /\ C = 1..g.npus
        OBVIOUS
      <3>2. A \in SUBSET L /\ B \in SUBSET L /\ IsFiniteSet(C)
        BY <1>1, <1>3, <3>1
      <3>3. IsFiniteSet(A) /\ IsFiniteSet(B)
        BY <1>2, <3>2, FS_Subset
      <3> QED
        BY <3>1, <3>2, <3>3, QuadruplesAreFinite
    <2>2. X \in SUBSET All
      OBVIOUS
    <2>3. IsFiniteSet(X)
      <3> HIDE DEF X, All
      <3> QED
        BY <2>1, <2>2, FS_Subset
    <2>4. PICK Y : Y = X
      OBVIOUS
    <2>5. PdSplit(Catalog, g, axes) = {config(x[1], x[2], x[3], x[4]) : x \in Y}
      BY <1>2, <2>4 DEF PdSplit
    <2> HIDE DEF config, X
    <2>6. PICK f : f = [y \in Y |-> config(y[1], y[2], y[3], y[4])]
      OBVIOUS
    <2>7. PdSplit(Catalog, g, axes) = {f[x] : x \in Y}
      BY <2>5, <2>6
    <2>8. IsFiniteSet({f[x] : x \in Y})
      BY <2>3, <2>4, ImageIsFinite
    <2> QED
      BY <2>7, <2>8
  <1> QED
    BY <1>1, <1>4, <1>5, FS_Union, FS_EmptySet DEF SingleGroup

\* The instances that a group may become.
InstancesOf(g, axes) == {Inst(g, x[1], x[2]) : x \in Layouts(Catalog, g, axes) \X Roles}

\* They are finitely many.
LEMMA InstancesAreFinite ==
  ASSUME NEW J, NEW h, NEW n \in Nat, NEW axes
  PROVE  IsFiniteSet(InstancesOf(GroupOf(J, h, n), axes))
  <1>1. IsFiniteSet(Layouts(Catalog, GroupOf(J, h, n), axes))
    BY LayoutsAreFinite
  <1>2. IsFiniteSet(Roles)
    <2>1. Roles = ({} \cup {"none"}) \cup {"prefill"} \cup {"decode"}
      BY DEF Roles
    <2> QED
      BY <2>1, FS_EmptySet, FS_AddElement
  <1>3. PICK X : X = Layouts(Catalog, GroupOf(J, h, n), axes) \X Roles /\ IsFiniteSet(X)
    BY <1>1, <1>2, FS_Product
  <1>4. PICK f : f = [x \in X |-> Inst(GroupOf(J, h, n), x[1], x[2])]
    OBVIOUS
  <1>5. IsFiniteSet({f[x] : x \in X})
    BY <1>3, ImageIsFinite
  <1>6. InstancesOf(GroupOf(J, h, n), axes) = {f[x] : x \in X}
    BY <1>3, <1>4 DEF InstancesOf
  <1> QED
    BY <1>5, <1>6

\* A role only chooses among them.
LEMMA CandidateIsInstance ==
  ASSUME NEW g, NEW role \in {"combined", "prefill", "decode"}, NEW axes
  PROVE  Candidate(Catalog, g, role, axes) \subseteq InstancesOf(g, axes)
  <1> SUFFICES ASSUME NEW i \in Candidate(Catalog, g, role, axes) PROVE i \in InstancesOf(g, axes)
    OBVIOUS
  <1>1. PICK l \in Layouts(Catalog, g, axes) : i = Inst(g, l, IF role = "combined" THEN "none" ELSE role)
    BY DEF Candidate
  <1>2. PICK pd \in Roles : pd = IF role = "combined" THEN "none" ELSE role
    BY DEF Roles
  <1>3. PICK x \in Layouts(Catalog, g, axes) \X Roles : x = <<l, pd>>
    OBVIOUS
  <1> QED
    BY <1>1, <1>2, <1>3 DEF InstancesOf

\* Several groups have finitely many configurations.
LEMMA MultiGroupIsFinite ==
  ASSUME NEW J, NEW n \in Nat, NEW o, NEW m, \A k \in 1..n : m[o[k]] \in Nat,
         NEW G, AreGroups(G, J, n, o, m), NEW axes
  PROVE  IsFiniteSet(MultiGroup(Catalog, G, axes))
  <1>1. DOMAIN G = 1..n /\ \A k \in 1..n : G[k] = GroupOf(J, o[k], m[o[k]])
    BY DEF AreGroups
  <1>2. PICK N : N = 1..n /\ IsFiniteSet(N)
    BY FS_Interval
  <1>3. PICK inst : inst = [k \in N |-> InstancesOf(G[k], axes)]
    OBVIOUS
  <1>4. \A k \in N : IsFiniteSet(inst[k])
    BY <1>1, <1>2, <1>3, InstancesAreFinite
  <1>5. PICK all : all = {inst[k] : k \in N} /\ IsFiniteSet(all) /\ \A x \in all : IsFiniteSet(x)
    <2>1. IsFiniteSet({inst[k] : k \in N})
      BY <1>2, ImageIsFinite
    <2>2. \A x \in {inst[k] : k \in N} : IsFiniteSet(x)
      BY <1>4
    <2> QED
      BY <2>1, <2>2
  <1>6. PICK I : I = UNION all /\ IsFiniteSet(I)
    BY <1>5, FinitelyManyFinite
  <1>7. PICK F : F = [N -> I] /\ IsFiniteSet(F)
    BY <1>2, <1>6, FunctionsAreFinite
  <1>8. PICK f : f = [p \in F |-> MultiConfig(ByRole(p))]
    OBVIOUS
  <1>9. IsFiniteSet({f[p] : p \in F})
    BY <1>7, ImageIsFinite
  <1>10. ASSUME NEW c \in MultiGroup(Catalog, G, axes) PROVE c \in {f[p] : p \in F}
    <2> DEFINE options(rc) == [k \in DOMAIN G |-> Candidate(Catalog, G[k], rc[k], axes)]
               picks(rc) == {p \in [DOMAIN G -> UNION {options(rc)[k] : k \in DOMAIN G}] :
                               /\ \A k \in DOMAIN G : p[k] \in options(rc)[k]
                               /\ TopologyValid(p)}
    <2>1. c \in UNION {{MultiConfig(ByRole(p)) : p \in picks(rc)} : rc \in RoleCombos(G, axes)}
      BY <1>1 DEF MultiGroup, MultiConfig
    <2>2. PICK rc \in RoleCombos(G, axes) : c \in {MultiConfig(ByRole(p)) : p \in picks(rc)}
      <3> HIDE DEF picks
      <3> QED
        BY <2>1
    <2>3. PICK p \in picks(rc) : c = MultiConfig(ByRole(p))
      <3> HIDE DEF picks
      <3> QED
        BY <2>2
    <2>4. /\ p \in [N -> UNION {options(rc)[k] : k \in N}]
          /\ \A k \in N : p[k] \in Candidate(Catalog, G[k], rc[k], axes)
      BY <1>1, <1>2, <2>3 DEF picks
    <2>5. \A k \in N : rc[k] \in {"combined", "prefill", "decode"}
      BY <1>1, <1>2 DEF RoleCombos, EffectiveRoles, GroupOf
    <2>6. \A k \in N : p[k] \in inst[k]
      BY <1>3, <2>4, <2>5, CandidateIsInstance
    <2>7. \A k \in N : p[k] \in I
      BY <1>5, <1>6, <2>6
    <2>8. p \in F
      <3>1. DOMAIN p = N /\ p = [k \in N |-> p[k]]
        BY <2>4
      <3> QED
        BY <1>7, <2>7, <3>1
    <2> QED
      BY <1>8, <2>3, <2>8
  <1>11. MultiGroup(Catalog, G, axes) \in SUBSET {f[p] : p \in F}
    BY <1>10
  <1> QED
    BY <1>9, <1>11, FS_Subset

\* Counts contribute finitely many candidates.
LEMMA ExpandedIsFinite ==
  ASSUME NEW J, IsJob(J), NEW counts \in HwCounts(J)
  PROVE  IsFiniteSet(Expanded(J, counts))
  <1>1. PICK n \in Nat : n = Cardinality(Used(counts))
    BY CountsType, FS_CardinalityType
  <1>2. PICK o : /\ Lists(o, n, Used(counts))
                 /\ Groups(J, counts) = [k \in 1..n |-> GroupOf(J, o[k], counts[o[k]])]
    BY <1>1, GroupsListUsed
  <1>3. PICK G : G = Groups(J, counts) /\ G = [k \in 1..n |-> GroupOf(J, o[k], counts[o[k]])]
    BY <1>2
  <1>4. DOMAIN G = 1..n /\ Len(G) = n
    BY <1>3
  <1>5. \A h \in Used(counts) : counts[h] \in Nat
    BY DistType
  <1>6. \A k \in 1..n : counts[o[k]] \in Nat
    BY <1>2, <1>5 DEF Lists
  <1>7. PICK C : C = EnumerateConfigs(Catalog, G, Axes(J))
    OBVIOUS
  <1>8. IsFiniteSet(C)
    <2>1. CASE G = <<>>
      BY <1>7, <2>1, FS_EmptySet DEF EnumerateConfigs
    <2>2. CASE G # <<>> /\ Len(G) = 1
      <3>1. C = SingleGroup(Catalog, G[1], Axes(J))
        BY <1>7, <2>2 DEF EnumerateConfigs
      <3>2. 1 \in 1..n
        BY <1>4, <2>2
      <3>3. G[1] = GroupOf(J, o[1], counts[o[1]]) /\ counts[o[1]] \in Nat
        BY <1>3, <1>6, <3>2
      <3> QED
        BY <3>1, <3>3, SingleGroupIsFinite
    <2>3. CASE G # <<>> /\ Len(G) # 1
      <3>1. C = MultiGroup(Catalog, G, Axes(J))
        BY <1>7, <2>3 DEF EnumerateConfigs
      <3>2. AreGroups(G, J, n, o, counts)
        BY <1>3 DEF AreGroups
      <3> QED
        BY <1>6, <3>1, <3>2, MultiGroupIsFinite
    <2> QED
      BY <2>1, <2>2, <2>3
  <1>9. PICK S : S = {x \in C : UsesAll(x, counts)} /\ S \in SUBSET C
    OBVIOUS
  <1>10. IsFiniteSet(S)
    BY <1>8, <1>9, FS_Subset
  <1>11. PICK f : f = [x \in S |-> Wrap(x, counts)]
    OBVIOUS
  <1>12. IsFiniteSet({f[x] : x \in S})
    BY <1>10, ImageIsFinite
  <1>13. Expanded(J, counts) = {f[x] : x \in S}
    BY <1>3, <1>7, <1>9, <1>11 DEF Expanded
  <1> QED
    BY <1>12, <1>13

\* A resource pool has finitely many counts.
LEMMA CountsAreFinite ==
  ASSUME NEW J, IsJob(J)
  PROVE  IsFiniteSet(HwCounts(J))
  <1>1. PICK P : P = DOMAIN J.pool /\ IsFiniteSet(P) /\ \A h \in P : J.pool[h] \in Nat \X Nat
    BY DEF IsJob
  <1>2. PICK range : range = [h \in P |-> J.pool[h][1]..J.pool[h][2]]
    OBVIOUS
  <1>3. \A h \in P : IsFiniteSet(range[h])
    BY <1>1, <1>2, FS_Interval
  <1>4. PICK all : all = {range[h] : h \in P} /\ IsFiniteSet(all) /\ \A x \in all : IsFiniteSet(x)
    <2>1. IsFiniteSet({range[h] : h \in P})
      BY <1>1, ImageIsFinite
    <2>2. \A x \in {range[h] : h \in P} : IsFiniteSet(x)
      BY <1>3
    <2> QED
      BY <2>1, <2>2
  <1>5. PICK U : U = UNION all /\ IsFiniteSet(U)
    BY <1>4, FinitelyManyFinite
  <1>6. IsFiniteSet([P -> U])
    BY <1>1, <1>5, FunctionsAreFinite
  <1>7. all = {J.pool[h][1]..J.pool[h][2] : h \in P}
    BY <1>2, <1>4
  <1>8. HwCounts(J) \in SUBSET [P -> U]
    BY <1>1, <1>5, <1>7 DEF HwCounts
  <1> QED
    BY <1>6, <1>8, FS_Subset

\* The design space of a job is finite.
LEMMA SpaceIsFinite ==
  ASSUME NEW J, IsJob(J)
  PROVE  IsFiniteSet(Space(J))
  <1>1. PICK C : C = {x \in HwCounts(J) : MayHoldWeights(J, x)} /\ C \in SUBSET HwCounts(J)
    OBVIOUS
  <1>2. IsFiniteSet(C)
    BY <1>1, CountsAreFinite, FS_Subset
  <1>3. PICK f : f = [x \in C |-> Expanded(J, x)]
    OBVIOUS
  <1>4. PICK all : all = {f[x] : x \in C} /\ IsFiniteSet(all)
    BY <1>2, ImageIsFinite
  <1>5. \A x \in all : IsFiniteSet(x)
    BY <1>1, <1>3, <1>4, ExpandedIsFinite
  <1>6. Space(J) = UNION all
    BY <1>1, <1>3, <1>4 DEF Space
  <1> QED
    BY <1>4, <1>5, <1>6, FinitelyManyFinite

-------------------------------------------------------------------------------
(* Rounds *)

\* The candidates that a round may take.
Kept(J, excluded) == {c \in Space(J) : /\ J.stage1 => Stage1(J, c)
                                       /\ c.label \notin excluded}

\* The survivors are a list of them, sorted or not.
LEMMA SurvivorsList ==
  ASSUME NEW J, IsJob(J), NEW X
  PROVE  \E n \in Nat : Survivors(J, X) \in [1..n -> Kept(J, X)]
  <1>1. IsFiniteSet(Space(J)) /\ Kept(J, X) \in SUBSET Space(J)
    BY SpaceIsFinite DEF Kept
  <1>2. PICK S : S = Kept(J, X) /\ IsFiniteSet(S)
    BY <1>1, FS_Subset
  <1>3. PICK n \in Nat : n = Cardinality(S)
    BY <1>2, FS_CardinalityType
  <1>4. PICK kept : kept = SetToSeq(S) /\ Lists(kept, n, S)
    BY <1>2, <1>3, SetToSeqLists
  <1>5. kept \in [1..n -> S] /\ DOMAIN kept = 1..n
    BY <1>4 DEF Lists
  <1>6. PICK key : key = [k \in DOMAIN kept |-> Predicted(J, kept[k])]
    OBVIOUS
  <1>7. Survivors(J, X) = IF J.stage2 THEN SortedBy(kept, key) ELSE kept
    BY <1>2, <1>4, <1>6 DEF Survivors, Kept
  <1>8. CASE J.stage2
    <2>1. \A c : Predicted(J, c) \in Int
      BY DEF Predicted, IsJob, Unprofiled
    <2>2. key \in [1..n -> Int]
      BY <1>5, <1>6, <2>1
    <2>3. PICK o : o = Order(key) /\ Sorts(o, n, key)
      BY <2>2, OrderSorts
    <2>4. o \in [1..n -> 1..n]
      BY <2>3 DEF Sorts, Lists
    <2>5. Survivors(J, X) = [k \in 1..n |-> kept[o[k]]]
      BY <1>5, <1>7, <1>8, <2>3 DEF SortedBy
    <2> QED
      BY <1>2, <1>5, <2>4, <2>5
  <1>9. CASE ~J.stage2
    <2>1. Survivors(J, X) = kept
      BY <1>7, <1>9
    <2> QED
      BY <1>2, <1>5, <2>1
  <1> QED
    BY <1>8, <1>9

\* A sample takes candidates of the space that are not excluded.
LEMMA SamplesAreKept ==
  ASSUME NEW J, IsJob(J), NEW X, NEW k \in Nat, NEW S \in Samples(J, Survivors(J, X), k)
  PROVE  S \subseteq Kept(J, X)
  <1>1. PICK list : list = Survivors(J, X)
    OBVIOUS
  <1>2. PICK n \in Nat : list \in [1..n -> Kept(J, X)]
    BY <1>1, SurvivorsList
  <1>3. Len(list) = n
    <2>1. PICK K : K = Kept(J, X)
      OBVIOUS
    <2>2. list \in Seq(K) /\ DOMAIN list = 1..n
      BY <1>2, <2>1
    <2> QED
      BY <2>2, LenProperties
  <1>4. ToSet(list) \subseteq Kept(J, X)
    BY <1>2 DEF ToSet
  <1>5. CASE Len(list) <= k
    BY <1>1, <1>4, <1>5 DEF Samples
  <1>6. CASE ~(Len(list) <= k) /\ J.sampling = "grid"
    <2>1. S = {list[1 + i * (Len(list) \div k)] : i \in 0..(k - 1)}
      BY <1>1, <1>6 DEF Samples
    <2>2. ASSUME NEW i \in 0..(k - 1) PROVE 1 + i * (n \div k) \in 1..n
      <3>1. k \in Positive /\ n > k /\ i \in Nat /\ i <= k - 1
        BY <1>3, <1>6 DEF Positive
      <3>2. PICK q \in Nat : q = n \div k /\ k * q <= n
        <4>1. n = k * (n \div k) + (n % k) /\ n \div k \in Nat /\ n % k \in Nat
          BY <3>1 DEF Positive
        <4>2. k * (n \div k) <= n
          BY <4>1
        <4> QED
          BY <4>1, <4>2
      <3>3. PICK p \in Nat : p = k - 1
        BY <3>1 DEF Positive
      <3>4. i * q <= p * q
        BY <3>1, <3>3, ProductsMonotone
      <3>5. k * q = p * q + q
        BY <3>3
      <3>6. q > 0
        <4>1. n \div k > 0
          BY <3>1 DEF Positive
        <4> QED
          BY <3>2, <4>1
      <3>7. i * q \in Nat /\ p * q \in Nat
        BY <3>1
      <3>8. 1 + i * q \in 1..n
        BY <3>2, <3>4, <3>5, <3>6, <3>7
      <3> QED
        BY <3>2, <3>8
    <2> QED
      BY <1>2, <1>3, <2>1, <2>2
  <1>7. CASE ~(Len(list) <= k) /\ J.sampling # "grid"
    BY <1>1, <1>4, <1>7 DEF Samples
  <1> QED
    BY <1>5, <1>6, <1>7

\* What is known of an outcome: without metrics unless the simulation is done.
Measured == \A l \in DOMAIN status : \/ status[l].metrics \in Metrics
                                     \/ status[l].metrics = <<>> /\ status[l].state # "done"

\* The labels with an outcome, by phase.
RoundInv ==
  /\ phase = "new" => tried = {} /\ DOMAIN status = {}
  /\ phase = "run" => /\ Labels(batch) \cap DOMAIN status = {}
                      /\ DOMAIN status \cup Labels(batch) = Labels(tried)
  /\ phase \in {"settled", "ranked"} => DOMAIN status = Labels(tried)

\* The invariant of a job.
JobInv == job \in JobSpecs /\ tried \subseteq Space(job) /\ RoundInv /\ Measured

\* A round takes candidates whose labels no earlier round has (generate_candidates with
\* excluded_labels).
LEMMA TakenAreKept ==
  ASSUME JobInv, Generate \/ Retry
  PROVE  \E S : /\ S \subseteq Kept(job, Labels(tried)) /\ batch' = S /\ tried' = tried \cup S
                /\ phase' \in {"run", "refused"} /\ job' = job /\ status' = status
                /\ DOMAIN status = Labels(tried)
  <1>1. IsJob(job)
    BY JobsAssumption DEF JobInv
  <1>2. CASE Generate
    <2>1. PICK S \in Samples(job, Survivors(job, {}), job.maxCombinations) :
            Take(S, IF S = {} THEN "refused" ELSE "run")
      BY <1>2 DEF Generate
    <2>2. Labels(tried) = {} /\ DOMAIN status = {}
      BY <1>2 DEF Generate, JobInv, RoundInv, Labels
    <2>3. job.maxCombinations \in Nat
      BY <1>1 DEF IsJob
    <2>4. PICK k, X : k \in Nat /\ k = job.maxCombinations /\ X = {}
      BY <2>3
    <2>5. S \subseteq Kept(job, X)
      BY <1>1, <2>1, <2>4, SamplesAreKept
    <2> QED
      BY <2>1, <2>2, <2>4, <2>5 DEF Take
  <1>3. CASE Retry
    <2>1. PICK S \in Replacements \ {{}} : Take(S, "run")
      BY <1>3 DEF Retry
    <2>2. S \in Samples(job, Survivors(job, Untried), Cardinality(Failed))
      BY <2>1 DEF Replacements
    <2>3. DOMAIN status = Labels(tried)
      BY <1>3 DEF Retry, JobInv, RoundInv
    <2>4. Cardinality(Failed) \in Nat
      <3>1. tried \in SUBSET Space(job)
        BY DEF JobInv
      <3>2. IsFiniteSet(tried)
        BY <1>1, <3>1, SpaceIsFinite, FS_Subset
      <3>3. PICK T, f : T = tried /\ f = [c \in T |-> c.label]
        OBVIOUS
      <3>4. IsFiniteSet({f[c] : c \in T})
        BY <3>2, <3>3, ImageIsFinite
      <3>5. Failed \in SUBSET {f[c] : c \in T}
        BY <2>3, <3>3 DEF Failed, Labels
      <3>6. IsFiniteSet(Failed)
        BY <3>4, <3>5, FS_Subset
      <3> QED
        BY <3>6, FS_CardinalityType
    <2>5. PICK k, X : k \in Nat /\ k = Cardinality(Failed) /\ X = Labels(tried)
      BY <2>4
    <2>6. S \subseteq Kept(job, X)
      BY <1>1, <2>2, <2>5, SamplesAreKept DEF Untried
    <2> QED
      BY <2>1, <2>3, <2>5, <2>6 DEF Take
  <1> QED
    BY <1>2, <1>3

\* It is inductive.
THEOREM JobInvariant == Spec => []JobInv
  <1>1. Init => JobInv
    BY DEF Init, JobInv, RoundInv, Measured
  <1>2. JobInv /\ [Next]_vars => JobInv'
    <2> SUFFICES ASSUME JobInv, [Next]_vars PROVE JobInv'
      OBVIOUS
    <2>1. CASE Generate \/ Retry
      <3>1. PICK S : /\ S \subseteq Kept(job, Labels(tried)) /\ batch' = S /\ tried' = tried \cup S
                     /\ phase' \in {"run", "refused"} /\ job' = job /\ status' = status
                     /\ DOMAIN status = Labels(tried)
        BY <2>1, TakenAreKept
      <3>2. \A c \in S : c \in Space(job) /\ c.label \notin Labels(tried)
        BY <3>1 DEF Kept
      <3>3. job' \in JobSpecs /\ tried' \subseteq Space(job)
        BY <3>1, <3>2 DEF JobInv
      <3>4. Labels(batch)' = Labels(S) /\ Labels(tried)' = Labels(tried) \cup Labels(S)
        BY <3>1 DEF Labels
      <3>5. Labels(S) \cap DOMAIN status = {}
        BY <3>1, <3>2 DEF Labels
      <3>6. RoundInv'
        BY <3>1, <3>4, <3>5 DEF RoundInv
      <3>7. Measured'
        BY <3>1 DEF JobInv, Measured
      <3>8. Space(job)' = Space(job)
        BY <3>1
      <3> QED
        BY <3>3, <3>6, <3>7, <3>8 DEF JobInv
    <2>2. CASE RunRound
      <3>1. PICK o \in [Labels(batch) ->
                           {Outcome("done", m) : m \in Metrics}
                           \cup {Outcome(s, <<>>) : s \in {"failed", "timeout", "cancelled"}}] :
              status' = [l \in DOMAIN status \cup Labels(batch) |->
                           IF l \in Labels(batch) THEN o[l] ELSE status[l]]
        BY <2>2 DEF RunRound
      <3>2. job' = job /\ tried' = tried /\ batch' = batch /\ phase = "run" /\ phase' = "settled"
        BY <2>2 DEF RunRound
      <3>3. RoundInv'
        <4>1. Labels(tried)' = Labels(tried) /\ DOMAIN status' = DOMAIN status \cup Labels(batch)
          BY <3>1, <3>2 DEF Labels
        <4>2. DOMAIN status \cup Labels(batch) = Labels(tried)
          BY <3>2 DEF JobInv, RoundInv
        <4> QED
          BY <3>2, <4>1, <4>2 DEF RoundInv
      <3>4. Measured'
        <4> SUFFICES ASSUME NEW l \in DOMAIN status'
                     PROVE  \/ status'[l].metrics \in Metrics
                            \/ status'[l].metrics = <<>> /\ status'[l].state # "done"
          BY DEF Measured
        <4>1. CASE l \in Labels(batch)
          <5>1. status'[l] = o[l]
            BY <3>1, <4>1
          <5>2. \/ \E m \in Metrics : o[l] = Outcome("done", m)
                \/ \E s \in {"failed", "timeout", "cancelled"} : o[l] = Outcome(s, <<>>)
            BY <4>1
          <5>3. PICK x : x = status'[l]
            OBVIOUS
          <5>4. CASE \E m \in Metrics : x = Outcome("done", m)
            <6>1. x.metrics \in Metrics
              BY <5>4 DEF Outcome
            <6> QED
              BY <5>3, <6>1
          <5>5. CASE \E s \in {"failed", "timeout", "cancelled"} : x = Outcome(s, <<>>)
            <6>1. x.metrics = <<>> /\ x.state # "done"
              BY <5>5 DEF Outcome
            <6> QED
              BY <5>3, <6>1
          <5> QED
            BY <5>1, <5>2, <5>3, <5>4, <5>5
        <4>2. CASE l \notin Labels(batch)
          <5>1. l \in DOMAIN status /\ status'[l] = status[l]
            BY <3>1, <4>2
          <5> QED
            BY <5>1 DEF JobInv, Measured
        <4> QED
          BY <4>1, <4>2
      <3>5. Space(job)' = Space(job)
        BY <3>2
      <3> QED
        BY <3>2, <3>3, <3>4, <3>5 DEF JobInv
    <2>3. CASE Rank \/ UNCHANGED vars
      <3>1. job' = job /\ tried' = tried /\ batch' = batch /\ status' = status
            /\ ((phase = "settled" /\ phase' = "ranked") \/ phase' = phase)
        BY <2>3 DEF Rank, vars
      <3>2. Labels(tried)' = Labels(tried) /\ Labels(batch)' = Labels(batch) /\ Space(job)' = Space(job)
        BY <3>1 DEF Labels
      <3>3. RoundInv'
        BY <3>1, <3>2 DEF JobInv, RoundInv
      <3>4. Measured'
        BY <3>1 DEF JobInv, Measured
      <3> QED
        BY <3>1, <3>2, <3>3, <3>4 DEF JobInv
    <2> QED
      BY <2>1, <2>2, <2>3 DEF Next
  <1> QED
    BY <1>1, <1>2, PTL DEF Spec

\* PruneLosesNothing for every job: the summed memory of a candidate that _coarse_memory_prune
\* drops bounds the memory of its smallest card, times its TP and PP degrees, which are no more
\* than the cards of any kind that it uses; so filter_memory refuses the candidate as well.
THEOREM PruneIsSound == Spec => []PruneLosesNothing
  <1>1. JobInv => PruneLosesNothing
    <2> SUFFICES ASSUME JobInv, NEW counts \in HwCounts(job), ~MayHoldWeights(job, counts),
                        NEW c \in Expanded(job, counts)
                 PROVE  ~Memory(job, c)
      BY DEF PruneLosesNothing
    <2>1. IsJob(job)
      BY JobsAssumption DEF JobInv
    <2> QED
      BY <2>1, PrunedHaveNoMemory
  <1> QED
    BY <1>1, JobInvariant, PTL

\* Every candidate that was tried has a form and a distribution.
LEMMA TriedHaveForm ==
  ASSUME JobInv, NEW c \in tried
  PROVE  HasForm(job, c) /\ \E counts \in HwCounts(job) : c.dist = Dist(counts)
  <1>1. IsJob(job)
    BY JobsAssumption DEF JobInv
  <1>2. PICK counts \in HwCounts(job) : c \in Expanded(job, counts)
    BY DEF JobInv, Space
  <1> QED
    BY <1>1, <1>2, ExpandedForm

\* CandidatesAreBuildable for every job: whatever enumerate.py makes, validate_spec accepts, and
\* _decompose_tp places exactly the TP degree on the fabric, a link for each dimension.
THEOREM CandidatesBuild == Spec => []CandidatesAreBuildable
  <1>1. ASSUME JobInv, NEW c \in tried
        PROVE  /\ ValidSpec(c)
               /\ Len(Links(job, c).shape) > 0 => /\ Product(Links(job, c).shape) = c.tp
                                                  /\ Len(Links(job, c).bw) = Len(Links(job, c).shape)
    <2>1. HasForm(job, c)
      BY <1>1, TriedHaveForm
    <2>2. PICK m \in Positive : DOMAIN c.insts = 1..m
      BY <2>1, FormFacts
    <2>3. \A k \in DOMAIN c.insts : \E h \in DOMAIN c.dist :
            c.insts[k] \in Shards(job, h) /\ c.insts[k].npus <= c.dist[h]
      BY <2>1, FormFacts
    <2>4. c.tp = TpOf(c.insts[1])
      BY <2>1, FormFacts
    <2>5. ValidSpec(c)
      <3>1. c.insts # <<>>
        BY <2>2 DEF Positive
      <3>2. ASSUME NEW k \in DOMAIN c.insts
            PROVE  /\ c.insts[k].group >= 1 /\ c.insts[k].npus >= c.insts[k].group
                   /\ c.insts[k].npus % c.insts[k].group = 0
                   /\ TpOf(c.insts[k]) \in TpOptions(Catalog, c.insts[k].hw, c.insts[k].model)
                   /\ c.insts[k].pd \in {"none", "prefill", "decode"}
        <4>1. PICK h : c.insts[k] \in Shards(job, h)
          BY <2>3
        <4>2. PICK s : s = c.insts[k] /\ s \in Shards(job, h)
          BY <4>1
        <4>3. /\ s.hw = h /\ s.model = job.model.name /\ s.pd \in Roles
              /\ s.group \in Positive /\ TpOf(s) \in Degrees(job, h)
              /\ s.npus >= s.group /\ s.npus % s.group = 0
          BY <4>2, ShardFacts
        <4> QED
          BY <4>2, <4>3 DEF Degrees, Roles, Positive
      <3> QED
        BY <3>1, <3>2 DEF ValidSpec
    <2>6. c.tp \in Positive
      <3>1. 1 \in DOMAIN c.insts
        BY <2>2 DEF Positive
      <3>2. PICK h : c.insts[1] \in Shards(job, h)
        BY <2>3, <3>1
      <3>3. TpOf(c.insts[1]) \in Degrees(job, h)
        BY <3>2, ShardFacts
      <3> QED
        BY <2>4, <3>3, DegreesArePositive
    <2>7. job.fabric \in Seq(Tiers)
      BY <1>1, JobsAssumption DEF JobInv, IsJob, Tiers, Positive
    <2>8. PICK d : d = Decompose(c.tp, job.fabric) /\ d \in Placements /\ IsPlaced(d, c.tp)
      BY <2>6, <2>7, DecomposeFacts
    <2>9. CASE Len(Links(job, c).shape) > 0
      <3>1. Links(job, c) = [shape |-> d.shape, bw |-> d.bws] /\ d.left = 1
        <4>1. PICK none : none = <<>> /\ Len(none) = 0
          OBVIOUS
        <4>2. \/ Links(job, c).shape = none
              \/ Links(job, c) = [shape |-> d.shape, bw |-> d.bws] /\ d.left = 1
          BY <2>8, <4>1 DEF Links
        <4> QED
          BY <2>9, <4>1, <4>2
      <3>2. Product(d.shape) * d.left = c.tp /\ Len(d.bws) = Len(d.shape)
        BY <2>8 DEF IsPlaced
      <3>3. Product(d.shape) \in Positive
        BY <2>8, ProductType DEF Placements
      <3>4. Product(d.shape) = c.tp
        BY <3>1, <3>2, <3>3 DEF Positive
      <3> QED
        BY <2>5, <3>1, <3>2, <3>4
    <2> QED
      BY <2>5, <2>9
  <1>2. JobInv => CandidatesAreBuildable
    BY <1>1 DEF CandidatesAreBuildable
  <1> QED
    BY <1>2, JobInvariant, PTL

-------------------------------------------------------------------------------
(* Names *)

\* The instances on one kind of hardware, and their NPUs.
On(insts, h) == {k \in DOMAIN insts : insts[k].hw = h}

NpusOn(insts, h) == Total(On(insts, h), LAMBDA k : insts[k].npus)

\* They are a sum.
LEMMA NpusOnIs ==
  ASSUME NEW insts, NEW h
  PROVE  \E f : /\ NpusOn(insts, h) = SumFunctionOnSet(f, On(insts, h))
                /\ \A k \in On(insts, h) : f[k] = insts[k].npus
  <1>1. PICK S : S = On(insts, h)
    OBVIOUS
  <1>2. PICK f : f = [k \in S |-> insts[k].npus]
    OBVIOUS
  <1>3. NpusOn(insts, h) = SumFunctionOnSet(f, S)
    BY <1>1, <1>2 DEF NpusOn, Total
  <1> QED
    BY <1>1, <1>2, <1>3

\* A candidate's instances are charged to the kinds that they are on.
IsCharged(c) ==
  /\ DOMAIN c.dist = {c.insts[k].hw : k \in DOMAIN c.insts}
  /\ \A h \in DOMAIN c.dist : NpusOn(c.insts, h) = c.dist[h]

\* A candidate's parts, by its form.
AsCombined(J, c, h, t, p, dp) ==
  /\ t \in Degrees(J, h) /\ t \in Positive /\ p \in Positive /\ dp \in Positive
  /\ DOMAIN c.dist = {h} /\ c.dist[h] = dp * (t * p)
  /\ c.label = <<"combined", <<t, p, dp>>, c.dist>>
  /\ c.insts = [k \in 1..dp |-> Shard(J, h, t, p, "none")]
  /\ c = [label |-> c.label, insts |-> c.insts, tp |-> t, pp |-> p, dp |-> dp, dist |-> c.dist]

\* The same for a split candidate.
AsPd(J, c, h, t, np, nd) ==
  /\ t \in Degrees(J, h) /\ t \in Positive /\ np \in Positive /\ nd \in Positive
  /\ DOMAIN c.dist = {h} /\ c.dist[h] = np * t + nd
  /\ c.label = <<"pd", <<np, nd, t, 1>>, c.dist>>
  /\ c.insts = [k \in 1..(np + nd) |-> IF k <= np THEN Shard(J, h, t, 1, "prefill")
                                                 ELSE Shard(J, h, 1, 1, "decode")]
  /\ c = [label |-> c.label, insts |-> c.insts, tp |-> t, pp |-> 1, dp |-> nd, dist |-> c.dist]

\* A combined candidate has such parts.
LEMMA CombinedParts ==
  ASSUME NEW J, NEW c, IsCombined(J, c)
  PROVE  \E h, t, p, dp : AsCombined(J, c, h, t, p, dp)
  <1>1. PICK h \in DOMAIN c.dist : \E t \in Degrees(J, h), p \in Positive, dp \in Positive :
          /\ DOMAIN c.dist = {h} /\ c.dist[h] = dp * (t * p)
          /\ c = [label |-> <<"combined", <<t, p, dp>>, c.dist>>,
                  insts |-> CombinedConfig(J, h, t, p, dp).insts,
                  tp |-> t, pp |-> p, dp |-> dp, dist |-> c.dist]
    BY DEF IsCombined
  <1>2. PICK t \in Degrees(J, h), p \in Positive, dp \in Positive :
          /\ DOMAIN c.dist = {h} /\ c.dist[h] = dp * (t * p)
          /\ c = [label |-> <<"combined", <<t, p, dp>>, c.dist>>,
                  insts |-> CombinedConfig(J, h, t, p, dp).insts,
                  tp |-> t, pp |-> p, dp |-> dp, dist |-> c.dist]
    BY <1>1
  <1>3. c.label = <<"combined", <<t, p, dp>>, c.dist>> /\ c.insts = CombinedConfig(J, h, t, p, dp).insts
    BY <1>2
  <1>4. c = [label |-> c.label, insts |-> c.insts, tp |-> t, pp |-> p, dp |-> dp, dist |-> c.dist]
    BY <1>2, <1>3
  <1>5. c.insts = [k \in 1..dp |-> Shard(J, h, t, p, "none")]
    BY <1>3 DEF CombinedConfig
  <1>6. t \in Positive
    BY DegreesArePositive
  <1>7. AsCombined(J, c, h, t, p, dp)
    BY <1>2, <1>3, <1>4, <1>5, <1>6 DEF AsCombined
  <1> QED
    BY <1>7

\* A split candidate has such parts.
LEMMA PdParts ==
  ASSUME NEW J, NEW c, IsPd(J, c)
  PROVE  \E h, t, np, nd : AsPd(J, c, h, t, np, nd)
  <1>1. PICK h \in DOMAIN c.dist : \E t \in Degrees(J, h), np \in Positive, nd \in Positive :
          /\ DOMAIN c.dist = {h} /\ c.dist[h] = np * t + nd /\ 1 \in Degrees(J, h)
          /\ c = [label |-> <<"pd", <<np, nd, t, 1>>, c.dist>>, insts |-> PdConfig(J, h, t, np, nd).insts,
                  tp |-> t, pp |-> 1, dp |-> nd, dist |-> c.dist]
    BY DEF IsPd
  <1>2. PICK t \in Degrees(J, h), np \in Positive, nd \in Positive :
          /\ DOMAIN c.dist = {h} /\ c.dist[h] = np * t + nd
          /\ c = [label |-> <<"pd", <<np, nd, t, 1>>, c.dist>>, insts |-> PdConfig(J, h, t, np, nd).insts,
                  tp |-> t, pp |-> 1, dp |-> nd, dist |-> c.dist]
    BY <1>1
  <1>3. c.label = <<"pd", <<np, nd, t, 1>>, c.dist>> /\ c.insts = PdConfig(J, h, t, np, nd).insts
    BY <1>2
  <1>4. c = [label |-> c.label, insts |-> c.insts, tp |-> t, pp |-> 1, dp |-> nd, dist |-> c.dist]
    BY <1>2, <1>3
  <1>5. c.insts = [k \in 1..(np + nd) |-> IF k <= np THEN Shard(J, h, t, 1, "prefill")
                                                  ELSE Shard(J, h, 1, 1, "decode")]
    BY <1>3 DEF PdConfig
  <1>6. t \in Positive
    BY DegreesArePositive
  <1>7. AsPd(J, c, h, t, np, nd)
    BY <1>2, <1>3, <1>4, <1>5, <1>6 DEF AsPd
  <1> QED
    BY <1>7

\* A combined candidate is charged for its cards.
LEMMA CombinedIsCharged ==
  ASSUME NEW J, NEW c, IsCombined(J, c)
  PROVE  IsCharged(c)
  <1>1. PICK h, t, p, dp : AsCombined(J, c, h, t, p, dp)
    BY CombinedParts
  <1>2. t \in Positive /\ p \in Positive /\ dp \in Positive /\ DOMAIN c.dist = {h} /\ c.dist[h] = dp * (t * p)
    BY <1>1 DEF AsCombined
  <1>3. PICK v \in Positive : v = t * p
    BY <1>2, Products
  <1>4. PICK i : i = c.insts
    OBVIOUS
  <1>5. DOMAIN i = 1..dp /\ \A k \in 1..dp : i[k].npus = v /\ i[k].hw = h
    BY <1>1, <1>3, <1>4 DEF AsCombined, Shard
  <1>6. On(i, h) = 1..dp
    BY <1>5 DEF On
  <1>7. PICK f : NpusOn(i, h) = SumFunctionOnSet(f, On(i, h)) /\ \A k \in On(i, h) : f[k] = i[k].npus
    BY NpusOnIs
  <1>8. v \in Int /\ dp \in Nat /\ \A k \in 1..dp : f[k] = v
    BY <1>2, <1>5, <1>6, <1>7 DEF Positive
  <1>9. SumFunctionOnSet(f, 1..dp) = dp * v
    BY <1>8, SumOfSame
  <1>10. NpusOn(i, h) = c.dist[h]
    BY <1>2, <1>3, <1>6, <1>7, <1>9
  <1>11. {i[k].hw : k \in DOMAIN i} = {h}
    <2>1. 1 \in 1..dp
      BY <1>2 DEF Positive
    <2> QED
      BY <1>5, <2>1
  <1> QED
    BY <1>2, <1>4, <1>10, <1>11 DEF IsCharged

\* A split candidate is charged for its cards.
LEMMA PdIsCharged ==
  ASSUME NEW J, NEW c, IsPd(J, c)
  PROVE  IsCharged(c)
  <1>1. PICK h, t, np, nd : AsPd(J, c, h, t, np, nd)
    BY PdParts
  <1>2. /\ t \in Nat /\ np \in Nat /\ nd \in Nat /\ 1 <= np /\ 1 \in 1..(np + nd)
        /\ t * 1 = t /\ 1 * 1 = 1 /\ nd * 1 = nd
        /\ DOMAIN c.dist = {h} /\ c.dist[h] = np * t + nd
    BY <1>1 DEF AsPd, Positive
  <1>3. PICK i : i = c.insts
    OBVIOUS
  <1>4. DOMAIN i = 1..(np + nd) /\ \A k \in 1..(np + nd) : i[k].hw = h /\ i[k].npus = IF k <= np THEN t ELSE 1
    BY <1>1, <1>2, <1>3 DEF AsPd, Shard
  <1>5. On(i, h) = 1..(np + nd)
    BY <1>4 DEF On
  <1>6. PICK f : NpusOn(i, h) = SumFunctionOnSet(f, On(i, h)) /\ \A k \in On(i, h) : f[k] = i[k].npus
    BY NpusOnIs
  <1>7. \A k \in 1..(np + nd) : f[k] = IF k <= np THEN t ELSE 1
    BY <1>4, <1>5, <1>6
  <1>8. InTwo(f, np, nd, t, 1)
    BY <1>2, <1>7 DEF InTwo
  <1>9. t \in Int /\ 1 \in Int
    BY <1>2
  <1>10. SumFunctionOnSet(f, 1..(np + nd)) = np * t + nd * 1
    BY <1>2, <1>8, <1>9, SumOfTwo
  <1>11. NpusOn(i, h) = c.dist[h]
    BY <1>2, <1>5, <1>6, <1>10
  <1>12. {i[k].hw : k \in DOMAIN i} = {h}
    BY <1>2, <1>4
  <1> QED
    BY <1>2, <1>3, <1>11, <1>12 DEF IsCharged

\* A mixed candidate is charged for the cards of each kind.
LEMMA MultiIsCharged ==
  ASSUME NEW J, NEW c, IsMulti(J, c)
  PROVE  IsCharged(c)
  <1>1. PICK n, e :
          /\ n \in Nat
          /\ Lists(e, n, DOMAIN c.dist) /\ DOMAIN c.insts = 1..n
          /\ \A k \in 1..n : c.insts[k] \in Shards(J, e[k]) /\ c.insts[k].npus = c.dist[e[k]]
    BY DEF IsMulti
  <1>2. \A k \in 1..n : c.insts[k].hw = e[k] /\ c.insts[k].npus \in Positive /\ c.insts[k].npus = c.dist[e[k]]
    BY <1>1, ShardFacts
  <1>3. DOMAIN c.dist = {c.insts[k].hw : k \in DOMAIN c.insts}
    <2>1. /\ e \in [1..n -> DOMAIN c.dist]
          /\ \A x \in DOMAIN c.dist : \E k \in 1..n : e[k] = x
      BY <1>1 DEF Lists
    <2> QED
      BY <1>1, <1>2, <2>1
  <1>4. ASSUME NEW h \in DOMAIN c.dist PROVE NpusOn(c.insts, h) = c.dist[h]
    <2>1. PICK k \in 1..n : e[k] = h
      BY <1>1 DEF Lists
    <2>2. On(c.insts, h) = {k}
      <3>1. \A j \in 1..n : e[j] = h => j = k
        BY <1>1, <2>1 DEF Lists
      <3> QED
        BY <1>1, <1>2, <2>1, <3>1 DEF On
    <2>3. PICK f : NpusOn(c.insts, h) = SumFunctionOnSet(f, On(c.insts, h))
                   /\ \A j \in On(c.insts, h) : f[j] = c.insts[j].npus
      BY NpusOnIs
    <2>4. f[k] = c.dist[h] /\ f[k] \in Int
      BY <1>2, <2>1, <2>2, <2>3 DEF Positive
    <2> QED
      BY <2>2, <2>3, <2>4, SumOfOne
  <1> QED
    BY <1>3, <1>4 DEF IsCharged

\* Every candidate is charged for the cards that its instances occupy.
LEMMA FormIsCharged ==
  ASSUME NEW J, NEW c, HasForm(J, c)
  PROVE  IsCharged(c)
  BY CombinedIsCharged, PdIsCharged, MultiIsCharged DEF HasForm

\* The shape of the instances tells the forms apart.
FirstPd(c) == c.insts[1].pd

OneKind(c) == \E h : DOMAIN c.dist = {h}

\* The role of the first instance, the number of kinds and the label tell the forms apart.
LEMMA FormsDiffer ==
  ASSUME NEW J, NEW c
  PROVE  /\ IsCombined(J, c) => FirstPd(c) = "none" /\ OneKind(c) /\ c.label[1] = "combined"
         /\ IsPd(J, c) => FirstPd(c) = "prefill" /\ OneKind(c) /\ c.label[1] = "pd"
         /\ IsMulti(J, c) => ~OneKind(c) /\ c.label[1] = "het"
  <1>1. ASSUME IsCombined(J, c) PROVE FirstPd(c) = "none" /\ OneKind(c) /\ c.label[1] = "combined"
    <2>1. PICK h, t, p, dp : AsCombined(J, c, h, t, p, dp)
      BY <1>1, CombinedParts
    <2>2. 1 \in 1..dp
      BY <2>1 DEF AsCombined, Positive
    <2>3. FirstPd(c) = "none"
      BY <2>1, <2>2 DEF AsCombined, Shard, FirstPd
    <2>4. OneKind(c) /\ c.label[1] = "combined"
      <3>1. DOMAIN c.dist = {h} /\ c.label = <<"combined", <<t, p, dp>>, c.dist>>
        BY <2>1 DEF AsCombined
      <3> QED
        BY <3>1 DEF OneKind
    <2> QED
      BY <2>3, <2>4
  <1>2. ASSUME IsPd(J, c) PROVE FirstPd(c) = "prefill" /\ OneKind(c) /\ c.label[1] = "pd"
    <2>1. PICK h, t, np, nd : AsPd(J, c, h, t, np, nd)
      BY <1>2, PdParts
    <2>2. 1 \in 1..(np + nd) /\ 1 <= np
      BY <2>1 DEF AsPd, Positive
    <2>3. FirstPd(c) = "prefill"
      BY <2>1, <2>2 DEF AsPd, Shard, FirstPd
    <2>4. OneKind(c) /\ c.label[1] = "pd"
      <3>1. DOMAIN c.dist = {h} /\ c.label = <<"pd", <<np, nd, t, 1>>, c.dist>>
        BY <2>1 DEF AsPd
      <3> QED
        BY <3>1 DEF OneKind
    <2> QED
      BY <2>3, <2>4
  <1>3. ASSUME IsMulti(J, c) PROVE ~OneKind(c) /\ c.label[1] = "het"
    <2>1. PICK n, e : n \in Nat /\ n > 1 /\ Lists(e, n, DOMAIN c.dist) /\ c.label = MultiConfig(c.insts).label
      BY <1>3 DEF IsMulti
    <2>2. c.label[1] = "het"
      BY <2>1 DEF MultiConfig
    <2>3. /\ 1 \in 1..n /\ 2 \in 1..n /\ e[1] \in DOMAIN c.dist /\ e[2] \in DOMAIN c.dist
          /\ (e[1] = e[2] => 1 = 2)
      BY <2>1 DEF Lists
    <2>4. ~OneKind(c)
      BY <2>3 DEF OneKind
    <2> QED
      BY <2>2, <2>4
  <1> QED
    BY <1>1, <1>2, <1>3

\* The instances determine the distribution.
LEMMA ChargesAgree ==
  ASSUME NEW c, IsCharged(c), IsMap(c.dist), NEW d, IsCharged(d), IsMap(d.dist), c.insts = d.insts
  PROVE  c.dist = d.dist
  <1>1. DOMAIN c.dist = DOMAIN d.dist /\ \A h \in DOMAIN c.dist : c.dist[h] = d.dist[h]
    BY DEF IsCharged
  <1> QED
    BY <1>1, MapsAgree

\* The label or the instances identify a combined candidate.
LEMMA SameCombined ==
  ASSUME NEW J, NEW c, IsCombined(J, c), NEW d, IsCombined(J, d), c.dist = d.dist,
         c.insts = d.insts \/ c.label = d.label
  PROVE  c = d
  <1>1. PICK h, t, p, dp : AsCombined(J, c, h, t, p, dp)
    BY CombinedParts
  <1>2. PICK g, u, q, dq : AsCombined(J, d, g, u, q, dq)
    BY CombinedParts
  <1>3. /\ t \in Positive /\ p \in Positive /\ dp \in Positive
        /\ u \in Positive /\ q \in Positive /\ dq \in Positive
    BY <1>1, <1>2 DEF AsCombined
  <1>4. h = g
    BY <1>1, <1>2 DEF AsCombined
  <1>5. t = u /\ p = q /\ dp = dq
    <2>1. CASE c.insts = d.insts
      <3>1. DOMAIN c.insts = 1..dp /\ DOMAIN d.insts = 1..dq
        BY <1>1, <1>2 DEF AsCombined
      <3>2. dp = dq
        <4>1. 1..dp = 1..dq /\ dp \in Nat /\ dq \in Nat /\ dp \in 1..dp /\ dq \in 1..dq
          BY <1>3, <2>1, <3>1 DEF Positive
        <4>2. dp \in 1..dq /\ dq \in 1..dp
          BY <4>1
        <4> QED
          BY <4>1, <4>2
      <3>3. 1 \in 1..dp
        BY <1>3 DEF Positive
      <3>4. c.insts[1] = Shard(J, h, t, p, "none") /\ d.insts[1] = Shard(J, g, u, q, "none")
        BY <1>1, <1>2, <3>2, <3>3 DEF AsCombined
      <3>5. Shard(J, h, t, p, "none") = Shard(J, g, u, q, "none")
        BY <2>1, <3>4
      <3>6. t * p = u * q /\ p = q
        BY <3>5 DEF Shard
      <3>7. (t * p) \div p = t /\ (u * q) \div q = u
        BY <1>3, Products
      <3> QED
        BY <3>2, <3>6, <3>7
    <2>2. CASE c.label = d.label
      BY <1>1, <1>2, <2>2 DEF AsCombined
    <2> QED
      BY <2>1, <2>2
  <1>6. c.insts = d.insts /\ c.label = d.label
    BY <1>1, <1>2, <1>4, <1>5 DEF AsCombined
  <1>7. /\ c = [label |-> c.label, insts |-> c.insts, tp |-> t, pp |-> p, dp |-> dp, dist |-> c.dist]
        /\ d = [label |-> d.label, insts |-> d.insts, tp |-> u, pp |-> q, dp |-> dq, dist |-> d.dist]
    BY <1>1, <1>2 DEF AsCombined
  <1> QED
    BY <1>5, <1>6, <1>7

\* The label or the instances identify a split candidate: the roles tell where the prefills end.
LEMMA SamePd ==
  ASSUME NEW J, NEW c, IsPd(J, c), NEW d, IsPd(J, d), c.dist = d.dist,
         c.insts = d.insts \/ c.label = d.label
  PROVE  c = d
  <1>1. PICK h, t, np, nd : AsPd(J, c, h, t, np, nd)
    BY PdParts
  <1>2. PICK g, u, nq, ne : AsPd(J, d, g, u, nq, ne)
    BY PdParts
  <1>3. /\ t \in Positive /\ np \in Positive /\ nd \in Positive
        /\ u \in Positive /\ nq \in Positive /\ ne \in Positive
    BY <1>1, <1>2 DEF AsPd
  <1>4. h = g
    BY <1>1, <1>2 DEF AsPd
  <1>5. t = u /\ np = nq /\ nd = ne
    <2>1. CASE c.insts = d.insts
      <3>1. PICK i : i = c.insts /\ i = d.insts
        BY <2>1
      <3>2. DOMAIN i = 1..(np + nd) /\ DOMAIN i = 1..(nq + ne)
        BY <1>1, <1>2, <3>1 DEF AsPd
      <3>3. np + nd = nq + ne
        <4>1. PICK m \in Nat, n \in Nat : m = np + nd /\ n = nq + ne /\ 1 <= m /\ 1 <= n
          BY <1>3 DEF Positive
        <4>2. m \in 1..m /\ n \in 1..n /\ 1..m = 1..n
          BY <3>2, <4>1
        <4>3. m \in 1..n /\ n \in 1..m
          BY <4>2
        <4> QED
          BY <4>1, <4>3
      <3>4. \A k \in 1..(np + nd) : /\ i[k].pd = IF k <= np THEN "prefill" ELSE "decode"
                                    /\ i[k].pd = IF k <= nq THEN "prefill" ELSE "decode"
        BY <1>1, <1>2, <3>1, <3>3 DEF AsPd, Shard
      <3>5. np = nq
        <4>1. np \in 1..(np + nd) /\ nq \in 1..(np + nd)
          BY <1>3, <3>3 DEF Positive
        <4>2. np <= nq
          <5>1. i[np].pd = "prefill" /\ i[np].pd = IF np <= nq THEN "prefill" ELSE "decode"
            BY <1>3, <3>4, <4>1 DEF Positive
          <5> QED
            BY <5>1
        <4>3. nq <= np
          <5>1. i[nq].pd = "prefill" /\ i[nq].pd = IF nq <= np THEN "prefill" ELSE "decode"
            BY <1>3, <3>4, <4>1 DEF Positive
          <5> QED
            BY <5>1
        <4> QED
          BY <1>3, <4>2, <4>3 DEF Positive
      <3>6. nd = ne
        BY <1>3, <3>3, <3>5 DEF Positive
      <3>7. 1 \in 1..(np + nd) /\ 1 <= np
        BY <1>3 DEF Positive
      <3>8. i[1].npus = t * 1 /\ i[1].npus = u * 1
        BY <1>1, <1>2, <3>1, <3>5, <3>6, <3>7 DEF AsPd, Shard
      <3>9. t = u
        BY <1>3, <3>8 DEF Positive
      <3> QED
        BY <3>5, <3>6, <3>9
    <2>2. CASE c.label = d.label
      BY <1>1, <1>2, <2>2 DEF AsPd
    <2> QED
      BY <2>1, <2>2
  <1>6. c.insts = d.insts /\ c.label = d.label
    BY <1>1, <1>2, <1>4, <1>5 DEF AsPd
  <1>7. /\ c = [label |-> c.label, insts |-> c.insts, tp |-> t, pp |-> 1, dp |-> nd, dist |-> c.dist]
        /\ d = [label |-> d.label, insts |-> d.insts, tp |-> u, pp |-> 1, dp |-> ne, dist |-> d.dist]
    BY <1>1, <1>2 DEF AsPd
  <1> QED
    BY <1>5, <1>6, <1>7

\* A mixed candidate, by its instances.
AsMulti(J, c, n, e) ==
  /\ n \in Nat /\ DOMAIN c.insts = 1..n /\ IsList(c.insts, n)
  /\ \A k \in 1..n : c.insts[k] \in Shards(J, e[k])
  /\ c.label = <<"het", MultiLabel(c.insts)>>
  /\ c = [label |-> c.label, insts |-> c.insts, tp |-> MultiConfig(c.insts).tp,
          pp |-> MultiConfig(c.insts).pp, dp |-> MultiConfig(c.insts).dp, dist |-> c.dist]

\* Every mixed candidate is of this kind.
LEMMA MultiParts ==
  ASSUME NEW J, NEW c, IsMulti(J, c)
  PROVE  \E n, e : AsMulti(J, c, n, e)
  <1>1. PICK n, e :
          /\ n \in Nat
          /\ DOMAIN c.insts = 1..n /\ IsList(c.insts, n)
          /\ \A k \in 1..n : c.insts[k] \in Shards(J, e[k])
          /\ c = [label |-> MultiConfig(c.insts).label, insts |-> c.insts, tp |-> MultiConfig(c.insts).tp,
                  pp |-> MultiConfig(c.insts).pp, dp |-> MultiConfig(c.insts).dp, dist |-> c.dist]
    BY DEF IsMulti
  <1>2. c.label = MultiConfig(c.insts).label
    BY <1>1
  <1>3. c.label = <<"het", MultiLabel(c.insts)>>
    BY <1>2 DEF MultiConfig
  <1>4. AsMulti(J, c, n, e)
    BY <1>1, <1>2, <1>3 DEF AsMulti
  <1> QED
    BY <1>4

\* The label of a mixed candidate identifies its instances, and these the candidate.
LEMMA SameMulti ==
  ASSUME NEW J, NEW c, IsMulti(J, c), NEW d, IsMulti(J, d)
  PROVE  /\ c.label = d.label => c.insts = d.insts
         /\ c.insts = d.insts /\ c.dist = d.dist => c = d
  <1>1. PICK n, e : AsMulti(J, c, n, e)
    BY MultiParts
  <1>2. PICK m, o : AsMulti(J, d, m, o)
    BY MultiParts
  <1>3. ASSUME c.label = d.label PROVE c.insts = d.insts
    <2>1. PICK i, j : i = c.insts /\ j = d.insts
      OBVIOUS
    <2>2. MultiLabel(i) = MultiLabel(j)
      BY <1>1, <1>2, <1>3, <2>1 DEF AsMulti
    <2>3. DOMAIN MultiLabel(i) = 1..n /\ DOMAIN MultiLabel(j) = 1..m
      BY <1>1, <1>2, <2>1 DEF AsMulti, MultiLabel
    <2>4. 1..n = 1..m
      BY <2>2, <2>3
    <2>5. ASSUME NEW k \in 1..n PROVE i[k] = j[k]
      <3>1. MultiLabel(i)[k] = <<i[k].pd, TpOf(i[k]), i[k].group, i[k].hw>>
        BY <1>1, <2>1 DEF AsMulti, MultiLabel
      <3>2. MultiLabel(j)[k] = <<j[k].pd, TpOf(j[k]), j[k].group, j[k].hw>>
        BY <1>2, <2>1, <2>4 DEF AsMulti, MultiLabel
      <3>3. PICK x, y : x = i[k] /\ y = j[k]
        OBVIOUS
      <3>4. x.pd = y.pd /\ TpOf(x) = TpOf(y) /\ x.group = y.group /\ x.hw = y.hw
        BY <2>2, <3>1, <3>2, <3>3
      <3>5. x \in Shards(J, e[k]) /\ y \in Shards(J, o[k])
        BY <1>1, <1>2, <2>1, <2>4, <3>3 DEF AsMulti
      <3>6. x.hw = e[k] /\ x = Shard(J, e[k], TpOf(x), x.group, x.pd)
        BY <3>5, ShardFacts
      <3>7. y.hw = o[k] /\ y = Shard(J, o[k], TpOf(y), y.group, y.pd)
        BY <3>5, ShardFacts
      <3>8. x = y
        BY <3>4, <3>6, <3>7
      <3> QED
        BY <3>3, <3>8
    <2>6. i = [k \in 1..n |-> i[k]] /\ j = [k \in 1..n |-> j[k]]
      BY <1>1, <1>2, <2>1, <2>4 DEF AsMulti, IsList
    <2>7. [k \in 1..n |-> i[k]] = [k \in 1..n |-> j[k]]
      BY <2>5
    <2> QED
      BY <2>1, <2>6, <2>7
  <1>4. ASSUME c.insts = d.insts, c.dist = d.dist PROVE c = d
    <2>1. c.label = d.label
      BY <1>1, <1>2, <1>4 DEF AsMulti
    <2>2. PICK i, l, s : i = c.insts /\ l = c.label /\ s = c.dist
      OBVIOUS
    <2>3. c = [label |-> l, insts |-> i, tp |-> MultiConfig(i).tp,
               pp |-> MultiConfig(i).pp, dp |-> MultiConfig(i).dp, dist |-> s]
      BY <1>1, <2>2 DEF AsMulti
    <2>4. d = [label |-> l, insts |-> i, tp |-> MultiConfig(i).tp,
               pp |-> MultiConfig(i).pp, dp |-> MultiConfig(i).dp, dist |-> s]
      BY <1>2, <1>4, <2>1, <2>2 DEF AsMulti
    <2> QED
      BY <2>3, <2>4
  <1> QED
    BY <1>3, <1>4

\* The label or the instances identify a candidate, whatever its form.
LEMMA NamesIdentify ==
  ASSUME NEW J, NEW c, HasForm(J, c), IsMap(c.dist), NEW d, HasForm(J, d), IsMap(d.dist),
         c.label = d.label \/ c.insts = d.insts
  PROVE  c = d
  <1>1. IsCharged(c) /\ IsCharged(d)
    BY FormIsCharged
  <1>2. c.insts = d.insts => c.dist = d.dist
    BY <1>1, ChargesAgree
  <1>3. c.insts = d.insts => FirstPd(c) = FirstPd(d) /\ (OneKind(c) <=> OneKind(d))
    BY <1>2 DEF FirstPd, OneKind
  <1>4. CASE IsCombined(J, c)
    <2>1. IsCombined(J, d)
      <3>1. FirstPd(c) = "none" /\ OneKind(c) /\ c.label[1] = "combined"
        BY <1>4, FormsDiffer
      <3>2. ~IsPd(J, d) /\ ~IsMulti(J, d)
        BY <1>3, <3>1, FormsDiffer
      <3> QED
        BY <3>2 DEF HasForm
    <2>2. c.dist = d.dist
      <3>1. CASE c.label = d.label
        <4>1. PICK h, t, p, dp : AsCombined(J, c, h, t, p, dp)
          BY <1>4, CombinedParts
        <4>2. PICK g, u, q, dq : AsCombined(J, d, g, u, q, dq)
          BY <2>1, CombinedParts
        <4> QED
          BY <3>1, <4>1, <4>2 DEF AsCombined
      <3> QED
        BY <1>2, <3>1
    <2> QED
      BY <1>4, <2>1, <2>2, SameCombined
  <1>5. CASE IsPd(J, c)
    <2>1. IsPd(J, d)
      <3>1. FirstPd(c) = "prefill" /\ OneKind(c) /\ c.label[1] = "pd"
        BY <1>5, FormsDiffer
      <3>2. ~IsCombined(J, d) /\ ~IsMulti(J, d)
        BY <1>3, <3>1, FormsDiffer
      <3> QED
        BY <3>2 DEF HasForm
    <2>2. c.dist = d.dist
      <3>1. CASE c.label = d.label
        <4>1. PICK h, t, np, nd : AsPd(J, c, h, t, np, nd)
          BY <1>5, PdParts
        <4>2. PICK g, u, nq, ne : AsPd(J, d, g, u, nq, ne)
          BY <2>1, PdParts
        <4> QED
          BY <3>1, <4>1, <4>2 DEF AsPd
      <3> QED
        BY <1>2, <3>1
    <2> QED
      BY <1>5, <2>1, <2>2, SamePd
  <1>6. CASE IsMulti(J, c)
    <2>1. IsMulti(J, d)
      <3>1. ~OneKind(c) /\ c.label[1] = "het"
        BY <1>6, FormsDiffer
      <3>2. ~IsCombined(J, d) /\ ~IsPd(J, d)
        BY <1>3, <3>1, FormsDiffer
      <3> QED
        BY <3>2 DEF HasForm
    <2>2. c.insts = d.insts
      BY <1>6, <2>1, SameMulti
    <2> QED
      BY <1>2, <1>6, <2>1, <2>2, SameMulti
  <1> QED
    BY <1>4, <1>5, <1>6 DEF HasForm

\* CandidatesAreDistinct for every job: status.json has one key per candidate and a candidate one
\* key, its NPUs are those that it is charged for, and a retry simulates nothing again.
THEOREM NamesAreUnique == Spec => []CandidatesAreDistinct
  <1>1. ASSUME JobInv, NEW c \in tried, NEW d \in tried, c.label = d.label \/ c.insts = d.insts
        PROVE  c = d
    <2>1. HasForm(job, c) /\ HasForm(job, d)
      BY <1>1, TriedHaveForm
    <2>2. IsMap(c.dist) /\ IsMap(d.dist)
      <3>1. \A counts : IsMap(Dist(counts))
        BY DEF IsMap, Dist
      <3> QED
        BY <1>1, <3>1, TriedHaveForm
    <2> QED
      BY <1>1, <2>1, <2>2, NamesIdentify
  <1>2. ASSUME JobInv, NEW c \in tried, NEW h \in DOMAIN job.hw
        PROVE  Total({k \in DOMAIN c.insts : c.insts[k].hw = h}, LAMBDA k : c.insts[k].npus)
                 = IF h \in DOMAIN c.dist THEN c.dist[h] ELSE 0
    <2>1. IsCharged(c)
      BY <1>2, TriedHaveForm, FormIsCharged
    <2>2. CASE h \in DOMAIN c.dist
      <3>1. NpusOn(c.insts, h) = c.dist[h]
        BY <2>1, <2>2 DEF IsCharged
      <3> QED
        BY <2>2, <3>1 DEF NpusOn, On
    <2>3. CASE h \notin DOMAIN c.dist
      <3>1. On(c.insts, h) = {}
        BY <2>1, <2>3 DEF IsCharged, On
      <3>2. PICK f : NpusOn(c.insts, h) = SumFunctionOnSet(f, On(c.insts, h))
        BY NpusOnIs
      <3>3. NpusOn(c.insts, h) = 0
        BY <3>1, <3>2, SumOfEmpty
      <3> QED
        BY <2>3, <3>3 DEF NpusOn, On
    <2> QED
      BY <2>2, <2>3
  <1>3. JobInv => CandidatesAreDistinct
    <2> SUFFICES ASSUME JobInv PROVE CandidatesAreDistinct
      OBVIOUS
    <2>1. phase = "run" => Labels(batch) \cap DOMAIN status = {}
      BY DEF JobInv, RoundInv
    <2> QED
      BY <1>1, <1>2, <2>1 DEF CandidatesAreDistinct
  <1> QED
    BY <1>3, JobInvariant, PTL

-------------------------------------------------------------------------------
(* Scores *)

\* Scale, by the equation of its fold.
IsScale(g, f, S) ==
  g = [s \in SUBSET S |-> IF s = {} THEN 1 ELSE f[Taken(s)] * g[s \ {Taken(s)}]]

\* It is the value of this fold.
LEMMA ScaleIs ==
  ASSUME NEW f, NEW S
  PROVE  Scale(f, S) = (CHOOSE g : IsScale(g, f, S))[S]
  BY DEF Scale, FoldFunctionOnSet, MapThenFoldSet, Taken, IsScale

\* The product of positive values is positive.
LEMMA ScaleIsPositive ==
  ASSUME NEW f, NEW S, IsFiniteSet(S), \A x \in S : f[x] \in Positive
  PROVE  Scale(f, S) \in Positive
  <1> DEFINE pick == [s \in SUBSET S |-> Taken(s)]
             step == [p \in S \X Positive |-> f[p[1]] * p[2]]
  <1>1. \A s \in SUBSET S : s # {} => pick[s] \in s /\ pick[s] = Taken(s)
    BY DEF Taken
  <1>2. \A x \in S, v \in Positive : step[<<x, v>>] \in Positive /\ step[<<x, v>>] = f[x] * v
    BY Products
  <1>3. 1 \in Positive
    BY DEF Positive
  <1> HIDE DEF pick, step
  <1>4. PICK g : IsFold(g, pick, step, 1, S)
    BY <1>1, FoldExists
  <1>5. g \in [SUBSET S -> Positive]
    BY <1>1, <1>2, <1>3, <1>4, FoldType
  <1>6. ASSUME NEW s \in SUBSET S
        PROVE  g[s] = IF s = {} THEN 1 ELSE f[Taken(s)] * g[s \ {Taken(s)}]
    <2>1. g[s] = FoldStep(g, pick, step, 1, s)
      BY <1>4 DEF IsFold
    <2>2. CASE s = {}
      BY <2>1, <2>2 DEF FoldStep
    <2>3. CASE s # {}
      <3>1. pick[s] \in S /\ pick[s] = Taken(s) /\ s \ {pick[s]} \in SUBSET S
        BY <1>1, <2>3
      <3>2. g[s \ {pick[s]}] \in Positive
        BY <1>5, <3>1
      <3>3. step[<<pick[s], g[s \ {pick[s]}]>>] = f[pick[s]] * g[s \ {pick[s]}]
        BY <1>2, <3>1, <3>2
      <3> QED
        BY <2>1, <2>3, <3>1, <3>3 DEF FoldStep
    <2> QED
      BY <2>2, <2>3
  <1>7. IsScale(g, f, S)
    BY <1>5, <1>6 DEF IsScale
  <1>8. PICK h : h = (CHOOSE z : IsScale(z, f, S)) /\ IsScale(h, f, S)
    BY <1>7
  <1>9. \A s \in SUBSET S : h[s] = IF s = {} THEN 1 ELSE f[Taken(s)] * h[s \ {Taken(s)}]
    BY <1>8 DEF IsScale
  <1> DEFINE Good == {s \in SUBSET S : h[s] \in Positive}
             Bad == {s \in SUBSET S : h[s] \notin Positive}
  <1>10. Bad = {}
    <2> SUFFICES ASSUME Bad # {} PROVE FALSE
      OBVIOUS
    <2>1. PICK U \in Bad : \A V \in Bad : V \subseteq U => V = U
      <3>1. Bad \in SUBSET SUBSET S
        OBVIOUS
      <3> HIDE DEF Bad
      <3> QED
        BY <3>1, SmallestSubset
    <2>2. CASE U = {}
      BY <1>3, <1>9, <2>2
    <2>3. CASE U # {}
      <3>1. Taken(U) \in U /\ U \ {Taken(U)} \in SUBSET S /\ U \ {Taken(U)} # U /\ U \ {Taken(U)} \subseteq U
        BY <2>3 DEF Taken
      <3>2. h[U \ {Taken(U)}] \in Positive
        BY <2>1, <3>1
      <3>3. f[Taken(U)] \in Positive
        BY <3>1
      <3>4. h[U] \in Positive
        BY <1>9, <2>3, <3>2, <3>3, Products
      <3> QED
        BY <3>4
    <2> QED
      BY <2>2, <2>3
  <1>11. h[S] \in Positive
    BY <1>10
  <1> QED
    BY <1>8, <1>11, ScaleIs

\* The objectives that spread the results, the points of a result, and their sum of Whole.
SpreadOf(R, E) == Spread(Extents(R, E))

PointsOf(R, E, w, l) == Points(R, E, w, Extents(R, E), l)

Weighted(R, E, w, l) == SumFunctionOnSet(PointsOf(R, E, w, l), Scored(R, E))

Whole(R, E, w) == SumFunctionOnSet(w, Objectives) * Scale(Extents(R, E), SpreadOf(R, E))

Score(R, E, w, l) == Scores(R, E, w)[l]

\* They are these.
LEMMA PartsAre ==
  ASSUME NEW R, NEW E
  PROVE  /\ DOMAIN Extents(R, E) = Scored(R, E)
         /\ SpreadOf(R, E) = {o \in Scored(R, E) : Extents(R, E)[o] # 0}
         /\ \A w, l : PointsOf(R, E, w, l) =
                  [o \in Scored(R, E) |->
                     w[o] * (IF o \in SpreadOf(R, E)
                             THEN Gain(R, E, l, o) * Scale(Extents(R, E), SpreadOf(R, E) \ {o})
                             ELSE Scale(Extents(R, E), SpreadOf(R, E)))]
  <1>1. DOMAIN Extents(R, E) = Scored(R, E)
    BY DEF Extents
  <1> QED
    BY <1>1 DEF SpreadOf, Spread, PointsOf, Points

\* A score is the rounded part of the whole.
LEMMA ScoreIs ==
  ASSUME NEW R, NEW E, NEW w, NEW l \in E
  PROVE  Score(R, E, w, l) = Rounded(10000 * Weighted(R, E, w, l), Whole(R, E, w))
  <1>1. DOMAIN PointsOf(R, E, w, l) = Scored(R, E)
    BY PartsAre
  <1>2. SumFunction(Points(R, E, w, Extents(R, E), l)) = Weighted(R, E, w, l)
    BY <1>1 DEF SumFunction, Weighted, PointsOf
  <1> QED
    BY <1>2 DEF Score, Scores, Whole, SpreadOf

\* Finitely many eligible results with numbers for metrics, and weights.
Rankable(R, E, w) ==
  /\ IsFiniteSet(E)
  /\ \A l \in E : \A o \in DOMAIN R[l].metrics : R[l].metrics[o] \in Int
  /\ (\A o \in Objectives : w[o] \in Nat) /\ (\E o \in Objectives : w[o] > 0)

\* The values of an objective, greater is better.
Senses(R, E, o) == {Sense(o, R[m].metrics[o]) : m \in E}

\* The worst value of an objective is no better than any.
LEMMA SensesHaveMin ==
  ASSUME NEW R, NEW E, NEW w, Rankable(R, E, w), NEW o \in Scored(R, E), NEW l \in E
  PROVE  /\ Sense(o, R[l].metrics[o]) \in Int /\ Min(Senses(R, E, o)) \in Int
         /\ Min(Senses(R, E, o)) <= Sense(o, R[l].metrics[o])
  <1>1. \A m \in E : Sense(o, R[m].metrics[o]) \in Int
    BY DEF Rankable, Scored, Sense
  <1>2. PICK f : \A m \in E : f[m] = Sense(o, R[m].metrics[o])
    <2> WITNESS [m \in E |-> Sense(o, R[m].metrics[o])]
    <2> QED
      OBVIOUS
  <1>3. PICK T : T = {f[m] : m \in E}
    OBVIOUS
  <1>4. T = Senses(R, E, o)
    BY <1>2, <1>3 DEF Senses
  <1>5. IsFiniteSet(T)
    BY <1>3, ImageIsFinite DEF Rankable
  <1>6. T \in SUBSET Int /\ T # {}
    BY <1>1, <1>2, <1>3
  <1>7. \E m \in T : \A y \in T : m <= y
    BY <1>5, <1>6, FiniteSetHasMin
  <1>8. Min(T) \in T /\ \A y \in T : Min(T) <= y
    BY <1>7 DEF Min
  <1>9. Sense(o, R[l].metrics[o]) \in T
    BY <1>2, <1>3
  <1> QED
    BY <1>1, <1>4, <1>6, <1>8, <1>9

\* What a result gains over the worst is not negative.
LEMMA GainType ==
  ASSUME NEW R, NEW E, NEW w, Rankable(R, E, w), NEW o \in Scored(R, E), NEW l \in E
  PROVE  /\ Gain(R, E, l, o) \in Nat
         /\ Gain(R, E, l, o) = Sense(o, R[l].metrics[o]) - Min(Senses(R, E, o))
  <1>1. Gain(R, E, l, o) = Sense(o, R[l].metrics[o]) - Min(Senses(R, E, o))
    BY DEF Gain, Senses
  <1> QED
    BY <1>1, SensesHaveMin

\* Values of an objective differ by no more than its extent.
LEMMA ExtentType ==
  ASSUME NEW R, NEW E, NEW w, Rankable(R, E, w), NEW o \in Scored(R, E), NEW l \in E
  PROVE  /\ Extent(R, E, o) \in Nat
         /\ \A m \in E : R[m].metrics[o] - R[l].metrics[o] <= Extent(R, E, o)
  <1>1. \A m \in E : R[m].metrics[o] \in Int
    BY DEF Rankable, Scored
  <1>2. PICK f : \A m \in E : f[m] = R[m].metrics[o]
    <2> WITNESS [m \in E |-> R[m].metrics[o]]
    <2> QED
      OBVIOUS
  <1>3. PICK T : T = {f[m] : m \in E}
    OBVIOUS
  <1>4. T = {R[m].metrics[o] : m \in E}
    BY <1>2, <1>3
  <1>5. IsFiniteSet(T)
    BY <1>3, ImageIsFinite DEF Rankable
  <1>6. T \in SUBSET Int /\ T # {}
    BY <1>1, <1>2, <1>3
  <1>7. \E m \in T : \A y \in T : m <= y
    BY <1>5, <1>6, FiniteSetHasMin
  <1>8. \E m \in T : \A y \in T : y <= m
    BY <1>5, <1>6, FiniteSetHasMax
  <1>9. Min(T) \in T /\ \A y \in T : Min(T) <= y
    BY <1>7 DEF Min
  <1>10. Max(T) \in T /\ \A y \in T : y <= Max(T)
    <2>1. \E m \in T : \A y \in T : m >= y
      BY <1>6, <1>8
    <2>2. Max(T) \in T /\ \A y \in T : Max(T) >= y
      BY <2>1 DEF Max
    <2> QED
      BY <1>6, <2>2
  <1>11. Extent(R, E, o) = Max(T) - Min(T)
    BY <1>4 DEF Extent
  <1>12. Max(T) \in Int /\ Min(T) \in Int /\ Min(T) <= Max(T)
    BY <1>6, <1>9, <1>10
  <1>13. ASSUME NEW m \in E PROVE R[m].metrics[o] - R[l].metrics[o] <= Extent(R, E, o)
    <2>1. R[m].metrics[o] \in T /\ R[l].metrics[o] \in T
      BY <1>2, <1>3
    <2> QED
      BY <1>1, <1>9, <1>10, <1>11, <1>12, <2>1
  <1> QED
    BY <1>11, <1>12, <1>13

\* There are five objectives.
LEMMA ScoredAreFinite ==
  ASSUME NEW R, NEW E
  PROVE  IsFiniteSet(Objectives) /\ IsFiniteSet(Scored(R, E)) /\ IsFiniteSet(SpreadOf(R, E))
  <1>1. IsFiniteSet(Objectives)
    <2>1. Objectives = (((({} \cup {"ttft"}) \cup {"tpot"}) \cup {"thr"}) \cup {"energy"}) \cup {"tokwh"}
      BY DEF Objectives
    <2> QED
      BY <2>1, FS_EmptySet, FS_AddElement
  <1>2. Scored(R, E) \in SUBSET Objectives /\ SpreadOf(R, E) \in SUBSET Scored(R, E)
    <2>1. Scored(R, E) \in SUBSET Objectives
      BY DEF Scored
    <2>2. SpreadOf(R, E) = {o \in Scored(R, E) : Extents(R, E)[o] # 0}
      BY PartsAre
    <2> QED
      BY <2>1, <2>2
  <1>3. IsFiniteSet(Scored(R, E))
    BY <1>1, <1>2, FS_Subset
  <1> QED
    BY <1>1, <1>2, <1>3, FS_Subset

\* The extents of the objectives that spread multiply to a positive number.
LEMMA ScalesArePositive ==
  ASSUME NEW R, NEW E, NEW w, Rankable(R, E, w), E # {}
  PROVE  /\ Scale(Extents(R, E), SpreadOf(R, E)) \in Positive
         /\ \A o : Scale(Extents(R, E), SpreadOf(R, E) \ {o}) \in Positive
  <1>1. ASSUME NEW o \in SpreadOf(R, E) PROVE Extents(R, E)[o] \in Positive
    <2>1. o \in Scored(R, E) /\ Extents(R, E)[o] # 0 /\ Extents(R, E)[o] = Extent(R, E, o)
      BY PartsAre DEF Extents
    <2>2. PICK l \in E : TRUE
      OBVIOUS
    <2>3. Extent(R, E, o) \in Nat
      BY <2>1, <2>2, ExtentType
    <2> QED
      BY <2>1, <2>3 DEF Positive
  <1>2. ASSUME NEW S \in SUBSET SpreadOf(R, E) PROVE Scale(Extents(R, E), S) \in Positive
    <2>1. IsFiniteSet(S)
      BY ScoredAreFinite, FS_Subset
    <2>2. \A x \in S : Extents(R, E)[x] \in Positive
      BY <1>1
    <2> QED
      BY <2>1, <2>2, ScaleIsPositive
  <1> QED
    BY <1>2

\* Points are integers.
LEMMA PointsType ==
  ASSUME NEW R, NEW E, NEW w, Rankable(R, E, w), NEW l \in E, NEW o \in Scored(R, E)
  PROVE  PointsOf(R, E, w, l)[o] \in Int
  <1>1. w[o] \in Nat
    BY DEF Rankable, Scored
  <1>2. PICK a \in Nat, b \in Nat, c \in Nat :
          /\ a = Gain(R, E, l, o)
          /\ b = Scale(Extents(R, E), SpreadOf(R, E) \ {o})
          /\ c = Scale(Extents(R, E), SpreadOf(R, E))
    BY GainType, ScalesArePositive DEF Positive
  <1>3. PointsOf(R, E, w, l)[o] = w[o] * (IF o \in SpreadOf(R, E) THEN a * b ELSE c)
    BY <1>2, PartsAre
  <1>4. a * b \in Nat
    OBVIOUS
  <1> QED
    BY <1>1, <1>3, <1>4

\* So is their sum.
LEMMA WeightedType ==
  ASSUME NEW R, NEW E, NEW w, Rankable(R, E, w), NEW l \in E
  PROVE  Weighted(R, E, w, l) \in Int
  <1>1. IsFiniteSet(Scored(R, E)) /\ \A o \in Scored(R, E) : PointsOf(R, E, w, l)[o] \in Int
    BY ScoredAreFinite, PointsType
  <1> QED
    BY <1>1, SumIsInt DEF Weighted

\* The whole is positive.
LEMMA WholeType ==
  ASSUME NEW R, NEW E, NEW w, Rankable(R, E, w), NEW l \in E
  PROVE  Whole(R, E, w) \in Positive
  <1>1. SumFunctionOnSet(w, Objectives) \in Positive
    <2>1. IsFiniteSet(Objectives) /\ \A o \in Objectives : w[o] \in Nat
      BY ScoredAreFinite DEF Rankable
    <2>2. PICK o \in Objectives : w[o] > 0
      BY DEF Rankable
    <2>3. SumFunctionOnSet(w, Objectives) \in Nat
      BY <2>1, SumIsNat
    <2>4. w[o] <= SumFunctionOnSet(w, Objectives)
      BY <2>1, SumHasAtLeast
    <2> QED
      BY <2>1, <2>2, <2>3, <2>4 DEF Positive
  <1>2. Scale(Extents(R, E), SpreadOf(R, E)) \in Positive
    BY ScalesArePositive
  <1> QED
    BY <1>1, <1>2, Products DEF Whole

\* Rounding is monotone.
LEMMA RoundedGrows ==
  ASSUME NEW a \in Int, NEW b \in Int, a <= b, NEW d \in Positive
  PROVE  Rounded(a, d) \in Int /\ Rounded(b, d) \in Int /\ Rounded(a, d) <= Rounded(b, d)
  <1>1. PICK p \in Int, q \in Int, x \in 0..(d - 1), y \in 0..(d - 1) :
          /\ p = a \div d /\ q = b \div d /\ x = a % d /\ y = b % d
          /\ a = d * p + x /\ b = d * q + y
    BY DEF Positive
  <1>2. p <= q
    <2> SUFFICES ASSUME q + 1 <= p PROVE FALSE
      OBVIOUS
    <2>1. d * (q + 1) <= d * p
      BY DEF Positive
    <2>2. d * (q + 1) = d * q + d
      BY DEF Positive
    <2>3. d * q \in Int /\ d * p \in Int
      BY DEF Positive
    <2> QED
      BY <1>1, <2>1, <2>2, <2>3 DEF Positive
  <1>3. p = q => x <= y
    BY <1>1 DEF Positive
  <1>4. /\ Rounded(a, d) = IF 2 * x < d \/ (2 * x = d /\ p % 2 = 0) THEN p ELSE p + 1
        /\ Rounded(b, d) = IF 2 * y < d \/ (2 * y = d /\ q % 2 = 0) THEN q ELSE q + 1
    BY <1>1 DEF Rounded
  <1>5. CASE p = q
    BY <1>3, <1>4, <1>5 DEF Positive
  <1>6. CASE p # q
    BY <1>2, <1>4, <1>6
  <1> QED
    BY <1>5, <1>6

\* A score is an integer, and no less for a greater sum.
LEMMA ScoresFollow ==
  ASSUME NEW R, NEW E, NEW w, Rankable(R, E, w), NEW l \in E, NEW m \in E,
         Weighted(R, E, w, l) <= Weighted(R, E, w, m)
  PROVE  /\ Score(R, E, w, l) \in Int /\ Score(R, E, w, m) \in Int
         /\ Score(R, E, w, l) <= Score(R, E, w, m)
  <1>1. PICK a \in Int, b \in Int, d \in Positive :
          a = Weighted(R, E, w, l) /\ b = Weighted(R, E, w, m) /\ d = Whole(R, E, w)
    BY WeightedType, WholeType
  <1>2. 10000 * a \in Int /\ 10000 * b \in Int /\ 10000 * a <= 10000 * b
    BY <1>1
  <1>3. /\ Rounded(10000 * a, d) \in Int /\ Rounded(10000 * b, d) \in Int
        /\ Rounded(10000 * a, d) <= Rounded(10000 * b, d)
    BY <1>2, RoundedGrows
  <1> QED
    BY <1>1, <1>3, ScoreIs

\* In particular it is an integer.
LEMMA ScoreType ==
  ASSUME NEW R, NEW E, NEW w, Rankable(R, E, w), NEW l \in E
  PROVE  Score(R, E, w, l) \in Int
  <1>1. Weighted(R, E, w, l) <= Weighted(R, E, w, l)
    BY WeightedType
  <1> QED
    BY <1>1, ScoresFollow

\* Only the objectives of the frontier have weights.
FrontierOnly(w) ==
  /\ \A o \in Objectives \ ParetoKeys : w[o] = 0
  /\ \A o \in ParetoKeys : w[o] > 0

\* m is as good as l in every objective of the frontier, and better in one.
Dominated(R, l, m) ==
  /\ \A o \in ParetoKeys : Sense(o, R[m].metrics[o]) >= Sense(o, R[l].metrics[o])
  /\ \E o \in ParetoKeys : Sense(o, R[m].metrics[o]) > Sense(o, R[l].metrics[o])

\* Then the sum of l is less (compute_scores against pareto_frontier), before the rounding.
LEMMA DominatedHasLess ==
  ASSUME NEW R, NEW E, NEW w, Rankable(R, E, w), FrontierOnly(w), Scored(R, E) = Objectives,
         NEW l \in E, NEW m \in E, Dominated(R, l, m)
  PROVE  Weighted(R, E, w, l) < Weighted(R, E, w, m)
  <1>1. ParetoKeys \subseteq Objectives
    BY DEF ParetoKeys, Objectives
  <1>2. ASSUME NEW o \in Objectives
        PROVE  /\ PointsOf(R, E, w, l)[o] \in Int /\ PointsOf(R, E, w, m)[o] \in Int
               /\ PointsOf(R, E, w, l)[o] <= PointsOf(R, E, w, m)[o]
    <2>1. PointsOf(R, E, w, l)[o] \in Int /\ PointsOf(R, E, w, m)[o] \in Int
      BY PointsType
    <2>2. w[o] \in Nat
      BY DEF Rankable
    <2>3. PICK a \in Nat, b \in Nat, s \in Nat, c \in Nat :
            /\ a = Gain(R, E, l, o) /\ b = Gain(R, E, m, o)
            /\ s = Scale(Extents(R, E), SpreadOf(R, E) \ {o})
            /\ c = Scale(Extents(R, E), SpreadOf(R, E))
      BY GainType, ScalesArePositive DEF Positive
    <2>4. /\ PointsOf(R, E, w, l)[o] = w[o] * (IF o \in SpreadOf(R, E) THEN a * s ELSE c)
          /\ PointsOf(R, E, w, m)[o] = w[o] * (IF o \in SpreadOf(R, E) THEN b * s ELSE c)
      BY <2>3, PartsAre
    <2>5. CASE o \in ParetoKeys
      <3>1. a <= b
        <4>1. Sense(o, R[m].metrics[o]) >= Sense(o, R[l].metrics[o])
          BY <2>5 DEF Dominated
        <4>2. /\ Sense(o, R[l].metrics[o]) \in Int /\ Sense(o, R[m].metrics[o]) \in Int
              /\ Min(Senses(R, E, o)) \in Int
          BY SensesHaveMin
        <4>3. /\ a = Sense(o, R[l].metrics[o]) - Min(Senses(R, E, o))
              /\ b = Sense(o, R[m].metrics[o]) - Min(Senses(R, E, o))
          BY <2>3, GainType
        <4> QED
          BY <4>1, <4>2, <4>3
      <3>2. w[o] * (a * s) <= w[o] * (b * s)
        BY <2>2, <3>1, ProductsStrict
      <3>3. w[o] * c <= w[o] * c
        BY <2>2
      <3> QED
        BY <2>1, <2>4, <3>2, <3>3
    <2>6. CASE o \notin ParetoKeys
      <3>1. w[o] = 0
        BY <2>6 DEF FrontierOnly
      <3>2. PICK x \in Nat, y \in Nat : /\ x = IF o \in SpreadOf(R, E) THEN a * s ELSE c
                                        /\ y = IF o \in SpreadOf(R, E) THEN b * s ELSE c
        OBVIOUS
      <3>3. 0 * x = 0 /\ 0 * y = 0
        OBVIOUS
      <3> QED
        BY <2>4, <3>1, <3>2, <3>3
    <2> QED
      BY <2>1, <2>5, <2>6
  <1>3. PICK o \in ParetoKeys : Sense(o, R[m].metrics[o]) > Sense(o, R[l].metrics[o])
    BY DEF Dominated
  <1>4. PointsOf(R, E, w, l)[o] < PointsOf(R, E, w, m)[o]
    <2>1. o \in Scored(R, E) /\ w[o] \in Nat /\ w[o] > 0
      BY <1>1, <1>3 DEF Rankable, FrontierOnly
    <2>2. PICK a \in Nat, b \in Nat, s \in Nat :
            /\ a = Gain(R, E, l, o) /\ b = Gain(R, E, m, o)
            /\ s = Scale(Extents(R, E), SpreadOf(R, E) \ {o}) /\ s > 0
      <3>1. Gain(R, E, l, o) \in Nat /\ Gain(R, E, m, o) \in Nat
        BY <2>1, GainType
      <3>2. Scale(Extents(R, E), SpreadOf(R, E) \ {o}) \in Positive
        BY ScalesArePositive
      <3> QED
        BY <3>1, <3>2 DEF Positive
    <2>3. a < b
      <3>1. /\ Sense(o, R[l].metrics[o]) \in Int /\ Sense(o, R[m].metrics[o]) \in Int
            /\ Min(Senses(R, E, o)) \in Int
        BY <2>1, SensesHaveMin
      <3>2. /\ a = Sense(o, R[l].metrics[o]) - Min(Senses(R, E, o))
            /\ b = Sense(o, R[m].metrics[o]) - Min(Senses(R, E, o))
        BY <2>1, <2>2, GainType
      <3> QED
        BY <1>3, <3>1, <3>2
    <2>4. o \in SpreadOf(R, E)
      <3>1. R[l].metrics[o] \in Int /\ R[m].metrics[o] \in Int
        BY <2>1 DEF Rankable, Scored
      <3>2. R[l].metrics[o] < R[m].metrics[o] \/ R[m].metrics[o] < R[l].metrics[o]
        BY <1>3, <3>1 DEF Sense
      <3>3. Extent(R, E, o) \in Nat
        BY <2>1, ExtentType
      <3>4. R[m].metrics[o] - R[l].metrics[o] <= Extent(R, E, o)
        BY <2>1, ExtentType
      <3>5. R[l].metrics[o] - R[m].metrics[o] <= Extent(R, E, o)
        BY <2>1, ExtentType
      <3>6. Extent(R, E, o) # 0
        BY <3>1, <3>2, <3>3, <3>4, <3>5
      <3> QED
        BY <2>1, <3>6, PartsAre DEF Extents
    <2>5. PointsOf(R, E, w, l)[o] = w[o] * (a * s) /\ PointsOf(R, E, w, m)[o] = w[o] * (b * s)
      BY <2>1, <2>2, <2>4, PartsAre
    <2> QED
      BY <2>1, <2>2, <2>3, <2>5, ProductsStrict
  <1>5. PICK f, h : f = PointsOf(R, E, w, l) /\ h = PointsOf(R, E, w, m)
    OBVIOUS
  <1>6. IsFiniteSet(Objectives)
    BY ScoredAreFinite
  <1>7. SumFunctionOnSet(f, Objectives) < SumFunctionOnSet(h, Objectives)
    <2>1. \A x \in Objectives : f[x] \in Int /\ h[x] \in Int /\ f[x] <= h[x]
      BY <1>2, <1>5
    <2>2. o \in Objectives /\ f[o] < h[o]
      BY <1>1, <1>4, <1>5
    <2> QED
      BY <1>6, <2>1, <2>2, SumsStrictlyMonotone
  <1> QED
    BY <1>5, <1>7 DEF Weighted

\* The eligible results, each once, the best first.
IsRanking(q, n, R, E, w) ==
  /\ Lists(q, n, E)
  /\ \A j, k \in 1..n : j < k => Score(R, E, w, q[j]) >= Score(R, E, w, q[k])

\* ByScore is one.
LEMMA ByScoreRanks ==
  ASSUME NEW R, NEW E, NEW w, Rankable(R, E, w)
  PROVE  \E n \in Nat : DOMAIN ByScore(R, E, w) = 1..n /\ IsRanking(ByScore(R, E, w), n, R, E, w)
  <1>1. IsFiniteSet(E)
    BY DEF Rankable
  <1>2. PICK n \in Nat : n = Cardinality(E)
    BY <1>1, FS_CardinalityType
  <1>3. PICK some : some = SetToSeq(E) /\ Lists(some, n, E)
    BY <1>1, <1>2, SetToSeqLists
  <1>4. some \in [1..n -> E] /\ DOMAIN some = 1..n
    BY <1>3 DEF Lists
  <1>5. PICK key : key = [k \in DOMAIN some |-> -Scores(R, E, w)[some[k]]]
    OBVIOUS
  <1>6. key \in [1..n -> Int] /\ \A k \in 1..n : key[k] = -Score(R, E, w, some[k])
    BY <1>4, <1>5, ScoreType DEF Score
  <1>7. PICK o : o = Order(key) /\ Sorts(o, n, key)
    BY <1>6, OrderSorts
  <1>8. Lists(o, n, 1..n) /\ \A j, k \in 1..n : j < k => key[o[j]] <= key[o[k]]
    BY <1>7 DEF Sorts
  <1>9. /\ o \in [1..n -> 1..n]
        /\ \A x \in 1..n : \E k \in 1..n : o[k] = x
        /\ \A j, k \in 1..n : o[j] = o[k] => j = k
    BY <1>8 DEF Lists
  <1>10. PICK q : q = ByScore(R, E, w) /\ q = [k \in 1..n |-> some[o[k]]]
    BY <1>3, <1>4, <1>5, <1>7 DEF ByScore, SortedBy
  <1>11. Lists(q, n, E)
    <2>1. q \in [1..n -> E]
      BY <1>4, <1>9, <1>10
    <2>2. ASSUME NEW x \in E PROVE \E k \in 1..n : q[k] = x
      <3>1. PICK a \in 1..n : some[a] = x
        BY <1>3 DEF Lists
      <3>2. PICK b \in 1..n : o[b] = a
        BY <1>9
      <3> QED
        BY <1>10, <3>1, <3>2
    <2>3. ASSUME NEW j \in 1..n, NEW k \in 1..n, q[j] = q[k] PROVE j = k
      <3>1. \A a, b \in 1..n : some[a] = some[b] => a = b
        BY <1>3 DEF Lists
      <3>2. o[j] \in 1..n /\ o[k] \in 1..n /\ some[o[j]] = some[o[k]]
        BY <1>9, <1>10, <2>3
      <3> QED
        BY <1>9, <3>1, <3>2
    <2> QED
      BY <2>1, <2>2, <2>3 DEF Lists
  <1>12. ASSUME NEW j \in 1..n, NEW k \in 1..n, j < k
         PROVE  Score(R, E, w, q[j]) >= Score(R, E, w, q[k])
    <2>1. key[o[j]] <= key[o[k]] /\ o[j] \in 1..n /\ o[k] \in 1..n
      BY <1>8, <1>9, <1>12
    <2>2. key[o[j]] = -Score(R, E, w, q[j]) /\ key[o[k]] = -Score(R, E, w, q[k])
      BY <1>6, <1>10, <2>1
    <2>3. q[j] \in E /\ q[k] \in E
      BY <1>11 DEF Lists
    <2>4. Score(R, E, w, q[j]) \in Int /\ Score(R, E, w, q[k]) \in Int
      BY <2>3, ScoreType
    <2> QED
      BY <2>1, <2>2, <2>4
  <1>13. IsRanking(q, n, R, E, w) /\ DOMAIN q = 1..n
    BY <1>10, <1>11, <1>12 DEF IsRanking
  <1> QED
    BY <1>10, <1>13

-------------------------------------------------------------------------------
(* The list of the best *)

\* The positions at which a hardware distribution is first seen.
FirstSeen(R, q, n) == {k \in 1..n : \A j \in 1..(k - 1) : R[q[j]].dist # R[q[k]].dist}

\* A list of the best, as TopN makes it.
IsTop(best, R, E, w, t, n, r, q, p) ==
  /\ n \in Nat /\ r \in Nat /\ t \in Positive
  /\ IsRanking(q, n, R, E, w) /\ Ascends(p, r, FirstSeen(R, q, n))
  /\ best = [k \in 1..(IF r < t THEN r ELSE t) |-> q[p[k]]]

\* The list of the best: the first of these positions, in order.
LEMMA TopNIs ==
  ASSUME NEW R, NEW E, NEW w, Rankable(R, E, w), NEW t \in Positive
  PROVE  \E n, r, q, p : IsTop(TopN(R, E, w, t), R, E, w, t, n, r, q, p)
  <1>1. PICK q : q = ByScore(R, E, w)
    OBVIOUS
  <1>2. PICK n \in Nat : DOMAIN q = 1..n /\ IsRanking(q, n, R, E, w)
    BY <1>1, ByScoreRanks
  <1>3. PICK P : P = FirstSeen(R, q, n)
    OBVIOUS
  <1>4. P \in SUBSET (1..n) /\ P \subseteq Int
    BY <1>3 DEF FirstSeen
  <1>5. IsFiniteSet(1..n)
    BY FS_Interval
  <1>6. IsFiniteSet(P)
    BY <1>4, <1>5, FS_Subset
  <1>7. PICK r \in Nat : r = Cardinality(P)
    BY <1>6, FS_CardinalityType
  <1>8. PICK p : p = Ascending(P) /\ Ascends(p, r, P)
    BY <1>4, <1>6, <1>7, AscendingSorts
  <1>9. DOMAIN p = 1..r
    BY <1>8 DEF Ascends, Lists
  <1>10. P = {k \in DOMAIN q : \A j \in 1..(k - 1) : R[q[j]].dist # R[q[k]].dist}
    BY <1>2, <1>3 DEF FirstSeen
  <1>11. PICK s : s = [k \in DOMAIN p |-> q[p[k]]]
    OBVIOUS
  <1>12. TopN(R, E, w, t) = FirstOf(s, t)
    BY <1>1, <1>8, <1>10, <1>11 DEF TopN
  <1>13. Len(s) = r
    BY <1>9, <1>11
  <1>14. FirstOf(s, t) = [k \in 1..(IF r < t THEN r ELSE t) |-> q[p[k]]]
    <2>1. FirstOf(s, t) = [k \in 1..(IF r < t THEN r ELSE t) |-> s[k]]
      BY <1>13 DEF FirstOf
    <2>2. \A k \in 1..(IF r < t THEN r ELSE t) : s[k] = q[p[k]]
      BY <1>9, <1>11 DEF Positive
    <2> QED
      BY <2>1, <2>2
  <1>15. IsTop(TopN(R, E, w, t), R, E, w, t, n, r, q, p)
    BY <1>2, <1>3, <1>8, <1>12, <1>14 DEF IsTop
  <1> QED
    BY <1>15

\* The list of the best shows eligible results, each the first of its hardware.
LEMMA TopFacts ==
  ASSUME NEW best, NEW R, NEW E, NEW w, NEW t, NEW n, NEW r, NEW q, NEW p, IsTop(best, R, E, w, t, n, r, q, p)
  PROVE  /\ DOMAIN best = 1..(IF r < t THEN r ELSE t) /\ Len(best) = IF r < t THEN r ELSE t
         /\ \A k \in DOMAIN best : k \in 1..r /\ best[k] = q[p[k]] /\ best[k] \in E
         /\ \A k \in 1..r : p[k] \in 1..n /\ \A j \in 1..(p[k] - 1) : R[q[j]].dist # R[q[p[k]]].dist
         /\ \A j, k \in 1..r : j < k => p[j] < p[k]
         /\ \A j \in 1..n : q[j] \in E
  <1>1. /\ p \in [1..r -> FirstSeen(R, q, n)]
        /\ \A j, k \in 1..r : j < k => p[j] < p[k]
    BY DEF IsTop, Ascends, Lists
  <1>2. \A k \in 1..r : p[k] \in 1..n /\ \A j \in 1..(p[k] - 1) : R[q[j]].dist # R[q[p[k]]].dist
    BY <1>1 DEF FirstSeen
  <1>3. \A j \in 1..n : q[j] \in E
    BY DEF IsTop, IsRanking, Lists
  <1>4. PICK m \in Nat : m = (IF r < t THEN r ELSE t) /\ m <= r
    BY DEF IsTop, Positive
  <1>5. best = [k \in 1..m |-> q[p[k]]] /\ r \in Nat
    BY <1>4 DEF IsTop
  <1>6. DOMAIN best = 1..m /\ Len(best) = m
    BY <1>5
  <1>7. \A k \in 1..m : k \in 1..r /\ best[k] = q[p[k]]
    BY <1>4, <1>5
  <1> QED
    BY <1>1, <1>2, <1>3, <1>4, <1>6, <1>7

\* A distribution is shown once.
LEMMA ShownOnce ==
  ASSUME NEW best, NEW R, NEW E, NEW w, NEW t, NEW n, NEW r, NEW q, NEW p,
         IsTop(best, R, E, w, t, n, r, q, p),
         NEW i \in DOMAIN best, NEW j \in DOMAIN best, R[best[i]].dist = R[best[j]].dist
  PROVE  best[i] = best[j]
  <1>1. i \in 1..r /\ j \in 1..r /\ best[i] = q[p[i]] /\ best[j] = q[p[j]]
    BY TopFacts
  <1>2. PICK a, b : a = p[i] /\ b = p[j]
    OBVIOUS
  <1>3. /\ a \in 1..n /\ \A x \in 1..(a - 1) : R[q[x]].dist # R[q[a]].dist
        /\ b \in 1..n /\ \A x \in 1..(b - 1) : R[q[x]].dist # R[q[b]].dist
    BY <1>1, <1>2, TopFacts
  <1>4. R[q[a]].dist = R[q[b]].dist
    BY <1>1, <1>2
  <1>5. n \in Nat
    BY DEF IsTop
  <1>6. ~(a < b)
    <2> SUFFICES ASSUME a < b PROVE FALSE
      OBVIOUS
    <2>1. a \in 1..(b - 1)
      BY <1>3, <1>5
    <2> QED
      BY <1>3, <1>4, <2>1
  <1>7. ~(b < a)
    <2> SUFFICES ASSUME b < a PROVE FALSE
      OBVIOUS
    <2>1. b \in 1..(a - 1)
      BY <1>3, <1>5
    <2> QED
      BY <1>3, <1>4, <2>1
  <1>8. a = b
    BY <1>3, <1>5, <1>6, <1>7
  <1> QED
    BY <1>1, <1>2, <1>8

\* Every eligible result has a first one with its hardware, which is no worse.
LEMMA HasFirst ==
  ASSUME NEW R, NEW E, NEW w, Rankable(R, E, w), NEW n \in Nat, NEW q, IsRanking(q, n, R, E, w), NEW l \in E
  PROVE  \E a \in FirstSeen(R, q, n) : \A b \in 1..a : /\ R[q[a]].dist = R[l].dist
                                                      /\ Score(R, E, w, q[b]) >= Score(R, E, w, l)
  <1>1. PICK k \in 1..n : q[k] = l
    BY DEF IsRanking, Lists
  <1>2. PICK S : S = {j \in 1..k : R[q[j]].dist = R[l].dist}
    OBVIOUS
  <1>3. IsFiniteSet(1..k)
    BY FS_Interval
  <1>4. S \in SUBSET (1..k) /\ S \in SUBSET Int /\ S # {}
    BY <1>1, <1>2
  <1>5. IsFiniteSet(S)
    BY <1>3, <1>4, FS_Subset
  <1>6. PICK a \in S : \A j \in S : a <= j
    BY <1>4, <1>5, FiniteSetHasMin
  <1>7. a \in 1..n /\ a <= k /\ R[q[a]].dist = R[l].dist
    BY <1>2, <1>6
  <1>8. a \in FirstSeen(R, q, n)
    <2> SUFFICES ASSUME NEW j \in 1..(a - 1), R[q[j]].dist = R[q[a]].dist PROVE FALSE
      BY <1>7 DEF FirstSeen
    <2>1. j \in S
      BY <1>2, <1>6, <1>7
    <2> QED
      BY <1>6, <1>7, <2>1
  <1>9. ASSUME NEW b \in 1..a PROVE Score(R, E, w, q[b]) >= Score(R, E, w, l)
    <2>1. b \in 1..n /\ b <= k
      BY <1>7
    <2>2. CASE b = k
      <3>1. Score(R, E, w, l) \in Int
        BY ScoreType
      <3> QED
        BY <1>1, <2>2, <3>1
    <2>3. CASE b < k
      BY <1>1, <2>1, <2>3 DEF IsRanking
    <2> QED
      BY <2>1, <2>2, <2>3
  <1> QED
    BY <1>7, <1>8, <1>9

\* What the list does not show scores no more than what it does.
LEMMA LeftOutScoreLess ==
  ASSUME NEW best, NEW R, NEW E, NEW w, Rankable(R, E, w), NEW t, NEW n, NEW r, NEW q, NEW p,
         IsTop(best, R, E, w, t, n, r, q, p), NEW l \in E
  PROVE  \/ \E k \in DOMAIN best : R[best[k]].dist = R[l].dist /\ Score(R, E, w, best[k]) >= Score(R, E, w, l)
         \/ Len(best) = t /\ \A k \in DOMAIN best : Score(R, E, w, best[k]) >= Score(R, E, w, l)
  <1>1. n \in Nat /\ r \in Nat /\ t \in Positive /\ IsRanking(q, n, R, E, w)
    BY DEF IsTop
  <1>2. PICK a \in FirstSeen(R, q, n) : \A b \in 1..a : /\ R[q[a]].dist = R[l].dist
                                                        /\ Score(R, E, w, q[b]) >= Score(R, E, w, l)
    BY <1>1, HasFirst
  <1>3. PICK x \in 1..r : p[x] = a
    BY DEF IsTop, Ascends, Lists
  <1>4. a \in 1..n /\ a \in 1..a
    <2>1. a \in 1..n
      BY DEF FirstSeen
    <2> QED
      BY <1>1, <2>1
  <1>5. CASE x \in DOMAIN best
    <2>1. best[x] = q[a]
      BY <1>3, <1>5, TopFacts
    <2> QED
      BY <1>2, <1>4, <1>5, <2>1
  <1>6. CASE x \notin DOMAIN best
    <2>1. DOMAIN best = 1..(IF r < t THEN r ELSE t) /\ Len(best) = IF r < t THEN r ELSE t
      BY TopFacts
    <2>2. ~(r < t) /\ x > t /\ Len(best) = t /\ DOMAIN best = 1..t
      BY <1>1, <1>3, <1>6, <2>1 DEF Positive
    <2>3. ASSUME NEW k \in DOMAIN best PROVE Score(R, E, w, best[k]) >= Score(R, E, w, l)
      <3>1. k \in 1..r /\ k < x /\ best[k] = q[p[k]]
        BY <1>1, <2>2, TopFacts DEF Positive
      <3>2. p[k] < a /\ p[k] \in 1..n
        BY <1>3, <3>1, TopFacts
      <3>3. p[k] \in 1..a
        BY <1>4, <3>2
      <3> QED
        BY <1>2, <3>1, <3>3
    <2> QED
      BY <2>2, <2>3
  <1> QED
    BY <1>5, <1>6

\* The first of the list is the best of all.
LEMMA FirstIsBest ==
  ASSUME NEW best, NEW R, NEW E, NEW w, Rankable(R, E, w), NEW t, NEW n, NEW r, NEW q, NEW p,
         IsTop(best, R, E, w, t, n, r, q, p), DOMAIN best # {}, NEW l \in E
  PROVE  best[1] \in E /\ Score(R, E, w, best[1]) >= Score(R, E, w, l)
  <1>1. n \in Nat /\ r \in Nat /\ t \in Positive /\ IsRanking(q, n, R, E, w)
    BY DEF IsTop
  <1>2. DOMAIN best = 1..(IF r < t THEN r ELSE t)
    BY TopFacts
  <1>3. 1 \in DOMAIN best /\ 1 \in 1..r
    BY <1>1, <1>2 DEF Positive
  <1>4. best[1] = q[p[1]] /\ best[1] \in E
    BY <1>3, TopFacts
  <1>5. p[1] \in 1..n
    BY <1>3, TopFacts
  <1>6. 1 \in FirstSeen(R, q, n)
    <2>1. 1 \in 1..n /\ 1..(1 - 1) = {}
      BY <1>1, <1>5
    <2> QED
      BY <2>1 DEF FirstSeen
  <1>7. PICK x \in 1..r : p[x] = 1
    BY <1>6 DEF IsTop, Ascends, Lists
  <1>8. p[1] = 1
    <2>1. CASE x = 1
      BY <1>7, <2>1
    <2>2. CASE x # 1
      <3>1. 1 < x
        BY <1>7, <2>2
      <3>2. p[1] < 1
        BY <1>3, <1>7, <3>1, TopFacts
      <3> QED
        BY <1>1, <1>5, <3>2
    <2> QED
      BY <2>1, <2>2
  <1>9. PICK k \in 1..n : q[k] = l
    BY <1>1 DEF IsRanking, Lists
  <1>10. CASE k = 1
    <2>1. Score(R, E, w, l) \in Int
      BY ScoreType
    <2> QED
      BY <1>4, <1>8, <1>9, <1>10, <2>1
  <1>11. CASE k # 1
    <2>1. 1 \in 1..n /\ 1 < k
      BY <1>1, <1>9, <1>11
    <2> QED
      BY <1>1, <1>4, <1>8, <1>9, <2>1 DEF IsRanking
  <1> QED
    BY <1>10, <1>11

\* Some result has the greatest sum.
LEMMA SomeHasMost ==
  ASSUME NEW R, NEW E, NEW w, Rankable(R, E, w), E # {}
  PROVE  \E m \in E : \A x \in E : Weighted(R, E, w, x) <= Weighted(R, E, w, m)
  <1>1. PICK f : f = [x \in E |-> Weighted(R, E, w, x)]
    OBVIOUS
  <1>2. PICK T : T = {f[x] : x \in E}
    OBVIOUS
  <1>3. T \in SUBSET Int /\ T # {}
    BY <1>1, <1>2, WeightedType
  <1>4. IsFiniteSet(T)
    <2>1. IsFiniteSet(E)
      BY DEF Rankable
    <2> QED
      BY <1>2, <2>1, ImageIsFinite
  <1>5. PICK v \in T : \A y \in T : y <= v
    BY <1>3, <1>4, FiniteSetHasMax
  <1>6. PICK m \in E : v = f[m]
    BY <1>2
  <1> QED
    BY <1>1, <1>2, <1>5, <1>6

\* It is on the frontier.
LEMMA MostIsOnFrontier ==
  ASSUME NEW R, NEW E, NEW w, Rankable(R, E, w), FrontierOnly(w), Scored(R, E) = Objectives,
         NEW l \in E, \A m \in E : Weighted(R, E, w, m) <= Weighted(R, E, w, l)
  PROVE  l \in Frontier(R, E)
  <1> DEFINE keys == {o \in ParetoKeys : \E m \in E : o \in DOMAIN R[m].metrics}
             valid == {m \in E : keys \subseteq DOMAIN R[m].metrics}
             value(m, o) == Sense(o, R[m].metrics[o])
             Dominates(a, b) == /\ \A o \in keys : value(a, o) >= value(b, o)
                                /\ \E o \in keys : value(a, o) > value(b, o)
  <1>1. ParetoKeys \subseteq Objectives /\ ParetoKeys # {}
    BY DEF ParetoKeys, Objectives
  <1>2. \A m \in E : Objectives \subseteq DOMAIN R[m].metrics
    BY DEF Scored
  <1>3. keys = ParetoKeys
    BY <1>1, <1>2
  <1>4. valid = E
    BY <1>1, <1>2
  <1>5. \A m \in valid : ~Dominates(m, l)
    <2> SUFFICES ASSUME NEW m \in E, Dominates(m, l) PROVE FALSE
      BY <1>4
    <2>1. Dominated(R, l, m)
      BY <1>3 DEF Dominated
    <2>2. Weighted(R, E, w, l) < Weighted(R, E, w, m)
      BY <2>1, DominatedHasLess
    <2>3. Weighted(R, E, w, l) \in Int /\ Weighted(R, E, w, m) \in Int
      BY WeightedType
    <2> QED
      BY <2>2, <2>3
  <1> HIDE DEF value
  <1>6. Frontier(R, E) = {x \in valid : \A m \in valid : ~Dominates(m, x)}
    BY <1>1, <1>3 DEF Frontier, value
  <1> QED
    BY <1>4, <1>5, <1>6

\* What scores most scores as much as a result of the frontier: the digits may hide that the
\* other is better.
LEMMA BestMeetsFrontier ==
  ASSUME NEW R, NEW E, NEW w, Rankable(R, E, w), FrontierOnly(w), Scored(R, E) = Objectives,
         NEW l \in E, \A m \in E : Score(R, E, w, l) >= Score(R, E, w, m)
  PROVE  \E m \in Frontier(R, E) : m \in E /\ Score(R, E, w, m) = Score(R, E, w, l)
  <1>1. PICK m \in E : \A x \in E : Weighted(R, E, w, x) <= Weighted(R, E, w, m)
    BY SomeHasMost
  <1>2. m \in Frontier(R, E)
    BY <1>1, MostIsOnFrontier
  <1>3. /\ Score(R, E, w, l) \in Int /\ Score(R, E, w, m) \in Int
        /\ Score(R, E, w, l) <= Score(R, E, w, m)
    BY <1>1, ScoresFollow
  <1> QED
    BY <1>1, <1>2, <1>3

-------------------------------------------------------------------------------
(* The ranking *)

\* The ranking is that of the final results.
RankedInv ==
  phase = "ranked" =>
    /\ pareto = Frontier(Results, Eligible(Results, job.slo))
    /\ top = TopN(Results, Eligible(Results, job.slo), job.weights, job.topN)

\* Nothing follows the ranking.
LEMMA RankedInvHolds == Spec => []RankedInv
  <1>1. Init => RankedInv
    BY DEF Init, RankedInv
  <1>2. RankedInv /\ [Next]_vars => RankedInv'
    <2> SUFFICES ASSUME RankedInv, [Next]_vars PROVE RankedInv'
      OBVIOUS
    <2>1. CASE Generate \/ RunRound \/ Retry
      <3>1. phase' # "ranked"
        BY <2>1 DEF Generate, RunRound, Retry, Take
      <3> QED
        BY <3>1 DEF RankedInv
    <2>2. CASE Rank
      <3>1. /\ job' = job /\ tried' = tried /\ status' = status
            /\ pareto' = Frontier(Results, Eligible(Results, job.slo))
            /\ top' = TopN(Results, Eligible(Results, job.slo), job.weights, job.topN)
        BY <2>2 DEF Rank
      <3>2. Results' = Results
        BY <3>1 DEF Results, Labels
      <3>3. /\ Eligible(Results, job.slo)' = Eligible(Results, job.slo)
            /\ job.weights' = job.weights /\ job.topN' = job.topN
        BY <3>1, <3>2 DEF Eligible
      <3> QED
        BY <3>1, <3>2, <3>3 DEF RankedInv
    <2>3. CASE UNCHANGED vars
      <3>1. /\ job' = job /\ tried' = tried /\ status' = status
            /\ pareto' = pareto /\ top' = top /\ phase' = phase
        BY <2>3 DEF vars
      <3>2. Results' = Results
        BY <3>1 DEF Results, Labels
      <3>3. Eligible(Results, job.slo)' = Eligible(Results, job.slo)
        BY <3>1, <3>2 DEF Eligible
      <3> QED
        BY <3>1, <3>2, <3>3 DEF RankedInv
    <2> QED
      BY <2>1, <2>2, <2>3 DEF Next
  <1> QED
    BY <1>1, <1>2, PTL DEF Spec

\* The results of a job are finitely many, those that are done with numbers (MetricsAssumption).
LEMMA ResultsAreRankable ==
  ASSUME JobInv, phase = "ranked"
  PROVE  Rankable(Results, Eligible(Results, job.slo), job.weights)
  <1>1. IsJob(job)
    BY JobsAssumption DEF JobInv
  <1>2. PICK E : E = Eligible(Results, job.slo)
    OBVIOUS
  <1>3. DOMAIN Results = Labels(tried) /\ DOMAIN status = Labels(tried)
    BY DEF JobInv, RoundInv, Results
  <1>4. E \in SUBSET Labels(tried)
    BY <1>2, <1>3 DEF Eligible
  <1>5. IsFiniteSet(E)
    <2>1. tried \in SUBSET Space(job)
      BY DEF JobInv
    <2>2. IsFiniteSet(tried)
      BY <1>1, <2>1, SpaceIsFinite, FS_Subset
    <2>3. PICK T, f : T = tried /\ f = [c \in T |-> c.label]
      OBVIOUS
    <2>4. IsFiniteSet({f[c] : c \in T})
      BY <2>2, <2>3, ImageIsFinite
    <2>5. E \in SUBSET {f[c] : c \in T}
      BY <1>4, <2>3 DEF Labels
    <2> QED
      BY <2>4, <2>5, FS_Subset
  <1>6. ASSUME NEW l \in E PROVE \A o \in DOMAIN Results[l].metrics : Results[l].metrics[o] \in Int
    <2>1. l \in Labels(tried) /\ l \in DOMAIN status
      BY <1>3, <1>4
    <2>2. Results[l].state = status[l].state /\ Results[l].metrics = status[l].metrics
      BY <2>1 DEF Results
    <2>3. Results[l].state = "done"
      BY <1>2 DEF Eligible, MeetsSlo
    <2>4. status[l].metrics \in Metrics
      BY <2>1, <2>2, <2>3 DEF JobInv, Measured
    <2> QED
      BY <2>2, <2>4, MetricsAssumption
  <1>7. (\A o \in Objectives : job.weights[o] \in Nat) /\ (\E o \in Objectives : job.weights[o] > 0)
    BY <1>1 DEF IsJob
  <1> QED
    BY <1>2, <1>5, <1>6, <1>7 DEF Rankable

\* TopIsJustified for every job: the list of the best shows every distribution once, by its best
\* candidate, leaves out only what scores no more, and starts with as much as the frontier has.
THEOREM TopIsBest == Spec => []TopIsJustified
  <1>1. ASSUME JobInv, RankedInv, phase = "ranked"
        PROVE  LET E == Eligible(Results, job.slo)
                   score == Scores(Results, E, job.weights)
                   shown == {top[k] : k \in DOMAIN top}
                   measured == \A l \in E : Objectives \subseteq DOMAIN Results[l].metrics
               IN /\ \A a, b \in shown : Results[a].dist = Results[b].dist => a = b
                  /\ \A l \in E : \/ \E m \in shown : /\ Results[m].dist = Results[l].dist
                                                         /\ score[m] >= score[l]
                                  \/ Len(top) = job.topN /\ \A m \in shown : score[m] >= score[l]
                  /\ top # <<>> /\ measured /\ (\A o \in Objectives \ ParetoKeys : job.weights[o] = 0)
                                /\ (\A o \in ParetoKeys : job.weights[o] > 0)
                       => \E m \in pareto : score[m] = score[top[1]]
    <2>1. PICK R, E, w, t : R = Results /\ E = Eligible(R, job.slo) /\ w = job.weights /\ t = job.topN
      OBVIOUS
    <2>2. Rankable(R, E, w)
      BY <1>1, <2>1, ResultsAreRankable
    <2>3. t \in Positive
      BY <1>1, <2>1, JobsAssumption DEF JobInv, IsJob, Positive
    <2>4. PICK n, r, q, p : IsTop(TopN(R, E, w, t), R, E, w, t, n, r, q, p)
      BY <2>2, <2>3, TopNIs
    <2>5. top = TopN(R, E, w, t) /\ pareto = Frontier(R, E)
      BY <1>1, <2>1 DEF RankedInv
    <2>6. IsTop(top, R, E, w, t, n, r, q, p)
      BY <2>4, <2>5
    <2>7. \A i, j \in DOMAIN top : R[top[i]].dist = R[top[j]].dist => top[i] = top[j]
      BY <2>6, ShownOnce
    <2>8. \A l \in E : \/ \E k \in DOMAIN top : /\ R[top[k]].dist = R[l].dist
                                               /\ Score(R, E, w, top[k]) >= Score(R, E, w, l)
                       \/ Len(top) = t /\ \A k \in DOMAIN top : Score(R, E, w, top[k]) >= Score(R, E, w, l)
      BY <2>2, <2>6, LeftOutScoreLess
    <2>9. ASSUME top # <<>>, \A l \in E : Objectives \subseteq DOMAIN R[l].metrics,
                 \A o \in Objectives \ ParetoKeys : w[o] = 0, \A o \in ParetoKeys : w[o] > 0
          PROVE  \E m \in pareto : Score(R, E, w, m) = Score(R, E, w, top[1])
      <3>1. FrontierOnly(w)
        BY <2>9 DEF FrontierOnly
      <3>2. Scored(R, E) = Objectives
        BY <2>9 DEF Scored
      <3>3. DOMAIN top # {}
        <4>1. PICK m \in Nat : top = [k \in 1..m |-> q[p[k]]]
          BY <2>6 DEF IsTop, Positive
        <4>2. m # 0
          BY <2>9, <4>1
        <4> QED
          BY <4>1, <4>2
      <3>4. PICK l : l = top[1] /\ l \in E
        <4>1. PICK k \in DOMAIN top : top[k] \in E
          BY <2>6, <3>3, TopFacts
        <4> QED
          BY <2>2, <2>6, <3>3, <4>1, FirstIsBest
      <3>5. \A m \in E : Score(R, E, w, l) >= Score(R, E, w, m)
        BY <2>2, <2>6, <3>3, <3>4, FirstIsBest
      <3>6. \E m \in Frontier(R, E) : Score(R, E, w, m) = Score(R, E, w, l)
        BY <2>2, <3>1, <3>2, <3>4, <3>5, BestMeetsFrontier
      <3> QED
        BY <2>5, <3>4, <3>6
    <2> QED
      BY <2>1, <2>7, <2>8, <2>9 DEF Score
  <1>2. JobInv /\ RankedInv => TopIsJustified
    BY <1>1 DEF TopIsJustified
  <1> QED
    BY <1>2, JobInvariant, RankedInvHolds, PTL
===============================================================================
