------------------------------ MODULE Enumerate ------------------------------
(***************************************************************************)
(* The layouts of a scenario (webapp/enumerate.py over                     *)
(* webapp/hardware_catalog.py): tensor, pipeline and data parallelism and  *)
(* the split into prefill and decode instances, for groups of NPUs. The    *)
(* lists of the code are sets; a label is the tuple of what is written in  *)
(* it.                                                                     *)
(*                                                                         *)
(* A scenario's group is [hw, model, npus, role], its axes are             *)
(* [tp, pp, dp, pd], and the catalog maps <<hw, model>> to the profiled    *)
(* degrees of tensor parallelism.                                          *)
(***************************************************************************)
EXTENDS Integers, Sequences, FiniteSets, FiniteSetsExt, SequencesExt, Ordering

TpOptions(catalog, hw, model) ==
  IF <<hw, model>> \in DOMAIN catalog THEN catalog[<<hw, model>>] ELSE {}

Lowest(S) == {x \in S : \A y \in S : x <= y}

\* _per_instance_layouts: <<npu_num, npu_group>>, so the TP degree is their ratio.
Layouts(catalog, g, axes) ==
  LET options == TpOptions(catalog, g.hw, g.model)
      all == {<<tp * pp, pp>> : tp \in IF axes.tp THEN options ELSE Lowest(options),
                                pp \in IF axes.pp THEN 1..g.npus ELSE {1}}
  IN {l \in all : l[1] <= g.npus}

Inst(g, layout, pdType) ==
  [hw |-> g.hw, model |-> g.model, npus |-> layout[1], group |-> layout[2], pd |-> pdType]
TpOf(i) == i.npus \div i.group

\* _topology_valid: ASTRA-Sim's grid leaves no NPU out. A prefill instance has
\* as many virtual senders as NPUs.
TopologyValid(insts) ==
  LET senders(i, n) == IF i.pd = "prefill" THEN 2 * n ELSE n
      total(value(_)) == MapThenSumSet(LAMBDA k : value(insts[k]), DOMAIN insts)
      npus == total(LAMBDA i : senders(i, i.npus))
      groups == total(LAMBDA i : senders(i, i.group))
      units == total(LAMBDA i : senders(i, 1))
  IN IF npus = groups THEN npus % units = 0 ELSE npus % groups = 0

Repeat(x, n) == [k \in 1..n |-> x]

\* _enum_single_group_combined
Combined(catalog, g, axes) ==
  LET config(l, dp) ==
        [label |-> <<"combined", <<l[1] \div l[2], l[2], dp>>>>,
         insts |-> Repeat(Inst(g, l, "none"), dp), tp |-> l[1] \div l[2], pp |-> l[2], dp |-> dp]
  IN {config(x[1], x[2]) :
        x \in {y \in Layouts(catalog, g, axes) \X (IF axes.dp THEN 1..g.npus ELSE {1}) :
                 y[2] * y[1][1] <= g.npus /\ g.npus % (y[2] * y[1][1]) = 0}}

\* _enum_single_group_pd: one prefill and several decodes, or the reverse;
\* decodes have one NPU and prefills one pipeline stage.
PdSplit(catalog, g, axes) ==
  LET layouts == Layouts(catalog, g, axes)
      Insts(p, d, np, nd) ==
        Repeat(Inst(g, p, "prefill"), np) \o Repeat(Inst(g, d, "decode"), nd)
      config(p, d, np, nd) ==
        [label |-> <<"pd", <<np, nd, p[1] \div p[2], p[2]>>>>,
         insts |-> Insts(p, d, np, nd), tp |-> p[1] \div p[2], pp |-> p[2], dp |-> nd]
  IN {config(x[1], x[2], x[3], x[4]) :
        x \in {y \in {l \in layouts : l[2] = 1} \X {l \in layouts : l[1] = 1}
                     \X (1..g.npus) \X (1..g.npus) :
                 /\ y[3] = 1 \/ y[4] = 1
                 /\ y[3] * y[1][1] + y[4] * y[2][1] <= g.npus
                 /\ TopologyValid(Insts(y[1], y[2], y[3], y[4]))}}

\* _enum_single_group
SingleGroup(catalog, g, axes) ==
  (IF g.role \in {"auto", "combined"} THEN Combined(catalog, g, axes) ELSE {})
  \cup
  (IF axes.pd /\ g.role \in {"auto", "prefill", "decode"} THEN PdSplit(catalog, g, axes) ELSE {})

\* _per_group_layouts_with_role
Candidate(catalog, g, role, axes) ==
  {Inst(g, l, IF role = "combined" THEN "none" ELSE role) :
     l \in {m \in Layouts(catalog, g, axes) : /\ role = "decode" => m[1] = 1
                                              /\ role = "prefill" => m[2] = 1}}

\* _effective_roles
EffectiveRoles(g, axes) ==
  IF g.role # "auto" THEN {g.role}
  ELSE {"combined"} \cup (IF axes.pd THEN {"prefill", "decode"} ELSE {})

\* The role assignments that ASTRA-Sim can run (_enum_multi_group).
RoleCombos(groups, axes) ==
  {rc \in [DOMAIN groups -> UNION {EffectiveRoles(groups[k], axes) : k \in DOMAIN groups}] :
     LET count(r) == Cardinality({k \in DOMAIN rc : rc[k] = r})
         mixed == Cardinality({groups[k].hw : k \in DOMAIN groups}) > 1
     IN /\ \A k \in DOMAIN groups : rc[k] \in EffectiveRoles(groups[k], axes)
        /\ (count("prefill") > 0) = (count("decode") > 0)
        /\ ~(mixed /\ count("combined") = Len(groups))
        /\ mixed /\ count("prefill") > 0 =>
             count("combined") <= count("prefill") + count("decode")}

\* Prefills first, decodes last; the sort is stable.
Place == [prefill |-> 0, none |-> 1, decode |-> 2]
ByRole(insts) == SortedBy(insts, [k \in DOMAIN insts |-> Place[insts[k].pd]])

MultiLabel(insts) == [k \in DOMAIN insts |->
  <<insts[k].pd, TpOf(insts[k]), insts[k].group, insts[k].hw>>]

\* _enum_multi_group: every group is one instance.
MultiGroup(catalog, groups, axes) ==
  UNION {
    LET options == [k \in DOMAIN groups |-> Candidate(catalog, groups[k], rc[k], axes)]
        picks == {p \in [DOMAIN groups -> UNION {options[k] : k \in DOMAIN groups}] :
                    /\ \A k \in DOMAIN groups : p[k] \in options[k]
                    /\ TopologyValid(p)}
    IN {LET insts == ByRole(p)
            decodes == Cardinality({k \in DOMAIN insts : insts[k].pd = "decode"})
        IN [label |-> <<"het", MultiLabel(insts)>>, insts |-> insts,
            tp |-> TpOf(insts[1]), pp |-> insts[1].group, dp |-> IF decodes > 0 THEN decodes ELSE 1] :
          p \in picks} : rc \in RoleCombos(groups, axes)}

EnumerateConfigs(catalog, groups, axes) ==
  IF groups = <<>> THEN {}
  ELSE IF Len(groups) = 1 THEN SingleGroup(catalog, groups[1], axes)
  ELSE MultiGroup(catalog, groups, axes)
=============================================================================
