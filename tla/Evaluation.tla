------------------------------ MODULE Evaluation ------------------------------
(***************************************************************************)
(* Stage 2 for one candidate: the process of the simulator under its       *)
(* guards, the metrics read from its CSV and its output                    *)
(* (planner/sim_evaluator.py), and what the requirements make of them      *)
(* (planner/objective.py).                                                 *)
(*                                                                         *)
(* A process is a record: procs, the processes of its tree at each poll,   *)
(* as a function from pid to [rss, kids]; code, its exit code; file, what  *)
(* became of its CSV, and rows, what that holds; energy, what it prints,   *)
(* or 0. It runs as many polls as procs is long.                           *)
(*                                                                         *)
(* Quotients are rounded down. Times are in ticks, Second of which make a  *)
(* second; a tick stands for the smallest span the code counts (1 ms).     *)
(***************************************************************************)
EXTENDS Integers, Sequences, FiniteSets, FiniteSetsExt, SequencesExt

CONSTANTS Second,      \* ticks per second
          Window,      \* seconds over which generation is averaged (_GEN_WINDOW_S)
          MemLimit,    \* RSS ceiling of a process tree, 0: none (LLMSS_SIM_MEM_LIMIT_GB)
          Timeout      \* polls until the deadline

\* A value that is missing: None, or not a number. Metrics are not negative.
None == -1

Most(S) == CHOOSE x \in S : \A y \in S : y <= x
Least(S) == CHOOSE x \in S : \A y \in S : x <= y
Total(seq) == SumFunction(seq)
Mean(seq) == Total(seq) \div Len(seq)
Column(rows, f) == [i \in DOMAIN rows |-> rows[i][f]]

\* pandas' quantile: linear between the two ranks around (n - 1) p / 100.
Quantile(seq, p) ==
  LET sorted == SortSeq(seq, <)
      at == (Len(seq) - 1) * p
      i == at \div 100
      frac == at % 100
  IN IF frac = 0 THEN sorted[i + 1]
     ELSE (sorted[i + 1] * (100 - frac) + sorted[i + 2] * frac) \div 100

(***************************************************************************)
(* The process (run_guarded).                                              *)
(***************************************************************************)

Root == 0
\* The processes reached from the root; of one that is gone nothing is read.
Tree(procs) ==
  LET within[n \in 0..Cardinality(DOMAIN procs)] ==
        IF n = 0 THEN {Root}
        ELSE within[n - 1] \cup UNION {procs[p].kids : p \in within[n - 1] \cap DOMAIN procs}
  IN within[Cardinality(DOMAIN procs)] \cap DOMAIN procs
TreeRss(procs) == MapThenSumSet(LAMBDA p : procs[p].rss, Tree(procs))

\* At each poll: has it ended, is it too large, is it too late. The first that
\* holds decides; the tree is killed in the last two cases.
Guarded(run) ==
  LET large == {i \in DOMAIN run.procs : MemLimit > 0 /\ TreeRss(run.procs[i]) > MemLimit}
      late == {i \in DOMAIN run.procs : i > Timeout}
  IN IF large \cup late = {} THEN run.code
     ELSE IF Least(large \cup late) \in large THEN 137 ELSE None

(***************************************************************************)
(* The metrics (parse_metrics_csv).                                        *)
(***************************************************************************)

\* What a request generates in second sec, when its tokens are spread evenly
\* over the span that its TPOT implies and that ends with it.
GeneratedIn(row, sec) ==
  LET span == Most({row.output * Most({row.tpot, 0}), 1})
      overlap == Least({row.end, (sec + 1) * Second})
                   - Most({row.end - span, sec * Second})
  IN IF row.output <= 0 \/ overlap <= 0 THEN 0 ELSE (row.output * overlap) \div span

\* _peak_generation_rate
PeakGeneration(rows) ==
  LET spans == {Most({row.output * Most({row.tpot, 0}), 1}) : row \in ToSet(rows)}
      first == (Least({row.end : row \in ToSet(rows)}) - Most(spans)) \div Second
      secs == first..(Most({row.end : row \in ToSet(rows)}) \div Second)
      bucket == [s \in secs |-> Total([i \in DOMAIN rows |-> GeneratedIn(rows[i], s)])]
      window(s) == MapThenSumSet(LAMBDA k : bucket[k], secs \cap (s..(s + Window - 1)))
  IN IF \A row \in ToSet(rows) : row.output <= 0 THEN None
     ELSE Most({window(s) \div Window : s \in secs})

Span(rows) == Most(ToSet(Column(rows, "end"))) - Least(ToSet(Column(rows, "arrival")))

\* The power and the tokens per watt-hour are there only with an energy.
Metrics(rows, energy) ==
  LET out == Total(Column(rows, "output"))
      itls == FlattenSeq(Column(rows, "itl"))
      queues == SelectSeq(Column(rows, "queue"), LAMBDA q : q # None)
  IN [kind |-> "metrics",
      ttft |-> Mean(Column(rows, "ttft")), tpot |-> Mean(Column(rows, "tpot")),
      itl |-> IF itls = <<>> THEN None ELSE Quantile(itls, 99),
      thr |-> IF Span(rows) > 0 THEN (out * Second) \div Span(rows) ELSE 0,
      peak |-> PeakGeneration(rows),
      queue |-> IF queues = <<>> THEN None ELSE Quantile(queues, 95),
      perWh |-> IF energy > 0 THEN (out * 3600) \div energy ELSE None,
      power |-> IF energy > 0 /\ Span(rows) > 0 THEN (energy * Second) \div Span(rows) ELSE None]

\* What is known of a candidate besides metrics: a mark.
Mark(kind) == [kind |-> kind, ttft |-> None, tpot |-> None, itl |-> None, thr |-> None,
               peak |-> None, queue |-> None, perWh |-> None, power |-> None]
Infeasible == Mark("infeasible")

\* evaluate after the process: killed, failed, without a CSV that parses and
\* has a row, it is Infeasible; nothing raises.
Evaluated(run) ==
  IF Guarded(run) # 0 \/ run.file \in {"missing", "unreadable"} \/ run.rows = <<>>
  THEN Infeasible ELSE Metrics(run.rows, run.energy)

(***************************************************************************)
(* The requirements (objective.py).                                        *)
(***************************************************************************)

Holds(op, a, b) ==
  CASE op = "<=" -> a <= b [] op = "<" -> a < b
    [] op = ">=" -> a >= b [] op = ">" -> a > b [] op = "==" -> a = b

\* check_demand_attainment: are requests backing up?
Sustained(s, m) ==
  s.demand = <<>> \/ s.demand.maxQueue = 0 \/ m.queue = None \/ m.queue <= s.demand.maxQueue

\* check_constraints: a metric that is not available violates its constraint.
Satisfies(s, m) ==
  /\ m.kind = "metrics"
  /\ \A c \in s.slo : m[c.metric] # None /\ Holds(c.op, m[c.metric], c.value)
  /\ Sustained(s, m)

\* demand_shortfall, which rejects nothing; tolerance is in percent.
FellShort(s, m) ==
  /\ s.demand # <<>> /\ s.demand.toks # None
  /\ m.peak # None /\ s.demand.tolerance < 100
  /\ m.peak * 100 < s.demand.toks * (100 - s.demand.tolerance)

Signed(o, m) == IF o.dir = "max" THEN m[o.metric] ELSE -m[o.metric]

\* Mutant of Score: the direction of an objective is lost.
ScoreUnsigned(s, m) ==
  Total([i \in DOMAIN s.objectives |->
           LET o == s.objectives[i] IN IF m[o.metric] = None THEN 0 ELSE o.weight * m[o.metric]])

\* The weighted sum; an objective without a value adds nothing.
Score(s, m) ==
  Total([i \in DOMAIN s.objectives |->
           LET o == s.objectives[i] IN IF m[o.metric] = None THEN 0 ELSE o.weight * Signed(o, m)])

\* _objective_vector is there when every objective has a value.
HasVector(s, m) == \A o \in ToSet(s.objectives) : m[o.metric] # None
Dominates(s, a, b) ==
  /\ \A o \in ToSet(s.objectives) : Signed(o, a) >= Signed(o, b)
  /\ \E o \in ToSet(s.objectives) : Signed(o, a) > Signed(o, b)

\* pareto_front of a set of candidates with the metrics m: those that are not
\* dominated, and those that cannot be compared.
ParetoFront(s, C, m) ==
  {c \in C : \/ ~HasVector(s, m[c])
             \/ \A d \in C : ~(HasVector(s, m[d]) /\ Dominates(s, m[d], m[c]))}
=============================================================================
