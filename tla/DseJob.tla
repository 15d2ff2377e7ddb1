-------------------------------- MODULE DseJob --------------------------------
(***************************************************************************)
(* A design-space job from its spec to its ranking (dse/core/runner.py,    *)
(* dse/cli.py): candidates, a round of simulations, up to MaxRetries       *)
(* rounds with replacements, the ranking. A round is one step here; how    *)
(* its processes run, are cancelled and recorded is module SweepRunner,    *)
(* which takes the replacements of Retry as given.                         *)
(***************************************************************************)
EXTENDS DseSpace, DseRanker

CONSTANTS JobSpecs,    \* the specs that are submitted
          Metrics,     \* what a simulation may measure
          MaxRetries   \* _MAX_RETRY_ROUNDS

\* What the schema of a job (schemas.py), the catalog and the fabrics allow, and
\* that predict_ttft_tpot finds a number in every profile.
IsJob(j) ==
  /\ IsFiniteSet(DOMAIN j.pool) /\ DOMAIN j.pool \subseteq DOMAIN j.hw
  /\ \A h \in DOMAIN j.pool : j.pool[h] \in Nat \X Nat /\ j.hw[h].mem \in Nat
  /\ \A x \in {j.model.weight, j.model.layers, j.model.kvHeads, j.model.hidden, j.model.bytes, j.seqLen} :
       x \in Nat
  /\ {j.model.heads, j.maxCombinations, j.topN} \subseteq Nat \ {0}
  /\ j.fabric \in Seq([size : Nat \ {0}, bw : Nat])
  /\ (\A o \in Objectives : j.weights[o] \in Nat) /\ (\E o \in Objectives : j.weights[o] > 0)
  /\ \A at \in DOMAIN j.profiles : Ttft(j, j.profiles[at]) \in Int
ASSUME JobsAssumption == \A j \in JobSpecs : IsJob(j)

\* A metric that the simulator reports is a number.
ASSUME MetricsAssumption == \A m \in Metrics : \A o \in DOMAIN m : m[o] \in Int

VARIABLES
  job, phase, round,
  tried,       \* all candidates so far; labels name them in status.json
  batch,       \* those of the current round
  status,      \* the outcome of each label
  cancelled,
  pareto, top

vars == <<job, phase, round, tried, batch, status, cancelled, pareto, top>>

Init ==
  /\ job \in JobSpecs
  /\ phase = "new" /\ round = 0 /\ cancelled = FALSE
  /\ tried = {} /\ batch = {} /\ status = <<>>
  /\ pareto = {} /\ top = <<>>

Labels(S) == {c.label : c \in S}

Take(S, next) ==
  /\ batch' = S /\ tried' = tried \cup S /\ phase' = next
  /\ UNCHANGED <<job, status, cancelled, pareto, top>>

\* generate_candidates; without candidates the job is refused.
Generate ==
  /\ phase = "new"
  /\ \E S \in Samples(job, Survivors(job, {}), job.maxCombinations) :
       Take(S, IF S = {} THEN "refused" ELSE "run")
  /\ UNCHANGED round

Outcome(state, metrics) == [state |-> state, metrics |-> metrics]

\* run_sweep. A job is cancelled at most once.
RunRound ==
  /\ phase = "run"
  /\ \E c \in BOOLEAN :
       /\ cancelled' = (cancelled \/ c)
       /\ \E o \in [Labels(batch) ->
                     {Outcome("done", m) : m \in Metrics} \cup
                     {Outcome(s, <<>>) : s \in {"failed", "timeout"}
                                              \cup IF c THEN {"cancelled"} ELSE {}}] :
            status' = [l \in DOMAIN status \cup Labels(batch) |->
                         IF l \in Labels(batch) THEN o[l] ELSE status[l]]
  /\ phase' = "settled"
  /\ UNCHANGED <<job, round, tried, batch, pareto, top>>

Failed == {l \in DOMAIN status : status[l].state \in {"failed", "cancelled"}}

Untried == Labels(tried)

Replacements == IF cancelled \/ round = MaxRetries \/ Failed = {} THEN {{}}
                ELSE Samples(job, Survivors(job, Untried), Cardinality(Failed))

Retry ==
  /\ phase = "settled"
  /\ \E S \in Replacements \ {{}} : Take(S, "run")
  /\ round' = round + 1

\* _collect_results; a candidate is a result whatever became of it.
Results ==
  [l \in Labels(tried) |-> [state |-> status[l].state, metrics |-> status[l].metrics,
                            dist |-> (CHOOSE c \in tried : c.label = l).dist]]

\* rank_candidates
Rank ==
  /\ phase = "settled" /\ {} \in Replacements
  /\ LET E == Eligible(Results, job.slo)
     IN /\ pareto' = Frontier(Results, E)
        /\ top' = TopN(Results, E, job.weights, job.topN)
  /\ phase' = "ranked"
  /\ UNCHANGED <<job, round, tried, batch, status, cancelled>>

Next == Generate \/ RunRound \/ Retry \/ Rank
Spec == Init /\ [][Next]_vars

(***************************************************************************)
(* Properties.                                                             *)
(***************************************************************************)

\* A candidate is simulated under one name only, in one round only, and occupies
\* exactly the NPUs that it is charged for: the key of status.json identifies a
\* simulation, and dropping equal labels loses none (generate_candidates).
CandidatesAreDistinct ==
  /\ \A c, d \in tried : (c.label = d.label \/ c.insts = d.insts) => c = d
  /\ \A c \in tried, h \in DOMAIN job.hw :
       Total({k \in DOMAIN c.insts : c.insts[k].hw = h}, LAMBDA k : c.insts[k].npus)
         = IF h \in DOMAIN c.dist THEN c.dist[h] ELSE 0
  /\ phase = "run" => Labels(batch) \cap DOMAIN status = {}

\* Every candidate is one that the cluster file's validation accepts, and the
\* shape of its TP group on the fabric has as many NPUs as its TP degree
\* (enumerate.py and interconnect.py against cluster_builder.validate_spec).
CandidatesAreBuildable ==
  \A c \in tried :
    /\ ValidSpec(c)
    /\ LET links == Links(job, c)
       IN /\ Len(links.shape) > 0 => Product(links.shape) = c.tp
          /\ Len(links.shape) > 0 => Len(links.bw) = Len(links.shape)

\* The early-out on the summed memory loses no candidate that the per-card check
\* of stage 1 would let through (_coarse_memory_prune against filter_memory).
PruneLosesNothing ==
  phase = "new" =>
    \A counts \in HwCounts(job) :
      ~MayHoldWeights(job, counts) => \A c \in Expanded(job, counts) : ~Memory(job, c)

\* The list of the best shows every hardware distribution once, by its best
\* candidate, and leaves out only distributions that score less; with the
\* objectives of the frontier alone, no result of the frontier scores more than its
\* first, and one scores as much (the digits may hide that it is better).
TopIsJustified ==
  phase = "ranked" =>
    LET E == Eligible(Results, job.slo)
        score == Scores(Results, E, job.weights)
        shown == {top[k] : k \in DOMAIN top}
        measured == \A l \in E : Objectives \subseteq DOMAIN Results[l].metrics
    IN /\ \A a, b \in shown : Results[a].dist = Results[b].dist => a = b
       /\ \A l \in E : \/ \E m \in shown : Results[m].dist = Results[l].dist /\ score[m] >= score[l]
                       \/ Len(top) = job.topN /\ \A m \in shown : score[m] >= score[l]
       /\ top # <<>> /\ measured /\ (\A o \in Objectives \ ParetoKeys : job.weights[o] = 0)
                     /\ (\A o \in ParetoKeys : job.weights[o] > 0)
            => \E m \in pareto : score[m] = score[top[1]]
=============================================================================
