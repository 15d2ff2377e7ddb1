------------------------------ MODULE PlannerJob ------------------------------
(***************************************************************************)
(* A planner run: the sweep of stage 1 (milp_solver.solve_with_report),    *)
(* rendering, stage 2 in a pool of threads over a cache on disk            *)
(* (search_orchestrator.run_spec, sim_evaluator.evaluate), the ranking     *)
(* (objective.py), and the background job of the planner server that       *)
(* mirrors its progress in status.json (planner_server/routes.py).         *)
(*                                                                         *)
(* The first run is a job of the server. Reruns use the same directory, as *)
(* the command line and the service's re-plans do, and have no status. The *)
(* process may be killed at any point; what is on disk stays.              *)
(***************************************************************************)
EXTENDS Placement, Ordering

CONSTANTS Submitted,   \* the specs that clients of the planner server submit
          MaxRuns,     \* bound on the runs over one directory, for each spec
          Simulations, \* the processes a simulation may turn out to be
          Profiles,    \* the legacy profile tree: [hw, model, tp, files]
          ModelConfigs \* the models with a config file

ASSUME SubmittedAssumption == \A s \in Submitted : Valid(s) => IsSpec(Resolved(s))

\* What a CSV's columns hold are numbers, and time goes forward.
ASSUME SimulationsAssumption ==
  /\ Second \in Nat
  /\ \A run \in Simulations :
       /\ run.energy \in Nat
       /\ run.rows \in Seq(ToSet(run.rows))
       /\ \A row \in ToSet(run.rows) : row.output \in Nat /\ row.arrival \in Int /\ row.end \in Int

Unknown == Mark("unknown")

VARIABLES
  spec, runs, main,
  level, combos, allocs, report,     \* stage 1
  worker,                            \* the thread of each candidate, by run id
  result,                            \* what CandidateResult holds of it
  raised,                            \* an evaluation raised
  best, pareto,
  cache,                             \* cache/<key>.json of each run id
  status, reports                    \* status.json; are the reports written

stage1 == <<level, combos, allocs, report>>
disk == <<cache, status, reports>>
vars == <<spec, runs, main, stage1, worker, result, raised, best, pareto, disk>>

\* A job of the server has a status; other callers of run_spec have none.
NoStatus == [state |-> "none", cand |-> <<>>, best |-> <<>>]
Watched == runs = 1 /\ status # NoStatus

Idle ==
  /\ runs = 1 /\ level = 0 /\ combos = {} /\ allocs = <<>> /\ report = "none"
  /\ worker = <<>> /\ result = <<>> /\ raised = FALSE
  /\ best = <<>> /\ pareto = {}
  /\ cache = <<>> /\ reports = FALSE

\* api_create_job validates the spec, also against the profiles, and queues it.
Init ==
  /\ spec \in {Resolved(s) : s \in {x \in Submitted : Valid(x) /\ Problems(x, Profiles, ModelConfigs) = {}}}
  /\ main = "start" /\ Idle
  /\ status = [NoStatus EXCEPT !.state = "queued"]

(***************************************************************************)
(* Stage 1.                                                                *)
(***************************************************************************)

SpecTemplates == Templates(spec)
Allocation(n) == [sig |-> Signature(n), thr |-> ThrOf(spec, n), pow |-> TotalPower(spec, n)]
Sigs == {a.sig : a \in ToSet(allocs)}
Record(n) == IF Signature(n) \in Sigs THEN allocs ELSE Append(allocs, Allocation(n))

\* _diagnose_infeasible; S is what the structural constraints allow.
Diagnosis(s, S) ==
  IF Templates(s) = {} THEN "memory"
  ELSE IF S # {} THEN IF \E n \in S : Meets(s, n) THEN "structure" ELSE "demand"
  ELSE IF s.pd /\ Edges(s) # {} THEN "links" ELSE "availability"

\* solve_with_report up to its first solver call, and run_spec before it.
StartSweep ==
  /\ main = "start"
  /\ IF SpecTemplates = {}
     THEN /\ main' = "solved"
          /\ report' = IF IsPowerMin(spec) THEN Diagnosis(spec, {}) ELSE "none"
     ELSE /\ main' = IF IsPowerMin(spec) THEN "powerMin" ELSE "anchors"
          /\ UNCHANGED report
  /\ UNCHANGED <<spec, runs, level, combos, allocs, worker, result, raised, best, pareto, disk>>

TopK == Most({1, spec.topK})
Steps == Most({1, spec.steps})

\* The (hardware, tp) pairs solved on their own, when there are several.
Combos == LET all == {<<t.hw, t.tp>> : t \in SpecTemplates}
          IN IF Cardinality(all) > 1 THEN all ELSE {}

\* _solve_power_min: one level of headroom.
PowerLevel ==
  /\ main = "powerMin"
  /\ \E S \in {PowerMin(spec, SpecTemplates, Floor(spec, level))} :
        \/ /\ S = {} /\ level = 0
           /\ report' = Diagnosis(spec, Allocations(spec))
           /\ main' = "solved"
           /\ UNCHANGED <<level, combos, allocs>>
        \/ /\ S = {} /\ level > 0
           /\ main' = "combos" /\ combos' = Combos
           /\ UNCHANGED <<level, allocs, report>>
        \/ \E n \in S :
             /\ allocs' = Record(n)
             /\ level' = level + 1
             /\ IF Len(allocs') >= TopK \/ level + 1 = Steps
                THEN main' = "combos" /\ combos' = Combos
                ELSE UNCHANGED <<main, combos>>
             /\ UNCHANGED report
  /\ UNCHANGED <<spec, runs, worker, result, raised, best, pareto, disk>>

\* The diversity candidates, beyond top_k.
Diversity ==
  /\ main = "combos"
  /\ \/ /\ combos = {} /\ main' = "solved"
        /\ UNCHANGED <<allocs, combos>>
     \/ /\ combos # {}
        /\ \E c \in {CHOOSE x \in combos : TRUE} :
           \E S \in {PowerMin(spec, {t \in SpecTemplates : t.hw = c[1] /\ t.tp = c[2]}, Floor(spec, 0))} :
              /\ combos' = combos \ {c}
              /\ \/ S = {} /\ UNCHANGED allocs
                 \/ \E n \in S : allocs' = Record(n)
        /\ UNCHANGED main
  /\ UNCHANGED <<spec, runs, level, report, worker, result, raised, best, pareto, disk>>

\* The epsilon sweep's anchors: the most throughput there is, the least power.
\* level is then the sweep's step; combos holds the power range.
Anchors ==
  /\ main = "anchors"
  /\ \E S \in {Allocations(spec)} :
        \/ S = {} /\ main' = "solved" /\ UNCHANGED <<allocs, combos>>
        \/ \E hi \in MaxThroughput(spec, S), lo \in MinDevicePower(S) :
             IF DevicePower(hi) <= DevicePower(lo)
             THEN /\ allocs' = Record(hi)
                  /\ main' = "solved" /\ UNCHANGED combos
             ELSE /\ combos' = {DevicePower(lo), DevicePower(hi)}
                  /\ main' = "sweep" /\ UNCHANGED allocs
  /\ UNCHANGED <<spec, runs, level, report, worker, result, raised, best, pareto, disk>>

\* Which k of n > k positions are kept: evenly spaced, both ends included
\* (Python rounds one half to the even neighbour).
Sample(n, k) ==
  LET round(a, b) == IF 2 * (a % b) = b THEN (a \div b) + ((a \div b) % 2)
                     ELSE (2 * a + b) \div (2 * b)
  IN IF k = 1 THEN {0} ELSE {round(i * (n - 1), k - 1) : i \in 0..(k - 1)}

\* Ranked by throughput and capped.
Capped(seq, k) ==
  LET ranked == SortedBy(seq, [i \in DOMAIN seq |-> -seq[i].thr])
      js == Ascending(Sample(Len(seq), k))
  IN IF Len(seq) <= k THEN ranked ELSE [i \in DOMAIN js |-> ranked[js[i] + 1]]

EpsilonLevel ==
  /\ main = "sweep"
  /\ LET lo == Least(combos)  hi == Most(combos)
         eps == IF Steps = 1 THEN hi ELSE lo + ((hi - lo) * level) \div (Steps - 1)
         S == {n \in Allocations(spec) : DevicePower(n) <= eps}
     IN \E n \in MaxThroughput(spec, S) :
          IF level + 1 < Steps
          THEN allocs' = Record(n) /\ UNCHANGED main
          ELSE allocs' = Capped(Record(n), TopK) /\ main' = "solved"
  /\ level' = level + 1
  /\ UNCHANGED <<spec, runs, combos, report, worker, result, raised, best, pareto, disk>>

(***************************************************************************)
(* Stage 2.                                                                *)
(***************************************************************************)

\* _expand: a candidate for every allocation and batch size, named by a hash of both.
Candidates == {<<a.sig, bt>> : a \in ToSet(allocs), bt \in spec.batchTokens}

\* _mutate_status, under the job's lock.
Mutate(s) == status' = IF Watched THEN s ELSE status

\* Rendering and the "stage1" event. Without allocations, and in a dry run, the pool
\* is skipped; the "finished" event then names no best.
Expand ==
  /\ main = "solved"
  /\ IF allocs = <<>> \/ spec.dry THEN main' = "report" /\ UNCHANGED worker
     ELSE main' = "pool" /\ worker' = [c \in Candidates |-> "submitted"]
  /\ result' = [c \in Candidates |-> Unknown]
  /\ Mutate([status EXCEPT !.cand = [c \in Candidates |-> "pending"],
                           !.state = IF @ = "queued" THEN "running" ELSE @])
  /\ UNCHANGED <<spec, runs, stage1, raised, best, pareto, cache, reports>>

\* An entry is found by the backend and the arguments, which name the candidate.
Absent == Mark("absent")
Partial == Mark("partial")
Key(c) == <<spec.backend, c>>
Cached(c) == At(cache, Key(c), Absent)
WriteCache(c, v) ==
  cache' = [k \in DOMAIN cache \cup {Key(c)} |-> IF k = Key(c) THEN v ELSE cache[k]]

\* _eval: what evaluate returned, its power filled in.
Hold(c, m) == result' = [result EXCEPT ![c] = WithPower(spec, c[1], m)]

\* Mutant of Busy: a thread that has ended stays taken.
BusyForEver == {c \in DOMAIN worker : worker[c] # "submitted"}

Busy == {c \in DOMAIN worker : worker[c] \notin {"submitted", "ended"}}

\* A thread of the pool takes a candidate and looks into the cache. The file of
\* a run that was killed while writing it does not parse: evaluate raises.
Look(c) ==
  /\ worker[c] = "submitted" /\ Cardinality(Busy) < Most({1, spec.jobs})
  /\ \/ /\ Cached(c) = Absent
        /\ worker' = [worker EXCEPT ![c] = "simulating"]
        /\ UNCHANGED <<result, raised>>
     \/ /\ Cached(c) = Partial
        /\ worker' = [worker EXCEPT ![c] = "ended"]
        /\ raised' = TRUE /\ UNCHANGED result
     \/ /\ Cached(c) \notin {Absent, Partial}
        /\ worker' = [worker EXCEPT ![c] = "emitting"]
        /\ Hold(c, Cached(c))
        /\ UNCHANGED raised
  /\ UNCHANGED <<spec, runs, main, stage1, best, pareto, disk>>

Outcomes == {Evaluated(run) : run \in Simulations}

\* The process ends. Metrics and Infeasible are written to the cache alike, and
\* without the estimated power; opening the cache file empties it.
Simulated(c) ==
  /\ worker[c] = "simulating"
  /\ \E m \in Outcomes : result' = [result EXCEPT ![c] = m]
  /\ WriteCache(c, Partial)
  /\ worker' = [worker EXCEPT ![c] = "storing"]
  /\ UNCHANGED <<spec, runs, main, stage1, raised, best, pareto, status, reports>>

\* The simulator cannot be started at all: not Infeasible but an exception.
Fails(c) ==
  /\ worker[c] = "simulating"
  /\ worker' = [worker EXCEPT ![c] = "ended"]
  /\ raised' = TRUE
  /\ UNCHANGED <<spec, runs, main, stage1, result, best, pareto, disk>>

Store(c) ==
  /\ worker[c] = "storing"
  /\ WriteCache(c, result[c])
  /\ Hold(c, result[c])
  /\ worker' = [worker EXCEPT ![c] = "emitting"]
  /\ UNCHANGED <<spec, runs, main, stage1, raised, best, pareto, status, reports>>

\* The "candidate" event.
Emit(c) ==
  /\ worker[c] = "emitting"
  /\ Mutate([status EXCEPT !.cand[c] = IF result[c] = Infeasible THEN "infeasible" ELSE "done"])
  /\ worker' = [worker EXCEPT ![c] = "ended"]
  /\ UNCHANGED <<spec, runs, main, stage1, result, raised, best, pareto, cache, reports>>

(***************************************************************************)
(* Ranking and the end.                                                    *)
(***************************************************************************)

Passing == {c \in DOMAIN result : Satisfies(spec, result[c])}

\* Mutant of Raise: the pool is not waited for.
RaiseAtOnce ==
  /\ main = "pool" /\ raised
  /\ main' = "ended"
  /\ Mutate([status EXCEPT !.state = "failed"])
  /\ UNCHANGED <<spec, runs, stage1, worker, result, raised, best, pareto, cache, reports>>

AllEnded == \A c \in DOMAIN worker : worker[c] = "ended"

\* fut.result() raises what an evaluation raised, and leaving the pool waits for
\* the other candidates, which are not cancelled.
Raise ==
  /\ main = "pool" /\ raised /\ AllEnded
  /\ main' = "ended"
  /\ Mutate([status EXCEPT !.state = "failed"])
  /\ UNCHANGED <<spec, runs, stage1, worker, result, raised, best, pareto, cache, reports>>

\* Ranking and the "finished" event.
Rank ==
  /\ main = "pool" /\ ~raised /\ AllEnded
  /\ pareto' = ParetoFront(spec, Passing, result)
  /\ \/ /\ Passing = {} /\ UNCHANGED best
        /\ report' = IF \E c \in DOMAIN result : result[c].kind = "metrics"
                     THEN "slo" ELSE "evaluation"
     \/ \E b \in Passing :
          /\ \A c \in Passing : Score(spec, result[c]) <= Score(spec, result[b])
          /\ best' = b /\ UNCHANGED report
  /\ main' = "report"
  /\ Mutate([status EXCEPT !.best = best'])
  /\ UNCHANGED <<spec, runs, level, combos, allocs, worker, result, raised, cache, reports>>

\* write_reports
Report ==
  /\ main = "report"
  /\ reports' = TRUE /\ main' = "finish"
  /\ UNCHANGED <<spec, runs, stage1, worker, result, raised, best, pareto, cache, status>>

Finish ==
  /\ main = "finish" /\ main' = "ended"
  /\ Mutate([status EXCEPT !.state = "done"])
  /\ UNCHANGED <<spec, runs, stage1, worker, result, raised, best, pareto, cache, reports>>

\* The process is killed; nothing picks its job up again.
Crash ==
  /\ main \notin {"ended", "killed"} /\ main' = "killed"
  /\ worker' = <<>>
  /\ UNCHANGED <<spec, runs, stage1, result, raised, best, pareto, disk>>

\* run_spec again, over the same directory and spec.
Rerun ==
  /\ main \in {"ended", "killed"} /\ runs < MaxRuns[spec]
  /\ runs' = runs + 1 /\ main' = "start"
  /\ level' = 0 /\ combos' = {} /\ allocs' = <<>> /\ report' = "none"
  /\ worker' = <<>> /\ result' = <<>> /\ raised' = FALSE
  /\ best' = <<>> /\ pareto' = {}
  /\ UNCHANGED <<spec, disk>>

Solve == StartSweep \/ PowerLevel \/ Diversity \/ Anchors \/ EpsilonLevel
Evaluate == \E c \in DOMAIN worker : Look(c) \/ Simulated(c) \/ Fails(c) \/ Store(c) \/ Emit(c)
Conclude == Expand \/ Raise \/ Rank \/ Report \/ Finish
Next == Solve \/ Evaluate \/ Conclude \/ Crash \/ Rerun

\* Every thread runs on, and a simulation ends: its timeout sees to that.
Spec == Init /\ [][Next]_vars /\ WF_vars(Solve \/ Evaluate \/ Conclude)

(***************************************************************************)
(* Properties.                                                             *)
(***************************************************************************)

\* Above the demand by a thousandth of a proxy unit: what rounding can cost.
Ample(n) == Unit(spec) * ThrOf(spec, n) >= 1000 * spec.demand.toks + Unit(spec)

\* Stage 1 ranks no servable allocation above its first: in power-min mode it meets
\* the demand, and none that exceeds it by the rounding of the floor draws less, hosts
\* included; otherwise none has more throughput. The sweep's levels, the removal of
\* duplicates, the extra candidates and the cap together keep that
\* (solve_with_report).
FirstIsOptimal ==
  main = "solved" /\ allocs # <<>> =>
    IF IsPowerMin(spec)
    THEN \E m \in Allocations(spec) :
           /\ Signature(m) = allocs[1].sig /\ Meets(spec, m)
           /\ \A n \in Allocations(spec) :
                Ample(n) => DevicePower(m) + HostPower(spec, m) <= DevicePower(n) + HostPower(spec, n)
    ELSE \A n \in Allocations(spec) : ThrOf(spec, n) <= allocs[1].thr

\* Power-min planning comes back empty-handed only with a reason, and only if no
\* allocation exceeds the demand by the rounding of the floor. "demand": there are
\* allocations and each falls short. "structure": one meets the demand, so rounding
\* alone refused it. Any other word: the structural constraints allow nothing
\* (_diagnose_infeasible asks a second model, without the first one's floor).
DiagnosisSound ==
  main = "solved" =>
  /\ report # "none" <=> IsPowerMin(spec) /\ allocs = <<>>
  /\ report # "none" => \A n \in Allocations(spec) : ~Ample(n)
  /\ report = "demand" => Allocations(spec) # {} /\ \A n \in Allocations(spec) : ~Meets(spec, n)
  /\ report = "structure" => \E n \in Allocations(spec) : Meets(spec, n)
  /\ report \in {"memory", "links", "availability"} => Allocations(spec) = {}

\* What the simulator of the chosen backend makes of an instance's entry.
SimulatedTp(e) ==
  IF spec.backend = "legacy" THEN e.npu_num \div e.npu_group ELSE e.tp_size

\* A rendered cluster file says what stage 1 decided, whichever dialect its
\* backend reads: as many instances of each tensor parallel degree and role, on
\* the devices the node has (render, replicas, npu_num against npu_group).
RenderedAsPlanned ==
  main = "pool" => \A a \in ToSet(allocs) :
    LET file == Rendered(spec, a.sig)
        read(v) == {[hw |-> p[1].hw, role |-> p[1].pd_type, tp |-> SimulatedTp(p[1]), n |-> p[2]] :
                      p \in file.nodes[v].instances}
    IN /\ \A p \in a.sig : [hw |-> p[1].hw, role |-> p[1].role, tp |-> p[1].tp, n |-> p[2]]
                             \in read(p[1].node)
       /\ \A d \in spec.devices : d.node \in DOMAIN file.nodes =>
            SumFunction([i \in {e \in read(d.node) : e.hw = d.hw} |-> i.tp * i.n]) <= d.count

\* A terminal status is the last word: no late event of a candidate's thread
\* changes it (the pool is left only when all its threads have ended).
TerminalIsFinal == [][status.state \in {"done", "failed"} => UNCHANGED status]_vars

\* A job that says "done" has written its reports and has no candidate pending, but
\* for a dry run, which leaves all of them pending and names none the best. Otherwise
\* its best candidate, if any, passed and is dominated by none that passed, if every
\* objective counts.
DoneIsComplete ==
  status.state = "done" =>
    /\ reports
    /\ \A c \in DOMAIN status.cand : status.cand[c] = "pending" <=> spec.dry
    /\ spec.dry => status.best = <<>>
    /\ Watched /\ best # <<>> /\ (\A o \in ToSet(spec.objectives) : o.weight > 0)
         => best \in pareto
=============================================================================
