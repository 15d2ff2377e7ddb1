# LLM serving optimizer: formal models

TLA+ models of this repository: the reservation ledger and the service API over it, the path of a serve request
from its workload to its recommended devices, the life of a deployment and its monitor, the planner and its
server, the sweep runner and the candidates of the design-space server, and the event simulator of the measured
backend. TLC checks them on small instances; TLAPS proves every safety property that a run checks for every value
of the constants. `PROJECT.json` lists the runs, the mutants that show each property can fail, the source lines behind
every definition, the hazards the properties are aimed at and the theorems.

## 1. The system

| Component | State it keeps | Operations | Talks to |
|---|---|---|---|
| Reservation ledger (`service/inventory/ledger.py`) | SQLite: reservation rows, `meta.version` | `snapshot`, `reserve`, `release` | called by the service API and the deployment manager |
| Serve-request API (`service/api/routes.py`) | `ServiceState.jobs`, in memory | submit, `_run_job`, confirm (with re-plan and auto deploy), release, status, events | ledger, planner, topology, deployments |
| Deployment API (`service/api/deployment_routes.py`) | none | `deploy_from_job`, create, terminate, metrics, logs | deployment manager, monitor |
| Deployment manager (`service/deploy/manager.py`, `store.py`, `state.py`) | SQLite: deployments and audit log | `create`, `_bring_up` (a thread each), `terminate` (a thread each), `recover`, `reconcile` | docker driver, ledger, monitor |
| Docker driver and launcher (`service/deploy/docker_driver.py`, `vllm_launcher.py`, `spec.py`) | containers | pull, run, stop, rm, list | docker |
| Monitor (`service/monitor`) | one thread, one collector, one SLO checker and ring buffers per steady deployment | attach, detach, `_loop`, `sample`, `push`, `push_power`, `summary` | deployment store, model server, nvidia-smi |
| Topology (`service/topology`) | none | promotion, affinity, available topology, placement, discovery | planner, API |
| Fidelity router, presets, workload synthesis (`service/*.py`) | none | pure functions of a request | API |
| Planner (`planner`) | evaluation cache and reports on disk | placement by CP-SAT, rendering, evaluation in a pool of threads, ranking | simulators |
| Planner server (`webapp/planner_server`) | `status.json` of each background job | submit, events, files | planner |
| Sweep runner and result cache (`webapp/runner.py`, `sim_cache.py`) | `status.json` and result cache on disk; queues, processes and cancel flags in memory | `run_sweep`, `_run_one_config`, cancel, finalize, subscribe | simulator subprocesses |
| Enumeration and cluster files (`webapp/enumerate.py`, `hardware_catalog.py`, `cluster_builder.py`, ...) | none | layouts of a scenario, validation, rendering | sweeps, DSE |
| DSE core and server (`webapp/dse`) | one directory per job | generate, filter, predict, retry rounds, rank; submit, cancel, delete, events | sweep runner |
| Simulation backends (`sim_backends`) | event heap of the measured simulator | adapters, event simulation, oracles | planner, sweeps |
| Web shell, front ends, studies (`webapp/app.py`, templates, `scripts`, `validation`, ...) | none of their own | pages, start-up recovery, reconcile timer, one-off scripts | everything |

What is hard in it:

- **Ledger and API.** Handlers run in a thread pool and take no lock on the `Job` they change; only the
  ledger's transactions are atomic. Plans are computed from snapshots that go stale, and a refused confirm
  plans again into the same job. Jobs are lost in a restart, reservations are not.
  *Correct means*: no device is held twice; a request gets devices once and gives them back once; a confirmed
  job holds what its recommendation shows; every planning run ends.
- **Planning a request.** The free hardware, the degrees each backend has evidence for, the backend and its
  confidence, the demand, the optimum, the simulated candidates, the power cap and the devices are decided one
  after the other, while other tenants move. *Correct means*: stage 1 proposes only what the backend can evaluate;
  the recommendation is the least power that passes; its devices are distinct and of the right kind; every run ends.
- **Planner runs.** A pool of threads fills a cache on disk and mirrors progress into a status; evaluations
  raise, the process is killed, a directory is used again; demands and capacities are scaled in floating point and
  rounded. *Correct means*: the first candidate is optimal, nothing that clearly meets the demand is refused, a
  terminal status is final and complete.
- **Deployments.** A bring-up worker, any number of terminate calls, the monitor and the reconcile timer write
  one row whose transitions are a check and a later write. Docker calls fail and their failures are swallowed; the
  bring-up may raise after it has written READY. The service restarts at any point. *Correct means*: devices are freed after the container is gone; an ended
  row has no container; nothing is abandoned in mid-flight; terminations end.
- **Monitoring.** Cumulative histograms, overlapping windows, failed scrapes, rings that wrap. *Correct means*:
  the verdict follows the load of the window; averages lie between the samples.
- **Sweeps.** One asyncio loop runs jobs of many candidates under a semaphore, with subprocesses, timeouts,
  SIGTERM and SIGKILL, retry rounds that merge into earlier results, cancels and deletes at any suspension,
  and pages that wait for a terminal event. *Correct means*: jobs end, as cancelled when they were cancelled;
  no more simulators than fit in memory; outcomes are final; nothing is left running.
- **Candidates of a sweep.** Labels are keys of the status and file names; filters prune by arithmetic on sizes.
  *Correct means*: a name is one simulation; nothing good is pruned; what is proposed can be built.
- **Event simulator.** Admission, queues, hand-offs and routing at shared instants. *Correct means*: tight and
  first-come-first-served admission, fair routing, every request served.

## 2. Modules

| Module | Models | Way to look at it |
|---|---|---|
| `Reservations` | what the ledger promises: grant free devices at most once, give all back | abstract specification |
| `ServiceJobs` | ledger + serve-request API + the effect of deployments on both | interleavings of handlers, workers, restarts |
| `DeployLifecycle` | manager, store, state machine, docker, monitor, reconcile for one deployment | interleavings, failures, restarts |
| `SweepRunner` | one design-space job: runner, retry loop, cancel, delete, event stream | asyncio suspensions, processes, timeouts |
| `EventSim` | `event_sim.py`, `capacity_curve.py`, the cluster of `backend.py` | a discrete-event scheduler, step by step |
| `Workload` | presets, traces, demand | pure operators |
| `Evaluation` | the guarded simulator process, its metrics, the requirements (extends nothing of the project) | pure operators |
| `PlanSpec` | a spec's validity, size of the model, power, units (extends `Evaluation`, `Workload`) | pure operators |
| `Placement` | templates, structural constraints, optima, rendering (extends `PlanSpec`) | pure operators |
| `PlannerJob` | a planner run and the server's job (extends `Placement`) | threads, cache, kills, reruns |
| `Topology` | registry, promotion, affinity, placement of groups | pure operators |
| `ServePlan` | a serve request end to end (composes `PlannerJob`, `Topology`, `Workload`) | a request against other tenants |
| `Enumerate` | the layouts of a scenario | pure operators |
| `DseSpace` | candidates, filters, prediction, fabric, validation (extends `Enumerate`) | pure operators |
| `DseRanker` | SLO filter, frontier, scores, list of the best | pure operators |
| `DseJob` | a design-space job from spec to ranking (composes the three above) | retry rounds, sampling |
| `Monitoring` | collector, window, verdict, power ring and energy | numeric behaviour against a reference |
| `Ordering` | stable sorting of lists by keys, as Python sorts | pure operators |
| `DataTheorems` | facts about the operators the modules are built from: sums, folds, sorted and joined lists, finite sets | TLAPS |
| `...Proof` | theorems of `ServiceJobs`, `DeployLifecycle`, `SweepRunner`, `ServePlan`, `EventSim`, `DseJob`, `Monitoring` | TLAPS |
| `MC...` | the constants and symmetries of the runs | TLC |

`ServiceJobs` and `ServePlan` are two views of one request. `ServiceJobs` has the job and its races and takes the
plan as any choice of free devices; `ServePlan` has what the plan is computed from and one request at a time.
`DeployLifecycle` and `Monitoring` meet in `SLOChecker.push`: a breach or not is a choice in the first, and is
computed in the second. `SweepRunner` and `DseJob` meet in a round: its processes are steps of the first, its
candidates are computed in the second.

An operator written above another with a comment "Mutant of ..." is a plausible bug in it; no specification uses
it. It shows that a property notices.

### ServiceJobs

A thread of the server is a record: the step it is at, its job, the endpoint it serves, and its local plan.
Steps are cut where another thread can see or make a difference: each SQLite transaction, each `SELECT`
outside one, each read and each write of a `Job` field.

| Code | Model |
|---|---|
| reservation rows, `meta.version` | `booking`, `booked`, `version` |
| `Job.state`, `Job.result` | `state`, `result` (a plan: ledger version and devices) |
| deployments made from jobs and their containers | `deployment`, `deployed` |
| `submit` and the worker it starts | `Submit`, then `RunStart` ... `PublishState` |
| `Ledger.snapshot` (two `SELECT`s) | `SnapVersion`, `SnapFree`; the second snapshot that picks the devices is `Pick` |
| `confirm` | `StartConfirm`, `ReadResult`, `Reserve` or `Replan`, `ReplanCheck`, `ReplanWrite`, `ConfirmWrite`, `Deploy` |
| `release` | `StartRelease` (its transaction comes first), `ReleaseWrite` |
| manager's `terminate` and failures, as the ledger sees them | `TerminateStop`, `TerminateRelease`, `DeploymentFails` |
| restart | `Restart`: jobs and threads go, the database stays |

The planner is a choice of any free devices (or none, infeasible, or an exception). Which devices of a
pool it takes does not matter to it, so `Pick` may take others of the same shape.

Clients come with two disciplines, both constants. `SerialClients`: a client waits for the answer to a call
about a job before the next one about it. `RashReleases`: a client may release a job whose confirm is not
yet answered or whose deployment runs. The ledger's properties are checked and proved without any discipline;
the two that hold only with one (`ConfirmedHoldsPlan`, `LiveDeploymentIsBooked`) say so, and `jobs_race`
shows what happens to them without.

### DeployLifecycle

Deployments share nothing but the reconcile loop, which handles them one by one, so one deployment is
modelled, with every actor that works on it: `up` (the bring-up worker), `term` (each terminate call's
thread), `mon` (the monitor loop and its SLO checker), `rec` (reconcile). `DeployStore.transition` selects
the row, checks `state.py`'s table and updates the row without a condition on its old state; sqlite3 opens a
transaction only at the update. Every transition is therefore a `...Check` step and a `...Write` step.

| Code | Model |
|---|---|
| `deployments.state`, `ALLOWED`, `check_transition` | `row`, `ALLOWED`, `Allowed` |
| the container, the reservation | `box` (absent, running, exited), `held` |
| `create`, `_bring_up`, `_force_pending`, `_rollback_containers` | `Create`, `UpCheck` ... `UpRewind` |
| what follows the write of READY inside the `try`: the trailing read of `transition` (`store.py:107`), `on_ready` | `UpAttach`, which may raise; `MonDead` if the loop's thread could not start |
| `terminate`, `on_stopped`, `_release` | `TermStart` ... `TermRelease` |
| `MonitorRuntime._loop`, `SLOChecker.push` | `MonEnd`, `MonBreach`, `MonFine`, `MonCheck`, `MonWrite` |
| `reconcile`: ids, then rows, then containers, then acts | `RecSelect`, `RecGet`, `RecList`, `RecRemove`, `RecCheck`, `RecWrite` |
| `recover` after a restart | `Restart` |
| a crashing model server, an operator's `docker rm` | `ContainerExits`, `ContainerRemoved` |

`mishap` is a history variable: a bring-up has raised after its row said READY (`manager.py:93-111`). Its container
is then removed and the row, whatever others have made of it, rewound to PENDING for the next attempt, or written
FAILED after the last. Other errors of SQLite are not modelled.

The health deadline and the drain timeout may pass at any moment. A sample is a breach or not. Docker's
swallowed errors are the constant `DockerFails`. A tenant releases only what a FAILED deployment has kept;
releasing under a live one is `RashReleases` above.

### SweepRunner

`run_dse_job` over `run_sweep` on one asyncio loop. A step runs from one real suspension to the next: a full
semaphore, `create_subprocess_exec`, `proc.wait`, a worker thread, `gather`. The status lock never suspends,
because nothing awaits inside it, so writing `status.json` and broadcasting are part of the step.

| Code | Model |
|---|---|
| the coroutine of `_execute_job` / `run_dse_job` | `main`, `round`, `tried`, `untried` |
| `status.json` | `sweep`, `config` |
| `_cancel_flags`, `_running_procs`, the semaphore | `cancel`, `listed`, `limit` and `permits` |
| `_run_one_config` of each candidate | `task` |
| simulator processes, and what `cancel_sweep` signalled | `proc`, `signalled` |
| `generate_candidates` with its cap and exclusions | `Batches`: any batch of the right size |
| submission up to the first `gather` | `Start` |
| retry loop, `finalize_sweep` | `Failures`, `LastRound`, `Retry`, `Finalize` |
| semaphore and flag checks | `Begin`, `Acquire`, `DropCancelled`, `Enter` |
| subprocess, timeout, SIGTERM, SIGKILL | `Spawned`, `Ended`, `TimesOut`, `Kill` |
| clean-up, success check, log excerpt, parse | `Cleaned`, `Checked`, `Excerpted`, `Parsed` |
| cancel, delete, event stream | `Cancel`, `Delete`, `Connect`, `Disconnect`, `Receive` |

A hit in the result cache, a missing dataset and an exception are choices of `Enter`. The event queue is
reduced to its terminal event. Not modelled: errors in writing files, a queue of 1024 unread events
overflowing, restarts of the server, other jobs (they share only the cache).

### PlannerJob and what it extends

| Code | Model |
|---|---|
| `PlannerSpec` and its validators, `resolve_toks_per_s`, `validate_against_repo` | `Valid`, `Resolved`, `Problems` |
| `estimate_weight_bytes`, `model_precision`, `_memory_feasible` | `Params`, `WeightBits`, `KvBits`, `MemoryFits` |
| `power_profiles.py`, `_node_host_base_w`, `allocation_power_w` | `ActivePower`, `EffectivePower`, `NodeHostBase`, `AllocationPower` |
| `_enumerate_templates`, `_build_base_model`, `_add_flow_constraints` | `Templates`, `Structural`, `Routable` |
| a call of CP-SAT | any optimum: `PowerMin`, `MaxThroughput`, `MinDevicePower` |
| `_solve_power_min`, its diversity pass, the epsilon sweep, `_diagnose_infeasible` | `PowerLevel`, `Diversity`, `Anchors`, `EpsilonLevel`, `Diagnosis` |
| `config_renderer.render` | `Rendered`, checked as a function of the allocation |
| the thread pool of `run_spec`, `evaluate`, the cache's files | `worker`, `Look`, `Simulated`, `Fails`, `Store`, `Emit`; `cache` |
| `run_guarded`, `parse_metrics_csv`, `evaluate`'s ways to fail | `Guarded`, `Metrics`, `Evaluated` |
| `check_constraints`, `check_demand_attainment`, `score`, `pareto_front` | `Satisfies`, `Sustained`, `Score`, `ParetoFront` |
| expansion, and the returns of `run_spec` without allocations or in a dry run | `Expand`; `spec.dry` |
| ranking, reports, `status.json` | `Rank`, `Raise`, `Report`, `Finish`, `Mutate` |
| a killed process; the same directory used again | `Crash`, `Rerun` |

An allocation is a function from templates to counts. Throughput is counted in thousandths of a proxy unit and links
in thousandths of a GB/s, as the solver's integers are (`_THR_SCALE`, `_FLOW_SCALE`). `int(round(...))` of a capacity
(`milp_solver.py:290`) is `Rounded`, `math.ceil` of the demand (`:467`) is `Ceiling`. The code scales quotients in
floating point before it rounds, so a quotient that is a whole number (or a half) may land above it:
`math.ceil(16.1 * 1000)` is 16101. The constant `RoundsUp` says for which arguments; `MCServePlan` gives it what Python
computes for the specs at hand, and the theorems hold for any `RoundsUp`. `_diagnose_infeasible` compares without
rounding (`Meets`). The flow of KV over links exists iff every set of nodes without a decode instance can export what
it produces, which is what `Routable` says. A cache entry is Absent, Partial (opened for writing, not yet written) or what was measured. The
simulators are external: an element of `Simulations` says what a process does at each poll, how it exits, and
what its CSV holds.

### ServePlan

| Code | Model |
|---|---|
| `Ledger.snapshot`, `available_topology` at the start and at the end | `free`, `AvailableTopology`; read by `Plan` and again by `Answer` |
| `model_tp_catalog`, `preferred_tp_options` | `Catalog`, `Preferred` over the ladder measured, upstream, legacy |
| `fidelity_router.route` | `Route` |
| what the routed backend cannot evaluate is dropped | `Restricted`, `Routed` |
| `synthesize`, `proxy_toks_per_unit`, `eval_jobs`, `measured_capacity` | `RatesOf`, `ProxyUnit`, `EvalJobs`, `MeasuredCapacity` |
| `_default_planner` | `ServeSpec`, `Begin`, then the planner's steps (`Engine`) |
| the power cap | `Winners` |
| `place_groups`, the affinity of devices | `GroupsOf`, `Picks`, `Chosen` |
| other tenants | `Move` |
| a conflict at confirmation | `Replan` |

The same specification starts either with a request or with a job of the planner server (`phase = "direct"`),
so the planner's properties are asked of both.

### EventSim

A pass of the main loop is the phases arrivals, transfers, prefills, decodes. A request is in one structure
(`where`), at an instance (`at`); the deques are `queue`. Fractional decode progress is counted in units of work
that every TPOT divides, so nothing is rounded except the next event's time, which the code rounds up as well.
Requests that complete in one phase complete in any order. `LighterThan` compares the keys of weighted routing without
dividing; a weight that is not positive has the key infinity, so that a pool of only such weights serves from its
first instance alone.

### DseJob and what it extends

Layouts, labels and roles of `enumerate.py` are sets and tuples (`Combined`, `PdSplit`, `MultiGroup`); the filters of
stage 1 are one predicate each; `Survivors` and `Samples` are `generate_candidates`; `Decompose` and `Links` are
`interconnect.py`; `ValidSpec` is what `cluster_builder` accepts. `Generate`, `RunRound`, `Retry` and `Rank` are
`run_dse_job` with a round as one step. Scores are rounded to four digits, as `ranker.py` rounds them, and lists are
sorted stably (`Ordering`), so ties are broken as in the code.

### Monitoring

One iteration of `_loop` is one step: a scrape that may fail, `Push` into the window, a power sample that may
fail. `P95` is the bucket of the quantile, the last finite one for a quantile in the `+Inf` bucket, and a target is a
bucket too: at or above the last finite edge nothing ever breaches. `InWindow` drops old samples from the front, as the
deque does. Three history variables (`scrapes`, `events`, `pushed`) say what really happened; the properties compare the
checker and the ring with them.

## 3. Runs

| Run | Question | Bounds |
|---|---|---|
| `jobs_any` | What holds whatever clients do? | 2 jobs, 2 threads, 2 devices of one pool, restarts without limit |
| `jobs_serial` | What may well-behaved clients rely on? Does planning end? | 2 jobs, 2 threads, 3 devices in 2 pools, deployments |
| `jobs_race` | *violation*: two confirms of one job | 2 jobs, 2 threads, 2 devices |
| `deploy_safety` | Is anything freed early, left behind, abandoned or rewound? | 2 attempts, threshold 2, 2 terminate calls, 2 restarts, outside removals |
| `deploy_live` | Do bring-ups and terminations end; is a lost container noticed? | the same without restarts |
| `deploy_table` | *violation*: transitions outside the table | 1 attempt, threshold 1, 2 terminate calls |
| `sweep` | Does a job end, bounded, clean, and cancelled when cancelled? | 3 candidates, first batch of 2, at most 3 retry rounds, semaphore of 2 |
| `sweep_cancel` | *violation*: cancel signals every process | as `sweep` |
| `planner` | Is the recommendation right, and does every run end with its true status? | 19 submitted specs (2 of them refused), 10 requests; a registry of 3 a, 1 b and 1 NPU; one spec with 2 runs over one directory; 2 plans and 1 move by others per request; 8 outcomes of a simulation |
| `dse` | Are candidates distinct, buildable, not lost; is the ranking justified? | 7 job specs of 3 NPUs (4 for the fabric), 4 measurements, 3 retry rounds |
| `event_sim` | Is admission tight, in order and fair; is every request served? | 4 requests, 6 clusters (one instance; replicas; three weights and caps; weights of 0; prefill + decode; decode only), 18 workloads |
| `monitor` | Does the verdict follow the load, the average the power? | 4 loads, 2 targets (one at the last finite bucket), gaps of 1 or 2, time up to 4, window 1, 2 consecutive, ring of 3 |

### What the passing runs show

- `jobs_any`: no device is double booked (`NoDoubleBooking`). A published plan with the current version names
  only free devices (`CurrentPlanIsFree`), although a snapshot is two reads and the devices come from a later
  snapshot than the version; it holds because the version is read *first*. The whole implements `Reservations`.
- `jobs_serial`: a confirmed job holds what its recommendation shows, a live deployment sits on its own
  reservation, and every planning run ends.
- `deploy_safety`: whoever frees the devices does so after the container has gone and an ended row is clean, unless
  a bring-up raises behind READY (`mishap`); a mid-flight row has a worker; and `_force_pending`, which ignores the
  table, takes a deployment down that has left mid-flight only after such a mishap. The lost updates of
  check-then-write are in the model; these properties survive them.
- `deploy_live`: liveness under the same interference, and agreement of the SLO checker with the row.
- `sweep`: concurrency, cleanliness, finality, no spawns after a cancel, and the cancel that wins
  over retry rounds; every job ends and every page that watches it is told.
- `planner`: stage 1's first allocation is optimal in both modes, with hosts counted once: in power-min mode it meets the
  demand, and none that exceeds the demand by a thousandth of a unit draws less. That margin is what rounding costs;
  the run has specs where the code refuses or overlooks an allocation that meets the demand exactly. A power-min run
  comes back empty only with a report, and only if nothing the constraints allow exceeds the demand by the margin; "demand"
  and "structure" then tell whether anything meets it (`DiagnosisSound`). The cluster file says what was planned in either dialect; a job that
  says done has everything and its best is on the front (if every objective counts), and a dry one names no best; a terminal status is final although threads outlive a
  failure; stage 1 is given only what the routed backend can evaluate; the recommendation is the least power among
  what passed under the cap, and its groups get distinct devices of their kind in their own order, whatever others
  reserve meanwhile (a shortage fails the job instead); every run ends.
- `dse`: one name is one simulation, dropping equal labels loses none; what is enumerated passes the validation that
  the simulator's cluster file goes through; the early-out on summed memory drops nothing the exact filter would
  keep; the list of the best shows each hardware distribution once, by its best, and nothing on the frontier scores
  more than its first. The first need not be on the frontier itself: the four digits of a score may tie a dominated
  candidate with the one that dominates it.
- `event_sim`: no gap between an instance's bound and its queue, in any phase, with hand-offs; requests routed to an
  instance are admitted in order of arrival; routing is never more than one request off the weights, and instances without a weight
  serve only where no instance of the pool has one; every
  request is served, in all modes, so the loop's `break` on an empty event list never strands a queue.
- `monitor`: DEGRADED exactly when the windows of the last two scrapes all hold a slow interval, across failed
  scrapes and varying gaps, and never for a target beyond the finite buckets; the calibration record's average power lies between the samples.

### What the violations show

Each quotes, in `PROJECT.json`, the document or comment it contradicts.

1. `jobs_race`. The grant to one confirm raises the ledger's version; another confirm of the same job, with the same
   recommendation, is refused as stale (`ledger.py:117-122`) and re-plans into that job. The deployment then
   starts on devices that the job never reserved, and two containers come to share a device.
2. `deploy_table`. The monitor writes DEGRADED over DRAINING; the terminate thread dies of `InvalidTransition` after
   it has removed the container and keeps the reservation, until reconcile notices the missing container
   and writes FAILED (`TerminationEnds` holds, by way of FAILED).
3. `sweep_cancel`. A process being created when the job is cancelled misses its SIGTERM and runs on.

### Observations without a run

Met while modelling; each is plain from the lines named, or from a model under other constants.

- After a restart a reservation without a deployment can be released by nobody: `release` looks the job up in
  memory first (`routes.py:606`). A job that was running when the service stopped is lost with its client.
- `recover` resumes mid-flight and steady rows only: a DRAINING or STOPPED row stays as it is, with what it holds
  (`manager.py:165`; `DeployLifecycle` with restarts has no termination).
- If the bring-up raises after the write of READY (`manager.py:93-111`), `_force_pending` rewinds whatever the row says:
  a terminate call that runs meanwhile may free the devices and the next attempt start the container again on
  them, or its DRAINING or RELEASED row may turn PENDING and the deployment come back. The properties about
  freed devices, ended rows and terminations therefore except such a mishap.
- A release while a confirm of the same job stands between its reservation and its write of `confirmed` leaves a
  confirmed, perhaps deployed, job with nothing reserved (`routes.py:606`), and a release of a deployed job frees the
  devices under its container. `SerialClients` and `RashReleases = FALSE` rule these out where properties need it.
- `rm` swallows its errors (`docker_driver.py:98`), so with `DockerFails` devices are freed under a container, and a
  DRAINING row overwritten by DEGRADED may keep its stopped container for ever.
- A checker re-attached after a restart is not degraded (`slo_checker.py:39`): a DEGRADED row is not restored by
  good samples until there is another breach. `DegradedIsRemembered` is asked without restarts.
- A failed candidate is counted again in every later round, so it is replaced more than once (`dse/core/runner.py:116`).
- Timeouts and crashes of a simulator are cached as infeasible like a verdict (`sim_evaluator.py`); entries are
  written in place, and a torn one makes every later run over the directory raise.
- When the routed backend has no entry for the model at all, the restriction to its degrees is skipped
  (`routes.py`, `if routed_cat`); a forced backend then meets templates it cannot evaluate. `PlansWhatItCanEvaluate` says so.
- The floor of the demand may be a thousandth of a unit above it (`milp_solver.py:467`): an allocation that meets a demand of
  16.1 units exactly is refused, and the report says "structure", which stands for an interaction of constraints.
- `types.py:117-119` calls the bottleneck of a report the family that blocks. "memory" is also the word when the degree
  exceeds the number of devices or the allowed degrees (`milp_solver.py:403-410`), and "links" whenever links exist and
  the disaggregated model is unsatisfiable (`:435`), though devices may be what is short. `DiagnosisSound` claims no more
  of these words, and of "availability", than that the constraints allow nothing.
- A dry run ends `done` with all its candidates pending (`search_orchestrator.py:146-150`); `DoneIsComplete` says so.
- When the cap rejects every candidate that passed, the answer is infeasible without a report of its own.
- Once the power ring has wrapped, the energy of everything is divided by the span of the ring: the average is too
  high. `AverageIsPower` is asked as long as the ring holds all samples.
- The log stream compares a count of lines with a ring of 5000 and stops for ever once it is full
  (`deployment_routes.py:127`).
- `config_renderer`'s docstring gives the tensor parallel degree as `npu_group`; the code writes `npu_num = tp`, `npu_group = 1`,
  which is what the simulator reads as that degree (`RenderedAsPlanned`). `enumerate`'s docstring counts 11 layouts for
  four A6000 where the code has 14.
- The weight of an objective is any number (`planner/spec_schema.py:74`): with one that is 0 or negative the best
  of a job may be dominated. The clause of `DoneIsComplete` about the front asks for weights above 0.
- An admission cap of 0 would strand a queue in the event simulator (`event_sim.py:241`); the caps of the curves and of
  `event_sim`'s clusters are 1 or more, and `AllServed` is asked under that.
- Ids of planner and design-space jobs have a resolution of one second.

### Bounds, and why they are enough

Two jobs and two threads are what a conflict takes: one request holds, one asks, and a second thread is inside
the first one's job. Three devices in two pools add partial overlaps and shapes. Two terminate calls and
one of each other actor give every pair of writers of the row; with threshold 2 the SLO checker has a state
between fine and degraded; with `Retries = 1` there is a first and a last attempt. Three candidates with batches of
two give contention for the semaphore, a retry round after a round with two candidates, and two retry rounds
in a row. No counter is cut off but `restarts` (`MaxRestarts`): versions are bounded because a
request reserves and releases at most once.

The specs of `planner` are one for each way through stage 1 and the requests one for each return of
`_default_planner`: both sweeps, the cap, the diversity pass, disaggregated serving with and without links, every
diagnosis, a demand whose floor floats round up (refused, and met by a dearer allocation), a dry run, quantized weights, measured capacity, each rung of the ladder. `MaxRuns` bounds the runs over one directory:
two, for the spec with two batch sizes, give a run that meets what a killed run left. `MaxMoves` = 1 on two contested
devices gives a shortage at the second look and a conflict at confirmation; `MaxPlans` = 2 a re-plan. `Draws` has a
length inside the cap and one beyond it; `MaxArrivals` = 2 a trace with an arrival, with two and with none.

`dse` has random and grid sampling, all filters, one and several kinds of cards, disaggregated layouts and a fabric
with two tiers. Four requests in `event_sim` are two at once against one queued behind each of them; the workloads
have equal arrival times, gaps, and hand-offs that overtake. `MaxTime` = 4 of `monitor` lets two scrapes breach,
recover, and the ring of three overflow.

Symmetry (threads, terminate calls, devices of a pool, jobs with equal deployment wishes) is used only
where no liveness is checked. Deadlock checking is off everywhere: clients stop calling, jobs and simulations end,
and time is bounded in `monitor`.

### Fairness

- `ServiceJobs`: weak fairness of each thread's steps. Threads of the pool are scheduled and the planner returns;
  clients need not call and the server need not restart.
- `DeployLifecycle`: weak fairness of the bring-up worker, each terminate call once started, the monitor and
  reconcile. Pull, poll and drain have timeouts in the code; reconcile runs on a timer. Nobody must call
  terminate. `deploy_live` takes docker to work.
- `SweepRunner`: weak fairness of each task, of the retry loop and of reading the queue. Simulators need
  *not* end: `TimesOut` and `Kill` are what makes jobs end.
- `ServePlan`: weak fairness of the service's thread and the planner's together; `run_guarded`'s deadline ends
  every simulation. Nobody need kill, reserve, rerun or confirm.
- `EventSim`: weak fairness of its only thread, which never waits.
- `DseJob` and `Monitoring` are asked for safety only.

## 4. Proofs

`ServiceJobsProof` proves, for any number of jobs, devices and threads:

- `TypeCorrect`: the type invariant.
- `LedgerInvariant`: the inductive invariant behind the rest. Neither safety property is inductive alone: a plan
  on its way into `Job.result` sits in a thread first. The invariant says that no plan or thread carries a version
  ahead of the ledger's; that a plan which carries the *current* version, in a job or in a thread, names only
  free devices; that rows hold devices only while reserved; and that rows are disjoint. Every commit raises the
  version, which falsifies the premise of all older plans at once, and a step that does not commit
  changes neither version nor free devices.
- `NeverDoubleBooked`, `CurrentPlansAreFree`: from it.
- `LedgerRefinesReservations`: every step maps to a grant, a give-back or a stutter of `Reservations`.
- `RunningJobsHaveWorkers`: a running job has a worker (`RunningHasWorker`), from its own inductive invariant. No run
  asks for it: the theorem covers every instance.
- `ConfirmedJobsHoldTheirPlan` (`ConfirmedHoldsPlan`), for clients that wait for their answers (`SerialClients`): from
  `SerialInv`. At most one call is about a job at any time, so the plan a confirm has read is still the one in
  `Job.result` when it reserves, and from the reservation to the deployment the job holds exactly that plan.
- `LiveDeploymentsAreBooked` (`LiveDeploymentIsBooked`), for clients that also terminate before they release
  (`~RashReleases`): from `SerialInv`; a deployment is made only from a job whose reservation still stands.

`DeployLifecycleProof` proves, for any retries, threshold, number of terminate calls and restarts:

- `TypeCorrect`: in particular attempts never exceed `Retries + 1`.
- `LifecycleInvariant`, assuming docker's removals work (`DockerFails = FALSE`): which actors can be where in which
  state of the row - for instance that a bring-up worker is busy in mid-flight, that nobody frees before
  the container is gone, that a pending write of the monitor or of reconcile presupposes a deployment that has left
  mid-flight. Written out because each conjunct needs the others: a lost update lets the row jump, and only
  what the *other* threads can still write keeps it from jumping back into mid-flight.
- `DevicesFreedAfterRemoval`, `EndedDeploymentsAreClean` and `RewoundOnlyByMishap` (`RewoundOnlyAfterMishap`): from it. The
  conjuncts about who may write what hold until a mishap; after one the invariant still says that only the bring-up's
  own pending write or rewind can bring a mid-flight row back. The assumption cannot be dropped from the first two.
- `MidFlightDeploymentsHaveWorkers` (`MidFlightHasWorker`): whatever docker does and wherever the bring-up raises.
- `CheckerRemembersDegraded` (`DegradedIsRemembered`), if nothing restarts (`MaxRestarts = 0`) and whatever docker does:
  from `MemoryInv`, which relates the checker's memory to the row and to the writes still pending against it.

`SweepRunnerProof` proves, for any finite set of candidates and any number of rounds and permits:

- `RunnerInvariant`: free permits and the tasks inside the semaphore add up to the semaphore's size (counted with
  the cardinality theorems of the library); only such a task's process is alive; a candidate's outcome is written in
  the step that ends its task; what a retry round may draw has neither a task nor an outcome. `ConcurrencyBounded` is
  not inductive without the first two, nor `SettledIsFinal` without the others.
- `TypeCorrect`, `SimulatorsAreBounded`, `JobsEndClean`, `OutcomesAreFinal`, `NothingSpawnsAfterCancel`: from it.
  Every step of a task is first shown to be a `Moves` and a `PermitMoves` step, so that the invariant is proved
  once for all ten of them.

`ServePlanProof` proves, for any registry, ledger, profiles, requests and specs, any number of threads, candidates and
runs:

- `StatusInvariant`: outside the pool every thread has ended, and in the first run a terminal status means that the
  run is over. It is why a late "candidate" event cannot reach a final status.
- `StatusIsFinal`: from it (`TerminalIsFinal`).
- `PlansAreEvaluable`: through the ladder, the router and the restriction, every template of stage 1 has hardware and a
  degree that the routed backend's catalog lists (`PlansWhatItCanEvaluate`). It is inductive as it stands: only `Plan`
  begins to plan, and there the proof follows the degrees from the router through `Restricted` into the spec's
  `Templates`; every other step leaves spec, route and request alone while the planner works.
- `GivenInvariant`: what a run is given keeps its types: the ledger names finitely many devices of the registry, the
  trace has a rate. `ServeSpecIs` follows them into the spec that a request is turned into.
- `StageInvariant`: the inductive invariant of stage 1 (`StageInv`). That the first allocation is optimal says
  nothing while the solver is at work, so the invariant says of each phase what is true *so far*: the list holds
  allocations of the spec only; in the power levels its first one draws least among *all* that clear the rounded floor;
  the epsilon sweep knows the ends of its range and that its upper end has the most throughput. The optima of the
  solver are shown to exist (allocations are finitely many), sums of power to be numbers and, where a host is counted
  once per node, to be what `TotalPower` adds up; the last level of the sweep is shown to allow
  all the power of its upper end, despite the rounding of the levels, so that the most throughput is found.
- `FirstOfStage1` (`FirstIsOptimal`), `DiagnosisIsRight` (`DiagnosisSound`): from it and from `FloorIs`: however floats
  round (`RoundsUp` is any set), what clears the floor meets the demand, and what exceeds the demand by a thousandth of a
  unit clears the floor. The solver and the diagnosis thereby ask two models, which differ by that margin only.
- `FilesAsPlanned` (`RenderedAsPlanned`): from the fact that what stage 1 lists are allocations. Reading a cluster
  file back adds up to the plan in either dialect, instance by instance, and no node is asked for more than it has.
- `EvalInvariant`: the inductive invariant of stage 2 (`EvalInv`): threads, results and the cache on disk - also one
  left behind by a killed run - hold metrics that can be ranked, and who was measured has a power, reported or
  estimated.
- `MirrorInvariant`, and from it `DoneJobsAreComplete` (`DoneIsComplete`): a candidate whose thread has ended is
  pending in the status only if the run has raised, so that a job that reports has none pending; a dry run never opens
  the pool and never writes a best. The best is on
  the frontier because dominating someone means scoring more when all weights are above 0.
- `AnswerInvariant`, and from it `AnswerIsLeastPower` (`BestIsLeastPower`): the spec of a request aims at power alone,
  so its best has the least power of those that passed; it names only hardware that was not excluded, and so does
  every candidate. The cap then picks among those that passed, not only the best.
- `GroupsGetDevices` (`GroupsGetTheirDevices`): each group picks from what is free of its node and kind and not yet
  picked by another (`Fitting`, kept by every pick, whatever the order of picking). The sorted combinations of a
  size exist and have a first among those of most affinity, since affinity is a number and `Before` a strict order;
  joining the picks in the order of the groups puts each where the property looks for it (`FlattenSeqIs`). An answer
  that would be short fails the job. The property itself is inductive given the invariants above.

`DseProof` proves, for any specs, catalogs, profiles and measurements:

- `JobInvariant`: candidates come from what the enumeration can make of the job's pool; every label that was tried has
  one status, and none of the current round has one before the round; metrics are numbers.
- `NamesAreUnique` (`CandidatesAreDistinct`): a label is shown to determine the instances, through layouts, roles,
  degrees and repetitions of one group and of several, and the NPUs of the instances of a kind add up to what
  the candidate's distribution charges for it. Rounds exclude earlier labels, so none is simulated twice.
- `CandidatesBuild` (`CandidatesAreBuildable`): every layout passes `validate_spec`; where a fabric is decomposed,
  the product of its shape is the degree.
- `PruneIsSound` (`PruneLosesNothing`): the weights that a card must hold are at least the share that summed memory allows.
- `TopIsBest` (`TopIsJustified`): from `RankedInv`, which says what a ranking was made of. Sorting is by score,
  the first of each distribution is its best, and rounding to four digits keeps the order, if not strictness.

`MonitoringProof` proves, for any loads, buckets, gaps, windows, targets and sequences of failures:

- `VerdictInvariant`, and from it `VerdictIsLoad` (`VerdictFollowsLoad`): the difference of two scrapes of cumulative
  buckets is the cumulative histogram of the events between (`CountsInv`), although a failed scrape moves neither;
  the bucket of a quantile is beyond the target exactly if too few events are within it, the `+Inf` bucket included; the
  samples kept are exactly the scrapes in the window (`WindowInv`), and as many scrapes as `violations`
  says, and no more, were breaches (`StreakInv`).
- `EnergyInvariant`, and from it `AverageIsWithin` (`AverageIsPower`): for any two bounds that hold all samples, the energy
  lies between them times the span, as long as the ring holds all samples.

`EventSimProof` proves, for any clusters, curves, workloads and number of requests:

- `TypeCorrect` and `NoIdleCapacity` (`WorkConserving`): from the inductive invariant `IInv`. Neither is inductive alone.
  Whom an instance serves is derived from `where` and `at`, so the invariant also says that a queue names only
  requests that wait there, each once; admitting the first *k* of them then raises the load by exactly *k*, which is
  counted with the cardinality theorems. That times stay numbers needs the bound too: the assumption on the curves
  covers loads up to the cap, and a load beyond it would be outside of them.
- `SharesAreFair` (`FairShare`): inductive with the types. `Route` is shown to return a minimum at all: the comparison by
  cross-multiplication is transitive, so a finite pool has a least loaded instance and a first of these; keys of infinity are equal, so a pool without weights
  has its first instance for all requests. The pools for
  arrivals and for hand-offs are equal or disjoint, so a dispatch in one never tips the other.
- `NoOvertaking` (`FirstComeFirstServed`): from `HistInv`. Who has been routed but not admitted sits in the queue it was
  routed to; among those the queue is in order of arrival (requests handed over after their prefill sit among them and
  do not count); who still arrives does so no earlier than who has been routed. A request admitted on arrival
  overtakes nobody because `NoIdleCapacity` leaves the queue empty: the order rests on the absence of idle capacity.

`DataTheorems` holds what those proofs share. The community modules define sums, folds and sorting by recursive
functions over chosen elements, which no prover expands; for finite sets the lemmas show once that such a function
exists and is determined by its equation, and from there what is needed: a sum takes any element first, agrees
with another that is equal pointwise, is monotone, may be regrouped and renamed; `Order` sorts and is stable;
`Listed` lists a strict order; `FlattenSeq` puts the j-th element of the i-th list at `Spot`; images, products,
functions and unions of finite sets are finite.

Assumptions on the constants, evaluated by TLC in every run of their module, and why the code justifies them:

| Assumption | Says | Because |
|---|---|---|
| `JobsAssumption`, `PoolsAssumption`, `ClientsAssumption` (`ServiceJobs`) | no job is `NoJob`, pools partition the devices, disciplines are Boolean | a device has one node and one kind |
| `BoundsAssumption`, `SweepAssumption` | retries, restarts and rounds are natural numbers, thresholds, permits and the first batch are above 0; finitely many candidates | constants of the code, the schema's minima |
| `PresetsAssumption` | 1 <= mean < p90, caps and draws are numbers | `LengthDist` refuses others |
| `RequestsAssumption`, `WorkloadsAssumption`, `ClustersAssumption`, `TicksAssumption` (`EventSim`) | arrivals, lengths, caps are natural numbers; a cluster has an instance; within a cap, times are whole ticks and a tick of decoding whole work | what `backend.py` builds the simulator from; the unit of work is chosen so |
| `PowerAssumption`, `RatesAssumption` | powers and throughputs in the tables are numbers, the default unit is above 0, loads are percentages above 0 | `power_profiles.py`, tables of literals |
| `SubmittedAssumption` | what passes the validators has the fields' types | `PlannerSpec`'s pydantic fields |
| `SimulationsAssumption` | columns of a CSV are numbers | `parse_metrics_csv` converts or raises |
| `RequestsAssumption` (`ServePlan`) | forced backends are the schema's, a trace lasts | `ServeRequestIn` |
| `RegistryAssumption` | finite; an id is node, kind and index; bandwidths are numbers; others reserve devices of the registry | `RegistryV2`, `parse_bandwidth_gbps` |
| `CatalogsAssumption` | finite; degrees and rates are numbers, the least unit is above 0 | directory listings and oracle files |
| `CatalogAssumption`, `JobsAssumption`, `MetricsAssumption` (`DseJob`) | degrees, sizes, weights and metrics are numbers, some weight is above 0 | `schemas.py`, hardware catalog, profile CSVs |
| `LoadsAssumption`, `CheckerAssumption` | scrapes have the same buckets; counts, watts, spans are not negative; one breach at least | Prometheus histograms, `SLOChecker`'s parameters |

They hold for the program's data, but rates, powers and scores are whole numbers here: where the code divides,
the modules cross-multiply or round as described above, and the theorems are about that. `RoundsUp` has no assumption: a
float may err either way at a whole number, and nowhere else does it change what is rounded.

Only model-checked:

- Agreement of the pure algorithms with what they stand for where a choice models an external part: CP-SAT's optima,
  simulators, docker. The theorems hold for every choice the modules allow.
- All liveness properties (`JobSettles`, `BringUpSettles`, `TerminationEnds`, `MissingIsNoticed`, `CancelWins`, `JobEnds`,
  `StreamEnds`, `AllServed`, `PlanEnds`): liveness under fairness is out of the prover's reach.
- The three violations, which are counterexamples.

## 5. Not modelled, and what is left

- The result cache of the sweep server (`sim_cache.py`): a hit is any outcome. What its key leaves out is a
  matter of which inputs a simulator reads, which is outside this repository.
- GET endpoints, event streams of the service and of the planner server, pages, plots: they read what the others hold.
- Parsers of metric text, nvidia-smi, simulator logs and YAML: their results are the models' inputs.
- Several deployments at once: they share host ports (see the hazards) and the reconcile loop only.
- Restarts of the sweep server while a job runs; full event queues; errors in writing files.
- The external simulators, docker, CP-SAT and the measuring campaign: choices over what they may answer.
- One-off scripts, validation studies and examples.

Plan, in order:

1. Theorems: the steps that the liveness properties rest on (that a step of a fair actor brings its end nearer), as
   far as they can be stated without ENABLED.
2. `SweepRunner` with two jobs over one result cache and the cache's own files, and with a restart.
3. Two deployments over one host: ports, and the monitor's runtime table.
4. The design-space server's cache of specs and its history.
