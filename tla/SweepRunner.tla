------------------------------ MODULE SweepRunner ------------------------------
(***************************************************************************)
(* One design-space job: run_dse_job (webapp/dse/core/runner.py) over      *)
(* run_sweep (webapp/runner.py), with cancel, delete and the event stream  *)
(* of its page.  Everything runs on one asyncio loop, so a step goes from  *)
(* one real suspension to the next: a full semaphore, a subprocess, a      *)
(* worker thread, gather.  The status lock is never contended (nothing     *)
(* suspends inside it) and an update of status.json with its broadcast is  *)
(* part of the step that makes it.  Jobs share nothing but the result      *)
(* cache, whose hits are a choice here.                                    *)
(***************************************************************************)
EXTENDS Naturals, FiniteSets

CONSTANTS Configs,    \* labels that may be candidates
          FirstBatch, \* the most that spec.search.max_combinations allows
          MaxRetries, \* _MAX_RETRY_ROUNDS
          Permits     \* spec.max_concurrent

ASSUME SweepAssumption ==
  /\ IsFiniteSet(Configs)
  /\ FirstBatch \in Nat \ {0}
  /\ MaxRetries \in Nat
  /\ Permits \in Nat \ {0}

VARIABLES
  main,     \* the coroutine of the job: new, gather or over
  round,    \* retry rounds begun
  tried,    \* tried_labels
  untried,  \* what generate_candidates would still find
  sweep,    \* "state" in status.json, "none" without it
  config,   \* config[c]: configs[c].state in status.json
  cancel,   \* _cancel_flags
  deleted,  \* the job's directory has been renamed
  task,     \* task[c]: where _run_one_config stands, and whether it timed out
  limit,    \* the size of this round's semaphore
  permits,  \* its free permits
  proc,     \* proc[c]: the simulator's process and its exit code
  listed,   \* _running_procs
  signalled,\* live processes that were sent a SIGTERM
  viewer    \* the event stream of a progress page

jobVars == <<main, round, tried, untried, limit>>
statusVars == <<sweep, config, deleted>>
procVars == <<proc, listed, signalled>>
vars == <<jobVars, statusVars, cancel, task, permits, procVars, viewer>>

------------------------------------------------------------------------------
(* Types and initial state *)

Settled == {"done", "failed", "cancelled"}     \* _TERMINAL_STATES
Holding == {"spawn", "wait", "grace", "cleanup", "check", "excerpt", "parse"}
TaskSteps == {"none", "created", "queue", "over"} \cup Holding

NoTask == [at |-> "none", late |-> FALSE]
NewTask == [at |-> "created", late |-> FALSE]

TypeOK ==
  /\ main \in {"new", "gather", "over"}
  /\ round \in 0 .. MaxRetries
  /\ tried \in SUBSET Configs /\ untried \in SUBSET Configs
  /\ sweep \in {"none", "running"} \cup Settled
  /\ config \in [Configs -> {"absent", "queued", "running"} \cup Settled]
  /\ cancel \in BOOLEAN /\ deleted \in BOOLEAN
  /\ task \in [Configs -> [at : TaskSteps, late : BOOLEAN]]
  /\ limit \in 0 .. Permits /\ permits \in 0 .. Permits
  /\ proc \in [Configs -> {"none", "alive", "zero", "error"}]
  /\ listed \in SUBSET Configs /\ signalled \in SUBSET Configs
  /\ viewer \in {"off", "open", "told", "closed"}

Init ==
  /\ main = "new" /\ round = 0
  /\ tried = {} /\ untried = {}
  /\ sweep = "none" /\ config = [c \in Configs |-> "absent"]
  /\ cancel = FALSE /\ deleted = FALSE
  /\ task = [c \in Configs |-> NoTask]
  /\ limit = 0 /\ permits = 0
  /\ proc = [c \in Configs |-> "none"]
  /\ listed = {} /\ signalled = {}
  /\ viewer = "off"

At(c, step) == task[c].at = step
Goto(c, step) == task' = [task EXCEPT ![c].at = step]
Return(c) == task' = [task EXCEPT ![c] = [at |-> "over", late |-> FALSE]]
Smaller(m, n) == IF m < n THEN m ELSE n

------------------------------------------------------------------------------
(* The job *)

\* generate_candidates(override_max = n): n of the candidates in space, or all.
Batches(space, n) ==
  {b \in SUBSET space : Cardinality(b) = Smaller(n, Cardinality(space))}

\* run_sweep up to its gather: status.json, the semaphore (smaller when the host
\* has no memory for max_concurrent simulators), the flag, the tasks.
BeginSweep(batch) ==
  /\ main' = "gather"
  /\ tried' = tried \cup batch
  /\ sweep' = "running"
  /\ config' = [c \in Configs |-> IF c \in batch THEN "queued" ELSE config[c]]
  /\ task' = [c \in Configs |-> IF c \in batch THEN NewTask ELSE task[c]]
  /\ limit' \in 1 .. Permits /\ permits' = limit'
  /\ cancel' = FALSE
  /\ listed' = {}

\* POST /jobs runs on without suspending until the first gather; a job without
\* candidates is done at once.
Start ==
  /\ main = "new"
  /\ \E space \in SUBSET Configs, batch \in SUBSET Configs :
       /\ \E cap \in 1 .. FirstBatch : batch \in Batches(space, cap)
       /\ untried' = space \ batch
       /\ IF batch = {}
          THEN /\ main' = "over"
               /\ sweep' = "done"
               /\ UNCHANGED <<tried, config, task, limit, permits, cancel, listed>>
          ELSE BeginSweep(batch)
  /\ UNCHANGED <<round, deleted, proc, signalled, viewer>>

\* gather returns.
RoundOver == main = "gather" /\ \A c \in Configs : task[c].at \in {"none", "over"}

\* What the retry loop counts: every entry of status.json that is not done.
Failures == {c \in Configs : config[c] \in {"failed", "cancelled"}}

\* Mutant of LastRound: the flag is not looked at between rounds.
LastRoundIgnoresCancel ==
  Failures = {} \/ untried = {} \/ round = MaxRetries

LastRound == cancel \/ Failures = {} \/ untried = {} \/ round = MaxRetries

\* Mutant of Retry: labels that were tried are drawn again.
RetryAnyLabel ==
  /\ RoundOver /\ ~LastRound
  /\ round' = round + 1
  /\ \E batch \in Batches(Configs, Cardinality(Failures)) :
       BeginSweep(batch) /\ untried' = untried \ batch
  /\ UNCHANGED <<deleted, proc, signalled, viewer>>

\* A retry round: as many untried candidates as there are failures.
Retry ==
  /\ RoundOver /\ ~LastRound
  /\ round' = round + 1
  /\ \E batch \in Batches(untried, Cardinality(Failures)) :
       BeginSweep(batch) /\ untried' = untried \ batch
  /\ UNCHANGED <<deleted, proc, signalled, viewer>>

FinalState == IF cancel THEN "cancelled"
              ELSE IF Failures = {} THEN "done" ELSE "failed"

\* Mutant of Finalize: the terminal state is written, not broadcast.
FinalizeSilent ==
  /\ RoundOver /\ LastRound
  /\ main' = "over" /\ sweep' = FinalState /\ cancel' = FALSE /\ listed' = {}
  /\ UNCHANGED <<round, tried, untried, limit, config, deleted, task, permits,
                 proc, signalled, viewer>>

\* finalize_sweep: the terminal state is written and broadcast once.
Finalize ==
  /\ RoundOver /\ LastRound
  /\ main' = "over"
  /\ sweep' = FinalState
  /\ cancel' = FALSE
  /\ listed' = {}
  /\ viewer' = IF viewer = "open" THEN "told" ELSE viewer
  /\ UNCHANGED <<round, tried, untried, limit, config, deleted, task, permits,
                 proc, signalled>>

------------------------------------------------------------------------------
(* _run_one_config *)

\* Mutant of Leave: the permit is not given back.
LeaveKeepsPermit(c, how) ==
  /\ config' = [config EXCEPT ![c] = how]
  /\ Return(c)
  /\ UNCHANGED permits

\* The task writes its outcome and leaves the semaphore.
Leave(c, how) ==
  /\ config' = [config EXCEPT ![c] = how]
  /\ Return(c)
  /\ permits' = permits + 1

\* With the permit: the state is 'running'; a missing dataset or an exception
\* fails it and a hit of the result cache finishes it without suspending,
\* otherwise a subprocess is being created.
Enter(c) ==
  \/ /\ config' = [config EXCEPT ![c] = "running"]
     /\ Goto(c, "spawn")
     /\ permits' = permits - 1
  \/ \E how \in {"done", "failed"} :
       /\ config' = [config EXCEPT ![c] = how]
       /\ Return(c)
       /\ UNCHANGED permits

DropCancelled(c) ==
  /\ config' = [config EXCEPT ![c] = "cancelled"]
  /\ Return(c)
  /\ UNCHANGED permits

\* The first check of the flag, and the semaphore: it suspends when there is no
\* permit or somebody waits for one.
Begin(c) ==
  /\ At(c, "created")
  /\ LET open == permits > 0 /\ \A d \in Configs : ~At(d, "queue")
     IN \/ cancel /\ DropCancelled(c)
        \/ ~cancel /\ open /\ Enter(c)
        \/ ~cancel /\ ~open /\ Goto(c, "queue") /\ UNCHANGED <<config, permits>>
  /\ UNCHANGED <<jobVars, sweep, deleted, cancel, procVars, viewer>>

\* Mutant of Acquire: the flag is not looked at again.
AcquireUnchecked(c) ==
  /\ At(c, "queue") /\ permits > 0
  /\ Enter(c)
  /\ UNCHANGED <<jobVars, sweep, deleted, cancel, procVars, viewer>>

\* The permit arrives: the second check of the flag.
Acquire(c) ==
  /\ At(c, "queue") /\ permits > 0
  /\ \/ cancel /\ DropCancelled(c)
     \/ ~cancel /\ Enter(c)
  /\ UNCHANGED <<jobVars, sweep, deleted, cancel, procVars, viewer>>

\* create_subprocess_exec returns; only now does the registry know the process.
Spawned(c) ==
  /\ At(c, "spawn")
  /\ \/ /\ proc' = [proc EXCEPT ![c] = "alive"]
        /\ listed' = listed \cup {c}
        /\ Goto(c, "wait")
        /\ UNCHANGED <<config, permits>>
     \/ Leave(c, "failed") /\ UNCHANGED <<proc, listed>>
  /\ UNCHANGED <<jobVars, sweep, deleted, cancel, signalled, viewer>>

\* The process has ended in time, or within the ten seconds after its SIGTERM.
Ended(c) ==
  /\ task[c].at \in {"wait", "grace"}
  /\ proc[c] # "alive"
  /\ listed' = listed \ {c}
  /\ Goto(c, "cleanup")
  /\ UNCHANGED <<jobVars, statusVars, cancel, permits, proc, signalled, viewer>>

TimesOut(c) ==
  /\ At(c, "wait")
  /\ task' = [task EXCEPT ![c] = [at |-> "grace", late |-> TRUE]]
  /\ signalled' = IF proc[c] = "alive" THEN signalled \cup {c} ELSE signalled
  /\ UNCHANGED <<jobVars, statusVars, cancel, permits, proc, listed, viewer>>

\* Mutant of Kill: the task goes on without a SIGKILL.
KillForgotten(c) ==
  /\ At(c, "grace")
  /\ listed' = listed \ {c}
  /\ Goto(c, "cleanup")
  /\ UNCHANGED <<jobVars, statusVars, cancel, permits, proc, signalled, viewer>>

\* SIGKILL, and wait for the end it brings.
Kill(c) ==
  /\ At(c, "grace")
  /\ proc' = [proc EXCEPT ![c] = IF @ = "alive" THEN "error" ELSE @]
  /\ listed' = listed \ {c}
  /\ signalled' = signalled \ {c}
  /\ Goto(c, "cleanup")
  /\ UNCHANGED <<jobVars, statusVars, cancel, permits, viewer>>

\* Trace files are gone: cancelled, timed out, or a log to look at.
Cleaned(c) ==
  /\ At(c, "cleanup")
  /\ LET dropped == cancel /\ proc[c] # "zero"
     IN \/ dropped /\ Leave(c, "cancelled")
        \/ ~dropped /\ task[c].late /\ Leave(c, "failed")
        \/ ~dropped /\ ~task[c].late /\ Goto(c, "check")
           /\ UNCHANGED <<config, permits>>
  /\ UNCHANGED <<jobVars, sweep, deleted, cancel, procVars, viewer>>

\* is_successful, in a thread.
Checked(c) ==
  /\ At(c, "check")
  /\ \/ proc[c] = "zero" /\ Goto(c, "parse")
     \/ Goto(c, "excerpt")
  /\ UNCHANGED <<jobVars, statusVars, cancel, permits, procVars, viewer>>

Excerpted(c) ==
  /\ At(c, "excerpt")
  /\ Leave(c, "failed")
  /\ UNCHANGED <<jobVars, sweep, deleted, cancel, procVars, viewer>>

\* Mutant of Parsed: an exception of the parser ends the task.
ParsedUncaught(c) ==
  /\ At(c, "parse")
  /\ \/ Leave(c, "done")
     \/ Return(c) /\ permits' = permits + 1 /\ UNCHANGED config
  /\ UNCHANGED <<jobVars, sweep, deleted, cancel, procVars, viewer>>

\* parse_run, in a thread; _run_one_config turns its exceptions into failures.
Parsed(c) ==
  /\ At(c, "parse")
  /\ \E how \in {"done", "failed"} : Leave(c, how)
  /\ UNCHANGED <<jobVars, sweep, deleted, cancel, procVars, viewer>>

TaskStep(c) == \/ Begin(c) \/ Acquire(c) \/ Spawned(c) \/ Ended(c) \/ TimesOut(c)
               \/ Kill(c) \/ Cleaned(c) \/ Checked(c) \/ Excerpted(c) \/ Parsed(c)

------------------------------------------------------------------------------
(* Processes, clients *)

\* A simulator ends, by itself or because of its SIGTERM, with any exit code.
ProcessEnds(c) ==
  /\ proc[c] = "alive"
  /\ \E code \in {"zero", "error"} : proc' = [proc EXCEPT ![c] = code]
  /\ signalled' = signalled \ {c}
  /\ UNCHANGED <<jobVars, statusVars, cancel, task, permits, listed, viewer>>

\* cancel_sweep: the flag, and a SIGTERM for each process in the registry; a
\* second call reaches the processes registered since.
CancelSweep ==
  /\ cancel' = TRUE
  /\ signalled' = signalled \cup {c \in listed : proc[c] = "alive"}

\* The job has its directory, or a late task made it again.
Exists == ~deleted \/ sweep # "none" \/ \E c \in Configs : config[c] # "absent"

Cancel ==
  /\ main # "new" /\ Exists
  /\ CancelSweep
  /\ UNCHANGED <<jobVars, statusVars, task, permits, proc, listed, viewer>>

\* DELETE: cancel, then rename the directory; a task that writes its state later
\* makes a new one.
Delete ==
  /\ main # "new" /\ ~deleted
  /\ CancelSweep
  /\ deleted' = TRUE
  /\ sweep' = "none"
  /\ config' = [c \in Configs |-> "absent"]
  /\ UNCHANGED <<jobVars, task, permits, proc, listed, viewer>>

\* GET /events, of a deleted job too: subscribe, then a snapshot of status.json,
\* which closes the stream when the job has ended.
Connect ==
  /\ viewer = "off"
  /\ main # "new"
  /\ viewer' = IF sweep \in Settled THEN "closed" ELSE "open"
  /\ UNCHANGED <<jobVars, statusVars, cancel, task, permits, procVars>>

Disconnect ==
  /\ viewer \in {"open", "told"}
  /\ viewer' = "off"
  /\ UNCHANGED <<jobVars, statusVars, cancel, task, permits, procVars>>

\* The terminal event reaches the page.
Receive ==
  /\ viewer = "told"
  /\ viewer' = "closed"
  /\ UNCHANGED <<jobVars, statusVars, cancel, task, permits, procVars>>

------------------------------------------------------------------------------
(* Specification *)

Next ==
  \/ Start \/ Retry \/ Finalize
  \/ \E c \in Configs : TaskStep(c) \/ ProcessEnds(c)
  \/ Cancel \/ Delete
  \/ Connect \/ Disconnect \/ Receive

Spec == Init /\ [][Next]_vars

\* The loop runs what is ready, timeouts fire, threads return, queues are read.
\* Simulators need not end by themselves.
Fairness ==
  /\ WF_vars(Retry \/ Finalize)
  /\ \A c \in Configs : WF_vars(TaskStep(c))
  /\ WF_vars(Receive)
FairSpec == Spec /\ Fairness

------------------------------------------------------------------------------
(* Properties *)

\* No more simulators of a job are alive than this round's semaphore admits,
\* killed ones and those of earlier rounds (with semaphores of their own)
\* included: the limit is what fits in memory.
ConcurrencyBounded == Cardinality({c \in Configs : proc[c] = "alive"}) <= limit

\* When a job has ended no simulator of it is left running, and unless the job
\* was deleted its status has no candidate that is still queued or running.
NothingLeftBehind ==
  main = "over" =>
    /\ \A c \in Configs : proc[c] # "alive"
    /\ ~deleted => \A c \in tried : config[c] \in Settled

\* A candidate's outcome is final: retry rounds and late tasks leave it alone.
SettledIsFinal ==
  [][\A c \in Configs :
       config[c] \in Settled => config'[c] = config[c] \/ deleted']_vars

\* Once cancelled, no more simulators are created.
NoSpawnAfterCancel ==
  [][cancel => \A c \in Configs : At(c, "spawn")' => At(c, "spawn")]_vars

\* A job that was cancelled while it ran ends as cancelled: no retry round takes
\* the flag back.
CancelWins == cancel /\ main = "gather" ~> sweep = "cancelled"

\* Every job ends.
JobEnds == main = "gather" ~> main = "over"

\* No page that watches a running job waits for ever for its end.
StreamEnds == viewer = "open" /\ main = "gather" ~> viewer # "open"

\* routes.py: cancel sends a SIGTERM to the subprocesses in flight.
CancelReachesAll ==
  cancel /\ main = "gather" =>
    \A c \in Configs : proc[c] = "alive" => c \in signalled
==============================================================================
