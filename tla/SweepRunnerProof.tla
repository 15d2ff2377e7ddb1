--------------------------- MODULE SweepRunnerProof ---------------------------
(***************************************************************************)
(* Proofs about SweepRunner for any candidates, rounds and permits.        *)
(*                                                                         *)
(* The argument: permits and the tasks that hold one add up to the size of *)
(* the round's semaphore, only a holder's process is alive, and a round    *)
(* begins when no task of the one before is left.  A candidate's outcome   *)
(* is written in the step that ends its task, and only candidates without  *)
(* a task are started.                                                     *)
(***************************************************************************)
EXTENDS SweepRunner, FiniteSetTheorems, TLAPS

\* The tasks inside the semaphore.
Holders == {c \in Configs : task[c].at \in Holding}

\* The types, without the upper bound of permits, which follows from PermitInv.
Types ==
  /\ main \in {"new", "gather", "over"}
  /\ round \in 0 .. MaxRetries
  /\ tried \in SUBSET Configs /\ untried \in SUBSET Configs
  /\ sweep \in {"none", "running"} \cup Settled
  /\ config \in [Configs -> {"absent", "queued", "running"} \cup Settled]
  /\ cancel \in BOOLEAN /\ deleted \in BOOLEAN
  /\ task \in [Configs -> [at : TaskSteps, late : BOOLEAN]]
  /\ limit \in 0 .. Permits /\ permits \in Nat
  /\ proc \in [Configs -> {"none", "alive", "zero", "error"}]
  /\ listed \in SUBSET Configs /\ signalled \in SUBSET Configs
  /\ viewer \in {"off", "open", "told", "closed"}

\* Where a candidate's task, outcome and process may stand together.
StageOf(c) ==
  /\ main # "gather" => task[c].at \in {"none", "over"}
  /\ main = "new" => task[c].at = "none" /\ config[c] = "absent"
  /\ c \in tried => task[c].at # "none"
  /\ c \in untried => task[c].at = "none" /\ config[c] = "absent"
  /\ proc[c] = "alive" => task[c].at \in {"wait", "grace"}
  /\ config[c] \in Settled => task[c].at = "over"
  /\ task[c].at = "over" /\ ~deleted => config[c] \in Settled

StageInv == \A c \in Configs : StageOf(c)

PermitInv == permits + Cardinality(Holders) = limit

IInv == Types /\ StageInv /\ PermitInv

------------------------------------------------------------------------------
(* What a step of a task does *)

\* How task c's place, outcome, permit and process change together.
Moves(c) ==
  /\ UNCHANGED <<jobVars, sweep, deleted, cancel, viewer>>
  /\ task[c].at \notin {"none", "over"}
  /\ task' \in [Configs -> [at : TaskSteps, late : BOOLEAN]]
  /\ task'[c].at # "none"
  /\ task'[c].at = "spawn" => ~cancel
  /\ config' \in [Configs -> {"absent", "queued", "running"} \cup Settled]
  /\ \A d \in Configs \ {c} : task'[d] = task[d] /\ config'[d] = config[d]
  /\ IF task'[c].at = "over" THEN config'[c] \in Settled
     ELSE config'[c] \in {config[c], "running"}
  /\ proc' \in [Configs -> {"none", "alive", "zero", "error"}]
  /\ \A d \in Configs \ {c} : proc'[d] = proc[d]
  /\ proc'[c] = "alive" => task'[c].at \in {"wait", "grace"}
  /\ listed' \in SUBSET Configs /\ signalled' \in SUBSET Configs

PermitMoves(c) ==
  \/ /\ task[c].at \in Holding <=> task'[c].at \in Holding
     /\ permits' = permits
  \/ /\ task[c].at \notin Holding /\ task'[c].at \in Holding
     /\ permits > 0 /\ permits' = permits - 1
  \/ /\ task[c].at \in Holding /\ task'[c].at \notin Holding
     /\ permits' = permits + 1

\* A task that has no live process and leaves the semaphore.
LEMMA LeaveMoves ==
  ASSUME Types, NEW c \in Configs, NEW how \in Settled,
         task[c].at \in Holding, proc[c] # "alive", Leave(c, how),
         UNCHANGED <<jobVars, sweep, deleted, cancel, procVars, viewer>>
  PROVE  Moves(c) /\ PermitMoves(c)
  BY DEF Types, Moves, PermitMoves, Return, Leave, TaskSteps, Holding, procVars

\* A task that gets its permit.
LEMMA EnterMoves ==
  ASSUME Types, NEW c \in Configs, permits > 0, ~cancel,
         task[c].at \in {"created", "queue"}, proc[c] # "alive", Enter(c),
         UNCHANGED <<jobVars, sweep, deleted, cancel, procVars, viewer>>
  PROVE  Moves(c) /\ PermitMoves(c)
  <1>1. CASE /\ config' = [config EXCEPT ![c] = "running"]
             /\ Goto(c, "spawn")
             /\ permits' = permits - 1
    BY <1>1 DEF Types, Moves, PermitMoves, Goto, TaskSteps, Holding, procVars
  <1>2. ASSUME NEW how \in {"done", "failed"},
               config' = [config EXCEPT ![c] = how], Return(c), UNCHANGED permits
        PROVE  Moves(c) /\ PermitMoves(c)
    BY <1>2 DEF Types, Moves, PermitMoves, Return, TaskSteps, Holding, Settled, procVars
  <1>3. QED
    BY <1>1, <1>2 DEF Enter

\* A task that finds the flag set.
LEMMA DropMoves ==
  ASSUME Types, NEW c \in Configs,
         task[c].at \in {"created", "queue"}, proc[c] # "alive", DropCancelled(c),
         UNCHANGED <<jobVars, sweep, deleted, cancel, procVars, viewer>>
  PROVE  Moves(c) /\ PermitMoves(c)
  BY DEF Types, Moves, PermitMoves, Return, DropCancelled, TaskSteps, Holding, Settled,
         procVars

\* A task that goes on between two steps of the same side of the semaphore.
LEMMA GotoMoves ==
  ASSUME Types, NEW c \in Configs, NEW step \in TaskSteps \ {"none", "over", "spawn"},
         task[c].at \notin {"none", "over"}, Goto(c, step),
         task[c].at \in Holding <=> step \in Holding, proc[c] # "alive",
         UNCHANGED <<jobVars, config, permits, sweep, deleted, cancel, procVars, viewer>>
  PROVE  Moves(c) /\ PermitMoves(c)
  BY DEF Types, Moves, PermitMoves, Goto, TaskSteps, procVars

\* Every step of a task moves it so.
LEMMA TaskMoves ==
  ASSUME Types, StageInv, NEW c \in Configs, TaskStep(c)
  PROVE  Moves(c) /\ PermitMoves(c)
  <1> DEFINE Goal == Moves(c) /\ PermitMoves(c)
  <1>0. /\ proc[c] = "alive" => task[c].at \in {"wait", "grace"}
        /\ config[c] \in Settled => task[c].at = "over"
    BY DEF StageInv, StageOf
  <1>1. CASE Begin(c)
    <2>1. task[c].at = "created" /\ proc[c] # "alive"
      BY <1>0, <1>1 DEF Begin, At
    <2>2. CASE DropCancelled(c)
      BY <1>1, <2>1, <2>2, DropMoves DEF Begin
    <2>3. CASE ~cancel /\ permits > 0 /\ Enter(c)
      BY <1>1, <2>1, <2>3, EnterMoves DEF Begin
    <2>4. CASE Goto(c, "queue") /\ UNCHANGED <<config, permits>>
      BY <1>1, <2>1, <2>4, GotoMoves DEF Begin, TaskSteps, Holding
    <2>5. QED
      BY <1>1, <2>2, <2>3, <2>4 DEF Begin
  <1>2. CASE Acquire(c)
    <2>1. task[c].at = "queue" /\ proc[c] # "alive"
      BY <1>0, <1>2 DEF Acquire, At
    <2>2. CASE DropCancelled(c)
      BY <1>2, <2>1, <2>2, DropMoves DEF Acquire
    <2>3. CASE ~cancel /\ permits > 0 /\ Enter(c)
      BY <1>2, <2>1, <2>3, EnterMoves DEF Acquire
    <2>4. QED
      BY <1>2, <2>2, <2>3 DEF Acquire
  <1>3. CASE Spawned(c)
    <2>1. task[c].at = "spawn" /\ proc[c] # "alive"
      BY <1>0, <1>3 DEF Spawned, At
    <2>2. CASE Leave(c, "failed") /\ UNCHANGED <<proc, listed>>
      BY <1>3, <2>1, <2>2, LeaveMoves DEF Spawned, Holding, Settled, procVars
    <2>3. CASE /\ proc' = [proc EXCEPT ![c] = "alive"]
               /\ listed' = listed \cup {c}
               /\ Goto(c, "wait")
               /\ UNCHANGED <<config, permits>>
      BY <1>3, <2>1, <2>3
         DEF Spawned, Types, Moves, PermitMoves, Goto, TaskSteps, Holding
    <2>4. QED
      BY <1>3, <2>2, <2>3 DEF Spawned
  <1>4. CASE Ended(c)
    BY <1>4 DEF Ended, Types, Moves, PermitMoves, Goto, TaskSteps, Holding, statusVars
  <1>5. CASE TimesOut(c)
    BY <1>5 DEF TimesOut, Types, Moves, PermitMoves, At, TaskSteps, Holding, statusVars
  <1>6. CASE Kill(c)
    BY <1>6 DEF Kill, Types, Moves, PermitMoves, At, Goto, TaskSteps, Holding, statusVars
  <1>7. CASE Cleaned(c)
    <2>1. task[c].at = "cleanup" /\ proc[c] # "alive"
      BY <1>0, <1>7 DEF Cleaned, At
    <2>2. ASSUME NEW how \in {"cancelled", "failed"}, Leave(c, how) PROVE Goal
      BY <1>7, <2>1, <2>2, LeaveMoves DEF Cleaned, Holding, Settled
    <2>3. CASE Goto(c, "check") /\ UNCHANGED <<config, permits>>
      BY <1>7, <2>1, <2>3, GotoMoves DEF Cleaned, TaskSteps, Holding
    <2>4. QED
      BY <1>7, <2>2, <2>3 DEF Cleaned
  <1>8. CASE Checked(c)
    BY <1>0, <1>8, GotoMoves DEF Checked, At, TaskSteps, Holding, statusVars
  <1>9. CASE Excerpted(c)
    BY <1>0, <1>9, LeaveMoves DEF Excerpted, At, Holding, Settled
  <1>10. CASE Parsed(c)
    BY <1>0, <1>10, LeaveMoves DEF Parsed, At, Holding, Settled
  <1>11. QED
    BY <1>1, <1>2, <1>3, <1>4, <1>5, <1>6, <1>7, <1>8, <1>9, <1>10 DEF TaskStep

------------------------------------------------------------------------------
(* Counting permits *)

\* The holders are finitely many.
LEMMA HoldersFinite == IsFiniteSet(Holders) /\ Cardinality(Holders) \in Nat
  BY SweepAssumption, FS_Subset, FS_CardinalityType DEF Holders

\* A step of one task keeps the count of permits, and with it their bound.
LEMMA PermitsCount ==
  ASSUME Types, PermitInv, NEW c \in Configs, Moves(c), PermitMoves(c)
  PROVE  PermitInv' /\ permits' \in Nat
  <1>1. limit' = limit /\ \A d \in Configs \ {c} : task'[d] = task[d]
    BY DEF Moves, jobVars
  <1>2. CASE /\ task[c].at \in Holding <=> task'[c].at \in Holding
             /\ permits' = permits
    <2>1. Holders' = Holders
      BY <1>1, <1>2 DEF Holders
    <2>2. QED
      BY <1>1, <1>2, <2>1 DEF PermitInv, Types
  <1>3. CASE /\ task[c].at \notin Holding /\ task'[c].at \in Holding
             /\ permits > 0 /\ permits' = permits - 1
    <2>1. Holders' = Holders \cup {c} /\ c \notin Holders
      BY <1>1, <1>3 DEF Holders
    <2>2. Cardinality(Holders') = Cardinality(Holders) + 1
      BY <2>1, HoldersFinite, FS_AddElement
    <2>3. QED
      BY <1>1, <1>3, <2>2, HoldersFinite DEF PermitInv, Types
  <1>4. CASE /\ task[c].at \in Holding /\ task'[c].at \notin Holding
             /\ permits' = permits + 1
    <2>1. Holders' = Holders \ {c} /\ c \in Holders
      BY <1>1, <1>4 DEF Holders
    <2>2. Cardinality(Holders') = Cardinality(Holders) - 1
      BY <2>1, HoldersFinite, FS_RemoveElement
    <2>3. QED
      BY <1>1, <1>4, <2>2, HoldersFinite DEF PermitInv, Types
  <1>5. QED
    BY <1>2, <1>3, <1>4 DEF PermitMoves

------------------------------------------------------------------------------
(* The inductive invariant *)

\* Every step is one of these (the disjuncts of Next, flattened).
LEMMA StepCases ==
  ASSUME Next
  PROVE  \/ Start \/ Retry \/ Finalize
         \/ \E c \in Configs : TaskStep(c)
         \/ \E c \in Configs : ProcessEnds(c)
         \/ Cancel \/ Delete
         \/ Connect \/ Disconnect \/ Receive
  BY DEF Next

\* The initial state has the invariant.
LEMMA InvInit == Init => IInv
  <1> SUFFICES ASSUME Init PROVE IInv
    OBVIOUS
  <1>1. NoTask \in [at : TaskSteps, late : BOOLEAN] /\ NoTask.at = "none"
    BY DEF NoTask, TaskSteps
  <1>2. Types
    <2>1. task \in [Configs -> [at : TaskSteps, late : BOOLEAN]]
      BY <1>1 DEF Init
    <2>2. /\ round \in 0 .. MaxRetries /\ limit \in 0 .. Permits /\ permits \in Nat
          /\ config \in [Configs -> {"absent", "queued", "running"} \cup Settled]
      BY SweepAssumption DEF Init
    <2>3. QED
      BY <2>1, <2>2 DEF Init, Types
  <1>3. StageInv
    BY <1>1 DEF Init, StageInv, StageOf, Settled
  <1>4. Holders = {}
    BY <1>1 DEF Init, Holders, Holding
  <1>5. QED
    BY <1>2, <1>3, <1>4, FS_EmptySet DEF Init, IInv, PermitInv

\* No task holds a permit when every task is over.
LEMMA NoHolders ==
  ASSUME \A c \in Configs : task[c].at \in {"none", "created", "over"}
  PROVE  Holders = {}
  BY DEF Holders, Holding

\* A round that starts candidates without a task keeps the invariant.
LEMMA BeginSweepInv ==
  ASSUME IInv, NEW batch \in SUBSET Configs, BeginSweep(batch),
         \A c \in Configs : task[c].at \in {"none", "over"},
         \A c \in batch : task[c].at = "none",
         untried' \in SUBSET Configs, untried' \cap batch = {},
         \A c \in untried' : task[c].at = "none" /\ config[c] = "absent",
         round' \in 0 .. MaxRetries,
         UNCHANGED <<deleted, proc, signalled, viewer>>
  PROVE  IInv'
  <1> USE DEF IInv, BeginSweep
  <1>1. Types'
    <2>1. NewTask \in [at : TaskSteps, late : BOOLEAN]
      BY DEF NewTask, TaskSteps
    <2>2. /\ task' \in [Configs -> [at : TaskSteps, late : BOOLEAN]]
          /\ config' \in [Configs -> {"absent", "queued", "running"} \cup Settled]
      BY <2>1 DEF Types
    <2>3. limit' \in 0 .. Permits /\ permits' \in Nat
      BY SweepAssumption
    <2>4. QED
      BY <2>2, <2>3 DEF Types
  <1>2. StageInv'
    BY DEF Types, StageInv, StageOf, NewTask, Settled
  <1>3. PermitInv'
    <2>1. \A c \in Configs : task'[c].at \in {"none", "created", "over"}
      BY DEF NewTask, Types
    <2>2. Holders' = {}
      BY <2>1 DEF Holders, Holding
    <2>3. limit' \in Nat /\ permits' = limit'
      BY SweepAssumption
    <2>4. QED
      BY <2>2, <2>3, FS_EmptySet DEF PermitInv
  <1>4. QED
    BY <1>1, <1>2, <1>3

\* A step that leaves the tasks and the semaphore alone keeps the permits right.
LEMMA PermitsKept ==
  ASSUME PermitInv, UNCHANGED <<task, limit, permits>>
  PROVE  PermitInv'
  BY DEF PermitInv, Holders

\* Every step keeps the invariant.
LEMMA InvStep == IInv /\ [Next]_vars => IInv'
  <1> SUFFICES ASSUME IInv, [Next]_vars PROVE IInv'
    OBVIOUS
  <1> USE DEF IInv
  <1>1. CASE Start
    <2>1. PICK space \in SUBSET Configs, batch \in SUBSET Configs :
            /\ batch \subseteq space
            /\ untried' = space \ batch
            /\ IF batch = {}
               THEN /\ main' = "over"
                    /\ sweep' = "done"
                    /\ UNCHANGED <<tried, config, task, limit, permits, cancel, listed>>
               ELSE BeginSweep(batch)
      BY <1>1 DEF Start, Batches
    <2>2. \A c \in Configs : task[c].at = "none" /\ config[c] = "absent"
      BY <1>1 DEF Start, StageInv, StageOf
    <2>3. UNCHANGED <<round, deleted, proc, signalled, viewer>>
      BY <1>1 DEF Start
    <2>4. CASE batch = {}
      <3>1. Types' /\ StageInv'
        BY <2>1, <2>2, <2>3, <2>4 DEF Types, StageInv, StageOf, Settled
      <3>2. QED
        BY <2>1, <2>4, <3>1, PermitsKept
    <2>5. CASE batch # {}
      BY <2>1, <2>2, <2>3, <2>5, BeginSweepInv DEF Types
    <2>6. QED
      BY <2>4, <2>5
  <1>2. CASE Retry
    <2>1. PICK batch \in SUBSET untried : BeginSweep(batch) /\ untried' = untried \ batch
      BY <1>2 DEF Retry, Batches
    <2>2. /\ \A c \in Configs : task[c].at \in {"none", "over"}
          /\ UNCHANGED <<deleted, proc, signalled, viewer>>
      BY <1>2 DEF Retry, RoundOver
    <2>3. round' \in 0 .. MaxRetries
      BY <1>2, SweepAssumption DEF Retry, LastRound, Types
    <2>4. \A c \in untried : c \in Configs /\ task[c].at = "none" /\ config[c] = "absent"
      BY DEF Types, StageInv, StageOf
    <2>5. QED
      BY <2>1, <2>2, <2>3, <2>4, BeginSweepInv
  <1>3. CASE Finalize
    <2>1. Types' /\ StageInv'
      BY <1>3 DEF Finalize, RoundOver, FinalState, Types, StageInv, StageOf, Settled
    <2>2. QED
      BY <1>3, <2>1, PermitsKept DEF Finalize
  <1>4. ASSUME NEW c \in Configs, TaskStep(c) PROVE IInv'
    <2>1. Moves(c) /\ PermitMoves(c)
      BY <1>4, TaskMoves
    <2>2. PermitInv' /\ permits' \in Nat
      BY <2>1, PermitsCount
    <2>3. Types'
      BY <2>1, <2>2 DEF Types, Moves, jobVars
    <2>4. StageInv'
      <3>1. StageOf(c)'
        BY <2>1 DEF StageInv, StageOf, Moves, jobVars, Settled
      <3>2. ASSUME NEW d \in Configs \ {c} PROVE StageOf(d)'
        BY <2>1, <3>2 DEF StageInv, StageOf, Moves, jobVars
      <3>3. QED
        BY <3>1, <3>2 DEF StageInv
    <2>5. QED
      BY <2>2, <2>3, <2>4
  <1>5. ASSUME NEW c \in Configs, ProcessEnds(c) PROVE IInv'
    <2>1. Types' /\ StageInv'
      BY <1>5 DEF ProcessEnds, Types, StageInv, StageOf, jobVars, statusVars
    <2>2. QED
      BY <1>5, <2>1, PermitsKept DEF ProcessEnds, jobVars
  <1>6. CASE Cancel
    <2>1. Types' /\ StageInv'
      BY <1>6 DEF Cancel, CancelSweep, Types, StageInv, StageOf, jobVars, statusVars
    <2>2. QED
      BY <1>6, <2>1, PermitsKept DEF Cancel, jobVars
  <1>7. CASE Delete
    <2>1. Types' /\ StageInv'
      BY <1>7 DEF Delete, CancelSweep, Types, StageInv, StageOf, jobVars, Settled
    <2>2. QED
      BY <1>7, <2>1, PermitsKept DEF Delete, jobVars
  <1>8. CASE Connect \/ Disconnect \/ Receive
    <2>1. /\ UNCHANGED <<jobVars, statusVars, cancel, task, permits, procVars>>
          /\ viewer' \in {"off", "open", "closed"}
      BY <1>8 DEF Connect, Disconnect, Receive
    <2>2. Types' /\ StageInv'
      BY <2>1 DEF Types, StageInv, StageOf, jobVars, statusVars, procVars
    <2>3. QED
      BY <2>1, <2>2, PermitsKept DEF jobVars
  <1>9. CASE UNCHANGED vars
    <2>1. Types' /\ StageInv'
      BY <1>9 DEF vars, Types, StageInv, StageOf, jobVars, statusVars, procVars
    <2>2. QED
      BY <1>9, <2>1, PermitsKept DEF vars, jobVars
  <1>10. QED
    BY StepCases, <1>1, <1>2, <1>3, <1>4, <1>5, <1>6, <1>7, <1>8, <1>9

\* Places, outcomes, processes and permits agree in every reachable state.
THEOREM RunnerInvariant == Spec => []IInv
  BY InvInit, InvStep, PTL DEF Spec

------------------------------------------------------------------------------
(* What follows *)

\* Every variable keeps its type; the permits never exceed the semaphore's size.
THEOREM TypeCorrect == Spec => []TypeOK
  <1>1. IInv => TypeOK
    BY HoldersFinite, SweepAssumption DEF IInv, Types, PermitInv, TypeOK
  <1>2. QED
    BY <1>1, RunnerInvariant, PTL

\* Never more live simulators than the round's semaphore admits.
THEOREM SimulatorsAreBounded == Spec => []ConcurrencyBounded
  <1>1. ASSUME IInv PROVE ConcurrencyBounded
    <2> DEFINE Alive == {c \in Configs : proc[c] = "alive"}
    <2>1. Alive \subseteq Holders
      BY <1>1 DEF IInv, StageInv, StageOf, Holders, Holding
    <2>2. IsFiniteSet(Alive) /\ Cardinality(Alive) <= Cardinality(Holders)
      BY <2>1, HoldersFinite, FS_Subset
    <2>3. Cardinality(Alive) \in Nat
      BY <2>2, FS_CardinalityType
    <2>4. QED
      BY <1>1, <2>2, <2>3, HoldersFinite
         DEF IInv, Types, PermitInv, ConcurrencyBounded
  <1>2. QED
    BY <1>1, RunnerInvariant, PTL

\* A job that has ended leaves no simulator and no unsettled candidate.
THEOREM JobsEndClean == Spec => []NothingLeftBehind
  <1>1. IInv => NothingLeftBehind
    BY DEF IInv, Types, StageInv, StageOf, NothingLeftBehind
  <1>2. QED
    BY <1>1, RunnerInvariant, PTL

\* No step overwrites the outcome of a candidate, retry rounds included.
THEOREM OutcomesAreFinal == Spec => SettledIsFinal
  <1> DEFINE Kept == \A c \in Configs :
                       config[c] \in Settled => config'[c] = config[c] \/ deleted'
  <1>1. ASSUME IInv, [Next]_vars PROVE Kept
    <2> SUFFICES ASSUME NEW c \in Configs, config[c] \in Settled, config' # config
                 PROVE  config'[c] = config[c] \/ deleted'
      OBVIOUS
    <2>1. /\ main # "new" /\ c \notin untried /\ task[c].at = "over"
          /\ config \in [Configs -> {"absent", "queued", "running"} \cup Settled]
      BY <1>1 DEF IInv, Types, StageInv, StageOf, Settled
    <2>2. CASE Retry
      <3>1. PICK batch \in SUBSET untried : BeginSweep(batch)
        BY <2>2 DEF Retry, Batches
      <3>2. QED
        BY <2>1, <3>1 DEF BeginSweep
    <2>3. ASSUME NEW d \in Configs, TaskStep(d) PROVE config'[c] = config[c]
      BY <1>1, <2>1, <2>3, TaskMoves DEF IInv, Moves
    <2>4. CASE Delete
      BY <2>4 DEF Delete
    <2>5. QED
      BY <1>1, <2>1, <2>2, <2>3, <2>4, StepCases
         DEF Start, Finalize, ProcessEnds, Cancel, Connect, Disconnect, Receive,
             statusVars, vars
  <1>2. IInv /\ [Next]_vars => [Kept]_vars
    BY <1>1
  <1>3. QED
    BY <1>2, RunnerInvariant, PTL DEF Spec, SettledIsFinal

\* While the flag is set no task goes on to create a simulator.
THEOREM NothingSpawnsAfterCancel == Spec => NoSpawnAfterCancel
  <1> DEFINE Quiet == cancel => \A c \in Configs : At(c, "spawn")' => At(c, "spawn")
  <1>1. ASSUME IInv, [Next]_vars PROVE Quiet
    <2> SUFFICES ASSUME cancel, NEW c \in Configs, task'[c].at = "spawn", task' # task
                 PROVE  task[c].at = "spawn"
      BY DEF At
    <2>1. CASE Start \/ Retry
      <3>1. PICK batch \in SUBSET Configs : BeginSweep(batch)
        BY <1>1, <2>1 DEF Start, Retry, Batches, IInv, Types
      <3>2. QED
        BY <3>1 DEF BeginSweep, NewTask
    <2>2. ASSUME NEW d \in Configs, TaskStep(d) PROVE task[c].at = "spawn"
      BY <1>1, <2>2, TaskMoves DEF IInv, Moves
    <2>3. QED
      BY <1>1, <2>1, <2>2, StepCases
         DEF Finalize, ProcessEnds, Cancel, Delete, Connect, Disconnect, Receive, vars
  <1>2. IInv /\ [Next]_vars => [Quiet]_vars
    BY <1>1
  <1>3. QED
    BY <1>2, RunnerInvariant, PTL DEF Spec, NoSpawnAfterCancel
==============================================================================
