------------------------ MODULE DeployLifecycleProof ------------------------
(***************************************************************************)
(* Proofs about DeployLifecycle for any number of retries, terminate calls *)
(* and restarts; those about containers when docker does what it is asked  *)
(* (DockerFails = FALSE).                                                  *)
(*                                                                         *)
(* The argument: while the row is in mid-flight the bring-up worker is     *)
(* alone - no monitor, no reconcile that expects a container, no terminate *)
(* call past its first check - and only this worker creates a container.   *)
(* After that the container can only go, so whoever saw it gone, or        *)
(* removed it, may rely on that however late it writes. All of this ends   *)
(* with a bring-up that raises after READY (mishap); that a row in         *)
(* mid-flight has its worker does not.                                     *)
(***************************************************************************)
EXTENDS DeployLifecycle, TLAPS

\* Every step is one of these (the disjuncts of Next, flattened).
LEMMA StepCases ==
  ASSUME Next
  PROVE  \/ Create
         \/ UpCheck
         \/ UpWrite
         \/ UpPull
         \/ UpRun
         \/ UpPoll
         \/ UpAttach
         \/ UpRollback
         \/ UpRewind
         \/ \E t \in Terminators :
              \/ TermStart(t)
              \/ TermCheck(t)
              \/ TermWrite(t)
              \/ TermDrain(t)
              \/ TermHook(t)
              \/ TermRelease(t)
         \/ MonEnd
         \/ MonBreach
         \/ MonFine
         \/ MonCheck
         \/ MonWrite
         \/ RecSelect
         \/ RecGet
         \/ RecList
         \/ RecRemove
         \/ RecCheck
         \/ RecWrite
         \/ ContainerExits
         \/ ContainerRemoved
         \/ TenantRelease
         \/ Restart
  BY DEF Next, BringUp, Terminate, Monitor, Reconcile

------------------------------------------------------------------------------
(* Type correctness *)

\* A retry is only prepared when an attempt is left.
TypeInv == TypeOK /\ (up.at = "rewind" => up.try <= Retries)

\* What the idle threads are.
LEMMA IdleTypes ==
  /\ UpIdle = [at |-> "off", to |-> "PENDING", try |-> 1]
  /\ UpFirst = [at |-> "check", to |-> "PULLING", try |-> 1]
  /\ TermIdle = [at |-> "idle", to |-> "DRAINING"]
  /\ TermOver = [at |-> "over", to |-> "DRAINING"]
  /\ MonOff = [at |-> "off", to |-> "READY", stop |-> FALSE, violations |-> 0,
               degraded |-> FALSE]
  /\ MonDead = [at |-> "dead", to |-> "READY", stop |-> FALSE, violations |-> 0,
                degraded |-> FALSE]
  /\ MonFirst = [at |-> "loop", to |-> "READY", stop |-> FALSE, violations |-> 0,
                 degraded |-> FALSE]
  /\ RecIdle = [at |-> "idle", tracked |-> FALSE, steady |-> FALSE]
  BY DEF UpIdle, UpFirst, TermIdle, TermOver, MonNew, MonOff, MonDead, MonFirst, RecIdle

\* They have their types.
LEMMA IdleTyped ==
  /\ UpIdle \in UpTypes /\ UpFirst \in UpTypes
  /\ TermIdle \in TermTypes /\ TermOver \in TermTypes
  /\ {MonOff, MonDead, MonFirst} \subseteq MonTypes
  /\ RecIdle \in RecTypes
  <1>1. UpIdle \in UpTypes /\ UpFirst \in UpTypes
    BY BoundsAssumption, IdleTypes DEF UpTypes, UpSteps, States, MidFlight
  <1>2. TermIdle \in TermTypes /\ TermOver \in TermTypes
    BY IdleTypes DEF TermTypes, TermSteps
  <1>3. {MonOff, MonDead, MonFirst} \subseteq MonTypes
    BY BoundsAssumption, IdleTypes DEF MonTypes, MonSteps, Steady
  <1>4. RecIdle \in RecTypes
    BY IdleTypes DEF RecTypes, RecSteps
  <1>5. QED
    BY <1>1, <1>2, <1>3, <1>4

\* The initial state has the types.
LEMMA TypeInit == Init => TypeInv
  <1> SUFFICES ASSUME Init PROVE TypeInv
    OBVIOUS
  <1>1. UpIdle \in UpTypes /\ TermIdle \in TermTypes /\ MonOff \in MonTypes /\ RecIdle \in RecTypes
    BY IdleTyped
  <1>2. UpIdle.at # "rewind" /\ 0 \in 0 .. MaxRestarts
    BY IdleTypes, BoundsAssumption
  <1> QED
    BY <1>1, <1>2 DEF Init, TypeInv, TypeOK

\* Every step keeps them.
LEMMA TypeStep == TypeInv /\ [Next]_vars => TypeInv'
  <1> SUFFICES ASSUME TypeInv, [Next]_vars PROVE TypeInv'
    OBVIOUS
  <1> USE DEF TypeInv, TypeOK
  <1>1. CASE Create
    BY <1>1, IdleTypes, IdleTyped DEF Create, States, MidFlight
  <1>2. CASE UpCheck
    <2>1. up' \in UpTypes
      BY <1>2, BoundsAssumption DEF UpCheck, UpNext, UpTypes, UpSteps, States, MidFlight, Steady, Terminal
    <2>2. up'.at # "rewind"
      BY <1>2 DEF UpCheck, UpNext, UpTypes
    <2>3. QED
      BY <1>2, <2>1, <2>2 DEF UpCheck
  <1>3. CASE UpWrite
    <2>1. up' \in UpTypes
      BY <1>3, BoundsAssumption DEF UpWrite, UpNext, UpTypes, UpSteps, States, MidFlight, Steady, Terminal
    <2>2. up'.at # "rewind"
      BY <1>3 DEF UpWrite, UpNext, UpTypes
    <2>3. QED
      BY <1>3, <2>1, <2>2 DEF UpWrite, UpTypes
  <1>4. CASE UpPull
    <2>1. up' \in UpTypes
      BY <1>4, BoundsAssumption DEF UpPull, UpTypes, UpSteps, States, MidFlight, Steady, Terminal
    <2>2. up'.at # "rewind"
      BY <1>4 DEF UpPull, UpTypes
    <2>3. QED
      BY <1>4, <2>1, <2>2 DEF UpPull
  <1>5. CASE UpRun
    <2>1. up' \in UpTypes
      BY <1>5, BoundsAssumption DEF UpRun, UpTypes, UpSteps, States, MidFlight, Steady, Terminal
    <2>2. up'.at # "rewind"
      BY <1>5 DEF UpRun, UpTypes
    <2>3. QED
      BY <1>5, <2>1, <2>2 DEF UpRun
  <1>6. CASE UpPoll
    <2>1. up' \in UpTypes
      BY <1>6, BoundsAssumption DEF UpPoll, UpTypes, UpSteps, States, MidFlight, Steady, Terminal
    <2>2. up'.at # "rewind"
      BY <1>6 DEF UpPoll, UpTypes
    <2>3. QED
      BY <1>6, <2>1, <2>2 DEF UpPoll
  <1>7. CASE UpAttach
    <2>1. up' \in UpTypes /\ up'.at # "rewind"
      BY <1>7, IdleTypes, IdleTyped DEF UpAttach, UpTypes, UpSteps
    <2>2. mon' \in MonTypes /\ mishap' \in BOOLEAN
      BY <1>7, IdleTyped DEF UpAttach
    <2>3. QED
      BY <1>7, <2>1, <2>2 DEF UpAttach
  <1>8. CASE UpRollback
    <2>1. up' \in UpTypes
      BY <1>8, BoundsAssumption DEF UpRollback, UpTypes, UpSteps, States, MidFlight, Steady, Terminal
    <2>2. up'.at = "rewind" => up'.try <= Retries
      BY <1>8, BoundsAssumption DEF UpRollback, UpTypes
    <2>3. QED
      BY <1>8, <2>1, <2>2 DEF UpRollback, Cleared
  <1>9. CASE UpRewind
    <2>1. up' \in UpTypes
      BY <1>9, BoundsAssumption DEF UpRewind, UpTypes, UpSteps, States, MidFlight, Steady, Terminal
    <2>2. QED
      BY <1>9, <2>1 DEF UpRewind, States, MidFlight
  <1>10. ASSUME NEW t \in Terminators, TermStart(t) PROVE TypeInv'
    <2>1. term' \in [Terminators -> TermTypes]
      BY <1>10, IdleTypes DEF TermStart, TermTypes, TermSteps
    <2>2. QED
      BY <1>10, <2>1 DEF TermStart
  <1>11. ASSUME NEW t \in Terminators, TermCheck(t) PROVE TypeInv'
    <2>1. term' \in [Terminators -> TermTypes]
      BY <1>11, IdleTypes DEF TermCheck, TermReach, TermTypes, TermSteps
    <2>2. QED
      BY <1>11, <2>1 DEF TermCheck
  <1>12. ASSUME NEW t \in Terminators, TermWrite(t) PROVE TypeInv'
    <2>1. term' \in [Terminators -> TermTypes]
      BY <1>12, IdleTypes DEF TermWrite, TermReach, TermTypes, TermSteps
    <2>2. term[t].to \in States
      BY <1>12 DEF TermTypes, States, Terminal
    <2>3. QED
      BY <1>12, <2>1, <2>2 DEF TermWrite
  <1>13. ASSUME NEW t \in Terminators, TermDrain(t) PROVE TypeInv'
    <2>1. term' \in [Terminators -> TermTypes]
      BY <1>13, IdleTypes DEF TermDrain, TermTypes, TermSteps
    <2>2. QED
      BY <1>13, <2>1 DEF TermDrain, Cleared
  <1>14. ASSUME NEW t \in Terminators, TermHook(t) PROVE TypeInv'
    <2>1. term' \in [Terminators -> TermTypes]
      BY <1>14, IdleTypes DEF TermHook, TermTypes, TermSteps
    <2>2. mon' \in MonTypes
      BY <1>14, IdleTyped DEF TermHook, Detached, MonTypes
    <2>3. QED
      BY <1>14, <2>1, <2>2 DEF TermHook
  <1>15. ASSUME NEW t \in Terminators, TermRelease(t) PROVE TypeInv'
    <2>1. term' \in [Terminators -> TermTypes]
      BY <1>15, IdleTypes DEF TermRelease, TermTypes, TermSteps
    <2>2. QED
      BY <1>15, <2>1 DEF TermRelease
  <1>16. CASE MonEnd
    <2>1. mon' \in MonTypes
      BY <1>16, BoundsAssumption, IdleTyped DEF MonEnd, MonTypes, MonSteps, Steady
    <2>2. QED
      BY <1>16, <2>1 DEF MonEnd
  <1>17. CASE MonBreach
    <2>1. mon' \in MonTypes
      <3> DEFINE n == IF mon.violations = Threshold THEN Threshold
                      ELSE mon.violations + 1
      <3>1. mon \in MonTypes /\ n \in 0 .. Threshold
        BY BoundsAssumption DEF MonTypes
      <3> HIDE DEF n
      <3>2. \/ mon' = [mon EXCEPT !.violations = n, !.degraded = TRUE,
                                  !.at = "check", !.to = "DEGRADED"]
            \/ mon' = [mon EXCEPT !.violations = n]
        BY <1>17 DEF MonBreach, n
      <3>3. QED
        BY <3>1, <3>2 DEF MonTypes, MonSteps, Steady
    <2>2. QED
      BY <1>17, <2>1 DEF MonBreach
  <1>18. CASE MonFine
    <2>1. mon' \in MonTypes
      <3>1. mon \in MonTypes /\ 0 \in 0 .. Threshold
        BY BoundsAssumption
      <3>2. \/ mon' = [mon EXCEPT !.violations = 0, !.degraded = FALSE,
                                  !.at = "check", !.to = "READY"]
            \/ mon' = [mon EXCEPT !.violations = 0]
        BY <1>18 DEF MonFine
      <3>3. QED
        BY <3>1, <3>2 DEF MonTypes, MonSteps, Steady
    <2>2. QED
      BY <1>18, <2>1 DEF MonFine
  <1>19. CASE MonCheck
    <2>1. mon' \in MonTypes
      BY <1>19, BoundsAssumption, IdleTyped DEF MonCheck, MonTypes, MonSteps, Steady
    <2>2. QED
      BY <1>19, <2>1 DEF MonCheck
  <1>20. CASE MonWrite
    <2>1. mon' \in MonTypes
      BY <1>20, BoundsAssumption, IdleTyped DEF MonWrite, MonTypes, MonSteps, Steady
    <2>2. QED
      BY <1>20, <2>1 DEF MonWrite, MonTypes, States
  <1>21. CASE RecSelect
    <2>1. rec' \in RecTypes
      BY <1>21, IdleTypes, IdleTyped DEF RecSelect, RecTypes, RecSteps
    <2>2. QED
      BY <1>21, <2>1 DEF RecSelect
  <1>22. CASE RecGet
    <2>1. rec' \in RecTypes
      BY <1>22, IdleTypes, IdleTyped DEF RecGet, RecTypes, RecSteps
    <2>2. QED
      BY <1>22, <2>1 DEF RecGet
  <1>23. CASE RecList
    <2>1. rec' \in RecTypes
      BY <1>23, IdleTypes, IdleTyped DEF RecList, RecTypes, RecSteps
    <2>2. QED
      BY <1>23, <2>1 DEF RecList
  <1>24. CASE RecRemove
    <2>1. rec' \in RecTypes
      BY <1>24, IdleTypes, IdleTyped DEF RecRemove, RecTypes, RecSteps
    <2>2. QED
      BY <1>24, <2>1 DEF RecRemove, Cleared
  <1>25. CASE RecCheck
    <2>1. rec' \in RecTypes
      BY <1>25, IdleTypes, IdleTyped DEF RecCheck, RecTypes, RecSteps
    <2>2. QED
      BY <1>25, <2>1 DEF RecCheck
  <1>26. CASE RecWrite
    <2>1. rec' \in RecTypes
      BY <1>26, IdleTypes, IdleTyped DEF RecWrite, RecTypes, RecSteps
    <2>2. QED
      BY <1>26, <2>1 DEF RecWrite, States, Terminal
  <1>27. CASE ContainerExits \/ ContainerRemoved \/ TenantRelease
    BY <1>27 DEF ContainerExits, ContainerRemoved, TenantRelease
  <1>28. CASE Restart
    <2>1. term' \in [Terminators -> TermTypes]
      BY <1>28, IdleTyped DEF Restart
    <2>2. rec' \in RecTypes /\ mon' \in MonTypes
      BY <1>28, IdleTyped DEF Restart
    <2>3. up' \in UpTypes /\ up'.at # "rewind"
      BY <1>28, IdleTypes, IdleTyped DEF Restart
    <2>4. row' \in States \cup {"none"} /\ box' \in {"absent", "running", "exited"}
      BY <1>28 DEF Restart, Cleared, States, MidFlight
    <2>5. restarts' \in 0 .. MaxRestarts
      BY <1>28, BoundsAssumption DEF Restart
    <2>6. QED
      BY <1>28, <2>1, <2>2, <2>3, <2>4, <2>5 DEF Restart
  <1>29. CASE UNCHANGED vars
    BY <1>29 DEF vars
  <1>30. QED
    BY StepCases, <1>1, <1>2, <1>3, <1>4, <1>5, <1>6, <1>7, <1>8, <1>9, <1>10, <1>11, <1>12, <1>13, <1>14, <1>15, <1>16, <1>17, <1>18, <1>19, <1>20, <1>21, <1>22, <1>23, <1>24, <1>25, <1>26, <1>27, <1>28, <1>29

\* The row, the container and every thread stay within their types; in particular
\* bring-up makes at most Retries + 1 attempts.
THEOREM TypeCorrect == Spec => []TypeOK
  <1>1. TypeInv /\ [Next]_vars => TypeInv'
    BY TypeStep
  <1>2. TypeInv => TypeOK
    BY DEF TypeInv
  <1>3. QED
    BY TypeInit, <1>1, <1>2, PTL DEF Spec

------------------------------------------------------------------------------
(* The inductive invariant *)

\* The bring-up worker has something to do before the deployment is ready.
Working == up.at \notin {"off", "attach"}

\* While the row is in mid-flight the worker works.
WorkerInv ==
  /\ row \in MidFlight => Working
  /\ row = "none" => up.at = "off"
  /\ up.at \in {"check", "write"} =>
       up.to \in {"PULLING", "STARTING", "HEALTH_CHECK", "READY", "FAILED"}

\* And it works no longer than that.
BusyInv == Working => row \in MidFlight

\* Until the deployment is ready nobody else has a part in it, and the
\* reservation is held.
AloneInv ==
  row \in MidFlight \cup {"none"} =>
    /\ held
    /\ mon.at = "off"
    /\ rec.at \notin {"check", "write"}
    /\ ~rec.steady
    /\ \A t \in Terminators : term[t].at \in {"idle", "over"}
                                \/ term[t] = [at |-> "check", to |-> "DRAINING"]

\* A terminate call that is past the removal of the container.
PastDrain(t) ==
  \/ term[t].at \in {"hook", "release"}
  \/ term[t].at \in {"check", "write"} /\ term[t].to \in {"STOPPED", "RELEASED"}

\* All those who rely on the container being gone.
GoneInv ==
  \/ row \in {"none", "STOPPED"} \cup Terminal
  \/ ~held
  \/ up.at \in {"check", "write"} /\ up.to = "FAILED"
  \/ rec.at \in {"check", "write"}
  \/ \E t \in Terminators : PastDrain(t)
  => box = "absent"

\* Those who write or have written RELEASED have released the reservation.
ReleasedInv ==
  /\ row = "RELEASED" => ~held
  /\ \A t \in Terminators :
       term[t].at \in {"check", "write"} /\ term[t].to = "RELEASED" => ~held

\* No bring-up has raised after READY.
CleanInv == BusyInv /\ AloneInv /\ GoneInv /\ ReleasedInv

IInv == TypeInv /\ WorkerInv /\ (~mishap => CleanInv)

\* It holds at first.
LEMMA InvInit == Init => TypeInv /\ WorkerInv /\ CleanInv
  BY TypeInit, IdleTypes
     DEF Init, WorkerInv, Working, CleanInv, BusyInv, AloneInv, GoneInv, ReleasedInv, PastDrain,
         MidFlight, Terminal

\* No step leaves a row in mid-flight without its worker, whatever docker does.
LEMMA WorkerStep ==
  ASSUME TypeInv, WorkerInv, [Next]_vars
  PROVE  WorkerInv'
  <1> USE IdleTypes DEF TypeInv, TypeOK, WorkerInv, Working, UpTypes, TermTypes, MonTypes,
          RecTypes, UpSteps, TermSteps, MonSteps, RecSteps, States, MidFlight, Steady, Terminal
  <1>1. CASE Create
    BY <1>1 DEF Create
  <1>2. CASE UpCheck
    BY <1>2 DEF UpCheck, UpNext, Valid, NoOp, Invalid, Allowed
  <1>3. CASE UpWrite
    BY <1>3 DEF UpWrite, UpNext
  <1>4. CASE UpPull \/ UpRun \/ UpPoll
    BY <1>4 DEF UpPull, UpRun, UpPoll
  <1>5. CASE UpAttach
    BY <1>5 DEF UpAttach
  <1>6. CASE UpRollback
    BY <1>6 DEF UpRollback
  <1>7. CASE UpRewind
    BY <1>7 DEF UpRewind
  <1>8. ASSUME NEW t \in Terminators, TermWrite(t) PROVE WorkerInv'
    BY <1>8 DEF TermWrite
  <1>9. CASE MonWrite \/ RecWrite
    BY <1>9 DEF MonWrite, RecWrite
  <1>10. CASE Restart
    BY <1>10 DEF Restart
  <1>11. CASE UNCHANGED <<row, up>>
    BY <1>11
  <1> QED
    BY StepCases, <1>1, <1>2, <1>3, <1>4, <1>5, <1>6, <1>7, <1>8, <1>9, <1>10, <1>11
       DEF TermStart, TermCheck, TermDrain, TermHook, TermRelease, MonEnd, MonBreach, MonFine,
           MonCheck, RecSelect, RecGet, RecList, RecRemove, RecCheck, ContainerExits,
           ContainerRemoved, TenantRelease, vars

\* Every step but a bring-up's raising after READY keeps the rest.
LEMMA CleanStep ==
  ASSUME DockerFails = FALSE, TypeInv, WorkerInv, CleanInv, [Next]_vars, ~mishap'
  PROVE  CleanInv'
  <1> DEFINE Goal == BusyInv' /\ AloneInv' /\ GoneInv' /\ ReleasedInv'
  <1> USE IdleTypes DEF CleanInv, TypeInv, TypeOK, WorkerInv, BusyInv, Working, AloneInv, GoneInv,
          ReleasedInv, PastDrain, UpTypes, TermTypes, MonTypes, RecTypes, UpSteps,
          TermSteps, MonSteps, RecSteps, States, MidFlight, Steady, Terminal
  <1>1. CASE Create
    BY <1>1 DEF Create
  <1>2. CASE UpCheck
    BY <1>2 DEF UpCheck, UpNext, Valid, NoOp, Invalid, Allowed
  <1>3. CASE UpWrite
    BY <1>3 DEF UpWrite, UpNext
  <1>4. CASE UpPull
    <2>1. /\ \/ up'.at = "check" /\ up'.to = "STARTING"
             \/ up'.at = "rollback"
          /\ row \in MidFlight
          /\ UNCHANGED <<row, box, held, term, mon, rec>>
      BY <1>4 DEF UpPull
    <2>2. BusyInv' /\ AloneInv' /\ ReleasedInv'
      BY <2>1
    <2>3. GoneInv'
      BY <2>1
    <2>4. QED
      BY <2>2, <2>3
  <1>5. CASE UpRun
    <2>1. /\ row \in MidFlight /\ held
          /\ rec.at \notin {"check", "write"}
          /\ \A t \in Terminators : ~PastDrain(t)
      BY <1>5 DEF UpRun
    <2>2. \/ up'.at = "check" /\ up'.to = "HEALTH_CHECK"
          \/ up'.at = "rollback"
      BY <1>5 DEF UpRun
    <2>3. BusyInv' /\ AloneInv' /\ ReleasedInv'
      BY <1>5, <2>2 DEF UpRun
    <2>4. GoneInv'
      BY <1>5, <2>1, <2>2 DEF UpRun
    <2>5. QED
      BY <2>3, <2>4
  <1>6. CASE UpPoll
    <2>1. /\ \/ up'.at = "check" /\ up'.to = "READY"
             \/ up'.at = "rollback"
          /\ row \in MidFlight
          /\ UNCHANGED <<row, box, held, term, mon, rec>>
      BY <1>6 DEF UpPoll
    <2>2. BusyInv' /\ AloneInv' /\ ReleasedInv'
      BY <2>1
    <2>3. GoneInv'
      BY <2>1
    <2>4. QED
      BY <2>2, <2>3
  <1>7. CASE UpAttach
    BY <1>7 DEF UpAttach
  <1>8. CASE UpRollback
    BY <1>8 DEF UpRollback, Cleared
  <1>9. CASE UpRewind
    BY <1>9 DEF UpRewind
  <1>10. ASSUME NEW t \in Terminators, TermStart(t) PROVE Goal
    BY <1>10 DEF TermStart
  <1>11. ASSUME NEW t \in Terminators, TermCheck(t) PROVE Goal
    <2>1. /\ term[t] \in TermTypes /\ term[t].at = "check"
          /\ UNCHANGED <<row, box, held, up, mon, rec>>
          /\ \A s \in Terminators \ {t} : term'[s] = term[s]
      BY <1>11 DEF TermCheck, TermReach
    <2>2. CASE Valid(term[t].to) /\ term' = [term EXCEPT ![t].at = "write"]
      <3>1. row \notin MidFlight \cup {"none"}
        BY <2>1, <2>2 DEF Valid, Allowed, ALLOWED
      <3>2. term'[t] = [at |-> "write", to |-> term[t].to]
        BY <2>1, <2>2
      <3>3. PastDrain(t)' => PastDrain(t)
        BY <2>1, <3>2
      <3>4. BusyInv' /\ AloneInv'
        BY <2>1, <3>1
      <3>5. GoneInv'
        BY <2>1, <3>3
      <3>6. ReleasedInv'
        BY <2>1, <3>2
      <3>7. QED
        BY <3>4, <3>5, <3>6
    <2>3. CASE NoOp(term[t].to) /\ TermReach(t, term[t].to)
      <3>1. row \in {"DRAINING", "STOPPED", "RELEASED"}
        BY <2>1, <2>3 DEF NoOp
      <3>2. term'[t].at \in {"drain", "hook", "over"}
        BY <2>1, <2>3 DEF TermReach
      <3>3. term'[t].at = "hook" => row = "STOPPED"
        BY <2>1, <2>3 DEF TermReach, NoOp
      <3>4. BusyInv' /\ AloneInv'
        BY <2>1, <3>1
      <3>5. GoneInv'
        BY <2>1, <3>2, <3>3
      <3>6. ReleasedInv'
        BY <2>1, <3>2
      <3>7. QED
        BY <3>4, <3>5, <3>6
    <2>4. CASE Invalid(term[t].to) /\ term' = [term EXCEPT ![t] = TermOver]
      <3>1. term'[t].at = "over"
        BY <2>1, <2>4
      <3>2. BusyInv' /\ AloneInv' /\ ReleasedInv'
        BY <2>1, <3>1
      <3>3. GoneInv'
        BY <2>1, <3>1
      <3>4. QED
        BY <3>2, <3>3
    <2>5. QED
      BY <1>11, <2>2, <2>3, <2>4 DEF TermCheck
  <1>12. ASSUME NEW t \in Terminators, TermWrite(t) PROVE Goal
    BY <1>12 DEF TermWrite, TermReach
  <1>13. ASSUME NEW t \in Terminators, TermDrain(t) PROVE Goal
    BY <1>13 DEF TermDrain, Cleared
  <1>14. ASSUME NEW t \in Terminators, TermHook(t) PROVE Goal
    BY <1>14 DEF TermHook, Detached
  <1>15. ASSUME NEW t \in Terminators, TermRelease(t) PROVE Goal
    BY <1>15 DEF TermRelease
  <1>16. CASE MonEnd
    BY <1>16 DEF MonEnd
  <1>17. CASE MonBreach
    BY <1>17 DEF MonBreach
  <1>18. CASE MonFine
    BY <1>18 DEF MonFine
  <1>19. CASE MonCheck
    BY <1>19 DEF MonCheck
  <1>20. CASE MonWrite
    BY <1>20 DEF MonWrite
  <1>21. CASE RecSelect
    BY <1>21 DEF RecSelect
  <1>22. CASE RecGet
    BY <1>22 DEF RecGet
  <1>23. CASE RecList
    BY <1>23 DEF RecList, Listed
  <1>24. CASE RecRemove
    BY <1>24 DEF RecRemove, Cleared
  <1>25. CASE RecCheck
    BY <1>25 DEF RecCheck, Valid, Allowed
  <1>26. CASE RecWrite
    BY <1>26 DEF RecWrite
  <1>27. CASE ContainerExits
    BY <1>27 DEF ContainerExits
  <1>28. CASE ContainerRemoved
    BY <1>28 DEF ContainerRemoved
  <1>29. CASE TenantRelease
    BY <1>29 DEF TenantRelease
  <1>30. CASE Restart
    BY <1>30 DEF Restart, Cleared
  <1>31. CASE UNCHANGED vars
    BY <1>31 DEF vars
  <1>32. QED
    BY StepCases, <1>1, <1>2, <1>3, <1>4, <1>5, <1>6, <1>7, <1>8, <1>9, <1>10, <1>11, <1>12, <1>13, <1>14, <1>15, <1>16, <1>17, <1>18, <1>19, <1>20, <1>21, <1>22, <1>23, <1>24, <1>25, <1>26, <1>27, <1>28, <1>29, <1>30, <1>31

\* A mishap is not forgotten.
LEMMA MishapStays ==
  ASSUME [Next]_vars, ~mishap' PROVE ~mishap
  BY StepCases
     DEF Create, UpCheck, UpWrite, UpPull, UpRun, UpPoll, UpAttach, UpRollback, UpRewind, TermStart,
         TermCheck, TermWrite, TermDrain, TermHook, TermRelease, MonEnd, MonBreach, MonFine,
         MonCheck, MonWrite, RecSelect, RecGet, RecList, RecRemove, RecCheck, RecWrite,
         ContainerExits, ContainerRemoved, TenantRelease, Restart, vars

\* The parts of the invariant hold together in every reachable state.
THEOREM LifecycleInvariant ==
  ASSUME DockerFails = FALSE
  PROVE  Spec => []IInv
  <1>1. Init => IInv
    BY InvInit DEF IInv
  <1>2. IInv /\ [Next]_vars => IInv'
    <2> SUFFICES ASSUME IInv, [Next]_vars PROVE IInv'
      OBVIOUS
    <2>1. TypeInv' /\ WorkerInv'
      BY TypeStep, WorkerStep DEF IInv
    <2>2. ~mishap' => CleanInv'
      BY MishapStays, CleanStep DEF IInv
    <2> QED
      BY <2>1, <2>2 DEF IInv
  <1>3. QED
    BY <1>1, <1>2, PTL DEF Spec

------------------------------------------------------------------------------
(* Theorems *)

\* Unless a bring-up raises after READY, a device is never given back while a container
\* may still occupy it, however many terminate calls, reconciles and restarts interleave.
THEOREM DevicesFreedAfterRemoval ==
  ASSUME DockerFails = FALSE
  PROVE  Spec => []FreedAfterRemoval
  <1>1. IInv => FreedAfterRemoval
    BY DEF IInv, CleanInv, GoneInv, FreedAfterRemoval
  <1>2. QED
    BY <1>1, LifecycleInvariant, PTL

\* With the same exception a row that says a deployment ended tells the truth about
\* docker and the ledger.
THEOREM EndedDeploymentsAreClean ==
  ASSUME DockerFails = FALSE
  PROVE  Spec => []EndedIsClean
  <1>1. IInv => EndedIsClean
    BY DEF IInv, CleanInv, GoneInv, ReleasedInv, EndedIsClean
  <1>2. QED
    BY <1>1, LifecycleInvariant, PTL

\* No deployment is abandoned on its way up, whatever raises and whatever docker does.
THEOREM MidFlightDeploymentsHaveWorkers == Spec => []MidFlightHasWorker
  <1>1. Init => TypeInv /\ WorkerInv
    BY InvInit
  <1>2. TypeInv /\ WorkerInv /\ [Next]_vars => TypeInv' /\ WorkerInv'
    BY TypeStep, WorkerStep
  <1>3. WorkerInv => MidFlightHasWorker
    BY DEF WorkerInv, Working, MidFlightHasWorker
  <1>4. QED
    BY <1>1, <1>2, <1>3, PTL DEF Spec

\* A deployment that has left mid-flight is rewound only by its own bring-up, after that
\* raised behind READY: never by recover, a retry or a late write.
THEOREM RewoundOnlyByMishap ==
  ASSUME DockerFails = FALSE
  PROVE  Spec => RewoundOnlyAfterMishap
  <1> DEFINE Rewound == row' \in MidFlight /\ row \notin MidFlight \cup {"none"}
             Forward == Rewound => mishap /\ up.at \in {"write", "rewind"}
  <1>1. ASSUME IInv, [Next]_vars PROVE Forward
    <2> SUFFICES ASSUME Rewound PROVE mishap /\ up.at \in {"write", "rewind"}
      OBVIOUS
    <2>1. ASSUME NEW t \in Terminators PROVE ~TermWrite(t)
      <3>1. term[t].to \in {"DRAINING", "STOPPED", "RELEASED"}
        BY <1>1 DEF IInv, TypeInv, TypeOK, TermTypes
      <3>2. QED
        BY <3>1 DEF TermWrite, MidFlight
    <2>2. ~MonWrite
      BY <1>1 DEF MonWrite, IInv, TypeInv, TypeOK, MonTypes, Steady, MidFlight
    <2>3. ~RecWrite /\ ~Restart /\ ~Create
      BY DEF RecWrite, Restart, Create, MidFlight
    <2>4. UpWrite \/ UpRewind
      BY StepCases, <1>1, <2>1, <2>2, <2>3
         DEF UpCheck, UpPull, UpRun, UpPoll, UpAttach, UpRollback, TermStart,
             TermCheck, TermDrain, TermHook, TermRelease, MonEnd, MonBreach,
             MonFine, MonCheck, RecSelect, RecGet, RecList, RecRemove, RecCheck,
             ContainerExits, ContainerRemoved, TenantRelease, vars
    <2>5. up.at \in {"write", "rewind"}
      BY <2>4 DEF UpWrite, UpRewind
    <2>6. mishap
      BY <1>1, <2>5 DEF IInv, CleanInv, BusyInv, Working
    <2>7. QED
      BY <2>5, <2>6
  <1>2. IInv /\ [Next]_vars => [Forward]_vars
    BY <1>1
  <1>3. QED
    BY <1>2, LifecycleInvariant, PTL DEF Spec, RewoundOnlyAfterMishap

------------------------------------------------------------------------------
(* What the SLO checker remembers *)

\* Only the monitor writes DEGRADED, and its loop begins after bring-up: until then
\* nobody has, and afterwards checker and row part only where the row is not DEGRADED.
MemoryInv ==
  /\ row = "none" => up.at = "off"
  /\ up.at # "off" \/ row = "none" => mon.at \in {"off", "dead"} /\ row # "DEGRADED"
  /\ up.to # "DEGRADED"
  /\ DegradedIsRemembered
  /\ mon.at \in {"check", "write"} => (mon.degraded <=> mon.to = "DEGRADED")

LEMMA MemoryStep ==
  ASSUME MaxRestarts = 0, TypeInv, MemoryInv, [Next]_vars
  PROVE  MemoryInv'
  <1> USE IdleTypes DEF TypeInv, TypeOK, MemoryInv, DegradedIsRemembered, UpTypes, MonTypes,
          UpSteps, MonSteps, Steady
  <1>1. CASE UpCheck \/ UpPull \/ UpRun \/ UpPoll \/ UpRollback
    BY <1>1 DEF UpCheck, UpPull, UpRun, UpPoll, UpRollback
  <1>2. CASE UpWrite
    BY <1>2 DEF UpWrite, States, MidFlight, Terminal
  <1>3. CASE UpAttach
    <2>1. row' = row /\ row # "none" /\ row # "DEGRADED" /\ mon.at \in {"off", "dead"}
      BY <1>3 DEF UpAttach
    <2>2. \/ up' = UpIdle /\ mon' \in {MonFirst, mon}
          \/ up'.at = "rollback" /\ up'.to = up.to /\ mon' \in {mon, MonDead}
      BY <1>3 DEF UpAttach
    <2> QED
      BY <2>1, <2>2
  <1>4. CASE UpRewind \/ Create
    BY <1>4 DEF UpRewind, Create
  <1>5. ASSUME NEW t \in Terminators, TermWrite(t) PROVE MemoryInv'
    <2>1. row' \in {"DRAINING", "STOPPED", "RELEASED"}
      BY <1>5 DEF TermWrite, TermTypes
    <2> QED
      BY <1>5, <2>1 DEF TermWrite
  <1>6. ASSUME NEW t \in Terminators, TermHook(t) PROVE MemoryInv'
    BY <1>6 DEF TermHook, Detached
  <1>7. CASE MonEnd
    BY <1>7 DEF MonEnd
  <1>8. CASE MonBreach
    <2>1. mon.at = "loop" /\ UNCHANGED <<row, up>>
      BY <1>8 DEF MonBreach
    <2>2. \/ mon'.at = "check" /\ mon'.degraded /\ mon'.to = "DEGRADED"
          \/ mon'.at = "loop" /\ mon'.degraded = mon.degraded
      BY <1>8 DEF MonBreach
    <2> QED
      BY <2>1, <2>2
  <1>9. CASE MonFine
    <2>1. mon.at = "loop" /\ UNCHANGED <<row, up>>
      BY <1>9 DEF MonFine
    <2>2. \/ mon'.at = "check" /\ ~mon'.degraded /\ mon'.to = "READY"
          \/ mon'.at = "loop" /\ mon'.degraded = mon.degraded
      BY <1>9 DEF MonFine
    <2> QED
      BY <2>1, <2>2
  <1>10. CASE MonCheck
    <2>1. /\ mon.at = "check" /\ UNCHANGED <<row, up>>
          /\ mon' = [mon EXCEPT !.at = IF Valid(mon.to) THEN "write" ELSE "loop"]
      BY <1>10 DEF MonCheck
    <2>2. row = "DEGRADED" /\ mon.to = "READY" => Valid(mon.to)
      BY DEF Valid, Allowed, ALLOWED
    <2> QED
      BY <2>1, <2>2
  <1>11. CASE MonWrite
    BY <1>11 DEF MonWrite
  <1>12. CASE RecWrite
    BY <1>12 DEF RecWrite
  <1>13. CASE UNCHANGED <<row, up, mon>>
    BY <1>13
  <1>14. ~Restart
    BY DEF Restart
  <1>15. QED
    BY StepCases, <1>1, <1>2, <1>3, <1>4, <1>5, <1>6, <1>7, <1>8, <1>9, <1>10, <1>11, <1>12,
       <1>13, <1>14
       DEF TermStart, TermCheck, TermDrain, TermRelease, RecSelect, RecGet, RecList, RecRemove,
           RecCheck, ContainerExits, ContainerRemoved, TenantRelease, vars

\* Without restarts a DEGRADED deployment and its SLO checker agree, whatever terminate
\* and reconcile write in between: the next good sample recovers it (_loop, push).
THEOREM CheckerRemembersDegraded ==
  ASSUME MaxRestarts = 0
  PROVE  Spec => []DegradedIsRemembered
  <1>1. Init => MemoryInv
    BY IdleTypes DEF Init, MemoryInv, DegradedIsRemembered
  <1>2. TypeInv /\ MemoryInv /\ [Next]_vars => MemoryInv'
    BY MemoryStep
  <1>3. TypeInv /\ [Next]_vars => TypeInv'
    BY TypeStep
  <1>4. MemoryInv => DegradedIsRemembered
    BY DEF MemoryInv
  <1>5. QED
    BY TypeInit, <1>1, <1>2, <1>3, <1>4, PTL DEF Spec
=============================================================================
