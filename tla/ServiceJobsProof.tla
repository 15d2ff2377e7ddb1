-------------------------- MODULE ServiceJobsProof --------------------------
(***************************************************************************)
(* Proofs about ServiceJobs for any jobs, devices, pools and threads.      *)
(*                                                                         *)
(* The argument: every commit of the ledger moves the version on, so a     *)
(* plan made at the current version was made from the current rows.  The   *)
(* inductive invariant says this of the plans in Job.result and of the     *)
(* plans threads hold in local variables.                                  *)
(***************************************************************************)
EXTENDS ServiceJobs, TLAPS

\* Every step is one of these (the disjuncts of Next, flattened).
LEMMA StepCases ==
  ASSUME Next
  PROVE  \/ \E t \in Threads :
              \/ RunStart(t)
              \/ SnapVersion(t)
              \/ SnapFree(t)
              \/ Pick(t)
              \/ PublishResult(t)
              \/ PublishState(t)
              \/ ReadResult(t)
              \/ Reserve(t)
              \/ Replan(t)
              \/ ReplanCheck(t)
              \/ ReplanWrite(t)
              \/ ConfirmWrite(t)
              \/ Deploy(t)
              \/ ReleaseWrite(t)
         \/ \E t \in Threads, j \in Jobs :
              \/ Submit(t, j)
              \/ StartConfirm(t, j)
              \/ StartRelease(t, j)
         \/ \E j \in Jobs :
              \/ DeploymentFails(j)
              \/ TerminateStop(j)
              \/ TerminateRelease(j)
         \/ Restart
  BY DEF Next, ThreadStep, RunStep, ConfirmStep

------------------------------------------------------------------------------
(* Type correctness *)

ThreadsOK ==
  /\ thread \in [Threads -> ThreadStates]
  /\ \A t \in Threads : ~At(t, "idle") => thread[t].job \in Jobs

\* The names of the steps are in Steps (stated so that provers need not expand it).
LEMMA StepNames ==
  \A s \in {"idle", "run_start", "snap_ver", "snap_free", "pick",
           "publish_result", "publish_state", "read_result", "reserve",
           "replan_check", "replan_write", "confirm_write", "deploy",
           "release_write"} : s \in Steps
  BY DEF Steps, RunSteps

\* The empty plan and the idle thread have their types.
LEMMA PlanTypes ==
  /\ NoPlan \in Plans
  /\ IdleThread \in ThreadStates
  BY StepNames DEF NoPlan, Plans, IdleThread, ThreadStates

\* The five ways a thread moves keep its type.
LEMMA MoveTypes ==
  ASSUME ThreadsOK, NEW t \in Threads, ~At(t, "idle"), NEW step \in Steps
  PROVE  /\ Goto(t, step) => ThreadsOK'
         /\ \A p \in Plans : GotoWith(t, step, p) => ThreadsOK'
         /\ \A how \in {"done", "infeasible", "failed"} :
               Settle(t, step, how) => ThreadsOK'
         /\ Return(t) => ThreadsOK'
  <1>1. thread[t] \in ThreadStates /\ thread[t].job \in Jobs
    BY DEF ThreadsOK
  <1>2. Goto(t, step) => ThreadsOK'
    BY <1>1 DEF ThreadsOK, At, Goto, ThreadStates
  <1>3. ASSUME NEW p \in Plans, GotoWith(t, step, p) PROVE ThreadsOK'
    BY <1>1, <1>3 DEF ThreadsOK, At, GotoWith, ThreadStates
  <1>4. ASSUME NEW how \in {"done", "infeasible", "failed"}, Settle(t, step, how)
        PROVE  ThreadsOK'
    BY <1>1, <1>4, PlanTypes DEF ThreadsOK, At, Settle, ThreadStates
  <1>5. Return(t) => ThreadsOK'
    BY PlanTypes DEF ThreadsOK, At, Return, IdleThread
  <1>6. QED
    BY <1>2, <1>3, <1>4, <1>5

\* A request that begins gives its thread a state of the right type.
LEMMA BeginTypes ==
  ASSUME ThreadsOK, NEW t \in Threads, NEW j \in Jobs, NEW step \in Steps,
         NEW endpoint \in {"submit", "confirm", "release"},
         Begin(t, j, step, endpoint)
  PROVE  ThreadsOK'
  BY PlanTypes DEF ThreadsOK, At, Begin, IdleThread, ThreadStates

\* The initial state has the types.
LEMMA TypeInit == Init => TypeOK
  BY PlanTypes DEF Init, TypeOK, At, IdleThread, BookingStates,
                   DeploymentStates

\* Every step keeps them.
LEMMA TypeStep == TypeOK /\ [Next]_vars => TypeOK'
  <1> SUFFICES ASSUME TypeOK, [Next]_vars PROVE TypeOK'
    OBVIOUS
  <1>a. ThreadsOK
    BY DEF TypeOK, ThreadsOK
  <1> USE DEF ledgerVars, deployVars
  <1>1. ASSUME NEW t \in Threads, RunStart(t) PROVE TypeOK'
    <2>1. ~At(t, "idle") /\ thread[t] \in ThreadStates /\ thread[t].job \in Jobs
      BY <1>1, <1>a DEF RunStart, At, ThreadsOK
    <2>3. ThreadsOK'
      BY <1>1, <1>a, <2>1, MoveTypes, PlanTypes, StepNames DEF RunStart
    <2>4. QED
      BY <1>1, <2>1, <2>3 DEF TypeOK, ThreadsOK, RunStart, JobStates
  <1>2. ASSUME NEW t \in Threads, SnapVersion(t) PROVE TypeOK'
    <2>1. ~At(t, "idle") /\ thread[t] \in ThreadStates /\ thread[t].job \in Jobs
      BY <1>2, <1>a DEF SnapVersion, At, ThreadsOK
    <2>3. ThreadsOK'
      BY <1>2, <1>a, <2>1, MoveTypes, PlanTypes, StepNames DEF SnapVersion, Plans, TypeOK
    <2>4. QED
      BY <1>2, <2>1, <2>3 DEF TypeOK, ThreadsOK, SnapVersion
  <1>3. ASSUME NEW t \in Threads, SnapFree(t) PROVE TypeOK'
    <2>1. ~At(t, "idle") /\ thread[t] \in ThreadStates /\ thread[t].job \in Jobs
      BY <1>3, <1>a DEF SnapFree, At, ThreadsOK
    <2>2. \A devs \in SUBSET Free : [thread[t].plan EXCEPT !.devs = devs] \in Plans
      BY <2>1 DEF Free, Plans, ThreadStates
    <2>3. ThreadsOK'
      BY <1>3, <1>a, <2>1, <2>2, MoveTypes, PlanTypes, StepNames DEF SnapFree
    <2>4. QED
      BY <1>3, <2>1, <2>3 DEF TypeOK, ThreadsOK, SnapFree
  <1>4. ASSUME NEW t \in Threads, Pick(t) PROVE TypeOK'
    <2>1. ~At(t, "idle") /\ thread[t] \in ThreadStates /\ thread[t].job \in Jobs
      BY <1>4, <1>a DEF Pick, At, ThreadsOK
    <2>2. \A devs \in SUBSET Free : [thread[t].plan EXCEPT !.devs = devs] \in Plans
      BY <2>1 DEF Free, Plans, ThreadStates
    <2>3. ThreadsOK'
      BY <1>4, <1>a, <2>1, <2>2, MoveTypes, PlanTypes, StepNames DEF Pick
    <2>4. QED
      BY <1>4, <2>1, <2>3 DEF TypeOK, ThreadsOK, Pick
  <1>5. ASSUME NEW t \in Threads, PublishResult(t) PROVE TypeOK'
    <2>1. ~At(t, "idle") /\ thread[t] \in ThreadStates /\ thread[t].job \in Jobs
      BY <1>5, <1>a DEF PublishResult, At, ThreadsOK
    <2>3. ThreadsOK'
      BY <1>5, <1>a, <2>1, MoveTypes, PlanTypes, StepNames DEF PublishResult
    <2>4. QED
      BY <1>5, <2>1, <2>3 DEF TypeOK, ThreadsOK, PublishResult, ThreadStates
  <1>6. ASSUME NEW t \in Threads, PublishState(t) PROVE TypeOK'
    <2>1. ~At(t, "idle") /\ thread[t] \in ThreadStates /\ thread[t].job \in Jobs
      BY <1>6, <1>a DEF PublishState, At, ThreadsOK
    <2>3. ThreadsOK'
      BY <1>6, <1>a, <2>1, MoveTypes, PlanTypes, StepNames DEF PublishState
    <2>4. QED
      BY <1>6, <2>1, <2>3 DEF TypeOK, ThreadsOK, PublishState, JobStates, ThreadStates
  <1>7. ASSUME NEW t \in Threads, ReadResult(t) PROVE TypeOK'
    <2>1. ~At(t, "idle") /\ thread[t] \in ThreadStates /\ thread[t].job \in Jobs
      BY <1>7, <1>a DEF ReadResult, At, ThreadsOK
    <2>3. ThreadsOK'
      BY <1>7, <1>a, <2>1, MoveTypes, PlanTypes, StepNames DEF ReadResult, TypeOK
    <2>4. QED
      BY <1>7, <2>1, <2>3 DEF TypeOK, ThreadsOK, ReadResult
  <1>8. ASSUME NEW t \in Threads, Reserve(t) PROVE TypeOK'
    <2>1. ~At(t, "idle") /\ thread[t] \in ThreadStates /\ thread[t].job \in Jobs
      BY <1>8, <1>a DEF Reserve, At, ThreadsOK
    <2>3. ThreadsOK'
      BY <1>8, <1>a, <2>1, MoveTypes, PlanTypes, StepNames DEF Reserve
    <2>4. QED
      BY <1>8, <2>1, <2>3 DEF TypeOK, ThreadsOK, Reserve, ThreadStates, Plans, BookingStates
  <1>9. ASSUME NEW t \in Threads, Replan(t) PROVE TypeOK'
    <2>1. ~At(t, "idle") /\ thread[t] \in ThreadStates /\ thread[t].job \in Jobs
      BY <1>9, <1>a DEF Replan, At, ThreadsOK
    <2>3. ThreadsOK'
      BY <1>9, <1>a, <2>1, MoveTypes, PlanTypes, StepNames DEF Replan
    <2>4. QED
      BY <1>9, <2>1, <2>3 DEF TypeOK, ThreadsOK, Replan
  <1>10. ASSUME NEW t \in Threads, ReplanCheck(t) PROVE TypeOK'
    <2>1. ~At(t, "idle") /\ thread[t] \in ThreadStates /\ thread[t].job \in Jobs
      BY <1>10, <1>a DEF ReplanCheck, At, ThreadsOK
    <2>3. ThreadsOK'
      BY <1>10, <1>a, <2>1, MoveTypes, PlanTypes, StepNames DEF ReplanCheck
    <2>4. QED
      BY <1>10, <2>1, <2>3 DEF TypeOK, ThreadsOK, ReplanCheck
  <1>11. ASSUME NEW t \in Threads, ReplanWrite(t) PROVE TypeOK'
    <2>1. ~At(t, "idle") /\ thread[t] \in ThreadStates /\ thread[t].job \in Jobs
      BY <1>11, <1>a DEF ReplanWrite, At, ThreadsOK
    <2>3. ThreadsOK'
      BY <1>11, <1>a, <2>1, MoveTypes, PlanTypes, StepNames DEF ReplanWrite
    <2>4. QED
      BY <1>11, <2>1, <2>3 DEF TypeOK, ThreadsOK, ReplanWrite, JobStates
  <1>12. ASSUME NEW t \in Threads, ConfirmWrite(t) PROVE TypeOK'
    <2>1. ~At(t, "idle") /\ thread[t] \in ThreadStates /\ thread[t].job \in Jobs
      BY <1>12, <1>a DEF ConfirmWrite, At, ThreadsOK
    <2>3. ThreadsOK'
      BY <1>12, <1>a, <2>1, MoveTypes, PlanTypes, StepNames DEF ConfirmWrite
    <2>4. QED
      BY <1>12, <2>1, <2>3 DEF TypeOK, ThreadsOK, ConfirmWrite, JobStates
  <1>13. ASSUME NEW t \in Threads, Deploy(t) PROVE TypeOK'
    <2>1. ~At(t, "idle") /\ thread[t] \in ThreadStates /\ thread[t].job \in Jobs
      BY <1>13, <1>a DEF Deploy, At, ThreadsOK
    <2>3. ThreadsOK'
      BY <1>13, <1>a, <2>1, MoveTypes, PlanTypes, StepNames DEF Deploy
    <2>4. QED
      BY <1>13, <2>1, <2>3 DEF TypeOK, ThreadsOK, Deploy, Plans, DeploymentStates
  <1>14. ASSUME NEW t \in Threads, ReleaseWrite(t) PROVE TypeOK'
    <2>1. ~At(t, "idle") /\ thread[t] \in ThreadStates /\ thread[t].job \in Jobs
      BY <1>14, <1>a DEF ReleaseWrite, At, ThreadsOK
    <2>3. ThreadsOK'
      BY <1>14, <1>a, <2>1, MoveTypes, PlanTypes, StepNames DEF ReleaseWrite
    <2>4. QED
      BY <1>14, <2>1, <2>3 DEF TypeOK, ThreadsOK, ReleaseWrite, JobStates
  <1>15. ASSUME NEW t \in Threads, NEW j \in Jobs, Submit(t, j) PROVE TypeOK'
    <2>1. ThreadsOK'
      BY <1>15, <1>a, BeginTypes, StepNames DEF Submit
    <2>2. QED
      BY <1>15, <2>1 DEF TypeOK, ThreadsOK, Submit, JobStates
  <1>16. ASSUME NEW t \in Threads, NEW j \in Jobs, StartConfirm(t, j) PROVE TypeOK'
    <2>1. ThreadsOK'
      BY <1>16, <1>a, BeginTypes, StepNames DEF StartConfirm
    <2>2. QED
      BY <1>16, <2>1 DEF TypeOK, ThreadsOK, StartConfirm
  <1>17. ASSUME NEW t \in Threads, NEW j \in Jobs, StartRelease(t, j) PROVE TypeOK'
    <2>1. ThreadsOK'
      BY <1>17, <1>a, BeginTypes, StepNames DEF StartRelease
    <2>2. QED
      BY <1>17, <2>1 DEF TypeOK, ThreadsOK, StartRelease, LedgerRelease, BookingStates
  <1>18. ASSUME NEW j \in Jobs, DeploymentFails(j) PROVE TypeOK'
    BY <1>18 DEF TypeOK, At, DeploymentFails, DeploymentStates
  <1>19. ASSUME NEW j \in Jobs, TerminateStop(j) PROVE TypeOK'
    BY <1>19 DEF TypeOK, At, TerminateStop, DeploymentStates
  <1>20. ASSUME NEW j \in Jobs, TerminateRelease(j) PROVE TypeOK'
    BY <1>20 DEF TypeOK, At, TerminateRelease, DeploymentStates, LedgerRelease, BookingStates
  <1>21. CASE Restart
    BY <1>21, PlanTypes DEF TypeOK, At, Restart, IdleThread
  <1>22. CASE UNCHANGED vars
    BY <1>22 DEF TypeOK, At, vars
  <1>23. QED
    BY StepCases, <1>1, <1>2, <1>3, <1>4, <1>5, <1>6, <1>7, <1>8, <1>9,
       <1>10, <1>11, <1>12, <1>13, <1>14, <1>15, <1>16, <1>17, <1>18, <1>19,
       <1>20, <1>21, <1>22

\* The types of the ledger, the jobs, the deployments and the threads.
THEOREM TypeCorrect == Spec => []TypeOK
  <1>1. Init => TypeOK
    BY TypeInit
  <1>2. TypeOK /\ [Next]_vars => TypeOK'
    BY TypeStep
  <1>3. QED
    BY <1>1, <1>2, PTL DEF Spec

------------------------------------------------------------------------------
(* The inductive invariant of the optimistic lock *)

\* What holds of a plan p that a thread carries at a step: it is not from the
\* future; if it is current when it is published or reserved, its devices are
\* free; an empty plan never reaches Ledger.reserve.
PlanOK(p, step) ==
  /\ p.ver <= version
  /\ step \in {"publish_result", "reserve"} /\ p.ver = version
       => p.devs \subseteq Free
  /\ step = "reserve" => p.devs # {}

PlansOK == \A t \in Threads : PlanOK(thread[t].plan, thread[t].at)
ResultsOK ==
  \A j \in Jobs : /\ result[j].ver <= version
                  /\ result[j].ver = version => result[j].devs \subseteq Free
RowsOK == \A j \in Jobs : booked[j] # {} <=> booking[j] = "reserved"

LedgerInv == TypeOK /\ RowsOK /\ NoDoubleBooking /\ PlansOK /\ ResultsOK

\* Without a commit, what is free stays free and a plan stays current.
LEMMA NoCommit ==
  ASSUME UNCHANGED ledgerVars
  PROVE  /\ Free' = Free
         /\ version' = version
         /\ RowsOK => RowsOK'
         /\ NoDoubleBooking => NoDoubleBooking'
         /\ ResultsOK /\ UNCHANGED result => ResultsOK'
  BY DEF ledgerVars, Free, Used, RowsOK, NoDoubleBooking, ResultsOK

\* Thread t alone moves, to step, carrying p.
Moves(t, p, step) ==
  /\ thread' = [thread EXCEPT ![t] = thread'[t]]
  /\ thread'[t].plan = p
  /\ thread'[t].at = step

\* The one thread that moves must carry a plan that suits its new step.
LEMMA MovePlans ==
  ASSUME TypeOK, PlansOK, UNCHANGED ledgerVars, NEW t \in Threads, NEW step, NEW p,
         Moves(t, p, step), PlanOK(p, step)
  PROVE  PlansOK'
  <1>1. SUFFICES ASSUME NEW u \in Threads
                 PROVE  PlanOK(thread[u].plan, thread[u].at)'
    BY DEF PlansOK
  <1>2. Free' = Free /\ version' = version
    BY NoCommit
  <1>3. CASE u = t
    BY <1>2, <1>3 DEF PlanOK, Moves
  <1>4. CASE u # t
    <2>1. thread'[u] = thread[u]
      BY <1>4 DEF TypeOK, Moves
    <2>2. QED
      BY <1>2, <2>1 DEF PlansOK, PlanOK
  <1>5. QED
    BY <1>3, <1>4

\* What a thread carries after each way of moving.
LEMMA MoveShapes ==
  ASSUME TypeOK, NEW t \in Threads, NEW step
  PROVE  /\ Goto(t, step) => Moves(t, thread[t].plan, step)
         /\ \A p : GotoWith(t, step, p) => Moves(t, p, step)
         /\ \A how : Settle(t, step, how) => Moves(t, NoPlan, step)
         /\ Return(t) => Moves(t, NoPlan, "idle")
         /\ \A j, endpoint : Begin(t, j, step, endpoint) => Moves(t, NoPlan, step)
  <1>1. thread \in [Threads -> ThreadStates] /\ thread[t] \in ThreadStates
    BY DEF TypeOK
  <1>2. Goto(t, step) => Moves(t, thread[t].plan, step)
    BY <1>1 DEF Goto, Moves, ThreadStates
  <1>3. ASSUME NEW p, GotoWith(t, step, p) PROVE Moves(t, p, step)
    BY <1>1, <1>3 DEF GotoWith, Moves, ThreadStates
  <1>4. ASSUME NEW how, Settle(t, step, how) PROVE Moves(t, NoPlan, step)
    BY <1>1, <1>4 DEF Settle, Moves, ThreadStates
  <1>5. Return(t) => Moves(t, NoPlan, "idle")
    BY <1>1 DEF Return, Moves, IdleThread
  <1>6. ASSUME NEW j, NEW endpoint, Begin(t, j, step, endpoint)
        PROVE  Moves(t, NoPlan, step)
    BY <1>1, <1>6 DEF Begin, Moves, IdleThread
  <1>7. QED
    BY <1>2, <1>3, <1>4, <1>5, <1>6

\* The empty plan suits every step but the call of Ledger.reserve.
LEMMA NoPlanOK ==
  ASSUME TypeOK, NEW step, step # "reserve"
  PROVE  PlanOK(NoPlan, step)
  BY DEF PlanOK, NoPlan, TypeOK

\* After a commit no plan is current any more.
LEMMA Commit ==
  ASSUME TypeOK, PlansOK, ResultsOK, version' = version + 1, UNCHANGED result
  PROVE  /\ ResultsOK'
         /\ \A p, step : PlanOK(p, step) /\ p.ver \in Nat => PlanOK(p, step)'
  <1>1. \A j \in Jobs : result[j].ver \in Nat
    BY DEF TypeOK, Plans
  <1>2. ResultsOK'
    BY <1>1 DEF ResultsOK, TypeOK
  <1>3. QED
    BY <1>2 DEF PlanOK, TypeOK

\* Ledger.release, whether or not it commits, keeps the ledger's part of the invariant.
LEMMA LedgerReleaseInv ==
  ASSUME LedgerInv, NEW j \in Jobs, LedgerRelease(j), UNCHANGED result
  PROVE  /\ RowsOK' /\ NoDoubleBooking' /\ ResultsOK'
         /\ \A p, step : PlanOK(p, step) /\ p.ver \in Nat => PlanOK(p, step)'
  <1>1. CASE booking[j] = "reserved"
    <2>1. RowsOK' /\ NoDoubleBooking'
      BY <1>1 DEF LedgerInv, TypeOK, LedgerRelease, RowsOK, NoDoubleBooking
    <2>2. QED
      BY <1>1, <2>1, Commit DEF LedgerInv, LedgerRelease
  <1>2. CASE booking[j] # "reserved"
    BY <1>2, NoCommit DEF LedgerInv, LedgerRelease, PlanOK
  <1>3. QED
    BY <1>1, <1>2

\* A step that keeps the ledger and Job.result keeps the invariant if the plan
\* the moving thread carries suits its new step.
LEMMA QuietStep ==
  ASSUME LedgerInv, UNCHANGED <<ledgerVars, result>>, NEW t \in Threads,
         NEW step, NEW p, Moves(t, p, step), PlanOK(p, step)
  PROVE  RowsOK' /\ NoDoubleBooking' /\ PlansOK' /\ ResultsOK'
  BY NoCommit, MovePlans DEF LedgerInv

\* A thread may drop its plan, or carry it on to any step that does not use it.
LEMMA DropOrKeep ==
  ASSUME LedgerInv, NEW t \in Threads, NEW step,
         step \notin {"publish_result", "reserve"}
  PROVE  PlanOK(NoPlan, step) /\ PlanOK(thread[t].plan, step)
  BY NoPlanOK DEF LedgerInv, PlansOK, PlanOK

\* The invariant holds at first.
LEMMA LedgerInit == Init => LedgerInv
  <1> SUFFICES ASSUME Init PROVE LedgerInv
    OBVIOUS
  <1>1. TypeOK
    BY TypeInit
  <1>2. RowsOK /\ NoDoubleBooking
    BY DEF Init, RowsOK, NoDoubleBooking
  <1>3. PlansOK /\ ResultsOK
    BY DEF Init, PlansOK, PlanOK, ResultsOK, IdleThread, NoPlan
  <1>4. QED
    BY <1>1, <1>2, <1>3 DEF LedgerInv

\* Every step keeps it.
LEMMA LedgerStep == LedgerInv /\ [Next]_vars => LedgerInv'
  <1> SUFFICES ASSUME LedgerInv, [Next]_vars
               PROVE  RowsOK' /\ NoDoubleBooking' /\ PlansOK' /\ ResultsOK'
    BY TypeStep DEF LedgerInv
  <1> DEFINE Goal == RowsOK' /\ NoDoubleBooking' /\ PlansOK' /\ ResultsOK'
  <1>0. TypeOK
    BY DEF LedgerInv
  <1>1. ASSUME NEW t \in Threads,
               \/ RunStart(t) \/ PublishState(t) \/ Replan(t) \/ ReplanCheck(t)
               \/ ReplanWrite(t) \/ ConfirmWrite(t) \/ Deploy(t) \/ ReleaseWrite(t)
        PROVE  Goal
    <2>1. PICK step : /\ step \notin {"publish_result", "reserve"}
                      /\ Moves(t, NoPlan, step) \/ Moves(t, thread[t].plan, step)
      BY <1>1, <1>0, MoveShapes
         DEF RunStart, PublishState, Replan, ReplanCheck, ReplanWrite,
             ConfirmWrite, Deploy, ReleaseWrite
    <2>2. UNCHANGED <<ledgerVars, result>>
      BY <1>1 DEF RunStart, PublishState, Replan, ReplanCheck, ReplanWrite,
                  ConfirmWrite, Deploy, ReleaseWrite
    <2>3. QED
      BY <2>1, <2>2, DropOrKeep, QuietStep
  <1>2. ASSUME NEW t \in Threads, NEW j \in Jobs, Submit(t, j) \/ StartConfirm(t, j)
        PROVE  Goal
    <2>1. PICK step : step \notin {"publish_result", "reserve"} /\ Moves(t, NoPlan, step)
      BY <1>2, <1>0, MoveShapes DEF Submit, StartConfirm
    <2>2. UNCHANGED <<ledgerVars, result>>
      BY <1>2 DEF Submit, StartConfirm
    <2>3. QED
      BY <2>1, <2>2, DropOrKeep, QuietStep
  <1>3. ASSUME NEW t \in Threads, SnapVersion(t) PROVE Goal
    <2> DEFINE p == [ver |-> version, devs |-> {}]
    <2>1. Moves(t, p, "snap_free")
      BY <1>3, <1>0, MoveShapes DEF SnapVersion
    <2>2. PlanOK(p, "snap_free")
      BY <1>0 DEF PlanOK, TypeOK
    <2>3. QED
      BY <1>3, <2>1, <2>2, QuietStep DEF SnapVersion
  <1>4. ASSUME NEW t \in Threads, SnapFree(t) \/ Pick(t) PROVE Goal
    <2>0. thread[t].plan \in Plans /\ thread[t].plan.ver <= version
      BY <1>0 DEF LedgerInv, PlansOK, PlanOK, TypeOK, ThreadStates
    <2>1. ASSUME NEW devs \in SUBSET Free, NEW step \in {"pick", "publish_result"},
                 GotoWith(t, step, [thread[t].plan EXCEPT !.devs = devs])
          PROVE  Goal
      <3> DEFINE p == [thread[t].plan EXCEPT !.devs = devs]
      <3>1. Moves(t, p, step)
        BY <2>1, <1>0, MoveShapes
      <3>2. PlanOK(p, step)
        BY <2>0 DEF PlanOK, Plans
      <3>3. QED
        BY <1>4, <3>1, <3>2, QuietStep DEF SnapFree, Pick
    <2>2. ASSUME NEW step \in {"publish_result", "publish_state"},
                 \/ GotoWith(t, step, NoPlan)
                 \/ \E how : Settle(t, step, how)
          PROVE  Goal
      <3>1. Moves(t, NoPlan, step)
        BY <2>2, <1>0, MoveShapes
      <3>2. PlanOK(NoPlan, step)
        BY <1>0, NoPlanOK
      <3>3. QED
        BY <1>4, <3>1, <3>2, QuietStep DEF SnapFree, Pick
    <2>3. QED
      BY <1>4, <2>1, <2>2 DEF SnapFree, Pick
  <1>5. ASSUME NEW t \in Threads, PublishResult(t) PROVE Goal
    <2>1. PlanOK(thread[t].plan, "publish_result")
      BY <1>5 DEF LedgerInv, PlansOK, PublishResult, At
    <2>2. Moves(t, NoPlan, "publish_state")
      BY <1>5, <1>0, MoveShapes DEF PublishResult
    <2>3. RowsOK' /\ NoDoubleBooking' /\ PlansOK'
      BY <1>5, <1>0, <2>2, NoCommit, MovePlans, DropOrKeep DEF LedgerInv, PublishResult
    <2>4. ResultsOK'
      <3>1. Free' = Free /\ version' = version
        BY <1>5, NoCommit DEF PublishResult
      <3>2. \A j \in Jobs : result'[j] = result[j] \/ result'[j] = thread[t].plan
        BY <1>5, <1>0 DEF PublishResult, TypeOK
      <3>3. QED
        BY <2>1, <3>1, <3>2 DEF LedgerInv, ResultsOK, PlanOK
    <2>5. QED
      BY <2>3, <2>4
  <1>6. ASSUME NEW t \in Threads, ReadResult(t) PROVE Goal
    <2> DEFINE p == result[thread[t].job]
    <2>1. thread[t].job \in Jobs
      BY <1>6, <1>0 DEF ReadResult, TypeOK, At
    <2>2. CASE p.devs = {}
      <3>1. Moves(t, NoPlan, "idle")
        BY <1>6, <2>2, <1>0, MoveShapes DEF ReadResult
      <3>2. QED
        BY <1>6, <3>1, DropOrKeep, QuietStep DEF ReadResult
    <2>3. CASE p.devs # {}
      <3>1. Moves(t, p, "reserve")
        BY <1>6, <2>3, <1>0, MoveShapes DEF ReadResult
      <3>2. PlanOK(p, "reserve")
        BY <2>1, <2>3 DEF LedgerInv, ResultsOK, PlanOK
      <3>3. QED
        BY <1>6, <3>1, <3>2, QuietStep DEF ReadResult
    <2>4. QED
      BY <2>2, <2>3
  <1>7. ASSUME NEW t \in Threads, Reserve(t) PROVE Goal
    <2> DEFINE p == thread[t].plan
               j == thread[t].job
    <2>1. /\ j \in Jobs /\ p \in Plans /\ p.devs # {}
          /\ p.devs \cap Used = {}
          /\ booking' = [booking EXCEPT ![j] = "reserved"]
          /\ booked' = [booked EXCEPT ![j] = p.devs]
      BY <1>7, <1>0 DEF Reserve, Conflict, LedgerInv, TypeOK, ThreadStates, At,
                        PlansOK, PlanOK
    <2>2. RowsOK'
      BY <2>1, <1>0 DEF LedgerInv, RowsOK, TypeOK
    <2>3. NoDoubleBooking'
      BY <2>1, <1>0 DEF LedgerInv, NoDoubleBooking, TypeOK, Used
    <2>4. ResultsOK' /\ \A q, step : PlanOK(q, step) /\ q.ver \in Nat => PlanOK(q, step)'
      BY <1>7, Commit DEF LedgerInv, Reserve
    <2>5. PlansOK'
      <3>1. Moves(t, NoPlan, "confirm_write")
        BY <1>7, <1>0, MoveShapes DEF Reserve
      <3>2. PlanOK(NoPlan, "confirm_write") /\ NoPlan.ver \in Nat
        BY <1>0, NoPlanOK, PlanTypes DEF Plans
      <3>3. ASSUME NEW u \in Threads, u # t
            PROVE  /\ thread'[u] = thread[u]
                   /\ PlanOK(thread[u].plan, thread[u].at) /\ thread[u].plan.ver \in Nat
        BY <3>1, <3>3, <1>0 DEF LedgerInv, PlansOK, TypeOK, ThreadStates, Plans, Moves
      <3>4. \A u \in Threads : PlanOK(thread[u].plan, thread[u].at)'
        BY <2>4, <3>1, <3>2, <3>3 DEF PlanOK, Moves
      <3>5. QED
        BY <3>4 DEF PlansOK
    <2>6. QED
      BY <2>2, <2>3, <2>4, <2>5
  <1>8. ASSUME NEW t \in Threads, NEW j \in Jobs, StartRelease(t, j) PROVE Goal
    <2>1. /\ RowsOK' /\ NoDoubleBooking' /\ ResultsOK'
          /\ \A q, step : PlanOK(q, step) /\ q.ver \in Nat => PlanOK(q, step)'
      BY <1>8, LedgerReleaseInv DEF StartRelease
    <2>2. PlansOK'
      <3>1. Moves(t, NoPlan, "release_write")
        BY <1>8, <1>0, MoveShapes DEF StartRelease
      <3>2. PlanOK(NoPlan, "release_write") /\ NoPlan.ver \in Nat
        BY <1>0, NoPlanOK, PlanTypes DEF Plans
      <3>3. ASSUME NEW u \in Threads, u # t
            PROVE  /\ thread'[u] = thread[u]
                   /\ PlanOK(thread[u].plan, thread[u].at) /\ thread[u].plan.ver \in Nat
        BY <3>1, <3>3, <1>0 DEF LedgerInv, PlansOK, TypeOK, ThreadStates, Plans, Moves
      <3>4. \A u \in Threads : PlanOK(thread[u].plan, thread[u].at)'
        BY <2>1, <3>1, <3>2, <3>3 DEF PlanOK, Moves
      <3>5. QED
        BY <3>4 DEF PlansOK
    <2>3. QED
      BY <2>1, <2>2
  <1>9. ASSUME NEW j \in Jobs, TerminateRelease(j) PROVE Goal
    <2>1. /\ RowsOK' /\ NoDoubleBooking' /\ ResultsOK'
          /\ \A q, step : PlanOK(q, step) /\ q.ver \in Nat => PlanOK(q, step)'
      BY <1>9, LedgerReleaseInv DEF TerminateRelease
    <2>2. ASSUME NEW u \in Threads
          PROVE  /\ thread'[u] = thread[u]
                 /\ PlanOK(thread[u].plan, thread[u].at) /\ thread[u].plan.ver \in Nat
      BY <1>9, <1>0 DEF TerminateRelease, LedgerInv, PlansOK, TypeOK, ThreadStates, Plans
    <2>3. \A u \in Threads : PlanOK(thread[u].plan, thread[u].at)'
      BY <2>1, <2>2 DEF PlanOK
    <2>4. QED
      BY <2>1, <2>3 DEF PlansOK
  <1>10. ASSUME NEW j \in Jobs, DeploymentFails(j) \/ TerminateStop(j) PROVE Goal
    BY <1>10, NoCommit
       DEF DeploymentFails, TerminateStop, ledgerVars, LedgerInv, PlansOK, PlanOK
  <1>11. CASE Restart
    <2>1. Free' = Free /\ version' = version /\ RowsOK' /\ NoDoubleBooking'
      BY <1>11, NoCommit DEF Restart, LedgerInv
    <2>2. PlansOK' /\ ResultsOK'
      BY <1>11, <1>0, <2>1
         DEF Restart, PlansOK, PlanOK, ResultsOK, IdleThread, NoPlan, TypeOK
    <2>3. QED
      BY <2>1, <2>2
  <1>12. CASE UNCHANGED vars
    BY <1>12, NoCommit DEF vars, ledgerVars, LedgerInv, PlansOK, PlanOK
  <1>13. QED
    BY StepCases, <1>1, <1>2, <1>3, <1>4, <1>5, <1>6, <1>7, <1>8, <1>9, <1>10,
       <1>11, <1>12

\* The parts of the invariant hold together in every reachable state.
THEOREM LedgerInvariant == Spec => []LedgerInv
  BY LedgerInit, LedgerStep, PTL DEF Spec

\* No device is ever in two rows that are not released.
THEOREM NeverDoubleBooked == Spec => []NoDoubleBooking
  BY LedgerInvariant, PTL DEF LedgerInv

\* A recommendation whose version is the ledger's names only free devices.
THEOREM CurrentPlansAreFree == Spec => []CurrentPlanIsFree
  <1>1. LedgerInv => CurrentPlanIsFree
    BY DEF LedgerInv, ResultsOK, CurrentPlanIsFree
  <1>2. QED
    BY <1>1, LedgerInvariant, PTL

------------------------------------------------------------------------------
(* Refinement *)

\* Ledger.release gives one grant back, or changes nothing.
LEMMA ReleaseRefines ==
  ASSUME LedgerInv, NEW j \in Jobs, LedgerRelease(j)
  PROVE  R!GiveBack(j) \/ UNCHANGED R!vars
  <1>1. CASE booking[j] = "reserved"
    <2>1. booked[j] # {} /\ booked' = [booked EXCEPT ![j] = {}]
      BY <1>1 DEF LedgerRelease, LedgerInv, RowsOK
    <2>2. Spent' = Spent
      BY <1>1 DEF LedgerRelease, Spent, LedgerInv, TypeOK
    <2>3. QED
      BY <2>1, <2>2 DEF R!GiveBack
  <1>2. CASE booking[j] # "reserved"
    BY <1>2 DEF LedgerRelease, ledgerVars, R!vars, Spent
  <1>3. QED
    BY <1>1, <1>2

\* Every step is a step of Reservations or a stutter.
LEMMA StepRefines == LedgerInv /\ [Next]_vars => [R!Next]_(R!vars)
  <1> SUFFICES ASSUME LedgerInv, [Next]_vars PROVE [R!Next]_(R!vars)
    OBVIOUS
  <1>1. ASSUME NEW t \in Threads, Reserve(t) PROVE R!Next
    <2> DEFINE p == thread[t].plan
               j == thread[t].job
    <2>1. /\ j \in Jobs /\ p.devs \in SUBSET Devices /\ p.devs # {}
          /\ booking[j] = "none" /\ p.devs \cap Used = {}
          /\ booking' = [booking EXCEPT ![j] = "reserved"]
          /\ booked' = [booked EXCEPT ![j] = p.devs]
      BY <1>1 DEF Reserve, Conflict, LedgerInv, TypeOK, ThreadStates, Plans, At,
                  PlansOK, PlanOK
    <2>2. j \notin Spent /\ Spent' = Spent \cup {j}
      BY <2>1 DEF Spent, LedgerInv, TypeOK
    <2>3. \A d \in p.devs : ~R!Taken(j, d)
      BY <2>1 DEF R!Taken, Used
    <2>4. R!Grant(j, p.devs)
      BY <2>1, <2>2, <2>3 DEF R!Grant
    <2>5. QED
      BY <2>1, <2>4 DEF R!Next
  <1>2. ASSUME NEW t \in Threads, NEW j \in Jobs, StartRelease(t, j)
        PROVE  [R!Next]_(R!vars)
    BY <1>2, ReleaseRefines DEF StartRelease, R!Next
  <1>3. ASSUME NEW j \in Jobs, TerminateRelease(j)
        PROVE  [R!Next]_(R!vars)
    BY <1>3, ReleaseRefines DEF TerminateRelease, R!Next
  <1>4. CASE UNCHANGED ledgerVars
    BY <1>4 DEF ledgerVars, R!vars, Spent
  <1>5. ASSUME NEW t \in Threads,
               \/ RunStart(t) \/ SnapVersion(t) \/ SnapFree(t) \/ Pick(t)
               \/ PublishResult(t) \/ PublishState(t) \/ ReadResult(t)
               \/ Replan(t) \/ ReplanCheck(t) \/ ReplanWrite(t)
               \/ ConfirmWrite(t) \/ Deploy(t) \/ ReleaseWrite(t)
        PROVE  UNCHANGED ledgerVars
    BY <1>5 DEF RunStart, SnapVersion, SnapFree, Pick, PublishResult, PublishState,
                ReadResult, Replan, ReplanCheck, ReplanWrite, ConfirmWrite, Deploy,
                ReleaseWrite
  <1>6. ASSUME NEW t \in Threads, NEW j \in Jobs, Submit(t, j) \/ StartConfirm(t, j)
        PROVE  UNCHANGED ledgerVars
    BY <1>6 DEF Submit, StartConfirm
  <1>7. ASSUME NEW j \in Jobs, DeploymentFails(j) \/ TerminateStop(j)
        PROVE  UNCHANGED ledgerVars
    BY <1>7 DEF DeploymentFails, TerminateStop
  <1>8. CASE Restart \/ UNCHANGED vars
    BY <1>8, <1>4 DEF Restart, vars
  <1>9. QED
    <2>1. ASSUME NEW t \in Threads,
                 \/ RunStart(t) \/ SnapVersion(t) \/ SnapFree(t) \/ Pick(t)
                 \/ PublishResult(t) \/ PublishState(t) \/ ReadResult(t)
                 \/ Reserve(t) \/ Replan(t) \/ ReplanCheck(t) \/ ReplanWrite(t)
                 \/ ConfirmWrite(t) \/ Deploy(t) \/ ReleaseWrite(t)
          PROVE  [R!Next]_(R!vars)
      BY <2>1, <1>1, <1>4, <1>5
    <2>2. ASSUME NEW t \in Threads, NEW j \in Jobs,
                 Submit(t, j) \/ StartConfirm(t, j) \/ StartRelease(t, j)
          PROVE  [R!Next]_(R!vars)
      BY <2>2, <1>2, <1>4, <1>6
    <2>3. ASSUME NEW j \in Jobs,
                 DeploymentFails(j) \/ TerminateStop(j) \/ TerminateRelease(j)
          PROVE  [R!Next]_(R!vars)
      BY <2>3, <1>3, <1>4, <1>7
    <2>4. QED
      BY StepCases, <1>8, <2>1, <2>2, <2>3

\* The ledger, driven by any threads, clients and restarts, is an exclusive
\* allocation in which each request is granted devices at most once.
THEOREM LedgerRefinesReservations == Spec => ImplementsReservations
  <1>1. Init => R!Init
    BY DEF Init, R!Init, Spent
  <1>2. LedgerInv /\ [Next]_vars => [R!Next]_(R!vars)
    BY StepRefines
  <1>3. QED
    BY <1>1, <1>2, LedgerInvariant, PTL DEF Spec, ImplementsReservations, R!Spec

------------------------------------------------------------------------------
(* A running job has a thread that will write its outcome *)

\* No job runs at first.
LEMMA RunningInit == Init => RunningHasWorker
  BY DEF Init, RunningHasWorker

\* Every step leaves each running job a thread inside _run_job.
LEMMA RunningStep == TypeOK /\ RunningHasWorker /\ [Next]_vars => RunningHasWorker'
  <1> SUFFICES ASSUME TypeOK, RunningHasWorker, [Next]_vars,
                      NEW k \in Jobs, state'[k] = "running"
               PROVE  \E u \in Threads : /\ thread'[u].job = k
                                         /\ thread'[u].at \in RunSteps
    BY DEF RunningHasWorker
  <1> DEFINE Worked == \E u \in Threads : /\ thread'[u].job = k
                                          /\ thread'[u].at \in RunSteps
  <1>1. \A t \in Threads : thread[t] \in ThreadStates
    BY DEF TypeOK
  \* The thread that runs k's job keeps running it in every step but the two
  \* that write Job.state themselves.
  <1>2. ASSUME state[k] = "running",
               \A u \in Threads : thread[u].at \in RunSteps =>
                 thread'[u].job = thread[u].job /\ thread'[u].at \in RunSteps
        PROVE  Worked
    BY <1>2 DEF RunningHasWorker
  <1>3. ASSUME NEW t \in Threads,
               \/ SnapVersion(t) \/ SnapFree(t) \/ Pick(t) \/ PublishResult(t)
        PROVE  Worked
    <2>1. PICK step \in {"snap_free", "pick", "publish_result", "publish_state"} :
            \/ \E p : GotoWith(t, step, p)
            \/ \E how : Settle(t, step, how)
      BY <1>3 DEF SnapVersion, SnapFree, Pick, PublishResult
    <2>2. /\ \A u \in Threads : u # t => thread'[u] = thread[u]
          /\ thread'[t].job = thread[t].job
          /\ thread'[t].at = step
      <3>1. thread \in [Threads -> ThreadStates] /\ thread[t] \in ThreadStates
        BY DEF TypeOK
      <3>2. CASE \E p : GotoWith(t, step, p)
        BY <3>1, <3>2 DEF GotoWith, ThreadStates
      <3>3. CASE \E how : Settle(t, step, how)
        BY <3>1, <3>3 DEF Settle, ThreadStates
      <3>4. QED
        BY <2>1, <3>2, <3>3
    <2>3. \A u \in Threads : thread[u].at \in RunSteps =>
            thread'[u].job = thread[u].job /\ thread'[u].at \in RunSteps
      BY <2>2 DEF RunSteps
    <2>4. QED
      BY <1>2, <1>3, <2>3 DEF SnapVersion, SnapFree, Pick, PublishResult
  <1>4. ASSUME NEW t \in Threads, RunStart(t) PROVE Worked
    <2>1. CASE thread[t].job = k
      BY <1>1, <1>4, <2>1 DEF RunStart, Goto, RunSteps, TypeOK, ThreadStates
    <2>2. CASE thread[t].job # k
      <3>1. state[k] = "running"
        BY <1>4, <2>2 DEF RunStart, TypeOK
      <3>2. \A u \in Threads : thread[u].at \in RunSteps =>
              thread'[u].job = thread[u].job /\ thread'[u].at \in RunSteps
        BY <1>1, <1>4 DEF RunStart, Goto, RunSteps, TypeOK, ThreadStates
      <3>3. QED
        BY <1>2, <3>1, <3>2
    <2>3. QED
      BY <2>1, <2>2
  <1>5. ASSUME NEW t \in Threads, PublishState(t) PROVE Worked
    <2>1. thread[t].job \in Jobs /\ thread[t].outcome # "running"
      BY <1>1, <1>5 DEF PublishState, TypeOK, At, ThreadStates
    <2>2. thread[t].job # k /\ state[k] = "running"
      BY <1>5, <2>1 DEF PublishState, TypeOK
    <2>3. PICK u \in Threads : thread[u].job = k /\ thread[u].at \in RunSteps
      BY <2>2 DEF RunningHasWorker
    <2>4. thread'[u] = thread[u]
      BY <1>5, <2>2, <2>3 DEF PublishState, Goto, Return, TypeOK
    <2>5. QED
      BY <2>3, <2>4
  <1>6. ASSUME NEW t \in Threads,
               \/ ReadResult(t) \/ Reserve(t) \/ Replan(t) \/ ReplanCheck(t)
               \/ ReplanWrite(t) \/ ConfirmWrite(t) \/ Deploy(t) \/ ReleaseWrite(t)
        PROVE  Worked
    <2>1. thread[t].at \notin RunSteps
      BY <1>6 DEF ReadResult, Reserve, Replan, ReplanCheck, ReplanWrite,
                  ConfirmWrite, Deploy, ReleaseWrite, At, RunSteps
    <2>2. \A u \in Threads : u # t => thread'[u] = thread[u]
      BY <1>6 DEF ReadResult, Reserve, Replan, ReplanCheck, ReplanWrite,
                  ConfirmWrite, Deploy, ReleaseWrite, Goto, GotoWith, Return, TypeOK
    <2>3. state[k] = "running"
      BY <1>6 DEF ReadResult, Reserve, Replan, ReplanCheck, ReplanWrite,
                  ConfirmWrite, Deploy, ReleaseWrite, TypeOK
    <2>4. QED
      BY <1>2, <2>1, <2>2, <2>3
  <1>7. ASSUME NEW t \in Threads, NEW j \in Jobs,
               Submit(t, j) \/ StartConfirm(t, j) \/ StartRelease(t, j)
        PROVE  Worked
    <2>1. thread[t].at \notin RunSteps
      BY <1>7 DEF Submit, StartConfirm, StartRelease, Begin, At, RunSteps
    <2>2. \A u \in Threads : u # t => thread'[u] = thread[u]
      BY <1>7 DEF Submit, StartConfirm, StartRelease, Begin, TypeOK
    <2>3. state[k] = "running"
      BY <1>7 DEF Submit, StartConfirm, StartRelease, TypeOK
    <2>4. QED
      BY <1>2, <2>1, <2>2, <2>3
  <1>8. ASSUME NEW j \in Jobs,
               DeploymentFails(j) \/ TerminateStop(j) \/ TerminateRelease(j)
        PROVE  Worked
    BY <1>2, <1>8 DEF DeploymentFails, TerminateStop, TerminateRelease
  <1>9. CASE Restart
    BY <1>9 DEF Restart
  <1>10. CASE UNCHANGED vars
    BY <1>2, <1>10 DEF vars
  <1>11. QED
    BY StepCases, <1>3, <1>4, <1>5, <1>6, <1>7, <1>8, <1>9, <1>10

\* No path through _run_job, planner errors included, forgets a running job.
THEOREM RunningJobsHaveWorkers == Spec => []RunningHasWorker
  <1>1. TypeOK /\ RunningHasWorker /\ [Next]_vars => RunningHasWorker'
    BY RunningStep
  <1>2. QED
    BY RunningInit, <1>1, TypeCorrect, PTL DEF Spec

------------------------------------------------------------------------------
(* What clients that wait for their answers may rely on *)

\* Of a thread: a worker that a submission started knows a job that nothing was
\* reserved for; nobody plans, or has yet to reserve, for a confirmed job; what will be
\* reserved is what Job.result shows; and from Ledger.reserve to the deployment the
\* job holds that.
ThreadInv(t) ==
  LET j == thread[t].job
  IN /\ At(t, "idle") => j = NoJob
     /\ j \in Jobs /\ thread[t].from = "submit" =>
          /\ thread[t].at \in RunSteps
          /\ state[j] \in {"pending", "running"} /\ booking[j] = "none"
     /\ thread[t].at \in RunSteps \cup {"read_result", "reserve", "replan_check", "replan_write"} =>
          state[j] # "confirmed"
     /\ At(t, "reserve") => thread[t].plan = result[j]
     /\ thread[t].at \in {"confirm_write", "deploy"} =>
          booking[j] = "reserved" /\ booked[j] = result[j].devs /\ deployment[j] = "none"

Holds(j) ==
  /\ state[j] = "confirmed"
  /\ deployment[j] # "released"
  /\ \A t \in Threads : ~(thread[t].job = j /\ At(t, "release_write"))
  => booking[j] = "reserved" /\ booked[j] = result[j].devs

JobInv(j) ==
  /\ state[j] = "absent" => booking[j] = "none" /\ \A t \in Threads : thread[t].job # j
  /\ booking[j] = "none" => deployment[j] = "none"
  /\ Holds(j)

\* Calls about one job come one after the other.
OneCall ==
  \A t, u \in Threads : thread[t].job \in Jobs /\ thread[t].job = thread[u].job => t = u

SerialInv ==
  /\ OneCall
  /\ \A t \in Threads : ThreadInv(t)
  /\ \A j \in Jobs : JobInv(j)

LEMMA SerialInit == Init => SerialInv
  <1> SUFFICES ASSUME Init PROVE SerialInv
    OBVIOUS
  <1>1. NoJob \notin Jobs
    BY JobsAssumption
  <1>2. \A t \in Threads : thread[t] = IdleThread
    BY DEF Init
  <1>3. \A t \in Threads : /\ thread[t].at = "idle" /\ thread[t].job = NoJob
    BY <1>2 DEF IdleThread
  <1>4. \A j \in Jobs : state[j] = "absent" /\ booking[j] = "none" /\ deployment[j] = "none"
    BY DEF Init
  <1>5. OneCall
    BY <1>1, <1>3 DEF OneCall
  <1>6. ASSUME NEW t \in Threads PROVE ThreadInv(t)
    BY <1>1, <1>3 DEF ThreadInv, At, RunSteps
  <1>7. ASSUME NEW j \in Jobs PROVE JobInv(j)
    BY <1>1, <1>3, <1>4 DEF JobInv, Holds
  <1> QED
    BY <1>5, <1>6, <1>7 DEF SerialInv

\* Thread t, alone on job j or free to take it, works on j and on nothing else.
LEMMA OwnJob ==
  ASSUME TypeOK, SerialInv, NEW t \in Threads, NEW j \in Jobs,
         thread[t].job \in {j, NoJob}, \A u \in Threads \ {t} : thread[u].job # j,
         thread' = [thread EXCEPT ![t] = thread'[t]], thread'[t].job \in {j, NoJob},
         \A k \in Jobs \ {j} : /\ state'[k] = state[k] /\ result'[k] = result[k]
                               /\ booking'[k] = booking[k] /\ booked'[k] = booked[k]
                               /\ deployment'[k] = deployment[k],
         ThreadInv(t)', JobInv(j)'
  PROVE  SerialInv'
  <1>1. \A u \in Threads \ {t} : thread'[u] = thread[u] /\ thread'[u].job # j
    BY DEF TypeOK
  <1>2. NoJob \notin Jobs
    BY JobsAssumption
  <1>3. OneCall'
    BY <1>1, <1>2 DEF SerialInv, OneCall
  <1>4. ASSUME NEW u \in Threads PROVE ThreadInv(u)'
    <2>1. CASE u = t
      BY <2>1
    <2>2. CASE u # t
      <3>1. ThreadInv(u) /\ thread'[u] = thread[u] /\ thread[u].job # j
        BY <1>1, <2>2 DEF SerialInv
      <3>2. CASE thread[u].job \in Jobs
        BY <3>1, <3>2 DEF ThreadInv, At
      <3>3. CASE thread[u].job \notin Jobs
        <4>1. At(u, "idle")
          BY <3>3 DEF TypeOK
        <4> QED
          BY <3>1, <3>3, <4>1 DEF ThreadInv, At, RunSteps
      <3> QED
        BY <3>2, <3>3
    <2> QED
      BY <2>1, <2>2
  <1>5. ASSUME NEW k \in Jobs PROVE JobInv(k)'
    <2>1. CASE k = j
      BY <2>1
    <2>2. CASE k # j
      <3>1. JobInv(k)
        BY DEF SerialInv
      <3>2. \A u \in Threads : thread'[u].job = k <=> thread[u].job = k
        BY <1>1, <1>2, <2>2
      <3>3. \A u \in Threads : thread[u].job = k => thread'[u] = thread[u]
        BY <1>1, <1>2, <2>2
      <3>4. \A u \in Threads : ~(thread'[u].job = k /\ thread'[u].at = "release_write")
                           <=> ~(thread[u].job = k /\ thread[u].at = "release_write")
        BY <3>2, <3>3
      <3>5. Holds(k)'
        BY <2>2, <3>1, <3>4 DEF JobInv, Holds, At
      <3> QED
        BY <2>2, <3>1, <3>2, <3>5 DEF JobInv
    <2> QED
      BY <2>1, <2>2
  <1> QED
    BY <1>3, <1>4, <1>5 DEF SerialInv

\* Who works on a job does so alone.
LEMMA AloneOnJob ==
  ASSUME TypeOK, SerialInv, NEW t \in Threads, ~At(t, "idle")
  PROVE  /\ thread[t].job \in Jobs /\ thread[t] \in ThreadStates
         /\ \A u \in Threads \ {t} : thread[u].job # thread[t].job
         /\ ThreadInv(t) /\ JobInv(thread[t].job)
  <1>1. thread[t].job \in Jobs /\ thread[t] \in ThreadStates
    BY DEF TypeOK
  <1> QED
    BY <1>1 DEF SerialInv, OneCall

LEMMA SerialStep ==
  ASSUME SerialClients, TypeOK, SerialInv, [Next]_vars
  PROVE  SerialInv'
  <1>0. thread \in [Threads -> ThreadStates] /\ NoJob \notin Jobs
    BY JobsAssumption DEF TypeOK
  <1> USE DEF ledgerVars, deployVars
  <1>1. ASSUME NEW t \in Threads, RunStart(t) PROVE SerialInv'
    <2>1. PICK j \in Jobs : j = thread[t].job
      BY <1>1, AloneOnJob DEF RunStart, At
    <2>2. /\ thread[t].at = "run_start" /\ thread[t] \in ThreadStates
          /\ \A u \in Threads \ {t} : thread[u].job # j
          /\ ThreadInv(t) /\ JobInv(j)
      BY <1>1, <2>1, AloneOnJob DEF RunStart, At
    <2>3. /\ thread' = [thread EXCEPT ![t] = thread'[t]] /\ thread'[t].job = j
          /\ thread'[t].at = "snap_ver" /\ thread'[t].from = thread[t].from
          /\ state'[j] = "running" /\ UNCHANGED <<ledgerVars, deployVars, result>>
          /\ \A k \in Jobs \ {j} : state'[k] = state[k]
      BY <1>0, <1>1, <2>1, <2>2 DEF RunStart, Goto, ThreadStates, TypeOK
    <2>4. ThreadInv(t)' /\ JobInv(j)'
      BY <1>0, <2>1, <2>2, <2>3 DEF ThreadInv, JobInv, Holds, At, RunSteps
    <2> QED
      BY <2>1, <2>2, <2>3, <2>4, OwnJob
  <1>2. ASSUME NEW t \in Threads, SnapVersion(t) \/ SnapFree(t) \/ Pick(t) PROVE SerialInv'
    <2>1. PICK j \in Jobs : j = thread[t].job
      BY <1>2, AloneOnJob DEF SnapVersion, SnapFree, Pick, At
    <2>2. /\ thread[t].at \in {"snap_ver", "snap_free", "pick"} /\ thread[t] \in ThreadStates
          /\ \A u \in Threads \ {t} : thread[u].job # j
          /\ ThreadInv(t) /\ JobInv(j)
      BY <1>2, <2>1, AloneOnJob DEF SnapVersion, SnapFree, Pick, At
    <2>3. PICK step \in {"snap_free", "pick", "publish_result", "publish_state"} :
            \/ \E p : GotoWith(t, step, p)
            \/ \E how : Settle(t, step, how)
      BY <1>2 DEF SnapVersion, SnapFree, Pick
    <2>4. /\ thread' = [thread EXCEPT ![t] = thread'[t]] /\ thread'[t].job = j
          /\ thread'[t].at = step /\ thread'[t].from = thread[t].from
      <3>1. CASE \E p : GotoWith(t, step, p)
        BY <1>0, <2>1, <3>1 DEF GotoWith, ThreadStates
      <3>2. CASE \E how : Settle(t, step, how)
        BY <1>0, <2>1, <3>2 DEF Settle, ThreadStates
      <3> QED
        BY <2>3, <3>1, <3>2
    <2>5. UNCHANGED <<ledgerVars, deployVars, state, result>>
      BY <1>2 DEF SnapVersion, SnapFree, Pick
    <2>6. ThreadInv(t)' /\ JobInv(j)'
      BY <1>0, <2>1, <2>2, <2>4, <2>5 DEF ThreadInv, JobInv, Holds, At, RunSteps
    <2> QED
      BY <2>1, <2>2, <2>4, <2>5, <2>6, OwnJob
  <1>3. ASSUME NEW t \in Threads, PublishResult(t) PROVE SerialInv'
    <2>1. PICK j \in Jobs : j = thread[t].job
      BY <1>3, AloneOnJob DEF PublishResult, At
    <2>2. /\ thread[t].at = "publish_result" /\ thread[t] \in ThreadStates
          /\ \A u \in Threads \ {t} : thread[u].job # j
          /\ ThreadInv(t) /\ JobInv(j)
      BY <1>3, <2>1, AloneOnJob DEF PublishResult, At
    <2>3. /\ thread' = [thread EXCEPT ![t] = thread'[t]] /\ thread'[t].job = j
          /\ thread'[t].at = "publish_state" /\ thread'[t].from = thread[t].from
          /\ UNCHANGED <<ledgerVars, deployVars, state>>
          /\ \A k \in Jobs \ {j} : result'[k] = result[k]
      BY <1>0, <1>3, <2>1, <2>2 DEF PublishResult, GotoWith, ThreadStates, TypeOK
    <2>4. ThreadInv(t)' /\ JobInv(j)'
      BY <1>0, <2>1, <2>2, <2>3 DEF ThreadInv, JobInv, Holds, At, RunSteps
    <2> QED
      BY <2>1, <2>2, <2>3, <2>4, OwnJob
  <1>4. ASSUME NEW t \in Threads, PublishState(t) PROVE SerialInv'
    <2>1. PICK j \in Jobs : j = thread[t].job
      BY <1>4, AloneOnJob DEF PublishState, At
    <2>2. /\ thread[t].at = "publish_state" /\ thread[t] \in ThreadStates
          /\ \A u \in Threads \ {t} : thread[u].job # j
          /\ ThreadInv(t) /\ JobInv(j)
      BY <1>4, <2>1, AloneOnJob DEF PublishState, At
    <2>3. /\ thread' = [thread EXCEPT ![t] = thread'[t]]
          /\ \/ /\ thread'[t].job = j /\ thread'[t].at = "replan_check"
                /\ thread'[t].from = "confirm"
             \/ thread'[t] = IdleThread
          /\ state'[j] \in {"done", "infeasible", "failed"}
          /\ UNCHANGED <<ledgerVars, deployVars, result>>
          /\ \A k \in Jobs \ {j} : state'[k] = state[k]
      BY <1>0, <1>4, <2>1, <2>2 DEF PublishState, Goto, Return, ThreadStates, TypeOK
    <2>4. ThreadInv(t)' /\ JobInv(j)'
      BY <1>0, <2>1, <2>2, <2>3 DEF ThreadInv, JobInv, Holds, At, RunSteps, IdleThread
    <2>5. thread'[t].job \in {j, NoJob}
      BY <2>3 DEF IdleThread
    <2> QED
      BY <2>1, <2>2, <2>3, <2>4, <2>5, OwnJob
  <1>5. ASSUME NEW t \in Threads, ReadResult(t) PROVE SerialInv'
    <2>1. PICK j \in Jobs : j = thread[t].job
      BY <1>5, AloneOnJob DEF ReadResult, At
    <2>2. /\ thread[t].at = "read_result" /\ thread[t] \in ThreadStates
          /\ \A u \in Threads \ {t} : thread[u].job # j
          /\ ThreadInv(t) /\ JobInv(j)
      BY <1>5, <2>1, AloneOnJob DEF ReadResult, At
    <2>3. /\ thread' = [thread EXCEPT ![t] = thread'[t]]
          /\ \/ /\ thread'[t].job = j /\ thread'[t].at = "reserve"
                /\ thread'[t].from = thread[t].from /\ thread'[t].plan = result[j]
             \/ thread'[t] = IdleThread
          /\ UNCHANGED <<ledgerVars, deployVars, state, result>>
      BY <1>0, <1>5, <2>1, <2>2 DEF ReadResult, GotoWith, Return, ThreadStates
    <2>4. ThreadInv(t)' /\ JobInv(j)'
      BY <1>0, <2>1, <2>2, <2>3 DEF ThreadInv, JobInv, Holds, At, RunSteps, IdleThread
    <2>5. thread'[t].job \in {j, NoJob}
      BY <2>3 DEF IdleThread
    <2> QED
      BY <2>1, <2>2, <2>3, <2>4, <2>5, OwnJob
  <1>6. ASSUME NEW t \in Threads, Reserve(t) PROVE SerialInv'
    <2>1. PICK j \in Jobs : j = thread[t].job
      BY <1>6, AloneOnJob DEF Reserve, At
    <2>2. /\ thread[t].at = "reserve" /\ thread[t] \in ThreadStates
          /\ \A u \in Threads \ {t} : thread[u].job # j
          /\ ThreadInv(t) /\ JobInv(j)
      BY <1>6, <2>1, AloneOnJob DEF Reserve, At
    <2>3. /\ thread' = [thread EXCEPT ![t] = thread'[t]] /\ thread'[t].job = j
          /\ thread'[t].at = "confirm_write" /\ thread'[t].from = thread[t].from
          /\ booking[j] = "none" /\ booking'[j] = "reserved" /\ booked'[j] = thread[t].plan.devs
          /\ UNCHANGED <<deployVars, state, result>>
          /\ \A k \in Jobs \ {j} : booking'[k] = booking[k] /\ booked'[k] = booked[k]
      BY <1>0, <1>6, <2>1, <2>2 DEF Reserve, Conflict, GotoWith, ThreadStates, TypeOK
    <2>4. ThreadInv(t)' /\ JobInv(j)'
      BY <1>0, <2>1, <2>2, <2>3 DEF ThreadInv, JobInv, Holds, At, RunSteps
    <2> QED
      BY <2>1, <2>2, <2>3, <2>4, OwnJob
  <1>7. ASSUME NEW t \in Threads, Replan(t) \/ ReplanCheck(t) PROVE SerialInv'
    <2>1. PICK j \in Jobs : j = thread[t].job
      BY <1>7, AloneOnJob DEF Replan, ReplanCheck, At
    <2>2. /\ thread[t].at \in {"reserve", "replan_check"} /\ thread[t] \in ThreadStates
          /\ \A u \in Threads \ {t} : thread[u].job # j
          /\ ThreadInv(t) /\ JobInv(j)
      BY <1>7, <2>1, AloneOnJob DEF Replan, ReplanCheck, At
    <2>3. /\ thread' = [thread EXCEPT ![t] = thread'[t]]
          /\ \/ /\ thread'[t].job = j /\ thread'[t].at \in {"run_start", "replan_write"}
                /\ thread'[t].from = thread[t].from
             \/ thread'[t] = IdleThread
          /\ UNCHANGED <<ledgerVars, deployVars, state, result>>
      <3>1. CASE Replan(t)
        BY <1>0, <2>1, <2>2, <3>1 DEF Replan, GotoWith, ThreadStates
      <3>2. CASE ReplanCheck(t)
        <4>1. CASE Goto(t, "replan_write")
          BY <1>0, <2>1, <2>2, <3>2, <4>1 DEF ReplanCheck, Goto, ThreadStates
        <4>2. CASE Return(t)
          BY <1>0, <2>1, <2>2, <3>2, <4>2 DEF ReplanCheck, Return
        <4> QED
          BY <3>2, <4>1, <4>2 DEF ReplanCheck
      <3> QED
        BY <1>7, <3>1, <3>2
    <2>4. ThreadInv(t)' /\ JobInv(j)'
      BY <1>0, <2>1, <2>2, <2>3 DEF ThreadInv, JobInv, Holds, At, RunSteps, IdleThread
    <2>5. thread'[t].job \in {j, NoJob}
      BY <2>3 DEF IdleThread
    <2> QED
      BY <2>1, <2>2, <2>3, <2>4, <2>5, OwnJob
  <1>8. ASSUME NEW t \in Threads, ReplanWrite(t) \/ ReleaseWrite(t) PROVE SerialInv'
    <2>1. PICK j \in Jobs : j = thread[t].job
      BY <1>8, AloneOnJob DEF ReplanWrite, ReleaseWrite, At
    <2>2. /\ thread[t] \in ThreadStates
          /\ \A u \in Threads \ {t} : thread[u].job # j
          /\ ThreadInv(t) /\ JobInv(j)
      BY <1>8, <2>1, AloneOnJob DEF ReplanWrite, ReleaseWrite, At
    <2>3. /\ thread' = [thread EXCEPT ![t] = thread'[t]] /\ thread'[t] = IdleThread
          /\ state'[j] \in {"replanned", "released"}
          /\ UNCHANGED <<ledgerVars, deployVars, result>>
          /\ \A k \in Jobs \ {j} : state'[k] = state[k]
      BY <1>0, <1>8, <2>1, <2>2 DEF ReplanWrite, ReleaseWrite, Return, ThreadStates, TypeOK
    <2>4. ThreadInv(t)' /\ JobInv(j)'
      BY <1>0, <2>1, <2>2, <2>3 DEF ThreadInv, JobInv, Holds, At, RunSteps, IdleThread
    <2>5. thread'[t].job \in {j, NoJob}
      BY <2>3 DEF IdleThread
    <2> QED
      BY <2>1, <2>2, <2>3, <2>4, <2>5, OwnJob
  <1>9. ASSUME NEW t \in Threads, ConfirmWrite(t) PROVE SerialInv'
    <2>1. PICK j \in Jobs : j = thread[t].job
      BY <1>9, AloneOnJob DEF ConfirmWrite, At
    <2>2. /\ thread[t].at = "confirm_write" /\ thread[t] \in ThreadStates
          /\ \A u \in Threads \ {t} : thread[u].job # j
          /\ ThreadInv(t) /\ JobInv(j)
      BY <1>9, <2>1, AloneOnJob DEF ConfirmWrite, At
    <2>3. /\ thread' = [thread EXCEPT ![t] = thread'[t]] /\ thread'[t].job = j
          /\ thread'[t].at = "deploy" /\ thread'[t].from = thread[t].from
          /\ state'[j] = "confirmed" /\ UNCHANGED <<ledgerVars, deployVars, result>>
          /\ \A k \in Jobs \ {j} : state'[k] = state[k]
      BY <1>0, <1>9, <2>1, <2>2 DEF ConfirmWrite, Goto, ThreadStates, TypeOK
    <2>4. ThreadInv(t)' /\ JobInv(j)'
      BY <1>0, <2>1, <2>2, <2>3 DEF ThreadInv, JobInv, Holds, At, RunSteps
    <2> QED
      BY <2>1, <2>2, <2>3, <2>4, OwnJob
  <1>10. ASSUME NEW t \in Threads, Deploy(t) PROVE SerialInv'
    <2>1. PICK j \in Jobs : j = thread[t].job
      BY <1>10, AloneOnJob DEF Deploy, At
    <2>2. /\ thread[t].at = "deploy" /\ thread[t] \in ThreadStates
          /\ \A u \in Threads \ {t} : thread[u].job # j
          /\ ThreadInv(t) /\ JobInv(j)
      BY <1>10, <2>1, AloneOnJob DEF Deploy, At
    <2>3. /\ thread' = [thread EXCEPT ![t] = thread'[t]] /\ thread'[t] = IdleThread
          /\ UNCHANGED <<ledgerVars, state, result>>
          /\ \A k \in Jobs \ {j} : deployment'[k] = deployment[k]
      BY <1>0, <1>10, <2>1, <2>2 DEF Deploy, Return, ThreadStates, TypeOK
    <2>4. ThreadInv(t)' /\ JobInv(j)'
      BY <1>0, <2>1, <2>2, <2>3 DEF ThreadInv, JobInv, Holds, At, RunSteps, IdleThread
    <2>5. thread'[t].job \in {j, NoJob}
      BY <2>3 DEF IdleThread
    <2> QED
      BY <2>1, <2>2, <2>3, <2>4, <2>5, OwnJob
  <1>11. ASSUME NEW t \in Threads, NEW j \in Jobs, Submit(t, j) PROVE SerialInv'
    <2>1. /\ thread[t].at = "idle" /\ thread[t].job = NoJob /\ JobInv(j) /\ ThreadInv(t)
          /\ \A u \in Threads \ {t} : thread[u].job # j
      BY <1>11 DEF Submit, Begin, At, SerialInv, ThreadInv, JobInv
    <2>2. /\ thread' = [thread EXCEPT ![t] = thread'[t]] /\ thread'[t].job = j
          /\ thread'[t].at = "run_start"
          /\ state[j] = "absent" /\ state'[j] = "pending"
          /\ UNCHANGED <<ledgerVars, deployVars, result>>
          /\ \A k \in Jobs \ {j} : state'[k] = state[k]
      BY <1>0, <1>11 DEF Submit, Begin, IdleThread, TypeOK
    <2>3. ThreadInv(t)' /\ JobInv(j)'
      BY <1>0, <2>1, <2>2 DEF ThreadInv, JobInv, Holds, At, RunSteps
    <2> QED
      BY <2>1, <2>2, <2>3, OwnJob
  <1>12. ASSUME NEW t \in Threads, NEW j \in Jobs, StartConfirm(t, j) \/ StartRelease(t, j)
         PROVE  SerialInv'
    <2>1. /\ thread[t].at = "idle" /\ thread[t].job = NoJob /\ JobInv(j) /\ ThreadInv(t)
          /\ NoCallAbout(j)
          /\ state[j] \in {"done", "replanned"} \/ booking[j] = "reserved"
      BY <1>12 DEF StartConfirm, StartRelease, Begin, At, SerialInv, ThreadInv, MayCall
    <2>2. \A u \in Threads : thread[u].job # j
      BY <2>1 DEF NoCallAbout, SerialInv, ThreadInv
    <2>3. /\ thread' = [thread EXCEPT ![t] = thread'[t]] /\ thread'[t].job = j
          /\ UNCHANGED <<deployVars, state, result>>
          /\ \/ /\ thread'[t].at = "read_result" /\ thread'[t].from = "confirm"
                /\ state[j] \in {"done", "replanned"} /\ UNCHANGED ledgerVars
             \/ /\ thread'[t].at = "release_write" /\ thread'[t].from = "release"
                /\ state[j] \notin {"absent", "gone"}
                /\ booking[j] = "reserved" /\ booking'[j] = "released"
          /\ \A k \in Jobs \ {j} : booking'[k] = booking[k] /\ booked'[k] = booked[k]
      <3>1. CASE StartConfirm(t, j)
        BY <1>0, <3>1 DEF StartConfirm, Begin, IdleThread
      <3>2. CASE StartRelease(t, j)
        <4>1. /\ thread' = [thread EXCEPT ![t] = thread'[t]] /\ thread'[t].job = j
              /\ thread'[t].at = "release_write" /\ thread'[t].from = "release"
          BY <1>0, <3>2 DEF StartRelease, Begin, IdleThread
        <4>2. /\ UNCHANGED <<deployVars, state, result>>
              /\ state[j] \notin {"absent", "gone"} /\ booking[j] = "reserved"
              /\ booking' = [booking EXCEPT ![j] = "released"]
              /\ booked' = [booked EXCEPT ![j] = {}]
          BY <3>2 DEF StartRelease, LedgerRelease
        <4>3. /\ booking'[j] = "released"
              /\ \A k \in Jobs \ {j} : booking'[k] = booking[k] /\ booked'[k] = booked[k]
          BY <4>2 DEF TypeOK
        <4> QED
          BY <4>1, <4>2, <4>3
      <3> QED
        BY <1>12, <3>1, <3>2
    <2>4. ThreadInv(t)' /\ JobInv(j)'
      BY <1>0, <2>1, <2>2, <2>3 DEF ThreadInv, JobInv, Holds, At, RunSteps
    <2> QED
      BY <2>1, <2>2, <2>3, <2>4, OwnJob
  <1>13. ASSUME NEW j \in Jobs, DeploymentFails(j) \/ TerminateStop(j) \/ TerminateRelease(j)
         PROVE  SerialInv'
    <2>1. /\ deployment[j] \notin {"none", "released"} /\ deployment'[j] # "none"
          /\ \A k \in Jobs \ {j} : /\ deployment'[k] = deployment[k]
                                   /\ booking'[k] = booking[k] /\ booked'[k] = booked[k]
          /\ UNCHANGED <<thread, state, result>>
          /\ UNCHANGED ledgerVars \/ (deployment'[j] = "released" /\ booking'[j] # "none")
      BY <1>13 DEF DeploymentFails, TerminateStop, TerminateRelease, LedgerRelease, TypeOK
    <2>2. booking[j] # "none"
      BY <2>1 DEF SerialInv, JobInv
    <2>3. ASSUME NEW u \in Threads PROVE ThreadInv(u)'
      <3>1. ThreadInv(u) /\ (thread[u].job \in Jobs \/ At(u, "idle"))
        BY DEF SerialInv, TypeOK
      <3>2. CASE thread[u].job = j
        BY <2>1, <2>2, <3>1, <3>2 DEF ThreadInv, At
      <3>3. CASE thread[u].job \in Jobs \ {j}
        BY <2>1, <3>1, <3>3 DEF ThreadInv, At
      <3>4. CASE At(u, "idle")
        BY <1>0, <2>1, <3>1, <3>4 DEF ThreadInv, At, RunSteps
      <3> QED
        BY <3>1, <3>2, <3>3, <3>4
    <2>4. ASSUME NEW k \in Jobs PROVE JobInv(k)'
      <3>1. JobInv(k)
        BY DEF SerialInv
      <3>2. CASE k = j
        BY <2>1, <2>2, <3>1, <3>2 DEF JobInv, Holds, At
      <3>3. CASE k # j
        BY <2>1, <3>1, <3>3 DEF JobInv, Holds, At
      <3> QED
        BY <3>2, <3>3
    <2>5. OneCall'
      BY <2>1 DEF SerialInv, OneCall
    <2> QED
      BY <2>3, <2>4, <2>5 DEF SerialInv
  <1>14. CASE Restart
    <2>1. /\ \A u \in Threads : thread'[u] = IdleThread
          /\ \A k \in Jobs : /\ state'[k] \in {"absent", "gone"}
                             /\ state'[k] = "absent" => state[k] = "absent"
          /\ UNCHANGED <<ledgerVars, deployVars>>
      BY <1>14 DEF Restart
    <2>2. OneCall' /\ \A u \in Threads : ThreadInv(u)'
      BY <1>0, <2>1 DEF OneCall, ThreadInv, At, IdleThread, RunSteps
    <2>3. \A k \in Jobs : JobInv(k)'
      BY <1>0, <2>1 DEF SerialInv, JobInv, Holds, At, IdleThread
    <2> QED
      BY <2>2, <2>3 DEF SerialInv
  <1>15. CASE UNCHANGED vars
    BY <1>15 DEF vars, SerialInv, OneCall, ThreadInv, JobInv, Holds, At
  <1> QED
    BY StepCases, <1>1, <1>2, <1>3, <1>4, <1>5, <1>6, <1>7, <1>8, <1>9, <1>10, <1>11, <1>12,
       <1>13, <1>14, <1>15

\* With clients that wait for their answers a confirmed job holds exactly the
\* devices its recommendation shows, until it gives them back (confirm).
THEOREM ConfirmedJobsHoldTheirPlan ==
  ASSUME SerialClients
  PROVE  Spec => []ConfirmedHoldsPlan
  <1>1. SerialInv => ConfirmedHoldsPlan
    BY DEF SerialInv, JobInv, Holds, ConfirmedHoldsPlan
  <1>2. TypeOK /\ SerialInv /\ [Next]_vars => SerialInv'
    BY SerialStep
  <1> QED
    BY <1>1, <1>2, SerialInit, TypeCorrect, PTL DEF Spec

\* If they also terminate before they release, the devices of a running container
\* are reserved for its job (deploy_from_job, terminate).
THEOREM LiveDeploymentsAreBooked ==
  ASSUME SerialClients, ~RashReleases
  PROVE  Spec => []LiveDeploymentIsBooked
  <1>1. Init => LiveDeploymentIsBooked
    BY DEF Init, LiveDeploymentIsBooked
  <1>2. ASSUME TypeOK, SerialInv, LiveDeploymentIsBooked, [Next]_vars
        PROVE  LiveDeploymentIsBooked'
    <2>1. ASSUME NEW t \in Threads, Reserve(t) PROVE LiveDeploymentIsBooked'
      <3>1. PICK j \in Jobs : j = thread[t].job
        BY <1>2, <2>1 DEF Reserve, At, TypeOK
      <3>2. /\ booking[j] = "none" /\ UNCHANGED deployVars
            /\ \A k \in Jobs \ {j} : booking'[k] = booking[k] /\ booked'[k] = booked[k]
        BY <1>2, <2>1, <3>1 DEF Reserve, Conflict, TypeOK
      <3> QED
        BY <1>2, <3>2 DEF LiveDeploymentIsBooked, deployVars
    <2>2. ASSUME NEW t \in Threads, Deploy(t) PROVE LiveDeploymentIsBooked'
      <3>1. PICK j \in Jobs : j = thread[t].job
        BY <1>2, <2>2 DEF Deploy, At, TypeOK
      <3>2. booking[j] = "reserved" /\ booked[j] = result[j].devs
        BY <1>2, <2>2, <3>1 DEF Deploy, At, SerialInv, ThreadInv
      <3>3. /\ UNCHANGED ledgerVars
            /\ deployment'[j] = "live" =>
                 deployed'[j] = result[j].devs \/ (UNCHANGED deployVars /\ deployment[j] = "live")
            /\ \A k \in Jobs \ {j} : deployment'[k] = deployment[k] /\ deployed'[k] = deployed[k]
        BY <1>2, <2>2, <3>1 DEF Deploy, deployVars, TypeOK
      <3> QED
        BY <1>2, <3>2, <3>3 DEF LiveDeploymentIsBooked, ledgerVars, deployVars
    <2>3. ASSUME NEW t \in Threads, NEW j \in Jobs, StartRelease(t, j)
          PROVE  LiveDeploymentIsBooked'
      <3>1. /\ deployment[j] # "live" /\ UNCHANGED deployVars
            /\ \A k \in Jobs \ {j} : booking'[k] = booking[k] /\ booked'[k] = booked[k]
        BY <1>2, <2>3 DEF StartRelease, LedgerRelease, ledgerVars, TypeOK
      <3> QED
        BY <1>2, <3>1 DEF LiveDeploymentIsBooked, deployVars
    <2>4. ASSUME NEW j \in Jobs, DeploymentFails(j) \/ TerminateStop(j) \/ TerminateRelease(j)
          PROVE  LiveDeploymentIsBooked'
      <3>1. /\ deployment'[j] # "live"
            /\ \A k \in Jobs \ {j} : /\ deployment'[k] = deployment[k] /\ deployed'[k] = deployed[k]
                                     /\ booking'[k] = booking[k] /\ booked'[k] = booked[k]
        BY <1>2, <2>4
           DEF DeploymentFails, TerminateStop, TerminateRelease, LedgerRelease, ledgerVars, TypeOK
      <3> QED
        BY <1>2, <3>1 DEF LiveDeploymentIsBooked
    <2>5. CASE UNCHANGED <<ledgerVars, deployVars>>
      BY <1>2, <2>5 DEF LiveDeploymentIsBooked, ledgerVars, deployVars
    <2> QED
      BY <1>2, StepCases, <2>1, <2>2, <2>3, <2>4, <2>5
         DEF RunStart, SnapVersion, SnapFree, Pick, PublishResult, PublishState, ReadResult, Replan,
             ReplanCheck, ReplanWrite, ConfirmWrite, ReleaseWrite, Submit, StartConfirm, Restart, vars
  <1>3. TypeOK /\ SerialInv /\ [Next]_vars => SerialInv'
    BY SerialStep
  <1>4. TypeOK /\ SerialInv /\ LiveDeploymentIsBooked /\ [Next]_vars => LiveDeploymentIsBooked'
    BY <1>2
  <1> QED
    BY <1>1, <1>3, <1>4, SerialInit, TypeCorrect, PTL DEF Spec
=============================================================================
