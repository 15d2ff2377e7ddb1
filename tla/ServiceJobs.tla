----------------------------- MODULE ServiceJobs -----------------------------
(***************************************************************************)
(* The reservation ledger (service/inventory/ledger.py) driven by the      *)
(* service API (service/api/routes.py): every HTTP handler and planning    *)
(* worker is a thread, every SQLite transaction or read of the ledger and  *)
(* every read or write of a Job field that another thread can see is a     *)
(* step of its own.  Nothing but the ledger's transactions is atomic: the  *)
(* handlers take no lock on the Job they change.                           *)
(*                                                                         *)
(* A plan is abstracted to the set of devices it names.  Devices are split *)
(* into pools (one per node and hardware); within a pool they are          *)
(* interchangeable for the planner.                                        *)
(***************************************************************************)
EXTENDS Naturals, FiniteSets

CONSTANTS Jobs,      \* job ids; a submitted id is never used again (uuid4)
          NoJob,     \* what an idle thread works on
          Devices,   \* registry.device_ids()
          Pools,     \* partition of Devices by (node, hw)
          Threads,   \* threads of the server: request handlers and workers
          AutoDeploy,\* jobs whose request asks for auto_deploy
          SerialClients,        \* clients wait for the answer to a call about a
                                \* job before they make the next one about it
          RashReleases          \* clients may release a job while a confirm of
                                \* it is being answered or its deployment runs

ASSUME JobsAssumption == NoJob \notin Jobs

ASSUME PoolsAssumption ==
  /\ UNION Pools = Devices
  /\ \A p, q \in Pools : p # q => p \cap q = {}

ASSUME ClientsAssumption ==
  /\ AutoDeploy \subseteq Jobs
  /\ SerialClients \in BOOLEAN
  /\ RashReleases \in BOOLEAN

VARIABLES
  \* the SQLite ledger: survives a restart
  booking,    \* booking[j]: state column of j's row, "none" without a row
  booked,     \* booked[j]: device_ids column of j's row while it is reserved
  version,    \* meta.version
  \* deployments made from jobs: rows and containers survive a restart
  deployment, \* deployment[j]: the life of the deployment made from j
  deployed,   \* deployed[j]: the devices its container has, {} without one
  \* ServiceState.jobs: in memory
  state,      \* state[j]: Job.state, "absent" before, "gone" after a restart
  result,     \* result[j]: the plan in Job.result
  \* the threads: where each is, its job, the endpoint it serves, how its
  \* planning ended, and the plan its local variables hold
  thread

ledgerVars == <<booking, booked, version>>
deployVars == <<deployment, deployed>>
vars == <<ledgerVars, deployVars, state, result, thread>>

------------------------------------------------------------------------------
(* Types and initial state *)

BookingStates == {"none", "reserved", "released"}
DeploymentStates == {"none", "live", "failed", "stopped", "released"}
\* The literals JobStatusOut.state accepts.
JobStates == {"pending", "running", "done", "infeasible", "failed",
              "confirmed", "released", "replanned"}
Plans == [ver : Nat, devs : SUBSET Devices]
NoPlan == [ver |-> 0, devs |-> {}]

\* The steps of _run_job, then those of confirm and release.
RunSteps == {"run_start", "snap_ver", "snap_free", "pick",
             "publish_result", "publish_state"}
Steps == RunSteps \cup {"idle", "read_result", "reserve", "replan_check",
                        "replan_write", "confirm_write", "deploy",
                        "release_write"}
ThreadStates == [at : Steps, job : Jobs \cup {NoJob},
                 from : {"submit", "confirm", "release"},
                 outcome : {"done", "infeasible", "failed"}, plan : Plans]
IdleThread == [at |-> "idle", job |-> NoJob, from |-> "submit",
               outcome |-> "done", plan |-> NoPlan]

At(t, step) == thread[t].at = step

TypeOK ==
  /\ booking \in [Jobs -> BookingStates]
  /\ booked \in [Jobs -> SUBSET Devices]
  /\ version \in Nat
  /\ deployment \in [Jobs -> DeploymentStates]
  /\ deployed \in [Jobs -> SUBSET Devices]
  /\ state \in [Jobs -> JobStates \cup {"absent", "gone"}]
  /\ result \in [Jobs -> Plans]
  /\ thread \in [Threads -> ThreadStates]
  /\ \A t \in Threads : ~At(t, "idle") => thread[t].job \in Jobs

Init ==
  /\ booking = [j \in Jobs |-> "none"]
  /\ booked = [j \in Jobs |-> {}]
  /\ version = 0
  /\ deployment = [j \in Jobs |-> "none"]
  /\ deployed = [j \in Jobs |-> {}]
  /\ state = [j \in Jobs |-> "absent"]
  /\ result = [j \in Jobs |-> NoPlan]
  /\ thread = [t \in Threads |-> IdleThread]

------------------------------------------------------------------------------
(* Helpers *)

\* Devices in a row that is not 'released', and what a snapshot calls free.
\* (No reader looks at the devices of a released row: booked is then {}.)
Used == UNION {booked[j] : j \in Jobs}
Free == Devices \ Used

\* The same number of devices from every pool.
SameShape(a, b) == \A p \in Pools : Cardinality(a \cap p) = Cardinality(b \cap p)

\* t goes on: with its local variables, with plan p, or with an outcome and
\* no plan.
Goto(t, step) == thread' = [thread EXCEPT ![t].at = step]
GotoWith(t, step, p) ==
  thread' = [thread EXCEPT ![t] = [@ EXCEPT !.at = step, !.plan = p]]
Settle(t, step, how) ==
  thread' = [thread EXCEPT ![t] = [@ EXCEPT !.at = step, !.outcome = how,
                                            !.plan = NoPlan]]
Return(t) == thread' = [thread EXCEPT ![t] = IdleThread]
Begin(t, j, step, endpoint) ==
  /\ At(t, "idle")
  /\ thread' = [thread EXCEPT
                  ![t] = [IdleThread EXCEPT !.at = step, !.job = j,
                                            !.from = endpoint]]

\* A client makes one call about j at a time (planning workers are not calls).
NoCallAbout(j) ==
  \A t \in Threads : thread[t].job = j => thread[t].from = "submit"
MayCall(j) == SerialClients => NoCallAbout(j)

------------------------------------------------------------------------------
(* POST /serve-requests and _run_job *)

\* A new Job, and a worker thread t that starts _run_job on it.
Submit(t, j) ==
  /\ state[j] = "absent"
  /\ Begin(t, j, "run_start", "submit")
  /\ state' = [state EXCEPT ![j] = "pending"]
  /\ UNCHANGED <<ledgerVars, deployVars, result>>

RunStart(t) ==
  /\ At(t, "run_start")
  /\ state' = [state EXCEPT ![thread[t].job] = "running"]
  /\ Goto(t, "snap_ver")
  /\ UNCHANGED <<ledgerVars, deployVars, result>>

\* Ledger.snapshot reads the version and the rows by two SELECTs that no
\* transaction holds together: version first ...
SnapVersion(t) ==
  /\ At(t, "snap_ver")
  /\ GotoWith(t, "snap_free", [ver |-> version, devs |-> {}])
  /\ UNCHANGED <<ledgerVars, deployVars, state, result>>

\* ... rows second; then the planner works on these free devices alone.
\* No free device is an infeasible job with an empty plan; otherwise the
\* planner finds a best candidate (perhaps one that names no devices), finds
\* none, or raises.  A plan without devices is never used: its version is
\* forgotten.
SnapFree(t) ==
  /\ At(t, "snap_free")
  /\ \/ \E devs \in SUBSET Free \ {{}} :
          GotoWith(t, "pick", [thread[t].plan EXCEPT !.devs = devs])
     \/ Free # {} /\ GotoWith(t, "publish_result", NoPlan)
     \/ Settle(t, "publish_result", "infeasible")
     \/ Free # {} /\ Settle(t, "publish_state", "failed")
  /\ UNCHANGED <<ledgerVars, deployVars, state, result>>

\* The concrete devices come from a second snapshot, whose version is dropped:
\* the plan keeps the version read before planning.  A pool that has become
\* too small raises.
Pick(t) ==
  /\ At(t, "pick")
  /\ LET fits == {devs \in SUBSET Free : SameShape(devs, thread[t].plan.devs)}
     IN \/ \E devs \in fits :
             GotoWith(t, "publish_result", [thread[t].plan EXCEPT !.devs = devs])
        \/ fits = {} /\ Settle(t, "publish_state", "failed")
  /\ UNCHANGED <<ledgerVars, deployVars, state, result>>

\* Mutant of PublishResult: the plan carries the version of its publication.
PublishResultLateVersion(t) ==
  /\ At(t, "publish_result")
  /\ result' = [result EXCEPT ![thread[t].job] =
                  [ver |-> version, devs |-> thread[t].plan.devs]]
  /\ GotoWith(t, "publish_state", NoPlan)
  /\ UNCHANGED <<ledgerVars, deployVars, state>>

PublishResult(t) ==
  /\ At(t, "publish_result")
  /\ result' = [result EXCEPT ![thread[t].job] = thread[t].plan]
  /\ GotoWith(t, "publish_state", NoPlan)
  /\ UNCHANGED <<ledgerVars, deployVars, state>>

\* Mutant of PublishState: an exception of the planner ends the thread.
PublishStateUncaught(t) ==
  /\ At(t, "publish_state")
  /\ state' = IF thread[t].outcome = "failed" THEN state
              ELSE [state EXCEPT ![thread[t].job] = thread[t].outcome]
  /\ IF thread[t].from = "confirm" THEN Goto(t, "replan_check") ELSE Return(t)
  /\ UNCHANGED <<ledgerVars, deployVars, result>>

\* The end of _run_job: back to confirm when it is a re-plan.
PublishState(t) ==
  /\ At(t, "publish_state")
  /\ state' = [state EXCEPT ![thread[t].job] = thread[t].outcome]
  /\ IF thread[t].from = "confirm" THEN Goto(t, "replan_check") ELSE Return(t)
  /\ UNCHANGED <<ledgerVars, deployVars, result>>

------------------------------------------------------------------------------
(* POST /serve-requests/{job}/confirm *)

\* The state check; a refused confirm (409) changes nothing.
StartConfirm(t, j) ==
  /\ MayCall(j)
  /\ state[j] \in {"done", "replanned"}
  /\ Begin(t, j, "read_result", "confirm")
  /\ UNCHANGED <<ledgerVars, deployVars, state, result>>

ReadResult(t) ==
  /\ At(t, "read_result")
  /\ LET p == result[thread[t].job]
     IN IF p.devs = {} THEN Return(t)
        ELSE GotoWith(t, "reserve", p)
  /\ UNCHANGED <<ledgerVars, deployVars, state, result>>

\* Mutants of Conflict: only the UNIQUE constraint refuses; everything but it.
ConflictUniqueOnly(j, p) == booking[j] # "none"
ConflictNotUnique(j, p) == p.ver # version \/ p.devs \cap Used # {}

\* The refusals inside reserve's immediate transaction: a stale version, a
\* device already held, the UNIQUE request_id (a released row counts too).
Conflict(j, p) ==
  \/ p.ver # version
  \/ p.devs \cap Used # {}
  \/ booking[j] # "none"

Reserve(t) ==
  LET j == thread[t].job
      p == thread[t].plan
  IN /\ At(t, "reserve")
     /\ ~Conflict(j, p)
     /\ booking' = [booking EXCEPT ![j] = "reserved"]
     /\ booked' = [booked EXCEPT ![j] = p.devs]
     /\ version' = version + 1
     /\ GotoWith(t, "confirm_write", NoPlan)
     /\ UNCHANGED <<deployVars, state, result>>

\* Mutant of Replan: the conflict is swallowed and the job confirmed.
ReplanSwallowed(t) ==
  /\ At(t, "reserve")
  /\ Conflict(thread[t].job, thread[t].plan)
  /\ GotoWith(t, "confirm_write", NoPlan)
  /\ UNCHANGED <<ledgerVars, deployVars, state, result>>

\* ConflictError: the handler runs _run_job again, in this thread.
Replan(t) ==
  /\ At(t, "reserve")
  /\ Conflict(thread[t].job, thread[t].plan)
  /\ GotoWith(t, "run_start", NoPlan)
  /\ UNCHANGED <<ledgerVars, deployVars, state, result>>

ReplanCheck(t) ==
  /\ At(t, "replan_check")
  /\ IF state[thread[t].job] = "done" THEN Goto(t, "replan_write") ELSE Return(t)
  /\ UNCHANGED <<ledgerVars, deployVars, state, result>>

ReplanWrite(t) ==
  /\ At(t, "replan_write")
  /\ state' = [state EXCEPT ![thread[t].job] = "replanned"]
  /\ Return(t)
  /\ UNCHANGED <<ledgerVars, deployVars, result>>

ConfirmWrite(t) ==
  /\ At(t, "confirm_write")
  /\ state' = [state EXCEPT ![thread[t].job] = "confirmed"]
  /\ Goto(t, "deploy")
  /\ UNCHANGED <<ledgerVars, deployVars, result>>

\* deploy_from_job reads the devices from Job.result once more, not from the
\* reservation.  It may also skip (auto_deploy off, several TP groups) or
\* raise: confirm swallows that.
Deploy(t) ==
  LET j == thread[t].job
  IN /\ At(t, "deploy")
     /\ \/ /\ j \in AutoDeploy
           /\ result[j].devs # {}
           /\ deployment' = [deployment EXCEPT ![j] = "live"]
           /\ deployed' = [deployed EXCEPT ![j] = result[j].devs]
        \/ UNCHANGED deployVars
     /\ Return(t)
     /\ UNCHANGED <<ledgerVars, state, result>>

------------------------------------------------------------------------------
(* Releases *)

\* Ledger.release on j's row: idempotent, a second one finds 'released'.
LedgerRelease(j) ==
  IF booking[j] = "reserved"
  THEN /\ booking' = [booking EXCEPT ![j] = "released"]
       /\ booked' = [booked EXCEPT ![j] = {}]
       /\ version' = version + 1
  ELSE UNCHANGED ledgerVars

\* POST /serve-requests/{job}/release.  The transaction is the first thing
\* the handler does; only when it released something is Job.state written.
StartRelease(t, j) ==
  /\ MayCall(j)
  /\ state[j] \notin {"absent", "gone"}
  /\ ~RashReleases => /\ NoCallAbout(j)
                      /\ deployment[j] \notin {"live", "stopped"}
  /\ booking[j] = "reserved"
  /\ Begin(t, j, "release_write", "release")
  /\ LedgerRelease(j)
  /\ UNCHANGED <<deployVars, state, result>>

ReleaseWrite(t) ==
  /\ At(t, "release_write")
  /\ state' = [state EXCEPT ![thread[t].job] = "released"]
  /\ Return(t)
  /\ UNCHANGED <<ledgerVars, deployVars, result>>

\* DeploymentManager gives up on the deployment: FAILED, its container removed,
\* the reservation kept for the client to release.
DeploymentFails(j) ==
  /\ deployment[j] = "live"
  /\ deployment' = [deployment EXCEPT ![j] = "failed"]
  /\ deployed' = [deployed EXCEPT ![j] = {}]
  /\ UNCHANGED <<ledgerVars, state, result, thread>>

\* DeploymentManager.terminate, seen from here: the container is removed ...
TerminateStop(j) ==
  /\ deployment[j] = "live"
  /\ deployment' = [deployment EXCEPT ![j] = "stopped"]
  /\ deployed' = [deployed EXCEPT ![j] = {}]
  /\ UNCHANGED <<ledgerVars, state, result, thread>>

\* Mutant of TerminateRelease: the devices are freed before the container stops.
TerminateReleaseFirst(j) ==
  /\ deployment[j] = "live"
  /\ LedgerRelease(j)
  /\ UNCHANGED <<deployVars, state, result, thread>>

\* ... and then the reservation is released; Job.state is not touched.
TerminateRelease(j) ==
  /\ deployment[j] = "stopped"
  /\ deployment' = [deployment EXCEPT ![j] = "released"]
  /\ LedgerRelease(j)
  /\ UNCHANGED <<deployed, state, result, thread>>

\* The server restarts: jobs and threads are lost, the database is not.
Restart ==
  /\ thread' = [t \in Threads |-> IdleThread]
  /\ state' = [j \in Jobs |-> IF state[j] = "absent" THEN "absent" ELSE "gone"]
  /\ result' = [j \in Jobs |-> NoPlan]
  /\ UNCHANGED <<ledgerVars, deployVars>>

------------------------------------------------------------------------------
(* Specification *)

RunStep(t) == \/ RunStart(t) \/ SnapVersion(t) \/ SnapFree(t) \/ Pick(t)
              \/ PublishResult(t) \/ PublishState(t)
ConfirmStep(t) == \/ ReadResult(t) \/ Reserve(t) \/ Replan(t) \/ ReplanCheck(t)
                  \/ ReplanWrite(t) \/ ConfirmWrite(t) \/ Deploy(t)
ThreadStep(t) == RunStep(t) \/ ConfirmStep(t) \/ ReleaseWrite(t)

Next ==
  \/ \E t \in Threads : ThreadStep(t)
  \/ \E t \in Threads, j \in Jobs :
       Submit(t, j) \/ StartConfirm(t, j) \/ StartRelease(t, j)
  \/ \E j \in Jobs : DeploymentFails(j) \/ TerminateStop(j) \/ TerminateRelease(j)
  \/ Restart

Spec == Init /\ [][Next]_vars

\* Threads are scheduled and the planner returns.  Nothing obliges a client to
\* call, or the server to restart.
Fairness == \A t \in Threads : WF_vars(ThreadStep(t))
FairSpec == Spec /\ Fairness

------------------------------------------------------------------------------
(* Properties *)

\* No device is in two rows that are not released (Ledger.reserve), whatever
\* the clients do at the same time.
NoDoubleBooking ==
  \A j, k \in Jobs : j # k => booked[j] \cap booked[k] = {}

\* A plan whose version is still the ledger's names only free devices: the
\* version check alone already excludes double booking, although a snapshot
\* is two reads and the devices come from a later snapshot than the version.
CurrentPlanIsFree ==
  \A j \in Jobs : result[j].ver = version => result[j].devs \subseteq Free

\* A job is 'running' only while some thread is inside _run_job for it, and so
\* will write its outcome: no error path leaves a job running for ever.
RunningHasWorker ==
  \A j \in Jobs : state[j] = "running" =>
    \E t \in Threads : thread[t].job = j /\ thread[t].at \in RunSteps

\* With clients that wait for their answers: a confirmed job holds exactly the
\* devices its recommendation shows, until its release or its deployment's.
ConfirmedHoldsPlan ==
  \A j \in Jobs :
    /\ state[j] = "confirmed"
    /\ deployment[j] # "released"
    /\ \A t \in Threads : ~(thread[t].job = j /\ At(t, "release_write"))
    => booking[j] = "reserved" /\ booked[j] = result[j].devs

\* With clients that wait and that terminate before they release: the devices
\* of a running container are reserved for its job.
LiveDeploymentIsBooked ==
  \A j \in Jobs : deployment[j] = "live" =>
    booking[j] = "reserved" /\ deployed[j] = booked[j]

\* Every planning run ends (_run_job never lets an exception escape).
JobSettles == \A j \in Jobs : state[j] = "running" ~> state[j] # "running"

\* Two running deployments never share a device (the definition of done of the
\* execution layer: no double allocation when clients race to confirm).
NoDoubleAllocation ==
  \A j, k \in Jobs : j # k => deployed[j] \cap deployed[k] = {}

------------------------------------------------------------------------------
(* The ledger implements Reservations *)

Spent == {j \in Jobs : booking[j] # "none"}
R == INSTANCE Reservations WITH grant <- booked, spent <- Spent

\* Whatever threads, re-plans and restarts do, a request is granted free
\* devices at most once and gives them all back at once.
ImplementsReservations == R!Spec
==============================================================================
