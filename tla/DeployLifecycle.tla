--------------------------- MODULE DeployLifecycle ---------------------------
(***************************************************************************)
(* The life of one deployment (service/deploy, service/monitor): its row   *)
(* in the deployments table, its container, its reservation, and the       *)
(* threads that work on them at the same time - the bring-up worker, the   *)
(* terminate calls, the monitor loop, the periodic reconcile - and restarts *)
(* of the service.  Deployments do not share state with one another but    *)
(* for reconcile, which treats them one by one, so one of them is modelled.*)
(*                                                                         *)
(* DeployStore.transition reads the row by a SELECT and writes it by an    *)
(* UPDATE in a transaction that only the UPDATE opens: every transition is *)
(* a check step and a write step of its thread.                            *)
(***************************************************************************)
EXTENDS Naturals

CONSTANTS Retries,      \* spec.health.retries: bring-up attempts after the first
          Threshold,    \* SLOChecker.consecutive_for_degraded
          Terminators,  \* calls of POST /deployments/{id}/terminate; each one
                        \* has a thread of its own
          MaxRestarts,  \* bound: restarts of the service in one behaviour
          Outsiders,    \* whether someone outside the service removes containers
          DockerFails   \* whether stop, rm and list calls to docker may fail

ASSUME BoundsAssumption ==
  /\ Retries \in Nat
  /\ Threshold \in Nat \ {0}
  /\ MaxRestarts \in Nat
  /\ Outsiders \in BOOLEAN
  /\ DockerFails \in BOOLEAN

VARIABLES
  row,       \* deployments.state; "none" before the row is inserted
  box,       \* the container: absent, running or exited
  held,      \* the reservation's row is not released
  up,        \* the bring-up worker: step, target of its transition, attempt
  term,      \* the terminate calls: step and target
  mon,       \* the monitor loop: step, target, stop event, SLO checker
  rec,       \* reconcile: step, and what it has read
  restarts,
  mishap     \* history: a bring-up has raised after its row said READY

vars == <<row, box, held, up, term, mon, rec, restarts, mishap>>

------------------------------------------------------------------------------
(* The state machine (state.py) *)

MidFlight == {"PENDING", "PULLING", "STARTING", "HEALTH_CHECK"}
Steady == {"READY", "DEGRADED"}
Terminal == {"RELEASED", "FAILED"}
States == MidFlight \cup Steady \cup Terminal \cup {"DRAINING", "STOPPED"}
NonTerminal == MidFlight \cup Steady \cup {"DRAINING"}  \* reconcile's own list

ALLOWED ==
  { <<"PENDING", "PULLING">>, <<"PULLING", "STARTING">>,
    <<"STARTING", "HEALTH_CHECK">>, <<"HEALTH_CHECK", "READY">>,
    <<"READY", "DEGRADED">>, <<"READY", "DRAINING">>,
    <<"DEGRADED", "READY">>, <<"DEGRADED", "DRAINING">>,
    <<"DRAINING", "STOPPED">>, <<"STOPPED", "RELEASED">> }

\* check_transition: FAILED from everywhere but a terminal state.
Allowed(a, b) == \/ b = "FAILED" /\ a \notin Terminal
                 \/ <<a, b>> \in ALLOWED

\* What the check of DeployStore.transition(row -> to) decides: the row is there
\* already, the UPDATE follows, or InvalidTransition is raised.
NoOp(to) == row = to
Valid(to) == row # to /\ Allowed(row, to)
Invalid(to) == row # to /\ ~Allowed(row, to)

------------------------------------------------------------------------------
(* Threads *)

UpIdle == [at |-> "off", to |-> "PENDING", try |-> 1]
UpFirst == [at |-> "check", to |-> "PULLING", try |-> 1]
TermIdle == [at |-> "idle", to |-> "DRAINING"]
TermOver == [at |-> "over", to |-> "DRAINING"]
MonNew(step) == [at |-> step, to |-> "READY", stop |-> FALSE, violations |-> 0,
                 degraded |-> FALSE]
MonOff == MonNew("off")
MonFirst == MonNew("loop")
MonDead == MonNew("dead")      \* registered, but its thread has not started
RecIdle == [at |-> "idle", tracked |-> FALSE, steady |-> FALSE]

UpSteps == {"off", "check", "write", "pull", "run", "poll", "attach", "rollback",
            "rewind"}
TermSteps == {"idle", "check", "write", "drain", "hook", "release", "over"}
MonSteps == {"off", "dead", "loop", "check", "write"}
RecSteps == {"idle", "get", "list", "remove", "check", "write"}

UpTypes == [at : UpSteps, to : States, try : 1 .. Retries + 1]
TermTypes == [at : TermSteps, to : {"DRAINING", "STOPPED", "RELEASED"}]
MonTypes == [at : MonSteps, to : Steady, stop : BOOLEAN,
             violations : 0 .. Threshold, degraded : BOOLEAN]
RecTypes == [at : RecSteps, tracked : BOOLEAN, steady : BOOLEAN]

TypeOK ==
  /\ row \in States \cup {"none"}
  /\ box \in {"absent", "running", "exited"}
  /\ held \in BOOLEAN
  /\ up \in UpTypes
  /\ term \in [Terminators -> TermTypes]
  /\ mon \in MonTypes
  /\ rec \in RecTypes
  /\ restarts \in 0 .. MaxRestarts
  /\ mishap \in BOOLEAN

\* The job is confirmed: its devices are reserved, deploy_from_job comes next.
Init ==
  /\ row = "none"
  /\ box = "absent"
  /\ held = TRUE
  /\ up = UpIdle
  /\ term = [t \in Terminators |-> TermIdle]
  /\ mon = MonOff
  /\ rec = RecIdle
  /\ restarts = 0
  /\ mishap = FALSE

------------------------------------------------------------------------------
(* The docker driver: its stop, rm and list_names swallow every exception *)

\* What is left of the container after driver.stop and driver.rm.
Cleared == IF DockerFails /\ box # "absent" THEN {"absent", "exited", box}
           ELSE {"absent"}

\* Whether driver.list_names names it: exited containers too, none on an error.
Listed == IF DockerFails THEN {box # "absent", FALSE} ELSE {box # "absent"}

------------------------------------------------------------------------------
(* Bring-up: DeploymentManager.create and _bring_up *)

Create ==
  /\ row = "none"
  /\ row' = "PENDING"
  /\ up' = UpFirst
  /\ UNCHANGED <<box, held, term, mon, rec, restarts, mishap>>

\* Where the worker goes on after it has reached a state.
UpNext(to) == CASE to = "PULLING"      -> "pull"
                [] to = "STARTING"     -> "run"
                [] to = "HEALTH_CHECK" -> "poll"
                [] to = "READY"        -> "attach"
                [] OTHER               -> "off"

\* transition(...): an InvalidTransition is caught like any other failure,
\* except that of the final transition to FAILED, which ends the thread.
UpCheck ==
  /\ up.at = "check"
  /\ \/ Valid(up.to) /\ up' = [up EXCEPT !.at = "write"]
     \/ NoOp(up.to) /\ up' = [up EXCEPT !.at = UpNext(up.to)]
     \/ /\ Invalid(up.to)
        /\ up' = [up EXCEPT !.at = IF up.to = "FAILED" THEN "off" ELSE "rollback"]
  /\ UNCHANGED <<row, box, held, term, mon, rec, restarts, mishap>>

UpWrite ==
  /\ up.at = "write"
  /\ row' = up.to
  /\ up' = [up EXCEPT !.at = UpNext(up.to)]
  /\ UNCHANGED <<box, held, term, mon, rec, restarts, mishap>>

\* Mutant of UpPull: a DriverError ends the worker.
UpPullUncaught ==
  /\ up.at = "pull"
  /\ \/ up' = [up EXCEPT !.at = "check", !.to = "STARTING"]
     \/ up' = UpIdle
  /\ UNCHANGED <<row, box, held, term, mon, rec, restarts, mishap>>

\* driver.pull works or raises.
UpPull ==
  /\ up.at = "pull"
  /\ \/ up' = [up EXCEPT !.at = "check", !.to = "STARTING"]
     \/ up' = [up EXCEPT !.at = "rollback"]
  /\ UNCHANGED <<row, box, held, term, mon, rec, restarts, mishap>>

\* driver.run starts the container, refuses (the name is taken), or fails, and
\* then docker may have created a container that does not run.
UpRun ==
  /\ up.at = "run"
  /\ \/ /\ box = "absent"
        /\ box' = "running"
        /\ up' = [up EXCEPT !.at = "check", !.to = "HEALTH_CHECK"]
     \/ /\ box' \in IF box = "absent" THEN {"absent", "exited"} ELSE {box}
        /\ up' = [up EXCEPT !.at = "rollback"]
  /\ UNCHANGED <<row, held, term, mon, rec, restarts, mishap>>

\* The health poll succeeds, which takes a running container, or reaches its
\* deadline.
UpPoll ==
  /\ up.at = "poll"
  /\ \/ box = "running" /\ up' = [up EXCEPT !.at = "check", !.to = "READY"]
     \/ up' = [up EXCEPT !.at = "rollback"]
  /\ UNCHANGED <<row, box, held, term, mon, rec, restarts, mishap>>

\* READY is written; what is left of the try is transition's reading the row
\* back and on_ready = MonitorRuntime.attach: nothing when already attached. Any
\* of it may raise, like everything in the try: with the monitor not registered
\* yet, or registered without its thread.
UpAttach ==
  /\ up.at = "attach"
  /\ \/ /\ up' = UpIdle
        /\ mon' = IF mon.at = "off" THEN MonFirst ELSE mon
        /\ UNCHANGED mishap
     \/ /\ up' = [up EXCEPT !.at = "rollback"]
        /\ mon' \in IF mon.at = "off" THEN {mon, MonDead} ELSE {mon}
        /\ mishap' = TRUE
  /\ UNCHANGED <<row, box, held, term, rec, restarts>>

\* Mutant of UpRollback: no rollback of the last attempt.
UpRollbackNotLast ==
  /\ up.at = "rollback"
  /\ IF up.try = Retries + 1
     THEN up' = [up EXCEPT !.at = "check", !.to = "FAILED"] /\ UNCHANGED box
     ELSE up' = [up EXCEPT !.at = "rewind"] /\ box' \in Cleared
  /\ UNCHANGED <<row, held, term, mon, rec, restarts, mishap>>

\* _rollback_containers, then one more attempt or FAILED.
UpRollback ==
  /\ up.at = "rollback"
  /\ box' \in Cleared
  /\ up' = IF up.try = Retries + 1
           THEN [up EXCEPT !.at = "check", !.to = "FAILED"]
           ELSE [up EXCEPT !.at = "rewind"]
  /\ UNCHANGED <<row, held, term, mon, rec, restarts, mishap>>

\* _force_pending: PENDING over whatever the row says.
UpRewind ==
  /\ up.at = "rewind"
  /\ row' = "PENDING"
  /\ up' = [at |-> "check", to |-> "PULLING", try |-> up.try + 1]
  /\ UNCHANGED <<box, held, term, mon, rec, restarts, mishap>>

BringUp == \/ UpCheck \/ UpWrite \/ UpPull \/ UpRun \/ UpPoll \/ UpAttach
           \/ UpRollback \/ UpRewind

------------------------------------------------------------------------------
(* Termination: DeploymentManager.terminate and _release *)

\* terminate reads the row: already ended, stopped but not released, or to be
\* drained.
TermStart(t) ==
  /\ term[t].at = "idle"
  /\ row \notin Terminal \cup {"none"}
  /\ term' = [term EXCEPT ![t] = IF row = "STOPPED"
                                 THEN [at |-> "release", to |-> "RELEASED"]
                                 ELSE [at |-> "check", to |-> "DRAINING"]]
  /\ UNCHANGED <<row, box, held, up, mon, rec, restarts, mishap>>

\* Mutant of TermReach: the reservation is released before the containers go.
TermReachReleaseFirst(t, to) ==
  term' = [term EXCEPT ![t] = CASE to = "DRAINING" -> [@ EXCEPT !.at = "release"]
                                [] to = "STOPPED"  -> [@ EXCEPT !.at = "hook"]
                                [] to = "RELEASED" -> TermOver]

\* Where the call goes on after its deployment has reached a state.
TermReach(t, to) ==
  term' = [term EXCEPT ![t] = CASE to = "DRAINING" -> [@ EXCEPT !.at = "drain"]
                                [] to = "STOPPED"  -> [@ EXCEPT !.at = "hook"]
                                [] to = "RELEASED" -> TermOver]

\* An InvalidTransition ends the thread, wherever the call has got to.
TermCheck(t) ==
  LET to == term[t].to
  IN /\ term[t].at = "check"
     /\ \/ Valid(to) /\ term' = [term EXCEPT ![t].at = "write"]
        \/ NoOp(to) /\ TermReach(t, to)
        \/ Invalid(to) /\ term' = [term EXCEPT ![t] = TermOver]
     /\ UNCHANGED <<row, box, held, up, mon, rec, restarts, mishap>>

TermWrite(t) ==
  /\ term[t].at = "write"
  /\ row' = term[t].to
  /\ TermReach(t, term[t].to)
  /\ UNCHANGED <<box, held, up, mon, rec, restarts, mishap>>

\* The queue is empty or the drain times out: the container is stopped and
\* removed.
TermDrain(t) ==
  /\ term[t].at = "drain"
  /\ box' \in Cleared
  /\ term' = [term EXCEPT ![t] = [at |-> "check", to |-> "STOPPED"]]
  /\ UNCHANGED <<row, held, up, mon, rec, restarts, mishap>>

\* MonitorRuntime.detach: a loop sees the event at its next turn.
Detached == IF mon.at \in {"off", "dead"} THEN MonOff ELSE [mon EXCEPT !.stop = TRUE]

\* Mutant of TermHook: an error of the hook ends the call.
TermHookRaises(t) ==
  /\ term[t].at = "hook"
  /\ mon' = Detached
  /\ \/ term' = [term EXCEPT ![t] = [at |-> "release", to |-> "RELEASED"]]
     \/ term' = [term EXCEPT ![t] = TermOver]
  /\ UNCHANGED <<row, box, held, up, rec, restarts, mishap>>

\* on_stopped: the monitor is detached.
TermHook(t) ==
  /\ term[t].at = "hook"
  /\ mon' = Detached
  /\ term' = [term EXCEPT ![t] = [at |-> "release", to |-> "RELEASED"]]
  /\ UNCHANGED <<row, box, held, up, rec, restarts, mishap>>

\* _release: the ledger's release (idempotent), then the transition.
TermRelease(t) ==
  /\ term[t].at = "release"
  /\ held' = FALSE
  /\ term' = [term EXCEPT ![t].at = "check"]
  /\ UNCHANGED <<row, box, up, mon, rec, restarts, mishap>>

Terminate(t) == \/ TermCheck(t) \/ TermWrite(t) \/ TermDrain(t) \/ TermHook(t)
                \/ TermRelease(t)

------------------------------------------------------------------------------
(* MonitorRuntime._loop with SLOChecker.push *)

\* The loop ends on its stop event or when it reads an ended row.
MonEnd ==
  /\ mon.at = "loop"
  /\ mon.stop \/ row \in {"STOPPED"} \cup Terminal
  /\ mon' = MonOff
  /\ UNCHANGED <<row, box, held, up, term, rec, restarts, mishap>>

\* A sample that breaches the SLO; the Threshold-th in a row degrades, once.
MonBreach ==
  LET n == IF mon.violations = Threshold THEN Threshold ELSE mon.violations + 1
  IN /\ mon.at = "loop" /\ ~mon.stop /\ row \notin {"STOPPED"} \cup Terminal
     /\ mon' = IF n = Threshold /\ ~mon.degraded
               THEN [mon EXCEPT !.violations = n, !.degraded = TRUE,
                                !.at = "check", !.to = "DEGRADED"]
               ELSE [mon EXCEPT !.violations = n]
     /\ UNCHANGED <<row, box, held, up, term, rec, restarts, mishap>>

\* Mutant of MonFine: the checker forgets, and nobody tells the store.
MonFineSilent ==
  /\ mon.at = "loop" /\ ~mon.stop /\ row \notin {"STOPPED"} \cup Terminal
  /\ mon' = [mon EXCEPT !.violations = 0, !.degraded = FALSE]
  /\ UNCHANGED <<row, box, held, up, term, rec, restarts, mishap>>

\* A sample within the SLO: the first one after degrading recovers.
MonFine ==
  /\ mon.at = "loop" /\ ~mon.stop /\ row \notin {"STOPPED"} \cup Terminal
  /\ mon' = IF mon.degraded
            THEN [mon EXCEPT !.violations = 0, !.degraded = FALSE,
                             !.at = "check", !.to = "READY"]
            ELSE [mon EXCEPT !.violations = 0]
  /\ UNCHANGED <<row, box, held, up, term, rec, restarts, mishap>>

\* The callbacks swallow an InvalidTransition.
MonCheck ==
  /\ mon.at = "check"
  /\ mon' = [mon EXCEPT !.at = IF Valid(mon.to) THEN "write" ELSE "loop"]
  /\ UNCHANGED <<row, box, held, up, term, rec, restarts, mishap>>

MonWrite ==
  /\ mon.at = "write"
  /\ row' = mon.to
  /\ mon' = [mon EXCEPT !.at = "loop"]
  /\ UNCHANGED <<box, held, up, term, rec, restarts, mishap>>

Monitor == MonEnd \/ MonBreach \/ MonFine \/ MonCheck \/ MonWrite

------------------------------------------------------------------------------
(* DeploymentManager.reconcile *)

\* DeployStore.list selects the ids of non-terminal rows ...
RecSelect ==
  /\ rec.at = "idle"
  /\ rec' = IF row \in NonTerminal THEN [RecIdle EXCEPT !.at = "get"]
            ELSE [RecIdle EXCEPT !.at = "list"]
  /\ UNCHANGED <<row, box, held, up, term, mon, restarts, mishap>>

\* Mutant of RecGet: only READY deployments are expected to have a container.
RecGetReadyOnly ==
  /\ rec.at = "get"
  /\ rec' = [at |-> "list", tracked |-> TRUE, steady |-> row = "READY"]
  /\ UNCHANGED <<row, box, held, up, term, mon, restarts, mishap>>

\* ... and then reads each row again: its container is tracked whatever the
\* row says now, and expected to exist when the row is steady.
RecGet ==
  /\ rec.at = "get"
  /\ rec' = [at |-> "list", tracked |-> TRUE, steady |-> row \in Steady]
  /\ UNCHANGED <<row, box, held, up, term, mon, restarts, mishap>>

\* A listed container that is not tracked is an orphan; one that is expected
\* and not listed is missing.
RecList ==
  /\ rec.at = "list"
  /\ \E listed \in Listed :
       \/ listed /\ ~rec.tracked /\ rec' = [rec EXCEPT !.at = "remove"]
       \/ ~listed /\ rec.steady /\ rec' = [rec EXCEPT !.at = "check"]
       \/ (IF listed THEN rec.tracked ELSE ~rec.steady) /\ rec' = RecIdle
  /\ UNCHANGED <<row, box, held, up, term, mon, restarts, mishap>>

RecRemove ==
  /\ rec.at = "remove"
  /\ box' \in Cleared
  /\ rec' = RecIdle
  /\ UNCHANGED <<row, held, up, term, mon, restarts, mishap>>

\* transition(FAILED) of the deployment whose container is missing; an
\* InvalidTransition ends this round.
RecCheck ==
  /\ rec.at = "check"
  /\ rec' = IF Valid("FAILED") THEN [rec EXCEPT !.at = "write"] ELSE RecIdle
  /\ UNCHANGED <<row, box, held, up, term, mon, restarts, mishap>>

RecWrite ==
  /\ rec.at = "write"
  /\ row' = "FAILED"
  /\ rec' = RecIdle
  /\ UNCHANGED <<box, held, up, term, mon, restarts, mishap>>

Reconcile == \/ RecSelect \/ RecGet \/ RecList \/ RecRemove \/ RecCheck \/ RecWrite

------------------------------------------------------------------------------
(* The world outside *)

\* The server in the container crashes; docker still lists the container.
ContainerExits ==
  /\ box = "running"
  /\ box' = "exited"
  /\ UNCHANGED <<row, held, up, term, mon, rec, restarts, mishap>>

ContainerRemoved ==
  /\ Outsiders
  /\ box # "absent"
  /\ box' = "absent"
  /\ UNCHANGED <<row, held, up, term, mon, rec, restarts, mishap>>

\* The tenant releases the reservation a failed deployment has kept.
TenantRelease ==
  /\ row = "FAILED"
  /\ held' = FALSE
  /\ UNCHANGED <<row, box, up, term, mon, rec, restarts, mishap>>

\* Mutants of Restart: DEGRADED deployments are started again; deployments in
\* mid-flight are rolled back and left.
RestartDegraded ==
  /\ restarts < MaxRestarts
  /\ restarts' = restarts + 1
  /\ term' = [t \in Terminators |-> IF term[t] = TermIdle THEN TermIdle
                                    ELSE TermOver]
  /\ rec' = RecIdle
  /\ mon' = IF row = "READY" THEN MonFirst ELSE MonOff
  /\ IF row \in MidFlight \cup {"DEGRADED"}
     THEN box' \in Cleared /\ row' = "PENDING" /\ up' = UpFirst
     ELSE up' = UpIdle /\ UNCHANGED <<box, row>>
  /\ UNCHANGED <<held, mishap>>
RestartForgets ==
  /\ restarts < MaxRestarts
  /\ restarts' = restarts + 1
  /\ term' = [t \in Terminators |-> IF term[t] = TermIdle THEN TermIdle
                                    ELSE TermOver]
  /\ rec' = RecIdle
  /\ mon' = IF row \in Steady THEN MonFirst ELSE MonOff
  /\ up' = UpIdle
  /\ IF row \in MidFlight THEN box' \in Cleared /\ row' = "PENDING"
     ELSE UNCHANGED <<box, row>>
  /\ UNCHANGED <<held, mishap>>

\* Every thread is lost; recover() then reads the rows: steady deployments get
\* their monitor back, those in mid-flight are rolled back and start again.
Restart ==
  /\ restarts < MaxRestarts
  /\ restarts' = restarts + 1
  /\ term' = [t \in Terminators |-> IF term[t] = TermIdle THEN TermIdle
                                    ELSE TermOver]
  /\ rec' = RecIdle
  /\ mon' = IF row \in Steady THEN MonFirst ELSE MonOff
  /\ IF row \in MidFlight
     THEN box' \in Cleared /\ row' = "PENDING" /\ up' = UpFirst
     ELSE up' = UpIdle /\ UNCHANGED <<box, row>>
  /\ UNCHANGED <<held, mishap>>

------------------------------------------------------------------------------
(* Specification *)

Next ==
  \/ Create
  \/ BringUp
  \/ \E t \in Terminators : TermStart(t) \/ Terminate(t)
  \/ Monitor
  \/ Reconcile
  \/ ContainerExits \/ ContainerRemoved \/ TenantRelease
  \/ Restart

Spec == Init /\ [][Next]_vars

\* Threads are scheduled, pulls and polls and drains end (they have timeouts),
\* reconcile runs every minute.  Nobody has to call terminate, and samples may
\* be of either kind.
Fairness ==
  /\ WF_vars(BringUp)
  /\ \A t \in Terminators : WF_vars(Terminate(t))
  /\ WF_vars(Monitor)
  /\ WF_vars(Reconcile)
FairSpec == Spec /\ Fairness

------------------------------------------------------------------------------
(* Properties *)

\* Whoever frees the reservation - a terminate call, two of them, a tenant after a
\* failure - the container has gone before: a device is never free while a
\* container of the service still occupies it, unless a bring-up goes on that
\* has raised after READY.
FreedAfterRemoval == ~mishap /\ ~held => box = "absent"

\* A row that says the deployment has ended has no container behind it, even when
\* docker left one behind a failed run, and RELEASED means the ledger was told;
\* with the same exception.
EndedIsClean ==
  ~mishap =>
    /\ row \in {"STOPPED"} \cup Terminal => box = "absent"
    /\ row = "RELEASED" => ~held

\* A deployment in mid-flight always has a worker that will bring it up or fail
\* it: no error, lost update or restart abandons it.
MidFlightHasWorker == row \in MidFlight => up.at # "off"

\* While the monitor loop of a DEGRADED deployment runs, its SLO checker knows it
\* is degraded, so that the next good sample recovers it: no interference of
\* terminate or reconcile leaves row and checker disagreeing.
DegradedIsRemembered == row = "DEGRADED" /\ mon.at = "loop" => mon.degraded

\* Once a deployment has left mid-flight it is rewound only by its own bring-up
\* when that raises after READY: no restart, retry or late write takes a served
\* or ended deployment down.
RewoundOnlyAfterMishap ==
  [][row' \in MidFlight /\ row \notin MidFlight \cup {"none"}
     => mishap /\ up.at \in {"write", "rewind"}]_vars

\* A deployment that starts becomes ready or fails.
BringUpSettles == row = "PENDING" ~> row \notin MidFlight

\* A termination that has begun ends: the row becomes RELEASED, or FAILED when
\* another thread interfered - unless a bring-up that has raised after READY
\* rewinds the row.
TerminationEnds == row = "DRAINING" ~> row \in Terminal \/ mishap

\* A steady deployment whose container has disappeared does not stay steady.
MissingIsNoticed == row \in Steady /\ box = "absent" ~> row \notin Steady

\* state.py: any transition outside the table raises InvalidTransition (the
\* rewind to PENDING is the one documented exception).
TransitionsFollowTable ==
  [][row' = row \/ row = "none" \/ Allowed(row, row')
     \/ (row \in MidFlight /\ row' = "PENDING")]_vars
==============================================================================
