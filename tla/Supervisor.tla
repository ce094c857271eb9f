------------------------------ MODULE Supervisor ------------------------------
(***************************************************************************)
(* One host: the controller thread (SingleHostSupervisor under             *)
(* run_control_server), its child processes, their completion receipts,    *)
(* the admission controller, and the durable queue they share with the     *)
(* clients.  The controller crashes and restarts; its children and its     *)
(* queue survive it, its memory does not.                                  *)
(*                                                                         *)
(* The controller is one thread.  `plan` is where it stands: between two   *)
(* actions of the controller any client, child or clock step may happen.   *)
(* Every queue transaction is an action of its own, so what the controller *)
(* read before it may be stale.                                            *)
(***************************************************************************)
EXTENDS JobQueue, FiniteSets

CONSTANTS
    LaneOf,         \* Types -> JobLane, by JobExecutionPolicy.lane
    LaneLimit,      \* JobLane -> HostResourceBudget.max_builders / max_runs
    MaxChildren,    \* HostResourceBudget.max_children
    MaxAttempts,    \* RetryPolicy.max_attempts
    Retryable,      \* RetryPolicy.retryable_kinds
    BaseBackoff,    \* RetryPolicy.base_backoff_ns
    MaxBackoff,     \* RetryPolicy.max_backoff_ns
    ExitKinds,      \* what _classify_exit makes of the exit codes children use
    DiskLevels,     \* what the free-space probe may report
    FaultPoints,    \* steps at which the controller may be killed or lose the queue
    MaxOutages,     \* bound on crashes, operator stops and database faults
    MaxTries        \* bound on the attempts of a job that is retried by hand

Lanes == {"BUILD", "RUN"}

ASSUME SupervisorAssumption ==
    /\ LaneOf \in [Types -> Lanes]
    /\ LaneLimit \in [Lanes -> Nat]
    /\ MaxChildren \in Nat \ {0}
    /\ MaxAttempts \in Nat \ {0}
    /\ Retryable \subseteq FailureKinds
    /\ ExitKinds \subseteq FailureKinds
    /\ {"ORPHANED", "TRANSIENT", "TIMEOUT", "RESOURCE_EXHAUSTED",
        "COMPLETION_INVALID"} \subseteq FailureKinds
    /\ BaseBackoff \in Nat
    /\ MaxBackoff \in Nat
    /\ DiskLevels \subseteq {"ample", "low", "emergency"}
    /\ MaxOutages \in Nat
    /\ MaxTries \in Nat

VARIABLES
    phase,      \* "down", "reconciling", "serving" or "stopping"
    me,         \* the instance id of the running controller
    plan,       \* the step it takes next, the attempt it is about, and why
    todo,       \* attempts the current loop has still to visit
    seen,       \* the clock reading the current loop works with
    held,       \* the SupervisorAttempt records in its memory
    reserved,   \* attempts that own an admission reservation
    process,    \* the child of each attempt
    receipt,    \* the completion receipt file of each attempt
    lost,       \* attempts whose child no record names any more
    outages     \* crashes, stops and faults so far

memory == <<phase, me, plan, todo, seen, held, reserved>>
host == <<process, receipt, lost>>
allVars == <<vars, memory, host, outages>>

-------------------------------------------------------------------------------

Steps == {"idle", "visit", "reserve", "spawn", "register", "kill", "complete",
          "cancel", "fail"}
Reasons == FailureKinds \cup {"NONE", "RECEIPT", "CANCEL"}
Idle == [do |-> "idle", attempt |-> None, why |-> "NONE"]
Visiting == [do |-> "visit", attempt |-> None, why |-> "NONE"]
Goto(do, a, why) == plan' = [do |-> do, attempt |-> a, why |-> why]

HeldRow == [version : Nat, handle : BOOLEAN, lease : Nat, deadline : Nat]
NotHeld == [version |-> 0, handle |-> FALSE, lease |-> 0, deadline |-> 0]
Known == {a \in Attempts : held[a] # NotHeld}

SupervisorTypeOK ==
    /\ TypeOK
    /\ phase \in {"down", "reconciling", "serving", "stopping"}
    /\ me \in Supervisors \cup {None}
    /\ plan \in [do : Steps, attempt : Attempts \cup {None}, why : Reasons]
    /\ todo \subseteq Attempts
    /\ seen \in Nat
    /\ held \in [Attempts -> HeldRow]
    /\ reserved \subseteq Attempts
    /\ process \in [Attempts -> {"none", "running", "done", "failed", "dead"}]
    /\ receipt \in [Attempts -> {"none", "linked", "published", "spoilt"}]
    /\ lost \subseteq Attempts
    /\ outages \in 0..MaxOutages

SupervisorInit ==
    /\ Init
    /\ phase = "down"
    /\ me = None
    /\ plan = Idle
    /\ todo = {}
    /\ seen = 0
    /\ held = [a \in Attempts |-> NotHeld]
    /\ reserved = {}
    /\ process = [a \in Attempts |-> "none"]
    /\ receipt = [a \in Attempts |-> "none"]
    /\ lost = {}
    /\ outages = 0

-------------------------------------------------------------------------------
(* Helpers. *)

\* Ids are drawn at random and never twice: which fresh one comes next does not
\* matter.
FreshInstances == {s \in Supervisors : \A a \in Attempts : attempt[a].supervisor # s}
FreshAttempts == {a \in Attempts : attempt[a].state = "ABSENT"}

(* As in JobQueue, a form that says what would happen were the code otherwise *)
(* precedes some definitions: a mistake the properties are tried against.     *)

\* MayRetry, were max_attempts not consulted.
EndlessMayRetry(a, why) == why \in Retryable

\* retry_not_before_ns
MayRetry(a, why) == why \in Retryable /\ attempt[a].number < MaxAttempts
Backoff(n) ==
    LET doubled == BaseBackoff * 2 ^ (n - 1)
    IN  IF doubled < MaxBackoff THEN doubled ELSE MaxBackoff

\* Doubling a natural number stays within them.
ASSUME BackoffAssumption == \A n \in 1 .. MaxAttempts : Backoff(n) \in Nat

\* _finish_record, with the controller's clock reading.
Fail(a, why) ==
    IF MayRetry(a, why)
    THEN FinishUnsuccessful(a, held[a].version, why, TRUE,
                            seen + Backoff(attempt[a].number))
    ELSE FinishUnsuccessful(a, held[a].version, why, FALSE, 0)

\* CompleteJobAttempt.verify accepts the receipt: it has one name only, fits
\* the spec and its outputs are intact.
Verified(a) == receipt[a] = "published"

\* _fits for one more child of a lane.
ReservedIn(lane) == {a \in reserved : LaneOf[TypeOf[job[JobOf(a)].spec]] = lane}
Fits(lane) ==
    /\ Cardinality(ReservedIn(lane)) < LaneLimit[lane]
    /\ Cardinality(reserved) < MaxChildren

LaneTypes(lane) == {ty \in Types : LaneOf[ty] = lane}

\* The rows list_unfinished_attempts returns, and the record it makes of one.
Unfinished == {a \in Attempts : attempt[a].state \in Live /\ job[JobOf(a)].current = a}
Record(a) == [version |-> attempt[a].version, handle |-> runtime[a] # NoRuntime,
              lease |-> runtime[a].lease, deadline |-> runtime[a].deadline]

\* Finished, were the reservation not released.
LeakingFinished(a) ==
    /\ held' = [held EXCEPT ![a] = NotHeld]
    /\ todo' = todo \ {a}
    /\ plan' = Visiting
    /\ UNCHANGED <<phase, me, seen, reserved>>

\* The controller forgets an attempt and goes on with its loop.
Finished(a) ==
    /\ held' = [held EXCEPT ![a] = NotHeld]
    /\ reserved' = reserved \ {a}
    /\ todo' = todo \ {a}
    /\ plan' = Visiting
    /\ UNCHANGED <<phase, me, seen>>

\* The controller process ends, in whatever way.
Exit ==
    /\ phase' = "down"
    /\ me' = None
    /\ plan' = Idle
    /\ todo' = {}
    /\ seen' = 0
    /\ held' = [a \in Attempts |-> NotHeld]
    /\ reserved' = {}

\* Attempts with a registered process in memory: the dictionary _active.
Active == {a \in Known : held[a].deadline # 0}

\* shutdown begins, after a stop request or a failed cycle.
BeginShutdown ==
    /\ phase' = "stopping"
    /\ plan' = Visiting
    /\ todo' = Active
    /\ seen' = now
    /\ held' = [a \in Attempts |-> IF a \in Active THEN held[a] ELSE NotHeld]
    /\ UNCHANGED me

-------------------------------------------------------------------------------
(* Startup and recovery. *)

\* A controller takes the lock under a fresh instance id, reads the clock and
\* lists what its predecessors left unfinished.
Start ==
    /\ phase = "down"
    /\ FreshInstances # {}
    /\ phase' = "reconciling"
    /\ me' = CHOOSE s \in FreshInstances : TRUE
    /\ plan' = Visiting
    /\ todo' = Unfinished
    /\ seen' = now
    /\ held' = [a \in Attempts |-> IF a \in Unfinished THEN Record(a) ELSE NotHeld]
    /\ reserved' = {}
    /\ UNCHANGED <<vars, host, outages>>

\* ReconcileVisit, were the previous controller's child left alone.
AdoptingReconcileVisit(a) ==
    /\ phase = "reconciling"
    /\ plan = Visiting
    /\ a \in todo
    /\ \A b \in todo : attempt[a].created <= attempt[b].created
    /\ Goto(IF Verified(a) THEN "complete" ELSE "fail", a, "ORPHANED")
    /\ UNCHANGED <<vars, phase, me, todo, seen, held, reserved, host, outages>>

\* reconcile_startup, one record: the oldest first, its receipt decides.
ReconcileVisit(a) ==
    /\ phase = "reconciling"
    /\ plan = Visiting
    /\ a \in todo
    /\ \A b \in todo : attempt[a].created <= attempt[b].created
    /\ Goto("kill", a, IF Verified(a) THEN "RECEIPT" ELSE "ORPHANED")
    /\ UNCHANGED <<vars, phase, me, todo, seen, held, reserved, host, outages>>

EndReconcile ==
    /\ phase = "reconciling"
    /\ plan = Visiting
    /\ todo = {}
    /\ phase' = "serving"
    /\ plan' = Idle
    /\ UNCHANGED <<vars, me, todo, seen, held, reserved, host, outages>>

-------------------------------------------------------------------------------
(* What recovery, a cycle and shutdown do with one attempt. *)

\* terminate: SIGTERM, a grace period (the child's steps before this action),
\* SIGKILL.  Without a handle there is nothing to signal.
Kill ==
    LET a == plan.attempt IN
    /\ plan.do = "kill"
    /\ process' = IF held[a].handle THEN [process EXCEPT ![a] = "dead"] ELSE process
    /\ Goto(CASE plan.why = "RECEIPT" -> "complete"
              [] plan.why = "CANCEL" -> "cancel"
              [] OTHER -> "fail",
            a, plan.why)
    /\ UNCHANGED <<vars, phase, me, todo, seen, held, reserved, receipt, lost, outages>>

\* CompleteJobAttempt.execute succeeds.
CompleteReceipt ==
    LET a == plan.attempt IN
    /\ plan.do = "complete"
    /\ Verified(a)
    /\ CompleteVerified(a, held[a].version, [attempt |-> a, spec |-> job[JobOf(a)].spec])
    /\ Finished(a)
    /\ UNCHANGED <<host, outages>>

\* execute conflicts with a cancel request that came first.
CompleteWithdrawn ==
    LET a == plan.attempt IN
    /\ plan.do = "complete"
    /\ Verified(a)
    /\ job[JobOf(a)].cancel
    /\ Goto("cancel", a, "CANCEL")
    /\ UNCHANGED <<vars, phase, me, todo, seen, held, reserved, host, outages>>

\* execute finds no usable receipt.  Recovery and a cycle record a failure;
\* shutdown does not expect it here, and the error ends the controller.
CompleteInvalid ==
    LET a == plan.attempt IN
    /\ plan.do = "complete"
    /\ ~Verified(a)
    /\ phase # "stopping"
    /\ Goto("fail", a, IF phase = "serving" THEN "COMPLETION_INVALID" ELSE "ORPHANED")
    /\ UNCHANGED <<vars, phase, me, todo, seen, held, reserved, host, outages>>

ShutdownInvalid ==
    /\ plan.do = "complete"
    /\ ~Verified(plan.attempt)
    /\ phase = "stopping"
    /\ Exit
    /\ UNCHANGED <<vars, host, outages>>

\* execute conflicts although nobody asked to cancel: reconcile_startup raises
\* and the controller does not come up.
StartupAborts ==
    LET a == plan.attempt IN
    /\ plan.do = "complete"
    /\ Verified(a)
    /\ "SUCCEEDED" \notin LegalNext(attempt[a].state)
    /\ ~job[JobOf(a)].cancel
    /\ Exit
    /\ UNCHANGED <<vars, host, outages>>

Cancel ==
    LET a == plan.attempt IN
    /\ plan.do = "cancel"
    /\ FinishCancelled(a, held[a].version)
    /\ Finished(a)
    /\ UNCHANGED <<host, outages>>

RecordFailure ==
    LET a == plan.attempt IN
    /\ plan.do = "fail"
    /\ Fail(a, plan.why)
    /\ Finished(a)
    /\ UNCHANGED <<host, outages>>

-------------------------------------------------------------------------------
(* run_cycle. *)

BeginCycle ==
    /\ phase = "serving"
    /\ plan = Idle
    /\ plan' = Visiting
    /\ todo' = Active
    /\ seen' = now
    /\ UNCHANGED <<vars, phase, me, held, reserved, host, outages>>

\* StopReason, were the deadline not enforced.
PatientStopReason(a, why) ==
    \/ /\ job[JobOf(a)].cancel
       /\ why = "CANCEL"
    \/ /\ ~job[JobOf(a)].cancel
       /\ held[a].lease <= seen
       /\ why = "ORPHANED"

\* The first reason, in the order of the code, to stop the child of a.
StopReason(a, why) ==
    LET building == LaneOf[TypeOf[job[JobOf(a)].spec]] = "BUILD"
    IN
    \/ /\ job[JobOf(a)].cancel
       /\ why = "CANCEL"
    \/ /\ ~job[JobOf(a)].cancel
       /\ building
       /\ "emergency" \in DiskLevels
       /\ why = "RESOURCE_EXHAUSTED"
    \/ /\ ~job[JobOf(a)].cancel
       /\ held[a].lease <= seen
       /\ why = "ORPHANED"
    \/ /\ ~job[JobOf(a)].cancel
       /\ held[a].lease > seen
       /\ held[a].deadline <= seen
       /\ why = "TIMEOUT"

\* Nothing forces the child to stop, so it is probed.
Probed(a) ==
    /\ phase = "serving"
    /\ plan = Visiting
    /\ a \in todo
    /\ ~job[JobOf(a)].cancel
    /\ held[a].lease > seen
    /\ held[a].deadline > seen

VisitStops(a) ==
    /\ phase = "serving"
    /\ plan = Visiting
    /\ a \in todo
    /\ \E why \in Reasons : StopReason(a, why) /\ Goto("kill", a, why)
    /\ UNCHANGED <<vars, phase, me, todo, seen, held, reserved, host, outages>>

\* The probe itself fails, or a running child breaks a resource limit.
VisitProbeFails(a) ==
    /\ Probed(a)
    /\ \/ Goto("kill", a, "TRANSIENT")
       \/ process[a] = "running" /\ Goto("kill", a, "RESOURCE_EXHAUSTED")
    /\ UNCHANGED <<vars, phase, me, todo, seen, held, reserved, host, outages>>

\* A running child: its lease is renewed once a third of it has passed.
HeartbeatDue(a) ==
    LET third == LeaseDuration \div 3
    IN  seen - (held[a].lease - LeaseDuration) >= (IF third > 1 THEN third ELSE 1)

\* VisitRenews, were the record in memory not replaced.
ForgettingVisitRenews(a) ==
    /\ Probed(a)
    /\ process[a] = "running"
    /\ HeartbeatDue(a)
    /\ Heartbeat(a, held[a].version, me, seen)
    /\ todo' = todo \ {a}
    /\ UNCHANGED <<phase, me, plan, seen, held, reserved, host, outages>>

VisitRenews(a) ==
    /\ Probed(a)
    /\ process[a] = "running"
    /\ HeartbeatDue(a)
    /\ Heartbeat(a, held[a].version, me, seen)
    /\ held' = [held EXCEPT ![a].lease = seen + LeaseDuration]
    /\ todo' = todo \ {a}
    /\ UNCHANGED <<phase, me, plan, seen, reserved, host, outages>>

VisitContinues(a) ==
    /\ Probed(a)
    /\ process[a] = "running"
    /\ ~HeartbeatDue(a)
    /\ todo' = todo \ {a}
    /\ UNCHANGED <<vars, phase, me, plan, seen, held, reserved, host, outages>>

VisitExited(a) ==
    /\ Probed(a)
    /\ \/ /\ process[a] = "done"
          /\ Goto("complete", a, "RECEIPT")
       \/ /\ process[a] = "failed"
          /\ \E why \in ExitKinds : Goto("fail", a, why)
    /\ UNCHANGED <<vars, phase, me, todo, seen, held, reserved, host, outages>>

-------------------------------------------------------------------------------
(* _start_available: once every record was visited, jobs are started until   *)
(* no lane has one it may start.                                             *)

Starting == phase = "serving" /\ plan = Visiting /\ todo = {}

ClaimJob(lane, j) ==
    LET a == CHOOSE a \in FreshAttempts : TRUE IN
    /\ Starting
    /\ Fits(lane)
    /\ "ample" \in DiskLevels
    /\ FreshAttempts # {}
    /\ Claim(me, LaneTypes(lane), seen, j, a)
    /\ held' = [held EXCEPT ![a] = [NotHeld EXCEPT !.version = job[j].version + 1]]
    /\ Goto("reserve", a, "NONE")
    /\ UNCHANGED <<phase, me, todo, seen, reserved, host, outages>>

\* Nothing to start: no lane with room has a claimable job, or the disk is low.
EndCycle ==
    /\ Starting
    /\ \/ DiskLevels # {"ample"}
       \/ \A lane \in Lanes, j \in Jobs :
              Claimable(j, LaneTypes(lane), seen) => ~Fits(lane)
    /\ plan' = Idle
    /\ UNCHANGED <<vars, phase, me, todo, seen, held, reserved, host, outages>>

Reserve ==
    LET a == plan.attempt IN
    /\ plan.do = "reserve"
    /\ Fits(LaneOf[TypeOf[job[JobOf(a)].spec]])
    /\ "ample" \in DiskLevels
    /\ reserved' = reserved \cup {a}
    /\ Goto("spawn", a, "NONE")
    /\ UNCHANGED <<vars, phase, me, todo, seen, held, host, outages>>

\* The disk filled up after the check that preceded the claim.
AdmissionLost ==
    LET a == plan.attempt IN
    /\ plan.do = "reserve"
    /\ DiskLevels # {"ample"}
    /\ Fail(a, "RESOURCE_EXHAUSTED")
    /\ Finished(a)
    /\ UNCHANGED <<host, outages>>

\* A cancel request that came before the spawn.
SpawnWithdrawn ==
    LET a == plan.attempt IN
    /\ plan.do = "spawn"
    /\ job[JobOf(a)].cancel
    /\ FinishCancelled(a, held[a].version)
    /\ Finished(a)
    /\ UNCHANGED <<host, outages>>

Spawn ==
    LET a == plan.attempt IN
    /\ plan.do = "spawn"
    /\ ~job[JobOf(a)].cancel
    /\ process' = [process EXCEPT ![a] = "running"]
    /\ held' = [held EXCEPT ![a].handle = TRUE]
    /\ Goto("register", a, "NONE")
    /\ UNCHANGED <<vars, phase, me, todo, seen, reserved, receipt, lost, outages>>

SpawnFails ==
    LET a == plan.attempt IN
    /\ plan.do = "spawn"
    /\ ~job[JobOf(a)].cancel
    /\ Fail(a, "TRANSIENT")
    /\ Finished(a)
    /\ UNCHANGED <<host, outages>>

\* Register, were the attempt only moved, as transition does, without its row.
RowlessRegister ==
    LET a == plan.attempt IN
    /\ plan.do = "register"
    /\ Transition(a, held[a].version, "RUNNING")
    /\ held' = [held EXCEPT ![a] = [version |-> held[a].version + 1, handle |-> TRUE,
                                    lease |-> seen + LeaseDuration,
                                    deadline |-> seen + Timeout]]
    /\ plan' = Visiting
    /\ UNCHANGED <<phase, me, todo, seen, reserved, host, outages>>

Register ==
    LET a == plan.attempt IN
    /\ plan.do = "register"
    /\ RegisterProcess(a, held[a].version, me, seen)
    /\ held' = [held EXCEPT ![a] = [version |-> held[a].version + 1, handle |-> TRUE,
                                    lease |-> seen + LeaseDuration,
                                    deadline |-> seen + Timeout]]
    /\ plan' = Visiting
    /\ UNCHANGED <<phase, me, todo, seen, reserved, host, outages>>

\* RegisterWithdrawn, were the child just spawned not terminated.
AbandoningRegisterWithdrawn ==
    LET a == plan.attempt IN
    /\ plan.do = "register"
    /\ job[JobOf(a)].cancel
    /\ Goto("cancel", a, "CANCEL")
    /\ UNCHANGED <<vars, phase, me, todo, seen, held, reserved, host, outages>>

\* register_process conflicts with a cancel request: the child just spawned is
\* terminated before the attempt is cancelled.
RegisterWithdrawn ==
    LET a == plan.attempt IN
    /\ plan.do = "register"
    /\ job[JobOf(a)].cancel
    /\ Goto("kill", a, "CANCEL")
    /\ UNCHANGED <<vars, phase, me, todo, seen, held, reserved, host, outages>>

-------------------------------------------------------------------------------
(* Shutdown. *)

RequestStop ==
    /\ phase = "serving"
    /\ plan = Idle
    /\ outages < MaxOutages
    /\ outages' = outages + 1
    /\ BeginShutdown
    /\ UNCHANGED <<vars, reserved, host>>

\* ShutdownVisit, were the failure given a kind AttemptFailureKind lacks.
UntypedShutdownVisit(a) ==
    /\ phase = "stopping"
    /\ plan = Visiting
    /\ a \in todo
    /\ Goto("kill", a, IF Verified(a) THEN "RECEIPT" ELSE "SHUTDOWN")
    /\ UNCHANGED <<vars, phase, me, todo, seen, held, reserved, host, outages>>

ShutdownVisit(a) ==
    /\ phase = "stopping"
    /\ plan = Visiting
    /\ a \in todo
    /\ Goto("kill", a, IF Verified(a) THEN "RECEIPT" ELSE "ORPHANED")
    /\ UNCHANGED <<vars, phase, me, todo, seen, held, reserved, host, outages>>

EndShutdown ==
    /\ phase = "stopping"
    /\ plan = Visiting
    /\ todo = {}
    /\ Exit
    /\ UNCHANGED <<vars, host, outages>>

-------------------------------------------------------------------------------
(* Faults. *)

\* A record of the controller that owns a child the queue does not know.
Unregistered == {a \in Known : held[a].handle /\ held[a].deadline = 0}

\* The controller is killed: its children live on, and a child it had not yet
\* registered is known to nobody.
Crash ==
    /\ phase # "down"
    /\ plan.do \in FaultPoints
    /\ outages < MaxOutages
    /\ outages' = outages + 1
    /\ lost' = lost \cup {a \in Unregistered : process[a] # "dead"}
    /\ Exit
    /\ UNCHANGED <<vars, process, receipt>>

\* A queue call of a cycle raises LocalStateUnavailableError.  Registration
\* terminates its child and drops its reservation first; the failed cycle ends
\* the loop, which ends in shutdown.
CycleFails ==
    LET a == plan.attempt IN
    /\ phase = "serving"
    /\ plan.do \in FaultPoints \ {"idle", "kill"}
    /\ outages < MaxOutages
    /\ outages' = outages + 1
    /\ process' = IF plan.do = "register" THEN [process EXCEPT ![a] = "dead"] ELSE process
    /\ reserved' = IF plan.do = "register" THEN reserved \ {a} ELSE reserved
    /\ BeginShutdown
    /\ UNCHANGED <<vars, receipt, lost>>

\* The same during recovery or shutdown ends the controller at once.
BoundaryFails ==
    /\ phase \in {"reconciling", "stopping"}
    /\ plan.do \in FaultPoints \cap {"complete", "cancel", "fail"}
    /\ outages < MaxOutages
    /\ outages' = outages + 1
    /\ Exit
    /\ UNCHANGED <<vars, host>>

-------------------------------------------------------------------------------
(* Children, clients and the clock. *)

\* publish: the receipt file has two names until the temporary one is removed.
LinkReceipt(a) ==
    /\ process[a] = "running"
    /\ receipt[a] = "none"
    /\ receipt' = [receipt EXCEPT ![a] = "linked"]
    /\ UNCHANGED <<vars, memory, process, lost, outages>>

PublishReceipt(a) ==
    /\ process[a] = "running"
    /\ receipt[a] = "linked"
    /\ receipt' = [receipt EXCEPT ![a] = "published"]
    /\ UNCHANGED <<vars, memory, process, lost, outages>>

\* A child exits with code 0 once its receipt is out, with another at any time.
ChildExits(a) ==
    /\ process[a] = "running"
    /\ \/ /\ receipt[a] \in {"published", "spoilt"}
          /\ process' = [process EXCEPT ![a] = "done"]
       \/ process' = [process EXCEPT ![a] = "failed"]
    /\ UNCHANGED <<vars, memory, receipt, lost, outages>>

\* An output named by a receipt is quarantined or corrupted before it is used.
SpoilOutput(a) ==
    /\ receipt[a] = "published"
    /\ attempt[a].state \in Live
    /\ receipt' = [receipt EXCEPT ![a] = "spoilt"]
    /\ UNCHANGED <<vars, memory, process, lost, outages>>

ChildStep(a) ==
    LinkReceipt(a) \/ PublishReceipt(a) \/ ChildExits(a) \/ SpoilOutput(a)

Client(j) ==
    /\ \/ \E spec \in Specs, key \in Keys : Submit(j, spec, key)
       \/ RequestCancel(j)
       \/ /\ Cardinality(AttemptsOf(j)) < MaxTries
          /\ RequestRetry(j)
    /\ UNCHANGED <<memory, host, outages>>

\* The clock, stopped at MaxTime unless a backoff or a deadline still lies
\* ahead.
Clock ==
    /\ \/ now < MaxTime
       \/ \E j \in Jobs : schedule[j].notBefore > now
       \/ \E a \in Attempts : runtime[a].deadline > now
    /\ now' = now + 1
    /\ UNCHANGED <<job, attempt, runtime, schedule, failure, indexed, progress,
                   memory, host, outages>>

-------------------------------------------------------------------------------

\* What the controller does by itself.
Recovery == (\E a \in Attempts : ReconcileVisit(a)) \/ EndReconcile

Settle == Kill \/ CompleteReceipt \/ CompleteWithdrawn \/ CompleteInvalid
              \/ ShutdownInvalid \/ StartupAborts \/ Cancel \/ RecordFailure

Cycle ==
    \/ BeginCycle
    \/ \E a \in Attempts :
          VisitStops(a) \/ VisitProbeFails(a) \/ VisitRenews(a) \/ VisitContinues(a)
              \/ VisitExited(a)
    \/ \E lane \in Lanes, j \in Jobs : ClaimJob(lane, j)
    \/ EndCycle
    \/ Reserve \/ AdmissionLost \/ SpawnWithdrawn \/ Spawn \/ SpawnFails
    \/ Register \/ RegisterWithdrawn

Shutdown == (\E a \in Attempts : ShutdownVisit(a)) \/ EndShutdown

Controller == Recovery \/ Settle \/ Cycle \/ Shutdown

Fault == RequestStop \/ Crash \/ CycleFails \/ BoundaryFails

SupervisorNext ==
    \/ Start
    \/ Controller
    \/ Fault
    \/ \E a \in Attempts : ChildStep(a)
    \/ \E j \in Jobs : Client(j)
    \/ Clock

SupervisorSpec == SupervisorInit /\ [][SupervisorNext]_allVars

\* The loop thread runs, a stopped controller is started again, time passes.
\* Nothing is assumed of the children and the clients.
FairSpec ==
    /\ SupervisorSpec
    /\ WF_allVars(Controller)
    /\ WF_allVars(Start)
    /\ WF_allVars(Clock)

-------------------------------------------------------------------------------
(* Invariants. *)

\* What the controller remembers of an attempt is what the queue stores, so the
\* version it will present is accepted: no client can move a held attempt away
\* under it.
MemoryMatchesQueue ==
    \A a \in Known :
        /\ attempt[a].state \in Live
        /\ job[JobOf(a)].current = a
        /\ held[a].version = attempt[a].version
        /\ phase # "reconciling" => attempt[a].supervisor = me
        /\ a \in Active => Record(a) = held[a]

\* A live attempt has a process row exactly while it runs, written by the
\* controller that claimed it; otherwise list_unfinished_attempts would refuse
\* the whole queue and no controller could start again.
RecoverableRows ==
    \A a \in Attempts : attempt[a].state \in Live =>
        /\ attempt[a].state = "RUNNING" <=> runtime[a] # NoRuntime
        /\ runtime[a] # NoRuntime => runtime[a].supervisor = attempt[a].supervisor

\* Outside a start or an end, exactly the supervised children own a
\* reservation: none is leaked and none is missing.
ReservationsMatch ==
    phase = "serving" /\ plan \in {Idle, Visiting} => reserved = Active

\* However controllers came and went, the children that run at one time fit
\* the budgets, but for those a crash made unknown.
ChildrenWithinBudget ==
    LET running(lane) == {a \in Attempts \ lost :
            process[a] = "running" /\ LaneOf[TypeOf[job[JobOf(a)].spec]] = lane}
    IN  /\ \A lane \in Lanes : Cardinality(running(lane)) <= LaneLimit[lane]
        /\ Cardinality(running("BUILD") \cup running("RUN")) <= MaxChildren

\* The child is gone before its attempt is decided, but for one a crash made
\* unknown: no retry runs beside it and no cancelled job goes on.
ChildEndsFirst ==
    \A a \in Attempts \ lost : process[a] = "running" => attempt[a].state \in Live

\* A job tries again by itself only while it has attempts left.
AutomaticRetriesBounded ==
    \A j \in Jobs : Cardinality({a \in AttemptsOf(j) : failure[a].retry}) < MaxAttempts

(* Action property. *)

\* The supervised program is stricter than the queue: a live job that was
\* asked to cancel ends CANCELLED, whatever its child managed to publish.
WithdrawnEnds ==
    \A j \in Jobs : job[j].cancel /\ job[j].state \in Live =>
        job'[j].state \in {job[j].state, "CANCELLED"}
CancelPrevails == [][WithdrawnEnds]_allVars

(* Liveness, under FairSpec. *)

\* Every job that was submitted is decided, children that hang included.
JobEnds ==
    \A j \in Jobs : job[j].state \in {"QUEUED"} \cup Live ~> job[j].state \in Terminal

-------------------------------------------------------------------------------
(* What the documentation says and the code does not do. *)

\* "Committed success is recovered from a receipt" (architecture.md, failure
\* table, API/controller crash): recovery that verified a receipt of an
\* uncancelled job can complete it.
CommittedSuccessRecovered ==
    /\ phase = "reconciling"
    /\ plan.do = "complete"
    /\ Verified(plan.attempt)
    /\ ~job[JobOf(plan.attempt)].cancel
    => "SUCCEEDED" \in LegalNext(attempt[plan.attempt].state)

\* "Otherwise the exact process group is terminated and the attempt becomes
\* interrupted before retry" (SingleHostSupervisor): an attempt starts only
\* when no child of an earlier attempt of its job still runs.
ChildTerminatedBeforeRetry ==
    \A a, b \in Attempts :
        /\ process[a] = "running"
        /\ process[b] = "running"
        /\ JobOf(a) = JobOf(b)
        => a = b
===============================================================================
