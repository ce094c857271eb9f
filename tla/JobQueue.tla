------------------------------- MODULE JobQueue -------------------------------
(***************************************************************************)
(* The durable single-host job queue (SQLiteJobQueue).  Every operation of *)
(* the adapter is one BEGIN IMMEDIATE transaction, so every operation is   *)
(* one action; a raised exception rolls the transaction back, so a call    *)
(* that raises is a disabled action.  Callers may act late and repeatedly: *)
(* they pass any attempt, any version the attempt has had so far, and any  *)
(* clock reading taken in the past.                                        *)
(***************************************************************************)
EXTENDS Integers, Sequences

CONSTANTS
    Jobs,           \* job ids the generator may draw
    Attempts,       \* attempt ids the generator may draw
    Supervisors,    \* supervisor instance ids
    Specs,          \* resolved job specs (equal iff their request digests are)
    Types,          \* job types
    TypeOf,         \* Specs -> Types
    Keys,           \* idempotency keys
    FailureKinds,   \* AttemptFailureKind
    None,           \* SQL NULL
    Delays,         \* backoff a caller may ask for
    LeaseDuration,  \* JobExecutionPolicy.lease_duration_ns
    Timeout,        \* JobExecutionPolicy.timeout_ns
    ProgressKept,   \* _MAX_PROGRESS_EVENTS_PER_ATTEMPT
    MaxSequence,    \* bound on progress sequence numbers
    MaxTime         \* bound on the clock

ASSUME QueueAssumption ==
    /\ TypeOf \in [Specs -> Types]
    /\ None \notin Jobs \cup Attempts \cup Supervisors \cup Specs \cup Keys
    /\ "ORPHANED" \in FailureKinds
    /\ "NONE" \notin FailureKinds
    /\ Delays \subseteq Nat
    /\ LeaseDuration \in Nat \ {0}
    /\ Timeout \in Nat \ {0}
    /\ ProgressKept \in Nat \ {0}
    /\ MaxSequence \in Nat
    /\ MaxTime \in Nat

VARIABLES
    job,        \* table jobs
    attempt,    \* table job_attempts
    runtime,    \* table attempt_runtime
    schedule,   \* table job_retry_schedule
    failure,    \* table attempt_failures
    indexed,    \* table completion_receipts: the spec id indexed for an attempt
    progress,   \* retained ATTEMPT_PROGRESS sequence numbers of table job_events
    now         \* the host clock

vars == <<job, attempt, runtime, schedule, failure, indexed, progress, now>>

-------------------------------------------------------------------------------
(* Rows and their null values. *)

Live == {"STARTING", "RUNNING"}
Terminal == {"SUCCEEDED", "FAILED", "CANCELLED", "INTERRUPTED"}

JobRow == [state : {"ABSENT", "QUEUED"} \cup Live \cup Terminal, version : Nat,
           cancel : BOOLEAN, current : Attempts \cup {None},
           spec : Specs \cup {None}, key : Keys \cup {None}, submitted : Nat]
NoJob == [state |-> "ABSENT", version |-> 0, cancel |-> FALSE, current |-> None,
          spec |-> None, key |-> None, submitted |-> 0]

AttemptRow == [state : {"ABSENT"} \cup Live \cup Terminal, version : Nat,
               job : Jobs \cup {None}, number : Nat,
               supervisor : Supervisors \cup {None}, created : Nat]
NoAttempt == [state |-> "ABSENT", version |-> 0, job |-> None, number |-> 0,
              supervisor |-> None, created |-> 0]

RuntimeRow == [supervisor : Supervisors \cup {None}, lease : Nat, deadline : Nat]
NoRuntime == [supervisor |-> None, lease |-> 0, deadline |-> 0]

ScheduleRow == [previous : Attempts \cup {None}, notBefore : Nat]
NoSchedule == [previous |-> None, notBefore |-> 0]

FailureRow == [kind : FailureKinds \cup {"NONE"}, retry : BOOLEAN, retryAt : Nat]
NoFailure == [kind |-> "NONE", retry |-> FALSE, retryAt |-> 0]

TypeOK ==
    /\ job \in [Jobs -> JobRow]
    /\ attempt \in [Attempts -> AttemptRow]
    /\ runtime \in [Attempts -> RuntimeRow]
    /\ schedule \in [Jobs -> ScheduleRow]
    /\ failure \in [Attempts -> FailureRow]
    /\ indexed \in [Attempts -> Specs \cup {None}]
    /\ progress \in [Attempts -> Seq(Nat)]
    /\ now \in Nat

Init ==
    /\ job = [j \in Jobs |-> NoJob]
    /\ attempt = [a \in Attempts |-> NoAttempt]
    /\ runtime = [a \in Attempts |-> NoRuntime]
    /\ schedule = [j \in Jobs |-> NoSchedule]
    /\ failure = [a \in Attempts |-> NoFailure]
    /\ indexed = [a \in Attempts |-> None]
    /\ progress = [a \in Attempts |-> <<>>]
    /\ now = 0

-------------------------------------------------------------------------------
(* Guards shared by the operations. *)

JobOf(a) == attempt[a].job
AttemptsOf(j) == {a \in Attempts : attempt[a].job = j}

(* Mistakes the properties are tried against: each form replaces, in turn,   *)
(* the definition named in its comment.  No action uses them.                *)

\* LegalNext, were a receipt found late allowed to revive an attempt.
LateSuccessLegalNext(state) ==
    CASE state = "STARTING" -> {"RUNNING", "FAILED", "CANCELLED", "INTERRUPTED"}
      [] state \in {"RUNNING", "INTERRUPTED"} ->
             {"SUCCEEDED", "FAILED", "CANCELLED", "INTERRUPTED"}
      [] OTHER -> {}

\* RequireCurrent, were the caller's version not compared.
UnversionedRequireCurrent(a, expected) ==
    /\ attempt[a].state # "ABSENT"
    /\ job[JobOf(a)].current = a
    /\ job[JobOf(a)].state = attempt[a].state

\* NextNumber without the COALESCE: MAX over no rows is NULL.
NullNextNumber(j) ==
    IF AttemptsOf(j) = {} THEN None
    ELSE 1 + CHOOSE n \in {attempt[a].number : a \in AttemptsOf(j)} :
                 \A a \in AttemptsOf(j) : attempt[a].number <= n

\* Claimable, were the retry schedule not joined.
EagerClaimable(j, types, t) ==
    /\ job[j].state = "QUEUED"
    /\ ~job[j].cancel
    /\ TypeOf[job[j].spec] \in types

\* Move, were only the attempt's version advanced.
HalfMove(a, expected, state) ==
    /\ attempt' = [attempt EXCEPT ![a] = [@ EXCEPT !.state = state, !.version = expected + 1]]
    /\ job' = [job EXCEPT ![JobOf(a)].state = state]

\* _LEGAL_TRANSITIONS
LegalNext(state) ==
    CASE state = "STARTING" -> {"RUNNING", "FAILED", "CANCELLED", "INTERRUPTED"}
      [] state = "RUNNING" -> {"SUCCEEDED", "FAILED", "CANCELLED", "INTERRUPTED"}
      [] OTHER -> {}

\* _require_current_attempt: the attempt is its job's current one and the
\* caller's version is the stored one.  A row that diverges from its job makes
\* the code raise QueueCorruptionError instead of a conflict.
RequireCurrent(a, expected) ==
    /\ attempt[a].state # "ABSENT"
    /\ job[JobOf(a)].current = a
    /\ attempt[a].version = expected
    /\ job[JobOf(a)].version = expected
    /\ job[JobOf(a)].state = attempt[a].state

\* The number of the next attempt: COALESCE(MAX(attempt_number), 0) + 1.
Numbers(j) == {0} \cup {attempt[a].number : a \in AttemptsOf(j)}
NextNumber(j) == 1 + CHOOSE n \in Numbers(j) : \A m \in Numbers(j) : m <= n

\* A queued job a supervisor may take at its clock reading t.
Claimable(j, types, t) ==
    /\ job[j].state = "QUEUED"
    /\ ~job[j].cancel
    /\ TypeOf[job[j].spec] \in types
    /\ schedule[j] # NoSchedule => schedule[j].notBefore <= t

\* Both rows of an attempt move to a state under the caller's version.
Move(a, expected, state) ==
    /\ attempt' = [attempt EXCEPT ![a] = [@ EXCEPT !.state = state, !.version = expected + 1]]
    /\ job' = [job EXCEPT ![JobOf(a)] = [@ EXCEPT !.state = state, !.version = expected + 1]]

-------------------------------------------------------------------------------
(* Mistakes in the operations, as above. *)

\* Submit, were a key taken only together with its spec.
SpecKeyedSubmit(j, spec, key) ==
    /\ job[j].state = "ABSENT"
    /\ ~ \E k \in Jobs : job[k].state # "ABSENT" /\ job[k].key = key /\ job[k].spec = spec
    /\ job' = [job EXCEPT ![j] = [state |-> "QUEUED", version |-> 0, cancel |-> FALSE,
                                  current |-> None, spec |-> spec, key |-> key,
                                  submitted |-> now]]
    /\ UNCHANGED <<attempt, runtime, schedule, failure, indexed, progress, now>>

\* RequestRetry, were a live job accepted.
ImpatientRequestRetry(j) ==
    /\ job[j].state \in {"FAILED", "INTERRUPTED"} \cup Live
    /\ job' = [job EXCEPT ![j] = [@ EXCEPT !.state = "QUEUED", !.version = job[j].version + 1,
                                           !.cancel = FALSE, !.current = None]]
    /\ schedule' = [schedule EXCEPT ![j] = NoSchedule]
    /\ UNCHANGED <<attempt, runtime, failure, indexed, progress, now>>

\* RecordProgress, were a repeated or late frame appended too.
UnorderedRecordProgress(a, expected, s, sequence) ==
    /\ RequireCurrent(a, expected)
    /\ attempt[a].state = "RUNNING"
    /\ runtime[a].supervisor = s
    /\ progress' = [progress EXCEPT ![a] =
                        Append(IF Len(@) < ProgressKept THEN @ ELSE Tail(@), sequence)]
    /\ UNCHANGED <<job, attempt, runtime, schedule, failure, indexed, now>>

\* Transition, were CANCELLED accepted without a cancel request.
UnaskedTransition(a, expected, state) ==
    /\ state # "SUCCEEDED"
    /\ RequireCurrent(a, expected)
    /\ state \in LegalNext(attempt[a].state)
    /\ Move(a, expected, state)
    /\ runtime' = IF state \in Terminal THEN [runtime EXCEPT ![a] = NoRuntime] ELSE runtime
    /\ UNCHANGED <<schedule, failure, indexed, progress, now>>

\* CompleteVerified, were a pending cancel request ignored.
DeafCompleteVerified(a, expected, receipt) ==
    /\ receipt.attempt = a
    /\ RequireCurrent(a, expected)
    /\ "SUCCEEDED" \in LegalNext(attempt[a].state)
    /\ receipt.spec = job[JobOf(a)].spec
    /\ Move(a, expected, "SUCCEEDED")
    /\ indexed' = [indexed EXCEPT ![a] = receipt.spec]
    /\ runtime' = [runtime EXCEPT ![a] = NoRuntime]
    /\ UNCHANGED <<schedule, failure, progress, now>>

\* CompleteVerified, were the receipt's spec not compared with the job's.
CredulousCompleteVerified(a, expected, receipt) ==
    /\ receipt.attempt = a
    /\ RequireCurrent(a, expected)
    /\ "SUCCEEDED" \in LegalNext(attempt[a].state)
    /\ ~job[JobOf(a)].cancel
    /\ Move(a, expected, "SUCCEEDED")
    /\ indexed' = [indexed EXCEPT ![a] = receipt.spec]
    /\ runtime' = [runtime EXCEPT ![a] = NoRuntime]
    /\ UNCHANGED <<schedule, failure, progress, now>>

\* FinishForGood, were the process lease left behind.
LitteringFinishForGood(a, expected, kind) ==
    /\ RequireCurrent(a, expected)
    /\ attempt[a].state \in Live
    /\ Move(a, expected, IF kind = "ORPHANED" THEN "INTERRUPTED" ELSE "FAILED")
    /\ failure' = [failure EXCEPT ![a] = [kind |-> kind, retry |-> FALSE, retryAt |-> 0]]
    /\ UNCHANGED <<runtime, schedule, indexed, progress, now>>

-------------------------------------------------------------------------------
(* Client operations. *)

\* submit: a fresh job unless (command_type, idempotency_key) is taken; then
\* the code returns the stored job or raises IdempotencyConflictError.
Submit(j, spec, key) ==
    /\ job[j].state = "ABSENT"
    /\ ~ \E k \in Jobs : /\ job[k].state # "ABSENT"
                         /\ job[k].key = key
                         /\ TypeOf[job[k].spec] = TypeOf[spec]
    /\ job' = [job EXCEPT ![j] = [state |-> "QUEUED", version |-> 0, cancel |-> FALSE,
                                  current |-> None, spec |-> spec, key |-> key,
                                  submitted |-> now]]
    /\ UNCHANGED <<attempt, runtime, schedule, failure, indexed, progress, now>>

\* request_cancel on a queued job ends it; on a live one it only sets the flag.
CancelQueued(j) ==
    /\ job[j].state = "QUEUED"
    /\ ~job[j].cancel
    /\ job' = [job EXCEPT ![j] = [@ EXCEPT !.state = "CANCELLED", !.cancel = TRUE,
                                           !.version = job[j].version + 1]]
    /\ schedule' = [schedule EXCEPT ![j] = NoSchedule]
    /\ UNCHANGED <<attempt, runtime, failure, indexed, progress, now>>

CancelLive(j) ==
    /\ job[j].state \in Live
    /\ ~job[j].cancel
    /\ job' = [job EXCEPT ![j].cancel = TRUE]
    /\ UNCHANGED <<attempt, runtime, schedule, failure, indexed, progress, now>>

RequestCancel(j) == CancelQueued(j) \/ CancelLive(j)

RequestRetry(j) ==
    /\ job[j].state \in {"FAILED", "INTERRUPTED"}
    /\ job' = [job EXCEPT ![j] = [@ EXCEPT !.state = "QUEUED", !.version = job[j].version + 1,
                                           !.cancel = FALSE, !.current = None]]
    /\ schedule' = [schedule EXCEPT ![j] = NoSchedule]
    /\ UNCHANGED <<attempt, runtime, failure, indexed, progress, now>>

-------------------------------------------------------------------------------
(* Supervisor operations. *)

\* claim_next_for_types: the oldest claimable job; equal submission times are
\* ordered by the random job id, so any of the oldest.
Claim(s, types, t, j, a) ==
    /\ Claimable(j, types, t)
    /\ \A k \in Jobs : Claimable(k, types, t) => job[j].submitted <= job[k].submitted
    /\ attempt[a].state = "ABSENT"
    /\ attempt' = [attempt EXCEPT ![a] = [state |-> "STARTING", version |-> job[j].version + 1,
                                          job |-> j, number |-> NextNumber(j),
                                          supervisor |-> s, created |-> t]]
    /\ job' = [job EXCEPT ![j] = [@ EXCEPT !.state = "STARTING", !.version = job[j].version + 1,
                                           !.current = a]]
    /\ schedule' = [schedule EXCEPT ![j] = NoSchedule]
    /\ UNCHANGED <<runtime, failure, indexed, progress, now>>

\* register_process: the process identity and lease are stored and the attempt
\* starts to run, unless a cancel came first.
RegisterProcess(a, expected, s, t) ==
    /\ RequireCurrent(a, expected)
    /\ attempt[a].state = "STARTING"
    /\ attempt[a].supervisor = s
    /\ ~job[JobOf(a)].cancel
    /\ runtime' = [runtime EXCEPT ![a] = [supervisor |-> s, lease |-> t + LeaseDuration,
                                          deadline |-> t + Timeout]]
    /\ Move(a, expected, "RUNNING")
    /\ UNCHANGED <<schedule, failure, indexed, progress, now>>

Heartbeat(a, expected, s, t) ==
    /\ RequireCurrent(a, expected)
    /\ attempt[a].state = "RUNNING"
    /\ runtime[a].supervisor = s
    /\ runtime' = [runtime EXCEPT ![a].lease = t + LeaseDuration]
    /\ UNCHANGED <<job, attempt, schedule, failure, indexed, progress, now>>

\* record_progress: a newer frame is appended and the oldest beyond the bound
\* is pruned.
RecordProgress(a, expected, s, sequence) ==
    /\ RequireCurrent(a, expected)
    /\ attempt[a].state = "RUNNING"
    /\ runtime[a].supervisor = s
    /\ progress[a] # <<>> => sequence > progress[a][Len(progress[a])]
    /\ progress' = [progress EXCEPT ![a] =
                        Append(IF Len(@) < ProgressKept THEN @ ELSE Tail(@), sequence)]
    /\ UNCHANGED <<job, attempt, runtime, schedule, failure, indexed, now>>

\* transition: the raw move of the port; SUCCEEDED is refused here.
Transition(a, expected, state) ==
    /\ state # "SUCCEEDED"
    /\ RequireCurrent(a, expected)
    /\ state \in LegalNext(attempt[a].state)
    /\ state = "CANCELLED" => job[JobOf(a)].cancel
    /\ Move(a, expected, state)
    /\ runtime' = IF state \in Terminal THEN [runtime EXCEPT ![a] = NoRuntime] ELSE runtime
    /\ UNCHANGED <<schedule, failure, indexed, progress, now>>

\* finish_cancelled: the same move, to CANCELLED only; Next has it as the
\* CANCELLED case of Transition.
FinishCancelled(a, expected) == Transition(a, expected, "CANCELLED")

\* complete_verified: success needs a receipt of this very attempt for the
\* job's exact spec, and no cancel request.
CompleteVerified(a, expected, receipt) ==
    /\ receipt.attempt = a
    /\ RequireCurrent(a, expected)
    /\ "SUCCEEDED" \in LegalNext(attempt[a].state)
    /\ ~job[JobOf(a)].cancel
    /\ receipt.spec = job[JobOf(a)].spec
    /\ Move(a, expected, "SUCCEEDED")
    /\ indexed' = [indexed EXCEPT ![a] = receipt.spec]
    /\ runtime' = [runtime EXCEPT ![a] = NoRuntime]
    /\ UNCHANGED <<schedule, failure, progress, now>>

\* UnsuccessfulState, were a pending cancel request not looked at.
DeafUnsuccessfulState(a, kind) == IF kind = "ORPHANED" THEN "INTERRUPTED" ELSE "FAILED"

\* The state finish_unsuccessful gives the attempt.
UnsuccessfulState(a, kind) ==
    IF job[JobOf(a)].cancel THEN "CANCELLED"
    ELSE IF kind = "ORPHANED" THEN "INTERRUPTED" ELSE "FAILED"

\* finish_unsuccessful without a retry, or with the retry a cancel request
\* annuls: attempt and job end together.
FinishForGood(a, expected, kind) ==
    /\ RequireCurrent(a, expected)
    /\ attempt[a].state \in Live
    /\ Move(a, expected, UnsuccessfulState(a, kind))
    /\ runtime' = [runtime EXCEPT ![a] = NoRuntime]
    /\ failure' = [failure EXCEPT ![a] = [kind |-> kind, retry |-> FALSE, retryAt |-> 0]]
    /\ UNCHANGED <<schedule, indexed, progress, now>>

\* finish_unsuccessful with a retry: the attempt ends, the job is queued again
\* behind a backoff in the same transaction.
FinishAndRequeue(a, expected, kind, retryAt) ==
    /\ RequireCurrent(a, expected)
    /\ attempt[a].state \in Live
    /\ ~job[JobOf(a)].cancel
    /\ attempt' = [attempt EXCEPT ![a] = [@ EXCEPT !.state = UnsuccessfulState(a, kind),
                                                   !.version = expected + 1]]
    /\ job' = [job EXCEPT ![JobOf(a)] = [@ EXCEPT !.state = "QUEUED",
                                                  !.version = expected + 1,
                                                  !.current = None]]
    /\ runtime' = [runtime EXCEPT ![a] = NoRuntime]
    /\ failure' = [failure EXCEPT ![a] = [kind |-> kind, retry |-> TRUE, retryAt |-> retryAt]]
    /\ schedule' = [schedule EXCEPT ![JobOf(a)] = [previous |-> a, notBefore |-> retryAt]]
    /\ UNCHANGED <<indexed, progress, now>>

\* One call of finish_unsuccessful, asking for a retry at retryAt or for none.
FinishUnsuccessful(a, expected, kind, retry, retryAt) ==
    \/ /\ FinishForGood(a, expected, kind)
       /\ retry => job[JobOf(a)].cancel
    \/ /\ retry
       /\ FinishAndRequeue(a, expected, kind, retryAt)

-------------------------------------------------------------------------------

Tick ==
    /\ now < MaxTime
    /\ now' = now + 1
    /\ UNCHANGED <<job, attempt, runtime, schedule, failure, indexed, progress>>

\* A receipt as the caller may present it: of any attempt, for any spec.
Receipts == [attempt : Attempts, spec : Specs]

ClientNext ==
    \E j \in Jobs :
        \/ \E spec \in Specs, key \in Keys : Submit(j, spec, key)
        \/ RequestCancel(j)
        \/ RequestRetry(j)

ClaimNext ==
    \E s \in Supervisors, types \in SUBSET Types, t \in 0..now, j \in Jobs, a \in Attempts :
        Claim(s, types, t, j, a)

\* What a caller may do with an attempt and a version it was told.
AttemptStep(a, expected) ==
    \/ \E s \in Supervisors, t \in 0..now :
          RegisterProcess(a, expected, s, t) \/ Heartbeat(a, expected, s, t)
    \/ \E s \in Supervisors, n \in 1..MaxSequence : RecordProgress(a, expected, s, n)
    \/ \E state \in {"RUNNING"} \cup Terminal : Transition(a, expected, state)
    \/ \E receipt \in Receipts : CompleteVerified(a, expected, receipt)
    \/ \E kind \in FailureKinds : FinishUnsuccessful(a, expected, kind, FALSE, 0)
    \/ \E kind \in FailureKinds, t \in 0..now, d \in Delays :
          FinishUnsuccessful(a, expected, kind, TRUE, t + d)

AttemptNext ==
    \E a \in Attempts : \E expected \in 0..attempt[a].version : AttemptStep(a, expected)

Next == ClientNext \/ ClaimNext \/ AttemptNext \/ Tick

Spec == Init /\ [][Next]_vars
-------------------------------------------------------------------------------
(* Invariants. *)

\* The pair a compare-and-set relies on: a job that names a current attempt has
\* that attempt's state and version, and exactly the undecided or decided jobs
\* name one.  The code raises QueueCorruptionError when it finds otherwise.
JobMirrorsAttempt ==
    \A j \in Jobs :
        /\ job[j].current # None =>
               /\ attempt[job[j].current].job = j
               /\ attempt[job[j].current].state = job[j].state
               /\ attempt[job[j].current].version = job[j].version
        /\ job[j].state \in Live \cup {"SUCCEEDED", "FAILED", "INTERRUPTED"} =>
               job[j].current # None
        /\ job[j].state \in {"ABSENT", "QUEUED"} => job[j].current = None

\* An attempt that may still act is its job's current one: no job has two live
\* attempts, and a queued or decided job has none.
OneLiveAttempt ==
    \A a \in Attempts : attempt[a].state \in Live => job[JobOf(a)].current = a

\* A success is the current attempt of an uncancelled job, with an indexed
\* receipt for that job's spec; no other attempt has an indexed receipt.
SuccessIsVerified ==
    \A a \in Attempts :
        /\ indexed[a] # None <=> attempt[a].state = "SUCCEEDED"
        /\ attempt[a].state = "SUCCEEDED" =>
               /\ job[JobOf(a)].current = a
               /\ job[JobOf(a)].state = "SUCCEEDED"
               /\ ~job[JobOf(a)].cancel
               /\ indexed[a] = job[JobOf(a)].spec

\* A pending backoff belongs to a queued, uncancelled job and repeats what the
\* failure row of its last attempt says.
RetryScheduleSound ==
    \A j \in Jobs : schedule[j] # NoSchedule =>
        LET p == schedule[j].previous IN
        /\ job[j].state = "QUEUED"
        /\ ~job[j].cancel
        /\ attempt[p].job = j
        /\ \A a \in AttemptsOf(j) : attempt[a].number <= attempt[p].number
        /\ failure[p].retry
        /\ failure[p].retryAt = schedule[j].notBefore

\* Whatever happened in between, the attempt after one that failed with a
\* scheduled retry was not created before the backoff it was given.
BackoffHonoured ==
    \A a, b \in Attempts :
        /\ failure[a].retry
        /\ attempt[b].job = attempt[a].job
        /\ attempt[b].number = attempt[a].number + 1
        => attempt[b].created >= failure[a].retryAt

\* A process lease outlives neither its attempt nor its supervisor's claim.
LeaseOnlyWhileRunning ==
    \A a \in Attempts : runtime[a] # NoRuntime =>
        /\ attempt[a].state = "RUNNING"
        /\ runtime[a].supervisor = attempt[a].supervisor

\* One (command type, idempotency key) names one job, whatever the specs.
OneJobPerKey ==
    \A j, k \in Jobs :
        /\ job[j].state # "ABSENT"
        /\ job[k].state # "ABSENT"
        /\ job[j].key = job[k].key
        /\ TypeOf[job[j].spec] = TypeOf[job[k].spec]
        => j = k

\* Retained progress frames increase and never exceed the retention bound.
ProgressIncreases ==
    \A a \in Attempts :
        /\ Len(progress[a]) <= ProgressKept
        /\ \A m, n \in DOMAIN progress[a] : m < n => progress[a][m] < progress[a][n]

-------------------------------------------------------------------------------
(* Action properties. *)

\* A decided attempt is never written again, by a late or repeated call either,
\* and a succeeded or cancelled job stays as it is.
FinalStep ==
    /\ \A a \in Attempts : attempt[a].state \in Terminal => attempt'[a] = attempt[a]
    /\ \A j \in Jobs : job[j].state \in {"SUCCEEDED", "CANCELLED"} => job'[j] = job[j]
TerminalIsFinal == [][FinalStep]_vars

\* Every change of a job's state uses up its version, so a version a caller
\* remembers never names a second state of the job.
FencedStep ==
    \A j \in Jobs : job[j].state # "ABSENT" /\ job'[j].state # job[j].state =>
        job'[j].version > job[j].version
VersionFence == [][FencedStep]_vars

\* Once a live job is marked for cancellation its attempt can neither succeed
\* nor send the job back to the queue.
WithdrawnStep ==
    \A j \in Jobs : job[j].cancel /\ job[j].state \in Live =>
        /\ job'[j].cancel
        /\ job'[j].state \notin {"SUCCEEDED", "QUEUED"}
        /\ job'[j].current = job[j].current
CancelFence == [][WithdrawnStep]_vars

-------------------------------------------------------------------------------
(* Refinement of JobLifecycle. *)

Phase(j) ==
    CASE job[j].state = "ABSENT" -> "unknown"
      [] job[j].state = "QUEUED" -> "waiting"
      [] job[j].state \in Live -> "active"
      [] job[j].state = "SUCCEEDED" -> "succeeded"
      [] job[j].state \in {"FAILED", "INTERRUPTED"} -> "failed"
      [] job[j].state = "CANCELLED" -> "cancelled"

Lifecycle == INSTANCE JobLifecycle WITH
    status <- [j \in Jobs |-> Phase(j)],
    holder <- [j \in Jobs |-> IF job[j].state \in Live THEN job[j].current ELSE None],
    withdrawn <- [j \in Jobs |-> job[j].cancel],
    spent <- {a \in Attempts : attempt[a].state \in Terminal}

\* The queue, seen through its rows, does only what JobLifecycle allows.
ImplementsLifecycle == Lifecycle!Spec
===============================================================================
