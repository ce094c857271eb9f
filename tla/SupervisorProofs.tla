--------------------------- MODULE SupervisorProofs ---------------------------
(* Theorems about Supervisor, for every value of its constants: any number of *)
(* jobs, attempts, controllers and outages; then what a cancel request does to *)
(* a supervised job, and what the retry policy and the resource budget bound.  *)
EXTENDS Supervisor, JobQueueProofs, FiniteSetTheorems

-------------------------------------------------------------------------------
(* The queue under the supervisor.  What the theorems about JobQueue say is    *)
(* kept by every step the supervised program takes on the queue, though its    *)
(* clock runs on and its backoffs are not among Delays.                        *)

tables == <<job, attempt, runtime, schedule, failure, indexed, progress>>

RequeueNext ==
    \E a \in Attempts : \E expected \in 0..attempt[a].version :
        \E kind \in FailureKinds, retryAt \in Nat : FinishAndRequeue(a, expected, kind, retryAt)

QueueStep ==
    \/ ClientNext
    \/ ClaimNext
    \/ AttemptNext
    \/ RequeueNext
    \/ UNCHANGED tables /\ now' \in Nat

LEMMA QueueStepShape == ASSUME QueueStep PROVE StepShape
  <1>1. CASE ClientNext \/ ClaimNext \/ AttemptNext
    BY <1>1, StepHasShape DEF Next
  <1>2. CASE RequeueNext
    BY <1>2 DEF RequeueNext, StepShape
  <1>3. CASE UNCHANGED tables
    BY <1>3 DEF tables, StepShape
  <1> QED BY <1>1, <1>2, <1>3 DEF QueueStep

LEMMA QueueStepKeeps == ASSUME BInv, QueueStep PROVE BInv'
  <1>1. CASE ClientNext \/ ClaimNext \/ AttemptNext
    BY <1>1, BackoffStep DEF Next
  <1>2. ASSUME NEW a \in Attempts, NEW expected \in 0..attempt[a].version,
               NEW kind \in FailureKinds, NEW retryAt \in Nat,
               FinishAndRequeue(a, expected, kind, retryAt)
        PROVE  BInv'
    <2>1. QInv /\ TInv
      BY DEF BInv, QInv
    <2>2. QInv'
      BY <1>2, <2>1, RequeueTypes, RequeueKeepsCore DEF QInv
    <2> QED BY <1>2, <2>2, RequeueBackoff DEF BInv
  <1>3. CASE UNCHANGED tables /\ now' \in Nat
    <2>1. /\ job' = job /\ attempt' = attempt /\ runtime' = runtime /\ schedule' = schedule
          /\ failure' = failure /\ indexed' = indexed /\ progress' = progress
      BY <1>3 DEF tables
    <2>2. TInv'
      BY <1>3, <2>1, TablesKeepTInv DEF BInv, QInv, TInv, TypeOK
    <2>3. JobMirrorsAttempt' /\ OneLiveAttempt' /\ SuccessIsVerified'
      BY <2>1 DEF BInv, QInv, JobMirrorsAttempt, OneLiveAttempt, SuccessIsVerified, JobOf
    <2>4. FinalStep
      BY <2>1 DEF FinalStep
    <2> QED BY <2>1, <2>2, <2>3, <2>4, ClientBackoff DEF BInv, QInv
  <1> QED BY <1>1, <1>2, <1>3 DEF QueueStep, RequeueNext

-------------------------------------------------------------------------------
(* Rows of live attempts.                                                      *)

\* A stored attempt was claimed: its version and its number are positive.  A
\* stored job was submitted: it has a spec.
Claimed ==
    /\ \A a \in Attempts : attempt[a].job \in Jobs =>
           attempt[a].version \in Nat \ {0} /\ attempt[a].number \in Nat \ {0}
    /\ \A j \in Jobs : job[j].state # "ABSENT" => job[j].spec \in Specs

\* A running attempt has a lease, and only a running one has.
RuntimeRows ==
    \A a \in Attempts :
        /\ attempt[a].state = "RUNNING" => runtime[a] # NoRuntime
        /\ runtime[a] # NoRuntime =>
               /\ attempt[a].state = "RUNNING"
               /\ runtime[a].supervisor = attempt[a].supervisor

\* A step leaves an attempt and its lease, and its job names it as before.
RowsKept(b) ==
    /\ attempt'[b] = attempt[b]
    /\ runtime'[b] = runtime[b]
    /\ job'[JobOf(b)].current = job[JobOf(b)].current
    /\ job'[JobOf(b)].spec = job[JobOf(b)].spec

\* What an end of an attempt leaves behind.
Ended(a) ==
    /\ attempt'[a].state \in Terminal
    /\ runtime'[a] = NoRuntime
    /\ \A b \in Attempts : b # a => attempt'[b] = attempt[b] /\ runtime'[b] = runtime[b]
    /\ \A b \in Attempts : b # a /\ attempt[b].state \in Live => RowsKept(b)

LEMMA CurrentRows ==
    ASSUME QInv, NEW a \in Attempts, attempt[a].state \in Live
    PROVE  /\ JobOf(a) \in Jobs
           /\ job[JobOf(a)].current = a
           /\ job[JobOf(a)].state = attempt[a].state
           /\ job[JobOf(a)].version = attempt[a].version
           /\ attempt[a].version \in Nat
           /\ RequireCurrent(a, attempt[a].version)
           /\ \A b \in Attempts : b # a /\ attempt[b].state \in Live => JobOf(b) # JobOf(a)
  <1>1. JobOf(a) \in Jobs /\ job[JobOf(a)].current = a
    BY DEF QInv, TInv, AttemptHasJob, OneLiveAttempt, Live, JobOf
  <1>2. a # None
    BY QueueAssumption
  <1>3. job[JobOf(a)].state = attempt[a].state /\ job[JobOf(a)].version = attempt[a].version
    BY <1>1, <1>2 DEF QInv, JobMirrorsAttempt
  <1>4. attempt[a].version \in Nat
    BY DEF QInv, TInv, TypeOK, AttemptRow
  <1> QED BY <1>1, <1>3, <1>4 DEF QInv, OneLiveAttempt, RequireCurrent, Live

LEMMA ClientRowsKept ==
    ASSUME QInv, ClientNext
    PROVE  /\ attempt' = attempt /\ runtime' = runtime
           /\ \A b \in Attempts : attempt[b].state \in Live => RowsKept(b)
  <1>0. attempt' = attempt /\ runtime' = runtime
    BY DEF ClientNext, Submit, RequestCancel, CancelQueued, CancelLive, RequestRetry
  <1> PICK j \in Jobs : \/ \E spec \in Specs, key \in Keys : Submit(j, spec, key)
                        \/ RequestCancel(j)
                        \/ RequestRetry(j)
    BY DEF ClientNext
  <1>1. TInv
    BY DEF QInv
  <1>2. \A k \in Jobs : k # j => job'[k] = job[k]
    BY <1>1, SubmitRows, CancelRows, RetryRows
  <1>3. job[j].state \in Live =>
            job'[j].current = job[j].current /\ job'[j].spec = job[j].spec
    BY <1>1, SubmitRows, CancelRows DEF RequestRetry, Live
  <1> QED BY <1>0, <1>2, <1>3, CurrentRows DEF RowsKept

LEMMA ClaimRowsKept ==
    ASSUME QInv, NEW lane, NEW j \in Jobs, NEW a \in Attempts,
           Claim(me, LaneTypes(lane), seen, j, a)
    PROVE  /\ attempt[a].state = "ABSENT" /\ JobOf(a) \notin Jobs
           /\ attempt'[a].state = "STARTING" /\ attempt'[a].supervisor = me
           /\ attempt'[a].version = job[j].version + 1 /\ attempt'[a].job = j
           /\ attempt'[a].number = NextNumber(j)
           /\ job'[j].current = a
           /\ runtime' = runtime
           /\ job'[j].spec = job[j].spec /\ TypeOf[job[j].spec] \in LaneTypes(lane)
           /\ \A b \in Attempts : b # a => attempt'[b] = attempt[b]
           /\ \A b \in Attempts : attempt[b].state \in Live => RowsKept(b)
  <1>1. TInv /\ attempt[a].state = "ABSENT" /\ job[j].state = "QUEUED" /\ runtime' = runtime
    BY DEF QInv, Claim, Claimable
  <1>2. JobOf(a) \notin Jobs /\ TypeOf[job[j].spec] \in LaneTypes(lane)
    BY <1>1 DEF TInv, AttemptHasJob, JobOf, Claim, Claimable
  <1>3. /\ attempt'[a].supervisor = me /\ attempt'[a].number = NextNumber(j)
        /\ job'[j].spec = job[j].spec
    BY <1>1 DEF TInv, TypeOK, JobRow, Claim
  <1>4. /\ \A k \in Jobs : k # j => job'[k] = job[k]
        /\ \A b \in Attempts : b # a => attempt'[b] = attempt[b]
        /\ attempt'[a].state = "STARTING" /\ attempt'[a].version = job[j].version + 1
        /\ attempt'[a].job = j /\ job'[j].current = a
    BY <1>1 DEF TInv, TypeOK, JobRow, AttemptRow, Claim
  <1>5. ASSUME NEW b \in Attempts, attempt[b].state \in Live PROVE RowsKept(b)
    <2>1. JobOf(b) \in Jobs /\ job[JobOf(b)].state \in Live /\ b # a
      BY <1>1, <1>5, CurrentRows DEF Live
    <2>2. JobOf(b) # j
      BY <1>1, <2>1 DEF Live
    <2> QED BY <1>1, <1>4, <2>1, <2>2 DEF RowsKept
  <1> QED BY <1>1, <1>2, <1>3, <1>4, <1>5

\* The ways an attempt ends.
LEMMA MoveEnds ==
    ASSUME QInv, NEW a \in Attempts, NEW expected \in 0..attempt[a].version,
           NEW state \in Terminal, MoveStep(a, expected, state),
           runtime' = [runtime EXCEPT ![a] = NoRuntime]
    PROVE  Ended(a)
  <1>1. /\ JobOf(a) \in Jobs /\ attempt[a].state \in Live
        /\ \A k \in Jobs : k # JobOf(a) => job'[k] = job[k]
        /\ \A b \in Attempts : b # a => attempt'[b] = attempt[b]
        /\ attempt'[a].state = state
    BY MoveStepRows DEF MoveStep
  <1>2. runtime'[a] = NoRuntime /\ \A b \in Attempts : b # a => runtime'[b] = runtime[b]
    BY DEF QInv, TInv, TypeOK
  <1> QED BY <1>1, <1>2, CurrentRows DEF Ended, RowsKept

LEMMA RequeueEnds ==
    ASSUME QInv, NEW a \in Attempts, NEW expected \in 0..attempt[a].version,
           NEW kind \in FailureKinds, NEW retryAt, FinishAndRequeue(a, expected, kind, retryAt)
    PROVE  Ended(a)
  <1>1. /\ JobOf(a) \in Jobs /\ attempt[a].state \in Live
        /\ \A k \in Jobs : k # JobOf(a) => job'[k] = job[k]
        /\ \A b \in Attempts : b # a => attempt'[b] = attempt[b]
        /\ attempt'[a].state \in Terminal
    BY RequeueStepRows
  <1>2. runtime'[a] = NoRuntime /\ \A b \in Attempts : b # a => runtime'[b] = runtime[b]
    BY DEF QInv, TInv, TypeOK, FinishAndRequeue
  <1> QED BY <1>1, <1>2, CurrentRows DEF Ended, RowsKept

-------------------------------------------------------------------------------
(* The controller.  Its memory is true of the queue only because it is true at *)
(* every point where it may stand between two transactions, so the inductive   *)
(* invariant follows it from step to step.                                     *)

\* Where the controller may stand.
PlanShape ==
    /\ phase # "down" => me \in Supervisors
    /\ phase = "down" => plan = Idle /\ Known = {}
    /\ plan.do \in {"idle", "visit"} => plan \in {Idle, Visiting}
    /\ plan.do \notin {"idle", "visit"} => plan.attempt \in Known
    /\ plan.do = "kill" => plan.why \in FailureKinds \cup {"RECEIPT", "CANCEL"}
    /\ plan.do = "fail" => plan.why \in FailureKinds
    /\ plan.do \in {"reserve", "spawn", "register"} => phase = "serving"
    /\ todo \subseteq Known
    /\ seen <= now

\* Recovery works through records that repeat the rows, and shutdown only
\* through registered ones.
BoundaryRecords ==
    /\ phase = "reconciling" => /\ reserved = {}
                                /\ Known \subseteq todo
                                /\ \A a \in Known : held[a] = Record(a)
    /\ phase = "stopping" => Known \subseteq Active

\* An attempt on its way from the claim to its registration.
StartsFresh ==
    plan.do \in {"reserve", "spawn", "register"} =>
        /\ attempt[plan.attempt].state = "STARTING"
        /\ held[plan.attempt].deadline = 0
        /\ held[plan.attempt].handle <=> plan.do = "register"

\* While it serves, the controller remembers every live attempt; all but the
\* one it is about are supervised, and the supervised ones have reservations.
Bookkeeping ==
    /\ phase \in {"reconciling", "serving"} =>
           \A a \in Attempts : attempt[a].state \in Live => a \in Known
    /\ phase = "serving" =>
           /\ \A a \in Attempts \ {plan.attempt} :
                  (a \in Known <=> a \in Active) /\ (a \in reserved <=> a \in Active)
           /\ plan.do \notin {"idle", "visit", "reserve"} => plan.attempt \in reserved

\* A child that runs is registered, or is one the controller holds a handle of
\* to end it by; where the controller records an end, the child has ended.
ChildrenHeld ==
    /\ \A a \in Attempts \ lost : process[a] = "running" =>
           /\ attempt[a].state = "RUNNING" \/ (a \in Known /\ held[a].handle)
           /\ a \in Known => held[a].handle
    /\ plan.do \in {"complete", "cancel", "fail"} =>
           process[plan.attempt] # "running" \/ plan.attempt \in lost

SInv ==
    /\ SupervisorTypeOK
    /\ BInv
    /\ Claimed
    /\ RuntimeRows
    /\ MemoryMatchesQueue
    /\ PlanShape
    /\ BoundaryRecords
    /\ StartsFresh
    /\ Bookkeeping
    /\ ChildrenHeld

LEMMA FirstNumber ==
    ASSUME TypeOK, NumbersHaveMax, NEW j \in Jobs
    PROVE  NextNumber(j) \in Nat \ {0}
  <1> DEFINE max == CHOOSE n \in Numbers(j) : \A m \in Numbers(j) : m <= n
  <1>1. \E n \in Numbers(j) : \A m \in Numbers(j) : m <= n
    BY DEF NumbersHaveMax
  <1>2. max \in Nat
    BY <1>1, NumbersAreNaturals
  <1>3. NextNumber(j) = 1 + max
    BY DEF NextNumber
  <1> HIDE DEF max
  <1> QED BY <1>2, <1>3

LEMMA ClaimedKept == ASSUME BInv, Claimed, QueueStep PROVE Claimed'
  <1> DEFINE Numbered == \A a \in Attempts : attempt[a].job \in Jobs =>
                             attempt[a].version \in Nat \ {0} /\ attempt[a].number \in Nat \ {0}
             HasSpec == \A j \in Jobs : job[j].state # "ABSENT" => job[j].spec \in Specs
  <1>0. TInv /\ TypeOK /\ NumbersHaveMax
    BY DEF BInv, QInv, TInv
  <1>q. QInv
    BY DEF BInv
  <1>1. Numbered /\ HasSpec
    BY DEF Claimed
  <1>2. StepShape
    BY QueueStepShape
  <1>3. Numbered'
    <2>1. CASE attempt' = attempt
      BY <1>1, <2>1
    <2>2. ASSUME NEW s \in Supervisors, NEW types \in SUBSET Types, NEW t \in 0..now,
                 NEW j \in Jobs, NEW a \in Attempts,
                 Claim(s, types, t, j, a)
          PROVE  Numbered'
      <3>1. /\ attempt'[a].version = job[j].version + 1
            /\ attempt'[a].number = NextNumber(j)
            /\ \A b \in Attempts : b # a => attempt'[b] = attempt[b]
        BY <1>0, <2>2 DEF Claim, TypeOK, JobRow, AttemptRow
      <3>2. NextNumber(j) \in Nat \ {0} /\ job[j].version \in Nat
        BY <1>0, FirstNumber DEF TypeOK, JobRow
      <3> QED BY <1>1, <3>1, <3>2
    <2>3. ASSUME NEW a \in Attempts, NEW expected \in 0..attempt[a].version,
                 NEW state, attempt' = [attempt EXCEPT ![a] = [@ EXCEPT !.state = state,
                                                                        !.version = expected + 1]]
          PROVE  Numbered'
      <3>1. /\ attempt'[a].version = expected + 1 /\ attempt'[a].number = attempt[a].number
            /\ attempt'[a].job = attempt[a].job
            /\ \A b \in Attempts : b # a => attempt'[b] = attempt[b]
        BY <1>0, <2>3 DEF TypeOK, AttemptRow
      <3>2. expected \in Nat
        BY <1>0 DEF TypeOK, AttemptRow
      <3> QED BY <1>1, <3>1, <3>2
    <2> HIDE DEF Numbered
    <2>4. ASSUME NEW a \in Attempts, NEW expected \in 0..attempt[a].version, NEW state,
                 MoveStep(a, expected, state)
          PROVE  Numbered'
      BY <2>3, <2>4 DEF MoveStep, Move
    <2>5. ASSUME NEW a \in Attempts, NEW expected \in 0..attempt[a].version,
                 NEW kind, NEW retryAt, FinishAndRequeue(a, expected, kind, retryAt)
          PROVE  Numbered'
      BY <2>3, <2>5 DEF FinishAndRequeue
    <2>6. CASE attempt' # attempt
      <3>1. \/ \E s \in Supervisors, types \in SUBSET Types, t \in 0..now, j \in Jobs,
                   a \in Attempts : Claim(s, types, t, j, a)
            \/ \E a \in Attempts : \E expected \in 0..attempt[a].version :
                   \/ \E state : MoveStep(a, expected, state)
                   \/ \E kind \in FailureKinds : \E retryAt :
                         FinishAndRequeue(a, expected, kind, retryAt)
        BY <1>2, <2>6 DEF StepShape, Submit, RequestRetry
      <3> QED BY <3>1, <2>2, <2>4, <2>5
    <2> QED BY <2>1, <2>6
  <1>4. HasSpec'
    <2>1. CASE job' = job
      BY <1>1, <2>1
    <2>2. ASSUME NEW j \in Jobs, NEW spec \in Specs, NEW key, Submit(j, spec, key)
          PROVE  HasSpec'
      BY <1>0, <1>1, <2>2 DEF Submit, TypeOK
    <2>3. ASSUME NEW j \in Jobs, job[j].state # "ABSENT", job'[j].spec = job[j].spec,
                 \A k \in Jobs : k # j => job'[k] = job[k]
          PROVE  HasSpec'
      BY <1>1, <2>3
    <2>4. ASSUME NEW j \in Jobs, RequestCancel(j) PROVE HasSpec'
      <3>1. job[j].state # "ABSENT"
        BY <2>4 DEF RequestCancel, CancelQueued, CancelLive, Live
      <3> QED BY <1>0, <2>3, <2>4, <3>1, CancelRows
    <2>5. ASSUME NEW j \in Jobs, RequestRetry(j) PROVE HasSpec'
      <3>1. job[j].state # "ABSENT" /\ job'[j].spec = job[j].spec
        BY <1>0, <2>5 DEF RequestRetry, TypeOK, JobRow
      <3> QED BY <1>0, <2>3, <2>5, <3>1, RetryRows
    <2>6. ASSUME NEW s \in Supervisors, NEW types \in SUBSET Types, NEW t \in 0..now,
                 NEW j \in Jobs, NEW a \in Attempts,
                 Claim(s, types, t, j, a)
          PROVE  HasSpec'
      <3>1. job[j].state # "ABSENT" /\ job'[j].spec = job[j].spec
        BY <1>0, <2>6 DEF Claim, Claimable, TypeOK, JobRow
      <3>2. \A k \in Jobs : k # j => job'[k] = job[k]
        BY <1>0, <2>6 DEF Claim, TypeOK
      <3> HIDE DEF HasSpec
      <3> QED BY <2>3, <3>1, <3>2
    <2>7. ASSUME NEW a \in Attempts, NEW expected \in 0..attempt[a].version, NEW state,
                 MoveStep(a, expected, state)
          PROVE  HasSpec'
      <3>1. /\ JobOf(a) \in Jobs /\ job[JobOf(a)].state \in Live
            /\ \A k \in Jobs : k # JobOf(a) => job'[k] = job[k]
        BY <1>q, <2>7, MoveStepRows DEF MoveStep
      <3>2. job'[JobOf(a)].spec = job[JobOf(a)].spec
        BY <1>0, <2>7, <3>1 DEF MoveStep, Move, TypeOK, JobRow
      <3> HIDE DEF HasSpec
      <3> QED BY <2>3, <3>1, <3>2 DEF Live
    <2>8. ASSUME NEW a \in Attempts, NEW expected \in 0..attempt[a].version,
                 NEW kind \in FailureKinds, NEW retryAt, FinishAndRequeue(a, expected, kind, retryAt)
          PROVE  HasSpec'
      <3>1. /\ JobOf(a) \in Jobs /\ job[JobOf(a)].state \in Live
            /\ \A k \in Jobs : k # JobOf(a) => job'[k] = job[k]
        BY <1>q, <2>8, RequeueStepRows
      <3>2. job'[JobOf(a)].spec = job[JobOf(a)].spec
        BY <1>0, <2>8, <3>1 DEF FinishAndRequeue, TypeOK, JobRow
      <3> HIDE DEF HasSpec
      <3> QED BY <2>3, <3>1, <3>2 DEF Live
    <2> HIDE DEF HasSpec
    <2> QED BY <1>2, <2>1, <2>2, <2>4, <2>5, <2>6, <2>7, <2>8 DEF StepShape
  <1> QED BY <1>3, <1>4 DEF Claimed

-------------------------------------------------------------------------------
(* The calls the controller makes are calls the queue knows, and what they end *)
(* is over.                                                                    *)

LEMMA HeldRows ==
    ASSUME SInv, NEW a \in Known
    PROVE  /\ a \in Attempts /\ a # None
           /\ attempt[a].state \in Live
           /\ JobOf(a) \in Jobs
           /\ job[JobOf(a)].spec \in Specs \cup {None}
           /\ job[JobOf(a)].state = attempt[a].state
           /\ held[a].version = attempt[a].version
           /\ held[a].version \in 0..attempt[a].version
           /\ RequireCurrent(a, held[a].version)
  <1>1. a \in Attempts /\ attempt[a].state \in Live /\ held[a].version = attempt[a].version
    BY DEF SInv, MemoryMatchesQueue, Known
  <1>2. QInv /\ job \in [Jobs -> JobRow]
    BY DEF SInv, BInv, QInv, TInv, TypeOK
  <1>3. /\ JobOf(a) \in Jobs /\ attempt[a].version \in Nat
        /\ job[JobOf(a)].state = attempt[a].state
        /\ RequireCurrent(a, attempt[a].version)
    BY <1>1, <1>2, CurrentRows
  <1> QED BY <1>1, <1>2, <1>3, QueueAssumption DEF JobRow

LEMMA ForGoodEnds ==
    ASSUME SInv, NEW a \in Known, NEW why \in FailureKinds,
           FinishForGood(a, held[a].version, why)
    PROVE  QueueStep /\ Ended(a)
  <1>1. a \in Attempts /\ held[a].version \in 0..attempt[a].version /\ QInv
    BY HeldRows DEF SInv, BInv
  <1>2. QueueStep
    BY <1>1 DEF QueueStep, AttemptNext, AttemptStep, FinishUnsuccessful
  <1>3. UnsuccessfulState(a, why) \in Terminal
    BY <1>1, UnsuccessfulIsTerminal
  <1>4. /\ MoveStep(a, held[a].version, UnsuccessfulState(a, why))
        /\ runtime' = [runtime EXCEPT ![a] = NoRuntime]
    BY <1>3 DEF FinishForGood, MoveStep, UnsuccessfulState
  <1> QED BY <1>1, <1>2, <1>3, <1>4, MoveEnds

LEMMA FailEnds ==
    ASSUME SInv, NEW a \in Known, NEW why \in FailureKinds, Fail(a, why)
    PROVE  QueueStep /\ Ended(a)
  <1>1. /\ a \in Attempts /\ held[a].version \in 0..attempt[a].version /\ QInv
        /\ attempt[a].job \in Jobs
    BY HeldRows DEF SInv, BInv, JobOf
  <1>2. CASE FinishForGood(a, held[a].version, why)
    BY <1>2, ForGoodEnds
  <1>3. CASE /\ MayRetry(a, why)
             /\ FinishAndRequeue(a, held[a].version, why, seen + Backoff(attempt[a].number))
    <2> DEFINE retryAt == seen + Backoff(attempt[a].number)
    <2>1. attempt[a].number \in 1 .. MaxAttempts
      BY <1>1, <1>3, SupervisorAssumption DEF SInv, Claimed, MayRetry
    <2>2. Backoff(attempt[a].number) \in Nat
      BY <2>1, BackoffAssumption
    <2>3. retryAt \in Nat
      BY <2>2 DEF SInv, SupervisorTypeOK
    <2> HIDE DEF retryAt
    <2>4. FinishAndRequeue(a, held[a].version, why, retryAt)
      BY <1>3 DEF retryAt
    <2>5. RequeueNext
      BY <1>1, <2>3, <2>4 DEF RequeueNext
    <2> QED BY <1>1, <2>4, <2>5, RequeueEnds DEF QueueStep
  <1> QED BY <1>2, <1>3 DEF Fail, FinishUnsuccessful

LEMMA CancelEnds ==
    ASSUME SInv, NEW a \in Known, FinishCancelled(a, held[a].version)
    PROVE  QueueStep /\ Ended(a)
  <1>1. a \in Attempts /\ held[a].version \in 0..attempt[a].version /\ QInv
    BY HeldRows DEF SInv, BInv
  <1>2. Transition(a, held[a].version, "CANCELLED") /\ "CANCELLED" \in Terminal
    BY DEF FinishCancelled, Terminal
  <1>3. QueueStep
    BY <1>1, <1>2 DEF QueueStep, AttemptNext, AttemptStep
  <1>4. /\ MoveStep(a, held[a].version, "CANCELLED")
        /\ runtime' = [runtime EXCEPT ![a] = NoRuntime]
    BY <1>2 DEF Transition, MoveStep, LegalNext, Live
  <1> QED BY <1>1, <1>2, <1>3, <1>4, MoveEnds

LEMMA CompleteEnds ==
    ASSUME SInv, NEW a \in Known,
           CompleteVerified(a, held[a].version, [attempt |-> a, spec |-> job[JobOf(a)].spec])
    PROVE  QueueStep /\ Ended(a)
  <1>1. /\ a \in Attempts /\ held[a].version \in 0..attempt[a].version /\ QInv
        /\ JobOf(a) \in Jobs /\ job[JobOf(a)].state \in Live
    BY HeldRows DEF SInv, BInv
  <1>2. job[JobOf(a)].spec \in Specs
    BY <1>1 DEF SInv, Claimed, Live
  <1>3. QueueStep
    BY <1>1, <1>2 DEF QueueStep, AttemptNext, AttemptStep, Receipts
  <1>4. "SUCCEEDED" \in Terminal
    BY DEF Terminal
  <1>5. /\ MoveStep(a, held[a].version, "SUCCEEDED")
        /\ runtime' = [runtime EXCEPT ![a] = NoRuntime]
    BY <1>4 DEF CompleteVerified, MoveStep, LegalNext, Live
  <1> QED BY <1>1, <1>3, <1>4, <1>5, MoveEnds

-------------------------------------------------------------------------------
(* What each step of the controller does to the invariant.                     *)

LEMMA QueueInvariants == ASSUME SInv, QueueStep PROVE BInv' /\ Claimed' /\ TypeOK' /\ QInv'
  BY QueueStepKeeps, ClaimedKept DEF SInv, BInv, QInv, TInv

\* What memory says of an attempt whose rows and record stay is still true.
LEMMA RecordStays ==
    ASSUME SInv, NEW b \in Known, RowsKept(b), held'[b] = held[b], me' = me,
           phase' # "reconciling" => phase # "reconciling"
    PROVE  /\ b \in Known' /\ (b \in Active)' = (b \in Active) /\ Record(b)' = Record(b)
           /\ attempt'[b].state \in Live
           /\ job'[JobOf(b)'].current = b
           /\ held'[b].version = attempt'[b].version
           /\ phase' # "reconciling" => attempt'[b].supervisor = me'
           /\ (b \in Active)' => Record(b)' = held'[b]
  <1>1. /\ attempt[b].state \in Live /\ job[JobOf(b)].current = b
        /\ held[b].version = attempt[b].version
        /\ phase # "reconciling" => attempt[b].supervisor = me
        /\ b \in Active => Record(b) = held[b]
    BY DEF SInv, MemoryMatchesQueue
  <1>2. /\ attempt'[b] = attempt[b] /\ runtime'[b] = runtime[b] /\ JobOf(b)' = JobOf(b)
        /\ job'[JobOf(b)].current = job[JobOf(b)].current
    BY DEF RowsKept, JobOf
  <1>3. Record(b)' = Record(b)
    BY <1>2 DEF Record
  <1>4. b \in Known' /\ (b \in Active)' = (b \in Active)
    BY DEF Known, Active
  <1> QED BY <1>1, <1>2, <1>3, <1>4

LEMMA FinishKeeps ==
    ASSUME SInv, QueueStep, NEW a \in Known, plan.attempt = a, Ended(a), Finished(a),
           UNCHANGED <<host, outages>>, now' = now, phase # "down",
           process[a] # "running" \/ a \in lost
    PROVE  SInv'
  <1>0. /\ SupervisorTypeOK /\ RuntimeRows /\ MemoryMatchesQueue /\ PlanShape
        /\ BoundaryRecords /\ StartsFresh /\ Bookkeeping /\ ChildrenHeld
        /\ a \in Attempts /\ a # None
    BY HeldRows DEF SInv
  <1>1. BInv' /\ Claimed' /\ TypeOK'
    BY QueueInvariants
  <1>2. /\ held' = [held EXCEPT ![a] = NotHeld]
        /\ reserved' = reserved \ {a} /\ todo' = todo \ {a} /\ plan' = Visiting
        /\ phase' = phase /\ me' = me /\ seen' = seen
        /\ process' = process /\ receipt' = receipt /\ lost' = lost /\ outages' = outages
    BY DEF Finished, host
  <1>3. SupervisorTypeOK'
    BY <1>0, <1>1, <1>2 DEF SupervisorTypeOK, Visiting, Steps, Reasons, NotHeld, HeldRow
  <1>4. /\ Known' = Known \ {a} /\ Active' = Active \ {a}
        /\ \A b \in Attempts : b # a => held'[b] = held[b]
    BY <1>0, <1>2 DEF Known, Active, SupervisorTypeOK
  <1>5. /\ attempt'[a].state \in Terminal /\ runtime'[a] = NoRuntime
        /\ \A b \in Attempts : b # a => attempt'[b] = attempt[b] /\ runtime'[b] = runtime[b]
        /\ \A b \in Known' : RowsKept(b)
    BY <1>0, <1>4 DEF Ended, MemoryMatchesQueue, Known
  <1>6. RuntimeRows'
    BY <1>0, <1>5 DEF RuntimeRows, Terminal
  <1>7. \A b \in Known' : /\ b \in Known /\ b \in Attempts /\ held'[b] = held[b]
                          /\ Record(b)' = Record(b)
                          /\ (b \in Active)' = (b \in Active)
    BY <1>2, <1>4, <1>5, RecordStays DEF Known
  <1>8. MemoryMatchesQueue'
    BY <1>2, <1>5, <1>7, RecordStays DEF MemoryMatchesQueue
  <1>9. PlanShape'
    BY <1>0, <1>2, <1>4 DEF PlanShape, Visiting
  <1>10. BoundaryRecords'
    BY <1>0, <1>2, <1>4, <1>7 DEF BoundaryRecords
  <1>11. StartsFresh'
    BY <1>2 DEF StartsFresh, Visiting
  <1>12. Bookkeeping'
    <2>1. \A b \in Attempts : attempt'[b].state \in Live => b # a /\ attempt[b].state \in Live
      BY <1>5 DEF Live, Terminal
    <2>2. plan'.do = "visit" /\ plan'.attempt = None
      BY <1>2 DEF Visiting
    <2> QED BY <1>0, <1>2, <1>4, <2>1, <2>2, QueueAssumption DEF Bookkeeping
  <1>13. ChildrenHeld'
    BY <1>0, <1>2, <1>4, <1>5 DEF ChildrenHeld, Visiting
  <1> QED BY <1>1, <1>3, <1>6, <1>8, <1>9, <1>10, <1>11, <1>12, <1>13 DEF SInv

\* Nothing changes but the place the controller stands at.
LEMMA PlaceKeeps ==
    ASSUME SInv, UNCHANGED <<vars, phase, me, todo, seen, held, reserved, host, outages>>,
           plan' \in [do : Steps, attempt : Attempts \cup {None}, why : Reasons],
           PlanShape', StartsFresh', Bookkeeping', ChildrenHeld'
    PROVE  SInv'
  <1>1. UNCHANGED tables /\ now' = now
    BY DEF vars, tables
  <1>2. BInv' /\ Claimed' /\ TypeOK'
    <2>1. now' \in Nat
      BY <1>1 DEF SInv, SupervisorTypeOK, TypeOK
    <2>2. QueueStep
      BY <1>1, <2>1 DEF QueueStep
    <2> QED BY <2>2, QueueInvariants
  <1>3. SupervisorTypeOK'
    BY <1>2 DEF SInv, SupervisorTypeOK, host
  <1>4. RuntimeRows'
    BY <1>1 DEF SInv, RuntimeRows, tables
  <1>5. MemoryMatchesQueue' /\ BoundaryRecords'
    BY <1>1 DEF SInv, MemoryMatchesQueue, BoundaryRecords, tables, Known, Active, Record, JobOf
  <1> QED BY <1>2, <1>3, <1>4, <1>5 DEF SInv

\* The controller turns to an end of an attempt it visits or works on.
LEMMA GotoKeeps ==
    ASSUME SInv, UNCHANGED <<vars, phase, me, todo, seen, held, reserved, host, outages>>,
           NEW do \in {"kill", "complete", "cancel", "fail"}, NEW a \in Known, NEW why \in Reasons,
           Goto(do, a, why),
           phase # "down",
           plan = Visiting \/ plan.attempt = a,
           phase = "serving" => a \in reserved,
           do = "kill" => why \in FailureKinds \cup {"RECEIPT", "CANCEL"},
           do = "fail" => why \in FailureKinds,
           do # "kill" => process[a] # "running" \/ a \in lost
    PROVE  SInv'
  <1>0. PlanShape /\ Bookkeeping /\ ChildrenHeld /\ a \in Attempts
    BY HeldRows DEF SInv
  <1>1. plan' = [do |-> do, attempt |-> a, why |-> why]
    BY DEF Goto
  <1>2. /\ plan'.do = do /\ plan'.attempt = a /\ plan'.why = why
    BY <1>1
  <1>3. plan' \in [do : Steps, attempt : Attempts \cup {None}, why : Reasons]
    BY <1>0, <1>1 DEF Steps
  <1>4. /\ attempt' = attempt /\ job' = job /\ held' = held /\ Known' = Known /\ Active' = Active
        /\ phase' = phase /\ me' = me /\ todo' = todo /\ seen' = seen /\ now' = now
        /\ reserved' = reserved /\ process' = process /\ lost' = lost
    BY DEF vars, host, Known, Active
  <1>5. PlanShape'
    BY <1>0, <1>2, <1>4 DEF PlanShape
  <1>6. StartsFresh'
    BY <1>2 DEF StartsFresh
  <1>7. Bookkeeping'
    <2>1. plan.attempt \in {a, None}
      BY DEF Visiting
    <2> QED BY <1>0, <1>2, <1>4, <2>1, QueueAssumption DEF Bookkeeping
  <1>8. ChildrenHeld'
    BY <1>0, <1>2, <1>4 DEF ChildrenHeld
  <1> QED BY <1>3, <1>5, <1>6, <1>7, <1>8, PlaceKeeps

\* The controller is done with what it was about and with no attempt.
LEMMA RestKeeps ==
    ASSUME SInv, UNCHANGED <<vars, phase, me, todo, seen, held, reserved, host, outages>>,
           plan = Visiting, plan' = Idle, phase # "down"
    PROVE  SInv'
  <1>0. PlanShape /\ Bookkeeping /\ ChildrenHeld
    BY DEF SInv
  <1>1. plan'.do = "idle" /\ plan'.attempt = None /\ plan.attempt = None
    BY DEF Idle, Visiting
  <1>2. plan' \in [do : Steps, attempt : Attempts \cup {None}, why : Reasons]
    BY DEF Idle, Steps, Reasons
  <1>3. /\ attempt' = attempt /\ job' = job /\ held' = held /\ Known' = Known /\ Active' = Active
        /\ phase' = phase /\ me' = me /\ todo' = todo /\ seen' = seen /\ now' = now
        /\ reserved' = reserved /\ process' = process /\ lost' = lost
    BY DEF vars, host, Known, Active
  <1>4. PlanShape'
    BY <1>0, <1>1, <1>3 DEF PlanShape
  <1>5. StartsFresh'
    BY <1>1 DEF StartsFresh
  <1>6. Bookkeeping'
    BY <1>0, <1>1, <1>3 DEF Bookkeeping
  <1>7. ChildrenHeld'
    BY <1>0, <1>1, <1>3 DEF ChildrenHeld
  <1> QED BY <1>2, <1>4, <1>5, <1>6, <1>7, PlaceKeeps

\* The attempt a step is about is one the controller remembers.
LEMMA PlannedAttempt ==
    ASSUME SInv, plan.do \notin {"idle", "visit"}
    PROVE  plan.attempt \in Known /\ phase # "down"
  <1>1. plan.attempt \in Known
    BY DEF SInv, PlanShape
  <1>2. phase = "down" => plan.do = "idle"
    BY DEF SInv, PlanShape, Idle
  <1> QED BY <1>1, <1>2

LEMMA VisitedAttempt ==
    ASSUME SInv, NEW a \in todo, plan = Visiting
    PROVE  a \in Known /\ phase # "down" /\ (phase = "serving" => a \in reserved /\ a \in Active)
  <1>1. a \in Known /\ a \in Attempts
    BY DEF SInv, PlanShape, Known
  <1>2. phase # "down" /\ a # plan.attempt
    BY <1>1, QueueAssumption DEF SInv, PlanShape, Idle, Visiting
  <1> QED BY <1>1, <1>2 DEF SInv, Bookkeeping

-------------------------------------------------------------------------------
(* One lemma for each action of the controller.                                *)

LEMMA ReconcileVisitKeeps ==
    ASSUME SInv, NEW a \in Attempts, ReconcileVisit(a) PROVE SInv'
  <1> DEFINE why == IF Verified(a) THEN "RECEIPT" ELSE "ORPHANED"
  <1>1. a \in todo /\ plan = Visiting /\ Goto("kill", a, why) /\ phase # "serving"
    BY DEF ReconcileVisit
  <1>2. why \in Reasons /\ why \in FailureKinds \cup {"RECEIPT", "CANCEL"}
    BY QueueAssumption DEF Reasons
  <1>3. UNCHANGED <<vars, phase, me, todo, seen, held, reserved, host, outages>>
    BY DEF ReconcileVisit
  <1> HIDE DEF why
  <1> QED BY <1>1, <1>2, <1>3, VisitedAttempt, GotoKeeps

LEMMA ShutdownVisitKeeps ==
    ASSUME SInv, NEW a \in Attempts, ShutdownVisit(a) PROVE SInv'
  <1> DEFINE why == IF Verified(a) THEN "RECEIPT" ELSE "ORPHANED"
  <1>1. a \in todo /\ plan = Visiting /\ Goto("kill", a, why) /\ phase # "serving"
    BY DEF ShutdownVisit
  <1>2. why \in Reasons /\ why \in FailureKinds \cup {"RECEIPT", "CANCEL"}
    BY QueueAssumption DEF Reasons
  <1>3. UNCHANGED <<vars, phase, me, todo, seen, held, reserved, host, outages>>
    BY DEF ShutdownVisit
  <1> HIDE DEF why
  <1> QED BY <1>1, <1>2, <1>3, VisitedAttempt, GotoKeeps

LEMMA VisitStopsKeeps ==
    ASSUME SInv, NEW a \in Attempts, VisitStops(a) PROVE SInv'
  <1>1. PICK why \in Reasons : StopReason(a, why) /\ Goto("kill", a, why)
    BY DEF VisitStops
  <1>2. why \in FailureKinds \cup {"RECEIPT", "CANCEL"}
    BY <1>1, SupervisorAssumption DEF StopReason
  <1>3. /\ a \in todo /\ plan = Visiting
        /\ UNCHANGED <<vars, phase, me, todo, seen, held, reserved, host, outages>>
    BY DEF VisitStops
  <1> QED BY <1>1, <1>2, <1>3, VisitedAttempt, GotoKeeps

LEMMA VisitProbeFailsKeeps ==
    ASSUME SInv, NEW a \in Attempts, VisitProbeFails(a) PROVE SInv'
  <1>1. PICK why \in {"TRANSIENT", "RESOURCE_EXHAUSTED"} : Goto("kill", a, why)
    BY DEF VisitProbeFails
  <1>2. why \in FailureKinds /\ why \in Reasons
    BY SupervisorAssumption DEF Reasons
  <1>3. /\ a \in todo /\ plan = Visiting
        /\ UNCHANGED <<vars, phase, me, todo, seen, held, reserved, host, outages>>
    BY DEF VisitProbeFails, Probed
  <1> QED BY <1>1, <1>2, <1>3, VisitedAttempt, GotoKeeps

LEMMA VisitExitedKeeps ==
    ASSUME SInv, NEW a \in Attempts, VisitExited(a) PROVE SInv'
  <1>1. /\ a \in todo /\ plan = Visiting
        /\ UNCHANGED <<vars, phase, me, todo, seen, held, reserved, host, outages>>
    BY DEF VisitExited, Probed
  <1>2. PICK do \in {"complete", "fail"}, why \in Reasons :
             /\ Goto(do, a, why) /\ process[a] # "running"
             /\ do = "fail" => why \in FailureKinds
    <2>1. CASE process[a] = "done" /\ Goto("complete", a, "RECEIPT")
      BY <2>1 DEF Reasons
    <2>2. ASSUME process[a] = "failed", NEW why \in ExitKinds, Goto("fail", a, why)
          PROVE  \E do \in {"complete", "fail"}, w \in Reasons :
                    /\ Goto(do, a, w) /\ process[a] # "running"
                    /\ do = "fail" => w \in FailureKinds
      <3>1. why \in FailureKinds /\ why \in Reasons
        BY SupervisorAssumption DEF Reasons
      <3> QED BY <2>2, <3>1
    <2> QED BY <2>1, <2>2 DEF VisitExited
  <1> QED BY <1>1, <1>2, VisitedAttempt, GotoKeeps

LEMMA CompleteWithdrawnKeeps ==
    ASSUME SInv, CompleteWithdrawn PROVE SInv'
  <1>0. plan.do = "complete"
    BY DEF CompleteWithdrawn
  <1> PICK a \in Known : a = plan.attempt
    BY <1>0, PlannedAttempt
  <1>1. /\ Goto("cancel", a, "CANCEL")
        /\ UNCHANGED <<vars, phase, me, todo, seen, held, reserved, host, outages>>
    BY DEF CompleteWithdrawn
  <1>2. /\ process[a] # "running" \/ a \in lost
        /\ phase = "serving" => a \in reserved
    BY <1>0 DEF SInv, ChildrenHeld, Bookkeeping
  <1>3. "CANCEL" \in Reasons
    BY DEF Reasons
  <1> QED BY <1>0, <1>1, <1>2, <1>3, PlannedAttempt, GotoKeeps

LEMMA CompleteInvalidKeeps ==
    ASSUME SInv, CompleteInvalid PROVE SInv'
  <1>0. plan.do = "complete"
    BY DEF CompleteInvalid
  <1> PICK a \in Known : a = plan.attempt
    BY <1>0, PlannedAttempt
  <1> DEFINE why == IF phase = "serving" THEN "COMPLETION_INVALID" ELSE "ORPHANED"
  <1>1. /\ Goto("fail", a, why)
        /\ UNCHANGED <<vars, phase, me, todo, seen, held, reserved, host, outages>>
    BY DEF CompleteInvalid
  <1>2. /\ process[a] # "running" \/ a \in lost
        /\ phase = "serving" => a \in reserved
    BY <1>0 DEF SInv, ChildrenHeld, Bookkeeping
  <1>3. why \in FailureKinds /\ why \in Reasons
    BY SupervisorAssumption, QueueAssumption DEF Reasons
  <1> HIDE DEF why
  <1> QED BY <1>0, <1>1, <1>2, <1>3, PlannedAttempt, GotoKeeps

LEMMA RegisterWithdrawnKeeps ==
    ASSUME SInv, RegisterWithdrawn PROVE SInv'
  <1>0. plan.do = "register"
    BY DEF RegisterWithdrawn
  <1> PICK a \in Known : a = plan.attempt
    BY <1>0, PlannedAttempt
  <1>1. /\ Goto("kill", a, "CANCEL")
        /\ UNCHANGED <<vars, phase, me, todo, seen, held, reserved, host, outages>>
    BY DEF RegisterWithdrawn
  <1>2. phase = "serving" => a \in reserved
    BY <1>0 DEF SInv, Bookkeeping
  <1>3. "CANCEL" \in Reasons
    BY DEF Reasons
  <1> QED BY <1>0, <1>1, <1>2, <1>3, PlannedAttempt, GotoKeeps

\* The steps that end an attempt.
LEMMA CompleteReceiptKeeps ==
    ASSUME SInv, CompleteReceipt PROVE SInv'
  <1>0. plan.do = "complete"
    BY DEF CompleteReceipt
  <1> PICK a \in Known : a = plan.attempt
    BY <1>0, PlannedAttempt
  <1>1. /\ CompleteVerified(a, held[a].version, [attempt |-> a, spec |-> job[JobOf(a)].spec])
        /\ Finished(a) /\ UNCHANGED <<host, outages>>
    BY DEF CompleteReceipt
  <1>2. process[a] # "running" \/ a \in lost
    BY <1>0 DEF SInv, ChildrenHeld
  <1>3. now' = now
    BY <1>1 DEF CompleteVerified
  <1> QED BY <1>0, <1>1, <1>2, <1>3, CompleteEnds, PlannedAttempt, FinishKeeps

LEMMA CancelKeeps ==
    ASSUME SInv, Cancel PROVE SInv'
  <1>0. plan.do = "cancel"
    BY DEF Cancel
  <1> PICK a \in Known : a = plan.attempt
    BY <1>0, PlannedAttempt
  <1>1. FinishCancelled(a, held[a].version) /\ Finished(a) /\ UNCHANGED <<host, outages>>
    BY DEF Cancel
  <1>2. process[a] # "running" \/ a \in lost
    BY <1>0 DEF SInv, ChildrenHeld
  <1>3. now' = now
    BY <1>1 DEF FinishCancelled, Transition
  <1> QED BY <1>0, <1>1, <1>2, <1>3, CancelEnds, PlannedAttempt, FinishKeeps

LEMMA FailClock == ASSUME NEW a, NEW why, Fail(a, why) PROVE now' = now
  BY DEF Fail, FinishUnsuccessful, FinishForGood, FinishAndRequeue

LEMMA RecordFailureKeeps ==
    ASSUME SInv, RecordFailure PROVE SInv'
  <1>0. plan.do = "fail"
    BY DEF RecordFailure
  <1> PICK a \in Known : a = plan.attempt
    BY <1>0, PlannedAttempt
  <1> PICK why \in FailureKinds : why = plan.why
    BY <1>0 DEF SInv, PlanShape
  <1>1. Fail(a, why) /\ Finished(a) /\ UNCHANGED <<host, outages>>
    BY DEF RecordFailure
  <1>2. process[a] # "running" \/ a \in lost
    BY <1>0 DEF SInv, ChildrenHeld
  <1> QED BY <1>0, <1>1, <1>2, FailClock, FailEnds, PlannedAttempt, FinishKeeps

\* An attempt that has no child yet has none that runs.
LEMMA NotYetSpawned ==
    ASSUME SInv, plan.do \in {"reserve", "spawn"}
    PROVE  process[plan.attempt] # "running" \/ plan.attempt \in lost
  <1>1. plan.attempt \in Known /\ ~held[plan.attempt].handle
    BY PlannedAttempt DEF SInv, StartsFresh
  <1> QED BY <1>1 DEF SInv, ChildrenHeld, Known

LEMMA AdmissionLostKeeps ==
    ASSUME SInv, AdmissionLost PROVE SInv'
  <1>0. plan.do = "reserve"
    BY DEF AdmissionLost
  <1> PICK a \in Known : a = plan.attempt
    BY <1>0, PlannedAttempt
  <1>1. Fail(a, "RESOURCE_EXHAUSTED") /\ Finished(a) /\ UNCHANGED <<host, outages>>
    BY DEF AdmissionLost
  <1>2. "RESOURCE_EXHAUSTED" \in FailureKinds
    BY SupervisorAssumption
  <1> QED BY <1>0, <1>1, <1>2, NotYetSpawned, FailClock, FailEnds, PlannedAttempt, FinishKeeps

LEMMA SpawnFailsKeeps ==
    ASSUME SInv, SpawnFails PROVE SInv'
  <1>0. plan.do = "spawn"
    BY DEF SpawnFails
  <1> PICK a \in Known : a = plan.attempt
    BY <1>0, PlannedAttempt
  <1>1. Fail(a, "TRANSIENT") /\ Finished(a) /\ UNCHANGED <<host, outages>>
    BY DEF SpawnFails
  <1>2. "TRANSIENT" \in FailureKinds
    BY SupervisorAssumption
  <1> QED BY <1>0, <1>1, <1>2, NotYetSpawned, FailClock, FailEnds, PlannedAttempt, FinishKeeps

LEMMA SpawnWithdrawnKeeps ==
    ASSUME SInv, SpawnWithdrawn PROVE SInv'
  <1>0. plan.do = "spawn"
    BY DEF SpawnWithdrawn
  <1> PICK a \in Known : a = plan.attempt
    BY <1>0, PlannedAttempt
  <1>1. FinishCancelled(a, held[a].version) /\ Finished(a) /\ UNCHANGED <<host, outages>>
    BY DEF SpawnWithdrawn
  <1>2. now' = now
    BY <1>1 DEF FinishCancelled, Transition
  <1> QED BY <1>0, <1>1, <1>2, NotYetSpawned, CancelEnds, PlannedAttempt, FinishKeeps

\* Steps that leave every row alone.
LEMMA QuietQueue ==
    ASSUME SInv, UNCHANGED vars
    PROVE  /\ BInv' /\ Claimed' /\ TypeOK' /\ RuntimeRows'
           /\ job' = job /\ attempt' = attempt /\ runtime' = runtime /\ now' = now
  <1>1. UNCHANGED tables /\ now' = now /\ job' = job /\ attempt' = attempt /\ runtime' = runtime
    BY DEF vars, tables
  <1>2. now' \in Nat
    BY <1>1 DEF SInv, SupervisorTypeOK, TypeOK
  <1>3. QueueStep
    BY <1>1, <1>2 DEF QueueStep
  <1> QED BY <1>1, <1>3, QueueInvariants DEF SInv, RuntimeRows

LEMMA KillKeeps ==
    ASSUME SInv, Kill PROVE SInv'
  <1>0. plan.do = "kill" /\ PlanShape /\ ChildrenHeld /\ Bookkeeping /\ SupervisorTypeOK
    BY DEF Kill, SInv
  <1> PICK a \in Known : a = plan.attempt
    BY <1>0, PlannedAttempt
  <1>1. /\ a \in Attempts /\ a # None /\ phase # "down" /\ (phase = "serving" => a \in reserved)
    BY <1>0, HeldRows, PlannedAttempt DEF Bookkeeping
  <1> DEFINE do == CASE plan.why = "RECEIPT" -> "complete"
                     [] plan.why = "CANCEL" -> "cancel"
                     [] OTHER -> "fail"
  <1>2. /\ process' = IF held[a].handle THEN [process EXCEPT ![a] = "dead"] ELSE process
        /\ Goto(do, a, plan.why)
        /\ UNCHANGED <<vars, phase, me, todo, seen, held, reserved, receipt, lost, outages>>
    BY DEF Kill
  <1>3. do \in {"complete", "cancel", "fail"} /\ (do = "fail" => plan.why \in FailureKinds)
    BY <1>0 DEF PlanShape
  <1> HIDE DEF do
  <1>4. /\ plan'.do = do /\ plan'.attempt = a /\ plan'.why = plan.why
        /\ plan' \in [do : Steps, attempt : Attempts \cup {None}, why : Reasons]
    BY <1>0, <1>1, <1>2, <1>3 DEF Goto, SupervisorTypeOK, Steps
  <1>5. /\ BInv' /\ Claimed' /\ TypeOK' /\ RuntimeRows'
        /\ job' = job /\ attempt' = attempt /\ runtime' = runtime /\ now' = now
    BY <1>2, QuietQueue
  <1>6. /\ held' = held /\ Known' = Known /\ Active' = Active /\ phase' = phase /\ me' = me
        /\ todo' = todo /\ seen' = seen /\ reserved' = reserved /\ lost' = lost
    BY <1>2 DEF Known, Active
  <1>7. SupervisorTypeOK'
    BY <1>0, <1>2, <1>4, <1>5 DEF SupervisorTypeOK
  <1>8. MemoryMatchesQueue' /\ BoundaryRecords'
    BY <1>5, <1>6 DEF SInv, MemoryMatchesQueue, BoundaryRecords, Record, JobOf
  <1>9. PlanShape'
    BY <1>0, <1>3, <1>4, <1>5, <1>6 DEF PlanShape
  <1>10. StartsFresh'
    BY <1>3, <1>4 DEF StartsFresh
  <1>11. Bookkeeping'
    BY <1>0, <1>1, <1>3, <1>4, <1>5, <1>6 DEF Bookkeeping
  <1>12. ChildrenHeld'
    <2>1. process'[a] # "running" \/ a \in lost
      BY <1>0, <1>1, <1>2 DEF ChildrenHeld, SupervisorTypeOK
    <2>2. \A b \in Attempts : b # a => process'[b] = process[b]
      BY <1>0, <1>1, <1>2 DEF SupervisorTypeOK
    <2> QED BY <1>0, <1>4, <1>5, <1>6, <2>1, <2>2 DEF ChildrenHeld
  <1> QED BY <1>5, <1>7, <1>8, <1>9, <1>10, <1>11, <1>12 DEF SInv

LEMMA VisitContinuesKeeps ==
    ASSUME SInv, NEW a \in Attempts, VisitContinues(a) PROVE SInv'
  <1>1. /\ todo' = todo \ {a} /\ phase = "serving"
        /\ UNCHANGED <<vars, phase, me, plan, seen, held, reserved, host, outages>>
    BY DEF VisitContinues, Probed
  <1>2. /\ BInv' /\ Claimed' /\ TypeOK' /\ RuntimeRows'
        /\ job' = job /\ attempt' = attempt /\ runtime' = runtime /\ now' = now
    BY <1>1, QuietQueue
  <1>3. /\ held' = held /\ Known' = Known /\ Active' = Active /\ phase' = phase /\ me' = me
        /\ seen' = seen /\ reserved' = reserved /\ lost' = lost /\ process' = process /\ plan' = plan
        /\ receipt' = receipt /\ outages' = outages
    BY <1>1 DEF Known, Active, host
  <1>4. SupervisorTypeOK'
    BY <1>1, <1>2, <1>3 DEF SInv, SupervisorTypeOK
  <1>5. MemoryMatchesQueue' /\ BoundaryRecords'
    BY <1>1, <1>2, <1>3 DEF SInv, MemoryMatchesQueue, BoundaryRecords, Record, JobOf
  <1>6. PlanShape' /\ StartsFresh' /\ Bookkeeping' /\ ChildrenHeld'
    BY <1>1, <1>2, <1>3 DEF SInv, PlanShape, StartsFresh, Bookkeeping, ChildrenHeld
  <1> QED BY <1>2, <1>4, <1>5, <1>6 DEF SInv

LEMMA BeginCycleKeeps ==
    ASSUME SInv, BeginCycle PROVE SInv'
  <1>1. /\ todo' = Active /\ phase = "serving" /\ plan = Idle /\ plan' = Visiting /\ seen' = now
        /\ UNCHANGED <<vars, phase, me, held, reserved, host, outages>>
    BY DEF BeginCycle
  <1>2. /\ BInv' /\ Claimed' /\ TypeOK' /\ RuntimeRows'
        /\ job' = job /\ attempt' = attempt /\ runtime' = runtime /\ now' = now
    BY <1>1, QuietQueue
  <1>3. /\ held' = held /\ Known' = Known /\ Active' = Active /\ phase' = phase /\ me' = me
        /\ reserved' = reserved /\ lost' = lost /\ process' = process
        /\ receipt' = receipt /\ outages' = outages
        /\ plan'.do = "visit" /\ plan'.attempt = None /\ plan.attempt = None
    BY <1>1 DEF Known, Active, host, Idle, Visiting
  <1>4. now \in Nat /\ Active \subseteq Known /\ Active \subseteq Attempts
    BY DEF SInv, SupervisorTypeOK, TypeOK, Active, Known
  <1>5. SupervisorTypeOK'
    BY <1>1, <1>2, <1>3, <1>4 DEF SInv, SupervisorTypeOK, Visiting, Steps, Reasons
  <1>6. MemoryMatchesQueue' /\ BoundaryRecords'
    BY <1>1, <1>2, <1>3 DEF SInv, MemoryMatchesQueue, BoundaryRecords, Record, JobOf
  <1>7. PlanShape'
    BY <1>1, <1>2, <1>3, <1>4 DEF SInv, PlanShape
  <1>8. StartsFresh' /\ Bookkeeping' /\ ChildrenHeld'
    BY <1>1, <1>2, <1>3 DEF SInv, StartsFresh, Bookkeeping, ChildrenHeld
  <1> QED BY <1>2, <1>5, <1>6, <1>7, <1>8 DEF SInv

LEMMA EndReconcileKeeps ==
    ASSUME SInv, EndReconcile PROVE SInv'
  <1>1. /\ phase = "reconciling" /\ plan = Visiting /\ todo = {} /\ phase' = "serving" /\ plan' = Idle
        /\ UNCHANGED <<vars, me, todo, seen, held, reserved, host, outages>>
    BY DEF EndReconcile
  <1>2. /\ BInv' /\ Claimed' /\ TypeOK' /\ RuntimeRows'
        /\ job' = job /\ attempt' = attempt /\ runtime' = runtime /\ now' = now
    BY <1>1, QuietQueue
  <1>3. /\ held' = held /\ Known' = Known /\ Active' = Active /\ me' = me /\ todo' = todo
        /\ reserved' = reserved /\ lost' = lost /\ process' = process
        /\ receipt' = receipt /\ outages' = outages /\ seen' = seen
        /\ plan'.do = "idle" /\ plan'.attempt = None
    BY <1>1 DEF Known, Active, host, Idle
  <1>4. Known = {} /\ Active = {} /\ reserved = {}
    BY <1>1 DEF SInv, BoundaryRecords, Active
  <1>5. SupervisorTypeOK'
    BY <1>1, <1>2, <1>3 DEF SInv, SupervisorTypeOK, Idle, Steps, Reasons
  <1>6. MemoryMatchesQueue' /\ BoundaryRecords'
    BY <1>1, <1>3, <1>4 DEF MemoryMatchesQueue, BoundaryRecords
  <1>7. PlanShape'
    BY <1>1, <1>2, <1>3, <1>4 DEF SInv, PlanShape
  <1>8. StartsFresh' /\ Bookkeeping' /\ ChildrenHeld'
    BY <1>1, <1>2, <1>3, <1>4 DEF SInv, StartsFresh, Bookkeeping, ChildrenHeld
  <1> QED BY <1>2, <1>5, <1>6, <1>7, <1>8 DEF SInv

LEMMA EndCycleKeeps ==
    ASSUME SInv, EndCycle PROVE SInv'
  BY RestKeeps DEF EndCycle, Starting

LEMMA ReserveKeeps ==
    ASSUME SInv, Reserve PROVE SInv'
  <1>0. plan.do = "reserve"
    BY DEF Reserve
  <1> PICK a \in Known : a = plan.attempt
    BY <1>0, PlannedAttempt
  <1>1. /\ reserved' = reserved \cup {a} /\ Goto("spawn", a, "NONE")
        /\ UNCHANGED <<vars, phase, me, todo, seen, held, host, outages>>
    BY DEF Reserve
  <1>2. a \in Attempts /\ phase = "serving"
    BY <1>0, HeldRows DEF SInv, PlanShape
  <1>3. /\ plan'.do = "spawn" /\ plan'.attempt = a
        /\ plan' \in [do : Steps, attempt : Attempts \cup {None}, why : Reasons]
    BY <1>1, <1>2 DEF Goto, Steps, Reasons
  <1>4. /\ BInv' /\ Claimed' /\ TypeOK' /\ RuntimeRows'
        /\ job' = job /\ attempt' = attempt /\ runtime' = runtime /\ now' = now
    BY <1>1, QuietQueue
  <1>5. /\ held' = held /\ Known' = Known /\ Active' = Active /\ phase' = phase /\ me' = me
        /\ seen' = seen /\ todo' = todo /\ lost' = lost /\ process' = process
        /\ receipt' = receipt /\ outages' = outages
    BY <1>1 DEF Known, Active, host
  <1>6. SupervisorTypeOK'
    BY <1>1, <1>2, <1>3, <1>4, <1>5 DEF SInv, SupervisorTypeOK
  <1>7. MemoryMatchesQueue' /\ BoundaryRecords'
    BY <1>2, <1>4, <1>5 DEF SInv, MemoryMatchesQueue, BoundaryRecords, Record, JobOf
  <1>8. PlanShape'
    BY <1>2, <1>3, <1>4, <1>5 DEF SInv, PlanShape
  <1>9. StartsFresh' /\ ChildrenHeld'
    BY <1>0, <1>3, <1>4, <1>5 DEF SInv, StartsFresh, ChildrenHeld
  <1>10. Bookkeeping'
    BY <1>1, <1>2, <1>3, <1>4, <1>5 DEF SInv, Bookkeeping
  <1> QED BY <1>4, <1>6, <1>7, <1>8, <1>9, <1>10 DEF SInv

LEMMA SpawnKeeps ==
    ASSUME SInv, Spawn PROVE SInv'
  <1>0. plan.do = "spawn"
    BY DEF Spawn
  <1> PICK a \in Known : a = plan.attempt
    BY <1>0, PlannedAttempt
  <1>1. /\ process' = [process EXCEPT ![a] = "running"]
        /\ held' = [held EXCEPT ![a].handle = TRUE] /\ Goto("register", a, "NONE")
        /\ UNCHANGED <<vars, phase, me, todo, seen, reserved, receipt, lost, outages>>
    BY DEF Spawn
  <1>2. /\ a \in Attempts /\ phase = "serving" /\ a \in reserved /\ held[a] \in HeldRow
        /\ attempt[a].state = "STARTING" /\ held[a].deadline = 0
    BY <1>0, HeldRows DEF SInv, PlanShape, Bookkeeping, SupervisorTypeOK, StartsFresh
  <1>3. /\ plan'.do = "register" /\ plan'.attempt = a
        /\ plan' \in [do : Steps, attempt : Attempts \cup {None}, why : Reasons]
    BY <1>1, <1>2 DEF Goto, Steps, Reasons
  <1>4. /\ BInv' /\ Claimed' /\ TypeOK' /\ RuntimeRows'
        /\ job' = job /\ attempt' = attempt /\ runtime' = runtime /\ now' = now
    BY <1>1, QuietQueue
  <1>5. /\ held' \in [Attempts -> HeldRow]
        /\ held'[a].handle = TRUE /\ held'[a].version = held[a].version /\ held'[a].deadline = 0
        /\ \A b \in Attempts : b # a => held'[b] = held[b]
    BY <1>1, <1>2 DEF SInv, SupervisorTypeOK, HeldRow
  <1>6. Known' = Known /\ Active' = Active
    BY <1>2, <1>5 DEF Known, Active, NotHeld
  <1>7. /\ phase' = phase /\ me' = me /\ seen' = seen /\ todo' = todo /\ lost' = lost
        /\ receipt' = receipt /\ outages' = outages /\ reserved' = reserved
        /\ process'[a] = "running" /\ \A b \in Attempts : b # a => process'[b] = process[b]
    BY <1>1, <1>2 DEF SInv, SupervisorTypeOK
  <1>8. SupervisorTypeOK'
    BY <1>1, <1>2, <1>3, <1>4, <1>5 DEF SInv, SupervisorTypeOK
  <1>9. MemoryMatchesQueue'
    <2>1. MemoryMatchesQueue
      BY DEF SInv
    <2>2. \A b \in Known : held'[b].version = held[b].version /\ b \in Attempts
      BY <1>5 DEF Known
    <2>3. \A b \in Active : held'[b] = held[b] /\ Record(b)' = Record(b)
      BY <1>2, <1>4, <1>5 DEF Active, Known, Record
    <2> QED BY <1>4, <1>6, <1>7, <2>1, <2>2, <2>3 DEF MemoryMatchesQueue, JobOf
  <1>10. BoundaryRecords' /\ PlanShape'
    BY <1>2, <1>3, <1>4, <1>6, <1>7 DEF SInv, BoundaryRecords, PlanShape
  <1>11. StartsFresh'
    BY <1>2, <1>3, <1>4, <1>5 DEF StartsFresh
  <1>12. Bookkeeping'
    BY <1>0, <1>2, <1>3, <1>4, <1>6, <1>7 DEF SInv, Bookkeeping
  <1>13. ChildrenHeld'
    BY <1>2, <1>3, <1>4, <1>5, <1>6, <1>7 DEF SInv, ChildrenHeld
  <1> QED BY <1>4, <1>8, <1>9, <1>10, <1>11, <1>12, <1>13 DEF SInv

\* Leases and deadlines lie ahead of the clock reading they are made from.
LEMMA Ahead ==
    ASSUME SInv
    PROVE  /\ seen \in 0..now
           /\ seen + LeaseDuration \in Nat \ {0} /\ seen + Timeout \in Nat \ {0}
  BY QueueAssumption DEF SInv, SupervisorTypeOK, TypeOK, PlanShape

LEMMA RegisterRows ==
    ASSUME QInv, NEW a \in Attempts, NEW s \in Supervisors, NEW t \in 0..now,
           attempt[a].version \in Nat, RegisterProcess(a, attempt[a].version, s, t)
    PROVE  /\ attempt'[a].state = "RUNNING" /\ attempt'[a].version = attempt[a].version + 1
           /\ attempt'[a].supervisor = s /\ JobOf(a)' = JobOf(a)
           /\ job'[JobOf(a)].current = a
           /\ runtime'[a] = [supervisor |-> s, lease |-> t + LeaseDuration,
                             deadline |-> t + Timeout]
           /\ \A b \in Attempts : b # a => attempt'[b] = attempt[b] /\ runtime'[b] = runtime[b]
           /\ \A b \in Attempts : b # a /\ attempt[b].state \in Live => RowsKept(b)
  <1>1. /\ MoveStep(a, attempt[a].version, "RUNNING") /\ attempt[a].version \in 0..attempt[a].version
        /\ attempt[a].supervisor = s /\ attempt[a].state \in Live
    BY DEF RegisterProcess, MoveStep, Live
  <1>2. /\ \A k \in Jobs : k # JobOf(a) => job'[k] = job[k]
        /\ \A b \in Attempts : b # a => attempt'[b] = attempt[b]
        /\ attempt'[a].state = "RUNNING" /\ job'[JobOf(a)].current = a
    BY <1>1, MoveStepRows
  <1>3. /\ attempt'[a].version = attempt[a].version + 1 /\ attempt'[a].supervisor = s
        /\ attempt'[a].job = attempt[a].job
    BY <1>1 DEF MoveStep, Move, QInv, TInv, TypeOK, AttemptRow
  <1>4. /\ runtime'[a] = [supervisor |-> s, lease |-> t + LeaseDuration,
                          deadline |-> t + Timeout]
        /\ \A b \in Attempts : b # a => runtime'[b] = runtime[b]
    BY DEF RegisterProcess, QInv, TInv, TypeOK
  <1>5. \A b \in Attempts : b # a /\ attempt[b].state \in Live =>
            JobOf(b) # JobOf(a) /\ JobOf(b) \in Jobs
    BY <1>1, CurrentRows
  <1> QED BY <1>2, <1>3, <1>4, <1>5 DEF RowsKept, JobOf

LEMMA RegisterKeeps ==
    ASSUME SInv, Register PROVE SInv'
  <1>0. plan.do = "register"
    BY DEF Register
  <1> PICK a \in Known : a = plan.attempt
    BY <1>0, PlannedAttempt
  <1> DEFINE row == [version |-> held[a].version + 1, handle |-> TRUE,
                     lease |-> seen + LeaseDuration, deadline |-> seen + Timeout]
  <1>1. /\ RegisterProcess(a, held[a].version, me, seen)
        /\ held' = [held EXCEPT ![a] = row] /\ plan' = Visiting
        /\ UNCHANGED <<phase, me, todo, seen, reserved, host, outages>>
    BY DEF Register
  <1>2. /\ a \in Attempts /\ phase = "serving" /\ a \in reserved /\ me \in Supervisors
        /\ held[a].version = attempt[a].version /\ attempt[a].version \in Nat
        /\ held[a].version \in 0..attempt[a].version
    BY <1>0, HeldRows DEF SInv, PlanShape, Bookkeeping
  <1>3. seen \in 0..now /\ seen + LeaseDuration \in Nat \ {0} /\ seen + Timeout \in Nat \ {0}
    BY Ahead
  <1>4. QueueStep /\ now' = now
    BY <1>1, <1>2, <1>3 DEF QueueStep, AttemptNext, AttemptStep, RegisterProcess
  <1>5. BInv' /\ Claimed' /\ TypeOK'
    BY <1>4, QueueInvariants
  <1>6. /\ attempt'[a].state = "RUNNING" /\ attempt'[a].version = attempt[a].version + 1
        /\ attempt'[a].supervisor = me /\ JobOf(a)' = JobOf(a)
        /\ job'[JobOf(a)].current = a
        /\ runtime'[a] = [supervisor |-> me, lease |-> seen + LeaseDuration,
                          deadline |-> seen + Timeout]
        /\ \A b \in Attempts : b # a => attempt'[b] = attempt[b] /\ runtime'[b] = runtime[b]
        /\ \A b \in Attempts : b # a /\ attempt[b].state \in Live => RowsKept(b)
    <2>1. QInv
      BY DEF SInv, BInv
    <2>2. RegisterProcess(a, attempt[a].version, me, seen)
      BY <1>1, <1>2
    <2>3. PICK s \in Supervisors : s = me
      BY <1>2
    <2>4. PICK t \in 0..now : t = seen
      BY <1>3
    <2>5. RegisterProcess(a, attempt[a].version, s, t)
      BY <2>2, <2>3, <2>4
    <2> QED BY <1>2, <2>1, <2>3, <2>4, <2>5, RegisterRows
  <1>7. /\ row \in HeldRow /\ row # NotHeld
        /\ row.version = attempt[a].version + 1 /\ row.handle = TRUE
        /\ row.lease = seen + LeaseDuration /\ row.deadline = seen + Timeout
    BY <1>2, <1>3 DEF HeldRow, NotHeld
  <1> HIDE DEF row
  <1>8. /\ held' \in [Attempts -> HeldRow] /\ held'[a] = row
        /\ \A b \in Attempts : b # a => held'[b] = held[b]
    BY <1>1, <1>2, <1>7 DEF SInv, SupervisorTypeOK
  <1>9. Known' = Known /\ Active' = Active \cup {a}
    BY <1>2, <1>3, <1>7, <1>8 DEF Known, Active
  <1>10. /\ phase' = phase /\ me' = me /\ seen' = seen /\ todo' = todo /\ lost' = lost
         /\ receipt' = receipt /\ outages' = outages /\ reserved' = reserved /\ process' = process
         /\ plan'.do = "visit" /\ plan'.attempt = None
    BY <1>1 DEF host, Visiting
  <1>11. SupervisorTypeOK'
    BY <1>1, <1>5, <1>8, <1>10 DEF SInv, SupervisorTypeOK, Visiting, Steps, Reasons
  <1>12. runtime'[a] # NoRuntime
    <2>1. runtime'[a].deadline # 0
      BY <1>3, <1>6
    <2> QED BY <2>1 DEF NoRuntime
  <1>13. RuntimeRows'
    <2>1. runtime'[a].supervisor = attempt'[a].supervisor
      BY <1>6
    <2> QED BY <1>6, <1>12, <2>1 DEF SInv, RuntimeRows
  <1>14. MemoryMatchesQueue'
    <2>1. Record(a)' = held'[a]
      <3>1. /\ Record(a)' = [version |-> attempt'[a].version, handle |-> TRUE,
                             lease |-> runtime'[a].lease, deadline |-> runtime'[a].deadline]
        BY <1>12 DEF Record
      <3>2. runtime'[a].lease = seen + LeaseDuration /\ runtime'[a].deadline = seen + Timeout
        BY <1>6
      <3> QED BY <1>2, <1>6, <1>8, <3>1, <3>2 DEF row
    <2>2. ASSUME NEW b \in Known', b # a
          PROVE  /\ attempt'[b].state \in Live
                 /\ job'[JobOf(b)'].current = b
                 /\ held'[b].version = attempt'[b].version
                 /\ attempt'[b].supervisor = me'
                 /\ (b \in Active)' => Record(b)' = held'[b]
      <3>1. b \in Known /\ RowsKept(b) /\ held'[b] = held[b]
        BY <1>6, <1>8, <1>9, <2>2 DEF SInv, MemoryMatchesQueue, Known
      <3> QED BY <1>2, <1>10, <3>1, RecordStays
    <2>3. /\ attempt'[a].state \in Live /\ job'[JobOf(a)'].current = a
          /\ held'[a].version = attempt'[a].version /\ attempt'[a].supervisor = me'
      BY <1>6, <1>7, <1>8, <1>10 DEF Live
    <2> QED BY <2>1, <2>2, <2>3 DEF MemoryMatchesQueue
  <1>15. BoundaryRecords' /\ PlanShape' /\ StartsFresh'
    BY <1>1, <1>2, <1>4, <1>9, <1>10 DEF SInv, BoundaryRecords, PlanShape, StartsFresh
  <1>16. Bookkeeping'
    <2>1. \A b \in Attempts : attempt'[b].state \in Live => b \in Known'
      BY <1>2, <1>6, <1>9 DEF SInv, Bookkeeping
    <2> QED BY <1>2, <1>9, <1>10, <2>1 DEF SInv, Bookkeeping
  <1>17. ChildrenHeld'
    BY <1>6, <1>7, <1>8, <1>9, <1>10 DEF SInv, ChildrenHeld
  <1> QED BY <1>5, <1>11, <1>13, <1>14, <1>15, <1>16, <1>17 DEF SInv

LEMMA HeartbeatRows ==
    ASSUME QInv, NEW a \in Attempts, NEW expected, NEW s, NEW t, Heartbeat(a, expected, s, t)
    PROVE  /\ attempt' = attempt /\ job' = job /\ now' = now
           /\ runtime[a].supervisor = s /\ attempt[a].state = "RUNNING"
           /\ runtime'[a] = [runtime[a] EXCEPT !.lease = t + LeaseDuration]
           /\ \A b \in Attempts : b # a => runtime'[b] = runtime[b]
  BY DEF Heartbeat, QInv, TInv, TypeOK

LEMMA VisitRenewsKeeps ==
    ASSUME SInv, NEW a \in Attempts, VisitRenews(a) PROVE SInv'
  <1>1. /\ Heartbeat(a, held[a].version, me, seen)
        /\ held' = [held EXCEPT ![a].lease = seen + LeaseDuration]
        /\ todo' = todo \ {a} /\ a \in todo /\ phase = "serving" /\ plan = Visiting
        /\ UNCHANGED <<phase, me, plan, seen, reserved, host, outages>>
    BY DEF VisitRenews, Probed
  <1>2. /\ a \in Known /\ a \in Active /\ me \in Supervisors
        /\ held[a].version = attempt[a].version
        /\ held[a].version \in 0..attempt[a].version
        /\ held[a] \in HeldRow /\ runtime[a] \in RuntimeRow
    BY <1>1, VisitedAttempt, HeldRows DEF SInv, PlanShape, SupervisorTypeOK, TypeOK
  <1>3. seen \in 0..now /\ seen + LeaseDuration \in Nat \ {0}
    BY Ahead
  <1>4. QueueStep
    BY <1>1, <1>2, <1>3 DEF QueueStep, AttemptNext, AttemptStep
  <1>5. BInv' /\ Claimed' /\ TypeOK'
    BY <1>4, QueueInvariants
  <1>6. /\ attempt' = attempt /\ job' = job /\ now' = now
        /\ runtime[a].supervisor = me /\ attempt[a].state = "RUNNING"
        /\ runtime'[a] = [runtime[a] EXCEPT !.lease = seen + LeaseDuration]
        /\ \A b \in Attempts : b # a => runtime'[b] = runtime[b]
    BY <1>1, HeartbeatRows DEF SInv, BInv
  <1>7. /\ runtime'[a].supervisor = me /\ runtime'[a].lease = seen + LeaseDuration
        /\ runtime'[a].deadline = runtime[a].deadline
    BY <1>2, <1>6 DEF RuntimeRow
  <1>8. /\ held' \in [Attempts -> HeldRow]
        /\ held'[a].handle = held[a].handle /\ held'[a].version = held[a].version
        /\ held'[a].deadline = held[a].deadline /\ held'[a].lease = seen + LeaseDuration
        /\ \A b \in Attempts : b # a => held'[b] = held[b]
    BY <1>1, <1>2, <1>3 DEF SInv, SupervisorTypeOK, HeldRow
  <1>9. Known' = Known /\ Active' = Active
    BY <1>2, <1>3, <1>8 DEF Known, Active, NotHeld
  <1>10. /\ phase' = phase /\ me' = me /\ seen' = seen /\ lost' = lost /\ plan' = plan
         /\ receipt' = receipt /\ outages' = outages /\ reserved' = reserved /\ process' = process
    BY <1>1 DEF host
  <1>11. SupervisorTypeOK'
    BY <1>1, <1>5, <1>8, <1>10 DEF SInv, SupervisorTypeOK
  <1>12. runtime[a] # NoRuntime /\ runtime'[a] # NoRuntime
    <2>1. runtime'[a].lease # 0
      BY <1>3, <1>7
    <2>2. runtime[a] # NoRuntime
      BY <1>6 DEF SInv, RuntimeRows
    <2> QED BY <2>1, <2>2 DEF NoRuntime
  <1>13. RuntimeRows'
    BY <1>6, <1>7, <1>12 DEF SInv, RuntimeRows
  <1>14. MemoryMatchesQueue'
    <2>1. MemoryMatchesQueue
      BY DEF SInv
    <2>2. Record(a) = held[a]
      BY <1>2, <2>1 DEF MemoryMatchesQueue
    <2>3. Record(a)' = held'[a]
      <3>0. /\ Record(a).handle = (runtime[a] # NoRuntime)
            /\ Record(a).deadline = runtime[a].deadline
        BY DEF Record
      <3>1. held[a].handle = TRUE /\ held[a].deadline = runtime[a].deadline
        BY <1>12, <2>2, <3>0
      <3>2. Record(a)' = [version |-> attempt[a].version, handle |-> TRUE,
                          lease |-> seen + LeaseDuration, deadline |-> runtime[a].deadline]
        BY <1>6, <1>7, <1>12 DEF Record
      <3>3. held'[a] \in HeldRow
        BY <1>8
      <3> QED BY <1>2, <1>8, <3>1, <3>2, <3>3 DEF HeldRow
    <2>4. \A b \in Known : b # a => Record(b)' = Record(b) /\ held'[b] = held[b]
      BY <1>6, <1>8 DEF Record, Known
    <2> QED BY <1>2, <1>6, <1>8, <1>9, <1>10, <2>1, <2>3, <2>4 DEF MemoryMatchesQueue, JobOf
  <1>15. BoundaryRecords' /\ PlanShape' /\ StartsFresh' /\ Bookkeeping'
    BY <1>1, <1>6, <1>9, <1>10
       DEF SInv, BoundaryRecords, PlanShape, StartsFresh, Bookkeeping, Visiting
  <1>16. ChildrenHeld'
    BY <1>6, <1>8, <1>9, <1>10 DEF SInv, ChildrenHeld, Known
  <1> QED BY <1>5, <1>11, <1>13, <1>14, <1>15, <1>16 DEF SInv

LEMMA ClaimJobKeeps ==
    ASSUME SInv, NEW lane \in Lanes, NEW j \in Jobs, ClaimJob(lane, j) PROVE SInv'
  <1> PICK a \in Attempts : a = CHOOSE b \in FreshAttempts : TRUE
    BY DEF ClaimJob, FreshAttempts
  <1> DEFINE row == [NotHeld EXCEPT !.version = job[j].version + 1]
  <1>1. /\ Claim(me, LaneTypes(lane), seen, j, a)
        /\ held' = [held EXCEPT ![a] = row] /\ Goto("reserve", a, "NONE")
        /\ phase = "serving" /\ plan = Visiting /\ todo = {}
        /\ UNCHANGED <<phase, me, todo, seen, reserved, host, outages>>
    BY DEF ClaimJob, Starting
  <1>2. /\ me \in Supervisors /\ seen \in 0..now /\ LaneTypes(lane) \in SUBSET Types
        /\ QInv /\ SupervisorTypeOK /\ job[j].version \in Nat /\ a # None
    BY <1>1, Ahead, QueueAssumption
       DEF SInv, PlanShape, LaneTypes, BInv, SupervisorTypeOK, TypeOK, JobRow
  <1>3. QueueStep /\ now' = now
    BY <1>1, <1>2 DEF QueueStep, ClaimNext, Claim
  <1>4. BInv' /\ Claimed' /\ TypeOK'
    BY <1>3, QueueInvariants
  <1>5. /\ attempt[a].state = "ABSENT"
        /\ attempt'[a].state = "STARTING" /\ attempt'[a].supervisor = me
        /\ attempt'[a].version = job[j].version + 1 /\ attempt'[a].job = j
        /\ job'[j].current = a
        /\ runtime' = runtime
        /\ \A b \in Attempts : b # a => attempt'[b] = attempt[b]
        /\ \A b \in Attempts : attempt[b].state \in Live => RowsKept(b)
    BY <1>1, <1>2, ClaimRowsKept
  <1>6. row \in HeldRow /\ row.version = job[j].version + 1 /\ row.deadline = 0 /\ ~row.handle
    <2>1. NotHeld \in HeldRow /\ job[j].version + 1 \in Nat
      BY <1>2 DEF HeldRow, NotHeld
    <2>2. row \in HeldRow
      BY <2>1, Zenon DEF HeldRow
    <2>3. row.version = job[j].version + 1 /\ row.deadline = 0 /\ ~row.handle
      BY DEF NotHeld
    <2> QED BY <2>2, <2>3
  <1> HIDE DEF row
  <1>7. row # NotHeld
    BY <1>2, <1>6 DEF NotHeld
  <1>8. /\ held' \in [Attempts -> HeldRow] /\ held'[a] = row
        /\ \A b \in Attempts : b # a => held'[b] = held[b]
    BY <1>1, <1>2, <1>6 DEF SupervisorTypeOK
  <1>9. a \notin Known /\ a \notin Active
    BY <1>5 DEF SInv, MemoryMatchesQueue, Live, Active
  <1>10. Known' = Known \cup {a} /\ Active' = Active
    BY <1>6, <1>7, <1>8, <1>9 DEF Known, Active
  <1>11. /\ phase' = phase /\ me' = me /\ seen' = seen /\ lost' = lost /\ todo' = {}
         /\ receipt' = receipt /\ outages' = outages /\ reserved' = reserved /\ process' = process
         /\ plan'.do = "reserve" /\ plan'.attempt = a
         /\ plan' \in [do : Steps, attempt : Attempts \cup {None}, why : Reasons]
    BY <1>1 DEF host, Goto, Steps, Reasons
  <1>12. SupervisorTypeOK'
    BY <1>1, <1>2, <1>4, <1>8, <1>11 DEF SupervisorTypeOK
  <1>13. RuntimeRows'
    <2>1. runtime[a] = NoRuntime
      BY <1>5 DEF SInv, RuntimeRows
    <2> QED BY <1>5, <2>1 DEF SInv, RuntimeRows
  <1>14. MemoryMatchesQueue'
    <2>1. ASSUME NEW b \in Known
          PROVE  /\ attempt'[b].state \in Live
                 /\ job'[JobOf(b)'].current = b
                 /\ held'[b].version = attempt'[b].version
                 /\ attempt'[b].supervisor = me'
                 /\ (b \in Active)' => Record(b)' = held'[b]
      <3>1. RowsKept(b) /\ held'[b] = held[b]
        BY <1>5, <1>8, <1>9 DEF SInv, MemoryMatchesQueue, Known
      <3> QED BY <1>1, <1>11, <3>1, RecordStays
    <2>2. /\ attempt'[a].state \in Live /\ job'[JobOf(a)'].current = a
          /\ held'[a].version = attempt'[a].version /\ attempt'[a].supervisor = me'
          /\ (a \in Active)' = FALSE
      BY <1>5, <1>6, <1>8, <1>9, <1>10, <1>11 DEF Live, JobOf
    <2> QED BY <1>10, <2>1, <2>2 DEF MemoryMatchesQueue
  <1>15. BoundaryRecords' /\ PlanShape'
    BY <1>1, <1>2, <1>3, <1>10, <1>11 DEF SInv, BoundaryRecords, PlanShape
  <1>16. StartsFresh'
    BY <1>5, <1>6, <1>8, <1>11 DEF StartsFresh
  <1>17. Bookkeeping'
    <2>1. plan.attempt = None
      BY <1>1 DEF Visiting
    <2>2. \A b \in Attempts : attempt'[b].state \in Live => b \in Known'
      BY <1>1, <1>5, <1>10 DEF SInv, Bookkeeping
    <2> QED BY <1>1, <1>2, <1>10, <1>11, <2>1, <2>2, QueueAssumption DEF SInv, Bookkeeping
  <1>18. ChildrenHeld'
    <2>1. \A b \in Attempts \ lost : process[b] = "running" => b # a
      BY <1>5, <1>9 DEF SInv, ChildrenHeld
    <2> QED BY <1>5, <1>8, <1>10, <1>11, <2>1 DEF SInv, ChildrenHeld
  <1> QED BY <1>4, <1>12, <1>13, <1>14, <1>15, <1>16, <1>17, <1>18 DEF SInv

\* The controller ends.  A child that still runs is registered, or is lost.
LEMMA ExitKeeps ==
    ASSUME SInv, Exit, UNCHANGED <<vars, process, receipt>>,
           lost \subseteq lost', lost' \subseteq Attempts, outages' \in 0..MaxOutages,
           \A a \in Known \ lost' : process[a] = "running" => attempt[a].state = "RUNNING"
    PROVE  SInv'
  <1>1. /\ phase' = "down" /\ me' = None /\ plan' = Idle /\ todo' = {} /\ seen' = 0
        /\ held' = [a \in Attempts |-> NotHeld] /\ reserved' = {}
        /\ process' = process /\ receipt' = receipt
    BY DEF Exit
  <1>2. /\ BInv' /\ Claimed' /\ TypeOK' /\ RuntimeRows'
        /\ job' = job /\ attempt' = attempt /\ runtime' = runtime /\ now' = now
    BY QuietQueue
  <1>3. Known' = {} /\ plan'.do = "idle" /\ plan'.attempt = None
    BY <1>1 DEF Known, Idle
  <1>4. SupervisorTypeOK'
    BY <1>1, <1>2
       DEF SInv, SupervisorTypeOK, Idle, Steps, Reasons, NotHeld, HeldRow
  <1>5. MemoryMatchesQueue' /\ BoundaryRecords' /\ StartsFresh' /\ Bookkeeping'
    BY <1>1, <1>3 DEF MemoryMatchesQueue, BoundaryRecords, StartsFresh, Bookkeeping
  <1>6. PlanShape'
    <2>1. now \in Nat
      BY DEF SInv, SupervisorTypeOK, TypeOK
    <2> QED BY <1>1, <1>2, <1>3, <2>1 DEF PlanShape
  <1>7. ChildrenHeld'
    BY <1>1, <1>2, <1>3 DEF SInv, ChildrenHeld
  <1> QED BY <1>2, <1>4, <1>5, <1>6, <1>7 DEF SInv

\* A child the controller supervises has a registered process.
LEMMA SupervisedRuns ==
    ASSUME SInv, NEW a \in Known, a \notin lost, process[a] = "running",
           a \in Active \/ phase = "reconciling"
    PROVE  attempt[a].state = "RUNNING"
  <1>1. held[a].handle = TRUE /\ a \in Attempts
    BY DEF SInv, ChildrenHeld, Known
  <1>2. Record(a) = held[a]
    BY DEF SInv, MemoryMatchesQueue, BoundaryRecords
  <1>3. Record(a).handle = (runtime[a] # NoRuntime)
    BY DEF Record
  <1>4. runtime[a] # NoRuntime
    BY <1>1, <1>2, <1>3
  <1> QED BY <1>1, <1>4 DEF SInv, RuntimeRows

LEMMA BoundaryExits ==
    ASSUME SInv, phase \in {"reconciling", "stopping"}
    PROVE  \A a \in Known \ lost : process[a] = "running" => attempt[a].state = "RUNNING"
  BY SupervisedRuns DEF SInv, BoundaryRecords

LEMMA QuietExitKeeps ==
    ASSUME SInv, phase \in {"reconciling", "stopping"}, Exit, UNCHANGED <<vars, host>>,
           outages' \in 0..MaxOutages
    PROVE  SInv'
  <1>1. lost' = lost /\ lost \subseteq Attempts /\ UNCHANGED <<vars, process, receipt>>
    BY DEF host, SInv, SupervisorTypeOK
  <1> QED BY <1>1, BoundaryExits, ExitKeeps

LEMMA ShutdownInvalidKeeps == ASSUME SInv, ShutdownInvalid PROVE SInv'
  <1>1. outages' \in 0..MaxOutages
    BY DEF ShutdownInvalid, SInv, SupervisorTypeOK
  <1> QED BY <1>1, QuietExitKeeps DEF ShutdownInvalid

LEMMA EndShutdownKeeps == ASSUME SInv, EndShutdown PROVE SInv'
  <1>1. outages' \in 0..MaxOutages
    BY DEF EndShutdown, SInv, SupervisorTypeOK
  <1> QED BY <1>1, QuietExitKeeps DEF EndShutdown

LEMMA OneMoreOutage ==
    ASSUME SInv, outages < MaxOutages, outages' = outages + 1 PROVE outages' \in 0..MaxOutages
  BY SupervisorAssumption DEF SInv, SupervisorTypeOK

LEMMA BoundaryFailsKeeps == ASSUME SInv, BoundaryFails PROVE SInv'
  <1>1. outages' \in 0..MaxOutages
    BY OneMoreOutage DEF BoundaryFails
  <1> QED BY <1>1, QuietExitKeeps DEF BoundaryFails

LEMMA CrashKeeps == ASSUME SInv, Crash PROVE SInv'
  <1>1. outages' \in 0..MaxOutages
    BY OneMoreOutage DEF Crash
  <1>2. lost' = lost \cup {a \in Unregistered : process[a] # "dead"}
    BY DEF Crash
  <1>3. lost \subseteq lost' /\ lost' \subseteq Attempts
    BY <1>2 DEF Unregistered, Known, SInv, SupervisorTypeOK
  <1>4. ASSUME NEW a \in Known \ lost', process[a] = "running" PROVE attempt[a].state = "RUNNING"
    <2>1. a \in Known /\ a \notin lost /\ a \notin Unregistered /\ a \in Attempts
      BY <1>2, <1>4 DEF Known
    <2>2. held[a].handle
      BY <1>4, <2>1 DEF SInv, ChildrenHeld
    <2>3. a \in Active
      BY <2>1, <2>2 DEF Unregistered, Active
    <2> QED BY <1>4, <2>1, <2>3, SupervisedRuns
  <1> QED BY <1>1, <1>3, <1>4, ExitKeeps DEF Crash

\* While it recovers or is about to complete, a conflict may end it.
LEMMA StartupAbortsKeeps == ASSUME SInv, StartupAborts PROVE SInv'
  <1>0. plan.do = "complete"
    BY DEF StartupAborts
  <1>1. outages' \in 0..MaxOutages /\ lost' = lost /\ lost \subseteq Attempts
    BY DEF StartupAborts, SInv, SupervisorTypeOK, host
  <1>2. ASSUME NEW a \in Known \ lost', process[a] = "running" PROVE attempt[a].state = "RUNNING"
    <2>1. a \in Known /\ a \notin lost /\ a \in Attempts /\ a # plan.attempt
      BY <1>0, <1>1, <1>2 DEF Known, SInv, ChildrenHeld
    <2>2. phase # "down"
      BY <1>0, PlannedAttempt
    <2>3. phase = "serving" => a \in Active
      BY <2>1 DEF SInv, Bookkeeping
    <2>4. phase = "stopping" => a \in Active
      BY <2>1 DEF SInv, BoundaryRecords
    <2>5. phase \in {"down", "reconciling", "serving", "stopping"}
      BY DEF SInv, SupervisorTypeOK
    <2> QED BY <1>2, <2>1, <2>2, <2>3, <2>4, <2>5, SupervisedRuns
  <1>3. Exit /\ UNCHANGED <<vars, process, receipt>>
    BY DEF StartupAborts, host
  <1> QED BY <1>1, <1>2, <1>3, ExitKeeps

\* A new controller finds exactly the live attempts.
LEMMA StartKeeps == ASSUME SInv, Start PROVE SInv'
  <1>0. /\ phase = "down" /\ phase' = "reconciling" /\ plan' = Visiting
        /\ todo' = Unfinished /\ seen' = now /\ reserved' = {}
        /\ held' = [a \in Attempts |-> IF a \in Unfinished THEN Record(a) ELSE NotHeld]
        /\ UNCHANGED <<vars, host, outages>>
    BY DEF Start
  <1>1. /\ BInv' /\ Claimed' /\ TypeOK' /\ RuntimeRows'
        /\ job' = job /\ attempt' = attempt /\ runtime' = runtime /\ now' = now
    BY <1>0, QuietQueue
  <1>2. me' \in Supervisors
    <2>1. PICK s \in FreshInstances : me' = s
      BY DEF Start
    <2> QED BY <2>1 DEF FreshInstances
  <1>3. /\ plan'.do = "visit" /\ plan'.attempt = None /\ process' = process /\ receipt' = receipt
        /\ lost' = lost /\ outages' = outages
    BY <1>0 DEF Visiting, host
  <1>4. \A a \in Attempts : attempt[a].state \in Live <=> a \in Unfinished
    BY CurrentRows DEF Unfinished, SInv, BInv
  <1>5. ASSUME NEW a \in Unfinished
        PROVE  a \in Attempts /\ Record(a) \in HeldRow /\ Record(a) # NotHeld
               /\ Record(a)' = Record(a) /\ attempt[a].job \in Jobs
    <2>1. a \in Attempts /\ attempt[a].state \in Live
      BY DEF Unfinished
    <2>2. attempt[a].job \in Jobs /\ attempt[a].version \in Nat \ {0} /\ runtime[a] \in RuntimeRow
      BY <2>1, CurrentRows DEF SInv, BInv, Claimed, JobOf, SupervisorTypeOK, TypeOK
    <2>3. Record(a).version # 0
      BY <2>2 DEF Record
    <2>4. Record(a) \in HeldRow
      BY <2>2 DEF Record, HeldRow, RuntimeRow
    <2>5. Record(a)' = Record(a)
      BY <1>1 DEF Record
    <2> QED BY <2>1, <2>2, <2>3, <2>4, <2>5 DEF NotHeld
  <1>6. /\ held' \in [Attempts -> HeldRow]
        /\ \A a \in Unfinished : held'[a] = Record(a)
        /\ \A a \in Attempts \ Unfinished : held'[a] = NotHeld
    BY <1>0, <1>5 DEF HeldRow, NotHeld
  <1>7. Known' = Unfinished
    BY <1>5, <1>6 DEF Known
  <1>8. SupervisorTypeOK'
    <2>1. now \in Nat /\ Unfinished \subseteq Attempts
      BY DEF SInv, SupervisorTypeOK, TypeOK, Unfinished
    <2> QED BY <1>0, <1>1, <1>2, <1>3, <1>6, <2>1
            DEF SInv, SupervisorTypeOK, Visiting, Steps, Reasons
  <1>9. MemoryMatchesQueue'
    <2>1. ASSUME NEW a \in Unfinished
          PROVE  /\ attempt'[a].state \in Live /\ job'[JobOf(a)'].current = a
                 /\ held'[a].version = attempt'[a].version /\ Record(a)' = held'[a]
      <3>1. Record(a).version = attempt[a].version
        BY DEF Record
      <3> QED BY <1>1, <1>5, <1>6, <3>1 DEF Unfinished, JobOf
    <2> QED BY <1>0, <1>7, <2>1 DEF MemoryMatchesQueue
  <1>10. BoundaryRecords'
    BY <1>0, <1>5, <1>6, <1>7 DEF BoundaryRecords
  <1>11. PlanShape'
    <2>1. now \in Nat
      BY DEF SInv, SupervisorTypeOK, TypeOK
    <2> QED BY <1>0, <1>1, <1>2, <1>3, <1>7, <2>1 DEF PlanShape
  <1>12. StartsFresh'
    BY <1>3 DEF StartsFresh
  <1>13. Bookkeeping'
    BY <1>0, <1>1, <1>4, <1>7 DEF Bookkeeping
  <1>14. ChildrenHeld'
    <2>1. ASSUME NEW a \in Attempts \ lost, process[a] = "running"
          PROVE  attempt[a].state = "RUNNING" /\ (a \in Known' => held'[a].handle = TRUE)
      <3>1. Known = {}
        BY <1>0 DEF SInv, PlanShape
      <3>2. attempt[a].state = "RUNNING"
        BY <2>1, <3>1 DEF SInv, ChildrenHeld
      <3>3. Record(a).handle = (runtime[a] # NoRuntime)
        BY DEF Record
      <3>4. runtime[a] # NoRuntime
        BY <3>2 DEF SInv, RuntimeRows
      <3> QED BY <1>6, <1>7, <3>2, <3>3, <3>4
    <2> QED BY <1>1, <1>3, <2>1 DEF ChildrenHeld
  <1> QED BY <1>1, <1>8, <1>9, <1>10, <1>11, <1>12, <1>13, <1>14 DEF SInv

\* Shutdown keeps the registered attempts and forgets the others.
LEMMA ShutdownKeeps ==
    ASSUME SInv, phase = "serving", BeginShutdown, UNCHANGED <<vars, receipt, lost>>,
           outages' \in 0..MaxOutages, reserved' \subseteq Attempts,
           process' \in [Attempts -> {"none", "running", "done", "failed", "dead"}],
           \A a \in Attempts \ lost : process'[a] = "running" =>
               process[a] = "running" /\ (a \in Known => a \in Active)
    PROVE  SInv'
  <1>1. /\ phase' = "stopping" /\ plan' = Visiting /\ todo' = Active /\ seen' = now /\ me' = me
        /\ held' = [a \in Attempts |-> IF a \in Active THEN held[a] ELSE NotHeld]
        /\ receipt' = receipt /\ lost' = lost
    BY DEF BeginShutdown
  <1>2. /\ BInv' /\ Claimed' /\ TypeOK' /\ RuntimeRows'
        /\ job' = job /\ attempt' = attempt /\ runtime' = runtime /\ now' = now
    BY QuietQueue
  <1>3. /\ \A a \in Active : a \in Known /\ a \in Attempts /\ held'[a] = held[a]
        /\ \A a \in Attempts \ Active : held'[a] = NotHeld
    BY <1>1 DEF Active, Known
  <1>4. Known' = Active /\ Active' = Active
    BY <1>3 DEF Active, Known
  <1>5. /\ now \in Nat /\ NotHeld \in HeldRow /\ SupervisorTypeOK
        /\ plan'.do = "visit" /\ plan'.attempt = None
    BY <1>1 DEF SInv, SupervisorTypeOK, TypeOK, NotHeld, HeldRow, Visiting
  <1>6. held' \in [Attempts -> HeldRow]
    BY <1>1, <1>5 DEF SupervisorTypeOK
  <1>7. SupervisorTypeOK'
    BY <1>1, <1>2, <1>3, <1>5, <1>6 DEF SupervisorTypeOK, Visiting, Steps, Reasons
  <1>8. MemoryMatchesQueue'
    <2>1. ASSUME NEW a \in Active
          PROVE  /\ attempt'[a].state \in Live /\ job'[JobOf(a)'].current = a
                 /\ held'[a].version = attempt'[a].version
                 /\ attempt'[a].supervisor = me' /\ Record(a)' = held'[a]
      <3>1. Record(a)' = Record(a)
        BY <1>2 DEF Record
      <3> QED BY <1>1, <1>2, <1>3, <3>1 DEF SInv, MemoryMatchesQueue, JobOf
    <2> QED BY <1>4, <2>1 DEF MemoryMatchesQueue
  <1>9. BoundaryRecords' /\ StartsFresh' /\ Bookkeeping'
    BY <1>1, <1>4, <1>5 DEF BoundaryRecords, StartsFresh, Bookkeeping
  <1>10. PlanShape'
    BY <1>1, <1>2, <1>4, <1>5 DEF SInv, PlanShape
  <1>11. ChildrenHeld'
    BY <1>1, <1>2, <1>3, <1>4, <1>5 DEF SInv, ChildrenHeld
  <1> QED BY <1>2, <1>7, <1>8, <1>9, <1>10, <1>11 DEF SInv

LEMMA RequestStopKeeps == ASSUME SInv, RequestStop PROVE SInv'
  <1>1. outages' \in 0..MaxOutages
    BY OneMoreOutage DEF RequestStop
  <1>2. /\ phase = "serving" /\ plan = Idle /\ BeginShutdown /\ UNCHANGED <<vars, receipt, lost>>
        /\ reserved' = reserved /\ process' = process
    BY DEF RequestStop, host
  <1>3. reserved' \subseteq Attempts
        /\ process' \in [Attempts -> {"none", "running", "done", "failed", "dead"}]
    BY <1>2 DEF SInv, SupervisorTypeOK
  <1>4. \A a \in Known : a \in Active
    BY <1>2, QueueAssumption DEF SInv, Bookkeeping, Idle, Known
  <1> QED BY <1>1, <1>2, <1>3, <1>4, ShutdownKeeps

LEMMA CycleFailsKeeps == ASSUME SInv, CycleFails PROVE SInv'
  <1>1. outages' \in 0..MaxOutages
    BY OneMoreOutage DEF CycleFails
  <1>2. /\ phase = "serving" /\ BeginShutdown /\ UNCHANGED <<vars, receipt, lost>>
        /\ plan.do \notin {"idle", "kill"}
        /\ process' = IF plan.do = "register" THEN [process EXCEPT ![plan.attempt] = "dead"]
                                              ELSE process
        /\ reserved' = IF plan.do = "register" THEN reserved \ {plan.attempt} ELSE reserved
    BY DEF CycleFails
  <1>3. reserved' \subseteq Attempts
        /\ process' \in [Attempts -> {"none", "running", "done", "failed", "dead"}]
    BY <1>2 DEF SInv, SupervisorTypeOK
  <1>4. ASSUME NEW a \in Attempts \ lost, process'[a] = "running"
        PROVE  process[a] = "running" /\ (a \in Known => a \in Active)
    <2>1. process[a] = "running" /\ (plan.do = "register" => a # plan.attempt)
      BY <1>2, <1>4 DEF SInv, SupervisorTypeOK
    <2>2. plan.do \in {"complete", "cancel", "fail"} => a # plan.attempt
      BY <1>4, <2>1 DEF SInv, ChildrenHeld
    <2>3. plan.do \in {"reserve", "spawn"} => a # plan.attempt
      BY <1>4, <2>1, NotYetSpawned
    <2>4. plan.do = "visit" => a # plan.attempt
      BY QueueAssumption DEF SInv, PlanShape, Idle, Visiting
    <2>5. a # plan.attempt
      BY <1>2, <2>1, <2>2, <2>3, <2>4 DEF SInv, SupervisorTypeOK, Steps
    <2> QED BY <1>2, <2>1, <2>5 DEF SInv, Bookkeeping
  <1> QED BY <1>1, <1>2, <1>3, <1>4, ShutdownKeeps

\* Children, clients and the clock.
LEMMA ChildKeeps == ASSUME SInv, NEW a \in Attempts, ChildStep(a) PROVE SInv'
  <1>0. UNCHANGED <<vars, memory, lost, outages>>
    BY DEF ChildStep, LinkReceipt, PublishReceipt, ChildExits, SpoilOutput
  <1>1. /\ process' \in [Attempts -> {"none", "running", "done", "failed", "dead"}]
        /\ \A b \in Attempts : process'[b] = "running" => process[b] = "running"
        /\ \A b \in Attempts : process'[b] = process[b] \/ process[b] = "running"
    BY DEF ChildStep, LinkReceipt, PublishReceipt, ChildExits, SpoilOutput, SInv, SupervisorTypeOK
  <1>2. receipt' \in [Attempts -> {"none", "linked", "published", "spoilt"}]
    BY DEF ChildStep, LinkReceipt, PublishReceipt, ChildExits, SpoilOutput, SInv, SupervisorTypeOK
  <1>3. /\ BInv' /\ Claimed' /\ TypeOK' /\ RuntimeRows'
        /\ job' = job /\ attempt' = attempt /\ runtime' = runtime /\ now' = now
    BY <1>0, QuietQueue
  <1>4. /\ held' = held /\ Known' = Known /\ Active' = Active /\ phase' = phase /\ me' = me
        /\ seen' = seen /\ reserved' = reserved /\ todo' = todo /\ plan' = plan
        /\ lost' = lost /\ outages' = outages
    BY <1>0 DEF Known, Active, memory
  <1>5. SupervisorTypeOK'
    BY <1>1, <1>2, <1>3, <1>4 DEF SInv, SupervisorTypeOK
  <1>6. MemoryMatchesQueue' /\ BoundaryRecords'
    BY <1>3, <1>4 DEF SInv, MemoryMatchesQueue, BoundaryRecords, Record, JobOf
  <1>7. PlanShape' /\ StartsFresh' /\ Bookkeeping'
    BY <1>3, <1>4 DEF SInv, PlanShape, StartsFresh, Bookkeeping
  <1>8. ChildrenHeld'
    <2>1. plan.do \in {"complete", "cancel", "fail"} => plan.attempt \in Attempts
      BY PlannedAttempt DEF Known
    <2> QED BY <1>1, <1>3, <1>4, <2>1 DEF SInv, ChildrenHeld
  <1> QED BY <1>3, <1>5, <1>6, <1>7, <1>8 DEF SInv

\* A step of others that leaves attempts, leases and the controller alone.
LEMMA OthersKeep ==
    ASSUME SInv, QueueStep, UNCHANGED <<memory, host, outages>>,
           attempt' = attempt, runtime' = runtime, now <= now',
           \A b \in Attempts : attempt[b].state \in Live => RowsKept(b)
    PROVE  SInv'
  <1>1. BInv' /\ Claimed' /\ TypeOK'
    BY QueueInvariants
  <1>2. /\ held' = held /\ Known' = Known /\ Active' = Active /\ phase' = phase /\ me' = me
        /\ seen' = seen /\ reserved' = reserved /\ todo' = todo /\ plan' = plan
        /\ lost' = lost /\ outages' = outages /\ process' = process /\ receipt' = receipt
    BY DEF Known, Active, memory, host
  <1>3. SupervisorTypeOK'
    BY <1>1, <1>2 DEF SInv, SupervisorTypeOK
  <1>4. RuntimeRows'
    BY DEF SInv, RuntimeRows
  <1>5. \A b \in Known : RowsKept(b) /\ b \in Attempts
    BY DEF SInv, MemoryMatchesQueue, Known
  <1>6. MemoryMatchesQueue'
    BY <1>2, <1>5, RecordStays DEF MemoryMatchesQueue
  <1>7. BoundaryRecords'
    BY <1>2 DEF SInv, BoundaryRecords, Record
  <1>8. PlanShape'
    <2>1. seen \in Nat /\ now \in Nat /\ now' \in Nat
      BY <1>1 DEF SInv, SupervisorTypeOK, TypeOK
    <2>2. seen' <= now'
      BY <1>2, <2>1 DEF SInv, PlanShape
    <2> QED BY <1>2, <2>2 DEF SInv, PlanShape
  <1>9. StartsFresh' /\ Bookkeeping' /\ ChildrenHeld'
    BY <1>2 DEF SInv, StartsFresh, Bookkeeping, ChildrenHeld
  <1> QED BY <1>1, <1>3, <1>4, <1>6, <1>7, <1>8, <1>9 DEF SInv

LEMMA ClientIsQueueStep ==
    ASSUME NEW j \in Jobs, Client(j)
    PROVE  ClientNext /\ now' = now /\ UNCHANGED <<memory, host, outages>>
  <1>1. now' = now
    BY DEF Client, Submit, RequestCancel, CancelQueued, CancelLive, RequestRetry
  <1> QED BY <1>1 DEF Client, ClientNext

LEMMA ClientKeeps == ASSUME SInv, NEW j \in Jobs, Client(j) PROVE SInv'
  <1>1. ClientNext /\ now' = now /\ UNCHANGED <<memory, host, outages>>
    BY ClientIsQueueStep
  <1>2. QInv /\ now \in Nat
    BY DEF SInv, BInv, SupervisorTypeOK, TypeOK
  <1>3. /\ attempt' = attempt /\ runtime' = runtime
        /\ \A b \in Attempts : attempt[b].state \in Live => RowsKept(b)
    BY <1>1, <1>2, ClientRowsKept
  <1>4. QueueStep /\ now <= now'
    BY <1>1, <1>2 DEF QueueStep
  <1> QED BY <1>1, <1>3, <1>4, OthersKeep

LEMMA ClockKeeps == ASSUME SInv, Clock PROVE SInv'
  <1>1. UNCHANGED tables /\ now' = now + 1 /\ UNCHANGED <<memory, host, outages>>
    BY DEF Clock, tables
  <1>2. now \in Nat
    BY DEF SInv, SupervisorTypeOK, TypeOK
  <1>3. QueueStep /\ now <= now'
    BY <1>1, <1>2 DEF QueueStep
  <1>4. /\ attempt' = attempt /\ runtime' = runtime
        /\ \A b \in Attempts : attempt[b].state \in Live => RowsKept(b)
    BY <1>1 DEF tables, RowsKept
  <1> QED BY <1>1, <1>3, <1>4, OthersKeep

-------------------------------------------------------------------------------
(* The invariant, and what follows from it.                                    *)

LEMMA SupervisorInvInit == SupervisorInit => SInv
  <1> SUFFICES ASSUME SupervisorInit PROVE SInv
    OBVIOUS
  <1>1. Init /\ phase = "down" /\ me = None /\ plan = Idle /\ todo = {} /\ seen = 0
        /\ held = [a \in Attempts |-> NotHeld] /\ reserved = {}
        /\ process = [a \in Attempts |-> "none"] /\ receipt = [a \in Attempts |-> "none"]
        /\ lost = {} /\ outages = 0
    BY DEF SupervisorInit
  <1>2. BInv /\ TypeOK
    BY <1>1, BackoffInit DEF BInv, QInv, TInv
  <1>3. Known = {} /\ plan.do = "idle" /\ plan.attempt = None
    BY <1>1 DEF Known, Idle
  <1>4. SupervisorTypeOK
    BY <1>1, <1>2, SupervisorAssumption
       DEF SupervisorTypeOK, Idle, Steps, Reasons, NotHeld, HeldRow
  <1>5. Claimed /\ RuntimeRows
    BY <1>1, QueueAssumption DEF Init, Claimed, RuntimeRows, NoAttempt, NoJob
  <1>6. MemoryMatchesQueue /\ BoundaryRecords /\ StartsFresh /\ Bookkeeping /\ ChildrenHeld
    BY <1>1, <1>3 DEF MemoryMatchesQueue, BoundaryRecords, StartsFresh, Bookkeeping, ChildrenHeld
  <1>7. PlanShape
    BY <1>1, <1>3 DEF Init, PlanShape
  <1> QED BY <1>2, <1>4, <1>5, <1>6, <1>7 DEF SInv

LEMMA ControllerKeeps == ASSUME SInv, Controller PROVE SInv'
  <1>1. CASE Recovery
    BY <1>1, ReconcileVisitKeeps, EndReconcileKeeps DEF Recovery
  <1>2. CASE Settle
    BY <1>2, KillKeeps, CompleteReceiptKeeps, CompleteWithdrawnKeeps, CompleteInvalidKeeps,
       ShutdownInvalidKeeps, StartupAbortsKeeps, CancelKeeps, RecordFailureKeeps DEF Settle
  <1>3. CASE Cycle
    BY <1>3, BeginCycleKeeps, VisitStopsKeeps, VisitProbeFailsKeeps, VisitRenewsKeeps,
       VisitContinuesKeeps, VisitExitedKeeps, ClaimJobKeeps, EndCycleKeeps, ReserveKeeps,
       AdmissionLostKeeps, SpawnWithdrawnKeeps, SpawnKeeps, SpawnFailsKeeps, RegisterKeeps,
       RegisterWithdrawnKeeps DEF Cycle
  <1>4. CASE Shutdown
    BY <1>4, ShutdownVisitKeeps, EndShutdownKeeps DEF Shutdown
  <1> QED BY <1>1, <1>2, <1>3, <1>4 DEF Controller

LEMMA SupervisorInvStep == ASSUME SInv, [SupervisorNext]_allVars PROVE SInv'
  <1>1. CASE Start
    BY <1>1, StartKeeps
  <1>2. CASE Controller
    BY <1>2, ControllerKeeps
  <1>3. CASE Fault
    BY <1>3, RequestStopKeeps, CrashKeeps, CycleFailsKeeps, BoundaryFailsKeeps DEF Fault
  <1>4. CASE \E a \in Attempts : ChildStep(a)
    BY <1>4, ChildKeeps
  <1>5. CASE \E j \in Jobs : Client(j)
    BY <1>5, ClientKeeps
  <1>6. CASE Clock
    BY <1>6, ClockKeeps
  <1>7. CASE UNCHANGED allVars
    <2>1. UNCHANGED vars /\ UNCHANGED <<memory, host, outages>>
      BY <1>7 DEF allVars
    <2>2. now \in Nat
      BY DEF SInv, SupervisorTypeOK, TypeOK
    <2>3. UNCHANGED tables /\ now' = now /\ attempt' = attempt /\ runtime' = runtime
      BY <2>1 DEF vars, tables
    <2>4. QueueStep /\ now <= now'
      BY <2>2, <2>3 DEF QueueStep
    <2>5. \A b \in Attempts : attempt[b].state \in Live => RowsKept(b)
      BY <2>1 DEF vars, RowsKept
    <2> QED BY <2>1, <2>3, <2>4, <2>5, OthersKeep
  <1> QED BY <1>1, <1>2, <1>3, <1>4, <1>5, <1>6, <1>7 DEF SupervisorNext

LEMMA SupervisorInvariant == SupervisorSpec => []SInv
  <1> QED BY SupervisorInvInit, SupervisorInvStep, PTL DEF SupervisorSpec

\* The supervised program keeps its state well-typed (SingleHostSupervisor and
\* the queue it drives).
THEOREM SupervisorTypes == SupervisorSpec => []SupervisorTypeOK
  <1>1. SInv => SupervisorTypeOK
    BY DEF SInv
  <1> QED BY <1>1, SupervisorInvariant, PTL

\* What the controller remembers of an attempt is what the queue stores, at
\* every point between two of its transactions and whatever clients do there,
\* so no version it presents is refused (_SupervisedAttempt.record).
THEOREM MemoryIsTrue == SupervisorSpec => []MemoryMatchesQueue
  <1>1. SInv => MemoryMatchesQueue
    BY DEF SInv
  <1> QED BY <1>1, SupervisorInvariant, PTL

\* However controllers end, their successor finds rows it can recover: a lease
\* row exactly for a running attempt, by the controller that claimed it
\* (list_unfinished_attempts).
THEOREM RowsRecoverable == SupervisorSpec => []RecoverableRows
  <1>1. SInv => RecoverableRows
    BY DEF SInv, RuntimeRows, RecoverableRows
  <1> QED BY <1>1, SupervisorInvariant, PTL

\* Between two steps of a cycle exactly the supervised children own admission
\* reservations (HostAdmissionController.reserve and release).
THEOREM NoReservationLeaks == SupervisorSpec => []ReservationsMatch
  <1>1. SInv => ReservationsMatch
    <2> SUFFICES ASSUME SInv, phase = "serving", plan \in {Idle, Visiting}
                 PROVE  reserved = Active
      BY DEF ReservationsMatch
    <2>1. plan.attempt = None /\ reserved \subseteq Attempts /\ Active \subseteq Attempts
      BY DEF SInv, SupervisorTypeOK, Idle, Visiting, Active, Known
    <2> QED BY <2>1, QueueAssumption DEF SInv, Bookkeeping
  <1> QED BY <1>1, SupervisorInvariant, PTL

\* No attempt is decided while its child runs, but for a child a crash between
\* spawn and registration left unknown (terminate before every finish_ call).
THEOREM ChildrenEndFirst == SupervisorSpec => []ChildEndsFirst
  <1>1. SInv => ChildEndsFirst
    BY DEF SInv, ChildrenHeld, MemoryMatchesQueue, ChildEndsFirst, Live
  <1> QED BY <1>1, SupervisorInvariant, PTL

\* The calls of the supervised program, made from a memory that may be stale
\* and with a clock that runs on, keep the queue consistent: a job shows its
\* current attempt, has one live attempt at most, and succeeded by a receipt for
\* its own spec (_require_current_attempt, complete_verified).
THEOREM SupervisedQueueConsistent ==
    SupervisorSpec => [](JobMirrorsAttempt /\ OneLiveAttempt /\ SuccessIsVerified)
  <1>1. SInv => JobMirrorsAttempt /\ OneLiveAttempt /\ SuccessIsVerified
    BY DEF SInv, BInv, QInv
  <1> QED BY <1>1, SupervisorInvariant, PTL

\* The backoffs _finish_record computes are honoured: no claim starts an attempt
\* before the time the failure of its predecessor asked for.
THEOREM SupervisedBackoffsHonoured == SupervisorSpec => [](RetryScheduleSound /\ BackoffHonoured)
  <1>1. SInv => RetryScheduleSound /\ BackoffHonoured
    BY DEF SInv, BInv
  <1> QED BY <1>1, SupervisorInvariant, PTL

-------------------------------------------------------------------------------
(* What a step does to the queue: one call of the controller about an attempt  *)
(* it remembers, one of a client, or nothing.                                  *)

ControllerCall ==
    \/ \E a \in Known :
          \/ CompleteVerified(a, held[a].version,
                              [attempt |-> a, spec |-> job[JobOf(a)].spec])
          \/ FinishCancelled(a, held[a].version)
          \/ \E why \in FailureKinds : Fail(a, why)
          \/ RegisterProcess(a, held[a].version, me, seen)
          \/ Heartbeat(a, held[a].version, me, seen)
    \/ \E lane \in Lanes, j \in Jobs, a \in Attempts : Claim(me, LaneTypes(lane), seen, j, a)

LEMMA SettleCalls == ASSUME SInv, Settle PROVE ControllerCall \/ UNCHANGED vars
  <1>1. CASE \/ Kill \/ CompleteWithdrawn \/ CompleteInvalid \/ ShutdownInvalid \/ StartupAborts
    BY <1>1 DEF Kill, CompleteWithdrawn, CompleteInvalid, ShutdownInvalid, StartupAborts
  <1>2. CASE CompleteReceipt
    BY <1>2, PlannedAttempt DEF CompleteReceipt, ControllerCall
  <1>3. CASE Cancel
    BY <1>3, PlannedAttempt DEF Cancel, ControllerCall
  <1>4. CASE RecordFailure
    <2>1. plan.do = "fail" /\ Fail(plan.attempt, plan.why)
      BY <1>4 DEF RecordFailure
    <2>2. plan.attempt \in Known /\ plan.why \in FailureKinds
      BY <2>1, PlannedAttempt DEF SInv, PlanShape
    <2> QED BY <2>1, <2>2 DEF ControllerCall
  <1> QED BY <1>1, <1>2, <1>3, <1>4 DEF Settle

LEMMA VisitCalls ==
    ASSUME SInv, NEW a \in Attempts,
           \/ VisitStops(a) \/ VisitProbeFails(a) \/ VisitRenews(a) \/ VisitContinues(a)
           \/ VisitExited(a)
    PROVE  ControllerCall \/ UNCHANGED vars
  <1>1. CASE VisitStops(a) \/ VisitProbeFails(a) \/ VisitContinues(a) \/ VisitExited(a)
    BY <1>1 DEF VisitStops, VisitProbeFails, VisitContinues, VisitExited
  <1>2. CASE VisitRenews(a)
    <2>1. a \in todo /\ plan = Visiting /\ Heartbeat(a, held[a].version, me, seen)
      BY <1>2 DEF VisitRenews, Probed
    <2> QED BY <2>1, VisitedAttempt DEF ControllerCall
  <1> QED BY <1>1, <1>2

LEMMA CycleCalls == ASSUME SInv, Cycle PROVE ControllerCall \/ UNCHANGED vars
  <1>1. CASE BeginCycle \/ EndCycle \/ Reserve \/ Spawn \/ RegisterWithdrawn
    BY <1>1 DEF BeginCycle, EndCycle, Reserve, Spawn, RegisterWithdrawn
  <1>2. ASSUME NEW lane \in Lanes, NEW j \in Jobs, ClaimJob(lane, j) PROVE ControllerCall
    <2>1. PICK a \in Attempts : Claim(me, LaneTypes(lane), seen, j, a)
      BY <1>2 DEF ClaimJob, FreshAttempts
    <2> QED BY <2>1 DEF ControllerCall
  <1>3. CASE AdmissionLost
    <2>1. plan.do = "reserve" /\ Fail(plan.attempt, "RESOURCE_EXHAUSTED")
      BY <1>3 DEF AdmissionLost
    <2> QED BY <2>1, PlannedAttempt, SupervisorAssumption DEF ControllerCall
  <1>4. CASE SpawnFails
    <2>1. plan.do = "spawn" /\ Fail(plan.attempt, "TRANSIENT")
      BY <1>4 DEF SpawnFails
    <2> QED BY <2>1, PlannedAttempt, SupervisorAssumption DEF ControllerCall
  <1>5. CASE SpawnWithdrawn
    BY <1>5, PlannedAttempt DEF SpawnWithdrawn, ControllerCall
  <1>6. CASE Register
    BY <1>6, PlannedAttempt DEF Register, ControllerCall
  <1> QED BY <1>1, <1>2, <1>3, <1>4, <1>5, <1>6, VisitCalls DEF Cycle

LEMMA StepCalls ==
    ASSUME SInv, [SupervisorNext]_allVars
    PROVE  \/ ControllerCall
           \/ \E j \in Jobs : Client(j)
           \/ UNCHANGED tables
  <1>0. UNCHANGED vars => UNCHANGED tables
    BY DEF vars, tables
  <1>1. CASE Start \/ Recovery \/ Shutdown
    BY <1>0, <1>1 DEF Start, Recovery, ReconcileVisit, EndReconcile, Shutdown, ShutdownVisit,
                      EndShutdown
  <1>2. CASE Settle \/ Cycle
    BY <1>0, <1>2, SettleCalls, CycleCalls
  <1>3. CASE Fault
    BY <1>0, <1>3 DEF Fault, RequestStop, Crash, CycleFails, BoundaryFails
  <1>4. CASE \E a \in Attempts : ChildStep(a)
    BY <1>0, <1>4 DEF ChildStep, LinkReceipt, PublishReceipt, ChildExits, SpoilOutput
  <1>5. CASE Clock
    BY <1>5 DEF Clock, tables
  <1>6. CASE UNCHANGED allVars
    BY <1>0, <1>6 DEF allVars
  <1> QED BY <1>1, <1>2, <1>3, <1>4, <1>5, <1>6 DEF SupervisorNext, Controller

-------------------------------------------------------------------------------
(* Cancel requests.                                                            *)

LEMMA WithdrawnMove ==
    ASSUME QInv, NEW a \in Attempts, NEW expected \in 0..attempt[a].version, NEW state,
           MoveStep(a, expected, state), job[JobOf(a)].cancel => state = "CANCELLED"
    PROVE  WithdrawnEnds
  <1>1. /\ JobOf(a) \in Jobs /\ job'[JobOf(a)].state = state
        /\ \A k \in Jobs : k # JobOf(a) => job'[k] = job[k]
    BY MoveStepRows
  <1> QED BY <1>1 DEF WithdrawnEnds

LEMMA WithdrawnCall == ASSUME SInv, ControllerCall PROVE WithdrawnEnds
  <1>0. QInv /\ TInv
    BY DEF SInv, BInv, QInv
  <1>1. ASSUME NEW a \in Known
        PROVE  a \in Attempts /\ held[a].version \in 0..attempt[a].version
    BY HeldRows
  <1>2. ASSUME NEW a \in Known,
               CompleteVerified(a, held[a].version, [attempt |-> a, spec |-> job[JobOf(a)].spec])
        PROVE  WithdrawnEnds
    <2>1. MoveStep(a, held[a].version, "SUCCEEDED") /\ ~job[JobOf(a)].cancel
      BY <1>2 DEF CompleteVerified, MoveStep, LegalNext, Live, Terminal
    <2> QED BY <1>0, <1>1, <2>1, WithdrawnMove
  <1>3. ASSUME NEW a \in Known, FinishCancelled(a, held[a].version) PROVE WithdrawnEnds
    <2>1. MoveStep(a, held[a].version, "CANCELLED")
      BY <1>3 DEF FinishCancelled, Transition, MoveStep, LegalNext, Live, Terminal
    <2> QED BY <1>0, <1>1, <2>1, WithdrawnMove
  <1>4. ASSUME NEW a \in Known, NEW why \in FailureKinds, Fail(a, why) PROVE WithdrawnEnds
    <2>1. CASE FinishForGood(a, held[a].version, why)
      <3>1. /\ MoveStep(a, held[a].version, UnsuccessfulState(a, why))
            /\ job[JobOf(a)].cancel => UnsuccessfulState(a, why) = "CANCELLED"
        BY <2>1 DEF FinishForGood, MoveStep, UnsuccessfulState, Terminal
      <3> QED BY <1>0, <1>1, <3>1, WithdrawnMove
    <2>2. ASSUME NEW t, FinishAndRequeue(a, held[a].version, why, t) PROVE WithdrawnEnds
      <3>1. /\ JobOf(a) \in Jobs /\ ~job[JobOf(a)].cancel
            /\ \A k \in Jobs : k # JobOf(a) => job'[k] = job[k]
        BY <1>0, <1>1, <2>2, RequeueStepRows
      <3> QED BY <3>1 DEF WithdrawnEnds
    <2> QED BY <1>4, <2>1, <2>2 DEF Fail, FinishUnsuccessful
  <1>5. ASSUME NEW a \in Known, RegisterProcess(a, held[a].version, me, seen) PROVE WithdrawnEnds
    <2>1. MoveStep(a, held[a].version, "RUNNING") /\ ~job[JobOf(a)].cancel
      BY <1>5 DEF RegisterProcess, MoveStep, Live
    <2> QED BY <1>0, <1>1, <2>1, WithdrawnMove
  <1>6. ASSUME NEW a \in Known, Heartbeat(a, held[a].version, me, seen) PROVE WithdrawnEnds
    BY <1>6 DEF Heartbeat, WithdrawnEnds
  <1>7. ASSUME NEW lane \in Lanes, NEW j \in Jobs, NEW a \in Attempts,
               Claim(me, LaneTypes(lane), seen, j, a)
        PROVE  WithdrawnEnds
    <2>1. job[j].state = "QUEUED" /\ \A k \in Jobs : k # j => job'[k] = job[k]
      BY <1>0, <1>7 DEF Claim, Claimable, TInv, TypeOK
    <2> QED BY <2>1 DEF WithdrawnEnds, Live
  <1> QED BY <1>2, <1>3, <1>4, <1>5, <1>6, <1>7 DEF ControllerCall

LEMMA WithdrawnClient == ASSUME SInv, NEW j \in Jobs, Client(j) PROVE WithdrawnEnds
  <1>0. TInv
    BY DEF SInv, BInv, QInv
  <1>1. \/ \E spec \in Specs, key \in Keys : Submit(j, spec, key)
        \/ RequestCancel(j)
        \/ RequestRetry(j)
    BY DEF Client
  <1>2. CASE \E spec \in Specs, key \in Keys : Submit(j, spec, key)
    BY <1>0, <1>2, SubmitRows DEF WithdrawnEnds, Live
  <1>3. CASE RequestCancel(j)
    BY <1>0, <1>3, CancelRows DEF WithdrawnEnds, Live
  <1>4. CASE RequestRetry(j)
    <2>1. job[j].state \in {"FAILED", "INTERRUPTED"}
      BY <1>4 DEF RequestRetry
    <2> QED BY <1>0, <1>4, <2>1, RetryRows DEF WithdrawnEnds, Live
  <1> QED BY <1>1, <1>2, <1>3, <1>4

\* A live job that was asked to cancel ends CANCELLED: no receipt, failure or
\* retry of the supervised program gives it another end (_finish_record and
\* the conflict CompleteJobAttempt raises).
THEOREM CancelAlwaysPrevails == SupervisorSpec => CancelPrevails
  <1>1. ASSUME SInv, [SupervisorNext]_allVars PROVE WithdrawnEnds
    <2>1. CASE UNCHANGED tables
      BY <2>1 DEF tables, WithdrawnEnds
    <2> QED BY <1>1, <2>1, StepCalls, WithdrawnCall, WithdrawnClient
  <1>2. SInv /\ [SupervisorNext]_allVars => [WithdrawnEnds]_allVars
    BY <1>1
  <1> QED BY <1>2, SupervisorInvariant, PTL DEF SupervisorSpec, CancelPrevails

-------------------------------------------------------------------------------
(* Retries.                                                                    *)

\* Only an attempt whose number leaves the policy another one is retried by
\* itself.
RetriesCounted ==
    \A a \in Attempts : failure[a].retry =>
        attempt[a].job \in Jobs /\ attempt[a].number < MaxAttempts

\* A step that sets no retry and changes no number keeps them counted.
LEMMA CountedKept ==
    ASSUME RetriesCounted,
           \A b \in Attempts : failure[b].retry \/ ~failure'[b].retry,
           \A b \in Attempts : failure[b].retry =>
               attempt'[b].job = attempt[b].job /\ attempt'[b].number = attempt[b].number
    PROVE  RetriesCounted'
  BY DEF RetriesCounted

LEMMA MoveCounted ==
    ASSUME SInv, RetriesCounted, NEW a \in Attempts, NEW expected, NEW state,
           Move(a, expected, state),
           \A b \in Attempts : failure[b].retry \/ ~failure'[b].retry
    PROVE  RetriesCounted'
  <1>1. attempt \in [Attempts -> AttemptRow]
    BY DEF SInv, SupervisorTypeOK, TypeOK
  <1>2. \A b \in Attempts :
            attempt'[b].job = attempt[b].job /\ attempt'[b].number = attempt[b].number
    BY <1>1 DEF Move, AttemptRow
  <1> QED BY <1>2, CountedKept

LEMMA FailCounted ==
    ASSUME SInv, RetriesCounted, NEW a \in Known, NEW why \in FailureKinds, Fail(a, why)
    PROVE  RetriesCounted'
  <1>0. /\ QInv /\ TypeOK /\ a \in Attempts /\ held[a].version \in 0..attempt[a].version
        /\ attempt \in [Attempts -> AttemptRow] /\ failure \in [Attempts -> FailureRow]
    BY HeldRows DEF SInv, BInv, SupervisorTypeOK, TypeOK
  <1>1. CASE FinishForGood(a, held[a].version, why)
    <2>1. /\ Move(a, held[a].version, UnsuccessfulState(a, why))
          /\ failure' = [failure EXCEPT ![a] = [kind |-> why, retry |-> FALSE, retryAt |-> 0]]
      BY <1>1 DEF FinishForGood
    <2>2. \A b \in Attempts : failure[b].retry \/ ~failure'[b].retry
      BY <1>0, <2>1
    <2> QED BY <1>0, <2>1, <2>2, MoveCounted
  <1>2. ASSUME NEW t, MayRetry(a, why), FinishAndRequeue(a, held[a].version, why, t)
        PROVE  RetriesCounted'
    <2>1. JobOf(a) \in Jobs
      BY <1>0, <1>2, RequeueStepRows
    <2>2. /\ attempt'[a].job = attempt[a].job /\ attempt'[a].number = attempt[a].number
          /\ \A b \in Attempts : b # a => attempt'[b] = attempt[b] /\ failure'[b] = failure[b]
      BY <1>0, <1>2 DEF FinishAndRequeue, AttemptRow
    <2>3. attempt[a].number < MaxAttempts
      BY <1>2 DEF MayRetry
    <2> QED BY <2>1, <2>2, <2>3 DEF RetriesCounted, JobOf
  <1> QED BY <1>1, <1>2 DEF Fail, FinishUnsuccessful

LEMMA CallCounted == ASSUME SInv, RetriesCounted, ControllerCall PROVE RetriesCounted'
  <1>0. /\ QInv /\ attempt \in [Attempts -> AttemptRow] /\ \A a \in Known : a \in Attempts
    BY DEF SInv, BInv, SupervisorTypeOK, TypeOK, Known
  <1>1. ASSUME NEW a \in Known,
               CompleteVerified(a, held[a].version, [attempt |-> a, spec |-> job[JobOf(a)].spec])
        PROVE  RetriesCounted'
    <2>1. Move(a, held[a].version, "SUCCEEDED") /\ failure' = failure
      BY <1>1 DEF CompleteVerified
    <2> QED BY <1>0, <2>1, MoveCounted
  <1>2. ASSUME NEW a \in Known, FinishCancelled(a, held[a].version) PROVE RetriesCounted'
    <2>1. Move(a, held[a].version, "CANCELLED") /\ failure' = failure
      BY <1>2 DEF FinishCancelled, Transition
    <2> QED BY <1>0, <2>1, MoveCounted
  <1>3. ASSUME NEW a \in Known, RegisterProcess(a, held[a].version, me, seen)
        PROVE  RetriesCounted'
    <2>1. Move(a, held[a].version, "RUNNING") /\ failure' = failure
      BY <1>3 DEF RegisterProcess
    <2> QED BY <1>0, <2>1, MoveCounted
  <1>4. ASSUME NEW a \in Known, Heartbeat(a, held[a].version, me, seen) PROVE RetriesCounted'
    BY <1>4, CountedKept DEF Heartbeat
  <1>5. ASSUME NEW lane \in Lanes, NEW j \in Jobs, NEW a \in Attempts,
               Claim(me, LaneTypes(lane), seen, j, a)
        PROVE  RetriesCounted'
    <2>1. /\ attempt[a].state = "ABSENT" /\ failure' = failure
          /\ \A b \in Attempts : b # a => attempt'[b] = attempt[b]
      BY <1>0, <1>5 DEF Claim
    <2>2. ~failure[a].retry
      BY <2>1 DEF SInv, BInv, RetriedIsOver, Terminal
    <2> QED BY <2>1, <2>2, CountedKept
  <1> QED BY <1>1, <1>2, <1>3, <1>4, <1>5, FailCounted DEF ControllerCall

LEMMA StepCounted == ASSUME SInv, RetriesCounted, [SupervisorNext]_allVars PROVE RetriesCounted'
  <1>1. CASE UNCHANGED tables
    BY <1>1, CountedKept DEF tables
  <1>2. ASSUME NEW j \in Jobs, Client(j) PROVE RetriesCounted'
    <2>1. attempt' = attempt /\ failure' = failure
      BY <1>2 DEF Client, Submit, RequestCancel, CancelQueued, CancelLive, RequestRetry
    <2> QED BY <2>1, CountedKept
  <1> QED BY <1>1, <1>2, StepCalls, CallCounted

\* The attempts of a job that were retried by themselves have distinct numbers
\* below max_attempts.
LEMMA CountedBound == ASSUME SInv, RetriesCounted PROVE AutomaticRetriesBounded
  <1> SUFFICES ASSUME NEW j \in Jobs
               PROVE  Cardinality({a \in AttemptsOf(j) : failure[a].retry}) < MaxAttempts
    BY DEF AutomaticRetriesBounded
  <1> DEFINE retried == {a \in AttemptsOf(j) : failure[a].retry}
             numbered == [a \in retried |-> attempt[a].number]
             top == MaxAttempts - 1
  <1>0. MaxAttempts \in Nat \ {0} /\ top \in Nat
    BY SupervisorAssumption
  <1>1. \A a \in retried : /\ a \in Attempts /\ attempt[a].job = j
                           /\ attempt[a].number \in 1..top
    <2> SUFFICES ASSUME NEW a \in retried
                 PROVE  a \in Attempts /\ attempt[a].job = j /\ attempt[a].number \in 1..top
      OBVIOUS
    <2>1. a \in Attempts /\ attempt[a].job = j /\ failure[a].retry
      BY DEF AttemptsOf
    <2>2. attempt[a].number < MaxAttempts
      BY <2>1 DEF RetriesCounted
    <2>3. attempt[a].number \in Nat \ {0}
      BY <2>1 DEF SInv, Claimed
    <2> QED BY <1>0, <2>1, <2>2, <2>3
  <1>2. \A a, b \in retried : attempt[a].number = attempt[b].number => a = b
    BY <1>1 DEF SInv, BInv, Numbering, NumbersDistinct
  <1>3. numbered \in Injection(retried, 1..top)
    <2>1. numbered \in [retried -> 1..top]
      BY <1>1
    <2>2. \A a, b \in retried : numbered[a] = numbered[b] => a = b
      BY <1>2
    <2> QED BY <2>1, <2>2 DEF Injection, IsInjective
  <1>4. IsFiniteSet(1..top) /\ Cardinality(1..top) = top
    BY <1>0, FS_Interval
  <1> HIDE DEF numbered, retried
  <1>5. IsFiniteSet(retried) /\ Cardinality(retried) <= Cardinality(1..top)
    BY <1>3, <1>4, FS_Injection
  <1>6. Cardinality(retried) \in Nat
    BY <1>5, FS_CardinalityType
  <1>7. Cardinality(retried) < MaxAttempts
    BY <1>0, <1>4, <1>5, <1>6
  <1> QED BY <1>7 DEF retried

\* However often controllers crash and recovery fails an attempt, a job tries
\* again by itself fewer times than RetryPolicy.max_attempts.
THEOREM RetriesAreBounded == SupervisorSpec => []AutomaticRetriesBounded
  <1>1. SupervisorInit => RetriesCounted
    BY DEF SupervisorInit, Init, RetriesCounted, NoFailure
  <1>2. SInv /\ RetriesCounted /\ [SupervisorNext]_allVars => RetriesCounted'
    BY StepCounted
  <1>3. SInv /\ RetriesCounted => AutomaticRetriesBounded
    BY CountedBound
  <1> QED BY <1>1, <1>2, <1>3, SupervisorInvariant, PTL DEF SupervisorSpec

-------------------------------------------------------------------------------
(* Budgets.                                                                    *)

\* A stored attempt's job is stored.
JobsOfAttempts ==
    \A a \in Attempts : attempt[a].job \in Jobs => job[attempt[a].job].state # "ABSENT"

\* A stored job keeps its spec, a stored attempt its job.
RowsStay ==
    /\ \A k \in Jobs : job[k].state # "ABSENT" =>
           job'[k].state # "ABSENT" /\ job'[k].spec = job[k].spec
    /\ \A a \in Attempts :
           \/ attempt'[a].job = attempt[a].job
           \/ attempt[a].job \notin Jobs /\ job'[attempt'[a].job].state # "ABSENT"

LEMMA MoveRowsStay ==
    ASSUME QInv, NEW a \in Attempts, NEW expected \in 0..attempt[a].version, NEW state,
           MoveStep(a, expected, state)
    PROVE  RowsStay
  <1>1. /\ JobOf(a) \in Jobs /\ expected \in Nat /\ TInv
        /\ \A k \in Jobs : k # JobOf(a) => job'[k] = job[k]
        /\ job'[JobOf(a)].state = state /\ state # "ABSENT"
        /\ \A b \in Attempts : b # a => attempt'[b] = attempt[b]
    BY MoveStepRows DEF MoveStep, Live, Terminal, QInv
  <1>2. job'[JobOf(a)].spec = job[JobOf(a)].spec /\ attempt'[a].job = attempt[a].job
    BY <1>1, MoveRows DEF MoveStep
  <1> QED BY <1>1, <1>2 DEF RowsStay

LEMMA CallRowsStay == ASSUME SInv, ControllerCall PROVE RowsStay
  <1>0. /\ QInv /\ job \in [Jobs -> JobRow] /\ attempt \in [Attempts -> AttemptRow]
        /\ \A a \in Known : a \in Attempts /\ held[a].version \in 0..attempt[a].version
    BY HeldRows DEF SInv, BInv, SupervisorTypeOK, TypeOK
  <1>1. ASSUME NEW a \in Known,
               CompleteVerified(a, held[a].version, [attempt |-> a, spec |-> job[JobOf(a)].spec])
        PROVE  RowsStay
    <2>1. MoveStep(a, held[a].version, "SUCCEEDED")
      BY <1>1 DEF CompleteVerified, MoveStep, LegalNext, Live, Terminal
    <2> QED BY <1>0, <2>1, MoveRowsStay
  <1>2. ASSUME NEW a \in Known, FinishCancelled(a, held[a].version) PROVE RowsStay
    <2>1. MoveStep(a, held[a].version, "CANCELLED")
      BY <1>2 DEF FinishCancelled, Transition, MoveStep, LegalNext, Live, Terminal
    <2> QED BY <1>0, <2>1, MoveRowsStay
  <1>3. ASSUME NEW a \in Known, NEW why \in FailureKinds, Fail(a, why) PROVE RowsStay
    <2>1. CASE FinishForGood(a, held[a].version, why)
      <3>1. MoveStep(a, held[a].version, UnsuccessfulState(a, why))
        BY <2>1 DEF FinishForGood, MoveStep, UnsuccessfulState, Terminal
      <3> QED BY <1>0, <3>1, MoveRowsStay
    <2>2. ASSUME NEW t, FinishAndRequeue(a, held[a].version, why, t) PROVE RowsStay
      <3>1. /\ JobOf(a) \in Jobs
            /\ \A k \in Jobs : k # JobOf(a) => job'[k] = job[k]
            /\ \A b \in Attempts : b # a => attempt'[b] = attempt[b]
            /\ job'[JobOf(a)].state = "QUEUED"
        BY <1>0, <2>2, RequeueStepRows
      <3>2. /\ job' = [job EXCEPT ![JobOf(a)] =
                          [job[JobOf(a)] EXCEPT !.state = "QUEUED",
                                                !.version = held[a].version + 1,
                                                !.current = None]]
            /\ attempt' = [attempt EXCEPT ![a] =
                              [attempt[a] EXCEPT !.state = UnsuccessfulState(a, why),
                                                 !.version = held[a].version + 1]]
        BY <2>2 DEF FinishAndRequeue
      <3>3. job'[JobOf(a)].spec = job[JobOf(a)].spec
        BY <1>0, <3>1, <3>2 DEF JobRow
      <3>4. attempt'[a].job = attempt[a].job
        BY <1>0, <3>2 DEF AttemptRow
      <3> QED BY <3>1, <3>3, <3>4 DEF RowsStay
    <2> QED BY <1>3, <2>1, <2>2 DEF Fail, FinishUnsuccessful
  <1>4. ASSUME NEW a \in Known, RegisterProcess(a, held[a].version, me, seen) PROVE RowsStay
    <2>1. MoveStep(a, held[a].version, "RUNNING")
      BY <1>4 DEF RegisterProcess, MoveStep, Live
    <2> QED BY <1>0, <2>1, MoveRowsStay
  <1>5. ASSUME NEW a \in Known, Heartbeat(a, held[a].version, me, seen) PROVE RowsStay
    BY <1>5 DEF Heartbeat, RowsStay
  <1>6. ASSUME NEW lane \in Lanes, NEW j \in Jobs, NEW a \in Attempts,
               Claim(me, LaneTypes(lane), seen, j, a)
        PROVE  RowsStay
    <2>1. /\ attempt[a].state = "ABSENT" /\ attempt'[a].job = j
          /\ \A b \in Attempts : b # a => attempt'[b] = attempt[b]
          /\ job'[j].spec = job[j].spec
      BY <1>0, <1>6, ClaimRowsKept
    <2>2. /\ attempt[a].job \notin Jobs
      BY <1>0, <2>1 DEF QInv, TInv, AttemptHasJob
    <2>3. /\ \A k \in Jobs : k # j => job'[k] = job[k]
          /\ job'[j].state # "ABSENT"
      BY <1>0, <1>6 DEF Claim, JobRow
    <2> QED BY <2>1, <2>2, <2>3 DEF RowsStay
  <1> QED BY <1>1, <1>2, <1>3, <1>4, <1>5, <1>6 DEF ControllerCall

LEMMA ClientRowsStay == ASSUME SInv, NEW j \in Jobs, Client(j) PROVE RowsStay
  <1>0. TInv /\ job \in [Jobs -> JobRow]
    BY DEF SInv, BInv, QInv, SupervisorTypeOK, TypeOK
  <1>1. attempt' = attempt
    BY DEF Client, Submit, RequestCancel, CancelQueued, CancelLive, RequestRetry
  <1>2. \/ \E spec \in Specs, key \in Keys : Submit(j, spec, key)
        \/ RequestCancel(j)
        \/ RequestRetry(j)
    BY DEF Client
  <1>3. CASE \E spec \in Specs, key \in Keys : Submit(j, spec, key)
    BY <1>0, <1>1, <1>3, SubmitRows DEF RowsStay
  <1>4. CASE RequestCancel(j)
    BY <1>0, <1>1, <1>4, CancelRows DEF RowsStay, Live
  <1>5. CASE RequestRetry(j)
    <2>1. job'[j].spec = job[j].spec
      BY <1>0, <1>5 DEF RequestRetry, JobRow
    <2> QED BY <1>0, <1>1, <1>5, <2>1, RetryRows DEF RowsStay
  <1> QED BY <1>2, <1>3, <1>4, <1>5

LEMMA StepRowsStay == ASSUME SInv, [SupervisorNext]_allVars PROVE RowsStay
  <1>1. UNCHANGED tables => RowsStay
    BY DEF tables, RowsStay
  <1> QED BY <1>1, StepCalls, CallRowsStay, ClientRowsStay

\* The lane of each stored attempt, and the sets of attempts a budget has room
\* for (HostResourceBudget).
LaneMap == [a \in Attempts |-> LaneOf[TypeOf[job[attempt[a].job].spec]]]
FitsIn(S, lanes) ==
    /\ IsFiniteSet(S)
    /\ \A lane \in Lanes : Cardinality({a \in S : lanes[a] = lane}) <= LaneLimit[lane]
    /\ Cardinality(S) <= MaxChildren

RunningChildren == {a \in Attempts \ lost : process[a] = "running"}

\* The reservations fit the budget, and so do the children that run.
BudgetKept ==
    /\ JobsOfAttempts
    /\ \A a \in reserved : attempt[a].job \in Jobs
    /\ FitsIn(reserved, LaneMap)
    /\ FitsIn(RunningChildren, LaneMap)

LEMMA NothingFits == ASSUME NEW lanes PROVE FitsIn({}, lanes)
  <1>1. IsFiniteSet({}) /\ Cardinality({}) = 0
    BY FS_EmptySet
  <1>2. \A lane \in Lanes : {a \in {} : lanes[a] = lane} = {} /\ LaneLimit[lane] \in Nat
    BY SupervisorAssumption
  <1>3. MaxChildren \in Nat
    BY SupervisorAssumption
  <1>4. \A lane \in Lanes : Cardinality({a \in {} : lanes[a] = lane}) <= LaneLimit[lane]
    BY <1>1, <1>2
  <1> QED BY <1>1, <1>3, <1>4 DEF FitsIn

LEMMA FewerFit ==
    ASSUME NEW S, NEW T \in SUBSET S, NEW before, NEW after, FitsIn(S, before),
           \A a \in T : after[a] = before[a]
    PROVE  FitsIn(T, after)
  <1>1. /\ IsFiniteSet(S) /\ Cardinality(S) <= MaxChildren /\ MaxChildren \in Nat
        /\ LaneLimit \in [Lanes -> Nat]
    BY SupervisorAssumption DEF FitsIn
  <1>2. /\ IsFiniteSet(T) /\ Cardinality(T) <= Cardinality(S)
        /\ Cardinality(T) \in Nat /\ Cardinality(S) \in Nat
    BY <1>1, FS_Subset, FS_CardinalityType
  <1>3. ASSUME NEW lane \in Lanes
        PROVE  Cardinality({a \in T : after[a] = lane}) <= LaneLimit[lane]
    <2> DEFINE wide == {a \in S : before[a] = lane}
               narrow == {a \in T : after[a] = lane}
    <2>1. IsFiniteSet(wide)
      <3>1. wide \in SUBSET S
        OBVIOUS
      <3> QED BY <1>1, <3>1, FS_Subset
    <2>2. narrow \in SUBSET wide
      OBVIOUS
    <2>3. Cardinality(wide) <= LaneLimit[lane]
      BY DEF FitsIn
    <2> HIDE DEF wide, narrow
    <2>4. /\ IsFiniteSet(narrow) /\ Cardinality(narrow) <= Cardinality(wide)
          /\ Cardinality(narrow) \in Nat /\ Cardinality(wide) \in Nat
      BY <2>1, <2>2, FS_Subset, FS_CardinalityType
    <2>5. Cardinality(narrow) <= LaneLimit[lane]
      BY <1>1, <2>3, <2>4
    <2> QED BY <2>5 DEF narrow
  <1> QED BY <1>1, <1>2, <1>3 DEF FitsIn

LEMMA OneMoreFits ==
    ASSUME NEW S, NEW lanes, NEW a, FitsIn(S, lanes),
           Cardinality({b \in S : lanes[b] = lanes[a]}) < LaneLimit[lanes[a]],
           Cardinality(S) < MaxChildren, lanes[a] \in Lanes
    PROVE  FitsIn(S \cup {a}, lanes)
  <1>1. /\ IsFiniteSet(S) /\ Cardinality(S) \in Nat /\ MaxChildren \in Nat
        /\ LaneLimit \in [Lanes -> Nat]
    BY SupervisorAssumption, FS_CardinalityType DEF FitsIn
  <1>2. IsFiniteSet(S \cup {a}) /\ Cardinality(S \cup {a}) <= MaxChildren
    <2>1. /\ IsFiniteSet(S \cup {a})
          /\ Cardinality(S \cup {a}) = IF a \in S THEN Cardinality(S) ELSE Cardinality(S) + 1
      BY <1>1, FS_AddElement, Zenon
    <2> QED BY <1>1, <2>1
  <1>3. ASSUME NEW lane \in Lanes
        PROVE  Cardinality({b \in S \cup {a} : lanes[b] = lane}) <= LaneLimit[lane]
    <2> DEFINE old == {b \in S : lanes[b] = lane}
    <2>1. IsFiniteSet(old)
      <3>1. old \in SUBSET S
        OBVIOUS
      <3> QED BY <1>1, <3>1, FS_Subset
    <2>2. CASE lane = lanes[a]
      <3>1. {b \in S \cup {a} : lanes[b] = lane} = old \cup {a}
        BY <2>2
      <3>2. Cardinality(old) < LaneLimit[lane]
        BY <2>2
      <3> HIDE DEF old
      <3>3. Cardinality(old) \in Nat
        BY <2>1, FS_CardinalityType
      <3>4. Cardinality(old \cup {a}) =
                IF a \in old THEN Cardinality(old) ELSE Cardinality(old) + 1
        BY <2>1, FS_AddElement, Zenon
      <3>5. Cardinality(old \cup {a}) <= LaneLimit[lane]
        BY <1>1, <3>2, <3>3, <3>4
      <3> QED BY <3>1, <3>5 DEF old
    <2>3. CASE lane # lanes[a]
      <3>1. {b \in S \cup {a} : lanes[b] = lane} = old
        BY <2>3
      <3> QED BY <3>1 DEF FitsIn
    <2> QED BY <2>2, <2>3
  <1> QED BY <1>2, <1>3 DEF FitsIn

\* Only Reserve makes a reservation, and only Spawn makes a child run.
ShrinkStep == reserved' \subseteq reserved /\ RunningChildren' \subseteq RunningChildren

LEMMA QuietShrinks ==
    ASSUME reserved' \subseteq reserved, UNCHANGED host PROVE ShrinkStep
  BY DEF ShrinkStep, RunningChildren, host

LEMMA SettleShrinks == ASSUME SInv, Settle PROVE ShrinkStep
  <1>1. CASE Kill
    <2>1. /\ reserved' = reserved /\ lost' = lost
          /\ \A a \in Attempts : process'[a] = "running" => process[a] = "running"
      BY <1>1 DEF Kill, SInv, SupervisorTypeOK
    <2> QED BY <2>1 DEF ShrinkStep, RunningChildren
  <1>2. CASE CompleteReceipt \/ Cancel \/ RecordFailure
    BY <1>2, QuietShrinks DEF CompleteReceipt, Cancel, RecordFailure, Finished
  <1>3. CASE CompleteWithdrawn \/ CompleteInvalid
    BY <1>3, QuietShrinks DEF CompleteWithdrawn, CompleteInvalid
  <1>4. CASE ShutdownInvalid \/ StartupAborts
    BY <1>4, QuietShrinks DEF ShutdownInvalid, StartupAborts, Exit
  <1> QED BY <1>1, <1>2, <1>3, <1>4 DEF Settle

LEMMA CycleShrinks == ASSUME SInv, Cycle PROVE ShrinkStep \/ Reserve \/ Spawn
  <1>1. CASE BeginCycle \/ EndCycle \/ Register \/ RegisterWithdrawn
    BY <1>1, QuietShrinks DEF BeginCycle, EndCycle, Register, RegisterWithdrawn
  <1>2. CASE AdmissionLost \/ SpawnWithdrawn \/ SpawnFails
    BY <1>2, QuietShrinks DEF AdmissionLost, SpawnWithdrawn, SpawnFails, Finished
  <1>3. ASSUME NEW lane \in Lanes, NEW j \in Jobs, ClaimJob(lane, j) PROVE ShrinkStep
    BY <1>3, QuietShrinks DEF ClaimJob
  <1>4. ASSUME NEW a \in Attempts,
               \/ VisitStops(a) \/ VisitProbeFails(a) \/ VisitRenews(a) \/ VisitContinues(a)
               \/ VisitExited(a)
        PROVE  ShrinkStep
    BY <1>4, QuietShrinks DEF VisitStops, VisitProbeFails, VisitRenews, VisitContinues, VisitExited
  <1> QED BY <1>1, <1>2, <1>3, <1>4 DEF Cycle

LEMMA FaultShrinks == ASSUME SInv, Fault PROVE ShrinkStep
  <1>1. CASE RequestStop
    BY <1>1, QuietShrinks DEF RequestStop
  <1>2. CASE BoundaryFails
    BY <1>2, QuietShrinks DEF BoundaryFails, Exit
  <1>3. CASE Crash
    BY <1>3 DEF Crash, Exit, ShrinkStep, RunningChildren
  <1>4. CASE CycleFails
    <2>1. /\ reserved' \subseteq reserved /\ lost' = lost
          /\ \A a \in Attempts : process'[a] = "running" => process[a] = "running"
      BY <1>4 DEF CycleFails, SInv, SupervisorTypeOK
    <2> QED BY <2>1 DEF ShrinkStep, RunningChildren
  <1> QED BY <1>1, <1>2, <1>3, <1>4 DEF Fault

LEMMA StepShrinks ==
    ASSUME SInv, [SupervisorNext]_allVars PROVE ShrinkStep \/ Reserve \/ Spawn
  <1>1. CASE Start
    BY <1>1, QuietShrinks DEF Start
  <1>2. CASE Recovery
    BY <1>2, QuietShrinks DEF Recovery, ReconcileVisit, EndReconcile
  <1>3. CASE Shutdown
    BY <1>3, QuietShrinks DEF Shutdown, ShutdownVisit, EndShutdown, Exit
  <1>4. CASE Settle \/ Cycle \/ Fault
    BY <1>4, SettleShrinks, CycleShrinks, FaultShrinks
  <1>5. ASSUME NEW a \in Attempts, ChildStep(a) PROVE ShrinkStep
    <2>1. /\ reserved' = reserved /\ lost' = lost
          /\ \A b \in Attempts : process'[b] = "running" => process[b] = "running"
      BY <1>5 DEF ChildStep, LinkReceipt, PublishReceipt, ChildExits, SpoilOutput, memory,
                  SInv, SupervisorTypeOK
    <2> QED BY <2>1 DEF ShrinkStep, RunningChildren
  <1>6. CASE Clock \/ (\E j \in Jobs : Client(j)) \/ UNCHANGED allVars
    <2>1. reserved' = reserved /\ UNCHANGED host
      BY <1>6 DEF Clock, Client, allVars, memory
    <2> QED BY <2>1, QuietShrinks
  <1> QED BY <1>1, <1>2, <1>3, <1>4, <1>5, <1>6 DEF SupervisorNext, Controller

\* While it serves, every child that runs has a reservation.
LEMMA RunningReserved ==
    ASSUME SInv, phase = "serving", plan.do \notin {"idle", "visit", "reserve"}
    PROVE  RunningChildren \cup {plan.attempt} \subseteq reserved
  <1>1. plan.attempt \in reserved
    BY DEF SInv, Bookkeeping
  <1>2. ASSUME NEW a \in RunningChildren PROVE a \in reserved
    <2>1. a \in Attempts /\ (attempt[a].state = "RUNNING" \/ a \in Known)
      BY DEF RunningChildren, SInv, ChildrenHeld
    <2>2. a \in Known
      BY <2>1 DEF SInv, Bookkeeping, Live
    <2> QED BY <1>1, <2>1, <2>2 DEF SInv, Bookkeeping
  <1> QED BY <1>1, <1>2

\* Attempts of stored jobs stay in their lanes.
LEMMA LanesStay ==
    ASSUME SInv, JobsOfAttempts, RowsStay
    PROVE  \A a \in Attempts : attempt[a].job \in Jobs => LaneMap'[a] = LaneMap[a]
  BY DEF JobsOfAttempts, RowsStay, LaneMap

LEMMA ReserveFits ==
    ASSUME SInv, FitsIn(reserved, LaneMap), Reserve PROVE FitsIn(reserved', LaneMap)
  <1> DEFINE a == plan.attempt
  <1>1. /\ a \in Attempts /\ reserved' = reserved \cup {a}
        /\ Fits(LaneOf[TypeOf[job[JobOf(a)].spec]])
        /\ JobOf(a) \in Jobs /\ job[JobOf(a)].state # "ABSENT"
    BY PlannedAttempt, HeldRows DEF Reserve, Live
  <1>2. job[JobOf(a)].spec \in Specs
    BY <1>1 DEF SInv, Claimed
  <1>3. LaneMap[a] = LaneOf[TypeOf[job[JobOf(a)].spec]] /\ LaneMap[a] \in Lanes
    BY <1>1, <1>2, QueueAssumption, SupervisorAssumption DEF LaneMap, JobOf
  <1>4. /\ Cardinality(ReservedIn(LaneMap[a])) < LaneLimit[LaneMap[a]]
        /\ Cardinality(reserved) < MaxChildren
    BY <1>1, <1>3 DEF Fits
  <1>5. ReservedIn(LaneMap[a]) = {b \in reserved : LaneMap[b] = LaneMap[a]}
    BY DEF ReservedIn, LaneMap, JobOf, SInv, SupervisorTypeOK
  <1> QED BY <1>1, <1>3, <1>4, <1>5, OneMoreFits

LEMMA BudgetStep ==
    ASSUME SInv, BudgetKept, [SupervisorNext]_allVars PROVE BudgetKept'
  <1>0. /\ RowsStay /\ reserved \subseteq Attempts /\ QInv
        /\ \A a \in Attempts : attempt[a].job \in Jobs => LaneMap'[a] = LaneMap[a]
    BY StepRowsStay, LanesStay DEF BudgetKept, SInv, BInv, SupervisorTypeOK
  <1>1. JobsOfAttempts'
    BY <1>0 DEF BudgetKept, JobsOfAttempts, RowsStay
  <1>2. \A a \in RunningChildren : a \in Attempts /\ attempt[a].job \in Jobs
    <2> SUFFICES ASSUME NEW a \in RunningChildren PROVE a \in Attempts /\ attempt[a].job \in Jobs
      OBVIOUS
    <2>1. a \in Attempts /\ (attempt[a].state = "RUNNING" \/ a \in Known)
      BY DEF RunningChildren, SInv, ChildrenHeld
    <2>2. attempt[a].state \in Live
      BY <2>1, HeldRows DEF Live
    <2> QED BY <1>0, <2>1, <2>2, CurrentRows DEF JobOf
  <1>3. CASE ShrinkStep
    <2>1. \A a \in reserved' : attempt'[a].job \in Jobs
      BY <1>0, <1>3 DEF ShrinkStep, BudgetKept, RowsStay
    <2>2. FitsIn(reserved', LaneMap')
      BY <1>0, <1>3, FewerFit DEF ShrinkStep, BudgetKept
    <2>3. FitsIn(RunningChildren', LaneMap')
      BY <1>0, <1>2, <1>3, FewerFit DEF ShrinkStep, BudgetKept
    <2> QED BY <1>1, <2>1, <2>2, <2>3 DEF BudgetKept, FitsIn
  <1>4. CASE Reserve
    <2>1. /\ reserved' = reserved \cup {plan.attempt} /\ RunningChildren' = RunningChildren
          /\ plan.attempt \in Attempts /\ attempt[plan.attempt].job \in Jobs
      BY <1>4, PlannedAttempt, HeldRows DEF Reserve, RunningChildren, host, JobOf
    <2>2. attempt' = attempt /\ LaneMap' = LaneMap
      BY <1>4 DEF Reserve, vars, LaneMap
    <2>3. \A a \in reserved' : attempt'[a].job \in Jobs
      BY <2>1, <2>2 DEF BudgetKept
    <2>4. FitsIn(reserved', LaneMap)
      BY <1>4, ReserveFits DEF BudgetKept
    <2> QED BY <1>1, <2>1, <2>2, <2>3, <2>4 DEF BudgetKept, FitsIn
  <1>5. CASE Spawn
    <2>1. /\ plan.do = "spawn" /\ reserved' = reserved /\ lost' = lost
          /\ process' = [process EXCEPT ![plan.attempt] = "running"]
      BY <1>5 DEF Spawn
    <2>2. attempt' = attempt /\ LaneMap' = LaneMap
      BY <1>5 DEF Spawn, vars, LaneMap
    <2>3. phase = "serving"
      BY <2>1 DEF SInv, PlanShape
    <2>4. RunningChildren' \subseteq reserved
      BY <2>1, <2>3, RunningReserved DEF RunningChildren, SInv, SupervisorTypeOK
    <2>5. FitsIn(RunningChildren', LaneMap)
      BY <2>4, FewerFit DEF BudgetKept
    <2> QED BY <1>1, <2>1, <2>2, <2>5 DEF BudgetKept, FitsIn
  <1> QED BY <1>3, <1>4, <1>5, StepShrinks

LEMMA BudgetHolds == ASSUME SInv, BudgetKept PROVE ChildrenWithinBudget
  <1> DEFINE running(lane) == {a \in Attempts \ lost :
                 process[a] = "running" /\ LaneOf[TypeOf[job[JobOf(a)].spec]] = lane}
  <1>1. \A lane : running(lane) = {a \in RunningChildren : LaneMap[a] = lane}
    BY DEF RunningChildren, LaneMap, JobOf
  <1>2. /\ IsFiniteSet(RunningChildren) /\ Cardinality(RunningChildren) <= MaxChildren
        /\ \A lane \in Lanes :
               Cardinality({a \in RunningChildren : LaneMap[a] = lane}) <= LaneLimit[lane]
    BY DEF BudgetKept, FitsIn
  <1>3. \A lane \in Lanes : Cardinality(running(lane)) <= LaneLimit[lane]
    BY <1>1, <1>2
  <1>4. running("BUILD") \cup running("RUN") \in SUBSET RunningChildren
    BY <1>1
  <1> HIDE DEF running
  <1>5. /\ Cardinality(running("BUILD") \cup running("RUN")) <= Cardinality(RunningChildren)
        /\ IsFiniteSet(running("BUILD") \cup running("RUN"))
    BY <1>2, <1>4, FS_Subset
  <1>6. /\ Cardinality(running("BUILD") \cup running("RUN")) \in Nat
        /\ Cardinality(RunningChildren) \in Nat /\ MaxChildren \in Nat
    BY <1>2, <1>5, FS_CardinalityType, SupervisorAssumption
  <1>7. Cardinality(running("BUILD") \cup running("RUN")) <= MaxChildren
    BY <1>2, <1>5, <1>6
  <1> QED BY <1>3, <1>7 DEF running, ChildrenWithinBudget

\* However controllers came and went, the children that run at one time fit
\* the lane budgets and the host's, but for those a crash made unknown
\* (HostAdmissionController._fits, and terminate before an attempt is forgotten).
THEOREM BudgetsBoundChildren == SupervisorSpec => []ChildrenWithinBudget
  <1>1. SupervisorInit => BudgetKept
    <2> SUFFICES ASSUME SupervisorInit PROVE BudgetKept
      OBVIOUS
    <2>1. reserved = {} /\ RunningChildren = {}
      BY DEF SupervisorInit, RunningChildren
    <2>2. JobsOfAttempts
      BY QueueAssumption DEF SupervisorInit, Init, JobsOfAttempts, NoAttempt
    <2> QED BY <2>1, <2>2, NothingFits DEF BudgetKept
  <1>2. SInv /\ BudgetKept /\ [SupervisorNext]_allVars => BudgetKept'
    BY BudgetStep
  <1>3. SInv /\ BudgetKept => ChildrenWithinBudget
    BY BudgetHolds
  <1> QED BY <1>1, <1>2, <1>3, SupervisorInvariant, PTL DEF SupervisorSpec
===============================================================================
