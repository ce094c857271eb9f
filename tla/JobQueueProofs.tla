---------------------------- MODULE JobQueueProofs ----------------------------
(* Theorems about JobQueue, for every value of its constants: the rows, their *)
(* transitions and their refinement of the lifecycle, then the retry schedule, *)
(* the keys, the leases and the progress frames.                               *)
EXTENDS JobQueue, TLAPS

\* A stored attempt belongs to a job.
AttemptHasJob == \A a \in Attempts : attempt[a].state # "ABSENT" <=> attempt[a].job \in Jobs

\* Attempt numbers of a job have a maximum, so MAX(attempt_number) exists.
NumbersHaveMax ==
    \A j \in Jobs : \E n \in Numbers(j) : \A m \in Numbers(j) : m <= n

TInv == TypeOK /\ AttemptHasJob /\ NumbersHaveMax

LEMMA NumbersAreNaturals ==
    ASSUME TypeOK, NEW j \in Jobs
    PROVE  Numbers(j) \subseteq Nat
  BY DEF TypeOK, AttemptRow, Numbers, AttemptsOf

LEMMA NextNumberIsMax ==
    ASSUME TypeOK, NumbersHaveMax, NEW j \in Jobs
    PROVE  /\ NextNumber(j) \in Nat
           /\ \A m \in Numbers(j) : m <= NextNumber(j)
  <1> DEFINE max == CHOOSE n \in Numbers(j) : \A m \in Numbers(j) : m <= n
  <1>1. \E n \in Numbers(j) : \A m \in Numbers(j) : m <= n
    BY DEF NumbersHaveMax
  <1>2. max \in Numbers(j) /\ \A m \in Numbers(j) : m <= max
    BY <1>1
  <1>3. Numbers(j) \subseteq Nat
    BY NumbersAreNaturals
  <1>4. NextNumber(j) = 1 + max
    BY DEF NextNumber
  <1> HIDE DEF max
  <1> QED BY <1>2, <1>3, <1>4

LEMMA TypesInit == Init => TInv
  <1> SUFFICES ASSUME Init PROVE TInv
    OBVIOUS
  <1>1. TypeOK
    BY QueueAssumption DEF Init, TypeOK, JobRow, NoJob, AttemptRow, NoAttempt, RuntimeRow,
       NoRuntime, ScheduleRow, NoSchedule, FailureRow, NoFailure
  <1>2. AttemptHasJob
    BY QueueAssumption DEF Init, AttemptHasJob, NoAttempt
  <1>3. NumbersHaveMax
    <2>1. ASSUME NEW j \in Jobs PROVE Numbers(j) = {0}
      <3>1. AttemptsOf(j) = {}
        BY QueueAssumption DEF Init, AttemptsOf, NoAttempt
      <3> QED BY <3>1 DEF Numbers
    <2>2. ASSUME NEW j \in Jobs PROVE \E n \in Numbers(j) : \A m \in Numbers(j) : m <= n
      <3>1. 0 \in Numbers(j) /\ \A m \in Numbers(j) : m <= 0
        BY <2>1
      <3> QED BY <3>1
    <2> QED BY <2>2 DEF NumbersHaveMax
  <1> QED BY <1>1, <1>2, <1>3 DEF TInv

\* The row updates the operations make keep rows well-typed.
LEMMA JobRowUpdates ==
    ASSUME NEW r \in JobRow, NEW s \in {"QUEUED"} \cup Live \cup Terminal, NEW v \in Nat,
           NEW c \in BOOLEAN, NEW a \in Attempts \cup {None}
    PROVE  /\ [r EXCEPT !.state = s, !.version = v] \in JobRow
           /\ [r EXCEPT !.state = s, !.cancel = c, !.version = v] \in JobRow
           /\ [r EXCEPT !.state = s, !.version = v, !.current = a] \in JobRow
           /\ [r EXCEPT !.state = s, !.version = v, !.cancel = c, !.current = a] \in JobRow
  BY Zenon DEF JobRow

LEMMA AttemptRowUpdate ==
    ASSUME NEW r \in AttemptRow, NEW s \in Live \cup Terminal, NEW v \in Nat
    PROVE  [r EXCEPT !.state = s, !.version = v] \in AttemptRow
  BY Zenon DEF AttemptRow

LEMMA VersionsAreNaturals ==
    ASSUME TypeOK
    PROVE  /\ \A j \in Jobs : job[j] \in JobRow /\ job[j].version + 1 \in Nat
           /\ \A a \in Attempts : attempt[a] \in AttemptRow /\ attempt[a].version + 1 \in Nat
  BY DEF TypeOK, JobRow, AttemptRow

\* Moving an attempt keeps both tables well-typed and keeps every attempt's
\* job and number.
LEMMA MoveTypes ==
    ASSUME TypeOK, NEW a \in Attempts, JobOf(a) \in Jobs, NEW expected \in Nat,
           NEW state \in Live \cup Terminal, Move(a, expected, state)
    PROVE  /\ job' \in [Jobs -> JobRow]
           /\ attempt' \in [Attempts -> AttemptRow]
  <1> DEFINE j == JobOf(a)
             jobRow == [job[j] EXCEPT !.state = state, !.version = expected + 1]
             attemptRow == [attempt[a] EXCEPT !.state = state, !.version = expected + 1]
  <1>0. expected + 1 \in Nat
    OBVIOUS
  <1>1. job[j] \in JobRow /\ attempt[a] \in AttemptRow
    BY DEF TypeOK
  <1>2. jobRow \in JobRow
    BY <1>1, <1>0, JobRowUpdates
  <1>3. attemptRow \in AttemptRow
    BY <1>1, <1>0, AttemptRowUpdate
  <1>4. job' = [job EXCEPT ![j] = jobRow] /\ attempt' = [attempt EXCEPT ![a] = attemptRow]
    BY DEF Move
  <1> HIDE DEF j, jobRow, attemptRow
  <1> QED BY <1>2, <1>3, <1>4 DEF TypeOK

\* Operations that leave every attempt's job and number keep the numbering.
LEMMA NumbersKept ==
    ASSUME NumbersHaveMax,
           \A a \in Attempts : /\ attempt'[a].job = attempt[a].job
                               /\ attempt'[a].number = attempt[a].number
    PROVE  NumbersHaveMax'
  <1> SUFFICES ASSUME NEW j \in Jobs
               PROVE  \E n \in Numbers(j)' : \A m \in Numbers(j)' : m <= n
    BY DEF NumbersHaveMax
  <1>1. Numbers(j)' = Numbers(j)
    BY DEF Numbers, AttemptsOf
  <1> QED BY <1>1 DEF NumbersHaveMax

\* A stored attempt whose version a caller names belongs to a job.
LEMMA CurrentHasJob ==
    ASSUME TInv, NEW a \in Attempts, NEW expected \in 0..attempt[a].version,
           RequireCurrent(a, expected)
    PROVE  /\ JobOf(a) \in Jobs
           /\ expected \in Nat
  BY DEF TInv, TypeOK, AttemptRow, AttemptHasJob, RequireCurrent, JobOf

\* A Move keeps TInv when it keeps the other tables well-typed.
LEMMA MoveKeepsTInv ==
    ASSUME TInv, NEW a \in Attempts, JobOf(a) \in Jobs, NEW expected \in Nat,
           NEW state \in Live \cup Terminal, Move(a, expected, state),
           runtime' \in [Attempts -> RuntimeRow],
           schedule' \in [Jobs -> ScheduleRow],
           failure' \in [Attempts -> FailureRow],
           indexed' \in [Attempts -> Specs \cup {None}],
           progress' = progress, now' = now
    PROVE  TInv'
  <1>1. TypeOK'
    BY MoveTypes DEF TInv, TypeOK
  <1>2. \A b \in Attempts : /\ attempt'[b].job = attempt[b].job
                            /\ attempt'[b].number = attempt[b].number
    BY DEF TInv, TypeOK, AttemptRow, Move
  <1>3. AttemptHasJob'
    BY <1>2 DEF TInv, TypeOK, AttemptHasJob, AttemptRow, Move, JobOf, Live, Terminal
  <1>4. NumbersHaveMax'
    BY <1>2, NumbersKept DEF TInv
  <1> QED BY <1>1, <1>3, <1>4 DEF TInv

LEMMA ClientTypes == ASSUME TInv, ClientNext PROVE TInv'
  <1> USE DEF TInv
  <1> SUFFICES ASSUME attempt' = attempt PROVE TypeOK'
    <2>1. attempt' = attempt
      BY DEF ClientNext, Submit, RequestCancel, CancelQueued, CancelLive, RequestRetry
    <2>2. AttemptHasJob'
      BY <2>1 DEF AttemptHasJob
    <2>3. NumbersHaveMax'
      BY <2>1, NumbersKept
    <2> QED BY <2>1, <2>2, <2>3
  <1> PICK j \in Jobs : \/ \E spec \in Specs, key \in Keys : Submit(j, spec, key)
                        \/ RequestCancel(j)
                        \/ RequestRetry(j)
    BY DEF ClientNext
  <1>1. CASE \E spec \in Specs, key \in Keys : Submit(j, spec, key)
    BY <1>1 DEF Submit, TypeOK, JobRow
  <1>2. CASE CancelQueued(j)
    <2>1. [job[j] EXCEPT !.state = "CANCELLED", !.cancel = TRUE, !.version = job[j].version + 1]
          \in JobRow
      BY VersionsAreNaturals, JobRowUpdates DEF Terminal
    <2>2. schedule' \in [Jobs -> ScheduleRow]
      BY <1>2 DEF CancelQueued, TypeOK, ScheduleRow, NoSchedule
    <2> QED BY <1>2, <2>1, <2>2 DEF CancelQueued, TypeOK
  <1>3. CASE CancelLive(j)
    BY <1>3, ZenonT(40) DEF CancelLive, TypeOK, JobRow
  <1>4. CASE RequestRetry(j)
    <2>1. [job[j] EXCEPT !.state = "QUEUED", !.version = job[j].version + 1,
                         !.cancel = FALSE, !.current = None] \in JobRow
      BY VersionsAreNaturals, JobRowUpdates
    <2>2. schedule' \in [Jobs -> ScheduleRow]
      BY <1>4 DEF RequestRetry, TypeOK, ScheduleRow, NoSchedule
    <2> QED BY <1>4, <2>1, <2>2 DEF RequestRetry, TypeOK
  <1> QED BY <1>1, <1>2, <1>3, <1>4 DEF RequestCancel

LEMMA ClaimTypes == ASSUME TInv, ClaimNext PROVE TInv'
  <1> USE DEF TInv
  <1> PICK s \in Supervisors, types \in SUBSET Types, t \in 0..now, j \in Jobs, a \in Attempts :
           Claim(s, types, t, j, a)
    BY DEF ClaimNext
  <1>1. t \in Nat
    BY DEF TypeOK
  <1>2. NextNumber(j) \in Nat /\ \A m \in Numbers(j) : m <= NextNumber(j)
    BY NextNumberIsMax
  <1> DEFINE row == [state |-> "STARTING", version |-> job[j].version + 1, job |-> j,
                     number |-> NextNumber(j), supervisor |-> s, created |-> t]
  <1>3. row \in AttemptRow
    BY <1>1, <1>2 DEF TypeOK, JobRow, AttemptRow, Live
  <1>4. attempt' = [attempt EXCEPT ![a] = row]
    BY DEF Claim
  <1>5. TypeOK'
    <2>1. attempt' \in [Attempts -> AttemptRow]
      BY <1>3, <1>4 DEF TypeOK
    <2>2. [job[j] EXCEPT !.state = "STARTING", !.version = job[j].version + 1, !.current = a]
          \in JobRow
      BY VersionsAreNaturals, JobRowUpdates DEF Live
    <2>3. job' \in [Jobs -> JobRow]
      BY <2>2 DEF Claim, TypeOK
    <2>4. schedule' \in [Jobs -> ScheduleRow]
      BY DEF Claim, TypeOK, ScheduleRow, NoSchedule
    <2> QED BY <2>1, <2>3, <2>4 DEF Claim, TypeOK
  <1>6. AttemptHasJob'
    BY <1>4 DEF AttemptHasJob, TypeOK
  <1>7. NumbersHaveMax'
    <2> SUFFICES ASSUME NEW k \in Jobs
                 PROVE  \E n \in Numbers(k)' : \A m \in Numbers(k)' : m <= n
      BY DEF NumbersHaveMax
    <2>0. attempt[a].job \notin Jobs
      BY DEF Claim, AttemptHasJob
    <2>1. CASE k = j
      <3>1. Numbers(j)' = Numbers(j) \cup {NextNumber(j)}
        <4>1. AttemptsOf(j)' = AttemptsOf(j) \cup {a}
          BY <1>4, <2>0 DEF AttemptsOf, TypeOK
        <4>2. attempt'[a].number = NextNumber(j)
          BY <1>4 DEF TypeOK
        <4>3. \A b \in AttemptsOf(j) : attempt'[b].number = attempt[b].number
          BY <1>4, <2>0 DEF AttemptsOf, TypeOK
        <4> QED BY <4>1, <4>2, <4>3 DEF Numbers
      <3> QED BY <1>2, <2>1, <3>1
    <2>2. CASE k # j
      <3>1. AttemptsOf(k)' = AttemptsOf(k)
        BY <1>4, <2>0, <2>2 DEF AttemptsOf, TypeOK
      <3>2. \A b \in AttemptsOf(k) : attempt'[b].number = attempt[b].number
        BY <1>4, <2>0 DEF AttemptsOf, TypeOK
      <3>3. Numbers(k)' = Numbers(k)
        BY <3>1, <3>2 DEF Numbers
      <3> QED BY <3>3 DEF NumbersHaveMax
    <2> QED BY <2>1, <2>2
  <1> QED BY <1>5, <1>6, <1>7

\* Operations that leave both main tables keep TInv if they keep the others typed.
LEMMA TablesKeepTInv ==
    ASSUME TInv, job' = job, attempt' = attempt, schedule' = schedule, failure' = failure,
           indexed' = indexed, runtime' \in [Attempts -> RuntimeRow],
           progress' \in [Attempts -> Seq(Nat)], now' \in Nat
    PROVE  TInv'
  <1>1. TypeOK'
    BY DEF TInv, TypeOK
  <1>2. AttemptHasJob'
    BY DEF TInv, AttemptHasJob
  <1>3. NumbersHaveMax'
    BY NumbersKept DEF TInv
  <1> QED BY <1>1, <1>2, <1>3 DEF TInv

\* The type of a lease taken at a caller's clock reading.
LEMMA LeaseTypes ==
    ASSUME TypeOK, NEW t \in 0..now
    PROVE  /\ t \in Nat
           /\ t + LeaseDuration \in Nat
           /\ t + Timeout \in Nat
           /\ \A d \in Delays : t + d \in Nat
  BY QueueAssumption DEF TypeOK

LEMMA RegisterTypes ==
    ASSUME TInv, NEW a \in Attempts, NEW expected \in 0..attempt[a].version,
           NEW s \in Supervisors, NEW t \in 0..now, RegisterProcess(a, expected, s, t)
    PROVE  TInv'
  <1>1. JobOf(a) \in Jobs /\ expected \in Nat
    BY CurrentHasJob DEF RegisterProcess
  <1>2. runtime' \in [Attempts -> RuntimeRow]
    BY LeaseTypes DEF RegisterProcess, TInv, TypeOK, RuntimeRow
  <1>3. "RUNNING" \in Live \cup Terminal
    BY DEF Live
  <1> QED BY <1>1, <1>2, <1>3, MoveKeepsTInv DEF RegisterProcess, TInv, TypeOK

LEMMA HeartbeatTypes ==
    ASSUME TInv, NEW a \in Attempts, NEW expected \in 0..attempt[a].version,
           NEW s \in Supervisors, NEW t \in 0..now, Heartbeat(a, expected, s, t)
    PROVE  TInv'
  <1>1. t + LeaseDuration \in Nat
    BY LeaseTypes DEF TInv
  <1>2. runtime' \in [Attempts -> RuntimeRow]
    BY <1>1 DEF Heartbeat, TInv, TypeOK, RuntimeRow
  <1> QED BY <1>2, TablesKeepTInv DEF Heartbeat, TInv, TypeOK

LEMMA ProgressTypes ==
    ASSUME TInv, NEW a \in Attempts, NEW expected \in 0..attempt[a].version,
           NEW s \in Supervisors, NEW n \in 1..MaxSequence, RecordProgress(a, expected, s, n)
    PROVE  TInv'
  <1> DEFINE kept == IF Len(progress[a]) < ProgressKept THEN progress[a] ELSE Tail(progress[a])
  <1>1. progress[a] \in Seq(Nat) /\ n \in Nat
    BY QueueAssumption DEF TInv, TypeOK
  <1>2. Len(progress[a]) < ProgressKept \/ progress[a] # <<>>
    BY <1>1, QueueAssumption
  <1>3. kept \in Seq(Nat)
    BY <1>1, <1>2
  <1>4. Append(kept, n) \in Seq(Nat)
    BY <1>1, <1>3
  <1>5. progress' = [progress EXCEPT ![a] = Append(kept, n)]
    BY DEF RecordProgress
  <1> HIDE DEF kept
  <1>6. progress' \in [Attempts -> Seq(Nat)]
    BY <1>4, <1>5 DEF TInv, TypeOK
  <1> QED BY <1>6, TablesKeepTInv DEF RecordProgress, TInv, TypeOK

LEMMA TransitionTypes ==
    ASSUME TInv, NEW a \in Attempts, NEW expected \in 0..attempt[a].version,
           NEW state \in {"RUNNING"} \cup Terminal, Transition(a, expected, state)
    PROVE  TInv'
  <1>1. JobOf(a) \in Jobs /\ expected \in Nat
    BY CurrentHasJob DEF Transition
  <1>2. runtime' \in [Attempts -> RuntimeRow]
    BY QueueAssumption DEF Transition, TInv, TypeOK, RuntimeRow, NoRuntime
  <1>3. state \in Live \cup Terminal
    BY DEF Live
  <1> QED BY <1>1, <1>2, <1>3, MoveKeepsTInv DEF Transition, TInv, TypeOK

LEMMA CompleteTypes ==
    ASSUME TInv, NEW a \in Attempts, NEW expected \in 0..attempt[a].version,
           NEW receipt \in Receipts, CompleteVerified(a, expected, receipt)
    PROVE  TInv'
  <1>1. JobOf(a) \in Jobs /\ expected \in Nat
    BY CurrentHasJob DEF CompleteVerified
  <1>2. runtime' \in [Attempts -> RuntimeRow]
    BY DEF CompleteVerified, TInv, TypeOK, RuntimeRow, NoRuntime
  <1>3. indexed' \in [Attempts -> Specs \cup {None}]
    BY DEF CompleteVerified, TInv, TypeOK, Receipts
  <1>4. "SUCCEEDED" \in Live \cup Terminal
    BY DEF Terminal
  <1> QED BY <1>1, <1>2, <1>3, <1>4, MoveKeepsTInv DEF CompleteVerified, TInv, TypeOK

LEMMA FailureTypes ==
    ASSUME NEW kind \in FailureKinds, NEW retry \in BOOLEAN, NEW t \in Nat
    PROVE  [kind |-> kind, retry |-> retry, retryAt |-> t] \in FailureRow
  BY DEF FailureRow

LEMMA UnsuccessfulIsTerminal ==
    ASSUME NEW a \in Attempts, NEW kind \in FailureKinds
    PROVE  UnsuccessfulState(a, kind) \in Terminal \ {"SUCCEEDED"}
  BY DEF UnsuccessfulState, Terminal

LEMMA ForGoodTypes ==
    ASSUME TInv, NEW a \in Attempts, NEW expected \in 0..attempt[a].version,
           NEW kind \in FailureKinds, FinishForGood(a, expected, kind)
    PROVE  TInv'
  <1>1. JobOf(a) \in Jobs /\ expected \in Nat
    BY CurrentHasJob DEF FinishForGood
  <1>2. runtime' \in [Attempts -> RuntimeRow]
    BY DEF FinishForGood, TInv, TypeOK, RuntimeRow, NoRuntime
  <1>3. failure' \in [Attempts -> FailureRow]
    BY FailureTypes DEF FinishForGood, TInv, TypeOK
  <1> QED BY <1>1, <1>2, <1>3, UnsuccessfulIsTerminal, MoveKeepsTInv
          DEF FinishForGood, TInv, TypeOK

LEMMA RequeueTypes ==
    ASSUME TInv, NEW a \in Attempts, NEW expected \in 0..attempt[a].version,
           NEW kind \in FailureKinds, NEW retryAt \in Nat,
           FinishAndRequeue(a, expected, kind, retryAt)
    PROVE  TInv'
  <1> DEFINE j == JobOf(a)
             jobRow == [job[j] EXCEPT !.state = "QUEUED", !.version = expected + 1,
                                      !.current = None]
             attemptRow == [attempt[a] EXCEPT !.state = UnsuccessfulState(a, kind),
                                              !.version = expected + 1]
  <1>1. j \in Jobs /\ expected \in Nat /\ expected + 1 \in Nat
    BY CurrentHasJob DEF FinishAndRequeue
  <1>2. job[j] \in JobRow /\ attempt[a] \in AttemptRow
    BY <1>1 DEF TInv, TypeOK
  <1>3. jobRow \in JobRow /\ attemptRow \in AttemptRow
    BY <1>1, <1>2, JobRowUpdates, AttemptRowUpdate, UnsuccessfulIsTerminal
  <1>4. job' = [job EXCEPT ![j] = jobRow] /\ attempt' = [attempt EXCEPT ![a] = attemptRow]
    BY DEF FinishAndRequeue
  <1>5. attemptRow.job = attempt[a].job /\ attemptRow.number = attempt[a].number
        /\ attemptRow.state \in Terminal
    BY <1>2, UnsuccessfulIsTerminal DEF AttemptRow
  <1>6. runtime' \in [Attempts -> RuntimeRow]
    BY DEF FinishAndRequeue, TInv, TypeOK, RuntimeRow, NoRuntime
  <1>7. failure' \in [Attempts -> FailureRow]
    BY FailureTypes DEF FinishAndRequeue, TInv, TypeOK
  <1>8. schedule' \in [Jobs -> ScheduleRow]
    BY DEF FinishAndRequeue, TInv, TypeOK, ScheduleRow
  <1> HIDE DEF jobRow, attemptRow
  <1>9. job' \in [Jobs -> JobRow] /\ attempt' \in [Attempts -> AttemptRow]
    BY <1>1, <1>3, <1>4 DEF TInv, TypeOK
  <1>10. TypeOK'
    BY <1>6, <1>7, <1>8, <1>9 DEF FinishAndRequeue, TInv, TypeOK
  <1>11. \A b \in Attempts : /\ attempt'[b].job = attempt[b].job
                             /\ attempt'[b].number = attempt[b].number
    BY <1>4, <1>5 DEF TInv, TypeOK
  <1>12. AttemptHasJob'
    BY <1>1, <1>4, <1>5, <1>11 DEF TInv, TypeOK, AttemptHasJob, JobOf, Terminal
  <1>13. NumbersHaveMax'
    BY <1>11, NumbersKept DEF TInv
  <1> QED BY <1>10, <1>12, <1>13 DEF TInv

LEMMA AttemptTypes == ASSUME TInv, AttemptNext PROVE TInv'
  <1> PICK a \in Attempts : \E expected \in 0..attempt[a].version : AttemptStep(a, expected)
    BY DEF AttemptNext
  <1> PICK expected \in 0..attempt[a].version : AttemptStep(a, expected)
    OBVIOUS
  <1>1. ASSUME NEW s \in Supervisors, NEW t \in 0..now,
               RegisterProcess(a, expected, s, t) \/ Heartbeat(a, expected, s, t)
        PROVE  TInv'
    BY <1>1, RegisterTypes, HeartbeatTypes
  <1>2. ASSUME NEW s \in Supervisors, NEW n \in 1..MaxSequence,
               RecordProgress(a, expected, s, n)
        PROVE  TInv'
    BY <1>2, ProgressTypes
  <1>3. ASSUME NEW state \in {"RUNNING"} \cup Terminal, Transition(a, expected, state)
        PROVE  TInv'
    BY <1>3, TransitionTypes
  <1>4. ASSUME NEW receipt \in Receipts, CompleteVerified(a, expected, receipt)
        PROVE  TInv'
    BY <1>4, CompleteTypes
  <1>5. ASSUME NEW kind \in FailureKinds, NEW retry \in BOOLEAN, NEW retryAt \in Nat,
               FinishUnsuccessful(a, expected, kind, retry, retryAt)
        PROVE  TInv'
    BY <1>5, ForGoodTypes, RequeueTypes DEF FinishUnsuccessful
  <1>6. \A t \in 0..now, d \in Delays : t + d \in Nat
    BY LeaseTypes DEF TInv
  <1> QED BY <1>1, <1>2, <1>3, <1>4, <1>5, <1>6 DEF AttemptStep

LEMMA TypesStep == ASSUME TInv, [Next]_vars PROVE TInv'
  <1>1. CASE ClientNext
    BY <1>1, ClientTypes
  <1>2. CASE ClaimNext
    BY <1>2, ClaimTypes
  <1>3. CASE AttemptNext
    BY <1>3, AttemptTypes
  <1>4. CASE Tick
    BY <1>4, TablesKeepTInv DEF Tick, TInv, TypeOK
  <1>5. CASE UNCHANGED vars
    BY <1>5, TablesKeepTInv DEF vars, TInv, TypeOK
  <1> QED BY <1>1, <1>2, <1>3, <1>4, <1>5 DEF Next

LEMMA TypesInvariant == Spec => []TInv
  BY TypesInit, TypesStep, PTL DEF Spec

\* Every row of the queue's tables always has its declared columns and types,
\* for any number of jobs, attempts and supervisors and any clock.
THEOREM TypeCorrect == Spec => []TypeOK
  BY TypesInvariant, PTL DEF TInv

-------------------------------------------------------------------------------
(* The core invariant.  JobMirrorsAttempt alone is not inductive: that no other *)
(* attempt can move a job needs OneLiveAttempt, and that no success is          *)
(* overwritten needs SuccessIsVerified's tie of a success to its job.           *)

QInv == TInv /\ JobMirrorsAttempt /\ OneLiveAttempt /\ SuccessIsVerified

\* What a Move changes, row by row.
LEMMA MoveRows ==
    ASSUME TInv, NEW a \in Attempts, JobOf(a) \in Jobs, NEW expected \in Nat,
           NEW state, Move(a, expected, state)
    PROVE  /\ \A k \in Jobs : k # JobOf(a) => job'[k] = job[k]
           /\ \A b \in Attempts : b # a => attempt'[b] = attempt[b]
           /\ job'[JobOf(a)].state = state
           /\ job'[JobOf(a)].version = expected + 1
           /\ job'[JobOf(a)].cancel = job[JobOf(a)].cancel
           /\ job'[JobOf(a)].current = job[JobOf(a)].current
           /\ job'[JobOf(a)].spec = job[JobOf(a)].spec
           /\ attempt'[a].state = state
           /\ attempt'[a].version = expected + 1
           /\ attempt'[a].job = attempt[a].job
  BY DEF TInv, TypeOK, JobRow, AttemptRow, Move

LEMMA RequeueRows ==
    ASSUME TInv, NEW a \in Attempts, JobOf(a) \in Jobs, NEW expected \in Nat, NEW kind, NEW retryAt,
           FinishAndRequeue(a, expected, kind, retryAt)
    PROVE  /\ \A k \in Jobs : k # JobOf(a) => job'[k] = job[k]
           /\ \A b \in Attempts : b # a => attempt'[b] = attempt[b]
           /\ job'[JobOf(a)].state = "QUEUED"
           /\ job'[JobOf(a)].version = expected + 1
           /\ job'[JobOf(a)].cancel = job[JobOf(a)].cancel
           /\ job'[JobOf(a)].current = None
           /\ attempt'[a].state = UnsuccessfulState(a, kind)
           /\ attempt'[a].version = expected + 1
           /\ attempt'[a].job = attempt[a].job
  BY DEF TInv, TypeOK, JobRow, AttemptRow, FinishAndRequeue

LEMMA ClaimRows ==
    ASSUME TInv, NEW s, NEW types, NEW t, NEW j \in Jobs, NEW a \in Attempts,
           Claim(s, types, t, j, a)
    PROVE  /\ \A k \in Jobs : k # j => job'[k] = job[k]
           /\ \A b \in Attempts : b # a => attempt'[b] = attempt[b]
           /\ job'[j].state = "STARTING"
           /\ job'[j].version = job[j].version + 1
           /\ job'[j].cancel = job[j].cancel
           /\ job'[j].current = a
           /\ attempt'[a].state = "STARTING"
           /\ attempt'[a].version = job[j].version + 1
           /\ attempt'[a].job = j
  BY DEF TInv, TypeOK, JobRow, AttemptRow, Claim

LEMMA RetryRows ==
    ASSUME TInv, NEW j \in Jobs, RequestRetry(j)
    PROVE  /\ \A k \in Jobs : k # j => job'[k] = job[k]
           /\ job'[j].state = "QUEUED"
           /\ job'[j].version = job[j].version + 1
           /\ job'[j].current = None
  BY DEF TInv, TypeOK, JobRow, RequestRetry

LEMMA CancelRows ==
    ASSUME TInv, NEW j \in Jobs, RequestCancel(j)
    PROVE  /\ \A k \in Jobs : k # j => job'[k] = job[k]
           /\ job'[j].cancel = TRUE
           /\ job'[j].current = job[j].current
           /\ job'[j].spec = job[j].spec
           /\ \/ job[j].state = "QUEUED" /\ job'[j].state = "CANCELLED"
                 /\ job'[j].version = job[j].version + 1
              \/ job[j].state \in Live /\ job'[j].state = job[j].state
                 /\ job'[j].version = job[j].version
  <1>1. CASE CancelQueued(j)
    BY <1>1 DEF TInv, TypeOK, JobRow, CancelQueued
  <1>2. CASE CancelLive(j)
    BY <1>2 DEF TInv, TypeOK, JobRow, CancelLive
  <1> QED BY <1>1, <1>2 DEF RequestCancel

LEMMA SubmitRows ==
    ASSUME TInv, NEW j \in Jobs, NEW spec, NEW key, Submit(j, spec, key)
    PROVE  /\ \A k \in Jobs : k # j => job'[k] = job[k]
           /\ job'[j].state = "QUEUED"
           /\ job'[j].current = None
           /\ job[j].state = "ABSENT"
  BY DEF TInv, TypeOK, JobRow, Submit

\* The caller's attempt is live and is the one its job names.
LEMMA LiveCurrent ==
    ASSUME QInv, NEW a \in Attempts, NEW expected \in 0..attempt[a].version,
           RequireCurrent(a, expected)
    PROVE  /\ JobOf(a) \in Jobs
           /\ expected \in Nat
           /\ job[JobOf(a)].current = a
           /\ job[JobOf(a)].state = attempt[a].state
           /\ job[JobOf(a)].version = expected
           /\ attempt[a].job = JobOf(a)
           /\ attempt[a].state # "SUCCEEDED" => indexed[a] = None
           /\ \A b \in Attempts : b # a /\ attempt[b].state \in Live \cup {"SUCCEEDED"}
                                 => JobOf(b) # JobOf(a)
  BY CurrentHasJob DEF QInv, RequireCurrent, JobOf, OneLiveAttempt, SuccessIsVerified

\* A Move by the current live attempt keeps both tables in step.
LEMMA MoveKeepsMirror ==
    ASSUME QInv, NEW a \in Attempts, NEW expected \in 0..attempt[a].version,
           RequireCurrent(a, expected), NEW state \in Live \cup Terminal,
           Move(a, expected, state)
    PROVE  JobMirrorsAttempt' /\ OneLiveAttempt'
  <1> USE LiveCurrent
  <1>1. JobMirrorsAttempt'
    <2> SUFFICES ASSUME NEW j \in Jobs
                 PROVE  /\ job'[j].current # None =>
                               /\ attempt'[job'[j].current].job = j
                               /\ attempt'[job'[j].current].state = job'[j].state
                               /\ attempt'[job'[j].current].version = job'[j].version
                        /\ job'[j].state \in Live \cup {"SUCCEEDED", "FAILED", "INTERRUPTED"} =>
                               job'[j].current # None
                        /\ job'[j].state \in {"ABSENT", "QUEUED"} => job'[j].current = None
      BY DEF JobMirrorsAttempt
    <2>1. CASE j = JobOf(a)
      BY <2>1, MoveRows, QueueAssumption DEF QInv, Live, Terminal
    <2>2. CASE j # JobOf(a)
      <3>1. job'[j] = job[j] /\ job[j].current # a
        BY <2>2, MoveRows, QueueAssumption DEF QInv, JobMirrorsAttempt
      <3>2. job[j].current # None =>
               job[j].current \in Attempts /\ attempt'[job[j].current] = attempt[job[j].current]
        BY <3>1, MoveRows DEF QInv, TInv, TypeOK, JobRow
      <3> QED BY <3>1, <3>2 DEF QInv, JobMirrorsAttempt
    <2> QED BY <2>1, <2>2
  <1>2. OneLiveAttempt'
    <2> SUFFICES ASSUME NEW b \in Attempts, attempt'[b].state \in Live
                 PROVE  job'[attempt'[b].job].current = b
      BY DEF OneLiveAttempt, JobOf
    <2>1. CASE b = a
      BY <2>1, MoveRows DEF QInv
    <2>2. CASE b # a
      <3>1. attempt'[b] = attempt[b]
        BY <2>2, MoveRows DEF QInv
      <3>2. JobOf(b) \in Jobs /\ job[JobOf(b)].current = b
        BY <3>1 DEF QInv, TInv, AttemptHasJob, OneLiveAttempt, JobOf, Live
      <3>3. job'[JobOf(b)].current = job[JobOf(b)].current
        BY <3>2, MoveRows DEF QInv
      <3> QED BY <3>1, <3>2, <3>3 DEF JobOf
    <2> QED BY <2>1, <2>2
  <1> QED BY <1>1, <1>2

\* A step that writes neither success nor a receipt and leaves the jobs of
\* succeeded attempts alone keeps SuccessIsVerified.
LEMMA SuccessKept ==
    ASSUME QInv, indexed' = indexed,
           \A b \in Attempts :
               \/ /\ attempt[b].state = "SUCCEEDED"
                  /\ attempt'[b] = attempt[b]
                  /\ job'[JobOf(b)] = job[JobOf(b)]
               \/ /\ attempt[b].state # "SUCCEEDED"
                  /\ attempt'[b].state # "SUCCEEDED"
    PROVE  SuccessIsVerified'
  BY DEF QInv, SuccessIsVerified, JobOf

\* A succeeded attempt's job is stored, succeeded and names it.
LEMMA SucceededJob ==
    ASSUME QInv, NEW b \in Attempts, attempt[b].state = "SUCCEEDED"
    PROVE  JobOf(b) \in Jobs /\ job[JobOf(b)].state = "SUCCEEDED" /\ job[JobOf(b)].current = b
  BY DEF QInv, TInv, AttemptHasJob, SuccessIsVerified, JobOf

LEMMA UnsuccessfulMoveKeepsCore ==
    ASSUME QInv, NEW a \in Attempts, NEW expected \in 0..attempt[a].version,
           RequireCurrent(a, expected), attempt[a].state \in Live,
           NEW state \in (Live \cup Terminal) \ {"SUCCEEDED"},
           Move(a, expected, state), indexed' = indexed
    PROVE  JobMirrorsAttempt' /\ OneLiveAttempt' /\ SuccessIsVerified'
  <1>1. JobMirrorsAttempt' /\ OneLiveAttempt'
    BY MoveKeepsMirror
  <1>2. ASSUME NEW b \in Attempts, attempt[b].state = "SUCCEEDED"
        PROVE  attempt'[b] = attempt[b] /\ job'[JobOf(b)] = job[JobOf(b)]
    <2>1. b # a
      BY <1>2 DEF Live
    <2>2. JobOf(b) \in Jobs /\ JobOf(b) # JobOf(a)
      BY <1>2, <2>1, SucceededJob, LiveCurrent
    <2> QED BY <2>1, <2>2, LiveCurrent, MoveRows DEF QInv
  <1>3. ASSUME NEW b \in Attempts, attempt[b].state # "SUCCEEDED"
        PROVE  attempt'[b].state # "SUCCEEDED"
    BY <1>3, LiveCurrent, MoveRows DEF QInv
  <1> QED BY <1>1, <1>2, <1>3, SuccessKept

LEMMA CompleteKeepsCore ==
    ASSUME QInv, NEW a \in Attempts, NEW expected \in 0..attempt[a].version,
           NEW receipt \in Receipts, CompleteVerified(a, expected, receipt)
    PROVE  JobMirrorsAttempt' /\ OneLiveAttempt' /\ SuccessIsVerified'
  <1> USE DEF CompleteVerified
  <1>1. attempt[a].state = "RUNNING"
    BY DEF LegalNext
  <1>2. JobMirrorsAttempt' /\ OneLiveAttempt'
    BY MoveKeepsMirror DEF Terminal
  <1>3. SuccessIsVerified'
    <2> SUFFICES ASSUME NEW b \in Attempts
                 PROVE  /\ indexed'[b] # None <=> attempt'[b].state = "SUCCEEDED"
                        /\ attempt'[b].state = "SUCCEEDED" =>
                               /\ job'[attempt'[b].job].current = b
                               /\ job'[attempt'[b].job].state = "SUCCEEDED"
                               /\ ~job'[attempt'[b].job].cancel
                               /\ indexed'[b] = job'[attempt'[b].job].spec
      BY DEF SuccessIsVerified, JobOf
    <2>1. CASE b = a
      <3>1. indexed'[a] = receipt.spec /\ receipt.spec # None
        BY QueueAssumption DEF QInv, TInv, TypeOK, Receipts
      <3> QED BY <2>1, <3>1, LiveCurrent, MoveRows DEF QInv
    <2>2. CASE b # a
      <3>1. attempt'[b] = attempt[b] /\ indexed'[b] = indexed[b]
        BY <2>2, LiveCurrent, MoveRows DEF QInv, TInv, TypeOK
      <3>2. CASE attempt[b].state = "SUCCEEDED"
        <4>1. JobOf(b) \in Jobs /\ JobOf(b) # JobOf(a)
          BY <2>2, <3>2, SucceededJob, LiveCurrent
        <4>2. job'[JobOf(b)] = job[JobOf(b)]
          BY <4>1, LiveCurrent, MoveRows DEF QInv
        <4> QED BY <3>1, <3>2, <4>2 DEF QInv, SuccessIsVerified, JobOf
      <3>3. CASE attempt[b].state # "SUCCEEDED"
        BY <3>1, <3>3 DEF QInv, SuccessIsVerified
      <3> QED BY <3>2, <3>3
    <2> QED BY <2>1, <2>2
  <1> QED BY <1>2, <1>3

LEMMA RequeueKeepsCore ==
    ASSUME QInv, NEW a \in Attempts, NEW expected \in 0..attempt[a].version,
           NEW kind \in FailureKinds, NEW retryAt,
           FinishAndRequeue(a, expected, kind, retryAt)
    PROVE  JobMirrorsAttempt' /\ OneLiveAttempt' /\ SuccessIsVerified'
  <1>0. RequireCurrent(a, expected) /\ attempt[a].state \in Live /\ indexed' = indexed
    BY DEF FinishAndRequeue
  <1>a. JobOf(a) \in Jobs /\ expected \in Nat /\ TInv
    BY <1>0, LiveCurrent DEF QInv
  <1>1. JobMirrorsAttempt'
    <2> SUFFICES ASSUME NEW j \in Jobs
                 PROVE  /\ job'[j].current # None =>
                               /\ attempt'[job'[j].current].job = j
                               /\ attempt'[job'[j].current].state = job'[j].state
                               /\ attempt'[job'[j].current].version = job'[j].version
                        /\ job'[j].state \in Live \cup {"SUCCEEDED", "FAILED", "INTERRUPTED"} =>
                               job'[j].current # None
                        /\ job'[j].state \in {"ABSENT", "QUEUED"} => job'[j].current = None
      BY DEF JobMirrorsAttempt
    <2>1. CASE j = JobOf(a)
      BY <1>a, <2>1, RequeueRows DEF Live
    <2>2. CASE j # JobOf(a)
      <3>1. job'[j] = job[j] /\ job[j].current # a
        BY <1>0, <1>a, <2>2, RequeueRows, LiveCurrent, QueueAssumption DEF QInv, JobMirrorsAttempt
      <3>2. job[j].current # None =>
               job[j].current \in Attempts /\ attempt'[job[j].current] = attempt[job[j].current]
        BY <1>a, <3>1, RequeueRows DEF TInv, TypeOK, JobRow
      <3> QED BY <3>1, <3>2 DEF QInv, JobMirrorsAttempt
    <2> QED BY <2>1, <2>2
  <1>2. OneLiveAttempt'
    <2> SUFFICES ASSUME NEW b \in Attempts, attempt'[b].state \in Live
                 PROVE  job'[attempt'[b].job].current = b
      BY DEF OneLiveAttempt, JobOf
    <2>1. b # a
      BY <1>a, RequeueRows, UnsuccessfulIsTerminal DEF Live, Terminal
    <2>2. attempt'[b] = attempt[b]
      BY <1>a, <2>1, RequeueRows
    <2>3. JobOf(b) \in Jobs /\ job[JobOf(b)].current = b /\ JobOf(b) # JobOf(a)
      BY <1>0, <2>1, <2>2, LiveCurrent DEF QInv, TInv, AttemptHasJob, OneLiveAttempt, JobOf, Live
    <2> QED BY <1>a, <2>2, <2>3, RequeueRows DEF JobOf
  <1>3. ASSUME NEW b \in Attempts, attempt[b].state = "SUCCEEDED"
        PROVE  attempt'[b] = attempt[b] /\ job'[JobOf(b)] = job[JobOf(b)]
    <2>1. b # a
      BY <1>0, <1>3 DEF Live
    <2>2. JobOf(b) \in Jobs /\ JobOf(b) # JobOf(a)
      BY <1>0, <1>3, <2>1, SucceededJob, LiveCurrent
    <2> QED BY <1>a, <2>1, <2>2, RequeueRows
  <1>4. ASSUME NEW b \in Attempts, attempt[b].state # "SUCCEEDED"
        PROVE  attempt'[b].state # "SUCCEEDED"
    BY <1>a, <1>4, RequeueRows, UnsuccessfulIsTerminal
  <1> QED BY <1>0, <1>1, <1>2, <1>3, <1>4, SuccessKept

LEMMA ClaimKeepsCore ==
    ASSUME QInv, NEW s, NEW types, NEW t, NEW j \in Jobs, NEW a \in Attempts,
           Claim(s, types, t, j, a)
    PROVE  JobMirrorsAttempt' /\ OneLiveAttempt' /\ SuccessIsVerified'
  <1>0. /\ TInv
        /\ attempt[a].state = "ABSENT" /\ JobOf(a) \notin Jobs
        /\ job[j].state = "QUEUED" /\ job[j].current = None
        /\ indexed' = indexed
    BY DEF QInv, TInv, AttemptHasJob, JobOf, Claim, Claimable, JobMirrorsAttempt
  <1>1. JobMirrorsAttempt'
    <2> SUFFICES ASSUME NEW k \in Jobs
                 PROVE  /\ job'[k].current # None =>
                               /\ attempt'[job'[k].current].job = k
                               /\ attempt'[job'[k].current].state = job'[k].state
                               /\ attempt'[job'[k].current].version = job'[k].version
                        /\ job'[k].state \in Live \cup {"SUCCEEDED", "FAILED", "INTERRUPTED"} =>
                               job'[k].current # None
                        /\ job'[k].state \in {"ABSENT", "QUEUED"} => job'[k].current = None
      BY DEF JobMirrorsAttempt
    <2>1. CASE k = j
      BY <1>0, <2>1, ClaimRows, QueueAssumption
    <2>2. CASE k # j
      <3>1. job'[k] = job[k] /\ job[k].current # a
        BY <1>0, <2>2, ClaimRows, QueueAssumption DEF QInv, JobMirrorsAttempt, JobOf
      <3>2. job[k].current # None =>
               job[k].current \in Attempts /\ attempt'[job[k].current] = attempt[job[k].current]
        BY <1>0, <3>1, ClaimRows DEF TInv, TypeOK, JobRow
      <3> QED BY <3>1, <3>2 DEF QInv, JobMirrorsAttempt
    <2> QED BY <2>1, <2>2
  <1>2. OneLiveAttempt'
    <2> SUFFICES ASSUME NEW b \in Attempts, attempt'[b].state \in Live
                 PROVE  job'[attempt'[b].job].current = b
      BY DEF OneLiveAttempt, JobOf
    <2>1. CASE b = a
      BY <1>0, <2>1, ClaimRows, SMTT(40)
    <2>2. CASE b # a
      <3>1. attempt'[b] = attempt[b]
        BY <1>0, <2>2, ClaimRows
      <3>2. JobOf(b) \in Jobs /\ job[JobOf(b)].current = b
        BY <1>0, <3>1 DEF QInv, TInv, AttemptHasJob, OneLiveAttempt, JobOf, Live
      <3>3. JobOf(b) # j
        BY <1>0, <3>2, QueueAssumption
      <3>4. job'[JobOf(b)] = job[JobOf(b)]
        BY <1>0, <3>2, <3>3, ClaimRows
      <3> QED BY <3>1, <3>2, <3>4 DEF JobOf
    <2> QED BY <2>1, <2>2
  <1>3. ASSUME NEW b \in Attempts, attempt[b].state = "SUCCEEDED"
        PROVE  attempt'[b] = attempt[b] /\ job'[JobOf(b)] = job[JobOf(b)]
    BY <1>0, <1>3, SucceededJob, ClaimRows
  <1>4. ASSUME NEW b \in Attempts, attempt[b].state # "SUCCEEDED"
        PROVE  attempt'[b].state # "SUCCEEDED"
    BY <1>0, <1>4, ClaimRows
  <1> QED BY <1>0, <1>1, <1>2, <1>3, <1>4, SuccessKept

LEMMA ClientKeepsCore ==
    ASSUME QInv, ClientNext
    PROVE  JobMirrorsAttempt' /\ OneLiveAttempt' /\ SuccessIsVerified'
  <1> PICK j \in Jobs : \/ \E spec \in Specs, key \in Keys : Submit(j, spec, key)
                        \/ RequestCancel(j)
                        \/ RequestRetry(j)
    BY DEF ClientNext
  <1>0. TInv /\ attempt' = attempt /\ indexed' = indexed
    BY DEF QInv, ClientNext, Submit, RequestCancel, CancelQueued, CancelLive, RequestRetry
  <1>1. \A k \in Jobs : k # j => job'[k] = job[k]
    BY <1>0, SubmitRows, CancelRows, RetryRows
  <1>2. \/ job[j].state \in {"ABSENT", "FAILED", "INTERRUPTED"}
           /\ job'[j].state = "QUEUED" /\ job'[j].current = None
        \/ job[j].state = "QUEUED"
           /\ job'[j].state = "CANCELLED" /\ job'[j].current = job[j].current
        \/ job[j].state \in Live
           /\ job'[j].state = job[j].state /\ job'[j].current = job[j].current
           /\ job'[j].version = job[j].version
    <2>1. CASE \E spec \in Specs, key \in Keys : Submit(j, spec, key)
      BY <1>0, <2>1, SubmitRows
    <2>2. CASE RequestCancel(j)
      BY <1>0, <2>2, CancelRows
    <2>3. CASE RequestRetry(j)
      BY <1>0, <2>3, RetryRows DEF RequestRetry
    <2> QED BY <2>1, <2>2, <2>3
  <1>3. JobMirrorsAttempt'
    <2> SUFFICES ASSUME NEW k \in Jobs
                 PROVE  /\ job'[k].current # None =>
                               /\ attempt[job'[k].current].job = k
                               /\ attempt[job'[k].current].state = job'[k].state
                               /\ attempt[job'[k].current].version = job'[k].version
                        /\ job'[k].state \in Live \cup {"SUCCEEDED", "FAILED", "INTERRUPTED"} =>
                               job'[k].current # None
                        /\ job'[k].state \in {"ABSENT", "QUEUED"} => job'[k].current = None
      BY <1>0 DEF JobMirrorsAttempt
    <2>1. CASE k = j
      BY <1>2, <2>1 DEF QInv, JobMirrorsAttempt, Live
    <2>2. CASE k # j
      BY <1>1, <2>2 DEF QInv, JobMirrorsAttempt
    <2> QED BY <2>1, <2>2
  <1>4. OneLiveAttempt'
    <2> SUFFICES ASSUME NEW b \in Attempts, attempt[b].state \in Live
                 PROVE  job'[attempt[b].job].current = b
      BY <1>0 DEF OneLiveAttempt, JobOf
    <2>1. attempt[b].job \in Jobs /\ job[attempt[b].job].current = b
          /\ job[attempt[b].job].state = attempt[b].state
      BY QueueAssumption DEF QInv, TInv, AttemptHasJob, OneLiveAttempt, JobMirrorsAttempt, JobOf,
         Live
    <2> QED BY <1>1, <1>2, <2>1 DEF Live
  <1>5. ASSUME NEW b \in Attempts, attempt[b].state = "SUCCEEDED"
        PROVE  job'[JobOf(b)] = job[JobOf(b)]
    BY <1>1, <1>2, <1>5, SucceededJob DEF Live
  <1> QED BY <1>0, <1>3, <1>4, <1>5, SuccessKept

LEMMA AttemptKeepsCore ==
    ASSUME QInv, AttemptNext
    PROVE  JobMirrorsAttempt' /\ OneLiveAttempt' /\ SuccessIsVerified'
  <1> DEFINE Core == JobMirrorsAttempt' /\ OneLiveAttempt' /\ SuccessIsVerified'
  <1> PICK a \in Attempts : \E expected \in 0..attempt[a].version : AttemptStep(a, expected)
    BY DEF AttemptNext
  <1> PICK expected \in 0..attempt[a].version : AttemptStep(a, expected)
    OBVIOUS
  <1>1. ASSUME NEW s \in Supervisors, NEW t \in 0..now, RegisterProcess(a, expected, s, t)
        PROVE  Core
    BY <1>1, UnsuccessfulMoveKeepsCore DEF RegisterProcess, Live
  <1>2. ASSUME job' = job, attempt' = attempt, indexed' = indexed
        PROVE  Core
    BY <1>2 DEF QInv, JobMirrorsAttempt, OneLiveAttempt, SuccessIsVerified, JobOf
  <1>3. ASSUME NEW state \in {"RUNNING"} \cup Terminal, Transition(a, expected, state)
        PROVE  Core
    <2>1. attempt[a].state \in Live
      BY <1>3 DEF Transition, LegalNext, Live
    <2>2. state \in (Live \cup Terminal) \ {"SUCCEEDED"}
      BY <1>3 DEF Transition, Live
    <2> QED BY <1>3, <2>1, <2>2, UnsuccessfulMoveKeepsCore DEF Transition
  <1>4. ASSUME NEW receipt \in Receipts, CompleteVerified(a, expected, receipt)
        PROVE  Core
    BY <1>4, CompleteKeepsCore
  <1>5. ASSUME NEW kind \in FailureKinds, NEW retry, NEW retryAt,
               FinishUnsuccessful(a, expected, kind, retry, retryAt)
        PROVE  Core
    <2>1. CASE FinishForGood(a, expected, kind)
      BY <2>1, UnsuccessfulIsTerminal, UnsuccessfulMoveKeepsCore DEF FinishForGood
    <2>2. CASE FinishAndRequeue(a, expected, kind, retryAt)
      BY <2>2, RequeueKeepsCore
    <2> QED BY <1>5, <2>1, <2>2 DEF FinishUnsuccessful
  <1> HIDE DEF Core
  <1>6. Core
    BY <1>1, <1>2, <1>3, <1>4, <1>5 DEF AttemptStep, Heartbeat, RecordProgress
  <1> QED BY <1>6 DEF Core

LEMMA CoreInit == Init => QInv
  BY TypesInit, QueueAssumption DEF Init, QInv, JobMirrorsAttempt, OneLiveAttempt,
     SuccessIsVerified, NoJob, NoAttempt, Live, JobOf

LEMMA CoreStep == ASSUME QInv, [Next]_vars PROVE QInv'
  <1>1. TInv'
    BY TypesStep DEF QInv
  <1>2. CASE ClientNext
    BY <1>1, <1>2, ClientKeepsCore DEF QInv
  <1>3. CASE ClaimNext
    BY <1>1, <1>3, ClaimKeepsCore DEF QInv, ClaimNext
  <1>4. CASE AttemptNext
    BY <1>1, <1>4, AttemptKeepsCore DEF QInv
  <1>5. CASE Tick \/ UNCHANGED vars
    BY <1>1, <1>5 DEF Tick, vars, QInv, JobMirrorsAttempt, OneLiveAttempt, SuccessIsVerified,
       JobOf
  <1> QED BY <1>2, <1>3, <1>4, <1>5 DEF Next

LEMMA CoreInvariant == Spec => []QInv
  BY CoreInit, CoreStep, PTL DEF Spec

\* QueueCorruptionError is never raised: in every reachable state a job and the
\* attempt it names have the same state and version.
THEOREM NeverCorrupt == Spec => []JobMirrorsAttempt
  BY CoreInvariant, PTL DEF QInv

\* No interleaving of claims, retries, cancels and late calls gives a job two
\* attempts that may both still act.
THEOREM AtMostOneLiveAttempt == Spec => []OneLiveAttempt
  BY CoreInvariant, PTL DEF QInv

\* A job succeeds only through complete_verified, with an indexed receipt for
\* its own spec and no cancel request, and stays bound to that attempt.
THEOREM SuccessNeedsReceipt == Spec => []SuccessIsVerified
  BY CoreInvariant, PTL DEF QInv

-------------------------------------------------------------------------------
(* Action properties and the refinement.  Both follow from the five shapes a   *)
(* step has under the core invariant.                                           *)

\* A live, current attempt moves both rows; success needs an uncancelled job
\* and cancellation a cancelled one.
MoveStep(a, expected, state) ==
    /\ RequireCurrent(a, expected)
    /\ attempt[a].state \in Live
    /\ state \in Live \cup Terminal
    /\ state = "SUCCEEDED" => ~job[JobOf(a)].cancel
    /\ state = "CANCELLED" => job[JobOf(a)].cancel
    /\ Move(a, expected, state)

LEMMA AttemptShape ==
    ASSUME NEW a \in Attempts, NEW expected \in 0..attempt[a].version, AttemptStep(a, expected)
    PROVE  \/ job' = job /\ attempt' = attempt
           \/ \E state : MoveStep(a, expected, state)
           \/ \E kind \in FailureKinds : \E retryAt : FinishAndRequeue(a, expected, kind, retryAt)
  <1>1. ASSUME NEW s \in Supervisors, NEW t \in 0..now, RegisterProcess(a, expected, s, t)
        PROVE  MoveStep(a, expected, "RUNNING")
    BY <1>1 DEF RegisterProcess, MoveStep, Live
  <1>2. ASSUME NEW state \in {"RUNNING"} \cup Terminal, Transition(a, expected, state)
        PROVE  MoveStep(a, expected, state)
    BY <1>2 DEF Transition, MoveStep, LegalNext, Live
  <1>3. ASSUME NEW receipt \in Receipts, CompleteVerified(a, expected, receipt)
        PROVE  MoveStep(a, expected, "SUCCEEDED")
    BY <1>3 DEF CompleteVerified, MoveStep, LegalNext, Live, Terminal
  <1>4. ASSUME NEW kind \in FailureKinds, FinishForGood(a, expected, kind)
        PROVE  MoveStep(a, expected, UnsuccessfulState(a, kind))
    BY <1>4 DEF FinishForGood, MoveStep, UnsuccessfulState, Terminal
  <1>5. ASSUME NEW kind \in FailureKinds, NEW retry, NEW retryAt,
               FinishUnsuccessful(a, expected, kind, retry, retryAt)
        PROVE  \/ \E state : MoveStep(a, expected, state)
               \/ FinishAndRequeue(a, expected, kind, retryAt)
    BY <1>4, <1>5 DEF FinishUnsuccessful
  <1> QED BY <1>1, <1>2, <1>3, <1>5 DEF AttemptStep, Heartbeat, RecordProgress

LEMMA MoveStepRows ==
    ASSUME QInv, NEW a \in Attempts, NEW expected \in 0..attempt[a].version, NEW state,
           MoveStep(a, expected, state)
    PROVE  /\ JobOf(a) \in Jobs
           /\ job[JobOf(a)].state = attempt[a].state
           /\ job[JobOf(a)].current = a
           /\ job[JobOf(a)].version = expected
           /\ expected \in Nat
           /\ \A k \in Jobs : k # JobOf(a) => job'[k] = job[k]
           /\ \A b \in Attempts : b # a => attempt'[b] = attempt[b]
           /\ job'[JobOf(a)].state = state
           /\ job'[JobOf(a)].version = expected + 1
           /\ job'[JobOf(a)].cancel = job[JobOf(a)].cancel
           /\ job'[JobOf(a)].current = a
           /\ attempt'[a].state = state
  BY LiveCurrent, MoveRows DEF MoveStep, QInv

LEMMA RequeueStepRows ==
    ASSUME QInv, NEW a \in Attempts, NEW expected \in 0..attempt[a].version,
           NEW kind \in FailureKinds, NEW retryAt, FinishAndRequeue(a, expected, kind, retryAt)
    PROVE  /\ JobOf(a) \in Jobs
           /\ attempt[a].state \in Live
           /\ job[JobOf(a)].state = attempt[a].state
           /\ job[JobOf(a)].current = a
           /\ job[JobOf(a)].version = expected
           /\ ~job[JobOf(a)].cancel
           /\ expected \in Nat
           /\ \A k \in Jobs : k # JobOf(a) => job'[k] = job[k]
           /\ \A b \in Attempts : b # a => attempt'[b] = attempt[b]
           /\ job'[JobOf(a)].state = "QUEUED"
           /\ job'[JobOf(a)].version = expected + 1
           /\ job'[JobOf(a)].cancel = job[JobOf(a)].cancel
           /\ attempt'[a].state \in Terminal
  <1>1. RequireCurrent(a, expected) /\ attempt[a].state \in Live /\ ~job[JobOf(a)].cancel
    BY DEF FinishAndRequeue
  <1> QED BY <1>1, LiveCurrent, RequeueRows, UnsuccessfulIsTerminal DEF QInv

\* Every step of a reachable state changes at most one job and one attempt.
StepShape ==
    \/ job' = job /\ attempt' = attempt
    \/ \E j \in Jobs, spec \in Specs, key \in Keys : Submit(j, spec, key)
    \/ \E j \in Jobs : RequestCancel(j) /\ attempt' = attempt
    \/ \E j \in Jobs : RequestRetry(j)
    \/ \E s \in Supervisors, types \in SUBSET Types, t \in 0..now, j \in Jobs, a \in Attempts :
           Claim(s, types, t, j, a)
    \/ \E a \in Attempts : \E expected \in 0..attempt[a].version :
           \/ \E state : MoveStep(a, expected, state)
           \/ \E kind \in FailureKinds : \E retryAt : FinishAndRequeue(a, expected, kind, retryAt)

LEMMA StepHasShape == ASSUME [Next]_vars PROVE StepShape
  <1>1. CASE ClientNext
    BY <1>1 DEF ClientNext, StepShape, RequestCancel, CancelQueued, CancelLive
  <1>2. CASE ClaimNext
    BY <1>2 DEF ClaimNext, StepShape
  <1>3. CASE AttemptNext
    BY <1>3, AttemptShape DEF AttemptNext, StepShape
  <1>4. CASE Tick \/ UNCHANGED vars
    BY <1>4 DEF Tick, vars, StepShape
  <1> QED BY <1>1, <1>2, <1>3, <1>4 DEF Next

LEMMA FinalStepHolds == ASSUME QInv, StepShape PROVE FinalStep
  <1> DEFINE AttemptsStay == \A a \in Attempts : attempt[a].state \in Terminal =>
                                 attempt'[a] = attempt[a]
             JobsStay == \A j \in Jobs : job[j].state \in {"SUCCEEDED", "CANCELLED"} =>
                             job'[j] = job[j]
  <1>0. TInv
    BY DEF QInv
  <1>2. ASSUME NEW j \in Jobs, NEW spec \in Specs, NEW key \in Keys, Submit(j, spec, key)
        PROVE  AttemptsStay /\ JobsStay
    BY <1>2, SubmitRows DEF QInv, Submit
  <1>3. ASSUME NEW j \in Jobs, RequestCancel(j), attempt' = attempt
        PROVE  AttemptsStay /\ JobsStay
    BY <1>3, CancelRows DEF QInv, Live
  <1>4. ASSUME NEW j \in Jobs, RequestRetry(j)
        PROVE  AttemptsStay /\ JobsStay
    BY <1>4, RetryRows DEF QInv, RequestRetry
  <1>5. ASSUME NEW s \in Supervisors, NEW types \in SUBSET Types, NEW t \in 0..now,
               NEW j \in Jobs, NEW a \in Attempts, Claim(s, types, t, j, a)
        PROVE  AttemptsStay /\ JobsStay
    <2>1. attempt[a].state \notin Terminal /\ job[j].state = "QUEUED"
      BY <1>5 DEF Claim, Claimable, Terminal
    <2>2. /\ \A k \in Jobs : k # j => job'[k] = job[k]
          /\ \A b \in Attempts : b # a => attempt'[b] = attempt[b]
      BY <1>0, <1>5, ClaimRows
    <2> QED BY <2>1, <2>2
  <1>6. ASSUME NEW a \in Attempts, NEW expected \in 0..attempt[a].version,
               NEW state, MoveStep(a, expected, state)
        PROVE  AttemptsStay /\ JobsStay
    <2>1. attempt[a].state \in Live
      BY <1>6 DEF MoveStep
    <2> QED BY <1>6, <2>1, MoveStepRows DEF Live, Terminal
  <1>7. ASSUME NEW a \in Attempts, NEW expected \in 0..attempt[a].version,
               NEW kind \in FailureKinds, NEW retryAt, FinishAndRequeue(a, expected, kind, retryAt)
        PROVE  AttemptsStay /\ JobsStay
    BY <1>7, RequeueStepRows DEF Live, Terminal
  <1> HIDE DEF AttemptsStay, JobsStay
  <1>8. AttemptsStay /\ JobsStay
    <2>1. CASE job' = job /\ attempt' = attempt
      BY <2>1 DEF AttemptsStay, JobsStay
    <2> QED BY <1>2, <1>3, <1>4, <1>5, <1>6, <1>7, <2>1 DEF StepShape
  <1> QED BY <1>8 DEF FinalStep, AttemptsStay, JobsStay

LEMMA FencedStepHolds == ASSUME QInv, StepShape PROVE FencedStep
  <1> SUFFICES ASSUME NEW j \in Jobs, job[j].state # "ABSENT", job'[j].state # job[j].state
               PROVE  job'[j].version > job[j].version
    BY DEF FencedStep
  <1>0. job[j].version \in Nat /\ TInv
    BY DEF QInv, TInv, TypeOK, JobRow
  <1>1. CASE job' = job
    BY <1>1
  <1>2. ASSUME NEW k \in Jobs, NEW spec \in Specs, NEW key \in Keys, Submit(k, spec, key)
        PROVE  FALSE
    BY <1>0, <1>2, SubmitRows
  <1>3. ASSUME NEW k \in Jobs, RequestCancel(k)
        PROVE  job'[j].version = job[j].version + 1
    BY <1>0, <1>3, CancelRows
  <1>4. ASSUME NEW k \in Jobs, RequestRetry(k)
        PROVE  job'[j].version = job[j].version + 1
    BY <1>0, <1>4, RetryRows
  <1>5. ASSUME NEW s \in Supervisors, NEW types \in SUBSET Types, NEW t \in 0..now,
               NEW k \in Jobs, NEW a \in Attempts, Claim(s, types, t, k, a)
        PROVE  job'[j].version = job[j].version + 1
    BY <1>0, <1>5, ClaimRows
  <1>6. ASSUME NEW a \in Attempts, NEW expected \in 0..attempt[a].version,
               NEW state, MoveStep(a, expected, state)
        PROVE  job'[j].version = job[j].version + 1
    BY <1>6, MoveStepRows
  <1>7. ASSUME NEW a \in Attempts, NEW expected \in 0..attempt[a].version,
               NEW kind \in FailureKinds, NEW retryAt, FinishAndRequeue(a, expected, kind, retryAt)
        PROVE  job'[j].version = job[j].version + 1
    BY <1>7, RequeueStepRows
  <1>8. job'[j].version = job[j].version + 1
    BY <1>1, <1>2, <1>3, <1>4, <1>5, <1>6, <1>7 DEF StepShape
  <1> QED BY <1>0, <1>8

LEMMA WithdrawnStepHolds == ASSUME QInv, StepShape PROVE WithdrawnStep
  <1> SUFFICES ASSUME NEW j \in Jobs, job[j].cancel, job[j].state \in Live
               PROVE  /\ job'[j].cancel
                      /\ job'[j].state \notin {"SUCCEEDED", "QUEUED"}
                      /\ job'[j].current = job[j].current
    BY DEF WithdrawnStep
  <1> DEFINE Kept == /\ job'[j].cancel = job[j].cancel
                     /\ job'[j].state \notin {"SUCCEEDED", "QUEUED"}
                     /\ job'[j].current = job[j].current
  <1>0. job[j].cancel = TRUE /\ TInv
    BY DEF QInv, TInv, TypeOK, JobRow
  <1>1. ASSUME job'[j] = job[j] PROVE Kept
    BY <1>1 DEF Live
  <1>2. ASSUME NEW k \in Jobs, NEW spec \in Specs, NEW key \in Keys, Submit(k, spec, key)
        PROVE  job'[j] = job[j]
    BY <1>0, <1>2, SubmitRows DEF Live
  <1>3. ASSUME NEW k \in Jobs, RequestCancel(k)
        PROVE  Kept
    BY <1>0, <1>1, <1>3, CancelRows DEF Live
  <1>4. ASSUME NEW k \in Jobs, RequestRetry(k)
        PROVE  job'[j] = job[j]
    BY <1>0, <1>4, RetryRows DEF RequestRetry, Live
  <1>5. ASSUME NEW s \in Supervisors, NEW types \in SUBSET Types, NEW t \in 0..now,
               NEW k \in Jobs, NEW a \in Attempts, Claim(s, types, t, k, a)
        PROVE  job'[j] = job[j]
    <2>1. job[k].state = "QUEUED"
      BY <1>5 DEF Claim, Claimable
    <2>2. \A i \in Jobs : i # k => job'[i] = job[i]
      BY <1>0, <1>5, ClaimRows
    <2> QED BY <2>1, <2>2 DEF Live
  <1>6. ASSUME NEW a \in Attempts, NEW expected \in 0..attempt[a].version,
               NEW state, MoveStep(a, expected, state)
        PROVE  Kept
    <2>1. CASE j = JobOf(a)
      <3>1. state # "SUCCEEDED" /\ state \in Live \cup Terminal
        BY <1>6, <2>1 DEF MoveStep
      <3>2. state \notin {"SUCCEEDED", "QUEUED"}
        BY <3>1 DEF Live, Terminal
      <3>3. /\ job'[JobOf(a)].state = state
            /\ job'[JobOf(a)].cancel = job[JobOf(a)].cancel
            /\ job'[JobOf(a)].current = job[JobOf(a)].current
        BY <1>6, MoveStepRows
      <3> QED BY <2>1, <3>2, <3>3
    <2>2. CASE j # JobOf(a)
      BY <1>1, <1>6, <2>2, MoveStepRows
    <2> QED BY <2>1, <2>2
  <1>7. ASSUME NEW a \in Attempts, NEW expected \in 0..attempt[a].version,
               NEW kind \in FailureKinds, NEW retryAt, FinishAndRequeue(a, expected, kind, retryAt)
        PROVE  job'[j] = job[j]
    BY <1>7, RequeueStepRows
  <1> HIDE DEF Kept
  <1>8. Kept
    BY <1>1, <1>2, <1>3, <1>4, <1>5, <1>6, <1>7 DEF StepShape
  <1> QED BY <1>0, <1>8 DEF Kept

LEMMA QueueSteps == ASSUME QInv, [Next]_vars PROVE FinalStep /\ FencedStep /\ WithdrawnStep
  BY StepHasShape, FinalStepHolds, FencedStepHolds, WithdrawnStepHolds

\* No late, repeated or reordered call rewrites a decided attempt, nor a job
\* that succeeded or was cancelled.
THEOREM DecisionsAreFinal == Spec => TerminalIsFinal
  <1>1. QInv /\ [Next]_vars => [FinalStep]_vars
    BY QueueSteps
  <1> QED BY <1>1, CoreInvariant, PTL DEF Spec, TerminalIsFinal

\* A remembered version never names a second state of the job, so the version
\* test of a late call is a fence.
THEOREM VersionsFence == Spec => VersionFence
  <1>1. QInv /\ [Next]_vars => [FencedStep]_vars
    BY QueueSteps
  <1> QED BY <1>1, CoreInvariant, PTL DEF Spec, VersionFence

\* A cancel request on a live job, once stored, excludes success and any
\* automatic retry, whatever the supervisor and the child do next.
THEOREM CancelRequestsHold == Spec => CancelFence
  <1>1. QInv /\ [Next]_vars => [WithdrawnStep]_vars
    BY QueueSteps
  <1> QED BY <1>1, CoreInvariant, PTL DEF Spec, CancelFence

-------------------------------------------------------------------------------
(* The refinement: each shape of a step is one step of JobLifecycle or leaves  *)
(* what the mapping shows unchanged.                                            *)

Holder(j) == IF job[j].state \in Live THEN job[j].current ELSE None
Status == [j \in Jobs |-> Phase(j)]
Holders == [j \in Jobs |-> Holder(j)]
Withdrawn == [j \in Jobs |-> job[j].cancel]
Spent == {a \in Attempts : attempt[a].state \in Terminal}

LEMMA PhaseOfState ==
    ASSUME NEW j \in Jobs
    PROVE  /\ job[j].state = "ABSENT" => Phase(j) = "unknown"
           /\ job[j].state = "QUEUED" => Phase(j) = "waiting"
           /\ job[j].state \in Live => Phase(j) = "active"
           /\ job[j].state = "SUCCEEDED" => Phase(j) = "succeeded"
           /\ job[j].state \in {"FAILED", "INTERRUPTED"} => Phase(j) = "failed"
           /\ job[j].state = "CANCELLED" => Phase(j) = "cancelled"
  BY Zenon DEF Phase, Live

LEMMA PhaseOfNextState ==
    ASSUME NEW j \in Jobs
    PROVE  /\ job'[j].state = "ABSENT" => Phase(j)' = "unknown"
           /\ job'[j].state = "QUEUED" => Phase(j)' = "waiting"
           /\ job'[j].state \in Live => Phase(j)' = "active"
           /\ job'[j].state = "SUCCEEDED" => Phase(j)' = "succeeded"
           /\ job'[j].state \in {"FAILED", "INTERRUPTED"} => Phase(j)' = "failed"
           /\ job'[j].state = "CANCELLED" => Phase(j)' = "cancelled"
  BY Zenon DEF Phase, Live

\* A step that rewrites one job row changes the mapping at that job only.
LEMMA OneJobMapped ==
    ASSUME NEW j \in Jobs, \A k \in Jobs : k # j => job'[k] = job[k]
    PROVE  /\ Status' = [Status EXCEPT ![j] = Phase(j)']
           /\ Holders' = [Holders EXCEPT ![j] = Holder(j)']
           /\ Withdrawn' = [Withdrawn EXCEPT ![j] = job'[j].cancel]
  <1>1. \A k \in Jobs : k # j => Phase(k)' = Phase(k) /\ Holder(k)' = Holder(k)
    BY DEF Phase, Holder
  <1> QED BY <1>1 DEF Status, Holders, Withdrawn

LEMMA MappedInit == Init => Lifecycle!Init
  <1> SUFFICES ASSUME Init PROVE Lifecycle!Init
    OBVIOUS
  <1>1. \A j \in Jobs : job[j].state = "ABSENT" /\ job[j].cancel = FALSE
    BY DEF Init, NoJob
  <1>2. \A j \in Jobs : Phase(j) = "unknown"
    BY <1>1, PhaseOfState
  <1>3. \A a \in Attempts : attempt[a].state \notin Terminal
    BY DEF Init, NoAttempt, Terminal
  <1>4. \A j \in Jobs : job[j].state \notin Live
    BY <1>1 DEF Live
  <1> QED BY <1>1, <1>2, <1>3, <1>4 DEF Lifecycle!Init

\* A job not yet stored carries no cancel mark, which Submit relies on.
AbsentUnmarked == \A j \in Jobs : job[j].state = "ABSENT" => job[j].cancel = FALSE

RInv == QInv /\ AbsentUnmarked

LEMMA UnmarkedStep == ASSUME RInv, StepShape PROVE AbsentUnmarked'
  <1> SUFFICES ASSUME NEW j \in Jobs, job'[j].state = "ABSENT" PROVE job'[j] = job[j]
    BY DEF RInv, AbsentUnmarked
  <1>0. QInv /\ TInv
    BY DEF RInv, QInv
  <1>2. ASSUME NEW k \in Jobs, NEW spec \in Specs, NEW key \in Keys, Submit(k, spec, key)
        PROVE  job'[j] = job[j]
    BY <1>0, <1>2, SubmitRows
  <1>3. ASSUME NEW k \in Jobs, RequestCancel(k)
        PROVE  job'[j] = job[j]
    BY <1>0, <1>3, CancelRows DEF Live
  <1>4. ASSUME NEW k \in Jobs, RequestRetry(k)
        PROVE  job'[j] = job[j]
    BY <1>0, <1>4, RetryRows
  <1>5. ASSUME NEW s \in Supervisors, NEW types \in SUBSET Types, NEW t \in 0..now,
               NEW k \in Jobs, NEW a \in Attempts, Claim(s, types, t, k, a)
        PROVE  job'[j] = job[j]
    BY <1>0, <1>5, ClaimRows
  <1>6. ASSUME NEW a \in Attempts, NEW expected \in 0..attempt[a].version,
               NEW state, MoveStep(a, expected, state)
        PROVE  job'[j] = job[j]
    <2>1. state \in Live \cup Terminal
      BY <1>6 DEF MoveStep
    <2> QED BY <1>0, <1>6, <2>1, MoveStepRows DEF Live, Terminal
  <1>7. ASSUME NEW a \in Attempts, NEW expected \in 0..attempt[a].version,
               NEW kind \in FailureKinds, NEW retryAt, FinishAndRequeue(a, expected, kind, retryAt)
        PROVE  job'[j] = job[j]
    BY <1>0, <1>7, RequeueStepRows
  <1> QED BY <1>2, <1>3, <1>4, <1>5, <1>6, <1>7 DEF StepShape

LEMMA RefinementInvariant == Spec => []RInv
  <1>1. Init => RInv
    BY CoreInit DEF RInv, AbsentUnmarked, Init, NoJob
  <1>2. RInv /\ [Next]_vars => RInv'
    BY CoreStep, StepHasShape, UnmarkedStep DEF RInv
  <1> QED BY <1>1, <1>2, PTL DEF Spec

\* Client operations, as the lifecycle sees them.
LEMMA MappedSubmit ==
    ASSUME RInv, NEW j \in Jobs, NEW spec \in Specs, NEW key \in Keys, Submit(j, spec, key)
    PROVE  Lifecycle!Submit(j)
  <1>1. /\ job[j].state = "ABSENT" /\ job[j].cancel = FALSE
        /\ job'[j].state = "QUEUED" /\ job'[j].cancel = FALSE
        /\ \A k \in Jobs : k # j => job'[k] = job[k]
        /\ attempt' = attempt
    BY DEF RInv, AbsentUnmarked, QInv, TInv, TypeOK, Submit
  <1>2. Phase(j) = "unknown" /\ Phase(j)' = "waiting"
    BY <1>1, PhaseOfState, PhaseOfNextState
  <1>3. Holder(j) = None /\ Holder(j)' = None
    BY <1>1 DEF Holder, Live
  <1>4. Status' = [Status EXCEPT ![j] = "waiting"] /\ Holders' = Holders /\ Withdrawn' = Withdrawn
    BY <1>1, <1>2, <1>3, OneJobMapped, ZenonT(40) DEF Holders, Withdrawn
  <1>5. Status[j] = "unknown" /\ Spent' = Spent
    BY <1>1, <1>2 DEF Status, Spent
  <1> QED BY <1>4, <1>5 DEF Lifecycle!Submit, Status, Holders, Holder, Withdrawn, Spent

LEMMA MappedCancel ==
    ASSUME RInv, NEW j \in Jobs, RequestCancel(j), attempt' = attempt
    PROVE  Lifecycle!Withdraw(j)
  <1>1. /\ job[j].cancel = FALSE /\ job'[j].cancel = TRUE
        /\ \/ job[j].state = "QUEUED" /\ job'[j].state = "CANCELLED"
           \/ job[j].state \in Live /\ job'[j].state = job[j].state
        /\ job'[j].current = job[j].current
        /\ \A k \in Jobs : k # j => job'[k] = job[k]
    <2>1. job[j].cancel = FALSE
      BY DEF RInv, QInv, TInv, TypeOK, JobRow, RequestCancel, CancelQueued, CancelLive
    <2> QED BY <2>1, CancelRows DEF RInv, QInv
  <1>2. \/ Phase(j) = "waiting" /\ Phase(j)' = "cancelled"
        \/ Phase(j) = "active" /\ Phase(j)' = "active"
    BY <1>1, PhaseOfState, PhaseOfNextState
  <1>3. Holder(j)' = Holder(j)
    BY <1>1 DEF Holder, Live
  <1>4. /\ Status' = [Status EXCEPT ![j] = IF Status[j] = "waiting" THEN "cancelled" ELSE Status[j]]
        /\ Holders' = Holders
        /\ Withdrawn' = [Withdrawn EXCEPT ![j] = TRUE]
    BY <1>1, <1>2, <1>3, OneJobMapped DEF Status, Holders
  <1>5. Status[j] \in {"waiting", "active"} /\ ~Withdrawn[j] /\ Spent' = Spent
    BY <1>1, <1>2 DEF Status, Withdrawn, Spent
  <1> QED BY <1>4, <1>5 DEF Lifecycle!Withdraw, Status, Holders, Holder, Withdrawn, Spent

LEMMA MappedRetry ==
    ASSUME RInv, NEW j \in Jobs, RequestRetry(j)
    PROVE  Lifecycle!Reopen(j)
  <1>1. /\ job[j].state \in {"FAILED", "INTERRUPTED"} /\ job'[j].state = "QUEUED"
        /\ job'[j].cancel = FALSE
        /\ \A k \in Jobs : k # j => job'[k] = job[k]
        /\ attempt' = attempt
    BY DEF RInv, QInv, TInv, TypeOK, JobRow, RequestRetry
  <1>2. Phase(j) = "failed" /\ Phase(j)' = "waiting"
    BY <1>1, PhaseOfState, PhaseOfNextState
  <1>3. Holder(j) = None /\ Holder(j)' = None
    BY <1>1 DEF Holder, Live
  <1>4. /\ Status' = [Status EXCEPT ![j] = "waiting"]
        /\ Holders' = Holders
        /\ Withdrawn' = [Withdrawn EXCEPT ![j] = FALSE]
    BY <1>1, <1>2, <1>3, OneJobMapped DEF Holders
  <1>5. Status[j] = "failed" /\ Spent' = Spent
    BY <1>1, <1>2 DEF Status, Spent
  <1> QED BY <1>4, <1>5 DEF Lifecycle!Reopen, Status, Holders, Holder, Withdrawn, Spent

\* A claim hands the job to an attempt no job holds and none has used.
LEMMA MappedClaim ==
    ASSUME RInv, NEW s, NEW types, NEW t, NEW j \in Jobs, NEW a \in Attempts,
           Claim(s, types, t, j, a)
    PROVE  Lifecycle!Start(j, a)
  <1>0. TInv /\ QInv
    BY DEF RInv, QInv
  <1>1. job[j].state = "QUEUED" /\ attempt[a].state = "ABSENT"
    BY DEF Claim, Claimable
  <1>2. /\ job'[j].state = "STARTING" /\ job'[j].current = a
        /\ job'[j].cancel = job[j].cancel
        /\ attempt'[a].state = "STARTING"
        /\ \A k \in Jobs : k # j => job'[k] = job[k]
        /\ \A b \in Attempts : b # a => attempt'[b] = attempt[b]
    BY <1>0, ClaimRows
  <1>3. Phase(j) = "waiting" /\ Phase(j)' = "active"
    BY <1>1, <1>2, PhaseOfState, PhaseOfNextState DEF Live
  <1>4. Holder(j)' = a
    BY <1>2 DEF Holder, Live
  <1>5. /\ Status' = [Status EXCEPT ![j] = "active"]
        /\ Holders' = [Holders EXCEPT ![j] = a]
        /\ Withdrawn' = Withdrawn
    BY <1>2, <1>3, <1>4, OneJobMapped DEF Withdrawn
  <1>6. a \notin Spent /\ Spent' = Spent /\ Status[j] = "waiting"
    BY <1>1, <1>2, <1>3 DEF Spent, Status, Terminal
  <1>7. \A k \in Jobs : Holder(k) # a
    BY <1>0, <1>1, QueueAssumption DEF Holder, QInv, JobMirrorsAttempt, Live
  <1>8. \A k \in Jobs : Holders[k] # a
    BY <1>7 DEF Holders
  <1> QED BY <1>5, <1>6, <1>8 DEF Lifecycle!Start, Status, Holders, Holder, Withdrawn, Spent

\* A move to RUNNING is invisible; one to a terminal state decides the job.
LEMMA MappedMove ==
    ASSUME RInv, NEW a \in Attempts, NEW expected \in 0..attempt[a].version, NEW state,
           MoveStep(a, expected, state)
    PROVE  \/ UNCHANGED <<Status, Holders, Withdrawn, Spent>>
           \/ \E j \in Jobs, outcome \in {"succeeded", "failed", "cancelled"} :
                  Lifecycle!Decide(j, outcome)
  <1>0. QInv
    BY DEF RInv
  <1> PICK j \in Jobs : j = JobOf(a)
    BY <1>0, MoveStepRows
  <1>1. /\ job[j].state = attempt[a].state /\ job[j].current = a
        /\ job'[j].state = state /\ job'[j].cancel = job[j].cancel /\ job'[j].current = a
        /\ attempt'[a].state = state
        /\ \A k \in Jobs : k # j => job'[k] = job[k]
        /\ \A b \in Attempts : b # a => attempt'[b] = attempt[b]
    BY <1>0, MoveStepRows
  <1>2. /\ attempt[a].state \in Live
        /\ state \in Live \cup Terminal
        /\ state = "SUCCEEDED" => ~job[j].cancel
        /\ state = "CANCELLED" => job[j].cancel
    BY DEF MoveStep
  <1>3. Phase(j) = "active" /\ Status[j] = "active" /\ Holder(j) = a /\ Holders[j] = a
    BY <1>1, <1>2, PhaseOfState DEF Status, Holder, Holders
  <1>4. Withdrawn' = Withdrawn
    BY <1>1, OneJobMapped DEF Withdrawn
  <1>5. CASE state \in Live
    <2>1. Phase(j)' = "active" /\ Holder(j)' = a
      BY <1>1, <1>5, PhaseOfNextState DEF Holder
    <2>2. Status' = [Status EXCEPT ![j] = "active"] /\ Holders' = [Holders EXCEPT ![j] = a]
      BY <1>1, <2>1, OneJobMapped
    <2>3. Status' = Status /\ Holders' = Holders
      BY <1>3, <2>2 DEF Status, Holders
    <2>4. Spent' = Spent
      BY <1>1, <1>2, <1>5 DEF Spent, Live, Terminal
    <2> QED BY <1>4, <2>3, <2>4
  <1>6. CASE state \in Terminal
    <2>1. Holder(j)' = None /\ state \notin Live
      BY <1>1, <1>6 DEF Holder, Live, Terminal
    <2>2. PICK outcome \in {"succeeded", "failed", "cancelled"} :
              /\ Phase(j)' = outcome
              /\ outcome = "succeeded" => ~job[j].cancel
              /\ outcome = "cancelled" => job[j].cancel
      BY <1>1, <1>2, <1>6, PhaseOfNextState DEF Terminal
    <2>3. Status' = [Status EXCEPT ![j] = outcome] /\ Holders' = [Holders EXCEPT ![j] = None]
      BY <1>1, <2>1, <2>2, OneJobMapped
    <2>4. Spent' = Spent \cup {Holders[j]}
      BY <1>1, <1>3, <1>6 DEF Spent
    <2>5. /\ outcome = "succeeded" => ~Withdrawn[j]
          /\ outcome = "waiting" => ~Withdrawn[j]
          /\ outcome = "cancelled" => Withdrawn[j]
      BY <1>1, <2>2 DEF Withdrawn
    <2>6. Lifecycle!Decide(j, outcome)
      BY <1>3, <1>4, <2>3, <2>4, <2>5
         DEF Lifecycle!Decide, Status, Holders, Holder, Withdrawn, Spent
    <2> QED BY <1>1, <2>6
  <1> QED BY <1>2, <1>5, <1>6

\* A failure with a scheduled retry decides the job back to waiting.
LEMMA MappedRequeue ==
    ASSUME RInv, NEW a \in Attempts, NEW expected \in 0..attempt[a].version,
           NEW kind \in FailureKinds, NEW retryAt, FinishAndRequeue(a, expected, kind, retryAt)
    PROVE  JobOf(a) \in Jobs /\ Lifecycle!Decide(JobOf(a), "waiting")
  <1>0. QInv
    BY DEF RInv
  <1> PICK j \in Jobs : j = JobOf(a)
    BY <1>0, RequeueStepRows
  <1>1. /\ job[j].state \in Live /\ job[j].current = a /\ ~job[j].cancel
        /\ job'[j].state = "QUEUED" /\ job'[j].cancel = job[j].cancel
        /\ attempt'[a].state \in Terminal
        /\ \A k \in Jobs : k # j => job'[k] = job[k]
        /\ \A b \in Attempts : b # a => attempt'[b] = attempt[b]
    BY <1>0, RequeueStepRows
  <1>2. Phase(j) = "active" /\ Phase(j)' = "waiting" /\ Status[j] = "active"
    BY <1>1, PhaseOfState, PhaseOfNextState DEF Status
  <1>3. Holder(j)' = None /\ Holders[j] = a
    BY <1>1 DEF Holder, Holders, Live
  <1>4. /\ Status' = [Status EXCEPT ![j] = "waiting"]
        /\ Holders' = [Holders EXCEPT ![j] = None]
        /\ Withdrawn' = Withdrawn
    BY <1>1, <1>2, <1>3, OneJobMapped DEF Withdrawn
  <1>5. Spent' = Spent \cup {Holders[j]}
    BY <1>1, <1>3 DEF Spent
  <1>6. ~Withdrawn[j]
    BY <1>1 DEF Withdrawn
  <1>7. Lifecycle!Decide(j, "waiting")
    BY <1>2, <1>4, <1>5, <1>6 DEF Lifecycle!Decide, Status, Holders, Holder, Withdrawn, Spent
  <1> QED BY <1>7

LEMMA MappedStep ==
    ASSUME RInv, StepShape
    PROVE  Lifecycle!Next \/ UNCHANGED <<Status, Holders, Withdrawn, Spent>>
  <1>1. CASE job' = job /\ attempt' = attempt
    BY <1>1 DEF Status, Holders, Holder, Withdrawn, Spent, Phase
  <1>2. ASSUME NEW j \in Jobs, NEW spec \in Specs, NEW key \in Keys, Submit(j, spec, key)
        PROVE  Lifecycle!Next
    BY <1>2, MappedSubmit DEF Lifecycle!Next
  <1>3. ASSUME NEW j \in Jobs, RequestCancel(j), attempt' = attempt
        PROVE  Lifecycle!Next
    BY <1>3, MappedCancel DEF Lifecycle!Next
  <1>4. ASSUME NEW j \in Jobs, RequestRetry(j)
        PROVE  Lifecycle!Next
    BY <1>4, MappedRetry DEF Lifecycle!Next
  <1>5. ASSUME NEW s, NEW types, NEW t, NEW j \in Jobs, NEW a \in Attempts,
               Claim(s, types, t, j, a)
        PROVE  Lifecycle!Next
    <2>1. Lifecycle!Start(j, a)
      BY <1>5, MappedClaim
    <2> QED BY <2>1 DEF Lifecycle!Next
  <1>6. ASSUME NEW a \in Attempts, NEW expected \in 0..attempt[a].version,
               NEW state, MoveStep(a, expected, state)
        PROVE  Lifecycle!Next \/ UNCHANGED <<Status, Holders, Withdrawn, Spent>>
    BY <1>6, MappedMove DEF Lifecycle!Next
  <1>7. ASSUME NEW a \in Attempts, NEW expected \in 0..attempt[a].version,
               NEW kind \in FailureKinds, NEW retryAt, FinishAndRequeue(a, expected, kind, retryAt)
        PROVE  Lifecycle!Next
    BY <1>7, MappedRequeue DEF Lifecycle!Next
  <1> QED BY <1>1, <1>2, <1>3, <1>4, <1>5, <1>6, <1>7 DEF StepShape

\* The queue implements JobLifecycle: one holder at a time, fresh attempts only,
\* and no success or automatic retry after a cancel request.
THEOREM QueueImplementsLifecycle == Spec => ImplementsLifecycle
  <1>1. Init => Lifecycle!Init
    BY MappedInit
  <1>2. RInv /\ [Next]_vars => [Lifecycle!Next]_(Lifecycle!vars)
    BY StepHasShape, MappedStep DEF Lifecycle!vars, Status, Holders, Holder, Withdrawn, Spent
  <1> QED BY <1>1, <1>2, RefinementInvariant, PTL DEF Spec, ImplementsLifecycle, Lifecycle!Spec

-------------------------------------------------------------------------------
(* Idempotency keys.                                                          *)

\* A step keeps every job's spec and key and stores no job but by Submit.
KeysKept ==
    \A k \in Jobs : /\ job'[k].spec = job[k].spec
                    /\ job'[k].key = job[k].key
                    /\ job'[k].state # "ABSENT" => job[k].state # "ABSENT"

LEMMA StepKeepsKeys ==
    ASSUME QInv, StepShape
    PROVE  \/ KeysKept
           \/ \E j \in Jobs, spec \in Specs, key \in Keys : Submit(j, spec, key)
  <1>0. TInv /\ TypeOK
    BY DEF QInv, TInv
  <1>1. CASE job' = job
    BY <1>1 DEF KeysKept
  <1>2. ASSUME NEW j \in Jobs, RequestCancel(j) PROVE KeysKept
    <2>1. CASE CancelQueued(j)
      BY <1>0, <2>1 DEF CancelQueued, KeysKept, TypeOK, JobRow
    <2>2. CASE CancelLive(j)
      BY <1>0, <2>2 DEF CancelLive, KeysKept, TypeOK, JobRow
    <2> QED BY <1>2, <2>1, <2>2 DEF RequestCancel
  <1>3. ASSUME NEW j \in Jobs, RequestRetry(j) PROVE KeysKept
    BY <1>0, <1>3 DEF RequestRetry, KeysKept, TypeOK, JobRow
  <1>4. ASSUME NEW s, NEW types, NEW t, NEW j \in Jobs, NEW a \in Attempts,
               Claim(s, types, t, j, a)
        PROVE  KeysKept
    BY <1>0, <1>4 DEF Claim, Claimable, KeysKept, TypeOK, JobRow
  <1>5. ASSUME NEW a \in Attempts, NEW expected \in 0..attempt[a].version, NEW state,
               MoveStep(a, expected, state)
        PROVE  KeysKept
    <2>1. JobOf(a) \in Jobs /\ job[JobOf(a)].state \in Live
      BY <1>5, MoveStepRows DEF MoveStep
    <2>2. job' = [job EXCEPT ![JobOf(a)] =
                    [job[JobOf(a)] EXCEPT !.state = state, !.version = expected + 1]]
      BY <1>5 DEF MoveStep, Move
    <2> QED BY <1>0, <2>1, <2>2 DEF KeysKept, TypeOK, JobRow, Live
  <1>6. ASSUME NEW a \in Attempts, NEW expected \in 0..attempt[a].version,
               NEW kind \in FailureKinds, NEW retryAt, FinishAndRequeue(a, expected, kind, retryAt)
        PROVE  KeysKept
    <2>1. JobOf(a) \in Jobs /\ job[JobOf(a)].state \in Live
      BY <1>6, RequeueStepRows
    <2>2. job' = [job EXCEPT ![JobOf(a)] = [job[JobOf(a)] EXCEPT
                    !.state = "QUEUED", !.version = expected + 1, !.current = None]]
      BY <1>6 DEF FinishAndRequeue
    <2> QED BY <1>0, <2>1, <2>2 DEF KeysKept, TypeOK, JobRow, Live
  <1> QED BY <1>1, <1>2, <1>3, <1>4, <1>5, <1>6 DEF StepShape

LEMMA KeysStep == ASSUME QInv, OneJobPerKey, [Next]_vars PROVE OneJobPerKey'
  <1>1. CASE KeysKept
    BY <1>1 DEF KeysKept, OneJobPerKey
  <1>2. ASSUME NEW j \in Jobs, NEW spec \in Specs, NEW key \in Keys, Submit(j, spec, key)
        PROVE  OneJobPerKey'
    <2>1. /\ job'[j].key = key /\ job'[j].spec = spec
          /\ \A k \in Jobs : k # j => job'[k] = job[k]
      BY <1>2 DEF QInv, TInv, TypeOK, JobRow, Submit
    <2>2. \A k \in Jobs : ~ (/\ job[k].state # "ABSENT" /\ job[k].key = key
                             /\ TypeOf[job[k].spec] = TypeOf[spec])
      BY <1>2 DEF Submit
    <2> QED BY <2>1, <2>2 DEF OneJobPerKey
  <1> QED BY <1>1, <1>2, StepHasShape, StepKeepsKeys

\* However often, with whatever spec and in whatever order submissions are
\* repeated, a command type and idempotency key name one job.
THEOREM KeysNameOneJob == Spec => []OneJobPerKey
  <1>1. Init => OneJobPerKey
    BY DEF Init, OneJobPerKey, NoJob
  <1> QED BY <1>1, KeysStep, CoreInvariant, PTL DEF Spec

-------------------------------------------------------------------------------
(* Leases.                                                                    *)

LEMMA LeaseRegister ==
    ASSUME QInv, LeaseOnlyWhileRunning, NEW a \in Attempts,
           NEW expected \in 0..attempt[a].version, NEW s \in Supervisors, NEW t,
           RegisterProcess(a, expected, s, t)
    PROVE  LeaseOnlyWhileRunning'
  <1>1. attempt' = [attempt EXCEPT ![a] =
                      [attempt[a] EXCEPT !.state = "RUNNING", !.version = expected + 1]]
    BY DEF RegisterProcess, Move
  <1>2. /\ attempt'[a].state = "RUNNING" /\ attempt'[a].supervisor = s
        /\ \A b \in Attempts : b # a => attempt'[b] = attempt[b]
    BY <1>1 DEF QInv, TInv, TypeOK, AttemptRow, RegisterProcess
  <1>3. /\ runtime'[a].supervisor = s
        /\ \A b \in Attempts : b # a => runtime'[b] = runtime[b]
    BY DEF QInv, TInv, TypeOK, RegisterProcess
  <1> QED BY <1>2, <1>3 DEF LeaseOnlyWhileRunning

LEMMA LeaseHeartbeat ==
    ASSUME QInv, LeaseOnlyWhileRunning, NEW a \in Attempts, NEW expected,
           NEW s \in Supervisors, NEW t, Heartbeat(a, expected, s, t)
    PROVE  LeaseOnlyWhileRunning'
  <1>1. runtime[a] # NoRuntime
    BY QueueAssumption DEF Heartbeat, NoRuntime
  <1>2. /\ runtime'[a].supervisor = runtime[a].supervisor
        /\ \A b \in Attempts : b # a => runtime'[b] = runtime[b]
    BY DEF QInv, TInv, TypeOK, RuntimeRow, Heartbeat
  <1>3. attempt' = attempt
    BY DEF Heartbeat
  <1> QED BY <1>1, <1>2, <1>3 DEF LeaseOnlyWhileRunning

\* An attempt that ends gives its lease up; one that is moved to RUNNING
\* without a registration had none.
LEMMA LeaseEnds ==
    ASSUME QInv, LeaseOnlyWhileRunning, NEW a \in Attempts,
           \A b \in Attempts : b # a => attempt'[b] = attempt[b],
           \/ runtime' = [runtime EXCEPT ![a] = NoRuntime]
           \/ runtime' = runtime /\ attempt[a].state # "RUNNING"
    PROVE  LeaseOnlyWhileRunning'
  <1>1. runtime'[a] = NoRuntime /\ \A b \in Attempts : b # a => runtime'[b] = runtime[b]
    BY DEF QInv, TInv, TypeOK, LeaseOnlyWhileRunning
  <1> QED BY <1>1 DEF LeaseOnlyWhileRunning

LEMMA LeaseAttempt == ASSUME QInv, LeaseOnlyWhileRunning, AttemptNext PROVE LeaseOnlyWhileRunning'
  <1> PICK a \in Attempts : \E expected \in 0..attempt[a].version : AttemptStep(a, expected)
    BY DEF AttemptNext
  <1> PICK expected \in 0..attempt[a].version : AttemptStep(a, expected)
    OBVIOUS
  <1>0. ASSUME NEW state, Move(a, expected, state)
        PROVE  \A b \in Attempts : b # a => attempt'[b] = attempt[b]
    BY <1>0 DEF Move, QInv, TInv, TypeOK
  <1>1. ASSUME NEW s \in Supervisors, NEW n, RecordProgress(a, expected, s, n)
        PROVE  LeaseOnlyWhileRunning'
    BY <1>1 DEF RecordProgress, LeaseOnlyWhileRunning
  <1>2. ASSUME NEW state \in {"RUNNING"} \cup Terminal, Transition(a, expected, state)
        PROVE  LeaseOnlyWhileRunning'
    <2>1. state \in Terminal \/ attempt[a].state # "RUNNING"
      BY <1>2 DEF Transition, LegalNext, Terminal
    <2> QED BY <1>0, <1>2, <2>1, LeaseEnds DEF Transition
  <1>3. ASSUME NEW receipt \in Receipts, CompleteVerified(a, expected, receipt)
        PROVE  LeaseOnlyWhileRunning'
    BY <1>0, <1>3, LeaseEnds DEF CompleteVerified
  <1>4. ASSUME NEW kind \in FailureKinds, FinishForGood(a, expected, kind)
        PROVE  LeaseOnlyWhileRunning'
    BY <1>0, <1>4, LeaseEnds DEF FinishForGood
  <1>5. ASSUME NEW kind \in FailureKinds, NEW retryAt, FinishAndRequeue(a, expected, kind, retryAt)
        PROVE  LeaseOnlyWhileRunning'
    <2>1. \A b \in Attempts : b # a => attempt'[b] = attempt[b]
      BY <1>5 DEF FinishAndRequeue, QInv, TInv, TypeOK
    <2> QED BY <1>5, <2>1, LeaseEnds DEF FinishAndRequeue
  <1>6. ASSUME NEW s \in Supervisors, NEW t,
               RegisterProcess(a, expected, s, t) \/ Heartbeat(a, expected, s, t)
        PROVE  LeaseOnlyWhileRunning'
    BY <1>6, LeaseRegister, LeaseHeartbeat
  <1> QED BY <1>1, <1>2, <1>3, <1>4, <1>5, <1>6 DEF AttemptStep, FinishUnsuccessful

LEMMA LeaseStep ==
    ASSUME QInv, LeaseOnlyWhileRunning, [Next]_vars PROVE LeaseOnlyWhileRunning'
  <1>1. CASE ClientNext
    BY <1>1 DEF ClientNext, Submit, RequestCancel, CancelQueued, CancelLive, RequestRetry,
       LeaseOnlyWhileRunning
  <1>2. ASSUME NEW s, NEW types, NEW t, NEW j \in Jobs, NEW a \in Attempts,
               Claim(s, types, t, j, a)
        PROVE  LeaseOnlyWhileRunning'
    <2>1. runtime' = runtime /\ attempt[a].state = "ABSENT"
      BY <1>2 DEF Claim
    <2>2. \A b \in Attempts : b # a => attempt'[b] = attempt[b]
      BY <1>2, ClaimRows, SMTT(40) DEF QInv
    <2> QED BY <2>1, <2>2, LeaseEnds
  <1>3. CASE AttemptNext
    BY <1>3, LeaseAttempt
  <1>4. CASE Tick \/ UNCHANGED vars
    BY <1>4 DEF Tick, vars, LeaseOnlyWhileRunning
  <1> QED BY <1>1, <1>2, <1>3, <1>4 DEF Next, ClaimNext

\* A process lease belongs to a running attempt of the supervisor that claimed
\* it, whatever heartbeats, late calls and raw transitions come in between.
THEOREM LeasesBelong == Spec => []LeaseOnlyWhileRunning
  <1>1. Init => LeaseOnlyWhileRunning
    BY DEF Init, LeaseOnlyWhileRunning
  <1> QED BY <1>1, LeaseStep, CoreInvariant, PTL DEF Spec

-------------------------------------------------------------------------------
(* Progress frames.                                                           *)

Increasing(q) == \A m, n \in DOMAIN q : m < n => q[m] < q[n]

\* What record_progress does to the frames of one attempt.
LEMMA FramesStay ==
    ASSUME NEW q \in Seq(Nat), NEW n \in Nat, Increasing(q), Len(q) <= ProgressKept,
           q # <<>> => n > q[Len(q)]
    PROVE  LET kept == IF Len(q) < ProgressKept THEN q ELSE Tail(q)
           IN  Increasing(Append(kept, n)) /\ Len(Append(kept, n)) <= ProgressKept
  <1> DEFINE kept == IF Len(q) < ProgressKept THEN q ELSE Tail(q)
  <1>1. \A m \in 1..Len(q) : q[m] < n
    <2> SUFFICES ASSUME NEW m \in 1..Len(q) PROVE q[m] < n
      OBVIOUS
    <2>1. q[m] \in Nat /\ q[Len(q)] \in Nat /\ q # <<>>
      OBVIOUS
    <2>2. m < Len(q) => q[m] < q[Len(q)]
      BY DEF Increasing
    <2> QED BY <2>1, <2>2
  <1>2. CASE Len(q) < ProgressKept
    <2>1. kept = q /\ Len(Append(q, n)) = Len(q) + 1
      BY <1>2
    <2>2. \A m \in 1..Len(q) : Append(q, n)[m] = q[m]
      OBVIOUS
    <2>3. Append(q, n)[Len(q) + 1] = n
      OBVIOUS
    <2>4. Increasing(Append(q, n))
      BY <1>1, <2>1, <2>2, <2>3 DEF Increasing
    <2> QED BY <1>2, <2>1, <2>4, QueueAssumption
  <1>3. CASE ~(Len(q) < ProgressKept)
    <2>1. kept = Tail(q) /\ Len(q) = ProgressKept /\ Len(q) \in Nat \ {0} /\ q # <<>>
      BY <1>3, QueueAssumption
    <2> DEFINE r == Tail(q)
    <2>2. r \in Seq(Nat) /\ Len(r) = Len(q) - 1
      BY <2>1
    <2>3. \A m \in 1..Len(r) : r[m] = q[m + 1]
      BY <2>1
    <2> HIDE DEF r
    <2>4. Len(Append(r, n)) = Len(q) /\ Append(r, n) \in Seq(Nat)
      BY <2>2
    <2>5. \A m \in 1..Len(r) : Append(r, n)[m] = q[m + 1]
      BY <2>2, <2>3
    <2>6. Append(r, n)[Len(q)] = n
      BY <2>1, <2>2
    <2>7. Increasing(Append(r, n))
      <3> SUFFICES ASSUME NEW m \in 1..Len(q), NEW k \in 1..Len(q), m < k
                   PROVE  Append(r, n)[m] < Append(r, n)[k]
        BY <2>4 DEF Increasing
      <3>0. m \in 1..Len(r) /\ (k # Len(q) => k \in 1..Len(r))
        BY <2>1, <2>2
      <3>1. Append(r, n)[m] = q[m + 1]
        BY <3>0, <2>5
      <3>2. CASE k = Len(q)
        <4>1. m + 1 \in 1..Len(q)
          BY <2>1, <3>0, <2>2
        <4> QED BY <1>1, <2>6, <3>1, <3>2, <4>1
      <3>3. CASE k # Len(q)
        <4>1. Append(r, n)[k] = q[k + 1] /\ m + 1 \in 1..Len(q) /\ k + 1 \in 1..Len(q)
          BY <2>1, <2>2, <2>5, <3>0, <3>3
        <4> QED BY <3>1, <4>1 DEF Increasing
      <3> QED BY <3>2, <3>3
    <2> QED BY <2>1, <2>4, <2>7 DEF r
  <1> QED BY <1>2, <1>3

LEMMA ProgressStep ==
    ASSUME QInv, ProgressIncreases, [Next]_vars PROVE ProgressIncreases'
  <1>1. ASSUME NEW a \in Attempts, NEW expected, NEW s, NEW n \in 1..MaxSequence,
               RecordProgress(a, expected, s, n)
        PROVE  ProgressIncreases'
    <2> DEFINE q == progress[a]
               kept == IF Len(q) < ProgressKept THEN q ELSE Tail(q)
    <2>1. q \in Seq(Nat) /\ Increasing(q) /\ Len(q) <= ProgressKept /\ n \in Nat
      BY QueueAssumption DEF QInv, TInv, TypeOK, ProgressIncreases, Increasing
    <2>2. q # <<>> => n > q[Len(q)]
      BY <1>1 DEF RecordProgress
    <2>3. Increasing(Append(kept, n)) /\ Len(Append(kept, n)) <= ProgressKept
      BY <2>1, <2>2, FramesStay
    <2>4. progress' = [progress EXCEPT ![a] = Append(kept, n)]
      BY <1>1 DEF RecordProgress
    <2> HIDE DEF kept, q
    <2>5. /\ progress'[a] = Append(kept, n)
          /\ \A b \in Attempts : b # a => progress'[b] = progress[b]
      BY <2>4 DEF QInv, TInv, TypeOK
    <2> QED BY <2>3, <2>5 DEF ProgressIncreases, Increasing
  <1>2. ASSUME progress' = progress PROVE ProgressIncreases'
    BY <1>2 DEF ProgressIncreases
  <1>3. CASE ClientNext
    BY <1>2, <1>3 DEF ClientNext, Submit, RequestCancel, CancelQueued, CancelLive, RequestRetry
  <1>4. CASE ClaimNext
    BY <1>2, <1>4 DEF ClaimNext, Claim
  <1>5. CASE AttemptNext
    <2> PICK a \in Attempts : \E expected \in 0..attempt[a].version : AttemptStep(a, expected)
      BY <1>5 DEF AttemptNext
    <2> PICK expected \in 0..attempt[a].version : AttemptStep(a, expected)
      OBVIOUS
    <2>1. \/ \E s \in Supervisors, n \in 1..MaxSequence : RecordProgress(a, expected, s, n)
          \/ progress' = progress
      BY DEF AttemptStep, RegisterProcess, Heartbeat, Transition, CompleteVerified,
         FinishUnsuccessful, FinishForGood, FinishAndRequeue
    <2> QED BY <1>1, <1>2, <2>1
  <1>6. CASE Tick \/ UNCHANGED vars
    BY <1>2, <1>6 DEF Tick, vars
  <1> QED BY <1>3, <1>4, <1>5, <1>6 DEF Next

\* Whatever order progress reports arrive in, and however often they are
\* repeated, the retained frames increase and stay within the retention bound.
THEOREM FramesIncrease == Spec => []ProgressIncreases
  <1>1. Init => ProgressIncreases
    BY QueueAssumption DEF Init, ProgressIncreases
  <1> QED BY <1>1, ProgressStep, CoreInvariant, PTL DEF Spec

-------------------------------------------------------------------------------
(* The retry schedule.  RetryScheduleSound is inductive only together with the  *)
(* numbering: a job's current attempt has the highest number, so has the one    *)
(* its schedule names, and no two attempts of a job share one.  BackoffHonoured *)
(* needs the converse too: the schedule row of a newest attempt that failed     *)
(* with a retry is there until its job is claimed or cancelled.                 *)

Newest(a) == \A b \in Attempts :
                 attempt[b].job = attempt[a].job => attempt[b].number <= attempt[a].number

CurrentIsNewest ==
    \A a \in Attempts : attempt[a].job \in Jobs /\ job[attempt[a].job].current = a => Newest(a)

NumbersDistinct ==
    \A a, b \in Attempts :
        (/\ attempt[a].job \in Jobs
         /\ attempt[a].job = attempt[b].job
         /\ attempt[a].number = attempt[b].number)
        => a = b

RetriedIsOver == \A a \in Attempts : failure[a].retry => attempt[a].state \in Terminal

ScheduleNamesAttempt == \A j \in Jobs : schedule[j] # NoSchedule => schedule[j].previous \in Attempts

RetryPending ==
    \A a \in Attempts : failure[a].retry /\ Newest(a) =>
        \/ job[attempt[a].job].state = "CANCELLED"
        \/ schedule[attempt[a].job] = [previous |-> a, notBefore |-> failure[a].retryAt]

Numbering == CurrentIsNewest /\ NumbersDistinct

BInv == QInv /\ Numbering /\ RetriedIsOver /\ ScheduleNamesAttempt /\ RetryPending
             /\ RetryScheduleSound /\ BackoffHonoured

\* Every operation but a claim leaves whose attempt it is, its number and its
\* creation time.
SameAttempts ==
    \A a \in Attempts : /\ attempt'[a].job = attempt[a].job
                        /\ attempt'[a].number = attempt[a].number
                        /\ attempt'[a].created = attempt[a].created

LEMMA NumberTypes ==
    ASSUME QInv, NEW a \in Attempts
    PROVE  /\ attempt[a].number \in Nat /\ attempt[a].created \in Nat
           /\ attempt[a].state # "ABSENT" <=> attempt[a].job \in Jobs
  BY DEF QInv, TInv, TypeOK, AttemptRow, AttemptHasJob

LEMMA NewestKept ==
    ASSUME SameAttempts, NEW a \in Attempts PROVE Newest(a)' <=> Newest(a)
  BY DEF SameAttempts, Newest

LEMMA NumberingKept ==
    ASSUME BInv, SameAttempts,
           \A j \in Jobs : job'[j].current \in {job[j].current, None}
    PROVE  Numbering'
  <1>1. NumbersDistinct'
    BY DEF BInv, Numbering, NumbersDistinct, SameAttempts
  <1>2. CurrentIsNewest'
    <2> SUFFICES ASSUME NEW a \in Attempts, attempt'[a].job \in Jobs,
                        job'[attempt'[a].job].current = a
                 PROVE  Newest(a)'
      BY DEF CurrentIsNewest
    <2>1. attempt[a].job \in Jobs /\ job[attempt[a].job].current = a
      BY QueueAssumption DEF SameAttempts
    <2> QED BY <2>1, NewestKept DEF BInv, Numbering, CurrentIsNewest
  <1> QED BY <1>1, <1>2 DEF Numbering

\* A failure row written for the newest attempt has no next attempt yet.
LEMMA BackoffKept ==
    ASSUME BInv, SameAttempts,
           \A a \in Attempts : failure'[a].retry => failure'[a] = failure[a] \/ Newest(a)
    PROVE  BackoffHonoured'
  <1> SUFFICES ASSUME NEW a \in Attempts, NEW b \in Attempts, failure'[a].retry,
                      attempt'[b].job = attempt'[a].job,
                      attempt'[b].number = attempt'[a].number + 1
               PROVE  attempt'[b].created >= failure'[a].retryAt
    BY DEF BackoffHonoured
  <1>1. ~Newest(a)
    BY NumberTypes DEF BInv, Newest, SameAttempts
  <1> QED BY <1>1 DEF BInv, BackoffHonoured, SameAttempts

\* A pending retry stays pending unless its job is cancelled.
LEMMA PendingKept ==
    ASSUME BInv, SameAttempts, FinalStep, RetriedIsOver',
           \A a \in Attempts : failure'[a].retry =>
               \/ failure'[a] = failure[a]
               \/ schedule'[attempt[a].job] =
                      [previous |-> a, notBefore |-> failure'[a].retryAt],
           \A j \in Jobs : job[j].state = "QUEUED" =>
               schedule'[j] = schedule[j] \/ job'[j].state = "CANCELLED"
    PROVE  RetryPending'
  <1> SUFFICES ASSUME NEW a \in Attempts, failure'[a].retry, Newest(a)'
               PROVE  \/ job'[attempt'[a].job].state = "CANCELLED"
                      \/ schedule'[attempt'[a].job] =
                             [previous |-> a, notBefore |-> failure'[a].retryAt]
    BY DEF RetryPending
  <1>1. attempt'[a].job = attempt[a].job /\ Newest(a)
    BY NewestKept DEF SameAttempts
  <1>2. CASE failure'[a] = failure[a]
    <2> DEFINE j == attempt[a].job
    <2>1. j \in Jobs
      BY <1>2, NumberTypes DEF BInv, RetriedIsOver, Terminal
    <2>2. CASE job[j].state = "CANCELLED"
      BY <1>1, <2>1, <2>2 DEF FinalStep
    <2>3. CASE schedule[j] = [previous |-> a, notBefore |-> failure[a].retryAt]
      <3>1. schedule[j] # NoSchedule
        BY <2>3, QueueAssumption DEF NoSchedule
      <3>2. job[j].state = "QUEUED"
        BY <2>1, <3>1 DEF BInv, RetryScheduleSound
      <3> QED BY <1>1, <1>2, <2>1, <2>3, <3>2
    <2> QED BY <1>1, <1>2, <2>2, <2>3 DEF BInv, RetryPending
  <1> QED BY <1>1, <1>2

\* The schedule rows that are kept stay sound when their jobs stay queued.
LEMMA SoundnessKept ==
    ASSUME BInv, SameAttempts,
           \A j \in Jobs : schedule'[j] # NoSchedule =>
               /\ schedule'[j].previous \in Attempts
               /\ attempt[schedule'[j].previous].job = j
               /\ Newest(schedule'[j].previous)
               /\ job'[j].state = "QUEUED"
               /\ ~job'[j].cancel
               /\ failure'[schedule'[j].previous].retry
               /\ failure'[schedule'[j].previous].retryAt = schedule'[j].notBefore
    PROVE  RetryScheduleSound' /\ ScheduleNamesAttempt'
  <1> SUFFICES ASSUME NEW j \in Jobs, schedule'[j] # NoSchedule, NEW p, p = schedule'[j].previous
               PROVE  /\ p \in Attempts
                      /\ job'[j].state = "QUEUED"
                      /\ ~job'[j].cancel
                      /\ attempt'[p].job = j
                      /\ \A a \in AttemptsOf(j)' : attempt'[a].number <= attempt'[p].number
                      /\ failure'[p].retry
                      /\ failure'[p].retryAt = schedule'[j].notBefore
    BY DEF RetryScheduleSound, ScheduleNamesAttempt, NoSchedule
  <1>1. p \in Attempts /\ attempt'[p].job = j
    BY DEF SameAttempts
  <1>2. ASSUME NEW a \in AttemptsOf(j)' PROVE attempt'[a].number <= attempt'[p].number
    BY <1>1, <1>2 DEF AttemptsOf, SameAttempts, Newest
  <1> QED BY <1>1, <1>2

\* What the invariant says of a stored schedule row.
LEMMA ScheduledRow ==
    ASSUME BInv, NEW j \in Jobs, schedule[j] # NoSchedule
    PROVE  /\ schedule[j].previous \in Attempts
           /\ attempt[schedule[j].previous].job = j
           /\ Newest(schedule[j].previous)
           /\ job[j].state = "QUEUED"
           /\ ~job[j].cancel
           /\ failure[schedule[j].previous].retry
           /\ failure[schedule[j].previous].retryAt = schedule[j].notBefore
  BY DEF BInv, ScheduleNamesAttempt, RetryScheduleSound, AttemptsOf, Newest

\* Client operations and clock ticks.
LEMMA ClientBackoff ==
    ASSUME BInv, FinalStep, attempt' = attempt, failure' = failure,
           \A j \in Jobs :
               \/ job'[j] = job[j] /\ schedule'[j] = schedule[j]
               \/ /\ job'[j].current \in {job[j].current, None}
                  /\ schedule'[j] = NoSchedule
                  /\ job[j].state = "QUEUED" => job'[j].state = "CANCELLED"
    PROVE  /\ Numbering' /\ RetriedIsOver' /\ ScheduleNamesAttempt' /\ RetryPending'
           /\ RetryScheduleSound' /\ BackoffHonoured'
  <1>1. SameAttempts /\ RetriedIsOver'
    BY DEF SameAttempts, BInv, RetriedIsOver
  <1>2. Numbering'
    BY <1>1, NumberingKept
  <1>3. RetryPending'
    BY <1>1, PendingKept
  <1>4. RetryScheduleSound' /\ ScheduleNamesAttempt'
    BY <1>1, ScheduledRow, SoundnessKept
  <1>5. BackoffHonoured'
    BY <1>1, BackoffKept
  <1> QED BY <1>1, <1>2, <1>3, <1>4, <1>5

LEMMA ClientRows ==
    ASSUME BInv, ClientNext
    PROVE  /\ attempt' = attempt /\ failure' = failure
           /\ \A j \in Jobs :
                  \/ job'[j] = job[j] /\ schedule'[j] = schedule[j]
                  \/ /\ job'[j].current \in {job[j].current, None}
                     /\ schedule'[j] = NoSchedule
                     /\ job[j].state = "QUEUED" => job'[j].state = "CANCELLED"
  <1>0. TInv /\ TypeOK
    BY DEF BInv, QInv, TInv
  <1> PICK k \in Jobs : \/ \E spec \in Specs, key \in Keys : Submit(k, spec, key)
                        \/ RequestCancel(k)
                        \/ RequestRetry(k)
    BY DEF ClientNext
  <1>1. ASSUME NEW spec \in Specs, NEW key \in Keys, Submit(k, spec, key)
        PROVE  /\ attempt' = attempt /\ failure' = failure /\ schedule' = schedule
               /\ \A j \in Jobs : j # k => job'[j] = job[j]
               /\ job'[k].current = None /\ job[k].state = "ABSENT"
    <2>1. attempt' = attempt /\ failure' = failure /\ schedule' = schedule
      BY <1>1 DEF Submit
    <2> QED BY <1>0, <1>1, <2>1, SubmitRows
  <1>2. CASE CancelQueued(k)
    <2>1. /\ \A j \in Jobs : j # k => job'[j] = job[j] /\ schedule'[j] = schedule[j]
          /\ schedule'[k] = NoSchedule
          /\ job'[k].current = job[k].current /\ job'[k].state = "CANCELLED"
      BY <1>0, <1>2 DEF CancelQueued, TypeOK, JobRow
    <2> QED BY <1>2, <2>1 DEF CancelQueued
  <1>3. CASE CancelLive(k)
    <2>1. schedule[k] = NoSchedule
      BY <1>3, ScheduledRow DEF CancelLive, Live
    <2>2. /\ \A j \in Jobs : j # k => job'[j] = job[j]
          /\ job'[k].current = job[k].current /\ schedule' = schedule /\ job[k].state # "QUEUED"
      BY <1>0, <1>3 DEF CancelLive, TypeOK, JobRow, Live
    <2> QED BY <1>3, <2>1, <2>2 DEF CancelLive
  <1>4. CASE RequestRetry(k)
    <2>1. /\ \A j \in Jobs : j # k => job'[j] = job[j] /\ schedule'[j] = schedule[j]
          /\ schedule'[k] = NoSchedule
          /\ job'[k].current = None /\ job[k].state # "QUEUED"
      BY <1>0, <1>4 DEF RequestRetry, TypeOK, JobRow
    <2> QED BY <1>4, <2>1 DEF RequestRetry
  <1>5. ASSUME NEW spec \in Specs, NEW key \in Keys, Submit(k, spec, key)
        PROVE  schedule[k] = NoSchedule
    BY <1>1, <1>5, ScheduledRow
  <1> QED BY <1>1, <1>2, <1>3, <1>4, <1>5 DEF RequestCancel

\* A step of one attempt that does not requeue its job: no schedule row
\* changes, and a failure row only to one without a retry.
LEMMA MoveBackoff ==
    ASSUME BInv, NEW a \in Attempts, NEW expected \in 0..attempt[a].version, NEW state,
           MoveStep(a, expected, state), schedule' = schedule,
           \A b \in Attempts : failure'[b].retry => failure'[b] = failure[b],
           \A b \in Attempts : b # a => failure'[b] = failure[b]
    PROVE  /\ Numbering' /\ RetriedIsOver' /\ ScheduleNamesAttempt' /\ RetryPending'
           /\ RetryScheduleSound' /\ BackoffHonoured'
  <1>0. TypeOK /\ StepShape /\ FinalStep
    BY FinalStepHolds DEF BInv, QInv, TInv, StepShape
  <1>1. /\ JobOf(a) \in Jobs /\ job[JobOf(a)].state \in Live /\ attempt[a].state \in Live
        /\ \A k \in Jobs : k # JobOf(a) => job'[k] = job[k]
        /\ job'[JobOf(a)].current = job[JobOf(a)].current
        /\ \A b \in Attempts : b # a => attempt'[b] = attempt[b]
    BY MoveStepRows DEF BInv, MoveStep
  <1>2. SameAttempts
    <2>1. attempt' = [attempt EXCEPT ![a] =
                        [attempt[a] EXCEPT !.state = state, !.version = expected + 1]]
      BY DEF MoveStep, Move
    <2>2. /\ attempt'[a].job = attempt[a].job /\ attempt'[a].number = attempt[a].number
          /\ attempt'[a].created = attempt[a].created
      BY <1>0, <2>1 DEF TypeOK, AttemptRow
    <2> QED BY <1>1, <2>2 DEF SameAttempts
  <1>3. Numbering'
    BY <1>1, <1>2, NumberingKept
  <1>4. RetriedIsOver'
    <2> SUFFICES ASSUME NEW b \in Attempts, failure'[b].retry PROVE attempt'[b].state \in Terminal
      BY DEF RetriedIsOver
    <2>1. attempt[b].state \in Terminal
      BY DEF BInv, RetriedIsOver
    <2> QED BY <1>1, <2>1 DEF Live, Terminal
  <1>5. RetryPending'
    BY <1>0, <1>2, <1>4, PendingKept
  <1>6. RetryScheduleSound' /\ ScheduleNamesAttempt'
    <2> SUFFICES ASSUME NEW j \in Jobs, schedule'[j] # NoSchedule
                 PROVE  /\ schedule'[j].previous \in Attempts
                        /\ attempt[schedule'[j].previous].job = j
                        /\ Newest(schedule'[j].previous)
                        /\ job'[j].state = "QUEUED"
                        /\ ~job'[j].cancel
                        /\ failure'[schedule'[j].previous].retry
                        /\ failure'[schedule'[j].previous].retryAt = schedule'[j].notBefore
      BY <1>2, SoundnessKept
    <2>1. j # JobOf(a) /\ schedule'[j].previous # a
      BY <1>1, ScheduledRow DEF Live, JobOf
    <2> QED BY <1>1, <2>1, ScheduledRow
  <1>7. BackoffHonoured'
    BY <1>2, BackoffKept
  <1> QED BY <1>3, <1>4, <1>5, <1>6, <1>7

LEMMA RequeueBackoff ==
    ASSUME BInv, NEW a \in Attempts, NEW expected \in 0..attempt[a].version,
           NEW kind \in FailureKinds, NEW retryAt, FinishAndRequeue(a, expected, kind, retryAt)
    PROVE  /\ Numbering' /\ RetriedIsOver' /\ ScheduleNamesAttempt' /\ RetryPending'
           /\ RetryScheduleSound' /\ BackoffHonoured'
  <1>0. TypeOK /\ TInv /\ StepShape /\ FinalStep
    BY FinalStepHolds DEF BInv, QInv, TInv, StepShape
  <1>1. /\ JobOf(a) \in Jobs /\ job[JobOf(a)].state \in Live /\ attempt[a].state \in Live
        /\ job[JobOf(a)].current = a /\ ~job[JobOf(a)].cancel
        /\ \A k \in Jobs : k # JobOf(a) => job'[k] = job[k]
        /\ job'[JobOf(a)].state = "QUEUED" /\ job'[JobOf(a)].cancel = job[JobOf(a)].cancel
        /\ attempt'[a].state \in Terminal
        /\ \A b \in Attempts : b # a => attempt'[b] = attempt[b]
    BY RequeueStepRows DEF BInv
  <1>2. job'[JobOf(a)].current = None
    BY <1>0, <1>1, RequeueRows
  <1>3. SameAttempts
    <2>1. attempt' = [attempt EXCEPT ![a] = [attempt[a] EXCEPT
                        !.state = UnsuccessfulState(a, kind), !.version = expected + 1]]
      BY DEF FinishAndRequeue
    <2>2. /\ attempt'[a].job = attempt[a].job /\ attempt'[a].number = attempt[a].number
          /\ attempt'[a].created = attempt[a].created
      BY <1>0, <2>1 DEF TypeOK, AttemptRow
    <2> QED BY <1>1, <2>2 DEF SameAttempts
  <1>4. /\ schedule'[JobOf(a)] = [previous |-> a, notBefore |-> retryAt]
        /\ \A j \in Jobs : j # JobOf(a) => schedule'[j] = schedule[j]
        /\ failure'[a] = [kind |-> kind, retry |-> TRUE, retryAt |-> retryAt]
        /\ \A b \in Attempts : b # a => failure'[b] = failure[b]
    BY <1>0, <1>1 DEF FinishAndRequeue, TypeOK
  <1>5. Newest(a)
    BY <1>1 DEF BInv, Numbering, CurrentIsNewest, JobOf
  <1>6. Numbering'
    BY <1>1, <1>2, <1>3, NumberingKept
  <1>7. RetriedIsOver'
    BY <1>1, <1>4 DEF BInv, RetriedIsOver
  <1>8. RetryPending'
    BY <1>0, <1>1, <1>3, <1>4, <1>7, PendingKept DEF Live, JobOf
  <1>9. RetryScheduleSound' /\ ScheduleNamesAttempt'
    <2> SUFFICES ASSUME NEW j \in Jobs, schedule'[j] # NoSchedule
                 PROVE  /\ schedule'[j].previous \in Attempts
                        /\ attempt[schedule'[j].previous].job = j
                        /\ Newest(schedule'[j].previous)
                        /\ job'[j].state = "QUEUED"
                        /\ ~job'[j].cancel
                        /\ failure'[schedule'[j].previous].retry
                        /\ failure'[schedule'[j].previous].retryAt = schedule'[j].notBefore
      BY <1>3, SoundnessKept
    <2>1. CASE j = JobOf(a)
      BY <1>1, <1>4, <1>5, <2>1 DEF JobOf
    <2>2. CASE j # JobOf(a)
      <3>1. schedule'[j] = schedule[j] /\ job'[j] = job[j]
        BY <1>1, <1>4, <2>2
      <3>2. schedule[j].previous # a
        BY <2>2, <3>1, ScheduledRow DEF JobOf
      <3> QED BY <1>4, <3>1, <3>2, ScheduledRow
    <2> QED BY <2>1, <2>2
  <1>10. BackoffHonoured'
    BY <1>3, <1>4, <1>5, BackoffKept
  <1> QED BY <1>6, <1>7, <1>8, <1>9, <1>10

\* A new attempt's number is above that of every earlier attempt of the job,
\* and one above the newest's.
LEMMA NextNumberExceeds ==
    ASSUME QInv, NEW j \in Jobs, NEW a \in Attempts, attempt[a].job = j
    PROVE  /\ NextNumber(j) \in Nat
           /\ attempt[a].number < NextNumber(j)
           /\ NextNumber(j) = attempt[a].number + 1 => Newest(a)
  <1> DEFINE max == CHOOSE n \in Numbers(j) : \A m \in Numbers(j) : m <= n
  <1>1. \E n \in Numbers(j) : \A m \in Numbers(j) : m <= n
    BY DEF QInv, TInv, NumbersHaveMax
  <1>2. max \in Numbers(j) /\ \A m \in Numbers(j) : m <= max
    BY <1>1
  <1>3. Numbers(j) \subseteq Nat
    BY NumbersAreNaturals DEF QInv, TInv
  <1>4. NextNumber(j) = 1 + max
    BY DEF NextNumber
  <1>5. \A b \in Attempts : attempt[b].job = j => attempt[b].number \in Numbers(j)
    BY DEF Numbers, AttemptsOf
  <1> HIDE DEF max
  <1>6. max \in Nat /\ attempt[a].number \in Nat /\ attempt[a].number <= max
    BY <1>2, <1>3, <1>5
  <1>7. ASSUME NextNumber(j) = attempt[a].number + 1 PROVE Newest(a)
    <2>1. attempt[a].number = max
      BY <1>4, <1>6, <1>7
    <2> QED BY <1>2, <1>5, <2>1 DEF Newest
  <1> QED BY <1>4, <1>6, <1>7

LEMMA ClaimBackoff ==
    ASSUME BInv, NEW s \in Supervisors, NEW types \in SUBSET Types, NEW t \in 0..now,
           NEW j \in Jobs, NEW a \in Attempts, Claim(s, types, t, j, a)
    PROVE  /\ Numbering' /\ RetriedIsOver' /\ ScheduleNamesAttempt' /\ RetryPending'
           /\ RetryScheduleSound' /\ BackoffHonoured'
  <1>0. TypeOK /\ TInv /\ QInv
    BY DEF BInv, QInv, TInv
  <1>1. /\ job[j].state = "QUEUED"
        /\ schedule[j] # NoSchedule => schedule[j].notBefore <= t
        /\ attempt[a].job \notin Jobs /\ attempt[a].state \notin Terminal /\ ~failure[a].retry
        /\ failure' = failure
    BY <1>0, NumberTypes DEF Claim, Claimable, BInv, RetriedIsOver, Terminal
  <1>2. /\ \A k \in Jobs : k # j => job'[k] = job[k]
        /\ job'[j].current = a
        /\ \A b \in Attempts : b # a => attempt'[b] = attempt[b]
        /\ attempt'[a].job = j
    <2>1. TInv
      BY <1>0
    <2> QED BY <2>1, ClaimRows
  <1>3. attempt'[a].number = NextNumber(j) /\ attempt'[a].created = t
    BY <1>0 DEF Claim, TypeOK
  <1>4. schedule'[j] = NoSchedule /\ \A k \in Jobs : k # j => schedule'[k] = schedule[k]
    BY <1>0 DEF Claim, TypeOK
  <1>5. \A b \in Attempts : attempt[b].job = j =>
            /\ NextNumber(j) \in Nat /\ attempt[b].number \in Nat
            /\ attempt[b].number < NextNumber(j)
            /\ NextNumber(j) = attempt[b].number + 1 => Newest(b)
    BY <1>0, NextNumberExceeds, NumberTypes
  <1>6. NextNumber(j) \in Nat
    BY <1>0, NextNumberIsMax DEF TInv
  <1>7. ASSUME NEW b \in Attempts, b # a, attempt[b].job \in Jobs, attempt[b].job # j
        PROVE  Newest(b)' <=> Newest(b)
    BY <1>1, <1>2, <1>7 DEF Newest
  <1>8. CurrentIsNewest'
    <2> SUFFICES ASSUME NEW b \in Attempts, attempt'[b].job \in Jobs,
                        job'[attempt'[b].job].current = b
                 PROVE  Newest(b)'
      BY DEF CurrentIsNewest
    <2>1. CASE b = a
      BY <1>2, <1>3, <1>5, <1>6, <2>1 DEF Newest
    <2>2. CASE b # a
      <3>1. attempt'[b] = attempt[b] /\ attempt[b].job # j
        BY <1>2, <2>2
      <3>2. Newest(b)
        BY <1>2, <3>1 DEF BInv, Numbering, CurrentIsNewest
      <3> QED BY <1>7, <2>2, <3>1, <3>2
    <2> QED BY <2>1, <2>2
  <1>9. NumbersDistinct'
    <2> SUFFICES ASSUME NEW b \in Attempts, NEW c \in Attempts, attempt'[b].job \in Jobs,
                        attempt'[b].job = attempt'[c].job, attempt'[b].number = attempt'[c].number,
                        b # c
                 PROVE  FALSE
      BY DEF NumbersDistinct
    <2>1. CASE b # a /\ c # a
      BY <1>2, <2>1 DEF BInv, Numbering, NumbersDistinct
    <2>2. CASE b = a
      BY <1>2, <1>3, <1>5, <2>2
    <2>3. CASE c = a
      BY <1>2, <1>3, <1>5, <2>3
    <2> QED BY <2>1, <2>2, <2>3
  <1>10. RetriedIsOver'
    BY <1>1, <1>2 DEF BInv, RetriedIsOver
  <1>11. ASSUME NEW b \in Attempts, failure'[b].retry
         PROVE  /\ b # a /\ attempt'[b] = attempt[b] /\ failure'[b] = failure[b]
                /\ attempt[b].job \in Jobs
    BY <1>0, <1>1, <1>2, <1>11, NumberTypes DEF BInv, RetriedIsOver, Terminal
  <1>12. RetryPending'
    <2> SUFFICES ASSUME NEW b \in Attempts, failure'[b].retry, Newest(b)'
                 PROVE  \/ job'[attempt'[b].job].state = "CANCELLED"
                        \/ schedule'[attempt'[b].job] =
                               [previous |-> b, notBefore |-> failure'[b].retryAt]
      BY DEF RetryPending
    <2>1. attempt[b].job # j
      <3> SUFFICES ASSUME attempt[b].job = j PROVE FALSE
        OBVIOUS
      <3>1. NextNumber(j) <= attempt[b].number
        BY <1>2, <1>3, <1>11 DEF Newest
      <3> QED BY <1>5, <3>1
    <2>2. Newest(b)
      BY <1>7, <1>11, <2>1
    <2> QED BY <1>2, <1>4, <1>11, <2>1, <2>2 DEF BInv, RetryPending
  <1>13. ScheduleNamesAttempt' /\ RetryScheduleSound'
    <2> SUFFICES ASSUME NEW k \in Jobs, schedule'[k] # NoSchedule, NEW p, p = schedule'[k].previous
                 PROVE  /\ p \in Attempts
                        /\ job'[k].state = "QUEUED"
                        /\ ~job'[k].cancel
                        /\ attempt'[p].job = k
                        /\ \A b \in AttemptsOf(k)' : attempt'[b].number <= attempt'[p].number
                        /\ failure'[p].retry
                        /\ failure'[p].retryAt = schedule'[k].notBefore
      BY DEF RetryScheduleSound, ScheduleNamesAttempt, NoSchedule
    <2>1. k # j /\ schedule'[k] = schedule[k] /\ job'[k] = job[k]
      BY <1>2, <1>4
    <2>2. /\ p \in Attempts /\ attempt[p].job = k /\ Newest(p) /\ job[k].state = "QUEUED"
          /\ ~job[k].cancel /\ failure[p].retry /\ failure[p].retryAt = schedule[k].notBefore
      BY <2>1, ScheduledRow
    <2>3. p # a /\ attempt'[p] = attempt[p]
      BY <1>1, <1>2, <2>2
    <2>4. ASSUME NEW b \in AttemptsOf(k)' PROVE attempt'[b].number <= attempt'[p].number
      <3>1. b # a /\ attempt'[b] = attempt[b] /\ attempt[b].job = k
        BY <1>2, <2>1, <2>4 DEF AttemptsOf
      <3> QED BY <2>2, <2>3, <3>1 DEF Newest, AttemptsOf
    <2> QED BY <1>1, <2>1, <2>2, <2>3, <2>4
  <1>14. BackoffHonoured'
    <2> SUFFICES ASSUME NEW x \in Attempts, NEW y \in Attempts, failure'[x].retry,
                        attempt'[y].job = attempt'[x].job,
                        attempt'[y].number = attempt'[x].number + 1
                 PROVE  attempt'[y].created >= failure'[x].retryAt
      BY DEF BackoffHonoured
    <2>1. x # a /\ attempt'[x] = attempt[x] /\ failure'[x] = failure[x]
      BY <1>11
    <2>2. CASE y = a
      <3>1. attempt[x].job = j /\ NextNumber(j) = attempt[x].number + 1
        BY <1>2, <1>3, <2>1, <2>2
      <3>2. Newest(x)
        BY <1>5, <3>1
      <3>3. schedule[j] = [previous |-> x, notBefore |-> failure[x].retryAt]
        BY <1>1, <2>1, <3>1, <3>2 DEF BInv, RetryPending
      <3>4. schedule[j] # NoSchedule
        BY <3>3, QueueAssumption DEF NoSchedule
      <3>5. failure[x].retryAt <= t
        BY <1>1, <3>3, <3>4
      <3>6. failure[x].retryAt \in Nat /\ t \in Nat
        BY <1>0 DEF TypeOK, FailureRow
      <3> QED BY <1>3, <2>1, <2>2, <3>5, <3>6
    <2>3. CASE y # a
      BY <1>2, <2>1, <2>3 DEF BInv, BackoffHonoured
    <2> QED BY <2>2, <2>3
  <1> QED BY <1>8, <1>9, <1>10, <1>12, <1>13, <1>14 DEF Numbering

LEMMA AttemptBackoff ==
    ASSUME BInv, AttemptNext
    PROVE  /\ Numbering' /\ RetriedIsOver' /\ ScheduleNamesAttempt' /\ RetryPending'
           /\ RetryScheduleSound' /\ BackoffHonoured'
  <1> PICK a \in Attempts : \E expected \in 0..attempt[a].version : AttemptStep(a, expected)
    BY DEF AttemptNext
  <1> PICK expected \in 0..attempt[a].version : AttemptStep(a, expected)
    OBVIOUS
  <1>0. TypeOK
    BY DEF BInv, QInv, TInv
  <1>1. ASSUME NEW s \in Supervisors, NEW t \in 0..now, RegisterProcess(a, expected, s, t)
        PROVE  MoveStep(a, expected, "RUNNING") /\ schedule' = schedule /\ failure' = failure
    BY <1>1 DEF RegisterProcess, MoveStep, Live
  <1>2. ASSUME NEW state \in {"RUNNING"} \cup Terminal, Transition(a, expected, state)
        PROVE  MoveStep(a, expected, state) /\ schedule' = schedule /\ failure' = failure
    BY <1>2 DEF Transition, MoveStep, LegalNext, Live
  <1>3. ASSUME NEW receipt \in Receipts, CompleteVerified(a, expected, receipt)
        PROVE  MoveStep(a, expected, "SUCCEEDED") /\ schedule' = schedule /\ failure' = failure
    BY <1>3 DEF CompleteVerified, MoveStep, LegalNext, Live, Terminal
  <1>4. ASSUME NEW kind \in FailureKinds, FinishForGood(a, expected, kind)
        PROVE  /\ MoveStep(a, expected, UnsuccessfulState(a, kind)) /\ schedule' = schedule
               /\ \A b \in Attempts : b # a => failure'[b] = failure[b]
               /\ ~failure'[a].retry
    <2>1. MoveStep(a, expected, UnsuccessfulState(a, kind)) /\ schedule' = schedule
      BY <1>4 DEF FinishForGood, MoveStep, UnsuccessfulState, Terminal
    <2>2. failure' = [failure EXCEPT ![a] = [kind |-> kind, retry |-> FALSE, retryAt |-> 0]]
      BY <1>4 DEF FinishForGood
    <2>3. failure'[a].retry = FALSE /\ \A b \in Attempts : b # a => failure'[b] = failure[b]
      BY <1>0, <2>2 DEF TypeOK
    <2> QED BY <2>1, <2>3
  <1>5. ASSUME NEW s \in Supervisors,
               \/ \E t \in 0..now : Heartbeat(a, expected, s, t)
               \/ \E n \in 1..MaxSequence : RecordProgress(a, expected, s, n)
        PROVE  job' = job /\ attempt' = attempt /\ schedule' = schedule /\ failure' = failure
    BY <1>5 DEF Heartbeat, RecordProgress
  <1>6. ASSUME job' = job, attempt' = attempt, schedule' = schedule, failure' = failure
        PROVE  /\ Numbering' /\ RetriedIsOver' /\ ScheduleNamesAttempt' /\ RetryPending'
               /\ RetryScheduleSound' /\ BackoffHonoured'
    BY <1>6, ClientBackoff DEF FinalStep
  <1>7. ASSUME NEW state, MoveStep(a, expected, state), schedule' = schedule,
               \A b \in Attempts : b # a => failure'[b] = failure[b],
               failure'[a].retry => failure'[a] = failure[a]
        PROVE  /\ Numbering' /\ RetriedIsOver' /\ ScheduleNamesAttempt' /\ RetryPending'
               /\ RetryScheduleSound' /\ BackoffHonoured'
    BY <1>7, MoveBackoff
  <1>8. ASSUME NEW kind \in FailureKinds, NEW retry, NEW retryAt,
               FinishUnsuccessful(a, expected, kind, retry, retryAt)
        PROVE  \/ FinishForGood(a, expected, kind)
               \/ FinishAndRequeue(a, expected, kind, retryAt)
    BY <1>8 DEF FinishUnsuccessful
  <1> QED BY <1>1, <1>2, <1>3, <1>4, <1>5, <1>6, <1>7, <1>8, RequeueBackoff DEF AttemptStep

LEMMA BackoffStep == ASSUME BInv, [Next]_vars PROVE BInv'
  <1>0. QInv' /\ FinalStep
    BY CoreStep, StepHasShape, FinalStepHolds DEF BInv
  <1>1. CASE ClientNext
    BY <1>0, <1>1, ClientRows, ClientBackoff DEF BInv
  <1>2. CASE ClaimNext
    BY <1>0, <1>2, ClaimBackoff DEF ClaimNext, BInv
  <1>3. CASE AttemptNext
    BY <1>0, <1>3, AttemptBackoff DEF BInv
  <1>4. CASE Tick \/ UNCHANGED vars
    <2>1. job' = job /\ attempt' = attempt /\ schedule' = schedule /\ failure' = failure
      BY <1>4 DEF Tick, vars
    <2> QED BY <1>0, <2>1, ClientBackoff DEF BInv
  <1> QED BY <1>1, <1>2, <1>3, <1>4 DEF Next

LEMMA BackoffInit == Init => BInv
  <1> SUFFICES ASSUME Init PROVE BInv
    OBVIOUS
  <1>1. QInv
    BY CoreInit
  <1>2. Numbering /\ RetriedIsOver /\ RetryPending /\ BackoffHonoured
    BY QueueAssumption DEF Init, Numbering, CurrentIsNewest, NumbersDistinct, RetriedIsOver,
       RetryPending, BackoffHonoured, NoAttempt, NoFailure
  <1>3. ScheduleNamesAttempt /\ RetryScheduleSound
    BY DEF Init, ScheduleNamesAttempt, RetryScheduleSound
  <1> QED BY <1>1, <1>2, <1>3 DEF BInv

LEMMA BackoffInvariant == Spec => []BInv
  BY BackoffInit, BackoffStep, PTL DEF Spec

\* A pending backoff belongs to a queued, uncancelled job and repeats the
\* failure row of the job's last attempt, after any number of retries, cancel
\* requests and late calls.
THEOREM SchedulesAreSound == Spec => []RetryScheduleSound
  <1>1. BInv => RetryScheduleSound
    BY DEF BInv
  <1> QED BY <1>1, BackoffInvariant, PTL

\* No supervisor, with whatever clock reading, starts the attempt after a
\* retried failure before the backoff that failure was given.
THEOREM BackoffsAreHonoured == Spec => []BackoffHonoured
  <1>1. BInv => BackoffHonoured
    BY DEF BInv
  <1> QED BY <1>1, BackoffInvariant, PTL
===============================================================================
