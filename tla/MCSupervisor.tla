----------------------------- MODULE MCSupervisor -----------------------------
(* Instances of Supervisor for TLC. *)
EXTENDS Supervisor, TLC

OneSpec == {"run"}
OneType == {"RUN_BACKTEST"}
OneTypeOf == [s \in OneSpec |-> "RUN_BACKTEST"]
OneLane == [t \in OneType |-> "RUN"]

BuildSpec == {"build"}
BuildType == {"PREPARE_DATASET"}
BuildTypeOf == [s \in BuildSpec |-> "PREPARE_DATASET"]
BuildLane == [t \in BuildType |-> "BUILD"]

OneEach == [lane \in Lanes |-> 1]
OneBuildTwoRuns == [lane \in Lanes |-> IF lane = "BUILD" THEN 1 ELSE 2]

AllKinds == {"TRANSIENT", "ORPHANED", "TIMEOUT", "RESOURCE_EXHAUSTED",
             "COMPLETION_INVALID", "USER_ERROR"}

\* bootstrap/supervisor.py: max_attempts = 2 with these two kinds.
ProductionRetryable == {"TRANSIENT", "ORPHANED"}

Anywhere == Steps
AtRest == {"idle", "register"}
OutsideRegistration == Steps \ {"register"}

\* What cancellation promises is promised of each job by itself.
OneWithdrawn == Cardinality({j \in Jobs : job[j].cancel}) <= 1

\* An idempotency key is only ever compared with another.
Symmetry == Permutations(Jobs) \cup Permutations(Keys)
===============================================================================
