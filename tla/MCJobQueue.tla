------------------------------ MODULE MCJobQueue ------------------------------
(* Instances of JobQueue for TLC. *)
EXTENDS JobQueue, TLC

\* Specs are named by their job type and a payload.
MCSpecs == {"run1", "run2", "build1"}
MCTypes == {"RUN_BACKTEST", "PREPARE_DATASET"}
MCTypeOf == [s \in MCSpecs |-> IF s = "build1" THEN "PREPARE_DATASET" ELSE "RUN_BACKTEST"]

OneSpec == {"run1"}
OneType == {"RUN_BACKTEST"}
OneTypeOf == [s \in OneSpec |-> "RUN_BACKTEST"]

MCFailureKinds == {"ORPHANED", "TRANSIENT"}

Symmetry == Permutations(Jobs) \cup Permutations(Attempts)
                \cup Permutations(Keys) \cup Permutations(Supervisors)
===============================================================================
