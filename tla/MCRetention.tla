----------------------------- MODULE MCRetention -----------------------------
(* Instances of Retention and Backup for TLC. *)
EXTENDS Backup

\* A snapshot (1) and what is derived from it (2), each at its own path.
TwoArtifacts == {1, 2}
TwoChain == [a \in TwoArtifacts |-> IF a = 2 THEN {1} ELSE {}]
TwoPaths == [a \in TwoArtifacts |-> a]
TwoSmall == [a \in TwoArtifacts |-> 1]

OutputOnly == {2}
PinOutput == {OutputOnly}

\* Two sweeps, or a backup and a sweep; batches are interchangeable and used in order.
BackupOrSweep ==
    /\ \/ \A g \in Generations : generations[g].state = "absent"
       \/ Cardinality({b \in Batches : batches[b].state # "absent"}) <= 1
    /\ \A b \in Batches : batches[b].state # "absent" =>
            \A c \in 1..(b - 1) : batches[c].state # "absent"
===============================================================================
