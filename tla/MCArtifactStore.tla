--------------------------- MODULE MCArtifactStore ---------------------------
(* Instances of ArtifactStore for TLC. *)
EXTENDS ArtifactStore, TLC

\* A snapshot (1) at a path of its own and two contents (2, 3) for one run path,
\* the first derived from the snapshot.
ThreeArtifacts == {1, 2, 3}
SnapshotAndRuns == [a \in ThreeArtifacts |-> IF a = 2 THEN {1} ELSE {}]
RunPath == [a \in ThreeArtifacts |-> IF a = 1 THEN "snapshot" ELSE "run"]

Symmetry == Permutations(Procs)
===============================================================================
