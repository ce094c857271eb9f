------------------------------- MODULE MCCatalog ------------------------------
(* The instance of Catalog for TLC. *)
EXTENDS Catalog, TLC

\* Two snapshots (1, 2) at paths of their own and two contents (3, 4) of one run
\* attempt at its path, the first of them derived from the first snapshot.
FourArtifacts == {1, 2, 3, 4}
SnapshotsAndRuns == [a \in FourArtifacts |-> IF a = 3 THEN {1} ELSE {}]
RunPath ==
    [a \in FourArtifacts |->
        IF a = 1 THEN "first" ELSE IF a = 2 THEN "second" ELSE "run"]

\* The build key of a run is its attempt's id; the snapshots collide, being
\* different contents of one build.
TwoKeys == {"snapshot", "attempt"}
KeysCollide ==
    [a \in FourArtifacts |-> IF a \in {1, 2} THEN "snapshot" ELSE "attempt"]

\* The controller is not interchangeable with the processes that publish.
ChildSymmetry == Permutations(Procs \ {Controller})

\* Behaviours with the second snapshot are explored without the runs, and those in
\* which the clock moves without a second content of either kind, and with a run only
\* while there was no fault.
Seen(a) ==
    \/ tree[PathOf[a]].content = a
    \/ rows[a] # "absent"
    \/ \E p \in Procs : draft[p] = a

CollisionOrRuns ==
    /\ ~ (Seen(2) /\ (Seen(3) \/ Seen(4)))
    /\ now > 0 => ~ (Seen(2) \/ Seen(4)) /\ (Seen(3) => faults = 0)
===============================================================================
