----------------------------- MODULE MCTrading -----------------------------
(***************************************************************************)
(* The instance of Trading for TLC.                                        *)
(***************************************************************************)
EXTENDS Trading, TLC

Symmetry == Permutations(Trips) \cup Permutations(Mints) \cup Permutations(Developers)

\* Blocks with their transactions and times: an empty block inside a holding
\* time, one behind it, blocks of equal time and a gap.
Clock(counts, times, prefix) ==
    [blocks |-> Len(counts), count |-> counts, time |-> times, prefix |-> prefix]

LongClock == Clock(<<2, 0, 3, 1, 0, 2, 1, 0, 2, 2>>, <<0, 0, 1, 1, 2, 2, 4, 4, 5, 7>>,
                   <<0, 2, 2, 5, 6, 6, 8, 9, 9, 11, 13>>)
ShortClock == Clock(<<1, 2, 0, 1, 2>>, <<0, 1, 2, 3, 3>>, <<0, 1, 3, 3, 4, 6>>)

ASSUME ClocksAreValid == IsClock(LongClock) /\ IsClock(ShortClock)

\* What a run starts with: enough for one trip, or for two in flight and three in
\* turn, which costs less if the wallet's account is there already; fees in the paid
\* asset or in another.
Paying(n) == [initial |-> [a \in {Quote} |-> n], feeAsset |-> Quote]
FeesApart == [initial |-> (Quote :> 4 @@ Native :> 13), feeAsset |-> Native]

\* Sniping has a mint for each launch; several signals may be about one mint.
MCRuns ==
    {r \in [engine : {"sniping", "copy"}, clock : {LongClock, ShortClock}, range : {1 .. 3},
             launch : [Trips -> {0, 1, 3, 4}], mint : [Trips -> Mints],
             developer : [Trips -> Developers], prewarmed : BOOLEAN,
             wallet : {Paying(8), Paying(11), Paying(17), FeesApart}] :
        /\ r.wallet \in IF r.prewarmed THEN {Paying(8), Paying(11)}
                       ELSE {Paying(8), Paying(17), FeesApart}
        /\ IF r.engine = "sniping"
           THEN \A t, u \in Trips : r.mint[t] = r.mint[u] => t = u
           ELSE \A t, u \in Trips : r.developer[t] = r.developer[u]}
=============================================================================
