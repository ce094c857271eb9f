---------------------------- MODULE EngineParity ----------------------------
(***************************************************************************)
(* The reference engine and the optimized one run on the same inputs, as   *)
(* the parity tests run them.  The two runs share nothing but the inputs,  *)
(* so no order of their steps changes how either ends: here they run       *)
(* abreast, an engine waiting for the other at the phases both have.       *)
(***************************************************************************)
EXTENDS Integers, Sequences

CONSTANTS AmountIn, MinimumOut, FeeBps, MaximumInput, None,
          Replays       \* the inputs of a run

ASSUME ReplayAmounts ==
    /\ AmountIn \in Nat \ {0} /\ MinimumOut \in Nat /\ MaximumInput \in Nat \ {0}
    /\ FeeBps \in 0 .. 9999

\* Blocks ascend, each boundary has its group, and nothing else is None.
EventRow == [target : BOOLEAN, reserves : {None} \cup (Nat \X Nat)]
ASSUME ReplaysAreValid ==
    \A r \in Replays :
        /\ r.blocks \in Seq(Nat) /\ r.blocks # <<>>
        /\ \A b, c \in DOMAIN r.blocks : b <= c => r.blocks[b] <= r.blocks[c]
        /\ DOMAIN r.groups = DOMAIN r.blocks
        /\ \A b \in DOMAIN r.blocks : r.groups[b] \in Seq(EventRow)
        /\ r.observationSlots \in Nat /\ r.orderSlots \in Nat
ASSUME NoneIsApart ==
    None \notin
        Nat \cup {"HORIZON_EXHAUSTED"} \cup (Nat \X Nat) \cup [release : Nat, order : Nat \X Nat]

VARIABLES
    replay,
    refAt, refPhase, refProposed, refPortfolio, refAudit, refLedger, refFills, refNotices,
    refRaised, historical, observed, venue, observations, orders, delivered, refSubmitted,
    optAt, optPhase, optProposed, optPortfolio, optAudit, optLedger, optFills, optNotices,
    optRaised, nextSource, pending, pendingOrder, historicalPayload, venuePayload,
    observedExists, optSubmitted

Reference == INSTANCE ReferenceEngine WITH
    at <- refAt, phase <- refPhase, proposed <- refProposed, portfolio <- refPortfolio,
    audit <- refAudit, ledger <- refLedger, fills <- refFills, notices <- refNotices,
    raised <- refRaised, submitted <- refSubmitted

Optimized == INSTANCE OptimizedEngine WITH
    at <- optAt, phase <- optPhase, proposed <- optProposed, portfolio <- optPortfolio,
    audit <- optAudit, ledger <- optLedger, fills <- optFills, notices <- optNotices,
    raised <- optRaised, submitted <- optSubmitted

refVars ==
    <<refAt, refPhase, refProposed, refPortfolio, refAudit, refLedger, refFills, refNotices,
      refRaised, historical, observed, venue, observations, orders, delivered, refSubmitted>>

optVars ==
    <<optAt, optPhase, optProposed, optPortfolio, optAudit, optLedger, optFills, optNotices,
      optRaised, nextSource, pending, pendingOrder, historicalPayload, venuePayload,
      observedExists, optSubmitted>>

Over(phase, raised) == phase = "done" \/ raised # None

BothOver == Over(refPhase, refRaised) /\ Over(optPhase, optRaised)

ParityInit == replay \in Replays /\ Reference!ReferenceInit /\ Optimized!OptimizedInit

\* Where an engine is in its boundary: what the optimized one delivers row by
\* row it has decided upon as well, and either executes before it checkpoints.
RefStage ==
    IF refPhase = "execute" /\ Reference!ReadyOrders = {} THEN "checkpoint" ELSE refPhase
OptStage ==
    IF optPhase = "deliver" THEN "decide"
    ELSE IF optPhase = "execute" /\ ~Optimized!OrderIsDue THEN "checkpoint" ELSE optPhase
Turn == [apply |-> 1, deliver |-> 2, decide |-> 3, accept |-> 4, execute |-> 5,
         checkpoint |-> 6, finish |-> 7, done |-> 8]

RefMoves ==
    /\ ~Over(refPhase, refRaised)
    /\ \/ Over(optPhase, optRaised)
       \/ refAt < optAt
       \/ refAt = optAt /\ Turn[RefStage] <= Turn[OptStage]
OptMoves ==
    /\ ~Over(optPhase, optRaised)
    /\ \/ Over(refPhase, refRaised)
       \/ optAt < refAt
       \/ optAt = refAt /\ Turn[OptStage] <= Turn[RefStage]

ParityNext ==
    /\ ~BothOver
    /\ UNCHANGED replay
    /\ IF RefMoves THEN Reference!ReferenceNext ELSE UNCHANGED refVars
    /\ IF OptMoves THEN Optimized!OptimizedNext ELSE UNCHANGED optVars

ParitySpec == ParityInit /\ [][ParityNext]_<<replay, refVars, optVars>>

-----------------------------------------------------------------------------
(* Correctness.                                                            *)

\* What README.md and engine/reference.py promise of every optimized backend:
\* the canonical streams of both engines are the same.
CanonicalParity ==
    BothOver => /\ optRaised = refRaised
                /\ optAudit = refAudit
                /\ optLedger = refLedger
                /\ optFills = refFills

\* Records without the name of the order they are about: what remains is
\* when each was made, what it decided and with which amounts.
OrderRecords ==
    {"INTENT_PROPOSED", "ORDER_REJECTED", "ORDER_ACCEPTED_AND_RESERVED", "ORDER_FILLED_ATOMICALLY",
     "ORDER_EXECUTION_FAILED_AND_RELEASED", "STRATEGY_NOTIFIED",
     "RESERVATION", "RELEASE", "SETTLEMENT", "FILL"}

Anonymous(stream) ==
    [k \in DOMAIN stream |->
        IF stream[k].type \in OrderRecords THEN [stream[k] EXCEPT !.item = None] ELSE stream[k]]

\* The records of the two phases that the engines interleave differently
\* (SelectSeq, as a function that proofs can unfold).
Kind(record) == IF record.type = "OBSERVATION_DELIVERED" THEN "delivery" ELSE "other"
Part(stream, kind) ==
    LET part[k \in 0 .. Len(stream)] ==
            IF k = 0 THEN <<>>
            ELSE IF Kind(stream[k]) = kind THEN Append(part[k - 1], stream[k])
                 ELSE part[k - 1]
    IN  part[Len(stream)]
Deliveries(stream) == Part(stream, "delivery")
Others(stream) == Part(stream, "other")

\* Whatever the data, the delays, the funds and the budget, both engines
\* deliver the same events at the same boundaries, decide at the same
\* boundary, meet the same pool there, and reserve, fill, reject, release and
\* end with the same amounts, or fail alike.
OutcomeParity ==
    BothOver => /\ optRaised = refRaised
                /\ optPortfolio = refPortfolio
                /\ Deliveries(optAudit) = Deliveries(refAudit)
                /\ Anonymous(Others(optAudit)) = Anonymous(Others(refAudit))
                /\ Anonymous(optLedger) = Anonymous(refLedger)
                /\ Anonymous(optFills) = Anonymous(refFills)
=============================================================================
