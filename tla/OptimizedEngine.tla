-------------------------- MODULE OptimizedEngine --------------------------
(***************************************************************************)
(* The engine over the columns of a ReplayPack                             *)
(* (adapters/columnar/numpy/optimized_engine.py).  It keeps no queue: one  *)
(* pointer walks the boundaries whose rows are due, pools are indexes of   *)
(* the last payload that gave reserves, and there is one pending order.    *)
(* The strategy is asked about each row as the row is delivered.           *)
(***************************************************************************)
EXTENDS ReplayEngine, SequencesExt

VARIABLES
    nextSource,         \* next_delivery_source
    pending,            \* pending_observations, a count
    pendingOrder,       \* [release, order], or None
    historicalPayload, venuePayload,    \* events, or None
    observedExists,     \* observed_pool_exists
    submitted

optimizedVars ==
    <<engineVars, nextSource, pending, pendingOrder, historicalPayload, venuePayload,
      observedExists, submitted>>

OptimizedInit ==
    /\ EngineInit
    /\ nextSource = 1
    /\ pending = 0
    /\ pendingOrder = None
    /\ historicalPayload = None /\ venuePayload = None
    /\ observedExists = FALSE
    /\ submitted = FALSE

\* Variant: searchsorted(side="right").
RightSearchSorted(block) == Cardinality({b \in Boundaries : replay.blocks[b] <= block}) + 1

\* searchsorted(side="left"): how many blocks are smaller.
SearchSorted(block) == Cardinality({b \in Boundaries : replay.blocks[b] < block}) + 1

Within(index) == IF index \in Boundaries THEN index ELSE None

ObservationReleaseIndex(source) ==
    IF replay.observationSlots = 0 THEN source
    ELSE Within(Max({source, SearchSorted(replay.blocks[source] + replay.observationSlots)}))

OrderReleaseIndex(decision) ==
    IF replay.orderSlots = 0 THEN Within(decision + 1)
    ELSE Within(Max({decision + 1, SearchSorted(replay.blocks[decision] + replay.orderSlots)}))

HasOrder == IF pendingOrder = None THEN 0 ELSE 1

\* The scan of the group's rows, and its records.
ScanGroup ==
    LET group == Events(at)
        touched == {row \in DOMAIN group : IsTarget(group[row])}
        valid == {row \in touched : HasReserves(group[row])}
        release == ObservationReleaseIndex(at)
    IN  /\ Running("apply")
        /\ historicalPayload' = IF valid = {} THEN historicalPayload ELSE group[Max(valid)]
        /\ venuePayload' = IF touched # {} /\ historicalPayload' # None
                           THEN historicalPayload' ELSE venuePayload
        /\ audit' = audit \o GroupEntries(release)
        /\ pending' = IF release = None THEN pending ELSE pending + Len(group)
        /\ raised' = BudgetError(pending' + HasOrder)
        /\ phase' = "deliver"
        /\ UNCHANGED <<at, proposed, accounts, notices, nextSource, pendingOrder,
                       observedExists, submitted>>

\* The boundaries whose rows are due, from the pointer on.
DueSources ==
    {s \in nextSource .. at : \A t \in nextSource .. s : ObservationReleaseIndex(t) = at}

DueRows == FlattenSeq([k \in 1 .. Cardinality(DueSources) |-> Events(nextSource + k - 1)])

\* Row after row: delivered, observed, and handed to the strategy if the pool
\* is known by then.
DeliverRows ==
    LET rows == DueRows
        Known(k) == observedExists \/ \E j \in 1 .. k : HasReserves(rows[j])
        asked == IF submitted THEN {}
                 ELSE {k \in DOMAIN rows : IsTarget(rows[k]) /\ Known(k)}
        entries == DeliveryEntries(rows)
    IN  /\ Running("deliver")
        /\ nextSource' = nextSource + Cardinality(DueSources)
        /\ pending' = pending - Len(rows)
        /\ IF asked = {}
           THEN /\ audit' = audit \o entries
                /\ UNCHANGED <<proposed, submitted>>
           ELSE /\ proposed' = rows[Min(asked)]
                /\ submitted' = TRUE
                /\ audit' = audit \o SubSeq(entries, 1, Min(asked))
                                  \o <<Entry("INTENT_PROPOSED", proposed', None)>>
                                  \o SubSeq(entries, Min(asked) + 1, Len(rows))
        /\ observedExists' = (observedExists \/ (~submitted /\ Known(Len(rows))))
        /\ phase' = "accept"
        /\ UNCHANGED <<at, accounts, notices, raised, pendingOrder, historicalPayload,
                       venuePayload>>

AcceptNothing ==
    /\ proposed = None
    /\ UNCHANGED <<audit, notices, accounts, pendingOrder>>

AcceptProposed ==
    LET release == OrderReleaseIndex(at)
    IN  /\ proposed # None
        /\ \/ /\ Refusal(release) # None
              /\ RejectOrder(Refusal(release))
              /\ UNCHANGED pendingOrder
           \/ /\ Refusal(release) = None
              /\ ReserveOrder(release)
              /\ pendingOrder' = [release |-> release, order |-> proposed]

Accept ==
    /\ Running("accept")
    /\ AcceptNothing \/ AcceptProposed
    /\ raised' = BudgetError(pending + IF pendingOrder' = None THEN 0 ELSE 1)
    /\ phase' = "execute"
    /\ UNCHANGED <<at, proposed, nextSource, pending, historicalPayload, venuePayload,
                   observedExists, submitted>>

\* _venue_state: the pool as its payload has it.
VenuePool == IF venuePayload = None THEN None ELSE EventOf(venuePayload).reserves

OrderIsDue == pendingOrder # None /\ pendingOrder.release = at

Execute ==
    /\ Running("execute")
    /\ OrderIsDue
    /\ ExecuteOrder(pendingOrder.order, VenuePool)
    /\ pendingOrder' = None
    /\ UNCHANGED <<at, phase, proposed, raised, nextSource, pending, historicalPayload,
                   venuePayload, observedExists, submitted>>

Checkpoint ==
    /\ Running("execute")
    /\ ~OrderIsDue
    /\ EndBoundary
    /\ UNCHANGED <<nextSource, pending, pendingOrder, historicalPayload, venuePayload,
                   observedExists, submitted>>

Finish ==
    /\ Running("finish")
    /\ raised' = IF pending = 0 /\ pendingOrder = None THEN None ELSE "LEFTOVER"
    /\ phase' = "done"
    /\ UNCHANGED <<at, proposed, accounts, audit, notices, nextSource, pending, pendingOrder,
                   historicalPayload, venuePayload, observedExists, submitted>>

OptimizedNext == ScanGroup \/ DeliverRows \/ Accept \/ Execute \/ Checkpoint \/ Finish

OptimizedSpec == OptimizedInit /\ [][OptimizedNext]_optimizedVars
=============================================================================
