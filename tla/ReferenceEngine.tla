-------------------------- MODULE ReferenceEngine --------------------------
(***************************************************************************)
(* The readable engine (engine/reference.py) with its reducers             *)
(* (engine/state.py) and its scheduler (engine/scheduler.py).  In each     *)
(* boundary every observation that is due is delivered before the strategy *)
(* is asked about the first of them.                                       *)
(***************************************************************************)
EXTENDS ReplayEngine

VARIABLES
    historical, observed, venue,    \* the strategy's pool in the three states
    observations, orders,           \* the two schedulers
    delivered,                      \* what this boundary delivered
    submitted                       \* _submitted of the strategy

referenceVars ==
    <<engineVars, historical, observed, venue, observations, orders, delivered, submitted>>

ReferenceInit ==
    /\ EngineInit
    /\ historical = None /\ observed = None /\ venue = None
    /\ observations = {} /\ orders = {}
    /\ delivered = <<>>
    /\ submitted = FALSE

\* bisect_left over the boundaries' blocks, from a first candidate on.
FirstFrom(candidate, block) ==
    LET due == {b \in Boundaries : b >= candidate /\ replay.blocks[b] >= block}
    IN  IF due = {} THEN None ELSE Min(due)

ObservationRelease(source) ==
    FirstFrom(source, replay.blocks[source] + replay.observationSlots)

OrderRelease(decision) ==
    FirstFrom(decision + 1, replay.blocks[decision] + replay.orderSlots)

\* What a sequence of events leaves of a pool.
Reduce(pool, events) ==
    LET known == {k \in DOMAIN events : HasReserves(events[k])}
    IN  IF known = {} THEN pool ELSE EventOf(events[Max(known)]).reserves

\* Phases 10 and 20, and the group's observations enter the scheduler.
ApplyGroup ==
    LET group == Events(at)
        release == ObservationRelease(at)
        queued == IF release = None THEN {}
                  ELSE {[release |-> release, event |-> group[row]] : row \in DOMAIN group}
        touched == \E row \in DOMAIN group : IsTarget(group[row])
    IN  /\ Running("apply")
        /\ historical' = Reduce(historical, group)
        /\ venue' = IF touched /\ historical' # None THEN historical' ELSE venue
        /\ audit' = audit \o GroupEntries(release)
        /\ observations' = observations \cup queued
        /\ raised' = BudgetError(Cardinality(observations \cup queued) + Cardinality(orders))
        /\ phase' = "deliver"
        /\ UNCHANGED <<at, proposed, accounts, notices, observed, orders, delivered, submitted>>

\* SchedulerKey: release, source boundary, causal id, which grows with the row.
Earlier(o, p) ==
    \/ o.release < p.release
    \/ o.release = p.release /\ o.event[1] < p.event[1]
    \/ o.release = p.release /\ o.event[1] = p.event[1] /\ o.event[2] < p.event[2]

\* pop_ready: the k-th that leaves the heap has k - 1 before it.
Popped(ready) ==
    [k \in 1 .. Cardinality(ready) |->
        CHOOSE o \in ready : Cardinality({p \in ready : Earlier(p, o)}) = k - 1]

\* Phase 30: what is ready is delivered, and all of it is observed.
Deliver ==
    LET ready == {o \in observations : o.release <= at}
        events == [k \in 1 .. Cardinality(ready) |-> Popped(ready)[k].event]
    IN  /\ Running("deliver")
        /\ observations' = observations \ ready
        /\ observed' = Reduce(observed, events)
        /\ delivered' = events
        /\ audit' = audit \o DeliveryEntries(events)
        /\ phase' = "decide"
        /\ UNCHANGED <<at, proposed, accounts, notices, raised, historical, venue, orders,
                       submitted>>

\* Phase 40: on_event for each of them.
Decide ==
    LET asked == {k \in DOMAIN delivered : IsTarget(delivered[k])}
        intent == ~submitted /\ asked # {} /\ observed # None
    IN  /\ Running("decide")
        /\ proposed' = IF intent THEN delivered[Min(asked)] ELSE None
        /\ submitted' = (submitted \/ intent)
        /\ audit' = IF intent THEN Append(audit, Entry("INTENT_PROPOSED", proposed', None))
                    ELSE audit
        /\ delivered' = <<>>
        /\ phase' = "accept"
        /\ UNCHANGED <<at, accounts, notices, raised, historical, observed, venue,
                       observations, orders>>

\* Phase 50.
AcceptNothing ==
    /\ proposed = None
    /\ UNCHANGED <<audit, notices, accounts, orders>>

AcceptProposed ==
    LET release == OrderRelease(at)
    IN  /\ proposed # None
        /\ \/ /\ Refusal(release) # None
              /\ RejectOrder(Refusal(release))
              /\ UNCHANGED orders
           \/ /\ Refusal(release) = None
              /\ ReserveOrder(release)
              /\ orders' = orders \cup {[release |-> release, creator |-> at, order |-> proposed]}

Accept ==
    /\ Running("accept")
    /\ AcceptNothing \/ AcceptProposed
    /\ raised' = BudgetError(Cardinality(observations) + Cardinality(orders'))
    /\ phase' = "execute"
    /\ UNCHANGED <<at, proposed, historical, observed, venue, observations, delivered, submitted>>

\* Phase 60: an order meets the venue as the last group left it; what it
\* changes there lasts, in shadow mode, until the next reconciliation.
ReadyOrders == {o \in orders : o.release <= at}

Execute ==
    /\ Running("execute")
    /\ \E o \in ReadyOrders :
        /\ ExecuteOrder(o.order, venue)
        /\ venue' = IF Rejection(venue) = None /\ replay.mode = "SHADOW_STATE_REPLAY"
                    THEN AfterSwap(venue) ELSE venue
        /\ orders' = orders \ {o}
    /\ UNCHANGED <<at, phase, proposed, raised, historical, observed, observations, delivered,
                   submitted>>

\* Phases 70 and 80.
Checkpoint ==
    /\ Running("execute")
    /\ ReadyOrders = {}
    /\ EndBoundary
    /\ UNCHANGED <<historical, observed, venue, observations, orders, delivered, submitted>>

Finish ==
    /\ Running("finish")
    /\ raised' = IF observations = {} /\ orders = {} THEN None ELSE "LEFTOVER"
    /\ phase' = "done"
    /\ UNCHANGED <<at, proposed, accounts, audit, notices, historical, observed, venue,
                   observations, orders, delivered, submitted>>

ReferenceNext ==
    ApplyGroup \/ Deliver \/ Decide \/ Accept \/ Execute \/ Checkpoint \/ Finish

ReferenceSpec == ReferenceInit /\ [][ReferenceNext]_referenceVars
=============================================================================
