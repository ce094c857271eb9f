---------------------------- MODULE CopyTrading ----------------------------
(***************************************************************************)
(* The copy-trading engine (engine/copytrading.py, copytrading_state.py,   *)
(* copytrading_execution.py).  A wallet's buy, observed with a delay, is   *)
(* copied once for each mint.  The position is sold when its price or its  *)
(* holding time asks for it, and a sell that is refused or fails is tried  *)
(* again after a delay, a bounded number of times.                         *)
(*                                                                         *)
(* In each boundary the phase-40 callbacks (a delivered group, due         *)
(* actions) run in the order of their creation and only ask for orders;    *)
(* then the orders are submitted, and last the due orders land.            *)
(***************************************************************************)
EXTENDS Settlement

CONSTANTS
    ObservationDelay,       \* in transactions, may be 0
    RetryDelay,             \* SELL_RETRY_DELAY_NS
    MaximumSellAttempts     \* MAXIMUM_SELL_ATTEMPTS

ASSUME CopyPolicy ==
    ObservationDelay \in Nat /\ RetryDelay \in Nat /\ MaximumSellAttempts \in Nat \ {0}

VARIABLES
    control,    \* CopyPositionControl, apart from its status
    callbacks,  \* this boundary's, not yet run
    requests    \* this boundary's orders: a dict, in the order of insertion

copyVars == <<sharedVars, control, callbacks, requests>>

NewControl ==
    [exit |-> FALSE, attempts |-> 0, deadline |-> OffClock, retry |-> OffClock]

CopyInit ==
    /\ SharedInit
    /\ status = [t \in Trips |-> "UNSEEN"]
    /\ control = [t \in Trips |-> NewControl]
    /\ callbacks = {}
    /\ requests = <<>>

CopyAbort(code) == Raise(code) /\ UNCHANGED <<control, callbacks, requests>>

CopyEnter(s) == Enter(s) /\ UNCHANGED <<control, callbacks, requests>>

-----------------------------------------------------------------------------
(* maximum_copy_settlement_position: the timeout path with every attempt   *)
(* failing at its landing, proved to fit before the run and again before   *)
(* the buy.                                                                *)

\* Where the buy of a signal lands.
BoughtAt(t) ==
    LET decision == IF ObservationDelay = 0 THEN run.launch[t]
                    ELSE TransactionAfter(run.clock, run.launch[t], ObservationDelay)
    IN  TransactionAfter(run.clock, decision, BuyDelay)

\* Where a sell lands that is decided as long as it may be after a landing.
SoldAfter(landed, wait) ==
    TransactionAfter(run.clock, HoldingDeadline(run.clock, landed, wait), SellDelay)

\* Variant: only the first attempt is proved to fit.
HopefulMaximumSettlement(t) == SoldAfter(BoughtAt(t), HoldTime)

MaximumSettlement(t) ==
    LET landing[n \in 1 .. MaximumSellAttempts] ==
            IF n = 1 THEN SoldAfter(BoughtAt(t), HoldTime)
            ELSE SoldAfter(landing[n - 1], RetryDelay)
    IN  landing[MaximumSellAttempts]

CopyPreflight ==
    /\ Reached("preflight")
    /\ CopyEnter(IF \E t \in Trips : InRange(t) /\ MaximumSettlement(t) = OffClock
                 THEN "refused" ELSE "select")

-----------------------------------------------------------------------------
(* The loop over boundaries.                                               *)

\* _deliveries: constant latency; what would arrive off the clock is dropped.
DeliveryOf(t) ==
    LET release == run.launch[t] + ObservationDelay
    IN  IF release < TransactionCount(run.clock) THEN {release} ELSE {}

SignalsAt(boundary) == {t \in Trips : status[t] = "UNSEEN" /\ boundary \in DeliveryOf(t)}

DueBoundaries ==
    (UNION {DeliveryOf(t) : t \in {u \in Trips : status[u] = "UNSEEN"}})
        \cup {a.release : a \in scheduled}

\* The positions a delivered group can move: by_venue holds one for each mint.
Watched == {t \in live : status[t] \in {"OPEN", "RETRY_WAIT"}}

\* A delivered group touches the mints of its signals and any others.
TouchedAt(boundary) ==
    IF boundary < ObservationDelay THEN {{}}
    ELSE {touched \in SUBSET Watched :
            \A s \in SignalsAt(boundary), t \in Watched :
                run.mint[t] = run.mint[s] => t \in touched}

\* Within one group, exits of holdings are evaluated before its signals.
Callbacks(boundary, touched, due) ==
    [creator : {boundary - ObservationDelay}, rank : {1}, kind : {"EXIT"}, trip : touched]
        \cup [creator : {boundary - ObservationDelay}, rank : {2}, kind : {"SIGNAL"},
              trip : SignalsAt(boundary)]
        \cup {[creator |-> a.creator, rank |-> 1, kind |-> "EXIT", trip |-> a.trip] : a \in due}

Visit(boundary, touched) ==
    LET due == {a \in scheduled : a.release = boundary /\ a.phase = Decision}
    IN  /\ now' = boundary
        /\ stage' = "callbacks"
        /\ callbacks' = Callbacks(boundary, touched, due)
        /\ scheduled' = scheduled \ due
        /\ UNCHANGED <<run, books, trip, status, live, raised, control, requests>>

VisitDueBoundary ==
    /\ Reached("select")
    /\ DueBoundaries # {}
    /\ \E touched \in TouchedAt(Min(DueBoundaries)) : Visit(Min(DueBoundaries), touched)

\* A boundary at which nothing but a market event is delivered.
VisitMarketBoundary ==
    /\ Reached("select")
    /\ DueBoundaries # {}
    /\ \E boundary \in now + 1 .. Min(DueBoundaries) - 1 :
        \E touched \in TouchedAt(boundary) \ {{}} : Visit(boundary, touched)

FinishCopyRun ==
    /\ Reached("select")
    /\ DueBoundaries = {}
    /\ IF live = {} THEN CopyEnter("done") ELSE CopyAbort("UNFINISHED")

-----------------------------------------------------------------------------
(* Callbacks.                                                              *)

NextCallbacks ==
    {c \in callbacks : \A d \in callbacks :
        \/ c.creator < d.creator
        \/ c.creator = d.creator /\ c.rank <= d.rank}

Requested(t) == \E i \in DOMAIN requests : requests[i].trip = t

\* requests.setdefault: one order a boundary for each position.
Request(t, buy) ==
    requests' = IF Requested(t) THEN requests ELSE Append(requests, [trip |-> t, buy |-> buy])

\* evaluate_exit latches the first reason; begin_sell follows in this boundary.
ExitOpen(t) ==
    \/ /\ ~control[t].exit
       /\ now < control[t].deadline
       /\ UNCHANGED <<control, requests>>
    \/ /\ control' = [control EXCEPT ![t].exit = TRUE]
       /\ Request(t, FALSE)

ExitRetry(t) ==
    /\ IF now < control[t].retry THEN UNCHANGED requests ELSE Request(t, FALSE)
    /\ UNCHANGED control

\* An action that outlived its purpose finds the position in another status.
ExitStale ==
    UNCHANGED <<control, requests>>

Exit(t) ==
    /\ \/ status[t] = "OPEN" /\ ExitOpen(t)
       \/ status[t] = "RETRY_WAIT" /\ ExitRetry(t)
       \/ status[t] \notin {"OPEN", "RETRY_WAIT"} /\ ExitStale
    /\ UNCHANGED <<status, live>>

\* decide consumes the mint for good, before any check of the execution.
Consumed(mint) ==
    \E t \in Trips : run.mint[t] = mint /\ status[t] \notin {"UNSEEN", "IGNORED"}

Signal(t) ==
    /\ IF InRange(t) /\ ~Consumed(run.mint[t])
       THEN Await(t, "BUY_PENDING") /\ Request(t, TRUE)
       ELSE Conclude(t, "IGNORED") /\ UNCHANGED requests
    /\ UNCHANGED control

RunCallback ==
    /\ Reached("callbacks")
    /\ \E c \in NextCallbacks :
        /\ callbacks' = callbacks \ {c}
        /\ \/ c.kind = "EXIT" /\ Exit(c.trip)
           \/ c.kind = "SIGNAL" /\ Signal(c.trip)
    /\ UNCHANGED <<run, books, trip, scheduled, now, stage, raised>>

EndCallbacks ==
    /\ Reached("callbacks")
    /\ callbacks = {}
    /\ CopyEnter("requests")

-----------------------------------------------------------------------------
(* begin_buy and begin_sell: the order is submitted, or refused at once.   *)

\* The request in hand has been served.
Served ==
    /\ requests' = Tail(requests)
    /\ UNCHANGED <<run, now, stage, raised, callbacks>>

BeginBuyError(t) ==
    IF MaximumSettlement(t) = OffClock THEN "TAIL"
    ELSE IF run.launch[t] + ObservationDelay # now THEN "DECISION"
    ELSE IF openMints[run.mint[t]] # None THEN "PROVISIONING" ELSE None

\* Without funds, or when the quote is refused, the entry is lost for good.
BuyRefused(t) ==
    /\ Conclude(t, "BUY_FAILED")
    /\ UNCHANGED <<books, trip, scheduled, control>>

BuySubmitted(t, fee) ==
    /\ HasAvailable(BuyReservation(fee, UvaReservation))
    /\ SubmitBuy(t, fee)
    /\ scheduled' = scheduled \cup
            {Action(TransactionAfter(run.clock, now, BuyDelay), Landing, t, "BUY_LANDING")}
    /\ UNCHANGED <<status, live, control>>

BeginBuy(t) ==
    IF BeginBuyError(t) # None THEN CopyAbort(BeginBuyError(t))
    ELSE /\ BuyRefused(t) \/ \E fee \in Fees : BuySubmitted(t, fee)
         /\ Served

BeginSellError(t) ==
    IF status[t] \notin {"OPEN", "RETRY_WAIT"} \/ ~control[t].exit THEN "STATE"
    ELSE IF control[t].attempts >= MaximumSellAttempts THEN "ATTEMPTS"
    ELSE DueError(TransactionAfter(run.clock, now, SellDelay))

\* fail_sell: the last attempt ends the position, any other is followed by
\* a retry on a later block.
LastAttempt(attempts) == attempts = MaximumSellAttempts

Retry == HoldingDeadline(run.clock, now, RetryDelay)

FailSellError(attempts) == IF LastAttempt(attempts) THEN None ELSE DueError(Retry)

\* Variant: no action is scheduled for the retry.
ForgettingSellAgain(t, attempts, rest) ==
    /\ IF LastAttempt(attempts) THEN Conclude(t, "EXHAUSTED") ELSE Await(t, "RETRY_WAIT")
    /\ control' = [control EXCEPT ![t].attempts = attempts,
                        ![t].retry = IF LastAttempt(attempts) THEN OffClock ELSE Retry]
    /\ scheduled' = rest

SellAgain(t, attempts, rest) ==
    IF LastAttempt(attempts)
    THEN /\ Conclude(t, "EXHAUSTED")
         /\ control' = [control EXCEPT ![t].attempts = attempts, ![t].retry = OffClock]
         /\ scheduled' = rest
    ELSE /\ Await(t, "RETRY_WAIT")
         /\ control' = [control EXCEPT ![t].attempts = attempts, ![t].retry = Retry]
         /\ scheduled' = rest \cup {Action(Retry, Decision, t, "RETRY")}

\* A refusal counts as an attempt, and is retried from the decision.
SellRefused(t) ==
    LET attempts == control[t].attempts + 1
    IN  IF FailSellError(attempts) # None THEN CopyAbort(FailSellError(attempts))
        ELSE /\ SellAgain(t, attempts, scheduled)
             /\ UNCHANGED <<books, trip>>
             /\ Served

SellSubmitted(t, fee) ==
    /\ HasAvailable(SellReservation(t, fee))
    /\ SubmitSell(t, fee)
    /\ control' = [control EXCEPT ![t].attempts = control[t].attempts + 1,
                                  ![t].retry = OffClock]
    /\ Await(t, "SELL_PENDING")
    /\ scheduled' = scheduled \cup
            {Action(TransactionAfter(run.clock, now, SellDelay), Landing, t, "SELL_LANDING")}
    /\ Served

BeginSell(t) ==
    IF BeginSellError(t) # None THEN CopyAbort(BeginSellError(t))
    ELSE SellRefused(t) \/ \E fee \in Fees : SellSubmitted(t, fee)

ServeRequest ==
    /\ Reached("requests")
    /\ requests # <<>>
    /\ \/ Head(requests).buy /\ BeginBuy(Head(requests).trip)
       \/ ~Head(requests).buy /\ BeginSell(Head(requests).trip)

EndRequests ==
    /\ Reached("requests")
    /\ requests = <<>>
    /\ CopyEnter("landings")

-----------------------------------------------------------------------------
(* land, with what follows from it for the position: the loop over         *)
(* notifications schedules each position's next action.                    *)

CopyBuyFailed(a) ==
    LET error == BuyLandingError(a.trip, FeeOnly(trip[a.trip].fee))
    IN  IF error # None THEN CopyAbort(error)
        ELSE /\ FailBuy(a.trip)
             /\ Conclude(a.trip, "BUY_FAILED")
             /\ scheduled' = scheduled \ {a}
             /\ UNCHANGED <<run, now, stage, raised, control, callbacks, requests>>

\* The price may ask for an exit at once: then it is due one transaction on,
\* and otherwise at the end of the holding time.
CopyBuyFilled(a, paid, tokens, exit) ==
    LET t == a.trip
        deadline == HoldingDeadline(run.clock, now, HoldTime)
        next == IF exit THEN TransactionAfter(run.clock, now, 1) ELSE deadline
        error == IF BuyLandingError(t, BuySpent(t, paid)) # None
                 THEN BuyLandingError(t, BuySpent(t, paid))
                 ELSE IF deadline = OffClock THEN "TAIL" ELSE DueError(next)
    IN  IF error # None THEN CopyAbort(error)
        ELSE /\ FillBuy(t, paid, tokens)
             /\ Await(t, "OPEN")
             /\ control' = [control EXCEPT ![t].deadline = deadline, ![t].exit = exit]
             /\ scheduled' = (scheduled \ {a}) \cup
                    {Action(next, Decision, t, IF exit THEN "EXIT" ELSE "HOLD")}
             /\ UNCHANGED <<run, now, stage, raised, callbacks, requests>>

CopySellFailed(a) ==
    LET t == a.trip
        attempts == control[t].attempts
        error == IF SellLandingError(t, FeeOnly(trip[t].fee)) # None
                 THEN SellLandingError(t, FeeOnly(trip[t].fee)) ELSE FailSellError(attempts)
    IN  IF error # None THEN CopyAbort(error)
        ELSE /\ FailSell(t)
             /\ SellAgain(t, attempts, scheduled \ {a})
             /\ UNCHANGED <<run, now, stage, raised, callbacks, requests>>

CopySellFilled(a, proceeds) ==
    IF CloseError(a.trip) # None THEN CopyAbort(CloseError(a.trip))
    ELSE /\ FillSell(a.trip, proceeds)
         /\ Conclude(a.trip, "CLOSED")
         /\ scheduled' = scheduled \ {a}
         /\ UNCHANGED <<run, now, stage, raised, control, callbacks, requests>>

\* Only landings may be left once the callbacks of a boundary have run.
CopyLand(a) ==
    IF a.phase # Landing THEN CopyAbort("PHASE")
    ELSE \/ /\ a.kind = "BUY_LANDING"
            /\ \/ CopyBuyFailed(a)
               \/ \E p \in Paid, n \in Tokens, exit \in BOOLEAN : CopyBuyFilled(a, p, n, exit)
         \/ /\ a.kind = "SELL_LANDING"
            /\ CopySellFailed(a) \/ \E p \in Proceeds : CopySellFilled(a, p)

CopyLandDue ==
    /\ Reached("landings")
    /\ \E a \in DueUpTo(Landing) : CopyLand(a)

EndCopyLandings ==
    /\ Reached("landings")
    /\ DueUpTo(Landing) = {}
    /\ CopyEnter("select")

CopyNext ==
    \/ CopyPreflight
    \/ VisitDueBoundary \/ VisitMarketBoundary \/ FinishCopyRun
    \/ RunCallback \/ EndCallbacks
    \/ ServeRequest \/ EndRequests
    \/ CopyLandDue \/ EndCopyLandings

CopySpec == CopyInit /\ [][CopyNext]_copyVars

-----------------------------------------------------------------------------
\* The boundary computed by the preflight is a bound: however many attempts are
\* refused at their decision or fail at their landing, and whenever the price asks
\* for the exit, no order of a copied signal lands behind it.
SettledInTime ==
    run.engine = "copy" => \A a \in Orders : a.release <= MaximumSettlement(a.trip)
=============================================================================
