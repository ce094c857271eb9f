------------------------------ MODULE Sniping ------------------------------
(***************************************************************************)
(* The sniping engine (engine/sniping.py with the strategy and the wallet  *)
(* accounts it drives): each launch may be bought once, a fixed number of  *)
(* transactions later, and is sold once after a holding time.  Boundaries  *)
(* are visited in order; in each, due sell decisions come first, then the  *)
(* boundary's launches, then the landings.                                 *)
(***************************************************************************)
EXTENDS Settlement

CONSTANT Cooldown   \* PUMPFUN_SNIPING_COOLDOWN_NS

ASSUME CooldownIsNatural == Cooldown \in Nat

VARIABLE until      \* _developer_cooldown_until_ns; 0 for a developer not seen

snipingVars == <<sharedVars, until>>

SnipingInit ==
    /\ SharedInit
    /\ status = [t \in Trips |-> "UNSEEN"]
    /\ until = [d \in Developers |-> 0]

Abort(code) == Raise(code) /\ UNCHANGED until

Advance(s) == Enter(s) /\ UNCHANGED until

LaunchesAt(boundary) == {t \in Trips : status[t] = "UNSEEN" /\ run.launch[t] = boundary}

-----------------------------------------------------------------------------
(* Before anything changes, every launch that may be bought must have its  *)
(* whole settlement on the clock.                                          *)

SettlementEnd(t) ==
    LET buy == TransactionAfter(run.clock, run.launch[t], BuyDelay)
        sell == HoldingDeadline(run.clock, buy, HoldTime)
    IN  TransactionAfter(run.clock, sell, SellDelay)

Preflight ==
    /\ Reached("preflight")
    /\ Advance(IF \E t \in Trips : InRange(t) /\ SettlementEnd(t) = OffClock
               THEN "refused" ELSE "select")

-----------------------------------------------------------------------------
(* The loop over boundaries.                                               *)

Boundaries ==
    {run.launch[t] : t \in {u \in Trips : status[u] = "UNSEEN"}}
        \cup {a.release : a \in scheduled}

SelectBoundary ==
    /\ Reached("select")
    /\ Boundaries # {}
    /\ now' = Min(Boundaries)
    /\ stage' = "decisions"
    /\ UNCHANGED <<run, books, trip, status, live, scheduled, raised, until>>

FinishRun ==
    /\ Reached("select")
    /\ Boundaries = {}
    /\ Advance("done")

EndDecisions ==
    /\ Reached("decisions")
    /\ DueUpTo(Decision) = {}
    /\ Advance("launches")

EndLaunches ==
    /\ Reached("launches")
    /\ LaunchesAt(now) = {}
    /\ Advance("landings")

EndLandings ==
    /\ Reached("landings")
    /\ DueUpTo(Landing) = {}
    /\ Advance("select")

-----------------------------------------------------------------------------
(* _decide_sell.                                                           *)

SellUnavailable(a) ==
    /\ Conclude(a.trip, "SELL_REFERENCE_UNAVAILABLE_OPEN")
    /\ scheduled' = scheduled \ {a}
    /\ UNCHANGED <<run, books, trip, now, stage, raised, until>>

SellQuoted(a, fee) ==
    LET t == a.trip
        due == TransactionAfter(run.clock, now, SellDelay)
    IN  IF DueError(due) # None THEN Abort(DueError(due))
        ELSE IF available[run.mint[t]] < trip[t].tokens THEN Abort("PORTFOLIO")
        ELSE /\ IF HasAvailable(SellReservation(t, fee))
                THEN /\ SubmitSell(t, fee)
                     /\ scheduled' = (scheduled \ {a})
                            \cup {Action(due, Landing, t, "SELL_LANDING")}
                     /\ UNCHANGED <<status, live>>
                ELSE /\ Conclude(t, "SELL_PRE_SUBMIT_INSUFFICIENT_FUNDS_OPEN")
                     /\ scheduled' = scheduled \ {a}
                     /\ UNCHANGED <<books, trip>>
             /\ UNCHANGED <<run, now, stage, raised, until>>

DecideSell ==
    /\ Reached("decisions")
    /\ \E a \in DueUpTo(Decision) :
        IF a.kind # "SELL_DECISION" \/ a.trip \notin live \/ trip[a.trip].tokens = 0
        THEN Abort("INTERNAL")
        ELSE \/ SellUnavailable(a)
             \/ \E fee \in Fees : SellQuoted(a, fee)

-----------------------------------------------------------------------------
(* A launch: the strategy's decision and, in the same call, _accept_buy.   *)

LaunchOutOfRange(t) ==
    /\ ~InRange(t)
    /\ status' = [status EXCEPT ![t] = "TARGET_OUTSIDE_DECISION_RANGE"]
    /\ UNCHANGED <<live, books, trip, scheduled, until>>

CoolingDown(t) == TimeOf(run.clock, now) < until[run.developer[t]]

\* Variant: only a submitted buy starts a cooldown.
SubmittedStartCooldown(t) ==
    until' = [until EXCEPT ![run.developer[t]] =
                IF t \in live' THEN TimeOf(run.clock, now) + Cooldown ELSE @]

\* decide starts a cooldown with each eligible launch, bought or not.
StartCooldown(t) ==
    until' = [until EXCEPT ![run.developer[t]] = TimeOf(run.clock, now) + Cooldown]

LaunchSuppressed(t) ==
    /\ InRange(t)
    /\ CoolingDown(t)
    /\ status' = [status EXCEPT ![t] = "COOLDOWN_SKIPPED"]
    /\ UNCHANGED <<live, books, trip, scheduled, until>>

BuyUnquoted(t) ==
    /\ Conclude(t, "BUY_REFERENCE_REJECTED")
    /\ UNCHANGED <<books, trip, scheduled>>

\* A submitted buy keeps the status it was created with until it lands.
BuyQuoted(t, due, fee) ==
    IF HasAvailable(BuyReservation(fee, UvaReservation))
    THEN /\ SubmitBuy(t, fee)
         /\ scheduled' = scheduled \cup {Action(due, Landing, t, "BUY_LANDING")}
         /\ Await(t, "BUY_REFERENCE_REJECTED")
    ELSE /\ Conclude(t, "BUY_PRE_SUBMIT_INSUFFICIENT_FUNDS")
         /\ UNCHANGED <<books, trip, scheduled>>

AcceptBuy(t) ==
    LET due == TransactionAfter(run.clock, run.launch[t], BuyDelay)
    IN  IF openMints[run.mint[t]] # None THEN Abort("PROVISIONING")
        ELSE IF DueError(due) # None THEN Abort(DueError(due))
        ELSE /\ BuyUnquoted(t) \/ \E fee \in Fees : BuyQuoted(t, due, fee)
             /\ StartCooldown(t)
             /\ UNCHANGED <<run, now, stage, raised>>

LaunchEligible(t) ==
    /\ InRange(t)
    /\ ~CoolingDown(t)
    /\ AcceptBuy(t)

Launch ==
    /\ Reached("launches")
    /\ \E t \in LaunchesAt(now) :
        \/ /\ LaunchOutOfRange(t) \/ LaunchSuppressed(t)
           /\ UNCHANGED <<run, now, stage, raised>>
        \/ LaunchEligible(t)

-----------------------------------------------------------------------------
(* _land_buy and _land_sell.                                               *)

LandBuyFailed(a) ==
    LET t == a.trip
        error == BuyLandingError(t, FeeOnly(trip[t].fee))
    IN  IF error # None THEN Abort(error)
        ELSE /\ FailBuy(t)
             /\ Conclude(t, "BUY_LANDED_FAILED")
             /\ scheduled' = scheduled \ {a}
             /\ UNCHANGED <<run, now, stage, raised, until>>

\* The sell is decided after the holding time, on a later block.
LandBuyFilled(a, paid, tokens) ==
    LET t == a.trip
        error == BuyLandingError(t, BuySpent(t, paid))
        due == HoldingDeadline(run.clock, now, HoldTime)
    IN  IF error # None THEN Abort(error)
        ELSE IF DueError(due) # None THEN Abort(DueError(due))
        ELSE /\ FillBuy(t, paid, tokens)
             /\ Await(t, "OPEN_AT_HORIZON")
             /\ scheduled' = (scheduled \ {a})
                    \cup {Action(due, Decision, t, "SELL_DECISION")}
             /\ UNCHANGED <<run, now, stage, raised, until>>

LandSellFailed(a) ==
    LET t == a.trip
        error == SellLandingError(t, FeeOnly(trip[t].fee))
    IN  IF error # None THEN Abort(error)
        ELSE /\ FailSell(t)
             /\ Conclude(t, "SELL_LANDED_FAILED_OPEN")
             /\ scheduled' = scheduled \ {a}
             /\ UNCHANGED <<run, now, stage, raised, until>>

LandSellFilled(a, proceeds) ==
    LET t == a.trip
    IN  IF CloseError(t) # None THEN Abort(CloseError(t))
        ELSE /\ FillSell(t, proceeds)
             /\ Conclude(t, "CLOSED")
             /\ scheduled' = scheduled \ {a}
             /\ UNCHANGED <<run, now, stage, raised, until>>

Land(a) ==
    IF a.kind = "BUY_LANDING"
    THEN LandBuyFailed(a) \/ \E p \in Paid, n \in Tokens : LandBuyFilled(a, p, n)
    ELSE IF a.kind = "SELL_LANDING"
    THEN LandSellFailed(a) \/ \E p \in Proceeds : LandSellFilled(a, p)
    ELSE Abort("INTERNAL")

LandDue ==
    /\ Reached("landings")
    /\ \E a \in DueUpTo(Landing) : Land(a)

SnipingNext ==
    \/ Preflight \/ SelectBoundary \/ FinishRun
    \/ DecideSell \/ EndDecisions
    \/ Launch \/ EndLaunches
    \/ LandDue \/ EndLandings

SnipingSpec == SnipingInit /\ [][SnipingNext]_snipingVars

-----------------------------------------------------------------------------
\* Two launches of a developer that were both acted upon are a cooldown apart,
\* whatever became of the first one's buy.
CooldownHolds ==
    \A t, u \in Trips :
        (/\ run.engine = "sniping"
         /\ t # u /\ run.developer[t] = run.developer[u]
         /\ {status[t], status[u]} \cap
                {"UNSEEN", "COOLDOWN_SKIPPED", "TARGET_OUTSIDE_DECISION_RANGE"} = {})
        => LET gap == TimeOf(run.clock, run.launch[t]) - TimeOf(run.clock, run.launch[u])
           IN  gap >= Cooldown \/ -gap >= Cooldown
=============================================================================
