---------------------------- MODULE Settlement ----------------------------
(***************************************************************************)
(* What the sniping engine and the copy-trading engine share: one wallet   *)
(* whose balances move only by balanced ledger transactions, the deposits  *)
(* of the accounts a buy creates, and the heap of actions due at later     *)
(* boundaries.  Every buy is reserved in full before it is submitted, is   *)
(* settled or released once at its landing, and its tokens are sold whole. *)
(*                                                                         *)
(* A trip is one launch (sniping) or one signal (copy trading).  Amounts   *)
(* are small numbers.  A quote is an input of the engines: a landing whose *)
(* quote is rejected or below the minimum fails, any other fills with any  *)
(* amounts the ProtocolQuote contract admits.  Value outside the           *)
(* wallet (venue, fee collectors, cashback receivables, synthetic          *)
(* liquidity) is not kept: no decision reads it.  Resource limits that end *)
(* a run (items, positions, events) are left out.                          *)
(***************************************************************************)
EXTENDS TransactionClock, Functions

CONSTANTS
    Trips,          \* launches or signals
    Mints,          \* the tokens they are about
    Developers,
    Quote, Native,  \* what launches are paid in, and the chain's own asset
    Budget,         \* gross_buy_budget_atomic
    Fees,           \* network fees a decision may be quoted
    MintDeposit, UvaDeposit,
    Paid,           \* what a filled buy may take of its budget
    Tokens,         \* what a filled buy may return
    Proceeds,       \* what a filled sell may return
    BuyDelay, SellDelay,    \* in transactions
    HoldTime,       \* sell_decision_delay_ns, maximum_hold_ns
    Runs,           \* the inputs of a run: clock, decision range, launches with
                    \* their mints and developers, wallet, asset of the fees
    None

ASSUME DelaysArePositive == BuyDelay \in Nat \ {0} /\ SellDelay \in Nat \ {0}
ASSUME AmountsAreNatural ==
    /\ Budget \in Nat \ {0} /\ MintDeposit \in Nat /\ UvaDeposit \in Nat
    /\ Paid \subseteq 1 .. Budget
    /\ Fees \subseteq Nat /\ Tokens \subseteq Nat \ {0} /\ Proceeds \subseteq Nat \ {0}
    /\ HoldTime \in Nat

\* A token is created by its launch: it is neither what launches are paid in nor
\* what the chain charges fees in, and no two launches share one.
ASSUME TripsAreFinite == IsFiniteSet(Trips) /\ None \notin Trips
ASSUME TokensAreApart == Mints \cap {Quote, Native} = {}
ASSUME RunsAreValid ==
    \A r \in Runs :
        /\ IsClock(r.clock)
        /\ r.launch \in [Trips -> Positions(r.clock)]
        /\ r.mint \in [Trips -> Mints]
        /\ r.developer \in [Trips -> Developers]
        /\ r.wallet.feeAsset \in {Quote, Native}
        /\ \A a \in DOMAIN r.wallet.initial : r.wallet.initial[a] \in Nat
        /\ r.engine \in {"sniping", "copy"}
        /\ r.engine = "sniping" => IsInjective(r.mint)

VARIABLES
    run,        \* this run's inputs, an element of Runs
    available, reserved,    \* the wallet's two accounts of each asset
    locked,     \* PORTFOLIO_LOCKED: deposits paid and not refunded
    uvaOwner,   \* uva_created_by_roundtrip_id
    openMints,  \* open_mint_accounts: the trip that opened each
    trip,       \* what the books remember of each trip
    status,     \* RoundTripStatus or CopyPositionStatus
    live,       \* trips with an intent that are not terminal
    scheduled,  \* the heap
    now, stage, \* the boundary in hand and how far its phases are
    raised      \* the error that ended the run, or None

books == <<available, reserved, locked, uvaOwner, openMints>>
sharedVars == <<run, books, trip, status, live, scheduled, now, stage, raised>>

Assets == {Quote, Native} \cup Mints
FeeAsset == run.wallet.feeAsset

Decision == 40      \* SchedulerPhase.STRATEGY_CALLBACK
Landing  == 60      \* SchedulerPhase.VENUE_EXECUTION_AND_LEDGER_COMMIT

NewTrip == [uvaReserved |-> 0, fee |-> 0, spent |-> 0, tokens |-> 0, proceeds |-> 0,
            feesPaid |-> 0, uvaPaid |-> 0, mintLocked |-> 0]

StartOf(a) == IF a \in DOMAIN run.wallet.initial THEN run.wallet.initial[a] ELSE 0

SharedInit ==
    /\ run \in Runs
    /\ available = [a \in Assets |-> StartOf(a)]
    /\ reserved = [a \in Assets |-> 0]
    /\ locked = 0
    /\ uvaOwner = None
    /\ openMints = [m \in Mints |-> None]
    /\ trip = [t \in Trips |-> NewTrip]
    /\ live = {}
    /\ scheduled = {}
    /\ now = -1
    /\ stage = "preflight"
    /\ raised = None

-----------------------------------------------------------------------------
(* Amounts by asset.                                                       *)

On(a, asset, amount) == IF a = asset THEN amount ELSE 0

BuyReservation(fee, uva) ==
    [a \in Assets |-> On(a, Quote, Budget) + On(a, FeeAsset, fee + MintDeposit + uva)]

SellReservation(t, fee) ==
    [a \in Assets |-> On(a, run.mint[t], trip[t].tokens) + On(a, FeeAsset, fee)]

FeeOnly(fee) == [a \in Assets |-> On(a, FeeAsset, fee)]

\* Variant: only what is paid for tokens is looked at.
PaidAssetHasAvailable(amounts) == available[Quote] >= amounts[Quote]

HasAvailable(amounts) == \A a \in Assets : available[a] >= amounts[a]

-----------------------------------------------------------------------------
(* Accounts a buy needs: one per mint, and one per wallet (the UVA).       *)

UvaExists == run.prewarmed \/ uvaOwner # None

\* prepare_account_reservation: the wallet's deposit is asked for only while
\* the wallet has no such account, so two buys in flight may both hold it.
UvaReservation == IF UvaExists THEN 0 ELSE UvaDeposit

\* Variant: each buy pays what it holds.
EagerUvaPaid(t) == trip[t].uvaReserved

\* apply_buy_account_transition: the first of them to land pays it.
UvaPaid(t) == IF UvaExists THEN 0 ELSE trip[t].uvaReserved

-----------------------------------------------------------------------------
(* Ledger transactions.  Each previews its candidate and raises before it  *)
(* changes anything.  A portfolio account has postings of one sign in each *)
(* transaction, so that the final balance is the least.                    *)

Raise(code) ==
    /\ raised' = code
    /\ UNCHANGED <<run, books, trip, status, live, scheduled, now, stage>>

\* _reserve_amounts, after _has_available.
Reserve(amounts) ==
    /\ available' = [a \in Assets |-> available[a] - amounts[a]]
    /\ reserved' = [a \in Assets |-> reserved[a] + amounts[a]]

\* _settle_reserved_amounts and PortfolioState.preview raise otherwise.
Settles(held, spent) ==
    \A a \in Assets : spent[a] <= held[a] /\ held[a] <= reserved[a]

Settle(held, spent, gained) ==
    /\ reserved' = [a \in Assets |-> reserved[a] - held[a]]
    /\ available' = [a \in Assets |-> available[a] + held[a] - spent[a] + gained[a]]

BuyHeld(t) == BuyReservation(trip[t].fee, trip[t].uvaReserved)
SellHeld(t) == SellReservation(t, trip[t].fee)

\* _reserve_buy: what the order holds is remembered with the trip.
SubmitBuy(t, fee) ==
    /\ Reserve(BuyReservation(fee, UvaReservation))
    /\ trip' = [trip EXCEPT ![t].fee = fee, ![t].uvaReserved = UvaReservation]
    /\ UNCHANGED <<locked, uvaOwner, openMints>>

\* _reserve_sell.
SubmitSell(t, fee) ==
    /\ Reserve(SellReservation(t, fee))
    /\ trip' = [trip EXCEPT ![t].fee = fee]
    /\ UNCHANGED <<locked, uvaOwner, openMints>>

\* Variant: a failed buy spends all it held.
ChargingFailBuy(t) ==
    /\ Settle(BuyHeld(t), BuyHeld(t), FeeOnly(0))
    /\ trip' = [trip EXCEPT ![t].feesPaid = trip[t].fee]
    /\ UNCHANGED <<locked, uvaOwner, openMints>>

\* _failed_buy_settlement: only the network fee is spent, no account is made.
FailBuy(t) ==
    /\ Settle(BuyHeld(t), FeeOnly(trip[t].fee), FeeOnly(0))
    /\ trip' = [trip EXCEPT ![t].feesPaid = trip[t].fee]
    /\ UNCHANGED <<locked, uvaOwner, openMints>>

BuySpent(t, paid) ==
    [a \in Assets |->
        On(a, Quote, paid) + On(a, FeeAsset, trip[t].fee + MintDeposit + UvaPaid(t))]

\* _successful_buy_settlement with apply_buy_account_transition.
FillBuy(t, paid, tokens) ==
    /\ Settle(BuyHeld(t), BuySpent(t, paid), [a \in Assets |-> On(a, run.mint[t], tokens)])
    /\ locked' = locked + MintDeposit + UvaPaid(t)
    /\ uvaOwner' = IF UvaExists THEN uvaOwner ELSE t
    /\ openMints' = [openMints EXCEPT ![run.mint[t]] = t]
    /\ trip' = [trip EXCEPT ![t].feesPaid = trip[t].fee, ![t].spent = paid,
                            ![t].tokens = tokens, ![t].uvaPaid = UvaPaid(t),
                            ![t].mintLocked = MintDeposit]

\* Variant: the tokens of a failed sell stay reserved.
LitteringFailSell(t) ==
    /\ Settle(FeeOnly(trip[t].fee), FeeOnly(trip[t].fee), FeeOnly(0))
    /\ trip' = [trip EXCEPT ![t].feesPaid = trip[t].feesPaid + trip[t].fee]
    /\ UNCHANGED <<locked, uvaOwner, openMints>>

\* _failed_sell_settlement: the tokens come back.
FailSell(t) ==
    /\ Settle(SellHeld(t), FeeOnly(trip[t].fee), FeeOnly(0))
    /\ trip' = [trip EXCEPT ![t].feesPaid = trip[t].feesPaid + trip[t].fee]
    /\ UNCHANGED <<locked, uvaOwner, openMints>>

\* _successful_sell_settlement with apply_sell_account_transition: the mint's
\* account is closed and its deposit refunded, the wallet's stays.
FillSell(t, proceeds) ==
    /\ Settle(SellHeld(t), SellHeld(t),
              [a \in Assets |-> On(a, Quote, proceeds) + On(a, FeeAsset, trip[t].mintLocked)])
    /\ locked' = locked - trip[t].mintLocked
    /\ openMints' = [openMints EXCEPT ![run.mint[t]] = None]
    /\ trip' = [trip EXCEPT ![t].feesPaid = trip[t].feesPaid + trip[t].fee,
                            ![t].proceeds = proceeds, ![t].tokens = 0,
                            ![t].mintLocked = 0]
    /\ UNCHANGED uvaOwner

\* Whether the books refuse a landing, and with which error.
BuyLandingError(t, spent) ==
    IF openMints[run.mint[t]] # None THEN "PROVISIONING"
    ELSE IF ~Settles(BuyHeld(t), spent) THEN "PORTFOLIO" ELSE None

SellLandingError(t, spent) ==
    IF ~Settles(SellHeld(t), spent) THEN "PORTFOLIO" ELSE None

CloseError(t) ==
    IF openMints[run.mint[t]] # t THEN "PROVISIONING"
    ELSE SellLandingError(t, SellHeld(t))

-----------------------------------------------------------------------------
(* The heap.                                                               *)

Action(release, phase, t, kind) ==
    [release |-> release, phase |-> phase, creator |-> now, trip |-> t, kind |-> kind]

\* The clock has no such boundary, or _schedule is given one that is not later.
DueError(release) ==
    IF release = OffClock THEN "TAIL"
    ELSE IF release <= now THEN "SCHEDULE" ELSE None

Before(a, b) ==
    \/ a.release < b.release
    \/ a.release = b.release /\ a.phase < b.phase
    \/ a.release = b.release /\ a.phase = b.phase /\ a.creator < b.creator

\* The heads of the heap: the last key is a digest, so that ties are open.
Heads == {a \in scheduled : \A b \in scheduled : ~Before(b, a)}

DueUpTo(phase) == {a \in Heads : a.release = now /\ a.phase <= phase}

\* decision_range, a range of blocks.
InRange(t) == BlockOf(run.clock, run.launch[t]) \in run.range

Reached(s) == raised = None /\ stage = s

Enter(s) ==
    /\ stage' = s
    /\ UNCHANGED <<run, books, trip, status, live, scheduled, now, raised>>

\* A trip reaches a status and asks for nothing more.
Conclude(t, outcome) ==
    /\ status' = [status EXCEPT ![t] = outcome]
    /\ live' = live \ {t}

\* A trip keeps its intent and waits for an action.
Await(t, outcome) ==
    /\ status' = [status EXCEPT ![t] = outcome]
    /\ live' = live \cup {t}

-----------------------------------------------------------------------------
(* Correctness.                                                            *)

\* Types of the shared state: balances of the wallet are never negative, a
\* deposit is locked or not, and an error ends the run.
SettlementTypeOK ==
    /\ available \in [Assets -> Nat] /\ reserved \in [Assets -> Nat] /\ locked \in Nat
    /\ uvaOwner \in Trips \cup {None}
    /\ openMints \in [Mints -> Trips \cup {None}]
    /\ trip \in [Trips -> [DOMAIN NewTrip -> Nat]]
    /\ live \subseteq Trips
    /\ \A a \in scheduled : a.trip \in Trips /\ a.phase \in {Decision, Landing}

\* The claim of both preflights: once a run is admitted, nothing that quotes,
\* prices, funds and failed sells can do makes it raise.  No settlement runs
\* off the clock, no balance goes negative, no reservation is overspent, no
\* account is opened twice or closed by another trip, no action is late.
NeverAborts == raised = None

Orders == {a \in scheduled : a.phase = Landing}

HeldBy(a) == IF a.kind = "BUY_LANDING" THEN BuyHeld(a.trip) ELSE SellHeld(a.trip)

\* What each order holds of an asset.
HeldOf(x) == [a \in Orders |-> HeldBy(a)[x]]

\* PORTFOLIO_RESERVED holds, asset by asset, exactly what the submitted orders
\* will settle: nothing stays reserved behind an order that is gone, and no
\* order finds its reservation spent by another.
ReservedIsInFlight ==
    \A x \in Assets : reserved[x] = SumFunction(HeldOf(x))

\* What the trips' records say was paid, received and kept of an asset.
CashFlow(t, x) ==
    On(x, Quote, trip[t].proceeds - trip[t].spent)
        - On(x, FeeAsset, trip[t].feesPaid + trip[t].uvaPaid + trip[t].mintLocked)
        + On(x, run.mint[t], trip[t].tokens)

FlowsOf(x) == [t \in Trips |-> CashFlow(t, x)]

\* The records explain the wallet: what it has, reserved or not, is what it
\* had and the cash flows of the trips.  Fees of orders never submitted and
\* budgets not spent are back; each fee is charged once.
BooksExplained ==
    \A x \in Assets :
        available[x] + reserved[x] = StartOf(x) + SumFunction(FlowsOf(x))

Deposits == [t \in Trips |-> trip[t].uvaPaid + trip[t].mintLocked]

\* Accounts: with several buys in flight that all hold the wallet's deposit,
\* one pays it, and none when the account exists; a mint's deposit is locked
\* exactly while its account is open, and locked is the sum of both.
DepositsLockedOnce ==
    /\ \A t \in Trips : trip[t].uvaPaid > 0 <=> uvaOwner = t /\ UvaDeposit > 0
    /\ run.prewarmed => uvaOwner = None
    /\ \A t \in Trips : trip[t].mintLocked > 0 <=> openMints[run.mint[t]] = t /\ MintDeposit > 0
    /\ locked = SumFunction(Deposits)

\* No trip is forgotten and none is settled twice: between boundaries each
\* live trip has an action ahead, never more than one order, and a trip that
\* is over has none; when the run is done every trip is over.
EveryTripPursued ==
    /\ \A t \in Trips :
        LET orders == {a \in Orders : a.trip = t}
        IN  /\ Cardinality(orders) <= 1
            /\ t \notin live => orders = {}
            /\ stage = "select" /\ t \in live =>
                    \E a \in scheduled : a.trip = t /\ a.release > now
    /\ stage = "done" => live = {}
=============================================================================
