---------------------------- MODULE ReplayEngine ----------------------------
(***************************************************************************)
(* What the reference engine and the optimized engine have in common: the  *)
(* same FirstSwap strategy, constant-product venue, risk policy, portfolio *)
(* and recorder, called in the same phases of each boundary.  How an       *)
(* engine finds the events to deliver, the pool to trade with and the      *)
(* order to execute is its own (ReferenceEngine, OptimizedEngine).         *)
(*                                                                         *)
(* A boundary is one transaction group.  An event says whether it is a     *)
(* swap of the strategy's pool, and with which reserves it leaves the      *)
(* pool, if it says so.  An event is named by its boundary and row; as     *)
(* the strategy submits once, an order is named by the event that caused   *)
(* it, as the digest in its id is.                                         *)
(***************************************************************************)
EXTENDS Integers, Sequences, FiniteSetsExt

CONSTANTS
    AmountIn, MinimumOut,   \* the strategy's order
    FeeBps,                 \* of the constant-product venue, in 1/10000
    MaximumInput,           \* maximum_order_input_atomic of the risk policy
    None

VARIABLES
    replay,     \* the run's inputs: blocks, groups, delays, funds, budget, mode, sells
    at, phase,  \* the boundary in hand and the phase it is in
    proposed,   \* the intent of this boundary, or None
    portfolio,  \* balances of the sold asset and the bought one
    audit, ledger, fills,
    notices,    \* this boundary's notifications
    raised      \* EngineInvariantError, or None

accounts == <<portfolio, ledger, fills>>
engineVars == <<at, phase, proposed, portfolio, audit, ledger, fills, notices, raised>>

EngineInit ==
    /\ at = 1
    /\ phase = "apply"
    /\ proposed = None
    /\ portfolio = [available |-> replay.funds, reserved |-> 0, bought |-> 0]
    /\ audit = <<>> /\ ledger = <<>> /\ fills = <<>> /\ notices = <<>>
    /\ raised = None

Boundaries == DOMAIN replay.blocks
Running(p) == raised = None /\ phase = p

Entry(type, item, detail) ==
    [boundary |-> at, type |-> type, item |-> item, detail |-> detail]

Events(boundary) == [row \in DOMAIN replay.groups[boundary] |-> <<boundary, row>>]
EventOf(event) == replay.groups[event[1]][event[2]]
IsTarget(event) == EventOf(event).target
HasReserves(event) == IsTarget(event) /\ EventOf(event).reserves # None

DeliveryEntries(events) ==
    [k \in DOMAIN events |-> Entry("OBSERVATION_DELIVERED", events[k], events[k][1])]

GroupEntries(release) ==
    <<Entry("HISTORICAL_GROUP_APPLIED", Events(at), None),
      Entry("SIMULATION_RECONCILED", at, replay.mode)>>
        \o IF release = None
           THEN [row \in DOMAIN Events(at) |->
                    Entry("OBSERVATION_OUTSIDE_HORIZON", Events(at)[row], None)]
           ELSE <<>>

\* Queued observations and orders against maximum_dynamic_items.
BudgetError(items) == IF items > replay.budget THEN "BUDGET" ELSE None

-----------------------------------------------------------------------------
(* Acceptance.                                                             *)

RiskAccepts == AmountIn <= MaximumInput /\ portfolio.available >= AmountIn

Refusal(release) ==
    IF release = None THEN "HORIZON_EXHAUSTED"
    ELSE IF RiskAccepts THEN None ELSE "RISK_REJECTED"

RejectOrder(reason) ==
    /\ audit' = Append(audit, Entry("ORDER_REJECTED", proposed, reason))
    /\ notices' = Append(notices, [order |-> proposed, status |-> "REJECTED"])
    /\ UNCHANGED accounts

ReserveOrder(release) ==
    /\ portfolio' = [portfolio EXCEPT !.available = @ - AmountIn, !.reserved = @ + AmountIn]
    /\ ledger' = Append(ledger, Entry("RESERVATION", proposed, None))
    /\ audit' = Append(audit, Entry("ORDER_ACCEPTED_AND_RESERVED", proposed, release))
    /\ notices' = Append(notices, [order |-> proposed, status |-> "ACCEPTED"])
    /\ UNCHANGED fills

-----------------------------------------------------------------------------
(* Execution against a pool of reserves <<a, b>>, or None; sells says      *)
(* which of the two the strategy sells, 0 when it is neither.              *)

Effective == AmountIn - (AmountIn * FeeBps) \div 10000
In(pool) == pool[replay.sells]
Out(pool) == pool[3 - replay.sells]
AmountOut(pool) == (Out(pool) * Effective) \div (In(pool) + Effective)

Rejection(pool) ==
    CASE pool = None -> "UNKNOWN_POOL"
      [] pool # None /\ replay.sells = 0 -> "POOL_ASSET_MISMATCH"
      [] OTHER ->
            IF In(pool) = 0 \/ Out(pool) = 0 THEN "EMPTY_POOL"
            ELSE IF AmountOut(pool) \notin 1 .. Out(pool) - 1 THEN "OUTPUT_OUT_OF_BOUNDS"
            ELSE IF AmountOut(pool) < MinimumOut THEN "MINIMUM_OUTPUT_NOT_MET" ELSE None

AfterSwap(pool) ==
    [pool EXCEPT ![replay.sells] = @ + Effective, ![3 - replay.sells] = @ - AmountOut(pool)]

ReleaseOrder(order, code) ==
    /\ portfolio' = [portfolio EXCEPT !.available = @ + AmountIn, !.reserved = @ - AmountIn]
    /\ ledger' = Append(ledger, Entry("RELEASE", order, code))
    /\ audit' = Append(audit, Entry("ORDER_EXECUTION_FAILED_AND_RELEASED", order, code))
    /\ notices' = Append(notices, [order |-> order, status |-> "EXECUTION_FAILED"])
    /\ UNCHANGED fills

FillOrder(order, pool) ==
    /\ portfolio' = [portfolio EXCEPT !.reserved = @ - AmountIn, !.bought = @ + AmountOut(pool)]
    /\ ledger' = Append(ledger, Entry("SETTLEMENT", order, AmountOut(pool)))
    /\ fills' = Append(fills, Entry("FILL", order, AmountOut(pool)))
    /\ audit' = Append(audit, Entry("ORDER_FILLED_ATOMICALLY", order, None))
    /\ notices' = Append(notices, [order |-> order, status |-> "FILLED"])

ExecuteOrder(order, pool) ==
    \/ Rejection(pool) # None /\ ReleaseOrder(order, Rejection(pool))
    \/ Rejection(pool) = None /\ FillOrder(order, pool)

-----------------------------------------------------------------------------
(* Notification, checkpoint and the next boundary.  As an order is         *)
(* executed after the boundary it was decided at, a boundary has at most   *)
(* one notification of it, and their sort changes nothing.                 *)

EndBoundary ==
    /\ audit' = audit
            \o [k \in DOMAIN notices |->
                    Entry("STRATEGY_NOTIFIED", notices[k].order, notices[k].status)]
            \o <<Entry("BOUNDARY_CHECKPOINT", at, None)>>
    /\ notices' = <<>>
    /\ proposed' = None
    /\ at' = at + 1
    /\ phase' = IF at + 1 \in Boundaries THEN "apply" ELSE "finish"
    /\ UNCHANGED <<accounts, raised>>
=============================================================================
