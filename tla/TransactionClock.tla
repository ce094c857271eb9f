------------------------- MODULE TransactionClock -------------------------
(***************************************************************************)
(* The transaction clock that both launchpad engines schedule by           *)
(* (engine/transaction_clock.py).  A clock lists the produced blocks: how  *)
(* many transactions each holds, possibly none, and its time.  A position  *)
(* is the global index of a transaction, which orders positions exactly as *)
(* the code's boundary ordinals do.  OffClock stands for the two errors,   *)
(* SETTLEMENT_TAIL_EXHAUSTED and DURATION_TARGET_OUTSIDE_CLOCK: no later   *)
(* call turns it into a position again.                                    *)
(***************************************************************************)
EXTENDS Integers, Sequences, FiniteSetsExt

OffClock == -1

\* A clock as __post_init__ admits it: arrays of one length, counts from 0, a
\* prefix that adds them up, times that never regress.  The prefix has one
\* entry more than the code's, the total.
IsClock(c) ==
    /\ c.blocks \in Nat \ {0}
    /\ c.count \in [1 .. c.blocks -> Nat]
    /\ c.time \in [1 .. c.blocks -> Nat]
    /\ c.prefix \in [1 .. c.blocks + 1 -> Nat]
    /\ c.prefix[1] = 0
    /\ \A b \in 1 .. c.blocks : c.prefix[b + 1] = c.prefix[b] + c.count[b]
    /\ \A b \in 1 .. c.blocks - 1 : c.time[b] <= c.time[b + 1]

TransactionCount(c) == c.prefix[c.blocks + 1]

Positions(c) == 0 .. TransactionCount(c) - 1

\* require_position: the block that holds a position.
BlockOf(c, position) ==
    CHOOSE b \in 1 .. c.blocks :
        c.prefix[b] <= position /\ position < c.prefix[b + 1]

TimeOf(c, position) == c.time[BlockOf(c, position)]

\* transaction_after: exactly delay transactions later, on any block.
TransactionAfter(c, position, delay) ==
    IF position # OffClock /\ position + delay < TransactionCount(c)
    THEN position + delay ELSE OffClock

\* first_nonempty_transaction_at_or_after: the first transaction of the first
\* later block that is not empty and not before the target time.
FirstAtOrAfter(c, position, time) ==
    LET due == {b \in BlockOf(c, position) + 1 .. c.blocks :
                    c.count[b] > 0 /\ c.time[b] >= time}
    IN  IF due = {} THEN OffClock ELSE c.prefix[Min(due)]

\* holding_deadline: a duration after a position, on a later block.
HoldingDeadline(c, position, duration) ==
    IF position = OffClock THEN OffClock
    ELSE FirstAtOrAfter(c, position, TimeOf(c, position) + duration)
=============================================================================
