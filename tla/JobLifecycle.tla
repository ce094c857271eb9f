----------------------------- MODULE JobLifecycle -----------------------------
(***************************************************************************)
(* What the durable queue promises about one job, without versions, rows,  *)
(* leases or clocks: a job waits, is held by exactly one fresh attempt,    *)
(* and ends once.  A cancel request is never followed by a success or by   *)
(* another automatic attempt.  JobQueue is shown to implement this.        *)
(***************************************************************************)
CONSTANTS Jobs, Attempts, None

VARIABLES
    status,     \* Jobs -> the phase of the job
    holder,     \* Jobs -> the attempt that may still decide the job, or None
    withdrawn,  \* Jobs -> a cancel request is outstanding
    spent       \* attempts that have ended and may never act again

vars == <<status, holder, withdrawn, spent>>

Phases == {"unknown", "waiting", "active", "succeeded", "failed", "cancelled"}

TypeOK ==
    /\ status \in [Jobs -> Phases]
    /\ holder \in [Jobs -> Attempts \cup {None}]
    /\ withdrawn \in [Jobs -> BOOLEAN]
    /\ spent \subseteq Attempts

Init ==
    /\ status = [j \in Jobs |-> "unknown"]
    /\ holder = [j \in Jobs |-> None]
    /\ withdrawn = [j \in Jobs |-> FALSE]
    /\ spent = {}

Submit(j) ==
    /\ status[j] = "unknown"
    /\ status' = [status EXCEPT ![j] = "waiting"]
    /\ UNCHANGED <<holder, withdrawn, spent>>

\* A waiting job is handed to an attempt that was never used before.
Start(j, a) ==
    /\ status[j] = "waiting"
    /\ a \notin spent
    /\ \A k \in Jobs : holder[k] # a
    /\ status' = [status EXCEPT ![j] = "active"]
    /\ holder' = [holder EXCEPT ![j] = a]
    /\ UNCHANGED <<withdrawn, spent>>

\* A cancel request ends a waiting job; an active one is only marked.
Withdraw(j) ==
    /\ status[j] \in {"waiting", "active"}
    /\ ~withdrawn[j]
    /\ withdrawn' = [withdrawn EXCEPT ![j] = TRUE]
    /\ status' = [status EXCEPT ![j] = IF @ = "waiting" THEN "cancelled" ELSE @]
    /\ UNCHANGED <<holder, spent>>

\* Only the holder decides an active job, and its decision spends it.
Decide(j, outcome) ==
    /\ status[j] = "active"
    /\ outcome = "succeeded" => ~withdrawn[j]
    /\ outcome = "waiting" => ~withdrawn[j]
    /\ outcome = "cancelled" => withdrawn[j]
    /\ status' = [status EXCEPT ![j] = outcome]
    /\ holder' = [holder EXCEPT ![j] = None]
    /\ spent' = spent \cup {holder[j]}
    /\ UNCHANGED withdrawn

\* An operator reopens a failed job; the old attempts stay spent.
Reopen(j) ==
    /\ status[j] = "failed"
    /\ status' = [status EXCEPT ![j] = "waiting"]
    /\ withdrawn' = [withdrawn EXCEPT ![j] = FALSE]
    /\ UNCHANGED <<holder, spent>>

Next ==
    \E j \in Jobs :
        \/ Submit(j)
        \/ \E a \in Attempts : Start(j, a)
        \/ Withdraw(j)
        \/ \E outcome \in {"waiting", "succeeded", "failed", "cancelled"} : Decide(j, outcome)
        \/ Reopen(j)

Spec == Init /\ [][Next]_vars
===============================================================================
