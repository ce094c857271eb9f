-------------------------- MODULE CopyTradingProofs --------------------------
(* Theorems about the copy-trading engine, for every value of the constants,  *)
(* and about both engines together.                                           *)
EXTENDS Trading, SnipingProofs

-------------------------------------------------------------------------------
(* The inductive invariant.                                                   *)

CopyStatuses ==
    {"UNSEEN", "IGNORED", "BUY_PENDING", "BUY_FAILED", "OPEN", "SELL_PENDING", "RETRY_WAIT",
     "EXHAUSTED", "CLOSED"}

AtCopyBoundary == stage \in {"callbacks", "requests", "landings"}

Controls == [exit : BOOLEAN, attempts : Nat, deadline : Int, retry : Int]

\* What is asked for in this boundary.
Asked == {requests[i] : i \in DOMAIN requests}

\* Callbacks and requests are those of the boundary in hand.
CopyTyped ==
    /\ now \in Positions(run.clock) \cup {-1}
    /\ stage \in {"preflight", "refused", "select", "callbacks", "requests", "landings", "done"}
    /\ AtCopyBoundary => now \in Positions(run.clock)
    /\ status \in [Trips -> CopyStatuses]
    /\ control \in [Trips -> Controls]
    /\ live = {t \in Trips : status[t] \in {"BUY_PENDING", "OPEN", "SELL_PENDING", "RETRY_WAIT"}}
    /\ HeapTyped
    /\ requests \in Seq([trip : Trips, buy : BOOLEAN])
    /\ \A c \in callbacks : c.trip \in Trips
    /\ stage # "callbacks" => callbacks = {}
    /\ stage \notin {"callbacks", "requests"} => requests = <<>>
    /\ stage = "done" => live = {}

\* What the preflight promised: a copied signal is settled on the clock, even if
\* every attempt to sell fails.
MaximumsFit ==
    stage \notin {"preflight", "refused"} =>
        \A t \in Trips : InRange(t) => MaximumSettlement(t) # OffClock

\* Nothing is overdue, only orders are due now, and nothing before the preflight.
CopyOnTime ==
    /\ \A a \in scheduled :
        a.release > now \/ (AtCopyBoundary /\ a.phase = Landing /\ a.release = now)
    /\ stage \in {"preflight", "refused"} => scheduled = {}

\* The latest landings of the attempts to sell what is bought at a position.
LandingsFrom(c, bought) ==
    CHOOSE landing : landing = [n \in 1 .. MaximumSellAttempts |->
        IF n = 1 THEN TransactionAfter(c, HoldingDeadline(c, bought, HoldTime), SellDelay)
        ELSE TransactionAfter(c, HoldingDeadline(c, landing[n - 1], RetryDelay), SellDelay)]

Landings(t) == LandingsFrom(run.clock, BoughtAt(t))

\* The latest decision of an attempt.
LastDecision(t, n) ==
    IF n = 1 THEN HoldingDeadline(run.clock, BoughtAt(t), HoldTime)
    ELSE HoldingDeadline(run.clock, Landings(t)[n - 1], RetryDelay)

\* The entry of a mint is decided once, in the decision range.
Entered(t) == status[t] \notin {"UNSEEN", "IGNORED"}

OneEntryEach ==
    /\ \A t, u \in Trips : Entered(t) /\ Entered(u) /\ run.mint[t] = run.mint[u] => t = u
    /\ \A t \in Trips : Entered(t) => InRange(t)

\* A position asks for one order in a boundary, and a signal is delivered once.
OneRequestEach ==
    /\ \A i, j \in DOMAIN requests : requests[i].trip = requests[j].trip => i = j
    /\ \A c, d \in callbacks :
            c.kind = "SIGNAL" /\ d.kind = "SIGNAL" /\ c.trip = d.trip => c = d

Holding(t) == status[t] \in {"OPEN", "RETRY_WAIT"}

\* When a position that is held must be sold.
Limit(t) == IF status[t] = "OPEN" THEN control[t].deadline ELSE control[t].retry

\* How far a position has come.
InPosition(t) ==
    /\ status[t] \in {"UNSEEN", "IGNORED", "BUY_PENDING"} =>
            Untouched(t) /\ openMints[run.mint[t]] # t
    /\ status[t] \in {"UNSEEN", "BUY_PENDING", "OPEN"} => control[t].attempts = 0
    /\ status[t] \in {"OPEN", "RETRY_WAIT", "SELL_PENDING"} => openMints[run.mint[t]] = t
    /\ status[t] \in {"RETRY_WAIT", "SELL_PENDING"} =>
            control[t].exit /\ control[t].attempts \in 1 .. MaximumSellAttempts
    /\ Holding(t) =>
            /\ control[t].attempts < MaximumSellAttempts
            /\ Limit(t) \in Positions(run.clock)
            /\ Limit(t) <= LastDecision(t, control[t].attempts + 1)

\* An order is its position's, and lands no later than the preflight expected.
OrdersFit(t) ==
    \A a \in Orders : a.trip = t =>
        \/ a.kind = "BUY_LANDING" /\ status[t] = "BUY_PENDING" /\ a.release = BoughtAt(t)
        \/ /\ a.kind = "SELL_LANDING" /\ status[t] = "SELL_PENDING"
           /\ a.release <= Landings(t)[control[t].attempts]

\* A request is one that its position may make.
RequestsFit(t) ==
    \A r \in Asked : r.trip = t =>
        IF r.buy
        THEN /\ status[t] = "BUY_PENDING" /\ run.launch[t] + ObservationDelay = now
             /\ \A a \in Orders : a.trip # t
        ELSE Holding(t) /\ control[t].exit /\ now <= Limit(t)

\* A signal that is delivered was not seen before.
SignalsFit(t) ==
    \A c \in callbacks : c.trip = t /\ c.kind = "SIGNAL" =>
        status[t] = "UNSEEN" /\ run.launch[t] + ObservationDelay = now

\* At this position the position asks for its sell.
Sells(t, p) ==
    /\ p <= Limit(t)
    /\ status[t] = "OPEN" => control[t].exit \/ p >= control[t].deadline
    /\ status[t] = "RETRY_WAIT" => p >= control[t].retry

\* What will become of a position that is live.
Pursued(t) ==
    /\ status[t] = "BUY_PENDING" => (\E a \in Orders : a.trip = t) \/ (\E r \in Asked : r.trip = t)
    /\ status[t] = "SELL_PENDING" => \E a \in Orders : a.trip = t
    /\ Holding(t) =>
        \/ \E a \in scheduled : a.phase = Decision /\ a.trip = t /\ Sells(t, a.release)
        \/ \E c \in callbacks : c.kind = "EXIT" /\ c.trip = t /\ Sells(t, now)
        \/ \E r \in Asked : r.trip = t

Copied(t) == InPosition(t) /\ OrdersFit(t) /\ RequestsFit(t) /\ SignalsFit(t) /\ Pursued(t)

CopyInv ==
    /\ run.engine = "copy" /\ raised = None
    /\ Books
    /\ CopyTyped
    /\ MaximumsFit
    /\ CopyOnTime
    /\ OneEntryEach
    /\ OneRequestEach
    /\ \A t \in Trips : Copied(t)

TradingInv ==
    \/ SnipingInv
    \/ CopyInv

-------------------------------------------------------------------------------
(* The settlement of a copied signal (maximum_copy_settlement_position).       *)

\* What the n-th landing is, given the ones before it.
NextLanding(c, bought, landing, n) ==
    IF n = 1 THEN TransactionAfter(c, HoldingDeadline(c, bought, HoldTime), SellDelay)
    ELSE TransactionAfter(c, HoldingDeadline(c, landing[n - 1], RetryDelay), SellDelay)

\* There are such landings.
LEMMA LandingsExist ==
    ASSUME NEW c, NEW bought, NEW m \in Nat
    PROVE  \E f : f = [n \in 1 .. m |-> NextLanding(c, bought, f, n)]
  <1>p. PICK P : P = {k \in Nat : \E f : f = [n \in 1 .. k |-> NextLanding(c, bought, f, n)]}
    OBVIOUS
  <1>1. 0 \in P
    <2>f. PICK f : f = [n \in 1 .. 0 |-> 0]
      OBVIOUS
    <2>1. f = [n \in 1 .. 0 |-> NextLanding(c, bought, f, n)]
      BY <2>f
    <2> QED BY <1>p, <2>1
  <1>2. ASSUME NEW k \in P PROVE k + 1 \in P
    <2>1. k \in Nat /\ k + 1 \in Nat
      BY <1>p
    <2>f. PICK f : f = [n \in 1 .. k |-> NextLanding(c, bought, f, n)]
      BY <1>p
    <2>g. PICK g : g = [n \in 1 .. k + 1 |->
                            IF n \in 1 .. k THEN f[n] ELSE NextLanding(c, bought, f, n)]
      OBVIOUS
    <2>2. ASSUME NEW n \in 1 .. k + 1 PROVE g[n] = NextLanding(c, bought, f, n)
      BY <2>f, <2>g
    <2>3. ASSUME NEW n \in 1 .. k + 1, n # 1 PROVE g[n - 1] = f[n - 1]
      <3>1. n - 1 \in 1 .. k /\ n - 1 \in 1 .. k + 1
        BY <2>1, <2>3
      <3> QED BY <2>g, <3>1
    <2>4. ASSUME NEW n \in 1 .. k + 1
          PROVE  NextLanding(c, bought, g, n) = NextLanding(c, bought, f, n)
      BY <2>3 DEF NextLanding
    <2>5. g = [n \in 1 .. k + 1 |-> g[n]]
      BY <2>g
    <2>6. g = [n \in 1 .. k + 1 |-> NextLanding(c, bought, g, n)]
      BY <2>2, <2>4, <2>5
    <2> QED BY <1>p, <2>1, <2>6
  <1>3. P = Nat
    <2>1. P \in SUBSET Nat
      BY <1>p
    <2> QED BY <1>1, <1>2, <2>1, NatSetInduction
  <1> QED BY <1>p, <1>3

\* What the landings are, one after the other.
LEMMA LandingsUnfold ==
    ASSUME NEW c, NEW bought, NEW n \in 1 .. MaximumSellAttempts
    PROVE  LandingsFrom(c, bought)[n] = NextLanding(c, bought, LandingsFrom(c, bought), n)
  <1>1. \E f : f = [k \in 1 .. MaximumSellAttempts |-> NextLanding(c, bought, f, k)]
    BY LandingsExist, CopyPolicy, ZenonT(40)
  <1>2. LandingsFrom(c, bought) =
            CHOOSE f : f = [k \in 1 .. MaximumSellAttempts |-> NextLanding(c, bought, f, k)]
    BY DEF LandingsFrom, NextLanding
  <1>3. LandingsFrom(c, bought) =
            [k \in 1 .. MaximumSellAttempts |-> NextLanding(c, bought, LandingsFrom(c, bought), k)]
    BY <1>1, <1>2, Zenon
  <1> QED BY <1>3, Zenon

\* The preflight looks at the last of them.
LEMMA MaximumIsLast ==
    ASSUME NEW t PROVE MaximumSettlement(t) = Landings(t)[MaximumSellAttempts]
  BY DEF MaximumSettlement, Landings, LandingsFrom, SoldAfter

\* Each follows from the latest decision of its attempt.
LEMMA LandingsFollow ==
    ASSUME NEW t, NEW n \in 1 .. MaximumSellAttempts
    PROVE  Landings(t)[n] = TransactionAfter(run.clock, LastDecision(t, n), SellDelay)
  BY LandingsUnfold DEF Landings, LastDecision, NextLanding

\* A settlement that ends on the clock has every boundary of it on the clock, each
\* later than the one before.
LEMMA SettlementsOnClock ==
    ASSUME run \in Runs, NEW t \in Trips, MaximumSettlement(t) # OffClock
    PROVE  /\ BoughtAt(t) \in Positions(run.clock)
           /\ BoughtAt(t) = run.launch[t] + ObservationDelay + BuyDelay
           /\ \A n \in 1 .. MaximumSellAttempts :
                /\ LastDecision(t, n) \in Positions(run.clock)
                /\ Landings(t)[n] \in Positions(run.clock)
                /\ LastDecision(t, n) < Landings(t)[n]
  <1> DEFINE c == run.clock
             L == Landings(t)
  <1>1. IsClock(c) /\ run.launch[t] \in Positions(c) /\ \A p \in Positions(c) : p \in Nat
    BY RunFacts DEF Positions
  <1>2. ASSUME NEW n \in 1 .. MaximumSellAttempts, L[n] # OffClock, n # 1
        PROVE  L[n - 1] # OffClock
    BY <1>2, LandingsFollow, OffStaysOff DEF LastDecision
  <1>p. PICK P : P = {k \in Nat : k < MaximumSellAttempts => L[MaximumSellAttempts - k] # OffClock}
    OBVIOUS
  <1>3. P = Nat
    <2>1. 0 \in P
      BY <1>p, MaximumIsLast, CopyPolicy
    <2>2. ASSUME NEW k \in P PROVE k + 1 \in P
      <3>1. k \in Nat /\ (k < MaximumSellAttempts => L[MaximumSellAttempts - k] # OffClock)
        BY <1>p
      <3>2. SUFFICES ASSUME k + 1 < MaximumSellAttempts
                     PROVE  L[MaximumSellAttempts - (k + 1)] # OffClock
        BY <1>p, <3>1
      <3>3. /\ MaximumSellAttempts - k \in 1 .. MaximumSellAttempts
            /\ MaximumSellAttempts - k # 1 /\ k < MaximumSellAttempts
            /\ (MaximumSellAttempts - k) - 1 = MaximumSellAttempts - (k + 1)
        BY <3>1, <3>2, CopyPolicy
      <3> QED BY <1>2, <3>1, <3>3
    <2>3. P \in SUBSET Nat
      BY <1>p
    <2> QED BY <2>1, <2>2, <2>3, NatSetInduction
  <1>4. ASSUME NEW n \in 1 .. MaximumSellAttempts PROVE L[n] # OffClock
    <2>1. MaximumSellAttempts - n \in Nat /\ MaximumSellAttempts - n < MaximumSellAttempts
          /\ MaximumSellAttempts - (MaximumSellAttempts - n) = n
      BY CopyPolicy
    <2> QED BY <1>p, <1>3, <2>1
  <1>5. BoughtAt(t) # OffClock
    <2>1. 1 \in 1 .. MaximumSellAttempts
      BY CopyPolicy
    <2> QED BY <1>4, <2>1, LandingsFollow, OffStaysOff DEF LastDecision
  <1>6. BoughtAt(t) \in Positions(c) /\ BoughtAt(t) = run.launch[t] + ObservationDelay + BuyDelay
    <2>d. PICK d : d = IF ObservationDelay = 0 THEN run.launch[t]
                       ELSE TransactionAfter(c, run.launch[t], ObservationDelay)
      OBVIOUS
    <2>1. BoughtAt(t) = TransactionAfter(c, d, BuyDelay)
      BY <2>d DEF BoughtAt
    <2>2. d # OffClock
      BY <1>5, <2>1, OffStaysOff
    <2>3. d \in Nat /\ d = run.launch[t] + ObservationDelay
      <3>1. CASE ObservationDelay = 0
        BY <1>1, <2>d, <3>1
      <3>2. CASE ObservationDelay # 0
        <4>1. d = TransactionAfter(c, run.launch[t], ObservationDelay)
          BY <2>d, <3>2
        <4>2. d = run.launch[t] + ObservationDelay /\ d \in Positions(c)
          BY <1>1, <2>2, <4>1, AfterIsLater, CopyPolicy
        <4> QED BY <1>1, <4>2
      <3> QED BY <3>1, <3>2
    <2>4. BoughtAt(t) = d + BuyDelay /\ BoughtAt(t) \in Positions(c)
      BY <1>1, <1>5, <2>1, <2>3, AfterIsLater, DelaysArePositive
    <2> QED BY <2>3, <2>4
  <1>7. ASSUME NEW n \in 1 .. MaximumSellAttempts, LastDecision(t, n) \in Positions(c)
        PROVE  L[n] \in Positions(c) /\ LastDecision(t, n) < L[n]
    <2>1. L[n] = TransactionAfter(c, LastDecision(t, n), SellDelay) /\ L[n] # OffClock
      BY <1>4, LandingsFollow
    <2>2. L[n] = LastDecision(t, n) + SellDelay /\ L[n] \in Positions(c)
      BY <1>1, <1>7, <2>1, AfterIsLater, DelaysArePositive
    <2> QED BY <1>1, <1>7, <2>2, DelaysArePositive
  <1>8. ASSUME NEW n \in 1 .. MaximumSellAttempts PROVE LastDecision(t, n) # OffClock
    BY <1>4, LandingsFollow, OffStaysOff
  <1>9. ASSUME NEW n \in 1 .. MaximumSellAttempts PROVE LastDecision(t, n) \in Positions(c)
    <2>p. PICK Q : Q = {k \in Nat : k + 1 <= MaximumSellAttempts =>
                                        LastDecision(t, k + 1) \in Positions(c)}
      OBVIOUS
    <2>1. 0 \in Q
      <3>1. 1 \in 1 .. MaximumSellAttempts
        BY CopyPolicy
      <3>2. LastDecision(t, 1) = HoldingDeadline(c, BoughtAt(t), HoldTime)
        BY DEF LastDecision
      <3>3. LastDecision(t, 1) \in Positions(c)
        BY <1>1, <1>6, <1>8, <3>1, <3>2, HoldingIsLater, AmountsAreNatural
      <3> QED BY <2>p, <3>3
    <2>2. ASSUME NEW k \in Q PROVE k + 1 \in Q
      <3>1. k \in Nat /\ (k + 1 <= MaximumSellAttempts => LastDecision(t, k + 1) \in Positions(c))
        BY <2>p
      <3>2. SUFFICES ASSUME (k + 1) + 1 <= MaximumSellAttempts
                     PROVE  LastDecision(t, (k + 1) + 1) \in Positions(c)
        BY <2>p, <3>1
      <3>3. /\ k + 1 \in 1 .. MaximumSellAttempts /\ (k + 1) + 1 \in 1 .. MaximumSellAttempts
            /\ (k + 1) + 1 # 1 /\ ((k + 1) + 1) - 1 = k + 1
        BY <3>1, <3>2, CopyPolicy
      <3>4. L[k + 1] \in Positions(c)
        BY <1>7, <3>1, <3>3
      <3>5. LastDecision(t, (k + 1) + 1) = HoldingDeadline(c, L[k + 1], RetryDelay)
        BY <3>3 DEF LastDecision
      <3> QED BY <1>1, <1>8, <3>3, <3>4, <3>5, HoldingIsLater, CopyPolicy
    <2>3. Q = Nat
      <3>1. Q \in SUBSET Nat
        BY <2>p
      <3> QED BY <2>1, <2>2, <3>1, NatSetInduction
    <2>4. n - 1 \in Nat /\ (n - 1) + 1 = n /\ n <= MaximumSellAttempts
      BY CopyPolicy
    <2> QED BY <2>p, <2>3, <2>4
  <1> QED BY <1>6, <1>7, <1>9

\* What is fixed with the inputs of the run.
LEMMA CopyRunStays ==
    ASSUME run' = run
    PROVE  /\ \A t : /\ InRange(t)' = InRange(t) /\ MaximumSettlement(t)' = MaximumSettlement(t)
                     /\ BoughtAt(t)' = BoughtAt(t) /\ Landings(t)' = Landings(t)
                     /\ \A n : LastDecision(t, n)' = LastDecision(t, n)
           /\ Positions(run.clock)' = Positions(run.clock)
  <1>1. \A t : InRange(t)' = InRange(t) /\ BoughtAt(t)' = BoughtAt(t)
    BY DEF InRange, BoughtAt
  <1>2. \A t : Landings(t)' = Landings(t)
    BY <1>1 DEF Landings
  <1>3. \A t : MaximumSettlement(t)' = MaximumSettlement(t)
    <2>1. \A t : MaximumSettlement(t) = Landings(t)[MaximumSellAttempts]
      BY MaximumIsLast
    <2>2. \A t : MaximumSettlement(t)' = Landings(t)'[MaximumSellAttempts]
      BY DEF MaximumSettlement, Landings, LandingsFrom, SoldAfter
    <2> QED BY <1>2, <2>1, <2>2
  <1>4. \A t, n : LastDecision(t, n)' = LastDecision(t, n)
    BY <1>1, <1>2 DEF LastDecision
  <1> QED BY <1>1, <1>2, <1>3, <1>4 DEF Positions, TransactionCount

-------------------------------------------------------------------------------
(* What the steps have in common.                                             *)

\* A trip that a step does not touch is as it was.
LEMMA OthersStay ==
    ASSUME NEW u \in Trips, Copied(u), run' = run, now' = now,
           status'[u] = status[u], control'[u] = control[u], trip'[u] = trip[u],
           \/ openMints'[run.mint[u]] = openMints[run.mint[u]]
           \/ /\ status[u] \notin {"OPEN", "RETRY_WAIT", "SELL_PENDING"}
              /\ openMints'[run.mint[u]] # u,
           \A a : a.trip = u => (a \in scheduled' <=> a \in scheduled),
           \A c : c.trip = u => (c \in callbacks' <=> c \in callbacks),
           \A r : r.trip = u => (r \in Asked' <=> r \in Asked)
    PROVE  Copied(u)'
  <1>r. /\ BoughtAt(u)' = BoughtAt(u) /\ Landings(u)' = Landings(u)
        /\ \A n : LastDecision(u, n)' = LastDecision(u, n)
        /\ Positions(run.clock)' = Positions(run.clock)
    BY CopyRunStays
  <1>o. \A a : a.trip = u => (a \in Orders' <=> a \in Orders)
    BY DEF Orders
  <1>l. Limit(u)' = Limit(u) /\ Holding(u)' = Holding(u) /\ Untouched(u)' = Untouched(u)
    BY DEF Limit, Holding, Untouched
  <1>1. InPosition(u)'
    BY <1>r, <1>l DEF Copied, InPosition
  <1>2. OrdersFit(u)'
    BY <1>r, <1>o DEF Copied, OrdersFit
  <1>3. RequestsFit(u)'
    BY <1>l, <1>o DEF Copied, RequestsFit
  <1>4. SignalsFit(u)'
    BY DEF Copied, SignalsFit
  <1>5. \A p : Sells(u, p)' = Sells(u, p)
    BY <1>l DEF Sells
  <1>6. Pursued(u)'
    <2>1. status[u] = "BUY_PENDING" => (\E a \in Orders' : a.trip = u) \/ (\E r \in Asked' : r.trip = u)
      BY <1>o DEF Copied, Pursued
    <2>2. status[u] = "SELL_PENDING" => \E a \in Orders' : a.trip = u
      BY <1>o DEF Copied, Pursued
    <2>3. Holding(u) =>
            \/ \E a \in scheduled' : a.phase = Decision /\ a.trip = u /\ Sells(u, a.release)
            \/ \E c \in callbacks' : c.kind = "EXIT" /\ c.trip = u /\ Sells(u, now)
            \/ \E r \in Asked' : r.trip = u
      BY DEF Copied, Pursued
    <2> QED BY <1>l, <1>5, <2>1, <2>2, <2>3 DEF Pursued
  <1> QED BY <1>1, <1>2, <1>3, <1>4, <1>6 DEF Copied

\* Nothing but one trip is touched.
OthersKept(t) ==
    /\ \A u \in Trips \ {t} :
        /\ status'[u] = status[u] /\ control'[u] = control[u] /\ trip'[u] = trip[u]
        /\ \/ openMints'[run.mint[u]] = openMints[run.mint[u]]
           \/ /\ status[u] \notin {"OPEN", "RETRY_WAIT", "SELL_PENDING"}
              /\ openMints'[run.mint[u]] # u
    /\ \A a : a.trip # t => (a \in scheduled' <=> a \in scheduled)
    /\ \A c : c.trip # t => (c \in callbacks' <=> c \in callbacks)
    /\ \A r : r.trip # t => (r \in Asked' <=> r \in Asked)
    /\ callbacks' \subseteq callbacks

\* The requests stay well formed.
RequestsKept ==
    /\ requests' \in Seq([trip : Trips, buy : BOOLEAN])
    /\ stage \notin {"callbacks", "requests"} => requests' = <<>>
    /\ \A i, j \in DOMAIN requests' : requests'[i].trip = requests'[j].trip => i = j

\* A trip moves on within a boundary, and the others stay.
LEMMA CopyMoves ==
    ASSUME CopyInv, AtCopyBoundary, UNCHANGED <<run, now, stage, raised>>, NEW t \in Trips,
           Books', HeapTyped', \A a \in scheduled' : a \in scheduled \/ a.release > now,
           status' \in [Trips -> CopyStatuses], control' \in [Trips -> Controls],
           live' = {u \in Trips : status'[u] \in {"BUY_PENDING", "OPEN", "SELL_PENDING", "RETRY_WAIT"}},
           OthersKept(t), RequestsKept,
           Entered(t)' => InRange(t) /\ \A u \in Trips \ {t} : Entered(u) => run.mint[u] # run.mint[t],
           Copied(t)'
    PROVE  CopyInv'
  <1>r. \A u : InRange(u)' = InRange(u) /\ MaximumSettlement(u)' = MaximumSettlement(u)
    BY CopyRunStays
  <1>p. Positions(run.clock)' = Positions(run.clock) /\ AtCopyBoundary' = AtCopyBoundary
    BY CopyRunStays DEF AtCopyBoundary
  <1>1. CopyTyped'
    BY <1>p DEF CopyInv, CopyTyped, OthersKept, RequestsKept, AtCopyBoundary
  <1>2. MaximumsFit'
    BY <1>r DEF CopyInv, MaximumsFit
  <1>3. CopyOnTime'
    BY <1>p DEF CopyInv, CopyOnTime, AtCopyBoundary
  <1>4. OneEntryEach'
    <2>1. \A u \in Trips \ {t} : Entered(u)' = Entered(u)
      BY DEF OthersKept, Entered
    <2> QED BY <1>r, <2>1 DEF CopyInv, OneEntryEach
  <1>5. OneRequestEach'
    BY DEF CopyInv, OneRequestEach, OthersKept, RequestsKept
  <1>6. ASSUME NEW u \in Trips \ {t} PROVE Copied(u)'
    <2>1. Copied(u)
      BY DEF CopyInv
    <2>2. /\ status'[u] = status[u] /\ control'[u] = control[u] /\ trip'[u] = trip[u]
          /\ \/ openMints'[run.mint[u]] = openMints[run.mint[u]]
             \/ /\ status[u] \notin {"OPEN", "RETRY_WAIT", "SELL_PENDING"}
                /\ openMints'[run.mint[u]] # u
      BY DEF OthersKept
    <2>3. /\ \A a : a.trip = u => (a \in scheduled' <=> a \in scheduled)
          /\ \A c : c.trip = u => (c \in callbacks' <=> c \in callbacks)
          /\ \A r : r.trip = u => (r \in Asked' <=> r \in Asked)
      BY DEF OthersKept
    <2> QED BY <2>1, <2>2, <2>3, OthersStay
  <1> QED BY <1>1, <1>2, <1>3, <1>4, <1>5, <1>6 DEF CopyInv

\* What the steps between the phases have in common.
LEMMA CopyStageMoves ==
    ASSUME CopyInv,
           UNCHANGED <<run, books, trip, status, live, scheduled, now, raised, control, callbacks,
                       requests>>,
           stage' \in {"preflight", "refused", "select", "callbacks", "requests", "landings", "done"},
           AtCopyBoundary' => now \in Positions(run.clock),
           stage' # "callbacks" => callbacks = {},
           stage' \notin {"callbacks", "requests"} => requests = <<>>,
           stage' = "done" => live = {},
           MaximumsFit', CopyOnTime'
    PROVE  CopyInv'
  <1>r. /\ \A u : InRange(u)' = InRange(u) /\ Entered(u)' = Entered(u)
        /\ Positions(run.clock)' = Positions(run.clock)
    BY CopyRunStays DEF Entered
  <1>1. Books'
    <2>1. Orders' = Orders
      BY DEF Orders
    <2> QED BY <2>1, BooksStay DEF CopyInv
  <1>2. HeapTyped'
    BY <1>r DEF HeapTyped, CopyInv, CopyTyped
  <1>3. CopyTyped'
    BY <1>r, <1>2 DEF CopyInv, CopyTyped
  <1>4. OneEntryEach' /\ OneRequestEach'
    BY <1>r DEF CopyInv, OneEntryEach, OneRequestEach
  <1>5. ASSUME NEW u \in Trips PROVE Copied(u)'
    <2>1. Copied(u) /\ Asked' = Asked
      BY DEF CopyInv, Asked
    <2> QED BY <2>1, OthersStay DEF books
  <1> QED BY <1>1, <1>3, <1>4, <1>5 DEF CopyInv

-------------------------------------------------------------------------------
(* The loop over boundaries.                                                  *)

\* The preflight admits a run only if every signal that may be copied is settled on
\* the clock.
LEMMA CopyPreflightKeeps == CopyInv /\ CopyPreflight => CopyInv'
  <1> SUFFICES ASSUME CopyInv, CopyPreflight PROVE CopyInv'
    OBVIOUS
  <1>1. /\ UNCHANGED <<run, books, trip, status, live, scheduled, now, raised, control, callbacks,
                       requests>>
        /\ stage = "preflight" /\ stage' \in {"refused", "select"}
        /\ stage' = "select" => \A t \in Trips : ~ (InRange(t) /\ MaximumSettlement(t) = OffClock)
    BY DEF CopyPreflight, Reached, CopyEnter, Enter
  <1>2. MaximumsFit'
    BY <1>1, CopyRunStays DEF MaximumsFit
  <1>3. CopyOnTime' /\ ~ AtCopyBoundary' /\ callbacks = {} /\ requests = <<>>
    BY <1>1 DEF CopyInv, CopyTyped, CopyOnTime, AtCopyBoundary
  <1> QED BY <1>1, <1>2, <1>3, CopyStageMoves

\* Whatever is live has something ahead of it.
LEMMA LiveIsAhead ==
    ASSUME CopyInv, stage = "select", NEW t \in live
    PROVE  \E a \in scheduled : a.trip = t /\ a.release > now
  <1>1. /\ status[t] \in {"BUY_PENDING", "OPEN", "SELL_PENDING", "RETRY_WAIT"} /\ t \in Trips
        /\ callbacks = {} /\ Asked = {} /\ Pursued(t)
    BY DEF CopyInv, CopyTyped, Asked, Copied
  <1>2. \E a \in scheduled : a.trip = t
    BY <1>1 DEF Pursued, Holding, Orders
  <1>3. \A a \in scheduled : a.release > now
    BY DEF CopyInv, CopyOnTime, AtCopyBoundary
  <1> QED BY <1>2, <1>3

\* A run is done when nothing is left to do, and then no position is live.
LEMMA FinishCopyRunKeeps == CopyInv /\ FinishCopyRun => CopyInv'
  <1> SUFFICES ASSUME CopyInv, FinishCopyRun PROVE CopyInv'
    OBVIOUS
  <1>1. stage = "select" /\ scheduled = {}
    BY DEF FinishCopyRun, Reached, DueBoundaries
  <1>2. live = {}
    BY <1>1, LiveIsAhead
  <1>3. /\ UNCHANGED <<run, books, trip, status, live, scheduled, now, raised, control, callbacks,
                       requests>>
        /\ stage' = "done"
    BY <1>2 DEF FinishCopyRun, CopyEnter, Enter
  <1>4. MaximumsFit'
    BY <1>1, <1>3, CopyRunStays DEF MaximumsFit, CopyInv
  <1>5. CopyOnTime' /\ ~ AtCopyBoundary' /\ callbacks = {} /\ requests = <<>>
    BY <1>1, <1>3 DEF CopyInv, CopyTyped, CopyOnTime, AtCopyBoundary
  <1> QED BY <1>2, <1>3, <1>4, <1>5, CopyStageMoves

\* A phase of a boundary ends when nothing of it is left.
LEMMA CopyPhasesEnd ==
    CopyInv /\ (EndCallbacks \/ EndRequests \/ EndCopyLandings) => CopyInv'
  <1> SUFFICES ASSUME CopyInv, EndCallbacks \/ EndRequests \/ EndCopyLandings PROVE CopyInv'
    OBVIOUS
  <1>1. /\ UNCHANGED <<run, books, trip, status, live, scheduled, now, raised, control, callbacks,
                       requests>>
        /\ stage' \in {"requests", "landings", "select"} /\ AtCopyBoundary
    BY DEF EndCallbacks, EndRequests, EndCopyLandings, Reached, CopyEnter, Enter, AtCopyBoundary
  <1>2. now \in Positions(run.clock) /\ now \in Nat
    BY <1>1 DEF CopyInv, CopyTyped, Positions
  <1>3. callbacks = {} /\ (stage' # "requests" => requests = <<>>)
    BY DEF EndCallbacks, EndRequests, EndCopyLandings, Reached, CopyEnter, Enter, CopyInv, CopyTyped
  <1>4. MaximumsFit'
    BY <1>1, CopyRunStays DEF MaximumsFit, CopyInv, AtCopyBoundary
  <1>5. CopyOnTime'
    <2>1. CASE stage' \in {"requests", "landings"}
      BY <1>1, <2>1 DEF CopyInv, CopyOnTime, AtCopyBoundary
    <2>2. CASE stage' = "select"
      <3>1. DueUpTo(Landing) = {}
        BY <2>2 DEF EndCallbacks, EndRequests, EndCopyLandings, CopyEnter, Enter
      <3>2. HeapTyped /\ \A a \in scheduled : a.release \in Nat
        BY DEF CopyInv, CopyTyped, HeapTyped, Positions
      <3>3. \A a \in scheduled : a.release > now \/ (a.phase = Landing /\ a.release = now)
        BY DEF CopyInv, CopyOnTime
      <3>4. \A a \in scheduled : a.release >= now
        BY <1>2, <3>2, <3>3
      <3>5. Landing \in Int /\ now \in Int /\ Landing <= Landing
        BY <1>2 DEF Landing
      <3>6. \A a \in scheduled : a.release = now => ~ (a.phase <= Landing)
        BY <3>1, <3>2, <3>4, <3>5, HeadsShowTheDue
      <3>7. \A a \in scheduled : a.release > now
        BY <3>3, <3>5, <3>6
      <3> QED BY <1>1, <3>7 DEF CopyOnTime
    <2> QED BY <1>1, <2>1, <2>2
  <1> QED BY <1>1, <1>2, <1>3, <1>4, <1>5, CopyStageMoves

\* A boundary's callbacks are those of what is due and of what is delivered: a
\* position that had a decision due has its callback.
LEMMA VisitKeeps ==
    ASSUME CopyInv, stage = "select", NEW boundary \in Positions(run.clock),
           \A a \in scheduled : a.release >= boundary,
           NEW touched \in SUBSET Watched, Visit(boundary, touched)
    PROVE  CopyInv'
  <1>d. PICK due : due = {a \in scheduled : a.release = boundary /\ a.phase = Decision}
    OBVIOUS
  <1>1. /\ now' = boundary /\ stage' = "callbacks"
        /\ callbacks' = Callbacks(boundary, touched, due)
        /\ scheduled' = scheduled \ due
        /\ UNCHANGED <<run, books, trip, status, live, raised, control, requests>>
    BY <1>d DEF Visit
  <1>t. /\ callbacks = {} /\ requests = <<>> /\ Asked = {} /\ HeapTyped /\ Books
        /\ live \subseteq Trips /\ AtCopyBoundary' /\ boundary \in Nat
    BY <1>1 DEF CopyInv, CopyTyped, Asked, AtCopyBoundary, Positions
  <1>r. /\ \A u : /\ InRange(u)' = InRange(u) /\ MaximumSettlement(u)' = MaximumSettlement(u)
                  /\ BoughtAt(u)' = BoughtAt(u) /\ Landings(u)' = Landings(u)
                  /\ \A n : LastDecision(u, n)' = LastDecision(u, n)
        /\ Positions(run.clock)' = Positions(run.clock)
    BY <1>1, CopyRunStays
  <1>s. \A u : /\ Limit(u)' = Limit(u) /\ Holding(u)' = Holding(u) /\ Untouched(u)' = Untouched(u)
               /\ Entered(u)' = Entered(u)
    BY <1>1 DEF Limit, Holding, Untouched, Entered
  <1>o. Orders' = Orders
    BY <1>d, <1>1 DEF Orders, Decision, Landing
  <1>2. Books'
    BY <1>1, <1>t, <1>o, BooksStay
  <1>3. HeapTyped'
    <2>1. IsFiniteSet(scheduled')
      BY <1>1, <1>t, FS_Subset DEF HeapTyped
    <2> QED BY <1>1, <1>t, <1>r, <2>1 DEF HeapTyped
  <1>4. \A c \in callbacks' : /\ c.trip \in Trips
                              /\ c.kind = "SIGNAL" => c.trip \in SignalsAt(boundary)
                              /\ c.kind = "SIGNAL" => c = [creator |-> boundary - ObservationDelay,
                                    rank |-> 2, kind |-> "SIGNAL", trip |-> c.trip]
    <2>1. \A c \in callbacks' :
            \/ c \in [creator : {boundary - ObservationDelay}, rank : {1}, kind : {"EXIT"}, trip : touched]
            \/ c \in [creator : {boundary - ObservationDelay}, rank : {2}, kind : {"SIGNAL"},
                      trip : SignalsAt(boundary)]
            \/ \E a \in due : c = [creator |-> a.creator, rank |-> 1, kind |-> "EXIT", trip |-> a.trip]
      BY <1>1 DEF Callbacks
    <2>2. touched \subseteq Trips /\ SignalsAt(boundary) \subseteq Trips /\ \A a \in due : a.trip \in Trips
      BY <1>d, <1>t DEF Watched, SignalsAt, HeapTyped
    <2> QED BY <2>1, <2>2
  <1>5. CopyTyped'
    BY <1>1, <1>t, <1>r, <1>3, <1>4 DEF CopyInv, CopyTyped
  <1>6. MaximumsFit'
    BY <1>1, <1>r DEF CopyInv, MaximumsFit
  <1>7. CopyOnTime'
    <2>1. \A a \in scheduled' : a \in scheduled /\ a.release >= boundary /\ a.release \in Nat
            /\ a.phase \in {Decision, Landing} /\ ~ (a.release = boundary /\ a.phase = Decision)
      BY <1>d, <1>1, <1>t DEF HeapTyped, Positions
    <2>2. \A a \in scheduled' : a.release > boundary \/ (a.phase = Landing /\ a.release = boundary)
      BY <1>t, <2>1
    <2> QED BY <1>1, <1>t, <2>2 DEF CopyOnTime
  <1>8. OneEntryEach'
    BY <1>1, <1>r, <1>s DEF CopyInv, OneEntryEach
  <1>9. OneRequestEach'
    BY <1>1, <1>t, <1>4 DEF OneRequestEach
  <1>10. ASSUME NEW u \in Trips PROVE Copied(u)'
    <2>0. Copied(u)
      BY DEF CopyInv
    <2>1. InPosition(u)' /\ OrdersFit(u)'
      BY <1>1, <1>r, <1>s, <1>o, <2>0 DEF Copied, InPosition, OrdersFit, books
    <2>2. RequestsFit(u)' /\ Asked' = {}
      BY <1>1, <1>t DEF RequestsFit, Asked
    <2>3. SignalsFit(u)'
      <3>1. \A s \in SignalsAt(boundary) :
                status[s] = "UNSEEN" /\ run.launch[s] + ObservationDelay = boundary
        BY DEF SignalsAt, DeliveryOf
      <3> QED BY <1>1, <1>4, <3>1 DEF SignalsFit
    <2>4. \A p : Sells(u, p)' = Sells(u, p)
      BY <1>1, <1>s DEF Sells
    <2>5. ASSUME Holding(u)
          PROVE  \/ \E a \in scheduled' : a.phase = Decision /\ a.trip = u /\ Sells(u, a.release)
                 \/ \E c \in callbacks' : c.kind = "EXIT" /\ c.trip = u /\ Sells(u, boundary)
      <3>1. PICK a \in scheduled : a.phase = Decision /\ a.trip = u /\ Sells(u, a.release)
        BY <1>t, <2>0, <2>5 DEF Copied, Pursued
      <3>2. CASE a \in due
        <4>c. PICK c : c = [creator |-> a.creator, rank |-> 1, kind |-> "EXIT", trip |-> a.trip]
          OBVIOUS
        <4>1. c \in callbacks' /\ c.kind = "EXIT" /\ c.trip = u
          BY <1>1, <3>1, <3>2, <4>c DEF Callbacks
        <4>2. Sells(u, boundary)
          BY <1>d, <3>1, <3>2
        <4> QED BY <4>1, <4>2
      <3>3. CASE a \notin due
        BY <1>1, <3>1, <3>3
      <3> QED BY <3>2, <3>3
    <2>6. /\ status[u] = "BUY_PENDING" => \E a \in Orders' : a.trip = u
          /\ status[u] = "SELL_PENDING" => \E a \in Orders' : a.trip = u
      BY <1>t, <1>o, <2>0 DEF Copied, Pursued
    <2>7. Pursued(u)'
      BY <1>1, <1>s, <2>4, <2>5, <2>6 DEF Pursued
    <2> QED BY <2>1, <2>2, <2>3, <2>7 DEF Copied
  <1> QED BY <1>1, <1>2, <1>5, <1>6, <1>7, <1>8, <1>9, <1>10 DEF CopyInv

\* The next boundary is the earliest something is due at, or one before it at which
\* only the market moves.
LEMMA BoundariesKeep == CopyInv /\ (VisitDueBoundary \/ VisitMarketBoundary) => CopyInv'
  <1> SUFFICES ASSUME CopyInv, VisitDueBoundary \/ VisitMarketBoundary PROVE CopyInv'
    OBVIOUS
  <1>1. stage = "select" /\ DueBoundaries # {}
    BY DEF VisitDueBoundary, VisitMarketBoundary, Reached
  <1>2. DueBoundaries \subseteq Positions(run.clock)
    <2>1. \A a \in scheduled : a.release \in Positions(run.clock)
      BY DEF CopyInv, CopyTyped, HeapTyped
    <2>2. ASSUME NEW t \in Trips PROVE DeliveryOf(t) \subseteq Positions(run.clock)
      <3>1. run.launch[t] + ObservationDelay \in Nat
        BY RunFacts, CopyPolicy DEF CopyInv, Books, Positions
      <3>2. TransactionCount(run.clock) \in Nat
        BY RunFacts, CountIsNatural DEF CopyInv, Books
      <3> QED BY <3>1, <3>2 DEF DeliveryOf, Positions
    <2> QED BY <2>1, <2>2 DEF DueBoundaries
  <1>3. Min(DueBoundaries) \in DueBoundaries /\ \A p \in DueBoundaries : Min(DueBoundaries) <= p
    <2>1. DueBoundaries \in SUBSET Nat
      BY <1>2 DEF Positions
    <2> QED BY <1>1, <2>1, MinIsLeast
  <1>m. PICK m \in Positions(run.clock) : m = Min(DueBoundaries)
    BY <1>2, <1>3
  <1>4. m \in Nat /\ \A a \in scheduled : a.release >= m /\ a.release \in Nat
    <2>1. \A a \in scheduled : a.release \in DueBoundaries
      BY DEF DueBoundaries
    <2>2. \A p \in DueBoundaries : p \in Nat /\ m <= p
      BY <1>2, <1>3, <1>m DEF Positions
    <2>3. m \in Nat
      BY <1>m DEF Positions
    <2>4. \A a \in scheduled : a.release >= m /\ a.release \in Nat
      <3> SUFFICES ASSUME NEW a \in scheduled PROVE a.release >= m /\ a.release \in Nat
        OBVIOUS
      <3>1. a.release \in Nat /\ m <= a.release
        BY <2>1, <2>2
      <3> QED BY <2>3, <3>1
    <2> QED BY <2>3, <2>4
  <1>5. \A b : \A touched \in TouchedAt(b) : touched \in SUBSET Watched
    BY DEF TouchedAt
  <1>6. CASE VisitDueBoundary
    <2>1. PICK touched \in TouchedAt(m) : Visit(m, touched)
      BY <1>m, <1>6 DEF VisitDueBoundary
    <2> QED BY <1>1, <1>4, <1>5, <2>1, VisitKeeps
  <1>7. CASE VisitMarketBoundary
    <2>1. PICK b \in now + 1 .. m - 1 : \E touched \in TouchedAt(b) \ {{}} : Visit(b, touched)
      BY <1>m, <1>7 DEF VisitMarketBoundary
    <2>2. PICK touched \in TouchedAt(b) : Visit(b, touched)
      BY <2>1
    <2>3. now \in Int /\ now >= -1
      BY DEF CopyInv, CopyTyped, Positions
    <2>4. b \in Positions(run.clock) /\ b <= m
      <3>1. b \in Nat /\ b <= m
        BY <1>4, <2>3
      <3>2. TransactionCount(run.clock) \in Nat
        BY RunFacts, CountIsNatural DEF CopyInv, Books
      <3> QED BY <1>4, <3>1, <3>2, <1>m DEF Positions
    <2>5. \A a \in scheduled : a.release >= b
      BY <1>4, <2>4 DEF Positions
    <2> QED BY <1>1, <1>5, <2>2, <2>4, <2>5, VisitKeeps
  <1> QED BY <1>6, <1>7

-------------------------------------------------------------------------------
(* Callbacks.                                                                 *)

\* A position that is held has not missed its time: what pursues it is not behind.
LEMMA HeldInTime ==
    ASSUME CopyInv, AtCopyBoundary, NEW t \in Trips, Holding(t)
    PROVE  now <= Limit(t) /\ now \in Nat /\ Limit(t) \in Nat
  <1>1. /\ now \in Nat /\ Limit(t) \in Nat /\ Copied(t)
        /\ \A a \in scheduled : a.release \in Nat
    BY DEF CopyInv, CopyTyped, HeapTyped, Positions, Copied, InPosition
  <1>2. CASE \E a \in scheduled : a.phase = Decision /\ a.trip = t /\ Sells(t, a.release)
    <2>1. PICK a \in scheduled : a.phase = Decision /\ Sells(t, a.release)
      BY <1>2
    <2>2. a.release > now /\ a.release <= Limit(t)
      BY <2>1 DEF CopyInv, CopyOnTime, Sells, Decision, Landing
    <2> QED BY <1>1, <2>2
  <1>3. CASE \E c \in callbacks : c.kind = "EXIT" /\ c.trip = t /\ Sells(t, now)
    BY <1>1, <1>3 DEF Sells
  <1>4. CASE \E r \in Asked : r.trip = t
    BY <1>1, <1>4 DEF Copied, RequestsFit, Holding
  <1> QED BY <1>1, <1>2, <1>3, <1>4 DEF Copied, Pursued

\* What is requested is among what is asked for.
LEMMA RequestedIsAsked ==
    ASSUME NEW t PROVE Requested(t) <=> \E r \in Asked : r.trip = t
  BY DEF Requested, Asked

\* A request more.
LEMMA RequestAppends ==
    ASSUME CopyInv, stage = "callbacks", NEW t \in Trips, NEW buy \in BOOLEAN, ~ Requested(t),
           NEW r, r = [trip |-> t, buy |-> buy], requests' = Append(requests, r)
    PROVE  RequestsKept /\ Asked' = Asked \cup {r}
  <1>1. requests \in Seq([trip : Trips, buy : BOOLEAN]) /\ r \in [trip : Trips, buy : BOOLEAN]
    BY DEF CopyInv, CopyTyped
  <1>2. /\ requests' \in Seq([trip : Trips, buy : BOOLEAN])
        /\ DOMAIN requests = 1 .. Len(requests) /\ Len(requests) \in Nat
        /\ DOMAIN requests' = 1 .. Len(requests) + 1
        /\ \A i \in 1 .. Len(requests) : requests'[i] = requests[i]
        /\ requests'[Len(requests) + 1] = r
    BY <1>1
  <1>3. \A i \in DOMAIN requests : requests[i].trip # t
    BY DEF Requested
  <1>4. \A i, j \in DOMAIN requests : requests[i].trip = requests[j].trip => i = j
    BY DEF CopyInv, OneRequestEach
  <1>5. \A i \in DOMAIN requests' : i \in DOMAIN requests \/ i = Len(requests) + 1
    BY <1>2
  <1>6. \A i, j \in DOMAIN requests' : requests'[i].trip = requests'[j].trip => i = j
    BY <1>2, <1>3, <1>4, <1>5
  <1>7. Asked' = Asked \cup {r}
    <2>1. \A i \in DOMAIN requests : i \in DOMAIN requests' /\ requests'[i] = requests[i]
      BY <1>2
    <2>2. Len(requests) + 1 \in DOMAIN requests'
      BY <1>2
    <2> QED BY <1>2, <1>5, <2>1, <2>2 DEF Asked
  <1> QED BY <1>2, <1>6, <1>7 DEF RequestsKept

\* What the callbacks of a trip have in common.
LEMMA CallbackMoves ==
    ASSUME CopyInv, stage = "callbacks", NEW c \in callbacks, NEW t \in Trips, t = c.trip,
           callbacks' = callbacks \ {c},
           UNCHANGED <<run, books, trip, scheduled, now, stage, raised>>,
           status' \in [Trips -> CopyStatuses], control' \in [Trips -> Controls],
           live' = {u \in Trips : status'[u] \in {"BUY_PENDING", "OPEN", "SELL_PENDING", "RETRY_WAIT"}},
           \A u \in Trips \ {t} : status'[u] = status[u] /\ control'[u] = control[u],
           RequestsKept, \A r : r.trip # t => (r \in Asked' <=> r \in Asked),
           Entered(t)' => InRange(t) /\ \A u \in Trips \ {t} : Entered(u) => run.mint[u] # run.mint[t],
           Copied(t)'
    PROVE  CopyInv'
  <1>1. Books'
    <2>1. Orders' = Orders /\ Books
      BY DEF Orders, CopyInv
    <2> QED BY <2>1, BooksStay
  <1>2. HeapTyped' /\ AtCopyBoundary
    BY CopyRunStays DEF HeapTyped, CopyInv, CopyTyped, AtCopyBoundary
  <1>3. OthersKept(t)
    BY DEF OthersKept, books
  <1>4. UNCHANGED <<run, now, stage, raised>> /\ \A a \in scheduled' : a \in scheduled \/ a.release > now
    OBVIOUS
  <1> QED BY <1>1, <1>2, <1>3, <1>4, CopyMoves

\* A trip that was entered keeps its mint to itself.
LEMMA EnteredAlone ==
    ASSUME CopyInv, NEW t \in Trips, Entered(t)
    PROVE  InRange(t) /\ \A u \in Trips \ {t} : Entered(u) => run.mint[u] # run.mint[t]
  BY DEF CopyInv, OneEntryEach

\* A callback that asks for nothing, or for what is asked for already.
LEMMA CallbackSpends ==
    ASSUME CopyInv, stage = "callbacks", NEW c \in callbacks, NEW t \in Trips, t = c.trip,
           callbacks' = callbacks \ {c},
           UNCHANGED <<run, books, trip, scheduled, now, stage, raised, status, live, control, requests>>,
           Holding(t) => ~ Sells(t, now) \/ Requested(t)
    PROVE  CopyInv'
  <1>1. /\ status' \in [Trips -> CopyStatuses] /\ control' \in [Trips -> Controls]
        /\ live' = {u \in Trips : status'[u] \in {"BUY_PENDING", "OPEN", "SELL_PENDING", "RETRY_WAIT"}}
        /\ RequestsKept /\ Asked' = Asked /\ Copied(t)
    BY DEF CopyInv, CopyTyped, RequestsKept, OneRequestEach, Asked
  <1>2. Entered(t)' => InRange(t) /\ \A u \in Trips \ {t} : Entered(u) => run.mint[u] # run.mint[t]
    BY EnteredAlone DEF Entered
  <1>3. /\ InPosition(t)' = InPosition(t) /\ Orders' = Orders
        /\ Limit(t)' = Limit(t) /\ Holding(t)' = Holding(t)
        /\ BoughtAt(t)' = BoughtAt(t) /\ Landings(t)' = Landings(t)
    BY CopyRunStays DEF InPosition, Orders, Limit, Holding, Untouched, books
  <1>4. OrdersFit(t)' /\ RequestsFit(t)' /\ SignalsFit(t)'
    BY <1>1, <1>3 DEF Copied, OrdersFit, RequestsFit, SignalsFit
  <1>5. \A p : Sells(t, p)' = Sells(t, p)
    BY <1>3 DEF Sells
  <1>6. Pursued(t)'
    <2>1. Holding(t) =>
            \/ \E a \in scheduled : a.phase = Decision /\ a.trip = t /\ Sells(t, a.release)
            \/ \E d \in callbacks' : d.kind = "EXIT" /\ d.trip = t /\ Sells(t, now)
            \/ \E r \in Asked : r.trip = t
      BY <1>1, RequestedIsAsked DEF Copied, Pursued
    <2> QED BY <1>1, <1>3, <1>5, <2>1 DEF Copied, Pursued
  <1>7. Copied(t)'
    BY <1>1, <1>3, <1>4, <1>6 DEF Copied
  <1>8. UNCHANGED <<run, books, trip, scheduled, now, stage, raised>>
    OBVIOUS
  <1> QED BY <1>1, <1>2, <1>7, <1>8, CallbackMoves

\* A callback that asks for a sell: the position may have it, and will.
LEMMA CallbackAsks ==
    ASSUME CopyInv, stage = "callbacks", NEW c \in callbacks, NEW t \in Trips, t = c.trip,
           callbacks' = callbacks \ {c},
           UNCHANGED <<run, books, trip, scheduled, now, stage, raised, status, live>>,
           Holding(t), Request(t, FALSE), control' \in [Trips -> Controls],
           \A u \in Trips \ {t} : control'[u] = control[u],
           control'[t].exit, control'[t].attempts = control[t].attempts,
           control'[t].deadline = control[t].deadline, control'[t].retry = control[t].retry
    PROVE  CopyInv'
  <1>r. PICK r : r = [trip |-> t, buy |-> FALSE]
    OBVIOUS
  <1>1. RequestsKept /\ (Asked' = Asked \/ Asked' = Asked \cup {r}) /\ \E s \in Asked' : s.trip = t
    <2>1. CASE Requested(t)
      <3>1. requests' = requests
        BY <2>1 DEF Request
      <3>2. Asked' = Asked /\ RequestsKept
        BY <3>1 DEF Asked, CopyInv, CopyTyped, OneRequestEach, RequestsKept
      <3> QED BY <2>1, <3>2, RequestedIsAsked
    <2>2. CASE ~ Requested(t)
      <3>1. requests' = Append(requests, r)
        BY <1>r, <2>2 DEF Request
      <3>2. RequestsKept /\ Asked' = Asked \cup {r}
        BY <1>r, <2>2, <3>1, RequestAppends
      <3> QED BY <1>r, <3>2
    <2> QED BY <2>1, <2>2
  <1>2. /\ status' \in [Trips -> CopyStatuses] /\ status \in [Trips -> CopyStatuses]
        /\ live' = {u \in Trips : status'[u] \in {"BUY_PENDING", "OPEN", "SELL_PENDING", "RETRY_WAIT"}}
        /\ Copied(t) /\ AtCopyBoundary /\ control \in [Trips -> Controls]
    BY DEF CopyInv, CopyTyped, AtCopyBoundary
  <1>3. Entered(t)' => InRange(t) /\ \A u \in Trips \ {t} : Entered(u) => run.mint[u] # run.mint[t]
    BY EnteredAlone DEF Entered
  <1>4. /\ Limit(t)' = Limit(t) /\ Holding(t)' = Holding(t) /\ Orders' = Orders
        /\ BoughtAt(t)' = BoughtAt(t) /\ Landings(t)' = Landings(t)
        /\ \A n : LastDecision(t, n)' = LastDecision(t, n)
        /\ Positions(run.clock)' = Positions(run.clock) /\ Untouched(t)' = Untouched(t)
    BY CopyRunStays DEF Limit, Holding, Orders, Untouched
  <1>5. InPosition(t)' /\ OrdersFit(t)' /\ SignalsFit(t)'
    BY <1>2, <1>4 DEF Copied, InPosition, OrdersFit, SignalsFit, books, Holding
  <1>6. RequestsFit(t)'
    <2>1. now <= Limit(t)
      BY <1>2, HeldInTime
    <2>2. \A s \in Asked' : s.trip = t => ~ s.buy
      <3>1. \A s \in Asked : s.trip = t => ~ s.buy
        BY <1>2 DEF Copied, RequestsFit, Holding
      <3> QED BY <1>1, <1>r, <3>1
    <2> QED BY <1>4, <2>1, <2>2 DEF RequestsFit
  <1>7. Pursued(t)'
    BY <1>1, <1>4 DEF Pursued, Holding
  <1>8. Copied(t)'
    BY <1>5, <1>6, <1>7 DEF Copied
  <1>9. /\ UNCHANGED <<run, books, trip, scheduled, now, stage, raised>>
        /\ \A u \in Trips \ {t} : status'[u] = status[u] /\ control'[u] = control[u]
        /\ \A s : s.trip # t => (s \in Asked' <=> s \in Asked)
    BY <1>1, <1>r
  <1> QED BY <1>1, <1>2, <1>3, <1>8, <1>9, CallbackMoves

\* A signal that is delivered has no order and no request yet.
LEMMA SignalIsNew ==
    ASSUME CopyInv, NEW t \in Trips, status[t] = "UNSEEN"
    PROVE  ~ Requested(t) /\ \A a \in Orders : a.trip # t
  <1>1. Copied(t)
    BY DEF CopyInv
  <1>2. \A r \in Asked : r.trip # t
    BY <1>1 DEF Copied, RequestsFit, Holding
  <1>3. \A a \in Orders : a.trip # t
    BY <1>1 DEF Copied, OrdersFit
  <1> QED BY <1>2, <1>3, RequestedIsAsked

\* A signal is copied when its mint was never entered, and is ignored otherwise.
LEMMA SignalKeeps ==
    ASSUME CopyInv, stage = "callbacks", NEW c \in callbacks, NEW t \in Trips, t = c.trip,
           c.kind = "SIGNAL", callbacks' = callbacks \ {c},
           UNCHANGED <<run, books, trip, scheduled, now, stage, raised>>, Signal(t)
    PROVE  CopyInv'
  <1>1. /\ status \in [Trips -> CopyStatuses] /\ control \in [Trips -> Controls] /\ Copied(t)
        /\ live = {u \in Trips : status[u] \in {"BUY_PENDING", "OPEN", "SELL_PENDING", "RETRY_WAIT"}}
        /\ control' = control
    BY DEF CopyInv, CopyTyped, Signal
  <1>2. status[t] = "UNSEEN" /\ run.launch[t] + ObservationDelay = now
    BY <1>1 DEF Copied, SignalsFit
  <1>3. ~ Requested(t) /\ \A a \in Orders : a.trip # t
    BY <1>2, SignalIsNew
  <1>4. \A d \in callbacks' : ~ (d.trip = t /\ d.kind = "SIGNAL")
    BY DEF CopyInv, OneRequestEach
  <1>5. /\ \A n : LastDecision(t, n)' = LastDecision(t, n)
        /\ Orders' = Orders /\ Untouched(t)' = Untouched(t)
    BY CopyRunStays DEF Orders, Untouched
  <1>6. CASE InRange(t) /\ ~ Consumed(run.mint[t])
    <2>r. PICK r : r = [trip |-> t, buy |-> TRUE]
      OBVIOUS
    <2>1. status' = [status EXCEPT ![t] = "BUY_PENDING"] /\ live' = live \cup {t}
          /\ requests' = Append(requests, r)
      BY <1>3, <1>6, <2>r DEF Signal, Await, Request
    <2>2. RequestsKept /\ Asked' = Asked \cup {r}
      BY <1>3, <2>r, <2>1, RequestAppends
    <2>3. /\ status' \in [Trips -> CopyStatuses] /\ status'[t] = "BUY_PENDING"
          /\ \A u \in Trips \ {t} : status'[u] = status[u]
      BY <1>1, <2>1 DEF CopyStatuses
    <2>4. live' = {u \in Trips : status'[u] \in {"BUY_PENDING", "OPEN", "SELL_PENDING", "RETRY_WAIT"}}
      BY <1>1, <2>1, <2>3
    <2>5. \A u \in Trips \ {t} : Entered(u) => run.mint[u] # run.mint[t]
      BY <1>6 DEF Consumed, Entered
    <2>6. Copied(t)'
      <3>1. InPosition(t)'
        BY <1>1, <1>2, <1>5, <2>3 DEF Copied, InPosition, Holding, books
      <3>2. OrdersFit(t)' /\ SignalsFit(t)'
        BY <1>3, <1>4, <1>5 DEF OrdersFit, SignalsFit
      <3>3. RequestsFit(t)'
        <4>1. \A s \in Asked' : s.trip = t => s = r
          BY <1>3, <2>2, RequestedIsAsked
        <4> QED BY <1>2, <1>3, <1>5, <2>r, <2>3, <4>1 DEF RequestsFit
      <3>4. Pursued(t)'
        BY <2>r, <2>2, <2>3 DEF Pursued, Holding
      <3> QED BY <3>1, <3>2, <3>3, <3>4 DEF Copied
    <2>7. /\ UNCHANGED <<run, books, trip, scheduled, now, stage, raised>>
          /\ control' \in [Trips -> Controls]
          /\ \A u \in Trips \ {t} : status'[u] = status[u] /\ control'[u] = control[u]
          /\ \A s : s.trip # t => (s \in Asked' <=> s \in Asked)
      BY <1>1, <2>r, <2>2, <2>3
    <2> QED BY <1>6, <2>2, <2>3, <2>4, <2>5, <2>6, <2>7, CallbackMoves
  <1>7. CASE ~ (InRange(t) /\ ~ Consumed(run.mint[t]))
    <2>1. status' = [status EXCEPT ![t] = "IGNORED"] /\ live' = live \ {t} /\ requests' = requests
      BY <1>7 DEF Signal, Conclude
    <2>2. RequestsKept /\ Asked' = Asked
      BY <2>1 DEF CopyInv, CopyTyped, OneRequestEach, RequestsKept, Asked
    <2>3. /\ status' \in [Trips -> CopyStatuses] /\ status'[t] = "IGNORED"
          /\ \A u \in Trips \ {t} : status'[u] = status[u]
      BY <1>1, <2>1 DEF CopyStatuses
    <2>4. live' = {u \in Trips : status'[u] \in {"BUY_PENDING", "OPEN", "SELL_PENDING", "RETRY_WAIT"}}
      BY <1>1, <2>1, <2>3
    <2>5. ~ Entered(t)'
      BY <2>3 DEF Entered
    <2>6. Copied(t)'
      <3>1. InPosition(t)'
        BY <1>1, <1>2, <1>5, <2>3 DEF Copied, InPosition, Holding, books
      <3>2. OrdersFit(t)' /\ SignalsFit(t)'
        BY <1>3, <1>4, <1>5 DEF OrdersFit, SignalsFit
      <3>3. RequestsFit(t)'
        BY <1>3, <2>2, RequestedIsAsked DEF RequestsFit
      <3>4. Pursued(t)'
        BY <2>3 DEF Pursued, Holding
      <3> QED BY <3>1, <3>2, <3>3, <3>4 DEF Copied
    <2>7. /\ UNCHANGED <<run, books, trip, scheduled, now, stage, raised>>
          /\ control' \in [Trips -> Controls]
          /\ \A u \in Trips \ {t} : status'[u] = status[u] /\ control'[u] = control[u]
          /\ \A s : s.trip # t => (s \in Asked' <=> s \in Asked)
      BY <1>1, <2>2, <2>3
    <2> QED BY <2>2, <2>3, <2>4, <2>5, <2>6, <2>7, CallbackMoves
  <1> QED BY <1>6, <1>7

\* A callback of a position asks for its sell, or finds that it need not.
LEMMA ExitKeeps ==
    ASSUME CopyInv, stage = "callbacks", NEW c \in callbacks, NEW t \in Trips, t = c.trip,
           callbacks' = callbacks \ {c},
           UNCHANGED <<run, books, trip, scheduled, now, stage, raised>>, Exit(t)
    PROVE  CopyInv'
  <1>1. /\ UNCHANGED <<status, live>> /\ Copied(t) /\ control \in [Trips -> Controls]
        /\ now \in Nat
    BY DEF Exit, CopyInv, CopyTyped, AtCopyBoundary, Positions
  <1>2. control[t].deadline \in Int /\ control[t].retry \in Int
    BY <1>1 DEF Controls
  <1>u. UNCHANGED <<run, books, trip, scheduled, now, stage, raised, status, live>>
    BY <1>1
  <1>3. ASSUME UNCHANGED <<control, requests>>, Holding(t) => ~ Sells(t, now) \/ Requested(t)
        PROVE  CopyInv'
    <2>1. UNCHANGED <<run, books, trip, scheduled, now, stage, raised, status, live, control, requests>>
      BY <1>1, <1>3
    <2> QED BY <1>3, <2>1, CallbackSpends
  <1>4. CASE status[t] = "OPEN" /\ ExitOpen(t)
    <2>1. CASE ~ control[t].exit /\ now < control[t].deadline /\ UNCHANGED <<control, requests>>
      <3>1. ~ Sells(t, now)
        BY <1>1, <1>2, <1>4, <2>1 DEF Sells
      <3> QED BY <1>3, <2>1, <3>1
    <2>2. CASE control' = [control EXCEPT ![t].exit = TRUE] /\ Request(t, FALSE)
      <3>1. /\ control' \in [Trips -> Controls] /\ control'[t].exit
            /\ control'[t].attempts = control[t].attempts
            /\ control'[t].deadline = control[t].deadline /\ control'[t].retry = control[t].retry
            /\ \A u \in Trips \ {t} : control'[u] = control[u]
        BY <1>1, <2>2 DEF Controls
      <3>2. Holding(t)
        BY <1>4 DEF Holding
      <3> QED BY <1>u, <2>2, <3>1, <3>2, CallbackAsks
    <2> QED BY <1>4, <2>1, <2>2 DEF ExitOpen
  <1>5. CASE status[t] = "RETRY_WAIT" /\ ExitRetry(t)
    <2>0. control' = control
      BY <1>5 DEF ExitRetry
    <2>1. CASE now < control[t].retry
      <3>1. UNCHANGED <<control, requests>>
        BY <1>5, <2>1 DEF ExitRetry
      <3>2. ~ Sells(t, now)
        BY <1>1, <1>2, <1>5, <2>1 DEF Sells
      <3> QED BY <1>3, <3>1, <3>2
    <2>2. CASE ~ (now < control[t].retry)
      <3>1. Request(t, FALSE) /\ Holding(t)
        BY <1>5, <2>2 DEF ExitRetry, Holding
      <3>2. /\ control' \in [Trips -> Controls] /\ control'[t].exit
            /\ control'[t].attempts = control[t].attempts
            /\ control'[t].deadline = control[t].deadline /\ control'[t].retry = control[t].retry
            /\ \A u \in Trips \ {t} : control'[u] = control[u]
        BY <1>1, <1>5, <2>0 DEF Copied, InPosition
      <3> QED BY <1>u, <3>1, <3>2, CallbackAsks
    <2> QED BY <2>1, <2>2
  <1>6. CASE status[t] \notin {"OPEN", "RETRY_WAIT"} /\ ExitStale
    BY <1>3, <1>6 DEF ExitStale, Holding
  <1> QED BY <1>4, <1>5, <1>6 DEF Exit

\* Every callback keeps the invariant.
LEMMA RunCallbackKeeps == CopyInv /\ RunCallback => CopyInv'
  <1> SUFFICES ASSUME CopyInv, RunCallback PROVE CopyInv'
    OBVIOUS
  <1>1. stage = "callbacks" /\ UNCHANGED <<run, books, trip, scheduled, now, stage, raised>>
    BY DEF RunCallback, Reached
  <1>2. PICK c \in NextCallbacks :
            /\ callbacks' = callbacks \ {c}
            /\ (c.kind = "EXIT" /\ Exit(c.trip)) \/ (c.kind = "SIGNAL" /\ Signal(c.trip))
    BY DEF RunCallback
  <1>3. c \in callbacks /\ c.trip \in Trips
    BY DEF NextCallbacks, CopyInv, CopyTyped
  <1>t. PICK t \in Trips : t = c.trip
    BY <1>3
  <1>4. CASE c.kind = "EXIT" /\ Exit(c.trip)
    BY <1>1, <1>2, <1>3, <1>4, <1>t, ExitKeeps
  <1>5. CASE c.kind = "SIGNAL" /\ Signal(c.trip)
    BY <1>1, <1>2, <1>3, <1>5, <1>t, SignalKeeps
  <1> QED BY <1>2, <1>4, <1>5

-------------------------------------------------------------------------------
(* Orders.                                                                    *)

\* What was requested first is served, and the rest stays asked for.
LEMMA RequestServed ==
    ASSUME CopyInv, stage = "requests", requests # <<>>, requests' = Tail(requests),
           NEW t, t = Head(requests).trip
    PROVE  /\ t \in Trips /\ Head(requests) \in Asked /\ RequestsKept
           /\ \A r \in Asked' : r.trip # t
           /\ \A r : r.trip # t => (r \in Asked' <=> r \in Asked)
  <1>1. /\ requests \in Seq([trip : Trips, buy : BOOLEAN])
        /\ \A i, j \in DOMAIN requests : requests[i].trip = requests[j].trip => i = j
    BY DEF CopyInv, CopyTyped, OneRequestEach
  <1>2. /\ requests' \in Seq([trip : Trips, buy : BOOLEAN])
        /\ Len(requests) \in Nat \ {0} /\ DOMAIN requests = 1 .. Len(requests)
        /\ DOMAIN requests' = 1 .. Len(requests) - 1
        /\ \A i \in 1 .. Len(requests) - 1 : requests'[i] = requests[i + 1]
        /\ Head(requests) = requests[1]
    BY <1>1
  <1>3. \A i \in DOMAIN requests' : i + 1 \in DOMAIN requests /\ i \in Nat /\ i + 1 # 1
    BY <1>2
  <1>4. \A i \in DOMAIN requests : i = 1 \/ (i - 1 \in DOMAIN requests' /\ (i - 1) + 1 = i)
    BY <1>2
  <1>5. 1 \in DOMAIN requests
    BY <1>2
  <1>6. t \in Trips /\ Head(requests) \in Asked
    <2>r. PICK R : R = [trip : Trips, buy : BOOLEAN]
      OBVIOUS
    <2>0. requests \in Seq(R) /\ 1 \in 1 .. Len(requests)
      BY <1>1, <1>2, <2>r
    <2>s. requests[1] \in R
      BY <2>0
    <2>1. requests[1] \in [trip : Trips, buy : BOOLEAN]
      BY <2>r, <2>s
    <2>2. requests[1] \in Asked
      BY <1>5 DEF Asked
    <2> QED BY <1>2, <2>1, <2>2
  <1>7. \A i, j \in DOMAIN requests' : requests'[i].trip = requests'[j].trip => i = j
    <2> SUFFICES ASSUME NEW i \in DOMAIN requests', NEW j \in DOMAIN requests',
                        requests'[i].trip = requests'[j].trip
                 PROVE  i = j
      OBVIOUS
    <2>1. i + 1 = j + 1
      BY <1>1, <1>2, <1>3
    <2> QED BY <1>3, <2>1
  <1>8. \A r \in Asked' : r.trip # t /\ r \in Asked
    <2> SUFFICES ASSUME NEW i \in DOMAIN requests'
                 PROVE  requests'[i].trip # t /\ requests'[i] \in Asked
      BY DEF Asked
    <2> QED BY <1>1, <1>2, <1>3, <1>5 DEF Asked
  <1>9. \A r \in Asked : r.trip # t => r \in Asked'
    <2> SUFFICES ASSUME NEW i \in DOMAIN requests, requests[i].trip # t
                 PROVE  requests[i] \in Asked'
      BY DEF Asked
    <2>1. i - 1 \in DOMAIN requests' /\ requests'[i - 1] = requests[i]
      BY <1>2, <1>4
    <2> QED BY <2>1 DEF Asked
  <1> QED BY <1>2, <1>6, <1>7, <1>8, <1>9 DEF RequestsKept

\* What the steps that serve a request have in common.
LEMMA ServeMoves ==
    ASSUME CopyInv, stage = "requests", requests # <<>>, Served,
           NEW t \in Trips, t = Head(requests).trip, Entered(t),
           Books', HeapTyped', \A a \in scheduled' : a \in scheduled \/ a.release > now,
           status' \in [Trips -> CopyStatuses], control' \in [Trips -> Controls],
           live' = {u \in Trips : status'[u] \in {"BUY_PENDING", "OPEN", "SELL_PENDING", "RETRY_WAIT"}},
           openMints' = openMints,
           \A u \in Trips \ {t} : /\ status'[u] = status[u] /\ control'[u] = control[u]
                                  /\ trip'[u] = trip[u],
           \A a : a.trip # t => (a \in scheduled' <=> a \in scheduled),
           InPosition(t)', OrdersFit(t)', Pursued(t)'
    PROVE  CopyInv'
  <1>1. /\ requests' = Tail(requests) /\ UNCHANGED <<run, now, stage, raised>>
        /\ callbacks' = callbacks /\ callbacks = {} /\ AtCopyBoundary
    BY DEF Served, CopyInv, CopyTyped, AtCopyBoundary
  <1>2. /\ RequestsKept /\ \A r \in Asked' : r.trip # t
        /\ \A r : r.trip # t => (r \in Asked' <=> r \in Asked)
    BY <1>1, RequestServed
  <1>3. OthersKept(t)
    BY <1>1, <1>2 DEF OthersKept
  <1>4. Copied(t)'
    BY <1>1, <1>2 DEF Copied, RequestsFit, SignalsFit
  <1>5. InRange(t) /\ \A u \in Trips \ {t} : Entered(u) => run.mint[u] # run.mint[t]
    BY EnteredAlone
  <1> QED BY <1>1, <1>2, <1>3, <1>4, <1>5, CopyMoves

\* A signal that was copied finds its mint's account free: no other trip entered it.
LEMMA MintIsFree ==
    ASSUME CopyInv, NEW t \in Trips, status[t] = "BUY_PENDING"
    PROVE  openMints[run.mint[t]] = None
  <1> SUFFICES ASSUME openMints[run.mint[t]] # None PROVE FALSE
    OBVIOUS
  <1>m. PICK m \in Mints : m = run.mint[t]
    BY RunFacts DEF CopyInv, Books
  <1>1. openMints[m] \in Trips /\ run.mint[openMints[m]] = m
    BY <1>m DEF CopyInv, Books, BooksTyped, OpenIsUnsold
  <1>u. PICK u \in Trips : u = openMints[m]
    BY <1>1
  <1>2. u # t
    BY <1>m, <1>u DEF CopyInv, Copied, InPosition
  <1>3. Entered(u)
    BY <1>1, <1>u DEF CopyInv, Copied, InPosition, Entered
  <1>4. Entered(t)
    BY DEF Entered
  <1> QED BY <1>1, <1>m, <1>u, <1>2, <1>3, <1>4, EnteredAlone

\* What was entered is settled on the clock.
LEMMA EnteredFits ==
    ASSUME CopyInv, AtCopyBoundary, NEW t \in Trips, Entered(t)
    PROVE  MaximumSettlement(t) # OffClock
  BY EnteredAlone DEF CopyInv, MaximumsFit, AtCopyBoundary

\* A sell that is decided in time lands no later than the preflight expected.
LEMMA SaleInTime ==
    ASSUME CopyInv, AtCopyBoundary, NEW t \in Trips, Holding(t), now <= Limit(t),
           NEW due, due = TransactionAfter(run.clock, now, SellDelay)
    PROVE  /\ control[t].attempts + 1 \in 1 .. MaximumSellAttempts
           /\ now < Landings(t)[control[t].attempts + 1]
           /\ due \in Positions(run.clock) /\ now < due /\ DueError(due) = None
           /\ due <= Landings(t)[control[t].attempts + 1]
  <1>n. PICK n : n = control[t].attempts + 1
    OBVIOUS
  <1>1. /\ control[t].attempts \in Nat /\ control[t].attempts < MaximumSellAttempts
        /\ Limit(t) \in Positions(run.clock) /\ Limit(t) <= LastDecision(t, n)
        /\ now \in Positions(run.clock) /\ IsClock(run.clock) /\ run \in Runs
    BY <1>n, RunFacts DEF CopyInv, CopyTyped, Controls, Copied, InPosition, Books
  <1>2. n \in 1 .. MaximumSellAttempts
    BY <1>1, <1>n, CopyPolicy
  <1>3. Entered(t)
    BY DEF Entered, Holding
  <1>d. PICK d \in Positions(run.clock) : d = LastDecision(t, n)
    BY <1>1, <1>2, <1>3, EnteredFits, SettlementsOnClock
  <1>l. PICK l \in Positions(run.clock) : l = Landings(t)[n]
    BY <1>1, <1>2, <1>3, EnteredFits, SettlementsOnClock
  <1>4. d < l
    BY <1>1, <1>2, <1>3, <1>d, <1>l, EnteredFits, SettlementsOnClock
  <1>5. /\ now \in Nat /\ d \in Nat /\ l \in Nat /\ Limit(t) \in Nat /\ now <= d
        /\ l # OffClock
    BY <1>1, <1>d DEF Positions, OffClock
  <1>6. l = TransactionAfter(run.clock, d, SellDelay)
    BY <1>2, <1>d, <1>l, LandingsFollow
  <1>7. due # OffClock /\ due <= l
    BY <1>1, <1>5, <1>6, AfterKeepsOrder, DelaysArePositive
  <1>8. due = now + SellDelay /\ due \in Positions(run.clock)
    BY <1>1, <1>5, <1>7, AfterIsLater, DelaysArePositive
  <1>9. now < due /\ now < l
    BY <1>4, <1>5, <1>8, DelaysArePositive
  <1>10. DueError(due) = None
    BY <1>5, <1>7, <1>8, <1>9, DelaysArePositive DEF DueError
  <1> QED BY <1>2, <1>n, <1>l, <1>7, <1>8, <1>9, <1>10

\* A retry after an attempt that landed in time is decided in time.
LEMMA RetryInTime ==
    ASSUME CopyInv, AtCopyBoundary, NEW t \in Trips, Entered(t),
           NEW n \in 1 .. MaximumSellAttempts, n # MaximumSellAttempts, now <= Landings(t)[n]
    PROVE  /\ n + 1 \in 1 .. MaximumSellAttempts
           /\ Retry \in Positions(run.clock) /\ now < Retry /\ DueError(Retry) = None
           /\ Retry <= LastDecision(t, n + 1)
  <1>1. now \in Positions(run.clock) /\ IsClock(run.clock) /\ run \in Runs /\ now \in Nat
    BY RunFacts DEF CopyInv, CopyTyped, Books, Positions
  <1>2. n + 1 \in 1 .. MaximumSellAttempts /\ n + 1 # 1 /\ (n + 1) - 1 = n
    BY CopyPolicy
  <1>l. PICK l \in Positions(run.clock) : l = Landings(t)[n]
    BY <1>1, EnteredFits, SettlementsOnClock
  <1>d. PICK d \in Positions(run.clock) : d = LastDecision(t, n + 1)
    BY <1>1, <1>2, EnteredFits, SettlementsOnClock
  <1>3. d = HoldingDeadline(run.clock, l, RetryDelay) /\ d # OffClock
    BY <1>2, <1>l, <1>d DEF LastDecision, Positions, OffClock
  <1>4. Retry # OffClock /\ Retry <= d
    BY <1>1, <1>l, <1>3, HoldingKeepsOrder, CopyPolicy DEF Retry
  <1>5. Retry \in Positions(run.clock) /\ now < Retry
    BY <1>1, <1>4, HoldingIsLater, CopyPolicy DEF Retry
  <1>6. Retry \in Nat
    BY <1>5 DEF Positions
  <1>7. DueError(Retry) = None
    BY <1>1, <1>4, <1>5, <1>6 DEF DueError
  <1> QED BY <1>2, <1>d, <1>4, <1>5, <1>7

\* A trip reaches a status, and is live by that status.
LEMMA StatusMoves ==
    ASSUME CopyInv, NEW t \in Trips, NEW outcome \in CopyStatuses,
           \/ /\ Conclude(t, outcome)
              /\ outcome \notin {"BUY_PENDING", "OPEN", "SELL_PENDING", "RETRY_WAIT"}
           \/ /\ Await(t, outcome)
              /\ outcome \in {"BUY_PENDING", "OPEN", "SELL_PENDING", "RETRY_WAIT"}
    PROVE  /\ status' \in [Trips -> CopyStatuses] /\ status'[t] = outcome
           /\ \A u \in Trips \ {t} : status'[u] = status[u]
           /\ live' = {u \in Trips : status'[u] \in {"BUY_PENDING", "OPEN", "SELL_PENDING", "RETRY_WAIT"}}
  <1>1. /\ status \in [Trips -> CopyStatuses]
        /\ live = {u \in Trips : status[u] \in {"BUY_PENDING", "OPEN", "SELL_PENDING", "RETRY_WAIT"}}
    BY DEF CopyInv, CopyTyped
  <1>2. status' = [status EXCEPT ![t] = outcome]
    BY DEF Conclude, Await
  <1>3. /\ status' \in [Trips -> CopyStatuses] /\ status'[t] = outcome
        /\ \A u \in Trips \ {t} : status'[u] = status[u]
    BY <1>1, <1>2
  <1>4. CASE /\ live' = live \ {t}
             /\ outcome \notin {"BUY_PENDING", "OPEN", "SELL_PENDING", "RETRY_WAIT"}
    BY <1>1, <1>3, <1>4
  <1>5. CASE /\ live' = live \cup {t}
             /\ outcome \in {"BUY_PENDING", "OPEN", "SELL_PENDING", "RETRY_WAIT"}
    BY <1>1, <1>3, <1>5
  <1> QED BY <1>3, <1>4, <1>5 DEF Conclude, Await

\* After an attempt that was refused or failed, the position is given up or tried
\* again in time (fail_sell).
LEMMA SellsAgain ==
    ASSUME CopyInv, AtCopyBoundary, NEW t \in Trips, Entered(t), control[t].exit,
           openMints[run.mint[t]] = t, UNCHANGED <<run, now, openMints>>,
           NEW n \in 1 .. MaximumSellAttempts, now <= Landings(t)[n],
           NEW a, a.trip = t \/ a \notin scheduled, \A b \in Orders : b.trip = t => b = a,
           SellAgain(t, n, scheduled \ {a})
    PROVE  /\ HeapTyped' /\ Orders' = Orders \ {a}
           /\ \A b \in scheduled' : b \in scheduled \/ b.release > now
           /\ status' \in [Trips -> CopyStatuses] /\ control' \in [Trips -> Controls]
           /\ live' = {u \in Trips : status'[u] \in {"BUY_PENDING", "OPEN", "SELL_PENDING", "RETRY_WAIT"}}
           /\ \A u \in Trips \ {t} : status'[u] = status[u] /\ control'[u] = control[u]
           /\ \A b : b.trip # t => (b \in scheduled' <=> b \in scheduled)
           /\ InPosition(t)' /\ OrdersFit(t)' /\ Pursued(t)'
  <1>1. /\ control \in [Trips -> Controls] /\ HeapTyped /\ run \in Runs
        /\ now \in Nat /\ n \in Nat
    BY DEF CopyInv, CopyTyped, Books, Positions
  <1>r. /\ \A k : LastDecision(t, k)' = LastDecision(t, k)
        /\ Positions(run.clock)' = Positions(run.clock)
    BY CopyRunStays
  <1>2. CASE LastAttempt(n)
    <2>1. /\ Conclude(t, "EXHAUSTED") /\ scheduled' = scheduled \ {a}
          /\ control' = [control EXCEPT ![t].attempts = n, ![t].retry = OffClock]
      BY <1>2 DEF SellAgain
    <2>2. /\ status' \in [Trips -> CopyStatuses] /\ status'[t] = "EXHAUSTED"
          /\ \A u \in Trips \ {t} : status'[u] = status[u]
          /\ live' = {u \in Trips : status'[u] \in {"BUY_PENDING", "OPEN", "SELL_PENDING", "RETRY_WAIT"}}
      BY <2>1, StatusMoves DEF CopyStatuses
    <2>3. HeapTyped' /\ Orders' = Orders \ {a}
      BY <1>1, <2>1, HeapGives
    <2>4. /\ control' \in [Trips -> Controls]
          /\ \A u \in Trips \ {t} : control'[u] = control[u]
      <3>p. PICK p \in Int : p = OffClock
        BY DEF OffClock
      <3>1. control' = [control EXCEPT ![t].attempts = n, ![t].retry = p]
        BY <2>1, <3>p
      <3> QED BY <1>1, <3>1 DEF Controls
    <2>5. InPosition(t)' /\ OrdersFit(t)' /\ Pursued(t)'
      BY <2>2, <2>3 DEF InPosition, OrdersFit, Pursued, Holding
    <2>6. /\ \A b \in scheduled' : b \in scheduled \/ b.release > now
          /\ \A b : b.trip # t => (b \in scheduled' <=> b \in scheduled)
      BY <2>1
    <2> QED BY <2>2, <2>3, <2>4, <2>5, <2>6
  <1>3. CASE ~ LastAttempt(n)
    <2>o. PICK o : o = Action(Retry, Decision, t, "RETRY")
      OBVIOUS
    <2>1. /\ Await(t, "RETRY_WAIT") /\ scheduled' = (scheduled \ {a}) \cup {o}
          /\ control' = [control EXCEPT ![t].attempts = n, ![t].retry = Retry]
      BY <1>3, <2>o DEF SellAgain
    <2>2. /\ status' \in [Trips -> CopyStatuses] /\ status'[t] = "RETRY_WAIT"
          /\ \A u \in Trips \ {t} : status'[u] = status[u]
          /\ live' = {u \in Trips : status'[u] \in {"BUY_PENDING", "OPEN", "SELL_PENDING", "RETRY_WAIT"}}
      BY <2>1, StatusMoves DEF CopyStatuses
    <2>3. /\ n + 1 \in 1 .. MaximumSellAttempts
          /\ Retry \in Positions(run.clock) /\ now < Retry /\ Retry <= LastDecision(t, n + 1)
      BY <1>3, RetryInTime DEF LastAttempt
    <2>p. PICK p \in Positions(run.clock) : p = Retry
      BY <2>3
    <2>4. /\ Decision \in {Decision, Landing}
          /\ o = Action(p, Decision, t, "RETRY") /\ run' = run
          /\ Decision = Landing <=> "RETRY" \in {"BUY_LANDING", "SELL_LANDING"}
      BY <2>o, <2>p DEF Decision, Landing
    <2>5. /\ HeapTyped' /\ o.trip = t /\ o.release = p /\ o.phase = Decision
          /\ Orders' = Orders \ {a}
      <3>1. HeapTyped /\ now \in Nat /\ run' = run /\ Decision \in {Decision, Landing}
        BY <1>1, <2>4
      <3>2. Decision = Landing <=> "RETRY" \in {"BUY_LANDING", "SELL_LANDING"}
        BY <2>4
      <3>3. o = Action(p, Decision, t, "RETRY") /\ scheduled' = (scheduled \ {a}) \cup {o}
        BY <2>1, <2>4
      <3> QED BY <3>1, <3>2, <3>3, HeapTakes, SMTT(40)
    <2>6. p \in Nat /\ p \in Int
      BY DEF Positions
    <2>7. /\ control' \in [Trips -> Controls]
          /\ \A u \in Trips \ {t} : control'[u] = control[u]
          /\ control'[t].attempts = n /\ control'[t].retry = p
          /\ control'[t].exit = control[t].exit
      BY <1>1, <2>1, <2>p, <2>6 DEF Controls
    <2>8. InPosition(t)'
      <3>1. Limit(t)' = p /\ n < MaximumSellAttempts
        BY <1>3, <2>2, <2>7, CopyPolicy DEF Limit, LastAttempt
      <3>2. p <= LastDecision(t, n + 1)'
        BY <1>r, <2>3, <2>p
      <3> QED BY <1>r, <2>2, <2>7, <3>1, <3>2 DEF InPosition, Holding
    <2>9. OrdersFit(t)'
      BY <2>5 DEF OrdersFit
    <2>10. Pursued(t)'
      <3>1. Limit(t)' = p
        BY <2>2, <2>7 DEF Limit
      <3>2. Sells(t, p)'
        BY <2>2, <2>6, <2>7, <3>1 DEF Sells
      <3>3. o \in scheduled' /\ Sells(t, o.release)'
        BY <2>1, <2>5, <3>2 DEF Sells
      <3> QED BY <2>2, <2>5, <3>3 DEF Pursued, Holding
    <2>11. /\ \A b \in scheduled' : b \in scheduled \/ b.release > now
           /\ \A b : b.trip # t => (b \in scheduled' <=> b \in scheduled)
      BY <2>1, <2>3, <2>5, <2>p
    <2> QED BY <2>2, <2>5, <2>7, <2>8, <2>9, <2>10, <2>11
  <1> QED BY <1>2, <1>3

\* The request in hand is one of those of the boundary.
LEMMA HeadIsAsked ==
    ASSUME CopyInv, requests # <<>>
    PROVE  Head(requests) \in Asked /\ Head(requests).trip \in Trips /\ Head(requests).buy \in BOOLEAN
  <1>r. PICK R : R = [trip : Trips, buy : BOOLEAN]
    OBVIOUS
  <1>1. requests \in Seq(R)
    BY <1>r DEF CopyInv, CopyTyped
  <1>2. 1 \in DOMAIN requests /\ Head(requests) = requests[1] /\ requests[1] \in R
    BY <1>1
  <1> QED BY <1>r, <1>2 DEF Asked

\* An order is submitted.
LEMMA HeapAdds ==
    ASSUME HeapTyped, run' = run, now \in Nat, NEW t \in Trips, NEW due \in Positions(run.clock),
           NEW kind \in {"BUY_LANDING", "SELL_LANDING"},
           NEW o, o = Action(due, Landing, t, kind), scheduled' = scheduled \cup {o}
    PROVE  /\ HeapTyped'
           /\ o.trip = t /\ o.kind = kind /\ o.release = due
           /\ Orders' = Orders \cup {o}
  <1>1. o.trip = t /\ o.kind = kind /\ o.release = due /\ o.phase = Landing /\ o.creator = now
    BY DEF Action
  <1>2. IsFiniteSet(scheduled')
    BY FS_AddElement DEF HeapTyped
  <1>3. Positions(run.clock)' = Positions(run.clock)
    BY DEF Positions, TransactionCount
  <1>4. \A c \in scheduled' : c \in scheduled \/ c = o
    OBVIOUS
  <1>5. HeapTyped'
    BY <1>1, <1>2, <1>3, <1>4 DEF HeapTyped
  <1>6. Orders' = Orders \cup {o}
    BY <1>1 DEF Orders
  <1> QED BY <1>1, <1>5, <1>6

\* A buy that is refused loses its entry for good.
LEMMA BuyRefusedKeeps ==
    ASSUME CopyInv, stage = "requests", requests # <<>>, Served,
           NEW t \in Trips, t = Head(requests).trip, status[t] = "BUY_PENDING",
           \A a \in Orders : a.trip # t, BuyRefused(t)
    PROVE  CopyInv'
  <1>1. /\ Conclude(t, "BUY_FAILED") /\ UNCHANGED <<books, trip>> /\ scheduled' = scheduled
        /\ control' = control /\ run' = run /\ openMints' = openMints /\ Orders' = Orders
    BY DEF BuyRefused, Served, books, Orders
  <1>2. /\ status' \in [Trips -> CopyStatuses] /\ status'[t] = "BUY_FAILED"
        /\ \A u \in Trips \ {t} : status'[u] = status[u]
        /\ live' = {u \in Trips : status'[u] \in {"BUY_PENDING", "OPEN", "SELL_PENDING", "RETRY_WAIT"}}
    BY <1>1, StatusMoves DEF CopyStatuses
  <1>3. Books'
    <2>1. Books /\ UNCHANGED <<run, books, trip>>
      BY <1>1 DEF CopyInv
    <2> QED BY <1>1, <2>1, BooksStay
  <1>4. HeapTyped'
    BY <1>1 DEF CopyInv, CopyTyped, HeapTyped, Positions, TransactionCount
  <1>5. InPosition(t)' /\ OrdersFit(t)' /\ Pursued(t)'
    BY <1>1, <1>2 DEF InPosition, OrdersFit, Pursued, Holding
  <1>6. /\ control' \in [Trips -> Controls] /\ Entered(t)
        /\ \A u \in Trips \ {t} : /\ status'[u] = status[u] /\ control'[u] = control[u]
                                  /\ trip'[u] = trip[u]
    BY <1>1, <1>2 DEF CopyInv, CopyTyped, Entered
  <1>7. /\ \A a \in scheduled' : a \in scheduled \/ a.release > now
        /\ \A a : a.trip # t => (a \in scheduled' <=> a \in scheduled)
    BY <1>1
  <1> QED BY <1>1, <1>2, <1>3, <1>4, <1>5, <1>6, <1>7, ServeMoves

\* A buy that is submitted lands at the position the preflight expected.
LEMMA BuyInTime ==
    ASSUME CopyInv, AtCopyBoundary, NEW t \in Trips, Entered(t),
           run.launch[t] + ObservationDelay = now
    PROVE  /\ TransactionAfter(run.clock, now, BuyDelay) = BoughtAt(t)
           /\ BoughtAt(t) \in Positions(run.clock) /\ now < BoughtAt(t)
  <1>1. run \in Runs /\ now \in Nat /\ IsClock(run.clock)
    BY RunFacts DEF CopyInv, CopyTyped, Books, Positions
  <1>2. BoughtAt(t) \in Positions(run.clock) /\ BoughtAt(t) = now + BuyDelay
    BY <1>1, EnteredFits, SettlementsOnClock
  <1>3. now + BuyDelay < TransactionCount(run.clock) /\ TransactionCount(run.clock) \in Nat
    BY <1>1, <1>2, CountIsNatural DEF Positions
  <1>4. TransactionAfter(run.clock, now, BuyDelay) = now + BuyDelay
    BY <1>1, <1>3 DEF TransactionAfter, OffClock
  <1> QED BY <1>1, <1>2, <1>4, DelaysArePositive

\* A buy that is submitted keeps the invariant.
LEMMA BuySubmittedKeeps ==
    ASSUME CopyInv, stage = "requests", requests # <<>>, Served,
           NEW t \in Trips, t = Head(requests).trip, status[t] = "BUY_PENDING",
           run.launch[t] + ObservationDelay = now,
           \A a \in Orders : a.trip # t, NEW fee \in Fees, BuySubmitted(t, fee)
    PROVE  CopyInv'
  <1>1. /\ Copied(t) /\ HeapTyped /\ now \in Nat /\ Books /\ BooksTyped /\ AtCopyBoundary
        /\ status \in [Trips -> CopyStatuses] /\ control \in [Trips -> Controls]
        /\ live = {u \in Trips : status[u] \in {"BUY_PENDING", "OPEN", "SELL_PENDING", "RETRY_WAIT"}}
    BY DEF CopyInv, CopyTyped, AtCopyBoundary, Positions, Books
  <1>e. Entered(t) /\ Untouched(t)
    BY <1>1 DEF Entered, Copied, InPosition
  <1>p. PICK p \in Positions(run.clock) : p = BoughtAt(t) /\ now < p
    BY <1>1, <1>e, BuyInTime
  <1>o. PICK o : o = Action(p, Landing, t, "BUY_LANDING")
    OBVIOUS
  <1>2. /\ HasAvailable(BuyReservation(fee, UvaReservation)) /\ SubmitBuy(t, fee)
        /\ UNCHANGED <<status, live, control>> /\ run' = run
    BY DEF BuySubmitted, Served
  <1>3. scheduled' = scheduled \cup {o}
    BY <1>1, <1>e, <1>p, <1>o, BuyInTime DEF BuySubmitted
  <1>5. HeapTyped' /\ o.trip = t /\ o.kind = "BUY_LANDING" /\ o.release = p
        /\ Orders' = Orders \cup {o}
    <2>1. HeapTyped /\ run' = run /\ now \in Nat
      BY <1>1, <1>2
    <2>2. "BUY_LANDING" \in {"BUY_LANDING", "SELL_LANDING"}
      OBVIOUS
    <2> QED BY <1>o, <1>3, <2>1, <2>2, HeapAdds
  <1>6. Books'
    BY <1>1, <1>2, <1>e, <1>5, SubmitBuyKeepsBooks
  <1>7. openMints' = openMints /\ \A u \in Trips \ {t} : trip'[u] = trip[u]
    BY <1>1, <1>2 DEF SubmitBuy, BooksTyped
  <1>8. Untouched(t)'
    BY <1>1, <1>2, <1>e, TripFields DEF SubmitBuy, BooksTyped, Untouched
  <1>9. InPosition(t)'
    BY <1>1, <1>2, <1>7, <1>8 DEF InPosition, Copied, Holding
  <1>10. OrdersFit(t)'
    BY <1>2, <1>5, <1>p, CopyRunStays DEF OrdersFit
  <1>11. Pursued(t)'
    BY <1>2, <1>5 DEF Pursued, Holding
  <1>12. /\ \A b \in scheduled' : b \in scheduled \/ b.release > now
         /\ \A b : b.trip # t => (b \in scheduled' <=> b \in scheduled)
    BY <1>1, <1>3, <1>5, <1>p
  <1>13. /\ status' \in [Trips -> CopyStatuses] /\ control' \in [Trips -> Controls]
         /\ live' = {u \in Trips : status'[u] \in {"BUY_PENDING", "OPEN", "SELL_PENDING", "RETRY_WAIT"}}
         /\ \A u \in Trips \ {t} : /\ status'[u] = status[u] /\ control'[u] = control[u]
                                   /\ trip'[u] = trip[u]
    BY <1>1, <1>2, <1>7
  <1> QED BY <1>e, <1>5, <1>6, <1>7, <1>9, <1>10, <1>11, <1>12, <1>13, ServeMoves

\* A request to buy is served without an error.
LEMMA BeginBuyKeeps ==
    ASSUME CopyInv, stage = "requests", requests # <<>>,
           NEW t \in Trips, t = Head(requests).trip, Head(requests).buy, BeginBuy(t)
    PROVE  CopyInv'
  <1>r. PICK r \in Asked : r = Head(requests)
    BY HeadIsAsked
  <1>1. /\ status[t] = "BUY_PENDING" /\ run.launch[t] + ObservationDelay = now
        /\ \A a \in Orders : a.trip # t
    BY <1>r DEF CopyInv, Copied, RequestsFit
  <1>2. BeginBuyError(t) = None
    <2>1. Entered(t) /\ AtCopyBoundary
      BY <1>1 DEF Entered, AtCopyBoundary
    <2>2. MaximumSettlement(t) # OffClock
      BY <2>1, EnteredFits
    <2>3. openMints[run.mint[t]] = None
      BY <1>1, MintIsFree
    <2> QED BY <1>1, <2>2, <2>3 DEF BeginBuyError
  <1>3. Served /\ (BuyRefused(t) \/ \E fee \in Fees : BuySubmitted(t, fee))
    <2>1. BeginBuy(t) = IF BeginBuyError(t) # None THEN CopyAbort(BeginBuyError(t))
                        ELSE (BuyRefused(t) \/ \E fee \in Fees : BuySubmitted(t, fee)) /\ Served
      BY Zenon DEF BeginBuy
    <2> QED BY <1>2, <2>1, Zenon
  <1>4. CASE BuyRefused(t)
    BY <1>1, <1>3, <1>4, BuyRefusedKeeps
  <1>5. ASSUME NEW fee \in Fees, BuySubmitted(t, fee) PROVE CopyInv'
    BY <1>1, <1>3, <1>5, BuySubmittedKeeps
  <1> QED BY <1>3, <1>4, <1>5

\* Something that is no action.
LEMMA NoAction ==
    ASSUME HeapTyped
    PROVE  \E a : a \notin scheduled
  <1>a. PICK a : a = [trip |-> None]
    OBVIOUS
  <1>1. a.trip \notin Trips
    BY <1>a, TripsAreFinite
  <1> QED BY <1>1 DEF HeapTyped

\* What a request to sell relies on.
LEMMA SaleFacts ==
    ASSUME CopyInv, AtCopyBoundary, NEW t \in Trips, Holding(t)
    PROVE  /\ Copied(t) /\ HeapTyped /\ now \in Nat /\ Books /\ BooksTyped /\ Entered(t)
           /\ status \in [Trips -> CopyStatuses] /\ control \in [Trips -> Controls]
           /\ control[t].attempts \in Nat
           /\ openMints[run.mint[t]] = t
           /\ \A a \in Orders : a.trip # t
  <1>1. /\ Copied(t) /\ HeapTyped /\ now \in Nat /\ Books /\ BooksTyped
        /\ status \in [Trips -> CopyStatuses] /\ control \in [Trips -> Controls]
    BY DEF CopyInv, CopyTyped, Positions, Books
  <1>2. control[t].attempts \in Nat
    BY <1>1 DEF Controls
  <1>3. Entered(t) /\ openMints[run.mint[t]] = t
    BY <1>1 DEF Entered, Holding, Copied, InPosition
  <1>4. \A a \in Orders : a.trip # t
    BY <1>1 DEF Holding, Copied, OrdersFit
  <1> QED BY <1>1, <1>2, <1>3, <1>4

\* A sell that is refused counts as an attempt.
LEMMA SellRefusedKeeps ==
    ASSUME CopyInv, stage = "requests", requests # <<>>,
           NEW t \in Trips, t = Head(requests).trip, Holding(t), control[t].exit, now <= Limit(t),
           SellRefused(t)
    PROVE  CopyInv'
  <1>0. AtCopyBoundary
    BY DEF AtCopyBoundary
  <1>1. /\ HeapTyped /\ now \in Nat /\ Books /\ Entered(t) /\ openMints[run.mint[t]] = t
        /\ \A a \in Orders : a.trip # t
    BY <1>0, SaleFacts
  <1>n. PICK n : n = control[t].attempts + 1
    OBVIOUS
  <1>l. PICK l : l = Landings(t)[n]
    OBVIOUS
  <1>2. n \in 1 .. MaximumSellAttempts /\ now < l
    <2>d. PICK due : due = TransactionAfter(run.clock, now, SellDelay)
      OBVIOUS
    <2> QED BY <1>0, <1>n, <1>l, <2>d, SaleInTime
  <1>3. l \in Nat
    BY <1>0, <1>1, <1>2, <1>l, EnteredFits, SettlementsOnClock DEF Books, Positions
  <1>4. now <= Landings(t)[n]
    BY <1>1, <1>2, <1>3, <1>l
  <1>5. FailSellError(n) = None
    BY <1>0, <1>1, <1>2, <1>4, RetryInTime DEF FailSellError, LastAttempt
  <1>6. SellAgain(t, n, scheduled) /\ UNCHANGED <<books, trip>> /\ Served
    BY <1>5, <1>n DEF SellRefused
  <1>a. PICK a : a \notin scheduled
    BY <1>1, NoAction
  <1>7. scheduled \ {a} = scheduled /\ Orders \ {a} = Orders
    BY <1>a DEF Orders
  <1>8. SellAgain(t, n, scheduled \ {a})
    BY <1>6, <1>7
  <1>9. UNCHANGED <<run, now, openMints>>
    BY <1>6 DEF Served, books
  <1>10. \A b \in Orders : b.trip = t => b = a
    BY <1>1
  <1>11. /\ HeapTyped' /\ Orders' = Orders
         /\ \A b \in scheduled' : b \in scheduled \/ b.release > now
         /\ status' \in [Trips -> CopyStatuses] /\ control' \in [Trips -> Controls]
         /\ live' = {u \in Trips : status'[u] \in {"BUY_PENDING", "OPEN", "SELL_PENDING", "RETRY_WAIT"}}
         /\ \A u \in Trips \ {t} : status'[u] = status[u] /\ control'[u] = control[u]
         /\ \A b : b.trip # t => (b \in scheduled' <=> b \in scheduled)
         /\ InPosition(t)' /\ OrdersFit(t)' /\ Pursued(t)'
    BY <1>0, <1>1, <1>2, <1>4, <1>a, <1>7, <1>8, <1>9, <1>10, SellsAgain
  <1>12. Books'
    <2>1. UNCHANGED <<run, books, trip>>
      BY <1>6, <1>9
    <2> QED BY <1>1, <1>11, <2>1, BooksStay
  <1>13. \A u \in Trips \ {t} : /\ status'[u] = status[u] /\ control'[u] = control[u]
                                /\ trip'[u] = trip[u]
    BY <1>6, <1>11
  <1> QED BY <1>1, <1>6, <1>9, <1>11, <1>12, <1>13, ServeMoves

\* A sell that is submitted keeps the invariant.
LEMMA SellSubmittedKeeps ==
    ASSUME CopyInv, stage = "requests", requests # <<>>,
           NEW t \in Trips, t = Head(requests).trip, Holding(t), control[t].exit, now <= Limit(t),
           NEW fee \in Fees, SellSubmitted(t, fee)
    PROVE  CopyInv'
  <1>0. AtCopyBoundary
    BY DEF AtCopyBoundary
  <1>1. /\ HeapTyped /\ now \in Nat /\ Books /\ BooksTyped /\ Entered(t)
        /\ openMints[run.mint[t]] = t /\ control \in [Trips -> Controls]
        /\ control[t].attempts \in Nat /\ \A a \in Orders : a.trip # t
    BY <1>0, SaleFacts
  <1>n. PICK n : n = control[t].attempts + 1
    OBVIOUS
  <1>d. PICK due : due = TransactionAfter(run.clock, now, SellDelay)
    OBVIOUS
  <1>2. /\ n \in 1 .. MaximumSellAttempts
        /\ due \in Positions(run.clock) /\ now < due /\ due <= Landings(t)[n]
    BY <1>0, <1>n, <1>d, SaleInTime
  <1>o. PICK o : o = Action(due, Landing, t, "SELL_LANDING")
    OBVIOUS
  <1>f. PICK off \in Int : off = OffClock
    BY DEF OffClock
  <1>3. /\ HasAvailable(SellReservation(t, fee)) /\ SubmitSell(t, fee)
        /\ control' = [control EXCEPT ![t].attempts = n, ![t].retry = off]
        /\ Await(t, "SELL_PENDING") /\ scheduled' = scheduled \cup {o} /\ Served
    BY <1>n, <1>d, <1>o, <1>f DEF SellSubmitted
  <1>4. HeapTyped' /\ o.trip = t /\ o.kind = "SELL_LANDING" /\ o.release = due
        /\ Orders' = Orders \cup {o}
    <2>1. run' = run
      BY <1>3 DEF Served
    <2>2. "SELL_LANDING" \in {"BUY_LANDING", "SELL_LANDING"}
      OBVIOUS
    <2> QED BY <1>1, <1>2, <1>o, <1>3, <2>1, <2>2, HeapAdds
  <1>5. Books' /\ run' = run
    BY <1>1, <1>3, <1>4, SubmitSellKeepsBooks DEF Served
  <1>6. openMints' = openMints /\ \A u \in Trips \ {t} : trip'[u] = trip[u]
    BY <1>1, <1>3 DEF SubmitSell, BooksTyped
  <1>7. /\ status' \in [Trips -> CopyStatuses] /\ status'[t] = "SELL_PENDING"
        /\ \A u \in Trips \ {t} : status'[u] = status[u]
        /\ live' = {u \in Trips : status'[u] \in {"BUY_PENDING", "OPEN", "SELL_PENDING", "RETRY_WAIT"}}
    BY <1>3, StatusMoves DEF CopyStatuses
  <1>8. /\ control' \in [Trips -> Controls]
        /\ \A u \in Trips \ {t} : control'[u] = control[u]
        /\ control'[t].attempts = n /\ control'[t].exit = control[t].exit
    <2>1. n \in Nat
      BY <1>2
    <2> QED BY <1>1, <1>3, <2>1, ZenonT(40) DEF Controls
  <1>9. InPosition(t)'
    BY <1>1, <1>2, <1>5, <1>6, <1>7, <1>8 DEF InPosition, Holding
  <1>10. OrdersFit(t)'
    BY <1>1, <1>2, <1>4, <1>5, <1>7, <1>8, CopyRunStays DEF OrdersFit
  <1>11. Pursued(t)'
    BY <1>4, <1>7 DEF Pursued, Holding
  <1>12. /\ \A b \in scheduled' : b \in scheduled \/ b.release > now
         /\ \A b : b.trip # t => (b \in scheduled' <=> b \in scheduled)
    BY <1>1, <1>2, <1>3, <1>4 DEF Positions
  <1>13. \A u \in Trips \ {t} : /\ status'[u] = status[u] /\ control'[u] = control[u]
                                /\ trip'[u] = trip[u]
    BY <1>6, <1>7, <1>8
  <1> QED BY <1>1, <1>3, <1>4, <1>5, <1>6, <1>7, <1>8, <1>9, <1>10, <1>11, <1>12, <1>13, ServeMoves

\* A request to sell is served without an error.
LEMMA BeginSellKeeps ==
    ASSUME CopyInv, stage = "requests", requests # <<>>,
           NEW t \in Trips, t = Head(requests).trip, ~ Head(requests).buy, BeginSell(t)
    PROVE  CopyInv'
  <1>r. PICK r \in Asked : r = Head(requests)
    BY HeadIsAsked
  <1>1. Holding(t) /\ control[t].exit /\ now <= Limit(t) /\ AtCopyBoundary
    BY <1>r DEF CopyInv, Copied, RequestsFit, AtCopyBoundary
  <1>2. BeginSellError(t) = None
    <2>1. control[t].attempts \in Nat
      BY <1>1, SaleFacts
    <2>2. control[t].attempts < MaximumSellAttempts
      BY <1>1 DEF CopyInv, Copied, InPosition
    <2>d. PICK due : due = TransactionAfter(run.clock, now, SellDelay)
      OBVIOUS
    <2>3. DueError(due) = None
      BY <1>1, <2>d, SaleInTime
    <2>4. ~ (control[t].attempts >= MaximumSellAttempts)
      BY <2>1, <2>2, CopyPolicy
    <2> QED BY <1>1, <2>d, <2>3, <2>4 DEF BeginSellError, Holding
  <1>3. SellRefused(t) \/ \E fee \in Fees : SellSubmitted(t, fee)
    <2>1. BeginSell(t) = IF BeginSellError(t) # None THEN CopyAbort(BeginSellError(t))
                         ELSE SellRefused(t) \/ \E fee \in Fees : SellSubmitted(t, fee)
      BY Zenon DEF BeginSell
    <2> QED BY <1>2, <2>1, Zenon
  <1>4. CASE SellRefused(t)
    BY <1>1, <1>4, SellRefusedKeeps
  <1>5. ASSUME NEW fee \in Fees, SellSubmitted(t, fee) PROVE CopyInv'
    BY <1>1, <1>5, SellSubmittedKeeps
  <1> QED BY <1>3, <1>4, <1>5

\* The requests of a boundary are served without an error.
LEMMA ServeRequestKeeps == CopyInv /\ ServeRequest => CopyInv'
  <1> SUFFICES ASSUME CopyInv, ServeRequest PROVE CopyInv'
    OBVIOUS
  <1>1. stage = "requests" /\ requests # <<>>
    BY DEF ServeRequest, Reached
  <1>t. PICK t \in Trips : t = Head(requests).trip
    BY <1>1, HeadIsAsked
  <1>2. CASE Head(requests).buy /\ BeginBuy(t)
    BY <1>1, <1>2, <1>t, BeginBuyKeeps
  <1>3. CASE ~ Head(requests).buy /\ BeginSell(t)
    BY <1>1, <1>3, <1>t, BeginSellKeeps
  <1> QED BY <1>t, <1>2, <1>3 DEF ServeRequest

\* Only orders are due once the requests of a boundary have been served.
LEMMA CopyDueLandings ==
    ASSUME CopyInv, stage = "landings", NEW a \in DueUpTo(Landing)
    PROVE  /\ a \in Orders /\ a \in scheduled /\ a.trip \in Trips /\ a.release = now /\ a.phase = Landing
           /\ a.kind \in {"BUY_LANDING", "SELL_LANDING"}
           /\ \A b \in Orders : b.trip = a.trip => b = a
           /\ Copied(a.trip) /\ Entered(a.trip)
  <1>1. a \in scheduled /\ a.release = now /\ now \in Nat
    BY DEF DueUpTo, Heads, CopyInv, CopyTyped, AtCopyBoundary, Positions
  <1>2. a.phase = Landing /\ a.trip \in Trips /\ a.kind \in {"BUY_LANDING", "SELL_LANDING"}
    BY <1>1 DEF CopyInv, CopyTyped, HeapTyped, CopyOnTime
  <1>3. a \in Orders /\ \A b \in Orders : b.trip = a.trip => b = a
    BY <1>1, <1>2 DEF Orders, CopyInv, Books, OneOrderEach
  <1>4. Copied(a.trip)
    BY <1>2 DEF CopyInv
  <1>5. Entered(a.trip)
    BY <1>3, <1>4 DEF Copied, OrdersFit, Entered
  <1> QED BY <1>1, <1>2, <1>3, <1>4, <1>5

\* A trip moves on with a landing.
LEMMA LandingMoves ==
    ASSUME CopyInv, stage = "landings",
           UNCHANGED <<run, now, stage, raised, callbacks, requests>>,
           NEW t \in Trips, Entered(t),
           Books', HeapTyped', \A a \in scheduled' : a \in scheduled \/ a.release > now,
           status' \in [Trips -> CopyStatuses], control' \in [Trips -> Controls],
           live' = {u \in Trips : status'[u] \in {"BUY_PENDING", "OPEN", "SELL_PENDING", "RETRY_WAIT"}},
           \A u \in Trips \ {t} : /\ status'[u] = status[u] /\ control'[u] = control[u]
                                  /\ trip'[u] = trip[u],
           \A u \in Trips \ {t} :
                \/ openMints'[run.mint[u]] = openMints[run.mint[u]]
                \/ /\ status[u] \notin {"OPEN", "RETRY_WAIT", "SELL_PENDING"}
                   /\ openMints'[run.mint[u]] # u,
           \A a : a.trip # t => (a \in scheduled' <=> a \in scheduled),
           InPosition(t)', OrdersFit(t)', Pursued(t)'
    PROVE  CopyInv'
  <1>1. /\ UNCHANGED <<run, now, stage, raised>> /\ callbacks' = callbacks /\ requests' = requests
        /\ callbacks = {} /\ requests = <<>> /\ AtCopyBoundary
    BY DEF CopyInv, CopyTyped, AtCopyBoundary
  <1>2. Asked' = {} /\ Asked = {}
    BY <1>1 DEF Asked
  <1>3. RequestsKept
    BY <1>1 DEF RequestsKept
  <1>4. OthersKept(t)
    BY <1>1, <1>2 DEF OthersKept
  <1>5. RequestsFit(t)' /\ SignalsFit(t)'
    BY <1>1, <1>2 DEF RequestsFit, SignalsFit
  <1>6. Copied(t)'
    BY <1>5 DEF Copied
  <1>7. Entered(t)' => InRange(t) /\ \A u \in Trips \ {t} : Entered(u) => run.mint[u] # run.mint[t]
    BY EnteredAlone
  <1> QED BY <1>1, <1>3, <1>4, <1>6, <1>7, CopyMoves

\* The account of a mint changes hands only for the position that entered it.
LEMMA OthersKeepMints ==
    ASSUME CopyInv, NEW t \in Trips, Entered(t), NEW x \in {t, None},
           openMints' = [openMints EXCEPT ![run.mint[t]] = x], NEW u \in Trips \ {t}
    PROVE  \/ openMints'[run.mint[u]] = openMints[run.mint[u]]
           \/ /\ status[u] \notin {"OPEN", "RETRY_WAIT", "SELL_PENDING"}
              /\ openMints'[run.mint[u]] # u
  <1>1. /\ run.mint[t] \in Mints /\ run.mint[u] \in Mints
        /\ openMints \in [Mints -> Trips \cup {None}]
    BY RunFacts DEF CopyInv, Books, BooksTyped
  <1>2. CASE run.mint[u] # run.mint[t]
    BY <1>1, <1>2
  <1>3. CASE run.mint[u] = run.mint[t]
    <2>1. ~ Entered(u)
      BY <1>3, EnteredAlone
    <2>2. openMints'[run.mint[u]] = x /\ x # u
      BY <1>1, <1>3, TripsAreFinite
    <2> QED BY <2>1, <2>2 DEF Entered
  <1> QED BY <1>2, <1>3

\* What a landing relies on.
LEMMA LandingFacts ==
    ASSUME CopyInv, stage = "landings", NEW a \in DueUpTo(Landing), NEW t \in Trips, t = a.trip
    PROVE  /\ AtCopyBoundary /\ HeapTyped /\ now \in Positions(run.clock) /\ now \in Nat
           /\ Books /\ BooksTyped /\ run \in Runs /\ IsClock(run.clock)
           /\ status \in [Trips -> CopyStatuses] /\ control \in [Trips -> Controls]
           /\ a.kind = "BUY_LANDING" =>
                /\ status[t] = "BUY_PENDING" /\ now = BoughtAt(t) /\ openMints[run.mint[t]] = None
                /\ control[t].attempts = 0
           /\ a.kind = "SELL_LANDING" =>
                /\ status[t] = "SELL_PENDING" /\ openMints[run.mint[t]] = t /\ control[t].exit
                /\ control[t].attempts \in 1 .. MaximumSellAttempts
                /\ now <= Landings(t)[control[t].attempts]
  <1>1. /\ AtCopyBoundary /\ HeapTyped /\ now \in Positions(run.clock) /\ now \in Nat
        /\ Books /\ BooksTyped /\ run \in Runs
        /\ status \in [Trips -> CopyStatuses] /\ control \in [Trips -> Controls]
    BY DEF CopyInv, CopyTyped, AtCopyBoundary, Books, Positions
  <1>2. IsClock(run.clock)
    BY <1>1, RunFacts
  <1>3. a \in Orders /\ a.release = now /\ Copied(t)
    BY CopyDueLandings
  <1>4. ASSUME a.kind = "BUY_LANDING"
        PROVE  /\ status[t] = "BUY_PENDING" /\ now = BoughtAt(t) /\ openMints[run.mint[t]] = None
               /\ control[t].attempts = 0
    <2>1. status[t] = "BUY_PENDING" /\ now = BoughtAt(t)
      BY <1>3, <1>4 DEF Copied, OrdersFit
    <2>2. control[t].attempts = 0
      BY <1>3, <2>1 DEF Copied, InPosition
    <2> QED BY <2>1, <2>2, MintIsFree
  <1>5. ASSUME a.kind = "SELL_LANDING"
        PROVE  /\ status[t] = "SELL_PENDING" /\ openMints[run.mint[t]] = t /\ control[t].exit
               /\ control[t].attempts \in 1 .. MaximumSellAttempts
               /\ now <= Landings(t)[control[t].attempts]
    <2>1. status[t] = "SELL_PENDING" /\ now <= Landings(t)[control[t].attempts]
      BY <1>3, <1>5 DEF Copied, OrdersFit
    <2> QED BY <1>3, <2>1 DEF Copied, InPosition
  <1> QED BY <1>1, <1>2, <1>4, <1>5

\* A landing that ends its position.
LEMMA CopyConcludes ==
    ASSUME CopyInv, stage = "landings", NEW a \in DueUpTo(Landing), NEW t \in Trips, t = a.trip,
           NEW outcome \in {"BUY_FAILED", "CLOSED"}, Conclude(t, outcome), scheduled' = scheduled \ {a},
           UNCHANGED <<run, now, stage, raised, control, callbacks, requests>>, Books',
           \A u \in Trips \ {t} : trip'[u] = trip[u],
           \A u \in Trips \ {t} :
                \/ openMints'[run.mint[u]] = openMints[run.mint[u]]
                \/ /\ status[u] \notin {"OPEN", "RETRY_WAIT", "SELL_PENDING"}
                   /\ openMints'[run.mint[u]] # u
    PROVE  CopyInv'
  <1>1. /\ a.trip = t /\ a \in scheduled /\ HeapTyped /\ Entered(t)
        /\ \A b \in Orders : b.trip = t => b = a
    BY LandingFacts, CopyDueLandings
  <1>2. /\ status' \in [Trips -> CopyStatuses] /\ status'[t] = outcome
        /\ \A u \in Trips \ {t} : status'[u] = status[u]
        /\ live' = {u \in Trips : status'[u] \in {"BUY_PENDING", "OPEN", "SELL_PENDING", "RETRY_WAIT"}}
    <2>1. /\ outcome \in CopyStatuses
          /\ outcome \notin {"BUY_PENDING", "OPEN", "SELL_PENDING", "RETRY_WAIT"}
      BY DEF CopyStatuses
    <2> QED BY <2>1, StatusMoves
  <1>3. HeapTyped' /\ Orders' = Orders \ {a}
    BY <1>1, HeapGives
  <1>4. InPosition(t)' /\ OrdersFit(t)' /\ Pursued(t)'
    BY <1>1, <1>2, <1>3 DEF InPosition, OrdersFit, Pursued, Holding
  <1>5. /\ control' \in [Trips -> Controls]
        /\ \A u \in Trips \ {t} : /\ status'[u] = status[u] /\ control'[u] = control[u]
                                  /\ trip'[u] = trip[u]
    BY <1>2 DEF CopyInv, CopyTyped
  <1>6. /\ \A b \in scheduled' : b \in scheduled \/ b.release > now
        /\ \A b : b.trip # t => (b \in scheduled' <=> b \in scheduled)
    BY <1>1
  <1>7. UNCHANGED <<run, now, stage, raised, callbacks, requests>>
    OBVIOUS
  <1> QED BY <1>1, <1>2, <1>3, <1>4, <1>5, <1>6, <1>7, LandingMoves

\* A buy that fails at its landing.
LEMMA CopyBuyFailedKeeps ==
    ASSUME CopyInv, stage = "landings", NEW a \in DueUpTo(Landing), a.kind = "BUY_LANDING",
           CopyBuyFailed(a)
    PROVE  CopyInv'
  <1>t. PICK t \in Trips : t = a.trip
    BY CopyDueLandings
  <1>1. /\ Books /\ BooksTyped /\ openMints[run.mint[t]] = None /\ a \in Orders
        /\ a.phase = Landing
    BY <1>t, LandingFacts, CopyDueLandings
  <1>2. BuyLandingError(t, FeeOnly(trip[t].fee)) = None
    BY <1>1, <1>t, BuyLands
  <1>3. /\ FailBuy(t) /\ Conclude(t, "BUY_FAILED") /\ scheduled' = scheduled \ {a}
        /\ UNCHANGED <<run, now, stage, raised, control, callbacks, requests>>
    BY <1>2, <1>t DEF CopyBuyFailed
  <1>4. Books'
    <2>1. run' = run /\ Orders' = Orders \ {a}
      BY <1>3 DEF Orders
    <2> QED BY <1>1, <1>3, <1>t, <2>1, FailBuyKeepsBooks
  <1>5. openMints' = openMints /\ \A u \in Trips \ {t} : trip'[u] = trip[u]
    BY <1>1, <1>3 DEF FailBuy, BooksTyped
  <1> QED BY <1>t, <1>3, <1>4, <1>5, CopyConcludes

\* A position that is bought is due for its sell in time.
LEMMA HoldInTime ==
    ASSUME CopyInv, AtCopyBoundary, NEW t \in Trips, Entered(t), now = BoughtAt(t),
           NEW exit \in BOOLEAN, NEW deadline, deadline = HoldingDeadline(run.clock, now, HoldTime),
           NEW next, next = IF exit THEN TransactionAfter(run.clock, now, 1) ELSE deadline
    PROVE  /\ deadline \in Positions(run.clock) /\ deadline # OffClock /\ deadline = LastDecision(t, 1)
           /\ next \in Positions(run.clock) /\ now < next /\ next <= deadline
           /\ DueError(next) = None /\ (exit \/ next = deadline)
  <1>1. now \in Positions(run.clock) /\ now \in Nat /\ IsClock(run.clock) /\ run \in Runs
    BY RunFacts DEF CopyInv, CopyTyped, Books, Positions
  <1>2. 1 \in 1 .. MaximumSellAttempts
    BY CopyPolicy
  <1>3. deadline = LastDecision(t, 1)
    BY DEF LastDecision
  <1>4. deadline \in Positions(run.clock)
    BY <1>1, <1>2, <1>3, EnteredFits, SettlementsOnClock
  <1>5. deadline # OffClock /\ deadline \in Nat
    BY <1>4 DEF Positions, OffClock
  <1>6. now < deadline
    BY <1>1, <1>5, HoldingIsLater, AmountsAreNatural
  <1>7. next \in Positions(run.clock) /\ now < next /\ next <= deadline /\ (exit \/ next = deadline)
    <2>1. CASE exit
      <3>1. TransactionCount(run.clock) \in Nat /\ deadline < TransactionCount(run.clock)
        BY <1>1, <1>4, CountIsNatural DEF Positions
      <3>2. now + 1 < TransactionCount(run.clock)
        BY <1>1, <1>5, <1>6, <3>1
      <3>3. next = now + 1
        BY <1>1, <2>1, <3>2 DEF TransactionAfter, OffClock
      <3>4. next \in Positions(run.clock)
        BY <1>1, <3>1, <3>2, <3>3 DEF Positions
      <3> QED BY <1>1, <1>5, <1>6, <2>1, <3>3, <3>4
    <2>2. CASE ~ exit
      BY <1>1, <1>4, <1>5, <1>6, <2>2
    <2> QED BY <2>1, <2>2
  <1>8. DueError(next) = None
    <2>1. next \in Nat /\ next # OffClock
      BY <1>7 DEF Positions, OffClock
    <2> QED BY <1>1, <1>7, <2>1 DEF DueError
  <1> QED BY <1>3, <1>4, <1>5, <1>7, <1>8

\* A buy that fills opens its position.
LEMMA CopyBuyFilledKeeps ==
    ASSUME CopyInv, stage = "landings", NEW a \in DueUpTo(Landing), a.kind = "BUY_LANDING",
           NEW paid \in Paid, NEW tokens \in Tokens, NEW exit \in BOOLEAN,
           CopyBuyFilled(a, paid, tokens, exit)
    PROVE  CopyInv'
  <1>t. PICK t \in Trips : t = a.trip
    BY CopyDueLandings
  <1>1. /\ Books /\ BooksTyped /\ HeapTyped /\ AtCopyBoundary /\ openMints[run.mint[t]] = None
        /\ now = BoughtAt(t) /\ now \in Nat /\ control \in [Trips -> Controls]
        /\ control[t].attempts = 0 /\ run \in Runs
    BY <1>t, LandingFacts
  <1>2. /\ a \in Orders /\ a \in scheduled /\ Entered(t)
        /\ \A b \in Orders : b.trip = t => b = a
    BY <1>t, CopyDueLandings
  <1>3. BuyLandingError(t, BuySpent(t, paid)) = None
    BY <1>1, <1>2, <1>t, BuyLands
  <1>d. PICK deadline : deadline = HoldingDeadline(run.clock, now, HoldTime)
    OBVIOUS
  <1>n. PICK next : next = IF exit THEN TransactionAfter(run.clock, now, 1) ELSE deadline
    OBVIOUS
  <1>4. /\ deadline \in Positions(run.clock) /\ deadline # OffClock /\ deadline = LastDecision(t, 1)
        /\ next \in Positions(run.clock) /\ now < next /\ next <= deadline
        /\ DueError(next) = None /\ (exit \/ next = deadline)
    BY <1>1, <1>2, <1>d, <1>n, HoldInTime
  <1>k. PICK kind \in {"EXIT", "HOLD"} : kind = IF exit THEN "EXIT" ELSE "HOLD"
    OBVIOUS
  <1>o. PICK o : o = Action(next, Decision, t, kind)
    OBVIOUS
  <1>5. /\ FillBuy(t, paid, tokens) /\ Await(t, "OPEN")
        /\ control' = [control EXCEPT ![t].deadline = deadline, ![t].exit = exit]
        /\ scheduled' = (scheduled \ {a}) \cup {o}
        /\ UNCHANGED <<run, now, stage, raised, callbacks, requests>>
    BY <1>3, <1>4, <1>d, <1>n, <1>k, <1>o, <1>t DEF CopyBuyFilled
  <1>6. HeapTyped' /\ o.trip = t /\ o.release = next /\ o.phase = Decision /\ Orders' = Orders \ {a}
    <2>1. HeapTyped /\ now \in Nat /\ run' = run /\ Decision \in {Decision, Landing}
      BY <1>1, <1>5
    <2>2. Decision = Landing <=> kind \in {"BUY_LANDING", "SELL_LANDING"}
      BY <1>k DEF Decision, Landing
    <2>3. o = Action(next, Decision, t, kind) /\ scheduled' = (scheduled \ {a}) \cup {o}
      BY <1>5, <1>o
    <2>4. next \in Positions(run.clock)
      BY <1>4
    <2> QED BY <2>1, <2>2, <2>3, <2>4, HeapTakes
  <1>7. Books'
    BY <1>1, <1>2, <1>5, <1>6, <1>t, FillBuyKeepsBooks
  <1>8. /\ openMints' = [openMints EXCEPT ![run.mint[t]] = t] /\ openMints'[run.mint[t]] = t
        /\ \A u \in Trips \ {t} : trip'[u] = trip[u]
    BY <1>1, <1>5, RunFacts DEF FillBuy, BooksTyped
  <1>9. \A u \in Trips \ {t} :
                \/ openMints'[run.mint[u]] = openMints[run.mint[u]]
                \/ /\ status[u] \notin {"OPEN", "RETRY_WAIT", "SELL_PENDING"}
                   /\ openMints'[run.mint[u]] # u
    BY <1>2, <1>8, OthersKeepMints
  <1>10. /\ status' \in [Trips -> CopyStatuses] /\ status'[t] = "OPEN"
         /\ \A u \in Trips \ {t} : status'[u] = status[u]
         /\ live' = {u \in Trips : status'[u] \in {"BUY_PENDING", "OPEN", "SELL_PENDING", "RETRY_WAIT"}}
    BY <1>5, StatusMoves DEF CopyStatuses
  <1>11. deadline \in Nat /\ next \in Nat /\ deadline \in Int
    BY <1>4 DEF Positions
  <1>12. /\ control' \in [Trips -> Controls]
         /\ \A u \in Trips \ {t} : control'[u] = control[u]
         /\ control'[t].attempts = 0 /\ control'[t].deadline = deadline /\ control'[t].exit = exit
    BY <1>1, <1>5, <1>11 DEF Controls
  <1>r. /\ \A k : LastDecision(t, k)' = LastDecision(t, k)
        /\ Positions(run.clock)' = Positions(run.clock) /\ run' = run
    BY <1>5, CopyRunStays
  <1>13. Limit(t)' = deadline
    BY <1>10, <1>12 DEF Limit
  <1>14. InPosition(t)'
    <2>1. 0 < MaximumSellAttempts /\ 0 + 1 = 1 /\ deadline <= deadline
      BY <1>11, CopyPolicy
    <2> QED BY <1>r, <1>4, <1>8, <1>10, <1>12, <1>13, <2>1 DEF InPosition, Holding
  <1>15. OrdersFit(t)'
    BY <1>2, <1>6 DEF OrdersFit
  <1>16. Pursued(t)'
    <2>1. Sells(t, next)'
      BY <1>4, <1>10, <1>11, <1>12, <1>13 DEF Sells
    <2>2. o \in scheduled' /\ Sells(t, o.release)'
      BY <1>5, <1>6, <2>1 DEF Sells
    <2> QED BY <1>6, <1>10, <2>2 DEF Pursued, Holding
  <1>17. /\ \A b \in scheduled' : b \in scheduled \/ b.release > now
         /\ \A b : b.trip # t => (b \in scheduled' <=> b \in scheduled)
    BY <1>1, <1>4, <1>5, <1>6, <1>11, <1>t
  <1>18. \A u \in Trips \ {t} : /\ status'[u] = status[u] /\ control'[u] = control[u]
                                /\ trip'[u] = trip[u]
    BY <1>8, <1>10, <1>12
  <1>19. UNCHANGED <<run, now, stage, raised, callbacks, requests>>
    BY <1>5
  <1> QED BY <1>2, <1>6, <1>7, <1>9, <1>10, <1>12, <1>14, <1>15, <1>16, <1>17, <1>18, <1>19,
             LandingMoves

\* A sell that fails at its landing is tried again in time, or given up.
LEMMA CopySellFailedKeeps ==
    ASSUME CopyInv, stage = "landings", NEW a \in DueUpTo(Landing), a.kind = "SELL_LANDING",
           CopySellFailed(a)
    PROVE  CopyInv'
  <1>t. PICK t \in Trips : t = a.trip
    BY CopyDueLandings
  <1>n. PICK n : n = control[t].attempts
    OBVIOUS
  <1>1. /\ Books /\ BooksTyped /\ AtCopyBoundary /\ openMints[run.mint[t]] = t
        /\ control[t].exit /\ n \in 1 .. MaximumSellAttempts /\ now <= Landings(t)[n]
    BY <1>t, <1>n, LandingFacts
  <1>2. a \in Orders /\ Entered(t) /\ \A b \in Orders : b.trip = t => b = a
    BY <1>t, CopyDueLandings
  <1>3. SellLandingError(t, FeeOnly(trip[t].fee)) = None
    BY <1>1, <1>2, <1>t, SellLands
  <1>4. FailSellError(n) = None
    BY <1>1, <1>2, RetryInTime DEF FailSellError, LastAttempt
  <1>5. /\ FailSell(t) /\ SellAgain(t, n, scheduled \ {a})
        /\ UNCHANGED <<run, now, stage, raised, callbacks, requests>>
    BY <1>3, <1>4, <1>n, <1>t DEF CopySellFailed
  <1>6. openMints' = openMints /\ \A u \in Trips \ {t} : trip'[u] = trip[u]
    BY <1>1, <1>5 DEF FailSell, BooksTyped
  <1>7. UNCHANGED <<run, now, openMints>>
    BY <1>5, <1>6
  <1>8. a.trip = t \/ a \notin scheduled
    BY <1>t
  <1>9. /\ HeapTyped' /\ Orders' = Orders \ {a}
        /\ \A b \in scheduled' : b \in scheduled \/ b.release > now
        /\ status' \in [Trips -> CopyStatuses] /\ control' \in [Trips -> Controls]
        /\ live' = {u \in Trips : status'[u] \in {"BUY_PENDING", "OPEN", "SELL_PENDING", "RETRY_WAIT"}}
        /\ \A u \in Trips \ {t} : status'[u] = status[u] /\ control'[u] = control[u]
        /\ \A b : b.trip # t => (b \in scheduled' <=> b \in scheduled)
        /\ InPosition(t)' /\ OrdersFit(t)' /\ Pursued(t)'
    BY <1>1, <1>2, <1>5, <1>7, <1>8, SellsAgain
  <1>10. Books'
    BY <1>1, <1>2, <1>5, <1>9, <1>t, FailSellKeepsBooks
  <1>11. /\ \A u \in Trips \ {t} : /\ status'[u] = status[u] /\ control'[u] = control[u]
                                   /\ trip'[u] = trip[u]
         /\ \A u \in Trips \ {t} :
                \/ openMints'[run.mint[u]] = openMints[run.mint[u]]
                \/ /\ status[u] \notin {"OPEN", "RETRY_WAIT", "SELL_PENDING"}
                   /\ openMints'[run.mint[u]] # u
    BY <1>6, <1>9
  <1>12. UNCHANGED <<run, now, stage, raised, callbacks, requests>>
    BY <1>5
  <1> QED BY <1>2, <1>9, <1>10, <1>11, <1>12, LandingMoves

\* A sell that fills closes its position.
LEMMA CopySellFilledKeeps ==
    ASSUME CopyInv, stage = "landings", NEW a \in DueUpTo(Landing), a.kind = "SELL_LANDING",
           NEW proceeds \in Proceeds, CopySellFilled(a, proceeds)
    PROVE  CopyInv'
  <1>t. PICK t \in Trips : t = a.trip
    BY CopyDueLandings
  <1>1. Books /\ BooksTyped /\ openMints[run.mint[t]] = t
    BY <1>t, LandingFacts
  <1>2. a \in Orders /\ Entered(t)
    BY <1>t, CopyDueLandings
  <1>3. CloseError(t) = None
    BY <1>1, <1>2, <1>t, SellLands
  <1>4. /\ FillSell(t, proceeds) /\ Conclude(t, "CLOSED") /\ scheduled' = scheduled \ {a}
        /\ UNCHANGED <<run, now, stage, raised, control, callbacks, requests>>
    BY <1>3, <1>t DEF CopySellFilled
  <1>5. Books'
    <2>1. run' = run /\ Orders' = Orders \ {a}
      BY <1>4 DEF Orders
    <2> QED BY <1>1, <1>2, <1>4, <1>t, <2>1, FillSellKeepsBooks
  <1>6. /\ openMints' = [openMints EXCEPT ![run.mint[t]] = None]
        /\ \A u \in Trips \ {t} : trip'[u] = trip[u]
    BY <1>1, <1>4 DEF FillSell, BooksTyped
  <1>7. \A u \in Trips \ {t} :
                \/ openMints'[run.mint[u]] = openMints[run.mint[u]]
                \/ /\ status[u] \notin {"OPEN", "RETRY_WAIT", "SELL_PENDING"}
                   /\ openMints'[run.mint[u]] # u
    BY <1>2, <1>6, OthersKeepMints
  <1> QED BY <1>t, <1>4, <1>5, <1>6, <1>7, CopyConcludes

\* An order that is due lands, and nothing in that raises.
LEMMA CopyLandDueKeeps == CopyInv /\ CopyLandDue => CopyInv'
  <1> SUFFICES ASSUME CopyInv, CopyLandDue PROVE CopyInv'
    OBVIOUS
  <1>1. stage = "landings"
    BY DEF CopyLandDue, Reached
  <1>2. PICK a \in DueUpTo(Landing) : CopyLand(a)
    BY DEF CopyLandDue
  <1>3. a.phase = Landing
    BY <1>1, CopyDueLandings
  <1>4. CASE a.kind = "BUY_LANDING" /\ CopyBuyFailed(a)
    BY <1>1, <1>4, CopyBuyFailedKeeps
  <1>5. ASSUME a.kind = "BUY_LANDING", NEW paid \in Paid, NEW tokens \in Tokens,
               NEW exit \in BOOLEAN, CopyBuyFilled(a, paid, tokens, exit)
        PROVE  CopyInv'
    BY <1>1, <1>5, CopyBuyFilledKeeps
  <1>6. CASE a.kind = "SELL_LANDING" /\ CopySellFailed(a)
    BY <1>1, <1>6, CopySellFailedKeeps
  <1>7. ASSUME a.kind = "SELL_LANDING", NEW proceeds \in Proceeds, CopySellFilled(a, proceeds)
        PROVE  CopyInv'
    BY <1>1, <1>7, CopySellFilledKeeps
  <1>8. CopyLand(a) = IF a.phase # Landing THEN CopyAbort("PHASE")
                      ELSE \/ /\ a.kind = "BUY_LANDING"
                              /\ \/ CopyBuyFailed(a)
                                 \/ \E p \in Paid, n \in Tokens, exit \in BOOLEAN :
                                        CopyBuyFilled(a, p, n, exit)
                           \/ /\ a.kind = "SELL_LANDING"
                              /\ CopySellFailed(a) \/ \E p \in Proceeds : CopySellFilled(a, p)
    BY Zenon DEF CopyLand
  <1>9. \/ /\ a.kind = "BUY_LANDING"
           /\ \/ CopyBuyFailed(a)
              \/ \E p \in Paid, n \in Tokens, exit \in BOOLEAN : CopyBuyFilled(a, p, n, exit)
        \/ /\ a.kind = "SELL_LANDING"
           /\ CopySellFailed(a) \/ \E p \in Proceeds : CopySellFilled(a, p)
    BY <1>2, <1>3, <1>8, Zenon
  <1> QED BY <1>4, <1>5, <1>6, <1>7, <1>9

\* Every step keeps the invariant.
LEMMA CopyKeeps == CopyInv /\ CopyNext => CopyInv'
  BY CopyPreflightKeeps, BoundariesKeep, FinishCopyRunKeeps, RunCallbackKeeps, CopyPhasesEnd,
     ServeRequestKeeps, CopyLandDueKeeps DEF CopyNext

\* A run of the copy-trading engine begins in the invariant.
LEMMA CopyBegins ==
    ASSUME CopyInit, run.engine = "copy"
    PROVE  CopyInv
  <1>1. /\ Books /\ scheduled = {} /\ now = -1 /\ stage = "preflight" /\ raised = None /\ live = {}
        /\ callbacks = {} /\ requests = <<>>
        /\ run \in Runs /\ openMints = [m \in Mints |-> None] /\ trip = [t \in Trips |-> NewTrip]
        /\ status = [t \in Trips |-> "UNSEEN"] /\ control = [t \in Trips |-> NewControl]
    BY BooksBegin DEF CopyInit, SharedInit
  <1>2. \A t \in Trips : status[t] = "UNSEEN" /\ run.mint[t] \in Mints
    BY <1>1, RunFacts
  <1>3. control \in [Trips -> Controls] /\ \A t \in Trips : control[t].attempts = 0
    BY <1>1 DEF NewControl, Controls, OffClock
  <1>4. Asked = {} /\ Orders = {} /\ ~ AtCopyBoundary
    BY <1>1 DEF Asked, Orders, AtCopyBoundary
  <1>5. HeapTyped
    BY <1>1, FS_EmptySet DEF HeapTyped
  <1>6. requests \in Seq([trip : Trips, buy : BOOLEAN])
    BY <1>1
  <1>7. CopyTyped
    BY <1>1, <1>2, <1>3, <1>4, <1>5, <1>6 DEF CopyTyped, CopyStatuses
  <1>8. MaximumsFit /\ CopyOnTime /\ OneEntryEach /\ OneRequestEach
    BY <1>1, <1>2 DEF MaximumsFit, CopyOnTime, OneEntryEach, Entered, OneRequestEach
  <1>9. ASSUME NEW t \in Trips PROVE Copied(t)
    <2>1. Untouched(t) /\ openMints[run.mint[t]] # t
      BY <1>1, <1>2, TripsAreFinite DEF Untouched, NewTrip
    <2> QED BY <1>1, <1>2, <1>3, <1>4, <2>1
        DEF Copied, InPosition, OrdersFit, RequestsFit, SignalsFit, Pursued, Holding
  <1> QED BY <1>1, <1>7, <1>8, <1>9 DEF CopyInv

\* The properties of the model for a run of the copy-trading engine.
LEMMA CopyPromises ==
    ASSUME CopyInv
    PROVE  SettlementTypeOK /\ EveryTripPursued
  <1>1. SettlementTypeOK
    BY DEF CopyInv, CopyTyped, HeapTyped, Books, BooksTyped, SettlementTypeOK
  <1>2. ASSUME NEW t \in Trips
        PROVE  /\ Cardinality({a \in Orders : a.trip = t}) <= 1
               /\ t \notin live => {a \in Orders : a.trip = t} = {}
               /\ stage = "select" /\ t \in live =>
                    \E a \in scheduled : a.trip = t /\ a.release > now
    <2>1. Copied(t) /\ OneOrderEach
          /\ live = {u \in Trips : status[u] \in {"BUY_PENDING", "OPEN", "SELL_PENDING", "RETRY_WAIT"}}
      BY DEF CopyInv, CopyTyped, Books
    <2>2. t \notin live => {a \in Orders : a.trip = t} = {}
      BY <2>1 DEF Copied, OrdersFit
    <2> QED BY <2>1, <2>2, LiveIsAhead, OneOrderCounts
  <1>3. stage = "done" => live = {}
    BY DEF CopyInv, CopyTyped
  <1> QED BY <1>1, <1>2, <1>3 DEF EveryTripPursued

-------------------------------------------------------------------------------
(* Theorems about both engines.                                               *)

\* A step that changes nothing keeps the invariant.
LEMMA TradingStutters == TradingInv /\ UNCHANGED tradingVars => TradingInv'
  <1> SUFFICES ASSUME TradingInv, UNCHANGED tradingVars PROVE TradingInv'
    OBVIOUS
  <1>1. /\ UNCHANGED <<run, books, trip, status, live, scheduled, raised, until>>
        /\ UNCHANGED <<run, books, trip, status, live, scheduled, now, raised, control, callbacks,
                       requests>>
        /\ now' = now /\ stage' = stage
    BY DEF tradingVars, sharedVars, snipingOnly, copyOnly
  <1>2. ASSUME SnipingInv PROVE SnipingInv'
    <2>1. /\ now' \in Positions(run.clock) \cup {-1}
          /\ stage' \in {"preflight", "refused", "select", "decisions", "launches", "landings", "done"}
          /\ AtBoundary' => now' \in Positions(run.clock)
      BY <1>1, <1>2 DEF SnipingInv, SnipingTyped, AtBoundary
    <2>2. SettlementsFit'
      BY <1>1, <1>2, RunStays DEF SnipingInv, SettlementsFit
    <2>3. SnipingOnTime'
      BY <1>1, <1>2 DEF SnipingInv, SnipingOnTime, AtBoundary
    <2> QED BY <1>1, <1>2, <2>1, <2>2, <2>3, StageMoves
  <1>3. ASSUME CopyInv PROVE CopyInv'
    <2>1. /\ stage' \in {"preflight", "refused", "select", "callbacks", "requests", "landings", "done"}
          /\ AtCopyBoundary' => now \in Positions(run.clock)
          /\ stage' # "callbacks" => callbacks = {}
          /\ stage' \notin {"callbacks", "requests"} => requests = <<>>
          /\ stage' = "done" => live = {}
      BY <1>1, <1>3 DEF CopyInv, CopyTyped, AtCopyBoundary
    <2>2. MaximumsFit'
      BY <1>1, <1>3, CopyRunStays DEF CopyInv, MaximumsFit
    <2>3. CopyOnTime'
      BY <1>1, <1>3 DEF CopyInv, CopyOnTime, AtCopyBoundary
    <2> QED BY <1>1, <1>3, <2>1, <2>2, <2>3, CopyStageMoves
  <1> QED BY <1>2, <1>3 DEF TradingInv

\* The invariant of a run of either engine.
THEOREM TradingInvariant == TradingSpec => []TradingInv
  <1>1. TradingInit => TradingInv
    <2> SUFFICES ASSUME TradingInit PROVE TradingInv
      OBVIOUS
    <2>1. run.engine \in {"sniping", "copy"}
      BY RunsAreValid DEF TradingInit, SnipingInit, SharedInit
    <2> QED BY <2>1, SnipingBegins, CopyBegins DEF TradingInit, TradingInv
  <1>2. TradingInv /\ [TradingNext]_tradingVars => TradingInv'
    <2> SUFFICES ASSUME TradingInv, [TradingNext]_tradingVars PROVE TradingInv'
      OBVIOUS
    <2>1. CASE run.engine = "sniping" /\ SnipingNext
      BY <2>1, SnipingKeeps DEF TradingInv, CopyInv
    <2>2. CASE run.engine = "copy" /\ CopyNext
      BY <2>2, CopyKeeps DEF TradingInv, SnipingInv
    <2>3. CASE UNCHANGED tradingVars
      BY <2>3, TradingStutters
    <2> QED BY <2>1, <2>2, <2>3 DEF TradingNext
  <1> QED BY <1>1, <1>2, PTL DEF TradingSpec

\* Balances and deposits are amounts: nothing is ever overdrawn.
THEOREM TypesHold == TradingSpec => []SettlementTypeOK
  <1>1. TradingInv => SettlementTypeOK
    BY SnipingPromises, CopyPromises DEF TradingInv
  <1> QED BY <1>1, TradingInvariant, PTL

\* A run that the preflight admits never raises, whatever its quotes, fees and retries.
THEOREM RunsNeverAbort == TradingSpec => []NeverAborts
  <1>1. TradingInv => NeverAborts
    BY DEF TradingInv, SnipingInv, CopyInv, NeverAborts
  <1> QED BY <1>1, TradingInvariant, PTL

\* What is reserved is what the orders in flight hold (_reserve_amounts,
\* _settle_reserved_amounts).
THEOREM ReservationsAreOrders == TradingSpec => []ReservedIsInFlight
  <1>1. TradingInv => ReservedIsInFlight
    BY DEF TradingInv, SnipingInv, CopyInv, Books
  <1> QED BY <1>1, TradingInvariant, PTL

\* The trips' records account for every amount in the wallet.
THEOREM RecordsExplainTheWallet == TradingSpec => []BooksExplained
  <1>1. TradingInv => BooksExplained
    BY DEF TradingInv, SnipingInv, CopyInv, Books
  <1> QED BY <1>1, TradingInvariant, PTL

\* The wallet's account is paid for once, and a mint's while it is open.
THEOREM DepositsArePaidOnce == TradingSpec => []DepositsLockedOnce
  <1>1. TradingInv => DepositsLockedOnce
    BY DEF TradingInv, SnipingInv, CopyInv, Books
  <1> QED BY <1>1, TradingInvariant, PTL

\* No trip is forgotten, settled twice, or left live by a run that is done.
THEOREM TripsArePursued == TradingSpec => []EveryTripPursued
  <1>1. TradingInv => EveryTripPursued
    BY SnipingPromises, CopyPromises DEF TradingInv
  <1> QED BY <1>1, TradingInvariant, PTL

\* Launches of a developer that the sniping engine acted upon are a cooldown apart.
THEOREM CooldownsAreKept == TradingSpec => []CooldownHolds
  <1>1. TradingInv => CooldownHolds
    BY DEF TradingInv, SnipingInv, CopyInv, CooldownHolds
  <1> QED BY <1>1, TradingInvariant, PTL

\* The landings of a position's attempts come one after the other, up to the last.
LEMMA LandingsRise ==
    ASSUME run \in Runs, NEW t \in Trips, MaximumSettlement(t) # OffClock
    PROVE  /\ BoughtAt(t) <= MaximumSettlement(t)
           /\ \A n \in 1 .. MaximumSellAttempts : Landings(t)[n] <= MaximumSettlement(t)
  <1> DEFINE L == Landings(t)
             Last == MaximumSellAttempts
  <1>0. /\ IsClock(run.clock) /\ Last \in Nat \ {0} /\ Last \in 1 .. Last /\ 1 \in 1 .. Last
        /\ MaximumSettlement(t) = L[Last]
    BY RunFacts, CopyPolicy, MaximumIsLast
  <1>1. BoughtAt(t) \in Positions(run.clock) /\ BoughtAt(t) \in Nat
    BY SettlementsOnClock DEF Positions
  <1>2. ASSUME NEW n \in 1 .. Last
        PROVE  /\ LastDecision(t, n) \in Positions(run.clock) /\ LastDecision(t, n) \in Nat
               /\ LastDecision(t, n) # OffClock
               /\ L[n] \in Positions(run.clock) /\ L[n] \in Nat /\ LastDecision(t, n) < L[n]
    BY <1>2, SettlementsOnClock DEF Positions, OffClock
  <1>3. ASSUME NEW n \in 1 .. Last, n # 1 PROVE n - 1 \in 1 .. Last /\ L[n - 1] < L[n]
    <2>1. n - 1 \in 1 .. Last
      BY <1>3, <1>0
    <2>2. LastDecision(t, n) = HoldingDeadline(run.clock, L[n - 1], RetryDelay)
      BY <1>3 DEF LastDecision
    <2>3. L[n - 1] < LastDecision(t, n)
      BY <1>0, <1>2, <2>1, <2>2, HoldingIsLater, CopyPolicy
    <2> QED BY <1>2, <2>1, <2>3
  <1>p. PICK P : P = {k \in Nat : k < Last => L[Last - k] <= L[Last]}
    OBVIOUS
  <1>4. P = Nat
    <2>1. 0 \in P
      <3>1. Last - 0 = Last /\ L[Last] <= L[Last]
        BY <1>0, <1>2
      <3> QED BY <1>p, <3>1
    <2>2. ASSUME NEW k \in P PROVE k + 1 \in P
      <3>1. k \in Nat /\ (k < Last => L[Last - k] <= L[Last])
        BY <1>p
      <3>2. SUFFICES ASSUME k + 1 < Last PROVE L[Last - (k + 1)] <= L[Last]
        BY <1>p, <3>1
      <3>3. Last - k \in 1 .. Last /\ Last - k # 1 /\ k < Last /\ (Last - k) - 1 = Last - (k + 1)
        BY <1>0, <3>1, <3>2
      <3>4. L[Last - (k + 1)] < L[Last - k] /\ Last - (k + 1) \in 1 .. Last
        BY <1>3, <3>3
      <3> QED BY <1>0, <1>2, <3>1, <3>3, <3>4
    <2>3. P \in SUBSET Nat
      BY <1>p
    <2> QED BY <2>1, <2>2, <2>3, NatSetInduction
  <1>5. ASSUME NEW n \in 1 .. Last PROVE L[n] <= MaximumSettlement(t)
    <2>1. Last - n \in Nat /\ Last - n < Last /\ Last - (Last - n) = n
      BY <1>0
    <2> QED BY <1>0, <1>p, <1>4, <2>1
  <1>6. BoughtAt(t) <= MaximumSettlement(t)
    <2>1. LastDecision(t, 1) = HoldingDeadline(run.clock, BoughtAt(t), HoldTime)
      BY DEF LastDecision
    <2>2. BoughtAt(t) < LastDecision(t, 1)
      BY <1>0, <1>1, <1>2, <2>1, HoldingIsLater, AmountsAreNatural
    <2> QED BY <1>0, <1>1, <1>2, <1>5, <2>2
  <1> QED BY <1>5, <1>6

\* No order lands behind the boundary that the preflight computed for its signal
\* (maximum_copy_settlement_position).
THEOREM PreflightIsABound == TradingSpec => []SettledInTime
  <1>1. TradingInv => SettledInTime
    <2> SUFFICES ASSUME TradingInv, run.engine = "copy", NEW a \in Orders
                 PROVE  a.release <= MaximumSettlement(a.trip)
      BY DEF SettledInTime
    <2>1. CopyInv
      BY DEF TradingInv, SnipingInv
    <2>t. PICK t \in Trips : t = a.trip
      BY <2>1 DEF CopyInv, Books, OneOrderEach
    <2>2. Copied(t) /\ run \in Runs /\ a.release \in Nat
      BY <2>1 DEF CopyInv, CopyTyped, HeapTyped, Orders, Books, Positions
    <2>3. Entered(t)
      BY <2>2, <2>t DEF Copied, OrdersFit, Entered
    <2>4. MaximumSettlement(t) # OffClock
      <3>1. stage \notin {"preflight", "refused"}
        BY <2>1 DEF CopyInv, CopyOnTime, Orders
      <3> QED BY <2>1, <2>3, <3>1, EnteredAlone DEF CopyInv, MaximumsFit
    <2>5. CASE a.kind = "BUY_LANDING"
      <3>1. a.release = BoughtAt(t)
        BY <2>2, <2>5, <2>t DEF Copied, OrdersFit
      <3> QED BY <2>2, <2>4, <2>t, <3>1, LandingsRise
    <2>6. CASE a.kind = "SELL_LANDING"
      <3>n. PICK n : n = control[t].attempts
        OBVIOUS
      <3>1. status[t] = "SELL_PENDING" /\ a.release <= Landings(t)[n]
        BY <2>2, <2>6, <2>t, <3>n DEF Copied, OrdersFit
      <3>2. n \in 1 .. MaximumSellAttempts
        BY <2>2, <3>1, <3>n DEF Copied, InPosition
      <3>3. Landings(t)[n] <= MaximumSettlement(t) /\ Landings(t)[n] \in Nat
        BY <2>2, <2>4, <3>2, LandingsRise, SettlementsOnClock DEF Positions
      <3>4. MaximumSettlement(t) \in Nat
        <4>1. MaximumSellAttempts \in 1 .. MaximumSellAttempts
          BY CopyPolicy
        <4> QED BY <2>2, <2>4, <4>1, MaximumIsLast, SettlementsOnClock DEF Positions
      <3> QED BY <2>2, <2>t, <3>1, <3>3, <3>4
    <2>7. a.kind \in {"BUY_LANDING", "SELL_LANDING"}
      BY <2>1 DEF CopyInv, Books, OneOrderEach
    <2> QED BY <2>5, <2>6, <2>7
  <1> QED BY <1>1, TradingInvariant, PTL

\* The mint of a signal that was copied is never entered again, whatever became of
\* that entry (decide consumes the mint).
THEOREM MintsAreEnteredOnce == TradingSpec => [](run.engine = "copy" => OneEntryEach)
  <1>1. TradingInv => (run.engine = "copy" => OneEntryEach)
    BY DEF TradingInv, SnipingInv, CopyInv
  <1> QED BY <1>1, TradingInvariant, PTL
===============================================================================
