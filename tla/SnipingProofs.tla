---------------------------- MODULE SnipingProofs ----------------------------
(* Theorems about the sniping engine, for every value of the constants: the   *)
(* inductive invariant and that every step keeps it.  First the lemmas that   *)
(* the theorems about both launchpad engines rest on: sums over finite sets,  *)
(* the transaction clock, and what each ledger transaction does to the        *)
(* wallet's books, the deposits and the orders in flight.                     *)
EXTENDS Sniping, TLAPS, FiniteSetTheorems, WellFoundedInduction

-------------------------------------------------------------------------------
(* Induction over data, for sets instead of predicates.                       *)

\* A set of naturals that is not empty has a least element.
LEMMA LeastNat ==
    ASSUME NEW T \in SUBSET Nat, T # {}
    PROVE  \E n \in T : \A m \in T : n <= m
  <1>1. PICK n \in T : \A m \in T : ~(<<m, n>> \in OpToRel(<, Nat))
    BY NatLessThanWellFounded, WFMin, Zenon
  <1>2. ASSUME NEW m \in T PROVE n <= m
    <2>1. n \in Nat /\ m \in Nat
      OBVIOUS
    <2>2. ~(m < n)
      BY <1>1, <2>1 DEF OpToRel
    <2> QED BY <2>1, <2>2
  <1> QED BY <1>2

\* Induction over the naturals, for a set instead of a predicate.
LEMMA NatSetInduction ==
    ASSUME NEW P \in SUBSET Nat, 0 \in P, \A n \in P : n + 1 \in P
    PROVE  P = Nat
  <1> SUFFICES ASSUME Nat \ P # {} PROVE FALSE
    OBVIOUS
  <1>1. PICK n \in Nat \ P : \A m \in Nat \ P : n <= m
    BY LeastNat
  <1>2. n # 0 /\ n - 1 \in Nat
    BY <1>1
  <1>3. n - 1 \in P
    BY <1>1, <1>2
  <1>4. (n - 1) + 1 \in P
    BY <1>3
  <1> QED BY <1>2, <1>4

-------------------------------------------------------------------------------
(* Sums over finite sets (SumFunctionOnSet).                                  *)

\* The element that the fold takes first, the sum of s in terms of a smaller one,
\* and the function that the fold builds over all subsets.
Pick(s) == CHOOSE x \in s : TRUE
TakeOne(f, g, s) == IF s = {} THEN 0 ELSE f[Pick(s)] + g[s \ {Pick(s)}]
Adds(f, S, g) == g = [s \in SUBSET S |-> TakeOne(f, g, s)]
Small(S, n) == {s \in SUBSET S : Cardinality(s) <= n}

\* It is an element.
LEMMA PickIn == ASSUME NEW s, s # {} PROVE Pick(s) \in s
  BY DEF Pick

\* There is such a function.
LEMMA AddsExists ==
    ASSUME NEW f, NEW S, IsFiniteSet(S) PROVE \E g : Adds(f, S, g)
  <1> DEFINE P == {n \in Nat : \E g : g = [s \in Small(S, n) |-> TakeOne(f, g, s)]}
  <1>0. \A s \in SUBSET S : IsFiniteSet(s) /\ Cardinality(s) \in Nat
    BY FS_Subset, FS_CardinalityType
  <1>1. 0 \in P
    <2>1. Small(S, 0) = {{}}
      BY <1>0, FS_EmptySet DEF Small
    <2>2. PICK g : g = [s \in Small(S, 0) |-> 0]
      OBVIOUS
    <2>3. g = [s \in Small(S, 0) |-> TakeOne(f, g, s)]
      BY <2>1, <2>2 DEF TakeOne
    <2> QED BY <2>3
  <1>2. ASSUME NEW n \in P PROVE n + 1 \in P
    <2>1. PICK g : g = [s \in Small(S, n) |-> TakeOne(f, g, s)]
      OBVIOUS
    <2>2. PICK h : h = [s \in Small(S, n + 1) |-> TakeOne(f, g, s)]
      OBVIOUS
    <2>3. ASSUME NEW s \in Small(S, n + 1), s # {}
          PROVE  s \ {Pick(s)} \in Small(S, n)
      <3>1. Pick(s) \in s
        BY <2>3, PickIn
      <3>2. Cardinality(s \ {Pick(s)}) = Cardinality(s) - 1
        BY <3>1, <1>0, FS_RemoveElement DEF Small
      <3> QED BY <3>2, <1>0 DEF Small
    <2>4. Small(S, n) \subseteq Small(S, n + 1)
      BY <1>0 DEF Small
    <2>5. \A s \in Small(S, n) : h[s] = g[s]
      BY <2>1, <2>2, <2>4
    <2>6. \A s \in Small(S, n + 1) : TakeOne(f, g, s) = TakeOne(f, h, s)
      BY <2>3, <2>5 DEF TakeOne
    <2>7. h = [s \in Small(S, n + 1) |-> TakeOne(f, h, s)]
      BY <2>2, <2>6
    <2> QED BY <2>7
  <1> HIDE DEF P
  <1>3. P = Nat
    <2>1. P \in SUBSET Nat BY DEF P
    <2> QED BY <1>1, <1>2, <2>1, NatSetInduction
  <1>4. PICK n \in Nat : n = Cardinality(S)
    BY FS_CardinalityType
  <1>5. Small(S, n) = SUBSET S
    BY <1>4, FS_Subset DEF Small
  <1>6. n \in P
    BY <1>3, <1>4
  <1> QED BY <1>5, <1>6 DEF P, Adds

\* Induction over the subsets of a finite set.
LEMMA SubsetInduction ==
    ASSUME NEW S, IsFiniteSet(S), NEW Q,
           Q \subseteq SUBSET S,
           \A s \in SUBSET S : (\A y \in s : s \ {y} \in Q) => s \in Q
    PROVE  Q = SUBSET S
  <1> DEFINE P == {n \in Nat : \A s \in SUBSET S : Cardinality(s) = n => s \in Q}
  <1>0. \A s \in SUBSET S : IsFiniteSet(s) /\ Cardinality(s) \in Nat
    BY FS_Subset, FS_CardinalityType
  <1>1. 0 \in P
    BY <1>0, FS_EmptySet
  <1>2. ASSUME NEW n \in P PROVE n + 1 \in P
    <2> SUFFICES ASSUME NEW s \in SUBSET S, Cardinality(s) = n + 1 PROVE s \in Q
      OBVIOUS
    <2>1. ASSUME NEW y \in s PROVE s \ {y} \in Q
      <3>1. Cardinality(s \ {y}) = Cardinality(s) - 1
        BY <1>0, FS_RemoveElement
      <3>2. Cardinality(s \ {y}) = n
        BY <3>1
      <3> QED BY <3>2
    <2> QED BY <2>1
  <1> HIDE DEF P
  <1>3. P = Nat
    <2>1. P \in SUBSET Nat BY DEF P
    <2> QED BY <1>1, <1>2, <2>1, NatSetInduction
  <1> QED BY <1>0, <1>3 DEF P

\* Two such functions agree where both are defined.
LEMMA AddsAgree ==
    ASSUME NEW f, NEW S, IsFiniteSet(S), NEW T \in SUBSET S,
           NEW g, Adds(f, S, g), NEW h, Adds(f, T, h)
    PROVE  \A s \in SUBSET T : g[s] = h[s]
  <1>q. PICK Q : Q = {s \in SUBSET T : g[s] = h[s]}
    OBVIOUS
  <1>1. ASSUME NEW s \in SUBSET T, \A y \in s : s \ {y} \in Q PROVE g[s] = h[s]
    BY <1>1, <1>q, PickIn, ZenonT(60) DEF Adds, TakeOne
  <1>2. IsFiniteSet(T)
    BY FS_Subset
  <1>3. Q \subseteq SUBSET T
    BY <1>q
  <1>4. \A s \in SUBSET T : (\A y \in s : s \ {y} \in Q) => s \in Q
    BY <1>1, <1>q
  <1>5. Q = SUBSET T
    BY <1>2, <1>3, <1>4, SubsetInduction
  <1> QED BY <1>5, <1>q

\* SumFunctionOnSet is the value of one.
LEMMA SumIsAdds ==
    ASSUME NEW f, NEW T, IsFiniteSet(T)
    PROVE  \E g : Adds(f, T, g) /\ SumFunctionOnSet(f, T) = g[T]
  <1>1. PICK g : g = CHOOSE h : h = [s \in SUBSET T |->
              IF s = {} THEN 0
              ELSE f[CHOOSE x \in s : TRUE] + h[s \ {CHOOSE x \in s : TRUE}]]
    OBVIOUS
  <1>2. SumFunctionOnSet(f, T) = g[T]
    BY <1>1, Zenon DEF SumFunctionOnSet, FoldFunctionOnSet, MapThenFoldSet
  <1>3. PICK h : Adds(f, T, h)
    BY AddsExists
  <1>4. \E k : k = [s \in SUBSET T |->
              IF s = {} THEN 0
              ELSE f[CHOOSE x \in s : TRUE] + k[s \ {CHOOSE x \in s : TRUE}]]
    BY <1>3, Zenon DEF Adds, TakeOne, Pick
  <1>5. g = [s \in SUBSET T |->
              IF s = {} THEN 0
              ELSE f[CHOOSE x \in s : TRUE] + g[s \ {CHOOSE x \in s : TRUE}]]
    BY <1>1, <1>4, Zenon
  <1>6. Adds(f, T, g)
    BY <1>5, Zenon DEF Adds, TakeOne, Pick
  <1> QED BY <1>2, <1>6

\* What SumFunctionOnSet computes.
LEMMA SumUnfolds ==
    ASSUME NEW f, NEW S, IsFiniteSet(S)
    PROVE  SumFunctionOnSet(f, S) =
              IF S = {} THEN 0 ELSE f[Pick(S)] + SumFunctionOnSet(f, S \ {Pick(S)})
  <1>2. PICK g : Adds(f, S, g) /\ SumFunctionOnSet(f, S) = g[S]
    BY SumIsAdds
  <1>3. CASE S = {}
    BY <1>2, <1>3 DEF Adds, TakeOne
  <1>4. CASE S # {}
    <2> PICK T : T = S \ {Pick(S)}
      OBVIOUS
    <2>1. T \in SUBSET S /\ IsFiniteSet(T)
      BY FS_Subset
    <2>2. PICK h : Adds(f, T, h) /\ SumFunctionOnSet(f, T) = h[T]
      BY <2>1, SumIsAdds
    <2>3. g[T] = h[T]
      BY <1>2, <2>1, <2>2, AddsAgree
    <2>4. g[S] = f[Pick(S)] + g[T]
      BY <1>2, <1>4 DEF Adds, TakeOne
    <2> QED BY <1>2, <1>4, <2>2, <2>3, <2>4
  <1> QED BY <1>3, <1>4

\* A sum has the type of its terms when that is closed under addition.
LEMMA SumHasType ==
    ASSUME NEW f, NEW S, IsFiniteSet(S), NEW Typ, \A x \in S : f[x] \in Typ,
           0 \in Typ, \A t \in Typ, u \in Typ : t + u \in Typ
    PROVE  SumFunctionOnSet(f, S) \in Typ
  <1>q. PICK Q : Q = {s \in SUBSET S : SumFunctionOnSet(f, s) \in Typ}
    OBVIOUS
  <1>1. ASSUME NEW s \in SUBSET S, \A y \in s : s \ {y} \in Q
        PROVE  SumFunctionOnSet(f, s) \in Typ
    <2>1. IsFiniteSet(s)
      BY FS_Subset
    <2>2. CASE s = {}
      <3>1. SumFunctionOnSet(f, s) = 0
        BY <2>1, <2>2, SumUnfolds
      <3> QED BY <3>1
    <2>3. CASE s # {}
      <3> PICK c : c = Pick(s)
        OBVIOUS
      <3>1. c \in s
        BY <2>3, PickIn
      <3>2. SumFunctionOnSet(f, s) = f[c] + SumFunctionOnSet(f, s \ {c})
        BY <2>1, <2>3, SumUnfolds
      <3>3. f[c] \in Typ /\ SumFunctionOnSet(f, s \ {c}) \in Typ
        BY <3>1, <1>1, <1>q
      <3> QED BY <3>2, <3>3
    <2> QED BY <2>2, <2>3
  <1>2. Q \subseteq SUBSET S
    BY <1>q
  <1>3. \A s \in SUBSET S : (\A y \in s : s \ {y} \in Q) => s \in Q
    BY <1>1, <1>q
  <1>4. Q = SUBSET S
    BY <1>2, <1>3, SubsetInduction
  <1> QED BY <1>4, <1>q

\* Any element may be taken out of a sum first.
LEMMA SumTakes ==
    ASSUME NEW f, NEW S, IsFiniteSet(S), \A x \in S : f[x] \in Int, NEW x \in S
    PROVE  SumFunctionOnSet(f, S) = f[x] + SumFunctionOnSet(f, S \ {x})
  <1>q. PICK Q : Q = {s \in SUBSET S : \A y \in s :
                        SumFunctionOnSet(f, s) = f[y] + SumFunctionOnSet(f, s \ {y})}
    OBVIOUS
  <1>1. ASSUME NEW s \in SUBSET S, \A y \in s : s \ {y} \in Q, NEW y \in s
        PROVE  SumFunctionOnSet(f, s) = f[y] + SumFunctionOnSet(f, s \ {y})
    <2>1. IsFiniteSet(s)
      BY FS_Subset
    <2> PICK c : c = Pick(s)
      OBVIOUS
    <2>2. c \in s
      BY PickIn
    <2>3. SumFunctionOnSet(f, s) = f[c] + SumFunctionOnSet(f, s \ {c})
      BY <2>1, SumUnfolds
    <2>4. CASE y # c
      <3> PICK u : u = s \ {c}
        OBVIOUS
      <3> PICK v : v = s \ {y}
        OBVIOUS
      <3> PICK w : w = u \ {y}
        OBVIOUS
      <3>1. u \in SUBSET S /\ v \in SUBSET S /\ y \in u /\ c \in v /\ w = v \ {c} /\ w \in SUBSET S
        BY <2>2, <2>4
      <3>2. SumFunctionOnSet(f, u) = f[y] + SumFunctionOnSet(f, w)
        BY <3>1, <1>1, <2>2, <1>q
      <3>3. SumFunctionOnSet(f, v) = f[c] + SumFunctionOnSet(f, w)
        BY <3>1, <1>1, <2>2, <1>q
      <3>4. f[y] \in Int /\ f[c] \in Int
        BY <2>2
      <3>5. SumFunctionOnSet(f, w) \in Int
        <4>1. IsFiniteSet(w)
          BY <3>1, FS_Subset
        <4>2. \A z \in w : f[z] \in Int
          BY <3>1
        <4> QED BY <4>1, <4>2, SumHasType
      <3> QED BY <2>3, <3>2, <3>3, <3>4, <3>5
    <2> QED BY <2>3, <2>4
  <1>2. Q \subseteq SUBSET S
    BY <1>q
  <1>3. \A s \in SUBSET S : (\A y \in s : s \ {y} \in Q) => s \in Q
    BY <1>1, <1>q
  <1>4. Q = SUBSET S
    BY <1>2, <1>3, SubsetInduction
  <1> QED BY <1>4, <1>q

\* Sums of families that agree are equal.
LEMMA SumAgrees ==
    ASSUME NEW f, NEW g, NEW S, IsFiniteSet(S), \A x \in S : f[x] = g[x]
    PROVE  SumFunctionOnSet(f, S) = SumFunctionOnSet(g, S)
  <1>1. PICK F : Adds(f, S, F) /\ SumFunctionOnSet(f, S) = F[S]
    BY SumIsAdds
  <1>2. PICK G : Adds(g, S, G) /\ SumFunctionOnSet(g, S) = G[S]
    BY SumIsAdds
  <1>3. Adds(f, S, G)
    <2>1. \A s \in SUBSET S : TakeOne(g, G, s) = TakeOne(f, G, s)
      BY PickIn DEF TakeOne
    <2> QED BY <1>2, <2>1 DEF Adds
  <1> QED BY <1>1, <1>2, <1>3, AddsAgree

\* A sum with one term more (_reserve_buy adds an order).
LEMMA SumGrows ==
    ASSUME NEW f, NEW g, NEW S, IsFiniteSet(S), NEW a, a \notin S,
           DOMAIN f = S, DOMAIN g = S \cup {a},
           \A x \in S : f[x] = g[x], \A x \in S \cup {a} : g[x] \in Int
    PROVE  SumFunction(g) = SumFunction(f) + g[a]
  <1>1. IsFiniteSet(S \cup {a})
    BY FS_AddElement
  <1>2. SumFunctionOnSet(g, S \cup {a}) = g[a] + SumFunctionOnSet(g, (S \cup {a}) \ {a})
    BY <1>1, SumTakes
  <1>3. (S \cup {a}) \ {a} = S
    OBVIOUS
  <1>4. SumFunctionOnSet(g, S) = SumFunctionOnSet(f, S)
    BY SumAgrees
  <1>5. SumFunctionOnSet(g, S) \in Int
    <2>1. \A x \in S : g[x] \in Int
      OBVIOUS
    <2> QED BY <2>1, SumHasType
  <1>6. g[a] \in Int
    OBVIOUS
  <1>7. SumFunction(g) = SumFunctionOnSet(g, S \cup {a})
    BY DEF SumFunction
  <1>8. SumFunction(f) = SumFunctionOnSet(f, S)
    BY DEF SumFunction
  <1>9. SumFunctionOnSet(g, S \cup {a}) = g[a] + SumFunctionOnSet(g, S)
    BY <1>2, <1>3
  <1>10. SumFunction(g) = g[a] + SumFunction(f)
    BY <1>4, <1>7, <1>8, <1>9
  <1>11. SumFunction(f) \in Int
    BY <1>4, <1>5, <1>8
  <1> QED BY <1>6, <1>10, <1>11

\* A sum of which one term changes.
LEMMA SumMoves ==
    ASSUME NEW f, NEW g, NEW S, IsFiniteSet(S), NEW a \in S,
           DOMAIN f = S, DOMAIN g = S,
           \A x \in S : f[x] \in Int /\ g[x] \in Int, \A x \in S \ {a} : f[x] = g[x]
    PROVE  SumFunction(g) = SumFunction(f) - f[a] + g[a]
  <1>1. SumFunctionOnSet(g, S) = g[a] + SumFunctionOnSet(g, S \ {a})
    BY SumTakes
  <1>2. SumFunctionOnSet(f, S) = f[a] + SumFunctionOnSet(f, S \ {a})
    BY SumTakes
  <1>3. IsFiniteSet(S \ {a})
    BY FS_RemoveElement
  <1>4. SumFunctionOnSet(g, S \ {a}) = SumFunctionOnSet(f, S \ {a})
    BY <1>3, SumAgrees
  <1>5. SumFunctionOnSet(f, S \ {a}) \in Int
    BY <1>3, SumHasType
  <1>6. f[a] \in Int /\ g[a] \in Int
    OBVIOUS
  <1> QED BY <1>1, <1>2, <1>4, <1>5, <1>6 DEF SumFunction

\* A sum of naturals is one, and no term exceeds it.
LEMMA SumBounds ==
    ASSUME NEW f, NEW S, IsFiniteSet(S), DOMAIN f = S, \A x \in S : f[x] \in Nat
    PROVE  /\ SumFunction(f) \in Nat
           /\ \A x \in S : f[x] <= SumFunction(f)
  <1>0. \A t \in Nat, u \in Nat : t + u \in Nat
    OBVIOUS
  <1>1. SumFunctionOnSet(f, S) \in Nat
    BY <1>0, SumHasType
  <1>2. ASSUME NEW x \in S PROVE f[x] <= SumFunctionOnSet(f, S)
    <2>1. SumFunctionOnSet(f, S) = f[x] + SumFunctionOnSet(f, S \ {x})
      BY SumTakes
    <2>2. IsFiniteSet(S \ {x})
      BY FS_RemoveElement
    <2>3. SumFunctionOnSet(f, S \ {x}) \in Nat
      <3>1. \A y \in S \ {x} : f[y] \in Nat
        OBVIOUS
      <3> QED BY <2>2, <3>1, <1>0, SumHasType
    <2>4. f[x] \in Nat
      OBVIOUS
    <2> QED BY <2>1, <2>3, <2>4
  <1> QED BY <1>1, <1>2 DEF SumFunction

\* A sum whose terms are all zero, as at the start of a run.
LEMMA SumOfZeros ==
    ASSUME NEW f, NEW S, IsFiniteSet(S), DOMAIN f = S, \A x \in S : f[x] = 0
    PROVE  SumFunction(f) = 0
  <1>1. SumFunctionOnSet(f, S) \in {0}
    <2>1. \A x \in S : f[x] \in {0}
      OBVIOUS
    <2>2. \A t \in {0}, u \in {0} : t + u \in {0}
      OBVIOUS
    <2> QED BY <2>1, <2>2, SumHasType
  <1> QED BY <1>1 DEF SumFunction

-------------------------------------------------------------------------------
(* The transaction clock.                                                     *)

\* Min of naturals is one of them and none is less.
LEMMA MinIsLeast ==
    ASSUME NEW S \in SUBSET Nat, S # {}
    PROVE  Min(S) \in S /\ \A n \in S : Min(S) <= n
  <1>1. PICK n \in S : \A m \in S : n <= m
    BY LeastNat
  <1> QED BY <1>1 DEF Min

\* A clock counts its transactions.
LEMMA CountIsNatural ==
    ASSUME NEW c, IsClock(c)
    PROVE  TransactionCount(c) \in Nat /\ c.blocks \in Nat \ {0}
  <1>1. c.blocks \in Nat \ {0}
    BY DEF IsClock
  <1>2. c.blocks + 1 \in 1 .. c.blocks + 1
    BY <1>1
  <1> QED BY <1>1, <1>2 DEF IsClock, TransactionCount

\* The prefix sums never fall, from one block to any later one.
LEMMA PrefixRises ==
    ASSUME NEW c, IsClock(c), NEW b \in 1 .. c.blocks + 1, NEW d \in 1 .. c.blocks + 1, b <= d
    PROVE  c.prefix[b] <= c.prefix[d]
  <1>p. PICK P : P = {k \in Nat : b + k <= c.blocks + 1 => c.prefix[b] <= c.prefix[b + k]}
    OBVIOUS
  <1>0. c.blocks \in Nat /\ b \in Nat /\ d \in Nat
    BY DEF IsClock
  <1>1. 0 \in P
    <2>0. c.prefix[b] \in Nat
      BY DEF IsClock
    <2>1. b + 0 = b /\ 0 \in Nat
      BY <1>0
    <2>2. c.prefix[b] <= c.prefix[b + 0]
      BY <2>0, <2>1
    <2> QED BY <1>p, <2>1, <2>2
  <1>2. ASSUME NEW k \in P PROVE k + 1 \in P
    <2>1. k \in Nat
      BY <1>p
    <2> SUFFICES ASSUME b + (k + 1) <= c.blocks + 1
                 PROVE  c.prefix[b] <= c.prefix[b + (k + 1)]
      BY <1>p, <2>1
    <2>2. b + k \in 1 .. c.blocks
      BY <1>0, <2>1
    <2>3. c.prefix[b] <= c.prefix[b + k]
      <3>1. b + k <= c.blocks + 1
        BY <1>0, <2>1, <2>2
      <3> QED BY <1>p, <3>1
    <2>4. c.prefix[(b + k) + 1] = c.prefix[b + k] + c.count[b + k]
      BY <2>2 DEF IsClock
    <2>5. c.count[b + k] \in Nat /\ c.prefix[b + k] \in Nat /\ c.prefix[b] \in Nat
      <3>1. b + k \in 1 .. c.blocks + 1
        BY <1>0, <2>1, <2>2
      <3> QED BY <2>2, <3>1 DEF IsClock
    <2>6. (b + k) + 1 = b + (k + 1)
      BY <1>0, <2>1
    <2> QED BY <2>3, <2>4, <2>5, <2>6
  <1>3. P = Nat
    <2>1. P \in SUBSET Nat BY <1>p
    <2> QED BY <1>1, <1>2, <2>1, NatSetInduction
  <1>4. d - b \in P /\ b + (d - b) = d
    BY <1>0, <1>3
  <1> QED BY <1>0, <1>4, <1>p

\* Nor does time.
LEMMA TimeRises ==
    ASSUME NEW c, IsClock(c), NEW b \in 1 .. c.blocks, NEW d \in 1 .. c.blocks, b <= d
    PROVE  c.time[b] <= c.time[d]
  <1>p. PICK P : P = {k \in Nat : b + k <= c.blocks => c.time[b] <= c.time[b + k]}
    OBVIOUS
  <1>0. c.blocks \in Nat /\ b \in Nat /\ d \in Nat
    BY DEF IsClock
  <1>1. 0 \in P
    <2>1. c.time[b] \in Nat
      BY DEF IsClock
    <2>2. b + 0 = b
      BY <1>0
    <2> QED BY <1>p, <2>1, <2>2
  <1>2. ASSUME NEW k \in P PROVE k + 1 \in P
    <2>1. k \in Nat
      BY <1>p
    <2> SUFFICES ASSUME b + (k + 1) <= c.blocks
                 PROVE  c.time[b] <= c.time[b + (k + 1)]
      BY <1>p, <2>1
    <2>2. b + k \in 1 .. c.blocks - 1 /\ b + k \in 1 .. c.blocks
      BY <1>0, <2>1
    <2>3. c.time[b] <= c.time[b + k]
      BY <1>p, <2>1, <2>2
    <2>4. (b + k) + 1 = b + (k + 1) /\ (b + k) + 1 \in 1 .. c.blocks
      BY <1>0, <2>1
    <2>5. c.time[b + k] <= c.time[(b + k) + 1]
      BY <2>2 DEF IsClock
    <2>6. c.time[b] \in Nat /\ c.time[b + k] \in Nat /\ c.time[(b + k) + 1] \in Nat
      BY <2>2, <2>4, <1>0 DEF IsClock
    <2> QED BY <2>3, <2>4, <2>5, <2>6
  <1>3. P = Nat
    <2>1. P \in SUBSET Nat BY <1>p
    <2> QED BY <1>1, <1>2, <2>1, NatSetInduction
  <1>4. d - b \in P /\ b + (d - b) = d
    BY <1>0, <1>3
  <1> QED BY <1>0, <1>4, <1>p

\* A position is in the block that BlockOf names (require_position).
LEMMA BlockHolds ==
    ASSUME NEW c, IsClock(c), NEW p \in Positions(c)
    PROVE  /\ BlockOf(c, p) \in 1 .. c.blocks
           /\ c.prefix[BlockOf(c, p)] <= p /\ p < c.prefix[BlockOf(c, p) + 1]
  <1>n. c.blocks \in Nat \ {0}
    BY DEF IsClock
  <1>0. c.blocks \in Nat \ {0} /\ p \in Nat /\ p < c.prefix[c.blocks + 1]
    <2>1. c.blocks + 1 \in 1 .. c.blocks + 1
      BY <1>n
    <2>2. c.prefix[c.blocks + 1] \in Nat
      BY <2>1 DEF IsClock
    <2> QED BY <1>n, <2>2 DEF Positions, TransactionCount
  <1>t. PICK T : T = {b \in 1 .. c.blocks : p < c.prefix[b + 1]}
    OBVIOUS
  <1>1. T \in SUBSET Nat /\ T # {}
    BY <1>0, <1>t
  <1>2. PICK b \in T : \A d \in T : b <= d
    BY <1>1, LeastNat
  <1>3. b \in 1 .. c.blocks /\ p < c.prefix[b + 1] /\ b \in Nat
    BY <1>1, <1>2, <1>t
  <1>4. c.prefix[b] <= p
    <2>1. CASE b = 1
      BY <1>0, <2>1 DEF IsClock
    <2>2. CASE b # 1
      <3>1. b - 1 \in 1 .. c.blocks /\ (b - 1) + 1 = b
        BY <1>0, <1>3, <2>2
      <3>2. b - 1 \notin T
        BY <1>2, <1>3
      <3>3. ~ (p < c.prefix[b])
        BY <3>1, <3>2, <1>t
      <3>5. b \in 1 .. c.blocks + 1
        BY <1>0, <1>3
      <3>4. c.prefix[b] \in Nat
        BY <3>5 DEF IsClock
      <3> QED BY <3>3, <3>4, <1>0
    <2> QED BY <2>1, <2>2
  <1>5. \E d \in 1 .. c.blocks : c.prefix[d] <= p /\ p < c.prefix[d + 1]
    BY <1>3, <1>4
  <1> QED BY <1>5 DEF BlockOf

\* A later position is in no earlier block, and not before it in time.
LEMMA BlocksInOrder ==
    ASSUME NEW c, IsClock(c), NEW p \in Positions(c), NEW q \in Positions(c), p <= q
    PROVE  /\ BlockOf(c, p) <= BlockOf(c, q)
           /\ TimeOf(c, p) <= TimeOf(c, q)
           /\ TimeOf(c, p) \in Nat
  <1>b. PICK b : b = BlockOf(c, p)
    OBVIOUS
  <1>d. PICK d : d = BlockOf(c, q)
    OBVIOUS
  <1>0. c.blocks \in Nat /\ p \in Nat /\ q \in Nat
    BY CountIsNatural DEF Positions
  <1>1. b \in 1 .. c.blocks /\ c.prefix[b] <= p /\ p < c.prefix[b + 1]
    BY <1>b, BlockHolds
  <1>2. d \in 1 .. c.blocks /\ c.prefix[d] <= q /\ q < c.prefix[d + 1]
    BY <1>d, BlockHolds
  <1>3. b <= d
    <2> SUFFICES ASSUME d < b PROVE FALSE
      BY <1>0, <1>1, <1>2
    <2>1. d + 1 \in 1 .. c.blocks + 1 /\ b \in 1 .. c.blocks + 1 /\ d + 1 <= b
      BY <1>0, <1>1, <1>2
    <2>2. c.prefix[d + 1] <= c.prefix[b]
      BY <2>1, PrefixRises
    <2>3. c.prefix[d + 1] \in Nat /\ c.prefix[b] \in Nat
      BY <2>1 DEF IsClock
    <2> QED BY <1>0, <1>1, <1>2, <2>2, <2>3
  <1>4. c.time[b] <= c.time[d]
    BY <1>1, <1>2, <1>3, TimeRises
  <1>5. c.time[b] \in Nat
    BY <1>1 DEF IsClock
  <1> QED BY <1>b, <1>d, <1>3, <1>4, <1>5 DEF TimeOf

\* transaction_after: off the clock or exactly that much later.
LEMMA AfterIsLater ==
    ASSUME NEW c, IsClock(c), NEW p \in Nat, NEW delay \in Nat, TransactionAfter(c, p, delay) # OffClock
    PROVE  /\ TransactionAfter(c, p, delay) = p + delay
           /\ TransactionAfter(c, p, delay) \in Positions(c)
  <1>1. TransactionCount(c) \in Nat
    BY CountIsNatural
  <1>2. p + delay < TransactionCount(c)
    BY DEF TransactionAfter, OffClock
  <1> QED BY <1>1, <1>2 DEF TransactionAfter, Positions, OffClock

\* What is off the clock stays off it (SETTLEMENT_TAIL_EXHAUSTED).
LEMMA OffStaysOff ==
    ASSUME NEW c, NEW d
    PROVE  TransactionAfter(c, OffClock, d) = OffClock /\ HoldingDeadline(c, OffClock, d) = OffClock
  BY DEF TransactionAfter, HoldingDeadline

\* transaction_after keeps the order of positions.
LEMMA AfterKeepsOrder ==
    ASSUME NEW c, IsClock(c), NEW p \in Nat, NEW q \in Nat, p <= q, NEW delay \in Nat,
           TransactionAfter(c, q, delay) # OffClock
    PROVE  /\ TransactionAfter(c, p, delay) # OffClock
           /\ TransactionAfter(c, p, delay) <= TransactionAfter(c, q, delay)
  <1>1. TransactionCount(c) \in Nat
    BY CountIsNatural
  <1>2. q + delay < TransactionCount(c)
    BY DEF TransactionAfter, OffClock
  <1> QED BY <1>1, <1>2 DEF TransactionAfter, OffClock

\* The blocks that may end a holding time.
DueBlocks(c, p, d) ==
    {b \in BlockOf(c, p) + 1 .. c.blocks : c.count[b] > 0 /\ c.time[b] >= TimeOf(c, p) + d}

\* holding_deadline is the first transaction of the first of them.
LEMMA HoldingIsFirst ==
    ASSUME NEW c, NEW p \in Nat, NEW d
    PROVE  HoldingDeadline(c, p, d) =
                IF DueBlocks(c, p, d) = {} THEN OffClock ELSE c.prefix[Min(DueBlocks(c, p, d))]
  BY DEF HoldingDeadline, FirstAtOrAfter, DueBlocks, OffClock

\* Each of them is a block of the clock, begins after the position, and has a
\* transaction.
LEMMA DueBlocksAreLater ==
    ASSUME NEW c, IsClock(c), NEW p \in Positions(c), NEW d \in Nat, NEW b \in DueBlocks(c, p, d)
    PROVE  b \in 1 .. c.blocks /\ c.prefix[b] \in Positions(c) /\ p < c.prefix[b]
  <1>0. c.blocks \in Nat \ {0} /\ TransactionCount(c) \in Nat /\ p \in Nat
    BY CountIsNatural DEF Positions
  <1>k. PICK k : k = BlockOf(c, p)
    OBVIOUS
  <1>1. k \in 1 .. c.blocks /\ p < c.prefix[k + 1]
    BY <1>k, BlockHolds
  <1>2. b \in k + 1 .. c.blocks /\ c.count[b] > 0
    BY <1>k DEF DueBlocks
  <1>3. /\ k + 1 \in 1 .. c.blocks + 1 /\ b \in 1 .. c.blocks + 1 /\ b \in 1 .. c.blocks
        /\ b + 1 \in 1 .. c.blocks + 1 /\ c.blocks + 1 \in 1 .. c.blocks + 1
        /\ k + 1 <= b /\ b + 1 <= c.blocks + 1
    BY <1>0, <1>1, <1>2
  <1>4. c.prefix[k + 1] <= c.prefix[b]
    BY <1>3, PrefixRises
  <1>5. c.prefix[b + 1] <= TransactionCount(c)
    BY <1>3, PrefixRises DEF TransactionCount
  <1>6. c.prefix[b + 1] = c.prefix[b] + c.count[b] /\ c.count[b] \in Nat
    BY <1>3 DEF IsClock
  <1>7. c.prefix[b] \in Nat /\ c.prefix[b + 1] \in Nat /\ c.prefix[k + 1] \in Nat
    BY <1>3 DEF IsClock
  <1> QED BY <1>0, <1>1, <1>2, <1>3, <1>4, <1>5, <1>6, <1>7 DEF Positions

\* holding_deadline: off the clock or a later position.
LEMMA HoldingIsLater ==
    ASSUME NEW c, IsClock(c), NEW p \in Positions(c), NEW d \in Nat,
           HoldingDeadline(c, p, d) # OffClock
    PROVE  HoldingDeadline(c, p, d) \in Positions(c) /\ p < HoldingDeadline(c, p, d)
  <1>0. p \in Nat
    BY DEF Positions
  <1>1. DueBlocks(c, p, d) # {} /\ HoldingDeadline(c, p, d) = c.prefix[Min(DueBlocks(c, p, d))]
    BY <1>0, HoldingIsFirst
  <1>2. \A b \in DueBlocks(c, p, d) : b \in 1 .. c.blocks
    BY DueBlocksAreLater
  <1>3. DueBlocks(c, p, d) \in SUBSET Nat
    BY <1>2
  <1>4. Min(DueBlocks(c, p, d)) \in DueBlocks(c, p, d)
    BY <1>1, <1>3, MinIsLeast
  <1> QED BY <1>1, <1>4, DueBlocksAreLater

\* holding_deadline keeps the order of positions: time never regresses.
LEMMA HoldingKeepsOrder ==
    ASSUME NEW c, IsClock(c), NEW p \in Positions(c), NEW q \in Positions(c), p <= q, NEW d \in Nat,
           HoldingDeadline(c, q, d) # OffClock
    PROVE  /\ HoldingDeadline(c, p, d) # OffClock
           /\ HoldingDeadline(c, p, d) <= HoldingDeadline(c, q, d)
  <1>0. p \in Nat /\ q \in Nat /\ c.blocks \in Nat
    BY CountIsNatural DEF Positions
  <1>1. DueBlocks(c, q, d) # {} /\ HoldingDeadline(c, q, d) = c.prefix[Min(DueBlocks(c, q, d))]
    BY <1>0, HoldingIsFirst
  <1>2. DueBlocks(c, q, d) \subseteq DueBlocks(c, p, d)
    <2>1. /\ BlockOf(c, p) <= BlockOf(c, q) /\ TimeOf(c, p) <= TimeOf(c, q)
          /\ TimeOf(c, p) \in Nat /\ TimeOf(c, q) \in Nat
      BY <1>0, BlocksInOrder
    <2>2. BlockOf(c, p) \in 1 .. c.blocks /\ BlockOf(c, q) \in 1 .. c.blocks
      BY BlockHolds
    <2> SUFFICES ASSUME NEW b \in DueBlocks(c, q, d) PROVE b \in DueBlocks(c, p, d)
      OBVIOUS
    <2>3. b \in 1 .. c.blocks
      BY DueBlocksAreLater
    <2>4. c.time[b] \in Nat
      BY <2>3 DEF IsClock
    <2> QED BY <1>0, <2>1, <2>2, <2>3, <2>4 DEF DueBlocks
  <1>3. \A b \in DueBlocks(c, p, d) : b \in 1 .. c.blocks /\ c.prefix[b] \in Positions(c)
    BY DueBlocksAreLater
  <1>4. DueBlocks(c, p, d) \in SUBSET Nat /\ DueBlocks(c, q, d) \in SUBSET Nat
    BY <1>2, <1>3
  <1>5. /\ Min(DueBlocks(c, q, d)) \in DueBlocks(c, p, d)
        /\ Min(DueBlocks(c, p, d)) \in DueBlocks(c, p, d)
        /\ Min(DueBlocks(c, p, d)) <= Min(DueBlocks(c, q, d))
    BY <1>1, <1>2, <1>4, MinIsLeast
  <1>6. HoldingDeadline(c, p, d) = c.prefix[Min(DueBlocks(c, p, d))]
    BY <1>0, <1>5, HoldingIsFirst
  <1>7. c.prefix[Min(DueBlocks(c, p, d))] <= c.prefix[Min(DueBlocks(c, q, d))]
    <2>1. Min(DueBlocks(c, p, d)) \in 1 .. c.blocks + 1 /\ Min(DueBlocks(c, q, d)) \in 1 .. c.blocks + 1
      BY <1>0, <1>3, <1>5
    <2> QED BY <1>5, <2>1, PrefixRises
  <1>8. c.prefix[Min(DueBlocks(c, p, d))] \in Positions(c)
    BY <1>3, <1>5
  <1> QED BY <1>1, <1>6, <1>7, <1>8 DEF Positions, OffClock

-------------------------------------------------------------------------------
(* The books as an inductive invariant of both engines.                       *)

\* Types of the wallet and of what is remembered of each trip.
BooksTyped ==
    /\ available \in [Assets -> Nat] /\ reserved \in [Assets -> Nat] /\ locked \in Nat
    /\ uvaOwner \in Trips \cup {None}
    /\ openMints \in [Mints -> Trips \cup {None}]
    /\ trip \in [Trips -> [DOMAIN NewTrip -> Nat]]

\* Orders are finitely many, and a trip has one at most.
OneOrderEach ==
    /\ IsFiniteSet(Orders)
    /\ \A a \in Orders : a.trip \in Trips /\ a.kind \in {"BUY_LANDING", "SELL_LANDING"}
    /\ \A a, b \in Orders : a.trip = b.trip => a = b

\* Nothing was paid or received for a trip.
Untouched(t) ==
    /\ trip[t].spent = 0 /\ trip[t].tokens = 0 /\ trip[t].proceeds = 0
    /\ trip[t].feesPaid = 0 /\ trip[t].uvaPaid = 0 /\ trip[t].mintLocked = 0

\* A buy in flight is a trip's first order, and holds the deposit of the
\* wallet's account unless that account exists.
BuysComeFirst ==
    \A a \in Orders : a.kind = "BUY_LANDING" =>
        /\ Untouched(a.trip)
        /\ UvaExists \/ trip[a.trip].uvaReserved = UvaDeposit

\* The trip that holds a mint's account bought that mint and has not sold it.
OpenIsUnsold ==
    \A m \in Mints : openMints[m] # None =>
        run.mint[openMints[m]] = m /\ trip[openMints[m]].proceeds = 0

Books ==
    /\ run \in Runs
    /\ BooksTyped
    /\ OneOrderEach
    /\ BuysComeFirst
    /\ OpenIsUnsold
    /\ ReservedIsInFlight
    /\ BooksExplained
    /\ DepositsLockedOnce

\* The fields of what is remembered of a trip.
LEMMA TripFields ==
    DOMAIN NewTrip = {"uvaReserved", "fee", "spent", "tokens", "proceeds",
                      "feesPaid", "uvaPaid", "mintLocked"}
  BY DEF NewTrip

\* Each of them is an amount.
LEMMA TripAmounts ==
    ASSUME BooksTyped, NEW t \in Trips
    PROVE  /\ trip[t].uvaReserved \in Nat /\ trip[t].fee \in Nat /\ trip[t].spent \in Nat
           /\ trip[t].tokens \in Nat /\ trip[t].proceeds \in Nat /\ trip[t].feesPaid \in Nat
           /\ trip[t].uvaPaid \in Nat /\ trip[t].mintLocked \in Nat
  <1>1. trip[t] \in [DOMAIN NewTrip -> Nat]
    BY DEF BooksTyped
  <1> QED BY <1>1, TripFields

\* What a run fixes: its engine, its mints, where its fees are paid.
LEMMA RunFacts ==
    ASSUME run \in Runs
    PROVE  /\ IsClock(run.clock)
           /\ run.launch \in [Trips -> Positions(run.clock)]
           /\ run.mint \in [Trips -> Mints]
           /\ run.developer \in [Trips -> Developers]
           /\ FeeAsset \in {Quote, Native}
           /\ \A x : StartOf(x) \in Nat
           /\ run.engine \in {"sniping", "copy"}
           /\ run.engine = "sniping" => IsInjective(run.mint)
  BY RunsAreValid DEF FeeAsset, StartOf

\* What an order holds of an asset.
LEMMA HeldAmounts ==
    ASSUME run \in Runs, BooksTyped, NEW t \in Trips, NEW x \in Assets
    PROVE  /\ BuyHeld(t)[x] = On(x, Quote, Budget)
                + On(x, FeeAsset, trip[t].fee + MintDeposit + trip[t].uvaReserved)
           /\ BuyHeld(t)[x] \in Nat
           /\ SellHeld(t)[x] = On(x, run.mint[t], trip[t].tokens) + On(x, FeeAsset, trip[t].fee)
           /\ SellHeld(t)[x] \in Nat
  BY TripAmounts, AmountsAreNatural
     DEF BuyHeld, SellHeld, BuyReservation, SellReservation, On

\* An order holds the same as long as its trip's record stays.
LEMMA HeldStays ==
    ASSUME run' = run, NEW b, trip'[b.trip] = trip[b.trip]
    PROVE  HeldBy(b)' = HeldBy(b)
  BY DEF HeldBy, BuyHeld, SellHeld, BuyReservation, SellReservation, FeeAsset

\* A submitted order holds what was reserved for it (_reserve_buy, _reserve_sell).
LEMMA SubmittedIsReserved ==
    ASSUME Books, NEW o, o \notin Orders, Orders' = Orders \cup {o},
           \A b \in Orders : HeldBy(b)' = HeldBy(b),
           NEW amounts, \A x \in Assets : amounts[x] \in Nat,
           \A x \in Assets : HeldBy(o)'[x] = amounts[x],
           \A x \in Assets : reserved'[x] = reserved[x] + amounts[x]
    PROVE  ReservedIsInFlight'
  <1> SUFFICES ASSUME NEW x \in Assets
               PROVE  reserved'[x] = SumFunction(HeldOf(x)')
    BY DEF ReservedIsInFlight
  <1>1. reserved[x] = SumFunction(HeldOf(x))
    BY DEF Books, ReservedIsInFlight
  <1>2. \A b \in Orders : HeldBy(b)[x] \in Nat
    BY HeldAmounts DEF Books, OneOrderEach, HeldBy
  <1>3. IsFiniteSet(Orders)
    BY DEF Books, OneOrderEach
  <1>4. /\ DOMAIN HeldOf(x) = Orders /\ DOMAIN HeldOf(x)' = Orders \cup {o}
        /\ \A b \in Orders : HeldOf(x)[b] = HeldBy(b)[x]
        /\ \A b \in Orders \cup {o} : HeldOf(x)'[b] = HeldBy(b)'[x]
    BY DEF HeldOf
  <1>5. /\ \A b \in Orders \cup {o} : HeldOf(x)'[b] \in Int
        /\ \A b \in Orders : HeldOf(x)'[b] = HeldOf(x)[b]
    BY <1>2, <1>4
  <1>6. SumFunction(HeldOf(x)') = SumFunction(HeldOf(x)) + HeldOf(x)'[o]
    BY <1>3, <1>4, <1>5, SumGrows
  <1>7. HeldOf(x)'[o] = amounts[x]
    BY <1>4
  <1> QED BY <1>1, <1>6, <1>7

\* An order that lands releases what it held, and that only.
LEMMA LandedIsReleased ==
    ASSUME Books, NEW o \in Orders, Orders' = Orders \ {o},
           \A b \in Orders \ {o} : HeldBy(b)' = HeldBy(b),
           \A x \in Assets : reserved'[x] = reserved[x] - HeldBy(o)[x]
    PROVE  ReservedIsInFlight'
  <1> SUFFICES ASSUME NEW x \in Assets
               PROVE  reserved'[x] = SumFunction(HeldOf(x)')
    BY DEF ReservedIsInFlight
  <1>1. reserved[x] = SumFunction(HeldOf(x))
    BY DEF Books, ReservedIsInFlight
  <1>2. \A b \in Orders : HeldBy(b)[x] \in Nat
    BY HeldAmounts DEF Books, OneOrderEach, HeldBy
  <1>3. IsFiniteSet(Orders \ {o})
    BY FS_RemoveElement DEF Books, OneOrderEach
  <1>4. /\ DOMAIN HeldOf(x) = (Orders \ {o}) \cup {o} /\ DOMAIN HeldOf(x)' = Orders \ {o}
        /\ \A b \in Orders : HeldOf(x)[b] = HeldBy(b)[x]
        /\ \A b \in Orders \ {o} : HeldOf(x)'[b] = HeldBy(b)'[x]
    BY DEF HeldOf
  <1>5. /\ \A b \in (Orders \ {o}) \cup {o} : HeldOf(x)[b] \in Int
        /\ \A b \in Orders \ {o} : HeldOf(x)'[b] = HeldOf(x)[b]
    BY <1>2, <1>4
  <1>6. SumFunction(HeldOf(x)) = SumFunction(HeldOf(x)') + HeldOf(x)[o]
    BY <1>3, <1>4, <1>5, SumGrows
  <1>7. HeldOf(x)[o] = HeldBy(o)[x] /\ HeldBy(o)[x] \in Nat
    BY <1>2, <1>4
  <1>8. SumFunction(HeldOf(x)') \in Nat
    <2>1. \A b \in Orders \ {o} : HeldOf(x)'[b] \in Nat
      BY <1>2, <1>4, <1>5
    <2> QED BY <1>3, <1>4, <2>1, SumBounds
  <1> QED BY <1>1, <1>6, <1>7, <1>8

\* No order holds more than is reserved: a landing never overspends it.
LEMMA OrderIsCovered ==
    ASSUME Books, NEW o \in Orders, NEW x \in Assets
    PROVE  HeldBy(o)[x] \in Nat /\ HeldBy(o)[x] <= reserved[x]
  <1>1. reserved[x] = SumFunction(HeldOf(x))
    BY DEF Books, ReservedIsInFlight
  <1>2. \A b \in Orders : HeldBy(b)[x] \in Nat
    BY HeldAmounts DEF Books, OneOrderEach, HeldBy
  <1>3. IsFiniteSet(Orders)
    BY DEF Books, OneOrderEach
  <1>4. DOMAIN HeldOf(x) = Orders /\ \A b \in Orders : HeldOf(x)[b] = HeldBy(b)[x]
    BY DEF HeldOf
  <1>5. \A b \in Orders : HeldOf(x)[b] <= SumFunction(HeldOf(x))
    BY <1>2, <1>3, <1>4, SumBounds
  <1> QED BY <1>1, <1>2, <1>4, <1>5

\* A cash flow is a number.
LEMMA FlowIsNumber ==
    ASSUME run \in Runs, BooksTyped, NEW t \in Trips, NEW x \in Assets
    PROVE  CashFlow(t, x) \in Int
  BY TripAmounts DEF CashFlow, On

\* The wallet stays explained when it changes by as much as one trip's flow.
LEMMA FlowExplainsChange ==
    ASSUME Books, run' = run, BooksTyped', NEW t \in Trips,
           \A u \in Trips \ {t} : trip'[u] = trip[u],
           \A x \in Assets : available'[x] + reserved'[x] =
                available[x] + reserved[x] + (CashFlow(t, x)' - CashFlow(t, x))
    PROVE  BooksExplained'
  <1> SUFFICES ASSUME NEW x \in Assets
               PROVE  available'[x] + reserved'[x] = StartOf(x)' + SumFunction(FlowsOf(x)')
    BY DEF BooksExplained
  <1>1. available[x] + reserved[x] = StartOf(x) + SumFunction(FlowsOf(x))
    BY DEF Books, BooksExplained
  <1>2. \A u \in Trips : CashFlow(u, x) \in Int
    BY FlowIsNumber DEF Books
  <1>3. \A u \in Trips \ {t} : CashFlow(u, x)' = CashFlow(u, x)
    BY DEF CashFlow, FeeAsset
  <1>4. CashFlow(t, x)' \in Int
    <2>1. available'[x] \in Nat /\ reserved'[x] \in Nat /\ available[x] \in Nat /\ reserved[x] \in Nat
      BY DEF Books, BooksTyped
    <2>2. \A k \in {"spent", "tokens", "proceeds", "feesPaid", "uvaPaid", "mintLocked"} :
            trip'[t][k] \in Nat
      <3>1. trip'[t] \in [DOMAIN NewTrip -> Nat]
        BY DEF BooksTyped
      <3> QED BY <3>1, TripFields
    <2> QED BY <2>2 DEF CashFlow, On
  <1>5. /\ DOMAIN FlowsOf(x) = Trips /\ DOMAIN FlowsOf(x)' = Trips
        /\ \A u \in Trips : FlowsOf(x)[u] = CashFlow(u, x) /\ FlowsOf(x)'[u] = CashFlow(u, x)'
    BY DEF FlowsOf
  <1>6. /\ \A u \in Trips : FlowsOf(x)[u] \in Int /\ FlowsOf(x)'[u] \in Int
        /\ \A u \in Trips \ {t} : FlowsOf(x)[u] = FlowsOf(x)'[u]
    BY <1>2, <1>3, <1>4, <1>5
  <1>7. IsFiniteSet(Trips)
    BY TripsAreFinite
  <1>8. SumFunction(FlowsOf(x)') = SumFunction(FlowsOf(x)) - FlowsOf(x)[t] + FlowsOf(x)'[t]
    BY <1>5, <1>6, <1>7, SumMoves
  <1>9. StartOf(x)' = StartOf(x) /\ StartOf(x) \in Nat
    BY RunFacts DEF StartOf, Books
  <1>10. SumFunction(FlowsOf(x)) \in Int
    <2>1. available[x] \in Nat /\ reserved[x] \in Nat
      BY DEF Books, BooksTyped
    <2>2. SumFunction(FlowsOf(x)) \in Int
      BY <1>5, <1>6, <1>7, SumHasType, \A u, v \in Int : u + v \in Int DEF SumFunction
    <2> QED BY <2>2
  <1> QED BY <1>1, <1>2, <1>4, <1>5, <1>8, <1>9, <1>10 DEF Books, BooksTyped

\* _reserve_buy keeps the books: the order is a trip's first, and what it holds
\* is moved from one account of the wallet to the other.
LEMMA SubmitBuyKeepsBooks ==
    ASSUME Books, run' = run, NEW t \in Trips, NEW fee \in Fees,
           HasAvailable(BuyReservation(fee, UvaReservation)), SubmitBuy(t, fee),
           Untouched(t), \A a \in Orders : a.trip # t,
           NEW o, o.trip = t, o.kind = "BUY_LANDING", Orders' = Orders \cup {o}
    PROVE  Books'
  <1>a. PICK amounts : amounts = BuyReservation(fee, UvaReservation)
    OBVIOUS
  <1>0. o \notin Orders /\ fee \in Nat /\ UvaReservation \in Nat /\ FeeAsset' = FeeAsset
    BY AmountsAreNatural DEF UvaReservation, FeeAsset
  <1>1. \A x \in Assets :
            /\ amounts[x] = On(x, Quote, Budget) + On(x, FeeAsset, fee + MintDeposit + UvaReservation)
            /\ amounts[x] \in Nat /\ amounts[x] <= available[x]
    BY <1>a, <1>0, AmountsAreNatural DEF BuyReservation, On, HasAvailable, Books, BooksTyped
  <1>2. \A x \in Assets :
            available'[x] = available[x] - amounts[x] /\ reserved'[x] = reserved[x] + amounts[x]
    BY <1>a DEF SubmitBuy, Reserve
  <1>3. /\ trip' \in [Trips -> [DOMAIN NewTrip -> Nat]]
        /\ \A u \in Trips \ {t} : trip'[u] = trip[u]
        /\ trip'[t].fee = fee /\ trip'[t].uvaReserved = UvaReservation
        /\ \A k \in {"spent", "tokens", "proceeds", "feesPaid", "uvaPaid", "mintLocked"} :
                trip'[t][k] = trip[t][k]
    BY <1>0, TripFields DEF SubmitBuy, Books, BooksTyped
  <1>4. locked' = locked /\ uvaOwner' = uvaOwner /\ openMints' = openMints /\ UvaExists' = UvaExists
    BY DEF SubmitBuy, UvaExists
  <1>5. BooksTyped'
    <2>1. available' \in [Assets -> Nat] /\ reserved' \in [Assets -> Nat]
      BY <1>1, <1>2 DEF SubmitBuy, Reserve, Books, BooksTyped
    <2> QED BY <1>3, <1>4, <2>1 DEF Books, BooksTyped
  <1>6. OneOrderEach'
    BY FS_AddElement DEF OneOrderEach, Books
  <1>7. \A b \in Orders : HeldBy(b)' = HeldBy(b)
    BY <1>3, HeldStays DEF Books, OneOrderEach
  <1>8. ReservedIsInFlight'
    <2>1. HeldBy(o)' = [a \in Assets |-> On(a, Quote, Budget)
                            + On(a, FeeAsset, fee + MintDeposit + UvaReservation)]
      BY <1>0, <1>3 DEF HeldBy, BuyHeld, BuyReservation
    <2>2. \A x \in Assets : HeldBy(o)'[x] = amounts[x]
      BY <1>1, <2>1
    <2> QED BY <1>0, <1>1, <1>2, <1>7, <2>2, SubmittedIsReserved
  <1>9. BooksExplained'
    <2>1. \A x \in Assets : CashFlow(t, x)' = CashFlow(t, x)
      BY <1>0, <1>3 DEF CashFlow
    <2>2. \A x \in Assets : CashFlow(t, x) \in Int
      BY FlowIsNumber DEF Books
    <2>3. \A x \in Assets : available'[x] + reserved'[x] =
                available[x] + reserved[x] + (CashFlow(t, x)' - CashFlow(t, x))
      BY <1>1, <1>2, <2>1, <2>2 DEF Books, BooksTyped
    <2> QED BY <1>3, <1>5, <2>3, FlowExplainsChange
  <1>10. DepositsLockedOnce'
    <2>1. \A u \in Trips : trip'[u].uvaPaid = trip[u].uvaPaid /\ trip'[u].mintLocked = trip[u].mintLocked
      BY <1>3
    <2>2. Deposits' = Deposits
      BY <2>1 DEF Deposits
    <2> QED BY <1>4, <2>1, <2>2 DEF DepositsLockedOnce, Books
  <1>11. BuysComeFirst'
    BY <1>3, <1>4 DEF BuysComeFirst, Untouched, Books, OneOrderEach, UvaReservation
  <1>12. OpenIsUnsold'
    BY <1>3, <1>4 DEF OpenIsUnsold, Books, BooksTyped
  <1> QED BY <1>5, <1>6, <1>8, <1>9, <1>10, <1>11, <1>12 DEF Books

\* _reserve_sell keeps the books.
LEMMA SubmitSellKeepsBooks ==
    ASSUME Books, run' = run, NEW t \in Trips, NEW fee \in Fees,
           HasAvailable(SellReservation(t, fee)), SubmitSell(t, fee),
           \A a \in Orders : a.trip # t,
           NEW o, o.trip = t, o.kind = "SELL_LANDING", Orders' = Orders \cup {o}
    PROVE  Books'
  <1>a. PICK amounts : amounts = SellReservation(t, fee)
    OBVIOUS
  <1>0. o \notin Orders /\ fee \in Nat /\ trip[t].tokens \in Nat /\ FeeAsset' = FeeAsset
    BY AmountsAreNatural, TripAmounts DEF FeeAsset, Books
  <1>1. \A x \in Assets :
            /\ amounts[x] = On(x, run.mint[t], trip[t].tokens) + On(x, FeeAsset, fee)
            /\ amounts[x] \in Nat /\ amounts[x] <= available[x]
    BY <1>a, <1>0 DEF SellReservation, On, HasAvailable, Books, BooksTyped
  <1>2. \A x \in Assets :
            available'[x] = available[x] - amounts[x] /\ reserved'[x] = reserved[x] + amounts[x]
    BY <1>a DEF SubmitSell, Reserve
  <1>3. /\ trip' \in [Trips -> [DOMAIN NewTrip -> Nat]]
        /\ \A u \in Trips \ {t} : trip'[u] = trip[u]
        /\ trip'[t].fee = fee /\ trip'[t].uvaReserved = trip[t].uvaReserved
        /\ \A k \in {"spent", "tokens", "proceeds", "feesPaid", "uvaPaid", "mintLocked"} :
                trip'[t][k] = trip[t][k]
    BY <1>0, TripFields DEF SubmitSell, Books, BooksTyped
  <1>4. locked' = locked /\ uvaOwner' = uvaOwner /\ openMints' = openMints /\ UvaExists' = UvaExists
    BY DEF SubmitSell, UvaExists
  <1>5. BooksTyped'
    <2>1. available' \in [Assets -> Nat] /\ reserved' \in [Assets -> Nat]
      BY <1>1, <1>2 DEF SubmitSell, Reserve, Books, BooksTyped
    <2> QED BY <1>3, <1>4, <2>1 DEF Books, BooksTyped
  <1>6. OneOrderEach'
    BY FS_AddElement DEF OneOrderEach, Books
  <1>7. \A b \in Orders : HeldBy(b)' = HeldBy(b)
    BY <1>3, HeldStays DEF Books, OneOrderEach
  <1>8. ReservedIsInFlight'
    <2>1. HeldBy(o)' = [a \in Assets |-> On(a, run.mint[t], trip[t].tokens) + On(a, FeeAsset, fee)]
      BY <1>0, <1>3 DEF HeldBy, SellHeld, SellReservation
    <2>2. \A x \in Assets : HeldBy(o)'[x] = amounts[x]
      BY <1>1, <2>1
    <2> QED BY <1>0, <1>1, <1>2, <1>7, <2>2, SubmittedIsReserved
  <1>9. BooksExplained'
    <2>1. \A x \in Assets : CashFlow(t, x)' = CashFlow(t, x)
      BY <1>0, <1>3 DEF CashFlow
    <2>2. \A x \in Assets : CashFlow(t, x) \in Int
      BY FlowIsNumber DEF Books
    <2>3. \A x \in Assets : available'[x] + reserved'[x] =
                available[x] + reserved[x] + (CashFlow(t, x)' - CashFlow(t, x))
      BY <1>1, <1>2, <2>1, <2>2 DEF Books, BooksTyped
    <2> QED BY <1>3, <1>5, <2>3, FlowExplainsChange
  <1>10. DepositsLockedOnce'
    <2>1. \A u \in Trips : trip'[u].uvaPaid = trip[u].uvaPaid /\ trip'[u].mintLocked = trip[u].mintLocked
      BY <1>3
    <2>2. Deposits' = Deposits
      BY <2>1 DEF Deposits
    <2> QED BY <1>4, <2>1, <2>2 DEF DepositsLockedOnce, Books
  <1>11. BuysComeFirst'
    BY <1>3, <1>4 DEF BuysComeFirst, Untouched, Books, OneOrderEach
  <1>12. OpenIsUnsold'
    BY <1>3, <1>4 DEF OpenIsUnsold, Books, BooksTyped
  <1> QED BY <1>5, <1>6, <1>8, <1>9, <1>10, <1>11, <1>12 DEF Books

\* An order that leaves the heap leaves the rest of the orders as they were.
LEMMA OrderLeaves ==
    ASSUME OneOrderEach, NEW o \in Orders, Orders' = Orders \ {o}
    PROVE  OneOrderEach'
  BY FS_RemoveElement DEF OneOrderEach

\* _failed_buy_settlement keeps the books: the network fee is spent, and the rest
\* of the reservation comes back.
LEMMA FailBuyKeepsBooks ==
    ASSUME Books, run' = run, NEW o \in Orders, o.kind = "BUY_LANDING", FailBuy(o.trip),
           Orders' = Orders \ {o}
    PROVE  Books'
  <1>t. PICK t \in Trips : t = o.trip
    BY DEF Books, OneOrderEach
  <1>0. /\ trip[t].fee \in Nat /\ trip[t].uvaReserved \in Nat /\ FeeAsset' = FeeAsset
        /\ MintDeposit \in Nat /\ Budget \in Nat
    BY AmountsAreNatural, TripAmounts DEF FeeAsset, Books
  <1>u. Untouched(t)
    BY <1>t DEF Books, BuysComeFirst
  <1>1. \A x \in Assets :
            /\ HeldBy(o)[x] = On(x, Quote, Budget)
                    + On(x, FeeAsset, trip[t].fee + MintDeposit + trip[t].uvaReserved)
            /\ HeldBy(o)[x] \in Nat /\ HeldBy(o)[x] <= reserved[x]
            /\ HeldBy(o)[x] = BuyHeld(t)[x]
    BY <1>t, HeldAmounts, OrderIsCovered DEF HeldBy, Books
  <1>2. \A x \in Assets :
            /\ available'[x] = available[x] + HeldBy(o)[x] - On(x, FeeAsset, trip[t].fee)
                    + On(x, FeeAsset, 0)
            /\ reserved'[x] = reserved[x] - HeldBy(o)[x]
    BY <1>t, <1>1 DEF FailBuy, Settle, FeeOnly
  <1>3. /\ trip' \in [Trips -> [DOMAIN NewTrip -> Nat]]
        /\ \A u \in Trips \ {t} : trip'[u] = trip[u]
        /\ trip'[t].feesPaid = trip[t].fee
        /\ \A k \in {"spent", "tokens", "proceeds", "uvaPaid", "mintLocked"} : trip'[t][k] = trip[t][k]
    BY <1>t, <1>0, TripFields DEF FailBuy, Books, BooksTyped
  <1>4. locked' = locked /\ uvaOwner' = uvaOwner /\ openMints' = openMints /\ UvaExists' = UvaExists
    BY DEF FailBuy, UvaExists
  <1>5. BooksTyped'
    <2>1. \A x \in Assets : available'[x] \in Nat /\ reserved'[x] \in Nat
      BY <1>0, <1>1, <1>2 DEF On, Books, BooksTyped
    <2>2. available' \in [Assets -> Nat] /\ reserved' \in [Assets -> Nat]
      BY <2>1 DEF FailBuy, Settle
    <2> QED BY <1>3, <1>4, <2>2 DEF Books, BooksTyped
  <1>6. OneOrderEach'
    BY OrderLeaves DEF Books
  <1>7. \A b \in Orders \ {o} : b.trip # t /\ HeldBy(b)' = HeldBy(b)
    BY <1>t, <1>3, HeldStays DEF Books, OneOrderEach
  <1>8. ReservedIsInFlight'
    BY <1>2, <1>7, LandedIsReleased
  <1>9. BooksExplained'
    <2>1. \A x \in Assets : CashFlow(t, x)' = CashFlow(t, x) - On(x, FeeAsset, trip[t].fee)
      <3>1. trip'[t].feesPaid = trip[t].feesPaid + trip[t].fee
        BY <1>0, <1>3, <1>u DEF Untouched
      <3> QED BY <1>0, <1>3, <3>1, TripAmounts DEF CashFlow, On, Books
    <2>2. \A x \in Assets : CashFlow(t, x) \in Int
      BY FlowIsNumber DEF Books
    <2>3. \A x \in Assets : available'[x] + reserved'[x] =
                available[x] + reserved[x] + (CashFlow(t, x)' - CashFlow(t, x))
      BY <1>0, <1>1, <1>2, <2>1, <2>2 DEF Books, BooksTyped, On
    <2> QED BY <1>3, <1>5, <2>3, FlowExplainsChange
  <1>10. DepositsLockedOnce'
    <2>1. \A u \in Trips : trip'[u].uvaPaid = trip[u].uvaPaid /\ trip'[u].mintLocked = trip[u].mintLocked
      BY <1>3
    <2>2. Deposits' = Deposits
      BY <2>1 DEF Deposits
    <2> QED BY <1>4, <2>1, <2>2 DEF DepositsLockedOnce, Books
  <1>11. BuysComeFirst'
    BY <1>3, <1>4, <1>7 DEF BuysComeFirst, Untouched, Books, OneOrderEach
  <1>12. OpenIsUnsold'
    BY <1>3, <1>4 DEF OpenIsUnsold, Books, BooksTyped
  <1> QED BY <1>5, <1>6, <1>8, <1>9, <1>10, <1>11, <1>12 DEF Books

\* _failed_sell_settlement keeps the books: the network fee is spent, and the
\* tokens come back.
LEMMA FailSellKeepsBooks ==
    ASSUME Books, run' = run, NEW o \in Orders, o.kind = "SELL_LANDING", FailSell(o.trip),
           Orders' = Orders \ {o}
    PROVE  Books'
  <1>t. PICK t \in Trips : t = o.trip
    BY DEF Books, OneOrderEach
  <1>0. /\ trip[t].fee \in Nat /\ trip[t].tokens \in Nat /\ trip[t].feesPaid \in Nat
        /\ FeeAsset' = FeeAsset
    BY TripAmounts DEF FeeAsset, Books
  <1>1. \A x \in Assets :
            /\ HeldBy(o)[x] = On(x, run.mint[t], trip[t].tokens) + On(x, FeeAsset, trip[t].fee)
            /\ HeldBy(o)[x] \in Nat /\ HeldBy(o)[x] <= reserved[x]
            /\ HeldBy(o)[x] = SellHeld(t)[x]
    BY <1>t, HeldAmounts, OrderIsCovered DEF HeldBy, Books
  <1>2. \A x \in Assets :
            /\ available'[x] = available[x] + HeldBy(o)[x] - On(x, FeeAsset, trip[t].fee)
                    + On(x, FeeAsset, 0)
            /\ reserved'[x] = reserved[x] - HeldBy(o)[x]
    BY <1>t, <1>1 DEF FailSell, Settle, FeeOnly
  <1>3. /\ trip' \in [Trips -> [DOMAIN NewTrip -> Nat]]
        /\ \A u \in Trips \ {t} : trip'[u] = trip[u]
        /\ trip'[t].feesPaid = trip[t].feesPaid + trip[t].fee
        /\ \A k \in {"spent", "tokens", "proceeds", "uvaPaid", "mintLocked"} : trip'[t][k] = trip[t][k]
    BY <1>t, <1>0, TripFields DEF FailSell, Books, BooksTyped
  <1>4. locked' = locked /\ uvaOwner' = uvaOwner /\ openMints' = openMints /\ UvaExists' = UvaExists
    BY DEF FailSell, UvaExists
  <1>5. BooksTyped'
    <2>1. \A x \in Assets : available'[x] \in Nat /\ reserved'[x] \in Nat
      BY <1>0, <1>1, <1>2 DEF On, Books, BooksTyped
    <2>2. available' \in [Assets -> Nat] /\ reserved' \in [Assets -> Nat]
      BY <2>1 DEF FailSell, Settle
    <2> QED BY <1>3, <1>4, <2>2 DEF Books, BooksTyped
  <1>6. OneOrderEach'
    BY OrderLeaves DEF Books
  <1>7. \A b \in Orders \ {o} : b.trip # t /\ HeldBy(b)' = HeldBy(b)
    BY <1>t, <1>3, HeldStays DEF Books, OneOrderEach
  <1>8. ReservedIsInFlight'
    BY <1>2, <1>7, LandedIsReleased
  <1>9. BooksExplained'
    <2>1. \A x \in Assets : CashFlow(t, x)' = CashFlow(t, x) - On(x, FeeAsset, trip[t].fee)
      BY <1>0, <1>3, TripAmounts DEF CashFlow, On, Books
    <2>2. \A x \in Assets : CashFlow(t, x) \in Int
      BY FlowIsNumber DEF Books
    <2>3. \A x \in Assets : available'[x] + reserved'[x] =
                available[x] + reserved[x] + (CashFlow(t, x)' - CashFlow(t, x))
      BY <1>0, <1>1, <1>2, <2>1, <2>2 DEF Books, BooksTyped, On
    <2> QED BY <1>3, <1>5, <2>3, FlowExplainsChange
  <1>10. DepositsLockedOnce'
    <2>1. \A u \in Trips : trip'[u].uvaPaid = trip[u].uvaPaid /\ trip'[u].mintLocked = trip[u].mintLocked
      BY <1>3
    <2>2. Deposits' = Deposits
      BY <2>1 DEF Deposits
    <2> QED BY <1>4, <2>1, <2>2 DEF DepositsLockedOnce, Books
  <1>11. BuysComeFirst'
    BY <1>3, <1>4, <1>7 DEF BuysComeFirst, Untouched, Books, OneOrderEach
  <1>12. OpenIsUnsold'
    BY <1>3, <1>4 DEF OpenIsUnsold, Books, BooksTyped
  <1> QED BY <1>5, <1>6, <1>8, <1>9, <1>10, <1>11, <1>12 DEF Books

\* The deposits add up to what is locked as long as they change by as much.
LEMMA DepositsMove ==
    ASSUME Books, BooksTyped', NEW t \in Trips, \A u \in Trips \ {t} : trip'[u] = trip[u],
           locked' = locked - (trip[t].uvaPaid + trip[t].mintLocked)
                        + (trip'[t].uvaPaid + trip'[t].mintLocked)
    PROVE  locked' = SumFunction(Deposits')
  <1>1. locked = SumFunction(Deposits)
    BY DEF Books, DepositsLockedOnce
  <1>2. \A u \in Trips : trip[u].uvaPaid + trip[u].mintLocked \in Nat
    BY TripAmounts DEF Books
  <1>3. trip'[t].uvaPaid \in Nat /\ trip'[t].mintLocked \in Nat
    <2>1. trip'[t] \in [DOMAIN NewTrip -> Nat]
      BY DEF BooksTyped
    <2> QED BY <2>1, TripFields
  <1>4. /\ DOMAIN Deposits = Trips /\ DOMAIN Deposits' = Trips
        /\ \A u \in Trips : Deposits[u] = trip[u].uvaPaid + trip[u].mintLocked
        /\ \A u \in Trips : Deposits'[u] = trip'[u].uvaPaid + trip'[u].mintLocked
    BY DEF Deposits
  <1>5. /\ \A u \in Trips : Deposits[u] \in Int /\ Deposits'[u] \in Int
        /\ \A u \in Trips \ {t} : Deposits[u] = Deposits'[u]
    BY <1>2, <1>3, <1>4
  <1>6. SumFunction(Deposits') = SumFunction(Deposits) - Deposits[t] + Deposits'[t]
    BY <1>4, <1>5, TripsAreFinite, SumMoves
  <1> QED BY <1>1, <1>4, <1>6

\* _successful_buy_settlement with apply_buy_account_transition keeps the books:
\* of the buys that hold the wallet's deposit the first to land pays it, and the
\* mint's account is opened for this trip.
LEMMA FillBuyKeepsBooks ==
    ASSUME Books, run' = run, NEW o \in Orders, o.kind = "BUY_LANDING",
           NEW paid \in Paid, NEW tokens \in Tokens, FillBuy(o.trip, paid, tokens),
           openMints[run.mint[o.trip]] = None, Orders' = Orders \ {o}
    PROVE  Books'
  <1>t. PICK t \in Trips : t = o.trip
    BY DEF Books, OneOrderEach
  <1>m. PICK m \in Mints : m = run.mint[t]
    BY RunFacts DEF Books
  <1>p. PICK p : p = UvaPaid(t)
    OBVIOUS
  <1>0. /\ trip[t].fee \in Nat /\ trip[t].uvaReserved \in Nat /\ FeeAsset' = FeeAsset
        /\ MintDeposit \in Nat /\ Budget \in Nat /\ UvaDeposit \in Nat
        /\ paid \in Nat /\ paid <= Budget /\ tokens \in Nat
        /\ p \in Nat /\ p <= trip[t].uvaReserved
    BY <1>p, AmountsAreNatural, TripAmounts DEF FeeAsset, Books, UvaPaid
  <1>u. Untouched(t)
    BY <1>t DEF Books, BuysComeFirst
  <1>q. FeeAsset \in {Quote, Native} /\ m # Quote /\ m # Native /\ t # None
    BY RunFacts, TokensAreApart, TripsAreFinite DEF Books
  <1>1. \A x \in Assets :
            /\ HeldBy(o)[x] = On(x, Quote, Budget)
                    + On(x, FeeAsset, trip[t].fee + MintDeposit + trip[t].uvaReserved)
            /\ HeldBy(o)[x] \in Nat /\ HeldBy(o)[x] <= reserved[x]
            /\ HeldBy(o)[x] = BuyHeld(t)[x]
    BY <1>t, HeldAmounts, OrderIsCovered DEF HeldBy, Books
  <1>2. \A x \in Assets :
            /\ available'[x] = available[x] + HeldBy(o)[x]
                    - (On(x, Quote, paid) + On(x, FeeAsset, trip[t].fee + MintDeposit + p))
                    + On(x, m, tokens)
            /\ reserved'[x] = reserved[x] - HeldBy(o)[x]
    BY <1>t, <1>m, <1>p, <1>1 DEF FillBuy, Settle, BuySpent
  <1>3. /\ trip' \in [Trips -> [DOMAIN NewTrip -> Nat]]
        /\ \A u \in Trips \ {t} : trip'[u] = trip[u]
        /\ trip'[t].feesPaid = trip[t].fee /\ trip'[t].spent = paid
        /\ trip'[t].tokens = tokens /\ trip'[t].uvaPaid = p /\ trip'[t].mintLocked = MintDeposit
        /\ trip'[t].proceeds = trip[t].proceeds
    BY <1>t, <1>p, <1>0, TripFields DEF FillBuy, Books, BooksTyped
  <1>4. /\ locked' = locked + MintDeposit + p
        /\ uvaOwner' = IF UvaExists THEN uvaOwner ELSE t
        /\ openMints' = [openMints EXCEPT ![m] = t]
    BY <1>t, <1>m, <1>p DEF FillBuy
  <1>z. /\ trip[t].spent = 0 /\ trip[t].tokens = 0 /\ trip[t].proceeds = 0
        /\ trip[t].feesPaid = 0 /\ trip[t].uvaPaid = 0 /\ trip[t].mintLocked = 0
    BY <1>u DEF Untouched
  <1>5. BooksTyped'
    <2>1. \A x \in Assets : available'[x] \in Nat /\ reserved'[x] \in Nat
      BY <1>0, <1>1, <1>2 DEF On, Books, BooksTyped
    <2>2. available' \in [Assets -> Nat] /\ reserved' \in [Assets -> Nat]
      BY <2>1 DEF FillBuy, Settle
    <2>3. locked' \in Nat /\ uvaOwner' \in Trips \cup {None}
          /\ openMints' \in [Mints -> Trips \cup {None}]
      BY <1>0, <1>4 DEF Books, BooksTyped
    <2> QED BY <1>3, <2>2, <2>3 DEF BooksTyped
  <1>6. OneOrderEach'
    BY OrderLeaves DEF Books
  <1>7. \A b \in Orders \ {o} : b.trip # t /\ HeldBy(b)' = HeldBy(b)
    BY <1>t, <1>3, HeldStays DEF Books, OneOrderEach
  <1>8. ReservedIsInFlight'
    BY <1>2, <1>7, LandedIsReleased
  <1>9. BooksExplained'
    <2>1. \A x \in Assets : CashFlow(t, x)' =
            On(x, Quote, 0 - paid) - On(x, FeeAsset, trip[t].fee + p + MintDeposit) + On(x, m, tokens)
      BY <1>0, <1>3, <1>m, <1>z DEF CashFlow
    <2>2. \A x \in Assets : CashFlow(t, x) = 0
      BY <1>z DEF CashFlow, On
    <2>3. \A x \in Assets : available'[x] + reserved'[x] =
                available[x] + reserved[x] + (CashFlow(t, x)' - CashFlow(t, x))
      BY <1>0, <1>1, <1>2, <2>1, <2>2 DEF Books, BooksTyped, On
    <2> QED BY <1>3, <1>5, <2>3, FlowExplainsChange
  <1>10. DepositsLockedOnce'
    <2>1. \A u \in Trips : trip'[u].uvaPaid > 0 <=> uvaOwner' = u /\ UvaDeposit > 0
      <3>1. CASE UvaExists
        <4>1. p = 0 /\ uvaOwner' = uvaOwner
          BY <1>4, <1>p, <3>1 DEF UvaPaid
        <4> QED BY <1>3, <1>z, <4>1 DEF Books, DepositsLockedOnce
      <3>2. CASE ~UvaExists
        <4>1. p = UvaDeposit /\ uvaOwner' = t /\ uvaOwner = None
          BY <1>4, <1>p, <1>t, <3>2 DEF UvaPaid, UvaExists, Books, BuysComeFirst
        <4>2. \A u \in Trips : ~ (trip[u].uvaPaid > 0)
          BY <4>1, TripsAreFinite DEF Books, DepositsLockedOnce
        <4> QED BY <1>3, <4>1, <4>2
      <3> QED BY <3>1, <3>2
    <2>2. (run.prewarmed => uvaOwner = None)'
      BY <1>4 DEF UvaExists, Books, DepositsLockedOnce
    <2>3. \A u \in Trips : trip'[u].mintLocked > 0 <=> openMints'[run'.mint[u]] = u /\ MintDeposit > 0
      <3> SUFFICES ASSUME NEW u \in Trips
                   PROVE  trip'[u].mintLocked > 0 <=> openMints'[run.mint[u]] = u /\ MintDeposit > 0
        OBVIOUS
      <3>1. run.mint[u] \in Mints
        BY RunFacts DEF Books
      <3>2. CASE u = t
        BY <1>3, <1>4, <1>m, <3>1, <3>2 DEF Books, BooksTyped
      <3>3. CASE u # t /\ run.mint[u] = m
        <4>1. ~ (trip[u].mintLocked > 0)
          BY <1>t, <1>m, <3>3, TripsAreFinite DEF Books, DepositsLockedOnce
        <4>2. openMints'[run.mint[u]] = t
          BY <1>4, <3>3 DEF Books, BooksTyped
        <4> QED BY <1>3, <3>3, <4>1, <4>2
      <3>4. CASE u # t /\ run.mint[u] # m
        <4>1. openMints'[run.mint[u]] = openMints[run.mint[u]]
          BY <1>4, <3>1, <3>4 DEF Books, BooksTyped
        <4>2. trip[u].mintLocked > 0 <=> openMints[run.mint[u]] = u /\ MintDeposit > 0
          BY DEF Books, DepositsLockedOnce
        <4> QED BY <1>3, <3>4, <4>1, <4>2
      <3> QED BY <3>2, <3>3, <3>4
    <2>4. locked' = SumFunction(Deposits')
      <3>1. locked' = locked - (trip[t].uvaPaid + trip[t].mintLocked)
                        + (trip'[t].uvaPaid + trip'[t].mintLocked)
        BY <1>0, <1>3, <1>4, <1>z DEF Books, BooksTyped
      <3> QED BY <1>3, <1>5, <3>1, DepositsMove
    <2> QED BY <2>1, <2>2, <2>3, <2>4 DEF DepositsLockedOnce
  <1>11. BuysComeFirst'
    <2>1. UvaExists => UvaExists'
      BY <1>4 DEF UvaExists
    <2> QED BY <1>3, <1>7, <2>1 DEF BuysComeFirst, Untouched, Books, OneOrderEach
  <1>12. OpenIsUnsold'
    <2>1. \A u \in Trips : trip'[u].proceeds = trip[u].proceeds
      BY <1>3
    <2> SUFFICES ASSUME NEW n \in Mints, openMints'[n] # None
                 PROVE  run.mint[openMints'[n]] = n /\ trip'[openMints'[n]].proceeds = 0
      BY DEF OpenIsUnsold
    <2>2. CASE n = m
      <3>1. openMints'[n] = t
        BY <1>4, <2>2 DEF Books, BooksTyped
      <3> QED BY <1>m, <1>z, <2>1, <2>2, <3>1
    <2>3. CASE n # m
      <3>1. openMints'[n] = openMints[n] /\ openMints[n] \in Trips
        BY <1>4, <2>3 DEF Books, BooksTyped
      <3> QED BY <2>1, <3>1 DEF Books, OpenIsUnsold
    <2> QED BY <2>2, <2>3
  <1> QED BY <1>5, <1>6, <1>8, <1>9, <1>10, <1>11, <1>12 DEF Books

\* _successful_sell_settlement with apply_sell_account_transition keeps the books:
\* the mint's account is closed and its deposit comes back, the wallet's stays.
LEMMA FillSellKeepsBooks ==
    ASSUME Books, run' = run, NEW o \in Orders, o.kind = "SELL_LANDING",
           NEW proceeds \in Proceeds, FillSell(o.trip, proceeds),
           openMints[run.mint[o.trip]] = o.trip, Orders' = Orders \ {o}
    PROVE  Books'
  <1>t. PICK t \in Trips : t = o.trip
    BY DEF Books, OneOrderEach
  <1>m. PICK m \in Mints : m = run.mint[t]
    BY RunFacts DEF Books
  <1>0. /\ trip[t].fee \in Nat /\ trip[t].tokens \in Nat /\ trip[t].feesPaid \in Nat
        /\ trip[t].mintLocked \in Nat /\ trip[t].uvaPaid \in Nat /\ trip[t].spent \in Nat
        /\ FeeAsset' = FeeAsset /\ proceeds \in Nat
    BY AmountsAreNatural, TripAmounts DEF FeeAsset, Books
  <1>q. FeeAsset \in {Quote, Native} /\ m # Quote /\ m # Native /\ t # None
    BY RunFacts, TokensAreApart, TripsAreFinite DEF Books
  <1>z. trip[t].proceeds = 0
    BY <1>t, <1>m, <1>q DEF Books, OpenIsUnsold
  <1>1. \A x \in Assets :
            /\ HeldBy(o)[x] = On(x, m, trip[t].tokens) + On(x, FeeAsset, trip[t].fee)
            /\ HeldBy(o)[x] \in Nat /\ HeldBy(o)[x] <= reserved[x]
            /\ HeldBy(o)[x] = SellHeld(t)[x]
    BY <1>t, <1>m, HeldAmounts, OrderIsCovered DEF HeldBy, Books
  <1>2. \A x \in Assets :
            /\ available'[x] = available[x] + HeldBy(o)[x] - HeldBy(o)[x]
                    + (On(x, Quote, proceeds) + On(x, FeeAsset, trip[t].mintLocked))
            /\ reserved'[x] = reserved[x] - HeldBy(o)[x]
    BY <1>t, <1>1 DEF FillSell, Settle
  <1>3. /\ trip' \in [Trips -> [DOMAIN NewTrip -> Nat]]
        /\ \A u \in Trips \ {t} : trip'[u] = trip[u]
        /\ trip'[t].feesPaid = trip[t].feesPaid + trip[t].fee
        /\ trip'[t].proceeds = proceeds /\ trip'[t].tokens = 0 /\ trip'[t].mintLocked = 0
        /\ trip'[t].spent = trip[t].spent /\ trip'[t].uvaPaid = trip[t].uvaPaid
    <2> PICK F : F = DOMAIN NewTrip
      OBVIOUS
    <2>1. PICK row : row = [trip[t] EXCEPT !.feesPaid = trip[t].feesPaid + trip[t].fee,
                                           !.proceeds = proceeds, !.tokens = 0,
                                           !.mintLocked = 0]
      OBVIOUS
    <2>2. trip \in [Trips -> [F -> Nat]] /\ trip[t] \in [F -> Nat]
      BY DEF Books, BooksTyped
    <2>3. trip' = [trip EXCEPT ![t] = row]
      BY <1>t, <2>1, <2>2 DEF FillSell
    <2>4. /\ row \in [F -> Nat] /\ row.feesPaid = trip[t].feesPaid + trip[t].fee
          /\ row.proceeds = proceeds /\ row.tokens = 0 /\ row.mintLocked = 0
          /\ row.spent = trip[t].spent /\ row.uvaPaid = trip[t].uvaPaid
      <3>1. {"feesPaid", "proceeds", "tokens", "mintLocked", "spent", "uvaPaid"} \subseteq F
        BY TripFields
      <3>2. trip[t].feesPaid + trip[t].fee \in Nat /\ proceeds \in Nat /\ 0 \in Nat
        BY <1>0
      <3> QED BY <2>1, <2>2, <3>1, <3>2
    <2> QED BY <2>2, <2>3, <2>4
  <1>4. /\ locked' = locked - trip[t].mintLocked /\ uvaOwner' = uvaOwner
        /\ openMints' = [openMints EXCEPT ![m] = None] /\ openMints[m] = t /\ UvaExists' = UvaExists
    BY <1>t, <1>m DEF FillSell, UvaExists
  <1>5. BooksTyped'
    <2>1. \A x \in Assets : available'[x] \in Nat /\ reserved'[x] \in Nat
      BY <1>0, <1>1, <1>2 DEF On, Books, BooksTyped
    <2>2. available' \in [Assets -> Nat] /\ reserved' \in [Assets -> Nat]
      BY <2>1 DEF FillSell, Settle
    <2>3. locked' \in Nat
      <3>1. Deposits[t] <= SumFunction(Deposits)
        <4>1. \A u \in Trips : Deposits[u] \in Nat
          BY TripAmounts DEF Deposits, Books
        <4>2. DOMAIN Deposits = Trips
          BY DEF Deposits
        <4> QED BY <4>1, <4>2, TripsAreFinite, SumBounds
      <3>2. Deposits[t] = trip[t].uvaPaid + trip[t].mintLocked
        BY DEF Deposits
      <3>3. locked = SumFunction(Deposits) /\ locked \in Nat
        BY DEF Books, BooksTyped, DepositsLockedOnce
      <3> QED BY <1>0, <1>4, <3>1, <3>2, <3>3
    <2>4. openMints' \in [Mints -> Trips \cup {None}] /\ uvaOwner' \in Trips \cup {None}
      BY <1>4 DEF Books, BooksTyped
    <2> QED BY <1>3, <2>2, <2>3, <2>4 DEF BooksTyped
  <1>6. OneOrderEach'
    BY OrderLeaves DEF Books
  <1>7. \A b \in Orders \ {o} : b.trip # t /\ HeldBy(b)' = HeldBy(b)
    BY <1>t, <1>3, HeldStays DEF Books, OneOrderEach
  <1>8. ReservedIsInFlight'
    BY <1>2, <1>7, LandedIsReleased
  <1>9. BooksExplained'
    <2>1. \A x \in Assets : CashFlow(t, x)' =
            On(x, Quote, proceeds - trip[t].spent)
              - On(x, FeeAsset, trip[t].feesPaid + trip[t].fee + trip[t].uvaPaid) + On(x, m, 0)
      BY <1>0, <1>3, <1>m DEF CashFlow
    <2>2. \A x \in Assets : CashFlow(t, x) =
            On(x, Quote, 0 - trip[t].spent)
              - On(x, FeeAsset, trip[t].feesPaid + trip[t].uvaPaid + trip[t].mintLocked)
              + On(x, m, trip[t].tokens)
      BY <1>z, <1>m DEF CashFlow
    <2>3. \A x \in Assets : available'[x] + reserved'[x] =
                available[x] + reserved[x] + (CashFlow(t, x)' - CashFlow(t, x))
      BY <1>0, <1>1, <1>2, <2>1, <2>2 DEF Books, BooksTyped, On
    <2> QED BY <1>3, <1>5, <2>3, FlowExplainsChange
  <1>10. DepositsLockedOnce'
    <2>1. \A u \in Trips : trip'[u].uvaPaid > 0 <=> uvaOwner' = u /\ UvaDeposit > 0
      BY <1>3, <1>4 DEF Books, DepositsLockedOnce
    <2>2. (run.prewarmed => uvaOwner = None)'
      BY <1>4 DEF Books, DepositsLockedOnce
    <2>3. \A u \in Trips : trip'[u].mintLocked > 0 <=> openMints'[run'.mint[u]] = u /\ MintDeposit > 0
      <3> SUFFICES ASSUME NEW u \in Trips
                   PROVE  trip'[u].mintLocked > 0 <=> openMints'[run.mint[u]] = u /\ MintDeposit > 0
        OBVIOUS
      <3>0. run.mint[u] \in Mints /\ u # None
        BY RunFacts, TripsAreFinite DEF Books
      <3>1. trip[u].mintLocked > 0 <=> openMints[run.mint[u]] = u /\ MintDeposit > 0
        BY DEF Books, DepositsLockedOnce
      <3>2. CASE run.mint[u] = m
        <4>1. openMints'[run.mint[u]] # u
          BY <1>4, <3>0, <3>2 DEF Books, BooksTyped
        <4>2. ~ (trip'[u].mintLocked > 0)
          BY <1>3, <1>4, <3>1, <3>2
        <4> QED BY <4>1, <4>2
      <3>4. CASE run.mint[u] # m
        <4>1. openMints'[run.mint[u]] = openMints[run.mint[u]] /\ u # t
          BY <1>4, <1>m, <3>0, <3>4 DEF Books, BooksTyped
        <4> QED BY <1>3, <3>1, <4>1
      <3> QED BY <3>2, <3>4
    <2>4. locked' = SumFunction(Deposits')
      <3>1. locked' = locked - (trip[t].uvaPaid + trip[t].mintLocked)
                        + (trip'[t].uvaPaid + trip'[t].mintLocked)
        BY <1>0, <1>3, <1>4 DEF Books, BooksTyped
      <3> QED BY <1>3, <1>5, <3>1, DepositsMove
    <2> QED BY <2>1, <2>2, <2>3, <2>4 DEF DepositsLockedOnce
  <1>11. BuysComeFirst'
    BY <1>3, <1>4, <1>7 DEF BuysComeFirst, Untouched, Books, OneOrderEach
  <1>12. OpenIsUnsold'
    <2> SUFFICES ASSUME NEW n \in Mints, openMints'[n] # None
                 PROVE  run.mint[openMints'[n]] = n /\ trip'[openMints'[n]].proceeds = 0
      BY DEF OpenIsUnsold
    <2>1. n # m /\ openMints'[n] = openMints[n] /\ openMints[n] \in Trips
      BY <1>4 DEF Books, BooksTyped
    <2>2. run.mint[openMints[n]] = n /\ trip[openMints[n]].proceeds = 0
      BY <2>1 DEF Books, OpenIsUnsold
    <2>3. openMints[n] # t
      BY <1>m, <2>1, <2>2
    <2> QED BY <1>3, <2>1, <2>2, <2>3
  <1> QED BY <1>5, <1>6, <1>8, <1>9, <1>10, <1>11, <1>12 DEF Books

\* Steps that settle nothing keep the books.
LEMMA BooksStay ==
    ASSUME Books, UNCHANGED <<run, books, trip>>, Orders' = Orders
    PROVE  Books'
  <1>1. FeeAsset' = FeeAsset /\ UvaExists' = UvaExists /\ Deposits' = Deposits
    BY DEF FeeAsset, UvaExists, Deposits, books
  <1>2. \A a : HeldBy(a)' = HeldBy(a)
    BY DEF HeldBy, BuyHeld, SellHeld, BuyReservation, SellReservation, FeeAsset
  <1>3. \A x : HeldOf(x)' = HeldOf(x)
    BY <1>2 DEF HeldOf
  <1>4. \A x : FlowsOf(x)' = FlowsOf(x) /\ StartOf(x)' = StartOf(x)
    BY <1>1 DEF FlowsOf, CashFlow, StartOf
  <1>5. ReservedIsInFlight' /\ BooksExplained' /\ DepositsLockedOnce'
    BY <1>1, <1>3, <1>4
       DEF Books, ReservedIsInFlight, BooksExplained, DepositsLockedOnce, books
  <1>6. BooksTyped' /\ OneOrderEach' /\ BuysComeFirst' /\ OpenIsUnsold'
    BY <1>1 DEF Books, BooksTyped, OneOrderEach, BuysComeFirst, Untouched, OpenIsUnsold, books
  <1> QED BY <1>5, <1>6 DEF Books

\* The books of a run that begins.
LEMMA BooksBegin ==
    ASSUME SharedInit
    PROVE  Books
  <1>0. run \in Runs /\ Orders = {} /\ \A x : StartOf(x) \in Nat
    BY RunFacts DEF SharedInit, Orders
  <1>1. BooksTyped
    BY <1>0 DEF SharedInit, BooksTyped, NewTrip
  <1>2. OneOrderEach /\ BuysComeFirst
    BY <1>0, FS_EmptySet DEF OneOrderEach, BuysComeFirst
  <1>3. OpenIsUnsold
    BY DEF SharedInit, OpenIsUnsold
  <1>4. \A t \in Trips : Untouched(t)
    BY DEF SharedInit, NewTrip, Untouched
  <1>5. ReservedIsInFlight
    <2> SUFFICES ASSUME NEW x \in Assets PROVE reserved[x] = SumFunction(HeldOf(x))
      BY DEF ReservedIsInFlight
    <2>1. DOMAIN HeldOf(x) = {}
      BY <1>0 DEF HeldOf
    <2>2. SumFunction(HeldOf(x)) = 0
      BY <2>1, FS_EmptySet, SumOfZeros
    <2> QED BY <2>2 DEF SharedInit
  <1>6. BooksExplained
    <2> SUFFICES ASSUME NEW x \in Assets
                 PROVE  available[x] + reserved[x] = StartOf(x) + SumFunction(FlowsOf(x))
      BY DEF BooksExplained
    <2>1. DOMAIN FlowsOf(x) = Trips /\ \A t \in Trips : FlowsOf(x)[t] = 0
      BY <1>4 DEF FlowsOf, CashFlow, Untouched, On
    <2>2. SumFunction(FlowsOf(x)) = 0
      BY <2>1, TripsAreFinite, SumOfZeros
    <2> QED BY <1>0, <2>2 DEF SharedInit
  <1>7. DepositsLockedOnce
    <2>1. DOMAIN Deposits = Trips /\ \A t \in Trips : Deposits[t] = 0
      BY <1>4 DEF Deposits, Untouched
    <2>2. SumFunction(Deposits) = 0
      BY <2>1, TripsAreFinite, SumOfZeros
    <2>3. \A t \in Trips : t # None /\ run.mint[t] \in Mints
      BY <1>0, RunFacts, TripsAreFinite
    <2> QED BY <1>4, <2>2, <2>3 DEF SharedInit, DepositsLockedOnce, Untouched
  <1> QED BY <1>0, <1>1, <1>2, <1>3, <1>5, <1>6, <1>7 DEF Books

-------------------------------------------------------------------------------
(* What cannot be refused.                                                    *)

\* The books refuse no buy at its landing while the mint's account is not open.
LEMMA BuyLands ==
    ASSUME Books, NEW o \in Orders, o.kind = "BUY_LANDING", openMints[run.mint[o.trip]] = None
    PROVE  /\ BuyLandingError(o.trip, FeeOnly(trip[o.trip].fee)) = None
           /\ \A paid \in Paid : BuyLandingError(o.trip, BuySpent(o.trip, paid)) = None
  <1>t. PICK t \in Trips : t = o.trip
    BY DEF Books, OneOrderEach
  <1>0. /\ trip[t].fee \in Nat /\ trip[t].uvaReserved \in Nat
        /\ MintDeposit \in Nat /\ Budget \in Nat
        /\ UvaPaid(t) \in Nat /\ UvaPaid(t) <= trip[t].uvaReserved
    BY AmountsAreNatural, TripAmounts DEF Books, UvaPaid
  <1>1. \A x \in Assets :
            /\ BuyHeld(t)[x] = On(x, Quote, Budget)
                    + On(x, FeeAsset, trip[t].fee + MintDeposit + trip[t].uvaReserved)
            /\ BuyHeld(t)[x] <= reserved[x]
    BY <1>t, HeldAmounts, OrderIsCovered DEF HeldBy, Books
  <1>2. Settles(BuyHeld(t), FeeOnly(trip[t].fee))
    BY <1>0, <1>1 DEF Settles, FeeOnly, On
  <1>3. ASSUME NEW paid \in Paid PROVE Settles(BuyHeld(t), BuySpent(t, paid))
    <2>1. paid \in Nat /\ paid <= Budget
      BY AmountsAreNatural
    <2> QED BY <1>0, <1>1, <2>1 DEF Settles, BuySpent, On
  <1> QED BY <1>t, <1>2, <1>3 DEF BuyLandingError

\* Nor a sell, while the account is this trip's.
LEMMA SellLands ==
    ASSUME Books, NEW o \in Orders, o.kind = "SELL_LANDING"
    PROVE  /\ SellLandingError(o.trip, FeeOnly(trip[o.trip].fee)) = None
           /\ openMints[run.mint[o.trip]] = o.trip => CloseError(o.trip) = None
  <1>t. PICK t \in Trips : t = o.trip
    BY DEF Books, OneOrderEach
  <1>0. trip[t].fee \in Nat /\ trip[t].tokens \in Nat
    BY TripAmounts DEF Books
  <1>1. \A x \in Assets :
            /\ SellHeld(t)[x] = On(x, run.mint[t], trip[t].tokens) + On(x, FeeAsset, trip[t].fee)
            /\ SellHeld(t)[x] <= reserved[x] /\ SellHeld(t)[x] \in Nat
    BY <1>t, HeldAmounts, OrderIsCovered DEF HeldBy, Books
  <1>2. Settles(SellHeld(t), FeeOnly(trip[t].fee)) /\ Settles(SellHeld(t), SellHeld(t))
    BY <1>0, <1>1 DEF Settles, FeeOnly, On
  <1> QED BY <1>t, <1>2 DEF SellLandingError, CloseError

-------------------------------------------------------------------------------
(* The heap.                                                                  *)

\* Types of the scheduled actions: orders land, everything else is a decision.
HeapTyped ==
    /\ IsFiniteSet(scheduled)
    /\ \A a \in scheduled :
        /\ a.trip \in Trips /\ a.release \in Positions(run.clock) /\ a.creator \in Nat
        /\ a.phase \in {Decision, Landing}
        /\ a.phase = Landing <=> a.kind \in {"BUY_LANDING", "SELL_LANDING"}

\* While nothing is overdue, the heads of the heap show whatever is due now.
LEMMA HeadsShowTheDue ==
    ASSUME HeapTyped, \A b \in scheduled : b.release >= now, now \in Int,
           NEW phase \in Int, DueUpTo(phase) = {},
           NEW a \in scheduled, a.release = now
    PROVE  ~ (a.phase <= phase)
  <1> SUFFICES ASSUME a.phase <= phase PROVE FALSE
    OBVIOUS
  <1>0. \A b \in scheduled : b.release \in Nat /\ b.creator \in Nat /\ b.phase \in Nat
    BY DEF HeapTyped, Positions, Decision, Landing
  <1>f. PICK Phases : Phases = {b.phase : b \in {c \in scheduled : c.release = now}}
    OBVIOUS
  <1>1. Phases \in SUBSET Nat /\ a.phase \in Phases
    BY <1>0, <1>f
  <1>2. PICK q \in Phases : \A p \in Phases : q <= p
    BY <1>1, LeastNat
  <1>c. PICK Creators :
            Creators = {b.creator : b \in {c \in scheduled : c.release = now /\ c.phase = q}}
    OBVIOUS
  <1>3. Creators \in SUBSET Nat /\ Creators # {}
    BY <1>0, <1>f, <1>2, <1>c
  <1>4. PICK n \in Creators : \A m \in Creators : n <= m
    BY <1>3, LeastNat
  <1>5. PICK h \in scheduled : h.release = now /\ h.phase = q /\ h.creator = n
    BY <1>c, <1>4
  <1>6. ASSUME NEW b \in scheduled PROVE ~ Before(b, h)
    <2>1. b.release >= now
      OBVIOUS
    <2>2. b.release = now => q <= b.phase
      BY <1>f, <1>2
    <2>3. b.release = now /\ b.phase = q => n <= b.creator
      BY <1>c, <1>4
    <2> QED BY <1>0, <1>5, <2>1, <2>2, <2>3 DEF Before
  <1>7. q <= a.phase /\ q \in Nat /\ a.phase \in Nat
    BY <1>0, <1>1, <1>2
  <1>8. h \in DueUpTo(phase)
    BY <1>5, <1>6, <1>7 DEF DueUpTo, Heads
  <1> QED BY <1>8

\* The heap takes an action for one that was popped, or one more (_schedule).
LEMMA HeapTakes ==
    ASSUME HeapTyped, run' = run, now \in Nat, NEW t \in Trips, NEW a,
           NEW due \in Positions(run.clock), NEW phase \in {Decision, Landing}, NEW kind,
           phase = Landing <=> kind \in {"BUY_LANDING", "SELL_LANDING"},
           NEW o, o = Action(due, phase, t, kind), scheduled' = (scheduled \ {a}) \cup {o}
    PROVE  /\ HeapTyped'
           /\ o.trip = t /\ o.kind = kind /\ o.release = due /\ o.phase = phase /\ o.creator = now
           /\ phase = Landing => Orders' = (Orders \ {a}) \cup {o}
           /\ phase = Decision => Orders' = Orders \ {a}
  <1>1. o.trip = t /\ o.kind = kind /\ o.release = due /\ o.phase = phase /\ o.creator = now
    BY DEF Action
  <1>2. IsFiniteSet(scheduled')
    BY FS_RemoveElement, FS_AddElement DEF HeapTyped
  <1>3. \A c \in scheduled' : c \in scheduled \/ c = o
    OBVIOUS
  <1>4. Positions(run.clock)' = Positions(run.clock)
    BY DEF Positions, TransactionCount
  <1>5. HeapTyped'
    BY <1>1, <1>2, <1>3, <1>4 DEF HeapTyped
  <1>6. phase = Landing => Orders' = (Orders \ {a}) \cup {o}
    BY <1>1 DEF Orders
  <1>7. phase = Decision => Orders' = Orders \ {a}
    BY <1>1 DEF Orders, Decision, Landing
  <1> QED BY <1>1, <1>5, <1>6, <1>7

\* The heap gives up an action.
LEMMA HeapGives ==
    ASSUME HeapTyped, run' = run, NEW a, scheduled' = scheduled \ {a}
    PROVE  HeapTyped' /\ Orders' = Orders \ {a}
  <1>1. IsFiniteSet(scheduled')
    BY FS_RemoveElement DEF HeapTyped
  <1>2. Positions(run.clock)' = Positions(run.clock)
    BY DEF Positions, TransactionCount
  <1>3. HeapTyped'
    BY <1>1, <1>2 DEF HeapTyped
  <1> QED BY <1>3 DEF Orders

-------------------------------------------------------------------------------
(* The inductive invariant.                                                   *)

SnipingStatuses ==
    {"UNSEEN", "TARGET_OUTSIDE_DECISION_RANGE", "COOLDOWN_SKIPPED", "BUY_REFERENCE_REJECTED",
     "BUY_PRE_SUBMIT_INSUFFICIENT_FUNDS", "BUY_LANDED_FAILED", "OPEN_AT_HORIZON",
     "SELL_REFERENCE_UNAVAILABLE_OPEN", "SELL_PRE_SUBMIT_INSUFFICIENT_FUNDS_OPEN",
     "SELL_LANDED_FAILED_OPEN", "CLOSED"}

AtBoundary == stage \in {"decisions", "launches", "landings"}

SnipingTyped ==
    /\ now \in Positions(run.clock) \cup {-1}
    /\ stage \in {"preflight", "refused", "select", "decisions", "launches", "landings", "done"}
    /\ AtBoundary => now \in Positions(run.clock)
    /\ status \in [Trips -> SnipingStatuses]
    /\ until \in [Developers -> Nat]
    /\ live \subseteq Trips
    /\ HeapTyped

\* What the preflight promised: a launch that may be bought is settled on the clock.
SettlementsFit ==
    stage \notin {"preflight", "refused"} =>
        \A t \in Trips : InRange(t) => SettlementEnd(t) # OffClock

\* No action and no launch is behind the boundary in hand, nor in a phase of it
\* that is over.
SnipingOnTime ==
    /\ \A a \in scheduled :
        /\ a.release >= now
        /\ ~ AtBoundary => a.release > now
        /\ stage \in {"launches", "landings"} /\ a.phase = Decision => a.release > now
    /\ \A t \in Trips : status[t] = "UNSEEN" =>
        /\ run.launch[t] >= now
        /\ stage \notin {"decisions", "launches"} => run.launch[t] > now
    /\ stage = "done" => scheduled = {}

\* The trip has tokens, and the account of their mint.
Holds(t) == openMints[run.mint[t]] = t /\ trip[t].tokens > 0

BuyAt(t) == TransactionAfter(run.clock, run.launch[t], BuyDelay)
SellAt(t) == HoldingDeadline(run.clock, BuyAt(t), HoldTime)

\* The action of a live trip is due where the preflight expected it.
AsExpected(a) ==
    \/ /\ a.kind = "BUY_LANDING"
       /\ a.release = BuyAt(a.trip) /\ openMints[run.mint[a.trip]] = None
    \/ a.kind = "SELL_DECISION" /\ a.release = SellAt(a.trip) /\ Holds(a.trip)
    \/ a.kind = "SELL_LANDING" /\ Holds(a.trip)

\* The engine decided on a launch, to buy it or not.
Acted(t) == status[t] \notin {"UNSEEN", "COOLDOWN_SKIPPED", "TARGET_OUTSIDE_DECISION_RANGE"}

\* A live trip has one action, and no other trip has any.
OneActionEach ==
    /\ \A a, b \in scheduled : a.trip = b.trip => a = b
    /\ \A t \in Trips : t \in live <=> \E a \in scheduled : a.trip = t
    /\ \A a \in scheduled : Acted(a.trip) /\ InRange(a.trip) /\ AsExpected(a)

\* Nothing was done yet for a launch that was not reached.
UnseenIsUntouched ==
    \A t \in Trips : status[t] = "UNSEEN" => Untouched(t) /\ openMints[run.mint[t]] = None

\* Whatever became of a launch that was acted upon, its developer's cooldown runs.
CooldownRuns ==
    \A t \in Trips : Acted(t) =>
        TimeOf(run.clock, run.launch[t]) + Cooldown <= until[run.developer[t]]

SnipingInv ==
    /\ run.engine = "sniping" /\ raised = None
    /\ Books
    /\ SnipingTyped
    /\ SettlementsFit
    /\ SnipingOnTime
    /\ OneActionEach
    /\ UnseenIsUntouched
    /\ CooldownRuns
    /\ CooldownHolds

-------------------------------------------------------------------------------
(* Lemmas.                                                                    *)

\* What is fixed with the inputs of the run.
LEMMA RunStays ==
    ASSUME run' = run
    PROVE  /\ \A t : /\ InRange(t)' = InRange(t) /\ SettlementEnd(t)' = SettlementEnd(t)
                     /\ BuyAt(t)' = BuyAt(t) /\ SellAt(t)' = SellAt(t)
           /\ Positions(run.clock)' = Positions(run.clock)
  BY DEF InRange, SettlementEnd, BuyAt, SellAt, Positions, TransactionCount

\* A settlement that ends on the clock has every boundary of it on the clock, each
\* later than the one before.
LEMMA SettlementOnClock ==
    ASSUME run \in Runs, NEW t \in Trips, SettlementEnd(t) # OffClock
    PROVE  /\ run.launch[t] \in Positions(run.clock)
           /\ BuyAt(t) \in Positions(run.clock) /\ run.launch[t] < BuyAt(t)
           /\ SellAt(t) \in Positions(run.clock) /\ BuyAt(t) < SellAt(t)
           /\ SettlementEnd(t) \in Positions(run.clock) /\ SellAt(t) < SettlementEnd(t)
           /\ SettlementEnd(t) = TransactionAfter(run.clock, SellAt(t), SellDelay)
  <1>1. IsClock(run.clock) /\ run.launch[t] \in Positions(run.clock)
    BY RunFacts
  <1>2. \A p \in Positions(run.clock) : p \in Nat
    BY DEF Positions
  <1>3. SettlementEnd(t) = TransactionAfter(run.clock, SellAt(t), SellDelay)
    BY DEF SettlementEnd, SellAt, BuyAt
  <1>4. BuyAt(t) # OffClock /\ SellAt(t) # OffClock
    BY <1>3, OffStaysOff DEF SellAt
  <1>5. BuyAt(t) \in Positions(run.clock) /\ run.launch[t] < BuyAt(t)
    BY <1>1, <1>2, <1>4, AfterIsLater, DelaysArePositive DEF BuyAt
  <1>6. SellAt(t) \in Positions(run.clock) /\ BuyAt(t) < SellAt(t)
    BY <1>1, <1>4, <1>5, HoldingIsLater, AmountsAreNatural DEF SellAt
  <1>7. SettlementEnd(t) \in Positions(run.clock) /\ SellAt(t) < SettlementEnd(t)
    BY <1>1, <1>2, <1>3, <1>6, AfterIsLater, DelaysArePositive
  <1> QED BY <1>1, <1>3, <1>5, <1>6, <1>7

\* Mints are the launches' own.
LEMMA MintsApart ==
    ASSUME run \in Runs, run.engine = "sniping", NEW t \in Trips, NEW u \in Trips, t # u
    PROVE  run.mint[t] # run.mint[u]
  <1>1. IsInjective(run.mint) /\ DOMAIN run.mint = Trips
    BY RunFacts
  <1> QED BY <1>1 DEF IsInjective

\* CooldownHolds, in terms of the launches that were acted upon.
LEMMA CooldownMeans ==
    ASSUME run.engine = "sniping"
    PROVE  CooldownHolds <=>
                \A t, u \in Trips :
                    t # u /\ run.developer[t] = run.developer[u] /\ Acted(t) /\ Acted(u)
                    => \/ TimeOf(run.clock, run.launch[t]) - TimeOf(run.clock, run.launch[u]) >= Cooldown
                       \/ -(TimeOf(run.clock, run.launch[t]) - TimeOf(run.clock, run.launch[u])) >= Cooldown
  <1>1. \A t, u : {status[t], status[u]} \cap
                {"UNSEEN", "COOLDOWN_SKIPPED", "TARGET_OUTSIDE_DECISION_RANGE"} = {}
                <=> Acted(t) /\ Acted(u)
    BY DEF Acted
  <1> QED BY <1>1 DEF CooldownHolds

\* As long as no other launch is acted upon, the cooldowns stand.
LEMMA CooldownsStay ==
    ASSUME CooldownRuns, CooldownHolds, run.engine = "sniping", run' = run, until' = until,
           \A t \in Trips : Acted(t)' => Acted(t)
    PROVE  CooldownRuns' /\ CooldownHolds'
  <1>1. CooldownRuns'
    BY DEF CooldownRuns
  <1>2. CooldownHolds' <=>
                \A t, u \in Trips :
                    t # u /\ run.developer[t] = run.developer[u] /\ Acted(t)' /\ Acted(u)'
                    => \/ TimeOf(run.clock, run.launch[t]) - TimeOf(run.clock, run.launch[u]) >= Cooldown
                       \/ -(TimeOf(run.clock, run.launch[t]) - TimeOf(run.clock, run.launch[u])) >= Cooldown
    <2>1. \A t, u : {status'[t], status'[u]} \cap
                {"UNSEEN", "COOLDOWN_SKIPPED", "TARGET_OUTSIDE_DECISION_RANGE"} = {}
                <=> Acted(t)' /\ Acted(u)'
      BY DEF Acted
    <2> QED BY <2>1 DEF CooldownHolds
  <1> QED BY <1>1, <1>2, CooldownMeans

\* Actions of other trips are still as expected.
LEMMA ExpectationsStay ==
    ASSUME run' = run, NEW b, b.trip \in Trips, AsExpected(b),
           trip'[b.trip] = trip[b.trip], openMints'[run.mint[b.trip]] = openMints[run.mint[b.trip]]
    PROVE  AsExpected(b)'
  BY RunStays DEF AsExpected, Holds

\* A trip that had an action, or was just launched, goes on with another one.
Continues(t, a, b) ==
    /\ scheduled' = (scheduled \ {a}) \cup {b}
    /\ live' = live \cup {t}
    /\ b.trip = t

\* A trip that had an action, or was just launched, has none any more.
Ends(t, a) ==
    /\ scheduled' = scheduled \ {a}
    /\ live' = live \ {t}

\* What all steps within a boundary have in common.
LEMMA TripMovesOn ==
    ASSUME SnipingInv, AtBoundary, UNCHANGED <<run, now, stage, raised>>, Books',
           NEW t \in Trips, NEW a, (a \in scheduled /\ a.trip = t) \/ (a \notin scheduled /\ t \notin live),
           NEW b,
           \/ Ends(t, a)
           \/ Continues(t, a, b) /\ HeapTyped' /\ b.release > now /\ AsExpected(b)' /\ InRange(t) /\ Acted(t)',
           \A u \in Trips \ {t} : /\ trip'[u] = trip[u] /\ status'[u] = status[u]
                                  /\ openMints'[run.mint[u]] = openMints[run.mint[u]],
           status' \in [Trips -> SnipingStatuses], status'[t] # "UNSEEN",
           until' \in [Developers -> Nat], CooldownRuns', CooldownHolds'
    PROVE  SnipingInv'
  <1>r. \A u : InRange(u)' = InRange(u) /\ SettlementEnd(u)' = SettlementEnd(u)
    BY RunStays
  <1>p. Positions(run.clock)' = Positions(run.clock) /\ AtBoundary' = AtBoundary
    BY DEF AtBoundary
  <1>1. HeapTyped'
    <2>1. CASE Ends(t, a)
      BY <2>1, FS_RemoveElement DEF Ends, HeapTyped, SnipingInv, SnipingTyped
    <2> QED BY <2>1
  <1>2. SnipingTyped'
    BY <1>1, <1>p DEF Ends, Continues, SnipingInv, SnipingTyped
  <1>3. SettlementsFit'
    BY <1>r DEF SnipingInv, SettlementsFit
  <1>4. SnipingOnTime'
    <2>1. now \in Nat
      BY DEF SnipingInv, SnipingTyped, Positions
    <2>2. \A c \in scheduled' : c \in scheduled \/ c.release > now
      <3>1. CASE Ends(t, a)
        BY <3>1 DEF Ends
      <3>2. CASE Continues(t, a, b) /\ b.release > now
        BY <3>2 DEF Continues
      <3> QED BY <3>1, <3>2
    <2>3. \A c \in scheduled' : c.release \in Nat
      BY <1>1 DEF HeapTyped, Positions
    <2>4. \A c \in scheduled' : c.release >= now
            /\ (~ AtBoundary => c.release > now)
            /\ (stage \in {"launches", "landings"} /\ c.phase = Decision => c.release > now)
      BY <2>1, <2>2, <2>3 DEF SnipingInv, SnipingOnTime
    <2>5. \A u \in Trips : status'[u] = "UNSEEN" => status[u] = "UNSEEN"
      OBVIOUS
    <2>6. stage # "done"
      BY DEF AtBoundary
    <2> QED BY <2>4, <2>5, <2>6, <1>p DEF SnipingInv, SnipingOnTime
  <1>5. OneActionEach'
    <2>0. /\ \A c, d \in scheduled : c.trip = d.trip => c = d
          /\ \A u \in Trips : u \in live <=> \E c \in scheduled : c.trip = u
          /\ \A c \in scheduled : Acted(c.trip) /\ InRange(c.trip) /\ AsExpected(c)
          /\ \A c \in scheduled : c.trip \in Trips
      BY DEF SnipingInv, OneActionEach, SnipingTyped, HeapTyped
    <2>1. \A c \in scheduled \ {a} : c.trip # t
      BY <2>0
    <2>2. \A c \in scheduled \ {a} : Acted(c.trip)' /\ InRange(c.trip) /\ AsExpected(c)'
      BY <2>0, <2>1, ExpectationsStay DEF Acted
    <2>3. CASE Ends(t, a)
      BY <2>0, <2>1, <2>2, <2>3, <1>r DEF OneActionEach, Ends
    <2>4. CASE Continues(t, a, b) /\ AsExpected(b)' /\ InRange(t) /\ Acted(t)'
      BY <2>0, <2>1, <2>2, <2>4, <1>r DEF OneActionEach, Continues
    <2> QED BY <2>3, <2>4
  <1>6. UnseenIsUntouched'
    BY DEF UnseenIsUntouched, Untouched, SnipingInv
  <1> QED BY <1>2, <1>3, <1>4, <1>5, <1>6 DEF SnipingInv

\* A trip whose action was taken, or that was just launched, asks for nothing more.
LEMMA TripEnds ==
    ASSUME SnipingInv, AtBoundary, UNCHANGED <<run, now, stage, raised>>, Books',
           NEW t \in Trips, NEW a, (a \in scheduled /\ a.trip = t) \/ (a \notin scheduled /\ t \notin live),
           Ends(t, a),
           \A u \in Trips \ {t} : /\ trip'[u] = trip[u] /\ status'[u] = status[u]
                                  /\ openMints'[run.mint[u]] = openMints[run.mint[u]],
           status' \in [Trips -> SnipingStatuses], status'[t] # "UNSEEN",
           until' \in [Developers -> Nat], CooldownRuns', CooldownHolds'
    PROVE  SnipingInv'
  BY TripMovesOn

\* Or it goes on with the action that is scheduled for it.
LEMMA TripContinues ==
    ASSUME SnipingInv, AtBoundary, UNCHANGED <<run, now, stage, raised>>, Books',
           NEW t \in Trips, NEW a, (a \in scheduled /\ a.trip = t) \/ (a \notin scheduled /\ t \notin live),
           NEW b, Continues(t, a, b), HeapTyped', b.release > now, AsExpected(b)', InRange(t), Acted(t)',
           \A u \in Trips \ {t} : /\ trip'[u] = trip[u] /\ status'[u] = status[u]
                                  /\ openMints'[run.mint[u]] = openMints[run.mint[u]],
           status' \in [Trips -> SnipingStatuses], status'[t] # "UNSEEN",
           until' \in [Developers -> Nat], CooldownRuns', CooldownHolds'
    PROVE  SnipingInv'
  BY TripMovesOn

\* What the steps between boundaries have in common.
LEMMA StageMoves ==
    ASSUME SnipingInv, UNCHANGED <<run, books, trip, status, live, scheduled, raised, until>>,
           now' \in Positions(run.clock) \cup {-1},
           stage' \in {"preflight", "refused", "select", "decisions", "launches", "landings", "done"},
           AtBoundary' => now' \in Positions(run.clock),
           SettlementsFit', SnipingOnTime'
    PROVE  SnipingInv'
  <1>1. Books'
    <2>1. Orders' = Orders
      BY DEF Orders
    <2> QED BY <2>1, BooksStay DEF SnipingInv
  <1>2. HeapTyped'
    BY RunStays DEF HeapTyped, SnipingInv, SnipingTyped
  <1>3. SnipingTyped'
    BY <1>2, RunStays DEF SnipingInv, SnipingTyped
  <1>4. \A u : InRange(u)' = InRange(u) /\ Acted(u)' = Acted(u)
    BY RunStays DEF Acted
  <1>5. \A b \in scheduled : AsExpected(b)'
    <2>1. \A b \in scheduled : b.trip \in Trips /\ AsExpected(b)
      BY DEF SnipingInv, SnipingTyped, HeapTyped, OneActionEach
    <2> QED BY <2>1, ExpectationsStay DEF books
  <1>6. OneActionEach'
    BY <1>4, <1>5 DEF SnipingInv, OneActionEach
  <1>7. UnseenIsUntouched'
    BY DEF SnipingInv, UnseenIsUntouched, Untouched, books
  <1>8. CooldownRuns' /\ CooldownHolds'
    BY <1>4, CooldownsStay DEF SnipingInv
  <1> QED BY <1>1, <1>3, <1>6, <1>7, <1>8 DEF SnipingInv

\* The preflight admits a run only if every launch that may be bought is settled
\* on the clock.
LEMMA PreflightKeeps == SnipingInv /\ Preflight => SnipingInv'
  <1> SUFFICES ASSUME SnipingInv, Preflight PROVE SnipingInv'
    OBVIOUS
  <1>1. /\ UNCHANGED <<run, books, trip, status, live, scheduled, now, raised, until>>
        /\ stage = "preflight" /\ stage' \in {"refused", "select"}
        /\ stage' = "select" => \A t \in Trips : ~ (InRange(t) /\ SettlementEnd(t) = OffClock)
    BY DEF Preflight, Reached, Advance, Enter
  <1>2. SettlementsFit'
    BY <1>1, RunStays DEF SettlementsFit
  <1>3. SnipingOnTime' /\ ~ AtBoundary'
    BY <1>1 DEF SnipingInv, SnipingOnTime, AtBoundary
  <1>4. now' \in Positions(run.clock) \cup {-1}
    BY <1>1 DEF SnipingInv, SnipingTyped
  <1> QED BY <1>1, <1>2, <1>3, <1>4, StageMoves

\* The next boundary is the earliest there is something at.
LEMMA SelectBoundaryKeeps == SnipingInv /\ SelectBoundary => SnipingInv'
  <1> SUFFICES ASSUME SnipingInv, SelectBoundary PROVE SnipingInv'
    OBVIOUS
  <1>1. /\ UNCHANGED <<run, books, trip, status, live, scheduled, raised, until>>
        /\ stage = "select" /\ stage' = "decisions"
        /\ Boundaries # {} /\ now' = Min(Boundaries)
    BY DEF SelectBoundary, Reached
  <1>2. Boundaries \subseteq Positions(run.clock)
    <2>1. run.launch \in [Trips -> Positions(run.clock)]
      BY RunFacts DEF SnipingInv, Books
    <2>2. \A a \in scheduled : a.release \in Positions(run.clock)
      BY DEF SnipingInv, SnipingTyped, HeapTyped
    <2> QED BY <2>1, <2>2 DEF Boundaries
  <1>3. Boundaries \in SUBSET Nat
    BY <1>2 DEF Positions
  <1>4. now' \in Boundaries /\ \A p \in Boundaries : now' <= p
    BY <1>1, <1>3, MinIsLeast
  <1>5. /\ \A a \in scheduled : a.release \in Boundaries
        /\ \A t \in Trips : status[t] = "UNSEEN" => run.launch[t] \in Boundaries
    BY DEF Boundaries
  <1>6. SnipingOnTime'
    <2>1. \A p \in Boundaries : p >= now'
      BY <1>3, <1>4
    <2> QED BY <1>1, <1>5, <2>1 DEF SnipingOnTime, AtBoundary
  <1>7. SettlementsFit'
    BY <1>1, RunStays DEF SettlementsFit, SnipingInv
  <1> QED BY <1>1, <1>2, <1>4, <1>6, <1>7, StageMoves DEF AtBoundary

\* A run is done when no launch and no action is left.
LEMMA FinishRunKeeps == SnipingInv /\ FinishRun => SnipingInv'
  <1> SUFFICES ASSUME SnipingInv, FinishRun PROVE SnipingInv'
    OBVIOUS
  <1>1. /\ UNCHANGED <<run, books, trip, status, live, scheduled, now, raised, until>>
        /\ stage = "select" /\ stage' = "done"
    BY DEF FinishRun, Reached, Advance, Enter
  <1>2. SettlementsFit'
    BY <1>1, RunStays DEF SettlementsFit, SnipingInv
  <1>0. scheduled = {}
    BY DEF FinishRun, Boundaries
  <1>3. SnipingOnTime' /\ ~ AtBoundary'
    BY <1>0, <1>1 DEF SnipingInv, SnipingOnTime, AtBoundary
  <1>4. now' \in Positions(run.clock) \cup {-1}
    BY <1>1 DEF SnipingInv, SnipingTyped
  <1> QED BY <1>1, <1>2, <1>3, <1>4, StageMoves

\* A phase of a boundary ends when nothing of it is due: nothing is left behind.
LEMMA PhasesEnd == SnipingInv /\ (EndDecisions \/ EndLaunches \/ EndLandings) => SnipingInv'
  <1> SUFFICES ASSUME SnipingInv, EndDecisions \/ EndLaunches \/ EndLandings PROVE SnipingInv'
    OBVIOUS
  <1>1. UNCHANGED <<run, books, trip, status, live, scheduled, now, raised, until>>
    BY DEF EndDecisions, EndLaunches, EndLandings, Advance, Enter
  <1>2. AtBoundary /\ now \in Positions(run.clock) /\ now \in Nat
    BY DEF EndDecisions, EndLaunches, EndLandings, Reached, AtBoundary, SnipingInv, SnipingTyped,
           Positions
  <1>3. stage' \in {"launches", "landings", "select"}
    BY DEF EndDecisions, EndLaunches, EndLandings, Advance, Enter
  <1>4. SettlementsFit'
    BY <1>1, <1>2, RunStays DEF SettlementsFit, SnipingInv, AtBoundary
  <1>5. /\ \A a \in scheduled : /\ a.release >= now /\ a.release \in Nat
                                /\ a.phase \in {Decision, Landing} /\ a \in scheduled
        /\ HeapTyped
    BY DEF SnipingInv, SnipingOnTime, SnipingTyped, HeapTyped, Positions
  <1>6. SnipingOnTime'
    <2>1. CASE EndDecisions
      <3>1. DueUpTo(Decision) = {} /\ stage = "decisions" /\ stage' = "launches"
        BY <2>1 DEF EndDecisions, Reached, Advance, Enter
      <3>2. \A a \in scheduled : a.release = now => ~ (a.phase <= Decision)
        BY <1>2, <1>5, <3>1, HeadsShowTheDue DEF Decision
      <3>3. \A a \in scheduled : a.phase = Decision => a.release > now
        BY <1>2, <1>5, <3>2 DEF Decision
      <3> QED BY <1>1, <1>5, <3>1, <3>3 DEF SnipingInv, SnipingOnTime, AtBoundary
    <2>2. CASE EndLaunches
      <3>1. LaunchesAt(now) = {} /\ stage = "launches" /\ stage' = "landings"
        BY <2>2 DEF EndLaunches, Reached, Advance, Enter
      <3>2. \A t \in Trips : status[t] = "UNSEEN" =>
                run.launch[t] >= now /\ run.launch[t] # now /\ run.launch[t] \in Nat
        BY <3>1, RunFacts DEF LaunchesAt, SnipingInv, SnipingOnTime, Books, Positions
      <3>3. \A t \in Trips : status[t] = "UNSEEN" => run.launch[t] >= now /\ run.launch[t] > now
        BY <1>2, <3>2
      <3> QED BY <1>1, <1>5, <3>1, <3>3 DEF SnipingInv, SnipingOnTime, AtBoundary
    <2>3. CASE EndLandings
      <3>1. DueUpTo(Landing) = {} /\ stage = "landings" /\ stage' = "select"
        BY <2>3 DEF EndLandings, Reached, Advance, Enter
      <3>2. \A a \in scheduled : a.release = now => ~ (a.phase <= Landing)
        BY <1>2, <1>5, <3>1, HeadsShowTheDue DEF Landing
      <3>3. \A a \in scheduled : a.release > now
        BY <1>2, <1>5, <3>2 DEF Decision, Landing
      <3> QED BY <1>1, <1>5, <3>1, <3>3 DEF SnipingInv, SnipingOnTime, AtBoundary
    <2> QED BY <2>1, <2>2, <2>3
  <1> QED BY <1>1, <1>2, <1>3, <1>4, <1>6, StageMoves

\* What a trip holds and has not offered is in the wallet: no other trip is about
\* its mint (_decide_sell raises otherwise).
LEMMA TokensAreThere ==
    ASSUME Books, run.engine = "sniping", NEW t \in Trips, \A b \in Orders : b.trip # t
    PROVE  available[run.mint[t]] >= trip[t].tokens
  <1>x. PICK x \in Mints : x = run.mint[t]
    BY RunFacts DEF Books
  <1>0. /\ x \in Assets /\ x # Quote /\ x # FeeAsset
        /\ \A u \in Trips \ {t} : run.mint[u] # x
    BY <1>x, RunFacts, TokensAreApart, MintsApart DEF Books, Assets
  <1>1. SumFunction(HeldOf(x)) = 0
    <2>1. ASSUME NEW b \in Orders PROVE HeldBy(b)[x] = 0
      <3>1. b.trip \in Trips \ {t}
        BY DEF Books, OneOrderEach
      <3>2. BuyHeld(b.trip)[x] = 0
        BY <1>0, <3>1, HeldAmounts DEF Books, On
      <3>3. SellHeld(b.trip)[x] = 0
        BY <1>0, <3>1, HeldAmounts DEF Books, On
      <3> QED BY <3>2, <3>3 DEF HeldBy
    <2>2. DOMAIN HeldOf(x) = Orders /\ \A b \in Orders : HeldOf(x)[b] = 0
      BY <2>1 DEF HeldOf
    <2> QED BY <2>2, SumOfZeros DEF Books, OneOrderEach
  <1>2. FlowsOf(x)[t] <= SumFunction(FlowsOf(x)) /\ FlowsOf(x)[t] = trip[t].tokens
    <2>1. \A u \in Trips : CashFlow(u, x) = On(x, run.mint[u], trip[u].tokens)
      BY <1>0, TripAmounts DEF CashFlow, On, Books
    <2>2. /\ DOMAIN FlowsOf(x) = Trips
          /\ \A u \in Trips : FlowsOf(x)[u] \in Nat
          /\ FlowsOf(x)[t] = trip[t].tokens
      BY <1>x, <2>1, TripAmounts DEF FlowsOf, On, Books
    <2> QED BY <2>2, TripsAreFinite, SumBounds
  <1>3. available[x] + reserved[x] = StartOf(x) + SumFunction(FlowsOf(x)) /\ reserved[x] = 0
    BY <1>0, <1>1 DEF Books, ReservedIsInFlight, BooksExplained
  <1>4. StartOf(x) \in Nat /\ trip[t].tokens \in Nat /\ available[x] \in Nat
    BY <1>0, RunFacts, TripAmounts DEF Books, BooksTyped
  <1>5. SumFunction(FlowsOf(x)) \in Int
    <2>1. \A u \in Trips : FlowsOf(x)[u] \in Int
      BY <1>0, FlowIsNumber DEF FlowsOf, Books
    <2>2. DOMAIN FlowsOf(x) = Trips /\ \A i, j \in Int : i + j \in Int
      BY DEF FlowsOf
    <2> QED BY <2>1, <2>2, TripsAreFinite, SumHasType DEF SumFunction
  <1> QED BY <1>x, <1>2, <1>3, <1>4, <1>5

\* Due decisions are sells of trips that are live and hold tokens, as expected.
LEMMA DueDecisions ==
    ASSUME SnipingInv, NEW a \in DueUpTo(Decision)
    PROVE  /\ a \in scheduled /\ a.trip \in Trips /\ a.trip \in live /\ a.release = now
           /\ a.kind = "SELL_DECISION" /\ a.phase = Decision /\ a \notin Orders
           /\ Acted(a.trip) /\ InRange(a.trip) /\ now = SellAt(a.trip) /\ Holds(a.trip)
           /\ trip[a.trip].tokens # 0
           /\ \A b \in Orders : b.trip # a.trip
  <1>1. a \in scheduled /\ a.release = now /\ a.phase <= Decision
    BY DEF DueUpTo, Heads
  <1>2. /\ a.trip \in Trips /\ a.phase \in {Decision, Landing}
        /\ a.phase = Landing <=> a.kind \in {"BUY_LANDING", "SELL_LANDING"}
    BY <1>1 DEF SnipingInv, SnipingTyped, HeapTyped
  <1>3. a.phase = Decision /\ a \notin Orders
    BY <1>1, <1>2 DEF Decision, Landing, Orders
  <1>4. /\ a.trip \in live /\ Acted(a.trip) /\ InRange(a.trip) /\ AsExpected(a)
        /\ \A b \in scheduled : b.trip = a.trip => b = a
    BY <1>1, <1>2 DEF SnipingInv, OneActionEach
  <1>5. a.kind = "SELL_DECISION" /\ a.release = SellAt(a.trip) /\ Holds(a.trip)
    BY <1>2, <1>3, <1>4 DEF AsExpected, Decision, Landing
  <1>6. trip[a.trip].tokens \in Nat
    BY <1>2, TripAmounts DEF SnipingInv, Books
  <1> QED BY <1>1, <1>2, <1>3, <1>4, <1>5, <1>6 DEF Holds, Orders

\* A decision to sell is taken, or the position is left open for good; nothing in
\* it raises.
LEMMA DecideSellKeeps == SnipingInv /\ DecideSell => SnipingInv'
  <1> SUFFICES ASSUME SnipingInv, DecideSell PROVE SnipingInv'
    OBVIOUS
  <1>0. stage = "decisions" /\ AtBoundary
    BY DEF DecideSell, Reached, AtBoundary
  <1>1. PICK a \in DueUpTo(Decision) : SellUnavailable(a) \/ \E fee \in Fees : SellQuoted(a, fee)
    BY DueDecisions DEF DecideSell
  <1>2. /\ a \in scheduled /\ a.trip \in Trips /\ a.trip \in live /\ a.release = now
        /\ a.kind = "SELL_DECISION" /\ a.phase = Decision /\ a \notin Orders
        /\ Acted(a.trip) /\ InRange(a.trip) /\ now = SellAt(a.trip) /\ Holds(a.trip)
        /\ \A b \in Orders : b.trip # a.trip
    BY DueDecisions
  <1>t. PICK t \in Trips : t = a.trip
    BY <1>2
  <1>s. status \in [Trips -> SnipingStatuses] /\ until \in [Developers -> Nat]
        /\ CooldownRuns /\ CooldownHolds /\ run.engine = "sniping" /\ Books
    BY DEF SnipingInv, SnipingTyped
  <1>3. ASSUME NEW outcome \in SnipingStatuses \ {"UNSEEN"},
               Conclude(t, outcome), scheduled' = scheduled \ {a},
               UNCHANGED <<run, books, trip, now, stage, raised, until>>
        PROVE  SnipingInv'
    <2>1. Orders' = Orders
      BY <1>2, <1>3 DEF Orders
    <2>2. Books'
      BY <1>3, <1>s, <2>1, BooksStay
    <2>3. /\ status' \in [Trips -> SnipingStatuses] /\ status'[t] = outcome
          /\ \A u \in Trips \ {t} : status'[u] = status[u]
      BY <1>s, <1>3 DEF Conclude
    <2>4. \A u \in Trips : Acted(u)' => Acted(u)
      BY <1>2, <1>t, <2>3 DEF Acted
    <2>5. CooldownRuns' /\ CooldownHolds'
      BY <1>3, <1>s, <2>4, CooldownsStay
    <2>6. Ends(t, a)
      BY <1>3 DEF Ends, Conclude
    <2>7. /\ (a \in scheduled /\ a.trip = t) \/ (a \notin scheduled /\ t \notin live)
          /\ \A u \in Trips \ {t} : /\ trip'[u] = trip[u] /\ status'[u] = status[u]
                                    /\ openMints'[run.mint[u]] = openMints[run.mint[u]]
          /\ status'[t] # "UNSEEN" /\ until' \in [Developers -> Nat]
      BY <1>2, <1>3, <1>t, <1>s, <2>3 DEF books
    <2>8. UNCHANGED <<run, now, stage, raised>>
      BY <1>3
    <2> QED BY <1>0, <2>2, <2>3, <2>5, <2>6, <2>7, <2>8, TripEnds
  <1>4. CASE SellUnavailable(a)
    BY <1>3, <1>4, <1>t DEF SellUnavailable, SnipingStatuses
  <1>5. ASSUME NEW fee \in Fees, SellQuoted(a, fee) PROVE SnipingInv'
    <2>d. PICK due : due = TransactionAfter(run.clock, now, SellDelay)
      OBVIOUS
    <2>1. /\ due \in Positions(run.clock) /\ due # OffClock /\ due > now
          /\ DueError(due) = None
      <3>1. SettlementEnd(t) # OffClock
        BY <1>0, <1>2, <1>t DEF SnipingInv, SettlementsFit
      <3>2. due = SettlementEnd(t) /\ due \in Positions(run.clock) /\ now < due
        BY <1>2, <1>t, <1>s, <2>d, <3>1, SettlementOnClock DEF Books
      <3>3. now \in Nat /\ due \in Nat
        BY <1>0, <3>2 DEF SnipingInv, SnipingTyped, Positions
      <3> QED BY <3>1, <3>2, <3>3 DEF DueError
    <2>2. ~ (available[run.mint[t]] < trip[t].tokens)
      <3>1. available[run.mint[t]] >= trip[t].tokens
        BY <1>2, <1>t, <1>s, TokensAreThere
      <3>2. available[run.mint[t]] \in Nat /\ trip[t].tokens \in Nat
        BY <1>s, RunFacts, TripAmounts DEF Books, BooksTyped, Assets
      <3> QED BY <3>1, <3>2
    <2>3. /\ \/ /\ HasAvailable(SellReservation(t, fee)) /\ SubmitSell(t, fee)
                /\ scheduled' = (scheduled \ {a}) \cup {Action(due, Landing, t, "SELL_LANDING")}
                /\ UNCHANGED <<status, live>>
             \/ /\ Conclude(t, "SELL_PRE_SUBMIT_INSUFFICIENT_FUNDS_OPEN")
                /\ scheduled' = scheduled \ {a} /\ UNCHANGED <<books, trip>>
          /\ UNCHANGED <<run, now, stage, raised, until>>
      BY <1>5, <1>t, <2>d, <2>1, <2>2 DEF SellQuoted
    <2>4. CASE Conclude(t, "SELL_PRE_SUBMIT_INSUFFICIENT_FUNDS_OPEN")
                /\ scheduled' = scheduled \ {a} /\ UNCHANGED <<books, trip>>
      BY <1>3, <2>3, <2>4 DEF SnipingStatuses
    <2>5. CASE /\ HasAvailable(SellReservation(t, fee)) /\ SubmitSell(t, fee)
               /\ scheduled' = (scheduled \ {a}) \cup {Action(due, Landing, t, "SELL_LANDING")}
               /\ UNCHANGED <<status, live>>
      <3>o. PICK o : o = Action(due, Landing, t, "SELL_LANDING")
        OBVIOUS
      <3>0. /\ now \in Nat /\ HeapTyped /\ Landing \in {Decision, Landing} /\ run' = run
            /\ "SELL_LANDING" \in {"BUY_LANDING", "SELL_LANDING"}
        BY <1>0, <2>3 DEF SnipingInv, SnipingTyped, Positions
      <3>1. /\ o.trip = t /\ o.kind = "SELL_LANDING" /\ o.release = due /\ HeapTyped'
            /\ Orders' = (Orders \ {a}) \cup {o}
        BY <2>1, <2>5, <3>o, <3>0, HeapTakes
      <3>2. Orders' = Orders \cup {o}
        BY <1>2, <3>1
      <3>3. Books'
        BY <1>2, <1>t, <1>s, <2>3, <2>5, <3>1, <3>2, SubmitSellKeepsBooks
      <3>4. /\ openMints' = openMints /\ trip'[t].tokens = trip[t].tokens
            /\ \A u \in Trips \ {t} : trip'[u] = trip[u]
        BY <1>s, <2>5, TripFields DEF SubmitSell, Books, BooksTyped
      <3>6. AsExpected(o)'
        BY <1>2, <1>t, <2>3, <3>1, <3>4 DEF AsExpected, Holds
      <3>7. CooldownRuns' /\ CooldownHolds' /\ Acted(t)'
        BY <1>2, <1>t, <1>s, <2>3, <2>5, CooldownsStay DEF Acted
      <3>8. Continues(t, a, o)
        BY <1>2, <1>t, <2>5, <3>o, <3>1 DEF Continues
      <3>9. o.release > now /\ status'[t] # "UNSEEN" /\ InRange(t)
        BY <1>2, <1>t, <2>1, <2>5, <3>1 DEF Acted
      <3>10. /\ (a \in scheduled /\ a.trip = t) \/ (a \notin scheduled /\ t \notin live)
             /\ \A u \in Trips \ {t} : /\ trip'[u] = trip[u] /\ status'[u] = status[u]
                                       /\ openMints'[run.mint[u]] = openMints[run.mint[u]]
             /\ status' \in [Trips -> SnipingStatuses] /\ until' \in [Developers -> Nat]
        BY <1>2, <1>t, <1>s, <2>3, <2>5, <3>4
      <3>11. UNCHANGED <<run, now, stage, raised>>
        BY <2>3
      <3> QED BY <1>0, <3>11, <3>1, <3>3, <3>6, <3>7, <3>8, <3>9, <3>10, TripContinues
    <2> QED BY <2>3, <2>4, <2>5
  <1> QED BY <1>1, <1>4, <1>5

\* A launch that is acted upon comes when the cooldown of its developer is over, and
\* starts the next one (decide).
LEMMA CooldownStarts ==
    ASSUME SnipingInv, run' = run, NEW t \in Trips, status[t] = "UNSEEN", run.launch[t] = now,
           now \in Positions(run.clock), ~ CoolingDown(t), StartCooldown(t),
           \A u \in Trips \ {t} : Acted(u)' => Acted(u)
    PROVE  CooldownRuns' /\ CooldownHolds' /\ until' \in [Developers -> Nat]
  <1>0. /\ IsClock(run.clock) /\ run.launch \in [Trips -> Positions(run.clock)]
        /\ run.developer \in [Trips -> Developers] /\ until \in [Developers -> Nat]
        /\ CooldownRuns /\ CooldownHolds /\ run.engine = "sniping"
    BY RunFacts DEF SnipingInv, SnipingTyped, Books
  <1>1. \A u \in Trips : TimeOf(run.clock, run.launch[u]) \in Nat
    <2>1. \A p \in Positions(run.clock) : p <= p
      BY DEF Positions
    <2> QED BY <1>0, <2>1, BlocksInOrder
  <1>d. PICK d \in Developers : d = run.developer[t]
    BY <1>0
  <1>n. PICK n \in Nat : n = TimeOf(run.clock, now)
    BY <1>1
  <1>2. until[d] <= n
    BY <1>0, <1>d, <1>n DEF CoolingDown
  <1>3. /\ until' = [until EXCEPT ![d] = n + Cooldown]
        /\ until'[d] = n + Cooldown /\ \A e \in Developers \ {d} : until'[e] = until[e]
        /\ until' \in [Developers -> Nat]
    BY <1>0, <1>d, <1>n, CooldownIsNatural DEF StartCooldown
  <1>4. \A u \in Trips : Acted(u) =>
            TimeOf(run.clock, run.launch[u]) + Cooldown <= until[run.developer[u]]
    BY <1>0 DEF CooldownRuns
  <1>5. ASSUME NEW u \in Trips, Acted(u)'
        PROVE  TimeOf(run.clock, run.launch[u]) + Cooldown <= until'[run.developer[u]]
    <2>1. CASE u = t
      BY <1>d, <1>n, <1>3, <2>1, CooldownIsNatural
    <2>2. CASE u # t /\ run.developer[u] = d
      <3>1. TimeOf(run.clock, run.launch[u]) + Cooldown <= until[d]
        BY <1>4, <1>5, <2>2
      <3> QED BY <1>0, <1>1, <1>2, <1>3, <2>2, <3>1, CooldownIsNatural
    <2>3. CASE u # t /\ run.developer[u] # d
      BY <1>0, <1>3, <1>4, <1>5, <2>3
    <2> QED BY <2>1, <2>2, <2>3
  <1>6. CooldownRuns'
    BY <1>5 DEF CooldownRuns
  <1>7. ASSUME NEW u \in Trips, u # t, Acted(u)', run.developer[u] = d
        PROVE  n - TimeOf(run.clock, run.launch[u]) >= Cooldown
    <2>1. TimeOf(run.clock, run.launch[u]) + Cooldown <= until[d] /\ until[d] \in Nat
      BY <1>0, <1>4, <1>7
    <2> QED BY <1>1, <1>2, <2>1, CooldownIsNatural
  <1>8. ASSUME NEW u \in Trips, NEW v \in Trips, u # v, run.developer[u] = run.developer[v],
               Acted(u)', Acted(v)'
        PROVE  LET gap == TimeOf(run.clock, run.launch[u]) - TimeOf(run.clock, run.launch[v])
               IN  gap >= Cooldown \/ -gap >= Cooldown
    <2>1. CASE u = t
      BY <1>d, <1>n, <1>7, <1>8, <2>1
    <2>2. CASE v = t
      <3>1. n - TimeOf(run.clock, run.launch[u]) >= Cooldown /\ n = TimeOf(run.clock, run.launch[v])
        BY <1>d, <1>n, <1>7, <1>8, <2>2
      <3> QED BY <1>1, <3>1, CooldownIsNatural
    <2>3. CASE u # t /\ v # t
      BY <1>0, <1>8, <2>3, CooldownMeans
    <2> QED BY <2>1, <2>2, <2>3
  <1>9. CooldownHolds'
    <2>1. \A u : {status'[u]} \subseteq {status'[u]} /\ (Acted(u)' <=>
            status'[u] \notin {"UNSEEN", "COOLDOWN_SKIPPED", "TARGET_OUTSIDE_DECISION_RANGE"})
      BY DEF Acted
    <2>2. \A u, v : {status'[u], status'[v]} \cap
                {"UNSEEN", "COOLDOWN_SKIPPED", "TARGET_OUTSIDE_DECISION_RANGE"} = {}
                => Acted(u)' /\ Acted(v)'
      BY <2>1
    <2> QED BY <1>8, <2>2 DEF CooldownHolds
  <1> QED BY <1>3, <1>6, <1>9

\* A launch is skipped, suppressed, or acted upon: nothing in that raises.
LEMMA LaunchKeeps == SnipingInv /\ Launch => SnipingInv'
  <1> SUFFICES ASSUME SnipingInv, Launch PROVE SnipingInv'
    OBVIOUS
  <1>0. stage = "launches" /\ AtBoundary /\ now \in Positions(run.clock) /\ now \in Nat
    BY DEF Launch, Reached, AtBoundary, SnipingInv, SnipingTyped, Positions
  <1>1. PICK t \in LaunchesAt(now) :
            \/ /\ LaunchOutOfRange(t) \/ LaunchSuppressed(t)
               /\ UNCHANGED <<run, now, stage, raised>>
            \/ LaunchEligible(t)
    BY DEF Launch
  <1>2. t \in Trips /\ status[t] = "UNSEEN" /\ run.launch[t] = now
    BY DEF LaunchesAt
  <1>s. status \in [Trips -> SnipingStatuses] /\ until \in [Developers -> Nat] /\ HeapTyped
        /\ CooldownRuns /\ CooldownHolds /\ run.engine = "sniping" /\ Books
    BY DEF SnipingInv, SnipingTyped
  <1>3. t \notin live /\ \A b \in Orders : b.trip # t
    BY <1>2 DEF SnipingInv, OneActionEach, Acted, Orders
  <1>a. PICK a : a = [trip |-> None]
    OBVIOUS
  <1>4. a \notin scheduled /\ a \notin Orders
    BY <1>a, TripsAreFinite DEF SnipingInv, SnipingTyped, HeapTyped, Orders
  <1>5. Untouched(t) /\ openMints[run.mint[t]] = None
    BY <1>2 DEF SnipingInv, UnseenIsUntouched
  <1>6. ASSUME NEW outcome \in SnipingStatuses \ {"UNSEEN"},
               status' = [status EXCEPT ![t] = outcome], live' = live \ {t},
               UNCHANGED <<run, books, trip, scheduled, now, stage, raised>>,
               until' \in [Developers -> Nat], CooldownRuns', CooldownHolds'
        PROVE  SnipingInv'
    <2>1. Books'
      <3>1. Orders' = Orders
        BY <1>6 DEF Orders
      <3> QED BY <1>6, <1>s, <3>1, BooksStay
    <2>2. /\ status' \in [Trips -> SnipingStatuses] /\ status'[t] # "UNSEEN"
          /\ \A u \in Trips \ {t} : /\ trip'[u] = trip[u] /\ status'[u] = status[u]
                                    /\ openMints'[run.mint[u]] = openMints[run.mint[u]]
      BY <1>2, <1>s, <1>6 DEF books
    <2>3. Ends(t, a)
      BY <1>4, <1>6 DEF Ends
    <2>4. (a \in scheduled /\ a.trip = t) \/ (a \notin scheduled /\ t \notin live)
      BY <1>3, <1>4
    <2>5. UNCHANGED <<run, now, stage, raised>>
      BY <1>6
    <2> QED BY <1>0, <1>2, <1>6, <2>1, <2>2, <2>3, <2>4, <2>5, TripEnds
  <1>7. CASE /\ LaunchOutOfRange(t) \/ LaunchSuppressed(t)
             /\ UNCHANGED <<run, now, stage, raised>>
    <2>1. /\ \/ status' = [status EXCEPT ![t] = "TARGET_OUTSIDE_DECISION_RANGE"]
             \/ status' = [status EXCEPT ![t] = "COOLDOWN_SKIPPED"]
          /\ UNCHANGED <<live, books, trip, scheduled, until>>
      BY <1>7 DEF LaunchOutOfRange, LaunchSuppressed
    <2>2. \A u \in Trips : Acted(u)' => Acted(u)
      BY <1>2, <1>s, <2>1 DEF Acted
    <2>3. CooldownRuns' /\ CooldownHolds' /\ until' \in [Developers -> Nat]
      BY <1>7, <1>s, <2>1, <2>2, CooldownsStay
    <2>4. live' = live \ {t} /\ UNCHANGED <<run, books, trip, scheduled, now, stage, raised>>
      BY <1>3, <1>7, <2>1
    <2> QED BY <1>6, <2>1, <2>3, <2>4 DEF SnipingStatuses
  <1>8. CASE LaunchEligible(t)
    <2>d. PICK due : due = BuyAt(t)
      OBVIOUS
    <2>1. /\ InRange(t) /\ ~ CoolingDown(t) /\ AcceptBuy(t)
          /\ due = TransactionAfter(run.clock, run.launch[t], BuyDelay)
      BY <1>8, <2>d DEF LaunchEligible, BuyAt
    <2>2. due \in Positions(run.clock) /\ due > now /\ DueError(due) = None
      <3>1. SettlementEnd(t) # OffClock
        BY <1>0, <1>2, <2>1 DEF SnipingInv, SettlementsFit
      <3>2. due \in Positions(run.clock) /\ now < due
        BY <1>2, <1>s, <2>d, <3>1, SettlementOnClock DEF Books
      <3>3. due \in Nat /\ due # OffClock
        BY <3>2 DEF Positions, OffClock
      <3> QED BY <1>0, <3>2, <3>3 DEF DueError
    <2>3. /\ BuyUnquoted(t) \/ \E fee \in Fees : BuyQuoted(t, due, fee)
          /\ StartCooldown(t) /\ UNCHANGED <<run, now, stage, raised>>
      BY <1>5, <2>1, <2>2 DEF AcceptBuy
    <2>4. \A outcome : status' = [status EXCEPT ![t] = outcome] =>
                CooldownRuns' /\ CooldownHolds' /\ until' \in [Developers -> Nat]
      <3> SUFFICES ASSUME NEW outcome, status' = [status EXCEPT ![t] = outcome]
                   PROVE  CooldownRuns' /\ CooldownHolds' /\ until' \in [Developers -> Nat]
        OBVIOUS
      <3>1. \A u \in Trips \ {t} : Acted(u)' => Acted(u)
        BY <1>2, <1>s DEF Acted
      <3> QED BY <1>0, <1>2, <2>1, <2>3, <3>1, CooldownStarts
    <2>5. ASSUME NEW outcome \in SnipingStatuses \ {"UNSEEN"}, Conclude(t, outcome),
                 UNCHANGED <<books, trip, scheduled>>
          PROVE  SnipingInv'
      <3>1. status' = [status EXCEPT ![t] = outcome] /\ live' = live \ {t}
        BY <2>5 DEF Conclude
      <3>2. UNCHANGED <<run, books, trip, scheduled, now, stage, raised>>
        BY <2>3, <2>5
      <3> QED BY <1>6, <2>4, <3>1, <3>2
    <2>6. CASE BuyUnquoted(t)
      BY <2>5, <2>6 DEF BuyUnquoted, SnipingStatuses
    <2>7. ASSUME NEW fee \in Fees, BuyQuoted(t, due, fee) PROVE SnipingInv'
      <3>o. PICK o : o = Action(due, Landing, t, "BUY_LANDING")
        OBVIOUS
      <3>1. CASE HasAvailable(BuyReservation(fee, UvaReservation))
        <4>1. /\ SubmitBuy(t, fee) /\ Await(t, "BUY_REFERENCE_REJECTED")
              /\ scheduled' = (scheduled \ {a}) \cup {o}
          BY <1>4, <2>7, <3>o, <3>1 DEF BuyQuoted
        <4>2. Landing \in {Decision, Landing} /\ "BUY_LANDING" \in {"BUY_LANDING", "SELL_LANDING"}
              /\ run' = run
          BY <2>3
        <4>3. /\ o.trip = t /\ o.kind = "BUY_LANDING" /\ o.release = due /\ HeapTyped'
              /\ Orders' = (Orders \ {a}) \cup {o}
          BY <1>0, <1>2, <1>s, <2>2, <3>o, <4>1, <4>2, HeapTakes
        <4>4. Orders' = Orders \cup {o}
          BY <1>4, <4>3
        <4>5. Books'
          BY <1>2, <1>3, <1>5, <1>s, <3>1, <4>1, <4>2, <4>3, <4>4, SubmitBuyKeepsBooks
        <4>6. openMints' = openMints /\ \A u \in Trips \ {t} : trip'[u] = trip[u]
          BY <1>2, <1>s, <4>1 DEF SubmitBuy, Books, BooksTyped
        <4>7. /\ status' = [status EXCEPT ![t] = "BUY_REFERENCE_REJECTED"]
              /\ live' = live \cup {t}
          BY <4>1 DEF Await
        <4>8. AsExpected(o)' /\ Acted(t)'
          BY <1>2, <1>5, <1>s, <2>d, <4>2, <4>3, <4>6, <4>7, RunStays DEF AsExpected, Acted
        <4>9. Continues(t, a, o)
          BY <4>1, <4>3, <4>7 DEF Continues
        <4>10. /\ (a \in scheduled /\ a.trip = t) \/ (a \notin scheduled /\ t \notin live)
               /\ \A u \in Trips \ {t} : /\ trip'[u] = trip[u] /\ status'[u] = status[u]
                                         /\ openMints'[run.mint[u]] = openMints[run.mint[u]]
               /\ status' \in [Trips -> SnipingStatuses] /\ status'[t] # "UNSEEN"
               /\ o.release > now
          BY <1>2, <1>3, <1>4, <1>s, <2>2, <4>3, <4>6, <4>7 DEF SnipingStatuses
        <4>11. UNCHANGED <<run, now, stage, raised>>
          BY <2>3
        <4>12. CooldownRuns' /\ CooldownHolds' /\ until' \in [Developers -> Nat]
          BY <2>4, <4>7
        <4> QED BY <1>0, <1>2, <2>1, <4>3, <4>5, <4>8, <4>9, <4>10, <4>11, <4>12, TripContinues
      <3>2. CASE ~ HasAvailable(BuyReservation(fee, UvaReservation))
        BY <2>5, <2>7, <3>2 DEF BuyQuoted, SnipingStatuses
      <3> QED BY <3>1, <3>2
    <2> QED BY <2>3, <2>6, <2>7
  <1> QED BY <1>1, <1>7, <1>8

\* What is due once a boundary's launches are done is an order, as expected.
LEMMA DueLandings ==
    ASSUME SnipingInv, stage = "landings", NEW a \in DueUpTo(Landing)
    PROVE  /\ a \in Orders /\ a \in scheduled /\ a.trip \in Trips /\ a.release = now
           /\ Acted(a.trip) /\ InRange(a.trip) /\ AsExpected(a)
           /\ a.kind \in {"BUY_LANDING", "SELL_LANDING"}
  <1>1. a \in scheduled /\ a.release = now
    BY DEF DueUpTo, Heads
  <1>2. /\ a.trip \in Trips /\ a.phase \in {Decision, Landing} /\ now \in Nat
        /\ a.phase = Landing <=> a.kind \in {"BUY_LANDING", "SELL_LANDING"}
    BY <1>1 DEF SnipingInv, SnipingTyped, HeapTyped, AtBoundary, Positions
  <1>3. a.phase = Landing
    <2>1. a.phase = Decision => a.release > now
      BY <1>1 DEF SnipingInv, SnipingOnTime
    <2> QED BY <1>1, <1>2, <2>1
  <1> QED BY <1>1, <1>2, <1>3 DEF Orders, SnipingInv, OneActionEach

\* A landing that ends its trip.
LEMMA LandingConcludes ==
    ASSUME SnipingInv, stage = "landings", NEW a \in DueUpTo(Landing),
           NEW outcome \in SnipingStatuses \ {"UNSEEN"}, Conclude(a.trip, outcome),
           scheduled' = scheduled \ {a}, UNCHANGED <<run, now, stage, raised, until>>, Books',
           \A u \in Trips \ {a.trip} : trip'[u] = trip[u],
           \A u \in Trips \ {a.trip} : openMints'[run.mint[u]] = openMints[run.mint[u]]
    PROVE  SnipingInv'
  <1>t. PICK t \in Trips : t = a.trip
    BY DueLandings
  <1>1. /\ status \in [Trips -> SnipingStatuses] /\ until \in [Developers -> Nat]
        /\ CooldownRuns /\ CooldownHolds /\ run.engine = "sniping" /\ a \in scheduled /\ AtBoundary
        /\ Acted(t)
    BY <1>t, DueLandings DEF SnipingInv, SnipingTyped, AtBoundary
  <1>2. /\ status' \in [Trips -> SnipingStatuses] /\ status'[t] # "UNSEEN"
        /\ \A u \in Trips \ {t} : /\ trip'[u] = trip[u] /\ status'[u] = status[u]
                                  /\ openMints'[run.mint[u]] = openMints[run.mint[u]]
        /\ until' \in [Developers -> Nat]
    BY <1>t, <1>1 DEF Conclude
  <1>3. CooldownRuns' /\ CooldownHolds'
    <2>1. \A u \in Trips : Acted(u)' => Acted(u)
      BY <1>1, <1>2 DEF Acted
    <2> QED BY <1>1, <2>1, CooldownsStay
  <1>4. Ends(t, a) /\ ((a \in scheduled /\ a.trip = t) \/ (a \notin scheduled /\ t \notin live))
    BY <1>1, <1>t DEF Ends, Conclude
  <1> QED BY <1>1, <1>2, <1>3, <1>4, TripEnds

\* An order that is due lands, and nothing in that raises.
LEMMA LandDueKeeps == SnipingInv /\ LandDue => SnipingInv'
  <1> SUFFICES ASSUME SnipingInv, LandDue PROVE SnipingInv'
    OBVIOUS
  <1>0. stage = "landings" /\ AtBoundary /\ now \in Positions(run.clock) /\ now \in Nat
    BY DEF LandDue, Reached, AtBoundary, SnipingInv, SnipingTyped, Positions
  <1>1. PICK a \in DueUpTo(Landing) : Land(a)
    BY DEF LandDue
  <1>2. /\ a \in Orders /\ a \in scheduled /\ a.trip \in Trips /\ a.release = now
        /\ Acted(a.trip) /\ InRange(a.trip) /\ AsExpected(a)
        /\ a.kind \in {"BUY_LANDING", "SELL_LANDING"}
    BY <1>0, DueLandings
  <1>t. PICK t \in Trips : t = a.trip
    BY <1>2
  <1>s. /\ status \in [Trips -> SnipingStatuses] /\ until \in [Developers -> Nat] /\ HeapTyped
        /\ CooldownRuns /\ CooldownHolds /\ run.engine = "sniping" /\ Books /\ BooksTyped
        /\ run \in Runs
    BY DEF SnipingInv, SnipingTyped, Books
  <1>m. run.mint[t] \in Mints /\ \A u \in Trips \ {t} : run.mint[u] # run.mint[t]
    BY <1>s, RunFacts, MintsApart
  <1>3. scheduled' = scheduled \ {a} => Orders' = Orders \ {a}
    BY DEF Orders
  <1>4. CASE a.kind = "BUY_LANDING"
    <2>1. openMints[run.mint[t]] = None /\ now = BuyAt(t)
      BY <1>2, <1>t, <1>4 DEF AsExpected
    <2>2. /\ BuyLandingError(t, FeeOnly(trip[t].fee)) = None
          /\ \A paid \in Paid : BuyLandingError(t, BuySpent(t, paid)) = None
      BY <1>2, <1>t, <1>4, <1>s, <2>1, BuyLands
    <2>3. CASE LandBuyFailed(a)
      <3>1. /\ FailBuy(t) /\ Conclude(t, "BUY_LANDED_FAILED") /\ scheduled' = scheduled \ {a}
            /\ UNCHANGED <<run, now, stage, raised, until>>
        BY <1>t, <2>2, <2>3 DEF LandBuyFailed
      <3>2. Books'
        BY <1>2, <1>3, <1>4, <1>s, <1>t, <3>1, FailBuyKeepsBooks
      <3>3. openMints' = openMints /\ \A u \in Trips \ {t} : trip'[u] = trip[u]
        BY <1>s, <3>1 DEF FailBuy, BooksTyped
      <3> QED BY <1>0, <1>t, <3>1, <3>2, <3>3, LandingConcludes DEF SnipingStatuses
    <2>4. ASSUME NEW paid \in Paid, NEW tokens \in Tokens, LandBuyFilled(a, paid, tokens)
          PROVE  SnipingInv'
      <3>d. PICK due : due = SellAt(t)
        OBVIOUS
      <3>1. due = HoldingDeadline(run.clock, now, HoldTime)
        BY <2>1, <3>d DEF SellAt
      <3>2. due \in Positions(run.clock) /\ due > now /\ DueError(due) = None
        <4>1. SettlementEnd(t) # OffClock
          BY <1>0, <1>2, <1>t DEF SnipingInv, SettlementsFit
        <4>2. due \in Positions(run.clock) /\ now < due
          BY <1>s, <2>1, <3>d, <4>1, SettlementOnClock
        <4>3. due \in Nat /\ due # OffClock
          BY <4>2 DEF Positions, OffClock
        <4> QED BY <1>0, <4>2, <4>3 DEF DueError
      <3>o. PICK o : o = Action(due, Decision, t, "SELL_DECISION")
        OBVIOUS
      <3>3. /\ FillBuy(t, paid, tokens) /\ Await(t, "OPEN_AT_HORIZON")
            /\ scheduled' = (scheduled \ {a}) \cup {o}
            /\ UNCHANGED <<run, now, stage, raised, until>>
        BY <1>t, <2>2, <2>4, <3>1, <3>2, <3>o DEF LandBuyFilled
      <3>4. /\ Decision \in {Decision, Landing} /\ run' = run
            /\ Decision = Landing <=> "SELL_DECISION" \in {"BUY_LANDING", "SELL_LANDING"}
        BY <3>3 DEF Decision, Landing
      <3>5. /\ o.trip = t /\ o.kind = "SELL_DECISION" /\ o.release = due /\ HeapTyped'
            /\ Orders' = Orders \ {a}
        BY <1>0, <1>s, <3>2, <3>o, <3>3, <3>4, HeapTakes, SMTT(40)
      <3>6. Books'
        BY <1>2, <1>4, <1>s, <1>t, <2>1, <3>3, <3>5, FillBuyKeepsBooks
      <3>7. /\ openMints' = [openMints EXCEPT ![run.mint[t]] = t]
            /\ trip'[t].tokens = tokens /\ tokens > 0
            /\ \A u \in Trips \ {t} : trip'[u] = trip[u]
        BY <1>s, <3>3, TripFields, AmountsAreNatural DEF FillBuy, BooksTyped
      <3>8. /\ openMints'[run.mint[t]] = t
            /\ \A u \in Trips \ {t} : openMints'[run.mint[u]] = openMints[run.mint[u]]
        BY <1>m, <1>s, <3>7, RunFacts DEF BooksTyped
      <3>9. AsExpected(o)'
        BY <3>d, <3>3, <3>5, <3>7, <3>8, RunStays DEF AsExpected, Holds
      <3>10. /\ status' = [status EXCEPT ![t] = "OPEN_AT_HORIZON"] /\ live' = live \cup {t}
             /\ status' \in [Trips -> SnipingStatuses] /\ status'[t] # "UNSEEN" /\ Acted(t)'
        BY <1>s, <3>3 DEF Await, SnipingStatuses, Acted
      <3>11. Continues(t, a, o)
        BY <3>3, <3>5, <3>10 DEF Continues
      <3>12. CooldownRuns' /\ CooldownHolds' /\ until' \in [Developers -> Nat]
        <4>1. \A u \in Trips : Acted(u)' => Acted(u)
          BY <1>2, <1>t, <1>s, <3>10 DEF Acted
        <4> QED BY <1>s, <3>3, <4>1, CooldownsStay
      <3>13. /\ (a \in scheduled /\ a.trip = t) \/ (a \notin scheduled /\ t \notin live)
             /\ \A u \in Trips \ {t} : /\ trip'[u] = trip[u] /\ status'[u] = status[u]
                                       /\ openMints'[run.mint[u]] = openMints[run.mint[u]]
             /\ o.release > now /\ InRange(t)
        BY <1>2, <1>t, <1>s, <3>2, <3>5, <3>7, <3>8, <3>10
      <3>14. UNCHANGED <<run, now, stage, raised>>
        BY <3>3
      <3> QED BY <1>0, <3>5, <3>6, <3>9, <3>10, <3>11, <3>12, <3>13, <3>14, TripContinues
    <2> QED BY <1>1, <1>4, <2>3, <2>4 DEF Land
  <1>5. CASE a.kind = "SELL_LANDING"
    <2>1. openMints[run.mint[t]] = t
      BY <1>2, <1>t, <1>5 DEF AsExpected, Holds
    <2>2. SellLandingError(t, FeeOnly(trip[t].fee)) = None /\ CloseError(t) = None
      BY <1>2, <1>t, <1>5, <1>s, <2>1, SellLands
    <2>3. CASE LandSellFailed(a)
      <3>1. /\ FailSell(t) /\ Conclude(t, "SELL_LANDED_FAILED_OPEN") /\ scheduled' = scheduled \ {a}
            /\ UNCHANGED <<run, now, stage, raised, until>>
        BY <1>t, <2>2, <2>3 DEF LandSellFailed
      <3>2. Books'
        BY <1>2, <1>3, <1>5, <1>s, <1>t, <3>1, FailSellKeepsBooks
      <3>3. openMints' = openMints /\ \A u \in Trips \ {t} : trip'[u] = trip[u]
        BY <1>s, <3>1 DEF FailSell, BooksTyped
      <3> QED BY <1>0, <1>t, <3>1, <3>2, <3>3, LandingConcludes DEF SnipingStatuses
    <2>4. ASSUME NEW proceeds \in Proceeds, LandSellFilled(a, proceeds)
          PROVE  SnipingInv'
      <3>1. /\ FillSell(t, proceeds) /\ Conclude(t, "CLOSED") /\ scheduled' = scheduled \ {a}
            /\ UNCHANGED <<run, now, stage, raised, until>>
        BY <1>t, <2>2, <2>4 DEF LandSellFilled
      <3>2. Books'
        BY <1>2, <1>3, <1>5, <1>s, <1>t, <2>1, <3>1, FillSellKeepsBooks
      <3>3. /\ openMints' = [openMints EXCEPT ![run.mint[t]] = None]
            /\ \A u \in Trips \ {t} : trip'[u] = trip[u]
        BY <1>s, <3>1 DEF FillSell, BooksTyped
      <3>4. \A u \in Trips \ {t} : openMints'[run.mint[u]] = openMints[run.mint[u]]
        BY <1>m, <1>s, <3>3, RunFacts DEF BooksTyped
      <3> QED BY <1>0, <1>t, <3>1, <3>2, <3>3, <3>4, LandingConcludes DEF SnipingStatuses
    <2> QED BY <1>1, <1>5, <2>3, <2>4 DEF Land
  <1> QED BY <1>2, <1>4, <1>5

\* A run of the sniping engine begins in the invariant.
LEMMA SnipingBegins ==
    ASSUME SnipingInit, run.engine = "sniping"
    PROVE  SnipingInv
  <1>1. Books /\ scheduled = {} /\ now = -1 /\ stage = "preflight" /\ raised = None /\ live = {}
        /\ run \in Runs /\ openMints = [m \in Mints |-> None] /\ trip = [t \in Trips |-> NewTrip]
    BY BooksBegin DEF SnipingInit, SharedInit
  <1>2. /\ \A t \in Trips : status[t] = "UNSEEN" /\ run.launch[t] \in Nat /\ run.mint[t] \in Mints
        /\ status \in [Trips -> SnipingStatuses] /\ until \in [Developers -> Nat]
    BY <1>1, RunFacts DEF SnipingInit, SnipingStatuses, Positions
  <1>3. SnipingTyped
    BY <1>1, <1>2, FS_EmptySet DEF SnipingTyped, HeapTyped, AtBoundary
  <1>4. SettlementsFit /\ OneActionEach
    BY <1>1 DEF SettlementsFit, OneActionEach
  <1>5. SnipingOnTime
    <2>1. \A t \in Trips : run.launch[t] >= now /\ run.launch[t] > now
      BY <1>1, <1>2
    <2> QED BY <1>1, <2>1 DEF SnipingOnTime
  <1>6. UnseenIsUntouched
    BY <1>1, <1>2 DEF UnseenIsUntouched, Untouched, NewTrip
  <1>7. CooldownRuns /\ CooldownHolds
    BY <1>2, CooldownMeans DEF CooldownRuns, Acted
  <1> QED BY <1>1, <1>3, <1>4, <1>5, <1>6, <1>7 DEF SnipingInv

\* Every step of the sniping engine keeps the invariant.
LEMMA SnipingKeeps == SnipingInv /\ SnipingNext => SnipingInv'
  BY PreflightKeeps, SelectBoundaryKeeps, FinishRunKeeps, DecideSellKeeps, LaunchKeeps,
     LandDueKeeps, PhasesEnd DEF SnipingNext

\* Actions of a trip that are all the same one are at most one.
LEMMA OneOrderCounts ==
    ASSUME OneOrderEach, NEW t
    PROVE  Cardinality({a \in Orders : a.trip = t}) <= 1
  <1>1. CASE \E a \in Orders : a.trip = t
    <2>1. PICK a \in Orders : a.trip = t
      BY <1>1
    <2>2. {b \in Orders : b.trip = t} = {a}
      BY <2>1 DEF OneOrderEach
    <2>3. Cardinality({a}) = 1
      BY FS_Singleton
    <2> QED BY <2>2, <2>3
  <1>2. CASE ~ \E a \in Orders : a.trip = t
    <2>1. {b \in Orders : b.trip = t} = {}
      BY <1>2
    <2>2. Cardinality({}) = 0
      BY FS_EmptySet
    <2> QED BY <2>1, <2>2
  <1> QED BY <1>1, <1>2

\* The properties of the model for a run of the sniping engine.
LEMMA SnipingPromises ==
    ASSUME SnipingInv
    PROVE  SettlementTypeOK /\ EveryTripPursued
  <1>1. SettlementTypeOK
    BY DEF SnipingInv, SnipingTyped, HeapTyped, Books, BooksTyped, SettlementTypeOK
  <1>2. ASSUME NEW t \in Trips
        PROVE  /\ Cardinality({a \in Orders : a.trip = t}) <= 1
               /\ t \notin live => {a \in Orders : a.trip = t} = {}
               /\ stage = "select" /\ t \in live =>
                    \E a \in scheduled : a.trip = t /\ a.release > now
    <2>1. t \in live <=> \E a \in scheduled : a.trip = t
      BY DEF SnipingInv, OneActionEach
    <2>2. t \notin live => {a \in Orders : a.trip = t} = {}
      BY <2>1 DEF Orders
    <2>3. stage = "select" => \A a \in scheduled : a.release > now
      BY DEF SnipingInv, SnipingOnTime, AtBoundary
    <2> QED BY <2>1, <2>2, <2>3, OneOrderCounts DEF SnipingInv, Books
  <1>3. stage = "done" => live = {}
    <2>1. stage = "done" => scheduled = {}
      BY DEF SnipingInv, SnipingOnTime
    <2> QED BY <2>1 DEF SnipingInv, SnipingTyped, OneActionEach
  <1> QED BY <1>1, <1>2, <1>3 DEF EveryTripPursued
===============================================================================
