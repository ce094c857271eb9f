------------------------- MODULE EngineParityProofs -------------------------
(* Theorems about the two canonical engines, for every value of the          *)
(* constants: they find the same release boundaries, stay in step, and end   *)
(* alike.                                                                    *)
EXTENDS EngineParity, TLAPS, SequenceTheorems, FiniteSetTheorems, WellFoundedInduction

-----------------------------------------------------------------------------
(* Induction over data, for sets instead of predicates.                      *)

\* A set of naturals that is not empty has a least element.
LEMMA LeastNat ==
    ASSUME NEW T \in SUBSET Nat, T # {}
    PROVE  \E n \in T : \A m \in T : n <= m
  <1>1. PICK n \in T : \A m \in T : ~(<<m, n>> \in OpToRel(<, Nat))
    BY NatLessThanWellFounded, WFMin, Zenon
  <1>2. ASSUME NEW m \in T PROVE n <= m
    <2>1. n \in Nat /\ m \in Nat
      OBVIOUS
    <2>2. ~(m < n)
      BY <1>1, <2>1 DEF OpToRel
    <2> QED BY <2>1, <2>2
  <1> QED BY <1>2

\* Induction over the naturals, for a set instead of a predicate.
LEMMA NatSetInduction ==
    ASSUME NEW P \in SUBSET Nat, 0 \in P, \A n \in P : n + 1 \in P
    PROVE  P = Nat
  <1> SUFFICES ASSUME Nat \ P # {} PROVE FALSE
    OBVIOUS
  <1>1. PICK n \in Nat \ P : \A m \in Nat \ P : n <= m
    BY LeastNat
  <1>2. n # 0 /\ n - 1 \in Nat
    BY <1>1
  <1>3. n - 1 \in P
    BY <1>1, <1>2
  <1>4. (n - 1) + 1 \in P
    BY <1>3
  <1> QED BY <1>2, <1>4

-----------------------------------------------------------------------------
(* Streams: sequences of anything.                                           *)

Stream(s) == \E S : s \in Seq(S)

\* Two streams have a common set of entries.
LEMMA StreamsMeet ==
    ASSUME NEW s, NEW t, Stream(s), Stream(t)
    PROVE  \E S : s \in Seq(S) /\ t \in Seq(S)
  <1>1. PICK S : s \in Seq(S)
    BY DEF Stream
  <1>2. PICK T : t \in Seq(T)
    BY DEF Stream
  <1>3. s \in Seq(S \cup T) /\ t \in Seq(S \cup T)
    BY <1>1, <1>2, SeqMonotonic
  <1> QED BY <1>3

\* What a stream is.
LEMMA StreamShape ==
    ASSUME NEW s, Stream(s)
    PROVE  /\ Len(s) \in Nat
           /\ DOMAIN s = 1 .. Len(s)
           /\ s = [k \in 1 .. Len(s) |-> s[k]]
  BY LenProperties DEF Stream

\* A function on an initial interval is a stream.
LEMMA FunctionsAreStreams ==
    ASSUME NEW n \in Nat, NEW f, f = [k \in 1 .. n |-> f[k]]
    PROVE  Stream(f) /\ Len(f) = n
  <1>1. f \in [1 .. n -> {f[k] : k \in 1 .. n}]
    BY Zenon
  <1>2. f \in Seq({f[k] : k \in 1 .. n})
    BY <1>1, SeqDef
  <1>3. Len(f) = n
    BY <1>1, <1>2
  <1> QED BY <1>2, <1>3 DEF Stream

\* Streams that agree everywhere are the same.
LEMMA StreamsEqual ==
    ASSUME NEW s, NEW t, Stream(s), Stream(t), Len(s) = Len(t),
           \A k \in 1 .. Len(s) : s[k] = t[k]
    PROVE  s = t
  <1>1. PICK S : s \in Seq(S) /\ t \in Seq(S)
    BY StreamsMeet
  <1> QED BY <1>1, SeqEqual

\* The concatenation of streams.
LEMMA StreamConcat ==
    ASSUME NEW s, NEW t, Stream(s), Stream(t)
    PROVE  /\ Stream(s \o t)
           /\ Len(s \o t) = Len(s) + Len(t)
           /\ \A k \in 1 .. Len(s) + Len(t) :
                (s \o t)[k] = IF k <= Len(s) THEN s[k] ELSE t[k - Len(s)]
  <1>1. PICK S : s \in Seq(S) /\ t \in Seq(S)
    BY StreamsMeet
  <1> QED BY <1>1, ConcatProperties DEF Stream

\* The empty stream is neutral.
LEMMA StreamNeutral ==
    ASSUME NEW s, Stream(s) PROVE s \o <<>> = s /\ <<>> \o s = s
  BY ConcatEmptySeq DEF Stream

\* Concatenation is associative.
LEMMA StreamAssociative ==
    ASSUME NEW s, NEW t, NEW u, Stream(s), Stream(t), Stream(u)
    PROVE  (s \o t) \o u = s \o (t \o u)
  <1>1. PICK S : s \in Seq(S) /\ t \in Seq(S)
    BY StreamsMeet
  <1>2. PICK T : u \in Seq(T)
    BY DEF Stream
  <1>3. s \in Seq(S \cup T) /\ t \in Seq(S \cup T) /\ u \in Seq(S \cup T)
    BY <1>1, <1>2, SeqMonotonic
  <1> QED BY <1>3, ConcatAssociative

\* Streams of no entry and of one, and one entry more.
LEMMA StreamAppend ==
    ASSUME NEW s, NEW e, Stream(s)
    PROVE  /\ Stream(<<>>) /\ Stream(<<e>>)
           /\ Append(s, e) = s \o <<e>>
           /\ Stream(Append(s, e))
           /\ Len(Append(s, e)) = Len(s) + 1
           /\ \A k \in 1 .. Len(s) : Append(s, e)[k] = s[k]
           /\ Append(s, e)[Len(s) + 1] = e
  <1>1. PICK S : s \in Seq(S)
    BY DEF Stream
  <1>2. s \in Seq(S \cup {e})
    BY <1>1, SeqMonotonic
  <1>3. <<>> \in Seq(S) /\ <<e>> \in Seq({e})
    OBVIOUS
  <1> QED BY <1>2, <1>3, AppendProperties, AppendIsConcat DEF Stream

\* A stream that is not empty is one with an entry appended.
LEMMA StreamEndsIn ==
    ASSUME NEW s, Stream(s), Len(s) # 0
    PROVE  \E t, e : Stream(t) /\ s = Append(t, e) /\ Len(s) = Len(t) + 1
  <1>1. PICK S : s \in Seq(S)
    BY DEF Stream
  <1>2. s # <<>>
    OBVIOUS
  <1>3. PICK t \in Seq(S), e \in S : s = Append(t, e)
    BY <1>1, <1>2, SequenceEmptyOrAppend
  <1>4. Stream(t)
    BY <1>3 DEF Stream
  <1> QED BY <1>3, <1>4, StreamAppend

\* A stream of no entries is the empty one.
LEMMA StreamOfNothing ==
    ASSUME NEW s, Stream(s), Len(s) = 0 PROVE s = <<>>
  <1>1. PICK S : s \in Seq(S)
    BY DEF Stream
  <1> QED BY <1>1

-----------------------------------------------------------------------------
(* The parts of a stream.                                                    *)

PartFrom(stream, kind, part, k) ==
    IF k = 0 THEN <<>>
    ELSE IF Kind(stream[k]) = kind THEN Append(part[k - 1], stream[k]) ELSE part[k - 1]

Parts(stream, kind, n, part) == part = [k \in 0 .. n |-> PartFrom(stream, kind, part, k)]

\* The recursive function in Part exists.
LEMMA PartsExist ==
    ASSUME NEW stream, NEW kind, NEW n \in Nat
    PROVE  \E part : Parts(stream, kind, n, part)
  <1> DEFINE P == {m \in Nat : \E part : Parts(stream, kind, m, part)}
  <1>1. 0 \in P
    <2>1. PICK part : part = [k \in 0 .. 0 |-> <<>>]
      OBVIOUS
    <2>2. part = [k \in 0 .. 0 |-> PartFrom(stream, kind, part, k)]
      BY <2>1 DEF PartFrom
    <2> QED BY <2>2 DEF Parts
  <1>2. ASSUME NEW m \in P PROVE m + 1 \in P
    <2>1. PICK f : f = [k \in 0 .. m |-> PartFrom(stream, kind, f, k)]
      BY DEF Parts
    <2> DEFINE g == [k \in 0 .. m + 1 |-> IF k <= m THEN f[k] ELSE PartFrom(stream, kind, f, m + 1)]
    <2>2. ASSUME NEW k \in 0 .. m + 1 PROVE g[k] = PartFrom(stream, kind, g, k)
      <3>1. k # 0 => k - 1 \in 0 .. m /\ g[k - 1] = f[k - 1]
        OBVIOUS
      <3>2. PartFrom(stream, kind, g, k) = PartFrom(stream, kind, f, k)
        <4> HIDE DEF g
        <4> QED BY <3>1, Zenon DEF PartFrom
      <3>3. CASE k <= m
        <4>1. k \in 0 .. m /\ g[k] = f[k]
          BY <3>3
        <4>2. f[k] = PartFrom(stream, kind, f, k)
          BY <4>1, <2>1, Zenon
        <4> QED BY <3>2, <4>1, <4>2
      <3>4. CASE ~(k <= m)
        <4>1. k = m + 1
          BY <3>4
        <4> QED BY <3>2, <4>1
      <3> QED BY <3>3, <3>4
    <2>3. g = [k \in 0 .. m + 1 |-> PartFrom(stream, kind, g, k)]
      BY <2>2, Zenon
    <2> HIDE DEF g
    <2> QED BY <2>3, m + 1 \in Nat DEF Parts
  <1> HIDE DEF P
  <1>3. P = Nat
    BY <1>1, <1>2, NatSetInduction DEF P
  <1> QED BY <1>3 DEF P

\* What it yields of each prefix is determined by the prefix.
LEMMA PartsAgree ==
    ASSUME NEW s, NEW t, NEW kind, NEW m \in Nat, NEW n \in Nat, m <= n,
           \A k \in 1 .. m : s[k] = t[k],
           NEW f, Parts(s, kind, m, f), NEW g, Parts(t, kind, n, g)
    PROVE  \A k \in 0 .. m : f[k] = g[k]
  <1> DEFINE P == {k \in Nat : k <= m => f[k] = g[k]}
  <1>0. /\ \A k \in 0 .. m : f[k] = PartFrom(s, kind, f, k)
        /\ \A k \in 0 .. n : g[k] = PartFrom(t, kind, g, k)
    BY Zenon DEF Parts
  <1>1. 0 \in P
    BY <1>0 DEF PartFrom
  <1>2. ASSUME NEW k \in P PROVE k + 1 \in P
    <2> SUFFICES ASSUME k + 1 <= m PROVE f[k + 1] = g[k + 1]
      OBVIOUS
    <2>1. f[k] = g[k] /\ k + 1 \in 0 .. m /\ k + 1 \in 0 .. n /\ s[k + 1] = t[k + 1]
          /\ k + 1 # 0 /\ (k + 1) - 1 = k
      OBVIOUS
    <2>2. /\ f[k + 1] = PartFrom(s, kind, f, k + 1)
          /\ g[k + 1] = PartFrom(t, kind, g, k + 1)
      BY <1>0, <2>1
    <2> QED BY <2>1, <2>2 DEF PartFrom
  <1>3. P = Nat
    <2> HIDE DEF P
    <2> QED BY <1>1, <1>2, NatSetInduction DEF P
  <1> QED BY <1>3

\* Part is the last of them.
LEMMA PartIs ==
    ASSUME NEW stream, NEW kind, Len(stream) \in Nat
    PROVE  \E part : Parts(stream, kind, Len(stream), part)
                     /\ Part(stream, kind) = part[Len(stream)]
  <1> DEFINE part == CHOOSE part : Parts(stream, kind, Len(stream), part)
  <1>1. Parts(stream, kind, Len(stream), part)
    BY PartsExist
  <1>2. Part(stream, kind) = part[Len(stream)]
    BY Zenon DEF Part, Parts, PartFrom
  <1> QED BY <1>1, <1>2

\* The part of a stream with one entry more.
LEMMA PartAppend ==
    ASSUME NEW s, Stream(s), NEW e, NEW kind
    PROVE  Part(Append(s, e), kind)
             = IF Kind(e) = kind THEN Append(Part(s, kind), e) ELSE Part(s, kind)
  <1> DEFINE t == Append(s, e)  n == Len(s)
  <1>1. /\ n \in Nat /\ Len(t) = n + 1 /\ t[n + 1] = e
        /\ \A k \in 1 .. n : s[k] = t[k]
    BY StreamAppend, StreamShape
  <1>0. n <= n + 1 /\ n + 1 \in Nat /\ n \in 0 .. n /\ n + 1 \in 0 .. n + 1
    BY <1>1
  <1> HIDE DEF t, n
  <1>2. PICK f : Parts(s, kind, n, f) /\ Part(s, kind) = f[n]
    BY <1>1, PartIs DEF n
  <1>3. PICK g : Parts(t, kind, n + 1, g) /\ Part(t, kind) = g[n + 1]
    BY <1>0, <1>1, PartIs
  <1>4. f[n] = g[n]
    <2>1. \A k \in 0 .. n : f[k] = g[k]
      BY <1>0, <1>1, <1>2, <1>3, PartsAgree
    <2> QED BY <1>0, <2>1
  <1>5. g[n + 1] = PartFrom(t, kind, g, n + 1)
    BY <1>0, <1>3, Zenon DEF Parts
  <1>6. g[n + 1] = IF Kind(e) = kind THEN Append(g[n], e) ELSE g[n]
    <2>1. n + 1 # 0 /\ (n + 1) - 1 = n
      BY <1>1
    <2> QED BY <1>1, <1>5, <2>1 DEF PartFrom
  <1> QED BY <1>2, <1>3, <1>4, <1>6 DEF t

\* The part of the empty stream.
LEMMA PartOfNothing == ASSUME NEW kind PROVE Part(<<>>, kind) = <<>>
  <1>1. Len(<<>>) = 0
    OBVIOUS
  <1>2. PICK f : Parts(<<>>, kind, 0, f) /\ Part(<<>>, kind) = f[0]
    BY <1>1, PartIs
  <1>3. f[0] = PartFrom(<<>>, kind, f, 0)
    <2>1. 0 \in 0 .. 0
      OBVIOUS
    <2> QED BY <1>2, <2>1, Zenon DEF Parts
  <1> QED BY <1>2, <1>3 DEF PartFrom

\* A part of a stream is a stream.
LEMMA PartIsStream ==
    ASSUME NEW s, Stream(s), NEW kind PROVE Stream(Part(s, kind))
  <1> DEFINE P == {n \in Nat : \A t : Stream(t) /\ Len(t) = n => Stream(Part(t, kind))}
  <1>1. 0 \in P
    BY StreamOfNothing, PartOfNothing, StreamAppend
  <1>2. ASSUME NEW n \in P PROVE n + 1 \in P
    <2> SUFFICES ASSUME NEW t, Stream(t), Len(t) = n + 1 PROVE Stream(Part(t, kind))
      OBVIOUS
    <2>1. PICK u, e : Stream(u) /\ t = Append(u, e) /\ Len(t) = Len(u) + 1
      BY StreamEndsIn
    <2>2. Len(u) = n
      BY <2>1, StreamShape
    <2>3. Stream(Part(u, kind))
      BY <2>1, <2>2
    <2>4. Part(t, kind) = IF Kind(e) = kind THEN Append(Part(u, kind), e) ELSE Part(u, kind)
      BY <2>1, PartAppend
    <2>5. Stream(Append(Part(u, kind), e))
      BY <2>3, StreamAppend
    <2> QED BY <2>3, <2>4, <2>5
  <1>3. P = Nat
    <2> HIDE DEF P
    <2> QED BY <1>1, <1>2, NatSetInduction DEF P
  <1> QED BY <1>3, StreamShape

\* The part of a concatenation.
LEMMA PartConcat ==
    ASSUME NEW s, NEW t, Stream(s), Stream(t), NEW kind
    PROVE  Part(s \o t, kind) = Part(s, kind) \o Part(t, kind)
  <1> DEFINE P == {n \in Nat : \A u : Stream(u) /\ Len(u) = n =>
                     Part(s \o u, kind) = Part(s, kind) \o Part(u, kind)}
  <1>0. Stream(Part(s, kind))
    BY PartIsStream
  <1>1. 0 \in P
    <2> SUFFICES ASSUME NEW u, Stream(u), Len(u) = 0
                 PROVE  Part(s \o u, kind) = Part(s, kind) \o Part(u, kind)
      OBVIOUS
    <2>1. u = <<>> /\ Part(u, kind) = <<>>
      BY StreamOfNothing, PartOfNothing
    <2>2. s \o <<>> = s
      BY StreamNeutral
    <2>3. Part(s, kind) \o <<>> = Part(s, kind)
      BY <1>0, StreamNeutral
    <2> QED BY <2>1, <2>2, <2>3
  <1>2. ASSUME NEW n \in P PROVE n + 1 \in P
    <2> SUFFICES ASSUME NEW v, Stream(v), Len(v) = n + 1
                 PROVE  Part(s \o v, kind) = Part(s, kind) \o Part(v, kind)
      OBVIOUS
    <2>1. PICK u, e : Stream(u) /\ v = Append(u, e) /\ Len(v) = Len(u) + 1
      BY StreamEndsIn
    <2>2. Len(u) = n
      BY <2>1, StreamShape
    <2>3. Part(s \o u, kind) = Part(s, kind) \o Part(u, kind)
      BY <2>1, <2>2
    <2>4. Stream(s \o u) /\ Stream(Part(u, kind)) /\ Stream(<<e>>)
      BY <2>1, StreamConcat, PartIsStream, StreamAppend
    <2>5. s \o v = Append(s \o u, e)
      <3>1. s \o v = s \o (u \o <<e>>)
        BY <2>1, StreamAppend
      <3>2. s \o (u \o <<e>>) = (s \o u) \o <<e>>
        BY <2>1, <2>4, StreamAssociative, SMTT(60)
      <3> QED BY <3>1, <3>2, <2>4, StreamAppend
    <2>6. Append(Part(s, kind) \o Part(u, kind), e) = Part(s, kind) \o Append(Part(u, kind), e)
      <3>1. (Part(s, kind) \o Part(u, kind)) \o <<e>> = Part(s, kind) \o (Part(u, kind) \o <<e>>)
        <4> DEFINE a == Part(s, kind)  b == Part(u, kind)  c == <<e>>
        <4>1. Stream(a) /\ Stream(b) /\ Stream(c)
          BY <1>0, <2>4
        <4> HIDE DEF a, b, c
        <4>2. (a \o b) \o c = a \o (b \o c)
          BY <4>1, StreamAssociative, SMTT(60)
        <4> QED BY <4>2 DEF a, b, c
      <3>2. Stream(Part(s, kind) \o Part(u, kind))
        BY <1>0, <2>4, StreamConcat
      <3>3. Append(Part(s, kind) \o Part(u, kind), e) = (Part(s, kind) \o Part(u, kind)) \o <<e>>
        BY <3>2, StreamAppend
      <3>4. Append(Part(u, kind), e) = Part(u, kind) \o <<e>>
        BY <2>4, StreamAppend
      <3> QED BY <3>1, <3>3, <3>4
    <2>7. Part(s \o v, kind) = IF Kind(e) = kind THEN Append(Part(s \o u, kind), e) ELSE Part(s \o u, kind)
      BY <2>4, <2>5, PartAppend
    <2>8. Part(v, kind) = IF Kind(e) = kind THEN Append(Part(u, kind), e) ELSE Part(u, kind)
      BY <2>1, PartAppend
    <2> QED BY <2>3, <2>6, <2>7, <2>8
  <1>3. P = Nat
    <2> HIDE DEF P
    <2> QED BY <1>1, <1>2, NatSetInduction DEF P
  <1> QED BY <1>3, StreamShape

\* A stream of one kind is its own part of that kind, and has none of another.
LEMMA PartOfOneKind ==
    ASSUME NEW s, Stream(s), NEW its, \A k \in 1 .. Len(s) : Kind(s[k]) = its, NEW kind
    PROVE  Part(s, kind) = IF kind = its THEN s ELSE <<>>
  <1> DEFINE Whole(t) == IF kind = its THEN t ELSE <<>>
  <1> DEFINE P == {n \in Nat : \A t :
                     Stream(t) /\ Len(t) = n /\ (\A k \in 1 .. n : Kind(t[k]) = its)
                       => Part(t, kind) = Whole(t)}
  <1>1. 0 \in P
    BY StreamOfNothing, PartOfNothing
  <1>2. ASSUME NEW n \in P PROVE n + 1 \in P
    <2> SUFFICES ASSUME NEW t, Stream(t), Len(t) = n + 1, \A k \in 1 .. n + 1 : Kind(t[k]) = its
                 PROVE  Part(t, kind) = Whole(t)
      OBVIOUS
    <2>1. PICK u, e : Stream(u) /\ t = Append(u, e) /\ Len(t) = Len(u) + 1
      BY StreamEndsIn
    <2>2. Len(u) = n
      BY <2>1, StreamShape
    <2>3. t[n + 1] = e /\ \A k \in 1 .. n : t[k] = u[k]
      BY <2>1, <2>2, StreamAppend
    <2>4. Kind(e) = its /\ \A k \in 1 .. n : Kind(u[k]) = its
      BY <2>3
    <2>5. Part(u, kind) = Whole(u)
      BY <2>1, <2>2, <2>4
    <2> QED BY <2>1, <2>4, <2>5, PartAppend
  <1>3. P = Nat
    <2> HIDE DEF P
    <2> QED BY <1>1, <1>2, NatSetInduction DEF P
  <1> QED BY <1>3, StreamShape

-----------------------------------------------------------------------------
(* Streams that differ only in the names of orders.                          *)

Blank(record) == IF record.type \in OrderRecords THEN [record EXCEPT !.item = None] ELSE record

SameLog(s, t) == Stream(s) /\ Stream(t) /\ Anonymous(s) = Anonymous(t)

\* An initial interval has one length.
LEMMA IntervalLength ==
    ASSUME NEW p \in Nat, NEW q \in Nat, 1 .. p = 1 .. q PROVE p = q
  <1>1. ASSUME NEW m \in Nat, NEW n \in Nat, 1 .. m = 1 .. n, m < n PROVE FALSE
    <2>1. n \in 1 .. n /\ n \notin 1 .. m
      BY <1>1
    <2> QED BY <1>1, <2>1
  <1> QED BY <1>1

\* They are so when they are entry by entry.
LEMMA SameLogEntries ==
    ASSUME NEW s, NEW t, Stream(s), Stream(t)
    PROVE  Anonymous(s) = Anonymous(t)
             <=> Len(s) = Len(t) /\ \A k \in 1 .. Len(s) : Blank(s[k]) = Blank(t[k])
  <1>1. /\ Len(s) \in Nat /\ DOMAIN s = 1 .. Len(s)
        /\ Len(t) \in Nat /\ DOMAIN t = 1 .. Len(t)
    BY StreamShape
  <1>2. /\ Anonymous(s) = [k \in 1 .. Len(s) |-> Blank(s[k])]
        /\ Anonymous(t) = [k \in 1 .. Len(t) |-> Blank(t[k])]
    BY <1>1, Zenon DEF Anonymous, Blank
  <1>3. ASSUME Anonymous(s) = Anonymous(t) PROVE Len(s) = Len(t)
    <2>1. 1 .. Len(s) = 1 .. Len(t)
      BY <1>2, <1>3, Zenon
    <2> QED BY <1>1, <2>1, IntervalLength, Zenon
  <1>4. ASSUME Anonymous(s) = Anonymous(t), NEW k \in 1 .. Len(s) PROVE Blank(s[k]) = Blank(t[k])
    BY <1>2, <1>3, <1>4, Zenon
  <1>5. ASSUME Len(s) = Len(t), \A k \in 1 .. Len(s) : Blank(s[k]) = Blank(t[k])
        PROVE  Anonymous(s) = Anonymous(t)
    BY <1>2, <1>5, Zenon
  <1> QED BY <1>3, <1>4, <1>5

\* A concatenation of such streams is one.
LEMMA SameLogConcat ==
    ASSUME NEW s, NEW t, NEW u, NEW v, SameLog(s, t), SameLog(u, v)
    PROVE  SameLog(s \o u, t \o v)
  <1>1. /\ Stream(s) /\ Stream(t) /\ Stream(u) /\ Stream(v)
        /\ Len(s) \in Nat /\ Len(u) \in Nat
    BY StreamShape DEF SameLog
  <1>2. Len(s) = Len(t) /\ \A k \in 1 .. Len(s) : Blank(s[k]) = Blank(t[k])
    BY <1>1, SameLogEntries DEF SameLog
  <1>3. Len(u) = Len(v) /\ \A k \in 1 .. Len(u) : Blank(u[k]) = Blank(v[k])
    BY <1>1, SameLogEntries DEF SameLog
  <1>4. /\ Stream(s \o u) /\ Len(s \o u) = Len(s) + Len(u)
        /\ \A k \in 1 .. Len(s) + Len(u) :
              (s \o u)[k] = IF k <= Len(s) THEN s[k] ELSE u[k - Len(s)]
    BY <1>1, StreamConcat
  <1>5. /\ Stream(t \o v) /\ Len(t \o v) = Len(s) + Len(u)
        /\ \A k \in 1 .. Len(s) + Len(u) :
              (t \o v)[k] = IF k <= Len(s) THEN t[k] ELSE v[k - Len(s)]
    BY <1>1, <1>2, <1>3, StreamConcat
  <1>6. ASSUME NEW k \in 1 .. Len(s) + Len(u) PROVE Blank((s \o u)[k]) = Blank((t \o v)[k])
    <2>1. CASE k <= Len(s)
      <3>1. k \in 1 .. Len(s)
        BY <1>1, <2>1
      <3> QED BY <1>2, <1>4, <1>5, <2>1, <3>1
    <2>2. CASE ~(k <= Len(s))
      <3>1. k - Len(s) \in 1 .. Len(u)
        BY <1>1, <2>2
      <3> QED BY <1>3, <1>4, <1>5, <2>2, <3>1
    <2> QED BY <2>1, <2>2
  <1>7. Anonymous(s \o u) = Anonymous(t \o v)
    BY <1>4, <1>5, <1>6, SameLogEntries
  <1> QED BY <1>4, <1>5, <1>7 DEF SameLog

\* Such streams of one entry.
LEMMA SameLogSingle ==
    ASSUME NEW e, NEW f, Blank(e) = Blank(f) PROVE SameLog(<<e>>, <<f>>)
  <1>1. Stream(<<e>>) /\ Stream(<<f>>)
    BY StreamAppend, StreamOfNothing, FunctionsAreStreams DEF Stream
  <1>2. Len(<<e>>) = 1 /\ Len(<<f>>) = 1 /\ <<e>>[1] = e /\ <<f>>[1] = f
    OBVIOUS
  <1>3. \A k \in 1 .. 1 : k = 1
    OBVIOUS
  <1>4. \A k \in 1 .. Len(<<e>>) : Blank(<<e>>[k]) = Blank(<<f>>[k])
    BY <1>2, <1>3
  <1>5. Anonymous(<<e>>) = Anonymous(<<f>>)
    BY <1>1, <1>2, <1>4, SameLogEntries
  <1> QED BY <1>1, <1>5 DEF SameLog

\* Such streams with such an entry appended.
LEMMA SameLogAppend ==
    ASSUME NEW s, NEW t, NEW e, NEW f, SameLog(s, t), Blank(e) = Blank(f)
    PROVE  SameLog(Append(s, e), Append(t, f))
  <1>1. Stream(s) /\ Stream(t)
    BY DEF SameLog
  <1>2. Append(s, e) = s \o <<e>> /\ Append(t, f) = t \o <<f>>
    BY <1>1, StreamAppend
  <1>3. SameLog(<<e>>, <<f>>)
    BY SameLogSingle
  <1> QED BY <1>2, <1>3, SameLogConcat

\* The two parts of a concatenation.
LEMMA PartsConcat ==
    ASSUME NEW s, NEW t, Stream(s), Stream(t)
    PROVE  /\ Deliveries(s \o t) = Deliveries(s) \o Deliveries(t)
           /\ Others(s \o t) = Others(s) \o Others(t)
  BY PartConcat DEF Deliveries, Others

\* A stream of deliveries, and one without.
LEMMA PartsOfOneKind ==
    ASSUME NEW s, Stream(s)
    PROVE  /\ (\A k \in 1 .. Len(s) : Kind(s[k]) = "delivery")
                 => Deliveries(s) = s /\ Others(s) = <<>>
           /\ (\A k \in 1 .. Len(s) : Kind(s[k]) = "other")
                 => Others(s) = s /\ Deliveries(s) = <<>>
  BY PartOfOneKind DEF Deliveries, Others

-----------------------------------------------------------------------------
(* Streams with the same deliveries, and otherwise the same but for the      *)
(* names of orders.                                                          *)

SameAudit(s, t) ==
    /\ Stream(s) /\ Stream(t)
    /\ Deliveries(s) = Deliveries(t)
    /\ SameLog(Others(s), Others(t))

\* Every stream is such a copy of itself.
LEMMA SameAuditSelf == ASSUME NEW s, Stream(s) PROVE SameAudit(s, s)
  BY PartIsStream DEF SameAudit, SameLog, Others

\* A concatenation of such streams is one.
LEMMA SameAuditConcat ==
    ASSUME NEW s, NEW t, NEW u, NEW v, SameAudit(s, t), SameAudit(u, v)
    PROVE  SameAudit(s \o u, t \o v)
  <1>1. Stream(s) /\ Stream(t) /\ Stream(u) /\ Stream(v)
    BY DEF SameAudit
  <1>2. /\ Deliveries(s \o u) = Deliveries(s) \o Deliveries(u)
        /\ Others(s \o u) = Others(s) \o Others(u)
    BY <1>1, PartsConcat
  <1>3. /\ Deliveries(t \o v) = Deliveries(t) \o Deliveries(v)
        /\ Others(t \o v) = Others(t) \o Others(v)
    BY <1>1, PartsConcat
  <1>4. Stream(s \o u) /\ Stream(t \o v)
    BY <1>1, StreamConcat
  <1>5. SameLog(Others(s \o u), Others(t \o v))
    BY <1>2, <1>3, SameLogConcat DEF SameAudit
  <1> QED BY <1>2, <1>3, <1>4, <1>5 DEF SameAudit

\* Streams without deliveries.
LEMMA SameAuditOthers ==
    ASSUME NEW s, NEW t, SameLog(s, t),
           \A k \in 1 .. Len(s) : Kind(s[k]) = "other",
           \A k \in 1 .. Len(t) : Kind(t[k]) = "other"
    PROVE  SameAudit(s, t)
  <1>1. Stream(s) /\ Stream(t)
    BY DEF SameLog
  <1>2. /\ Others(s) = s /\ Deliveries(s) = <<>>
        /\ Others(t) = t /\ Deliveries(t) = <<>>
    BY <1>1, PartOfOneKind DEF Others, Deliveries
  <1> QED BY <1>1, <1>2 DEF SameAudit

\* One entry that is no delivery.
LEMMA SameAuditSingle ==
    ASSUME NEW e, NEW f, Blank(e) = Blank(f), Kind(e) = "other", Kind(f) = "other"
    PROVE  SameAudit(<<e>>, <<f>>)
  <1>1. SameLog(<<e>>, <<f>>)
    BY SameLogSingle
  <1>2. Len(<<e>>) = 1 /\ Len(<<f>>) = 1 /\ \A k \in 1 .. 1 : <<e>>[k] = e /\ <<f>>[k] = f
    OBVIOUS
  <1> QED BY <1>1, <1>2, SameAuditOthers

\* One such entry appended.
LEMMA SameAuditAppend ==
    ASSUME NEW s, NEW t, NEW e, NEW f, SameAudit(s, t),
           Blank(e) = Blank(f), Kind(e) = "other", Kind(f) = "other"
    PROVE  SameAudit(Append(s, e), Append(t, f))
  <1>1. Stream(s) /\ Stream(t)
    BY DEF SameAudit
  <1>2. Append(s, e) = s \o <<e>> /\ Append(t, f) = t \o <<f>>
    BY <1>1, StreamAppend
  <1>3. SameAudit(<<e>>, <<f>>)
    BY SameAuditSingle
  <1> QED BY <1>2, <1>3, SameAuditConcat

\* One entry appended to deliveries, or put among them.
LEMMA SameAuditAmong ==
    ASSUME NEW s, Stream(s), \A k \in 1 .. Len(s) : Kind(s[k]) = "delivery",
           NEW m \in 1 .. Len(s), NEW e, NEW f,
           Blank(e) = Blank(f), Kind(e) = "other", Kind(f) = "other"
    PROVE  SameAudit(s \o <<e>>, (SubSeq(s, 1, m) \o <<f>>) \o SubSeq(s, m + 1, Len(s)))
  <1> DEFINE n == Len(s)  a == SubSeq(s, 1, m)  b == SubSeq(s, m + 1, n)  c == <<e>>  d == <<f>>
  <1>1. PICK S : s \in Seq(S)
    BY DEF Stream
  <1>2. n \in Nat /\ m <= n /\ m \in Nat
    BY <1>1
  <1>3. /\ Stream(a) /\ Len(a) = m /\ \A k \in 1 .. m : a[k] = s[k]
        /\ Stream(b) /\ Len(b) = n - m /\ \A k \in 1 .. n - m : b[k] = s[m + k]
    <2>1. \A k \in 1 .. n : s[k] \in S
      BY <1>1
    <2>2. a \in Seq(S) /\ Len(a) = m /\ \A k \in 1 .. m : a[k] = s[k]
      BY <1>2, <2>1, SubSeqProperties
    <2>3. b \in Seq(S) /\ Len(b) = n - m /\ \A k \in 1 .. n - m : b[k] = s[m + k]
      BY <1>1, <1>2, <2>1
    <2> QED BY <2>2, <2>3 DEF Stream
  <1>4. a \o b = s
    <2>1. \A k \in 1 .. m + (n - m) : (a \o b)[k] = s[k]
      <3> SUFFICES ASSUME NEW k \in 1 .. m + (n - m) PROVE (a \o b)[k] = s[k]
        OBVIOUS
      <3> HIDE DEF a, b
      <3>1. (a \o b)[k] = IF k <= m THEN a[k] ELSE b[k - m]
        BY <1>3, StreamConcat
      <3>2. k > m => k - m \in 1 .. n - m /\ m + (k - m) = k
        BY <1>2
      <3> QED BY <1>2, <1>3, <3>1, <3>2
    <2>2. Stream(a \o b) /\ Len(a \o b) = m + (n - m)
      BY <1>3, StreamConcat
    <2> HIDE DEF a, b
    <2>3. Stream(s) /\ Len(a \o b) = Len(s) /\ \A k \in 1 .. Len(s) : (a \o b)[k] = s[k]
      BY <1>2, <2>1, <2>2
    <2> QED BY <2>2, <2>3, StreamsEqual
  <1>5. Stream(c) /\ Stream(d) /\ SameAudit(c, d)
    <2>1. SameAudit(<<e>>, <<f>>)
      BY SameAuditSingle
    <2> QED BY <2>1 DEF SameAudit
  <1>6. /\ Deliveries(a) = a /\ Others(a) = <<>>
        /\ Deliveries(b) = b /\ Others(b) = <<>>
        /\ Deliveries(s) = s /\ Others(s) = <<>>
    <2>1. \A k \in 1 .. Len(a) : Kind(a[k]) = "delivery"
      BY <1>2, <1>3
    <2>2. \A k \in 1 .. Len(b) : Kind(b[k]) = "delivery"
      <3> SUFFICES ASSUME NEW k \in 1 .. n - m PROVE Kind(b[k]) = "delivery"
        BY <1>3
      <3>1. m + k \in 1 .. n
        BY <1>2
      <3> QED BY <1>3, <3>1
    <2> HIDE DEF a, b
    <2>3. Deliveries(a) = a /\ Others(a) = <<>>
      BY <1>3, <2>1, PartsOfOneKind, Zenon
    <2>4. Deliveries(b) = b /\ Others(b) = <<>>
      BY <1>3, <2>2, PartsOfOneKind, Zenon
    <2>5. Deliveries(s) = s /\ Others(s) = <<>>
      BY PartOfOneKind DEF Deliveries, Others
    <2> QED BY <2>3, <2>4, <2>5
  <1>7. /\ Len(c) = 1 /\ Len(d) = 1
        /\ \A k \in 1 .. 1 : Kind(c[k]) = "other" /\ Kind(d[k]) = "other"
    OBVIOUS
  <1> HIDE DEF a, b, c, d, n
  <1>8. /\ Deliveries(c) = <<>> /\ Others(c) = c
        /\ Deliveries(d) = <<>> /\ Others(d) = d
    BY <1>5, <1>7, PartOfOneKind DEF Deliveries, Others
  <1>9. Stream(s \o c) /\ Stream(a \o d) /\ Stream((a \o d) \o b)
    BY <1>3, <1>5, StreamConcat
  <1>10. Deliveries(s \o c) = s /\ Others(s \o c) = c
    <2>0. /\ Deliveries(s \o c) = Deliveries(s) \o Deliveries(c)
          /\ Others(s \o c) = Others(s) \o Others(c)
      BY <1>3, <1>5, <1>9, PartsConcat
    <2>1. Deliveries(s \o c) = s \o <<>> /\ Others(s \o c) = <<>> \o c
      BY <2>0, <1>6, <1>8, Zenon
    <2> QED BY <1>5, <2>1, StreamNeutral, Zenon
  <1>11. Deliveries(a \o d) = a /\ Others(a \o d) = d
    <2>0. /\ Deliveries(a \o d) = Deliveries(a) \o Deliveries(d)
          /\ Others(a \o d) = Others(a) \o Others(d)
      BY <1>3, <1>5, <1>9, PartsConcat
    <2>1. Deliveries(a \o d) = a \o <<>> /\ Others(a \o d) = <<>> \o d
      BY <2>0, <1>6, <1>8, Zenon
    <2> QED BY <1>3, <1>5, <2>1, StreamNeutral, Zenon
  <1>12. Deliveries((a \o d) \o b) = s /\ Others((a \o d) \o b) = d
    <2>0. /\ Deliveries((a \o d) \o b) = Deliveries((a \o d)) \o Deliveries(b)
          /\ Others((a \o d) \o b) = Others((a \o d)) \o Others(b)
      BY <1>3, <1>5, <1>9, PartsConcat
    <2>1. Deliveries((a \o d) \o b) = a \o b /\ Others((a \o d) \o b) = d \o <<>>
      BY <2>0, <1>6, <1>11, Zenon
    <2> QED BY <1>4, <1>5, <2>1, StreamNeutral, Zenon
  <1>13. SameLog(c, d)
    BY <1>5, <1>8 DEF SameAudit
  <1>14. SameAudit(s \o c, (a \o d) \o b)
    BY <1>9, <1>10, <1>12, <1>13 DEF SameAudit
  <1> QED BY <1>14 DEF a, b, c, d, n

-----------------------------------------------------------------------------
(* What both instances take from FiniteSets is the same.                     *)

\* One Cardinality.
LEMMA Cardinalities ==
    /\ \A S : Reference!Cardinality(S) = Cardinality(S)
    /\ \A S : Optimized!Cardinality(S) = Cardinality(S)
  <1>1. ASSUME NEW S PROVE Reference!Cardinality(S) = Cardinality(S)
    BY Zenon DEF Cardinality, Reference!Cardinality
  <1>2. ASSUME NEW S PROVE Optimized!Cardinality(S) = Cardinality(S)
    BY Zenon DEF Cardinality, Optimized!Cardinality
  <1> QED BY <1>1, <1>2

-----------------------------------------------------------------------------
(* The inputs of a run and its release boundaries.                           *)

Size == Len(replay.blocks)

\* What ReplaysAreValid says of the replay in hand.
LEMMA ReplayShape ==
    ASSUME replay \in Replays
    PROVE  /\ Size \in Nat \ {0}
           /\ Reference!Boundaries = 1 .. Size /\ Optimized!Boundaries = 1 .. Size
           /\ \A b \in 1 .. Size :
                /\ replay.blocks[b] \in Nat
                /\ replay.groups[b] \in Seq(EventRow)
           /\ \A b, c \in 1 .. Size : b <= c => replay.blocks[b] <= replay.blocks[c]
           /\ replay.observationSlots \in Nat /\ replay.orderSlots \in Nat
  <1>1. /\ replay.blocks \in Seq(Nat) /\ replay.blocks # <<>>
        /\ \A b, c \in DOMAIN replay.blocks : b <= c => replay.blocks[b] <= replay.blocks[c]
        /\ \A b \in DOMAIN replay.blocks : replay.groups[b] \in Seq(EventRow)
        /\ replay.observationSlots \in Nat /\ replay.orderSlots \in Nat
    BY ReplaysAreValid
  <1>2. /\ Size \in Nat /\ DOMAIN replay.blocks = 1 .. Size
        /\ \A b \in 1 .. Size : replay.blocks[b] \in Nat
    BY <1>1, LenProperties DEF Size
  <1>3. Size # 0
    BY <1>1, StreamOfNothing DEF Size, Stream
  <1> QED BY <1>1, <1>2, <1>3 DEF Reference!Boundaries, Optimized!Boundaries

\* The first boundary from a candidate on whose block is late enough.
IsFirst(first, candidate, block) ==
    LET due == {b \in 1 .. Size : b >= candidate /\ replay.blocks[b] >= block}
    IN  IF due = {} THEN first = None ELSE first \in due /\ \A b \in due : first <= b

\* There is one such boundary.
LEMMA FirstIsUnique ==
    ASSUME replay \in Replays, NEW candidate, NEW block,
           NEW first, NEW second,
           IsFirst(first, candidate, block), IsFirst(second, candidate, block)
    PROVE  first = second
  <1>1. Size \in Nat
    BY ReplayShape
  <1> QED BY <1>1 DEF IsFirst

\* The readable engine's search finds it.
LEMMA FirstFromIsFirst ==
    ASSUME replay \in Replays, NEW candidate, NEW block
    PROVE  IsFirst(Reference!FirstFrom(candidate, block), candidate, block)
  <1> DEFINE due == {b \in 1 .. Size : b >= candidate /\ replay.blocks[b] >= block}
  <1>1. Reference!FirstFrom(candidate, block) = IF due = {} THEN None ELSE Reference!Min(due)
    BY ReplayShape DEF Reference!FirstFrom
  <1>2. CASE due = {}
    BY <1>1, <1>2 DEF IsFirst
  <1>3. CASE due # {}
    <2>1. due \in SUBSET Nat
      BY ReplayShape
    <2>2. PICK n \in due : \A m \in due : n <= m
      BY <1>3, <2>1, LeastNat
    <2> HIDE DEF due
    <2>3. Reference!Min(due) \in due /\ \A m \in due : Reference!Min(due) <= m
      BY <2>2 DEF Reference!Min
    <2> QED BY <1>1, <1>3, <2>3 DEF IsFirst, due
  <1> QED BY <1>2, <1>3

\* The larger of two numbers.
LEMMA LargerOfTwo ==
    ASSUME NEW a \in Nat, NEW b \in Nat
    PROVE  Optimized!Max({a, b}) = IF a >= b THEN a ELSE b
  <1>1. \A x \in {a, b} : (\A y \in {a, b} : x >= y) <=> x = IF a >= b THEN a ELSE b
    OBVIOUS
  <1>2. Optimized!Max({a, b}) = CHOOSE x \in {a, b} : x = IF a >= b THEN a ELSE b
    BY <1>1 DEF Optimized!Max
  <1> QED BY <1>2

\* An initial interval has as many elements as its end says.
LEMMA InitialInterval ==
    ASSUME NEW n \in Nat PROVE IsFiniteSet(1 .. n) /\ Cardinality(1 .. n) = n
  <1>1. 1 \in Int /\ n \in Int
    OBVIOUS
  <1>2. IsFiniteSet(1 .. n) /\ Cardinality(1 .. n) = IF 1 > n THEN 0 ELSE n - 1 + 1
    BY <1>1, FS_Interval, Zenon
  <1> QED BY <1>2

\* searchsorted on ascending blocks.
LEMMA SearchSortedIs ==
    ASSUME replay \in Replays, NEW block \in Nat
    PROVE  /\ Optimized!SearchSorted(block) \in 1 .. Size + 1
           /\ \A b \in 1 .. Size :
                 replay.blocks[b] >= block <=> b >= Optimized!SearchSorted(block)
  <1>0. /\ Size \in Nat \ {0} /\ Optimized!Boundaries = 1 .. Size
        /\ \A b \in 1 .. Size : replay.blocks[b] \in Nat
        /\ \A b, c \in 1 .. Size : b <= c => replay.blocks[b] <= replay.blocks[c]
    BY ReplayShape
  <1> DEFINE T == {n \in 1 .. Size + 1 : n = Size + 1 \/ replay.blocks[n] >= block}
  <1>1. PICK n \in T : \A m \in T : n <= m
    <2>1. T \in SUBSET Nat /\ Size + 1 \in T
      BY <1>0
    <2> HIDE DEF T
    <2> QED BY <2>1, LeastNat
  <1>2. ASSUME NEW b \in 1 .. Size PROVE replay.blocks[b] >= block <=> b >= n
    <2>1. ASSUME replay.blocks[b] >= block PROVE b >= n
      BY <1>0, <1>1, <2>1
    <2>2. ASSUME b >= n PROVE replay.blocks[b] >= block
      <3>1. n \in 1 .. Size
        BY <1>0, <2>2
      <3>2. replay.blocks[n] >= block
        BY <1>0, <3>1
      <3> QED BY <1>0, <2>2, <3>1, <3>2
    <2> QED BY <2>1, <2>2
  <1>3. {b \in 1 .. Size : replay.blocks[b] < block} = 1 .. n - 1
    <2>1. n \in 1 .. Size + 1
      OBVIOUS
    <2> HIDE DEF T
    <2>2. \A b \in 1 .. Size : replay.blocks[b] < block <=> b < n
      BY <1>0, <1>2, <2>1
    <2>3. \A b \in 1 .. n - 1 : b \in 1 .. Size
      BY <1>0, <2>1
    <2> QED BY <1>0, <2>1, <2>2, <2>3
  <1>4. Cardinality(1 .. n - 1) = n - 1
    <2>1. n \in Nat /\ n >= 1
      BY <1>0
    <2>2. n - 1 \in Nat
      BY <2>1
    <2>3. \A k \in Nat : Cardinality(1 .. k) = k
      BY InitialInterval
    <2> QED BY <2>2, <2>3, Zenon
  <1>5. Optimized!SearchSorted(block) = n
    <2>1. Optimized!SearchSorted(block) = Cardinality(1 .. n - 1) + 1
      BY <1>0, <1>3, Cardinalities DEF Optimized!SearchSorted
    <2> QED BY <1>0, <1>4, <2>1
  <1> QED BY <1>2, <1>5

\* The optimized engine's search finds it too.
LEMMA WithinIsFirst ==
    ASSUME replay \in Replays, NEW candidate \in Nat \ {0}, NEW block \in Nat
    PROVE  IsFirst(Optimized!Within(Optimized!Max({candidate, Optimized!SearchSorted(block)})),
                   candidate, block)
  <1> DEFINE n == Optimized!SearchSorted(block)
             first == IF candidate >= n THEN candidate ELSE n
             due == {b \in 1 .. Size : b >= candidate /\ replay.blocks[b] >= block}
  <1>1. /\ Size \in Nat /\ n \in 1 .. Size + 1
        /\ \A b \in 1 .. Size : replay.blocks[b] >= block <=> b >= n
    BY ReplayShape, SearchSortedIs
  <1>2. Optimized!Max({candidate, n}) = first
    BY <1>1, LargerOfTwo
  <1>3. Optimized!Within(first) = IF first \in 1 .. Size THEN first ELSE None
    BY ReplayShape DEF Optimized!Within
  <1> HIDE DEF n
  <1>4. due = {b \in 1 .. Size : b >= first}
    BY <1>1
  <1>5. first \in Nat \ {0}
    BY <1>1
  <1> HIDE DEF first, due
  <1>6. CASE first \in 1 .. Size
    <2>1. first \in due /\ \A b \in due : first <= b
      BY <1>4, <1>5, <1>6
    <2> QED BY <1>2, <1>3, <1>6, <2>1 DEF IsFirst, due, n
  <1>7. CASE first \notin 1 .. Size
    <2>1. due = {}
      BY <1>1, <1>4, <1>5, <1>7
    <2> QED BY <1>2, <1>3, <1>7, <2>1 DEF IsFirst, due, n
  <1> QED BY <1>6, <1>7

\* Without a delay the candidate itself is it, if it is a boundary.
LEMMA CandidateIsFirst ==
    ASSUME replay \in Replays, NEW b \in 1 .. Size, NEW candidate \in Nat, b <= candidate
    PROVE  IsFirst(Optimized!Within(candidate), candidate, replay.blocks[b] + 0)
  <1>1. /\ Size \in Nat /\ b \in Nat
        /\ \A c \in 1 .. Size : replay.blocks[c] \in Nat
        /\ \A c \in 1 .. Size : b <= c => replay.blocks[b] <= replay.blocks[c]
    BY ReplayShape
  <1>2. Optimized!Within(candidate) = IF candidate \in 1 .. Size THEN candidate ELSE None
    BY ReplayShape DEF Optimized!Within
  <1>3. {c \in 1 .. Size : c >= candidate /\ replay.blocks[c] >= replay.blocks[b] + 0}
          = {c \in 1 .. Size : c >= candidate}
    <2>1. ASSUME NEW c \in 1 .. Size, c >= candidate PROVE replay.blocks[c] >= replay.blocks[b] + 0
      BY <1>1, <2>1
    <2> QED BY <2>1
  <1>4. CASE candidate \in 1 .. Size
    <2>1. candidate \in {c \in 1 .. Size : c >= candidate}
      BY <1>4
    <2> QED BY <1>2, <1>3, <1>4, <2>1 DEF IsFirst
  <1>5. CASE candidate \notin 1 .. Size
    <2>1. {c \in 1 .. Size : c >= candidate} = {}
      BY <1>1, <1>5
    <2> QED BY <1>2, <1>3, <1>5, <2>1 DEF IsFirst
  <1> QED BY <1>4, <1>5

Release(s) == Optimized!ObservationReleaseIndex(s)
Due(s) == replay.blocks[s] + replay.observationSlots

\* Both engines release a group's observations at the first boundary from its
\* own on whose block is late enough (scheduler.py, _release_boundary;
\* optimized_engine.py, the searchsorted of _observation_releases).
THEOREM ObservationReleases ==
    ASSUME replay \in Replays, NEW s \in 1 .. Size
    PROVE  /\ IsFirst(Release(s), s, Due(s))
           /\ Reference!ObservationRelease(s) = Release(s)
  <1>1. s \in Nat \ {0} /\ Due(s) \in Nat /\ replay.observationSlots \in Nat
    BY ReplayShape DEF Due
  <1>2. IsFirst(Reference!ObservationRelease(s), s, Due(s))
    BY FirstFromIsFirst DEF Reference!ObservationRelease, Due
  <1>3. IsFirst(Release(s), s, Due(s))
    <2>1. CASE replay.observationSlots = 0
      <3>1. Release(s) = Optimized!Within(s)
        BY <2>1, ReplayShape DEF Release, Optimized!ObservationReleaseIndex, Optimized!Within
      <3>2. IsFirst(Optimized!Within(s), s, replay.blocks[s] + 0)
        BY <1>1, CandidateIsFirst
      <3> QED BY <2>1, <3>1, <3>2 DEF Due
    <2>2. CASE replay.observationSlots # 0
      <3>1. Release(s) = Optimized!Within(Optimized!Max({s, Optimized!SearchSorted(Due(s))}))
        BY <2>2 DEF Release, Optimized!ObservationReleaseIndex, Due
      <3> QED BY <1>1, <3>1, WithinIsFirst
    <2> QED BY <2>1, <2>2
  <1> QED BY <1>2, <1>3, FirstIsUnique

\* They release an order decided at a boundary at the same later one.
THEOREM OrderReleases ==
    ASSUME replay \in Replays, NEW b \in 1 .. Size
    PROVE  /\ IsFirst(Optimized!OrderReleaseIndex(b), b + 1, replay.blocks[b] + replay.orderSlots)
           /\ Reference!OrderRelease(b) = Optimized!OrderReleaseIndex(b)
  <1> DEFINE block == replay.blocks[b] + replay.orderSlots
  <1>1. b + 1 \in Nat \ {0} /\ block \in Nat /\ replay.orderSlots \in Nat /\ b <= b + 1
    BY ReplayShape
  <1>2. IsFirst(Reference!OrderRelease(b), b + 1, block)
    BY FirstFromIsFirst DEF Reference!OrderRelease
  <1>3. IsFirst(Optimized!OrderReleaseIndex(b), b + 1, block)
    <2>1. CASE replay.orderSlots = 0
      <3>1. Optimized!OrderReleaseIndex(b) = Optimized!Within(b + 1)
        BY <2>1 DEF Optimized!OrderReleaseIndex
      <3>2. IsFirst(Optimized!Within(b + 1), b + 1, replay.blocks[b] + 0)
        BY <1>1, CandidateIsFirst
      <3> QED BY <2>1, <3>1, <3>2
    <2>2. CASE replay.orderSlots # 0
      <3>1. Optimized!OrderReleaseIndex(b)
              = Optimized!Within(Optimized!Max({b + 1, Optimized!SearchSorted(block)}))
        BY <2>2 DEF Optimized!OrderReleaseIndex
      <3> HIDE DEF block
      <3> QED BY <1>1, <3>1, WithinIsFirst
    <2> QED BY <2>1, <2>2
  <1> HIDE DEF block
  <1>4. Reference!OrderRelease(b) = Optimized!OrderReleaseIndex(b)
    BY <1>2, <1>3, FirstIsUnique
  <1> QED BY <1>3, <1>4 DEF block

\* A later group is released no earlier, and none before its own boundary.
LEMMA ReleasesAscend ==
    ASSUME replay \in Replays, NEW s \in 1 .. Size, NEW t \in 1 .. Size, s <= t
    PROVE  /\ Release(s) = None \/ Release(s) \in s .. Size
           /\ Release(t) # None => Release(s) # None /\ Release(s) <= Release(t)
  <1>1. /\ Size \in Nat /\ s \in Nat /\ t \in Nat
        /\ \A b \in 1 .. Size : replay.blocks[b] \in Nat
        /\ replay.blocks[s] <= replay.blocks[t]
        /\ replay.observationSlots \in Nat
    BY ReplayShape
  <1>2. IsFirst(Release(s), s, Due(s)) /\ IsFirst(Release(t), t, Due(t))
    BY ObservationReleases
  <1>3. Due(s) <= Due(t) /\ Due(s) \in Nat /\ Due(t) \in Nat
    BY <1>1 DEF Due
  <1>4. Release(s) = None \/ Release(s) \in s .. Size
    BY <1>1, <1>2 DEF IsFirst
  <1>5. ASSUME Release(t) # None PROVE Release(s) # None /\ Release(s) <= Release(t)
    <2>1. /\ Release(t) \in 1 .. Size /\ Release(t) >= t
          /\ replay.blocks[Release(t)] >= Due(t)
      BY <1>2, <1>5 DEF IsFirst
    <2>2. Release(t) >= s /\ replay.blocks[Release(t)] >= Due(s)
      BY <1>1, <1>3, <2>1
    <2>3. Release(s) \in 1 .. Size /\ Release(s) <= Release(t)
      BY <1>2, <2>1, <2>2 DEF IsFirst
    <2>4. None \notin Nat
      BY NoneIsApart
    <2> QED BY <2>3, <2>4
  <1> QED BY <1>4, <1>5

-----------------------------------------------------------------------------
(* The rows of consecutive groups, in their order.                           *)

Events(b) == Optimized!Events(b)

\* The rows of a group.
LEMMA EventsAre ==
    ASSUME replay \in Replays, NEW b \in 1 .. Size
    PROVE  /\ Reference!Events(b) = Events(b)
           /\ Stream(Events(b)) /\ Len(Events(b)) = Len(replay.groups[b])
           /\ Len(Events(b)) \in Nat
           /\ \A row \in 1 .. Len(Events(b)) : Events(b)[row] = <<b, row>>
  <1>1. Reference!Events(b) = Events(b)
    BY DEF Events, Reference!Events, Optimized!Events
  <1>2. replay.groups[b] \in Seq(EventRow)
    BY ReplayShape
  <1> DEFINE n == Len(replay.groups[b])
  <1>3. n \in Nat /\ DOMAIN replay.groups[b] = 1 .. n
    BY <1>2
  <1>4. Events(b) = [row \in 1 .. n |-> <<b, row>>]
    BY <1>3 DEF Events, Optimized!Events
  <1> HIDE DEF n
  <1>5. Events(b) = [row \in 1 .. n |-> Events(b)[row]]
    BY <1>4
  <1>6. Stream(Events(b)) /\ Len(Events(b)) = n
    BY <1>3, <1>5, FunctionsAreStreams
  <1>7. \A row \in 1 .. n : Events(b)[row] = <<b, row>>
    BY <1>4
  <1> QED BY <1>1, <1>3, <1>6, <1>7 DEF n

FlatFrom(seqs, flat, k) == IF k = 1 THEN seqs[k] ELSE flat[k - 1] \o seqs[k]
Flattens(seqs, n, flat) == flat = [k \in 1 .. n |-> FlatFrom(seqs, flat, k)]

\* The recursive function in FlattenSeq exists.
LEMMA FlatExists ==
    ASSUME NEW seqs, NEW n \in Nat PROVE \E flat : Flattens(seqs, n, flat)
  <1> DEFINE P == {m \in Nat : \E flat : Flattens(seqs, m, flat)}
  <1>1. 0 \in P
    <2>1. PICK flat : flat = [k \in 1 .. 0 |-> <<>>]
      OBVIOUS
    <2>2. flat = [k \in 1 .. 0 |-> FlatFrom(seqs, flat, k)]
      BY <2>1
    <2> QED BY <2>2 DEF Flattens
  <1>2. ASSUME NEW m \in P PROVE m + 1 \in P
    <2>1. PICK f : f = [k \in 1 .. m |-> FlatFrom(seqs, f, k)]
      BY DEF Flattens
    <2> DEFINE g == [k \in 1 .. m + 1 |-> IF k <= m THEN f[k] ELSE FlatFrom(seqs, f, m + 1)]
    <2>2. ASSUME NEW k \in 1 .. m + 1 PROVE g[k] = FlatFrom(seqs, g, k)
      <3>1. k # 1 => k - 1 \in 1 .. m /\ g[k - 1] = f[k - 1]
        OBVIOUS
      <3>2. FlatFrom(seqs, g, k) = FlatFrom(seqs, f, k)
        <4> HIDE DEF g
        <4> QED BY <3>1, Zenon DEF FlatFrom
      <3>3. CASE k <= m
        <4>1. k \in 1 .. m /\ g[k] = f[k]
          BY <3>3
        <4>2. f[k] = FlatFrom(seqs, f, k)
          BY <4>1, <2>1, Zenon
        <4> QED BY <3>2, <4>1, <4>2
      <3>4. CASE ~(k <= m)
        <4>1. k = m + 1
          BY <3>4
        <4> QED BY <3>2, <4>1
      <3> QED BY <3>3, <3>4
    <2>3. g = [k \in 1 .. m + 1 |-> FlatFrom(seqs, g, k)]
      BY <2>2, Zenon
    <2> HIDE DEF g
    <2> QED BY <2>3, m + 1 \in Nat DEF Flattens
  <1> HIDE DEF P
  <1>3. P = Nat
    BY <1>1, <1>2, NatSetInduction DEF P
  <1> QED BY <1>3 DEF P

\* What it yields of each prefix is determined by the prefix.
LEMMA FlatAgrees ==
    ASSUME NEW s, NEW t, NEW m \in Nat, NEW n \in Nat, m <= n,
           \A k \in 1 .. m : s[k] = t[k],
           NEW f, Flattens(s, m, f), NEW g, Flattens(t, n, g)
    PROVE  \A k \in 1 .. m : f[k] = g[k]
  <1> DEFINE P == {k \in Nat : k \in 1 .. m => f[k] = g[k]}
  <1>0. /\ \A k \in 1 .. m : f[k] = FlatFrom(s, f, k)
        /\ \A k \in 1 .. n : g[k] = FlatFrom(t, g, k)
    BY Zenon DEF Flattens
  <1>1. 0 \in P
    OBVIOUS
  <1>2. ASSUME NEW k \in P PROVE k + 1 \in P
    <2> SUFFICES ASSUME k + 1 <= m PROVE f[k + 1] = g[k + 1]
      OBVIOUS
    <2>1. /\ k + 1 \in 1 .. m /\ k + 1 \in 1 .. n /\ s[k + 1] = t[k + 1]
          /\ (k + 1) - 1 = k
          /\ k + 1 # 1 => f[k] = g[k]
      OBVIOUS
    <2>2. f[k + 1] = FlatFrom(s, f, k + 1) /\ g[k + 1] = FlatFrom(t, g, k + 1)
      BY <1>0, <2>1
    <2> QED BY <2>1, <2>2 DEF FlatFrom
  <1>3. P = Nat
    <2> HIDE DEF P
    <2> QED BY <1>1, <1>2, NatSetInduction DEF P
  <1> QED BY <1>3

Groups(first, n) == [k \in 1 .. n |-> Optimized!Events(first + k - 1)]
Flat(first, n) == Optimized!FlattenSeq(Groups(first, n))

\* FlattenSeq is the last of them.
LEMMA FlatIs ==
    ASSUME NEW first, NEW n \in Nat \ {0}
    PROVE  \E flat : Flattens(Groups(first, n), n, flat) /\ Flat(first, n) = flat[n]
  <1> DEFINE seqs == Groups(first, n)
             flat == CHOOSE flat : Flattens(seqs, n, flat)
  <1>1. Flattens(seqs, n, flat)
    BY FlatExists
  <1>2. Len(seqs) = n
    <2>1. seqs = [k \in 1 .. n |-> seqs[k]] /\ n \in Nat
      BY DEF Groups
    <2> HIDE DEF seqs
    <2> QED BY <2>1, FunctionsAreStreams
  <1>3. Flat(first, n) = flat[n]
    <2>1. Flat(first, n) = Optimized!FlattenSeq(seqs)
      BY DEF Flat
    <2> HIDE DEF seqs
    <2>2. n # 0
      OBVIOUS
    <2> QED BY <1>2, <2>1, <2>2, Zenon DEF Optimized!FlattenSeq, Flattens, FlatFrom
  <1> QED BY <1>1, <1>3

\* The rows of no group, and of one group more.
LEMMA FlatStep ==
    ASSUME replay \in Replays, NEW first \in Nat \ {0}, NEW n \in Nat, first + n <= Size
    PROVE  /\ Flat(first, 0) = <<>>
           /\ Flat(first, n + 1) = Flat(first, n) \o Events(first + n)
  <1>1. ASSUME NEW m \in Nat PROVE Len(Groups(first, m)) = m
    <2>1. Groups(first, m) = [k \in 1 .. m |-> Groups(first, m)[k]]
      BY DEF Groups
    <2> QED BY <2>1, FunctionsAreStreams
  <1>2. Flat(first, 0) = <<>>
    <2>1. Len(Groups(first, 0)) = 0
      BY <1>1
    <2>2. Flat(first, 0) = Groups(first, 0)
      BY <2>1 DEF Flat, Optimized!FlattenSeq
    <2>3. Groups(first, 0) = <<>>
      BY DEF Groups
    <2> QED BY <2>2, <2>3
  <1>3. n + 1 \in Nat \ {0} /\ n + 1 \in 1 .. n + 1 /\ n <= n + 1
    OBVIOUS
  <1>4. PICK g : Flattens(Groups(first, n + 1), n + 1, g) /\ Flat(first, n + 1) = g[n + 1]
    BY <1>3, FlatIs
  <1>5. g[n + 1] = FlatFrom(Groups(first, n + 1), g, n + 1)
    BY <1>3, <1>4, Zenon DEF Flattens
  <1>6. Groups(first, n + 1)[n + 1] = Events(first + n)
    <2>1. first + (n + 1) - 1 = first + n
      OBVIOUS
    <2> QED BY <1>3, <2>1 DEF Groups, Events
  <1>7. CASE n = 0
    <2>1. Flat(first, n + 1) = Events(first + n)
      BY <1>4, <1>5, <1>6, <1>7 DEF FlatFrom
    <2>2. first + n \in 1 .. Size
      BY ReplayShape
    <2>3. Stream(Events(first + n))
      BY <2>2, EventsAre
    <2> QED BY <1>2, <1>7, <2>1, <2>3, StreamNeutral
  <1>8. CASE n # 0
    <2>1. n \in Nat \ {0} /\ n \in 1 .. n
      BY <1>8
    <2>2. PICK f : Flattens(Groups(first, n), n, f) /\ Flat(first, n) = f[n]
      BY <2>1, FlatIs
    <2>3. \A k \in 1 .. n : Groups(first, n)[k] = Groups(first, n + 1)[k]
      BY DEF Groups
    <2>4. \A k \in 1 .. n : f[k] = g[k]
      BY <1>3, <1>4, <2>2, <2>3, FlatAgrees
    <2>5. f[n] = g[n]
      BY <2>1, <2>4
    <2>6. n + 1 # 1 /\ (n + 1) - 1 = n
      BY <1>8
    <2> QED BY <1>2, <1>4, <1>5, <1>6, <2>2, <2>5, <2>6 DEF FlatFrom
  <1> QED BY <1>2, <1>7, <1>8

Before(e, f) == e[1] < f[1] \/ (e[1] = f[1] /\ e[2] < f[2])
RowsOf(first, last) ==
    {e \in Nat \X Nat : e[1] \in first .. last /\ e[2] \in 1 .. Len(replay.groups[e[1]])}

\* A list of these rows in the order of their groups and rows.
Lists(rows, first, last) ==
    /\ Stream(rows)
    /\ \A k \in 1 .. Len(rows) : rows[k] \in RowsOf(first, last)
    /\ \A e \in RowsOf(first, last) : \E k \in 1 .. Len(rows) : rows[k] = e
    /\ \A j, k \in 1 .. Len(rows) : j < k => Before(rows[j], rows[k])

\* The rows of one group more.
LEMMA ListsStep ==
    ASSUME replay \in Replays, NEW first \in Nat \ {0}, NEW last \in Nat, first <= last + 1,
           last + 1 \in 1 .. Size, NEW rows, Lists(rows, first, last)
    PROVE  Lists(rows \o Events(last + 1), first, last + 1)
  <1> DEFINE b == last + 1  group == Events(b)  all == rows \o group
             m == Len(rows)  n == Len(group)
  <1>1. /\ Stream(group) /\ n = Len(replay.groups[b]) /\ n \in Nat
        /\ \A row \in 1 .. n : group[row] = <<b, row>>
    BY EventsAre
  <1>2. Stream(rows) /\ m \in Nat
    BY StreamShape DEF Lists
  <1>3. /\ Stream(all) /\ Len(all) = m + n
        /\ \A k \in 1 .. m + n : all[k] = IF k <= m THEN rows[k] ELSE group[k - m]
    BY <1>1, <1>2, StreamConcat
  <1> HIDE DEF all, group, m, n
  <1>4. \A e : e \in RowsOf(first, b) <=>
                 e \in RowsOf(first, last) \/ \E row \in 1 .. n : e = <<b, row>>
    <2>1. ASSUME NEW e \in RowsOf(first, b), e \notin RowsOf(first, last)
          PROVE  \E row \in 1 .. n : e = <<b, row>>
      <3>1. e = <<e[1], e[2]>> /\ e[1] = b /\ e[2] \in 1 .. n
        BY <1>1, <2>1 DEF RowsOf
      <3> QED BY <3>1
    <2>2. ASSUME NEW e \in RowsOf(first, last) PROVE e \in RowsOf(first, b)
      BY <2>2 DEF RowsOf
    <2>3. ASSUME NEW row \in 1 .. n PROVE <<b, row>> \in RowsOf(first, b)
      BY <1>1 DEF RowsOf
    <2> QED BY <2>1, <2>2, <2>3
  <1>5. ASSUME NEW k \in 1 .. m + n
        PROVE  \/ k \in 1 .. m /\ all[k] = rows[k] /\ all[k] \in RowsOf(first, last)
               \/ k - m \in 1 .. n /\ all[k] = <<b, k - m>>
    <2>1. CASE k <= m
      BY <1>2, <1>3, <2>1 DEF Lists, m
    <2>2. CASE ~(k <= m)
      <3>1. k - m \in 1 .. n
        BY <1>1, <1>2, <2>2
      <3> QED BY <1>1, <1>3, <2>2, <3>1
    <2> QED BY <2>1, <2>2
  <1>6. \A k \in 1 .. m + n : all[k] \in RowsOf(first, b)
    BY <1>4, <1>5
  <1>7. ASSUME NEW e \in RowsOf(first, b) PROVE \E k \in 1 .. m + n : all[k] = e
    <2>1. CASE e \in RowsOf(first, last)
      <3>1. PICK k \in 1 .. m : rows[k] = e
        BY <2>1 DEF Lists, m
      <3>2. k \in 1 .. m + n /\ k <= m
        BY <1>1, <1>2
      <3> QED BY <1>3, <3>1, <3>2
    <2>2. CASE \E row \in 1 .. n : e = <<b, row>>
      <3>1. PICK row \in 1 .. n : e = <<b, row>>
        BY <2>2
      <3>2. m + row \in 1 .. m + n /\ ~(m + row <= m) /\ (m + row) - m = row
        BY <1>1, <1>2
      <3>3. all[m + row] = e
        BY <1>1, <1>3, <3>1, <3>2
      <3> QED BY <3>2, <3>3
    <2> QED BY <1>4, <2>1, <2>2
  <1>8. ASSUME NEW j \in 1 .. m + n, NEW k \in 1 .. m + n, j < k PROVE Before(all[j], all[k])
    <2>1. CASE k \in 1 .. m
      <3>1. j \in 1 .. m
        BY <1>2, <1>8, <2>1
      <3>2. all[j] = rows[j] /\ all[k] = rows[k]
        BY <1>3, <2>1, <3>1
      <3>3. Before(rows[j], rows[k])
        BY <1>8, <2>1, <3>1 DEF Lists, m
      <3> QED BY <3>2, <3>3
    <2>2. CASE k \notin 1 .. m
      <3>1. k - m \in 1 .. n /\ all[k] = <<b, k - m>>
        BY <1>5, <2>2
      <3>2. CASE j \in 1 .. m
        <4>1. all[j] \in RowsOf(first, last)
          BY <1>2, <1>3, <3>2 DEF Lists, m
        <4>2. all[j][1] < b
          BY <4>1 DEF RowsOf
        <4> QED BY <3>1, <4>2 DEF Before
      <3>3. CASE j \notin 1 .. m
        <4>1. all[j] = <<b, j - m>>
          BY <1>5, <3>3
        <4>2. j - m < k - m
          BY <1>2, <1>8
        <4> QED BY <3>1, <4>1, <4>2 DEF Before
      <3> QED BY <3>2, <3>3
    <2> QED BY <2>1, <2>2
  <1>9. Lists(all, first, b)
    BY <1>3, <1>6, <1>7, <1>8 DEF Lists
  <1> QED BY <1>9 DEF all, group, b

\* What FlattenSeq makes of consecutive groups.
LEMMA FlatLists ==
    ASSUME replay \in Replays, NEW first \in Nat \ {0}, NEW n \in Nat, first + n - 1 <= Size
    PROVE  Lists(Flat(first, n), first, first + n - 1)
  <1> DEFINE P == {m \in Nat : first + m - 1 <= Size => Lists(Flat(first, m), first, first + m - 1)}
  <1>0. Size \in Nat
    BY ReplayShape
  <1>1. 0 \in P
    <2>1. ASSUME first + 0 - 1 <= Size PROVE Lists(Flat(first, 0), first, first + 0 - 1)
      <3>1. Flat(first, 0) = <<>>
        <4>1. CASE first <= Size
          BY <4>1, FlatStep
        <4>2. CASE first = Size + 1
          <5>1. Groups(first, 0) = <<>>
            BY DEF Groups
          <5> QED BY <5>1 DEF Flat, Optimized!FlattenSeq
        <4> QED BY <1>0, <2>1, <4>1, <4>2
      <3>2. RowsOf(first, first + 0 - 1) = {}
        BY DEF RowsOf
      <3>3. Len(<<>>) = 0 /\ Stream(<<>>)
        BY StreamAppend DEF Stream
      <3> QED BY <3>1, <3>2, <3>3 DEF Lists
    <2> QED BY <2>1
  <1>2. ASSUME NEW m \in P PROVE m + 1 \in P
    <2> SUFFICES ASSUME first + (m + 1) - 1 <= Size
                 PROVE  Lists(Flat(first, m + 1), first, first + (m + 1) - 1)
      OBVIOUS
    <2>1. m \in Nat /\ first + m <= Size /\ first + m - 1 <= Size /\ first + m - 1 \in Nat
          /\ first <= (first + m - 1) + 1
          /\ (first + m - 1) + 1 = first + m /\ first + (m + 1) - 1 = first + m
          /\ first + m \in 1 .. Size
      BY <1>0
    <2>2. Lists(Flat(first, m), first, first + m - 1)
      BY <2>1
    <2>3. Flat(first, m + 1) = Flat(first, m) \o Events(first + m)
      BY <2>1, FlatStep
    <2> HIDE DEF P
    <2> DEFINE last == first + m - 1
    <2>4. last \in Nat /\ first <= last + 1 /\ last + 1 \in 1 .. Size /\ last + 1 = first + m
      BY <2>1
    <2>5. Lists(Flat(first, m), first, last)
      BY <2>2
    <2> HIDE DEF last
    <2>6. Lists(Flat(first, m) \o Events(last + 1), first, last + 1)
      BY <2>4, <2>5, ListsStep
    <2> QED BY <2>1, <2>3, <2>4, <2>6
  <1>3. P = Nat
    <2> HIDE DEF P
    <2> QED BY <1>1, <1>2, NatSetInduction DEF P
  <1> QED BY <1>3

-----------------------------------------------------------------------------
(* The heap of the readable engine's scheduler.                              *)

Item(release, e) == [release |-> release, event |-> e]

\* A numbered set has as many elements as numbers.
LEMMA Numbered ==
    ASSUME NEW n \in Nat, NEW f, NEW S,
           \A k \in 1 .. n : f[k] \in S,
           \A x \in S : \E k \in 1 .. n : f[k] = x,
           \A j, k \in 1 .. n : j < k => f[j] # f[k]
    PROVE  IsFiniteSet(S) /\ Cardinality(S) = n
  <1> DEFINE g == [k \in 1 .. n |-> f[k]]
  <1>1. g \in [1 .. n -> S]
    OBVIOUS
  <1>2. ASSUME NEW j \in 1 .. n, NEW k \in 1 .. n, g[j] = g[k] PROVE j = k
    <2>1. ~(j < k) /\ ~(k < j)
      BY <1>2
    <2> QED BY <2>1
  <1>3. \A x \in S : \E k \in 1 .. n : g[k] = x
    OBVIOUS
  <1> HIDE DEF g
  <1>4. g \in Bijection(1 .. n, S)
    BY <1>1, <1>2, <1>3, Zenon DEF Bijection, Injection, Surjection, IsInjective
  <1>5. ExistsBijection(1 .. n, S)
    BY <1>4, Zenon DEF ExistsBijection
  <1> QED BY <1>5, FS_NatBijection, FS_CountingElements

\* What is popped, if the ready items are those of a list, is that list.
LEMMA PoppedIsList ==
    ASSUME NEW release \in Nat, NEW first, NEW last, NEW rows, Lists(rows, first, last),
           NEW ready, ready = {Item(release, e) : e \in RowsOf(first, last)}
    PROVE  /\ IsFiniteSet(ready) /\ Cardinality(ready) = Len(rows)
           /\ [k \in 1 .. Reference!Cardinality(ready) |-> Reference!Popped(ready)[k].event] = rows
  <1> DEFINE n == Len(rows)  item == [k \in 1 .. n |-> Item(release, rows[k])]
             Ahead(o) == {p \in ready : Reference!Earlier(p, o)}
  <1>1. n \in Nat /\ rows = [k \in 1 .. n |-> rows[k]]
    BY StreamShape DEF Lists
  <1>2. \A k \in 1 .. n : item[k] \in ready /\ rows[k] \in RowsOf(first, last)
    BY DEF Lists
  <1>3. \A x \in ready : \E k \in 1 .. n : item[k] = x
    BY DEF Lists
  <1>4. \A e \in RowsOf(first, last) : e[1] \in Nat /\ e[2] \in Nat
    BY DEF RowsOf
  <1>5. \A k \in 1 .. n : item[k].release = release /\ item[k].event = rows[k]
    BY DEF Item
  <1>6. ASSUME NEW j \in 1 .. n, NEW k \in 1 .. n
        PROVE  Reference!Earlier(item[j], item[k]) <=> j < k
    <2> HIDE DEF item
    <2>1. /\ rows[j][1] \in Nat /\ rows[j][2] \in Nat
          /\ rows[k][1] \in Nat /\ rows[k][2] \in Nat
      BY <1>2, <1>4
    <2>2. Reference!Earlier(item[j], item[k]) <=> Before(rows[j], rows[k])
      BY <1>5, <2>1 DEF Reference!Earlier, Before
    <2>3. j < k => Before(rows[j], rows[k])
      BY DEF Lists
    <2>4. k < j => Before(rows[k], rows[j])
      BY DEF Lists
    <2>5. j = k => ~Before(rows[j], rows[k])
      BY <2>1 DEF Before
    <2>6. Before(rows[k], rows[j]) => ~Before(rows[j], rows[k])
      BY <2>1 DEF Before
    <2>7. j < k \/ k < j \/ j = k
      OBVIOUS
    <2> QED BY <2>2, <2>3, <2>4, <2>5, <2>6, <2>7
  <1> HIDE DEF item
  <1>7. \A j, k \in 1 .. n : j < k => item[j] # item[k]
    <2>1. ASSUME NEW j \in 1 .. n, NEW k \in 1 .. n, j < k, item[j] = item[k] PROVE FALSE
      <3>1. Reference!Earlier(item[j], item[k]) /\ ~Reference!Earlier(item[k], item[k])
        BY <1>6, <2>1
      <3> QED BY <2>1, <3>1
    <2> QED BY <2>1
  <1> HIDE DEF n
  <1>8. IsFiniteSet(ready) /\ Cardinality(ready) = n
    BY <1>1, <1>2, <1>3, <1>7, Numbered
  <1>9. ASSUME NEW k \in 1 .. n PROVE Cardinality(Ahead(item[k])) = k - 1
    <2>1. k - 1 \in Nat
      BY <1>1
    <2>2. \A j \in 1 .. k - 1 : j \in 1 .. n /\ j < k
      BY <1>1
    <2>3. \A j \in 1 .. k - 1 : item[j] \in Ahead(item[k])
      BY <1>2, <1>6, <2>2
    <2>4. \A x \in Ahead(item[k]) : \E j \in 1 .. k - 1 : item[j] = x
      <3> SUFFICES ASSUME NEW x \in ready, Reference!Earlier(x, item[k])
                   PROVE  \E j \in 1 .. k - 1 : item[j] = x
        OBVIOUS
      <3>1. PICK j \in 1 .. n : item[j] = x
        BY <1>3
      <3>2. j < k
        BY <1>6, <3>1
      <3>3. j \in 1 .. k - 1
        BY <1>1, <3>2
      <3> QED BY <3>1, <3>3
    <2>5. \A i, j \in 1 .. k - 1 : i < j => item[i] # item[j]
      BY <1>7, <2>2
    <2> HIDE DEF Ahead
    <2> QED BY <2>1, <2>3, <2>4, <2>5, Numbered
  <1>10. ASSUME NEW k \in 1 .. n PROVE Reference!Popped(ready)[k] = item[k]
    <2> DEFINE Here(o) == Reference!Cardinality({p \in ready : Reference!Earlier(p, o)}) = k - 1
    <2>1. \A o : Here(o) <=> Cardinality(Ahead(o)) = k - 1
      BY Cardinalities
    <2>2. k \in 1 .. Reference!Cardinality(ready)
      BY <1>8, Cardinalities
    <2>3. Reference!Popped(ready)[k] = CHOOSE o \in ready : Here(o)
      BY <2>2 DEF Reference!Popped
    <2> HIDE DEF Here, Ahead
    <2>4. item[k] \in ready /\ Here(item[k])
      BY <1>2, <1>9, <2>1
    <2>5. ASSUME NEW o \in ready, Here(o) PROVE o = item[k]
      <3>1. PICK j \in 1 .. n : item[j] = o
        BY <1>3
      <3>2. j - 1 = k - 1
        BY <1>9, <2>1, <2>5, <3>1
      <3>3. j = k
        BY <3>2
      <3> QED BY <3>1, <3>3
    <2> QED BY <2>3, <2>4, <2>5
  <1>11. Reference!Cardinality(ready) = n
    BY <1>8, Cardinalities
  <1>12. \A k \in 1 .. n : Reference!Popped(ready)[k].event = rows[k]
    BY <1>5, <1>10
  <1>13. [k \in 1 .. n |-> Reference!Popped(ready)[k].event] = rows
    BY <1>1, <1>12, Zenon
  <1> QED BY <1>8, <1>11, <1>13 DEF n

-----------------------------------------------------------------------------
(* What is queued and what is due.                                           *)

\* What the scheduler holds of the groups first .. last.
Queued(first, last) ==
    {Item(Release(e[1]), e) : e \in {e \in RowsOf(first, last) : Release(e[1]) # None}}

QueuedRows(b) ==
    IF Release(b) = None THEN {}
    ELSE {Item(Release(b), Events(b)[row]) : row \in DOMAIN Events(b)}

\* A group enters the queue.
LEMMA QueuedStep ==
    ASSUME replay \in Replays, NEW first \in Nat \ {0}, NEW b \in 1 .. Size, first <= b,
           IsFiniteSet(Queued(first, b - 1))
    PROVE  /\ Queued(first, b) = Queued(first, b - 1) \cup QueuedRows(b)
           /\ IsFiniteSet(Queued(first, b))
           /\ Cardinality(Queued(first, b))
                = IF Release(b) = None THEN Cardinality(Queued(first, b - 1))
                  ELSE Cardinality(Queued(first, b - 1)) + Len(Events(b))
  <1> DEFINE n == Len(Events(b))  old == Queued(first, b - 1)
  <1>0. /\ n \in Nat /\ n = Len(replay.groups[b]) /\ DOMAIN Events(b) = 1 .. n
        /\ \A row \in 1 .. n : Events(b)[row] = <<b, row>>
        /\ b \in Nat
    BY EventsAre, StreamShape, ReplayShape
  <1> HIDE DEF n
  <1>1. \A e : e \in RowsOf(first, b) <=>
                 e \in RowsOf(first, b - 1) \/ \E row \in 1 .. n : e = <<b, row>>
    <2>1. ASSUME NEW e \in RowsOf(first, b), e \notin RowsOf(first, b - 1)
          PROVE  \E row \in 1 .. n : e = <<b, row>>
      <3>1. e = <<e[1], e[2]>> /\ e[1] = b /\ e[2] \in 1 .. n
        BY <1>0, <2>1 DEF RowsOf
      <3> QED BY <3>1
    <2>2. ASSUME NEW e \in RowsOf(first, b - 1) PROVE e \in RowsOf(first, b)
      BY <1>0, <2>2 DEF RowsOf
    <2>3. ASSUME NEW row \in 1 .. n PROVE <<b, row>> \in RowsOf(first, b)
      BY <1>0 DEF RowsOf
    <2> QED BY <2>1, <2>2, <2>3
  <1>2. QueuedRows(b) = IF Release(b) = None THEN {} ELSE {Item(Release(b), <<b, row>>) : row \in 1 .. n}
    BY <1>0 DEF QueuedRows
  <1>3. Queued(first, b) = old \cup QueuedRows(b)
    <2>1. ASSUME NEW o \in Queued(first, b) PROVE o \in old \cup QueuedRows(b)
      <3>1. PICK e \in RowsOf(first, b) : Release(e[1]) # None /\ o = Item(Release(e[1]), e)
        BY DEF Queued
      <3>2. CASE e \in RowsOf(first, b - 1)
        BY <3>1, <3>2 DEF Queued
      <3>3. CASE \E row \in 1 .. n : e = <<b, row>>
        <4>1. PICK row \in 1 .. n : e = <<b, row>>
          BY <3>3
        <4>2. e[1] = b
          BY <4>1
        <4> QED BY <1>2, <3>1, <4>1, <4>2
      <3> QED BY <1>1, <3>2, <3>3
    <2>2. ASSUME NEW o \in old PROVE o \in Queued(first, b)
      <3>1. PICK e \in RowsOf(first, b - 1) : Release(e[1]) # None /\ o = Item(Release(e[1]), e)
        BY DEF Queued
      <3> QED BY <1>1, <3>1 DEF Queued
    <2>3. ASSUME NEW o \in QueuedRows(b) PROVE o \in Queued(first, b)
      <3>1. PICK row \in 1 .. n : Release(b) # None /\ o = Item(Release(b), <<b, row>>)
        BY <1>2, <2>3
      <3>2. <<b, row>> \in RowsOf(first, b) /\ <<b, row>>[1] = b
        BY <1>1
      <3> QED BY <3>1, <3>2 DEF Queued
    <2> QED BY <2>1, <2>2, <2>3
  <1>4. CASE Release(b) = None
    <2>1. Queued(first, b) = old
      BY <1>2, <1>3, <1>4
    <2> QED BY <1>3, <1>4, <2>1
  <1>5. CASE Release(b) # None
    <2> DEFINE item == [row \in 1 .. n |-> Item(Release(b), <<b, row>>)]
    <2>1. /\ \A row \in 1 .. n : item[row] \in QueuedRows(b)
          /\ \A x \in QueuedRows(b) : \E row \in 1 .. n : item[row] = x
      BY <1>2, <1>5
    <2>2. \A j, k \in 1 .. n : j < k => item[j] # item[k]
      <3>1. ASSUME NEW j \in 1 .. n, NEW k \in 1 .. n, j < k, item[j] = item[k] PROVE FALSE
        <4>1. item[j].event = <<b, j>> /\ item[k].event = <<b, k>>
          BY DEF Item
        <4>2. <<b, j>> = <<b, k>>
          BY <3>1, <4>1
        <4> QED BY <3>1, <4>2
      <3> QED BY <3>1
    <2> HIDE DEF item
    <2>3. IsFiniteSet(QueuedRows(b)) /\ Cardinality(QueuedRows(b)) = n
      <3> DEFINE new == QueuedRows(b)
      <3>1. /\ n \in Nat
            /\ \A row \in 1 .. n : item[row] \in new
            /\ \A x \in new : \E row \in 1 .. n : item[row] = x
        BY <1>0, <2>1
      <3> HIDE DEF new
      <3>2. IsFiniteSet(new) /\ Cardinality(new) = n
        BY <2>2, <3>1, Numbered
      <3> QED BY <3>2 DEF new
    <2>4. old \cap QueuedRows(b) = {}
      <3>1. ASSUME NEW o \in old, o \in QueuedRows(b) PROVE FALSE
        <4>1. PICK e \in RowsOf(first, b - 1) : o = Item(Release(e[1]), e)
          BY DEF Queued
        <4>2. PICK row \in 1 .. n : o = Item(Release(b), <<b, row>>)
          BY <1>2, <1>5, <3>1
        <4>3. o.event = e /\ o.event = <<b, row>>
          BY <4>1, <4>2 DEF Item
        <4>4. e[1] = b
          BY <4>3
        <4> QED BY <1>0, <4>4 DEF RowsOf
      <3> QED BY <3>1
    <2>5. /\ IsFiniteSet(old \cup QueuedRows(b))
          /\ Cardinality(old \cup QueuedRows(b))
               = Cardinality(old) + Cardinality(QueuedRows(b)) - Cardinality(old \cap QueuedRows(b))
      BY <2>3, FS_Union, Zenon
    <2>6. Cardinality(old \cap QueuedRows(b)) = 0 /\ Cardinality(old) \in Nat
      BY <2>4, FS_EmptySet, FS_CardinalityType
    <2>7. Cardinality(Queued(first, b)) = Cardinality(old) + n
      BY <1>0, <1>3, <2>3, <2>5, <2>6
    <2> QED BY <1>3, <1>5, <2>5, <2>7 DEF n
  <1> QED BY <1>4, <1>5

\* From a source on, every group is released at a boundary or later, or never.
NotBefore(first, b) == \A s \in first .. Size : Release(s) = None \/ Release(s) >= b

DueCount == Cardinality(Optimized!DueSources)
NextAfter == nextSource + DueCount

\* The sources that are due are consecutive, and all of those released here.
LEMMA DueIs ==
    ASSUME replay \in Replays, optAt \in 1 .. Size, nextSource \in 1 .. optAt,
           NotBefore(nextSource, optAt)
    PROVE  /\ DueCount \in Nat /\ NextAfter \in nextSource .. optAt + 1
           /\ Optimized!Cardinality(Optimized!DueSources) = DueCount
           /\ \A s \in nextSource .. Size : Release(s) = optAt <=> s < NextAfter
           /\ NotBefore(NextAfter, optAt + 1)
  <1>0. /\ Size \in Nat /\ optAt \in Nat /\ nextSource \in Nat \ {0}
        /\ nextSource <= optAt /\ optAt <= Size /\ None \notin Nat
    BY ReplayShape, NoneIsApart
  <1> DEFINE T == {s \in nextSource .. optAt + 1 : s = optAt + 1 \/ Release(s) # optAt}
  <1>1. PICK n \in T : \A m \in T : n <= m
    <2>1. T \in SUBSET Nat /\ optAt + 1 \in T
      BY <1>0
    <2> HIDE DEF T
    <2> QED BY <2>1, LeastNat
  <1>2. /\ n \in Nat /\ nextSource <= n /\ n <= optAt + 1
        /\ n = optAt + 1 \/ Release(n) # optAt
        /\ \A s \in nextSource .. optAt : s < n => Release(s) = optAt
    BY <1>0, <1>1
  <1> HIDE DEF T
  <1>3. ASSUME NEW s \in nextSource .. Size, s < n PROVE Release(s) = optAt
    BY <1>0, <1>2, <1>3
  <1>4. ASSUME NEW s \in nextSource .. Size, s >= n
        PROVE  Release(s) = None \/ (Release(s) \in Nat /\ Release(s) >= optAt + 1)
    <2> SUFFICES ASSUME Release(s) # None
                 PROVE  Release(s) \in Nat /\ Release(s) >= optAt + 1
      OBVIOUS
    <2>0. s \in 1 .. Size /\ s \in Nat
      BY <1>0
    <2>1. Release(s) \in s .. Size
      BY <2>0, ReleasesAscend
    <2>2. CASE n = optAt + 1
      BY <1>0, <1>4, <2>0, <2>1, <2>2
    <2>3. CASE n # optAt + 1
      <3>1. n \in 1 .. Size /\ n \in nextSource .. Size /\ n <= s
        BY <1>0, <1>2, <1>4, <2>0, <2>3
      <3>2. Release(n) # None /\ Release(n) <= Release(s)
        BY <2>0, <3>1, ReleasesAscend
      <3>3. Release(n) \in n .. Size
        BY <3>1, <3>2, ReleasesAscend
      <3>4. Release(n) >= optAt
        BY <3>1, <3>2 DEF NotBefore
      <3>5. Release(n) # optAt
        BY <1>2, <2>3
      <3> QED BY <1>0, <2>0, <2>1, <3>1, <3>2, <3>3, <3>4, <3>5
    <2> QED BY <2>2, <2>3
  <1>5. Optimized!DueSources = nextSource .. n - 1
    <2>1. ASSUME NEW s \in nextSource .. optAt, \A t \in nextSource .. s : Release(t) = optAt
          PROVE  s \in nextSource .. n - 1
      <3>1. ~(n \in nextSource .. s)
        <4>1. n \in nextSource .. s => n # optAt + 1
          BY <1>0
        <4> QED BY <1>2, <2>1, <4>1
      <3> QED BY <1>0, <1>2, <3>1
    <2>2. ASSUME NEW s \in nextSource .. n - 1
          PROVE  s \in nextSource .. optAt /\ \A t \in nextSource .. s : Release(t) = optAt
      <3>1. s \in nextSource .. optAt
        BY <1>0, <1>2
      <3>2. ASSUME NEW t \in nextSource .. s PROVE Release(t) = optAt
        BY <1>0, <1>2
      <3> QED BY <3>1, <3>2
    <2>3. Optimized!DueSources
            = {s \in nextSource .. optAt : \A t \in nextSource .. s : Release(t) = optAt}
      BY DEF Optimized!DueSources, Release
    <2> QED BY <2>1, <2>2, <2>3
  <1>6. Cardinality(nextSource .. n - 1) = n - nextSource
    <2>1. nextSource \in Int /\ n - 1 \in Int
      BY <1>0, <1>2
    <2>2. Cardinality(nextSource .. n - 1)
            = IF nextSource > n - 1 THEN 0 ELSE (n - 1) - nextSource + 1
      BY <2>1, FS_Interval, Zenon
    <2> QED BY <1>0, <1>2, <2>2
  <1>7. DueCount = n - nextSource /\ NextAfter = n
    <2>1. DueCount = n - nextSource
      BY <1>5, <1>6 DEF DueCount
    <2> QED BY <1>0, <1>2, <2>1 DEF NextAfter
  <1>8. \A s \in nextSource .. Size : Release(s) = optAt <=> s < n
    BY <1>0, <1>2, <1>3, <1>4
  <1>9. NotBefore(n, optAt + 1)
    BY <1>0, <1>2, <1>4 DEF NotBefore
  <1> QED BY <1>0, <1>2, <1>7, <1>8, <1>9, Cardinalities DEF DueCount

\* What the readable engine pops is what the optimized one delivers.
THEOREM ReadyIsDue ==
    ASSUME replay \in Replays, optAt \in 1 .. Size, nextSource \in 1 .. optAt,
           NotBefore(nextSource, optAt),
           NEW ready, ready = {o \in Queued(nextSource, optAt) : o.release <= optAt}
    PROVE  /\ ready = {Item(optAt, e) : e \in RowsOf(nextSource, NextAfter - 1)}
           /\ Queued(nextSource, optAt) \ ready = Queued(NextAfter, optAt)
           /\ Lists(Optimized!DueRows, nextSource, NextAfter - 1)
           /\ IsFiniteSet(ready) /\ Cardinality(ready) = Len(Optimized!DueRows)
           /\ [k \in 1 .. Reference!Cardinality(ready) |-> Reference!Popped(ready)[k].event]
                = Optimized!DueRows
  <1> DEFINE n == NextAfter
  <1>0. /\ Size \in Nat /\ optAt \in Nat /\ nextSource \in Nat \ {0}
        /\ nextSource <= optAt /\ optAt <= Size /\ None \notin Nat
        /\ n \in Nat /\ nextSource <= n /\ n <= optAt + 1
    BY ReplayShape, NoneIsApart, DueIs
  <1>1. \A s \in nextSource .. Size : Release(s) = optAt <=> s < n
    BY DueIs
  <1>2. \A s \in nextSource .. Size : Release(s) # None => Release(s) \in Nat /\ Release(s) >= optAt
    <2> SUFFICES ASSUME NEW s \in nextSource .. Size, Release(s) # None
                 PROVE  Release(s) \in Nat /\ Release(s) >= optAt
      OBVIOUS
    <2>1. s \in 1 .. Size /\ s <= s
      BY <1>0
    <2>2. Release(s) \in s .. Size
      BY <2>1, ReleasesAscend
    <2> QED BY <1>0, <2>2 DEF NotBefore
  <1> HIDE DEF n
  <1>3. ASSUME NEW e \in RowsOf(nextSource, optAt)
        PROVE  e[1] \in nextSource .. Size /\ e[1] \in Nat /\ e[1] <= optAt
    BY <1>0, <1>3 DEF RowsOf
  <1>4. \A e : e \in RowsOf(nextSource, n - 1) <=> e \in RowsOf(nextSource, optAt) /\ e[1] < n
    BY <1>0 DEF RowsOf
  <1>5. \A e : e \in RowsOf(n, optAt) <=> e \in RowsOf(nextSource, optAt) /\ ~(e[1] < n)
    BY <1>0 DEF RowsOf
  <1>6. \A e, r : Item(r, e).release = r /\ Item(r, e).event = e
    BY DEF Item
  <1>7. ready = {Item(optAt, e) : e \in RowsOf(nextSource, n - 1)}
    <2>1. ASSUME NEW o \in ready PROVE o \in {Item(optAt, e) : e \in RowsOf(nextSource, n - 1)}
      <3>1. PICK e \in RowsOf(nextSource, optAt) :
                Release(e[1]) # None /\ o = Item(Release(e[1]), e)
        BY DEF Queued
      <3>2. o.release = Release(e[1]) /\ o.release <= optAt
        BY <1>6, <3>1
      <3>3. Release(e[1]) = optAt
        BY <1>0, <1>2, <1>3, <3>1, <3>2
      <3> QED BY <1>1, <1>3, <1>4, <3>1, <3>3
    <2>2. ASSUME NEW e \in RowsOf(nextSource, n - 1) PROVE Item(optAt, e) \in ready
      <3>1. e \in RowsOf(nextSource, optAt) /\ Release(e[1]) = optAt
        BY <1>1, <1>3, <1>4
      <3>2. Item(optAt, e) \in Queued(nextSource, optAt)
        BY <1>0, <3>1 DEF Queued
      <3> QED BY <1>0, <1>6, <3>2
    <2> QED BY <2>1, <2>2
  <1>8. Queued(nextSource, optAt) \ ready = Queued(n, optAt)
    <2>1. ASSUME NEW o \in Queued(nextSource, optAt), o \notin ready PROVE o \in Queued(n, optAt)
      <3>1. PICK e \in RowsOf(nextSource, optAt) :
                Release(e[1]) # None /\ o = Item(Release(e[1]), e)
        BY DEF Queued
      <3>2. ~(e[1] < n)
        <4>1. ASSUME e[1] < n PROVE FALSE
          <5>1. Release(e[1]) = optAt /\ e \in RowsOf(nextSource, n - 1)
            BY <1>1, <1>3, <1>4, <4>1
          <5> QED BY <1>7, <2>1, <3>1, <5>1
        <4> QED BY <4>1
      <3> QED BY <1>5, <3>1, <3>2 DEF Queued
    <2>2. ASSUME NEW o \in Queued(n, optAt) PROVE o \in Queued(nextSource, optAt) /\ o \notin ready
      <3>1. PICK e \in RowsOf(n, optAt) : Release(e[1]) # None /\ o = Item(Release(e[1]), e)
        BY DEF Queued
      <3>2. e \in RowsOf(nextSource, optAt) /\ ~(e[1] < n)
        BY <1>5
      <3>3. o \in Queued(nextSource, optAt)
        BY <3>1, <3>2 DEF Queued
      <3>4. o \notin ready
        <4>1. ASSUME o \in ready PROVE FALSE
          <5>1. PICK f \in RowsOf(nextSource, n - 1) : o = Item(optAt, f)
            BY <1>7, <4>1
          <5>2. o.event = f /\ o.event = e
            BY <1>6, <3>1, <5>1
          <5> QED BY <1>4, <3>2, <5>2
        <4> QED BY <4>1
      <3> QED BY <3>3, <3>4
    <2> QED BY <2>1, <2>2
  <1>9. Optimized!DueRows = Flat(nextSource, DueCount)
    BY DueIs DEF Optimized!DueRows, Flat, Groups
  <1>10. Lists(Optimized!DueRows, nextSource, n - 1)
    <2>1. /\ DueCount \in Nat /\ n = nextSource + DueCount
      BY DueIs DEF n, NextAfter
    <2>2. nextSource + DueCount - 1 <= Size /\ nextSource + DueCount - 1 = n - 1
      BY <1>0, <2>1
    <2>3. Lists(Flat(nextSource, DueCount), nextSource, nextSource + DueCount - 1)
      BY <1>0, <2>1, <2>2, FlatLists
    <2> QED BY <1>9, <2>2, <2>3
  <1>11. /\ IsFiniteSet(ready) /\ Cardinality(ready) = Len(Optimized!DueRows)
         /\ [k \in 1 .. Reference!Cardinality(ready) |-> Reference!Popped(ready)[k].event]
              = Optimized!DueRows
    BY <1>0, <1>7, <1>10, PoppedIsList
  <1> QED BY <1>7, <1>8, <1>10, <1>11 DEF n

-----------------------------------------------------------------------------
(* The inductive invariant: the engines are in step.                         *)

\* Up to which boundary groups were applied, and from which on the queue is
\* still to be delivered.
Applied == IF optPhase \in {"apply", "finish", "done"} THEN optAt - 1 ELSE optAt
Horizon == IF optPhase \in {"accept", "execute"} THEN optAt + 1 ELSE optAt

InPhase ==
    /\ replay \in Replays
    /\ refAt = optAt /\ optAt \in 1 .. Size + 1
    /\ \/ /\ refPhase = optPhase
          /\ optPhase \in {"apply", "deliver", "accept", "execute", "finish", "done"}
       \/ refPhase = "decide" /\ optPhase = "deliver" /\ refRaised = None
    /\ optPhase \in {"apply", "deliver", "accept", "execute"} => optAt \in 1 .. Size

\* What the two runs put out, so far.
SameNotices(s, t) ==
    /\ Stream(s) /\ Stream(t) /\ Len(s) = Len(t)
    /\ \A k \in 1 .. Len(s) : s[k].status = t[k].status

AuditsAgree ==
    IF refPhase = "decide"
    THEN \E before : /\ SameAudit(before, optAudit)
                     /\ refAudit = before \o Reference!DeliveryEntries(delivered)
    ELSE SameAudit(refAudit, optAudit)

SameOutput ==
    /\ refRaised = optRaised
    /\ refPortfolio = optPortfolio
    /\ SameLog(refLedger, optLedger)
    /\ SameLog(refFills, optFills)
    /\ SameNotices(refNotices, optNotices)
    /\ AuditsAgree

\* What is queued and what is being delivered.
SameQueue ==
    /\ nextSource \in 1 .. Horizon
    /\ NotBefore(nextSource, Horizon)
    /\ observations = IF refPhase = "decide" THEN Queued(NextAfter, optAt)
                      ELSE Queued(nextSource, Applied)
    /\ IsFiniteSet(observations)
    /\ delivered = IF refPhase = "decide" THEN Optimized!DueRows ELSE <<>>
    /\ pending = Cardinality(observations) + Len(delivered)

\* The order: none, proposed, or waiting for its release.
IsEvent(e) == e \in Nat \X Nat
SameOrder ==
    /\ refSubmitted = optSubmitted /\ refSubmitted \in BOOLEAN
    /\ \/ refProposed = None /\ optProposed = None
       \/ /\ IsEvent(refProposed) /\ IsEvent(optProposed)
          /\ optPhase \in {"accept", "execute"}
          /\ refSubmitted
          /\ optPhase = "accept" => orders = {}
    /\ \/ orders = {} /\ pendingOrder = None
       \/ /\ refSubmitted
          /\ pendingOrder \in [release : Nat, order : Nat \X Nat]
          /\ pendingOrder.release >= optAt
          /\ \E o \in orders : orders = {o} /\ o.release = pendingOrder.release

\* The three pools.  After its order is executed the readable engine's venue
\* may be what the swap left of it, which nothing reads any more.
PoolOf(payload) == IF payload = None THEN None ELSE Optimized!EventOf(payload).reserves
VenueIsUsed == \/ ~refSubmitted
               \/ orders # {}
               \/ refPhase = "accept" /\ refProposed # None
DeliveredPool == refPhase = "decide" /\ \E k \in DOMAIN delivered : Optimized!HasReserves(delivered[k])
SamePools ==
    /\ historical = PoolOf(historicalPayload)
    /\ historicalPayload # None => historical # None
    /\ VenueIsUsed => venue = PoolOf(venuePayload)
    /\ observedExists \in BOOLEAN
    /\ ~refSubmitted => (observed # None <=> observedExists \/ DeliveredPool)

InStep == InPhase /\ SameOutput /\ SameQueue /\ SameOrder /\ SamePools

-----------------------------------------------------------------------------
(* What both engines have from ReplayEngine, at the same boundary.           *)

Record(boundary, type, item, detail) ==
    [boundary |-> boundary, type |-> type, item |-> item, detail |-> detail]

\* A record about an order, whatever its name, is blanked to the same.
LEMMA OrderRecordBlank ==
    ASSUME NEW b, NEW type \in OrderRecords, NEW i, NEW j, NEW d
    PROVE  /\ Blank(Record(b, type, i, d)) = Blank(Record(b, type, j, d))
           /\ Kind(Record(b, type, i, d)) = "other"
  <1>1. /\ Record(b, type, i, d).type = type /\ Record(b, type, j, d).type = type
        /\ [Record(b, type, i, d) EXCEPT !.item = None] = [Record(b, type, j, d) EXCEPT !.item = None]
    BY DEF Record
  <1>2. type # "OBSERVATION_DELIVERED"
    BY DEF OrderRecords
  <1> QED BY <1>1, <1>2 DEF Blank, Kind

\* Entries are records, and those of a group and of its delivery are the same.
LEMMA EntriesAgree ==
    ASSUME refAt = optAt
    PROVE  /\ \A t, i, d : Reference!Entry(t, i, d) = Record(optAt, t, i, d)
           /\ \A t, i, d : Optimized!Entry(t, i, d) = Record(optAt, t, i, d)
           /\ \A r : Reference!GroupEntries(r) = Optimized!GroupEntries(r)
           /\ \A e : Reference!DeliveryEntries(e) = Optimized!DeliveryEntries(e)
  <1>1. /\ \A t, i, d : Reference!Entry(t, i, d) = Record(optAt, t, i, d)
        /\ \A t, i, d : Optimized!Entry(t, i, d) = Record(optAt, t, i, d)
    BY DEF Reference!Entry, Optimized!Entry, Record
  <1>2. \A b : Reference!Events(b) = Optimized!Events(b)
    BY DEF Reference!Events, Optimized!Events
  <1>3. ASSUME NEW r PROVE Reference!GroupEntries(r) = Optimized!GroupEntries(r)
    BY <1>1, <1>2, Zenon DEF Reference!GroupEntries, Optimized!GroupEntries
  <1>4. ASSUME NEW e PROVE Reference!DeliveryEntries(e) = Optimized!DeliveryEntries(e)
    BY <1>1, Zenon DEF Reference!DeliveryEntries, Optimized!DeliveryEntries
  <1> QED BY <1>1, <1>3, <1>4

\* The entries of a group are a stream.
LEMMA GroupEntriesStream ==
    ASSUME replay \in Replays, optAt \in 1 .. Size, NEW r PROVE Stream(Optimized!GroupEntries(r))
  <1> DEFINE n == Len(Events(optAt))
             a == Optimized!Entry("HISTORICAL_GROUP_APPLIED", Optimized!Events(optAt), None)
             b == Optimized!Entry("SIMULATION_RECONCILED", optAt, replay.mode)
             f == [row \in 1 .. n |->
                    Optimized!Entry("OBSERVATION_OUTSIDE_HORIZON", Optimized!Events(optAt)[row], None)]
             g == IF r = None THEN f ELSE <<>>
  <1>1. n \in Nat /\ DOMAIN Optimized!Events(optAt) = 1 .. n
    BY EventsAre, StreamShape DEF Events
  <1>2. Optimized!GroupEntries(r) = <<a, b>> \o g
    BY <1>1 DEF Optimized!GroupEntries
  <1> HIDE DEF a, b
  <1>3. Stream(<<a, b>>)
    <2>1. <<a, b>> \in Seq({a, b})
      OBVIOUS
    <2> QED BY <2>1 DEF Stream
  <1>4. Stream(g)
    <2>1. f = [row \in 1 .. n |-> f[row]]
      OBVIOUS
    <2> HIDE DEF f, n
    <2>2. Stream(f)
      BY <1>1, <2>1, FunctionsAreStreams
    <2>3. Stream(<<>>)
      BY StreamAppend, <2>2
    <2> QED BY <2>2, <2>3
  <1> HIDE DEF g
  <1> QED BY <1>2, <1>3, <1>4, StreamConcat

\* The entries of a delivery are a stream of deliveries.
LEMMA DeliveryEntriesStream ==
    ASSUME NEW rows, Stream(rows)
    PROVE  /\ Stream(Optimized!DeliveryEntries(rows))
           /\ Len(Optimized!DeliveryEntries(rows)) = Len(rows)
           /\ \A k \in 1 .. Len(rows) : Kind(Optimized!DeliveryEntries(rows)[k]) = "delivery"
  <1> DEFINE n == Len(rows)
             f == [k \in 1 .. n |-> Optimized!Entry("OBSERVATION_DELIVERED", rows[k], rows[k][1])]
  <1>1. n \in Nat /\ DOMAIN rows = 1 .. n
    BY StreamShape
  <1>2. Optimized!DeliveryEntries(rows) = f
    BY <1>1 DEF Optimized!DeliveryEntries
  <1>3. f = [k \in 1 .. n |-> f[k]]
    OBVIOUS
  <1>4. \A k \in 1 .. n : f[k].type = "OBSERVATION_DELIVERED"
    BY DEF Optimized!Entry
  <1>5. \A k \in 1 .. n : Kind(f[k]) = "delivery"
    BY <1>4 DEF Kind
  <1> HIDE DEF f, n
  <1>6. Stream(f) /\ Len(f) = n
    BY <1>1, <1>3, FunctionsAreStreams
  <1> QED BY <1>2, <1>5, <1>6 DEF n

\* A notification more.
LEMMA SameNoticesAppend ==
    ASSUME NEW s, NEW t, SameNotices(s, t), NEW i, NEW j, NEW status
    PROVE  SameNotices(Append(s, [order |-> i, status |-> status]),
                       Append(t, [order |-> j, status |-> status]))
  <1> DEFINE e == [order |-> i, status |-> status]  f == [order |-> j, status |-> status]
  <1>1. e.status = f.status
    OBVIOUS
  <1> HIDE DEF e, f
  <1>2. /\ Stream(s) /\ Stream(t) /\ Len(s) \in Nat /\ Len(s) = Len(t)
        /\ \A k \in 1 .. Len(s) : s[k].status = t[k].status
    BY StreamShape DEF SameNotices
  <1>3. /\ Stream(Append(s, e)) /\ Len(Append(s, e)) = Len(s) + 1
        /\ \A k \in 1 .. Len(s) : Append(s, e)[k] = s[k]
        /\ Append(s, e)[Len(s) + 1] = e
    BY <1>2, StreamAppend, ZenonT(60)
  <1>4. /\ Stream(Append(t, f)) /\ Len(Append(t, f)) = Len(s) + 1
        /\ \A k \in 1 .. Len(s) : Append(t, f)[k] = t[k]
        /\ Append(t, f)[Len(s) + 1] = f
    <2>1. /\ Stream(Append(t, f)) /\ Len(Append(t, f)) = Len(t) + 1
          /\ \A k \in 1 .. Len(t) : Append(t, f)[k] = t[k]
          /\ Append(t, f)[Len(t) + 1] = f
      BY <1>2, StreamAppend, ZenonT(60)
    <2> QED BY <1>2, <2>1, Zenon
  <1>5. ASSUME NEW k \in 1 .. Len(s) + 1 PROVE Append(s, e)[k].status = Append(t, f)[k].status
    <2>1. CASE k \in 1 .. Len(s)
      BY <1>2, <1>3, <1>4, <2>1
    <2>2. CASE k = Len(s) + 1
      BY <1>1, <1>3, <1>4, <2>2
    <2> QED BY <1>2, <2>1, <2>2
  <1>6. SameNotices(Append(s, e), Append(t, f))
    BY <1>3, <1>4, <1>5 DEF SameNotices
  <1> QED BY <1>6 DEF e, f

\* The accounts, the notifications and the audit of both engines, after a step.
SameAfter ==
    /\ refPortfolio' = optPortfolio'
    /\ SameLog(refLedger', optLedger')
    /\ SameLog(refFills', optFills')
    /\ SameNotices(refNotices', optNotices')
    /\ SameAudit(refAudit', optAudit')

SameBefore ==
    /\ refAt = optAt
    /\ refPortfolio = optPortfolio
    /\ SameLog(refLedger, optLedger)
    /\ SameLog(refFills, optFills)
    /\ SameNotices(refNotices, optNotices)
    /\ SameAudit(refAudit, optAudit)

\* Both refuse an order for the same reason.
LEMMA SameRefusal ==
    ASSUME SameBefore, NEW release
    PROVE  Reference!Refusal(release) = Optimized!Refusal(release)
  BY DEF SameBefore, Reference!Refusal, Optimized!Refusal, Reference!RiskAccepts, Optimized!RiskAccepts

\* Both reject.
LEMMA RejectTogether ==
    ASSUME SameBefore, NEW reason, Reference!RejectOrder(reason), Optimized!RejectOrder(reason)
    PROVE  SameAfter
  <1> DEFINE e == Record(optAt, "ORDER_REJECTED", refProposed, reason)
             f == Record(optAt, "ORDER_REJECTED", optProposed, reason)
  <1>1. /\ refAudit' = Append(refAudit, e) /\ optAudit' = Append(optAudit, f)
        /\ refNotices' = Append(refNotices, [order |-> refProposed, status |-> "REJECTED"])
        /\ optNotices' = Append(optNotices, [order |-> optProposed, status |-> "REJECTED"])
        /\ refPortfolio' = refPortfolio /\ optPortfolio' = optPortfolio
        /\ refLedger' = refLedger /\ optLedger' = optLedger
        /\ refFills' = refFills /\ optFills' = optFills
    BY EntriesAgree DEF SameBefore, Reference!RejectOrder, Optimized!RejectOrder,
        Reference!accounts, Optimized!accounts
  <1>2. Blank(e) = Blank(f) /\ Kind(e) = "other" /\ Kind(f) = "other"
    BY OrderRecordBlank DEF OrderRecords
  <1> HIDE DEF e, f
  <1>3. SameAudit(refAudit', optAudit')
    BY <1>1, <1>2, SameAuditAppend DEF SameBefore
  <1>4. SameNotices(refNotices', optNotices')
    BY <1>1, SameNoticesAppend DEF SameBefore
  <1> QED BY <1>1, <1>3, <1>4 DEF SameBefore, SameAfter

\* Both reserve.
LEMMA ReserveTogether ==
    ASSUME SameBefore, NEW release, Reference!ReserveOrder(release), Optimized!ReserveOrder(release)
    PROVE  SameAfter
  <1> DEFINE e == Record(optAt, "ORDER_ACCEPTED_AND_RESERVED", refProposed, release)
             f == Record(optAt, "ORDER_ACCEPTED_AND_RESERVED", optProposed, release)
             g == Record(optAt, "RESERVATION", refProposed, None)
             h == Record(optAt, "RESERVATION", optProposed, None)
  <1>1. /\ refAudit' = Append(refAudit, e) /\ optAudit' = Append(optAudit, f)
        /\ refLedger' = Append(refLedger, g) /\ optLedger' = Append(optLedger, h)
        /\ refNotices' = Append(refNotices, [order |-> refProposed, status |-> "ACCEPTED"])
        /\ optNotices' = Append(optNotices, [order |-> optProposed, status |-> "ACCEPTED"])
        /\ refPortfolio' = optPortfolio'
        /\ refFills' = refFills /\ optFills' = optFills
    BY EntriesAgree DEF SameBefore, Reference!ReserveOrder, Optimized!ReserveOrder
  <1>2. /\ Blank(e) = Blank(f) /\ Kind(e) = "other" /\ Kind(f) = "other"
        /\ Blank(g) = Blank(h)
    BY OrderRecordBlank DEF OrderRecords
  <1> HIDE DEF e, f, g, h
  <1>3. SameAudit(refAudit', optAudit')
    BY <1>1, <1>2, SameAuditAppend DEF SameBefore
  <1>4. SameNotices(refNotices', optNotices')
    BY <1>1, SameNoticesAppend DEF SameBefore
  <1>5. SameLog(refLedger', optLedger')
    BY <1>1, <1>2, SameLogAppend DEF SameBefore
  <1> QED BY <1>1, <1>3, <1>4, <1>5 DEF SameBefore, SameAfter

\* Both find the same fault with a pool.
LEMMA SameRejection ==
    ASSUME NEW pool
    PROVE  /\ Reference!Rejection(pool) = Optimized!Rejection(pool)
           /\ Reference!AmountOut(pool) = Optimized!AmountOut(pool)
  <1>1. /\ Reference!In(pool) = Optimized!In(pool)
        /\ Reference!Out(pool) = Optimized!Out(pool)
        /\ Reference!Effective = Optimized!Effective
    <2>1. Reference!In(pool) = Optimized!In(pool)
      BY SMTT(60) DEF Reference!In, Optimized!In
    <2>2. Reference!Out(pool) = Optimized!Out(pool)
      BY SMTT(60) DEF Reference!Out, Optimized!Out
    <2>3. Reference!Effective = Optimized!Effective
      BY SMTT(60) DEF Reference!Effective, Optimized!Effective
    <2> QED BY <2>1, <2>2, <2>3
  <1>2. Reference!AmountOut(pool) = Optimized!AmountOut(pool)
    BY <1>1, Zenon DEF Reference!AmountOut, Optimized!AmountOut
  <1> QED BY <1>1, <1>2, Zenon DEF Reference!Rejection, Optimized!Rejection

\* Both execute, with the same pool.
LEMMA ExecuteTogether ==
    ASSUME SameBefore, NEW i, NEW j, NEW pool,
           Reference!ExecuteOrder(i, pool), Optimized!ExecuteOrder(j, pool)
    PROVE  SameAfter
  <1> DEFINE code == Optimized!Rejection(pool)  out == Optimized!AmountOut(pool)
  <1>1. Reference!Rejection(pool) = code /\ Reference!AmountOut(pool) = out
    BY SameRejection
  <1>2. CASE code # None
    <2> DEFINE e == Record(optAt, "ORDER_EXECUTION_FAILED_AND_RELEASED", i, code)
               f == Record(optAt, "ORDER_EXECUTION_FAILED_AND_RELEASED", j, code)
               g == Record(optAt, "RELEASE", i, code)
               h == Record(optAt, "RELEASE", j, code)
    <2>1. Reference!ReleaseOrder(i, code) /\ Optimized!ReleaseOrder(j, code)
      BY <1>1, <1>2, Zenon DEF Reference!ExecuteOrder, Optimized!ExecuteOrder
    <2> HIDE DEF code
    <2>2. /\ refAudit' = Append(refAudit, e) /\ optAudit' = Append(optAudit, f)
          /\ refLedger' = Append(refLedger, g) /\ optLedger' = Append(optLedger, h)
          /\ refNotices' = Append(refNotices, [order |-> i, status |-> "EXECUTION_FAILED"])
          /\ optNotices' = Append(optNotices, [order |-> j, status |-> "EXECUTION_FAILED"])
          /\ refPortfolio' = optPortfolio'
          /\ refFills' = refFills /\ optFills' = optFills
      BY <2>1, EntriesAgree DEF SameBefore, Reference!ReleaseOrder, Optimized!ReleaseOrder
    <2>3. /\ Blank(e) = Blank(f) /\ Kind(e) = "other" /\ Kind(f) = "other"
          /\ Blank(g) = Blank(h)
      BY OrderRecordBlank DEF OrderRecords
    <2> HIDE DEF e, f, g, h
    <2>4. SameAudit(refAudit', optAudit')
      BY <2>2, <2>3, SameAuditAppend DEF SameBefore
    <2>5. SameNotices(refNotices', optNotices')
      BY <2>2, SameNoticesAppend DEF SameBefore
    <2>6. SameLog(refLedger', optLedger')
      BY <2>2, <2>3, SameLogAppend DEF SameBefore
    <2> QED BY <2>2, <2>4, <2>5, <2>6 DEF SameBefore, SameAfter
  <1>3. CASE code = None
    <2> DEFINE e == Record(optAt, "ORDER_FILLED_ATOMICALLY", i, None)
               f == Record(optAt, "ORDER_FILLED_ATOMICALLY", j, None)
               g == Record(optAt, "SETTLEMENT", i, out)
               h == Record(optAt, "SETTLEMENT", j, out)
               p == Record(optAt, "FILL", i, out)
               q == Record(optAt, "FILL", j, out)
    <2>1. Reference!FillOrder(i, pool) /\ Optimized!FillOrder(j, pool)
      BY <1>1, <1>3, Zenon DEF Reference!ExecuteOrder, Optimized!ExecuteOrder
    <2>2. /\ refAudit' = Append(refAudit, e) /\ optAudit' = Append(optAudit, f)
          /\ refLedger' = Append(refLedger, g) /\ optLedger' = Append(optLedger, h)
          /\ refFills' = Append(refFills, p) /\ optFills' = Append(optFills, q)
          /\ refNotices' = Append(refNotices, [order |-> i, status |-> "FILLED"])
          /\ optNotices' = Append(optNotices, [order |-> j, status |-> "FILLED"])
          /\ refPortfolio' = optPortfolio'
      <3> HIDE DEF out, code
      <3>1. Optimized!AmountOut(pool) = out
        BY DEF out
      <3> QED BY <1>1, <2>1, <3>1, EntriesAgree
            DEF SameBefore, Reference!FillOrder, Optimized!FillOrder
    <2>3. /\ Blank(e) = Blank(f) /\ Kind(e) = "other" /\ Kind(f) = "other"
          /\ Blank(g) = Blank(h) /\ Blank(p) = Blank(q)
      BY OrderRecordBlank DEF OrderRecords
    <2> HIDE DEF e, f, g, h, p, q, out, code
    <2>4. SameAudit(refAudit', optAudit')
      BY <2>2, <2>3, SameAuditAppend DEF SameBefore
    <2>5. SameNotices(refNotices', optNotices')
      BY <2>2, SameNoticesAppend DEF SameBefore
    <2>6. SameLog(refLedger', optLedger') /\ SameLog(refFills', optFills')
      BY <2>2, <2>3, SameLogAppend DEF SameBefore
    <2> QED BY <2>2, <2>4, <2>5, <2>6 DEF SameBefore, SameAfter
  <1> QED BY <1>2, <1>3

\* The records of notifications are the same but for the orders' names.
LEMMA NotifyTogether ==
    ASSUME NEW b, NEW s, NEW t, SameNotices(s, t)
    PROVE  SameAudit([k \in DOMAIN s |-> Record(b, "STRATEGY_NOTIFIED", s[k].order, s[k].status)],
                     [k \in DOMAIN t |-> Record(b, "STRATEGY_NOTIFIED", t[k].order, t[k].status)])
  <1> DEFINE n == Len(s)
             f == [k \in 1 .. n |-> Record(b, "STRATEGY_NOTIFIED", s[k].order, s[k].status)]
             g == [k \in 1 .. n |-> Record(b, "STRATEGY_NOTIFIED", t[k].order, t[k].status)]
  <1>1. /\ n \in Nat /\ DOMAIN s = 1 .. n /\ DOMAIN t = 1 .. n
        /\ \A k \in 1 .. n : s[k].status = t[k].status
    BY StreamShape DEF SameNotices
  <1>2. \A k \in 1 .. n : /\ Blank(f[k]) = Blank(g[k])
                          /\ Kind(f[k]) = "other" /\ Kind(g[k]) = "other"
    <2> SUFFICES ASSUME NEW k \in 1 .. n
                 PROVE  Blank(f[k]) = Blank(g[k]) /\ Kind(f[k]) = "other" /\ Kind(g[k]) = "other"
      OBVIOUS
    <2>1. /\ f[k] = Record(b, "STRATEGY_NOTIFIED", s[k].order, s[k].status)
          /\ g[k] = Record(b, "STRATEGY_NOTIFIED", t[k].order, s[k].status)
      BY <1>1
    <2>2. "STRATEGY_NOTIFIED" \in OrderRecords
      BY DEF OrderRecords
    <2> HIDE DEF f, g
    <2> QED BY <2>1, <2>2, OrderRecordBlank
  <1>3. f = [k \in 1 .. n |-> f[k]] /\ g = [k \in 1 .. n |-> g[k]]
    OBVIOUS
  <1>4. /\ [k \in DOMAIN s |-> Record(b, "STRATEGY_NOTIFIED", s[k].order, s[k].status)] = f
        /\ [k \in DOMAIN t |-> Record(b, "STRATEGY_NOTIFIED", t[k].order, t[k].status)] = g
    BY <1>1
  <1> HIDE DEF f, g, n
  <1>5. Stream(f) /\ Len(f) = n /\ Stream(g) /\ Len(g) = n
    BY <1>1, <1>3, FunctionsAreStreams
  <1>6. SameLog(f, g)
    <2>1. Anonymous(f) = Anonymous(g)
      BY <1>2, <1>5, SameLogEntries
    <2> QED BY <1>5, <2>1 DEF SameLog
  <1>7. SameAudit(f, g)
    BY <1>2, <1>5, <1>6, SameAuditOthers
  <1> QED BY <1>4, <1>7

\* Both end the boundary.
LEMMA EndTogether ==
    ASSUME SameBefore, refRaised = optRaised, Reference!EndBoundary, Optimized!EndBoundary
    PROVE  /\ SameAfter
           /\ refAt' = optAt + 1 /\ optAt' = optAt + 1
           /\ refPhase' = optPhase' /\ refRaised' = optRaised'
           /\ refProposed' = None /\ optProposed' = None
           /\ optPhase' = IF optAt + 1 \in Optimized!Boundaries THEN "apply" ELSE "finish"
  <1> DEFINE s == [k \in DOMAIN refNotices |->
                    Record(optAt, "STRATEGY_NOTIFIED", refNotices[k].order, refNotices[k].status)]
             t == [k \in DOMAIN optNotices |->
                    Record(optAt, "STRATEGY_NOTIFIED", optNotices[k].order, optNotices[k].status)]
             e == Record(optAt, "BOUNDARY_CHECKPOINT", optAt, None)
  <1>1. refAudit' = (refAudit \o s) \o <<e>> /\ optAudit' = (optAudit \o t) \o <<e>>
    BY EntriesAgree DEF SameBefore, Reference!EndBoundary, Optimized!EndBoundary
  <1>2. /\ refNotices' = <<>> /\ optNotices' = <<>>
        /\ refPortfolio' = refPortfolio /\ optPortfolio' = optPortfolio
        /\ refLedger' = refLedger /\ optLedger' = optLedger
        /\ refFills' = refFills /\ optFills' = optFills
        /\ refRaised' = refRaised /\ optRaised' = optRaised
        /\ refProposed' = None /\ optProposed' = None
        /\ refAt' = optAt + 1 /\ optAt' = optAt + 1
    BY DEF SameBefore, Reference!EndBoundary, Optimized!EndBoundary,
        Reference!accounts, Optimized!accounts
  <1>3. /\ refPhase' = optPhase'
        /\ optPhase' = IF optAt + 1 \in Optimized!Boundaries THEN "apply" ELSE "finish"
    BY DEF SameBefore, Reference!EndBoundary, Optimized!EndBoundary,
        Reference!Boundaries, Optimized!Boundaries
  <1>4. Kind(e) = "other"
    BY DEF Record, Kind
  <1>5. SameAudit(s, t)
    BY NotifyTogether DEF SameBefore
  <1> HIDE DEF s, t, e
  <1>6. SameAudit(<<e>>, <<e>>)
    BY <1>4, SameAuditSingle
  <1>7. SameAudit(refAudit \o s, optAudit \o t)
    BY <1>5, SameAuditConcat DEF SameBefore
  <1>8. SameAudit(refAudit', optAudit')
    BY <1>1, <1>6, <1>7, SameAuditConcat
  <1>9. SameNotices(<<>>, <<>>)
    <2>1. Stream(<<>>) /\ Len(<<>>) = 0
      BY StreamAppend DEF SameBefore, SameAudit
    <2> QED BY <2>1 DEF SameNotices
  <1>10. SameAfter
    BY <1>2, <1>8, <1>9 DEF SameBefore, SameAfter
  <1> QED BY <1>2, <1>3, <1>10

-----------------------------------------------------------------------------
(* The schedule.                                                             *)

\* What depends on the inputs only stays.
LEMMA InputsStay ==
    ASSUME UNCHANGED replay
    PROVE  /\ Size' = Size
           /\ \A a, b : RowsOf(a, b)' = RowsOf(a, b)
           /\ \A a, b : Queued(a, b)' = Queued(a, b)
           /\ \A a, b : NotBefore(a, b)' <=> NotBefore(a, b)
           /\ \A e : Optimized!HasReserves(e)' <=> Optimized!HasReserves(e)
           /\ \A e : PoolOf(e)' = PoolOf(e)
  <1>1. Size' = Size
    BY DEF Size
  <1>2. \A s : Release(s)' = Release(s)
    BY DEF Release, Optimized!ObservationReleaseIndex, Optimized!Within, Optimized!SearchSorted,
        Optimized!Boundaries
  <1>3. \A a, b : RowsOf(a, b)' = RowsOf(a, b)
    BY DEF RowsOf
  <1>4. \A a, b : Queued(a, b)' = Queued(a, b)
    BY <1>2, <1>3, Zenon DEF Queued
  <1>5. \A a, b : NotBefore(a, b)' <=> NotBefore(a, b)
    BY <1>1, <1>2, Zenon DEF NotBefore
  <1>6. \A e : Optimized!EventOf(e)' = Optimized!EventOf(e)
    BY DEF Optimized!EventOf
  <1>7. \A e : Optimized!HasReserves(e)' <=> Optimized!HasReserves(e)
    BY <1>6, Zenon DEF Optimized!HasReserves, Optimized!IsTarget
  <1>8. \A e : PoolOf(e)' = PoolOf(e)
    BY <1>6, Zenon DEF PoolOf
  <1> QED BY <1>1, <1>3, <1>4, <1>5, <1>7, <1>8

\* Nothing that is not None is taken for it.
LEMMA NotNone ==
    /\ None \notin Nat /\ None # "HORIZON_EXHAUSTED"
    /\ \A e : IsEvent(e) => e # None
    /\ \A o \in [release : Nat, order : Nat \X Nat] : o # None
  BY NoneIsApart DEF IsEvent

\* An order is due for both engines or for none.
LEMMA DueTogether ==
    ASSUME InStep
    PROVE  (Reference!ReadyOrders # {}) <=> Optimized!OrderIsDue
  <1>1. CASE orders = {} /\ pendingOrder = None
    BY <1>1 DEF Reference!ReadyOrders, Optimized!OrderIsDue
  <1>2. CASE ~(orders = {} /\ pendingOrder = None)
    <2>1. /\ pendingOrder \in [release : Nat, order : Nat \X Nat]
          /\ pendingOrder.release >= optAt
      BY <1>2 DEF InStep, SameOrder
    <2>2. PICK o \in orders : orders = {o} /\ o.release = pendingOrder.release
      BY <1>2 DEF InStep, SameOrder
    <2>3. refAt = optAt /\ optAt \in Nat
      BY ReplayShape DEF InStep, InPhase
    <2>4. Reference!ReadyOrders # {} <=> pendingOrder.release <= optAt
      BY <2>2, <2>3 DEF Reference!ReadyOrders
    <2>5. pendingOrder # None
      BY <2>1, NotNone
    <2>6. pendingOrder.release \in Nat
      BY <2>1
    <2> QED BY <2>1, <2>3, <2>4, <2>5, <2>6 DEF Optimized!OrderIsDue
  <1> QED BY <1>1, <1>2

\* Engines in step move together, but that the readable one delivers before
\* it asks the strategy.
LEMMA TheyMove ==
    ASSUME InStep, ParityNext
    PROVE  /\ UNCHANGED replay
           /\ refRaised = None /\ optRaised = None
           /\ \/ Reference!ApplyGroup /\ Optimized!ScanGroup
              \/ Reference!Deliver /\ refPhase = "deliver" /\ UNCHANGED optVars
              \/ Reference!Decide /\ Optimized!DeliverRows
              \/ Reference!Accept /\ Optimized!Accept
              \/ Reference!Execute /\ Optimized!Execute
              \/ Reference!Checkpoint /\ Optimized!Checkpoint
              \/ Reference!Finish /\ Optimized!Finish
  <1>1. /\ refAt = optAt /\ optAt \in Int /\ refRaised = optRaised
        /\ \/ /\ refPhase = optPhase
              /\ optPhase \in {"apply", "deliver", "accept", "execute", "finish", "done"}
           \/ refPhase = "decide" /\ optPhase = "deliver"
    BY ReplayShape DEF InStep, InPhase, SameOutput
  <1>2. ~BothOver /\ UNCHANGED replay
    BY DEF ParityNext
  <1>3. ~Over(refPhase, refRaised) /\ ~Over(optPhase, optRaised)
    BY <1>1, <1>2 DEF BothOver, Over
  <1>4. refRaised = None /\ optRaised = None /\ refPhase # "done" /\ optPhase # "done"
    BY <1>3 DEF Over
  <1>5. (Reference!ReadyOrders # {}) <=> Optimized!OrderIsDue
    BY DueTogether
  <1>6. /\ RefMoves <=> Turn[RefStage] <= Turn[OptStage]
        /\ OptMoves <=> Turn[OptStage] <= Turn[RefStage]
    BY <1>1, <1>3 DEF RefMoves, OptMoves
  <1>7. /\ RefMoves => Reference!ReferenceNext
        /\ OptMoves => Optimized!OptimizedNext
        /\ ~OptMoves => UNCHANGED optVars
    BY DEF ParityNext
  <1>8. CASE refPhase = "apply" /\ optPhase = "apply"
    <2>1. RefMoves /\ OptMoves
      BY <1>6, <1>8 DEF RefStage, OptStage, Turn
    <2>2. Reference!ApplyGroup
      BY <1>7, <1>8, <2>1 DEF Reference!ReferenceNext, Reference!Deliver, Reference!Decide,
          Reference!Accept, Reference!Execute, Reference!Checkpoint, Reference!Finish, Reference!Running
    <2>3. Optimized!ScanGroup
      BY <1>7, <1>8, <2>1 DEF Optimized!OptimizedNext, Optimized!DeliverRows,
          Optimized!Accept, Optimized!Execute, Optimized!Checkpoint, Optimized!Finish, Optimized!Running
    <2> QED BY <1>2, <1>4, <2>2, <2>3
  <1>9. CASE refPhase = "deliver" /\ optPhase = "deliver"
    <2>1. RefMoves /\ ~OptMoves
      BY <1>6, <1>9 DEF RefStage, OptStage, Turn
    <2>2. Reference!Deliver
      BY <1>7, <1>9, <2>1 DEF Reference!ReferenceNext, Reference!ApplyGroup, Reference!Decide,
          Reference!Accept, Reference!Execute, Reference!Checkpoint, Reference!Finish, Reference!Running
    <2> QED BY <1>2, <1>4, <1>7, <1>9, <2>1, <2>2
  <1>10. CASE refPhase = "decide" /\ optPhase = "deliver"
    <2>1. RefMoves /\ OptMoves
      BY <1>6, <1>10 DEF RefStage, OptStage, Turn
    <2>2. Reference!Decide
      BY <1>7, <1>10, <2>1 DEF Reference!ReferenceNext, Reference!ApplyGroup, Reference!Deliver,
          Reference!Accept, Reference!Execute, Reference!Checkpoint, Reference!Finish, Reference!Running
    <2>3. Optimized!DeliverRows
      BY <1>7, <1>10, <2>1 DEF Optimized!OptimizedNext, Optimized!ScanGroup,
          Optimized!Accept, Optimized!Execute, Optimized!Checkpoint, Optimized!Finish, Optimized!Running
    <2> QED BY <1>2, <1>4, <2>2, <2>3
  <1>11. CASE refPhase = "accept" /\ optPhase = "accept"
    <2>1. RefMoves /\ OptMoves
      BY <1>6, <1>11 DEF RefStage, OptStage, Turn
    <2>2. Reference!Accept
      BY <1>7, <1>11, <2>1 DEF Reference!ReferenceNext, Reference!ApplyGroup, Reference!Deliver,
          Reference!Decide, Reference!Execute, Reference!Checkpoint, Reference!Finish, Reference!Running
    <2>3. Optimized!Accept
      BY <1>7, <1>11, <2>1 DEF Optimized!OptimizedNext, Optimized!ScanGroup,
          Optimized!DeliverRows, Optimized!Execute, Optimized!Checkpoint, Optimized!Finish, Optimized!Running
    <2> QED BY <1>2, <1>4, <2>2, <2>3
  <1>12. CASE refPhase = "execute" /\ optPhase = "execute"
    <2>1. RefStage = "execute" <=> OptStage = "execute"
      BY <1>5, <1>12 DEF RefStage, OptStage
    <2>2. RefStage \in {"execute", "checkpoint"} /\ OptStage \in {"execute", "checkpoint"}
      BY <1>12 DEF RefStage, OptStage
    <2>3. RefMoves /\ OptMoves
      BY <1>6, <2>1, <2>2 DEF Turn
    <2>4. Reference!Execute \/ Reference!Checkpoint
      BY <1>7, <1>12, <2>3 DEF Reference!ReferenceNext, Reference!ApplyGroup, Reference!Deliver,
          Reference!Decide, Reference!Accept, Reference!Finish, Reference!Running
    <2>5. Optimized!Execute \/ Optimized!Checkpoint
      BY <1>7, <1>12, <2>3 DEF Optimized!OptimizedNext, Optimized!ScanGroup,
          Optimized!DeliverRows, Optimized!Accept, Optimized!Finish, Optimized!Running
    <2>6. Reference!Execute => Reference!ReadyOrders # {}
      BY DEF Reference!Execute
    <2>7. Reference!Checkpoint => Reference!ReadyOrders = {}
      BY DEF Reference!Checkpoint
    <2>8. Optimized!Execute => Optimized!OrderIsDue
      BY DEF Optimized!Execute
    <2>9. Optimized!Checkpoint => ~Optimized!OrderIsDue
      BY DEF Optimized!Checkpoint
    <2> QED BY <1>2, <1>4, <1>5, <2>4, <2>5, <2>6, <2>7, <2>8, <2>9
  <1>13. CASE refPhase = "finish" /\ optPhase = "finish"
    <2>1. RefMoves /\ OptMoves
      BY <1>6, <1>13 DEF RefStage, OptStage, Turn
    <2>2. Reference!Finish
      BY <1>7, <1>13, <2>1 DEF Reference!ReferenceNext, Reference!ApplyGroup, Reference!Deliver,
          Reference!Decide, Reference!Accept, Reference!Execute, Reference!Checkpoint, Reference!Running
    <2>3. Optimized!Finish
      BY <1>7, <1>13, <2>1 DEF Optimized!OptimizedNext, Optimized!ScanGroup,
          Optimized!DeliverRows, Optimized!Accept, Optimized!Execute, Optimized!Checkpoint, Optimized!Running
    <2> QED BY <1>2, <1>4, <2>2, <2>3
  <1> QED BY <1>1, <1>4, <1>8, <1>9, <1>10, <1>11, <1>12, <1>13

-----------------------------------------------------------------------------
(* A group is applied.                                                       *)

\* A set of naturals below a bound has a greatest element.
LEMMA GreatestIsIn ==
    ASSUME NEW n \in Nat, NEW T \in SUBSET (1 .. n), T # {}
    PROVE  Optimized!Max(T) \in T /\ Reference!Max(T) = Optimized!Max(T)
  <1> DEFINE B == {m \in Nat : \A t \in T : t <= m}
  <1>1. n \in B
    OBVIOUS
  <1>2. PICK m \in B : \A k \in B : m <= k
    <2>1. B \in SUBSET Nat /\ B # {}
      BY <1>1
    <2> HIDE DEF B
    <2> QED BY <2>1, LeastNat
  <1>3. m \in T
    <2>1. ASSUME m \notin T PROVE FALSE
      <3>1. \A t \in T : t <= m - 1
        BY <2>1
      <3>2. m - 1 \in Nat
        <4>1. PICK t \in T : TRUE
          OBVIOUS
        <4>2. t \in 1 .. n /\ t <= m - 1
          BY <3>1, <4>1
        <4>3. m \in Nat
          OBVIOUS
        <4> HIDE DEF B
        <4> QED BY <4>2, <4>3
      <3>3. m - 1 \in B
        BY <3>1, <3>2
      <3> QED BY <1>2, <3>3
    <2> QED BY <2>1
  <1>4. \A t \in T : m >= t
    OBVIOUS
  <1> HIDE DEF B
  <1>5. Optimized!Max(T) \in T
    BY <1>3, <1>4 DEF Optimized!Max
  <1>6. Reference!Max(T) = Optimized!Max(T)
    BY Zenon DEF Optimized!Max, Reference!Max
  <1> QED BY <1>5, <1>6

\* Both engines read the inputs alike.
LEMMA InputsAgree ==
    /\ \A e : Reference!EventOf(e) = Optimized!EventOf(e)
    /\ \A e : Reference!IsTarget(e) <=> Optimized!IsTarget(e)
    /\ \A e : Reference!HasReserves(e) <=> Optimized!HasReserves(e)
    /\ \A b : Reference!Events(b) = Events(b) /\ Optimized!Events(b) = Events(b)
    /\ \A n : Reference!BudgetError(n) = Optimized!BudgetError(n)
  <1>1. \A e : Reference!EventOf(e) = Optimized!EventOf(e)
    BY DEF Reference!EventOf, Optimized!EventOf
  <1>2. \A e : Reference!IsTarget(e) <=> Optimized!IsTarget(e)
    BY <1>1, Zenon DEF Reference!IsTarget, Optimized!IsTarget
  <1>3. \A e : Reference!HasReserves(e) <=> Optimized!HasReserves(e)
    BY <1>1, <1>2, Zenon DEF Reference!HasReserves, Optimized!HasReserves
  <1>4. \A b : Reference!Events(b) = Events(b) /\ Optimized!Events(b) = Events(b)
    BY DEF Reference!Events, Optimized!Events, Events
  <1>5. \A n : Reference!BudgetError(n) = Optimized!BudgetError(n)
    BY DEF Reference!BudgetError, Optimized!BudgetError
  <1> QED BY <1>1, <1>2, <1>3, <1>4, <1>5

\* What a group leaves of the pool that both keep.
LEMMA PoolsApply ==
    ASSUME InStep, UNCHANGED replay, Reference!ApplyGroup, Optimized!ScanGroup
    PROVE  SamePools'
  <1> DEFINE group == Events(optAt)  n == Len(group)
             touched == {row \in 1 .. n : Optimized!IsTarget(group[row])}
             known == {row \in 1 .. n : Optimized!HasReserves(group[row])}
  <1>1. /\ refAt = optAt /\ optAt \in 1 .. Size /\ replay \in Replays
        /\ refPhase = "apply" /\ optPhase = "apply"
    BY DEF InStep, InPhase, Reference!ApplyGroup, Optimized!ScanGroup, Reference!Running, Optimized!Running
  <1>2. /\ n \in Nat /\ DOMAIN group = 1 .. n
        /\ \A row \in 1 .. n : group[row] = <<optAt, row>> /\ group[row] # None
    <2>1. /\ n \in Nat /\ DOMAIN group = 1 .. n /\ \A row \in 1 .. n : group[row] = <<optAt, row>>
      BY <1>1, EventsAre, StreamShape
    <2>2. optAt \in Nat
      BY <1>1, ReplayShape
    <2>3. ASSUME NEW row \in 1 .. n PROVE group[row] # None
      <3>1. IsEvent(<<optAt, row>>)
        BY <2>2 DEF IsEvent
      <3> QED BY <2>1, <3>1, NotNone
    <2> QED BY <2>1, <2>3
  <1> HIDE DEF n, group
  <1>3. Optimized!Events(optAt) = group /\ Reference!Events(refAt) = group
    BY <1>1, InputsAgree DEF group
  <1>4. /\ known \in SUBSET (1 .. n)
        /\ known # {} => Optimized!Max(known) \in known /\ Reference!Max(known) = Optimized!Max(known)
    <2>1. known \in SUBSET (1 .. n)
      OBVIOUS
    <2> HIDE DEF known
    <2> QED BY <1>2, <2>1, GreatestIsIn
  <1>5. historicalPayload' = IF known = {} THEN historicalPayload ELSE group[Optimized!Max(known)]
    <2>1. {row \in {row \in DOMAIN group : Optimized!IsTarget(group[row])} :
             Optimized!HasReserves(group[row])} = known
      BY <1>2 DEF Optimized!HasReserves
    <2> HIDE DEF known
    <2> QED BY <1>3, <2>1 DEF Optimized!ScanGroup
  <1>6. historical' = IF known = {} THEN historical
                      ELSE Optimized!EventOf(group[Optimized!Max(known)]).reserves
    <2>1. {k \in DOMAIN group : Reference!HasReserves(group[k])} = known
      BY <1>2, InputsAgree
    <2>2. historical' = Reference!Reduce(historical, group)
      BY <1>3 DEF Reference!ApplyGroup
    <2> HIDE DEF known
    <2> QED BY <1>4, <2>1, <2>2, InputsAgree DEF Reference!Reduce
  <1>7. /\ historical' = PoolOf(historicalPayload')
        /\ historicalPayload' # None => historical' # None
    <2>1. CASE known = {}
      BY <1>5, <1>6, <2>1 DEF InStep, SamePools
    <2>2. CASE known # {}
      <3>1. /\ Optimized!Max(known) \in 1 .. n
            /\ Optimized!HasReserves(group[Optimized!Max(known)])
        BY <1>4, <2>2
      <3> HIDE DEF known
      <3>2. historicalPayload' # None
        BY <1>2, <1>5, <2>2, <3>1
      <3>3. historical' = PoolOf(historicalPayload')
        BY <1>5, <1>6, <2>2, <3>2 DEF PoolOf
      <3>4. historical' # None
        BY <1>6, <2>2, <3>1 DEF Optimized!HasReserves
      <3> QED BY <3>3, <3>4
    <2> QED BY <2>1, <2>2
  <1>8. venue' = IF touched # {} /\ historical' # None THEN historical' ELSE venue
    <2>1. (\E row \in DOMAIN group : Reference!IsTarget(group[row])) <=> touched # {}
      BY <1>2, InputsAgree
    <2> HIDE DEF touched
    <2> QED BY <1>3, <2>1 DEF Reference!ApplyGroup
  <1>9. venuePayload' = IF touched # {} /\ historicalPayload' # None
                        THEN historicalPayload' ELSE venuePayload
    <2>1. {row \in DOMAIN group : Optimized!IsTarget(group[row])} = touched
      BY <1>2
    <2> HIDE DEF touched
    <2> QED BY <1>3, <2>1 DEF Optimized!ScanGroup
  <1>10. historicalPayload' # None <=> historical' # None
    BY <1>7 DEF PoolOf
  <1> HIDE DEF touched, known
  <1>11. venue = PoolOf(venuePayload) => venue' = PoolOf(venuePayload')
    BY <1>7, <1>8, <1>9, <1>10
  <1>12. /\ observed' = observed /\ refSubmitted' = refSubmitted /\ orders' = orders
         /\ refPhase' = "deliver" /\ observedExists' = observedExists
    BY DEF Reference!ApplyGroup, Optimized!ScanGroup
  <1>13. VenueIsUsed' => VenueIsUsed
    BY <1>12 DEF VenueIsUsed
  <1>14. ~DeliveredPool /\ ~DeliveredPool'
    BY <1>1, <1>12 DEF DeliveredPool
  <1>15. \A e : PoolOf(e)' = PoolOf(e)
    BY InputsStay
  <1>16. historical' = PoolOf(historicalPayload)' /\ (VenueIsUsed' => venue' = PoolOf(venuePayload)')
    BY <1>7, <1>11, <1>13, <1>15 DEF InStep, SamePools
  <1> QED BY <1>7, <1>12, <1>14, <1>16 DEF InStep, SamePools

\* How many orders there are.
LEMMA OrdersCounted ==
    ASSUME SameOrder PROVE Reference!Cardinality(orders) = Optimized!HasOrder
  <1>1. CASE orders = {} /\ pendingOrder = None
    BY <1>1, FS_EmptySet, Cardinalities DEF Optimized!HasOrder
  <1>2. CASE ~(orders = {} /\ pendingOrder = None)
    <2>1. PICK o \in orders : orders = {o}
      BY <1>2 DEF SameOrder
    <2>2. pendingOrder # None
      BY <1>2, NotNone DEF SameOrder
    <2> QED BY <2>1, <2>2, FS_Singleton, Cardinalities DEF Optimized!HasOrder
  <1> QED BY <1>1, <1>2

\* Engines in step have the same output before an action, other than between
\* the delivery and the decision of the readable one.
LEMMA SameOutputBefore ==
    ASSUME InStep, refPhase # "decide" PROVE SameBefore
  BY DEF InStep, InPhase, SameOutput, AuditsAgree, SameBefore

\* And are so after one.
LEMMA SameOutputAfter ==
    ASSUME SameAfter, refPhase' # "decide", refRaised' = optRaised' PROVE SameOutput'
  BY DEF SameAfter, SameOutput, AuditsAgree

\* Both apply the group and queue its rows, or count them.
LEMMA ApplyTogether ==
    ASSUME InStep, UNCHANGED replay, Reference!ApplyGroup, Optimized!ScanGroup
    PROVE  InStep'
  <1>1. /\ refAt = optAt /\ optAt \in 1 .. Size /\ replay \in Replays
        /\ refPhase = "apply" /\ optPhase = "apply"
    BY DEF InStep, InPhase, Reference!ApplyGroup, Optimized!ScanGroup, Reference!Running, Optimized!Running
  <1>2. /\ refAt' = refAt /\ optAt' = optAt /\ refPhase' = "deliver" /\ optPhase' = "deliver"
        /\ refProposed' = refProposed /\ optProposed' = optProposed
        /\ orders' = orders /\ pendingOrder' = pendingOrder
        /\ refSubmitted' = refSubmitted /\ optSubmitted' = optSubmitted
        /\ nextSource' = nextSource /\ delivered' = delivered
    BY DEF Reference!ApplyGroup, Optimized!ScanGroup
  <1>3. InPhase'
    BY <1>1, <1>2, InputsStay DEF InStep, InPhase
  <1>4. SameOrder'
    BY <1>1, <1>2 DEF InStep, SameOrder, InPhase
  <1> DEFINE release == Release(optAt)  group == Events(optAt)
  <1>5. /\ Reference!ObservationRelease(refAt) = release
        /\ Optimized!ObservationReleaseIndex(optAt) = release
    BY <1>1, ObservationReleases DEF Release
  <1>6. Optimized!Events(optAt) = group /\ Reference!Events(refAt) = group
    BY <1>1, InputsAgree
  <1> DEFINE queued == IF release = None THEN {}
                       ELSE {[release |-> release, event |-> group[row]] : row \in DOMAIN group}
  <1>7. queued = QueuedRows(optAt)
    BY DEF QueuedRows, Item
  <1> HIDE DEF queued, group, release
  <1>8. /\ observations' = observations \cup queued
        /\ refAudit' = refAudit \o Reference!GroupEntries(release)
        /\ refRaised' = Reference!BudgetError(Reference!Cardinality(observations \cup queued)
                                                + Reference!Cardinality(orders))
        /\ refPortfolio' = refPortfolio /\ refLedger' = refLedger /\ refFills' = refFills
        /\ refNotices' = refNotices
    BY <1>5, <1>6 DEF Reference!ApplyGroup, Reference!accounts, queued
  <1>9. /\ pending' = IF release = None THEN pending ELSE pending + Len(group)
        /\ optAudit' = optAudit \o Optimized!GroupEntries(release)
        /\ optRaised' = Optimized!BudgetError(pending' + Optimized!HasOrder)
        /\ optPortfolio' = optPortfolio /\ optLedger' = optLedger /\ optFills' = optFills
        /\ optNotices' = optNotices
    BY <1>5, <1>6 DEF Optimized!ScanGroup, Optimized!accounts
  <1>10. /\ observations' = Queued(nextSource, optAt)
         /\ IsFiniteSet(observations')
         /\ pending' = Cardinality(observations') /\ pending' \in Nat
    <2>1. /\ nextSource \in 1 .. optAt /\ observations = Queued(nextSource, optAt - 1)
          /\ IsFiniteSet(observations)
          /\ pending = Cardinality(observations) + Len(delivered)
          /\ delivered = <<>>
      BY <1>1 DEF InStep, SameQueue, Horizon, Applied
    <2>2. pending = Cardinality(observations) /\ Cardinality(observations) \in Nat
      BY <2>1, FS_CardinalityType
    <2>3. nextSource \in Nat \ {0} /\ nextSource <= optAt
      BY <1>1, <2>1, ReplayShape
    <2>4. /\ Queued(nextSource, optAt) = Queued(nextSource, optAt - 1) \cup QueuedRows(optAt)
          /\ IsFiniteSet(Queued(nextSource, optAt))
          /\ Cardinality(Queued(nextSource, optAt))
               = IF release = None THEN Cardinality(Queued(nextSource, optAt - 1))
                 ELSE Cardinality(Queued(nextSource, optAt - 1)) + Len(group)
      BY <1>1, <2>1, <2>3, QueuedStep DEF release, group
    <2>5. observations' = Queued(nextSource, optAt)
      BY <1>7, <1>8, <2>1, <2>4
    <2>6. pending' = Cardinality(observations')
      BY <1>9, <2>1, <2>2, <2>4, <2>5
    <2> QED BY <2>4, <2>5, <2>6, FS_CardinalityType
  <1>11. refRaised' = optRaised'
    <2>1. Reference!Cardinality(observations \cup queued) = pending'
      BY <1>8, <1>10, Cardinalities
    <2>2. Reference!Cardinality(orders) = Optimized!HasOrder
      BY OrdersCounted DEF InStep
    <2> QED BY <1>8, <1>9, <2>1, <2>2, InputsAgree
  <1>12. SameOutput'
    <2>1. SameBefore
      BY <1>1, SameOutputBefore
    <2>2. Reference!GroupEntries(release) = Optimized!GroupEntries(release)
      BY <1>1, EntriesAgree
    <2>3. SameAudit(Optimized!GroupEntries(release), Optimized!GroupEntries(release))
      BY <1>1, GroupEntriesStream, SameAuditSelf
    <2>4. SameAudit(refAudit', optAudit')
      BY <1>8, <1>9, <2>1, <2>2, <2>3, SameAuditConcat DEF SameBefore
    <2>5. SameAfter
      BY <1>8, <1>9, <2>1, <2>4 DEF SameBefore, SameAfter
    <2> QED BY <1>2, <1>11, <2>5, SameOutputAfter
  <1>13. SameQueue'
    <2>1. Horizon' = optAt /\ Horizon = optAt /\ Applied' = optAt
      BY <1>1, <1>2 DEF Horizon, Applied
    <2>2. nextSource \in 1 .. optAt /\ NotBefore(nextSource, optAt) /\ delivered = <<>>
      BY <1>1, <2>1 DEF InStep, SameQueue
    <2>3. NotBefore(nextSource, Horizon)'
      BY <1>2, <2>1, <2>2, InputsStay
    <2>4. Queued(nextSource, Applied)' = Queued(nextSource, optAt)
      BY <1>2, <2>1, InputsStay
    <2>5. Len(delivered') = 0 /\ pending' = Cardinality(observations') + Len(delivered')
      BY <1>2, <1>10, <2>2
    <2> QED BY <1>2, <1>10, <2>1, <2>2, <2>3, <2>4, <2>5 DEF SameQueue
  <1>14. SamePools'
    BY PoolsApply
  <1> QED BY <1>3, <1>4, <1>12, <1>13, <1>14 DEF InStep

-----------------------------------------------------------------------------
(* What is due is delivered.                                                 *)

\* Where the engines stand when rows are delivered.
LEMMA DeliveryShape ==
    ASSUME InStep, optPhase = "deliver"
    PROVE  /\ replay \in Replays /\ refAt = optAt /\ optAt \in 1 .. Size
           /\ nextSource \in 1 .. optAt /\ NotBefore(nextSource, optAt)
           /\ Lists(Optimized!DueRows, nextSource, NextAfter - 1)
           /\ Stream(Optimized!DueRows) /\ Len(Optimized!DueRows) \in Nat
           /\ DOMAIN Optimized!DueRows = 1 .. Len(Optimized!DueRows)
           /\ \A k \in 1 .. Len(Optimized!DueRows) : IsEvent(Optimized!DueRows[k])
  <1>1. /\ replay \in Replays /\ refAt = optAt /\ optAt \in 1 .. Size
        /\ nextSource \in 1 .. optAt /\ NotBefore(nextSource, optAt)
    BY DEF InStep, InPhase, SameQueue, Horizon
  <1>2. Lists(Optimized!DueRows, nextSource, NextAfter - 1)
    BY <1>1, ReadyIsDue
  <1>3. Stream(Optimized!DueRows)
    BY <1>2 DEF Lists
  <1>4. \A k \in 1 .. Len(Optimized!DueRows) : IsEvent(Optimized!DueRows[k])
    BY <1>2 DEF Lists, RowsOf, IsEvent
  <1> QED BY <1>1, <1>2, <1>3, <1>4, StreamShape

\* What is due depends on the inputs, the pointer and the boundary only.
LEMMA DueStays ==
    ASSUME UNCHANGED <<replay, optAt, nextSource>>
    PROVE  Optimized!DueRows' = Optimized!DueRows /\ NextAfter' = NextAfter
  <1>1. \A s : Optimized!ObservationReleaseIndex(s)' = Optimized!ObservationReleaseIndex(s)
    BY DEF Optimized!ObservationReleaseIndex, Optimized!Within, Optimized!SearchSorted,
        Optimized!Boundaries
  <1>2. Optimized!DueSources' = Optimized!DueSources
    BY <1>1, Zenon DEF Optimized!DueSources
  <1>3. NextAfter' = NextAfter
    BY <1>2 DEF NextAfter, DueCount
  <1>4. \A b : Optimized!Events(b)' = Optimized!Events(b)
    BY DEF Optimized!Events
  <1>5. Optimized!DueRows' = Optimized!DueRows
    BY <1>2, <1>4, Zenon DEF Optimized!DueRows
  <1> QED BY <1>3, <1>5

\* The readable engine takes what is ready off its scheduler.
LEMMA DeliverTakes ==
    ASSUME InStep, UNCHANGED replay, Reference!Deliver, refPhase = "deliver", UNCHANGED optVars
    PROVE  /\ delivered' = Optimized!DueRows
           /\ observations' = Queued(NextAfter, optAt)
           /\ IsFiniteSet(observations')
           /\ pending = Cardinality(observations') + Len(delivered')
           /\ refAudit' = refAudit \o Optimized!DeliveryEntries(Optimized!DueRows)
           /\ observed' = Reference!Reduce(observed, Optimized!DueRows)
  <1> DEFINE ready == {o \in observations : o.release <= refAt}  rows == Optimized!DueRows
  <1>1. optPhase = "deliver"
    BY DEF InStep, InPhase
  <1>2. /\ replay \in Replays /\ refAt = optAt /\ optAt \in 1 .. Size
        /\ nextSource \in 1 .. optAt /\ NotBefore(nextSource, optAt)
    BY <1>1, DeliveryShape
  <1>3. /\ observations = Queued(nextSource, optAt) /\ IsFiniteSet(observations)
        /\ pending = Cardinality(observations) + Len(delivered) /\ delivered = <<>>
    BY <1>1 DEF InStep, SameQueue, Applied
  <1>4. ready = {o \in Queued(nextSource, optAt) : o.release <= optAt}
    BY <1>2, <1>3
  <1>5. ready \subseteq observations
    OBVIOUS
  <1> HIDE DEF ready, rows
  <1>6. /\ Queued(nextSource, optAt) \ ready = Queued(NextAfter, optAt)
        /\ IsFiniteSet(ready) /\ Cardinality(ready) = Len(rows)
        /\ [k \in 1 .. Reference!Cardinality(ready) |-> Reference!Popped(ready)[k].event] = rows
    BY <1>2, <1>4, ReadyIsDue DEF rows
  <1>7. /\ observations' = observations \ ready
        /\ delivered' = rows
        /\ observed' = Reference!Reduce(observed, rows)
        /\ refAudit' = refAudit \o Reference!DeliveryEntries(rows)
    BY <1>6 DEF Reference!Deliver, ready
  <1>8. /\ IsFiniteSet(observations')
        /\ Cardinality(observations') = Cardinality(observations) - Cardinality(ready)
    <2>1. observations \cap ready = ready
      BY <1>5
    <2>2. IsFiniteSet(observations)
      BY <1>3
    <2>3. /\ IsFiniteSet(observations \ ready)
          /\ Cardinality(observations \ ready)
               = Cardinality(observations) - Cardinality(observations \cap ready)
      BY <2>2, FS_Difference
    <2> QED BY <1>7, <2>1, <2>3
  <1>9. pending = Cardinality(observations') + Len(delivered')
    <2>1. Len(delivered) = 0 /\ Cardinality(observations) \in Nat /\ Cardinality(ready) \in Nat
      BY <1>3, <1>6, FS_CardinalityType
    <2> QED BY <1>3, <1>6, <1>7, <1>8, <2>1
  <1> QED BY <1>2, <1>3, <1>6, <1>7, <1>8, <1>9, EntriesAgree DEF rows

\* What a delivery leaves of the strategy's pool is known if it was, or if a
\* row says it.
LEMMA ReducedPool ==
    ASSUME NEW rows, Stream(rows), NEW pool
    PROVE  Reference!Reduce(pool, rows) # None
             <=> pool # None \/ \E k \in DOMAIN rows : Optimized!HasReserves(rows[k])
  <1> DEFINE n == Len(rows)  known == {k \in 1 .. n : Optimized!HasReserves(rows[k])}
  <1>1. n \in Nat /\ DOMAIN rows = 1 .. n
    BY StreamShape
  <1>2. {k \in DOMAIN rows : Reference!HasReserves(rows[k])} = known
    BY <1>1, InputsAgree
  <1>3. Reference!Reduce(pool, rows)
          = IF known = {} THEN pool ELSE Reference!EventOf(rows[Reference!Max(known)]).reserves
    BY <1>2 DEF Reference!Reduce
  <1>4. known # {} <=> \E k \in DOMAIN rows : Optimized!HasReserves(rows[k])
    BY <1>1
  <1>5. ASSUME known # {} PROVE Reference!EventOf(rows[Reference!Max(known)]).reserves # None
    <2>1. known \in SUBSET (1 .. n)
      OBVIOUS
    <2>2. \A k \in known : Optimized!HasReserves(rows[k])
      OBVIOUS
    <2> HIDE DEF known, n
    <2>3. Reference!Max(known) \in known
      BY <1>1, <1>5, <2>1, GreatestIsIn
    <2> QED BY <2>2, <2>3, InputsAgree DEF Optimized!HasReserves
  <1> HIDE DEF known, n
  <1> QED BY <1>3, <1>4, <1>5

\* The readable engine delivers, and is then ahead of the other.
LEMMA DeliverFirst ==
    ASSUME InStep, UNCHANGED replay, Reference!Deliver, refPhase = "deliver", UNCHANGED optVars
    PROVE  InStep'
  <1> DEFINE rows == Optimized!DueRows
  <1>1. optPhase = "deliver"
    BY DEF InStep, InPhase
  <1>2. /\ optAt' = optAt /\ optPhase' = optPhase /\ optProposed' = optProposed
        /\ optPortfolio' = optPortfolio /\ optAudit' = optAudit /\ optLedger' = optLedger
        /\ optFills' = optFills /\ optNotices' = optNotices /\ optRaised' = optRaised
        /\ nextSource' = nextSource /\ pending' = pending /\ pendingOrder' = pendingOrder
        /\ historicalPayload' = historicalPayload /\ venuePayload' = venuePayload
        /\ observedExists' = observedExists /\ optSubmitted' = optSubmitted
    BY DEF optVars
  <1>3. /\ refAt' = refAt /\ refPhase' = "decide" /\ refProposed' = refProposed
        /\ refPortfolio' = refPortfolio /\ refLedger' = refLedger /\ refFills' = refFills
        /\ refNotices' = refNotices /\ refRaised' = refRaised
        /\ historical' = historical /\ venue' = venue /\ orders' = orders
        /\ refSubmitted' = refSubmitted /\ refRaised = None
    BY DEF Reference!Deliver, Reference!accounts, Reference!Running
  <1>4. /\ replay \in Replays /\ refAt = optAt /\ optAt \in 1 .. Size
        /\ nextSource \in 1 .. optAt /\ NotBefore(nextSource, optAt)
        /\ Stream(rows)
    BY <1>1, DeliveryShape
  <1>5. /\ delivered' = rows
        /\ observations' = Queued(NextAfter, optAt)
        /\ IsFiniteSet(observations')
        /\ pending = Cardinality(observations') + Len(delivered')
        /\ refAudit' = refAudit \o Optimized!DeliveryEntries(rows)
        /\ observed' = Reference!Reduce(observed, rows)
    BY DeliverTakes
  <1> HIDE DEF rows
  <1>6. InPhase'
    BY <1>1, <1>2, <1>3, <1>4, InputsStay DEF InPhase, InStep
  <1>7. SameOrder'
    BY <1>2, <1>3 DEF InStep, SameOrder
  <1>8. SameOutput'
    <2>1. SameAudit(refAudit, optAudit')
      BY <1>2 DEF InStep, SameOutput, AuditsAgree
    <2>2. Reference!DeliveryEntries(delivered)' = Optimized!DeliveryEntries(rows)
      <3>1. Reference!DeliveryEntries(delivered)' = Reference!DeliveryEntries(rows)
        BY <1>3, <1>5 DEF Reference!DeliveryEntries, Reference!Entry
      <3> QED BY <1>4, <3>1, EntriesAgree
    <2>3. AuditsAgree'
      BY <1>3, <1>5, <2>1, <2>2 DEF AuditsAgree
    <2> QED BY <1>2, <1>3, <2>3 DEF InStep, SameOutput
  <1>9. SameQueue'
    <2>1. Horizon' = optAt
      BY <1>1, <1>2 DEF Horizon
    <2>2. NotBefore(nextSource, Horizon)'
      BY <1>2, <1>4, <2>1, InputsStay
    <2>3. Optimized!DueRows' = rows /\ NextAfter' = NextAfter
      BY <1>2, DueStays DEF rows
    <2>4. Queued(NextAfter, optAt)' = Queued(NextAfter, optAt)
      BY <1>2, <2>3, InputsStay
    <2> QED BY <1>2, <1>3, <1>4, <1>5, <2>1, <2>2, <2>3, <2>4 DEF SameQueue
  <1>10. SamePools'
    <2>1. VenueIsUsed' => VenueIsUsed
      BY <1>1, <1>3 DEF VenueIsUsed
    <2>2. ~DeliveredPool
      BY DEF DeliveredPool
    <2>3. DeliveredPool' <=> \E k \in DOMAIN rows : Optimized!HasReserves(rows[k])
      <3>1. \A e : Optimized!HasReserves(e)' <=> Optimized!HasReserves(e)
        BY InputsStay
      <3>2. DeliveredPool' <=> \E k \in DOMAIN delivered' : Optimized!HasReserves(delivered'[k])
        BY <1>3, <3>1, Zenon DEF DeliveredPool
      <3> QED BY <1>5, <3>2
    <2>4. observed' # None <=> observed # None \/ DeliveredPool'
      BY <1>4, <1>5, <2>3, ReducedPool
    <2>5. \A e : PoolOf(e)' = PoolOf(e)
      BY InputsStay
    <2>6. historical' = PoolOf(historicalPayload)' /\ (VenueIsUsed' => venue' = PoolOf(venuePayload)')
      BY <1>2, <1>3, <2>1, <2>5 DEF InStep, SamePools
    <2> QED BY <1>2, <1>3, <2>2, <2>4, <2>6 DEF InStep, SamePools
  <1> QED BY <1>6, <1>7, <1>8, <1>9, <1>10 DEF InStep

-----------------------------------------------------------------------------
(* The strategy is asked.                                                    *)

\* The rows it is asked about, whether it answers, and what the optimized
\* engine knows by a row.
Targets == {k \in 1 .. Len(Optimized!DueRows) : Optimized!IsTarget(Optimized!DueRows[k])}
Intent == ~refSubmitted /\ Targets # {} /\ observed # None
KnownBy(k) == observedExists \/ \E j \in 1 .. k : Optimized!HasReserves(Optimized!DueRows[j])
Asked == {k \in Targets : ~optSubmitted /\ KnownBy(k)}

\* A set of naturals below a bound has a least element.
LEMMA LeastIsIn ==
    ASSUME NEW n \in Nat, NEW T \in SUBSET (1 .. n), T # {}
    PROVE  Optimized!Min(T) \in T /\ Reference!Min(T) \in T
  <1>1. \E m \in T : \A k \in T : m <= k
    BY LeastNat
  <1>2. Optimized!Min(T) \in T
    BY <1>1, Zenon DEF Optimized!Min
  <1>3. Reference!Min(T) \in T
    BY <1>1, Zenon DEF Reference!Min
  <1> QED BY <1>2, <1>3

\* The strategy answers in both engines or in neither, if not about the same row.
LEMMA IntentTogether ==
    ASSUME InStep, refPhase = "decide"
    PROVE  Intent <=> Asked # {}
  <1> DEFINE rows == Optimized!DueRows  n == Len(rows)
  <1>1. optPhase = "deliver" /\ delivered = rows /\ refSubmitted = optSubmitted
    BY DEF InStep, InPhase, SameQueue, SameOrder
  <1>2. n \in Nat /\ DOMAIN rows = 1 .. n
    BY <1>1, DeliveryShape
  <1>3. ~refSubmitted => (observed # None <=> observedExists \/ \E j \in 1 .. n : Optimized!HasReserves(rows[j]))
    BY <1>1, <1>2 DEF InStep, SamePools, DeliveredPool
  <1> HIDE DEF n, rows
  <1>4. /\ \A k : k \in Targets <=> k \in 1 .. n /\ Optimized!IsTarget(rows[k])
        /\ \A k : KnownBy(k) <=> observedExists \/ \E j \in 1 .. k : Optimized!HasReserves(rows[j])
    BY DEF Targets, KnownBy, n, rows
  <1>5. ASSUME Intent PROVE Asked # {}
    <2>1. ~optSubmitted /\ ~refSubmitted
      BY <1>1, <1>5 DEF Intent
    <2>2. CASE observedExists
      <3>1. PICK k \in Targets : TRUE
        BY <1>5 DEF Intent
      <3> QED BY <1>4, <2>1, <2>2, <3>1 DEF Asked
    <2>3. CASE ~observedExists
      <3>1. PICK j \in 1 .. n : Optimized!HasReserves(rows[j])
        BY <1>3, <1>5, <2>1, <2>3 DEF Intent
      <3>2. j \in Targets /\ j \in 1 .. j
        BY <1>2, <1>4, <3>1 DEF Optimized!HasReserves
      <3>3. KnownBy(j)
        BY <1>4, <3>1, <3>2
      <3> QED BY <2>1, <3>2, <3>3 DEF Asked
    <2> QED BY <2>2, <2>3
  <1>6. ASSUME Asked # {} PROVE Intent
    <2>1. PICK k \in Targets : ~optSubmitted /\ KnownBy(k)
      BY <1>6 DEF Asked
    <2>2. k \in 1 .. n /\ \A j \in 1 .. k : j \in 1 .. n
      BY <1>2, <1>4, <2>1
    <2>3. observedExists \/ \E j \in 1 .. n : Optimized!HasReserves(rows[j])
      BY <1>4, <2>1, <2>2
    <2> QED BY <1>1, <1>3, <2>1, <2>3 DEF Intent
  <1> QED BY <1>5, <1>6

\* What the readable engine's strategy decides.
LEMMA ReferenceDecides ==
    ASSUME InStep, Reference!Decide
    PROVE  /\ refProposed' = IF Intent THEN Optimized!DueRows[Reference!Min(Targets)] ELSE None
           /\ refSubmitted' = (refSubmitted \/ Intent)
           /\ refAudit' = IF Intent THEN Append(refAudit, Record(optAt, "INTENT_PROPOSED", refProposed', None))
                          ELSE refAudit
  <1> DEFINE rows == Optimized!DueRows
  <1>1. refPhase = "decide"
    BY DEF Reference!Decide, Reference!Running
  <1>2. optPhase = "deliver" /\ delivered = rows /\ refAt = optAt
    BY <1>1 DEF InStep, InPhase, SameQueue
  <1>3. DOMAIN rows = 1 .. Len(rows)
    BY <1>2, DeliveryShape
  <1>4. {k \in DOMAIN delivered : Reference!IsTarget(delivered[k])} = Targets
    BY <1>2, <1>3, InputsAgree DEF Targets
  <1> HIDE DEF rows
  <1>5. /\ refProposed' = IF Intent THEN delivered[Reference!Min(Targets)] ELSE None
        /\ refSubmitted' = (refSubmitted \/ Intent)
        /\ refAudit' = IF Intent THEN Append(refAudit, Reference!Entry("INTENT_PROPOSED", refProposed', None))
                       ELSE refAudit
    BY <1>4, Zenon DEF Reference!Decide, Intent
  <1>6. Reference!Entry("INTENT_PROPOSED", refProposed', None)
          = Record(optAt, "INTENT_PROPOSED", refProposed', None)
    BY <1>2, EntriesAgree
  <1> QED BY <1>2, <1>5, <1>6 DEF rows

\* What the optimized engine's strategy decides, row after row.
LEMMA OptimizedDecides ==
    ASSUME InStep, Optimized!DeliverRows, NEW E, E = Optimized!DeliveryEntries(Optimized!DueRows),
           NEW m, m = Optimized!Min(Asked)
    PROVE  /\ nextSource' = NextAfter /\ pending' = pending - Len(Optimized!DueRows)
           /\ Asked = {} => /\ optAudit' = optAudit \o E
                            /\ optProposed' = optProposed /\ optSubmitted' = optSubmitted
           /\ Asked # {} => /\ optProposed' = Optimized!DueRows[m]
                            /\ optSubmitted' = TRUE
                            /\ optAudit' = ((optAudit \o SubSeq(E, 1, m))
                                              \o <<Record(optAt, "INTENT_PROPOSED", optProposed', None)>>)
                                              \o SubSeq(E, m + 1, Len(Optimized!DueRows))
           /\ observedExists' = (observedExists \/ (~optSubmitted /\ KnownBy(Len(Optimized!DueRows))))
  <1> DEFINE rows == Optimized!DueRows
  <1>1. optPhase = "deliver" /\ refAt = optAt
    BY DEF Optimized!DeliverRows, Optimized!Running, InStep, InPhase
  <1>2. DOMAIN rows = 1 .. Len(rows)
    BY <1>1, DeliveryShape
  <1>3. (IF optSubmitted THEN {}
         ELSE {k \in DOMAIN rows : /\ Optimized!IsTarget(rows[k])
                                   /\ observedExists \/ \E j \in 1 .. k : Optimized!HasReserves(rows[j])})
          = Asked
    BY <1>2 DEF Asked, Targets, KnownBy
  <1>4. nextSource' = NextAfter
    BY <1>1, DeliveryShape, DueIs DEF Optimized!DeliverRows, NextAfter
  <1>5. Optimized!Entry("INTENT_PROPOSED", optProposed', None)
          = Record(optAt, "INTENT_PROPOSED", optProposed', None)
    BY <1>1, EntriesAgree
  <1>6. observedExists' = (observedExists \/ (~optSubmitted /\ KnownBy(Len(rows))))
    BY Zenon DEF Optimized!DeliverRows, KnownBy
  <1> HIDE DEF rows
  <1>7. /\ pending' = pending - Len(rows)
        /\ Asked = {} => /\ optAudit' = optAudit \o E
                         /\ optProposed' = optProposed /\ optSubmitted' = optSubmitted
        /\ Asked # {} => /\ optProposed' = rows[m]
                         /\ optSubmitted' = TRUE
                         /\ optAudit' = ((optAudit \o SubSeq(E, 1, m))
                                           \o <<Optimized!Entry("INTENT_PROPOSED", optProposed', None)>>)
                                           \o SubSeq(E, m + 1, Len(rows))
    BY <1>3, Zenon DEF Optimized!DeliverRows, rows
  <1> QED BY <1>4, <1>5, <1>6, <1>7 DEF rows

\* The audits agree again.
LEMMA DecisionsAgree ==
    ASSUME InStep, Reference!Decide, Optimized!DeliverRows
    PROVE  SameAudit(refAudit', optAudit')
  <1> DEFINE rows == Optimized!DueRows  n == Len(rows)
             E == Optimized!DeliveryEntries(rows)  m == Optimized!Min(Asked)
             e == Record(optAt, "INTENT_PROPOSED", refProposed', None)
             f == Record(optAt, "INTENT_PROPOSED", optProposed', None)
  <1>1. refPhase = "decide" /\ optPhase = "deliver" /\ refAt = optAt
    BY DEF InStep, InPhase, Reference!Decide, Reference!Running
  <1>2. delivered = rows
    BY <1>1 DEF InStep, SameQueue
  <1>3. Stream(rows) /\ n \in Nat
    BY <1>1, DeliveryShape
  <1>4. Stream(E) /\ Len(E) = n /\ \A k \in 1 .. n : Kind(E[k]) = "delivery"
    BY <1>3, DeliveryEntriesStream
  <1>5. Blank(e) = Blank(f) /\ Kind(e) = "other" /\ Kind(f) = "other"
    BY OrderRecordBlank DEF OrderRecords
  <1> HIDE DEF rows, n, E, e, f
  <1>6. PICK before : SameAudit(before, optAudit) /\ refAudit = before \o E
    <2>1. PICK before : SameAudit(before, optAudit) /\ refAudit = before \o Reference!DeliveryEntries(delivered)
      BY <1>1 DEF InStep, SameOutput, AuditsAgree
    <2>2. Reference!DeliveryEntries(delivered) = E
      BY <1>1, <1>2, EntriesAgree DEF E
    <2> QED BY <2>1, <2>2
  <1>7. Stream(before) /\ Stream(optAudit)
    BY <1>6 DEF SameAudit
  <1>8. Intent <=> Asked # {}
    BY <1>1, IntentTogether
  <1>9. CASE ~Intent
    <2>1. refAudit' = before \o E
      BY <1>6, <1>9, ReferenceDecides
    <2>2. optAudit' = optAudit \o E
      BY <1>8, <1>9, OptimizedDecides DEF E, rows
    <2>3. SameAudit(E, E)
      BY <1>4, SameAuditSelf
    <2> QED BY <1>6, <2>1, <2>2, <2>3, SameAuditConcat
  <1>10. CASE Intent
    <2> DEFINE a == SubSeq(E, 1, m)  b == SubSeq(E, m + 1, n)
    <2>1. refAudit' = Append(before \o E, e)
      BY <1>6, <1>10, ReferenceDecides DEF e
    <2>2. optAudit' = ((optAudit \o a) \o <<f>>) \o b
      BY <1>8, <1>10, OptimizedDecides DEF E, rows, n, f
    <2>3. m \in 1 .. n
      <3>1. Asked \in SUBSET (1 .. n) /\ Asked # {}
        BY <1>8, <1>10 DEF Asked, Targets, n, rows
      <3>2. m \in Asked
        BY <1>3, <3>1, LeastIsIn
      <3> QED BY <3>1, <3>2
    <2>4. Stream(a) /\ Stream(b)
      <3>1. PICK S : E \in Seq(S)
        BY <1>4 DEF Stream
      <3>2. a \in Seq(S) /\ b \in Seq(S)
        BY <1>3, <1>4, <2>3, <3>1
      <3> QED BY <3>2 DEF Stream
    <2>5. SameAudit(E \o <<e>>, (a \o <<f>>) \o b)
      <3>1. \A k \in 1 .. Len(E) : Kind(E[k]) = "delivery"
        BY <1>4
      <3>2. m \in 1 .. Len(E)
        BY <1>4, <2>3
      <3> HIDE DEF m
      <3> QED BY <1>4, <1>5, <3>1, <3>2, SameAuditAmong
    <2> HIDE DEF a, b, m
    <2> DEFINE x == <<e>>  y == <<f>>
    <2>6. Stream(x) /\ Stream(y)
      BY <1>7, StreamAppend
    <2>7. refAudit' = (before \o E) \o x
      <3>1. Stream(before \o E)
        BY <1>4, <1>7, StreamConcat
      <3> QED BY <2>1, <3>1, StreamAppend
    <2> HIDE DEF x, y
    <2>8. refAudit' = before \o (E \o x)
      BY <1>4, <1>7, <2>6, <2>7, StreamAssociative, SMTT(60)
    <2>9. optAudit' = optAudit \o ((a \o y) \o b)
      <3>1. optAudit' = ((optAudit \o a) \o y) \o b
        BY <2>2 DEF y
      <3>2. (optAudit \o a) \o y = optAudit \o (a \o y)
        BY <1>7, <2>4, <2>6, StreamAssociative, SMTT(60)
      <3>3. Stream(a \o y)
        BY <2>4, <2>6, StreamConcat
      <3>4. (optAudit \o (a \o y)) \o b = optAudit \o ((a \o y) \o b)
        <4> DEFINE c == a \o y
        <4>1. Stream(optAudit) /\ Stream(c) /\ Stream(b)
          BY <1>7, <2>4, <3>3
        <4> HIDE DEF c
        <4>2. (optAudit \o c) \o b = optAudit \o (c \o b)
          BY <4>1, StreamAssociative, SMTT(60)
        <4> QED BY <4>2 DEF c
      <3> QED BY <3>1, <3>2, <3>4
    <2>10. SameAudit(E \o x, (a \o y) \o b)
      BY <2>5 DEF x, y
    <2> QED BY <1>6, <2>8, <2>9, <2>10, SameAuditConcat
  <1> QED BY <1>9, <1>10

\* Both have asked the strategy.
LEMMA DecideTogether ==
    ASSUME InStep, UNCHANGED replay, Reference!Decide, Optimized!DeliverRows
    PROVE  InStep'
  <1> DEFINE rows == Optimized!DueRows  n == Len(rows)
  <1>1. refPhase = "decide" /\ optPhase = "deliver"
    BY DEF InStep, InPhase, Reference!Decide, Reference!Running
  <1>2. /\ replay \in Replays /\ refAt = optAt /\ optAt \in 1 .. Size
        /\ nextSource \in 1 .. optAt /\ NotBefore(nextSource, optAt)
        /\ n \in Nat /\ DOMAIN rows = 1 .. n /\ \A k \in 1 .. n : IsEvent(rows[k])
    BY <1>1, DeliveryShape
  <1>3. /\ optAt' = optAt /\ optPhase' = "accept"
        /\ optPortfolio' = optPortfolio /\ optLedger' = optLedger
        /\ optFills' = optFills /\ optNotices' = optNotices /\ optRaised' = optRaised
        /\ pendingOrder' = pendingOrder
        /\ historicalPayload' = historicalPayload /\ venuePayload' = venuePayload
    BY DEF Optimized!DeliverRows, Optimized!accounts
  <1>4. /\ refAt' = refAt /\ refPhase' = "accept" /\ delivered' = <<>>
        /\ refPortfolio' = refPortfolio /\ refLedger' = refLedger /\ refFills' = refFills
        /\ refNotices' = refNotices /\ refRaised' = refRaised
        /\ historical' = historical /\ venue' = venue /\ orders' = orders
        /\ observed' = observed /\ observations' = observations
    BY DEF Reference!Decide, Reference!accounts
  <1>5. /\ refProposed' = IF Intent THEN rows[Reference!Min(Targets)] ELSE None
        /\ refSubmitted' = (refSubmitted \/ Intent)
    BY ReferenceDecides
  <1>6. /\ nextSource' = NextAfter /\ pending' = pending - n
        /\ Asked = {} => optProposed' = optProposed /\ optSubmitted' = optSubmitted
        /\ Asked # {} => optProposed' = rows[Optimized!Min(Asked)] /\ optSubmitted' = TRUE
        /\ observedExists' = (observedExists \/ (~optSubmitted /\ KnownBy(n)))
    BY OptimizedDecides
  <1>7. Intent <=> Asked # {}
    BY <1>1, IntentTogether
  <1>8. /\ observations = Queued(NextAfter, optAt) /\ IsFiniteSet(observations)
        /\ delivered = rows /\ pending = Cardinality(observations) + n
        /\ Cardinality(observations) \in Nat
    BY <1>1, FS_CardinalityType DEF InStep, SameQueue
  <1>9. \A j \in 1 .. n : IsEvent(rows[j])
    BY <1>2
  <1>10. KnownBy(n) <=> observedExists \/ \E j \in 1 .. n : Optimized!HasReserves(rows[j])
    BY DEF KnownBy
  <1>11. /\ Targets \in SUBSET (1 .. n) /\ Asked \in SUBSET (1 .. n)
         /\ Intent => Targets # {} /\ ~refSubmitted
    BY DEF Targets, Asked, Intent
  <1> HIDE DEF rows, n
  <1>12. Intent => IsEvent(refProposed') /\ IsEvent(optProposed')
    <2>1. Intent => Reference!Min(Targets) \in 1 .. n /\ Optimized!Min(Asked) \in 1 .. n
      BY <1>2, <1>7, <1>11, LeastIsIn
    <2> QED BY <1>5, <1>6, <1>7, <1>9, <2>1
  <1>13. /\ refSubmitted = optSubmitted /\ refSubmitted \in BOOLEAN
         /\ refProposed = None /\ optProposed = None
         /\ ~refSubmitted => orders = {}
    BY <1>1 DEF InStep, SameOrder
  <1>14. /\ refSubmitted' = optSubmitted' /\ refSubmitted' \in BOOLEAN
         /\ refSubmitted => refSubmitted'
         /\ Intent => refSubmitted'
    <2>1. refSubmitted \in BOOLEAN /\ Intent \in BOOLEAN
      BY <1>13 DEF Intent
    <2>2. refSubmitted' = TRUE \/ (refSubmitted' = refSubmitted /\ ~Intent)
      BY <1>5, <2>1
    <2>3. refSubmitted \/ Intent => refSubmitted'
      BY <1>5, <2>1
    <2>4. refSubmitted' = optSubmitted'
      <3>1. CASE Intent
        BY <1>6, <1>7, <2>1, <2>2, <2>3, <3>1
      <3>2. CASE ~Intent
        BY <1>5, <1>6, <1>7, <1>13, <2>1, <3>2, Zenon
      <3> QED BY <3>1, <3>2
    <2> QED BY <1>13, <2>2, <2>3, <2>4
  <1>15. refProposed' # None => Intent
    BY <1>5
  <1>16. InPhase'
    BY <1>2, <1>3, <1>4, InputsStay DEF InPhase, InStep
  <1>17. SameOrder'
    <2>1. \/ refProposed' = None /\ optProposed' = None
          \/ /\ IsEvent(refProposed') /\ IsEvent(optProposed')
             /\ refSubmitted' /\ orders' = {}
      BY <1>4, <1>5, <1>6, <1>7, <1>11, <1>12, <1>13, <1>14
    <2>2. \/ orders' = {} /\ pendingOrder' = None
          \/ /\ refSubmitted'
             /\ pendingOrder' \in [release : Nat, order : Nat \X Nat]
             /\ pendingOrder'.release >= optAt'
             /\ \E o \in orders' : orders' = {o} /\ o.release = pendingOrder'.release
      BY <1>3, <1>4, <1>14 DEF InStep, SameOrder
    <2> QED BY <1>3, <1>14, <2>1, <2>2 DEF SameOrder, IsEvent
  <1>18. SameOutput'
    <2>1. SameAudit(refAudit', optAudit')
      BY DecisionsAgree
    <2>2. AuditsAgree'
      BY <1>4, <2>1 DEF AuditsAgree
    <2> QED BY <1>3, <1>4, <2>2 DEF InStep, SameOutput
  <1>19. SameQueue'
    <2>1. /\ NextAfter \in nextSource .. optAt + 1 /\ NotBefore(NextAfter, optAt + 1)
      BY <1>2, DueIs
    <2>2. Horizon' = optAt + 1 /\ Applied' = optAt
      BY <1>3 DEF Horizon, Applied
    <2>3. nextSource' \in 1 .. Horizon'
      BY <1>2, <1>6, <2>1, <2>2, ReplayShape
    <2>4. NotBefore(nextSource, Horizon)'
      BY <1>6, <2>1, <2>2, InputsStay
    <2>5. Queued(nextSource, Applied)' = Queued(NextAfter, optAt)
      BY <1>6, <2>2, InputsStay
    <2>6. Len(delivered') = 0
      BY <1>4
    <2>7. pending' = Cardinality(observations') + Len(delivered')
      BY <1>2, <1>4, <1>6, <1>8, <2>6
    <2> QED BY <1>4, <1>8, <2>3, <2>4, <2>5, <2>7 DEF SameQueue
  <1>20. SamePools'
    <2>1. VenueIsUsed' => VenueIsUsed
      BY <1>4, <1>11, <1>14, <1>15 DEF VenueIsUsed
    <2>2. ~DeliveredPool'
      BY <1>4 DEF DeliveredPool
    <2>3. DeliveredPool <=> \E j \in 1 .. n : Optimized!HasReserves(rows[j])
      BY <1>1, <1>2, <1>8 DEF DeliveredPool
    <2>4. /\ observedExists' \in BOOLEAN
          /\ ~refSubmitted' => (observed' # None <=> observedExists')
      BY <1>4, <1>6, <1>10, <1>13, <1>14, <2>3 DEF InStep, SamePools
    <2>5. \A e : PoolOf(e)' = PoolOf(e)
      BY InputsStay
    <2>6. historical' = PoolOf(historicalPayload)' /\ (VenueIsUsed' => venue' = PoolOf(venuePayload)')
      BY <1>3, <1>4, <2>1, <2>5 DEF InStep, SamePools
    <2>7. historicalPayload' # None => historical' # None
      BY <1>3, <1>4 DEF InStep, SamePools
    <2> QED BY <2>2, <2>4, <2>6, <2>7 DEF SamePools
  <1> QED BY <1>16, <1>17, <1>18, <1>19, <1>20 DEF InStep

-----------------------------------------------------------------------------
(* An intent is accepted or refused.                                         *)

\* What acceptance leaves of the order.
AcceptedTogether ==
    /\ SameAfter
    /\ \/ orders' = orders /\ pendingOrder' = pendingOrder
       \/ /\ refProposed # None /\ orders = {}
          /\ pendingOrder' \in [release : Nat, order : Nat \X Nat]
          /\ pendingOrder'.release >= optAt
          /\ \E o \in orders' : orders' = {o} /\ o.release = pendingOrder'.release

\* A boundary has an intent in both engines or in neither, and both refuse it
\* or hold it for the same boundary.
LEMMA AcceptAlike ==
    ASSUME InStep, Reference!Accept, Optimized!Accept
    PROVE  AcceptedTogether
  <1> DEFINE release == Optimized!OrderReleaseIndex(optAt)
  <1>1. refPhase = "accept" /\ optPhase = "accept" /\ refAt = optAt
    BY DEF InStep, InPhase, Reference!Accept, Optimized!Accept, Reference!Running, Optimized!Running
  <1>2. replay \in Replays /\ optAt \in 1 .. Size
    BY <1>1 DEF InStep, InPhase
  <1>3. SameBefore
    BY <1>1, SameOutputBefore
  <1>4. refProposed # None <=> optProposed # None
    BY NotNone DEF InStep, SameOrder
  <1>5. CASE refProposed = None
    <2>1. Reference!AcceptNothing /\ Optimized!AcceptNothing
      BY <1>4, <1>5 DEF Reference!Accept, Optimized!Accept, Reference!AcceptProposed,
          Optimized!AcceptProposed
    <2>2. /\ refAudit' = refAudit /\ optAudit' = optAudit
          /\ refNotices' = refNotices /\ optNotices' = optNotices
          /\ refPortfolio' = refPortfolio /\ optPortfolio' = optPortfolio
          /\ refLedger' = refLedger /\ optLedger' = optLedger
          /\ refFills' = refFills /\ optFills' = optFills
          /\ orders' = orders /\ pendingOrder' = pendingOrder
      BY <2>1 DEF Reference!AcceptNothing, Optimized!AcceptNothing, Reference!accounts,
          Optimized!accounts
    <2> QED BY <1>3, <2>2 DEF SameBefore, SameAfter, AcceptedTogether
  <1>6. CASE refProposed # None
    <2>1. Reference!AcceptProposed /\ Optimized!AcceptProposed
      BY <1>4, <1>6 DEF Reference!Accept, Optimized!Accept, Reference!AcceptNothing,
          Optimized!AcceptNothing
    <2>2. Reference!OrderRelease(refAt) = release
      BY <1>1, <1>2, OrderReleases
    <2>3. /\ IsEvent(refProposed) /\ IsEvent(optProposed) /\ orders = {}
      BY <1>1, <1>6 DEF InStep, SameOrder
    <2>4. IsFirst(release, optAt + 1, replay.blocks[optAt] + replay.orderSlots)
      BY <1>2, OrderReleases
    <2> HIDE DEF release
    <2>5. Reference!Refusal(release) = Optimized!Refusal(release)
      BY <1>3, SameRefusal
    <2>6. CASE Optimized!Refusal(release) # None
      <3>1. Reference!RejectOrder(Reference!Refusal(release)) /\ orders' = orders
        BY <2>1, <2>2, <2>5, <2>6, Zenon DEF Reference!AcceptProposed
      <3>2. Optimized!RejectOrder(Optimized!Refusal(release)) /\ pendingOrder' = pendingOrder
        BY <2>1, <2>6, Zenon DEF Optimized!AcceptProposed, release
      <3>3. SameAfter
        BY <1>3, <2>5, <3>1, <3>2, RejectTogether
      <3> QED BY <3>1, <3>2, <3>3 DEF AcceptedTogether
    <2>7. CASE Optimized!Refusal(release) = None
      <3>1. /\ Reference!ReserveOrder(release)
            /\ orders' = orders \cup {[release |-> release, creator |-> refAt, order |-> refProposed]}
        BY <2>1, <2>2, <2>5, <2>7, Zenon DEF Reference!AcceptProposed
      <3>2. /\ Optimized!ReserveOrder(release)
            /\ pendingOrder' = [release |-> release, order |-> optProposed]
        BY <2>1, <2>7, Zenon DEF Optimized!AcceptProposed, release
      <3>3. SameAfter
        BY <1>3, <3>1, <3>2, ReserveTogether
      <3>4. release # None
        <4>1. None # "HORIZON_EXHAUSTED"
          BY NotNone
        <4> QED BY <2>7, <4>1, Zenon DEF Optimized!Refusal
      <3>5. release \in Nat /\ release >= optAt
        <4>1. release \in 1 .. Size /\ release >= optAt + 1
          BY <2>4, <3>4 DEF IsFirst
        <4>2. Size \in Nat
          BY <1>2, ReplayShape
        <4> QED BY <1>2, <4>1, <4>2
      <3>6. /\ pendingOrder' \in [release : Nat, order : Nat \X Nat]
            /\ pendingOrder'.release = release
        BY <2>3, <3>2, <3>5 DEF IsEvent
      <3>7. \E o \in orders' : orders' = {o} /\ o.release = release
        <4> DEFINE o == [release |-> release, creator |-> refAt, order |-> refProposed]
        <4>1. o.release = release
          OBVIOUS
        <4> HIDE DEF o
        <4>2. orders' = {o}
          BY <2>3, <3>1 DEF o
        <4> QED BY <4>1, <4>2
      <3> QED BY <1>6, <2>3, <3>3, <3>5, <3>6, <3>7 DEF AcceptedTogether
    <2> QED BY <2>6, <2>7
  <1> QED BY <1>5, <1>6

\* Both have accepted or refused.
LEMMA AcceptTogether ==
    ASSUME InStep, UNCHANGED replay, Reference!Accept, Optimized!Accept
    PROVE  InStep'
  <1>1. refPhase = "accept" /\ optPhase = "accept" /\ refAt = optAt
    BY DEF InStep, InPhase, Reference!Accept, Optimized!Accept, Reference!Running, Optimized!Running
  <1>2. replay \in Replays /\ optAt \in 1 .. Size /\ Size \in Nat
    BY <1>1, ReplayShape DEF InStep, InPhase
  <1>3. AcceptedTogether
    BY AcceptAlike
  <1>4. /\ refAt' = refAt /\ refPhase' = "execute" /\ refProposed' = refProposed
        /\ historical' = historical /\ observed' = observed /\ venue' = venue
        /\ observations' = observations /\ delivered' = delivered /\ refSubmitted' = refSubmitted
        /\ refRaised' = Reference!BudgetError(Reference!Cardinality(observations)
                                                + Reference!Cardinality(orders'))
    BY DEF Reference!Accept
  <1>5. /\ optAt' = optAt /\ optPhase' = "execute" /\ optProposed' = optProposed
        /\ nextSource' = nextSource /\ pending' = pending
        /\ historicalPayload' = historicalPayload /\ venuePayload' = venuePayload
        /\ observedExists' = observedExists /\ optSubmitted' = optSubmitted
        /\ optRaised' = Optimized!BudgetError(pending + IF pendingOrder' = None THEN 0 ELSE 1)
    BY DEF Optimized!Accept
  <1>6. InPhase'
    BY <1>1, <1>2, <1>4, <1>5, InputsStay DEF InPhase
  <1>7. /\ orders' = {} /\ pendingOrder' = None
        \/ /\ refSubmitted
           /\ pendingOrder' \in [release : Nat, order : Nat \X Nat]
           /\ pendingOrder'.release >= optAt
           /\ \E o \in orders' : orders' = {o} /\ o.release = pendingOrder'.release
    <2>1. CASE orders' = orders /\ pendingOrder' = pendingOrder
      BY <2>1 DEF InStep, SameOrder
    <2>2. CASE ~(orders' = orders /\ pendingOrder' = pendingOrder)
      <3>1. refSubmitted
        BY <1>3, <2>2 DEF AcceptedTogether, InStep, SameOrder
      <3> QED BY <1>3, <2>2, <3>1 DEF AcceptedTogether
    <2> QED BY <2>1, <2>2
  <1>8. SameOrder'
    <2>1. \/ refProposed' = None /\ optProposed' = None
          \/ IsEvent(refProposed') /\ IsEvent(optProposed') /\ refSubmitted'
      BY <1>4, <1>5 DEF InStep, SameOrder
    <2>2. refSubmitted' = optSubmitted' /\ refSubmitted' \in BOOLEAN
      BY <1>4, <1>5 DEF InStep, SameOrder
    <2> QED BY <1>4, <1>5, <1>7, <2>1, <2>2 DEF SameOrder, IsEvent
  <1>9. refRaised' = optRaised'
    <2>1. Reference!Cardinality(observations) = pending
      <3>1. /\ IsFiniteSet(observations) /\ delivered = <<>>
            /\ pending = Cardinality(observations) + Len(delivered)
        BY <1>1 DEF InStep, SameQueue
      <3>2. Cardinality(observations) \in Nat /\ Len(delivered) = 0
        BY <3>1, FS_CardinalityType
      <3> QED BY <3>1, <3>2, Cardinalities
    <2>2. Reference!Cardinality(orders') = IF pendingOrder' = None THEN 0 ELSE 1
      <3>1. CASE orders' = {} /\ pendingOrder' = None
        BY <3>1, FS_EmptySet, Cardinalities
      <3>2. CASE ~(orders' = {} /\ pendingOrder' = None)
        <4>1. PICK o \in orders' : orders' = {o}
          BY <1>7, <3>2
        <4>2. pendingOrder' # None
          BY <1>7, <3>2, NotNone
        <4>3. Cardinality({o}) = 1
          BY FS_Singleton
        <4>4. Reference!Cardinality(orders') = Cardinality({o})
          BY <4>1, Cardinalities
        <4> QED BY <4>2, <4>3, <4>4
      <3> QED BY <3>1, <3>2
    <2> QED BY <1>4, <1>5, <2>1, <2>2, InputsAgree
  <1>10. SameOutput'
    BY <1>3, <1>4, <1>9, SameOutputAfter DEF AcceptedTogether
  <1>11. SameQueue'
    <2>1. Horizon' = Horizon /\ Applied' = Applied
      BY <1>1, <1>5 DEF Horizon, Applied
    <2>2. NotBefore(nextSource, Horizon)' <=> NotBefore(nextSource, Horizon)
      BY <1>5, <2>1, InputsStay
    <2>3. Queued(nextSource, Applied)' = Queued(nextSource, Applied)
      BY <1>5, <2>1, InputsStay
    <2>4. /\ nextSource \in 1 .. Horizon /\ NotBefore(nextSource, Horizon)
          /\ observations = Queued(nextSource, Applied) /\ IsFiniteSet(observations)
          /\ delivered = <<>> /\ pending = Cardinality(observations) + Len(delivered)
      BY <1>1 DEF InStep, SameQueue
    <2> QED BY <1>4, <1>5, <2>1, <2>2, <2>3, <2>4 DEF SameQueue
  <1>12. SamePools'
    <2>1. VenueIsUsed' => VenueIsUsed
      BY <1>1, <1>3, <1>4 DEF VenueIsUsed, AcceptedTogether
    <2>2. ~DeliveredPool /\ ~DeliveredPool'
      BY <1>1, <1>4 DEF DeliveredPool
    <2>3. \A e : PoolOf(e)' = PoolOf(e)
      BY InputsStay
    <2>4. historical' = PoolOf(historicalPayload)' /\ (VenueIsUsed' => venue' = PoolOf(venuePayload)')
      BY <1>4, <1>5, <2>1, <2>3 DEF InStep, SamePools
    <2> QED BY <1>4, <1>5, <2>2, <2>4 DEF InStep, SamePools
  <1> QED BY <1>6, <1>8, <1>10, <1>11, <1>12 DEF InStep

-----------------------------------------------------------------------------
(* The order is executed, the boundary and the run end.                      *)

\* Both have executed the order, against the same pool.
LEMMA SameExecution ==
    ASSUME InStep, UNCHANGED replay, Reference!Execute, Optimized!Execute
    PROVE  InStep'
  <1>1. refPhase = "execute" /\ optPhase = "execute" /\ refAt = optAt
    BY DEF InStep, InPhase, Reference!Execute, Optimized!Execute, Reference!Running, Optimized!Running
  <1>2. replay \in Replays /\ optAt \in 1 .. Size
    BY <1>1 DEF InStep, InPhase
  <1>3. pendingOrder # None
    BY DEF Optimized!Execute, Optimized!OrderIsDue
  <1>4. refSubmitted /\ \E o \in orders : orders = {o}
    BY <1>3 DEF InStep, SameOrder
  <1>5. PICK o \in orders : /\ Reference!ExecuteOrder(o.order, venue)
                            /\ orders' = orders \ {o}
    BY DEF Reference!Execute, Reference!ReadyOrders
  <1>6. orders' = {}
    BY <1>4, <1>5
  <1>7. venue = Optimized!VenuePool
    BY <1>4 DEF InStep, SamePools, VenueIsUsed, PoolOf, Optimized!VenuePool
  <1>8. Optimized!ExecuteOrder(pendingOrder.order, venue)
    BY <1>7 DEF Optimized!Execute
  <1>9. SameAfter
    <2>1. SameBefore
      BY <1>1, SameOutputBefore
    <2> DEFINE i == o.order  j == pendingOrder.order
    <2>2. Reference!ExecuteOrder(i, venue) /\ Optimized!ExecuteOrder(j, venue)
      BY <1>5, <1>8
    <2> HIDE DEF i, j
    <2> QED BY <2>1, <2>2, ExecuteTogether
  <1>10. /\ refAt' = refAt /\ refPhase' = refPhase /\ refProposed' = refProposed
         /\ historical' = historical /\ observed' = observed
         /\ observations' = observations /\ delivered' = delivered /\ refSubmitted' = refSubmitted
         /\ refRaised' = refRaised
    BY DEF Reference!Execute
  <1>11. /\ optAt' = optAt /\ optPhase' = optPhase /\ optProposed' = optProposed
         /\ nextSource' = nextSource /\ pending' = pending /\ pendingOrder' = None
         /\ historicalPayload' = historicalPayload /\ venuePayload' = venuePayload
         /\ observedExists' = observedExists /\ optSubmitted' = optSubmitted
         /\ optRaised' = optRaised
    BY DEF Optimized!Execute
  <1>12. InPhase'
    BY <1>1, <1>2, <1>10, <1>11, InputsStay DEF InPhase, InStep
  <1>13. SameOrder'
    <2>1. \/ refProposed' = None /\ optProposed' = None
          \/ IsEvent(refProposed') /\ IsEvent(optProposed') /\ refSubmitted'
      BY <1>10, <1>11 DEF InStep, SameOrder
    <2>2. refSubmitted' = optSubmitted' /\ refSubmitted' \in BOOLEAN
      BY <1>10, <1>11 DEF InStep, SameOrder
    <2> QED BY <1>1, <1>6, <1>11, <2>1, <2>2 DEF SameOrder, IsEvent
  <1>14. SameOutput'
    <2>1. refRaised' = optRaised'
      BY <1>10, <1>11 DEF InStep, SameOutput
    <2> QED BY <1>1, <1>9, <1>10, <2>1, SameOutputAfter
  <1>15. SameQueue'
    <2>1. Horizon' = Horizon /\ Applied' = Applied
      BY <1>11 DEF Horizon, Applied
    <2>2. NotBefore(nextSource, Horizon)' <=> NotBefore(nextSource, Horizon)
      BY <1>11, <2>1, InputsStay
    <2>3. Queued(nextSource, Applied)' = Queued(nextSource, Applied)
      BY <1>11, <2>1, InputsStay
    <2>4. /\ nextSource \in 1 .. Horizon /\ NotBefore(nextSource, Horizon)
          /\ observations = Queued(nextSource, Applied) /\ IsFiniteSet(observations)
          /\ delivered = <<>> /\ pending = Cardinality(observations) + Len(delivered)
      BY <1>1 DEF InStep, SameQueue
    <2> QED BY <1>1, <1>10, <1>11, <2>1, <2>2, <2>3, <2>4 DEF SameQueue
  <1>16. SamePools'
    <2>1. ~VenueIsUsed'
      BY <1>1, <1>4, <1>6, <1>10 DEF VenueIsUsed
    <2>2. \A e : PoolOf(e)' = PoolOf(e)
      BY InputsStay
    <2>3. historical' = PoolOf(historicalPayload)'
      BY <1>10, <1>11, <2>2 DEF InStep, SamePools
    <2>4. refSubmitted'
      BY <1>4, <1>10
    <2> QED BY <1>10, <1>11, <2>1, <2>3, <2>4 DEF InStep, SamePools
  <1> QED BY <1>12, <1>13, <1>14, <1>15, <1>16 DEF InStep

\* Both are at the next boundary, or past the last.
LEMMA CheckpointTogether ==
    ASSUME InStep, UNCHANGED replay, Reference!Checkpoint, Optimized!Checkpoint
    PROVE  InStep'
  <1>1. refPhase = "execute" /\ optPhase = "execute" /\ refAt = optAt
    BY DEF InStep, InPhase, Reference!Checkpoint, Optimized!Checkpoint, Reference!Running, Optimized!Running
  <1>2. /\ replay \in Replays /\ optAt \in 1 .. Size /\ Size \in Nat
        /\ Optimized!Boundaries = 1 .. Size
    BY <1>1, ReplayShape DEF InStep, InPhase
  <1>3. /\ SameAfter
        /\ refAt' = optAt + 1 /\ optAt' = optAt + 1
        /\ refPhase' = optPhase' /\ refRaised' = optRaised'
        /\ refProposed' = None /\ optProposed' = None
        /\ optPhase' = IF optAt + 1 \in 1 .. Size THEN "apply" ELSE "finish"
    <2>1. SameBefore /\ refRaised = optRaised
      BY <1>1, SameOutputBefore DEF InStep, SameOutput
    <2>2. Reference!EndBoundary /\ Optimized!EndBoundary
      BY DEF Reference!Checkpoint, Optimized!Checkpoint
    <2> QED BY <1>2, <2>1, <2>2, EndTogether
  <1>4. /\ historical' = historical /\ observed' = observed /\ venue' = venue
        /\ observations' = observations /\ orders' = orders /\ delivered' = delivered
        /\ refSubmitted' = refSubmitted
    BY DEF Reference!Checkpoint
  <1>5. /\ nextSource' = nextSource /\ pending' = pending /\ pendingOrder' = pendingOrder
        /\ historicalPayload' = historicalPayload /\ venuePayload' = venuePayload
        /\ observedExists' = observedExists /\ optSubmitted' = optSubmitted
        /\ ~Optimized!OrderIsDue
    BY DEF Optimized!Checkpoint
  <1>6. /\ optPhase' \in {"apply", "finish"}
        /\ optPhase' = "apply" => optAt' \in 1 .. Size
    BY <1>3
  <1>7. InPhase'
    <2>1. optAt' \in 1 .. Size' + 1
      BY <1>2, <1>3, InputsStay
    <2> QED BY <1>2, <1>3, <1>6, <2>1, InputsStay DEF InPhase
  <1>8. SameOrder'
    <2>1. \/ orders' = {} /\ pendingOrder' = None
          \/ /\ refSubmitted'
             /\ pendingOrder' \in [release : Nat, order : Nat \X Nat]
             /\ pendingOrder'.release >= optAt'
             /\ \E o \in orders' : orders' = {o} /\ o.release = pendingOrder'.release
      <3>1. CASE orders = {} /\ pendingOrder = None
        BY <1>4, <1>5, <3>1
      <3>2. CASE ~(orders = {} /\ pendingOrder = None)
        <4>1. /\ refSubmitted
              /\ pendingOrder \in [release : Nat, order : Nat \X Nat]
              /\ pendingOrder.release >= optAt
              /\ \E o \in orders : orders = {o} /\ o.release = pendingOrder.release
          BY <3>2 DEF InStep, SameOrder
        <4>2. pendingOrder # None
          BY <4>1, NotNone
        <4>3. pendingOrder.release # optAt
          BY <1>5, <4>2 DEF Optimized!OrderIsDue
        <4>4. pendingOrder.release \in Nat
          BY <4>1
        <4>5. pendingOrder.release >= optAt + 1
          BY <1>2, <4>1, <4>3, <4>4
        <4> QED BY <1>3, <1>4, <1>5, <4>1, <4>5
      <3> QED BY <3>1, <3>2
    <2>2. refSubmitted' = optSubmitted' /\ refSubmitted' \in BOOLEAN
      BY <1>4, <1>5 DEF InStep, SameOrder
    <2> QED BY <1>3, <2>1, <2>2 DEF SameOrder
  <1>9. SameOutput'
    <2>1. refPhase' # "decide"
      BY <1>3, <1>6
    <2> QED BY <1>3, <2>1, SameOutputAfter
  <1>10. SameQueue'
    <2>1. /\ Horizon = optAt + 1 /\ Applied = optAt
          /\ Horizon' = optAt + 1 /\ Applied' = optAt
      BY <1>1, <1>2, <1>3, <1>6 DEF Horizon, Applied
    <2>2. NotBefore(nextSource, Horizon)' <=> NotBefore(nextSource, Horizon)
      BY <1>5, <2>1, InputsStay
    <2>3. Queued(nextSource, Applied)' = Queued(nextSource, Applied)
      BY <1>5, <2>1, InputsStay
    <2>4. /\ nextSource \in 1 .. Horizon /\ NotBefore(nextSource, Horizon)
          /\ observations = Queued(nextSource, Applied) /\ IsFiniteSet(observations)
          /\ delivered = <<>> /\ pending = Cardinality(observations) + Len(delivered)
      BY <1>1 DEF InStep, SameQueue
    <2>5. refPhase' # "decide"
      BY <1>3, <1>6
    <2> QED BY <1>4, <1>5, <2>1, <2>2, <2>3, <2>4, <2>5 DEF SameQueue
  <1>11. SamePools'
    <2>1. VenueIsUsed' => VenueIsUsed
      BY <1>3, <1>4 DEF VenueIsUsed
    <2>2. ~DeliveredPool /\ ~DeliveredPool'
      BY <1>1, <1>3, <1>6 DEF DeliveredPool
    <2>3. \A e : PoolOf(e)' = PoolOf(e)
      BY InputsStay
    <2>4. historical' = PoolOf(historicalPayload)' /\ (VenueIsUsed' => venue' = PoolOf(venuePayload)')
      BY <1>4, <1>5, <2>1, <2>3 DEF InStep, SamePools
    <2> QED BY <1>4, <1>5, <2>2, <2>4 DEF InStep, SamePools
  <1> QED BY <1>7, <1>8, <1>9, <1>10, <1>11 DEF InStep

\* Both find something left over, or nothing.
LEMMA FinishTogether ==
    ASSUME InStep, UNCHANGED replay, Reference!Finish, Optimized!Finish
    PROVE  InStep'
  <1>1. refPhase = "finish" /\ optPhase = "finish" /\ refAt = optAt
    BY DEF InStep, InPhase, Reference!Finish, Optimized!Finish, Reference!Running, Optimized!Running
  <1>2. /\ refAt' = refAt /\ refPhase' = "done" /\ refProposed' = refProposed
        /\ refPortfolio' = refPortfolio /\ refAudit' = refAudit /\ refLedger' = refLedger
        /\ refFills' = refFills /\ refNotices' = refNotices
        /\ historical' = historical /\ observed' = observed /\ venue' = venue
        /\ observations' = observations /\ orders' = orders /\ delivered' = delivered
        /\ refSubmitted' = refSubmitted
        /\ refRaised' = IF observations = {} /\ orders = {} THEN None ELSE "LEFTOVER"
    BY DEF Reference!Finish, Reference!accounts
  <1>3. /\ optAt' = optAt /\ optPhase' = "done" /\ optProposed' = optProposed
        /\ optPortfolio' = optPortfolio /\ optAudit' = optAudit /\ optLedger' = optLedger
        /\ optFills' = optFills /\ optNotices' = optNotices
        /\ nextSource' = nextSource /\ pending' = pending /\ pendingOrder' = pendingOrder
        /\ historicalPayload' = historicalPayload /\ venuePayload' = venuePayload
        /\ observedExists' = observedExists /\ optSubmitted' = optSubmitted
        /\ optRaised' = IF pending = 0 /\ pendingOrder = None THEN None ELSE "LEFTOVER"
    BY DEF Optimized!Finish, Optimized!accounts
  <1>4. /\ nextSource \in 1 .. Horizon /\ NotBefore(nextSource, Horizon)
        /\ observations = Queued(nextSource, Applied) /\ IsFiniteSet(observations)
        /\ delivered = <<>> /\ pending = Cardinality(observations) + Len(delivered)
    BY <1>1 DEF InStep, SameQueue
  <1>5. refRaised' = optRaised'
    <2>1. observations = {} <=> pending = 0
      <3>1. Cardinality(observations) \in Nat /\ Len(delivered) = 0
        BY <1>4, FS_CardinalityType
      <3>2. Cardinality(observations) = 0 <=> observations = {}
        BY <1>4, FS_EmptySet
      <3>3. pending = Cardinality(observations) + Len(delivered)
        BY <1>4
      <3> QED BY <3>1, <3>2, <3>3
    <2>2. orders = {} <=> pendingOrder = None
      BY NotNone DEF InStep, SameOrder
    <2> QED BY <1>2, <1>3, <2>1, <2>2
  <1>6. InPhase'
    BY <1>1, <1>2, <1>3, InputsStay DEF InPhase, InStep
  <1>7. SameOrder'
    BY <1>1, <1>2, <1>3 DEF InStep, SameOrder
  <1>8. SameOutput'
    <2>1. SameBefore
      BY <1>1, SameOutputBefore
    <2>2. SameAfter
      BY <1>2, <1>3, <2>1 DEF SameBefore, SameAfter
    <2> QED BY <1>2, <1>5, <2>2, SameOutputAfter
  <1>9. SameQueue'
    <2>1. Horizon' = Horizon /\ Applied' = Applied
      BY <1>1, <1>3 DEF Horizon, Applied
    <2>2. NotBefore(nextSource, Horizon)' <=> NotBefore(nextSource, Horizon)
      BY <1>3, <2>1, InputsStay
    <2>3. Queued(nextSource, Applied)' = Queued(nextSource, Applied)
      BY <1>3, <2>1, InputsStay
    <2> QED BY <1>2, <1>3, <1>4, <2>1, <2>2, <2>3 DEF SameQueue
  <1>10. SamePools'
    <2>1. VenueIsUsed' => VenueIsUsed
      BY <1>2 DEF VenueIsUsed
    <2>2. ~DeliveredPool /\ ~DeliveredPool'
      BY <1>1, <1>2 DEF DeliveredPool
    <2>3. \A e : PoolOf(e)' = PoolOf(e)
      BY InputsStay
    <2>4. historical' = PoolOf(historicalPayload)' /\ (VenueIsUsed' => venue' = PoolOf(venuePayload)')
      BY <1>2, <1>3, <2>1, <2>3 DEF InStep, SamePools
    <2> QED BY <1>2, <1>3, <2>2, <2>4 DEF InStep, SamePools
  <1> QED BY <1>6, <1>7, <1>8, <1>9, <1>10 DEF InStep

-----------------------------------------------------------------------------
(* The engines are in step, whatever the inputs, and end alike.              *)

\* They start in step.
LEMMA StartInStep == ParityInit => InStep
  <1> SUFFICES ASSUME ParityInit PROVE InStep
    OBVIOUS
  <1>1. /\ replay \in Replays
        /\ refAt = 1 /\ refPhase = "apply" /\ refProposed = None
        /\ refAudit = <<>> /\ refLedger = <<>> /\ refFills = <<>> /\ refNotices = <<>>
        /\ refRaised = None /\ historical = None /\ observed = None /\ venue = None
        /\ observations = {} /\ orders = {} /\ delivered = <<>> /\ refSubmitted = FALSE
        /\ refPortfolio = [available |-> replay.funds, reserved |-> 0, bought |-> 0]
    BY DEF ParityInit, Reference!ReferenceInit, Reference!EngineInit
  <1>2. /\ optAt = 1 /\ optPhase = "apply" /\ optProposed = None
        /\ optAudit = <<>> /\ optLedger = <<>> /\ optFills = <<>> /\ optNotices = <<>>
        /\ optRaised = None /\ nextSource = 1 /\ pending = 0 /\ pendingOrder = None
        /\ historicalPayload = None /\ venuePayload = None /\ observedExists = FALSE
        /\ optSubmitted = FALSE
        /\ optPortfolio = [available |-> replay.funds, reserved |-> 0, bought |-> 0]
    BY DEF ParityInit, Optimized!OptimizedInit, Optimized!EngineInit
  <1>3. Size \in Nat \ {0}
    BY <1>1, ReplayShape
  <1>4. InPhase
    BY <1>1, <1>2, <1>3 DEF InPhase
  <1>5. Stream(<<>>) /\ Len(<<>>) = 0
    <2>1. <<>> \in Seq({})
      OBVIOUS
    <2> QED BY <2>1 DEF Stream
  <1>6. SameOutput
    <2>1. SameLog(refLedger, optLedger) /\ SameLog(refFills, optFills)
      BY <1>1, <1>2, <1>5 DEF SameLog
    <2>2. SameNotices(refNotices, optNotices)
      BY <1>1, <1>2, <1>5 DEF SameNotices
    <2>3. SameAudit(refAudit, optAudit)
      BY <1>1, <1>2, <1>5, SameAuditSelf
    <2> QED BY <1>1, <1>2, <2>1, <2>2, <2>3 DEF SameOutput, AuditsAgree
  <1>7. SameQueue
    <2>1. Horizon = 1 /\ Applied = 0
      BY <1>2 DEF Horizon, Applied
    <2>2. NotBefore(1, 1)
      <3> SUFFICES ASSUME NEW s \in 1 .. Size PROVE Release(s) = None \/ Release(s) >= 1
        BY DEF NotBefore
      <3>1. s \in Nat /\ s <= s /\ s >= 1
        BY <1>3
      <3>2. Release(s) = None \/ Release(s) \in s .. Size
        BY <1>1, <3>1, ReleasesAscend
      <3> QED BY <1>3, <3>1, <3>2
    <2>3. Queued(1, 0) = {}
      BY DEF Queued, RowsOf
    <2>4. pending = Cardinality(observations) + Len(delivered)
      BY <1>1, <1>2, <1>5, FS_EmptySet
    <2>5. IsFiniteSet(observations)
      BY <1>1, FS_EmptySet
    <2> QED BY <1>1, <1>2, <2>1, <2>2, <2>3, <2>4, <2>5 DEF SameQueue
  <1>8. SameOrder
    BY <1>1, <1>2 DEF SameOrder
  <1>9. SamePools
    BY <1>1, <1>2 DEF SamePools, PoolOf, DeliveredPool
  <1> QED BY <1>4, <1>6, <1>7, <1>8, <1>9 DEF InStep

\* They stay so when nothing happens.
LEMMA StutterInStep ==
    ASSUME InStep, UNCHANGED <<replay, refVars, optVars>>
    PROVE  InStep'
  <1>1. /\ replay' = replay
        /\ optAt' = optAt /\ optPhase' = optPhase /\ optProposed' = optProposed
        /\ optPortfolio' = optPortfolio /\ optAudit' = optAudit /\ optLedger' = optLedger
        /\ optFills' = optFills /\ optNotices' = optNotices /\ optRaised' = optRaised
        /\ nextSource' = nextSource /\ pending' = pending /\ pendingOrder' = pendingOrder
        /\ historicalPayload' = historicalPayload /\ venuePayload' = venuePayload
        /\ observedExists' = observedExists /\ optSubmitted' = optSubmitted
    BY DEF optVars
  <1>2. /\ refAt' = refAt /\ refPhase' = refPhase /\ refProposed' = refProposed
        /\ refPortfolio' = refPortfolio /\ refAudit' = refAudit /\ refLedger' = refLedger
        /\ refFills' = refFills /\ refNotices' = refNotices /\ refRaised' = refRaised
        /\ historical' = historical /\ observed' = observed /\ venue' = venue
        /\ observations' = observations /\ orders' = orders /\ delivered' = delivered
        /\ refSubmitted' = refSubmitted
    BY DEF refVars
  <1>3. InPhase'
    BY <1>1, <1>2, InputsStay DEF InPhase, InStep
  <1>4. SameOrder'
    BY <1>1, <1>2 DEF InStep, SameOrder
  <1>5. SameOutput'
    <2>1. Reference!DeliveryEntries(delivered)' = Reference!DeliveryEntries(delivered)
      BY <1>2 DEF Reference!DeliveryEntries, Reference!Entry
    <2>2. AuditsAgree'
      BY <1>1, <1>2, <2>1 DEF AuditsAgree, InStep, SameOutput
    <2> QED BY <1>1, <1>2, <2>2 DEF InStep, SameOutput
  <1>6. SameQueue'
    <2>1. Horizon' = Horizon /\ Applied' = Applied
      BY <1>1 DEF Horizon, Applied
    <2>2. Optimized!DueRows' = Optimized!DueRows /\ NextAfter' = NextAfter
      BY <1>1, DueStays
    <2>3. NotBefore(nextSource, Horizon)' <=> NotBefore(nextSource, Horizon)
      BY <1>1, <2>1, InputsStay
    <2>4. /\ Queued(nextSource, Applied)' = Queued(nextSource, Applied)
          /\ Queued(NextAfter, optAt)' = Queued(NextAfter, optAt)
      BY <1>1, <2>1, <2>2, InputsStay
    <2> QED BY <1>1, <1>2, <2>1, <2>2, <2>3, <2>4 DEF InStep, SameQueue
  <1>7. SamePools'
    <2>1. \A e : Optimized!HasReserves(e)' <=> Optimized!HasReserves(e)
      BY <1>1, InputsStay
    <2>2. DeliveredPool' <=> DeliveredPool
      BY <1>2, <2>1, Zenon DEF DeliveredPool
    <2>3. VenueIsUsed' <=> VenueIsUsed
      BY <1>2 DEF VenueIsUsed
    <2>4. \A e : PoolOf(e)' = PoolOf(e)
      BY <1>1, InputsStay
    <2>5. historical' = PoolOf(historicalPayload)' /\ (VenueIsUsed' => venue' = PoolOf(venuePayload)')
      BY <1>1, <1>2, <2>3, <2>4 DEF InStep, SamePools
    <2> QED BY <1>1, <1>2, <2>2, <2>5 DEF InStep, SamePools
  <1> QED BY <1>3, <1>4, <1>5, <1>6, <1>7 DEF InStep

\* At every state of the two runs the engines are in step: at the same
\* boundary (but for the delivery that the readable one does first), with the
\* same balances and records, the same observations queued as counted
\* (CausalScheduler against next_delivery_source and pending_observations),
\* the same order held for the same boundary, and the same pools (state.py
\* against the payload indexes of optimized_engine.py).
THEOREM EnginesStayInStep == ParitySpec => []InStep
  <1>1. ASSUME InStep, [ParityNext]_<<replay, refVars, optVars>> PROVE InStep'
    <2>1. CASE UNCHANGED <<replay, refVars, optVars>>
      BY <1>1, <2>1, StutterInStep
    <2>2. CASE ParityNext
      <3>1. /\ UNCHANGED replay
            /\ \/ Reference!ApplyGroup /\ Optimized!ScanGroup
               \/ Reference!Deliver /\ refPhase = "deliver" /\ UNCHANGED optVars
               \/ Reference!Decide /\ Optimized!DeliverRows
               \/ Reference!Accept /\ Optimized!Accept
               \/ Reference!Execute /\ Optimized!Execute
               \/ Reference!Checkpoint /\ Optimized!Checkpoint
               \/ Reference!Finish /\ Optimized!Finish
        BY <1>1, <2>2, TheyMove
      <3>2. CASE Reference!ApplyGroup /\ Optimized!ScanGroup
        BY <1>1, <3>1, <3>2, ApplyTogether
      <3>3. CASE Reference!Deliver /\ refPhase = "deliver" /\ UNCHANGED optVars
        BY <1>1, <3>1, <3>3, DeliverFirst
      <3>4. CASE Reference!Decide /\ Optimized!DeliverRows
        BY <1>1, <3>1, <3>4, DecideTogether
      <3>5. CASE Reference!Accept /\ Optimized!Accept
        BY <1>1, <3>1, <3>5, AcceptTogether
      <3>6. CASE Reference!Execute /\ Optimized!Execute
        BY <1>1, <3>1, <3>6, SameExecution
      <3>7. CASE Reference!Checkpoint /\ Optimized!Checkpoint
        BY <1>1, <3>1, <3>7, CheckpointTogether
      <3>8. CASE Reference!Finish /\ Optimized!Finish
        BY <1>1, <3>1, <3>8, FinishTogether
      <3> QED BY <3>1, <3>2, <3>3, <3>4, <3>5, <3>6, <3>7, <3>8
    <2> QED BY <1>1, <2>1, <2>2
  <1> QED BY <1>1, StartInStep, PTL DEF ParitySpec

\* Whatever the groups, their blocks, the delays, the funds and the budget,
\* the readable engine (reference.py) and the one over columns
\* (optimized_engine.py) deliver the same events at the same boundaries,
\* decide, reserve, fill, reject and release at the same boundaries with the
\* same amounts, and end with the same balances, or fail alike.
THEOREM EnginesEndAlike == ParitySpec => []OutcomeParity
  <1>1. ASSUME InStep, BothOver
        PROVE  /\ optRaised = refRaised /\ optPortfolio = refPortfolio
               /\ Deliveries(optAudit) = Deliveries(refAudit)
               /\ Anonymous(Others(optAudit)) = Anonymous(Others(refAudit))
               /\ Anonymous(optLedger) = Anonymous(refLedger)
               /\ Anonymous(optFills) = Anonymous(refFills)
    <2>1. refPhase # "decide"
      BY <1>1 DEF BothOver, Over, InStep, InPhase
    <2>2. /\ optRaised = refRaised /\ optPortfolio = refPortfolio
          /\ SameAudit(refAudit, optAudit)
          /\ SameLog(refLedger, optLedger) /\ SameLog(refFills, optFills)
      BY <1>1, <2>1 DEF InStep, SameOutput, AuditsAgree
    <2>3. /\ Deliveries(refAudit) = Deliveries(optAudit)
          /\ Anonymous(Others(refAudit)) = Anonymous(Others(optAudit))
          /\ Anonymous(refLedger) = Anonymous(optLedger)
          /\ Anonymous(refFills) = Anonymous(optFills)
      BY <2>2 DEF SameAudit, SameLog
    <2> QED BY <2>2, <2>3
  <1>2. InStep => OutcomeParity
    BY <1>1, Zenon DEF OutcomeParity
  <1> QED BY <1>2, EnginesStayInStep, PTL
=============================================================================
