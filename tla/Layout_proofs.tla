--------------------------- MODULE Layout_proofs ---------------------------
(***************************************************************************)
(* Proofs about the layout of the process data: that the segments, the     *)
(* places of the slaves and the datagrams IoMap and ProcessData compute    *)
(* fit together, for every line of slaves and every size of a segment.     *)
(***************************************************************************)
EXTENDS ProcessData, SequenceTheorems, WellFoundedInduction, TLAPS

\* Induction over the first n numbers, as a fact about sets.
LEMMA UpToAll ==
  ASSUME NEW n \in Nat, NEW H, 0 \in H, \A k \in 1 .. n : k - 1 \in H => k \in H
  PROVE  \A k \in 0 .. n : k \in H
<1> DEFINE left == {k \in 0 .. n : k \notin H}
<1> SUFFICES ASSUME left # {} PROVE FALSE
  OBVIOUS
<1>1. left \in SUBSET Nat
  OBVIOUS
<1>2. PICK x \in left : \A y \in left : <<y, x>> \notin OpToRel(<, Nat)
  BY <1>1, NatLessThanWellFounded, WFMin
<1>3. x \in 1 .. n /\ x - 1 \in 0 .. n /\ x - 1 < x
  OBVIOUS
<1>4. x - 1 \in H
  <2> SUFFICES ASSUME x - 1 \in left PROVE FALSE
    BY <1>3
  <2>1. <<x - 1, x>> \in OpToRel(<, Nat)
    BY <1>3 DEF OpToRel
  <2> QED
    BY <1>2, <2>1
<1> QED
  BY <1>3, <1>4

-----------------------------------------------------------------------------
(***************************************************************************)
(* Sums.                                                                   *)
(***************************************************************************)
LEMMA SumsAre ==
  ASSUME NEW s, Len(s) \in Nat
  PROVE  Sums(s) = [k \in 0 .. Len(s) |-> IF k = 0 THEN 0 ELSE Sums(s)[k - 1] + s[k]]
<1> DEFINE IsSum(f, m) == f = [k \in 0 .. m |-> IF k = 0 THEN 0 ELSE f[k - 1] + s[k]]
           H == {m \in Nat : \E f : IsSum(f, m)}
<1>1. 0 \in H
  <2> DEFINE z == [k \in 0 .. 0 |-> 0]
  <2>1. IsSum(z, 0)
    OBVIOUS
  <2> QED
    BY <2>1
<1>2. ASSUME NEW m \in 1 .. Len(s), m - 1 \in H PROVE m \in H
  <2>1. PICK f : IsSum(f, m - 1)
    BY <1>2
  <2> DEFINE e == f[m - 1] + s[m]
             g == [k \in 0 .. m |-> IF k = m THEN e ELSE f[k]]
  <2>2. ASSUME NEW k \in 0 .. m PROVE g[k] = IF k = 0 THEN 0 ELSE g[k - 1] + s[k]
    <3>1. CASE k = m
      BY <3>1
    <3>2. CASE k # m
      <4>1. k \in 0 .. m - 1 /\ (k # 0 => k - 1 \in 0 .. m /\ k - 1 # m)
        BY <3>2
      <4>2. f[k] = IF k = 0 THEN 0 ELSE f[k - 1] + s[k]
        BY <2>1, <4>1
      <4> QED
        BY <3>2, <4>1, <4>2
    <3> QED
      BY <3>1, <3>2
  <2>3. IsSum(g, m)
    BY <2>2
  <2> HIDE DEF g, IsSum
  <2> QED
    BY <2>3
<1> HIDE DEF H
<1>3. \A k \in 0 .. Len(s) : k \in H
  BY <1>1, <1>2, UpToAll
<1>4. \E f : IsSum(f, Len(s))
  BY <1>3 DEF H
<1> QED
  BY <1>4 DEF Sums

LEMMA SumsStep ==
  ASSUME NEW s, Len(s) \in Nat
  PROVE  /\ Sums(s)[0] = 0
         /\ \A k \in 1 .. Len(s) : Sums(s)[k] = Sums(s)[k - 1] + s[k]
<1>1. \A k \in 0 .. Len(s) : Sums(s)[k] = IF k = 0 THEN 0 ELSE Sums(s)[k - 1] + s[k]
  BY SumsAre
<1> QED
  BY <1>1

LEMMA SumsTyped ==
  ASSUME NEW s \in Seq(Int)
  PROVE  Len(s) \in Nat /\ \A k \in 0 .. Len(s) : Sums(s)[k] \in Int
<1> DEFINE H == {k \in Nat : k <= Len(s) => Sums(s)[k] \in Int}
<1>0. Len(s) \in Nat /\ \A k \in 1 .. Len(s) : s[k] \in Int
  OBVIOUS
<1>1. 0 \in H
  BY <1>0, SumsStep
<1>2. ASSUME NEW k \in 1 .. Len(s), k - 1 \in H PROVE k \in H
  <2>1. Sums(s)[k - 1] \in Int
    BY <1>2
  <2>2. Sums(s)[k] = Sums(s)[k - 1] + s[k]
    BY <1>0, SumsStep
  <2> QED
    BY <1>0, <2>1, <2>2
<1> HIDE DEF H
<1>3. \A k \in 0 .. Len(s) : k \in H
  BY <1>0, <1>1, <1>2, UpToAll
<1> QED
  BY <1>0, <1>3 DEF H

\* sums of the same beginning
LEMMA SumsAgree ==
  ASSUME NEW a \in Seq(Int), NEW b \in Seq(Int), NEW j \in 0 .. Len(a), j <= Len(b),
         \A i \in 1 .. j : a[i] = b[i]
  PROVE  \A k \in 0 .. j : Sums(a)[k] = Sums(b)[k]
<1> DEFINE H == {k \in Nat : k <= j => Sums(a)[k] = Sums(b)[k]}
<1>0. Len(a) \in Nat /\ Len(b) \in Nat /\ j \in Nat
  OBVIOUS
<1>1. 0 \in H
  BY <1>0, SumsStep
<1>2. ASSUME NEW k \in 1 .. j, k - 1 \in H PROVE k \in H
  <2>1. Sums(a)[k - 1] = Sums(b)[k - 1] /\ k \in 1 .. Len(a) /\ k \in 1 .. Len(b)
    BY <1>0, <1>2
  <2>2. Sums(a)[k] = Sums(a)[k - 1] + a[k]
    BY <1>0, <2>1, SumsStep
  <2>3. Sums(b)[k] = Sums(b)[k - 1] + b[k]
    BY <1>0, <2>1, SumsStep
  <2> QED
    BY <2>1, <2>2, <2>3
<1> HIDE DEF H
<1>3. \A k \in 0 .. j : k \in H
  BY <1>0, <1>1, <1>2, UpToAll
<1> QED
  BY <1>0, <1>3 DEF H

\* the sums of lengths from i on never fall
LEMMA SumsRise ==
  ASSUME NEW s \in Seq(Int), NEW i \in 0 .. Len(s), NEW n \in i .. Len(s), \A k \in i + 1 .. n : s[k] >= 0
  PROVE  \A k \in i .. n : Sums(s)[i] <= Sums(s)[k]
<1> DEFINE H == {d \in Nat : i + d <= n => Sums(s)[i] <= Sums(s)[i + d]}
<1>0. \A k \in 0 .. Len(s) : Sums(s)[k] \in Int
  BY SumsTyped
<1>1. 0 \in H
  BY <1>0
<1>2. ASSUME NEW d \in 1 .. n - i, d - 1 \in H PROVE d \in H
  <2>1. i + d \in 1 .. Len(s) /\ i + d \in i + 1 .. n /\ i + (d - 1) = i + d - 1 /\ i + d - 1 \in 0 .. Len(s)
    OBVIOUS
  <2>2. Sums(s)[i + d] = Sums(s)[i + d - 1] + s[i + d] /\ s[i + d] >= 0 /\ s[i + d] \in Int
    BY <2>1, SumsStep
  <2>3. PICK p \in Int, q \in Int : p = Sums(s)[i] /\ q = Sums(s)[i + d - 1]
    BY <1>0, <2>1
  <2>4. p <= q
    <3>1. d - 1 \in Nat /\ i + (d - 1) <= n
      BY <2>1
    <3>2. Sums(s)[i] <= Sums(s)[i + (d - 1)]
      BY <1>2, <3>1
    <3> QED
      BY <2>1, <2>3, <3>2
  <2>5. p <= Sums(s)[i + d]
    BY SMTT(30), <2>2, <2>3, <2>4
  <2> QED
    BY <2>3, <2>5
<1> HIDE DEF H
<1>3. n - i \in Nat
  OBVIOUS
<1>4. \A d \in 0 .. n - i : d \in H
  BY <1>1, <1>2, <1>3, UpToAll
<1> QED
  <2> SUFFICES ASSUME NEW k \in i .. n PROVE Sums(s)[i] <= Sums(s)[k]
    OBVIOUS
  <2>1. k - i \in 0 .. n - i /\ i + (k - i) = k /\ k <= n
    OBVIOUS
  <2> QED
    BY <1>4, <2>1 DEF H

(***************************************************************************)
(* Bounds cut a range of numbers in pieces: each number is in one piece.   *)
(***************************************************************************)
Rising(T, n) ==
  /\ \A k \in 0 .. n : T[k] \in Int
  /\ \A j, k \in 0 .. n : j <= k => T[j] <= T[k]

Piece(T, k, b) == T[k - 1] <= b /\ b < T[k]

LEMMA OnePiece ==
  ASSUME NEW n \in Nat, NEW T, Rising(T, n), NEW b \in Int
  PROVE  /\ \A j, k \in 1 .. n : Piece(T, j, b) /\ Piece(T, k, b) => j = k
         /\ T[0] <= b /\ b < T[n] => \E k \in 1 .. n : Piece(T, k, b)
         /\ \A k \in 1 .. n : Piece(T, k, b) => T[0] <= b /\ b < T[n]
<1>1. ASSUME NEW j \in 1 .. n, NEW k \in 1 .. n, Piece(T, j, b), Piece(T, k, b), j < k PROVE FALSE
  <2>1. j \in 0 .. n /\ k - 1 \in 0 .. n /\ j <= k - 1
    BY <1>1
  <2> QED
    BY <1>1, <2>1 DEF Rising, Piece
<1>2. ASSUME T[0] <= b, b < T[n], \A k \in 1 .. n : ~Piece(T, k, b) PROVE FALSE
  <2> DEFINE H == {k \in Nat : k <= n => T[k] <= b}
  <2>1. 0 \in H
    BY <1>2
  <2>2. ASSUME NEW k \in 1 .. n, k - 1 \in H PROVE k \in H
    <3>1. T[k - 1] <= b /\ T[k] \in Int
      BY <2>2 DEF Rising
    <3>2. ~(b < T[k])
      BY <1>2, <3>1 DEF Piece
    <3> QED
      BY <3>1, <3>2
  <2> HIDE DEF H
  <2>3. \A k \in 0 .. n : k \in H
    BY <2>1, <2>2, UpToAll
  <2>4. T[n] <= b /\ T[n] \in Int
    BY <2>3 DEF H, Rising
  <2> QED
    BY <1>2, <2>4
<1>3. ASSUME NEW k \in 1 .. n, Piece(T, k, b) PROVE T[0] <= b /\ b < T[n]
  <2>1. k - 1 \in 0 .. n /\ k \in 0 .. n /\ 0 <= k - 1 /\ k <= n
    OBVIOUS
  <2> QED
    BY <1>3, <2>1 DEF Rising, Piece
<1>4. ASSUME NEW j \in 1 .. n, NEW k \in 1 .. n, Piece(T, j, b), Piece(T, k, b) PROVE j = k
  BY <1>1, <1>4
<1> QED
  BY <1>2, <1>3, <1>4

-----------------------------------------------------------------------------
(***************************************************************************)
(* Segments.  Those laid out later leave the closed ones as they are and   *)
(* never shorten the open one, so bytes that lie in one segment stay in it.*)
(***************************************************************************)
Segments == Seq(Nat) \ {<<>>}

Bounded(g) == \A i \in DOMAIN g : g[i] <= MaxSegment

Extends(a, b) ==
  /\ Len(a) <= Len(b)
  /\ \A i \in 1 .. Len(a) - 1 : b[i] = a[i]
  /\ a[Len(a)] <= b[Len(a)]

InOne(g, from, to) == \E k \in 1 .. Len(g) : Sums(g)[k - 1] <= from /\ to <= Sums(g)[k]

LEMMA SegmentsAre ==
  ASSUME NEW g \in Segments
  PROVE  /\ g \in Seq(Int) /\ g \in Seq(Nat) /\ Len(g) \in Nat /\ Len(g) >= 1
         /\ DOMAIN g = 1 .. Len(g) /\ \A k \in 1 .. Len(g) : g[k] \in Nat
         /\ Rising(Sums(g), Len(g)) /\ Total(g) \in Nat /\ Total(g) = Sums(g)[Len(g)]
         /\ Sums(g)[0] = 0 /\ \A k \in 1 .. Len(g) : Sums(g)[k] = Sums(g)[k - 1] + g[k]
<1>1. g \in Seq(Int) /\ g \in Seq(Nat) /\ Len(g) \in Nat /\ Len(g) >= 1 /\ DOMAIN g = 1 .. Len(g)
  BY DEF Segments
<1>2. \A k \in 1 .. Len(g) : g[k] \in Nat
  BY <1>1
<1>3. \A k \in 0 .. Len(g) : Sums(g)[k] \in Int
  BY <1>1, SumsTyped
<1>4. \A j, k \in 0 .. Len(g) : j <= k => Sums(g)[j] <= Sums(g)[k]
  <2> SUFFICES ASSUME NEW j \in 0 .. Len(g), NEW k \in 0 .. Len(g), j <= k PROVE Sums(g)[j] <= Sums(g)[k]
    OBVIOUS
  <2>1. k \in j .. k /\ k \in j .. Len(g)
    OBVIOUS
  <2>2. \A i \in j + 1 .. k : g[i] >= 0
    BY <1>1, <1>2
  <2> QED
    BY <1>1, <2>1, <2>2, SumsRise
<1>5. Sums(g)[0] = 0 /\ \A k \in 1 .. Len(g) : Sums(g)[k] = Sums(g)[k - 1] + g[k]
  BY <1>1, SumsStep
<1>6. Sums(g)[0] <= Sums(g)[Len(g)] /\ Sums(g)[Len(g)] \in Int
  BY <1>1, <1>3, <1>4
<1> QED
  BY <1>1, <1>2, <1>3, <1>4, <1>5, <1>6 DEF Rising, Total

LEMMA ExtendedSums ==
  ASSUME NEW a \in Segments, NEW b \in Segments, Extends(a, b)
  PROVE  /\ \A k \in 0 .. Len(a) - 1 : Sums(b)[k] = Sums(a)[k]
         /\ Total(a) <= Sums(b)[Len(a)] /\ Total(a) <= Total(b)
         /\ \A from, to \in Int : InOne(a, from, to) => InOne(b, from, to)
<1>1. Len(a) \in Nat /\ Len(b) \in Nat /\ Len(a) >= 1 /\ Len(a) <= Len(b) /\ a \in Seq(Int) /\ b \in Seq(Int)
  BY SegmentsAre DEF Extends
<1>2. \A k \in 0 .. Len(a) - 1 : Sums(b)[k] = Sums(a)[k]
  <2>1. Len(a) - 1 \in 0 .. Len(a) /\ Len(a) - 1 <= Len(b)
    BY <1>1
  <2> QED
    BY <1>1, <2>1, SumsAgree DEF Extends
<1>3. Sums(a)[Len(a)] <= Sums(b)[Len(a)]
  <2>1. Len(a) \in 1 .. Len(a) /\ Len(a) \in 1 .. Len(b) /\ Len(a) - 1 \in 0 .. Len(a) - 1
    BY <1>1
  <2>2. Sums(a)[Len(a)] = Sums(a)[Len(a) - 1] + a[Len(a)] /\ Sums(b)[Len(a)] = Sums(b)[Len(a) - 1] + b[Len(a)]
    BY <2>1, SegmentsAre
  <2>3. Sums(a)[Len(a) - 1] \in Int /\ a[Len(a)] \in Nat /\ b[Len(a)] \in Nat
    BY SMTT(30), <1>1, <2>1, SegmentsAre DEF Rising
  <2> QED
    BY <1>2, <2>1, <2>2, <2>3 DEF Extends
<1>4. Total(a) = Sums(a)[Len(a)] /\ Total(b) = Sums(b)[Len(b)] /\ Sums(b)[Len(a)] <= Sums(b)[Len(b)]
      /\ Total(a) \in Nat /\ Total(b) \in Nat /\ Sums(b)[Len(a)] \in Int
  BY <1>1, SegmentsAre DEF Rising
<1>5. ASSUME NEW from \in Int, NEW to \in Int, InOne(a, from, to) PROVE InOne(b, from, to)
  <2>1. PICK k \in 1 .. Len(a) : Sums(a)[k - 1] <= from /\ to <= Sums(a)[k]
    BY <1>5 DEF InOne
  <2>2. k \in 1 .. Len(b) /\ Sums(b)[k - 1] = Sums(a)[k - 1]
    BY <1>1, <1>2
  <2>3. to <= Sums(b)[k]
    <3>1. CASE k = Len(a)
      BY <1>3, <1>4, <2>1, <3>1
    <3>2. CASE k # Len(a)
      <4>1. k \in 0 .. Len(a) - 1
        BY <1>1, <3>2
      <4> QED
        BY <1>2, <2>1, <4>1
    <3> QED
      BY <3>1, <3>2
  <2> QED
    BY <2>1, <2>2, <2>3 DEF InOne
<1> QED
  BY <1>2, <1>3, <1>4, <1>5

LEMMA ExtendsOn ==
  ASSUME NEW a \in Segments, NEW b \in Segments, NEW c \in Segments, Extends(a, b), Extends(b, c)
  PROVE  Extends(a, c) /\ Extends(a, a)
<1>1. /\ Len(a) \in Nat /\ Len(b) \in Nat /\ Len(c) \in Nat /\ Len(a) >= 1 /\ Len(a) <= Len(b) /\ Len(b) <= Len(c)
      /\ a[Len(a)] \in Nat /\ b[Len(a)] \in Nat /\ c[Len(a)] \in Nat
  <2>1. Len(a) \in Nat /\ Len(b) \in Nat /\ Len(c) \in Nat /\ Len(a) >= 1
    BY SegmentsAre
  <2>2. Len(a) <= Len(b) /\ Len(b) <= Len(c)
    BY DEF Extends
  <2>3. Len(a) \in 1 .. Len(a) /\ Len(a) \in 1 .. Len(b) /\ Len(a) \in 1 .. Len(c)
    BY <2>1, <2>2
  <2> QED
    BY <2>1, <2>2, <2>3, SegmentsAre
<1>2. \A i \in 1 .. Len(a) - 1 : c[i] = a[i]
  BY <1>1 DEF Extends
<1>3. b[Len(a)] <= c[Len(a)]
  <2>1. CASE Len(a) = Len(b)
    BY <2>1 DEF Extends
  <2>2. CASE Len(a) # Len(b)
    <3>1. Len(a) \in 1 .. Len(b) - 1
      BY <1>1, <2>2
    <3> QED
      BY <1>1, <3>1 DEF Extends
  <2> QED
    BY <2>1, <2>2
<1> QED
  BY <1>1, <1>2, <1>3 DEF Extends

(***************************************************************************)
(* What Grow adds lies in one segment, or is dropped.                      *)
(***************************************************************************)
LEMMA GrowStep ==
  ASSUME NEW g \in Segments, NEW diff \in Nat
  PROVE  /\ Grow(g, diff) \in Segments /\ Extends(g, Grow(g, diff))
         /\ Bounded(g) /\ diff <= MaxSegment => Bounded(Grow(g, diff))
         /\ Total(Grow(g, diff)) \in {Total(g), Total(g) + diff}
         /\ Total(Grow(g, diff)) = Total(g) + diff => InOne(Grow(g, diff), Total(g), Total(g) + diff)
<1> DEFINE h == Grow(g, diff)
<1>0. PICK n \in Nat : n = Len(g)
  BY SegmentsAre
<1>1. /\ g \in Seq(Nat) /\ g \in Seq(Int) /\ n \in Nat /\ n >= 1 /\ DOMAIN g = 1 .. n /\ g[n] \in Nat
      /\ \A k \in 1 .. n : g[k] \in Nat
      /\ Total(g) = Sums(g)[n] /\ Total(g) \in Nat /\ Sums(g)[n] = Sums(g)[n - 1] + g[n]
      /\ Sums(g)[n - 1] \in Int /\ Last(g) = g[n]
  BY <1>0, SegmentsAre DEF Rising, Last
<1>2. CASE Last(g) + diff > MaxSegment /\ Len(g) < MaxSegments
  <2>1. h = Append(g, diff)
    BY <1>2 DEF Grow
  <2>2. /\ h \in Seq(Nat) /\ Len(h) = n + 1 /\ h[n + 1] = diff /\ \A i \in 1 .. n : h[i] = g[i]
        /\ DOMAIN h = 1 .. n + 1
    BY <1>1, <2>1
  <2> HIDE DEF h
  <2>3. h \in Segments
    BY <1>1, <2>2 DEF Segments
  <2>4. Extends(g, h)
    <3>1. n <= n + 1 /\ (\A i \in 1 .. n - 1 : h[i] = g[i]) /\ g[n] <= h[n]
      BY <1>1, <2>2
    <3> QED
      BY <1>0, <2>2, <3>1 DEF Extends
  <2>5. Sums(h)[n] = Sums(g)[n]
    <3>1. h \in Seq(Int) /\ n \in 0 .. Len(g) /\ n <= Len(h) /\ n \in 0 .. n
      BY <1>0, <1>1, <2>2, <2>3, SegmentsAre
    <3> QED
      BY <1>1, <2>2, <3>1, SumsAgree
  <2>6. Sums(h)[n + 1] = Sums(h)[n] + diff /\ Total(h) = Sums(h)[n + 1]
    <3>1. n + 1 \in 1 .. Len(h) /\ n + 1 - 1 = n
      BY <1>1, <2>2
    <3>2. Sums(h)[n + 1] = Sums(h)[n + 1 - 1] + h[n + 1] /\ Total(h) = Sums(h)[Len(h)]
      BY <2>3, <3>1, SegmentsAre
    <3> QED
      BY <2>2, <3>1, <3>2
  <2>7. InOne(h, Total(g), Total(g) + diff)
    <3>1. n + 1 \in 1 .. Len(h) /\ n + 1 - 1 = n
      BY <1>1, <2>2
    <3>2. Sums(h)[n + 1 - 1] <= Total(g) /\ Total(g) + diff <= Sums(h)[n + 1]
      BY <1>1, <2>5, <2>6, <3>1
    <3> QED
      BY <3>1, <3>2 DEF InOne
  <2>8. Bounded(g) /\ diff <= MaxSegment => Bounded(h)
    BY <1>1, <2>2 DEF Bounded
  <2> QED
    BY <1>1, <2>3, <2>4, <2>5, <2>6, <2>7, <2>8 DEF h
<1>3. CASE Last(g) + diff > MaxSegment /\ ~(Len(g) < MaxSegments)
  <2>1. h = g
    BY <1>3 DEF Grow
  <2>2. Extends(g, g)
    BY <1>0, <1>1 DEF Extends
  <2>3. Total(g) = Total(g) + diff => InOne(g, Total(g), Total(g) + diff)
    <3> SUFFICES ASSUME Total(g) = Total(g) + diff PROVE InOne(g, Total(g), Total(g))
      OBVIOUS
    <3>1. n \in 1 .. Len(g) /\ Sums(g)[n - 1] <= Total(g) /\ Total(g) <= Sums(g)[n]
      BY SMTT(30), <1>1
    <3> QED
      BY <3>1 DEF InOne
  <2> QED
    BY <2>1, <2>2, <2>3
<1>4. CASE ~(Last(g) + diff > MaxSegment)
  <2>1. h = [g EXCEPT ![n] = @ + diff]
    BY <1>0, <1>4 DEF Grow
  <2>2. /\ h \in Seq(Nat) /\ Len(h) = n /\ h[n] = g[n] + diff /\ \A i \in 1 .. n - 1 : h[i] = g[i]
        /\ DOMAIN h = 1 .. n
    <3>1. n \in 1 .. n /\ g[n] + diff \in Nat /\ \A i \in 1 .. n - 1 : i \in 1 .. n /\ i # n
      BY <1>1
    <3>2. DOMAIN h = 1 .. n /\ h[n] = g[n] + diff /\ \A i \in 1 .. n - 1 : h[i] = g[i]
      BY <1>1, <2>1, <3>1
    <3>3. h \in Seq(Nat) /\ Len(h) = n
      BY <1>0, <1>1, <2>1, <3>1
    <3> QED
      BY <3>2, <3>3
  <2> HIDE DEF h
  <2>3. h \in Segments
    BY <1>1, <2>2 DEF Segments
  <2>4. Extends(g, h)
    <3>1. n <= n /\ (\A i \in 1 .. n - 1 : h[i] = g[i]) /\ g[n] <= h[n]
      BY <1>1, <2>2
    <3> QED
      BY <1>0, <2>2, <3>1 DEF Extends
  <2>5. Sums(h)[n - 1] = Sums(g)[n - 1]
    <3>1. h \in Seq(Int) /\ n - 1 \in 0 .. Len(g) /\ n - 1 <= Len(h) /\ n - 1 \in 0 .. n - 1
      BY <1>0, <1>1, <2>2, <2>3, SegmentsAre
    <3> QED
      BY <1>1, <2>2, <3>1, SumsAgree
  <2>6. Sums(h)[n] = Sums(h)[n - 1] + h[n] /\ Total(h) = Sums(h)[n]
    <3>1. n \in 1 .. Len(h)
      BY <1>1, <2>2
    <3> QED
      BY <2>2, <2>3, <3>1, SegmentsAre
  <2>7. Total(h) = Total(g) + diff
    BY <1>1, <2>2, <2>5, <2>6
  <2>8. InOne(h, Total(g), Total(g) + diff)
    <3>1. n \in 1 .. Len(h) /\ Sums(h)[n - 1] <= Total(g) /\ Total(g) + diff <= Sums(h)[n]
      BY SMTT(30), <1>1, <2>2, <2>5, <2>6, <2>7
    <3> QED
      BY <3>1 DEF InOne
  <2>9. Bounded(g) => Bounded(h)
    <3>1. g[n] + diff <= MaxSegment
      BY <1>1, <1>4, SegmentAssumption
    <3>2. \A i \in 1 .. n : i = n \/ i \in 1 .. n - 1
      OBVIOUS
    <3> QED
      BY <1>1, <2>2, <3>1, <3>2 DEF Bounded
  <2> QED
    BY <2>3, <2>4, <2>7, <2>8, <2>9 DEF h
<1> QED
  BY <1>2, <1>3, <1>4

-----------------------------------------------------------------------------
(***************************************************************************)
(* Bits and bytes.                                                         *)
(***************************************************************************)
LEMMA Rounding ==
  ASSUME NEW p \in Nat
  PROVE  /\ Bytes(p) \in Nat /\ Aligned(p) \in Nat /\ p <= Aligned(p)
         /\ Aligned(p) % 8 = 0 /\ Aligned(p) \div 8 = Bytes(p)
         /\ p \div 8 \in Nat /\ p \div 8 <= Bytes(p) /\ Bytes(p) <= p \div 8 + 1
         /\ p % 8 = 0 => Aligned(p) = p /\ Bytes(p) = p \div 8
         /\ p % 8 # 0 => Bytes(p) = p \div 8 + 1
BY DEF Bytes, Aligned

LEMMA RoundingRises ==
  ASSUME NEW p \in Nat, NEW q \in Nat, p <= q
  PROVE  /\ p \div 8 <= q \div 8 /\ Bytes(p) <= Bytes(q) /\ Aligned(p) <= Aligned(q)
         /\ q % 8 = 0 => Aligned(p) <= q
BY DEF Bytes, Aligned

LEMMA PlaceOf ==
  ASSUME NEW p \in Nat, NEW bits \in Nat
  PROVE  /\ StartOf(p, bits) \in Nat /\ EndOf(p, bits) \in Nat /\ p <= EndOf(p, bits)
         /\ \A b \in Occupied(StartOf(p, bits), bits) :
              b \in Nat /\ p \div 8 <= b /\ b < Bytes(EndOf(p, bits))
         /\ Bytes(EndOf(p, bits)) - p \div 8 <= Bytes(bits) + 1
         /\ p % 8 = 0 => Bytes(EndOf(p, bits)) - p \div 8 = Bytes(bits)
         /\ p % 8 = 0 /\ bits \notin 1 .. 7 => EndOf(p, bits) % 8 = 0
<1>1. CASE bits = 0
  BY <1>1 DEF StartOf, EndOf, Occupied, Bytes
<1>2. CASE bits \in 1 .. 7
  <2>1. StartOf(p, bits) = p /\ EndOf(p, bits) = p + bits /\ SizeOf(bits) = bits
    BY <1>2 DEF StartOf, EndOf, SizeOf
  <2>2. Bytes(bits) = 1
    BY <1>2 DEF Bytes
  <2>3. Occupied(p, bits) = p \div 8 .. (p + bits - 1) \div 8
    BY <1>2, <2>1 DEF Occupied
  <2>4. PICK u \in Nat, v \in Nat, w \in Nat :
          /\ u = p \div 8 /\ v = (p + bits - 1) \div 8 /\ w = Bytes(p + bits)
          /\ v < w /\ w - u <= 2 /\ (p % 8 = 0 => w - u = 1)
    BY <1>2 DEF Bytes
  <2>5. \A b \in Occupied(p, bits) : b \in Nat /\ u <= b /\ b < w
    BY <2>3, <2>4
  <2> QED
    BY <1>2, <2>1, <2>2, <2>4, <2>5
<1>3. CASE bits > 7
  <2>1. StartOf(p, bits) = Aligned(p) /\ EndOf(p, bits) = Aligned(p) + 8 * Bytes(bits) /\ SizeOf(bits) = 8 * Bytes(bits)
    BY <1>3 DEF StartOf, EndOf, SizeOf
  <2>2. PICK n \in Nat : n = Bytes(bits) /\ n >= 1
    BY <1>3 DEF Bytes
  <2>3. PICK a \in Nat : a = Bytes(p) /\ p \div 8 <= a /\ a <= p \div 8 + 1 /\ (p % 8 = 0 => a = p \div 8) /\ p <= 8 * a
    BY DEF Bytes
  <2>4. StartOf(p, bits) = 8 * a /\ EndOf(p, bits) = 8 * a + 8 * n /\ SizeOf(bits) = 8 * n
    BY <2>1, <2>2, <2>3 DEF Aligned
  <2>5. Bytes(8 * a + 8 * n) = a + n /\ (8 * a + 8 * n) % 8 = 0
    BY DEF Bytes
  <2>6. Occupied(8 * a, bits) = a .. a + n - 1
    <3>1. (8 * a) \div 8 = a /\ (8 * a + 8 * n - 1) \div 8 = a + n - 1
      OBVIOUS
    <3> QED
      BY <1>3, <2>4, <3>1 DEF Occupied
  <2>7. PICK u \in Nat : u = p \div 8 /\ u <= a /\ a <= u + 1 /\ (p % 8 = 0 => a = u)
    BY <2>3
  <2>8. \A b \in Occupied(8 * a, bits) : b \in Nat /\ u <= b /\ b < a + n
    BY <2>6, <2>7
  <2>9. a + n - u <= n + 1 /\ (p % 8 = 0 => a + n - u = n) /\ p <= 8 * a + 8 * n
    BY <2>2, <2>3, <2>7
  <2> QED
    BY <2>2, <2>4, <2>5, <2>7, <2>8, <2>9
<1> QED
  BY <1>1, <1>2, <1>3

-----------------------------------------------------------------------------
(***************************************************************************)
(* The slaves of one direction, one after the other.                       *)
(***************************************************************************)
Layouts == [at : Nat, segs : Segments, starts : Seq(Nat)]

\* bytes that found no segment
Dropped(m) == m.at \div 8 - Total(m.segs)

LEMMA PlaceSlaveStep ==
  ASSUME NEW m \in Layouts, Dropped(m) >= 0, NEW bits \in Nat, NEW force \in BOOLEAN
  PROVE  LET r == PlaceSlave(m, bits, force)
         IN  /\ r \in Layouts /\ Dropped(r) >= Dropped(m) /\ Extends(m.segs, r.segs)
             /\ m.at <= r.at /\ EndOf(m.at, bits) <= r.at
             /\ r.starts = Append(m.starts, StartOf(m.at, bits))
             /\ Bytes(bits) < MaxSegment /\ Bounded(m.segs) => Bounded(r.segs)
             /\ m.at % 8 = 0 /\ (force \/ bits \notin 1 .. 7) =>
                  /\ r.at % 8 = 0
                  /\ Dropped(m) = 0 /\ Dropped(r) = 0 => InOne(r.segs, m.at \div 8, r.at \div 8)
<1> DEFINE r == PlaceSlave(m, bits, force)
<1>1. PICK at \in Nat, g \in Segments, starts \in Seq(Nat) : at = m.at /\ g = m.segs /\ starts = m.starts
  BY DEF Layouts
<1>2. PICK e \in Nat, st \in Nat : e = EndOf(at, bits) /\ st = StartOf(at, bits) /\ at <= e
  BY PlaceOf
<1>3. PICK p \in Nat : p = (IF force /\ bits # 0 THEN Aligned(e) ELSE e)
  BY Rounding
<1>4. /\ at <= p /\ e <= p /\ p \div 8 <= Bytes(e)
      /\ at % 8 = 0 /\ (force \/ bits \notin 1 .. 7) => p % 8 = 0
  <2>1. bits = 0 => e = at
    BY <1>2 DEF EndOf
  <2>2. at % 8 = 0 /\ bits \notin 1 .. 7 => e % 8 = 0
    BY <1>2, PlaceOf
  <2>3. /\ Aligned(e) \in Nat /\ e <= Aligned(e) /\ Aligned(e) % 8 = 0 /\ Aligned(e) \div 8 = Bytes(e)
        /\ e \div 8 <= Bytes(e) /\ (e % 8 = 0 => Aligned(e) = e)
    BY Rounding
  <2> QED
    BY <1>2, <1>3, <2>1, <2>2, <2>3
<1>5. PICK d \in Nat : d = p \div 8 - at \div 8
  BY <1>4, RoundingRises, Rounding
<1>6. r = [at |-> p, segs |-> IF bits = 0 THEN g ELSE Grow(g, d), starts |-> Append(starts, st)]
  BY <1>1, <1>2, <1>3, <1>5 DEF PlaceSlave
<1>7. d <= Bytes(bits) + 1
  <2>1. Bytes(e) - at \div 8 <= Bytes(bits) + 1 /\ Bytes(bits) \in Nat /\ Bytes(e) \in Nat /\ at \div 8 \in Nat
    BY <1>2, PlaceOf, Rounding
  <2>2. PICK a \in Nat, b \in Nat, c \in Nat, f \in Nat :
          a = at \div 8 /\ b = Bytes(bits) /\ c = Bytes(e) /\ f = p \div 8
    BY <2>1, Rounding
  <2> QED
    BY <1>4, <1>5, <2>1, <2>2
<1>8. PICK h \in Segments : h = r.segs
  BY SMTT(30), <1>6, GrowStep
<1>9. PICK tg \in Nat, th \in Nat : tg = Total(g) /\ th = Total(h)
  BY SegmentsAre
<1>10. /\ Extends(g, h) /\ (Bounded(g) /\ d <= MaxSegment => Bounded(h))
       /\ th \in {tg, tg + d}
       /\ th = tg + d => InOne(h, tg, tg + d)
  <2>1. CASE bits = 0
    <3>1. h = g
      BY <1>6, <1>8, <2>1
    <3>2. d = 0
      BY <1>2, <1>3, <1>5, <2>1 DEF EndOf
    <3>3. Extends(g, g)
      BY DEF Extends, Segments
    <3>4. InOne(g, tg, tg)
      <4>1. PICK n \in Nat : n = Len(g) /\ n >= 1
        BY SegmentsAre
      <4>2. n \in 1 .. n /\ Sums(g)[n] = tg /\ Sums(g)[n - 1] <= tg
        <5>1. n \in 1 .. n /\ n - 1 \in 0 .. n /\ n \in 0 .. n /\ n - 1 <= n
          BY <4>1
        <5>2. Sums(g)[n - 1] <= Sums(g)[n]
          BY <4>1, <5>1, SegmentsAre DEF Rising
        <5> QED
          BY <1>9, <4>1, <5>1, <5>2 DEF Total
      <4> QED
        BY <4>1, <4>2 DEF InOne
    <3> QED
      BY <1>9, <3>1, <3>2, <3>3, <3>4
  <2>2. CASE bits # 0
    <3>1. h = Grow(g, d)
      BY <1>6, <1>8, <2>2
    <3> QED
      BY <1>9, <3>1, GrowStep
  <2> QED
    BY <2>1, <2>2
<1>11. Dropped(m) = at \div 8 - tg /\ Dropped(r) = p \div 8 - th /\ r.at = p
  BY <1>1, <1>6, <1>8, <1>9 DEF Dropped
<1>12. r \in Layouts
  <2>1. Append(starts, st) \in Seq(Nat)
    OBVIOUS
  <2> QED
    BY <1>6, <1>8, <2>1 DEF Layouts
<1>13. Dropped(r) >= Dropped(m)
  BY <1>5, <1>10, <1>11
<1>14. at % 8 = 0 /\ (force \/ bits \notin 1 .. 7) /\ Dropped(m) = 0 /\ Dropped(r) = 0 => InOne(h, at \div 8, p \div 8)
  BY SMTT(30), <1>5, <1>10, <1>11
<1>15. Bytes(bits) < MaxSegment /\ Bounded(g) => Bounded(h)
  <2>1. PICK b \in Nat : b = Bytes(bits)
    BY Rounding
  <2>2. b < MaxSegment => d <= MaxSegment
    BY <1>7, <2>1, SegmentAssumption
  <2> QED
    BY <1>10, <2>1, <2>2
<1> QED
  <2>1. r.starts = Append(m.starts, StartOf(m.at, bits))
    BY <1>1, <1>2, <1>6
  <2> HIDE DEF r
  <2> QED
    BY <1>1, <1>2, <1>4, <1>8, <1>10, <1>11, <1>12, <1>13, <1>14, <1>15, <2>1 DEF r

NoneYet(m) == [m EXCEPT !.starts = <<>>]

LEMMA PlacedAre ==
  ASSUME NEW st, NEW B, Len(B) \in Nat, NEW force
  PROVE  \A k \in 0 .. Len(B) : Placed(st, B, force)[k] = IF k = 0 THEN NoneYet(st)
                                   ELSE PlaceSlave(Placed(st, B, force)[k - 1], B[k], force)
<1> DEFINE first == NoneYet(st)
           Next0(m, k) == PlaceSlave(m, B[k], force)
           IsPlaced(f, n) == f = [k \in 0 .. n |-> IF k = 0 THEN first ELSE Next0(f[k - 1], k)]
           H == {n \in Nat : \E f : IsPlaced(f, n)}
<1>0. Placed(st, B, force) = CHOOSE f : IsPlaced(f, Len(B))
  BY DEF Placed, NoneYet
<1> HIDE DEF first, Next0
<1>1. 0 \in H
  <2> DEFINE z == [k \in 0 .. 0 |-> first]
  <2>1. IsPlaced(z, 0)
    OBVIOUS
  <2> QED
    BY <2>1
<1>2. ASSUME NEW n \in 1 .. Len(B), n - 1 \in H PROVE n \in H
  <2>1. PICK f : IsPlaced(f, n - 1)
    BY <1>2
  <2> DEFINE e == Next0(f[n - 1], n)
             g == [k \in 0 .. n |-> IF k = n THEN e ELSE f[k]]
  <2>2. ASSUME NEW k \in 0 .. n PROVE g[k] = IF k = 0 THEN first ELSE Next0(g[k - 1], k)
    <3>1. CASE k = n
      BY <3>1
    <3>2. CASE k # n
      <4>1. k \in 0 .. n - 1 /\ (k # 0 => k - 1 \in 0 .. n /\ k - 1 # n)
        BY <3>2
      <4>2. f[k] = IF k = 0 THEN first ELSE Next0(f[k - 1], k)
        BY <2>1, <4>1
      <4> QED
        BY <3>2, <4>1, <4>2
    <3> QED
      BY <3>1, <3>2
  <2>3. IsPlaced(g, n)
    BY <2>2
  <2> HIDE DEF g, IsPlaced
  <2> QED
    BY <2>3
<1> HIDE DEF H
<1>3. \A k \in 0 .. Len(B) : k \in H
  BY <1>1, <1>2, UpToAll
<1>4. \E f : IsPlaced(f, Len(B))
  BY <1>3 DEF H
<1>5. IsPlaced(Placed(st, B, force), Len(B))
  BY <1>0, <1>4
<1>6. \A k \in 0 .. Len(B) : Placed(st, B, force)[k] = IF k = 0 THEN first ELSE Next0(Placed(st, B, force)[k - 1], k)
  BY <1>5
<1> QED
  BY <1>6 DEF first, Next0

LEMMA PlacedFirst ==
  ASSUME NEW st, NEW B, Len(B) \in Nat, NEW force
  PROVE  Placed(st, B, force)[0] = NoneYet(st)
<1>1. 0 \in 0 .. Len(B)
  OBVIOUS
<1> QED
  BY <1>1, PlacedAre

LEMMA PlacedNext ==
  ASSUME NEW st, NEW B, Len(B) \in Nat, NEW force
  PROVE  \A k \in 1 .. Len(B) : Placed(st, B, force)[k] = PlaceSlave(Placed(st, B, force)[k - 1], B[k], force)
<1> SUFFICES ASSUME NEW k \in 1 .. Len(B)
             PROVE  Placed(st, B, force)[k] = PlaceSlave(Placed(st, B, force)[k - 1], B[k], force)
  OBVIOUS
<1>1. k \in 0 .. Len(B) /\ k # 0
  OBVIOUS
<1> QED
  BY ZenonT(40), <1>1, PlacedAre

\* what was laid out before stays where it is
Later(a, b) == a.at <= b.at /\ Dropped(a) <= Dropped(b) /\ Extends(a.segs, b.segs)

LEMMA LayoutsAre ==
  ASSUME NEW m \in Layouts
  PROVE  m.at \in Nat /\ m.segs \in Segments /\ Dropped(m) \in Int /\ Later(m, m)
<1>1. m.at \in Nat /\ m.segs \in Segments
  BY DEF Layouts
<1>2. m.at \div 8 \in Nat /\ Total(m.segs) \in Nat
  BY <1>1, SegmentsAre, Rounding
<1>3. Extends(m.segs, m.segs)
  <2>1. PICK n \in Nat : n = Len(m.segs) /\ n >= 1 /\ \A i \in 1 .. n : m.segs[i] \in Nat
    BY <1>1, SegmentsAre
  <2> QED
    BY <2>1 DEF Extends
<1> QED
  BY <1>1, <1>2, <1>3 DEF Dropped, Later

LEMMA LaterOn ==
  ASSUME NEW a \in Layouts, NEW b \in Layouts, NEW c \in Layouts, Later(a, b), Later(b, c)
  PROVE  Later(a, c)
<1>1. Extends(a.segs, c.segs)
  BY LayoutsAre, ExtendsOn DEF Later
<1> QED
  BY <1>1, LayoutsAre DEF Later

LEMMA PlacedAll ==
  ASSUME NEW st \in Layouts, Dropped(st) >= 0, NEW B \in Seq(Nat), NEW force \in BOOLEAN
  PROVE  LET u == Placed(st, B, force)
         IN  /\ Later(st, u[0])
             /\ \A k \in 0 .. Len(B) :
                  /\ u[k] \in Layouts /\ Dropped(u[k]) >= 0 /\ Len(u[k].starts) = k
                  /\ \A j \in 0 .. k : Later(u[j], u[k])
                  /\ \A i \in 1 .. k : u[k].starts[i] = StartOf(u[i - 1].at, B[i])
                  /\ (\A i \in 1 .. Len(B) : Bytes(B[i]) < MaxSegment) /\ Bounded(st.segs) => Bounded(u[k].segs)
<1> DEFINE u == Placed(st, B, force)
           Small == (\A i \in 1 .. Len(B) : Bytes(B[i]) < MaxSegment) /\ Bounded(st.segs)
           Good(k) == /\ u[k] \in Layouts /\ Dropped(u[k]) >= 0 /\ Len(u[k].starts) = k
                      /\ \A j \in 0 .. k : Later(u[j], u[k])
                      /\ \A i \in 1 .. k : u[k].starts[i] = StartOf(u[i - 1].at, B[i])
                      /\ Small => Bounded(u[k].segs)
           H == {k \in Nat : \A j \in 0 .. k : Good(j)}
<1>1. /\ Len(B) \in Nat /\ u[0] = NoneYet(st)
      /\ \A k \in 1 .. Len(B) : B[k] \in Nat /\ u[k] = PlaceSlave(u[k - 1], B[k], force)
  BY PlacedFirst, PlacedNext
<1> HIDE DEF u
<1>2. u[0] \in Layouts /\ u[0].at = st.at /\ u[0].segs = st.segs /\ u[0].starts = <<>>
  <2>1. st \in [at : Nat, segs : Segments, starts : Seq(Nat)] /\ <<>> \in Seq(Nat)
    BY DEF Layouts
  <2> QED
    BY <1>1, <2>1 DEF Layouts, NoneYet
<1>3. Later(st, u[0]) /\ Dropped(u[0]) = Dropped(st)
  BY <1>2, LayoutsAre DEF Later, Dropped
<1>4. 0 \in H
  BY <1>2, <1>3, LayoutsAre
<1>5. ASSUME NEW k \in 1 .. Len(B), k - 1 \in H PROVE k \in H
  <2>1. \A j \in 0 .. k - 1 : Good(j)
    BY <1>5
  <2>2. k - 1 \in 0 .. k - 1 /\ Good(k - 1)
    BY <2>1
  <2>3. PICK m \in Layouts : m = u[k - 1] /\ Dropped(m) >= 0 /\ Len(m.starts) = k - 1
    BY <2>2
  <2>4. u[k] = PlaceSlave(m, B[k], force) /\ B[k] \in Nat
    BY <1>1, <2>3
  <2>5. /\ u[k] \in Layouts /\ Dropped(u[k]) >= Dropped(m) /\ Extends(m.segs, u[k].segs) /\ m.at <= u[k].at
        /\ u[k].starts = Append(m.starts, StartOf(m.at, B[k]))
        /\ Bytes(B[k]) < MaxSegment /\ Bounded(m.segs) => Bounded(u[k].segs)
    <3> SUFFICES ASSUME NEW bits \in Nat, bits = B[k]
                 PROVE  LET r == PlaceSlave(m, bits, force)
                        IN  /\ r \in Layouts /\ Dropped(r) >= Dropped(m) /\ Extends(m.segs, r.segs) /\ m.at <= r.at
                            /\ r.starts = Append(m.starts, StartOf(m.at, bits))
                            /\ Bytes(bits) < MaxSegment /\ Bounded(m.segs) => Bounded(r.segs)
      BY <2>4
    <3>1. Dropped(m) >= 0
      BY <2>3
    <3> QED
      BY <3>1, PlaceSlaveStep
  <2>6. Later(m, u[k])
    BY <2>5 DEF Later
  <2>7. \A j \in 0 .. k : Later(u[j], u[k])
    <3> SUFFICES ASSUME NEW j \in 0 .. k PROVE Later(u[j], u[k])
      OBVIOUS
    <3>1. CASE j = k
      BY <2>5, <3>1, LayoutsAre
    <3>2. CASE j # k
      <4>1. j \in 0 .. k - 1
        BY <3>2
      <4>2. u[j] \in Layouts /\ Later(u[j], m)
        BY <2>1, <2>2, <2>3, <4>1
      <4> QED
        BY <2>5, <2>6, <4>2, LaterOn
    <3> QED
      BY <3>1, <3>2
  <2>8. /\ Len(u[k].starts) = k
        /\ \A i \in 1 .. k : u[k].starts[i] = StartOf(u[i - 1].at, B[i])
    <3>1. PICK s \in Seq(Nat), x \in Nat : s = m.starts /\ x = StartOf(m.at, B[k])
      BY <2>3, <2>4, LayoutsAre, PlaceOf DEF Layouts
    <3>2. Len(s) = k - 1 /\ u[k].starts = Append(s, x)
      BY <2>3, <2>5, <3>1
    <3>3. Len(u[k].starts) = k /\ u[k].starts[k] = x /\ \A i \in 1 .. k - 1 : u[k].starts[i] = s[i]
      BY <3>2
    <3>4. \A i \in 1 .. k - 1 : s[i] = StartOf(u[i - 1].at, B[i])
      BY <2>2, <2>3, <3>1
    <3>5. \A i \in 1 .. k : i = k \/ i \in 1 .. k - 1
      OBVIOUS
    <3> QED
      BY <2>3, <3>1, <3>3, <3>4, <3>5
  <2>9. Dropped(u[k]) >= 0
    BY <2>3, <2>5, LayoutsAre
  <2>10. Small => Bounded(u[k].segs)
    BY <2>2, <2>3, <2>5
  <2>11. Good(k)
    BY <2>5, <2>7, <2>8, <2>9, <2>10
  <2>12. \A j \in 0 .. k : j = k \/ j \in 0 .. k - 1
    OBVIOUS
  <2> HIDE DEF Good
  <2> QED
    BY <2>1, <2>11, <2>12
<1> HIDE DEF H
<1>6. \A k \in 0 .. Len(B) : k \in H
  BY <1>1, <1>4, <1>5, UpToAll
<1>7. \A k \in 0 .. Len(B) : Good(k)
  <2>1. \A k \in 0 .. Len(B) : k \in 0 .. k
    OBVIOUS
  <2> HIDE DEF Good
  <2> QED
    BY <1>6, <2>1 DEF H
<1> QED
  BY <1>1, <1>3, <1>7 DEF u

Within(bytes, from, to) == \A b \in bytes : b \in Nat /\ from <= b /\ b < to

Unbroken(g, bytes) == \E k \in 1 .. Len(g) : \A b \in bytes : Piece(Sums(g), k, b)

LEMMA WithinOne ==
  ASSUME NEW a \in Segments, NEW g \in Segments, NEW from \in Int, NEW to \in Int, NEW bytes,
         InOne(a, from, to), Extends(a, g), Within(bytes, from, to)
  PROVE  Unbroken(g, bytes)
<1>1. InOne(g, from, to)
  BY ExtendedSums
<1>2. PICK k \in 1 .. Len(g) : Sums(g)[k - 1] <= from /\ to <= Sums(g)[k]
  BY <1>1 DEF InOne
<1>3. Len(g) \in Nat /\ \A j \in 0 .. Len(g) : Sums(g)[j] \in Int
  BY SegmentsAre DEF Rising
<1>4. k - 1 \in 0 .. Len(g) /\ k \in 0 .. Len(g)
  BY <1>3
<1>5. PICK x \in Int, y \in Int : x = Sums(g)[k - 1] /\ y = Sums(g)[k]
  BY <1>3, <1>4
<1>6. \A b \in bytes : x <= b /\ b < y
  BY <1>2, <1>5 DEF Within
<1> QED
  BY <1>5, <1>6 DEF Unbroken, Piece

LEMMA SlavePlaced ==
  ASSUME NEW m \in Layouts, Dropped(m) >= 0, NEW bits \in Nat, NEW force \in BOOLEAN,
         NEW R \in Layouts, Later(PlaceSlave(m, bits, force), R), R.at % 8 = 0
  PROVE  LET bytes == Occupied(StartOf(m.at, bits), bits)
         IN  /\ StartOf(m.at, bits) \in Nat /\ Within(bytes, m.at \div 8, R.at \div 8)
             /\ m.at % 8 = 0 /\ (force \/ bits \notin 1 .. 7) /\ Dropped(R) = 0 => Unbroken(R.segs, bytes)
<1>1. PICK r : r = PlaceSlave(m, bits, force)
  OBVIOUS
<1>2. /\ r \in Layouts /\ Dropped(r) >= Dropped(m) /\ EndOf(m.at, bits) <= r.at
      /\ m.at % 8 = 0 /\ (force \/ bits \notin 1 .. 7) =>
           /\ r.at % 8 = 0
           /\ Dropped(m) = 0 /\ Dropped(r) = 0 => InOne(r.segs, m.at \div 8, r.at \div 8)
  BY <1>1, PlaceSlaveStep
<1>3. r.at <= R.at /\ Dropped(r) <= Dropped(R) /\ Extends(r.segs, R.segs)
  BY <1>1 DEF Later
<1>4. PICK at \in Nat, rat \in Nat, Rat \in Nat : at = m.at /\ rat = r.at /\ Rat = R.at
  BY <1>2 DEF Layouts
<1>5. PICK e \in Nat, start \in Nat : e = EndOf(at, bits) /\ start = StartOf(at, bits)
  BY <1>4, PlaceOf
<1> DEFINE bytes == Occupied(start, bits)
<1>6. \A b \in bytes : b \in Nat /\ at \div 8 <= b /\ b < Bytes(e)
  BY <1>5, PlaceOf
<1> HIDE DEF bytes
<1>7. PICK low \in Nat, high \in Nat, eh \in Nat, rh \in Nat :
        /\ low = at \div 8 /\ high = Rat \div 8 /\ eh = Bytes(e) /\ rh = rat \div 8
        /\ eh <= high /\ (rat % 8 = 0 => eh <= rh)
  <2>1. e <= rat /\ rat <= Rat /\ Rat % 8 = 0
    BY <1>2, <1>3, <1>4, <1>5
  <2>2. e \in Nat /\ Rat \in Nat /\ rat \in Nat /\ at \in Nat
    OBVIOUS
  <2>3. Bytes(e) <= Bytes(rat) /\ Bytes(rat) <= Bytes(Rat) /\ Bytes(Rat) = Rat \div 8
    BY <2>1, <2>2, Rounding, RoundingRises
  <2>4. at \div 8 \in Nat /\ Rat \div 8 \in Nat /\ rat \div 8 \in Nat /\ Bytes(e) \in Nat /\ Bytes(rat) \in Nat
        /\ (rat % 8 = 0 => Bytes(rat) = rat \div 8)
    BY <2>2, Rounding
  <2>5. PICK br \in Nat, low \in Nat, high \in Nat, eh \in Nat, rh \in Nat :
          /\ low = at \div 8 /\ high = Rat \div 8 /\ eh = Bytes(e) /\ rh = rat \div 8 /\ br = Bytes(rat)
          /\ eh <= br /\ br <= high /\ (rat % 8 = 0 => br = rh)
    BY <2>3, <2>4
  <2>6. eh <= high /\ (rat % 8 = 0 => eh <= rh)
    BY <2>5
  <2> QED
    BY <2>5, <2>6
<1>8. Within(bytes, low, high) /\ (rat % 8 = 0 => Within(bytes, low, rh))
  BY <1>6, <1>7 DEF Within
<1>9. ASSUME at % 8 = 0, force \/ bits \notin 1 .. 7, Dropped(R) = 0 PROVE Unbroken(R.segs, bytes)
  <2>1. Dropped(m) \in Int /\ Dropped(r) \in Int /\ Dropped(R) \in Int
    BY <1>2, LayoutsAre
  <2>2. Dropped(m) = 0 /\ Dropped(r) = 0
    BY <1>2, <1>3, <1>9, <2>1
  <2>3. InOne(r.segs, low, rh) /\ rat % 8 = 0
    BY <1>2, <1>4, <1>7, <1>9, <2>2
  <2>4. r.segs \in Segments /\ R.segs \in Segments /\ low \in Int /\ rh \in Int
    BY <1>2 DEF Layouts
  <2> QED
    BY <1>3, <1>8, <2>3, <2>4, WithinOne
<1> QED
  BY <1>4, <1>5, <1>7, <1>8, <1>9 DEF bytes

LEMMA PlacedWhole ==
  ASSUME NEW st \in Layouts, Dropped(st) >= 0, NEW B \in Seq(Nat), NEW force \in BOOLEAN,
         st.at % 8 = 0, force \/ \A i \in 1 .. Len(B) : B[i] \notin 1 .. 7
  PROVE  \A k \in 0 .. Len(B) : Placed(st, B, force)[k].at % 8 = 0
<1> DEFINE u == Placed(st, B, force)
           H == {k \in Nat : k <= Len(B) => u[k].at % 8 = 0}
<1>1. /\ Len(B) \in Nat /\ u[0] = NoneYet(st)
      /\ \A k \in 1 .. Len(B) : B[k] \in Nat /\ u[k] = PlaceSlave(u[k - 1], B[k], force)
  BY PlacedFirst, PlacedNext
<1>2. \A k \in 0 .. Len(B) : u[k] \in Layouts /\ Dropped(u[k]) >= 0
  BY PlacedAll
<1> HIDE DEF u
<1>3. u[0].at = st.at
  BY <1>1 DEF Layouts, NoneYet
<1>4. 0 \in H
  BY <1>3
<1>5. ASSUME NEW k \in 1 .. Len(B), k - 1 \in H PROVE k \in H
  <2>0. k - 1 \in 0 .. Len(B) /\ k - 1 <= Len(B) /\ B[k] \in Nat
    BY <1>1
  <2>1. PICK m \in Layouts, bits \in Nat : m = u[k - 1] /\ bits = B[k]
    BY <1>2, <2>0
  <2>2. Dropped(m) >= 0 /\ m.at % 8 = 0 /\ (force \/ bits \notin 1 .. 7)
    BY <1>1, <1>2, <1>5, <2>0, <2>1
  <2>3. PlaceSlave(m, bits, force).at % 8 = 0
    BY <2>2, PlaceSlaveStep
  <2> QED
    BY <1>1, <2>1, <2>3
<1> HIDE DEF H
<1>6. \A k \in 0 .. Len(B) : k \in H
  BY <1>1, <1>4, <1>5, UpToAll
<1>7. \A k \in 0 .. Len(B) : k <= Len(B)
  OBVIOUS
<1> QED
  BY <1>6, <1>7 DEF H, u

\* a part is closed: its last byte is full
LEMMA MapPartEnd ==
  ASSUME NEW st \in Layouts, Dropped(st) >= 0, NEW B \in Seq(Nat), NEW force \in BOOLEAN
  PROVE  LET end == Placed(st, B, force)[Len(B)]
             R   == MapPart(st, B, force)
         IN  /\ R \in Layouts /\ Dropped(R) >= 0 /\ Later(end, R) /\ R.at % 8 = 0 /\ R.starts = end.starts
             /\ (\A i \in 1 .. Len(B) : Bytes(B[i]) < MaxSegment) /\ Bounded(st.segs) => Bounded(R.segs)
<1> DEFINE Small == (\A i \in 1 .. Len(B) : Bytes(B[i]) < MaxSegment) /\ Bounded(st.segs)
<1>0. Len(B) \in Nat /\ Len(B) \in 0 .. Len(B)
  OBVIOUS
<1>1. PICK end \in Layouts : /\ end = Placed(st, B, force)[Len(B)] /\ Dropped(end) >= 0
                             /\ Small => Bounded(end.segs)
  BY <1>0, PlacedAll
<1>2. PICK R : /\ R = MapPart(st, B, force)
               /\ R = IF end.at % 8 = 0 THEN end ELSE [end EXCEPT !.at = Aligned(@), !.segs = Grow(@, 1)]
  BY <1>1 DEF MapPart
<1> HIDE DEF Small
<1> SUFFICES /\ R \in Layouts /\ Dropped(R) >= 0 /\ Later(end, R) /\ R.at % 8 = 0 /\ R.starts = end.starts
             /\ Small => Bounded(R.segs)
  BY <1>1, <1>2 DEF Small
<1>3. CASE end.at % 8 = 0
  <2>1. R = end
    BY <1>2, <1>3
  <2> QED
    BY <1>1, <1>3, <2>1, LayoutsAre
<1>4. CASE end.at % 8 # 0
  <2>1. PICK at \in Nat, g \in Segments, starts \in Seq(Nat) : at = end.at /\ g = end.segs /\ starts = end.starts
    BY DEF Layouts
  <2>2. PICK h : h = Grow(g, 1)
    OBVIOUS
  <2>3. /\ h \in Segments /\ Extends(g, h) /\ (Bounded(g) => Bounded(h))
        /\ Total(h) \in {Total(g), Total(g) + 1}
    BY <2>2, GrowStep, SegmentAssumption
  <2>4. PICK p \in Nat : p = Aligned(at) /\ p % 8 = 0 /\ at <= p /\ p \div 8 = at \div 8 + 1
    BY <1>4, <2>1, Rounding
  <2>5. end \in [at : Nat, segs : Segments, starts : Seq(Nat)]
    BY DEF Layouts
  <2>6. R.at = p /\ R.segs = h /\ R.starts = starts /\ R \in Layouts
    BY <1>2, <1>4, <2>1, <2>2, <2>3, <2>4, <2>5 DEF Layouts
  <2>7. Total(g) \in Nat /\ Total(h) \in Nat
    BY <2>3, SegmentsAre
  <2>8. PICK low \in Nat, high \in Nat, tg \in Nat, th \in Nat :
          low = at \div 8 /\ high = p \div 8 /\ high = low + 1 /\ tg = Total(g) /\ th = Total(h)
    <3>1. at \div 8 \in Nat /\ p \div 8 \in Nat
      BY Rounding
    <3> QED
      BY <2>4, <2>7, <3>1
  <2>9. Dropped(end) = low - tg /\ Dropped(R) = high - th
    BY <2>1, <2>6, <2>8 DEF Dropped
  <2>10. Dropped(end) <= Dropped(R) /\ Dropped(R) >= 0
    BY <1>1, <2>3, <2>8, <2>9
  <2>11. Later(end, R)
    BY <2>1, <2>3, <2>4, <2>6, <2>10 DEF Later
  <2>12. Small => Bounded(R.segs)
    BY <1>1, <2>1, <2>3, <2>6
  <2> QED
    BY <2>1, <2>4, <2>6, <2>10, <2>11, <2>12
<1> QED
  BY <1>3, <1>4

LEMMA MapPartIs ==
  ASSUME NEW st \in Layouts, Dropped(st) >= 0, NEW B \in Seq(Nat), NEW force \in BOOLEAN
  PROVE  LET R == MapPart(st, B, force)
         IN  /\ R \in Layouts /\ Dropped(R) >= 0 /\ Later(st, R) /\ R.at % 8 = 0 /\ Len(R.starts) = Len(B)
             /\ \A i \in 1 .. Len(B) :
                  /\ R.starts[i] \in Nat
                  /\ Within(Occupied(R.starts[i], B[i]), st.at \div 8, R.at \div 8)
                  /\ st.at % 8 = 0 /\ (force \/ \A j \in 1 .. Len(B) : B[j] \notin 1 .. 7) /\ Dropped(R) = 0
                       => Unbroken(R.segs, Occupied(R.starts[i], B[i]))
             /\ (\A i \in 1 .. Len(B) : Bytes(B[i]) < MaxSegment) /\ Bounded(st.segs) => Bounded(R.segs)
<1> DEFINE Small == (\A i \in 1 .. Len(B) : Bytes(B[i]) < MaxSegment) /\ Bounded(st.segs)
           u == Placed(st, B, force)
<1>1. \A k \in 0 .. Len(B) : /\ u[k] \in Layouts /\ Dropped(u[k]) >= 0 /\ Len(u[k].starts) = k
                             /\ \A j \in 0 .. k : Later(u[j], u[k])
                             /\ \A i \in 1 .. k : u[k].starts[i] = StartOf(u[i - 1].at, B[i])
                             /\ Small => Bounded(u[k].segs)
  BY PlacedAll
<1>2. Len(B) \in Nat /\ \A k \in 1 .. Len(B) : B[k] \in Nat
  OBVIOUS
<1>3. \A k \in 1 .. Len(B) : u[k] = PlaceSlave(u[k - 1], B[k], force)
  BY <1>2, PlacedNext
<1> DEFINE n == Len(B)
<1>4. PICK R : R = MapPart(st, B, force)
  OBVIOUS
<1>5. (\A k \in 1 .. n : B[k] \in Nat) /\ n \in Nat /\ n \in 0 .. n /\ 0 \in 0 .. n
  BY <1>2
<1>6. /\ R \in Layouts /\ Dropped(R) >= 0 /\ Later(u[n], R) /\ R.at % 8 = 0 /\ R.starts = u[n].starts
      /\ Small => Bounded(R.segs)
  BY <1>4, MapPartEnd
<1>7. Later(st, u[0])
  BY PlacedAll
<1> HIDE DEF u
<1>8. \A k \in 0 .. n : Later(u[k], R)
  BY <1>5, <1>6, <1>1, LaterOn
<1>9. Later(st, R)
  BY <1>5, <1>6, <1>7, <1>1, <1>8, LaterOn
<1>10. ASSUME NEW i \in 1 .. n
      PROVE  /\ R.starts[i] \in Nat
             /\ Within(Occupied(R.starts[i], B[i]), st.at \div 8, R.at \div 8)
             /\ st.at % 8 = 0 /\ (force \/ \A j \in 1 .. n : B[j] \notin 1 .. 7) /\ Dropped(R) = 0
                  => Unbroken(R.segs, Occupied(R.starts[i], B[i]))
  <2>1. i - 1 \in 0 .. n /\ i \in 0 .. n /\ 0 \in 0 .. i - 1
    BY <1>5
  <2>2. PICK m \in Layouts, bits \in Nat : m = u[i - 1] /\ bits = B[i]
    <3>1. u[i - 1] \in Layouts
      BY <1>1, <2>1
    <3>2. B[i] \in Nat
      BY <1>5
    <3> QED
      BY <3>1, <3>2
  <2>3. Dropped(m) >= 0 /\ Later(u[0], m) /\ Later(PlaceSlave(m, bits, force), R)
    <3>1. Dropped(u[i - 1]) >= 0 /\ Later(u[0], u[i - 1])
      BY <1>1, <2>1
    <3>2. u[i] = PlaceSlave(m, bits, force)
      BY <1>3, <2>2
    <3>3. Later(u[i], R)
      BY <1>8, <2>1
    <3> QED
      BY <2>2, <3>1, <3>2, <3>3
  <2>4. R.starts[i] = StartOf(m.at, bits)
    BY <1>5, <1>6, <1>1, <2>2
  <2>5. /\ StartOf(m.at, bits) \in Nat /\ Within(Occupied(StartOf(m.at, bits), bits), m.at \div 8, R.at \div 8)
        /\ m.at % 8 = 0 /\ (force \/ bits \notin 1 .. 7) /\ Dropped(R) = 0
             => Unbroken(R.segs, Occupied(StartOf(m.at, bits), bits))
    BY <1>6, <2>3, SlavePlaced
  <2>6. st.at \in Nat /\ m.at \in Nat /\ st.at <= m.at
    <3>1. Later(st, m)
      BY <1>5, <1>7, <1>1, <2>3, LaterOn
    <3> QED
      BY <3>1, LayoutsAre DEF Later
  <2>7. Within(Occupied(StartOf(m.at, bits), bits), st.at \div 8, R.at \div 8)
    <3>1. st.at \div 8 \in Nat /\ m.at \div 8 \in Nat /\ st.at \div 8 <= m.at \div 8
      BY <2>6, Rounding, RoundingRises
    <3>2. PICK a \in Nat, c \in Nat : a = st.at \div 8 /\ c = m.at \div 8 /\ a <= c
      BY <3>1
    <3> QED
      BY <2>5, <3>2 DEF Within
  <2>8. st.at % 8 = 0 /\ (force \/ \A j \in 1 .. n : B[j] \notin 1 .. 7)
          => m.at % 8 = 0 /\ (force \/ bits \notin 1 .. 7)
    BY <1>4, <2>1, <2>2, PlacedWhole DEF u
  <2> QED
    BY <2>2, <2>4, <2>5, <2>7, <2>8
<1> QED
  BY <1>4, <1>5, <1>6, <1>1, <1>9, <1>10 DEF Small

LEMMA UnbrokenOn ==
  ASSUME NEW a \in Segments, NEW g \in Segments, NEW bytes, Unbroken(a, bytes), Extends(a, g),
         \A b \in bytes : b \in Nat
  PROVE  Unbroken(g, bytes)
<1>1. PICK k \in 1 .. Len(a) : \A b \in bytes : Piece(Sums(a), k, b)
  BY DEF Unbroken
<1>2. /\ Len(a) \in Nat /\ Len(g) \in Nat /\ Len(a) <= Len(g)
      /\ \A j \in 0 .. Len(a) : Sums(a)[j] \in Int
      /\ \A j \in 0 .. Len(g) : Sums(g)[j] \in Int
      /\ Total(a) = Sums(a)[Len(a)]
  BY SegmentsAre DEF Rising, Extends
<1>3. /\ \A j \in 0 .. Len(a) - 1 : Sums(g)[j] = Sums(a)[j]
      /\ Total(a) <= Sums(g)[Len(a)]
  BY ExtendedSums
<1>4. k \in 1 .. Len(g) /\ k - 1 \in 0 .. Len(a) - 1 /\ k \in 0 .. Len(a) /\ k \in 0 .. Len(g)
  BY <1>2
<1>5. Sums(g)[k - 1] = Sums(a)[k - 1] /\ Sums(a)[k] <= Sums(g)[k]
  <2>1. CASE k = Len(a)
    BY <1>2, <1>3, <1>4, <2>1
  <2>2. CASE k # Len(a)
    <3>1. k \in 0 .. Len(a) - 1
      BY <1>2, <2>2
    <3> QED
      BY <1>2, <1>3, <1>4, <3>1
  <2> QED
    BY <2>1, <2>2
<1>6. PICK x \in Int, y \in Int, z \in Int : x = Sums(a)[k] /\ y = Sums(g)[k] /\ z = Sums(g)[k - 1]
  <2>1. k - 1 \in 0 .. Len(g)
    BY <1>2, <1>4
  <2> QED
    BY <1>2, <1>4, <2>1
<1>7. \A b \in bytes : z <= b /\ b < x /\ x <= y
  BY <1>1, <1>5, <1>6 DEF Piece
<1>8. \A b \in bytes : Piece(Sums(g), k, b)
  BY <1>6, <1>7 DEF Piece
<1> QED
  BY <1>4, <1>8 DEF Unbroken

-----------------------------------------------------------------------------
(***************************************************************************)
(* What the group looks like after its slaves have been mapped.            *)
(***************************************************************************)
OutsAt(g, slaves, s) == Occupied(g.outAt[s], slaves[s].Obits)
InsAt(g, slaves, s)  == Occupied(g.inAt[s], slaves[s].Ibits)

AllSmall(slaves) ==
    \A s \in 1 .. Len(slaves) : Bytes(slaves[s].Obits) < MaxSegment /\ Bytes(slaves[s].Ibits) < MaxSegment
AllWhole(slaves) == \A s \in 1 .. Len(slaves) : slaves[s].Obits \notin 1 .. 7 /\ slaves[s].Ibits \notin 1 .. 7

\* whatever has been dropped
Sound(g, slaves) ==
  /\ g.IOsegment \in Segments
  /\ g.Obytes \in Nat /\ g.Ibytes \in Nat /\ g.inputs \in Nat /\ g.size = g.Obytes + g.Ibytes
  /\ g.Isegment \in 1 .. Len(g.IOsegment) /\ g.Ioffset \in Nat /\ g.Ioffset <= g.IOsegment[g.Isegment]
  /\ \A s \in 1 .. Len(slaves) : g.outAt[s] \in Nat /\ g.inAt[s] \in Nat
  /\ AllSmall(slaves) => Bounded(g.IOsegment)

\* no slave is in two segments
NoneBroken(g, slaves) == \A s \in 1 .. Len(slaves) :
  Unbroken(g.IOsegment, OutsAt(g, slaves, s)) /\ Unbroken(g.IOsegment, InsAt(g, slaves, s))

OneAfterOther(g, slaves, force) ==
  /\ g.inputs = 0
  /\ \A s \in 1 .. Len(slaves) : /\ Within(OutsAt(g, slaves, s), 0, g.Obytes)
                                 /\ Within(InsAt(g, slaves, s), g.Obytes, g.size)
  /\ Total(g.IOsegment) = g.size =>
       /\ Sums(g.IOsegment)[g.Isegment - 1] + g.Ioffset = g.Obytes
       /\ force \/ AllWhole(slaves) => NoneBroken(g, slaves)

Overlapping(g, slaves) ==
  /\ g.inputs = g.Obytes
  /\ \A s \in 1 .. Len(slaves) : /\ Within(OutsAt(g, slaves, s), 0, g.Obytes)
                                 /\ Within(InsAt(g, slaves, s), 0, g.Ibytes)
  /\ Total(g.IOsegment) = Larger(g.Obytes, g.Ibytes) => NoneBroken(g, slaves)

LEMMA SizesAre ==
  ASSUME NEW slaves \in Seq(SlaveSizes)
  PROVE  /\ Len(slaves) \in Nat /\ DOMAIN slaves = 1 .. Len(slaves)
         /\ Obits(slaves) \in Seq(Nat) /\ Len(Obits(slaves)) = Len(slaves)
         /\ Ibits(slaves) \in Seq(Nat) /\ Len(Ibits(slaves)) = Len(slaves)
         /\ \A s \in 1 .. Len(slaves) :
              /\ slaves[s].Obits \in Nat /\ slaves[s].Ibits \in Nat
              /\ Obits(slaves)[s] = slaves[s].Obits /\ Ibits(slaves)[s] = slaves[s].Ibits
<1>1. Len(slaves) \in Nat /\ DOMAIN slaves = 1 .. Len(slaves) /\ \A s \in 1 .. Len(slaves) : slaves[s] \in SlaveSizes
  OBVIOUS
<1>2. \A s \in 1 .. Len(slaves) : slaves[s].Obits \in Nat /\ slaves[s].Ibits \in Nat
  BY <1>1 DEF SlaveSizes
<1>3. PICK n \in Nat : n = Len(slaves)
  BY <1>1
<1>4. Obits(slaves) = [s \in 1 .. n |-> slaves[s].Obits] /\ Ibits(slaves) = [s \in 1 .. n |-> slaves[s].Ibits]
  BY <1>1, <1>3 DEF Obits, Ibits
<1> QED
  BY <1>1, <1>2, <1>3, <1>4

LEMMA FreshLayout ==
  /\ Fresh \in Layouts /\ Dropped(Fresh) = 0 /\ Fresh.at = 0 /\ Bounded(Fresh.segs) /\ Fresh.at \div 8 = 0
<1>1. <<0>> \in Segments /\ <<>> \in Seq(Nat)
  BY DEF Segments
<1>2. Fresh \in Layouts /\ Fresh.at = 0 /\ Fresh.segs = <<0>>
  BY <1>1 DEF Fresh, Layouts
<1>3. Total(<<0>>) = 0
  BY <1>1, SegmentsAre
<1>4. 0 \div 8 = 0
  OBVIOUS
<1> QED
  BY <1>2, <1>3, <1>4, SegmentAssumption DEF Dropped, Bounded

LEMMA MappedGroup ==
  ASSUME NEW slaves \in Seq(SlaveSizes), NEW force \in BOOLEAN
  PROVE  LET g == ecx_main_config_map_group(slaves, force)
         IN  Sound(g, slaves) /\ OneAfterOther(g, slaves, force)
<1> DEFINE n == Len(slaves)
           O == Obits(slaves)
           I == Ibits(slaves)
<1>0. /\ n \in Nat /\ DOMAIN slaves = 1 .. n /\ O \in Seq(Nat) /\ Len(O) = n /\ I \in Seq(Nat) /\ Len(I) = n
      /\ \A s \in 1 .. n : /\ slaves[s].Obits \in Nat /\ slaves[s].Ibits \in Nat
                           /\ O[s] = slaves[s].Obits /\ I[s] = slaves[s].Ibits
  BY SizesAre
<1>1. PICK outs : outs = MapPart(Fresh, O, force)
  OBVIOUS
<1>2. PICK ins : ins = MapPart(outs, I, force)
  OBVIOUS
<1>3. PICK g : g = ecx_main_config_map_group(slaves, force)
  OBVIOUS
<1>4. g = [outAt |-> outs.starts, inAt |-> ins.starts, inputs |-> 0, IOsegment |-> ins.segs,
           Obytes |-> outs.at \div 8, Ibytes |-> ins.at \div 8 - outs.at \div 8,
           Isegment |-> Len(outs.segs), Ioffset |-> Last(outs.segs), size |-> ins.at \div 8]
  BY <1>1, <1>2, <1>3 DEF ecx_main_config_map_group
<1> HIDE DEF n, O, I
<1>5. /\ outs \in Layouts /\ Dropped(outs) >= 0 /\ outs.at % 8 = 0 /\ Len(outs.starts) = n
      /\ \A s \in 1 .. n :
           /\ outs.starts[s] \in Nat
           /\ Within(Occupied(outs.starts[s], O[s]), 0, outs.at \div 8)
           /\ (force \/ \A j \in 1 .. n : O[j] \notin 1 .. 7) /\ Dropped(outs) = 0
                => Unbroken(outs.segs, Occupied(outs.starts[s], O[s]))
      /\ (\A s \in 1 .. n : Bytes(O[s]) < MaxSegment) => Bounded(outs.segs)
  <2>1. Fresh \in Layouts /\ Dropped(Fresh) >= 0 /\ Fresh.at % 8 = 0 /\ Fresh.at \div 8 = 0 /\ Bounded(Fresh.segs)
    BY FreshLayout
  <2> QED
    BY <1>0, <1>1, <2>1, MapPartIs
<1>6. /\ ins \in Layouts /\ Dropped(ins) >= 0 /\ Later(outs, ins) /\ ins.at % 8 = 0 /\ Len(ins.starts) = n
      /\ \A s \in 1 .. n :
           /\ ins.starts[s] \in Nat
           /\ Within(Occupied(ins.starts[s], I[s]), outs.at \div 8, ins.at \div 8)
           /\ (force \/ \A j \in 1 .. n : I[j] \notin 1 .. 7) /\ Dropped(ins) = 0
                => Unbroken(ins.segs, Occupied(ins.starts[s], I[s]))
      /\ (\A s \in 1 .. n : Bytes(I[s]) < MaxSegment) /\ Bounded(outs.segs) => Bounded(ins.segs)
  BY <1>0, <1>2, <1>5, MapPartIs
<1>7. PICK ob \in Nat, ib \in Nat, sz \in Nat :
        ob = outs.at \div 8 /\ ib = ins.at \div 8 - outs.at \div 8 /\ sz = ins.at \div 8 /\ sz = ob + ib
  <2>1. outs.at \in Nat /\ ins.at \in Nat /\ outs.at <= ins.at
    BY <1>5, <1>6, LayoutsAre DEF Later
  <2>2. outs.at \div 8 \in Nat /\ ins.at \div 8 \in Nat /\ outs.at \div 8 <= ins.at \div 8
    BY <2>1, Rounding, RoundingRises
  <2>3. PICK ob \in Nat, sz \in Nat : ob = outs.at \div 8 /\ sz = ins.at \div 8 /\ ob <= sz
    BY <2>2
  <2>4. PICK ib \in Nat : ib = sz - ob /\ sz = ob + ib
    BY <2>3
  <2> QED
    BY <2>3, <2>4
<1>8. PICK a \in Segments, b \in Segments : a = outs.segs /\ b = ins.segs
  BY <1>5, <1>6, LayoutsAre
<1>9. Extends(a, b) /\ Dropped(outs) = ob - Total(a) /\ Dropped(ins) = sz - Total(b) /\ Dropped(outs) <= Dropped(ins)
  BY <1>6, <1>7, <1>8 DEF Dropped, Later
<1>10. PICK k \in Nat, x \in Nat, y \in Nat, S \in Int, R \in Int :
         /\ k = Len(a) /\ k \in 1 .. Len(b) /\ x = a[k] /\ x = Last(a) /\ y = b[k] /\ x <= y
         /\ S = Sums(b)[k - 1] /\ R = Total(a) /\ R = S + x
  <2>1. PICK k \in Nat : k = Len(a) /\ k >= 1 /\ k <= Len(b) /\ Len(b) \in Nat
    BY <1>9, SegmentsAre DEF Extends
  <2>2. k \in 1 .. Len(a) /\ k \in 1 .. Len(b) /\ k - 1 \in 0 .. Len(a) - 1 /\ k - 1 \in 0 .. Len(b)
    BY <2>1
  <2>3. a[k] \in Nat /\ b[k] \in Nat /\ a[k] <= b[k] /\ Last(a) = a[k]
    BY <1>9, <2>1, <2>2, SegmentsAre DEF Extends, Last
  <2>4. Sums(b)[k - 1] = Sums(a)[k - 1] /\ Sums(a)[k] = Sums(a)[k - 1] + a[k] /\ Total(a) = Sums(a)[k]
    BY <1>9, <2>1, <2>2, SegmentsAre, ExtendedSums
  <2>5. Sums(b)[k - 1] \in Int /\ Total(a) \in Int
    BY <2>2, SegmentsAre DEF Rising
  <2> QED
    BY <2>1, <2>2, <2>3, <2>4, <2>5
<1>11. /\ g.outAt = outs.starts /\ g.inAt = ins.starts /\ g.inputs = 0 /\ g.IOsegment = b /\ g.Obytes = ob
       /\ g.Ibytes = ib /\ g.Isegment = k /\ g.Ioffset = x /\ g.size = sz
  BY <1>4, <1>7, <1>8, <1>10
<1>12. \A s \in 1 .. n : /\ OutsAt(g, slaves, s) = Occupied(outs.starts[s], O[s])
                         /\ InsAt(g, slaves, s) = Occupied(ins.starts[s], I[s])
  BY <1>0, <1>11 DEF OutsAt, InsAt
<1>13. Sound(g, slaves)
  <2>1. AllSmall(slaves) => Bounded(b)
    BY <1>0, <1>5, <1>6, <1>8 DEF AllSmall, n
  <2> QED
    BY <1>0, <1>5, <1>6, <1>7, <1>10, <1>11, <2>1 DEF Sound, n
<1>14. \A s \in 1 .. n : Within(OutsAt(g, slaves, s), 0, ob) /\ Within(InsAt(g, slaves, s), ob, sz)
  BY <1>5, <1>6, <1>7, <1>12
<1>15. ASSUME Total(b) = sz
       PROVE  /\ S + x = ob
              /\ force \/ AllWhole(slaves) => NoneBroken(g, slaves)
  <2>1. Dropped(outs) = 0 /\ Dropped(ins) = 0 /\ R = ob
    <3>1. PICK p \in Int, q \in Int : p = Dropped(outs) /\ q = Dropped(ins)
      BY <1>5, <1>6, LayoutsAre
    <3>2. p >= 0 /\ p <= q /\ q = sz - Total(b) /\ p = ob - R
      BY <1>5, <1>9, <1>10, <3>1
    <3>3. q = 0
      BY <1>7, <1>15, <3>2
    <3>4. p = 0 /\ R = ob
      BY <3>2, <3>3
    <3> QED
      BY <3>1, <3>3, <3>4
  <2>2. S + x = ob
    BY <1>10, <2>1
  <2>3. ASSUME force \/ AllWhole(slaves), NEW s \in 1 .. n
        PROVE  Unbroken(b, OutsAt(g, slaves, s)) /\ Unbroken(b, InsAt(g, slaves, s))
    <3>1. /\ force \/ \A j \in 1 .. n : O[j] \notin 1 .. 7
          /\ force \/ \A j \in 1 .. n : I[j] \notin 1 .. 7
      BY <1>0, <2>3 DEF AllWhole, n
    <3>2. Unbroken(a, OutsAt(g, slaves, s)) /\ Unbroken(b, InsAt(g, slaves, s))
      BY <1>5, <1>6, <1>8, <1>12, <2>1, <3>1
    <3>3. \A c \in OutsAt(g, slaves, s) : c \in Nat
      BY <1>14 DEF Within
    <3> QED
      BY <1>9, <3>2, <3>3, UnbrokenOn
  <2> QED
    BY <1>11, <2>2, <2>3 DEF NoneBroken, n
<1>16. OneAfterOther(g, slaves, force)
  BY <1>10, <1>11, <1>14, <1>15 DEF OneAfterOther, n
<1> QED
  BY <1>3, <1>13, <1>16

(***************************************************************************)
(* Overlapping: outputs and inputs of a slave start at the same byte.      *)
(***************************************************************************)
Overlays == {m \in [at : Nat, so : Nat, si : Nat, segs : Segments, starts : Seq(Nat)] :
               m.at = Larger(m.so, m.si) /\ m.so % 8 = 0 /\ m.si % 8 = 0 /\ m.at % 8 = 0}

LEMMA OverlaysAre ==
  ASSUME NEW m \in Overlays
  PROVE  /\ m.at \in Nat /\ m.so \in Nat /\ m.si \in Nat /\ m.segs \in Segments /\ m.starts \in Seq(Nat)
         /\ m.at % 8 = 0 /\ m.so % 8 = 0 /\ m.si % 8 = 0 /\ m.at = Larger(m.so, m.si)
         /\ m.so <= m.at /\ m.si <= m.at /\ Dropped(m) \in Int /\ Later(m, m)
<1>1. /\ m.at \in Nat /\ m.so \in Nat /\ m.si \in Nat /\ m.segs \in Segments /\ m.starts \in Seq(Nat)
      /\ m.at % 8 = 0 /\ m.so % 8 = 0 /\ m.si % 8 = 0 /\ m.at = Larger(m.so, m.si)
  BY DEF Overlays
<1>2. m.so <= m.at /\ m.si <= m.at
  BY <1>1 DEF Larger
<1>3. m.at \div 8 \in Nat /\ Total(m.segs) \in Nat
  BY <1>1, SegmentsAre, Rounding
<1>4. Extends(m.segs, m.segs)
  BY <1>1, LayoutsAre, ExtendsOn, SegmentsAre DEF Extends
<1> QED
  BY <1>1, <1>2, <1>3, <1>4 DEF Dropped, Later

LEMMA OverlaysOn ==
  ASSUME NEW a \in Overlays, NEW b \in Overlays, NEW c \in Overlays, Later(a, b), Later(b, c)
  PROVE  Later(a, c)
<1>1. Extends(a.segs, c.segs)
  BY OverlaysAre, ExtendsOn DEF Later
<1> QED
  BY <1>1, OverlaysAre DEF Later

LEMMA AlignedBytes ==
  ASSUME NEW p \in Nat, p % 8 = 0, NEW bits \in Nat
  PROVE  LET e == Aligned(EndOf(p, bits))
         IN  /\ e \in Nat /\ e % 8 = 0 /\ p <= e /\ p \div 8 \in Nat /\ e \div 8 \in Nat
             /\ e \div 8 - p \div 8 = Bytes(bits)
             /\ Within(Occupied(p, bits), p \div 8, e \div 8)
<1>1. PICK d \in Nat, e \in Nat, lo \in Nat, hi \in Nat, n \in Nat :
        /\ d = EndOf(p, bits) /\ e = Aligned(d) /\ lo = p \div 8 /\ hi = Bytes(d) /\ n = Bytes(bits)
        /\ p <= d /\ d <= e /\ e % 8 = 0 /\ e \div 8 = hi /\ hi - lo = n
  <2>1. PICK d \in Nat : d = EndOf(p, bits) /\ p <= d /\ Bytes(d) - p \div 8 = Bytes(bits)
    BY PlaceOf
  <2>2. Aligned(d) \in Nat /\ p \div 8 \in Nat /\ Bytes(d) \in Nat /\ Bytes(bits) \in Nat
        /\ d <= Aligned(d) /\ Aligned(d) % 8 = 0 /\ Aligned(d) \div 8 = Bytes(d)
    BY Rounding
  <2> QED
    BY <2>1, <2>2
<1>2. StartOf(p, bits) = p
  BY Rounding DEF StartOf
<1>3. \A b \in Occupied(p, bits) : b \in Nat /\ lo <= b /\ b < hi
  <2>1. \A b \in Occupied(StartOf(p, bits), bits) : b \in Nat /\ p \div 8 <= b /\ b < Bytes(EndOf(p, bits))
    BY PlaceOf
  <2> QED
    BY <1>1, <1>2, <2>1
<1> QED
  BY <1>1, <1>3 DEF Within

LEMMA OverlapSlaveStep ==
  ASSUME NEW m \in Overlays, Dropped(m) >= 0, NEW s \in SlaveSizes
  PROVE  LET r == OverlapSlave(m, s)
         IN  /\ r \in Overlays /\ Dropped(r) >= 0 /\ Later(m, r)
             /\ r.starts = Append(m.starts, m.at) /\ m.at <= r.so /\ m.at <= r.si
             /\ Within(Occupied(m.at, s.Obits), m.at \div 8, r.so \div 8)
             /\ Within(Occupied(m.at, s.Ibits), m.at \div 8, r.si \div 8)
             /\ Bytes(s.Obits) < MaxSegment /\ Bytes(s.Ibits) < MaxSegment /\ Bounded(m.segs) => Bounded(r.segs)
             /\ Dropped(m) = 0 /\ Dropped(r) = 0 => InOne(r.segs, m.at \div 8, r.at \div 8)
<1>1. PICK p \in Nat, g \in Segments, starts \in Seq(Nat), o \in Nat, i \in Nat :
        /\ p = m.at /\ g = m.segs /\ starts = m.starts /\ o = s.Obits /\ i = s.Ibits /\ p % 8 = 0
  BY OverlaysAre DEF SlaveSizes
<1>2. PICK so \in Nat, a \in Nat, b \in Nat, bo \in Nat :
        /\ so = Aligned(EndOf(p, o)) /\ so % 8 = 0 /\ p <= so /\ a = p \div 8 /\ b = so \div 8 /\ bo = Bytes(o)
        /\ b - a = bo /\ Within(Occupied(p, o), a, b)
  <2>1. Bytes(o) \in Nat
    BY Rounding
  <2> QED
    BY <1>1, <2>1, AlignedBytes
<1>3. PICK si \in Nat, c \in Nat, bi \in Nat :
        /\ si = Aligned(EndOf(p, i)) /\ si % 8 = 0 /\ p <= si /\ c = si \div 8 /\ bi = Bytes(i)
        /\ c - a = bi /\ Within(Occupied(p, i), a, c)
  <2>1. Bytes(i) \in Nat
    BY Rounding
  <2>2. PICK si \in Nat, l \in Nat, c \in Nat, bi \in Nat :
          /\ si = Aligned(EndOf(p, i)) /\ si % 8 = 0 /\ p <= si /\ l = p \div 8 /\ c = si \div 8 /\ bi = Bytes(i)
          /\ c - l = bi /\ Within(Occupied(p, i), l, c)
    BY <1>1, <2>1, AlignedBytes
  <2>3. l = a
    BY <1>2, <2>2
  <2> QED
    BY <2>2, <2>3
<1>4. p = 8 * a /\ so = 8 * b /\ si = 8 * c
  <2>1. \A x \in Nat : x % 8 = 0 => x = 8 * (x \div 8)
    OBVIOUS
  <2>2. p % 8 = 0 /\ a = p \div 8 /\ so % 8 = 0 /\ b = so \div 8 /\ si % 8 = 0 /\ c = si \div 8
    BY <1>1, <1>2, <1>3
  <2> QED
    BY <2>1, <2>2
<1>5. (so - p) \div 8 = b - a /\ (si - p) \div 8 = c - a
  <2>1. (8 * b - 8 * a) \div 8 = b - a /\ (8 * c - 8 * a) \div 8 = c - a
    OBVIOUS
  <2> QED
    BY <1>4, <2>1
<1>6. PICK q \in Nat, d \in Nat, diff \in Nat :
        /\ q = Larger(so, si) /\ q % 8 = 0 /\ p <= q /\ d = q \div 8 /\ diff = (q - p) \div 8 /\ d = a + diff
        /\ (bo < MaxSegment /\ bi < MaxSegment => diff <= MaxSegment)
  <2>1. CASE so > si
    <3>1. Larger(so, si) = so
      BY <2>1 DEF Larger
    <3>2. PICK diff \in Nat : diff = b - a /\ diff = (so - p) \div 8 /\ b = a + diff /\ diff = bo
      BY <1>2, <1>5
    <3>3. bo < MaxSegment => diff <= MaxSegment
      BY <3>2, SegmentAssumption
    <3> QED
      BY <1>2, <3>1, <3>2, <3>3
  <2>2. CASE ~(so > si)
    <3>1. Larger(so, si) = si
      BY <2>2 DEF Larger
    <3>2. PICK diff \in Nat : diff = c - a /\ diff = (si - p) \div 8 /\ c = a + diff /\ diff = bi
      BY <1>3, <1>5
    <3>3. bi < MaxSegment => diff <= MaxSegment
      BY <3>2, SegmentAssumption
    <3> QED
      BY <1>3, <3>1, <3>2, <3>3
  <2> QED
    BY <2>1, <2>2
<1>7. PICK h : h = Grow(g, diff)
  OBVIOUS
<1>8. /\ h \in Segments /\ Extends(g, h)
      /\ Bounded(g) /\ diff <= MaxSegment => Bounded(h)
      /\ Total(h) \in {Total(g), Total(g) + diff}
      /\ Total(h) = Total(g) + diff => InOne(h, Total(g), Total(g) + diff)
  BY <1>7, GrowStep
<1>9. PICK r : r = OverlapSlave(m, s)
  OBVIOUS
<1>10. r = [at |-> q, so |-> so, si |-> si, segs |-> h, starts |-> Append(starts, p)]
  BY <1>1, <1>2, <1>3, <1>6, <1>7, <1>9 DEF OverlapSlave
<1>11. r.at = q /\ r.so = so /\ r.si = si /\ r.segs = h /\ r.starts = Append(starts, p)
  BY <1>10
<1>12. r \in Overlays
  <2>1. Append(starts, p) \in Seq(Nat)
    OBVIOUS
  <2> QED
    BY <1>2, <1>3, <1>6, <1>8, <1>10, <2>1 DEF Overlays
<1>13. PICK tg \in Nat, th \in Nat : tg = Total(g) /\ th = Total(h)
  BY <1>8, SegmentsAre
<1>14. Dropped(m) = a - tg /\ Dropped(r) = d - th
  <2>1. Dropped(m) = p \div 8 - Total(g) /\ Dropped(r) = q \div 8 - Total(h)
    BY <1>1, <1>11 DEF Dropped
  <2> QED
    BY <1>2, <1>6, <1>13, <2>1
<1>15. d = a + diff /\ th \in {tg, tg + diff} /\ (th = tg + diff => InOne(h, tg, tg + diff))
  BY <1>6, <1>8, <1>13
<1>16. Dropped(r) >= Dropped(m) /\ Dropped(r) >= 0
  <2>1. a - tg >= 0
    BY <1>14
  <2>2. d - th >= a - tg
    BY <1>15
  <2> QED
    BY <1>14, <2>1, <2>2
<1>17. Later(m, r)
  BY <1>1, <1>6, <1>8, <1>11, <1>16 DEF Later
<1>18. Dropped(m) = 0 /\ Dropped(r) = 0 => InOne(h, a, d)
  <2> SUFFICES ASSUME a - tg = 0, d - th = 0 PROVE InOne(h, a, d)
    BY <1>14
  <2>1. tg = a /\ th = tg + diff /\ tg + diff = d
    BY <1>15
  <2> QED
    BY <1>15, <2>1
<1>19. bo < MaxSegment /\ bi < MaxSegment /\ Bounded(g) => Bounded(h)
  BY <1>6, <1>8
<1> QED
  BY <1>1, <1>2, <1>3, <1>6, <1>9, <1>11, <1>12, <1>16, <1>17, <1>18, <1>19

LEMMA OverlappedAre ==
  ASSUME NEW slaves, Len(slaves) \in Nat
  PROVE  /\ Overlapped(slaves)[0] = [at |-> 0, so |-> 0, si |-> 0, segs |-> <<0>>, starts |-> <<>>]
         /\ \A k \in 1 .. Len(slaves) : Overlapped(slaves)[k] = OverlapSlave(Overlapped(slaves)[k - 1], slaves[k])
<1> DEFINE first == [at |-> 0, so |-> 0, si |-> 0, segs |-> <<0>>, starts |-> <<>>]
           Next0(m, k) == OverlapSlave(m, slaves[k])
           IsPlaced(f, n) == f = [k \in 0 .. n |-> IF k = 0 THEN first ELSE Next0(f[k - 1], k)]
           H == {n \in Nat : \E f : IsPlaced(f, n)}
<1>0. Overlapped(slaves) = CHOOSE f : IsPlaced(f, Len(slaves))
  BY DEF Overlapped
<1> HIDE DEF first, Next0
<1>1. 0 \in H
  <2> DEFINE z == [k \in 0 .. 0 |-> first]
  <2>1. IsPlaced(z, 0)
    OBVIOUS
  <2> QED
    BY <2>1
<1>2. ASSUME NEW n \in 1 .. Len(slaves), n - 1 \in H PROVE n \in H
  <2>1. PICK f : IsPlaced(f, n - 1)
    BY <1>2
  <2> DEFINE e == Next0(f[n - 1], n)
             g == [k \in 0 .. n |-> IF k = n THEN e ELSE f[k]]
  <2>2. ASSUME NEW k \in 0 .. n PROVE g[k] = IF k = 0 THEN first ELSE Next0(g[k - 1], k)
    <3>1. CASE k = n
      BY <3>1
    <3>2. CASE k # n
      <4>1. k \in 0 .. n - 1 /\ (k # 0 => k - 1 \in 0 .. n /\ k - 1 # n)
        BY <3>2
      <4>2. f[k] = IF k = 0 THEN first ELSE Next0(f[k - 1], k)
        BY <2>1, <4>1
      <4> QED
        BY <3>2, <4>1, <4>2
    <3> QED
      BY <3>1, <3>2
  <2>3. IsPlaced(g, n)
    BY <2>2
  <2> HIDE DEF g, IsPlaced
  <2> QED
    BY <2>3
<1> HIDE DEF H
<1>3. \A k \in 0 .. Len(slaves) : k \in H
  BY <1>1, <1>2, UpToAll
<1>4. \E f : IsPlaced(f, Len(slaves))
  BY <1>3 DEF H
<1>5. IsPlaced(Overlapped(slaves), Len(slaves))
  BY <1>0, <1>4
<1>6. \A k \in 0 .. Len(slaves) : Overlapped(slaves)[k] = IF k = 0 THEN first ELSE Next0(Overlapped(slaves)[k - 1], k)
  BY <1>5
<1>7. 0 \in 0 .. Len(slaves) /\ \A k \in 1 .. Len(slaves) : k \in 0 .. Len(slaves) /\ k # 0
  OBVIOUS
<1> QED
  BY <1>6, <1>7 DEF first, Next0

LEMMA OverlappedAll ==
  ASSUME NEW slaves \in Seq(SlaveSizes)
  PROVE  LET u == Overlapped(slaves)
         IN  \A k \in 0 .. Len(slaves) :
               /\ u[k] \in Overlays /\ Dropped(u[k]) >= 0 /\ Len(u[k].starts) = k
               /\ \A j \in 0 .. k : Later(u[j], u[k])
               /\ \A i \in 1 .. k : u[k].starts[i] = u[i - 1].at
               /\ AllSmall(slaves) => Bounded(u[k].segs)
<1> DEFINE u == Overlapped(slaves)
           Good(k) == /\ u[k] \in Overlays /\ Dropped(u[k]) >= 0 /\ Len(u[k].starts) = k
                      /\ \A j \in 0 .. k : Later(u[j], u[k])
                      /\ \A i \in 1 .. k : u[k].starts[i] = u[i - 1].at
                      /\ AllSmall(slaves) => Bounded(u[k].segs)
           H == {k \in Nat : \A j \in 0 .. k : Good(j)}
<1>1. Len(slaves) \in Nat /\ \A k \in 1 .. Len(slaves) : slaves[k] \in SlaveSizes
  OBVIOUS
<1>2. u[0] = [at |-> 0, so |-> 0, si |-> 0, segs |-> <<0>>, starts |-> <<>>]
  BY <1>1, OverlappedAre
<1>3. \A k \in 1 .. Len(slaves) : u[k] = OverlapSlave(u[k - 1], slaves[k])
  BY <1>1, OverlappedAre
<1> HIDE DEF u
<1>4. 0 \in H
  <2>1. <<0>> \in Segments /\ <<>> \in Seq(Nat) /\ Len(<<>>) = 0 /\ 0 \div 8 = 0 /\ 0 % 8 = 0 /\ Bounded(<<0>>)
    BY SegmentAssumption DEF Segments, Bounded
  <2>2. Total(<<0>>) = 0
    BY <2>1, SegmentsAre
  <2>3. u[0] \in Overlays /\ u[0].at = 0 /\ u[0].segs = <<0>> /\ u[0].starts = <<>>
    BY <1>2, <2>1 DEF Overlays, Larger
  <2>4. Dropped(u[0]) = 0 /\ Later(u[0], u[0])
    BY <2>1, <2>2, <2>3, OverlaysAre DEF Dropped
  <2>5. Good(0)
    BY <2>1, <2>3, <2>4
  <2>6. \A j \in 0 .. 0 : j = 0
    OBVIOUS
  <2> HIDE DEF Good
  <2> QED
    BY <2>5, <2>6
<1>5. ASSUME NEW k \in 1 .. Len(slaves), k - 1 \in H PROVE k \in H
  <2>1. \A j \in 0 .. k - 1 : Good(j)
    BY <1>5
  <2>2. k - 1 \in 0 .. k - 1 /\ Good(k - 1)
    BY <2>1
  <2>3. PICK m \in Overlays, s \in SlaveSizes :
          m = u[k - 1] /\ s = slaves[k] /\ Dropped(m) >= 0 /\ Len(m.starts) = k - 1
    BY <1>1, <2>2
  <2>4. PICK r : r = OverlapSlave(m, s) /\ r = u[k]
    BY <1>3, <2>3
  <2>5. /\ r \in Overlays /\ Dropped(r) >= 0 /\ Later(m, r) /\ r.starts = Append(m.starts, m.at)
        /\ Bytes(s.Obits) < MaxSegment /\ Bytes(s.Ibits) < MaxSegment /\ Bounded(m.segs) => Bounded(r.segs)
    BY <2>3, <2>4, OverlapSlaveStep
  <2>6. \A j \in 0 .. k : Later(u[j], r)
    <3> SUFFICES ASSUME NEW j \in 0 .. k PROVE Later(u[j], r)
      OBVIOUS
    <3>1. CASE j = k
      BY <2>4, <2>5, <3>1, OverlaysAre
    <3>2. CASE j # k
      <4>1. j \in 0 .. k - 1
        BY <3>2
      <4>2. u[j] \in Overlays /\ Later(u[j], m)
        BY <2>1, <2>2, <2>3, <4>1
      <4> QED
        BY <2>5, <4>2, OverlaysOn
    <3> QED
      BY <3>1, <3>2
  <2>7. Len(r.starts) = k /\ \A i \in 1 .. k : r.starts[i] = u[i - 1].at
    <3>1. PICK g \in Seq(Nat), x \in Nat : g = m.starts /\ x = m.at
      BY <2>3, OverlaysAre
    <3>2. Len(g) = k - 1 /\ r.starts = Append(g, x)
      BY <2>3, <2>5, <3>1
    <3>3. Len(r.starts) = k /\ r.starts[k] = x /\ \A i \in 1 .. k - 1 : r.starts[i] = g[i]
      BY <3>2
    <3>4. \A i \in 1 .. k - 1 : g[i] = u[i - 1].at
      BY <2>2, <2>3, <3>1
    <3>5. \A i \in 1 .. k : i = k \/ i \in 1 .. k - 1
      OBVIOUS
    <3> QED
      BY <2>3, <3>1, <3>3, <3>4, <3>5
  <2>8. AllSmall(slaves) => Bounded(r.segs)
    BY <2>2, <2>3, <2>5 DEF AllSmall
  <2>9. Good(k)
    BY <2>4, <2>5, <2>6, <2>7, <2>8
  <2>10. \A j \in 0 .. k : j = k \/ j \in 0 .. k - 1
    OBVIOUS
  <2> HIDE DEF Good
  <2> QED
    BY <2>1, <2>9, <2>10
<1> HIDE DEF H
<1>6. \A k \in 0 .. Len(slaves) : k \in H
  BY <1>1, <1>4, <1>5, UpToAll
<1>7. \A k \in 0 .. Len(slaves) : Good(k)
  <2>1. \A k \in 0 .. Len(slaves) : k \in 0 .. k
    OBVIOUS
  <2> HIDE DEF Good
  <2> QED
    BY <1>6, <2>1 DEF H
<1> QED
  BY <1>7 DEF u

\* the outputs of the last slave end behind all others, and so do the inputs
LEMMA OverlappedSlave ==
  ASSUME NEW slaves \in Seq(SlaveSizes), NEW s \in 1 .. Len(slaves)
  PROVE  LET end   == Overlapped(slaves)[Len(slaves)]
             outs  == Occupied(end.starts[s], slaves[s].Obits)
             ins   == Occupied(end.starts[s], slaves[s].Ibits)
         IN  /\ end.starts[s] \in Nat
             /\ Within(outs, 0, end.so \div 8) /\ Within(ins, 0, end.si \div 8)
             /\ Dropped(end) = 0 => Unbroken(end.segs, outs) /\ Unbroken(end.segs, ins)
<1> DEFINE u == Overlapped(slaves)
           n == Len(slaves)
<1>1. \A k \in 0 .. n : /\ u[k] \in Overlays /\ Dropped(u[k]) >= 0 /\ Len(u[k].starts) = k
                        /\ \A j \in 0 .. k : Later(u[j], u[k])
                        /\ \A i \in 1 .. k : u[k].starts[i] = u[i - 1].at
  BY OverlappedAll
<1>2. n \in Nat /\ slaves[s] \in SlaveSizes /\ s \in 1 .. n
  OBVIOUS
<1>3. \A k \in 1 .. n : u[k] = OverlapSlave(u[k - 1], slaves[k])
  BY <1>2, OverlappedAre
<1> HIDE DEF u, n
<1>4. s - 1 \in 0 .. n /\ s \in 0 .. n /\ n \in 0 .. n /\ n - 1 \in 0 .. n
  BY <1>2
<1>5. PICK m \in Overlays, r \in Overlays, end \in Overlays, v \in SlaveSizes :
        m = u[s - 1] /\ r = u[s] /\ end = u[n] /\ v = slaves[s]
  BY <1>1, <1>2, <1>4
<1>6. r = OverlapSlave(m, v) /\ Dropped(m) >= 0 /\ Later(m, r) /\ Later(r, end) /\ end.starts[s] = m.at
  <2>1. s - 1 \in 0 .. s /\ s \in 0 .. n
    BY <1>4
  <2> QED
    BY <1>1, <1>2, <1>3, <1>4, <1>5, <2>1
<1>7. /\ m.at <= r.so /\ m.at <= r.si
      /\ Within(Occupied(m.at, v.Obits), m.at \div 8, r.so \div 8)
      /\ Within(Occupied(m.at, v.Ibits), m.at \div 8, r.si \div 8)
      /\ Dropped(m) = 0 /\ Dropped(r) = 0 => InOne(r.segs, m.at \div 8, r.at \div 8)
  BY <1>6, OverlapSlaveStep
<1>8. r.so <= end.so /\ r.si <= end.si
  <2>1. CASE s = n
    BY <1>5, <2>1, OverlaysAre
  <2>2. CASE s # n
    <3>1. n \in 1 .. n /\ s \in 0 .. n - 1
      BY <1>2, <2>2
    <3>2. PICK l \in Overlays, w \in SlaveSizes : l = u[n - 1] /\ w = slaves[n] /\ Dropped(l) >= 0
      BY <1>1, <1>2, <1>4, <3>1 DEF n
    <3>3. end = OverlapSlave(l, w) /\ Later(r, l)
      BY <1>1, <1>3, <1>4, <1>5, <3>1, <3>2
    <3>4. l.at <= end.so /\ l.at <= end.si
      BY <3>2, <3>3, OverlapSlaveStep
    <3>5. r.so <= r.at /\ r.si <= r.at /\ r.at <= l.at
      BY <3>3, OverlaysAre DEF Later
    <3>6. r.so \in Nat /\ r.si \in Nat /\ r.at \in Nat /\ end.so \in Nat /\ end.si \in Nat
      BY OverlaysAre
    <3>7. l.at \in Nat
      BY OverlaysAre
    <3> QED
      BY <3>4, <3>5, <3>6, <3>7
  <2> QED
    BY <2>1, <2>2
<1>9. /\ m.at \div 8 \in Nat /\ r.so \div 8 \in Nat /\ r.si \div 8 \in Nat /\ r.at \div 8 \in Nat
      /\ end.so \div 8 \in Nat /\ end.si \div 8 \in Nat
      /\ r.so \div 8 <= end.so \div 8 /\ r.si \div 8 <= end.si \div 8
      /\ r.so \div 8 <= r.at \div 8 /\ r.si \div 8 <= r.at \div 8
  <2>1. /\ m.at \in Nat /\ r.so \in Nat /\ r.si \in Nat /\ r.at \in Nat /\ end.so \in Nat /\ end.si \in Nat
        /\ r.so <= r.at /\ r.si <= r.at
    BY OverlaysAre
  <2> QED
    BY <1>8, <2>1, Rounding, RoundingRises
<1>10. PICK a \in Nat, b \in Nat, c \in Nat, d \in Nat, e \in Nat, f \in Nat :
         /\ a = m.at \div 8 /\ b = r.so \div 8 /\ c = r.si \div 8 /\ d = r.at \div 8
         /\ e = end.so \div 8 /\ f = end.si \div 8 /\ b <= e /\ c <= f /\ b <= d /\ c <= d
  BY <1>9
<1>11. PICK outs, ins : outs = Occupied(m.at, v.Obits) /\ ins = Occupied(m.at, v.Ibits)
  OBVIOUS
<1>12. Within(outs, a, b) /\ Within(ins, a, c)
  BY <1>7, <1>10, <1>11
<1>13. Within(outs, 0, e) /\ Within(ins, 0, f) /\ Within(outs, a, d) /\ Within(ins, a, d)
  BY SMTT(30), <1>10, <1>12 DEF Within
<1>14. ASSUME Dropped(end) = 0 PROVE Unbroken(end.segs, outs) /\ Unbroken(end.segs, ins)
  <2>1. PICK x \in Int, y \in Int : x = Dropped(m) /\ y = Dropped(r)
    BY OverlaysAre
  <2>2. 0 <= x /\ x <= y /\ y <= 0
    BY <1>6, <1>14, <2>1 DEF Later
  <2>3. Dropped(m) = 0 /\ Dropped(r) = 0
    BY <2>1, <2>2
  <2>4. InOne(r.segs, a, d)
    BY <1>7, <1>10, <2>3
  <2>5. r.segs \in Segments /\ end.segs \in Segments /\ Extends(r.segs, end.segs)
    BY <1>6, OverlaysAre DEF Later
  <2> QED
    BY <1>13, <2>4, <2>5, WithinOne
<1>15. m.at \in Nat
  BY OverlaysAre
<1> QED
  BY <1>5, <1>6, <1>10, <1>11, <1>13, <1>14, <1>15 DEF u, n

LEMMA OverlapGroup ==
  ASSUME NEW slaves \in Seq(SlaveSizes)
  PROVE  LET g == ecx_config_overlap_map_group(slaves)
         IN  Sound(g, slaves) /\ Overlapping(g, slaves)
<1>0. Len(slaves) \in Nat /\ Len(slaves) \in 0 .. Len(slaves)
  OBVIOUS
<1>1. PICK end \in Overlays : /\ end = Overlapped(slaves)[Len(slaves)] /\ Dropped(end) >= 0
                              /\ AllSmall(slaves) => Bounded(end.segs)
  BY <1>0, OverlappedAll
<1>2. PICK g : g = ecx_config_overlap_map_group(slaves)
  OBVIOUS
<1>3. g = [outAt |-> end.starts, inAt |-> end.starts, inputs |-> end.so \div 8,
           IOsegment |-> end.segs, Obytes |-> end.so \div 8, Ibytes |-> end.si \div 8,
           Isegment |-> 1, Ioffset |-> 0, size |-> end.so \div 8 + end.si \div 8]
  BY <1>1, <1>2 DEF ecx_config_overlap_map_group
<1>4. PICK b \in Segments, ob \in Nat, ib \in Nat :
        b = end.segs /\ ob = end.so \div 8 /\ ib = end.si \div 8 /\ end.at \div 8 = Larger(ob, ib)
  <2>1. end.so \in Nat /\ end.si \in Nat /\ end.so % 8 = 0 /\ end.si % 8 = 0 /\ end.at = Larger(end.so, end.si)
    BY OverlaysAre
  <2>2. PICK so \in Nat, si \in Nat, ob \in Nat, ib \in Nat :
          so = end.so /\ si = end.si /\ ob = so \div 8 /\ ib = si \div 8 /\ so = 8 * ob /\ si = 8 * ib
    BY <2>1
  <2>3. Larger(so, si) = 8 * Larger(ob, ib) /\ Larger(ob, ib) \in Nat
    BY SMTT(30), <2>2 DEF Larger
  <2>4. \A x \in Nat : (8 * x) \div 8 = x
    OBVIOUS
  <2>5. end.at \div 8 = Larger(ob, ib)
    BY <2>1, <2>2, <2>3, <2>4
  <2> QED
    BY <2>2, <2>5, OverlaysAre
<1>5. /\ g.outAt = end.starts /\ g.inAt = end.starts /\ g.inputs = ob /\ g.IOsegment = b /\ g.Obytes = ob
      /\ g.Ibytes = ib /\ g.Isegment = 1 /\ g.Ioffset = 0 /\ g.size = ob + ib
  BY <1>3, <1>4
<1>6. \A s \in 1 .. Len(slaves) :
        /\ end.starts[s] \in Nat
        /\ Within(OutsAt(g, slaves, s), 0, ob) /\ Within(InsAt(g, slaves, s), 0, ib)
        /\ Dropped(end) = 0 => Unbroken(b, OutsAt(g, slaves, s)) /\ Unbroken(b, InsAt(g, slaves, s))
  BY <1>1, <1>4, <1>5, OverlappedSlave DEF OutsAt, InsAt
<1>7. Sound(g, slaves)
  <2>1. Len(b) \in Nat /\ 1 \in 1 .. Len(b) /\ b[1] \in Nat /\ 0 <= b[1]
    BY SegmentsAre
  <2> QED
    BY <1>1, <1>4, <1>5, <1>6, <2>1 DEF Sound
<1>8. Total(b) = Larger(ob, ib) => Dropped(end) = 0
  <2>1. Total(b) \in Nat
    BY SegmentsAre
  <2> QED
    BY <1>4, <2>1 DEF Dropped
<1>9. Overlapping(g, slaves)
  BY <1>5, <1>6, <1>8 DEF Overlapping, NoneBroken
<1> QED
  BY <1>2, <1>7, <1>9

-----------------------------------------------------------------------------
(***************************************************************************)
(* The loop over the segments: its datagrams follow one another.           *)
(***************************************************************************)

\* n datagrams that follow one another, cut at T
Following(cmd, T, n, shift) ==
  [i \in 1 .. n |-> [cmd |-> cmd, log |-> T[i - 1], len |-> T[i] - T[i - 1], data |-> T[i - 1] + shift, dc |-> FALSE]]

LEMMA LeastOf ==
  ASSUME NEW A \in SUBSET Nat, A # {}
  PROVE  \E m \in A : \A j \in A : m <= j
<1>1. PICK m \in A : \A y \in A : <<y, m>> \notin OpToRel(<, Nat)
  BY NatLessThanWellFounded, WFMin
<1>2. \A j \in A : ~(j < m)
  BY <1>1 DEF OpToRel
<1> QED
  BY <1>2

LEMMA LastSegmentIs ==
  ASSUME NEW g, Len(g.IOsegment) \in Nat, NEW first \in 1 .. Len(g.IOsegment), NEW size, NEW length
  PROVE  LET last == LastSegment(g, first, size, length)
         IN  /\ last \in first .. Len(g.IOsegment)
             /\ BytesOf(size, first, last) = length \/ last = Len(g.IOsegment)
             /\ \A j \in first .. last - 1 : BytesOf(size, first, j) # length
<1> DEFINE n == Len(g.IOsegment)
           Ends(k) == BytesOf(size, first, k) = length \/ k = n
           Is(k) == Ends(k) /\ \A j \in first .. k - 1 : ~Ends(j)
           last == CHOOSE k \in first .. n : Is(k)
<1>1. LastSegment(g, first, size, length) = last
  BY DEF LastSegment
<1>2. n \in Nat /\ first \in 1 .. n
  OBVIOUS
<1> HIDE DEF n
<1>3. \E k \in first .. n : Is(k)
  <2> DEFINE A == {k \in first .. n : Ends(k)}
  <2>1. A \in SUBSET Nat /\ n \in A
    BY <1>2
  <2>2. PICK m \in A : \A j \in A : m <= j
    BY <2>1, LeastOf
  <2>3. \A j \in first .. m - 1 : j \in first .. n /\ ~(m <= j)
    BY <1>2
  <2>4. \A j \in first .. m - 1 : ~Ends(j)
    BY <2>2, <2>3
  <2>5. m \in first .. n /\ Ends(m)
    OBVIOUS
  <2> HIDE DEF Ends, A
  <2> QED
    BY <2>4, <2>5
<1> HIDE DEF Is
<1>4. last \in first .. n /\ Is(last)
  BY <1>3
<1> HIDE DEF last
<1> QED
  BY <1>1, <1>4 DEF Is, n

\* until length bytes are reached, none is negative
Positive(size, first, length) ==
  \A k \in first .. Len(size) : (\A j \in first .. k - 1 : BytesOf(size, first, j) # length) => size[k] >= 0

\* D are datagrams of the segments from first on until length bytes are reached
Looped(D, cmd, first, size, LogAddr, data, length) ==
  \E T : \E w \in 1 .. Len(size) - first + 1 :
    /\ D = Following(cmd, T, w, data - LogAddr) /\ D \in Seq(Datagram)
    /\ Rising(T, w) /\ T[0] = LogAddr
    /\ \A i \in 0 .. w : T[i] = LogAddr + (Sums(size)[first - 1 + i] - Sums(size)[first - 1])
    /\ T[w] = LogAddr + length \/ first - 1 + w = Len(size)
    /\ \A i \in 1 .. w - 1 : T[i] # LogAddr + length

LEMMA SegmentedFollow ==
  ASSUME NEW g, NEW n \in Nat, n = Len(g.IOsegment), NEW first \in 1 .. n,
         NEW size \in Seq(Int), Len(size) = n, NEW cmd \in {"LRD", "LWR", "LRW"},
         NEW LogAddr \in Nat, NEW data \in Nat, NEW length \in Int,
         Positive(size, first, length)
  PROVE  Looped(Segmented(g, cmd, first, size, LogAddr, data, length), cmd, first, size, LogAddr, data, length)
<1> DEFINE S == Sums(size)
<1>1. PICK last \in first .. n :
        /\ last = LastSegment(g, first, size, length)
        /\ S[last] - S[first - 1] = length \/ last = n
        /\ \A j \in first .. last - 1 : S[j] - S[first - 1] # length
  <2>1. Len(g.IOsegment) \in Nat /\ first \in 1 .. Len(g.IOsegment)
    OBVIOUS
  <2>2. PICK last : last = LastSegment(g, first, size, length)
    OBVIOUS
  <2>3. /\ last \in first .. Len(g.IOsegment)
        /\ BytesOf(size, first, last) = length \/ last = Len(g.IOsegment)
        /\ \A j \in first .. last - 1 : BytesOf(size, first, j) # length
    BY <2>1, <2>2, LastSegmentIs
  <2> QED
    BY <2>2, <2>3 DEF BytesOf
<1>2. \A k \in 0 .. n : S[k] \in Int
  BY SumsTyped
<1>3. \A k \in 1 .. n : S[k] = S[k - 1] + size[k] /\ size[k] \in Int
  BY SumsStep
<1>4. \A k \in first .. last : size[k] >= 0
  <2> SUFFICES ASSUME NEW k \in first .. last PROVE size[k] >= 0
    OBVIOUS
  <2>1. k \in first .. n /\ \A j \in first .. k - 1 : j \in first .. last - 1
    OBVIOUS
  <2> QED
    BY <1>1, <2>1 DEF Positive, BytesOf
<1>5. \A i, k \in first - 1 .. last : i <= k => S[i] <= S[k]
  <2> SUFFICES ASSUME NEW i \in first - 1 .. last, NEW k \in first - 1 .. last, i <= k PROVE S[i] <= S[k]
    OBVIOUS
  <2>1. i \in 0 .. Len(size) /\ k \in i .. Len(size) /\ k \in i .. k /\ \A j \in i + 1 .. k : j \in first .. last
    OBVIOUS
  <2> QED
    BY <1>4, <2>1, SumsRise
<1> HIDE DEF S
<1>6. PICK w \in Nat : w = last - first + 1 /\ w \in 1 .. n - first + 1 /\ first - 1 + w = last
  OBVIOUS
<1>7. PICK z \in Int : z = S[first - 1]
  BY SMTT(30), <1>2
<1> DEFINE T == [i \in 0 .. w |-> LogAddr + (S[first - 1 + i] - z)]
<1>8. \A i \in 0 .. w : /\ first - 1 + i \in first - 1 .. last /\ first - 1 + i \in 0 .. n
                        /\ T[i] = LogAddr + (S[first - 1 + i] - z) /\ T[i] \in Int /\ S[first - 1 + i] \in Int
                        /\ z <= S[first - 1 + i]
  <2> SUFFICES ASSUME NEW i \in 0 .. w
               PROVE  /\ first - 1 + i \in first - 1 .. last /\ first - 1 + i \in 0 .. n
                      /\ T[i] = LogAddr + (S[first - 1 + i] - z) /\ T[i] \in Int /\ S[first - 1 + i] \in Int
                      /\ z <= S[first - 1 + i]
    OBVIOUS
  <2>1. PICK k \in Nat : k = first - 1 + i /\ k \in first - 1 .. last /\ k \in 0 .. n /\ first - 1 <= k
    BY <1>6
  <2>2. S[k] \in Int /\ z <= S[k]
    BY <1>2, <1>5, <1>7, <2>1
  <2> QED
    BY <2>1, <2>2
<1>9. T[0] = LogAddr
  <2>1. 0 \in 0 .. w /\ first - 1 + 0 = first - 1
    BY <1>6
  <2> QED
    BY <1>7, <1>8, <2>1
<1>10. Rising(T, w)
  <2> SUFFICES ASSUME NEW j \in 0 .. w, NEW k \in 0 .. w, j <= k PROVE T[j] <= T[k]
    <3>1. \A k \in 0 .. w : T[k] \in Int
      BY <1>8
    <3> HIDE DEF T
    <3> QED
      BY <3>1 DEF Rising
  <2>1. PICK p \in Nat, q \in Nat :
          p = first - 1 + j /\ q = first - 1 + k /\ p <= q /\ p \in first - 1 .. last /\ q \in first - 1 .. last
    BY <1>6
  <2>2. S[p] \in Int /\ S[q] \in Int /\ S[p] <= S[q] /\ T[j] = LogAddr + (S[p] - z) /\ T[k] = LogAddr + (S[q] - z)
    BY <1>5, <1>8, <2>1
  <2> HIDE DEF T
  <2> QED
    BY <2>2
<1>11. \A i \in 1 .. w : /\ i - 1 \in 0 .. w /\ i \in 0 .. w
                         /\ T[i - 1] = LogAddr + (S[first + i - 1 - 1] - z)
                         /\ T[i] - T[i - 1] = size[first + i - 1]
                         /\ T[i - 1] + (data - LogAddr) = data + (S[first + i - 1 - 1] - z)
                         /\ T[i - 1] \in Nat /\ T[i] - T[i - 1] \in Nat /\ T[i - 1] + (data - LogAddr) \in Nat
  <2> SUFFICES ASSUME NEW i \in 1 .. w
               PROVE  /\ i - 1 \in 0 .. w /\ i \in 0 .. w
                      /\ T[i - 1] = LogAddr + (S[first + i - 1 - 1] - z)
                      /\ T[i] - T[i - 1] = size[first + i - 1]
                      /\ T[i - 1] + (data - LogAddr) = data + (S[first + i - 1 - 1] - z)
                      /\ T[i - 1] \in Nat /\ T[i] - T[i - 1] \in Nat /\ T[i - 1] + (data - LogAddr) \in Nat
    OBVIOUS
  <2>1. PICK k \in Nat : /\ k = first + i - 1 /\ k \in 1 .. n /\ k \in first .. last
                         /\ first - 1 + i = k /\ first - 1 + (i - 1) = k - 1 /\ first + i - 1 - 1 = k - 1
    BY <1>6
  <2>2. i - 1 \in 0 .. w /\ i \in 0 .. w
    OBVIOUS
  <2>3. PICK a \in Int, b \in Int, d \in Int, p \in Int, q \in Int :
          /\ a = S[k - 1] /\ b = S[k] /\ d = size[k] /\ b = a + d /\ d >= 0 /\ z <= a
          /\ p = T[i - 1] /\ q = T[i] /\ p = LogAddr + (a - z) /\ q = LogAddr + (b - z)
    <3>1. S[k - 1] \in Int /\ S[k] \in Int /\ size[k] \in Int /\ S[k] = S[k - 1] + size[k] /\ size[k] >= 0
      BY <1>2, <1>3, <1>4, <2>1
    <3>2. z <= S[k - 1] /\ T[i - 1] = LogAddr + (S[k - 1] - z) /\ T[i] = LogAddr + (S[k] - z)
      BY <1>8, <2>1, <2>2
    <3>3. T[i - 1] \in Int /\ T[i] \in Int
      BY <1>8, <2>2
    <3> HIDE DEF T
    <3> QED
      BY <3>1, <3>2, <3>3
  <2> HIDE DEF T
  <2>4. b = a + d /\ d >= 0 /\ z <= a /\ p = LogAddr + (a - z) /\ q = LogAddr + (b - z)
    BY <2>3
  <2>5. p \in Nat /\ q - p = d /\ q - p \in Nat
    BY <2>4
  <2>6. p + (data - LogAddr) = data + (a - z) /\ data + (a - z) \in Nat
    BY <2>4
  <2> QED
    <3>1. T[i - 1] = p /\ T[i] = q /\ S[first + i - 1 - 1] = a /\ size[first + i - 1] = d
      BY <2>1, <2>3
    <3> HIDE DEF T
    <3> QED
      BY <2>2, <2>3, <2>5, <2>6, <3>1
<1>12. T[w] = LogAddr + length \/ first - 1 + w = n
  <2>1. w \in 0 .. w /\ first - 1 + w = last
    BY <1>6
  <2>2. PICK x \in Int : x = S[last] /\ T[w] = LogAddr + (x - z) /\ (x - z = length \/ last = n)
    BY <1>1, <1>7, <1>8, <2>1
  <2> HIDE DEF T
  <2> QED
    BY <2>1, <2>2
<1>13. \A i \in 1 .. w - 1 : T[i] # LogAddr + length
  <2> SUFFICES ASSUME NEW i \in 1 .. w - 1 PROVE T[i] # LogAddr + length
    OBVIOUS
  <2>1. PICK k \in Nat : k = first - 1 + i /\ k \in first .. last - 1 /\ i \in 0 .. w
    BY <1>6
  <2>2. PICK x \in Int : x = S[k] /\ x - z # length /\ T[i] = LogAddr + (x - z)
    <3>1. S[k] - z # length
      BY <1>1, <1>7, <2>1
    <3>2. S[k] \in Int /\ T[i] = LogAddr + (S[k] - z)
      BY <1>8, <2>1
    <3> HIDE DEF T
    <3> QED
      BY <3>1, <3>2
  <2> HIDE DEF T
  <2>3. LogAddr + (x - z) # LogAddr + length
    <3>1. x - z # length /\ x - z \in Int
      BY <2>2
    <3>2. PICK y \in Int : y = x - z /\ y # length
      BY <3>1
    <3> QED
      BY <3>2
  <2> QED
    BY <2>2, <2>3
<1>14. \A i \in 0 .. w : T[i] = LogAddr + (S[first - 1 + i] - S[first - 1])
  BY <1>7, <1>8
<1> HIDE DEF T
<1>15. Segmented(g, cmd, first, size, LogAddr, data, length) = Following(cmd, T, w, data - LogAddr)
  <2> DEFINE One(i) == [cmd |-> cmd, log |-> LogAddr + BytesOf(size, first, first + i - 1 - 1),
                        len |-> size[first + i - 1],
                        data |-> data + BytesOf(size, first, first + i - 1 - 1), dc |-> FALSE]
             Other(i) == [cmd |-> cmd, log |-> T[i - 1], len |-> T[i] - T[i - 1],
                          data |-> T[i - 1] + (data - LogAddr), dc |-> FALSE]
  <2>1. \A i \in 1 .. w : One(i) = Other(i)
    <3> SUFFICES ASSUME NEW i \in 1 .. w PROVE One(i) = Other(i)
      OBVIOUS
    <3>1. PICK a : a = BytesOf(size, first, first + i - 1 - 1) /\ a = S[first + i - 1 - 1] - z
      BY <1>7 DEF BytesOf, S
    <3>2. /\ T[i - 1] = LogAddr + a /\ T[i] - T[i - 1] = size[first + i - 1]
          /\ T[i - 1] + (data - LogAddr) = data + a
      BY <1>11, <3>1
    <3> HIDE DEF T
    <3> QED
      BY <3>1, <3>2
  <2>2. /\ Segmented(g, cmd, first, size, LogAddr, data, length) = [i \in 1 .. last - first + 1 |-> One(i)]
        /\ Following(cmd, T, w, data - LogAddr) = [i \in 1 .. w |-> Other(i)]
    BY <1>1 DEF Segmented, Following
  <2> HIDE DEF One, Other
  <2> QED
    BY <1>6, <2>1, <2>2
<1>16. Following(cmd, T, w, data - LogAddr) \in Seq(Datagram)
  <2>1. \A i \in 1 .. w : [cmd |-> cmd, log |-> T[i - 1], len |-> T[i] - T[i - 1],
                           data |-> T[i - 1] + (data - LogAddr), dc |-> FALSE] \in Datagram
    BY <1>11 DEF Datagram
  <2> QED
    BY <2>1 DEF Following
<1>17. w \in 1 .. Len(size) - first + 1 /\ (T[w] = LogAddr + length \/ first - 1 + w = Len(size))
  BY <1>6, <1>12
<1> QED
  BY <1>9, <1>10, <1>13, <1>14, <1>15, <1>16, <1>17 DEF S, Looped

(***************************************************************************)
(* Datagrams that tile the bytes from lo on, before hi, over the segments. *)
(***************************************************************************)
Tiling(D, g, lo, hi, shift) ==
  /\ D \in Seq(Datagram)
  /\ \A b \in Nat : lo <= b /\ b < hi => \E i \in 1 .. Len(D) : \A j \in 1 .. Len(D) : Covers(D[j], b) <=> j = i
  /\ \A i \in 1 .. Len(D) : \A b \in Nat : Covers(D[i], b) => lo <= b /\ b < hi
  /\ \A i \in 1 .. Len(D) : D[i].data = D[i].log + shift /\ lo <= D[i].log /\ D[i].log + D[i].len <= hi
  /\ Bounded(g.IOsegment) => \A i \in 1 .. Len(D) : D[i].len <= MaxSegment
  /\ \A bytes \in SUBSET Nat : Unbroken(g.IOsegment, bytes) =>
       \A i, j \in 1 .. Len(D) : \A b, c \in bytes : Covers(D[i], b) /\ Covers(D[j], c) => i = j

\* cuts that lie in the segments from off on
Cuts(T, n, g, off) ==
  /\ off + n <= Len(g.IOsegment)
  /\ \A i \in 1 .. n : Sums(g.IOsegment)[off + i - 1] <= T[i - 1] /\ T[i] <= Sums(g.IOsegment)[off + i]

LEMMA NothingTiles ==
  ASSUME NEW g, NEW lo \in Int, NEW shift
  PROVE  Tiling(<<>>, g, lo, lo, shift)
<1>1. <<>> \in Seq(Datagram) /\ Len(<<>>) = 0 /\ \A i \in 1 .. 0 : FALSE
  OBVIOUS
<1>2. \A b \in Nat : ~(lo <= b /\ b < lo)
  OBVIOUS
<1> QED
  BY <1>1, <1>2 DEF Tiling

LEMMA FollowingTiles ==
  ASSUME NEW g, g.IOsegment \in Segments, NEW n \in Nat, NEW T, Rising(T, n), NEW off \in Nat, Cuts(T, n, g, off),
         NEW cmd, NEW shift \in Int, Following(cmd, T, n, shift) \in Seq(Datagram)
  PROVE  Tiling(Following(cmd, T, n, shift), g, T[0], T[n], shift)
<1> DEFINE D == Following(cmd, T, n, shift)
           S == Sums(g.IOsegment)
           N == Len(g.IOsegment)
<1>1. \A i \in 1 .. n : D[i].cmd = cmd /\ D[i].log = T[i - 1] /\ D[i].len = T[i] - T[i - 1] /\ D[i].data = T[i - 1] + shift
  BY DEF Following
<1>2. Len(D) = n
  BY DEF Following
<1>3. \A i \in 0 .. n : T[i] \in Int
  BY DEF Rising
<1>4. /\ N \in Nat /\ Rising(S, N) /\ \A k \in 1 .. N : S[k] = S[k - 1] + g.IOsegment[k] /\ g.IOsegment[k] \in Nat
      /\ DOMAIN g.IOsegment = 1 .. N
  BY SegmentsAre
<1>5. /\ off + n <= N
      /\ \A i \in 1 .. n : S[off + i - 1] <= T[i - 1] /\ T[i] <= S[off + i]
  BY DEF Cuts
<1> HIDE DEF D, S, N
<1>6. \A i \in 1 .. n : \A b \in Int : Covers(D[i], b) <=> Piece(T, i, b)
  <2> SUFFICES ASSUME NEW i \in 1 .. n, NEW b \in Int PROVE Covers(D[i], b) <=> Piece(T, i, b)
    OBVIOUS
  <2>1. i - 1 \in 0 .. n /\ i \in 0 .. n
    OBVIOUS
  <2>2. PICK x \in Int, y \in Int : x = T[i - 1] /\ y = T[i] /\ D[i].log = x /\ D[i].len = y - x
    BY <1>1, <1>3, <2>1
  <2>3. x + (y - x) = y
    OBVIOUS
  <2> QED
    BY <2>2, <2>3 DEF Covers, Piece
<1>7. ASSUME NEW b \in Nat, T[0] <= b, b < T[n]
      PROVE  \E i \in 1 .. n : \A j \in 1 .. n : Covers(D[j], b) <=> j = i
  <2>1. PICK i \in 1 .. n : Piece(T, i, b)
    BY <1>7, OnePiece
  <2>2. \A j \in 1 .. n : Piece(T, j, b) <=> j = i
    BY <2>1, OnePiece
  <2>3. b \in Int
    OBVIOUS
  <2>4. \A j \in 1 .. n : Covers(D[j], b) <=> j = i
    BY <1>6, <2>2, <2>3
  <2> QED
    BY <2>4
<1>8. \A i \in 1 .. n : \A b \in Nat : Covers(D[i], b) => T[0] <= b /\ b < T[n]
  BY <1>6, OnePiece
<1>9. \A i \in 1 .. n : D[i].data = D[i].log + shift /\ T[0] <= D[i].log /\ D[i].log + D[i].len <= T[n]
  <2> SUFFICES ASSUME NEW i \in 1 .. n
               PROVE  D[i].data = D[i].log + shift /\ T[0] <= D[i].log /\ D[i].log + D[i].len <= T[n]
    OBVIOUS
  <2>1. 0 \in 0 .. n /\ n \in 0 .. n /\ i - 1 \in 0 .. n /\ i \in 0 .. n /\ 0 <= i - 1 /\ i <= n
    OBVIOUS
  <2>2. T[0] <= T[i - 1] /\ T[i] <= T[n]
    BY <2>1 DEF Rising
  <2>3. PICK x \in Int, y \in Int : x = T[i - 1] /\ y = T[i] /\ D[i].log = x /\ D[i].len = y - x /\ D[i].data = x + shift
    BY <1>1, <1>3, <2>1
  <2>4. x + (y - x) = y
    OBVIOUS
  <2> QED
    BY <2>2, <2>3, <2>4
<1>10. \A i \in 1 .. n : /\ off + i \in 1 .. N /\ off + i - 1 \in 0 .. N /\ i - 1 \in 0 .. n /\ i \in 0 .. n
                         /\ S[off + i] \in Int /\ S[off + i - 1] \in Int
  <2> SUFFICES ASSUME NEW i \in 1 .. n
               PROVE  /\ off + i \in 1 .. N /\ off + i - 1 \in 0 .. N /\ i - 1 \in 0 .. n /\ i \in 0 .. n
                      /\ S[off + i] \in Int /\ S[off + i - 1] \in Int
    OBVIOUS
  <2>1. off + i \in 1 .. N /\ off + i - 1 \in 0 .. N /\ i - 1 \in 0 .. n /\ i \in 0 .. n /\ off + i \in 0 .. N
    BY <1>4, <1>5
  <2> QED
    BY <1>4, <2>1 DEF Rising
<1>11. ASSUME Bounded(g.IOsegment), NEW i \in 1 .. n PROVE D[i].len <= MaxSegment
  <2>1. g.IOsegment[off + i] <= MaxSegment
    BY <1>4, <1>10, <1>11 DEF Bounded
  <2>2. PICK x \in Int, y \in Int, a \in Int, b \in Int, c \in Nat :
          /\ x = T[i - 1] /\ y = T[i] /\ a = S[off + i - 1] /\ b = S[off + i] /\ c = g.IOsegment[off + i]
          /\ a <= x /\ y <= b /\ b = a + c /\ c <= MaxSegment /\ D[i].len = y - x
    <3>1. T[i - 1] \in Int /\ T[i] \in Int /\ D[i].len = T[i] - T[i - 1]
      BY <1>1, <1>3, <1>10
    <3>2. S[off + i - 1] \in Int /\ S[off + i] \in Int /\ S[off + i - 1] <= T[i - 1] /\ T[i] <= S[off + i]
      BY <1>5, <1>10
    <3>3. S[off + i] = S[off + i - 1] + g.IOsegment[off + i] /\ g.IOsegment[off + i] \in Nat
      <4>0. off + i \in 1 .. N
        BY <1>10
      <4>1. PICK k \in 1 .. N : k = off + i /\ off + i - 1 = k - 1
        BY <4>0
      <4>2. S[k] = S[k - 1] + g.IOsegment[k] /\ g.IOsegment[k] \in Nat
        BY <1>4
      <4> QED
        BY <4>1, <4>2
    <3> QED
      BY <2>1, <3>1, <3>2, <3>3
  <2>3. /\ x \in Int /\ y \in Int /\ a \in Int /\ c \in Nat /\ MaxSegment \in Nat
        /\ a <= x /\ y <= a + c /\ c <= MaxSegment
    BY <2>2, SegmentAssumption
  <2>4. y - x <= c
    BY <2>3
  <2>5. y - x <= MaxSegment
    BY <2>3, <2>4
  <2> QED
    BY <2>2, <2>5
<1>12. ASSUME NEW i \in 1 .. n, NEW b \in Int, Piece(T, i, b) PROVE Piece(S, off + i, b)
  <2>1. PICK x \in Int, y \in Int, p \in Int, q \in Int :
          x = T[i - 1] /\ y = T[i] /\ p = S[off + i - 1] /\ q = S[off + i] /\ p <= x /\ y <= q /\ x <= b /\ b < y
    BY <1>3, <1>5, <1>10, <1>12 DEF Piece
  <2> QED
    BY SMTT(30), <2>1 DEF Piece
<1>13. ASSUME NEW bytes \in SUBSET Nat, Unbroken(g.IOsegment, bytes), NEW i \in 1 .. n, NEW j \in 1 .. n,
              NEW b \in bytes, NEW c \in bytes, Covers(D[i], b), Covers(D[j], c)
       PROVE  i = j
  <2>1. PICK k \in 1 .. N : \A a \in bytes : Piece(S, k, a)
    BY <1>13 DEF Unbroken, S, N
  <2>2. Piece(S, off + i, b) /\ Piece(S, off + j, c) /\ Piece(S, k, b) /\ Piece(S, k, c) /\ b \in Int /\ c \in Int
    BY <1>6, <1>12, <1>13, <2>1
  <2>3. off + i = k /\ off + j = k
    BY <1>4, <1>10, <2>2, OnePiece
  <2> QED
    BY <2>3
<1>14. Tiling(D, g, T[0], T[n], shift)
  <2>1. \A b \in Nat : T[0] <= b /\ b < T[n] =>
           \E i \in 1 .. Len(D) : \A j \in 1 .. Len(D) : Covers(D[j], b) <=> j = i
    BY <1>2, <1>7
  <2>2. \A i \in 1 .. Len(D) : \A b \in Nat : Covers(D[i], b) => T[0] <= b /\ b < T[n]
    BY <1>2, <1>8
  <2>3. \A i \in 1 .. Len(D) : D[i].data = D[i].log + shift /\ T[0] <= D[i].log /\ D[i].log + D[i].len <= T[n]
    BY <1>2, <1>9
  <2>4. Bounded(g.IOsegment) => \A i \in 1 .. Len(D) : D[i].len <= MaxSegment
    BY <1>2, <1>11
  <2>5. \A bytes \in SUBSET Nat : Unbroken(g.IOsegment, bytes) =>
           \A i, j \in 1 .. Len(D) : \A b, c \in bytes : Covers(D[i], b) /\ Covers(D[j], c) => i = j
    BY <1>2, <1>13
  <2>6. D \in Seq(Datagram)
    BY DEF D
  <2> QED
    BY <2>1, <2>2, <2>3, <2>4, <2>5, <2>6 DEF Tiling
<1> QED
  BY <1>14 DEF D

LEMMA OfFollowing ==
  ASSUME NEW cmd, NEW T, NEW n \in Nat, NEW shift
  PROVE  /\ Len(Following(cmd, T, n, shift)) = n
         /\ \A i \in 1 .. n : Following(cmd, T, n, shift)[i].cmd = cmd
BY DEF Following

(***************************************************************************)
(* One datagram for a segment, without cutting anything.                   *)
(***************************************************************************)
LEMMA LRWIs ==
  ASSUME NEW g, NEW slaves, Sound(g, slaves), NEW overlap \in BOOLEAN, NEW length \in Nat,
         length = (IF overlap THEN Larger(g.Obytes, g.Ibytes) ELSE g.Obytes + g.Ibytes)
  PROVE  /\ LRW(g, overlap) \in Seq(Datagram)
         /\ \A i \in 1 .. Len(LRW(g, overlap)) : LRW(g, overlap)[i].cmd = "LRW"
         /\ Total(g.IOsegment) = length
              => Tiling(LRW(g, overlap), g, 0, length, IF overlap THEN g.inputs ELSE 0)
<1>1. PICK b, n, data, S :
        /\ b \in Segments /\ n \in Nat /\ data \in Nat
        /\ b = g.IOsegment /\ n = Len(b) /\ n >= 1 /\ data = (IF overlap THEN g.inputs ELSE 0) /\ S = Sums(b)
  BY SegmentsAre DEF Sound
<1>2. /\ b \in Seq(Int) /\ DOMAIN b = 1 .. n /\ \A k \in 1 .. n : b[k] \in Nat
      /\ \A k \in 0 .. n : S[k] \in Int
      /\ S[0] = 0 /\ Total(b) = S[n]
  BY <1>1, SegmentsAre DEF Rising
<1>3. LRW(g, overlap) = Segmented(g, "LRW", 1, b, 0, data, length)
  BY <1>1 DEF LRW
<1>4. Positive(b, 1, length)
  BY <1>1, <1>2 DEF Positive
<1>5. PICK T, w :
        /\ w \in 1 .. n /\ w \in Nat /\ LRW(g, overlap) = Following("LRW", T, w, data)
        /\ LRW(g, overlap) \in Seq(Datagram)
        /\ Rising(T, w) /\ T[0] = 0
        /\ \A i \in 0 .. w : T[i] = 0 + (S[i] - S[0])
        /\ T[w] = length \/ w = n
  <2>1. PICK first \in 1 .. n, zero \in Nat : first = 1 /\ zero = 0
    BY <1>1
  <2>2. PICK cmd : cmd \in {"LRD", "LWR", "LRW"} /\ cmd = "LRW"
    OBVIOUS
  <2>3. /\ n \in Nat /\ n = Len(g.IOsegment) /\ Len(b) = n /\ b \in Seq(Int) /\ length \in Int
        /\ Positive(b, first, length) /\ data \in Nat
    BY <1>1, <1>2, <1>4, <2>1
  <2>4. Looped(Segmented(g, cmd, first, b, zero, data, length), cmd, first, b, zero, data, length)
    BY <2>2, <2>3, SegmentedFollow
  <2>5. PICK T, w :
          /\ w \in 1 .. n - first + 1 /\ LRW(g, overlap) = Following(cmd, T, w, data - zero)
          /\ LRW(g, overlap) \in Seq(Datagram)
          /\ Rising(T, w) /\ T[0] = zero
          /\ \A i \in 0 .. w : T[i] = zero + (Sums(b)[first - 1 + i] - Sums(b)[first - 1])
          /\ T[w] = zero + length \/ first - 1 + w = n
    BY <1>3, <2>1, <2>2, <2>3, <2>4 DEF Looped
  <2>6. w \in 1 .. n /\ data - zero = data /\ zero + length = length /\ (first - 1 + w = n => w = n)
    BY <1>1, <2>1, <2>5
  <2>7. ASSUME NEW i \in 0 .. w PROVE T[i] = 0 + (S[i] - S[0])
    <3>1. first - 1 + i = i /\ first - 1 = 0
      BY <2>1
    <3> QED
      BY <1>1, <2>1, <2>5, <3>1
  <2> QED
    BY <2>1, <2>2, <2>5, <2>6, <2>7
<1>6. \A i \in 0 .. w : T[i] = S[i]
  <2>1. ASSUME NEW i \in 0 .. w PROVE T[i] = S[i]
    <3>1. i \in 0 .. n
      BY <1>1, <1>5
    <3>2. S[i] \in Int /\ T[i] = 0 + (S[i] - S[0]) /\ S[0] = 0
      BY <1>2, <1>5, <3>1
    <3> QED
      BY <3>2
  <2> QED
    BY <2>1
<1>7. Cuts(T, w, g, 0)
  <2>1. 0 + w <= Len(g.IOsegment)
    BY <1>1, <1>5
  <2>2. ASSUME NEW i \in 1 .. w
        PROVE  Sums(g.IOsegment)[0 + i - 1] <= T[i - 1] /\ T[i] <= Sums(g.IOsegment)[0 + i]
    <3>1. 0 + i - 1 = i - 1 /\ 0 + i = i /\ i \in 0 .. w /\ i - 1 \in 0 .. w /\ i \in 0 .. n /\ i - 1 \in 0 .. n
      BY <1>1, <1>5
    <3>2. T[i] = S[i] /\ T[i - 1] = S[i - 1] /\ S[i] \in Int /\ S[i - 1] \in Int
      BY <1>2, <1>6, <3>1
    <3> QED
      BY <1>1, <3>1, <3>2
  <2> QED
    BY <2>1, <2>2 DEF Cuts
<1>8. \A i \in 1 .. Len(LRW(g, overlap)) : LRW(g, overlap)[i].cmd = "LRW"
  BY <1>5, OfFollowing
<1>9. ASSUME Total(g.IOsegment) = length
      PROVE  Tiling(LRW(g, overlap), g, 0, length, data)
  <2>1. T[w] = length
    <3>1. w \in 0 .. w
      BY <1>5
    <3> QED
      BY <1>1, <1>2, <1>5, <1>6, <1>9, <3>1
  <2>2. w \in Nat /\ 0 \in Nat /\ data \in Int /\ g.IOsegment \in Segments
    BY <1>1, <1>5
  <2>3. Following("LRW", T, w, data) = LRW(g, overlap)
    BY <1>5
  <2> QED
    BY <1>5, <1>7, <2>1, <2>2, <2>3, FollowingTiles
<1> QED
  BY <1>1, <1>5, <1>8, <1>9

(***************************************************************************)
(* The inputs alone: they start within the segment of the last outputs.    *)
(***************************************************************************)
LEMMA SumsCut ==
  ASSUME NEW b \in Segments, NEW k \in 1 .. Len(b), NEW x \in Nat, x <= b[k]
  PROVE  LET size == [b EXCEPT ![k] = @ - x]
         IN  /\ size \in Seq(Int) /\ Len(size) = Len(b) /\ \A j \in 1 .. Len(b) : size[j] \in Nat
             /\ \A j \in 0 .. k - 1 : Sums(size)[j] = Sums(b)[j]
             /\ \A j \in k .. Len(b) : Sums(size)[j] = Sums(b)[j] - x
<1>1. PICK n \in Nat : n = Len(b)
  BY SegmentsAre
<1>2. /\ b \in Seq(Int) /\ b \in Seq(Nat) /\ k \in 1 .. n /\ DOMAIN b = 1 .. n /\ \A j \in 1 .. n : b[j] \in Nat
      /\ \A j \in 0 .. n : Sums(b)[j] \in Int
      /\ \A j \in 1 .. n : Sums(b)[j] = Sums(b)[j - 1] + b[j]
  BY <1>1, SegmentsAre DEF Rising
<1>3. PICK size : size = [b EXCEPT ![k] = @ - x]
  OBVIOUS
<1>4. size = [j \in 1 .. n |-> IF j = k THEN b[k] - x ELSE b[j]]
  BY <1>2, <1>3
<1>5. \A j \in 1 .. n : size[j] \in Nat /\ size[j] = IF j = k THEN b[k] - x ELSE b[j]
  <2>1. b[k] \in Nat /\ b[k] - x \in Nat
    BY <1>2
  <2> QED
    BY <1>2, <1>4, <2>1
<1>6. size \in Seq(Int) /\ Len(size) = n
  BY <1>4, <1>5
<1>7. \A j \in 0 .. n : Sums(size)[j] \in Int
  BY <1>6, SumsTyped
<1>8. \A j \in 1 .. n : Sums(size)[j] = Sums(size)[j - 1] + size[j]
  BY <1>1, <1>6, SumsStep
<1>9. \A j \in 0 .. k - 1 : Sums(size)[j] = Sums(b)[j]
  <2>1. k - 1 \in 0 .. Len(size) /\ k - 1 <= Len(b) /\ \A i \in 1 .. k - 1 : i \in 1 .. n /\ i # k
    BY <1>1, <1>2, <1>6
  <2>2. \A i \in 1 .. k - 1 : size[i] = b[i]
    BY <1>5, <2>1
  <2> QED
    BY <1>2, <1>6, <2>1, <2>2, SumsAgree
<1> DEFINE H == {d \in Nat : k + d <= n => Sums(size)[k + d] = Sums(b)[k + d] - x}
<1>10. 0 \in H
  <2>1. k - 1 \in 0 .. k - 1 /\ k - 1 \in 0 .. n /\ k \in 1 .. n /\ k + 0 = k
    BY <1>2
  <2>2. PICK p \in Int, q \in Nat : p = Sums(b)[k - 1] /\ q = b[k]
    BY <1>2, <2>1
  <2>3. Sums(size)[k] = p + (q - x) /\ Sums(b)[k] = p + q
    BY <1>2, <1>5, <1>8, <1>9, <2>1, <2>2
  <2>4. p + (q - x) = p + q - x
    OBVIOUS
  <2> QED
    BY <2>1, <2>3, <2>4
<1>11. ASSUME NEW d \in 1 .. n - k, d - 1 \in H PROVE d \in H
  <2>1. PICK j \in Nat : j = k + d /\ j \in 1 .. n /\ j # k /\ k + (d - 1) = j - 1 /\ j - 1 \in 0 .. n /\ j - 1 <= n
    BY <1>2
  <2>2. Sums(size)[j - 1] = Sums(b)[j - 1] - x
    BY <1>11, <2>1
  <2>3. Sums(size)[j] = Sums(size)[j - 1] + b[j] /\ Sums(b)[j] = Sums(b)[j - 1] + b[j]
    BY <1>2, <1>5, <1>8, <2>1
  <2>4. PICK p \in Int, q \in Nat : p = Sums(b)[j - 1] /\ q = b[j]
    BY <1>2, <2>1
  <2>5. Sums(size)[j] = p - x + q /\ Sums(b)[j] = p + q
    BY <2>2, <2>3, <2>4
  <2>6. p - x + q = p + q - x
    OBVIOUS
  <2>7. Sums(size)[k + d] = Sums(b)[k + d] - x
    BY <2>1, <2>5, <2>6
  <2> QED
    BY <2>7
<1> HIDE DEF H
<1>12. n - k \in Nat
  BY <1>2
<1>13. \A d \in 0 .. n - k : d \in H
  BY <1>10, <1>11, <1>12, UpToAll
<1>14. \A j \in k .. n : Sums(size)[j] = Sums(b)[j] - x
  <2> SUFFICES ASSUME NEW j \in k .. n PROVE Sums(size)[j] = Sums(b)[j] - x
    OBVIOUS
  <2>1. PICK d \in Nat : d \in 0 .. n - k /\ k + d = j /\ j <= n
    <3>1. j - k \in 0 .. n - k /\ k + (j - k) = j /\ j - k \in Nat /\ j <= n
      BY <1>2
    <3> QED
      BY <3>1
  <2> QED
    BY <1>13, <2>1 DEF H
<1> QED
  BY <1>1, <1>3, <1>5, <1>6, <1>9, <1>14

LEMMA LRDIs ==
  ASSUME NEW g, NEW slaves, Sound(g, slaves)
  PROVE  /\ LRD(g) \in Seq(Datagram)
         /\ \A i \in 1 .. Len(LRD(g)) : LRD(g)[i].cmd = "LRD"
         /\ Sums(g.IOsegment)[g.Isegment - 1] + g.Ioffset = g.Obytes /\ Total(g.IOsegment) = g.Obytes + g.Ibytes
              => Tiling(LRD(g), g, g.Obytes, g.Obytes + g.Ibytes, 0)
<1>1. PICK b, n, ob, ib, first, x, S :
        /\ b \in Segments /\ n \in Nat /\ ob \in Nat /\ ib \in Nat /\ first \in 1 .. n /\ x \in Nat
        /\ b = g.IOsegment /\ n = Len(b) /\ ob = g.Obytes /\ ib = g.Ibytes /\ first = g.Isegment
        /\ x = g.Ioffset /\ x <= b[first] /\ S = Sums(b)
  BY SegmentsAre DEF Sound
<1>2. CASE ib = 0
  <2>1. LRD(g) = <<>> /\ ob + ib = ob /\ ob \in Int
    BY <1>1, <1>2 DEF LRD
  <2>2. Tiling(LRD(g), g, ob, ob + ib, 0)
    BY <2>1, NothingTiles
  <2>3. <<>> \in Seq(Datagram) /\ \A i \in 1 .. Len(<<>>) : FALSE
    OBVIOUS
  <2> QED
    BY <1>1, <2>1, <2>2, <2>3
<1>3. CASE ib # 0
  <2>1. PICK size : size = [b EXCEPT ![first] = @ - x]
    OBVIOUS
  <2>2. /\ size \in Seq(Int) /\ Len(size) = n /\ \A j \in 1 .. n : size[j] \in Nat
        /\ \A j \in 0 .. first - 1 : Sums(size)[j] = S[j]
        /\ \A j \in first .. n : Sums(size)[j] = S[j] - x
    <3>1. b \in Segments /\ first \in 1 .. Len(b) /\ x \in Nat /\ x <= b[first]
      BY <1>1
    <3>2. LET c == [b EXCEPT ![first] = @ - x]
          IN  /\ c \in Seq(Int) /\ Len(c) = Len(b) /\ \A j \in 1 .. Len(b) : c[j] \in Nat
              /\ \A j \in 0 .. first - 1 : Sums(c)[j] = Sums(b)[j]
              /\ \A j \in first .. Len(b) : Sums(c)[j] = Sums(b)[j] - x
      BY <3>1, SumsCut
    <3> QED
      BY <1>1, <2>1, <3>2
  <2>3. LRD(g) = Segmented(g, "LRD", first, size, ob, ob, ib)
    BY <1>1, <1>3, <2>1 DEF LRD
  <2>4. Positive(size, first, ib)
    <3>1. \A k \in first .. n : k \in 1 .. n
      BY <1>1
    <3> QED
      BY <2>2, <3>1 DEF Positive
  <2>5. PICK cmd : cmd \in {"LRD", "LWR", "LRW"} /\ cmd = "LRD"
    OBVIOUS
  <2>6. Looped(Segmented(g, cmd, first, size, ob, ob, ib), cmd, first, size, ob, ob, ib)
    <3>1. /\ n \in Nat /\ n = Len(g.IOsegment) /\ first \in 1 .. n /\ Len(size) = n /\ size \in Seq(Int)
          /\ ib \in Int /\ Positive(size, first, ib) /\ ob \in Nat
      BY <1>1, <2>2, <2>4
    <3> QED
      BY <2>5, <3>1, SegmentedFollow
  <2>7. PICK T, w :
          /\ w \in 1 .. n - first + 1 /\ LRD(g) = Following(cmd, T, w, ob - ob) /\ LRD(g) \in Seq(Datagram)
          /\ Rising(T, w) /\ T[0] = ob
          /\ \A i \in 0 .. w : T[i] = ob + (Sums(size)[first - 1 + i] - Sums(size)[first - 1])
          /\ T[w] = ob + ib \/ first - 1 + w = n
    BY <2>2, <2>3, <2>5, <2>6 DEF Looped
  <2>8. ob - ob = 0 /\ w \in Nat /\ w >= 1 /\ first - 1 \in Nat /\ first - 1 + w <= n
    <3>1. n \in Nat /\ first \in 1 .. n /\ w \in 1 .. n - first + 1 /\ ob \in Nat
      BY <1>1, <2>7
    <3> QED
      BY <3>1
  <2>9. \A i \in 1 .. Len(LRD(g)) : LRD(g)[i].cmd = "LRD"
    BY <2>5, <2>7, <2>8, OfFollowing
  <2>10. ASSUME S[first - 1] + x = ob, Total(b) = ob + ib
         PROVE  Tiling(LRD(g), g, ob, ob + ib, 0)
    <3>1. \A j \in 0 .. n : S[j] \in Int
      BY <1>1, SegmentsAre DEF Rising
    <3>2. ASSUME NEW i \in 1 .. w PROVE T[i] = S[first - 1 + i]
      <4>0. n \in Nat /\ first \in 1 .. n /\ w \in Nat /\ first - 1 + w <= n
        BY <1>1, <2>8
      <4>1. PICK j \in Nat : j = first - 1 + i /\ j \in first .. n /\ j \in 0 .. n /\ i \in 0 .. w
        <5>1. first - 1 + i \in first .. n /\ first - 1 + i \in 0 .. n /\ i \in 0 .. w /\ first - 1 + i \in Nat
          BY <4>0
        <5> QED
          BY <5>1
      <4>2. first - 1 \in 0 .. first - 1 /\ first - 1 \in 0 .. n
        BY <1>1
      <4>3. PICK p \in Int, q \in Int : p = S[j] /\ q = S[first - 1] /\ q + x = ob
        BY <2>10, <3>1, <4>1, <4>2
      <4>4. T[i] = ob + ((p - x) - q)
        BY <2>2, <2>7, <4>1, <4>2, <4>3
      <4>5. ob + ((p - x) - q) = p
        BY SMTT(30), <1>1, <4>3
      <4> QED
        BY <4>1, <4>3, <4>4, <4>5
    <3>3. Cuts(T, w, g, first - 1)
      <4>1. first - 1 + w <= Len(g.IOsegment)
        BY <1>1, <2>8
      <4>2. ASSUME NEW i \in 1 .. w
            PROVE  Sums(g.IOsegment)[first - 1 + i - 1] <= T[i - 1] /\ T[i] <= Sums(g.IOsegment)[first - 1 + i]
        <5>0. n \in Nat /\ first \in 1 .. n /\ w \in Nat /\ first - 1 + w <= n
          BY <1>1, <2>8
        <5>1. /\ first - 1 + i \in 0 .. n /\ first - 1 + i - 1 \in 0 .. n /\ first - 1 \in 0 .. n
              /\ first - 1 + i - 1 = first - 1 + (i - 1)
          BY <5>0
        <5>2. T[i] = S[first - 1 + i] /\ S[first - 1 + i] \in Int
          BY <3>1, <3>2, <5>1
        <5>3. CASE i = 1
          <6>1. first - 1 + i - 1 = first - 1 /\ i - 1 = 0
            BY <5>0, <5>3
          <6>2. S[first - 1] <= ob
            <7>1. PICK q \in Int : q = S[first - 1]
              BY <3>1, <5>1
            <7>2. q + x = ob /\ x \in Nat /\ ob \in Nat
              BY <1>1, <2>10, <7>1
            <7>3. q <= ob
              BY <7>2
            <7> QED
              BY <7>1, <7>3
          <6>3. T[i - 1] = ob
            BY <2>7, <6>1
          <6>4. Sums(g.IOsegment) = S
            BY <1>1
          <6>5. T[i] <= S[first - 1 + i]
            BY <5>2
          <6> QED
            BY <6>1, <6>2, <6>3, <6>4, <6>5
        <5>4. CASE i # 1
          <6>1. i - 1 \in 1 .. w
            BY <2>8, <5>4
          <6>2. T[i - 1] = S[first - 1 + (i - 1)] /\ S[first - 1 + i - 1] \in Int
            BY <3>1, <3>2, <5>1, <6>1
          <6>3. PICK v \in Int : v = S[first - 1 + i - 1] /\ v = T[i - 1]
            BY <5>1, <6>2
          <6>4. S[first - 1 + i - 1] <= T[i - 1]
            BY <6>3
          <6>5. Sums(g.IOsegment) = S
            BY <1>1
          <6>6. T[i] <= S[first - 1 + i]
            BY <5>2
          <6> QED
            BY <6>4, <6>5, <6>6
        <5> QED
          BY <5>3, <5>4
      <4> QED
        BY <4>1, <4>2 DEF Cuts
    <3>4. T[w] = ob + ib
      <4>1. w \in 1 .. w
        BY <2>8
      <4>2. Total(b) = S[n]
        BY <1>1, SegmentsAre
      <4>3. T[w] = S[first - 1 + w]
        BY <3>2, <4>1
      <4> QED
        BY <2>7, <2>10, <4>2, <4>3
    <3>5. /\ w \in Nat /\ first - 1 \in Nat /\ 0 \in Int /\ g.IOsegment \in Segments
          /\ Following(cmd, T, w, 0) = LRD(g) /\ Following(cmd, T, w, 0) \in Seq(Datagram)
      BY <1>1, <2>7, <2>8
    <3>6. Tiling(Following(cmd, T, w, 0), g, T[0], T[w], 0)
      BY <2>7, <3>3, <3>5, FollowingTiles
    <3> QED
      BY <2>7, <3>4, <3>5, <3>6
  <2> QED
    BY <1>1, <2>7, <2>9, <2>10
<1> QED
  BY <1>1, <1>2, <1>3

(***************************************************************************)
(* The outputs alone: the last segment of theirs is cut short.             *)
(***************************************************************************)
LEMMA SumsShort ==
  ASSUME NEW b \in Segments, NEW ob \in Nat, ob # 0,
         NEW size, size = [k \in DOMAIN b |-> Lesser(b[k], ob - Sums(b)[k - 1])]
  PROVE  /\ size \in Seq(Int) /\ Len(size) = Len(b)
         /\ \A k \in 0 .. Len(b) : (\A j \in 1 .. k - 1 : Sums(size)[j] # ob) => Sums(size)[k] = Lesser(Sums(b)[k], ob)
         /\ \A k \in 1 .. Len(b) : (\A j \in 1 .. k - 1 : Sums(size)[j] # ob) => size[k] >= 0
<1>1. PICK n, S, R : n \in Nat /\ n = Len(b) /\ S = Sums(b) /\ R = Sums(size)
  BY SegmentsAre
<1>2. /\ DOMAIN b = 1 .. n /\ \A j \in 1 .. n : b[j] \in Nat
      /\ \A j \in 0 .. n : S[j] \in Int
      /\ S[0] = 0 /\ \A j \in 1 .. n : S[j] = S[j - 1] + b[j]
  BY <1>1, SegmentsAre DEF Rising
<1>3. \A k \in 1 .. n : k - 1 \in 0 .. n /\ b[k] \in Nat /\ S[k - 1] \in Int
  <2>1. \A k \in 1 .. n : k - 1 \in 0 .. n
    BY <1>1
  <2> QED
    BY <1>2, <2>1
<1>4. \A k \in 1 .. n : size[k] = Lesser(b[k], ob - S[k - 1]) /\ size[k] \in Int
  BY <1>1, <1>2, <1>3 DEF Lesser
<1>5. size \in Seq(Int) /\ Len(size) = n
  <2>1. size = [k \in 1 .. n |-> size[k]] /\ n \in Nat
    BY <1>1, <1>2
  <2> QED
    BY <1>4, <2>1
<1>6. R[0] = 0 /\ \A k \in 1 .. n : R[k] = R[k - 1] + size[k]
  BY <1>1, <1>5, SumsStep
<1> DEFINE Open(k) == \A j \in 1 .. k - 1 : R[j] # ob
           H == {k \in Nat : Open(k) => R[k] = Lesser(S[k], ob)}
<1>7. 0 \in H
  BY <1>2, <1>6 DEF Lesser
\* as long as the end has not been reached, the sums are those of the segments
<1>8. ASSUME NEW k \in 1 .. n, k - 1 \in H, Open(k) PROVE R[k - 1] = S[k - 1] /\ S[k - 1] < ob
  <2>1. CASE k = 1
    BY <1>2, <1>6, <2>1
  <2>2. CASE k # 1
    <3>1. k - 1 \in 1 .. k - 1 /\ \A j \in 1 .. k - 1 - 1 : j \in 1 .. k - 1
      BY <2>2
    <3>2. R[k - 1] # ob /\ Open(k - 1)
      BY <1>8, <3>1
    <3>3. R[k - 1] = Lesser(S[k - 1], ob) /\ S[k - 1] \in Int
      BY <1>3, <1>8, <3>2
    <3> QED
      BY <3>2, <3>3 DEF Lesser
  <2> QED
    BY <2>1, <2>2
<1> HIDE DEF Open
<1>9. ASSUME NEW k \in 1 .. n, k - 1 \in H PROVE k \in H
  <2> SUFFICES ASSUME Open(k) PROVE R[k] = Lesser(S[k], ob)
    OBVIOUS
  <2>1. R[k - 1] = S[k - 1] /\ S[k - 1] < ob
    BY <1>8, <1>9
  <2>2. PICK p \in Int, q \in Nat : p = S[k - 1] /\ q = b[k] /\ p < ob
    BY <1>3, <2>1
  <2>3. R[k] = p + Lesser(q, ob - p) /\ S[k] = p + q
    BY <1>2, <1>4, <1>6, <2>1, <2>2
  <2>4. p + Lesser(q, ob - p) = Lesser(p + q, ob)
    BY <2>2 DEF Lesser
  <2> QED
    BY <2>3, <2>4
<1> HIDE DEF H
<1>10. \A k \in 0 .. n : k \in H
  BY <1>1, <1>7, <1>9, UpToAll
<1>11. ASSUME NEW k \in 1 .. n, Open(k) PROVE size[k] >= 0
  <2>1. k - 1 \in H
    BY <1>3, <1>10
  <2>2. S[k - 1] < ob
    BY <1>8, <1>11, <2>1
  <2>3. PICK p \in Int, q \in Nat : p = S[k - 1] /\ q = b[k] /\ p < ob
    BY <1>3, <2>2
  <2>4. Lesser(q, ob - p) >= 0
    BY <2>3 DEF Lesser
  <2> QED
    BY <1>4, <2>3, <2>4
<1>12. \A k \in 0 .. n : Open(k) => R[k] = Lesser(S[k], ob)
  BY <1>10 DEF H
<1> QED
  BY <1>1, <1>5, <1>11, <1>12 DEF Open

LEMMA LWRIs ==
  ASSUME NEW g, NEW slaves, Sound(g, slaves)
  PROVE  /\ LWR(g) \in Seq(Datagram)
         /\ \A i \in 1 .. Len(LWR(g)) : LWR(g)[i].cmd = "LWR"
         /\ g.Obytes <= Total(g.IOsegment) => Tiling(LWR(g), g, 0, g.Obytes, 0)
<1>1. PICK b, n, ob, S :
        /\ b \in Segments /\ n \in Nat /\ ob \in Nat /\ b = g.IOsegment /\ n = Len(b) /\ n >= 1 /\ ob = g.Obytes
        /\ S = Sums(b)
  BY SegmentsAre DEF Sound
<1>2. CASE ob = 0
  <2>1. LWR(g) = <<>> /\ 0 \in Int
    BY <1>1, <1>2 DEF LWR
  <2>2. Tiling(LWR(g), g, 0, 0, 0)
    BY <2>1, NothingTiles
  <2>3. <<>> \in Seq(Datagram) /\ \A i \in 1 .. Len(<<>>) : FALSE
    OBVIOUS
  <2> QED
    BY <1>1, <1>2, <2>1, <2>2, <2>3
<1>3. CASE ob # 0
  <2>1. PICK size : size = [k \in DOMAIN b |-> Lesser(b[k], ob - Sums(b)[k - 1])]
    OBVIOUS
  <2>2. /\ size \in Seq(Int) /\ Len(size) = n
        /\ \A k \in 0 .. n : (\A j \in 1 .. k - 1 : Sums(size)[j] # ob) => Sums(size)[k] = Lesser(S[k], ob)
        /\ \A k \in 1 .. n : (\A j \in 1 .. k - 1 : Sums(size)[j] # ob) => size[k] >= 0
    <3>1. b \in Segments /\ ob \in Nat /\ ob # 0 /\ n = Len(b) /\ S = Sums(b)
      BY <1>1, <1>3
    <3>2. /\ size \in Seq(Int) /\ Len(size) = Len(b)
          /\ \A k \in 0 .. Len(b) : (\A j \in 1 .. k - 1 : Sums(size)[j] # ob) => Sums(size)[k] = Lesser(Sums(b)[k], ob)
          /\ \A k \in 1 .. Len(b) : (\A j \in 1 .. k - 1 : Sums(size)[j] # ob) => size[k] >= 0
      BY ZenonT(40), <2>1, <3>1, SumsShort
    <3> QED
      BY <3>1, <3>2
  <2>3. LWR(g) = Segmented(g, "LWR", 1, size, 0, 0, ob)
    BY <1>1, <1>3, <2>1 DEF LWR
  <2>4. PICK first \in 1 .. n, zero \in Nat, cmd \in {"LRD", "LWR", "LRW"} : first = 1 /\ zero = 0 /\ cmd = "LWR"
    BY <1>1
  <2>5. /\ n \in Nat /\ n = Len(g.IOsegment) /\ ob \in Int
        /\ \A j \in 0 .. n : Sums(size)[j] \in Int
        /\ Sums(size)[0] = 0
    BY <1>1, <2>2, SumsTyped, SumsStep
  <2>6. Positive(size, first, ob)
    <3>1. ASSUME NEW k \in 1 .. n, \A j \in 1 .. k - 1 : BytesOf(size, 1, j) # ob PROVE size[k] >= 0
      <4>1. ASSUME NEW j \in 1 .. k - 1 PROVE Sums(size)[j] # ob
        <5>1. j \in 0 .. n /\ 1 - 1 = 0
          BY <1>1
        <5>2. Sums(size)[j] - Sums(size)[0] # ob
          BY <3>1, <5>1 DEF BytesOf
        <5> QED
          BY <2>5, <5>1, <5>2
      <4> QED
        BY <2>2, <4>1
    <3> QED
      BY <2>2, <2>4, <3>1 DEF Positive
  <2>7. Looped(Segmented(g, cmd, first, size, zero, zero, ob), cmd, first, size, zero, zero, ob)
    BY <2>2, <2>5, <2>6, SegmentedFollow
  <2>8. Looped(LWR(g), cmd, first, size, zero, zero, ob)
    BY <2>3, <2>4, <2>7
  <2>9. PICK T, w :
          /\ w \in 1 .. n - first + 1 /\ LWR(g) = Following(cmd, T, w, zero - zero) /\ LWR(g) \in Seq(Datagram)
          /\ Rising(T, w) /\ T[0] = zero
          /\ \A i \in 0 .. w : T[i] = zero + (Sums(size)[first - 1 + i] - Sums(size)[first - 1])
          /\ T[w] = zero + ob \/ first - 1 + w = n
          /\ \A i \in 1 .. w - 1 : T[i] # zero + ob
    BY <2>2, <2>8 DEF Looped
  <2>10. w \in 1 .. n /\ w \in Nat /\ zero - zero = 0 /\ zero + ob = ob /\ (first - 1 + w = n => w = n)
    BY <2>4, <2>5, <2>9
  <2>11. ASSUME NEW i \in 0 .. w PROVE T[i] = Sums(size)[i] /\ i \in 0 .. n
    <3>1. first - 1 + i = i /\ first - 1 = 0 /\ i \in 0 .. n
      <4>1. w \in 1 .. n /\ n \in Nat /\ first = 1
        BY <2>4, <2>5, <2>10
      <4> QED
        BY <4>1
    <3>2. T[i] = 0 + (Sums(size)[i] - 0)
      BY <2>4, <2>5, <2>9, <3>1
    <3> QED
      BY <2>5, <3>1, <3>2
  <2>12. ASSUME NEW i \in 0 .. w PROVE T[i] = Lesser(S[i], ob) /\ S[i] \in Int
    <3>1. \A j \in 1 .. i - 1 : j \in 1 .. w - 1 /\ j \in 0 .. w
      BY <2>10
    <3>2. \A j \in 1 .. i - 1 : Sums(size)[j] # ob
      BY <2>9, <2>10, <2>11, <3>1
    <3>3. T[i] = Lesser(S[i], ob)
      BY <2>2, <2>11, <3>2
    <3> QED
      BY <1>1, <2>11, <3>3, SegmentsAre DEF Rising
  <2>13. Cuts(T, w, g, 0)
    <3>1. 0 + w <= Len(g.IOsegment)
      BY <2>5, <2>10
    <3>2. ASSUME NEW i \in 1 .. w
          PROVE  Sums(g.IOsegment)[0 + i - 1] <= T[i - 1] /\ T[i] <= Sums(g.IOsegment)[0 + i]
      <4>1. 0 + i - 1 = i - 1 /\ 0 + i = i /\ i \in 0 .. w /\ i - 1 \in 0 .. w
        BY <2>10
      <4>2. PICK p \in Int, q \in Int : p = S[i - 1] /\ q = S[i] /\ T[i - 1] = Lesser(p, ob) /\ T[i] = Lesser(q, ob)
        BY <2>12, <4>1
      <4>3. p <= Lesser(p, ob)
        <5>1. CASE i = 1
          <6>1. p = 0
            BY <1>1, <4>2, <5>1, SegmentsAre
          <6> QED
            BY <1>1, <6>1 DEF Lesser
        <5>2. CASE i # 1
          <6>1. i - 1 \in 1 .. w - 1
            BY <2>10, <5>2
          <6>2. Lesser(p, ob) # ob
            BY <2>9, <2>10, <4>2, <6>1
          <6> QED
            BY <1>1, <6>2 DEF Lesser
        <5> QED
          BY <5>1, <5>2
      <4>4. Lesser(q, ob) <= q
        BY <1>1 DEF Lesser
      <4>5. Sums(g.IOsegment) = S
        BY <1>1
      <4> QED
        BY <4>1, <4>2, <4>3, <4>4, <4>5
    <3> QED
      BY <3>1, <3>2 DEF Cuts
  <2>14. \A i \in 1 .. Len(LWR(g)) : LWR(g)[i].cmd = "LWR"
    BY <2>4, <2>9, <2>10, OfFollowing
  <2>15. ASSUME ob <= Total(b) PROVE Tiling(LWR(g), g, 0, ob, 0)
    <3>1. T[w] = ob
      <4>1. CASE w = n
        <5>1. Total(b) = S[n]
          BY <1>1, SegmentsAre
        <5>2. w \in 0 .. w
          BY <2>10
        <5>3. T[w] = Lesser(Total(b), ob) /\ Total(b) \in Int
          BY <2>12, <4>1, <5>1, <5>2
        <5> QED
          BY <1>1, <2>15, <5>3 DEF Lesser
      <4> QED
        BY <2>9, <2>10, <4>1
    <3>2. /\ w \in Nat /\ 0 \in Nat /\ 0 \in Int /\ g.IOsegment \in Segments
          /\ Following(cmd, T, w, 0) = LWR(g) /\ Following(cmd, T, w, 0) \in Seq(Datagram)
      BY <1>1, <2>9, <2>10
    <3>3. Tiling(Following(cmd, T, w, 0), g, T[0], T[w], 0)
      BY <2>9, <2>13, <3>2, FollowingTiles
    <3> QED
      BY <2>4, <2>9, <3>1, <3>2, <3>3
  <2> QED
    BY <1>1, <2>9, <2>14, <2>15
<1> QED
  BY <1>2, <1>3

-----------------------------------------------------------------------------
(***************************************************************************)
(* All datagrams of a send: those that read tile the inputs, those that    *)
(* write the outputs, whether an LRW does both or an LRD and an LWR do.    *)
(***************************************************************************)
Reading == {"LRD", "LRW"}
Writing == {"LWR", "LRW"}

\* the datagrams of D that are of the kinds cmds tile the bytes from lo on, before hi
Serving(D, cmds, g, lo, hi, shift) ==
  /\ \A b \in Nat : lo <= b /\ b < hi =>
       \E i \in 1 .. Len(D) : \A j \in 1 .. Len(D) : D[j].cmd \in cmds /\ Covers(D[j], b) <=> j = i
  /\ \A i \in 1 .. Len(D) : D[i].cmd \in cmds =>
       D[i].data = D[i].log + shift /\ lo <= D[i].log /\ D[i].log + D[i].len <= hi
  /\ Bounded(g.IOsegment) => \A i \in 1 .. Len(D) : D[i].cmd \in cmds => D[i].len <= MaxSegment
  /\ \A bytes \in SUBSET Nat : Unbroken(g.IOsegment, bytes) =>
       \A i, j \in 1 .. Len(D) : \A b, c \in bytes :
         D[i].cmd \in cmds /\ D[j].cmd \in cmds /\ Covers(D[i], b) /\ Covers(D[j], c) => i = j

\* D differs from A by nothing but the clock
Alike(D, A) ==
  /\ Len(D) = Len(A)
  /\ \A i \in 1 .. Len(A) : /\ D[i].cmd = A[i].cmd /\ D[i].log = A[i].log
                            /\ D[i].len = A[i].len /\ D[i].data = A[i].data

LEMMA ConcatIs ==
  ASSUME NEW A \in Seq(Datagram), NEW B \in Seq(Datagram)
  PROVE  /\ Len(A) \in Nat /\ Len(B) \in Nat /\ Len(A \o B) = Len(A) + Len(B)
         /\ \A i \in 1 .. Len(A) : (A \o B)[i] = A[i]
         /\ \A i \in 1 .. Len(B) : (A \o B)[Len(A) + i] = B[i]
<1>1. Len(A) \in Nat /\ Len(B) \in Nat /\ Len(A \o B) = Len(A) + Len(B)
  OBVIOUS
<1>2. \A i \in 1 .. Len(A) : (A \o B)[i] = A[i]
  OBVIOUS
<1>3. \A i \in 1 .. Len(B) : (A \o B)[Len(A) + i] = B[i]
  OBVIOUS
<1> QED
  BY <1>1, <1>2, <1>3

LEMMA ServingAlone ==
  ASSUME NEW D, NEW A, Alike(D, A), NEW g, NEW lo, NEW hi, NEW shift, Tiling(A, g, lo, hi, shift),
         NEW cmds, \A i \in 1 .. Len(A) : A[i].cmd \in cmds
  PROVE  Serving(D, cmds, g, lo, hi, shift)
<1>1. PICK n : n = Len(A) /\ Len(D) = n
  BY DEF Alike
<1>2. \A i \in 1 .. n : /\ D[i].cmd \in cmds /\ D[i].log = A[i].log /\ D[i].len = A[i].len /\ D[i].data = A[i].data
                        /\ \A b : Covers(D[i], b) <=> Covers(A[i], b)
  BY <1>1 DEF Alike, Covers
<1>3. \A b \in Nat : lo <= b /\ b < hi =>
         \E i \in 1 .. n : \A j \in 1 .. n : Covers(A[j], b) <=> j = i
  BY <1>1 DEF Tiling
<1>4. \A b \in Nat : lo <= b /\ b < hi =>
         \E i \in 1 .. n : \A j \in 1 .. n : D[j].cmd \in cmds /\ Covers(D[j], b) <=> j = i
  <2> SUFFICES ASSUME NEW b \in Nat, lo <= b, b < hi
               PROVE  \E i \in 1 .. n : \A j \in 1 .. n : D[j].cmd \in cmds /\ Covers(D[j], b) <=> j = i
    OBVIOUS
  <2>1. PICK i \in 1 .. n : \A j \in 1 .. n : Covers(A[j], b) <=> j = i
    BY <1>3
  <2>2. ASSUME NEW j \in 1 .. n PROVE D[j].cmd \in cmds /\ Covers(D[j], b) <=> j = i
    <3>1. Covers(A[j], b) <=> j = i
      BY <2>1
    <3> QED
      BY <1>2, <3>1
  <2> QED
    BY <2>2
<1>5. ASSUME NEW i \in 1 .. n
      PROVE  /\ D[i].data = D[i].log + shift /\ lo <= D[i].log /\ D[i].log + D[i].len <= hi
             /\ Bounded(g.IOsegment) => D[i].len <= MaxSegment
  BY <1>1, <1>2 DEF Tiling
<1>6. ASSUME NEW bytes \in SUBSET Nat, Unbroken(g.IOsegment, bytes), NEW i \in 1 .. n, NEW j \in 1 .. n,
             NEW b \in bytes, NEW c \in bytes, Covers(D[i], b), Covers(D[j], c)
      PROVE  i = j
  <2>1. Covers(A[i], b) /\ Covers(A[j], c)
    BY <1>2, <1>6
  <2> QED
    BY <1>1, <1>6, <2>1 DEF Tiling
<1> QED
  BY <1>1, <1>4, <1>5, <1>6 DEF Serving

LEMMA ServingFirst ==
  ASSUME NEW A \in Seq(Datagram), NEW B \in Seq(Datagram), NEW D, Alike(D, A \o B),
         NEW g, NEW lo, NEW hi, NEW shift, Tiling(A, g, lo, hi, shift), NEW cmds,
         \A i \in 1 .. Len(A) : A[i].cmd \in cmds, \A i \in 1 .. Len(B) : B[i].cmd \notin cmds
  PROVE  Serving(D, cmds, g, lo, hi, shift)
<1>1. PICK m, k, n : m \in Nat /\ m = Len(A) /\ k \in Nat /\ k = Len(B) /\ n = m + k /\ n = Len(A \o B) /\ Len(D) = n
  <2>1. Len(A) \in Nat /\ Len(B) \in Nat /\ Len(A \o B) = Len(A) + Len(B)
    BY ConcatIs
  <2>2. Len(D) = Len(A \o B)
    BY DEF Alike
  <2> QED
    BY <2>1, <2>2
<1>2. \A i \in 1 .. m : i \in 1 .. n /\ (A \o B)[i] = A[i]
  BY <1>1, ConcatIs
<1>3. \A i \in 1 .. n : i \notin 1 .. m => i - m \in 1 .. k /\ (A \o B)[i] = B[i - m]
  <2> SUFFICES ASSUME NEW i \in 1 .. n, i \notin 1 .. m PROVE i - m \in 1 .. k /\ (A \o B)[i] = B[i - m]
    OBVIOUS
  <2>1. PICK e \in 1 .. k : e = i - m /\ m + e = i
    <3>1. i - m \in 1 .. k /\ m + (i - m) = i
      BY <1>1
    <3> QED
      BY <3>1
  <2>2. (A \o B)[m + e] = B[e]
    BY <1>1, ConcatIs
  <2> QED
    BY <2>1, <2>2
<1>4. \A i \in 1 .. m : /\ D[i].cmd \in cmds /\ D[i].log = A[i].log /\ D[i].len = A[i].len /\ D[i].data = A[i].data
                        /\ \A b : Covers(D[i], b) <=> Covers(A[i], b)
  BY <1>1, <1>2 DEF Alike, Covers
<1>5. \A i \in 1 .. n : D[i].cmd \in cmds <=> i \in 1 .. m
  BY <1>1, <1>3, <1>4 DEF Alike
<1>6. ASSUME NEW b \in Nat, lo <= b, b < hi
      PROVE  \E i \in 1 .. n : \A j \in 1 .. n : D[j].cmd \in cmds /\ Covers(D[j], b) <=> j = i
  <2>1. PICK i \in 1 .. m : \A j \in 1 .. m : Covers(A[j], b) <=> j = i
    BY <1>1, <1>6 DEF Tiling
  <2>2. \A j \in 1 .. n : D[j].cmd \in cmds /\ Covers(D[j], b) <=> j = i
    BY <1>2, <1>4, <1>5, <2>1
  <2>3. i \in 1 .. n
    BY <1>2
  <2> QED
    BY <2>2, <2>3
<1>7. ASSUME NEW i \in 1 .. n, D[i].cmd \in cmds
      PROVE  D[i].data = D[i].log + shift /\ lo <= D[i].log /\ D[i].log + D[i].len <= hi
  BY <1>1, <1>4, <1>5, <1>7 DEF Tiling
<1>8. ASSUME Bounded(g.IOsegment), NEW i \in 1 .. n, D[i].cmd \in cmds PROVE D[i].len <= MaxSegment
  BY <1>1, <1>4, <1>5, <1>8 DEF Tiling
<1>9. ASSUME NEW bytes \in SUBSET Nat, Unbroken(g.IOsegment, bytes), NEW i \in 1 .. n, NEW j \in 1 .. n,
             NEW b \in bytes, NEW c \in bytes, D[i].cmd \in cmds, D[j].cmd \in cmds, Covers(D[i], b), Covers(D[j], c)
      PROVE  i = j
  <2>1. i \in 1 .. m /\ j \in 1 .. m /\ Covers(A[i], b) /\ Covers(A[j], c)
    BY <1>4, <1>5, <1>9
  <2> QED
    BY <1>1, <1>9, <2>1 DEF Tiling
<1> QED
  <2>1. \A b \in Nat : lo <= b /\ b < hi =>
           \E i \in 1 .. Len(D) : \A j \in 1 .. Len(D) : D[j].cmd \in cmds /\ Covers(D[j], b) <=> j = i
    BY <1>1, <1>6
  <2>2. \A i \in 1 .. Len(D) : D[i].cmd \in cmds =>
           D[i].data = D[i].log + shift /\ lo <= D[i].log /\ D[i].log + D[i].len <= hi
    BY <1>1, <1>7
  <2>3. Bounded(g.IOsegment) => \A i \in 1 .. Len(D) : D[i].cmd \in cmds => D[i].len <= MaxSegment
    BY <1>1, <1>8
  <2>4. \A bytes \in SUBSET Nat : Unbroken(g.IOsegment, bytes) =>
           \A i, j \in 1 .. Len(D) : \A b, c \in bytes :
             D[i].cmd \in cmds /\ D[j].cmd \in cmds /\ Covers(D[i], b) /\ Covers(D[j], c) => i = j
    BY <1>1, <1>9
  <2> QED
    BY <2>1, <2>2, <2>3, <2>4 DEF Serving

LEMMA ServingSecond ==
  ASSUME NEW A \in Seq(Datagram), NEW B \in Seq(Datagram), NEW D, Alike(D, A \o B),
         NEW g, NEW lo, NEW hi, NEW shift, Tiling(B, g, lo, hi, shift), NEW cmds,
         \A i \in 1 .. Len(B) : B[i].cmd \in cmds, \A i \in 1 .. Len(A) : A[i].cmd \notin cmds
  PROVE  Serving(D, cmds, g, lo, hi, shift)
<1>1. PICK m, k, n : m \in Nat /\ m = Len(A) /\ k \in Nat /\ k = Len(B) /\ n = m + k /\ n = Len(A \o B) /\ Len(D) = n
  <2>1. Len(A) \in Nat /\ Len(B) \in Nat /\ Len(A \o B) = Len(A) + Len(B)
    BY ConcatIs
  <2>2. Len(D) = Len(A \o B)
    BY DEF Alike
  <2> QED
    BY <2>1, <2>2
<1>2. \A i \in 1 .. m : i \in 1 .. n /\ (A \o B)[i] = A[i]
  BY <1>1, ConcatIs
<1>3. \A i \in 1 .. k : m + i \in 1 .. n /\ (A \o B)[m + i] = B[i]
  BY <1>1, ConcatIs
<1>4. \A i \in 1 .. n : i \notin 1 .. m => i - m \in 1 .. k /\ m + (i - m) = i
  BY <1>1
<1>5. \A i \in 1 .. k : /\ D[m + i].cmd \in cmds /\ D[m + i].log = B[i].log /\ D[m + i].len = B[i].len
                        /\ D[m + i].data = B[i].data /\ \A b : Covers(D[m + i], b) <=> Covers(B[i], b)
  <2> SUFFICES ASSUME NEW i \in 1 .. k
               PROVE  /\ D[m + i].cmd \in cmds /\ D[m + i].log = B[i].log /\ D[m + i].len = B[i].len
                      /\ D[m + i].data = B[i].data /\ \A b : Covers(D[m + i], b) <=> Covers(B[i], b)
    OBVIOUS
  <2>1. PICK e \in 1 .. n : e = m + i /\ (A \o B)[e] = B[i]
    BY <1>3
  <2>2. D[e].cmd = B[i].cmd /\ D[e].log = B[i].log /\ D[e].len = B[i].len /\ D[e].data = B[i].data
    BY <1>1, <2>1 DEF Alike
  <2>3. D[e].cmd \in cmds
    BY <1>1, <2>2
  <2> QED
    BY <2>1, <2>2, <2>3 DEF Covers
<1>6. \A i \in 1 .. m : D[i].cmd \notin cmds
  BY <1>1, <1>2 DEF Alike
<1>7. \A i \in 1 .. n : D[i].cmd \in cmds => i - m \in 1 .. k /\ m + (i - m) = i
  BY <1>4, <1>6
<1>8. ASSUME NEW b \in Nat, lo <= b, b < hi
      PROVE  \E i \in 1 .. n : \A j \in 1 .. n : D[j].cmd \in cmds /\ Covers(D[j], b) <=> j = i
  <2>1. PICK i \in 1 .. k : \A j \in 1 .. k : Covers(B[j], b) <=> j = i
    BY <1>1, <1>8 DEF Tiling
  <2>2. D[m + i].cmd \in cmds /\ Covers(D[m + i], b) /\ m + i \in 1 .. n
    BY <1>3, <1>5, <2>1
  <2>3. ASSUME NEW j \in 1 .. n, D[j].cmd \in cmds, Covers(D[j], b) PROVE j = m + i
    <3>1. PICK e \in 1 .. k : m + e = j
      BY <1>7, <2>3
    <3>2. e = i
      BY <1>5, <2>1, <2>3, <3>1
    <3> QED
      BY <3>1, <3>2
  <2> QED
    BY <2>2, <2>3
<1>9. ASSUME NEW i \in 1 .. n, D[i].cmd \in cmds
      PROVE  /\ D[i].data = D[i].log + shift /\ lo <= D[i].log /\ D[i].log + D[i].len <= hi
             /\ Bounded(g.IOsegment) => D[i].len <= MaxSegment
  <2>1. PICK e \in 1 .. k : m + e = i
    BY <1>7, <1>9
  <2>2. D[i].log = B[e].log /\ D[i].len = B[e].len /\ D[i].data = B[e].data
    BY <1>5, <2>1
  <2> QED
    BY <1>1, <2>2 DEF Tiling
<1>10. ASSUME NEW bytes \in SUBSET Nat, Unbroken(g.IOsegment, bytes), NEW i \in 1 .. n, NEW j \in 1 .. n,
              NEW b \in bytes, NEW c \in bytes, D[i].cmd \in cmds, D[j].cmd \in cmds, Covers(D[i], b), Covers(D[j], c)
       PROVE  i = j
  <2>1. PICK e \in 1 .. k : m + e = i
    BY <1>7, <1>10
  <2>2. PICK f \in 1 .. k : m + f = j
    BY <1>7, <1>10
  <2>3. Covers(B[e], b) /\ Covers(B[f], c)
    BY <1>5, <1>10, <2>1, <2>2
  <2>4. e = f
    BY <1>1, <1>10, <2>3 DEF Tiling
  <2> QED
    BY <2>1, <2>2, <2>4
<1> QED
  <2>1. \A b \in Nat : lo <= b /\ b < hi =>
           \E i \in 1 .. Len(D) : \A j \in 1 .. Len(D) : D[j].cmd \in cmds /\ Covers(D[j], b) <=> j = i
    BY <1>1, <1>8
  <2>2. \A i \in 1 .. Len(D) : D[i].cmd \in cmds =>
           D[i].data = D[i].log + shift /\ lo <= D[i].log /\ D[i].log + D[i].len <= hi
    BY <1>1, <1>9
  <2>3. Bounded(g.IOsegment) => \A i \in 1 .. Len(D) : D[i].cmd \in cmds => D[i].len <= MaxSegment
    BY <1>1, <1>9
  <2>4. \A bytes \in SUBSET Nat : Unbroken(g.IOsegment, bytes) =>
           \A i, j \in 1 .. Len(D) : \A b, c \in bytes :
             D[i].cmd \in cmds /\ D[j].cmd \in cmds /\ Covers(D[i], b) /\ Covers(D[j], c) => i = j
    BY <1>1, <1>10
  <2> QED
    BY <2>1, <2>2, <2>3, <2>4 DEF Serving

\* the datagrams before the first of them gets a companion for the clock
Undated(n, g) ==
  IF Larger(g.Obytes, g.Ibytes) = 0 THEN <<>>
  ELSE IF blockLRW(n) THEN LRD(g) \o LWR(g) ELSE LRW(g, n.map = "overlap")

Dated(A, hasdc) == [i \in DOMAIN A |-> [A[i] EXCEPT !.dc = hasdc /\ i = 1]]

LEMMA DatedIs ==
  ASSUME NEW A \in Seq(Datagram), NEW hasdc \in BOOLEAN
  PROVE  /\ Dated(A, hasdc) \in Seq(Datagram) /\ Alike(Dated(A, hasdc), A)
         /\ \A i \in 1 .. Len(A) : Dated(A, hasdc)[i].dc => i = 1
<1>1. PICK m : m \in Nat /\ m = Len(A) /\ DOMAIN A = 1 .. m
  OBVIOUS
<1>2. ASSUME NEW i \in 1 .. m
      PROVE  LET d == [A[i] EXCEPT !.dc = hasdc /\ i = 1]
             IN  /\ d \in Datagram /\ d.dc = (hasdc /\ i = 1)
                 /\ d.cmd = A[i].cmd /\ d.log = A[i].log /\ d.len = A[i].len /\ d.data = A[i].data
  <2>1. A[i] \in Datagram
    BY <1>1
  <2> QED
    BY <2>1 DEF Datagram
<1>3. PICK D : D = Dated(A, hasdc)
  OBVIOUS
<1>4. /\ DOMAIN D = 1 .. m
      /\ \A i \in 1 .. m : D[i] \in Datagram /\ (D[i].dc <=> (hasdc /\ i = 1))
           /\ D[i].cmd = A[i].cmd /\ D[i].log = A[i].log /\ D[i].len = A[i].len /\ D[i].data = A[i].data
  BY <1>1, <1>2, <1>3 DEF Dated
<1>5. D = [i \in 1 .. m |-> D[i]]
  BY <1>1, <1>3 DEF Dated
<1>6. D \in Seq(Datagram) /\ Len(D) = m
  BY <1>1, <1>4, <1>5
<1> QED
  BY <1>1, <1>3, <1>4, <1>6 DEF Alike

LEMMA UndatedIs ==
  ASSUME NEW n, NEW g, NEW slaves, Sound(g, slaves), n.map \in {"plain", "aligned", "overlap"}
  PROVE  Undated(n, g) \in Seq(Datagram)
<1>1. <<>> \in Seq(Datagram)
  OBVIOUS
<1>2. LRD(g) \o LWR(g) \in Seq(Datagram)
  <2>1. LRD(g) \in Seq(Datagram) /\ LWR(g) \in Seq(Datagram)
    BY LRDIs, LWRIs
  <2> QED
    BY <2>1
<1>3. LRW(g, n.map = "overlap") \in Seq(Datagram)
  <2>1. PICK overlap \in BOOLEAN : overlap = (n.map = "overlap")
    OBVIOUS
  <2>2. PICK length \in Nat : length = (IF overlap THEN Larger(g.Obytes, g.Ibytes) ELSE g.Obytes + g.Ibytes)
    BY DEF Sound, Larger
  <2> QED
    BY <2>1, <2>2, LRWIs
<1> QED
  BY <1>1, <1>2, <1>3 DEF Undated

LEMMA DatagramsAre ==
  ASSUME NEW n, NEW g, NEW slaves, Sound(g, slaves),
         n.map \in {"plain", "aligned", "overlap"}, n.hasdc \in BOOLEAN
  PROVE  /\ Undated(n, g) \in Seq(Datagram) /\ Datagrams(n, g) \in Seq(Datagram)
         /\ Alike(Datagrams(n, g), Undated(n, g))
         /\ \A i \in DOMAIN Datagrams(n, g) : Datagrams(n, g)[i].dc => i = 1
<1>1. PICK A : A \in Seq(Datagram) /\ A = Undated(n, g)
  BY UndatedIs
<1>2. Datagrams(n, g) = Dated(A, n.hasdc)
  BY <1>1 DEF Datagrams, Undated, Dated
<1>3. PICK D : D = Datagrams(n, g) /\ D \in Seq(Datagram) /\ Alike(D, A) /\ \A i \in 1 .. Len(A) : D[i].dc => i = 1
  BY <1>1, <1>2, DatedIs
<1>4. DOMAIN D = 1 .. Len(A)
  BY <1>3 DEF Alike
<1> QED
  BY <1>1, <1>3, <1>4

\* the logical bytes that are exchanged
Extent(g, overlap) == IF overlap THEN Larger(g.Obytes, g.Ibytes) ELSE g.Obytes + g.Ibytes

ReadsServed(D, g, overlap) ==
  \E lo \in Nat : /\ lo <= (IF overlap THEN 0 ELSE g.Obytes)
                  /\ Serving(D, Reading, g, lo, Extent(g, overlap), g.inputs)

WritesServed(D, g, overlap) ==
  \E hi \in Nat : \E shift \in Nat :
    /\ g.Obytes <= hi /\ hi <= Extent(g, overlap) /\ (overlap \/ shift = 0)
    /\ Serving(D, Writing, g, 0, hi, shift)

LEMMA DatagramsServe ==
  ASSUME NEW n, NEW g, NEW slaves, Sound(g, slaves), NEW overlap \in BOOLEAN, overlap = (n.map = "overlap"),
         NEW D, Alike(D, Undated(n, g)),
         overlap => ~blockLRW(n), Total(g.IOsegment) = Extent(g, overlap),
         ~overlap => g.inputs = 0 /\ Sums(g.IOsegment)[g.Isegment - 1] + g.Ioffset = g.Obytes
  PROVE  ReadsServed(D, g, overlap) /\ WritesServed(D, g, overlap)
<1>1. PICK ob, ib : ob \in Nat /\ ib \in Nat /\ ob = g.Obytes /\ ib = g.Ibytes /\ g.inputs \in Nat
  BY DEF Sound
<1>2. PICK length : length \in Nat /\ length = Extent(g, overlap) /\ ob <= length
  BY <1>1 DEF Extent, Larger
<1>3. CASE Larger(ob, ib) = 0
  <2>1. ob = 0 /\ ib = 0 /\ length = 0
    BY <1>1, <1>2, <1>3 DEF Larger, Extent
  <2>2. Undated(n, g) = <<>>
    BY <1>1, <1>3 DEF Undated
  <2>3. Len(<<>>) = 0 /\ \A i \in 1 .. Len(<<>>) : FALSE
    OBVIOUS
  <2>4. 0 \in Int
    OBVIOUS
  <2>5. \A shift : Tiling(<<>>, g, 0, 0, shift)
    BY <2>4, NothingTiles
  <2>6. Alike(D, <<>>)
    BY <2>2
  <2>7. \A cmds : \A i \in 1 .. Len(<<>>) : <<>>[i].cmd \in cmds
    BY <2>3
  <2>8. Serving(D, Reading, g, 0, 0, g.inputs)
    BY <2>5, <2>6, <2>7, ServingAlone
  <2>9. Serving(D, Writing, g, 0, 0, 0)
    BY <2>5, <2>6, <2>7, ServingAlone
  <2>10. 0 \in Nat /\ 0 <= (IF overlap THEN 0 ELSE g.Obytes)
    BY <1>1
  <2> QED
    BY <1>1, <1>2, <2>1, <2>8, <2>9, <2>10 DEF ReadsServed, WritesServed
<1>4. CASE Larger(ob, ib) # 0 /\ blockLRW(n)
  <2>1. ~overlap /\ length = ob + ib /\ g.inputs = 0
    BY <1>1, <1>2, <1>4 DEF Extent
  <2>2. PICK A, B : A = LRD(g) /\ B = LWR(g)
    OBVIOUS
  <2>3. Alike(D, A \o B)
    BY <1>1, <1>4, <2>2 DEF Undated
  <2>4. Total(g.IOsegment) = ob + ib /\ ob <= Total(g.IOsegment)
    BY <1>1, <1>2, <2>1
  <2>5. A \in Seq(Datagram) /\ (\A i \in 1 .. Len(A) : A[i].cmd = "LRD") /\ Tiling(A, g, ob, ob + ib, 0)
    BY <1>1, <2>1, <2>2, <2>4, LRDIs
  <2>6. B \in Seq(Datagram) /\ (\A i \in 1 .. Len(B) : B[i].cmd = "LWR") /\ Tiling(B, g, 0, ob, 0)
    BY <1>1, <2>2, <2>4, LWRIs
  <2>7. "LRD" \in Reading /\ "LWR" \notin Reading /\ "LWR" \in Writing /\ "LRD" \notin Writing
    BY DEF Reading, Writing
  <2>8. Serving(D, Reading, g, ob, ob + ib, 0)
    <3>1. (\A i \in 1 .. Len(A) : A[i].cmd \in Reading) /\ \A i \in 1 .. Len(B) : B[i].cmd \notin Reading
      BY <2>5, <2>6, <2>7
    <3> QED
      BY <2>3, <2>5, <2>6, <3>1, ServingFirst
  <2>9. Serving(D, Writing, g, 0, ob, 0)
    <3>1. (\A i \in 1 .. Len(B) : B[i].cmd \in Writing) /\ \A i \in 1 .. Len(A) : A[i].cmd \notin Writing
      BY <2>5, <2>6, <2>7
    <3> QED
      BY <2>3, <2>5, <2>6, <3>1, ServingSecond
  <2>10. ReadsServed(D, g, overlap)
    BY <1>1, <1>2, <2>1, <2>8 DEF ReadsServed
  <2>11. WritesServed(D, g, overlap)
    BY <1>1, <1>2, <2>1, <2>9 DEF WritesServed
  <2> QED
    BY <2>10, <2>11
<1>5. CASE Larger(ob, ib) # 0 /\ ~blockLRW(n)
  <2>1. PICK A : A = LRW(g, overlap)
    OBVIOUS
  <2>2. Alike(D, A)
    BY <1>1, <1>5, <2>1 DEF Undated
  <2>3. PICK shift \in Nat : shift = (IF overlap THEN g.inputs ELSE 0) /\ shift = g.inputs
    BY <1>1
  <2>4. length = (IF overlap THEN Larger(g.Obytes, g.Ibytes) ELSE g.Obytes + g.Ibytes)
    BY <1>2 DEF Extent
  <2>5. (\A i \in 1 .. Len(A) : A[i].cmd = "LRW") /\ Tiling(A, g, 0, length, shift)
    <3>1. length \in Nat /\ Total(g.IOsegment) = length
      BY <1>2
    <3>2. /\ \A i \in 1 .. Len(LRW(g, overlap)) : LRW(g, overlap)[i].cmd = "LRW"
          /\ Total(g.IOsegment) = length
               => Tiling(LRW(g, overlap), g, 0, length, IF overlap THEN g.inputs ELSE 0)
      BY <2>4, <3>1, LRWIs
    <3> QED
      BY <2>1, <2>3, <3>1, <3>2
  <2>6. (\A i \in 1 .. Len(A) : A[i].cmd \in Reading) /\ \A i \in 1 .. Len(A) : A[i].cmd \in Writing
    BY <2>5 DEF Reading, Writing
  <2>7. Serving(D, Reading, g, 0, length, shift)
    BY <2>2, <2>5, <2>6, ServingAlone
  <2>8. Serving(D, Writing, g, 0, length, shift)
    BY <2>2, <2>5, <2>6, ServingAlone
  <2>9. ReadsServed(D, g, overlap)
    <3>1. 0 \in Nat /\ 0 <= (IF overlap THEN 0 ELSE g.Obytes)
      BY <1>1
    <3> QED
      BY <1>2, <2>3, <2>7, <3>1 DEF ReadsServed
  <2>10. WritesServed(D, g, overlap)
    <3>1. overlap \/ shift = 0
      BY <2>3
    <3>2. length <= length /\ ob <= length
      BY <1>2
    <3> QED
      BY <1>1, <1>2, <2>8, <3>1, <3>2 DEF WritesServed
  <2> QED
    BY <2>9, <2>10
<1> QED
  BY <1>3, <1>4, <1>5

-----------------------------------------------------------------------------
(***************************************************************************)
(* The layout of the network the program runs on.                          *)
(***************************************************************************)
LEMMA GroupIs ==
  ASSUME NEW n \in Networks, NEW g, g = Group(n)
  PROVE  /\ n.slaves \in Seq(SlaveSizes) /\ n.map \in {"plain", "aligned", "overlap"} /\ n.hasdc \in BOOLEAN
         /\ Len(n.slaves) \in Nat /\ DOMAIN n.slaves = 1 .. Len(n.slaves)
         /\ Sound(g, n.slaves)
         /\ n.map # "overlap" => OneAfterOther(g, n.slaves, n.map = "aligned")
         /\ n.map = "overlap" => Overlapping(g, n.slaves)
<1>1. n.slaves \in Seq(SlaveSizes) /\ n.map \in {"plain", "aligned", "overlap"} /\ n.hasdc \in BOOLEAN
  BY NetworksAssumption
<1>2. PICK slaves \in Seq(SlaveSizes), force \in BOOLEAN : slaves = n.slaves /\ force = (n.map = "aligned")
  BY <1>1
<1>3. CASE n.map = "overlap"
  <2>1. g = ecx_config_overlap_map_group(slaves)
    BY <1>2, <1>3 DEF Group
  <2> QED
    BY <1>1, <1>2, <1>3, <2>1, OverlapGroup, SizesAre
<1>4. CASE n.map # "overlap"
  <2>1. g = ecx_main_config_map_group(slaves, force)
    BY <1>2, <1>4 DEF Group
  <2> QED
    BY <1>1, <1>2, <1>4, <2>1, MappedGroup, SizesAre
<1> QED
  BY <1>3, <1>4

LEMMA LayoutInit == Init => LayoutTyped
<1> SUFFICES ASSUME Init PROVE LayoutTyped
  OBVIOUS
<1>1. net \in Networks /\ group = Group(net) /\ datagrams = Datagrams(net, group)
  BY DEF Init
<1>2. PICK n, g : n = net /\ g = group
  OBVIOUS
<1>3. /\ n.map \in {"plain", "aligned", "overlap"} /\ n.hasdc \in BOOLEAN
      /\ DOMAIN n.slaves = 1 .. Len(n.slaves) /\ Sound(g, n.slaves)
  BY <1>1, <1>2, GroupIs
<1>4. datagrams \in Seq(Datagram) /\ \A i \in DOMAIN datagrams : datagrams[i].dc => i = 1
  BY <1>1, <1>2, <1>3, DatagramsAre
<1>5. g.inputs \in Nat /\ \A s \in DOMAIN n.slaves : g.outAt[s] \in Nat /\ g.inAt[s] \in Nat
  BY <1>3 DEF Sound
<1> QED
  BY <1>1, <1>2, <1>4, <1>5 DEF LayoutTyped, Slaves

(***************************************************************************)
(* An overlapping map needs the LRW: the answer to an LRD would be saved   *)
(* where the logical addresses of the inputs are, not behind the outputs.  *)
(***************************************************************************)
LRWWhereOverlapping == \A n \in Networks : n.map = "overlap" => ~blockLRW(n)

LEMMA ServedInit ==
  ASSUME LRWWhereOverlapping, Init, Fits
  PROVE  /\ ReadsServed(datagrams, group, net.map = "overlap")
         /\ WritesServed(datagrams, group, net.map = "overlap")
<1>1. net \in Networks /\ group = Group(net) /\ datagrams = Datagrams(net, group)
  BY DEF Init
<1>2. PICK n, g, D, overlap : n = net /\ g = group /\ D = datagrams /\ overlap \in BOOLEAN /\ overlap = (n.map = "overlap")
  OBVIOUS
<1>3. /\ n.map \in {"plain", "aligned", "overlap"} /\ n.hasdc \in BOOLEAN /\ Sound(g, n.slaves)
      /\ n.map # "overlap" => OneAfterOther(g, n.slaves, n.map = "aligned")
  BY <1>1, <1>2, GroupIs
<1>4. overlap => ~blockLRW(n)
  BY <1>1, <1>2 DEF LRWWhereOverlapping
<1>5. Total(g.IOsegment) = Extent(g, overlap)
  BY <1>2, <1>3 DEF Fits, Extent, Sound
<1>6. ~overlap => g.inputs = 0 /\ Sums(g.IOsegment)[g.Isegment - 1] + g.Ioffset = g.Obytes
  BY <1>2, <1>3, <1>5 DEF OneAfterOther, Extent, Sound
<1>7. Alike(D, Undated(n, g))
  BY <1>1, <1>2, <1>3, DatagramsAre
<1>8. ReadsServed(D, g, overlap) /\ WritesServed(D, g, overlap)
  BY <1>2, <1>3, <1>4, <1>5, <1>6, <1>7, DatagramsServe
<1> QED
  BY <1>2, <1>8

\* where the bytes of the slaves are
LEMMA BytesAre ==
  ASSUME Init
  PROVE  /\ group.Obytes \in Nat /\ group.Ibytes \in Nat /\ group.size = group.Obytes + group.Ibytes
         /\ \A s \in Slaves : Within(OutBytes(s), 0, group.Obytes)
         /\ net.map # "overlap" =>
              group.inputs = 0 /\ \A s \in Slaves : Within(InBytes(s), group.Obytes, Extent(group, FALSE))
         /\ net.map = "overlap" =>
              group.inputs = group.Obytes /\ \A s \in Slaves : Within(InBytes(s), 0, Extent(group, TRUE))
<1>1. net \in Networks /\ group = Group(net)
  BY DEF Init
<1>2. PICK n, g : n = net /\ g = group
  OBVIOUS
<1>3. /\ DOMAIN n.slaves = 1 .. Len(n.slaves) /\ Sound(g, n.slaves)
      /\ n.map # "overlap" => OneAfterOther(g, n.slaves, n.map = "aligned")
      /\ n.map = "overlap" => Overlapping(g, n.slaves)
  BY <1>1, <1>2, GroupIs
<1>4. PICK ob, ib : ob \in Nat /\ ib \in Nat /\ ob = g.Obytes /\ ib = g.Ibytes /\ g.size = ob + ib
  BY <1>3 DEF Sound
<1>5. /\ Slaves = 1 .. Len(n.slaves)
      /\ \A s \in Slaves : OutBytes(s) = OutsAt(g, n.slaves, s) /\ InBytes(s) = InsAt(g, n.slaves, s)
  BY <1>2, <1>3 DEF Slaves, OutBytes, InBytes, OutsAt, InsAt
<1>6. n.map # "overlap" =>
        /\ g.inputs = 0
        /\ \A s \in Slaves : Within(OutBytes(s), 0, ob) /\ Within(InBytes(s), ob, ob + ib)
  BY <1>3, <1>4, <1>5 DEF OneAfterOther
<1>7. n.map = "overlap" =>
        /\ g.inputs = ob
        /\ \A s \in Slaves : Within(OutBytes(s), 0, ob) /\ Within(InBytes(s), 0, ib)
  BY <1>3, <1>4, <1>5 DEF Overlapping
<1>8. \A b : Within(b, 0, ib) => Within(b, 0, Larger(ob, ib))
  BY <1>4 DEF Within, Larger
<1>9. Extent(g, FALSE) = ob + ib /\ Extent(g, TRUE) = Larger(ob, ib)
  BY <1>4 DEF Extent
<1>10. \A s \in Slaves : Within(OutBytes(s), 0, ob)
  BY <1>6, <1>7
<1>11. n.map = "overlap" => \A s \in Slaves : Within(InBytes(s), 0, Larger(ob, ib))
  BY <1>7, <1>8
<1> QED
  BY <1>2, <1>4, <1>6, <1>7, <1>9, <1>10, <1>11

\* no slave is larger than a segment, so no segment is
LEMMA SmallInit ==
  ASSUME Init, Fits
  PROVE  Bounded(group.IOsegment)
<1>1. net \in Networks /\ group = Group(net)
  BY DEF Init
<1>2. PICK n, g : n = net /\ g = group
  OBVIOUS
<1>3. DOMAIN n.slaves = 1 .. Len(n.slaves) /\ Sound(g, n.slaves)
  BY <1>1, <1>2, GroupIs
<1>4. AllSmall(n.slaves)
  BY <1>2, <1>3 DEF Fits, AllSmall, Slaves
<1> QED
  BY <1>2, <1>3, <1>4 DEF Sound

LEMMA TilesInit ==
  ASSUME LRWWhereOverlapping, Init
  PROVE  DatagramsTile
<1> SUFFICES ASSUME Fits PROVE DatagramsTile
  BY DEF DatagramsTile
<1>1. PICK D, g, overlap, hi, ob :
        /\ D = datagrams /\ g = group /\ overlap \in BOOLEAN /\ overlap = (net.map = "overlap")
        /\ ob \in Nat /\ ob = g.Obytes /\ hi \in Nat /\ hi = Extent(g, overlap)
        /\ (~overlap => hi = g.size)
  <2>1. PICK ob, ib : /\ ob \in Nat /\ ib \in Nat /\ ob = group.Obytes /\ ib = group.Ibytes
                      /\ group.size = ob + ib
    BY BytesAre
  <2>2. PICK overlap \in BOOLEAN : overlap = (net.map = "overlap")
    OBVIOUS
  <2>3. Extent(group, overlap) \in Nat /\ (~overlap => Extent(group, overlap) = group.size)
    BY <2>1 DEF Extent, Larger
  <2> QED
    BY <2>1, <2>2, <2>3
<1>2. D \in Seq(Datagram) /\ DOMAIN D = 1 .. Len(D) /\ \A i \in 1 .. Len(D) : D[i] \in Datagram
  BY <1>1, LayoutInit DEF LayoutTyped
<1>3. \A i \in 1 .. Len(D) : D[i].log \in Nat /\ D[i].len \in Nat /\ D[i].data \in Nat
  BY <1>2 DEF Datagram
<1>4. PICK lo \in Nat : Serving(D, Reading, g, lo, hi, g.inputs) /\ lo <= (IF overlap THEN 0 ELSE ob)
  BY <1>1, ServedInit DEF ReadsServed
<1>5. PICK last \in Nat, shift \in Nat :
        /\ Serving(D, Writing, g, 0, last, shift) /\ ob <= last /\ last <= hi /\ (overlap \/ shift = 0)
  BY <1>1, ServedInit DEF WritesServed
<1>6. \A s \in Slaves : Within(OutBytes(s), 0, ob)
  BY <1>1, BytesAre
<1>7. \A s \in Slaves : Within(InBytes(s), IF overlap THEN 0 ELSE ob, hi)
  <2>1. CASE overlap
    <3>1. net.map = "overlap" /\ overlap = TRUE
      BY <1>1, <2>1
    <3>2. \A s \in Slaves : Within(InBytes(s), 0, Extent(group, TRUE))
      BY <3>1, BytesAre
    <3> QED
      BY <1>1, <3>1, <3>2
  <2>2. CASE ~overlap
    <3>1. net.map # "overlap" /\ overlap = FALSE
      BY <1>1, <2>2
    <3>2. \A s \in Slaves : Within(InBytes(s), group.Obytes, Extent(group, FALSE))
      BY <3>1, BytesAre
    <3> QED
      BY <1>1, <3>1, <3>2
  <2> QED
    BY <2>1, <2>2
<1>8. g.inputs \in Nat /\ (overlap => g.inputs = ob) /\ (~overlap => g.inputs = 0)
  <2>1. /\ net.map # "overlap" => group.inputs = 0
        /\ net.map = "overlap" => group.inputs = group.Obytes
    BY BytesAre
  <2>2. g.inputs = ob \/ g.inputs = 0
    BY <1>1, <2>1
  <2>3. ob \in Nat /\ (overlap => net.map = "overlap") /\ (~overlap => net.map # "overlap")
    BY <1>1
  <2>4. g = group /\ ob = g.Obytes
    BY <1>1
  <2>5. overlap => g.inputs = ob
    BY <2>1, <2>3, <2>4
  <2>6. ~overlap => g.inputs = 0
    BY <2>1, <2>3, <2>4
  <2>7. g.inputs \in Nat
    BY <2>2, <2>3
  <2> QED
    BY <2>5, <2>6, <2>7
<1>9. ASSUME NEW s \in Slaves, NEW b \in OutBytes(s)
      PROVE  \E i \in DOMAIN datagrams : Only(i, LAMBDA d : d.cmd \in {"LWR", "LRW"} /\ Covers(d, b))
  <2>1. b \in Nat /\ 0 <= b /\ b < last
    BY <1>1, <1>5, <1>6, <1>9 DEF Within
  <2>2. PICK i \in 1 .. Len(D) : \A j \in 1 .. Len(D) : D[j].cmd \in Writing /\ Covers(D[j], b) <=> j = i
    BY <1>5, <2>1 DEF Serving
  <2> QED
    BY SMTT(30), <1>1, <1>2, <2>2 DEF Only, Writing
<1>10. ASSUME NEW s \in Slaves, NEW b \in InBytes(s)
       PROVE  \E i \in DOMAIN datagrams : /\ Only(i, LAMBDA d : d.cmd \in {"LRD", "LRW"} /\ Covers(d, b))
                                          /\ datagrams[i].data - datagrams[i].log = group.inputs
  <2>1. b \in Nat /\ lo <= b /\ b < hi
    <3>1. b \in Nat /\ (IF overlap THEN 0 ELSE ob) <= b /\ b < hi
      BY <1>7, <1>10 DEF Within
    <3> QED
      BY <1>1, <1>4, <3>1
  <2>2. PICK i \in 1 .. Len(D) : \A j \in 1 .. Len(D) : D[j].cmd \in Reading /\ Covers(D[j], b) <=> j = i
    BY <1>4, <2>1 DEF Serving
  <2>3. D[i].data = D[i].log + g.inputs
    BY <1>4, <2>2 DEF Serving
  <2>4. D[i].data - D[i].log = g.inputs
    BY <1>3, <1>8, <2>3
  <2> QED
    BY <1>1, <1>2, <2>2, <2>4 DEF Only, Reading
<1>11. SavedInPlace
  <2> SUFFICES ASSUME NEW c \in OutCells \cup InCells, NEW i \in 1 .. Len(D), D[i].cmd # "LWR",
                      D[i].data <= Place(c), Place(c) < D[i].data + D[i].len
               PROVE  /\ D[i].log + Place(c) - D[i].data = c.log
                      /\ c.dir = "out" => \A s \in Slaves : c.log \notin InBytes(s)
    BY <1>1, <1>2 DEF SavedInPlace
  <2>1. D[i].cmd \in Reading
    BY <1>2 DEF Reading, Datagram
  <2>2. PICK log, data, inputs :
          /\ log \in Nat /\ data \in Nat /\ inputs \in Nat /\ log = D[i].log /\ data = D[i].data
          /\ inputs = g.inputs /\ data = log + inputs
    BY <1>3, <1>4, <1>8, <2>1 DEF Serving
  <2>3. CASE c \in InCells
    <3>1. PICK s \in Slaves : c.dir = "in" /\ c.log \in InBytes(s)
      BY <2>3 DEF InCells
    <3>2. PICK b : b \in Nat /\ b = c.log
      BY <1>7, <3>1 DEF Within
    <3>3. Place(c) = b + inputs
      BY <1>1, <2>2, <3>1, <3>2 DEF Place
    <3>4. log + (b + inputs) - data = b
      <4>1. b \in Nat /\ log \in Nat /\ inputs \in Nat /\ data = log + inputs
        BY <2>2, <3>2
      <4> QED
        BY <4>1
    <3> QED
      BY <2>2, <3>1, <3>2, <3>3, <3>4
  <2>4. CASE c \in OutCells
    <3>1. PICK s \in Slaves : c.dir = "out" /\ c.log \in OutBytes(s)
      BY <2>4 DEF OutCells
    <3>2. PICK b : b \in Nat /\ b = c.log /\ b < ob
      BY <1>6, <3>1 DEF Within
    <3>3. Place(c) = b
      BY <3>1, <3>2 DEF Place
    <3>4. ~overlap /\ inputs = 0
      <4>1. data <= b
        BY <2>2, <3>3
      <4>2. inputs # ob
        BY <1>1, <2>2, <3>2, <4>1
      <4> QED
        BY <1>8, <2>2, <4>2
    <3>5. log + b - data = b
      BY <2>2, <3>2, <3>4
    <3>6. \A r \in Slaves : b \notin InBytes(r)
      BY <1>1, <1>7, <3>2, <3>4 DEF Within
    <3> QED
      BY <2>2, <3>2, <3>3, <3>5, <3>6
  <2> QED
    BY <2>3, <2>4
<1>12. ASSUME NEW i \in DOMAIN datagrams
       PROVE  /\ datagrams[i].len <= MaxSegment
              /\ net.map # "overlap" => datagrams[i].data + datagrams[i].len <= group.size
  <2>1. i \in 1 .. Len(D) /\ (D[i].cmd \in Reading \/ D[i].cmd \in Writing)
    BY <1>1, <1>2, <1>12 DEF Reading, Writing, Datagram
  <2>2. Bounded(g.IOsegment)
    BY <1>1, SmallInit
  <2>3. D[i].len <= MaxSegment
    BY <1>4, <1>5, <2>1, <2>2 DEF Serving
  <2>4. ASSUME ~overlap PROVE D[i].data + D[i].len <= hi
    <3>1. PICK log, len : log \in Nat /\ len \in Nat /\ log = D[i].log /\ len = D[i].len
      BY <1>3, <2>1
    <3>2. D[i].data = log + 0 /\ log + len <= hi
      <4>1. CASE D[i].cmd \in Reading
        BY <1>4, <1>8, <2>1, <2>4, <3>1, <4>1 DEF Serving
      <4>2. CASE D[i].cmd \in Writing
        <5>1. D[i].data = D[i].log + shift /\ D[i].log + D[i].len <= last /\ shift = 0
          BY <1>5, <2>1, <2>4, <4>2 DEF Serving
        <5> QED
          BY <1>1, <1>5, <3>1, <5>1
      <4> QED
        BY <2>1, <4>1, <4>2
    <3> QED
      BY <3>1, <3>2
  <2> QED
    BY <1>1, <2>3, <2>4
<1> QED
  BY <1>9, <1>10, <1>11, <1>12 DEF DatagramsTile

(***************************************************************************)
(* Whatever the layout, no slave is in two datagrams if it starts at a     *)
(* byte of its own.                                                        *)
(***************************************************************************)
LEMMA NotBrokenInit ==
  ASSUME LRWWhereOverlapping, Init
  PROVE  AlignedNotBroken
<1> SUFFICES ASSUME Fits, WholeBytes PROVE SmNotBroken
  BY DEF AlignedNotBroken
<1>1. PICK D, n, g : D = datagrams /\ n = net /\ g = group
  OBVIOUS
<1>2. net \in Networks /\ group = Group(net)
  BY DEF Init
<1>3. /\ DOMAIN n.slaves = 1 .. Len(n.slaves) /\ Sound(g, n.slaves) /\ n.map \in {"plain", "aligned", "overlap"}
      /\ n.map # "overlap" => OneAfterOther(g, n.slaves, n.map = "aligned")
      /\ n.map = "overlap" => Overlapping(g, n.slaves)
  BY <1>1, <1>2, GroupIs
<1>4. NoneBroken(g, n.slaves)
  <2>1. CASE n.map = "overlap"
    BY <1>1, <1>3, <2>1 DEF Overlapping, Fits
  <2>2. CASE n.map # "overlap"
    <3>1. (n.map = "aligned") \/ AllWhole(n.slaves)
      BY <1>1, <1>3, <2>2 DEF WholeBytes, AllWhole, Slaves
    <3>2. Total(g.IOsegment) = g.size
      BY <1>1, <2>2 DEF Fits
    <3> QED
      BY <1>3, <2>2, <3>1, <3>2 DEF OneAfterOther
  <2> QED
    BY <2>1, <2>2
<1>5. DOMAIN D = 1 .. Len(D)
  BY <1>1, LayoutInit DEF LayoutTyped
<1>6. \A s \in Slaves : Unbroken(g.IOsegment, OutBytes(s)) /\ Unbroken(g.IOsegment, InBytes(s))
  BY <1>1, <1>3, <1>4 DEF NoneBroken, OutsAt, InsAt, OutBytes, InBytes, Slaves
<1>7. \A s \in Slaves : OutBytes(s) \in SUBSET Nat /\ InBytes(s) \in SUBSET Nat
  BY BytesAre DEF Within
<1>8. PICK lo, hi : Serving(D, Reading, g, lo, hi, g.inputs)
  BY <1>1, ServedInit DEF ReadsServed
<1>9. PICK last, shift : Serving(D, Writing, g, 0, last, shift)
  BY <1>1, ServedInit DEF WritesServed
<1>10. ASSUME NEW s \in Slaves, NEW i \in 1 .. Len(D), NEW j \in 1 .. Len(D), Reads(D[i], s), Reads(D[j], s)
       PROVE  i = j
  <2>1. PICK b \in InBytes(s), c \in InBytes(s) : Covers(D[i], b) /\ Covers(D[j], c)
    BY <1>10 DEF Reads
  <2>2. D[i].cmd \in Reading /\ D[j].cmd \in Reading
    BY <1>10 DEF Reads, Reading
  <2> QED
    BY <1>6, <1>7, <1>8, <2>1, <2>2 DEF Serving
<1>11. ASSUME NEW s \in Slaves, NEW i \in 1 .. Len(D), NEW j \in 1 .. Len(D), Writes(D[i], s), Writes(D[j], s)
       PROVE  i = j
  <2>1. PICK b \in OutBytes(s), c \in OutBytes(s) : Covers(D[i], b) /\ Covers(D[j], c)
    BY <1>11 DEF Writes
  <2>2. D[i].cmd \in Writing /\ D[j].cmd \in Writing
    BY <1>11 DEF Writes, Writing
  <2> QED
    BY <1>6, <1>7, <1>9, <2>1, <2>2 DEF Serving
<1> QED
  BY <1>1, <1>5, <1>10, <1>11 DEF SmNotBroken

-----------------------------------------------------------------------------
(***************************************************************************)
(* The layout is fixed from the start.                                     *)
(***************************************************************************)
Cells == OutCells \cup InCells

LEMMA FixedStays == [Next]_vars => UNCHANGED fixed
<1> SUFFICES ASSUME [Next]_vars PROVE UNCHANGED fixed
  OBVIOUS
<1>1. ASSUME NEW t \in Threads, SendStep(t) PROVE UNCHANGED fixed
  BY <1>1 DEF SendStep, StartSend, SendDatagram, PushEntry, PushCount, PushFull
<1>2. ASSUME NEW t \in Threads, ReceiveStep(t) PROVE UNCHANGED fixed
  BY <1>2 DEF ReceiveStep, StartReceive, PullPlace, PullCount, PullNone, Answered, NoAnswer, Clear
<1> QED
  BY <1>1, <1>2 DEF Next, vars, WriteOutputs, LoseFrame, FallSilent

LEMMA LayoutStays ==
  ASSUME UNCHANGED fixed
  PROVE  /\ Slaves' = Slaves /\ OutCells' = OutCells /\ InCells' = InCells /\ Cells' = Cells
         /\ LayoutTyped => LayoutTyped'
         /\ DatagramsTile => DatagramsTile'
         /\ AlignedNotBroken => AlignedNotBroken'
         /\ Indexed' <=> Indexed
         /\ Fits' <=> Fits
         /\ WholeBytes' <=> WholeBytes
<1> USE DEF fixed
<1>1. Slaves' = Slaves /\ OutCells' = OutCells /\ InCells' = InCells
  BY DEF Slaves, OutCells, InCells, OutBytes, InBytes
<1>2. Cells' = Cells
  BY <1>1 DEF Cells
<1>3. (Indexed' <=> Indexed) /\ (Fits' <=> Fits) /\ (WholeBytes' <=> WholeBytes)
  BY <1>1 DEF Indexed, Fits, WholeBytes
<1>4. LayoutTyped => LayoutTyped'
  BY <1>1 DEF LayoutTyped
<1>5. SavedInPlace => SavedInPlace'
  BY <1>1 DEF SavedInPlace, Place, InBytes
<1>6. DatagramsTile => DatagramsTile'
  BY <1>1, <1>3, <1>5 DEF DatagramsTile, Only, Covers, OutBytes, InBytes
<1>7. AlignedNotBroken => AlignedNotBroken'
  BY <1>1, <1>3 DEF AlignedNotBroken, SmNotBroken, Reads, Writes, Covers, OutBytes, InBytes
<1> QED
  BY <1>1, <1>2, <1>3, <1>4, <1>6, <1>7

(***************************************************************************)
(* Whatever the slaves and their sizes, the segments and the force flag,   *)
(* the datagrams of a send tile the process data: each byte of outputs is  *)
(* sent in exactly one, each byte of inputs read in exactly one and saved  *)
(* where it belongs.  An overlapping map needs networks that allow LRW.    *)
(***************************************************************************)
THEOREM LayoutTiles ==
  ASSUME LRWWhereOverlapping
  PROVE  Spec => []DatagramsTile
<1>1. Init => DatagramsTile
  BY TilesInit
<1>2. DatagramsTile /\ [Next]_vars => DatagramsTile'
  BY FixedStays, LayoutStays
<1> QED
  BY <1>1, <1>2, PTL DEF Spec

(***************************************************************************)
(* A segment is closed before a slave that no longer fits into it: no      *)
(* datagram breaks a slave in two that starts at a byte of its own.        *)
(***************************************************************************)
THEOREM LayoutKeepsSlavesWhole ==
  ASSUME LRWWhereOverlapping
  PROVE  Spec => []AlignedNotBroken
<1>1. Init => AlignedNotBroken
  BY NotBrokenInit
<1>2. AlignedNotBroken /\ [Next]_vars => AlignedNotBroken'
  BY FixedStays, LayoutStays
<1> QED
  BY <1>1, <1>2, PTL DEF Spec
=============================================================================
