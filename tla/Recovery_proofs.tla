-------------------------- MODULE Recovery_proofs --------------------------
(***************************************************************************)
(* Proofs about the station addresses, the parents and the FMMUs of the    *)
(* slaves: how ec_config_init and ec_config_map find them, and how         *)
(* ecatcheck keeps them while slaves lose their power, come back or are    *)
(* replaced.                                                               *)
(***************************************************************************)
EXTENDS Network_proofs, WellFoundedInduction

-----------------------------------------------------------------------------
(***************************************************************************)
(* Sums over sets.                                                         *)
(***************************************************************************)
\* Induction over the first n numbers, as a fact about sets.
LEMMA UpToAll ==
  ASSUME NEW n \in Nat, NEW H, 0 \in H, \A k \in 1 .. n : k - 1 \in H => k \in H
  PROVE  \A k \in 0 .. n : k \in H
<1> DEFINE missing == {k \in 0 .. n : k \notin H}
<1> SUFFICES ASSUME missing # {} PROVE FALSE
  OBVIOUS
<1>1. missing \in SUBSET Nat
  OBVIOUS
<1>2. PICK x \in missing : \A y \in missing : <<y, x>> \notin OpToRel(<, Nat)
  BY <1>1, NatLessThanWellFounded, WFMin
<1>3. x \in 1 .. n /\ x - 1 \in 0 .. n /\ x - 1 < x
  OBVIOUS
<1>4. x - 1 \in H
  <2> SUFFICES ASSUME x - 1 \in missing PROVE FALSE
    BY <1>3
  <2>1. <<x - 1, x>> \in OpToRel(<, Nat)
    BY <1>3 DEF OpToRel
  <2> QED
    BY <1>2, <2>1
<1> QED
  BY <1>3, <1>4

One(s) == CHOOSE x \in s : TRUE

\* the sums of f over the subsets of S of at most n elements, as FiniteSetsExt adds them
UpTo(S, n) == {s \in SUBSET S : Cardinality(s) <= n}

IsSum(g, f, D) == g = [s \in D |-> IF s = {} THEN 0 ELSE f[One(s)] + g[s \ {One(s)}]]

LEMMA OneLess ==
  ASSUME NEW S, IsFiniteSet(S), NEW s \in SUBSET S, s # {}
  PROVE  /\ One(s) \in s /\ s \ {One(s)} \in SUBSET S
         /\ IsFiniteSet(s) /\ Cardinality(s) \in Nat \ {0} /\ Cardinality(s \ {One(s)}) = Cardinality(s) - 1
<1>1. One(s) \in s
  BY DEF One
<1>2. IsFiniteSet(s)
  BY FS_Subset
<1>3. Cardinality(s \ {One(s)}) = Cardinality(s) - 1 /\ Cardinality(s) \in Nat
  BY <1>1, <1>2, FS_RemoveElement, FS_CardinalityType
<1>4. Cardinality(s) # 0
  BY <1>2, FS_EmptySet
<1> QED
  BY <1>1, <1>2, <1>3, <1>4

LEMMA SumExists ==
  ASSUME NEW S, IsFiniteSet(S), NEW f
  PROVE  \E g : IsSum(g, f, SUBSET S)
<1> DEFINE H == {n \in Nat : \E g : IsSum(g, f, UpTo(S, n))}
           N == Cardinality(S)
<1>1. N \in Nat /\ UpTo(S, N) = SUBSET S
  BY FS_CardinalityType, FS_Subset DEF UpTo
<1>2. 0 \in H
  <2> DEFINE g == [s \in UpTo(S, 0) |-> 0]
  <2>1. \A s \in UpTo(S, 0) : s = {}
    BY FS_Subset, FS_EmptySet, FS_CardinalityType DEF UpTo
  <2>2. IsSum(g, f, UpTo(S, 0))
    BY <2>1 DEF IsSum
  <2> QED
    BY <2>2
<1>3. ASSUME NEW n \in 1 .. N, n - 1 \in H PROVE n \in H
  <2>1. PICK g : IsSum(g, f, UpTo(S, n - 1))
    BY <1>3
  <2> DEFINE D == UpTo(S, n - 1)
             E == UpTo(S, n)
             h == [s \in E |-> IF s \in D THEN g[s] ELSE f[One(s)] + g[s \ {One(s)}]]
  <2>2. D \subseteq E /\ n \in Nat /\ n > 0
    BY <1>1, FS_Subset, FS_CardinalityType DEF UpTo
  <2>3. \A s \in E : s # {} => s \ {One(s)} \in D
    BY <2>2, OneLess DEF UpTo
  <2>4. {} \in D
    BY <2>2, FS_EmptySet DEF UpTo
  <2>5. \A s \in D : g[s] = IF s = {} THEN 0 ELSE f[One(s)] + g[s \ {One(s)}]
    BY <2>1 DEF IsSum
  <2> HIDE DEF D, E
  <2>6. \A s \in D : h[s] = g[s]
    BY <2>2
  <2>7. ASSUME NEW s \in E PROVE h[s] = IF s = {} THEN 0 ELSE f[One(s)] + h[s \ {One(s)}]
    <3>1. CASE s \in D
      BY <3>1, <2>3, <2>4, <2>5, <2>6
    <3>2. CASE s \notin D
      <4>1. s # {}
        BY <3>2, <2>4
      <4> QED
        BY <4>1, <3>2, <2>3, <2>6
    <3> QED
      BY <3>1, <3>2
  <2>8. h = [s \in E |-> IF s = {} THEN 0 ELSE f[One(s)] + h[s \ {One(s)}]]
    <3> DEFINE r == [s \in E |-> IF s = {} THEN 0 ELSE f[One(s)] + h[s \ {One(s)}]]
    <3>1. \A s \in E : h[s] = r[s]
      BY <2>7
    <3>2. h = [s \in E |-> h[s]]
      OBVIOUS
    <3> HIDE DEF h
    <3>3. h = [s \in E |-> r[s]]
      BY <3>1, <3>2
    <3> QED
      BY <3>3
  <2>9. IsSum(h, f, E)
    BY <2>8 DEF IsSum
  <2> HIDE DEF h
  <2> QED
    BY <2>2, <2>9 DEF E
<1> HIDE DEF N, H
<1>4. N \in H
  BY <1>1, <1>2, <1>3, UpToAll
<1> QED
  BY <1>1, <1>4 DEF H

\* g[S] is what the slaves of S leave open, and g is known by its recursion
Opening(g, links, S) ==
  /\ OpensOf(links, S) = g[S]
  /\ \A s \in SUBSET S : g[s] = IF s = {} THEN 0 ELSE Opens(links[One(s)]) + g[s \ {One(s)}]

LEMMA OpensSum ==
  ASSUME NEW links, NEW S, IsFiniteSet(S)
  PROVE  \E g : Opening(g, links, S)
<1> DEFINE f     == [d \in S |-> Opens(links[d])]
           Is(g) == g = [s \in SUBSET S |-> IF s = {} THEN 0
                                            ELSE Opens(links[CHOOSE x \in s : TRUE]) + g[s \ {CHOOSE x \in s : TRUE}]]
           sum   == CHOOSE g : Is(g)
<1>1. PICK g : IsSum(g, f, SUBSET S)
  BY SumExists
<1>2. \A s \in SUBSET S : g[s] = IF s = {} THEN 0 ELSE Opens(links[One(s)]) + g[s \ {One(s)}]
  <2> SUFFICES ASSUME NEW s \in SUBSET S PROVE g[s] = IF s = {} THEN 0 ELSE Opens(links[One(s)]) + g[s \ {One(s)}]
    OBVIOUS
  <2>1. g[s] = IF s = {} THEN 0 ELSE f[One(s)] + g[s \ {One(s)}]
    BY <1>1 DEF IsSum
  <2>2. s # {} => One(s) \in S
    BY OneLess
  <2> QED
    BY <2>1, <2>2
<1>3. Is(g)
  <2>1. g = [s \in SUBSET S |-> g[s]]
    BY <1>1 DEF IsSum
  <2>2. g = [s \in SUBSET S |-> IF s = {} THEN 0 ELSE Opens(links[One(s)]) + g[s \ {One(s)}]]
    BY <2>1, <1>2
  <2> QED
    BY <2>2 DEF One
<1>4. Is(sum)
  BY <1>3
<1>5. OpensOf(links, S) = sum[S]
  BY DEF OpensOf, MapThenSumSet, MapThenFoldSet
<1>6. \A s \in SUBSET S : sum[s] = IF s = {} THEN 0 ELSE Opens(links[One(s)]) + sum[s \ {One(s)}]
  <2> HIDE DEF sum
  <2> QED
    BY <1>4 DEF One
<1>7. Opening(sum, links, S)
  <2> HIDE DEF sum
  <2> QED
    BY <1>5, <1>6 DEF Opening
<1> QED
  BY <1>7

-----------------------------------------------------------------------------
(***************************************************************************)
(* Parents.                                                                *)
(***************************************************************************)
\* what hangs on the devices of s
Hanging(w, s) == {k \in DOMAIN w : w[k].parent \in s}

LEMMA Intervals ==
  ASSUME NEW a \in Int, NEW b \in Int
  PROVE  IsFiniteSet(a .. b) /\ (a <= b + 1 => Cardinality(a .. b) = b - a + 1)
<1>1. IsFiniteSet(a .. b)
  BY FS_Interval
<1>2. Cardinality(a .. b) = IF a > b THEN 0 ELSE b - a + 1
  BY FS_Interval
<1> QED
  BY <1>1, <1>2

LEMMA InInterval ==
  ASSUME NEW n \in Nat, NEW S \in SUBSET (1 .. n)
  PROVE  IsFiniteSet(S) /\ Cardinality(S) \in 0 .. n
<1>1. IsFiniteSet(1 .. n) /\ Cardinality(1 .. n) = n
  BY Intervals
<1>2. IsFiniteSet(S) /\ Cardinality(S) <= n
  BY <1>1, FS_Subset
<1>3. Cardinality(S) \in Nat
  BY <1>2, FS_CardinalityType
<1> QED
  BY <1>2, <1>3

LEMMA KidsCount ==
  ASSUME NEW n \in Nat, NEW w, DOMAIN w = 1 .. n, IsTree(w), NEW c \in DOMAIN w
  PROVE  /\ IsFiniteSet(Kids(w, c)) /\ Cardinality(Kids(w, c)) \in 0 .. 3
         /\ Cardinality(UsedPorts(w, c)) = Cardinality(Kids(w, c)) + 1
         /\ Opens(Cardinality(UsedPorts(w, c))) = Cardinality(Kids(w, c)) - 1
<1> DEFINE kids  == Kids(w, c)
           ports == {w[k].port : k \in kids}
           f     == [k \in kids |-> w[k].port]
<1>1. kids \subseteq 2 .. n /\ \A k \in kids : k \in DOMAIN w /\ k > 1 /\ w[k].parent = c
  BY DEF Kids, IsTree
<1>2. IsFiniteSet(kids)
  <2>1. kids \in SUBSET (1 .. n)
    BY <1>1
  <2> QED
    BY <2>1, InInterval
<1>3. ports \subseteq 1 .. 3
  BY <1>1 DEF IsTree
<1>4. f \in Bijection(kids, ports)
  <2>1. \A j, k \in kids : j # k => w[j].port # w[k].port
    BY <1>1 DEF IsTree
  <2> QED
    BY <2>1 DEF Bijection, Injection, Surjection, IsInjective
<1> HIDE DEF kids, ports, f
<1>5. Cardinality(kids) = Cardinality(ports) /\ IsFiniteSet(ports)
  <2>1. ExistsBijection(kids, ports)
    BY <1>4 DEF ExistsBijection
  <2> QED
    BY <2>1, <1>2, FS_Bijection
<1>7. Cardinality(ports) \in 0 .. 3
  <2>1. PICK three \in Nat : three = 3
    OBVIOUS
  <2> QED
    BY <2>1, <1>3, InInterval
<1>8. UsedPorts(w, c) = ports \cup {0} /\ 0 \notin ports
  <2>1. UsedPorts(w, c) = {0} \cup {w[k].port : k \in kids}
    BY DEF UsedPorts, kids
  <2> QED
    BY <2>1, <1>3 DEF ports
<1>9. Cardinality(UsedPorts(w, c)) = Cardinality(ports) + 1
  BY <1>8, <1>5, FS_AddElement
<1>10. \A k \in 0 .. 3 : Opens(k + 1) = k - 1
  <2>1. Opens(1) = -1 /\ Opens(2) = 0 /\ Opens(3) = 1 /\ Opens(4) = 2
    BY DEF Opens
  <2> QED
    BY <2>1
<1> QED
  BY <1>2, <1>5, <1>7, <1>9, <1>10 DEF kids

LEMMA HangingCount ==
  ASSUME NEW n \in Nat, NEW w, DOMAIN w = 1 .. n, IsTree(w),
         NEW m \in Nat, m <= n, NEW links, \A c \in 1 .. m : links[c] = Cardinality(UsedPorts(w, c)),
         NEW S \in SUBSET (1 .. m)
  PROVE  /\ IsFiniteSet(S) /\ IsFiniteSet(Hanging(w, S))
         /\ OpensOf(links, S) = Cardinality(Hanging(w, S)) - Cardinality(S)
<1>1. IsFiniteSet(S)
  BY InInterval
<1>2. PICK g : Opening(g, links, S)
  BY <1>1, OpensSum
<1>3. \A s : Hanging(w, s) \subseteq 1 .. n /\ IsFiniteSet(Hanging(w, s)) /\ Cardinality(Hanging(w, s)) \in Nat
  <2> SUFFICES ASSUME NEW s
      PROVE  Hanging(w, s) \subseteq 1 .. n /\ IsFiniteSet(Hanging(w, s)) /\ Cardinality(Hanging(w, s)) \in Nat
    OBVIOUS
  <2>1. Hanging(w, s) \in SUBSET (1 .. n)
    BY DEF Hanging
  <2> QED
    BY <2>1, InInterval
<1> DEFINE Right(s) == g[s] = Cardinality(Hanging(w, s)) - Cardinality(s)
           H == {i \in Nat : \A s \in SUBSET S : Cardinality(s) = i => Right(s)}
           N == Cardinality(S)
<1>4. N \in Nat
  BY <1>1, FS_CardinalityType
<1>5. 0 \in H
  <2> SUFFICES ASSUME NEW s \in SUBSET S, Cardinality(s) = 0 PROVE Right(s)
    OBVIOUS
  <2>1. s = {} /\ Hanging(w, s) = {}
    BY <1>1, FS_Subset, FS_EmptySet DEF Hanging
  <2>2. g[s] = 0
    BY <2>1, <1>2 DEF Opening
  <2>3. Cardinality(Hanging(w, s)) = 0
    BY <2>1, FS_EmptySet
  <2> QED
    BY <2>2, <2>3
<1>6. ASSUME NEW i \in 1 .. N, i - 1 \in H PROVE i \in H
  <2> SUFFICES ASSUME NEW s \in SUBSET S, Cardinality(s) = i PROVE Right(s)
    BY <1>4
  <2>1. s # {}
    BY FS_EmptySet
  <2> DEFINE x == One(s)
             r == s \ {x}
  <2>2. x \in s /\ r \in SUBSET S /\ Cardinality(r) = i - 1
    BY <2>1, <1>1, OneLess
  <2>3. g[s] = Opens(links[x]) + g[r]
    BY <2>1, <1>2 DEF Opening
  <2> HIDE DEF x, r
  <2>4. Right(r)
    BY <2>2, <1>6
  <2>5. x \in DOMAIN w /\ links[x] = Cardinality(UsedPorts(w, x))
    BY <2>2
  <2>6. /\ IsFiniteSet(Kids(w, x)) /\ Cardinality(Kids(w, x)) \in Nat
        /\ Opens(links[x]) = Cardinality(Kids(w, x)) - 1
    BY <2>5, KidsCount
  <2>7. Hanging(w, s) = Kids(w, x) \cup Hanging(w, r) /\ Kids(w, x) \cap Hanging(w, r) = {}
    BY <2>2 DEF Hanging, Kids, r
  <2>8. Cardinality(Hanging(w, s)) = Cardinality(Kids(w, x)) + Cardinality(Hanging(w, r))
    <3>1. Cardinality(Kids(w, x) \cap Hanging(w, r)) = 0
      BY <2>7, FS_EmptySet
    <3> DEFINE A == Kids(w, x)
               B == Hanging(w, r)
    <3>2. Cardinality(A \cup B) = Cardinality(A) + Cardinality(B) - Cardinality(A \cap B)
      <4>1. IsFiniteSet(A) /\ IsFiniteSet(B)
        BY <2>6, <1>3
      <4> HIDE DEF A, B
      <4> QED
        BY <4>1, FS_Union
    <3>3. Cardinality(A) \in Nat /\ Cardinality(B) \in Nat
      BY <2>6, <1>3
    <3> QED
      BY <3>1, <3>2, <3>3, <2>7
  <2> QED
    BY <2>2, <2>3, <2>4, <2>6, <2>8, <1>3
<1> HIDE DEF H, N
<1>7. N \in H
  <2>1. \A i \in 0 .. N : i \in H
    BY <1>4, <1>5, <1>6, UpToAll
  <2> QED
    BY <2>1, <1>4
<1>8. g[S] = Cardinality(Hanging(w, S)) - Cardinality(S)
  BY <1>7 DEF H, N
<1> QED
  BY <1>1, <1>2, <1>3, <1>8 DEF Opening

\* The nearest slave before with a link no slave between has taken is the parent.
LEMMA ParentIs ==
  ASSUME NEW n \in Nat, NEW w, DOMAIN w = 1 .. n, IsTree(w), NEW k \in 1 .. n,
         NEW links, \A c \in 1 .. k - 1 : links[c] = Cardinality(UsedPorts(w, c))
  PROVE  ParentOf(links, k) = w[k].parent
<1>1. CASE k = 1
  BY <1>1 DEF ParentOf, IsTree
<1>2. CASE k # 1
  <2> DEFINE p     == w[k].parent
             ok(c) == links[c] > 1 /\ OpensOf(links, c .. k - 1) >= 0
             cands == {c \in 1 .. k - 1 : c = 1 \/ ok(c)}
  <2>1. p \in 1 .. k - 1 /\ k - 1 \in Nat /\ k - 1 <= n
    BY <1>2 DEF IsTree
  <2>2. ParentOf(links, k) = Max(cands)
    BY <1>2 DEF ParentOf
  <2> DEFINE last(c) == c .. k - 1
  <2>3. ASSUME NEW c \in 1 .. k - 1
        PROVE  /\ IsFiniteSet(Hanging(w, last(c)))
               /\ OpensOf(links, last(c)) = Cardinality(Hanging(w, last(c))) - (k - c)
    <3>1. last(c) \in SUBSET (1 .. k - 1)
      OBVIOUS
    <3>2. Cardinality(last(c)) = k - c
      <4>1. k - 1 \in Int /\ c <= k - 1 + 1 /\ k - 1 - c + 1 = k - c
        OBVIOUS
      <4> QED
        BY <4>1, Intervals
    <3> DEFINE m == k - 1
               x == last(c)
    <3>3. m \in Nat /\ m <= n /\ x \in SUBSET (1 .. m) /\ \A d \in 1 .. m : links[d] = Cardinality(UsedPorts(w, d))
      BY <3>1, <2>1
    <3> HIDE DEF last, m, x
    <3>4. IsFiniteSet(Hanging(w, x)) /\ OpensOf(links, x) = Cardinality(Hanging(w, x)) - Cardinality(x)
      BY <3>3, HangingCount
    <3> QED
      BY <3>2, <3>4 DEF x
  <2>4. p \in cands
    <3>1. \A j \in p + 1 .. k : j \in Hanging(w, p .. k - 1)
      BY <2>1 DEF IsTree, Hanging
    <3>2. Cardinality(p + 1 .. k) = k - p /\ IsFiniteSet(p + 1 .. k)
      <4>1. p + 1 \in Int /\ k \in Int /\ p + 1 <= k + 1 /\ k - (p + 1) + 1 = k - p
        BY <2>1
      <4> HIDE DEF p
      <4> QED
        BY <4>1, Intervals
    <3>3. Cardinality(Hanging(w, p .. k - 1)) >= k - p
      <4> DEFINE B == Hanging(w, p .. k - 1)
      <4>1. IsFiniteSet(B) /\ p + 1 .. k \subseteq B
        BY <3>1, <2>1, <2>3
      <4> HIDE DEF B
      <4>2. Cardinality(p + 1 .. k) <= Cardinality(B)
        BY <4>1, FS_Subset
      <4> QED
        BY <4>2, <3>2 DEF B
    <3>4. k \in Kids(w, p) /\ p \in DOMAIN w
      BY <2>1 DEF Kids
    <3>5. Cardinality(Kids(w, p)) # 0 /\ IsFiniteSet(Kids(w, p))
      BY <3>4, KidsCount, FS_EmptySet
    <3>6. links[p] > 1
      BY <3>4, <3>5, <2>1, KidsCount
    <3>7. OpensOf(links, p .. k - 1) >= 0
      BY <3>3, <2>1, <2>3, FS_CardinalityType
    <3> QED
      BY <3>6, <3>7, <2>1
  <2>5. ASSUME NEW c \in cands PROVE c <= p
    <3> SUFFICES ASSUME c > p PROVE FALSE
      BY <2>1
    <3>1. c \in p + 1 .. k - 1 /\ c # 1
      BY <2>1
    <3>2. Hanging(w, c .. k - 1) \subseteq c + 1 .. k - 1
      <4> SUFFICES ASSUME NEW j \in 1 .. n, w[j].parent \in c .. k - 1 PROVE j \in c + 1 .. k - 1
        BY DEF Hanging
      <4>1. w[j].parent < j /\ w[j].parent \in Int
        BY DEF IsTree
      <4>2. j # k
        BY <3>1, <2>1
      <4>3. ASSUME j > k PROVE FALSE
        <5>1. w[k].parent >= w[j].parent
          BY <4>1, <4>3 DEF IsTree
        <5> QED
          BY <5>1, <3>1, <2>1
      <4> QED
        BY <4>1, <4>2, <4>3
    <3>3. Cardinality(c + 1 .. k - 1) = k - 1 - c /\ IsFiniteSet(c + 1 .. k - 1)
      <4>1. c + 1 \in Int /\ k - 1 \in Int /\ c + 1 <= k - 1 + 1 /\ k - 1 - (c + 1) + 1 = k - 1 - c
        BY <3>1
      <4> QED
        BY <4>1, Intervals
    <3>4. Cardinality(Hanging(w, c .. k - 1)) <= k - 1 - c
      BY <3>2, <3>3, FS_Subset
    <3>5. OpensOf(links, c .. k - 1) >= 0
      BY <3>1
    <3> QED
      BY <3>1, <3>4, <3>5, <2>3, FS_CardinalityType
  <2>6. cands \subseteq Int
    OBVIOUS
  <2>7. Max(cands) = p
    <3> DEFINE best == CHOOSE x \in cands : \A y \in cands : x >= y
    <3>1. p \in Int /\ \A y \in cands : p >= y
      BY <2>1, <2>5
    <3> HIDE DEF cands, p
    <3>2. best \in cands /\ \A y \in cands : best >= y
      BY <3>1, <2>4
    <3>3. best = p
      <4> HIDE DEF best
      <4> QED
        BY <3>1, <3>2, <2>4, <2>6
    <3> QED
      BY <3>3 DEF Max
  <2> QED
    BY <2>2, <2>7
<1> QED
  BY <1>1, <1>2

-----------------------------------------------------------------------------
(***************************************************************************)
(* The entries of the slave list.                                          *)
(***************************************************************************)
Held == {"configadr", "eep_man", "eep_id", "eep_rev", "FMMUunused", "state", "topology", "parent"}

IsEntry(e) == Held \subseteq DOMAIN e

\* nothing the recovery looks at is different but the state and the address
SameIds(e, f) ==
  /\ DOMAIN e = DOMAIN f
  /\ e.eep_man = f.eep_man /\ e.eep_id = f.eep_id /\ e.eep_rev = f.eep_rev /\ e.FMMUunused = f.FMMUunused
  /\ e.topology = f.topology /\ e.parent = f.parent

SameEntry(e, f) == SameIds(e, f) /\ e.configadr = f.configadr

ListKept == DOMAIN list' = DOMAIN list /\ \A s \in DOMAIN list : SameEntry(list'[s], list[s])

LEMMA NewEntry == IsEntry(EmptySlave) /\ EmptySlave.FMMUunused = 0 /\ EmptySlave.configadr = 0
  BY DEF IsEntry, EmptySlave, Held

LEMMA MapsKeepEntry ==
  ASSUME NEW me, IsEntry(me), NEW od
  PROVE  SameEntry(BySoE(ByCoE(me, od), od), me)
<1>1. ASSUME NEW e, IsEntry(e), NEW ca PROVE SameEntry(Mapped(e, od, ca), e) /\ IsEntry(Mapped(e, od, ca))
  BY <1>1 DEF Mapped, SameEntry, SameIds, IsEntry, Held
<1>2. SameEntry(ByCoE(me, od), me) /\ IsEntry(ByCoE(me, od))
  <2> DEFINE ca == Mapped(me, od, TRUE)
  <2>1. SameEntry(ca, me) /\ IsEntry(ca)
    BY <1>1
  <2>2. SameEntry(Mapped(ca, od, FALSE), me) /\ IsEntry(Mapped(ca, od, FALSE))
    BY <2>1, <1>1 DEF SameEntry, SameIds
  <2>3. SameEntry(Mapped(me, od, FALSE), me) /\ IsEntry(Mapped(me, od, FALSE))
    BY <1>1
  <2>4. SameEntry([me EXCEPT !.Obits = 0, !.Ibits = 0], me) /\ IsEntry([me EXCEPT !.Obits = 0, !.Ibits = 0])
    BY DEF SameEntry, SameIds, IsEntry, Held
  <2>5. ByCoE(me, od) \in {[me EXCEPT !.Obits = 0, !.Ibits = 0], ca, Mapped(ca, od, FALSE), Mapped(me, od, FALSE)}
    BY DEF ByCoE, ecx_readPDOmap, ecx_readPDOmapCA
  <2> HIDE DEF ca
  <2> QED
    BY <2>1, <2>2, <2>3, <2>4, <2>5
<1> DEFINE e == ByCoE(me, od)
<1> HIDE DEF e
<1>3. ASSUME IsEntry(e) PROVE SameEntry(BySoE(e, od), e)
  BY <1>3 DEF BySoE, SameEntry, SameIds, IsEntry, Held
<1> QED
  BY <1>2, <1>3 DEF e, SameEntry, SameIds

LEMMA SiiKeepsEntry ==
  ASSUME NEW me, IsEntry(me), NEW v
  PROVE  SameEntry(FromSii(me, v), me) /\ SameEntry(FromPdos(me, v), me)
<1>1. SameEntry(FromSii(me, v), me)
  BY DEF FromSii, SameEntry, SameIds, IsEntry, Held
<1>2. SameEntry(FromPdos(me, v), me)
  BY DEF FromPdos, WithPdos, SameEntry, SameIds, IsEntry, Held
<1> QED
  BY <1>1, <1>2

\* What ecx_configdc writes to the list.
LEMMA ClockKeepsEntries ==
  ASSUME \A s \in DOMAIN list : IsEntry(list[s]), NEW i \in DOMAIN list, NEW times,
         \/ list' = DcSlave(list, i, times) \/ list' = PlainSlave(list, i, hold).list
  PROVE  ListKept
<1>C. \A e : IsEntry(e) => SameEntry(Consume(e), e) /\ IsEntry(Consume(e))
  BY DEF Consume, SameEntry, SameIds, IsEntry, Held
<1>1. CASE list' = PlainSlave(list, i, hold).list
  <2> DEFINE l1 == [list EXCEPT ![i].DCrt = [p \in Ports |-> 0], ![i].consumedports = list[i].activeports]
  <2>1. \E root : list' = [l1 EXCEPT ![root] = Consume(l1[root])] \/ list' = l1
    BY <1>1 DEF PlainSlave
  <2>2. DOMAIN l1 = DOMAIN list /\ \A s \in DOMAIN list : SameEntry(l1[s], list[s]) /\ IsEntry(l1[s])
    BY DEF SameEntry, SameIds, IsEntry, Held
  <2> HIDE DEF l1
  <2> QED
    BY <2>1, <2>2, <1>C DEF ListKept, SameEntry, SameIds
<1>2. CASE list' = DcSlave(list, i, times)
  <2> DEFINE timed  == [list[i] EXCEPT !.DCrt = times, !.consumedports = list[i].activeports]
             me     == [timed EXCEPT !.entryport = EntryPort(timed), !.consumedports = @ \ {EntryPort(timed)}]
             l1     == [list EXCEPT ![i] = me]
  <2>1. \E parent, delay : \/ list' = l1
                           \/ list' = [l1 EXCEPT ![parent] = Consume(l1[parent]), ![i].pdelay = delay]
    BY <1>2 DEF DcSlave
  <2>2. DOMAIN l1 = DOMAIN list /\ \A s \in DOMAIN list : SameEntry(l1[s], list[s]) /\ IsEntry(l1[s])
    BY DEF SameEntry, SameIds, IsEntry, Held
  <2> HIDE DEF l1
  <2>3. ASSUME NEW parent, NEW delay, list' = [l1 EXCEPT ![parent] = Consume(l1[parent]), ![i].pdelay = delay]
        PROVE  ListKept
    <3> DEFINE l2 == [l1 EXCEPT ![parent] = Consume(l1[parent])]
    <3>1. DOMAIN l2 = DOMAIN list /\ \A s \in DOMAIN list : SameEntry(l2[s], list[s]) /\ IsEntry(l2[s])
      BY <2>2, <1>C DEF SameEntry, SameIds
    <3>2. list' = [l2 EXCEPT ![i].pdelay = delay]
      BY <2>3
    <3> HIDE DEF l2
    <3> QED
      BY <3>1, <3>2 DEF ListKept, SameEntry, SameIds, IsEntry, Held
  <2> QED
    BY <2>1, <2>2, <2>3 DEF ListKept
<1> QED
  BY <1>1, <1>2

-----------------------------------------------------------------------------
(***************************************************************************)
(* The bring-up, in which no device loses its power: every slave gets its  *)
(* place as its address, and the list learns who it is.                    *)
(***************************************************************************)
LEMMA MaxOfOne == \A x \in Int : Max({x}) = x
  BY DEF Max

\* Before the watch all devices are there and as the plan says.
LEMMA AllThere ==
  ASSUME Flow, Devs, Counted, Whole
  PROVE  /\ Slaves = Devices /\ Devices = 1 .. Len(list) /\ Len(list) \in Nat /\ DOMAIN bus = Devices
         /\ Connected = Devices
         /\ \A k \in Devices : bus[k].kind = plan.kinds[k] /\ AP(k) = {k}
<1>1. Len(plan.kinds) = Len(list) /\ Len(list) \in Nat /\ DOMAIN list = 1 .. Len(list) /\ DOMAIN bus = 1 .. Len(list)
  BY PlanAssumption DEF Flow, Devs
<1>2. Connected = Devices
  BY DEF Connected, Devs
<1>3. ASSUME NEW k \in Devices PROVE AP(k) = {k}
  <2>1. ASSUME NEW j \in Devices PROVE Cardinality({i \in Devices : i <= j}) = j
    <3>1. {i \in Devices : i <= j} = 1 .. j /\ j \in Int
      BY <1>1 DEF Devices
    <3>2. Cardinality(1 .. j) = j
      BY <1>1, FS_Interval DEF Devices
    <3> QED
      BY <3>1, <3>2
  <2>2. AP(k) = {j \in Devices : Cardinality({i \in Devices : i <= j}) = k}
    BY <1>2 DEF AP
  <2> QED
    BY <2>1, <2>2
<1> QED
  BY <1>1, <1>2, <1>3 DEF Slaves, Devices, Devs

\* what is in the EEPROM register of a device
LEMMA EepReads ==
  ASSUME NEW d, IsDevice(d)
  PROVE  /\ d.data \in EepWords => Number(EepData(d)) = WordOf(d.kind, d.data)
         /\ d.data = NoWord => Number(EepData(d)) = 0
<1>1. ASSUME d.data \in EepWords PROVE Number(EepData(d)) = WordOf(d.kind, d.data)
  <2>1. d.data # NoWord
    BY <1>1 DEF EepWords, IdWords, NoWord, ECT_SII_ID, ECT_SII_MANUF, ECT_SII_REV, ECT_SII_RXMBXADR, ECT_SII_TXMBXADR,
                ECT_SII_MBXPROTO
  <2>2. EepData(d) = [i \in 0 .. 3 |-> Kinds[d.kind].image[2 * d.data + i]]
    BY <2>1 DEF EepData
  <2> QED
    BY <2>2 DEF WordOf
<1>2. ASSUME d.data = NoWord PROVE Number(EepData(d)) = 0
  <2>1. EepData(d) = [i \in 0 .. 3 |-> 0]
    BY <1>2 DEF EepData
  <2> DEFINE b == [i \in 0 .. 3 |-> 0]
  <2>2. b[0] = 0 /\ b[1] = 0 /\ b[2] = 0 /\ b[3] = 0
    OBVIOUS
  <2> HIDE DEF b
  <2> QED
    BY <2>1, <2>2 DEF Number, b
<1> QED
  BY <1>1, <1>2

\* which stages of ec_config_init slave k has been through
Placed(k)  == at.proc # "defaults" /\ (at.proc = "address" => k < at.s)
ManRead(k) == at.proc \notin {"defaults", "address"} /\ (at.proc = "manuf" => k < at.s)
IdRead(k)  == at.proc \notin {"defaults", "address", "manuf"} /\ (at.proc = "id" => k < at.s)
RevRead(k) == at.proc \notin {"defaults", "address", "manuf", "id"} /\ (at.proc = "rev" => k < at.s)

Linked(k)  == /\ at.proc \notin {"defaults", "address", "manuf", "id", "rev", "rxmbx"}
              /\ at.proc = "links" => k < at.s
              /\ at.proc \in {"mailbox", "sii", "sm01"} => k <= at.s

\* the links and the parent are those of the cables
Hung(k) == list[k].topology = Cardinality(UsedPorts(plan.wires, k)) /\ list[k].parent = plan.wires[k].parent

\* what has been read of the identity of slave k, and where it hangs
Learnt(k) ==
  /\ IsEntry(list[k])
  /\ ManRead(k) => list[k].eep_man = WordOf(plan.kinds[k], ECT_SII_MANUF)
  /\ IdRead(k) => list[k].eep_id = WordOf(plan.kinds[k], ECT_SII_ID)
  /\ RevRead(k) => list[k].eep_rev = WordOf(plan.kinds[k], ECT_SII_REV)
  /\ at.proc = "defaults" => list[k].FMMUunused = 0
  /\ Linked(k) => Hung(k)

\* where slave k is, and the read of its EEPROM that has been started
Given(k) ==
  /\ IF Placed(k) THEN bus[k].adr = k /\ list[k].configadr = k ELSE list[k].configadr = 0
  /\ at.proc # "defaults" => bus[k].fmmu = list[k].FMMUunused
  /\ at.proc \in {"address", "manuf", "id", "rev"} => bus[k].ctl = "master"
  /\ at.proc = "address" /\ k < at.s => bus[k].data = ECT_SII_MANUF
  /\ at.proc = "manuf" => bus[k].data = IF k < at.s THEN ECT_SII_ID ELSE ECT_SII_MANUF
  /\ at.proc = "id" => bus[k].data = IF k < at.s THEN ECT_SII_REV ELSE ECT_SII_ID
  /\ at.proc = "rev" /\ k >= at.s => bus[k].data = ECT_SII_REV

Configured == Counted => \A k \in Slaves : Learnt(k) /\ (~inOP => Given(k))

Reading5 == {"defaults", "address", "manuf", "id", "rev"}

\* A step of a later stage that leaves addresses, FMMUs and identities as they are.
LEMMA LaterKept ==
  ASSUME Flow, Configured, Counted, at.proc \notin Reading5, Counted' => at'.proc \notin Reading5,
         ListKept, UNCHANGED plan, inOP \in BOOLEAN, ~inOP' => ~inOP, \A k \in Slaves : Linked(k)' => Linked(k),
         ~inOP' => \A k \in Slaves : bus'[k].adr = bus[k].adr /\ bus'[k].fmmu = bus[k].fmmu
  PROVE  Configured'
<1> SUFFICES ASSUME Counted', NEW k \in Slaves PROVE Learnt(k)' /\ (~inOP' => Given(k)')
  BY DEF Configured, ListKept, Slaves
<1>1. Learnt(k) /\ (~inOP => Given(k)) /\ SameEntry(list'[k], list[k])
  BY DEF Configured, ListKept, Slaves
<1>2. Learnt(k)'
  BY <1>1 DEF Learnt, ManRead, IdRead, RevRead, SameEntry, SameIds, IsEntry, Reading5, Hung
<1>3. ASSUME ~inOP' PROVE Given(k)'
  BY <1>1, <1>3 DEF Given, Placed, SameEntry, SameIds, Reading5
<1> QED
  BY <1>2, <1>3

\* where a stage goes from one slave
LEMMA OnwardIs ==
  ASSUME Flow, NEW next, Onward(next), at.s \in 1 .. Len(list)
  PROVE  \/ at.s < Len(list) /\ at'.proc = at.proc /\ at'.s = at.s + 1
         \/ at.s = Len(list) /\ at'.proc = next /\ at'.s = 1
<1>1. DOMAIN at = {"proc", "s", "pc"} /\ Len(list) \in Nat
  BY DEF Flow, Places
<1>2. ASSUME NEW p, NEW i, GoOn(p, i) PROVE at'.proc = p /\ at'.s = i
  BY <1>1, <1>2 DEF GoOn
<1>3. IF at.s < Len(list) THEN GoOn(at.proc, at.s + 1) ELSE GoOn(next, 1)
  BY DEF Onward, Go
<1> QED
  BY <1>1, <1>2, <1>3

LEMMA DetectConfigured ==
  ASSUME Flow, Devs, ecx_detect_slaves
  PROVE  Configured'
<1>1. at.proc = "detect" /\ inOP = FALSE
  BY DEF ecx_detect_slaves, Flow, CheckProcs
<1> SUFFICES ASSUME Counted', NEW k \in Slaves' PROVE Learnt(k)' /\ (~inOP' => Given(k)')
  BY DEF Configured
<1>2. at'.proc = "defaults"
  BY DEF ecx_detect_slaves, Go, GoOn, Counted, Flow, Places
<1>3. list'[k] = EmptySlave
  BY DEF ecx_detect_slaves, Slaves
<1>4. Learnt(k)'
  BY <1>2, <1>3, NewEntry DEF Learnt, ManRead, IdRead, RevRead, Linked
<1>5. Given(k)'
  BY <1>2, <1>3, NewEntry DEF Given, Placed
<1> QED
  BY <1>4, <1>5

LEMMA DefaultsConfigured ==
  ASSUME Flow, Devs, Configured, Counted, ecx_set_slaves_to_default, UNCHANGED inOP
  PROVE  Configured'
<1>1. at.proc = "defaults" /\ ~inOP /\ UNCHANGED <<list, plan>> /\ at'.proc = "address" /\ at'.s = 1
  BY DEF ecx_set_slaves_to_default, Flow, CheckProcs, Go, GoOn, Untroubled, Places
<1>2. Slaves = Devices /\ Connected = Devices /\ Slaves = 1 .. Len(list)
  BY <1>1, AllThere DEF Whole
<1>3. bus' = [k \in Devices |-> IF k \in All THEN SetDefault(bus[k]) ELSE bus[k]]
  BY DEF ecx_set_slaves_to_default, Calmly, Wrote, Devices
<1> SUFFICES ASSUME NEW k \in Slaves PROVE Learnt(k)' /\ Given(k)'
  BY <1>1 DEF Configured, Slaves
<1>4. Learnt(k)
  BY DEF Configured
<1>5. bus'[k] = SetDefault(bus[k]) /\ IsDevice(bus[k])
  BY <1>2, <1>3 DEF All, Devs
<1>6. bus'[k].fmmu = 0 /\ bus'[k].ctl = "master"
  BY <1>5, Defaults
<1>7. Learnt(k)'
  BY <1>1, <1>4 DEF Learnt, ManRead, IdRead, RevRead, Linked
<1>8. Given(k)'
  <2>1. list[k].configadr = 0
    BY <1>1 DEF Configured, Given, Placed
  <2>2. ~Placed(k)'
    BY <1>1, <1>2 DEF Placed
  <2> QED
    BY <1>1, <1>2, <1>4, <1>6, <2>1, <2>2 DEF Given, Learnt
<1> QED
  BY <1>7, <1>8

LEMMA AddressConfigured ==
  ASSUME Flow, Devs, Configured, Counted, NEW s \in Slaves, Address(s), UNCHANGED inOP
  PROVE  Configured'
<1> DEFINE b1  == [k \in Devices |-> IF k \in AP(s) THEN [bus[k] EXCEPT !.adr = s] ELSE bus[k]]
           who == {k \in Connected : b1[k].adr = s}
<1>1. at.proc = "address" /\ at.s = s /\ ~inOP /\ UNCHANGED plan
  BY DEF Address, Flow, CheckProcs, Untroubled
<1>2. /\ Slaves = Devices /\ Connected = Devices /\ Slaves = 1 .. Len(list) /\ AP(s) = {s} /\ Len(list) \in Nat
  BY <1>1, AllThere DEF Whole
<1>3. bus' = [k \in Devices |-> IF k \in who THEN EepCommand(b1[k], ECT_SII_MANUF) ELSE b1[k]]
  BY DEF Address, Calmly, Wrote, Devices
<1>4. \/ s < Len(list) /\ at'.proc = "address" /\ at'.s = s + 1
      \/ s = Len(list) /\ at'.proc = "manuf" /\ at'.s = 1
  <2>1. Onward("manuf")
    BY DEF Address
  <2>2. at.s \in 1 .. Len(list)
    BY <1>1, <1>2
  <2> QED
    BY <2>1, <2>2, <1>1, OnwardIs
<1>5. DOMAIN list' = DOMAIN list /\ \A k \in Slaves : SameIds(list'[k], list[k]) /\ (k # s => list'[k] = list[k])
      /\ list'[s].configadr = s
  <2>1. \E a, e : list' = [list EXCEPT ![s].configadr = s, ![s].aliasadr = a, ![s].eep_8byte = e]
    BY DEF Address
  <2>2. \A k \in Slaves : IsEntry(list[k])
    BY DEF Configured, Learnt
  <2>3. PICK a, e : list' = [list EXCEPT ![s].configadr = s, ![s].aliasadr = a, ![s].eep_8byte = e]
    BY <2>1
  <2> DEFINE l1 == [list EXCEPT ![s].configadr = s]
             l2 == [l1 EXCEPT ![s].aliasadr = a]
             Like(l) == /\ DOMAIN l = Slaves /\ l[s].configadr = s /\ IsEntry(l[s])
                        /\ \A k \in Slaves : SameIds(l[k], list[k]) /\ (k # s => l[k] = list[k])
  <2>4. Like(l1)
    BY <2>2 DEF SameIds, IsEntry, Held, Slaves
  <2>5. list' = [l2 EXCEPT ![s].eep_8byte = e]
    BY <2>3
  <2> HIDE DEF l1
  <2>6. Like(l2)
    BY <2>4 DEF SameIds, IsEntry, Held
  <2> HIDE DEF l2
  <2>7. Like(list')
    BY <2>5, <2>6 DEF SameIds, IsEntry, Held
  <2> QED
    BY <2>7 DEF Slaves
<1> SUFFICES ASSUME NEW k \in Slaves PROVE Learnt(k)' /\ Given(k)'
  BY <1>1, <1>5 DEF Configured, Slaves
<1>6. Learnt(k) /\ Given(k) /\ IsDevice(bus[k])
  BY <1>1, <1>2 DEF Configured, Devs
<1>7. Learnt(k)'
  BY <1>1, <1>2, <1>4, <1>5, <1>6 DEF Learnt, ManRead, IdRead, RevRead, Linked, IsEntry, SameIds
<1>8. /\ bus'[k].fmmu = bus[k].fmmu /\ bus'[k].ctl = "master"
      /\ k <= s => bus'[k].adr = k /\ bus'[k].data = ECT_SII_MANUF
  <2>1. b1[k].fmmu = bus[k].fmmu /\ b1[k].ctl = "master" /\ b1[k].data = bus[k].data
        /\ b1[k].adr = (IF k = s THEN s ELSE bus[k].adr) /\ DOMAIN b1[k] = Fields
    BY <1>1, <1>2, <1>6 DEF Given, IsDevice, Fields
  <2>2. bus'[k] \in {b1[k], EepCommand(b1[k], ECT_SII_MANUF)}
        /\ (k = s => bus'[k] = EepCommand(b1[k], ECT_SII_MANUF)) /\ (k < s => bus'[k] = b1[k])
    <3>1. k = s => k \in who
      BY <1>2, <2>1
    <3>2. k < s => k \notin who
      BY <1>1, <1>2, <1>6, <2>1 DEF Given, Placed
    <3> QED
      BY <3>1, <3>2, <1>2, <1>3
  <2>3. EepCommand(b1[k], ECT_SII_MANUF) = [b1[k] EXCEPT !.data = ECT_SII_MANUF]
    BY <2>1 DEF EepCommand
  <2> HIDE DEF b1, who
  <2>4. k < s => bus[k].adr = k /\ bus[k].data = ECT_SII_MANUF
    BY <1>1, <1>6 DEF Given, Placed
  <2>5. CASE k = s
    BY <2>1, <2>2, <2>3, <2>5 DEF Fields
  <2>6. CASE k < s
    BY <2>1, <2>2, <2>4, <2>6
  <2>7. CASE k > s
    BY <2>1, <2>2, <2>3, <2>7, <1>2 DEF Fields
  <2> QED
    BY <2>5, <2>6, <2>7, <1>2
<1>9. Given(k)'
  <2>1. list'[k].FMMUunused = list[k].FMMUunused /\ bus[k].fmmu = list[k].FMMUunused
    BY <1>1, <1>5, <1>6 DEF SameIds, Given
  <2>2. k <= s => list'[k].configadr = k
    BY <1>1, <1>2, <1>5, <1>6 DEF Given, Placed, Learnt
  <2>5. k > s => list'[k].configadr = 0
    BY <1>1, <1>2, <1>5, <1>6 DEF Given, Placed
  <2> HIDE DEF b1, who
  <2>3. CASE s < Len(list) /\ at'.proc = "address" /\ at'.s = s + 1
    BY <1>2, <1>8, <2>1, <2>2, <2>3, <2>5 DEF Given, Placed
  <2>4. CASE s = Len(list) /\ at'.proc = "manuf" /\ at'.s = 1
    BY <1>2, <1>8, <2>1, <2>2, <2>4 DEF Given, Placed
  <2> QED
    BY <1>4, <2>3, <2>4
<1> QED
  BY <1>7, <1>9

\* Once all have their places a datagram reaches the slave it is for, and no other one.
LEMMA ReachedIs ==
  ASSUME Flow, Devs, Configured, Counted, ~inOP, at.proc \notin {"defaults", "address"}, NEW s \in Slaves
  PROVE  Reached(s) = {s} /\ s \in Devices /\ s \in Int
<1>1. Slaves = Devices /\ Connected = Devices /\ \A k \in Slaves : k \in Int
  BY AllThere DEF Whole
<1>2. \A k \in Slaves : bus[k].adr = k /\ list[k].configadr = k
  BY DEF Configured, Given, Placed
<1> QED
  BY <1>1, <1>2 DEF Reached, FP

\* The word that is taken of a slave, and what the read of the next one leaves.
LEMMA WordTaken ==
  ASSUME Flow, Devs, Configured, Counted, ~inOP, at.proc \notin {"defaults", "address"}, NEW s \in Slaves,
         bus[s].data \in EepWords
  PROVE  Number(TakeWord(s)) = WordOf(plan.kinds[s], bus[s].data)
<1>1. Reached(s) = {s} /\ s \in Devices /\ s \in Int
  BY ReachedIs
<1>2. TakeWord(s) = EepData(bus[Max(Reached(s))])
  BY <1>1 DEF TakeWord, ReadOr
<1>3. TakeWord(s) = EepData(bus[s])
  BY <1>1, <1>2, MaxOfOne
<1>4. IsDevice(bus[s]) /\ bus[s].kind = plan.kinds[s]
  BY <1>1, AllThere DEF Whole, Devs
<1> QED
  BY <1>3, <1>4, EepReads

LEMMA WordStarted ==
  ASSUME Flow, Devs, Configured, Counted, ~inOP, at.proc \in {"manuf", "id", "rev"}, at.s \in Slaves,
         NEW word \in EepWords, bus' = StartWord(bus, at.s, word)
  PROVE  \A k \in Slaves : /\ bus'[k].adr = bus[k].adr /\ bus'[k].fmmu = bus[k].fmmu /\ bus'[k].ctl = "master"
                           /\ bus'[k].data = IF k = at.s THEN word ELSE bus[k].data
<1>1. Reached(at.s) = {at.s}
  BY ReachedIs
<1>2. bus' = [k \in Devices |-> IF k \in Reached(at.s) THEN EepCommand(bus[k], word) ELSE bus[k]]
  BY DEF StartWord, Wrote, Devices
<1>3. Slaves = Devices /\ \A k \in Slaves : IsDevice(bus[k]) /\ bus[k].ctl = "master"
  BY AllThere DEF Whole, Devs, Configured, Given
<1> TAKE k \in Slaves
<1>4. bus'[k] = IF k = at.s THEN EepCommand(bus[k], word) ELSE bus[k]
  BY <1>1, <1>2, <1>3
<1>5. LET r == EepCommand(bus[k], word)
      IN  r.adr = bus[k].adr /\ r.fmmu = bus[k].fmmu /\ r.ctl = bus[k].ctl /\ r.data = word
  BY <1>3, Commands
<1> QED
  BY <1>3, <1>4, <1>5

LEMMA TakenConfigured ==
  ASSUME Flow, Devs, Configured, Counted, TakeManuf \/ TakeId \/ TakeRev, UNCHANGED inOP
  PROVE  Configured'
<1>0. at.proc \in {"manuf", "id", "rev"} /\ UNCHANGED plan
  BY DEF TakeManuf, TakeId, TakeRev, Took, Untroubled
<1>1. ~inOP /\ at.proc \notin {"defaults", "address"}
  BY <1>0 DEF Flow, CheckProcs
<1>2. Slaves = Devices /\ Slaves = 1 .. Len(list) /\ Len(list) \in Nat /\ at.s \in Slaves /\ DOMAIN list = Slaves
  <2>1. Slaves = Devices /\ Slaves = 1 .. Len(list) /\ Len(list) \in Nat
    BY <1>1, AllThere DEF Whole
  <2>2. at.s \in Int /\ at.s >= 1 /\ Len(list) > 0
    BY Sizes DEF Flow, Places
  <2> QED
    BY <2>1, <2>2 DEF Flow, Slaves
<1>3. \A k \in Slaves : Learnt(k) /\ Given(k)
  BY <1>1 DEF Configured
<1>4. {ECT_SII_MANUF, ECT_SII_ID, ECT_SII_REV, ECT_SII_RXMBXADR} \subseteq EepWords
  BY DEF EepWords, IdWords
<1> DEFINE s == at.s
           Taking(word, next) ==
             /\ bus[s].data \in EepWords
             /\ \/ s < Len(list) /\ at'.proc = at.proc /\ at'.s = s + 1
                \/ s = Len(list) /\ at'.proc = next /\ at'.s = 1
             /\ \A k \in Slaves : /\ bus'[k].adr = k /\ bus'[k].fmmu = bus[k].fmmu /\ bus'[k].ctl = "master"
                                  /\ bus'[k].data = IF k = s THEN word ELSE bus[k].data
<1>5. ASSUME NEW entry, NEW next, NEW word \in EepWords, Took(entry, next, word, TRUE)
      PROVE  Taking(word, next) /\ list' = [list EXCEPT ![s] = entry]
  <2>1. Onward(next) /\ bus' = StartWord(bus, s, word) /\ list' = [list EXCEPT ![s] = entry]
    BY <1>5 DEF Took
  <2>2. bus[s].data \in EepWords
    BY <1>0, <1>2, <1>3, <1>4 DEF Given
  <2>3. \A k \in Slaves : bus[k].adr = k
    BY <1>1, <1>3 DEF Given, Placed
  <2>4. \/ s < Len(list) /\ at'.proc = at.proc /\ at'.s = s + 1
        \/ s = Len(list) /\ at'.proc = next /\ at'.s = 1
    BY <2>1, <1>2, OnwardIs
  <2>5. \A k \in Slaves : /\ bus'[k].adr = bus[k].adr /\ bus'[k].fmmu = bus[k].fmmu /\ bus'[k].ctl = "master"
                          /\ bus'[k].data = IF k = s THEN word ELSE bus[k].data
    BY <2>1, <1>0, <1>1, <1>2, WordStarted
  <2> QED
    BY <2>1, <2>2, <2>3, <2>4, <2>5
<1> HIDE DEF Taking
<1>D. Slaves' = Slaves
  BY <1>2 DEF TakeManuf, TakeId, TakeRev, Took, Slaves
<1> SUFFICES ASSUME NEW k \in Slaves PROVE Learnt(k)' /\ Given(k)'
  BY <1>D DEF Configured
<1>W. bus[s].data \in EepWords => Number(TakeWord(s)) = WordOf(plan.kinds[s], bus[s].data)
  BY <1>1, <1>2, WordTaken
<1>G. Learnt(k) /\ Given(k) /\ Given(s) /\ k \in Int /\ s \in Int /\ k >= 1 /\ k <= Len(list)
  BY <1>2, <1>3
<1>6. CASE TakeManuf
  <2> DEFINE entry == [list[s] EXCEPT !.eep_man = Number(TakeWord(s))]
  <2>1. at.proc = "manuf" /\ Took(entry, "id", ECT_SII_ID, TRUE)
    BY <1>6 DEF TakeManuf
  <2>2. Taking(ECT_SII_ID, "id") /\ list' = [list EXCEPT ![s] = entry] /\ ECT_SII_ID \in EepWords
    BY <2>1, <1>4, <1>5
  <2>3. bus[s].data = ECT_SII_MANUF
    BY <2>1, <1>G DEF Given
  <2> DEFINE same(e, f) == /\ IsEntry(f) /\ e.eep_id = f.eep_id /\ e.eep_rev = f.eep_rev
                           /\ e.FMMUunused = f.FMMUunused /\ e.configadr = f.configadr
  <2>4. IsEntry(list[s]) => same(list[s], entry) /\ entry.eep_man = WordOf(plan.kinds[s], ECT_SII_MANUF)
    BY <2>2, <2>3, <1>W DEF IsEntry, Held, Taking
  <2>5. DOMAIN list' = DOMAIN list /\ list'[k] = IF k = s THEN entry ELSE list[k]
    BY <2>2, <1>2
  <2> HIDE DEF entry
  <2>6. IsEntry(list'[k]) /\ same(list[k], list'[k])
        /\ list'[k].eep_man = IF k = s THEN WordOf(plan.kinds[s], ECT_SII_MANUF) ELSE list[k].eep_man
    BY <2>4, <2>5, <1>G, <1>2, <1>3 DEF Learnt
  <2>7. CASE s < Len(list) /\ at'.proc = "manuf" /\ at'.s = s + 1
    BY <2>7, <2>1, <2>2, <2>3, <2>6, <1>G, <1>0 DEF Learnt, Given, ManRead, IdRead, RevRead, Linked, Placed, Taking
  <2>8. CASE s = Len(list) /\ at'.proc = "id" /\ at'.s = 1
    BY <2>8, <2>1, <2>2, <2>3, <2>6, <1>G, <1>0 DEF Learnt, Given, ManRead, IdRead, RevRead, Linked, Placed, Taking
  <2> QED
    BY <2>1, <2>2, <2>7, <2>8 DEF Taking
<1>7. CASE TakeId
  <2> DEFINE entry == [list[s] EXCEPT !.eep_id = Number(TakeWord(s))]
  <2>1. at.proc = "id" /\ Took(entry, "rev", ECT_SII_REV, TRUE)
    BY <1>7 DEF TakeId
  <2>2. Taking(ECT_SII_REV, "rev") /\ list' = [list EXCEPT ![s] = entry] /\ ECT_SII_REV \in EepWords
    BY <2>1, <1>4, <1>5
  <2>3. bus[s].data = ECT_SII_ID
    BY <2>1, <1>G DEF Given
  <2> DEFINE same(e, f) == /\ IsEntry(f) /\ e.eep_man = f.eep_man /\ e.eep_rev = f.eep_rev
                           /\ e.FMMUunused = f.FMMUunused /\ e.configadr = f.configadr
  <2>4. IsEntry(list[s]) => same(list[s], entry) /\ entry.eep_id = WordOf(plan.kinds[s], ECT_SII_ID)
    BY <2>2, <2>3, <1>W DEF IsEntry, Held, Taking
  <2>5. DOMAIN list' = DOMAIN list /\ list'[k] = IF k = s THEN entry ELSE list[k]
    BY <2>2, <1>2
  <2> HIDE DEF entry
  <2>6. IsEntry(list'[k]) /\ same(list[k], list'[k])
        /\ list'[k].eep_id = IF k = s THEN WordOf(plan.kinds[s], ECT_SII_ID) ELSE list[k].eep_id
    BY <2>4, <2>5, <1>G, <1>2, <1>3 DEF Learnt
  <2>7. CASE s < Len(list) /\ at'.proc = "id" /\ at'.s = s + 1
    BY <2>7, <2>1, <2>2, <2>3, <2>6, <1>G, <1>0 DEF Learnt, Given, ManRead, IdRead, RevRead, Linked, Placed, Taking
  <2>8. CASE s = Len(list) /\ at'.proc = "rev" /\ at'.s = 1
    BY <2>8, <2>1, <2>2, <2>3, <2>6, <1>G, <1>0 DEF Learnt, Given, ManRead, IdRead, RevRead, Linked, Placed, Taking
  <2> QED
    BY <2>1, <2>2, <2>7, <2>8 DEF Taking
<1>8. CASE TakeRev
  <2> DEFINE entry == [list[s] EXCEPT !.eep_rev = Number(TakeWord(s))]
  <2>1. at.proc = "rev" /\ Took(entry, "rxmbx", ECT_SII_RXMBXADR, TRUE)
    BY <1>8 DEF TakeRev
  <2>2. Taking(ECT_SII_RXMBXADR, "rxmbx") /\ list' = [list EXCEPT ![s] = entry] /\ ECT_SII_RXMBXADR \in EepWords
    BY <2>1, <1>4, <1>5
  <2>3. bus[s].data = ECT_SII_REV
    BY <2>1, <1>G DEF Given
  <2> DEFINE same(e, f) == /\ IsEntry(f) /\ e.eep_man = f.eep_man /\ e.eep_id = f.eep_id
                           /\ e.FMMUunused = f.FMMUunused /\ e.configadr = f.configadr
  <2>4. IsEntry(list[s]) => same(list[s], entry) /\ entry.eep_rev = WordOf(plan.kinds[s], ECT_SII_REV)
    BY <2>2, <2>3, <1>W DEF IsEntry, Held, Taking
  <2>5. DOMAIN list' = DOMAIN list /\ list'[k] = IF k = s THEN entry ELSE list[k]
    BY <2>2, <1>2
  <2> HIDE DEF entry
  <2>6. IsEntry(list'[k]) /\ same(list[k], list'[k])
        /\ list'[k].eep_rev = IF k = s THEN WordOf(plan.kinds[s], ECT_SII_REV) ELSE list[k].eep_rev
    BY <2>4, <2>5, <1>G, <1>2, <1>3 DEF Learnt
  <2>7. CASE s < Len(list) /\ at'.proc = "rev" /\ at'.s = s + 1
    BY <2>7, <2>1, <2>2, <2>3, <2>6, <1>G, <1>0 DEF Learnt, Given, ManRead, IdRead, RevRead, Linked, Placed, Taking
  <2>8. CASE s = Len(list) /\ at'.proc = "rxmbx" /\ at'.s = 1
    BY <2>8, <2>1, <2>2, <2>3, <2>6, <1>G, <1>0 DEF Learnt, Given, ManRead, IdRead, RevRead, Linked, Placed, Taking
  <2> QED
    BY <2>1, <2>2, <2>7, <2>8 DEF Taking
<1> QED
  BY <1>6, <1>7, <1>8

\* one entry of the list is written
LEMMA OneKept ==
  ASSUME NEW s \in DOMAIN list, NEW e, SameEntry(e, list[s]), list' = [list EXCEPT ![s] = e]
  PROVE  ListKept
  BY DEF ListKept, SameEntry, SameIds

\* the EEPROM of a slave is handed to its application, and something else is written
LEMMA PdiKept ==
  ASSUME \A k \in DOMAIN list : IsEntry(list[k]), NEW s \in DOMAIN list, NEW sm,
         list' = ecx_eeprom2pdi([list EXCEPT ![s].SM = sm], s)
  PROVE  ListKept
<1> DEFINE l1 == [list EXCEPT ![s].SM = sm]
<1>1. DOMAIN l1 = DOMAIN list /\ \A k \in DOMAIN list : SameEntry(l1[k], list[k]) /\ IsEntry(l1[k])
  BY DEF SameEntry, SameIds, IsEntry, Held
<1>2. ASSUME NEW on PROVE SameEntry([l1[s] EXCEPT !.eep_pdi = on], l1[s])
  BY <1>1 DEF SameEntry, SameIds, IsEntry, Held
<1>3. \E on : list' = [l1 EXCEPT ![s] = [l1[s] EXCEPT !.eep_pdi = on]]
  BY DEF ecx_eeprom2pdi
<1>4. PICK e : list' = [l1 EXCEPT ![s] = e] /\ SameEntry(e, l1[s])
  BY <1>2, <1>3
<1> HIDE DEF l1
<1>5. DOMAIN list' = DOMAIN list /\ \A k \in DOMAIN list : list'[k] = IF k = s THEN e ELSE l1[k]
  BY <1>1, <1>4
<1> QED
  BY <1>1, <1>4, <1>5 DEF ListKept, SameEntry, SameIds

\* The bus is left alone but for what does not matter here.
\* the place each step of ecx_config_init starts from
LEMMA Stages ==
  /\ ecx_detect_slaves => at.proc = "detect"
  /\ ecx_set_slaves_to_default => at.proc = "defaults"
  /\ \A s \in Slaves : Address(s) => at.proc = "address"
  /\ (TakeManuf => at.proc = "manuf") /\ (TakeId => at.proc = "id") /\ (TakeRev => at.proc = "rev")
  /\ (TakeRxMailbox => at.proc = "rxmbx") /\ (TakeLinks => at.proc = "links") /\ (TakeMailbox => at.proc = "mailbox")
  /\ \A s \in Slaves : (CopySii(s) => at.proc = "sii") /\ (ReadSii(s) => at.proc = "sii")
  /\ \A s \in Slaves : Program(s) => at.proc = "sm01"
<1>1. ecx_detect_slaves => at.proc = "detect"
  BY DEF ecx_detect_slaves
<1>2. ecx_set_slaves_to_default => at.proc = "defaults"
  BY DEF ecx_set_slaves_to_default
<1>3. ASSUME NEW s \in Slaves, Address(s) PROVE at.proc = "address"
  BY <1>3 DEF Address
<1>4. TakeManuf => at.proc = "manuf"
  BY DEF TakeManuf
<1>5. TakeId => at.proc = "id"
  BY DEF TakeId
<1>6. TakeRev => at.proc = "rev"
  BY DEF TakeRev
<1>7. TakeRxMailbox => at.proc = "rxmbx"
  BY DEF TakeRxMailbox
<1>8. TakeLinks => at.proc = "links"
  BY DEF TakeLinks
<1>9. TakeMailbox => at.proc = "mailbox"
  BY DEF TakeMailbox
<1>10. ASSUME NEW s \in Slaves, CopySii(s) PROVE at.proc = "sii"
  BY <1>10 DEF CopySii
<1>11. ASSUME NEW s \in Slaves, ReadSii(s) PROVE at.proc = "sii"
  BY <1>11 DEF ReadSii
<1>12. ASSUME NEW s \in Slaves, Program(s) PROVE at.proc = "sm01"
  BY <1>12 DEF Program
<1> QED
  BY <1>1, <1>2, <1>3, <1>4, <1>5, <1>6, <1>7, <1>8, <1>9, <1>10, <1>11, <1>12

AdrsKept(b) == \A k \in Devices : b[k].adr = bus[k].adr /\ b[k].fmmu = bus[k].fmmu

LEMMA ReadStartKept ==
  ASSUME Devs, NEW s, NEW word \in EepWords
  PROVE  AdrsKept(StartWord(bus, s, word))
<1>1. StartWord(bus, s, word) = [k \in Devices |-> IF k \in Reached(s) THEN EepCommand(bus[k], word) ELSE bus[k]]
  BY DEF StartWord, Wrote, Devices
<1>2. ASSUME NEW k \in Devices
      PROVE  LET r == EepCommand(bus[k], word) IN r.adr = bus[k].adr /\ r.fmmu = bus[k].fmmu
  BY Commands DEF Devs
<1> QED
  BY <1>1, <1>2 DEF AdrsKept

\* The stage in which a slave gets its parent.
LEMMA LinksConfigured ==
  ASSUME Flow, Devs, Configured, Counted, UNCHANGED inOP, TakeLinks
  PROVE  Configured'
<1> DEFINE s == at.s
           w == plan.wires
           n == Len(list)
<1>1. at.proc = "links" /\ UNCHANGED plan /\ ~inOP
  BY DEF TakeLinks, Untroubled, Flow, CheckProcs
<1>2. Slaves = Devices /\ Slaves = 1 .. n /\ n \in Nat /\ s \in Slaves /\ DOMAIN list = Slaves
  <2>1. Slaves = Devices /\ Slaves = 1 .. Len(list) /\ Len(list) \in Nat
    BY <1>1, AllThere DEF Whole
  <2>2. at.s \in Int /\ at.s >= 1 /\ Len(list) > 0
    BY Sizes DEF Flow, Places
  <2> QED
    BY <2>1, <2>2 DEF Flow, Slaves
<1>3. \A k \in Slaves : Learnt(k) /\ Given(k) /\ k \in Int
  BY <1>1, <1>2 DEF Configured
<1>4. Reached(s) = {s} /\ Max(Reached(s)) = s
  BY <1>1, <1>2, <1>3, ReachedIs, MaxOfOne
<1>5. DOMAIN w = 1 .. n /\ IsTree(w)
  BY <1>2, TreeAssumption, PlanAssumption DEF Devs, Devices
<1> DEFINE count == Cardinality(UsedPorts(w, s))
           links == [c \in 1 .. s |-> IF c = s THEN count ELSE list[c].topology]
           par   == ParentOf(links, s)
           me    == list[s]
<1>6. par = w[s].parent
  <2>1. ASSUME NEW c \in 1 .. s - 1 PROVE links[c] = Cardinality(UsedPorts(w, c))
    <3>1. c \in Slaves /\ c < s /\ s \in Int
      BY <1>2, <1>3
    <3>2. Hung(c)
      BY <3>1, <1>1, <1>3 DEF Learnt, Linked
    <3>3. c \in 1 .. s /\ c # s
      BY <3>1
    <3> QED
      BY <3>2, <3>3 DEF Hung
  <2> HIDE DEF links, w, n, s
  <2> QED
    BY <2>1, <1>2, <1>5, ParentIs
<1>7. \E e : /\ list' = [list EXCEPT ![s] = e]
             /\ IsEntry(e) /\ e.configadr = me.configadr /\ e.eep_man = me.eep_man /\ e.eep_id = me.eep_id
             /\ e.eep_rev = me.eep_rev /\ e.FMMUunused = me.FMMUunused
             /\ e.topology = count /\ e.parent = par
  <2>1. PICK rl, sm, dc, open :
           \/ list' = [list EXCEPT ![s] = [me EXCEPT !.hasdc = dc, !.topology = count, !.activeports = open, !.parent = par]]
           \/ list' = [list EXCEPT ![s] = [[me EXCEPT !.mbx_rl = rl, !.SM[1] = sm]
                                              EXCEPT !.hasdc = dc, !.topology = count, !.activeports = open, !.parent = par]]
    BY <1>4 DEF TakeLinks
  <2> HIDE DEF count, par
  <2>2. IsEntry(me)
    BY <1>2, <1>3 DEF Learnt
  <2> HIDE DEF me
  <2> DEFINE Kept1(e) == /\ IsEntry(e) /\ e.configadr = me.configadr /\ e.eep_man = me.eep_man /\ e.eep_id = me.eep_id
                         /\ e.eep_rev = me.eep_rev /\ e.FMMUunused = me.FMMUunused
             Hang(e)  == [e EXCEPT !.hasdc = dc, !.topology = count, !.activeports = open, !.parent = par]
             mail     == [me EXCEPT !.mbx_rl = rl, !.SM[1] = sm]
  <2>3. Kept1(me) /\ Kept1(mail)
    BY <2>2 DEF IsEntry, Held
  <2>4. ASSUME NEW e, Kept1(e) PROVE Kept1(Hang(e)) /\ Hang(e).topology = count /\ Hang(e).parent = par
    BY <2>4 DEF IsEntry, Held
  <2>5. list' = [list EXCEPT ![s] = Hang(me)] \/ list' = [list EXCEPT ![s] = Hang(mail)]
    BY <2>1
  <2> HIDE DEF Hang, mail
  <2>6. CASE list' = [list EXCEPT ![s] = Hang(me)]
    BY <2>3, <2>4, <2>6
  <2>7. CASE list' = [list EXCEPT ![s] = Hang(mail)]
    BY <2>3, <2>4, <2>7
  <2> QED
    BY <2>5, <2>6, <2>7
<1>8. PICK e : /\ list' = [list EXCEPT ![s] = e]
               /\ IsEntry(e) /\ e.configadr = me.configadr /\ e.eep_man = me.eep_man /\ e.eep_id = me.eep_id
               /\ e.eep_rev = me.eep_rev /\ e.FMMUunused = me.FMMUunused
               /\ e.topology = count /\ e.parent = par
  BY <1>7
<1>9. AdrsKept(bus')
  <2>1. bus' \in {bus, StartWord(bus, s, ECT_SII_MBXPROTO)} /\ ECT_SII_MBXPROTO \in EepWords
    BY DEF TakeLinks, EepWords
  <2> QED
    BY <2>1, ReadStartKept DEF AdrsKept
<1>10. at'.proc = "mailbox" /\ at'.s = s
  BY DEF TakeLinks, GoOn, Flow, Places
<1> HIDE DEF par, links
<1>11. Slaves' = Slaves
  BY <1>8, <1>2 DEF Slaves
<1> SUFFICES ASSUME NEW k \in Slaves PROVE Learnt(k)' /\ Given(k)'
  BY <1>11 DEF Configured
<1>12. list'[k] = IF k = s THEN e ELSE list[k]
  BY <1>8, <1>2
<1>13. Hung(k)' \/ k > s
  <2>1. CASE k = s
    BY <2>1, <1>1, <1>6, <1>8, <1>12 DEF Hung
  <2>2. CASE k < s
    BY <2>2, <1>1, <1>3, <1>12 DEF Hung, Learnt, Linked
  <2> QED
    BY <2>1, <2>2, <1>2, <1>3
<1> HIDE DEF count, w
<1>14. Learnt(k)'
  <2>1. Linked(k)' => Hung(k)'
    BY <1>2, <1>3, <1>10, <1>13 DEF Linked
  <2>2. Learnt(k) /\ IsEntry(list'[k]) /\ list'[k].eep_man = list[k].eep_man /\ list'[k].eep_id = list[k].eep_id
        /\ list'[k].eep_rev = list[k].eep_rev
    BY <1>3, <1>8, <1>12 DEF Learnt
  <2> QED
    BY <2>1, <2>2, <1>1, <1>10 DEF Learnt, ManRead, IdRead, RevRead
<1>15. Given(k)'
  <2>1. Given(k) /\ list'[k].configadr = list[k].configadr /\ list'[k].FMMUunused = list[k].FMMUunused
        /\ bus'[k].adr = bus[k].adr /\ bus'[k].fmmu = bus[k].fmmu
    BY <1>2, <1>3, <1>8, <1>9, <1>12 DEF AdrsKept
  <2> QED
    BY <2>1, <1>1, <1>10 DEF Given, Placed
<1> QED
  BY <1>14, <1>15

\* The other stages after the words of identity.
LEMMA RestOfInitConfigured ==
  ASSUME Flow, Devs, Configured, Counted, UNCHANGED inOP,
         \/ TakeRxMailbox \/ TakeMailbox
         \/ \E s \in Slaves : CopySii(s) \/ ReadSii(s) \/ Program(s)
  PROVE  Configured'
<1>1. at.proc \in {"rxmbx", "links", "mailbox", "sii", "sm01"} /\ UNCHANGED plan
  <2>1. at.proc \in {"rxmbx", "links", "mailbox", "sii", "sm01"}
    BY Stages
  <2>2. (TakeRxMailbox => UNCHANGED plan) /\ (TakeMailbox => UNCHANGED plan)
    BY DEF TakeRxMailbox, TakeMailbox, Took, Untroubled
  <2>3. ASSUME NEW s \in Slaves, CopySii(s) \/ ReadSii(s) \/ Program(s) PROVE UNCHANGED plan
    <3>1. CASE CopySii(s)
      BY <3>1 DEF CopySii, Untroubled
    <3>2. CASE ReadSii(s)
      BY <3>2 DEF ReadSii, Untroubled
    <3>3. CASE Program(s)
      BY <3>3 DEF Program, Untroubled
    <3> QED
      BY <2>3, <3>1, <3>2, <3>3
  <2> QED
    BY <2>1, <2>2, <2>3
<1>2. ~inOP /\ at.proc \notin Reading5 /\ inOP \in BOOLEAN
  BY <1>1 DEF Flow, CheckProcs, Reading5
<1>3. Slaves = Devices /\ Slaves = 1 .. Len(list) /\ Len(list) \in Nat /\ at.s \in Slaves /\ DOMAIN list = Slaves
  <2>1. Slaves = Devices /\ Slaves = 1 .. Len(list) /\ Len(list) \in Nat
    BY <1>2, AllThere DEF Whole
  <2>2. at.s \in Int /\ at.s >= 1 /\ Len(list) > 0
    BY Sizes DEF Flow, Places
  <2> QED
    BY <2>1, <2>2 DEF Flow, Slaves
<1>4. \A k \in Slaves : IsEntry(list[k]) /\ IsDevice(bus[k])
  BY <1>3 DEF Configured, Learnt, Devs
<1>5. at'.proc \notin Reading5 /\ \A k \in Slaves : Linked(k)' => Linked(k)
  <2> SUFFICES ASSUME NEW k \in Slaves PROVE at'.proc \notin Reading5 /\ (Linked(k)' => Linked(k))
    BY <1>3
  <2>1. DOMAIN at = {"proc", "s", "pc"} /\ k \in Int /\ k >= 1 /\ k <= Len(list) /\ at.s \in Int
    BY <1>3 DEF Flow, Places
  <2>2. ASSUME NEW p, NEW i, GoOn(p, i) PROVE at'.proc = p /\ at'.s = i
    BY <2>1, <2>2 DEF GoOn
  <2>3. CASE TakeRxMailbox
    <3>1. at.proc = "rxmbx" /\ Onward("links")
      BY <2>3 DEF TakeRxMailbox, Took
    <3>2. at'.proc = "rxmbx" \/ (at'.proc = "links" /\ at'.s = 1)
      BY <3>1, <1>3, OnwardIs
    <3> QED
      BY <2>1, <3>2 DEF Linked, Reading5
  <2>4. CASE TakeMailbox
    <3>1. at.proc = "mailbox" /\ GoOn("sii", at.s)
      BY <2>4 DEF TakeMailbox
    <3>2. at'.proc = "sii" /\ at'.s = at.s
      BY <3>1, <2>2
    <3> QED
      BY <3>1, <3>2 DEF Linked, Reading5
  <2>5. ASSUME NEW s \in Slaves, CopySii(s) \/ ReadSii(s) PROVE at'.proc \notin Reading5 /\ (Linked(k)' => Linked(k))
    <3>1. at.proc = "sii" /\ at.s = s /\ GoOn("sm01", s)
      BY <2>5 DEF CopySii, ReadSii
    <3>2. at'.proc = "sm01" /\ at'.s = at.s
      BY <3>1, <2>2
    <3> QED
      BY <3>1, <3>2 DEF Linked, Reading5
  <2>6. ASSUME NEW s \in Slaves, Program(s) PROVE at'.proc \notin Reading5 /\ (Linked(k)' => Linked(k))
    <3>1. at.proc = "sm01" /\ at.s = s /\ IF s < Len(list) THEN GoOn("links", s + 1) ELSE GoOn(Return, 1)
      BY <2>6 DEF Program, Go
    <3>2. CASE s < Len(list)
      <4>1. at'.proc = "links" /\ at'.s = s + 1
        BY <3>1, <3>2, <2>2
      <4> QED
        BY <3>1, <4>1, <2>1 DEF Linked, Reading5
    <3>3. CASE ~(s < Len(list))
      <4>1. at'.proc = Return /\ k <= at.s
        BY <3>1, <3>3, <2>1, <2>2
      <4> QED
        BY <3>1, <4>1 DEF Linked, Reading5, Return
    <3> QED
      BY <3>2, <3>3
  <2> QED
    BY <2>3, <2>4, <2>5, <2>6
<1>S. ASSUME NEW s \in Slaves, NEW word \in EepWords PROVE AdrsKept(StartWord(bus, s, word))
  BY ReadStartKept
<1>B. AdrsKept(bus) /\ ECT_SII_TXMBXADR \in EepWords /\ ECT_SII_MBXPROTO \in EepWords
  BY DEF AdrsKept, EepWords
<1>6. ListKept /\ AdrsKept(bus')
  <2>1. CASE TakeRxMailbox
    <3>1. \E e : SameEntry(e, list[at.s]) /\ list' = [list EXCEPT ![at.s] = e]
      <4> DEFINE word == TakeWord(at.s)
                 e == [list[at.s] EXCEPT !.mbx_l = High(word), !.SM[0] = IF High(word) > 0 THEN Low(word) ELSE 0]
      <4>1. list' = [list EXCEPT ![at.s] = e]
        BY <2>1 DEF TakeRxMailbox, Took
      <4>2. SameEntry(e, list[at.s])
        BY <1>3, <1>4 DEF SameEntry, SameIds, IsEntry, Held
      <4> HIDE DEF e
      <4> QED
        BY <4>1, <4>2
    <3>2. bus' \in {bus, StartWord(bus, at.s, ECT_SII_TXMBXADR)}
      BY <2>1 DEF TakeRxMailbox, Took
    <3> QED
      BY <3>1, <3>2, <1>3, <1>S, <1>B, OneKept
  <2>3. CASE TakeMailbox
    <3>1. PICK st, ty, pr : list' = [list EXCEPT ![at.s].state = st, ![at.s].SMtype = ty, ![at.s].mbx_proto = pr]
      BY <2>3 DEF TakeMailbox
    <3>2. ListKept
      BY <3>1, <1>3, <1>4 DEF ListKept, SameEntry, SameIds, IsEntry, Held
    <3> QED
      BY <2>3, <3>2, <1>B DEF TakeMailbox
  <2>4. ASSUME NEW s \in Slaves, CopySii(s) PROVE ListKept /\ AdrsKept(bus')
    <3>1. PICK i : list' = [list EXCEPT ![s].CoEdetails = list[i].CoEdetails, ![s].blockLRW = list[i].blockLRW,
                              ![s].name = list[i].name, ![s].SM = list[i].SM, ![s].func = list[i].func]
      BY <2>4 DEF CopySii
    <3>2. ListKept
      BY <3>1, <1>3, <1>4 DEF ListKept, SameEntry, SameIds, IsEntry, Held
    <3> QED
      BY <2>4, <3>2, <1>B DEF CopySii
  <2>5. ASSUME NEW s \in Slaves, ReadSii(s) PROVE ListKept /\ AdrsKept(bus')
    <3>1. \E v : list' = [list EXCEPT ![s] = FromSii(list[s], v)]
      BY <2>5 DEF ReadSii
    <3>2. ListKept
      BY <3>1, <1>3, <1>4, SiiKeepsEntry, OneKept
    <3> QED
      BY <2>5, <3>2, <1>B DEF ReadSii
  <2>6. ASSUME NEW s \in Slaves, Program(s) PROVE ListKept /\ AdrsKept(bus')
    <3> DEFINE sm == IF list[s].mbx_l = 0 THEN list[s].SM
                     ELSE [list[s].SM EXCEPT ![0] = IF @ = 0 THEN 4096 ELSE @, ![1] = IF @ = 0 THEN 4224 ELSE @]
               b1 == IF list[s].mbx_l = 0 THEN bus
                     ELSE Calmly(bus, Reached(s), LAMBDA d : [d EXCEPT !.sm = [@ EXCEPT ![0] = sm[0], ![1] = sm[1]]])
               b2 == ToPdi(b1, s, "arrives")
    <3>1. list' = ecx_eeprom2pdi([list EXCEPT ![s].SM = sm], s)
          /\ bus' = Calmly(b2, Reached(s), LAMBDA d : AlRequest(d, EC_STATE_PRE_OP, TRUE))
      BY <2>6 DEF Program
    <3> HIDE DEF sm
    <3>2. ListKept
      <4>1. \E m : list' = ecx_eeprom2pdi([list EXCEPT ![s].SM = m], s)
        BY <3>1
      <4>2. \A k \in DOMAIN list : IsEntry(list[k])
        BY <1>3, <1>4
      <4> QED
        BY <4>1, <4>2, <1>3, PdiKept
    <3>3. DOMAIN b1 = Devices /\ \A k \in Devices : Still(b1[k], bus[k]) /\ b1[k].adr = bus[k].adr /\ b1[k].fmmu = bus[k].fmmu
      <4>1. ASSUME NEW k \in Devices, NEW m
            PROVE  LET d == [bus[k] EXCEPT !.sm = m] IN Still(d, bus[k]) /\ d.adr = bus[k].adr /\ d.fmmu = bus[k].fmmu
        BY StillSame DEF Still, IsDevice, Fields
      <4>2. DOMAIN b1 = Devices /\ \A k \in Devices : b1[k] = bus[k] \/ \E m : b1[k] = [bus[k] EXCEPT !.sm = m]
        BY DEF Calmly, Wrote, Devices
      <4> HIDE DEF b1
      <4>3. ASSUME NEW k \in Devices, NEW m, b1[k] = [bus[k] EXCEPT !.sm = m]
            PROVE  Still(b1[k], bus[k]) /\ b1[k].adr = bus[k].adr /\ b1[k].fmmu = bus[k].fmmu
        BY <4>1, <4>3
      <4> QED
        BY <4>2, <4>3, StillSame
    <3> HIDE DEF b1
    <3>4. DOMAIN b2 = Devices /\ \A k \in Devices : Still(b2[k], bus[k]) /\ b2[k].adr = bus[k].adr /\ b2[k].fmmu = bus[k].fmmu
      BY <3>3 DEF ToPdi, Wrote, Devices, Still, IsDevice, Fields
    <3> HIDE DEF b2
    <3>5. \A k \in Devices : bus'[k] \in {b2[k], AlRequest(b2[k], EC_STATE_PRE_OP, TRUE)}
      <4>1. bus' = [k \in Devices |-> IF k \in Reached(s) THEN AlRequest(b2[k], EC_STATE_PRE_OP, TRUE) ELSE b2[k]]
        BY <3>1, <3>4 DEF Calmly, Wrote
      <4> QED
        BY <4>1
    <3>6. ASSUME NEW k \in Devices
          PROVE  LET r == AlRequest(b2[k], EC_STATE_PRE_OP, TRUE) IN r.adr = b2[k].adr /\ r.fmmu = b2[k].fmmu
      <4>1. IsDevice(b2[k]) /\ EC_STATE_PRE_OP \in AlStates
        BY <3>4 DEF Still, AlStates
      <4>2. ASSUME NEW d, IsDevice(d) PROVE LET r == AlRequest(d, EC_STATE_PRE_OP, TRUE) IN r.adr = d.adr /\ r.fmmu = d.fmmu
        BY <4>1, <4>2, Requests
      <4> QED
        BY <4>1, <4>2
    <3> QED
      BY <3>2, <3>4, <3>5, <3>6 DEF AdrsKept
  <2> QED
    BY <2>1, <2>3, <2>4, <2>5, <2>6
<1> QED
  BY <1>1, <1>2, <1>3, <1>5, <1>6, LaterKept DEF AdrsKept

\* ec_config_map and ec_configdc: the FMMUs of a slave are those the list counts.
LEMMA MapConfigured ==
  ASSUME Flow, Devs, Configured, Counted, ecx_config_map, UNCHANGED inOP
  PROVE  Configured'
<1>0. PICK s \in Slaves : MapCoe(s) \/ MapSii(s) \/ MapFmmus(s) \/ ConfigDc(s)
  BY DEF ecx_config_map
<1>1. at.proc \in {"coe", "map", "fmmu", "dc"} /\ UNCHANGED plan
  BY <1>0 DEF MapCoe, MapSii, MapFmmus, ConfigDc, Untroubled
<1>2. ~inOP /\ at.proc \notin Reading5 /\ inOP \in BOOLEAN
  BY <1>1 DEF Flow, CheckProcs, Reading5
<1>3. Slaves = Devices /\ Slaves = 1 .. Len(list) /\ Len(list) \in Nat /\ DOMAIN list = Slaves
  BY <1>2, AllThere DEF Whole, Slaves
<1>4. \A k \in Slaves : IsEntry(list[k]) /\ IsDevice(bus[k])
  BY <1>3 DEF Configured, Learnt, Devs
<1>5. at'.proc \notin Reading5
  <2>1. DOMAIN at = {"proc", "s", "pc"}
    BY DEF Flow, Places
  <2>2. \E p \in {"coe", "map", "fmmu", "dc", Return} : \E i : GoOn(p, i)
    BY <1>0, <1>1 DEF MapCoe, MapSii, MapFmmus, ConfigDc, Onward, Go
  <2> QED
    BY <2>1, <2>2 DEF GoOn, Reading5, Return
<1>B. AdrsKept(bus)
  BY DEF AdrsKept
<1>K. \A k \in Slaves : Linked(k)
  BY <1>1 DEF Linked
<1>L. ASSUME ListKept, AdrsKept(bus') PROVE Configured'
  BY <1>L, <1>1, <1>2, <1>3, <1>5, <1>K, LaterKept DEF AdrsKept
<1>6. CASE MapCoe(s)
  <2>1. \E st, od : list' = [list EXCEPT ![s] = BySoE(ByCoE([list[s] EXCEPT !.state = st], od), od)]
    BY <1>6 DEF MapCoe
  <2>2. PICK st, od : list' = [list EXCEPT ![s] = BySoE(ByCoE([list[s] EXCEPT !.state = st], od), od)]
    BY <2>1
  <2> DEFINE me == [list[s] EXCEPT !.state = st]
             e  == BySoE(ByCoE(me, od), od)
  <2>3. IsEntry(me) /\ SameEntry(me, list[s])
    BY <1>4 DEF SameEntry, SameIds, IsEntry, Held
  <2>4. list' = [list EXCEPT ![s] = e]
    BY <2>2
  <2> HIDE DEF me
  <2>5. SameEntry(e, me)
    BY <2>3, MapsKeepEntry
  <2> HIDE DEF e
  <2>6. SameEntry(e, list[s])
    BY <2>3, <2>5 DEF SameEntry, SameIds
  <2>7. ListKept
    BY <2>4, <2>6, <1>3, OneKept
  <2> QED
    BY <2>7, <1>6, <1>B, <1>L DEF MapCoe
<1>7. CASE MapSii(s)
  <2> DEFINE me   == Copied(s)
             done == IF NeedsMapping(me) THEN FromPdos(me, Bytes(s)) ELSE me
  <2>1. /\ list' = [list EXCEPT ![s] = done]
        /\ bus' = Calmly(bus, Reached(s),
                         LAMBDA d : [d EXCEPT !.sm = [n \in 0 .. 3 |-> IF Programmed(done)[n] # 0
                                                                       THEN Programmed(done)[n] ELSE @[n]]])
    BY <1>7 DEF MapSii
  <2>2. IsEntry(me) /\ SameEntry(me, list[s])
    <3>1. \/ me = list[s]
          \/ \E a, b, c, d : me = [list[s] EXCEPT !.SMlength = a, !.SMtype = b, !.Obits = c, !.Ibits = d]
      BY DEF Copied, MappingOf
    <3> HIDE DEF me
    <3>2. IsEntry(list[s])
      BY <1>4
    <3>3. CASE me = list[s]
      BY <3>2, <3>3 DEF SameEntry, SameIds
    <3>4. CASE me # list[s]
      <4>1. PICK a, b, c, d : me = [list[s] EXCEPT !.SMlength = a, !.SMtype = b, !.Obits = c, !.Ibits = d]
        BY <3>1, <3>4
      <4> DEFINE f == [list[s] EXCEPT !.SMlength = a, !.SMtype = b, !.Obits = c, !.Ibits = d]
      <4>2. IsEntry(f) /\ SameEntry(f, list[s])
        BY <3>2 DEF SameEntry, SameIds, IsEntry, Held
      <4>3. me = f
        BY <4>1
      <4> HIDE DEF f
      <4> QED
        BY <4>2, <4>3
    <3> QED
      BY <3>3, <3>4
  <2> HIDE DEF me
  <2>3. SameEntry(done, me)
    BY <2>2, SiiKeepsEntry DEF SameEntry, SameIds
  <2> HIDE DEF done
  <2>4. SameEntry(done, list[s])
    BY <2>2, <2>3 DEF SameEntry, SameIds
  <2>5. ListKept
    BY <2>1, <2>4, <1>3, OneKept
  <2>6. AdrsKept(bus')
    <3>1. ASSUME NEW k \in Devices, NEW m PROVE LET d == [bus[k] EXCEPT !.sm = m] IN d.adr = bus[k].adr /\ d.fmmu = bus[k].fmmu
      BY <1>3, <1>4 DEF IsDevice, Fields
    <3>2. \A k \in Devices : bus'[k] = bus[k] \/ \E m : bus'[k] = [bus[k] EXCEPT !.sm = m]
      BY <2>1 DEF Calmly, Wrote, Devices
    <3>3. ASSUME NEW k \in Devices, NEW m, bus'[k] = [bus[k] EXCEPT !.sm = m]
          PROVE  bus'[k].adr = bus[k].adr /\ bus'[k].fmmu = bus[k].fmmu
      BY <3>1, <3>3
    <3> QED
      BY <3>2, <3>3 DEF AdrsKept
  <2> QED
    BY <2>5, <2>6, <1>L
<1>8. CASE MapFmmus(s)
  <2> DEFINE n  == Fmmus(list[s])
             b1 == Calmly(bus, Reached(s), LAMBDA d : [d EXCEPT !.fmmu = n])
             b2 == ToPdi(b1, s, "arrives")
             l1 == [list EXCEPT ![s].FMMUunused = n]
  <2>1. /\ bus' = Calmly(b2, Reached(s), LAMBDA d : IF Manual THEN d ELSE AlRequest(d, EC_STATE_SAFE_OP, FALSE))
        /\ \E on : list' = [l1 EXCEPT ![s] = [l1[s] EXCEPT !.eep_pdi = on]]
    BY <1>8 DEF MapFmmus, ecx_eeprom2pdi
  <2> HIDE DEF n
  <2>2. Reached(s) = {s}
    BY <1>1, <1>2, ReachedIs DEF Reading5
  <2>3. ASSUME NEW k \in Devices
        PROVE  DOMAIN b1 = Devices /\ Still(b1[k], bus[k]) /\ b1[k].adr = bus[k].adr /\ b1[k].fmmu = IF k = s THEN n ELSE bus[k].fmmu
    <3>1. b1 = [j \in Devices |-> IF j = s THEN [bus[j] EXCEPT !.fmmu = n] ELSE bus[j]]
      BY <2>2 DEF Calmly, Wrote, Devices
    <3> HIDE DEF b1
    <3>2. IsDevice(bus[k])
      BY <1>3, <1>4
    <3>3. LET d == [bus[k] EXCEPT !.fmmu = n] IN Still(d, bus[k]) /\ d.adr = bus[k].adr /\ d.fmmu = n
      BY <3>2 DEF Still, IsDevice, Fields
    <3>4. DOMAIN b1 = Devices /\ b1[k] = IF k = s THEN [bus[k] EXCEPT !.fmmu = n] ELSE bus[k]
      BY <3>1
    <3> QED
      BY <3>3, <3>4, StillSame
  <2> HIDE DEF b1
  <2>4. DOMAIN b1 = Devices
    BY <2>3, <1>3
  <2>5. ASSUME NEW k \in Devices
        PROVE  DOMAIN b2 = Devices /\ Still(b2[k], b1[k]) /\ b2[k].adr = b1[k].adr /\ b2[k].fmmu = b1[k].fmmu
    <3>1. b2 = b1 \/ b2 = [j \in Devices |-> IF j \in Reached(s) THEN [b1[j] EXCEPT !.ctl = "pdi"] ELSE b1[j]]
      BY <2>4 DEF ToPdi, Wrote
    <3> HIDE DEF b2
    <3>2. IsDevice(b1[k])
      BY <2>3 DEF Still
    <3> QED
      BY <3>1, <3>2, <2>4 DEF Still, IsDevice, Fields
  <2> HIDE DEF b2
  <2>6. DOMAIN b2 = Devices
    BY <2>5, <1>3
  <2>7. ASSUME NEW k \in Devices PROVE bus'[k].adr = bus[k].adr /\ bus'[k].fmmu = IF k = s THEN n ELSE bus[k].fmmu
    <3>1. bus'[k] \in {b2[k], AlRequest(b2[k], EC_STATE_SAFE_OP, FALSE)}
      BY <2>1, <2>6 DEF Calmly, Wrote
    <3>2. LET r == AlRequest(b2[k], EC_STATE_SAFE_OP, FALSE) IN r.adr = b2[k].adr /\ r.fmmu = b2[k].fmmu
      <4>1. IsDevice(b2[k]) /\ EC_STATE_SAFE_OP \in AlStates
        BY <2>5, <2>3 DEF Still, AlStates
      <4>2. ASSUME NEW d, IsDevice(d) PROVE LET r == AlRequest(d, EC_STATE_SAFE_OP, FALSE) IN r.adr = d.adr /\ r.fmmu = d.fmmu
        BY <4>1, <4>2, Requests
      <4> QED
        BY <4>1, <4>2
    <3>3. bus'[k].adr = b2[k].adr /\ bus'[k].fmmu = b2[k].fmmu
      BY <3>1, <3>2
    <3>4. b2[k].adr = b1[k].adr /\ b2[k].fmmu = b1[k].fmmu
      BY <2>5
    <3>5. b1[k].adr = bus[k].adr /\ b1[k].fmmu = IF k = s THEN n ELSE bus[k].fmmu
      BY <2>3
    <3> QED
      BY <3>3, <3>4, <3>5
  <2>8. /\ DOMAIN list' = DOMAIN list
        /\ \A k \in Slaves : /\ IsEntry(list'[k]) /\ list'[k].configadr = list[k].configadr
                             /\ list'[k].eep_man = list[k].eep_man /\ list'[k].eep_id = list[k].eep_id
                             /\ list'[k].eep_rev = list[k].eep_rev
                             /\ list'[k].topology = list[k].topology /\ list'[k].parent = list[k].parent
                             /\ list'[k].FMMUunused = IF k = s THEN n ELSE list[k].FMMUunused
    <3> DEFINE Fits1(l) ==
          /\ DOMAIN l = DOMAIN list
          /\ \A k \in Slaves : /\ IsEntry(l[k]) /\ l[k].configadr = list[k].configadr
                               /\ l[k].eep_man = list[k].eep_man /\ l[k].eep_id = list[k].eep_id
                               /\ l[k].eep_rev = list[k].eep_rev
                               /\ l[k].topology = list[k].topology /\ l[k].parent = list[k].parent
                               /\ l[k].FMMUunused = IF k = s THEN n ELSE list[k].FMMUunused
    <3>1. Fits1(l1)
      BY <1>3, <1>4 DEF IsEntry, Held
    <3>2. ASSUME NEW on PROVE SameEntry([l1[s] EXCEPT !.eep_pdi = on], l1[s])
      BY <3>1 DEF SameEntry, SameIds, IsEntry, Held
    <3>3. PICK e : list' = [l1 EXCEPT ![s] = e] /\ SameEntry(e, l1[s])
      BY <2>1, <3>2
    <3> HIDE DEF l1
    <3>4. DOMAIN list' = DOMAIN list /\ \A k \in DOMAIN list : list'[k] = IF k = s THEN e ELSE l1[k]
      BY <3>1, <3>3
    <3> QED
      BY <1>3, <3>1, <3>3, <3>4 DEF SameEntry, SameIds, IsEntry
  <2> SUFFICES ASSUME NEW k \in Slaves PROVE Learnt(k)' /\ Given(k)'
    BY <2>8, <1>2 DEF Configured, Slaves
  <2>9. Learnt(k) /\ Given(k)
    BY <1>2 DEF Configured
  <2>10. Learnt(k)'
    BY <2>8, <2>9, <1>1, <1>2, <1>5 DEF Learnt, ManRead, IdRead, RevRead, Reading5, Hung, Linked
  <2>11. Given(k)'
    BY <2>7, <2>8, <2>9, <1>1, <1>2, <1>3, <1>5 DEF Given, Placed, Reading5
  <2> QED
    BY <2>10, <2>11
<1>9. CASE ConfigDc(s)
  <2>1. UNCHANGED bus /\ \E times : \/ list' = DcSlave(list, s, times) \/ list' = PlainSlave(list, s, hold).list
    BY <1>9 DEF ConfigDc
  <2>2. ListKept
    BY <2>1, <1>3, <1>4, ClockKeepsEntries
  <2> QED
    BY <2>1, <2>2, <1>B, <1>L
<1> QED
  BY <1>0, <1>6, <1>7, <1>8, <1>9

\* What the program asks of all slaves changes at most their states in the list.
LEMMA TestKeepsList ==
  ASSUME Flow, Devs, Configured, Counted, erob_test, ~CallConfigInit
  PROVE  ListKept
<1>0. DOMAIN list = Slaves /\ \A k \in Slaves : IsEntry(list[k])
  BY DEF Slaves, Configured, Learnt, Flow
<1>1. CASE UNCHANGED list
  BY <1>1 DEF ListKept, SameEntry, SameIds
<1>S. ASSUME NEW k \in Slaves, NEW st, NEW e, e = [list[k] EXCEPT !.state = st] PROVE SameEntry(e, list[k]) /\ IsEntry(e)
  BY <1>0, <1>S DEF SameEntry, SameIds, IsEntry, Held
<1>2. ASSUME NEW b, list' = ReadStates(b) PROVE ListKept
  <2>1. list' = [k \in Slaves |-> [list[k] EXCEPT !.state = StateOn(b, k)]]
    BY <1>2 DEF ReadStates
  <2>2. DOMAIN list' = DOMAIN list /\ \A k \in Slaves : SameEntry(list'[k], list[k])
    BY <2>1, <1>0, <1>S
  <2> QED
    BY <2>2, <1>0 DEF ListKept
<1>3. CASE PreOpEach
  <2> DEFINE seen == ReadStates(bus)
  <2>1. seen = [k \in Slaves |-> [list[k] EXCEPT !.state = StateOn(bus, k)]]
    BY DEF ReadStates
  <2>2. list' = [k \in Slaves |-> IF seen[k].state = EC_STATE_PRE_OP THEN seen[k]
                                  ELSE [seen[k] EXCEPT !.state = EC_STATE_INIT]]
    BY <1>3 DEF PreOpEach
  <2> HIDE DEF seen
  <2>3. \A k \in Slaves : SameEntry(seen[k], list[k]) /\ IsEntry(seen[k])
    BY <2>1, <1>S
  <2>4. ASSUME NEW k \in Slaves PROVE SameEntry([seen[k] EXCEPT !.state = EC_STATE_INIT], seen[k])
    BY <2>3 DEF SameEntry, SameIds, IsEntry, Held
  <2>5. DOMAIN list' = DOMAIN list /\ \A k \in Slaves : list'[k] \in {seen[k], [seen[k] EXCEPT !.state = EC_STATE_INIT]}
    BY <2>2, <1>0
  <2>6. ASSUME NEW k \in Slaves PROVE SameEntry(list'[k], list[k])
    <3>1. SameEntry(seen[k], list[k]) /\ SameEntry([seen[k] EXCEPT !.state = EC_STATE_INIT], seen[k])
      BY <2>3, <2>4
    <3>2. SameEntry([seen[k] EXCEPT !.state = EC_STATE_INIT], list[k])
      BY <3>1 DEF SameEntry, SameIds
    <3> QED
      BY <3>1, <3>2, <2>5
  <2> QED
    BY <2>5, <2>6, <1>0 DEF ListKept
<1>4. CASE CallConfigMap \/ CallConfigDc \/ PreOpAll \/ MapPdos \/ Assign \/ SetManual \/ Sync0
  BY <1>1, <1>2, <1>4 DEF CallConfigMap, CallConfigDc, PreOpAll, MapPdos, Assign, SetManual, Sync0
<1>5. CASE InPreOp \/ RequestSafeOp \/ RequestOp \/ Watch \/ Control
  BY <1>1, <1>2, <1>5 DEF InPreOp, RequestSafeOp, RequestOp, Request, Watch, Control
<1> QED
  BY <1>3, <1>4, <1>5 DEF erob_test

\* The program: what it asks of all slaves touches neither addresses nor FMMUs.
LEMMA TestConfigured ==
  ASSUME Flow, Devs, Configured, erob_test
  PROVE  Configured'
<1>S. Len(Script) \in Nat /\ Script[1] \in {"config_init", "tool"}
  BY PlanAssumption, Scripts DEF Devs, Script
<1>1. at.proc = Return /\ at.proc \notin Reading5 /\ inOP = FALSE
  BY DEF erob_test, CallConfigInit, CallConfigMap, CallConfigDc, PreOpEach, PreOpAll, MapPdos, Assign, SetManual, Sync0,
         InPreOp, RequestSafeOp, RequestOp, Request, Watch, Control, Does, Flow, CheckProcs, Return, Reading5
<1>2. ~CallConfigInit => at.pc > 1
  <2>1. ASSUME NEW i, i \notin {"config_init", "tool"}, Does(i) PROVE at.pc > 1
    BY <2>1, <1>S DEF Does, Flow, Places
  <2> QED
    BY <2>1 DEF erob_test, CallConfigMap, CallConfigDc, PreOpEach, PreOpAll, MapPdos, Assign, SetManual, Sync0,
                InPreOp, RequestSafeOp, RequestOp, Request, Watch, Control
<1>3. at'.proc \in {"detect", "stopped", "coe", "dc", "idle", "loop", Return}
  <2>1. DOMAIN at = {"proc", "s", "pc"}
    BY DEF Flow, Places
  <2>2. (\E p \in {"detect", "coe", "dc", "idle", "loop", Return} : GoTo(p)) \/ Go("stopped")
    BY DEF erob_test, CallConfigInit, CallConfigMap, CallConfigDc, PreOpEach, PreOpAll, MapPdos, Assign, SetManual, Sync0,
           InPreOp, RequestSafeOp, RequestOp, Request, Watch, Control, Continue, ContinueIf, Stop
  <2>3. ASSUME NEW p, GoTo(p) PROVE at'.proc = p
    BY <2>3 DEF GoTo
  <2>4. Go("stopped") => at'.proc = "stopped"
    BY <2>1 DEF Go, GoOn
  <2> QED
    BY <2>2, <2>3, <2>4
<1>4. at'.proc \notin Reading5
  BY <1>3 DEF Reading5, Return
<1>5. CASE CallConfigInit
  <2>1. at'.proc = "detect"
    BY <1>5 DEF CallConfigInit, GoTo
  <2> QED
    BY <2>1 DEF Configured, Counted
<1>6. CASE ~CallConfigInit
  <2>1. Counted
    BY <1>1, <1>2, <1>6 DEF Counted, Return
  <2>2. Slaves = Devices /\ DOMAIN list = Slaves /\ \A k \in Slaves : IsEntry(list[k]) /\ IsDevice(bus[k])
    <3>1. Slaves = Devices
      BY <2>1, <1>1, AllThere DEF Whole
    <3> QED
      BY <3>1, <2>1 DEF Slaves, Configured, Learnt, Devs
  <2>3. UNCHANGED plan /\ inOP' \in BOOLEAN
    BY <1>1 DEF erob_test, CallConfigInit, CallConfigMap, CallConfigDc, PreOpEach, PreOpAll, MapPdos, Assign, SetManual, Sync0,
           InPreOp, RequestSafeOp, RequestOp, Request, Watch, Control, Kept, Untroubled
  <2>4. ListKept
    BY <1>6, <2>1, TestKeepsList
  <2>5. AdrsKept(bus')
    <3>1. ASSUME NEW state \in AlStates, bus' = Broadcast(state) PROVE AdrsKept(bus')
      <4>1. bus' = [k \in Devices |-> IF k \in All THEN AlRequest(bus[k], state, FALSE) ELSE bus[k]]
        BY <3>1 DEF Broadcast, Calmly, Wrote, Devices
      <4>2. ASSUME NEW k \in Devices PROVE LET r == AlRequest(bus[k], state, FALSE) IN r.adr = bus[k].adr /\ r.fmmu = bus[k].fmmu
        <5>1. IsDevice(bus[k])
          BY <2>2
        <5>2. ASSUME NEW d, IsDevice(d) PROVE LET r == AlRequest(d, state, FALSE) IN r.adr = d.adr /\ r.fmmu = d.fmmu
          BY <5>2, Requests
        <5> QED
          BY <5>1, <5>2
      <4>3. ASSUME NEW k \in Devices PROVE bus'[k].adr = bus[k].adr /\ bus'[k].fmmu = bus[k].fmmu
        <5>1. bus'[k] \in {bus[k], AlRequest(bus[k], state, FALSE)}
          BY <4>1
        <5> QED
          BY <5>1, <4>2
      <4> QED
        BY <4>3 DEF AdrsKept
    <3>2. {EC_STATE_PRE_OP, EC_STATE_SAFE_OP, EC_STATE_OPERATIONAL} \subseteq AlStates
      BY DEF AlStates
    <3>3. CASE UNCHANGED bus
      BY <3>3 DEF AdrsKept
    <3>4. CASE PreOpEach \/ PreOpAll \/ RequestSafeOp \/ RequestOp
      <4>1. bus' \in {bus, Broadcast(EC_STATE_PRE_OP), Broadcast(EC_STATE_SAFE_OP), Broadcast(EC_STATE_OPERATIONAL)}
        BY <3>4 DEF PreOpEach, PreOpAll, RequestSafeOp, RequestOp, Request
      <4> QED
        BY <4>1, <3>1, <3>2, <3>3
    <3>5. CASE MapPdos \/ Assign
      <4>1. DOMAIN bus' = Devices /\ \A k \in Devices : bus'[k] = bus[k] \/ \E m : bus'[k] = [bus[k] EXCEPT !.map = m]
        BY <3>5 DEF MapPdos, Assign
      <4>2. ASSUME NEW k \in Devices, NEW m, bus'[k] = [bus[k] EXCEPT !.map = m]
            PROVE  bus'[k].adr = bus[k].adr /\ bus'[k].fmmu = bus[k].fmmu
        BY <4>2, <2>2 DEF IsDevice, Fields
      <4> QED
        BY <4>1, <4>2 DEF AdrsKept
    <3>6. CASE Sync0
      <4>1. DOMAIN bus' = Devices /\ \A k \in Devices : bus'[k] = bus[k] \/ \E m : bus'[k] = [bus[k] EXCEPT !.sync = m]
        BY <3>6 DEF Sync0
      <4>2. ASSUME NEW k \in Devices, NEW m, bus'[k] = [bus[k] EXCEPT !.sync = m]
            PROVE  bus'[k].adr = bus[k].adr /\ bus'[k].fmmu = bus[k].fmmu
        BY <4>2, <2>2 DEF IsDevice, Fields
      <4> QED
        BY <4>1, <4>2 DEF AdrsKept
    <3> QED
      BY <1>6, <3>3, <3>4, <3>5, <3>6 DEF erob_test, CallConfigMap, CallConfigDc, SetManual, InPreOp, Watch, Control
  <2>6. \A k \in Slaves : bus'[k].adr = bus[k].adr /\ bus'[k].fmmu = bus[k].fmmu
    BY <2>2, <2>5 DEF AdrsKept
  <2>7. \A k \in Slaves : Linked(k)
    BY <1>1 DEF Linked, Return
  <2> QED
    BY <2>1, <2>3, <2>4, <2>6, <2>7, <1>1, <1>4, LaterKept
<1> QED
  BY <1>5, <1>6

\* Once process data is exchanged nobody writes the identities any more.
LEMMA WatchedConfigured ==
  ASSUME Flow, Configured, Counted, inOP, at.proc \in CheckProcs, at'.proc \in CheckProcs, UNCHANGED <<plan, inOP>>,
         DOMAIN list' = DOMAIN list, \A s \in Slaves : SameIds(list'[s], list[s])
  PROVE  Configured'
<1>1. at.proc \notin Reading5 /\ at'.proc \notin Reading5
  BY DEF CheckProcs, Reading5
<1> SUFFICES ASSUME NEW k \in Slaves PROVE Learnt(k)'
  BY DEF Configured, Slaves
<1>2. Learnt(k) /\ SameIds(list'[k], list[k])
  BY DEF Configured
<1> QED
  BY <1>1, <1>2 DEF Learnt, ManRead, IdRead, RevRead, SameIds, IsEntry, Reading5, Linked, Hung, CheckProcs

-----------------------------------------------------------------------------
(***************************************************************************)
(* What ecatcheck does to the list.                                        *)
(***************************************************************************)
\* a list that differs from the one there is in what ecatcheck writes only
Akin(l) ==
  /\ DOMAIN l = Slaves
  /\ \A k \in Slaves : IsEntry(l[k]) /\ SameIds(l[k], list[k])

\* and only for the slave that is treated, whose address is c
AkinAt(l, c) ==
  /\ Akin(l) /\ \A k \in Slaves : k # at.s => l[k] = list[k]
  /\ at.s \in Slaves => l[at.s].configadr = c

LEMMA AkinEdits ==
  ASSUME NEW l, NEW c, AkinAt(l, c), at.s \in Slaves, NEW v
  PROVE  /\ AkinAt([l EXCEPT ![at.s].state = v], c) /\ AkinAt([l EXCEPT ![at.s].islost = v], c)
         /\ AkinAt([l EXCEPT ![at.s].eep_pdi = v], c) /\ AkinAt([l EXCEPT ![at.s].configadr = v], v)
<1>1. DOMAIN l = Slaves /\ IsEntry(l[at.s])
  BY DEF AkinAt, Akin
<1>2. ASSUME NEW e, NEW d, IsEntry(e), SameIds(e, l[at.s]), e.configadr = d PROVE AkinAt([l EXCEPT ![at.s] = e], d)
  BY <1>2 DEF AkinAt, Akin, SameIds
<1>3. ASSUME NEW e, IsEntry(e)
      PROVE  /\ IsEntry([e EXCEPT !.state = v]) /\ SameIds([e EXCEPT !.state = v], e) /\ [e EXCEPT !.state = v].configadr = e.configadr
             /\ IsEntry([e EXCEPT !.islost = v]) /\ SameIds([e EXCEPT !.islost = v], e) /\ [e EXCEPT !.islost = v].configadr = e.configadr
             /\ IsEntry([e EXCEPT !.eep_pdi = v]) /\ SameIds([e EXCEPT !.eep_pdi = v], e) /\ [e EXCEPT !.eep_pdi = v].configadr = e.configadr
             /\ IsEntry([e EXCEPT !.configadr = v]) /\ SameIds([e EXCEPT !.configadr = v], e) /\ [e EXCEPT !.configadr = v].configadr = v
  BY <1>3 DEF IsEntry, SameIds, Held
<1>4. l[at.s].configadr = c
  BY DEF AkinAt
<1> QED
  BY <1>1, <1>2, <1>3, <1>4

LEMMA AkinEdited ==
  ASSUME NEW l, NEW c, AkinAt(l, c), at.s \in Slaves, NEW m,
         \/ \E v : m = [l EXCEPT ![at.s].state = v]
         \/ \E v : m = [l EXCEPT ![at.s].islost = v]
         \/ \E v : m = [l EXCEPT ![at.s].eep_pdi = v]
  PROVE  AkinAt(m, c)
<1>1. CASE \E v : m = [l EXCEPT ![at.s].state = v]
  <2>1. PICK v : m = [l EXCEPT ![at.s].state = v]
    BY <1>1
  <2>2. AkinAt([l EXCEPT ![at.s].state = v], c)
    BY AkinEdits
  <2> QED
    BY <2>1, <2>2
<1>2. CASE \E v : m = [l EXCEPT ![at.s].islost = v]
  <2>1. PICK v : m = [l EXCEPT ![at.s].islost = v]
    BY <1>2
  <2>2. AkinAt([l EXCEPT ![at.s].islost = v], c)
    BY AkinEdits
  <2> QED
    BY <2>1, <2>2
<1>3. CASE \E v : m = [l EXCEPT ![at.s].eep_pdi = v]
  <2>1. PICK v : m = [l EXCEPT ![at.s].eep_pdi = v]
    BY <1>3
  <2>2. AkinAt([l EXCEPT ![at.s].eep_pdi = v], c)
    BY AkinEdits
  <2> QED
    BY <2>1, <2>2
<1> QED
  BY <1>1, <1>2, <1>3

LEMMA AkinNow ==
  ASSUME Configured, Counted
  PROVE  Akin(list) /\ (at.s \in Slaves => AkinAt(list, list[at.s].configadr))
  BY DEF AkinAt, Akin, Configured, Learnt, SameIds, Slaves

\* the reads of ecx_readstate
LEMMA ListRead ==
  ASSUME Configured, Counted, ecx_readstate
  PROVE  /\ Akin(list') /\ \A k \in Slaves : list'[k].configadr = list[k].configadr
<1>1. list' = list \/ (DOMAIN list' = Slaves /\ \A k \in Slaves : \E v : list'[k] = [list[k] EXCEPT !.state = v])
  <2>1. ASSUME NEW fate, ReadEach(fate)
        PROVE  DOMAIN list' = Slaves /\ \A k \in Slaves : \E v : list'[k] = [list[k] EXCEPT !.state = v]
    BY <2>1 DEF ReadEach
  <2>2. ASSUME NEW fate, ReadAll(fate)
        PROVE  list' = list \/ (DOMAIN list' = Slaves /\ \A k \in Slaves : \E v : list'[k] = [list[k] EXCEPT !.state = v])
    <3>1. list' = list \/ \E c : list' = [s \in Slaves |-> [list[s] EXCEPT !.state = c]]
      BY <2>2 DEF ReadAll
    <3>2. ASSUME NEW c, list' = [s \in Slaves |-> [list[s] EXCEPT !.state = c]]
          PROVE  DOMAIN list' = Slaves /\ \A k \in Slaves : \E v : list'[k] = [list[k] EXCEPT !.state = v]
      BY <3>2
    <3> QED
      BY <3>1, <3>2
  <2> QED
    BY <2>1, <2>2 DEF ecx_readstate
<1>2. \A k \in Slaves : IsEntry(list[k])
  BY DEF Configured, Learnt
<1>3. CASE list' = list
  BY <1>2, <1>3 DEF Akin, SameIds, Slaves
<1>4. CASE DOMAIN list' = Slaves /\ \A k \in Slaves : \E v : list'[k] = [list[k] EXCEPT !.state = v]
  <2>1. ASSUME NEW k \in Slaves, NEW v, list'[k] = [list[k] EXCEPT !.state = v]
        PROVE  IsEntry(list'[k]) /\ SameIds(list'[k], list[k]) /\ list'[k].configadr = list[k].configadr
    BY <2>1, <1>2 DEF IsEntry, SameIds, Held
  <2> QED
    BY <1>4, <2>1 DEF Akin
<1> QED
  BY <1>1, <1>3, <1>4

LEMMA TreatedSlave ==
  ASSUME Flow, Devs, at.proc \in CheckProcs
  PROVE  /\ inOP /\ Counted /\ at.s \in Slaves /\ Slaves = 1 .. Len(list) /\ Len(list) \in Nat /\ Devices = Slaves
         /\ DOMAIN plan.kinds = Slaves /\ DOMAIN bus = Slaves /\ DOMAIN list = Slaves /\ at.s \in Int
<1>1. inOP /\ Counted
  BY DEF Flow, Counted, CheckProcs, Return
<1>2. at.s \in Int /\ at.s >= 1 /\ Len(list) > 0 /\ (at.s = 1 \/ at.s <= Len(list)) /\ Len(list) \in Nat
      /\ DOMAIN list = 1 .. Len(list) /\ Len(list) = Len(plan.kinds)
  BY <1>1, Sizes DEF Flow, Places
<1>3. DOMAIN plan.kinds = 1 .. Len(plan.kinds) /\ DOMAIN bus = DOMAIN plan.kinds
  BY PlanAssumption DEF Devs
<1> QED
  BY <1>1, <1>2, <1>3 DEF Slaves, Devices

LEMMA ListTreated ==
  ASSUME Flow, Devs, Configured, ecatcheck, ~ecx_readstate
  PROVE  \E c : /\ AkinAt(list', c)
                /\ c = CASE at.proc \in {"restore", "refuse"} -> at.s
                         [] at.proc = "temp" /\ at'.proc = "alias" -> Temp
                         [] OTHER -> list[at.s].configadr
<1>0. at.proc \in CheckProcs
  BY DEF ecatcheck, StartCheck, LookOperational, LookElse, LookLost, LookError,
         LookSafeOp, Recheck, ecx_reconfig_slave, ReconfigInit, ReconfigPdi, ReconfigSm, ReconfigPreOp,
         ReconfigSafeOp, ReconfigFmmu, ecx_recover_slave, Probe, ClearTemp, CheckAlias, GiveTemp, LastAddress,
         CheckIdentity, CheckWord, CheckProcs
<1>1. Counted /\ at.s \in Slaves
  BY <1>0, TreatedSlave
<1> DEFINE c == list[at.s].configadr
<1>2. AkinAt(list, c)
  BY <1>1, AkinNow
<1>S. ASSUME NEW l, NEW d, AkinAt(l, d), \E v : list' = [l EXCEPT ![at.s].state = v] PROVE AkinAt(list', d)
  BY <1>S, <1>1, AkinEdited
<1>I. ASSUME NEW l, NEW d, AkinAt(l, d), \E v : list' = [l EXCEPT ![at.s].islost = v] PROVE AkinAt(list', d)
  BY <1>I, <1>1, AkinEdited
<1>N. ASSUME NEW b PROVE AkinAt(Seen(b), c)
  BY <1>1, <1>2, AkinEdits DEF Seen
<1>R. ASSUME NEW l, NEW d, AkinAt(l, d), Reconfigured(l) \/ \E rval : Recovered(rval, l) PROVE AkinAt(list', d)
  <2>1. \E v : list' = [l EXCEPT ![at.s].islost = v]
    BY <1>R DEF Reconfigured, Recovered
  <2> QED
    BY <2>1, <1>R, <1>I
<1>P. at.proc \notin {"restore", "refuse", "temp"} => (AkinAt(list', c) => 
        \E d : /\ AkinAt(list', d)
               /\ d = CASE at.proc \in {"restore", "refuse"} -> at.s
                        [] at.proc = "temp" /\ at'.proc = "alias" -> Temp
                        [] OTHER -> list[at.s].configadr)
  OBVIOUS
<1> HIDE DEF c
<1>3. CASE StartCheck \/ LookOperational \/ LookElse \/ (\E fate : LookError(fate) \/ ReconfigInit(fate) \/ CheckAlias(fate))
           \/ (\E fate, n : ReconfigSm(fate, n)) \/ (\E how : CheckIdentity(how))
  <2>1. list' = list /\ at.proc \notin {"restore", "refuse", "temp"}
    BY <1>3 DEF StartCheck, LookOperational, LookElse, LookError, ReconfigInit, CheckAlias, ReconfigSm, CheckIdentity, CheckWord
  <2> QED
    BY <2>1, <1>2, <1>P
<1>4. CASE (\E fate : LookSafeOp(fate) \/ Recheck(fate)) \/ LookLost
  <2>1. at.proc \notin {"restore", "refuse", "temp"}
    BY <1>4 DEF LookSafeOp, Recheck, LookLost
  <2>2. ASSUME NEW fate, LookSafeOp(fate) PROVE AkinAt(list', c)
    <3>1. \E v : list' = [list EXCEPT ![at.s].state = v]
      BY <2>2 DEF LookSafeOp
    <3> QED
      BY <3>1, <1>2, <1>S
  <2>3. ASSUME LookLost PROVE AkinAt(list', c)
    <3>1. \E v : list' = [list EXCEPT ![at.s].islost = v]
      BY <2>3 DEF LookLost
    <3> QED
      BY <3>1, <1>2, <1>I
  <2>4. ASSUME NEW fate, Recheck(fate) PROVE AkinAt(list', c)
    <3> DEFINE l1 == [list EXCEPT ![at.s].state = StateRead(at.s, fate)]
    <3>1. list' = [l1 EXCEPT ![at.s].islost = l1[at.s].islost \/ StateRead(at.s, fate) = EC_STATE_NONE]
      BY <2>4 DEF Recheck
    <3>2. AkinAt(l1, c)
      BY <1>1, <1>2, AkinEdits
    <3> HIDE DEF l1
    <3>3. \E v : list' = [l1 EXCEPT ![at.s].islost = v]
      BY <3>1
    <3> QED
      BY <3>2, <3>3, <1>I
  <2> QED
    BY <1>4, <2>1, <2>2, <2>3, <2>4, <1>P
<1>5. ASSUME NEW fate, ReconfigPdi(fate) \/ ReconfigPreOp(fate) \/ ReconfigSafeOp(fate) \/ ReconfigFmmu(fate)
      PROVE  AkinAt(list', c) /\ at.proc \notin {"restore", "refuse", "temp"}
  <2>1. CASE ReconfigPdi(fate)
    <3> DEFINE l == ecx_eeprom2pdi(Seen(bus), at.s)
    <3>1. at.proc = "rc_pdi" /\ (list' = l \/ Reconfigured(l))
      BY <2>1 DEF ReconfigPdi
    <3>2. \E v : l = [Seen(bus) EXCEPT ![at.s].eep_pdi = v]
      BY DEF ecx_eeprom2pdi
    <3> HIDE DEF l
    <3>3. AkinAt(l, c)
      BY <3>2, <1>1, <1>N, AkinEdited
    <3> QED
      BY <3>1, <3>3, <1>R
  <2>2. CASE ReconfigPreOp(fate)
    <3>1. at.proc = "rc_preop" /\ \E b : list' = Seen(b) \/ Reconfigured(Seen(b))
      BY <2>2 DEF ReconfigPreOp
    <3> QED
      BY <3>1, <1>N, <1>R
  <2>3. CASE ReconfigSafeOp(fate)
    <3>1. at.proc = "rc_safeop" /\ \E b : list' = Seen(b)
      BY <2>3 DEF ReconfigSafeOp
    <3> QED
      BY <3>1, <1>N
  <2>4. CASE ReconfigFmmu(fate)
    <3>1. at.proc = "rc_fmmu" /\ Reconfigured(list)
      BY <2>4 DEF ReconfigFmmu
    <3> QED
      BY <3>1, <1>2, <1>R
  <2> QED
    BY <1>5, <2>1, <2>2, <2>3, <2>4
<1>6. ASSUME NEW fate, Probe(fate) \/ ClearTemp(fate)
      PROVE  AkinAt(list', c) /\ at.proc \notin {"restore", "refuse", "temp"}
  <2>1. at.proc \in {"probe", "clear", "giveup"} /\ (list' = list \/ \E rval : Recovered(rval, list))
    BY <1>6 DEF Probe, ClearTemp
  <2> QED
    BY <2>1, <1>2, <1>R
<1>7. ASSUME NEW fate, GiveTemp(fate)
      PROVE  at.proc = "temp" /\ AkinAt(list', IF at'.proc = "alias" THEN Temp ELSE c)
  <2> DEFINE l == [list EXCEPT ![at.s].configadr = Temp]
  <2>1. /\ at.proc = "temp"
        /\ \/ Then("alias") /\ \E v : list' = [l EXCEPT ![at.s].eep_pdi = v]
           \/ Then("giveup") /\ list' = list
    BY <1>7 DEF GiveTemp, ecx_eeprom2master
  <2>2. AkinAt(l, Temp)
    BY <1>1, <1>2, AkinEdits
  <2>3. DOMAIN at = {"proc", "s", "pc"}
    BY DEF Flow, Places
  <2> HIDE DEF l
  <2>4. CASE Then("alias") /\ \E v : list' = [l EXCEPT ![at.s].eep_pdi = v]
    <3>1. AkinAt(list', Temp)
      BY <2>2, <2>4, <1>1, AkinEdited
    <3>2. at'.proc = "alias"
      BY <2>3, <2>4 DEF Then, GoOn
    <3> QED
      BY <2>1, <3>1, <3>2
  <2>5. CASE Then("giveup") /\ list' = list
    <3>1. at'.proc # "alias"
      BY <2>3, <2>5 DEF Then, GoOn
    <3> QED
      BY <2>1, <2>5, <3>1, <1>2
  <2> QED
    BY <2>1, <2>4, <2>5
<1>8. ASSUME NEW fate, LastAddress(fate)
      PROVE  at.proc \in {"restore", "refuse"} /\ AkinAt(list', at.s)
  <2> DEFINE l == [list EXCEPT ![at.s].configadr = at.s]
  <2>1. at.proc \in {"restore", "refuse"} /\ \E rval : Recovered(rval, l)
    BY <1>8 DEF LastAddress
  <2>2. AkinAt(l, at.s)
    BY <1>1, <1>2, AkinEdits
  <2> HIDE DEF l
  <2> QED
    BY <2>1, <2>2, <1>R
<1>9. CASE \E fate : LastAddress(fate)
  BY <1>9, <1>8
<1>10. CASE \E fate : GiveTemp(fate)
  BY <1>10, <1>7 DEF c
<1>11. CASE \E fate : \/ ReconfigPdi(fate) \/ ReconfigPreOp(fate) \/ ReconfigSafeOp(fate) \/ ReconfigFmmu(fate)
                      \/ Probe(fate) \/ ClearTemp(fate)
  BY <1>11, <1>5, <1>6, <1>P
<1> QED
  BY <1>3, <1>4, <1>9, <1>10, <1>11 DEF ecatcheck, ecx_reconfig_slave, ecx_recover_slave

LEMMA SameConfigured ==
  ASSUME Configured, UNCHANGED <<at, list, plan, inOP>>, ~inOP => UNCHANGED bus
  PROVE  Configured'
<1> SUFFICES ASSUME Counted', NEW k \in Slaves PROVE Learnt(k)' /\ (~inOP' => Given(k)')
  BY DEF Configured, Slaves
<1>1. Learnt(k) /\ (~inOP => Given(k))
  BY DEF Configured, Counted
<1>2. Learnt(k)'
  BY <1>1 DEF Learnt, ManRead, IdRead, RevRead, IsEntry, Linked, Hung
<1>3. ASSUME ~inOP' PROVE Given(k)'
  BY <1>1, <1>3 DEF Given, Placed
<1> QED
  BY <1>2, <1>3

LEMMA ConfiguredKept ==
  ASSUME Flow, Devs, Budget, Configured, Next
  PROVE  Configured'
<1>F. Flow'
  BY FlowKept
<1>1. CASE ecx_config_init /\ UNCHANGED <<hold, clocked, checkvars>>
  <2>1. UNCHANGED inOP
    BY <1>1 DEF checkvars
  <2>2. CASE ecx_detect_slaves
    BY <2>2, DetectConfigured
  <2>3. CASE ~ecx_detect_slaves
    <3>1. at.proc \in ConfigProcs \ {"detect"}
      BY <1>1, <2>3, Stages DEF ecx_config_init, ConfigProcs
    <3>2. Counted
      BY <3>1 DEF Counted, Flow, ConfigProcs, Return
    <3>3. CASE ecx_set_slaves_to_default
      BY <2>1, <3>2, <3>3, DefaultsConfigured
    <3>4. ASSUME NEW s \in Slaves, Address(s) PROVE Configured'
      BY <2>1, <3>2, <3>4, AddressConfigured
    <3>5. CASE TakeManuf \/ TakeId \/ TakeRev
      BY <2>1, <3>2, <3>5, TakenConfigured
    <3>6. CASE \/ TakeRxMailbox \/ TakeMailbox
               \/ \E s \in Slaves : CopySii(s) \/ ReadSii(s) \/ Program(s)
      BY <2>1, <3>2, <3>6, RestOfInitConfigured
    <3>7. CASE TakeLinks
      BY <2>1, <3>2, <3>7, LinksConfigured
    <3> QED
      BY <1>1, <2>3, <3>3, <3>4, <3>5, <3>6, <3>7 DEF ecx_config_init
  <2> QED
    BY <2>2, <2>3
<1>2. CASE ecx_config_map /\ UNCHANGED checkvars
  <2>1. at.proc \in MapProcs
    BY <1>2 DEF ecx_config_map, MapCoe, MapSii, MapFmmus, ConfigDc, MapProcs
  <2>2. Counted
    BY <2>1 DEF Counted, Flow, MapProcs, Return
  <2> QED
    BY <1>2, <2>2, MapConfigured DEF checkvars
<1>3. CASE erob_test
  BY <1>3, TestConfigured
<1>4. CASE ecatcheck
  <2>1. at.proc \in CheckProcs /\ UNCHANGED <<plan, inOP>>
    BY <1>4 DEF ecatcheck, StartCheck, ecx_readstate, ReadAll, ReadEach, LookOperational, LookElse, LookLost, LookError,
           LookSafeOp, Recheck, ecx_reconfig_slave, ReconfigInit, ReconfigPdi, ReconfigSm, ReconfigPreOp,
           ReconfigSafeOp, ReconfigFmmu, ecx_recover_slave, Probe, ClearTemp, CheckAlias, GiveTemp, LastAddress,
           CheckIdentity, CheckWord, Settled, CheckProcs
  <2>2. Counted /\ inOP
    BY <2>1, TreatedSlave
  <2>3. at'.proc \in CheckProcs
    BY <1>F, <2>1, <2>2 DEF Flow
  <2>4. Akin(list')
    <3>1. CASE ecx_readstate
      BY <3>1, <2>2, ListRead
    <3>2. CASE ~ecx_readstate
      <4>1. \E c : AkinAt(list', c)
        BY <3>2, <1>4, ListTreated
      <4> QED
        BY <4>1 DEF AkinAt
    <3> QED
      BY <3>1, <3>2
  <2>5. DOMAIN list' = DOMAIN list /\ \A s \in Slaves : SameIds(list'[s], list[s])
    BY <2>4 DEF Akin, Slaves
  <2> QED
    BY <2>1, <2>2, <2>3, <2>5, WatchedConfigured
<1>5. CASE inOP /\ Environment /\ UnseenBy
  <2>1. UNCHANGED <<at, list, inOP, plan>>
    BY <1>5 DEF Environment, UnseenBy, checkvars, PowerOff, PowerOn, Watchdog
  <2> QED
    BY <1>5, <2>1, SameConfigured
<1>6. CASE (\E fate : Cycle(fate)) \/ ecatthread \/ eepromtool \/ RomDone \/ RomNack
  <2>1. CASE UNCHANGED bus /\ Spends /\ UNCHANGED <<at, list, slips, inOP>>
    BY <2>1, SameConfigured DEF Spends
  <2>2. CASE StartTool
    <3>1. at'.proc = "tool"
      BY <2>2 DEF StartTool, GoTo
    <3> QED
      BY <3>1 DEF Configured, Counted
  <2> QED
    BY <1>6, <2>1, <2>2, OthersTame
<1> QED
  BY <1>1, <1>2, <1>3, <1>4, <1>5, <1>6 DEF Next

-----------------------------------------------------------------------------
(***************************************************************************)
(* The watch: which address leads to which slave while ecatcheck recovers  *)
(* them, and what their FMMUs are while it reconfigures them.              *)
(***************************************************************************)
Active   == {EC_STATE_SAFE_OP, EC_STATE_OPERATIONAL}
Checking == {"alias", "is_id", "is_man", "is_rev", "restore"}
Temps    == Checking \cup {"refuse"}
Readers  == {"idle", "readall", "readeach"}

\* A slave has its own address or none or the temporary one, but for the slips, and the
\* list has the temporary one only while the slave at its place is looked at.
Addressed ==
  /\ \A s \in Slaves : list[s].configadr = IF s = at.s /\ at.proc \in Temps THEN Temp ELSE s
  /\ \A k \in Devices :
       /\ bus[k].adr \in Slaves \cup {0, Temp}
       /\ bus[k].adr \in Slaves \ slips => bus[k].adr = k /\ bus[k].kind = plan.kinds[k]

Looks(k, word) == WordOf(bus[k].kind, word) = WordOf(plan.kinds[at.s], word)

\* the one device that has the temporary address is the slave that is recovered, or
\* something that will be told from it
Candidate(k) ==
  /\ \A j \in Devices : bus[j].adr = Temp => j = k
  /\ (k = at.s /\ bus[k].kind = plan.kinds[at.s]) \/ ~SameIdentity(bus[k].kind, plan.kinds[at.s])
  /\ at.proc \in {"is_man", "is_rev", "restore"} => Looks(k, ECT_SII_ID)
  /\ at.proc \in {"is_rev", "restore"} => Looks(k, ECT_SII_MANUF)
  /\ at.proc = "restore" => Looks(k, ECT_SII_REV)

Identified ==
  at.s \notin slips =>
    \A k \in Devices : bus[k].adr = Temp => at.proc # "temp" /\ (at.proc \in Checking => Candidate(k))

\* a device that passes process data does it as the list says, or its FMMUs are written next
MapKept(k) ==
  k \notin slips /\ bus[k].adr \in {0, k, Temp} /\ bus[k].al \in Active
    => bus[k].fmmu = list[k].FMMUunused \/ (at.proc = "rc_fmmu" /\ at.s = k /\ bus[k].adr = k)

\* the slaves whose state ecatcheck has yet to look at
Ahead(s) == s > at.s \/ (s = at.s /\ at.proc = "look")

\* a slave seen in SAFE_OP with an error can only have lost its address since
Warned(s) ==
  at.proc \notin Readers /\ s \notin slips /\ bus[s].adr = s /\ Ahead(s)
  /\ list[s].state = EC_STATE_SAFE_OP + EC_STATE_ERROR => bus[s].al \in Active

\* one that is reconfigured is not in OP before its FMMUs are written
Halted ==
  at.proc \in {"rc_safeop", "rc_fmmu"} /\ at.s \notin slips /\ bus[at.s].adr = at.s
    => bus[at.s].al # EC_STATE_OPERATIONAL

Routed == (\A k \in Devices : MapKept(k) /\ Warned(k)) /\ Halted

Watched == inOP => Addressed /\ Identified /\ Routed

\* what the steps of the watch start from
Watching == Flow /\ Devs /\ Budget /\ Configured /\ at.proc \in CheckProcs /\ Addressed /\ Identified /\ Routed

LEMMA Numbers ==
  ASSUME Flow, Devs, at.proc \in CheckProcs
  PROVE  /\ Temp \notin Slaves /\ 0 \notin Slaves /\ 0 # Temp
         /\ \A s \in Slaves : s \in Int /\ s > 0
<1>1. Slaves = 1 .. Len(list) /\ Len(list) \in 0 .. EC_MAXSLAVE - 1
  BY TreatedSlave DEF Flow
<1> QED
  BY <1>1, Sizes DEF Temp

\* where the steps of the treatment of a slave go
LEMMA Moves ==
  ASSUME Flow
  PROVE  /\ \A proc : Then(proc) => at'.proc = proc /\ at'.s = at.s
         /\ \A proc : Go(proc) => at'.proc = proc /\ at'.s = 1
         /\ NextSlave => (at'.proc = "look" /\ at'.s = at.s + 1) \/ at'.proc = "idle"
<1>1. DOMAIN at = {"proc", "s", "pc"}
  BY DEF Flow, Places
<1>2. ASSUME NEW proc, NEW s, GoOn(proc, s) PROVE at'.proc = proc /\ at'.s = s
  BY <1>1, <1>2 DEF GoOn
<1> QED
  BY <1>2 DEF Then, Go, NextSlave

\* what becomes of the list
LEMMA ListAfter ==
  ASSUME Watching, ecatcheck, at.proc \notin {"readall", "readeach"}
  PROVE  /\ DOMAIN list' = Slaves /\ Slaves' = Slaves
         /\ \A s \in Slaves : /\ list'[s].FMMUunused = list[s].FMMUunused
                              /\ s # at.s => list'[s].configadr = list[s].configadr /\ list'[s].state = list[s].state
         /\ list'[at.s].configadr = CASE at.proc \in {"restore", "refuse"} -> at.s
                                      [] at.proc = "temp" /\ at'.proc = "alias" -> Temp
                                      [] OTHER -> list[at.s].configadr
<1>1. ~ecx_readstate
  BY DEF ecx_readstate, ReadAll, ReadEach
<1>2. at.s \in Slaves
  BY TreatedSlave DEF Watching
<1>3. PICK c : /\ AkinAt(list', c)
               /\ c = CASE at.proc \in {"restore", "refuse"} -> at.s
                        [] at.proc = "temp" /\ at'.proc = "alias" -> Temp
                        [] OTHER -> list[at.s].configadr
  BY <1>1, ListTreated DEF Watching
<1>4. list'[at.s].configadr = c /\ DOMAIN list' = Slaves
  BY <1>2, <1>3 DEF AkinAt, Akin
<1>5. ASSUME NEW s \in Slaves
      PROVE  /\ list'[s].FMMUunused = list[s].FMMUunused
             /\ s # at.s => list'[s].configadr = list[s].configadr /\ list'[s].state = list[s].state
  BY <1>3 DEF AkinAt, Akin, SameIds
<1>6. Slaves' = Slaves
  BY <1>4 DEF Slaves
<1> QED
  BY <1>3, <1>4, <1>5, <1>6

-----------------------------------------------------------------------------
\* A step after which every device is what it was, or has no address.
Fading ==
  /\ UNCHANGED plan /\ Slaves' = Slaves /\ Devices' = Devices /\ slips \subseteq slips'
  /\ \A k \in Devices : (bus'[k].adr = bus[k].adr /\ bus'[k].kind = bus[k].kind) \/ bus'[k].adr = 0

LEMMA Fewer ==
  ASSUME Watching, Fading, \A s \in Slaves : list'[s].configadr = list[s].configadr,
         \/ UNCHANGED at
         \/ /\ at.proc \notin Temps /\ at'.proc \notin Temps
            /\ at'.proc = "temp" /\ at'.s \notin slips' => \A k \in Devices : bus'[k].adr # Temp
  PROVE  Addressed' /\ Identified'
<1>0. Temp \notin Slaves /\ 0 \notin Slaves /\ 0 # Temp
  BY Numbers DEF Watching
<1>1. \A s \in Slaves : list'[s].configadr = IF s = at'.s /\ at'.proc \in Temps THEN Temp ELSE s
  BY DEF Watching, Addressed
<1>2. ASSUME NEW k \in Devices
      PROVE  /\ bus'[k].adr \in Slaves \cup {0, Temp}
             /\ bus'[k].adr \in Slaves \ slips' => bus'[k].adr = k /\ bus'[k].kind = plan.kinds[k]
  BY <1>0 DEF Watching, Addressed, Fading
<1>3. Addressed'
  BY <1>1, <1>2 DEF Addressed, Fading
<1>4. ASSUME UNCHANGED at PROVE Identified'
  <2> SUFFICES ASSUME at.s \notin slips', NEW k \in Devices, bus'[k].adr = Temp
               PROVE  at.proc # "temp" /\ (at.proc \in Checking => Candidate(k)')
    BY <1>4 DEF Identified, Fading
  <2>1. bus[k].adr = Temp /\ bus'[k].kind = bus[k].kind /\ at.s \notin slips
    BY <1>0 DEF Fading
  <2>2. at.proc # "temp" /\ (at.proc \in Checking => Candidate(k))
    BY <2>1 DEF Watching, Identified
  <2>3. ASSUME Candidate(k) PROVE Candidate(k)'
    <3>1. \A j \in Devices : bus'[j].adr = Temp => j = k
      BY <1>0, <2>3 DEF Candidate, Fading
    <3>2. plan' = plan /\ at' = at /\ Devices' = Devices
      BY <1>4 DEF Fading
    <3> QED
      BY <2>1, <2>3, <3>1, <3>2 DEF Candidate, Looks
  <2> QED
    BY <2>2, <2>3
<1>5. ASSUME at'.proc \notin Temps, at'.proc = "temp" /\ at'.s \notin slips' => \A k \in Devices : bus'[k].adr # Temp
      PROVE  Identified'
  BY <1>5 DEF Identified, Fading, Temps
<1> QED
  BY <1>3, <1>4, <1>5

\* a step from one look at the holder of the temporary address to the next
LEMMA Examined ==
  ASSUME Watching, UNCHANGED plan, Slaves' = Slaves, Devices' = Devices, slips \subseteq slips',
         \A k \in Devices : bus'[k].adr = bus[k].adr /\ bus'[k].kind = bus[k].kind,
         \A s \in Slaves : list'[s].configadr = list[s].configadr,
         at.proc \in Checking, at'.proc \in Temps, at'.s = at.s,
         \A k \in Devices : at.s \notin slips' /\ bus[k].adr = Temp =>
           /\ at'.proc \in {"is_man", "is_rev", "restore"} => Looks(k, ECT_SII_ID)
           /\ at'.proc \in {"is_rev", "restore"} => Looks(k, ECT_SII_MANUF)
           /\ at'.proc = "restore" => Looks(k, ECT_SII_REV)
  PROVE  Addressed' /\ Identified'
<1>1. Addressed'
  BY DEF Watching, Addressed, Temps
<1>2. ASSUME at.s \notin slips', NEW k \in Devices, bus[k].adr = Temp
      PROVE  at'.proc # "temp" /\ (at'.proc \in Checking => Candidate(k)')
  <2>1. Candidate(k)
    BY <1>2 DEF Watching, Identified
  <2>2. \A word : Looks(k, word)' <=> Looks(k, word)
    BY DEF Looks
  <2> QED
    BY <1>2, <2>1, <2>2 DEF Candidate, Temps, Checking
<1> QED
  BY <1>1, <1>2 DEF Identified

-----------------------------------------------------------------------------
LEMMA WarnedKept ==
  ASSUME Watching, ecatcheck, at.proc \notin Readers, Devices' = Devices, slips \subseteq slips',
         at'.proc = "idle" \/ (at'.s = at.s /\ at'.proc # "look") \/ at'.s = at.s + 1,
         \A k \in Devices : k > at.s /\ bus'[k].adr = k =>
           bus[k].adr = k /\ (bus[k].al \in Active => bus'[k].al \in Active)
  PROVE  \A k \in Devices : Warned(k)'
<1> SUFFICES ASSUME NEW k \in Devices, at'.proc \notin Readers, k \notin slips', bus'[k].adr = k,
                    k > at'.s \/ (k = at'.s /\ at'.proc = "look"), list'[k].state = EC_STATE_SAFE_OP + EC_STATE_ERROR
             PROVE  bus'[k].al \in Active
  BY DEF Warned, Ahead, Active
<1>1. k \in Slaves /\ k \in Int /\ at.s \in Int
  BY TreatedSlave, Numbers DEF Watching
<1>2. k > at.s
  BY <1>1 DEF Readers
<1>3. list'[k].state = list[k].state
  BY <1>1, <1>2, ListAfter DEF Readers
<1>4. Warned(k)
  BY DEF Watching, Routed
<1> QED
  BY <1>1, <1>2, <1>3, <1>4 DEF Warned, Ahead

\* a step that makes no device pass process data
LEMMA MappedKept ==
  ASSUME Watching, ecatcheck, at.proc \notin {"readall", "readeach", "rc_fmmu"}, Devices' = Devices, slips \subseteq slips',
         \A k \in Devices \ slips' :
           bus'[k].adr \in {0, k, Temp} /\ bus'[k].al \in Active =>
             bus[k].adr \in {0, k, Temp} /\ bus[k].al \in Active /\ bus'[k].fmmu = bus[k].fmmu
  PROVE  \A k \in Devices : MapKept(k)'
<1> SUFFICES ASSUME NEW k \in Devices, k \notin slips', bus'[k].adr \in {0, k, Temp}, bus'[k].al \in Active
             PROVE  bus'[k].fmmu = list'[k].FMMUunused
  BY DEF MapKept, Active
<1>1. list'[k].FMMUunused = list[k].FMMUunused
  BY TreatedSlave, ListAfter DEF Watching
<1>2. MapKept(k) /\ k \notin slips
  BY DEF Watching, Routed
<1> QED
  BY <1>1, <1>2 DEF MapKept

LEMMA RoutedCalm ==
  ASSUME Watching, ecatcheck, at.proc \notin Readers \cup {"rc_fmmu"}, at'.proc \notin {"rc_safeop", "rc_fmmu"},
         Devices' = Devices, slips \subseteq slips',
         at'.proc = "idle" \/ (at'.s = at.s /\ at'.proc # "look") \/ at'.s = at.s + 1,
         \A k \in Devices :
           /\ k \notin slips' /\ bus'[k].adr \in {0, k, Temp} /\ bus'[k].al \in Active =>
                bus[k].adr \in {0, k, Temp} /\ bus[k].al \in Active /\ bus'[k].fmmu = bus[k].fmmu
           /\ k > at.s /\ bus'[k].adr = k => bus[k].adr = k /\ (bus[k].al \in Active => bus'[k].al \in Active)
  PROVE  Routed'
<1>1. \A k \in Devices : Warned(k)'
  BY WarnedKept DEF Readers
<1>2. \A k \in Devices : MapKept(k)'
  BY MappedKept DEF Readers
<1>3. Halted'
  BY DEF Halted
<1> QED
  BY <1>1, <1>2, <1>3 DEF Routed

\* who is reached at the address of the slave that is treated
LEMMA WhoIsReached ==
  ASSUME Watching, NEW s \in Slaves, at.proc \notin Temps
  PROVE  /\ Reached(s) = {k \in Connected : bus[k].adr = s}
         /\ \A k \in Reached(s) : k \in Devices /\ bus[k].adr = s
         /\ s \notin slips => \A k \in Reached(s) : k = s /\ bus[k].kind = plan.kinds[k]
<1>1. list[s].configadr = s
  BY DEF Watching, Addressed
<1>2. Reached(s) = {k \in Connected : bus[k].adr = s} /\ Connected \subseteq Devices
  BY <1>1 DEF Reached, FP, Connected
<1> QED
  BY <1>2 DEF Watching, Addressed

\* a step that changes no device
LEMMA OnlyLooked ==
  ASSUME Watching, ecatcheck, UNCHANGED <<bus, plan>>, slips \subseteq slips',
         at.proc \notin Readers \cup {"rc_fmmu"} \cup Temps,
         at'.proc \notin {"rc_safeop", "rc_fmmu", "temp"} \cup Temps, at.proc # "temp",
         at'.proc = "idle" \/ (at'.s = at.s /\ at'.proc # "look") \/ at'.s = at.s + 1
  PROVE  Addressed' /\ Identified' /\ Routed'
<1>1. Devices' = Devices
  BY DEF Devices
<1>2. Routed'
  BY <1>1, RoutedCalm
<1>3. \A s \in Slaves : list'[s].configadr = list[s].configadr
  BY ListAfter, TreatedSlave DEF Readers, Temps, Checking, Watching
<1>4. Fading
  BY <1>1, ListAfter DEF Fading, Readers
<1> QED
  BY <1>2, <1>3, <1>4, Fewer

\* A write to the slave that is treated, which leaves all addresses and FMMUs: it must
\* not make the slave pass process data.
QuietWrite ==
  /\ DOMAIN bus' = DOMAIN bus /\ UNCHANGED plan /\ slips \subseteq slips'
  /\ \A k \in Devices : /\ bus'[k].adr = bus[k].adr /\ bus'[k].kind = bus[k].kind /\ bus'[k].fmmu = bus[k].fmmu
                        /\ k \notin Reached(at.s) => bus'[k].al = bus[k].al

LEMMA Written ==
  ASSUME Watching, ecatcheck, QuietWrite,
         at.proc \notin Readers \cup {"rc_fmmu", "temp"} \cup Temps, at'.proc \notin {"temp"} \cup Temps,
         at'.proc = "idle" \/ (at'.s = at.s /\ at'.proc # "look") \/ at'.s = at.s + 1
  PROVE  /\ Addressed' /\ Identified' /\ \A k \in Devices : Warned(k)'
         /\ \A k \in Devices : k # at.s => MapKept(k)'
         /\ at.s \in Devices /\ Devices' = Devices
         /\ (at.s \notin slips' /\ bus[at.s].adr = at.s /\ bus'[at.s].al \in Active => bus[at.s].al \in Active)
              => \A k \in Devices : MapKept(k)'
<1>0. at.s \in Slaves /\ Devices = Slaves /\ at.s # 0 /\ at.s # Temp /\ Devices' = Devices /\ at.s \in Int
  BY TreatedSlave, Numbers DEF Watching, QuietWrite, Devices
<1>1. Fading
  BY <1>0, ListAfter DEF Fading, QuietWrite, Readers
<1>2. \A s \in Slaves : list'[s].configadr = list[s].configadr
  BY ListAfter, <1>0 DEF Readers, Temps, Checking
<1>3. Addressed' /\ Identified'
  BY <1>1, <1>2, Fewer
<1>4. \A k \in Devices : bus[k].adr # at.s => bus'[k].al = bus[k].al
  BY <1>0, WhoIsReached DEF QuietWrite
<1>5. \A k \in Devices : Warned(k)'
  BY <1>0, <1>4, WarnedKept DEF QuietWrite
<1>6. ASSUME NEW k \in Devices, k # at.s PROVE MapKept(k)'
  <2> SUFFICES ASSUME k \notin slips', bus'[k].adr \in {0, k, Temp}, bus'[k].al \in Active
               PROVE  bus'[k].fmmu = list'[k].FMMUunused
    BY DEF MapKept, Active
  <2>1. bus'[k].fmmu = bus[k].fmmu /\ bus[k].adr \in {0, k, Temp} /\ bus[k].al \in Active /\ k \notin slips
    BY <1>0, <1>4, <1>6 DEF QuietWrite
  <2>2. list'[k].FMMUunused = list[k].FMMUunused
    BY <1>0, ListAfter DEF Readers
  <2>3. MapKept(k)
    BY DEF Watching, Routed
  <2> QED
    BY <2>1, <2>2, <2>3 DEF MapKept
<1>7. ASSUME at.s \notin slips' /\ bus[at.s].adr = at.s /\ bus'[at.s].al \in Active => bus[at.s].al \in Active
      PROVE  \A k \in Devices : MapKept(k)'
  <2>1. ASSUME NEW k \in Devices \ slips', bus'[k].adr \in {0, k, Temp}, bus'[k].al \in Active
        PROVE  bus[k].adr \in {0, k, Temp} /\ bus[k].al \in Active /\ bus'[k].fmmu = bus[k].fmmu
    BY <2>1, <1>0, <1>4, <1>7 DEF QuietWrite
  <2> QED
    BY <2>1, <1>0, MappedKept DEF QuietWrite, Readers
<1> QED
  BY <1>0, <1>3, <1>5, <1>6, <1>7

\* the request of a state
LEMMA RequestQuiet ==
  ASSUME Watching, NEW state \in AlStates, NEW ack \in BOOLEAN, NEW fate, UNCHANGED plan, slips \subseteq slips',
         bus' = Requested(at.s, state, ack, fate)
  PROVE  /\ QuietWrite
         /\ \A k \in Devices : bus'[k] = bus[k] \/ bus'[k] = AlRequest(bus[k], state, ack)
         /\ \A k \in Devices : bus'[k].al \in {bus[k].al, state}
<1>1. /\ DOMAIN bus' = DOMAIN bus
      /\ \A k \in Devices : bus'[k] = bus[k] \/ (k \in Reached(at.s) /\ bus'[k] = AlRequest(bus[k], state, ack))
  BY DEF Requested, Wrote, Devices
<1>2. ASSUME NEW k \in Devices
      PROVE  /\ AlRequest(bus[k], state, ack).adr = bus[k].adr /\ AlRequest(bus[k], state, ack).kind = bus[k].kind
             /\ AlRequest(bus[k], state, ack).fmmu = bus[k].fmmu
             /\ AlRequest(bus[k], state, ack).al \in {bus[k].al, state}
  BY Requests DEF Watching, Devs, Still
<1>3. ASSUME NEW k \in Devices
      PROVE  /\ bus'[k].adr = bus[k].adr /\ bus'[k].kind = bus[k].kind /\ bus'[k].fmmu = bus[k].fmmu
             /\ k \notin Reached(at.s) => bus'[k].al = bus[k].al
             /\ bus'[k].al \in {bus[k].al, state}
  BY <1>1, <1>2
<1> QED
  BY <1>1, <1>3 DEF QuietWrite

\* OP is only taken by a slave that passes process data already
LEMMA OpIsRefused ==
  ASSUME NEW d, IsDevice(d), AlRequest(d, EC_STATE_OPERATIONAL, FALSE).al \in Active
  PROVE  d.al \in Active
<1> SUFFICES ASSUME d.al \notin Active PROVE FALSE
  OBVIOUS
<1>1. d.al < EC_STATE_SAFE_OP
  BY DEF Active, IsDevice, AlStates, EC_STATE_INIT, EC_STATE_PRE_OP, EC_STATE_SAFE_OP, EC_STATE_OPERATIONAL
<1>2. Refuses(d, EC_STATE_OPERATIONAL)
  BY <1>1 DEF Refuses
<1>3. AlRequest(d, EC_STATE_OPERATIONAL, FALSE) = d \/ AlRequest(d, EC_STATE_OPERATIONAL, FALSE) = [d EXCEPT !.err = TRUE]
  BY <1>2 DEF AlRequest
<1>4. AlRequest(d, EC_STATE_OPERATIONAL, FALSE).al = d.al
  BY <1>3 DEF IsDevice, Fields
<1> QED
  BY <1>4

\* the looks at the states of the slaves
LEMMA LooksKeep ==
  ASSUME Watching, ecatcheck, NEW fate, LookError(fate) \/ LookSafeOp(fate)
  PROVE  Addressed' /\ Identified' /\ Routed'
<1>1. /\ at.proc = "look" /\ UNCHANGED <<plan, slips>> /\ at'.proc = "lost" /\ at'.s = at.s
      /\ \/ State = EC_STATE_SAFE_OP + EC_STATE_ERROR /\ bus' = Requested(at.s, EC_STATE_SAFE_OP, TRUE, fate)
         \/ bus' = Requested(at.s, EC_STATE_OPERATIONAL, FALSE, fate)
  BY Moves DEF Watching, LookError, LookSafeOp, Treated, Settled, AckBit
<1>2. QuietWrite
  BY <1>1, RequestQuiet DEF AlStates
<1>3. at.s \in Devices
  BY TreatedSlave DEF Watching
<1>4. ASSUME at.s \notin slips', bus[at.s].adr = at.s, bus'[at.s].al \in Active PROVE bus[at.s].al \in Active
  <2>1. CASE State = EC_STATE_SAFE_OP + EC_STATE_ERROR
    <3>1. Warned(at.s)
      BY <1>3 DEF Watching, Routed
    <3> QED
      BY <1>1, <1>4, <2>1, <3>1 DEF Warned, Ahead, State, Readers
  <2>2. CASE bus' = Requested(at.s, EC_STATE_OPERATIONAL, FALSE, fate)
    <3>1. bus'[at.s] = bus[at.s] \/ bus'[at.s] = AlRequest(bus[at.s], EC_STATE_OPERATIONAL, FALSE)
      BY <1>1, <1>3, <2>2, RequestQuiet DEF AlStates
    <3> QED
      BY <1>3, <1>4, <3>1, OpIsRefused DEF Watching, Devs
  <2> QED
    BY <1>1, <2>1, <2>2
<1>5. /\ Addressed' /\ Identified' /\ Devices' = Devices
      /\ \A k \in Devices : MapKept(k)' /\ Warned(k)'
  BY <1>1, <1>2, <1>4, Written DEF Readers, Temps, Checking
<1>6. Halted'
  BY <1>1 DEF Halted
<1> QED
  BY <1>5, <1>6 DEF Routed

\* steps that only read
LEMMA LooksOnly ==
  ASSUME Watching, ecatcheck,
         \/ LookOperational \/ LookElse \/ LookLost
         \/ \E fate : Recheck(fate) \/ Probe(fate)
  PROVE  Addressed' /\ Identified' /\ Routed'
<1>1. at.proc \in {"look", "lost", "recheck", "probe"} /\ UNCHANGED <<bus, plan, slips>>
  BY DEF LookOperational, LookElse, LookLost, Recheck, Probe, Settled
<1>2. NextSlave \/ \E proc \in {"lost", "rc_init", "recheck", "probe", "clear"} : Then(proc)
  BY DEF LookOperational, LookElse, LookLost, Recheck, Probe, Treated, Recovered
<1>3. /\ at'.proc \in {"look", "idle", "lost", "rc_init", "recheck", "probe", "clear"}
      /\ at'.proc = "idle" \/ (at'.s = at.s /\ at'.proc # "look") \/ at'.s = at.s + 1
  BY <1>2, Moves DEF Watching
<1> QED
  BY <1>1, <1>3, OnlyLooked DEF Readers, Temps, Checking

\* the steps of ecx_reconfig_slave before SAFE_OP is asked for
LEMMA ReconfigKeeps ==
  ASSUME Watching, ecatcheck,
         \/ \E fate : ReconfigInit(fate) \/ ReconfigPdi(fate)
         \/ \E fate, n : ReconfigSm(fate, n)
  PROVE  Addressed' /\ Identified' /\ Routed'
<1>S. at.s \in Devices
  BY TreatedSlave DEF Watching
<1>1. ASSUME QuietWrite, at.proc \in {"rc_init", "rc_pdi", "rc_sm"},
             at'.proc \in {"lost", "rc_pdi", "rc_sm", "rc_preop"}, at'.s = at.s,
             bus'[at.s].al \in Active => bus[at.s].al \in Active
      PROVE  Addressed' /\ Identified' /\ Routed'
  <2>1. /\ Addressed' /\ Identified' /\ Devices' = Devices
        /\ \A k \in Devices : MapKept(k)' /\ Warned(k)'
    BY <1>1, Written DEF Readers, Temps, Checking
  <2>2. Halted'
    BY <1>1 DEF Halted
  <2> QED
    BY <2>1, <2>2 DEF Routed
<1>2. ASSUME NEW fate, ReconfigInit(fate) PROVE Addressed' /\ Identified' /\ Routed'
  <2>1. /\ at.proc = "rc_init" /\ at'.proc \in {"lost", "rc_pdi"} /\ at'.s = at.s /\ UNCHANGED <<plan, slips>>
        /\ bus' = Requested(at.s, EC_STATE_INIT, FALSE, fate)
    BY <1>2, Moves DEF Watching, ReconfigInit, Write, Requested, Treated, Settled
  <2>2. QuietWrite /\ bus'[at.s].al \in {bus[at.s].al, EC_STATE_INIT}
    BY <1>S, <2>1, RequestQuiet DEF AlStates
  <2>3. EC_STATE_INIT \notin Active
    BY DEF Active, EC_STATE_INIT, EC_STATE_SAFE_OP, EC_STATE_OPERATIONAL
  <2> QED
    BY <1>1, <2>1, <2>2, <2>3
<1>3. ASSUME NEW fate, ReconfigPdi(fate) PROVE Addressed' /\ Identified' /\ Routed'
  <2>1. /\ at.proc = "rc_pdi" /\ at'.proc \in {"lost", "rc_sm"} /\ at'.s = at.s /\ UNCHANGED plan
        /\ slips \subseteq slips' /\ bus' = ToPdi(bus, at.s, fate)
    BY <1>3, Moves DEF Watching, ReconfigPdi, Reconfigured, Slip, Treated, Settled
  <2>2. QuietWrite /\ bus'[at.s].al = bus[at.s].al
    <3>1. DOMAIN bus' = DOMAIN bus /\ \A k \in Devices : bus'[k] = bus[k] \/ bus'[k] = [bus[k] EXCEPT !.ctl = "pdi"]
      BY <2>1 DEF ToPdi, Wrote, Devices
    <3>2. ASSUME NEW k \in Devices
          PROVE  /\ bus'[k].adr = bus[k].adr /\ bus'[k].kind = bus[k].kind
                 /\ bus'[k].al = bus[k].al /\ bus'[k].fmmu = bus[k].fmmu
      <4>1. DOMAIN bus[k] = Fields
        BY DEF Watching, Devs, IsDevice
      <4> QED
        BY <3>1, <4>1 DEF Fields
    <3> QED
      BY <1>S, <2>1, <3>1, <3>2 DEF QuietWrite
  <2> QED
    BY <1>1, <2>1, <2>2
<1>4. ASSUME NEW fate, NEW n, ReconfigSm(fate, n) PROVE Addressed' /\ Identified' /\ Routed'
  <2> DEFINE sm(d) == [m \in 0 .. 3 |-> IF m \in {i \in 0 .. 3 : list[at.s].SM[i] # 0 /\ (fate = "lost" => i # n)}
                                        THEN list[at.s].SM[m] ELSE d.sm[m]]
  <2>1. /\ at.proc = "rc_sm" /\ at'.proc = "rc_preop" /\ at'.s = at.s /\ UNCHANGED <<plan, slips>>
        /\ bus' = Wrote(bus, Reached(at.s), LAMBDA d : [d EXCEPT !.sm = sm(d)], "arrives")
    BY <1>4, Moves DEF Watching, ReconfigSm, Settled
  <2> HIDE DEF sm
  <2>2. QuietWrite /\ bus'[at.s].al = bus[at.s].al
    <3>1. DOMAIN bus' = DOMAIN bus /\ \A k \in Devices : bus'[k] = bus[k] \/ bus'[k] = [bus[k] EXCEPT !.sm = sm(bus[k])]
      BY <2>1 DEF Wrote, Devices
    <3>2. ASSUME NEW k \in Devices
          PROVE  /\ bus'[k].adr = bus[k].adr /\ bus'[k].kind = bus[k].kind
                 /\ bus'[k].al = bus[k].al /\ bus'[k].fmmu = bus[k].fmmu
      <4>1. DOMAIN bus[k] = Fields
        BY DEF Watching, Devs, IsDevice
      <4> QED
        BY <3>1, <4>1 DEF Fields
    <3> QED
      BY <1>S, <2>1, <3>1, <3>2 DEF QuietWrite
  <2> QED
    BY <1>1, <2>1, <2>2
<1> QED
  BY <1>2, <1>3, <1>4

\* After PRE_OP has been seen the slave is in PRE_OP.
LEMMA PreOpKeeps ==
  ASSUME Watching, ecatcheck, NEW fate, ReconfigPreOp(fate)
  PROVE  Addressed' /\ Identified' /\ Routed'
<1>1. /\ at.proc = "rc_preop" /\ at'.proc \in {"lost", "rc_safeop"} /\ at'.s = at.s /\ UNCHANGED <<plan, slips>>
      /\ bus' = Requested(at.s, EC_STATE_PRE_OP, FALSE, fate)
      /\ at'.proc = "rc_safeop" => StateOn(bus', at.s) = EC_STATE_PRE_OP
  <2> DEFINE b == Requested(at.s, EC_STATE_PRE_OP, FALSE, fate)
  <2>1. /\ at.proc = "rc_preop" /\ bus' = b /\ UNCHANGED <<plan, slips>>
        /\ IF StateOn(b, at.s) = EC_STATE_PRE_OP THEN list' = Seen(b) /\ Then("rc_safeop")
           ELSE Reconfigured(Seen(b))
    BY DEF ReconfigPreOp, Settled
  <2>0. bus' = Requested(at.s, EC_STATE_PRE_OP, FALSE, fate) /\ bus' = b
    BY <2>1
  <2> HIDE DEF b
  <2>2. CASE StateOn(b, at.s) = EC_STATE_PRE_OP
    <3>1. Then("rc_safeop")
      BY <2>1, <2>2
    <3> QED
      BY <2>0, <2>1, <2>2, <3>1, Moves DEF Watching
  <2>3. CASE StateOn(b, at.s) # EC_STATE_PRE_OP
    <3>1. Then("lost")
      BY <2>1, <2>3 DEF Reconfigured, Treated
    <3>2. at'.proc = "lost" /\ at'.s = at.s
      BY <3>1, Moves DEF Watching
    <3> QED
      BY <2>0, <2>1, <3>2
  <2> QED
    BY <2>2, <2>3
<1>2. at.s \in Devices /\ at.s \in Slaves
  BY TreatedSlave DEF Watching
<1>3. QuietWrite /\ bus'[at.s].al \in {bus[at.s].al, EC_STATE_PRE_OP}
  BY <1>1, <1>2, RequestQuiet DEF AlStates
<1>4. EC_STATE_PRE_OP \notin Active
  BY DEF Active, EC_STATE_PRE_OP, EC_STATE_SAFE_OP, EC_STATE_OPERATIONAL
<1>5. /\ Addressed' /\ Identified' /\ Devices' = Devices
      /\ \A k \in Devices : MapKept(k)' /\ Warned(k)'
  BY <1>1, <1>3, <1>4, Written DEF Readers, Temps, Checking
<1>6. Halted'
  <2> SUFFICES ASSUME at'.proc = "rc_safeop", at.s \notin slips
               PROVE  bus'[at.s].al # EC_STATE_OPERATIONAL
    BY <1>1 DEF Halted
  <2>1. \A k \in Reached(at.s) : k = at.s
    BY <1>1, <1>2, WhoIsReached DEF Temps, Checking
  <2>2. StateOn(bus', at.s) = EC_STATE_PRE_OP
    BY <1>1
  <2>3. Reached(at.s) # {}
    BY <2>2 DEF StateOn, EC_STATE_NONE, EC_STATE_PRE_OP
  <2>4. Max(Reached(at.s)) = at.s
    <3>1. Reached(at.s) = {at.s}
      BY <2>1, <2>3
    <3>2. at.s \in Int
      BY TreatedSlave DEF Watching
    <3> QED
      BY <3>1, <3>2, MaxOfOne
  <2>5. AlStatus(bus'[at.s]) = EC_STATE_PRE_OP
    BY <2>2, <2>3, <2>4 DEF StateOn
  <2>6. bus'[at.s].al \in AlStates
    BY <1>2, <1>3 DEF Watching, Devs, IsDevice, AlStates
  <2> QED
    BY <2>5, <2>6 DEF AlStatus, AlStates, EC_STATE_INIT, EC_STATE_PRE_OP, EC_STATE_SAFE_OP, EC_STATE_OPERATIONAL, EC_STATE_ERROR
<1> QED
  BY <1>5, <1>6 DEF Routed

\* SAFE_OP is asked for before the FMMUs are written, by a slave that is not in OP.
LEMMA SafeOpKeeps ==
  ASSUME Watching, ecatcheck, NEW fate, ReconfigSafeOp(fate)
  PROVE  Addressed' /\ Identified' /\ Routed'
<1>1. /\ at.proc = "rc_safeop" /\ at'.proc = "rc_fmmu" /\ at'.s = at.s /\ UNCHANGED <<plan, slips>>
      /\ bus' = Requested(at.s, EC_STATE_SAFE_OP, FALSE, fate)
  BY Moves DEF Watching, ReconfigSafeOp, Settled
<1>2. at.s \in Devices /\ at.s \in Slaves
  BY TreatedSlave DEF Watching
<1>3. QuietWrite /\ bus'[at.s].al \in {bus[at.s].al, EC_STATE_SAFE_OP}
  BY <1>1, <1>2, RequestQuiet DEF AlStates
<1>4. /\ Addressed' /\ Identified' /\ Devices' = Devices
      /\ \A k \in Devices : (k # at.s => MapKept(k)') /\ Warned(k)'
  BY <1>1, <1>3, Written DEF Readers, Temps, Checking
<1>5. ASSUME NEW k \in Devices, k = at.s PROVE MapKept(k)'
  <2> SUFFICES ASSUME at.s \notin slips, bus[at.s].adr # at.s, bus[at.s].adr \in {0, at.s, Temp}, bus'[at.s].al \in Active
               PROVE  bus[at.s].fmmu = list'[at.s].FMMUunused
    BY <1>1, <1>3, <1>5 DEF MapKept, Active, QuietWrite
  <2>1. at.s \notin Reached(at.s)
    BY <1>1, <1>2, WhoIsReached DEF Temps, Checking
  <2>2. bus'[at.s].al = bus[at.s].al
    BY <1>2, <1>3, <2>1 DEF QuietWrite
  <2>3. MapKept(at.s)
    BY <1>2 DEF Watching, Routed
  <2>4. list'[at.s].FMMUunused = list[at.s].FMMUunused
    BY <1>1, <1>2, ListAfter
  <2> QED
    BY <2>2, <2>3, <2>4 DEF MapKept
<1>6. Halted'
  <2>1. EC_STATE_SAFE_OP # EC_STATE_OPERATIONAL
    BY DEF EC_STATE_SAFE_OP, EC_STATE_OPERATIONAL
  <2>2. bus'[at.s].adr = bus[at.s].adr
    BY <1>2, <1>3 DEF QuietWrite
  <2>3. Halted
    BY DEF Watching, Routed
  <2> QED
    BY <1>1, <1>3, <2>1, <2>2, <2>3 DEF Halted
<1> QED
  BY <1>4, <1>5, <1>6 DEF Routed

\* The FMMUs are written, or the slave is one of the slips.
LEMMA FmmuKeeps ==
  ASSUME Watching, ecatcheck, NEW fate, ReconfigFmmu(fate)
  PROVE  Addressed' /\ Identified' /\ Routed'
<1>1. /\ at.proc = "rc_fmmu" /\ at'.proc = "lost" /\ at'.s = at.s /\ UNCHANGED plan
      /\ slips' = IF Missed(fate) THEN slips \cup {at.s} ELSE slips
      /\ bus' = Wrote(bus, Reached(at.s), LAMBDA d : FmmuWritten(d, list[at.s]), fate)
  <2>1. at.proc = "rc_fmmu" /\ Treated /\ UNCHANGED plan
    BY DEF ReconfigFmmu, Reconfigured, Settled
  <2>2. at'.proc = "lost" /\ at'.s = at.s
    BY <2>1, Moves DEF Watching, Treated
  <2>3. slips' = IF Missed(fate) THEN slips \cup {at.s} ELSE slips
    BY DEF ReconfigFmmu, Slip
  <2>4. bus' = Wrote(bus, Reached(at.s), LAMBDA d : FmmuWritten(d, list[at.s]), fate)
    BY DEF ReconfigFmmu
  <2> QED
    BY <2>1, <2>2, <2>3, <2>4
<1>2. /\ at.s \in Slaves /\ Devices = Slaves /\ at.s # 0 /\ at.s # Temp
      /\ slips \subseteq slips'
  BY <1>1, TreatedSlave, Numbers DEF Watching
<1>3. /\ DOMAIN bus' = DOMAIN bus
      /\ \A k \in Devices : bus'[k] = IF k \in Reached(at.s) /\ fate # "lost"
                                      THEN [bus[k] EXCEPT !.fmmu = list[at.s].FMMUunused] ELSE bus[k]
  BY <1>1 DEF Wrote, Devices, FmmuWritten
<1>4. \A k \in Devices : IsDevice(bus[k])
  BY DEF Watching, Devs
<1>5. \A k \in Devices : /\ bus'[k].adr = bus[k].adr /\ bus'[k].kind = bus[k].kind /\ bus'[k].al = bus[k].al
                         /\ k \in Reached(at.s) /\ fate # "lost" => bus'[k].fmmu = list[at.s].FMMUunused
                         /\ ~(k \in Reached(at.s) /\ fate # "lost") => bus'[k].fmmu = bus[k].fmmu
  BY <1>3, <1>4 DEF IsDevice, Fields
<1>6. Devices' = Devices
  BY <1>3 DEF Devices
<1>7. Addressed' /\ Identified'
  <2>1. Fading
    BY <1>1, <1>2, <1>5, <1>6, ListAfter DEF Fading
  <2>2. \A s \in Slaves : list'[s].configadr = list[s].configadr
    BY <1>1, <1>2, ListAfter
  <2> QED
    BY <1>1, <2>1, <2>2, Fewer DEF Temps, Checking
<1>8. \A k \in Devices : Warned(k)'
  BY <1>1, <1>2, <1>5, <1>6, WarnedKept DEF Readers
<1>W. /\ Reached(at.s) = {k \in Connected : bus[k].adr = at.s}
      /\ \A k \in Reached(at.s) : bus[k].adr = at.s
      /\ at.s \notin slips => \A k \in Reached(at.s) : k = at.s
  BY <1>1, <1>2, WhoIsReached DEF Temps, Checking
<1>9. ASSUME NEW k \in Devices PROVE MapKept(k)'
  <2> SUFFICES ASSUME k \notin slips', bus[k].adr \in {0, k, Temp}, bus[k].al \in Active
               PROVE  bus'[k].fmmu = list'[k].FMMUunused
    BY <1>5 DEF MapKept, Active
  <2>1. list'[k].FMMUunused = list[k].FMMUunused
    BY <1>1, <1>2, ListAfter
  <2>2. CASE k \in Reached(at.s) /\ fate # "lost"
    BY <1>2, <1>5, <1>W, <2>1, <2>2
  <2>3. CASE ~(k \in Reached(at.s) /\ fate # "lost")
    <3>1. ~(at.s = k /\ bus[k].adr = k)
      <4> SUFFICES ASSUME at.s = k, bus[k].adr = k PROVE FALSE
        OBVIOUS
      <4>1. fate # "lost" /\ Reached(at.s) # {}
        BY <1>1 DEF Missed
      <4>2. at.s \in Reached(at.s)
        BY <1>2, <1>W, <4>1
      <4> QED
        BY <2>3, <4>1, <4>2
    <3>2. MapKept(k) /\ k \notin slips
      BY <1>2 DEF Watching, Routed
    <3> QED
      BY <1>5, <2>1, <2>3, <3>1, <3>2 DEF MapKept
  <2> QED
    BY <2>2, <2>3
<1>10. Halted'
  BY <1>1 DEF Halted
<1> QED
  BY <1>6, <1>7, <1>8, <1>9, <1>10 DEF Routed

\* the states of all slaves
LEMMA ReadsKeep ==
  ASSUME Watching, StartCheck \/ ecx_readstate
  PROVE  Addressed' /\ Identified' /\ Routed'
<1>1. /\ at.proc \in Readers /\ UNCHANGED <<bus, plan, slips>>
      /\ at'.proc \in {"readall", "readeach", "look"}
  BY Moves DEF Watching, StartCheck, ecx_readstate, ReadAll, ReadEach, Settled, Readers
<1>2. Devices' = Devices /\ Devices = Slaves
  BY <1>1, TreatedSlave DEF Devices, Watching
<1>3. /\ DOMAIN list' = Slaves
      /\ \A s \in Slaves : list'[s].configadr = list[s].configadr /\ list'[s].FMMUunused = list[s].FMMUunused
  <2>1. CASE StartCheck
    BY <2>1, TreatedSlave DEF StartCheck, Watching
  <2>2. CASE ecx_readstate
    <3>1. Counted
      BY TreatedSlave DEF Watching
    <3> QED
      BY <2>2, <3>1, ListRead DEF Watching, Akin, SameIds
  <2> QED
    BY <2>1, <2>2
<1>4. Slaves' = Slaves
  BY <1>3 DEF Slaves
<1>5. Addressed' /\ Identified'
  <2>1. Fading
    BY <1>1, <1>2, <1>4 DEF Fading
  <2> QED
    BY <1>1, <1>3, <2>1, Fewer DEF Readers, Temps, Checking
<1>6. Halted'
  BY <1>1 DEF Halted
<1>7. ASSUME NEW k \in Devices PROVE MapKept(k)'
  <2>1. MapKept(k)
    BY DEF Watching, Routed
  <2> QED
    BY <1>1, <1>2, <1>3, <2>1 DEF MapKept, Readers
<1>8. ASSUME NEW s \in Devices PROVE Warned(s)'
  <2> SUFFICES ASSUME at'.proc = "look", s \notin slips, list'[s].state = EC_STATE_SAFE_OP + EC_STATE_ERROR
               PROVE  bus[s].al \in Active
    BY <1>1 DEF Warned, Readers
  <2>0. s \in Slaves /\ s \in Int
    BY <1>2, Numbers DEF Watching
  <2>1. PICK fate : ReadAll(fate) \/ ReadEach(fate)
    <3>1. ~StartCheck
      BY Moves DEF StartCheck, Watching
    <3> QED
      BY <3>1 DEF ecx_readstate
  <2>2. \A k \in Devices : bus[k].al \in AlStates
    BY DEF Watching, Devs, IsDevice
  <2>3. ~ReadAll(fate)
    <3> SUFFICES ASSUME ReadAll(fate) PROVE FALSE
      OBVIOUS
    <3> DEFINE common == IF fate = "arrives" THEN CommonState(All) ELSE EC_STATE_NONE
    <3>1. common # EC_STATE_NONE /\ list' = [r \in Slaves |-> [list[r] EXCEPT !.state = common]]
      <4>1. ~Go("readeach")
        BY Moves DEF Watching
      <4> QED
        BY <4>1 DEF ReadAll
    <3>2. common = CommonState(All)
      BY <3>1
    <3> HIDE DEF common
    <3>3. list'[s].state = common
      <4>1. IsEntry(list[s])
        BY <2>0 DEF Watching, Configured, Learnt, Flow, Counted, CheckProcs, Return
      <4> QED
        BY <2>0, <3>1, <4>1 DEF IsEntry, Held
    <3>4. common \in AlStates
      <4>1. \E d \in All : TRUE
        BY <3>1, <3>2 DEF CommonState
      <4>2. (CHOOSE d \in All : TRUE) \in Devices
        BY <4>1 DEF All, Connected
      <4>3. CommonState(All) = bus[CHOOSE d \in All : TRUE].al
        BY <3>1, <3>2 DEF CommonState
      <4> QED
        BY <2>2, <3>2, <4>2, <4>3
    <3> QED
      BY <3>3, <3>4 DEF AlStates, EC_STATE_INIT, EC_STATE_PRE_OP, EC_STATE_SAFE_OP, EC_STATE_OPERATIONAL, EC_STATE_ERROR
  <2>4. list'[s].state = StateRead(s, fate)
    <3>1. IsEntry(list[s])
      BY <2>0 DEF Watching, Configured, Learnt, Flow, Counted, CheckProcs, Return
    <3> QED
      BY <2>0, <2>1, <2>3, <3>1 DEF ReadEach, IsEntry, Held
  <2>5. Reached(s) # {} /\ AlStatus(bus[Max(Reached(s))]) = EC_STATE_SAFE_OP + EC_STATE_ERROR
    BY <2>4 DEF StateRead, ReadOr, EC_STATE_NONE, EC_STATE_SAFE_OP, EC_STATE_ERROR
  <2>6. Reached(s) = {s}
    BY <1>1, <2>0, <2>5, WhoIsReached DEF Readers, Temps, Checking
  <2>7. AlStatus(bus[s]) = EC_STATE_SAFE_OP + EC_STATE_ERROR
    BY <2>0, <2>5, <2>6, MaxOfOne
  <2> QED
    BY <2>2, <2>7 DEF Active, AlStatus, AlStates, EC_STATE_INIT, EC_STATE_PRE_OP, EC_STATE_SAFE_OP, EC_STATE_OPERATIONAL, EC_STATE_ERROR
<1> QED
  BY <1>2, <1>5, <1>6, <1>7, <1>8 DEF Routed

-----------------------------------------------------------------------------
\* the temporary address is taken from who has it
LEMMA ClearKeeps ==
  ASSUME Watching, ecatcheck, NEW fate, ClearTemp(fate)
  PROVE  Addressed' /\ Identified' /\ Routed'
<1>1. /\ at.proc \in {"clear", "giveup"} /\ UNCHANGED plan
      /\ bus' = Wrote(bus, FP(Temp), LAMBDA d : [d EXCEPT !.adr = 0], fate)
      /\ slips' = IF fate = "lost" \/ \E k \in Devices \ Connected : bus[k].adr = Temp THEN slips \cup {at.s} ELSE slips
      /\ Then("temp") \/ NextSlave
  BY DEF ClearTemp, Write, Slip, Recovered, Settled
<1>2. /\ at'.proc \in {"temp", "look", "idle"} /\ (at'.proc = "temp" => at'.s = at.s)
      /\ at'.proc = "idle" \/ (at'.s = at.s /\ at'.proc # "look") \/ at'.s = at.s + 1
  BY <1>1, Moves DEF Watching
<1>3. /\ DOMAIN bus' = DOMAIN bus
      /\ \A k \in Devices : bus'[k] = IF k \in FP(Temp) /\ fate # "lost" THEN [bus[k] EXCEPT !.adr = 0] ELSE bus[k]
  BY <1>1 DEF Wrote, Devices
<1>4. \A k \in Devices : IsDevice(bus[k])
  BY DEF Watching, Devs
<1>5. \A k \in Devices :
        /\ bus'[k].kind = bus[k].kind /\ bus'[k].al = bus[k].al /\ bus'[k].fmmu = bus[k].fmmu
        /\ bus'[k].adr = IF k \in FP(Temp) /\ fate # "lost" THEN 0 ELSE bus[k].adr
  BY <1>3, <1>4 DEF IsDevice, Fields
<1>6. Devices' = Devices /\ Devices = Slaves /\ 0 \notin Slaves /\ 0 # Temp /\ slips \subseteq slips'
  BY <1>1, <1>3, TreatedSlave, Numbers DEF Devices, Watching
<1>7. Addressed' /\ Identified'
  <2>1. Fading
    BY <1>1, <1>5, <1>6, ListAfter DEF Fading
  <2>2. \A s \in Slaves : list'[s].configadr = list[s].configadr
    BY <1>1, ListAfter, TreatedSlave DEF Watching
  <2>3. ASSUME at'.proc = "temp", at'.s \notin slips', NEW k \in Devices PROVE bus'[k].adr # Temp
    <3>1. fate # "lost" /\ (bus[k].adr = Temp => k \in Connected)
      BY <1>1, <1>2, <2>3
    <3> QED
      BY <1>5, <1>6, <3>1 DEF FP
  <2> QED
    BY <1>1, <1>2, <2>1, <2>2, <2>3, Fewer DEF Temps, Checking
<1>8. ASSUME NEW k \in Devices, bus'[k].adr # bus[k].adr PROVE bus[k].adr = Temp
  BY <1>5, <1>8 DEF FP
<1>9. Routed'
  BY <1>1, <1>2, <1>5, <1>6, <1>8, RoutedCalm DEF Readers
<1> QED
  BY <1>7, <1>9

\* The members of a set of numbers up to one of them are as many as its rank.
LEMMA Ranks ==
  ASSUME NEW C, NEW k \in C, \A i \in C : i \in Int /\ 1 <= i
  PROVE  /\ k \in Nat
         /\ IsFiniteSet({i \in C : i <= k}) /\ Cardinality({i \in C : i <= k}) \in Nat
         /\ Cardinality({i \in C : i <= k}) <= k
         /\ (1 .. k) \subseteq C => Cardinality({i \in C : i <= k}) = k
         /\ \A j \in C : Cardinality({i \in C : i <= j}) = Cardinality({i \in C : i <= k}) => ~(j < k)
<1> DEFINE U(j) == {i \in C : i <= j}
<1>1. k \in Int /\ 1 <= k /\ k \in Nat
  OBVIOUS
<1>2. IsFiniteSet(1 .. k) /\ Cardinality(1 .. k) = k
  BY <1>1, FS_Interval
<1>3. U(k) \subseteq 1 .. k
  OBVIOUS
<1>4. (1 .. k) \subseteq C => U(k) = 1 .. k
  OBVIOUS
<1>5. \A j \in C : j < k => U(j) \subseteq U(k) /\ k \in U(k) /\ k \notin U(j)
  OBVIOUS
<1> HIDE DEF U
<1>6. IsFiniteSet(U(k)) /\ Cardinality(U(k)) <= k
  BY <1>2, <1>3, FS_Subset
<1>7. Cardinality(U(k)) \in Nat
  BY <1>6, FS_CardinalityType
<1>8. ASSUME NEW j \in C, j < k, Cardinality(U(j)) = Cardinality(U(k)) PROVE FALSE
  <2>1. U(j) \in SUBSET U(k) /\ U(j) # U(k)
    BY <1>5, <1>8
  <2> QED
    BY <1>6, <1>8, <2>1, FS_Subset
<1>9. (1 .. k) \subseteq C => Cardinality(U(k)) = k
  BY <1>2, <1>4
<1> QED
  BY <1>1, <1>6, <1>7, <1>8, <1>9 DEF U

\* Only one device is the n-th that is connected, and none before place n.
LEMMA AtOnePlace ==
  ASSUME Devs, DOMAIN plan.kinds = 1 .. Len(plan.kinds), Len(plan.kinds) \in Nat, NEW n
  PROVE  /\ \A j, k \in AP(n) : j = k
         /\ \A k \in AP(n) : k \in Devices /\ k \in Nat /\ n \in Nat /\ n <= k
         /\ \A k \in AP(n) : (1 .. k) \subseteq Connected => n = k
<1>1. Connected \subseteq Devices /\ \A i \in Connected : i \in Int /\ 1 <= i
  BY DEF Devs, Connected, Devices
<1>2. \A k \in AP(n) : k \in Connected /\ Cardinality({i \in Connected : i <= k}) = n
  BY DEF AP
<1>3. ASSUME NEW k \in AP(n)
      PROVE  /\ k \in Devices /\ k \in Nat /\ n \in Nat /\ n <= k
             /\ (1 .. k) \subseteq Connected => n = k
             /\ \A j \in AP(n) : ~(j < k)
  <2>1. k \in Connected /\ Cardinality({i \in Connected : i <= k}) = n
    BY <1>2
  <2>2. /\ k \in Nat
        /\ IsFiniteSet({i \in Connected : i <= k}) /\ Cardinality({i \in Connected : i <= k}) \in Nat
        /\ Cardinality({i \in Connected : i <= k}) <= k
        /\ (1 .. k) \subseteq Connected => Cardinality({i \in Connected : i <= k}) = k
        /\ \A j \in Connected : Cardinality({i \in Connected : i <= j}) = Cardinality({i \in Connected : i <= k}) => ~(j < k)
    BY <1>1, <2>1, Ranks
  <2> QED
    BY <1>1, <1>2, <2>1, <2>2
<1>4. ASSUME NEW j \in AP(n), NEW k \in AP(n) PROVE j = k
  <2>1. j \in Nat /\ k \in Nat /\ ~(j < k) /\ ~(k < j)
    BY <1>3
  <2> QED
    BY <2>1
<1> QED
  BY <1>3, <1>4

\* Who is found at the place of a slave is the slave or will be told from it.
LEMMA PlaceTells ==
  ASSUME Watching, NEW k \in AP(at.s)
  PROVE  \/ k = at.s /\ bus[k].kind = plan.kinds[at.s]
         \/ ~SameIdentity(bus[k].kind, plan.kinds[at.s])
<1>1. /\ plan \in Plans /\ DOMAIN plan.kinds = 1 .. Len(plan.kinds) /\ Len(plan.kinds) \in Nat
      /\ DOMAIN plan.wires = DOMAIN plan.kinds /\ Devices = DOMAIN plan.kinds
      /\ at.s \in DOMAIN plan.kinds /\ plan.cuts \in Nat
  BY PlanAssumption, TreatedSlave DEF Watching, Devs
<1>2. k \in Devices /\ k \in Connected /\ at.s <= k /\ ((1 .. k) \subseteq Connected => at.s = k)
  BY <1>1, AtOnePlace DEF Watching, AP
<1>3. bus[k].kind \in {plan.kinds[k]} \cup plan.spare
  BY <1>2 DEF Watching, Devs
<1>4. CASE plan.cuts = 0
  <2>1. \A j \in Devices : bus[j].power /\ bus[j].kind = plan.kinds[j]
    BY <1>4 DEF Watching, Devs, Whole
  <2>2. Connected = Devices
    BY <2>1 DEF Connected
  <2>3. at.s = k
    BY <1>1, <1>2, <2>2
  <2> QED
    BY <1>2, <2>1, <2>3
<1>5. CASE plan.cuts > 0
  <2>1. CASE bus[k].kind \in plan.spare
    BY <1>1, <1>5, <2>1, PlacesAssumption
  <2>2. CASE bus[k].kind = plan.kinds[k] /\ k # at.s
    <3>1. at.s \in 1 .. k - 1
      BY <1>1, <1>2, <2>2
    <3>2. CASE \A j \in 1 .. k : CutWith(plan.wires, j, k)
      <4>1. ASSUME NEW j \in 1 .. k PROVE j \in Connected
        <5>1. j \in Devices
          BY <1>1, <1>2
        <5>2. \A a \in Devices : j \in Below(plan.wires, a) => bus[a].power
          BY <1>1, <1>2, <3>2 DEF CutWith, Connected
        <5> QED
          BY <5>1, <5>2 DEF Connected
      <4> QED
        BY <1>2, <2>2, <4>1
    <3>3. CASE ~SameIdentity(plan.kinds[at.s], plan.kinds[k])
      BY <2>2, <3>3 DEF SameIdentity
    <3> QED
      BY <1>1, <1>2, <1>5, <3>1, <3>2, <3>3, PlacesAssumption
  <2> QED
    BY <1>3, <2>1, <2>2
<1> QED
  BY <1>1, <1>4, <1>5

\* the temporary address is given to who is at the place of the slave
LEMMA GiveKeeps ==
  ASSUME Watching, ecatcheck, NEW fate, GiveTemp(fate)
  PROVE  Addressed' /\ Identified' /\ Routed'
<1> DEFINE b1 == Wrote(bus, AP(at.s), LAMBDA d : [d EXCEPT !.adr = Temp], fate)
           given(k) == k \in AP(at.s) /\ fate # "lost"
<1>1. /\ at.proc = "temp" /\ UNCHANGED plan
      /\ \/ Then("alias")
         \/ Then("giveup") /\ list' = list
      /\ \/ bus' = [k \in Devices |-> IF b1[k].adr = Temp /\ list[at.s].eep_pdi
                                      THEN [b1[k] EXCEPT !.ctl = "master"] ELSE b1[k]]
         \/ bus' = b1
      /\ slips' = slips \cup {k \in Devices : b1[k].adr = Temp /\ bus[k].adr \in Slaves \ {k}}
  BY DEF GiveTemp, Settled
<1>2. at'.proc \in {"alias", "giveup"} /\ at'.s = at.s
  BY <1>1, Moves DEF Watching
<1>3. DOMAIN b1 = Devices /\ \A k \in Devices : b1[k] = IF given(k) THEN [bus[k] EXCEPT !.adr = Temp] ELSE bus[k]
  BY DEF Wrote, Devices
<1> HIDE DEF b1
<1>4. \A k \in Devices : IsDevice(bus[k])
  BY DEF Watching, Devs
<1>5. \A k \in Devices :
        /\ DOMAIN b1[k] = Fields
        /\ b1[k].kind = bus[k].kind /\ b1[k].al = bus[k].al /\ b1[k].fmmu = bus[k].fmmu
        /\ b1[k].adr = IF given(k) THEN Temp ELSE bus[k].adr
  BY <1>3, <1>4 DEF IsDevice, Fields
<1>6. /\ DOMAIN bus' = Devices
      /\ \A k \in Devices : bus'[k] = b1[k] \/ bus'[k] = [b1[k] EXCEPT !.ctl = "master"]
  BY <1>1, <1>3
<1> HIDE DEF given
<1>7. \A k \in Devices :
        /\ bus'[k].kind = bus[k].kind /\ bus'[k].al = bus[k].al /\ bus'[k].fmmu = bus[k].fmmu
        /\ bus'[k].adr = IF given(k) THEN Temp ELSE bus[k].adr
        /\ b1[k].adr = bus'[k].adr
  BY <1>5, <1>6 DEF Fields
<1>8. /\ Devices' = Devices /\ Devices = Slaves /\ Temp \notin Slaves /\ 0 # Temp /\ slips \subseteq slips'
      /\ at.s \in Slaves /\ Slaves' = Slaves
  BY <1>1, <1>6, TreatedSlave, Numbers, ListAfter DEF Devices, Watching
<1>9. Addressed'
  <2>1. \A s \in Slaves : list'[s].configadr = IF s = at'.s /\ at'.proc \in Temps THEN Temp ELSE s
    <3>1. \A s \in Slaves : list[s].configadr = s
      BY <1>1 DEF Watching, Addressed, Temps, Checking
    <3> QED
      BY <1>1, <1>2, <1>8, <3>1, ListAfter DEF Temps, Checking
  <2>2. ASSUME NEW k \in Devices
        PROVE  /\ bus'[k].adr \in Slaves \cup {0, Temp}
               /\ bus'[k].adr \in Slaves \ slips' => bus'[k].adr = k /\ bus'[k].kind = plan.kinds[k]
    BY <1>7, <1>8 DEF Watching, Addressed
  <2> QED
    BY <1>1, <1>8, <2>1, <2>2 DEF Addressed
<1>10. Identified'
  <2> SUFFICES ASSUME at.s \notin slips, NEW k \in Devices, bus'[k].adr = Temp, at'.proc = "alias"
               PROVE  Candidate(k)'
    BY <1>2, <1>8 DEF Identified, Checking
  <2>1. \A j \in Devices : bus'[j].adr = Temp => j \in AP(at.s)
    BY <1>1, <1>7 DEF Watching, Identified, given
  <2>2. k \in AP(at.s) /\ \A j \in Devices : bus'[j].adr = Temp => j = k
    <3>1. DOMAIN plan.kinds = 1 .. Len(plan.kinds) /\ Len(plan.kinds) \in Nat
      BY PlanAssumption DEF Watching, Devs
    <3> QED
      BY <2>1, <3>1, AtOnePlace DEF Watching
  <2>3. (k = at.s /\ bus[k].kind = plan.kinds[at.s]) \/ ~SameIdentity(bus[k].kind, plan.kinds[at.s])
    BY <2>2, PlaceTells
  <2> QED
    BY <1>1, <1>2, <1>7, <1>8, <2>2, <2>3 DEF Candidate
<1>11. Routed'
  <2>1. ASSUME NEW k \in Devices, k \notin slips', bus'[k].adr \in {0, k, Temp} PROVE bus[k].adr \in {0, k, Temp}
    <3>1. bus[k].adr \in Slaves \cup {0, Temp}
      BY DEF Watching, Addressed
    <3> QED
      BY <1>1, <1>7, <1>8, <2>1, <3>1
  <2>2. ASSUME NEW k \in Devices, bus'[k].adr = k PROVE bus[k].adr = k
    BY <1>7, <1>8, <2>2
  <2> QED
    BY <1>1, <1>2, <1>7, <1>8, <2>1, <2>2, RoutedCalm DEF Readers
<1> QED
  BY <1>9, <1>10, <1>11

\* a word that is what the list says is that of the device that has the temporary address
LEMMA WordTells ==
  ASSUME Watching, at.proc \in Checking, at.s \notin slips, NEW k \in Devices, bus[k].adr = Temp,
         NEW word \in IdWords, NEW how,
         WordRead(FP(Temp), word, how) = WordOf(plan.kinds[at.s], word)
  PROVE  Looks(k, word)
<1>1. plan.kinds[at.s] \in DOMAIN Kinds /\ IsDevice(bus[k]) /\ k \in Int
  BY TreatedSlave, Numbers, PlanAssumption DEF Watching, Devs
<1>2. WordOf(plan.kinds[at.s], word) # 0
  <2>1. word \in EepWords
    BY DEF EepWords
  <2> QED
    BY <1>1, <2>1, IdentityAssumption
<1>3. FP(Temp) = {k}
  <2>1. FP(Temp) # {} /\ FP(Temp) = {j \in Connected : bus[j].adr = Temp} /\ Connected \subseteq Devices
    BY <1>2 DEF WordRead, FP, Connected
  <2>2. \A j \in Devices : bus[j].adr = Temp => j = k
    BY DEF Watching, Identified, Candidate
  <2> QED
    BY <2>1, <2>2
<1> DEFINE e == IF how = "stale" THEN bus[k] ELSE EepCommand(bus[k], word)
<1>4. WordRead(FP(Temp), word, how) = Number(EepData(e))
  <2>1. Max(FP(Temp)) = k
    BY <1>1, <1>3, MaxOfOne
  <2>2. how # "nothing"
    BY <1>2 DEF WordRead
  <2> QED
    BY <1>3, <2>1, <2>2 DEF WordRead
<1>5. IsDevice(e) /\ e.kind = bus[k].kind
  <2>1. word \in EepWords
    BY DEF EepWords
  <2> QED
    BY <1>1, <2>1, Commands DEF Still
<1> HIDE DEF e
<1>6. e.data \in EepWords /\ Number(EepData(e)) = WordOf(bus[k].kind, e.data)
  <2>1. e.data \in EepWords \cup {NoWord}
    BY <1>5 DEF IsDevice
  <2> QED
    BY <1>2, <1>4, <1>5, <2>1, EepReads
<1>7. bus[k].kind \in DOMAIN Kinds
  BY <1>1 DEF IsDevice
<1>8. word = e.data
  BY <1>1, <1>4, <1>6, <1>7, IdentityAssumption
<1> QED
  BY <1>4, <1>6, <1>8 DEF Looks

\* the alias, and each word of the identity
LEMMA CheckKeeps ==
  ASSUME Watching, ecatcheck,
         \/ \E fate : CheckAlias(fate)
         \/ \E how : CheckIdentity(how)
  PROVE  Addressed' /\ Identified' /\ Routed'
<1>0. at.s \in Slaves /\ Devices = Slaves
  BY TreatedSlave DEF Watching
<1>1. ASSUME UNCHANGED plan, DOMAIN bus' = DOMAIN bus, slips \subseteq slips', UNCHANGED list,
             \A k \in Devices : /\ bus'[k].adr = bus[k].adr /\ bus'[k].kind = bus[k].kind
                                /\ bus'[k].al = bus[k].al /\ bus'[k].fmmu = bus[k].fmmu,
             at.proc \in Checking, at'.proc \in Temps, at'.s = at.s,
             \A k \in Devices : at.s \notin slips' /\ bus[k].adr = Temp =>
               /\ at'.proc \in {"is_man", "is_rev", "restore"} => Looks(k, ECT_SII_ID)
               /\ at'.proc \in {"is_rev", "restore"} => Looks(k, ECT_SII_MANUF)
               /\ at'.proc = "restore" => Looks(k, ECT_SII_REV)
      PROVE  Addressed' /\ Identified' /\ Routed'
  <2>1. Devices' = Devices /\ Slaves' = Slaves
    BY <1>1 DEF Devices, Slaves
  <2>2. Addressed' /\ Identified'
    BY <1>1, <2>1, Examined
  <2>3. Routed'
    BY <1>1, <2>1, RoutedCalm DEF Readers, Temps, Checking
  <2> QED
    BY <2>2, <2>3
<1>2. ASSUME NEW fate, CheckAlias(fate) PROVE Addressed' /\ Identified' /\ Routed'
  <2>1. /\ at.proc = "alias" /\ UNCHANGED <<plan, bus, list>> /\ slips \subseteq slips'
        /\ at'.proc \in {"is_id", "refuse"} /\ at'.s = at.s
    BY <1>2, Moves DEF Watching, CheckAlias, Slip, Settled
  <2> QED
    BY <1>1, <2>1 DEF Checking, Temps
<1>3. ASSUME NEW proc, NEW word \in IdWords, NEW entry, NEW next, NEW how, CheckWord(proc, word, entry, next, how),
             entry = WordOf(plan.kinds[at.s], word), proc \in Checking
      PROVE  /\ UNCHANGED <<plan, list, slips>> /\ DOMAIN bus' = DOMAIN bus
             /\ \A k \in Devices : /\ bus'[k].adr = bus[k].adr /\ bus'[k].kind = bus[k].kind
                                   /\ bus'[k].al = bus[k].al /\ bus'[k].fmmu = bus[k].fmmu
             /\ at.proc = proc /\ at'.proc \in {next, "refuse"} /\ at'.s = at.s
             /\ at'.proc # "refuse" /\ at.s \notin slips => \A k \in Devices : bus[k].adr = Temp => Looks(k, word)
  <2>1. /\ at.proc = proc /\ UNCHANGED <<plan, list, slips>>
        /\ Then(IF WordRead(FP(Temp), word, how) = entry THEN next ELSE "refuse")
        /\ bus' = Wrote(bus, FP(Temp), LAMBDA d : EepCommand(d, word), IF how = "stale" THEN "lost" ELSE "arrives")
    BY <1>3 DEF CheckWord, Same, Settled
  <2>2. DOMAIN bus' = DOMAIN bus /\ \A k \in Devices : bus'[k] \in {bus[k], EepCommand(bus[k], word)}
    BY <2>1 DEF Wrote, Devices
  <2>3. ASSUME NEW k \in Devices
        PROVE  /\ bus'[k].adr = bus[k].adr /\ bus'[k].kind = bus[k].kind
               /\ bus'[k].al = bus[k].al /\ bus'[k].fmmu = bus[k].fmmu
    <3>1. IsDevice(bus[k]) /\ word \in EepWords
      BY DEF Watching, Devs, EepWords
    <3> QED
      BY <2>2, <3>1, Commands DEF Still
  <2>4. /\ at'.proc = IF WordRead(FP(Temp), word, how) = entry THEN next ELSE "refuse"
        /\ at'.s = at.s
    BY <2>1, Moves DEF Watching
  <2>5. ASSUME at'.proc # "refuse", at.s \notin slips, NEW k \in Devices, bus[k].adr = Temp PROVE Looks(k, word)
    BY <1>3, <2>1, <2>4, <2>5, WordTells
  <2> QED
    BY <2>1, <2>2, <2>3, <2>4, <2>5
<1>4. ASSUME NEW how, CheckIdentity(how) PROVE Addressed' /\ Identified' /\ Routed'
  <2>1. at.proc \in {"is_id", "is_man", "is_rev"}
    BY <1>4 DEF CheckIdentity, CheckWord
  <2>2. /\ list[at.s].eep_man = WordOf(plan.kinds[at.s], ECT_SII_MANUF)
        /\ list[at.s].eep_id = WordOf(plan.kinds[at.s], ECT_SII_ID)
        /\ list[at.s].eep_rev = WordOf(plan.kinds[at.s], ECT_SII_REV)
    <3>1. Learnt(at.s)
      BY <1>0, TreatedSlave DEF Watching, Configured
    <3> QED
      BY <2>1, <3>1 DEF Learnt, ManRead, IdRead, RevRead
  <2>W. {ECT_SII_ID, ECT_SII_MANUF, ECT_SII_REV} \subseteq IdWords /\ {"is_id", "is_man", "is_rev"} \subseteq Checking
    BY DEF IdWords, Checking
  <2>C. at.s \notin slips => \A k \in Devices : bus[k].adr = Temp => Candidate(k)
    BY <2>1 DEF Watching, Identified, Checking
  <2>3. CASE CheckWord("is_id", ECT_SII_ID, list[at.s].eep_id, "is_man", how)
    <3>1. /\ UNCHANGED <<plan, list, slips>> /\ DOMAIN bus' = DOMAIN bus
          /\ \A k \in Devices : /\ bus'[k].adr = bus[k].adr /\ bus'[k].kind = bus[k].kind
                                /\ bus'[k].al = bus[k].al /\ bus'[k].fmmu = bus[k].fmmu
          /\ at.proc = "is_id" /\ at'.proc \in {"is_man", "refuse"} /\ at'.s = at.s
          /\ at'.proc # "refuse" /\ at.s \notin slips => \A k \in Devices : bus[k].adr = Temp => Looks(k, ECT_SII_ID)
      BY <1>3, <2>2, <2>3, <2>W
    <3> QED
      BY <1>1, <3>1, <2>W DEF Temps, Checking
  <2>4. CASE CheckWord("is_man", ECT_SII_MANUF, list[at.s].eep_man, "is_rev", how)
    <3>1. /\ UNCHANGED <<plan, list, slips>> /\ DOMAIN bus' = DOMAIN bus
          /\ \A k \in Devices : /\ bus'[k].adr = bus[k].adr /\ bus'[k].kind = bus[k].kind
                                /\ bus'[k].al = bus[k].al /\ bus'[k].fmmu = bus[k].fmmu
          /\ at.proc = "is_man" /\ at'.proc \in {"is_rev", "refuse"} /\ at'.s = at.s
          /\ at'.proc # "refuse" /\ at.s \notin slips => \A k \in Devices : bus[k].adr = Temp => Looks(k, ECT_SII_MANUF)
      BY <1>3, <2>2, <2>4, <2>W
    <3>2. at.s \notin slips => \A k \in Devices : bus[k].adr = Temp => Looks(k, ECT_SII_ID)
      BY <2>C, <3>1 DEF Candidate
    <3> QED
      BY <1>1, <3>1, <3>2, <2>W DEF Temps, Checking
  <2>5. CASE CheckWord("is_rev", ECT_SII_REV, list[at.s].eep_rev, "restore", how)
    <3>1. /\ UNCHANGED <<plan, list, slips>> /\ DOMAIN bus' = DOMAIN bus
          /\ \A k \in Devices : /\ bus'[k].adr = bus[k].adr /\ bus'[k].kind = bus[k].kind
                                /\ bus'[k].al = bus[k].al /\ bus'[k].fmmu = bus[k].fmmu
          /\ at.proc = "is_rev" /\ at'.proc \in {"restore", "refuse"} /\ at'.s = at.s
          /\ at'.proc # "refuse" /\ at.s \notin slips => \A k \in Devices : bus[k].adr = Temp => Looks(k, ECT_SII_REV)
      BY <1>3, <2>2, <2>5, <2>W
    <3>2. at.s \notin slips => \A k \in Devices : bus[k].adr = Temp => Looks(k, ECT_SII_ID) /\ Looks(k, ECT_SII_MANUF)
      BY <2>C, <3>1 DEF Candidate
    <3> QED
      BY <1>1, <3>1, <3>2, <2>W DEF Temps, Checking
  <2> QED
    BY <1>4, <2>3, <2>4, <2>5 DEF CheckIdentity
<1> QED
  BY <1>2, <1>4

\* the last frame: the slave gets its address back only if it is the slave
LEMMA LastKeeps ==
  ASSUME Watching, ecatcheck, NEW fate, LastAddress(fate)
  PROVE  Addressed' /\ Identified' /\ Routed'
<1> DEFINE new == IF at.proc = "restore" THEN at.s ELSE 0
<1>1. /\ at.proc \in {"restore", "refuse"} /\ UNCHANGED plan
      /\ bus' = Wrote(bus, FP(Temp), LAMBDA d : [d EXCEPT !.adr = new], fate)
      /\ slips' = IF fate = "lost" THEN slips \cup {at.s} ELSE slips
      /\ NextSlave
  BY DEF LastAddress, Slip, Recovered, Settled
<1>2. (at'.proc = "look" /\ at'.s = at.s + 1) \/ at'.proc = "idle"
  BY <1>1, Moves DEF Watching
<1>3. new \in {0, at.s} /\ (new = at.s => at.proc = "restore" \/ at.s = 0)
  OBVIOUS
<1>4. /\ DOMAIN bus' = DOMAIN bus
      /\ \A k \in Devices : bus'[k] = bus[k] \/ (bus[k].adr = Temp /\ fate # "lost" /\ bus'[k] = [bus[k] EXCEPT !.adr = new])
  BY <1>1 DEF Wrote, Devices, FP
<1> HIDE DEF new
<1>5. \A k \in Devices : IsDevice(bus[k])
  BY DEF Watching, Devs
<1>6. \A k \in Devices :
        /\ bus'[k].kind = bus[k].kind /\ bus'[k].al = bus[k].al /\ bus'[k].fmmu = bus[k].fmmu
        /\ bus'[k].adr = bus[k].adr \/ (bus[k].adr = Temp /\ fate # "lost" /\ bus'[k].adr = new)
  BY <1>4, <1>5 DEF IsDevice, Fields
<1>7. /\ Devices' = Devices /\ Devices = Slaves /\ Temp \notin Slaves /\ 0 \notin Slaves /\ 0 # Temp /\ slips \subseteq slips'
      /\ at.s \in Slaves /\ Slaves' = Slaves /\ \A s \in Slaves : s \in Int
  BY <1>1, <1>4, TreatedSlave, Numbers, ListAfter DEF Devices, Watching
<1>8. ASSUME NEW k \in Devices, bus[k].adr = Temp, at.proc = "restore", at.s \notin slips
      PROVE  k = at.s /\ bus[k].kind = plan.kinds[at.s]
  <2>1. Candidate(k)
    BY <1>8 DEF Watching, Identified, Checking
  <2>2. Looks(k, ECT_SII_ID) /\ Looks(k, ECT_SII_MANUF) /\ Looks(k, ECT_SII_REV)
    BY <1>8, <2>1 DEF Candidate
  <2>3. SameIdentity(bus[k].kind, plan.kinds[at.s])
    BY <2>2 DEF SameIdentity, IdWords, Looks
  <2> QED
    BY <2>1, <2>3 DEF Candidate
<1>9. Addressed'
  <2>1. \A s \in Slaves : list'[s].configadr = IF s = at'.s /\ at'.proc \in Temps THEN Temp ELSE s
    <3>1. \A s \in Slaves : s # at.s => list[s].configadr = s
      BY DEF Watching, Addressed
    <3> QED
      BY <1>1, <1>2, <1>7, <3>1, ListAfter DEF Temps, Checking
  <2>2. ASSUME NEW k \in Devices
        PROVE  /\ bus'[k].adr \in Slaves \cup {0, Temp}
               /\ bus'[k].adr \in Slaves \ slips' => bus'[k].adr = k /\ bus'[k].kind = plan.kinds[k]
    <3>1. CASE bus'[k].adr = bus[k].adr
      BY <1>6, <1>7, <3>1 DEF Watching, Addressed
    <3>2. CASE bus[k].adr = Temp /\ bus'[k].adr = new
      BY <1>3, <1>6, <1>7, <1>8, <3>2
    <3> QED
      BY <1>6, <3>1, <3>2
  <2> QED
    BY <1>1, <1>7, <2>1, <2>2 DEF Addressed
<1>10. Identified'
  BY <1>2 DEF Identified, Checking
<1>11. Routed'
  <2>1. \A k \in Devices : bus'[k].adr # bus[k].adr => bus[k].adr = Temp
    BY <1>6
  <2>2. ASSUME NEW k \in Devices, k > at.s, bus'[k].adr = k PROVE bus[k].adr = k
    BY <1>3, <1>6, <1>7, <2>2
  <2>3. at'.proc = "idle" \/ (at'.s = at.s /\ at'.proc # "look") \/ at'.s = at.s + 1
    BY <1>2
  <2>4. at'.proc \notin {"rc_safeop", "rc_fmmu"}
    BY <1>2
  <2> QED
    BY <1>1, <2>3, <2>4, <1>6, <1>7, <2>1, <2>2, RoutedCalm DEF Readers
<1> QED
  BY <1>9, <1>10, <1>11

\* A device that loses its power has no address; one that misses its frames leaves OP.
LEMMA EnvironmentKeeps ==
  ASSUME Watching, Environment, UnseenBy
  PROVE  Addressed' /\ Identified' /\ Routed'
<1>1. UNCHANGED <<at, list, slips, plan>>
  BY DEF Environment, UnseenBy, checkvars, PowerOff, PowerOn, Watchdog
<1>2. \A k \in Devices : IsDevice(bus[k])
  BY DEF Watching, Devs
<1>3. PICK k \in Devices : /\ DOMAIN bus' = DOMAIN bus /\ \A j \in Devices : j # k => bus'[j] = bus[j]
                           /\ \/ bus'[k].adr = 0 /\ bus'[k].al = EC_STATE_INIT
                              \/ /\ bus'[k].adr = bus[k].adr /\ bus'[k].kind = bus[k].kind /\ bus'[k].fmmu = bus[k].fmmu
                                 /\ bus[k].al = EC_STATE_OPERATIONAL /\ bus'[k].al = EC_STATE_SAFE_OP
  <2>1. ASSUME NEW k \in Devices, PowerOff(k)
        PROVE  /\ DOMAIN bus' = DOMAIN bus /\ \A j \in Devices : j # k => bus'[j] = bus[j]
               /\ bus'[k].adr = 0 /\ bus'[k].al = EC_STATE_INIT
    BY <2>1 DEF PowerOff, Dark, Started, Devices
  <2>2. ASSUME NEW k \in Devices, NEW kind, PowerOn(k, kind)
        PROVE  /\ DOMAIN bus' = DOMAIN bus /\ \A j \in Devices : j # k => bus'[j] = bus[j]
               /\ bus'[k].adr = 0 /\ bus'[k].al = EC_STATE_INIT
    BY <2>2 DEF PowerOn, Started, Devices
  <2>3. ASSUME NEW k \in Devices, Watchdog(k)
        PROVE  /\ DOMAIN bus' = DOMAIN bus /\ \A j \in Devices : j # k => bus'[j] = bus[j]
               /\ bus'[k].adr = bus[k].adr /\ bus'[k].kind = bus[k].kind /\ bus'[k].fmmu = bus[k].fmmu
               /\ bus[k].al = EC_STATE_OPERATIONAL /\ bus'[k].al = EC_STATE_SAFE_OP
    <3> DEFINE d == [bus[k] EXCEPT !.al = EC_STATE_SAFE_OP]
               e == [d EXCEPT !.err = TRUE]
    <3>1. bus' = [bus EXCEPT ![k] = e] /\ bus[k].al = EC_STATE_OPERATIONAL
      BY <2>3 DEF Watchdog
    <3>2. e.adr = bus[k].adr /\ e.kind = bus[k].kind /\ e.fmmu = bus[k].fmmu /\ e.al = EC_STATE_SAFE_OP
      BY <1>2 DEF IsDevice, Fields
    <3> HIDE DEF e
    <3> QED
      BY <3>1, <3>2 DEF Devices
  <2> QED
    BY <2>1, <2>2, <2>3 DEF Environment
<1>4. /\ Devices' = Devices /\ Devices = Slaves /\ Slaves' = Slaves
      /\ \A s \in Slaves : s # 0
  BY <1>1, <1>3, TreatedSlave, Numbers DEF Watching, Devices, Slaves
<1>5. Addressed' /\ Identified'
  <2>1. \A j \in Devices : (bus'[j].adr = bus[j].adr /\ bus'[j].kind = bus[j].kind) \/ bus'[j].adr = 0
    BY <1>3
  <2>2. Fading
    BY <1>1, <1>4, <2>1 DEF Fading
  <2> QED
    BY <1>1, <2>2, Fewer
<1>6. EC_STATE_INIT \notin Active /\ EC_STATE_SAFE_OP \in Active /\ EC_STATE_OPERATIONAL \in Active
      /\ EC_STATE_SAFE_OP # EC_STATE_OPERATIONAL
  BY DEF Active, EC_STATE_INIT, EC_STATE_SAFE_OP, EC_STATE_OPERATIONAL
<1>7. ASSUME NEW j \in Devices PROVE MapKept(j)' /\ Warned(j)'
  <2>1. MapKept(j) /\ Warned(j)
    BY DEF Watching, Routed
  <2>2. \/ bus'[j].adr = 0 /\ bus'[j].al = EC_STATE_INIT
        \/ /\ bus'[j].adr = bus[j].adr /\ bus'[j].fmmu = bus[j].fmmu
           /\ bus'[j].al = bus[j].al \/ (bus[j].al \in Active /\ bus'[j].al \in Active)
    BY <1>3, <1>6
  <2>3. MapKept(j)'
    BY <1>1, <1>6, <2>1, <2>2 DEF MapKept, Active
  <2>4. Warned(j)'
    BY <1>1, <1>4, <1>6, <2>1, <2>2 DEF Warned, Ahead, Active
  <2> QED
    BY <2>3, <2>4
<1>8. Halted'
  <2>1. Halted /\ at.s \in Devices
    BY <1>4, TreatedSlave DEF Watching, Routed
  <2>2. \/ bus'[at.s].adr = 0
        \/ bus'[at.s].adr = bus[at.s].adr /\ (bus'[at.s].al = EC_STATE_OPERATIONAL => bus[at.s].al = EC_STATE_OPERATIONAL)
    BY <1>3, <1>6, <2>1
  <2> QED
    BY <1>1, <1>4, <2>1, <2>2 DEF Halted
<1> QED
  BY <1>4, <1>5, <1>7, <1>8 DEF Routed

\* When the watch begins every slave has its address and the FMMUs of the list.
LEMMA WatchStarts ==
  ASSUME Flow, Devs, Configured, Watch
  PROVE  Addressed' /\ Identified' /\ Routed'
<1>1. /\ at.proc = Return /\ UNCHANGED <<bus, list, slips, plan>> /\ at'.proc = "idle" /\ at'.s = 1
  BY DEF Watch, Does, GoTo, Kept, Untroubled
<1>2. ~inOP /\ slips = {}
  BY <1>1 DEF Flow, CheckProcs, Return
<1>3. at.pc > 1
  <2>1. Len(Script) \in Nat /\ Script[1] \in {"config_init", "tool"}
    BY PlanAssumption, Scripts DEF Devs, Script
  <2>2. at.pc \in 1 .. Len(Script) + 1 /\ Script[at.pc] = "watch"
    BY DEF Watch, Does, Flow, Places
  <2> QED
    BY <2>1, <2>2
<1>4. Counted
  BY <1>1, <1>3 DEF Counted, Return
<1>5. Slaves = Devices /\ \A k \in Devices : bus[k].kind = plan.kinds[k]
  BY <1>2, <1>4, AllThere DEF Whole
<1>6. \A k \in Slaves : bus[k].adr = k /\ list[k].configadr = k /\ bus[k].fmmu = list[k].FMMUunused
  BY <1>1, <1>2, <1>4 DEF Configured, Given, Placed, Return
<1>7. Slaves' = Slaves /\ Devices' = Devices
  BY <1>1 DEF Slaves, Devices
<1>8. \A k \in Slaves : k # Temp
  <2>1. Slaves = 1 .. Len(list) /\ Len(list) \in 0 .. EC_MAXSLAVE - 1
    BY DEF Flow, Slaves
  <2> QED
    BY <2>1, Sizes
<1>9. Addressed'
  BY <1>1, <1>5, <1>6, <1>7 DEF Addressed, Temps, Checking
<1>10. Identified'
  BY <1>1, <1>5, <1>6, <1>7, <1>8 DEF Identified, Checking
<1>11. Routed'
  BY <1>1, <1>5, <1>6, <1>7 DEF Routed, MapKept, Warned, Halted, Readers
<1> QED
  BY <1>9, <1>10, <1>11

LEMMA WatchedKept ==
  ASSUME Flow, Devs, Budget, Configured, Watched, Next
  PROVE  Watched'
<1> SUFFICES ASSUME inOP' PROVE Addressed' /\ Identified' /\ Routed'
  BY DEF Watched
<1>I. inOP => Watching
  BY DEF Watched, Watching, Flow
<1>F. Flow'
  BY FlowKept
<1>1. ~(ecx_config_init /\ UNCHANGED <<hold, clocked, checkvars>>)
  <2> SUFFICES ASSUME ecx_config_init, UNCHANGED checkvars PROVE FALSE
    OBVIOUS
  <2>1. at.proc \in CheckProcs
    BY DEF checkvars, Flow
  <2> QED
    BY <2>1, Stages DEF ecx_config_init, CheckProcs
<1>2. ~(ecx_config_map /\ UNCHANGED checkvars)
  <2> SUFFICES ASSUME ecx_config_map, UNCHANGED checkvars PROVE FALSE
    OBVIOUS
  <2>1. at.proc \in CheckProcs
    BY DEF checkvars, Flow
  <2>2. at.proc \in MapProcs
    BY DEF ecx_config_map, MapCoe, MapSii, MapFmmus, ConfigDc, MapProcs
  <2> QED
    BY <2>1, <2>2 DEF MapProcs, CheckProcs
<1>3. CASE erob_test
  <2>1. at.proc = Return
    BY <1>3 DEF erob_test, CallConfigInit, CallConfigMap, CallConfigDc, PreOpEach, PreOpAll, MapPdos, Assign, SetManual,
           Sync0, InPreOp, RequestSafeOp, RequestOp, Request, Watch, Control, Does
  <2>2. ~inOP
    BY <2>1 DEF Flow, CheckProcs, Return
  <2>3. Watch
    BY <1>3, <2>2 DEF erob_test, CallConfigInit, CallConfigMap, CallConfigDc, PreOpEach, PreOpAll, MapPdos, Assign,
           SetManual, Sync0, InPreOp, RequestSafeOp, RequestOp, Request, Control
  <2> QED
    BY <2>3, WatchStarts
<1>4. CASE ecatcheck
  <2>1. Watching
    BY <1>4, <1>I DEF ecatcheck, StartCheck, ecx_readstate, ReadAll, ReadEach, LookOperational, LookElse, LookLost,
           LookError, LookSafeOp, Recheck, ecx_reconfig_slave, ReconfigInit, ReconfigPdi, ReconfigSm, ReconfigPreOp,
           ReconfigSafeOp, ReconfigFmmu, ecx_recover_slave, Probe, ClearTemp, CheckAlias, GiveTemp, LastAddress,
           CheckIdentity, CheckWord, Settled
  <2>2. CASE StartCheck \/ ecx_readstate
    BY <2>1, <2>2, ReadsKeep
  <2>3. CASE LookOperational \/ LookElse \/ LookLost \/ \E fate : Recheck(fate) \/ Probe(fate)
    BY <1>4, <2>1, <2>3, LooksOnly
  <2>4. ASSUME NEW fate, LookError(fate) \/ LookSafeOp(fate) PROVE Addressed' /\ Identified' /\ Routed'
    BY <1>4, <2>1, <2>4, LooksKeep
  <2>5. CASE ecx_reconfig_slave
    <3>1. CASE (\E fate : ReconfigInit(fate) \/ ReconfigPdi(fate)) \/ (\E fate, n : ReconfigSm(fate, n))
      BY <1>4, <2>1, <3>1, ReconfigKeeps
    <3>2. ASSUME NEW fate, ReconfigPreOp(fate) PROVE Addressed' /\ Identified' /\ Routed'
      BY <1>4, <2>1, <3>2, PreOpKeeps
    <3>3. ASSUME NEW fate, ReconfigSafeOp(fate) PROVE Addressed' /\ Identified' /\ Routed'
      BY <1>4, <2>1, <3>3, SafeOpKeeps
    <3>4. ASSUME NEW fate, ReconfigFmmu(fate) PROVE Addressed' /\ Identified' /\ Routed'
      BY <1>4, <2>1, <3>4, FmmuKeeps
    <3> QED
      BY <2>5, <3>1, <3>2, <3>3, <3>4 DEF ecx_reconfig_slave
  <2>6. CASE ecx_recover_slave
    <3>1. ASSUME NEW fate, Probe(fate) PROVE Addressed' /\ Identified' /\ Routed'
      BY <2>3, <3>1
    <3>2. ASSUME NEW fate, ClearTemp(fate) PROVE Addressed' /\ Identified' /\ Routed'
      BY <1>4, <2>1, <3>2, ClearKeeps
    <3>3. ASSUME NEW fate, GiveTemp(fate) PROVE Addressed' /\ Identified' /\ Routed'
      BY <1>4, <2>1, <3>3, GiveKeeps
    <3>4. ASSUME NEW fate, LastAddress(fate) PROVE Addressed' /\ Identified' /\ Routed'
      BY <1>4, <2>1, <3>4, LastKeeps
    <3>5. CASE (\E fate : CheckAlias(fate)) \/ (\E how : CheckIdentity(how))
      BY <1>4, <2>1, <3>5, CheckKeeps
    <3> QED
      BY <2>6, <3>1, <3>2, <3>3, <3>4, <3>5 DEF ecx_recover_slave
  <2> QED
    BY <1>4, <2>2, <2>3, <2>4, <2>5, <2>6 DEF ecatcheck
<1>5. CASE inOP /\ Environment /\ UnseenBy
  BY <1>5, <1>I, EnvironmentKeeps
<1>6. CASE (\E fate : Cycle(fate)) \/ ecatthread \/ eepromtool \/ RomDone \/ RomNack
  <2>1. CASE UNCHANGED bus /\ Spends /\ UNCHANGED <<at, list, slips, inOP>>
    <3>1. Watching /\ UNCHANGED <<bus, at, list, slips, plan>>
      BY <1>I, <2>1 DEF Spends
    <3>2. Devices' = Devices /\ Slaves' = Slaves
      BY <3>1 DEF Devices, Slaves
    <3>3. Addressed' /\ Identified'
      BY <3>1, <3>2 DEF Watching, Addressed, Identified, Candidate, Looks
    <3>4. Routed'
      BY <3>1, <3>2 DEF Watching, Routed, MapKept, Warned, Ahead, Halted
    <3> QED
      BY <3>3, <3>4
  <2>2. CASE StartTool
    <3>1. at'.proc = "tool"
      BY <2>2 DEF StartTool, GoTo
    <3> QED
      BY <1>F, <3>1 DEF Flow, CheckProcs
  <2> QED
    BY <1>6, <2>1, <2>2, OthersTame
<1> QED
  BY <1>1, <1>2, <1>3, <1>4, <1>5, <1>6 DEF Next

-----------------------------------------------------------------------------
\* the networks of the tests in every state
LEMMA WatchCourse == Spec => [](Configured /\ Watched)
<1>1. Init => Configured /\ Watched
  BY DEF Init, Configured, Counted, Watched
<1>2. Flow /\ Devs /\ Budget /\ Configured /\ Watched /\ [Next]_netall => (Configured /\ Watched)'
  <2> SUFFICES ASSUME Flow, Devs, Budget, Configured, Watched, [Next]_netall PROVE (Configured /\ Watched)'
    OBVIOUS
  <2>1. CASE Next
    BY <2>1, ConfiguredKept, WatchedKept
  <2>2. CASE UNCHANGED netall
    <3>1. UNCHANGED <<at, list, slips, inOP, plan, bus>>
      BY <2>2 DEF netall, vars, mapvars, netvars, checkvars
    <3>2. Devices' = Devices /\ Slaves' = Slaves
      BY <3>1 DEF Devices, Slaves
    <3>3. Addressed' <=> Addressed
      BY <3>1, <3>2 DEF Addressed
    <3>4. Identified' <=> Identified
      BY <3>1, <3>2 DEF Identified, Candidate, Looks
    <3>5. Routed' <=> Routed
      BY <3>1, <3>2 DEF Routed, MapKept, Warned, Ahead, Halted
    <3>6. Configured'
      BY <3>1, SameConfigured
    <3> QED
      BY <3>1, <3>3, <3>4, <3>5, <3>6 DEF Watched
  <2> QED
    BY <2>1, <2>2
<1> QED
  BY <1>1, <1>2, Course, PTL DEF Spec

\* ecx_config_init gives every slave the number of its place as its address, and the
\* list has its identity, read from EEPROMs while the reads of the other slaves are
\* under way; the FMMUs of the slaves are those the list has counted.
THEOREM BringUpGivesPlaces == Spec => []Configured
<1> QED
  BY WatchCourse, PTL

\* Whatever slaves lose their power, come back or are replaced while ecatcheck recovers
\* others, and whatever frames are lost: the address of a slave leads to this slave, but
\* for slips.
THEOREM AddressesLeadHome == Spec => []PlaceKept
<1>1. Flow /\ Devs /\ Watched => PlaceKept
  BY DEF Watched, Addressed, PlaceKept, Slaves
<1> QED
  BY <1>1, WatchCourse, Course, PTL

\* No slave is in OP with FMMUs other than those ec_config_map gave it, whichever way
\* ecatcheck brought it there, but for slips.
THEOREM OpMeansConfigured == Spec => []OperationalIsConfigured
<1>1. Flow /\ Devs /\ Watched => OperationalIsConfigured
  <2> SUFFICES ASSUME Flow, Devs, Watched, inOP, NEW k \in Devices,
                      bus[k].al = EC_STATE_OPERATIONAL, bus[k].adr = k, k \notin slips
               PROVE  bus[k].fmmu = list[k].FMMUunused
    BY DEF OperationalIsConfigured
  <2>1. MapKept(k) /\ Halted
    BY DEF Watched, Routed
  <2> QED
    BY <2>1 DEF MapKept, Halted, Active
<1> QED
  BY <1>1, WatchCourse, Course, PTL

-----------------------------------------------------------------------------
(***************************************************************************)
(* The parents of the slaves are those of the cables.                      *)
(***************************************************************************)
\* ec_config_init and the tool come first in a program, and no program asks for both.
LEMMA FirstCalls ==
  ASSUME NEW p \in DOMAIN Programs, NEW i \in 1 .. Len(Programs[p].script),
         Programs[p].script[i] \in {"config_init", "tool"}
  PROVE  i = 1
<1> DEFINE Starts(t) == \A j \in 1 .. Len(t) : t[j] \in {"config_init", "tool"} => j = 1
           Tests == {redtest, simpletest, eoetest, slaveinfo, eepromtool_calls}
<1>1. Starts(CSP_find \o CSP_run) /\ Starts(CSV_find \o CSV_run) /\ Starts(erob_find \o erob_run)
  BY DEF CSP_find, CSP_run, CSV_find, CSV_run, erob_find, erob_run
<1>2. Starts(SUB_find \o SUB_run) /\ Starts(TC_find \o TC_run) /\ Starts(PP_find \o PP_run)
  BY DEF SUB_find, SUB_run, TC_find, TC_run, PP_find, PP_run, Sync0First
<1>3. Starts(CST_find \o CST_run) /\ Starts(PT_find \o PT_run) /\ Starts(PV_find \o PV_run)
  BY DEF CST_find, CST_run, PT_find, PT_run, PV_find, PV_run, Sync0First
<1>4. \A t \in Tests : Starts(t)
  BY DEF redtest, simpletest, eoetest, slaveinfo, eepromtool_calls
<1>5. p \in {"csp", "csp_subscriber", "tc", "pp", "cst", "pt", "pv", "csv", "erob_test", "red_test", "simple_test", "eoe_test",
            "slaveinfo", "eepromtool"}
  BY DEF Programs
<1>7. /\ Programs["csp"].script = CSP_find \o CSP_run
      /\ Programs["csp_subscriber"].script = SUB_find \o SUB_run
      /\ Programs["tc"].script = TC_find \o TC_run
      /\ Programs["pp"].script = PP_find \o PP_run
      /\ Programs["cst"].script = CST_find \o CST_run
  BY DEF Programs, Demo
<1>8. /\ Programs["pt"].script = PT_find \o PT_run
      /\ Programs["pv"].script = PV_find \o PV_run
      /\ Programs["csv"].script = CSV_find \o CSV_run
      /\ Programs["erob_test"].script = erob_find \o erob_run
  BY DEF Programs, Demo, Test
<1>9. \A q \in {"red_test", "simple_test", "eoe_test", "slaveinfo", "eepromtool"} : Programs[q].script \in Tests
  BY DEF Programs, Test
<1> HIDE DEF Tests, Starts
<1>6. Starts(Programs[p].script)
  BY <1>1, <1>2, <1>3, <1>4, <1>5, <1>7, <1>8, <1>9
<1> QED
  BY <1>6 DEF Starts

\* No slave is mapped while the slaves are looked for.
Unmapped == at.proc \in ConfigProcs \cup {"tool"} => ~Called("config_map")

\* where a step goes that stays in its procedure
LEMMA WhereGoes ==
  ASSUME Flow, NEW procs, Goes(procs)
  PROVE  at'.proc \in procs /\ at'.pc = at.pc /\ DOMAIN list' = DOMAIN list
<1>1. DOMAIN at = {"proc", "s", "pc"}
  BY DEF Flow, Places
<1> QED
  BY <1>1 DEF Goes, GoOn

\* A step of ec_config_init stays where the program is.
LEMMA InitStays ==
  ASSUME Flow, ecx_config_init
  PROVE  at.proc \in ConfigProcs /\ UNCHANGED plan /\ at'.pc = at.pc
<1>1. CASE ecx_detect_slaves
  <2>1. at.proc = "detect" /\ UNCHANGED plan /\ \E p : GoOn(p, 1)
    BY <1>1 DEF ecx_detect_slaves, Untroubled, Go
  <2>2. DOMAIN at = {"proc", "s", "pc"}
    BY DEF Flow, Places
  <2> QED
    BY <2>1, <2>2 DEF GoOn, ConfigProcs
<1>2. CASE ~ecx_detect_slaves
  BY <1>2, StagesGo, WhereGoes DEF InitProcs
<1> QED
  BY <1>1, <1>2

LEMMA MapStays ==
  ASSUME Flow, ecx_config_map
  PROVE  at'.proc \in MapProcs \cup {Return} /\ at'.pc = at.pc /\ DOMAIN list' = DOMAIN list
  BY SurveyGoes, WhereGoes

\* where a call of the program goes, or where the program stops
LEMMA TestGoes ==
  ASSUME Flow, Devs, erob_test
  PROVE  /\ at.proc = Return /\ UNCHANGED plan
         /\ \/ CallConfigInit /\ at.pc = 1 /\ at' = [proc |-> "detect", s |-> 1, pc |-> 2]
            \/ ~CallConfigInit /\ at.pc > 1 /\ at'.proc \in {"coe", "dc", "idle", "loop", Return} /\ at'.pc = at.pc + 1
            \/ ~CallConfigInit /\ at.pc > 1 /\ at'.proc = "stopped" /\ at'.pc = at.pc
<1>S. plan.program \in DOMAIN Programs /\ Len(Script) \in Nat /\ Script[1] \in {"config_init", "tool"}
  BY PlanAssumption, Scripts DEF Devs, Script
<1>1. at.proc = Return /\ UNCHANGED plan
  BY DEF erob_test, CallConfigInit, CallConfigMap, CallConfigDc, PreOpEach, PreOpAll, MapPdos, Assign, SetManual, Sync0,
         InPreOp, RequestSafeOp, RequestOp, Request, Watch, Control, Does, Kept, Untroubled
<1>2. CASE CallConfigInit
  <2>1. Does("config_init") /\ at' = [proc |-> "detect", s |-> 1, pc |-> at.pc + 1]
    BY <1>2 DEF CallConfigInit, GoTo
  <2>2. at.pc \in 1 .. Len(Script) /\ Script[at.pc] \in {"config_init", "tool"}
    BY <2>1 DEF Does, Flow, Places
  <2>3. at.pc = 1
    BY <1>S, <2>2, FirstCalls DEF Script
  <2> QED
    BY <1>1, <1>2, <2>1, <2>3
<1>3. CASE ~CallConfigInit
  <2>1. ASSUME NEW i, i \notin {"config_init", "tool"}, Does(i) PROVE at.pc > 1
    BY <2>1, <1>S DEF Does, Flow, Places
  <2>2. at.pc > 1
    BY <1>3, <2>1 DEF erob_test, CallConfigMap, CallConfigDc, PreOpEach, PreOpAll, MapPdos, Assign, SetManual, Sync0,
                InPreOp, RequestSafeOp, RequestOp, Request, Watch, Control
  <2>3. (\E p \in {"coe", "dc", "idle", "loop", Return} : GoTo(p)) \/ GoOn("stopped", 1)
    BY <1>3 DEF erob_test, CallConfigMap, CallConfigDc, PreOpEach, PreOpAll, MapPdos, Assign, SetManual, Sync0,
           InPreOp, RequestSafeOp, RequestOp, Request, Watch, Control, Continue, ContinueIf, Stop, Go
  <2>4. DOMAIN at = {"proc", "s", "pc"}
    BY DEF Flow, Places
  <2>5. GoOn("stopped", 1) => at'.proc = "stopped" /\ at'.pc = at.pc
    BY <2>4 DEF GoOn
  <2>6. \A p : GoTo(p) => at'.proc = p /\ at'.pc = at.pc + 1
    BY DEF GoTo
  <2> QED
    BY <1>1, <1>3, <2>2, <2>3, <2>5, <2>6
<1> QED
  BY <1>2, <1>3

LEMMA CheckGoes ==
  ASSUME Flow, Devs, Budget, ecatcheck
  PROVE  at'.proc \in CheckProcs
<1>1. at.proc \in CheckProcs /\ UNCHANGED inOP
  BY DEF ecatcheck, StartCheck, ecx_readstate, ReadAll, ReadEach, LookOperational, LookElse, LookLost, LookError,
         LookSafeOp, Recheck, ecx_reconfig_slave, ReconfigInit, ReconfigPdi, ReconfigSm, ReconfigPreOp,
         ReconfigSafeOp, ReconfigFmmu, ecx_recover_slave, Probe, ClearTemp, CheckAlias, GiveTemp, LastAddress,
         CheckIdentity, CheckWord, Settled, CheckProcs
<1>2. Flow'
  BY CheckFlow
<1> QED
  BY <1>1, <1>2 DEF Flow

LEMMA UnmappedKept ==
  ASSUME Flow, Devs, Budget, Unmapped, Next
  PROVE  Unmapped'
<1>1. CASE ecx_config_init
  <2>1. at.proc \in ConfigProcs /\ Script' = Script /\ at'.pc = at.pc
    BY <1>1, InitStays DEF Script
  <2> QED
    BY <2>1 DEF Unmapped, Called
<1>2. CASE ecx_config_map
  <2>1. at'.proc \in MapProcs \cup {Return}
    BY <1>2, MapStays
  <2> QED
    BY <2>1 DEF Unmapped, MapProcs, ConfigProcs, Return
<1>3. CASE erob_test
  <2>1. CASE CallConfigInit /\ at.pc = 1 /\ at' = [proc |-> "detect", s |-> 1, pc |-> 2]
    <3>1. Script' = Script /\ Script[1] \in {"config_init", "tool"}
      BY <1>3, TestGoes, PlanAssumption, Scripts DEF Devs, Script
    <3>2. at'.pc = 2
      BY <2>1
    <3>3. ASSUME NEW i \in 1 .. at'.pc - 1 PROVE Script'[i] # "config_map"
      BY <3>1, <3>2, <3>3
    <3> QED
      BY <3>3 DEF Unmapped, Called
  <2>2. CASE at'.proc \in {"coe", "dc", "idle", "loop", "stopped", Return}
    BY <2>2 DEF Unmapped, ConfigProcs, Return
  <2> QED
    BY <1>3, <2>1, <2>2, TestGoes
<1>4. CASE ecatcheck
  <2>1. at'.proc \in CheckProcs
    BY <1>4, CheckGoes
  <2> QED
    BY <2>1 DEF Unmapped, ConfigProcs, CheckProcs
<1>5. CASE inOP /\ Environment /\ UnseenBy
  <2>1. UNCHANGED <<at, plan>>
    BY <1>5 DEF Environment, UnseenBy, PowerOff, PowerOn, Watchdog
  <2> QED
    BY <2>1 DEF Unmapped, Called, Script
<1>6. CASE (\E fate : Cycle(fate)) \/ ecatthread \/ eepromtool \/ RomDone \/ RomNack
  <2>1. CASE UNCHANGED bus /\ Spends /\ UNCHANGED <<at, list, slips, inOP>>
    BY <2>1 DEF Spends, Unmapped, Called, Script
  <2>2. CASE StartTool
    <3>1. Does("tool") /\ at'.pc = at.pc + 1 /\ UNCHANGED plan
      BY <2>2 DEF StartTool, GoTo, Kept, Untroubled
    <3>2. at.pc \in 1 .. Len(Script) /\ Script[at.pc] \in {"config_init", "tool"} /\ Script' = Script
      BY <3>1 DEF Does, Flow, Places, Script
    <3>3. at.pc = 1 /\ Script[1] \in {"config_init", "tool"}
      BY <3>2, FirstCalls, Scripts, PlanAssumption DEF Devs, Script
    <3>4. ASSUME NEW i \in 1 .. at'.pc - 1 PROVE Script'[i] # "config_map"
      BY <3>1, <3>2, <3>3, <3>4
    <3> QED
      BY <3>4 DEF Unmapped, Called
  <2> QED
    BY <1>6, <2>1, <2>2, OthersTame
<1> QED
  BY <1>1, <1>2, <1>3, <1>4, <1>5, <1>6 DEF Next

\* Where the survey has been made, the parents are those of the cables.
LEMMA ParentsKept ==
  ASSUME Flow, Devs, Budget, Configured, Unmapped, ParentsFound, Next
  PROVE  ParentsFound'
<1>F. Flow' /\ Configured' /\ Unmapped'
  BY FlowKept, ConfiguredKept, UnmappedKept
<1> SUFFICES ASSUME Surveyed', NEW s \in Slaves' PROVE list'[s].parent = plan'.wires[s].parent
  BY DEF ParentsFound
<1>1. Called("config_map")' /\ at'.pc > 1 /\ at'.proc \notin ConfigProcs \cup {"tool"}
  <2>1. Called("config_map")' /\ at'.pc \in Int
    BY <1>F DEF Surveyed, Flow, Places
  <2>2. at'.pc > 1
    BY <2>1 DEF Called
  <2> QED
    BY <1>F, <2>1, <2>2 DEF Unmapped
<1>2. CASE at'.proc # "stopped"
  <2>1. Counted'
    BY <1>1, <1>2 DEF Counted, ConfigProcs
  <2>2. Linked(s)'
    BY <1>1 DEF Linked, ConfigProcs
  <2> QED
    BY <1>F, <2>1, <2>2 DEF Configured, Learnt, Hung
<1>3. CASE at'.proc = "stopped"
  <2>1. ASSUME Surveyed, ListKept, UNCHANGED plan PROVE list'[s].parent = plan'.wires[s].parent
    BY <2>1 DEF ParentsFound, ListKept, SameEntry, SameIds, Slaves
  <2>2. ASSUME UNCHANGED <<at, list, plan>> PROVE list'[s].parent = plan'.wires[s].parent
    BY <2>2 DEF ParentsFound, Surveyed, Called, Script, Slaves
  <2>3. CASE ecx_config_init
    <3>1. at.proc \in ConfigProcs /\ Script' = Script /\ at'.pc = at.pc
      BY <2>3, InitStays DEF Script
    <3>2. Called("config_map")
      BY <1>1, <3>1 DEF Called
    <3> QED
      BY <3>1, <3>2 DEF Unmapped
  <2>4. CASE ecx_config_map
    BY <1>3, <2>4, MapStays DEF MapProcs, Return
  <2>5. CASE erob_test
    <3>1. at.proc = Return /\ at.pc > 1 /\ UNCHANGED plan /\ at'.pc = at.pc /\ ~CallConfigInit
      BY <1>3, <2>5, TestGoes DEF Return
    <3>2. Counted
      BY <3>1 DEF Counted, Return
    <3>3. Surveyed
      BY <1>1, <3>1 DEF Surveyed, Called, Script, Return
    <3> QED
      BY <2>1, <2>5, <3>1, <3>2, <3>3, TestKeepsList
  <2>6. CASE ecatcheck
    BY <1>3, <2>6, CheckGoes DEF CheckProcs
  <2>7. CASE inOP /\ Environment /\ UnseenBy
    <3>1. UNCHANGED <<at, list, plan>>
      BY <2>7 DEF Environment, UnseenBy, PowerOff, PowerOn, Watchdog
    <3> QED
      BY <2>2, <3>1
  <2>8. CASE (\E fate : Cycle(fate)) \/ ecatthread \/ eepromtool \/ RomDone \/ RomNack
    <3>1. CASE UNCHANGED bus /\ Spends /\ UNCHANGED <<at, list, slips, inOP>>
      BY <3>1, <2>2 DEF Spends
    <3>2. CASE StartTool
      <4>1. at'.proc = "tool"
        BY <3>2 DEF StartTool, GoTo
      <4> QED
        BY <1>3, <4>1
    <3> QED
      BY <2>8, <3>1, <3>2, OthersTame
  <2> QED
    BY <2>3, <2>4, <2>5, <2>6, <2>7, <2>8 DEF Next
<1> QED
  BY <1>2, <1>3

\* Whatever the tree, ec_config_init has found the parents of the slaves, from the numbers
\* of their links alone, when ec_config_map has returned.
THEOREM ParentsAreTheCables == Spec => []ParentsFound
<1>1. Init => Unmapped /\ ParentsFound
  <2> SUFFICES ASSUME Init PROVE Unmapped /\ ParentsFound
    OBVIOUS
  <2>1. at.pc = 1
    BY DEF Init
  <2>2. ~Called("config_map")
    BY <2>1 DEF Called
  <2> QED
    BY <2>2 DEF Unmapped, ParentsFound, Surveyed
<1>2. Flow /\ Devs /\ Budget /\ Configured /\ Unmapped /\ ParentsFound /\ [Next]_netall => (Unmapped /\ ParentsFound)'
  <2> SUFFICES ASSUME Flow, Devs, Budget, Configured, Unmapped, ParentsFound, [Next]_netall
               PROVE  (Unmapped /\ ParentsFound)'
    OBVIOUS
  <2>1. CASE Next
    BY <2>1, UnmappedKept, ParentsKept
  <2>2. CASE UNCHANGED netall
    <3>1. UNCHANGED <<at, list, plan>>
      BY <2>2 DEF netall, vars, mapvars, netvars
    <3> QED
      BY <3>1 DEF Unmapped, ParentsFound, Surveyed, Called, Script, Slaves
  <2> QED
    BY <2>1, <2>2
<1> QED
  BY <1>1, <1>2, WatchCourse, Course, PTL DEF Spec

-----------------------------------------------------------------------------
(***************************************************************************)
(* Types.                                                                  *)
(***************************************************************************)
Flags == short \in BOOLEAN /\ docheckstate \in BOOLEAN /\ clocked \in BOOLEAN

\* parenthold is empty before the clocks are looked at, and a slave then
Holding == hold \in 0 .. Len(list) /\ (at.proc \in ConfigProcs \/ at.pc = 1 => hold = 0)

\* the addresses in the list, of slaves that have none yet too
Listed == \A s \in Slaves : list[s].configadr \in 0 .. EC_MAXSLAVE \cup {Temp}

\* ecatcheck changes its flag, its place and the list.
LEMMA CheckStays ==
  ASSUME Flow, ecatcheck
  PROVE  /\ at.proc \in CheckProcs /\ UNCHANGED <<plan, inOP, hold, clocked, short>>
         /\ docheckstate' \in {docheckstate, TRUE, FALSE} /\ DOMAIN list' = DOMAIN list
<1>1. /\ at.proc \in CheckProcs /\ UNCHANGED <<plan, inOP, hold, clocked, short>>
      /\ docheckstate' \in {docheckstate, TRUE, FALSE}
  BY DEF ecatcheck, StartCheck, ecx_readstate, ReadAll, ReadEach, LookOperational, LookElse, LookLost, LookError,
         LookSafeOp, Recheck, ecx_reconfig_slave, ReconfigInit, ReconfigPdi, ReconfigSm, ReconfigPreOp,
         ReconfigSafeOp, ReconfigFmmu, ecx_recover_slave, Probe, ClearTemp, CheckAlias, GiveTemp, LastAddress,
         CheckIdentity, CheckWord, Settled, CheckProcs
<1>2. DOMAIN list = Slaves
  BY DEF Flow, Slaves
<1>3. DOMAIN list' = DOMAIN list
  BY <1>2 DEF ecatcheck, StartCheck, ecx_readstate, ReadAll, ReadEach, LookOperational, LookElse, LookLost, LookError,
         LookSafeOp, Recheck, ecx_reconfig_slave, ReconfigInit, ReconfigPdi, ReconfigSm, ReconfigPreOp,
         ReconfigSafeOp, ReconfigFmmu, ecx_recover_slave, Probe, ClearTemp, CheckAlias, GiveTemp, LastAddress,
         CheckIdentity, CheckWord, Seen, Reconfigured, Recovered, ecx_eeprom2pdi, ecx_eeprom2master
<1> QED
  BY <1>1, <1>3

\* What is neither the master's nor ecatcheck's leaves the list and parenthold alone.
LEMMA OthersStay ==
  ASSUME Flow, Devs, Budget,
         \/ inOP /\ Environment /\ UnseenBy
         \/ (\E fate : Cycle(fate)) \/ ecatthread \/ eepromtool \/ RomDone \/ RomNack
  PROVE  /\ UNCHANGED <<plan, list, hold, clocked, inOP>>
         /\ UNCHANGED at \/ (at'.proc = "tool" /\ at'.pc = at.pc + 1)
<1>1. CASE inOP /\ Environment /\ UnseenBy
  BY <1>1 DEF Environment, UnseenBy, PowerOff, PowerOn, Watchdog, checkvars
<1>2. CASE (\E fate : Cycle(fate)) \/ ecatthread \/ eepromtool \/ RomDone \/ RomNack
  <2>1. UNCHANGED <<hold, clocked>>
    BY <1>2 DEF Cycle, ecatthread, Pass, Command, DriveFault, eepromtool, StartTool, WaitNotBusy, ForceToMaster, ClearError,
           SendData, SendCommand, Fetch, RomDone, RomNack, Elsewhere, vars, mapvars
  <2>2. CASE StartTool
    BY <2>1, <2>2 DEF StartTool, GoTo, checkvars
  <2> QED
    BY <1>2, <2>1, <2>2, OthersTame DEF Spends
<1> QED
  BY <1>1, <1>2

LEMMA FlagsKept ==
  ASSUME Flow, Devs, Budget, Flags, Next
  PROVE  Flags'
<1>1. CASE ecx_config_init /\ UNCHANGED <<hold, clocked, checkvars>>
  BY <1>1 DEF Flags, checkvars
<1>2. CASE ecx_config_map /\ UNCHANGED checkvars
  <2>1. clocked' \in {clocked, TRUE, FALSE}
    BY <1>2 DEF ecx_config_map, MapCoe, MapSii, MapFmmus, ConfigDc
  <2> QED
    BY <1>2, <2>1 DEF Flags, checkvars
<1>3. CASE erob_test
  <2>1. UNCHANGED <<short, docheckstate, clocked>>
    BY <1>3 DEF erob_test, CallConfigInit, CallConfigMap, CallConfigDc, PreOpEach, PreOpAll, MapPdos, Assign, SetManual,
           Sync0, InPreOp, RequestSafeOp, RequestOp, Request, Watch, Control, Kept
  <2> QED
    BY <2>1 DEF Flags
<1>4. CASE ecatcheck
  BY <1>4, CheckStays DEF Flags
<1>5. CASE inOP /\ Environment /\ UnseenBy
  BY <1>5 DEF Flags, UnseenBy, checkvars
<1>6. CASE (\E fate : Cycle(fate)) \/ ecatthread \/ eepromtool \/ RomDone \/ RomNack
  <2>1. short' \in {short, TRUE, FALSE} /\ UNCHANGED <<docheckstate, clocked>>
    BY <1>6 DEF Cycle, ecatthread, Pass, Command, DriveFault, eepromtool, StartTool, WaitNotBusy, ForceToMaster, ClearError,
           SendData, SendCommand, Fetch, RomDone, RomNack, Elsewhere, vars, mapvars, checkvars
  <2> QED
    BY <2>1 DEF Flags
<1> QED
  BY <1>1, <1>2, <1>3, <1>4, <1>5, <1>6 DEF Next

\* A slave the survey of the clocks is at hangs on one before it, or on the master.
LEMMA ParentBefore ==
  ASSUME Flow, Devs, Configured, Counted, at.proc = "dc", NEW s \in Slaves
  PROVE  list[s].parent \in 0 .. Len(list)
<1>1. list[s].parent = plan.wires[s].parent
  <2>1. Linked(s)
    BY DEF Linked
  <2> QED
    BY <2>1 DEF Configured, Learnt, Hung
<1>2. s \in DOMAIN plan.wires /\ s \in 1 .. Len(list) /\ Len(list) \in Nat
  BY PlanAssumption DEF Slaves, Flow, Devs
<1>3. plan.wires[s].parent \in (IF s = 1 THEN {0} ELSE 1 .. s - 1)
  BY <1>2, TreeAssumption DEF Devs, IsTree
<1> QED
  BY <1>1, <1>2, <1>3

LEMMA HoldingKept ==
  ASSUME Flow, Devs, Budget, Configured, Holding, Next
  PROVE  Holding'
<1>F. Flow'
  BY FlowKept
<1>L. ASSUME DOMAIN list' = DOMAIN list PROVE Len(list') = Len(list)
  BY <1>L, <1>F, LenIs, Sizes DEF Flow
<1>1. CASE ecx_config_init /\ UNCHANGED <<hold, clocked, checkvars>>
  <2>1. at.proc \in ConfigProcs /\ UNCHANGED hold
    BY <1>1, InitStays
  <2>2. hold' = 0 /\ Len(list') \in Nat
    BY <2>1, <1>F DEF Holding, Flow
  <2> QED
    BY <2>2 DEF Holding
<1>2. CASE ecx_config_map /\ UNCHANGED checkvars
  <2>1. at'.proc \in MapProcs \cup {Return} /\ at'.pc = at.pc /\ Len(list') = Len(list) /\ at.proc \in MapProcs
    BY <1>2, <1>L, MapStays, SurveyGoes
  <2>2. Counted
    BY <2>1 DEF Flow, Counted, MapProcs, Return
  <2>3. hold' \in 0 .. Len(list)
    <3>1. CASE UNCHANGED hold
      BY <3>1 DEF Holding
    <3>2. ASSUME NEW s \in Slaves, ConfigDc(s) PROVE hold' \in 0 .. Len(list)
      <4>1. at.proc = "dc" /\ hold' \in {0, PlainSlave(list, s, hold).hold}
        BY <3>2 DEF ConfigDc
      <4>2. PlainSlave(list, s, hold).hold \in {0, hold, list[s].parent}
        BY DEF PlainSlave
      <4>3. list[s].parent \in 0 .. Len(list) /\ 0 \in 0 .. Len(list)
        BY <2>2, <4>1, ParentBefore DEF Holding
      <4> QED
        BY <4>1, <4>2, <4>3 DEF Holding
    <3> QED
      BY <1>2, <3>1, <3>2 DEF ecx_config_map, MapCoe, MapSii, MapFmmus
  <2> QED
    BY <2>1, <2>2, <2>3 DEF Holding, MapProcs, ConfigProcs, Counted, Return
<1>3. CASE erob_test
  <2>1. UNCHANGED hold
    BY <1>3 DEF erob_test, CallConfigInit, CallConfigMap, CallConfigDc, PreOpEach, PreOpAll, MapPdos, Assign, SetManual,
           Sync0, InPreOp, RequestSafeOp, RequestOp, Request, Watch, Control, Kept
  <2>2. CASE CallConfigInit /\ at.pc = 1
    <3>1. hold' = 0 /\ Len(list') \in Nat
      BY <2>1, <2>2, <1>F DEF Holding, Flow
    <3> QED
      BY <3>1 DEF Holding
  <2>3. CASE ~CallConfigInit /\ at.pc > 1
    <3>1. Counted
      BY <1>3, <2>3, TestGoes DEF Counted, Return
    <3>2. Len(list') = Len(list)
      BY <1>3, <2>3, <3>1, <1>L, TestKeepsList DEF ListKept
    <3>3. at'.proc \notin ConfigProcs /\ at'.pc > 1
      BY <1>3, <2>3, <1>F, TestGoes DEF ConfigProcs, Return, Flow, Places
    <3> QED
      BY <2>1, <3>2, <3>3 DEF Holding
  <2> QED
    BY <1>3, <2>2, <2>3, TestGoes
<1>4. CASE ecatcheck
  <2>1. UNCHANGED hold /\ Len(list') = Len(list)
    BY <1>4, <1>L, CheckStays
  <2>2. at'.proc \notin ConfigProcs /\ at'.pc > 1
    BY <1>4, <1>F, CheckGoes DEF CheckProcs, ConfigProcs, Flow, Return
  <2> QED
    BY <2>1, <2>2 DEF Holding
<1>5. CASE \/ inOP /\ Environment /\ UnseenBy
           \/ (\E fate : Cycle(fate)) \/ ecatthread \/ eepromtool \/ RomDone \/ RomNack
  <2>1. UNCHANGED <<hold, list>> /\ (UNCHANGED at \/ (at'.proc = "tool" /\ at'.pc = at.pc + 1))
    BY <1>5, OthersStay
  <2>2. at'.proc \in ConfigProcs \/ at'.pc = 1 => hold = 0
    BY <2>1 DEF Holding, ConfigProcs, Flow, Places
  <2> QED
    BY <2>1, <2>2 DEF Holding
<1> QED
  BY <1>1, <1>2, <1>3, <1>4, <1>5 DEF Next

\* While slaves have been counted, the list says what ec_config_init or ecatcheck gave them.
LEMMA ListedCounted ==
  ASSUME Flow, Configured, Watched, Counted
  PROVE  Listed
<1> SUFFICES ASSUME NEW s \in Slaves PROVE list[s].configadr \in 0 .. EC_MAXSLAVE \cup {Temp}
  BY DEF Listed
<1>1. s \in 0 .. EC_MAXSLAVE
  BY Sizes DEF Slaves, Flow
<1>2. CASE inOP
  BY <1>1, <1>2 DEF Watched, Addressed
<1>3. CASE ~inOP
  <2>1. Given(s)
    BY <1>3 DEF Configured
  <2> QED
    BY <2>1, <1>1, Sizes DEF Given
<1> QED
  BY <1>2, <1>3

LEMMA ListedKept ==
  ASSUME Flow, Devs, Budget, Configured, Watched, Listed, Next
  PROVE  Listed'
<1>F. Flow' /\ Configured' /\ Watched'
  BY FlowKept, ConfiguredKept, WatchedKept
<1>C. CASE Counted'
  <2>1. (Flow /\ Configured /\ Watched /\ Counted => Listed)'
    BY ListedCounted, PTL
  <2> QED
    BY <1>F, <1>C, <2>1
<1>U. ASSUME UNCHANGED list PROVE Listed'
  BY <1>U DEF Listed, Slaves
<1>1. CASE ecx_config_init
  <2>1. CASE ecx_detect_slaves
    <3>1. \A s \in Slaves' : list'[s] = EmptySlave
      BY <2>1 DEF ecx_detect_slaves, Slaves
    <3> QED
      BY <3>1, NewEntry, Sizes DEF Listed
  <2>2. CASE ~ecx_detect_slaves
    <3>1. at.proc \in ConfigProcs \ {"detect"} /\ at'.proc \in InitProcs /\ at'.pc = at.pc
      BY <1>1, <2>2, StagesGo, WhereGoes DEF InitProcs
    <3>2. Counted'
      BY <3>1 DEF Flow, Counted, InitProcs, ConfigProcs, Return
    <3> QED
      BY <3>2, <1>C
  <2> QED
    BY <2>1, <2>2
<1>2. CASE ecx_config_map
  <2>1. at'.proc \in MapProcs \cup {Return} /\ at'.pc = at.pc /\ at.proc \in MapProcs
    BY <1>2, MapStays, SurveyGoes
  <2>2. Counted'
    BY <2>1 DEF Flow, Counted, MapProcs, Return
  <2> QED
    BY <2>2, <1>C
<1>3. CASE erob_test
  <2>1. CASE CallConfigInit
    BY <2>1, <1>U DEF CallConfigInit
  <2>2. CASE ~CallConfigInit
    <3>1. Counted
      BY <1>3, <2>2, TestGoes DEF Counted, Return
    <3>2. ListKept
      BY <1>3, <2>2, <3>1, TestKeepsList
    <3> QED
      BY <3>2 DEF Listed, ListKept, SameEntry, Flow, Slaves
  <2> QED
    BY <2>1, <2>2
<1>4. CASE ecatcheck
  <2>1. at'.proc \in CheckProcs
    BY <1>4, CheckGoes
  <2>2. Counted'
    BY <1>F, <2>1 DEF Flow, Counted, CheckProcs, Return
  <2> QED
    BY <2>2, <1>C
<1>5. CASE \/ inOP /\ Environment /\ UnseenBy
           \/ (\E fate : Cycle(fate)) \/ ecatthread \/ eepromtool \/ RomDone \/ RomNack
  BY <1>5, <1>U, OthersStay
<1> QED
  BY <1>1, <1>2, <1>3, <1>4, <1>5 DEF Next

LEMMA TypesCourse == Spec => [](Flags /\ Holding /\ Listed)
<1>1. Init => Flags /\ Holding /\ Listed
  <2> SUFFICES ASSUME Init PROVE Flags /\ Holding /\ Listed
    OBVIOUS
  <2>1. list = <<>> /\ hold = 0 /\ short = FALSE /\ docheckstate = FALSE /\ clocked = FALSE
    BY DEF Init
  <2>2. Len(list) = 0 /\ Slaves = {}
    BY <2>1 DEF Slaves
  <2>3. Flags
    BY <2>1 DEF Flags
  <2>4. hold \in 0 .. Len(list)
    BY <2>1, <2>2
  <2>5. Holding
    BY <2>1, <2>4 DEF Holding
  <2>6. Listed
    BY <2>2 DEF Listed
  <2> QED
    BY <2>3, <2>5, <2>6
<1>2. Flow /\ Devs /\ Budget /\ Configured /\ Watched /\ Flags /\ Holding /\ Listed /\ [Next]_netall
        => (Flags /\ Holding /\ Listed)'
  <2> SUFFICES ASSUME Flow, Devs, Budget, Configured, Watched, Flags, Holding, Listed, [Next]_netall
               PROVE  (Flags /\ Holding /\ Listed)'
    OBVIOUS
  <2>1. CASE Next
    BY <2>1, FlagsKept, HoldingKept, ListedKept
  <2>2. CASE UNCHANGED netall
    <3>1. UNCHANGED <<at, list, hold, clocked, short, docheckstate>>
      BY <2>2 DEF netall, vars, mapvars, netvars, checkvars
    <3> QED
      BY <3>1 DEF Flags, Holding, Listed, Slaves
  <2> QED
    BY <2>1, <2>2
<1> QED
  BY <1>1, <1>2, WatchCourse, Course, PTL DEF Spec

\* Every variable has its type, whatever the network: the list has room for its slaves,
\* and a place, an address or a counter is never one there is not.
THEOREM NetworkTyped == Spec => []TypeOK
<1>1. Flow /\ Devs /\ Budget /\ Flags /\ Holding /\ Listed /\ Pacing /\ Moving /\ ToolInv => TypeOK
  <2> SUFFICES ASSUME Flow, Devs, Budget, Flags, Holding, Listed, Pacing, Moving, ToolInv PROVE TypeOK
    OBVIOUS
  <2>1. plan \in Plans /\ trouble \in 0 .. plan.trouble /\ cuts \in 0 .. plan.cuts
    BY DEF Devs, Budget
  <2>2. /\ Len(list) < EC_MAXSLAVE /\ at.s \in 1 .. EC_MAXSLAVE /\ at.pc \in 1 .. Len(Script) + 1
        /\ inOP \in BOOLEAN /\ slips \subseteq Slaves
    BY Sizes DEF Flow, Places, Slaves
  <2>3. {inOP, short, docheckstate, clocked} \subseteq BOOLEAN
    BY <2>2 DEF Flags
  <2>4. ASSUME NEW k \in Devices
        PROVE  /\ bus[k].adr \in 0 .. EC_MAXSLAVE \cup {Temp}
               /\ bus[k].al \in {EC_STATE_INIT, EC_STATE_PRE_OP, EC_STATE_SAFE_OP, EC_STATE_OPERATIONAL}
               /\ bus[k].ctl \in {"master", "pdi"} /\ bus[k].sync \in {"off", "early", "common"}
               /\ drives[k].pos \in Lowest .. Highest
    BY DEF Devs, IsDevice, AlStates, Moving, Position
  <2>5. tool.tries \in 0 .. EC_DEFAULTRETRIES /\ tool.nacks \in 0 .. 2 /\ tool.said \subseteq DOMAIN rom.cells
    BY DEF ToolInv, IsTool, IsRom
  <2>6. hold \in 0 .. Len(list) /\ sent \in 0 .. Len(plan.goals)
    BY DEF Holding, Pacing
  <2>7. loop.out.pos \in Lowest .. Highest /\ loop.planner.vel \in -MAX_VELOCITY .. MAX_VELOCITY
    BY DEF Moving, IsTurned, IsPlanner, Position
  <2> QED
    BY <2>1, <2>2, <2>3, <2>4, <2>5, <2>6, <2>7 DEF TypeOK, Listed
<1> QED
  BY <1>1, Course, TypesCourse, Pace, PositionsCourse, Tooling, PTL
=============================================================================
