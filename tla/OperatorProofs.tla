--------------------------- MODULE OperatorProofs ---------------------------
(***************************************************************************)
(* Facts about the operators that the specifications are built from.       *)
(*                                                                         *)
(* Sums of amounts: a sum is a natural number, it splits over disjoint     *)
(* sets and over groups, and it follows the change of one summand.         *)
(*                                                                         *)
(* Leader boards: what update_top does, for every board and every number   *)
(* of seats: it moves one slot up to where it belongs, and it turns a      *)
(* leader board of the totals before a bid into one of the totals after.   *)
(***************************************************************************)
EXTENDS UnitSum, TopN, Integers, SequenceTheorems, WellFoundedInduction,
        FiniteSetTheorems, TLAPS

----------------------------------------------------------------------------
(* Sums. *)

\* Finitely many amounts have finitely many base units.
LEMMA UnitsFinite ==
    ASSUME NEW S, IsFiniteSet(S), NEW f, \A x \in S : f[x] \in Nat
    PROVE  IsFiniteSet(Units(f, S))
<1> DEFINE g == [x \in S |-> {x} \X (1 .. f[x])]
           R == {{x} \X (1 .. f[x]) : x \in S}
<1>1. g \in Surjection(S, R)
  BY DEF Surjection
<1>2. IsFiniteSet(R)
  BY <1>1, FS_Surjection
<1>3. ASSUME NEW x \in S
      PROVE  IsFiniteSet({x} \X (1 .. f[x]))
  <2>1. IsFiniteSet({x})
    BY FS_Singleton
  <2>2. IsFiniteSet(1 .. f[x])
    BY FS_Interval
  <2> QED  BY <2>1, <2>2, FS_Product
<1>4. \A T \in R : IsFiniteSet(T)
  BY <1>3
<1>5. IsFiniteSet(UNION R)
  BY <1>2, <1>4, FS_UNION
<1> QED  BY <1>5 DEF Units

\* A sum of amounts is an amount.
LEMMA TotalType ==
    ASSUME NEW S, IsFiniteSet(S), NEW f, \A x \in S : f[x] \in Nat
    PROVE  Total(f, S) \in Nat
BY UnitsFinite, FS_CardinalityType DEF Total

\* The sum over no summand.
LEMMA TotalEmpty == ASSUME NEW f PROVE Total(f, {}) = 0
<1>1. Units(f, {}) = {}
  BY DEF Units
<1> QED  BY <1>1, FS_EmptySet DEF Total

\* The sum over one summand.
LEMMA TotalPoint ==
    ASSUME NEW f, NEW x, f[x] \in Nat
    PROVE  Total(f, {x}) = f[x]
<1>1. Units(f, {x}) = {x} \X (1 .. f[x])
  BY DEF Units
<1>2. IsFiniteSet({x}) /\ Cardinality({x}) = 1
  BY FS_Singleton
<1>3. IsFiniteSet(1 .. f[x]) /\ Cardinality(1 .. f[x]) = f[x]
  <2> DEFINE m == f[x]
  <2>1. m \in Nat
    OBVIOUS
  <2> HIDE DEF m
  <2>2. IsFiniteSet(1 .. m) /\ Cardinality(1 .. m) = m
    BY <2>1, FS_Interval
  <2> QED  BY <2>2 DEF m
<1>4. Cardinality({x} \X (1 .. f[x])) = Cardinality({x}) * Cardinality(1 .. f[x])
  BY <1>2, <1>3, FS_Product, Zenon
<1>5. Total(f, {x}) = 1 * f[x]
  BY <1>1, <1>2, <1>3, <1>4, Zenon DEF Total
<1> QED  BY <1>5

\* Sums over disjoint sets add up.
LEMMA TotalDisjoint ==
    ASSUME NEW S, IsFiniteSet(S), NEW T, IsFiniteSet(T), S \cap T = {},
           NEW f, \A x \in S \cup T : f[x] \in Nat
    PROVE  Total(f, S \cup T) = Total(f, S) + Total(f, T)
<1>1. IsFiniteSet(Units(f, S)) /\ IsFiniteSet(Units(f, T))
  BY UnitsFinite
<1>2. Units(f, S \cup T) = Units(f, S) \cup Units(f, T)
  BY DEF Units
<1>3. Units(f, S) \cap Units(f, T) = {}
  BY DEF Units
<1>4. Total(f, S \cup T) = Total(f, S) + Total(f, T) - Cardinality({})
  <2> DEFINE U == Units(f, S)
             V == Units(f, T)
  <2>1. Cardinality(U \cup V) = Cardinality(U) + Cardinality(V) - Cardinality(U \cap V)
    <3> HIDE DEF U, V
    <3> SUFFICES ASSUME IsFiniteSet(U), IsFiniteSet(V)
                 PROVE  Cardinality(U \cup V)
                            = Cardinality(U) + Cardinality(V) - Cardinality(U \cap V)
      BY <1>1 DEF U, V
    <3> QED  BY FS_Union
  <2> QED  BY <1>2, <1>3, <2>1, Zenon DEF Total
<1>5. Total(f, S) \in Nat /\ Total(f, T) \in Nat /\ Cardinality({}) = 0
  BY TotalType, FS_EmptySet
<1> QED  BY <1>4, <1>5

\* A sum depends on its summands only.
LEMMA TotalSame ==
    ASSUME NEW S, NEW f, NEW g, \A x \in S : f[x] = g[x]
    PROVE  Total(f, S) = Total(g, S)
<1>1. Units(f, S) = Units(g, S)
  BY DEF Units
<1> QED  BY <1>1 DEF Total

\* The sum after one summand changed.
LEMMA TotalChange ==
    ASSUME NEW S, IsFiniteSet(S), NEW x \in S,
           NEW f, \A y \in S : f[y] \in Nat,
           NEW g, \A y \in S \ {x} : g[y] = f[y], g[x] \in Nat
    PROVE  Total(g, S) = Total(f, S) - f[x] + g[x]
<1> DEFINE Rest == S \ {x}
<1>1. IsFiniteSet(Rest) /\ IsFiniteSet({x})
  BY FS_RemoveElement, FS_Singleton, Zenon
<1>2. Rest \cap {x} = {} /\ Rest \cup {x} = S
  OBVIOUS
<1>3. \A y \in S : g[y] \in Nat
  OBVIOUS
<1>4. Total(f, Rest \cup {x}) = Total(f, Rest) + Total(f, {x})
  BY <1>1, <1>2, TotalDisjoint, Zenon
<1>5. Total(g, Rest \cup {x}) = Total(g, Rest) + Total(g, {x})
  BY <1>1, <1>2, <1>3, TotalDisjoint, Zenon
<1>6. Total(f, {x}) = f[x] /\ Total(g, {x}) = g[x]
  BY TotalPoint
<1>7. Total(g, Rest) = Total(f, Rest) /\ Total(f, Rest) \in Nat
  BY <1>1, TotalSame, TotalType
<1>8. Total(f, S) = Total(f, Rest) + f[x] /\ Total(g, S) = Total(f, Rest) + g[x]
  BY <1>2, <1>4, <1>5, <1>6, <1>7, Zenon
<1> HIDE DEF Rest
<1> QED  BY <1>7, <1>8

\* No summand exceeds the sum.
LEMMA TotalBound ==
    ASSUME NEW S, IsFiniteSet(S), NEW x \in S, NEW f, \A y \in S : f[y] \in Nat
    PROVE  f[x] <= Total(f, S)
<1> DEFINE g == [y \in S |-> IF y = x THEN 0 ELSE f[y]]
<1>1. /\ \A y \in S : g[y] \in Nat
      /\ \A y \in S \ {x} : g[y] = f[y]
      /\ g[x] = 0
  OBVIOUS
<1> HIDE DEF g
<1>2. Total(g, S) = Total(f, S) - f[x] + g[x]
  BY <1>1, TotalChange
<1>3. Total(g, S) \in Nat /\ Total(f, S) \in Nat /\ f[x] \in Nat
  BY <1>1, TotalType
<1> QED  BY <1>1, <1>2, <1>3

\* A sum may be taken group by group: if g puts every y of T into the group
\* of some x of S, and f[x] is the sum over group[x], then the sum of the f[x]
\* is the sum over T.  No induction: the bijections that count the base units of
\* the groups are glued together.
LEMMA TotalGrouped ==
    ASSUME NEW S, IsFiniteSet(S), NEW f, \A x \in S : f[x] \in Nat,
           NEW T, IsFiniteSet(T), NEW h, \A y \in T : h[y] \in Nat,
           NEW g \in [T -> S], NEW group,
           \A x \in S : /\ group[x] \in SUBSET T /\ f[x] = Total(h, group[x])
                        /\ \A y \in T : y \in group[x] <=> g[y] = x
    PROVE  Total(f, S) = Total(h, T)
<1> DEFINE B == [x \in S |-> CHOOSE b : b \in Bijection(1 .. f[x], Units(h, group[x]))]
           F == [u \in Units(f, S) |-> B[u[1]][u[2]]]
<1>1. /\ \A u : u \in Units(f, S) <=> \E x \in S : \E i \in 1 .. f[x] : u = <<x, i>>
      /\ \A u : u \in Units(h, T) <=> \E y \in T : \E i \in 1 .. h[y] : u = <<y, i>>
      /\ \A x \in S : \A u : u \in Units(h, group[x]) <=>
                         \E y \in T : \E i \in 1 .. h[y] : g[y] = x /\ u = <<y, i>>
  BY DEF Units
<1>2. ASSUME NEW x \in S
      PROVE  B[x] \in Bijection(1 .. f[x], Units(h, group[x]))
  <2>1. IsFiniteSet(group[x]) /\ \A y \in group[x] : h[y] \in Nat
    BY FS_Subset
  <2>2. IsFiniteSet(Units(h, group[x]))
    BY <2>1, UnitsFinite
  <2>3. ExistsBijection(1 .. Cardinality(Units(h, group[x])), Units(h, group[x]))
    BY <2>2, FS_CardinalityType
  <2>4. f[x] = Cardinality(Units(h, group[x]))
    BY DEF Total
  <2>5. Bijection(1 .. f[x], Units(h, group[x])) # {}
    BY <2>3, <2>4 DEF ExistsBijection
  <2> QED  BY <2>5
<1> HIDE DEF B
<1>3. ASSUME NEW x \in S, NEW i \in 1 .. f[x]
      PROVE  /\ <<x, i>> \in Units(f, S) /\ F[<<x, i>>] = B[x][i]
             /\ B[x][i] \in Units(h, group[x])
             /\ B[x][i] \in Units(h, T) /\ g[B[x][i][1]] = x
  <2>1. <<x, i>> \in Units(f, S) /\ F[<<x, i>>] = B[x][i]
    BY <1>1
  <2>2. B[x][i] \in Units(h, group[x])
    BY <1>2 DEF Bijection, Injection
  <2>3. PICK y \in T, j \in Nat : j \in 1 .. h[y] /\ g[y] = x /\ B[x][i] = <<y, j>>
    BY <1>1, <2>2
  <2> QED  BY <1>1, <2>1, <2>2, <2>3
<1> HIDE DEF F
<1>4. F \in [Units(f, S) -> Units(h, T)]
  <2>1. ASSUME NEW u \in Units(f, S) PROVE F[u] \in Units(h, T)
    BY <1>1, <1>3
  <2> QED  BY <2>1 DEF F
<1>5. ASSUME NEW u \in Units(f, S), NEW v \in Units(f, S), F[u] = F[v] PROVE u = v
  <2>1. PICK x \in S, i \in Nat : i \in 1 .. f[x] /\ u = <<x, i>>
    BY <1>1
  <2>2. PICK z \in S, j \in Nat : j \in 1 .. f[z] /\ v = <<z, j>>
    BY <1>1
  <2>3. B[x][i] = B[z][j] /\ x = z
    BY <1>3, <1>5, <2>1, <2>2
  <2>4. i = j
    <3>1. B[x] \in Injection(1 .. f[x], Units(h, group[x]))
      BY <1>2 DEF Bijection
    <3> QED  BY <2>1, <2>2, <2>3, <3>1 DEF Injection, IsInjective
  <2> QED  BY <2>1, <2>2, <2>3, <2>4
<1>6. ASSUME NEW v \in Units(h, T) PROVE \E u \in Units(f, S) : F[u] = v
  <2>1. PICK y \in T, j \in Nat : j \in 1 .. h[y] /\ v = <<y, j>>
    BY <1>1
  <2>2. g[y] \in S /\ v \in Units(h, group[g[y]])
    BY <1>1, <2>1
  <2>3. PICK i \in 1 .. f[g[y]] : B[g[y]][i] = v
    BY <1>2, <2>2 DEF Bijection, Surjection
  <2>4. <<g[y], i>> \in Units(f, S) /\ F[<<g[y], i>>] = B[g[y]][i]
    BY <1>3, <2>2
  <2> QED  BY <2>3, <2>4
<1>7. F \in Bijection(Units(f, S), Units(h, T))
  BY <1>4, <1>5, <1>6 DEF Bijection, Injection, Surjection, IsInjective
<1>8. Cardinality(Units(h, T)) = Cardinality(Units(f, S))
  BY <1>7, UnitsFinite, FS_Bijection DEF ExistsBijection
<1> QED  BY <1>8 DEF Total

\* A sum of zeros.
LEMMA TotalZero ==
    ASSUME NEW f, NEW S, \A x \in S : f[x] = 0
    PROVE  Total(f, S) = 0
<1>1. Units(f, S) = {}
  BY DEF Units
<1> QED  BY <1>1, FS_EmptySet, Zenon DEF Total

----------------------------------------------------------------------------
(* Leader boards. *)

\* A set of naturals has a least element.
LEMMA LeastNat ==
    ASSUME NEW T, T \subseteq Nat, T # {}
    PROVE  \E x \in T : \A y \in T : x <= y
<1> DEFINE R == OpToRel(<, Nat)
<1>1. PICK x \in T : \A y \in T : <<y, x>> \notin R
  <2> HIDE DEF R
  <2>1. IsWellFoundedOn(R, Nat)
    BY NatLessThanWellFounded DEF R
  <2> QED  BY <2>1, WFMin
<1>2. ASSUME NEW y \in T PROVE x <= y
  <2>1. ~ (y < x)
    BY <1>1 DEF OpToRel
  <2> QED  BY <2>1
<1> QED  BY <1>2

\* The swaps stop somewhere, and where they stop is where the slot belongs.
LEMMA LandingPlace ==
    ASSUME NEW w, NEW i \in Nat \ {0}
    PROVE  LET j == Landing(w, i)
           IN  /\ j \in 1 .. i
               /\ \A k \in j .. i - 1 : RanksAbove(w[i], w[k])
               /\ j > 1 => ~ RanksAbove(w[i], w[j - 1])
<1> DEFINE P(j) == /\ \A k \in j .. i - 1 : RanksAbove(w[i], w[k])
                   /\ j > 1 => ~ RanksAbove(w[i], w[j - 1])
           T == {j \in 1 .. i : \A k \in j .. i - 1 : RanksAbove(w[i], w[k])}
<1>1. i \in T
  OBVIOUS
<1>2. PICK x \in T : \A y \in T : x <= y
  <2>1. T \subseteq Nat /\ T # {}
    BY <1>1
  <2> HIDE DEF T
  <2> QED  BY <2>1, LeastNat
<1>3. P(x)
  <2>1. ASSUME x > 1, RanksAbove(w[i], w[x - 1]) PROVE FALSE
    <3>1. x - 1 \in T
      <4>1. ASSUME NEW k \in x - 1 .. i - 1 PROVE RanksAbove(w[i], w[k])
        <5>1. CASE k = x - 1  BY <5>1, <2>1
        <5>2. CASE k # x - 1
          <6>1. k \in x .. i - 1  BY <5>2
          <6> QED  BY <6>1
        <5> QED  BY <5>1, <5>2
      <4> QED  BY <4>1, <2>1
    <3> QED  BY <3>1, <1>2
  <2> QED  BY <2>1
<1>4. \E j \in 1 .. i : P(j)
  BY <1>3
<1>5. Landing(w, i) = CHOOSE j \in 1 .. i : P(j)
  BY DEF Landing
<1> HIDE DEF P
<1>6. Landing(w, i) \in 1 .. i /\ P(Landing(w, i))
  BY <1>4, <1>5
<1> QED  BY <1>6 DEF P

\* The order of slots is transitive, and total on different proposals.
LEMMA RankTransitive ==
    ASSUME NEW s \in Slot, NEW t \in Slot, NEW u \in Slot,
           RanksAbove(s, t), RanksAbove(t, u)
    PROVE  RanksAbove(s, u)
BY DEF Slot, RanksAbove

LEMMA RankTotal ==
    ASSUME NEW s \in Slot, NEW t \in Slot, s.proposal_id # t.proposal_id,
           ~ RanksAbove(s, t)
    PROVE  RanksAbove(t, s)
BY DEF Slot, RanksAbove

\* BubbleUp permutes the slots: it rotates those from the landing place to i.
LEMMA BubbleUpSlots ==
    ASSUME NEW w \in Seq(Slot), NEW i \in 1 .. Len(w)
    PROVE  LET j == Landing(w, i)
               r == BubbleUp(w, i)
           IN  /\ r \in Seq(Slot)
               /\ Len(r) = Len(w)
               /\ r[j] = w[i]
               /\ \A k \in j + 1 .. i : r[k] = w[k - 1]
               /\ \A k \in 1 .. Len(w) : k \notin j .. i => r[k] = w[k]
<1> DEFINE j == Landing(w, i)
           r == BubbleUp(w, i)
<1>1. j \in 1 .. i
  BY LandingPlace, LenProperties
<1>2. DOMAIN w = 1 .. Len(w) /\ Len(w) \in Nat /\ \A k \in 1 .. Len(w) : w[k] \in Slot
  BY LenProperties, ElementOfSeq
<1>3. r = [k \in 1 .. Len(w) |-> IF k \in j + 1 .. i THEN w[k - 1]
                                ELSE IF k = j THEN w[i] ELSE w[k]]
  BY <1>2 DEF BubbleUp
<1> HIDE DEF j, r
<1>4. r \in [1 .. Len(w) -> Slot]
  BY <1>1, <1>2, <1>3
<1>5. r \in Seq(Slot)
  BY <1>2, <1>4, SeqDef
<1>6. Len(r) = Len(w)
  BY <1>2, <1>4, <1>5, LenProperties
<1>7. /\ r[j] = w[i]
      /\ \A k \in j + 1 .. i : r[k] = w[k - 1]
      /\ \A k \in 1 .. Len(w) : k \notin j .. i => r[k] = w[k]
  BY <1>1, <1>2, <1>3
<1> QED  BY <1>5, <1>6, <1>7 DEF j, r

Sorted(w)   == \A a, b \in 1 .. Len(w) : a < b => RanksAbove(w[a], w[b])
Distinct(w) == \A a, b \in 1 .. Len(w) : w[a].proposal_id = w[b].proposal_id => a = b

\* Slot i came in anywhere at or below its rank; BubbleUp sorts the board again.
LEMMA BubbleUpSorts ==
    ASSUME NEW w \in Seq(Slot), NEW i \in 1 .. Len(w), Distinct(w),
           \A a, b \in 1 .. Len(w) \ {i} : a < b => RanksAbove(w[a], w[b]),
           \A b \in i + 1 .. Len(w) : RanksAbove(w[i], w[b])
    PROVE  LET r == BubbleUp(w, i)
           IN  /\ r \in Seq(Slot) /\ Len(r) = Len(w)
               /\ Sorted(r) /\ Distinct(r)
               /\ \A k \in 1 .. Len(w) : \E m \in 1 .. Len(w) : r[k] = w[m]
               /\ \A m \in 1 .. Len(w) : \E k \in 1 .. Len(w) : r[k] = w[m]
<1> DEFINE j == Landing(w, i)
           r == BubbleUp(w, i)
           From(k) == IF k \in j + 1 .. i THEN k - 1 ELSE IF k = j THEN i ELSE k
           To(m) == IF m \in j .. i - 1 THEN m + 1 ELSE IF m = i THEN j ELSE m
<1>1. Len(w) \in Nat /\ \A k \in 1 .. Len(w) : w[k] \in Slot
  BY LenProperties, ElementOfSeq
<1>2. /\ j \in 1 .. i
      /\ \A k \in j .. i - 1 : RanksAbove(w[i], w[k])
      /\ j > 1 => ~ RanksAbove(w[i], w[j - 1])
  BY <1>1, LandingPlace
<1>3. /\ r \in Seq(Slot) /\ Len(r) = Len(w)
      /\ r[j] = w[i]
      /\ \A k \in j + 1 .. i : r[k] = w[k - 1]
      /\ \A k \in 1 .. Len(w) : k \notin j .. i => r[k] = w[k]
  BY BubbleUpSlots
<1> HIDE DEF j, r
<1>4. \A k \in 1 .. Len(w) : From(k) \in 1 .. Len(w) /\ r[k] = w[From(k)]
  BY <1>1, <1>2, <1>3
<1>5. \A m \in 1 .. Len(w) : To(m) \in 1 .. Len(w) /\ From(To(m)) = m
  BY <1>1, <1>2
<1>6. \A a, b \in 1 .. Len(w) : From(a) = From(b) => a = b
  BY <1>1, <1>2
<1>7. ASSUME NEW a \in 1 .. Len(w), NEW b \in 1 .. Len(w), a < b
      PROVE  RanksAbove(r[a], r[b])
  <2>1. CASE a = j
    <3>1. CASE b \in j + 1 .. i
      <4>1. b - 1 \in j .. i - 1 /\ r[b] = w[b - 1] /\ r[a] = w[i]
        BY <1>2, <1>3, <2>1, <3>1
      <4> QED  BY <1>2, <4>1
    <3>2. CASE b > i
      <4>1. b \in i + 1 .. Len(w) /\ r[b] = w[b] /\ r[a] = w[i]
        BY <1>1, <1>2, <1>3, <2>1, <3>2
      <4> QED  BY <4>1
    <3> QED  BY <1>1, <1>2, <1>7, <2>1, <3>1, <3>2
  <2>2. CASE b = j
    <3>1. j - 1 \in 1 .. Len(w) /\ j - 1 # i /\ a # i /\ a <= j - 1 /\ j > 1
      BY <1>1, <1>2, <1>7, <2>2
    <3>2. r[a] = w[a] /\ r[b] = w[i]
      BY <1>1, <1>2, <1>3, <1>7, <2>2
    <3>3. w[j - 1].proposal_id # w[i].proposal_id
      BY <3>1 DEF Distinct
    <3>4. RanksAbove(w[j - 1], w[i])
      BY <1>1, <1>2, <3>1, <3>3, RankTotal
    <3>5. CASE a = j - 1
      BY <3>2, <3>4, <3>5
    <3>6. CASE a # j - 1
      <4>1. a < j - 1  BY <1>1, <3>1, <3>6, <1>2
      <4>2. RanksAbove(w[a], w[j - 1])
        BY <3>1, <4>1
      <4> QED  BY <1>1, <3>1, <3>2, <3>4, <4>2, RankTransitive
    <3> QED  BY <3>5, <3>6
  <2>3. CASE a # j /\ b # j
    <3>1. From(a) \in 1 .. Len(w) \ {i} /\ From(b) \in 1 .. Len(w) \ {i} /\ From(a) < From(b)
      BY <1>1, <1>2, <1>7, <2>3
    <3> HIDE DEF From
    <3> QED  BY <1>4, <3>1
  <2> QED  BY <2>1, <2>2, <2>3
<1> HIDE DEF From, To
<1>8. Sorted(r)
  BY <1>3, <1>7 DEF Sorted
<1>9. Distinct(r)
  <2> SUFFICES ASSUME NEW a \in 1 .. Len(w), NEW b \in 1 .. Len(w),
                      r[a].proposal_id = r[b].proposal_id
               PROVE  a = b
    BY <1>3 DEF Distinct
  <2>1. w[From(a)].proposal_id = w[From(b)].proposal_id
    BY <1>4
  <2>2. From(a) = From(b)
    BY <1>4, <2>1 DEF Distinct
  <2> QED  BY <1>6, <2>2
<1>10. \A m \in 1 .. Len(w) : r[To(m)] = w[m]
  BY <1>4, <1>5
<1> QED  BY <1>3, <1>4, <1>5, <1>8, <1>9, <1>10 DEF r

----------------------------------------------------------------------------
\* The values of update_top are boards, of the slots the program can hold.
THEOREM UpdateTopType ==
    ASSUME NEW w \in Seq(Slot), Len(w) <= MaxWinners,
           NEW n \in Nat, NEW pid \in Nat, NEW new_total \in Nat
    PROVE  /\ UpdateTop(w, n, pid, new_total) \in Seq(Slot)
           /\ Len(UpdateTop(w, n, pid, new_total)) <= MaxWinners
<1> DEFINE incoming == [proposal_id |-> pid, total |-> new_total]
           i == SeatOf(w, pid)
<1>1. incoming \in Slot
  BY DEF Slot
<1>2. Len(w) \in Nat /\ DOMAIN w = 1 .. Len(w)
  BY LenProperties
<1>3. Seats(n) \in 1 .. MaxWinners
  BY MaxWinnersAssumption DEF Seats
<1>4. CASE pid \in Seated(w)
  <2>1. i \in 1 .. Len(w)
    BY <1>2, <1>4 DEF Seated, SeatOf
  <2> DEFINE v == [w EXCEPT ![i] = incoming]
  <2>2. v \in Seq(Slot) /\ Len(v) = Len(w)
    BY <1>1, <2>1, ExceptSeq
  <2>3. UpdateTop(w, n, pid, new_total) = BubbleUp(v, i)
    BY <1>4 DEF UpdateTop
  <2> HIDE DEF v, i
  <2> QED  BY <2>1, <2>2, <2>3, BubbleUpSlots
<1>5. CASE pid \notin Seated(w) /\ Len(w) < Seats(n)
  <2> DEFINE v == Append(w, incoming)
  <2>1. v \in Seq(Slot) /\ Len(v) = Len(w) + 1
    BY <1>1, AppendProperties
  <2>2. UpdateTop(w, n, pid, new_total) = BubbleUp(v, Len(w) + 1)
    BY <1>5 DEF UpdateTop
  <2>3. Len(w) + 1 \in 1 .. Len(v)
    BY <1>2, <2>1
  <2> HIDE DEF v
  <2>4. BubbleUp(v, Len(w) + 1) \in Seq(Slot) /\ Len(BubbleUp(v, Len(w) + 1)) = Len(v)
    BY <2>1, <2>3, BubbleUpSlots
  <2> QED  BY <1>2, <1>3, <1>5, <2>1, <2>2, <2>4, MaxWinnersAssumption
<1>6. CASE /\ pid \notin Seated(w) /\ ~ (Len(w) < Seats(n))
           /\ StrictlyBeats(incoming, LastSlot(w, n))
  <2> DEFINE v == [w EXCEPT ![Seats(n)] = incoming]
  <2>1. Seats(n) \in 1 .. Len(w)
    BY <1>2, <1>3, <1>6
  <2>2. v \in Seq(Slot) /\ Len(v) = Len(w)
    BY <1>1, <2>1, ExceptSeq
  <2>3. UpdateTop(w, n, pid, new_total) = BubbleUp(v, Seats(n))
    BY <1>6 DEF UpdateTop
  <2> HIDE DEF v
  <2> QED  BY <2>1, <2>2, <2>3, BubbleUpSlots
<1>7. CASE /\ pid \notin Seated(w) /\ ~ (Len(w) < Seats(n))
           /\ ~ StrictlyBeats(incoming, LastSlot(w, n))
  BY <1>7 DEF UpdateTop
<1> QED  BY <1>4, <1>5, <1>6, <1>7

----------------------------------------------------------------------------
\* A board with as many slots as there are proposals seats them all.
LEMMA AllSeated ==
    ASSUME NEW w \in Seq(Slot), Distinct(w),
           \A i \in 1 .. Len(w) : w[i].proposal_id < Len(w),
           NEW p \in 0 .. Len(w) - 1
    PROVE  p \in Seated(w)
<1> SUFFICES ASSUME p \notin Seated(w) PROVE FALSE
  OBVIOUS
<1> DEFINE n == Len(w)
           f == [i \in 1 .. n |-> w[i].proposal_id]
           Others == (0 .. n - 1) \ {p}
<1>1. n \in Nat /\ DOMAIN w = 1 .. n /\ \A i \in 1 .. n : w[i] \in Slot
  BY LenProperties, ElementOfSeq
<1>2. f \in [1 .. n -> Others]
  BY <1>1 DEF Seated, Slot
<1> HIDE DEF n, f
<1>3. IsFiniteSet(1 .. n) /\ Cardinality(1 .. n) = n
  BY <1>1, FS_Interval
<1>4. IsFiniteSet(0 .. n - 1) /\ Cardinality(0 .. n - 1) = n
  <2> DEFINE m == n - 1
  <2>1. m \in Int /\ n = m + 1 /\ m >= -1 /\ 0 \in Int
    BY <1>1
  <2> HIDE DEF m
  <2>2. IsFiniteSet(0 .. m) /\ Cardinality(0 .. m) = IF 0 > m THEN 0 ELSE m - 0 + 1
    BY <2>1, FS_Interval, Zenon
  <2>3. IsFiniteSet(0 .. m) /\ Cardinality(0 .. m) = n
    BY <2>1, <2>2
  <2> QED  BY <2>3 DEF m
<1>5. p \in 0 .. n - 1
  BY DEF n
<1>6. IsFiniteSet(Others) /\ Cardinality(Others) = n - 1
  BY <1>4, <1>5, FS_RemoveElement
<1> HIDE DEF Others
<1>7. PICK x \in 1 .. n, y \in 1 .. n : x # y /\ f[x] = f[y]
  <2>1. Cardinality(Others) < Cardinality(1 .. n)
    BY <1>1, <1>3, <1>6
  <2> QED  BY <1>2, <1>3, <1>6, <2>1, FS_PigeonHole, Zenon
<1> QED  BY <1>7 DEF f, n, Distinct

\* A board that is a leader board but for the place of slot i becomes one.
LEMMA BubbleUpCompletes ==
    ASSUME NEW v \in Seq(Slot), NEW i \in 1 .. Len(v), Distinct(v),
           \A a, b \in 1 .. Len(v) \ {i} : a < b => RanksAbove(v[a], v[b]),
           \A b \in i + 1 .. Len(v) : RanksAbove(v[i], v[b]),
           NEW n, NEW count, NEW totals,
           Len(v) = IF count < Seats(n) THEN count ELSE Seats(n),
           \A k \in 1 .. Len(v) : /\ v[k].proposal_id < count
                                  /\ v[k].total = totals[v[k].proposal_id],
           \A p \in 0 .. count - 1 :
              p \notin Seated(v) => \A k \in 1 .. Len(v) : totals[p] <= v[k].total
    PROVE  IsLeaderBoard(BubbleUp(v, i), n, totals, count)
<1> DEFINE r == BubbleUp(v, i)
<1>1. /\ r \in Seq(Slot) /\ Len(r) = Len(v) /\ Sorted(r) /\ Distinct(r)
      /\ \A k \in 1 .. Len(v) : \E m \in 1 .. Len(v) : r[k] = v[m]
      /\ \A m \in 1 .. Len(v) : \E k \in 1 .. Len(v) : r[k] = v[m]
  BY BubbleUpSorts
<1> HIDE DEF r
<1>2. DOMAIN r = 1 .. Len(v) /\ DOMAIN v = 1 .. Len(v)
  BY <1>1, LenProperties
<1>3. ASSUME NEW p PROVE p \in Seated(r) <=> p \in Seated(v)
  <2>1. ASSUME NEW k \in 1 .. Len(v) PROVE r[k].proposal_id \in Seated(v)
    <3>1. PICK m \in 1 .. Len(v) : r[k] = v[m]  BY <1>1
    <3> QED  BY <1>2, <3>1 DEF Seated
  <2>2. ASSUME NEW m \in 1 .. Len(v) PROVE v[m].proposal_id \in Seated(r)
    <3>1. PICK k \in 1 .. Len(v) : r[k] = v[m]  BY <1>1
    <3>2. r[k].proposal_id \in Seated(r)  BY <1>2 DEF Seated
    <3> QED  BY <3>1, <3>2
  <2> QED  BY <1>2, <2>1, <2>2 DEF Seated
<1>4. ASSUME NEW k \in 1 .. Len(v)
      PROVE  /\ r[k].proposal_id < count /\ r[k].total = totals[r[k].proposal_id]
             /\ \A p \in 0 .. count - 1 : p \notin Seated(v) => totals[p] <= r[k].total
  <2>1. PICK m \in 1 .. Len(v) : r[k] = v[m]  BY <1>1
  <2> QED  BY <2>1
<1>5. \A p \in 0 .. count - 1 :
         p \notin Seated(r) => \A k \in 1 .. Len(v) : totals[p] <= r[k].total
  BY <1>3, <1>4
<1> QED  BY <1>1, <1>2, <1>4, <1>5 DEF IsLeaderBoard, Sorted, Distinct, r

\* A bid on proposal pid, the new one (pid = count) or an older one, brings it
\* from totals[pid] to new_total; after and new_count are what it leaves.
BidBooked(totals, count, pid, new_total, after, new_count) ==
    /\ \A p \in 0 .. count - 1 : totals[p] \in Nat /\ (p # pid => after[p] = totals[p])
    /\ pid < count => totals[pid] <= new_total
    /\ after[pid] = new_total
    /\ new_count = IF pid = count THEN count + 1 ELSE count

\* update_top makes the board of the totals before a bid into the board of the
\* totals after it.  WinnersAreTop and BoardIsTop rest on this.
THEOREM UpdateTopKeepsTop ==
    ASSUME NEW w \in Seq(Slot), NEW n \in Nat, NEW count \in Nat, NEW totals,
           IsLeaderBoard(w, n, totals, count),
           NEW pid \in Nat, pid <= count, NEW new_total \in Nat,
           NEW after, NEW new_count,
           BidBooked(totals, count, pid, new_total, after, new_count)
    PROVE  IsLeaderBoard(UpdateTop(w, n, pid, new_total), n, after, new_count)
<1> DEFINE incoming == [proposal_id |-> pid, total |-> new_total]
           i == SeatOf(w, pid)
<1>1. /\ Len(w) \in Nat /\ DOMAIN w = 1 .. Len(w)
      /\ \A k \in 1 .. Len(w) : /\ w[k] \in Slot /\ w[k].proposal_id \in Nat
                               /\ w[k].total \in Nat
  <2>1. Len(w) \in Nat /\ DOMAIN w = 1 .. Len(w) /\ \A k \in 1 .. Len(w) : w[k] \in Slot
    BY LenProperties, ElementOfSeq
  <2> QED  BY <2>1 DEF Slot
<1>2. incoming \in Slot /\ incoming.proposal_id = pid /\ incoming.total = new_total
  BY DEF Slot
<1>3. Seats(n) \in Nat \ {0}
  BY MaxWinnersAssumption DEF Seats
<1>4. /\ Len(w) = IF count < Seats(n) THEN count ELSE Seats(n)
      /\ \A a, b \in 1 .. Len(w) : a < b => RanksAbove(w[a], w[b])
      /\ \A a, b \in 1 .. Len(w) : w[a].proposal_id = w[b].proposal_id => a = b
      /\ \A k \in 1 .. Len(w) : /\ w[k].proposal_id < count
                               /\ w[k].total = totals[w[k].proposal_id]
      /\ \A p \in 0 .. count - 1 :
            p \notin Seated(w) => \A k \in 1 .. Len(w) : totals[p] <= w[k].total
  BY <1>1 DEF IsLeaderBoard
<1>5. new_count \in Nat /\ pid < new_count /\ count <= new_count
  BY DEF BidBooked
<1>6. ASSUME NEW k \in 1 .. Len(w), w[k].proposal_id # pid
      PROVE  w[k].proposal_id < new_count /\ w[k].total = after[w[k].proposal_id]
  <2>1. w[k].proposal_id \in 0 .. count - 1
    BY <1>1, <1>4
  <2>2. w[k].total = totals[w[k].proposal_id]
    BY <1>4
  <2>3. after[w[k].proposal_id] = totals[w[k].proposal_id]
    BY <1>6, <2>1 DEF BidBooked
  <2> QED  BY <1>5, <2>1, <2>2, <2>3
<1>7. \A p : p \in Seated(w) <=> \E k \in 1 .. Len(w) : w[k].proposal_id = p
  BY <1>1 DEF Seated
<1> HIDE DEF incoming, i
<1>8. CASE pid \in Seated(w)
  <2>1. i \in 1 .. Len(w) /\ w[i].proposal_id = pid
    BY <1>1, <1>8 DEF Seated, SeatOf, i
  <2> DEFINE v == [w EXCEPT ![i] = incoming]
  <2>2. /\ v \in Seq(Slot) /\ Len(v) = Len(w) /\ v[i] = incoming
        /\ \A k \in 1 .. Len(w) : k # i => v[k] = w[k]
    BY <1>2, <2>1, ExceptSeq
  <2>3. UpdateTop(w, n, pid, new_total) = BubbleUp(v, i)
    BY <1>8 DEF UpdateTop, incoming, i
  <2> HIDE DEF v
  <2>4. pid < count /\ new_count = count /\ w[i].total <= new_total
    BY <1>4, <2>1 DEF BidBooked
  <2>5. \A a, b \in 1 .. Len(v) \ {i} : a < b => RanksAbove(v[a], v[b])
    BY <1>4, <2>2
  <2>6. ASSUME NEW b \in i + 1 .. Len(v) PROVE RanksAbove(v[i], v[b])
    <3>1. b \in 1 .. Len(w) /\ i < b /\ b # i
      BY <1>1, <2>1, <2>2
    <3>2. RanksAbove(w[i], w[b]) /\ v[b] = w[b]
      BY <1>4, <2>1, <2>2, <3>1
    <3> QED  BY <1>1, <1>2, <2>1, <2>2, <2>4, <3>1, <3>2 DEF RanksAbove
  <2>7. \A k \in 1 .. Len(v) : v[k].proposal_id = w[k].proposal_id
    BY <1>2, <2>1, <2>2
  <2>8. Distinct(v)
    BY <1>4, <2>2, <2>7 DEF Distinct
  <2>9. \A k \in 1 .. Len(v) : /\ v[k].proposal_id < new_count
                               /\ v[k].total = after[v[k].proposal_id]
    <3>1. ASSUME NEW k \in 1 .. Len(w), k # i PROVE w[k].proposal_id # pid
      BY <1>4, <2>1, <3>1
    <3>2. after[pid] = new_total
      BY DEF BidBooked
    <3> QED  BY <1>2, <1>5, <1>6, <2>2, <3>1, <3>2
  <2>10. ASSUME NEW p \in 0 .. new_count - 1, p \notin Seated(v), NEW k \in 1 .. Len(v)
         PROVE  after[p] <= v[k].total
    <3>1. DOMAIN v = 1 .. Len(v)
      BY <2>2, LenProperties
    <3>2. p \notin Seated(w)
      BY <1>7, <2>2, <2>7, <2>10, <3>1 DEF Seated
    <3>3. p # pid /\ p \in 0 .. count - 1
      BY <1>8, <2>4, <3>2
    <3>4. after[p] = totals[p] /\ totals[p] \in Nat /\ totals[p] <= w[k].total
      BY <1>4, <2>2, <3>2, <3>3 DEF BidBooked
    <3>5. CASE k = i
      BY <1>1, <1>2, <2>1, <2>2, <2>4, <3>4, <3>5
    <3>6. CASE k # i
      BY <2>2, <3>4, <3>6
    <3> QED  BY <3>5, <3>6
  <2>11. Len(v) = IF new_count < Seats(n) THEN new_count ELSE Seats(n)
    BY <1>4, <2>2, <2>4
  <2>12. IsLeaderBoard(BubbleUp(v, i), n, after, new_count)
    BY <2>1, <2>2, <2>5, <2>6, <2>8, <2>9, <2>10, <2>11, BubbleUpCompletes
  <2> QED  BY <2>3, <2>12
<1>9. CASE pid \notin Seated(w) /\ Len(w) < Seats(n)
  <2>1. Len(w) = count
    BY <1>3, <1>4, <1>9
  <2>2. \A p \in 0 .. count - 1 : p \in Seated(w)
    BY <1>1, <1>4, <2>1, AllSeated DEF Distinct
  <2>3. pid = count /\ new_count = count + 1
    BY <1>9, <2>2 DEF BidBooked
  <2> DEFINE v == Append(w, incoming)
             last == count + 1
  <2>4. /\ v \in Seq(Slot) /\ Len(v) = last /\ v[last] = incoming
        /\ \A k \in 1 .. count : v[k] = w[k]
    BY <1>2, <2>1, AppendProperties
  <2>5. UpdateTop(w, n, pid, new_total) = BubbleUp(v, last)
    BY <1>9, <2>1 DEF UpdateTop, incoming
  <2> HIDE DEF v
  <2>6. last \in 1 .. Len(v) /\ 1 .. Len(v) = (1 .. count) \cup {last} /\ last \notin 1 .. count
    BY <2>4
  <2>7. Distinct(v)
    <3>1. \A k \in 1 .. count : v[k].proposal_id # pid
      BY <1>7, <1>9, <2>1, <2>4
    <3> QED  BY <1>2, <1>4, <2>1, <2>4, <2>6, <3>1 DEF Distinct
  <2>8. \A a, b \in 1 .. Len(v) \ {last} : a < b => RanksAbove(v[a], v[b])
    BY <1>4, <2>1, <2>4, <2>6
  <2>9. \A b \in last + 1 .. Len(v) : RanksAbove(v[last], v[b])
    BY <2>4
  <2>10. ASSUME NEW k \in 1 .. Len(v)
         PROVE  v[k].proposal_id < new_count /\ v[k].total = after[v[k].proposal_id]
    <3>1. CASE k = last
      BY <1>2, <1>5, <2>4, <3>1 DEF BidBooked
    <3>2. CASE k \in 1 .. count
      <4>1. w[k].proposal_id # pid
        BY <1>7, <1>9, <2>1, <3>2
      <4> QED  BY <1>6, <2>1, <2>4, <3>2, <4>1
    <3> QED  BY <2>6, <3>1, <3>2
  <2>11. \A p \in 0 .. new_count - 1 : p \in Seated(v)
    <3>1. DOMAIN v = 1 .. Len(v)
      BY <2>4, LenProperties
    <3>2. ASSUME NEW p \in 0 .. count - 1 PROVE p \in Seated(v)
      <4>1. PICK k \in 1 .. count : w[k].proposal_id = p
        BY <1>7, <2>1, <2>2
      <4> QED  BY <2>4, <2>6, <3>1, <4>1 DEF Seated
    <3>3. pid \in Seated(v)
      BY <1>2, <2>4, <2>6, <3>1 DEF Seated
    <3> QED  BY <2>3, <3>2, <3>3
  <2>12. Len(v) = IF new_count < Seats(n) THEN new_count ELSE Seats(n)
    BY <1>3, <1>9, <2>1, <2>3, <2>4
  <2> HIDE DEF last
  <2>13. IsLeaderBoard(BubbleUp(v, last), n, after, new_count)
    BY <2>4, <2>6, <2>7, <2>8, <2>9, <2>10, <2>11, <2>12, BubbleUpCompletes
  <2> QED  BY <2>5, <2>13
\* From here on the board is full.
<1> DEFINE N == Seats(n)
<1>10. ASSUME pid \notin Seated(w), ~ (Len(w) < Seats(n))
       PROVE  /\ Len(w) = N /\ N \in 1 .. Len(w) /\ N <= count
              /\ N = IF new_count < N THEN new_count ELSE N
              /\ \A k \in 1 .. N : /\ w[k].proposal_id # pid
                                   /\ w[N].total <= w[k].total
              /\ \A p \in 0 .. new_count - 1 : p # pid =>
                    p \in 0 .. count - 1 /\ after[p] = totals[p] /\ totals[p] \in Nat
  <2>1. Len(w) = N /\ N \in 1 .. Len(w) /\ N <= count
    BY <1>1, <1>3, <1>4, <1>10
  <2>2. N = IF new_count < N THEN new_count ELSE N
    BY <1>5, <2>1
  <2>3. ASSUME NEW k \in 1 .. N PROVE w[N].total <= w[k].total
    <3>1. CASE k = N  BY <1>1, <2>1, <3>1
    <3>2. CASE k # N
      <4>1. RanksAbove(w[k], w[N])  BY <1>1, <1>4, <2>1, <3>2
      <4> QED  BY <1>1, <2>1, <4>1 DEF RanksAbove
    <3> QED  BY <3>1, <3>2
  <2>4. \A k \in 1 .. N : w[k].proposal_id # pid
    BY <1>7, <1>10, <2>1
  <2>5. ASSUME NEW p \in 0 .. new_count - 1, p # pid
        PROVE  p \in 0 .. count - 1 /\ after[p] = totals[p] /\ totals[p] \in Nat
    <3>1. p \in 0 .. count - 1
      BY <2>5 DEF BidBooked
    <3> QED  BY <2>5, <3>1 DEF BidBooked
  <2> QED  BY <2>1, <2>2, <2>3, <2>4, <2>5
<1> HIDE DEF N
<1>11. CASE /\ pid \notin Seated(w) /\ ~ (Len(w) < Seats(n))
            /\ StrictlyBeats(incoming, LastSlot(w, n))
  <2> DEFINE v == [w EXCEPT ![N] = incoming]
  <2>1. /\ v \in Seq(Slot) /\ Len(v) = N /\ v[N] = incoming
        /\ \A k \in 1 .. N : k # N => v[k] = w[k]
    BY <1>2, <1>10, <1>11, ExceptSeq
  <2>2. UpdateTop(w, n, pid, new_total) = BubbleUp(v, N)
    BY <1>11 DEF UpdateTop, incoming, N
  <2> HIDE DEF v
  <2>3. w[N].total < new_total
    BY <1>1, <1>2, <1>10, <1>11 DEF StrictlyBeats, LastSlot, N
  <2>4. Distinct(v)
    BY <1>2, <1>4, <1>10, <1>11, <2>1 DEF Distinct
  <2>5. \A a, b \in 1 .. Len(v) \ {N} : a < b => RanksAbove(v[a], v[b])
    BY <1>4, <1>10, <1>11, <2>1
  <2>6. \A b \in N + 1 .. Len(v) : RanksAbove(v[N], v[b])
    BY <1>10, <1>11, <2>1
  <2>7. ASSUME NEW k \in 1 .. Len(v)
        PROVE  v[k].proposal_id < new_count /\ v[k].total = after[v[k].proposal_id]
    <3>1. CASE k = N
      BY <1>2, <1>5, <2>1, <3>1 DEF BidBooked
    <3>2. CASE k # N
      BY <1>6, <1>10, <1>11, <2>1, <3>2
    <3> QED  BY <3>1, <3>2
  <2>8. ASSUME NEW p \in 0 .. new_count - 1, p \notin Seated(v)
        PROVE  after[p] <= w[N].total /\ after[p] \in Nat
    <3>1. DOMAIN v = 1 .. N
      BY <2>1, LenProperties
    <3>2. p # pid
      BY <1>2, <1>10, <1>11, <2>1, <2>8, <3>1 DEF Seated
    <3>3. after[p] = totals[p] /\ totals[p] \in Nat /\ p \in 0 .. count - 1
      BY <1>10, <1>11, <3>2
    <3>4. CASE p \in Seated(w)
      <4>1. PICK k \in 1 .. N : w[k].proposal_id = p
        BY <1>7, <1>10, <1>11, <3>4
      <4>2. k = N
        BY <2>1, <2>8, <3>1, <4>1 DEF Seated
      <4> QED  BY <1>1, <1>4, <1>10, <1>11, <3>3, <4>1, <4>2
    <3>5. CASE p \notin Seated(w)
      BY <1>4, <1>10, <1>11, <3>3, <3>5
    <3> QED  BY <3>4, <3>5
  <2>9. \A p \in 0 .. new_count - 1 :
           p \notin Seated(v) => \A k \in 1 .. Len(v) : after[p] <= v[k].total
    <3> SUFFICES ASSUME NEW p \in 0 .. new_count - 1, p \notin Seated(v),
                        NEW k \in 1 .. Len(v)
                 PROVE  after[p] <= v[k].total
      OBVIOUS
    <3>1. after[p] <= w[N].total /\ after[p] \in Nat /\ w[N].total \in Nat
      BY <1>1, <1>10, <1>11, <2>8
    <3>2. CASE k = N
      BY <1>2, <2>1, <2>3, <3>1, <3>2
    <3>3. CASE k # N
      <4>1. v[k] = w[k] /\ w[N].total <= w[k].total /\ w[k].total \in Nat
        BY <1>1, <1>10, <1>11, <2>1, <3>3
      <4> DEFINE x == after[p]
                 y == w[N].total
                 z == w[k].total
      <4>2. x \in Nat /\ y \in Nat /\ z \in Nat /\ x <= y /\ y <= z
        BY <3>1, <4>1
      <4> HIDE DEF x, y, z
      <4>3. x <= z
        BY <4>2
      <4> QED  BY <4>1, <4>3 DEF x, z
    <3> QED  BY <3>2, <3>3
  <2>10. Len(v) = IF new_count < Seats(n) THEN new_count ELSE Seats(n)
    BY <1>10, <1>11, <2>1 DEF N
  <2>11. N \in 1 .. Len(v)
    BY <1>10, <1>11, <2>1
  <2>12. IsLeaderBoard(BubbleUp(v, N), n, after, new_count)
    BY <2>1, <2>4, <2>5, <2>6, <2>7, <2>9, <2>10, <2>11, BubbleUpCompletes
  <2> QED  BY <2>2, <2>12
<1>12. CASE /\ pid \notin Seated(w) /\ ~ (Len(w) < Seats(n))
            /\ ~ StrictlyBeats(incoming, LastSlot(w, n))
  <2>1. UpdateTop(w, n, pid, new_total) = w
    BY <1>12 DEF UpdateTop, incoming
  <2>2. new_total <= w[N].total
    BY <1>1, <1>2, <1>10, <1>12 DEF StrictlyBeats, LastSlot, N
  <2>3. ASSUME NEW p \in 0 .. new_count - 1, p \notin Seated(w), NEW k \in 1 .. Len(w)
        PROVE  after[p] <= w[k].total
    <3>1. CASE p = pid
      <4>1. after[p] = new_total  BY <3>1 DEF BidBooked
      <4> QED  BY <1>1, <1>10, <1>12, <2>2, <4>1
    <3>2. CASE p # pid
      BY <1>4, <1>10, <1>12, <2>3, <3>2
    <3> QED  BY <3>1, <3>2
  <2>4. \A k \in 1 .. Len(w) :
           w[k].proposal_id < new_count /\ w[k].total = after[w[k].proposal_id]
    BY <1>6, <1>10, <1>12
  <2>5. Len(w) = IF new_count < Seats(n) THEN new_count ELSE Seats(n)
    BY <1>10, <1>12 DEF N
  <2>6. IsLeaderBoard(w, n, after, new_count)
    BY <1>1, <1>4, <2>3, <2>4, <2>5 DEF IsLeaderBoard
  <2> QED  BY <2>1, <2>6
<1> QED  BY <1>8, <1>9, <1>11, <1>12
=============================================================================
