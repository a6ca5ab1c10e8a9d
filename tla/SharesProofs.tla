---------------------------- MODULE SharesProofs ----------------------------
(***************************************************************************)
(* What the integer arithmetic of claim_lp and collect_fee bounds, for all *)
(* natural-number inputs; and, around it, the lemmas that other proofs need*)
(* as well: about products, floor division and sets of numbers; about      *)
(* totals, which are reasoned about by adding elements to a set one by one *)
(* (SetInduction); and about powers, by counting up (NumberInduction).     *)
(***************************************************************************)
EXTENDS Shares, Totals, FiniteSetTheorems, TLAPS

(***************************************************************************)
(* Products and floor division                                             *)
(***************************************************************************)
LEMMA ProductNat ==
    ASSUME NEW x \in Nat, NEW y \in Nat
    PROVE  x * y \in Nat
OBVIOUS

LEMMA ProductMonotone ==
    ASSUME NEW x \in Nat, NEW y \in Nat, NEW z \in Nat, x <= y
    PROVE  x * z <= y * z
<1>1. PICK d \in Nat : y = x + d
  <2>1. y - x \in Nat /\ y = x + (y - x)
    OBVIOUS
  <2>2. QED
    BY <2>1
<1>2. y * z = x * z + d * z
  BY <1>1
<1>3. x * z \in Nat /\ d * z \in Nat
  BY <1>1, ProductNat
<1>4. QED
  BY <1>2, <1>3

LEMMA ProductCancel ==
    ASSUME NEW x \in Nat, NEW y \in Nat, NEW z \in Nat, z > 0, x * z <= y * z
    PROVE  x <= y
<1>1. SUFFICES ASSUME x > y PROVE FALSE
  OBVIOUS
<1>2. (y + 1) * z <= x * z
  BY <1>1, ProductMonotone
<1>3. (y + 1) * z = y * z + z
  OBVIOUS
<1>4. y * z \in Nat /\ x * z \in Nat
  BY ProductNat
<1>5. QED
  BY <1>2, <1>3, <1>4

LEMMA DivFloor ==
    ASSUME NEW x \in Nat, NEW y \in Nat, y > 0
    PROVE  /\ x \div y \in Nat
           /\ (x \div y) * y <= x
           /\ x < (x \div y + 1) * y
OBVIOUS

\* A floor quotient by a divisor at least as large as a factor is at most the
\* other factor.
LEMMA DivBound ==
    ASSUME NEW x \in Nat, NEW y \in Nat, NEW z \in Nat, z > 0, y <= z
    PROVE  (x * y) \div z <= x
<1>1. x * y \in Nat /\ y * x = x * y /\ z * x = x * z
  BY ProductNat
<1>2. x * y <= x * z
  BY <1>1, ProductMonotone
<1>3. (x * y) \div z \in Nat /\ ((x * y) \div z) * z <= x * y
  BY <1>1, DivFloor
<1>4. ((x * y) \div z) * z <= x * z
  <2>1. ((x * y) \div z) * z \in Nat /\ x * z \in Nat
    BY <1>3, ProductNat
  <2>2. QED
    BY <1>1, <1>2, <1>3, <2>1
<1>5. QED
  BY <1>3, <1>4, ProductCancel

(***************************************************************************)
(* Least and greatest                                                      *)
(***************************************************************************)
Least(T, F) == \A R \in F : R \subseteq T => R = T

\* Among the parts of an interval there is a least.
LEMMA LeastPart ==
    ASSUME NEW n \in Nat, NEW F, F \subseteq SUBSET (0..n), F # {}
    PROVE  \E T \in F : Least(T, F)
<1> DEFINE Order == StrictSubsetOrdering(0..n)
<1>1. IsWellFoundedOn(Order, SUBSET (0..n))
  <2>1. IsFiniteSet(0..n)
    BY FS_Interval
  <2>2. IsWellFoundedOn(Order, FiniteSubsetsOf(0..n))
    BY <2>1, FS_StrictSubsetOrderingWellFounded
  <2>3. FiniteSubsetsOf(0..n) = SUBSET (0..n)
    BY <2>1, FS_FiniteSubsetsOfFinite
  <2>4. QED
    BY <2>2, <2>3
<1>2. PICK T \in F : \A R \in F : ~(<<R, T>> \in Order)
  <2> HIDE DEF Order
  <2>1. QED
    BY <1>1, WFMin
<1>3. ASSUME NEW R \in F, R \subseteq T PROVE R = T
  BY <1>2, <1>3 DEF StrictSubsetOrdering
<1>4. QED
  BY <1>3 DEF Least

\* Numbers up to a bound have a least and a greatest.
LEMMA LeastAndGreatest ==
    ASSUME NEW n \in Nat, NEW S, S \subseteq 0..n, S # {}
    PROVE  /\ \E k \in S : \A y \in S : k <= y
           /\ \E k \in S : \A y \in S : y <= k
<1>1. \E k \in S : \A y \in S : k <= y
  <2> DEFINE F == {0..k : k \in S}
  <2>1. n \in Nat /\ F \subseteq SUBSET (0..n) /\ F # {}
    <3>1. \A k \in S : 0..k \in SUBSET (0..n)
      OBVIOUS
    <3>2. QED
      BY <3>1
  <2> HIDE DEF F
  <2>2. PICK T \in F : Least(T, F)
    BY <2>1, LeastPart, Zenon
  <2>3. PICK k \in S : T = 0..k
    BY <2>2 DEF F
  <2>4. ASSUME NEW y \in S, y < k PROVE FALSE
    <3>1. 0..y \in F /\ 0..y \subseteq 0..k
      BY <2>4 DEF F
    <3>2. 0..y = 0..k
      BY <2>2, <2>3, <3>1 DEF Least
    <3>3. k \in 0..k /\ k \notin 0..y
      BY <2>4
    <3>4. QED
      BY <3>2, <3>3
  <2>5. \A y \in S : k <= y
    BY <2>4
  <2>6. QED
    BY <2>5
<1>2. \E k \in S : \A y \in S : y <= k
  <2> DEFINE F == {k..n : k \in S}
  <2>1. n \in Nat /\ F \subseteq SUBSET (0..n) /\ F # {}
    <3>1. \A k \in S : k..n \in SUBSET (0..n)
      OBVIOUS
    <3>2. QED
      BY <3>1
  <2> HIDE DEF F
  <2>2. PICK T \in F : Least(T, F)
    BY <2>1, LeastPart, Zenon
  <2>3. PICK k \in S : T = k..n
    BY <2>2 DEF F
  <2>4. ASSUME NEW y \in S, y > k PROVE FALSE
    <3>1. y..n \in F /\ y..n \subseteq k..n
      BY <2>4 DEF F
    <3>2. y..n = k..n
      BY <2>2, <2>3, <3>1 DEF Least
    <3>3. k \in k..n /\ k \notin y..n
      BY <2>4
    <3>4. QED
      BY <3>2, <3>3
  <2>5. \A y \in S : y <= k
    BY <2>4
  <2>6. QED
    BY <2>5
<1>3. QED
  BY <1>1, <1>2

\* What holds of zero and of every successor of a number it holds of, holds
\* of every number: induction, as a set of numbers.
LEMMA NumberInduction ==
    ASSUME NEW Good, 0 \in Good, \A k \in Nat : k \in Good => k + 1 \in Good
    PROVE  Nat \subseteq Good
<1>1. SUFFICES ASSUME NEW n \in Nat, n \notin Good PROVE FALSE
  OBVIOUS
<1> DEFINE Bad == {k \in 0..n : k \notin Good}
<1>2. Bad \subseteq 0..n /\ Bad # {}
  BY <1>1
<1>3. PICK k \in Bad : \A j \in Bad : k <= j
  <2> HIDE DEF Bad
  <2>1. QED
    BY <1>2, LeastAndGreatest, Zenon
<1>4. k \in 0..n /\ k \notin Good /\ k # 0
  BY <1>3
<1>5. k - 1 \in Nat /\ k - 1 \in 0..n /\ k = (k - 1) + 1
  BY <1>4
<1>6. k - 1 \in Good
  <2>1. k - 1 \notin Bad
    BY <1>3, <1>4, <1>5
  <2>2. QED
    BY <1>5, <2>1
<1>7. QED
  BY <1>4, <1>5, <1>6

(***************************************************************************)
(* collect_fee                                                             *)
(***************************************************************************)
LEMMA PoolValueNat ==
    ASSUME NEW base \in Nat, NEW quote \in Nat, NEW payout,
           payout.yes \in Nat, payout.no \in Nat, payout.yes + payout.no > 0
    PROVE  PoolValue(base, quote, payout) \in Nat
<1>1. base * payout.yes \in Nat /\ quote * payout.no \in Nat
  BY ProductNat
<1>2. base * payout.yes + quote * payout.no \in Nat /\ payout.yes + payout.no \in Nat
  BY <1>1
<1>3. QED
  BY <1>2, DivFloor DEF PoolValue

\* The divisions collect_fee makes are by positive numbers, and the LP it cuts
\* is a part of the market's own LP.
LEMMA FeeLpBounds ==
    ASSUME NEW lp \in Nat, NEW contributed \in Nat, NEW bps \in 0..BpsScale,
           NEW value \in Nat, NEW supply \in Nat, supply > 0
    PROVE  /\ FeeLp(lp, contributed, bps, value, supply) \in Nat
           /\ FeeLp(lp, contributed, bps, value, supply) <= lp
<1> DEFINE realized == RealizedFull(lp, value, supply)
           accrued  == Accrued(realized, contributed)
           slice    == (lp * accrued) \div realized
<1>0. bps \in Nat /\ BpsScale \in Nat /\ BpsScale > 0 /\ bps <= BpsScale
  BY DEF BpsScale
<1>1. realized \in Nat
  BY ProductNat, DivFloor DEF RealizedFull
<1> HIDE DEF realized
<1>2. accrued \in Nat /\ accrued <= realized
  BY <1>1 DEF Accrued
<1> HIDE DEF accrued
<1>3. CASE accrued = 0
  BY <1>3 DEF FeeLp, realized, accrued
<1>4. CASE accrued # 0
  <2>1. realized > 0
    BY <1>1, <1>2, <1>4
  <2>2. slice \in Nat /\ slice <= lp
    BY <1>1, <1>2, <2>1, ProductNat, DivFloor, DivBound
  <2> HIDE DEF slice
  <2>3. /\ (slice * bps) \div BpsScale \in Nat
        /\ (slice * bps) \div BpsScale <= slice
    <3>1. slice * bps \in Nat
      BY <1>0, <2>2, ProductNat
    <3>2. QED
      BY <1>0, <2>2, <3>1, DivFloor, DivBound
  <2>4. FeeLp(lp, contributed, bps, value, supply) = (slice * bps) \div BpsScale
    BY <1>4 DEF FeeLp, realized, accrued, slice
  <2>5. QED
    BY <2>2, <2>3, <2>4
<1>5. QED
  BY <1>3, <1>4

\* The fee is paid out of profit alone: valued at the pool's own rate, the LP
\* left after the cut is still worth all that was contributed.
THEOREM FeeSparesContributions ==
    ASSUME NEW lp \in Nat, NEW contributed \in Nat, NEW bps \in 0..BpsScale,
           NEW value \in Nat, NEW supply \in Nat, supply > 0,
           FeeLp(lp, contributed, bps, value, supply) > 0
    PROVE  (lp - FeeLp(lp, contributed, bps, value, supply)) * value >= contributed * supply
<1> DEFINE realized == RealizedFull(lp, value, supply)
           accrued  == Accrued(realized, contributed)
           slice    == (lp * accrued) \div realized
           fee      == FeeLp(lp, contributed, bps, value, supply)
           left     == lp - fee
<1>0. bps \in Nat /\ BpsScale \in Nat /\ BpsScale > 0 /\ bps <= BpsScale
  BY DEF BpsScale
<1>1. realized \in Nat /\ realized * supply <= lp * value
  BY ProductNat, DivFloor DEF RealizedFull
<1>2. accrued \in Nat /\ accrued # 0
  <2>1. accrued \in Nat
    BY <1>1 DEF Accrued
  <2>2. QED
    BY <2>1 DEF FeeLp
<1>3. fee = (slice * bps) \div BpsScale
  BY <1>2 DEF FeeLp
<1>4. left \in Nat /\ fee \in Nat /\ lp = left + fee
  <2>1. fee \in Nat /\ fee <= lp
    BY FeeLpBounds
  <2> HIDE DEF fee
  <2>2. QED
    BY <2>1
<1> HIDE DEF fee, left, realized
<1>5. realized = accrued + contributed
  BY <1>1, <1>2 DEF Accrued
<1> HIDE DEF accrued
<1>6. realized > 0
  BY <1>1, <1>2, <1>5
<1>7. slice \in Nat /\ slice * realized <= lp * accrued
  BY <1>1, <1>2, <1>6, ProductNat, DivFloor
<1> HIDE DEF slice
<1>8. fee <= slice
  BY <1>0, <1>3, <1>7, DivBound
<1>9. fee * realized <= lp * accrued
  <2>1. fee * realized <= slice * realized
    BY <1>1, <1>4, <1>7, <1>8, ProductMonotone
  <2>2. fee * realized \in Nat /\ slice * realized \in Nat /\ lp * accrued \in Nat
    BY <1>1, <1>2, <1>4, <1>7, ProductNat
  <2>3. QED
    BY <1>7, <2>1, <2>2
<1>10. lp * contributed <= left * realized
  <2>1. lp * realized = lp * accrued + lp * contributed
    BY <1>2, <1>5
  <2>2. lp * realized = left * realized + fee * realized
    BY <1>1, <1>4
  <2>3. /\ lp * realized \in Nat /\ lp * accrued \in Nat /\ lp * contributed \in Nat
        /\ left * realized \in Nat /\ fee * realized \in Nat
    BY <1>1, <1>2, <1>4, ProductNat
  <2>4. QED
    BY <1>9, <2>1, <2>2, <2>3
<1>11. (contributed * supply) * realized <= (left * value) * realized
  <2>1. (realized * supply) * contributed <= (lp * value) * contributed
    BY <1>1, ProductNat, ProductMonotone
  <2>2. (lp * contributed) * value <= (left * realized) * value
    BY <1>1, <1>4, <1>10, ProductNat, ProductMonotone
  <2>3. /\ (realized * supply) * contributed = (contributed * supply) * realized
        /\ (lp * value) * contributed = (lp * contributed) * value
        /\ (left * realized) * value = (left * value) * realized
    BY <1>1, <1>4
  <2>4. /\ (contributed * supply) * realized \in Nat
        /\ (lp * contributed) * value \in Nat
        /\ (left * value) * realized \in Nat
    BY <1>1, <1>4, ProductNat
  <2>5. QED
    BY <2>1, <2>2, <2>3, <2>4
<1>12. contributed * supply \in Nat /\ left * value \in Nat
  BY <1>4, ProductNat
<1>13. contributed * supply <= left * value
  BY <1>1, <1>6, <1>11, <1>12, ProductCancel
<1>14. QED
  BY <1>13, <1>12 DEF left, fee

(***************************************************************************)
(* Totals over a finite set                                                *)
(***************************************************************************)
\* What holds of the empty set and of a set when one more element of `S` is
\* added holds of `S`: induction over a finite set, as a set of sets.
LEMMA SetInduction ==
    ASSUME NEW S, IsFiniteSet(S), NEW Good, {} \in Good,
           \A T \in SUBSET S : \A u \in T : T \ {u} \in Good => T \in Good
    PROVE  S \in Good
<1> DEFINE Bad == (SUBSET S) \ Good
<1>1. SUFFICES ASSUME Bad # {} PROVE FALSE
  OBVIOUS
<1>2. Bad \subseteq SUBSET S
  BY <1>1
<1> DEFINE Order == StrictSubsetOrdering(S)
<1>3. IsWellFoundedOn(Order, SUBSET S)
  BY FS_StrictSubsetOrderingWellFounded, FS_FiniteSubsetsOfFinite
<1>4. PICK T \in Bad : \A R \in Bad : ~(<<R, T>> \in Order)
  <2> HIDE DEF Order, Bad
  <2>1. QED
    BY <1>1, <1>2, <1>3, WFMin
<1> HIDE DEF Bad
<1>6. T \in SUBSET S /\ T \notin Good
  BY <1>4 DEF Bad
<1>7. PICK u \in T : TRUE
  BY <1>6
<1>8. T \ {u} \in Good
  <2>1. T \ {u} \in SUBSET S /\ T \ {u} # T
    BY <1>6, <1>7
  <2>2. <<T \ {u}, T>> \in StrictSubsetOrdering(S)
    BY <1>6, <2>1 DEF StrictSubsetOrdering
  <2>3. QED
    BY <1>4, <2>1, <2>2 DEF Bad
<1>9. QED
  BY <1>6, <1>7, <1>8

LEMMA IntervalSize ==
    ASSUME NEW n \in Nat
    PROVE  IsFiniteSet(1..n) /\ Cardinality(1..n) = n
BY FS_Interval

LEMMA UnitsOfOne ==
    ASSUME NEW v, NEW n \in Nat
    PROVE  IsFiniteSet({v} \X (1..n)) /\ Cardinality({v} \X (1..n)) = n
<1>1. IsFiniteSet({v}) /\ Cardinality({v}) = 1
  BY FS_Singleton, Zenon
<1>2. IsFiniteSet(1..n) /\ Cardinality(1..n) = n
  BY IntervalSize
<1>3. /\ IsFiniteSet({v} \X (1..n))
      /\ Cardinality({v} \X (1..n)) = Cardinality({v}) * Cardinality(1..n)
  BY <1>1, <1>2, FS_Product, Zenon
<1>4. QED
  BY <1>1, <1>2, <1>3

LEMMA TotalOfNone ==
    ASSUME NEW f
    PROVE  Total(f, {}) = 0
<1>1. Units(f, {}) = {}
  BY DEF Units
<1>2. QED
  BY <1>1, FS_EmptySet DEF Total

\* One element apart from the others.
LEMMA TotalSplit ==
    ASSUME NEW S, IsFiniteSet(S), NEW f, \A v \in S : f[v] \in Nat, NEW u \in S
    PROVE  /\ Total(f, S) \in Nat /\ Total(f, S \ {u}) \in Nat
           /\ Total(f, S) = Total(f, S \ {u}) + f[u]
<1>1. ASSUME NEW v \in S
      PROVE  IsFiniteSet({v} \X (1..f[v])) /\ Cardinality({v} \X (1..f[v])) = f[v]
  BY UnitsOfOne
<1>2. ASSUME NEW T \in SUBSET S PROVE IsFiniteSet(Units(f, T))
  <2> DEFINE Parts == {{v} \X (1..f[v]) : v \in T}
  <2>1. IsFiniteSet(T)
    BY FS_Subset
  <2> DEFINE part == [v \in T |-> {v} \X (1..f[v])]
  <2>2. part \in Surjection(T, Parts)
    BY DEF Surjection
  <2>3. IsFiniteSet(Parts)
    BY <2>1, <2>2, FS_Surjection
  <2>4. QED
    BY <1>1, <2>3, FS_UNION DEF Units
<1>3. Units(f, S) = Units(f, S \ {u}) \cup ({u} \X (1..f[u]))
  BY DEF Units
<1>4. Units(f, S \ {u}) \cap ({u} \X (1..f[u])) = {}
  BY DEF Units
<1>5. IsFiniteSet(Units(f, S \ {u})) /\ IsFiniteSet({u} \X (1..f[u]))
  BY <1>1, <1>2
<1>6. /\ IsFiniteSet(Units(f, S))
      /\ Cardinality(Units(f, S)) = Cardinality(Units(f, S \ {u}))
            + Cardinality({u} \X (1..f[u])) - Cardinality({})
  <2> DEFINE A == Units(f, S \ {u})
             B == {u} \X (1..f[u])
  <2>1. IsFiniteSet(A) /\ IsFiniteSet(B) /\ A \cap B = {} /\ Units(f, S) = A \cup B
    BY <1>3, <1>4, <1>5
  <2> HIDE DEF A, B
  <2>2. IsFiniteSet(A \cup B)
        /\ Cardinality(A \cup B) = Cardinality(A) + Cardinality(B) - Cardinality({})
    BY <2>1, FS_Union
  <2>3. QED
    BY <2>1, <2>2 DEF A, B
<1>7. QED
  BY <1>1, <1>5, <1>6, FS_EmptySet, FS_CardinalityType DEF Total

LEMMA TotalNat ==
    ASSUME NEW S, IsFiniteSet(S), NEW f, \A v \in S : f[v] \in Nat
    PROVE  Total(f, S) \in Nat
<1>1. CASE S = {}
  BY <1>1, TotalOfNone
<1>2. CASE S # {}
  BY <1>2, TotalSplit
<1>3. QED
  BY <1>1, <1>2

\* Only the values on the set matter.
LEMMA TotalSame ==
    ASSUME NEW S, NEW f, NEW g, \A v \in S : g[v] = f[v]
    PROVE  Total(g, S) = Total(f, S)
<1>1. Units(g, S) = Units(f, S)
  BY DEF Units
<1>2. QED
  BY <1>1 DEF Total

\* One value changes.
LEMMA TotalChange ==
    ASSUME NEW S, IsFiniteSet(S), NEW u \in S, NEW f, NEW g,
           \A v \in S : f[v] \in Nat, g[u] \in Nat, \A v \in S \ {u} : g[v] = f[v]
    PROVE  Total(f, S) >= f[u] /\ Total(g, S) = Total(f, S) - f[u] + g[u]
<1>1. \A v \in S : g[v] \in Nat
  OBVIOUS
<1>2. Total(f, S) = Total(f, S \ {u}) + f[u] /\ Total(f, S \ {u}) \in Nat
  BY TotalSplit
<1>3. Total(g, S) = Total(g, S \ {u}) + g[u]
  BY <1>1, TotalSplit
<1>4. Total(g, S \ {u}) = Total(f, S \ {u})
  BY TotalSame
<1>5. QED
  BY <1>2, <1>3, <1>4

LEMMA TotalOfZeros ==
    ASSUME NEW S, NEW f, \A v \in S : f[v] = 0
    PROVE  Total(f, S) = 0
<1>1. Units(f, S) = {}
  BY DEF Units
<1>2. QED
  BY <1>1, FS_EmptySet DEF Total

\* A part of the set totals no more than the whole.
LEMMA TotalOfPart ==
    ASSUME NEW S, IsFiniteSet(S), NEW T \in SUBSET S, NEW f, \A v \in S : f[v] \in Nat
    PROVE  Total(f, T) <= Total(f, S)
<1> DEFINE Good == {R \in SUBSET S : \A Q \in SUBSET R : Total(f, Q) <= Total(f, R)}
<1>1. {} \in Good
  BY TotalOfNone
<1>2. ASSUME NEW R \in SUBSET S, NEW u \in R, R \ {u} \in Good
      PROVE  R \in Good
  <2>1. SUFFICES ASSUME NEW Q \in SUBSET R PROVE Total(f, Q) <= Total(f, R)
    BY <1>2
  <2>2. IsFiniteSet(R) /\ IsFiniteSet(Q)
    BY FS_Subset
  <2>3. Total(f, R) = Total(f, R \ {u}) + f[u] /\ Total(f, R \ {u}) \in Nat
    BY <2>2, TotalSplit
  <2>4. Q \ {u} \in SUBSET (R \ {u})
    OBVIOUS
  <2>5. Total(f, Q \ {u}) <= Total(f, R \ {u})
    BY <1>2, <2>4
  <2>6. CASE u \in Q
    <3>1. Total(f, Q) = Total(f, Q \ {u}) + f[u] /\ Total(f, Q \ {u}) \in Nat
      BY <2>2, <2>6, TotalSplit
    <3>2. QED
      BY <2>3, <2>5, <3>1, f[u] \in Nat
  <2>7. CASE u \notin Q
    <3>1. Q \ {u} = Q
      BY <2>7
    <3>2. Total(f, Q) \in Nat
      BY <2>2, TotalNat
    <3>3. Total(f, Q) <= Total(f, R \ {u})
      BY <2>5, <3>1
    <3>4. QED
      BY <2>3, <3>2, <3>3, f[u] \in Nat
  <2>8. QED
    BY <2>6, <2>7
<1> HIDE DEF Good
<1>3. S \in Good
  BY <1>1, <1>2, SetInduction
<1>4. QED
  BY <1>3 DEF Good

LEMMA TotalScaled ==
    ASSUME NEW S, IsFiniteSet(S), NEW f, NEW h, NEW a \in Nat,
           \A v \in S : f[v] \in Nat /\ h[v] = a * f[v]
    PROVE  Total(h, S) = a * Total(f, S)
<1> DEFINE Good == {R \in SUBSET S : Total(h, R) = a * Total(f, R)}
<1>1. {} \in Good
  BY TotalOfNone
<1>2. ASSUME NEW R \in SUBSET S, NEW u \in R, R \ {u} \in Good
      PROVE  R \in Good
  <2>1. IsFiniteSet(R) /\ \A v \in R : f[v] \in Nat /\ h[v] \in Nat
    BY FS_Subset, ProductNat
  <2>2. /\ Total(f, R) = Total(f, R \ {u}) + f[u] /\ Total(f, R \ {u}) \in Nat
        /\ Total(h, R) = Total(h, R \ {u}) + h[u]
    BY <2>1, TotalSplit
  <2>3. a * Total(f, R) = a * Total(f, R \ {u}) + a * f[u]
    BY <2>1, <2>2
  <2>4. QED
    BY <1>2, <2>2, <2>3
<1> HIDE DEF Good
<1>3. S \in Good
  BY <1>1, <1>2, SetInduction
<1>4. QED
  BY <1>3 DEF Good

\* Linear facts about values are facts about totals.
LEMMA TotalLinear ==
    ASSUME NEW S, IsFiniteSet(S), NEW f, NEW g, NEW h,
           NEW a \in Nat, NEW b \in Nat,
           \A v \in S : f[v] \in Nat /\ g[v] \in Nat /\ h[v] = a * f[v] + b * g[v]
    PROVE  Total(h, S) = a * Total(f, S) + b * Total(g, S)
<1> DEFINE Good == {R \in SUBSET S : Total(h, R) = a * Total(f, R) + b * Total(g, R)}
<1>1. {} \in Good
  BY TotalOfNone
<1>2. ASSUME NEW R \in SUBSET S, NEW u \in R, R \ {u} \in Good
      PROVE  R \in Good
  <2>1. IsFiniteSet(R) /\ \A v \in R : f[v] \in Nat /\ g[v] \in Nat /\ h[v] \in Nat
    BY FS_Subset, ProductNat
  <2>2. /\ Total(f, R) = Total(f, R \ {u}) + f[u] /\ Total(f, R \ {u}) \in Nat
        /\ Total(g, R) = Total(g, R \ {u}) + g[u] /\ Total(g, R \ {u}) \in Nat
        /\ Total(h, R) = Total(h, R \ {u}) + h[u]
    BY <2>1, TotalSplit
  <2>3. Total(h, R \ {u}) = a * Total(f, R \ {u}) + b * Total(g, R \ {u})
    BY <1>2
  <2>4. a * Total(f, R) = a * Total(f, R \ {u}) + a * f[u]
    BY <2>1, <2>2
  <2>5. b * Total(g, R) = b * Total(g, R \ {u}) + b * g[u]
    BY <2>1, <2>2
  <2>6. h[u] = a * f[u] + b * g[u] /\ a * f[u] \in Nat /\ b * g[u] \in Nat
    BY <2>1, ProductNat
  <2>7. a * Total(f, R \ {u}) \in Nat /\ b * Total(g, R \ {u}) \in Nat
    BY <2>2, ProductNat
  <2>8. QED
    BY <2>2, <2>3, <2>4, <2>5, <2>6, <2>7
<1> HIDE DEF Good
<1>3. S \in Good
  BY <1>1, <1>2, SetInduction
<1>4. QED
  BY <1>3 DEF Good

\* Values no larger total no more.
LEMMA TotalMonotone ==
    ASSUME NEW S, IsFiniteSet(S), NEW f, NEW g,
           \A v \in S : f[v] \in Nat /\ g[v] \in Nat /\ f[v] <= g[v]
    PROVE  Total(f, S) <= Total(g, S)
<1> DEFINE Good == {R \in SUBSET S : Total(f, R) <= Total(g, R)}
<1>1. {} \in Good
  BY TotalOfNone
<1>2. ASSUME NEW R \in SUBSET S, NEW u \in R, R \ {u} \in Good
      PROVE  R \in Good
  <2>1. IsFiniteSet(R)
    BY FS_Subset
  <2>2. /\ Total(f, R) = Total(f, R \ {u}) + f[u] /\ Total(f, R \ {u}) \in Nat
        /\ Total(g, R) = Total(g, R \ {u}) + g[u] /\ Total(g, R \ {u}) \in Nat
    BY <2>1, TotalSplit
  <2>3. f[u] \in Nat /\ g[u] \in Nat /\ f[u] <= g[u]
    OBVIOUS
  <2>4. QED
    BY <1>2, <2>2, <2>3
<1> HIDE DEF Good
<1>3. S \in Good
  BY <1>1, <1>2, SetInduction
<1>4. QED
  BY <1>3 DEF Good

\* Only where a value is positive does it matter.
LEMMA TotalOfSupport ==
    ASSUME NEW S, NEW T \in SUBSET S, NEW f, \A v \in S \ T : f[v] = 0
    PROVE  Total(f, S) = Total(f, T)
<1>1. Units(f, S) = Units(f, T)
  BY DEF Units
<1>2. QED
  BY <1>1 DEF Total

LEMMA TotalOfOne ==
    ASSUME NEW u, NEW f, f[u] \in Nat
    PROVE  Total(f, {u}) = f[u]
<1>1. IsFiniteSet({u}) /\ {u} \ {u} = {}
  BY FS_Singleton
<1>2. QED
  BY <1>1, TotalSplit, TotalOfNone

\* Shares of `amount` in proportion to weights that add up to at most `whole`,
\* each rounded down, add up to at most `amount`.
LEMMA Apportioned ==
    ASSUME NEW S, IsFiniteSet(S), NEW f, NEW w, NEW amount \in Nat, NEW whole \in Nat,
           whole > 0, Total(w, S) <= whole,
           \A v \in S : f[v] \in Nat /\ w[v] \in Nat /\ f[v] * whole <= amount * w[v]
    PROVE  Total(f, S) <= amount
<1> DEFINE p == [v \in S |-> whole * f[v]]
           q == [v \in S |-> amount * w[v]]
<1>1. Total(f, S) \in Nat /\ Total(w, S) \in Nat
  BY TotalNat
<1>2. Total(p, S) = whole * Total(f, S) /\ Total(q, S) = amount * Total(w, S)
  BY TotalScaled
<1>3. \A v \in S : p[v] \in Nat /\ q[v] \in Nat /\ p[v] <= q[v]
  <2>1. ASSUME NEW v \in S PROVE p[v] \in Nat /\ q[v] \in Nat /\ p[v] <= q[v]
    <3>1. whole * f[v] \in Nat /\ amount * w[v] \in Nat /\ whole * f[v] = f[v] * whole
      BY ProductNat
    <3>2. p[v] = whole * f[v] /\ q[v] = amount * w[v]
      BY <3>1
    <3>3. QED
      BY <3>1, <3>2
  <2>2. QED
    BY <2>1
<1> HIDE DEF p, q
<1>4. Total(p, S) <= Total(q, S)
  BY <1>3, TotalMonotone
<1>5. amount * Total(w, S) <= amount * whole
  <2>1. Total(w, S) * amount <= whole * amount
    BY <1>1, ProductMonotone
  <2>2. QED
    BY <1>1, <2>1
<1>6. Total(f, S) * whole <= amount * whole
  <2>1. /\ whole * Total(f, S) \in Nat /\ amount * Total(w, S) \in Nat
        /\ amount * whole \in Nat /\ Total(f, S) * whole = whole * Total(f, S)
    BY <1>1, ProductNat
  <2>2. QED
    BY <1>2, <1>4, <1>5, <2>1
<1>7. QED
  BY <1>1, <1>6, ProductCancel

\* The numbers up to `n` and one more.
LEMMA TotalOneMore ==
    ASSUME NEW n \in Nat, NEW f, \A i \in 1..(n + 1) : f[i] \in Nat
    PROVE  /\ Total(f, 1..n) \in Nat
           /\ Total(f, 1..(n + 1)) = Total(f, 1..n) + f[n + 1]
<1>1. IsFiniteSet(1..(n + 1))
  BY IntervalSize
<1>2. (1..(n + 1)) \ {n + 1} = 1..n /\ n + 1 \in 1..(n + 1)
  OBVIOUS
<1>3. /\ Total(f, (1..(n + 1)) \ {n + 1}) \in Nat
      /\ Total(f, 1..(n + 1)) = Total(f, (1..(n + 1)) \ {n + 1}) + f[n + 1]
  BY <1>1, <1>2, TotalSplit
<1>4. QED
  BY <1>2, <1>3

\* Numbers up to a bound total at most as many bounds.
LEMMA TotalBounded ==
    ASSUME NEW n \in Nat, NEW f, NEW bound \in Nat,
           \A i \in 1..n : f[i] \in Nat /\ f[i] <= bound
    PROVE  Total(f, 1..n) <= n * bound
<1> DEFINE Good == {k \in Nat : k <= n => Total(f, 1..k) <= k * bound}
<1>1. 0 \in Good
  <2>1. 1..0 = {} /\ 0 * bound = 0
    OBVIOUS
  <2>2. Total(f, 1..0) = 0
    BY <2>1, TotalOfNone
  <2>3. QED
    BY <2>1, <2>2
<1>2. ASSUME NEW k \in Nat, k \in Good PROVE k + 1 \in Good
  <2>1. SUFFICES ASSUME k + 1 <= n PROVE Total(f, 1..(k + 1)) <= (k + 1) * bound
    OBVIOUS
  <2>2. \A i \in 1..(k + 1) : f[i] \in Nat
    BY <2>1
  <2>3. Total(f, 1..(k + 1)) = Total(f, 1..k) + f[k + 1] /\ Total(f, 1..k) \in Nat
    BY <2>2, TotalOneMore
  <2>4. Total(f, 1..k) <= k * bound
    BY <1>2, <2>1
  <2>5. f[k + 1] \in Nat /\ f[k + 1] <= bound
    BY <2>1
  <2>6. (k + 1) * bound = k * bound + bound /\ k * bound \in Nat
    BY ProductNat
  <2>7. QED
    BY <2>3, <2>4, <2>5, <2>6
<1> HIDE DEF Good
<1>3. n \in Good
  BY <1>1, <1>2, NumberInduction
<1>4. QED
  BY <1>3 DEF Good

(***************************************************************************)
(* Powers                                                                  *)
(***************************************************************************)
\* The recursion of Power, up to `n`.
Powers(b, n) ==
    {g \in [0..n -> Nat] : g[0] = 1 /\ \A i \in 1..n : g[i] = b * g[i - 1]}

\* The recursion can be followed as far as one likes.
LEMMA PowersExist ==
    ASSUME NEW b \in Nat, NEW n \in Nat
    PROVE  Powers(b, n) # {}
<1> DEFINE Good == {k \in Nat : Powers(b, k) # {}}
<1>1. 0 \in Good
  <2>1. [i \in 0..0 |-> 1] \in Powers(b, 0)
    BY DEF Powers
  <2>2. QED
    BY <2>1
<1>2. ASSUME NEW k \in Nat, k \in Good PROVE k + 1 \in Good
  <2>1. PICK g \in Powers(b, k) : TRUE
    BY <1>2
  <2>2. g \in [0..k -> Nat] /\ g[0] = 1 /\ \A i \in 1..k : g[i] = b * g[i - 1]
    BY <2>1 DEF Powers
  <2>3. b * g[k] \in Nat
    <3>1. g[k] \in Nat
      BY <2>2
    <3>2. QED
      BY <3>1, ProductNat
  <2> DEFINE h == [i \in 0..(k + 1) |-> IF i <= k THEN g[i] ELSE b * g[k]]
  <2>4. h \in [0..(k + 1) -> Nat]
    <3>1. ASSUME NEW i \in 0..(k + 1)
          PROVE (IF i <= k THEN g[i] ELSE b * g[k]) \in Nat
      BY <2>2, <2>3
    <3>2. QED
      BY <3>1
  <2>5. h[0] = 1
    BY <2>2
  <2>6. ASSUME NEW i \in 1..(k + 1) PROVE h[i] = b * h[i - 1]
    <3>1. i - 1 \in 0..k /\ i - 1 \in 0..(k + 1) /\ i \in 0..(k + 1)
      OBVIOUS
    <3>2. h[i - 1] = g[i - 1]
      BY <3>1
    <3>3. CASE i <= k
      <4>1. i \in 1..k /\ h[i] = g[i]
        BY <3>1, <3>3
      <4> HIDE DEF h
      <4>2. QED
        BY <2>2, <3>2, <4>1
    <3>4. CASE i = k + 1
      <4>1. h[i] = b * g[k] /\ i - 1 = k
        BY <3>1, <3>4
      <4> HIDE DEF h
      <4>2. QED
        BY <3>2, <4>1
    <3>5. QED
      BY <3>3, <3>4
  <2> HIDE DEF h
  <2>7. h \in Powers(b, k + 1)
    BY <2>4, <2>5, <2>6 DEF Powers
  <2>8. QED
    BY <2>7
<1> HIDE DEF Good
<1>3. n \in Good
  BY <1>1, <1>2, NumberInduction
<1>4. QED
  BY <1>3 DEF Good

\* It leaves no choice on the way.
LEMMA PowersAgree ==
    ASSUME NEW b \in Nat, NEW n \in Nat, NEW m \in Nat, n <= m,
           NEW g \in Powers(b, n), NEW h \in Powers(b, m), NEW i \in 0..n
    PROVE  g[i] = h[i]
<1> DEFINE Good == {k \in Nat : k <= n => g[k] = h[k]}
<1>1. /\ g[0] = 1 /\ \A k \in 1..n : g[k] = b * g[k - 1]
      /\ h[0] = 1 /\ \A k \in 1..m : h[k] = b * h[k - 1]
  BY DEF Powers
<1>2. 0 \in Good
  BY <1>1
<1>3. ASSUME NEW k \in Nat, k \in Good PROVE k + 1 \in Good
  <2>1. SUFFICES ASSUME k + 1 <= n PROVE g[k + 1] = h[k + 1]
    OBVIOUS
  <2>2. k + 1 \in 1..n /\ k + 1 \in 1..m /\ (k + 1) - 1 = k
    BY <2>1
  <2>3. g[k] = h[k]
    BY <1>3, <2>1
  <2>4. g[k + 1] = b * g[k] /\ h[k + 1] = b * h[k]
    BY <1>1, <2>2
  <2>5. QED
    BY <2>3, <2>4
<1> HIDE DEF Good
<1>4. i \in Good
  BY <1>2, <1>3, NumberInduction
<1>5. QED
  BY <1>4 DEF Good

\* So there is a function that satisfies it everywhere, and Power is its value.
LEMMA PowerRecursion ==
    ASSUME NEW b \in Nat
    PROVE  /\ Power(b, 0) = 1
           /\ \A k \in Nat : Power(b, k) \in Nat /\ Power(b, k + 1) = b * Power(b, k)
<1> DEFINE Step(p) == [i \in Nat |-> IF i = 0 THEN 1 ELSE b * p[i - 1]]
           upTo(k) == CHOOSE g : g \in Powers(b, k)
           f       == [k \in Nat |-> upTo(k)[k]]
           p       == CHOOSE p : p = Step(p)
<1>1. ASSUME NEW k \in Nat PROVE upTo(k) \in Powers(b, k)
  <2>1. \E g : g \in Powers(b, k)
    BY PowersExist
  <2>2. QED
    BY <2>1
<1>2. f[0] = 1
  BY <1>1 DEF Powers
<1>3. ASSUME NEW k \in Nat PROVE f[k] \in Nat /\ f[k + 1] = b * f[k]
  <2>1. upTo(k) \in Powers(b, k) /\ upTo(k + 1) \in Powers(b, k + 1)
    BY <1>1
  <2>2. f[k] = upTo(k)[k] /\ f[k + 1] = upTo(k + 1)[k + 1]
    OBVIOUS
  <2> HIDE DEF upTo, f
  <2>3. upTo(k)[k] = upTo(k + 1)[k]
    BY <2>1, PowersAgree
  <2>4. upTo(k + 1)[k + 1] = b * upTo(k + 1)[k]
    <3>1. k + 1 \in 1..(k + 1) /\ (k + 1) - 1 = k
      OBVIOUS
    <3>2. QED
      BY <2>1, <3>1 DEF Powers
  <2>5. upTo(k)[k] \in Nat
    BY <2>1 DEF Powers
  <2>6. QED
    BY <2>2, <2>3, <2>4, <2>5
<1>4. f = Step(f)
  <2>1. ASSUME NEW i \in Nat PROVE f[i] = IF i = 0 THEN 1 ELSE b * f[i - 1]
    <3>1. CASE i = 0
      BY <1>2, <3>1
    <3>2. CASE i # 0
      <4>1. i - 1 \in Nat /\ (i - 1) + 1 = i
        BY <3>2
      <4> HIDE DEF f
      <4>2. f[(i - 1) + 1] = b * f[i - 1]
        BY <1>3, <4>1
      <4>3. QED
        BY <3>2, <4>1, <4>2
    <3>3. QED
      BY <3>1, <3>2
  <2>2. f = [i \in Nat |-> f[i]]
    OBVIOUS
  <2> HIDE DEF f
  <2>3. QED
    BY <2>1, <2>2
<1> HIDE DEF f
<1>5. p = Step(p)
  <2>1. \E q : q = Step(q)
    BY <1>4
  <2>2. QED
    BY <2>1
<1>6. \A k \in Nat : Power(b, k) = p[k]
  BY DEF Power
<1> HIDE DEF p
<1>7. p[0] = 1 /\ \A k \in Nat : p[k + 1] = b * p[k]
  <2>1. \A i \in Nat : p[i] = IF i = 0 THEN 1 ELSE b * p[i - 1]
    BY <1>5
  <2>2. QED
    BY <2>1
<1> DEFINE Good == {k \in Nat : p[k] \in Nat}
<1>8. Nat \subseteq Good
  <2>1. 0 \in Good
    BY <1>7
  <2>2. ASSUME NEW k \in Nat, k \in Good PROVE k + 1 \in Good
    BY <1>7, <2>2, ProductNat
  <2> HIDE DEF Good
  <2>3. QED
    BY <2>1, <2>2, NumberInduction
<1>9. QED
  BY <1>6, <1>7, <1>8

\* A power of a positive number is positive.
LEMMA PowerPositive ==
    ASSUME NEW b \in Nat, b > 0, NEW k \in Nat
    PROVE  Power(b, k) \in Nat /\ Power(b, k) > 0
<1> DEFINE Good == {j \in Nat : Power(b, j) > 0}
<1>1. 0 \in Good
  BY PowerRecursion
<1>2. ASSUME NEW j \in Nat, j \in Good PROVE j + 1 \in Good
  <2>1. Power(b, j) \in Nat /\ Power(b, j) > 0 /\ Power(b, j + 1) = b * Power(b, j)
    BY <1>2, PowerRecursion
  <2>2. b * Power(b, j) > 0
    BY <2>1
  <2>3. QED
    BY <2>1, <2>2
<1> HIDE DEF Good
<1>3. k \in Good
  BY <1>1, <1>2, NumberInduction
<1>4. QED
  BY <1>3, PowerRecursion DEF Good

\* Exponents add up.
LEMMA PowerOfSum ==
    ASSUME NEW b \in Nat, b > 0, NEW j \in Nat, NEW k \in Nat
    PROVE  Power(b, j + k) = Power(b, j) * Power(b, k)
<1> DEFINE Good == {i \in Nat : Power(b, j + i) = Power(b, j) * Power(b, i)}
<1>1. \A i \in Nat : Power(b, i) \in Nat /\ Power(b, i + 1) = b * Power(b, i)
  BY PowerRecursion
<1>2. 0 \in Good
  <2>1. Power(b, 0) = 1 /\ j + 0 = j /\ Power(b, j) \in Nat
    BY PowerRecursion
  <2>2. QED
    BY <2>1
<1>3. ASSUME NEW i \in Nat, i \in Good PROVE i + 1 \in Good
  <2> DEFINE x == Power(b, j)
             y == Power(b, i)
  <2>1. x \in Nat /\ y \in Nat /\ Power(b, i + 1) = b * y
    BY <1>1
  <2>2. Power(b, j + (i + 1)) = b * Power(b, j + i)
    <3>1. j + i \in Nat /\ j + (i + 1) = (j + i) + 1
      OBVIOUS
    <3>2. QED
      BY <1>1, <3>1
  <2>3. Power(b, j + i) = x * y
    BY <1>3
  <2> HIDE DEF x, y
  <2>4. b * (x * y) = x * (b * y)
    BY <2>1
  <2>5. Power(b, j + (i + 1)) = x * Power(b, i + 1)
    BY <2>1, <2>2, <2>3, <2>4
  <2>6. QED
    BY <2>5 DEF x
<1> HIDE DEF Good
<1>4. k \in Good
  BY <1>2, <1>3, NumberInduction
<1>5. QED
  BY <1>4 DEF Good
=============================================================================
