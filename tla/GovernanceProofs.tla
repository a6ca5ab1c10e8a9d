-------------------------- MODULE GovernanceProofs --------------------------
(***************************************************************************)
(* What the ramp of the funding floor guarantees, for every activity and   *)
(* every curve governance may set; what a session's record guarantees, for *)
(* any validators, frequencies and clock; how a quote moves with time and  *)
(* demand; that the stored average measures demand, between two measures of*)
(* the creations' ages (DemandInv); and the types of the machines of       *)
(* MCGovernance side by side.                                              *)
(***************************************************************************)
EXTENDS MCGovernance, SharesProofs

\* A floor quotient grows with its dividend.
LEMMA DivMonotone ==
    ASSUME NEW x \in Nat, NEW y \in Nat, NEW z \in Nat, z > 0, x <= y
    PROVE  x \div z <= y \div z
<1> DEFINE p == x \div z
           q == y \div z
<1>1. p \in Nat /\ p * z <= x
  BY DivFloor
<1>2. q \in Nat /\ y < (q + 1) * z
  BY DivFloor
<1> HIDE DEF p, q
<1>3. SUFFICES ASSUME p > q PROVE FALSE
  BY <1>1, <1>2 DEF p, q
<1>4. (q + 1) * z <= p * z
  <2>1. q + 1 \in Nat /\ q + 1 <= p
    BY <1>1, <1>2, <1>3
  <2>2. QED
    BY <2>1, <1>1, ProductMonotone
<1>5. (q + 1) * z \in Nat /\ p * z \in Nat
  BY <1>1, <1>2, ProductNat
<1>6. QED
  BY <1>1, <1>2, <1>4, <1>5

\* The climb above the base, over a span and at a position within it.
LEMMA ClimbBounded ==
    ASSUME NEW height \in Nat, NEW pos \in Nat, NEW span \in Nat, span > 0, pos <= span
    PROVE  (height * pos) \div span \in 0..height
<1>1. (height * pos) \div span <= height
  BY DivBound
<1>2. (height * pos) \div span \in Nat
  BY ProductNat, DivFloor
<1>3. QED
  BY <1>1, <1>2

\* Governance's own bounds hold for every market: its floor is never below
\* the base, and never above the higher of base and max (liquidity_floor).
THEOREM FloorOnRamp ==
    ASSUME NEW ema \in Nat, NEW curve \in Curve
    PROVE  /\ FloorAt(ema, curve) \in Nat
           /\ curve.base <= FloorAt(ema, curve)
           /\ FloorAt(ema, curve) <= IF curve.max > curve.base THEN curve.max ELSE curve.base
<1> DEFINE flat == curve.max <= curve.base \/ curve.cap <= curve.threshold
                     \/ ema <= curve.threshold
<1>1. /\ curve.base \in Nat /\ curve.max \in Nat
      /\ curve.threshold \in Nat /\ curve.cap \in Nat
  BY DEF Curve
<1>2. CASE flat
  BY <1>1, <1>2 DEF FloorAt
<1>3. CASE ~flat /\ ema >= curve.cap
  BY <1>1, <1>3 DEF FloorAt
<1>4. CASE ~flat /\ ema < curve.cap
  <2> DEFINE height == curve.max - curve.base
             pos    == ema - curve.threshold
             span   == curve.cap - curve.threshold
             climb  == (height * pos) \div span
  <2>1. height \in Nat /\ pos \in Nat /\ span \in Nat /\ span > 0 /\ pos <= span
    BY <1>1, <1>4
  <2>2. FloorAt(ema, curve) = curve.base + climb
    BY <1>1, <1>4 DEF FloorAt
  <2>3. climb \in 0..height
    <3> HIDE DEF height, pos, span
    <3>1. QED
      BY <2>1, ClimbBounded
  <2> HIDE DEF climb
  <2>4. QED
    BY <1>1, <1>4, <2>1, <2>2, <2>3
<1>5. QED
  BY <1>1, <1>2, <1>3, <1>4

\* More recent demand never makes the next market cheaper.
THEOREM FloorMonotone ==
    ASSUME NEW ema \in Nat, NEW busier \in Nat, NEW curve \in Curve, ema <= busier
    PROVE  FloorAt(ema, curve) <= FloorAt(busier, curve)
<1> DEFINE flat(e) == curve.max <= curve.base \/ curve.cap <= curve.threshold
                        \/ e <= curve.threshold
<1>1. /\ curve.base \in Nat /\ curve.max \in Nat
      /\ curve.threshold \in Nat /\ curve.cap \in Nat
  BY DEF Curve
<1>2. CASE flat(ema)
  <2>1. FloorAt(ema, curve) = curve.base
    BY <1>1, <1>2 DEF FloorAt
  <2>2. QED
    BY <2>1, FloorOnRamp
<1>3. CASE ~flat(ema) /\ busier >= curve.cap
  <2>1. FloorAt(busier, curve) = curve.max
    BY <1>1, <1>3 DEF FloorAt
  <2>2. FloorAt(ema, curve) <= curve.max
    BY <1>1, <1>3, FloorOnRamp
  <2>3. QED
    BY <2>1, <2>2
<1>4. CASE ~flat(ema) /\ busier < curve.cap
  <2> DEFINE height   == curve.max - curve.base
             span     == curve.cap - curve.threshold
             lower    == ema - curve.threshold
             higher   == busier - curve.threshold
             less     == (height * lower) \div span
             more     == (height * higher) \div span
  <2>1. /\ height \in Nat /\ span \in Nat /\ span > 0
        /\ lower \in Nat /\ higher \in Nat /\ lower <= higher
    BY <1>1, <1>4
  <2>2. /\ FloorAt(ema, curve) = curve.base + less
        /\ FloorAt(busier, curve) = curve.base + more
    BY <1>1, <1>4 DEF FloorAt
  <2>3. height * lower <= height * higher
    <3> HIDE DEF height, lower, higher
    <3>1. /\ lower * height <= higher * height
          /\ height * lower = lower * height
          /\ height * higher = higher * height
      BY <2>1, ProductMonotone
    <3>2. QED
      BY <3>1
  <2>4. /\ less \in Nat /\ more \in Nat
        /\ less <= more
    <3> HIDE DEF height, lower, higher, span
    <3>1. height * lower \in Nat /\ height * higher \in Nat
      BY <2>1, ProductNat
    <3>2. QED
      BY <2>1, <2>3, <3>1, DivFloor, DivMonotone
  <2> HIDE DEF less, more
  <2>5. QED
    BY <1>1, <2>2, <2>4
<1>5. QED
  BY <1>1, <1>2, <1>3, <1>4

(***************************************************************************)
(* Sessions                                                                *)
(***************************************************************************)
\* A commit is stamped with the clock, so it is current only if the delegation
\* does not lie ahead of it.
SessionInv == SessionTypeOK /\ begun <= slot /\ CommitsAreCurrent

LEMMA SessionInvariant == SessionSpec => []SessionInv
<1>1. SessionInit => SessionInv
  BY DEF SessionInit, SessionInv, SessionTypeOK, CommitsAreCurrent
<1>2. SessionInv /\ [SessionNext]_sessionVars => SessionInv'
  <2> SUFFICES ASSUME SessionInv, [SessionNext]_sessionVars PROVE SessionInv'
    OBVIOUS
  <2> USE SessionAssumption DEF SessionInv, SessionTypeOK, CommitsAreCurrent
  <2>1. ASSUME NEW validator \in Validators, NEW frequency \in Frequencies,
               Delegate(validator, frequency)
        PROVE  SessionInv'
    BY <2>1 DEF Delegate, FirstCommit, CommitFrequency, Session, NoSession
  <2>2. Delegated => session \in Session
    BY DEF Delegated, NoSession
  <2>3. CASE Commit
    BY <2>2, <2>3 DEF Commit, Session, NoSession
  <2>4. CASE Undelegate
    BY <2>2, <2>4 DEF Undelegate, Session, NoSession
  <2>5. CASE OpenMarket \/ CloseMarket
    BY <2>5 DEF OpenMarket, CloseMarket
  <2>6. CASE Tick
    BY <2>6 DEF Tick, Session
  <2>7. CASE UNCHANGED sessionVars
    BY <2>7 DEF sessionVars
  <2>8. QED
    BY <2>1, <2>3, <2>4, <2>5, <2>6, <2>7 DEF SessionNext
<1>3. QED
  BY <1>1, <1>2, PTL DEF SessionSpec

\* A commit on record was made under the delegation on record: an earlier
\* validator's last commit never passes for the new one's.
THEOREM CurrentCommits == SessionSpec => []CommitsAreCurrent
<1>1. SessionInv => CommitsAreCurrent
  BY DEF SessionInv
<1>2. QED
  BY <1>1, SessionInvariant, PTL

(***************************************************************************)
(* Halving                                                                 *)
(***************************************************************************)
LEMMA PowerIs ==
    ASSUME NEW n \in Nat
    PROVE  /\ IsFiniteSet(SUBSET (1..n)) /\ Cardinality(SUBSET (1..n)) = 2^n
           /\ 2^n \in Nat /\ 2^n > 0
<1>1. IsFiniteSet(1..n) /\ Cardinality(1..n) = n
  BY FS_Interval
<1>2. IsFiniteSet(SUBSET (1..n)) /\ Cardinality(SUBSET (1..n)) = 2^n
  BY <1>1, FS_SUBSET
<1>3. 2^n \in Nat
  BY <1>2, FS_CardinalityType
<1>4. 2^n # 0
  BY <1>2, FS_EmptySet
<1>5. QED
  BY <1>2, <1>3, <1>4

LEMMA PowerGrows ==
    ASSUME NEW m \in Nat, NEW n \in Nat, m <= n
    PROVE  2^m <= 2^n
<1>1. SUBSET (1..m) \in SUBSET (SUBSET (1..n))
  <2>1. 1..m \subseteq 1..n
    OBVIOUS
  <2>2. QED
    BY <2>1
<1>2. Cardinality(SUBSET (1..m)) <= Cardinality(SUBSET (1..n))
  BY <1>1, PowerIs, FS_Subset
<1>3. QED
  BY <1>2, PowerIs

\* The subsets of 1..n+1 are those of 1..n, each with and without the last.
LEMMA PowerDoubles ==
    ASSUME NEW n \in Nat
    PROVE  2^(n + 1) = 2^n + 2^n
<1> DEFINE Without == SUBSET (1..n)
           With    == {T \cup {n + 1} : T \in Without}
           adds    == [T \in Without |-> T \cup {n + 1}]
<1>1. SUBSET (1..(n + 1)) = Without \cup With
  <2>1. 1..(n + 1) = (1..n) \cup {n + 1} /\ n + 1 \notin 1..n
    OBVIOUS
  <2>2. ASSUME NEW T \in SUBSET (1..(n + 1)) PROVE T \in Without \cup With
    <3>1. CASE n + 1 \in T
      <4>1. T \ {n + 1} \in Without /\ T = (T \ {n + 1}) \cup {n + 1}
        BY <2>1, <3>1
      <4>2. QED
        BY <4>1
    <3>2. CASE n + 1 \notin T
      BY <2>1, <3>2
    <3>3. QED
      BY <3>1, <3>2
  <2>3. ASSUME NEW T \in Without PROVE T \cup {n + 1} \in SUBSET (1..(n + 1))
    BY <2>1
  <2>4. Without \subseteq SUBSET (1..(n + 1))
    BY <2>1
  <2>5. With \subseteq SUBSET (1..(n + 1))
    BY <2>3
  <2> HIDE DEF With, Without
  <2>6. SUBSET (1..(n + 1)) \subseteq Without \cup With
    BY <2>2
  <2>7. QED
    BY <2>4, <2>5, <2>6
<1>2. Without \cap With = {}
  <2>1. n + 1 \notin 1..n
    OBVIOUS
  <2>2. QED
    BY <2>1
<1>3. adds \in Surjection(Without, With) /\ adds \in Injection(Without, With)
  <2>1. n + 1 \notin 1..n
    OBVIOUS
  <2>2. ASSUME NEW S \in Without, NEW T \in Without, S \cup {n + 1} = T \cup {n + 1}
        PROVE  S = T
    <3>1. \A x : x \in S <=> x \in T
      BY <2>1, <2>2
    <3>2. QED
      BY <3>1
  <2>3. adds \in [Without -> With]
    OBVIOUS
  <2>4. \A b \in With : \E a \in Without : adds[a] = b
    OBVIOUS
  <2>5. \A a, b \in Without : adds[a] = adds[b] => a = b
    BY <2>2
  <2> HIDE DEF adds, Without, With
  <2>6. QED
    BY <2>3, <2>4, <2>5 DEF Surjection, Injection, IsInjective
<1>4. IsFiniteSet(Without) /\ Cardinality(Without) = 2^n
  BY PowerIs
<1> HIDE DEF Without, With, adds
<1>5. IsFiniteSet(With) /\ Cardinality(With) = 2^n
  BY <1>3, <1>4, FS_Surjection
<1>6. Cardinality(Without \cup With) = 2^n + 2^n - 0
  BY <1>2, <1>4, <1>5, FS_Union, FS_EmptySet
<1>7. \A m \in Nat : 2^m = Cardinality(SUBSET (1..m)) /\ 2^m \in Nat
  BY PowerIs
<1>8. n + 1 \in Nat
  OBVIOUS
<1>9. 2^(n + 1) = Cardinality(SUBSET (1..(n + 1)))
  BY <1>7, <1>8, Zenon
<1>10. 2^(n + 1) = 2^n + 2^n - 0
  BY <1>1, <1>6, <1>9, Zenon
<1>11. QED
  BY <1>7, <1>10

\* Powers of two are counted as sets, in the code's own shifts.
LEMMA PowerOfTwo ==
    ASSUME NEW n \in Nat
    PROVE  Power(2, n) = 2^n
<1> DEFINE Good == {k \in Nat : Power(2, k) = 2^k}
<1>1. 0 \in Good
  <2>1. 2^0 = 1
    <3>1. 1..0 = {} /\ 0 \in Nat
      OBVIOUS
    <3>2. SUBSET (1..0) = {{}}
      BY <3>1
    <3>3. Cardinality({{}}) = 1
      BY FS_Singleton
    <3>4. Cardinality(SUBSET (1..0)) = 2^0
      BY <3>1, PowerIs
    <3>5. QED
      BY <3>2, <3>3, <3>4
  <2>2. Power(2, 0) = 1
    BY PowerRecursion
  <2>3. QED
    BY <2>1, <2>2
<1>2. ASSUME NEW k \in Nat, k \in Good PROVE k + 1 \in Good
  <2>1. Power(2, k + 1) = 2 * Power(2, k) /\ Power(2, k) \in Nat
    BY PowerRecursion
  <2>2. 2^(k + 1) = 2^k + 2^k
    BY PowerDoubles
  <2>3. Power(2, k) = 2^k
    BY <1>2
  <2>4. Power(2, k + 1) = 2^(k + 1)
    BY <2>1, <2>2, <2>3
  <2>5. QED
    BY <2>4
<1> HIDE DEF Good
<1>3. n \in Good
  BY <1>1, <1>2, NumberInduction
<1>4. QED
  BY <1>3 DEF Good

\* What is halved once more is half of what was halved, rounded down.
LEMMA HalvedAgain ==
    ASSUME NEW ema \in Nat, NEW n \in Nat
    PROVE  /\ ema \div 2^n \in Nat
           /\ 2 * (ema \div 2^(n + 1)) <= ema \div 2^n
<1> DEFINE p == 2^n
           q == 2^(n + 1)
           x == ema \div p
           y == ema \div q
<1>1. p \in Nat /\ p > 0 /\ q = p + p
  BY PowerIs, PowerDoubles
<1> HIDE DEF p, q
<1>2. x \in Nat /\ ema < (x + 1) * p
  BY <1>1, DivFloor
<1>3. y \in Nat /\ y * q <= ema
  BY <1>1, DivFloor
<1> HIDE DEF x, y
<1>4. y * q = (2 * y) * p
  BY <1>1, <1>3
<1>5. SUFFICES ASSUME 2 * y >= x + 1 PROVE FALSE
  BY <1>2, <1>3 DEF x, y, p, q
<1>6. (x + 1) * p <= (2 * y) * p
  BY <1>1, <1>2, <1>3, <1>5, ProductMonotone
<1>7. (x + 1) * p \in Nat /\ (2 * y) * p \in Nat
  BY <1>1, <1>2, <1>3, ProductNat
<1>8. QED
  BY <1>2, <1>3, <1>4, <1>6, <1>7

\* The longer it is halved, the less is left.
LEMMA LessLeft ==
    ASSUME NEW ema \in Nat, NEW m \in Nat, NEW n \in Nat, m <= n
    PROVE  ema \div 2^n <= ema \div 2^m
<1> DEFINE p == 2^m
           q == 2^n
           x == ema \div p
           y == ema \div q
<1>1. p \in Nat /\ p > 0 /\ q \in Nat /\ q > 0 /\ p <= q
  BY PowerIs, PowerGrows
<1> HIDE DEF p, q
<1>2. x \in Nat /\ ema < (x + 1) * p
  BY <1>1, DivFloor
<1>3. y \in Nat /\ y * q <= ema
  BY <1>1, DivFloor
<1> HIDE DEF x, y
<1>4. SUFFICES ASSUME y >= x + 1 PROVE FALSE
  BY <1>2, <1>3 DEF x, y, p, q
<1>5. (x + 1) * p <= y * p
  BY <1>1, <1>2, <1>3, <1>4, ProductMonotone
<1>6. y * p <= y * q
  <2>1. p * y <= q * y
    BY <1>1, <1>3, ProductMonotone
  <2>2. QED
    BY <1>1, <1>3, <2>1
<1>7. (x + 1) * p \in Nat /\ y * p \in Nat /\ y * q \in Nat
  BY <1>1, <1>2, <1>3, ProductNat
<1>8. QED
  BY <1>2, <1>3, <1>5, <1>6, <1>7

\* The line between two halvings, from `x` at the beginning: it falls, and
\* stays above what is left at its end.
Line(x, rem) == (x * (2 * HALFLIFE - rem)) \div (2 * HALFLIFE)

\* The later on the line, the less is left.
LEMMA LineFalls ==
    ASSUME NEW x \in Nat, NEW rem \in 0..(HALFLIFE - 1), NEW more \in 0..(HALFLIFE - 1),
           rem <= more
    PROVE  /\ Line(x, rem) \in Nat /\ Line(x, rem) <= x
           /\ Line(x, more) <= Line(x, rem)
<1> DEFINE whole == 2 * HALFLIFE
           less  == 2 * HALFLIFE - more
           part  == 2 * HALFLIFE - rem
<1>1. /\ whole \in Nat /\ whole > 0 /\ less \in Nat /\ part \in Nat
      /\ less <= part /\ part <= whole
  BY FloorAssumption
<1>2. Line(x, rem) = (x * part) \div whole /\ Line(x, more) = (x * less) \div whole
  BY DEF Line
<1> HIDE DEF whole, less, part
<1>3. x * part \in Nat /\ x * less \in Nat
  BY <1>1, ProductNat
<1>4. x * less <= x * part
  <2>1. less * x <= part * x
    BY <1>1, ProductMonotone
  <2>2. QED
    BY <1>1, <2>1
<1>5. (x * less) \div whole <= (x * part) \div whole
  BY <1>1, <1>3, <1>4, DivMonotone
<1>6. (x * part) \div whole \in Nat /\ (x * part) \div whole <= x
  BY <1>1, <1>3, DivFloor, DivBound
<1>7. QED
  BY <1>2, <1>5, <1>6

\* No point of the line is below its end.
LEMMA LineAboveHalf ==
    ASSUME NEW x \in Nat, NEW rem \in 0..(HALFLIFE - 1), NEW y \in Nat, 2 * y <= x
    PROVE  y <= Line(x, rem)
<1> DEFINE whole == 2 * HALFLIFE
           part  == 2 * HALFLIFE - rem
           q     == (x * part) \div whole
<1>1. /\ whole \in Nat /\ whole > 0 /\ part \in Nat /\ HALFLIFE \in Nat
      /\ HALFLIFE <= part /\ whole = 2 * HALFLIFE
  BY FloorAssumption
<1>2. Line(x, rem) = q
  BY DEF Line
<1> HIDE DEF whole, part
<1>3. x * part \in Nat
  BY <1>1, ProductNat
<1>4. q \in Nat /\ x * part < (q + 1) * whole
  BY <1>1, <1>3, DivFloor
<1> HIDE DEF q
<1>5. y * whole <= x * part
  <2>1. (2 * y) * HALFLIFE <= x * HALFLIFE
    BY <1>1, ProductMonotone
  <2>2. x * HALFLIFE <= x * part
    <3>1. HALFLIFE * x <= part * x
      BY <1>1, ProductMonotone
    <3>2. QED
      BY <1>1, <3>1
  <2>3. y * whole = (2 * y) * HALFLIFE
    BY <1>1
  <2>4. /\ (2 * y) * HALFLIFE \in Nat /\ x * HALFLIFE \in Nat /\ x * part \in Nat
        /\ y * whole \in Nat
    BY <1>1, <1>3, ProductNat
  <2>5. QED
    BY <2>1, <2>2, <2>3, <2>4
<1>6. SUFFICES ASSUME y >= q + 1 PROVE FALSE
  BY <1>2, <1>4
<1>7. (q + 1) * whole <= y * whole
  BY <1>1, <1>4, <1>6, ProductMonotone
<1>8. (q + 1) * whole \in Nat /\ y * whole \in Nat
  BY <1>1, <1>4, ProductNat
<1>9. QED
  BY <1>3, <1>4, <1>5, <1>7, <1>8

\* Whole half-lives and the rest.
LEMMA ElapsedSplit ==
    ASSUME NEW e \in Nat
    PROVE  /\ e \div HALFLIFE \in Nat
           /\ (e % HALFLIFE) \in 0..(HALFLIFE - 1)
           /\ (e \div HALFLIFE) * HALFLIFE \in Nat
           /\ e = ((e \div HALFLIFE) * HALFLIFE) + (e % HALFLIFE)
<1> DEFINE w == e \div HALFLIFE
           r == e % HALFLIFE
<1>1. HALFLIFE \in Nat /\ HALFLIFE > 0
  BY FloorAssumption
<1>2. w \in Nat
  BY <1>1, DivFloor
<1>3. r \in 0..(HALFLIFE - 1)
  BY <1>1
<1>4. e = (HALFLIFE * w) + r
  BY <1>1
<1> HIDE DEF w, r
<1>5. w * HALFLIFE \in Nat /\ HALFLIFE * w = w * HALFLIFE
  BY <1>1, <1>2, ProductNat
<1>6. QED
  BY <1>2, <1>3, <1>4, <1>5 DEF w, r

\* Demand is forgotten as time passes, and never remembered again: the
\* average never rises by waiting.
LEMMA DecayFalls ==
    ASSUME NEW ema \in Nat, NEW last \in Nat, NEW now0 \in Nat, NEW later \in Nat, now0 <= later
    PROVE  /\ DecayMarketEma(ema, last, now0) \in Nat
           /\ DecayMarketEma(ema, last, now0) <= ema
           /\ DecayMarketEma(ema, last, later) <= DecayMarketEma(ema, last, now0)
<1> DEFINE Whole(t) == (t - last) \div HALFLIFE
           Rest(t)  == (t - last) % HALFLIFE
           Decay(t) == DecayMarketEma(ema, last, t)
<1>1. ASSUME NEW t \in Nat, t <= last PROVE Decay(t) = ema
  BY <1>1, FloorAssumption DEF DecayMarketEma
<1>2. ASSUME NEW t \in Nat, t > last
      PROVE  /\ t - last \in Nat
             /\ Whole(t) \in Nat /\ Rest(t) \in 0..(HALFLIFE - 1)
             /\ Whole(t) * HALFLIFE \in Nat
             /\ t - last = Whole(t) * HALFLIFE + Rest(t)
  BY <1>2, ElapsedSplit
<1>3. ASSUME NEW t \in Nat, t > last, Whole(t) >= 64 PROVE Decay(t) = 0
  BY <1>3 DEF DecayMarketEma
<1>4. ASSUME NEW t \in Nat, t > last, ~(Whole(t) >= 64)
      PROVE  Decay(t) = Line(ema \div 2^Whole(t), Rest(t))
  BY <1>4 DEF DecayMarketEma, Line
<1>5. ASSUME NEW t \in Nat PROVE Decay(t) \in Nat /\ Decay(t) <= ema
  <2>1. CASE t > last /\ ~(Whole(t) >= 64)
    <3>1. ema \div 2^Whole(t) \in Nat /\ ema \div 2^Whole(t) <= ema
      <4>1. /\ 2^Whole(t) \in Nat /\ 2^Whole(t) > 0
        BY <1>2, <2>1, PowerIs
      <4>2. (ema * 1) \div 2^Whole(t) <= ema
        BY <4>1, DivBound
      <4>3. QED
        BY <4>1, <4>2, DivFloor
    <3>2. Line(ema \div 2^Whole(t), Rest(t)) \in Nat
          /\ Line(ema \div 2^Whole(t), Rest(t)) <= ema \div 2^Whole(t)
      BY <1>2, <2>1, <3>1, LineFalls
    <3>3. QED
      BY <1>4, <2>1, <3>1, <3>2
  <2>2. QED
    BY <1>1, <1>3, <2>1
<1>6. Decay(later) <= Decay(now0)
  <2>1. CASE now0 <= last
    BY <1>1, <1>5, <2>1
  <2>2. CASE now0 > last /\ Whole(later) >= 64
    BY <1>3, <1>5, <2>2
  <2>3. CASE now0 > last /\ ~(Whole(later) >= 64)
    <3> DEFINE w == Whole(now0)
               v == Whole(later)
               r == Rest(now0)
               s == Rest(later)
    <3>1. /\ w \in Nat /\ v \in Nat /\ r \in 0..(HALFLIFE - 1) /\ s \in 0..(HALFLIFE - 1)
          /\ w * HALFLIFE \in Nat /\ v * HALFLIFE \in Nat
          /\ now0 - last = w * HALFLIFE + r /\ later - last = v * HALFLIFE + s
      <4>1. now0 > last /\ later > last
        BY <2>3
      <4> HIDE DEF Whole, Rest
      <4>2. /\ w \in Nat /\ r \in 0..(HALFLIFE - 1) /\ w * HALFLIFE \in Nat
            /\ now0 - last = w * HALFLIFE + r
        BY <1>2, <4>1
      <4>3. /\ v \in Nat /\ s \in 0..(HALFLIFE - 1) /\ v * HALFLIFE \in Nat
            /\ later - last = v * HALFLIFE + s
        BY <1>2, <4>1
      <4>4. QED
        BY <4>2, <4>3
    <3>2. w <= v
      <4>1. now0 - last \in Nat /\ later - last \in Nat /\ now0 - last <= later - last
        BY <2>3
      <4>2. QED
        BY <4>1, FloorAssumption, DivMonotone
    <3>3. /\ Decay(now0) = Line(ema \div 2^w, r) /\ Decay(later) = Line(ema \div 2^v, s)
      <4>1. ~(w >= 64)
        BY <2>3, <3>1, <3>2
      <4>2. QED
        BY <1>4, <2>3, <4>1
    <3>4. ema \div 2^w \in Nat /\ ema \div 2^v \in Nat
      BY <3>1, HalvedAgain
    <3> HIDE DEF w, v, r, s, Decay
    <3>5. CASE w = v
      <4>1. r <= s
        BY <3>1, <3>5
      <4>2. QED
        BY <3>1, <3>3, <3>4, <3>5, <4>1, LineFalls
    <3>6. CASE w < v
      <4>1. w + 1 \in Nat /\ w + 1 <= v
        BY <3>1, <3>6
      <4>2. ema \div 2^v <= ema \div 2^(w + 1)
        BY <3>1, <4>1, LessLeft
      <4>3. 2 * (ema \div 2^(w + 1)) <= ema \div 2^w /\ ema \div 2^(w + 1) \in Nat
        BY <3>1, <4>1, HalvedAgain
      <4>4. Line(ema \div 2^v, s) <= ema \div 2^v /\ Line(ema \div 2^v, s) \in Nat
        BY <3>1, <3>4, LineFalls
      <4>5. ema \div 2^(w + 1) <= Line(ema \div 2^w, r) /\ Line(ema \div 2^w, r) \in Nat
        BY <3>1, <3>4, <4>3, LineAboveHalf, LineFalls
      <4>6. QED
        BY <3>3, <3>4, <4>2, <4>3, <4>4, <4>5
    <3>7. QED
      BY <3>1, <3>2, <3>5, <3>6
  <2>4. QED
    BY <2>1, <2>2, <2>3
<1>7. QED
  BY <1>5, <1>6

\* A creation never lowers the average it is added to.
LEMMA BumpRaises ==
    ASSUME NEW decayed \in 0..MaxU64
    PROVE  /\ BumpedMarketEma(decayed) \in 0..MaxU64
           /\ decayed <= BumpedMarketEma(decayed)
BY FloorAssumption DEF BumpedMarketEma

(***************************************************************************)
(* Governance                                                              *)
(***************************************************************************)
LEMMA ActivityIs ==
    ASSUME TypeOK, config # NoConfig
    PROVE  /\ config \in Config
           /\ Activity \in 0..MaxU64
           /\ FloorNow \in Nat
<1>1. config \in Config
  BY DEF TypeOK
<1>2. /\ config.market_creation_ema \in 0..MaxU64
      /\ config.last_market_creation_unix \in Nat /\ config.curve \in Curve /\ now \in Nat
  BY <1>1 DEF TypeOK, Config
<1>3. Activity \in Nat /\ Activity <= config.market_creation_ema
  <2> DEFINE ema  == config.market_creation_ema
             last == config.last_market_creation_unix
  <2>1. ema \in Nat /\ last \in Nat /\ now \in Nat
    BY <1>2, FloorAssumption
  <2> HIDE DEF ema, last
  <2>2. DecayMarketEma(ema, last, now) \in Nat /\ DecayMarketEma(ema, last, now) <= ema
    BY <2>1, DecayFalls
  <2>3. QED
    BY <2>2 DEF Activity, ema, last
<1>4. FloorNow \in Nat
  BY <1>2, <1>3, FloorOnRamp DEF FloorNow
<1>5. QED
  BY <1>1, <1>2, <1>3, <1>4, FloorAssumption

\* Config and the terms of the markets keep their ranges: the fee under its
\* cap in both, the average within 64 bits.
LEMMA GovernanceTyped == Spec => []TypeOK
<1> USE GovernanceAssumption
<1>1. Init => TypeOK
  BY DEF Init, TypeOK
<1>2. TypeOK /\ [Next]_vars => TypeOK'
  <2> SUFFICES ASSUME TypeOK, [Next]_vars PROVE TypeOK'
    OBVIOUS
  <2>1. ASSUME NEW signer \in Keys, NEW authority \in Keys, NEW fee \in FeeRates,
               NEW curve \in Curves, InitConfig(signer, authority, fee, curve)
        PROVE  TypeOK'
    <3>1. fee \in 0..MAX_FEE_BPS
      BY <2>1 DEF InitConfig, FeeAllowed
    <3>2. config' \in Config
      BY <2>1, <3>1, FloorAssumption DEF InitConfig, Config
    <3>3. QED
      BY <2>1, <3>2 DEF InitConfig, TypeOK
  <2>2. ASSUME NEW signer \in Keys, NEW fee \in FeeRates, NEW curve \in Curves,
               UpdateConfig(signer, fee, curve)
        PROVE  TypeOK'
    <3>1. fee \in 0..MAX_FEE_BPS /\ curve \in Curve
      BY <2>2 DEF UpdateConfig, FeeAllowed
    <3>2. config' \in Config
      BY <2>2, <3>1 DEF UpdateConfig, Config, TypeOK
    <3>3. QED
      BY <2>2, <3>2 DEF UpdateConfig, TypeOK
  <2>3. CASE CreateMarket
    <3>1. config \in Config /\ Activity \in 0..MaxU64 /\ FloorNow \in Nat
      BY <2>3, ActivityIs DEF CreateMarket
    <3>2. BumpedMarketEma(Activity) \in 0..MaxU64
      BY <3>1, BumpRaises
    <3>3. config' \in Config
      BY <2>3, <3>1, <3>2 DEF CreateMarket, Config, TypeOK
    <3>4. [at |-> now, fee_bps |-> config.fee_bps, min_liquidity |-> FloorNow,
           curve |-> config.curve] \in Terms
      BY <3>1 DEF Terms, Config, TypeOK
    <3>5. markets' \in Seq(Terms)
      BY <2>3, <3>4 DEF CreateMarket, TypeOK
    <3>6. QED
      BY <2>3, <3>3, <3>5 DEF CreateMarket, TypeOK
  <2>4. ASSUME NEW d \in Waits, Wait(d) PROVE TypeOK'
    BY <2>4 DEF Wait, TypeOK
  <2>5. CASE UNCHANGED vars
    BY <2>5 DEF vars, TypeOK
  <2>6. QED
    BY <2>1, <2>2, <2>3, <2>4, <2>5 DEF Next
<1>3. QED
  BY <1>1, <1>2, PTL DEF Spec

\* Under one curve, waiting never makes the next market dearer, for any
\* half-life and however the waiting is cut up, and creating a market never
\* makes the next one cheaper, the saturated average included.
THEOREM QuoteIsFair == Spec => QuoteFollowsDemand
<1> USE GovernanceAssumption
<1> DEFINE quote == FloorAt(Activity, config.curve)
<1>1. ASSUME TypeOK, TypeOK', [Next]_vars, config # NoConfig, config.curve = config'.curve
      PROVE  /\ now' > now => quote' <= quote
             /\ markets' # markets => quote' >= quote
  <2> DEFINE ema  == config.market_creation_ema
             last == config.last_market_creation_unix
  <2>1. /\ ema \in 0..MaxU64 /\ last \in Nat /\ config.curve \in Curve
        /\ now \in Nat /\ Activity \in 0..MaxU64
    BY <1>1, ActivityIs DEF Config, TypeOK
  <2>2. ASSUME NEW signer \in Keys, NEW authority \in Keys, NEW fee \in FeeRates,
               NEW curve \in Curves, InitConfig(signer, authority, fee, curve)
        PROVE  FALSE
    BY <1>1, <2>2 DEF InitConfig
  <2>3. ASSUME NEW signer \in Keys, NEW fee \in FeeRates, NEW curve \in Curves,
               UpdateConfig(signer, fee, curve)
        PROVE  now' = now /\ markets' = markets
    BY <2>3 DEF UpdateConfig
  <2>4. ASSUME CreateMarket PROVE now' = now /\ quote' >= quote
    <3>1. /\ now' = now /\ config'.market_creation_ema = BumpedMarketEma(Activity)
          /\ config'.last_market_creation_unix = now
      BY <1>1, <2>4, ActivityIs DEF CreateMarket, Config
    <3>2. /\ BumpedMarketEma(Activity) \in 0..MaxU64
          /\ Activity <= BumpedMarketEma(Activity)
      BY <2>1, BumpRaises
    <3>3. Activity' = BumpedMarketEma(Activity)
      <4>1. Activity' = DecayMarketEma(BumpedMarketEma(Activity), now, now)
        BY <3>1 DEF Activity
      <4>2. QED
        BY <2>1, <4>1, FloorAssumption DEF DecayMarketEma
    <3>4. quote' = FloorAt(BumpedMarketEma(Activity), config.curve)
      BY <1>1, <3>3
    <3>5. FloorAt(Activity, config.curve) <= FloorAt(BumpedMarketEma(Activity), config.curve)
      BY <2>1, <3>2, FloorMonotone
    <3>6. /\ FloorAt(Activity, config.curve) \in Nat
          /\ FloorAt(BumpedMarketEma(Activity), config.curve) \in Nat
      BY <2>1, <3>2, FloorOnRamp
    <3>7. QED
      BY <3>1, <3>4, <3>5, <3>6
  <2>5. ASSUME NEW d \in Waits, Wait(d)
        PROVE  markets' = markets /\ quote' <= quote
    <3>1. config' = config /\ markets' = markets /\ now' \in Nat /\ now <= now'
      BY <2>1, <2>5 DEF Wait
    <3>2. Activity' = DecayMarketEma(ema, last, now')
      BY <3>1 DEF Activity
    <3>3. Activity' \in Nat /\ Activity' <= Activity
      <4>1. Activity = DecayMarketEma(ema, last, now)
        BY DEF Activity
      <4>2. ema \in Nat /\ last \in Nat
        BY <2>1, FloorAssumption
      <4> HIDE DEF ema, last
      <4>3. \A later \in Nat : now <= later =>
              /\ DecayMarketEma(ema, last, later) \in Nat
              /\ DecayMarketEma(ema, last, later) <= DecayMarketEma(ema, last, now)
        <5>1. ASSUME NEW later \in Nat, now <= later
              PROVE  /\ DecayMarketEma(ema, last, later) \in Nat
                     /\ DecayMarketEma(ema, last, later) <= DecayMarketEma(ema, last, now)
          <6>1. later <= later
            BY <5>1
          <6>2. DecayMarketEma(ema, last, later) \in Nat
            BY <5>1, <4>2, <6>1, DecayFalls
          <6>3. QED
            BY <2>1, <4>2, <5>1, <6>2, DecayFalls
        <5>2. QED
          BY <5>1
      <4>4. QED
        BY <3>1, <3>2, <4>1, <4>3
    <3>4. quote' = FloorAt(Activity', config.curve)
      BY <3>1
    <3>5. QED
      BY <2>1, <3>1, <3>3, <3>4, FloorMonotone
  <2>6. ASSUME UNCHANGED vars PROVE now' = now /\ markets' = markets
    BY <2>6 DEF vars
  <2>7. CASE UNCHANGED vars
    BY <2>1, <2>6, <2>7
  <2>8. CASE Next
    <3> HIDE DEF quote
    <3>1. QED
      BY <2>1, <2>2, <2>3, <2>4, <2>5, <2>8 DEF Next
  <2>9. QED
    BY <1>1, <2>7, <2>8
<1>2. TypeOK /\ TypeOK' /\ [Next]_vars =>
          [config # NoConfig /\ config.curve = config'.curve =>
             LET q == FloorAt(Activity, config.curve)
             IN  /\ now' > now => q' <= q
                 /\ markets' # markets => q' >= q]_vars
  BY <1>1
<1>3. QED
  BY <1>2, GovernanceTyped, PTL DEF Spec, QuoteFollowsDemand

(***************************************************************************)
(* Demand                                                                  *)
(***************************************************************************)
\* The half-lives the clock has room for: what scales the weights of all ages
\* to whole numbers.
Halvings == MaxTime \div HALFLIFE

\* The most that a creation of age `a` can weigh, times MostScale: 5/8 per
\* whole half-life, and in between a parabola that falls no faster than any
\* number of the code's lines laid end to end.
Parabola(r) == 8 * HALFLIFE * HALFLIFE - 4 * HALFLIFE * r + r * r
MostShare(k) == INCREMENT * (Power(5, k) * Power(8, Halvings - k))
MostScaled(a) == MostShare(a \div HALFLIFE) * Parabola(a % HALFLIFE)
MostScale == Power(8, Halvings) * (8 * HALFLIFE * HALFLIFE)

\* The least, times LeastScale: what one decay over the whole age leaves,
\* halved and down the line, but for rounding.
LeastShare(k) == INCREMENT * Power(2, Halvings - k)
LeastScaled(a) == LeastShare(a \div HALFLIFE) * (2 * HALFLIFE - (a % HALFLIFE))
LeastScale == Power(2, Halvings) * (2 * HALFLIFE)

\* An age in whole half-lives and the rest.
LEMMA AgeSplit ==
    ASSUME NEW a \in 0..MaxTime
    PROVE  /\ Halvings \in Nat /\ a \div HALFLIFE \in 0..Halvings
           /\ a % HALFLIFE \in 0..(HALFLIFE - 1)
           /\ Halvings - a \div HALFLIFE \in Nat
<1>1. MaxTime \in Nat /\ a \in Nat /\ a <= MaxTime
  BY GovernanceAssumption
<1>2. HALFLIFE \in Nat /\ HALFLIFE > 0
  BY FloorAssumption
<1>3. a \div HALFLIFE <= MaxTime \div HALFLIFE
  BY <1>1, <1>2, DivMonotone
<1>4. a \div HALFLIFE \in Nat /\ a % HALFLIFE \in 0..(HALFLIFE - 1)
  BY <1>1, ElapsedSplit
<1>5. Halvings \in Nat
  BY <1>1, <1>2, DivFloor DEF Halvings
<1> DEFINE k == a \div HALFLIFE
<1>6. k \in Nat /\ k <= Halvings
  BY <1>3, <1>4 DEF Halvings
<1> HIDE DEF k
<1>7. k \in 0..Halvings /\ Halvings - k \in Nat
  BY <1>5, <1>6
<1>8. QED
  BY <1>4, <1>5, <1>7 DEF k

\* A quotient and a remainder are the only ones.
LEMMA SplitIs ==
    ASSUME NEW k \in Nat, NEW r \in 0..(HALFLIFE - 1), NEW a \in Nat, a = k * HALFLIFE + r
    PROVE  a \div HALFLIFE = k /\ a % HALFLIFE = r
<1> DEFINE w == a \div HALFLIFE
           s == a % HALFLIFE
<1>1. HALFLIFE \in Nat /\ HALFLIFE > 0
  BY FloorAssumption
<1>2. w \in Nat /\ s \in 0..(HALFLIFE - 1) /\ a = w * HALFLIFE + s
  BY ElapsedSplit
<1> HIDE DEF w, s
<1>3. ~(w < k)
  <2>1. SUFFICES ASSUME w + 1 <= k PROVE FALSE
    BY <1>2
  <2>2. (w + 1) * HALFLIFE <= k * HALFLIFE
    BY <1>1, <1>2, <2>1, ProductMonotone
  <2>3. (w + 1) * HALFLIFE = w * HALFLIFE + HALFLIFE
    BY <1>1, <1>2
  <2>4. w * HALFLIFE \in Nat /\ k * HALFLIFE \in Nat
    BY <1>1, <1>2, ProductNat
  <2>5. QED
    BY <1>1, <1>2, <2>2, <2>3, <2>4
<1>4. ~(k < w)
  <2>1. SUFFICES ASSUME k + 1 <= w PROVE FALSE
    BY <1>2
  <2>2. (k + 1) * HALFLIFE <= w * HALFLIFE
    BY <1>1, <1>2, <2>1, ProductMonotone
  <2>3. (k + 1) * HALFLIFE = k * HALFLIFE + HALFLIFE
    BY <1>1
  <2>4. w * HALFLIFE \in Nat /\ k * HALFLIFE \in Nat
    BY <1>1, <1>2, ProductNat
  <2>5. QED
    BY <1>1, <1>2, <2>2, <2>3, <2>4
<1>5. w = k
  BY <1>2, <1>3, <1>4
<1>6. w * HALFLIFE \in Nat
  BY <1>1, <1>2, ProductNat
<1>7. s = r
  BY <1>1, <1>2, <1>5, <1>6
<1>8. QED
  BY <1>5, <1>7 DEF w, s

\* What one more half-life does to either weight.
LEMMA SharesFall ==
    ASSUME NEW k \in Nat, k < Halvings, Halvings \in Nat
    PROVE  /\ MostShare(k) \in Nat /\ MostShare(k + 1) \in Nat
           /\ 8 * MostShare(k + 1) = 5 * MostShare(k)
           /\ LeastShare(k) \in Nat /\ LeastShare(k + 1) \in Nat
           /\ 2 * LeastShare(k + 1) = LeastShare(k)
<1> DEFINE m == Halvings - (k + 1)
           x == Power(5, k)
           y == Power(8, m)
           z == Power(2, m)
<1>1. m \in Nat /\ Halvings - k = m + 1 /\ k + 1 \in Nat
  OBVIOUS
<1> HIDE DEF m
<1>2. /\ x \in Nat /\ Power(5, k + 1) = 5 * x
      /\ y \in Nat /\ Power(8, m + 1) = 8 * y
      /\ z \in Nat /\ Power(2, m + 1) = 2 * z
  BY <1>1, PowerRecursion
<1> HIDE DEF x, y, z
<1>3. MostShare(k) = INCREMENT * (x * (8 * y)) /\ MostShare(k + 1) = INCREMENT * ((5 * x) * y)
  BY <1>1, <1>2 DEF MostShare, x, y, m
<1>4. LeastShare(k) = INCREMENT * (2 * z) /\ LeastShare(k + 1) = INCREMENT * z
  BY <1>1, <1>2 DEF LeastShare, z, m
<1>5. INCREMENT \in Nat
  BY FloorAssumption
<1>6. x * y \in Nat /\ x * (8 * y) = 8 * (x * y) /\ (5 * x) * y = 5 * (x * y)
  BY <1>2, ProductNat
<1>7. INCREMENT * (x * y) \in Nat /\ INCREMENT * z \in Nat
  BY <1>2, <1>5, <1>6, ProductNat
<1> DEFINE u == INCREMENT * (x * y)
           v == INCREMENT * z
<1>8. INCREMENT * (8 * (x * y)) = 8 * u /\ INCREMENT * (5 * (x * y)) = 5 * u
  BY <1>5, <1>6
<1>9. INCREMENT * (2 * z) = 2 * v
  BY <1>2, <1>5
<1> HIDE DEF u, v
<1>10. u \in Nat /\ v \in Nat
  BY <1>7 DEF u, v
<1>11. MostShare(k) = 8 * u /\ MostShare(k + 1) = 5 * u
  BY <1>3, <1>6, <1>8
<1>12. LeastShare(k) = 2 * v /\ LeastShare(k + 1) = v
  BY <1>4, <1>9 DEF v
<1>13. QED
  BY <1>10, <1>11, <1>12

\* The parabola is at its top where a half-life begins.
LEMMA ParabolaNat ==
    ASSUME NEW r \in 0..(HALFLIFE - 1)
    PROVE  Parabola(r) \in Nat /\ Parabola(r) <= 8 * HALFLIFE * HALFLIFE
<1>1. HALFLIFE \in Nat /\ r \in Nat /\ r < HALFLIFE
  BY FloorAssumption
<1>2. PICK z \in Nat : HALFLIFE = r + z
  <2>1. HALFLIFE - r \in Nat /\ HALFLIFE = r + (HALFLIFE - r)
    BY <1>1
  <2>2. QED
    BY <2>1
<1>3. r * r \in Nat /\ r * z \in Nat /\ z * z \in Nat
  BY <1>1, ProductNat
<1>4. HALFLIFE * HALFLIFE = r * r + 2 * (r * z) + z * z /\ HALFLIFE * r = r * r + r * z
  BY <1>1, <1>2
<1>5. Parabola(r) = 8 * (HALFLIFE * HALFLIFE) - 4 * (HALFLIFE * r) + r * r
  BY <1>1 DEF Parabola
<1>6. 8 * HALFLIFE * HALFLIFE = 8 * (HALFLIFE * HALFLIFE)
  BY <1>1
<1>7. QED
  BY <1>3, <1>4, <1>5, <1>6

\* Over a whole half-life the most falls by less than half, the least by half.
LEMMA HalfLifeStep ==
    ASSUME NEW a \in Nat, a + HALFLIFE <= MaxTime
    PROVE  /\ 2 * MostScaled(a + HALFLIFE) >= MostScaled(a)
           /\ 2 * LeastScaled(a + HALFLIFE) = LeastScaled(a)
           /\ MostScaled(a) \in Nat /\ MostScaled(a + HALFLIFE) \in Nat
           /\ LeastScaled(a) \in Nat /\ LeastScaled(a + HALFLIFE) \in Nat
<1> DEFINE k == a \div HALFLIFE
           r == a % HALFLIFE
<1>1. HALFLIFE \in Nat /\ HALFLIFE > 0 /\ MaxTime \in Nat
  BY FloorAssumption, GovernanceAssumption
<1>2. /\ k \in Nat /\ r \in 0..(HALFLIFE - 1) /\ k * HALFLIFE \in Nat
      /\ a = k * HALFLIFE + r
  BY ElapsedSplit
<1> HIDE DEF k, r
<1>3. (a + HALFLIFE) \div HALFLIFE = k + 1 /\ (a + HALFLIFE) % HALFLIFE = r
  <2>1. k + 1 \in Nat /\ a + HALFLIFE \in Nat /\ a + HALFLIFE = (k + 1) * HALFLIFE + r
    BY <1>1, <1>2
  <2>2. QED
    BY <1>2, <2>1, SplitIs
<1>4. k + 1 <= Halvings /\ Halvings \in Nat
  <2>1. a + HALFLIFE \in 0..MaxTime
    BY <1>1
  <2>2. (a + HALFLIFE) \div HALFLIFE \in 0..Halvings /\ Halvings \in Nat
    BY <2>1, AgeSplit
  <2>3. QED
    BY <1>2, <1>3, <2>2
<1>5. /\ MostScaled(a) = MostShare(k) * Parabola(r)
      /\ MostScaled(a + HALFLIFE) = MostShare(k + 1) * Parabola(r)
      /\ LeastScaled(a) = LeastShare(k) * (2 * HALFLIFE - r)
      /\ LeastScaled(a + HALFLIFE) = LeastShare(k + 1) * (2 * HALFLIFE - r)
  <2>1. a \div HALFLIFE = k /\ a % HALFLIFE = r
    BY DEF k, r
  <2>2. QED
    BY <1>3, <2>1, Zenon DEF MostScaled, LeastScaled
<1>6. /\ MostShare(k) \in Nat /\ MostShare(k + 1) \in Nat
      /\ 8 * MostShare(k + 1) = 5 * MostShare(k)
      /\ LeastShare(k) \in Nat /\ LeastShare(k + 1) \in Nat
      /\ 2 * LeastShare(k + 1) = LeastShare(k)
  BY <1>2, <1>4, SharesFall
<1> DEFINE p == Parabola(r)
           l == 2 * HALFLIFE - r
           m == MostShare(k)
           n == MostShare(k + 1)
           s == LeastShare(k + 1)
<1>7. p \in Nat /\ l \in Nat
  BY <1>1, <1>2, ParabolaNat
<1>8. m \in Nat /\ n \in Nat /\ 8 * n = 5 * m /\ s \in Nat /\ LeastShare(k) = 2 * s
  BY <1>6
<1> HIDE DEF p, l, m, n, s
<1>9. m * p \in Nat /\ n * p \in Nat /\ s * l \in Nat
  BY <1>7, <1>8, ProductNat
<1>10. 8 * (n * p) = 5 * (m * p)
  <2>1. 8 * (n * p) = (8 * n) * p /\ 5 * (m * p) = (5 * m) * p
    BY <1>7, <1>8
  <2>2. QED
    BY <1>8, <2>1
<1>11. (2 * s) * l = 2 * (s * l)
  BY <1>7, <1>8
<1>12. 2 * (n * p) >= m * p
  BY <1>9, <1>10
<1>13. /\ MostScaled(a) = m * p /\ MostScaled(a + HALFLIFE) = n * p
       /\ LeastScaled(a + HALFLIFE) = s * l /\ LeastScaled(a) = (2 * s) * l
  BY <1>5, <1>8 DEF p, l, m, n, s
<1>14. QED
  BY <1>9, <1>11, <1>12, <1>13

\* The parabola against the line, with no half-life between ...
LEMMA ParabolaWithin ==
    ASSUME NEW h \in Nat, NEW r \in Nat, NEW s \in Nat, r + s < h
    PROVE  (8 * h * h - 4 * h * r + r * r) * (2 * h - s)
             <= (8 * h * h - 4 * h * (r + s) + (r + s) * (r + s)) * (2 * h)
<1> DEFINE more == 2 * (h * (s * s)) + (r * r) * s
<1>1. more \in Nat
  <2>1. s * s \in Nat /\ r * r \in Nat
    BY ProductNat
  <2>2. h * (s * s) \in Nat /\ (r * r) * s \in Nat
    BY <2>1, ProductNat
  <2>3. QED
    BY <2>2
<1>2. (8 * h * h - 4 * h * (r + s) + (r + s) * (r + s)) * (2 * h)
        = (8 * h * h - 4 * h * r + r * r) * (2 * h - s) + more
  OBVIOUS
<1>3. (8 * h * h - 4 * h * r + r * r) * (2 * h - s) \in Int
  OBVIOUS
<1> HIDE DEF more
<1>4. QED
  BY <1>1, <1>2, <1>3

\* ... and over one: `z` before it and `y` after it.
LEMMA ParabolaAcross ==
    ASSUME NEW h \in Nat, NEW y \in Nat, NEW z \in Nat, y + z < h, z <= h
    PROVE  8 * ((8 * h * h - 4 * h * (h - z) + (h - z) * (h - z)) * (2 * h - (y + z)))
             <= 10 * ((8 * h * h - 4 * h * y + y * y) * h)
<1> DEFINE more == 10 * (h * (y * y)) + 8 * (h * (h * z)) + 16 * (h * (y * z))
                     + 8 * (y * (z * z)) + 8 * (z * (z * z))
           left == (8 * h * h - 4 * h * (h - z) + (h - z) * (h - z)) * (2 * h - (y + z))
           right == (8 * h * h - 4 * h * y + y * y) * h
<1>1. more \in Nat
  <2>1. y * y \in Nat /\ h * z \in Nat /\ y * z \in Nat /\ z * z \in Nat
    BY ProductNat
  <2>2. /\ h * (y * y) \in Nat /\ h * (h * z) \in Nat /\ h * (y * z) \in Nat
        /\ y * (z * z) \in Nat /\ z * (z * z) \in Nat
    BY <2>1, ProductNat
  <2>3. QED
    BY <2>2
<1>2. 10 * right = 8 * left + more
  OBVIOUS
<1>3. left \in Int /\ right \in Int
  OBVIOUS
<1> HIDE DEF more, left, right
<1>4. 8 * left <= 10 * right
  BY <1>1, <1>2, <1>3
<1>5. QED
  BY <1>4 DEF left, right

\* Both weights are whole numbers at every age the clock has room for.
LEMMA ScaledNat ==
    ASSUME NEW a \in 0..MaxTime
    PROVE  MostScaled(a) \in Nat /\ LeastScaled(a) \in Nat
<1> DEFINE k == a \div HALFLIFE
           r == a % HALFLIFE
<1>1. /\ k \in Nat /\ Halvings - k \in Nat /\ r \in 0..(HALFLIFE - 1)
      /\ Halvings \in Nat
  BY AgeSplit
<1> HIDE DEF k, r
<1>2. INCREMENT \in Nat /\ HALFLIFE \in Nat /\ HALFLIFE > 0
  BY FloorAssumption
<1>3. /\ Power(5, k) \in Nat /\ Power(8, Halvings - k) \in Nat
      /\ Power(2, Halvings - k) \in Nat
  BY <1>1, PowerRecursion
<1>4. MostShare(k) \in Nat /\ LeastShare(k) \in Nat
  <2>1. Power(5, k) * Power(8, Halvings - k) \in Nat
    BY <1>3, ProductNat
  <2>2. QED
    BY <1>2, <1>3, <2>1, ProductNat DEF MostShare, LeastShare
<1>5. Parabola(r) \in Nat /\ 2 * HALFLIFE - r \in Nat
  BY <1>1, <1>2, ParabolaNat
<1>6. MostShare(k) * Parabola(r) \in Nat /\ LeastShare(k) * (2 * HALFLIFE - r) \in Nat
  BY <1>4, <1>5, ProductNat
<1>7. QED
  BY <1>6 DEF MostScaled, LeastScaled, k, r

\* Down the code's line, from anywhere between two half-lives.
LEMMA LineStep ==
    ASSUME NEW a \in Nat, NEW s \in 0..(HALFLIFE - 1), a + s <= MaxTime
    PROVE  /\ MostScaled(a) * (2 * HALFLIFE - s) <= MostScaled(a + s) * (2 * HALFLIFE)
           /\ LeastScaled(a + s) * (2 * HALFLIFE) <= LeastScaled(a) * (2 * HALFLIFE - s)
<1> DEFINE k == a \div HALFLIFE
           r == a % HALFLIFE
           H == HALFLIFE
<1>1. H \in Nat /\ H > 0 /\ MaxTime \in Nat /\ s \in Nat /\ s < H
  BY FloorAssumption, GovernanceAssumption
<1>2. /\ k \in Nat /\ r \in 0..(H - 1) /\ k * H \in Nat
      /\ a = k * H + r
  BY ElapsedSplit
<1>3. MostScaled(a) = MostShare(k) * Parabola(r) /\ LeastScaled(a) = LeastShare(k) * (2 * H - r)
  BY DEF MostScaled, LeastScaled
<1>4. a \in 0..MaxTime /\ a + s \in 0..MaxTime
  BY <1>1
<1>5. MostShare(k) \in Nat /\ LeastShare(k) \in Nat /\ Halvings \in Nat /\ k <= Halvings
  <2>1. k \in 0..Halvings /\ Halvings \in Nat
    BY <1>4, AgeSplit
  <2> HIDE DEF k
  <2>2. Halvings - k \in Nat
    BY <2>1
  <2>3. INCREMENT \in Nat
    BY FloorAssumption
  <2>4. /\ Power(5, k) \in Nat /\ Power(8, Halvings - k) \in Nat
        /\ Power(2, Halvings - k) \in Nat
    BY <1>2, <2>2, PowerRecursion
  <2>5. Power(5, k) * Power(8, Halvings - k) \in Nat
    BY <2>4, ProductNat
  <2>6. QED
    BY <2>1, <2>3, <2>4, <2>5, ProductNat DEF MostShare, LeastShare
<1>6. CASE r + s < H
  <2>1. r + s \in 0..(H - 1) /\ a + s = k * H + (r + s) /\ a + s \in Nat
    BY <1>1, <1>2, <1>6
  <2> HIDE DEF k, r
  <2>2. (a + s) \div H = k /\ (a + s) % H = r + s
    BY <1>2, <2>1, SplitIs
  <2>3. /\ MostScaled(a + s) = MostShare(k) * Parabola(r + s)
        /\ LeastScaled(a + s) = LeastShare(k) * (2 * H - (r + s))
    BY <2>2, Zenon DEF MostScaled, LeastScaled, H
  <2> DEFINE m == MostShare(k)
             l == LeastShare(k)
             p == Parabola(r)
             q == Parabola(r + s)
  <2>4. m \in Nat /\ l \in Nat /\ p \in Nat /\ q \in Nat
    BY <1>1, <1>2, <1>5, <2>1, ParabolaNat
  <2>5. p * (2 * H - s) <= q * (2 * H)
    <3>1. r \in Nat
      BY <1>2
    <3>2. QED
      BY <1>1, <1>6, <3>1, ParabolaWithin DEF Parabola
  <2>6. (2 * H - (r + s)) * (2 * H) <= (2 * H - r) * (2 * H - s)
    <3>1. r \in Nat
      BY <1>2
    <3> HIDE DEF H
    <3>2. (2 * H - r) * (2 * H - s) = (2 * H - (r + s)) * (2 * H) + r * s
      BY <1>1, <3>1
    <3>3. r * s \in Nat
      BY <1>1, <3>1, ProductNat
    <3>4. (2 * H - (r + s)) * (2 * H) \in Int
      BY <1>1, <3>1
    <3>5. QED
      BY <3>2, <3>3, <3>4
  <2> HIDE DEF m, l, p, q, H
  <2> DEFINE d == 2 * H - s
             e == 2 * H
             f == 2 * H - r
             g == 2 * H - (r + s)
  <2>7. d \in Nat /\ e \in Nat /\ f \in Nat /\ g \in Nat
    BY <1>1, <1>2, <1>6
  <2>8. p * d <= q * e /\ g * e <= f * d
    BY <2>5, <2>6
  <2> HIDE DEF d, e, f, g
  <2>9. p * d \in Nat /\ q * e \in Nat /\ g * e \in Nat /\ f * d \in Nat
    BY <2>4, <2>7, ProductNat
  <2>10. (p * d) * m <= (q * e) * m /\ (g * e) * l <= (f * d) * l
    BY <2>4, <2>8, <2>9, ProductMonotone
  <2>11. (p * d) * m = (m * p) * d /\ (q * e) * m = (m * q) * e
    BY <2>4, <2>7
  <2>12. (g * e) * l = (l * g) * e /\ (f * d) * l = (l * f) * d
    BY <2>4, <2>7
  <2>13. (m * p) * d <= (m * q) * e /\ (l * g) * e <= (l * f) * d
    BY <2>10, <2>11, <2>12
  <2>14. QED
    BY <1>3, <2>3, <2>13 DEF d, e, f, g, m, l, p, q, H
<1>7. CASE r + s >= H
  <2> DEFINE y == r + s - H
             z == H - r
  <2>1. /\ y \in 0..(H - 1) /\ z \in Nat /\ y + z < H /\ y + z = s /\ z <= H /\ r = H - z
        /\ k + 1 \in Nat /\ a + s = (k + 1) * H + y /\ a + s \in Nat
    BY <1>1, <1>2, <1>7
  <2> HIDE DEF k, r, y, z
  <2>2. (a + s) \div H = k + 1 /\ (a + s) % H = y
    BY <2>1, SplitIs
  <2>3. /\ MostScaled(a + s) = MostShare(k + 1) * Parabola(y)
        /\ LeastScaled(a + s) = LeastShare(k + 1) * (2 * H - y)
    BY <2>2, Zenon DEF MostScaled, LeastScaled, H
  <2>4. k + 1 <= Halvings
    <3>1. (a + s) \div HALFLIFE \in 0..Halvings
      BY <1>4, AgeSplit
    <3>2. QED
      BY <1>5, <2>1, <2>2, <3>1
  <2> DEFINE m == MostShare(k)
             n == MostShare(k + 1)
             l == LeastShare(k + 1)
             p == Parabola(r)
             q == Parabola(y)
  <2>5. /\ m \in Nat /\ n \in Nat /\ 8 * n = 5 * m
        /\ l \in Nat /\ LeastShare(k) = 2 * l
    BY <1>2, <1>5, <2>4, SharesFall
  <2>6. p \in Nat /\ q \in Nat
    BY <1>2, <2>1, ParabolaNat
  <2>7. 8 * (p * (2 * H - s)) <= 10 * (q * H)
    <3>1. y \in Nat
      BY <2>1
    <3>2. 8 * ((8 * H * H - 4 * H * (H - z) + (H - z) * (H - z)) * (2 * H - (y + z)))
             <= 10 * ((8 * H * H - 4 * H * y + y * y) * H)
      <4> HIDE DEF H
      <4>1. QED
        BY <1>1, <2>1, <3>1, ParabolaAcross
    <3>3. QED
      BY <2>1, <3>2 DEF Parabola
  <2>8. (2 * H - y) * H <= (2 * H - r) * (2 * H - s)
    <3> DEFINE x == H - s
    <3>1. y \in Nat /\ x \in Nat /\ s = H - x
      BY <1>1, <2>1
    <3> HIDE DEF H, x
    <3>2. y = H - (z + x)
      BY <1>1, <2>1, <3>1
    <3>3. (2 * H - r) * (2 * H - s) = (H + z) * (H + x)
      BY <1>1, <2>1, <3>1
    <3>4. (2 * H - y) * H = (H + (z + x)) * H
      BY <1>1, <2>1, <3>1, <3>2
    <3>5. (H + z) * (H + x) = (H + (z + x)) * H + z * x
      BY <1>1, <2>1, <3>1
    <3>6. z * x \in Nat /\ (H + (z + x)) * H \in Nat
      BY <1>1, <2>1, <3>1, ProductNat
    <3>7. QED
      BY <3>3, <3>4, <3>5, <3>6
  <2> HIDE DEF m, n, l, p, q, H
  <2> DEFINE d == 2 * H - s
             f == 2 * H - r
             g == 2 * H - y
  <2>9. d \in Nat /\ f \in Nat /\ g \in Nat
    BY <1>1, <1>2, <2>1
  <2>10. 8 * (p * d) <= 10 * (q * H) /\ g * H <= f * d
    BY <2>7, <2>8
  <2> HIDE DEF d, f, g
  <2>11. p * d \in Nat /\ q * H \in Nat /\ g * H \in Nat /\ f * d \in Nat
    BY <1>1, <2>6, <2>9, ProductNat
  <2>12. (m * p) * d <= (n * q) * (2 * H)
    <3>1. 8 * (p * d) \in Nat /\ 10 * (q * H) \in Nat
      BY <2>11
    <3>2. (8 * (p * d)) * m <= (10 * (q * H)) * m
      BY <2>5, <2>10, <3>1, ProductMonotone
    <3> DEFINE u == (m * p) * d
               v == m * (q * H)
               w == n * (q * H)
    <3>3. u \in Nat /\ v \in Nat /\ w \in Nat
      <4>1. m * p \in Nat
        BY <2>5, <2>6, ProductNat
      <4>2. QED
        BY <2>5, <2>9, <2>11, <4>1, ProductNat
    <3>4. (8 * (p * d)) * m = 8 * u
      BY <2>5, <2>6, <2>9
    <3>5. (10 * (q * H)) * m = 10 * v
      BY <1>1, <2>5, <2>6
    <3>6. 8 * w = 5 * v
      <4>1. 8 * w = (8 * n) * (q * H) /\ 5 * v = (5 * m) * (q * H)
        BY <2>5, <2>11
      <4> HIDE DEF w, v
      <4>2. QED
        BY <2>5, <4>1
    <3>7. (n * q) * (2 * H) = 2 * w
      BY <1>1, <2>5, <2>6
    <3> HIDE DEF u, v, w
    <3>8. 8 * u <= 10 * v
      BY <3>2, <3>4, <3>5
    <3>9. u <= 2 * w
      BY <3>3, <3>6, <3>8
    <3>10. QED
      BY <3>7, <3>9 DEF u
  <2>13. (l * g) * (2 * H) <= ((2 * l) * f) * d
    <3> DEFINE t == 2 * l
    <3>1. t \in Nat
      BY <2>5
    <3> HIDE DEF t
    <3>2. (g * H) * t <= (f * d) * t
      BY <2>10, <2>11, <3>1, ProductMonotone
    <3>3. (f * d) * t = (t * f) * d
      BY <2>9, <3>1
    <3>4. (g * H) * t = (l * g) * (2 * H)
      BY <1>1, <2>5, <2>9 DEF t
    <3>5. QED
      BY <3>2, <3>3, <3>4 DEF t
  <2>14. /\ MostScaled(a) = m * p /\ MostScaled(a + s) = n * q
         /\ LeastScaled(a) = (2 * l) * f /\ LeastScaled(a + s) = l * g
    BY <1>3, <2>3, <2>5 DEF m, n, l, p, q, f, g, H
  <2>15. QED
    BY <2>12, <2>13, <2>14 DEF d, H
<1>8. QED
  BY <1>1, <1>2, <1>6, <1>7

\* Over any number of whole half-lives: one after the other.
LEMMA WholeSteps ==
    ASSUME NEW a \in Nat, NEW q \in Nat, q * HALFLIFE \in Nat, a + q * HALFLIFE <= MaxTime
    PROVE  /\ MostScaled(a) <= MostScaled(a + q * HALFLIFE) * 2^q
           /\ LeastScaled(a + q * HALFLIFE) * 2^q = LeastScaled(a)
<1> DEFINE Fit(j) == a + j * HALFLIFE <= MaxTime
           Most(j) == MostScaled(a + j * HALFLIFE)
           Less(j) == LeastScaled(a + j * HALFLIFE)
           Good == {j \in Nat : Fit(j) => /\ MostScaled(a) <= Most(j) * 2^j
                                          /\ Less(j) * 2^j = LeastScaled(a)}
<1>1. HALFLIFE \in Nat /\ MaxTime \in Nat /\ HALFLIFE > 0
  BY FloorAssumption, GovernanceAssumption
<1>2. 0 \in Good
  <2>1. SUFFICES ASSUME Fit(0)
        PROVE MostScaled(a) <= Most(0) * 2^0 /\ Less(0) * 2^0 = LeastScaled(a)
    OBVIOUS
  <2>2. a + 0 * HALFLIFE = a
    BY <1>1
  <2>3. 2^0 = 1
    BY PowerOfTwo, PowerRecursion
  <2>4. a \in 0..MaxTime
    BY <2>1, <2>2
  <2>5. MostScaled(a) \in Nat /\ LeastScaled(a) \in Nat
    BY <2>4, ScaledNat
  <2>6. QED
    BY <2>2, <2>3, <2>5
<1>3. ASSUME NEW j \in Nat, j \in Good PROVE j + 1 \in Good
  <2>1. SUFFICES ASSUME Fit(j + 1)
        PROVE  /\ MostScaled(a) <= Most(j + 1) * 2^(j + 1)
               /\ Less(j + 1) * 2^(j + 1) = LeastScaled(a)
    OBVIOUS
  <2> DEFINE b == a + j * HALFLIFE
             p == 2^j
  <2>2. b \in Nat /\ a + (j + 1) * HALFLIFE = b + HALFLIFE /\ b + HALFLIFE <= MaxTime
    <3>1. j * HALFLIFE \in Nat /\ (j + 1) * HALFLIFE = j * HALFLIFE + HALFLIFE
      BY <1>1, ProductNat
    <3>2. QED
      BY <1>1, <2>1, <3>1
  <2>3. MostScaled(a) <= MostScaled(b) * p /\ LeastScaled(b) * p = LeastScaled(a)
    <3>1. Fit(j)
      BY <1>1, <2>2
    <3>2. QED
      BY <1>3, <3>1
  <2>4. p \in Nat /\ 2^(j + 1) = 2 * p
    <3>1. p \in Nat
      BY PowerIs
    <3>2. 2^(j + 1) = p + p
      BY PowerDoubles
    <3> HIDE DEF p
    <3>3. QED
      BY <3>1, <3>2
  <2> HIDE DEF b, p
  <2>5. /\ 2 * MostScaled(b + HALFLIFE) >= MostScaled(b)
        /\ 2 * LeastScaled(b + HALFLIFE) = LeastScaled(b)
        /\ MostScaled(b) \in Nat /\ MostScaled(b + HALFLIFE) \in Nat
        /\ LeastScaled(b) \in Nat /\ LeastScaled(b + HALFLIFE) \in Nat
    BY <2>2, HalfLifeStep
  <2> DEFINE m == MostScaled(b)
             n == MostScaled(b + HALFLIFE)
             l == LeastScaled(b + HALFLIFE)
  <2>6. m \in Nat /\ n \in Nat /\ l \in Nat /\ m <= 2 * n /\ LeastScaled(b) = 2 * l
    BY <2>5
  <2>7. Most(j + 1) = n /\ Less(j + 1) = l
    BY <2>2
  <2> HIDE DEF m, n, l
  <2>8. m * p <= (2 * n) * p
    BY <2>4, <2>6, ProductMonotone
  <2>9. (2 * n) * p = n * (2 * p) /\ (2 * l) * p = l * (2 * p)
    BY <2>4, <2>6
  <2>10. MostScaled(a) \in Nat
    <3>1. a \in 0..MaxTime
      <4>1. a <= b
        <5>1. j * HALFLIFE \in Nat
          BY <1>1, ProductNat
        <5>2. QED
          BY <5>1 DEF b
      <4>2. QED
        BY <1>1, <2>2, <4>1
    <3>2. QED
      BY <3>1, ScaledNat
  <2>11. m * p \in Nat /\ n * (2 * p) \in Nat
    <3>1. 2 * p \in Nat
      BY <2>4
    <3>2. QED
      BY <2>4, <2>6, <3>1, ProductNat
  <2>12. MostScaled(a) <= n * (2 * p)
    BY <2>3, <2>8, <2>9, <2>10, <2>11 DEF m
  <2>13. l * (2 * p) = LeastScaled(a)
    BY <2>3, <2>6, <2>9
  <2>14. QED
    BY <2>4, <2>7, <2>12, <2>13
<1> HIDE DEF Good
<1>4. q \in Good
  BY <1>2, <1>3, NumberInduction
<1>5. QED
  BY <1>4 DEF Good

\* What a span of time does to a weight, against what the code does to the
\* average: 2^q halvings and a line down to 2 * HALFLIFE - s.
LEMMA WeightDecays ==
    ASSUME NEW a \in Nat, NEW e \in Nat, a + e <= MaxTime,
           NEW q, q = e \div HALFLIFE, NEW s, s = e % HALFLIFE
    PROVE  /\ MostScaled(a) * (2 * HALFLIFE - s) <= MostScaled(a + e) * (2 * HALFLIFE * 2^q)
           /\ LeastScaled(a + e) * (2 * HALFLIFE * 2^q) <= LeastScaled(a) * (2 * HALFLIFE - s)
<1> DEFINE w == q * HALFLIFE
           b == a + w
           d == 2 * HALFLIFE - s
           c == 2 * HALFLIFE
           p == 2^q
<1>1. /\ q \in Nat /\ s \in 0..(HALFLIFE - 1) /\ w \in Nat /\ e = w + s
      /\ HALFLIFE \in Nat /\ MaxTime \in Nat
  BY ElapsedSplit, FloorAssumption, GovernanceAssumption
<1>2. b \in Nat /\ b + s = a + e /\ b <= MaxTime /\ d \in Nat /\ c \in Nat
  BY <1>1
<1>3. MostScaled(a) <= MostScaled(b) * p /\ LeastScaled(b) * p = LeastScaled(a)
  BY <1>1, <1>2, WholeSteps
<1>4. /\ MostScaled(b) * d <= MostScaled(a + e) * c
      /\ LeastScaled(a + e) * c <= LeastScaled(b) * d
  <2>1. b + s <= MaxTime
    BY <1>2
  <2> HIDE DEF b
  <2>2. /\ MostScaled(b) * d <= MostScaled(b + s) * c
        /\ LeastScaled(b + s) * c <= LeastScaled(b) * d
    BY <1>1, <1>2, <2>1, LineStep
  <2>3. QED
    BY <1>2, <2>2
<1>5. p \in Nat
  BY <1>1, PowerIs
<1> DEFINE m  == MostScaled(a)
           mb == MostScaled(b)
           me == MostScaled(a + e)
           l  == LeastScaled(a)
           lb == LeastScaled(b)
           le == LeastScaled(a + e)
<1>6. m \in Nat /\ mb \in Nat /\ me \in Nat /\ l \in Nat /\ lb \in Nat /\ le \in Nat
  <2>1. a \in 0..MaxTime /\ b \in 0..MaxTime /\ a + e \in 0..MaxTime
    BY <1>1, <1>2
  <2>2. QED
    BY <2>1, ScaledNat
<1> HIDE DEF w, b, d, c, p, m, mb, me, l, lb, le
<1>7. m <= mb * p /\ lb * p = l /\ mb * d <= me * c /\ le * c <= lb * d
  BY <1>3, <1>4 DEF m, mb, me, l, lb, le
<1>8. /\ mb * p \in Nat /\ mb * d \in Nat /\ me * c \in Nat
      /\ le * c \in Nat /\ lb * d \in Nat
  BY <1>2, <1>5, <1>6, ProductNat
<1>9. m * d <= me * (c * p)
  <2>1. m * d <= (mb * p) * d
    BY <1>2, <1>6, <1>7, <1>8, ProductMonotone
  <2>2. (mb * d) * p <= (me * c) * p
    BY <1>5, <1>7, <1>8, ProductMonotone
  <2>3. (mb * p) * d = (mb * d) * p /\ (me * c) * p = me * (c * p)
    BY <1>2, <1>5, <1>6
  <2>4. m * d \in Nat /\ (mb * d) * p \in Nat /\ (me * c) * p \in Nat
    BY <1>2, <1>5, <1>6, <1>8, ProductNat
  <2>5. QED
    BY <2>1, <2>2, <2>3, <2>4
<1>10. le * (c * p) <= l * d
  <2>1. (le * c) * p <= (lb * d) * p
    BY <1>5, <1>7, <1>8, ProductMonotone
  <2>2. (le * c) * p = le * (c * p) /\ (lb * d) * p = (lb * p) * d
    BY <1>2, <1>5, <1>6
  <2>3. QED
    BY <1>7, <2>1, <2>2
<1>11. QED
  BY <1>9, <1>10 DEF m, me, l, le, c, d, p

\* The same of the average itself: what it loses on top is the rounding, of
\* the halving and of the line, less than one unit each.
LEMMA DecayIs ==
    ASSUME NEW ema \in Nat, NEW last \in Nat, NEW e \in Nat,
           NEW q, q = e \div HALFLIFE, NEW s, s = e % HALFLIFE, q < 64,
           NEW left, left = DecayMarketEma(ema, last, last + e)
    PROVE  /\ left \in Nat
           /\ left * (2 * HALFLIFE * 2^q) <= ema * (2 * HALFLIFE - s)
           /\ ema * (2 * HALFLIFE - s) <= (left + 2) * (2 * HALFLIFE * 2^q)
<1> DEFINE d == 2 * HALFLIFE - s
           c == 2 * HALFLIFE
           p == 2^q
           x == ema \div p
<1>1. /\ q \in Nat /\ s \in 0..(HALFLIFE - 1) /\ HALFLIFE \in Nat /\ HALFLIFE > 0
      /\ (last + e) - last = e
  <2>1. q \in Nat /\ s \in 0..(HALFLIFE - 1)
    BY ElapsedSplit, Zenon
  <2>2. HALFLIFE \in Nat /\ HALFLIFE > 0
    BY FloorAssumption
  <2>3. (last + e) - last = e
    OBVIOUS
  <2>4. QED
    BY <2>1, <2>2, <2>3, Zenon
<1>2. c \in Nat /\ c > 0 /\ d \in Nat /\ d <= c /\ p \in Nat /\ p > 0
  <2>1. p \in Nat /\ p > 0
    BY <1>1, PowerIs
  <2> HIDE DEF p
  <2>2. QED
    BY <1>1, <2>1
<1>3. left = (x * d) \div c
  <2>1. CASE e = 0
    <3>1. left = ema
      BY <1>1, <2>1 DEF DecayMarketEma
    <3>2. q = 0 /\ s = 0
      BY <1>1, <2>1
    <3>3. p = 1
      BY <3>2, PowerOfTwo, PowerRecursion
    <3>4. x = ema /\ d = c
      <4>1. d = c
        BY <1>1, <3>2
      <4> HIDE DEF p, d, c
      <4>2. x = ema \div 1
        BY <3>3
      <4> HIDE DEF x
      <4>3. x = ema
        BY <4>2
      <4>4. QED
        BY <4>1, <4>3
    <3> HIDE DEF x, d, c
    <3>5. (ema * c) \div c = ema
      <4>1. ema * c \in Nat
        BY <1>2, ProductNat
      <4> DEFINE y == (ema * c) \div c
      <4>2. y \in Nat /\ y * c <= ema * c /\ ema * c < (y + 1) * c
        BY <1>2, <4>1, DivFloor
      <4> HIDE DEF y
      <4>3. y <= ema
        BY <1>2, <4>2, ProductCancel
      <4>4. ~(y + 1 <= ema)
        <5>1. ASSUME y + 1 <= ema PROVE FALSE
          <6>1. (y + 1) * c <= ema * c
            BY <1>2, <4>2, <5>1, ProductMonotone
          <6>2. (y + 1) * c \in Nat
            BY <1>2, <4>2, ProductNat
          <6>3. QED
            BY <4>1, <4>2, <6>1, <6>2
        <5>2. QED
          BY <5>1
      <4>5. y = ema
        BY <4>2, <4>3, <4>4
      <4>6. QED
        BY <4>5 DEF y
    <3>6. QED
      BY <3>1, <3>4, <3>5
  <2>2. CASE e > 0
    BY <1>1, <2>2 DEF DecayMarketEma
  <2>3. QED
    BY <2>1, <2>2
<1> HIDE DEF c, d, p
<1>4. x \in Nat /\ x * p <= ema /\ ema < (x + 1) * p
  BY <1>2, DivFloor
<1> HIDE DEF x
<1>5. x * d \in Nat
  BY <1>2, <1>4, ProductNat
<1>6. left \in Nat /\ left * c <= x * d /\ x * d < (left + 1) * c
  BY <1>2, <1>3, <1>5, DivFloor
<1>7. left * (c * p) <= ema * d
  <2>1. left * c \in Nat /\ x * p \in Nat
    BY <1>2, <1>4, <1>6, ProductNat
  <2>2. (left * c) * p <= (x * d) * p
    BY <1>2, <1>5, <1>6, <2>1, ProductMonotone
  <2>3. (x * p) * d <= ema * d
    BY <1>2, <1>4, <2>1, ProductMonotone
  <2>4. (left * c) * p = left * (c * p) /\ (x * d) * p = (x * p) * d
    BY <1>2, <1>4, <1>6
  <2>5. (left * c) * p \in Nat /\ (x * p) * d \in Nat /\ ema * d \in Nat
    BY <1>2, <2>1, ProductNat
  <2>6. QED
    BY <2>2, <2>3, <2>4, <2>5
<1>8. ema * d <= (left + 2) * (c * p)
  <2>1. (x + 1) * p \in Nat /\ (left + 1) * c \in Nat
    <3>1. x + 1 \in Nat /\ left + 1 \in Nat
      BY <1>4, <1>6
    <3>2. QED
      BY <1>2, <3>1, ProductNat
  <2>2. ema * d <= ((x + 1) * p) * d
    BY <1>2, <1>4, <2>1, ProductMonotone
  <2>3. (x * d) * p <= ((left + 1) * c) * p
    BY <1>2, <1>5, <1>6, <2>1, ProductMonotone
  <2>4. d * p <= c * p
    BY <1>2, ProductMonotone
  <2>5. ((x + 1) * p) * d = (x * d) * p + d * p
    BY <1>2, <1>4
  <2>6. (left + 2) * (c * p) = ((left + 1) * c) * p + c * p
    BY <1>2, <1>6
  <2>7. /\ (x * d) * p \in Nat /\ d * p \in Nat /\ c * p \in Nat /\ ema * d \in Nat
        /\ ((left + 1) * c) * p \in Nat
    BY <1>2, <1>5, <2>1, ProductNat
  <2>8. QED
    BY <2>2, <2>3, <2>4, <2>5, <2>6, <2>7
<1>9. QED
  BY <1>6, <1>7, <1>8 DEF c, d, p

\* The bases of the weights.
LEMMA PowersOfBases ==
    ASSUME NEW k \in Nat
    PROVE  /\ Power(2, k) \in Nat /\ Power(2, k) > 0
           /\ Power(5, k) \in Nat /\ Power(5, k) > 0
           /\ Power(8, k) \in Nat /\ Power(8, k) > 0
<1>1. ASSUME NEW b \in Nat, b > 0 PROVE Power(b, k) \in Nat /\ Power(b, k) > 0
  BY <1>1, PowerPositive
<1>2. \A b \in Nat : b > 0 => Power(b, k) \in Nat /\ Power(b, k) > 0
  BY <1>1
<1>3. 2 \in Nat /\ 2 > 0 /\ 5 \in Nat /\ 5 > 0 /\ 8 \in Nat /\ 8 > 0
  OBVIOUS
<1>4. QED
  BY <1>2, <1>3

\* Dividing by the scales is sound.
LEMMA ScalesPositive ==
    /\ MostScale \in Nat /\ MostScale > 0
    /\ LeastScale \in Nat /\ LeastScale > 0
<1>1. HALFLIFE \in Nat /\ HALFLIFE > 0 /\ MaxTime \in Nat
  BY FloorAssumption, GovernanceAssumption
<1>2. Halvings \in Nat
  BY <1>1, DivFloor DEF Halvings
<1> DEFINE x == Power(8, Halvings)
           y == Power(2, Halvings)
           z == HALFLIFE * HALFLIFE
<1>3. x \in Nat /\ x > 0 /\ y \in Nat /\ y > 0
  BY <1>2, PowersOfBases
<1>4. z \in Nat /\ z > 0
  BY <1>1
<1>5. MostScale = 8 * (x * z) /\ LeastScale = 2 * (y * HALFLIFE)
  <2>1. 8 * HALFLIFE * HALFLIFE = 8 * z
    BY <1>1
  <2>2. MostScale = x * (8 * z)
    BY <2>1 DEF MostScale
  <2>3. LeastScale = y * (2 * HALFLIFE)
    BY DEF LeastScale
  <2> HIDE DEF x, y, z
  <2>4. QED
    BY <1>1, <1>3, <1>4, <2>2, <2>3
<1> HIDE DEF x, y, z
<1>6. x * z \in Nat /\ x * z > 0 /\ y * HALFLIFE \in Nat /\ y * HALFLIFE > 0
  BY <1>1, <1>3, <1>4
<1>7. QED
  BY <1>5, <1>6

\* A new creation weighs the increment, under both measures.
LEMMA ScaledAtBirth ==
    /\ MostScaled(0) = INCREMENT * MostScale
    /\ LeastScaled(0) = INCREMENT * LeastScale
<1>1. /\ HALFLIFE \in Nat /\ HALFLIFE > 0 /\ MaxTime \in Nat /\ INCREMENT \in Nat
  BY FloorAssumption, GovernanceAssumption
<1>2. Halvings \in Nat /\ Halvings - 0 = Halvings
  BY <1>1, DivFloor DEF Halvings
<1>3. 0 \div HALFLIFE = 0 /\ 0 % HALFLIFE = 0
  <2>1. 0 \in 0..(HALFLIFE - 1) /\ 0 = 0 * HALFLIFE + 0
    BY <1>1
  <2>2. QED
    BY <2>1, SplitIs
<1> DEFINE x == Power(8, Halvings)
           y == Power(2, Halvings)
<1>4. x \in Nat /\ y \in Nat /\ Power(5, 0) = 1
  BY <1>2, PowerRecursion
<1>5. MostShare(0) = INCREMENT * (1 * x) /\ LeastShare(0) = INCREMENT * y
  BY <1>2, <1>4 DEF MostShare, LeastShare
<1>6. Parabola(0) = 8 * HALFLIFE * HALFLIFE /\ 2 * HALFLIFE - 0 = 2 * HALFLIFE
  BY <1>1 DEF Parabola
<1> HIDE DEF x, y
<1>7. /\ MostScaled(0) = (INCREMENT * (1 * x)) * (8 * HALFLIFE * HALFLIFE)
      /\ LeastScaled(0) = (INCREMENT * y) * (2 * HALFLIFE)
  BY <1>3, <1>5, <1>6, Zenon DEF MostScaled, LeastScaled
<1>8. /\ MostScale = x * (8 * HALFLIFE * HALFLIFE)
      /\ LeastScale = y * (2 * HALFLIFE)
  BY DEF MostScale, LeastScale, x, y
<1>9. QED
  BY <1>1, <1>4, <1>7, <1>8

\* The measures of the property, which round, against the scaled ones.
LEMMA ScaledIs ==
    ASSUME NEW a \in 0..MaxTime
    PROVE  /\ MostWeight(a) \in Nat /\ MostScaled(a) <= MostWeight(a) * MostScale
           /\ LeastWeight(a) \in Nat /\ LeastWeight(a) * LeastScale <= LeastScaled(a)
<1> DEFINE k == a \div HALFLIFE
           r == a % HALFLIFE
           j == Halvings - k
<1>1. /\ k \in Nat /\ r \in 0..(HALFLIFE - 1) /\ j \in Nat
      /\ Halvings \in Nat /\ Halvings = k + j
  <2>1. k \in 0..Halvings /\ r \in 0..(HALFLIFE - 1) /\ j \in Nat /\ Halvings \in Nat
    BY AgeSplit
  <2> HIDE DEF k, r
  <2>2. QED
    BY <2>1
<1>2. a = k * HALFLIFE + r /\ a \in Nat /\ k * HALFLIFE \in Nat
  BY ElapsedSplit, GovernanceAssumption
<1> HIDE DEF k, r, j
<1>3. INCREMENT \in Nat /\ HALFLIFE \in Nat /\ HALFLIFE > 0
  BY FloorAssumption
<1> DEFINE x5 == Power(5, k)
           x8 == Power(8, k)
           y8 == Power(8, j)
           x2 == Power(2, k)
           y2 == Power(2, j)
           top == 8 * HALFLIFE * HALFLIFE
           p == Parabola(r)
<1>4. /\ x5 \in Nat /\ x8 \in Nat /\ x8 > 0 /\ y8 \in Nat /\ x2 \in Nat /\ x2 > 0 /\ y2 \in Nat
      /\ Power(8, Halvings) = x8 * y8 /\ Power(2, Halvings) = x2 * y2
  <2>1. /\ x5 \in Nat /\ x8 \in Nat /\ x8 > 0 /\ y8 \in Nat
        /\ x2 \in Nat /\ x2 > 0 /\ y2 \in Nat
    BY <1>1, PowersOfBases
  <2>2. ASSUME NEW b \in Nat, b > 0 PROVE Power(b, Halvings) = Power(b, k) * Power(b, j)
    BY <1>1, <2>2, PowerOfSum
  <2>3. 8 \in Nat /\ 8 > 0 /\ 2 \in Nat /\ 2 > 0
    OBVIOUS
  <2>4. Power(8, Halvings) = x8 * y8 /\ Power(2, Halvings) = x2 * y2
    BY <2>2, <2>3
  <2>5. QED
    BY <2>1, <2>4
<1>5. p \in Nat /\ p <= top /\ top \in Nat
  <2>1. HALFLIFE * HALFLIFE \in Nat /\ top = 8 * (HALFLIFE * HALFLIFE)
    BY <1>3
  <2> HIDE DEF top
  <2>2. top \in Nat
    BY <2>1
  <2>3. QED
    BY <1>1, <2>2, ParabolaNat DEF top
<1>6. MostWeight(a) \in Nat /\ MostScaled(a) <= MostWeight(a) * MostScale
  <2> DEFINE w == MostWeight(a)
             v == INCREMENT * x5
  <2>1. v \in Nat
    BY <1>3, <1>4, ProductNat
  <2>2. w = (v + x8 - 1) \div x8
    BY DEF MostWeight, CeilDiv, k
  <2> HIDE DEF w, v, x5, x8, y8, x2, y2, top, p
  <2>3. v + x8 - 1 \in Nat
    BY <1>4, <2>1
  <2>4. w \in Nat /\ v + x8 - 1 < (w + 1) * x8
    BY <1>4, <2>2, <2>3, DivFloor
  <2>5. v <= w * x8
    <3>1. (w + 1) * x8 = w * x8 + x8 /\ w * x8 \in Nat
      BY <1>4, <2>4
    <3>2. QED
      BY <1>4, <2>1, <2>4, <3>1
  <2>6. MostScaled(a) = (v * y8) * p
    <3>1. MostScaled(a) = (INCREMENT * (x5 * y8)) * p
      BY DEF MostScaled, MostShare, k, r, j, x5, y8, p
    <3>2. QED
      BY <1>3, <1>4, <1>5, <3>1 DEF v
  <2>7. MostScale = (x8 * y8) * top
    BY <1>4 DEF MostScale, top
  <2>8. w * x8 \in Nat /\ v * y8 \in Nat /\ (w * x8) * y8 \in Nat
    BY <1>4, <2>1, <2>4, ProductNat
  <2>9. v * y8 <= (w * x8) * y8
    BY <1>4, <2>1, <2>5, <2>8, ProductMonotone
  <2>10. (v * y8) * p <= ((w * x8) * y8) * p
    BY <1>5, <2>8, <2>9, ProductMonotone
  <2>11. ((w * x8) * y8) * p <= ((w * x8) * y8) * top
    <3> DEFINE z == (w * x8) * y8
    <3>1. z \in Nat
      BY <2>8
    <3> HIDE DEF z
    <3>2. p * z <= top * z
      BY <1>5, <3>1, ProductMonotone
    <3>3. z * p <= z * top
      BY <1>5, <3>1, <3>2
    <3>4. QED
      BY <3>3 DEF z
  <2>12. ((w * x8) * y8) * top = w * ((x8 * y8) * top)
    BY <1>4, <1>5, <2>4
  <2>13. (v * y8) * p \in Nat /\ ((w * x8) * y8) * p \in Nat /\ ((w * x8) * y8) * top \in Nat
    BY <1>5, <2>8, ProductNat
  <2>14. (v * y8) * p <= w * ((x8 * y8) * top)
    BY <2>10, <2>11, <2>12, <2>13
  <2>15. QED
    BY <2>4, <2>6, <2>7, <2>14 DEF w
<1>7. LeastWeight(a) \in Nat /\ LeastWeight(a) * LeastScale <= LeastScaled(a)
  <2> DEFINE c == CeilDiv(a, HALFLIFE)
             w == LeastWeight(a)
             l == 2 * HALFLIFE - r
  <2>1. l \in Nat /\ l >= HALFLIFE
    BY <1>1, <1>3
  <2>2. c \in Nat /\ ((c = k /\ r = 0) \/ c = k + 1)
    <3>1. CASE r = 0
      <4>1. /\ a + HALFLIFE - 1 \in Nat /\ HALFLIFE - 1 \in 0..(HALFLIFE - 1)
            /\ a + HALFLIFE - 1 = k * HALFLIFE + (HALFLIFE - 1)
        BY <1>2, <1>3, <3>1
      <4>2. (a + HALFLIFE - 1) \div HALFLIFE = k
        BY <1>1, <4>1, SplitIs
      <4>3. QED
        BY <1>1, <3>1, <4>2 DEF CeilDiv
    <3>2. CASE r > 0
      <4>1. /\ a + HALFLIFE - 1 \in Nat /\ r - 1 \in 0..(HALFLIFE - 1) /\ k + 1 \in Nat
            /\ a + HALFLIFE - 1 = (k + 1) * HALFLIFE + (r - 1)
        BY <1>1, <1>2, <1>3, <3>2
      <4>2. (a + HALFLIFE - 1) \div HALFLIFE = k + 1
        BY <4>1, SplitIs
      <4>3. QED
        BY <1>1, <4>2 DEF CeilDiv
    <3>3. QED
      BY <1>1, <3>1, <3>2
  <2> HIDE DEF c
  <2>3. w = INCREMENT \div Power(2, c)
    <3>1. 2^c = Power(2, c)
      BY <2>2, PowerOfTwo
    <3>2. w = INCREMENT \div 2^c
      BY DEF LeastWeight, c
    <3>3. QED
      BY <3>1, <3>2
  <2> HIDE DEF w
  <2>4. Power(2, c) \in Nat /\ Power(2, c) > 0
    BY <2>2, PowersOfBases
  <2>5. w \in Nat /\ w * Power(2, c) <= INCREMENT
    BY <1>3, <2>3, <2>4, DivFloor
  <2> HIDE DEF l, x5, x8, y8, x2, y2, top, p
  <2>6. (w * x2) * (2 * HALFLIFE) <= INCREMENT * l
    <3>0. w * x2 \in Nat /\ INCREMENT * l \in Nat /\ INCREMENT * HALFLIFE \in Nat
      BY <1>3, <1>4, <2>1, <2>5, ProductNat
    <3>1. CASE c = k /\ r = 0
      <4>1. w * x2 <= INCREMENT /\ l = 2 * HALFLIFE
        BY <1>3, <2>5, <3>1 DEF x2, l
      <4>2. (w * x2) * (2 * HALFLIFE) <= INCREMENT * (2 * HALFLIFE)
        <5>1. 2 * HALFLIFE \in Nat
          BY <1>3
        <5>2. QED
          BY <1>3, <3>0, <4>1, <5>1, ProductMonotone
      <4>3. QED
        BY <4>1, <4>2
    <3>2. CASE c = k + 1
      <4>1. Power(2, c) = 2 * x2
        BY <1>1, <3>2, PowerRecursion DEF x2
      <4>2. w * (2 * x2) <= INCREMENT
        BY <2>5, <4>1
      <4>3. w * (2 * x2) \in Nat
        BY <1>4, <2>5
      <4>4. (w * (2 * x2)) * HALFLIFE <= INCREMENT * HALFLIFE
        BY <1>3, <4>2, <4>3, ProductMonotone
      <4>5. (w * (2 * x2)) * HALFLIFE = (w * x2) * (2 * HALFLIFE)
        BY <1>3, <1>4, <2>5
      <4>6. INCREMENT * HALFLIFE <= INCREMENT * l
        <5>1. HALFLIFE * INCREMENT <= l * INCREMENT
          BY <1>3, <2>1, ProductMonotone
        <5>2. QED
          BY <1>3, <2>1, <5>1
      <4> DEFINE u == (w * x2) * (2 * HALFLIFE)
      <4>7. u \in Nat
        <5>1. 2 * HALFLIFE \in Nat
          BY <1>3
        <5>2. QED
          BY <3>0, <5>1, ProductNat
      <4>8. u <= INCREMENT * HALFLIFE
        BY <4>4, <4>5
      <4> HIDE DEF u
      <4>9. u <= INCREMENT * l
        BY <3>0, <4>6, <4>7, <4>8
      <4>10. QED
        BY <4>9 DEF u
    <3>3. QED
      BY <2>2, <3>1, <3>2
  <2>7. LeastScaled(a) = (INCREMENT * y2) * l
    BY DEF LeastScaled, LeastShare, k, r, j, y2, l
  <2>8. LeastScale = (x2 * y2) * (2 * HALFLIFE)
    BY <1>4 DEF LeastScale
  <2> DEFINE u == (w * x2) * (2 * HALFLIFE)
             t == INCREMENT * l
  <2>9. u \in Nat /\ t \in Nat
    <3>1. w * x2 \in Nat /\ 2 * HALFLIFE \in Nat
      BY <1>3, <1>4, <2>5, ProductNat
    <3>2. QED
      BY <1>3, <2>1, <3>1, ProductNat
  <2>10. u * y2 <= t * y2
    BY <1>4, <2>6, <2>9, ProductMonotone
  <2>11. u * y2 = w * ((x2 * y2) * (2 * HALFLIFE)) /\ t * y2 = (INCREMENT * y2) * l
    BY <1>3, <1>4, <2>1, <2>5
  <2>12. QED
    BY <2>5, <2>7, <2>8, <2>10, <2>11 DEF w
<1>8. QED
  BY <1>6, <1>7

\* Waiting keeps the average under the most that its creations can weigh.
LEMMA MostKept ==
    ASSUME NEW n \in Nat, NEW ema \in Nat, NEW last \in Nat, NEW e \in Nat,
           NEW f, NEW g,
           \A i \in 1..n : \E a \in Nat :
               a + e <= MaxTime /\ f[i] = MostScaled(a) /\ g[i] = MostScaled(a + e),
           ema * MostScale <= Total(f, 1..n)
    PROVE  DecayMarketEma(ema, last, last + e) * MostScale <= Total(g, 1..n)
<1> DEFINE q == e \div HALFLIFE
           s == e % HALFLIFE
           d == 2 * HALFLIFE - s
           c == 2 * HALFLIFE * 2^q
           S == MostScale
           F == Total(f, 1..n)
           G == Total(g, 1..n)
           left == DecayMarketEma(ema, last, last + e)
<1>1. q \in Nat /\ s \in 0..(HALFLIFE - 1) /\ HALFLIFE \in Nat /\ HALFLIFE > 0 /\ MaxTime \in Nat
  <2>1. q \in Nat /\ s \in 0..(HALFLIFE - 1)
    BY ElapsedSplit, Zenon
  <2>2. HALFLIFE \in Nat /\ HALFLIFE > 0 /\ MaxTime \in Nat
    BY FloorAssumption, GovernanceAssumption
  <2>3. QED
    BY <2>1, <2>2, Zenon
<1>2. d \in Nat /\ c \in Nat /\ c > 0
  <2>1. 2^q \in Nat /\ 2^q > 0
    BY <1>1, PowerIs
  <2> DEFINE p == 2^q
  <2>2. p \in Nat /\ p > 0
    BY <2>1
  <2> HIDE DEF p
  <2>3. HALFLIFE * p \in Nat /\ HALFLIFE * p > 0 /\ 2 * HALFLIFE * p = 2 * (HALFLIFE * p)
    BY <1>1, <2>2
  <2>4. 2 * HALFLIFE * p \in Nat /\ 2 * HALFLIFE * p > 0
    BY <2>3
  <2>5. QED
    BY <1>1, <2>4 DEF p
<1>3. S \in Nat /\ S > 0
  BY ScalesPositive
<1>4. ASSUME NEW i \in 1..n
      PROVE f[i] \in Nat /\ g[i] \in Nat /\ d * f[i] <= c * g[i]
  <2>1. PICK a \in Nat : a + e <= MaxTime /\ f[i] = MostScaled(a) /\ g[i] = MostScaled(a + e)
    OBVIOUS
  <2>2. a \in 0..MaxTime /\ a + e \in 0..MaxTime
    BY <1>1, <2>1
  <2>3. f[i] \in Nat /\ g[i] \in Nat
    BY <2>1, <2>2, ScaledNat
  <2>4. f[i] * d <= g[i] * c
    BY <2>1, WeightDecays
  <2> HIDE DEF d, c
  <2>5. QED
    BY <1>2, <2>3, <2>4
<1>5. IsFiniteSet(1..n)
  BY IntervalSize
<1>6. F \in Nat /\ G \in Nat
  BY <1>4, <1>5, TotalNat
<1>7. d * F <= c * G
  <2> HIDE DEF d, c, F, G
  <2> DEFINE x == [i \in 1..n |-> d * f[i]]
             y == [i \in 1..n |-> c * g[i]]
  <2>1. \A i \in 1..n : x[i] = d * f[i] /\ y[i] = c * g[i]
    OBVIOUS
  <2>2. \A i \in 1..n : x[i] \in Nat /\ y[i] \in Nat /\ x[i] <= y[i]
    <3>1. ASSUME NEW i \in 1..n PROVE d * f[i] \in Nat /\ c * g[i] \in Nat
      BY <1>2, <1>4, ProductNat
    <3> HIDE DEF x, y
    <3>2. QED
      BY <1>4, <2>1, <3>1
  <2> HIDE DEF x, y
  <2>3. Total(x, 1..n) <= Total(y, 1..n)
    BY <1>5, <2>2, TotalMonotone
  <2>4. Total(x, 1..n) = d * Total(f, 1..n)
    BY <1>2, <1>4, <1>5, <2>1, TotalScaled
  <2>5. Total(y, 1..n) = c * Total(g, 1..n)
    BY <1>2, <1>4, <1>5, <2>1, TotalScaled
  <2>6. QED
    BY <2>3, <2>4, <2>5 DEF F, G
<1>8. CASE q >= 64
  <2>1. (last + e) - last = e /\ e > 0
    <3>1. e # 0
      BY <1>1, <1>8
    <3>2. QED
      BY <3>1
  <2>2. left = 0
    BY <1>8, <2>1 DEF DecayMarketEma
  <2> HIDE DEF S, G, left
  <2>3. left * S = 0
    BY <1>3, <2>2
  <2>4. QED
    BY <1>6, <2>3 DEF S, G, left
<1>9. CASE q < 64
  <2>1. left \in Nat /\ left * c <= ema * d
    BY <1>9, DecayIs
  <2> HIDE DEF q, s, d, c, S, F, G, left
  <2>2. ema * S <= F
    BY DEF S, F
  <2>3. left * c \in Nat /\ ema * d \in Nat /\ ema * S \in Nat /\ left * S \in Nat
    BY <1>2, <1>3, <2>1, ProductNat
  <2>4. (left * c) * S <= (ema * d) * S
    BY <1>3, <2>1, <2>3, ProductMonotone
  <2>5. (ema * S) * d <= F * d
    BY <1>2, <1>6, <2>2, <2>3, ProductMonotone
  <2>6. (left * c) * S = (left * S) * c /\ (ema * d) * S = (ema * S) * d
    BY <1>2, <1>3, <2>1
  <2>7. F * d = d * F /\ G * c = c * G
    BY <1>2, <1>6
  <2>8. /\ (left * S) * c \in Nat /\ (ema * S) * d \in Nat /\ F * d \in Nat /\ G * c \in Nat
    BY <1>2, <1>6, <2>3, ProductNat
  <2>9. (left * S) * c <= G * c
    BY <1>7, <2>4, <2>5, <2>6, <2>7, <2>8
  <2>10. left * S <= G
    BY <1>2, <1>6, <2>3, <2>9, ProductCancel
  <2>11. QED
    BY <2>10 DEF S, G, left
<1>10. QED
  BY <1>1, <1>8, <1>9

\* A creation is worth nothing once the code forgets it: 64 halvings leave
\* less than one of a u64.
LEMMA ForgottenByThen ==
    ASSUME INCREMENT < 2^64, NEW a \in 0..MaxTime, a \div HALFLIFE >= 64
    PROVE  LeastScaled(a) <= LeastScale
<1> DEFINE k == a \div HALFLIFE
           r == a % HALFLIFE
           j == Halvings - k
           x == Power(2, k)
           y == Power(2, j)
           l == 2 * HALFLIFE - r
<1>1. /\ k \in Nat /\ r \in 0..(HALFLIFE - 1) /\ j \in Nat /\ k >= 64
      /\ Halvings = k + j
  <2>1. k \in 0..Halvings /\ r \in 0..(HALFLIFE - 1) /\ j \in Nat /\ Halvings \in Nat
    BY AgeSplit
  <2>2. k >= 64
    OBVIOUS
  <2> HIDE DEF k, r
  <2>3. QED
    BY <2>1, <2>2
<1> HIDE DEF k, r, j
<1>2. INCREMENT \in Nat /\ HALFLIFE \in Nat /\ HALFLIFE > 0
  BY FloorAssumption
<1>3. x \in Nat /\ y \in Nat
  BY <1>1, PowersOfBases
<1>4. INCREMENT <= x
  <2>1. 64 \in Nat /\ 2^64 <= 2^k
    BY <1>1, PowerGrows
  <2>2. 2^64 \in Nat
    BY <2>1, PowerIs
  <2>3. 2^k = x
    BY <1>1, PowerOfTwo
  <2> DEFINE t == 2^64
  <2>4. INCREMENT < t /\ t <= x /\ t \in Nat
    BY <2>1, <2>2, <2>3
  <2> HIDE DEF t, x
  <2>5. QED
    BY <1>2, <1>3, <2>4
<1>5. l \in Nat /\ l <= 2 * HALFLIFE /\ 2 * HALFLIFE \in Nat
  BY <1>1, <1>2
<1>6. Power(2, Halvings) = x * y
  <2>1. 2 \in Nat /\ 2 > 0
    OBVIOUS
  <2>2. Power(2, k + j) = Power(2, k) * Power(2, j)
    BY <1>1, <2>1, PowerOfSum
  <2>3. QED
    BY <1>1, <2>2
<1> HIDE DEF x, y, l
<1>7. INCREMENT * y <= x * y
  BY <1>2, <1>3, <1>4, ProductMonotone
<1>8. INCREMENT * y \in Nat /\ x * y \in Nat
  BY <1>2, <1>3, ProductNat
<1>9. (INCREMENT * y) * l <= (x * y) * l
  BY <1>5, <1>7, <1>8, ProductMonotone
<1>10. (x * y) * l <= (x * y) * (2 * HALFLIFE)
  <2> DEFINE z == x * y
             t == 2 * HALFLIFE
  <2>1. z \in Nat /\ t \in Nat /\ l <= t
    BY <1>5, <1>8
  <2> HIDE DEF z, t
  <2>2. l * z <= t * z
    BY <1>5, <2>1, ProductMonotone
  <2>3. z * l <= z * t
    BY <1>5, <2>1, <2>2
  <2>4. QED
    BY <2>3 DEF z, t
<1>11. /\ (INCREMENT * y) * l \in Nat /\ (x * y) * l \in Nat
       /\ (x * y) * (2 * HALFLIFE) \in Nat
  BY <1>5, <1>8, ProductNat
<1>12. (INCREMENT * y) * l <= (x * y) * (2 * HALFLIFE)
  BY <1>9, <1>10, <1>11
<1>13. LeastScaled(a) = (INCREMENT * y) * l
  BY DEF LeastScaled, LeastShare, k, r, j, y, l
<1>14. LeastScale = (x * y) * (2 * HALFLIFE)
  BY <1>6 DEF LeastScale
<1>15. QED
  BY <1>12, <1>13, <1>14

\* Waiting once costs the average no more than two units against the least
\* that its creations can weigh.
LEMMA LeastKept ==
    ASSUME INCREMENT < 2^64,
           NEW n \in Nat, NEW ema \in Nat, NEW last \in Nat, NEW e \in Nat, NEW spare \in Nat,
           n <= spare + 2,
           NEW f, NEW g,
           \A i \in 1..n : \E a \in Nat :
               a + e <= MaxTime /\ f[i] = LeastScaled(a) /\ g[i] = LeastScaled(a + e),
           Total(f, 1..n) <= (ema + spare) * LeastScale
    PROVE  Total(g, 1..n)
             <= (DecayMarketEma(ema, last, last + e) + (spare + 2)) * LeastScale
<1> DEFINE q == e \div HALFLIFE
           s == e % HALFLIFE
           d == 2 * HALFLIFE - s
           c == 2 * HALFLIFE * 2^q
           S == LeastScale
           F == Total(f, 1..n)
           G == Total(g, 1..n)
           left == DecayMarketEma(ema, last, last + e)
<1>1. q \in Nat /\ s \in 0..(HALFLIFE - 1) /\ HALFLIFE \in Nat /\ HALFLIFE > 0 /\ MaxTime \in Nat
  <2>1. q \in Nat /\ s \in 0..(HALFLIFE - 1)
    BY ElapsedSplit, Zenon
  <2>2. HALFLIFE \in Nat /\ HALFLIFE > 0 /\ MaxTime \in Nat
    BY FloorAssumption, GovernanceAssumption
  <2>3. QED
    BY <2>1, <2>2, Zenon
<1>2. d \in Nat /\ c \in Nat /\ c > 0 /\ d <= c
  <2>1. 2^q \in Nat /\ 2^q > 0
    BY <1>1, PowerIs
  <2> DEFINE p == 2^q
  <2>2. p \in Nat /\ p > 0
    BY <2>1
  <2> HIDE DEF p
  <2>3. HALFLIFE * p \in Nat /\ HALFLIFE <= HALFLIFE * p /\ 2 * HALFLIFE * p = 2 * (HALFLIFE * p)
    <3>1. 1 * HALFLIFE <= p * HALFLIFE
      BY <1>1, <2>2, ProductMonotone
    <3>2. QED
      BY <1>1, <2>2, <3>1
  <2>4. /\ 2 * HALFLIFE * p \in Nat /\ 2 * HALFLIFE * p > 0
        /\ 2 * HALFLIFE - s <= 2 * HALFLIFE * p
    <3> DEFINE u == HALFLIFE * p
    <3>1. u \in Nat /\ HALFLIFE <= u
      BY <2>3
    <3> HIDE DEF u
    <3>2. 2 * HALFLIFE * p = 2 * u
      BY <2>3 DEF u
    <3>3. QED
      BY <1>1, <3>1, <3>2
  <2>5. QED
    BY <1>1, <2>4 DEF p
<1>3. S \in Nat /\ S > 0
  BY ScalesPositive
<1>4. ASSUME NEW i \in 1..n
      PROVE f[i] \in Nat /\ g[i] \in Nat /\ c * g[i] <= d * f[i] /\ (q >= 64 => g[i] <= S)
  <2>1. PICK a \in Nat : a + e <= MaxTime /\ f[i] = LeastScaled(a) /\ g[i] = LeastScaled(a + e)
    OBVIOUS
  <2>2. a \in 0..MaxTime /\ a + e \in 0..MaxTime
    BY <1>1, <2>1
  <2>3. f[i] \in Nat /\ g[i] \in Nat
    BY <2>1, <2>2, ScaledNat
  <2>4. g[i] * c <= f[i] * d
    BY <2>1, WeightDecays
  <2>5. ASSUME q >= 64 PROVE g[i] <= S
    <3>1. a + e \in Nat /\ e <= a + e
      OBVIOUS
    <3>2. q <= (a + e) \div HALFLIFE
      BY <1>1, <3>1, DivMonotone
    <3>3. (a + e) \div HALFLIFE \in Nat
      BY <3>1, ElapsedSplit
    <3>4. (a + e) \div HALFLIFE >= 64
      <4> DEFINE k == (a + e) \div HALFLIFE
      <4>1. k \in Nat /\ q <= k
        BY <3>2, <3>3
      <4> HIDE DEF k, q
      <4>2. k >= 64
        BY <1>1, <2>5, <4>1
      <4>3. QED
        BY <4>2 DEF k
    <3>5. LeastScaled(a + e) <= LeastScale
      BY <2>2, <3>4, ForgottenByThen
    <3>6. QED
      BY <2>1, <3>5
  <2> HIDE DEF d, c, q, S
  <2>6. QED
    BY <1>2, <2>3, <2>4, <2>5
<1>5. IsFiniteSet(1..n)
  BY IntervalSize
<1>6. F \in Nat /\ G \in Nat
  BY <1>4, <1>5, TotalNat
<1>7. c * G <= d * F
  <2> HIDE DEF d, c, F, G, q, S
  <2> DEFINE x == [i \in 1..n |-> c * g[i]]
             y == [i \in 1..n |-> d * f[i]]
  <2>1. \A i \in 1..n : x[i] = c * g[i] /\ y[i] = d * f[i]
    OBVIOUS
  <2>2. \A i \in 1..n : x[i] \in Nat /\ y[i] \in Nat /\ x[i] <= y[i]
    <3>1. ASSUME NEW i \in 1..n PROVE d * f[i] \in Nat /\ c * g[i] \in Nat
      BY <1>2, <1>4, ProductNat
    <3> HIDE DEF x, y
    <3>2. QED
      BY <1>4, <2>1, <3>1
  <2> HIDE DEF x, y
  <2>3. Total(x, 1..n) <= Total(y, 1..n)
    BY <1>5, <2>2, TotalMonotone
  <2>4. Total(y, 1..n) = d * Total(f, 1..n)
    BY <1>2, <1>4, <1>5, <2>1, TotalScaled
  <2>5. Total(x, 1..n) = c * Total(g, 1..n)
    BY <1>2, <1>4, <1>5, <2>1, TotalScaled
  <2>6. QED
    BY <2>3, <2>4, <2>5 DEF F, G
<1>8. CASE q >= 64
  <2>1. (last + e) - last = e /\ e > 0
    <3>1. e # 0
      BY <1>1, <1>8
    <3>2. QED
      BY <3>1
  <2>2. left = 0
    BY <1>8, <2>1 DEF DecayMarketEma
  <2>3. G <= n * S
    <3>1. \A i \in 1..n : g[i] \in Nat /\ g[i] <= S
      BY <1>4, <1>8
    <3> HIDE DEF S
    <3>2. QED
      BY <1>3, <3>1, TotalBounded
  <2> HIDE DEF S, G, left
  <2>4. n * S <= (spare + 2) * S
    BY <1>3, ProductMonotone
  <2>5. n * S \in Nat /\ (spare + 2) * S \in Nat /\ left + (spare + 2) = spare + 2
    <3>1. spare + 2 \in Nat
      OBVIOUS
    <3>2. QED
      BY <1>3, <2>2, <3>1, ProductNat
  <2>6. G <= (left + (spare + 2)) * S
    BY <1>6, <2>3, <2>4, <2>5
  <2>7. QED
    BY <2>6 DEF S, G, left
<1>9. CASE q < 64
  <2>1. left \in Nat /\ ema * d <= (left + 2) * c
    BY <1>9, DecayIs
  <2> HIDE DEF q, s, d, c, S, F, G, left
  <2>2. F <= (ema + spare) * S
    BY DEF S, F
  <2>3. spare * d <= spare * c
    <3>1. d * spare <= c * spare
      BY <1>2, ProductMonotone
    <3>2. QED
      BY <1>2, <3>1
  <2> DEFINE had  == ema + spare
             have == left + (spare + 2)
  <2>4. had \in Nat /\ have \in Nat
    BY <2>1
  <2>5. had * d <= have * c
    <3>1. had * d = ema * d + spare * d /\ have * c = (left + 2) * c + spare * c
      BY <1>2, <2>1
    <3>2. left + 2 \in Nat
      BY <2>1
    <3>3. /\ ema * d \in Nat /\ spare * d \in Nat /\ (left + 2) * c \in Nat
          /\ spare * c \in Nat
      BY <1>2, <3>2, ProductNat
    <3>4. QED
      BY <2>1, <2>3, <3>1, <3>3
  <2>6. F <= had * S
    BY <2>2
  <2> HIDE DEF had, have
  <2>7. had * S \in Nat /\ had * d \in Nat /\ have * c \in Nat /\ have * S \in Nat
    BY <1>2, <1>3, <2>4, ProductNat
  <2>8. F * d <= (had * S) * d
    BY <1>2, <1>6, <2>6, <2>7, ProductMonotone
  <2>9. (had * d) * S <= (have * c) * S
    BY <1>3, <2>5, <2>7, ProductMonotone
  <2>10. (had * d) * S = (had * S) * d /\ (have * c) * S = (have * S) * c
    BY <1>2, <1>3, <2>4
  <2>11. F * d = d * F /\ G * c = c * G
    BY <1>2, <1>6
  <2>12. F * d \in Nat /\ G * c \in Nat /\ (had * S) * d \in Nat /\ (have * S) * c \in Nat
    BY <1>2, <1>6, <2>7, ProductNat
  <2>13. G * c <= (have * S) * c
    BY <1>7, <2>8, <2>9, <2>10, <2>11, <2>12
  <2>14. G <= have * S
    BY <1>2, <1>6, <2>7, <2>13, ProductCancel
  <2>15. QED
    BY <2>14 DEF S, G, have, left
<1>10. QED
  BY <1>1, <1>8, <1>9

\* The scaled weights of the first `n` of the markets `ms` at time `t`.
MostOf(ms, n, t)  == Total([i \in 1..n |-> MostScaled(t - ms[i].at)], 1..n)
LeastOf(ms, n, t) == Total([i \in 1..n |-> LeastScaled(t - ms[i].at)], 1..n)

\* What the account holds since the last creation: no more than what all
\* creations can weigh then, and short of the least by what the decays before
\* it may have rounded away, two units each.
Measured ==
    LET n    == Len(markets)
        ema  == config.market_creation_ema
        last == config.last_market_creation_unix
    IN  /\ n = 0 => ema = 0
        /\ last <= now
        /\ \A i \in 1..n : markets[i].at <= last
        /\ ema <= n * INCREMENT
        /\ ema * MostScale <= MostOf(markets, n, last)
        /\ n > 0 => LeastOf(markets, n, last) <= (ema + 2 * (n - 1)) * LeastScale

FloorsAnswer ==
    \A n \in DOMAIN markets :
        markets[n].min_liquidity <= FloorAt(AtMost(n, markets[n].at), markets[n].curve)

DemandInv ==
    /\ TypeOK
    /\ now <= MaxTime /\ Len(markets) <= MaxMarkets
    /\ config = NoConfig => markets = <<>>
    /\ config # NoConfig => Measured
    /\ FloorsAnswer

\* The same of the activity, any time later.
LEMMA ActivityMeasured ==
    ASSUME INCREMENT < 2^64, DemandInv, config # NoConfig, NEW n, n = Len(markets)
    PROVE  /\ n \in Nat /\ Activity \in Nat /\ Activity <= n * INCREMENT
           /\ Activity * MostScale <= MostOf(markets, n, now)
           /\ LeastOf(markets, n, now) <= (Activity + 2 * n) * LeastScale
           /\ \A i \in 1..n : markets[i].at \in Nat /\ now - markets[i].at \in 0..MaxTime
<1> DEFINE ema  == config.market_creation_ema
           last == config.last_market_creation_unix
           e    == now - last
           spare == 2 * (n - 1)
           f  == [i \in 1..n |-> MostScaled(last - markets[i].at)]
           g  == [i \in 1..n |-> MostScaled(now - markets[i].at)]
           f2 == [i \in 1..n |-> LeastScaled(last - markets[i].at)]
           g2 == [i \in 1..n |-> LeastScaled(now - markets[i].at)]
<1>1. config \in Config /\ now \in Nat /\ markets \in Seq(Terms) /\ Activity \in Nat
  BY ActivityIs, FloorAssumption DEF DemandInv, TypeOK
<1>2. /\ ema \in Nat /\ last \in Nat /\ last <= now /\ now <= MaxTime /\ MaxTime \in Nat
      /\ n \in Nat
  BY <1>1, GovernanceAssumption, FloorAssumption DEF Config, DemandInv, Measured
<1>3. ASSUME NEW i \in 1..n
      PROVE  markets[i].at \in Nat /\ markets[i].at <= last
  <2>1. markets[i] \in Terms
    BY <1>1, <1>2
  <2>2. QED
    BY <2>1 DEF Terms, DemandInv, Measured
<1>4. /\ n = 0 => ema = 0
      /\ ema <= n * INCREMENT
      /\ ema * MostScale <= Total(f, 1..n)
      /\ n > 0 => Total(f2, 1..n) <= (ema + 2 * (n - 1)) * LeastScale
  BY DEF DemandInv, Measured, MostOf, LeastOf
<1>5. /\ Activity = DecayMarketEma(ema, last, last + e)
      /\ e \in Nat /\ last + e = now
  <2>1. last + e = now /\ e \in Nat
    <3> HIDE DEF ema, last
    <3>1. QED
      BY <1>1, <1>2
  <2>2. Activity = DecayMarketEma(ema, last, now)
    BY DEF Activity
  <2>3. QED
    BY <2>1, <2>2
<1> HIDE DEF ema, last, e
<1>6. Activity <= ema
  <2>1. now <= now
    BY <1>1
  <2>2. Activity = DecayMarketEma(ema, last, now)
    BY <1>5
  <2>3. QED
    BY <1>1, <1>2, <2>1, <2>2, DecayFalls
<1>7. Activity <= n * INCREMENT
  <2>1. n * INCREMENT \in Nat
    BY <1>2, FloorAssumption, ProductNat
  <2>2. QED
    BY <1>1, <1>2, <1>4, <1>6, <2>1
<1>8. ASSUME NEW i \in 1..n
      PROVE  \E a \in Nat : /\ a + e <= MaxTime
                            /\ f[i] = MostScaled(a) /\ g[i] = MostScaled(a + e)
                            /\ f2[i] = LeastScaled(a) /\ g2[i] = LeastScaled(a + e)
  <2> DEFINE a == last - markets[i].at
  <2>1. a \in Nat /\ a + e = now - markets[i].at /\ a + e <= MaxTime
    BY <1>2, <1>3, <1>5
  <2>2. /\ f[i] = MostScaled(a) /\ g[i] = MostScaled(now - markets[i].at)
        /\ f2[i] = LeastScaled(a) /\ g2[i] = LeastScaled(now - markets[i].at)
    OBVIOUS
  <2> HIDE DEF a, f, g, f2, g2
  <2>3. QED
    BY <2>1, <2>2
<1>9. Activity * MostScale <= Total(g, 1..n)
  <2>1. \A i \in 1..n : \E a \in Nat :
          a + e <= MaxTime /\ f[i] = MostScaled(a) /\ g[i] = MostScaled(a + e)
    BY <1>8
  <2> HIDE DEF f, g
  <2>2. QED
    <3>1. DecayMarketEma(ema, last, last + e) * MostScale <= Total(g, 1..n)
      BY <1>2, <1>4, <1>5, <2>1, MostKept
    <3>2. QED
      BY <1>5, <3>1, Zenon
<1>10. Total(g2, 1..n) <= (Activity + 2 * n) * LeastScale
  <2>1. CASE n = 0
    <3>1. 1..n = {}
      BY <2>1
    <3>2. Total(g2, 1..n) = 0
      BY <3>1, TotalOfNone
    <3>3. (Activity + 2 * n) * LeastScale \in Nat
      <4>1. Activity + 2 * n \in Nat
        BY <1>1, <1>2
      <4>2. QED
        BY <4>1, ScalesPositive, ProductNat
    <3>4. QED
      BY <3>2, <3>3
  <2>2. CASE n > 0
    <3>1. spare \in Nat /\ n <= spare + 2 /\ spare + 2 = 2 * n
      BY <1>2, <2>2
    <3>2. Total(f2, 1..n) <= (ema + spare) * LeastScale
      BY <1>4, <2>2
    <3>3. \A i \in 1..n : \E a \in Nat :
            a + e <= MaxTime /\ f2[i] = LeastScaled(a) /\ g2[i] = LeastScaled(a + e)
      BY <1>8
    <3> HIDE DEF spare, f2, g2
    <3>4. Total(g2, 1..n) <= (Activity + (spare + 2)) * LeastScale
      <4>1. Total(g2, 1..n)
              <= (DecayMarketEma(ema, last, last + e) + (spare + 2)) * LeastScale
        BY <1>2, <1>5, <3>1, <3>2, <3>3, LeastKept
      <4>2. QED
        BY <1>5, <4>1, Zenon
    <3>5. QED
      BY <3>1, <3>4
  <2>3. QED
    BY <1>2, <2>1, <2>2
<1>11. ASSUME NEW i \in 1..n PROVE markets[i].at \in Nat /\ now - markets[i].at \in 0..MaxTime
  <2>1. markets[i].at \in Nat /\ markets[i].at <= last
    BY <1>3
  <2> DEFINE at == markets[i].at
  <2>2. at \in Nat /\ at <= last
    BY <2>1
  <2> HIDE DEF at
  <2>3. now - at \in 0..MaxTime
    BY <1>1, <1>2, <2>2
  <2>4. QED
    BY <2>2, <2>3 DEF at
<1>12. QED
  BY <1>1, <1>2, <1>7, <1>9, <1>10, <1>11 DEF MostOf, LeastOf

\* Between the two measures of the property, which round each weight.
LEMMA ActivityBetween ==
    ASSUME INCREMENT < 2^64, DemandInv, config # NoConfig, NEW n, n = Len(markets)
    PROVE  /\ AtMost(n + 1, now) \in Nat /\ AtLeast(n + 1, now) \in Nat
           /\ Activity <= AtMost(n + 1, now)
           /\ Activity + 2 * n >= AtLeast(n + 1, now)
<1> DEFINE f  == [i \in 1..n |-> MostScaled(now - markets[i].at)]
           g  == [i \in 1..n |-> MostWeight(now - markets[i].at)]
           f2 == [i \in 1..n |-> LeastScaled(now - markets[i].at)]
           g2 == [i \in 1..n |-> LeastWeight(now - markets[i].at)]
           x  == [i \in 1..n |-> MostScale * g[i]]
           x2 == [i \in 1..n |-> LeastScale * g2[i]]
<1>1. /\ n \in Nat /\ Activity \in Nat
      /\ Activity * MostScale <= Total(f, 1..n)
      /\ Total(f2, 1..n) <= (Activity + 2 * n) * LeastScale
      /\ \A i \in 1..n : now - markets[i].at \in 0..MaxTime
  BY ActivityMeasured DEF MostOf, LeastOf
<1>2. AtMost(n + 1, now) = Total(g, 1..n) /\ AtLeast(n + 1, now) = Total(g2, 1..n)
  <2>1. (n + 1) - 1 = n
    BY <1>1
  <2>2. QED
    BY <2>1 DEF AtMost, AtLeast
<1>3. IsFiniteSet(1..n)
  BY <1>1, IntervalSize
<1>4. ASSUME NEW i \in 1..n
      PROVE  /\ f[i] \in Nat /\ g[i] \in Nat /\ f2[i] \in Nat /\ g2[i] \in Nat
             /\ x[i] = MostScale * g[i] /\ x2[i] = LeastScale * g2[i]
             /\ x[i] \in Nat /\ x2[i] \in Nat
             /\ f[i] <= x[i] /\ x2[i] <= f2[i]
  <2> DEFINE a == now - markets[i].at
  <2>1. a \in 0..MaxTime
    BY <1>1
  <2>2. /\ f[i] = MostScaled(a) /\ g[i] = MostWeight(a)
        /\ f2[i] = LeastScaled(a) /\ g2[i] = LeastWeight(a)
    OBVIOUS
  <2>3. x[i] = MostScale * g[i] /\ x2[i] = LeastScale * g2[i]
    OBVIOUS
  <2> HIDE DEF a, f, g, f2, g2, x, x2
  <2>4. /\ MostScaled(a) \in Nat /\ LeastScaled(a) \in Nat
        /\ MostWeight(a) \in Nat /\ MostScaled(a) <= MostWeight(a) * MostScale
        /\ LeastWeight(a) \in Nat /\ LeastWeight(a) * LeastScale <= LeastScaled(a)
    BY <2>1, ScaledNat, ScaledIs
  <2>5. /\ MostScale \in Nat /\ LeastScale \in Nat
    BY ScalesPositive
  <2>6. MostWeight(a) * MostScale = MostScale * MostWeight(a)
    BY <2>4, <2>5
  <2>7. LeastWeight(a) * LeastScale = LeastScale * LeastWeight(a)
    BY <2>4, <2>5
  <2>8. MostScale * MostWeight(a) \in Nat /\ LeastScale * LeastWeight(a) \in Nat
    BY <2>4, <2>5, ProductNat
  <2>9. QED
    BY <2>2, <2>3, <2>4, <2>6, <2>7, <2>8
<1>5. /\ MostScale \in Nat /\ MostScale > 0 /\ LeastScale \in Nat /\ LeastScale > 0
  BY ScalesPositive
<1> DEFINE F  == Total(f, 1..n)
           G  == Total(g, 1..n)
           F2 == Total(f2, 1..n)
           G2 == Total(g2, 1..n)
<1> HIDE DEF f, g, f2, g2, x, x2
<1>6. F \in Nat /\ G \in Nat /\ F2 \in Nat /\ G2 \in Nat
  BY <1>3, <1>4, TotalNat
<1>7. F <= MostScale * G
  <2>1. Total(x, 1..n) = MostScale * G
    BY <1>3, <1>4, <1>5, TotalScaled
  <2>2. Total(f, 1..n) <= Total(x, 1..n)
    BY <1>3, <1>4, TotalMonotone
  <2>3. QED
    BY <2>1, <2>2
<1>8. LeastScale * G2 <= F2
  <2>1. Total(x2, 1..n) = LeastScale * G2
    BY <1>3, <1>4, <1>5, TotalScaled
  <2>2. Total(x2, 1..n) <= Total(f2, 1..n)
    BY <1>3, <1>4, TotalMonotone
  <2>3. QED
    BY <2>1, <2>2
<1>9. Activity * MostScale <= F /\ F2 <= (Activity + 2 * n) * LeastScale
  BY <1>1
<1> HIDE DEF F, G, F2, G2
<1>10. Activity <= G
  <2>1. MostScale * G = G * MostScale
    BY <1>5, <1>6
  <2>2. Activity * MostScale \in Nat /\ G * MostScale \in Nat
    BY <1>1, <1>5, <1>6, ProductNat
  <2>3. Activity * MostScale <= G * MostScale
    BY <1>6, <1>7, <1>9, <2>1, <2>2
  <2>4. QED
    BY <1>1, <1>5, <1>6, <2>3, ProductCancel
<1>11. G2 <= Activity + 2 * n
  <2> DEFINE y == Activity + 2 * n
  <2>1. y \in Nat /\ F2 <= y * LeastScale
    BY <1>1, <1>9
  <2> HIDE DEF y
  <2>2. LeastScale * G2 = G2 * LeastScale
    BY <1>5, <1>6
  <2>3. y * LeastScale \in Nat /\ G2 * LeastScale \in Nat
    BY <1>5, <1>6, <2>1, ProductNat
  <2>4. G2 * LeastScale <= y * LeastScale
    BY <1>6, <1>8, <2>1, <2>2, <2>3
  <2>5. G2 <= y
    BY <1>5, <1>6, <2>1, <2>4, ProductCancel
  <2>6. QED
    BY <2>5 DEF y
<1>12. AtMost(n + 1, now) = G /\ AtLeast(n + 1, now) = G2
  BY <1>2 DEF G, G2
<1>13. QED
  BY <1>1, <1>6, <1>10, <1>11, <1>12

\* A creation adds the increment to either measure, and nothing to what the
\* earlier ones weigh.
LEMMA WeighedWithBirth ==
    ASSUME TypeOK, now <= MaxTime, config # NoConfig, NEW n, n = Len(markets), CreateMarket,
           \A i \in 1..n : now - markets[i].at \in 0..MaxTime
    PROVE  /\ MostOf(markets', n + 1, now) = MostOf(markets, n, now) + INCREMENT * MostScale
           /\ LeastOf(markets', n + 1, now) = LeastOf(markets, n, now) + INCREMENT * LeastScale
<1> DEFINE f  == [i \in 1..(n + 1) |-> MostScaled(now - markets'[i].at)]
           g  == [i \in 1..n |-> MostScaled(now - markets[i].at)]
           f2 == [i \in 1..(n + 1) |-> LeastScaled(now - markets'[i].at)]
           g2 == [i \in 1..n |-> LeastScaled(now - markets[i].at)]
           new == [at |-> now, fee_bps |-> config.fee_bps, min_liquidity |-> FloorNow,
                   curve |-> config.curve]
<1>1. markets \in Seq(Terms) /\ n \in Nat /\ now \in Nat /\ MaxTime \in Nat
  BY GovernanceAssumption DEF TypeOK
<1>2. markets' = Append(markets, new)
  BY DEF CreateMarket
<1>3. /\ \A i \in 1..n : markets'[i] = markets[i]
      /\ markets'[n + 1] = new /\ markets'[n + 1].at = now
  <2>1. new.at = now
    OBVIOUS
  <2> HIDE DEF new
  <2>2. /\ \A i \in 1..n : markets'[i] = markets[i]
        /\ markets'[n + 1] = new
    BY <1>1, <1>2
  <2>3. QED
    BY <2>1, <2>2
<1>4. \A i \in 1..(n + 1) : now - markets'[i].at \in 0..MaxTime
  <2>1. ASSUME NEW i \in 1..(n + 1) PROVE now - markets'[i].at \in 0..MaxTime
    <3>1. CASE i \in 1..n
      BY <1>3, <3>1
    <3>2. CASE i = n + 1
      <4>1. now - now = 0
        BY <1>1
      <4>2. QED
        BY <1>1, <1>3, <3>2, <4>1
    <3>3. QED
      BY <1>1, <3>1, <3>2
  <2>2. QED
    BY <2>1
<1>5. ASSUME NEW i \in 1..(n + 1) PROVE f[i] \in Nat /\ f2[i] \in Nat
  <2>1. MostScaled(now - markets'[i].at) \in Nat /\ LeastScaled(now - markets'[i].at) \in Nat
    BY <1>4, ScaledNat
  <2>2. QED
    BY <2>1
<1>6. \A i \in 1..n : f[i] = g[i] /\ f2[i] = g2[i]
  <2>1. ASSUME NEW i \in 1..n PROVE f[i] = g[i] /\ f2[i] = g2[i]
    <3>1. i \in 1..(n + 1) /\ markets'[i] = markets[i]
      BY <1>1, <1>3
    <3>2. QED
      BY <3>1
  <2>2. QED
    BY <2>1
<1>7. f[n + 1] = INCREMENT * MostScale /\ f2[n + 1] = INCREMENT * LeastScale
  <2>1. n + 1 \in 1..(n + 1) /\ now - markets'[n + 1].at = 0
    BY <1>1, <1>3
  <2>2. f[n + 1] = MostScaled(0) /\ f2[n + 1] = LeastScaled(0)
    BY <2>1
  <2> HIDE DEF f, f2
  <2>3. QED
    BY <2>2, ScaledAtBirth
<1> HIDE DEF f, g, f2, g2
<1>8. \A i \in 1..(n + 1) : f[i] \in Nat /\ f2[i] \in Nat
  BY <1>5
<1>9. Total(f, 1..(n + 1)) = Total(f, 1..n) + f[n + 1]
  BY <1>1, <1>8, TotalOneMore
<1>10. Total(f2, 1..(n + 1)) = Total(f2, 1..n) + f2[n + 1]
  BY <1>1, <1>8, TotalOneMore
<1>11. Total(f, 1..n) = Total(g, 1..n) /\ Total(f2, 1..n) = Total(g2, 1..n)
  BY <1>6, TotalSame
<1>12. /\ MostOf(markets', n + 1, now) = Total(f, 1..(n + 1))
       /\ MostOf(markets, n, now) = Total(g, 1..n)
       /\ LeastOf(markets', n + 1, now) = Total(f2, 1..(n + 1))
       /\ LeastOf(markets, n, now) = Total(g2, 1..n)
  BY DEF MostOf, LeastOf, f, g, f2, g2
<1>13. QED
  BY <1>7, <1>9, <1>10, <1>11, <1>12

\* A creation decays the average once and adds the increment.
LEMMA MeasuredAtBirth ==
    ASSUME INCREMENT < 2^64, MaxMarkets * INCREMENT <= MaxU64,
           DemandInv, TypeOK', CreateMarket
    PROVE  Measured'
<1> DEFINE n == Len(markets)
           act == Activity
           M == MostScale
           L == LeastScale
<1>1. /\ config # NoConfig /\ config \in Config /\ n < MaxMarkets /\ markets \in Seq(Terms)
      /\ now \in Nat /\ now <= MaxTime /\ INCREMENT \in Nat /\ MaxMarkets \in Nat
      /\ MaxU64 \in Nat /\ TypeOK
  BY FloorAssumption, GovernanceAssumption DEF CreateMarket, DemandInv, TypeOK
<1>2. /\ n \in Nat /\ act \in Nat /\ act <= n * INCREMENT
      /\ act * M <= MostOf(markets, n, now)
      /\ LeastOf(markets, n, now) <= (act + 2 * n) * L
      /\ \A i \in 1..n : markets[i].at \in Nat /\ now - markets[i].at \in 0..MaxTime
  BY <1>1, ActivityMeasured
<1>3. /\ MostOf(markets', n + 1, now) = MostOf(markets, n, now) + INCREMENT * M
      /\ LeastOf(markets', n + 1, now) = LeastOf(markets, n, now) + INCREMENT * L
  BY <1>1, <1>2, WeighedWithBirth
<1>4. M \in Nat /\ L \in Nat
  BY ScalesPositive
<1>5. /\ MostOf(markets, n, now) \in Nat /\ LeastOf(markets, n, now) \in Nat
  <2> DEFINE f  == [i \in 1..n |-> MostScaled(now - markets[i].at)]
             f2 == [i \in 1..n |-> LeastScaled(now - markets[i].at)]
  <2>1. \A i \in 1..n : f[i] \in Nat /\ f2[i] \in Nat
    <3>1. ASSUME NEW i \in 1..n
          PROVE  MostScaled(now - markets[i].at) \in Nat /\ LeastScaled(now - markets[i].at) \in Nat
      BY <1>2, ScaledNat
    <3>2. QED
      BY <3>1
  <2>2. IsFiniteSet(1..n)
    BY <1>2, IntervalSize
  <2> HIDE DEF f, f2
  <2>3. Total(f, 1..n) \in Nat /\ Total(f2, 1..n) \in Nat
    BY <2>1, <2>2, TotalNat
  <2>4. QED
    BY <2>3 DEF MostOf, LeastOf, f, f2
<1>6. act + INCREMENT <= (n + 1) * INCREMENT /\ (n + 1) * INCREMENT <= MaxU64
  <2>1. (n + 1) * INCREMENT = n * INCREMENT + INCREMENT /\ n * INCREMENT \in Nat
    BY <1>1, <1>2, ProductNat
  <2>2. n + 1 \in Nat /\ n + 1 <= MaxMarkets
    BY <1>1, <1>2
  <2> HIDE DEF n
  <2>3. (n + 1) * INCREMENT <= MaxMarkets * INCREMENT
    BY <1>1, <2>2, ProductMonotone
  <2>4. (n + 1) * INCREMENT \in Nat /\ MaxMarkets * INCREMENT \in Nat
    BY <1>1, <2>2, ProductNat
  <2> HIDE DEF act
  <2>5. QED
    BY <1>1, <1>2, <2>1, <2>3, <2>4
<1>7. BumpedMarketEma(act) = act + INCREMENT
  <2>1. (n + 1) * INCREMENT \in Nat
    <3>1. n + 1 \in Nat
      BY <1>2
    <3>2. QED
      BY <1>1, <3>1, ProductNat
  <2> HIDE DEF act, n
  <2>2. ~(act + INCREMENT > MaxU64)
    BY <1>1, <1>2, <1>6, <2>1
  <2>3. QED
    BY <2>2 DEF BumpedMarketEma
<1>8. /\ config'.market_creation_ema = act + INCREMENT
      /\ config'.last_market_creation_unix = now
      /\ now' = now /\ Len(markets') = n + 1 /\ n + 1 \in Nat
      /\ \A i \in 1..(n + 1) : markets'[i].at <= now
  <2>1. /\ config'.market_creation_ema = BumpedMarketEma(Activity)
        /\ config'.last_market_creation_unix = now /\ now' = now
    BY <1>1 DEF CreateMarket, Config
  <2> DEFINE new == [at |-> now, fee_bps |-> config.fee_bps, min_liquidity |-> FloorNow,
                     curve |-> config.curve]
  <2>2. markets' = Append(markets, new) /\ new.at = now
    BY DEF CreateMarket
  <2> HIDE DEF new
  <2>3. /\ Len(markets') = n + 1
        /\ \A i \in 1..n : markets'[i] = markets[i]
        /\ markets'[n + 1] = new
    BY <1>1, <2>2
  <2>4. ASSUME NEW i \in 1..(n + 1) PROVE markets'[i].at <= now
    <3>1. CASE i \in 1..n
      <4>1. markets[i].at \in Nat /\ now - markets[i].at \in 0..MaxTime
        BY <1>2, <3>1
      <4> DEFINE at == markets[i].at
      <4>2. at \in Nat /\ now - at >= 0
        BY <1>1, <4>1
      <4> HIDE DEF at
      <4>3. at <= now
        BY <1>1, <4>2
      <4>4. QED
        BY <2>3, <3>1, <4>3 DEF at
    <3>2. CASE i = n + 1
      <4>1. now <= now
        BY <1>1
      <4>2. QED
        BY <2>2, <2>3, <3>2, <4>1
    <3>3. QED
      BY <1>2, <3>1, <3>2
  <2>5. QED
    BY <1>2, <1>7, <2>1, <2>3, <2>4
<1> DEFINE ema == act + INCREMENT
           most == MostOf(markets, n, now)
           least == LeastOf(markets, n, now)
<1>9. ema * M <= MostOf(markets', n + 1, now)
  <2> HIDE DEF act, n, M
  <2>1. ema * M = act * M + INCREMENT * M
    BY <1>1, <1>2, <1>4
  <2>2. act * M \in Nat /\ INCREMENT * M \in Nat /\ most \in Nat /\ act * M <= most
    BY <1>1, <1>2, <1>4, <1>5, ProductNat
  <2> HIDE DEF most, ema
  <2>3. ema * M <= most + INCREMENT * M
    BY <2>1, <2>2
  <2>4. QED
    BY <1>3, <2>3 DEF most
<1>10. LeastOf(markets', n + 1, now) <= (ema + 2 * ((n + 1) - 1)) * L
  <2> HIDE DEF act, n, L
  <2>1. (ema + 2 * ((n + 1) - 1)) * L = (act + 2 * n) * L + INCREMENT * L
    BY <1>1, <1>2, <1>4
  <2>2. act + 2 * n \in Nat
    BY <1>2
  <2>3. /\ (act + 2 * n) * L \in Nat /\ INCREMENT * L \in Nat /\ least \in Nat
        /\ least <= (act + 2 * n) * L
    BY <1>1, <1>2, <1>4, <1>5, <2>2, ProductNat
  <2> HIDE DEF least, ema
  <2>4. least + INCREMENT * L <= (ema + 2 * ((n + 1) - 1)) * L
    BY <2>1, <2>3
  <2>5. QED
    BY <1>3, <2>4 DEF least
<1>11. now <= now /\ n + 1 # 0
  BY <1>1, <1>2
<1>12. /\ (n + 1 = 0 => ema = 0)
       /\ ema <= (n + 1) * INCREMENT
  BY <1>6, <1>11
<1> HIDE DEF n, ema, M, L
<1>13. /\ Len(markets') = n + 1 /\ config'.market_creation_ema = ema
       /\ config'.last_market_creation_unix = now /\ now' = now
  BY <1>8 DEF ema
<1>14. QED
  BY <1>8, <1>9, <1>10, <1>11, <1>12, <1>13 DEF Measured, M, L

\* A market's floor is measured before its own creation is added.
LEMMA FloorAnswersAtBirth ==
    ASSUME INCREMENT < 2^64, DemandInv, CreateMarket
    PROVE  FloorsAnswer'
<1> DEFINE n == Len(markets)
           new == [at |-> now, fee_bps |-> config.fee_bps, min_liquidity |-> FloorNow,
                   curve |-> config.curve]
<1>1. /\ config # NoConfig /\ config \in Config /\ markets \in Seq(Terms) /\ n \in Nat
      /\ config.curve \in Curve /\ Activity \in 0..MaxU64
  BY ActivityIs DEF CreateMarket, DemandInv, TypeOK, Config
<1>2. markets' = Append(markets, new)
  BY DEF CreateMarket
<1>3. new.at = now /\ new.min_liquidity = FloorNow /\ new.curve = config.curve
  OBVIOUS
<1> HIDE DEF new
<1>4. /\ DOMAIN markets' = 1..(n + 1) /\ DOMAIN markets = 1..n
      /\ \A i \in 1..n : markets'[i] = markets[i]
      /\ markets'[n + 1] = new
  BY <1>1, <1>2
<1> DEFINE Before(ms, m, t) == Total([i \in 1..(m - 1) |-> MostWeight(t - ms[i].at)], 1..(m - 1))
<1>5. ASSUME NEW m \in 1..(n + 1), NEW t
      PROVE  Before(markets', m, t) = Before(markets, m, t)
  <2>1. \A i \in 1..(m - 1) : markets'[i] = markets[i]
    BY <1>1, <1>4
  <2>2. [i \in 1..(m - 1) |-> MostWeight(t - markets'[i].at)]
          = [i \in 1..(m - 1) |-> MostWeight(t - markets[i].at)]
    BY <2>1
  <2>3. QED
    BY <2>2
<1>6. /\ \A m, t : AtMost(m, t) = Before(markets, m, t)
      /\ \A m \in DOMAIN markets' :
           AtMost(m, markets[m].at)' = Before(markets', m, markets'[m].at)
  BY DEF AtMost
<1> HIDE DEF Before
<1>7. ASSUME NEW m \in 1..(n + 1)
      PROVE  markets'[m].min_liquidity
               <= FloorAt(Before(markets', m, markets'[m].at), markets'[m].curve)
  <2>1. CASE m \in 1..n
    <3>1. markets[m].min_liquidity <= FloorAt(AtMost(m, markets[m].at), markets[m].curve)
      BY <1>4, <2>1 DEF DemandInv, FloorsAnswer
    <3>2. markets'[m] = markets[m]
      BY <1>4, <2>1
    <3>3. Before(markets', m, markets'[m].at) = AtMost(m, markets[m].at)
      BY <1>5, <1>6, <3>2
    <3>4. QED
      BY <3>1, <3>2, <3>3
  <2>2. CASE m = n + 1
    <3>1. AtMost(n + 1, now) \in Nat /\ Activity <= AtMost(n + 1, now)
      BY <1>1, ActivityBetween
    <3>2. Activity \in Nat
      BY <1>1, FloorAssumption
    <3>3. FloorAt(Activity, config.curve) <= FloorAt(AtMost(n + 1, now), config.curve)
      BY <1>1, <3>1, <3>2, FloorMonotone
    <3>4. Before(markets', n + 1, now) = AtMost(n + 1, now)
      BY <1>1, <1>5, <1>6, <2>2
    <3>5. /\ markets'[m].min_liquidity = FloorAt(Activity, config.curve)
          /\ markets'[m].at = now /\ markets'[m].curve = config.curve
      BY <1>3, <1>4, <2>2 DEF FloorNow
    <3>6. QED
      BY <2>2, <3>3, <3>4, <3>5
  <2>3. QED
    BY <1>1, <2>1, <2>2
<1>8. \A m \in DOMAIN markets' :
        markets'[m].min_liquidity
          <= FloorAt(AtMost(m, markets[m].at)', markets'[m].curve)
  BY <1>4, <1>6, <1>7
<1>9. QED
  BY <1>8 DEF FloorsAnswer

\* Retuning the curve and waiting leave the stored average alone.
LEMMA DemandInvariant ==
    ASSUME INCREMENT < 2^64, MaxMarkets * INCREMENT <= MaxU64
    PROVE  Spec => []DemandInv
<1> USE GovernanceAssumption
<1>1. Init => DemandInv
  <2> SUFFICES ASSUME Init PROVE DemandInv
    OBVIOUS
  <2>1. TypeOK
    BY DEF Init, TypeOK
  <2>2. FloorsAnswer
    BY DEF Init, FloorsAnswer
  <2>3. QED
    BY <2>1, <2>2 DEF Init, DemandInv
<1>2. DemandInv /\ TypeOK' /\ [Next]_vars => DemandInv'
  <2> SUFFICES ASSUME DemandInv, TypeOK', [Next]_vars PROVE DemandInv'
    OBVIOUS
  <2>1. ASSUME NEW signer \in Keys, NEW authority \in Keys, NEW fee \in FeeRates,
               NEW curve \in Curves, InitConfig(signer, authority, fee, curve)
        PROVE  DemandInv'
    <3>1. markets = <<>> /\ markets' = <<>> /\ now' = now /\ Len(markets) = 0 /\ now \in Nat
      BY <2>1 DEF InitConfig, DemandInv, TypeOK
    <3>2. config'.market_creation_ema = 0 /\ config'.last_market_creation_unix = 0
      BY <2>1 DEF InitConfig
    <3>3. MostOf(markets', 0, 0) = 0
      <4>1. 1..0 = {}
        OBVIOUS
      <4>2. QED
        BY <4>1, TotalOfNone DEF MostOf
    <3>4. 0 * MostScale = 0 /\ 0 * INCREMENT = 0
      BY ScalesPositive, FloorAssumption
    <3>5. Measured'
      BY <3>1, <3>2, <3>3, <3>4 DEF Measured
    <3>6. FloorsAnswer'
      BY <3>1 DEF FloorsAnswer
    <3>7. QED
      BY <3>1, <3>5, <3>6 DEF DemandInv
  <2>2. ASSUME NEW signer \in Keys, NEW fee \in FeeRates, NEW curve \in Curves,
               UpdateConfig(signer, fee, curve)
        PROVE  DemandInv'
    <3>1. /\ config # NoConfig /\ config \in Config /\ markets' = markets /\ now' = now
      BY <2>2 DEF UpdateConfig, DemandInv, TypeOK
    <3>2. /\ config'.market_creation_ema = config.market_creation_ema
          /\ config'.last_market_creation_unix = config.last_market_creation_unix
      BY <2>2, <3>1 DEF UpdateConfig, Config
    <3>3. Measured'
      BY <3>1, <3>2 DEF DemandInv, Measured
    <3>4. FloorsAnswer'
      BY <3>1 DEF DemandInv, FloorsAnswer, AtMost
    <3>5. config' # NoConfig \/ markets' = <<>>
      <4>1. fee \in 0..MAX_FEE_BPS /\ curve \in Curve
        BY <2>2 DEF UpdateConfig, FeeAllowed
      <4>2. config' \in Config
        BY <2>2, <3>1, <4>1 DEF UpdateConfig, Config
      <4>3. QED
        BY <4>2 DEF Config, NoConfig
    <3>6. QED
      BY <3>1, <3>3, <3>4, <3>5 DEF DemandInv
  <2>3. CASE CreateMarket
    <3>1. Measured'
      BY <2>3, MeasuredAtBirth
    <3>2. FloorsAnswer'
      BY <2>3, FloorAnswersAtBirth
    <3>3. /\ config # NoConfig /\ config \in Config /\ now' = now /\ Len(markets) < MaxMarkets
          /\ markets \in Seq(Terms)
      BY <2>3 DEF CreateMarket, DemandInv, TypeOK
    <3>4. Len(markets') = Len(markets) + 1 /\ Len(markets) \in Nat
      BY <2>3, <3>3 DEF CreateMarket
    <3>5. Len(markets') <= MaxMarkets
      BY <3>3, <3>4
    <3>6. config' # NoConfig
      <4>1. config' \in Config
        <5>1. BumpedMarketEma(Activity) \in 0..MaxU64
          BY <3>3, ActivityIs, BumpRaises DEF DemandInv
        <5>2. now \in Nat
          BY DEF DemandInv, TypeOK
        <5>3. config' = [config EXCEPT !.market_creation_ema = BumpedMarketEma(Activity),
                                       !.last_market_creation_unix = now]
          BY <2>3 DEF CreateMarket
        <5>4. config \in Config
          BY <3>3
        <5>5. QED
          BY <5>1, <5>2, <5>3, <5>4 DEF Config
      <4>2. QED
        BY <4>1 DEF Config, NoConfig
    <3>7. QED
      BY <3>1, <3>2, <3>3, <3>5, <3>6 DEF DemandInv
  <2>4. ASSUME NEW d \in Waits, Wait(d) PROVE DemandInv'
    <3>1. /\ config' = config /\ markets' = markets /\ now' <= MaxTime
          /\ now \in Nat /\ now <= now' /\ now' \in Nat
      BY <2>4 DEF Wait, DemandInv, TypeOK
    <3>2. config # NoConfig => Measured'
      <4>1. SUFFICES ASSUME config # NoConfig PROVE Measured'
        OBVIOUS
      <4>2. config.last_market_creation_unix \in Nat /\ config.last_market_creation_unix <= now
        BY <4>1 DEF DemandInv, TypeOK, Config, Measured
      <4>3. config.last_market_creation_unix <= now'
        BY <3>1, <4>2
      <4>4. QED
        BY <3>1, <4>1, <4>3 DEF DemandInv, Measured
    <3>3. FloorsAnswer'
      BY <3>1 DEF DemandInv, FloorsAnswer, AtMost
    <3>4. QED
      BY <3>1, <3>2, <3>3 DEF DemandInv
  <2>5. CASE UNCHANGED vars
    <3>1. config' = config /\ markets' = markets /\ now' = now
      BY <2>5 DEF vars
    <3>2. FloorsAnswer'
      BY <3>1 DEF DemandInv, FloorsAnswer, AtMost
    <3>3. Measured <=> Measured'
      BY <3>1 DEF Measured
    <3>4. QED
      BY <3>1, <3>2, <3>3 DEF DemandInv
  <2>6. QED
    BY <2>1, <2>2, <2>3, <2>4, <2>5 DEF Next
<1>3. QED
  BY <1>1, <1>2, GovernanceTyped, PTL DEF Spec

\* The stored average is the demand of the creations so far and of nothing
\* else, for any half-life and increment, any spacing of the creations and
\* whatever governance retunes in between: it lies between two measures of
\* their ages, and every market's floor answers to the demand before it.  The
\* increment fits a u64, and the creations there can be do not saturate the
\* average (INCREMENT is 10^9, so that takes 1.8 * 10^10 of them).
THEOREM DemandMeasured ==
    ASSUME INCREMENT < 2^64, MaxMarkets * INCREMENT <= MaxU64
    PROVE  Spec => []ActivityMeasuresDemand
<1>1. DemandInv => ActivityMeasuresDemand
  <2> SUFFICES ASSUME DemandInv PROVE ActivityMeasuresDemand
    OBVIOUS
  <2>1. ASSUME config # NoConfig
        PROVE  /\ Activity <= AtMost(Len(markets) + 1, now)
               /\ Activity + 2 * Len(markets) >= AtLeast(Len(markets) + 1, now)
    BY <2>1, ActivityBetween
  <2>2. FloorsAnswer
    BY DEF DemandInv
  <2>3. QED
    BY <2>1, <2>2 DEF ActivityMeasuresDemand, FloorsAnswer
<1>2. QED
  BY <1>1, DemandInvariant, PTL

(***************************************************************************)
(* The accounts side by side                                               *)
(***************************************************************************)
\* A behaviour of the accounts side by side is one of each, and so every
\* account keeps the type of its layout, and the fee its cap, in all of them.
THEOREM AccountsTyped == AccountsSpec => []AccountsTypeOK
<1> DEFINE all == <<vars, sessionVars, listVars>>
<1>1. AccountsInit => Init /\ SessionInit
  BY DEF AccountsInit
<1>2. [AccountsNext]_all => [Next]_vars
  BY DEF AccountsNext
<1>3. [AccountsNext]_all => [SessionNext]_sessionVars
  BY DEF AccountsNext
<1>4. AccountsSpec => Spec /\ SessionSpec
  BY <1>1, <1>2, <1>3, PTL DEF AccountsSpec, Spec, SessionSpec
<1>5. SessionInv => SessionTypeOK
  BY DEF SessionInv
<1>6. QED
  BY <1>4, <1>5, GovernanceTyped, SessionInvariant, PTL DEF AccountsTypeOK
=============================================================================
