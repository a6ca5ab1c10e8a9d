----------------------------- MODULE PageProofs -----------------------------
(***************************************************************************)
(* What the page of a market says, against what then happens.              *)
(*                                                                         *)
(* The fee: it never cuts into what was contributed, and is its rate of    *)
(* the profit to within two LP, whatever the amounts.                      *)
(*                                                                         *)
(* The tickets: a transaction is a fold over one instruction or two, and   *)
(* so comes down to what each does (SplitIs, SwapIs, MergeIs, AddRuns).    *)
(* The pool pays exactly what the page estimates off it (EstimateIs), and  *)
(* TradeInv keeps how a ticket in flight was quoted: that is all that is   *)
(* left of it once the pool has moved on.                                  *)
(*                                                                         *)
(* The reads: what is shown never goes back, whatever order the answers    *)
(* come in, for at most one run of reads per page is live.                 *)
(***************************************************************************)
EXTENDS FeeMath, Trading, PageReads, SharesProofs

(***************************************************************************)
(* The fee                                                                 *)
(***************************************************************************)

FeeMathType ==
    /\ lp_total \in Nat /\ total_contributed \in Nat /\ fee_bps \in 0..BpsScale
    /\ base \in Nat /\ quote \in Nat
    /\ supply \in Nat /\ supply > 0
    /\ payout.yes \in Nat /\ payout.no \in Nat /\ payout.yes + payout.no > 0

LEMMA FeeMathTypeCorrect == Spec => []FeeMathType
<1>1. Init => FeeMathType
  BY FeeMathAssumption DEF Init, FeeMathType, MAX_FEE_BPS, BpsScale
<1>2. FeeMathType /\ [Next]_vars => FeeMathType'
  BY DEF FeeMathType, Next, vars
<1>3. QED
  BY <1>1, <1>2, PTL DEF Spec

\* Whatever the market, the pool and the verdict, the LP left after the fee is
\* still worth all that was contributed.
THEOREM PrincipalSpared == Spec => []FeeSparesPrincipal
<1>1. FeeMathType => FeeSparesPrincipal
  <2> SUFFICES ASSUME FeeMathType, fee_lp > 0
               PROVE  (lp_total - fee_lp) * pool_value >= total_contributed * supply
    BY DEF FeeSparesPrincipal
  <2>1. pool_value \in Nat
    BY PoolValueNat DEF FeeMathType, pool_value
  <2> HIDE DEF pool_value
  <2>2. QED
    BY <2>1, FeeSparesContributions DEF FeeMathType, fee_lp
<1>2. QED
  BY <1>1, FeeMathTypeCorrect, PTL

\* Two floor divisions in a row lose less than two.
LEMMA TwoFloors ==
    ASSUME NEW x \in Nat, NEW r \in Nat, r > 0, NEW k \in Nat, NEW z \in Nat, z > 0, k <= z
    PROVE  LET f == ((x \div r) * k) \div z
           IN  /\ f \in Nat
               /\ f * (r * z) <= x * k
               /\ x * k < (f + 2) * (r * z)
<1> DEFINE q == x \div r
           f == (q * k) \div z
<1>1. q \in Nat /\ q * r <= x /\ x < (q + 1) * r
  BY DivFloor
<1> HIDE DEF q
<1>2. q * k \in Nat
  BY <1>1, ProductNat
<1>3. f \in Nat /\ f * z <= q * k /\ q * k < (f + 1) * z
  BY <1>2, DivFloor
<1> HIDE DEF f
<1>4. /\ q * r \in Nat /\ (q + 1) * r \in Nat /\ f * z \in Nat /\ (f + 1) * z \in Nat
      /\ x * k \in Nat /\ r * z \in Nat /\ q * k + 1 \in Nat
  BY <1>1, <1>2, <1>3, ProductNat
<1>5. /\ (q * r) * k <= x * k /\ x * k <= ((q + 1) * r) * k
      /\ (f * z) * r <= (q * k) * r /\ (q * k + 1) * r <= ((f + 1) * z) * r
      /\ k * r <= z * r
  BY <1>1, <1>2, <1>3, <1>4, ProductMonotone
<1>6. /\ (q * r) * k = (q * k) * r /\ ((q + 1) * r) * k = (q * k) * r + k * r
      /\ (f * z) * r = f * (r * z) /\ (q * k + 1) * r = (q * k) * r + r
      /\ ((f + 1) * z) * r = f * (r * z) + r * z /\ z * r = r * z
      /\ (f + 2) * (r * z) = f * (r * z) + r * z + r * z
  BY <1>1, <1>3
<1>7. (q * k) * r \in Nat /\ f * (r * z) \in Nat /\ k * r \in Nat
  BY <1>1, <1>2, <1>3, <1>4, ProductNat
<1>8. f * (r * z) <= x * k /\ x * k < (f + 2) * (r * z)
  <2> DEFINE a == f * (r * z)
             b == x * k
             c == (q * k) * r
             d == r * z
  <2>1. a \in Nat /\ b \in Nat /\ c \in Nat /\ d \in Nat /\ k * r \in Nat
    BY <1>4, <1>7
  <2>2. /\ c <= b /\ b <= c + k * r /\ a <= c /\ c + r <= a + d /\ k * r <= d
        /\ (f + 2) * d = a + d + d
    BY <1>5, <1>6
  <2> HIDE DEF a, b, c, d
  <2>3. a <= b /\ b < a + d + d
    BY <2>1, <2>2
  <2>4. QED
    BY <2>2, <2>3 DEF a, b, d
<1>9. QED
  BY <1>3, <1>8 DEF f, q

\* The fee is fee_bps of the profit, to within two LP, and none is cut where
\* there is no profit.
THEOREM FeeKeepsRate == Spec => []FeeIsRate
<1>1. FeeMathType => FeeIsRate
  <2> SUFFICES ASSUME FeeMathType PROVE FeeIsRate
    OBVIOUS
  <2>1. pool_value \in Nat
    BY PoolValueNat DEF FeeMathType, pool_value
  <2>2. lp_total * pool_value \in Nat
    BY <2>1, ProductNat DEF FeeMathType
  <2>3. realized \in Nat
    BY <2>2, DivFloor DEF FeeMathType, realized, RealizedFull
  <2>4. accrued \in Nat /\ (accrued # 0 => realized > 0)
    BY <2>3 DEF FeeMathType, accrued, Accrued
  <2>5. fee_lp = IF accrued = 0
                 THEN 0
                 ELSE (((lp_total * accrued) \div realized) * fee_bps) \div BpsScale
    BY DEF fee_lp, FeeLp, accrued, realized
  <2> HIDE DEF realized, accrued, fee_lp, pool_value
  <2>6. CASE accrued = 0
    BY <2>5, <2>6 DEF FeeIsRate
  <2>7. CASE accrued # 0
    <3>1. /\ lp_total * accrued \in Nat /\ realized \in Nat /\ realized > 0
          /\ fee_bps \in Nat /\ BpsScale \in Nat /\ BpsScale > 0 /\ fee_bps <= BpsScale
      BY <2>3, <2>4, <2>7, ProductNat DEF FeeMathType, BpsScale
    <3>2. /\ fee_lp * (realized * BpsScale) <= (lp_total * accrued) * fee_bps
          /\ (lp_total * accrued) * fee_bps < (fee_lp + 2) * (realized * BpsScale)
      BY <2>5, <2>7, <3>1, TwoFloors, Zenon
    <3>3. QED
      BY <2>7, <3>2 DEF FeeIsRate, ExactFee
  <2>8. QED
    BY <2>6, <2>7
<1>2. QED
  BY <1>1, FeeMathTypeCorrect, PTL

(***************************************************************************)
(* Transactions of one instruction and of two                              *)
(***************************************************************************)
RunAll(c, ixs) == FoldLeft(RunIx, c, ixs)

LEMMA RunOne ==
    ASSUME NEW c, NEW a
    PROVE  RunAll(c, <<a>>) = RunIx(c, a)
<1> DEFINE q       == <<a>>
           Iter(f) == [s \in SUBSET (DOMAIN q) |->
                         IF s = {} THEN c ELSE RunIx(f[s \ {Max(s)}], q[Max(s)])]
           iter    == CHOOSE f : f = Iter(f)
           g       == [s \in SUBSET (DOMAIN q) |-> IF s = {} THEN c ELSE RunIx(c, a)]
<1>1. RunAll(c, <<a>>) = iter[DOMAIN q]
  BY Zenon DEF RunAll, FoldLeft, MapThenFoldSet
<1>2. DOMAIN q = {1} /\ q[1] = a /\ Max({1}) = 1
  BY DEF Max
<1>3. \A s \in SUBSET (DOMAIN q) : s = {} \/ s = {1}
  BY <1>2
<1>4. g = Iter(g)
  <2>1. \A s \in SUBSET (DOMAIN q) : g[s] = Iter(g)[s]
    <3>1. g[{}] = c /\ Iter(g)[{}] = c
      OBVIOUS
    <3>2. g[{1}] = RunIx(c, a)
      BY <1>2
    <3>3. {1} \ {Max({1})} = {} /\ {1} \in SUBSET (DOMAIN q)
      BY <1>2
    <3>4. Iter(g)[{1}] = RunIx(c, a)
      BY <1>2, <3>1, <3>3
    <3>5. QED
      BY <1>3, <3>1, <3>2, <3>4
  <2>2. QED
    BY <2>1
<1>5. iter = Iter(iter)
  <2> HIDE DEF Iter, g
  <2>1. \E f : f = Iter(f)
    BY <1>4
  <2>2. QED
    BY <2>1
<1> HIDE DEF iter, g
<1>6. iter[{}] = c
  BY <1>5
<1>7. {1} \ {Max({1})} = {} /\ {1} \in SUBSET (DOMAIN q) /\ {1} # {}
  BY <1>2
<1>8. iter[{1}] = RunIx(iter[{1} \ {Max({1})}], q[Max({1})])
  BY <1>5, <1>7
<1>9. QED
  BY <1>1, <1>2, <1>6, <1>7, <1>8

LEMMA RunTwo ==
    ASSUME NEW c, NEW a, NEW b
    PROVE  RunAll(c, <<a, b>>) = RunIx(RunIx(c, a), b)
<1> DEFINE q       == <<a, b>>
           Iter(f) == [s \in SUBSET (DOMAIN q) |->
                         IF s = {} THEN c ELSE RunIx(f[s \ {Max(s)}], q[Max(s)])]
           iter    == CHOOSE f : f = Iter(f)
           g       == [s \in SUBSET (DOMAIN q) |->
                         IF s = {} THEN c
                         ELSE IF s = {1} THEN RunIx(c, a)
                         ELSE IF s = {2} THEN RunIx(c, b)
                         ELSE RunIx(RunIx(c, a), b)]
<1>1. RunAll(c, <<a, b>>) = iter[DOMAIN q]
  BY Zenon DEF RunAll, FoldLeft, MapThenFoldSet
<1>2. /\ DOMAIN q = {1, 2} /\ q[1] = a /\ q[2] = b
      /\ Max({1}) = 1 /\ Max({2}) = 2 /\ Max({1, 2}) = 2
  BY DEF Max
<1>3. /\ \A s \in SUBSET (DOMAIN q) : s \in {{}, {1}, {2}, {1, 2}}
      /\ {} \in SUBSET (DOMAIN q) /\ {1} \in SUBSET (DOMAIN q)
      /\ {2} \in SUBSET (DOMAIN q) /\ {1, 2} \in SUBSET (DOMAIN q)
  <2>1. DOMAIN q = {1, 2}
    BY <1>2
  <2> HIDE DEF q
  <2>2. ASSUME NEW s \in SUBSET {1, 2} PROVE s \in {{}, {1}, {2}, {1, 2}}
    OBVIOUS
  <2>3. QED
    BY <2>1, <2>2
<1>4. {1} \ {Max({1})} = {} /\ {2} \ {Max({2})} = {} /\ {1, 2} \ {Max({1, 2})} = {1}
  BY <1>2
<1> DEFINE Steps(f) ==
        /\ f[{}] = c
        /\ f[{1}] = RunIx(f[{}], a)
        /\ f[{2}] = RunIx(f[{}], b)
        /\ f[{1, 2}] = RunIx(f[{1}], b)
<1>5. ASSUME NEW f PROVE /\ Iter(f)[{}] = c
                         /\ Iter(f)[{1}] = RunIx(f[{}], a)
                         /\ Iter(f)[{2}] = RunIx(f[{}], b)
                         /\ Iter(f)[{1, 2}] = RunIx(f[{1}], b)
  <2>1. \A s \in SUBSET (DOMAIN q) : s # {} =>
          Iter(f)[s] = RunIx(f[s \ {Max(s)}], q[Max(s)])
    OBVIOUS
  <2>2. Iter(f)[{}] = c
    BY <1>3
  <2> HIDE DEF Iter, q
  <2>3. {1} # {} /\ {2} # {} /\ {1, 2} # {}
    OBVIOUS
  <2>4. Iter(f)[{1}] = RunIx(f[{1} \ {Max({1})}], q[Max({1})])
    BY <1>3, <2>1, <2>3
  <2>5. Iter(f)[{2}] = RunIx(f[{2} \ {Max({2})}], q[Max({2})])
    BY <1>3, <2>1, <2>3
  <2>6. Iter(f)[{1, 2}] = RunIx(f[{1, 2} \ {Max({1, 2})}], q[Max({1, 2})])
    BY <1>3, <2>1, <2>3
  <2>7. QED
    BY <1>2, <1>4, <2>2, <2>4, <2>5, <2>6
<1>6. g = Iter(g)
  <2>1. Steps(g)
    <3>1. {} # {1} /\ {2} # {1} /\ {1, 2} # {1} /\ {1, 2} # {2}
          /\ {} # {2} /\ {} # {1, 2}
      OBVIOUS
    <3>2. QED
      BY <1>3, <3>1
  <2>2. \A s \in SUBSET (DOMAIN q) : g[s] = Iter(g)[s]
    <3> HIDE DEF Iter, g, q
    <3>1. /\ Iter(g)[{}] = g[{}] /\ Iter(g)[{1}] = g[{1}]
          /\ Iter(g)[{2}] = g[{2}] /\ Iter(g)[{1, 2}] = g[{1, 2}]
      BY <1>5, <2>1
    <3>2. QED
      BY <1>3, <3>1, Zenon
  <2>3. DOMAIN g = SUBSET (DOMAIN q) /\ DOMAIN Iter(g) = SUBSET (DOMAIN q)
    OBVIOUS
  <2>4. g = [s \in SUBSET (DOMAIN q) |-> g[s]]
        /\ Iter(g) = [s \in SUBSET (DOMAIN q) |-> Iter(g)[s]]
    OBVIOUS
  <2> HIDE DEF g, Iter, q
  <2>5. QED
    BY <2>2, <2>4
<1>7. iter = Iter(iter)
  <2> HIDE DEF Iter, g
  <2>1. \E f : f = Iter(f)
    BY <1>6
  <2>2. QED
    BY <2>1
<1>8. Steps(iter)
  <2> HIDE DEF iter, Iter
  <2>1. QED
    BY <1>5, <1>7
<1> HIDE DEF iter, Iter, g
<1>9. QED
  BY <1>1, <1>2, <1>8

LEMMA FirstOfTwo ==
    ASSUME NEW a, NEW b
    PROVE  SubSeq(<<a, b>>, 1, 1) = <<a>>
<1> DEFINE q == <<a, b>>
           f == SubSeq(q, 1, 1)
           S == {a, b}
<1>1. q \in Seq(S) /\ q[1] = a /\ Len(q) = 2
  OBVIOUS
<1> HIDE DEF q, S
<1>2. f \in Seq(S) /\ Len(f) = 1 /\ f[1] = q[1]
  BY <1>1
<1> HIDE DEF f
<1>3. f = <<a>>
  BY <1>1, <1>2
<1>4. QED
  BY <1>3 DEF f, q

(***************************************************************************)
(* Quotes                                                                  *)
(***************************************************************************)
\* A pool pays something, and never all it has.
LEMMA PaysOut ==
    ASSUME NEW in \in Nat \ {0}, NEW out \in Nat \ {0}, NEW after \in Nat
    PROVE  /\ (after * out) \div (in + after) \in Nat
           /\ (after * out) \div (in + after) < out
<1> DEFINE paid == (after * out) \div (in + after)
           all  == in + after
<1>1. all \in Nat /\ all > 0 /\ after * out \in Nat
  BY ProductNat
<1>2. paid \in Nat /\ paid * all <= after * out
  BY <1>1, DivFloor
<1>3. out * all = in * out + after * out
  OBVIOUS
<1>4. in * out \in Nat /\ in * out > 0
  <2>1. 1 * out <= in * out
    BY ProductMonotone
  <2>2. in * out \in Nat
    BY ProductNat
  <2>3. QED
    BY <2>1, <2>2
<1> HIDE DEF paid, all
<1>5. SUFFICES ASSUME out <= paid PROVE FALSE
  BY <1>2 DEF paid, all
<1>6. out * all <= paid * all
  BY <1>1, <1>2, <1>5, ProductMonotone
<1>7. QED
  <2>1. paid * all \in Nat /\ out * all \in Nat
    BY <1>1, <1>2, ProductNat
  <2>2. QED
    BY <1>1, <1>2, <1>3, <1>4, <1>6, <2>1

\* The fee in basis points is the pool's fee in percent.
LEMMA SameFee ==
    ASSUME NEW amount \in Nat
    PROVE  /\ (amount * (Bps - AMM_FEE_BPS)) \div Bps = (amount * 99) \div 100
           /\ (amount * 99) \div 100 \in Nat
BY DEF Bps, AMM_FEE_BPS

\* With any tolerance the floor is no more than the estimate.
LEMMA FloorBelowEstimate ==
    ASSUME NEW estimate \in Nat, NEW bps \in 0..Bps
    PROVE  /\ MinOutFromSlippage(estimate, bps) \in Nat
           /\ MinOutFromSlippage(estimate, bps) <= estimate
<1> DEFINE part == Bps - bps
<1>1. part \in Nat /\ part <= Bps /\ Bps \in Nat /\ Bps > 0
  BY DEF Bps
<1>2. MinOutFromSlippage(estimate, bps) = (estimate * part) \div Bps
  BY DEF MinOutFromSlippage
<1> HIDE DEF part
<1>3. estimate * part \in Nat
  BY <1>1, ProductNat
<1>4. QED
  BY <1>1, <1>2, <1>3, DivBound, DivFloor

\* What a swap does: the input goes in, what the curve gives for it comes out.
Paid(c, type, input) ==
    LET in  == IF type = "Buy" THEN c.pool.quote ELSE c.pool.base
        out == IF type = "Buy" THEN c.pool.base ELSE c.pool.quote
    IN  ((((input * 99) \div 100) * out) \div (in + ((input * 99) \div 100)))

Chain == [pool : Pool, purse : Purse]

LEMMA ChainIsNotFailed ==
    ASSUME NEW c \in Chain
    PROVE  /\ c # Failed
           /\ c.pool \in Pool /\ c.purse \in Purse
           /\ c.pool.base \in Nat \ {0} /\ c.pool.quote \in Nat \ {0}
           /\ c.pool.supply \in Nat \ {0}
           /\ c.purse.sol \in Nat /\ c.purse.yes \in Nat /\ c.purse.no \in Nat
BY TradingAssumption DEF Chain, Failed, Pool, Purse

LEMMA PaidIs ==
    ASSUME NEW c \in Chain, NEW type \in {"Buy", "Sell"}, NEW input \in Nat
    PROVE  /\ Paid(c, type, input) \in Nat
           /\ type = "Buy" => Paid(c, type, input) < c.pool.base
           /\ type = "Sell" => Paid(c, type, input) < c.pool.quote
<1> DEFINE after == (input * 99) \div 100
           in  == IF type = "Buy" THEN c.pool.quote ELSE c.pool.base
           out == IF type = "Buy" THEN c.pool.base ELSE c.pool.quote
<1>1. after \in Nat
  BY SameFee
<1>2. in \in Nat \ {0} /\ out \in Nat \ {0}
  BY ChainIsNotFailed
<1>3. Paid(c, type, input) = (after * out) \div (in + after)
  BY DEF Paid
<1> HIDE DEF after, in, out
<1>4. Paid(c, type, input) \in Nat /\ Paid(c, type, input) < out
  BY <1>1, <1>2, <1>3, PaysOut
<1>5. QED
  BY <1>4 DEF out

\* A swap goes through if the trader holds its input and the pool pays the
\* floor.
LEMMA SwapIs ==
    ASSUME NEW c \in Chain, NEW type \in {"Buy", "Sell"}, NEW input \in Nat, NEW least \in Nat
    PROVE  LET own    == IF type = "Buy" THEN c.purse.no ELSE c.purse.yes
               paid   == Paid(c, type, input)
               result == Swap(c, SwapIx(type, input, least))
           IN  IF input = 0 \/ own < input \/ paid < least
               THEN result = Failed
               ELSE /\ result \in Chain
                    /\ result.purse.sol = c.purse.sol
                    /\ type = "Buy" => /\ result.purse.no = c.purse.no - input
                                       /\ result.purse.yes = c.purse.yes + paid
                    /\ type = "Sell" => /\ result.purse.yes = c.purse.yes - input
                                        /\ result.purse.no = c.purse.no + paid
<1> DEFINE own    == IF type = "Buy" THEN c.purse.no ELSE c.purse.yes
           paid   == Paid(c, type, input)
           ix     == SwapIx(type, input, least)
           result == Swap(c, ix)
<1>1. /\ ix.type = type /\ ix.input = input /\ ix.outputMin = least
  BY DEF SwapIx
<1>2. /\ paid \in Nat
      /\ type = "Buy" => paid < c.pool.base
      /\ type = "Sell" => paid < c.pool.quote
  BY PaidIs
<1>3. CASE input = 0 \/ own < input \/ paid < least
  BY <1>1, <1>3 DEF Swap, Paid
<1>4. CASE type = "Buy" /\ ~(input = 0 \/ own < input \/ paid < least)
  <2> DEFINE p == [c.pool EXCEPT !.quote = @ + input, !.base = @ - paid]
             w == [c.purse EXCEPT !.no = @ - input, !.yes = @ + paid]
  <2>1. result = [pool |-> p, purse |-> w]
    BY <1>1, <1>4 DEF Swap, Paid
  <2>2. p \in Pool
    <3>1. c.pool.quote + input \in Nat \ {0} /\ c.pool.base - paid \in Nat \ {0}
      BY <1>2, <1>4, ChainIsNotFailed
    <3> HIDE DEF paid
    <3>2. QED
      BY <3>1, ChainIsNotFailed DEF Pool
  <2>3. w \in Purse /\ w.sol = c.purse.sol /\ w.no = c.purse.no - input
        /\ w.yes = c.purse.yes + paid
    <3>1. c.purse.no - input \in Nat /\ c.purse.yes + paid \in Nat
      BY <1>2, <1>4, ChainIsNotFailed
    <3> HIDE DEF paid
    <3>2. QED
      BY <3>1, ChainIsNotFailed DEF Purse
  <2> HIDE DEF p, w
  <2>4. result \in Chain /\ result.purse = w
    BY <2>1, <2>2, <2>3 DEF Chain
  <2> HIDE DEF result, paid
  <2>5. QED
    BY <1>4, <2>3, <2>4 DEF paid, result, ix
<1>5. CASE type = "Sell" /\ ~(input = 0 \/ own < input \/ paid < least)
  <2> DEFINE p == [c.pool EXCEPT !.base = @ + input, !.quote = @ - paid]
             w == [c.purse EXCEPT !.yes = @ - input, !.no = @ + paid]
  <2>1. result = [pool |-> p, purse |-> w]
    BY <1>1, <1>5 DEF Swap, Paid
  <2>2. p \in Pool
    <3>1. c.pool.base + input \in Nat \ {0} /\ c.pool.quote - paid \in Nat \ {0}
      BY <1>2, <1>5, ChainIsNotFailed
    <3> HIDE DEF paid
    <3>2. QED
      BY <3>1, ChainIsNotFailed DEF Pool
  <2>3. w \in Purse /\ w.sol = c.purse.sol /\ w.yes = c.purse.yes - input
        /\ w.no = c.purse.no + paid
    <3>1. c.purse.yes - input \in Nat /\ c.purse.no + paid \in Nat
      BY <1>2, <1>5, ChainIsNotFailed
    <3> HIDE DEF paid
    <3>2. QED
      BY <3>1, ChainIsNotFailed DEF Purse
  <2> HIDE DEF p, w
  <2>4. result \in Chain /\ result.purse = w
    BY <2>1, <2>2, <2>3 DEF Chain
  <2> HIDE DEF result, paid
  <2>5. QED
    BY <1>5, <2>3, <2>4 DEF paid, result, ix
<1>6. QED
  BY <1>3, <1>4, <1>5

LEMMA SplitIs ==
    ASSUME NEW c \in Chain, NEW amount \in Nat
    PROVE  LET result == RunIx(c, SplitIx(amount))
           IN  IF c.purse.sol < amount
               THEN result = Failed
               ELSE /\ result \in Chain /\ result.pool = c.pool
                    /\ result.purse = [sol |-> c.purse.sol - amount,
                                       yes |-> c.purse.yes + amount,
                                       no  |-> c.purse.no + amount]
<1> DEFINE ix     == SplitIx(amount)
           result == RunIx(c, ix)
           w      == [sol |-> c.purse.sol - amount, yes |-> c.purse.yes + amount,
                      no |-> c.purse.no + amount]
<1>1. ix.ix = "split" /\ ix.amount = amount
  BY DEF SplitIx
<1>2. result = Split(c, ix)
  BY <1>1, ChainIsNotFailed DEF RunIx
<1>3. CASE c.purse.sol < amount
  BY <1>1, <1>2, <1>3 DEF Split
<1>4. CASE ~(c.purse.sol < amount)
  <2>1. w \in Purse
    BY <1>4, ChainIsNotFailed DEF Purse
  <2>2. result = [c EXCEPT !.purse = w]
    BY <1>1, <1>2, <1>4 DEF Split
  <2> HIDE DEF w, result
  <2>3. result \in Chain /\ result.pool = c.pool /\ result.purse = w
    BY <2>1, <2>2 DEF Chain
  <2>4. QED
    BY <1>4, <2>3 DEF w, result, ix
<1>5. QED
  BY <1>3, <1>4

LEMMA MergeIs ==
    ASSUME NEW c \in Chain, NEW amount \in Nat
    PROVE  LET result == RunIx(c, MergeIx(amount))
           IN  IF c.purse.yes < amount \/ c.purse.no < amount
               THEN result = Failed
               ELSE /\ result \in Chain /\ result.pool = c.pool
                    /\ result.purse = [sol |-> c.purse.sol + amount,
                                       yes |-> c.purse.yes - amount,
                                       no  |-> c.purse.no - amount]
<1> DEFINE ix     == MergeIx(amount)
           result == RunIx(c, ix)
           w      == [sol |-> c.purse.sol + amount, yes |-> c.purse.yes - amount,
                      no |-> c.purse.no - amount]
<1>1. ix.ix = "merge" /\ ix.amount = amount
  BY DEF MergeIx
<1>2. result = Merge(c, ix)
  BY <1>1, ChainIsNotFailed DEF RunIx
<1>3. CASE c.purse.yes < amount \/ c.purse.no < amount
  BY <1>1, <1>2, <1>3 DEF Merge
<1>4. CASE ~(c.purse.yes < amount \/ c.purse.no < amount)
  <2>1. w \in Purse
    BY <1>4, ChainIsNotFailed DEF Purse
  <2>2. result = [c EXCEPT !.purse = w]
    BY <1>1, <1>2, <1>4 DEF Merge
  <2> HIDE DEF w, result
  <2>3. result \in Chain /\ result.pool = c.pool /\ result.purse = w
    BY <2>1, <2>2 DEF Chain
  <2>4. QED
    BY <1>4, <2>3 DEF w, result, ix
<1>5. QED
  BY <1>3, <1>4

LEMMA SwapRuns ==
    ASSUME NEW c, NEW type, NEW input, NEW least
    PROVE  RunIx(c, SwapIx(type, input, least)) =
             IF c = Failed THEN Failed ELSE Swap(c, SwapIx(type, input, least))
<1>1. SwapIx(type, input, least).ix = "swap"
  BY DEF SwapIx
<1>2. QED
  BY <1>1 DEF RunIx

LEMMA FailedStays ==
    ASSUME NEW ix
    PROVE  RunIx(Failed, ix) = Failed
BY DEF RunIx

\* What the page estimates off a pool is what that pool pays.
LEMMA EstimateIs ==
    ASSUME NEW c \in Chain, NEW type \in {"Buy", "Sell"}, NEW amount \in Nat
    PROVE  LET pair == ReservePair(c.pool, type = "Buy")
           IN  AmmSwapOut(amount, pair.in, pair.out) = Paid(c, type, amount)
<1>1. (amount * (Bps - AMM_FEE_BPS)) \div Bps = (amount * 99) \div 100
  BY SameFee
<1>2. CASE type = "Buy"
  <2>1. /\ ReservePair(c.pool, type = "Buy").in = c.pool.quote
        /\ ReservePair(c.pool, type = "Buy").out = c.pool.base
    BY <1>2 DEF ReservePair
  <2>2. c.pool.quote # 0
    BY ChainIsNotFailed
  <2>3. QED
    BY <1>1, <1>2, <2>1, <2>2 DEF AmmSwapOut, ConstantProductOut, Paid
<1>3. CASE type = "Sell"
  <2>1. /\ ReservePair(c.pool, type = "Buy").in = c.pool.base
        /\ ReservePair(c.pool, type = "Buy").out = c.pool.quote
    BY <1>3 DEF ReservePair
  <2>2. c.pool.base # 0
    BY ChainIsNotFailed
  <2>3. QED
    BY <1>1, <1>3, <2>1, <2>2 DEF AmmSwapOut, ConstantProductOut, Paid
<1>4. QED
  BY <1>2, <1>3

(***************************************************************************)
(* What becomes of a ticket                                                *)
(***************************************************************************)
BuySide(outcome)  == IF outcome = "yes" THEN "Buy" ELSE "Sell"
SellSide(outcome) == IF outcome = "yes" THEN "Sell" ELSE "Buy"

Own(w, outcome)   == IF outcome = "yes" THEN w.yes ELSE w.no
Other(w, outcome) == IF outcome = "yes" THEN w.no ELSE w.yes

LEMMA BuyRuns ==
    ASSUME NEW c \in Chain, NEW outcome \in {"yes", "no"}, NEW amount \in Nat \ {0},
           NEW min \in Nat
    PROVE  LET paid   == Paid(c, BuySide(outcome), amount)
               result == RunAll(c, BuyInstructions(outcome, amount, min))
           IN  IF c.purse.sol < amount \/ paid < min
               THEN result = Failed
               ELSE /\ result \in Chain
                    /\ result.purse.sol = c.purse.sol - amount
                    /\ Own(result.purse, outcome) = Own(c.purse, outcome) + amount + paid
                    /\ Other(result.purse, outcome) = Other(c.purse, outcome)
<1> DEFINE type   == BuySide(outcome)
           paid   == Paid(c, type, amount)
           d      == RunIx(c, SplitIx(amount))
           result == RunAll(c, BuyInstructions(outcome, amount, min))
<1>1. result = RunIx(d, SwapIx(type, amount, min))
  <2>1. BuyInstructions(outcome, amount, min) = <<SplitIx(amount), SwapIx(type, amount, min)>>
    BY DEF BuyInstructions, BuySide
  <2>2. result = RunAll(c, <<SplitIx(amount), SwapIx(type, amount, min)>>)
    BY <2>1
  <2> HIDE DEF type
  <2>3. QED
    BY <2>2, RunTwo
<1>2. type \in {"Buy", "Sell"}
  BY DEF BuySide
<1>3. /\ c.purse.sol \in Nat /\ c.purse.yes \in Nat /\ c.purse.no \in Nat
  BY ChainIsNotFailed
<1>4. CASE c.purse.sol < amount
  <2>1. d = Failed
    BY <1>4, SplitIs
  <2>2. result = Failed
    BY <1>1, <2>1, FailedStays
  <2>3. QED
    BY <1>4, <2>2
<1>5. CASE ~(c.purse.sol < amount)
  <2>1. /\ d \in Chain /\ d.pool = c.pool
        /\ d.purse = [sol |-> c.purse.sol - amount, yes |-> c.purse.yes + amount,
                      no |-> c.purse.no + amount]
    BY <1>5, SplitIs
  <2> HIDE DEF d
  <2>2. Paid(d, type, amount) = paid
    BY <2>1 DEF Paid
  <2>3. result = Swap(d, SwapIx(type, amount, min))
    BY <1>1, <2>1, SwapRuns, ChainIsNotFailed
  <2> HIDE DEF result, paid, type
  <2>4. ~((IF type = "Buy" THEN d.purse.no ELSE d.purse.yes) < amount) /\ amount # 0
    BY <1>3, <2>1
  <2>5. CASE paid < min
    <3>1. result = Failed
      BY <1>2, <2>1, <2>2, <2>3, <2>5, SwapIs
    <3>2. QED
      BY <2>5, <3>1 DEF result, paid, type
  <2>6. CASE ~(paid < min)
    <3>1. /\ result \in Chain
          /\ result.purse.sol = d.purse.sol
          /\ type = "Buy" => /\ result.purse.no = d.purse.no - amount
                             /\ result.purse.yes = d.purse.yes + paid
          /\ type = "Sell" => /\ result.purse.yes = d.purse.yes - amount
                              /\ result.purse.no = d.purse.no + paid
      BY <1>2, <2>1, <2>2, <2>3, <2>4, <2>6, SwapIs
    <3>2. paid \in Nat
      BY <1>2, PaidIs DEF paid
    <3>3. /\ result.purse.sol = c.purse.sol - amount
          /\ Own(result.purse, outcome) = Own(c.purse, outcome) + amount + paid
          /\ Other(result.purse, outcome) = Other(c.purse, outcome)
      BY <1>3, <2>1, <3>1, <3>2 DEF Own, Other, type, BuySide
    <3>4. QED
      BY <1>5, <2>6, <3>1, <3>3 DEF result, paid, type
  <2>7. QED
    BY <2>5, <2>6
<1>6. QED
  BY <1>4, <1>5

\* A sell fails by what the position is or by its swap: what the swap is sure
\* to pay covers the merge.
LEMMA SellRuns ==
    ASSUME NEW c \in Chain, NEW outcome \in {"yes", "no"}, NEW swap \in Nat \ {0},
           NEW merge \in Nat \ {0}, NEW min \in Nat, merge <= min
    PROVE  LET paid   == Paid(c, SellSide(outcome), swap)
               ixs    == SellInstructions(outcome, swap, merge, min)
               first  == RunAll(c, SubSeq(ixs, 1, 1))
               result == RunAll(c, ixs)
           IN  /\ paid < min => first = Failed
               /\ IF paid < min \/ Own(c.purse, outcome) < swap + merge
                  THEN result = Failed
                  ELSE /\ result \in Chain
                       /\ result.purse.sol = c.purse.sol + merge
                       /\ Own(result.purse, outcome) = Own(c.purse, outcome) - swap - merge
                       /\ Other(result.purse, outcome)
                              = Other(c.purse, outcome) + paid - merge
<1> DEFINE type   == SellSide(outcome)
           paid   == Paid(c, type, swap)
           ixs    == SellInstructions(outcome, swap, merge, min)
           d      == RunIx(c, SwapIx(type, swap, min))
           first  == RunAll(c, SubSeq(ixs, 1, 1))
           result == RunAll(c, ixs)
<1>1. ixs = <<SwapIx(type, swap, min), MergeIx(merge)>>
  BY DEF SellInstructions, SellSide
<1> HIDE DEF ixs
<1>2. result = RunIx(d, MergeIx(merge))
  <2>1. result = RunAll(c, <<SwapIx(type, swap, min), MergeIx(merge)>>)
    BY <1>1
  <2> HIDE DEF type
  <2>2. QED
    BY <2>1, RunTwo
<1>3. first = d
  <2>1. SubSeq(ixs, 1, 1) = <<SwapIx(type, swap, min)>>
    BY <1>1, FirstOfTwo
  <2>2. QED
    BY <2>1, RunOne, Zenon
<1>4. type \in {"Buy", "Sell"}
  BY DEF SellSide
<1>5. /\ c.purse.sol \in Nat /\ c.purse.yes \in Nat /\ c.purse.no \in Nat
  BY ChainIsNotFailed
<1>6. d = Swap(c, SwapIx(type, swap, min))
  BY SwapRuns, ChainIsNotFailed
<1>7. paid \in Nat
  BY <1>4, PaidIs
<1> DEFINE own == Own(c.purse, outcome)
<1>8. (IF type = "Buy" THEN c.purse.no ELSE c.purse.yes) = own /\ own \in Nat
  BY <1>5 DEF SellSide, Own
<1> HIDE DEF d, first, result, paid, type
<1>9. CASE paid < min \/ own < swap
  <2>1. d = Failed
    BY <1>4, <1>6, <1>8, <1>9, SwapIs DEF paid
  <2>2. result = Failed
    BY <1>2, <2>1, FailedStays
  <2>3. own < swap => own < swap + merge
    BY <1>8
  <2>4. QED
    BY <1>3, <1>9, <2>1, <2>2, <2>3 DEF paid, first, result, ixs, type
<1>10. CASE ~(paid < min \/ own < swap)
  <2>1. /\ d \in Chain
        /\ d.purse.sol = c.purse.sol
        /\ type = "Buy" => /\ d.purse.no = c.purse.no - swap
                           /\ d.purse.yes = c.purse.yes + paid
        /\ type = "Sell" => /\ d.purse.yes = c.purse.yes - swap
                            /\ d.purse.no = c.purse.no + paid
    BY <1>4, <1>6, <1>8, <1>10, SwapIs DEF paid
  <2>2. (d.purse.yes < merge \/ d.purse.no < merge) <=> own < swap + merge
    BY <1>5, <1>7, <1>8, <1>10, <2>1 DEF Own, type, SellSide
  <2>3. CASE own < swap + merge
    <3>1. RunIx(d, MergeIx(merge)) = Failed
      BY <2>1, <2>2, <2>3, MergeIs
    <3>2. QED
      BY <1>2, <1>10, <2>3, <3>1 DEF paid, first, result, ixs, type
  <2>4. CASE ~(own < swap + merge)
    <3>1. /\ result \in Chain
          /\ result.purse = [sol |-> d.purse.sol + merge, yes |-> d.purse.yes - merge,
                             no |-> d.purse.no - merge]
      BY <1>2, <2>1, <2>2, <2>4, MergeIs
    <3>2. /\ result.purse.sol = c.purse.sol + merge
          /\ Own(result.purse, outcome) = Own(c.purse, outcome) - swap - merge
          /\ Other(result.purse, outcome) = Other(c.purse, outcome) + paid - merge
      BY <1>5, <1>7, <2>1, <3>1 DEF Own, Other, type, SellSide
    <3>3. QED
      BY <1>10, <2>4, <3>1, <3>2 DEF paid, first, result, ixs, type
  <2>5. QED
    BY <2>3, <2>4
<1>11. QED
  BY <1>9, <1>10

\* The deposit the page asks for fits into what the depositor pays, and is
\* worth the LP expected.
LEMMA DepositFits ==
    ASSUME NEW at \in Pool, NEW amount \in Nat \ {0}, QuoteAmount(amount, at) > 0
    PROVE  /\ QuoteAmount(amount, at) \in Nat /\ QuoteAmount(amount, at) <= amount
           /\ (QuoteAmount(amount, at) * at.base) \div at.quote \in Nat
           /\ (QuoteAmount(amount, at) * at.base) \div at.quote < amount
<1> DEFINE baseIn  == at.base
           quoteIn == at.quote
           part    == (amount * quoteIn) \div baseIn
           whole   == Smaller(amount, part)
           q       == QuoteAmount(amount, at)
           less    == (q * baseIn) \div quoteIn
<1>1. baseIn \in Nat \ {0} /\ quoteIn \in Nat \ {0}
  BY DEF Pool
<1>2. amount * quoteIn \in Nat
  BY <1>1, ProductNat
<1>3. part \in Nat /\ part * baseIn <= amount * quoteIn
  BY <1>1, <1>2, DivFloor
<1>4. q = IF whole < 2 THEN 0 ELSE whole - 2
  BY DEF QuoteAmount
<1>5. whole \in Nat /\ whole <= amount /\ whole <= part
  BY <1>3 DEF Smaller
<1> HIDE DEF baseIn, quoteIn, part, whole, q
<1>6. q \in Nat /\ whole = q + 2 /\ q <= amount
  BY <1>4, <1>5 DEF q
<1>7. whole * baseIn <= amount * quoteIn
  <2>1. whole * baseIn <= part * baseIn
    BY <1>1, <1>3, <1>5, ProductMonotone
  <2>2. whole * baseIn \in Nat /\ part * baseIn \in Nat
    BY <1>1, <1>3, <1>5, ProductNat
  <2>3. QED
    BY <1>2, <1>3, <2>1, <2>2
<1>8. q * baseIn < amount * quoteIn /\ q * baseIn \in Nat
  <2>1. whole * baseIn = q * baseIn + 2 * baseIn
    BY <1>1, <1>6
  <2>2. q * baseIn \in Nat
    BY <1>1, <1>6, ProductNat
  <2>3. QED
    BY <1>1, <1>2, <1>7, <2>1, <2>2
<1>9. less \in Nat /\ less * quoteIn <= q * baseIn
  BY <1>1, <1>8, DivFloor
<1> HIDE DEF less
<1>10. less < amount
  <2>1. SUFFICES ASSUME amount <= less PROVE FALSE
    BY <1>9
  <2>2. amount * quoteIn <= less * quoteIn
    BY <1>1, <1>9, <2>1, ProductMonotone
  <2>3. less * quoteIn \in Nat
    BY <1>1, <1>9, ProductNat
  <2>4. QED
    BY <1>2, <1>8, <1>9, <2>2, <2>3
<1>11. QED
  BY <1>6, <1>9, <1>10 DEF less, q, baseIn, quoteIn

LEMMA AddRuns ==
    ASSUME NEW c \in Chain, NEW ix \in [ix : {"add"}, amount : Nat, quote : Nat,
                                       maxBase : Nat, minLp : Nat],
           ix.maxBase = ix.amount
    PROVE  LET result == RunAll(c, <<ix>>)
               baseIn == (ix.quote * c.pool.base) \div c.pool.quote
               lp_new == (ix.quote * c.pool.supply) \div c.pool.quote
           IN  IF \/ c.purse.sol < ix.amount \/ ix.quote = 0 \/ ix.quote > ix.amount
                  \/ baseIn + 1 > ix.maxBase \/ lp_new < ix.minLp \/ lp_new = 0
               THEN result = Failed
               ELSE /\ result \in Chain
                    /\ result.purse.sol = c.purse.sol - ix.amount
                    /\ result.purse.yes >= c.purse.yes
                    /\ result.purse.no >= c.purse.no
<1> DEFINE result == RunAll(c, <<ix>>)
           baseIn == (ix.quote * c.pool.base) \div c.pool.quote
           lp_new == (ix.quote * c.pool.supply) \div c.pool.quote
           fails  == \/ c.purse.sol < ix.amount \/ ix.quote = 0 \/ ix.quote > ix.amount
                     \/ baseIn + 1 > ix.maxBase \/ lp_new < ix.minLp \/ lp_new = 0
           p      == [base |-> c.pool.base + (baseIn + 1), quote |-> c.pool.quote + ix.quote,
                      supply |-> c.pool.supply + lp_new]
           w      == [sol |-> c.purse.sol - ix.amount,
                      yes |-> c.purse.yes + (ix.amount - (baseIn + 1)),
                      no  |-> c.purse.no + (ix.amount - ix.quote)]
<1>1. result = AddLiquidity(c, ix)
  <2>1. result = RunIx(c, ix)
    BY RunOne
  <2>2. QED
    BY <2>1, ChainIsNotFailed DEF RunIx
<1>2. CASE fails
  BY <1>1, <1>2 DEF AddLiquidity
<1>3. CASE ~fails
  <2>1. result = [pool |-> p, purse |-> w]
    BY <1>1, <1>3 DEF AddLiquidity
  <2>2. baseIn \in Nat /\ lp_new \in Nat
    <3>1. ix.quote * c.pool.base \in Nat /\ ix.quote * c.pool.supply \in Nat
      BY ProductNat, ChainIsNotFailed
    <3>2. c.pool.quote \in Nat /\ c.pool.quote > 0
      BY ChainIsNotFailed
    <3>3. QED
      BY <3>1, <3>2, DivFloor
  <2>3. /\ baseIn + 1 <= ix.amount /\ ix.quote <= ix.amount /\ ix.amount <= c.purse.sol
        /\ ix.quote \in Nat /\ ix.amount \in Nat
    <3>1. /\ ~(c.purse.sol < ix.amount) /\ ~(ix.quote > ix.amount)
          /\ ~(baseIn + 1 > ix.amount)
      BY <1>3
    <3> HIDE DEF baseIn, lp_new
    <3>2. QED
      BY <2>2, <3>1, ChainIsNotFailed
  <2> HIDE DEF baseIn, lp_new
  <2>4. p \in Pool
    BY <2>2, ChainIsNotFailed DEF Pool
  <2>5. w \in Purse /\ w.sol = c.purse.sol - ix.amount /\ w.yes >= c.purse.yes
        /\ w.no >= c.purse.no
    BY <2>2, <2>3, ChainIsNotFailed DEF Purse
  <2> HIDE DEF p, w, result
  <2>6. result \in Chain /\ result.purse = w
    BY <2>1, <2>4, <2>5 DEF Chain
  <2>7. QED
    BY <1>3, <2>5, <2>6 DEF result, baseIn, lp_new
<1>4. QED
  BY <1>2, <1>3

(***************************************************************************)
(* Tickets                                                                 *)
(***************************************************************************)
\* What the pool a ticket was quoted off would have paid.
Quote(at, type, input) == Paid([pool |-> at], type, input)

BuyTicket(t, outcome, amount, min) ==
    /\ t.asks = Asks("buy", outcome, amount, t.asks.slippageBps)
    /\ t.ixs = BuyInstructions(outcome, amount, min)
    /\ t.at \in Pool
    /\ min <= Quote(t.at, BuySide(outcome), amount)
    /\ min = BuyOutputMin(t.at, outcome, amount, t.asks.slippageBps)

SellTicket(t, outcome, amount, swap, merge, min) ==
    /\ t.asks = Asks("sell", outcome, amount, t.asks.slippageBps)
    /\ t.ixs = SellInstructions(outcome, swap, merge, min)
    /\ t.at \in Pool
    /\ merge <= min /\ min <= Quote(t.at, SellSide(outcome), swap)
    /\ swap + merge <= amount

AddTicket(t, amount) ==
    /\ t.asks = Asks("add", "both", amount, 100)
    /\ t.at \in Pool
    /\ t.ixs = AddLiquidityInstructions(amount, t.at, t.at.supply, 100)

IsBuy(t) == \E outcome \in {"yes", "no"}, amount \in Nat \ {0}, min \in Nat :
                BuyTicket(t, outcome, amount, min)
IsSell(t) == \E outcome \in {"yes", "no"}, amount \in Nat \ {0}, swap \in Nat \ {0},
                merge \in Nat \ {0}, min \in Nat :
                SellTicket(t, outcome, amount, swap, merge, min)
IsAdd(t) == \E amount \in Nat \ {0} : AddTicket(t, amount)

TradeInv ==
    /\ pool \in Pool /\ page \in Pool \cup {Null} /\ purse \in Purse
    /\ ticket # Null => IsBuy(ticket) \/ IsSell(ticket) \/ IsAdd(ticket)

Here == [pool |-> pool, purse |-> purse]

LEMMA HereIs ==
    ASSUME TradeInv
    PROVE  /\ Here \in Chain /\ Here.pool = pool /\ Here.purse = purse
           /\ \A ixs : Execute(ixs) = RunAll(Here, ixs)
           /\ \A type, input : Paid(Here, type, input) = Quote(pool, type, input)
BY DEF TradeInv, Here, Chain, Execute, RunAll, Paid, Quote

\* The fields of the instructions of a deposit.
AddIx(at, amount) == AddLiquidityInstructions(amount, at, at.supply, 100)[1]

LEMMA AddIxIs ==
    ASSUME NEW at \in Pool, NEW amount \in Nat \ {0}
    PROVE  LET ix       == AddIx(at, amount)
               expected == ExpectedLp(amount, at, at.supply)
           IN  /\ ix \in [ix : {"add"}, amount : Nat, quote : Nat, maxBase : Nat, minLp : Nat]
               /\ ix.amount = amount /\ ix.maxBase = amount
               /\ ix.quote = QuoteAmount(amount, at)
               /\ expected \in Nat
               /\ expected > 0 => ix.minLp <= expected
               /\ AddLiquidityInstructions(amount, at, at.supply, 100) = <<ix>>
<1> DEFINE ix       == AddIx(at, amount)
           q        == QuoteAmount(amount, at)
           expected == ExpectedLp(amount, at, at.supply)
           least    == MinOutFromSlippage(expected, 100)
           minLp    == IF least > 0 THEN least ELSE 1
           made     == [ix |-> "add", amount |-> amount, quote |-> q, maxBase |-> amount,
                        minLp |-> minLp]
<1>1. AddLiquidityInstructions(amount, at, at.supply, 100) = <<made>>
  BY DEF AddLiquidityInstructions
<1>2. ix = made
  <2> HIDE DEF made
  <2>1. QED
    BY <1>1 DEF AddIx
<1>3. at.base \in Nat \ {0} /\ at.quote \in Nat \ {0} /\ at.supply \in Nat \ {0}
  BY DEF Pool
<1>4. q \in Nat
  <2> DEFINE part  == (amount * at.quote) \div at.base
             whole == Smaller(amount, part)
  <2>1. part \in Nat
    <3>1. amount * at.quote \in Nat
      BY <1>3, ProductNat
    <3>2. QED
      BY <1>3, <3>1, DivFloor
  <2>2. whole \in Nat
    BY <2>1 DEF Smaller
  <2>3. q = IF whole < 2 THEN 0 ELSE whole - 2
    BY DEF QuoteAmount
  <2> HIDE DEF whole, q
  <2>4. QED
    BY <2>2, <2>3
<1>5. expected \in Nat
  <2>1. expected = (q * at.supply) \div at.quote
    BY DEF ExpectedLp
  <2> HIDE DEF q, expected
  <2>2. q * at.supply \in Nat
    BY <1>3, <1>4, ProductNat
  <2>3. QED
    BY <1>3, <2>1, <2>2, DivFloor
<1>6. least \in Nat /\ least <= expected
  <2> HIDE DEF expected
  <2>1. 100 \in 0..Bps
    BY DEF Bps
  <2>2. QED
    BY <1>5, <2>1, FloorBelowEstimate
<1> HIDE DEF expected, least, q
<1>7. minLp \in Nat /\ (expected > 0 => minLp <= expected)
  BY <1>5, <1>6
<1> HIDE DEF minLp
<1>8. /\ made \in [ix : {"add"}, amount : Nat, quote : Nat, maxBase : Nat, minLp : Nat]
      /\ made.amount = amount /\ made.maxBase = amount /\ made.quote = q
      /\ made.minLp = minLp
  BY <1>4, <1>7
<1>9. QED
  BY <1>1, <1>2, <1>5, <1>7, <1>8 DEF expected, q, ix

\* A transaction that lands leaves a pool and a purse.
LEMMA LandsWell ==
    ASSUME TradeInv, ticket # Null
    PROVE  Execute(ticket.ixs) = Failed \/ Execute(ticket.ixs) \in Chain
<1>1. Here \in Chain /\ Execute(ticket.ixs) = RunAll(Here, ticket.ixs)
  BY HereIs
<1>2. CASE IsBuy(ticket)
  <2>1. PICK outcome \in {"yes", "no"}, amount \in Nat \ {0}, min \in Nat :
          BuyTicket(ticket, outcome, amount, min)
    BY <1>2 DEF IsBuy
  <2>2. ticket.ixs = BuyInstructions(outcome, amount, min)
    BY <2>1 DEF BuyTicket
  <2>3. QED
    BY <1>1, <2>2, BuyRuns
<1>3. CASE IsSell(ticket)
  <2>1. PICK outcome \in {"yes", "no"}, amount \in Nat \ {0}, swap \in Nat \ {0},
             merge \in Nat \ {0}, min \in Nat :
          SellTicket(ticket, outcome, amount, swap, merge, min)
    BY <1>3 DEF IsSell
  <2>2. ticket.ixs = SellInstructions(outcome, swap, merge, min) /\ merge <= min
    BY <2>1 DEF SellTicket
  <2>3. QED
    BY <1>1, <2>2, SellRuns
<1>4. CASE IsAdd(ticket)
  <2>1. PICK amount \in Nat \ {0} : AddTicket(ticket, amount)
    BY <1>4 DEF IsAdd
  <2>2. ticket.at \in Pool
        /\ ticket.ixs = AddLiquidityInstructions(amount, ticket.at, ticket.at.supply, 100)
    BY <2>1 DEF AddTicket
  <2> DEFINE ix == AddIx(ticket.at, amount)
  <2>3. /\ ix \in [ix : {"add"}, amount : Nat, quote : Nat, maxBase : Nat, minLp : Nat]
        /\ ix.maxBase = ix.amount /\ ticket.ixs = <<ix>>
    BY <2>2, AddIxIs
  <2> HIDE DEF ix
  <2>4. QED
    BY <1>1, <2>3, AddRuns
<1>5. QED
  BY <1>2, <1>3, <1>4 DEF TradeInv

\* What a sell swaps is part of the position.
LEMMA UnwindIs ==
    ASSUME NEW held \in Nat, NEW in, NEW out, NEW swap \in OptimalUnwindSwaps(held, in, out)
    PROVE  swap \in Nat /\ swap <= held
BY DEF OptimalUnwindSwaps

LEMMA QuoteIs ==
    ASSUME NEW at \in Pool, purse \in Purse, NEW type \in {"Buy", "Sell"}, NEW amount \in Nat
    PROVE  LET pair == ReservePair(at, type = "Buy")
           IN  /\ AmmSwapOut(amount, pair.in, pair.out) = Quote(at, type, amount)
               /\ Quote(at, type, amount) \in Nat
<1> DEFINE c == [pool |-> at, purse |-> purse]
<1>1. c \in Chain /\ c.pool = at /\ Paid(c, type, amount) = Quote(at, type, amount)
  BY DEF Chain, Paid, Quote
<1> HIDE DEF c
<1>2. QED
  BY <1>1, EstimateIs, PaidIs

LEMMA TradeInvInit == TradingInit => TradeInv
BY TradingAssumption DEF TradingInit, TradeInv

LEMMA BuySubmitted ==
    ASSUME TradeInv, NEW outcome \in {"yes", "no"}, NEW amount \in Amounts,
           NEW bps \in Slippages, SubmitBuy(outcome, amount, bps)
    PROVE  IsBuy(ticket')
<1>1. amount \in Nat \ {0} /\ bps \in 0..Bps
  BY TradingAssumption
<1> DEFINE pairOf(at) == ReservePair(at, outcome = "yes")
           min(at) == BuyOutputMin(at, outcome, amount, bps)
<1>2. PICK at \in ReservesAtBuild :
        ticket' = [asks |-> Asks("buy", outcome, amount, bps),
                   ixs |-> BuyInstructions(outcome, amount, min(at)), at |-> at]
  BY DEF SubmitBuy
<1>3. at \in Pool /\ at # Null
  BY DEF ReservesAtBuild, TradeInv
<1> DEFINE type == BuySide(outcome)
<1>4. type \in {"Buy", "Sell"} /\ (outcome = "yes") = (type = "Buy")
  BY DEF BuySide
<1> HIDE DEF type
<1>5. /\ AmmSwapOut(amount, pairOf(at).in, pairOf(at).out) = Quote(at, type, amount)
      /\ Quote(at, type, amount) \in Nat
  BY <1>1, <1>3, <1>4, QuoteIs DEF TradeInv
<1>6. min(at) \in Nat /\ min(at) <= Quote(at, type, amount)
  BY <1>1, <1>5, FloorBelowEstimate DEF BuyOutputMin
<1>7. ticket'.asks.slippageBps = bps
  BY <1>2 DEF Asks
<1>8. BuyTicket(ticket', outcome, amount, min(at))
  <2> HIDE DEF min
  <2>1. ticket'.asks = Asks("buy", outcome, amount, ticket'.asks.slippageBps)
    BY <1>2, <1>7
  <2>2. /\ ticket'.ixs = BuyInstructions(outcome, amount, min(at))
        /\ ticket'.at = at
    BY <1>2
  <2>3. min(at) = BuyOutputMin(ticket'.at, outcome, amount, ticket'.asks.slippageBps)
    BY <1>7, <2>2 DEF min
  <2>4. QED
    BY <1>3, <1>6, <2>1, <2>2, <2>3 DEF BuyTicket, type
<1> HIDE DEF min
<1>9. QED
  BY <1>1, <1>6, <1>8 DEF IsBuy

LEMMA SellSubmitted ==
    ASSUME TradeInv, NEW outcome \in {"yes", "no"}, NEW amount \in Amounts,
           NEW bps \in Slippages, SubmitSell(outcome, amount, bps)
    PROVE  IsSell(ticket')
<1>1. amount \in Nat \ {0} /\ bps \in 0..Bps
  BY TradingAssumption
<1> DEFINE pairOf(at) == ReservePair(at, outcome # "yes")
           est(at, swap) == AmmSwapOut(swap, pairOf(at).in, pairOf(at).out)
           min(at, swap) == MinOutFromSlippage(est(at, swap), bps)
           merge(at, swap) == MergeAmount(amount - swap, est(at, swap), min(at, swap))
<1>2. PICK at \in ReservesAtBuild,
           swap \in UNION {OptimalUnwindSwaps(amount, pairOf(r).in, pairOf(r).out) :
                              r \in ReservesAtBuild} :
        /\ swap \in OptimalUnwindSwaps(amount, pairOf(at).in, pairOf(at).out)
        /\ swap > 0 /\ merge(at, swap) > 0
        /\ ticket' = [asks |-> Asks("sell", outcome, amount, bps),
                      ixs |-> SellInstructions(outcome, swap, merge(at, swap), min(at, swap)),
                      at |-> at]
  BY DEF SubmitSell
<1>3. at \in Pool
  BY DEF ReservesAtBuild, TradeInv
<1> DEFINE type == SellSide(outcome)
<1>4. type \in {"Buy", "Sell"} /\ (outcome # "yes") = (type = "Buy")
  BY DEF SellSide
<1>5. swap \in Nat /\ swap <= amount
  BY <1>1, <1>2, UnwindIs
<1> HIDE DEF type
<1>6. est(at, swap) = Quote(at, type, swap) /\ est(at, swap) \in Nat
  BY <1>3, <1>4, <1>5, QuoteIs DEF TradeInv
<1> HIDE DEF est
<1>7. min(at, swap) \in Nat /\ min(at, swap) <= est(at, swap)
  BY <1>1, <1>6, FloorBelowEstimate
<1> HIDE DEF min
<1>8. /\ merge(at, swap) \in Nat /\ merge(at, swap) <= min(at, swap)
      /\ swap + merge(at, swap) <= amount
  BY <1>1, <1>5, <1>7 DEF MergeAmount, Smaller
<1> HIDE DEF merge
<1>9. SellTicket(ticket', outcome, amount, swap, merge(at, swap), min(at, swap))
  <2>1. /\ ticket'.asks = Asks("sell", outcome, amount, bps)
        /\ ticket'.ixs = SellInstructions(outcome, swap, merge(at, swap), min(at, swap))
        /\ ticket'.at = at
    BY <1>2
  <2>2. ticket'.asks = Asks("sell", outcome, amount, ticket'.asks.slippageBps)
    BY <2>1 DEF Asks
  <2>3. QED
    BY <1>3, <1>6, <1>7, <1>8, <2>1, <2>2 DEF SellTicket, type
<1>10. swap \in Nat \ {0} /\ merge(at, swap) \in Nat \ {0}
  BY <1>2, <1>5, <1>8
<1>11. QED
  BY <1>1, <1>7, <1>9, <1>10 DEF IsSell

LEMMA OtherTradeKeeps ==
    ASSUME TradeInv, NEW type \in {"Buy", "Sell"}, NEW input \in OtherAmounts,
           OtherTrade(type, input)
    PROVE  pool' \in Pool
<1>1. input \in Nat \ {0}
  BY TradingAssumption
<1> DEFINE c == [pool |-> pool, purse |-> [sol |-> 0, yes |-> input, no |-> input]]
<1>2. c \in Chain /\ c.purse.yes = input /\ c.purse.no = input
  BY <1>1 DEF Chain, TradeInv, Purse
<1>3. pool' = Swap(c, SwapIx(type, input, 0)).pool
  BY DEF OtherTrade
<1> HIDE DEF c
<1>4. ~(Paid(c, type, input) < 0)
  BY <1>1, <1>2, PaidIs
<1>5. Swap(c, SwapIx(type, input, 0)) \in Chain
  BY <1>1, <1>2, <1>4, SwapIs
<1>6. QED
  BY <1>3, <1>5, ChainIsNotFailed

LEMMA TradeInvStep == TradeInv /\ [TradingNext]_tradingVars => TradeInv'
<1> SUFFICES ASSUME TradeInv, [TradingNext]_tradingVars PROVE TradeInv'
  OBVIOUS
<1>1. ASSUME NEW outcome \in {"yes", "no"}, NEW amount \in Amounts, NEW bps \in Slippages,
             SubmitBuy(outcome, amount, bps)
      PROVE  TradeInv'
  <2>1. IsBuy(ticket')
    BY <1>1, BuySubmitted
  <2>2. UNCHANGED <<pool, page, purse, moves>>
    BY <1>1 DEF SubmitBuy
  <2>3. QED
    BY <2>1, <2>2 DEF TradeInv
<1>2. ASSUME NEW outcome \in {"yes", "no"}, NEW amount \in Amounts, NEW bps \in Slippages,
             SubmitSell(outcome, amount, bps)
      PROVE  TradeInv'
  <2>1. IsSell(ticket')
    BY <1>2, SellSubmitted
  <2>2. UNCHANGED <<pool, page, purse, moves>>
    BY <1>2 DEF SubmitSell
  <2>3. QED
    BY <2>1, <2>2 DEF TradeInv
<1>3. ASSUME NEW amount \in Amounts, SubmitAddLiquidity(amount)
      PROVE  TradeInv'
  <2>1. page \in Pool /\ amount \in Nat \ {0}
    BY <1>3, TradingAssumption DEF SubmitAddLiquidity, TradeInv
  <2>2. AddTicket(ticket', amount)
    BY <1>3, <2>1 DEF SubmitAddLiquidity, AddTicket
  <2>3. IsAdd(ticket')
    BY <2>1, <2>2 DEF IsAdd
  <2>4. UNCHANGED <<pool, page, purse, moves>>
    BY <1>3 DEF SubmitAddLiquidity
  <2>5. QED
    BY <2>3, <2>4 DEF TradeInv
<1>4. CASE Land
  <2> DEFINE c == Execute(ticket.ixs)
  <2>1. ticket # Null /\ ticket' = Null /\ page' = page
    BY <1>4 DEF Land
  <2>2. c = Failed \/ c \in Chain
    BY <2>1, LandsWell
  <2>3. IF c = Failed THEN UNCHANGED <<pool, purse>> ELSE pool' = c.pool /\ purse' = c.purse
    BY <1>4 DEF Land
  <2> HIDE DEF c
  <2>4. pool' \in Pool /\ purse' \in Purse
    BY <2>2, <2>3, ChainIsNotFailed DEF TradeInv
  <2>5. QED
    BY <2>1, <2>4 DEF TradeInv
<1>5. CASE Drop
  BY <1>5 DEF Drop, TradeInv
<1>6. ASSUME NEW type \in {"Buy", "Sell"}, NEW input \in OtherAmounts, OtherTrade(type, input)
      PROVE  TradeInv'
  <2>1. pool' \in Pool
    BY <1>6, OtherTradeKeeps
  <2>2. UNCHANGED <<page, purse, ticket>>
    BY <1>6 DEF OtherTrade
  <2>3. QED
    BY <2>1, <2>2 DEF TradeInv
<1>7. CASE Refresh
  BY <1>7 DEF Refresh, TradeInv
<1>8. CASE UNCHANGED tradingVars
  BY <1>8 DEF tradingVars, TradeInv
<1>9. QED
  BY <1>1, <1>2, <1>3, <1>4, <1>5, <1>6, <1>7, <1>8 DEF TradingNext

LEMMA TradeInvariant == TradingSpec => []TradeInv
BY TradeInvInit, TradeInvStep, PTL DEF TradingSpec

\* With what kind of ticket each property is about.
LEMMA TicketKinds ==
    ASSUME NEW t
    PROVE  /\ \A outcome, amount, min : BuyTicket(t, outcome, amount, min) =>
                t.asks.kind = "buy" /\ t.asks.outcome = outcome /\ t.asks.amount = amount
           /\ \A outcome, amount, swap, merge, min :
                SellTicket(t, outcome, amount, swap, merge, min) =>
                t.asks.kind = "sell" /\ t.asks.outcome = outcome /\ t.asks.amount = amount
           /\ \A amount : AddTicket(t, amount) =>
                t.asks.kind = "add" /\ t.asks.amount = amount
BY DEF BuyTicket, SellTicket, AddTicket, Asks

LEMMA CoveredIs ==
    Covered <=> ticket.asks.amount <=
                  IF ticket.asks.kind = "sell" THEN Own(purse, ticket.asks.outcome)
                  ELSE purse.sol
<1>1. CASE ticket.asks.kind = "sell"
  BY <1>1 DEF Covered, Own
<1>2. CASE ticket.asks.kind # "sell"
  BY <1>2 DEF Covered
<1>3. QED
  BY <1>1, <1>2

\* What a ticket was quoted off still being the pool, it goes through, for
\* any amounts, pools and tolerances.
THEOREM QuotesGoThrough == TradingSpec => []QuotedGoesThrough
<1>1. TradeInv => QuotedGoesThrough
  <2> SUFFICES ASSUME TradeInv, ticket # Null, ticket.at = pool, Covered, WorthAnLp
               PROVE  Execute(ticket.ixs) # Failed
    BY DEF QuotedGoesThrough
  <2>1. /\ Here \in Chain /\ Here.pool = pool /\ Here.purse = purse
        /\ Execute(ticket.ixs) = RunAll(Here, ticket.ixs)
        /\ \A type, input : Paid(Here, type, input) = Quote(pool, type, input)
    BY HereIs
  <2>2. purse.sol \in Nat /\ purse.yes \in Nat /\ purse.no \in Nat
    BY DEF TradeInv, Purse
  <2>3. CASE IsBuy(ticket)
    <3>1. PICK outcome \in {"yes", "no"}, amount \in Nat \ {0}, min \in Nat :
            BuyTicket(ticket, outcome, amount, min)
      BY <2>3 DEF IsBuy
    <3>2. amount <= purse.sol
      BY <3>1, TicketKinds, CoveredIs
    <3>3. /\ ticket.ixs = BuyInstructions(outcome, amount, min)
          /\ min <= Paid(Here, BuySide(outcome), amount)
      BY <2>1, <3>1 DEF BuyTicket
    <3>4. Paid(Here, BuySide(outcome), amount) \in Nat
      BY <2>1, PaidIs DEF BuySide
    <3>5. ~(Here.purse.sol < amount \/ Paid(Here, BuySide(outcome), amount) < min)
      BY <2>1, <2>2, <3>2, <3>3, <3>4
    <3>6. Execute(ticket.ixs) \in Chain
      BY <2>1, <3>3, <3>5, BuyRuns
    <3>7. QED
      BY <3>6, ChainIsNotFailed
  <2>4. CASE IsSell(ticket)
    <3>1. PICK outcome \in {"yes", "no"}, amount \in Nat \ {0}, swap \in Nat \ {0},
               merge \in Nat \ {0}, min \in Nat :
            SellTicket(ticket, outcome, amount, swap, merge, min)
      BY <2>4 DEF IsSell
    <3>2. amount <= Own(purse, outcome) /\ Own(purse, outcome) \in Nat
      BY <2>2, <3>1, TicketKinds, CoveredIs DEF Own
    <3>3. /\ ticket.ixs = SellInstructions(outcome, swap, merge, min)
          /\ merge <= min /\ min <= Paid(Here, SellSide(outcome), swap)
          /\ swap + merge <= amount
      BY <2>1, <3>1 DEF SellTicket
    <3>4. Paid(Here, SellSide(outcome), swap) \in Nat
      BY <2>1, PaidIs DEF SellSide
    <3>5. ~(\/ Paid(Here, SellSide(outcome), swap) < min
            \/ Own(Here.purse, outcome) < swap + merge)
      BY <2>1, <3>2, <3>3, <3>4
    <3>6. Execute(ticket.ixs) \in Chain
      BY <2>1, <3>3, <3>5, SellRuns
    <3>7. QED
      BY <3>6, ChainIsNotFailed
  <2>5. CASE IsAdd(ticket)
    <3>1. PICK amount \in Nat \ {0} : AddTicket(ticket, amount)
      BY <2>5 DEF IsAdd
    <3>2. /\ amount <= purse.sol
          /\ ExpectedLp(amount, pool, pool.supply) > 0
      BY <3>1, TicketKinds, CoveredIs DEF WorthAnLp
    <3>3. pool \in Pool /\ ticket.ixs = AddLiquidityInstructions(amount, pool, pool.supply, 100)
      BY <3>1 DEF AddTicket
    <3> DEFINE ix       == AddIx(pool, amount)
               q        == QuoteAmount(amount, pool)
               baseIn   == (q * pool.base) \div pool.quote
               expected == ExpectedLp(amount, pool, pool.supply)
    <3>4. /\ ix \in [ix : {"add"}, amount : Nat, quote : Nat, maxBase : Nat, minLp : Nat]
          /\ ix.amount = amount /\ ix.maxBase = amount /\ ix.quote = q
          /\ expected \in Nat /\ ix.minLp <= expected
          /\ ticket.ixs = <<ix>>
      BY <3>2, <3>3, AddIxIs
    <3>5. expected = (q * pool.supply) \div pool.quote
      BY DEF ExpectedLp
    <3>6. q \in Nat /\ q > 0
      <4>1. q \in Nat
        BY <3>4
      <4>2. CASE q = 0
        <5>1. pool.supply \in Nat /\ pool.quote \in Nat \ {0}
          BY <3>3 DEF Pool
        <5>2. 0 * pool.supply = 0 /\ 0 \div pool.quote = 0
          BY <5>1
        <5>3. expected = 0
          BY <3>5, <4>2, <5>2
        <5>4. QED
          BY <3>2, <5>3
      <4>3. QED
        BY <4>1, <4>2
    <3>7. q <= amount /\ baseIn \in Nat /\ baseIn < amount
      BY <3>3, <3>6, DepositFits
    <3> HIDE DEF ix, q, baseIn, expected
    <3>8. /\ (ix.quote * Here.pool.base) \div Here.pool.quote = baseIn
          /\ (ix.quote * Here.pool.supply) \div Here.pool.quote = expected
      BY <2>1, <3>4, <3>5 DEF baseIn
    <3>9. ~(\/ Here.purse.sol < ix.amount \/ ix.quote = 0 \/ ix.quote > ix.amount
            \/ baseIn + 1 > ix.maxBase \/ expected < ix.minLp \/ expected = 0)
      BY <2>1, <2>2, <3>2, <3>4, <3>6, <3>7 DEF expected
    <3>10. Execute(ticket.ixs) \in Chain
      BY <2>1, <3>4, <3>8, <3>9, AddRuns
    <3>11. QED
      BY <3>10, ChainIsNotFailed
  <2>6. QED
    BY <2>3, <2>4, <2>5 DEF TradeInv
<1>2. QED
  BY <1>1, TradeInvariant, PTL

\* Whatever part of the position a sell swaps and whatever pool it lands on,
\* its merge never fails where its swap did not.
THEOREM MergesGoThrough == TradingSpec => []MergeNeverFails
<1>1. TradeInv => MergeNeverFails
  <2> SUFFICES ASSUME TradeInv, ticket # Null, ticket.asks.kind = "sell", Covered,
                      Execute(SubSeq(ticket.ixs, 1, 1)) # Failed
               PROVE  Execute(ticket.ixs) # Failed
    BY DEF MergeNeverFails
  <2>1. IsSell(ticket)
    <3>1. ~IsBuy(ticket) /\ ~IsAdd(ticket)
      BY TicketKinds DEF IsBuy, IsAdd
    <3>2. QED
      BY <3>1 DEF TradeInv
  <2>2. PICK outcome \in {"yes", "no"}, amount \in Nat \ {0}, swap \in Nat \ {0},
             merge \in Nat \ {0}, min \in Nat :
          SellTicket(ticket, outcome, amount, swap, merge, min)
    BY <2>1 DEF IsSell
  <2> DEFINE ixs  == ticket.ixs
             paid == Paid(Here, SellSide(outcome), swap)
  <2>3. /\ ixs = SellInstructions(outcome, swap, merge, min)
        /\ merge <= min /\ swap + merge <= amount
    BY <2>2 DEF SellTicket
  <2>4. /\ Here \in Chain /\ Here.purse = purse
        /\ Execute(SubSeq(ixs, 1, 1)) = RunAll(Here, SubSeq(ixs, 1, 1))
        /\ Execute(ixs) = RunAll(Here, ixs)
    BY HereIs
  <2>5. amount <= Own(purse, outcome)
    BY <2>2, TicketKinds, CoveredIs
  <2>6. Own(purse, outcome) \in Nat
    BY DEF Own, TradeInv, Purse
  <2>7. ~(Own(Here.purse, outcome) < swap + merge)
    BY <2>3, <2>4, <2>5, <2>6
  <2>8. ~(paid < min)
    BY <2>3, <2>4, SellRuns
  <2>9. Execute(ixs) \in Chain
    BY <2>3, <2>4, <2>7, <2>8, SellRuns
  <2>10. QED
    BY <2>9, ChainIsNotFailed
<1>2. QED
  BY <1>1, TradeInvariant, PTL

\* What the landing of a ticket may do to a purse.
Kept(t, before, after) ==
    LET asks == t.asks
    IN  CASE asks.kind = "buy" ->
               /\ after.sol = before.sol - asks.amount
               /\ Other(after, asks.outcome) = Other(before, asks.outcome)
               /\ Own(after, asks.outcome) >= Own(before, asks.outcome)
                    + BuyMinReceived(t.at, asks.outcome, asks.amount, asks.slippageBps)
          [] asks.kind = "sell" ->
               /\ after.sol > before.sol
               /\ Own(after, asks.outcome) >= Own(before, asks.outcome) - asks.amount
               /\ Other(after, asks.outcome) >= Other(before, asks.outcome)
          [] asks.kind = "add" ->
               /\ after.sol = before.sol - asks.amount
               /\ after.yes >= before.yes /\ after.no >= before.no

LEMMA LandingKeeps ==
    ASSUME TradeInv, ticket # Null, Execute(ticket.ixs) # Failed
    PROVE  Kept(ticket, purse, Execute(ticket.ixs).purse)
<1> DEFINE c == Execute(ticket.ixs)
           w == c.purse
<1>1. /\ Here \in Chain /\ Here.purse = purse
      /\ c = RunAll(Here, ticket.ixs)
  BY HereIs
<1>2. /\ purse.sol \in Nat /\ purse.yes \in Nat /\ purse.no \in Nat
      /\ \A outcome : Own(purse, outcome) \in Nat /\ Other(purse, outcome) \in Nat
  BY DEF TradeInv, Purse, Own, Other
<1>3. CASE IsBuy(ticket)
  <2>1. PICK outcome \in {"yes", "no"}, amount \in Nat \ {0}, min \in Nat :
          BuyTicket(ticket, outcome, amount, min)
    BY <1>3 DEF IsBuy
  <2> DEFINE paid == Paid(Here, BuySide(outcome), amount)
  <2>2. /\ ticket.asks.kind = "buy" /\ ticket.asks.outcome = outcome
        /\ ticket.asks.amount = amount
    BY <2>1, TicketKinds
  <2> DEFINE least == BuyMinReceived(ticket.at, outcome, amount, ticket.asks.slippageBps)
  <2>3. ticket.ixs = BuyInstructions(outcome, amount, min) /\ least = amount + min
    BY <2>1 DEF BuyTicket, BuyMinReceived
  <2>4. paid \in Nat
    BY <1>1, PaidIs DEF BuySide
  <2>5. ~(Here.purse.sol < amount \/ paid < min)
    BY <1>1, <2>3, BuyRuns
  <2>6. /\ w.sol = purse.sol - amount
        /\ Own(w, outcome) = Own(purse, outcome) + amount + paid
        /\ Other(w, outcome) = Other(purse, outcome)
    BY <1>1, <2>3, <2>5, BuyRuns
  <2> HIDE DEF paid, c, least
  <2>7. Own(w, outcome) >= Own(purse, outcome) + least
    BY <1>2, <2>3, <2>4, <2>5, <2>6
  <2>8. QED
    BY <2>2, <2>6, <2>7 DEF Kept, c, least
<1>4. CASE IsSell(ticket)
  <2>1. PICK outcome \in {"yes", "no"}, amount \in Nat \ {0}, swap \in Nat \ {0},
             merge \in Nat \ {0}, min \in Nat :
          SellTicket(ticket, outcome, amount, swap, merge, min)
    BY <1>4 DEF IsSell
  <2> DEFINE paid == Paid(Here, SellSide(outcome), swap)
  <2>2. /\ ticket.asks.kind = "sell" /\ ticket.asks.outcome = outcome
        /\ ticket.asks.amount = amount
    BY <2>1, TicketKinds
  <2>3. /\ ticket.ixs = SellInstructions(outcome, swap, merge, min)
        /\ merge <= min /\ swap + merge <= amount
    BY <2>1 DEF SellTicket
  <2>4. paid \in Nat
    BY <1>1, PaidIs DEF SellSide
  <2>5. ~(paid < min \/ Own(Here.purse, outcome) < swap + merge)
    BY <1>1, <2>3, SellRuns
  <2>6. /\ w.sol = purse.sol + merge
        /\ Own(w, outcome) = Own(purse, outcome) - swap - merge
        /\ Other(w, outcome) = Other(purse, outcome) + paid - merge
    BY <1>1, <2>3, <2>5, SellRuns
  <2> HIDE DEF paid, c
  <2>7. /\ w.sol > purse.sol
        /\ Own(w, outcome) >= Own(purse, outcome) - amount
        /\ Other(w, outcome) >= Other(purse, outcome)
    BY <1>2, <2>3, <2>4, <2>5, <2>6
  <2>8. QED
    BY <2>2, <2>7 DEF Kept, c
<1>5. CASE IsAdd(ticket)
  <2>1. PICK amount \in Nat \ {0} : AddTicket(ticket, amount)
    BY <1>5 DEF IsAdd
  <2>2. /\ ticket.asks.kind = "add" /\ ticket.asks.amount = amount
        /\ ticket.at \in Pool
        /\ ticket.ixs = AddLiquidityInstructions(amount, ticket.at, ticket.at.supply, 100)
    BY <2>1, TicketKinds DEF AddTicket
  <2> DEFINE ix == AddIx(ticket.at, amount)
  <2>3. /\ ix \in [ix : {"add"}, amount : Nat, quote : Nat, maxBase : Nat, minLp : Nat]
        /\ ix.amount = amount /\ ix.maxBase = ix.amount /\ ticket.ixs = <<ix>>
    BY <2>2, AddIxIs
  <2> HIDE DEF ix
  <2>4. /\ w.sol = purse.sol - amount /\ w.yes >= purse.yes /\ w.no >= purse.no
    BY <1>1, <2>3, AddRuns
  <2>5. QED
    BY <2>2, <2>4 DEF Kept
<1>6. QED
  BY <1>3, <1>4, <1>5 DEF TradeInv

\* What a ticket costs its trader once it lands: what was asked for, in what
\* was asked for, and of a buy no less in return than the minimum of the
\* reserves it was built off, whatever pool it lands on.
THEOREM NothingElseTaken == TradingSpec => TicketKept
<1>1. ASSUME TradeInv, [TradingNext]_tradingVars, ticket # Null, purse' # purse
      PROVE  Kept(ticket, purse, purse')
  <2>1. Land
    <3>1. TradingNext
      BY <1>1 DEF tradingVars
    <3>2. ASSUME NEW outcome, NEW amount, NEW bps,
                 SubmitBuy(outcome, amount, bps) \/ SubmitSell(outcome, amount, bps)
          PROVE  purse' = purse
      BY <3>2, Zenon DEF SubmitBuy, SubmitSell
    <3>3. ASSUME NEW amount, SubmitAddLiquidity(amount) PROVE purse' = purse
      BY <3>3, Zenon DEF SubmitAddLiquidity
    <3>4. ASSUME NEW type, NEW input, OtherTrade(type, input) PROVE purse' = purse
      BY <3>4, Zenon DEF OtherTrade
    <3>5. Drop \/ Refresh => purse' = purse
      BY Zenon DEF Drop, Refresh
    <3>6. QED
      BY <1>1, <3>1, <3>2, <3>3, <3>4, <3>5, Zenon DEF TradingNext
  <2>2. Execute(ticket.ixs) # Failed /\ purse' = Execute(ticket.ixs).purse
    BY <1>1, <2>1 DEF Land
  <2>3. QED
    BY <1>1, <2>2, LandingKeeps
<1>2. TradeInv /\ [TradingNext]_tradingVars =>
        [ticket # Null /\ purse' # purse => Kept(ticket, purse, purse')]_tradingVars
  BY <1>1
<1>3. TradingSpec =>
        [][ticket # Null /\ purse' # purse => Kept(ticket, purse, purse')]_tradingVars
  BY <1>2, TradeInvariant, PTL DEF TradingSpec
<1>4. QED
  BY <1>3, PTL DEF TicketKept, Kept, Own, Other

(***************************************************************************)
(* The page                                                                *)
(***************************************************************************)
Run == [of : Pages, live : BOOLEAN, state : {"Sent", "Answered", "Failed"}, row : Row]

PageType ==
    /\ table \in [Pages -> Row]
    /\ asked \in Pages
    /\ runs \subseteq Run
    /\ data \in Held \cup {Nothing}

\* At most one run may set the page's state, and it is of the market asked for.
OneLive ==
    /\ \A r, s \in runs : r.live /\ s.live => r = s
    /\ \A r \in runs : r.live => r.of = asked

\* What is shown trails the row in the table, and so does what is shown an
\* answer that may yet replace it.
Trails ==
    /\ data # Nothing => data.row.update <= table[data.of].update
    /\ \A r \in runs :
         /\ r.live /\ r.state = "Answered" => r.row.update <= table[r.of].update
         /\ r.live /\ r.state = "Answered" /\ data # Nothing /\ data.of = r.of
               => data.row.update <= r.row.update

PageInv == PageType /\ OneLive /\ Trails

LEMMA UnreadIs == Unread \in Row
<1>1. 1 \in DOMAIN Phases
  BY DEF Phases
<1>2. QED
  BY <1>1 DEF Unread, Row

LEMMA PageStarts == PageInit => PageInv
<1> SUFFICES ASSUME PageInit PROVE PageInv
  OBVIOUS
<1>1. table \in [Pages -> Row]
  BY DEF PageInit, Row
<1>2. PageType
  BY <1>1, UnreadIs DEF PageInit, PageType, Run
<1>3. OneLive
  BY DEF PageInit, OneLive
<1>4. Trails
  BY DEF PageInit, Trails
<1>5. QED
  BY <1>2, <1>3, <1>4 DEF PageInv

\* Sending a read leaves one that may set the page's state, not yet answered.
LEMMA StartRunKeeps ==
    ASSUME PageInv, StartRun(asked'), asked' \in Pages, UNCHANGED table
    PROVE  PageInv'
<1>1. runs' = Sent(asked') /\ data' = data /\ table' = table
  BY DEF StartRun
<1> DEFINE fresh == [of |-> asked', live |-> TRUE, state |-> "Sent", row |-> Unread]
<1>2. fresh \in Run
  BY UnreadIs DEF Run
<1>3. ASSUME NEW r \in runs' PROVE r \in Run /\ (r.live => r = fresh)
  <2>1. CASE r = fresh
    BY <1>2, <2>1
  <2>2. CASE r # fresh
    <3>1. PICK q \in runs : r = [q EXCEPT !.live = FALSE]
      BY <1>1, <2>2 DEF Sent
    <3>2. q \in Run
      BY DEF PageInv, PageType
    <3>3. QED
      BY <3>1, <3>2 DEF Run
  <2>3. QED
    BY <2>1, <2>2
<1> HIDE DEF fresh
<1>4. fresh.of = asked' /\ fresh.state = "Sent"
  BY DEF fresh
<1>5. PageType'
  BY <1>1, <1>3 DEF PageInv, PageType
<1>6. OneLive'
  BY <1>3, <1>4 DEF OneLive
<1>7. Trails'
  BY <1>1, <1>3, <1>4 DEF PageInv, Trails
<1>8. QED
  BY <1>5, <1>6, <1>7 DEF PageInv

LEMMA PageStep == PageInv /\ [PageNext]_pageVars => PageInv'
<1> SUFFICES ASSUME PageInv, [PageNext]_pageVars PROVE PageInv'
  OBVIOUS
<1> USE DEF PageInv
<1>1. ASSUME NEW k \in Pages, Index(k) PROVE PageInv'
  <2>1. PICK p \in DOMAIN Phases :
          table' = [table EXCEPT ![k] = [update |-> table[k].update + 1, phase |-> p]]
    BY <1>1 DEF Index
  <2>2. UNCHANGED <<asked, runs, data>>
    BY <1>1 DEF Index, shown
  <2>3. \A j \in Pages : table[j].update \in Nat
    BY DEF PageType, Row
  <2>4. [update |-> table[k].update + 1, phase |-> p] \in Row
    BY <2>3 DEF Row
  <2>5. PageType' /\ OneLive'
    BY <2>1, <2>2, <2>4 DEF PageType, OneLive
  <2>6. \A j \in Pages : table[j].update <= table'[j].update
    BY <2>1, <2>3 DEF PageType
  <2>7. \A j \in Pages : table'[j].update \in Nat
    BY <2>5 DEF PageType, Row
  <2>8. data # Nothing => data.of \in Pages /\ data.row.update \in Nat
    BY DEF PageType, Held, Row
  <2>9. \A r \in runs : r.of \in Pages /\ r.row.update \in Nat
    BY DEF PageType, Run, Row
  <2>10. Trails'
    BY <2>2, <2>3, <2>6, <2>7, <2>8, <2>9 DEF Trails
  <2>11. QED
    BY <2>5, <2>10
<1>2. ASSUME NEW r \in runs, Answer(r) PROVE PageInv'
  <2>1. PICK answer \in {[r EXCEPT !.state = "Failed"],
                         [r EXCEPT !.state = "Answered", !.row = table[r.of]]} :
          runs' = (runs \ {r}) \cup {answer}
    BY <1>2 DEF Answer
  <2>2. UNCHANGED <<table, asked, data>>
    BY <1>2 DEF Answer, shown
  <2>3. r \in Run /\ table[r.of] \in Row
    BY DEF PageType, Run
  <2>4. /\ answer \in Run /\ answer.of = r.of /\ answer.live = r.live
        /\ answer.state = "Answered" => answer.row = table[r.of]
    BY <2>3 DEF Run
  <2>5. PageType'
    BY <2>1, <2>2, <2>4 DEF PageType
  <2>6. OneLive'
    BY <2>1, <2>2, <2>4 DEF OneLive
  <2>7. Trails'
    <3>1. answer.state = "Answered" => answer.row.update <= table[answer.of].update
      BY <2>3, <2>4 DEF Row
    <3>2. answer.state = "Answered" /\ data # Nothing /\ data.of = answer.of
             => data.row.update <= answer.row.update
      BY <2>4 DEF Trails
    <3>3. QED
      BY <2>1, <2>2, <3>1, <3>2 DEF Trails
  <2>8. QED
    BY <2>5, <2>6, <2>7
<1>3. ASSUME NEW r \in runs, Arrive(r) PROVE PageInv'
  <2>1. runs' = runs \ {r} /\ UNCHANGED <<table, asked>>
    BY <1>3 DEF Arrive
  <2>2. CASE ~r.live
    <3>1. data' = data
      BY <1>3, <2>2 DEF Arrive, Applies, shown
    <3>2. QED
      BY <2>1, <3>1 DEF PageType, OneLive, Trails
  <2>3. CASE r.live
    <3>1. \A q \in runs' : ~q.live
      BY <2>1, <2>3 DEF OneLive, PageType, Run
    <3>2. r \in Run /\ r.state # "Sent"
      BY <1>3 DEF Arrive, PageType
    <3>3. /\ data' \in {Nothing, [of |-> r.of, row |-> r.row]}
          /\ r.state = "Failed" => data' = Nothing
      BY <1>3, <2>3 DEF Arrive, Applies
    <3>4. [of |-> r.of, row |-> r.row] \in Held
      BY <3>2 DEF Run, Held
    <3>5. r.state = "Answered" => r.row.update <= table[r.of].update
      BY <2>3 DEF Trails
    <3>6. r.state \in {"Answered", "Failed"}
      BY <3>2 DEF Run
    <3>7. data' # Nothing => data'.row.update <= table[data'.of].update
      BY <3>3, <3>5, <3>6
    <3>8. QED
      BY <2>1, <3>1, <3>3, <3>4, <3>7 DEF PageType, OneLive, Trails
  <2>4. QED
    BY <2>2, <2>3
<1>4. ASSUME NEW k \in Pages, Visit(k) PROVE PageInv'
  BY <1>4, StartRunKeeps DEF Visit
<1>5. CASE Tick \/ Retry \/ Refetch
  <2>1. StartRun(asked') /\ asked' \in Pages /\ UNCHANGED table
    BY <1>5 DEF Tick, Retry, Refetch, RunAgain, PageType
  <2>2. QED
    BY <2>1, StartRunKeeps
<1>6. CASE Submit \/ Confirmed \/ NotConfirmed
  <2>1. UNCHANGED <<table, asked, runs, data>>
    BY <1>6 DEF Submit, Confirmed, NotConfirmed, shown
  <2>2. QED
    BY <2>1 DEF PageType, OneLive, Trails
<1>7. CASE UNCHANGED pageVars
  BY <1>7 DEF pageVars, PageType, OneLive, Trails
<1>8. QED
  BY <1>1, <1>2, <1>3, <1>4, <1>5, <1>6, <1>7 DEF PageNext

LEMMA ReadyIs == View = "ready" <=> data # Nothing /\ data.of = asked
BY DEF View

\* Whatever the order in which the answers come in and whatever the indexer
\* makes of a market's row, what the page shows of it gives way to later
\* states of the row alone, and its forms are only taken away if the user
\* leaves or a read fails.
THEOREM PageNeverGoesBack == PageSpec => NeverGoesBack
<1>0. (View = "ready" <=> data # Nothing /\ data.of = asked)'
  BY ReadyIs, PTL
<1> DEFINE Older == /\ data # Nothing /\ data' # Nothing /\ data'.of = data.of
                          => data'.row.update >= data.row.update
                    /\ View = "ready" /\ View' # "ready" => asked' # asked \/ failed'
<1>1. ASSUME PageInv, PageInv', [PageNext]_pageVars PROVE Older
  <2>1. CASE data' = data
    <3>1. data # Nothing => data.row.update \in Nat
      BY <1>1 DEF PageInv, PageType, Held, Row
    <3>2. View = "ready" /\ asked' = asked => View' = "ready"
      BY <1>0, <2>1, ReadyIs
    <3>3. QED
      BY <2>1, <3>1, <3>2
  <2>2. ASSUME NEW r \in runs, Arrive(r), r.live PROVE Older
    <3>1. r \in Run /\ r.state # "Sent" /\ r.of = asked /\ asked' = asked
      BY <1>1, <2>2 DEF Arrive, PageInv, PageType, OneLive
    <3>2. CASE r.state = "Failed"
      BY <2>2, <3>2 DEF Arrive, Applies
    <3>3. CASE r.state # "Failed"
      <4>1. data' = [of |-> r.of, row |-> r.row]
        BY <2>2, <3>3 DEF Arrive, Applies
      <4>2. data' # Nothing
        <5>1. [of |-> r.of, row |-> r.row] \in Held
          BY <3>1 DEF Run, Held
        <5>2. QED
          BY <4>1, <5>1, PageAssumption
      <4>3. View' = "ready"
        BY <1>0, <3>1, <4>1, <4>2
      <4>4. data # Nothing /\ data'.of = data.of
               => data'.row.update >= data.row.update
        <5>1. data'.of = r.of /\ data'.row = r.row
          BY <4>1
        <5>2. data # Nothing => data.row.update \in Nat
          BY <1>1 DEF PageInv, PageType, Held, Row
        <5>3. r.row.update \in Nat
          BY <3>1 DEF Run, Row
        <5>4. r.state = "Answered"
          BY <3>1, <3>3 DEF Run
        <5>5. QED
          BY <1>1, <2>2, <5>1, <5>2, <5>3, <5>4 DEF PageInv, Trails
      <4>5. QED
        BY <4>3, <4>4
    <3>4. QED
      BY <3>2, <3>3
  <2>3. ASSUME NEW r \in runs, Arrive(r), ~r.live PROVE data' = data
    BY <2>3 DEF Arrive, Applies, shown
  <2>4. ASSUME NEW k \in Pages, Index(k) \/ Visit(k) PROVE data' = data
    BY <2>4 DEF Index, Visit, StartRun, shown
  <2>5. ASSUME NEW r \in runs, Answer(r) PROVE data' = data
    BY <2>5 DEF Answer, shown
  <2>6. Tick \/ Retry \/ Refetch => data' = data
    BY DEF Tick, Retry, Refetch, RunAgain, StartRun
  <2>7. Submit \/ Confirmed \/ NotConfirmed \/ UNCHANGED pageVars => data' = data
    BY DEF Submit, Confirmed, NotConfirmed, pageVars, shown
  <2> HIDE DEF Older
  <2>8. QED
    BY <1>1, <2>1, <2>2, <2>3, <2>4, <2>5, <2>6, <2>7 DEF PageNext
<1>2. PageInv /\ PageInv' /\ [PageNext]_pageVars => [Older]_pageVars
  BY <1>1
<1>3. QED
  BY <1>2, PageStarts, PageStep, PTL DEF PageSpec, NeverGoesBack
=============================================================================
