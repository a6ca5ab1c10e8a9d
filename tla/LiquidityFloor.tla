--------------------------- MODULE LiquidityFloor ---------------------------
(***************************************************************************)
(* The activity-scaled funding floor of a new market                       *)
(* (programs/markets/src/liquidity_floor.rs): a decaying average of market *)
(* creations and the ramp from it to the SOL a market must raise.          *)
(***************************************************************************)
EXTENDS Integers

CONSTANTS
    HALFLIFE,   \* MARKET_EMA_HALFLIFE_SECS
    INCREMENT,  \* MARKET_EMA_INCREMENT
    MaxU64      \* u64::MAX

ASSUME FloorAssumption ==
    /\ HALFLIFE \in Nat \ {0} /\ INCREMENT \in Nat /\ MaxU64 \in Nat

\* Down to zero within a half-life, and back up at the halving (mutant).
DecaySteep(ema, last, now) ==
    LET elapsed == now - last
    IN  IF elapsed <= 0
        THEN ema
        ELSE ((ema \div 2^(elapsed \div HALFLIFE)) * (HALFLIFE - (elapsed % HALFLIFE)))
                 \div HALFLIFE

\* Halved for every whole half-life since `last`, and down a straight line to
\* the next halving within one.
DecayMarketEma(ema, last, now) ==
    LET elapsed == now - last
        whole   == elapsed \div HALFLIFE
        rem     == elapsed % HALFLIFE
    IN  CASE elapsed <= 0 -> ema
          [] whole >= 64  -> 0
          [] OTHER        -> ((ema \div 2^whole) * (2 * HALFLIFE - rem)) \div (2 * HALFLIFE)

\* saturating_add
BumpedMarketEma(decayed) ==
    IF decayed + INCREMENT > MaxU64 THEN MaxU64 ELSE decayed + INCREMENT

Curve == [base : Nat, max : Nat, threshold : Nat, cap : Nat]

\* `curve` is the governable shape: base, max, threshold and cap.
FloorAt(ema, curve) ==
    CASE curve.max <= curve.base \/ curve.cap <= curve.threshold \/ ema <= curve.threshold
             -> curve.base
      [] OTHER
             -> IF ema >= curve.cap
                THEN curve.max
                ELSE curve.base + ((curve.max - curve.base) * (ema - curve.threshold))
                                     \div (curve.cap - curve.threshold)
=============================================================================
