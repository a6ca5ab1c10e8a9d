----------------------------- MODULE Governance -----------------------------
(***************************************************************************)
(* The Config account: how it is set up and retuned by governance          *)
(* (init_config.rs, update_config.rs), and the part of create_market.rs    *)
(* that reads it, measures demand in it and snapshots a market's terms off *)
(* it.  What becomes of the market afterwards is Markets; the Floors and   *)
(* FeeRates of that module are what CreateMarket records here.             *)
(***************************************************************************)
EXTENDS LiquidityFloor, Shares, Totals, Sequences

CONSTANTS
    Keys,         \* wallets that may sign
    Upgrader,     \* the program's upgrade authority
    Curves,       \* curves that payloads carry
    FeeRates,     \* fee_bps that payloads carry
    Waits,        \* time that may pass in a step
    MinGap,       \* least time between two creations in the instance
    MaxTime,      \* bound on the clock
    MaxMarkets    \* bound on creations

ASSUME GovernanceAssumption ==
    /\ Upgrader \in Keys
    /\ Curves \subseteq Curve /\ FeeRates \subseteq Nat
    /\ Waits \subseteq Nat \ {0} /\ MinGap \in Nat /\ MaxTime \in Nat /\ MaxMarkets \in Nat

VARIABLES
    config,  \* the Config account
    now,     \* Clock::unix_timestamp
    markets  \* the terms of each market created so far, in order

vars == <<config, now, markets>>

NoConfig == [authority |-> "None"]

Config == [authority : Keys, fee_bps : 0..MAX_FEE_BPS, curve : Curve,
           market_creation_ema : 0..MaxU64, last_market_creation_unix : Nat]

\* `curve` is the history of what governed the market when it was created.
Terms == [at : Nat, min_liquidity : Nat, fee_bps : 0..MAX_FEE_BPS, curve : Curve]

TypeOK ==
    /\ config \in Config \cup {NoConfig}
    /\ now \in Nat
    /\ markets \in Seq(Terms)

Init ==
    /\ config = NoConfig
    /\ now = 0
    /\ markets = <<>>

\* Any share of the whole, not only up to the cap (mutant).
FeeInScale(fee) == fee <= BpsScale

\* The guardrail of both setters.
FeeAllowed(fee) == fee <= MAX_FEE_BPS

InitConfig(signer, authority, fee, curve) ==
    /\ signer = Upgrader
    /\ FeeAllowed(fee)
    /\ config = NoConfig
    /\ config' = [authority |-> authority, fee_bps |-> fee, curve |-> curve,
                  market_creation_ema |-> 0, last_market_creation_unix |-> 0]
    /\ UNCHANGED <<now, markets>>

\* One setter for everything governable; what demand left in the account is
\* not among it.
UpdateConfig(signer, fee, curve) ==
    /\ config # NoConfig
    /\ signer = config.authority
    /\ FeeAllowed(fee)
    /\ config' = [config EXCEPT !.fee_bps = fee, !.curve = curve]
    /\ UNCHANGED <<now, markets>>

\* The average as stored, however long ago (mutant).
StoredActivity == config.market_creation_ema

\* The activity a creation would be measured against now.
Activity ==
    DecayMarketEma(config.market_creation_ema, config.last_market_creation_unix, now)

\* What a market created now must raise.
FloorNow == FloorAt(Activity, config.curve)

\* The snapshot is taken off the decayed average, before the market's own
\* creation is added to it.
CreateMarket ==
    /\ config # NoConfig
    /\ Len(markets) < MaxMarkets
    /\ markets # <<>> => now - markets[Len(markets)].at >= MinGap
    /\ markets' = Append(markets, [at |-> now, fee_bps |-> config.fee_bps,
                                   min_liquidity |-> FloorNow,
                                   curve |-> config.curve])
    /\ config' = [config EXCEPT !.market_creation_ema = BumpedMarketEma(Activity),
                                !.last_market_creation_unix = now]
    /\ UNCHANGED now

Wait(d) ==
    /\ now + d <= MaxTime
    /\ now' = now + d
    /\ UNCHANGED <<config, markets>>

Next ==
    \/ \E signer, authority \in Keys, fee \in FeeRates, curve \in Curves :
           InitConfig(signer, authority, fee, curve)
    \/ \E signer \in Keys, fee \in FeeRates, curve \in Curves : UpdateConfig(signer, fee, curve)
    \/ CreateMarket
    \/ \E d \in Waits : Wait(d)

Spec == Init /\ [][Next]_vars

(***************************************************************************)
(* Demand, measured without the average: from the times of the creations   *)
(***************************************************************************)
CeilDiv(a, b) == (a + b - 1) \div b

\* What a creation that long ago still weighs.  At least, it is halved per
\* half-life begun, the code's line never being below that; at most, it keeps
\* 5/8 per whole one, which many short decays in a row come close to (their
\* limit is e^(-1/2)).
LeastWeight(age) == INCREMENT \div 2^CeilDiv(age, HALFLIFE)
MostWeight(age) ==
    LET k == age \div HALFLIFE
    IN  CeilDiv(INCREMENT * Power(5, k), Power(8, k))

\* What the creations before the n-th weigh at time t.
AtLeast(n, t) == Total([i \in 1..(n - 1) |-> LeastWeight(t - markets[i].at)], 1..(n - 1))
AtMost(n, t)  == Total([i \in 1..(n - 1) |-> MostWeight(t - markets[i].at)], 1..(n - 1))

\* The stored average is the demand of the creations so far and of nothing
\* else, whatever governance did in between: it forgets none of them too
\* fast, but for 2 units of rounding per creation, and none too slowly.  And
\* each market's floor answers to the demand before it and never to its own
\* creation, under the curve of its time.
ActivityMeasuresDemand ==
    /\ config # NoConfig =>
         LET next == Len(markets) + 1
         IN  /\ Activity <= AtMost(next, now)
             /\ Activity + 2 * Len(markets) >= AtLeast(next, now)
    /\ \A n \in DOMAIN markets :
         markets[n].min_liquidity <= FloorAt(AtMost(n, markets[n].at), markets[n].curve)

\* Under one curve, waiting never makes the next market dearer and creating
\* one never makes it cheaper.
QuoteFollowsDemand ==
    [][config # NoConfig /\ config.curve = config'.curve =>
          LET quote == FloorAt(Activity, config.curve)
          IN  /\ now' > now => quote' <= quote
              /\ markets' # markets => quote' >= quote]_vars

\* "At a steady rate of n markets/day the EMA settles at
\* E(n) = INCREMENT / (1 - 2^(-1/n))": with creations at least a n-th of a
\* half-life apart it never exceeds that.  ema <= E(n) with the root cleared.
SettlesAtDocumentedRate ==
    LET n == HALFLIFE \div MinGap
    IN  markets # <<>> =>
            2 * (config.market_creation_ema - INCREMENT)^n <= config.market_creation_ema^n
=============================================================================
