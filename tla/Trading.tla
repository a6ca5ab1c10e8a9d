------------------------------- MODULE Trading -------------------------------
(***************************************************************************)
(* The order ticket and the deposit ticket of an active market: what       *)
(* data/actions/trade.ts and addLiquidity.ts quote off the pool's reserves,*)
(* the instructions the SDK's flows make of it, and what becomes of them   *)
(* when they land later, on a pool others have traded with meanwhile.  The *)
(* pool and the vault that splits SOL into a YES and a NO token are        *)
(* external.  In the pool YES is base and NO is quote.                     *)
(*                                                                         *)
(* An untraded pool does not exist: activate seeds it.                     *)
(***************************************************************************)
EXTENDS Naturals, Sequences, SequencesExt

CONSTANTS
    OpeningPools,    \* pools an instance starts from
    OpeningWallet,   \* the trader's SOL and tokens
    Amounts,         \* what is typed into the amount field
    Slippages,       \* tolerances in basis points
    OtherAmounts,    \* what others swap
    MaxMoves,        \* bound on trades that reach the pool
    Null             \* a read that gave nothing

AMM_FEE_BPS == 100
Bps == 10000

Pool  == [base : Nat \ {0}, quote : Nat \ {0}, supply : Nat \ {0}]
Purse == [sol : Nat, yes : Nat, no : Nat]

ASSUME TradingAssumption ==
    /\ OpeningPools \subseteq Pool /\ OpeningWallet \in Purse
    /\ Null \notin Pool /\ Null \notin [pool : Pool, purse : Purse]
    /\ Amounts \subseteq Nat \ {0} /\ OtherAmounts \subseteq Nat \ {0}
    /\ Slippages \subseteq 0..Bps
    /\ MaxMoves \in Nat

VARIABLES
    pool,      \* the pool's reserves and LP supply
    page,      \* the pool as the page last read it, or Null
    purse,     \* the trader's SOL, YES and NO
    ticket,    \* instructions built and not yet landed, or Null
    moves      \* trades that reached the pool so far

tradingVars == <<pool, page, purse, ticket, moves>>

TradingInit ==
    /\ pool \in OpeningPools
    /\ page \in {pool, Null}
    /\ purse = OpeningWallet
    /\ ticket = Null
    /\ moves = 0

(***************************************************************************)
(* trade.ts: quotes                                                        *)
(***************************************************************************)
Smaller(a, b) == IF a < b THEN a ELSE b

ConstantProductOut(amountIn, inReserve, outReserve) ==
    IF inReserve = 0 THEN 0 ELSE (amountIn * outReserve) \div (inReserve + amountIn)

\* The pool's fee is left out of the estimate (mutant).
AmmSwapOutFeeless(amountIn, inReserve, outReserve) ==
    ConstantProductOut(amountIn, inReserve, outReserve)

\* What the pool will pay: its fee is taken off the input.
AmmSwapOut(amountIn, inReserve, outReserve) ==
    ConstantProductOut((amountIn * (Bps - AMM_FEE_BPS)) \div Bps, inReserve, outReserve)

MinOutFromSlippage(estimateOut, slippageBps) == (estimateOut * (Bps - slippageBps)) \div Bps

ReservePair(reserves, inputIsQuote) ==
    IF inputIsQuote
    THEN [in |-> reserves.quote, out |-> reserves.base]
    ELSE [in |-> reserves.base, out |-> reserves.quote]

\* What of `held` is swapped so that the rest pairs with what it yields.  The
\* code takes the root of a quadratic in floating point, "a preview estimate",
\* and clamps it: of the estimate nothing but the clamp is relied on here.
OptimalUnwindSwaps(held, in, out) ==
    IF held <= 1 THEN {0}
    ELSE IF in = 0 \/ out = 0 THEN {held \div 2}
    ELSE 1..(held - 1)

\* previewBuy: the least the swap of a buy may pay.
BuyOutputMin(reserves, outcome, amount, slippageBps) ==
    LET pair == ReservePair(reserves, outcome = "yes")
    IN  MinOutFromSlippage(AmmSwapOut(amount, pair.in, pair.out), slippageBps)

\* The panel's "Minimum received" of a buy on these reserves: the wanted leg of
\* the split, and what the swap of the other must pay.
BuyMinReceived(reserves, outcome, amount, slippageBps) ==
    amount + BuyOutputMin(reserves, outcome, amount, slippageBps)

(***************************************************************************)
(* flows/trade.ts, flows/addLiquidity.ts: instructions                     *)
(***************************************************************************)
SplitIx(amount) == [ix |-> "split", amount |-> amount]
MergeIx(amount) == [ix |-> "merge", amount |-> amount]

\* SwapType.Buy spends quote for base, SwapType.Sell base for quote.
SwapIx(type, input, outputMin) ==
    [ix |-> "swap", type |-> type, input |-> input, outputMin |-> outputMin]

\* The leg that is wanted is the one swapped away (mutant).
BuyInstructionsCrossed(outcome, amount, outputMin) ==
    << SplitIx(amount), SwapIx(IF outcome = "yes" THEN "Sell" ELSE "Buy", amount, outputMin) >>

BuyInstructions(outcome, amount, outputMin) ==
    << SplitIx(amount), SwapIx(IF outcome = "yes" THEN "Buy" ELSE "Sell", amount, outputMin) >>

SellInstructions(outcome, swapAmount, mergeAmount, outputMin) ==
    << SwapIx(IF outcome = "yes" THEN "Sell" ELSE "Buy", swapAmount, outputMin),
       MergeIx(mergeAmount) >>

\* As much NO as `amount` YES can go with, less two for the pool's rounding.
QuoteAmount(amount, reserves) ==
    LET whole == Smaller(amount, (amount * reserves.quote) \div reserves.base)
    IN  IF whole < 2 THEN 0 ELSE whole - 2

ExpectedLp(amount, reserves, lpSupply) ==
    (QuoteAmount(amount, reserves) * lpSupply) \div reserves.quote

AddLiquidityInstructions(amount, reserves, lpSupply, slippageBps) ==
    LET floor == MinOutFromSlippage(ExpectedLp(amount, reserves, lpSupply), slippageBps)
    IN  << [ix |-> "add", amount |-> amount, quote |-> QuoteAmount(amount, reserves),
            maxBase |-> amount, minLp |-> IF floor > 0 THEN floor ELSE 1] >>

(***************************************************************************)
(* The chain.  A state of it is a pool and a purse, or Failed: a           *)
(* transaction of which one instruction fails has no effect.               *)
(***************************************************************************)
Failed == Null

\* split_tokens and merge_tokens of the conditional vault (external).
Split(c, ix) ==
    IF c.purse.sol < ix.amount THEN Failed
    ELSE [c EXCEPT !.purse = [sol |-> @.sol - ix.amount, yes |-> @.yes + ix.amount,
                              no |-> @.no + ix.amount]]

Merge(c, ix) ==
    IF c.purse.yes < ix.amount \/ c.purse.no < ix.amount THEN Failed
    ELSE [c EXCEPT !.purse = [sol |-> @.sol + ix.amount, yes |-> @.yes - ix.amount,
                              no |-> @.no - ix.amount]]

\* amm::swap (external): the fee stays in the pool.
Swap(c, ix) ==
    LET buys  == ix.type = "Buy"
        in    == IF buys THEN c.pool.quote ELSE c.pool.base
        out   == IF buys THEN c.pool.base ELSE c.pool.quote
        after == (ix.input * 99) \div 100
        paid  == (after * out) \div (in + after)
    IN  IF \/ ix.input = 0
           \/ (IF buys THEN c.purse.no ELSE c.purse.yes) < ix.input
           \/ paid < ix.outputMin
        THEN Failed
        ELSE IF buys
        THEN [pool  |-> [c.pool EXCEPT !.quote = @ + ix.input, !.base = @ - paid],
              purse |-> [c.purse EXCEPT !.no = @ - ix.input, !.yes = @ + paid]]
        ELSE [pool  |-> [c.pool EXCEPT !.base = @ + ix.input, !.quote = @ - paid],
              purse |-> [c.purse EXCEPT !.yes = @ - ix.input, !.no = @ + paid]]

\* add_liquidity of the markets program: the SOL is split, as much of the pair
\* as the pool takes at its ratio goes in, the rest back to the depositor.
AddLiquidity(c, ix) ==
    LET base   == (ix.quote * c.pool.base) \div c.pool.quote + 1
        lp_new == (ix.quote * c.pool.supply) \div c.pool.quote
    IN  IF \/ c.purse.sol < ix.amount
           \/ ix.quote = 0 \/ ix.quote > ix.amount
           \/ base > ix.maxBase
           \/ lp_new < ix.minLp
           \/ lp_new = 0
        THEN Failed
        ELSE [pool  |-> [base |-> c.pool.base + base, quote |-> c.pool.quote + ix.quote,
                         supply |-> c.pool.supply + lp_new],
              purse |-> [sol |-> c.purse.sol - ix.amount,
                         yes |-> c.purse.yes + (ix.amount - base),
                         no  |-> c.purse.no + (ix.amount - ix.quote)]]

RunIx(c, ix) ==
    IF c = Failed THEN Failed
    ELSE CASE ix.ix = "split" -> Split(c, ix)
           [] ix.ix = "merge" -> Merge(c, ix)
           [] ix.ix = "swap"  -> Swap(c, ix)
           [] ix.ix = "add"   -> AddLiquidity(c, ix)

Execute(ixs) == FoldLeft(RunIx, [pool |-> pool, purse |-> purse], ixs)

(***************************************************************************)
(* Submitting                                                              *)
(***************************************************************************)
\* balanceGateError lets every amount through when the balance could not be
\* read, so an amount is bound by nothing here.

\* decodeReservesFromChain, and the page's reserves where that fails.
ReservesAtBuild == {pool, page} \ {Null}

\* A ticket is its instructions; with it, for the record, what was asked for
\* and the reserves it was built off.  These need not be the page's: the panel
\* quotes off what the page has read, the builder reads the pool once more.
Asks(kind, outcome, amount, slippageBps) ==
    [kind |-> kind, outcome |-> outcome, amount |-> amount, slippageBps |-> slippageBps]

SubmitBuy(outcome, amount, slippageBps) ==
    /\ ticket = Null
    /\ \E reserves \in ReservesAtBuild :
          ticket' = [asks |-> Asks("buy", outcome, amount, slippageBps),
                     ixs |-> BuyInstructions(outcome, amount,
                                 BuyOutputMin(reserves, outcome, amount, slippageBps)),
                     at |-> reserves]
    /\ UNCHANGED <<pool, page, purse, moves>>

\* The estimate is merged, and not what the swap is held to (mutant).
MergeEstimate(remainder, estimate, outputMin) == Smaller(remainder, estimate)

MergeAmount(remainder, estimate, outputMin) == Smaller(remainder, outputMin)

SubmitSell(outcome, amount, slippageBps) ==
    /\ ticket = Null
    /\ \E reserves \in ReservesAtBuild :
          LET pair == ReservePair(reserves, outcome # "yes")
          IN  \E swap \in OptimalUnwindSwaps(amount, pair.in, pair.out) :
                 LET est   == AmmSwapOut(swap, pair.in, pair.out)
                     min   == MinOutFromSlippage(est, slippageBps)
                     merge == MergeAmount(amount - swap, est, min)
                 IN  /\ swap > 0 /\ merge > 0
                     /\ ticket' = [asks |-> Asks("sell", outcome, amount, slippageBps),
                                   ixs |-> SellInstructions(outcome, swap, merge, min),
                                   at |-> reserves]
    /\ UNCHANGED <<pool, page, purse, moves>>

\* AddLiquidityControl sends what the page has read, the market's LP included.
SubmitAddLiquidity(amount) ==
    /\ ticket = Null
    /\ page # Null
    /\ ticket' = [asks |-> Asks("add", "both", amount, 100),
                  ixs |-> AddLiquidityInstructions(amount, page, page.supply, 100),
                  at |-> page]
    /\ UNCHANGED <<pool, page, purse, moves>>

\* The transaction lands, whole or not at all.
Land ==
    LET c == Execute(ticket.ixs)
    IN  /\ ticket # Null
        /\ moves < MaxMoves
        /\ IF c = Failed
           THEN UNCHANGED <<pool, purse, moves>>
           ELSE pool' = c.pool /\ purse' = c.purse /\ moves' = moves + 1
        /\ ticket' = Null
        /\ UNCHANGED page

\* It is not signed, or expires.
Drop == ticket # Null /\ ticket' = Null /\ UNCHANGED <<pool, page, purse, moves>>

\* Someone else swaps (external).
OtherTrade(type, input) ==
    LET rich == [sol |-> 0, yes |-> input, no |-> input]
    IN  /\ moves < MaxMoves
        /\ pool' = Swap([pool |-> pool, purse |-> rich], SwapIx(type, input, 0)).pool
        /\ moves' = moves + 1
        /\ UNCHANGED <<page, purse, ticket>>

\* The page reads the market again, or fails to.
Refresh == page' \in {pool, Null} /\ UNCHANGED <<pool, purse, ticket, moves>>

TradingNext ==
    \/ \E outcome \in {"yes", "no"}, amount \in Amounts, bps \in Slippages :
          \/ SubmitBuy(outcome, amount, bps)
          \/ SubmitSell(outcome, amount, bps)
    \/ \E amount \in Amounts : SubmitAddLiquidity(amount)
    \/ Land
    \/ Drop
    \/ \E type \in {"Buy", "Sell"}, input \in OtherAmounts : OtherTrade(type, input)
    \/ Refresh

TradingSpec == TradingInit /\ [][TradingNext]_tradingVars

(***************************************************************************)
(* Properties                                                              *)
(***************************************************************************)
\* The ticket goes for what its trader has.
Covered ==
    LET asks == ticket.asks
    IN  asks.amount <= IF asks.kind # "sell" THEN purse.sol
                       ELSE IF asks.outcome = "yes" THEN purse.yes ELSE purse.no

\* The deposit is worth an LP at all.
WorthAnLp ==
    ticket.asks.kind = "add" => ExpectedLp(ticket.asks.amount, ticket.at, ticket.at.supply) > 0

\* What a ticket was quoted off still being the pool, it goes through, even
\* with no tolerance: the estimates allow for the pool's fee and rounding
\* (AMM_FEE_BPS, the headroom of addLiquidityInstructions).
QuotedGoesThrough ==
    ticket # Null /\ ticket.at = pool /\ Covered /\ WorthAnLp => Execute(ticket.ixs) # Failed

\* Whatever part of the position a sell swaps, and however the pool moved
\* since, it fails by the floor of its swap and never by the merge that
\* follows: "both legs are >= this, so merge never fails"
\* (data/actions/trade.ts).
MergeNeverFails ==
    ticket # Null /\ ticket.asks.kind = "sell" =>
        (Covered /\ Execute(SubSeq(ticket.ixs, 1, 1)) # Failed => Execute(ticket.ixs) # Failed)

\* A trade that lands costs what was asked for and nothing else.  A buy takes
\* the SOL typed in, leaves the other leg alone and yields no less of the
\* wanted one than the minimum of the reserves it was built off, whatever the
\* pool has become; a sell takes no more than the position typed in and
\* nothing of the other leg; a deposit takes its SOL and no tokens.
TicketKept ==
    [][ticket # Null /\ purse' # purse =>
        LET asks == ticket.asks
            own(p)   == IF asks.outcome = "yes" THEN p.yes ELSE p.no
            other(p) == IF asks.outcome = "yes" THEN p.no ELSE p.yes
        IN  CASE asks.kind = "buy" ->
                   /\ purse'.sol = purse.sol - asks.amount
                   /\ other(purse') = other(purse)
                   /\ own(purse') >= own(purse)
                        + BuyMinReceived(ticket.at, asks.outcome, asks.amount, asks.slippageBps)
              [] asks.kind = "sell" ->
                   /\ purse'.sol > purse.sol
                   /\ own(purse') >= own(purse) - asks.amount
                   /\ other(purse') >= other(purse)
              [] asks.kind = "add" ->
                   /\ purse'.sol = purse.sol - asks.amount
                   /\ purse'.yes >= purse.yes /\ purse'.no >= purse.no]_tradingVars
=============================================================================
