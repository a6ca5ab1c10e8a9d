------------------------------ MODULE FeeMath ------------------------------
(***************************************************************************)
(* The fee arithmetic of collect_fee as a specification of its own: each   *)
(* initial state is one settled market with one pool reading, nothing      *)
(* moves, and the invariants state what the fee must be against exact,     *)
(* division-free references.                                               *)
(***************************************************************************)
EXTENDS Shares

CONSTANTS
    LpTotals,       \* Market.lp_total before the cut
    Contributions,  \* Market.total_contributed
    FeeRates,       \* Market.fee_bps
    Reserves,       \* base and quote reserves of the pool
    Supplies,       \* supply of the LP mint
    PayoutPairs     \* payout numerators of the question

ASSUME FeeMathAssumption ==
    /\ LpTotals \subseteq Nat /\ Contributions \subseteq Nat
    /\ FeeRates \subseteq 0..MAX_FEE_BPS
    /\ Reserves \subseteq Nat /\ Supplies \subseteq Nat \ {0}
    /\ PayoutPairs \subseteq {p \in [yes : Nat, no : Nat] : p.yes + p.no > 0}

VARIABLES
    lp_total, total_contributed, fee_bps, base, quote, supply, payout

vars == <<lp_total, total_contributed, fee_bps, base, quote, supply, payout>>

\* The mint's supply counts the market's own LP.
Init ==
    /\ lp_total \in LpTotals
    /\ total_contributed \in Contributions
    /\ fee_bps \in FeeRates
    /\ base \in Reserves /\ quote \in Reserves
    /\ supply \in Supplies /\ supply >= lp_total
    /\ payout \in PayoutPairs

Next == UNCHANGED vars

Spec == Init /\ [][Next]_vars

pool_value == PoolValue(base, quote, payout)
realized   == RealizedFull(lp_total, pool_value, supply)
accrued    == Accrued(realized, total_contributed)
fee_lp     == FeeLp(lp_total, total_contributed, fee_bps, pool_value, supply)

\* The exact fee in LP is ExactFee.num / ExactFee.den.
ExactFee == [num |-> lp_total * accrued * fee_bps, den |-> realized * BpsScale]

\* The fee comes out of profit alone: whenever one is cut, the LP that stays
\* is worth, at the pool's own rate, at least all that was contributed.
FeeSparesPrincipal ==
    fee_lp > 0 => (lp_total - fee_lp) * pool_value >= total_contributed * supply

\* Two floor divisions in a row lose less than two LP of the exact fee, and
\* a market without profit pays none.
FeeIsRate ==
    IF accrued = 0
    THEN fee_lp = 0
    ELSE /\ fee_lp * ExactFee.den <= ExactFee.num
         /\ ExactFee.num < (fee_lp + 2) * ExactFee.den
=============================================================================
