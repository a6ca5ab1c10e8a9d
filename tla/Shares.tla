------------------------------- MODULE Shares -------------------------------
(***************************************************************************)
(* The integer arithmetic of the two settlement instructions of the        *)
(* markets program: the share `claim_lp` pays (processor/claim_lp.rs) and  *)
(* the fee `collect_fee` cuts (processor/collect_fee.rs).  Every division  *)
(* is the floor division of the code's u128 intermediates.  None of the    *)
(* products can overflow u128 for u64 operands except lp_total * pool_value*)
(* (acknowledged at collect_fee.rs:213-219), so widths are not modelled.   *)
(***************************************************************************)
EXTENDS Naturals

\* The denominator of `fee_bps` and the largest rate governance may set.
BpsScale == 10000
MAX_FEE_BPS == 1000

(***************************************************************************)
(* claim_lp                                                                *)
(***************************************************************************)

\* Rounded up (mutant).
ProRataShareUp(lpTotal, stake, totalContributed) ==
    (lpTotal * stake + totalContributed - 1) \div totalContributed

\* A funder's share when every LP token was minted by `activate`.
ProRataShare(lpTotal, stake, totalContributed) ==
    (lpTotal * stake) \div totalContributed

\* What was minted after activation forgotten (mutant).
GrossLpOfFunder(activationLp, activationContributed, stake, lateLp) ==
    IF activationContributed = 0 THEN 0 ELSE (activationLp * stake) \div activationContributed

\* LP a contribution stands for before fees: its part of the activation LP
\* plus what its later deposits minted.
GrossLp(activationLp, activationContributed, stake, lateLp) ==
    lateLp + IF activationContributed = 0
             THEN 0
             ELSE (activationLp * stake) \div activationContributed

\* A contribution's share of the post-fee LP on the gross basis.
GrossLpShare(lpTotal, gross, grossLpTotal) ==
    (lpTotal * gross) \div grossLpTotal

(***************************************************************************)
(* collect_fee                                                             *)
(***************************************************************************)

\* SOL the whole pool redeems for under the resolved payout numerators.
PoolValue(base, quote, payout) ==
    (base * payout.yes + quote * payout.no) \div (payout.yes + payout.no)

\* SOL value of the market's own LP.
RealizedFull(lpTotal, poolValue, supply) ==
    (lpTotal * poolValue) \div supply

\* Profit over what was contributed; 0 on a loss (saturating_sub).
Accrued(realizedFull, totalContributed) ==
    IF realizedFull > totalContributed THEN realizedFull - totalContributed ELSE 0

\* The rate applied to the whole position instead of its profit (mutant).
FeeLpOnPosition(lpTotal, totalContributed, feeBps, poolValue, supply) ==
    IF Accrued(RealizedFull(lpTotal, poolValue, supply), totalContributed) = 0
    THEN 0
    ELSE (lpTotal * feeBps) \div BpsScale

\* The rate applied, and rounded, before the profit is turned into LP (mutant).
FeeLpRateFirst(lpTotal, totalContributed, feeBps, poolValue, supply) ==
    LET realized == RealizedFull(lpTotal, poolValue, supply)
        accrued  == Accrued(realized, totalContributed)
    IN  IF accrued = 0 THEN 0 ELSE (lpTotal * ((accrued * feeBps) \div BpsScale)) \div realized

\* LP tokens cut as the protocol fee; 0 when there is nothing to collect.
FeeLp(lpTotal, totalContributed, feeBps, poolValue, supply) ==
    LET realized == RealizedFull(lpTotal, poolValue, supply)
        accrued  == Accrued(realized, totalContributed)
    IN  IF accrued = 0
        THEN 0
        ELSE (((lpTotal * accrued) \div realized) * feeBps) \div BpsScale
=============================================================================
