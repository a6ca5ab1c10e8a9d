---------------------------- MODULE MarketLedger ----------------------------
(***************************************************************************)
(* The bookkeeping of Markets: what the records of a market, its           *)
(* contribution accounts and its token vaults must say of one another, and *)
(* what each contributor is paid.  These properties add up a market's      *)
(* accounts, so they are kept apart from the state machine.                *)
(***************************************************************************)
EXTENDS Markets, Totals

Staked(o)  == Total(stake[o], Users)
LateLp(o)  == Total(late_lp[o], Users)
LpPaid(o)  == Total([u \in Users |-> ledger[o][u].lp_out], Users)
LpOwed(o)  == Total([u \in Users |-> FloorShare(o, u)], live[o])

Unsplit(o) == market[o].status \in {"Funding", "Cancelled"}

\* Until activation, and after a cancellation, escrow holds every stake still
\* owed, the market's total is the sum of the stakes, and each contributor is
\* owed or was paid exactly what they put in: no order of top-ups and refunds
\* can leave a later one short.  Once the stakes are split into the pool,
\* escrow holds nothing but gifts.
EscrowBacked ==
    \A o \in Outcomes : Exists(o) =>
        IF Unsplit(o)
        THEN /\ escrow[o] = Staked(o) + gifts[o].sol
             /\ market[o].status = "Funding" => market[o].total_contributed = Staked(o)
             /\ \A u \in Users : stake[o][u] + ledger[o][u].sol_out = ledger[o][u].sol_in
        ELSE escrow[o] <= gifts[o].sol

\* The vault and what was claimed from it add up to the LP the market counts
\* as its own, fee already cut, plus gifts; until claims open the sums that
\* shares are divided by are those of the contribution accounts; and a market
\* is only reaped with nothing left in its escrow but gifts and the stakes of
\* those it leaves behind, and nothing in its vault but gifts.
LpConserved ==
    \A o \in Outcomes :
        LET m == market[o]
        IN  IF Exists(o)
            THEN m.activated =>
                   /\ lp_vault[o] + LpPaid(o) = m.lp_total + gifts[o].lp
                   /\ m.fee_collected = 0 =>
                        /\ m.activation_contributed = Staked(o)
                        /\ m.gross_lp_total = m.activation_lp + LateLp(o)
            ELSE escrow[o] <= gifts[o].sol + Staked(o) /\ lp_vault[o] <= gifts[o].lp

\* While claims go through, the vault covers the share of everyone still in:
\* no order of claims can leave one short.  Only the claimer that the counter
\* takes for the last one sweeps it.
VaultBacked ==
    \A o \in Outcomes :
        Exists(o) /\ market[o].fee_collected = 1 /\ market[o].open_contributions > 0
            => LpOwed(o) <= lp_vault[o]

\* What `u` is entitled to as a fraction num / den of LP: the part of the
\* final LP that their part of all LP ever minted stands for.
Entitlement(o, u) ==
    LET m == market[o]
    IN  [num |-> m.lp_total * (m.activation_lp * stake[o][u]
                               + m.activation_contributed * late_lp[o][u]),
         den |-> m.gross_lp_total * m.activation_contributed]

\* A claim pays what the contributor is entitled to, at most 2 LP of
\* rounding away, and nobody gets more than that but for dust and gifts: only
\* where somebody was not counted does the sweep take in a share of theirs.
\* It does not depend on which formula claim_lp picks, nor on who claims first.
FairClaims ==
    [][\A o \in Outcomes : \A u \in live[o] \ live'[o] :
          market[o].status \in Settled =>
              LET e    == Entitlement(o, u)
                  paid == ledger'[o][u].lp_out - ledger[o][u].lp_out
              IN  /\ (paid + 2) * e.den >= e.num
                  /\ adopted[o] = 0 \/ market[o].open_contributions > 1 =>
                         paid * e.den <= e.num + (2 * Cardinality(Users) + gifts[o].lp) * e.den]_vars
=============================================================================
