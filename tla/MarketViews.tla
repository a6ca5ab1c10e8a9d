----------------------------- MODULE MarketViews -----------------------------
(***************************************************************************)
(* What the web app's market page makes of the accounts it reads: which    *)
(* controls it offers in which state (MarketActions.tsx and the controls it*)
(* picks from), the share it shows a contributor and the verdict it shows  *)
(* everyone.  The page decides by rules of its own; the program decides    *)
(* again.  A page is taken to have read the accounts as they are.          *)
(***************************************************************************)
EXTENDS Markets

\* fundingProgress: a market without a floor is funded from the start.
Funded(o) ==
    market[o].min_liquidity = 0 \/ market[o].total_contributed >= market[o].min_liquidity

\* Only a market that missed its floor can be cancelled (mutant).
CanCancelUnderfunded(o) == Terminal /\ ~Funded(o)

\* fundingActions: exactly one way out of Funding, whether funded or not.
CanActivate(o) == Funded(o) /\ ~Terminal
CanCancel(o)   == Terminal

(***************************************************************************)
(* Lifecycle cranks, offered to anyone                                     *)
(***************************************************************************)
ActivateOffered(o)   == market[o].status = "Funding" /\ CanActivate(o)
CancelOffered(o)     == market[o].status = "Funding" /\ CanCancel(o)
ResolveOffered(o)    == market[o].status = "Active" /\ Terminal
RedeemOffered(o)     == market[o].status \in Settled
CollectFeeOffered(o) ==
    market[o].status \in Settled /\ market[o].fee_bps > 0 /\ market[o].fee_collected = 0

CloseOffered(o) ==
    /\ market[o].status \in Settled \cup {"Cancelled"}
    /\ market[o].status \in Settled => market[o].fee_collected = 1
    /\ market[o].open_contributions = 0

(***************************************************************************)
(* Liquidity, offered to a wallet                                          *)
(***************************************************************************)
RefundOffered(o) == market[o].status = "Cancelled" /\ market[o].open_contributions > 0

\* The claim is shown as soon as there is a position (mutant).
ClaimShown(o, u) == market[o].status \in Settled \cup {"Active"} /\ u \in live[o]

\* The claim waits for the fee, whatever tab it is on.
ClaimOffered(o, u) ==
    /\ market[o].status \in Settled \cup {"Active"}
    /\ u \in live[o]
    /\ market[o].fee_collected = 1

(***************************************************************************)
(* What the page shows                                                     *)
(***************************************************************************)
\* LP that came later forgotten (mutant).
ContributorLpFunding(o, u) ==
    GrossLpOfFunder(market[o].activation_lp, market[o].activation_contributed,
                    stake[o][u], late_lp[o][u])

\* contributorLp: the position shown to wallet `u`, of gross_lp_total shares.
ContributorLp(o, u) ==
    GrossLp(market[o].activation_lp, market[o].activation_contributed,
            stake[o][u], late_lp[o][u])

\* outcomeResolutionText: from the subject alone, settled or not.
OutcomeResolutionText(o) ==
    IF subject.status = "Resolved"
    THEN IF subject.resolved_option = o THEN "YES won" ELSE "NO won"
    ELSE IF subject.status = "Void" THEN "Voided" ELSE "Open"

(***************************************************************************)
(* Properties                                                              *)
(***************************************************************************)
\* Everyone counted has left, and somebody is still in who never was.
Overlooked(o) == market[o].open_contributions = 0 /\ live[o] # {}

\* "so a contributor isn't handed a button the program would reject": every
\* crank and every exit the page offers passes the instruction's checks, the
\* activation of a pool nobody seeded, the fee whatever the pool reads.  A
\* refund is offered to any wallet, so it goes through for one of them.  Only
\* one who was overlooked is offered a claim that will not.
OffersAccepted ==
    \A o \in Outcomes :
        /\ ActivateOffered(o) => ActivateAccepted(o, EmptyPool)
        /\ CancelOffered(o)   => CancelAccepted(o)
        /\ ResolveOffered(o)  => ResolveAccepted(o)
        /\ RedeemOffered(o)   => question[o] # Unresolved
        /\ CollectFeeOffered(o) =>
               \A pool \in Pools : pool.supply >= lp_vault[o] => CollectFeeAccepted(o, pool)
        /\ CloseOffered(o)    => CloseAccepted(o)
        /\ RefundOffered(o)   => \E u \in Users : RefundAccepted(o, u)
        /\ \A u \in Users : ClaimOffered(o, u) => ClaimAccepted(o, u) \/ Overlooked(o)

\* Once the question is settled the page never leaves a wallet without a next
\* step: a market with somebody in it offers a crank that brings that wallet's
\* exit nearer, or the exit; an empty one can be closed or brought to it.  Only
\* who was overlooked is left without.
WayOutOffered ==
    \A o \in Outcomes : Terminal /\ Exists(o) =>
        \/ CancelOffered(o) \/ ResolveOffered(o) \/ CollectFeeOffered(o)
        \/ IF live[o] = {} THEN CloseOffered(o)
                           ELSE \/ RefundOffered(o) \/ Overlooked(o)
                                \/ \A u \in live[o] : ClaimOffered(o, u)

\* "The oracle resolved before this market reached its funding floor"
\* (CancelControl.tsx): whoever is offered the cancellation of a market reads
\* that it missed its floor.
CancelOnlyUnderfunded == \A o \in Outcomes : CancelOffered(o) => ~Funded(o)

\* The share a contributor is shown is the share they are paid: their claim
\* is the position on the page, less the fee, to within two LP of rounding.
ShareShownIsPaid ==
    \A o \in Outcomes : \A u \in Users : ClaimOffered(o, u) =>
        LET m     == market[o]
            shown == m.lp_total * ContributorLp(o, u)
            paid  == FloorShare(o, u)
        IN  /\ paid * m.gross_lp_total <= shown + 2 * m.gross_lp_total
            /\ shown <= (paid + 2) * m.gross_lp_total

\* The verdict on the page is the one tokens are redeemed at, and all of a
\* question's pages together show at most one winner.
VerdictShownIsPaid ==
    /\ \A o \in Outcomes : RedeemOffered(o) =>
          question[o] = CASE OutcomeResolutionText(o) = "YES won" -> [yes |-> 1, no |-> 0]
                          [] OutcomeResolutionText(o) = "NO won"  -> [yes |-> 0, no |-> 1]
                          [] OTHER                                -> [yes |-> 1, no |-> 1]
    /\ \A o, p \in {o \in Outcomes : Exists(o)} :
          OutcomeResolutionText(o) = "YES won" /\ OutcomeResolutionText(p) = "YES won" => o = p

\* What the page tells a contributor is what the program pays: their share
\* and the verdict.
ShownIsPaid == ShareShownIsPaid /\ VerdictShownIsPaid
=============================================================================
