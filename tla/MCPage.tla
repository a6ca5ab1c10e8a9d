------------------------------- MODULE MCPage -------------------------------
(***************************************************************************)
(* Instances of PageReads, Trading and FeeMath for TLC, side by side: the  *)
(* reads of a market's page, the order tickets on it, and the arithmetic of*)
(* the fee that its funders end up paying.  The tickets take the page's    *)
(* reserves as given, current or not, and share nothing else with the      *)
(* reads; so each moves while the other is as it began.                    *)
(***************************************************************************)
EXTENDS FeeMath, Trading, PageReads

CONSTANTS homePage, otherPage

\* The three verdicts resolve_market can write.
Verdicts == {[yes |-> 1, no |-> 0], [yes |-> 0, no |-> 1], [yes |-> 1, no |-> 1]}

\* A pool at even odds, and one at three to one.
EvenAndSkewed ==
    {[base |-> 100, quote |-> 100, supply |-> 100], [base |-> 30, quote |-> 90, supply |-> 50]}

\* A trader who holds some YES already.
Trader == [sol |-> 20, yes |-> 8, no |-> 0]

\* One of the grid's settled markets, and one page as it was opened.
AnyMarket ==
    /\ lp_total = 40 /\ total_contributed = 50 /\ fee_bps = 250
    /\ base = 100 /\ quote = 100 /\ supply = 100
    /\ payout = [yes |-> 1, no |-> 1]

Home == asked = homePage /\ \A k \in Pages : table[k].phase = 1

EvenPage == page = Null /\ pool.base = pool.quote

MCInit ==
    /\ Init /\ TradingInit /\ PageInit
    /\ (AnyMarket /\ Home) \/ (AnyMarket /\ EvenPage) \/ (Home /\ EvenPage)

MCNext ==
    /\ AnyMarket /\ UNCHANGED vars
    /\ \/ Home /\ PageInit /\ TradingNext /\ UNCHANGED pageVars
       \/ EvenPage /\ TradingInit /\ PageNext /\ UNCHANGED tradingVars

MCSpec == MCInit /\ [][MCNext]_<<vars, tradingVars, pageVars>>
=============================================================================
