------------------------------ MODULE MCMarkets ------------------------------
(***************************************************************************)
(* Instances of Markets and MarketLedger for TLC.                          *)
(***************************************************************************)
EXTENDS MarketLedger, MarketPromise, MarketViews, FiniteSetsExt, TLC

CONSTANTS alice, bob, carol, dave

\* Wallets are interchangeable: no action names one.
UserSymmetry == Permutations(Users)

\* No market of the instance gets as far as having a pool to read.
NoPools == {}

\* A pool that gained on the YES side, one that lost, and one that grew so
\* little that the fee rounds to nothing.
ThreePools == {[base |-> 300, quote |-> 90, supply |-> 100],
               [base |-> 20, quote |-> 30, supply |-> 100],
               [base |-> 105, quote |-> 105, supply |-> 100]}

OnePool == {[base |-> 300, quote |-> 300, supply |-> 100]}

\* Four wallets until activation, three of them from then on.  But while the
\* market collects, one address at most that holds lamports, or gifts.
Involved(o) == live[o] \cup prefunded[o] \cup {u \in Users : ledger[o][u].sol_in > 0}

Narrow ==
    \A o \in Outcomes :
        /\ market[o].status # "Funding" /\ prefunded[o] # {} =>
              Cardinality(prefunded[o]) = 1 /\ gifts[o] = [sol |-> 0, lp |-> 0]
        /\ Exists(o) /\ market[o].activated => Cardinality(Involved(o)) <= 3

NarrowSpec == Init /\ [][Next /\ Narrow']_vars

\* Several markets of one subject, two wallets and two deposits each at most;
\* or one alone, with a third wallet, a floor that two deposits reach, gifts,
\* late deposits, and addresses that hold lamports before they are used.
Lone == \A o \in Outcomes \ {0}, u \in Users : ledger[o][u].sol_in = 0

Plain(o) ==
    /\ ledger[o][carol].sol_in = 0
    /\ gifts[o] = [sol |-> 0, lp |-> 0]
    /\ prefunded[o] = {} /\ adopted[o] = 0
    /\ Exists(o) =>
         /\ market[o].min_liquidity = Min(Floors)
         /\ market[o].total_contributed <= 2 * Max(Deposits)
         /\ market[o].gross_lp_total = market[o].activation_lp

Focus == Lone \/ \A o \in Outcomes : Plain(o)

\* Such an address gets its lamports while its market collects.
Timely ==
    /\ \A o \in Outcomes \ {0} : prefunded'[o] = {}
    /\ prefunded'[0] \subseteq prefunded[0] \/ market[0].status = "Funding"

FocusedSpec == Init /\ [][Next /\ Focus' /\ Timely]_vars /\ CrankFairness
=============================================================================
