---------------------------- MODULE LedgerProofs ----------------------------
(***************************************************************************)
(* The books of a market, for any number of wallets and any amounts.       *)
(*                                                                         *)
(* Three invariants build on each other.  BooksInv: what escrow, the stakes*)
(* and the LP of a market say of one another while it lives, for every     *)
(* wallet.  ClaimsInv: once the fee is cut, the vault holds what all shares*)
(* still open add up to, each of them rounded down, until the claimer that *)
(* the counter takes for the last one sweeps it.  LedgerInv: both, on top  *)
(* of the counter and the life of a market (MarketsProofs), which say how  *)
(* many that claimer may leave behind.                                     *)
(***************************************************************************)
EXTENDS MarketLedger, MarketViews, MarketsProofs

(***************************************************************************)
(* The books of one market                                                 *)
(***************************************************************************)
\* Whoever has no contribution account has nothing on record.
Gone(o) == \A u \in Users \ live[o] : stake[o][u] = 0 /\ late_lp[o][u] = 0

\* No LP has been minted or moved yet.
Fresh(o) ==
    /\ lp_vault[o] = 0 /\ gifts[o].lp = 0
    /\ \A u \in Users : late_lp[o][u] = 0 /\ ledger[o][u].lp_out = 0

EscrowBooks(o) ==
    IF Unsplit(o)
    THEN /\ escrow[o] = Staked(o) + gifts[o].sol
         /\ market[o].status = "Funding" => market[o].total_contributed = Staked(o)
         /\ \A u \in Users : stake[o][u] + ledger[o][u].sol_out = ledger[o][u].sol_in
    ELSE escrow[o] <= gifts[o].sol

\* Until the fee is cut, what shares are divided by is what is on record.
BasisBooks(o) ==
    /\ market[o].activation_contributed = Staked(o)
    /\ market[o].gross_lp_total = market[o].activation_lp + LateLp(o)
    /\ \A u \in Users : ledger[o][u].lp_out = 0

LpBooks(o) ==
    LET m == market[o]
    IN  /\ lp_vault[o] + LpPaid(o) = m.lp_total + gifts[o].lp
        /\ m.lp_total <= m.gross_lp_total
        /\ m.activation_lp <= m.gross_lp_total
        /\ 0 < m.activation_contributed /\ m.activation_contributed <= m.total_contributed
        /\ m.gross_lp_total = m.activation_lp =>
             /\ m.total_contributed = m.activation_contributed
             /\ \A u \in Users : late_lp[o][u] = 0
        /\ m.fee_collected = 0 => BasisBooks(o)

Books(o) ==
    /\ Gone(o)
    /\ ~Exists(o) => Terminal \/ (escrow[o] = gifts[o].sol /\ Fresh(o))
    /\ Exists(o) =>
         /\ market[o].total_contributed > 0
         /\ market[o].activated <=> ~Unsplit(o)
         /\ Unsplit(o) => Fresh(o) /\ market[o].fee_collected = 0
         /\ EscrowBooks(o)
         /\ ~Unsplit(o) => LpBooks(o)

BooksInv == \A o \in Outcomes : Books(o)

\* A step at one address leaves the books of the others as they are.
Aside(o) ==
    /\ UNCHANGED subject
    /\ \A p \in Outcomes \ {o} :
           /\ market'[p] = market[p] /\ live'[p] = live[p] /\ stake'[p] = stake[p]
           /\ late_lp'[p] = late_lp[p] /\ escrow'[p] = escrow[p]
           /\ lp_vault'[p] = lp_vault[p] /\ gifts'[p] = gifts[p] /\ ledger'[p] = ledger[p]

LEMMA BooksStep ==
    ASSUME BooksInv, NEW o \in Outcomes, Aside(o), Books(o)'
    PROVE  BooksInv'
<1>1. ASSUME NEW p \in Outcomes \ {o} PROVE Books(p)'
  <2>1. Books(p)
    BY DEF BooksInv
  <2>2. Staked(p)' = Staked(p) /\ LateLp(p)' = LateLp(p) /\ LpPaid(p)' = LpPaid(p)
    BY DEF Aside, Staked, LateLp, LpPaid
  <2>3. QED
    BY <2>1, <2>2 DEF Aside, Books, Gone, Fresh, EscrowBooks, LpBooks, BasisBooks, Exists,
       Unsplit, Terminal
<1>2. QED
  BY <1>1 DEF BooksInv

(***************************************************************************)
(* How a total moves                                                       *)
(***************************************************************************)
LEMMA StakedMoves ==
    ASSUME TypeOK, TypeOK', NEW o \in Outcomes
    PROVE  /\ Staked(o) \in Nat
           /\ (\A v \in Users : stake'[o][v] = stake[o][v]) => Staked(o)' = Staked(o)
           /\ \A u \in Users : (\A v \in Users \ {u} : stake'[o][v] = stake[o][v]) =>
                 /\ stake[o][u] <= Staked(o)
                 /\ Staked(o)' = Staked(o) - stake[o][u] + stake'[o][u]
<1>1. /\ IsFiniteSet(Users)
      /\ \A v \in Users : stake[o][v] \in Nat /\ stake'[o][v] \in Nat
  BY ConstantsAssumption DEF TypeOK
<1>2. Staked(o) \in Nat
  BY <1>1, TotalNat DEF Staked
<1>3. (\A v \in Users : stake'[o][v] = stake[o][v]) => Staked(o)' = Staked(o)
  BY TotalSame DEF Staked
<1>4. ASSUME NEW u \in Users, \A v \in Users \ {u} : stake'[o][v] = stake[o][v]
      PROVE  /\ stake[o][u] <= Staked(o)
             /\ Staked(o)' = Staked(o) - stake[o][u] + stake'[o][u]
  BY <1>1, <1>4, TotalChange DEF Staked
<1>5. QED
  BY <1>2, <1>3, <1>4

LEMMA StakedNat ==
    ASSUME TypeOK, NEW o \in Outcomes
    PROVE  Staked(o) \in Nat
<1>1. IsFiniteSet(Users) /\ \A v \in Users : stake[o][v] \in Nat
  BY ConstantsAssumption DEF TypeOK
<1>2. QED
  BY <1>1, TotalNat DEF Staked

LEMMA LateLpMoves ==
    ASSUME TypeOK, TypeOK', NEW o \in Outcomes
    PROVE  /\ LateLp(o) \in Nat
           /\ (\A v \in Users : late_lp'[o][v] = late_lp[o][v]) => LateLp(o)' = LateLp(o)
           /\ \A u \in Users : (\A v \in Users \ {u} : late_lp'[o][v] = late_lp[o][v]) =>
                 LateLp(o)' = LateLp(o) - late_lp[o][u] + late_lp'[o][u]
<1>1. /\ IsFiniteSet(Users)
      /\ \A v \in Users : late_lp[o][v] \in Nat /\ late_lp'[o][v] \in Nat
  BY ConstantsAssumption DEF TypeOK
<1>2. LateLp(o) \in Nat
  BY <1>1, TotalNat DEF LateLp
<1>3. (\A v \in Users : late_lp'[o][v] = late_lp[o][v]) => LateLp(o)' = LateLp(o)
  BY TotalSame DEF LateLp
<1>4. ASSUME NEW u \in Users, \A v \in Users \ {u} : late_lp'[o][v] = late_lp[o][v]
      PROVE  LateLp(o)' = LateLp(o) - late_lp[o][u] + late_lp'[o][u]
  BY <1>1, <1>4, TotalChange DEF LateLp
<1>5. QED
  BY <1>2, <1>3, <1>4

LEMMA LpPaidMoves ==
    ASSUME TypeOK, TypeOK', NEW o \in Outcomes
    PROVE  /\ LpPaid(o) \in Nat
           /\ (\A v \in Users : ledger'[o][v].lp_out = ledger[o][v].lp_out)
                 => LpPaid(o)' = LpPaid(o)
           /\ \A u \in Users :
                 (\A v \in Users \ {u} : ledger'[o][v].lp_out = ledger[o][v].lp_out) =>
                 LpPaid(o)' = LpPaid(o) - ledger[o][u].lp_out + ledger'[o][u].lp_out
<1> DEFINE f == [v \in Users |-> ledger[o][v].lp_out]
           g == [v \in Users |-> ledger'[o][v].lp_out]
<1>1. IsFiniteSet(Users) /\ \A v \in Users : f[v] \in Nat /\ g[v] \in Nat
  <2>1. \A v \in Users : ledger[o][v] \in Receipts /\ ledger'[o][v] \in Receipts
    BY DEF TypeOK
  <2>2. QED
    BY <2>1, ConstantsAssumption DEF Receipts
<1>2. /\ \A v \in Users : f[v] = ledger[o][v].lp_out /\ g[v] = ledger'[o][v].lp_out
      /\ LpPaid(o) = Total(f, Users) /\ LpPaid(o)' = Total(g, Users)
  BY DEF LpPaid
<1> HIDE DEF f, g
<1>3. LpPaid(o) \in Nat
  BY <1>1, <1>2, TotalNat
<1>4. (\A v \in Users : g[v] = f[v]) => Total(g, Users) = Total(f, Users)
  BY TotalSame
<1>5. ASSUME NEW u \in Users, \A v \in Users \ {u} : g[v] = f[v]
      PROVE  Total(g, Users) = Total(f, Users) - f[u] + g[u]
  BY <1>1, <1>5, TotalChange
<1>6. QED
  BY <1>2, <1>3, <1>4, <1>5

(***************************************************************************)
(* What each instruction does to the books                                 *)
(***************************************************************************)
\* A deposit, recorded: only `u`'s record and receipt move.
LEMMA DepositRecorded ==
    ASSUME TypeOK, NEW o \in Outcomes, NEW u \in Users, NEW a \in Nat, Gone(o),
           RecordContribution(o, u, a)
    PROVE  /\ a > 0 /\ live'[o] = live[o] \cup {u} /\ escrow'[o] = escrow[o] + a
           /\ stake'[o][u] = stake[o][u] + a
           /\ \A v \in Users \ {u} : stake'[o][v] = stake[o][v]
           /\ \A v \in Users : late_lp'[o][v] = late_lp[o][v]
           /\ \A v \in Users :
                 /\ ledger'[o][v].sol_in = ledger[o][v].sol_in + IF v = u THEN a ELSE 0
                 /\ ledger'[o][v].sol_out = ledger[o][v].sol_out
                 /\ ledger'[o][v].lp_out = ledger[o][v].lp_out
           /\ \A p \in Outcomes \ {o} :
                 /\ live'[p] = live[p] /\ stake'[p] = stake[p] /\ late_lp'[p] = late_lp[p]
                 /\ escrow'[p] = escrow[p] /\ ledger'[p] = ledger[p]
<1>1. /\ a > 0 /\ live'[o] = live[o] \cup {u} /\ escrow'[o] = escrow[o] + a
      /\ \A v \in Users \ {u} : stake'[o][v] = stake[o][v] /\ late_lp'[o][v] = late_lp[o][v]
      /\ \A p \in Outcomes \ {o} :
            /\ live'[p] = live[p] /\ stake'[p] = stake[p] /\ late_lp'[p] = late_lp[p]
            /\ escrow'[p] = escrow[p] /\ ledger'[p] = ledger[p]
  BY DEF RecordContribution, TypeOK
<1>2. stake'[o][u] = stake[o][u] + a
  BY DEF RecordContribution, TypeOK, Topped, Gone
<1>3. late_lp'[o][u] = late_lp[o][u]
  BY DEF RecordContribution, TypeOK, Gone
<1>4. \A v \in Users :
         /\ ledger'[o][v].sol_in = ledger[o][v].sol_in + IF v = u THEN a ELSE 0
         /\ ledger'[o][v].sol_out = ledger[o][v].sol_out
         /\ ledger'[o][v].lp_out = ledger[o][v].lp_out
  <2>1. \A v \in Users : ledger[o][v] \in Receipts
    BY DEF TypeOK
  <2>2. QED
    BY <2>1 DEF RecordContribution, TypeOK, Receipts
<1>5. QED
  BY <1>1, <1>2, <1>3, <1>4

LEMMA CreateMarketBooks ==
    ASSUME TypeOK, TypeOK', LifeInv, BooksInv, NEW o \in Outcomes, NEW u \in Users,
           NEW a \in Deposits, NEW floor \in Floors, NEW fee \in FeeRates,
           CreateMarket(o, u, a, floor, fee)
    PROVE  BooksInv'
<1>1. a \in Nat /\ Books(o) /\ Gone(o)
  BY ConstantsAssumption DEF BooksInv, Books
<1>2. RecordContribution(o, u, a) /\ ~Exists(o) /\ ~Terminal
  BY DEF CreateMarket, Bindable
<1>3. UNCHANGED <<subject, lp_vault, gifts>>
  BY DEF CreateMarket
<1>4. /\ market'[o].status = "Funding" /\ market'[o].total_contributed = a
      /\ market'[o].activated = FALSE /\ market'[o].fee_collected = 0 /\ Exists(o)'
      /\ \A p \in Outcomes \ {o} : market'[p] = market[p]
  BY DEF CreateMarket, TypeOK, Exists, NoMarket
<1>5. Untouched(o)
  BY <1>2 DEF LifeInv, Life
<1>6. \A v \in Users : stake[o][v] = 0 /\ ledger[o][v].sol_in = 0 /\ ledger[o][v].sol_out = 0
  BY <1>1, <1>5 DEF Untouched, Outside, Gone
<1>7. Staked(o) = 0
  BY <1>6, TotalOfZeros DEF Staked
<1>8. Staked(o)' = a
  BY <1>1, <1>2, <1>6, <1>7, DepositRecorded, StakedMoves
<1>9. Aside(o)
  BY <1>1, <1>2, <1>3, <1>4, DepositRecorded DEF Aside
<1>10. Gone(o)'
  BY <1>1, <1>2, DepositRecorded DEF Gone
<1>11. Fresh(o)'
  BY <1>1, <1>2, <1>3, DepositRecorded DEF Fresh, Books
<1>12. EscrowBooks(o)'
  <2>1. escrow'[o] = a + gifts'[o].sol
    BY <1>1, <1>2, <1>3, DepositRecorded DEF Books, TypeOK
  <2>2. \A v \in Users : stake'[o][v] + ledger'[o][v].sol_out = ledger'[o][v].sol_in
    BY <1>1, <1>2, <1>6, DepositRecorded
  <2>3. QED
    BY <1>4, <1>8, <2>1, <2>2 DEF EscrowBooks, Unsplit
<1>13. Books(o)'
  BY <1>1, <1>2, <1>4, <1>10, <1>11, <1>12, DepositRecorded DEF Books, Unsplit
<1>14. QED
  BY <1>9, <1>13, BooksStep

LEMMA ContributeBooks ==
    ASSUME TypeOK, TypeOK', BooksInv, NEW o \in Outcomes, NEW u \in Users,
           NEW a \in Deposits, Contribute(o, u, a)
    PROVE  BooksInv'
<1>1. a \in Nat /\ Books(o) /\ Gone(o)
  BY ConstantsAssumption DEF BooksInv, Books
<1>2. RecordContribution(o, u, a) /\ market[o].status = "Funding"
  BY Zenon DEF Contribute
<1>3. UNCHANGED <<subject, lp_vault, gifts>>
  BY Zenon DEF Contribute
<1>4. market[o] \in Market /\ Exists(o) /\ Unsplit(o)
  BY <1>2, StatusMeansMarket, MarketIsNotNone, Zenon DEF TypeOK, Exists, Unsplit
<1>5. /\ market'[o].status = "Funding"
      /\ market'[o].total_contributed = market[o].total_contributed + a
      /\ market'[o].activated = market[o].activated
      /\ market'[o].fee_collected = market[o].fee_collected /\ Exists(o)'
      /\ \A p \in Outcomes \ {o} : market'[p] = market[p]
  <2> DEFINE new == IF CreatesNew(o, u) THEN 1 ELSE 0
             n   == [market[o] EXCEPT !.total_contributed = @ + a,
                                      !.open_contributions = @ + new]
  <2>1. market' = [market EXCEPT ![o] = n]
    BY Zenon DEF Contribute
  <2> HIDE DEF new
  <2>2. /\ n.status = "Funding" /\ n.activated = market[o].activated
        /\ n.total_contributed = market[o].total_contributed + a
        /\ n.fee_collected = market[o].fee_collected
    BY <1>2, <1>4 DEF Market
  <2> HIDE DEF n
  <2>3. market'[o] = n /\ \A p \in Outcomes \ {o} : market'[p] = market[p]
    BY <2>1 DEF TypeOK
  <2>4. QED
    BY <2>2, <2>3 DEF Exists, NoMarket
<1>6. Staked(o)' = Staked(o) + a /\ Staked(o) \in Nat
  <2>1. stake[o][u] \in Nat
    BY DEF TypeOK
  <2>2. QED
    BY <1>1, <1>2, <2>1, DepositRecorded, StakedMoves
<1>7. Aside(o)
  BY <1>1, <1>2, <1>3, <1>5, DepositRecorded DEF Aside
<1>8. Gone(o)'
  BY <1>1, <1>2, DepositRecorded DEF Gone
<1>9. Fresh(o)'
  BY <1>1, <1>2, <1>3, <1>4, DepositRecorded DEF Fresh, Books
<1>10. EscrowBooks(o)'
  <2>1. /\ escrow[o] = Staked(o) + gifts[o].sol
        /\ market[o].total_contributed = Staked(o)
        /\ \A v \in Users : stake[o][v] + ledger[o][v].sol_out = ledger[o][v].sol_in
    BY <1>1, <1>2, <1>4 DEF Books, EscrowBooks
  <2>2. gifts[o].sol \in Nat
    BY DEF TypeOK
  <2>3. escrow'[o] = Staked(o)' + gifts'[o].sol
    BY <1>1, <1>2, <1>3, <1>6, <2>1, <2>2, DepositRecorded
  <2>4. \A v \in Users : stake'[o][v] + ledger'[o][v].sol_out = ledger'[o][v].sol_in
    <3>1. \A v \in Users : ledger[o][v] \in Receipts /\ stake[o][v] \in Nat
      BY DEF TypeOK
    <3>2. QED
      BY <1>1, <1>2, <2>1, <3>1, DepositRecorded DEF Receipts
  <2>5. QED
    BY <1>5, <1>6, <2>1, <2>3, <2>4 DEF EscrowBooks, Unsplit
<1>11. Books(o)'
  <2>1. market'[o].total_contributed > 0
    BY <1>1, <1>2, <1>4, <1>5, DepositRecorded DEF Books, Market
  <2>2. QED
    BY <1>1, <1>4, <1>5, <1>8, <1>9, <1>10, <2>1 DEF Books, Unsplit
<1>12. QED
  BY <1>7, <1>11, BooksStep

LEMMA CancelBooks ==
    ASSUME TypeOK, TypeOK', BooksInv, NEW o \in Outcomes, Cancel(o)
    PROVE  BooksInv'
<1>1. market[o] \in Market /\ Exists(o) /\ market[o].status = "Funding"
  BY StatusMeansMarket, MarketIsNotNone, Zenon DEF TypeOK, Cancel, CancelAccepted, Exists
<1>2. UNCHANGED <<subject, live, stake, late_lp, escrow, lp_vault, gifts, ledger>>
  BY DEF Cancel, accounts, vaults, history
<1>3. /\ market'[o].status = "Cancelled"
      /\ market'[o].total_contributed = market[o].total_contributed
      /\ market'[o].activated = market[o].activated
      /\ market'[o].fee_collected = market[o].fee_collected /\ Exists(o)'
      /\ \A p \in Outcomes \ {o} : market'[p] = market[p]
  BY <1>1 DEF Cancel, TypeOK, Exists, NoMarket, Market
<1>4. Staked(o)' = Staked(o)
  BY <1>2, StakedMoves
<1>5. Aside(o)
  BY <1>2, <1>3 DEF Aside
<1>6. Books(o)'
  BY <1>1, <1>2, <1>3, <1>4 DEF BooksInv, Books, Gone, Fresh, EscrowBooks, Unsplit
<1>7. QED
  BY <1>5, <1>6, BooksStep

\* A contribution, closed: the counter and one record, and nothing else.
LEMMA ContributionClosed ==
    ASSUME TypeOK, NEW o \in Outcomes, NEW u \in Users, market[o] \in Market,
           CloseContribution(o, u)
    PROVE  /\ market'[o] \in Market /\ Exists(o)'
           /\ market'[o].status = market[o].status
           /\ market'[o].total_contributed = market[o].total_contributed
           /\ market'[o].lp_total = market[o].lp_total
           /\ market'[o].gross_lp_total = market[o].gross_lp_total
           /\ market'[o].activation_lp = market[o].activation_lp
           /\ market'[o].activation_contributed = market[o].activation_contributed
           /\ market'[o].activated = market[o].activated
           /\ market'[o].fee_bps = market[o].fee_bps
           /\ market'[o].fee_collected = market[o].fee_collected
           /\ market'[o].open_contributions = market[o].open_contributions - 1
           /\ live'[o] = live[o] \ {u}
           /\ stake'[o][u] = 0 /\ late_lp'[o][u] = 0
           /\ \A v \in Users \ {u} : stake'[o][v] = stake[o][v] /\ late_lp'[o][v] = late_lp[o][v]
           /\ \A p \in Outcomes \ {o} :
                 /\ market'[p] = market[p] /\ live'[p] = live[p] /\ stake'[p] = stake[p]
                 /\ late_lp'[p] = late_lp[p]
<1> DEFINE c == market[o].open_contributions - 1
           n == [market[o] EXCEPT !.open_contributions = c]
<1>1. c \in Nat
  BY DEF CloseContribution, Counted, Market
<1>2. market' = [market EXCEPT ![o] = n]
  BY DEF CloseContribution
<1> HIDE DEF c
<1>3. n \in Market /\ n # NoMarket /\ n.open_contributions = c
      /\ n.status = market[o].status
      /\ n.total_contributed = market[o].total_contributed
      /\ n.lp_total = market[o].lp_total
      /\ n.gross_lp_total = market[o].gross_lp_total
      /\ n.activation_lp = market[o].activation_lp
      /\ n.activation_contributed = market[o].activation_contributed
      /\ n.activated = market[o].activated
      /\ n.fee_bps = market[o].fee_bps
      /\ n.fee_collected = market[o].fee_collected
  BY <1>1 DEF Market, NoMarket, MarketStatus
<1> HIDE DEF n
<1>4. market'[o] = n /\ \A p \in Outcomes \ {o} : market'[p] = market[p]
  BY <1>2 DEF TypeOK
<1>5. /\ live'[o] = live[o] \ {u}
      /\ stake'[o][u] = 0 /\ late_lp'[o][u] = 0
      /\ \A v \in Users \ {u} : stake'[o][v] = stake[o][v] /\ late_lp'[o][v] = late_lp[o][v]
      /\ \A p \in Outcomes \ {o} :
            live'[p] = live[p] /\ stake'[p] = stake[p] /\ late_lp'[p] = late_lp[p]
  BY DEF CloseContribution, TypeOK
<1>6. QED
  BY <1>3, <1>4, <1>5 DEF Exists, c

LEMMA RefundBooks ==
    ASSUME TypeOK, TypeOK', BooksInv, NEW o \in Outcomes, NEW u \in Users, Refund(o, u)
    PROVE  BooksInv'
<1>1. market[o] \in Market /\ Exists(o) /\ market[o].status = "Cancelled"
  BY StatusMeansMarket, MarketIsNotNone, Zenon DEF TypeOK, Refund, RefundAccepted, Exists
<1>2. CloseContribution(o, u)
  BY DEF Refund
<1>3. /\ UNCHANGED <<subject, lp_vault, gifts>> /\ escrow[o] >= stake[o][u]
      /\ escrow'[o] = escrow[o] - stake[o][u]
      /\ \A p \in Outcomes \ {o} : escrow'[p] = escrow[p] /\ ledger'[p] = ledger[p]
  BY DEF Refund, TypeOK
<1>4. \A v \in Users :
         /\ ledger'[o][v].sol_in = ledger[o][v].sol_in
         /\ ledger'[o][v].sol_out = ledger[o][v].sol_out + IF v = u THEN stake[o][u] ELSE 0
         /\ ledger'[o][v].lp_out = ledger[o][v].lp_out
  <2>1. \A v \in Users : ledger[o][v] \in Receipts /\ stake[o][v] \in Nat
    BY DEF TypeOK
  <2>2. QED
    BY <2>1 DEF Refund, TypeOK, Receipts
<1>5. Staked(o)' = Staked(o) - stake[o][u] /\ Staked(o) \in Nat /\ stake[o][u] \in Nat
  <2>1. stake[o][u] \in Nat
    BY DEF TypeOK
  <2>2. QED
    BY <1>1, <1>2, <2>1, ContributionClosed, StakedMoves
<1>6. Aside(o)
  BY <1>1, <1>2, <1>3, ContributionClosed DEF Aside
<1>7. Books(o) /\ Gone(o) /\ Fresh(o) /\ EscrowBooks(o)
  BY <1>1 DEF BooksInv, Books, Unsplit
<1>8. Gone(o)'
  BY <1>1, <1>2, <1>7, ContributionClosed DEF Gone
<1>9. Fresh(o)'
  BY <1>1, <1>2, <1>3, <1>4, <1>7, ContributionClosed DEF Fresh
<1>10. EscrowBooks(o)'
  <2>1. /\ escrow[o] = Staked(o) + gifts[o].sol
        /\ \A v \in Users : stake[o][v] + ledger[o][v].sol_out = ledger[o][v].sol_in
    BY <1>1, <1>7 DEF EscrowBooks, Unsplit
  <2>2. gifts[o].sol \in Nat
    BY DEF TypeOK
  <2>3. escrow'[o] = Staked(o)' + gifts'[o].sol
    BY <1>3, <1>5, <2>1, <2>2
  <2>4. \A v \in Users : stake'[o][v] + ledger'[o][v].sol_out = ledger'[o][v].sol_in
    <3>1. \A v \in Users : ledger[o][v] \in Receipts /\ stake[o][v] \in Nat
      BY DEF TypeOK
    <3>2. QED
      BY <1>1, <1>2, <1>4, <2>1, <3>1, ContributionClosed DEF Receipts
  <2>5. QED
    BY <1>1, <1>2, <2>3, <2>4, ContributionClosed DEF EscrowBooks, Unsplit
<1>11. Books(o)'
  BY <1>1, <1>2, <1>7, <1>8, <1>9, <1>10, ContributionClosed DEF Books, Unsplit
<1>12. QED
  BY <1>6, <1>11, BooksStep

LEMMA ActivateBooks ==
    ASSUME TypeOK, TypeOK', LifeInv, BooksInv, NEW o \in Outcomes, NEW lp \in ActivationLps,
           NEW pool \in Pools \cup {EmptyPool}, Activate(o, pool, lp)
    PROVE  BooksInv'
<1>1. market[o] \in Market /\ Exists(o) /\ market[o].status = "Funding" /\ lp \in Nat
  BY StatusMeansMarket, MarketIsNotNone, ConstantsAssumption, Zenon
     DEF TypeOK, Activate, ActivateAccepted, Exists
<1>2. /\ UNCHANGED <<subject, live, stake, late_lp, gifts, ledger>>
      /\ escrow[o] >= market[o].total_contributed
      /\ escrow'[o] = escrow[o] - market[o].total_contributed /\ lp_vault'[o] = lp
      /\ \A p \in Outcomes \ {o} : escrow'[p] = escrow[p] /\ lp_vault'[p] = lp_vault[p]
  BY DEF Activate, ActivateAccepted, accounts, history, TypeOK
<1>3. /\ market'[o].status = "Active" /\ market'[o].activated = TRUE /\ Exists(o)'
      /\ market'[o].total_contributed = market[o].total_contributed
      /\ market'[o].lp_total = lp /\ market'[o].gross_lp_total = lp
      /\ market'[o].activation_lp = lp
      /\ market'[o].activation_contributed = market[o].total_contributed
      /\ market'[o].fee_collected = market[o].fee_collected
      /\ \A p \in Outcomes \ {o} : market'[p] = market[p]
  <2> DEFINE n == [market[o] EXCEPT !.status = "Active", !.activated = TRUE,
                     !.lp_total = lp, !.gross_lp_total = lp, !.activation_lp = lp,
                     !.activation_contributed = market[o].total_contributed]
  <2>1. market' = [market EXCEPT ![o] = n]
    BY Zenon DEF Activate
  <2>2. /\ n.status = "Active" /\ n.activated = TRUE
        /\ n.total_contributed = market[o].total_contributed
        /\ n.lp_total = lp /\ n.gross_lp_total = lp /\ n.activation_lp = lp
        /\ n.activation_contributed = market[o].total_contributed
        /\ n.fee_collected = market[o].fee_collected
    BY <1>1 DEF Market
  <2> HIDE DEF n
  <2>3. market'[o] = n /\ \A p \in Outcomes \ {o} : market'[p] = market[p]
    BY <2>1 DEF TypeOK
  <2>4. QED
    BY <2>2, <2>3 DEF Exists, NoMarket
<1>4. Books(o) /\ Gone(o) /\ Fresh(o) /\ EscrowBooks(o)
  BY <1>1 DEF BooksInv, Books, Unsplit
<1>5. /\ Staked(o)' = Staked(o) /\ Staked(o) \in Nat
      /\ LateLp(o)' = 0 /\ LpPaid(o)' = 0
  <2>1. Staked(o)' = Staked(o) /\ Staked(o) \in Nat
    BY <1>2, StakedMoves
  <2>2. LateLp(o)' = LateLp(o) /\ LpPaid(o)' = LpPaid(o)
    BY <1>2, LateLpMoves, LpPaidMoves
  <2>3. LateLp(o) = 0 /\ LpPaid(o) = 0
    BY <1>4, TotalOfZeros DEF Fresh, LateLp, LpPaid
  <2>4. QED
    BY <2>1, <2>2, <2>3
<1>6. Aside(o)
  BY <1>2, <1>3 DEF Aside
<1>7. /\ escrow[o] = Staked(o) + gifts[o].sol /\ market[o].total_contributed = Staked(o)
      /\ gifts[o].sol \in Nat /\ market[o].total_contributed > 0
  BY <1>1, <1>4 DEF EscrowBooks, Books, Unsplit, TypeOK
<1>8. EscrowBooks(o)'
  BY <1>2, <1>3, <1>5, <1>7 DEF EscrowBooks, Unsplit
<1>9. LpBooks(o)'
  <2>1. gifts'[o].lp = 0 /\ \A u \in Users : late_lp'[o][u] = 0 /\ ledger'[o][u].lp_out = 0
    BY <1>2, <1>4 DEF Fresh
  <2>2. QED
    BY <1>1, <1>2, <1>3, <1>5, <1>7, <2>1 DEF LpBooks, BasisBooks
<1>10. Books(o)'
  BY <1>1, <1>2, <1>3, <1>4, <1>7, <1>8, <1>9 DEF Books, Gone, Unsplit
<1>11. QED
  BY <1>6, <1>10, BooksStep

LEMMA AddLiquidityBooks ==
    ASSUME TypeOK, TypeOK', LifeInv, BooksInv, NEW o \in Outcomes, NEW u \in Users,
           NEW a \in Deposits, NEW lp \in LateLps, AddLiquidity(o, u, a, lp)
    PROVE  BooksInv'
<1>1. /\ market[o] \in Market /\ Exists(o) /\ market[o].status = "Active"
      /\ a \in Nat /\ lp \in Nat /\ a > 0 /\ lp > 0
  BY StatusMeansMarket, MarketIsNotNone, ConstantsAssumption, Zenon
     DEF TypeOK, AddLiquidity, Exists
<1>2. /\ UNCHANGED <<subject, escrow, gifts, ledger>> /\ RecordLateLp(o, u, lp)
      /\ lp_vault'[o] = lp_vault[o] + lp
      /\ \A p \in Outcomes \ {o} : lp_vault'[p] = lp_vault[p]
  BY DEF AddLiquidity, history, TypeOK
<1>3. /\ market'[o].status = "Active" /\ Exists(o)'
      /\ market'[o].activated = market[o].activated
      /\ market'[o].total_contributed = market[o].total_contributed + a
      /\ market'[o].lp_total = market[o].lp_total + lp
      /\ market'[o].gross_lp_total = market[o].gross_lp_total + lp
      /\ market'[o].activation_lp = market[o].activation_lp
      /\ market'[o].activation_contributed = market[o].activation_contributed
      /\ market'[o].fee_collected = market[o].fee_collected
      /\ \A p \in Outcomes \ {o} : market'[p] = market[p]
  <2> DEFINE new == IF CreatesNew(o, u) THEN 1 ELSE 0
             n   == [market[o] EXCEPT !.lp_total = @ + lp, !.gross_lp_total = @ + lp,
                       !.total_contributed = @ + a, !.open_contributions = @ + new]
  <2>1. market' = [market EXCEPT ![o] = n]
    BY Zenon DEF AddLiquidity
  <2> HIDE DEF new
  <2>2. /\ n.status = "Active" /\ n.activated = market[o].activated
        /\ n.total_contributed = market[o].total_contributed + a
        /\ n.lp_total = market[o].lp_total + lp
        /\ n.gross_lp_total = market[o].gross_lp_total + lp
        /\ n.activation_lp = market[o].activation_lp
        /\ n.activation_contributed = market[o].activation_contributed
        /\ n.fee_collected = market[o].fee_collected
    BY <1>1 DEF Market
  <2> HIDE DEF n
  <2>3. market'[o] = n /\ \A p \in Outcomes \ {o} : market'[p] = market[p]
    BY <2>1 DEF TypeOK
  <2>4. QED
    BY <2>2, <2>3 DEF Exists, NoMarket
<1>4. Books(o) /\ Gone(o) /\ EscrowBooks(o) /\ LpBooks(o)
  BY <1>1 DEF BooksInv, Books, Unsplit
<1>5. /\ live'[o] = live[o] \cup {u}
      /\ \A v \in Users : stake'[o][v] = stake[o][v]
      /\ late_lp'[o][u] = late_lp[o][u] + lp
      /\ \A v \in Users \ {u} : late_lp'[o][v] = late_lp[o][v]
      /\ \A p \in Outcomes \ {o} :
            live'[p] = live[p] /\ stake'[p] = stake[p] /\ late_lp'[p] = late_lp[p]
  BY <1>1, <1>2, <1>4 DEF RecordLateLp, LateTopped, Gone, TypeOK
<1>6. /\ Staked(o)' = Staked(o)
      /\ LateLp(o)' = LateLp(o) + lp /\ LateLp(o) \in Nat
      /\ LpPaid(o)' = LpPaid(o) /\ LpPaid(o) \in Nat
  <2>1. late_lp[o][u] \in Nat
    BY DEF TypeOK
  <2>2. QED
    BY <1>1, <1>2, <1>5, <2>1, StakedMoves, LateLpMoves, LpPaidMoves
<1>7. Aside(o)
  BY <1>2, <1>3, <1>5 DEF Aside
<1>8. EscrowBooks(o)'
  BY <1>1, <1>2, <1>3, <1>4 DEF EscrowBooks, Unsplit
<1>9. LpBooks(o)'
  <2>1. /\ market[o].gross_lp_total \in Nat /\ market[o].activation_lp \in Nat
        /\ market[o].lp_total \in Nat /\ market[o].total_contributed \in Nat
        /\ market[o].activation_contributed \in Nat
        /\ lp_vault[o] \in Nat /\ gifts[o].lp \in Nat
    BY <1>1 DEF Market, TypeOK
  <2>2. market[o].fee_collected = 0 => BasisBooks(o)'
    BY <1>1, <1>2, <1>3, <1>4, <1>5, <1>6, <2>1 DEF LpBooks, BasisBooks
  <2>3. QED
    BY <1>1, <1>2, <1>3, <1>4, <1>6, <2>1, <2>2 DEF LpBooks
<1>10. Books(o)'
  <2>1. Gone(o)'
    BY <1>4, <1>5 DEF Gone
  <2>2. market'[o].total_contributed > 0
    BY <1>1, <1>3, <1>4 DEF Books, Market
  <2>3. QED
    BY <1>1, <1>3, <1>4, <1>8, <1>9, <2>1, <2>2 DEF Books, Unsplit
<1>11. QED
  BY <1>7, <1>10, BooksStep

\* A settlement instruction, field by field.
SameBasis(o) ==
    /\ market'[o].total_contributed = market[o].total_contributed
    /\ market'[o].gross_lp_total = market[o].gross_lp_total
    /\ market'[o].activation_lp = market[o].activation_lp
    /\ market'[o].activation_contributed = market[o].activation_contributed
    /\ market'[o].activated = market[o].activated
    /\ market'[o].fee_bps = market[o].fee_bps

LEMMA MarketResolved ==
    ASSUME TypeOK, NEW o \in Outcomes, ResolveMarket(o)
    PROVE  /\ market[o] \in Market /\ Exists(o) /\ market[o].status = "Active"
           /\ market'[o] \in Market /\ Exists(o)' /\ market'[o].status \in Settled /\ SameBasis(o)
           /\ market'[o].lp_total = market[o].lp_total
           /\ market'[o].open_contributions = market[o].open_contributions
           /\ market'[o].fee_collected = IF market[o].fee_bps = 0 \/ market[o].lp_total = 0
                                         THEN 1 ELSE market[o].fee_collected
           /\ UNCHANGED <<subject, live, stake, late_lp, escrow, lp_vault, gifts, ledger>>
           /\ Aside(o)
<1>1. market[o] \in Market /\ Exists(o) /\ market[o].status = "Active"
  BY StatusMeansMarket, MarketIsNotNone, Zenon DEF TypeOK, ResolveMarket, ResolveAccepted, Exists
<1>2. /\ UNCHANGED <<subject, live, stake, late_lp, escrow, lp_vault, gifts, ledger>>
      /\ subject.status \in Settled
  BY DEF ResolveMarket, ResolveAccepted, accounts, vaults, history, Terminal, Settled
<1> DEFINE f == IF market[o].fee_bps = 0 \/ market[o].lp_total = 0
                THEN 1 ELSE market[o].fee_collected
           n == [market[o] EXCEPT !.settled = 1, !.status = subject.status,
                                  !.fee_collected = f]
<1>3. market' = [market EXCEPT ![o] = n]
  BY Zenon DEF ResolveMarket
<1>4. f \in {0, 1}
  BY <1>1 DEF Market
<1> HIDE DEF f
<1>5. n \in Market /\ n.status \in Settled /\ n.fee_collected = f
      /\ n.total_contributed = market[o].total_contributed
      /\ n.gross_lp_total = market[o].gross_lp_total
      /\ n.activation_lp = market[o].activation_lp
      /\ n.activation_contributed = market[o].activation_contributed
      /\ n.activated = market[o].activated
      /\ n.fee_bps = market[o].fee_bps
      /\ n.lp_total = market[o].lp_total
      /\ n.open_contributions = market[o].open_contributions
  BY <1>1, <1>2, <1>4 DEF Market, MarketStatus, Settled
<1> HIDE DEF n
<1>6. market'[o] = n /\ \A p \in Outcomes \ {o} : market'[p] = market[p]
  BY <1>3 DEF TypeOK
<1>7. QED
  BY <1>1, <1>2, <1>5, <1>6, MarketIsNotNone DEF SameBasis, Exists, Aside, f

LEMMA FeeCollected ==
    ASSUME TypeOK, NEW o \in Outcomes, NEW pool \in Pools, CollectFee(o, pool)
    PROVE  /\ market[o] \in Market /\ Exists(o) /\ market[o].status \in Settled
           /\ market[o].fee_collected = 0
           /\ market'[o] \in Market /\ Exists(o)' /\ market'[o].status = market[o].status
           /\ market'[o].fee_collected = 1 /\ SameBasis(o)
           /\ market'[o].open_contributions = market[o].open_contributions
           /\ \E fee \in Nat :
                 /\ fee <= market[o].lp_total /\ fee <= lp_vault[o]
                 /\ market'[o].lp_total = market[o].lp_total - fee
                 /\ lp_vault'[o] = lp_vault[o] - fee
           /\ escrow'[o] \in {0, escrow[o]}
           /\ UNCHANGED <<subject, live, stake, late_lp, gifts, ledger>>
           /\ Aside(o)
<1> DEFINE fee == FeeDue(o, pool)
           l == market[o].lp_total - fee
           n == [market[o] EXCEPT !.lp_total = l, !.fee_collected = 1]
<1>1. market[o] \in Market /\ Exists(o) /\ market[o].status \in Settled
      /\ market[o].fee_collected = 0
  BY StatusMeansMarket, MarketIsNotNone, Zenon
     DEF TypeOK, CollectFee, CollectFeeAccepted, FeeOpen, Settled, Exists
<1>2. fee \in Nat /\ fee <= market[o].lp_total
  BY <1>1, FeeDueNat, Zenon DEF CollectFee, CollectFeeAccepted
<1>3. /\ market' = [market EXCEPT ![o] = n]
      /\ lp_vault' = [lp_vault EXCEPT ![o] = @ - fee]
      /\ fee <= lp_vault[o]
      /\ escrow' = [escrow EXCEPT ![o] = IF fee > 0 THEN 0 ELSE @]
      /\ UNCHANGED <<subject, live, stake, late_lp, gifts, ledger>>
  BY Zenon DEF CollectFee, CollectFeeAccepted, CutFee, accounts, history
<1> HIDE DEF fee
<1>4. l \in Nat /\ l = market[o].lp_total - fee
  BY <1>1, <1>2 DEF Market
<1> HIDE DEF l
<1>5. n \in Market /\ n.status = market[o].status /\ n.fee_collected = 1
      /\ n.total_contributed = market[o].total_contributed
      /\ n.gross_lp_total = market[o].gross_lp_total
      /\ n.activation_lp = market[o].activation_lp
      /\ n.activation_contributed = market[o].activation_contributed
      /\ n.activated = market[o].activated
      /\ n.fee_bps = market[o].fee_bps
      /\ n.lp_total = l
      /\ n.open_contributions = market[o].open_contributions
  <2>1. n \in Market
    BY <1>1, <1>4 DEF Market
  <2>2. QED
    BY <1>1, <2>1 DEF Market
<1> HIDE DEF n
<1>6. market'[o] = n /\ \A p \in Outcomes \ {o} : market'[p] = market[p]
  BY <1>3 DEF TypeOK
<1>7. /\ lp_vault'[o] = lp_vault[o] - fee /\ escrow'[o] \in {0, escrow[o]}
      /\ \A p \in Outcomes \ {o} : lp_vault'[p] = lp_vault[p] /\ escrow'[p] = escrow[p]
  BY <1>3 DEF TypeOK
<1>8. \E x \in Nat :
         /\ x <= market[o].lp_total /\ x <= lp_vault[o]
         /\ market'[o].lp_total = market[o].lp_total - x
         /\ lp_vault'[o] = lp_vault[o] - x
  BY <1>2, <1>3, <1>4, <1>5, <1>6, <1>7
<1>9. QED
  BY <1>1, <1>3, <1>5, <1>6, <1>7, <1>8, MarketIsNotNone DEF SameBasis, Exists, Aside

LEMMA LpClaimed ==
    ASSUME TypeOK, NEW o \in Outcomes, NEW u \in Users, ClaimLp(o, u)
    PROVE  /\ market[o] \in Market /\ Exists(o) /\ market[o].status \in Settled \cup {"Active"}
           /\ market[o].fee_collected = 1 /\ u \in live[o]
           /\ market[o].open_contributions = 1 \/ ShareBasis(o) > 0
           /\ CloseContribution(o, u)
           /\ Share(o, u) \in Nat /\ Share(o, u) <= lp_vault[o]
           /\ lp_vault'[o] = lp_vault[o] - Share(o, u)
           /\ \A v \in Users :
                 /\ ledger'[o][v].sol_in = ledger[o][v].sol_in
                 /\ ledger'[o][v].sol_out = ledger[o][v].sol_out
                 /\ ledger'[o][v].lp_out =
                        ledger[o][v].lp_out + IF v = u THEN Share(o, u) ELSE 0
           /\ UNCHANGED <<subject, escrow, gifts>>
           /\ Aside(o)
<1>1. /\ market[o] \in Market /\ Exists(o) /\ market[o].status \in Settled \cup {"Active"}
      /\ market[o].fee_collected = 1 /\ u \in live[o]
      /\ market[o].open_contributions = 1 \/ ShareBasis(o) > 0
  BY StatusMeansMarket, MarketIsNotNone, Zenon DEF TypeOK, ClaimLp, ClaimAccepted, Settled, Exists
<1> DEFINE s == Share(o, u)
<1>2. s \in Nat
  BY <1>1, ShareNat, Zenon
<1>3. /\ s <= lp_vault[o]
      /\ lp_vault' = [lp_vault EXCEPT ![o] = @ - s]
      /\ ledger' = [ledger EXCEPT ![o][u] = [ledger[o][u] EXCEPT !.lp_out = @ + s]]
      /\ CloseContribution(o, u)
      /\ UNCHANGED <<subject, escrow, gifts>>
  BY Zenon DEF ClaimLp, ClaimAccepted
<1> HIDE DEF s
<1>4. \A v \in Users :
         /\ ledger'[o][v].sol_in = ledger[o][v].sol_in
         /\ ledger'[o][v].sol_out = ledger[o][v].sol_out
         /\ ledger'[o][v].lp_out = ledger[o][v].lp_out + IF v = u THEN s ELSE 0
  <2>1. \A v \in Users : ledger[o][v] \in Receipts
    BY DEF TypeOK
  <2>2. QED
    BY <1>2, <1>3, <2>1 DEF TypeOK, Receipts
<1>5. /\ lp_vault'[o] = lp_vault[o] - s
      /\ \A p \in Outcomes \ {o} : lp_vault'[p] = lp_vault[p] /\ ledger'[p] = ledger[p]
  BY <1>3 DEF TypeOK
<1>6. Aside(o)
  BY <1>1, <1>3, <1>5, ContributionClosed DEF Aside
<1>7. QED
  BY <1>1, <1>2, <1>3, <1>4, <1>5, <1>6 DEF s

LEMMA ResolveMarketBooks ==
    ASSUME TypeOK, TypeOK', BooksInv, NEW o \in Outcomes, ResolveMarket(o)
    PROVE  BooksInv'
<1>1. Books(o) /\ ~Unsplit(o) /\ ~Unsplit(o)' /\ Exists(o) /\ Aside(o)
  BY MarketResolved DEF BooksInv, Unsplit, Settled
<1>2. Staked(o)' = Staked(o) /\ LateLp(o)' = LateLp(o) /\ LpPaid(o)' = LpPaid(o)
  BY MarketResolved, StakedMoves, LateLpMoves, LpPaidMoves
<1>3. market'[o].fee_collected = 0 => market[o].fee_collected = 0
  BY MarketResolved
<1>4. Gone(o)' /\ EscrowBooks(o)'
  BY <1>1, MarketResolved DEF Books, Gone, EscrowBooks
<1>5. LpBooks(o)'
  BY <1>1, <1>2, <1>3, MarketResolved DEF Books, LpBooks, BasisBooks, SameBasis
<1>6. Books(o)'
  BY <1>1, <1>4, <1>5, MarketResolved DEF Books, SameBasis
<1>7. QED
  BY <1>1, <1>6, BooksStep

LEMMA CollectFeeBooks ==
    ASSUME TypeOK, TypeOK', BooksInv, NEW o \in Outcomes, NEW pool \in Pools,
           CollectFee(o, pool)
    PROVE  BooksInv'
<1>1. Books(o) /\ ~Unsplit(o) /\ ~Unsplit(o)' /\ Exists(o) /\ Aside(o)
  BY FeeCollected DEF BooksInv, Unsplit, Settled
<1>2. LpPaid(o)' = LpPaid(o) /\ LpPaid(o) \in Nat
  BY FeeCollected, LpPaidMoves
<1>3. Gone(o)' /\ EscrowBooks(o)'
  <2>1. gifts[o].sol \in Nat /\ escrow[o] \in Nat
    BY DEF TypeOK
  <2>2. QED
    BY <1>1, <2>1, FeeCollected DEF Books, Gone, EscrowBooks
<1>4. LpBooks(o)'
  <2>1. PICK fee \in Nat :
            /\ fee <= market[o].lp_total /\ fee <= lp_vault[o]
            /\ market'[o].lp_total = market[o].lp_total - fee
            /\ lp_vault'[o] = lp_vault[o] - fee
    BY FeeCollected
  <2>2. /\ market[o].lp_total \in Nat /\ market[o].gross_lp_total \in Nat
        /\ lp_vault[o] \in Nat /\ gifts[o].lp \in Nat
    BY FeeCollected DEF TypeOK, Market
  <2>3. LpBooks(o)
    BY <1>1 DEF Books
  <2>4. /\ lp_vault'[o] + LpPaid(o)' = market'[o].lp_total + gifts'[o].lp
        /\ market'[o].lp_total <= market'[o].gross_lp_total
    BY <1>2, <2>1, <2>2, <2>3, FeeCollected DEF LpBooks, SameBasis
  <2>5. QED
    BY <2>3, <2>4, FeeCollected DEF LpBooks, SameBasis
<1>5. Books(o)'
  BY <1>1, <1>3, <1>4, FeeCollected DEF Books, SameBasis
<1>6. QED
  BY <1>1, <1>5, BooksStep

LEMMA ClaimLpBooks ==
    ASSUME TypeOK, TypeOK', LifeInv, BooksInv, NEW o \in Outcomes, NEW u \in Users,
           ClaimLp(o, u)
    PROVE  BooksInv'
<1>1. Books(o) /\ Exists(o) /\ Exists(o)' /\ Aside(o) /\ SameBasis(o)
      /\ market'[o].status = market[o].status /\ market'[o].lp_total = market[o].lp_total
      /\ market'[o].fee_collected = 1
  BY LpClaimed, ContributionClosed DEF BooksInv, SameBasis
<1>2. market[o].status \in Settled /\ ~Unsplit(o) /\ ~Unsplit(o)'
  BY <1>1, LpClaimed DEF LifeInv, Life, Unsplit, Settled
<1>3. LpPaid(o)' = LpPaid(o) + Share(o, u) /\ LpPaid(o) \in Nat
  <2>1. \A v \in Users : ledger[o][v] \in Receipts
    BY DEF TypeOK
  <2>2. \A v \in Users : ledger[o][v].lp_out \in Nat
    BY <2>1 DEF Receipts
  <2>3. u \in Users
    BY LpClaimed DEF TypeOK
  <2>4. /\ \A v \in Users \ {u} : ledger'[o][v].lp_out = ledger[o][v].lp_out
        /\ ledger'[o][u].lp_out = ledger[o][u].lp_out + Share(o, u) /\ Share(o, u) \in Nat
    BY <2>2, <2>3, LpClaimed
  <2>5. QED
    BY <2>2, <2>3, <2>4, LpPaidMoves
<1>4. Gone(o)' /\ EscrowBooks(o)'
  BY <1>1, <1>2, LpClaimed, ContributionClosed DEF Books, Gone, EscrowBooks
<1>5. LpBooks(o)'
  <2>1. /\ market[o].lp_total \in Nat /\ lp_vault[o] \in Nat /\ gifts[o].lp \in Nat
    BY LpClaimed DEF TypeOK, Market
  <2>2. LpBooks(o)
    BY <1>1, <1>2 DEF Books
  <2>3. lp_vault'[o] + LpPaid(o)' = market'[o].lp_total + gifts'[o].lp
    BY <1>1, <1>3, <2>1, <2>2, LpClaimed DEF LpBooks
  <2>4. QED
    BY <1>1, <2>2, <2>3, LpClaimed, ContributionClosed DEF LpBooks, SameBasis
<1>6. Books(o)'
  BY <1>1, <1>2, <1>4, <1>5 DEF Books, SameBasis
<1>7. QED
  BY <1>1, <1>6, BooksStep

LEMMA MarketReaped ==
    ASSUME TypeOK, LifeInv, NEW o \in Outcomes, CloseMarket(o)
    PROVE  /\ market[o] \in Market /\ Exists(o) /\ ~Exists(o)' /\ Terminal
           /\ market[o].status \in Settled \cup {"Cancelled"}
           /\ market[o].activated => market[o].fee_collected = 1
           /\ market[o].open_contributions = 0
           /\ UNCHANGED <<subject, live, stake, late_lp, escrow, lp_vault, gifts, ledger>>
           /\ Aside(o)
<1>1. market[o] \in Market /\ market[o].status \in Settled \cup {"Cancelled"}
  BY StatusMeansMarket, Zenon DEF CloseMarket, CloseAccepted, TypeOK, Settled
<1>2. /\ UNCHANGED <<subject, live, stake, late_lp, escrow, lp_vault, gifts, ledger>>
      /\ market' = [market EXCEPT ![o] = NoMarket]
      /\ market[o].activated => market[o].fee_collected = 1
      /\ market[o].open_contributions = 0
  BY Zenon DEF CloseMarket, CloseAccepted, accounts, vaults, history, NobodyLeft
<1>3. Terminal
  BY <1>1 DEF LifeInv, Life, Terminal, Settled
<1>4. QED
  BY <1>1, <1>2, <1>3, MarketIsNotNone DEF Exists, Aside, TypeOK

LEMMA CloseMarketBooks ==
    ASSUME TypeOK, TypeOK', LifeInv, BooksInv, NEW o \in Outcomes, CloseMarket(o)
    PROVE  BooksInv'
<1>1. Gone(o)' /\ ~Exists(o)' /\ Terminal'
  BY MarketReaped DEF BooksInv, Books, Gone, Terminal
<1>2. Books(o)'
  BY <1>1 DEF Books
<1>3. Aside(o)
  BY MarketReaped
<1>4. QED
  BY <1>2, <1>3, BooksStep

LEMMA OutsideBooks ==
    ASSUME TypeOK, TypeOK', BooksInv, NEW o \in Outcomes, OutsideNext(o)
    PROVE  BooksInv'
<1>1. UNCHANGED <<subject, market, live, stake, late_lp, ledger>>
  BY DEF OutsideNext, Prefund, DonateSol, DonateLp, accounts, history
<1>2. \/ escrow' = escrow /\ lp_vault' = lp_vault /\ gifts' = gifts
      \/ \E d \in Nat :
           /\ escrow' = [escrow EXCEPT ![o] = @ + d] /\ lp_vault' = lp_vault
           /\ gifts' = [gifts EXCEPT ![o] = [gifts[o] EXCEPT !.sol = @ + d]] /\ Exists(o)
      \/ \E d \in Nat :
           /\ lp_vault' = [lp_vault EXCEPT ![o] = @ + d] /\ escrow' = escrow
           /\ gifts' = [gifts EXCEPT ![o] = [gifts[o] EXCEPT !.lp = @ + d]]
           /\ Exists(o) /\ market[o].activated
  BY ConstantsAssumption DEF OutsideNext, Prefund, DonateSol, DonateLp, vaults, history
<1>3. Staked(o)' = Staked(o) /\ LateLp(o)' = LateLp(o) /\ LpPaid(o)' = LpPaid(o)
      /\ Staked(o) \in Nat /\ LpPaid(o) \in Nat
  BY <1>1, StakedMoves, LateLpMoves, LpPaidMoves
<1>4. gifts[o] \in [sol : Nat, lp : Nat] /\ escrow[o] \in Nat /\ lp_vault[o] \in Nat
  BY DEF TypeOK
<1>5. Aside(o)
  BY <1>1, <1>2 DEF Aside, TypeOK
<1>6. Books(o)
  BY DEF BooksInv
<1>7. ASSUME escrow' = escrow /\ lp_vault' = lp_vault /\ gifts' = gifts
      PROVE  Books(o)'
  BY <1>1, <1>3, <1>6, <1>7 DEF Books, Gone, Fresh, EscrowBooks, LpBooks, BasisBooks, Exists,
     Unsplit, Terminal
<1>8. ASSUME NEW d \in Nat, escrow' = [escrow EXCEPT ![o] = @ + d], lp_vault' = lp_vault,
             gifts' = [gifts EXCEPT ![o] = [gifts[o] EXCEPT !.sol = @ + d]], Exists(o)
      PROVE  Books(o)'
  <2>1. /\ escrow'[o] = escrow[o] + d /\ gifts'[o].sol = gifts[o].sol + d
        /\ gifts'[o].lp = gifts[o].lp
    BY <1>4, <1>8 DEF TypeOK
  <2>2. Fresh(o) => Fresh(o)'
    BY <1>1, <1>8, <2>1 DEF Fresh
  <2>3. EscrowBooks(o)'
    BY <1>1, <1>3, <1>4, <1>6, <1>8, <2>1 DEF Books, EscrowBooks, Unsplit
  <2>4. ~Unsplit(o) => LpBooks(o)'
    BY <1>1, <1>3, <1>6, <1>8, <2>1 DEF Books, LpBooks, BasisBooks
  <2>5. QED
    BY <1>1, <1>6, <1>8, <2>2, <2>3, <2>4 DEF Books, Gone, Exists, Unsplit
<1>9. ASSUME NEW d \in Nat, lp_vault' = [lp_vault EXCEPT ![o] = @ + d], escrow' = escrow,
             gifts' = [gifts EXCEPT ![o] = [gifts[o] EXCEPT !.lp = @ + d]],
             Exists(o), market[o].activated
      PROVE  Books(o)'
  <2>1. /\ lp_vault'[o] = lp_vault[o] + d /\ gifts'[o].lp = gifts[o].lp + d
        /\ gifts'[o].sol = gifts[o].sol
    BY <1>4, <1>9 DEF TypeOK
  <2>2. ~Unsplit(o)
    BY <1>6, <1>9 DEF Books
  <2>3. EscrowBooks(o)'
    BY <1>1, <1>6, <1>9, <2>1, <2>2 DEF Books, EscrowBooks, Unsplit
  <2>4. market[o].lp_total \in Nat
    BY <1>9 DEF TypeOK, Exists, Market
  <2>5. LpBooks(o)'
    BY <1>1, <1>3, <1>4, <1>6, <1>9, <2>1, <2>2, <2>4 DEF Books, LpBooks, BasisBooks
  <2>6. QED
    BY <1>1, <1>6, <1>9, <2>2, <2>3, <2>5 DEF Books, Gone, Exists, Unsplit
<1>10. Books(o)'
  BY <1>2, <1>7, <1>8, <1>9
<1>11. QED
  BY <1>5, <1>10, BooksStep

LEMMA SubjectBooks ==
    ASSUME BooksInv, SubjectNext
    PROVE  BooksInv'
<1>1. UNCHANGED <<market, live, stake, late_lp, escrow, lp_vault, gifts, ledger>>
  BY DEF SubjectNext, CreateSubject, RequestAi, CallbackFromGpt, RequestLost, accounts,
     vaults, history
<1>2. Terminal => Terminal'
  BY DEF SubjectNext, CreateSubject, RequestAi, CallbackFromGpt, RequestLost, Awaiting,
     Terminal
<1>3. QED
  BY <1>1, <1>2 DEF BooksInv, Books, Gone, Fresh, EscrowBooks, LpBooks, BasisBooks, Exists, Unsplit,
     Staked, LateLp, LpPaid

LEMMA BooksNext ==
    ASSUME TypeOK, TypeOK', LifeInv, BooksInv, [Next]_vars
    PROVE  BooksInv'
<1>1. ASSUME NEW o \in Outcomes, FundingNext(o) PROVE BooksInv'
  BY <1>1, CreateMarketBooks, ContributeBooks, CancelBooks, RefundBooks DEF FundingNext
<1>2. ASSUME NEW o \in Outcomes, TradingNext(o) PROVE BooksInv'
  BY <1>2, ActivateBooks, AddLiquidityBooks DEF TradingNext
<1>3. ASSUME NEW o \in Outcomes, SettlementNext(o) PROVE BooksInv'
  BY <1>3, ResolveMarketBooks, CollectFeeBooks, ClaimLpBooks, CloseMarketBooks
     DEF SettlementNext
<1>4. CASE UNCHANGED vars
  <2>1. UNCHANGED <<subject, market, live, stake, late_lp, escrow, lp_vault, gifts, ledger>>
    BY <1>4 DEF vars
  <2>2. \A o \in Outcomes : Staked(o)' = Staked(o) /\ LateLp(o)' = LateLp(o)
                           /\ LpPaid(o)' = LpPaid(o)
    BY <2>1 DEF Staked, LateLp, LpPaid
  <2>3. QED
    BY <2>1, <2>2 DEF BooksInv, Books, Gone, Fresh, EscrowBooks, LpBooks, BasisBooks, Exists,
       Unsplit, Terminal
<1>5. QED
  BY <1>1, <1>2, <1>3, <1>4, OutsideBooks, SubjectBooks DEF Next, MarketNext

LEMMA BooksInvariant == Spec => [](TypeOK /\ LifeInv /\ BooksInv)
<1>1. Init => BooksInv
  BY DEF Init, BooksInv, Books, Gone, Fresh, Exists
<1>2. QED
  BY <1>1, BooksNext, LifeInvariant, PTL DEF Spec

\* Until activation, and after a cancellation, escrow holds every stake still
\* owed and each contributor is owed or was paid exactly what they put in;
\* once the stakes are in the pool it holds nothing but gifts.
THEOREM EscrowIsBacked == Spec => []EscrowBacked
<1>1. TypeOK /\ BooksInv => EscrowBacked
  BY DEF BooksInv, Books, EscrowBooks, EscrowBacked
<1>2. QED
  BY <1>1, BooksInvariant, PTL

(***************************************************************************)
(* What the shares add up to                                               *)
(***************************************************************************)
\* FloorShare of a stake and late LP, out of the market record alone.
ShareOf(m, s, l) ==
    IF m.gross_lp_total = m.activation_lp
    THEN ProRataShare(m.lp_total, s, m.total_contributed)
    ELSE GrossLpShare(m.lp_total,
                      GrossLp(m.activation_lp, m.activation_contributed, s, l),
                      m.gross_lp_total)

\* What LpBooks says of a market record, and of a record of no late LP.
Sound(m) ==
    /\ m.lp_total \in Nat /\ m.gross_lp_total \in Nat /\ m.activation_lp \in Nat
    /\ m.activation_contributed \in Nat /\ m.total_contributed \in Nat
    /\ m.lp_total <= m.gross_lp_total /\ m.activation_lp <= m.gross_lp_total
    /\ 0 < m.activation_contributed /\ m.activation_contributed <= m.total_contributed
    /\ m.gross_lp_total = m.activation_lp => m.total_contributed = m.activation_contributed

\* Weighted by the part of LP ever minted a contribution stands for.
LEMMA GrossLpBounds ==
    ASSUME NEW m, Sound(m), NEW s \in Nat, NEW l \in Nat
    PROVE  LET funded == (m.activation_lp * s) \div m.activation_contributed
           IN  /\ funded \in Nat
               /\ GrossLp(m.activation_lp, m.activation_contributed, s, l) = l + funded
               /\ funded * m.activation_contributed <= m.activation_lp * s
               /\ m.activation_lp * s < (funded + 1) * m.activation_contributed
<1>1. m.activation_lp * s \in Nat
  BY ProductNat DEF Sound
<1>2. QED
  BY <1>1, DivFloor DEF Sound, GrossLp

LEMMA ShareOfNat ==
    ASSUME NEW m, Sound(m), NEW s \in Nat, NEW l \in Nat
    PROVE  LET w == IF m.gross_lp_total = m.activation_lp THEN s
                    ELSE GrossLp(m.activation_lp, m.activation_contributed, s, l)
               d == IF m.gross_lp_total = m.activation_lp THEN m.total_contributed
                    ELSE m.gross_lp_total
           IN  /\ w \in Nat /\ d \in Nat /\ d > 0
               /\ ShareOf(m, s, l) \in Nat
               /\ ShareOf(m, s, l) * d <= m.lp_total * w
               /\ m.lp_total * w < (ShareOf(m, s, l) + 1) * d
<1> DEFINE g == GrossLp(m.activation_lp, m.activation_contributed, s, l)
<1>1. g \in Nat
  BY GrossLpBounds
<1> HIDE DEF g
<1>2. m.lp_total * s \in Nat /\ m.lp_total * g \in Nat
  BY <1>1, ProductNat DEF Sound
<1>3. CASE m.gross_lp_total = m.activation_lp
  BY <1>2, <1>3, DivFloor DEF Sound, ShareOf, ProRataShare
<1>4. CASE m.gross_lp_total # m.activation_lp
  <2>1. m.gross_lp_total > 0
    BY <1>4 DEF Sound
  <2>2. ShareOf(m, s, l) = (m.lp_total * g) \div m.gross_lp_total
    BY <1>4 DEF ShareOf, GrossLpShare, g
  <2>3. /\ (m.lp_total * g) \div m.gross_lp_total \in Nat
        /\ ((m.lp_total * g) \div m.gross_lp_total) * m.gross_lp_total <= m.lp_total * g
        /\ m.lp_total * g < ((m.lp_total * g) \div m.gross_lp_total + 1) * m.gross_lp_total
    BY <1>2, <2>1, DivFloor DEF Sound
  <2>4. QED
    BY <1>1, <1>4, <2>1, <2>2, <2>3 DEF Sound, g
<1>5. QED
  BY <1>3, <1>4

\* Whoever is still in, their shares add up to no more than the LP shared.
LEMMA SharesCovered ==
    ASSUME NEW m, Sound(m), NEW s \in [Users -> Nat], NEW l \in [Users -> Nat],
           Total(s, Users) = m.activation_contributed,
           m.gross_lp_total = m.activation_lp + Total(l, Users),
           NEW share, \A u \in Users : share[u] = ShareOf(m, s[u], l[u]),
           NEW in \in SUBSET Users
    PROVE  Total(share, in) <= m.lp_total
<1> USE ConstantsAssumption
<1>1. IsFiniteSet(Users) /\ \A u \in Users : share[u] \in Nat /\ s[u] \in Nat /\ l[u] \in Nat
  <2>1. ASSUME NEW u \in Users PROVE share[u] \in Nat
    <3>1. s[u] \in Nat /\ l[u] \in Nat /\ share[u] = ShareOf(m, s[u], l[u])
      OBVIOUS
    <3>2. QED
      BY <3>1, ShareOfNat
  <2>2. QED
    BY <2>1
<1>2. Total(share, Users) <= m.lp_total
  <2>1. CASE m.gross_lp_total = m.activation_lp
    <3>1. \A u \in Users : share[u] * m.total_contributed <= m.lp_total * s[u]
      BY <1>1, <2>1, ShareOfNat
    <3>2. /\ m.lp_total \in Nat /\ m.total_contributed \in Nat
          /\ m.total_contributed > 0 /\ Total(s, Users) <= m.total_contributed
      BY <2>1 DEF Sound
    <3>3. QED
      BY <1>1, <3>1, <3>2, Apportioned
  <2>2. CASE m.gross_lp_total # m.activation_lp
    <3> DEFINE funded == [u \in Users |->
                             (m.activation_lp * s[u]) \div m.activation_contributed]
               gross  == [u \in Users |-> GrossLp(m.activation_lp, m.activation_contributed,
                                                  s[u], l[u])]
    <3>1. \A u \in Users :
             /\ funded[u] \in Nat /\ gross[u] \in Nat
             /\ gross[u] = 1 * l[u] + 1 * funded[u]
             /\ funded[u] * m.activation_contributed <= m.activation_lp * s[u]
      BY <1>1, GrossLpBounds
    <3>2. \A u \in Users : share[u] * m.gross_lp_total <= m.lp_total * gross[u]
      BY <1>1, <2>2, ShareOfNat
    <3> HIDE DEF funded, gross
    <3>3. Total(funded, Users) <= m.activation_lp
      <4>1. /\ m.activation_lp \in Nat /\ m.activation_contributed \in Nat
            /\ m.activation_contributed > 0 /\ Total(s, Users) <= m.activation_contributed
        BY DEF Sound
      <4>2. \A u \in Users : /\ funded[u] \in Nat /\ s[u] \in Nat
                           /\ funded[u] * m.activation_contributed <= m.activation_lp * s[u]
        BY <1>1, <3>1
      <4>3. QED
        BY <4>1, <4>2, Apportioned
    <3>4. Total(gross, Users) = 1 * Total(l, Users) + 1 * Total(funded, Users)
      BY <1>1, <3>1, TotalLinear
    <3>5. Total(funded, Users) \in Nat /\ Total(l, Users) \in Nat
      BY <1>1, <3>1, TotalNat
    <3>6. Total(gross, Users) <= m.gross_lp_total
      BY <3>3, <3>4, <3>5 DEF Sound
    <3>7. m.gross_lp_total > 0
      BY <2>2 DEF Sound
    <3>8. QED
      BY <1>1, <3>1, <3>2, <3>6, <3>7, Apportioned DEF Sound
  <2>3. QED
    BY <2>1, <2>2
<1>3. Total(share, in) <= Total(share, Users)
  BY <1>1, TotalOfPart
<1>4. IsFiniteSet(in)
  BY FS_Subset
<1>5. Total(share, in) \in Nat /\ Total(share, Users) \in Nat
  BY <1>1, <1>4, TotalNat
<1>6. QED
  BY <1>2, <1>3, <1>5 DEF Sound

(***************************************************************************)
(* Claims, as the counter has them: while it is above zero                 *)
(***************************************************************************)
\* What is left in the vault, in the units entitlements are in.
Den(o)    == market[o].gross_lp_total * market[o].activation_contributed
Num(o, u) == market[o].lp_total * (market[o].activation_lp * stake[o][u]
                                   + market[o].activation_contributed * late_lp[o][u])
Owing(o)  == Total([u \in Users |-> Num(o, u)], live[o])
Dust(o)   == 2 * Cardinality(Users \ live[o]) + gifts[o].lp

\* While claims are open the vault covers every share still owed; it holds more
\* than the entitlements only by what rounding kept back from those who left,
\* and gifts.  The claimer the counter takes for the last one sweeps it.
OpenClaims(o) ==
    /\ market[o].open_contributions = 0 => lp_vault[o] <= gifts[o].lp
    /\ market[o].open_contributions > 0 =>
         /\ LpOwed(o) <= lp_vault[o]
         /\ lp_vault[o] * Den(o) <= Owing(o) + Dust(o) * Den(o)

Claims(o) ==
    /\ ~Exists(o) => escrow[o] <= gifts[o].sol + Staked(o) /\ lp_vault[o] <= gifts[o].lp
    /\ Exists(o) /\ market[o].status # "Cancelled" /\ market[o].fee_collected = 0
           => market[o].open_contributions > 0
    /\ Exists(o) /\ market[o].fee_collected = 1 => OpenClaims(o)

ClaimsInv == \A o \in Outcomes : Claims(o)

LEMMA ClaimsStep ==
    ASSUME ClaimsInv, NEW o \in Outcomes, Aside(o), Claims(o)'
    PROVE  ClaimsInv'
<1>1. ASSUME NEW p \in Outcomes \ {o} PROVE Claims(p)'
  <2>1. Claims(p)
    BY DEF ClaimsInv
  <2>2. LpOwed(p)' = LpOwed(p) /\ Owing(p)' = Owing(p) /\ Staked(p)' = Staked(p)
    BY DEF Aside, LpOwed, FloorShare, Owing, Num, Staked
  <2>3. QED
    BY <2>1, <2>2 DEF Aside, Claims, OpenClaims, Exists, Den, Dust
<1>2. QED
  BY <1>1 DEF ClaimsInv

\* The record of a market in the pool.
LEMMA RecordSound ==
    ASSUME TypeOK, BooksInv, NEW o \in Outcomes, Exists(o), ~Unsplit(o)
    PROVE  Sound(market[o]) /\ LpBooks(o)
<1>1. market[o] \in Market /\ LpBooks(o)
  BY DEF TypeOK, Exists, BooksInv, Books
<1>2. QED
  BY <1>1 DEF Sound, LpBooks, Market

LEMMA FloorShareOf ==
    ASSUME NEW o \in Outcomes, NEW u \in Users
    PROVE  FloorShare(o, u) = ShareOf(market[o], stake[o][u], late_lp[o][u])
BY DEF FloorShare, ShareOf

\* A share and the entitlement it rounds.
LEMMA ShareIsFair ==
    ASSUME TypeOK, BooksInv, NEW o \in Outcomes, Exists(o), ~Unsplit(o), NEW u \in Users
    PROVE  /\ FloorShare(o, u) \in Nat /\ Den(o) \in Nat /\ Num(o, u) \in Nat
           /\ FloorShare(o, u) * Den(o) <= Num(o, u)
           /\ Num(o, u) <= (FloorShare(o, u) + 2) * Den(o)
<1> DEFINE m == market[o]
           s == stake[o][u]
           l == late_lp[o][u]
           share == ShareOf(m, s, l)
           T == m.lp_total
           A == m.activation_lp
           C == m.activation_contributed
           G == m.gross_lp_total
<1>1. Sound(m) /\ LpBooks(o) /\ s \in Nat /\ l \in Nat
  BY RecordSound DEF TypeOK
<1>2. FloorShare(o, u) = share
  BY FloorShareOf
<1>3. T \in Nat /\ A \in Nat /\ C \in Nat /\ G \in Nat /\ T <= G /\ A <= G /\ C > 0
  BY <1>1 DEF Sound
<1>4. share \in Nat
  BY <1>1, ShareOfNat
<1>5. Den(o) = G * C /\ Num(o, u) = T * (A * s + C * l)
  BY DEF Den, Num
<1>6. G * C \in Nat /\ A * s \in Nat /\ C * l \in Nat /\ T * (A * s + C * l) \in Nat
  <2> HIDE DEF T, A, C, G, s, l
  <2>1. G * C \in Nat /\ A * s \in Nat /\ C * l \in Nat
    BY <1>1, <1>3, ProductNat
  <2>2. A * s + C * l \in Nat
    BY <2>1
  <2>3. QED
    BY <1>3, <2>1, <2>2, ProductNat
<1>7. CASE G = A
  <2>1. l = 0 /\ m.total_contributed = C
    BY <1>1, <1>7 DEF LpBooks
  <2>2. share * C <= T * s /\ T * s < (share + 1) * C
    BY <1>1, <1>7, <2>1, ShareOfNat
  <2> HIDE DEF share, T, A, C, G, s, l
  <2>3. share * C \in Nat /\ T * s \in Nat /\ (share + 1) * C \in Nat
    BY <1>1, <1>3, <1>4, ProductNat
  <2>4. (share * C) * A <= (T * s) * A /\ (T * s) * A <= ((share + 1) * C) * A
    BY <1>3, <2>2, <2>3, ProductMonotone
  <2>5. /\ (share * C) * A = share * (G * C) /\ (T * s) * A = T * (A * s + C * l)
        /\ ((share + 1) * C) * A = share * (G * C) + G * C
    BY <1>1, <1>3, <1>4, <1>7, <2>1
  <2>6. (share + 2) * (G * C) = share * (G * C) + G * C + G * C /\ share * (G * C) \in Nat
    BY <1>4, <1>6, ProductNat
  <2>7. QED
    BY <1>2, <1>4, <1>5, <1>6, <2>4, <2>5, <2>6
<1>8. CASE G # A
  <2> DEFINE w == GrossLp(A, C, s, l)
  <2>1. w \in Nat /\ share * G <= T * w /\ T * w < (share + 1) * G
    BY <1>1, <1>8, ShareOfNat
  <2>2. w * C <= A * s + C * l /\ A * s + C * l <= (w + 1) * C
    <3> DEFINE f == (A * s) \div C
    <3>1. f \in Nat /\ w = l + f /\ f * C <= A * s /\ A * s < (f + 1) * C
      BY <1>1, GrossLpBounds
    <3> HIDE DEF f, w, A, C, G, T, s, l, share
    <3>2. w * C = C * l + f * C /\ (w + 1) * C = C * l + (f + 1) * C
      BY <1>1, <1>3, <3>1
    <3>3. f * C \in Nat /\ (f + 1) * C \in Nat
      BY <1>3, <3>1, ProductNat
    <3>4. QED
      BY <1>6, <3>1, <3>2, <3>3
  <2> HIDE DEF w, share, T, A, C, G, s, l
  <2> DEFINE e == A * s + C * l
  <2>3. e \in Nat /\ w * C \in Nat /\ (w + 1) * C \in Nat
    BY <1>3, <1>6, <2>1, ProductNat
  <2>4. (w * C) * T <= e * T /\ e * T <= ((w + 1) * C) * T
    BY <1>3, <2>2, <2>3, ProductMonotone
  <2>5. share * G \in Nat /\ T * w \in Nat /\ (share + 1) * G \in Nat
    BY <1>3, <1>4, <2>1, ProductNat
  <2>6. (share * G) * C <= (T * w) * C /\ (T * w) * C <= ((share + 1) * G) * C
    BY <1>3, <2>1, <2>5, ProductMonotone
  <2>7. T * C <= G * C
    BY <1>3, ProductMonotone
  <2>8. /\ (w * C) * T = (T * w) * C /\ ((w + 1) * C) * T = (T * w) * C + T * C
        /\ e * T = T * e
    BY <1>3, <2>1, <2>3
  <2>9. /\ (share * G) * C = share * (G * C)
        /\ ((share + 1) * G) * C = share * (G * C) + G * C
        /\ (share + 2) * (G * C) = share * (G * C) + G * C + G * C
    BY <1>3, <1>4
  <2>10. /\ (T * w) * C \in Nat /\ T * C \in Nat /\ share * (G * C) \in Nat /\ T * e \in Nat
    BY <1>3, <1>4, <1>6, <2>3, <2>5, ProductNat
  <2>11. share * (G * C) <= T * e /\ T * e <= (share + 2) * (G * C)
    BY <1>6, <2>4, <2>6, <2>7, <2>8, <2>9, <2>10
  <2>12. QED
    BY <1>2, <1>4, <1>5, <1>6, <2>11 DEF e
<1>9. QED
  BY <1>7, <1>8

\* Until the fee is cut, all that anyone is entitled to is all of the LP.
LEMMA EntitledToAll ==
    ASSUME NEW m, Sound(m), NEW s \in [Users -> Nat], NEW l \in [Users -> Nat],
           Total(s, Users) = m.activation_contributed,
           m.gross_lp_total = m.activation_lp + Total(l, Users),
           NEW in \in SUBSET Users, \A u \in Users \ in : s[u] = 0 /\ l[u] = 0,
           NEW num, \A u \in Users : num[u] = m.lp_total * (m.activation_lp * s[u]
                                                 + m.activation_contributed * l[u])
    PROVE  Total(num, in) = m.lp_total * (m.gross_lp_total * m.activation_contributed)
<1> DEFINE T == m.lp_total
           A == m.activation_lp
           C == m.activation_contributed
           h == [u \in Users |-> A * s[u] + C * l[u]]
<1>1. IsFiniteSet(Users) /\ T \in Nat /\ A \in Nat /\ C \in Nat
  BY ConstantsAssumption DEF Sound
<1>2. \A u \in Users : /\ s[u] \in Nat /\ l[u] \in Nat /\ h[u] = A * s[u] + C * l[u]
                       /\ num[u] = T * h[u]
  OBVIOUS
<1> HIDE DEF h, T, A, C
<1>3. \A u \in Users : h[u] \in Nat
  <2>1. ASSUME NEW u \in Users PROVE h[u] \in Nat
    <3>1. A * s[u] \in Nat /\ C * l[u] \in Nat
      BY <1>1, <1>2, ProductNat
    <3>2. QED
      BY <1>2, <3>1
  <2>2. QED
    BY <2>1
<1>4. Total(h, Users) = A * Total(s, Users) + C * Total(l, Users)
  BY <1>1, <1>2, TotalLinear
<1>5. Total(num, Users) = T * Total(h, Users)
  BY <1>1, <1>2, <1>3, TotalScaled
<1>6. Total(num, in) = Total(num, Users)
  <2>1. ASSUME NEW u \in Users \ in PROVE num[u] = 0
    BY <1>1, <1>2 DEF A, C, T
  <2>2. QED
    BY <2>1, TotalOfSupport
<1>7. Total(h, Users) = (A + Total(l, Users)) * C
  <2>1. Total(l, Users) \in Nat
    BY <1>1, TotalNat
  <2>2. Total(s, Users) = C
    BY DEF C
  <2>3. QED
    BY <1>1, <1>4, <2>1, <2>2
<1>8. QED
  BY <1>5, <1>6, <1>7 DEF A, C, T

\* The fee is settled: claims open with every share covered.
LEMMA ClaimsOpen ==
    ASSUME TypeOK, TypeOK', BooksInv, NEW o \in Outcomes, Exists(o), ~Unsplit(o),
           market[o].fee_collected = 0, market[o].open_contributions > 0,
           market'[o].open_contributions = market[o].open_contributions,
           market'[o] \in Market, SameBasis(o), market'[o].lp_total <= market[o].lp_total,
           lp_vault'[o] = market'[o].lp_total + gifts'[o].lp,
           UNCHANGED <<live, stake, late_lp, gifts>>
    PROVE  OpenClaims(o)'
<1> DEFINE m == market'[o]
           s == stake[o]
           l == late_lp[o]
           share == [u \in Users |-> FloorShare(o, u)']
           num == [u \in Users |-> Num(o, u)']
<1>1. Sound(market[o]) /\ LpBooks(o) /\ BasisBooks(o) /\ Gone(o)
  BY RecordSound DEF LpBooks, BooksInv, Books
<1>2. Sound(m)
  BY <1>1 DEF Sound, SameBasis, Market
<1>3. /\ s \in [Users -> Nat] /\ l \in [Users -> Nat] /\ live[o] \in SUBSET Users
      /\ Total(s, Users) = m.activation_contributed
      /\ m.gross_lp_total = m.activation_lp + Total(l, Users)
      /\ \A u \in Users \ live[o] : s[u] = 0 /\ l[u] = 0
  BY <1>1 DEF TypeOK, BasisBooks, Staked, LateLp, SameBasis, Gone
<1>4. \A u \in Users : share[u] = ShareOf(m, s[u], l[u])
  BY DEF FloorShare, ShareOf
<1>5. \A u \in Users : num[u] = m.lp_total * (m.activation_lp * s[u]
                                               + m.activation_contributed * l[u])
  BY DEF Num
<1>6. LpOwed(o)' = Total(share, live[o]) /\ Owing(o)' = Total(num, live[o])
  BY DEF LpOwed, Owing
<1> HIDE DEF share, num, m, s, l
<1>7. Total(share, live[o]) <= m.lp_total
  BY <1>2, <1>3, <1>4, SharesCovered
<1>8. Total(num, live[o]) = m.lp_total * Den(o)'
  BY <1>2, <1>3, <1>5, EntitledToAll DEF Den, m
<1>9. gifts'[o].lp \in Nat /\ m.lp_total \in Nat /\ Den(o)' \in Nat
  <2>1. gifts'[o] \in [sol : Nat, lp : Nat]
    BY DEF TypeOK
  <2>2. QED
    BY <1>2, <2>1, ProductNat DEF Sound, Den, m
<1>10. LpOwed(o)' <= lp_vault'[o]
  <2>1. Total(share, live[o]) \in Nat
    <3>1. IsFiniteSet(live[o])
      BY <1>3, FS_Subset, ConstantsAssumption
    <3>2. ASSUME NEW u \in live[o] PROVE share[u] \in Nat
      <4>1. s[u] \in Nat /\ l[u] \in Nat /\ share[u] = ShareOf(m, s[u], l[u])
        BY <1>3, <1>4
      <4>2. QED
        BY <1>2, <4>1, ShareOfNat
    <3>3. QED
      BY <3>1, <3>2, TotalNat
  <2>2. QED
    BY <1>6, <1>7, <1>9, <2>1 DEF m
<1>11. lp_vault'[o] * Den(o)' <= Owing(o)' + Dust(o)' * Den(o)'
  <2> DEFINE d == Den(o)'
             g == gifts'[o].lp
             c == Cardinality(Users \ live'[o])
  <2>1. c \in Nat
    BY FS_Difference, FS_CardinalityType, ConstantsAssumption
  <2>2. Dust(o)' = 2 * c + g /\ lp_vault'[o] = m.lp_total + g /\ Owing(o)' = m.lp_total * d
    BY <1>6, <1>8 DEF Dust, m
  <2> HIDE DEF d, g, c
  <2>3. d \in Nat /\ g \in Nat
    BY <1>9 DEF d, g
  <2>4. /\ (m.lp_total + g) * d = m.lp_total * d + g * d
        /\ (2 * c + g) * d = 2 * (c * d) + g * d
        /\ m.lp_total * d \in Nat /\ g * d \in Nat /\ c * d \in Nat
    BY <1>9, <2>1, <2>3, ProductNat
  <2>5. QED
    BY <2>2, <2>4 DEF d
<1>12. QED
  BY <1>10, <1>11 DEF OpenClaims

(***************************************************************************)
(* What each instruction does to the claims                                *)
(***************************************************************************)
LEMMA FundingAside ==
    ASSUME TypeOK, NEW o \in Outcomes, FundingNext(o)
    PROVE  Aside(o)
<1>1. ASSUME NEW u \in Users, NEW a \in Nat, RecordContribution(o, u, a),
             UNCHANGED <<subject, lp_vault, gifts>>,
             \A p \in Outcomes \ {o} : market'[p] = market[p]
      PROVE  Aside(o)
  BY <1>1 DEF RecordContribution, Aside, TypeOK
<1>2. ASSUME NEW u \in Users, NEW a \in Deposits, NEW floor \in Floors, NEW fee \in FeeRates,
             CreateMarket(o, u, a, floor, fee)
      PROVE  Aside(o)
  <2>1. RecordContribution(o, u, a) /\ UNCHANGED <<subject, lp_vault, gifts>>
    BY <1>2, Zenon DEF CreateMarket
  <2>2. \A p \in Outcomes \ {o} : market'[p] = market[p]
    BY <1>2 DEF CreateMarket, TypeOK
  <2>3. QED
    BY <1>1, <2>1, <2>2, ConstantsAssumption
<1>3. ASSUME NEW u \in Users, NEW a \in Deposits, Contribute(o, u, a)
      PROVE  Aside(o)
  <2>1. RecordContribution(o, u, a) /\ UNCHANGED <<subject, lp_vault, gifts>>
    BY <1>3, Zenon DEF Contribute
  <2>2. \A p \in Outcomes \ {o} : market'[p] = market[p]
    BY <1>3 DEF Contribute, TypeOK
  <2>3. QED
    BY <1>1, <2>1, <2>2, ConstantsAssumption
<1>4. CASE Cancel(o)
  BY <1>4 DEF Cancel, accounts, vaults, history, Aside, TypeOK
<1>5. ASSUME NEW u \in Users, Refund(o, u)
      PROVE  Aside(o)
  BY <1>5 DEF Refund, CloseContribution, Aside, TypeOK
<1>6. QED
  BY <1>2, <1>3, <1>4, <1>5 DEF FundingNext

LEMMA TradingAside ==
    ASSUME TypeOK, NEW o \in Outcomes, TradingNext(o)
    PROVE  Aside(o)
<1>1. ASSUME NEW pool \in Pools \cup {EmptyPool}, NEW lp \in ActivationLps,
             Activate(o, pool, lp)
      PROVE  Aside(o)
  BY <1>1 DEF Activate, accounts, history, Aside, TypeOK
<1>2. ASSUME NEW u \in Users, NEW a \in Deposits, NEW lp \in LateLps, AddLiquidity(o, u, a, lp)
      PROVE  Aside(o)
  BY <1>2 DEF AddLiquidity, RecordLateLp, history, Aside, TypeOK
<1>3. QED
  BY <1>1, <1>2 DEF TradingNext

LEMMA FundingClaims ==
    ASSUME TypeOK, TypeOK', LifeInv', BooksInv, BooksInv', ClaimsInv, NEW o \in Outcomes,
           FundingNext(o)
    PROVE  ClaimsInv'
<1>1. \/ market'[o].status = "Funding" /\ market'[o].open_contributions > 0
      \/ market'[o].status = "Cancelled"
  <2>1. ASSUME NEW u \in Users, NEW a \in Deposits, NEW floor \in Floors, NEW fee \in FeeRates,
               CreateMarket(o, u, a, floor, fee)
        PROVE  market'[o].status = "Funding" /\ market'[o].open_contributions > 0
    BY <2>1 DEF CreateMarket, TypeOK
  <2>2. ASSUME NEW u \in Users, NEW a \in Deposits, Contribute(o, u, a)
        PROVE  market'[o].status = "Funding" /\ market'[o].open_contributions > 0
    <3>1. market[o] \in Market /\ Exists(o) /\ market[o].status = "Funding"
      BY <2>2, StatusMeansMarket, MarketIsNotNone, Zenon DEF TypeOK, Contribute, Exists
    <3>2. market[o].open_contributions > 0
      BY <3>1 DEF BooksInv, Books, Unsplit, ClaimsInv, Claims
    <3>3. QED
      BY <2>2, <3>1, <3>2 DEF Contribute, TypeOK, Market
  <2>3. CASE Cancel(o)
    <3>1. market[o] \in Market
      BY <2>3, StatusMeansMarket, Zenon DEF TypeOK, Cancel, CancelAccepted
    <3>2. QED
      BY <2>3, <3>1 DEF Cancel, TypeOK, Market
  <2>4. ASSUME NEW u \in Users, Refund(o, u)
        PROVE  market'[o].status = "Cancelled"
    <3>1. market[o] \in Market /\ market[o].status = "Cancelled" /\ CloseContribution(o, u)
      BY <2>4, StatusMeansMarket, Zenon DEF TypeOK, Refund, RefundAccepted
    <3>2. QED
      BY <3>1, ContributionClosed
  <2>5. QED
    BY <2>1, <2>2, <2>3, <2>4 DEF FundingNext
<1>2. Exists(o)'
  <2>1. NoMarket.status = "None"
    BY DEF NoMarket
  <2>2. QED
    BY <1>1, <2>1 DEF Exists
<1>3. market'[o].fee_collected = 0
  BY <1>1, <1>2 DEF LifeInv, Life, BooksInv, Books, Unsplit
<1>4. Claims(o)'
  BY <1>1, <1>2, <1>3 DEF Claims
<1>5. QED
  BY <1>4, FundingAside, ClaimsStep

LEMMA TradingClaims ==
    ASSUME TypeOK, TypeOK', LifeInv, LifeInv', BooksInv, BooksInv', ClaimsInv,
           NEW o \in Outcomes, TradingNext(o)
    PROVE  ClaimsInv'
<1>1. market'[o].status = "Active" /\ market'[o].open_contributions > 0
  <2>1. ASSUME NEW pool \in Pools \cup {EmptyPool}, NEW lp \in ActivationLps,
               Activate(o, pool, lp)
        PROVE  market'[o].status = "Active" /\ market'[o].open_contributions > 0
    <3>1. market[o] \in Market /\ Exists(o) /\ market[o].status = "Funding"
      BY <2>1, StatusMeansMarket, MarketIsNotNone, Zenon
        DEF TypeOK, Activate, ActivateAccepted, Exists
    <3>2. market[o].open_contributions > 0
      BY <3>1 DEF BooksInv, Books, Unsplit, ClaimsInv, Claims
    <3>3. QED
      BY <2>1, <3>1, <3>2 DEF Activate, TypeOK, Market
  <2>2. ASSUME NEW u \in Users, NEW a \in Deposits, NEW lp \in LateLps, AddLiquidity(o, u, a, lp)
        PROVE  market'[o].status = "Active" /\ market'[o].open_contributions > 0
    <3>1. market[o] \in Market /\ Exists(o) /\ market[o].status = "Active"
      BY <2>2, StatusMeansMarket, MarketIsNotNone, Zenon DEF TypeOK, AddLiquidity, Exists
    <3>2. market[o].open_contributions > 0
      BY <3>1 DEF LifeInv, Life, ClaimsInv, Claims
    <3>3. QED
      BY <2>2, <3>1, <3>2 DEF AddLiquidity, TypeOK, Market
  <2>3. QED
    BY <2>1, <2>2 DEF TradingNext
<1>2. Exists(o)'
  <2>1. NoMarket.status = "None"
    BY DEF NoMarket
  <2>2. QED
    BY <1>1, <2>1 DEF Exists
<1>3. market'[o].fee_collected = 0
  BY <1>1, <1>2 DEF LifeInv, Life
<1>4. Claims(o)'
  BY <1>1, <1>2, <1>3 DEF Claims
<1>5. QED
  BY <1>4, TradingAside, ClaimsStep

LEMMA ResolveMarketClaims ==
    ASSUME TypeOK, TypeOK', LifeInv, BooksInv, ClaimsInv, NEW o \in Outcomes, ResolveMarket(o)
    PROVE  ClaimsInv'
<1>1. /\ market[o].fee_collected = 0 /\ market[o].open_contributions > 0
      /\ ~Unsplit(o) /\ Exists(o)
  BY MarketResolved DEF LifeInv, Life, ClaimsInv, Claims, Unsplit
<1>2. LpBooks(o) /\ BasisBooks(o)
  BY <1>1, RecordSound DEF LpBooks
<1>3. lp_vault[o] = market[o].lp_total + gifts[o].lp
  <2>1. LpPaid(o) = 0
    BY <1>2, TotalOfZeros DEF LpPaid, BasisBooks
  <2>2. lp_vault[o] \in Nat
    BY DEF TypeOK
  <2>3. QED
    BY <1>2, <2>1, <2>2 DEF LpBooks
<1>4. OpenClaims(o)'
  <2>1. market[o].lp_total \in Nat
    BY MarketResolved DEF Market
  <2>2. QED
    BY <1>1, <1>3, <2>1, MarketResolved, ClaimsOpen
<1>5. Claims(o)'
  BY <1>1, <1>4, MarketResolved DEF Claims
<1>6. QED
  BY <1>5, MarketResolved, ClaimsStep

LEMMA CollectFeeClaims ==
    ASSUME TypeOK, TypeOK', BooksInv, ClaimsInv, NEW o \in Outcomes, NEW pool \in Pools,
           CollectFee(o, pool)
    PROVE  ClaimsInv'
<1>1. /\ market[o].fee_collected = 0 /\ market[o].open_contributions > 0
      /\ ~Unsplit(o) /\ Exists(o) /\ market[o] \in Market
  BY FeeCollected DEF ClaimsInv, Claims, Unsplit, Settled
<1>2. LpBooks(o) /\ BasisBooks(o)
  BY <1>1, RecordSound DEF LpBooks
<1>3. lp_vault[o] = market[o].lp_total + gifts[o].lp
  <2>1. LpPaid(o) = 0
    BY <1>2, TotalOfZeros DEF LpPaid, BasisBooks
  <2>2. lp_vault[o] \in Nat
    BY DEF TypeOK
  <2>3. QED
    BY <1>2, <2>1, <2>2 DEF LpBooks
<1>4. /\ market'[o].lp_total <= market[o].lp_total
      /\ lp_vault'[o] = market'[o].lp_total + gifts'[o].lp
  <2>1. PICK fee \in Nat :
            /\ fee <= market[o].lp_total /\ fee <= lp_vault[o]
            /\ market'[o].lp_total = market[o].lp_total - fee
            /\ lp_vault'[o] = lp_vault[o] - fee
    BY FeeCollected
  <2>2. market[o].lp_total \in Nat /\ gifts[o].lp \in Nat /\ gifts' = gifts
    BY <1>1, FeeCollected DEF Market, TypeOK
  <2>3. QED
    BY <1>3, <2>1, <2>2
<1>5. OpenClaims(o)'
  BY <1>1, <1>4, FeeCollected, ClaimsOpen
<1>6. Claims(o)'
  BY <1>5, FeeCollected DEF Claims
<1>7. QED
  BY <1>6, FeeCollected, ClaimsStep

\* One wallet less is in: one more is out.
LEMMA OutGrows ==
    ASSUME TypeOK, NEW o \in Outcomes, NEW u \in live[o]
    PROVE  /\ Cardinality(Users \ live[o]) \in Nat
           /\ Cardinality(Users \ (live[o] \ {u})) = Cardinality(Users \ live[o]) + 1
<1>1. IsFiniteSet(Users \ live[o]) /\ u \in Users /\ u \notin Users \ live[o]
  BY FS_Difference, ConstantsAssumption DEF TypeOK
<1>2. Users \ (live[o] \ {u}) = (Users \ live[o]) \cup {u}
  BY <1>1
<1>3. QED
  BY <1>1, <1>2, FS_AddElement, FS_CardinalityType

\* A claim that is not the last takes its own share out of what is owed, and
\* leaves at most two more LP of rounding behind.
LEMMA ClaimKeepsOpen ==
    ASSUME TypeOK, TypeOK', BooksInv, NEW o \in Outcomes, Exists(o), ~Unsplit(o),
           OpenClaims(o), NEW u \in live[o], live'[o] = live[o] \ {u},
           market[o].open_contributions > 0, market'[o].open_contributions > 0,
           lp_vault'[o] = lp_vault[o] - FloorShare(o, u), SameBasis(o),
           market'[o].lp_total = market[o].lp_total, UNCHANGED gifts,
           \A v \in Users \ {u} : stake'[o][v] = stake[o][v] /\ late_lp'[o][v] = late_lp[o][v]
    PROVE  OpenClaims(o)'
<1> DEFINE share == [v \in Users |-> FloorShare(o, v)]
           num   == [v \in Users |-> Num(o, v)]
           after == [v \in Users |-> FloorShare(o, v)']
           left  == [v \in Users |-> Num(o, v)']
           d == Den(o)
           b == lp_vault[o]
           w == Dust(o)
           r == Total(num, live'[o])
           n == num[u]
           s == share[u]
<1>1. live[o] \in SUBSET Users /\ u \in Users /\ IsFiniteSet(live[o])
  BY FS_Subset, ConstantsAssumption DEF TypeOK
<1>2. \A v \in Users : /\ share[v] \in Nat /\ num[v] \in Nat /\ d \in Nat
                       /\ share[v] * d <= num[v] /\ num[v] <= (share[v] + 2) * d
  BY ShareIsFair
<1>3. \A v \in live'[o] : after[v] = share[v] /\ left[v] = num[v]
  <2>1. ASSUME NEW v \in live'[o] PROVE FloorShare(o, v)' = FloorShare(o, v)
    BY <1>1, FloorShareOf DEF FloorShare, SameBasis
  <2>2. ASSUME NEW v \in live'[o] PROVE Num(o, v)' = Num(o, v)
    BY <1>1 DEF Num, SameBasis
  <2>3. QED
    BY <1>1, <2>1, <2>2
<1>4. /\ LpOwed(o) = Total(share, live[o]) /\ Owing(o) = Total(num, live[o])
      /\ LpOwed(o)' = Total(after, live'[o]) /\ Owing(o)' = Total(left, live'[o])
      /\ s = FloorShare(o, u)
  BY <1>1 DEF LpOwed, Owing
<1>5. Den(o)' = d
  BY DEF Den, SameBasis
<1> HIDE DEF share, num, after, left, d
<1>6. /\ Total(share, live[o]) = Total(share, live'[o]) + s /\ Total(share, live'[o]) \in Nat
      /\ Total(num, live[o]) = r + n /\ r \in Nat
  <2>1. \A v \in live[o] : share[v] \in Nat /\ num[v] \in Nat
    BY <1>1, <1>2
  <2>2. /\ Total(share, live[o]) = Total(share, live[o] \ {u}) + share[u]
        /\ Total(share, live[o] \ {u}) \in Nat
        /\ Total(num, live[o]) = Total(num, live[o] \ {u}) + num[u]
        /\ Total(num, live[o] \ {u}) \in Nat
    BY <1>1, <2>1, TotalSplit
  <2>3. QED
    BY <2>2
<1>7. Total(after, live'[o]) = Total(share, live'[o]) /\ Total(left, live'[o]) = r
  BY <1>3, TotalSame
<1>8. LpOwed(o)' <= lp_vault'[o]
  <2>1. lp_vault[o] \in Nat /\ s \in Nat
    BY <1>1, <1>2 DEF TypeOK
  <2>2. QED
    BY <1>4, <1>6, <1>7, <2>1 DEF OpenClaims
<1>9. Dust(o)' = w + 2 /\ w \in Nat
  <2>1. gifts[o].lp \in Nat
    <3>1. gifts[o] \in [sol : Nat, lp : Nat]
      BY DEF TypeOK
    <3>2. QED
      BY <3>1
  <2> DEFINE c == Cardinality(Users \ live[o])
  <2>2. c \in Nat /\ Cardinality(Users \ live'[o]) = c + 1
    BY OutGrows
  <2>3. w = 2 * c + gifts[o].lp /\ Dust(o)' = 2 * Cardinality(Users \ live'[o]) + gifts[o].lp
    BY DEF Dust
  <2> HIDE DEF c, w
  <2>4. QED
    BY <2>1, <2>2, <2>3
<1>10. b * d <= r + n + w * d
  BY <1>1, <1>4, <1>6 DEF OpenClaims, d
<1>11. /\ n \in Nat /\ s \in Nat /\ b \in Nat /\ d \in Nat /\ n <= (s + 2) * d
       /\ lp_vault'[o] = b - s
  BY <1>1, <1>2, <1>4 DEF TypeOK
<1> HIDE DEF b, w, r, n, s
<1>12. (b - s) * d <= r + (w + 2) * d
  <2>1. /\ (b - s) * d = b * d - s * d /\ (s + 2) * d = s * d + 2 * d
        /\ (w + 2) * d = w * d + 2 * d
    BY <1>9, <1>11
  <2>2. b * d \in Nat /\ s * d \in Nat /\ w * d \in Nat /\ 2 * d \in Nat
    BY <1>9, <1>11, ProductNat
  <2>3. QED
    BY <1>6, <1>10, <1>11, <2>1, <2>2
<1>13. QED
  BY <1>4, <1>5, <1>7, <1>8, <1>9, <1>11, <1>12 DEF OpenClaims

\* The claim the counter takes for the last one sweeps the vault; any other
\* takes its share.
LEMMA ClaimTakes ==
    ASSUME TypeOK, LifeInv, NEW o \in Outcomes, NEW u \in Users, ClaimLp(o, u)
    PROVE  /\ market[o].status \in Settled /\ ~Unsplit(o) /\ Exists(o) /\ SameBasis(o)
           /\ u \in live[o] /\ live'[o] = live[o] \ {u}
           /\ market[o].open_contributions \in Nat /\ market[o].open_contributions > 0
           /\ market'[o].open_contributions = market[o].open_contributions - 1
           /\ Share(o, u) = IF market[o].open_contributions = 1
                            THEN lp_vault[o] ELSE FloorShare(o, u)
<1>1. /\ Exists(o) /\ u \in live[o] /\ live'[o] = live[o] \ {u} /\ SameBasis(o)
      /\ market[o] \in Market /\ CloseContribution(o, u)
      /\ market'[o].open_contributions = market[o].open_contributions - 1
  BY LpClaimed, ContributionClosed DEF SameBasis
<1>2. market[o].status \in Settled /\ ~Unsplit(o)
  BY <1>1, LpClaimed DEF LifeInv, Life, Unsplit, Settled
<1>3. market[o].open_contributions \in Nat /\ market[o].open_contributions > 0
  BY <1>1 DEF Market, CloseContribution, Counted
<1>4. QED
  BY <1>1, <1>2, <1>3 DEF Share

LEMMA ClaimLpClaims ==
    ASSUME TypeOK, TypeOK', LifeInv, BooksInv, ClaimsInv, NEW o \in Outcomes,
           NEW u \in Users, ClaimLp(o, u)
    PROVE  ClaimsInv'
<1>1. /\ Exists(o) /\ OpenClaims(o) /\ ~Unsplit(o) /\ Exists(o)' /\ SameBasis(o) /\ Aside(o)
      /\ u \in live[o] /\ live'[o] = live[o] \ {u} /\ market'[o].fee_collected = 1
      /\ market'[o].lp_total = market[o].lp_total /\ UNCHANGED gifts
      /\ \A v \in Users \ {u} : stake'[o][v] = stake[o][v] /\ late_lp'[o][v] = late_lp[o][v]
  BY LpClaimed, ContributionClosed, ClaimTakes DEF ClaimsInv, Claims
<1> DEFINE c == market[o].open_contributions
           d == market'[o].open_contributions
<1>2. c \in Nat /\ c > 0 /\ d = c - 1
  BY ClaimTakes
<1>3. CASE c = 1
  <2>1. lp_vault'[o] = 0
    <3>1. lp_vault[o] \in Nat
      BY DEF TypeOK
    <3>2. Share(o, u) = lp_vault[o] /\ lp_vault'[o] = lp_vault[o] - Share(o, u)
      BY <1>3, LpClaimed, ClaimTakes
    <3>3. QED
      BY <3>1, <3>2
  <2>2. gifts'[o].lp \in Nat
    <3>1. gifts'[o] \in [sol : Nat, lp : Nat]
      BY DEF TypeOK
    <3>2. QED
      BY <3>1
  <2>3. d = 0
    BY <1>2, <1>3
  <2>4. OpenClaims(o)'
    BY <2>1, <2>2, <2>3 DEF OpenClaims
  <2>5. QED
    BY <1>1, <2>4, ClaimsStep DEF Claims
<1>4. CASE c # 1
  <2>1. lp_vault'[o] = lp_vault[o] - FloorShare(o, u)
    BY <1>4, LpClaimed, ClaimTakes
  <2>2. c > 0 /\ d > 0
    BY <1>2, <1>4
  <2>3. OpenClaims(o)'
    BY <1>1, <2>1, <2>2, ClaimKeepsOpen
  <2>4. QED
    BY <1>1, <2>3, ClaimsStep DEF Claims
<1>5. QED
  BY <1>3, <1>4

LEMMA CloseMarketClaims ==
    ASSUME TypeOK, LifeInv, BooksInv, ClaimsInv, NEW o \in Outcomes, CloseMarket(o)
    PROVE  ClaimsInv'
<1>1. market[o].open_contributions = 0 /\ Exists(o) /\ Staked(o)' = Staked(o)
  BY MarketReaped DEF Staked
<1>2. Books(o) /\ Claims(o)
  BY DEF BooksInv, ClaimsInv
<1>3. escrow[o] <= gifts[o].sol + Staked(o) /\ lp_vault[o] <= gifts[o].lp
  <2>1. gifts[o] \in [sol : Nat, lp : Nat] /\ escrow[o] \in Nat
    BY DEF TypeOK
  <2>2. Staked(o) \in Nat
    BY StakedNat
  <2>3. CASE Unsplit(o)
    BY <1>1, <1>2, <2>1, <2>2, <2>3 DEF Books, EscrowBooks, Fresh
  <2>4. CASE ~Unsplit(o)
    <3>1. market[o].fee_collected = 1
      BY <1>1, <1>2, <2>4, MarketReaped DEF Books
    <3>2. QED
      BY <1>1, <1>2, <2>1, <2>2, <2>4, <3>1 DEF Books, EscrowBooks, Claims, OpenClaims
  <2>5. QED
    BY <2>3, <2>4
<1>4. Claims(o)'
  BY <1>1, <1>3, MarketReaped DEF Claims
<1>5. QED
  BY <1>4, MarketReaped, ClaimsStep

LEMMA ClaimTotals ==
    ASSUME TypeOK, BooksInv, NEW o \in Outcomes, Exists(o), market[o].fee_collected = 1
    PROVE  /\ ~Unsplit(o) /\ gifts[o].lp \in Nat /\ Cardinality(Users \ live[o]) \in Nat
           /\ LpOwed(o) \in Nat /\ Owing(o) \in Nat /\ Den(o) \in Nat
<1> DEFINE share == [v \in Users |-> FloorShare(o, v)]
           num   == [v \in Users |-> Num(o, v)]
<1>1. ~Unsplit(o)
  BY DEF BooksInv, Books
<1>2. live[o] \in SUBSET Users /\ IsFiniteSet(live[o])
  BY FS_Subset, ConstantsAssumption DEF TypeOK
<1>3. \A v \in Users : share[v] \in Nat /\ num[v] \in Nat
  BY <1>1, ShareIsFair
<1>4. LpOwed(o) = Total(share, live[o]) /\ Owing(o) = Total(num, live[o])
  BY <1>2 DEF LpOwed, Owing
<1> HIDE DEF share, num
<1>5. LpOwed(o) \in Nat /\ Owing(o) \in Nat
  BY <1>2, <1>3, <1>4, TotalNat
<1>6. gifts[o] \in [sol : Nat, lp : Nat]
  BY DEF TypeOK
<1>7. Den(o) \in Nat
  <2>1. market[o].gross_lp_total \in Nat /\ market[o].activation_contributed \in Nat
    BY <1>1, RecordSound DEF Sound
  <2>2. QED
    BY <2>1, ProductNat DEF Den
<1>8. Cardinality(Users \ live[o]) \in Nat
  BY FS_Difference, FS_CardinalityType, ConstantsAssumption
<1>9. QED
  BY <1>1, <1>5, <1>6, <1>7, <1>8

\* A gift of LP widens the vault and the dust it may hold alike.
LEMMA GiftClaims ==
    ASSUME TypeOK, BooksInv, ClaimsInv, NEW o \in Outcomes, NEW d \in Nat, DonateLp(o, d)
    PROVE  ClaimsInv'
<1>1. /\ Exists(o) /\ UNCHANGED <<market, live, stake, late_lp, escrow, subject, ledger>>
      /\ lp_vault' = [lp_vault EXCEPT ![o] = @ + d]
      /\ gifts' = [gifts EXCEPT ![o] = [gifts[o] EXCEPT !.lp = @ + d]]
  BY DEF DonateLp, accounts
<1>2. gifts[o] \in [sol : Nat, lp : Nat] /\ lp_vault[o] \in Nat
  BY DEF TypeOK
<1>3. /\ lp_vault'[o] = lp_vault[o] + d /\ gifts'[o].lp = gifts[o].lp + d
      /\ Aside(o)
  BY <1>1, <1>2 DEF TypeOK, Aside
<1>4. /\ Exists(o)' <=> Exists(o)
      /\ LpOwed(o)' = LpOwed(o) /\ Owing(o)' = Owing(o) /\ Den(o)' = Den(o)
  BY <1>1 DEF Exists, LpOwed, FloorShare, Owing, Num, Den
<1>5. ASSUME market[o].fee_collected = 1 PROVE OpenClaims(o)'
  <2> DEFINE n == Den(o)
             b == lp_vault[o]
             g == gifts[o].lp
             q == LpOwed(o)
             r == Owing(o)
             c == Cardinality(Users \ live[o])
  <2>1. OpenClaims(o)
    BY <1>1, <1>5 DEF ClaimsInv, Claims
  <2>2. n \in Nat /\ b \in Nat /\ g \in Nat /\ q \in Nat /\ r \in Nat /\ c \in Nat
    BY <1>1, <1>2, <1>5, ClaimTotals
  <2> DEFINE open == market[o].open_contributions
  <2>3. /\ open = 0 => b <= g
        /\ open > 0 => q <= b /\ b * n <= r + (2 * c + g) * n
    BY <2>1 DEF OpenClaims, Dust
  <2>4. /\ lp_vault'[o] = b + d /\ gifts'[o].lp = g + d /\ LpOwed(o)' = q /\ Owing(o)' = r
        /\ Den(o)' = n /\ Dust(o)' = 2 * c + (g + d)
        /\ market'[o].open_contributions = open
    BY <1>1, <1>3, <1>4 DEF Dust
  <2> HIDE DEF n, b, g, q, r, c, open
  <2>5. open > 0 => (b + d) * n <= r + (2 * c + (g + d)) * n
    <3>1. /\ (b + d) * n = b * n + d * n
          /\ (2 * c + (g + d)) * n = (2 * c + g) * n + d * n
      BY <2>2
    <3>2. b * n \in Nat /\ d * n \in Nat /\ (2 * c + g) * n \in Nat
      BY <2>2, ProductNat
    <3>3. QED
      BY <2>2, <2>3, <3>1, <3>2
  <2>6. QED
    BY <2>2, <2>3, <2>4, <2>5 DEF OpenClaims
<1>6. Claims(o)'
  BY <1>1, <1>3, <1>4, <1>5 DEF ClaimsInv, Claims
<1>7. QED
  BY <1>3, <1>6, ClaimsStep

LEMMA SameClaims ==
    ASSUME ClaimsInv, UNCHANGED <<market, live, stake, late_lp, lp_vault>>,
           \A o \in Outcomes : /\ gifts'[o].lp = gifts[o].lp
                               /\ ~Exists(o) =>
                                    escrow'[o] = escrow[o] /\ gifts'[o].sol = gifts[o].sol
    PROVE  ClaimsInv'
<1>1. \A o \in Outcomes : /\ LpOwed(o)' = LpOwed(o) /\ Owing(o)' = Owing(o)
                          /\ Den(o)' = Den(o) /\ Dust(o)' = Dust(o) /\ Exists(o)' = Exists(o)
                          /\ Staked(o)' = Staked(o)
  BY DEF LpOwed, FloorShare, Owing, Num, Den, Dust, Exists, Staked
<1>2. QED
  BY <1>1 DEF ClaimsInv, Claims, OpenClaims

LEMMA OutsideClaims ==
    ASSUME TypeOK, BooksInv, ClaimsInv, NEW o \in Outcomes, OutsideNext(o)
    PROVE  ClaimsInv'
<1>1. ASSUME NEW u \in Users, Prefund(o, u) PROVE ClaimsInv'
  BY <1>1, SameClaims DEF Prefund, vaults, history
<1>2. ASSUME NEW d \in Gifts, DonateSol(o, d) PROVE ClaimsInv'
  <2>1. /\ UNCHANGED <<market, live, stake, late_lp, lp_vault>>
        /\ Exists(o) /\ escrow' = [escrow EXCEPT ![o] = @ + d]
        /\ gifts' = [gifts EXCEPT ![o] = [gifts[o] EXCEPT !.sol = @ + d]]
    BY <1>2 DEF DonateSol, accounts
  <2>2. gifts[o] \in [sol : Nat, lp : Nat]
    BY DEF TypeOK
  <2>3. \A p \in Outcomes : /\ gifts'[p].lp = gifts[p].lp
                            /\ p # o => escrow'[p] = escrow[p] /\ gifts'[p] = gifts[p]
    BY <2>1, <2>2 DEF TypeOK
  <2>4. QED
    BY <2>1, <2>3, SameClaims
<1>3. ASSUME NEW d \in Gifts, DonateLp(o, d) PROVE ClaimsInv'
  BY <1>3, GiftClaims, ConstantsAssumption
<1>4. QED
  BY <1>1, <1>2, <1>3 DEF OutsideNext

LEMMA ClaimsNext ==
    ASSUME TypeOK, TypeOK', LifeInv, LifeInv', BooksInv, BooksInv', ClaimsInv, [Next]_vars
    PROVE  ClaimsInv'
<1>1. ASSUME NEW o \in Outcomes, SettlementNext(o) PROVE ClaimsInv'
  BY <1>1, ResolveMarketClaims, CollectFeeClaims, ClaimLpClaims, CloseMarketClaims
     DEF SettlementNext
<1>2. CASE SubjectNext
  BY <1>2, SameClaims DEF SubjectNext, CreateSubject, RequestAi, CallbackFromGpt, RequestLost,
     accounts, vaults, history
<1>3. CASE UNCHANGED vars
  BY <1>3, SameClaims DEF vars
<1>4. QED
  BY <1>1, <1>2, <1>3, FundingClaims, TradingClaims, OutsideClaims DEF Next, MarketNext

LedgerInv ==
    TypeOK /\ CounterInv /\ CounterNeverOver /\ LifeInv /\ BooksInv /\ ClaimsInv

LEMMA LedgerInvariant == Spec => []LedgerInv
<1>1. Init => ClaimsInv
  <2> SUFFICES ASSUME Init, NEW o \in Outcomes PROVE Claims(o)
    BY DEF ClaimsInv
  <2>1. TypeOK
    BY InitTypeOK
  <2>2. ~Exists(o) /\ escrow[o] = 0 /\ lp_vault[o] = 0 /\ gifts[o].sol = 0 /\ gifts[o].lp = 0
    BY DEF Init, Exists
  <2>3. Staked(o) \in Nat
    BY <2>1, StakedNat
  <2>4. QED
    BY <2>2, <2>3 DEF Claims
<1>2. TypeOK /\ LifeInv /\ BooksInv /\ ClaimsInv /\ [Next]_vars
        /\ TypeOK' /\ LifeInv' /\ BooksInv' => ClaimsInv'
  BY ClaimsNext
<1>3. QED
  BY <1>1, <1>2, CounterInvariant, NeverOver, BooksInvariant, PTL DEF Spec, LedgerInv

\* What is in the vault and what was claimed from it add up to the LP the
\* market counts as its own, plus gifts, and a market is only reaped with
\* nothing left but gifts and the stakes of those it leaves behind.
THEOREM LpIsConserved == Spec => []LpConserved
<1>1. LedgerInv => LpConserved
  BY DEF LedgerInv, BooksInv, Books, LpBooks, BasisBooks, ClaimsInv, Claims, LpConserved
<1>2. QED
  BY <1>1, LedgerInvariant, PTL

\* No order of claims leaves the vault short of what the others are still owed,
\* until the claimer that the counter takes for the last one sweeps it.
THEOREM VaultIsBacked == Spec => []VaultBacked
<1>1. LedgerInv => VaultBacked
  BY DEF LedgerInv, ClaimsInv, Claims, OpenClaims, VaultBacked
<1>2. QED
  BY <1>1, LedgerInvariant, PTL

\* Nobody leaves a settled market but by a claim.
LEMMA LeavesByClaim ==
    ASSUME TypeOK, [Next]_vars, NEW o \in Outcomes, NEW u \in live[o] \ live'[o],
           market[o].status \in Settled
    PROVE  ClaimLp(o, u)
<1>1. ASSUME NEW p \in Outcomes, FundingNext(p) PROVE FALSE
  <2>1. p = o
    BY <1>1, FundingAside DEF Aside
  <2>2. ASSUME NEW v \in Users, NEW a \in Deposits, RecordContribution(o, v, a) PROVE FALSE
    BY <2>2 DEF RecordContribution, TypeOK
  <2>3. QED
    BY <1>1, <2>1, <2>2
       DEF FundingNext, CreateMarket, Contribute, Cancel, CancelAccepted, Refund, RefundAccepted,
       accounts, Settled
<1>2. ASSUME NEW p \in Outcomes, TradingNext(p) PROVE FALSE
  <2>1. p = o
    BY <1>2, TradingAside DEF Aside
  <2>2. QED
    BY <1>2, <2>1 DEF TradingNext, Activate, ActivateAccepted, AddLiquidity, Settled
<1>3. ASSUME NEW p \in Outcomes, SettlementNext(p) PROVE ClaimLp(o, u)
  <2>1. ASSUME NEW v \in Users, ClaimLp(p, v) PROVE ClaimLp(o, u)
    <3>1. p = o
      BY <2>1, LpClaimed DEF Aside
    <3>2. live'[o] = live[o] \ {v}
      BY <2>1, <3>1, LpClaimed, ContributionClosed
    <3>3. v = u
      BY <3>2
    <3>4. QED
      BY <2>1, <3>1, <3>3
  <2>2. QED
    BY <1>3, <2>1 DEF SettlementNext, ResolveMarket, CollectFee, CloseMarket, accounts
<1>4. ASSUME NEW p \in Outcomes, OutsideNext(p) PROVE FALSE
  BY <1>4 DEF OutsideNext, Prefund, DonateSol, DonateLp, accounts
<1>5. SubjectNext \/ UNCHANGED vars => FALSE
  BY DEF SubjectNext, CreateSubject, RequestAi, CallbackFromGpt, RequestLost, accounts, vars
<1>6. QED
  BY <1>1, <1>2, <1>3, <1>4, <1>5 DEF Next, MarketNext

\* Nobody is in but who the counter has.
LEMMA OnlyOneLeft ==
    ASSUME TypeOK, CounterInv, NEW o \in Outcomes, Exists(o), adopted[o] = 0,
           market[o].open_contributions = 1, NEW u \in live[o]
    PROVE  live[o] = {u}
<1>1. Cardinality(live[o]) <= 1
  BY DEF CounterInv, CounterNeverShort
<1>2. IsFiniteSet(live[o]) /\ u \in Users
  BY FS_Subset, ConstantsAssumption DEF TypeOK
<1>3. Cardinality(live[o] \ {u}) = Cardinality(live[o]) - 1 /\ Cardinality(live[o]) \in Nat
  BY LiveCounts
<1>4. IsFiniteSet(live[o] \ {u}) /\ Cardinality(live[o] \ {u}) \in Nat
  BY <1>2, FS_Subset, FS_CardinalityType
<1>5. Cardinality(live[o] \ {u}) = 0
  BY <1>1, <1>3, <1>4
<1>6. live[o] \ {u} = {}
  BY <1>4, <1>5, FS_EmptySet
<1>7. QED
  BY <1>6

\* What a claim pays, and what it rounds.
LEMMA ClaimIsFair ==
    ASSUME TypeOK, LedgerInv, NEW o \in Outcomes, NEW u \in Users, ClaimLp(o, u)
    PROVE  LET paid == Share(o, u)
           IN  /\ (paid + 2) * Den(o) >= Num(o, u)
               /\ adopted[o] = 0 \/ market[o].open_contributions > 1 =>
                      paid * Den(o) <= Num(o, u)
                                       + (2 * Cardinality(Users) + gifts[o].lp) * Den(o)
<1> DEFINE paid == Share(o, u)
           f == FloorShare(o, u)
           d == Den(o)
           n == Num(o, u)
           g == gifts[o].lp
           c == Cardinality(Users)
           open == market[o].open_contributions
<1>1. /\ Exists(o) /\ ~Unsplit(o) /\ u \in live[o] /\ OpenClaims(o)
      /\ open \in Nat /\ open > 0
  BY ClaimTakes, LpClaimed DEF LedgerInv, ClaimsInv, Claims
<1>2. /\ f \in Nat /\ d \in Nat /\ n \in Nat /\ f * d <= n /\ n <= (f + 2) * d
      /\ paid \in Nat /\ g \in Nat /\ c \in Nat
  <2>1. g \in Nat
    BY <1>1, LpClaimed, ClaimTotals DEF LedgerInv
  <2>2. c \in Nat
    BY FS_CardinalityType, ConstantsAssumption
  <2>3. QED
    BY <1>1, <2>1, <2>2, ShareIsFair, LpClaimed DEF LedgerInv
<1>3. CASE open # 1
  <2>1. paid = f
    BY <1>3, ClaimTakes DEF LedgerInv
  <2> HIDE DEF f, d, n, g, c, paid, open
  <2>2. (2 * c + g) * d \in Nat
    BY <1>2, ProductNat
  <2>3. QED
    BY <1>2, <2>1, <2>2 DEF f, d, n, g, c, paid
<1>4. CASE open = 1
  <2> DEFINE share == [v \in Users |-> FloorShare(o, v)]
             num   == [v \in Users |-> Num(o, v)]
             w     == Cardinality(Users \ live[o])
  <2>1. paid = lp_vault[o]
    BY <1>4, ClaimTakes DEF LedgerInv
  <2>2. /\ LpOwed(o) <= paid
        /\ paid * d <= Owing(o) + (2 * w + g) * d
    BY <1>1, <1>4, <2>1 DEF OpenClaims, Dust
  <2>3. f <= LpOwed(o) /\ LpOwed(o) \in Nat
    <3>1. IsFiniteSet(live[o]) /\ live[o] \subseteq Users
      BY FS_Subset, ConstantsAssumption DEF TypeOK
    <3>2. \A v \in live[o] : share[v] \in Nat
      BY <1>1, <3>1, ShareIsFair DEF LedgerInv
    <3>3. share[u] = f /\ LpOwed(o) = Total(share, live[o])
      BY <3>1 DEF LpOwed
    <3> HIDE DEF share, f
    <3>4. Total(share, live[o]) >= share[u] /\ Total(share, live[o]) \in Nat
      BY <1>1, <3>1, <3>2, TotalChange, TotalNat
    <3>5. QED
      BY <3>3, <3>4
  <2>4. w \in Nat /\ w <= c
    BY FS_Difference, FS_Subset, FS_CardinalityType, ConstantsAssumption
  <2>5. adopted[o] = 0 => Owing(o) = n
    <3>1. ASSUME adopted[o] = 0 PROVE live[o] = {u}
      BY <1>1, <1>4, <3>1, OnlyOneLeft DEF LedgerInv
    <3>2. num[u] = n
      OBVIOUS
    <3>3. live[o] = {u} => Owing(o) = Total(num, {u})
      BY DEF Owing
    <3> HIDE DEF num, n
    <3>4. QED
      BY <1>2, <3>1, <3>2, <3>3, TotalOfOne
  <2>6. open > 1 => FALSE
    BY <1>4
  <2> HIDE DEF f, d, n, g, c, w, paid, open
  <2>7. (f + 2) * d <= (paid + 2) * d
    BY <1>2, <2>2, <2>3, ProductMonotone
  <2>8. (2 * w + g) * d <= (2 * c + g) * d
    BY <1>2, <2>4, ProductMonotone
  <2>9. /\ (f + 2) * d \in Nat /\ (paid + 2) * d \in Nat /\ paid * d \in Nat
        /\ (2 * w + g) * d \in Nat /\ (2 * c + g) * d \in Nat
    BY <1>2, <2>4, ProductNat
  <2>10. (paid + 2) * d >= n
    BY <1>2, <2>7, <2>9
  <2>11. adopted[o] = 0 => paid * d <= n + (2 * c + g) * d
    BY <1>2, <2>2, <2>5, <2>8, <2>9
  <2>12. QED
    BY <2>6, <2>10, <2>11 DEF f, d, n, g, c, paid, open
<1>5. QED
  BY <1>3, <1>4

\* A claim pays what the contributor is entitled to, at most 2 LP of rounding
\* away, whichever formula claim_lp picks and whoever claims first; nobody gets
\* more than that but for dust and gifts, and for a share the sweep takes from
\* one who was not counted.
THEOREM ClaimsAreFair == Spec => FairClaims
<1> DEFINE Fair ==
        \A o \in Outcomes : \A u \in live[o] \ live'[o] :
          market[o].status \in Settled =>
              LET e    == Entitlement(o, u)
                  paid == ledger'[o][u].lp_out - ledger[o][u].lp_out
              IN  /\ (paid + 2) * e.den >= e.num
                  /\ adopted[o] = 0 \/ market[o].open_contributions > 1 =>
                         paid * e.den <= e.num + (2 * Cardinality(Users) + gifts[o].lp) * e.den
<1>1. TypeOK /\ LedgerInv /\ [Next]_vars => Fair
  <2> SUFFICES ASSUME TypeOK, LedgerInv, [Next]_vars, NEW o \in Outcomes,
                      NEW u \in live[o] \ live'[o], market[o].status \in Settled
               PROVE  LET e    == Entitlement(o, u)
                          paid == ledger'[o][u].lp_out - ledger[o][u].lp_out
                      IN  /\ (paid + 2) * e.den >= e.num
                          /\ adopted[o] = 0 \/ market[o].open_contributions > 1 =>
                                 paid * e.den <= e.num
                                     + (2 * Cardinality(Users) + gifts[o].lp) * e.den
    OBVIOUS
  <2>1. u \in Users /\ ClaimLp(o, u)
    BY LeavesByClaim DEF TypeOK
  <2>2. Entitlement(o, u).num = Num(o, u) /\ Entitlement(o, u).den = Den(o)
    BY DEF Entitlement, Num, Den
  <2>3. ledger'[o][u].lp_out - ledger[o][u].lp_out = Share(o, u)
    <3>1. ledger[o][u] \in Receipts
      BY <2>1 DEF TypeOK
    <3>2. ledger'[o][u].lp_out = ledger[o][u].lp_out + Share(o, u) /\ Share(o, u) \in Nat
      BY <2>1, LpClaimed
    <3>3. QED
      BY <3>1, <3>2 DEF Receipts
  <2>4. QED
    BY <2>1, <2>2, <2>3, ClaimIsFair
<1> HIDE DEF Fair
<1>2. Spec => [][Fair]_vars
  BY <1>1, LedgerInvariant, TypeCorrect, PTL DEF Spec
<1>3. QED
  BY <1>2 DEF FairClaims, Fair

(***************************************************************************)
(* What the market page says and offers                                    *)
(***************************************************************************)
\* The position the page shows, less the fee, and the share claim_lp pays.
LEMMA PositionIsPaid ==
    ASSUME TypeOK, BooksInv, NEW o \in Outcomes, Exists(o), ~Unsplit(o), NEW u \in Users
    PROVE  LET m     == market[o]
               shown == m.lp_total * ContributorLp(o, u)
               paid  == FloorShare(o, u)
           IN  /\ paid * m.gross_lp_total <= shown + 2 * m.gross_lp_total
               /\ shown <= (paid + 2) * m.gross_lp_total
<1> DEFINE m == market[o]
           s == stake[o][u]
           l == late_lp[o][u]
           T == m.lp_total
           A == m.activation_lp
           C == m.activation_contributed
           G == m.gross_lp_total
           w == ContributorLp(o, u)
           paid == FloorShare(o, u)
           f == (A * s) \div C
<1>1. Sound(m) /\ LpBooks(o) /\ s \in Nat /\ l \in Nat
  BY RecordSound DEF TypeOK
<1>2. paid = ShareOf(m, s, l) /\ paid \in Nat /\ w = GrossLp(A, C, s, l)
  BY <1>1, FloorShareOf, ShareOfNat DEF ContributorLp
<1>3. T \in Nat /\ A \in Nat /\ C \in Nat /\ G \in Nat /\ T <= G /\ A <= G /\ C > 0
  BY <1>1 DEF Sound
<1>4. f \in Nat /\ w = l + f /\ f * C <= A * s /\ A * s < (f + 1) * C
  BY <1>1, <1>2, GrossLpBounds
<1>5. CASE G # A
  <2>1. paid * G <= T * w /\ T * w < (paid + 1) * G
    BY <1>1, <1>2, <1>5, ShareOfNat
  <2> HIDE DEF T, A, C, G, w, paid, f, s, l
  <2>2. paid * G \in Nat /\ T * w \in Nat
    BY <1>1, <1>2, <1>3, <1>4, ProductNat
  <2>3. (paid + 1) * G = paid * G + G /\ (paid + 2) * G = paid * G + 2 * G
    BY <1>2, <1>3
  <2>4. paid * G <= T * w + 2 * G /\ T * w <= (paid + 2) * G
    BY <1>3, <2>1, <2>2, <2>3
  <2>5. QED
    BY <2>4 DEF T, G, w, paid
<1>6. CASE G = A
  <2>1. l = 0 /\ m.total_contributed = C
    BY <1>1, <1>6 DEF LpBooks
  <2>2. paid * C <= T * s /\ T * s < (paid + 1) * C
    BY <1>1, <1>2, <1>6, <2>1, ShareOfNat
  <2>3. w = f
    BY <1>4, <2>1
  <2> HIDE DEF T, A, C, G, w, paid, f, s, l
  <2>4. /\ T * s \in Nat /\ A * s \in Nat /\ paid * C \in Nat /\ (paid + 1) * C \in Nat
        /\ f * C \in Nat /\ (f + 1) * C \in Nat
    BY <1>1, <1>2, <1>3, <1>4, ProductNat
  <2>5. /\ (paid * C) * A <= (T * s) * A /\ (T * s) * A <= ((paid + 1) * C) * A
        /\ (f * C) * T <= (A * s) * T /\ (A * s) * T <= ((f + 1) * C) * T
    BY <1>3, <1>4, <2>2, <2>4, ProductMonotone
  <2>6. /\ (paid * C) * A = (paid * A) * C /\ ((paid + 1) * C) * A = ((paid + 1) * A) * C
        /\ (f * C) * T = (T * f) * C /\ ((f + 1) * C) * T = (T * (f + 1)) * C
        /\ (T * s) * A = (A * s) * T
    BY <1>1, <1>2, <1>3, <1>4
  <2>7. /\ (paid * A) * C \in Nat /\ ((paid + 1) * A) * C \in Nat /\ (T * f) * C \in Nat
        /\ (T * (f + 1)) * C \in Nat /\ (A * s) * T \in Nat
        /\ paid * A \in Nat /\ (paid + 1) * A \in Nat /\ T * f \in Nat /\ T * (f + 1) \in Nat
    BY <1>2, <1>3, <1>4, <2>4, ProductNat
  <2>8. (paid * A) * C <= (T * (f + 1)) * C /\ (T * f) * C <= ((paid + 1) * A) * C
    BY <2>5, <2>6, <2>7
  <2>9. paid * A <= T * (f + 1) /\ T * f <= (paid + 1) * A
    BY <1>3, <2>7, <2>8, ProductCancel
  <2>10. /\ T * (f + 1) = T * f + T /\ (paid + 1) * A = paid * A + A
         /\ (paid + 2) * A = paid * A + 2 * A
    BY <1>2, <1>3, <1>4
  <2>11. paid * G <= T * w + 2 * G /\ T * w <= (paid + 2) * G
    BY <1>3, <1>6, <2>3, <2>7, <2>9, <2>10
  <2>12. QED
    BY <2>11 DEF T, G, w, paid
<1>7. QED
  BY <1>5, <1>6

\* What the page tells a contributor is what the program pays: the position it
\* shows, less the fee, to within two LP, and the verdict.
THEOREM PageTellsTheTruth == Spec => []ShownIsPaid
<1>1. TypeOK /\ BooksInv => ShareShownIsPaid
  <2> SUFFICES ASSUME TypeOK, BooksInv, NEW o \in Outcomes, NEW u \in Users, ClaimOffered(o, u)
               PROVE  LET m     == market[o]
                          shown == m.lp_total * ContributorLp(o, u)
                          paid  == FloorShare(o, u)
                      IN  /\ paid * m.gross_lp_total <= shown + 2 * m.gross_lp_total
                          /\ shown <= (paid + 2) * m.gross_lp_total
    BY DEF ShareShownIsPaid
  <2>1. Exists(o)
    BY DEF ClaimOffered, Exists, NoMarket, Settled
  <2>2. ~Unsplit(o)
    BY DEF ClaimOffered, Unsplit, Settled
  <2>3. QED
    BY <2>1, <2>2, PositionIsPaid
<1>2. TypeOK /\ LifeInv => VerdictShownIsPaid
  <2> SUFFICES ASSUME TypeOK, LifeInv PROVE VerdictShownIsPaid
    OBVIOUS
  <2>1. ASSUME NEW o \in Outcomes, RedeemOffered(o)
        PROVE  subject.status = "Resolved" /\ question[o] = Numerators(o)
    BY <2>1 DEF RedeemOffered, LifeInv, Life, Settled
  <2>2. ASSUME NEW o \in Outcomes, RedeemOffered(o)
        PROVE  question[o] =
                   CASE OutcomeResolutionText(o) = "YES won" -> [yes |-> 1, no |-> 0]
                     [] OutcomeResolutionText(o) = "NO won"  -> [yes |-> 0, no |-> 1]
                     [] OTHER                                -> [yes |-> 1, no |-> 1]
    BY <2>1, <2>2 DEF Numerators, OutcomeResolutionText
  <2>3. ASSUME NEW o \in Outcomes, NEW p \in Outcomes,
               OutcomeResolutionText(o) = "YES won", OutcomeResolutionText(p) = "YES won"
        PROVE  o = p
    <3>1. \A q \in {o, p} : subject.resolved_option = q
      BY <2>3 DEF OutcomeResolutionText
    <3>2. QED
      BY <3>1
  <2>4. QED
    BY <2>2, <2>3 DEF VerdictShownIsPaid
<1>3. QED
  BY <1>1, <1>2, BooksInvariant, PTL DEF ShownIsPaid

\* A market that charges no fee settles with its claims open.
FeeFreeOpen ==
    \A o \in Outcomes :
        market[o].status \in Settled /\ market[o].fee_bps = 0 => market[o].fee_collected = 1

LEMMA FeeFreeStep ==
    ASSUME TypeOK, LifeInv, FeeFreeOpen, [Next]_vars
    PROVE  FeeFreeOpen'
<1>1. ASSUME NEW o \in Outcomes, Aside(o),
             market'[o].status \in Settled /\ market'[o].fee_bps = 0
                 => market'[o].fee_collected = 1
      PROVE  FeeFreeOpen'
  BY <1>1 DEF FeeFreeOpen, Aside
<1>2. ASSUME NEW o \in Outcomes, FundingNext(o) PROVE FeeFreeOpen'
  <2>1. market'[o].status \notin Settled
    <3>1. ASSUME NEW u \in Users, Refund(o, u) PROVE market'[o].status = "Cancelled"
      <4>1. market[o] \in Market /\ market[o].status = "Cancelled" /\ CloseContribution(o, u)
        BY <3>1, StatusMeansMarket, Zenon DEF TypeOK, Refund, RefundAccepted
      <4>2. QED
        BY <4>1, ContributionClosed
    <3>2. ASSUME NEW u \in Users, NEW a \in Deposits, Contribute(o, u, a)
          PROVE  market'[o].status = "Funding"
      <4>1. market[o] \in Market
        BY <3>2, StatusMeansMarket, Zenon DEF TypeOK, Contribute
      <4>2. QED
        BY <3>2, <4>1 DEF Contribute, TypeOK, Market
    <3>3. Cancel(o) => market'[o].status = "Cancelled"
      <4>1. Cancel(o) => market[o] \in Market
        BY StatusMeansMarket, Zenon DEF TypeOK, Cancel, CancelAccepted
      <4>2. QED
        BY <4>1 DEF Cancel, TypeOK, Market
    <3>4. QED
      BY <1>2, <3>1, <3>2, <3>3 DEF FundingNext, CreateMarket, TypeOK, Settled
  <2>2. QED
    BY <1>1, <1>2, <2>1, FundingAside
<1>3. ASSUME NEW o \in Outcomes, TradingNext(o) PROVE FeeFreeOpen'
  <2>1. market'[o].status = "Active"
    <3>1. ASSUME NEW pool \in Pools \cup {EmptyPool}, NEW lp \in ActivationLps,
                 Activate(o, pool, lp)
          PROVE  market'[o].status = "Active"
      <4>1. market[o] \in Market
        BY <3>1, StatusMeansMarket, Zenon DEF TypeOK, Activate, ActivateAccepted
      <4>2. QED
        BY <3>1, <4>1 DEF Activate, TypeOK, Market
    <3>2. ASSUME NEW u \in Users, NEW a \in Deposits, NEW lp \in LateLps,
                 AddLiquidity(o, u, a, lp)
          PROVE  market'[o].status = "Active"
      <4>1. market[o] \in Market
        BY <3>2, StatusMeansMarket, Zenon DEF TypeOK, AddLiquidity
      <4>2. QED
        BY <3>2, <4>1 DEF AddLiquidity, TypeOK, Market
    <3>3. QED
      BY <1>3, <3>1, <3>2 DEF TradingNext
  <2>2. QED
    BY <1>1, <1>3, <2>1, TradingAside DEF Settled
<1>4. ASSUME NEW o \in Outcomes, SettlementNext(o) PROVE FeeFreeOpen'
  <2>1. CASE ResolveMarket(o)
    BY <1>1, <2>1, MarketResolved DEF SameBasis
  <2>2. ASSUME NEW pool \in Pools, CollectFee(o, pool) PROVE FeeFreeOpen'
    BY <1>1, <2>2, FeeCollected
  <2>3. ASSUME NEW u \in Users, ClaimLp(o, u) PROVE FeeFreeOpen'
    BY <1>1, <2>3, LpClaimed, ContributionClosed
  <2>4. CASE CloseMarket(o)
    BY <1>1, <2>4, MarketReaped DEF Exists, NoMarket, Settled
  <2>5. QED
    BY <1>4, <2>1, <2>2, <2>3, <2>4 DEF SettlementNext
<1>5. CASE UNCHANGED market
  BY <1>5 DEF FeeFreeOpen
<1>6. QED
  BY <1>2, <1>3, <1>4, <1>5 DEF Next, MarketNext, SubjectNext, CreateSubject, RequestAi,
     CallbackFromGpt, RequestLost, OutsideNext, Prefund, DonateSol, DonateLp, vars

\* Once the question is settled the page never leaves a wallet without a next
\* step: a crank that brings its exit nearer, or the exit.  Only who was never
\* counted may be left without, when all the others are gone.
THEOREM PageOffersAWayOut == Spec => []WayOutOffered
<1>1. TypeOK /\ CounterNeverOver /\ FeeFreeOpen => WayOutOffered
  <2> SUFFICES ASSUME TypeOK, CounterNeverOver, FeeFreeOpen, NEW o \in Outcomes, Terminal,
                      Exists(o)
               PROVE  \/ CancelOffered(o) \/ ResolveOffered(o) \/ CollectFeeOffered(o)
                      \/ IF live[o] = {}
                         THEN CloseOffered(o)
                         ELSE \/ RefundOffered(o) \/ Overlooked(o)
                              \/ \A u \in live[o] : ClaimOffered(o, u)
    BY DEF WayOutOffered
  <2>1. /\ market[o] \in Market /\ market[o].open_contributions \in Nat
        /\ live[o] = {} => market[o].open_contributions = 0
    <3>1. market[o] \in Market
      BY DEF TypeOK, Exists
    <3>2. market[o].open_contributions \in Nat
      BY <3>1 DEF Market
    <3>3. market[o].open_contributions <= Cardinality(live[o])
      BY DEF CounterNeverOver
    <3>4. live[o] = {} => Cardinality(live[o]) = 0
      BY LiveCounts
    <3>5. QED
      BY <3>1, <3>2, <3>3, <3>4
  <2>2. market[o].status \in MarketStatus /\ market[o].fee_collected \in {0, 1}
        /\ market[o].fee_bps \in Nat
    BY <2>1 DEF Market
  <2>3. CASE market[o].status = "Funding"
    BY <2>3 DEF CancelOffered, CanCancel
  <2>4. CASE market[o].status = "Active"
    BY <2>4 DEF ResolveOffered
  <2>5. CASE market[o].status = "Cancelled"
    BY <2>1, <2>5 DEF CloseOffered, RefundOffered, Overlooked, Settled
  <2>6. CASE market[o].status \in Settled
    <3>1. CASE market[o].fee_collected = 0
      BY <2>2, <2>6, <3>1 DEF CollectFeeOffered, FeeFreeOpen
    <3>2. CASE market[o].fee_collected = 1
      BY <2>1, <2>6, <3>2 DEF CloseOffered, ClaimOffered
    <3>3. QED
      BY <2>2, <3>1, <3>2
  <2>7. QED
    BY <2>2, <2>3, <2>4, <2>5, <2>6 DEF MarketStatus, Settled
<1>2. Init => FeeFreeOpen
  BY DEF Init, FeeFreeOpen, NoMarket, Settled
<1>3. TypeOK /\ LifeInv /\ FeeFreeOpen /\ [Next]_vars => FeeFreeOpen'
  BY FeeFreeStep
<1>4. QED
  BY <1>1, <1>2, <1>3, LifeInvariant, NeverOver, TypeCorrect, PTL DEF Spec
(***************************************************************************)
(* What the page offers, the program accepts                               *)
(***************************************************************************)
\* An answer that made it into the subject is one of its options.
AnswerInRange ==
    subject.status = "Resolved" => subject.resolved_option < subject.options_count

LEMMA AnswerInRangeStep ==
    ASSUME TypeOK, AnswerInRange, [Next]_vars
    PROVE  AnswerInRange'
<1>1. CASE UNCHANGED subject
  BY <1>1 DEF AnswerInRange
<1>2. ASSUME NEW n \in OptionCounts, CreateSubject(n) PROVE AnswerInRange'
  BY <1>2 DEF CreateSubject, AnswerInRange
<1>3. ASSUME NEW option \in Replies, CallbackFromGpt(option) PROVE AnswerInRange'
  BY <1>3 DEF CallbackFromGpt, AnswerInRange, TypeOK
<1>4. ASSUME NEW o \in Outcomes, MarketNext(o) PROVE UNCHANGED subject
  <2>1. FundingNext(o) => UNCHANGED subject
    BY Zenon DEF FundingNext, CreateMarket, Contribute, Cancel, Refund
  <2>2. TradingNext(o) => UNCHANGED subject
    BY Zenon DEF TradingNext, Activate, AddLiquidity
  <2>3. SettlementNext(o) => UNCHANGED subject
    BY Zenon DEF SettlementNext, ResolveMarket, CollectFee, ClaimLp, CloseMarket
  <2>4. OutsideNext(o) => UNCHANGED subject
    BY Zenon DEF OutsideNext, Prefund, DonateSol, DonateLp
  <2>5. QED
    BY <1>4, <2>1, <2>2, <2>3, <2>4 DEF MarketNext
<1>5. QED
  BY <1>1, <1>2, <1>3, <1>4 DEF Next, SubjectNext, RequestAi, RequestLost, vars

\* Before the split every stake is in escrow.
LEMMA StakeInEscrow ==
    ASSUME TypeOK, BooksInv, NEW o \in Outcomes, Unsplit(o), Exists(o)
    PROVE  /\ escrow[o] >= Staked(o)
           /\ market[o].status = "Funding" => market[o].total_contributed <= escrow[o]
           /\ \A u \in Users : stake[o][u] <= escrow[o]
<1> USE ConstantsAssumption
<1>1. EscrowBooks(o)
  BY DEF BooksInv, Books
<1>2. IsFiniteSet(Users) /\ \A u \in Users : stake[o][u] \in Nat
  BY DEF TypeOK
<1>3. Staked(o) \in Nat /\ gifts[o].sol \in Nat
  BY <1>2, TotalNat DEF Staked, TypeOK
<1>4. escrow[o] >= Staked(o)
  BY <1>1, <1>3 DEF EscrowBooks
<1>5. ASSUME NEW u \in Users PROVE stake[o][u] <= Staked(o)
  BY <1>2, TotalChange DEF Staked
<1>6. ASSUME NEW u \in Users PROVE stake[o][u] <= escrow[o]
  BY <1>2, <1>3, <1>4, <1>5 DEF TypeOK
<1>7. QED
  BY <1>1, <1>4, <1>6 DEF EscrowBooks

\* The fee is never more than what the vault holds.
LEMMA FeeCovered ==
    ASSUME TypeOK, LifeInv, BooksInv, NEW o \in Outcomes, CollectFeeOffered(o),
           NEW pool \in Pools, pool.supply >= lp_vault[o]
    PROVE  CollectFeeAccepted(o, pool)
<1>1. /\ market[o] \in Market /\ Exists(o) /\ ~Unsplit(o)
      /\ market[o].status \in Settled /\ market[o].fee_collected = 0
  <2>1. market[o].status \in Settled /\ market[o].fee_collected = 0
    BY DEF CollectFeeOffered
  <2>2. market[o] # NoMarket
    BY <2>1 DEF NoMarket, Settled
  <2>3. QED
    BY <2>1, <2>2 DEF TypeOK, Exists, Unsplit, Settled
<1>2. LpBooks(o) /\ BasisBooks(o)
  BY <1>1, RecordSound DEF LpBooks
<1>3. lp_vault[o] = market[o].lp_total + gifts[o].lp
  <2>1. LpPaid(o) = 0
    BY <1>2, TotalOfZeros DEF LpPaid, BasisBooks
  <2>2. lp_vault[o] \in Nat
    BY DEF TypeOK
  <2>3. QED
    BY <1>2, <2>1, <2>2 DEF LpBooks
<1>4. /\ market[o].lp_total \in Nat /\ gifts[o].lp \in Nat /\ pool.supply \in Nat
      /\ lp_vault[o] >= market[o].lp_total
  <2>1. market[o].lp_total \in Nat /\ gifts[o].lp \in Nat
    BY <1>1 DEF Market, TypeOK
  <2>2. pool \in [base : Nat, quote : Nat, supply : Nat]
    BY ConstantsAssumption
  <2>3. QED
    BY <1>3, <2>1, <2>2
<1>5. question[o] # Unresolved
  BY <1>1 DEF LifeInv, Life, Numerators, Unresolved
<1>6. market[o].fee_bps > 0 /\ market[o].lp_total > 0
          => question[o] # Unresolved /\ pool.supply > 0
  BY <1>4, <1>5 DEF TypeOK
<1>7. FeeDue(o, pool) \in Nat /\ FeeDue(o, pool) <= market[o].lp_total
  BY <1>1, <1>6, FeeDueNat
<1>8. FeeDue(o, pool) <= lp_vault[o]
  BY <1>4, <1>7 DEF TypeOK
<1>9. QED
  BY <1>1, <1>6, <1>7, <1>8 DEF CollectFeeAccepted, FeeOpen

\* No claim on offer is more than what the vault holds.
LEMMA ClaimCovered ==
    ASSUME LedgerInv, NEW o \in Outcomes, NEW u \in Users, ClaimOffered(o, u), ~Overlooked(o)
    PROVE  ClaimAccepted(o, u)
<1> USE ConstantsAssumption
<1>1. TypeOK /\ LifeInv /\ BooksInv /\ Claims(o)
  BY DEF LedgerInv, CounterInv, ClaimsInv
<1>2. /\ market[o].status \in Settled \cup {"Active"} /\ u \in live[o]
      /\ market[o].fee_collected = 1 /\ Exists(o) /\ ~Unsplit(o)
  BY DEF ClaimOffered, Exists, NoMarket, Unsplit, Settled
<1>2a. market[o].open_contributions > 0
  <2>1. market[o].open_contributions \in Nat
    BY <1>1, <1>2 DEF TypeOK, Exists, Market
  <2>2. market[o].open_contributions # 0
    BY <1>2 DEF Overlooked
  <2>3. QED
    BY <2>1, <2>2
<1>3. Sound(market[o])
  BY <1>1, <1>2, RecordSound
<1>4. stake[o][u] \in Nat /\ late_lp[o][u] \in Nat /\ lp_vault[o] \in Nat
  BY <1>1 DEF TypeOK
<1>5. ShareBasis(o) > 0
  BY <1>3 DEF ShareBasis, Sound
<1>6. FloorShare(o, u) <= lp_vault[o]
  <2> DEFINE share == [v \in Users |-> FloorShare(o, v)]
  <2>1. IsFiniteSet(live[o]) /\ live[o] \subseteq Users
    BY <1>1, FS_Subset DEF TypeOK
  <2>2. \A v \in live[o] : share[v] \in Nat
    BY <1>1, <1>2, <2>1, ShareIsFair
  <2>3. Total(share, live[o]) <= lp_vault[o]
    BY <1>1, <1>2, <1>2a DEF Claims, OpenClaims, LpOwed
  <2>4. share[u] = FloorShare(o, u)
    OBVIOUS
  <2> HIDE DEF share
  <2>5. Total(share, live[o]) >= share[u] /\ Total(share, live[o]) \in Nat
    BY <1>2, <2>1, <2>2, TotalChange, TotalNat
  <2>6. QED
    BY <1>2, <1>4, <2>2, <2>3, <2>4, <2>5
<1>7. Share(o, u) <= lp_vault[o]
  BY <1>4, <1>6 DEF Share
<1>8. QED
  BY <1>2, <1>2a, <1>5, <1>7 DEF ClaimAccepted, Counted

\* Whatever crank or exit the page offers, the program's checks let it pass:
\* the accounts it would move from hold enough, and the records it would
\* divide by are not empty.  Only who was never counted is offered a claim in
\* vain.
THEOREM PageOffersAreAccepted == Spec => []OffersAccepted
<1>1. LedgerInv /\ AnswerInRange => OffersAccepted
  <2> SUFFICES ASSUME LedgerInv, AnswerInRange, NEW o \in Outcomes
               PROVE  /\ ActivateOffered(o) => ActivateAccepted(o, EmptyPool)
                      /\ CancelOffered(o)   => CancelAccepted(o)
                      /\ ResolveOffered(o)  => ResolveAccepted(o)
                      /\ RedeemOffered(o)   => question[o] # Unresolved
                      /\ CollectFeeOffered(o) =>
                             \A pool \in Pools : pool.supply >= lp_vault[o]
                                                     => CollectFeeAccepted(o, pool)
                      /\ CloseOffered(o)    => CloseAccepted(o)
                      /\ RefundOffered(o)   => \E u \in Users : RefundAccepted(o, u)
                      /\ \A u \in Users :
                             ClaimOffered(o, u) => ClaimAccepted(o, u) \/ Overlooked(o)
    BY DEF OffersAccepted
  <2>1. TypeOK /\ LifeInv /\ BooksInv /\ Life(o) /\ Books(o)
    BY DEF LedgerInv, CounterInv, LifeInv, BooksInv
  <2>2. market[o].status \in MarketStatus => market[o] \in Market /\ Exists(o)
    BY <2>1 DEF TypeOK, Exists, NoMarket, MarketStatus
  <2>3. ASSUME ActivateOffered(o) PROVE ActivateAccepted(o, EmptyPool)
    <3>1. market[o].status = "Funding" /\ Funded(o) /\ ~Terminal
      BY <2>3 DEF ActivateOffered, CanActivate
    <3>2. market[o] \in Market /\ Exists(o) /\ Unsplit(o)
      BY <2>2, <3>1 DEF MarketStatus, Unsplit
    <3>3. market[o].total_contributed \in Nat /\ market[o].min_liquidity \in Nat
      BY <3>2 DEF Market
    <3>4. escrow[o] >= market[o].total_contributed
      BY <2>1, <3>1, <3>2, <3>3, StakeInEscrow DEF TypeOK
    <3>5. QED
      BY <3>1, <3>3, <3>4 DEF ActivateAccepted, EmptyPool, Funded
  <2>4. ASSUME CancelOffered(o) PROVE CancelAccepted(o)
    BY <2>4 DEF CancelOffered, CanCancel, CancelAccepted
  <2>5. ASSUME ResolveOffered(o) PROVE ResolveAccepted(o)
    BY <2>1, <2>5 DEF ResolveOffered, ResolveAccepted, Life, AnswerInRange
  <2>6. ASSUME RedeemOffered(o) PROVE question[o] # Unresolved
    BY <2>1, <2>6 DEF RedeemOffered, Life, Numerators, Unresolved
  <2>7. ASSUME CollectFeeOffered(o), NEW pool \in Pools, pool.supply >= lp_vault[o]
        PROVE  CollectFeeAccepted(o, pool)
    BY <2>1, <2>7, FeeCovered
  <2>8. ASSUME CloseOffered(o) PROVE CloseAccepted(o)
    <3>1. /\ market[o].status \in Settled \cup {"Cancelled"}
          /\ market[o].status \in Settled => market[o].fee_collected = 1
          /\ market[o].open_contributions = 0
      BY <2>8 DEF CloseOffered
    <3>2. market[o].status \in Settled \/ ~market[o].activated
      BY <2>1, <2>2, <3>1 DEF Books, Unsplit, MarketStatus, Settled
    <3>3. QED
      BY <3>1, <3>2 DEF CloseAccepted, NobodyLeft
  <2>9. ASSUME RefundOffered(o) PROVE \E u \in Users : RefundAccepted(o, u)
    <3>1. market[o].status = "Cancelled" /\ market[o].open_contributions > 0
      BY <2>9 DEF RefundOffered
    <3>2. market[o] \in Market /\ Exists(o) /\ Unsplit(o)
      BY <2>2, <3>1 DEF MarketStatus, Unsplit
    <3>3. live[o] # {}
      <4>1. market[o].open_contributions <= Cardinality(live[o])
        BY <3>2 DEF LedgerInv, CounterNeverOver
      <4>2. market[o].open_contributions \in Nat
        BY <3>2 DEF Market
      <4>3. QED
        BY <3>1, <4>1, <4>2, FS_EmptySet
    <3>4. PICK u \in Users : u \in live[o]
      BY <2>1, <3>3 DEF TypeOK
    <3>5. escrow[o] >= stake[o][u]
      BY <2>1, <3>2, StakeInEscrow DEF TypeOK
    <3>6. QED
      BY <3>1, <3>4, <3>5 DEF RefundAccepted, Counted
  <2>10. ASSUME NEW u \in Users, ClaimOffered(o, u)
         PROVE  ClaimAccepted(o, u) \/ Overlooked(o)
    BY <2>10, ClaimCovered
  <2>11. QED
    BY <2>3, <2>4, <2>5, <2>6, <2>7, <2>8, <2>9, <2>10
<1>2. Init => AnswerInRange
  BY DEF Init, AnswerInRange
<1>3. TypeOK /\ AnswerInRange /\ [Next]_vars => AnswerInRange'
  BY AnswerInRangeStep
<1>4. QED
  BY <1>1, <1>2, <1>3, TypeCorrect, LedgerInvariant, PTL DEF Spec
=============================================================================
