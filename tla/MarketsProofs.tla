---------------------------- MODULE MarketsProofs ----------------------------
(***************************************************************************)
(* Markets, for every value of its constants: its type invariant, and the  *)
(* live-contribution counter, which gates close_market.                    *)
(*                                                                         *)
(* The counter never exceeds the contribution accounts that exist, and     *)
(* falls short of them by no more than were made at an address that held   *)
(* lamports; and so no more outlive their market.  A history variable      *)
(* counts those, and nothing is assumed of who sends lamports where.       *)
(*                                                                         *)
(* Neither of these is inductive alone.  A counter that is right while the *)
(* market exists says nothing of a contribution left behind when the market*)
(* is reaped, and create_market starts the next counter at 1: the proof    *)
(* carries both.                                                           *)
(*                                                                         *)
(* And its promise: Markets implements Crowdfund.  What a market's status  *)
(* says of its subject, of the answer it settled on and of the SOL that    *)
(* went in and out is an invariant, LifeInv; with it every instruction is  *)
(* the step of Crowdfund of the same meaning, or one that Crowdfund does   *)
(* not see.  SiblingsAgree and NeverReborn follow from LifeInv alone.  Who *)
(* may be left in a market when it is reaped rests on the counter.         *)
(***************************************************************************)
EXTENDS MarketPromise, SharesProofs

\* A value at a market address with a status of a market is a market.
LEMMA StatusMeansMarket ==
    ASSUME NEW m \in Market \cup {NoMarket}, m.status # "None"
    PROVE  m \in Market
BY DEF NoMarket

\* A market's status is never "None", so it is never confused with NoMarket.
LEMMA MarketIsNotNone ==
    ASSUME NEW m \in Market
    PROVE  m # NoMarket /\ m.status # "None"
BY DEF Market, MarketStatus, NoMarket

\* The record each instruction writes back is a market.  The new values are
\* named, so that a proof about a record does no arithmetic.
LEMMA DepositRecord ==
    ASSUME NEW m \in Market, NEW t \in Nat, NEW c \in Nat
    PROVE  LET n == [m EXCEPT !.total_contributed = t, !.open_contributions = c]
           IN  n \in Market /\ n.open_contributions = c
BY Zenon DEF Market

LEMMA ActivateRecord ==
    ASSUME NEW m \in Market, NEW lp \in Nat
    PROVE  LET n == [m EXCEPT !.status = "Active", !.activated = TRUE,
                       !.lp_total = lp, !.gross_lp_total = lp, !.activation_lp = lp,
                       !.activation_contributed = m.total_contributed]
           IN  n \in Market /\ n.open_contributions = m.open_contributions
BY Zenon DEF Market, MarketStatus

LEMMA AddLiquidityRecord ==
    ASSUME NEW m \in Market, NEW l \in Nat, NEW g \in Nat, NEW t \in Nat, NEW c \in Nat
    PROVE  LET n == [m EXCEPT !.lp_total = l, !.gross_lp_total = g,
                              !.total_contributed = t, !.open_contributions = c]
           IN  n \in Market /\ n.open_contributions = c
BY Zenon DEF Market

LEMMA ResolveRecord ==
    ASSUME NEW m \in Market, NEW s \in Settled, NEW f \in {0, 1}
    PROVE  LET n == [m EXCEPT !.settled = 1, !.status = s, !.fee_collected = f]
           IN  n \in Market /\ n.open_contributions = m.open_contributions
BY Zenon DEF Market, MarketStatus, Settled

LEMMA CollectRecord ==
    ASSUME NEW m \in Market, NEW l \in Nat
    PROVE  LET n == [m EXCEPT !.lp_total = l, !.fee_collected = 1]
           IN  n \in Market /\ n.open_contributions = m.open_contributions
BY Zenon DEF Market

\* The subject, and nothing else of the program, changes in a SubjectNext step.
LEMMA SubjectStepType ==
    ASSUME TypeOK, SubjectNext
    PROVE  TypeOK'
<1> USE ConstantsAssumption DEF TypeOK, accounts, vaults, history, Pending, SubjectStatus
<1>1. ASSUME NEW n \in OptionCounts, CreateSubject(n) PROVE TypeOK'
  BY <1>1 DEF CreateSubject
<1>2. CASE RequestAi
  BY <1>2 DEF RequestAi
<1>3. ASSUME NEW option \in Replies, CallbackFromGpt(option) PROVE TypeOK'
  BY <1>3 DEF CallbackFromGpt
<1>4. CASE RequestLost
  BY <1>4 DEF RequestLost
<1>5. QED
  BY <1>1, <1>2, <1>3, <1>4 DEF SubjectNext

\* The accounts a deposit touches keep their types.
LEMMA RecordContributionType ==
    ASSUME TypeOK, NEW o \in Outcomes, NEW u \in Users, NEW a \in Deposits,
           RecordContribution(o, u, a)
    PROVE  /\ live' \in [Outcomes -> SUBSET Users]
           /\ prefunded' \in [Outcomes -> SUBSET Users]
           /\ stake' \in [Outcomes -> [Users -> Nat]]
           /\ late_lp' \in [Outcomes -> [Users -> Nat]]
           /\ escrow' \in [Outcomes -> Nat]
           /\ ledger' \in [Outcomes -> [Users -> Receipts]]
<1>1. a \in Nat
  BY ConstantsAssumption
<1>2. live' \in [Outcomes -> SUBSET Users] /\ prefunded' \in [Outcomes -> SUBSET Users]
  BY DEF RecordContribution, TypeOK
<1>3. stake' \in [Outcomes -> [Users -> Nat]] /\ late_lp' \in [Outcomes -> [Users -> Nat]]
  BY <1>1 DEF RecordContribution, Topped, TypeOK
<1>4. escrow' \in [Outcomes -> Nat]
  BY <1>1 DEF RecordContribution, TypeOK
<1>5. ledger' \in [Outcomes -> [Users -> Receipts]]
  <2>1. ledger[o][u] \in Receipts
    BY DEF TypeOK
  <2>2. [ledger[o][u] EXCEPT !.sol_in = @ + a] \in Receipts
    BY <1>1, <2>1 DEF Receipts
  <2>3. QED
    BY <2>2 DEF RecordContribution, TypeOK
<1>6. QED
  BY <1>2, <1>3, <1>4, <1>5

\* So do those a refund or a claim touches.
LEMMA CloseContributionType ==
    ASSUME TypeOK, NEW o \in Outcomes, NEW u \in Users, market[o] \in Market,
           CloseContribution(o, u)
    PROVE  /\ market' \in [Outcomes -> Market \cup {NoMarket}]
           /\ live' \in [Outcomes -> SUBSET Users]
           /\ prefunded' \in [Outcomes -> SUBSET Users]
           /\ stake' \in [Outcomes -> [Users -> Nat]]
           /\ late_lp' \in [Outcomes -> [Users -> Nat]]
<1>1. [market[o] EXCEPT !.open_contributions = @ - 1] \in Market
  BY DEF CloseContribution, Counted, Market
<1>2. market' = [market EXCEPT ![o] = [market[o] EXCEPT !.open_contributions = @ - 1]]
  BY DEF CloseContribution, TypeOK
<1>3. market' \in [Outcomes -> Market \cup {NoMarket}]
  BY <1>1, <1>2 DEF TypeOK
<1>4. /\ live' \in [Outcomes -> SUBSET Users]
      /\ prefunded' \in [Outcomes -> SUBSET Users]
      /\ stake' \in [Outcomes -> [Users -> Nat]]
      /\ late_lp' \in [Outcomes -> [Users -> Nat]]
  BY DEF CloseContribution, TypeOK
<1>5. QED
  BY <1>3, <1>4

\* Replacing one market by another keeps the type of the map.
LEMMA MarketUpdate ==
    ASSUME TypeOK, NEW o \in Outcomes, NEW m \in Market \cup {NoMarket},
           market' = [market EXCEPT ![o] = m]
    PROVE  market' \in [Outcomes -> Market \cup {NoMarket}]
BY DEF TypeOK

LEMMA FundingStepType ==
    ASSUME TypeOK, NEW o \in Outcomes, FundingNext(o)
    PROVE  TypeOK'
<1>1. ASSUME NEW u \in Users, NEW a \in Deposits, NEW floor \in Floors, NEW fee \in FeeRates,
             CreateMarket(o, u, a, floor, fee)
      PROVE  TypeOK'
  <2> DEFINE m == [status |-> "Funding", creator |-> u, min_liquidity |-> floor,
                   fee_bps |-> fee, total_contributed |-> a, open_contributions |-> 1,
                   lp_total |-> 0, gross_lp_total |-> 0,
                   activation_lp |-> 0, activation_contributed |-> 0,
                   activated |-> FALSE, settled |-> 0, fee_collected |-> 0]
  <2>1. m \in Market
    BY ConstantsAssumption DEF Market, MarketStatus
  <2>2. market' = [market EXCEPT ![o] = m]
    BY <1>1 DEF CreateMarket
  <2>3. market' \in [Outcomes -> Market \cup {NoMarket}]
    BY <2>1, <2>2, MarketUpdate
  <2>4. RecordContribution(o, u, a)
    BY <1>1 DEF CreateMarket
  <2>5. UNCHANGED <<subject, interaction, question, lp_vault, gifts, adopted>>
    BY <1>1 DEF CreateMarket
  <2>6. QED
    BY <2>3, <2>4, <2>5, RecordContributionType DEF TypeOK
<1>2. ASSUME NEW u \in Users, NEW a \in Deposits, Contribute(o, u, a)
      PROVE  TypeOK'
  <2> DEFINE new == IF CreatesNew(o, u) THEN 1 ELSE 0
             t == market[o].total_contributed + a
             c == market[o].open_contributions + new
             m == [market[o] EXCEPT !.total_contributed = t, !.open_contributions = c]
  <2>1. market[o] \in Market
    BY <1>2, StatusMeansMarket DEF TypeOK, Contribute
  <2>2. t \in Nat /\ c \in Nat
    BY <2>1, ConstantsAssumption DEF Market
  <2>3. market' = [market EXCEPT ![o] = m]
    BY <1>2 DEF Contribute
  <2> HIDE DEF t, c
  <2>4. m \in Market
    BY <2>1, <2>2, DepositRecord
  <2>5. market' \in [Outcomes -> Market \cup {NoMarket}]
    BY <2>3, <2>4, MarketUpdate, Zenon
  <2>6. RecordContribution(o, u, a) /\ UNCHANGED <<subject, interaction, question, lp_vault, gifts>>
    BY <1>2 DEF Contribute
  <2>7. adopted' \in [Outcomes -> Nat]
    BY <1>2 DEF Contribute, TypeOK
  <2>8. QED
    BY <2>5, <2>6, <2>7, RecordContributionType DEF TypeOK
<1>3. CASE Cancel(o)
  <2> DEFINE m == [market[o] EXCEPT !.status = "Cancelled"]
  <2>1. market[o] \in Market
    BY <1>3, StatusMeansMarket DEF TypeOK, Cancel, CancelAccepted
  <2>2. m \in Market
    BY <2>1 DEF Market, MarketStatus
  <2>3. market' \in [Outcomes -> Market \cup {NoMarket}]
    BY <1>3, <2>2, MarketUpdate DEF Cancel
  <2>4. QED
    BY <1>3, <2>3 DEF Cancel, TypeOK, accounts, vaults, history
<1>4. ASSUME NEW u \in Users, Refund(o, u)
      PROVE  TypeOK'
  <2>1. market[o] \in Market
    BY <1>4, StatusMeansMarket DEF TypeOK, Refund, RefundAccepted
  <2>2. /\ CloseContribution(o, u)
        /\ UNCHANGED <<subject, interaction, question, lp_vault, gifts, adopted>>
    BY <1>4 DEF Refund
  <2>3. ledger[o][u] \in Receipts /\ stake[o][u] \in Nat /\ escrow[o] \in Nat
    BY DEF TypeOK
  <2>4. [ledger[o][u] EXCEPT !.sol_out = @ + stake[o][u]] \in Receipts
    BY <2>3 DEF Receipts
  <2>5. ledger' \in [Outcomes -> [Users -> Receipts]]
    BY <1>4, <2>4 DEF Refund, TypeOK
  <2>6. escrow' \in [Outcomes -> Nat]
    BY <1>4, <2>3 DEF Refund, RefundAccepted, TypeOK
  <2>7. QED
    BY <2>1, <2>2, <2>5, <2>6, CloseContributionType DEF TypeOK
<1>5. QED
  BY <1>1, <1>2, <1>3, <1>4 DEF FundingNext

LEMMA TradingStepType ==
    ASSUME TypeOK, NEW o \in Outcomes, TradingNext(o)
    PROVE  TypeOK'
<1>1. ASSUME NEW pool \in Pools \cup {EmptyPool}, NEW lp \in ActivationLps,
             Activate(o, pool, lp)
      PROVE  TypeOK'
  <2> DEFINE m == [market[o] EXCEPT !.status = "Active", !.activated = TRUE,
                     !.lp_total = lp, !.gross_lp_total = lp, !.activation_lp = lp,
                     !.activation_contributed = market[o].total_contributed]
  <2>1. market[o] \in Market
    BY <1>1, StatusMeansMarket DEF TypeOK, Activate, ActivateAccepted
  <2>2. lp \in Nat /\ escrow[o] \in Nat /\ market[o].total_contributed \in Nat
    BY <2>1, ConstantsAssumption DEF TypeOK, Market
  <2>3. market' = [market EXCEPT ![o] = m]
    BY <1>1, Zenon DEF Activate
  <2>4. m \in Market
    BY <2>1, <2>2, ActivateRecord
  <2>5. market' \in [Outcomes -> Market \cup {NoMarket}]
    BY <2>3, <2>4, MarketUpdate, Zenon
  <2>6. /\ escrow' = [escrow EXCEPT ![o] = escrow[o] - market[o].total_contributed]
        /\ escrow[o] >= market[o].total_contributed
        /\ lp_vault' = [lp_vault EXCEPT ![o] = lp]
    BY <1>1, Zenon DEF Activate, ActivateAccepted
  <2>7. escrow' \in [Outcomes -> Nat] /\ lp_vault' \in [Outcomes -> Nat]
    BY <2>2, <2>6 DEF TypeOK
  <2>8. UNCHANGED <<subject, interaction, question, accounts, history>>
    BY <1>1, Zenon DEF Activate
  <2>9. QED
    BY <2>5, <2>7, <2>8 DEF TypeOK, accounts, history
<1>2. ASSUME NEW u \in Users, NEW a \in Deposits, NEW lp \in LateLps, AddLiquidity(o, u, a, lp)
      PROVE  TypeOK'
  <2> DEFINE new == IF CreatesNew(o, u) THEN 1 ELSE 0
             l == market[o].lp_total + lp
             g == market[o].gross_lp_total + lp
             t == market[o].total_contributed + a
             c == market[o].open_contributions + new
             m == [market[o] EXCEPT !.lp_total = l, !.gross_lp_total = g,
                                    !.total_contributed = t, !.open_contributions = c]
  <2>1. market[o] \in Market
    BY <1>2, StatusMeansMarket, Zenon DEF TypeOK, AddLiquidity
  <2>2. lp \in Nat /\ l \in Nat /\ g \in Nat /\ t \in Nat /\ c \in Nat
    BY <2>1, ConstantsAssumption DEF Market
  <2>3. market' = [market EXCEPT ![o] = m]
    BY <1>2, Zenon DEF AddLiquidity
  <2> HIDE DEF l, g, t, c
  <2>4. m \in Market
    BY <2>1, <2>2, AddLiquidityRecord, Zenon
  <2>5. market' \in [Outcomes -> Market \cup {NoMarket}]
    BY <2>3, <2>4, MarketUpdate, Zenon
  <2>6. /\ RecordLateLp(o, u, lp)
        /\ lp_vault' = [lp_vault EXCEPT ![o] = @ + lp]
        /\ UNCHANGED <<subject, interaction, question, escrow, history>>
    BY <1>2, Zenon DEF AddLiquidity
  <2>7. lp_vault' \in [Outcomes -> Nat]
    BY <2>2, <2>6 DEF TypeOK
  <2>8. /\ live' \in [Outcomes -> SUBSET Users]
        /\ stake' \in [Outcomes -> [Users -> Nat]]
        /\ late_lp' \in [Outcomes -> [Users -> Nat]]
        /\ UNCHANGED prefunded
    BY <2>2, <2>6 DEF RecordLateLp, LateTopped, TypeOK
  <2>9. QED
    BY <2>5, <2>6, <2>7, <2>8 DEF TypeOK, history
<1>3. QED
  BY <1>1, <1>2 DEF TradingNext

\* The fee that collect_fee computes is part of the market's own LP: none of
\* its divisions is by zero once the question is resolved and the pool has LP.
LEMMA FeeDueNat ==
    ASSUME TypeOK, NEW o \in Outcomes, NEW pool \in Pools,
           market[o] \in Market,
           market[o].fee_bps > 0 /\ market[o].lp_total > 0
               => question[o] # Unresolved /\ pool.supply > 0
    PROVE  FeeDue(o, pool) \in Nat /\ FeeDue(o, pool) <= market[o].lp_total
<1> DEFINE m == market[o]
           value == PoolValue(pool.base, pool.quote, question[o])
<1>1. pool \in [base : Nat, quote : Nat, supply : Nat]
  BY ConstantsAssumption
<1>2. pool.base \in Nat /\ pool.quote \in Nat /\ pool.supply \in Nat
  BY <1>1
<1>3. m.lp_total \in Nat /\ m.total_contributed \in Nat /\ m.fee_bps \in 0..BpsScale
  <2>1. m.lp_total \in Nat /\ m.total_contributed \in Nat /\ m.fee_bps \in 0..MAX_FEE_BPS
    <3>1. m \in Market
      OBVIOUS
    <3> HIDE DEF m
    <3>2. QED
      BY <3>1 DEF Market
  <2>2. MAX_FEE_BPS \in Nat /\ MAX_FEE_BPS <= BpsScale /\ BpsScale \in Nat
    BY DEF MAX_FEE_BPS, BpsScale
  <2>3. QED
    BY <2>1, <2>2
<1>4. CASE m.fee_bps = 0 \/ m.lp_total = 0
  BY <1>3, <1>4 DEF FeeDue
<1>5. CASE ~(m.fee_bps = 0 \/ m.lp_total = 0)
  <2>1. question[o] \in Payouts /\ question[o] # Unresolved /\ pool.supply > 0
    BY <1>3, <1>5 DEF TypeOK
  <2>2. /\ question[o].yes \in Nat /\ question[o].no \in Nat
        /\ question[o].yes + question[o].no > 0
    BY <2>1 DEF Payouts, Unresolved
  <2>3. value \in Nat
    BY <1>2, <2>2, PoolValueNat
  <2>4. FeeDue(o, pool)
          = FeeLp(m.lp_total, m.total_contributed, m.fee_bps, value, pool.supply)
    BY <1>5, Zenon DEF FeeDue
  <2> HIDE DEF value
  <2>5. /\ FeeLp(m.lp_total, m.total_contributed, m.fee_bps, value, pool.supply) \in Nat
        /\ FeeLp(m.lp_total, m.total_contributed, m.fee_bps, value, pool.supply) <= m.lp_total
    BY <1>2, <1>3, <2>1, <2>3, FeeLpBounds
  <2>6. QED
    BY <2>4, <2>5
<1>6. QED
  BY <1>4, <1>5

\* So is the share that claim_lp computes.
LEMMA ShareNat ==
    ASSUME TypeOK, NEW o \in Outcomes, NEW u \in Users, market[o] \in Market,
           market[o].open_contributions = 1 \/ ShareBasis(o) > 0
    PROVE  Share(o, u) \in Nat
<1> DEFINE m == market[o]
<1>1. /\ m.lp_total \in Nat /\ m.total_contributed \in Nat /\ m.gross_lp_total \in Nat
      /\ m.activation_lp \in Nat /\ m.activation_contributed \in Nat
  BY DEF Market
<1>2. stake[o][u] \in Nat /\ late_lp[o][u] \in Nat /\ lp_vault[o] \in Nat
  BY DEF TypeOK
<1>3. CASE m.open_contributions = 1
  BY <1>2, <1>3 DEF Share
<1>4. CASE m.open_contributions # 1 /\ m.gross_lp_total = m.activation_lp
  <2>1. m.total_contributed > 0
    BY <1>4 DEF ShareBasis
  <2>2. ProRataShare(m.lp_total, stake[o][u], m.total_contributed) \in Nat
    BY <1>1, <1>2, <2>1, ProductNat, DivFloor DEF ProRataShare
  <2>3. QED
    BY <1>4, <2>2 DEF Share, FloorShare
<1>5. CASE m.open_contributions # 1 /\ m.gross_lp_total # m.activation_lp
  <2> DEFINE gross == GrossLp(m.activation_lp, m.activation_contributed,
                              stake[o][u], late_lp[o][u])
  <2>1. m.gross_lp_total > 0
    BY <1>5 DEF ShareBasis
  <2>2. gross \in Nat
    <3>1. CASE m.activation_contributed = 0
      BY <1>2, <3>1 DEF GrossLp
    <3>2. CASE m.activation_contributed # 0
      <4>1. (m.activation_lp * stake[o][u]) \div m.activation_contributed \in Nat
        BY <1>1, <1>2, <3>2, ProductNat, DivFloor
      <4>2. QED
        BY <1>2, <3>2, <4>1 DEF GrossLp
    <3>3. QED
      BY <3>1, <3>2
  <2> HIDE DEF gross
  <2>3. GrossLpShare(m.lp_total, gross, m.gross_lp_total) \in Nat
    BY <1>1, <2>1, <2>2, ProductNat, DivFloor DEF GrossLpShare
  <2>4. QED
    BY <1>5, <2>3 DEF Share, FloorShare, gross
<1>6. QED
  BY <1>3, <1>4, <1>5

LEMMA SettlementStepType ==
    ASSUME TypeOK, NEW o \in Outcomes, SettlementNext(o)
    PROVE  TypeOK'
<1>1. CASE ResolveMarket(o)
  <2> DEFINE f == IF market[o].fee_bps = 0 \/ market[o].lp_total = 0
                  THEN 1 ELSE market[o].fee_collected
             m == [market[o] EXCEPT !.settled = 1, !.status = subject.status,
                                    !.fee_collected = f]
  <2>1. market[o] \in Market
    BY <1>1, StatusMeansMarket, Zenon DEF TypeOK, ResolveMarket, ResolveAccepted
  <2>2. f \in {0, 1}
    BY <2>1 DEF Market
  <2>3. market' = [market EXCEPT ![o] = m]
    BY <1>1, Zenon DEF ResolveMarket
  <2> HIDE DEF f
  <2>4. subject.status \in Settled
    BY <1>1, Zenon DEF ResolveMarket, ResolveAccepted, Terminal, Settled
  <2>5. m \in Market
    BY <2>1, <2>2, <2>4, ResolveRecord, Zenon
  <2>6. market' \in [Outcomes -> Market \cup {NoMarket}]
    BY <2>3, <2>5, MarketUpdate, Zenon
  <2>7. /\ question' = [question EXCEPT ![o] = Numerators(o)]
        /\ UNCHANGED <<subject, interaction, accounts, vaults, history>>
    BY <1>1, Zenon DEF ResolveMarket
  <2>8. Numerators(o) \in Payouts
    BY DEF Numerators, Payouts
  <2>9. question' \in [Outcomes -> Payouts]
    BY <2>7, <2>8 DEF TypeOK
  <2>10. QED
    BY <2>6, <2>7, <2>9 DEF TypeOK, accounts, vaults, history
<1>2. ASSUME NEW pool \in Pools, CollectFee(o, pool)
      PROVE  TypeOK'
  <2> DEFINE fee == FeeDue(o, pool)
             l == market[o].lp_total - fee
             m == [market[o] EXCEPT !.lp_total = l, !.fee_collected = 1]
  <2>1. market[o] \in Market
    BY <1>2, StatusMeansMarket, Zenon DEF TypeOK, CollectFee, CollectFeeAccepted, FeeOpen, Settled
  <2>2. fee \in Nat /\ fee <= market[o].lp_total
    BY <1>2, <2>1, FeeDueNat, Zenon DEF CollectFee, CollectFeeAccepted
  <2>3. /\ market' = [market EXCEPT ![o] = m]
        /\ lp_vault' = [lp_vault EXCEPT ![o] = @ - fee]
        /\ fee <= lp_vault[o]
        /\ escrow' = [escrow EXCEPT ![o] = IF fee > 0 THEN 0 ELSE @]
        /\ UNCHANGED <<subject, interaction, question, accounts, history>>
    BY <1>2, Zenon DEF CollectFee, CollectFeeAccepted, CutFee
  <2> HIDE DEF fee
  <2>4. l \in Nat
    BY <2>1, <2>2 DEF Market
  <2> HIDE DEF l
  <2>5. m \in Market
    BY <2>1, <2>4, CollectRecord, Zenon
  <2>6. market' \in [Outcomes -> Market \cup {NoMarket}]
    BY <2>3, <2>5, MarketUpdate, Zenon
  <2> HIDE DEF m
  <2>7. lp_vault' \in [Outcomes -> Nat] /\ escrow' \in [Outcomes -> Nat]
    BY <2>2, <2>3 DEF TypeOK
  <2>8. QED
    BY <2>3, <2>6, <2>7 DEF TypeOK, accounts, history
<1>3. ASSUME NEW u \in Users, ClaimLp(o, u)
      PROVE  TypeOK'
  <2>1. market[o] \in Market
    BY <1>3, StatusMeansMarket, Zenon DEF TypeOK, ClaimLp, ClaimAccepted, Settled
  <2>2. Share(o, u) \in Nat
    BY <1>3, <2>1, ShareNat, Zenon DEF ClaimLp, ClaimAccepted
  <2>3. /\ Share(o, u) <= lp_vault[o]
        /\ lp_vault' = [lp_vault EXCEPT ![o] = @ - Share(o, u)]
        /\ ledger' = [ledger EXCEPT ![o][u] =
                        [ledger[o][u] EXCEPT !.lp_out = @ + Share(o, u)]]
        /\ CloseContribution(o, u)
        /\ UNCHANGED <<subject, interaction, question, escrow, gifts, adopted>>
    BY <1>3, Zenon DEF ClaimLp, ClaimAccepted
  <2>4. lp_vault' \in [Outcomes -> Nat]
    BY <2>2, <2>3 DEF TypeOK
  <2>5. ledger[o][u] \in Receipts
    BY DEF TypeOK
  <2>6. [ledger[o][u] EXCEPT !.lp_out = @ + Share(o, u)] \in Receipts
    BY <2>2, <2>5 DEF Receipts
  <2>7. ledger' \in [Outcomes -> [Users -> Receipts]]
    BY <2>3, <2>6 DEF TypeOK
  <2>8. QED
    BY <2>1, <2>3, <2>4, <2>7, CloseContributionType DEF TypeOK
<1>4. CASE CloseMarket(o)
  <2>1. market' = [market EXCEPT ![o] = NoMarket]
    BY <1>4 DEF CloseMarket
  <2>2. market' \in [Outcomes -> Market \cup {NoMarket}]
    BY <2>1, MarketUpdate
  <2>3. QED
    BY <1>4, <2>2 DEF CloseMarket, TypeOK, accounts, vaults, history
<1>5. QED
  BY <1>1, <1>2, <1>3, <1>4 DEF SettlementNext

LEMMA OutsideStepType ==
    ASSUME TypeOK, NEW o \in Outcomes, OutsideNext(o)
    PROVE  TypeOK'
<1>1. ASSUME NEW u \in Users, Prefund(o, u) PROVE TypeOK'
  BY <1>1 DEF Prefund, TypeOK, vaults, history
<1>2. ASSUME NEW d \in Gifts, DonateSol(o, d) PROVE TypeOK'
  <2>1. d \in Nat
    BY ConstantsAssumption
  <2>2. gifts[o] \in [sol : Nat, lp : Nat]
    BY DEF TypeOK
  <2>3. [gifts[o] EXCEPT !.sol = @ + d] \in [sol : Nat, lp : Nat]
    BY <2>1, <2>2
  <2>4. gifts' \in [Outcomes -> [sol : Nat, lp : Nat]]
    BY <1>2, <2>3 DEF DonateSol, TypeOK
  <2>5. escrow' \in [Outcomes -> Nat]
    BY <1>2, <2>1 DEF DonateSol, TypeOK
  <2>6. QED
    BY <1>2, <2>4, <2>5 DEF DonateSol, TypeOK, accounts
<1>3. ASSUME NEW d \in Gifts, DonateLp(o, d) PROVE TypeOK'
  <2>1. d \in Nat
    BY ConstantsAssumption
  <2>2. gifts[o] \in [sol : Nat, lp : Nat]
    BY DEF TypeOK
  <2>3. [gifts[o] EXCEPT !.lp = @ + d] \in [sol : Nat, lp : Nat]
    BY <2>1, <2>2
  <2>4. gifts' \in [Outcomes -> [sol : Nat, lp : Nat]]
    BY <1>3, <2>3 DEF DonateLp, TypeOK
  <2>5. lp_vault' \in [Outcomes -> Nat]
    BY <1>3, <2>1 DEF DonateLp, TypeOK
  <2>6. QED
    BY <1>3, <2>4, <2>5 DEF DonateLp, TypeOK, accounts
<1>4. QED
  BY <1>1, <1>2, <1>3 DEF OutsideNext

LEMMA InitTypeOK == Init => TypeOK
<1> SUFFICES ASSUME Init PROVE TypeOK
  OBVIOUS
<1>1. subject \in [status : SubjectStatus, options_count : Nat, resolved_option : Nat]
  BY DEF Init, Pending, SubjectStatus
<1>2. question \in [Outcomes -> Payouts]
  BY DEF Init, Payouts
<1>3. gifts \in [Outcomes -> [sol : Nat, lp : Nat]]
  BY DEF Init
<1>4. ledger \in [Outcomes -> [Users -> Receipts]]
  <2>1. [sol_in |-> 0, sol_out |-> 0, lp_out |-> 0] \in Receipts
    BY DEF Receipts
  <2>2. QED
    BY <2>1 DEF Init
<1>5. /\ stake \in [Outcomes -> [Users -> Nat]]
      /\ late_lp \in [Outcomes -> [Users -> Nat]]
  BY DEF Init
<1>6. QED
  BY <1>1, <1>2, <1>3, <1>4, <1>5 DEF Init, TypeOK

\* Every account keeps its layout: no counter or balance of the program ever
\* goes below zero, whatever order the instructions come in.
THEOREM TypeCorrect == Spec => []TypeOK
<1>1. Init => TypeOK
  BY InitTypeOK
<1>2. TypeOK /\ [Next]_vars => TypeOK'
  <2> SUFFICES ASSUME TypeOK, [Next]_vars PROVE TypeOK'
    OBVIOUS
  <2>1. CASE SubjectNext
    BY <2>1, SubjectStepType
  <2>2. ASSUME NEW o \in Outcomes, MarketNext(o) PROVE TypeOK'
    BY <2>2, FundingStepType, TradingStepType, SettlementStepType, OutsideStepType
       DEF MarketNext
  <2>3. CASE UNCHANGED vars
    BY <2>3 DEF vars, TypeOK
  <2>4. QED
    BY <2>1, <2>2, <2>3 DEF Next
<1>3. QED
  BY <1>1, <1>2, PTL DEF Spec

(***************************************************************************)
(* The live-contribution counter, which gates close_market.                *)
(***************************************************************************)
\* How a market's instruction moves the counter and the contributions at its
\* address; the other addresses it leaves as they are.
Kept(o) ==
    /\ Exists(o)' <=> Exists(o)
    /\ market'[o].open_contributions = market[o].open_contributions
    /\ live'[o] = live[o] /\ adopted'[o] = adopted[o]

Joined(o, u) ==
    /\ Exists(o)' /\ live'[o] = live[o] \cup {u}
    /\ adopted'[o] \in {adopted[o], adopted[o] + 1}
    /\ Exists(o) => CreatesNew(o, u) \/ u \in live[o] \/ adopted'[o] = adopted[o] + 1
    /\ \/ ~Exists(o) /\ market'[o].open_contributions = 1
       \/ /\ Exists(o)
          /\ market'[o].open_contributions =
                 market[o].open_contributions + IF CreatesNew(o, u) THEN 1 ELSE 0

Left(o, u) ==
    /\ Exists(o) /\ Exists(o)'
    /\ u \in live[o] /\ live'[o] = live[o] \ {u}
    /\ market'[o].open_contributions = market[o].open_contributions - 1
    /\ adopted'[o] = adopted[o]

Reaped(o) ==
    /\ Exists(o) /\ market[o].open_contributions = 0
    /\ market'[o] = NoMarket /\ live'[o] = live[o] /\ adopted'[o] = adopted[o]

Moves(o) ==
    /\ \A p \in Outcomes \ {o} : 
           market'[p] = market[p] /\ live'[p] = live[p] /\ adopted'[p] = adopted[p]
    /\ Kept(o) \/ Reaped(o) \/ \E u \in Users : Joined(o, u) \/ Left(o, u)

LEMMA CloseMoves ==
    ASSUME TypeOK, NEW o \in Outcomes, NEW u \in live[o],
           market[o] \in Market, CloseContribution(o, u), UNCHANGED adopted
    PROVE  Moves(o)
BY MarketIsNotNone DEF CloseContribution, Moves, Left, TypeOK, Market, Exists, NoMarket

LEMMA FundingMoves ==
    ASSUME TypeOK, NEW o \in Outcomes, FundingNext(o)
    PROVE  Moves(o)
<1>1. ASSUME NEW u \in Users, NEW a \in Deposits, NEW floor \in Floors, NEW fee \in FeeRates,
             CreateMarket(o, u, a, floor, fee)
      PROVE  Moves(o)
  BY <1>1 DEF CreateMarket, RecordContribution, Moves, Joined, TypeOK, Exists, NoMarket
<1>2. ASSUME NEW u \in Users, NEW a \in Deposits, Contribute(o, u, a)
      PROVE  Moves(o)
  <2>1. market[o] \in Market /\ Exists(o)
    BY <1>2, StatusMeansMarket, MarketIsNotNone, Zenon DEF TypeOK, Contribute, Exists
  <2> DEFINE c == market[o].open_contributions + IF CreatesNew(o, u) THEN 1 ELSE 0
             m == [market[o] EXCEPT !.total_contributed = @ + a, !.open_contributions = c]
  <2>2. market' = [market EXCEPT ![o] = m]
    BY <1>2, Zenon DEF Contribute
  <2>3. /\ live' = [live EXCEPT ![o] = @ \cup {u}]
        /\ adopted' = [adopted EXCEPT ![o] = @ + IF u \in prefunded[o] \ live[o] THEN 1 ELSE 0]
    BY <1>2, Zenon DEF Contribute, RecordContribution
  <2>4. m # NoMarket /\ m.open_contributions = c
    BY <2>1 DEF Market, NoMarket, MarketStatus
  <2>5. market'[o] = m /\ \A p \in Outcomes \ {o} : market'[p] = market[p]
    BY <2>2 DEF TypeOK
  <2> HIDE DEF m
  <2>6. /\ live'[o] = live[o] \cup {u}
        /\ adopted'[o] \in {adopted[o], adopted[o] + 1}
        /\ CreatesNew(o, u) \/ u \in live[o] \/ adopted'[o] = adopted[o] + 1
        /\ \A p \in Outcomes \ {o} : live'[p] = live[p] /\ adopted'[p] = adopted[p]
    BY <2>3 DEF TypeOK, CreatesNew, Blank
  <2>7. QED
    BY <2>1, <2>4, <2>5, <2>6, Zenon DEF Moves, Joined, Exists
<1>3. CASE Cancel(o)
  <2>1. market[o] \in Market /\ Exists(o)
    BY <1>3, StatusMeansMarket, MarketIsNotNone, Zenon DEF TypeOK, Cancel, CancelAccepted, Exists
  <2>2. QED
    BY <1>3, <2>1 DEF Cancel, accounts, history, Moves, Kept, TypeOK, Market, Exists, NoMarket
<1>4. ASSUME NEW u \in Users, Refund(o, u)
      PROVE  Moves(o)
  BY <1>4, StatusMeansMarket, CloseMoves DEF Refund, RefundAccepted, TypeOK
<1>5. QED
  BY <1>1, <1>2, <1>3, <1>4 DEF FundingNext

LEMMA TradingMoves ==
    ASSUME TypeOK, NEW o \in Outcomes, TradingNext(o)
    PROVE  Moves(o)
<1>1. ASSUME NEW pool \in Pools \cup {EmptyPool}, NEW lp \in ActivationLps,
             Activate(o, pool, lp)
      PROVE  Moves(o)
  <2>1. market[o] \in Market /\ Exists(o)
    BY <1>1, StatusMeansMarket, MarketIsNotNone, Zenon
       DEF TypeOK, Activate, ActivateAccepted, Exists
  <2>2. QED
    BY <1>1, <2>1 DEF Activate, accounts, history, Moves, Kept, TypeOK, Market, Exists, NoMarket
<1>2. ASSUME NEW u \in Users, NEW a \in Deposits, NEW lp \in LateLps, AddLiquidity(o, u, a, lp)
      PROVE  Moves(o)
  <2>1. market[o] \in Market /\ Exists(o)
    BY <1>2, StatusMeansMarket, MarketIsNotNone, Zenon DEF TypeOK, AddLiquidity, Exists
  <2>2. QED
    BY <1>2, <2>1 DEF AddLiquidity, RecordLateLp, CreatesNew, Blank, history, Moves, Joined, TypeOK,
                      Market, Exists, NoMarket
<1>3. QED
  BY <1>1, <1>2 DEF TradingNext

LEMMA SettlementMoves ==
    ASSUME TypeOK, NEW o \in Outcomes, SettlementNext(o)
    PROVE  Moves(o)
<1>1. market[o] \in Market /\ Exists(o)
  <2>1. market[o].status \in {"Active", "Cancelled"} \cup Settled
    BY DEF SettlementNext, ResolveMarket, ResolveAccepted, CollectFee, CollectFeeAccepted, FeeOpen,
       ClaimLp, ClaimAccepted, CloseMarket, CloseAccepted
  <2>2. QED
    BY <2>1, StatusMeansMarket, MarketIsNotNone DEF TypeOK, Settled, Exists
<1>2. CASE ResolveMarket(o)
  BY <1>1, <1>2 DEF ResolveMarket, accounts, history, Moves, Kept, TypeOK, Market, Exists, NoMarket
<1>3. ASSUME NEW pool \in Pools, CollectFee(o, pool)
      PROVE  Moves(o)
  BY <1>1, <1>3 DEF CollectFee, CutFee, accounts, history, Moves, Kept, TypeOK, Market, Exists,
                    NoMarket
<1>4. ASSUME NEW u \in Users, ClaimLp(o, u)
      PROVE  Moves(o)
  BY <1>1, <1>4, CloseMoves, Zenon DEF ClaimLp, ClaimAccepted
<1>5. CASE CloseMarket(o)
  BY <1>1, <1>5 DEF CloseMarket, CloseAccepted, NobodyLeft, accounts, history, Moves, Reaped, TypeOK
<1>6. QED
  BY <1>2, <1>3, <1>4, <1>5 DEF SettlementNext

\* One wallet more or less, in numbers.
LEMMA LiveCounts ==
    ASSUME TypeOK, NEW o \in Outcomes
    PROVE  /\ Cardinality(live[o]) \in Nat
           /\ Cardinality(live[o]) = 0 <=> live[o] = {}
           /\ \A u \in Users :
                 Cardinality(live[o] \cup {u}) =
                     IF u \in live[o] THEN Cardinality(live[o]) ELSE Cardinality(live[o]) + 1
           /\ \A u \in live[o] : Cardinality(live[o] \ {u}) = Cardinality(live[o]) - 1
<1>1. IsFiniteSet(live[o])
  BY FS_Subset, ConstantsAssumption DEF TypeOK
<1>2. QED
  BY <1>1, FS_CardinalityType, FS_EmptySet, FS_AddElement, FS_RemoveElement

\* A move leaves the counter at or below the contributions if it was: only an
\* account that is not there yet is ever counted.
LEMMA NeverOverStep ==
    ASSUME TypeOK, TypeOK', CounterNeverOver, NEW o \in Outcomes, Moves(o)
    PROVE  CounterNeverOver'
<1> DEFINE c == market[o].open_contributions
           d == market'[o].open_contributions
<1>1. Exists(o) => c \in Nat /\ c <= Cardinality(live[o])
  BY DEF CounterNeverOver, Exists, TypeOK, Market
<1>2. Exists(o)' => d <= Cardinality(live'[o])
  <2>1. ASSUME NEW u \in Users, Joined(o, u)
        PROVE  d <= Cardinality(live'[o])
    BY <1>1, <2>1, LiveCounts DEF Joined, CreatesNew, Blank
  <2>2. ASSUME NEW u \in Users, Left(o, u)
        PROVE  d <= Cardinality(live'[o])
    BY <1>1, <2>2, LiveCounts DEF Left
  <2>3. QED
    BY <1>1, <2>1, <2>2 DEF Moves, Kept, Reaped, Exists
<1>3. QED
  BY <1>2 DEF CounterNeverOver, Moves, Exists

\* Whatever addresses hold lamports early, close_market is at worst let
\* through too early: it never waits for a contribution that is not there.
THEOREM NeverOver == Spec => []CounterNeverOver
<1>1. Init => CounterNeverOver
  BY DEF Init, CounterNeverOver, Exists
<1>2. TypeOK /\ TypeOK' /\ CounterNeverOver /\ [Next]_vars => CounterNeverOver'
  <2> SUFFICES ASSUME TypeOK, TypeOK', CounterNeverOver, [Next]_vars PROVE CounterNeverOver'
    OBVIOUS
  <2>1. CASE UNCHANGED <<market, live>>
    BY <2>1 DEF CounterNeverOver, Exists
  <2>2. CASE SubjectNext
    BY <2>1, <2>2
       DEF SubjectNext, CreateSubject, RequestAi, CallbackFromGpt, RequestLost, accounts
  <2>3. ASSUME NEW o \in Outcomes, OutsideNext(o) PROVE CounterNeverOver'
    BY <2>1, <2>3 DEF OutsideNext, Prefund, DonateSol, DonateLp, accounts
  <2>4. QED
    BY <2>1, <2>2, <2>3, FundingMoves, TradingMoves, SettlementMoves, NeverOverStep
       DEF Next, MarketNext, vars
<1>3. QED
  BY <1>1, <1>2, TypeCorrect, PTL DEF Spec

(***************************************************************************)
(* Who is left in it                                                       *)
(***************************************************************************)
CounterInv == TypeOK /\ CounterNeverShort /\ StrandedOnlyIfAdopted

\* A move leaves the counter no further out: a market starts at 1 with one
\* more in it than were there, and an account that is not counted when it is
\* created is adopted.
LEMMA CountedStep ==
    ASSUME CounterInv, NEW o \in Outcomes, Moves(o), TypeOK'
    PROVE  CounterNeverShort' /\ StrandedOnlyIfAdopted'
<1> DEFINE c == market[o].open_contributions
           d == market'[o].open_contributions
<1> TypeOK
  BY DEF CounterInv
<1>1. /\ adopted[o] \in Nat /\ adopted'[o] \in Nat
      /\ Exists(o) => c \in Nat /\ Cardinality(live[o]) <= c + adopted[o]
      /\ ~Exists(o) => Cardinality(live[o]) <= adopted[o]
  BY DEF CounterInv, CounterNeverShort, StrandedOnlyIfAdopted, Exists, TypeOK, Market
<1>2. IF Exists(o)' THEN Cardinality(live'[o]) <= d + adopted'[o]
                    ELSE Cardinality(live'[o]) <= adopted'[o]
  <2>1. CASE Kept(o)
    BY <1>1, <2>1 DEF Kept
  <2>2. CASE Reaped(o)
    BY <1>1, <2>2 DEF Reaped, Exists
  <2>3. ASSUME NEW u \in Users, Joined(o, u)
        PROVE  Exists(o)' /\ Cardinality(live'[o]) <= d + adopted'[o]
    BY <1>1, <2>3, LiveCounts DEF Joined
  <2>4. ASSUME NEW u \in Users, Left(o, u)
        PROVE  Exists(o)' /\ Cardinality(live'[o]) <= d + adopted'[o]
    <3>1. /\ Cardinality(live'[o]) = Cardinality(live[o]) - 1
          /\ Cardinality(live[o]) \in Nat
      BY <2>4, LiveCounts DEF Left
    <3>2. Exists(o) /\ Exists(o)' /\ d = c - 1 /\ adopted'[o] = adopted[o]
      BY <2>4 DEF Left
    <3>3. QED
      BY <1>1, <3>1, <3>2
  <2>5. QED
    BY <2>1, <2>2, <2>3, <2>4 DEF Moves
<1>3. QED
  BY <1>2 DEF CounterInv, CounterNeverShort, StrandedOnlyIfAdopted, Moves, Exists

LEMMA CounterNext ==
    ASSUME CounterInv, TypeOK', [Next]_vars
    PROVE  CounterInv'
<1>1. CASE UNCHANGED <<market, live, adopted>>
  BY <1>1 DEF CounterInv, CounterNeverShort, StrandedOnlyIfAdopted, Exists
<1>2. CASE SubjectNext
  BY <1>1, <1>2
     DEF SubjectNext, CreateSubject, RequestAi, CallbackFromGpt, RequestLost, accounts, history
<1>3. ASSUME NEW o \in Outcomes, OutsideNext(o) PROVE CounterInv'
  BY <1>1, <1>3 DEF OutsideNext, Prefund, DonateSol, DonateLp, accounts, history
<1>4. QED
  BY <1>1, <1>2, <1>3, FundingMoves, TradingMoves, SettlementMoves, CountedStep
     DEF CounterInv, Next, MarketNext, vars

LEMMA CounterInvariant == Spec => []CounterInv
<1>1. Init => CounterInv
  <2> SUFFICES ASSUME Init PROVE CounterInv
    OBVIOUS
  <2>1. TypeOK
    BY InitTypeOK
  <2>2. QED
    BY <2>1, FS_EmptySet DEF Init, CounterInv, CounterNeverShort, StrandedOnlyIfAdopted, Exists
<1>2. CounterInv /\ TypeOK' /\ [Next]_vars => CounterInv'
  BY CounterNext
<1>3. QED
  BY <1>1, <1>2, TypeCorrect, PTL DEF Spec

\* The counter that gates close_market misses no contribution that exists but
\* one made at an address that held lamports, in whatever order deposits,
\* refunds and claims come.
THEOREM NeverShort == Spec => []CounterNeverShort
<1>1. CounterInv => CounterNeverShort
  BY DEF CounterInv
<1>2. QED
  BY <1>1, CounterInvariant, PTL

\* close_market never reaps a market with more people in it than came in at
\* such an address.
THEOREM OnlyAdoptedStranded == Spec => []StrandedOnlyIfAdopted
<1>1. CounterInv => StrandedOnlyIfAdopted
  BY DEF CounterInv
<1>2. QED
  BY <1>1, CounterInvariant, PTL

(***************************************************************************)
(* The life of a market, and Crowdfund                                     *)
(***************************************************************************)

\* Nobody has put anything in.
Outside(o, u) == ledger[o][u].sol_in = 0 /\ ledger[o][u].sol_out = 0

\* What was put in is the stake on record, and none of it came back.
InFull(o, u) == ledger[o][u].sol_in = stake[o][u] /\ ledger[o][u].sol_out = 0

Untouched(o) == live[o] = {} /\ \A u \in Users : Outside(o, u)
Touched(o)   == \E u \in Users : ledger[o][u].sol_in > 0

Life(o) ==
    /\ ~Exists(o) => Terminal \/ Untouched(o)
    /\ Exists(o) => Touched(o)
    /\ market[o].status = "Funding" =>
           \A u \in Users : IF u \in live[o] THEN InFull(o, u) ELSE Outside(o, u)
    /\ market[o].status = "Cancelled" => Terminal /\ \A u \in live[o] : InFull(o, u)
    /\ market[o].status \in {"Funding", "Active"} => market[o].fee_collected = 0
    /\ market[o].status \in {"Funding", "Active", "Cancelled"} => market[o].settled = 0
    /\ market[o].status \in Settled =>
           market[o].status = subject.status /\ question[o] = Numerators(o)

LifeInv == subject.status # "Void" /\ \A o \in Outcomes : Life(o)

\* A step at one address leaves the others as they are.
Elsewhere(o) ==
    /\ UNCHANGED subject
    /\ \A p \in Outcomes \ {o} :
           /\ market'[p] = market[p] /\ question'[p] = question[p] /\ live'[p] = live[p]
           /\ stake'[p] = stake[p] /\ ledger'[p] = ledger[p]

LEMMA LifeStep ==
    ASSUME LifeInv, NEW o \in Outcomes, Elsewhere(o), Life(o)'
    PROVE  LifeInv'
<1>1. ASSUME NEW p \in Outcomes \ {o} PROVE Life(p)'
  <2>1. Life(p)
    BY <1>1 DEF LifeInv
  <2>2. QED
    BY <1>1, <2>1 DEF Elsewhere, Life, Exists, Terminal, Untouched, Touched, Outside, InFull,
       Numerators
<1>2. QED
  BY <1>1 DEF LifeInv, Elsewhere

\* The phase a status stands for, before a step and after.
LEMMA PhaseIs ==
    ASSUME NEW o \in Outcomes
    PROVE  /\ market[o].status = "Funding" => PhaseOf(o) = "Funding"
           /\ market[o].status = "Active" => PhaseOf(o) = "Trading"
           /\ market[o].status = "Cancelled" => PhaseOf(o) = "Refunding"
           /\ market[o].status \in Settled /\ question[o].yes = 1 => PhaseOf(o) = "Yes"
           /\ market[o].status \in Settled /\ question[o].yes = 0 => PhaseOf(o) = "No"
BY DEF PhaseOf, Settled

LEMMA PhaseBecomes ==
    ASSUME NEW o \in Outcomes
    PROVE  /\ market'[o].status = "Funding" => PhaseOf(o)' = "Funding"
           /\ market'[o].status = "Active" => PhaseOf(o)' = "Trading"
           /\ market'[o].status = "Cancelled" => PhaseOf(o)' = "Refunding"
           /\ market'[o].status \in Settled /\ question'[o].yes = 1 => PhaseOf(o)' = "Yes"
           /\ market'[o].status \in Settled /\ question'[o].yes = 0 => PhaseOf(o)' = "No"
BY DEF PhaseOf, Settled

\* The phases after a step at one address.
LEMMA PhaseStep ==
    ASSUME NEW o \in Outcomes, Elsewhere(o)
    PROVE  /\ AnswerGiven' = AnswerGiven
           /\ PhaseNow' = [PhaseNow EXCEPT ![o] = PhaseOf(o)']
           /\ PhaseNow[o] = PhaseOf(o)
<1>1. ASSUME NEW p \in Outcomes \ {o} PROVE PhaseOf(p)' = PhaseOf(p)
  BY <1>1 DEF Elsewhere, PhaseOf
<1>2. QED
  BY <1>1 DEF PhaseNow, AnswerGiven, Terminal, Elsewhere

\* A step in which the address keeps its phase.
LEMMA PhaseKept ==
    ASSUME NEW o \in Outcomes, Elsewhere(o), PhaseOf(o)' = PhaseOf(o)
    PROVE  AnswerGiven' = AnswerGiven /\ PhaseNow' = PhaseNow /\ PhaseNow[o] = PhaseOf(o)
BY PhaseStep DEF PhaseNow

\* A deposit, on the receipts and as Crowdfund sees it.
Deposited(o, u, a) ==
    ledger' = [ledger EXCEPT ![o][u] = [ledger[o][u] EXCEPT !.sol_in = @ + a]]

SeenPaying(o, u, a) ==
    PaidIn' = [PaidIn EXCEPT ![o][u] = @ + a] /\ PaidBack' = PaidBack

LEMMA ReceiptIn ==
    ASSUME TypeOK, NEW o \in Outcomes, NEW u \in Users, NEW a \in Nat, Deposited(o, u, a)
    PROVE  /\ SeenPaying(o, u, a)
           /\ \A w \in Users :
                 /\ ledger'[o][w].sol_in = ledger[o][w].sol_in + IF w = u THEN a ELSE 0
                 /\ ledger'[o][w].sol_out = ledger[o][w].sol_out
<1>1. \A p \in Outcomes, w \in Users : ledger[p][w] \in Receipts
  BY DEF TypeOK
<1>2. \A p \in Outcomes, w \in Users :
         /\ ledger'[p][w].sol_in = ledger[p][w].sol_in + IF p = o /\ w = u THEN a ELSE 0
         /\ ledger'[p][w].sol_out = ledger[p][w].sol_out
  BY <1>1 DEF TypeOK, Receipts, Deposited
<1> DEFINE after == [PaidIn EXCEPT ![o][u] = @ + a]
<1>3. ASSUME NEW p \in Outcomes PROVE PaidIn'[p] = after[p] /\ PaidBack'[p] = PaidBack[p]
  <2>1. /\ PaidIn'[p] = [w \in Users |-> ledger'[p][w].sol_in]
        /\ PaidIn[p] = [w \in Users |-> ledger[p][w].sol_in]
    BY DEF PaidIn
  <2>2. /\ PaidBack'[p] = [w \in Users |-> ledger'[p][w].sol_out]
        /\ PaidBack[p] = [w \in Users |-> ledger[p][w].sol_out]
    BY DEF PaidBack
  <2>3. after[p] = IF p = o THEN [PaidIn[p] EXCEPT ![u] = @ + a] ELSE PaidIn[p]
    BY DEF PaidIn
  <2>4. \A w \in Users : ledger[p][w].sol_in \in Nat
    BY <1>1 DEF Receipts
  <2>5. CASE p = o
    BY <1>2, <2>1, <2>2, <2>3, <2>4, <2>5
  <2>6. CASE p # o
    BY <1>2, <2>1, <2>2, <2>3, <2>4, <2>6
  <2>7. QED
    BY <2>5, <2>6
<1>4. /\ PaidIn' = [p \in Outcomes |-> PaidIn'[p]] /\ after = [p \in Outcomes |-> after[p]]
      /\ PaidBack' = [p \in Outcomes |-> PaidBack'[p]]
      /\ PaidBack = [p \in Outcomes |-> PaidBack[p]]
  BY Zenon DEF PaidIn, PaidBack
<1> HIDE DEF after
<1>5. PaidIn' = after /\ PaidBack' = PaidBack
  BY <1>3, <1>4, Zenon
<1>6. QED
  BY <1>2, <1>5 DEF after, SeenPaying

\* No SOL of a contributor's moves.
SeenIdle == PaidIn' = PaidIn /\ PaidBack' = PaidBack

LEMMA ReceiptsSame ==
    ASSUME \A p \in Outcomes, w \in Users :
               /\ ledger'[p][w].sol_in = ledger[p][w].sol_in
               /\ ledger'[p][w].sol_out = ledger[p][w].sol_out
    PROVE  SeenIdle
<1>1. ASSUME NEW p \in Outcomes
      PROVE  /\ [w \in Users |-> ledger'[p][w].sol_in] = [w \in Users |-> ledger[p][w].sol_in]
             /\ [w \in Users |-> ledger'[p][w].sol_out] = [w \in Users |-> ledger[p][w].sol_out]
  OBVIOUS
<1>2. QED
  BY <1>1, Zenon DEF PaidIn, PaidBack, SeenIdle

\* A refund, on the receipts and as Crowdfund sees it.
Returned(o, u, b) ==
    ledger' = [ledger EXCEPT ![o][u] = [ledger[o][u] EXCEPT !.sol_out = @ + b]]

SeenRefunding(o, u) ==
    PaidIn' = PaidIn /\ PaidBack' = [PaidBack EXCEPT ![o][u] = PaidIn[o][u]]

LEMMA ReceiptOut ==
    ASSUME TypeOK, NEW o \in Outcomes, NEW u \in Users, NEW b \in Nat, Returned(o, u, b),
           ledger[o][u].sol_in = b, ledger[o][u].sol_out = 0
    PROVE  /\ SeenRefunding(o, u)
           /\ \A w \in Users :
                 /\ ledger'[o][w].sol_in = ledger[o][w].sol_in
                 /\ w # u => ledger'[o][w].sol_out = ledger[o][w].sol_out
<1>1. \A p \in Outcomes, w \in Users : ledger[p][w] \in Receipts
  BY DEF TypeOK
<1>2. \A p \in Outcomes, w \in Users :
         /\ ledger'[p][w].sol_in = ledger[p][w].sol_in
         /\ ledger'[p][w].sol_out = IF p = o /\ w = u THEN b ELSE ledger[p][w].sol_out
  BY <1>1 DEF TypeOK, Receipts, Returned
<1> DEFINE after == [PaidBack EXCEPT ![o][u] = PaidIn[o][u]]
<1>3. ASSUME NEW p \in Outcomes PROVE PaidIn'[p] = PaidIn[p] /\ PaidBack'[p] = after[p]
  <2>1. /\ PaidIn'[p] = [w \in Users |-> ledger'[p][w].sol_in]
        /\ PaidIn[p] = [w \in Users |-> ledger[p][w].sol_in]
    BY DEF PaidIn
  <2>2. /\ PaidBack'[p] = [w \in Users |-> ledger'[p][w].sol_out]
        /\ PaidBack[p] = [w \in Users |-> ledger[p][w].sol_out]
    BY DEF PaidBack
  <2>3. PaidIn[o][u] = b
    BY DEF PaidIn
  <2>4. after[p] = IF p = o THEN [PaidBack[p] EXCEPT ![u] = b] ELSE PaidBack[p]
    BY <2>3 DEF PaidBack
  <2>5. CASE p = o
    BY <1>2, <2>1, <2>2, <2>4, <2>5
  <2>6. CASE p # o
    BY <1>2, <2>1, <2>2, <2>4, <2>6
  <2>7. QED
    BY <2>5, <2>6
<1>4. /\ PaidBack' = [p \in Outcomes |-> PaidBack'[p]] /\ after = [p \in Outcomes |-> after[p]]
      /\ PaidIn' = [p \in Outcomes |-> PaidIn'[p]]
      /\ PaidIn = [p \in Outcomes |-> PaidIn[p]]
  BY Zenon DEF PaidIn, PaidBack
<1> HIDE DEF after
<1>5. PaidIn' = PaidIn /\ PaidBack' = after
  BY <1>3, <1>4, Zenon
<1>6. QED
  BY <1>2, <1>5 DEF after, SeenRefunding

(***************************************************************************)
(* Funding                                                                 *)
(***************************************************************************)
LEMMA CreateMarketPromise ==
    ASSUME TypeOK, LifeInv, NEW o \in Outcomes, NEW u \in Users, NEW a \in Deposits,
           NEW floor \in Floors, NEW fee \in FeeRates, CreateMarket(o, u, a, floor, fee)
    PROVE  Elsewhere(o) /\ Life(o)' /\ Promise!Begin(o, u, a)
<1>1. a \in Nat /\ a > 0
  BY ConstantsAssumption DEF CreateMarket, RecordContribution
<1>2. ~Terminal /\ ~Exists(o) /\ Untouched(o)
  BY DEF CreateMarket, Bindable, LifeInv, Life
<1>3. /\ UNCHANGED <<subject, question, adopted>>
      /\ live' = [live EXCEPT ![o] = @ \cup {u}]
      /\ stake' = [stake EXCEPT ![o][u] = Topped(o, u, a)]
  BY Zenon DEF CreateMarket, RecordContribution
<1>4. stake'[o][u] = a
  BY <1>1, <1>2, <1>3 DEF Topped, Untouched, TypeOK
<1>5. /\ market'[o].status = "Funding" /\ market'[o].fee_collected = 0
      /\ market'[o].settled = 0
  BY DEF CreateMarket, TypeOK
<1>6. Deposited(o, u, a)
  BY Zenon DEF Deposited, CreateMarket, RecordContribution
<1>7. Elsewhere(o)
  BY <1>6 DEF CreateMarket, RecordContribution, Elsewhere, TypeOK, Deposited
<1>8. Life(o)'
  <2>1. live'[o] = {u}
    BY <1>2, <1>3 DEF Untouched, TypeOK
  <2>2. \A w \in Users : /\ ledger'[o][w].sol_in = IF w = u THEN a ELSE 0
                         /\ ledger'[o][w].sol_out = 0
    <3>1. \A w \in Users :
             /\ ledger'[o][w].sol_in = ledger[o][w].sol_in + IF w = u THEN a ELSE 0
             /\ ledger'[o][w].sol_out = ledger[o][w].sol_out
      BY <1>1, <1>6, ReceiptIn
    <3>2. QED
      BY <1>1, <1>2, <3>1 DEF Untouched, Outside
  <2>3. \A w \in Users : IF w \in live'[o] THEN InFull(o, w)' ELSE Outside(o, w)'
    BY <1>4, <2>1, <2>2 DEF InFull, Outside
  <2>4. Touched(o)'
    BY <1>1, <2>2 DEF Touched
  <2>5. Exists(o)'
    BY <1>5 DEF Exists, NoMarket
  <2>6. QED
    BY <1>5, <2>3, <2>4, <2>5 DEF Life, Settled
<1>9. PhaseOf(o) = "None" /\ PhaseOf(o)' = "Funding"
  <2>1. market[o].status = "None" /\ \A w \in Users : ledger[o][w].sol_in = 0
    BY <1>2 DEF Exists, NoMarket, Untouched, Outside
  <2>2. PhaseOf(o) = "None"
    BY <2>1 DEF PhaseOf, Settled
  <2>3. QED
    BY <1>5, <2>2, PhaseBecomes
<1>10. AnswerGiven = {}
  BY <1>2 DEF AnswerGiven
<1>11. SeenPaying(o, u, a)
  BY <1>1, <1>6, ReceiptIn
<1>12. QED
  BY <1>3, <1>7, <1>8, <1>9, <1>10, <1>11, PhaseStep
     DEF SeenPaying, Promise!Begin, Promise!Becomes, Promise!PutIn, Promise!Answered

LEMMA ContributePromise ==
    ASSUME TypeOK, LifeInv, NEW o \in Outcomes, NEW u \in Users, NEW a \in Deposits,
           Contribute(o, u, a)
    PROVE  Elsewhere(o) /\ Life(o)' /\ Promise!Fund(o, u, a)
<1>1. a \in Nat /\ a > 0
  BY ConstantsAssumption DEF Contribute, RecordContribution
<1>2. market[o] \in Market /\ market[o].status = "Funding"
  BY StatusMeansMarket, Zenon DEF Contribute, TypeOK
<1>3. /\ UNCHANGED <<subject, question>>
      /\ live' = [live EXCEPT ![o] = @ \cup {u}]
      /\ stake' = [stake EXCEPT ![o][u] = Topped(o, u, a)]
  BY Zenon DEF Contribute, RecordContribution
<1>4. Deposited(o, u, a)
  BY Zenon DEF Deposited, Contribute, RecordContribution
<1>5. /\ market'[o].status = "Funding"
      /\ market'[o].fee_collected = market[o].fee_collected
      /\ market'[o].settled = market[o].settled
  BY <1>2, Zenon DEF Contribute, TypeOK, Market
<1>6. Elsewhere(o)
  BY <1>3, <1>4 DEF Contribute, Elsewhere, TypeOK, Deposited
<1>7. Life(o)'
  <2>1. Life(o)
    BY DEF LifeInv
  <2>2. live'[o] = live[o] \cup {u}
    BY <1>3 DEF TypeOK
  <2>3. \A w \in Users : stake'[o][w] = IF w = u THEN Topped(o, u, a) ELSE stake[o][w]
    BY <1>3 DEF TypeOK
  <2>4. \A w \in Users :
           /\ ledger'[o][w].sol_in = ledger[o][w].sol_in + IF w = u THEN a ELSE 0
           /\ ledger'[o][w].sol_out = ledger[o][w].sol_out
           /\ ledger[o][w].sol_in \in Nat /\ stake[o][w] \in Nat
    BY <1>1, <1>4, ReceiptIn DEF TypeOK, Receipts
  <2>5. \A w \in Users : IF w \in live[o] THEN InFull(o, w) ELSE Outside(o, w)
    BY <1>2, <2>1 DEF Life
  <2>6. \A w \in Users : IF w \in live'[o] THEN InFull(o, w)' ELSE Outside(o, w)'
    BY <1>1, <2>2, <2>3, <2>4, <2>5 DEF InFull, Outside, Topped
  <2>7. Touched(o)'
    BY <1>1, <2>4 DEF Touched
  <2>8. Exists(o)'
    BY <1>5 DEF Exists, NoMarket
  <2>9. QED
    BY <1>2, <1>5, <2>1, <2>6, <2>7, <2>8 DEF Life, Settled
<1>8. PhaseOf(o) = "Funding" /\ PhaseOf(o)' = "Funding"
  BY <1>2, <1>5, PhaseIs, PhaseBecomes
<1>9. SeenPaying(o, u, a)
  BY <1>1, <1>4, ReceiptIn
<1>10. \/ UNCHANGED adopted
       \/ u \notin live[o] /\ adopted' = [adopted EXCEPT ![o] = @ + 1]
  <2>1. CASE u \in prefunded[o] \ live[o]
    BY <2>1 DEF Contribute
  <2>2. CASE u \notin prefunded[o] \ live[o]
    BY <2>2 DEF Contribute, TypeOK
  <2>3. QED
    BY <2>1, <2>2
<1>11. QED
  BY <1>3, <1>6, <1>7, <1>8, <1>9, <1>10, PhaseKept
     DEF SeenPaying, Promise!Fund, Promise!PutIn

LEMMA CancelPromise ==
    ASSUME TypeOK, LifeInv, NEW o \in Outcomes, Cancel(o)
    PROVE  Elsewhere(o) /\ Life(o)' /\ Promise!CallOff(o)
<1>1. market[o] \in Market /\ market[o].status = "Funding" /\ Terminal
  BY StatusMeansMarket, Zenon DEF Cancel, CancelAccepted, TypeOK
<1>2. UNCHANGED <<subject, question, live, stake, ledger, adopted>>
  BY Zenon DEF Cancel, accounts, history
<1>3. market'[o].status = "Cancelled" /\ market'[o].settled = market[o].settled
  BY <1>1, Zenon DEF Cancel, TypeOK, Market
<1>4. Elsewhere(o)
  BY <1>2 DEF Cancel, Elsewhere, TypeOK
<1>5. Life(o)'
  <2>1. Life(o)
    BY DEF LifeInv
  <2>2. Exists(o) /\ Exists(o)'
    BY <1>1, <1>3 DEF Exists, NoMarket
  <2>3. Terminal' /\ (Touched(o) => Touched(o)')
    BY <1>1, <1>2 DEF Terminal, Touched
  <2>4. \A u \in Users : InFull(o, u)' = InFull(o, u)
    BY <1>2 DEF InFull
  <2>5. live[o] \subseteq Users
    BY DEF TypeOK
  <2>6. QED
    BY <1>1, <1>2, <1>3, <2>1, <2>2, <2>3, <2>4, <2>5 DEF Life, Settled
<1>6. PhaseOf(o) = "Funding" /\ PhaseOf(o)' = "Refunding"
  BY <1>1, <1>3, PhaseIs, PhaseBecomes
<1>7. AnswerGiven # {} /\ SeenIdle
  BY <1>1, <1>2, ReceiptsSame DEF AnswerGiven
<1>8. QED
  BY <1>2, <1>4, <1>5, <1>6, <1>7, PhaseStep
     DEF SeenIdle, Promise!CallOff, Promise!Becomes, Promise!Answered

LEMMA RefundPromise ==
    ASSUME TypeOK, LifeInv, NEW o \in Outcomes, NEW u \in Users, Refund(o, u)
    PROVE  Elsewhere(o) /\ Life(o)' /\ Promise!Refund(o, u)
<1>1. market[o] \in Market /\ market[o].status = "Cancelled" /\ u \in live[o]
  BY StatusMeansMarket, Zenon DEF Refund, RefundAccepted, TypeOK
<1>2. /\ UNCHANGED <<subject, question, adopted>>
      /\ live' = [live EXCEPT ![o] = @ \ {u}]
      /\ stake' = [stake EXCEPT ![o][u] = 0]
      /\ Returned(o, u, stake[o][u])
  BY Zenon DEF Refund, CloseContribution, Returned
<1>3. market'[o].status = "Cancelled" /\ market'[o].settled = market[o].settled
  BY <1>1, Zenon DEF Refund, CloseContribution, TypeOK, Market
<1>4. Elsewhere(o)
  BY <1>2 DEF Refund, CloseContribution, Elsewhere, TypeOK, Returned
<1>5. Life(o) /\ Terminal /\ \A w \in live[o] : InFull(o, w)
  BY <1>1 DEF LifeInv, Life
<1>6. /\ SeenRefunding(o, u)
      /\ \A w \in Users : /\ ledger'[o][w].sol_in = ledger[o][w].sol_in
                          /\ w # u => ledger'[o][w].sol_out = ledger[o][w].sol_out
  <2>1. stake[o][u] \in Nat
    BY DEF TypeOK
  <2>2. QED
    BY <1>1, <1>2, <1>5, <2>1, ReceiptOut DEF InFull
<1>7. Life(o)'
  <2>1. live'[o] = live[o] \ {u} /\ live[o] \subseteq Users
    BY <1>2 DEF TypeOK
  <2>2. \A w \in Users \ {u} : stake'[o][w] = stake[o][w]
    BY <1>2 DEF TypeOK
  <2>3. \A w \in live'[o] : InFull(o, w)'
    BY <1>5, <1>6, <2>1, <2>2 DEF InFull
  <2>4. Exists(o) /\ Exists(o)'
    BY <1>1, <1>3 DEF Exists, NoMarket
  <2>5. Terminal' /\ Touched(o)'
    BY <1>2, <1>5, <1>6, <2>4 DEF Terminal, Touched, Life
  <2>6. market'[o].settled = 0
    BY <1>1, <1>3, <1>5 DEF Life
  <2>7. QED
    BY <1>3, <2>3, <2>4, <2>5, <2>6 DEF Life, Settled
<1>8. PhaseOf(o) = "Refunding" /\ PhaseOf(o)' = "Refunding"
  BY <1>1, <1>3, PhaseIs, PhaseBecomes
<1>9. QED
  BY <1>1, <1>2, <1>4, <1>6, <1>7, <1>8, PhaseKept DEF SeenRefunding, Promise!Refund

(***************************************************************************)
(* Trading                                                                 *)
(***************************************************************************)
LEMMA ActivatePromise ==
    ASSUME TypeOK, LifeInv, NEW o \in Outcomes, NEW pool \in Pools \cup {EmptyPool},
           NEW lp \in ActivationLps, Activate(o, pool, lp)
    PROVE  Elsewhere(o) /\ Life(o)' /\ Promise!Open(o)
<1>1. market[o] \in Market /\ market[o].status = "Funding" /\ ~Terminal
  BY StatusMeansMarket, Zenon DEF Activate, ActivateAccepted, TypeOK
<1>2. UNCHANGED <<subject, question, live, stake, ledger, adopted>>
  BY Zenon DEF Activate, accounts, history
<1>3. /\ market'[o].status = "Active" /\ market'[o].settled = market[o].settled
      /\ market'[o].fee_collected = market[o].fee_collected
  BY <1>1, Zenon DEF Activate, TypeOK, Market
<1>4. Elsewhere(o)
  BY <1>2 DEF Activate, Elsewhere, TypeOK
<1>5. Life(o)'
  <2>1. Life(o)
    BY DEF LifeInv
  <2>2. Exists(o) /\ Exists(o)'
    BY <1>1, <1>3 DEF Exists, NoMarket
  <2>3. Touched(o)'
    BY <1>2, <2>1, <2>2 DEF Touched, Life
  <2>4. QED
    BY <1>1, <1>3, <2>1, <2>2, <2>3 DEF Life, Settled
<1>6. PhaseOf(o) = "Funding" /\ PhaseOf(o)' = "Trading"
  BY <1>1, <1>3, PhaseIs, PhaseBecomes
<1>7. AnswerGiven = {} /\ SeenIdle
  BY <1>1, <1>2, ReceiptsSame DEF AnswerGiven
<1>8. QED
  BY <1>2, <1>4, <1>5, <1>6, <1>7, PhaseStep
     DEF SeenIdle, Promise!Open, Promise!Becomes, Promise!Answered

LEMMA AddLiquidityPromise ==
    ASSUME TypeOK, LifeInv, NEW o \in Outcomes, NEW u \in Users, NEW a \in Deposits,
           NEW lp \in LateLps, AddLiquidity(o, u, a, lp)
    PROVE  Elsewhere(o) /\ Life(o)' /\ Promise!Join(o, u)
<1>1. market[o] \in Market /\ market[o].status = "Active" /\ ~Terminal
  BY StatusMeansMarket, Zenon DEF AddLiquidity, TypeOK
<1>2. /\ UNCHANGED <<subject, question, ledger, adopted>>
      /\ live' = [live EXCEPT ![o] = @ \cup {u}]
  BY Zenon DEF AddLiquidity, RecordLateLp, history
<1>3. /\ market'[o].status = "Active" /\ market'[o].settled = market[o].settled
      /\ market'[o].fee_collected = market[o].fee_collected
  BY <1>1, Zenon DEF AddLiquidity, TypeOK, Market
<1>4. Elsewhere(o)
  BY <1>2 DEF AddLiquidity, RecordLateLp, Elsewhere, TypeOK
<1>5. Life(o)'
  <2>1. Life(o)
    BY DEF LifeInv
  <2>2. Exists(o) /\ Exists(o)'
    BY <1>1, <1>3 DEF Exists, NoMarket
  <2>3. Touched(o)'
    BY <1>2, <2>1, <2>2 DEF Touched, Life
  <2>4. QED
    BY <1>1, <1>3, <2>1, <2>2, <2>3 DEF Life, Settled
<1>6. PhaseOf(o) = "Trading" /\ PhaseOf(o)' = "Trading"
  BY <1>1, <1>3, PhaseIs, PhaseBecomes
<1>7. AnswerGiven = {} /\ SeenIdle
  BY <1>1, <1>2, ReceiptsSame DEF AnswerGiven
<1>8. QED
  BY <1>2, <1>4, <1>5, <1>6, <1>7, PhaseKept DEF SeenIdle, Promise!Join, Promise!Answered

(***************************************************************************)
(* Settlement                                                              *)
(***************************************************************************)
\* What a settled market's question pays.
LEMMA Verdict ==
    ASSUME LifeInv, Terminal, NEW o \in Outcomes
    PROVE  /\ subject.status = "Resolved"
           /\ Numerators(o).yes = IF o \in AnswerGiven THEN 1 ELSE 0
BY DEF LifeInv, Terminal, Numerators, AnswerGiven

LEMMA ResolveMarketPromise ==
    ASSUME TypeOK, LifeInv, NEW o \in Outcomes, ResolveMarket(o)
    PROVE  Elsewhere(o) /\ Life(o)' /\ Promise!Settle(o)
<1>1. market[o] \in Market /\ market[o].status = "Active" /\ Terminal
  BY StatusMeansMarket, Zenon DEF ResolveMarket, ResolveAccepted, TypeOK
<1>2. /\ UNCHANGED <<subject, live, stake, ledger, adopted>>
      /\ question' = [question EXCEPT ![o] = Numerators(o)]
  BY Zenon DEF ResolveMarket, accounts, history
<1>3. market'[o].status = subject.status
  BY <1>1, Zenon DEF ResolveMarket, TypeOK, Market
<1>4. question'[o] = Numerators(o) /\ Numerators(o)' = Numerators(o)
  BY <1>2 DEF TypeOK, Numerators
<1>5. Elsewhere(o)
  BY <1>2 DEF ResolveMarket, Elsewhere, TypeOK
<1>6. subject.status = "Resolved" /\ Numerators(o).yes = IF o \in AnswerGiven THEN 1 ELSE 0
  BY <1>1, Verdict
<1>7. Life(o)'
  <2>1. Life(o)
    BY DEF LifeInv
  <2>2. Exists(o) /\ Exists(o)'
    BY <1>1, <1>3, <1>6 DEF Exists, NoMarket
  <2>3. Touched(o)'
    BY <1>2, <2>1, <2>2 DEF Touched, Life
  <2>4. market'[o].status = subject'.status /\ question'[o] = Numerators(o)'
    BY <1>2, <1>3, <1>4
  <2>5. QED
    BY <1>3, <1>6, <2>2, <2>3, <2>4 DEF Life
<1>8. PhaseOf(o) = "Trading" /\ PhaseOf(o)' = IF o \in AnswerGiven THEN "Yes" ELSE "No"
  <2>1. market'[o].status \in Settled
    BY <1>3, <1>6 DEF Settled
  <2>2. QED
    BY <1>1, <1>4, <1>6, <2>1, PhaseIs, PhaseBecomes
<1>9. AnswerGiven # {} /\ SeenIdle
  BY <1>1, <1>2, ReceiptsSame DEF AnswerGiven
<1>10. QED
  BY <1>2, <1>5, <1>7, <1>8, <1>9, PhaseStep
     DEF SeenIdle, Promise!Settle, Promise!Becomes, Promise!Answered

LEMMA CollectFeePromise ==
    ASSUME TypeOK, LifeInv, NEW o \in Outcomes, NEW pool \in Pools, CollectFee(o, pool)
    PROVE  Elsewhere(o) /\ Life(o)' /\ UNCHANGED Promise!vars
<1>1. market[o] \in Market /\ market[o].status \in Settled
  BY StatusMeansMarket, Zenon DEF CollectFee, CollectFeeAccepted, FeeOpen, TypeOK, Settled
<1>2. UNCHANGED <<subject, question, live, stake, ledger, adopted>>
  BY Zenon DEF CollectFee, accounts, history
<1>3. market'[o].status = market[o].status
  BY <1>1, Zenon DEF CollectFee, CutFee, TypeOK, Market
<1>4. Elsewhere(o)
  BY <1>2 DEF CollectFee, CutFee, Elsewhere, TypeOK
<1>5. Life(o)
  BY DEF LifeInv
<1>6. Life(o)'
  <2>1. Exists(o) /\ Exists(o)'
    BY <1>1, <1>3 DEF Exists, NoMarket, Settled
  <2>2. Touched(o)'
    BY <1>2, <1>5, <2>1 DEF Touched, Life
  <2>3. Numerators(o)' = Numerators(o)
    BY <1>2 DEF Numerators
  <2>4. QED
    BY <1>1, <1>2, <1>3, <1>5, <2>1, <2>2, <2>3 DEF Life, Settled
<1>7. PhaseOf(o)' = PhaseOf(o)
  BY <1>2, <1>3 DEF PhaseOf
<1>8. SeenIdle
  BY <1>2, ReceiptsSame
<1>9. QED
  BY <1>2, <1>4, <1>6, <1>7, <1>8, PhaseKept DEF SeenIdle, Promise!vars

LEMMA ClaimLpPromise ==
    ASSUME TypeOK, LifeInv, NEW o \in Outcomes, NEW u \in Users, ClaimLp(o, u)
    PROVE  Elsewhere(o) /\ Life(o)' /\ Promise!PayOut(o, u)
<1>1. /\ market[o] \in Market /\ market[o].status \in Settled \cup {"Active"}
      /\ market[o].fee_collected = 1 /\ u \in live[o]
  BY StatusMeansMarket, Zenon DEF ClaimLp, ClaimAccepted, TypeOK, Settled
<1>2. /\ Life(o) /\ market[o].status \in Settled
      /\ Terminal /\ question[o] = Numerators(o)
  BY <1>1 DEF LifeInv, Life, Terminal, Settled
<1>3. /\ UNCHANGED <<subject, question, adopted>>
      /\ live' = [live EXCEPT ![o] = @ \ {u}] /\ stake' = [stake EXCEPT ![o][u] = 0]
      /\ ledger' = [ledger EXCEPT ![o][u] = [ledger[o][u] EXCEPT !.lp_out = @ + Share(o, u)]]
  BY Zenon DEF ClaimLp, CloseContribution
<1>4. market'[o].status = market[o].status
  BY <1>1, Zenon DEF ClaimLp, CloseContribution, TypeOK, Market
<1>5. Elsewhere(o)
  BY <1>3 DEF ClaimLp, CloseContribution, Elsewhere, TypeOK
<1>6. \A p \in Outcomes, w \in Users : /\ ledger'[p][w].sol_in = ledger[p][w].sol_in
                                     /\ ledger'[p][w].sol_out = ledger[p][w].sol_out
  <2>1. \A p \in Outcomes, w \in Users : ledger[p][w] \in Receipts
    BY DEF TypeOK
  <2>2. QED
    BY <1>3, <2>1 DEF TypeOK, Receipts
<1>7. Life(o)'
  <2>1. Exists(o) /\ Exists(o)'
    BY <1>2, <1>4 DEF Exists, NoMarket, Settled
  <2>2. Touched(o)'
    BY <1>2, <1>6, <2>1 DEF Touched, Life
  <2>3. Numerators(o)' = Numerators(o)
    BY <1>3 DEF Numerators
  <2>4. QED
    BY <1>2, <1>3, <1>4, <2>1, <2>2, <2>3 DEF Life, Settled
<1>8. PhaseOf(o) \in {"Yes", "No"} /\ PhaseOf(o)' = PhaseOf(o)
  <2>1. question[o].yes \in {0, 1}
    BY <1>2, Verdict
  <2>2. QED
    BY <1>2, <1>3, <1>4, <2>1, PhaseIs, PhaseBecomes
<1>9. SeenIdle
  BY <1>6, ReceiptsSame
<1>10. QED
  BY <1>1, <1>3, <1>5, <1>7, <1>8, <1>9, PhaseKept DEF SeenIdle, Promise!PayOut

\* Reaping keeps the invariant, whoever is left.
LEMMA CloseMarketLife ==
    ASSUME TypeOK, LifeInv, NEW o \in Outcomes, CloseMarket(o)
    PROVE  /\ Elsewhere(o) /\ Life(o)' /\ SeenIdle /\ UNCHANGED <<live, adopted>>
           /\ PhaseOf(o) \in {"Refunding", "Yes", "No"} /\ PhaseOf(o)' = "Reaped"
<1>1. market[o] \in Market /\ market[o].status \in Settled \cup {"Cancelled"}
  BY StatusMeansMarket, Zenon DEF CloseMarket, CloseAccepted, TypeOK, Settled
<1>2. /\ UNCHANGED <<subject, question, live, stake, ledger, adopted>>
      /\ market' = [market EXCEPT ![o] = NoMarket]
  BY Zenon DEF CloseMarket, accounts, history
<1>3. market'[o] = NoMarket
  BY <1>2 DEF TypeOK
<1>4. Elsewhere(o)
  BY <1>2 DEF Elsewhere, TypeOK
<1>5. Life(o) /\ Exists(o) /\ Terminal /\ Touched(o)
  BY <1>1, MarketIsNotNone DEF LifeInv, Life, Exists, Terminal, Settled
<1>6. Life(o)'
  BY <1>2, <1>3, <1>5 DEF Life, Exists, NoMarket, Terminal, Settled
<1>7. PhaseOf(o) \in {"Refunding", "Yes", "No"}
  <2>1. market[o].status \in Settled => question[o].yes \in {0, 1}
    BY <1>5, Verdict DEF Life
  <2>2. QED
    BY <1>1, <2>1, PhaseIs
<1>8. PhaseOf(o)' = "Reaped"
  <2>1. market'[o].status = "None" /\ \E u \in Users : ledger'[o][u].sol_in > 0
    BY <1>2, <1>3, <1>5 DEF NoMarket, Touched
  <2>2. ~\A u \in Users : ledger'[o][u].sol_in = 0
    BY <2>1
  <2>3. QED
    BY <2>1, <2>2 DEF PhaseOf, Settled
<1>9. SeenIdle
  BY <1>2, ReceiptsSame
<1>10. QED
  BY <1>2, <1>4, <1>6, <1>7, <1>8, <1>9

\* Crowdfund counts as this module does.
LEMMA SameCount == \A S : Promise!Cardinality(S) = Cardinality(S)
BY Zenon DEF Cardinality, Promise!Cardinality

\* With the counter no further out, those left are as many as were adopted.
LEMMA CloseMarketPromise ==
    ASSUME CounterInv, LifeInv, NEW o \in Outcomes, CloseMarket(o)
    PROVE  Promise!Reap(o)
<1>1. market[o] \in Market /\ market[o].open_contributions = 0
  BY StatusMeansMarket DEF CloseMarket, CloseAccepted, NobodyLeft, CounterInv, TypeOK, Settled
<1>2. Cardinality(live[o]) <= adopted[o]
  <2>1. Exists(o) /\ adopted[o] \in Nat
    BY <1>1, MarketIsNotNone DEF CounterInv, TypeOK, Exists
  <2>2. QED
    BY <1>1, <2>1 DEF CounterInv, CounterNeverShort
<1>3. /\ Elsewhere(o) /\ SeenIdle /\ UNCHANGED <<live, adopted>>
      /\ PhaseOf(o) \in {"Refunding", "Yes", "No"} /\ PhaseOf(o)' = "Reaped"
  BY CloseMarketLife DEF CounterInv
<1>4. QED
  BY <1>2, <1>3, PhaseStep, SameCount DEF SeenIdle, Promise!Reap, Promise!Becomes

(***************************************************************************)
(* Steps Crowdfund does not see, and the answer                            *)
(***************************************************************************)
LEMMA OutsidePromise ==
    ASSUME LifeInv, NEW o \in Outcomes, OutsideNext(o)
    PROVE  LifeInv' /\ UNCHANGED Promise!vars
<1>1. UNCHANGED <<subject, market, question, live, stake, ledger, adopted>>
  BY DEF OutsideNext, Prefund, DonateSol, DonateLp, accounts, history
<1>2. LifeInv'
  BY <1>1 DEF LifeInv, Life, Exists, Terminal, Untouched, Touched, Outside, InFull, Numerators
<1>3. QED
  BY <1>1, <1>2 DEF Promise!vars, AnswerGiven, Terminal, PhaseNow, PhaseOf, PaidIn, PaidBack

LEMMA SubjectPromise ==
    ASSUME LifeInv, SubjectNext
    PROVE  /\ LifeInv'
           /\ (\E a \in Replies : Promise!Answer(a)) \/ UNCHANGED Promise!vars
<1>1. UNCHANGED <<market, question, live, stake, ledger, adopted>>
  BY DEF SubjectNext, CreateSubject, RequestAi, CallbackFromGpt, RequestLost, accounts, history
<1>2. PhaseNow' = PhaseNow /\ PaidIn' = PaidIn /\ PaidBack' = PaidBack
  BY <1>1 DEF PhaseNow, PhaseOf, PaidIn, PaidBack
<1>3. CASE UNCHANGED subject
  <2>1. LifeInv'
    BY <1>1, <1>3 DEF LifeInv, Life, Exists, Terminal, Untouched, Touched, Outside, InFull,
       Numerators
  <2>2. QED
    BY <1>1, <1>2, <1>3, <2>1 DEF Promise!vars, AnswerGiven, Terminal
<1>4. ASSUME NEW n \in OptionCounts, CreateSubject(n)
      PROVE  LifeInv' /\ UNCHANGED Promise!vars
  <2>1. ~Terminal /\ ~Terminal' /\ subject.status \notin Settled /\ subject'.status = "Open"
    BY <1>4 DEF CreateSubject, Terminal, Settled
  <2>2. \A o \in Outcomes : Life(o)'
    BY <1>1, <2>1 DEF LifeInv, Life, Exists, Untouched, Touched, Outside, InFull
  <2>3. QED
    BY <1>1, <1>2, <2>1, <2>2 DEF LifeInv, Promise!vars, AnswerGiven
<1>5. ASSUME NEW option \in Replies, CallbackFromGpt(option)
      PROVE  LifeInv' /\ Promise!Answer(option)
  <2>1. /\ ~Terminal /\ Terminal' /\ subject.status \notin Settled
        /\ subject'.status = "Resolved" /\ AnswerGiven' = {option}
    BY <1>5 DEF CallbackFromGpt, Awaiting, Terminal, Settled, AnswerGiven
  <2>2. \A o \in Outcomes : Life(o)'
    BY <1>1, <2>1 DEF LifeInv, Life, Exists, Untouched, Touched, Outside, InFull
  <2>3. QED
    BY <1>1, <1>2, <2>1, <2>2 DEF LifeInv, AnswerGiven, Promise!Answer, Promise!Answered
<1>6. QED
  BY <1>3, <1>4, <1>5 DEF SubjectNext, RequestAi, RequestLost

(***************************************************************************)
(* The refinement                                                          *)
(***************************************************************************)
LEMMA InitPromise == Init => LifeInv /\ Promise!Init
<1> SUFFICES ASSUME Init PROVE LifeInv /\ Promise!Init
  OBVIOUS
<1>1. LifeInv
  BY DEF Init, LifeInv, Life, Exists, NoMarket, Untouched, Outside, Settled
<1>2. \A o \in Outcomes : PhaseOf(o) = "None"
  BY DEF Init, NoMarket, PhaseOf, Settled
<1>3. AnswerGiven = {}
  BY DEF Init, AnswerGiven, Terminal
<1>4. /\ PaidIn = [o \in Outcomes |-> [u \in Users |-> 0]]
      /\ PaidBack = [o \in Outcomes |-> [u \in Users |-> 0]]
  BY DEF Init, PaidIn, PaidBack
<1>5. PhaseNow = [o \in Outcomes |-> "None"]
  BY <1>2 DEF PhaseNow
<1>6. QED
  BY <1>1, <1>3, <1>4, <1>5 DEF Init, Promise!Init

\* A market's instruction but the reaping keeps the invariant and is a step
\* of the promise.
LEMMA MarketPromiseStep ==
    ASSUME TypeOK, LifeInv, NEW o \in Outcomes, MarketNext(o), ~CloseMarket(o)
    PROVE  LifeInv' /\ (Promise!Next \/ UNCHANGED Promise!vars)
<1>1. CASE FundingNext(o)
  <2>1. Elsewhere(o) /\ Life(o)' /\ Promise!Next
    BY <1>1, CreateMarketPromise, ContributePromise, CancelPromise, RefundPromise
       DEF FundingNext, Promise!Next
  <2>2. QED
    BY <2>1, LifeStep
<1>2. CASE TradingNext(o)
  <2>1. Elsewhere(o) /\ Life(o)' /\ Promise!Next
    BY <1>2, ActivatePromise, AddLiquidityPromise DEF TradingNext, Promise!Next
  <2>2. QED
    BY <2>1, LifeStep
<1>3. CASE SettlementNext(o)
  <2>1. Elsewhere(o) /\ Life(o)' /\ (Promise!Next \/ UNCHANGED Promise!vars)
    BY <1>3, ResolveMarketPromise, CollectFeePromise, ClaimLpPromise
       DEF SettlementNext, Promise!Next
  <2>2. QED
    BY <2>1, LifeStep
<1>4. CASE OutsideNext(o)
  BY <1>4, OutsidePromise
<1>5. QED
  BY <1>1, <1>2, <1>3, <1>4 DEF MarketNext

\* A market's instruction leaves the other markets alone.
LEMMA StepElsewhere ==
    ASSUME TypeOK, LifeInv, NEW p \in Outcomes, MarketNext(p), NEW o \in Outcomes \ {p}
    PROVE  market'[o] = market[o] /\ question'[o] = question[o]
<1>1. CASE OutsideNext(p)
  BY <1>1 DEF OutsideNext, Prefund, DonateSol, DonateLp
<1>2. CASE ~OutsideNext(p)
  <2>1. Elsewhere(p)
    BY <1>2, CreateMarketPromise, ContributePromise, CancelPromise, RefundPromise,
       ActivatePromise, AddLiquidityPromise, ResolveMarketPromise, CollectFeePromise,
       ClaimLpPromise, CloseMarketLife
       DEF MarketNext, FundingNext, TradingNext, SettlementNext
  <2>2. QED
    BY <2>1 DEF Elsewhere
<1>3. QED
  BY <1>1, <1>2

LEMMA LifeNext == TypeOK /\ LifeInv /\ [Next]_vars => LifeInv'
<1> SUFFICES ASSUME TypeOK, LifeInv, [Next]_vars PROVE LifeInv'
  OBVIOUS
<1>1. CASE SubjectNext
  BY <1>1, SubjectPromise
<1>2. ASSUME NEW o \in Outcomes, MarketNext(o) PROVE LifeInv'
  BY <1>2, MarketPromiseStep, CloseMarketLife, LifeStep
<1>3. CASE UNCHANGED vars
  BY <1>3 DEF vars, LifeInv, Life, Exists, Terminal, Untouched, Touched, Outside, InFull,
     Numerators
<1>4. QED
  BY <1>1, <1>2, <1>3 DEF Next

LEMMA LifeInvariant == Spec => [](TypeOK /\ LifeInv)
<1>1. Init => LifeInv
  BY InitPromise
<1>2. QED
  BY <1>1, LifeNext, TypeCorrect, PTL DEF Spec

\* Every settled sub-market took the answer the subject holds, and no two of
\* one subject pay YES on it.
THEOREM SiblingsAgreed == Spec => []SiblingsAgree
<1>1. TypeOK /\ LifeInv => SiblingsAgree
  <2> SUFFICES ASSUME TypeOK, LifeInv, NEW o \in Outcomes, Exists(o), market[o].settled = 1
               PROVE  /\ market[o].status = subject.status
                      /\ question[o] = Numerators(o)
                      /\ \A p \in Outcomes \ {o} :
                             Exists(p) /\ market[p].status = "Resolved"
                             /\ market[o].status = "Resolved"
                                 => question[o].yes + question[p].yes <= 1
    BY DEF SiblingsAgree
  <2>1. market[o].status \in MarketStatus
    BY DEF TypeOK, Exists, Market
  <2>2. market[o].status \in Settled
    BY <2>1 DEF LifeInv, Life, MarketStatus, Settled
  <2>3. market[o].status = subject.status /\ question[o] = Numerators(o) /\ Terminal
    BY <2>2 DEF LifeInv, Life, Terminal, Settled
  <2>4. ASSUME NEW p \in Outcomes \ {o}, market[p].status = "Resolved"
        PROVE  question[o].yes + question[p].yes <= 1
    <3>1. question[p] = Numerators(p)
      BY <2>4 DEF LifeInv, Life, Settled
    <3>2. o \notin AnswerGiven \/ p \notin AnswerGiven
      BY DEF AnswerGiven
    <3>3. QED
      BY <2>3, <3>1, <3>2, Verdict
  <2>5. QED
    BY <2>3, <2>4
<1>2. QED
  BY <1>1, LifeInvariant, PTL

\* A market that took anyone's SOL and was reaped is never created again at
\* its address: it was reaped under a settled subject, which binds no market.
THEOREM NeverBornAgain == Spec => NeverReborn
<1>1. TypeOK /\ LifeInv /\ [Next]_vars =>
        \A o \in Outcomes : ~Exists(o) /\ Touched(o) => ~Exists(o)'
  <2> SUFFICES ASSUME TypeOK, LifeInv, [Next]_vars,
                      NEW o \in Outcomes, ~Exists(o), Touched(o)
               PROVE  ~Exists(o)'
    OBVIOUS
  <2>1. Terminal
    BY DEF LifeInv, Life, Untouched, Touched, Outside
  <2>2. CASE UNCHANGED market
    BY <2>2 DEF Exists
  <2>3. CASE SubjectNext
    BY <2>3 DEF SubjectNext, CreateSubject, RequestAi, CallbackFromGpt, RequestLost, accounts,
       Exists
  <2>4. ASSUME NEW p \in Outcomes, MarketNext(p)
        PROVE  ~Exists(o)'
    <3>1. CASE OutsideNext(p)
      BY <3>1, <2>2 DEF OutsideNext, Prefund, DonateSol, DonateLp
    <3>2. CASE ~OutsideNext(p)
      <4>1. ~\E u \in Users, a \in Deposits, floor \in Floors, fee \in FeeRates :
               CreateMarket(p, u, a, floor, fee)
        BY <2>1 DEF CreateMarket, Bindable
      <4>2. market[p].status \in {"Funding", "Active", "Cancelled"} \cup Settled
        <5>1. CASE FundingNext(p)
          <6>1. market[p].status = "Funding" \/ market[p].status = "Cancelled"
            BY <4>1, <5>1, Zenon
               DEF FundingNext, Contribute, Cancel, CancelAccepted, Refund, RefundAccepted
          <6>2. QED
            BY <6>1
        <5>2. CASE TradingNext(p)
          <6>1. market[p].status = "Funding" \/ market[p].status = "Active"
            BY <5>2, Zenon DEF TradingNext, Activate, ActivateAccepted, AddLiquidity
          <6>2. QED
            BY <6>1
        <5>3. CASE SettlementNext(p)
          BY <5>3 DEF SettlementNext, ResolveMarket, ResolveAccepted,
             CollectFee, CollectFeeAccepted, FeeOpen, ClaimLp, ClaimAccepted,
             CloseMarket, CloseAccepted
        <5>4. QED
          BY <2>4, <3>2, <5>1, <5>2, <5>3 DEF MarketNext
      <4>3. o # p
        BY <4>2 DEF Exists, NoMarket, Settled
      <4>4. QED
        BY <2>4, <4>3, StepElsewhere DEF Exists
    <3>3. QED
      BY <3>1, <3>2
  <2>5. QED
    BY <2>2, <2>3, <2>4 DEF Next, vars
<1>2. QED
  BY <1>1, LifeInvariant, PTL DEF Spec, NeverReborn, Touched

\* Once the fee is cut, what every claim is computed from stays as it is until
\* the market is reaped, so claims commute.
THEOREM FrozenBasis == Spec => BasisFrozen
<1>1. TypeOK /\ LifeInv /\ [Next]_vars =>
        \A o \in Outcomes :
            Exists(o) /\ market[o].fee_collected = 1 /\ Exists(o)' =>
                Basis(market[o]') = Basis(market[o]) /\ question[o]' = question[o]
  <2> SUFFICES ASSUME TypeOK, LifeInv, [Next]_vars, NEW o \in Outcomes,
                      Exists(o), market[o].fee_collected = 1, Exists(o)'
               PROVE  Basis(market'[o]) = Basis(market[o]) /\ question'[o] = question[o]
    OBVIOUS
  <2>1. /\ market[o] \in Market
        /\ market[o].status # "Funding" /\ market[o].status # "Active"
    BY DEF TypeOK, Exists, LifeInv, Life
  <2>2. CASE UNCHANGED <<market, question>>
    BY <2>2
  <2>3. CASE SubjectNext
    BY <2>2, <2>3 DEF SubjectNext, CreateSubject, RequestAi, CallbackFromGpt, RequestLost
  <2>4. ASSUME NEW p \in Outcomes, MarketNext(p), p # o
        PROVE  Basis(market'[o]) = Basis(market[o]) /\ question'[o] = question[o]
    BY <2>4, StepElsewhere
  <2>5. ASSUME NEW u \in Users, CloseContribution(o, u), UNCHANGED question
        PROVE  Basis(market'[o]) = Basis(market[o])
    BY <2>1, <2>5 DEF CloseContribution, Basis, TypeOK, Market
  <2>6. CASE FundingNext(o)
    BY <2>1, <2>5, <2>6, Zenon
       DEF FundingNext, CreateMarket, Contribute, Cancel, CancelAccepted, Refund, RefundAccepted
  <2>7. CASE TradingNext(o)
    BY <2>1, <2>7, Zenon DEF TradingNext, Activate, ActivateAccepted, AddLiquidity
  <2>8. CASE SettlementNext(o)
    <3>1. CASE CloseMarket(o)
      BY <3>1 DEF CloseMarket, TypeOK, Exists
    <3>2. CASE \E u \in Users : ClaimLp(o, u)
      BY <2>5, <3>2, Zenon DEF ClaimLp
    <3>3. CASE ResolveMarket(o)
      BY <2>1, <3>3, Zenon DEF ResolveMarket, ResolveAccepted
    <3>4. CASE \E pool \in Pools : CollectFee(o, pool)
      BY <3>4 DEF CollectFee, CollectFeeAccepted, FeeOpen
    <3>5. QED
      BY <2>8, <3>1, <3>2, <3>3, <3>4 DEF SettlementNext
  <2>9. CASE OutsideNext(o)
    BY <2>2, <2>9 DEF OutsideNext, Prefund, DonateSol, DonateLp
  <2>10. QED
    BY <2>2, <2>3, <2>4, <2>6, <2>7, <2>8, <2>9 DEF Next, MarketNext, vars
<1>2. QED
  BY <1>1, LifeInvariant, PTL DEF Spec, BasisFrozen

LEMMA PromiseStep ==
    ASSUME CounterInv, LifeInv, [Next]_vars
    PROVE  [Promise!Next]_(Promise!vars)
<1> TypeOK
  BY DEF CounterInv
<1>1. CASE SubjectNext
  BY <1>1, SubjectPromise DEF Promise!Next
<1>2. ASSUME NEW o \in Outcomes, MarketNext(o) PROVE [Promise!Next]_(Promise!vars)
  <2>1. CASE CloseMarket(o)
    BY <2>1, CloseMarketPromise DEF Promise!Next
  <2>2. CASE ~CloseMarket(o)
    BY <1>2, <2>2, MarketPromiseStep
  <2>3. QED
    BY <2>1, <2>2
<1>3. CASE UNCHANGED vars
  BY <1>3 DEF vars, Promise!vars, AnswerGiven, Terminal, PhaseNow, PhaseOf, PaidIn, PaidBack
<1>4. QED
  BY <1>1, <1>2, <1>3 DEF Next

\* Every behaviour of the program is one of the promise: no market opens or
\* begins once the answer is known, all settle on that answer, a refund is the
\* whole stake, and a market disappears when its contributors are gone, but no
\* more than came in at an address that held lamports, for good.
THEOREM PromiseIsKept == Spec => PromiseKept
<1>1. Init => Promise!Init
  BY InitPromise
<1>2. CounterInv /\ LifeInv /\ [Next]_vars => [Promise!Next]_(Promise!vars)
  BY PromiseStep
<1>3. QED
  BY <1>1, <1>2, LifeInvariant, CounterInvariant, PTL DEF Spec, PromiseKept, Promise!Spec
=============================================================================
