------------------------------ MODULE Markets ------------------------------
(***************************************************************************)
(* The markets program: one GPT-resolved Subject and the binary            *)
(* sub-markets that bind to its outcomes.  Every instruction of            *)
(* programs/markets/src/processor that touches a Subject, a Market, a      *)
(* Contribution or one of a market's token vaults is one action here; a    *)
(* Solana transaction is atomic, so an action is the whole handler, and a  *)
(* handler that returns an error is a step that cannot be taken.           *)
(*                                                                         *)
(* Accounts are keyed as the program derives them: a Market by its outcome *)
(* index, a Contribution by (outcome, user).  Contribution accounts are    *)
(* kept as the set `live` of program-owned addresses plus their two        *)
(* fields.  The MetaDAO question, vault and AMM and the GPT oracle are     *)
(* external: what the code reads from them is an input of the action that  *)
(* reads it.                                                               *)
(***************************************************************************)
EXTENDS Naturals, FiniteSets, Shares

CONSTANTS
    Users,          \* wallets that contribute
    Outcomes,       \* outcome_index bytes clients send to create_market
    OptionCounts,   \* options_count bytes clients send to create_subject
    Replies,        \* options a GPT answer may decode to
    Deposits,       \* SOL amounts clients send
    Floors,         \* min_liquidity values Config may yield at creation
    FeeRates,       \* fee_bps values Config may hold at creation
    ActivationLps,  \* LP the empty pool may mint at activate
    LateLps,        \* LP the live pool may mint at add_liquidity
    Pools,          \* readings [base, quote, supply] of a pool that holds something
    Gifts,          \* sizes of transfers into a market's token accounts
    MaxGift,        \* bound on the total of such transfers, per account
    Prefundable,    \* users whose Contribution address may hold lamports early
    MaxU64,         \* u64::MAX
    MaxU16          \* u16::MAX

ASSUME ConstantsAssumption ==
    /\ IsFiniteSet(Users)
    /\ Outcomes \subseteq Nat /\ OptionCounts \subseteq Nat /\ Replies \subseteq Nat
    /\ Deposits \subseteq Nat /\ Floors \subseteq Nat /\ Gifts \subseteq Nat
    /\ FeeRates \subseteq 0..MAX_FEE_BPS
    /\ ActivationLps \subseteq Nat /\ LateLps \subseteq Nat
    /\ Pools \subseteq [base : Nat, quote : Nat, supply : Nat]
    /\ Prefundable \subseteq Users
    /\ MaxGift \in Nat /\ MaxU64 \in Nat /\ MaxU16 \in Nat

VARIABLES
    subject,      \* the Subject account
    interaction,  \* is an LLM request outstanding at the GPT oracle?
    market,       \* the Market account of each outcome
    question,     \* payout numerators of each market's MetaDAO Question
    live,         \* program-owned Contribution addresses, per market
    stake,        \* Contribution.amount
    late_lp,      \* Contribution.late_lp
    prefunded,    \* system-owned Contribution addresses that hold lamports
    escrow,       \* SOL in each market's escrow_vault
    lp_vault,     \* LP in each market's lp_vault
    gifts,        \* history: what anyone transferred in outside the program
    ledger,       \* history: what each user paid in and got back
    adopted       \* history: contributions made at an address that held lamports

vars == <<subject, interaction, market, question, live, stake, late_lp,
          prefunded, escrow, lp_vault, gifts, ledger, adopted>>

accounts == <<live, stake, late_lp, prefunded>>
vaults   == <<escrow, lp_vault>>
history  == <<gifts, ledger, adopted>>

(***************************************************************************)
(* Account layouts                                                         *)
(***************************************************************************)
Pending == 255      \* SUBJECT_OPTION_PENDING

SubjectStatus == {"None", "Open", "Resolved", "Void"}
MarketStatus  == {"Funding", "Active", "Resolved", "Void", "Cancelled"}
Settled       == {"Resolved", "Void"}

Market == [status : MarketStatus, creator : Users,
           min_liquidity : Nat, fee_bps : 0..MAX_FEE_BPS,
           total_contributed : Nat, open_contributions : Nat,
           lp_total : Nat, gross_lp_total : Nat,
           activation_lp : Nat, activation_contributed : Nat,
           activated : BOOLEAN, settled : {0, 1}, fee_collected : {0, 1}]

\* No program-owned account at a market's address.
NoMarket == [status |-> "None"]

Unresolved == [yes |-> 0, no |-> 0]
Payouts    == {Unresolved, [yes |-> 1, no |-> 0], [yes |-> 0, no |-> 1],
               [yes |-> 1, no |-> 1]}

\* What one wallet paid into a market and got out of it.
Receipts == [sol_in : Nat, sol_out : Nat, lp_out : Nat]

TypeOK ==
    /\ subject \in [status : SubjectStatus, options_count : Nat, resolved_option : Nat]
    /\ interaction \in BOOLEAN
    /\ market \in [Outcomes -> Market \cup {NoMarket}]
    /\ question \in [Outcomes -> Payouts]
    /\ live \in [Outcomes -> SUBSET Users]
    /\ stake \in [Outcomes -> [Users -> Nat]]
    /\ late_lp \in [Outcomes -> [Users -> Nat]]
    /\ prefunded \in [Outcomes -> SUBSET Users]
    /\ escrow \in [Outcomes -> Nat]
    /\ lp_vault \in [Outcomes -> Nat]
    /\ gifts \in [Outcomes -> [sol : Nat, lp : Nat]]
    /\ ledger \in [Outcomes -> [Users -> Receipts]]
    /\ adopted \in [Outcomes -> Nat]

Terminal == subject.status \in {"Resolved", "Void"}     \* Subject::is_terminal
Exists(o) == market[o] # NoMarket

Init ==
    /\ subject = [status |-> "None", options_count |-> 0, resolved_option |-> Pending]
    /\ interaction = FALSE
    /\ market = [o \in Outcomes |-> NoMarket]
    /\ question = [o \in Outcomes |-> Unresolved]
    /\ live = [o \in Outcomes |-> {}]
    /\ stake = [o \in Outcomes |-> [u \in Users |-> 0]]
    /\ late_lp = [o \in Outcomes |-> [u \in Users |-> 0]]
    /\ prefunded = [o \in Outcomes |-> {}]
    /\ escrow = [o \in Outcomes |-> 0]
    /\ lp_vault = [o \in Outcomes |-> 0]
    /\ gifts = [o \in Outcomes |-> [sol |-> 0, lp |-> 0]]
    /\ ledger = [o \in Outcomes |-> [u \in Users |-> [sol_in |-> 0, sol_out |-> 0, lp_out |-> 0]]]
    /\ adopted = [o \in Outcomes |-> 0]

(***************************************************************************)
(* The Subject and the GPT oracle                                          *)
(***************************************************************************)
CreateSubject(n) ==
    /\ subject.status = "None"
    /\ n >= 2
    /\ subject' = [status |-> "Open", options_count |-> n, resolved_option |-> Pending]
    /\ UNCHANGED <<interaction, market, question, accounts, vaults, history>>

RequestAi ==
    /\ subject.status = "Open"
    /\ interaction' = TRUE
    /\ UNCHANGED <<subject, market, question, accounts, vaults, history>>

\* Answered or not (mutant).
AwaitingAny == subject.status # "None"

\* The subject has no answer yet.
Awaiting == subject.status = "Open" /\ subject.resolved_option = Pending

\* The oracle delivers an answer.  It may deliver one again, so the request
\* need not be gone afterwards.  An answer that decodes to no option, or to
\* one out of range, is refused and changes nothing here.
CallbackFromGpt(option) ==
    /\ interaction
    /\ Awaiting
    /\ option < subject.options_count
    /\ subject' = [subject EXCEPT !.status = "Resolved", !.resolved_option = option]
    /\ interaction' \in BOOLEAN
    /\ UNCHANGED <<market, question, accounts, vaults, history>>

\* The oracle drops a request: its answer was refused, or none came.
RequestLost ==
    /\ interaction
    /\ interaction' = FALSE
    /\ UNCHANGED <<subject, market, question, accounts, vaults, history>>

(***************************************************************************)
(* Contribution accounts                                                   *)
(***************************************************************************)
\* The test `lamports() == 0 && is_data_empty()` on a Contribution address.
Blank(o, u) == u \notin live[o] \cup prefunded[o]

\* A top-up replaces the stake (mutant).
Overwritten(o, u, a) == a

\* The stake on record once `a` more is deposited.
Topped(o, u, a) == a + IF u \in live[o] THEN stake[o][u] ELSE 0

\* Moves `a` SOL into escrow and creates the Contribution or tops it up,
\* telling the two apart by who OWNS the address: one that only holds
\* lamports is adopted.
RecordContribution(o, u, a) ==
    /\ a > 0
    /\ stake[o][u] + a <= MaxU64 /\ escrow[o] + a <= MaxU64
    /\ live' = [live EXCEPT ![o] = @ \cup {u}]
    /\ prefunded' = [prefunded EXCEPT ![o] = @ \ {u}]
    /\ stake' = [stake EXCEPT ![o][u] = Topped(o, u, a)]
    /\ late_lp' = [late_lp EXCEPT ![o][u] = IF u \in live[o] THEN @ ELSE 0]
    /\ escrow' = [escrow EXCEPT ![o] = @ + a]
    /\ ledger' = [ledger EXCEPT ![o][u] = [ledger[o][u] EXCEPT !.sol_in = @ + a]]

\* The counter wraps instead of being checked (mutant).
CountedOrNot(o) == TRUE

\* `checked_sub` refuses to take another off a counter that is 0.
Counted(o) == market[o].open_contributions > 0

\* Pays a contributor out of the market and reaps its account.
CloseContribution(o, u) ==
    /\ Counted(o)
    /\ market' = [market EXCEPT ![o] = [market[o] EXCEPT !.open_contributions = @ - 1]]
    /\ live' = [live EXCEPT ![o] = @ \ {u}]
    /\ stake' = [stake EXCEPT ![o][u] = 0]
    /\ late_lp' = [late_lp EXCEPT ![o][u] = 0]
    /\ UNCHANGED prefunded

(***************************************************************************)
(* Funding                                                                 *)
(***************************************************************************)
\* Bindable after the answer is known (mutant), and past the last option
\* (mutant).
BindableLate(o) == subject.status # "None" /\ o < subject.options_count
\* May a sub-market bind to outcome `o` of the subject?
Bindable(o) == subject.status # "None" /\ ~Terminal /\ o < subject.options_count

\* `floor` and `fee` are what Config holds when the market is created.
CreateMarket(o, u, seed, floor, fee) ==
    /\ Bindable(o)
    /\ ~Exists(o)
    /\ RecordContribution(o, u, seed)
    /\ market' = [market EXCEPT ![o] =
         [status |-> "Funding", creator |-> u, min_liquidity |-> floor, fee_bps |-> fee,
          total_contributed |-> seed, open_contributions |-> 1,
          lp_total |-> 0, gross_lp_total |-> 0,
          activation_lp |-> 0, activation_contributed |-> 0,
          activated |-> FALSE, settled |-> 0, fee_collected |-> 0]]
    /\ UNCHANGED <<subject, interaction, question, lp_vault, gifts, adopted>>

\* Every deposit counts, top-ups too (mutant), and none after the first does
\* (mutant).
AlwaysNew(o, u) == TRUE
NeverNew(o, u) == FALSE

\* Does this deposit grow the live-Contribution counter?  Decided before the
\* Contribution is created, and by lamports, not by owner.
CreatesNew(o, u) == Blank(o, u)

Contribute(o, u, a) ==
    LET m   == market[o]
        new == IF CreatesNew(o, u) THEN 1 ELSE 0
    IN  /\ m.status = "Funding"
        /\ RecordContribution(o, u, a)
        /\ m.total_contributed + a <= MaxU64
        /\ m.open_contributions + new <= MaxU16
        /\ market' = [market EXCEPT ![o] =
             [m EXCEPT !.total_contributed = @ + a, !.open_contributions = @ + new]]
        /\ adopted' = [adopted EXCEPT ![o] = @ + IF u \in prefunded[o] \ live[o] THEN 1 ELSE 0]
        /\ UNCHANGED <<subject, interaction, question, lp_vault, gifts>>

\* Only a market that missed its floor (mutant).
CancelUnderfunded(o) ==
    /\ market[o].status = "Funding"
    /\ Terminal
    /\ market[o].total_contributed < market[o].min_liquidity
    /\ market' = [market EXCEPT ![o] = [market[o] EXCEPT !.status = "Cancelled"]]
    /\ UNCHANGED <<subject, interaction, question, accounts, vaults, history>>

\* The checks of each instruction, which it makes before it changes anything:
\* where they hold it goes through.
CancelAccepted(o) == market[o].status = "Funding" /\ Terminal

\* At any funding level: a settled subject leaves no way to activate.
Cancel(o) ==
    /\ CancelAccepted(o)
    /\ market' = [market EXCEPT ![o] = [market[o] EXCEPT !.status = "Cancelled"]]
    /\ UNCHANGED <<subject, interaction, question, accounts, vaults, history>>

RefundAccepted(o, u) ==
    /\ market[o].status = "Cancelled"
    /\ u \in live[o] /\ Counted(o)
    /\ escrow[o] >= stake[o][u]

Refund(o, u) ==
    /\ RefundAccepted(o, u)
    /\ escrow' = [escrow EXCEPT ![o] = @ - stake[o][u]]
    /\ ledger' = [ledger EXCEPT ![o][u] = [ledger[o][u] EXCEPT !.sol_out = @ + stake[o][u]]]
    /\ CloseContribution(o, u)
    /\ UNCHANGED <<subject, interaction, question, lp_vault, gifts, adopted>>

(***************************************************************************)
(* Trading                                                                 *)
(***************************************************************************)
\* The pool as create_amm leaves it.
EmptyPool == [base |-> 0, quote |-> 0, supply |-> 0]

\* The pool may be anyone's by then: one that holds something is refused.
ActivateAccepted(o, pool) ==
    /\ market[o].status = "Funding"
    /\ pool.base = 0 /\ pool.quote = 0
    /\ market[o].total_contributed >= market[o].min_liquidity
    /\ ~Terminal
    /\ escrow[o] >= market[o].total_contributed

\* Splits everything contributed into the empty pool, which mints `lp`.
Activate(o, pool, lp) ==
    LET m == market[o]
    IN  /\ ActivateAccepted(o, pool)
        /\ escrow' = [escrow EXCEPT ![o] = @ - m.total_contributed]
        /\ lp_vault' = [lp_vault EXCEPT ![o] = lp]
        /\ market' = [market EXCEPT ![o] =
             [m EXCEPT !.status = "Active", !.activated = TRUE,
                       !.lp_total = lp, !.gross_lp_total = lp, !.activation_lp = lp,
                       !.activation_contributed = m.total_contributed]]
        /\ UNCHANGED <<subject, interaction, question, accounts, history>>

\* The late LP on record once `lp` more is minted.
LateTopped(o, u, lp) == lp + IF u \in live[o] THEN late_lp[o][u] ELSE 0

\* `record_late_lp` tells create from top-up by lamports, and cannot load an
\* address that only holds lamports.
RecordLateLp(o, u, lp) ==
    /\ u \in live[o] \/ Blank(o, u)
    /\ late_lp[o][u] + lp <= MaxU64
    /\ live' = [live EXCEPT ![o] = @ \cup {u}]
    /\ late_lp' = [late_lp EXCEPT ![o][u] = LateTopped(o, u, lp)]
    /\ stake' = [stake EXCEPT ![o][u] = IF u \in live[o] THEN @ ELSE 0]
    /\ UNCHANGED prefunded

\* The SOL passes through escrow into the pool within the one transaction;
\* the remainder of the split goes straight back to the depositor.
AddLiquidity(o, u, a, lp) ==
    LET m   == market[o]
        new == IF CreatesNew(o, u) THEN 1 ELSE 0
    IN  /\ a > 0 /\ lp > 0
        /\ m.status = "Active"
        /\ ~Terminal
        /\ escrow[o] + a <= MaxU64 /\ lp_vault[o] + lp <= MaxU64
        /\ RecordLateLp(o, u, lp)
        /\ m.lp_total + lp <= MaxU64 /\ m.gross_lp_total + lp <= MaxU64
        /\ m.total_contributed + a <= MaxU64
        /\ m.open_contributions + new <= MaxU16
        /\ lp_vault' = [lp_vault EXCEPT ![o] = @ + lp]
        /\ market' = [market EXCEPT ![o] =
             [m EXCEPT !.lp_total = @ + lp, !.gross_lp_total = @ + lp,
                       !.total_contributed = @ + a, !.open_contributions = @ + new]]
        /\ UNCHANGED <<subject, interaction, question, escrow, history>>

(***************************************************************************)
(* Settlement                                                              *)
(***************************************************************************)
\* The verdict of the subject on outcome `o`.
Numerators(o) ==
    CASE subject.status = "Void"         -> [yes |-> 1, no |-> 1]
      [] subject.resolved_option = o     -> [yes |-> 1, no |-> 0]
      [] OTHER                           -> [yes |-> 0, no |-> 1]

ResolveAccepted(o) ==
    /\ market[o].status = "Active"
    /\ market[o].settled = 0
    /\ Terminal
    /\ subject.status = "Resolved" => subject.resolved_option < subject.options_count

ResolveMarket(o) ==
    LET m == market[o]
    IN  /\ ResolveAccepted(o)
        /\ question' = [question EXCEPT ![o] = Numerators(o)]
        /\ market' = [market EXCEPT ![o] =
             [m EXCEPT !.settled = 1, !.status = subject.status,
                       !.fee_collected = IF m.fee_bps = 0 \/ m.lp_total = 0 THEN 1 ELSE @]]
        /\ UNCHANGED <<subject, interaction, accounts, vaults, history>>

\* What the fee of market `o` would be off a pool read as `pool`.
FeeDue(o, pool) ==
    LET m == market[o]
    IN  IF m.fee_bps = 0 \/ m.lp_total = 0
        THEN 0
        ELSE FeeLp(m.lp_total, m.total_contributed, m.fee_bps,
                   PoolValue(pool.base, pool.quote, question[o]), pool.supply)

\* Settled, collected or not (mutant).
Collectable(o) == market[o].status \in Settled

\* Is the fee of market `o` still to be cut?
FeeOpen(o) == market[o].status \in Settled /\ market[o].fee_collected = 0

\* The cut is not taken off the LP that claims share (mutant).
MarkCollected(o, fee) ==
    market' = [market EXCEPT ![o] = [market[o] EXCEPT !.fee_collected = 1]]

\* What collect_fee writes to the market.
CutFee(o, fee) ==
    market' = [market EXCEPT ![o] = [market[o] EXCEPT !.lp_total = @ - fee, !.fee_collected = 1]]

\* The pool as the fee is cut off it, its supply of LP the vault's included.
CollectFeeAccepted(o, pool) ==
    LET m == market[o]
    IN  /\ FeeOpen(o)
        /\ m.fee_bps > 0 /\ m.lp_total > 0 => question[o] # Unresolved /\ pool.supply > 0
        /\ FeeDue(o, pool) <= lp_vault[o] /\ FeeDue(o, pool) <= m.lp_total

\* The LP mint's supply counts what the vault holds.  A fee is burned into
\* SOL in the escrow, and the escrow's whole balance goes to the protocol.
CollectFee(o, pool) ==
    LET fee == FeeDue(o, pool)
    IN  /\ pool.supply >= lp_vault[o]
        /\ CollectFeeAccepted(o, pool)
        /\ lp_vault' = [lp_vault EXCEPT ![o] = @ - fee]
        /\ escrow' = [escrow EXCEPT ![o] = IF fee > 0 THEN 0 ELSE @]
        /\ CutFee(o, fee)
        /\ UNCHANGED <<subject, interaction, question, accounts, history>>

\* A contribution's share by its own record, rounded down.
FloorShare(o, u) ==
    LET m == market[o]
    IN  IF m.gross_lp_total = m.activation_lp
        THEN ProRataShare(m.lp_total, stake[o][u], m.total_contributed)
        ELSE GrossLpShare(m.lp_total,
                          GrossLp(m.activation_lp, m.activation_contributed,
                                  stake[o][u], late_lp[o][u]),
                          m.gross_lp_total)

\* What that share is divided by; the claim fails when it is 0.
ShareBasis(o) ==
    LET m == market[o]
    IN  IF m.gross_lp_total = m.activation_lp THEN m.total_contributed ELSE m.gross_lp_total

\* The last claimer sweeps the vault, dust and gifts included.
Share(o, u) == IF market[o].open_contributions = 1 THEN lp_vault[o] ELSE FloorShare(o, u)

ClaimAccepted(o, u) ==
    /\ market[o].status \in Settled \cup {"Active"}
    /\ market[o].fee_collected = 1
    /\ u \in live[o] /\ Counted(o)
    /\ market[o].open_contributions = 1 \/ ShareBasis(o) > 0
    /\ Share(o, u) <= lp_vault[o]

ClaimLp(o, u) ==
    /\ ClaimAccepted(o, u)
    /\ lp_vault' = [lp_vault EXCEPT ![o] = @ - Share(o, u)]
    /\ ledger' = [ledger EXCEPT ![o][u] = [ledger[o][u] EXCEPT !.lp_out = @ + Share(o, u)]]
    /\ CloseContribution(o, u)
    /\ UNCHANGED <<subject, interaction, question, escrow, gifts, adopted>>

\* The counter is not looked at (mutant).
AnyoneLeft(o) == TRUE

\* Has every contributor been paid out, by the market's own count?
NobodyLeft(o) == market[o].open_contributions = 0

CloseAccepted(o) ==
    /\ market[o].status \in Settled \cup {"Cancelled"}
    /\ market[o].activated => market[o].fee_collected = 1
    /\ NobodyLeft(o)

\* Token accounts that still hold a gift are left in place, not emptied.
CloseMarket(o) ==
    /\ CloseAccepted(o)
    /\ market' = [market EXCEPT ![o] = NoMarket]
    /\ UNCHANGED <<subject, interaction, question, accounts, vaults, history>>

(***************************************************************************)
(* What anyone may do to the accounts from outside the program             *)
(***************************************************************************)
\* Lamports sent to the address of a Contribution that does not exist yet.
Prefund(o, u) ==
    /\ u \in Prefundable /\ Blank(o, u)
    /\ prefunded' = [prefunded EXCEPT ![o] = @ \cup {u}]
    /\ UNCHANGED <<subject, interaction, market, question, live, stake, late_lp,
                   vaults, history>>

DonateSol(o, d) ==
    /\ Exists(o)
    /\ gifts[o].sol + d <= MaxGift /\ escrow[o] + d <= MaxU64
    /\ escrow' = [escrow EXCEPT ![o] = @ + d]
    /\ gifts' = [gifts EXCEPT ![o] = [gifts[o] EXCEPT !.sol = @ + d]]
    /\ UNCHANGED <<subject, interaction, market, question, accounts, lp_vault, ledger, adopted>>

DonateLp(o, d) ==
    /\ Exists(o) /\ market[o].activated
    /\ gifts[o].lp + d <= MaxGift /\ lp_vault[o] + d <= MaxU64
    /\ lp_vault' = [lp_vault EXCEPT ![o] = @ + d]
    /\ gifts' = [gifts EXCEPT ![o] = [gifts[o] EXCEPT !.lp = @ + d]]
    /\ UNCHANGED <<subject, interaction, market, question, accounts, escrow, ledger, adopted>>

(***************************************************************************)
(* The specification                                                       *)
(***************************************************************************)
SubjectNext ==
    \/ \E n \in OptionCounts : CreateSubject(n)
    \/ RequestAi
    \/ \E option \in Replies : CallbackFromGpt(option)
    \/ RequestLost

FundingNext(o) ==
    \/ \E u \in Users, a \in Deposits, floor \in Floors, fee \in FeeRates :
           CreateMarket(o, u, a, floor, fee)
    \/ \E u \in Users, a \in Deposits : Contribute(o, u, a)
    \/ Cancel(o)
    \/ \E u \in Users : Refund(o, u)

TradingNext(o) ==
    \/ \E pool \in Pools \cup {EmptyPool}, lp \in ActivationLps : Activate(o, pool, lp)
    \/ \E u \in Users, a \in Deposits, lp \in LateLps : AddLiquidity(o, u, a, lp)

SettlementNext(o) ==
    \/ ResolveMarket(o)
    \/ \E pool \in Pools : CollectFee(o, pool)
    \/ \E u \in Users : ClaimLp(o, u)
    \/ CloseMarket(o)

OutsideNext(o) ==
    \/ \E u \in Users : Prefund(o, u)
    \/ \E d \in Gifts : DonateSol(o, d) \/ DonateLp(o, d)

MarketNext(o) ==
    FundingNext(o) \/ TradingNext(o) \/ SettlementNext(o) \/ OutsideNext(o)

Next == SubjectNext \/ \E o \in Outcomes : MarketNext(o)

Spec == Init /\ [][Next]_vars

\* Every step that leads from a settled subject to a reaped market is a
\* permissionless crank: any wallet may send it and gains nothing by waiting.
\* Nobody is owed to fund, trade or ask.
CrankFairness ==
    \A o \in Outcomes :
        /\ WF_vars(Cancel(o))
        /\ WF_vars(ResolveMarket(o))
        /\ WF_vars(\E pool \in Pools : CollectFee(o, pool))
        /\ \A u \in Users : WF_vars(Refund(o, u)) /\ WF_vars(ClaimLp(o, u))
        /\ WF_vars(CloseMarket(o))

FairSpec == Spec /\ CrankFairness

\* Asking the oracle is permissionless too; getting a usable answer is not.
AskingFairSpec == FairSpec /\ WF_vars(RequestAi)

(***************************************************************************)
(* Safety                                                                  *)
(***************************************************************************)
\* Whatever addresses hold lamports early, the counter that gates
\* close_market never exceeds the contribution accounts that exist: it is at
\* worst let through too early, and never blocked by one that is not there.
CounterNeverOver ==
    \A o \in Outcomes : Exists(o) => market[o].open_contributions <= Cardinality(live[o])

\* And it falls short of them by no more than were made at an address that
\* held lamports: no top-up, late deposit, refund or claim of anyone's puts it
\* further out.
CounterNeverShort ==
    \A o \in Outcomes : Exists(o) =>
        Cardinality(live[o]) <= market[o].open_contributions + adopted[o]

\* No contribution outlives its market: a reaped market would leave the SOL
\* or LP behind with no way out.
NoStrandedContributor ==
    \A o \in Outcomes : ~Exists(o) => live[o] = {}

\* No more contributions outlive their market than were made at an address
\* that held lamports: nothing else lets it be reaped while somebody is in it.
StrandedOnlyIfAdopted ==
    \A o \in Outcomes : ~Exists(o) => Cardinality(live[o]) <= adopted[o]

\* Sub-markets of one subject settle on the same answer: each one's question
\* pays YES only if the subject resolved to it, so at most one sibling does.
SiblingsAgree ==
    \A o \in Outcomes : Exists(o) /\ market[o].settled = 1 =>
        /\ market[o].status = subject.status
        /\ question[o] = Numerators(o)
        /\ \A p \in Outcomes \ {o} :
               Exists(p) /\ market[p].status = "Resolved" /\ market[o].status = "Resolved"
                   => question[o].yes + question[p].yes <= 1

(***************************************************************************)
(* What a step may never do                                                *)
(***************************************************************************)
\* Once the fee is cut, the numbers every claim is computed from stay as they
\* are until the market is reaped: claims commute.
Basis(m) == <<m.status, m.lp_total, m.gross_lp_total, m.total_contributed,
              m.activation_lp, m.activation_contributed, m.fee_bps>>

BasisFrozen ==
    [][\A o \in Outcomes :
          Exists(o) /\ market[o].fee_collected = 1 /\ Exists(o)' =>
              Basis(market[o]') = Basis(market[o]) /\ question[o]' = question[o]]_vars

\* A market that took anyone's SOL and was reaped is never created again at
\* the same address, where it would meet its predecessor's token accounts.
NeverReborn ==
    [][\A o \in Outcomes :
          ~Exists(o) /\ (\E u \in Users : ledger[o][u].sol_in > 0) => ~Exists(o)']_vars

(***************************************************************************)
(* What must happen                                                        *)
(***************************************************************************)
\* Once the subject is settled, whatever the market's state then, it is
\* reaped, with every contribution paid out before but as many at most as were
\* made at an address that held lamports.
SettledMarketsDrain ==
    \A o \in Outcomes :
        (Terminal /\ Exists(o)) ~> (~Exists(o) /\ Cardinality(live[o]) <= adopted[o])

\* A market never gets stuck waiting on anyone: once somebody contributed,
\* the market is eventually reaped.
NeverStuck == \A o \in Outcomes : Exists(o) ~> ~Exists(o)
=============================================================================
