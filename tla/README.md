# Verification of the Kassandra markets

TLA+ modules, TLC runs and TLAPS proofs about the repository in `src/`: a Solana program
(`programs/markets`) that lets wallets crowd-fund binary markets on a question answered by a GPT
oracle, a TypeScript SDK that builds its instructions, an indexer that mirrors its accounts and keeps
price series, and a web app that reads the one and sends transactions to the other.

Paths below are relative to `src/`; `processor/` is `programs/markets/src/processor/`.

## 1. The system

| Part | State | Operations | Module |
|---|---|---|---|
| Subject and GPT callback | `Subject` (status, options, answer), an outstanding `Interaction` at the oracle | `create_subject`, `request_ai`, `callback_from_gpt` | `Markets` |
| Market funding | `Market`, one `Contribution` per (market, wallet), escrow token account | `create_market`, `contribute`, `cancel`, `refund` | `Markets`, `MarketLedger`, `Crowdfund`, `MarketPromise` |
| Market trading window | pool LP in `lp_vault`, `lp_total`, `gross_lp_total`, `activation_*` | `activate`, `add_liquidity` | `Markets`, `MarketLedger`, `Trading` |
| Market settlement | MetaDAO `Question` numerators, `settled`, `fee_collected`, `open_contributions` | `resolve_market`, `collect_fee`, `claim_lp`, `close_market` | `Markets`, `MarketLedger`, `MarketPromise`, `Shares` |
| Share and fee arithmetic | none (u128 floor divisions) | `pro_rata_share`, `gross_lp_share`, `fee_lp_and_accrued`, … | `Shares`, `FeeMath` |
| Governance and funding floor | `Config` (authority, fee, curve, demand average) | `init_config`, `update_config`, the Config part of `create_market` | `Governance`, `LiquidityFloor` |
| Ephemeral-rollup sessions | `ErSession` per market | `delegate_market`, `commit_market`, `undelegate_market` | `ErSession` |
| Account guards | — | addresses, owners, signers, writability, per instruction | `AccountLists` |
| SDK account lists and flows | none | `instructions/*`, `pda.ts`, `metadao/pda.ts`, `flows/*` | `AccountLists`, `StepLists`, `Trading` |
| Indexer mirror | table `market_accounts`: raw account and slot per address | websocket tail, periodic snapshot with prune, slot-gated upsert | `IndexerMirror` |
| Indexer price series | table `market_price`: one row per market and slot | subscription manager, baseline, stream, detail page, candles | `PriceSeries` |
| Web app sequences | statuses of a multi-transaction action, per-run locals | build, probe, pack, sign, relay, confirm, retry | `ActionSequence`, `StepLists` |
| Web app tickets | reserves last read, instructions built | buy, sell, deposit | `Trading` |
| Web app page reads | market shown, reads under way, timers | load, poll, refetch after a write, navigate | `PageReads` |
| Web app views | none | which control is offered, share and verdict shown | `MarketViews` |
| Layouts, CPI encodings, HTTP surface, scripts, docs site | — | — | section 5 |

**How the parts interact.** A `Subject` is one question with 2..254 options. `create_market` binds
one binary sub-market per option to it. Wallets fund a market in SOL. When the floor snapshotted from
`Config` is met, anybody may `activate` it: the whole escrow is split into conditional tokens and
placed in a MetaDAO pool, and the LP tokens go to the market's vault. While the subject is open others
may `add_liquidity`, and anyone may trade against the pool. The oracle's callback makes the subject
terminal; every sub-market reads that one answer on its own time. A market still in Funding by then can
only be cancelled and refunded; an active one is resolved, its fee cut out of its LP, its LP claimed by
the contributors, and the accounts reaped. All instructions but the depositors' own and the oracle's
callback are permissionless cranks. Nothing else in the chain reads an ER session.

The indexer copies every program account into a table and samples the pools of active markets. The web
app renders that table, decides on its own which controls to offer, builds instructions with the SDK
and relays signed transactions through the indexer; activation, creation of a whole question and
deposits across outcomes take several transactions.

**What is hard.** The order of transactions is anybody's choice, so every interleaving of instructions
by any wallets must be safe: deposits, exits and re-creations must agree on one counter that gates the
reaping; claims must commute; the callback races activation; the oracle may repeat, lose or garble an
answer; anyone can put tokens or lamports on any derivable address beforehand; rounding accumulates in
one direction and the last claimer gets the difference. Off chain, updates arrive late and out of
order, two writers share the price table, pages read a table that trails the chain and may go back, quotes are filled
on a pool that has moved, account lists are positional and built apart from the program that checks
them, and a transaction that was not confirmed may still land. Each such place is a row of `hazards` in
`PROJECT.json`.

**What makes each part correct.** Subject: one answer, in range, the same for all sub-markets.
Funding: the escrow always holds exactly what is owed, a market is reaped only when nobody is left in
it but whom the counter missed (finding 1), an address is used once. Trading and settlement: LP is conserved, claims are computed off frozen
numbers and pay everyone their fraction up to rounding, whatever the order; everyone can get out.
Fee: out of profit only, and what the rate says. Floor: answers to past demand, never to the market's
own creation, and stays on governance's ramp. Sessions: commits belong to the delegation on record.
Account lists: the program takes what the SDK builds and no account can stand in for another.
Mirror: no row claims to be newer than it is, no live account is dropped, and the table converges.
Series: no sample from the future, candles that hold still, and a last price that becomes the pool's.
Sequences: done means landed, a click deposits once, a retry gets through. Tickets: a trade costs what
was typed in and a buy yields no less than the floor it was built with. Pages: never go back behind a row
they have shown, catch up with the table, offer what the program accepts.

## 2. Modules

| Module | What it is |
|---|---|
| `Shares` | The arithmetic of `claim_lp.rs` and `collect_fee.rs` as operators |
| `Totals` | Sums over a finite set by counting units, and powers |
| `Markets` | The state machine of one subject and its sub-markets; safety and liveness properties |
| `MarketLedger` | Properties of `Markets` that add up accounts |
| `Crowdfund` | Abstract specification: what wallets are promised, without accounts, counters or vaults |
| `MarketPromise` | The refinement mapping from `Markets` to `Crowdfund` |
| `MarketViews` | What the market page offers and shows, against what the program accepts and pays |
| `FeeMath` | The fee against division-free references, one initial state per input |
| `LiquidityFloor` | Decay, bump and ramp of the funding floor |
| `Governance` | `Config`: setup, retuning, and market creation as far as it reads and writes `Config` |
| `ErSession` | The delegation session of one market |
| `AccountLists` | The account lists of every instruction, as built by the SDK and as checked by the program |
| `IndexerMirror` | The indexer's table of accounts beside a chain that moves |
| `PriceSeries` | The indexer's price table, its two writers, and the candles read off it |
| `StepLists` | The step lists the app's controls build |
| `ActionSequence` | The app's runner of step lists, over a cluster that may answer late or never |
| `Trading` | Order and deposit tickets, and the pool they land on |
| `PageReads` | The reads of a market page: polling, refetching, superseding, navigating |
| `MCMarkets`, `MCPage`, `MCGovernance`, `MCIndexer`, `MCActionSequence` | Instances for TLC |
| `SharesProofs`, `MarketsProofs`, `LedgerProofs`, `PageProofs`, `GovernanceProofs`, `ListsProofs`, `IndexerProofs`, `SequenceProofs` | Theorems |

`MarketLedger`, `MarketPromise` and `MarketViews` extend `Markets`; `Markets`, `FeeMath` extend
`Shares`; `Governance` extends `LiquidityFloor`; `MarketLedger` and `Governance` take their sums from `Totals`; `MCActionSequence` gives `ActionSequence` the lists of
`StepLists` for its `Flows`. `Next` of `Governance` and of `Markets` meet in one number each:
what `CreateMarket` of `Governance` records as `min_liquidity` and `fee_bps` is what `Markets` takes from `Floors` and
`FeeRates`.

Three MC modules put machines **side by side** in one run: `MCGovernance` (`Governance`, `ErSession`,
`AccountLists`), `MCIndexer` (`IndexerMirror`, `PriceSeries`) and `MCPage` (`PageReads`, `Trading`,
`FeeMath`). The machines of such a run share no variable and no action of one reads another's state, so
a behaviour of all of them together is a behaviour of each, stretched by stuttering, and a property of
one machine holds of the product exactly if it holds of that machine alone. The run therefore explores
the union, each machine moving while the others are as they began, instead of the product. Where a
property is liveness it carries its machine's fairness as its premise (`Fairness => …`), because in the union
it may be another machine's turn forever.

A definition marked *(mutant)* stands beside one it is a mistaken variant of; some run rejects the
model with it in place.

### Markets

A Solana transaction is atomic, so each instruction handler is one action, with all of the calls it
makes, and a handler that returns an error is an action that is not enabled.

| Variable | In the program |
|---|---|
| `subject` | the `Subject` account; `resolved_option = 255` is `SUBJECT_OPTION_PENDING` |
| `interaction` | an LLM request is outstanding at the oracle (external) |
| `market[o]` | the `Market` PDA of outcome `o`, or `NoMarket` |
| `question[o]` | payout numerators in the market's MetaDAO `Question` (external) |
| `live[o]`, `stake`, `late_lp` | program-owned `Contribution` PDAs and their fields `amount`, `late_lp` |
| `prefunded[o]` | `Contribution` addresses that hold lamports but are still system-owned |
| `escrow[o]`, `lp_vault[o]` | balances of the two token accounts |
| `gifts`, `ledger`, `adopted` | history only: transfers from outside, what each wallet paid in and got out, and how many contributions `contribute` made at an address that held lamports |

Actions carry the names of the instructions. Points worth knowing when reading them beside the code:

- `RecordContribution` is `contribution.rs`, shared by `CreateMarket` and `Contribute`. It decides
  create-or-top-up by the **owner** of the address; `CreatesNew`, which `Contribute` and `AddLiquidity`
  use for the counter, decides by **lamports and data**. The two are modelled apart because they differ
  on prefunded addresses: such a contribution is created but not counted. `adopted` counts them. The
  properties hold whatever is prefunded and say by how much, at most, it puts the books out; the run
  `stranded` is about the case itself.
- `ActivateAccepted` refuses a pool that holds something (`PoolNotEmpty`): whoever sets up the pool, or anyone
  after, may have seeded it. The pool's state is an input, `EmptyPool` or one of `Pools`.
- `CloseContribution` is the exit `refund` and `claim_lp` share. `Counted` is its `checked_sub`: a contributor the
  counter missed can be the one for whom it is 0.
- `RecordLateLp` is `record_late_lp` of `add_liquidity.rs`. It decides by lamports, then loads the
  account, so it fails on a prefunded address: a guard.
- `AddLiquidity` moves the SOL through the escrow within the transaction, so `escrow` is unchanged.
- `CollectFee` is the whole crank: the fee LP is burned, the recovered SOL lands in the escrow, and
  the escrow's whole balance, gifts included, goes to the protocol.
- `CloseMarket` leaves a token account that still has a balance in place (`close_token_account_if_empty`).
- The LP that the pool mints, its reserves and its supply at `collect_fee` are inputs (`ActivationLps`,
  `LateLps`, `Pools`): the AMM is external. They are related only as far as the code relies on it: a
  mint's supply covers the vault's balance.
- `RequestLost` is the oracle giving up on a request, or delivering an answer the callback refuses.

Left out here: signatures and account binding (`AccountLists` has them), rent, the text of questions
and answers, `Subject` creation metadata, compute limits.

### Crowdfund and MarketPromise

`Crowdfund` is what the program is for: a question is answered once; until then markets collect and may
open; what did not open is refunded in full, what did settles on the answer; everyone the market noticed
coming in gets out before it disappears, for good. Its six variables are mapped from the accounts: `answer` from the subject's
status, `phase` from `Market.status` and the `Question`'s numerators, `members` from the live
`Contribution` accounts, `paid` and `back` from the record of transfers, and `unnoticed` from the
contributions made at an address that held lamports, the weakest promise that the code keeps there. An empty address is "None"
before its first stake and "Reaped" after. `PromiseKept` is `Promise!Spec`: each of the program's
transactions is a step of `Crowdfund` or invisible to it. Requests, fee collection, gifts and
session keeping are the invisible ones.

### MarketViews

The page decides by its own rules which controls it offers (`MarketActions.tsx`, `marketView.ts`,
`fundingActions`, the `*Control.tsx` files). `OffersAccepted` compares each offer with the checks
(`…Accepted` in `Markets`) with which the program's instruction begins; past them an action only assigns. `WayOutOffered` says the settled page always offers somebody's next step, and
`ShownIsPaid` compares the share and the verdict on display with the claim and the redemption. A contributor the
counter missed (`Overlooked`) is excepted from the first two: once the counter is 0 their claim is offered and
refused. `activate` is compared on a pool nobody seeded, since the page does not read the pool for it.
The page says of a market it offers to cancel that it missed its floor; `CancelOnlyUnderfunded` takes it at its word,
and the run `cancel_funded` refutes it.

### Governance and LiquidityFloor

`config.market_creation_ema` decays by whole halvings per half-life and along a straight line within
one. `CreateMarket` snapshots the floor off the decayed average, then adds one increment.
`ActivityMeasuresDemand` compares the average with what the times of all creations imply, computed
without any average: at least exact halving per started half-life (minus 2 units of rounding per
creation), at most a factor 5/8 per whole one. 5/8 is above e^(-1/2), the limit of many short straight-line decays.
`QuoteFollowsDemand` relates two quotes of one curve: the floor never rises by waiting, never falls
by a creation.

### ErSession

The session beside the market's life. `close_market` does not look at the session, so the model reaches
a reaped market with a delegated session; nothing in the repository says it should not.

### AccountLists

An address is the tuple of what it is derived from, so two addresses are equal exactly if the seeds are.
The module has two halves that were translated apart: the lists the client builds (`…List`, from
`sdks/markets/ts/src/instructions/`, and `Build…Ixs`, from the app's `data/actions/`), with signer and
writable marks, and what each handler asks (`Takes…`, from `processor/` and its `guards`), with what the
handler and the programs it calls write (`Writes`) and who must sign (`Signs`). `Slots` gives both a
name for each position.

| Variable | In the system |
|---|---|
| `phase`, `members`, `feeDone` | the market's status, who has a live `Contribution`, `fee_collected` |
| `composed` | the transactions of `composeMarketInstructions` have landed (question, vault, pool) |
| `delegated`, `terminal` | the session's and the subject's status |
| `destination`, `closed` | `Config.fee_destination`; the treasury whose token account is closed |

Beside the market stand one in trading on the same subject and two on an older one, settled and called
off, so that a stranger exists for each slot. `ListsStand`: every list is taken wherever the SDK says
its instruction is due. `StrangersRefused`: with one slot given to any other account a mistaken caller
could name, the list is refused, except in the slots nobody reads (`Open`).

### Trading

| Variable | In the app and the pool |
|---|---|
| `pool`, `purse` | the AMM's reserves and LP supply, the trader's SOL and tokens (external) |
| `page` | the reserves the page last read, or nothing |
| `ticket` | the instructions of a submitted trade, what was asked for, and the reserves they were built off |
| `moves` | trades that reached the pool, bounded by `MaxMoves` |

Between quote and landing the pool moves by other trades. `optimalUnwindSwap` estimates how much of a position to
swap in floating point; `OptimalUnwindSwaps` relies on its clamp alone and takes any swap within it, so nothing
is claimed of how evenly the rest pairs up, only that the merge is one that goes through (`MergeNeverFails`).
The panel's minimum (`TradePanel.tsx:208-212`) is computed off the reserves of the page, and `buildBuyIxs` reads them again
(`trade.ts:241`): `TicketKept` holds a buy to the panel's formula on the reserves it was **built** off. When the price
moved between the two reads, nothing holds it to what was on display, and no property says so. The instructions' effects (`Split`, `Merge`, `Swap`, `AddLiquidity`) are the external programs',
and a transaction is a `FoldLeft` that fails as a whole. JavaScript's bigint arithmetic is exact; the
u128 arithmetic of the pool does not overflow on the amounts of an instance.

### PageReads

| Variable | In the app |
|---|---|
| `table` | each market's row in the indexer's table: how often it was updated, and the phase its data is in |
| `asked` | the market in the URL |
| `runs` | reads under way; `live` is the run id comparison of `useAsync` |
| `data`, `loading`, `failed` | `useAsync`'s state; `data` names the market it is of, as `useMarketDetail` compares |
| `busy`, `burst` | the page's write, and the refetch delays `useMarketDetail` still has scheduled |
| `due` | history: what the table held when the last refetch came due |

An update of a row (`Index`) may bring **any** phase: the indexer drops an upsert that fails
(`processor.rs:71`), stamps a snapshot with an older slot (`reconcile.rs:41`, finding 5) and passes only every
60 s (`main.rs:31`), so its row may trail the chain by any time, miss versions and go back. What the page
owes, and what `NeverGoesBack` and `PageCatchesUp` say, is relative to the table: it never puts an answer of an
earlier read in place of a later one's, and shows what the table came to hold. How soon that is the user's own
write nobody can promise; the comment at `useAsync.ts:14-21`, that the burst of refetches reliably catches it,
is not stated as a property.

`Applies` is the guard that only the latest run sets state. `Polls` is the interval, which is set while
the market shown is Active. `Confirmed` puts the burst 0, 800, 1800, 3500 ms in place; each `Refetch` starts a run
that supersedes the one under way (`RunAgain`).

### StepLists and ActionSequence

`StepLists` builds the lists: activation (question, vault, pool, activate), creation of a question with
all of its markets, deposits and withdrawals across outcomes (uniform split, contributions, liquidity,
activations of what reaches its floor). `ActionSequence` runs one.

| Variable | In the app |
|---|---|
| `flow` | the control at hand: its list, what each step takes of a transaction, what it needs, how it calls `run` |
| `statuses`, `list` | React state of `useActionSequence`: a status per step, and which list they are of |
| `run[r]` | one call of `run` with its locals: closure's statuses, next step to probe, steps to send, the transaction relayed |
| `times` | how often each step of each list was executed by the cluster (external) |
| `orphans` | transactions given up on after a timeout or a lost answer, which may still land |
| `failures` | everything that goes wrong, bounded by `MaxFailures` |
| `finished`, `overlap` | history: lists reported as a success, lists still being run when the shown one began |

`Callers` tells apart three ways the controls call `run`: with the list they keep, with a list built anew
whose accounts are new, and with a new list and `startIndex: 0`. Between any two awaits other
transactions land, and a second click finds the button enabled whenever no step is marked as running:
while a list is built, while steps are probed, and while the wallet signs a batch. The cluster
executes a transaction whole or not at all; a step twice reverts unless it is a deposit.

### IndexerMirror

| Variable | In the indexer |
|---|---|
| `slot`, `chain`, `confirmed` | the cluster (external): last confirmed slot, versions of each account, how many of them are confirmed |
| `tail` | websocket notifications under way (`RpcProgramSubscribe`, external) |
| `rows` | the table `market_accounts`; `data` is abstracted to the number of the version it holds |
| `pass` | local variables of `market_reconcile_once`: `slot`, the snapshot, what is still to be upserted |
| `restarts` | crashes so far |

The code awaits between every two of its calls, so `ReadSlot` (`get_slot`), `Fetch`
(`get_program_accounts`), one `PersistOk` or `PersistFails` per account and `Prune` are steps of their own,
between which the chain moves and the tail delivers. An upsert that fails is logged and its account still
counts as present; any other call that fails ends the pass (`PassFails`). The startup snapshot is the same
reads without a prune, which is a pass that fails at its last call. Assumed of the outside: reads are at the
`confirmed` commitment and a snapshot is at least as new as the slot read before it; the websocket
reports in order of slots, may lose a notification or hold it for any time, and does not report closes
(`reconcile.rs:18-19`, `54-56`). Without a websocket URL the tail is always empty, a special case.

### PriceSeries

| Variable | In the indexer |
|---|---|
| `head`, `pool`, `stream` | the cluster: slot, every change of the pool's reserves with its slot, notifications under way (external) |
| `status` | the market's status in the mirror, which decides whether it has a subscription task |
| `seconds` | the clock `captured_at` is taken from |
| `series` | the market's rows: a sample per slot, slot 0 if the slot was unknown |
| `watcher` | the task's place: baseline read, slot asked, recorded, connecting, streaming |
| `served` | a detail page between its read of the pool and its insert |

`insert_price` overwrites the reserves of a slot and keeps its `captured_at`. A task is aborted where it
stands when the market leaves Active; a stream that closes begins again with a baseline. Rows of a
second make one candle here; wider buckets only merge candles.

## 3. Runs

| Run | Question | Result |
|---|---|---|
| `market` | In every order of creation, deposits, cancel and refunds or activation, late deposits, fee, claims, reaping and gifts, with lamports on contribution addresses beforehand: are escrow and LP accounted for, every claim fair, no address reused, and the counter out by no more than those addresses account for? | holds |
| `siblings` | Do sub-markets settled at different times agree, does the program keep the promise, does every market of a settled subject drain, and does the page offer and show what the program accepts and pays? | holds |
| `page` | Is the fee out of profit only and within 2 LP of the rate? Do tickets go through as quoted, cost what was typed and merge what is there? Does a page never put an earlier answer over a later one, and catch up with the table? | holds |
| `governance` | Does the floor follow past demand and only that, while governance retunes it? Do commits belong to the current delegation? Are the SDK's lists taken where due, and no stranger in them? | holds |
| `mirror` | Under loss, delay, failed calls and a crash: are stamps honest, does news get in, are live rows spared, does the table catch up? Are samples in time, candles still, and does the last price become the pool's? | holds |
| `sequence` | With late landings, lost answers, impatient clicks and other keepers: does done mean landed, is a deposit made once, is everything sent in order, does a kept list get through? | holds |
| `stranded` | "It is impossible to close a market out from under a contributor" with prefunded addresses | **violated** |
| `cancel_funded` | "The oracle resolved before this market reached its funding floor", of a market offered for cancellation | **violated** |
| `stuck` | "The market cannot get stuck waiting on a specific party" | **violated** |
| `steady_rate` | "At a steady rate of n markets/day the EMA settles at E(n)" | **violated** |
| `mirror_clobber` | "An out-of-order (older) datasource event can never clobber a newer one" | **violated** |
| `sequence_retry` | "One persistent step list, retried in place after a mid-sequence failure": is a step shown as done one that landed? | **violated** |

### Bounds

- Wallets: 2 to 4, interchangeable (symmetry, only in runs without liveness). Counter and
  share properties need a first, a middle and a last contributor: three. `market` has a fourth so that
  `MaxU16 = 3` refuses somebody. `NarrowSpec` of `market` cuts its space: while the market collects, at most one
  address holds lamports and then there are no gifts; afterwards the address may hold them at any time; from
  activation on three of the wallets are involved.
- Amounts: `MaxU64` and `MaxU16` are small so that the checked additions do refuse. `market`
  takes deposits 7 and 20 and LP 30, 1 and 8: coprime enough that every share has a remainder.
- Outcomes: one where markets cannot interact, three (one of them no option of the subject) in `siblings`.
  `FocusedSpec` of `siblings` cuts its space: either one market has three wallets, gifts, late deposits,
  the higher floor and addresses that hold lamports, or several markets have two wallets each and none of that. Markets meet
  only in the subject, so what a busy one does beside a busy one it also does beside a plain one.
- `Pools`: a gain on one side, a loss, and a gain too small for a fee.
- Gifts: at most one per account (`MaxGift = 1`); a further gift only repeats the step.
- `governance`: `HALFLIFE = 4`, `INCREMENT = 64`, times 0..9 (more than two half-lives, every
  remainder), four creations, two curves; `MaxU64 = 256` so that `saturating_add` is at its limit. Sessions: two validators, four
  slots. Lists: two members, two treasuries, one market among three others: each slot has a stranger of every kind.
- `page`: the fee on 6 x 5 x 5 x 5 x 5 x 4 x 3 inputs with remainders (both halves are proved for
  all); tickets of dust, a trade and more than the trader has, on an even and a skewed pool, two
  trades beside; two markets, two reads under way, a link followed, any phase in each market's row and then any other.
- `mirror`: accounts do not interact, so one; three versions make create, close, create again; four slots let
  two versions share a slot or fall on both sides of a pass; one crash, as a second only repeats it.
  Series: three changes of the pool, two slots, two seconds, so that a slot has two changes, and a
  second two slots or none.
- `sequence`: four controls (activation kept, deposit below and at the floor, late deposit signed one by one,
  withdrawal), two calls of `run` at a time, two lists, two failures: a transaction lost and then
  another while the first may still land. Units and bytes are such that lists take one, two and three
  transactions.
- Deadlock checking is off where the system really may stop (everything reaped, or a clock at its bound).

### Fairness

- `CrankFairness` is weak fairness of `cancel`, `resolve_market`, `collect_fee`, `refund`, `claim_lp` and
  `close_market`. All six need no signer beyond a fee payer (`docs-site/market/lifecycle.mdx` 84-92) and once
  enabled stay enabled until somebody sends them. Nobody is assumed to fund, trade, activate, or ask,
  and the oracle is not assumed to answer: `SettledMarketsDrain` starts from a terminal subject.
- `AskingFairSpec` adds fair asking for `stuck`: even so, an oracle whose answers never decode keeps the
  subject open, and `cancel` requires a terminal one.
- `IndexerMirror!Fairness`: the loop and the pipeline run for as long as the process does (weak), and a call that
  is made again and again does not fail every time (strong, of `Fetch`, `PersistOk`, `Prune`). Crashes
  are finitely many. The chain itself has no fairness: `MirrorCatchesUp` says the table converges to where the chain rests.
- `SeriesFairness`: the tasks run, and some page goes on asking for the market, whose insert does not
  fail each time. Without a page nothing is promised: the subscription loses notifications for good.
- `PageFairness`: timers fire, and of the reads not superseded some are answered
  before the next is due (strong, of the live run's arrival; the interval is 15 seconds). Nothing is asked of the indexer.
- `ActionSequence!Fairness`: a call that is awaited returns, and the user comes back to a button that is
  enabled (weak, of the good outcomes taken together). Failures are finitely many. A transaction that was
  given up on is owed nothing.

### Findings

1. **`stranded`, code.** `contribute.rs:53` counts a contribution as new if its address has no lamports
   and no data; `contribution.rs:54` creates it if the program does not own it. For an address that
   holds lamports only, the account is created and not counted. The comment at `contribute.rs:49-50`
   says the predicates are the same. The market can then be reaped with a live contribution.
2. **`stuck`, documentation.** A subject leaves `Open` only by a decodable answer. Nothing sets
   `SubjectStatus::Void`, nothing times out.
3. **`cancel_funded`, documentation.** `cancel.rs:42-46` takes a market at any funding level once the subject is
   terminal, which `tests/cancel.rs:80` pins, and the page offers it likewise (`marketView.ts:99-101`). The
   text beside the button (`CancelControl.tsx:35`) says the market missed its floor; `MarketActions.tsx:180-181` and
   `funding.ts:110` describe the control and the instruction so, too. A market that met its floor and was not activated in time shows it.
4. **`steady_rate`, documentation.** `config.rs:49-51` derives the recommended curve from a geometric
   decay. The piecewise-linear one settles at `2n` increments, above `E(n)`.
5. **`mirror_clobber`, documentation.** `reconcile.rs:41` reads the slot before the snapshot, so a row may hold
   data of a later slot than its stamp, and a delayed notification of a slot in between passes the gate.
   `market/db.rs:5-6` says that can never happen. A later pass puts it right (`MirrorCatchesUp`).
6. **`sequence_retry`, code.** Submitting the create form again after a failure builds a new list with a
   new subject (`createAll.ts:56`); `initialRunState` (`useActionSequence.ts:92`) takes the old statuses
   for a resume of it, as the lists are equally long, and skips steps that landed for the old
   subject only. The comment at `useActionSequence.ts:82-83` takes the list to be the same one.

## 4. Proofs

A theorem holds for every value of the constants under the assumptions of its module (`ASSUME ...Assumption`,
which say that amounts and bounds are naturals and that inputs have their types) and those in the last column.

| Theorem | Statement | Assumes besides |
|---|---|---|
| `MarketsProofs!TypeCorrect` | `Spec => []TypeOK` | |
| `MarketsProofs!NeverOver` | `Spec => []CounterNeverOver` | |
| `MarketsProofs!NeverShort` | `Spec => []CounterNeverShort` | |
| `MarketsProofs!OnlyAdoptedStranded` | `Spec => []StrandedOnlyIfAdopted` | |
| `MarketsProofs!SiblingsAgreed` | `Spec => []SiblingsAgree` | |
| `MarketsProofs!NeverBornAgain` | `Spec => NeverReborn` | |
| `MarketsProofs!FrozenBasis` | `Spec => BasisFrozen` | |
| `MarketsProofs!PromiseIsKept` | `Spec => PromiseKept`, that `Markets` implements `Crowdfund` | |
| `LedgerProofs!EscrowIsBacked` | `Spec => []EscrowBacked` | |
| `LedgerProofs!LpIsConserved` | `Spec => []LpConserved` | |
| `LedgerProofs!VaultIsBacked` | `Spec => []VaultBacked` | |
| `LedgerProofs!ClaimsAreFair` | `Spec => FairClaims` | |
| `LedgerProofs!PageTellsTheTruth` | `Spec => []ShownIsPaid` | |
| `LedgerProofs!PageOffersAWayOut` | `Spec => []WayOutOffered` | |
| `LedgerProofs!PageOffersAreAccepted` | `Spec => []OffersAccepted` | |
| `SharesProofs!FeeSparesContributions` | of the operator `FeeLp`: what is left is worth what was contributed | naturals, rate up to the cap |
| `PageProofs!PrincipalSpared` | `Spec => []FeeSparesPrincipal`, of `FeeMath` | |
| `PageProofs!FeeKeepsRate` | `Spec => []FeeIsRate`, of `FeeMath` | |
| `PageProofs!QuotesGoThrough` | `TradingSpec => []QuotedGoesThrough` | |
| `PageProofs!MergesGoThrough` | `TradingSpec => []MergeNeverFails` | |
| `PageProofs!NothingElseTaken` | `TradingSpec => TicketKept` | |
| `PageProofs!PageNeverGoesBack` | `PageSpec => NeverGoesBack` | |
| `GovernanceProofs!FloorOnRamp` | the floor is within base..max, or base | naturals |
| `GovernanceProofs!FloorMonotone` | more activity never lowers the floor | one curve |
| `GovernanceProofs!QuoteIsFair` | `Spec => QuoteFollowsDemand` | |
| `GovernanceProofs!DemandMeasured` | `Spec => []ActivityMeasuresDemand` | `INCREMENT < 2^64`, `MaxMarkets * INCREMENT <= MaxU64` |
| `GovernanceProofs!CurrentCommits` | `SessionSpec => []CommitsAreCurrent` | |
| `GovernanceProofs!AccountsTyped` | `AccountsSpec => []AccountsTypeOK` | |
| `ListsProofs!ListsAreAccepted` | `AccountsSpec => []ListsStand` | |
| `ListsProofs!StrangersAreRefused` | `AccountsSpec => []StrangersRefused` | |
| `IndexerProofs!MirrorTypeCorrect` | `Spec => []TypeOK`, of `IndexerMirror` | |
| `IndexerProofs!HonestStamps` | `Spec => []StampsAreHonest` | |
| `IndexerProofs!NewsAccepted` | `Spec => []NewsGetsIn` | |
| `IndexerProofs!PruneSpares` | `Spec => PruneSparesLive` | |
| `IndexerProofs!InTime` | `SeriesSpec => []SampledInTime` | |
| `IndexerProofs!CandlesHold` | `SeriesSpec => CandlesHoldStill` | |
| `SequenceProofs!SequenceIsTyped` | `Spec => []SeqType` | |
| `SequenceProofs!DoneIsLanded` | `Spec => []DoneMeansLanded` | `NoneRebuilt` |
| `SequenceProofs!NothingSentEarly` | `Spec => []SentInOrder` | `NoneRebuilt` |
| `SequenceProofs!OneDepositAClick` | `Spec => []DepositedOnce` | |

Nothing is assumed of the addresses that hold lamports, the gifts, or the pool. Two of the assumptions are about the world rather
than about types. `NoneRebuilt` says that no control builds its list anew while
keeping the statuses of the old one: `sequence_retry` does, and violates `DoneMeansLanded`. And
`MaxMarkets * INCREMENT <= MaxU64` says that there are never so many creations that the stored average
saturates at 2^64 - 1; with the increment of 10^9 in `config.rs` that takes 1.8 * 10^10 markets. A
saturated average no longer remembers what it left out, so the lower measure would be false.

### Markets

**`TypeCorrect`.** `TypeOK` says more than shapes: totals, counters and balances are naturals, so no
subtraction in the model underflows and no fee exceeds what it is cut from. It is inductive. Each group of
actions (subject, funding, trading, settlement, outside) has a step lemma; the record updates of the
market have lemmas of their own, and `FeeDueNat`, `ShareNat` rest on `SharesProofs` for the divisions.

**The counter.** `Moves` reduces every instruction to what it does at one address: nothing, one wallet joins,
one leaves, or the market is reaped at zero. From there `NeverOver` is inductive by itself: only an account
that is not there yet is ever counted. `CounterNeverShort` is not: when a market is reaped it says nothing
of contributions left behind, and `create_market` starts the next counter at 1. `CounterInv` adds
`StrandedOnlyIfAdopted`, which is the same bound at a counter of 0. Together they hold through every move: an
account that is not counted when it is created is one more in `adopted`.

**The promise.** `LifeInv` says of each address what its market's status means: no market, and nobody ever put
anything in or the subject is settled; funding, and every stake is exactly what went in; called off, and the
subject is settled and every stake still there is owed in full; settled, and on the subject's own
verdict. It is inductive given `TypeOK`. With it each instruction has one lemma (`…Promise`) that names the
step of `Crowdfund` it is, and `CollectFee`, gifts and requests are shown invisible. Reaping alone needs more: that
no more are left than came in unnoticed when the counter says nobody is, which is `CounterInv`.
`SiblingsAgreed`, `NeverBornAgain` and `FrozenBasis` need `LifeInv` only.

**The ledger.** A sum over wallets of unknown number has no recursive definition that the provers could unfold.
`Total` (in `Totals`, its lemmas in `SharesProofs`) is therefore the cardinality of the set of units the wallets hold: one element per wallet and
unit. What happens to it when one wallet's amount changes, or one wallet leaves, are facts on
cardinalities; that shares rounded down add up to no more than what is shared needs an induction over the
wallets, which `SetInduction` gives without an operator parameter: were the property to fail for some set of wallets,
it would fail for a smallest one. Three invariants follow, each inductive on top of the ones before.
`BooksInv` relates escrow, stakes, gifts and the history of payments, per market and wallet.
`ClaimsInv` says that once the fee is cut, and while the counter is above 0, the vault covers all claims still open, each rounded
down, and exceeds what their holders are entitled to by no more than gifts and 2 LP for each claim already
paid (`Dust`); once the counter is 0 the last claimer has swept it down to later gifts; and until the fee is cut the counter is above 0. `LedgerInv`
puts them together with `CounterInv`, `CounterNeverOver` and `LifeInv`, because the sweep goes by the counter: the one it is paid to is
the last there is unless one in `adopted` is still in, and that is the case `FairClaims` leaves open upwards.
The page's properties follow: `ShownIsPaid` from `BooksInv`, for any contributor; `WayOutOffered` from `CounterNeverOver` and
`FeeFreeOpen`, that a market without a fee settles with its claims open; and `OffersAccepted` from `LedgerInv`
and `AnswerInRange`: a check the page does not make itself (that escrow holds the stake, that the vault holds
the fee or the claim, that a divisor is not zero) is one that the books make good.

### Fee, tickets and page

**The fee.** With p the pool's value, s the supply, lp the position and c what was
contributed: `fee_lp <= lp * (r - c) / r` where `r = floor(lp * p / s)`, so the LP that stay are worth at
least `c`. `DivFloor`, `DivBound` and the product lemmas carry the nonlinear steps. `FeeKeepsRate` bounds the
same two floors from below as well.

**Tickets.** A transaction is a fold of its instructions over the state, and fails as a whole; tickets have one or
two, so `RunAll` is unrolled by showing that a function with the fold's two equations exists.
`TradeInv` keeps how a ticket was quoted: off which reserves, with which floor. The pool then pays what
the page estimates when it has not moved (`EstimateIs`), and no less than the floor when it has and the swap does not
fail. A sell merges no more than that floor and no more than it kept of the side sold, whatever the estimate was, so a merge has
both legs wherever its swap went through.

**Page reads.** `PageInv` has two parts beside the types: at most one read under way is live, and the
row shown is one the table held no later than the answer a live read carries, which is no later than the row there is now
(`Trails`). A later read is therefore never of an earlier row than what is shown. Nothing relates one row to another. The attempt to prove this showed that the `CASE` by which the
model read the page's view had overlapping arms; it is now the cascade of the code's early returns.

### Governance

**The ramp and the quote.** `FloorOnRamp` and `FloorMonotone` are about the curve for any activity. `QuoteIsFair`
adds time: the decay of an average over a longer time is no larger, however the time falls on whole
half-lives and the straight line within one. For the shift by n half-lives the proof needs `2^n` to be positive and
to double with n, and the provers know nothing of powers; it reads `2^n` as the number of subsets
of n things.

**The demand.** `ActivityMeasuresDemand` compares one stored number, decayed and bumped in place, with a sum
over all creations of what each weighs at its age; and `decay_market_ema` composed over two waits is not
the decay over both. What makes it provable is a weight per creation that the code's decay carries along.
- *From above* (`MostShare`) a creation weighs 5/8 per whole half-life and, r into the next one of
  length H, `8H² − 4Hr + r²` parts of `8H²`. With x for r/H this is 1 − x/2 + x²/8, above the e^(−x/2) that the
  straight lines of the code tend to when the waits get short, and it falls no faster than any of them laid end to end (`LineStep`), also
  across the end of a half-life, where it has come down to 5/8; a whole half-life, which halves what the code
  has stored, takes the weight no lower than 5/8 of what it was (`HalfLifeStep`).
- *From below* (`LeastShare`) it weighs what one decay over its whole age leaves; cutting the wait only
  leaves more.
- The weights are scaled by `8^K * 8H²` and `2^K * 2H` with K the half-lives there are, so that all of them are
  whole numbers (`MostScaled`, `LeastScaled`) and rounding is where the code rounds: at most two units per decay, which
  `WeightDecays`, `MostKept` and `LeastKept` account for. After 64 halvings a u64 has less than one
  unit left (`ForgottenByThen`), so the code's cut-off there costs no more than rounding does.
- `DemandInv` says `Measured`, that the average lies between the two sums, and `FloorsAnswer`, that each market's
  floor is at most the curve at the sum before it. A wait moves every term of the sum alike; a creation adds a
  term of full weight (`WeighedWithBirth`), which is where saturation would break it.

`Power` is defined by recursion on naturals. The library's theorem that such a function exists takes an
operator, so `PowersExist` shows it by finite approximations, and inductions are membership of a number in a
set closed under successor (`NumberInduction`).

**Sessions.** `CommitsAreCurrent` is inductive once the delegation is known not to lie ahead of the clock.
`AccountsTyped` is about the machines side by side: a behaviour of all is one of each, stretched
(`AccountsSpec => Spec /\ SessionSpec`), so each one's invariant carries over. This is the argument that
section 2 makes for runs of that shape, in one instance, as a proof.

### Account lists

What a handler reads of a market is a function of the state, and the lists are a function of the market, the signer and the
fee destination. So the only invariant is that fees go to a treasury (`DestinationStays`; `OtherTreasury`
says that there are two, or none could be given up); the rest is about the handlers' checks, in every state in which
the instruction is due, whether reachable or not.
- `…Built` gives a list's accounts by name. `NamedAt` does this for positions once; the sixteen lists are spelled
  out, since positions are what the builders and the program have to agree on.
- `…One` is about the checks alone: let two lists pass them that differ in one slot at most; then they
  do not differ. A fixed address has one value (`FixedOne`), a recorded one is a function of the market (`RecordedOne`), a
  market is given away by any address derived from it (`Injective`), and so on, slot by slot. So a stranger
  in a slot is refused because the client's own key is taken.
- Five instructions do not fix a slot by the others: the account a deposit is paid from or a refund or claim paid to, which may be
  any token account of the member, and the contribution that is redeemed, of which the handler reads the market and the
  contributor recorded in it. There the strangers themselves are looked at: each token account of a wallet among
  them is the derived one (`WalletToken`), each contribution the one at its address (`Shaped`).
- `…Stands` puts these together.

### Indexer

**The mirror.** `MirrorInv` carries a fact along every way data takes into the table: versions are in the order of
slots and confirmed up to `confirmed` (`ChainOrdered`), a notification names the slot of its version
(`TailTruthful`), a fetched version is followed by nothing from before the pass's slot
(`SnapshotHonest`), every version from before that slot of an account the snapshot lacks was closed since
(`AbsentClosed`), and a row stamped no later than the pass's slot holds a version no later than it, unless
the snapshot has the account (`OldRowsOld`). The first three make a row honest when it is written
(`RowsHonest`), the last two make a prune right; `NewsGetsIn` follows from `RowsHonest` and `TailTruthful`.

**The series.** `SeriesInv` says at each of the four places where a change of the pool has a slot beside it that
the slot `Fits` it. `CandlesHold` is about the step: a candle is read off the first and the last
slot captured in its second, which exist as least and greatest elements of a finite set, and
`insert_price` keeps the `captured_at` of a slot it overwrites, so only a change of some slot's price moves one.

### Sequences

`SeqType` has one part that is more than a type: while a list is being built there is room to record its
executions (`Room`). `LandInv` says what a call of `run` knows of its list: every step is yet to be
probed, or among those it has still to send, or has landed, and so has everything it showed as done or
reported. What it sends next is the front of what is left, whatever `packTx` puts into one
transaction, so all before it has landed. `OnceInv` counts tokens: a deposit of a list may still be
sent by one call, or is in one transaction given up on, or was executed once. No step makes a second token,
since a call that gives up on a transaction ends and each click on such a control has a list of its own.

### Only model-checked

- Liveness: `SettledMarketsDrain`, `PageCatchesUp`, `MirrorCatchesUp`, `SeriesCatchesUp` and `RetriedUntilDone`. Out of
  the prover's reach. Every invariant and every other action property the runs check is a theorem.

- What the lists' theorems say of markets other than the four of `AccountLists` rests on markets being told apart by
  their seeds alone.

## 5. Not modelled

- The MetaDAO vault and AMM, SPL token and the GPT oracle are external; what the code reads from them is an
  input, or, in `Trading`, the constant-product pool as the app's own arithmetic takes it to be.
- Byte layouts, discriminators, instruction dispatch, and the encodings of CPIs and SDK instructions: stateless
  translations whose correctness is a matter of offsets, which the repository's own tests pin.
- `InitConfig`'s account list (sent by a deployment script), the SDK's decoders, Jupiter swaps into SOL
  and redemption of single legs, and the Rust mirror of the builders.
- The indexer's JSON rendering, query parsing and `ratelimit.rs`, a token bucket per address.
- Charts, price grid, formatting, layout, wallet adapters; React's timing within one click handler.
- Withdrawals of the group panel beyond the list of claims.
- Scripts and the documentation site; the latter's text is what the violation runs quote.
- `close_market` leaves a delegated session behind (hazard at `er.rs:98`). The model reaches it, but no
  text says what should happen, so no property is stated.

## 6. Plan

1. *(done)* `Shares`, `Markets`, `MarketLedger`, their runs, type and counter proofs.
2. *(done)* `FeeMath`, `LiquidityFloor`, `Governance`, `ErSession`; `IndexerMirror` with its proofs.
3. *(done)* `Crowdfund` and the refinement; `AccountLists`, `MarketViews`; `Trading`, `PageReads`,
   `StepLists`, `ActionSequence`, `PriceSeries`.
4. *(done)* `LifeInv`, the refinement, and the properties that follow from it; the proofs of
   sessions and of the series.
5. *(done)* `LedgerProofs`, `SequenceProofs`; the quote, tickets, page reads and candles.
6. *(done)* The checks of an instruction as definitions of their own, and `OffersAccepted` from them.
7. *(done)* `ActivityMeasuresDemand`, with sums and powers in `Totals` and their lemmas in `SharesProofs`.
8. *(done)* `ListsStand` and `StrangersRefused` in `ListsProofs`.
9. *(done)* Lamports on contribution addresses (`adopted`) in every property and proof of `Markets`; `PoolNotEmpty`; pages
   off a table whose rows may go back; tickets without the estimate's root.
10. More of the app and the SDK: `marketView.ts` and `indexer.ts` beyond offers and shares, the group panel's
   withdrawals, and `InitConfig`'s list, if the app comes to send it.
