------------------------------- MODULE StepLists -------------------------------
(***************************************************************************)
(* The step lists the web app's controls build and hand to the action      *)
(* sequence: activation, creation of a whole question, and deposits and    *)
(* withdrawals across the outcomes of a question.  A step says which       *)
(* instruction it sends for which outcome, what it takes of a transaction, *)
(* and whether it is skipped when the account it checks exists.            *)
(*                                                                         *)
(* Compute units are in hundreds of thousands.                             *)
(***************************************************************************)
EXTENDS Naturals, Sequences, SequencesExt, FiniteSets

CONSTANTS COMPOSE_COMPUTE_UNITS, ACTIVATE_COMPUTE_UNITS, ADD_LIQUIDITY_COMPUTE_UNITS,
          DEFAULT_TX_COMPUTE_UNITS

Step(does, o, units, probed) == [does |-> does, o |-> o, units |-> units, probed |-> probed]

\* `total` in `n` shares, one unit more for as many of the first as it takes.
UniformSplit(total, n) ==
    [i \in 1..n |-> (total \div n) + IF i <= total % n THEN 1 ELSE 0]

\* buildActivateSequence: what composeMarketInstructions makes, then activate.
BuildActivateSequence(o) ==
    << Step("question", o, COMPOSE_COMPUTE_UNITS, TRUE),
       Step("vault", o, COMPOSE_COMPUTE_UNITS, TRUE),
       Step("amm", o, COMPOSE_COMPUTE_UNITS, TRUE),
       Step("activate", o, ACTIVATE_COMPUTE_UNITS, TRUE) >>

\* buildCreateAllSteps: a subject, and a market for each option.
CreateAllOutcomeMarkets(optionsCount) ==
    [k \in 1..optionsCount |-> Step("create", k - 1, DEFAULT_TX_COMPUTE_UNITS, TRUE)]

BuildCreateAllSteps(optionsCount) ==
    << Step("subject", 0, DEFAULT_TX_COMPUTE_UNITS, TRUE) >>
        \o CreateAllOutcomeMarkets(optionsCount)

(***************************************************************************)
(* Deposits and withdrawals across a question's outcomes.  An entry is one *)
(* outcome as the page last read it, with its share of the deposit.        *)
(***************************************************************************)
BuildContribute(entry) == Step("contribute", entry.o, DEFAULT_TX_COMPUTE_UNITS, FALSE)
BuildAddLiquidity(entry) == Step("add", entry.o, ADD_LIQUIDITY_COMPUTE_UNITS, FALSE)

HasAmount(entry) == entry.amount > 0

BuildBulkContributeSteps(entries) ==
    [k \in DOMAIN SelectSeq(entries, HasAmount) |->
        BuildContribute(SelectSeq(entries, HasAmount)[k])]

BuildBulkAddLiquiditySteps(entries) ==
    [k \in DOMAIN SelectSeq(entries, HasAmount) |->
        BuildAddLiquidity(SelectSeq(entries, HasAmount)[k])]

\* buildBulkClaimLpSteps, one for every outcome whose fee was collected.
BuildBulkClaimLpSteps(outcomes) ==
    [k \in DOMAIN outcomes |-> Step("claim", outcomes[k], DEFAULT_TX_COMPUTE_UNITS, FALSE)]

\* Will this deposit have the outcome at its floor?
ReachesFloor(entry) == entry.total_contributed + entry.amount >= entry.min_liquidity

OutcomesReadyToActivate(entries, oracleTerminal) ==
    IF oracleTerminal THEN <<>> ELSE SelectSeq(entries, ReachesFloor)

BuildBulkActivateSteps(entries) ==
    FlattenSeq([k \in DOMAIN entries |-> BuildActivateSequence(entries[k].o)])

\* What a deposit of `total` is for each of the outcomes that take one.
Shared(depositable, total) ==
    LET share == UniformSplit(total, Len(depositable))
    IN  [k \in DOMAIN depositable |-> [amount |-> share[k]] @@ depositable[k]]

IsFunding(entry) == entry.status = "Funding"
IsActive(entry)  == entry.status = "Active"

\* GroupLiquidityPanel: contributions, liquidity for the active outcomes, and
\* the activation of every outcome that reaches its floor.
OnDeposit(depositable, total, oracleTerminal) ==
    LET entries == Shared(depositable, total)
        funding == SelectSeq(entries, IsFunding)
    IN  BuildBulkContributeSteps(funding)
        \o BuildBulkAddLiquiditySteps(SelectSeq(entries, IsActive))
        \o BuildBulkActivateSteps(OutcomesReadyToActivate(funding, oracleTerminal))

\* CategoricalCard: the same for a question all of whose outcomes are in
\* Funding, on a page that has not read the oracle.
FundGroup(funding, total) == OnDeposit(funding, total, FALSE)

(***************************************************************************)
(* The chain (external)                                                    *)
(***************************************************************************)
\* What has to be there before a step succeeds, of the same outcome.
Reads(does) ==
    CASE does = "vault"    -> {"question"}
      [] does = "amm"      -> {"vault"}
      [] does = "activate" -> {"amm", "contribute"}
      [] does = "create"   -> {"subject"}
      [] OTHER             -> {}

\* The steps of `steps` that step `i` needs, those it must precede, and the
\* steps as a flow that `caller` runs.  `sized` are the bytes of each step.
Needs(steps, i) ==
    {j \in DOMAIN steps : steps[j].does \in Reads(steps[i].does)
                         /\ (steps[j].o = steps[i].o \/ steps[j].does = "subject")}

Bars(steps, i) ==
    {j \in DOMAIN steps : steps[i].does = "contribute" /\ steps[j].does = "activate"
                         /\ steps[j].o = steps[i].o}

AsFlow(steps, caller, batchable, sized(_)) ==
    [caller     |-> caller,
     batchable  |-> batchable,
     units      |-> [i \in DOMAIN steps |-> steps[i].units],
     bytes      |-> [i \in DOMAIN steps |-> sized(steps[i])],
     needs      |-> [i \in DOMAIN steps |-> Needs(steps, i)],
     bars       |-> [i \in DOMAIN steps |-> Bars(steps, i)],
     unprobed   |-> {i \in DOMAIN steps : ~steps[i].probed},
     repeatable |-> {i \in DOMAIN steps : steps[i].does \in {"contribute", "add"}}]
=============================================================================
