--------------------------- MODULE MCActionSequence ---------------------------
(***************************************************************************)
(* Instances of ActionSequence for TLC, made by the builders of StepLists. *)
(***************************************************************************)
EXTENDS ActionSequence, StepLists

\* Bytes of a step in a transaction, in hundreds: a question's or a vault's
\* accounts are few, a market's and a claim's many.
Sized(step) ==
    CASE step.does \in {"create", "claim", "activate"} -> 5
      [] OTHER -> 2

Flow(steps, caller, batchable) == AsFlow(steps, caller, batchable, Sized)

Activate == Flow(BuildActivateSequence(0), "InPlace", TRUE)

\* Two outcomes in Funding, the first of which this deposit takes to its floor.
TwoInFunding ==
    << [o |-> 0, status |-> "Funding", total_contributed |-> 4, min_liquidity |-> 5],
       [o |-> 1, status |-> "Funding", total_contributed |-> 0, min_liquidity |-> 5] >>
Deposit == Flow(FundGroup(TwoInFunding, 3), "Fresh", TRUE)

\* An outcome in Funding that stays below its floor and an active one, and a
\* wallet that signs one transaction at a time.
FundingAndActive ==
    << [o |-> 0, status |-> "Funding", total_contributed |-> 4, min_liquidity |-> 9],
       [o |-> 1, status |-> "Active", total_contributed |-> 9, min_liquidity |-> 5] >>
DepositLate == Flow(OnDeposit(FundingAndActive, 2, FALSE), "Fresh", FALSE)

\* One claim to each of two outcomes, in one transaction.
Withdraw == Flow(BuildBulkClaimLpSteps(<<0, 1>>), "Fresh", TRUE)

KeptAndFresh == {Activate, Deposit, DepositLate, Withdraw}

\* A subject and two markets, which take two transactions.
RebuiltOnly == {Flow(BuildCreateAllSteps(2), "Rebuilt", TRUE)}
=============================================================================
