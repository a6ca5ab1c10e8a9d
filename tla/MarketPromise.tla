---------------------------- MODULE MarketPromise ----------------------------
(***************************************************************************)
(* Markets implements Crowdfund: what a wallet is promised, read off the   *)
(* program's accounts.                                                     *)
(***************************************************************************)
EXTENDS Markets

\* A market's address is empty before its first stake and after its last.
PhaseOf(o) ==
    CASE market[o].status = "None" /\ (\A u \in Users : ledger[o][u].sol_in = 0) -> "None"
      [] market[o].status = "None" /\ (\E u \in Users : ledger[o][u].sol_in > 0) -> "Reaped"
      [] market[o].status = "Funding"                       -> "Funding"
      [] market[o].status = "Active"                        -> "Trading"
      [] market[o].status = "Cancelled"                     -> "Refunding"
      [] market[o].status \in Settled /\ question[o].yes = 1 -> "Yes"
      [] market[o].status \in Settled /\ question[o].yes = 0 -> "No"

\* The answer is known once the subject is terminal.
AnswerGiven == IF Terminal THEN {subject.resolved_option} ELSE {}

PhaseNow == [o \in Outcomes |-> PhaseOf(o)]

\* SOL that went into the escrow with a wallet's contributions, and back out
\* of it by a refund.
PaidIn   == [o \in Outcomes |-> [u \in Users |-> ledger[o][u].sol_in]]
PaidBack == [o \in Outcomes |-> [u \in Users |-> ledger[o][u].sol_out]]

Promise == INSTANCE Crowdfund WITH
    Answers   <- Replies,
    Amounts   <- Deposits,
    answer    <- AnswerGiven,
    phase     <- PhaseNow,
    members   <- live,
    paid      <- PaidIn,
    back      <- PaidBack,
    unnoticed <- adopted

\* The program keeps the promise: every transaction is a step Crowdfund allows
\* or one it cannot see.  No market opens or begins once the answer is known,
\* all settle on that answer, a refund is the whole stake, and a market is
\* reaped when its contributors are gone, but no more than came in at an
\* address that held lamports, and never again begun.
PromiseKept == Promise!Spec
=============================================================================
