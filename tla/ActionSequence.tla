---------------------------- MODULE ActionSequence ----------------------------
(***************************************************************************)
(* The web app's multi-transaction sequences: useActionSequence, the send  *)
(* path under it (data/send.ts) and the controls that call it.  A sequence *)
(* is a list of steps; steps are packed into transactions, signed, relayed *)
(* and confirmed in order.  React handlers await between every two calls,  *)
(* so each call is a step, other transactions land in between, and, since  *)
(* a control is only disabled while a step is marked as running, a second  *)
(* call of run may begin before the first has ended.                       *)
(*                                                                         *)
(* Wallet, indexer and cluster are external: a wallet may refuse, a call   *)
(* may fail, a transaction that was not confirmed in time may land later,  *)
(* once, or never.                                                         *)
(***************************************************************************)
EXTENDS Naturals, Functions, FiniteSetsExt

CONSTANTS
    Flows,               \* the step lists controls build, and how they call run
    Runs,                \* calls of run that may be under way at once
    MAX_TX_COMPUTE_UNITS, PACKET_DATA_SIZE,  \* what one transaction holds
    MAX_BATCH_SIGN_TXS,  \* transactions signed in one approval, at most
    MaxLists,            \* bound on step lists built
    MaxFailures          \* bound on refusals, failed calls, timeouts and impatient clicks

\* How a control calls run: with the list it keeps (ActivateControl,
\* LaunchCta), with a new list every time but no start index
\* (CreateMarketForm), with a new list and start index 0 (GroupLiquidityPanel,
\* FundGroupCta).
Callers == {"InPlace", "Rebuilt", "Fresh"}

ASSUME SequenceAssumption ==
    /\ \A f \in Flows :
          /\ f.caller \in Callers
          /\ f.batchable \in BOOLEAN
          /\ IsFiniteSet(DOMAIN f.units)
          /\ f.units \in [1..Cardinality(DOMAIN f.units) -> Nat]
          /\ f.bytes \in [DOMAIN f.units -> Nat]
          /\ f.needs \in [DOMAIN f.units -> SUBSET DOMAIN f.units]
          /\ f.bars \in [DOMAIN f.units -> SUBSET DOMAIN f.units]
          /\ f.unprobed \subseteq DOMAIN f.units
          /\ f.repeatable \subseteq f.unprobed
    /\ IsFiniteSet(Runs)
    /\ MAX_TX_COMPUTE_UNITS \in Nat /\ PACKET_DATA_SIZE \in Nat /\ MAX_BATCH_SIGN_TXS \in Nat
    /\ MaxLists \in Nat \ {0} /\ MaxFailures \in Nat

VARIABLES
    flow,      \* the control at hand
    times,     \* how often each step of each list was executed; list 0: by others
    statuses,  \* StepStatus of each step, React state
    list,      \* the list on display
    run,       \* where each call of run is, with its locals
    orphans,   \* transactions given up on that may yet land
    failures,  \* refusals, failed calls, timeouts and impatient clicks so far
    finished,  \* history: lists some run of which called onDone
    overlap    \* history: lists still being run when the one on display began

vars == <<flow, times, statuses, list, run, orphans, failures, finished, overlap>>

Steps == DOMAIN flow.units
N     == Cardinality(Steps)
Lists == 0..MaxLists

\* A call of run: `pc` is where it is, `seen` the statuses its closure holds,
\* `of` the list it runs, `at` the step it probes next, `rest` the steps it
\* has still to send, the current batch included, `fate` that of the
\* transaction just relayed.
Idle == [pc |-> "idle"]

AllPending == [i \in Steps |-> "pending"]

Init ==
    /\ flow \in Flows
    /\ times = [l \in Lists |-> [i \in Steps |-> 0]]
    /\ statuses = AllPending
    /\ list = 0
    /\ run = [r \in Runs |-> Idle]
    /\ orphans = {}
    /\ failures = 0
    /\ finished = {} /\ overlap = {}

Busy    == \E i \in Steps : statuses[i] = "running"
AllDone == \A i \in Steps : statuses[i] = "done"
Marked(idxs, kind) == [i \in Steps |-> IF i \in idxs THEN kind ELSE statuses[i]]

At(r, pc)   == run[r].pc = pc
Moves(r, to) == run' = [run EXCEPT ![r] = to]
Ends(r)     == Moves(r, Idle)

\* One more thing goes wrong.
Fails == failures < MaxFailures /\ failures' = failures + 1

(***************************************************************************)
(* The chain (external)                                                    *)
(***************************************************************************)
\* A list that is built anew names accounts of its own (a new subject), the
\* others name accounts of markets that exist.
Exists(l, i) ==
    \E k \in IF flow.caller = "Rebuilt" THEN {l} ELSE Lists : times[k][i] > 0

Landed(l, i) == IF i \in flow.repeatable THEN times[l][i] > 0 ELSE Exists(l, i)

\* A list that only claims is the same list again when it is built again.
SameAccounts == flow.caller = "InPlace" \/ (flow.caller = "Fresh" /\ flow.repeatable = {})

\* Would a transaction with the steps `batch` of list `l` succeed?  Creating
\* an account twice reverts, and so does claiming twice, a
\* step that lacks what it reads, or one that finds its market moved on.
Executable(l, batch) ==
    \A i \in batch :
        /\ i \in flow.repeatable \/ ~Exists(l, i)
        /\ \A j \in flow.needs[i] : Exists(l, j) \/ (j \in batch /\ j < i)
        /\ \A j \in flow.bars[i] : ~Exists(l, j)

Executed(l, batch) ==
    [times EXCEPT ![l] = [i \in Steps |-> @[i] + IF i \in batch THEN 1 ELSE 0]]

(***************************************************************************)
(* packTx.ts                                                               *)
(***************************************************************************)
\* Compute units and bytes of the steps `idxs` fit into one transaction.
Fits(idxs) ==
    /\ SumFunctionOnSet(flow.units, idxs) <= MAX_TX_COMPUTE_UNITS
    /\ SumFunctionOnSet(flow.bytes, idxs) <= PACKET_DATA_SIZE

\* The first transaction packSteps makes of the steps `pending`: as many of
\* them, in order, as fit, and one that fits nowhere by itself.
Batch(pending) ==
    {Min(pending)} \cup {i \in pending : Fits({j \in pending : j <= i})}

BatchCount(pending) ==
    LET count[S \in SUBSET pending] == IF S = {} THEN 0 ELSE 1 + count[S \ Batch(S)]
    IN  count[pending]

(***************************************************************************)
(* useActionSequence.ts                                                    *)
(***************************************************************************)
\* Does a run take over the statuses of an earlier one?
Resumes == flow.caller # "Fresh"

\* initialRunState: where a run begins and the statuses it begins with.
Begin(prev) == Min({i \in Steps : prev[i] # "done"} \cup {N + 1})

Cleared(prev) ==
    [i \in Steps |-> IF i >= Begin(prev) /\ prev[i] = "error" THEN "pending" ELSE prev[i]]

\* The submit handler: the button is enabled unless a step is running, and
\* the handler calls the `run` of this render when the list is built.  A
\* click while an earlier call is under way is an impatient one.
Click(r) ==
    /\ At(r, "idle")
    /\ ~Busy
    /\ flow.caller = "Fresh" \/ ~AllDone
    /\ SameAccounts
         \/ list + Cardinality({q \in Runs : At(q, "building")}) < MaxLists
    /\ IF \A q \in Runs : At(q, "idle") THEN UNCHANGED failures ELSE Fails
    /\ Moves(r, [pc |-> "building", seen |-> statuses])
    /\ UNCHANGED <<flow, times, statuses, list, orphans, finished, overlap>>

BuildFails(r) ==
    /\ At(r, "building")
    /\ Fails
    /\ Ends(r)
    /\ UNCHANGED <<flow, times, statuses, list, orphans, finished, overlap>>

\* The list is there and run is called: its guard looks at the statuses of
\* the click, which the button has looked at before.
Start(r) ==
    LET l    == IF SameAccounts THEN 1 ELSE list + 1
        prev == IF Resumes THEN run[r].seen ELSE AllPending
    IN  /\ At(r, "building")
        /\ list' = l
        /\ statuses' = Cleared(prev)
        /\ Moves(r, [pc |-> "probing", of |-> l, at |-> Begin(prev), rest |-> {}])
        /\ overlap' = {run[q].of : q \in {q \in Runs : ~At(q, "idle") /\ ~At(q, "building")}}
        /\ UNCHANGED <<flow, times, orphans, failures, finished>>

\* The wallet went away while the list was built.
WalletGone(r) ==
    /\ At(r, "building")
    /\ Fails
    /\ Ends(r)
    /\ statuses' = AllPending
    /\ UNCHANGED <<flow, times, list, orphans, finished, overlap>>

\* An account that could not be looked up counts as there (mutant).
SkipsUnheard(l, i, heard) == i \notin flow.unprobed /\ (heard => Landed(l, i))

\* No step is skipped (mutant).
SkipsNone(l, i, heard) == FALSE

\* Is step `i` taken for landed?  `heard` is false if the lookup failed.
Skips(l, i, heard) == i \notin flow.unprobed /\ heard /\ Landed(l, i)

Probe(r) ==
    LET me == run[r]
    IN  /\ At(r, "probing") /\ me.at <= N
        /\ \E heard \in BOOLEAN :
              /\ IF heard THEN UNCHANGED failures ELSE Fails /\ me.at \notin flow.unprobed
              /\ IF Skips(me.of, me.at, heard)
                 THEN /\ statuses' = Marked({me.at}, "done")
                      /\ Moves(r, [me EXCEPT !.at = @ + 1])
                 ELSE /\ Moves(r, [me EXCEPT !.at = @ + 1, !.rest = @ \cup {me.at}])
                      /\ UNCHANGED statuses
        /\ UNCHANGED <<flow, times, list, orphans, finished, overlap>>

\* Sends the first batch of the steps `left` next, shown with `shown`; when
\* nothing is left, onDone.
Proceed(r, left, shown) ==
    IF left = {}
    THEN /\ Ends(r)
         /\ statuses' = shown
         /\ finished' = finished \cup {run[r].of}
    ELSE /\ Moves(r, [pc |-> "relaying", of |-> run[r].of, rest |-> left])
         /\ statuses' = [i \in Steps |-> IF i \in Batch(left) THEN "running" ELSE shown[i]]
         /\ UNCHANGED finished

\* All steps are probed: several transactions are signed in one approval if
\* the wallet can and they are not too many.
Pack(r) ==
    LET me == run[r]
    IN  /\ At(r, "probing") /\ me.at = N + 1
        /\ IF flow.batchable /\ BatchCount(me.rest) \in 2..MAX_BATCH_SIGN_TXS
           THEN /\ Moves(r, [pc |-> "signing", of |-> me.of, rest |-> me.rest])
                /\ UNCHANGED <<statuses, finished>>
           ELSE Proceed(r, me.rest, statuses)
        /\ UNCHANGED <<flow, times, list, orphans, failures, overlap>>

SignAll(r) ==
    /\ At(r, "signing")
    /\ Proceed(r, run[r].rest, statuses)
    /\ UNCHANGED <<flow, times, list, orphans, failures, overlap>>

\* setError for the steps `idxs`, and the run returns.
GiveUp(r, idxs) == Ends(r) /\ statuses' = Marked(idxs, "error")

SignAllFails(r) ==
    /\ At(r, "signing")
    /\ Fails
    /\ GiveUp(r, run[r].rest)
    /\ UNCHANGED <<flow, times, list, orphans, finished, overlap>>

(***************************************************************************)
(* send.ts                                                                 *)
(***************************************************************************)
Current(r)  == Batch(run[r].rest)
Orphaned(r) == orphans \cup {[of |-> run[r].of, batch |-> Current(r), nth |-> failures + 1]}

\* Signed, if it was not before, and accepted by the indexer.
Relay(r) ==
    /\ At(r, "relaying")
    /\ Moves(r, [pc |-> "confirming", of |-> run[r].of, rest |-> run[r].rest, fate |-> "sent"])
    /\ UNCHANGED <<flow, times, statuses, list, orphans, failures, finished, overlap>>

\* Refused by the wallet or by simulation, or the answer of the indexer was
\* lost: then the transaction is on its way, and nobody knows.
RelayFails(r) ==
    /\ At(r, "relaying")
    /\ \/ Fails /\ orphans' \in {orphans, Orphaned(r)}
       \/ ~Executable(run[r].of, Current(r)) /\ UNCHANGED <<failures, orphans>>
    /\ GiveUp(r, Current(r))
    /\ UNCHANGED <<flow, times, list, finished, overlap>>

\* The cluster executes the transaction, all of its steps or none.
Land(r) ==
    LET me == run[r]
    IN  /\ At(r, "confirming") /\ me.fate = "sent"
        /\ IF Executable(me.of, Current(r))
           THEN /\ times' = Executed(me.of, Current(r))
                /\ Moves(r, [me EXCEPT !.fate = "landed"])
           ELSE Moves(r, [me EXCEPT !.fate = "failed"]) /\ UNCHANGED times
        /\ UNCHANGED <<flow, statuses, list, orphans, failures, finished, overlap>>

\* confirmSignature returns: the batch is done, and the next one is sent.
Confirm(r) ==
    /\ At(r, "confirming") /\ run[r].fate = "landed"
    /\ Proceed(r, run[r].rest \ Current(r), Marked(Current(r), "done"))
    /\ UNCHANGED <<flow, times, list, orphans, failures, overlap>>

ConfirmFails(r) ==
    /\ At(r, "confirming") /\ run[r].fate = "failed"
    /\ GiveUp(r, Current(r))
    /\ UNCHANGED <<flow, times, list, orphans, failures, finished, overlap>>

\* A transaction that timed out is relayed again (mutant).
RelayAgain(r) ==
    /\ Moves(r, [pc |-> "relaying", of |-> run[r].of, rest |-> run[r].rest])
    /\ UNCHANGED <<statuses, finished>>

\* The run goes on with the batch after one that timed out (mutant).
CarryOn(r) == Proceed(r, run[r].rest \ Current(r), Marked(Current(r), "error"))

\* What a run does about a transaction that timed out.
OnTimeout(r) == GiveUp(r, Current(r)) /\ UNCHANGED finished

\* Not confirmed before the deadline, whether it landed or not.
Timeout(r) ==
    /\ At(r, "confirming") /\ run[r].fate # "failed"
    /\ Fails
    /\ orphans' = IF run[r].fate = "sent" THEN Orphaned(r) ELSE orphans
    /\ OnTimeout(r)
    /\ UNCHANGED <<flow, times, list, overlap>>

(***************************************************************************)
(* Everyone else                                                           *)
(***************************************************************************)
\* A transaction given up on lands after all, or expires.
LandLate(t) ==
    /\ orphans' = orphans \ {t}
    /\ times' \in {times} \cup
          IF Executable(t.of, t.batch) THEN {Executed(t.of, t.batch)} ELSE {}
    /\ UNCHANGED <<flow, statuses, list, run, failures, finished, overlap>>

\* Another keeper takes a permissionless step of the same market.
OtherKeeper(i) ==
    /\ flow.caller # "Rebuilt"
    /\ i \notin flow.unprobed /\ Executable(0, {i})
    /\ times' = Executed(0, {i})
    /\ UNCHANGED <<flow, statuses, list, run, orphans, failures, finished, overlap>>

Goes(r) ==
    \/ UNCHANGED failures /\ Click(r)
    \/ Start(r)
    \/ UNCHANGED failures /\ Probe(r)
    \/ Pack(r)
    \/ SignAll(r)
    \/ Relay(r)
    \/ Land(r)
    \/ Confirm(r)
    \/ ConfirmFails(r)

GoesWrong(r) ==
    \/ Click(r)
    \/ BuildFails(r)
    \/ WalletGone(r)
    \/ Probe(r)
    \/ SignAllFails(r)
    \/ RelayFails(r)
    \/ Timeout(r)

Next ==
    \/ \E r \in Runs : Goes(r) \/ GoesWrong(r)
    \/ \E t \in orphans : LandLate(t)
    \/ \E i \in Steps : OtherKeeper(i)

\* Calls return and the user comes back to a button that is enabled.
\* Nothing is owed to a transaction that was given up on.
Fairness == \A r \in Runs : WF_vars(Goes(r))

Spec     == Init /\ [][Next]_vars
FairSpec == Spec /\ Fairness

(***************************************************************************)
(* Properties                                                              *)
(***************************************************************************)
\* A step shown as done has landed, for the list on display or for one that
\* was still being run when that list was begun: no step is ticked off, and
\* skipped by a later run, on the strength of another list's account.  And
\* when a run reports success, every step of its list has landed, the ones it
\* skipped and the ones another run sent included.
DoneMeansLanded ==
    /\ \A i \in Steps : statuses[i] = "done" => \E l \in {list} \cup overlap : Landed(l, i)
    /\ \A l \in finished, i \in Steps : Landed(l, i)

\* A click deposits once: however late a transaction lands and whatever else
\* was clicked meanwhile, no deposit of one list is executed twice.
DepositedOnce ==
    \A l \in Lists \ {0} : \A i \in flow.repeatable : flow.caller = "Fresh" => times[l][i] <= 1

\* A transaction is only sent when everything the run's earlier transactions
\* were to create is there.
SentInOrder ==
    \A r \in Runs : run[r].pc \in {"relaying", "confirming"} =>
        \A i \in Steps : i < Min(run[r].rest) => Landed(run[r].of, i)

\* A list that is kept and retried gets through: whatever was refused, lost,
\* late or done by somebody else, everything lands in the end and is shown
\* to have landed.
RetriedUntilDone == flow.caller = "InPlace" => <>[]AllDone
=============================================================================
