--------------------------- MODULE IndexerMirror ---------------------------
(***************************************************************************)
(* The indexer's mirror of the program's accounts (src/indexer): a table   *)
(* of rows fed by two sources that know nothing of one another.  The tail  *)
(* is a websocket that reports writes, late and perhaps not at all, and    *)
(* never a close.  The reconcile pass asks for the slot, then for a        *)
(* snapshot of all accounts, upserts them one by one and prunes what the   *)
(* snapshot lacks.  Both go through an upsert gated by slots.              *)
(*                                                                         *)
(* The chain is external.  An account is the sequence of versions it went  *)
(* through; its data is abstracted to the number of the version.  Versions *)
(* of the slot being built are not visible until the slot is confirmed.    *)
(***************************************************************************)
EXTENDS Naturals, Sequences

CONSTANTS
    Accounts,     \* addresses the program owns accounts at, over time
    MaxVersions,  \* bound on the versions of an account
    MaxSlot,      \* bound on the slots
    MaxTail,      \* bound on the notifications under way
    MaxRestarts   \* bound on the crashes of the indexer

ASSUME MirrorAssumption ==
    /\ MaxVersions \in Nat /\ MaxSlot \in Nat /\ MaxTail \in Nat /\ MaxRestarts \in Nat

VARIABLES
    slot,       \* the last confirmed slot
    chain,      \* each account's versions, those of the next slot included
    confirmed,  \* how many versions of each account are confirmed
    tail,       \* websocket notifications under way, oldest first
    rows,       \* the table market_accounts
    pass,       \* the reconcile pass under way
    restarts    \* crashes so far

vars == <<slot, chain, confirmed, tail, rows, pass, restarts>>

Version == [slot : Nat, open : BOOLEAN]
Note    == [account : Accounts, version : Nat \ {0}, slot : Nat]
Row     == [version : Nat \ {0}, slot : Nat]

NoRow == [version |-> 0, slot |-> 0]

\* Between passes; `found` is the version of each account in the snapshot,
\* 0 if it lacks the account, and `todo` what is still to be upserted.
Asleep == [phase |-> "Asleep", slot |-> 0, found |-> [a \in Accounts |-> 0], todo |-> {}]

Pass == [phase : {"Asleep", "SlotRead", "Fetched"}, slot : Nat,
         found : [Accounts -> Nat], todo : SUBSET Accounts]

TypeOK ==
    /\ slot \in Nat
    /\ chain \in [Accounts -> Seq(Version)]
    /\ confirmed \in [Accounts -> Nat]
    /\ tail \in Seq(Note)
    /\ rows \in [Accounts -> Row \cup {NoRow}]
    /\ pass \in Pass
    /\ restarts \in Nat

Init ==
    /\ slot = 0
    /\ chain = [a \in Accounts |-> <<>>]
    /\ confirmed = [a \in Accounts |-> 0]
    /\ tail = <<>>
    /\ rows = [a \in Accounts |-> NoRow]
    /\ pass = Asleep
    /\ restarts = 0

(***************************************************************************)
(* The chain                                                               *)
(***************************************************************************)
Open(a) == chain[a] # <<>> /\ chain[a][Len(chain[a])].open

\* A transaction creates account `a` or changes it.  The websocket may miss
\* it.
Write(a) ==
    LET note == [account |-> a, version |-> Len(chain[a]) + 1, slot |-> slot + 1]
    IN  /\ Len(chain[a]) < MaxVersions
        /\ chain' = [chain EXCEPT ![a] = Append(@, [slot |-> slot + 1, open |-> TRUE])]
        /\ \/ Len(tail) < MaxTail /\ tail' = Append(tail, note)
           \/ UNCHANGED tail
        /\ UNCHANGED <<slot, confirmed, rows, pass, restarts>>

\* A transaction closes account `a`: it is no longer the program's, and the
\* websocket reports nothing.
Close(a) ==
    /\ Open(a)
    /\ Len(chain[a]) < MaxVersions
    /\ chain' = [chain EXCEPT ![a] = Append(@, [slot |-> slot + 1, open |-> FALSE])]
    /\ UNCHANGED <<slot, confirmed, tail, rows, pass, restarts>>

Confirm ==
    /\ slot < MaxSlot
    /\ slot' = slot + 1
    /\ confirmed' = [a \in Accounts |-> Len(chain[a])]
    /\ UNCHANGED <<chain, tail, rows, pass, restarts>>

\* The version of `a` that a confirmed read returns, 0 if it is not open.
Visible(a) ==
    IF confirmed[a] > 0 /\ chain[a][confirmed[a]].open THEN confirmed[a] ELSE 0

(***************************************************************************)
(* The table                                                               *)
(***************************************************************************)
\* Only what is newer by slot (mutant).
AcceptsLater(row, s) == row = NoRow \/ row.slot < s

\* May data stamped with slot `s` replace `row`?
Accepts(row, s) == row = NoRow \/ row.slot <= s

\* The table after upsert_account.
Upserted(a, v, s) ==
    IF Accepts(rows[a], s) THEN [rows EXCEPT ![a] = [version |-> v, slot |-> s]] ELSE rows

\* The pipeline handles one notification.  An upsert that fails is logged
\* and forgotten.
Deliver ==
    /\ tail # <<>>
    /\ Head(tail).slot <= slot
    /\ rows' \in {rows, Upserted(Head(tail).account, Head(tail).version, Head(tail).slot)}
    /\ tail' = Tail(tail)
    /\ UNCHANGED <<slot, chain, confirmed, pass, restarts>>

(***************************************************************************)
(* The reconcile pass                                                      *)
(***************************************************************************)
ReadSlot ==
    /\ pass.phase = "Asleep"
    /\ pass' = [pass EXCEPT !.phase = "SlotRead", !.slot = slot]
    /\ UNCHANGED <<slot, chain, confirmed, tail, rows, restarts>>

Fetch ==
    /\ pass.phase = "SlotRead"
    /\ pass' = [pass EXCEPT !.phase = "Fetched",
                            !.found = [a \in Accounts |-> Visible(a)],
                            !.todo = {a \in Accounts : Visible(a) # 0}]
    /\ UNCHANGED <<slot, chain, confirmed, tail, rows, restarts>>

\* The slot asked for when the row is written (mutant).
StampNow == slot

\* The slot that what the snapshot holds is stamped with.
Stamp == pass.slot

PersistOk(a) ==
    /\ pass.phase = "Fetched" /\ a \in pass.todo
    /\ rows' = Upserted(a, pass.found[a], Stamp)
    /\ pass' = [pass EXCEPT !.todo = @ \ {a}]
    /\ UNCHANGED <<slot, chain, confirmed, tail, restarts>>

\* The failure is logged; the account counts as present all the same.
PersistFails(a) ==
    /\ pass.phase = "Fetched" /\ a \in pass.todo
    /\ pass' = [pass EXCEPT !.todo = @ \ {a}]
    /\ UNCHANGED <<slot, chain, confirmed, tail, rows, restarts>>

\* Whatever the snapshot lacks (mutant), and nothing (mutant).
AbsentAnyhow(a) == pass.found[a] = 0
NeverAbsent(a)  == FALSE

\* Is the row of `a` one that the snapshot proves closed?
Absent(a) == pass.found[a] = 0 /\ rows[a].slot <= pass.slot

Prune ==
    /\ pass.phase = "Fetched" /\ pass.todo = {}
    /\ rows' = [a \in Accounts |-> IF Absent(a) THEN NoRow ELSE rows[a]]
    /\ pass' = Asleep
    /\ UNCHANGED <<slot, chain, confirmed, tail, restarts>>

\* The snapshot or the prune fails: the pass is given up and the loop sleeps.
PassFails ==
    /\ \/ pass.phase = "SlotRead"
       \/ pass.phase = "Fetched" /\ pass.todo = {}
    /\ pass' = Asleep
    /\ UNCHANGED <<slot, chain, confirmed, tail, rows, restarts>>

\* The process dies and is started again: only the table survives.
Restart ==
    /\ restarts < MaxRestarts
    /\ restarts' = restarts + 1
    /\ tail' = <<>>
    /\ pass' = Asleep
    /\ UNCHANGED <<slot, chain, confirmed, rows>>

(***************************************************************************)
(* The specification                                                       *)
(***************************************************************************)
ChainNext == (\E a \in Accounts : Write(a) \/ Close(a)) \/ Confirm

PassNext ==
    \/ ReadSlot
    \/ Fetch
    \/ \E a \in Accounts : PersistOk(a) \/ PersistFails(a)
    \/ Prune
    \/ PassFails

Next == ChainNext \/ Deliver \/ PassNext \/ Restart

Spec == Init /\ [][Next]_vars

\* The loop goes on for as long as the process lives, and a call that is
\* tried again and again does not fail every time.
Fairness ==
    /\ WF_vars(Deliver)
    /\ WF_vars(ReadSlot)
    /\ SF_vars(Fetch)
    /\ \A a \in Accounts : SF_vars(PersistOk(a)) /\ WF_vars(PersistOk(a) \/ PersistFails(a))
    /\ SF_vars(Prune)

FairSpec == Spec /\ Fairness

(***************************************************************************)
(* Safety                                                                  *)
(***************************************************************************)
\* A row's slot never promises more than its data holds: it is a version the
\* account really had, and whatever came after that came in the row's slot
\* or later.  The slot is asked for before the snapshot for this.
StampsAreHonest ==
    \A a \in Accounts : rows[a] # NoRow =>
        /\ rows[a].version \in 1..confirmed[a]
        /\ chain[a][rows[a].version].open
        /\ \A v \in DOMAIN chain[a] :
               v > rows[a].version => chain[a][v].slot >= rows[a].slot

\* The gate turns away no news: a notification under way that is newer than
\* the row it is about will replace it, also within one slot.
NewsGetsIn ==
    \A i \in DOMAIN tail :
        tail[i].version > rows[tail[i].account].version
            => Accepts(rows[tail[i].account], tail[i].slot)

\* A row is only ever removed if its account was closed after the version
\* the row holds.  An account created while the pass ran is not lost.
PruneSparesLive ==
    [][\A a \in Accounts : rows[a] # NoRow /\ rows'[a] = NoRow =>
          \E v \in DOMAIN chain[a] : v > rows[a].version /\ ~chain[a][v].open]_vars

\* "An out-of-order (older) event can never clobber a newer one": data of
\* one slot is never replaced by data of an earlier slot.
OlderNeverClobbers ==
    [][\A a \in Accounts : rows[a] # NoRow /\ rows'[a] # NoRow =>
          chain[a][rows'[a].version].slot >= chain[a][rows[a].version].slot]_vars

(***************************************************************************)
(* Liveness                                                                *)
(***************************************************************************)
\* The row of every open account holds its version; closed ones have none.
UpToDate == \A a \in Accounts : rows[a].version = Visible(a)

\* Once the chain rests, the table becomes what the chain is and stays so:
\* whatever was lost, delayed or brought back from the dead is put right.
CatchesUp == <>[]UpToDate
=============================================================================
