----------------------------- MODULE ErSession -----------------------------
(***************************************************************************)
(* The ephemeral-rollup session account of one market (processor/er.rs):   *)
(* DelegateMarket, CommitMarket and UndelegateMarket, beside the market    *)
(* account that close_market.rs reaps without looking at the session.  No  *)
(* other instruction reads a session.                                      *)
(***************************************************************************)
EXTENDS Naturals

CONSTANTS
    Validators,   \* rollup validators that payloads name
    Frequencies,  \* commit_frequency_ms that payloads carry
    DEFAULT_COMMIT_FREQUENCY_MS,
    MaxSlot       \* bound on the clock

ASSUME SessionAssumption ==
    /\ Frequencies \subseteq Nat
    /\ DEFAULT_COMMIT_FREQUENCY_MS \in Nat \ {0}
    /\ MaxSlot \in Nat

VARIABLES
    market,   \* the Market account: not created yet, in use, or reaped
    session,  \* the ErSession account
    slot,     \* Clock: stands for both its slot and its unix timestamp
    begun     \* history: the slot of the last delegation

sessionVars == <<market, session, slot, begun>>

NoSession == [status |-> "None"]

Session == [status : {"Delegated", "Undelegated"}, validator : Validators,
            commit_frequency_ms : Nat \ {0}, delegated_at : Nat, last_commit_slot : Nat]

SessionTypeOK ==
    /\ market \in {"None", "Live", "Reaped"}
    /\ session \in Session \cup {NoSession}
    /\ slot \in Nat \ {0} /\ begun \in Nat

SessionInit ==
    /\ market = "None"
    /\ session = NoSession
    /\ slot = 1
    /\ begun = 0

Delegated == session.status = "Delegated"

\* 0 stands for the default.
CommitFrequency(frequency) ==
    IF frequency = 0 THEN DEFAULT_COMMIT_FREQUENCY_MS ELSE frequency

\* May the market be delegated now?
CanDelegate == market = "Live" /\ ~Delegated

\* The last commit of an earlier delegation carried over (mutant).
LastCommitKept == IF session = NoSession THEN 0 ELSE session.last_commit_slot

\* The last commit a new delegation starts from.
FirstCommit == 0

\* Creates the session or reuses the one an earlier delegation left; either
\* way the commits of the earlier one are forgotten.
Delegate(validator, frequency) ==
    /\ CanDelegate
    /\ session' = [status |-> "Delegated", validator |-> validator,
                   commit_frequency_ms |-> CommitFrequency(frequency),
                   delegated_at |-> slot, last_commit_slot |-> FirstCommit]
    /\ begun' = slot
    /\ UNCHANGED <<market, slot>>

Commit ==
    /\ market = "Live"
    /\ Delegated
    /\ session' = [session EXCEPT !.last_commit_slot = slot]
    /\ UNCHANGED <<market, slot, begun>>

Undelegate ==
    /\ market = "Live"
    /\ Delegated
    /\ session' = [session EXCEPT !.status = "Undelegated"]
    /\ UNCHANGED <<market, slot, begun>>

\* The market's own life, as far as a session can tell.
OpenMarket ==
    /\ market = "None"
    /\ market' = "Live"
    /\ UNCHANGED <<session, slot, begun>>

CloseMarket ==
    /\ market = "Live"
    /\ market' = "Reaped"
    /\ UNCHANGED <<session, slot, begun>>

Tick ==
    /\ slot < MaxSlot
    /\ slot' = slot + 1
    /\ UNCHANGED <<market, session, begun>>

SessionNext ==
    \/ \E validator \in Validators, frequency \in Frequencies : Delegate(validator, frequency)
    \/ Commit
    \/ Undelegate
    \/ OpenMarket
    \/ CloseMarket
    \/ Tick

SessionSpec == SessionInit /\ [][SessionNext]_sessionVars

\* A commit on record belongs to the delegation on record, never to an
\* earlier one with another validator, and delegated_at tells which that is.
CommitsAreCurrent ==
    session # NoSession =>
        /\ session.delegated_at = begun
        /\ session.last_commit_slot # 0 => session.last_commit_slot \in begun..slot

=============================================================================
