---------------------------- MODULE MCGovernance ----------------------------
(***************************************************************************)
(* Instances of Governance, ErSession and AccountLists for TLC.  The floor,*)
(* a session's terms and the addresses in a list are decided by accounts   *)
(* that have nothing in common, so a behaviour of the three together is one*)
(* of each: one run explores them side by side, each while the others are  *)
(* as they began.                                                          *)
(***************************************************************************)
EXTENDS Governance, ErSession, AccountLists

CONSTANTS deployer, dao, first, second

\* A ramp over one to three creations' worth of demand, and a flat floor.
Ramp == [base |-> 2, max |-> 130, threshold |-> 64, cap |-> 192]
Flat == [base |-> 5, max |-> 0, threshold |-> 64, cap |-> 192]

RampAndFlat == {Ramp, Flat}
RampOnly    == {Ramp}

NoLists == ListInit /\ destination = first
NoAccounts == Init /\ SessionInit

AccountsNext ==
    \/ NoLists /\ SessionInit /\ UNCHANGED <<sessionVars, listVars>> /\ Next
    \/ NoLists /\ Init /\ UNCHANGED <<vars, listVars>> /\ SessionNext
    \/ NoAccounts /\ UNCHANGED <<vars, sessionVars>> /\ ListNext

AccountsInit == Init /\ SessionInit /\ ListInit

AccountsSpec == AccountsInit /\ [][AccountsNext]_<<vars, sessionVars, listVars>>

\* The accounts have the types of their layouts, a fee above the cap and a
\* commit frequency of zero among what their layouts could hold and a
\* processor must never have written.
AccountsTypeOK == TypeOK /\ SessionTypeOK

\* Every list the SDK builds is taken wherever the documentation says its
\* instruction is due.  Looked at where the lists' accounts move.
ListsStand == NoAccounts => ListsAccepted

\* No list is taken with another market's, another member's or another
\* slot's account in it.  Looked at where the lists' accounts move.
StrangersRefused == NoAccounts => NoStrangerAccepted
=============================================================================
