------------------------------ MODULE Crowdfund ------------------------------
(***************************************************************************)
(* What a subject and its markets promise the wallets that put SOL in,     *)
(* without the accounts, counters and vaults that keep the promise: a      *)
(* question is answered once; until then every market collects, and may    *)
(* open for trading; a market that did not open by then gives every stake  *)
(* back in full, one that did settles on the answer; everyone it noticed   *)
(* coming in gets out, and only then does the market disappear, for good.  *)
(***************************************************************************)
EXTENDS Naturals, FiniteSets

CONSTANTS
    Users,    \* wallets
    Outcomes, \* markets of the question, named for the answer they bet on
    Answers,  \* what the question may be answered
    Amounts   \* what a wallet may put in at a time

VARIABLES
    answer,   \* the answer, as a set: none yet or one
    phase,    \* how far each market is
    members,  \* wallets with something in it
    paid,     \* SOL each wallet put in before the market opened
    back,     \* SOL each wallet was given back
    unnoticed \* how many became members unnoticed

vars == <<answer, phase, members, paid, back, unnoticed>>

Phases == {"None", "Funding", "Trading", "Refunding", "Yes", "No", "Reaped"}

Init ==
    /\ answer = {}
    /\ phase = [o \in Outcomes |-> "None"]
    /\ members = [o \in Outcomes |-> {}]
    /\ paid = [o \in Outcomes |-> [u \in Users |-> 0]]
    /\ back = [o \in Outcomes |-> [u \in Users |-> 0]]
    /\ unnoticed = [o \in Outcomes |-> 0]

Answered == answer # {}

Answer(a) ==
    /\ ~Answered
    /\ answer' = {a}
    /\ UNCHANGED <<phase, members, paid, back, unnoticed>>

Becomes(o, p) == phase' = [phase EXCEPT ![o] = p]

PutIn(o, u, a) ==
    /\ members' = [members EXCEPT ![o] = @ \cup {u}]
    /\ paid' = [paid EXCEPT ![o][u] = @ + a]
    /\ UNCHANGED <<answer, back>>

\* A market begins with a stake of its own, while the question is open.
Begin(o, u, a) ==
    /\ phase[o] = "None" /\ ~Answered
    /\ Becomes(o, "Funding")
    /\ PutIn(o, u, a)
    /\ UNCHANGED unnoticed

\* A new member may come in unnoticed.
Fund(o, u, a) ==
    /\ phase[o] = "Funding"
    /\ PutIn(o, u, a)
    /\ \/ UNCHANGED unnoticed
       \/ u \notin members[o] /\ unnoticed' = [unnoticed EXCEPT ![o] = @ + 1]
    /\ UNCHANGED phase

\* A market opens for trading only while nobody knows the answer.
Open(o) ==
    /\ phase[o] = "Funding" /\ ~Answered
    /\ Becomes(o, "Trading")
    /\ UNCHANGED <<answer, members, paid, back, unnoticed>>

\* A wallet that joins an open market gets a share of it, not its SOL back.
Join(o, u) ==
    /\ phase[o] = "Trading" /\ ~Answered
    /\ members' = [members EXCEPT ![o] = @ \cup {u}]
    /\ UNCHANGED <<answer, phase, paid, back, unnoticed>>

CallOff(o) ==
    /\ phase[o] = "Funding" /\ Answered
    /\ Becomes(o, "Refunding")
    /\ UNCHANGED <<answer, members, paid, back, unnoticed>>

Settle(o) ==
    /\ phase[o] = "Trading" /\ Answered
    /\ Becomes(o, IF o \in answer THEN "Yes" ELSE "No")
    /\ UNCHANGED <<answer, members, paid, back, unnoticed>>

\* Every stake in full.
Refund(o, u) ==
    /\ phase[o] = "Refunding" /\ u \in members[o]
    /\ members' = [members EXCEPT ![o] = @ \ {u}]
    /\ back' = [back EXCEPT ![o][u] = paid[o][u]]
    /\ UNCHANGED <<answer, phase, paid, unnoticed>>

PayOut(o, u) ==
    /\ phase[o] \in {"Yes", "No"} /\ u \in members[o]
    /\ members' = [members EXCEPT ![o] = @ \ {u}]
    /\ UNCHANGED <<answer, phase, paid, back, unnoticed>>

\* No more are left than were not noticed coming in.
Reap(o) ==
    /\ phase[o] \in {"Refunding", "Yes", "No"}
    /\ Cardinality(members[o]) <= unnoticed[o]
    /\ Becomes(o, "Reaped")
    /\ UNCHANGED <<answer, members, paid, back, unnoticed>>

Next ==
    \/ \E a \in Answers : Answer(a)
    \/ \E o \in Outcomes :
          \/ Open(o) \/ CallOff(o) \/ Settle(o) \/ Reap(o)
          \/ \E u \in Users :
                \/ \E a \in Amounts : Begin(o, u, a) \/ Fund(o, u, a)
                \/ Join(o, u) \/ Refund(o, u) \/ PayOut(o, u)

Spec == Init /\ [][Next]_vars
=============================================================================
