--------------------------- MODULE SequenceProofs ---------------------------
(***************************************************************************)
(* The safety of the web app's transaction sequences, for any step lists   *)
(* and any number of calls of run at a time.                               *)
(*                                                                         *)
(* Two of the properties rest on what every call of run knows of its list: *)
(* a step is yet to be probed, or among those it has still to send, or     *)
(* landed.  They hold of a list that is kept and of one that is built anew *)
(* with its statuses, not of one that is built anew and takes over those of*)
(* the list before (Rebuilt): the run sequence_retry shows it.  The third  *)
(* follows the one token there is of each deposit, from the call that holds*)
(* it to the transaction given up on, to the chain.                        *)
(***************************************************************************)
EXTENDS ActionSequence, SharesProofs

NoneRebuilt == \A f \in Flows : f.caller # "Rebuilt"

LEMMA FlowFacts ==
    ASSUME flow \in Flows
    PROVE  /\ IsFiniteSet(Steps) /\ N \in Nat /\ Steps = 1..N
           /\ flow.repeatable \subseteq flow.unprobed /\ flow.unprobed \subseteq Steps
           /\ flow.caller \in Callers
<1>1. /\ IsFiniteSet(Steps) /\ flow.units \in [1..Cardinality(Steps) -> Nat]
      /\ flow.repeatable \subseteq flow.unprobed /\ flow.unprobed \subseteq Steps
      /\ flow.caller \in Callers
  BY SequenceAssumption DEF Steps
<1>2. N \in Nat
  BY <1>1, FS_CardinalityType DEF N
<1>3. Steps = 1..N
  BY <1>1 DEF Steps, N
<1>4. QED
  BY <1>1, <1>2, <1>3

\* A set of numbers from an interval has a least one.
LEMMA MinIs ==
    ASSUME NEW n \in Nat, NEW S \in SUBSET (1..n), S # {}
    PROVE  Min(S) \in S /\ \A y \in S : Min(S) <= y
<1>1. n \in Nat /\ S \subseteq 0..n /\ S # {}
  OBVIOUS
<1>2. \E k \in S : \A y \in S : k <= y
  BY <1>1, LeastAndGreatest
<1>3. QED
  BY <1>2 DEF Min

(***************************************************************************)
(* Types                                                                   *)
(***************************************************************************)
StatusKind == {"pending", "running", "done", "error"}

Building == {q \in Runs : At(q, "building")}

\* What a call of run may be at.
RunStates ==
    {Idle}
    \cup [pc : {"building"}, seen : [Steps -> StatusKind]]
    \cup [pc : {"probing"}, of : Lists \ {0}, at : 1..(N + 1), rest : SUBSET Steps]
    \cup [pc : {"signing"}, of : Lists \ {0}, rest : SUBSET Steps]
    \cup [pc : {"relaying"}, of : Lists \ {0}, rest : (SUBSET Steps) \ {{}}]
    \cup [pc : {"confirming"}, of : Lists \ {0}, rest : (SUBSET Steps) \ {{}},
          fate : {"sent", "landed", "failed"}]

\* There is room for the lists that are being built.
Room == SameAccounts \/ list + Cardinality(Building) <= MaxLists

SeqType ==
    /\ flow \in Flows
    /\ times \in [Lists -> [Steps -> Nat]]
    /\ statuses \in [Steps -> StatusKind]
    /\ list \in Lists
    /\ run \in [Runs -> RunStates]
    /\ \A t \in orphans : t.of \in Lists \ {0} /\ t.batch \in SUBSET Steps
    /\ failures \in Nat
    /\ finished \in SUBSET (Lists \ {0}) /\ overlap \in SUBSET (Lists \ {0})
    /\ Room

\* What a run's state is made of, by where it is.
LEMMA RunFields ==
    ASSUME NEW m \in RunStates
    PROVE  /\ m.pc = "idle" => m = Idle
           /\ m.pc = "building" => m.seen \in [Steps -> StatusKind]
           /\ m.pc \notin {"idle", "building"} =>
                  m.of \in Lists \ {0} /\ m.rest \in SUBSET Steps
           /\ m.pc = "probing" => m.at \in 1..(N + 1) /\
                  m = [pc |-> "probing", of |-> m.of, at |-> m.at, rest |-> m.rest]
           /\ m.pc \in {"relaying", "confirming"} => m.rest # {}
           /\ m.pc = "confirming" => m.fate \in {"sent", "landed", "failed"} /\
                  m = [pc |-> "confirming", of |-> m.of, rest |-> m.rest, fate |-> m.fate]
           /\ m.pc \in {"idle", "building", "probing", "signing", "relaying", "confirming"}
BY DEF RunStates, Idle

LEMMA RunsMade ==
    ASSUME NEW l \in Lists \ {0}, NEW left \in SUBSET Steps, NEW at \in 1..(N + 1)
    PROVE  /\ Idle \in RunStates
           /\ \A seen \in [Steps -> StatusKind] : [pc |-> "building", seen |-> seen] \in RunStates
           /\ [pc |-> "probing", of |-> l, at |-> at, rest |-> left] \in RunStates
           /\ [pc |-> "signing", of |-> l, rest |-> left] \in RunStates
           /\ left # {} => [pc |-> "relaying", of |-> l, rest |-> left] \in RunStates
           /\ left # {} => \A fate \in {"sent", "landed", "failed"} :
                  [pc |-> "confirming", of |-> l, rest |-> left, fate |-> fate] \in RunStates
BY DEF RunStates

LEMMA SameFlow ==
    ASSUME UNCHANGED flow
    PROVE  /\ Steps' = Steps /\ N' = N /\ RunStates' = RunStates
           /\ SameAccounts' <=> SameAccounts
           /\ AllPending' = AllPending
           /\ \A S : Batch(S)' = Batch(S)
BY DEF Steps, N, RunStates, SameAccounts, AllPending, Batch, Fits

\* The first transaction is some of the steps, and at least the first.
LEMMA BatchIsPart ==
    ASSUME flow \in Flows, NEW left \in SUBSET Steps, left # {}
    PROVE  /\ Min(left) \in left /\ \A i \in left : Min(left) <= i
           /\ Batch(left) \in SUBSET left /\ Min(left) \in Batch(left)
<1>1. Min(left) \in left /\ \A i \in left : Min(left) <= i
  BY FlowFacts, MinIs
<1>2. QED
  BY <1>1 DEF Batch

\* Where a run begins: no step before is not done.
LEMMA BeginIs ==
    ASSUME flow \in Flows, NEW prev \in [Steps -> StatusKind]
    PROVE  /\ Begin(prev) \in 1..(N + 1)
           /\ \A i \in Steps : i < Begin(prev) => prev[i] = "done"
           /\ Cleared(prev) \in [Steps -> StatusKind]
           /\ \A i \in Steps : Cleared(prev)[i] = "done" => prev[i] = "done"
<1> DEFINE S == {i \in Steps : prev[i] # "done"} \cup {N + 1}
<1>1. N + 1 \in Nat /\ S \in SUBSET (1..(N + 1)) /\ S # {}
  BY FlowFacts
<1>2. Begin(prev) = Min(S)
  BY DEF Begin
<1> HIDE DEF S
<1>3. Begin(prev) \in S /\ \A y \in S : Begin(prev) <= y
  <2>1. Min(S) \in S /\ \A y \in S : Min(S) <= y
    BY <1>1, MinIs, Zenon
  <2>2. QED
    BY <1>2, <2>1
<1>4. \A i \in Steps : i < Begin(prev) => prev[i] = "done"
  <2>1. SUFFICES ASSUME NEW i \in Steps, i < Begin(prev), prev[i] # "done" PROVE FALSE
    OBVIOUS
  <2>2. i \in S
    BY <2>1 DEF S
  <2>3. Begin(prev) <= i /\ Begin(prev) \in 1..(N + 1) /\ i \in 1..N /\ N \in Nat
    BY <1>1, <1>3, <2>2, FlowFacts
  <2>4. QED
    BY <2>1, <2>3
<1>5. QED
  BY <1>1, <1>3, <1>4 DEF Cleared, StatusKind

\* One call moves, the others stay where they are.
LEMMA RunMoves ==
    ASSUME SeqType, NEW r \in Runs, NEW to \in RunStates, Moves(r, to), UNCHANGED flow
    PROVE  /\ run' \in [Runs -> RunStates] /\ run'[r] = to
           /\ \A q \in Runs \ {r} : run'[q] = run[q]
           /\ to.pc # "building" /\ UNCHANGED list => Room'
<1>1. /\ run' \in [Runs -> RunStates] /\ run'[r] = to
      /\ \A q \in Runs \ {r} : run'[q] = run[q]
  BY DEF Moves, SeqType
<1>2. ASSUME to.pc # "building", UNCHANGED list PROVE Room'
  <2>1. Building' \in SUBSET Building
    BY <1>1, <1>2 DEF Building, At
  <2>2. IsFiniteSet(Building) /\ Building \in SUBSET Runs
    BY FS_Subset, SequenceAssumption DEF Building
  <2>3. /\ Cardinality(Building) \in Nat /\ Cardinality(Building') \in Nat
        /\ Cardinality(Building') <= Cardinality(Building)
    BY <2>1, <2>2, FS_Subset, FS_CardinalityType
  <2>4. SameAccounts' <=> SameAccounts
    BY SameFlow
  <2>5. list \in Nat /\ MaxLists \in Nat /\ Room
    BY SequenceAssumption DEF SeqType, Lists
  <2>6. QED
    BY <1>2, <2>3, <2>4, <2>5 DEF Room
<1>3. QED
  BY <1>1, <1>2

LEMMA MarkedKind ==
    ASSUME statuses \in [Steps -> StatusKind], NEW idxs, NEW kind \in StatusKind
    PROVE  Marked(idxs, kind) \in [Steps -> StatusKind]
BY DEF Marked

\* What is left to send is sent, or the list is finished.
LEMMA ProceedsTo ==
    ASSUME SeqType, NEW r \in Runs, run[r].pc \notin {"idle", "building"},
           NEW left \in SUBSET Steps, NEW shown \in [Steps -> StatusKind],
           Proceed(r, left, shown), UNCHANGED flow
    PROVE  /\ run'[r] = IF left = {} THEN Idle
                        ELSE [pc |-> "relaying", of |-> run[r].of, rest |-> left]
           /\ run'[r] \in RunStates /\ run'[r].pc # "building" /\ Moves(r, run'[r])
           /\ statuses' \in [Steps -> StatusKind]
           /\ \A i \in Steps : statuses'[i] = "done" => shown[i] = "done"
           /\ finished' = IF left = {} THEN finished \cup {run[r].of} ELSE finished
           /\ finished' \in SUBSET (Lists \ {0})
<1>1. run[r] \in RunStates /\ run[r].of \in Lists \ {0}
  BY RunFields DEF SeqType
<1>2. N + 1 \in 1..(N + 1)
  BY FlowFacts DEF SeqType
<1>3. CASE left = {}
  <2>1. Moves(r, Idle) /\ statuses' = shown /\ finished' = finished \cup {run[r].of}
    BY <1>3 DEF Proceed, Ends
  <2>2. Idle \in RunStates /\ Idle.pc = "idle"
    BY DEF RunStates, Idle
  <2>3. run'[r] = Idle
    BY <2>1, <2>2, RunMoves
  <2>4. QED
    BY <1>1, <1>3, <2>1, <2>2, <2>3 DEF SeqType
<1>4. CASE left # {}
  <2> DEFINE to == [pc |-> "relaying", of |-> run[r].of, rest |-> left]
  <2>1. /\ Moves(r, to) /\ finished' = finished
        /\ statuses' = [i \in Steps |-> IF i \in Batch(left) THEN "running" ELSE shown[i]]
    BY <1>4 DEF Proceed
  <2>2. to \in RunStates /\ to.pc = "relaying"
    BY <1>1, <1>2, <1>4, RunsMade
  <2>3. run'[r] = to
    BY <2>1, <2>2, RunMoves
  <2>4. QED
    BY <1>1, <1>4, <2>1, <2>2, <2>3 DEF SeqType, StatusKind
<1>5. QED
  BY <1>3, <1>4

\* Where a call goes, the parts of the type that it disturbs.
LEMMA GoesType ==
    ASSUME SeqType, NEW r \in Runs, NEW to \in RunStates, Moves(r, to), to.pc # "building",
           UNCHANGED <<flow, list>>,
           times' \in [Lists -> [Steps -> Nat]], statuses' \in [Steps -> StatusKind],
           \A t \in orphans' : t.of \in Lists \ {0} /\ t.batch \in SUBSET Steps,
           failures' \in Nat, finished' \in SUBSET (Lists \ {0}), UNCHANGED overlap
    PROVE  SeqType'
BY SameFlow, RunMoves DEF SeqType

LEMMA StartType ==
    ASSUME SeqType, NEW r \in Runs, Start(r)
    PROVE  SeqType'
<1> DEFINE l == IF SameAccounts THEN 1 ELSE list + 1
           prev == IF Resumes THEN run[r].seen ELSE AllPending
           to == [pc |-> "probing", of |-> l, at |-> Begin(prev), rest |-> {}]
<1>1. /\ run[r].pc = "building" /\ list' = l /\ statuses' = Cleared(prev) /\ Moves(r, to)
      /\ overlap' = {run[q].of : q \in {q \in Runs : ~At(q, "idle") /\ ~At(q, "building")}}
      /\ UNCHANGED <<flow, times, orphans, failures, finished>>
  BY DEF Start, At
<1>2. prev \in [Steps -> StatusKind] /\ flow \in Flows
  BY <1>1, RunFields DEF SeqType, AllPending, StatusKind
<1>3. r \in Building /\ IsFiniteSet(Building) /\ Cardinality(Building) \in Nat
  BY <1>1, FS_Subset, FS_CardinalityType, SequenceAssumption DEF Building, At
<1>4. Cardinality(Building) >= 1
  BY <1>3, FS_EmptySet
<1>5. l \in Lists \ {0}
  BY <1>3, <1>4, SequenceAssumption DEF SeqType, Room, Lists
<1>6. to \in RunStates /\ to.pc = "probing"
  BY <1>2, <1>5, BeginIs, RunsMade
<1>7. /\ run' \in [Runs -> RunStates] /\ run'[r] = to
      /\ \A q \in Runs \ {r} : run'[q] = run[q]
  BY <1>1, <1>6, RunMoves
<1>8. Room'
  <2>1. Building' = Building \ {r}
    BY <1>3, <1>6, <1>7 DEF Building, At
  <2>2. Cardinality(Building') = Cardinality(Building) - 1
    BY <1>3, <2>1, FS_RemoveElement
  <2>3. SameAccounts' <=> SameAccounts
    BY <1>1, SameFlow
  <2>4. list \in Nat /\ MaxLists \in Nat /\ Room
    BY SequenceAssumption DEF SeqType, Lists
  <2>5. QED
    BY <1>1, <1>3, <2>2, <2>3, <2>4 DEF Room
<1>9. overlap' \in SUBSET (Lists \ {0})
  <2>1. ASSUME NEW q \in Runs, ~At(q, "idle"), ~At(q, "building")
        PROVE  run[q].of \in Lists \ {0}
    BY <2>1, RunFields DEF SeqType, At
  <2>2. QED
    BY <1>1, <2>1
<1>10. statuses' \in [Steps -> StatusKind]
  BY <1>1, <1>2, BeginIs
<1> HIDE DEF l, prev, to
<1>11. QED
  BY <1>1, <1>5, <1>7, <1>8, <1>9, <1>10, SameFlow DEF SeqType

LEMMA ClickType ==
    ASSUME SeqType, NEW r \in Runs, Click(r)
    PROVE  SeqType'
<1> DEFINE to == [pc |-> "building", seen |-> statuses]
<1>1. /\ run[r].pc = "idle" /\ Moves(r, to)
      /\ SameAccounts \/ list + Cardinality(Building) < MaxLists
      /\ failures' \in {failures, failures + 1}
      /\ UNCHANGED <<flow, times, statuses, list, orphans, finished, overlap>>
  BY DEF Click, At, Fails, Building
<1>2. to \in RunStates /\ to.pc = "building"
  BY DEF RunStates, SeqType
<1>3. /\ run' \in [Runs -> RunStates] /\ run'[r] = to
      /\ \A q \in Runs \ {r} : run'[q] = run[q]
  BY <1>1, <1>2, RunMoves
<1>4. Room'
  <2>1. /\ Building' = Building \cup {r} /\ r \notin Building
        /\ IsFiniteSet(Building) /\ Cardinality(Building) \in Nat
    BY <1>1, <1>2, <1>3, FS_Subset, FS_CardinalityType, SequenceAssumption DEF Building, At
  <2>2. Cardinality(Building') = Cardinality(Building) + 1
    <3> HIDE DEF to
    <3>1. Cardinality(Building \cup {r}) = Cardinality(Building) + 1
      BY <2>1, FS_AddElement
    <3>2. QED
      BY <2>1, <3>1
  <2>3. SameAccounts' <=> SameAccounts
    BY <1>1, SameFlow
  <2>4. list \in Nat /\ MaxLists \in Nat
    BY SequenceAssumption DEF SeqType, Lists
  <2>5. QED
    BY <1>1, <2>1, <2>2, <2>3, <2>4 DEF Room
<1> HIDE DEF to
<1>5. failures' \in Nat
  BY <1>1 DEF SeqType
<1>6. QED
  BY <1>1, <1>3, <1>4, <1>5, SameFlow DEF SeqType

LEMMA ExecutedType ==
    ASSUME flow \in Flows, times \in [Lists -> [Steps -> Nat]], NEW l \in Lists, NEW batch
    PROVE  /\ Executed(l, batch) \in [Lists -> [Steps -> Nat]]
           /\ \A k \in Lists, i \in Steps :
                  Executed(l, batch)[k][i] =
                      times[k][i] + (IF k = l /\ i \in batch THEN 1 ELSE 0)
           /\ \A k \in Lists, i \in Steps : Executed(l, batch)[k][i] >= times[k][i]
<1>1. \A i \in Steps : times[l][i] + (IF i \in batch THEN 1 ELSE 0) \in Nat
  OBVIOUS
<1>2. Executed(l, batch) \in [Lists -> [Steps -> Nat]]
  BY <1>1 DEF Executed
<1>3. \A k \in Lists, i \in Steps :
        /\ times[k][i] \in Nat
        /\ Executed(l, batch)[k][i] = times[k][i] + (IF k = l /\ i \in batch THEN 1 ELSE 0)
  BY DEF Executed
<1>4. \A k \in Lists, i \in Steps : Executed(l, batch)[k][i] >= times[k][i]
  BY <1>3
<1>5. QED
  BY <1>2, <1>3, <1>4

\* A transaction given up on is one of the list's steps.
LEMMA OrphanedType ==
    ASSUME SeqType, NEW r \in Runs, run[r].pc \in {"relaying", "confirming"}
    PROVE  \A t \in Orphaned(r) : t.of \in Lists \ {0} /\ t.batch \in SUBSET Steps
<1>1. /\ run[r].of \in Lists \ {0} /\ run[r].rest \in SUBSET Steps /\ run[r].rest # {}
      /\ flow \in Flows
  BY RunFields DEF SeqType
<1>2. Current(r) \in SUBSET Steps
  BY <1>1, BatchIsPart DEF Current
<1>3. QED
  BY <1>1, <1>2 DEF Orphaned, SeqType

LEMMA IdleType ==
    ASSUME flow \in Flows
    PROVE  Idle \in RunStates /\ Idle.pc = "idle"
BY DEF RunStates, Idle

\* A run that returns, and the statuses it leaves.
LEMMA EndsType ==
    ASSUME SeqType, NEW r \in Runs, Ends(r), UNCHANGED <<flow, list, times, overlap>>,
           statuses' \in [Steps -> StatusKind], failures' \in Nat,
           \A t \in orphans' : t.of \in Lists \ {0} /\ t.batch \in SUBSET Steps,
           finished' \in SUBSET (Lists \ {0})
    PROVE  SeqType'
<1>1. Idle \in RunStates /\ Moves(r, Idle) /\ Idle.pc # "building"
  BY IdleType DEF Ends, SeqType
<1>2. times' \in [Lists -> [Steps -> Nat]]
  BY DEF SeqType
<1>3. QED
  BY <1>1, <1>2, GoesType

LEMMA ProceedType ==
    ASSUME SeqType, NEW r \in Runs, run[r].pc \notin {"idle", "building"},
           NEW left \in SUBSET Steps, NEW shown \in [Steps -> StatusKind],
           Proceed(r, left, shown), UNCHANGED <<flow, times, list, orphans, failures, overlap>>
    PROVE  SeqType'
<1>1. /\ run'[r] \in RunStates /\ run'[r].pc # "building" /\ Moves(r, run'[r])
      /\ statuses' \in [Steps -> StatusKind] /\ finished' \in SUBSET (Lists \ {0})
  BY ProceedsTo
<1>2. /\ times' \in [Lists -> [Steps -> Nat]] /\ failures' \in Nat
      /\ \A t \in orphans' : t.of \in Lists \ {0} /\ t.batch \in SUBSET Steps
  BY DEF SeqType
<1>3. QED
  BY <1>1, <1>2, GoesType

\* What a call of run at `pc` holds, to be used of one that moves.
LEMMA Holdings ==
    ASSUME SeqType, NEW r \in Runs
    PROVE  /\ run[r] \in RunStates /\ flow \in Flows /\ failures \in Nat
           /\ statuses \in [Steps -> StatusKind] /\ finished \in SUBSET (Lists \ {0})
           /\ times \in [Lists -> [Steps -> Nat]]
           /\ \A t \in orphans : t.of \in Lists \ {0} /\ t.batch \in SUBSET Steps
           /\ run[r].pc \notin {"idle", "building"} =>
                  run[r].of \in Lists \ {0} /\ run[r].rest \in SUBSET Steps
           /\ run[r].pc \in {"relaying", "confirming"} =>
                  /\ run[r].rest # {} /\ Current(r) \in SUBSET run[r].rest
                  /\ Min(run[r].rest) \in Current(r)
<1>1. run[r] \in RunStates /\ flow \in Flows
  BY DEF SeqType
<1>2. /\ run[r].pc \notin {"idle", "building"} =>
            run[r].of \in Lists \ {0} /\ run[r].rest \in SUBSET Steps
      /\ run[r].pc \in {"relaying", "confirming"} => run[r].rest # {}
  BY <1>1, RunFields
<1>3. run[r].pc \in {"relaying", "confirming"} =>
          Current(r) \in SUBSET run[r].rest /\ Min(run[r].rest) \in Current(r)
  BY <1>1, <1>2, BatchIsPart DEF Current
<1>4. QED
  BY <1>1, <1>2, <1>3 DEF SeqType

LEMMA ProbingOn ==
    ASSUME NEW O, NEW A, NEW S, NEW m \in [pc : {"probing"}, of : O, at : A, rest : S],
           NEW b \in A, NEW left \in S
    PROVE  LET to == [m EXCEPT !.at = b]
               on == [m EXCEPT !.at = b, !.rest = left]
           IN  /\ to \in [pc : {"probing"}, of : O, at : A, rest : S]
               /\ to.pc = "probing" /\ to.of = m.of /\ to.at = b /\ to.rest = m.rest
               /\ on \in [pc : {"probing"}, of : O, at : A, rest : S]
               /\ on.pc = "probing" /\ on.of = m.of /\ on.at = b /\ on.rest = left
OBVIOUS

\* A step probed is skipped, or added to those to send.
LEMMA ProbeGoes ==
    ASSUME SeqType, NEW r \in Runs, Probe(r)
    PROVE  /\ run[r].pc = "probing" /\ run[r].at \in Steps /\ run[r].of \in Lists \ {0}
           /\ run[r].rest \in SUBSET Steps
           /\ failures' \in Nat /\ UNCHANGED <<flow, times, list, orphans, finished, overlap>>
           /\ run'[r] \in RunStates /\ Moves(r, run'[r])
           /\ run'[r].pc = "probing" /\ run'[r].of = run[r].of /\ run'[r].at = run[r].at + 1
           /\ \/ /\ run'[r].rest = run[r].rest /\ statuses' = Marked({run[r].at}, "done")
                 /\ run[r].at \notin flow.unprobed /\ Landed(run[r].of, run[r].at)
              \/ run'[r].rest = run[r].rest \cup {run[r].at} /\ UNCHANGED statuses
<1> DEFINE me == run[r]
           Probings == [pc : {"probing"}, of : Lists \ {0}, at : 1..(N + 1), rest : SUBSET Steps]
           to == [me EXCEPT !.at = me.at + 1]
           on == [me EXCEPT !.at = me.at + 1, !.rest = me.rest \cup {me.at}]
<1>1. /\ me.pc = "probing" /\ me.at <= N /\ me \in RunStates
      /\ UNCHANGED <<flow, times, list, orphans, finished, overlap>>
  BY DEF Probe, At, SeqType
<1>2. /\ me.at \in 1..(N + 1) /\ me.of \in Lists \ {0} /\ me.rest \in SUBSET Steps
      /\ me = [pc |-> "probing", of |-> me.of, at |-> me.at, rest |-> me.rest]
  BY <1>1, RunFields
<1>3. me.at \in Steps /\ me.at + 1 \in 1..(N + 1) /\ me.rest \cup {me.at} \in SUBSET Steps
  BY <1>1, <1>2, FlowFacts DEF SeqType
<1>4. me \in Probings
  BY <1>2
<1>5. /\ to \in Probings /\ to.pc = "probing" /\ to.of = me.of /\ to.at = me.at + 1
      /\ to.rest = me.rest
      /\ on \in Probings /\ on.pc = "probing" /\ on.of = me.of /\ on.at = me.at + 1
      /\ on.rest = me.rest \cup {me.at}
  <2> HIDE DEF me
  <2>1. QED
    BY <1>2, <1>3, <1>4, ProbingOn
<1>6. PICK heard \in BOOLEAN :
          /\ IF heard THEN UNCHANGED failures ELSE Fails /\ me.at \notin flow.unprobed
          /\ IF Skips(me.of, me.at, heard)
             THEN statuses' = Marked({me.at}, "done") /\ Moves(r, to)
             ELSE Moves(r, on) /\ UNCHANGED statuses
  BY DEF Probe
<1>7. failures' \in Nat
  BY <1>6 DEF Fails, SeqType
<1>8. to \in RunStates /\ on \in RunStates
  <2> HIDE DEF to, on
  <2>1. QED
    BY <1>5 DEF RunStates
<1>9. CASE Skips(me.of, me.at, heard)
  <2> HIDE DEF to, on
  <2>1. /\ Moves(r, to) /\ statuses' = Marked({me.at}, "done")
        /\ me.at \notin flow.unprobed /\ Landed(me.of, me.at)
    BY <1>6, <1>9 DEF Skips
  <2>2. run'[r] = to
    BY <1>1, <1>8, <2>1, RunMoves
  <2>3. QED
    BY <1>1, <1>2, <1>3, <1>5, <1>7, <1>8, <2>1, <2>2
<1>10. CASE ~Skips(me.of, me.at, heard)
  <2> HIDE DEF to, on
  <2>1. Moves(r, on) /\ UNCHANGED statuses
    BY <1>6, <1>10
  <2>2. run'[r] = on
    BY <1>1, <1>8, <2>1, RunMoves
  <2>3. QED
    BY <1>1, <1>2, <1>3, <1>5, <1>7, <1>8, <2>1, <2>2
<1>11. QED
  BY <1>9, <1>10

LEMMA LandGoes ==
    ASSUME SeqType, NEW r \in Runs, Land(r)
    PROVE  /\ run[r].pc = "confirming" /\ run[r].fate = "sent"
           /\ run'[r] \in RunStates /\ Moves(r, run'[r])
           /\ run'[r].pc = "confirming" /\ run'[r].of = run[r].of /\ run'[r].rest = run[r].rest
           /\ UNCHANGED <<flow, statuses, list, orphans, failures, finished, overlap>>
           /\ IF Executable(run[r].of, Current(r))
              THEN times' = Executed(run[r].of, Current(r)) /\ run'[r].fate = "landed"
              ELSE UNCHANGED times /\ run'[r].fate = "failed"
<1> DEFINE me == run[r]
           Confirming == [pc : {"confirming"}, of : Lists \ {0}, rest : (SUBSET Steps) \ {{}},
                          fate : {"sent", "landed", "failed"}]
           ok == [me EXCEPT !.fate = "landed"]
           ko == [me EXCEPT !.fate = "failed"]
<1>1. /\ me.pc = "confirming" /\ me.fate = "sent" /\ me \in RunStates
      /\ UNCHANGED <<flow, statuses, list, orphans, failures, finished, overlap>>
      /\ IF Executable(me.of, Current(r))
         THEN times' = Executed(me.of, Current(r)) /\ Moves(r, ok)
         ELSE UNCHANGED times /\ Moves(r, ko)
  BY DEF Land, At, SeqType
<1>2. me \in Confirming
  BY <1>1 DEF RunStates, Idle
<1>3. /\ ok \in Confirming /\ ok.pc = "confirming" /\ ok.of = me.of /\ ok.rest = me.rest
      /\ ok.fate = "landed"
      /\ ko \in Confirming /\ ko.pc = "confirming" /\ ko.of = me.of /\ ko.rest = me.rest
      /\ ko.fate = "failed"
  <2> HIDE DEF me
  <2>1. QED
    BY <1>2
<1>4. ok \in RunStates /\ ko \in RunStates
  <2> HIDE DEF ok, ko
  <2>1. QED
    BY <1>3 DEF RunStates
<1>5. CASE Executable(me.of, Current(r))
  <2> HIDE DEF ok, ko
  <2>1. Moves(r, ok) /\ times' = Executed(me.of, Current(r))
    BY <1>1, <1>5
  <2>2. run'[r] = ok
    BY <1>1, <1>4, <2>1, RunMoves
  <2>3. QED
    BY <1>1, <1>3, <1>4, <1>5, <2>1, <2>2
<1>6. CASE ~Executable(me.of, Current(r))
  <2> HIDE DEF ok, ko
  <2>1. Moves(r, ko) /\ UNCHANGED times
    BY <1>1, <1>6
  <2>2. run'[r] = ko
    BY <1>1, <1>4, <2>1, RunMoves
  <2>3. QED
    BY <1>1, <1>3, <1>4, <1>6, <2>1, <2>2
<1>7. QED
  BY <1>5, <1>6

\* Everyone else touches no call.
LEMMA OthersType ==
    ASSUME SeqType, UNCHANGED <<flow, statuses, list, run, failures, finished, overlap>>,
           times' \in [Lists -> [Steps -> Nat]], orphans' \in SUBSET orphans
    PROVE  SeqType'
<1>1. Building' = Building
  BY DEF Building, At
<1>2. Room'
  BY <1>1, SameFlow DEF SeqType, Room
<1>3. QED
  BY <1>2, SameFlow DEF SeqType

LEMMA FailsCounts ==
    ASSUME failures \in Nat, Fails
    PROVE  failures' \in Nat
BY DEF Fails

LEMMA CallType ==
    ASSUME SeqType, NEW r \in Runs, Goes(r) \/ GoesWrong(r)
    PROVE  SeqType'
<1> USE Holdings
<1>1. CASE Click(r)
  BY <1>1, ClickType
<1>2. CASE Start(r)
  BY <1>2, StartType
<1>3. CASE Probe(r)
  <2>1. statuses' \in [Steps -> StatusKind]
    <3>1. Marked({run[r].at}, "done") \in [Steps -> StatusKind]
      BY MarkedKind DEF StatusKind
    <3>2. UNCHANGED statuses \/ statuses' = Marked({run[r].at}, "done")
      BY <1>3, ProbeGoes
    <3>3. QED
      BY <3>1, <3>2
  <2>2. QED
    BY <1>3, <2>1, ProbeGoes, GoesType
<1>4. CASE Pack(r)
  <2> DEFINE to == [pc |-> "signing", of |-> run[r].of, rest |-> run[r].rest]
  <2>1. /\ run[r].pc = "probing" /\ UNCHANGED <<flow, times, list, orphans, failures, overlap>>
        /\ \/ Moves(r, to) /\ UNCHANGED <<statuses, finished>>
           \/ Proceed(r, run[r].rest, statuses)
    BY <1>4 DEF Pack, At
  <2>2. CASE Proceed(r, run[r].rest, statuses)
    BY <2>1, <2>2, ProceedType
  <2>3. CASE Moves(r, to) /\ UNCHANGED <<statuses, finished>>
    <3>1. to \in RunStates /\ to.pc = "signing"
      BY <2>1 DEF RunStates
    <3> HIDE DEF to
    <3>2. QED
      BY <2>1, <2>3, <3>1, GoesType
  <2>4. QED
    BY <2>1, <2>2, <2>3
<1>5. CASE SignAll(r)
  <2>1. /\ run[r].pc = "signing" /\ UNCHANGED <<flow, times, list, orphans, failures, overlap>>
        /\ Proceed(r, run[r].rest, statuses)
    BY <1>5 DEF SignAll, At
  <2>2. QED
    BY <2>1, ProceedType
<1>6. CASE Relay(r)
  <2> DEFINE to == [pc |-> "confirming", of |-> run[r].of, rest |-> run[r].rest, fate |-> "sent"]
  <2>1. /\ run[r].pc = "relaying" /\ Moves(r, to)
        /\ UNCHANGED <<flow, times, statuses, list, orphans, failures, finished, overlap>>
    BY <1>6 DEF Relay, At
  <2>2. to \in RunStates /\ to.pc = "confirming"
    BY <2>1 DEF RunStates
  <2> HIDE DEF to
  <2>3. QED
    BY <2>1, <2>2, GoesType
<1>7. CASE Land(r)
  <2>1. times' \in [Lists -> [Steps -> Nat]]
    BY <1>7, LandGoes, ExecutedType
  <2>2. QED
    BY <1>7, <2>1, LandGoes, GoesType
<1>8. CASE Confirm(r)
  <2>1. /\ run[r].pc = "confirming" /\ UNCHANGED <<flow, times, list, orphans, failures, overlap>>
        /\ Proceed(r, run[r].rest \ Current(r), Marked(Current(r), "done"))
    BY <1>8 DEF Confirm, At
  <2>2. Marked(Current(r), "done") \in [Steps -> StatusKind]
    BY MarkedKind DEF StatusKind
  <2>3. QED
    BY <2>1, <2>2, ProceedType
<1>9. CASE ConfirmFails(r)
  <2>1. /\ Ends(r) /\ statuses' = Marked(Current(r), "error")
        /\ UNCHANGED <<flow, times, list, orphans, failures, finished, overlap>>
    BY <1>9 DEF ConfirmFails, GiveUp
  <2>2. QED
    BY <2>1, EndsType, MarkedKind DEF StatusKind
<1>10. CASE BuildFails(r)
  <2>1. /\ Ends(r) /\ Fails
        /\ UNCHANGED <<flow, times, statuses, list, orphans, finished, overlap>>
    BY <1>10 DEF BuildFails
  <2>2. QED
    BY <2>1, EndsType, FailsCounts
<1>11. CASE WalletGone(r)
  <2>1. /\ Ends(r) /\ Fails /\ statuses' = AllPending
        /\ UNCHANGED <<flow, times, list, orphans, finished, overlap>>
    BY <1>11 DEF WalletGone
  <2>2. AllPending \in [Steps -> StatusKind]
    BY DEF AllPending, StatusKind
  <2>3. QED
    BY <2>1, <2>2, EndsType, FailsCounts
<1>12. CASE SignAllFails(r)
  <2>1. /\ Ends(r) /\ Fails /\ statuses' = Marked(run[r].rest, "error")
        /\ UNCHANGED <<flow, times, list, orphans, finished, overlap>>
    BY <1>12 DEF SignAllFails, GiveUp
  <2>2. QED
    BY <2>1, EndsType, FailsCounts, MarkedKind DEF StatusKind
<1>13. CASE RelayFails(r)
  <2>1. /\ run[r].pc = "relaying" /\ Ends(r) /\ statuses' = Marked(Current(r), "error")
        /\ UNCHANGED <<flow, times, list, finished, overlap>>
        /\ Fails \/ UNCHANGED failures
        /\ orphans' \in {orphans, Orphaned(r)}
    BY <1>13 DEF RelayFails, GiveUp, At
  <2>2. \A t \in orphans' : t.of \in Lists \ {0} /\ t.batch \in SUBSET Steps
    BY <2>1, OrphanedType
  <2>3. QED
    BY <2>1, <2>2, EndsType, FailsCounts, MarkedKind DEF StatusKind
<1>14. CASE Timeout(r)
  <2>1. /\ run[r].pc = "confirming" /\ Ends(r) /\ statuses' = Marked(Current(r), "error")
        /\ UNCHANGED <<flow, times, list, finished, overlap>>
        /\ Fails /\ orphans' \in {orphans, Orphaned(r)}
    BY <1>14 DEF Timeout, OnTimeout, GiveUp, At
  <2>2. \A t \in orphans' : t.of \in Lists \ {0} /\ t.batch \in SUBSET Steps
    BY <2>1, OrphanedType
  <2>3. QED
    BY <2>1, <2>2, EndsType, FailsCounts, MarkedKind DEF StatusKind
<1>15. QED
  BY <1>1, <1>2, <1>3, <1>4, <1>5, <1>6, <1>7, <1>8, <1>9, <1>10, <1>11, <1>12, <1>13, <1>14
     DEF Goes, GoesWrong

\* What everyone else does.
LEMMA OtherGoes ==
    ASSUME SeqType, (\E t \in orphans : LandLate(t)) \/ \E i \in Steps : OtherKeeper(i)
    PROVE  /\ UNCHANGED <<flow, statuses, list, run, failures, finished, overlap>>
           /\ times' \in [Lists -> [Steps -> Nat]] /\ orphans' \in SUBSET orphans
           /\ \A l \in Lists, i \in Steps : times'[l][i] >= times[l][i]
<1>1. flow \in Flows /\ times \in [Lists -> [Steps -> Nat]] /\ 0 \in Lists
  BY SequenceAssumption DEF SeqType, Lists
<1>2. CASE \E t \in orphans : LandLate(t)
  <2>1. PICK t \in orphans : LandLate(t)
    BY <1>2
  <2>2. t.of \in Lists
    BY <2>1 DEF SeqType
  <2>3. /\ UNCHANGED <<flow, statuses, list, run, failures, finished, overlap>>
        /\ orphans' \in SUBSET orphans /\ times' \in {times, Executed(t.of, t.batch)}
    BY <2>1 DEF LandLate
  <2>4. CASE times' = times
    BY <1>1, <2>3, <2>4
  <2>5. CASE times' = Executed(t.of, t.batch)
    BY <1>1, <2>2, <2>3, <2>5, ExecutedType
  <2>6. QED
    BY <2>3, <2>4, <2>5
<1>3. CASE \E i \in Steps : OtherKeeper(i)
  <2>1. PICK i \in Steps : OtherKeeper(i)
    BY <1>3
  <2>2. /\ UNCHANGED <<flow, statuses, list, run, orphans, failures, finished, overlap>>
        /\ times' = Executed(0, {i})
    BY <2>1 DEF OtherKeeper
  <2>3. QED
    BY <1>1, <2>2, ExecutedType
<1>4. QED
  BY <1>2, <1>3

LEMMA SeqTypeStep == SeqType /\ [Next]_vars => SeqType'
<1> SUFFICES ASSUME SeqType, [Next]_vars PROVE SeqType'
  OBVIOUS
<1>1. CASE \E r \in Runs : Goes(r) \/ GoesWrong(r)
  BY <1>1, CallType
<1>2. CASE (\E t \in orphans : LandLate(t)) \/ \E i \in Steps : OtherKeeper(i)
  BY <1>2, OtherGoes, OthersType
<1>3. CASE UNCHANGED vars
  <2>1. UNCHANGED <<flow, statuses, list, run, failures, finished, overlap, times, orphans>>
    BY <1>3 DEF vars
  <2>2. times' \in [Lists -> [Steps -> Nat]]
    BY <2>1 DEF SeqType
  <2>3. QED
    BY <2>1, <2>2, OthersType
<1>4. QED
  BY <1>1, <1>2, <1>3 DEF Next

LEMMA SeqTypeInit == Init => SeqType
<1> SUFFICES ASSUME Init PROVE SeqType
  OBVIOUS
<1>1. /\ flow \in Flows /\ list = 0 /\ 0 \in Lists /\ failures = 0 /\ orphans = {}
      /\ times \in [Lists -> [Steps -> Nat]] /\ statuses \in [Steps -> StatusKind]
      /\ finished = {} /\ overlap = {}
  BY SequenceAssumption DEF Init, Lists, AllPending, StatusKind
<1>2. run \in [Runs -> RunStates] /\ Building = {}
  BY IdleType DEF Init, Building, At, Idle
<1>3. Room
  BY <1>1, <1>2, FS_EmptySet, SequenceAssumption DEF Room
<1>4. QED
  BY <1>1, <1>2, <1>3 DEF SeqType

\* Where every call of run is, and that a list that is being built has room:
\* the type of the whole state.
THEOREM SequenceIsTyped == Spec => []SeqType
BY SeqTypeInit, SeqTypeStep, PTL DEF Spec

(***************************************************************************)
(* What has landed                                                         *)
(***************************************************************************)
\* Step `i` of list `l` has landed, when it was executed so many `times`: any
\* list's execution counts, but of a step that every list does for itself.
HasLanded(executed, own, l, i) ==
    IF i \in own THEN executed[l][i] > 0 ELSE \E k \in Lists : executed[k][i] > 0

There(l, i) == HasLanded(times, flow.repeatable, l, i)

LEMMA LandedIs ==
    ASSUME NoneRebuilt, flow \in Flows, NEW l, NEW i
    PROVE  Landed(l, i) <=> There(l, i)
BY DEF NoneRebuilt, Landed, Exists, There, HasLanded

Active(r) == run[r].pc \notin {"idle", "building"}

\* The steps of the batch under way, once they have landed.
JustLanded(r) == IF At(r, "confirming") /\ run[r].fate = "landed" THEN Current(r) ELSE {}

\* What a call knows of its list: a step is yet to be probed, or among those
\* it has still to send, or landed; so has the batch it is to be told of.
RunLanded(r) ==
    /\ run[r].of \in {list} \cup overlap
    /\ flow.caller = "InPlace" => run[r].of = 1
    /\ \A i \in Steps : \/ At(r, "probing") /\ i >= run[r].at
                        \/ i \in run[r].rest
                        \/ There(run[r].of, i)
    /\ \A i \in JustLanded(r) : There(run[r].of, i)

\* Of a list that is kept, what was shown as done stays landed, and so does
\* what a click that is being prepared saw as done.
KeptLanded ==
    flow.caller = "InPlace" =>
        \A i \in Steps : /\ statuses[i] = "done" => There(1, i)
                         /\ \A r \in Building : run[r].seen[i] = "done" => There(1, i)

LandInv ==
    /\ \A i \in Steps : statuses[i] = "done" => \E l \in {list} \cup overlap : There(l, i)
    /\ \A l \in finished, i \in Steps : There(l, i)
    /\ KeptLanded
    /\ \A r \in Runs : Active(r) => RunLanded(r)

\* The steps executed only grow.
TimesGrow ==
    /\ times \in [Lists -> [Steps -> Nat]]
    /\ times' \in [Lists -> [Steps -> Nat]]
    /\ \A l \in Lists, i \in Steps : times'[l][i] >= times[l][i]

LEMMA LandedStays ==
    ASSUME TimesGrow, NEW own, NEW l \in Lists, NEW i \in Steps, HasLanded(times, own, l, i)
    PROVE  HasLanded(times', own, l, i)
<1>1. \A k \in Lists : /\ times[k][i] \in Nat /\ times'[k][i] \in Nat
                       /\ times'[k][i] >= times[k][i]
  BY DEF TimesGrow
<1>2. QED
  BY <1>1 DEF HasLanded

LEMMA CurrentKept ==
    ASSUME UNCHANGED flow, NEW q, run'[q].rest = run[q].rest
    PROVE  Current(q)' = Current(q)
BY DEF Current, Batch, Fits

\* A call that stays where it is knows as much as before.
LEMMA RunKept ==
    ASSUME SeqType, TimesGrow, UNCHANGED flow, NEW q \in Runs, Active(q), RunLanded(q),
           run'[q] = run[q], run[q].of \in ({list} \cup overlap)'
    PROVE  RunLanded(q)'
<1>1. Steps' = Steps /\ Current(q)' = Current(q) /\ flow' = flow
  BY CurrentKept, SameFlow
<1>2. run[q].of \in Lists \ {0} /\ JustLanded(q) \in SUBSET Steps
  BY Holdings DEF Active, JustLanded, At
<1>3. \A i \in Steps : HasLanded(times, flow.repeatable, run[q].of, i) =>
                           HasLanded(times', flow.repeatable, run[q].of, i)
  BY <1>2, LandedStays
<1>4. JustLanded(q)' = JustLanded(q)
  BY <1>1 DEF JustLanded, At
<1>5. QED
  BY <1>1, <1>2, <1>3, <1>4 DEF RunLanded, There, At

LEMMA TimesStay ==
    ASSUME SeqType, UNCHANGED times
    PROVE  TimesGrow
BY DEF TimesGrow, SeqType

\* A call that moves, with the list on display as it was.
LEMMA CallKeepsLanded ==
    ASSUME SeqType, LandInv, TimesGrow, NEW r \in Runs, UNCHANGED <<flow, list, overlap>>,
           \A q \in Runs \ {r} : run'[q] = run[q],
           \A i \in Steps : statuses'[i] = "done" =>
               \/ statuses[i] = "done"
               \/ /\ Active(r)
                  /\ HasLanded(times', flow.repeatable, run[r].of, i),
           \/ finished' = finished
           \/ /\ finished' = finished \cup {run[r].of} /\ Active(r)
              /\ \A i \in Steps : HasLanded(times', flow.repeatable, run[r].of, i),
           run'[r].pc = "building" => run'[r].seen = statuses,
           Active(r)' =>
               /\ Active(r) /\ run'[r].of = run[r].of
               /\ \A i \in Steps : \/ At(r, "probing")' /\ i >= run'[r].at
                                   \/ i \in run'[r].rest
                                   \/ HasLanded(times', flow.repeatable, run[r].of, i)
               /\ \A i \in JustLanded(r)' : HasLanded(times', flow.repeatable, run[r].of, i)
    PROVE  LandInv'
<1> DEFINE Later(l, i) == HasLanded(times', flow.repeatable, l, i)
<1>1. Steps' = Steps /\ flow' = flow /\ list' = list /\ overlap' = overlap
  BY SameFlow
<1>2. /\ list \in Lists /\ overlap \in SUBSET (Lists \ {0}) /\ finished \in SUBSET (Lists \ {0})
      /\ flow.caller = "InPlace" => 1 \in Lists
  BY SequenceAssumption DEF SeqType, Lists
<1>3. \A l \in Lists, i \in Steps : There(l, i) => Later(l, i)
  BY LandedStays DEF There
<1>4. Active(r) => /\ run[r].of \in {list} \cup overlap
                   /\ flow.caller = "InPlace" => run[r].of = 1
                   /\ RunLanded(r)
  BY DEF LandInv, RunLanded
<1>5. \A i \in Steps : statuses'[i] = "done" => \E l \in {list} \cup overlap : Later(l, i)
  <2>1. SUFFICES ASSUME NEW i \in Steps, statuses'[i] = "done"
                 PROVE  \E l \in {list} \cup overlap : Later(l, i)
    OBVIOUS
  <2>2. CASE statuses[i] = "done"
    BY <1>2, <1>3, <2>2 DEF LandInv
  <2>3. CASE Active(r) /\ Later(run[r].of, i)
    BY <1>4, <2>3
  <2>4. QED
    BY <2>1, <2>2, <2>3
<1>6. \A l \in finished', i \in Steps : Later(l, i)
  BY <1>2, <1>3 DEF LandInv
<1>7. ASSUME flow.caller = "InPlace", NEW i \in Steps
      PROVE  /\ statuses'[i] = "done" => Later(1, i)
             /\ \A q \in Runs : run'[q].pc = "building" /\ run'[q].seen[i] = "done" => Later(1, i)
  <2>1. statuses[i] = "done" => Later(1, i)
    BY <1>2, <1>3, <1>7 DEF LandInv, KeptLanded
  <2>2. statuses'[i] = "done" => Later(1, i)
    BY <1>4, <1>7, <2>1
  <2>3. ASSUME NEW q \in Runs, run'[q].pc = "building", run'[q].seen[i] = "done"
        PROVE  Later(1, i)
    <3>1. CASE q = r
      BY <2>1, <2>3, <3>1
    <3>2. CASE q # r
      <4>1. q \in Building /\ run[q].seen[i] = "done"
        BY <2>3, <3>2 DEF Building, At
      <4>2. QED
        BY <1>2, <1>3, <1>7, <4>1 DEF LandInv, KeptLanded
    <3>3. QED
      BY <3>1, <3>2
  <2>4. QED
    BY <2>2, <2>3
<1>8. ASSUME NEW q \in Runs, Active(q)' PROVE RunLanded(q)'
  <2>1. CASE q = r
    BY <1>1, <1>4, <1>8, <2>1 DEF RunLanded, There
  <2>2. CASE q # r
    <3>1. run'[q] = run[q] /\ Active(q)
      BY <1>8, <2>2 DEF Active
    <3>2. RunLanded(q) /\ run[q].of \in ({list} \cup overlap)'
      BY <1>1, <3>1 DEF LandInv, RunLanded
    <3>3. QED
      BY <1>1, <3>1, <3>2, RunKept
  <2>3. QED
    BY <2>1, <2>2
<1>9. KeptLanded'
  BY <1>1, <1>7 DEF KeptLanded, There, Building, At
<1>10. QED
  BY <1>1, <1>5, <1>6, <1>8, <1>9 DEF LandInv, There

LEMMA OthersKeepLanded ==
    ASSUME SeqType, LandInv, TimesGrow,
           UNCHANGED <<flow, statuses, list, run, finished, overlap>>
    PROVE  LandInv'
<1>1. Steps' = Steps /\ flow' = flow /\ list' = list /\ overlap' = overlap
  BY SameFlow
<1>2. /\ list \in Lists /\ overlap \in SUBSET (Lists \ {0}) /\ finished \in SUBSET (Lists \ {0})
      /\ flow.caller = "InPlace" => 1 \in Lists
  BY SequenceAssumption DEF SeqType, Lists
<1>3. \A l \in Lists, i \in Steps :
          There(l, i) => HasLanded(times', flow.repeatable, l, i)
  BY LandedStays DEF There
<1>4. ASSUME NEW q \in Runs, Active(q)' PROVE RunLanded(q)'
  <2>1. run'[q] = run[q] /\ Active(q)
    BY <1>4 DEF Active
  <2>2. RunLanded(q) /\ run[q].of \in ({list} \cup overlap)'
    BY <1>1, <2>1 DEF LandInv, RunLanded
  <2>3. QED
    BY <1>1, <2>1, <2>2, RunKept
<1>5. \A i \in Steps : statuses'[i] = "done" =>
          \E l \in {list} \cup overlap : HasLanded(times', flow.repeatable, l, i)
  BY <1>2, <1>3 DEF LandInv
<1>6. \A l \in finished', i \in Steps : HasLanded(times', flow.repeatable, l, i)
  BY <1>2, <1>3 DEF LandInv
<1>7. Building' = Building
  BY DEF Building, At
<1>8. KeptLanded'
  BY <1>1, <1>2, <1>3, <1>7 DEF LandInv, KeptLanded, There, Building
<1>9. QED
  BY <1>1, <1>4, <1>5, <1>6, <1>8 DEF LandInv, There

\* A new run: of a list that is kept it trusts what the click saw, of another
\* it trusts nothing.
LEMMA StartLands ==
    ASSUME NoneRebuilt, SeqType, LandInv, NEW r \in Runs, Start(r)
    PROVE  LandInv'
<1> DEFINE l == IF SameAccounts THEN 1 ELSE list + 1
           prev == IF Resumes THEN run[r].seen ELSE AllPending
           to == [pc |-> "probing", of |-> l, at |-> Begin(prev), rest |-> {}]
<1>1. /\ run[r].pc = "building" /\ list' = l /\ statuses' = Cleared(prev) /\ Moves(r, to)
      /\ overlap' = {run[q].of : q \in {q \in Runs : ~At(q, "idle") /\ ~At(q, "building")}}
      /\ UNCHANGED <<flow, times, orphans, failures, finished>>
  BY DEF Start, At
<1>2. prev \in [Steps -> StatusKind] /\ flow \in Flows
  BY <1>1, RunFields DEF SeqType, AllPending, StatusKind
<1>3. SeqType' /\ TimesGrow /\ Steps' = Steps
  BY <1>1, StartType, TimesStay, SameFlow
<1>4. to = run'[r] /\ \A q \in Runs \ {r} : run'[q] = run[q]
  BY <1>1 DEF Moves, SeqType
<1>5. flow.caller = "InPlace" \/ flow.caller = "Fresh"
  BY <1>2, FlowFacts DEF NoneRebuilt, Callers
<1>6. \A i \in Steps : prev[i] = "done" => flow.caller = "InPlace" /\ There(1, i) /\ l = 1
  <2>1. CASE flow.caller = "Fresh"
    BY <2>1 DEF Resumes, AllPending
  <2>2. CASE flow.caller = "InPlace"
    <3>1. prev = run[r].seen /\ l = 1 /\ r \in Building
      BY <1>1, <2>2 DEF Resumes, SameAccounts, Building, At
    <3>2. QED
      BY <2>2, <3>1 DEF LandInv, KeptLanded
  <2>3. QED
    BY <1>5, <2>1, <2>2
<1>7. /\ \A i \in Steps : i < Begin(prev) => prev[i] = "done"
      /\ \A i \in Steps : statuses'[i] = "done" => prev[i] = "done"
      /\ Begin(prev) \in 1..(N + 1)
  BY <1>1, <1>2, BeginIs
<1>8. ASSUME NEW q \in Runs, Active(q)' PROVE RunLanded(q)'
  <2>1. CASE q = r
    <3>1. /\ run'[q].pc = "probing" /\ run'[q].of = list' /\ run'[q].at = Begin(prev)
          /\ run'[q].of = l /\ JustLanded(q)' = {}
      BY <1>1, <1>4, <2>1 DEF JustLanded, At
    <3>2. flow.caller = "InPlace" => l = 1
      BY DEF SameAccounts
    <3>3. \A i \in Steps : i >= Begin(prev) \/ There(l, i)
      <4>1. ASSUME NEW i \in Steps, ~(i >= Begin(prev)) PROVE There(l, i)
        <5>1. i < Begin(prev)
          BY <1>2, <1>7, <4>1, FlowFacts
        <5>2. QED
          BY <1>6, <1>7, <5>1
      <4>2. QED
        BY <4>1
    <3> HIDE DEF l, prev, to
    <3>4. \A i \in Steps : \/ i >= run'[q].at
                            \/ HasLanded(times', flow'.repeatable, run'[q].of, i)
      BY <1>1, <3>1, <3>3 DEF There
    <3>5. run'[q].of \in ({list} \cup overlap)' /\ (flow'.caller = "InPlace" => run'[q].of = 1)
      BY <1>1, <3>1, <3>2
    <3>6. QED
      BY <1>1, <1>3, <3>1, <3>2, <3>4, <3>5 DEF RunLanded, There, At
  <2>2. CASE q # r
    <3>1. run'[q] = run[q] /\ Active(q)
      BY <1>4, <1>8, <2>2 DEF Active
    <3>2. RunLanded(q) /\ run[q].of \in ({list} \cup overlap)'
      BY <1>1, <3>1 DEF LandInv, Active, At
    <3> HIDE DEF l, prev, to
    <3>3. QED
      BY <1>1, <1>3, <3>1, <3>2, RunKept
  <2>3. QED
    BY <2>1, <2>2
<1>9. \A i \in Steps : statuses'[i] = "done" => There(1, i) /\ l = 1 /\ flow.caller = "InPlace"
  BY <1>6, <1>7
<1>10. Building' \in SUBSET Building /\ \A q \in Building' : run'[q] = run[q]
  <2>1. run'[r].pc # "building"
    BY <1>4
  <2> HIDE DEF l, prev, to
  <2>2. QED
    BY <1>4, <2>1 DEF Building, At
<1>11. \A k, i : There(k, i)' <=> HasLanded(times, flow.repeatable, k, i)
  BY <1>1 DEF There
<1> HIDE DEF l, prev, to
<1>12. KeptLanded'
  BY <1>1, <1>3, <1>9, <1>10 DEF LandInv, KeptLanded, There
<1>13. \A i \in Steps : statuses'[i] = "done" =>
            \E k \in ({list} \cup overlap)' : HasLanded(times', flow'.repeatable, k, i)
  BY <1>1, <1>9 DEF There
<1>14. \A k \in finished', i \in Steps : HasLanded(times', flow'.repeatable, k, i)
  BY <1>1 DEF LandInv, There
<1>15. QED
  BY <1>3, <1>8, <1>12, <1>13, <1>14 DEF LandInv, There

LEMMA ProceedLands ==
    ASSUME SeqType, LandInv, NEW r \in Runs, Active(r),
           NEW left \in SUBSET Steps, NEW shown \in [Steps -> StatusKind],
           Proceed(r, left, shown), UNCHANGED <<flow, times, list, orphans, failures, overlap>>,
           \A i \in Steps : shown[i] = "done" => statuses[i] = "done" \/ There(run[r].of, i),
           \A i \in Steps : i \in left \/ There(run[r].of, i)
    PROVE  LandInv'
<1>1. /\ run'[r] = IF left = {} THEN Idle
                   ELSE [pc |-> "relaying", of |-> run[r].of, rest |-> left]
      /\ Moves(r, run'[r])
      /\ \A i \in Steps : statuses'[i] = "done" => shown[i] = "done"
      /\ finished' = IF left = {} THEN finished \cup {run[r].of} ELSE finished
  BY ProceedsTo DEF Active
<1>2. \A q \in Runs \ {r} : run'[q] = run[q]
  BY <1>1 DEF Moves, SeqType
<1>3. run'[r].pc # "building" /\ JustLanded(r)' = {}
  BY <1>1 DEF Idle, JustLanded, At
<1>4. Active(r)' => run'[r].of = run[r].of /\ run'[r].rest = left
  BY <1>1 DEF Active, Idle
<1>5. \A i \in Steps : There(run[r].of, i) <=>
                           HasLanded(times', flow.repeatable, run[r].of, i)
  BY DEF There
<1>6. \/ finished' = finished
      \/ /\ finished' = finished \cup {run[r].of} /\ Active(r)
         /\ \A i \in Steps : HasLanded(times', flow.repeatable, run[r].of, i)
  BY <1>1, <1>5
<1>7. \A i \in Steps : statuses'[i] = "done" =>
          \/ statuses[i] = "done"
          \/ Active(r) /\ HasLanded(times', flow.repeatable, run[r].of, i)
  BY <1>1, <1>5
<1>8. QED
  BY <1>2, <1>3, <1>4, <1>5, <1>6, <1>7, TimesStay, CallKeepsLanded

LEMMA EndsLands ==
    ASSUME SeqType, LandInv, NEW r \in Runs, Ends(r),
           UNCHANGED <<flow, times, list, finished, overlap>>,
           \A i \in Steps : statuses'[i] = "done" => statuses[i] = "done"
    PROVE  LandInv'
<1>1. run'[r] = Idle /\ \A q \in Runs \ {r} : run'[q] = run[q]
  BY DEF Ends, Moves, SeqType
<1>2. run'[r].pc # "building" /\ ~Active(r)'
  BY <1>1 DEF Idle, Active
<1>3. QED
  BY <1>1, <1>2, TimesStay, CallKeepsLanded

\* Marking what failed marks nothing as done.
LEMMA ErrorsAreNotDone ==
    ASSUME NEW idxs
    PROVE  \A i \in Steps : Marked(idxs, "error")[i] = "done" => statuses[i] = "done"
BY DEF Marked

LEMMA CallLands ==
    ASSUME NoneRebuilt, SeqType, LandInv, NEW r \in Runs, Goes(r) \/ GoesWrong(r)
    PROVE  LandInv'
<1> USE Holdings
<1>1. CASE Click(r)
  <2>1. /\ run[r].pc = "idle" /\ run'[r] = [pc |-> "building", seen |-> statuses]
        /\ \A q \in Runs \ {r} : run'[q] = run[q]
        /\ UNCHANGED <<flow, times, statuses, list, orphans, finished, overlap>>
    BY <1>1 DEF Click, At, Moves, SeqType
  <2>2. run'[r].seen = statuses /\ ~Active(r)'
    BY <2>1 DEF Active
  <2>3. QED
    BY <2>1, <2>2, TimesStay, CallKeepsLanded
<1>2. CASE Start(r)
  BY <1>2, StartLands
<1>3. CASE Probe(r)
  <2> DEFINE of == run[r].of
             at == run[r].at
  <2>1. /\ run[r].pc = "probing" /\ at \in Steps /\ of \in Lists \ {0}
        /\ UNCHANGED <<flow, times, list, orphans, finished, overlap>>
        /\ run'[r].pc = "probing" /\ run'[r].of = of /\ run'[r].at = at + 1
        /\ \/ /\ run'[r].rest = run[r].rest /\ statuses' = Marked({at}, "done")
              /\ There(of, at)
           \/ run'[r].rest = run[r].rest \cup {at} /\ UNCHANGED statuses
    BY <1>3, ProbeGoes, LandedIs
  <2>2. \A q \in Runs \ {r} : run'[q] = run[q]
    BY <1>3, ProbeGoes, RunMoves
  <2>3. Active(r) /\ RunLanded(r)
    BY <2>1 DEF Active, LandInv
  <2>4. \A i \in Steps : There(of, i) <=> HasLanded(times', flow.repeatable, of, i)
    BY <2>1 DEF There
  <2>5. \A i \in Steps : statuses'[i] = "done" => statuses[i] = "done" \/ There(of, i)
    BY <2>1 DEF Marked
  <2>6. \A i \in Steps : \/ i >= at + 1 \/ i \in run'[r].rest \/ There(of, i)
    <3>1. SUFFICES ASSUME NEW i \in Steps, ~(i >= at + 1)
                   PROVE  i \in run'[r].rest \/ There(of, i)
      OBVIOUS
    <3>2. i = at \/ ~(i >= at)
      BY <2>1, <3>1, FlowFacts
    <3>3. CASE i = at
      BY <2>1, <3>3
    <3>4. CASE ~(i >= at)
      BY <2>1, <2>3, <3>4 DEF RunLanded, At
    <3>5. QED
      BY <3>2, <3>3, <3>4
  <2>7. JustLanded(r)' = {}
    BY <2>1 DEF JustLanded, At
  <2>8. At(r, "probing")' /\ run'[r].pc # "building"
    BY <2>1 DEF At
  <2>9. \A i \in Steps : \/ At(r, "probing")' /\ i >= run'[r].at
                         \/ i \in run'[r].rest
                         \/ HasLanded(times', flow.repeatable, of, i)
    BY <2>1, <2>4, <2>6, <2>8
  <2>10. \A i \in Steps : statuses'[i] = "done" =>
             statuses[i] = "done" \/ (Active(r) /\ HasLanded(times', flow.repeatable, of, i))
    BY <2>3, <2>4, <2>5
  <2>11. finished' = finished /\ UNCHANGED <<flow, list, overlap>> /\ run'[r].of = of
    BY <2>1
  <2>12. QED
    BY <2>1, <2>2, <2>3, <2>7, <2>8, <2>9, <2>10, <2>11, TimesStay, CallKeepsLanded
<1>4. CASE Pack(r)
  <2> DEFINE to == [pc |-> "signing", of |-> run[r].of, rest |-> run[r].rest]
  <2>1. /\ run[r].pc = "probing" /\ run[r].at = N + 1
        /\ UNCHANGED <<flow, times, list, orphans, failures, overlap>>
        /\ \/ Moves(r, to) /\ UNCHANGED <<statuses, finished>>
           \/ Proceed(r, run[r].rest, statuses)
    BY <1>4 DEF Pack, At
  <2>2. Active(r) /\ RunLanded(r)
    BY <2>1 DEF Active, LandInv
  <2>3. \A i \in Steps : i \in run[r].rest \/ There(run[r].of, i)
    <3>1. \A i \in Steps : ~(i >= N + 1)
      BY FlowFacts
    <3>2. QED
      BY <2>1, <2>2, <3>1 DEF RunLanded
  <2>4. CASE Proceed(r, run[r].rest, statuses)
    BY <2>1, <2>2, <2>3, <2>4, ProceedLands DEF Active
  <2>5. CASE Moves(r, to) /\ UNCHANGED <<statuses, finished>>
    <3>1. run'[r] = to /\ \A q \in Runs \ {r} : run'[q] = run[q]
      BY <2>5 DEF Moves, SeqType
    <3>2. run'[r].pc # "building" /\ JustLanded(r)' = {} /\ run'[r].of = run[r].of
          /\ run'[r].rest = run[r].rest
      BY <3>1 DEF JustLanded, At
    <3>3. \A i \in Steps : i \in run[r].rest \/ HasLanded(times', flow.repeatable, run[r].of, i)
      BY <2>1, <2>3 DEF There
    <3> HIDE DEF to
    <3>4. QED
      BY <2>1, <2>2, <2>5, <3>1, <3>2, <3>3, TimesStay, CallKeepsLanded
  <2>6. QED
    BY <2>1, <2>4, <2>5
<1>5. CASE SignAll(r)
  <2>1. /\ run[r].pc = "signing" /\ UNCHANGED <<flow, times, list, orphans, failures, overlap>>
        /\ Proceed(r, run[r].rest, statuses)
    BY <1>5 DEF SignAll, At
  <2>2. Active(r) /\ RunLanded(r)
    BY <2>1 DEF Active, LandInv
  <2>3. \A i \in Steps : i \in run[r].rest \/ There(run[r].of, i)
    BY <2>1, <2>2 DEF RunLanded, At
  <2>4. QED
    BY <2>1, <2>2, <2>3, ProceedLands DEF Active
<1>6. CASE Relay(r)
  <2> DEFINE to == [pc |-> "confirming", of |-> run[r].of, rest |-> run[r].rest, fate |-> "sent"]
  <2>1. /\ run[r].pc = "relaying" /\ Moves(r, to)
        /\ UNCHANGED <<flow, times, statuses, list, orphans, failures, finished, overlap>>
    BY <1>6 DEF Relay, At
  <2>2. Active(r) /\ RunLanded(r)
    BY <2>1 DEF Active, LandInv
  <2>3. run'[r] = to /\ \A q \in Runs \ {r} : run'[q] = run[q]
    BY <2>1 DEF Moves, SeqType
  <2>4. run'[r].pc # "building" /\ JustLanded(r)' = {} /\ run'[r].of = run[r].of
        /\ run'[r].rest = run[r].rest
    BY <2>3 DEF JustLanded, At
  <2>5. \A i \in Steps : i \in run[r].rest \/ HasLanded(times', flow.repeatable, run[r].of, i)
    BY <2>1, <2>2 DEF RunLanded, There, At
  <2> HIDE DEF to
  <2>6. QED
    BY <2>1, <2>2, <2>3, <2>4, <2>5, TimesStay, CallKeepsLanded
<1>7. CASE Land(r)
  <2> DEFINE of == run[r].of
  <2>1. /\ run[r].pc = "confirming" /\ run'[r].pc = "confirming" /\ run'[r].of = of
        /\ run'[r].rest = run[r].rest
        /\ UNCHANGED <<flow, statuses, list, orphans, failures, finished, overlap>>
        /\ IF Executable(of, Current(r))
           THEN times' = Executed(of, Current(r)) /\ run'[r].fate = "landed"
           ELSE UNCHANGED times /\ run'[r].fate = "failed"
    BY <1>7, LandGoes
  <2>2. \A q \in Runs \ {r} : run'[q] = run[q]
    BY <1>7, LandGoes, RunMoves
  <2>3. Active(r) /\ RunLanded(r) /\ of \in Lists
    BY <2>1 DEF Active, LandInv
  <2>4. TimesGrow
    <3>1. CASE Executable(of, Current(r))
      BY <2>1, <2>3, <3>1, ExecutedType DEF TimesGrow
    <3>2. CASE ~Executable(of, Current(r))
      BY <2>1, <3>2, TimesStay
    <3>3. QED
      BY <3>1, <3>2
  <2>5. \A i \in Steps : i \in run'[r].rest \/ HasLanded(times', flow.repeatable, of, i)
    <3>1. \A i \in Steps : There(of, i) => HasLanded(times', flow.repeatable, of, i)
      BY <2>3, <2>4, LandedStays DEF There
    <3>2. QED
      BY <2>1, <2>3, <3>1 DEF RunLanded, At
  <2>6. \A i \in JustLanded(r)' : HasLanded(times', flow.repeatable, of, i)
    <3>1. Current(r)' = Current(r) /\ Current(r) \in SUBSET Steps
      BY <2>1, CurrentKept
    <3>2. SUFFICES ASSUME run'[r].fate = "landed", NEW i \in Current(r)
                   PROVE  HasLanded(times', flow.repeatable, of, i)
      BY <3>1 DEF JustLanded
    <3>3. times' = Executed(of, Current(r))
      BY <2>1, <3>2
    <3>4. times'[of][i] = times[of][i] + 1 /\ times[of][i] \in Nat
      BY <2>3, <3>1, <3>2, <3>3, ExecutedType
    <3>5. times'[of][i] > 0
      BY <3>4
    <3>6. QED
      BY <2>3, <3>5 DEF HasLanded
  <2>7. QED
    BY <2>1, <2>2, <2>3, <2>4, <2>5, <2>6, CallKeepsLanded
<1>8. CASE Confirm(r)
  <2> DEFINE left == run[r].rest \ Current(r)
             shown == Marked(Current(r), "done")
  <2>1. /\ run[r].pc = "confirming" /\ run[r].fate = "landed"
        /\ UNCHANGED <<flow, times, list, orphans, failures, overlap>>
        /\ Proceed(r, left, shown)
    BY <1>8 DEF Confirm, At
  <2>2. Active(r) /\ RunLanded(r) /\ left \in SUBSET Steps
    BY <2>1 DEF Active, LandInv
  <2>3. \A i \in Current(r) : There(run[r].of, i)
    BY <2>1, <2>2 DEF RunLanded, JustLanded, At
  <2>4. \A i \in Steps : i \in left \/ There(run[r].of, i)
    BY <2>1, <2>2, <2>3 DEF RunLanded, At
  <2>5. \A i \in Steps : shown[i] = "done" => statuses[i] = "done" \/ There(run[r].of, i)
    BY <2>3 DEF Marked
  <2>6. shown \in [Steps -> StatusKind]
    BY MarkedKind DEF StatusKind
  <2> HIDE DEF left, shown
  <2>7. QED
    BY <2>1, <2>2, <2>4, <2>5, <2>6, ProceedLands
<1>9. CASE ConfirmFails(r)
  BY <1>9, EndsLands, ErrorsAreNotDone DEF ConfirmFails, GiveUp
<1>10. CASE BuildFails(r)
  BY <1>10, EndsLands DEF BuildFails
<1>11. CASE WalletGone(r)
  <2>1. \A i \in Steps : AllPending[i] # "done"
    BY DEF AllPending
  <2>2. QED
    BY <1>11, <2>1, EndsLands DEF WalletGone
<1>12. CASE SignAllFails(r)
  BY <1>12, EndsLands, ErrorsAreNotDone DEF SignAllFails, GiveUp
<1>13. CASE RelayFails(r)
  BY <1>13, EndsLands, ErrorsAreNotDone DEF RelayFails, GiveUp
<1>14. CASE Timeout(r)
  BY <1>14, EndsLands, ErrorsAreNotDone DEF Timeout, OnTimeout, GiveUp
<1>15. QED
  BY <1>1, <1>2, <1>3, <1>4, <1>5, <1>6, <1>7, <1>8, <1>9, <1>10, <1>11, <1>12, <1>13, <1>14
     DEF Goes, GoesWrong

LEMMA LandStep == NoneRebuilt /\ SeqType /\ LandInv /\ [Next]_vars => LandInv'
<1> SUFFICES ASSUME NoneRebuilt, SeqType, LandInv, [Next]_vars PROVE LandInv'
  OBVIOUS
<1>1. CASE \E r \in Runs : Goes(r) \/ GoesWrong(r)
  BY <1>1, CallLands
<1>2. CASE (\E t \in orphans : LandLate(t)) \/ \E i \in Steps : OtherKeeper(i)
  <2>1. TimesGrow
    BY <1>2, OtherGoes DEF TimesGrow, SeqType
  <2>2. QED
    BY <1>2, <2>1, OtherGoes, OthersKeepLanded
<1>3. CASE UNCHANGED vars
  <2>1. UNCHANGED <<flow, statuses, list, run, failures, finished, overlap, times, orphans>>
    BY <1>3 DEF vars
  <2>2. QED
    BY <2>1, TimesStay, OthersKeepLanded
<1>4. QED
  BY <1>1, <1>2, <1>3 DEF Next

LEMMA LandInit == Init => LandInv
<1> SUFFICES ASSUME Init PROVE LandInv
  OBVIOUS
<1>1. /\ \A i \in Steps : statuses[i] # "done"
      /\ finished = {}
  BY DEF Init, AllPending
<1>2. \A r \in Runs : ~Active(r) /\ r \notin Building
  BY DEF Init, Active, Idle, Building, At
<1>3. QED
  BY <1>1, <1>2 DEF LandInv, KeptLanded, Building

LEMMA WhatLanded == ASSUME NoneRebuilt PROVE Spec => [](SeqType /\ LandInv)
<1>1. Init => SeqType /\ LandInv
  BY SeqTypeInit, LandInit
<1>2. SeqType /\ LandInv /\ [Next]_vars => (SeqType /\ LandInv)'
  BY SeqTypeStep, LandStep
<1>3. QED
  BY <1>1, <1>2, PTL DEF Spec

\* What a page shows as done is done, and what a run reports as finished is
\* finished, for every list of steps and every interleaving of clicks,
\* timeouts and other keepers: of every control but the one that takes over
\* the statuses of a list about other accounts.
THEOREM DoneIsLanded == ASSUME NoneRebuilt PROVE Spec => []DoneMeansLanded
<1>1. ASSUME SeqType, LandInv PROVE DoneMeansLanded
  BY <1>1, LandedIs DEF LandInv, DoneMeansLanded, SeqType
<1>2. QED
  BY <1>1, WhatLanded, PTL

\* Transactions go out in order: nothing is sent before all the steps that
\* come before it in the list have landed.
THEOREM NothingSentEarly == ASSUME NoneRebuilt PROVE Spec => []SentInOrder
<1>1. ASSUME SeqType, LandInv PROVE SentInOrder
  <2>1. SUFFICES ASSUME NEW r \in Runs, run[r].pc \in {"relaying", "confirming"},
                        NEW i \in Steps, i < Min(run[r].rest)
                 PROVE  Landed(run[r].of, i)
    BY DEF SentInOrder
  <2>2. /\ run[r].rest \in SUBSET Steps /\ run[r].rest # {} /\ flow \in Flows
        /\ Active(r) /\ ~At(r, "probing")
    BY <1>1, <2>1, Holdings DEF Active, At
  <2>3. i \notin run[r].rest
    <3>1. ASSUME i \in run[r].rest PROVE FALSE
      <4>1. Min(run[r].rest) <= i /\ Min(run[r].rest) \in 1..N /\ i \in 1..N /\ N \in Nat
        BY <2>2, <3>1, BatchIsPart, FlowFacts
      <4>2. QED
        BY <2>1, <4>1
    <3>2. QED
      BY <3>1
  <2>4. QED
    BY <1>1, <2>1, <2>2, <2>3, LandedIs DEF LandInv, RunLanded
<1>2. QED
  BY <1>1, WhatLanded, PTL

(***************************************************************************)
(* One deposit a click                                                     *)
(***************************************************************************)
\* The call `r` may still send the step `i` of the list `l`.
Holds(r, l, i) ==
    /\ Active(r) /\ run[r].of = l
    /\ \/ At(r, "probing") /\ i >= run[r].at
       \/ i \in run[r].rest /\ i \notin JustLanded(r)

\* The transaction `t`, given up on, may still execute it.
Adrift(t, l, i) == t \in orphans /\ t.of = l /\ i \in t.batch

\* Every click has a list of its own.
OneList ==
    /\ \A r \in Runs : Active(r) => run[r].of <= list
    /\ \A r, q \in Runs : Active(r) /\ Active(q) /\ run[r].of = run[q].of => r = q
    /\ \A t \in orphans : t.of <= list

\* There is one token for each deposit: a call holds it, or a transaction
\* adrift, or the chain.
Once(l, i) ==
    /\ times[l][i] <= 1
    /\ l > list => times[l][i] = 0
    /\ \A r \in Runs : Holds(r, l, i) => times[l][i] = 0 /\ \A t \in orphans : ~Adrift(t, l, i)
    /\ \A t \in orphans : Adrift(t, l, i) =>
           times[l][i] = 0 /\ \A s \in orphans : Adrift(s, l, i) => s = t

Deposits == flow.caller = "Fresh" /\ flow.repeatable # {}

OnceInv ==
    Deposits => OneList /\ \A l \in Lists \ {0}, i \in flow.repeatable : Once(l, i)

\* A call that moves on, or ends and leaves a transaction adrift, passes on
\* what it holds and makes nothing.
LEMMA CallPassesOn ==
    ASSUME SeqType, OnceInv, NEW r \in Runs, UNCHANGED <<flow, times, list>>,
           \A q \in Runs \ {r} : run'[q] = run[q],
           Active(r)' => Active(r) /\ run'[r].of = run[r].of,
           \A l \in Lists \ {0}, i \in flow.repeatable : Holds(r, l, i)' => Holds(r, l, i),
           \/ orphans' = orphans
           \/ \E t : /\ orphans' = orphans \cup {t} /\ ~Active(r)'
                     /\ Active(r) /\ t.of = run[r].of
                     /\ \A i \in t.batch : Holds(r, t.of, i)
    PROVE  OnceInv'
<1> SUFFICES ASSUME Deposits' PROVE OneList' /\ \A l \in Lists \ {0}, i \in flow.repeatable :
                                                      Once(l, i)'
  BY DEF OnceInv
<1>1. OneList /\ \A l \in Lists \ {0}, i \in flow.repeatable : Once(l, i)
  BY DEF OnceInv, Deposits
<1>2. ASSUME NEW q \in Runs, Active(q)' PROVE Active(q) /\ run'[q].of = run[q].of
  <2>1. CASE q = r
    BY <1>2, <2>1
  <2>2. CASE q # r
    BY <1>2, <2>2 DEF Active
  <2>3. QED
    BY <2>1, <2>2
<1>3. ASSUME NEW q \in Runs, NEW l \in Lists \ {0}, NEW i \in flow.repeatable, Holds(q, l, i)'
      PROVE  Holds(q, l, i)
  <2>1. CASE q = r
    BY <1>3, <2>1
  <2>2. CASE q # r
    <3>1. run'[q] = run[q] /\ JustLanded(q)' = JustLanded(q)
      BY <2>2, CurrentKept DEF JustLanded, At
    <3>2. QED
      BY <1>3, <3>1 DEF Holds, Active, At
  <2>3. QED
    BY <2>1, <2>2
<1>4. OneList'
  BY <1>1, <1>2 DEF OneList
<1>5. ASSUME NEW l \in Lists \ {0}, NEW i \in flow.repeatable PROVE Once(l, i)'
  <2>1. Once(l, i)
    BY <1>1
  <2>2. CASE orphans' = orphans
    BY <1>3, <2>1, <2>2 DEF Once, Adrift
  <2>3. ASSUME NEW t, orphans' = orphans \cup {t}, ~Active(r)', Active(r), t.of = run[r].of,
               \A k \in t.batch : Holds(r, t.of, k)
        PROVE  Once(l, i)'
    <3>1. t.of = l /\ i \in t.batch => Holds(r, l, i)
      BY <2>3
    <3>2. \A q \in Runs : Holds(q, l, i)' => ~(t.of = l /\ i \in t.batch)
      <4>1. SUFFICES ASSUME NEW q \in Runs, Holds(q, l, i)', t.of = l PROVE FALSE
        OBVIOUS
      <4>2. Active(q) /\ run[q].of = l /\ q # r
        BY <1>2, <1>3, <2>3, <4>1 DEF Holds
      <4>3. QED
        BY <1>1, <2>3, <4>1, <4>2 DEF OneList
    <3>3. \A s \in orphans' : Adrift(s, l, i)' <=>
              (Adrift(s, l, i) \/ (s = t /\ t.of = l /\ i \in t.batch))
      BY <2>3 DEF Adrift
    <3>4. CASE t.of = l /\ i \in t.batch
      <4>1. times[l][i] = 0 /\ \A s \in orphans : ~Adrift(s, l, i)
        BY <2>1, <3>1, <3>4 DEF Once
      <4>2. \A s \in orphans' : Adrift(s, l, i)' => s = t
        BY <3>3, <4>1 DEF Adrift
      <4>3. QED
        BY <2>1, <3>2, <3>4, <4>1, <4>2 DEF Once
    <3>5. CASE ~(t.of = l /\ i \in t.batch)
      <4>1. \A s : Adrift(s, l, i)' <=> Adrift(s, l, i)
        BY <2>3, <3>5 DEF Adrift
      <4>2. \A s : Adrift(s, l, i) => s \in orphans
        BY DEF Adrift
      <4>3. QED
        BY <1>3, <2>1, <4>1, <4>2 DEF Once
    <3>6. QED
      BY <3>4, <3>5
  <2>4. QED
    BY <2>2, <2>3
<1>6. QED
  BY <1>4, <1>5

\* A new list: nothing of it is executed, and nobody else sends it.
LEMMA StartOnce ==
    ASSUME SeqType, OnceInv, NEW r \in Runs, Start(r)
    PROVE  OnceInv'
<1> SUFFICES ASSUME Deposits' PROVE OneList' /\ \A l \in Lists \ {0}, i \in flow.repeatable :
                                                      Once(l, i)'
  BY DEF OnceInv, Start
<1>1. UNCHANGED <<flow, times, orphans, failures, finished>> /\ run[r].pc = "building"
  BY DEF Start, At
<1>2. /\ Deposits /\ OneList
      /\ \A l \in Lists \ {0}, i \in flow.repeatable : Once(l, i)
  BY <1>1 DEF OnceInv, Deposits
<1>3. ~SameAccounts
  BY <1>2 DEF SameAccounts, Deposits
<1>4. PICK b : list' = list + 1 /\ Moves(r, [pc |-> "probing", of |-> list + 1, at |-> b,
                                             rest |-> {}])
  BY <1>3 DEF Start
<1>5. /\ run'[r].pc = "probing" /\ run'[r].of = list + 1 /\ run'[r].rest = {}
      /\ \A q \in Runs \ {r} : run'[q] = run[q]
  BY <1>4 DEF Moves, SeqType
<1>6. list \in Nat /\ \A q \in Runs : Active(q) => run[q].of <= list /\ run[q].of \in Nat
  BY <1>2, Holdings, SequenceAssumption DEF OneList, Active, SeqType, Lists
<1>7. ASSUME NEW q \in Runs \ {r}, Active(q)' PROVE Active(q) /\ run'[q].of = run[q].of
  BY <1>5, <1>7 DEF Active
<1>8. \A t \in orphans : t.of \in Nat /\ t.of <= list
  BY <1>2, SequenceAssumption DEF SeqType, OneList, Lists
<1>9. OneList'
  <2>1. \A q \in Runs : Active(q)' => run'[q].of <= list + 1
    <3>1. ASSUME NEW q \in Runs, Active(q)' PROVE run'[q].of <= list + 1
      <4>1. CASE q = r
        BY <1>5, <1>6, <4>1
      <4>2. CASE q # r
        BY <1>6, <1>7, <3>1, <4>2
      <4>3. QED
        BY <4>1, <4>2
    <3>2. QED
      BY <3>1
  <2>2. ASSUME NEW p \in Runs, NEW q \in Runs, Active(p)', Active(q)', run'[p].of = run'[q].of
        PROVE  p = q
    <3>1. ASSUME NEW k \in Runs \ {r}, Active(k)' PROVE run'[k].of # run'[r].of
      BY <1>5, <1>6, <1>7, <3>1
    <3>2. CASE p = r \/ q = r
      BY <2>2, <3>1, <3>2
    <3>3. CASE p # r /\ q # r
      BY <1>2, <1>7, <2>2, <3>3 DEF OneList
    <3>4. QED
      BY <3>2, <3>3
  <2>3. \A t \in orphans' : t.of <= list + 1
    BY <1>1, <1>6, <1>8
  <2>4. QED
    BY <1>4, <2>1, <2>2, <2>3 DEF OneList
<1>10. ASSUME NEW l \in Lists \ {0}, NEW i \in flow.repeatable PROVE Once(l, i)'
  <2>1. Once(l, i) /\ l \in Nat
    BY <1>2, SequenceAssumption DEF Lists
  <2>2. l > list + 1 => times[l][i] = 0
    BY <1>6, <2>1 DEF Once
  <2>3. \A t : Adrift(t, l, i)' <=> Adrift(t, l, i)
    BY <1>1 DEF Adrift
  <2>4. ASSUME NEW q \in Runs, Holds(q, l, i)'
        PROVE  times[l][i] = 0 /\ \A t \in orphans : ~Adrift(t, l, i)
    <3>1. CASE q = r
      <4>1. l = list + 1
        BY <1>5, <2>4, <3>1 DEF Holds
      <4>2. QED
        BY <1>6, <1>8, <2>1, <4>1 DEF Once, Adrift
    <3>2. CASE q # r
      <4>1. run'[q] = run[q] /\ JustLanded(q)' = JustLanded(q)
        BY <1>1, <1>5, <3>2, CurrentKept DEF JustLanded, At
      <4>2. Holds(q, l, i)
        BY <2>4, <4>1 DEF Holds, Active, At
      <4>3. QED
        BY <2>1, <4>2 DEF Once
    <3>3. QED
      BY <3>1, <3>2
  <2>5. QED
    BY <1>1, <1>4, <2>1, <2>2, <2>3, <2>4 DEF Once
<1>11. QED
  BY <1>9, <1>10

\* The token goes to the chain: when it is executed, nobody else has it.
LEMMA ExecutedOnce ==
    ASSUME SeqType, OnceInv, Deposits, UNCHANGED <<flow, list>>,
           NEW of \in Lists, of <= list, NEW batch \in SUBSET Steps, times' = Executed(of, batch),
           orphans' \in SUBSET orphans,
           \A q \in Runs : Active(q)' => Active(q) /\ run'[q].of = run[q].of,
           \A q \in Runs, l \in Lists \ {0}, i \in flow.repeatable :
               Holds(q, l, i)' => Holds(q, l, i) /\ ~(l = of /\ i \in batch),
           \A i \in flow.repeatable \cap batch : of # 0 =>
               times[of][i] = 0 /\ \A t \in orphans' : ~Adrift(t, of, i)
    PROVE  OnceInv'
<1>1. OneList /\ \A l \in Lists \ {0}, i \in flow.repeatable : Once(l, i)
  BY DEF OnceInv
<1>2. OneList'
  BY <1>1 DEF OneList
<1>3. ASSUME NEW l \in Lists \ {0}, NEW i \in flow.repeatable PROVE Once(l, i)'
  <2>1. Once(l, i) /\ i \in Steps /\ flow \in Flows
    BY <1>1, FlowFacts DEF SeqType
  <2>2. times'[l][i] = times[l][i] + (IF l = of /\ i \in batch THEN 1 ELSE 0)
    BY <2>1, ExecutedType DEF SeqType
  <2>3. times[l][i] \in Nat
    BY <2>1 DEF SeqType
  <2>4. \A t : Adrift(t, l, i)' => Adrift(t, l, i) /\ t \in orphans'
    BY DEF Adrift
  <2>5. CASE l = of /\ i \in batch
    <3>1. times'[l][i] = 1 /\ \A t \in orphans' : ~Adrift(t, l, i)
      BY <2>2, <2>5
    <3>2. ~(l > list)
      BY <2>5, SequenceAssumption DEF SeqType, Lists
    <3>3. \A q \in Runs : ~Holds(q, l, i)'
      BY <2>5
    <3>4. \A t \in orphans' : ~Adrift(t, l, i)'
      BY <2>4, <3>1
    <3>5. QED
      BY <3>1, <3>2, <3>3, <3>4 DEF Once
  <2>6. CASE ~(l = of /\ i \in batch)
    <3>1. times'[l][i] = times[l][i]
      BY <2>2, <2>3, <2>6
    <3>2. QED
      BY <2>1, <2>4, <3>1 DEF Once
  <2>7. QED
    BY <2>5, <2>6
<1>4. QED
  BY <1>2, <1>3 DEF OnceInv

LEMMA OnceStays ==
    ASSUME OnceInv, UNCHANGED <<flow, times, list, run>>, orphans' \in SUBSET orphans
    PROVE  OnceInv'
<1>1. \A t, l, i : Adrift(t, l, i)' => Adrift(t, l, i) /\ t \in orphans'
  BY DEF Adrift
<1>2. \A q : JustLanded(q)' = JustLanded(q)
  BY CurrentKept DEF JustLanded, At
<1>3. \A q, l, i : Holds(q, l, i)' <=> Holds(q, l, i)
  BY <1>2 DEF Holds, Active, At
<1>4. OneList => OneList'
  BY DEF OneList, Active
<1>5. \A l, i : Once(l, i) => Once(l, i)'
  BY <1>1, <1>3 DEF Once
<1>6. QED
  BY <1>4, <1>5 DEF OnceInv, Deposits

LEMMA LandOnce ==
    ASSUME SeqType, OnceInv, NEW r \in Runs, Land(r)
    PROVE  OnceInv'
<1> DEFINE of == run[r].of
<1>1. /\ run[r].pc = "confirming" /\ run[r].fate = "sent"
      /\ run'[r].pc = "confirming" /\ run'[r].of = of /\ run'[r].rest = run[r].rest
      /\ UNCHANGED <<flow, statuses, list, orphans, failures, finished, overlap>>
      /\ IF Executable(of, Current(r))
         THEN times' = Executed(of, Current(r)) /\ run'[r].fate = "landed"
         ELSE UNCHANGED times /\ run'[r].fate = "failed"
  BY LandGoes
<1>2. \A q \in Runs \ {r} : run'[q] = run[q]
  BY LandGoes, RunMoves
<1>3. /\ Active(r) /\ of \in Lists \ {0} /\ Current(r) \in SUBSET run[r].rest
      /\ run[r].rest \in SUBSET Steps /\ Current(r)' = Current(r) /\ JustLanded(r) = {}
  BY <1>1, Holdings, CurrentKept DEF Active, JustLanded
<1>4. \A i : i \in run[r].rest => Holds(r, of, i)
  BY <1>3 DEF Holds
<1>5. \A l, i : Holds(r, l, i)' => Holds(r, l, i) /\ i \notin JustLanded(r)'
  BY <1>1, <1>3 DEF Holds, At
<1>6. CASE ~Executable(of, Current(r))
  <2>1. UNCHANGED <<flow, times, list>> /\ orphans' = orphans
    BY <1>1, <1>6
  <2>2. \A l \in Lists \ {0}, i \in flow.repeatable : Holds(r, l, i)' => Holds(r, l, i)
    BY <1>5
  <2>3. Active(r)' => Active(r) /\ run'[r].of = run[r].of
    BY <1>1, <1>3
  <2>4. QED
    BY <1>2, <2>1, <2>2, <2>3, CallPassesOn
<1>7. CASE Executable(of, Current(r)) /\ Deposits
  <2>1. times' = Executed(of, Current(r)) /\ JustLanded(r)' = Current(r)
    BY <1>1, <1>3, <1>7 DEF JustLanded, At
  <2>2. OneList /\ \A l \in Lists \ {0}, i \in flow.repeatable : Once(l, i)
    BY <1>7 DEF OnceInv
  <2>3. of <= list
    BY <1>3, <2>2 DEF OneList
  <2>4. ASSUME NEW q \in Runs, Active(q)' PROVE Active(q) /\ run'[q].of = run[q].of
    <3>1. CASE q = r
      BY <1>1, <1>3, <3>1
    <3>2. CASE q # r
      BY <1>2, <2>4, <3>2 DEF Active
    <3>3. QED
      BY <3>1, <3>2
  <2>5. ASSUME NEW q \in Runs, NEW l \in Lists \ {0}, NEW i \in flow.repeatable, Holds(q, l, i)'
        PROVE  Holds(q, l, i) /\ ~(l = of /\ i \in Current(r))
    <3>1. CASE q = r
      BY <1>5, <2>1, <2>5, <3>1
    <3>2. CASE q # r
      <4>1. run'[q] = run[q] /\ JustLanded(q)' = JustLanded(q)
        BY <1>1, <1>2, <3>2, CurrentKept DEF JustLanded, At
      <4>2. Holds(q, l, i)
        BY <2>5, <4>1 DEF Holds, Active, At
      <4>3. l # of
        BY <1>3, <2>2, <3>2, <4>2 DEF Holds, OneList
      <4>4. QED
        BY <4>2, <4>3
    <3>3. QED
      BY <3>1, <3>2
  <2>6. \A i \in flow.repeatable \cap Current(r) :
            times[of][i] = 0 /\ \A t \in orphans : ~Adrift(t, of, i)
    BY <1>3, <1>4, <2>2 DEF Once
  <2>7. QED
    BY <1>1, <1>3, <1>7, <2>1, <2>3, <2>4, <2>5, <2>6, ExecutedOnce
<1>8. CASE ~Deposits
  BY <1>1, <1>8 DEF OnceInv, Deposits
<1>9. QED
  BY <1>6, <1>7, <1>8

LEMMA OthersOnce ==
    ASSUME SeqType, OnceInv, (\E t \in orphans : LandLate(t)) \/ \E i \in Steps : OtherKeeper(i)
    PROVE  OnceInv'
<1>1. UNCHANGED <<flow, statuses, list, run, failures, finished, overlap>>
  BY OtherGoes
<1>2. \A q : JustLanded(q)' = JustLanded(q)
  BY <1>1, CurrentKept DEF JustLanded, At
<1>3. \A q, l, i : Holds(q, l, i)' <=> Holds(q, l, i)
  BY <1>1, <1>2 DEF Holds, Active, At
<1>4. \A q \in Runs : Active(q)' => Active(q) /\ run'[q].of = run[q].of
  BY <1>1 DEF Active
<1>5. CASE ~Deposits
  BY <1>1, <1>5 DEF OnceInv, Deposits
<1>6. CASE Deposits /\ \E t \in orphans : LandLate(t)
  <2>1. PICK t \in orphans : LandLate(t)
    BY <1>6
  <2>2. /\ orphans' = orphans \ {t} /\ times' \in {times, Executed(t.of, t.batch)}
        /\ t.of \in Lists \ {0} /\ t.batch \in SUBSET Steps
    BY <2>1 DEF LandLate, SeqType
  <2>3. OneList /\ \A l \in Lists \ {0}, i \in flow.repeatable : Once(l, i)
    BY <1>6 DEF OnceInv
  <2>4. CASE times' = times
    BY <1>1, <2>2, <2>4, OnceStays
  <2>5. CASE times' = Executed(t.of, t.batch)
    <3>1. \A i \in t.batch : Adrift(t, t.of, i)
      BY <2>1 DEF Adrift
    <3>2. \A i \in flow.repeatable \cap t.batch :
              /\ times[t.of][i] = 0
              /\ \A s \in orphans : Adrift(s, t.of, i) => s = t
              /\ \A q \in Runs : ~Holds(q, t.of, i)
      BY <2>1, <2>2, <2>3, <3>1 DEF Once
    <3>3. \A i \in flow.repeatable \cap t.batch :
              times[t.of][i] = 0 /\ \A s \in orphans' : ~Adrift(s, t.of, i)
      BY <2>2, <3>2
    <3>4. \A q \in Runs, l \in Lists \ {0}, i \in flow.repeatable :
              Holds(q, l, i)' => Holds(q, l, i) /\ ~(l = t.of /\ i \in t.batch)
      BY <1>3, <3>2
    <3>5. t.of <= list
      BY <2>1, <2>3 DEF OneList
    <3>6. QED
      BY <1>1, <1>4, <1>6, <2>2, <2>5, <3>3, <3>4, <3>5, ExecutedOnce
  <2>6. QED
    BY <2>2, <2>4, <2>5
<1>7. CASE Deposits /\ \E i \in Steps : OtherKeeper(i)
  <2>1. PICK i \in Steps : OtherKeeper(i)
    BY <1>7
  <2>2. times' = Executed(0, {i}) /\ orphans' = orphans
    BY <2>1 DEF OtherKeeper
  <2>3. 0 \in Lists /\ 0 <= list
    BY SequenceAssumption DEF SeqType, Lists
  <2>4. \A q \in Runs, l \in Lists \ {0}, k \in flow.repeatable :
            Holds(q, l, k)' => Holds(q, l, k) /\ ~(l = 0 /\ k \in {i})
    BY <1>3
  <2>5. QED
    BY <1>1, <1>4, <1>7, <2>2, <2>3, <2>4, ExecutedOnce
<1>8. QED
  BY <1>5, <1>6, <1>7

LEMMA ProceedOnce ==
    ASSUME SeqType, OnceInv, NEW r \in Runs, Active(r),
           NEW left \in SUBSET run[r].rest, NEW shown \in [Steps -> StatusKind],
           left \cap JustLanded(r) = {},
           Proceed(r, left, shown), UNCHANGED <<flow, times, list, orphans, failures, overlap>>
    PROVE  OnceInv'
<1>1. left \in SUBSET Steps
  BY Holdings DEF Active
<1>2. /\ run'[r] = IF left = {} THEN Idle
                   ELSE [pc |-> "relaying", of |-> run[r].of, rest |-> left]
      /\ Moves(r, run'[r])
  BY <1>1, ProceedsTo DEF Active
<1>3. \A q \in Runs \ {r} : run'[q] = run[q]
  BY <1>2 DEF Moves, SeqType
<1>4. Active(r)' => run'[r].pc = "relaying" /\ run'[r].of = run[r].of /\ run'[r].rest = left
  BY <1>2 DEF Active, Idle
<1>5. \A l, i : Holds(r, l, i)' => Holds(r, l, i)
  BY <1>4 DEF Holds, At
<1>6. QED
  BY <1>3, <1>4, <1>5, CallPassesOn

\* A run that returns, and what it leaves adrift.
LEMMA EndsOnce ==
    ASSUME SeqType, OnceInv, NEW r \in Runs, Ends(r), UNCHANGED <<flow, times, list>>,
           \/ orphans' = orphans
           \/ /\ orphans' = Orphaned(r) /\ run[r].pc \in {"relaying", "confirming"}
              /\ run[r].pc = "confirming" => run[r].fate = "sent"
    PROVE  OnceInv'
<1>1. run'[r] = Idle /\ \A q \in Runs \ {r} : run'[q] = run[q]
  BY DEF Ends, Moves, SeqType
<1>2. ~Active(r)' /\ \A l, i : ~Holds(r, l, i)'
  BY <1>1 DEF Idle, Active, Holds
<1>3. CASE orphans' = orphans
  BY <1>1, <1>2, <1>3, CallPassesOn
<1>4. CASE /\ orphans' = Orphaned(r) /\ run[r].pc \in {"relaying", "confirming"}
           /\ run[r].pc = "confirming" => run[r].fate = "sent"
  <2> DEFINE t == [of |-> run[r].of, batch |-> Current(r), nth |-> failures + 1]
  <2>1. orphans' = orphans \cup {t} /\ t.of = run[r].of /\ t.batch = Current(r)
    BY <1>4 DEF Orphaned
  <2>2. Active(r) /\ JustLanded(r) = {} /\ Current(r) \in SUBSET run[r].rest
    BY <1>4, Holdings DEF Active, JustLanded, At
  <2>3. \A i \in t.batch : Holds(r, t.of, i)
    BY <2>1, <2>2 DEF Holds
  <2> HIDE DEF t
  <2>4. QED
    BY <1>1, <1>2, <2>1, <2>2, <2>3, CallPassesOn
<1>5. QED
  BY <1>3, <1>4

LEMMA CallOnce ==
    ASSUME SeqType, OnceInv, NEW r \in Runs, Goes(r) \/ GoesWrong(r)
    PROVE  OnceInv'
<1>1. CASE Click(r)
  <2>1. /\ run'[r] = [pc |-> "building", seen |-> statuses]
        /\ \A q \in Runs \ {r} : run'[q] = run[q]
        /\ UNCHANGED <<flow, times, statuses, list, orphans, finished, overlap>>
    BY <1>1 DEF Click, Moves, SeqType
  <2>2. ~Active(r)' /\ \A l, i : ~Holds(r, l, i)'
    BY <2>1 DEF Active, Holds
  <2>3. QED
    BY <2>1, <2>2, CallPassesOn
<1>2. CASE Start(r)
  BY <1>2, StartOnce
<1>3. CASE Probe(r)
  <2> DEFINE at == run[r].at
  <2>1. /\ run[r].pc = "probing" /\ at \in Steps /\ run[r].rest \in SUBSET Steps
        /\ UNCHANGED <<flow, times, list, orphans, finished, overlap>>
        /\ run'[r].pc = "probing" /\ run'[r].of = run[r].of /\ run'[r].at = at + 1
        /\ run'[r].rest \in {run[r].rest, run[r].rest \cup {at}}
    BY <1>3, ProbeGoes
  <2>2. \A q \in Runs \ {r} : run'[q] = run[q]
    BY <1>3, ProbeGoes, RunMoves
  <2>3. Active(r) /\ JustLanded(r) = {}
    BY <2>1 DEF Active, JustLanded, At
  <2>4. flow.repeatable \in SUBSET Steps /\ Steps = 1..N /\ N \in Nat
    BY FlowFacts DEF SeqType
  <2>5. ASSUME NEW l \in Lists \ {0}, NEW i \in flow.repeatable, Holds(r, l, i)'
        PROVE  Holds(r, l, i)
    <3>1. run[r].of = l
      BY <2>1, <2>5 DEF Holds
    <3>2. i >= at + 1 \/ i \in run'[r].rest
      BY <2>1, <2>5 DEF Holds
    <3>3. i >= at \/ i \in run[r].rest
      BY <2>1, <2>4, <3>2
    <3>4. QED
      BY <2>1, <2>3, <3>1, <3>3 DEF Holds, At
  <2>6. QED
    BY <2>1, <2>2, <2>3, <2>5, CallPassesOn
<1>4. CASE Pack(r)
  <2> DEFINE to == [pc |-> "signing", of |-> run[r].of, rest |-> run[r].rest]
  <2>1. /\ run[r].pc = "probing"
        /\ UNCHANGED <<flow, times, list, orphans, failures, overlap>>
        /\ Moves(r, to) \/ Proceed(r, run[r].rest, statuses)
    BY <1>4 DEF Pack, At
  <2>2. Active(r) /\ JustLanded(r) = {} /\ statuses \in [Steps -> StatusKind]
    BY <2>1 DEF Active, JustLanded, At, SeqType
  <2>3. CASE Proceed(r, run[r].rest, statuses)
    BY <2>1, <2>2, <2>3, ProceedOnce
  <2>4. CASE Moves(r, to)
    <3>1. run'[r] = to /\ \A q \in Runs \ {r} : run'[q] = run[q]
      BY <2>4 DEF Moves, SeqType
    <3>2. run'[r].pc = "signing" /\ run'[r].of = run[r].of /\ run'[r].rest = run[r].rest
      BY <3>1
    <3>3. \A l, i : Holds(r, l, i)' => Holds(r, l, i)
      BY <2>2, <3>2 DEF Holds, At
    <3> HIDE DEF to
    <3>4. QED
      BY <2>1, <2>2, <3>1, <3>2, <3>3, CallPassesOn
  <2>5. QED
    BY <2>1, <2>3, <2>4
<1>5. CASE SignAll(r)
  <2>1. /\ run[r].pc = "signing" /\ UNCHANGED <<flow, times, list, orphans, failures, overlap>>
        /\ Proceed(r, run[r].rest, statuses)
    BY <1>5 DEF SignAll, At
  <2>2. Active(r) /\ JustLanded(r) = {} /\ statuses \in [Steps -> StatusKind]
    BY <2>1 DEF Active, JustLanded, At, SeqType
  <2>3. QED
    BY <2>1, <2>2, ProceedOnce
<1>6. CASE Relay(r)
  <2> DEFINE to == [pc |-> "confirming", of |-> run[r].of, rest |-> run[r].rest, fate |-> "sent"]
  <2>1. /\ run[r].pc = "relaying" /\ Moves(r, to)
        /\ UNCHANGED <<flow, times, statuses, list, orphans, failures, finished, overlap>>
    BY <1>6 DEF Relay, At
  <2>2. run'[r] = to /\ \A q \in Runs \ {r} : run'[q] = run[q]
    BY <2>1 DEF Moves, SeqType
  <2>3. run'[r].pc = "confirming" /\ run'[r].of = run[r].of /\ run'[r].rest = run[r].rest
    BY <2>2
  <2>4. Active(r) /\ JustLanded(r) = {}
    BY <2>1 DEF Active, JustLanded, At
  <2>5. \A l, i : Holds(r, l, i)' => Holds(r, l, i)
    BY <2>3, <2>4 DEF Holds, At
  <2> HIDE DEF to
  <2>6. QED
    BY <2>1, <2>2, <2>3, <2>4, <2>5, CallPassesOn
<1>7. CASE Land(r)
  BY <1>7, LandOnce
<1>8. CASE Confirm(r)
  <2> DEFINE left == run[r].rest \ Current(r)
             shown == Marked(Current(r), "done")
  <2>1. /\ run[r].pc = "confirming" /\ run[r].fate = "landed"
        /\ UNCHANGED <<flow, times, list, orphans, failures, overlap>>
        /\ Proceed(r, left, shown)
    BY <1>8 DEF Confirm, At
  <2>2. Active(r) /\ left \in SUBSET run[r].rest /\ left \cap JustLanded(r) = {}
    BY <2>1 DEF Active, JustLanded, At
  <2>3. shown \in [Steps -> StatusKind]
    BY MarkedKind DEF StatusKind, SeqType
  <2> HIDE DEF left, shown
  <2>4. QED
    BY <2>1, <2>2, <2>3, ProceedOnce
<1>9. CASE ConfirmFails(r)
  BY <1>9, EndsOnce DEF ConfirmFails, GiveUp
<1>10. CASE BuildFails(r)
  BY <1>10, EndsOnce DEF BuildFails
<1>11. CASE WalletGone(r)
  BY <1>11, EndsOnce DEF WalletGone
<1>12. CASE SignAllFails(r)
  BY <1>12, EndsOnce DEF SignAllFails, GiveUp
<1>13. CASE RelayFails(r)
  <2>1. /\ run[r].pc = "relaying" /\ Ends(r) /\ UNCHANGED <<flow, times, list>>
        /\ orphans' \in {orphans, Orphaned(r)}
    BY <1>13 DEF RelayFails, GiveUp, At
  <2>2. QED
    BY <2>1, EndsOnce
<1>14. CASE Timeout(r)
  <2>1. /\ run[r].pc = "confirming" /\ Ends(r) /\ UNCHANGED <<flow, times, list>>
        /\ orphans' = IF run[r].fate = "sent" THEN Orphaned(r) ELSE orphans
    BY <1>14 DEF Timeout, OnTimeout, GiveUp, At
  <2>2. QED
    BY <2>1, EndsOnce
<1>15. QED
  BY <1>1, <1>2, <1>3, <1>4, <1>5, <1>6, <1>7, <1>8, <1>9, <1>10, <1>11, <1>12, <1>13, <1>14
     DEF Goes, GoesWrong

LEMMA OnceStep == SeqType /\ OnceInv /\ [Next]_vars => OnceInv'
<1> SUFFICES ASSUME SeqType, OnceInv, [Next]_vars PROVE OnceInv'
  OBVIOUS
<1>1. CASE \E r \in Runs : Goes(r) \/ GoesWrong(r)
  BY <1>1, CallOnce
<1>2. CASE (\E t \in orphans : LandLate(t)) \/ \E i \in Steps : OtherKeeper(i)
  BY <1>2, OthersOnce
<1>3. CASE UNCHANGED vars
  BY <1>3, OnceStays DEF vars
<1>4. QED
  BY <1>1, <1>2, <1>3 DEF Next

LEMMA OnceInit == Init => OnceInv
<1> SUFFICES ASSUME Init PROVE OnceInv
  OBVIOUS
<1>1. /\ orphans = {} /\ flow \in Flows
      /\ \A r \in Runs : ~Active(r) /\ \A l, i : ~Holds(r, l, i)
  BY DEF Init, Active, Idle, Holds
<1>2. \A l \in Lists \ {0}, i \in flow.repeatable : times[l][i] = 0
  BY <1>1, FlowFacts DEF Init
<1>3. QED
  BY <1>1, <1>2 DEF OnceInv, OneList, Once, Adrift

\* However late a transaction lands, however impatient the user, a deposit is
\* made at most once for each click.
THEOREM OneDepositAClick == Spec => []DepositedOnce
<1>1. Init => SeqType /\ OnceInv
  BY SeqTypeInit, OnceInit
<1>2. SeqType /\ OnceInv /\ [Next]_vars => (SeqType /\ OnceInv)'
  BY SeqTypeStep, OnceStep
<1>3. ASSUME OnceInv PROVE DepositedOnce
  BY <1>3 DEF OnceInv, Deposits, Once, DepositedOnce
<1>4. QED
  BY <1>1, <1>2, <1>3, PTL DEF Spec
=============================================================================
