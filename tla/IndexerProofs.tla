---------------------------- MODULE IndexerProofs ----------------------------
(***************************************************************************)
(* The safety of the indexer, for any number of accounts, versions, slots, *)
(* prices and crashes.  Of the mirror: rows are stamped honestly, the gate *)
(* turns away no news, and the prune removes no row of an account that was *)
(* not closed.  Of the price series: no sample is from the future, and the *)
(* candles only change with the samples they are made of.                  *)
(*                                                                         *)
(* The slot gate compares stamps while the properties are about versions.  *)
(* The mirror's invariant therefore says of every stamp in the system, in a*)
(* row, in the snapshot or in a notification, what it means for versions,  *)
(* and for the prune that a row stamped before the pass holds a version    *)
(* written before the pass.  A change of the pool is stamped in four places*)
(* on its way into the series, a read of the watcher, a notification, a    *)
(* read of a page and a row, and the series' invariant says of each what   *)
(* its stamp means.  The candles hold still because a row is captured once:*)
(* with the same reserves in the same slots, no slot changes bucket.       *)
(***************************************************************************)
EXTENDS IndexerMirror, PriceSeries, SharesProofs

\* The versions of an account come slot after slot; those not yet confirmed
\* are of the next slot.
ChainOrdered ==
    \A a \in Accounts :
        /\ confirmed[a] <= Len(chain[a])
        /\ \A v \in 1..Len(chain[a]) :
             /\ v <= confirmed[a] => chain[a][v].slot <= slot
             /\ v > confirmed[a] => chain[a][v].slot = slot + 1
             /\ \A w \in 1..Len(chain[a]) : v < w => chain[a][v].slot <= chain[a][w].slot

\* Stamp `s` may be put on version `v` of account `a`.
Honest(a, v, s) ==
    /\ v \in 1..confirmed[a]
    /\ chain[a][v].open
    /\ s <= slot
    /\ \A w \in 1..Len(chain[a]) : w > v => chain[a][w].slot >= s

Truthful(note) ==
    /\ note.version \in 1..Len(chain[note.account])
    /\ chain[note.account][note.version].open
    /\ chain[note.account][note.version].slot = note.slot

TailTruthful == \A i \in 1..Len(tail) : Truthful(tail[i])

RowsHonest == \A a \in Accounts : rows[a] # NoRow => Honest(a, rows[a].version, rows[a].slot)

SnapshotHonest ==
    /\ pass.phase # "Asleep" => pass.slot <= slot
    /\ pass.phase = "Fetched" =>
         \A a \in Accounts : pass.found[a] # 0 => Honest(a, pass.found[a], pass.slot)
    /\ \A a \in pass.todo : pass.found[a] # 0

\* A version that was there when the pass began, of an account the snapshot
\* lacks, was closed since.
ClosedAfter(a, v) == \E w \in 1..Len(chain[a]) : w > v /\ ~chain[a][w].open

AbsentClosed ==
    pass.phase = "Fetched" =>
        \A a \in Accounts : pass.found[a] = 0 =>
            \A v \in 1..Len(chain[a]) :
                chain[a][v].open /\ chain[a][v].slot <= pass.slot => ClosedAfter(a, v)

\* A row stamped no later than the pass holds a version no later than the
\* pass, unless the pass wrote it.
OldRowsOld ==
    pass.phase # "Asleep" =>
        \A a \in Accounts : rows[a] # NoRow /\ rows[a].slot <= pass.slot =>
            \/ chain[a][rows[a].version].slot <= pass.slot
            \/ pass.phase = "Fetched" /\ pass.found[a] # 0

MirrorInv ==
    /\ TypeOK
    /\ ChainOrdered
    /\ TailTruthful
    /\ RowsHonest
    /\ SnapshotHonest
    /\ AbsentClosed
    /\ OldRowsOld

(***************************************************************************)
(* Types                                                                   *)
(***************************************************************************)
LEMMA VisibleNat ==
    ASSUME TypeOK, NEW a \in Accounts
    PROVE  Visible(a) \in Nat
BY DEF TypeOK, Visible

LEMMA UpsertedType ==
    ASSUME TypeOK, NEW a \in Accounts, NEW v \in Nat \ {0}, NEW s \in Nat
    PROVE  Upserted(a, v, s) \in [Accounts -> Row \cup {NoRow}]
BY DEF TypeOK, Upserted, Row

LEMMA TypeStep == TypeOK /\ SnapshotHonest /\ [Next]_vars => TypeOK'
<1> SUFFICES ASSUME TypeOK, SnapshotHonest, [Next]_vars PROVE TypeOK'
  OBVIOUS
<1> USE MirrorAssumption
<1>1. ASSUME NEW a \in Accounts, Write(a) PROVE TypeOK'
  <2>1. [slot |-> slot + 1, open |-> TRUE] \in Version
    BY DEF TypeOK, Version
  <2>2. /\ chain[a] \in Seq(Version)
        /\ Append(chain[a], [slot |-> slot + 1, open |-> TRUE]) \in Seq(Version)
    BY <2>1 DEF TypeOK
  <2>3. chain' \in [Accounts -> Seq(Version)]
    BY <1>1, <2>2 DEF TypeOK, Write
  <2>4. [account |-> a, version |-> Len(chain[a]) + 1, slot |-> slot + 1] \in Note
    BY <2>2 DEF TypeOK, Note
  <2> DEFINE note == [account |-> a, version |-> Len(chain[a]) + 1, slot |-> slot + 1]
  <2>5. tail' = Append(tail, note) \/ tail' = tail
    BY <1>1 DEF Write
  <2>6. Append(tail, note) \in Seq(Note)
    BY <2>4 DEF TypeOK
  <2>7. tail' \in Seq(Note)
    BY <2>5, <2>6 DEF TypeOK
  <2>8. QED
    BY <1>1, <2>3, <2>7 DEF TypeOK, Write
<1>2. ASSUME NEW a \in Accounts, Close(a) PROVE TypeOK'
  <2>1. [slot |-> slot + 1, open |-> FALSE] \in Version
    BY DEF TypeOK, Version
  <2>2. Append(chain[a], [slot |-> slot + 1, open |-> FALSE]) \in Seq(Version)
    BY <2>1 DEF TypeOK
  <2>3. chain' \in [Accounts -> Seq(Version)]
    BY <1>2, <2>2 DEF TypeOK, Close
  <2>4. QED
    BY <1>2, <2>3 DEF TypeOK, Close
<1>3. CASE Confirm
  <2>1. \A a \in Accounts : Len(chain[a]) \in Nat
    BY DEF TypeOK
  <2>2. QED
    BY <1>3, <2>1 DEF TypeOK, Confirm
<1>4. CASE Deliver
  <2>1. Head(tail) \in Note /\ Tail(tail) \in Seq(Note)
    BY <1>4 DEF TypeOK, Deliver
  <2>2. Upserted(Head(tail).account, Head(tail).version, Head(tail).slot)
            \in [Accounts -> Row \cup {NoRow}]
    BY <2>1, UpsertedType DEF Note
  <2>3. QED
    BY <1>4, <2>1, <2>2 DEF TypeOK, Deliver
<1>5. CASE ReadSlot
  BY <1>5 DEF TypeOK, ReadSlot, Pass
<1>6. CASE Fetch
  <2>1. [a \in Accounts |-> Visible(a)] \in [Accounts -> Nat]
    BY VisibleNat
  <2>2. QED
    BY <1>6, <2>1 DEF TypeOK, Fetch, Pass
<1>7. ASSUME NEW a \in Accounts, PersistOk(a) PROVE TypeOK'
  <2>1. pass.found[a] \in Nat \ {0} /\ pass.slot \in Nat
    BY <1>7 DEF TypeOK, Pass, SnapshotHonest, PersistOk
  <2>2. rows' \in [Accounts -> Row \cup {NoRow}]
    BY <1>7, <2>1, UpsertedType DEF PersistOk, Stamp
  <2>3. pass' \in Pass
    BY <1>7 DEF PersistOk, TypeOK, Pass
  <2>4. QED
    BY <1>7, <2>2, <2>3 DEF TypeOK, PersistOk
<1>8. ASSUME NEW a \in Accounts, PersistFails(a) PROVE TypeOK'
  BY <1>8 DEF TypeOK, PersistFails, Pass
<1>9. CASE Prune \/ PassFails \/ Restart
  <2>1. Asleep \in Pass
    BY DEF Asleep, Pass
  <2>2. CASE Prune
    <3>1. rows' \in [Accounts -> Row \cup {NoRow}]
      BY <2>2 DEF TypeOK, Prune
    <3>2. QED
      BY <2>1, <2>2, <3>1 DEF TypeOK, Prune
  <2>3. CASE PassFails
    BY <2>1, <2>3 DEF TypeOK, PassFails
  <2>4. CASE Restart
    <3>1. tail' \in Seq(Note)
      BY <2>4 DEF Restart
    <3>2. QED
      BY <2>1, <2>4, <3>1 DEF TypeOK, Restart
  <2>5. QED
    BY <1>9, <2>2, <2>3, <2>4
<1>10. CASE UNCHANGED vars
  BY <1>10 DEF TypeOK, vars
<1>11. QED
  BY <1>1, <1>2, <1>3, <1>4, <1>5, <1>6, <1>7, <1>8, <1>9, <1>10
  DEF Next, ChainNext, PassNext

(***************************************************************************)
(* How the chain moves                                                     *)
(***************************************************************************)
\* Accounts only gain versions, all of them in the slot being built.
Grows ==
    /\ slot <= slot'
    /\ \A a \in Accounts :
         /\ confirmed[a] <= confirmed'[a]
         /\ Len(chain[a]) <= Len(chain'[a])
         /\ \A v \in 1..Len(chain[a]) : chain'[a][v] = chain[a][v]
         /\ \A v \in 1..Len(chain'[a]) : v > Len(chain[a]) => chain'[a][v].slot = slot + 1

LEMMA AppendGrows ==
    ASSUME TypeOK, NEW a \in Accounts, NEW open \in BOOLEAN,
           chain' = [chain EXCEPT ![a] = Append(chain[a], [slot |-> slot + 1, open |-> open])],
           slot' = slot, confirmed' = confirmed
    PROVE  Grows
<1> DEFINE new == [slot |-> slot + 1, open |-> open]
<1>1. chain[a] \in Seq(Version) /\ new \in Version /\ slot \in Nat /\ new.slot = slot + 1
  BY DEF TypeOK, Version
<1>2. \A b \in Accounts : confirmed[b] <= confirmed'[b]
  BY DEF TypeOK
<1> HIDE DEF new
<1>3. /\ Len(Append(chain[a], new)) = Len(chain[a]) + 1
      /\ \A v \in 1..Len(chain[a]) : Append(chain[a], new)[v] = chain[a][v]
      /\ Append(chain[a], new)[Len(chain[a]) + 1] = new
      /\ Len(chain[a]) \in Nat
  BY <1>1
<1>4. ASSUME NEW b \in Accounts
      PROVE  /\ Len(chain[b]) <= Len(chain'[b])
             /\ \A v \in 1..Len(chain[b]) : chain'[b][v] = chain[b][v]
             /\ \A v \in 1..Len(chain'[b]) : v > Len(chain[b]) => chain'[b][v].slot = slot + 1
  <2>1. CASE b = a
    <3>1. chain'[b] = Append(chain[a], new)
      BY <2>1 DEF TypeOK, new
    <3>2. QED
      BY <1>1, <1>3, <2>1, <3>1
  <2>2. CASE b # a
    <3>1. chain'[b] = chain[b] /\ Len(chain[b]) \in Nat
      BY <2>2 DEF TypeOK
    <3>2. QED
      BY <3>1
  <2>3. QED
    BY <2>1, <2>2
<1>5. QED
  BY <1>1, <1>2, <1>4 DEF Grows

LEMMA StepGrows == TypeOK /\ ChainOrdered /\ [Next]_vars => Grows
<1> SUFFICES ASSUME TypeOK, ChainOrdered, [Next]_vars PROVE Grows
  OBVIOUS
<1>1. ASSUME NEW a \in Accounts, Write(a) \/ Close(a) PROVE Grows
  BY <1>1, AppendGrows DEF Write, Close
<1>2. CASE Confirm
  <2>1. slot \in Nat /\ \A a \in Accounts : confirmed[a] \in Nat /\ Len(chain[a]) \in Nat
    BY DEF TypeOK
  <2>2. slot' = slot + 1 /\ chain' = chain /\ \A a \in Accounts : confirmed'[a] = Len(chain[a])
    BY <1>2 DEF Confirm
  <2>3. QED
    BY <2>1, <2>2 DEF Grows, ChainOrdered
<1>3. CASE UNCHANGED <<slot, chain, confirmed>>
  <2>1. slot \in Nat /\ \A a \in Accounts : confirmed[a] \in Nat /\ Len(chain[a]) \in Nat
    BY DEF TypeOK
  <2>2. QED
    BY <1>3, <2>1 DEF Grows
<1>4. QED
  BY <1>1, <1>2, <1>3
  DEF Next, ChainNext, PassNext, Deliver, ReadSlot, Fetch, PersistOk, PersistFails, Prune,
      PassFails, Restart, vars

\* Honest after the step, of a version and a stamp that are given.
HonestNext(a, v, s) ==
    /\ v \in 1..confirmed'[a]
    /\ chain'[a][v].open
    /\ s <= slot'
    /\ \A w \in 1..Len(chain'[a]) : w > v => chain'[a][w].slot >= s

LEMMA HonestKept ==
    ASSUME TypeOK, Grows, NEW a \in Accounts, NEW v \in Nat, NEW s \in Nat, Honest(a, v, s),
           slot' \in Nat, confirmed'[a] \in Nat, Len(chain'[a]) \in Nat, ChainOrdered
    PROVE  HonestNext(a, v, s)
<1>1. /\ slot \in Nat /\ confirmed[a] \in Nat /\ Len(chain[a]) \in Nat
      /\ confirmed[a] <= Len(chain[a])
  BY DEF TypeOK, ChainOrdered
<1>2. v \in 1..confirmed'[a] /\ chain'[a][v].open /\ s <= slot'
  BY <1>1 DEF Honest, Grows
<1>3. ASSUME NEW w \in 1..Len(chain'[a]), w > v PROVE chain'[a][w].slot >= s
  <2>1. CASE w <= Len(chain[a])
    BY <1>1, <1>3, <2>1 DEF Honest, Grows
  <2>2. CASE w > Len(chain[a])
    BY <1>1, <1>3, <2>2 DEF Honest, Grows
  <2>3. QED
    BY <1>1, <2>1, <2>2
<1>4. QED
  BY <1>2, <1>3 DEF HonestNext

LEMMA TruthfulKept ==
    ASSUME TypeOK, Grows, NEW n \in Note, Truthful(n), Len(chain'[n.account]) \in Nat
    PROVE  Truthful(n)'
<1>1. n.account \in Accounts /\ n.version \in Nat /\ Len(chain[n.account]) \in Nat
  BY DEF TypeOK, Note
<1>2. QED
  BY <1>1 DEF Truthful, Grows

LEMMA OrderStep == TypeOK /\ TypeOK' /\ ChainOrdered /\ [Next]_vars => ChainOrdered'
<1> SUFFICES ASSUME TypeOK, TypeOK', ChainOrdered, [Next]_vars, NEW a \in Accounts
             PROVE  /\ confirmed'[a] <= Len(chain'[a])
                    /\ \A v \in 1..Len(chain'[a]) :
                         /\ v <= confirmed'[a] => chain'[a][v].slot <= slot'
                         /\ v > confirmed'[a] => chain'[a][v].slot = slot' + 1
                         /\ \A w \in 1..Len(chain'[a]) :
                               v < w => chain'[a][v].slot <= chain'[a][w].slot
  BY DEF ChainOrdered
<1>1. Grows
  BY StepGrows
<1>2. /\ slot \in Nat /\ confirmed[a] \in Nat /\ Len(chain[a]) \in Nat
      /\ slot' \in Nat /\ confirmed'[a] \in Nat /\ Len(chain'[a]) \in Nat
  BY DEF TypeOK
<1>9. ASSUME NEW v \in 1..Len(chain[a]) PROVE chain[a][v].slot \in Nat
  <2>1. chain[a] \in Seq(Version)
    BY DEF TypeOK
  <2>2. chain[a][v] \in Version
    BY <2>1
  <2>3. QED
    BY <2>2 DEF Version
<1>3. /\ confirmed[a] <= Len(chain[a])
      /\ \A v \in 1..Len(chain[a]) :
           /\ v <= confirmed[a] => chain[a][v].slot <= slot
           /\ v > confirmed[a] => chain[a][v].slot = slot + 1
           /\ \A w \in 1..Len(chain[a]) : v < w => chain[a][v].slot <= chain[a][w].slot
  BY DEF ChainOrdered
<1>4. /\ Len(chain[a]) <= Len(chain'[a])
      /\ \A v \in 1..Len(chain[a]) : chain'[a][v] = chain[a][v]
      /\ \A v \in 1..Len(chain'[a]) : v > Len(chain[a]) => chain'[a][v].slot = slot + 1
  BY <1>1 DEF Grows
<1>5. \/ confirmed'[a] = confirmed[a] /\ slot' = slot
      \/ confirmed'[a] = Len(chain[a]) /\ slot' = slot + 1 /\ chain' = chain
  BY DEF Next, ChainNext, PassNext, Write, Close, Confirm, Deliver, ReadSlot, Fetch, PersistOk,
         PersistFails, Prune, PassFails, Restart, vars
<1>6. ASSUME NEW v \in 1..Len(chain'[a])
      PROVE  chain'[a][v].slot \in Nat /\ chain'[a][v].slot <= slot + 1
  <2>1. CASE v <= Len(chain[a])
    <3>1. v \in 1..Len(chain[a]) /\ chain'[a][v] = chain[a][v]
      BY <1>2, <1>4, <2>1
    <3>2. QED
      BY <1>2, <1>3, <1>9, <3>1
  <2>2. CASE v > Len(chain[a])
    BY <1>2, <1>4, <2>2
  <2>3. QED
    BY <1>2, <2>1, <2>2
<1>7. ASSUME NEW v \in 1..Len(chain'[a]), NEW w \in 1..Len(chain'[a]), v < w
      PROVE  chain'[a][v].slot <= chain'[a][w].slot
  <2>1. CASE w <= Len(chain[a])
    <3>1. v \in 1..Len(chain[a]) /\ w \in 1..Len(chain[a])
      BY <1>2, <1>7, <2>1
    <3>2. chain'[a][v] = chain[a][v] /\ chain'[a][w] = chain[a][w]
      BY <1>4, <3>1
    <3>3. QED
      BY <1>3, <1>7, <3>1, <3>2
  <2>2. CASE w > Len(chain[a])
    <3>1. chain'[a][w].slot = slot + 1
      BY <1>4, <2>2
    <3>2. QED
      BY <1>6, <3>1
  <2>3. QED
    BY <1>2, <2>1, <2>2
<1>8. ASSUME NEW v \in 1..Len(chain'[a])
      PROVE  /\ v <= confirmed'[a] => chain'[a][v].slot <= slot'
             /\ v > confirmed'[a] => chain'[a][v].slot = slot' + 1
  <2>1. CASE confirmed'[a] = confirmed[a] /\ slot' = slot
    <3>1. CASE v <= Len(chain[a])
      <4>1. v \in 1..Len(chain[a]) /\ chain'[a][v] = chain[a][v]
        BY <1>2, <1>4, <3>1
      <4>2. QED
        BY <1>3, <2>1, <4>1
    <3>2. CASE v > Len(chain[a])
      BY <1>2, <1>3, <1>4, <2>1, <3>2
    <3>3. QED
      BY <1>2, <3>1, <3>2
  <2>2. CASE confirmed'[a] = Len(chain[a]) /\ slot' = slot + 1 /\ chain' = chain
    BY <1>2, <1>6, <2>2
  <2>3. QED
    BY <1>5, <2>1, <2>2
<1>10. confirmed'[a] <= Len(chain'[a])
  BY <1>2, <1>3, <1>4, <1>5
<1>11. QED
  BY <1>7, <1>8, <1>10

(***************************************************************************)
(* Notifications and rows                                                  *)
(***************************************************************************)
LEMMA LenNat ==
    ASSUME TypeOK, NEW a \in Accounts
    PROVE  /\ slot \in Nat /\ confirmed[a] \in Nat /\ Len(chain[a]) \in Nat
           /\ pass.slot \in Nat /\ pass.found[a] \in Nat
           /\ rows[a].version \in Nat /\ rows[a].slot \in Nat
           /\ (rows[a] # NoRow => rows[a] \in Row)
BY DEF TypeOK, Pass, Row, NoRow

LEMMA VersionSlot ==
    ASSUME TypeOK, NEW a \in Accounts, NEW v \in 1..Len(chain[a])
    PROVE  chain[a][v].slot \in Nat /\ chain[a][v].open \in BOOLEAN
<1>1. chain[a] \in Seq(Version)
  BY DEF TypeOK
<1>2. chain[a][v] \in Version
  BY <1>1
<1>3. QED
  BY <1>2 DEF Version

LEMMA TailStep ==
    TypeOK /\ TypeOK' /\ ChainOrdered /\ TailTruthful /\ [Next]_vars => TailTruthful'
<1> SUFFICES ASSUME TypeOK, TypeOK', ChainOrdered, TailTruthful, [Next]_vars
             PROVE  TailTruthful'
  OBVIOUS
<1>1. Grows
  BY StepGrows
<1> DEFINE StillTruthful(n) ==
             /\ n.version \in 1..Len(chain'[n.account])
             /\ chain'[n.account][n.version].open
             /\ chain'[n.account][n.version].slot = n.slot
<1>2. ASSUME NEW n \in Note, Truthful(n) PROVE StillTruthful(n)
  <2>1. Len(chain'[n.account]) \in Nat
    BY DEF TypeOK, Note
  <2>2. QED
    BY <1>1, <1>2, <2>1, TruthfulKept DEF Truthful
<1>3. tail \in Seq(Note) /\ \A i \in 1..Len(tail) : tail[i] \in Note /\ Truthful(tail[i])
  BY DEF TypeOK, TailTruthful
<1>9. SUFFICES ASSUME NEW i \in 1..Len(tail') PROVE StillTruthful(tail'[i])
  BY DEF TailTruthful, Truthful
<1> HIDE DEF StillTruthful
<1>4. CASE tail' = tail
  BY <1>2, <1>3, <1>4
<1>5. ASSUME NEW a \in Accounts, Write(a), tail' # tail PROVE StillTruthful(tail'[i])
  <2> DEFINE n == [account |-> a, version |-> Len(chain[a]) + 1, slot |-> slot + 1]
             e == [slot |-> slot + 1, open |-> TRUE]
  <2>1. /\ chain[a] \in Seq(Version) /\ e \in Version /\ Len(chain[a]) \in Nat
        /\ e.slot = slot + 1 /\ e.open
        /\ n \in Note /\ n.account = a /\ n.version = Len(chain[a]) + 1 /\ n.slot = slot + 1
    BY DEF TypeOK, Version, Note
  <2>2. tail' = Append(tail, n) /\ chain'[a] = Append(chain[a], e)
    BY <1>5 DEF Write, TypeOK
  <2> HIDE DEF n, e
  <2>3. Len(chain'[a]) = Len(chain[a]) + 1 /\ chain'[a][Len(chain[a]) + 1] = e
    BY <2>1, <2>2
  <2>4. StillTruthful(n)
    BY <2>1, <2>3 DEF StillTruthful
  <2>5. QED
    <3>1. Len(tail) \in Nat /\ Len(tail') = Len(tail) + 1 /\ tail'[Len(tail) + 1] = n
      BY <1>3, <2>1, <2>2
    <3>2. CASE i = Len(tail) + 1
      BY <2>4, <3>1, <3>2
    <3>3. CASE i # Len(tail) + 1
      <4>1. i \in 1..Len(tail)
        BY <3>1, <3>3
      <4>2. tail'[i] = tail[i]
        BY <1>3, <2>1, <2>2, <4>1
      <4>3. QED
        BY <1>2, <1>3, <4>1, <4>2
    <3>4. QED
      BY <3>2, <3>3
<1>6. CASE Deliver
  <2>1. tail # <<>> /\ tail' = Tail(tail)
    BY <1>6 DEF Deliver
  <2>2. i + 1 \in 1..Len(tail) /\ tail'[i] = tail[i + 1]
    BY <1>3, <1>9, <2>1
  <2>3. QED
    BY <1>2, <1>3, <2>2
<1>7. CASE Restart
  BY <1>7, <1>9 DEF Restart
<1>8. QED
  BY <1>4, <1>5, <1>6, <1>7
  DEF Next, ChainNext, PassNext, Close, Confirm, ReadSlot, Fetch, PersistOk, PersistFails, Prune,
      PassFails, vars

\* A notification that may be delivered is a stamp that may be put on a row.
LEMMA TruthfulIsHonest ==
    ASSUME TypeOK, ChainOrdered, NEW n \in Note, Truthful(n), n.slot <= slot
    PROVE  Honest(n.account, n.version, n.slot)
<1> DEFINE a == n.account
<1>1. a \in Accounts /\ n.version \in Nat /\ n.slot \in Nat
  BY DEF Note
<1>2. slot \in Nat /\ confirmed[a] \in Nat /\ Len(chain[a]) \in Nat
  BY <1>1, LenNat
<1>3. n.version \in 1..Len(chain[a]) /\ chain[a][n.version].open
      /\ chain[a][n.version].slot = n.slot
  BY DEF Truthful
<1>4. n.version <= confirmed[a]
  BY <1>1, <1>2, <1>3 DEF ChainOrdered
<1>5. \A w \in 1..Len(chain[a]) : w > n.version => chain[a][w].slot >= n.slot
  BY <1>1, <1>2, <1>3, VersionSlot DEF ChainOrdered
<1>6. QED
  BY <1>1, <1>2, <1>3, <1>4, <1>5 DEF Honest

LEMMA UpsertedRow ==
    ASSUME TypeOK, NEW a \in Accounts, NEW v, NEW s, NEW b \in Accounts
    PROVE  \/ Upserted(a, v, s)[b] = rows[b]
           \/ b = a /\ Upserted(a, v, s)[b] = [version |-> v, slot |-> s]
BY DEF TypeOK, Upserted

\* Where the rows come from: a row that a step writes was a notification or
\* was in the snapshot.
LEMMA RowOrigin ==
    ASSUME TypeOK, ChainOrdered, TailTruthful, SnapshotHonest, [Next]_vars, NEW a \in Accounts
    PROVE  \/ rows'[a] = rows[a]
           \/ rows'[a] = NoRow
           \/ /\ Honest(a, rows'[a].version, rows'[a].slot)
              /\ chain[a][rows'[a].version].slot = rows'[a].slot
              /\ pass' = pass
           \/ /\ Honest(a, rows'[a].version, rows'[a].slot)
              /\ pass'.phase = "Fetched" /\ pass'.found[a] # 0
<1>1. CASE Deliver
  <2> DEFINE n == Head(tail)
  <2>1. n = tail[1] /\ 1 \in 1..Len(tail) /\ n \in Note
    BY <1>1 DEF Deliver, TypeOK
  <2>2. Truthful(n) /\ n.slot <= slot
    BY <1>1, <2>1 DEF Deliver, TailTruthful
  <2>3. n.account \in Accounts /\ n.version \in Nat /\ n.slot \in Nat
    BY <2>1 DEF Note
  <2>4. Honest(n.account, n.version, n.slot) /\ chain[n.account][n.version].slot = n.slot
    BY <2>1, <2>2, TruthfulIsHonest DEF Truthful
  <2>5. rows' = rows \/ rows' = Upserted(n.account, n.version, n.slot)
    BY <1>1 DEF Deliver
  <2>6. \/ rows'[a] = rows[a]
        \/ a = n.account /\ rows'[a] = [version |-> n.version, slot |-> n.slot]
    BY <2>3, <2>5, UpsertedRow
  <2>7. pass' = pass
    BY <1>1 DEF Deliver
  <2> HIDE DEF n
  <2>8. QED
    BY <2>4, <2>6, <2>7
<1>2. ASSUME NEW b \in Accounts, PersistOk(b)
      PROVE  \/ rows'[a] = rows[a]
             \/ /\ Honest(a, rows'[a].version, rows'[a].slot)
                /\ pass'.phase = "Fetched" /\ pass'.found[a] # 0
  <2>1. /\ pass.phase = "Fetched" /\ b \in pass.todo
        /\ pass' = [pass EXCEPT !.todo = pass.todo \ {b}]
        /\ rows' = Upserted(b, pass.found[b], pass.slot)
    BY <1>2 DEF PersistOk, Stamp
  <2>2. pass.found[b] # 0 /\ Honest(b, pass.found[b], pass.slot)
    BY <2>1 DEF SnapshotHonest
  <2>3. pass'.phase = "Fetched" /\ pass'.found = pass.found
    BY <2>1 DEF TypeOK, Pass
  <2>4. \/ rows'[a] = rows[a]
        \/ a = b /\ rows'[a] = [version |-> pass.found[b], slot |-> pass.slot]
    BY <2>1, UpsertedRow
  <2>5. QED
    BY <2>2, <2>3, <2>4
<1>3. CASE Prune
  BY <1>3 DEF Prune
<1>4. CASE UNCHANGED rows
  BY <1>4
<1>5. QED
  BY <1>1, <1>2, <1>3, <1>4
  DEF Next, ChainNext, PassNext, Write, Close, Confirm, ReadSlot, Fetch, PersistFails, PassFails,
      Restart, vars

LEMMA RowsStep ==
    TypeOK /\ TypeOK' /\ ChainOrdered /\ TailTruthful /\ SnapshotHonest /\ RowsHonest
        /\ [Next]_vars => RowsHonest'
<1> SUFFICES ASSUME TypeOK, TypeOK', ChainOrdered, TailTruthful, SnapshotHonest, RowsHonest,
                    [Next]_vars, NEW a \in Accounts, rows'[a] # NoRow
             PROVE  HonestNext(a, rows'[a].version, rows'[a].slot)
  BY DEF RowsHonest, Honest, HonestNext
<1>1. Honest(a, rows'[a].version, rows'[a].slot)
  BY RowOrigin DEF RowsHonest
<1>2. rows'[a].version \in Nat /\ rows'[a].slot \in Nat /\ slot' \in Nat
      /\ confirmed'[a] \in Nat /\ Len(chain'[a]) \in Nat
  BY DEF TypeOK, Row, NoRow
<1>3. Grows
  BY StepGrows
<1>4. QED
  BY <1>1, <1>2, <1>3, HonestKept

LEMMA VisibleHonest ==
    ASSUME TypeOK, ChainOrdered, NEW a \in Accounts, Visible(a) # 0, NEW s \in Nat, s <= slot
    PROVE  Honest(a, Visible(a), s)
<1>1. slot \in Nat /\ confirmed[a] \in Nat /\ Len(chain[a]) \in Nat
  BY LenNat
<1>2. Visible(a) = confirmed[a] /\ confirmed[a] > 0 /\ chain[a][confirmed[a]].open
  BY DEF Visible
<1>3. ASSUME NEW w \in 1..Len(chain[a]), w > confirmed[a] PROVE chain[a][w].slot >= s
  BY <1>1, <1>3 DEF ChainOrdered
<1>4. QED
  BY <1>1, <1>2, <1>3 DEF Honest

\* What a step makes of the pass.
LEMMA PassSteps ==
    ASSUME TypeOK, [Next]_vars
    PROVE  \/ pass'.phase = "Asleep" /\ pass'.todo = {}
           \/ pass'.phase = "SlotRead" /\ pass'.slot = slot /\ pass'.todo = pass.todo
              /\ slot' = slot /\ pass'.found = pass.found /\ rows' = rows
           \/ /\ Fetch
              /\ pass.phase = "SlotRead" /\ pass'.phase = "Fetched" /\ pass'.slot = pass.slot
              /\ pass'.found = [a \in Accounts |-> Visible(a)]
              /\ pass'.todo = {a \in Accounts : Visible(a) # 0}
           \/ /\ pass'.phase = pass.phase /\ pass'.slot = pass.slot
              /\ pass'.found = pass.found /\ pass'.todo \subseteq pass.todo
<1>1. CASE ReadSlot
  BY <1>1 DEF ReadSlot, TypeOK, Pass
<1>2. CASE Fetch
  BY <1>2 DEF Fetch, TypeOK, Pass
<1>3. ASSUME NEW a \in Accounts, PersistOk(a) \/ PersistFails(a)
      PROVE  /\ pass'.phase = pass.phase /\ pass'.slot = pass.slot
             /\ pass'.found = pass.found /\ pass'.todo \subseteq pass.todo
  BY <1>3 DEF PersistOk, PersistFails, TypeOK, Pass
<1>4. CASE Prune \/ PassFails \/ Restart
  BY <1>4 DEF Prune, PassFails, Restart, Asleep
<1>5. CASE UNCHANGED pass
  BY <1>5
<1>6. QED
  BY <1>1, <1>2, <1>3, <1>4, <1>5
  DEF Next, ChainNext, PassNext, Write, Close, Confirm, Deliver, vars

LEMMA SnapshotStep ==
    TypeOK /\ TypeOK' /\ ChainOrdered /\ SnapshotHonest /\ [Next]_vars => SnapshotHonest'
<1> SUFFICES ASSUME TypeOK, TypeOK', ChainOrdered, SnapshotHonest, [Next]_vars
             PROVE  SnapshotHonest'
  OBVIOUS
<1>1. Grows
  BY StepGrows
<1>2. slot \in Nat /\ slot' \in Nat /\ slot <= slot' /\ pass.slot \in Nat /\ pass'.slot \in Nat
  BY <1>1 DEF Grows, TypeOK, Pass
<1>3. pass'.phase # "Asleep" => pass'.slot <= slot'
  BY <1>2, PassSteps DEF SnapshotHonest
<1>4. ASSUME NEW a \in Accounts, pass'.phase = "Fetched", pass'.found[a] # 0
      PROVE  HonestNext(a, pass'.found[a], pass'.slot)
  <2>1. pass'.slot <= slot /\ Honest(a, pass'.found[a], pass'.slot)
    <3>1. CASE Fetch /\ pass.phase = "SlotRead" /\ pass'.slot = pass.slot
                    /\ pass'.found = [b \in Accounts |-> Visible(b)]
      <4>1. pass'.slot <= slot /\ pass'.found[a] = Visible(a)
        BY <3>1 DEF SnapshotHonest
      <4>2. QED
        BY <1>2, <1>4, <4>1, VisibleHonest
    <3>2. CASE pass.phase = "Fetched" /\ pass'.slot = pass.slot /\ pass'.found = pass.found
      BY <1>4, <3>2 DEF SnapshotHonest
    <3>3. QED
      BY <1>4, <3>1, <3>2, PassSteps
  <2>2. pass'.found[a] \in Nat /\ confirmed'[a] \in Nat /\ Len(chain'[a]) \in Nat
    BY DEF TypeOK, Pass
  <2>3. QED
    BY <1>1, <1>2, <2>1, <2>2, HonestKept
<1>5. ASSUME NEW a \in pass'.todo PROVE pass'.found[a] # 0
  BY PassSteps DEF SnapshotHonest
<1>6. QED
  BY <1>3, <1>4, <1>5 DEF SnapshotHonest, Honest, HonestNext

LEMMA AbsentStep ==
    TypeOK /\ TypeOK' /\ ChainOrdered /\ SnapshotHonest /\ AbsentClosed /\ [Next]_vars
        => AbsentClosed'
<1> SUFFICES ASSUME TypeOK, TypeOK', ChainOrdered, SnapshotHonest, AbsentClosed, [Next]_vars,
                    pass'.phase = "Fetched",
                    NEW a \in Accounts, pass'.found[a] = 0,
                    NEW v \in 1..Len(chain'[a]), chain'[a][v].open, chain'[a][v].slot <= pass'.slot
             PROVE  \E w \in 1..Len(chain'[a]) : w > v /\ ~chain'[a][w].open
  BY DEF AbsentClosed, ClosedAfter
<1>1. /\ Len(chain[a]) <= Len(chain'[a])
      /\ \A w \in 1..Len(chain[a]) : chain'[a][w] = chain[a][w]
      /\ \A w \in 1..Len(chain'[a]) : w > Len(chain[a]) => chain'[a][w].slot = slot + 1
  BY StepGrows DEF Grows
<1>2. /\ slot \in Nat /\ confirmed[a] \in Nat /\ Len(chain[a]) \in Nat
      /\ Len(chain'[a]) \in Nat /\ pass.slot \in Nat
  BY LenNat DEF TypeOK
<1>3. /\ pass.phase # "Asleep" /\ pass'.slot = pass.slot
      /\ \/ pass.phase = "Fetched" /\ pass'.found = pass.found
         \/ Fetch /\ pass'.found = [b \in Accounts |-> Visible(b)]
  BY PassSteps
<1>4. pass'.slot <= slot
  BY <1>3 DEF SnapshotHonest
<1>5. v \in 1..Len(chain[a]) /\ chain[a][v].open /\ chain[a][v].slot <= pass.slot
  <2>1. v <= Len(chain[a])
    BY <1>1, <1>2, <1>3, <1>4
  <2>2. QED
    BY <1>1, <1>2, <1>3, <2>1
<1>6. \E w \in 1..Len(chain[a]) : w > v /\ ~chain[a][w].open
  <2>1. CASE pass.phase = "Fetched" /\ pass'.found = pass.found
    BY <1>5, <2>1 DEF AbsentClosed, ClosedAfter
  <2>2. CASE Fetch /\ pass'.found = [b \in Accounts |-> Visible(b)]
    <3>1. Visible(a) = 0
      BY <2>2
    <3>2. v <= confirmed[a] /\ confirmed[a] <= Len(chain[a])
      BY <1>2, <1>3, <1>4, <1>5 DEF ChainOrdered
    <3>3. confirmed[a] \in 1..Len(chain[a]) /\ ~chain[a][confirmed[a]].open
      BY <1>2, <1>5, <3>1, <3>2 DEF Visible
    <3>4. v # confirmed[a]
      BY <1>5, <3>3
    <3>5. QED
      BY <1>2, <1>5, <3>2, <3>3, <3>4
  <2>3. QED
    BY <1>3, <2>1, <2>2
<1>7. QED
  BY <1>1, <1>2, <1>6

LEMMA OldRowsStep ==
    TypeOK /\ TypeOK' /\ ChainOrdered /\ TailTruthful /\ SnapshotHonest /\ RowsHonest
        /\ OldRowsOld /\ [Next]_vars => OldRowsOld'
<1> SUFFICES ASSUME TypeOK, TypeOK', ChainOrdered, TailTruthful, SnapshotHonest, RowsHonest,
                    OldRowsOld, [Next]_vars, pass'.phase # "Asleep",
                    NEW a \in Accounts, rows'[a] # NoRow, rows'[a].slot <= pass'.slot
             PROVE  \/ chain'[a][rows'[a].version].slot <= pass'.slot
                    \/ pass'.phase = "Fetched" /\ pass'.found[a] # 0
  BY DEF OldRowsOld
<1> DEFINE v == rows'[a].version
<1>1. \A w \in 1..Len(chain[a]) : chain'[a][w] = chain[a][w]
  BY StepGrows DEF Grows
<1>2. /\ slot \in Nat /\ confirmed[a] \in Nat /\ Len(chain[a]) \in Nat
      /\ confirmed[a] <= Len(chain[a])
  BY LenNat DEF ChainOrdered
<1>3. Honest(a, v, rows'[a].slot)
  BY RowOrigin DEF RowsHonest
<1>4. v \in 1..Len(chain[a]) /\ v <= confirmed[a] /\ chain'[a][v] = chain[a][v]
  BY <1>1, <1>2, <1>3 DEF Honest
<1>5. chain[a][v].slot <= slot
  BY <1>4 DEF ChainOrdered
<1> HIDE DEF v
<1>6. CASE pass'.phase = "SlotRead" /\ pass'.slot = slot
  BY <1>4, <1>5, <1>6 DEF v
<1>7. CASE pass.phase # "Asleep" /\ pass'.slot = pass.slot /\ rows'[a] = rows[a]
  <2>1. CASE pass'.phase = pass.phase /\ pass'.found = pass.found
    BY <1>4, <1>7, <2>1 DEF OldRowsOld, v
  <2>2. CASE pass.phase = "SlotRead"
    BY <1>4, <1>7, <2>2 DEF OldRowsOld, v
  <2>3. QED
    BY <1>6, <1>7, <2>1, <2>2, PassSteps
<1>8. CASE chain[a][v].slot = rows'[a].slot
  BY <1>4, <1>8 DEF v
<1>9. QED
  BY <1>6, <1>7, <1>8, PassSteps, RowOrigin DEF v

(***************************************************************************)
(* The theorems                                                            *)
(***************************************************************************)
LEMMA MirrorInvInit == Init => MirrorInv
<1> SUFFICES ASSUME Init PROVE MirrorInv
  OBVIOUS
<1>1. TypeOK
  BY DEF Init, TypeOK, Asleep, Pass
<1>2. ChainOrdered
  <2>1. \A a \in Accounts : chain[a] = <<>> /\ Len(chain[a]) = 0 /\ confirmed[a] = 0
    BY DEF Init
  <2>2. ASSUME NEW a \in Accounts PROVE confirmed[a] <= Len(chain[a]) /\ 1..Len(chain[a]) = {}
    <3> DEFINE n == Len(chain[a])
    <3>1. n = 0 /\ confirmed[a] = 0
      BY <2>1
    <3> HIDE DEF n
    <3>2. confirmed[a] <= n /\ 1..n = {}
      BY <3>1
    <3>3. QED
      BY <3>2 DEF n
  <2>3. QED
    BY <2>2 DEF ChainOrdered
<1>3. TailTruthful /\ RowsHonest
  BY DEF Init, TailTruthful, RowsHonest
<1>4. SnapshotHonest /\ AbsentClosed /\ OldRowsOld
  BY DEF Init, SnapshotHonest, AbsentClosed, OldRowsOld, Asleep
<1>5. QED
  BY <1>1, <1>2, <1>3, <1>4 DEF MirrorInv

LEMMA MirrorInvStep == MirrorInv /\ [Next]_vars => MirrorInv'
<1> SUFFICES ASSUME MirrorInv, [Next]_vars PROVE MirrorInv'
  OBVIOUS
<1>1. TypeOK'
  BY TypeStep DEF MirrorInv
<1>2. QED
  BY <1>1, OrderStep, TailStep, RowsStep, SnapshotStep, AbsentStep, OldRowsStep DEF MirrorInv

LEMMA MirrorInvariant == Spec => []MirrorInv
BY MirrorInvInit, MirrorInvStep, PTL DEF Spec

LEMMA DomainOfSeq ==
    ASSUME TypeOK, NEW a \in Accounts
    PROVE  DOMAIN chain[a] = 1..Len(chain[a]) /\ DOMAIN tail = 1..Len(tail)
<1>1. chain[a] \in Seq(Version) /\ tail \in Seq(Note)
  BY DEF TypeOK
<1>2. QED
  BY <1>1

\* Type correctness of the mirror.
THEOREM MirrorTypeCorrect == Spec => []TypeOK
<1>1. MirrorInv => TypeOK
  BY DEF MirrorInv
<1>2. QED
  BY <1>1, MirrorInvariant, PTL

\* What reconcile.rs asks for the slot first for: no row's slot ever promises
\* more than its data holds, whatever the two sources do.
THEOREM HonestStamps == Spec => []StampsAreHonest
<1>1. ASSUME MirrorInv PROVE StampsAreHonest
  <2> USE <1>1
  <2>1. SUFFICES ASSUME NEW a \in Accounts, rows[a] # NoRow
                 PROVE  /\ rows[a].version \in 1..confirmed[a]
                        /\ chain[a][rows[a].version].open
                        /\ \A v \in DOMAIN chain[a] :
                               v > rows[a].version => chain[a][v].slot >= rows[a].slot
    BY DEF StampsAreHonest
  <2>2. Honest(a, rows[a].version, rows[a].slot)
    BY <2>1 DEF MirrorInv, RowsHonest
  <2>3. DOMAIN chain[a] = 1..Len(chain[a])
    BY DomainOfSeq DEF MirrorInv
  <2>4. QED
    BY <2>2, <2>3 DEF Honest
<1>2. QED
  BY <1>1, MirrorInvariant, PTL

\* The gate of upsert_account turns away no notification that is newer than
\* the row.
THEOREM NewsAccepted == Spec => []NewsGetsIn
<1>1. ASSUME MirrorInv PROVE NewsGetsIn
  <2> USE <1>1
  <2>1. SUFFICES ASSUME NEW i \in DOMAIN tail,
                        tail[i].version > rows[tail[i].account].version
                 PROVE  Accepts(rows[tail[i].account], tail[i].slot)
    BY DEF NewsGetsIn
  <2> DEFINE a == tail[i].account
  <2>2. tail \in Seq(Note) /\ i \in 1..Len(tail) /\ tail[i] \in Note
    BY DEF MirrorInv, TypeOK
  <2>3. a \in Accounts /\ tail[i].version \in 1..Len(chain[a])
        /\ chain[a][tail[i].version].slot = tail[i].slot
    BY <2>2 DEF Note, MirrorInv, TailTruthful, Truthful
  <2>4. CASE rows[a] # NoRow
    <3>1. Honest(a, rows[a].version, rows[a].slot)
      BY <2>3, <2>4 DEF MirrorInv, RowsHonest
    <3>2. tail[i].slot >= rows[a].slot
      BY <2>1, <2>3, <3>1 DEF Honest
    <3>3. rows[a].slot \in Nat /\ tail[i].slot \in Nat
      BY <2>2, <2>3, LenNat DEF MirrorInv, Note
    <3>4. QED
      BY <3>2, <3>3 DEF Accepts
  <2>5. QED
    BY <2>4 DEF Accepts
<1>2. QED
  BY <1>1, MirrorInvariant, PTL

\* What db.rs promises of prune: only accounts closed on-chain are removed.
THEOREM PruneSpares == Spec => PruneSparesLive
<1>1. ASSUME MirrorInv, [Next]_vars, NEW a \in Accounts, rows[a] # NoRow, rows'[a] = NoRow
      PROVE  \E v \in DOMAIN chain[a] : v > rows[a].version /\ ~chain[a][v].open
  <2>1. Prune
    <3>1. ASSUME NEW b \in Accounts, NEW v \in Nat \ {0}, NEW s \in Nat, rows' = Upserted(b, v, s)
          PROVE  FALSE
      <4>1. TypeOK
        BY <1>1 DEF MirrorInv
      <4>2. \/ Upserted(b, v, s)[a] = rows[a]
            \/ Upserted(b, v, s)[a] = [version |-> v, slot |-> s]
        BY <4>1, UpsertedRow
      <4>3. rows'[a] = rows[a] \/ rows'[a] = [version |-> v, slot |-> s]
        BY <3>1, <4>2
      <4>4. QED
        BY <1>1, <4>3 DEF NoRow
    <3>2. ~Deliver
      <4> SUFFICES ASSUME Deliver PROVE FALSE
        OBVIOUS
      <4>1. Head(tail) \in Note
        BY <1>1 DEF Deliver, MirrorInv, TypeOK
      <4>2. QED
        BY <1>1, <3>1, <4>1 DEF Deliver, Note
    <3>3. ASSUME NEW b \in Accounts, PersistOk(b) PROVE FALSE
      <4>1. pass.found[b] \in Nat \ {0} /\ pass.slot \in Nat
        BY <1>1, <3>3 DEF PersistOk, MirrorInv, SnapshotHonest, TypeOK, Pass
      <4>2. QED
        BY <3>1, <3>3, <4>1 DEF PersistOk, Stamp
    <3>4. rows' # rows
      BY <1>1
    <3>5. QED
      BY <1>1, <3>2, <3>3, <3>4
      DEF Next, ChainNext, PassNext, Write, Close, Confirm, ReadSlot, Fetch, PersistFails,
          PassFails, Restart, vars
  <2>2. pass.phase = "Fetched" /\ pass.found[a] = 0 /\ rows[a].slot <= pass.slot
    BY <1>1, <2>1 DEF Prune, Absent
  <2>3. Honest(a, rows[a].version, rows[a].slot)
    BY <1>1 DEF MirrorInv, RowsHonest
  <2>4. /\ rows[a].version \in 1..Len(chain[a]) /\ chain[a][rows[a].version].open
        /\ chain[a][rows[a].version].slot <= pass.slot
    <3>1. confirmed[a] \in Nat /\ Len(chain[a]) \in Nat /\ confirmed[a] <= Len(chain[a])
      BY <1>1, LenNat DEF MirrorInv, ChainOrdered
    <3>2. QED
      BY <1>1, <2>2, <2>3, <3>1 DEF Honest, MirrorInv, OldRowsOld
  <2>5. ClosedAfter(a, rows[a].version)
    BY <1>1, <2>2, <2>4 DEF MirrorInv, AbsentClosed
  <2>6. DOMAIN chain[a] = 1..Len(chain[a])
    BY <1>1, DomainOfSeq DEF MirrorInv
  <2>7. QED
    BY <2>5, <2>6 DEF ClosedAfter
<1>2. MirrorInv /\ [Next]_vars =>
        [\A a \in Accounts : rows[a] # NoRow /\ rows'[a] = NoRow =>
            \E v \in DOMAIN chain[a] : v > rows[a].version /\ ~chain[a][v].open]_vars
  BY <1>1
<1>3. QED
  BY <1>2, MirrorInvariant, PTL DEF Spec, PruneSparesLive

(***************************************************************************)
(* The price series                                                        *)
(***************************************************************************)
\* Slot `s`, 0 for an unknown one, may be put on change `of` of the pool.
Fits(of, s) == of \in 1..Len(pool) /\ (s # 0 => pool[of].slot <= s)

PoolInTime ==
    /\ head \in Nat
    /\ pool \in Seq(Change) /\ Len(pool) > 0
    /\ \A i \in 1..Len(pool) : pool[i].slot <= head

WatcherTask == [phase : {"None", "Baseline", "Read", "Stamped", "Connecting", "Streaming"},
         of : Nat, slot : Nat]

WatcherInTime ==
    /\ watcher \in WatcherTask
    /\ watcher.phase = "Read" => watcher.of \in 1..Len(pool)
    /\ watcher.phase = "Stamped" => Fits(watcher.of, watcher.slot)

PoolNote == [of : Nat, slot : Nat]

StreamInTime ==
    /\ stream \in Seq(PoolNote)
    /\ \A i \in 1..Len(stream) : Fits(stream[i].of, stream[i].slot)

Serving == [phase : {"None", "Read", "Differs"}, of : Nat, slot : Nat]

ServedInTime ==
    /\ served \in Serving
    /\ served.phase \in {"Read", "Differs"} => Fits(served.of, served.slot)

RowsInTime ==
    /\ series \in [Slots -> Sample \cup {NoSample}]
    /\ \A s \in Sampled : Fits(series[s].of, s)

SeriesInv ==
    /\ seconds \in Nat
    /\ PoolInTime /\ WatcherInTime /\ StreamInTime /\ ServedInTime /\ RowsInTime

\* What fits is kept by a swap, and by the clock.
LEMMA SwapFits ==
    ASSUME SeriesInv, NEW r \in Reserves, Swap(r)
    PROVE  /\ PoolInTime'
           /\ \A of, s : Fits(of, s) => Fits(of, s)'
           /\ \A of \in {Len(pool) + 1}, s \in {head} : Fits(of, s)'
<1> DEFINE change == [slot |-> head, reserves |-> r]
<1>1. pool' = Append(pool, change) /\ change \in Change /\ change.slot = head /\ head' = head
  BY DEF Swap, Change, SeriesInv, PoolInTime
<1> HIDE DEF change
<1>2. /\ pool' \in Seq(Change) /\ Len(pool') = Len(pool) + 1
      /\ pool'[Len(pool) + 1] = change
      /\ \A i \in 1..Len(pool) : pool'[i] = pool[i]
  BY <1>1 DEF SeriesInv, PoolInTime
<1>3. Len(pool) \in Nat
  BY DEF SeriesInv, PoolInTime
<1>4. PoolInTime'
  <2>1. \A i \in 1..Len(pool) : pool[i].slot <= head
    BY DEF SeriesInv, PoolInTime
  <2>2. \A i \in 1..Len(pool') : pool'[i].slot <= head
    BY <1>1, <1>2, <1>3, <2>1 DEF SeriesInv, PoolInTime
  <2>3. QED
    BY <1>1, <1>2, <1>3, <2>2 DEF SeriesInv, PoolInTime
<1>5. \A of, s : Fits(of, s) => Fits(of, s)'
  BY <1>2, <1>3 DEF Fits
<1>6. \A of \in {Len(pool) + 1}, s \in {head} : Fits(of, s)'
  BY <1>1, <1>2, <1>3 DEF Fits, SeriesInv, PoolInTime
<1>7. QED
  BY <1>4, <1>5, <1>6

\* One attempt to record.
LEMMA RecordedInTime ==
    ASSUME SeriesInv, UNCHANGED pool, NEW of, NEW s, Fits(of, s), series' \in Recorded(s, of)
    PROVE  RowsInTime'
<1>1. CASE series' = series
  BY <1>1 DEF SeriesInv, RowsInTime, Sampled, Fits
<1>2. CASE series' = Inserted(s, of)
  <2> DEFINE sample == [of |-> of,
                        ts |-> IF series[s] = NoSample THEN seconds ELSE series[s].ts]
  <2>1. series' = [series EXCEPT ![s] = sample]
    BY <1>2 DEF Inserted
  <2>2. s \in Slots => sample \in Sample
    BY DEF SeriesInv, RowsInTime, PoolInTime, Fits, Sample
  <2>3. sample.of = of
    OBVIOUS
  <2> HIDE DEF sample
  <2>4. QED
    BY <2>1, <2>2, <2>3 DEF SeriesInv, RowsInTime, Sampled, Fits
<1>3. QED
  BY <1>1, <1>2 DEF Recorded

LEMMA SeriesStep == SeriesInv /\ [SeriesNext]_seriesVars => SeriesInv'
<1> SUFFICES ASSUME SeriesInv, [SeriesNext]_seriesVars PROVE SeriesInv'
  OBVIOUS
<1> USE DEF SeriesInv
<1>1. ASSUME NEW r \in Reserves, Swap(r)
      PROVE  SeriesInv'
  <2>1. UNCHANGED <<seconds, series, watcher, served>>
    BY <1>1 DEF Swap
  <2>2. WatcherInTime' /\ ServedInTime'
    BY <1>1, <2>1, SwapFits DEF WatcherInTime, ServedInTime, Fits
  <2>3. RowsInTime'
    BY <1>1, <2>1, SwapFits DEF RowsInTime, Sampled
  <2>4. PICK note \in PoolNote : note.of = Len(pool) + 1 /\ note.slot = head
               /\ (stream' = stream \/ stream' = Append(stream, note))
    BY <1>1 DEF Swap, PoolInTime, PoolNote
  <2>5. stream \in Seq(PoolNote) /\ Len(stream) \in Nat
    BY DEF StreamInTime
  <2>6. /\ Append(stream, note) \in Seq(PoolNote)
        /\ stream' \in Seq(PoolNote) /\ Len(stream') \in Nat
    BY <2>4, <2>5
  <2>7. ASSUME NEW i \in 1..Len(stream')
        PROVE  Fits(stream[i].of, stream[i].slot)'
    <3>1. stream'[i] = note \/ (i \in 1..Len(stream) /\ stream'[i] = stream[i])
      BY <2>4, <2>5, <2>7
    <3>2. \A of, s : of = note.of /\ s = note.slot => Fits(of, s)'
      BY <1>1, <2>4, SwapFits
    <3>3. \A j \in 1..Len(stream) : \A of, s :
             of = stream[j].of /\ s = stream[j].slot => Fits(of, s)'
      BY <1>1, SwapFits DEF StreamInTime
    <3>4. QED
      BY <3>1, <3>2, <3>3
  <2>8. QED
    BY <1>1, <2>1, <2>2, <2>3, <2>6, <2>7, SwapFits DEF StreamInTime
<1>2. ASSUME UNCHANGED pool PROVE \A of, s : Fits(of, s)' <=> Fits(of, s)
  BY <1>2 DEF Fits
<1>3. CASE NextSlot \/ Advance \/ NextSecond
  <2>1. /\ UNCHANGED <<pool, series, watcher, stream, served>>
        /\ seconds' \in Nat /\ head' \in Nat /\ head <= head'
    BY <1>3 DEF NextSlot, Advance, NextSecond, PoolInTime
  <2>2. PoolInTime'
    <3>1. \A i \in 1..Len(pool) : pool[i].slot \in Nat
      <4>1. \A i \in 1..Len(pool) : pool[i] \in Change
        BY DEF PoolInTime
      <4>2. QED
        BY <4>1 DEF Change
    <3>2. QED
      BY <2>1, <3>1 DEF PoolInTime
  <2>3. QED
    BY <2>1, <2>2 DEF WatcherInTime, StreamInTime, ServedInTime, RowsInTime, Sampled, Fits
<1>4. CASE WatcherNext
  <2>1. UNCHANGED <<head, pool, seconds, served>> /\ PoolInTime' /\ ServedInTime'
    BY <1>4 DEF WatcherNext, Reconcile, ReadBaseline, AskSlot, RecordBaseline, Connect,
       RecordUpdate, StreamCloses, PoolInTime, ServedInTime, Fits
  <2>2. WatcherInTime'
    <3>1. CASE Reconcile
      BY <3>1 DEF Reconcile, WatcherInTime, NoTask, WatcherTask
    <3>2. CASE ReadBaseline
      <4>1. Len(pool) \in Nat /\ Len(pool) \in 1..Len(pool)
        BY DEF PoolInTime
      <4>2. QED
        BY <2>1, <3>2, <4>1 DEF ReadBaseline, Goes, WatcherInTime, WatcherTask
    <3>3. CASE AskSlot
      <4>1. PICK s \in {head, 0} : watcher' = [watcher EXCEPT !.phase = "Stamped", !.slot = s]
        BY <3>3 DEF AskSlot, SlotNow
      <4>2. s \in Nat /\ Fits(watcher.of, s)
        BY <3>3 DEF AskSlot, WatcherInTime, PoolInTime, Fits
      <4>3. QED
        BY <2>1, <3>3, <4>1, <4>2 DEF WatcherInTime, WatcherTask, Fits
    <3>4. CASE RecordBaseline
      BY <3>4 DEF RecordBaseline, WatcherInTime, NoTask, WatcherTask
    <3>5. CASE Connect \/ StreamCloses
      BY <3>5 DEF Connect, StreamCloses, Goes, WatcherInTime, WatcherTask
    <3>6. CASE RecordUpdate
      BY <2>1, <3>6 DEF RecordUpdate, WatcherInTime, Fits
    <3>7. QED
      BY <1>4, <3>1, <3>2, <3>3, <3>4, <3>5, <3>6 DEF WatcherNext
  <2>3. StreamInTime'
    <3>1. CASE stream' = stream
      BY <2>1, <3>1 DEF StreamInTime, Fits
    <3>2. CASE stream' = <<>>
      BY <3>2 DEF StreamInTime
    <3>3. CASE stream # <<>> /\ stream' = Tail(stream)
      <4>1. /\ stream' \in Seq(PoolNote) /\ Len(stream') = Len(stream) - 1
            /\ \A i \in 1..Len(stream') : stream'[i] = stream[i + 1]
        BY <3>3 DEF StreamInTime
      <4>2. \A i \in 1..Len(stream') : i + 1 \in 1..Len(stream)
        BY <4>1 DEF StreamInTime
      <4>3. QED
        BY <2>1, <4>1, <4>2 DEF StreamInTime, Fits
    <3>4. QED
      BY <1>4, <3>1, <3>2, <3>3 DEF WatcherNext, Reconcile, ReadBaseline, AskSlot,
         RecordBaseline, Connect, RecordUpdate, StreamCloses
  <2>4. RowsInTime'
    <3>1. CASE RecordBaseline
      BY <3>1, RecordedInTime DEF RecordBaseline, WatcherInTime
    <3>2. CASE RecordUpdate
      <4>1. Fits(Head(stream).of, Head(stream).slot)
        BY <3>2 DEF RecordUpdate, StreamInTime
      <4>2. QED
        BY <2>1, <3>2, <4>1, RecordedInTime DEF RecordUpdate
    <3>3. CASE UNCHANGED series
      BY <2>1, <3>3 DEF RowsInTime, Sampled, Fits
    <3>4. QED
      BY <1>4, <3>1, <3>2, <3>3 DEF WatcherNext, Reconcile, ReadBaseline, AskSlot, Connect,
         StreamCloses
  <2>5. QED
    BY <2>1, <2>2, <2>3, <2>4
<1>5. CASE ServedNext
  <2>1. /\ UNCHANGED <<head, pool, seconds, watcher, stream>>
        /\ PoolInTime' /\ WatcherInTime' /\ StreamInTime'
    BY <1>5 DEF ServedNext, ReadPool, Skip, Compare, RecordRead, PoolInTime, WatcherInTime,
       StreamInTime, Fits
  <2>2. ServedInTime'
    <3>1. CASE ReadPool
      BY <3>1 DEF ReadPool, ServedInTime, Serving, PoolInTime, Fits
    <3>2. CASE Skip \/ RecordRead
      BY <3>2 DEF Skip, RecordRead, ServedInTime, Serving, NotBusy
    <3>3. CASE Compare
      BY <2>1, <3>3 DEF Compare, ServedInTime, Serving, Fits
    <3>4. QED
      BY <1>5, <3>1, <3>2, <3>3 DEF ServedNext
  <2>3. RowsInTime'
    <3>1. CASE RecordRead
      BY <3>1, RecordedInTime DEF RecordRead, ServedInTime
    <3>2. CASE UNCHANGED series
      BY <2>1, <3>2 DEF RowsInTime, Sampled, Fits
    <3>3. QED
      BY <1>5, <3>1, <3>2 DEF ServedNext, ReadPool, Skip, Compare
  <2>4. QED
    BY <2>1, <2>2, <2>3
<1>6. CASE UNCHANGED seriesVars
  BY <1>6 DEF seriesVars, PoolInTime, WatcherInTime, StreamInTime, ServedInTime, RowsInTime,
     Sampled, Fits
<1>7. QED
  BY <1>1, <1>3, <1>4, <1>5, <1>6 DEF SeriesNext

LEMMA SeriesInvariant == SeriesSpec => []SeriesInv
<1>1. SeriesInit => SeriesInv
  <2> SUFFICES ASSUME SeriesInit PROVE SeriesInv
    OBVIOUS
  <2>1. PoolInTime
    BY SeriesAssumption DEF SeriesInit, PoolInTime, Change, Reserves
  <2>2. RowsInTime
    BY DEF SeriesInit, RowsInTime, Sampled
  <2>3. QED
    BY <2>1, <2>2 DEF SeriesInit, SeriesInv, WatcherInTime, StreamInTime, ServedInTime, NoTask,
       NotBusy, WatcherTask, Serving
<1>2. QED
  BY <1>1, SeriesStep, PTL DEF SeriesSpec

\* No row holds reserves the pool only came to after the row's slot.
THEOREM InTime == SeriesSpec => []SampledInTime
<1>1. SeriesInv => SampledInTime
  BY DEF SeriesInv, RowsInTime, SampledInTime, Fits
<1>2. QED
  BY <1>1, SeriesInvariant, PTL

\* Slots have a first and a last.
LEMMA ExtremesIn ==
    ASSUME NEW n \in Nat, NEW S, S \subseteq 0..n, S # {}
    PROVE  Min(S) \in S /\ Max(S) \in S
<1>1. /\ \E k \in S : \A y \in S : k <= y
      /\ \E k \in S : \A y \in S : y <= k
  BY LeastAndGreatest
<1>2. \E k \in S : \A y \in S : k >= y
  <2>1. \A k, y \in S : y <= k => k >= y
    OBVIOUS
  <2>2. QED
    BY <1>1, <2>1
<1>3. QED
  BY <1>1, <1>2 DEF Min, Max

\* A row is never captured a second time.
LEMMA CapturedOnce ==
    ASSUME SeriesInv, [SeriesNext]_seriesVars, NEW s \in Sampled
    PROVE  series'[s].ts = series[s].ts
<1>1. ASSUME NEW t, NEW of, series' \in Recorded(t, of)
      PROVE  series'[s].ts = series[s].ts
  <2>1. CASE series' = series
    BY <2>1
  <2>2. CASE series' = Inserted(t, of)
    BY <2>2 DEF Inserted, SeriesInv, RowsInTime, Sampled
  <2>3. QED
    BY <1>1, <2>1, <2>2 DEF Recorded
<1>2. CASE RecordBaseline \/ RecordUpdate \/ RecordRead
  BY <1>1, <1>2 DEF RecordBaseline, RecordUpdate, RecordRead
<1>3. CASE series' = series
  BY <1>3
<1>4. ASSUME NEW r \in Reserves, Swap(r) PROVE series' = series
  BY <1>4 DEF Swap
<1>5. \/ RecordBaseline \/ RecordUpdate \/ RecordRead
      \/ series' = series
  BY <1>4 DEF SeriesNext, NextSlot, Advance, NextSecond, WatcherNext, ServedNext, Reconcile,
     ReadBaseline, AskSlot, Connect, StreamCloses, ReadPool, Skip, Compare, seriesVars
<1>6. QED
  BY <1>2, <1>3, <1>5

\* Candles only change if the reserves of some slot do.
THEOREM CandlesHold == SeriesSpec => CandlesHoldStill
<1>1. ASSUME SeriesInv, [SeriesNext]_seriesVars, SlotPrices' = SlotPrices
      PROVE  Candles' = Candles
  <2>1. Sampled' = Sampled
    <3>1. DOMAIN SlotPrices = Sampled /\ DOMAIN SlotPrices' = Sampled'
      BY DEF SlotPrices
    <3>2. QED
      BY <1>1, <3>1
  <2>2. \A s \in Sampled : pool'[series'[s].of].reserves = pool[series[s].of].reserves
    BY <1>1, <2>1 DEF SlotPrices
  <2>3. \A s \in Sampled : series'[s].ts = series[s].ts
    BY <1>1, CapturedOnce
  <2>4. \A b : Bucket(b)' = Bucket(b)
    BY <2>1, <2>3 DEF Bucket
  <2>5. ASSUME NEW b, Bucket(b) # {} PROVE Candle(b)' = Candle(b)
    <3>1. Bucket(b) \subseteq 0..MaxHead /\ MaxHead \in Nat /\ Bucket(b) \subseteq Sampled
      BY SeriesAssumption DEF Bucket, Sampled, Slots
    <3>2. Min(Bucket(b)) \in Bucket(b) /\ Max(Bucket(b)) \in Bucket(b)
      BY <2>5, <3>1, ExtremesIn
    <3>3. {pool'[series'[s].of].reserves : s \in Bucket(b)}
             = {pool[series[s].of].reserves : s \in Bucket(b)}
      BY <2>2, <3>1
    <3>4. QED
      BY <2>2, <2>4, <3>1, <3>2, <3>3 DEF Candle
  <2>6. QED
    BY <2>4, <2>5 DEF Candles
<1>2. SeriesInv /\ [SeriesNext]_seriesVars =>
        [SlotPrices' = SlotPrices => Candles' = Candles]_seriesVars
  BY <1>1
<1>3. QED
  BY <1>2, SeriesInvariant, PTL DEF SeriesSpec, CandlesHoldStill
=============================================================================
