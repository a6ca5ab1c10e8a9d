----------------------------- MODULE PriceSeries -----------------------------
(***************************************************************************)
(* The indexer's price series of one market (src/indexer): the table       *)
(* market_price has a row per slot, and two writers who share nothing else.*)
(* The watcher, a task that the manager starts and aborts with the market's*)
(* status, seeds a baseline and then records what a websocket reports of   *)
(* the pool.  And every detail page that is served reads the pool and      *)
(* records it if it differs from the latest row.  Candles are read off the *)
(* rows, by the second each row was first captured.                        *)
(*                                                                         *)
(* The pool is external: the reserves it went through, by slot.  Reserves  *)
(* are values that only compare; `Drained` stands for those without a      *)
(* price.  A sample remembers which of the pool's changes it is of, which  *)
(* no step reads and the properties are about.                             *)
(***************************************************************************)
EXTENDS Naturals, Sequences, FiniteSetsExt

CONSTANTS
    Prices,      \* what a pool's reserves may imply
    Drained,     \* reserves that imply no price
    MaxChanges,  \* bound on the changes of the pool
    MaxHead,     \* bound on the slots
    MaxStream,   \* bound on the notifications under way
    MaxSeconds   \* bound on the capture clock

ASSUME SeriesAssumption ==
    /\ Prices # {} /\ Drained \notin Prices
    /\ MaxChanges \in Nat /\ MaxHead \in Nat /\ MaxStream \in Nat /\ MaxSeconds \in Nat

VARIABLES
    head,     \* the slot the cluster is at
    pool,     \* the pool's reserves, each with the slot they came in
    status,   \* the market's, in the mirror: Active is with a pool
    seconds,  \* the capture clock
    series,   \* the market's rows in market_price
    watcher,  \* the subscription task
    stream,   \* websocket notifications under way, oldest first
    served    \* the detail page being served

seriesVars == <<head, pool, status, seconds, series, watcher, stream, served>>

Reserves == Prices \cup {Drained}

Change == [slot : Nat, reserves : Reserves]

Slots == 0..MaxHead

Sample   == [of : Nat \ {0}, ts : Nat]
NoSample == [of |-> 0, ts |-> 0]

NoTask  == [phase |-> "None", of |-> 0, slot |-> 0]
NotBusy == [phase |-> "None", of |-> 0, slot |-> 0]

Sampled == {s \in Slots : series[s] # NoSample}

SeriesInit ==
    /\ head = 1
    /\ pool = <<[slot |-> 1, reserves |-> CHOOSE r \in Prices : TRUE]>>
    /\ status = "Funding"
    /\ seconds = 0
    /\ series = [s \in Slots |-> NoSample]
    /\ watcher = NoTask
    /\ stream = <<>>
    /\ served = NotBusy

(***************************************************************************)
(* The cluster, the mirror's row of the market, and time                   *)
(***************************************************************************)
\* A swap changes the pool.  An open subscription reports it, or misses it.
Swap(r) ==
    /\ Len(pool) < MaxChanges
    /\ r # pool[Len(pool)].reserves
    /\ pool' = Append(pool, [slot |-> head, reserves |-> r])
    /\ \/ /\ watcher.phase = "Streaming" /\ Len(stream) < MaxStream
          /\ stream' = Append(stream, [of |-> Len(pool) + 1, slot |-> head])
       \/ UNCHANGED stream
    /\ UNCHANGED <<head, status, seconds, series, watcher, served>>

NextSlot ==
    /\ head < MaxHead
    /\ head' = head + 1
    /\ UNCHANGED <<pool, status, seconds, series, watcher, stream, served>>

\* The market is activated, and later resolved.
Advance ==
    /\ \/ status = "Funding" /\ status' = "Active"
       \/ status = "Active" /\ status' = "Settled"
    /\ UNCHANGED <<head, pool, seconds, series, watcher, stream, served>>

NextSecond ==
    /\ seconds < MaxSeconds
    /\ seconds' = seconds + 1
    /\ UNCHANGED <<head, pool, status, series, watcher, stream, served>>

(***************************************************************************)
(* The table                                                               *)
(***************************************************************************)
\* The row is captured anew whenever its slot is (mutant).
InsertedAfresh(s, of) == [series EXCEPT ![s] = [of |-> of, ts |-> seconds]]

\* insert_price: the latest reserves observed for a slot, captured when the
\* slot first was.
Inserted(s, of) ==
    [series EXCEPT ![s] = [of |-> of, ts |-> IF @ = NoSample THEN seconds ELSE @.ts]]

\* The table after one attempt to record.  Reserves without a price are left
\* out, and an insert that fails is logged and forgotten.
Recorded(s, of) ==
    IF pool[of].reserves = Drained THEN {series} ELSE {series, Inserted(s, of)}

\* The first sample of all (mutant).
FirstSample == IF Sampled = {} THEN NoSample ELSE series[Min(Sampled)]

LatestSample == IF Sampled = {} THEN NoSample ELSE series[Max(Sampled)]

\* What latest_price_reserves answers.
Latest == LatestSample

\* The slots sampled in second `b`, which is one bucket, and its candle.
Bucket(b) == {s \in Sampled : series[s].ts = b}

Candle(b) ==
    LET price(s) == pool[series[s].of].reserves
    IN  [open  |-> price(Min(Bucket(b))),
         spans |-> {price(s) : s \in Bucket(b)},
         close |-> price(Max(Bucket(b)))]

Candles == [b \in {b \in 0..MaxSeconds : Bucket(b) # {}} |-> Candle(b)]

(***************************************************************************)
(* The manager and the watcher                                             *)
(***************************************************************************)
Active == status = "Active"

\* One pass of run_price_subscriber.  A task is aborted where it stands.
Reconcile ==
    /\ Active # (watcher # NoTask)
    /\ watcher' = IF Active THEN [NoTask EXCEPT !.phase = "Baseline"] ELSE NoTask
    /\ stream' = <<>>
    /\ UNCHANGED <<head, pool, status, seconds, series, served>>

Goes(phase) == watcher' = [watcher EXCEPT !.phase = phase]

ReadBaseline ==
    /\ watcher.phase = "Baseline"
    /\ \/ watcher' = [watcher EXCEPT !.phase = "Read", !.of = Len(pool)]
       \/ Goes("Connecting")
    /\ UNCHANGED <<head, pool, status, seconds, series, stream, served>>

\* The slot at a commitment that trails the account's (mutant).
TrailingSlot == head - 1

\* What get_slot answers.
SlotNow == head

\* A slot that cannot be read counts as slot 0.
AskSlot ==
    /\ watcher.phase = "Read"
    /\ \E s \in {SlotNow, 0} : watcher' = [watcher EXCEPT !.phase = "Stamped", !.slot = s]
    /\ UNCHANGED <<head, pool, status, seconds, series, stream, served>>

RecordBaseline ==
    /\ watcher.phase = "Stamped"
    /\ series' \in Recorded(watcher.slot, watcher.of)
    /\ watcher' = [NoTask EXCEPT !.phase = "Connecting"]
    /\ UNCHANGED <<head, pool, status, seconds, stream, served>>

Connect ==
    /\ watcher.phase = "Connecting"
    /\ Goes("Streaming") \/ Goes("Baseline")
    /\ UNCHANGED <<head, pool, status, seconds, series, stream, served>>

RecordUpdate ==
    /\ watcher.phase = "Streaming" /\ stream # <<>>
    /\ series' \in Recorded(Head(stream).slot, Head(stream).of)
    /\ stream' = Tail(stream)
    /\ UNCHANGED <<head, pool, status, seconds, watcher, served>>

StreamCloses ==
    /\ watcher.phase = "Streaming"
    /\ stream' = <<>>
    /\ Goes("Baseline")
    /\ UNCHANGED <<head, pool, status, seconds, series, served>>

(***************************************************************************)
(* A detail page that is served                                            *)
(***************************************************************************)
\* get_market_detail reads the pool and the slot of that very read.
ReadPool ==
    /\ Active /\ served = NotBusy
    /\ served' = [phase |-> "Read", of |-> Len(pool), slot |-> head]
    /\ UNCHANGED <<head, pool, status, seconds, series, watcher, stream>>

\* Is there nothing new to plot?
Unchanged(of) == Latest # NoSample /\ pool[Latest.of].reserves = pool[of].reserves

\* Nothing to plot, nothing new, or a look that failed.
Skip ==
    /\ served.phase = "Read"
    /\ served' = NotBusy
    /\ UNCHANGED <<head, pool, status, seconds, series, watcher, stream>>

Compare ==
    /\ served.phase = "Read"
    /\ pool[served.of].reserves # Drained /\ ~Unchanged(served.of)
    /\ served' = [served EXCEPT !.phase = "Differs"]
    /\ UNCHANGED <<head, pool, status, seconds, series, watcher, stream>>

RecordRead ==
    /\ served.phase = "Differs"
    /\ series' \in Recorded(served.slot, served.of)
    /\ served' = NotBusy
    /\ UNCHANGED <<head, pool, status, seconds, watcher, stream>>

(***************************************************************************)
(* The specification                                                       *)
(***************************************************************************)
WatcherNext ==
    \/ Reconcile \/ ReadBaseline \/ AskSlot \/ RecordBaseline
    \/ Connect \/ RecordUpdate \/ StreamCloses

ServedNext == ReadPool \/ Skip \/ Compare \/ RecordRead

SeriesNext ==
    \/ \E r \in Reserves : Swap(r)
    \/ NextSlot \/ Advance \/ NextSecond
    \/ WatcherNext
    \/ ServedNext

\* Some page goes on asking for the detail, as one that shows an Active market
\* does, and neither its look at the table nor its insert fails every time.
\* The tasks run, and a stream is read.
SeriesFairness ==
    /\ WF_seriesVars(Reconcile)
    /\ WF_seriesVars(ReadBaseline \/ AskSlot \/ RecordBaseline \/ RecordUpdate)
    /\ WF_seriesVars(ReadPool) /\ WF_seriesVars(Skip \/ Compare) /\ SF_seriesVars(Compare)
    /\ WF_seriesVars(RecordRead)
    /\ SF_seriesVars(RecordRead /\ series' # series)

SeriesSpec == SeriesInit /\ [][SeriesNext]_seriesVars

(***************************************************************************)
(* Safety                                                                  *)
(***************************************************************************)
\* No row holds reserves the pool only came to after the row's slot, slot 0
\* for an unknown one apart: the baseline asks for the slot after the account,
\* a page takes the slot of its very read, the stream brings its own.
SampledInTime ==
    \A s \in Sampled \ {0} : pool[series[s].of].slot <= s

SlotPrices == [s \in Sampled |-> pool[series[s].of].reserves]

\* Candles only change if the reserves of some slot do: what is observed
\* again after a reconnect, or by a page and the stream at once, moves no
\* sample from one candle to another.
CandlesHoldStill == [][SlotPrices' = SlotPrices => Candles' = Candles]_seriesVars

(***************************************************************************)
(* Liveness                                                                *)
(***************************************************************************)
PriceKnown ==
    LET last == pool[Len(pool)].reserves
    IN  last = Drained \/ (LatestSample # NoSample /\ pool[LatestSample.of].reserves = last)

\* While a market stays Active and is looked at, the latest row becomes what
\* its pool is and stays so, whatever the subscription missed, brought late
\* or wrote over.
SeriesCatchesUp == SeriesFairness /\ <>[]Active => <>[]PriceKnown

=============================================================================
