------------------------------ MODULE PageReads ------------------------------
(***************************************************************************)
(* A market's page in the web app and the reads it lives off (src/app).    *)
(* A read is run when the page is opened, at every tick of a timer while   *)
(* the market shown is Active, in a burst after a write of the page's own, *)
(* and when the user asks again; only the run started last may set the     *)
(* page's state.  The forms of the page are there while it is ready.       *)
(*                                                                         *)
(* A read is answered with the market's row in the indexer's table, or     *)
(* fails.  The row trails the chain by any time, may miss versions         *)
(* (src/indexer/src/market/processor.rs drops upserts that fail) and may   *)
(* go back to an older one, by a snapshot that is stamped with an older    *)
(* slot (see IndexerMirror).  So nothing relates a row to the one before   *)
(* it, nor to a write just confirmed.  Of its data what matters here is    *)
(* the phase of the market, and which update of the row brought them.      *)
(***************************************************************************)
EXTENDS Naturals, Sequences, FiniteSets

CONSTANTS
    Pages,        \* the markets there are pages of
    Nothing,      \* no data
    MaxUpdates,   \* bound on the updates of a market's row
    MaxRuns,      \* bound on the reads under way
    MaxVisits     \* bound on the pages opened one after the other

Phases == <<"Funding", "Active", "Settled">>

Row  == [update : Nat, phase : DOMAIN Phases]
Held == [of : Pages, row : Row]   \* what may be held of a market

ASSUME PageAssumption ==
    /\ Nothing \notin Held
    /\ MaxUpdates \in Nat /\ MaxRuns \in Nat /\ MaxVisits \in Nat

VARIABLES
    table,    \* each market's row in the indexer's table
    asked,    \* the market whose page is open
    runs,     \* reads under way
    data,     \* what the page holds of a market
    loading,  \* is the last run under way?
    failed,   \* did it fail?
    busy,     \* is a write of the page's own under way?
    burst,    \* the delays of the refetches to come
    due,      \* what the last refetch found in the table, for the record
    visits    \* pages opened so far

pageVars == <<table, asked, runs, data, loading, failed, busy, burst, due, visits>>
shown    == <<data, loading, failed>>

Unread == [update |-> 0, phase |-> 1]

\* A read of market `k` is sent, and supersedes those before it.
Sent(k) ==
    {[r EXCEPT !.live = FALSE] : r \in runs}
        \cup {[of |-> k, live |-> TRUE, state |-> "Sent", row |-> Unread]}

PageInit ==
    /\ table \in [Pages -> {[update |-> 0, phase |-> p] : p \in DOMAIN Phases}]
    /\ asked \in Pages
    /\ runs = {[of |-> asked, live |-> TRUE, state |-> "Sent", row |-> Unread]}
    /\ data = Nothing /\ loading = TRUE /\ failed = FALSE
    /\ busy = FALSE
    /\ burst = <<>>
    /\ due = [of |-> asked, update |-> 0]
    /\ visits = 1

(***************************************************************************)
(* The indexer                                                             *)
(***************************************************************************)
\* The row of market `k` is upserted, with the data of any time.
Index(k) ==
    /\ table[k].update < MaxUpdates
    /\ \E p \in DOMAIN Phases :
           table' = [table EXCEPT ![k] = [update |-> @.update + 1, phase |-> p]]
    /\ UNCHANGED <<asked, runs, shown, busy, burst, due, visits>>

Answer(r) ==
    /\ r \in runs /\ r.state = "Sent"
    /\ runs' \in {(runs \ {r}) \cup {a} : a \in {[r EXCEPT !.state = "Failed"],
                                               [r EXCEPT !.state = "Answered", !.row = table[r.of]]}}
    /\ UNCHANGED <<table, asked, shown, busy, burst, due, visits>>

(***************************************************************************)
(* The page                                                                *)
(***************************************************************************)
\* Any answer sets the state (mutant).
AppliesLate(r) == TRUE

\* May the answer of run `r` set the state?
Applies(r) == r.live

Arrive(r) ==
    /\ r \in runs /\ r.state # "Sent"
    /\ runs' = runs \ {r}
    /\ IF Applies(r)
       THEN /\ data' = IF r.state = "Failed" THEN Nothing ELSE [of |-> r.of, row |-> r.row]
            /\ loading' = FALSE
            /\ failed' = (r.state = "Failed")
       ELSE UNCHANGED shown
    /\ UNCHANGED <<table, asked, busy, burst, due, visits>>

\* A run starts: what is shown stays, the last error does not.
StartRun(k) ==
    /\ Cardinality(runs) < MaxRuns
    /\ runs' = Sent(k)
    /\ loading' = TRUE /\ failed' = FALSE
    /\ UNCHANGED data

\* The user follows a link to the page of another market.
Visit(k) ==
    /\ k # asked /\ visits < MaxVisits
    /\ asked' = k
    /\ visits' = visits + 1
    /\ StartRun(k)
    /\ UNCHANGED <<table, busy, burst, due>>

\* Is the timer set?
Polls == data # Nothing /\ Phases[data.row.phase] = "Active"

Tick == Polls /\ StartRun(asked) /\ UNCHANGED <<table, asked, busy, burst, due, visits>>

\* What the page renders.
View ==
    IF data # Nothing /\ data.of = asked THEN "ready"
    ELSE IF loading THEN "loading" ELSE "error"

Retry == View = "error" /\ StartRun(asked) /\ UNCHANGED <<table, asked, busy, burst, due, visits>>

(***************************************************************************)
(* A write from one of its forms                                           *)
(***************************************************************************)
Submit ==
    /\ View = "ready" /\ ~busy
    /\ busy' = TRUE
    /\ UNCHANGED <<table, asked, runs, shown, burst, due, visits>>

AfterWrite == <<0, 800, 1800, 3500>>

\* The write is confirmed: the refetches are scheduled in place of those that
\* were.
Confirmed ==
    /\ busy /\ busy' = FALSE
    /\ burst' = AfterWrite
    /\ UNCHANGED <<table, asked, runs, shown, due, visits>>

\* It fails, or it lands and is not seen to.
NotConfirmed ==
    /\ busy /\ busy' = FALSE
    /\ UNCHANGED <<table, asked, runs, shown, burst, due, visits>>

\* A refetch waits for the read that is under way (mutant).
RunUnlessLoading(k) == IF loading THEN UNCHANGED <<runs, shown>> ELSE StartRun(k)

\* refetch bumps the nonce, and so starts a run.
RunAgain(k) == StartRun(k)

\* A refetch comes due.
Refetch ==
    /\ burst # <<>>
    /\ burst' = Tail(burst)
    /\ due' = [of |-> asked, update |-> table[asked].update]
    /\ RunAgain(asked)
    /\ UNCHANGED <<table, asked, busy, visits>>

(***************************************************************************)
(* The specification                                                       *)
(***************************************************************************)
PageNext ==
    \/ \E k \in Pages : Index(k) \/ Visit(k)
    \/ \E r \in runs : Answer(r) \/ Arrive(r)
    \/ Tick \/ Retry
    \/ Submit \/ Confirmed \/ NotConfirmed \/ Refetch

\* The timers fire, and of the reads that are not superseded some are answered
\* before the next is due, 15 seconds later.  Nothing is asked of the indexer.
PageFairness ==
    /\ WF_pageVars(Tick) /\ WF_pageVars(Refetch)
    /\ WF_pageVars(\E r \in runs : r.live /\ Answer(r))
    /\ SF_pageVars(\E r \in runs : r.live /\ Arrive(r))
    /\ WF_pageVars(\E r \in runs : Answer(r) \/ Arrive(r))

PageSpec == PageInit /\ [][PageNext]_pageVars

(***************************************************************************)
(* Safety                                                                  *)
(***************************************************************************)
\* Whatever the order the answers come in, the page never goes back: the row
\* of a market that it shows gives way to a later state of that row alone
\* (itself an older version of the market where the indexer goes back), and a
\* form in which the user is typing is only taken away if the user leaves or a
\* read fails.
NeverGoesBack ==
    [][/\ data # Nothing /\ data' # Nothing /\ data'.of = data.of
              => data'.row.update >= data.row.update
       /\ View = "ready" /\ View' # "ready" => asked' # asked \/ failed']_pageVars

(***************************************************************************)
(* Liveness                                                                *)
(***************************************************************************)
\* The page does not stay behind the indexer's table.  While it shows an Active
\* market, its polls find out how the row ended up; and each refetch after a
\* confirmed write, in any phase of the market and whatever reads are under way
\* when it comes due, brings at least what the table then holds, unless the
\* user leaves or a read fails.  Whether that is the write already, no delay
\* of a refetch can promise.
PageCatchesUp ==
    PageFairness =>
        /\ []<>(View = "ready" /\ Phases[data.row.phase] = "Active" => data.row = table[asked])
        /\ []<>(asked = due.of /\ View = "ready" => data.row.update >= due.update)
=============================================================================
