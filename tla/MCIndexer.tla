------------------------------ MODULE MCIndexer ------------------------------
(***************************************************************************)
(* Instances of IndexerMirror and PriceSeries for TLC.  The two share a    *)
(* process and a database but no table; of the mirror the series only takes*)
(* the market's status, as given.  One run explores them side by side, each*)
(* while the other is as it began.                                         *)
(***************************************************************************)
EXTENDS IndexerMirror, PriceSeries

IndexerNext ==
    \/ SeriesInit /\ UNCHANGED seriesVars /\ Next
    \/ Init /\ UNCHANGED vars /\ SeriesNext

IndexerInit == Init /\ SeriesInit

IndexerSpec == IndexerInit /\ [][IndexerNext]_<<vars, seriesVars>>

\* CatchesUp, of a mirror that is scheduled fairly: here it may be the series'
\* turn forever.
MirrorCatchesUp == Fairness => CatchesUp
=============================================================================
