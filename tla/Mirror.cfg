\* The mirror: one account written, closed and created again over four slots,
\* under a tail, passes and a crash that interleave.  The series: a pool whose
\* reserves change twice over two slots and two seconds, under a subscription
\* that opens and closes and a page that looks.
SPECIFICATION IndexerSpec
CONSTANTS
    Accounts = {a1}
    MaxVersions = 3
    MaxSlot = 4
    MaxTail = 3
    MaxRestarts = 1
    Prices = {1, 2}
    Drained = 0
    MaxChanges = 3
    MaxHead = 2
    MaxStream = 2
    MaxSeconds = 1
INVARIANTS
    StampsAreHonest
    NewsGetsIn
    SampledInTime
PROPERTIES
    PruneSparesLive
    MirrorCatchesUp
    CandlesHoldStill
    SeriesCatchesUp
CHECK_DEADLOCK FALSE
