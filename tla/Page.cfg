\* Reads: two markets, a link followed, an update of each row.
\* Tickets: dust, a trade and one above what the trader has, on two pools
\* others move.  Fees: small amounts, and rates up to the cap of 10%: losses,
\* profits too small to be worth an LP, and pools the market shares.
SPECIFICATION MCSpec
CONSTANTS
    homePage = homePage
    otherPage = otherPage
    Pages = {homePage, otherPage}
    Nothing = Nothing
    MaxUpdates = 1
    MaxRuns = 2
    MaxVisits = 2
    LpTotals = {1, 7, 10, 33, 40, 100}
    Contributions = {1, 10, 33, 50, 100}
    FeeRates = {0, 1, 250, 999, 1000}
    Reserves = {0, 1, 17, 100, 305}
    Supplies = {10, 40, 100, 150}
    PayoutPairs <- Verdicts
    OpeningPools <- EvenAndSkewed
    OpeningWallet <- Trader
    Amounts = {3, 7, 25}
    Slippages = {0, 100}
    OtherAmounts = {5, 40}
    MaxMoves = 2
    Null = Null
INVARIANTS
    FeeSparesPrincipal
    FeeIsRate
    QuotedGoesThrough
    MergeNeverFails
PROPERTIES
    TicketKept
    NeverGoesBack
    PageCatchesUp
CHECK_DEADLOCK FALSE
