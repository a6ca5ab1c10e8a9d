\* Four creations over more than two half-lives, and a governance that retunes the
\* floor in between; beside it, two validators that take turns at one market
\* over four slots; beside both, the life of one market among three others, two
\* members and two treasuries, as the account lists see it.
SPECIFICATION AccountsSpec
CONSTANTS
    deployer = deployer
    dao = dao
    first = first
    second = second
    Keys = {deployer, dao}
    Upgrader = deployer
    HALFLIFE = 4
    INCREMENT = 64
    MaxU64 = 256
    Curves <- RampAndFlat
    FeeRates = {1000, 1001}
    Waits = {1, 3}
    MinGap = 0
    MaxTime = 9
    MaxMarkets = 4
    Validators = {v1, v2}
    Frequencies = {0, 5}
    DEFAULT_COMMIT_FREQUENCY_MS = 30
    MaxSlot = 4
    Founder = founder
    Backer = backer
    Treasuries = {first, second}
    Nobody = Nobody
INVARIANTS
    AccountsTypeOK
    CommitsAreCurrent
    ActivityMeasuresDemand
    ListsStand
    StrangersRefused
PROPERTIES
    QuoteFollowsDemand
CHECK_DEADLOCK FALSE
