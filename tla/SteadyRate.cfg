\* Two creations per half-life at most, against the rate config.rs documents.
SPECIFICATION AccountsSpec
CONSTANTS
    deployer = deployer
    dao = dao
    first = first
    second = second
    Keys = {deployer}
    Upgrader = deployer
    HALFLIFE = 4
    INCREMENT = 64
    MaxU64 = 4096
    Curves <- RampOnly
    FeeRates = {0}
    Waits = {2}
    MinGap = 2
    MaxTime = 30
    MaxMarkets = 12
    Validators = {}
    Frequencies = {}
    DEFAULT_COMMIT_FREQUENCY_MS = 30
    MaxSlot = 1
    Founder = founder
    Backer = backer
    Treasuries = {first, second}
    Nobody = Nobody
INVARIANT
    SettlesAtDocumentedRate
CHECK_DEADLOCK FALSE
