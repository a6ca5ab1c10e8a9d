\* Activation kept and retried, deposits and withdrawals built anew, two calls of run at a time.
SPECIFICATION FairSpec
CONSTANTS
    Flows <- KeptAndFresh
    Runs = {r1, r2}
    MAX_TX_COMPUTE_UNITS = 14
    PACKET_DATA_SIZE = 11
    MAX_BATCH_SIGN_TXS = 3
    COMPOSE_COMPUTE_UNITS = 4
    ACTIVATE_COMPUTE_UNITS = 14
    ADD_LIQUIDITY_COMPUTE_UNITS = 6
    DEFAULT_TX_COMPUTE_UNITS = 2
    MaxLists = 2
    MaxFailures = 2
INVARIANTS
    DoneMeansLanded
    DepositedOnce
    SentInOrder
PROPERTIES
    RetriedUntilDone
CHECK_DEADLOCK FALSE
