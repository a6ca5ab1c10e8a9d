\* A batch creation retried after a failure, one call of run at a time.
SPECIFICATION Spec
CONSTANTS
    Flows <- RebuiltOnly
    Runs = {r1}
    MAX_TX_COMPUTE_UNITS = 14
    PACKET_DATA_SIZE = 11
    MAX_BATCH_SIGN_TXS = 3
    COMPOSE_COMPUTE_UNITS = 4
    ACTIVATE_COMPUTE_UNITS = 14
    ADD_LIQUIDITY_COMPUTE_UNITS = 6
    DEFAULT_TX_COMPUTE_UNITS = 2
    MaxLists = 2
    MaxFailures = 1
INVARIANTS
    DoneMeansLanded
CHECK_DEADLOCK FALSE
