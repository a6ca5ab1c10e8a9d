\* As Mirror, against the header of market/db.rs.
SPECIFICATION FairSpec
CONSTANTS
    Accounts = {a1}
    MaxVersions = 3
    MaxSlot = 4
    MaxTail = 3
    MaxRestarts = 1
PROPERTIES
    OlderNeverClobbers
CHECK_DEADLOCK FALSE
