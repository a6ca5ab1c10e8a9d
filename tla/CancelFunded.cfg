\* One wallet that meets the floor alone, and an answer, against what the page says of
\* a market it offers to cancel.
SPECIFICATION Spec
CONSTANTS
    alice = alice
    bob = bob
    carol = carol
    dave = dave
    Users = {alice}
    Outcomes = {0}
    OptionCounts = {2}
    Replies = {1}
    Deposits = {1}
    Floors = {1}
    FeeRates = {0}
    ActivationLps = {}
    LateLps = {}
    Pools <- NoPools
    Gifts = {}
    MaxGift = 0
    Prefundable = {}
    MaxU64 = 2
    MaxU16 = 3
INVARIANT
    CancelOnlyUnderfunded
CHECK_DEADLOCK FALSE
