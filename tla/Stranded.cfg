\* Two wallets with prefunded addresses, against what close_market promises of contributors.
SPECIFICATION Spec
CONSTANTS
    alice = alice
    bob = bob
    carol = carol
    dave = dave
    Users = {alice, bob}
    Outcomes = {0}
    OptionCounts = {2}
    Replies = {1}
    Deposits = {1}
    Floors = {2}
    FeeRates = {0}
    ActivationLps = {}
    LateLps = {}
    Pools <- NoPools
    Gifts = {}
    MaxGift = 0
    Prefundable = {alice, bob}
    MaxU64 = 3
    MaxU16 = 3
INVARIANT
    NoStrandedContributor
CHECK_DEADLOCK FALSE
