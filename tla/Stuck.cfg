\* Fair cranks and a fair asker, but an oracle that may never give an answer
\* that decodes, against "the market cannot get stuck waiting".
SPECIFICATION AskingFairSpec
CONSTANTS
    alice = alice
    bob = bob
    carol = carol
    dave = dave
    Users = {alice}
    Outcomes = {0}
    OptionCounts = {2}
    Replies = {0, 255}
    Deposits = {1}
    Floors = {2}
    FeeRates = {0}
    ActivationLps = {}
    LateLps = {}
    Pools <- NoPools
    Gifts = {}
    MaxGift = 0
    Prefundable = {}
    MaxU64 = 2
    MaxU16 = 2
PROPERTIES
    NeverStuck
CHECK_DEADLOCK FALSE
