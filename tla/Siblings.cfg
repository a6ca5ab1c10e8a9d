\* Three outcome bytes, two of them options of the subject, and answers in and
\* out of range: the sub-markets settle at different times, and the cranks
\* empty and reap them all.
SPECIFICATION FocusedSpec
CONSTANTS
    alice = alice
    bob = bob
    carol = carol
    dave = dave
    Users = {alice, bob, carol}
    Outcomes = {0, 1, 2}
    OptionCounts = {1, 2}
    Replies = {0, 1, 2, 255}
    Deposits = {5}
    Floors = {5, 10}
    FeeRates = {0, 1000}
    ActivationLps = {12}
    LateLps = {4}
    Pools <- OnePool
    Gifts = {1}
    MaxGift = 1
    Prefundable = {bob, carol}
    MaxU64 = 16
    MaxU16 = 3
INVARIANTS
    SiblingsAgree
    OffersAccepted
    WayOutOffered
    ShownIsPaid
PROPERTIES
    SettledMarketsDrain
    PromiseKept
CHECK_DEADLOCK FALSE
