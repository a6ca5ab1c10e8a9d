\* Four wallets, any of whose contribution addresses may hold lamports before they are used, one
\* market that has room for three, with the counter and the amounts at their limits, gifts, late
\* deposits, the fee, and every way out.
SPECIFICATION NarrowSpec
CONSTANTS
    alice = alice
    bob = bob
    carol = carol
    dave = dave
    Users = {alice, bob, carol, dave}
    Outcomes = {0}
    OptionCounts = {2}
    Replies = {0, 1}
    Deposits = {0, 7, 20}
    Floors = {14}
    FeeRates = {0, 1000}
    ActivationLps = {30}
    LateLps = {1, 8}
    Pools <- ThreePools
    Gifts = {1}
    MaxGift = 1
    Prefundable = {alice, bob, carol, dave}
    MaxU64 = 47
    MaxU16 = 3
SYMMETRY UserSymmetry
INVARIANTS
    TypeOK
    CounterNeverOver
    CounterNeverShort
    StrandedOnlyIfAdopted
    EscrowBacked
    LpConserved
    VaultBacked
PROPERTIES
    NeverReborn
    BasisFrozen
    FairClaims
CHECK_DEADLOCK FALSE
