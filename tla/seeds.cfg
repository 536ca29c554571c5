SPECIFICATION TransactionSpec
CONSTANTS
    a1 = a1
    a2 = a2
    a3 = a3
    alice = alice
    bob = bob
    seeded = seeded
    nobody = nobody
    v1 = v1
    v2 = v2
CONSTANTS
    MaxU64 = 10000
    MaxU128 = 100000000
    MaxEntries = 10
    RateBps = 900
    BasisPoints = 10000
CONSTANTS
    Keys = {a1, alice, bob, seeded, nobody}
    NoKey = nokey
    DefaultKey = nobody
    Unset = unset
    DerivedKeys <- AliceSeed
CONSTANTS
    Accounts = {a1}
    Wallet = wallet
    Voters = {v1}
    Supply = 2
    MinimumDelegation = 1
    MinimumDelinquentEpochs = 2
    Background <- FastCluster
    RentValues = {1}
CONSTANTS
    Amounts = {2}
    SignerSets <- AnySigners
    Parties = {alice, bob, seeded}
    InitialLockups <- TimeLockups
    LockupChanges <- LockupEdits
    MaxEpoch = 1
    MaxTime = 1
    VotingEpochs = {}
    RewardEpochs = {}
CONSTANTS
    CLOCK_ID = clock_id
    RENT_ID = rent_id
    STAKE_HISTORY_ID = history_id
    CONFIG_ID = config_id
    Seeds <- MCSeeds
    CreateWithSeed <- MCCreateWithSeed
CONSTANTS
    Submitted <- Submissions
    NoTerms = noterms
    Named = {a1, alice, bob, seeded}
    Lockups <- MCLockups
    Changes <- MCChanges
INVARIANTS AuthoritiesReplaceable
PROPERTIES ImplementsCustody
SYMMETRY Symmetry
CHECK_DEADLOCK FALSE
