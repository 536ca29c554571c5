SPECIFICATION TransactionSpec
CONSTANTS
    a1 = a1
    a2 = a2
    a3 = a3
    alice = alice
    bob = bob
    seeded = seeded
    nobody = nobody
    v1 = v1
    v2 = v2
CONSTANTS
    MaxU64 = 10000
    MaxU128 = 100000000
    MaxEntries = 10
    RateBps = 900
    BasisPoints = 10000
CONSTANTS
    Keys = {a1, a2, alice, bob, seeded, nobody}
    NoKey = nokey
    DefaultKey = nobody
    Unset = unset
    DerivedKeys <- AliceSeed
CONSTANTS
    Accounts = {a1, a2}
    Wallet = wallet
    Voters = {v1, v2}
    Supply = 4
    MinimumDelegation = 1
    MinimumDelinquentEpochs = 1
    Background <- FastCluster
    RentValues = {1}
CONSTANTS
    Amounts = {1, 3}
    SignerSets <- AnySigners
    Parties = {alice, bob}
    InitialLockups <- NoLockup
    LockupChanges = {}
    MaxEpoch = 1
    MaxTime = 0
    VotingEpochs = {1}
    RewardEpochs = {}
CONSTANTS
    CLOCK_ID = clock_id
    RENT_ID = rent_id
    STAKE_HISTORY_ID = history_id
    CONFIG_ID = config_id
    Seeds <- MCSeeds
    CreateWithSeed <- MCCreateWithSeed
CONSTANTS
    Submitted <- Delegations
    NoTerms = noterms
    Named = {a1, alice, bob, seeded}
    Lockups <- MCLockups
    Changes <- MCChanges
INVARIANTS CreationsFinish StakeReachable RegroupingReachable FundsReachable
PROPERTIES DelegationNeedsStaker
SYMMETRY Symmetry
CHECK_DEADLOCK FALSE
