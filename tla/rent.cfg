SPECIFICATION Spec
CONSTANTS
    a1 = a1
    a2 = a2
    a3 = a3
    alice = alice
    bob = bob
    seeded = seeded
    nobody = nobody
    v1 = v1
    v2 = v2
CONSTANTS
    MaxU64 = 10000
    MaxU128 = 100000000
    MaxEntries = 2
    RateBps = 900
    BasisPoints = 10000
CONSTANTS
    Keys = {a1, a2, a3, alice, nobody}
    NoKey = nokey
    DefaultKey = nobody
    Unset = unset
    DerivedKeys <- NoSeeds
CONSTANTS
    Accounts = {a1, a2}
    Wallet = wallet
    Voters = {v1}
    Supply = 6
    MinimumDelegation = 2
    MinimumDelinquentEpochs = 2
    Background <- FastCluster
    RentValues = {1, 2}
CONSTANTS
    Amounts = {2, 3}
    SignerSets <- SelfSigned
    Parties = {alice}
    InitialLockups <- NoLockup
    LockupChanges = {}
    MaxEpoch = 3
    MaxTime = 0
    VotingEpochs = {}
    RewardEpochs = {}
    RoundingSlack = 0
INVARIANTS TypeOK DelegationsBacked EffectiveStakeBacked WarmedUpInTime
SYMMETRY Symmetry
CHECK_DEADLOCK FALSE
