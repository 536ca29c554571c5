SPECIFICATION Spec
CONSTANTS
    a1 = a1
    a2 = a2
    a3 = a3
    alice = alice
    bob = bob
    seeded = seeded
    nobody = nobody
    v1 = v1
    v2 = v2
CONSTANTS
    MaxU64 = 330
    MaxU128 = 3300000
    MaxEntries = 10
    RateBps = 900
    BasisPoints = 10000
CONSTANTS
    Keys = {a1, a2, a3, alice, nobody}
    NoKey = nokey
    DefaultKey = nobody
    Unset = unset
    DerivedKeys <- NoSeeds
CONSTANTS
    Accounts = {a1, a2}
    Wallet = wallet
    Voters = {v1}
    Supply = 27
    MinimumDelegation = 8
    MinimumDelinquentEpochs = 2
    Background <- BusyCluster
    RentValues = {1}
CONSTANTS
    Amounts = {9}
    SignerSets <- OneSigner
    Parties = {alice}
    InitialLockups <- NoLockup
    LockupChanges = {}
    MaxEpoch = 4
    MaxTime = 1
    VotingEpochs = {}
    RewardEpochs = {}
    RoundingSlack = 2
INVARIANTS LocksCovered ActivationEpochIsNow
PROPERTIES WarmupAndCooldownMonotone EffectiveFixedInEpoch EffectiveNotRaised
SYMMETRY Symmetry
CHECK_DEADLOCK FALSE
