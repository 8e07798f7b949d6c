\* A fee refresh overtakes a block on its way to Core.
CONSTANTS
    Conns = {c1}
    MaxChannels = 1
    MaxDbQueue = 1
    SolutionCapacity = 1
    alice = alice
    pool = pool
    fast = fast
    Identities = {alice}
    ValidAddresses = {alice}
    PoolAddress = pool
    Rates = {fast}
    RateTarget <- MCRateTarget
    MaxHash = 2
    Versions = {2}
    None = None
    MaxTip = 1
    MaxFee = 1
    MaxTemplates = 3
    TipTarget <- MCTipTarget
SPECIFICATION Spec
INVARIANT FoundBlockNotLost
CHECK_DEADLOCK FALSE
