\* A channel outlives a change of the network target.
CONSTANTS
    Conns = {c1}
    MaxChannels = 1
    MaxTemplates = 1
    MaxDbQueue = 1
    SolutionCapacity = 1
    alice = alice
    junk = junk
    pool = pool
    slow = slow
    fast = fast
    easy = easy
    hard = hard
    Identities = {alice}
    ValidAddresses = {alice}
    PoolAddress = pool
    Rates = {fast}
    RateTarget <- MCRateTarget
    Blocks = {easy, hard}
    NetworkTarget <- MCNetworkTarget
    MaxHash = 3
    Versions = {2}
    None = None
SPECIFICATION Spec
INVARIANT BlockWinningNeverRejected
CHECK_DEADLOCK FALSE
