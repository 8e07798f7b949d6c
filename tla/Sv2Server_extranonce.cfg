\* One miner with two connections.
CONSTANTS
    Conns = {c1, c2}
    MaxChannels = 1
    MaxTemplates = 1
    MaxDbQueue = 2
    SolutionCapacity = 1
    alice = alice
    junk = junk
    pool = pool
    slow = slow
    fast = fast
    easy = easy
    hard = hard
    Identities = {alice}
    ValidAddresses = {alice}
    PoolAddress = pool
    Rates = {fast}
    RateTarget <- MCRateTarget
    Blocks = {hard}
    NetworkTarget <- MCNetworkTarget
    MaxHash = 3
    Versions = {2}
    None = None
SPECIFICATION Spec
INVARIANT ExtranonceUnique
CHECK_DEADLOCK FALSE
