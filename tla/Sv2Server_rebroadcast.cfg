\* A template is published while a channel is being opened.
CONSTANTS
    Conns = {c1}
    MaxChannels = 1
    MaxTemplates = 1
    MaxDbQueue = 1
    SolutionCapacity = 1
    alice = alice
    junk = junk
    pool = pool
    slow = slow
    fast = fast
    easy = easy
    hard = hard
    Identities = {alice}
    ValidAddresses = {alice}
    PoolAddress = pool
    Rates = {fast}
    RateTarget <- MCRateTarget
    Blocks = {hard}
    NetworkTarget <- MCNetworkTarget
    MaxHash = 3
    Versions = {2}
    None = None
SPECIFICATION FairSpec
PROPERTY BroadcastOnlyOnChange
CHECK_DEADLOCK FALSE
