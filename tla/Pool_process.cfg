\* One miner, the node and Core over two tips.
CONSTANTS
    Conns = {c1}
    MaxChannels = 1
    MaxDbQueue = 1
    SolutionCapacity = 1
    alice = alice
    pool = pool
    fast = fast
    Identities = {alice}
    ValidAddresses = {alice}
    PoolAddress = pool
    Rates = {fast}
    RateTarget <- MCRateTarget
    MaxHash = 2
    Versions = {2}
    None = None
    MaxTip = 1
    MaxFee = 0
    MaxTemplates = 1
    TipTarget <- MCTipTarget
SPECIFICATION FairSpec
PROPERTIES
    ServerSpec
    NodeSpec
    JobsFollowCore
    FinderReleased
CHECK_DEADLOCK FALSE
