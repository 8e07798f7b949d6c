\* Two channels on one connection against three templates: jobs and shares.
CONSTANTS
    Conns = {c1}
    MaxChannels = 2
    MaxTemplates = 2
    MaxDbQueue = 2
    SolutionCapacity = 1
    alice = alice
    junk = junk
    pool = pool
    slow = slow
    fast = fast
    easy = easy
    hard = hard
    Identities = {alice, junk}
    ValidAddresses = {alice}
    PoolAddress = pool
    Rates = {fast}
    RateTarget <- MCRateTarget
    Blocks = {easy, hard}
    NetworkTarget <- MCNetworkTarget
    MaxHash = 3
    Versions = {1, 2, 3}
    None = None
SPECIFICATION Spec
INVARIANTS
    TypeOK
    JobAgreement
    NoMissedTemplate
    BlockRefusedOnlyAfterRetarget
    ShareAfterConnect
CHECK_DEADLOCK FALSE
