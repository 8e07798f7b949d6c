\* Flushes, failures and restarts against four events of two miners.
CONSTANTS
    alice = alice
    bob = bob
    Addresses = {alice, bob}
    Hashes = {0, 1}
    Difficulty <- MCDifficulty
    BatchLimit = 2
    TicksPerMinute = 2
    Retention = 1
    MaxEvents = 4
    MaxTime = 4
SPECIFICATION FairSpec
INVARIANTS
    TypeOK
    StatsMatchShares
    HashratesMatchTotals
    MinersKnown
PROPERTIES
    LedgerSpec
    SharesPersisted
    ReadersLoseNothing
