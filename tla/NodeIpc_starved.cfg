\* Solutions come one after the other while Core has a newer block template.
CONSTANTS
    MaxTip = 1
    MaxFee = 0
    MaxTemplates = 1
    SolutionCapacity = 1
    alice = alice
    Addresses = {alice}
SPECIFICATION FairSpec
PROPERTY UpdatedWhileRunning
CHECK_DEADLOCK FALSE
