\* Three tips with two fee levels each: every block template can be published.
CONSTANTS
    MaxTip = 2
    MaxFee = 1
    MaxTemplates = 5
    SolutionCapacity = 2
    alice = alice
    Addresses = {alice}
SPECIFICATION FairSpec
INVARIANTS
    TypeOK
    HandleLive
    PublishedOnce
    RefusedOnlyIfSuperseded
PROPERTIES
    TemplateFollowsCore
    QueueMoves
CHECK_DEADLOCK FALSE
