\* The target, the coinbase and the merkle root of a share over bounded inputs.
CONSTANTS
    Byte = 4
    Hex = 2
    Width = 5
    Lead = 1
    Upper = 4
    DiffUnit = 4
    Interval = 2
    AccLimit = 256
    Rates = {0, 2, 3, 6, 7, 10, 20, 30, 33, 62, 128}
    NBits <- MCNBits
    TxBase = 8
    HashSize = 2
    PrefixSize = 5
    Extranonce2Size = 2
    Coinbases <- MCCoinbases
    MinerScripts <- MCMinerScripts
    TxLists <- MCTxLists
    ChannelIds = {0, 9}
    Extranonces2 <- MCExtranonces2
    HeightPushes <- MCHeightPushes
    Commitments <- MCCommitments
    Nonces <- MCNonces
SPECIFICATION BytesSpec
\* Each behaviour ends with one channel or one share.
CHECK_DEADLOCK FALSE
INVARIANTS
    TypeOK
    DivisionExact
    TargetIsQuotient
    SameVerdict
    BlocksPass
    AcceptedIsCredited
    CoinbasePays
    RootMatches
    SplitReadsBack
