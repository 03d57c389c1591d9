SPECIFICATION FairSpec
CONSTANTS
    Senders = {1, 2}
    Replayer = 1
    Ticks = 2
    MaxInt = 127
    Configs <- MCConfigs
    Txs <- MCTxs
    MaxSends = 3
    Horizon = 2
INVARIANTS
    WindowBound
    PaidInFull
    RateInv
PROPERTIES
    EveryWaitEnds
    ImplementsThrottle
