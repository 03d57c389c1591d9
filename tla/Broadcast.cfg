SPECIFICATION FairSpec

CONSTANTS
    NumAccounts = 2
    NumTx = 2
    Await = FALSE
    InitialSequence <- MCInitialSequence
    StartSequence <- MCStartSequence
    MaxForeign = 1
    MaxDrops = 1

INVARIANTS
    TypeOK
    IndexInRange
    BroadcastComplete
    BroadcastInv

PROPERTIES
    BackOnlyAfterLoss
    BroadcastEnds
    FailureReported
