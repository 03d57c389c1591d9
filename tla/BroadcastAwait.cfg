SPECIFICATION FairSpec

CONSTANTS
    NumAccounts = 2
    NumTx = 2
    Await = TRUE
    InitialSequence <- MCInitialSequence
    StartSequence <- MCStartSequence
    MaxForeign = 2
    MaxDrops = 1

INVARIANTS
    AwaitedInBlock
    BroadcastInv

PROPERTIES
    BroadcastEnds
