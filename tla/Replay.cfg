SPECIFICATION FairSpec

CONSTANTS
    StartHeight = 1
    EndHeight = 5
    Tip = 6
    BufferSize = 2
    TxsIn <- MCTxsIn
    Fuzzing = TRUE

INVARIANTS
    TypeOK
    InOrder
    DrainedComplete
    SummaryBounds
    ReplayInv

PROPERTIES
    ReplayEnds
