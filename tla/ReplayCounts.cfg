SPECIFICATION Spec

CONSTANTS
    StartHeight = 1
    EndHeight = 4
    Tip = 6
    BufferSize = 2
    TxsIn <- MCOneTx
    Fuzzing = FALSE

INVARIANTS
    SummaryAddsUp
