SPECIFICATION FairSpec
CONSTANTS
    NumAccounts = 2
    NumTx = 2
    NumCPU = 2
    QueueCap = 1
    Nil = Nil
    StartSeq <- MCStartSeq
INVARIANTS
    TypeOK
    PreparedTxs
    NoTxLost
    NoPrematureEnd
    PrepareInv
PROPERTIES
    FiledOnce
    PrepareEnds
