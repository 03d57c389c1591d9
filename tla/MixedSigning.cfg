SPECIFICATION Spec
CONSTANTS
    ChainID = 1337
    OpsPerTx = 2
    NumKeys = 2
    MaxParallel = 2
    Attempts = 3
    Entrypoint <- MCEntrypoint
    Factory <- MCFactory
    Beneficiary <- MCBeneficiary
    Counter <- MCCounter
    Settings <- ReadmeSettings
INVARIANTS
    SignerGetsItsOwn
