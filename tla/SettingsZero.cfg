SPECIFICATION Spec
CONSTANTS
    Environments <- MCEnvironments
    Octet = 8
    MaxGenerations = 2
    Invocations <- MCInvocations
    RemoteChainID = 1337
    MaxStarted = 2
    ChainID = 1337
    OpsPerTx = 2
    Entrypoint = "entrypoint"
    Factory = "factory"
    Beneficiary = "beneficiary"
    Counter = "counter"
INVARIANT
    SettingsPrecedence
