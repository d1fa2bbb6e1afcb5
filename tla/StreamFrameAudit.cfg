SPECIFICATION Spec
CONSTANTS
    Configs <- MCConfigs
    NonceBits = 4
    CounterBits = 4
    MinSamples = 5
    MaxVariables = 3
    CountersPerNonce = 2
    CensusNonces = 2
    OutputBits = 2
    TagSizes = {1, 2, 3}
INVARIANTS
    AuditExact
    WalshExact
