SPECIFICATION Spec
CONSTANTS
    Configs <- MCConfigs
    MinMeasurements = 4
    Enough = 2
    Discarded = 1
    NumberPercentiles = 2
    PayloadBytes = 2
    MaxCounter = 1
    Threshold = 1
    MaxT = 2
    NonceBytes = 1
    BlockSize = 2
    TagSizes = {1, 2}
INVARIANTS
    ClassesAsDescribed
    EvidenceGrounded
