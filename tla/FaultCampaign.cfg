SPECIFICATION Spec
CONSTANTS
    NonceBytes = 2
    BlockSize = 4
    TagSizes = {2, 3, 4}
    RegionBits <- MCRegionBits
    BindingBytes = 1
    CanonicalBytes = 4
    ExtendedBytes = 5
    ByteBits = 1
    NoIndex = 1000
    LengthBits = 3
    CounterBits = 5
    CasesPerProfile <- MCCasesPerProfile
    ExpectedSilent <- MCExpectedSilent
    ExpectedOneBit <- MCExpectedOneBit
INVARIANTS
    CampaignSound
    DamageExact
    CountersAgree
    OverlapExact
