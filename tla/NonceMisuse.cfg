SPECIFICATION Spec
CONSTANTS
    Parent = Parent
    Child = Child
    Workers = {1, 2, 3}
    PerWorker = 2
    Rounds = 2
    Scope = Scope
    OtherScope = OtherScope
    MaxNonce = 7
    Nobody = Nobody
    NoFile = NoFile
    Torn = Torn
    NonceBytes = 1
    BlockSize = 2
    TagSizes = {1, 2}
INVARIANTS
    CampaignSound
    RollbackCaught
    CampaignInv
PROPERTY CampaignEnds
