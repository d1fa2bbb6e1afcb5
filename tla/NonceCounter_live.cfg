SPECIFICATION FairSpec
CONSTANTS
    Procs = {p1, p2}
    Scopes = {s1, s2}
    MaxNonce = 1
    Nobody = Nobody
    NoFile = NoFile
    Torn = Torn
PROPERTIES
    LockReleased
    IssuerSpec
