SPECIFICATION Spec
CONSTANTS
    Procs = {p1, p2, p3}
    Scopes = {s1, s2}
    MaxNonce = 2
    Nobody = Nobody
    NoFile = NoFile
    Torn = Torn
SYMMETRY Symmetry
INVARIANTS
    NoNonceReuse
    ScopeExclusive
    DurableBeforeReturn
    StateNeverTorn
    NoSilentGap
    CounterInv
