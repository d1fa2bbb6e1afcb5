SPECIFICATION Spec
CONSTANTS
    HeaderSize = 8
    KeySize = 32
    SealSize = 16
    OutputSize = 32
    MaxCount = 255
    Odd = {}
    Arguments <- FrozenArguments
    NoSymbol = NoSymbol
INVARIANTS
    KeyInEveryPass
    FrozenKeySchedule
