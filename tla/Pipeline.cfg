SPECIFICATION Spec
CONSTANTS
    HeaderSize = 1
    KeySize = 2
    SealSize = 1
    OutputSize = 2
    MaxCount = 2
    Odd = {0, 2, 3}
    Arguments <- MCArguments
    NoSymbol = NoSymbol
INVARIANTS
    LabelsUnique
    OutcomeExact
    OutputSawBothPasses
    ReturnBindsForwardState
    NoStateReadTwice
PROPERTY Ends
