SPECIFICATION Spec
CONSTANTS
    KeyPairs <- MCKeyPairs
    Nonces <- MCNonces
    AssociatedData <- MCAssociatedData
    Plaintexts <- MCPlaintexts
    BlockSize = 2
    NonceBytes = 1
    TagSizes = {1, 2}
INVARIANTS
    AeadInv
    Authentic
    OpenDerivesNothingNew
    KeystreamOnce
PROPERTY IntactIsOpened
