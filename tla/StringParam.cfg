SPECIFICATION Spec
CONSTANTS
    Keys <- SomeKeys
    Texts <- SomeTexts
    MaxLength = 200
    ByteBits = 1
    MaxBuffers = 2
    NoType = "none"
    NoDigits <- NoNumber
INVARIANTS
    TypeOK
    AttachSuffices
    StoresWhatIsWritten
