SPECIFICATION Spec
CONSTANTS
    Base = 4
    U16 = 1
    U32 = 1
    U64 = 2
    MAX_STR_LEN = 2
    MAX_CONTENT_LEN = 4
    Refused = Refused
    P = 23
    B = 15
    N = 17
    GX = 1
    GY = 6
    BITS = 2
    BLOCK = 6
    R = 3232
    E <- StandInCipher
    Byte256 = {"00", "80"}
    Piece <- MCPieces
    BLOCK256 = 4
    LENGTH = 2
    MaxFed = 11
    Name <- MCName
    Character = {"d", "f", ":"}
    Records <- MCRecords
    Blobs <- MCBlobs
    SignedRequest <- MCSignedRequest
    Hashes <- MCHashes
    Scalars = {1, 6, 16}
    AesInputs <- MCAesInputs
    Factors <- MCFactors
    Texts <- MCTexts
    NonceGcm <- MCNonceGcm
    KeyGcm = 5
    Keys256 <- MCKeys256
CHECK_DEADLOCK FALSE
INVARIANTS
    CodecFaithful
    CanonicalBinds
    CurveIsGroup
    SignaturesExact
    SecretsAgree
    AesIsStandard
    GcmSound
    DerivedKeysDiffer
    StreamIsOneShot
