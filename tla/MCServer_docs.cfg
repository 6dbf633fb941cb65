SPECIFICATION Spec
CONSTANTS
    User <- MCUser
    DocId <- MCDocId
    BadDocId = BadDocId
    Body <- MCBody
    Nonce <- MCNonce
    Garbage = Garbage
    Salt <- MCSalt
    Key <- MCKey
    NoRow = NoRow
    BadSalt = BadSalt
    Requests <- DocRequests
    EmptyNonce <- MCEmptyNonce
    NoChallenge = NoChallenge
    Ttl = 1
    Thread = {t1, t2}
    NoRequest = NoRequest
    FakeSalt = FakeSalt
    MaxChallenge = 0
    MaxClock = 0
    MaxRestarts = 1
SYMMETRY ThreadSymmetry
CHECK_DEADLOCK FALSE
INVARIANTS
    CreatedOnce
    SpentOnce
    ReferentialIntegrity
    Durable
    NoncesEarned
    HandlersRely
PROPERTIES
    ImplementsAtomicVault
