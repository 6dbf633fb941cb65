SPECIFICATION Spec
CONSTANTS
    User <- MCUser
    DocId <- MCDocId
    BadDocId = BadDocId
    Body <- MCBody
    Nonce <- MCNonce
    Garbage = Garbage
    Salt <- MCSalt
    Key <- MCKey
    NoRow = NoRow
    BadSalt = BadSalt
    Requests <- AuthRequests
    EmptyNonce <- MCEmptyNonce
    NoChallenge = NoChallenge
    Ttl = 0
    Thread = {t1, t2}
    NoRequest = NoRequest
    FakeSalt = FakeSalt
    MaxChallenge = 2
    MaxClock = 1
    MaxRestarts = 0
CHECK_DEADLOCK FALSE
INVARIANTS
    TypeOK
    SpentOnce
PROPERTIES
    RowsPermanent
    ImplementsAtomicVault
    EveryRequestAnswered
