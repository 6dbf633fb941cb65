SPECIFICATION AccountsSpec
CONSTANTS
    User = {layla}
    DocId = {}
    BadDocId = BadDocId
    Body = {}
    Nonce <- MCNonce
    Garbage = Garbage
    Salt <- MCSalt
    Key <- AccountKeys
    NoRow = NoRow
    BadSalt = BadSalt
    Requests <- AccountRequests
    EmptyNonce = EmptyNonce
    NoChallenge = NoChallenge
    Ttl = 60
    Thread = {t1, t2}
    NoRequest = NoRequest
    FakeSalt = FakeSalt
    MaxChallenge = 2
    MaxClock = 0
    MaxRestarts = 0
    Client = {c1, c2}
    Dir = {d1}
    storage_dir <- OneDir
    Password = {p1, p2}
    NoFile = NoFile
    NoConn = NoConn
    NoSession = NoSession
    NoJob = NoJob
    Operations = {"signup", "login", "change_password"}
    Faults = {"lost", "died", "again"}
    MaxDraws = 3
CHECK_DEADLOCK FALSE
SYMMETRY Symmetry
INVARIANTS
    SessionKeysRegistered
