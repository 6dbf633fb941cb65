SPECIFICATION SharingSpec
CONSTANTS
    User = {layla, omar, tampered}
    DocId <- MCDocId
    BadDocId = BadDocId
    Body <- SharingBody
    Nonce <- SharingNonce
    Garbage = Garbage
    Salt <- MCSalt
    Key <- SharingKeys
    NoRow = NoRow
    BadSalt = BadSalt
    Requests <- SharingRequests
    EmptyNonce = EmptyNonce
    NoChallenge = NoChallenge
    Ttl = 60
    Thread = {t1, t2}
    NoRequest = NoRequest
    FakeSalt = FakeSalt
    MaxChallenge = 0
    MaxClock = 0
    MaxRestarts = 0
    Registered = {layla, omar}
    Tampered = tampered
    Modes = {"passthrough", "flip_ciphertext", "flip_metadata", "swap_pubkey", "replay"}
    NoEntry = NoEntry
    NoConn = NoConn
    NoJob = NoJob
    MaxDraws = 3
    MaxCutOffs = 1
SYMMETRY Symmetry
CHECK_DEADLOCK FALSE
INVARIANTS
    DownloadsFaithful
    SharesOpen
