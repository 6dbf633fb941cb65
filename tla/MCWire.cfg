SPECIFICATION Spec
CONSTANTS
    Client = {c1}
    Stranger = {s1}
    Base = 3
    HEADER = 2
    MAX_MESSAGE_LEN = 3
    CHUNK = 2
    BUFFER = 3
    msgGet = msgGet
    msgUpload = msgUpload
    msgOk = msgOk
    msgDoc = msgDoc
    ERROR = ERROR
    Request = {msgGet, msgUpload}
    Response = {msgOk, msgDoc}
    Body <- MCBody
    Noise <- MCNoise
    NoMessage = NoMessage
CHECK_DEADLOCK FALSE
INVARIANTS
    TypeOK
    ExchangeFaithful
    AnsweredWhileUp
PROPERTIES
    CallsEnd
    ThreadsReleased
