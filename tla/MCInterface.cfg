SPECIFICATION Spec
CONSTANTS
    User <- MCUser
    Contact <- MCContact
    Nobody = Nobody
INVARIANTS
    ScreenHasSession
    ScreenIsOwn
    PinsAccepted
    VerifiedAsChosen
