SPECIFICATION Spec
CONSTANTS
    Instance = {s1, s2}
    Contact = {layla, omar}
    SigKey = {g1, g2}
    DhKey = {h1, h2}
    NoEntry = NoEntry
    NoBundle = NoBundle
    Exclusive = TRUE
INVARIANTS
    OneBundlePerContact
    SessionBinds
PROPERTIES
    PinsKept
