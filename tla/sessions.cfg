SPECIFICATION Spec
CONSTANTS
    None = None
    Users = {u1, u2}
    Calls = {k1, k2, k3, k4}
    MaxTokens = 4
    Faults = {"db", "cancel", "crash"}
    MaxCrashes = 1
SYMMETRY Symmetry
INVARIANTS
    TokensTypeOK
    LineageIsForward
    OneOrigin
    AnsweredIsOver
    RevokedByOwner
PROPERTIES
    RevokedStays
