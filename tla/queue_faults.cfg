SPECIFICATION Spec
CONSTANTS
    rb = rb
    ru = ru
    a1 = a1
    a2 = a2
    au = au
    None = None
    Requests = {r1, r2, ru}
    Admins = {a1, au}
    Registered = {a1}
    AdminOf <- MC_AdminOf
    BufferSize = 1
    Contracts = {c1}
    Points = {0, 1, 2}
    MaxColumn = 1
    Faults = {"crash", "cancel", "db", "deadline", "timeout"}
    MaxCrashes = 1
INVARIANTS
    TypeOK
    SerialPerAdmin
    InFlightIsEndOfSent
    SuccessIsOnChain
    AtMostOnce
    RefusedNeverRuns
PROPERTIES
    SettledRowsStay
    LedgerSpec
