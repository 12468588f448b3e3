SPECIFICATION TimedSpec
CONSTANTS
    rb = rb
    a1 = a1
    a2 = a2
    None = None
    Requests = {r1, r2}
    Admins = {a1, a2}
    Registered = {a1, a2}
    AdminOf <- MC_AdminOf
    BufferSize = 1
    Contracts = {c1}
    Points = {1}
    MaxColumn = 1
    Faults = {"crash", "cancel", "db", "deadline", "timeout"}
    MaxCrashes = 1
    MinInterval <- MC_MinInterval
    AdminInterval <- MC_AdminInterval
    HTTPTimeout = 1
    MaxTime = 5
CHECK_DEADLOCK FALSE
INVARIANTS
    WaitIsForOwnLastJob
PROPERTIES
    JobsAreSpaced
