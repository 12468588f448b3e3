SPECIFICATION TimedSpec
CONSTANTS
    rb = rb
    a1 = a1
    a2 = a2
    None = None
    Requests = {r1, r2}
    Admins = {a1, a2}
    Registered = {a1, a2}
    AdminOf <- MC_AdminOf
    BufferSize = 2
    Contracts = {c1}
    Points = {1}
    MaxColumn = 1
    Faults = {"timeout"}
    MaxCrashes = 0
    MinInterval <- MC_MinInterval
    AdminInterval <- MC_AdminInterval
    HTTPTimeout = 1
    MaxTime = 4
CHECK_DEADLOCK FALSE
PROPERTIES
    ExecutionsAreSpaced
