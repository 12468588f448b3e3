SPECIFICATION FairSpec
CONSTANTS
    rb = rb
    ru = ru
    a1 = a1
    a2 = a2
    au = au
    None = None
    Requests = {r1, r2, rb}
    Admins = {a1, a2}
    Registered = {a1, a2}
    AdminOf <- MC_AdminOf
    BufferSize = 1
    Contracts = {c1}
    Points = {1}
    MaxColumn = 1
    Faults = {"cancel", "timeout"}
    MaxCrashes = 0
INVARIANTS
    OpenRowHasOwner
PROPERTIES
    AcceptedIsSettled
    PostIsAnswered
