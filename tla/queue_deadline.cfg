SPECIFICATION Spec
CONSTANTS
    rb = rb
    ru = ru
    a1 = a1
    a2 = a2
    au = au
    None = None
    Requests = {r1}
    Admins = {a1}
    Registered = {a1}
    AdminOf <- MC_AdminOf
    BufferSize = 1
    Contracts = {c1}
    Points = {1}
    MaxColumn = 1
    Faults = {"deadline"}
    MaxCrashes = 0
PROPERTIES
    EndedJobIsSettled
