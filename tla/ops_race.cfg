SPECIFICATION Spec
CONSTANTS
    None = None
    a1 = a1
    a2 = a2
    c1 = c1
    u1 = u1
    x1 = x1
    Calls = {k1, k2, k3}
    Admins = {a1, a2}
    Activities = {x1}
    Contracts = {c1}
    Users = {u1}
    Requests <- ActivityRequests
    Faults = {}
    MaxCrashes = 1
SYMMETRY Symmetry
INVARIANTS
    MirrorIsLastAnswered
