SPECIFICATION Spec
CONSTANTS
    None = None
    Setups = {s1, s2}
    Dids = {d1, d2, d3}
    MaxEntries = 2
    Faults = {}
    MaxCrashes = 1
INVARIANTS
    AnsweredIsUsable
