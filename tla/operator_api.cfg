SPECIFICATION OperatorSpec
CONSTANTS
    None = None
    Setups = {s1, s2}
    Dids = {d1, d2, d3}
    MaxEntries = 2
    Faults = {"node", "db", "file", "cancel", "crash"}
    MaxCrashes = 1
    Nil = Nil
    Contracts = {c1, c2}
    First = c1
    Shapes = {"full", "heads", "neither"}
    CheckFaults = {"db", "node"}
    MaxRows = 3
    MaxBlocks = 2
    Nobody = Nobody
    n1 = n1
    n2 = n2
    n3 = n3
    l1 = l1
    l2 = l2
    l3 = l3
    l4 = l4
    l5 = l5
    l6 = l6
    l7 = l7
    Listed = {l1, l2, l3, l4, l5, l6, l7}
    Nodes = {n1, n2, n3}
    NodeOf <- NodeOfListed
    Hung = {n2}
    Down = {n3}
    Parallel = 2
    NodeTimeout = 2
    HandlerTimeout = 5
    Start <- StartOfListed
    MaxGrowth = 1
    ListFaults = {"db"}
INVARIANTS
    ReportedIsPersisted
    MapIsPersisted
    BootAdminsAreUsable
    AnsweredInTurnIsUsable
    OneClientPerNode
    FetchesAreBounded
    AnswerIsComplete
    HungNodesDoNotPin
    HealthyAreShown
PROPERTIES
    UsableStaysInTurn
    ClassicForkIsReal
    LiveForkIsReported
