SPECIFICATION ForkSpec
CONSTANTS
    Nil = Nil
    Contracts = {c1}
    First = c1
    Shapes = {"full"}
    CheckFaults = {}
    MaxRows = 2
    MaxBlocks = 2
PROPERTIES
    FirstMismatchIsWhenForkHappened
