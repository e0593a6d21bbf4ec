CONSTANTS
    InfoCalls = {i1, i2}
    ProcCalls = {p1}
    Paths = {a, b}
    MaxEntries = 3
SPECIFICATION FairSpec
INVARIANTS  NothingLeft
PROPERTIES ExitsUnlessCallOpen
