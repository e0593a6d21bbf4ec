CONSTANTS
    InfoCalls = {i1}
    ProcCalls = {p1}
    Paths = {a, b}
    MaxEntries = 2
SPECIFICATION Spec
INVARIANT HostOutlivesItsOwner
