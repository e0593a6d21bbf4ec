CONSTANTS
    MaxFrames = 2
    MaxLuaCalls = 2
    MaxArguments = 2
    MaxPcalls = 1
    Exceptions = {e1}
    None = None
SPECIFICATION Spec
INVARIANTS ReadsOwnResults
