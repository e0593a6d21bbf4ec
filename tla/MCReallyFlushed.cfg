SPECIFICATION Spec
CONSTANTS
    Producers = {p1, p2}
    MaxQueueSize = 2
    MaxPushes = 3
INVARIANT ReallyFlushed
