CONSTANTS
    MaxSignals = 2
    MaxEarly = 2
    MaxLate = 1
    Calls = {c1, c2, c3, c4}
    Nobody = Nobody
    Threads = {t1, t2, t3}
    Iterations = 1
    MaxPending = 2
    MaxDepth = 2
SPECIFICATION WaitsSpec
INVARIANTS NoContextOutlivesClient OwnSignalHarmless NobodyOutlivesRunner
PROPERTIES DestructorReturns SignalEndsProgram PingEnds FailureAborts
