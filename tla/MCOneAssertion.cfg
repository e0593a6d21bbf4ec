CONSTANTS
    Threads = {t1, t2, t3}
    MaxDepth = 2
SPECIFICATION Spec
INVARIANT OneActiveAssertion
