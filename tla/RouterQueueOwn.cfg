SPECIFICATION FairSpec
CONSTANTS
    Callers = {c1, c2}
    Workers = {w1, w2}
    MaxCalls = 3
    None = None
PROPERTY OwnResult
