SPECIFICATION BothSpec
CONSTANTS
    Callers = {c1, c2}
    Workers = {w1, w2}
    MaxCalls = 5
    None = None
    MaxStarts = 3
INVARIANTS TypesOK RequestsAccounted StateIsTrue
PROPERTIES EverythingStops
