SPECIFICATION SuiteSpec
CONSTANTS
    Selectors = {s1, s2}
    Adders = {a1}
    Updater = u
    InitialSize = 2
    MaxSelects = 5
    Submitters = {g1, g2}
    Slots = {x1, x2, x3}
    MinWorkers = 1
    MaxWorkers = 2
    TaskQueueSize = 1
    ScaleUp = 8
    Scale = 10
    MaxSubmits = 3
    Connections = {x1, x2, x3}
    Protocols = {http, grpc}
    MaxConnections = 2
    MinConnections = 1
    NoProtocol = NoProtocol
    QuotaSetters = {"s1", "s2"}
    DefaultShare <- SharesOfTypes
    Whole = 4
    Recorders = {"r1", "r2"}
    Buckets = {1, 2}
    LearningLimit = 2
    MaxRequests = 3
    MaxSecond = 1
    Capacity = 1
    MaxStarts = 2
    MaxActions = 2
SYMMETRY Symmetry
INVARIANTS TurnsFair CountsAndLimit PoolAgrees TuningHolds
CHECK_DEADLOCK FALSE
