SPECIFICATION FairSpec
CONSTANTS
    Submitters = {g1, g2}
    Slots = {w1, w2, w3}
    MinWorkers = 1
    MaxWorkers = 2
    TaskQueueSize = 1
    ScaleUp = 8
    Scale = 10
    MaxSubmits = 2
PROPERTY ShutdownReturns
CHECK_DEADLOCK FALSE
