SPECIFICATION Spec
CONSTANTS
    Callers = {c1, c2, c3}
    RateThreshold = 5
    Scale = 10
    ProtocolThreshold = 1
    ServiceThreshold = 2
    MaxCount = 3
PROPERTY OpensAtFailureRate
