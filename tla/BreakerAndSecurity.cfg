SPECIFICATION SuiteSpec
CONSTANTS
    Callers = {c1, c2}
    RateThreshold = 5
    Scale = 10
    ProtocolThreshold = 1
    ServiceThreshold = 2
    MaxCount = 3
    Publishers = {"p1", "p2"}
    EventBufferSize = 1
    MaxEventHandlers = 1
    MaxThreshold = 4
    MaxPublishes = 3
    Peers = {1, 2}
    Hosts = 1
    Patterns = {"sql_injection"}
    Sizes = {"small", ">10000"}
    MaxConnectionsPerIP = 1
    Checkers = {"g1", "g2"}
    Fingerprints = {"f1", "f2"}
    Threshold = 2
    MaxChecks = 4
    Askers = {"g"}
    Users = {"u"}
    Roles = {"user", "admin"}
    Permissions = {"read", "write"}
    Basic = {"read"}
    DefaultPolicy = "deny"
    Versions = {"v1", "v2"}
    Loaders = {"c1"}
    Rates = {0, 100}
    MaxVersions = 2
    MaxModules = 2
    PolicyIDs = {"p1", "p2"}
    MaxPolicies = 2
    MaxVersion = 3
    ErrorCallers = {"c1", "c2"}
    BreakerThreshold = 2
    MaxErrors = 3
    Keys = {"k1", "k2"}
    Values = {1, 2}
    DefaultValue = 2
    Unset = 0
    Names = {"n1", "n2"}
    Configs = {"a", "b"}
    Missing = "nil"
    Refused = {{"b"}}
    MaxHandlers = 2
    Points = {1, 2, 3}
    Name <- NamesOfPoints
    MetricsBufferSize = 1
    Spans = {1, 2, 3}
    SpanBufferSize = 1
    Period = 3
    Rate = 2
    Recorders = {"g1", "g2"}
    Routes = {"r1", "r2"}
    TimesLimit = 2
    TimesDropped = 1
    MaxRequests = 3
INVARIANTS TypeOK ClosedIffWithinThresholds SecurityQuiet SettingsHold Governed MeasurementsKept
PROPERTIES LegalTransitions NotAllowedWhileOpen OpenIsLeft LimitsHold ErrorsHandled
