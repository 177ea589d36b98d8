SPECIFICATION SuiteSpec
CONSTANTS
    Conns = {c1, c2, c3}
    Workers = {w1}
    QueueSize = 1
    Payloads = {"http", "eof"}
    HandlerSets = {{"http", "grpc", "websocket"}, {"unknown"}}
    None = None
    Waiting = Waiting
    Exited = Exited
    Clients = {c1, c2}
    SubIds = {i1, i2}
    Topics = {"a"}
    Publishers = {p1}
    MaxClients = 2
    RetryAttempts = 1
    MaxPublishes = 1
    Keys = {"k1", "k2", "k3"}
    MatchedKeys = {"k1", "k2"}
    Sizes = {1, 2, 3}
    MaxSize = 2
    MaxMemory = 2
    MaxHits = 1
    NodeIDs = {1, 2}
    Lookups = {1}
    RouteWorkers = {"w1"}
    Hashes = {1, 2, 3}
    Hash <- HashesOfNodes
    RequestHash <- HashesOfRequests
    Ruled <- NodesRuled
    CacheSize = 1
    FailoverThreshold = 1
    MaxFailures = 1
    RecoveryThreshold = 1
    MaxBalanced = 2
    Methods = {"GET"}
    Paths = {"/a", "/b"}
    Patterns = {"/:x"}
    First <- FirstCharacters
    Matches <- AllMatch
    HTTPRequests = {"r1", "r2"}
    Writers = {"w1"}
    MaxRoutes = 3
    BufferSize = 2
    SliceLengths = {0, 1, 2, 3}
    MaxSent = 3
SYMMETRY Symmetry
INVARIANTS TypeOK ConnectionsAccounted BusDelivers BytesKept CacheAgrees 
PROPERTIES AnswersSettle
