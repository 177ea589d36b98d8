SPECIFICATION SuiteSpec
CONSTANTS
    Tasks = {t1, t2, t3, t4}
    Workers = {w1, w2}
    QueueSize = 2
    Waiting = Waiting
    Exited = Exited
    ProcessorTasks = {"a", "b"}
    ProcessorWorkers = {"w"}
    ProcessorQueueSize = 1
    Openings = {"none", "GET", "SSH"}
    NoData = "none"
    Protocols = {"http", "ssh"}
    BatchSize = 2
    CacheSize = 1
    MaxChanges = 1
    Connections = {"c1", "c2", "c3"}
    Writers = {"v1", "v2"}
    MaxConcurrentConns = 2
    MaxStarts = 1
    Sockets = {"s1", "s2", "s3"}
    MaxConnections = 1
    Callers = {"g1", "g2"}
    Targets = {"t1", "t2"}
    MaxDials = 3
    MaxServers = 2
    Senders = {"s1", "s2"}
    Fatals = {3}
    BufferSize = 1
    MaxEvents = 4
INVARIANTS TypeOK OnePlace   LogIsFlushed
PROPERTIES StrandedStaysStranded ImplementsExecutor PoolDrains
