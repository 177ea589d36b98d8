SPECIFICATION FairSpec
CONSTANTS
    Conns = {c1, c2, c3}
    Workers = {w1}
    QueueSize = 1
    Payloads = {"other"}
    HandlerSets = {{"http", "grpc", "websocket"}}
    None = None
    Waiting = Waiting
    Exited = Exited
PROPERTIES PathSettles
