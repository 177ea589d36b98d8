SPECIFICATION Spec
CONSTANTS
    Conns = {c1, c2, c3}
    Workers = {w1}
    QueueSize = 1
    Payloads = {"http", "other", "eof"}
    HandlerSets = {{"http", "grpc", "websocket"}}
    None = None
    Waiting = Waiting
    Exited = Exited
INVARIANT HttpIsRecognised
