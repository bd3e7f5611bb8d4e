SPECIFICATION Spec
CONSTANTS
    c1 = c1
    c2 = c2
    w1 = w1
    w2 = w2
    Conns <- OneConn
    Sockets <- OneSocket
    Workers <- OneWorker
    Users <- OnlyRoot
    Root = 1
    Kinds <- Logouts
    MaxRequests <- TwoEach
    NoConn = NoConn
    NoRequest = NoRequest
    Unregistered = Unregistered
    Broadcast = Broadcast
CHECK_DEADLOCK FALSE
INVARIANT
    NoDoubleClose
