SPECIFICATION FairSpec
CONSTANTS
    c1 = c1
    c2 = c2
    w1 = w1
    w2 = w2
    Conns <- TwoConns
    Sockets <- OneSocket
    Workers <- TwoWorkers
    Users <- OnlyRoot
    Root = 1
    Kinds <- Mixed
    MaxRequests <- TwoAndOne
    NoConn = NoConn
    NoRequest = NoRequest
    Unregistered = Unregistered
    Broadcast = Broadcast
CHECK_DEADLOCK FALSE
PROPERTIES
    ReceivedIsHandled
    LeftIsClosed
    LogoutCloses
