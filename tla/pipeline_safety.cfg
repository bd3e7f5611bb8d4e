SPECIFICATION Spec
CONSTANTS
    c1 = c1
    c2 = c2
    w1 = w1
    w2 = w2
    Conns <- TwoConns
    Sockets <- TwoSockets
    Workers <- TwoWorkers
    Users <- OnlyRoot
    Root = 1
    Kinds <- Admin
    MaxRequests <- TwoAndOne
    NoConn = NoConn
    NoRequest = NoRequest
    Unregistered = Unregistered
    Broadcast = Broadcast
CHECK_DEADLOCK FALSE
SYMMETRY Symmetry
INVARIANTS
    ExclusiveOwner
    TablesAgree
    NeverStranded
    FaultPreconditions
PROPERTY
    HandledInOrder
