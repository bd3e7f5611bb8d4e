SPECIFICATION Spec
CONSTANTS
    s1 = s1
    s2 = s2
    u1 = u1
    u2 = u2
    w1 = w1
    w2 = w2
    Sids <- TwoSids
    Uids <- TwoUids
    Workers <- TwoWorkers
    Listener = Listener
    NullUid = NullUid
    Absent = Absent
    NoMap = NoMap
    Free = Free
INVARIANTS
    IndexConsistent
    NeverTwoUsers
PROPERTY
    Implements
