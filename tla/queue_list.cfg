SPECIFICATION Spec
CONSTANTS
    t1 = t1
    t2 = t2
    t3 = t3
    v1 = v1
    v2 = v2
    n1 = n1
    n2 = n2
    n3 = n3
    Threads <- ThreeThreads
    Vals <- TwoVals
    Nodes <- ThreeNodes
    Null = Null
    Nothing = Nothing
    Free = Free
SYMMETRY Symmetry
INVARIANTS
    WellLinked
    OneHolder
PROPERTY
    Implements
