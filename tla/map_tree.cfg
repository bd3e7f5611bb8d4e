SPECIFICATION FairSpec
CONSTANTS
    v1 = v1
    v2 = v2
    n1 = n1
    n2 = n2
    n3 = n3
    n4 = n4
    Keys <- FourKeys
    Vals <- ThreeVals
    Entries <- FourEntries
    Nodes <- FourNodes
    Null = Null
    Nothing = Nothing
    Absent = Absent
    NoCall = NoCall
INVARIANTS
    WellFormed
    SizesCount
    ForallAscends
    NothingLeaks
PROPERTIES
    Implements
    OperationEnds
