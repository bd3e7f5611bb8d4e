SPECIFICATION FairSpec
CONSTANTS
    c1 = c1
    c2 = c2
    NumSize = 2
    Corrupt = Corrupt
    NoBuffer = NoBuffer
    NoMessage = NoMessage
    Conns <- MCConns
    Messages <- MCMessages
    Packages <- MCPackages
    MaxCells <- MCBound
CHECK_DEADLOCK FALSE
INVARIANTS
    FitsBuffer
PROPERTIES
    DeliversMessages
    EveryMessageTaken
