SPECIFICATION FairSpec
CONSTANTS
    MaxKeys = 1
    MaxTalk = 1
CHECK_DEADLOCK FALSE
INVARIANTS
    NoSilentEnd
    LoginIsHonest
PROPERTIES
    ExitStops
    LostIsTold
    LoginIsAnswered
