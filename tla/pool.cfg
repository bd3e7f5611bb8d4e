SPECIFICATION FairSpec
CONSTANTS
    StartCount = 2
    MaxKeys = 2
    MaxMessages = 2
INVARIANTS
    CountIsPool
    EnoughPills
    SafeDestroy
    ReachesGoal
PROPERTIES
    EofStops
    PatientJobsAreRun
