SPECIFICATION FairSpec
CONSTANTS
    StartCount = 2
    MaxKeys = 2
    MaxMessages = 1
PROPERTY
    JobsAreRun
