SPECIFICATION FairSpec
CONSTANTS
    Idle = TRUE
    Keepalive = TRUE
INVARIANT ConnUsedSafely
PROPERTIES SessionOfLoop TeardownEndsOnceQuiet HungServerIsNoticed
CHECK_DEADLOCK FALSE
