SPECIFICATION FairSpec
CONSTANTS
    Idle = TRUE
    Keepalive = FALSE
PROPERTY TeardownEnds
CHECK_DEADLOCK FALSE
