SPECIFICATION MCSpec
CONSTANTS
    N = 3
    Preferred = 1
    suspectedAuthLimit = 3
    MaxAttempt = 2
    MaxUpdate = 4
    Taps = {2, 3}
    MaxPollFailures = 2
    MaxUploads = 1
    MaxStarts = 3
INVARIANTS RoundsArePaced NothingIsLost
PROPERTIES CancelEndsLoop DeadDeviceEndsLoop StopEnds GivingUpEnds
CHECK_DEADLOCK FALSE
