SPECIFICATION WatchSpec
CONSTANTS
    s1 = s1  s2 = s2
    CertSerial = {s1, s2}
    FailuresBeforeAlert = 3
INVARIANTS EnforcesTheList OwnerKnows
PROPERTIES OutageIsAlerted
CHECK_DEADLOCK FALSE
