SPECIFICATION FairSpec
CONSTANTS
    h1 = h1  h2 = h2  h3 = h3
    s1 = s1  s2 = s2
    Handler = {h1, h2, h3}
    Session = {s1, s2}
    NoSession = NoSession
    maxAcceptFailures = 2
INVARIANT ExitLeavesNothing
PROPERTIES ImplementsOneTunnel StopEndsDaemon
CHECK_DEADLOCK FALSE
