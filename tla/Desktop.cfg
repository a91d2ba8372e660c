SPECIFICATION MCSpec
CONSTANTS
    p = p  q = q
    a1 = a1  a2 = a2
    c1 = c1  c2 = c2
    s1 = s1  s2 = s2
    v1 = v1  v2 = v2
    g1 = g1  g2 = g2
    Profile = {p, q}
    Address = {a1, a2}
    ListOf <- MCListOf
    Call = {c1, c2}
    Mixed = Mixed
    Nothing = Nothing
    Service = {s1, s2}
    File = File
    Unset = Unset
    Server = {v1, v2}
    Gateway = {g1, g2}
    None = None
INVARIANTS CleanExit GuardedWhileRouted PinRecovers SavedIsDraft KeyStaysHome Recoverable CrashIsCured
SYMMETRY Symmetry
CHECK_DEADLOCK FALSE
