SPECIFICATION Spec
CONSTANTS
    n1 = n1  n2 = n2
    s0 = s0  s1 = s1  s2 = s2
    t1 = t1  t2 = t2
    bot = bot  cli = cli
    Name = {n1, n2}
    Serial = {s0, s1, s2}
    Token = {t1, t2}
    Proc = {bot, cli}
    NoProc = NoProc
    None = None
    Bot = bot
    Before <- FirstPredates
SYMMETRY Symmetry
INVARIANTS OneLiveProfile RevokeCutsOff TokenIssuesOnce
PROPERTY NoRevocationLost
CHECK_DEADLOCK FALSE
CONSTRAINT FirstInvited
