SPECIFICATION Spec
CONSTANTS
    n1 = n1  n2 = n2
    u1 = u1  u2 = u2
    bot = bot  shell = shell
    Name = {n1, n2}
    Uuid = {u1, u2}
    Bot = bot
    Shell = shell
    None = None
INVARIANTS NoInvisibleAccess SentLinksWork DeadStaysOut 
SYMMETRY Symmetry
CHECK_DEADLOCK FALSE
CONSTRAINT FollowPrinted
