SPECIFICATION Spec
CONSTANTS
    c1 = c1
    c2 = c2
    c3 = c3
    n1 = n1
    n2 = n2
    n3 = n3
    Conn = {c1, c2, c3}
    Name = {n1, n2, n3}
    NoConn = NoConn
    NoName = NoName
    Base = 8
    Size = 5
    Gateway = 9
SYMMETRY Symmetry
INVARIANTS LeaseHasOneOwner HandlerLeavesNothing
PROPERTY ImplementsSessionTable
CONSTRAINT Running
