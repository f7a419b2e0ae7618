SPECIFICATION Spec
CONSTANTS
    u1 = u1
    u2 = u2
    r1 = r1
    r2 = r2
    c1 = c1
    c2 = c2
    c3 = c3
    c4 = c4
    a1 = a1
    a2 = a2
    Users = {u1, u2}
    Rooms = {r1, r2}
    Commands = {c1, c2, c3, c4}
    Addrs = {a1, a2}
    Nodes = {}
    Requests = {}
    None = None
SYMMETRY Symmetry
INVARIANTS
    ReportsKept
    BroadcastComplete
    HeardIsOwn
CHECK_DEADLOCK FALSE
