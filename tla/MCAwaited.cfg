SPECIFICATION AwaitedSpec
CONSTANTS
    None = None
    u1 = u1
    u2 = u2
    t1 = t1
    t2 = t2
    n1 = n1
    n2 = n2
    q1 = q1
    q2 = q2
    r1 = r1
    r2 = r2
    Users = {u1, u2}
    Nodes = {n1, n2}
    Requests = {q1, q2}
    Rooms = {r1, r2}
    Slots = {t1, t2}
    Home <- HomeAlone
    Facts <- Anywhere
INVARIANTS
    RoomIsTheirs
    NoNodeJustified
    OwnerTold
PROPERTIES
    OwnerHeard
    CallerAnswered
    StatusSettles
    WaitEnds
CHECK_DEADLOCK FALSE
