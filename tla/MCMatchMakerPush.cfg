SPECIFICATION Spec
CONSTANTS
    u1 = u1
    u2 = u2
    c1 = c1
    c2 = c2
    r1 = r1
    r2 = r2
    m1 = m1
    m2 = m2
    i1 = i1
    i2 = i2
    Users = {u1, u2}
    Commands = {c1, c2}
    Issuer <- IssuerTwo
    MMIDs = {m1}
    UIDs = {i1, i2}
    Rooms = {r1, r2}
    None = None
    MaxMembers = 2
    SearchLimit = 2
    AddInterval = 1
    MaxTTL = 1
PROPERTIES MatchedClientsToldFull
