SPECIFICATION MCSpec
CONSTANTS
    u1 = u1
    u2 = u2
    n1 = n1
    n2 = n2
    s1 = s1
    q1 = q1
    Users = {u1, u2}
    Sessions = {}
    Facts <- Anywhere
    Nodes = {n1, n2}
    Home <- HomeApart
    Queries = {q1}
    None = None
    Limit = 2
    StatusTTL = 2
PROPERTIES OfflineNotListed
