SPECIFICATION MCSpec
CONSTANTS
    b1 = b1
    b2 = b2
    b3 = b3
    s1 = s1
    s2 = s2
    None = None
    MapSize = 49
    movementRange = 12
    Scale = 2
    Turns <- SomeTurns
    Starts <- SomeStarts
    MaxSyncs = 1
    Bots = {b1, b2}
    Clients = {b1, b2}
    Users = {b1, b2}
    Sessions = {s1, s2}
    Runs = {b1, b2}
    Programs = {"field udp", "matchmaker", "resonance"}
    Lists = {"room", "sync_obj"}
    Names = {"Session", "Ticket"}
    totalBots = 1
    Howmany = 3
    MaxMember = 2
    Interval = 10
    WaitingTime = 30
    MaxLives = 2
    MaxPushes = 2
    MaxCount = 2
    MaxMessages = 3
    MaxQueue = 1
    MaxMatches = 2
    MaxClients = 2
INVARIANTS
    PlaceLostOnlyByRace
    QuietExplained
    OverfullExplained
    CrashExplained
    PrintedOnce
    WholeLoad
    SyncsOnMap
    LastJumpShort
    NeverCaught
    KnowsItsSession
    StrayHasForgotten
    OneTicketChain
    CrashNeedsTurn
    
    RoundTrip
SYMMETRY Symmetry
CHECK_DEADLOCK FALSE
