SPECIFICATION LiveSpec
CONSTANTS
    s1 = s1
    s2 = s2
    g1 = g1
    key1 = key1
    Senders = {s1}
    Scrapers = {g1}
    Main = Main
    Tick = Tick
    Keys = {key1}
    MaxValues = 1
    None = None
PROPERTY
    ScrapeAnswered
CHECK_DEADLOCK FALSE
