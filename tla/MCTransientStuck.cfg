SPECIFICATION RetrySpec
CONSTANTS
    db = db
    web = web
    cache = cache
    v1 = v1
    v2 = v2
    NoHash = NoHash
    Service <- Two
    Variant = {v1, v2}
    Files <- ChangeFiles
    Rank <- RankTwo
    Proc = {p1}
    Requests <- FullUps
    Faults <- ServiceFaults
    MaxFaults = 1
    MaxEdits = 1
    MaxCommands = 0
PROPERTIES
    EventuallyAligned
CHECK_DEADLOCK FALSE
