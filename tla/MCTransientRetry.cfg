SPECIFICATION RetrySpec
CONSTANTS
    db = db
    web = web
    cache = cache
    v1 = v1
    v2 = v2
    NoHash = NoHash
    Service <- Three
    Variant = {v1, v2}
    Files <- ChainFiles
    Rank <- RankThree
    Proc = {p1}
    Requests <- AllLines
    Faults <- CallFaults
    MaxFaults = 1
    MaxEdits = 1
    MaxCommands = 1
PROPERTIES
    EventuallyAligned
CHECK_DEADLOCK FALSE
