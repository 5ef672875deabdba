SPECIFICATION Spec
CONSTANTS
    db = db
    web = web
    cache = cache
    v1 = v1
    v2 = v2
    NoHash = NoHash
    Service <- Three
    Variant = {v1, v2}
    Files <- ChainFiles
    Rank <- RankThree
    Proc = {p1, p2}
    Requests <- FullUps
    Faults <- AllFaults
    MaxFaults = 1
    MaxEdits = 1
    MaxCommands = 0
INVARIANTS
    SteadyAligned
CHECK_DEADLOCK FALSE
