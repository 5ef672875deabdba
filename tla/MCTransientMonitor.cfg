SPECIFICATION Spec
CONSTANTS
    db = db
    web = web
    cache = cache
    v1 = v1
    v2 = v2
    NoHash = NoHash
    Service <- Two
    Variant = {v1, v2}
    Files <- ChangeFiles
    Rank <- RankTwo
    Proc = {p1}
    Requests <- FullUps
    Faults <- AllFaults
    MaxFaults = 1
    MaxEdits = 0
    MaxCommands = 0
PROPERTIES
    UpMonitors
CHECK_DEADLOCK FALSE
