SPECIFICATION Spec
CONSTANTS
    db = db
    web = web
    cache = cache
    v1 = v1
    v2 = v2
    NoHash = NoHash
    Service <- Three
    Variant = {v1, v2}
    Files <- AllFiles
    Rank <- RankThree
    Proc = {p1}
    Requests <- AllLines
    Faults <- AllFaults
    MaxFaults = 1
    MaxEdits = 2
    MaxCommands = 2
INVARIANTS
    TypeOK
    DependencyBound
    MonitorBound
PROPERTIES
    UpHonest
    StartHonest
    StopHonest
    PurgeHonest
    NoNeedlessStop
    ImplementsDeployment
CHECK_DEADLOCK FALSE
