SPECIFICATION Spec
CONSTANTS
    db = db
    web = web
    cache = cache
    v1 = v1
    v2 = v2
    NoHash = NoHash
    NoFile = NoFile
    Target = Target
    Service <- Two
    Variant = {v1, v2}
    Files <- ChangeFiles
    NameRank <- RankTwo
    Requests <- FewLines
    Faults <- NoFaults
    MaxFaults = 0
    MaxEdits = 0
PROPERTIES
    UninstallStops
