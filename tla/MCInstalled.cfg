SPECIFICATION Spec
CONSTANTS
    db = db
    web = web
    cache = cache
    v1 = v1
    v2 = v2
    NoHash = NoHash
    NoFile = NoFile
    Target = Target
    Service <- Three
    Variant = {v1, v2}
    Files <- AllFiles
    NameRank <- RankThree
    Requests <- AllLines
    Faults <- AllFaults
    MaxFaults = 1
    MaxEdits = 2
INVARIANTS
    TypeOK
    NoHeadlessProject
    ManagerUpToDate
    SurvivesReboot
PROPERTIES
    UpHonest
    NamedHonest
    OrphansStopFirst
    UninstallClean
