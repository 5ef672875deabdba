SPECIFICATION Spec
CONSTANTS
    db = db
    web = web
    v1 = v1
    v2 = v2
    NoHash = NoHash
    Service <- Two
    Variant = {v1, v2}
    Files <- PairFiles
    Tick = 2
    MaxUse <- OnlyWebComputes
INVARIANTS
    TypeOK
    UnhealthyDeserved
    CpuHonest
