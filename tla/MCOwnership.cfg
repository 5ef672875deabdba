SPECIFICATION Spec
CONSTANTS
    v1 = v1
    Invalid = Invalid
    NoHash = NoHash
    Symbol = {"a", "b", "-", "!", "health"}
    Service <- AllNames
    Variant = {v1}
    Files <- ParsedFiles
    Project <- Projects
    RawFiles <- Texts
    MaxCommands = 3
INVARIANTS
    TypeOK
    ScopeFound
PROPERTIES
    Isolation
    PurgeComplete
VIEW StateView
CHECK_DEADLOCK FALSE
