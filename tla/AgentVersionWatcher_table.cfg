SPECIFICATION Spec
CONSTANTS
    Names = {own, other}
    OwnNames = {own}
    v1 = v1
    v2 = v2
    files = files
    Versions = {v1, v2}
    AgentVersionSpec <- MCSpecs
    Nil = Nil
    MaxWrites = 2
    MaxPending = 1
INVARIANTS TypeOK VersionsPresent EntriesCurrent
PROPERTIES TableAsPromised
CHECK_DEADLOCK FALSE
