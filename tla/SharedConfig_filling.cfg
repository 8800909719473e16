SPECIFICATION Spec
CONSTANTS
    Files = {agent, logback}
    InjectorConfigName = injector
    ConfigMapNames = {c1, c2}
    Versions = {v1}
    Nil = Nil
    Requests = {r1}
    MaxRevisions = 3
    MaxReads = 5
INVARIANTS StoresConfigMapData
CHECK_DEADLOCK FALSE
