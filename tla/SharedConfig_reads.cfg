SPECIFICATION Spec
CONSTANTS
    Files = {agent}
    InjectorConfigName = injector
    ConfigMapNames = {c1, c2}
    Versions = {v1}
    Nil = Nil
    Requests = {r1}
    MaxRevisions = 3
    MaxReads = 5
INVARIANTS TypeOK FilesOfOneRevision VersionAsPublished AgentInOrder
CHECK_DEADLOCK FALSE
