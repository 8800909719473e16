SPECIFICATION Spec
CONSTANTS
    Paths = {"/mutating/injection-deploy"}
    Requests = {r1}
    MaxSignals = 1
PROPERTIES
    GracefulShutdown
CHECK_DEADLOCK FALSE
