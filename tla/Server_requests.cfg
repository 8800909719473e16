SPECIFICATION FairSpec
CONSTANTS
    Paths = {"/mutating/injection-deploy", "/mutating/injection-pod"}
    Requests = {r1, r2}
    MaxSignals = 2
INVARIANTS
    TypeOK
    ServedOnlyWhenReady
PROPERTIES
    AnswersOnce
    StartEnds
    ReceivedSignalEnds
CHECK_DEADLOCK FALSE
