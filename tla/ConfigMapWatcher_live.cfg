SPECIFICATION FairSpec
CONSTANTS
    ConfigMapName = default
    RuleConfigMapName = rules
    Names = {default, v1}
    Files = {f1}
    InjectorConfigName = injector
    Ids = {a}
    Nil = Nil
    MaxWrites = 2
    MaxPending = 1
PROPERTIES
    ChangesReachConfig
CHECK_DEADLOCK FALSE
