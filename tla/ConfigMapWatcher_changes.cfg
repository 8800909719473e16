SPECIFICATION Spec
CONSTANTS
    ConfigMapName = default
    RuleConfigMapName = rules
    Names = {default, rules}
    Files = {f1}
    InjectorConfigName = injector
    Ids = {a, b}
    Nil = Nil
    MaxWrites = 3
    MaxPending = 0
SYMMETRY IdSymmetry
INVARIANTS
    TypeOK
    NoChangeLost
    RunningMeansConfigured
PROPERTIES
    RulesReplacedWhole
CHECK_DEADLOCK FALSE
