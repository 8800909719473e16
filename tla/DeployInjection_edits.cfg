SPECIFICATION Spec
CONSTANTS
    Objects <- MCObjects
    LabelSets <- MCLabelSets
    Templates <- MCTemplates
    UserVariables <- MCUserVariables
    Plane <- MCPlane
    Unreachable = Unreachable
    Failing = Failing
    ControlPlaneUrl = "url"
    Filtering = TRUE
    Sensitive <- MCSensitive
    MaxEdits = 3
    Nil = Nil
INVARIANTS
    TypeOK
    NoDuplicateVariables
    Settled
    PodsAreSelected
    ConfigCenterOnlyIfAsked
PROPERTIES
    VariablesPrevail
CHECK_DEADLOCK FALSE
