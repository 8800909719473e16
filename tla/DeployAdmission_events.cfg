SPECIFICATION Spec
CONSTANTS
    Deployments = {d1}
    Versions = {v1}
    Version = v1
    Defaults = {default1, default2}
    Nil = Nil
    Objects <- MCObjects
    Requests = {r1, r2, r3}
    MaxChanges = 1
    MaxPods = 1
SYMMETRY Symmetry
INVARIANTS
    TypeOK
    AllowedMeansWritten
    NoLostUpdate
    ConfigMapsFollowDeployments
    
CHECK_DEADLOCK FALSE
