SPECIFICATION Spec
CONSTANTS
    Pods <- MCPods
    Configs <- MCConfigs
    Extras <- MCExtras
    Versions <- MCVersions
    EnvOrders <- MCEnvOrders
    Lowered <- MCLowered
    MaxContainers = 4
    MaxAdmissions = 3
    Nil = Nil
INVARIANTS
    TypeOK
    MountsResolve
    AgentComplete
PROPERTIES
    PodPrevails
    Settles
CHECK_DEADLOCK FALSE
