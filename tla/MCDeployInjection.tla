---------------------------- MODULE MCDeployInjection ----------------------------
EXTENDS DeployInjection, TLC

Application == WebHookMatchKey :> "true" @@ ServiceSpaceLabel :> "s" @@ ApplicationLabel :> "app"
AgentType == EnhanceTypeLabel :> "agent"

\* Deployments that are not managed, ask for nothing, name their application in one
\* way or the other, are enhanced by agent or sidecar, ask for the config center, and
\* the two labels of control_test.go.
MCLabelSets == {
    AgentType,
    WebHookMatchKey :> "true",
    Application @@ AgentType,
    Application @@ AgentType @@ ServiceNameLabel :> "svc" @@ ConfigureTypeLabel :> "true",
    WebHookMatchKey :> "true" @@ AgentType @@ JdapServiceSpaceLabel :> "s"
        @@ JdapApplicationLabel :> "app" @@ RegisterTypeLabel :> "true",
    Application @@ EnhanceTypeLabel :> "sidecar" @@ ApmTypeLabel :> "sgm",
    Application @@ EnhanceTypeLabel :> "sidecar" @@ SwimLaneLabel :> "gray"
        @@ ServiceGroupLabel :> "g" @@ ConfigureTypeLabel :> "true",
    ServiceSpaceLabel :> "s" @@ ApplicationLabel :> "app"}

MCUserVariables == {
    [name |-> "APPLICATION_NAME", value |-> "own"],
    [name |-> ConfigCenterEnabledEnv, value |-> "own"]}

\* Nothing, what another admission may have left, and a value that selects no pod.
MCTemplates == {<<>>, SidecarEnhanceLabel :> "false", WebHookMatchKey :> "false"}

MCObjects ==
    {[labels |-> labels, template |-> template, env |-> env, container |-> TRUE] :
        labels \in MCLabelSets, template \in MCTemplates \cup {WebHookMatchKey :> "true"},
        env \in {{}, MCUserVariables}} \cup
    {[labels |-> labels, template |-> <<>>, env |-> {}, container |-> FALSE] :
        labels \in MCLabelSets}

\* Data that are empty, change, hold what must be filtered or removed, and overlap
\* with what the labels say.
MCPlane == {
    Unreachable, Failing, <<>>,
    "X" :> "1" @@ "DB_PASSWORD" :> "p" @@ ConfigCenterEnabledEnv :> "true",
    "X" :> "2" @@ "APPLICATION_SERVICE_GROUP" :> "plane" @@ "APPLICATION_NAME" :> "plane"}

MCSensitive == {"DB_PASSWORD"}
=============================================================================
