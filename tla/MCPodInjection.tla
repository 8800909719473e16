---------------------------- MODULE MCPodInjection ----------------------------
EXTENDS PodInjection, TLC

\* Pods: with and without labels for the agent's version, for a rule, for a
\* sidecar; with one or more containers, some with variables of their own, some
\* without a name; with the agent's volume already there or not.
App(container) == [name |-> container, env |-> <<>>, mounts |-> {}]
With(container, env) == [App(container) EXCEPT !.env = env]

Service == ServiceSpaceLabel :> "s" @@ ServiceNameLabel :> "svc"

AgentLabels == {
    <<>>,
    "app" :> "a",
    "app" :> "a" @@ AgentVersionLabel :> "v1",
    "app" :> "b" @@ AgentVersionLabel :> "v9"}

SidecarLabels == {
    EnhanceTypeLabel :> "sidecar" @@ SidecarEnhanceLabel :> "true" @@ Service,
    SidecarEnhanceLabel :> "true",
    EnhanceTypeLabel :> "sidecar" @@ JdapServiceSpaceLabel :> "s" @@ ServiceNameLabel :> "svc"}

MCContainers == {
    <<>>,
    <<App("c1")>>,
    <<With("c1", "X" :> {"own"} @@ JavaToolOptions :> {"own"})>>,
    <<App("c1"), With("c2", "X" :> {"own"} @@ "NODE_ZONES" :> {"own"})>>,
    <<With("c1", "app" :> {"own"}), App("c2"), App("")>>,
    <<With("", "X" :> {"own"}), [App("c1") EXCEPT !.mounts = {<<"data">>}]>>}

\* There is a place before the containers, and one after them.
Placed(containers) == [i \in {n + 1 : n \in DOMAIN containers} |-> containers[i - 1]]

Pod(labels, annotations, containers, volumes, owner) ==
    [labels |-> labels, annotations |-> annotations, inits |-> <<>>,
     containers |-> Placed(containers), order |-> 1, volumes |-> volumes, owner |-> owner]

\* They come with the agent's volume, and one with a mount of it.
InjectedContainers == {
    <<App("c1")>>,
    <<[App("c1") EXCEPT !.mounts = {AgentVolume}], With("c2", "X" :> {"own"})>>}

\* The sidecar's settings only touch the first container.
SidecarContainers == {
    <<>>,
    <<With("c1", "X" :> {"own"})>>,
    <<App(""), App("c1")>>}

MCPods ==
    {Pod(labels, <<>>, containers, {<<"data">>}, "d1") :
        labels \in AgentLabels, containers \in MCContainers} \cup
    {Pod("app" :> "a", <<>>, containers, {<<"data">>, AgentVolume}, "d1") :
        containers \in InjectedContainers} \cup
    {Pod(labels, annotations, containers, {<<"data">>}, "d1") :
        labels \in SidecarLabels, containers \in SidecarContainers,
        annotations \in {<<>>, SidecarEnhanceLabel :> "Yes", SidecarStatus :> "injected"}} \cup
    {Pod(<<>>, <<>>, <<App("c1")>>, {}, Nil)}

MCExtras == {[With("proxy", "X" :> {"proxy"}) EXCEPT !.mounts = {<<"data">>}]}
MCVersions == {"v0", "v1"}
MCEnvOrders == {1, 2}
MCLowered == "Yes" :> "yes" @@ "TRUE" :> "true"

Rule(matchLabels, envs, labels) ==
    [matchLabels |-> matchLabels, envs |-> envs, labels |-> labels]

\* Two rules set X; the labels of one make another match, become a variable,
\* ask for a version or, in the last set, for a sidecar.
MCRules == {
    {},
    {Rule(<<>>, "X" :> "every" @@ "Q" :> "every", <<>>),
     Rule("app" :> "a", "X" :> "a" @@ "Y" :> "a", "tier" :> "front" @@ AgentVersionLabel :> "v1"),
     Rule("tier" :> "front", "Z" :> "front", "team" :> "ops")},
    {Rule("app" :> "", <<>>, "app" :> "a"),
     Rule("app" :> "a", <<>>, SidecarEnhanceLabel :> "true")}}

Agent == [image |-> "agent", version |-> "v0",
          envs |-> JavaToolOptions :> {"agent"} @@ "X" :> {"agent"}]

\* Settings of the control plane: one incomplete, two for one key, one of each type.
MCSettings == {
    Nil, <<>>,
    <<"type" :> "label" @@ "key" :> "lane",
      [type |-> "label", key |-> "lane", value |-> "base"],
      [type |-> "label", key |-> "lane", value |-> "gray"],
      [type |-> "environment", key |-> "X", value |-> "set"],
      [type |-> "environment", key |-> "W", value |-> "set"],
      [type |-> "annotation", key |-> SidecarEnhanceLabel, value |-> "no"]>>}

Base == [default |-> Agent, rules |-> {}, available |-> {"v1"},
         prefixed |-> {"app", "tier"}, zones |-> {{}, {"z"}}, reachable |-> TRUE,
         sidecar |-> TRUE, cluster |-> TRUE, settings |-> <<>>]

MCConfigs ==
    {[Base EXCEPT !.rules = rules] : rules \in MCRules} \cup
    {[Base EXCEPT !.settings = settings] : settings \in MCSettings} \cup
    {[Base EXCEPT !.default = Nil], [Base EXCEPT !.default.envs = <<>>],
     [Base EXCEPT !.reachable = FALSE], [Base EXCEPT !.prefixed = Nil],
     [Base EXCEPT !.sidecar = FALSE]}
=============================================================================
