----------------------------- MODULE PodInjection -----------------------------
(***************************************************************************)
(* pkg/mutation/mutation_pod.go: what injectionPod makes of a pod.         *)
(*                                                                         *)
(* A pod is admitted once by the API server, and again when its manifest   *)
(* is submitted a second time or the webhook is reinvoked after another    *)
(* one has changed it. In between, the watchers change the configuration.  *)
(*                                                                         *)
(* The value of an environment variable is the set of the options in it:   *)
(* appending " " and more options is a union. A container's variables are  *)
(* a map; the order in which the containers list them is the pod's order,  *)
(* one for them all.                                                       *)
(*                                                                         *)
(* The containers are a function from their places: what counts is their   *)
(* order. A container that is dropped leaves its place empty, one that is  *)
(* added takes an empty place, before, between or after the others.        *)
(***************************************************************************)
EXTENDS Naturals, Sequences, FiniteSetsExt, Maps

CONSTANTS
    Pods,           \* the pods that are submitted, see Pod
    Configs,        \* the configurations the watchers may load, see Config
    Extras,         \* containers that another webhook may add
    Versions,       \* the agent versions there are
    EnvOrders,      \* the orders in which variables may be listed
    Lowered,        \* strings.ToLower, for the strings that it changes
    MaxContainers,  \* bound: places for the containers of a pod
    MaxAdmissions,  \* bound: calls of the webhook for one pod
    Nil

\* What config calls them.
AgentVersionLabel == "x-live-version"
EnhanceTypeLabel == "jmsf.jd.com/enhance"
SidecarEnhanceLabel == "sidecar.istio.io/inject"
ServiceNameLabel == "jmsf.jd.com/service"
ServiceSpaceLabel == "jmsf.jd.com/space"
JdapServiceSpaceLabel == "jmsf.jd.com/service-space"
SidecarStatus == "sidecar.istio.io/status"
JavaToolOptions == "JAVA_TOOL_OPTIONS"
InitContainerName == "joylive-init-container"

AgentVolume == <<"joylive-agent-dir">>
ConfigVolume(deployment) == <<deployment, "live-configmap">>

-----------------------------------------------------------------------------
(* The values. *)

\* The strings that the injector writes. (TLC knows that they are, the prover not.)
ASSUME LiteralsAssumption ==
    {"joylive-agent-dir", "live-configmap", InitContainerName, JavaToolOptions,
     "NODE_NAME", "NODE_ZONES", "spec.nodeName"} \subseteq STRING

Places == 1..MaxContainers

IsSequence(s) == s \in Seq({s[i] : i \in DOMAIN s})

\* Environment variables: a map from strings to sets of strings.
IsEnv(m) == IsFunction(m) /\ \A k \in DOMAIN m : k \in STRING /\ m[k] \subseteq STRING

IsContainer(c) ==
    /\ IsFunction(c) /\ DOMAIN c = {"name", "env", "mounts"}
    /\ c.name \in STRING /\ IsEnv(c.env) /\ c.mounts \subseteq Seq(STRING)

IsInitContainer(c) ==
    /\ c.name \in STRING /\ IsEnv(c.env) /\ c.mounts \subseteq Seq(STRING)
    /\ c.name = InitContainerName => c.image[2] \in Versions

Fields == {"labels", "annotations", "inits", "containers", "order", "volumes", "owner"}

\* The owner is the Deployment of the pod's ReplicaSet, Nil when there is none.
IsPod(p) ==
    /\ IsFunction(p) /\ DOMAIN p = Fields
    /\ IsMap(p.labels) /\ IsMap(p.annotations)
    /\ p.volumes \subseteq Seq(STRING)
    /\ p.owner # Nil => p.owner \in STRING
    /\ p.order \in EnvOrders
    /\ IsSequence(p.inits) /\ \A i \in DOMAIN p.inits : IsInitContainer(p.inits[i])
    /\ IsFunction(p.containers) /\ DOMAIN p.containers \subseteq Places
    /\ \A i \in DOMAIN p.containers : IsContainer(p.containers[i])

IsRule(r) == IsMap(r.matchLabels) /\ IsMap(r.envs) /\ IsMap(r.labels)

\* default and settings may be Nil: no configmap yet, an error of the control plane.
IsConfig(c) ==
    /\ c.default # Nil => IsEnv(c.default.envs) /\ c.default.version \in Versions
    /\ IsFiniteSet(c.rules) /\ \A r \in c.rules : IsRule(r)
    /\ c.available \subseteq Versions
    /\ \A zones \in c.zones : zones \subseteq STRING
    /\ c.settings # Nil => /\ IsSequence(c.settings)
                           /\ \A i \in DOMAIN c.settings : IsMap(c.settings[i])

ASSUME PodsAssumption ==
    /\ \A p \in Pods : IsPod(p)
    /\ \A c \in Extras : IsContainer(c)
    /\ MaxContainers \in Nat /\ MaxAdmissions \in Nat
    /\ IsMap(Lowered)

ASSUME ConfigsAssumption == \A c \in Configs : IsConfig(c)

VARIABLES
    pod,        \* the pod as it stands
    config,     \* what the handlers read of pkg/config, and the control plane's mind
    verdict,    \* of the last call: "none", "allowed", "denied", "panic"
    prior,      \* history: the last admission, see Remember
    admissions, \* number of admissions
    submitted   \* history: the pod as it was submitted first

vars == <<pod, config, verdict, prior, admissions, submitted>>

Init ==
    /\ pod \in Pods /\ config \in Configs
    /\ verdict = "none" /\ prior = Nil /\ admissions = 0 /\ submitted = pod

-----------------------------------------------------------------------------
(* Maps. *)

Options(m) == [k \in DOMAIN m |-> {m[k]}]

\* The keys of several maps are put into one, map after map: the last one prevails.
Layers(maps) ==
    [k \in UNION {DOMAIN maps[i] : i \in DOMAIN maps} |->
        maps[Max({i \in DOMAIN maps : Has(maps[i], k)})][k]]

-----------------------------------------------------------------------------
(* The environment that labels make. *)

\* Labels whose key has one of the configured prefixes, and the node; nothing
\* when no prefix is configured. NODE_ZONES is "" when the nodes cannot be listed.
makePodEnvs(labels, zones) ==
    IF config.prefixed = Nil THEN <<>>
    ELSE [k \in {l \in DOMAIN labels : l \in config.prefixed /\ labels[l] # ""} |-> {labels[k]}]
         ++ Only("NODE_NAME", {"spec.nodeName"}) ++ Only("NODE_ZONES", zones)

(* The rules. *)

isMatch(ruleLabels, labels) ==
    \A k \in DOMAIN ruleLabels : At(labels, k) = ruleLabels[k]

Matching(labels) == {r \in config.rules : isMatch(r.matchLabels, labels)}

Orders(rules) ==
    {order \in [1..Cardinality(rules) -> rules] : \A r \in rules : \E i \in DOMAIN order : order[i] = r}

\* What matchRule may return: the rules are merged in any order.
matchRule(labels) ==
    {[envs   |-> Layers([i \in DOMAIN order |-> order[i].envs]),
      labels |-> Layers([i \in DOMAIN order |-> order[i].labels])] :
        order \in Orders(Matching(labels))}

-----------------------------------------------------------------------------
(* The agent. *)

Mounts(deployment) == {AgentVolume, ConfigVolume(deployment)}

\* Mutant: the label's version is not looked up.
agentVersionUnchecked(labels) ==
    IF Has(labels, AgentVersionLabel) THEN labels[AgentVersionLabel] ELSE config.default.version

\* The label's version when it is enabled and its configmap is there.
agentVersion(labels) ==
    IF Has(labels, AgentVersionLabel) /\ labels[AgentVersionLabel] \in config.available
    THEN labels[AgentVersionLabel] ELSE config.default.version

\* getEnv: the first container that has the variable.
getEnv(containers, key) ==
    LET having == {i \in DOMAIN containers : Has(containers[i].env, key)} IN
    IF having = {} THEN {} ELSE containers[Min(having)].env[key]

HasInitContainer(inits) == \E i \in DOMAIN inits : inits[i].name = InitContainerName

AgentInitContainer(p) ==
    [name   |-> InitContainerName,
     image  |-> <<config.default.image, agentVersion(p.labels)>>,
     mounts |-> Mounts(p.owner),
     env    |-> [k \in DOMAIN config.default.envs |->
                   IF k = JavaToolOptions
                   THEN config.default.envs[k] \cup getEnv(p.containers, k)
                   ELSE config.default.envs[k]]]

\* Mutant: whether the init container is there is not looked at.
addPodInitContainerAlways(p) == Append(p.inits, AgentInitContainer(p))

addPodInitContainer(p) ==
    IF HasInitContainer(p.inits) THEN p.inits ELSE Append(p.inits, AgentInitContainer(p))

\* The containers that stay: those without a name are dropped.
Named(containers) == {i \in DOMAIN containers : containers[i].name # ""}

\* Mutant: the labels' variables are merged after the container's own.
mergeEnvsLabelsLast(containers, i, envs) ==
    envs ++ Layers([j \in {n \in Named(containers) : n <= i} |-> containers[j].env])
    ++ config.default.envs

\* envs grows in the loop over the containers: the i-th has its own variables,
\* then those of the containers before it, those of the labels, and the agent's.
mergeEnvs(containers, i, envs) ==
    Layers([j \in {n \in Named(containers) : n <= i} |-> containers[j].env])
    ++ envs ++ config.default.envs

\* Mutant: a container with any mount is taken for one that has the agent's.
addMountsToBare(mounts, deployment) ==
    IF mounts # {} THEN mounts ELSE Mounts(deployment)

addMounts(mounts, deployment) ==
    IF AgentVolume \in mounts THEN mounts ELSE mounts \cup Mounts(deployment)

modifyPodContainer(p, envs) ==
    [i \in Named(p.containers) |->
        [name   |-> p.containers[i].name,
         env    |-> mergeEnvs(p.containers, i, envs),
         mounts |-> addMounts(p.containers[i].mounts, p.owner)]]

\* Mutant: the configmap volume is forgotten.
addPodVolumeAgentOnly(p) == p.volumes \cup {AgentVolume}

addPodVolume(p) ==
    IF AgentVolume \in p.volumes THEN p.volumes ELSE p.volumes \cup Mounts(p.owner)

\* A container gets the variables that it does not have.
AddEnvs(container, envs) == [container EXCEPT !.env = @ ++ Options(envs)]

AddToFirst(containers, envs) ==
    [containers EXCEPT ![Min(DOMAIN containers)] = AddEnvs(@, envs)]

\* Variables of rules go to the first container, labels of rules to the pod,
\* unless they are there.
Enhance(p, rule) ==
    [p EXCEPT !.containers = AddToFirst(@, rule.envs), !.labels = @ ++ rule.labels]

\* The branch of injectionPod for agents; the steps each read what the steps
\* before them have made of the pod, and envs is from before them all.
\* modifyPodContainer lists the variables in the order of a range over a Go map.
injectAgent(p, rule, envs, order) ==
    LET enhanced == Enhance(p, rule) IN
    [enhanced EXCEPT !.inits = addPodInitContainer(enhanced),
                     !.containers = modifyPodContainer(enhanced, envs),
                     !.order = order,
                     !.volumes = addPodVolume(enhanced)]

-----------------------------------------------------------------------------
(* The sidecar. *)

ToLower(s) == IF Has(Lowered, s) THEN Lowered[s] ELSE s

\* The label is preferred to the annotation.
injectIstioRequired(p) ==
    LET selector == IF Has(p.labels, SidecarEnhanceLabel) THEN p.labels[SidecarEnhanceLabel]
                    ELSE At(p.annotations, SidecarEnhanceLabel)
    IN ToLower(selector) \in {"y", "yes", "true", "on"}

\* processSettingData: complete settings of one type; a later one replaces an
\* earlier one with its key.
Complete(data, type) ==
    {i \in DOMAIN data : {"type", "key", "value"} \subseteq DOMAIN data[i] /\ data[i]["type"] = type}

Collect(data, type) ==
    [k \in {data[i]["key"] : i \in Complete(data, type)} |->
        data[Max({i \in Complete(data, type) : data[i]["key"] = k})]["value"]]

\* GetSidecarConfig asks the control plane when it can name the service; an
\* unreachable control plane has no settings.
extractServiceInfo(labels) ==
    <<IF At(labels, ServiceSpaceLabel) # "" THEN At(labels, ServiceSpaceLabel)
      ELSE At(labels, JdapServiceSpaceLabel), At(labels, ServiceNameLabel)>>

Asks(labels) == extractServiceInfo(labels)[1] # "" /\ extractServiceInfo(labels)[2] # ""

GetSidecarConfig(p) == IF config.cluster /\ Asks(p.labels) THEN config.settings ELSE <<>>

\* The variables that the first container does not have are appended to its list,
\* in any order.
AddPodConfigs(p, data, order) ==
    [p EXCEPT !.containers = AddToFirst(@, Collect(data, "environment")),
              !.order = IF AddToFirst(p.containers, Collect(data, "environment")) = p.containers
                        THEN @ ELSE order,
              !.labels = @ ++ Collect(data, "label"),
              !.annotations = @ ++ Collect(data, "annotation")]

\* An error of the control plane lets the pod through as it is.
injectSidecarOption(p, order) ==
    IF config.sidecar /\ injectIstioRequired(p) /\ ~Has(p.annotations, SidecarStatus)
       /\ GetSidecarConfig(p) # Nil
    THEN AddPodConfigs(p, GetSidecarConfig(p), order) ELSE p

WantsSidecar(labels) ==
    At(labels, EnhanceTypeLabel) = "sidecar" \/ At(labels, SidecarEnhanceLabel) = "true"

-----------------------------------------------------------------------------
(* injectionPod, and what happens to the pod between two calls of it. *)

\* The last admission: the labels and the containers it found, the configuration
\* it used, which branch it took, and what came out.
Remember(branch) ==
    prior' = [labels |-> pod.labels, places |-> DOMAIN pod.containers, config |-> config,
              branch |-> branch, result |-> pod']

Answer(answer) ==
    /\ verdict' = answer
    /\ UNCHANGED config

\* A pod without containers is let through before anything is looked up.
LetThrough ==
    /\ DOMAIN pod.containers = {}
    /\ Answer("allowed") /\ UNCHANGED <<pod, prior>>

\* The pod has no ReplicaSet that a Deployment owns, or it cannot be looked up.
GetDeploymentNameFails == pod.owner = Nil \/ ~config.reachable

Deny ==
    /\ DOMAIN pod.containers # {}
    /\ GetDeploymentNameFails
    /\ Answer("denied") /\ UNCHANGED <<pod, prior>>

Enhanceable == DOMAIN pod.containers # {} /\ ~GetDeploymentNameFails

InjectSidecar ==
    /\ Enhanceable /\ WantsSidecar(pod.labels)
    /\ \E order \in EnvOrders : pod' = injectSidecarOption(pod, order)
    /\ Answer("allowed") /\ Remember("sidecar")

\* DefaultInjectorConfig is nil until a configmap with injector.yaml was cached.
Dereferences ==
    config.default = Nil /\ (~HasInitContainer(pod.inits) \/ Named(pod.containers) # {})

Panic ==
    /\ Enhanceable /\ ~WantsSidecar(pod.labels)
    /\ Dereferences
    /\ Answer("panic") /\ UNCHANGED <<pod, prior>>

InjectAgent ==
    /\ Enhanceable /\ ~WantsSidecar(pod.labels)
    /\ ~Dereferences
    /\ \E rule \in matchRule(pod.labels), zones \in config.zones, order \in EnvOrders :
          pod' = injectAgent(pod, rule, makePodEnvs(pod.labels, zones), order)
    /\ Answer("allowed") /\ Remember("agent")

injectionPod ==
    /\ admissions < MaxAdmissions
    /\ admissions' = admissions + 1
    /\ LetThrough \/ Deny \/ InjectSidecar \/ Panic \/ InjectAgent
    /\ UNCHANGED submitted

\* Another webhook adds a container, with mounts of volumes that are there.
AddContainer ==
    /\ admissions \in 1..MaxAdmissions - 1
    /\ \E c \in Extras, place \in Places \ DOMAIN pod.containers :
          /\ \A i \in DOMAIN pod.containers : pod.containers[i].name # c.name
          /\ c.mounts \subseteq pod.volumes
          /\ pod' = [pod EXCEPT !.containers = @ ++ Only(place, c)]
    /\ UNCHANGED <<config, verdict, prior, admissions, submitted>>

\* The watchers load another configuration.
Reconfigure ==
    /\ admissions \in 1..MaxAdmissions - 1
    /\ config' \in Configs \ {config}
    /\ UNCHANGED <<pod, verdict, prior, admissions, submitted>>

Next == injectionPod \/ AddContainer \/ Reconfigure

Spec == Init /\ [][Next]_vars

-----------------------------------------------------------------------------
(* Properties *)

TypeOK ==
    /\ IsPod(pod) /\ config \in Configs /\ submitted \in Pods
    /\ verdict \in {"none", "allowed", "denied", "panic"}
    /\ admissions \in 0..MaxAdmissions

\* What the pod has prevails ("If it exists, skip adding it", mutation_pod.go:128;
\* "the value on the pod will prevail", 559): labels, annotations, volumes, mounts
\* and every container's variables are only ever added to, whichever of rules,
\* labels, agent and control plane has another value, and however often.
PodPrevails ==
    [][/\ Extends(pod'.labels, pod.labels)
       /\ Extends(pod'.annotations, pod.annotations)
       /\ pod.volumes \subseteq pod'.volumes
       /\ Extends(pod'.inits, pod.inits)
       /\ \A i \in Named(pod.containers) :
             /\ i \in DOMAIN pod'.containers
             /\ pod'.containers[i].name = pod.containers[i].name
             /\ Extends(pod'.containers[i].env, pod.containers[i].env)
             /\ pod.containers[i].mounts \subseteq pod'.containers[i].mounts
      ]_vars

Settled ==
    /\ prior # Nil /\ prior.result = pod /\ prior.config = config
    /\ prior.labels = pod.labels /\ prior.places = DOMAIN pod.containers

\* Injecting twice is injecting once: a pod that comes back as it was let
\* through, with the configuration unchanged, stays as it is. Only three things
\* can make a difference: labels that rules added, which may match other rules or
\* become variables; a first container without a name, which is dropped with the
\* variables that rules added to it; and the order of the variables, which every
\* injection of the agent makes anew. Once an admission adds no labels and drops
\* no container, the pod has settled but for that order, and with a sidecar all of
\* it has.
Settles ==
    [][admissions' # admissions /\ Settled =>
          /\ \A f \in Fields \ {"order"} : pod'[f] = pod[f]
          /\ prior.branch = "sidecar" => pod' = pod]_vars

\* The mounts for which the pod has no volume.
Dangling(p) ==
    LET mounts == {p.containers[i].mounts : i \in DOMAIN p.containers} \cup
                  {p.inits[i].mounts : i \in DOMAIN p.inits}
    IN (UNION mounts) \ p.volumes

\* Every mount names a volume of the pod, as the API server demands: no admission
\* adds a mount without its volume. Only a pod that came with a volume of the
\* agent's name, which addPodVolume takes for its own, gets mounts of the
\* configmap and not its volume.
MountsResolve ==
    Dangling(submitted) = {} =>
        Dangling(pod) \subseteq
            (IF AgentVolume \in submitted.volumes THEN {ConfigVolume(pod.owner)} ELSE {})

\* The container came with a mount of the agent's volume.
Mounted(c) ==
    \E b \in Extras \cup {submitted.containers[i] : i \in DOMAIN submitted.containers} :
        b.name = c.name /\ AgentVolume \in b.mounts

Equipped(p, agent) ==
    /\ HasInitContainer(p.inits)
    /\ AgentVolume \in p.volumes
    /\ AgentVolume \in submitted.volumes \/ ConfigVolume(p.owner) \in p.volumes
    /\ \A i \in DOMAIN p.containers :
          /\ AgentVolume \in p.containers[i].mounts
          /\ Mounted(p.containers[i]) \/ ConfigVolume(p.owner) \in p.containers[i].mounts
          /\ DOMAIN agent.envs \subseteq DOMAIN p.containers[i].env

\* In whatever state of injection a pod comes to the agent's branch, it leaves it
\* with the init container, with the volumes of the agent and of its configmap, and
\* with every container mounting both and having a variable of each of the agent's
\* names. Those that came with a volume, or a mount, of the agent's name are taken
\* for injected: they need not have the configmap's. What value the variable has is
\* another matter, see OptionsAdded.
AgentComplete ==
    prior # Nil /\ prior.branch = "agent" /\ prior.result = pod =>
        Equipped(pod, prior.config.default)

(* A statement of the repository that does not hold. *)

\* README.md:13: the injector "adds the environment variable `JAVA_TOOL_OPTIONS` by
\* default", which is what makes a JVM load the agent. To a variable that the
\* container has already, mutation_pod.go:357 appends the agent's options, but in a
\* copy that nobody reads.
OptionsAdded ==
    prior # Nil /\ prior.branch = "agent" /\ prior.result = pod =>
        LET envs == prior.config.default.envs IN
        \A i \in DOMAIN pod.containers :
            Has(envs, JavaToolOptions) =>
                envs[JavaToolOptions] \subseteq pod.containers[i].env[JavaToolOptions]
=============================================================================
