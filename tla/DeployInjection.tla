---------------------------- MODULE DeployInjection ----------------------------
(***************************************************************************)
(* What injectionDeploy (pkg/mutation/mutation_deploy.go) adds to the pod  *)
(* template of a Deployment: labels, those of an APM agent (pkg/apm), and  *)
(* the environment that the control plane has for the application          *)
(* (pkg/resource/control.go).                                              *)
(*                                                                         *)
(* The object that comes out is stored, and comes back with the next edit: *)
(* users change labels, the template's labels and variables of what is there. Meanwhile the       *)
(* control plane changes its mind, fails, or cannot be reached.            *)
(***************************************************************************)
EXTENDS Naturals, Maps

CONSTANTS
    Objects,        \* the Deployments users create, see Object
    LabelSets,      \* the labels they give a Deployment later
    Templates,      \* the labels they give its template later
    UserVariables,  \* the variables they add to a container later
    Plane,          \* the control plane's answers: Unreachable, Failing, or data
    Unreachable,
    Failing,
    ControlPlaneUrl,
    Filtering,      \* config.FilterSensitive = "true"
    Sensitive,      \* names ending in USERNAME or PASSWORD
    MaxEdits,       \* bound: requests
    Nil

Fields == {"labels", "template", "env", "container"}

Variable == [name : STRING, value : STRING]

IsObject(o) ==
    /\ IsFunction(o) /\ DOMAIN o = Fields
    /\ IsMap(o.labels) /\ IsMap(o.template) /\ o.container \in BOOLEAN
    /\ o.env \subseteq Variable

\* A container does not come with two variables of one name, which Kubernetes
\* would accept: the question is what the injector makes of one that has none.
ASSUME ObjectsAssumption ==
    \A o \in Objects : IsObject(o) /\ \A e, f \in o.env : e.name = f.name => e = f

ASSUME EditsAssumption ==
    /\ \A labels \in LabelSets \cup Templates : IsMap(labels)
    /\ UserVariables \subseteq Variable
    /\ \A answer \in Plane : answer \in {Unreachable, Failing} \/ IsMap(answer)
    /\ MaxEdits \in Nat

\* What config calls them.
WebHookMatchKey == "x-live-enabled"
EnhanceTypeLabel == "jmsf.jd.com/enhance"
ApplicationLabel == "jmsf.jd.com/app"
JdapApplicationLabel == "app.jdap.io/name"
ServiceNameLabel == "jmsf.jd.com/service"
ServiceGroupLabel == "jmsf.jd.com/group"
ServiceSpaceLabel == "jmsf.jd.com/space"
JdapServiceSpaceLabel == "jmsf.jd.com/service-space"
SwimLaneLabel == "jmsf.jd.com/swimlane"
RegisterTypeLabel == "jmsf.jd.com/register"
ConfigureTypeLabel == "jmsf.jd.com/configure"
ApmTypeLabel == "jmsf.jd.com/apm"
TenantLabel == "jmsf.jd.com/tenant"
SidecarEnhanceLabel == "sidecar.istio.io/inject"
ConfigCenterEnabledEnv == "CONFIG_CENTER_ENABLED"

\* The strings that the injector writes. (TLC knows that they are, the prover not.)
ASSUME LiteralsAssumption ==
    {"APPLICATION_SERVICE_GROUP", "CONFIG_LANE_ENABLED", "APPLICATION_LOCATION_LANE",
     "CONFIG_REGISTRY_ENABLED", "APPLICATION_SERVICE_NAME", "APPLICATION_NAME",
     "APPLICATION_SERVICE_NAMESPACE", ConfigCenterEnabledEnv, "default", "base",
     SidecarEnhanceLabel, ApplicationLabel, ServiceNameLabel, ServiceGroupLabel,
     JdapServiceSpaceLabel, SwimLaneLabel, WebHookMatchKey, "sgm.jd.com/app",
     "sgm.jd.com/group", "sgm.jd.com/probe-inject", "sgm.jd.com/sink",
     "sgm.jd.com/tenant", "true", "Http"} \subseteq STRING

VARIABLES
    stored,     \* the Deployment in the API server, or Nil
    plane,      \* what the control plane answers now
    last,       \* history: the last request, see Submit
    edits       \* number of requests

vars == <<stored, plane, last, edits>>

-----------------------------------------------------------------------------
(* GetApplicationEnvironments *)

FirstOf(labels, key, fallback) ==
    IF At(labels, key) # "" THEN labels[key] ELSE At(labels, fallback)

serviceSpace(labels) == FirstOf(labels, ServiceSpaceLabel, JdapServiceSpaceLabel)
application(labels) == FirstOf(labels, ApplicationLabel, JdapApplicationLabel)

\* The control plane is asked when the labels name an application.
Asks(labels) == serviceSpace(labels) # "" /\ application(labels) # ""

Filtered(data) ==
    [k \in {n \in DOMAIN data : ~(Filtering /\ n \in Sensitive)} |-> data[k]]

\* What the labels say, whatever the control plane does.
LabelEnvironments(labels) ==
    Only("APPLICATION_SERVICE_GROUP",
         IF Has(labels, ServiceGroupLabel) THEN labels[ServiceGroupLabel] ELSE "default")
    ++ Only("CONFIG_LANE_ENABLED", "true")
    ++ Only("APPLICATION_LOCATION_LANE",
            IF Has(labels, SwimLaneLabel) THEN labels[SwimLaneLabel] ELSE "base")
    ++ (IF Has(labels, RegisterTypeLabel)
        THEN Only("CONFIG_REGISTRY_ENABLED", labels[RegisterTypeLabel]) ELSE <<>>)
    ++ (IF Has(labels, ConfigureTypeLabel)
        THEN Only(ConfigCenterEnabledEnv, labels[ConfigureTypeLabel]) ELSE <<>>)
    ++ (IF Has(labels, ServiceNameLabel)
        THEN Only("APPLICATION_SERVICE_NAME", labels[ServiceNameLabel]) ELSE <<>>)

\* Nil for an error. A control plane that cannot be reached is no error, but then
\* not even the labels' variables are returned.
GetApplicationEnvironments(labels, answer) ==
    IF ~Asks(labels) THEN LabelEnvironments(labels)
    ELSE IF answer = Unreachable THEN <<>>
    ELSE IF answer = Failing THEN Nil
    ELSE LabelEnvironments(labels)
         ++ Only("APPLICATION_NAME", application(labels))
         ++ Only("APPLICATION_SERVICE_NAMESPACE", serviceSpace(labels))
         ++ Filtered(answer)

-----------------------------------------------------------------------------
(* injectionDeploy. A container's variables are a set of name and value: there
   may be two with one name. *)

Names(env) == {e.name : e \in env}

\* Mutant: whether the variable is there is not looked at.
AddEnvironmentsTwice(env, envs) ==
    env \cup {[name |-> k, value |-> envs[k]] : k \in DOMAIN envs}

\* Mutant: what is there already is overwritten.
AddEnvironmentsOverwritten(env, envs) ==
    {e \in env : e.name \notin DOMAIN envs}
    \cup {[name |-> k, value |-> envs[k]] : k \in DOMAIN envs}

AddEnvironments(env, envs) ==
    env \cup {[name |-> k, value |-> envs[k]] : k \in DOMAIN envs \ Names(env)}

\* Mutant: the variable loses its value only.
removeEnvVarValue(env, name) ==
    {IF e.name = name THEN [e EXCEPT !.value = Nil] ELSE e : e \in env}

removeEnvVar(env, name) == {e \in env : e.name # name}

Sidecar(o) == At(o.labels, EnhanceTypeLabel) = "sidecar"
Agent(o) == ControlPlaneUrl # "" /\ At(o.labels, EnhanceTypeLabel) = "agent"

Copied(o, keys) == [k \in keys |-> At(o.labels, k)]

\* Mutant: a sidecar's template does not get the label that selects its pods.
EnhanceLabelsOther(o) ==
    IF Sidecar(o)
    THEN [k \in {SidecarEnhanceLabel} |-> "true"]
         ++ Copied(o, {ApplicationLabel, ServiceNameLabel, ServiceGroupLabel,
                       JdapServiceSpaceLabel})
         ++ o.template
    ELSE IF Has(o.template, WebHookMatchKey) THEN o.template
    ELSE Only(WebHookMatchKey, "true")
         ++ Copied(o, {ApplicationLabel, ServiceNameLabel, ServiceGroupLabel})
         ++ o.template

\* A sidecar's labels are written again every time, an agent's only when the
\* template does not have the label that selects its pods.
EnhanceLabels(o) ==
    IF Sidecar(o)
    THEN Only(SidecarEnhanceLabel, "true")
         ++ Copied(o, {ApplicationLabel, ServiceNameLabel, ServiceGroupLabel,
                       JdapServiceSpaceLabel})
         ++ Only(SwimLaneLabel, IF Has(o.labels, SwimLaneLabel)
                                THEN o.labels[SwimLaneLabel] ELSE "base")
         ++ o.template ++ Only(WebHookMatchKey, "true")
    ELSE IF Has(o.template, WebHookMatchKey) THEN o.template
    ELSE Only(WebHookMatchKey, "true")
         ++ Copied(o, {ApplicationLabel, ServiceNameLabel, ServiceGroupLabel})
         ++ o.template

\* SgmAppender.Modify, the only appender that is registered.
ApmLabels(o) ==
    IF At(o.labels, ApmTypeLabel) # "sgm" THEN <<>>
    ELSE Only("sgm.jd.com/app", At(o.labels, ApplicationLabel))
         ++ Only("sgm.jd.com/group", At(o.labels, ServiceGroupLabel))
         ++ Only("sgm.jd.com/probe-inject", "true")
         ++ Only("sgm.jd.com/sink", "Http")
         ++ Only("sgm.jd.com/tenant", At(o.labels, TenantLabel))

\* Mutant: the variable is removed first and the others added afterwards.
EnvironmentRemovedFirst(o) ==
    IF ~Agent(o) THEN o.env
    ELSE AddEnvironments(IF Has(o.labels, ConfigureTypeLabel) THEN o.env
                         ELSE removeEnvVar(o.env, ConfigCenterEnabledEnv),
                         GetApplicationEnvironments(o.labels, plane))

\* Mutant: the variable is only removed when no other was added.
EnvironmentRemovedIfNotAdded(o) ==
    LET added == AddEnvironments(o.env, GetApplicationEnvironments(o.labels, plane)) IN
    IF ~Agent(o) THEN o.env
    ELSE IF Has(o.labels, ConfigureTypeLabel) \/ added # o.env THEN added
    ELSE removeEnvVar(added, ConfigCenterEnabledEnv)

\* AddApplicationEnvironments, and the removal of CONFIG_CENTER_ENABLED.
Environment(o) ==
    LET added == AddEnvironments(o.env, GetApplicationEnvironments(o.labels, plane)) IN
    IF ~Agent(o) THEN o.env
    ELSE IF Has(o.labels, ConfigureTypeLabel) THEN added
    ELSE removeEnvVar(added, ConfigCenterEnabledEnv)

Injected(o) ==
    [o EXCEPT !.template = EnhanceLabels(o) ++ ApmLabels(o),
              !.env = Environment(o)]

Managed(o) == At(o.labels, WebHookMatchKey) = "true"

\* The control plane's error is a denial; a template without containers is indexed
\* all the same, and the panic is answered with 500.
Denied(o) ==
    /\ Managed(o) /\ Agent(o)
    /\ ~o.container \/ GetApplicationEnvironments(o.labels, plane) = Nil

injectionDeploy(o) == IF Managed(o) THEN Injected(o) ELSE o

Submit(o) ==
    /\ edits < MaxEdits
    /\ edits' = edits + 1
    /\ stored' = IF Denied(o) THEN stored ELSE injectionDeploy(o)
    /\ last' = [object |-> o, plane |-> plane, denied |-> Denied(o)]
    /\ UNCHANGED plane

Init == stored = Nil /\ plane \in Plane /\ last = Nil /\ edits = 0

Create == stored = Nil /\ \E o \in Objects : Submit(o)

\* kubectl edit, apply or scale: the object that is there, with changes.
Relabel == stored # Nil /\ \E labels \in LabelSets : Submit([stored EXCEPT !.labels = labels])
Retemplate ==
    stored # Nil /\ \E labels \in Templates : Submit([stored EXCEPT !.template = labels])
SetEnv ==
    /\ stored # Nil /\ stored.container
    /\ \E e \in UserVariables :
          e.name \notin Names(stored.env) /\ Submit([stored EXCEPT !.env = @ \cup {e}])

PlaneChanges ==
    /\ plane' \in Plane \ {plane}
    /\ UNCHANGED <<stored, last, edits>>

Next == Create \/ Relabel \/ Retemplate \/ SetEnv \/ PlaneChanges

Spec == Init /\ [][Next]_vars

-----------------------------------------------------------------------------
(* Properties *)

TypeOK ==
    /\ stored # Nil => IsObject(stored)
    /\ plane \in Plane
    /\ last # Nil => IsObject(last.object) /\ last.denied \in BOOLEAN
    /\ edits \in 0..MaxEdits

\* No variable is there twice: what an earlier admission added stays alone,
\* although the control plane may have another value by now.
NoDuplicateVariables ==
    stored # Nil => \A e, f \in stored.env : e.name = f.name => e = f

\* An admission is settled: to submit what is stored once more, with the control
\* plane unchanged, changes nothing and is not denied.
Settled ==
    stored # Nil /\ last.plane = plane /\ ~last.denied
        => injectionDeploy(stored) = stored /\ ~Denied(stored)

\* The pod webhook selects pods with the label at "true" (mutatingwebhook.yaml:44-45).
\* The pods of a Deployment that asks for the injector have it, whichever way it is
\* enhanced, was enhanced before, or lost it by an edit: unless its template came in
\* with another value, which the injector leaves.
PodsAreSelected ==
    /\ stored # Nil /\ Managed(stored) /\ ~last.denied
    /\ Has(last.object.template, WebHookMatchKey)
          => last.object.template[WebHookMatchKey] = "true"
    => At(stored.template, WebHookMatchKey) = "true"

\* A variable that came in with the request, from the user or from an earlier
\* admission, goes on with its value, CONFIG_CENTER_ENABLED excepted.
VariablesPrevail ==
    [][edits' # edits /\ ~last'.denied =>
        {e \in last'.object.env : e.name # ConfigCenterEnabledEnv} \subseteq stored'.env]_vars

\* CONFIG_CENTER_ENABLED is only there for a Deployment that asks for it, whether
\* the user, the control plane or an earlier admission has put it there.
ConfigCenterOnlyIfAsked ==
    stored # Nil /\ Managed(stored) /\ Agent(stored) /\ ~Has(stored.labels, ConfigureTypeLabel)
        => ConfigCenterEnabledEnv \notin Names(stored.env)
=============================================================================
