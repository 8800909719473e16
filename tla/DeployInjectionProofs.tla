------------------------- MODULE DeployInjectionProofs -------------------------
(***************************************************************************)
(* Proofs about DeployInjection: what holds of the variables of a          *)
(* Deployment for any labels, any variables and any control plane.         *)
(***************************************************************************)
EXTENDS DeployInjection, MapsProofs, TLAPS

Unique(env) == \A e, f \in env : e.name = f.name => e = f

\* What came out of an admission has everything that the same answer of the
\* control plane would make the injector add.
StaysInjected ==
    stored # Nil /\ ~last.denied /\ Managed(stored) =>
        /\ EnhanceLabels(stored) ++ ApmLabels(stored) = stored.template
        /\ Agent(stored) =>
              LET envs == GetApplicationEnvironments(stored.labels, last.plane) IN
              /\ stored.container /\ envs # Nil
              /\ \A k \in DOMAIN envs :
                    \/ k \in Names(stored.env)
                    \/ k = ConfigCenterEnabledEnv /\ ~Has(stored.labels, ConfigureTypeLabel)

IInv ==
    /\ TypeOK
    /\ NoDuplicateVariables
    /\ ConfigCenterOnlyIfAsked
    /\ PodsAreSelected
    /\ StaysInjected

-----------------------------------------------------------------------------
(* The variables, whatever the environment that is added. *)

LEMMA AddKeepsUnique ==
    ASSUME NEW env, NEW envs, Unique(env)
    PROVE  Unique(AddEnvironments(env, envs))
BY DEF Unique, AddEnvironments, Names

LEMMA AddKeepsAll ==
    ASSUME NEW env, NEW envs
    PROVE  env \subseteq AddEnvironments(env, envs)
BY DEF AddEnvironments

LEMMA RemoveKeepsUnique ==
    ASSUME NEW env, NEW name, Unique(env)
    PROVE  Unique(removeEnvVar(env, name))
BY DEF Unique, removeEnvVar

LEMMA EnvironmentUnique ==
    ASSUME NEW o, Unique(o.env)
    PROVE  Unique(Environment(o))
BY AddKeepsUnique, RemoveKeepsUnique DEF Environment

\* Only CONFIG_CENTER_ENABLED is ever removed.
LEMMA EnvironmentKeeps ==
    ASSUME NEW o
    PROVE  {e \in o.env : e.name # ConfigCenterEnabledEnv} \subseteq Environment(o)
<1>1. o.env \subseteq AddEnvironments(o.env, GetApplicationEnvironments(o.labels, plane))
  BY AddKeepsAll
<1> QED
  BY <1>1 DEF Environment, removeEnvVar

LEMMA EnvironmentWithoutConfigCenter ==
    ASSUME NEW o, Agent(o), ~Has(o.labels, ConfigureTypeLabel)
    PROVE  ConfigCenterEnabledEnv \notin Names(Environment(o))
BY DEF Environment, removeEnvVar, Names

LEMMA InjectedFields ==
    ASSUME NEW o, IsFunction(o), DOMAIN o = Fields
    PROVE  /\ IsFunction(Injected(o)) /\ DOMAIN Injected(o) = Fields
           /\ Injected(o).labels = o.labels
           /\ Injected(o).container = o.container
           /\ Injected(o).env = Environment(o)
           /\ Injected(o).template = EnhanceLabels(o) ++ ApmLabels(o)
<1> DEFINE t == EnhanceLabels(o) ++ ApmLabels(o)
           v == Environment(o)
<1>1. Injected(o) = [[o EXCEPT !.template = t] EXCEPT !.env = v]
  BY DEF Injected
<1> HIDE DEF t, v
<1>2. /\ DOMAIN Injected(o) = Fields /\ Injected(o).labels = o.labels
      /\ Injected(o).container = o.container
      /\ Injected(o).env = v /\ Injected(o).template = t
  BY <1>1 DEF Fields
<1>3. IsFunction(Injected(o))
  BY <1>1 DEF IsFunction
<1> QED
  BY <1>2, <1>3 DEF t, v

-----------------------------------------------------------------------------
(* The labels, maps that are put over one another. *)

\* In each of its ways EnhanceLabels ends with the label that selects the pods, at
\* "true" unless the template has another value.
LEMMA EnhanceSelects ==
    ASSUME NEW o
    PROVE  /\ WebHookMatchKey \in DOMAIN EnhanceLabels(o)
           /\ (Has(o.template, WebHookMatchKey) => o.template[WebHookMatchKey] = "true")
                 => EnhanceLabels(o)[WebHookMatchKey] = "true"
<1> DEFINE Selects(f) == WebHookMatchKey \in DOMAIN f => f[WebHookMatchKey] = "true"
<1>1. ASSUME NEW f, NEW g
      PROVE  /\ WebHookMatchKey \in DOMAIN f \/ WebHookMatchKey \in DOMAIN g
                   => WebHookMatchKey \in DOMAIN (f ++ g)
             /\ Selects(f) /\ Selects(g) => Selects(f ++ g)
  BY DEF ++
<1>2. /\ WebHookMatchKey \in DOMAIN Only(WebHookMatchKey, "true")
      /\ Selects(Only(WebHookMatchKey, "true"))
  BY SingleDomain
<1>3. CASE Sidecar(o)
  <2> DEFINE new == Only(SidecarEnhanceLabel, "true")
                    ++ Copied(o, {ApplicationLabel, ServiceNameLabel, ServiceGroupLabel,
                                  JdapServiceSpaceLabel})
                    ++ Only(SwimLaneLabel, IF Has(o.labels, SwimLaneLabel)
                                           THEN o.labels[SwimLaneLabel] ELSE "base")
  <2>1. EnhanceLabels(o) = new ++ o.template ++ Only(WebHookMatchKey, "true")
    BY <1>3 DEF EnhanceLabels
  <2>2. WebHookMatchKey \notin DOMAIN new
    <3>1. DOMAIN new = {SidecarEnhanceLabel, ApplicationLabel, ServiceNameLabel,
                        ServiceGroupLabel, JdapServiceSpaceLabel, SwimLaneLabel}
      BY DEF ++, Only, Copied
    <3> QED
      BY <3>1 DEF WebHookMatchKey, SidecarEnhanceLabel, ApplicationLabel, ServiceNameLabel,
                  ServiceGroupLabel, JdapServiceSpaceLabel, SwimLaneLabel
  <2> HIDE DEF new, Selects
  <2>3. Selects(o.template) =>
            Selects((new ++ o.template) ++ Only(WebHookMatchKey, "true"))
    <3>1. Selects(new)
      BY <2>2 DEF Selects
    <3> QED
      BY <1>1, <1>2, <3>1
  <2> QED
    BY <1>1, <1>2, <2>1, <2>3 DEF Selects, Has
<1>4. CASE ~Sidecar(o) /\ Has(o.template, WebHookMatchKey)
  BY <1>4 DEF EnhanceLabels, Has
<1>5. CASE ~Sidecar(o) /\ ~Has(o.template, WebHookMatchKey)
  <2> DEFINE copied == Copied(o, {ApplicationLabel, ServiceNameLabel, ServiceGroupLabel})
  <2>1. EnhanceLabels(o) = Only(WebHookMatchKey, "true") ++ copied ++ o.template
    BY <1>5 DEF EnhanceLabels
  <2>2. WebHookMatchKey \notin DOMAIN copied
    BY DEF Copied, WebHookMatchKey, ApplicationLabel, ServiceNameLabel, ServiceGroupLabel
  <2> HIDE DEF copied, Selects
  <2>3. Selects(copied) /\ Selects(o.template)
    BY <1>5, <2>2 DEF Selects, Has
  <2> QED
    BY <1>1, <1>2, <2>1, <2>3 DEF Selects
<1> QED
  BY <1>3, <1>4, <1>5

LEMMA EnhanceIsMap ==
    ASSUME NEW o, IsMap(o.labels), IsMap(o.template)
    PROVE  IsMap(EnhanceLabels(o)) /\ IsMap(ApmLabels(o))
<1> USE LiteralsAssumption, OverlayIsMap, SingleIsMap, AtString
<1>1. ASSUME NEW keys \in SUBSET STRING PROVE IsMap(Copied(o, keys))
  <2>1. \A k \in keys : At(o.labels, k) \in STRING
    OBVIOUS
  <2> QED
    BY <2>1 DEF Copied, IsMap, IsFunction
<1>2. IsMap(Only(SidecarEnhanceLabel, "true")) /\ IsMap(Only(WebHookMatchKey, "true"))
  OBVIOUS
<1>3. ASSUME Sidecar(o) PROVE IsMap(EnhanceLabels(o))
  <2> DEFINE lane == IF Has(o.labels, SwimLaneLabel) THEN o.labels[SwimLaneLabel] ELSE "base"
             copied == Copied(o, {ApplicationLabel, ServiceNameLabel, ServiceGroupLabel,
                                  JdapServiceSpaceLabel})
  <2>1. IsMap(copied)
    BY <1>1
  <2>2. IsMap(Only(SwimLaneLabel, lane))
    <3>1. lane \in STRING
      BY DEF IsMap, Has
    <3> QED
      BY <3>1
  <2> HIDE DEF lane, copied
  <2>3. IsMap(Only(SidecarEnhanceLabel, "true") ++ copied ++ Only(SwimLaneLabel, lane)
              ++ o.template ++ Only(WebHookMatchKey, "true"))
    BY <1>2, <2>1, <2>2
  <2>4. EnhanceLabels(o) = Only(SidecarEnhanceLabel, "true") ++ copied
              ++ Only(SwimLaneLabel, lane) ++ o.template ++ Only(WebHookMatchKey, "true")
    BY <1>3 DEF EnhanceLabels, lane, copied
  <2> QED
    BY <2>3, <2>4
<1>4. ASSUME ~Sidecar(o) PROVE IsMap(EnhanceLabels(o))
  <2> DEFINE copied == Copied(o, {ApplicationLabel, ServiceNameLabel, ServiceGroupLabel})
  <2>1. IsMap(copied)
    BY <1>1
  <2> HIDE DEF copied
  <2>2. IsMap(Only(WebHookMatchKey, "true") ++ copied ++ o.template)
    BY <1>2, <2>1
  <2>3. \/ EnhanceLabels(o) = o.template
        \/ EnhanceLabels(o) = Only(WebHookMatchKey, "true") ++ copied ++ o.template
    BY <1>4 DEF EnhanceLabels, copied
  <2> QED
    BY <2>2, <2>3
<1>5. IsMap(ApmLabels(o))
  <2> DEFINE app == Only("sgm.jd.com/app", At(o.labels, ApplicationLabel))
             group == Only("sgm.jd.com/group", At(o.labels, ServiceGroupLabel))
             probe == Only("sgm.jd.com/probe-inject", "true")
             sink == Only("sgm.jd.com/sink", "Http")
             tenant == Only("sgm.jd.com/tenant", At(o.labels, TenantLabel))
  <2>1. IsMap(app) /\ IsMap(group) /\ IsMap(probe) /\ IsMap(sink) /\ IsMap(tenant)
    OBVIOUS
  <2> HIDE DEF app, group, probe, sink, tenant
  <2>2. IsMap(app ++ group ++ probe ++ sink ++ tenant)
    BY <2>1
  <2> QED
    BY <2>2, EmptyIsMap DEF ApmLabels, app, group, probe, sink, tenant
<1> QED
  BY <1>3, <1>4, <1>5

\* To enhance a template once more changes nothing.
LEMMA EnhanceTwice ==
    ASSUME NEW o, NEW i, IsFunction(o.template), i.labels = o.labels,
           i.template = EnhanceLabels(o) ++ ApmLabels(o)
    PROVE  EnhanceLabels(i) ++ ApmLabels(i) = i.template
<1> DEFINE t == i.template
<1>1. IsFunction(t) /\ Extends(t, EnhanceLabels(o)) /\ DOMAIN ApmLabels(o) \subseteq DOMAIN t
  <2>1. PICK e, a : e = EnhanceLabels(o) /\ a = ApmLabels(o)
    OBVIOUS
  <2>2. t = e ++ a
    BY <2>1
  <2>3. IsFunction(e ++ a) /\ Extends(e ++ a, e) /\ DOMAIN a \subseteq DOMAIN (e ++ a)
    BY OverlayFunction, OverlayExtends, OverlayDomain
  <2> QED
    BY <2>1, <2>2, <2>3
<1>2. ApmLabels(i) = ApmLabels(o)
  BY DEF ApmLabels
<1>3. Has(t, WebHookMatchKey)
  <2>1. WebHookMatchKey \in DOMAIN EnhanceLabels(o)
    BY EnhanceSelects
  <2> QED
    BY <1>1, <2>1 DEF Extends
<1>4. EnhanceLabels(i) = t
  <2>1. CASE Sidecar(o)
    <3> DEFINE new == Only(SidecarEnhanceLabel, "true")
                      ++ Copied(o, {ApplicationLabel, ServiceNameLabel, ServiceGroupLabel,
                                    JdapServiceSpaceLabel})
                      ++ Only(SwimLaneLabel, IF Has(o.labels, SwimLaneLabel)
                                             THEN o.labels[SwimLaneLabel] ELSE "base")
               web == Only(WebHookMatchKey, "true")
    <3>1. EnhanceLabels(o) = new ++ o.template ++ web
      BY <2>1 DEF EnhanceLabels
    <3>2. EnhanceLabels(i) = new ++ t ++ web
      BY <2>1 DEF EnhanceLabels, Sidecar, Copied
    <3>3. DOMAIN web = {WebHookMatchKey}
      BY SingleDomain
    <3> HIDE DEF new, web
    <3>4. Extends(new ++ o.template ++ web, new)
      BY OverlayExtends, ExtendsTransitive
    <3>5. Extends(t, new)
      BY <1>1, <3>1, <3>4, ExtendsTransitive
    <3>6. new ++ t = t
      BY <1>1, <3>5, OverlayAbove
    <3>7. t ++ web = t
      BY <1>1, <1>3, <3>3, OverlayBelow DEF Has
    <3> QED
      BY <3>2, <3>6, <3>7
  <2>2. CASE ~Sidecar(o)
    BY <1>3, <2>2 DEF EnhanceLabels, Sidecar
  <2> QED
    BY <2>1, <2>2
<1> QED
  BY <1>1, <1>2, <1>4, OverlayBelow

-----------------------------------------------------------------------------
(* The control plane's answers. *)

LEMMA LabelEnvironmentsType ==
    ASSUME NEW labels, IsMap(labels)
    PROVE  IsMap(LabelEnvironments(labels))
<1> USE LiteralsAssumption, OverlayIsMap, SingleIsMap, EmptyIsMap
<1>1. ASSUME NEW k, Has(labels, k) PROVE labels[k] \in STRING
  BY <1>1 DEF IsMap, Has
<1> DEFINE group == Only("APPLICATION_SERVICE_GROUP", IF Has(labels, ServiceGroupLabel)
                         THEN labels[ServiceGroupLabel] ELSE "default")
           enabled == Only("CONFIG_LANE_ENABLED", "true")
           lane == Only("APPLICATION_LOCATION_LANE", IF Has(labels, SwimLaneLabel)
                        THEN labels[SwimLaneLabel] ELSE "base")
           register == IF Has(labels, RegisterTypeLabel)
                       THEN Only("CONFIG_REGISTRY_ENABLED", labels[RegisterTypeLabel]) ELSE <<>>
           configure == IF Has(labels, ConfigureTypeLabel)
                        THEN Only(ConfigCenterEnabledEnv, labels[ConfigureTypeLabel]) ELSE <<>>
           name == IF Has(labels, ServiceNameLabel)
                   THEN Only("APPLICATION_SERVICE_NAME", labels[ServiceNameLabel]) ELSE <<>>
<1>2. IsMap(group) /\ IsMap(enabled) /\ IsMap(lane)
  BY <1>1
<1>3. IsMap(register) /\ IsMap(configure) /\ IsMap(name)
  BY <1>1
<1> HIDE DEF group, enabled, lane, register, configure, name
<1>4. IsMap(group ++ enabled ++ lane ++ register ++ configure ++ name)
  BY <1>2, <1>3
<1> QED
  BY <1>4 DEF LabelEnvironments, group, enabled, lane, register, configure, name

LEMMA EnvironmentsType ==
    ASSUME NEW labels, IsMap(labels), NEW answer \in Plane,
           GetApplicationEnvironments(labels, answer) # Nil
    PROVE  IsMap(GetApplicationEnvironments(labels, answer))
<1> USE LiteralsAssumption, OverlayIsMap, SingleIsMap, EmptyIsMap
<1>1. IsMap(LabelEnvironments(labels))
  BY LabelEnvironmentsType
<1>2. ASSUME answer \notin {Unreachable, Failing} PROVE IsMap(Filtered(answer))
  BY <1>2, EditsAssumption DEF Filtered, IsMap, IsFunction
<1>3. application(labels) \in STRING /\ serviceSpace(labels) \in STRING
  <2>1. ASSUME NEW key, NEW fallback PROVE FirstOf(labels, key, fallback) \in STRING
    <3>1. CASE At(labels, key) # ""
      BY <3>1, AtString DEF FirstOf, At
    <3>2. CASE At(labels, key) = ""
      BY <3>2, AtString DEF FirstOf
    <3> QED
      BY <3>1, <3>2
  <2> QED
    BY <2>1 DEF application, serviceSpace
<1>4. ASSUME answer \notin {Unreachable, Failing}
      PROVE  IsMap(LabelEnvironments(labels)
                   ++ Only("APPLICATION_NAME", application(labels))
                   ++ Only("APPLICATION_SERVICE_NAMESPACE", serviceSpace(labels))
                   ++ Filtered(answer))
  BY <1>1, <1>2, <1>3, <1>4
<1> QED
  BY <1>1, <1>4 DEF GetApplicationEnvironments

LEMMA EnvironmentType ==
    ASSUME NEW o, IsObject(o), plane \in Plane,
           Agent(o) => GetApplicationEnvironments(o.labels, plane) # Nil
    PROVE  Environment(o) \subseteq Variable
<1>1. CASE ~Agent(o)
  BY <1>1 DEF Environment, IsObject
<1>2. CASE Agent(o)
  <2> DEFINE envs == GetApplicationEnvironments(o.labels, plane)
  <2>1. IsMap(envs)
    BY <1>2, EnvironmentsType DEF IsObject
  <2> HIDE DEF envs
  <2>2. AddEnvironments(o.env, envs) \subseteq Variable
    BY <2>1 DEF AddEnvironments, IsMap, IsObject, Variable
  <2> QED
    BY <1>2, <2>2 DEF Environment, removeEnvVar, envs
<1> QED
  BY <1>1, <1>2

-----------------------------------------------------------------------------
(* A request. *)

LEMMA SubmitType ==
    ASSUME TypeOK, NEW o, IsObject(o), Submit(o)
    PROVE  TypeOK'
<1>1. edits' \in 0..MaxEdits
  BY EditsAssumption DEF Submit, TypeOK
<1>2. last'.object = o /\ last'.denied \in BOOLEAN /\ plane' \in Plane
  BY DEF Submit, Denied, TypeOK
<1>3. ASSUME ~Denied(o), Managed(o) PROVE IsObject(Injected(o))
  <2>1. Agent(o) => GetApplicationEnvironments(o.labels, plane) # Nil
    BY <1>3 DEF Denied
  <2>2. Environment(o) \subseteq Variable
    BY <2>1, EnvironmentType DEF TypeOK
  <2>3. IsMap(EnhanceLabels(o) ++ ApmLabels(o))
    BY EnhanceIsMap, OverlayIsMap DEF IsObject
  <2> QED
    BY <2>2, <2>3, InjectedFields DEF IsObject
<1>4. stored' # Nil => IsObject(stored')
  BY <1>3 DEF Submit, injectionDeploy, TypeOK
<1> QED
  BY <1>1, <1>2, <1>4 DEF TypeOK

LEMMA SubmitSettles ==
    ASSUME IInv, NEW o, IsObject(o), Submit(o)
    PROVE  StaysInjected'
<1> SUFFICES ASSUME ~last'.denied, Managed(stored)'
             PROVE  /\ (EnhanceLabels(stored) ++ ApmLabels(stored) = stored.template)'
                    /\ Agent(stored)' =>
                         /\ stored'.container
                         /\ GetApplicationEnvironments(stored'.labels, plane) # Nil
                         /\ \A k \in DOMAIN GetApplicationEnvironments(stored'.labels, plane) :
                              \/ k \in Names(stored'.env)
                              \/ k = ConfigCenterEnabledEnv /\ ~Has(stored'.labels, ConfigureTypeLabel)
  BY DEF StaysInjected, Submit
<1>1. ~Denied(o) /\ stored' = injectionDeploy(o)
  BY DEF Submit
<1>2. Managed(o) /\ stored' = Injected(o)
  BY <1>1, InjectedFields DEF injectionDeploy, Managed, IsObject
<1>3. /\ stored'.labels = o.labels /\ stored'.env = Environment(o)
      /\ stored'.container = o.container
      /\ stored'.template = EnhanceLabels(o) ++ ApmLabels(o)
  BY <1>2, InjectedFields DEF IsObject
<1>4. (EnhanceLabels(stored) ++ ApmLabels(stored) = stored.template)'
  <2>1. ASSUME NEW i, i = stored' PROVE EnhanceLabels(i) ++ ApmLabels(i) = i.template
    BY <1>3, <2>1, EnhanceTwice DEF IsObject, IsMap
  <2> QED
    BY <2>1
<1>5. ASSUME Agent(stored)'
      PROVE  /\ stored'.container
             /\ GetApplicationEnvironments(o.labels, plane) # Nil
             /\ \A k \in DOMAIN GetApplicationEnvironments(o.labels, plane) :
                  \/ k \in Names(stored'.env)
                  \/ k = ConfigCenterEnabledEnv /\ ~Has(o.labels, ConfigureTypeLabel)
  <2>1. Agent(o)
    BY <1>3, <1>5 DEF Agent
  <2> DEFINE envs == GetApplicationEnvironments(o.labels, plane)
  <2>2. o.container /\ envs # Nil
    BY <1>1, <1>2, <2>1 DEF Denied
  <2> HIDE DEF envs
  <2>3. \A k \in DOMAIN envs : k \in Names(AddEnvironments(o.env, envs))
    <3>1. ASSUME NEW k \in DOMAIN envs, k \notin Names(o.env)
          PROVE  \E e \in AddEnvironments(o.env, envs) : e.name = k
      <4>1. [name |-> k, value |-> envs[k]] \in AddEnvironments(o.env, envs)
        BY <3>1 DEF AddEnvironments
      <4> QED
        BY <4>1
    <3>2. ASSUME NEW k, k \in Names(o.env) PROVE k \in Names(AddEnvironments(o.env, envs))
      BY <3>2, AddKeepsAll DEF Names
    <3> QED
      BY <3>1, <3>2 DEF Names
  <2>4. \A k \in DOMAIN envs :
            \/ k \in Names(Environment(o))
            \/ k = ConfigCenterEnabledEnv /\ ~Has(o.labels, ConfigureTypeLabel)
    BY <2>1, <2>3 DEF Environment, removeEnvVar, Names, envs
  <2> QED
    BY <1>3, <2>2, <2>4 DEF envs
<1> QED
  BY <1>3, <1>4, <1>5

LEMMA SubmitInv ==
    ASSUME IInv, NEW o, IsObject(o), Unique(o.env), Submit(o)
    PROVE  IInv'
<1> DEFINE i == injectionDeploy(o)
<1>t. TypeOK' /\ StaysInjected'
  BY SubmitType, SubmitSettles DEF IInv
<1>1. CASE stored' = stored /\ last'.denied
  BY <1>t, <1>1 DEF IInv, NoDuplicateVariables, ConfigCenterOnlyIfAsked, PodsAreSelected
<1>2. CASE stored' = i /\ ~Managed(o)
  <2>1. stored' = o
    BY <1>2 DEF injectionDeploy
  <2> QED
    BY <1>t, <1>2, <2>1
       DEF IInv, NoDuplicateVariables, ConfigCenterOnlyIfAsked, PodsAreSelected, Unique
<1>3. CASE stored' = i /\ Managed(o)
  <2>1. stored' = Injected(o)
    BY <1>3 DEF injectionDeploy
  <2>2. /\ stored'.labels = o.labels /\ stored'.env = Environment(o)
        /\ stored'.template = EnhanceLabels(o) ++ ApmLabels(o)
    BY <2>1, InjectedFields DEF IsObject
  <2>3. NoDuplicateVariables'
    BY <2>2, EnvironmentUnique DEF NoDuplicateVariables, Unique
  <2>4. ASSUME Agent(stored)', ~Has(stored.labels, ConfigureTypeLabel)'
        PROVE  ConfigCenterEnabledEnv \notin Names(stored'.env)
    <3>1. Agent(o) /\ ~Has(o.labels, ConfigureTypeLabel)
      BY <2>2, <2>4 DEF Agent
    <3> QED
      BY <2>2, <3>1, EnvironmentWithoutConfigCenter
  <2>5. ConfigCenterOnlyIfAsked'
    BY <2>4 DEF ConfigCenterOnlyIfAsked
  <2>6. PodsAreSelected'
    <3>1. last'.object = o
      BY DEF Submit
    <3>2. /\ WebHookMatchKey \in DOMAIN (EnhanceLabels(o) ++ ApmLabels(o))
          /\ (EnhanceLabels(o) ++ ApmLabels(o))[WebHookMatchKey]
                 = EnhanceLabels(o)[WebHookMatchKey]
      BY EnhanceSelects, OverlayExtends DEF Extends, Has
    <3> QED
      BY <2>2, <3>1, <3>2, EnhanceSelects DEF PodsAreSelected, At, Has
  <2> QED
    BY <1>t, <2>3, <2>5, <2>6 DEF IInv
<1> QED
  BY <1>1, <1>2, <1>3 DEF Submit

LEMMA SubmitPrevails ==
    ASSUME NEW o, IsObject(o), Submit(o), ~last'.denied
    PROVE  {e \in last'.object.env : e.name # ConfigCenterEnabledEnv} \subseteq stored'.env
<1>1. last'.object = o /\ last'.denied = Denied(o)
  BY DEF Submit
<1>2. stored' = injectionDeploy(o)
  BY <1>1 DEF Submit
<1>3. CASE Managed(o)
  BY <1>1, <1>2, <1>3, InjectedFields, EnvironmentKeeps DEF injectionDeploy, IsObject
<1>4. CASE ~Managed(o)
  BY <1>1, <1>2, <1>4 DEF injectionDeploy
<1> QED
  BY <1>3, <1>4

\* Every request is for a Deployment with its fields and no variable twice.
LEMMA RequestsAreObjects ==
    ASSUME IInv, Create \/ Relabel \/ Retemplate \/ SetEnv
    PROVE  \E o : IsObject(o) /\ Unique(o.env) /\ Submit(o)
<1> USE DEF IInv, TypeOK
<1>1. CASE Create
  BY <1>1, ObjectsAssumption DEF Create, Unique
<1>2. CASE Relabel
  <2>1. PICK labels \in LabelSets : Submit([stored EXCEPT !.labels = labels])
    BY <1>2 DEF Relabel
  <2>2. PICK o : o = [stored EXCEPT !.labels = labels]
    OBVIOUS
  <2>3. stored # Nil /\ IsObject(stored)
    BY <1>2 DEF Relabel
  <2>4. /\ DOMAIN o = Fields /\ o.labels = labels /\ o.env = stored.env
        /\ o.template = stored.template /\ o.container = stored.container
    BY <2>2, <2>3 DEF IsObject, Fields
  <2>5. IsFunction(o)
    BY <2>2 DEF IsFunction
  <2>6. IsObject(o)
    BY <2>3, <2>4, <2>5, EditsAssumption DEF IsObject
  <2>7. Unique(o.env)
    BY <2>3, <2>4 DEF NoDuplicateVariables, Unique
  <2> QED
    BY <2>1, <2>2, <2>6, <2>7
<1>3. CASE SetEnv
  <2>1. PICK e \in UserVariables :
            e.name \notin Names(stored.env) /\ Submit([stored EXCEPT !.env = @ \cup {e}])
    BY <1>3 DEF SetEnv
  <2>2. PICK o : o = [stored EXCEPT !.env = @ \cup {e}]
    OBVIOUS
  <2>3. stored # Nil /\ IsObject(stored)
    BY <1>3 DEF SetEnv
  <2>4. /\ DOMAIN o = Fields /\ o.labels = stored.labels /\ o.env = stored.env \cup {e}
        /\ o.template = stored.template /\ o.container = stored.container
    BY <2>2, <2>3 DEF IsObject, Fields
  <2>5. IsFunction(o)
    BY <2>2 DEF IsFunction
  <2>6. IsObject(o)
    BY <2>3, <2>4, <2>5, EditsAssumption DEF IsObject
  <2>7. Unique(o.env)
    BY <2>1, <2>3, <2>4 DEF NoDuplicateVariables, Unique, Names
  <2> QED
    BY <2>1, <2>2, <2>6, <2>7
<1>4. CASE Retemplate
  <2>1. PICK labels \in Templates : Submit([stored EXCEPT !.template = labels])
    BY <1>4 DEF Retemplate
  <2>2. PICK o : o = [stored EXCEPT !.template = labels]
    OBVIOUS
  <2>3. stored # Nil /\ IsObject(stored)
    BY <1>4 DEF Retemplate
  <2>4. /\ DOMAIN o = Fields /\ o.template = labels /\ o.env = stored.env
        /\ o.labels = stored.labels /\ o.container = stored.container
    BY <2>2, <2>3 DEF IsObject, Fields
  <2>5. IsFunction(o)
    BY <2>2 DEF IsFunction
  <2>6. IsObject(o)
    BY <2>3, <2>4, <2>5, EditsAssumption DEF IsObject
  <2>7. Unique(o.env)
    BY <2>3, <2>4 DEF NoDuplicateVariables, Unique
  <2> QED
    BY <2>1, <2>2, <2>6, <2>7
<1> QED
  BY <1>1, <1>2, <1>3, <1>4

LEMMA InitInv == Init => IInv
BY EditsAssumption
   DEF Init, IInv, TypeOK, NoDuplicateVariables, ConfigCenterOnlyIfAsked, PodsAreSelected,
       StaysInjected

LEMMA NextInv == IInv /\ [Next]_vars => IInv'
<1> SUFFICES ASSUME IInv, [Next]_vars PROVE IInv'
  OBVIOUS
<1>1. CASE Create \/ Relabel \/ Retemplate \/ SetEnv
  BY <1>1, RequestsAreObjects, SubmitInv
<1>2. CASE PlaneChanges \/ UNCHANGED vars
  BY <1>2 DEF PlaneChanges, vars, IInv, TypeOK, NoDuplicateVariables, ConfigCenterOnlyIfAsked,
              PodsAreSelected, StaysInjected
<1> QED
  BY <1>1, <1>2 DEF Next

LEMMA Invariance == Spec => []IInv
BY InitInv, NextInv, PTL DEF Spec

-----------------------------------------------------------------------------
(* The theorems. *)

\* The injector never gives a container two variables of one name, whatever the
\* control plane answers from one admission to the next.
THEOREM NoDuplicates == Spec => []NoDuplicateVariables
<1>1. IInv => NoDuplicateVariables
  BY DEF IInv
<1> QED
  BY <1>1, Invariance, PTL

\* CONFIG_CENTER_ENABLED is only there for a Deployment whose labels ask for it.
THEOREM ConfigCenterAsked == Spec => []ConfigCenterOnlyIfAsked
<1>1. IInv => ConfigCenterOnlyIfAsked
  BY DEF IInv
<1> QED
  BY <1>1, Invariance, PTL

\* No admission changes or removes a variable that came with the request, but for
\* CONFIG_CENTER_ENABLED.
THEOREM UsersPrevail == Spec => VariablesPrevail
<1>1. ASSUME IInv, [Next]_vars, edits' # edits, ~last'.denied
      PROVE  {e \in last'.object.env : e.name # ConfigCenterEnabledEnv} \subseteq stored'.env
  <2>1. Create \/ Relabel \/ Retemplate \/ SetEnv
    BY <1>1 DEF Next, PlaneChanges, vars
  <2> QED
    BY <1>1, <2>1, RequestsAreObjects, SubmitPrevails
<1>2. IInv /\ [Next]_vars =>
        [edits' # edits /\ ~last'.denied =>
          {e \in last'.object.env : e.name # ConfigCenterEnabledEnv} \subseteq stored'.env]_vars
  BY <1>1
<1> QED
  BY <1>2, Invariance, PTL DEF Spec, VariablesPrevail

\* An admission ends with the label that selects the pods at "true", enhanced for an
\* agent or for a sidecar, the first time or again, whatever was edited before: unless
\* the template came in with another value for it.
THEOREM PodsSelected == Spec => []PodsAreSelected
<1>1. IInv => PodsAreSelected
  BY DEF IInv
<1> QED
  BY <1>1, Invariance, PTL

\* What is stored stays a Deployment, with maps of strings to strings.
THEOREM TypeCorrect == Spec => []TypeOK
<1>1. IInv => TypeOK
  BY DEF IInv
<1> QED
  BY <1>1, Invariance, PTL

\* Once the injector has been through with a Deployment it has nothing to add, as
\* long as the control plane gives the same answer: also when the answer was another
\* one in between. A webhook may be invoked again.
THEOREM AdmittedSettles == Spec => []Settled
<1>1. IInv => Settled
  <2> SUFFICES ASSUME IInv, stored # Nil, last.plane = plane, ~last.denied
               PROVE  injectionDeploy(stored) = stored /\ ~Denied(stored)
    BY DEF Settled
  <2>1. CASE ~Managed(stored)
    BY <2>1 DEF injectionDeploy, Denied
  <2>2. CASE Managed(stored)
    <3> DEFINE envs == GetApplicationEnvironments(stored.labels, plane)
    <3>1. IsObject(stored)
      BY DEF IInv, TypeOK
    <3>2. EnhanceLabels(stored) ++ ApmLabels(stored) = stored.template
      BY <2>2 DEF IInv, StaysInjected
    <3>3. Agent(stored) =>
            /\ stored.container /\ envs # Nil
            /\ \A k \in DOMAIN envs :
                  \/ k \in Names(stored.env)
                  \/ k = ConfigCenterEnabledEnv /\ ~Has(stored.labels, ConfigureTypeLabel)
      BY <2>2 DEF IInv, StaysInjected
    <3> HIDE DEF envs
    <3>4. Environment(stored) = stored.env
      <4>1. ASSUME Agent(stored), Has(stored.labels, ConfigureTypeLabel)
            PROVE  AddEnvironments(stored.env, envs) = stored.env
        BY <3>3, <4>1 DEF AddEnvironments
      <4>2. ASSUME Agent(stored), ~Has(stored.labels, ConfigureTypeLabel)
            PROVE  removeEnvVar(AddEnvironments(stored.env, envs), ConfigCenterEnabledEnv)
                      = stored.env
        <5>1. \A e \in AddEnvironments(stored.env, envs) :
                  e \in stored.env \/ e.name = ConfigCenterEnabledEnv
          BY <3>3, <4>2 DEF AddEnvironments
        <5>2. \A e \in stored.env : e.name # ConfigCenterEnabledEnv
          BY <2>2, <4>2 DEF IInv, ConfigCenterOnlyIfAsked, Names
        <5> QED
          BY <5>1, <5>2, AddKeepsAll DEF removeEnvVar
      <4> QED
        BY <4>1, <4>2 DEF Environment, envs
    <3>5. Injected(stored) = stored
      <4>1. /\ IsFunction(Injected(stored)) /\ DOMAIN Injected(stored) = Fields
            /\ \A f \in Fields : Injected(stored)[f] = stored[f]
        BY <3>1, <3>2, <3>4, InjectedFields DEF IsObject, Fields
      <4> QED
        BY <3>1, <4>1 DEF IsFunction, IsObject
    <3> QED
      BY <2>2, <3>3, <3>5 DEF injectionDeploy, Denied, envs
  <2> QED
    BY <2>1, <2>2
<1> QED
  BY <1>1, Invariance, PTL
=============================================================================
