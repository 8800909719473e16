-------------------------- MODULE PodInjectionProofs --------------------------
(***************************************************************************)
(* Proofs about PodInjection: any pods, rules, settings and configurations *)
(* that change from one admission to the next.                             *)
(***************************************************************************)
EXTENDS PodInjection, MapsProofs, WellFoundedInduction, SequenceTheorems, FiniteSetTheorems, TLAPS

-----------------------------------------------------------------------------
(* The first and the last of some places. *)

LEMMA SmallestOf ==
    ASSUME NEW T, T \subseteq Nat, T # {}
    PROVE  \E x \in T : \A y \in T : x <= y
<1>1. IsWellFoundedOn(OpToRel(<, Nat), Nat)
  BY NatLessThanWellFounded
<1>2. PICK x \in T : \A y \in T : <<y, x>> \notin OpToRel(<, Nat)
  BY <1>1, WFMin
<1>3. \A y \in T : ~(y < x)
  BY <1>2 DEF OpToRel
<1> QED
  BY <1>3

LEMMA MinPlace ==
    ASSUME NEW T, T \subseteq Places, T # {}
    PROVE  Min(T) \in T /\ \A y \in T : Min(T) <= y
<1>1. T \subseteq Nat
  BY PodsAssumption DEF Places
<1>2. \E x \in T : \A y \in T : x <= y
  BY <1>1, SmallestOf
<1> QED
  BY <1>2 DEF Min

LEMMA MaxPlace ==
    ASSUME NEW n \in Nat, NEW T, T \subseteq 1..n, T # {}
    PROVE  Max(T) \in T /\ \A y \in T : y <= Max(T)
<1> DEFINE U == {n - x : x \in T}
<1>1. U \subseteq Nat /\ U # {}
  <2>1. \A x \in T : x \in 1..n
    OBVIOUS
  <2>2. \A x \in T : n - x \in Nat
    BY <2>1
  <2> QED
    BY <2>2
<1>2. PICK u \in U : \A v \in U : u <= v
  BY <1>1, SmallestOf
<1>3. PICK x \in T : u = n - x
  BY <1>2
<1>4. \A y \in T : x >= y
  <2> TAKE y \in T
  <2>1. n - x <= n - y
    BY <1>2, <1>3
  <2> QED
    BY <2>1
<1>5. \E z \in T : \A y \in T : z >= y
  BY <1>4
<1>6. Max(T) \in T /\ \A y \in T : Max(T) >= y
  BY <1>5 DEF Max
<1> QED
  BY <1>6

-----------------------------------------------------------------------------
(* Maps put over one another, in the order of their places. *)

LEMMA LayersDomain ==
    ASSUME NEW maps
    PROVE  /\ IsFunction(Layers(maps))
           /\ \A k : k \in DOMAIN Layers(maps) <=> \E i \in DOMAIN maps : k \in DOMAIN maps[i]
BY DEF Layers, IsFunction

\* A key has the value of the last of the maps that have it.
LEMMA LayersValue ==
    ASSUME NEW n \in Nat, NEW maps, DOMAIN maps \subseteq 1..n, NEW k \in DOMAIN Layers(maps)
    PROVE  \E i \in DOMAIN maps :
              /\ k \in DOMAIN maps[i] /\ Layers(maps)[k] = maps[i][k]
              /\ \A j \in DOMAIN maps : k \in DOMAIN maps[j] => j <= i
<1> DEFINE having == {i \in DOMAIN maps : Has(maps[i], k)}
<1>1. having \subseteq 1..n /\ having # {}
  BY LayersDomain DEF Has
<1>2. Layers(maps)[k] = maps[Max(having)][k]
  BY DEF Layers
<1>3. \A i : i \in having <=> i \in DOMAIN maps /\ k \in DOMAIN maps[i]
  BY DEF Has
<1> HIDE DEF having
<1>4. Max(having) \in having /\ \A j \in having : j <= Max(having)
  BY <1>1, MaxPlace
<1> QED
  BY <1>2, <1>3, <1>4

LEMMA LayersLast ==
    ASSUME NEW n \in Nat, NEW maps, DOMAIN maps \subseteq 1..n,
           NEW i \in DOMAIN maps, \A j \in DOMAIN maps : j <= i,
           NEW k \in DOMAIN maps[i]
    PROVE  k \in DOMAIN Layers(maps) /\ Layers(maps)[k] = maps[i][k]
<1>1. k \in DOMAIN Layers(maps)
  BY LayersDomain
<1>2. PICK j \in DOMAIN maps :
        /\ Layers(maps)[k] = maps[j][k]
        /\ \A m \in DOMAIN maps : k \in DOMAIN maps[m] => m <= j
  BY <1>1, LayersValue
<1>3. j <= i /\ i <= j /\ i \in 1..n /\ j \in 1..n
  BY <1>2
<1>4. j = i
  BY <1>3
<1> QED
  BY <1>1, <1>2, <1>4

LEMMA LayersIsMap ==
    ASSUME NEW n \in Nat, NEW maps, DOMAIN maps \subseteq 1..n, \A i \in DOMAIN maps : IsMap(maps[i])
    PROVE  IsMap(Layers(maps))
<1>1. ASSUME NEW k \in DOMAIN Layers(maps)
      PROVE  k \in STRING /\ Layers(maps)[k] \in STRING
  <2>1. PICK i \in DOMAIN maps : k \in DOMAIN maps[i] /\ Layers(maps)[k] = maps[i][k]
    BY LayersValue
  <2> QED
    BY <2>1 DEF IsMap
<1> QED
  BY <1>1, LayersDomain DEF IsMap

LEMMA LayersIsEnv ==
    ASSUME NEW n \in Nat, NEW maps, DOMAIN maps \subseteq 1..n, \A i \in DOMAIN maps : IsEnv(maps[i])
    PROVE  IsEnv(Layers(maps))
<1>1. ASSUME NEW k \in DOMAIN Layers(maps)
      PROVE  k \in STRING /\ Layers(maps)[k] \subseteq STRING
  <2>1. PICK i \in DOMAIN maps : k \in DOMAIN maps[i] /\ Layers(maps)[k] = maps[i][k]
    BY LayersValue
  <2> QED
    BY <2>1 DEF IsEnv
<1> QED
  BY <1>1, LayersDomain DEF IsEnv

LEMMA OptionsIsEnv ==
    ASSUME NEW m
    PROVE  DOMAIN Options(m) = DOMAIN m /\ (IsMap(m) => IsEnv(Options(m)))
BY DEF Options, IsEnv, IsMap, IsFunction

LEMMA OverlayIsEnv ==
    ASSUME NEW f, NEW g, IsEnv(f), IsEnv(g)
    PROVE  IsEnv(f ++ g)
<1>1. \A k \in DOMAIN (f ++ g) : k \in STRING /\ (f ++ g)[k] \subseteq STRING
  BY DEF ++, IsEnv
<1> QED
  BY <1>1, OverlayFunction DEF IsEnv

LEMMA SingleIsEnv ==
    ASSUME NEW k \in STRING, NEW v, v \subseteq STRING
    PROVE  IsEnv(Only(k, v))
BY DEF Only, IsEnv, IsFunction

-----------------------------------------------------------------------------
(* What the labels, the rules and the settings make. *)

PodKeys(labels, c) ==
    IF c.prefixed = Nil THEN {}
    ELSE {l \in DOMAIN labels : l \in c.prefixed /\ labels[l] # ""} \cup {"NODE_NAME", "NODE_ZONES"}

LEMMA PodEnvsType ==
    ASSUME NEW labels, IsMap(labels), NEW zones, zones \subseteq STRING
    PROVE  /\ IsEnv(makePodEnvs(labels, zones))
           /\ DOMAIN makePodEnvs(labels, zones) = PodKeys(labels, config)
<1> DEFINE prefixed == [k \in {l \in DOMAIN labels : l \in config.prefixed /\ labels[l] # ""} |->
                          {labels[k]}]
           name == Only("NODE_NAME", {"spec.nodeName"})
           zone == Only("NODE_ZONES", zones)
<1>1. CASE config.prefixed = Nil
  <2>1. makePodEnvs(labels, zones) = <<>>
    BY <1>1 DEF makePodEnvs
  <2> QED
    BY <1>1, <2>1, EmptyIsMap DEF PodKeys, IsEnv, IsMap
<1>2. CASE config.prefixed # Nil
  <2>1. makePodEnvs(labels, zones) = prefixed ++ name ++ zone
    BY <1>2 DEF makePodEnvs
  <2>2. IsEnv(prefixed) /\ DOMAIN prefixed = {l \in DOMAIN labels : l \in config.prefixed /\ labels[l] # ""}
    BY DEF IsEnv, IsMap, IsFunction
  <2>3. IsEnv(name) /\ DOMAIN name = {"NODE_NAME"}
    BY LiteralsAssumption, SingleIsEnv, SingleDomain
  <2>4. IsEnv(zone) /\ DOMAIN zone = {"NODE_ZONES"}
    BY LiteralsAssumption, SingleIsEnv, SingleDomain
  <2> HIDE DEF prefixed, name, zone
  <2>5. IsEnv(prefixed ++ name ++ zone)
    BY <2>2, <2>3, <2>4, OverlayIsEnv
  <2>6. DOMAIN (prefixed ++ name ++ zone) = DOMAIN prefixed \cup DOMAIN name \cup DOMAIN zone
    <3>1. DOMAIN (prefixed ++ name ++ zone) = DOMAIN (prefixed ++ name) \cup DOMAIN zone
      BY OverlayDomain
    <3>2. DOMAIN (prefixed ++ name) = DOMAIN prefixed \cup DOMAIN name
      BY OverlayDomain
    <3> QED
      BY <3>1, <3>2
  <2> QED
    BY <1>2, <2>1, <2>2, <2>3, <2>4, <2>5, <2>6 DEF PodKeys
<1> QED
  BY <1>1, <1>2

\* In whatever order the matching rules are merged, each finds all its keys.
LEMMA MatchRuleType ==
    ASSUME NEW labels, config \in Configs, NEW rule \in matchRule(labels)
    PROVE  /\ IsMap(rule.envs) /\ IsMap(rule.labels)
           /\ \A k : k \in DOMAIN rule.envs <=> \E r \in Matching(labels) : k \in DOMAIN r.envs
           /\ \A k : k \in DOMAIN rule.labels <=> \E r \in Matching(labels) : k \in DOMAIN r.labels
<1> DEFINE rules == Matching(labels)
<1>1. IsFiniteSet(rules) /\ \A r \in rules : IsRule(r)
  BY ConfigsAssumption, FS_Subset DEF IsConfig, Matching
<1>2. PICK order \in Orders(rules) :
        rule = [envs   |-> Layers([i \in DOMAIN order |-> order[i].envs]),
                labels |-> Layers([i \in DOMAIN order |-> order[i].labels])]
  BY DEF matchRule
<1>3. PICK n \in Nat : n = Cardinality(rules)
  BY <1>1, FS_CardinalityType
<1>4. /\ DOMAIN order = 1..n
      /\ \A i \in DOMAIN order : order[i] \in rules
      /\ \A r \in rules : \E i \in DOMAIN order : order[i] = r
  BY <1>2, <1>3 DEF Orders
<1> DEFINE envs == [i \in DOMAIN order |-> order[i].envs]
           labs == [i \in DOMAIN order |-> order[i].labels]
<1>5. rule.envs = Layers(envs) /\ rule.labels = Layers(labs)
  BY <1>2
<1> HIDE DEF rules
<1>6. /\ DOMAIN envs = 1..n /\ \A i \in DOMAIN envs : IsMap(envs[i])
      /\ \A k : (\E i \in DOMAIN envs : k \in DOMAIN envs[i]) <=> \E r \in rules : k \in DOMAIN r.envs
  BY <1>1, <1>4 DEF IsRule
<1>7. /\ DOMAIN labs = 1..n /\ \A i \in DOMAIN labs : IsMap(labs[i])
      /\ \A k : (\E i \in DOMAIN labs : k \in DOMAIN labs[i]) <=> \E r \in rules : k \in DOMAIN r.labels
  BY <1>1, <1>4 DEF IsRule
<1> HIDE DEF envs, labs
<1>8. IsMap(rule.envs) /\ IsMap(rule.labels)
  BY <1>5, <1>6, <1>7, LayersIsMap
<1>9. /\ \A k : k \in DOMAIN rule.envs <=> \E i \in DOMAIN envs : k \in DOMAIN envs[i]
      /\ \A k : k \in DOMAIN rule.labels <=> \E i \in DOMAIN labs : k \in DOMAIN labs[i]
  BY <1>5, LayersDomain
<1> QED
  BY <1>6, <1>7, <1>8, <1>9 DEF rules

LEMMA CollectIsMap ==
    ASSUME NEW data, IsSequence(data), \A i \in DOMAIN data : IsMap(data[i]), NEW type
    PROVE  IsMap(Collect(data, type))
<1>1. PICK n \in Nat : DOMAIN data = 1..n
  BY DEF IsSequence
<1>2. ASSUME NEW k \in DOMAIN Collect(data, type)
      PROVE  k \in STRING /\ Collect(data, type)[k] \in STRING
  <2> DEFINE having == {i \in Complete(data, type) : data[i]["key"] = k}
  <2>1. having # {} /\ having \subseteq 1..n
    BY <1>1, <1>2 DEF Collect, Complete
  <2>2. Collect(data, type)[k] = data[Max(having)]["value"]
    BY <1>2 DEF Collect
  <2>3. \A i \in having : /\ IsMap(data[i]) /\ {"key", "value"} \subseteq DOMAIN data[i]
                          /\ data[i]["key"] = k
    BY DEF Complete
  <2> HIDE DEF having
  <2>4. Max(having) \in having
    BY <2>1, MaxPlace
  <2>5. k \in STRING /\ data[Max(having)]["value"] \in STRING
    BY <2>3, <2>4 DEF IsMap
  <2> QED
    BY <2>2, <2>5
<1>3. IsFunction(Collect(data, type))
  BY DEF Collect, IsFunction
<1> QED
  BY <1>2, <1>3 DEF IsMap

\* No settings, nothing to add.
LEMMA CollectNothing ==
    ASSUME NEW type
    PROVE  IsMap(Collect(<<>>, type)) /\ DOMAIN Collect(<<>>, type) = {}
BY DEF Collect, Complete, IsMap, IsFunction

-----------------------------------------------------------------------------
(* The containers. *)

IsContainers(cs) ==
    /\ IsFunction(cs) /\ DOMAIN cs \subseteq Places
    /\ \A i \in DOMAIN cs : IsContainer(cs[i])

\* new has the container of old at this place, and may have added to it.
Keeps(new, old, i) ==
    /\ i \in DOMAIN new
    /\ new[i].name = old[i].name
    /\ Extends(new[i].env, old[i].env)
    /\ old[i].mounts \subseteq new[i].mounts

First(cs) == Min(DOMAIN cs)

LEMMA ExtendsItself == \A f : Extends(f, f)
BY DEF Extends, Has

LEMMA AddToFirstFields ==
    ASSUME NEW cs, IsContainers(cs), DOMAIN cs # {}, NEW envs, IsMap(envs)
    PROVE  /\ IsContainers(AddToFirst(cs, envs))
           /\ DOMAIN AddToFirst(cs, envs) = DOMAIN cs
           /\ \A i \in DOMAIN cs :
                 /\ Keeps(AddToFirst(cs, envs), cs, i)
                 /\ AddToFirst(cs, envs)[i].mounts = cs[i].mounts
           /\ DOMAIN envs \subseteq DOMAIN AddToFirst(cs, envs)[First(cs)].env
<1> DEFINE first == First(cs)
           env == cs[first].env ++ Options(envs)
<1>1. first \in DOMAIN cs
  BY MinPlace DEF IsContainers, First
<1> HIDE DEF first
<1>2. IsContainer(cs[first])
  BY <1>1 DEF IsContainers
<1>3. IsEnv(env) /\ Extends(env, cs[first].env) /\ DOMAIN envs \subseteq DOMAIN env
  <2>1. IsEnv(cs[first].env) /\ IsEnv(Options(envs)) /\ DOMAIN Options(envs) = DOMAIN envs
    BY <1>2, OptionsIsEnv DEF IsContainer
  <2>2. IsEnv(env) /\ Extends(env, cs[first].env)
    BY <2>1, OverlayIsEnv, OverlayExtends
  <2>3. DOMAIN env = DOMAIN cs[first].env \cup DOMAIN Options(envs)
    BY OverlayDomain
  <2> QED
    BY <2>1, <2>2, <2>3
<1> DEFINE c == AddEnvs(cs[first], envs)
<1>4. c = [cs[first] EXCEPT !.env = env]
  BY DEF AddEnvs
<1> HIDE DEF env
<1>5. /\ c.name = cs[first].name /\ c.mounts = cs[first].mounts /\ c.env = env
      /\ IsContainer(c)
  BY <1>2, <1>3, <1>4 DEF IsContainer, IsFunction
<1>6. AddToFirst(cs, envs) = [cs EXCEPT ![first] = c]
  BY DEF AddToFirst, first, First
<1> HIDE DEF c
<1>7. PICK new : new = AddToFirst(cs, envs)
  OBVIOUS
<1>8. /\ IsFunction(new) /\ DOMAIN new = DOMAIN cs /\ new[first] = c
      /\ \A i \in DOMAIN cs : i # first => new[i] = cs[i]
  BY <1>1, <1>6, <1>7 DEF IsFunction
<1>9. IsContainers(new)
  BY <1>5, <1>8 DEF IsContainers
<1>10. ASSUME NEW i \in DOMAIN cs
       PROVE  Keeps(new, cs, i) /\ new[i].mounts = cs[i].mounts
  <2>1. CASE i = first
    BY <1>3, <1>5, <1>8, <2>1 DEF Keeps
  <2>2. CASE i # first
    BY <1>8, <2>2, ExtendsItself DEF Keeps
  <2> QED
    BY <2>1, <2>2
<1> QED
  BY <1>3, <1>5, <1>7, <1>8, <1>9, <1>10 DEF first

\* Nothing is added to a container that has all the variables.
LEMMA AddToFirstNothing ==
    ASSUME NEW cs, IsContainers(cs), DOMAIN cs # {},
           NEW envs, DOMAIN envs \subseteq DOMAIN cs[First(cs)].env
    PROVE  AddToFirst(cs, envs) = cs
<1> DEFINE first == First(cs)
<1>1. first \in DOMAIN cs
  BY MinPlace DEF IsContainers, First
<1>2. IsContainer(cs[first])
  BY <1>1 DEF IsContainers
<1>3. cs[first].env ++ Options(envs) = cs[first].env
  BY <1>2, OptionsIsEnv, OverlayBelow DEF IsContainer, IsEnv
<1>4. AddEnvs(cs[first], envs) = cs[first]
  <2> DEFINE e == cs[first].env
  <2>1. AddEnvs(cs[first], envs) = [cs[first] EXCEPT !.env = e]
    BY <1>3 DEF AddEnvs
  <2> QED
    BY <1>2, <2>1 DEF IsContainer, IsFunction
<1>5. AddToFirst(cs, envs) = [cs EXCEPT ![first] = cs[first]]
  BY <1>4 DEF AddToFirst, First
<1> HIDE DEF first
<1>6. [cs EXCEPT ![first] = cs[first]] = cs
  BY DEF IsContainers, IsFunction
<1> QED
  BY <1>5, <1>6

LEMMA MergeEnvsFields ==
    ASSUME NEW cs, IsContainers(cs), NEW i \in Named(cs), NEW envs
    PROVE  /\ IsFunction(mergeEnvs(cs, i, envs))
           /\ Extends(mergeEnvs(cs, i, envs), cs[i].env)
           /\ \A k : k \in DOMAIN mergeEnvs(cs, i, envs) <=>
                 \/ \E j \in Named(cs) : j <= i /\ k \in DOMAIN cs[j].env
                 \/ k \in DOMAIN envs \/ k \in DOMAIN config.default.envs
           /\ IsEnv(envs) /\ IsEnv(config.default.envs) => IsEnv(mergeEnvs(cs, i, envs))
<1> DEFINE before == [j \in {n \in Named(cs) : n <= i} |-> cs[j].env]
           agent == config.default.envs
<1>1. mergeEnvs(cs, i, envs) = Layers(before) ++ envs ++ agent
  BY DEF mergeEnvs
<1>2. Named(cs) \subseteq 1..MaxContainers /\ MaxContainers \in Nat
  BY PodsAssumption DEF Named, IsContainers, Places
<1>3. /\ DOMAIN before = {n \in Named(cs) : n <= i} /\ i \in DOMAIN before
      /\ before[i] = cs[i].env
      /\ \A j \in DOMAIN before : IsEnv(before[j]) /\ before[j] = cs[j].env /\ j <= i
  <2>1. \A n \in Named(cs) : n \in Nat /\ n <= n
    BY <1>2
  <2>2. \A n \in Named(cs) : IsEnv(cs[n].env)
    <3>1. \A n \in Named(cs) : IsContainer(cs[n])
      BY DEF IsContainers, Named
    <3> QED
      BY <3>1 DEF IsContainer
  <2> QED
    BY <2>1, <2>2
<1> HIDE DEF before, agent
<1>4. DOMAIN before \subseteq 1..MaxContainers
  BY <1>2, <1>3
<1>5. Extends(Layers(before), cs[i].env)
  BY <1>2, <1>3, <1>4, LayersLast DEF Extends, Has
<1>6. IsEnv(Layers(before))
  BY <1>2, <1>3, <1>4, LayersIsEnv
<1>7. \A k : k \in DOMAIN Layers(before) <=> \E j \in Named(cs) : j <= i /\ k \in DOMAIN cs[j].env
  BY <1>3, LayersDomain
<1> DEFINE two == Layers(before) ++ envs
<1>8. /\ Extends(two, Layers(before)) /\ DOMAIN two = DOMAIN Layers(before) \cup DOMAIN envs
      /\ IsEnv(envs) => IsEnv(two)
  BY <1>6, OverlayExtends, OverlayDomain, OverlayIsEnv
<1> HIDE DEF two
<1>9. /\ IsFunction(two ++ agent) /\ Extends(two ++ agent, two)
      /\ DOMAIN (two ++ agent) = DOMAIN two \cup DOMAIN agent
      /\ IsEnv(two) /\ IsEnv(agent) => IsEnv(two ++ agent)
  BY OverlayFunction, OverlayExtends, OverlayDomain, OverlayIsEnv
<1>10. Extends(two ++ agent, cs[i].env)
  BY <1>5, <1>8, <1>9, ExtendsTransitive
<1> QED
  BY <1>1, <1>7, <1>8, <1>9, <1>10 DEF two, agent

LEMMA MountsType ==
    ASSUME NEW owner \in STRING
    PROVE  AgentVolume \in Mounts(owner) /\ ConfigVolume(owner) \in Mounts(owner)
           /\ Mounts(owner) \subseteq Seq(STRING)
BY LiteralsAssumption DEF Mounts, AgentVolume, ConfigVolume

LEMMA ModifyFields ==
    ASSUME NEW p, IsContainers(p.containers), p.owner \in STRING, NEW envs, IsEnv(envs),
           Named(p.containers) # {} => IsEnv(config.default.envs)
    PROVE  /\ IsContainers(modifyPodContainer(p, envs))
           /\ DOMAIN modifyPodContainer(p, envs) = Named(p.containers)
           /\ \A i \in Named(p.containers) :
                 LET new == modifyPodContainer(p, envs) IN
                 /\ Keeps(new, p.containers, i)
                 /\ new[i].name # ""
                 /\ new[i].mounts = addMounts(p.containers[i].mounts, p.owner)
                 /\ \A k : k \in DOMAIN new[i].env <=>
                       \/ \E j \in Named(p.containers) : j <= i /\ k \in DOMAIN p.containers[j].env
                       \/ k \in DOMAIN envs \/ k \in DOMAIN config.default.envs
<1> DEFINE cs == p.containers
<1>1. PICK new : new = modifyPodContainer(p, envs)
  OBVIOUS
<1>2. /\ IsFunction(new) /\ DOMAIN new = Named(cs)
      /\ \A i \in Named(cs) :
            new[i] = [name |-> cs[i].name, env |-> mergeEnvs(cs, i, envs),
                      mounts |-> addMounts(cs[i].mounts, p.owner)]
  BY <1>1 DEF modifyPodContainer, IsFunction
<1> HIDE DEF cs
<1>3. ASSUME NEW i \in Named(cs)
      PROVE  /\ i \in DOMAIN cs /\ IsContainer(cs[i]) /\ cs[i].name # ""
             /\ IsEnv(mergeEnvs(cs, i, envs)) /\ Extends(mergeEnvs(cs, i, envs), cs[i].env)
             /\ addMounts(cs[i].mounts, p.owner) \subseteq Seq(STRING)
             /\ cs[i].mounts \subseteq addMounts(cs[i].mounts, p.owner)
  <2>1. i \in DOMAIN cs /\ IsContainer(cs[i]) /\ cs[i].name # ""
    BY DEF Named, IsContainers, cs
  <2>2. IsEnv(mergeEnvs(cs, i, envs)) /\ Extends(mergeEnvs(cs, i, envs), cs[i].env)
    BY MergeEnvsFields DEF cs
  <2>3. addMounts(cs[i].mounts, p.owner) \subseteq Seq(STRING)
    BY <2>1, MountsType DEF addMounts, IsContainer
  <2> QED
    BY <2>1, <2>2, <2>3 DEF addMounts
<1>4. ASSUME NEW i \in Named(cs)
      PROVE  IsContainer(new[i]) /\ Keeps(new, cs, i) /\ new[i].name # ""
  <2>1. PICK env, mounts : env = mergeEnvs(cs, i, envs) /\ mounts = addMounts(cs[i].mounts, p.owner)
    OBVIOUS
  <2>2. PICK c : c = [name |-> cs[i].name, env |-> env, mounts |-> mounts]
    OBVIOUS
  <2>3. new[i] = c
    BY <1>2, <2>1, <2>2
  <2>4. DOMAIN c = {"name", "env", "mounts"} /\ c.name = cs[i].name /\ c.env = env /\ c.mounts = mounts
    BY <2>2
  <2>5. IsFunction(c)
    BY <2>2 DEF IsFunction
  <2>6. IsContainer(c)
    BY <1>3, <2>1, <2>4, <2>5 DEF IsContainer
  <2>7. Extends(c.env, cs[i].env) /\ cs[i].mounts \subseteq c.mounts /\ c.name # ""
    BY <1>3, <2>1, <2>4
  <2> QED
    BY <1>2, <2>3, <2>4, <2>6, <2>7 DEF Keeps
<1>5. IsContainers(new)
  BY <1>2, <1>3, <1>4 DEF IsContainers, cs
<1>6. ASSUME NEW i \in Named(cs), NEW k
      PROVE  k \in DOMAIN new[i].env <=>
                 \/ \E j \in Named(cs) : j <= i /\ k \in DOMAIN cs[j].env
                 \/ k \in DOMAIN envs \/ k \in DOMAIN config.default.envs
  <2>1. new[i].env = mergeEnvs(cs, i, envs)
    BY <1>2
  <2> QED
    BY <2>1, MergeEnvsFields DEF cs
<1>7. \A i \in Named(cs) : new[i].mounts = addMounts(cs[i].mounts, p.owner)
  BY <1>2
<1> QED
  BY <1>1, <1>2, <1>4, <1>5, <1>6, <1>7 DEF cs

\* Containers that have everything stay as they are.
LEMMA ModifyNothing ==
    ASSUME NEW p, IsContainers(p.containers), Named(p.containers) = DOMAIN p.containers, NEW envs,
           \A i \in DOMAIN p.containers :
              /\ AgentVolume \in p.containers[i].mounts
              /\ DOMAIN envs \subseteq DOMAIN p.containers[i].env
              /\ DOMAIN config.default.envs \subseteq DOMAIN p.containers[i].env
              /\ \A j \in DOMAIN p.containers :
                    j <= i => DOMAIN p.containers[j].env \subseteq DOMAIN p.containers[i].env
    PROVE  modifyPodContainer(p, envs) = p.containers
<1> DEFINE cs == p.containers
<1>1. ASSUME NEW i \in DOMAIN cs
      PROVE  modifyPodContainer(p, envs)[i] = cs[i]
  <2>1. /\ IsFunction(mergeEnvs(cs, i, envs))
        /\ Extends(mergeEnvs(cs, i, envs), cs[i].env)
        /\ \A k : k \in DOMAIN mergeEnvs(cs, i, envs) <=>
              \/ \E j \in Named(cs) : j <= i /\ k \in DOMAIN cs[j].env
              \/ k \in DOMAIN envs \/ k \in DOMAIN config.default.envs
    BY MergeEnvsFields
  <2>2. DOMAIN mergeEnvs(cs, i, envs) \subseteq DOMAIN cs[i].env
    BY <2>1
  <2>3. IsContainer(cs[i])
    BY DEF IsContainers
  <2>4. mergeEnvs(cs, i, envs) = cs[i].env
    BY <2>1, <2>2, <2>3 DEF IsFunction, Extends, Has, IsContainer, IsEnv
  <2>5. addMounts(cs[i].mounts, p.owner) = cs[i].mounts
    BY DEF addMounts
  <2>6. modifyPodContainer(p, envs)[i] = [name |-> cs[i].name, env |-> cs[i].env, mounts |-> cs[i].mounts]
    BY <2>4, <2>5 DEF modifyPodContainer
  <2>7. PICK c : c = cs[i]
    OBVIOUS
  <2>8. c = [name |-> c.name, env |-> c.env, mounts |-> c.mounts]
    BY <2>3, <2>7 DEF IsContainer, IsFunction
  <2> QED
    BY <2>6, <2>7, <2>8
<1>2. IsFunction(modifyPodContainer(p, envs)) /\ DOMAIN modifyPodContainer(p, envs) = DOMAIN cs
  BY DEF modifyPodContainer, IsFunction
<1> QED
  BY <1>1, <1>2 DEF IsContainers, IsFunction

-----------------------------------------------------------------------------
(* The init containers. *)

LEMMA AppendSequence ==
    ASSUME NEW s, IsSequence(s), NEW a
    PROVE  /\ IsSequence(Append(s, a)) /\ Len(s) \in Nat
           /\ DOMAIN s = 1..Len(s) /\ DOMAIN Append(s, a) = 1..Len(s) + 1
           /\ Append(s, a)[Len(s) + 1] = a /\ Extends(Append(s, a), s)
<1> DEFINE S == {s[i] : i \in DOMAIN s} \cup {a}
           t == Append(s, a)
<1>1. s \in Seq(S)
  BY SeqMonotonic DEF IsSequence
<1>2. t \in Seq(S) /\ Len(t) = Len(s) + 1 /\ \A i \in 1..Len(s) : t[i] = s[i]
  BY <1>1, AppendProperties
<1>3. t[Len(s) + 1] = a
  BY <1>1, AppendProperties
<1>4. DOMAIN s = 1..Len(s) /\ DOMAIN t = 1..Len(s) + 1 /\ Len(s) \in Nat
  BY <1>1, <1>2, LenProperties
<1>5. IsSequence(t)
  <2>1. \A i \in DOMAIN t : t[i] \in {t[j] : j \in DOMAIN t}
    OBVIOUS
  <2>2. IsFunction(t)
    <3>1. t \in [1..Len(t) -> S]
      BY <1>2, LenProperties
    <3> HIDE DEF t
    <3> QED
      BY <3>1 DEF IsFunction
  <2> QED
    BY <1>4, <2>1, <2>2, IsASeq DEF IsSequence, IsFunction
<1> HIDE DEF t
<1>6. Extends(t, s)
  BY <1>2, <1>4 DEF Extends, Has
<1> QED
  BY <1>3, <1>4, <1>5, <1>6 DEF t

LEMMA GetEnvType ==
    ASSUME NEW cs, IsContainers(cs), NEW k
    PROVE  getEnv(cs, k) \subseteq STRING
<1> DEFINE having == {i \in DOMAIN cs : Has(cs[i].env, k)}
<1>1. CASE having = {}
  BY <1>1 DEF getEnv
<1>2. CASE having # {}
  <2>1. having \subseteq Places
    BY DEF IsContainers
  <2>2. Min(having) \in having
    BY <1>2, <2>1, MinPlace
  <2>3. IsEnv(cs[Min(having)].env) /\ k \in DOMAIN cs[Min(having)].env
    BY <2>2 DEF IsContainers, IsContainer, Has
  <2>4. getEnv(cs, k) = cs[Min(having)].env[k]
    BY <1>2 DEF getEnv
  <2> QED
    BY <2>3, <2>4 DEF IsEnv
<1> QED
  BY <1>1, <1>2

\* Whatever version the labels ask for, the image is one there is.
LEMMA AgentInitContainerType ==
    ASSUME NEW p, IsContainers(p.containers), p.owner \in STRING, IsMap(p.labels),
           config \in Configs, config.default # Nil
    PROVE  IsInitContainer(AgentInitContainer(p)) /\ AgentInitContainer(p).mounts = Mounts(p.owner)
           /\ AgentInitContainer(p).name = InitContainerName
<1> DEFINE a == AgentInitContainer(p)
           version == agentVersion(p.labels)
           envs == config.default.envs
           env == [k \in DOMAIN envs |-> IF k = JavaToolOptions
                                         THEN envs[k] \cup getEnv(p.containers, k) ELSE envs[k]]
<1>1. /\ a.name = InitContainerName /\ a.mounts = Mounts(p.owner)
      /\ a.image = <<config.default.image, version>> /\ a.env = env
  BY DEF AgentInitContainer
<1>2. IsEnv(envs) /\ config.default.version \in Versions /\ config.available \subseteq Versions
  BY ConfigsAssumption DEF IsConfig
<1>3. version \in Versions
  BY <1>2 DEF agentVersion
<1>4. IsEnv(env)
  <2>1. getEnv(p.containers, JavaToolOptions) \subseteq STRING
    BY GetEnvType
  <2> QED
    BY <1>2, <2>1 DEF IsEnv, IsFunction
<1> HIDE DEF a, env, version
<1>5. a.image[2] = version
  BY <1>1
<1> QED
  BY <1>1, <1>3, <1>4, <1>5, LiteralsAssumption, MountsType DEF IsInitContainer, a

LEMMA InitsFields ==
    ASSUME NEW p, IsContainers(p.containers), p.owner \in STRING, IsMap(p.labels),
           IsSequence(p.inits), \A i \in DOMAIN p.inits : IsInitContainer(p.inits[i]),
           config \in Configs, ~HasInitContainer(p.inits) => config.default # Nil,
           NEW inits, inits = addPodInitContainer(p)
    PROVE  /\ IsSequence(inits) /\ \A i \in DOMAIN inits : IsInitContainer(inits[i])
           /\ Extends(inits, p.inits)
           /\ HasInitContainer(inits)
           /\ \A i \in DOMAIN inits :
                 \/ i \in DOMAIN p.inits /\ inits[i] = p.inits[i]
                 \/ inits[i].mounts = Mounts(p.owner)
<1>1. CASE HasInitContainer(p.inits)
  <2>1. inits = p.inits
    BY <1>1 DEF addPodInitContainer
  <2> QED
    BY <1>1, <2>1, ExtendsItself
<1>2. CASE ~HasInitContainer(p.inits)
  <2> DEFINE a == AgentInitContainer(p)
  <2>1. IsInitContainer(a) /\ a.mounts = Mounts(p.owner) /\ a.name = InitContainerName
    BY <1>2, AgentInitContainerType
  <2>2. inits = Append(p.inits, a)
    BY <1>2 DEF addPodInitContainer
  <2> HIDE DEF a
  <2>3. PICK n \in Nat : n = Len(p.inits)
    BY AppendSequence
  <2>4. /\ IsSequence(inits) /\ Extends(inits, p.inits) /\ inits[n + 1] = a
        /\ DOMAIN p.inits = 1..n /\ DOMAIN inits = 1..n + 1
    BY <2>2, <2>3, AppendSequence
  <2>5. \A i \in DOMAIN inits : i = n + 1 \/ (i \in DOMAIN p.inits /\ inits[i] = p.inits[i])
    <3>1. \A i \in DOMAIN p.inits : inits[i] = p.inits[i]
      BY <2>4 DEF Extends
    <3>2. ASSUME NEW i \in DOMAIN inits PROVE i = n + 1 \/ i \in DOMAIN p.inits
      <4>1. i \in 1..n + 1
        BY <2>4, <3>2
      <4>2. i = n + 1 \/ i \in 1..n
        BY <4>1
      <4> QED
        BY <2>4, <4>2
    <3> QED
      BY <3>1, <3>2
  <2>6. HasInitContainer(inits)
    BY <2>1, <2>4 DEF HasInitContainer
  <2> QED
    BY <2>1, <2>4, <2>5, <2>6
<1> QED
  BY <1>1, <1>2

-----------------------------------------------------------------------------
(* The pod. *)

LEMMA VolumesFields ==
    ASSUME NEW p, p.owner \in STRING, p.volumes \subseteq Seq(STRING)
    PROVE  /\ addPodVolume(p) \subseteq Seq(STRING) /\ p.volumes \subseteq addPodVolume(p)
           /\ AgentVolume \in addPodVolume(p)
           /\ AgentVolume \in p.volumes => addPodVolume(p) = p.volumes
           /\ AgentVolume \notin p.volumes => Mounts(p.owner) \subseteq addPodVolume(p)
BY MountsType DEF addPodVolume

LEMMA EnhanceFields ==
    ASSUME NEW p, IsPod(p), NEW rule
    PROVE  /\ Enhance(p, rule).containers = AddToFirst(p.containers, rule.envs)
           /\ Enhance(p, rule).labels = p.labels ++ rule.labels
           /\ \A f \in Fields \ {"containers", "labels"} : Enhance(p, rule)[f] = p[f]
           /\ IsFunction(Enhance(p, rule)) /\ DOMAIN Enhance(p, rule) = Fields
<1> DEFINE cs == AddToFirst(p.containers, rule.envs)
           labels == p.labels ++ rule.labels
<1>1. Enhance(p, rule) = [[p EXCEPT !.containers = cs] EXCEPT !.labels = labels]
  BY DEF Enhance
<1> HIDE DEF cs, labels
<1>2. PICK q : q = [p EXCEPT !.containers = cs]
  OBVIOUS
<1>3. IsFunction(q) /\ DOMAIN q = Fields /\ q.containers = cs
      /\ \A f \in Fields \ {"containers"} : q[f] = p[f]
  BY <1>2 DEF IsPod, Fields, IsFunction
<1>4. PICK r : r = [q EXCEPT !.labels = labels]
  OBVIOUS
<1>5. IsFunction(r) /\ DOMAIN r = Fields /\ r.labels = labels
      /\ \A f \in Fields \ {"labels"} : r[f] = q[f]
  BY <1>3, <1>4 DEF Fields, IsFunction
<1>6. Enhance(p, rule) = r
  BY <1>1, <1>2, <1>4
<1> QED
  BY <1>3, <1>5, <1>6 DEF cs, labels, Fields

LEMMA InjectedFields ==
    ASSUME NEW p, IsPod(p), NEW rule, NEW envs, NEW order, NEW e, e = Enhance(p, rule),
           NEW new, new = injectAgent(p, rule, envs, order)
    PROVE  /\ IsFunction(new) /\ DOMAIN new = Fields
           /\ new.inits = addPodInitContainer(e)
           /\ new.containers = modifyPodContainer(e, envs)
           /\ new.volumes = addPodVolume(e) /\ new.order = order
           /\ new.labels = e.labels /\ new.annotations = p.annotations /\ new.owner = p.owner
           /\ e.containers = AddToFirst(p.containers, rule.envs)
           /\ e.labels = p.labels ++ rule.labels
           /\ e.annotations = p.annotations /\ e.inits = p.inits
           /\ e.volumes = p.volumes /\ e.owner = p.owner
<1>0. /\ e.containers = AddToFirst(p.containers, rule.envs)
      /\ e.labels = p.labels ++ rule.labels
      /\ e.annotations = p.annotations /\ e.inits = p.inits
      /\ e.volumes = p.volumes /\ e.owner = p.owner
      /\ IsFunction(e) /\ DOMAIN e = Fields
  BY EnhanceFields DEF Fields
<1>1. PICK inits, cs, volumes :
        /\ inits = addPodInitContainer(e) /\ cs = modifyPodContainer(e, envs)
        /\ volumes = addPodVolume(e)
  OBVIOUS
<1>2. new = [[[[e EXCEPT !.inits = inits] EXCEPT !.containers = cs] EXCEPT !.order = order]
               EXCEPT !.volumes = volumes]
  BY <1>1 DEF injectAgent
<1>3. PICK q : q = [e EXCEPT !.inits = inits]
  OBVIOUS
<1>4. IsFunction(q) /\ DOMAIN q = Fields /\ q.inits = inits
      /\ \A f \in Fields \ {"inits"} : q[f] = e[f]
  BY <1>0, <1>3 DEF Fields, IsFunction
<1>5. PICK r : r = [q EXCEPT !.containers = cs]
  OBVIOUS
<1>6. IsFunction(r) /\ DOMAIN r = Fields /\ r.containers = cs
      /\ \A f \in Fields \ {"containers"} : r[f] = q[f]
  BY <1>4, <1>5 DEF Fields, IsFunction
<1>7. PICK o : o = [r EXCEPT !.order = order]
  OBVIOUS
<1>8. IsFunction(o) /\ DOMAIN o = Fields /\ o.order = order
      /\ \A f \in Fields \ {"order"} : o[f] = r[f]
  BY <1>6, <1>7 DEF Fields, IsFunction
<1>9. new = [o EXCEPT !.volumes = volumes]
  BY <1>2, <1>3, <1>5, <1>7
<1>10. IsFunction(new) /\ DOMAIN new = Fields /\ new.volumes = volumes
       /\ \A f \in Fields \ {"volumes"} : new[f] = o[f]
  BY <1>8, <1>9 DEF Fields, IsFunction
<1> QED
  BY <1>0, <1>1, <1>4, <1>6, <1>8, <1>10 DEF Fields

LEMMA ConfiguredFields ==
    ASSUME NEW p, IsPod(p), NEW data, NEW order, NEW new, new = AddPodConfigs(p, data, order)
    PROVE  /\ IsFunction(new) /\ DOMAIN new = Fields
           /\ new.containers = AddToFirst(p.containers, Collect(data, "environment"))
           /\ new.order = IF new.containers = p.containers THEN p.order ELSE order
           /\ new.labels = p.labels ++ Collect(data, "label")
           /\ new.annotations = p.annotations ++ Collect(data, "annotation")
           /\ new.inits = p.inits /\ new.volumes = p.volumes /\ new.owner = p.owner
<1> DEFINE cs == AddToFirst(p.containers, Collect(data, "environment"))
           listed == IF cs = p.containers THEN p.order ELSE order
           labels == p.labels ++ Collect(data, "label")
           annotations == p.annotations ++ Collect(data, "annotation")
<1>1. new = [[[[p EXCEPT !.containers = cs] EXCEPT !.order = listed] EXCEPT !.labels = labels]
               EXCEPT !.annotations = annotations]
  BY DEF AddPodConfigs
<1>i. listed = IF cs = p.containers THEN p.order ELSE order
  OBVIOUS
<1> HIDE DEF cs, listed, labels, annotations
<1>2. PICK q : q = [p EXCEPT !.containers = cs]
  OBVIOUS
<1>3. IsFunction(q) /\ DOMAIN q = Fields /\ q.containers = cs
      /\ \A f \in Fields \ {"containers"} : q[f] = p[f]
  BY <1>2 DEF IsPod, Fields, IsFunction
<1>4. PICK o : o = [q EXCEPT !.order = listed]
  OBVIOUS
<1>5. IsFunction(o) /\ DOMAIN o = Fields /\ o.order = listed
      /\ \A f \in Fields \ {"order"} : o[f] = q[f]
  BY <1>3, <1>4 DEF Fields, IsFunction
<1>6. PICK r : r = [o EXCEPT !.labels = labels]
  OBVIOUS
<1>7. IsFunction(r) /\ DOMAIN r = Fields /\ r.labels = labels
      /\ \A f \in Fields \ {"labels"} : r[f] = o[f]
  BY <1>5, <1>6 DEF Fields, IsFunction
<1>8. new = [r EXCEPT !.annotations = annotations]
  BY <1>1, <1>2, <1>4, <1>6
<1>9. IsFunction(new) /\ DOMAIN new = Fields /\ new.annotations = annotations
      /\ \A f \in Fields \ {"annotations"} : new[f] = r[f]
  BY <1>7, <1>8 DEF Fields, IsFunction
<1>10. /\ new.containers = cs /\ new.order = listed /\ new.labels = labels
       /\ new.inits = p.inits /\ new.volumes = p.volumes /\ new.owner = p.owner
  BY <1>3, <1>5, <1>7, <1>9 DEF Fields
<1> QED
  BY <1>9, <1>10, <1>i DEF cs, labels, annotations

-----------------------------------------------------------------------------
(* The inductive invariant. *)

\* Every mount is of a volume that the pod has, or else of one of these.
Attached(p, others) ==
    /\ \A i \in DOMAIN p.containers : p.containers[i].mounts \subseteq p.volumes \cup others
    /\ \A i \in DOMAIN p.inits : p.inits[i].mounts \subseteq p.volumes \cup others

LEMMA DanglingAttached ==
    ASSUME NEW p, NEW others
    PROVE  Dangling(p) \subseteq others <=> Attached(p, others)
<1> DEFINE mounts == {p.containers[i].mounts : i \in DOMAIN p.containers} \cup
                     {p.inits[i].mounts : i \in DOMAIN p.inits}
<1>1. Dangling(p) = (UNION mounts) \ p.volumes
  BY DEF Dangling
<1>2. Attached(p, others) <=> \A m \in mounts : m \subseteq p.volumes \cup others
  BY DEF Attached
<1> HIDE DEF mounts
<1>3. ASSUME (UNION mounts) \ p.volumes \subseteq others, NEW m \in mounts
      PROVE  m \subseteq p.volumes \cup others
  BY <1>3
<1>4. ASSUME \A m \in mounts : m \subseteq p.volumes \cup others
      PROVE  (UNION mounts) \ p.volumes \subseteq others
  BY <1>4
<1> QED
  BY <1>1, <1>2, <1>3, <1>4

\* What a pod may lack.
Lacking == IF AgentVolume \in submitted.volumes THEN {ConfigVolume(pod.owner)} ELSE {}

\* addPodVolume and addMounts look for the agent's volume only: who has it has the
\* configmap's too, or brought it.
VolumesInv ==
    AgentVolume \in pod.volumes =>
        AgentVolume \in submitted.volumes \/ ConfigVolume(pod.owner) \in pod.volumes

ContainersInv ==
    \A i \in DOMAIN pod.containers :
        AgentVolume \in pod.containers[i].mounts =>
            Mounted(pod.containers[i]) \/ ConfigVolume(pod.owner) \in pod.containers[i].mounts

MountsInv ==
    /\ VolumesInv /\ ContainersInv
    /\ Attached(submitted, {}) => Attached(pod, Lacking)

\* What the agent's branch, with configuration c, would add to q is there.
AgentSteady(q, c) ==
    /\ Named(q.containers) = DOMAIN q.containers
    /\ \A i \in DOMAIN q.containers :
          /\ PodKeys(q.labels, c) \subseteq DOMAIN q.containers[i].env
          /\ \A j \in DOMAIN q.containers :
                j <= i => DOMAIN q.containers[j].env \subseteq DOMAIN q.containers[i].env
    /\ \A r \in c.rules : isMatch(r.matchLabels, q.labels) =>
          /\ DOMAIN r.envs \subseteq DOMAIN q.containers[First(q.containers)].env
          /\ DOMAIN r.labels \subseteq DOMAIN q.labels

HasSettings(q, data) ==
    /\ DOMAIN Collect(data, "environment") \subseteq DOMAIN q.containers[First(q.containers)].env
    /\ DOMAIN Collect(data, "label") \subseteq DOMAIN q.labels
    /\ DOMAIN Collect(data, "annotation") \subseteq DOMAIN q.annotations

\* Likewise for the branch of the sidecar.
SidecarSteady(q, c) ==
    /\ c.sidecar /\ injectIstioRequired(q) /\ ~Has(q.annotations, SidecarStatus)
    /\ c.cluster /\ Asks(q.labels) /\ c.settings # Nil
    => HasSettings(q, c.settings)

\* About the last admission, whatever has become of the pod and of the
\* configuration since: they may become again what they were.
PriorInv ==
    prior # Nil =>
        /\ prior.branch \in {"agent", "sidecar"}
        /\ prior.branch = "agent" => Equipped(prior.result, prior.config.default)
        /\ prior.labels = prior.result.labels /\ prior.places = DOMAIN prior.result.containers =>
              /\ prior.branch = "sidecar" <=> WantsSidecar(prior.labels)
              /\ prior.branch = "agent" => AgentSteady(prior.result, prior.config)
              /\ prior.branch = "sidecar" => SidecarSteady(prior.result, prior.config)

IInv == TypeOK /\ MountsInv /\ PriorInv

-----------------------------------------------------------------------------
(* What the branches of injectionPod make of a pod. *)

Preserves(new, old) ==
    /\ Extends(new.labels, old.labels) /\ Extends(new.annotations, old.annotations)
    /\ old.volumes \subseteq new.volumes
    /\ Extends(new.inits, old.inits)
    /\ \A i \in Named(old.containers) : Keeps(new.containers, old.containers, i)

LEMMA PreservesItself == \A p : Preserves(p, p)
BY ExtendsItself DEF Preserves, Keeps, Named

LEMMA KeepsTransitive ==
    ASSUME NEW f, NEW g, NEW h, NEW i, Keeps(f, g, i), Keeps(g, h, i)
    PROVE  Keeps(f, h, i)
<1>1. Extends(f[i].env, h[i].env)
  BY ExtendsTransitive DEF Keeps
<1> QED
  BY <1>1 DEF Keeps

\* The parts of Equipped that the branch takes care of itself.
Armed(p, agent) ==
    /\ HasInitContainer(p.inits)
    /\ AgentVolume \in p.volumes
    /\ \A i \in DOMAIN p.containers :
          /\ AgentVolume \in p.containers[i].mounts
          /\ DOMAIN agent.envs \subseteq DOMAIN p.containers[i].env

LEMMA AgentBranch ==
    ASSUME NEW p, IsPod(p), p.owner \in STRING, DOMAIN p.containers # {},
           config \in Configs,
           ~(config.default = Nil /\ (~HasInitContainer(p.inits) \/ Named(p.containers) # {})),
           NEW rule \in matchRule(p.labels), NEW zones \in config.zones, NEW order \in EnvOrders,
           NEW new, new = injectAgent(p, rule, makePodEnvs(p.labels, zones), order)
    PROVE  /\ IsPod(new) /\ new.owner = p.owner /\ Preserves(new, p)
           /\ Armed(new, config.default)
           /\ AgentVolume \in p.volumes \/ ConfigVolume(p.owner) \in new.volumes
           /\ AgentVolume \in p.volumes => new.volumes = p.volumes
           /\ DOMAIN new.containers \subseteq DOMAIN p.containers
           /\ \A i \in DOMAIN new.containers :
                 /\ new.containers[i].name = p.containers[i].name
                 /\ new.containers[i].mounts = addMounts(p.containers[i].mounts, p.owner)
           /\ \A others :
                 /\ Attached(p, others)
                 /\ AgentVolume \in p.volumes => ConfigVolume(p.owner) \in p.volumes \cup others
                 => Attached(new, others)
           /\ p.labels = new.labels /\ DOMAIN p.containers = DOMAIN new.containers
              => AgentSteady(new, config)
<1> DEFINE envs == makePodEnvs(p.labels, zones)
           cs == p.containers
<1>1. PICK e : e = Enhance(p, rule)
  OBVIOUS
<1>2. /\ IsFunction(new) /\ DOMAIN new = Fields
      /\ new.inits = addPodInitContainer(e)
      /\ new.containers = modifyPodContainer(e, envs)
      /\ new.volumes = addPodVolume(e) /\ new.order = order
      /\ new.labels = e.labels /\ new.annotations = p.annotations /\ new.owner = p.owner
      /\ e.containers = AddToFirst(cs, rule.envs)
      /\ e.labels = p.labels ++ rule.labels
      /\ e.annotations = p.annotations /\ e.inits = p.inits
      /\ e.volumes = p.volumes /\ e.owner = p.owner
  BY <1>1, InjectedFields
<1>3. /\ IsMap(rule.envs) /\ IsMap(rule.labels)
      /\ \A k : k \in DOMAIN rule.envs <=> \E r \in Matching(p.labels) : k \in DOMAIN r.envs
      /\ \A k : k \in DOMAIN rule.labels <=> \E r \in Matching(p.labels) : k \in DOMAIN r.labels
  BY MatchRuleType
<1>4. IsEnv(envs) /\ DOMAIN envs = PodKeys(p.labels, config)
  BY ConfigsAssumption, PodEnvsType DEF IsConfig, IsPod
<1> HIDE DEF envs
<1>5. IsContainers(cs)
  BY DEF IsPod, IsContainers
<1>6. PICK es : es = e.containers
  OBVIOUS
<1>7. /\ IsContainers(es) /\ DOMAIN es = DOMAIN cs
      /\ \A i \in DOMAIN cs : Keeps(es, cs, i) /\ es[i].mounts = cs[i].mounts
      /\ DOMAIN rule.envs \subseteq DOMAIN es[First(cs)].env
  BY <1>2, <1>3, <1>5, <1>6, AddToFirstFields
<1>8. Named(es) = Named(cs)
  BY <1>7 DEF Named, Keeps
<1>9. Named(es) # {} => IsEnv(config.default.envs)
  BY <1>8, ConfigsAssumption DEF IsConfig
<1>10. PICK ns : ns = new.containers
  OBVIOUS
<1>11. /\ IsContainers(ns) /\ DOMAIN ns = Named(cs)
       /\ \A i \in Named(cs) :
             /\ Keeps(ns, es, i)
             /\ ns[i].name # ""
             /\ ns[i].mounts = addMounts(es[i].mounts, p.owner)
             /\ \A k : k \in DOMAIN ns[i].env <=>
                   \/ \E j \in Named(cs) : j <= i /\ k \in DOMAIN es[j].env
                   \/ k \in DOMAIN envs \/ k \in DOMAIN config.default.envs
  <2>1. IsContainers(e.containers) /\ e.owner \in STRING
        /\ (Named(e.containers) # {} => IsEnv(config.default.envs))
    BY <1>2, <1>6, <1>7, <1>9
  <2>2. PICK m : m = modifyPodContainer(e, envs)
    OBVIOUS
  <2>3. /\ IsContainers(m) /\ DOMAIN m = Named(e.containers)
        /\ \A i \in Named(e.containers) :
              /\ Keeps(m, e.containers, i)
              /\ m[i].name # ""
              /\ m[i].mounts = addMounts(e.containers[i].mounts, e.owner)
              /\ \A k : k \in DOMAIN m[i].env <=>
                    \/ \E j \in Named(e.containers) : j <= i /\ k \in DOMAIN e.containers[j].env
                    \/ k \in DOMAIN envs \/ k \in DOMAIN config.default.envs
    BY <1>4, <2>1, <2>2, ModifyFields
  <2>4. m = ns /\ e.containers = es /\ e.owner = p.owner
    BY <1>2, <1>6, <1>10, <2>2
  <2> QED
    BY <1>8, <2>3, <2>4
<1>12. IsMap(new.labels) /\ Extends(new.labels, p.labels)
       /\ DOMAIN rule.labels \subseteq DOMAIN new.labels
  <2>1. new.labels = p.labels ++ rule.labels
    BY <1>2
  <2>2. IsMap(p.labels)
    BY DEF IsPod
  <2>3. IsMap(p.labels ++ rule.labels)
    BY <1>3, <2>2, OverlayIsMap
  <2>4. Extends(p.labels ++ rule.labels, p.labels)
    BY OverlayExtends
  <2>5. DOMAIN rule.labels \subseteq DOMAIN (p.labels ++ rule.labels)
    BY OverlayDomain
  <2> QED
    BY <2>1, <2>3, <2>4, <2>5
<1>13. /\ IsSequence(new.inits) /\ \A i \in DOMAIN new.inits : IsInitContainer(new.inits[i])
       /\ Extends(new.inits, p.inits)
       /\ HasInitContainer(new.inits)
       /\ \A i \in DOMAIN new.inits :
             \/ i \in DOMAIN p.inits /\ new.inits[i] = p.inits[i]
             \/ new.inits[i].mounts = Mounts(p.owner)
  <2>1. /\ IsContainers(e.containers) /\ e.owner \in STRING /\ IsMap(e.labels)
        /\ IsSequence(e.inits) /\ \A i \in DOMAIN e.inits : IsInitContainer(e.inits[i])
        /\ ~HasInitContainer(e.inits) => config.default # Nil
    BY <1>2, <1>6, <1>7, <1>12 DEF IsPod
  <2> QED
    BY <1>2, <2>1, InitsFields
<1>14. /\ new.volumes \subseteq Seq(STRING) /\ p.volumes \subseteq new.volumes
       /\ AgentVolume \in new.volumes
       /\ AgentVolume \in p.volumes => new.volumes = p.volumes
       /\ AgentVolume \notin p.volumes => Mounts(p.owner) \subseteq new.volumes
  <2>1. e.owner \in STRING /\ e.volumes \subseteq Seq(STRING)
    BY <1>2 DEF IsPod
  <2> QED
    BY <1>2, <2>1, VolumesFields
<1>15. IsPod(new)
  BY <1>2, <1>10, <1>11, <1>12, <1>13, <1>14 DEF IsPod, IsContainers
<1>16. \A i \in Named(cs) : Keeps(ns, cs, i)
  BY <1>7, <1>11, KeepsTransitive DEF Named
<1>17. Preserves(new, p)
  BY <1>2, <1>10, <1>12, <1>13, <1>14, <1>16, ExtendsItself DEF Preserves
<1>18. Armed(new, config.default)
  <2>1. ASSUME NEW i \in DOMAIN ns
        PROVE  AgentVolume \in ns[i].mounts /\ DOMAIN config.default.envs \subseteq DOMAIN ns[i].env
    BY <1>11, MountsType DEF addMounts
  <2> QED
    BY <1>10, <1>13, <1>14, <2>1 DEF Armed
<1>m. ASSUME NEW i \in DOMAIN ns
      PROVE  i \in DOMAIN cs /\ ns[i].name = cs[i].name
             /\ ns[i].mounts = addMounts(cs[i].mounts, p.owner)
  BY <1>7, <1>11 DEF Named, Keeps
<1>v. AgentVolume \in p.volumes \/ ConfigVolume(p.owner) \in new.volumes
  BY <1>14, MountsType
<1>19. ASSUME NEW others, Attached(p, others),
              AgentVolume \in p.volumes => ConfigVolume(p.owner) \in p.volumes \cup others
       PROVE  Attached(new, others)
  <2>1. Mounts(p.owner) \subseteq new.volumes \cup others
    BY <1>14, <1>19 DEF Mounts
  <2>2. \A i \in DOMAIN ns : ns[i].mounts \subseteq new.volumes \cup others
    <3> TAKE i \in DOMAIN ns
    <3>1. ns[i].mounts \subseteq cs[i].mounts \cup Mounts(p.owner) /\ i \in DOMAIN cs
      BY <1>m DEF addMounts
    <3> QED
      BY <1>14, <1>19, <2>1, <3>1 DEF Attached
  <2>3. \A i \in DOMAIN new.inits : new.inits[i].mounts \subseteq new.volumes \cup others
    BY <1>13, <1>14, <1>19, <2>1 DEF Attached
  <2> QED
    BY <1>10, <2>2, <2>3 DEF Attached
<1>20. ASSUME p.labels = new.labels, DOMAIN p.containers = DOMAIN new.containers
       PROVE  AgentSteady(new, config)
  <2>1. DOMAIN ns = DOMAIN cs /\ Named(ns) = DOMAIN ns /\ Named(cs) = DOMAIN cs
    BY <1>10, <1>11, <1>20 DEF Named
  <2>2. \A i \in DOMAIN ns : PodKeys(new.labels, config) \subseteq DOMAIN ns[i].env
    BY <1>4, <1>11, <1>20
  <2>3. ASSUME NEW i \in DOMAIN ns, NEW j \in DOMAIN ns, j <= i, NEW k \in DOMAIN ns[j].env
        PROVE  k \in DOMAIN ns[i].env
    <3>1. i \in Nat /\ j \in Nat /\ \A m \in DOMAIN ns : m \in Nat
      <4>1. DOMAIN ns \subseteq 1..MaxContainers
        BY <1>11 DEF IsContainers, Places
      <4> QED
        BY <2>3, <4>1, PodsAssumption
    <3>2. \A m \in Named(cs) : m <= j => m <= i
      <4> TAKE m \in Named(cs)
      <4>1. m \in Nat
        BY <1>11, <3>1
      <4> QED
        BY <2>3, <3>1, <4>1
    <3> QED
      BY <1>11, <2>3, <3>2
  <2>4. First(ns) \in DOMAIN ns /\ First(ns) = First(cs)
    BY <1>5, <2>1, MinPlace DEF First, IsContainers
  <2>5. DOMAIN rule.envs \subseteq DOMAIN ns[First(ns)].env
    <3>1. Keeps(ns, es, First(ns))
      BY <1>11, <2>4
    <3> QED
      BY <1>7, <2>4, <3>1 DEF Keeps, Extends, Has
  <2>6. ASSUME NEW r \in config.rules, isMatch(r.matchLabels, new.labels)
        PROVE  DOMAIN r.envs \subseteq DOMAIN ns[First(ns)].env /\ DOMAIN r.labels \subseteq DOMAIN new.labels
    <3>1. r \in Matching(p.labels)
      BY <1>20, <2>6 DEF Matching
    <3> QED
      BY <1>3, <1>12, <2>5, <3>1
  <2> QED
    BY <1>10, <2>1, <2>2, <2>3, <2>6 DEF AgentSteady
<1> QED
  BY <1>2, <1>10, <1>14, <1>15, <1>17, <1>18, <1>19, <1>20, <1>m, <1>v

LEMMA SamePod ==
    ASSUME NEW p, IsPod(p), NEW new, IsFunction(new), DOMAIN new = Fields,
           new.labels = p.labels, new.annotations = p.annotations, new.inits = p.inits,
           new.containers = p.containers, new.volumes = p.volumes, new.owner = p.owner
    PROVE  /\ \A f \in Fields \ {"order"} : new[f] = p[f]
           /\ new.order = p.order => new = p
<1>1. IsFunction(p) /\ DOMAIN p = Fields
  BY DEF IsPod
<1>2. \A f \in Fields \ {"order"} : new[f] = p[f]
  BY DEF Fields
<1>3. ASSUME new.order = p.order PROVE new = p
  <2>1. \A f \in Fields : new[f] = p[f]
    BY <1>2, <1>3 DEF Fields
  <2> QED
    BY <1>1, <2>1 DEF IsFunction
<1> QED
  BY <1>2, <1>3

\* The agent's branch makes nothing of a pod that has everything, but for the order
\* of the variables.
LEMMA AgentTwice ==
    ASSUME NEW p, IsPod(p), DOMAIN p.containers # {}, config \in Configs,
           Equipped(p, config.default), AgentSteady(p, config),
           NEW rule \in matchRule(p.labels), NEW zones \in config.zones, NEW order,
           NEW f \in Fields \ {"order"}
    PROVE  injectAgent(p, rule, makePodEnvs(p.labels, zones), order)[f] = p[f]
<1> DEFINE envs == makePodEnvs(p.labels, zones)
           cs == p.containers
<1>1. PICK e, new : e = Enhance(p, rule) /\ new = injectAgent(p, rule, envs, order)
  OBVIOUS
<1>2. /\ IsFunction(new) /\ DOMAIN new = Fields
      /\ new.inits = addPodInitContainer(e)
      /\ new.containers = modifyPodContainer(e, envs)
      /\ new.volumes = addPodVolume(e) /\ new.order = order
      /\ new.labels = e.labels /\ new.annotations = p.annotations /\ new.owner = p.owner
      /\ e.containers = AddToFirst(cs, rule.envs)
      /\ e.labels = p.labels ++ rule.labels
      /\ e.inits = p.inits /\ e.volumes = p.volumes
  BY <1>1, InjectedFields
<1>3. /\ \A k : k \in DOMAIN rule.envs <=> \E r \in Matching(p.labels) : k \in DOMAIN r.envs
      /\ \A k : k \in DOMAIN rule.labels <=> \E r \in Matching(p.labels) : k \in DOMAIN r.labels
  BY MatchRuleType
<1>4. DOMAIN rule.envs \subseteq DOMAIN cs[First(cs)].env /\ DOMAIN rule.labels \subseteq DOMAIN p.labels
  BY <1>3 DEF AgentSteady, Matching
<1>5. DOMAIN envs = PodKeys(p.labels, config)
  BY ConfigsAssumption, PodEnvsType DEF IsConfig, IsPod
<1> HIDE DEF envs
<1>6. IsContainers(cs)
  BY DEF IsPod, IsContainers
<1>7. e.containers = cs
  BY <1>2, <1>4, <1>6, AddToFirstNothing
<1>8. e.labels = p.labels
  <2>1. IsFunction(p.labels)
    BY DEF IsPod, IsMap
  <2> QED
    BY <1>2, <1>4, <2>1, OverlayBelow
<1>9. new.inits = p.inits
  BY <1>2 DEF addPodInitContainer, Equipped
<1>10. new.volumes = p.volumes
  BY <1>2 DEF addPodVolume, Equipped
<1>11. new.containers = cs
  <2>1. /\ IsContainers(e.containers) /\ Named(e.containers) = DOMAIN e.containers
        /\ \A i \in DOMAIN e.containers :
              /\ AgentVolume \in e.containers[i].mounts
              /\ DOMAIN envs \subseteq DOMAIN e.containers[i].env
              /\ DOMAIN config.default.envs \subseteq DOMAIN e.containers[i].env
              /\ \A j \in DOMAIN e.containers :
                    j <= i => DOMAIN e.containers[j].env \subseteq DOMAIN e.containers[i].env
    BY <1>5, <1>6, <1>7 DEF AgentSteady, Equipped
  <2>2. modifyPodContainer(e, envs) = e.containers
    BY <2>1, ModifyNothing
  <2> QED
    BY <1>2, <1>7, <2>2
<1>12. new[f] = p[f]
  BY <1>2, <1>8, <1>9, <1>10, <1>11, SamePod
<1> QED
  BY <1>1, <1>12 DEF envs

LEMMA SettingsType ==
    ASSUME NEW p, config \in Configs, GetSidecarConfig(p) # Nil, NEW type
    PROVE  IsMap(Collect(GetSidecarConfig(p), type))
<1>1. CASE config.cluster /\ Asks(p.labels)
  <2>1. GetSidecarConfig(p) = config.settings /\ config.settings # Nil
    BY <1>1 DEF GetSidecarConfig
  <2>2. IsSequence(config.settings) /\ \A i \in DOMAIN config.settings : IsMap(config.settings[i])
    BY <2>1, ConfigsAssumption DEF IsConfig
  <2> QED
    BY <2>1, <2>2, CollectIsMap
<1>2. CASE ~(config.cluster /\ Asks(p.labels))
  <2>1. GetSidecarConfig(p) = <<>>
    BY <1>2 DEF GetSidecarConfig
  <2> QED
    BY <2>1, CollectNothing
<1> QED
  BY <1>1, <1>2

LEMMA SidecarBranch ==
    ASSUME NEW p, IsPod(p), DOMAIN p.containers # {}, config \in Configs,
           NEW order \in EnvOrders, NEW new, new = injectSidecarOption(p, order)
    PROVE  /\ IsPod(new) /\ new.owner = p.owner /\ Preserves(new, p)
           /\ new.volumes = p.volumes /\ new.inits = p.inits
           /\ DOMAIN new.containers = DOMAIN p.containers
           /\ \A i \in DOMAIN p.containers :
                 /\ new.containers[i].name = p.containers[i].name
                 /\ new.containers[i].mounts = p.containers[i].mounts
           /\ p.labels = new.labels => SidecarSteady(new, config)
<1> DEFINE data == GetSidecarConfig(p)
           wanted == /\ config.sidecar /\ injectIstioRequired(p)
                     /\ ~Has(p.annotations, SidecarStatus) /\ data # Nil
<1>1. CASE ~wanted
  <2>1. new = p
    BY <1>1 DEF injectSidecarOption
  <2>2. SidecarSteady(p, config)
    BY <1>1 DEF SidecarSteady, GetSidecarConfig
  <2> QED
    BY <2>1, <2>2, PreservesItself
<1>2. CASE wanted
  <2>1. new = AddPodConfigs(p, data, order)
    BY <1>2 DEF injectSidecarOption
  <2>2. PICK envs, labels, annotations :
          /\ envs = Collect(data, "environment") /\ labels = Collect(data, "label")
          /\ annotations = Collect(data, "annotation")
    OBVIOUS
  <2>3. IsMap(envs) /\ IsMap(labels) /\ IsMap(annotations)
    BY <1>2, <2>2, SettingsType
  <2>4. /\ IsFunction(new) /\ DOMAIN new = Fields
        /\ new.containers = AddToFirst(p.containers, envs)
        /\ new.order \in {p.order, order}
        /\ new.labels = p.labels ++ labels
        /\ new.annotations = p.annotations ++ annotations
        /\ new.inits = p.inits /\ new.volumes = p.volumes /\ new.owner = p.owner
    BY <2>1, <2>2, ConfiguredFields
  <2>5. IsContainers(p.containers) /\ IsMap(p.labels) /\ IsMap(p.annotations)
    BY DEF IsPod, IsContainers
  <2>6. PICK ns : ns = new.containers
    OBVIOUS
  <2>7. /\ IsContainers(ns) /\ DOMAIN ns = DOMAIN p.containers
        /\ \A i \in DOMAIN p.containers : Keeps(ns, p.containers, i) /\ ns[i].mounts = p.containers[i].mounts
        /\ DOMAIN envs \subseteq DOMAIN ns[First(p.containers)].env
    BY <2>3, <2>4, <2>5, <2>6, AddToFirstFields
  <2>8. /\ IsMap(new.labels) /\ Extends(new.labels, p.labels)
        /\ DOMAIN labels \subseteq DOMAIN new.labels
    <3>1. IsMap(p.labels ++ labels) /\ Extends(p.labels ++ labels, p.labels)
      BY <2>3, <2>5, OverlayIsMap, OverlayExtends
    <3>2. DOMAIN labels \subseteq DOMAIN (p.labels ++ labels)
      BY OverlayDomain
    <3> QED
      BY <2>4, <3>1, <3>2
  <2>9. /\ IsMap(new.annotations) /\ Extends(new.annotations, p.annotations)
        /\ DOMAIN annotations \subseteq DOMAIN new.annotations
    <3>1. IsMap(p.annotations ++ annotations) /\ Extends(p.annotations ++ annotations, p.annotations)
      BY <2>3, <2>5, OverlayIsMap, OverlayExtends
    <3>2. DOMAIN annotations \subseteq DOMAIN (p.annotations ++ annotations)
      BY OverlayDomain
    <3> QED
      BY <2>4, <3>1, <3>2
  <2>10. IsPod(new)
    BY <2>4, <2>6, <2>7, <2>8, <2>9 DEF IsPod, IsContainers
  <2>11. Preserves(new, p)
    BY <2>4, <2>6, <2>7, <2>8, <2>9, ExtendsItself DEF Preserves, Named
  <2>12. ASSUME p.labels = new.labels PROVE SidecarSteady(new, config)
    <3>1. First(ns) = First(p.containers)
      BY <2>7 DEF First
    <3>2. HasSettings(new, data)
      BY <2>2, <2>6, <2>7, <2>8, <2>9, <3>1 DEF HasSettings
    <3>3. config.cluster /\ Asks(p.labels) => data = config.settings
      BY DEF GetSidecarConfig
    <3> HIDE DEF data
    <3> QED
      BY <2>12, <3>2, <3>3 DEF SidecarSteady
  <2> QED
    BY <2>4, <2>6, <2>7, <2>10, <2>11, <2>12 DEF Keeps
<1> QED
  BY <1>1, <1>2

\* Nor does the sidecar's.
LEMMA SidecarTwice ==
    ASSUME NEW p, IsPod(p), DOMAIN p.containers # {}, config \in Configs, SidecarSteady(p, config),
           NEW order
    PROVE  injectSidecarOption(p, order) = p
<1> DEFINE data == GetSidecarConfig(p)
<1>1. CASE /\ config.sidecar /\ injectIstioRequired(p)
           /\ ~Has(p.annotations, SidecarStatus) /\ data # Nil
  <2>1. HasSettings(p, data)
    <3>1. CASE config.cluster /\ Asks(p.labels)
      BY <1>1, <3>1 DEF SidecarSteady, GetSidecarConfig
    <3>2. CASE ~(config.cluster /\ Asks(p.labels))
      <4>1. data = <<>>
        BY <3>2 DEF GetSidecarConfig
      <4> QED
        BY <4>1, CollectNothing DEF HasSettings
    <3> QED
      BY <3>1, <3>2
  <2>2. PICK new : new = AddPodConfigs(p, data, order)
    OBVIOUS
  <2>3. /\ IsFunction(new) /\ DOMAIN new = Fields
        /\ new.containers = AddToFirst(p.containers, Collect(data, "environment"))
        /\ new.order = IF new.containers = p.containers THEN p.order ELSE order
        /\ new.labels = p.labels ++ Collect(data, "label")
        /\ new.annotations = p.annotations ++ Collect(data, "annotation")
        /\ new.inits = p.inits /\ new.volumes = p.volumes /\ new.owner = p.owner
    BY <2>2, ConfiguredFields
  <2>4. IsContainers(p.containers) /\ IsFunction(p.labels) /\ IsFunction(p.annotations)
    BY DEF IsPod, IsContainers, IsMap
  <2>5. new.containers = p.containers
    BY <2>1, <2>3, <2>4, AddToFirstNothing DEF HasSettings
  <2>6. new.labels = p.labels /\ new.annotations = p.annotations
    BY <2>1, <2>3, <2>4, OverlayBelow DEF HasSettings
  <2>7. new = p
    BY <2>3, <2>5, <2>6, SamePod
  <2> QED
    BY <1>1, <2>2, <2>7 DEF injectSidecarOption
<1> QED
  BY <1>1 DEF injectSidecarOption

-----------------------------------------------------------------------------
(* The steps. *)

\* What Settles asks of an admission of a pod that has settled.
Unmoved == Settled => /\ \A f \in Fields \ {"order"} : pod'[f] = pod[f]
                      /\ prior.branch = "sidecar" => pod' = pod

LEMMA SidecarStep ==
    ASSUME IInv, InjectSidecar, UNCHANGED submitted, admissions' \in 0..MaxAdmissions
    PROVE  IInv' /\ Preserves(pod', pod) /\ Unmoved
<1>1. /\ IsPod(pod) /\ config \in Configs /\ DOMAIN pod.containers # {}
      /\ WantsSidecar(pod.labels) /\ config' = config /\ verdict' = "allowed"
  BY DEF InjectSidecar, Enhanceable, Answer, IInv, TypeOK
<1>o. PICK order \in EnvOrders : pod' = injectSidecarOption(pod, order)
  BY DEF InjectSidecar
<1>2. /\ IsPod(pod') /\ pod'.owner = pod.owner /\ Preserves(pod', pod)
      /\ pod'.volumes = pod.volumes /\ pod'.inits = pod.inits
      /\ DOMAIN pod'.containers = DOMAIN pod.containers
      /\ \A i \in DOMAIN pod.containers :
            /\ pod'.containers[i].name = pod.containers[i].name
            /\ pod'.containers[i].mounts = pod.containers[i].mounts
      /\ pod.labels = pod'.labels => SidecarSteady(pod', config)
  BY <1>1, <1>o, SidecarBranch
<1>3. prior' = [labels |-> pod.labels, places |-> DOMAIN pod.containers, config |-> config,
                branch |-> "sidecar", result |-> pod']
  BY DEF InjectSidecar, Remember
<1>4. TypeOK'
  BY <1>1, <1>2 DEF IInv, TypeOK
<1>5. MountsInv'
  BY <1>2 DEF IInv, MountsInv, VolumesInv, ContainersInv, Mounted, Attached, Lacking
<1>6. PriorInv'
  BY <1>1, <1>2, <1>3 DEF PriorInv
<1>7. ASSUME Settled PROVE pod' = pod
  <2>1. SidecarSteady(pod, config)
    BY <1>1, <1>7 DEF Settled, IInv, PriorInv
  <2> QED
    BY <1>1, <1>o, <2>1, SidecarTwice
<1> QED
  BY <1>2, <1>4, <1>5, <1>6, <1>7 DEF IInv, Unmoved

LEMMA AgentStep ==
    ASSUME IInv, InjectAgent, UNCHANGED submitted, admissions' \in 0..MaxAdmissions
    PROVE  IInv' /\ Preserves(pod', pod) /\ Unmoved
<1>1. /\ IsPod(pod) /\ config \in Configs /\ DOMAIN pod.containers # {} /\ pod.owner \in STRING
      /\ ~(config.default = Nil /\ (~HasInitContainer(pod.inits) \/ Named(pod.containers) # {}))
      /\ ~WantsSidecar(pod.labels)
      /\ config' = config /\ verdict' = "allowed"
  BY DEF InjectAgent, Enhanceable, GetDeploymentNameFails, Dereferences, Answer, IInv, TypeOK, IsPod
<1>2. PICK rule \in matchRule(pod.labels), zones \in config.zones, order \in EnvOrders :
          pod' = injectAgent(pod, rule, makePodEnvs(pod.labels, zones), order)
  BY DEF InjectAgent
<1>3. /\ IsPod(pod') /\ pod'.owner = pod.owner /\ Preserves(pod', pod)
      /\ Armed(pod', config.default)
      /\ AgentVolume \in pod.volumes \/ ConfigVolume(pod.owner) \in pod'.volumes
      /\ AgentVolume \in pod.volumes => pod'.volumes = pod.volumes
      /\ DOMAIN pod'.containers \subseteq DOMAIN pod.containers
      /\ \A i \in DOMAIN pod'.containers :
            /\ pod'.containers[i].name = pod.containers[i].name
            /\ pod'.containers[i].mounts = addMounts(pod.containers[i].mounts, pod.owner)
      /\ \A others :
            /\ Attached(pod, others)
            /\ AgentVolume \in pod.volumes => ConfigVolume(pod.owner) \in pod.volumes \cup others
            => Attached(pod', others)
      /\ pod.labels = pod'.labels /\ DOMAIN pod.containers = DOMAIN pod'.containers
         => AgentSteady(pod', config)
  BY <1>1, <1>2, AgentBranch
<1>4. prior' = [labels |-> pod.labels, places |-> DOMAIN pod.containers, config |-> config,
                branch |-> "agent", result |-> pod']
  BY DEF InjectAgent, Remember
<1>5. TypeOK'
  BY <1>1, <1>3 DEF IInv, TypeOK
<1>6. MountsInv'
  <2>1. VolumesInv'
    BY <1>3 DEF IInv, MountsInv, VolumesInv
  <2>2. ContainersInv'
    <3> SUFFICES ASSUME NEW i \in DOMAIN pod'.containers
                 PROVE  \/ Mounted(pod.containers[i]) /\ pod'.containers[i].name = pod.containers[i].name
                        \/ ConfigVolume(pod.owner) \in pod'.containers[i].mounts
      BY <1>3 DEF ContainersInv, Mounted
    <3>1. ConfigVolume(pod.owner) \in Mounts(pod.owner)
      BY <1>1, MountsType
    <3> QED
      BY <1>3, <3>1 DEF IInv, MountsInv, ContainersInv, addMounts
  <2>3. ASSUME Attached(submitted, {}) PROVE Attached(pod', Lacking)
    <3>1. Attached(pod, Lacking)
      BY <2>3 DEF IInv, MountsInv
    <3>2. AgentVolume \in pod.volumes => ConfigVolume(pod.owner) \in pod.volumes \cup Lacking
      BY DEF IInv, MountsInv, VolumesInv, Lacking
    <3> QED
      BY <1>3, <3>1, <3>2
  <2>4. Lacking' = Lacking
    BY <1>3 DEF Lacking
  <2> QED
    BY <2>1, <2>2, <2>3, <2>4 DEF MountsInv
<1>7. Equipped(pod, config.default)'
  BY <1>1, <1>3, <1>6 DEF MountsInv, VolumesInv, ContainersInv, Armed, Equipped
<1>8. PriorInv'
  BY <1>1, <1>3, <1>4, <1>7 DEF PriorInv
<1>9. ASSUME Settled PROVE \A f \in Fields \ {"order"} : pod'[f] = pod[f]
  <2>1. Equipped(pod, config.default) /\ AgentSteady(pod, config)
    BY <1>1, <1>9 DEF Settled, IInv, PriorInv
  <2>2. ASSUME NEW f \in Fields \ {"order"}
        PROVE  injectAgent(pod, rule, makePodEnvs(pod.labels, zones), order)[f] = pod[f]
    <3> QED
      BY ONLY <1>1, <2>1, rule \in matchRule(pod.labels), zones \in config.zones,
              f \in Fields \ {"order"}, AgentTwice
  <2> QED
    BY <1>2, <2>2
<1>10. Settled => prior.branch # "sidecar"
  BY <1>1 DEF Settled, IInv, PriorInv
<1> QED
  BY <1>3, <1>5, <1>6, <1>8, <1>9, <1>10 DEF IInv, Unmoved

LEMMA AdmissionStep ==
    ASSUME IInv, injectionPod
    PROVE  IInv' /\ Preserves(pod', pod) /\ Unmoved
<1>1. UNCHANGED submitted /\ admissions' \in 0..MaxAdmissions
  BY PodsAssumption DEF injectionPod, IInv, TypeOK
<1>2. CASE LetThrough \/ Deny \/ Panic
  <2>1. UNCHANGED <<pod, config, prior>> /\ verdict' \in {"allowed", "denied", "panic"}
    BY <1>2 DEF LetThrough, Deny, Panic, Answer
  <2> QED
    BY <1>1, <2>1, PreservesItself
       DEF IInv, TypeOK, MountsInv, VolumesInv, ContainersInv, Mounted, Lacking, PriorInv, Equipped,
           Unmoved
<1>3. CASE InjectSidecar
  BY <1>1, <1>3, SidecarStep
<1>4. CASE InjectAgent
  BY <1>1, <1>4, AgentStep
<1> QED
  BY <1>2, <1>3, <1>4 DEF injectionPod

LEMMA AddContainerStep ==
    ASSUME IInv, AddContainer
    PROVE  IInv' /\ Preserves(pod', pod)
<1>1. PICK c \in Extras, place \in Places \ DOMAIN pod.containers :
        /\ c.mounts \subseteq pod.volumes
        /\ pod' = [pod EXCEPT !.containers = pod.containers ++ Only(place, c)]
  BY DEF AddContainer
<1>2. PICK cs, ns : cs = pod.containers /\ ns = cs ++ Only(place, c)
  OBVIOUS
<1>3. IsPod(pod) /\ IsContainers(cs) /\ IsContainer(c)
  BY <1>2, PodsAssumption DEF IInv, TypeOK, IsPod, IsContainers
<1>4. /\ IsFunction(ns) /\ DOMAIN ns = DOMAIN cs \cup {place}
      /\ \A i \in DOMAIN cs : ns[i] = cs[i]
      /\ ns[place] = c
  <2>1. DOMAIN Only(place, c) = {place} /\ Only(place, c)[place] = c
    BY SingleDomain
  <2>2. Extends(ns, cs) /\ (place \notin DOMAIN cs => ns[place] = c)
    BY <1>2, <2>1, OverlayExtends
  <2> QED
    BY <1>2, <2>1, <2>2, OverlayFunction, OverlayDomain DEF Extends
<1>5. IsContainers(ns)
  BY <1>3, <1>4 DEF IsContainers
<1>6. pod' = [pod EXCEPT !.containers = ns]
  BY <1>1, <1>2
<1>7. /\ IsFunction(pod') /\ DOMAIN pod' = Fields /\ pod'.containers = ns
      /\ \A f \in Fields \ {"containers"} : pod'[f] = pod[f]
  BY <1>3, <1>6 DEF IsPod, Fields, IsFunction
<1>8. /\ pod'.labels = pod.labels /\ pod'.annotations = pod.annotations /\ pod'.inits = pod.inits
      /\ pod'.volumes = pod.volumes /\ pod'.owner = pod.owner /\ pod'.order = pod.order
  BY <1>7 DEF Fields
<1>9. IsPod(pod')
  BY <1>3, <1>5, <1>7, <1>8 DEF IsPod, IsContainers
<1>10. Preserves(pod', pod)
  BY <1>2, <1>4, <1>7, <1>8, ExtendsItself DEF Preserves, Keeps, Named
<1>11. UNCHANGED <<config, verdict, prior, admissions, submitted>>
  BY DEF AddContainer
<1>12. MountsInv'
  <2>1. VolumesInv'
    BY <1>8, <1>11 DEF IInv, MountsInv, VolumesInv
  <2>2. ContainersInv'
    <3> SUFFICES ASSUME NEW i \in DOMAIN ns
                 PROVE  AgentVolume \in ns[i].mounts =>
                           Mounted(ns[i]) \/ ConfigVolume(pod.owner) \in ns[i].mounts
      BY <1>7, <1>8, <1>11 DEF ContainersInv, Mounted
    <3>1. CASE i \in DOMAIN cs
      BY <1>2, <1>4, <3>1 DEF IInv, MountsInv, ContainersInv
    <3>2. CASE i = place
      BY <1>4, <3>2 DEF Mounted
    <3> QED
      BY <1>4, <3>1, <3>2
  <2>3. Attached(pod, Lacking) => Attached(pod', Lacking)
    BY <1>1, <1>2, <1>4, <1>7, <1>8 DEF Attached
  <2>4. Lacking' = Lacking
    BY <1>8, <1>11 DEF Lacking
  <2> QED
    BY <1>11, <2>1, <2>2, <2>3, <2>4 DEF IInv, MountsInv
<1>13. PriorInv'
  BY <1>11 DEF IInv, PriorInv, Equipped, Mounted
<1> QED
  BY <1>8, <1>9, <1>10, <1>11, <1>12, <1>13 DEF IInv, TypeOK

LEMMA InitInv == Init => IInv
<1> SUFFICES ASSUME Init PROVE IInv
  OBVIOUS
<1>1. TypeOK /\ PriorInv
  BY PodsAssumption DEF Init, TypeOK, PriorInv
<1>2. MountsInv
  BY DEF Init, MountsInv, VolumesInv, ContainersInv, Mounted, Attached
<1> QED
  BY <1>1, <1>2 DEF IInv

LEMMA NextInv ==
    ASSUME IInv, [Next]_vars
    PROVE  IInv' /\ Preserves(pod', pod) /\ (admissions' # admissions => Unmoved)
<1>1. CASE injectionPod
  BY <1>1, AdmissionStep
<1>2. CASE AddContainer
  BY <1>2, AddContainerStep DEF AddContainer
<1>3. CASE Reconfigure
  BY <1>3, PreservesItself
     DEF Reconfigure, IInv, TypeOK, MountsInv, VolumesInv, ContainersInv, Mounted, Lacking,
         PriorInv, Equipped
<1>4. CASE UNCHANGED vars
  BY <1>4, PreservesItself
     DEF vars, IInv, TypeOK, MountsInv, VolumesInv, ContainersInv, Mounted, Lacking,
         PriorInv, Equipped
<1> QED
  BY <1>1, <1>2, <1>3, <1>4 DEF Next

LEMMA Invariance == Spec => []IInv
<1>1. IInv /\ [Next]_vars => IInv'
  BY NextInv
<1> QED
  BY <1>1, InitInv, PTL DEF Spec

-----------------------------------------------------------------------------
(* The theorems. *)

\* What is made of a pod is a pod, and its agent has a version there is, whatever
\* version the labels ask for.
THEOREM TypeCorrect == Spec => []TypeOK
<1>1. IInv => TypeOK
  BY DEF IInv
<1> QED
  BY <1>1, Invariance, PTL

\* A pod whose mounts resolve has only mounts that resolve after any number of
\* admissions, or, if it brought a volume of the agent's name, lacks no volume but
\* that of the configmap.
THEOREM MountsAreResolved == Spec => []MountsResolve
<1>1. IInv => MountsResolve
  <2> SUFFICES ASSUME IInv, Dangling(submitted) = {} PROVE Dangling(pod) \subseteq Lacking
    BY DEF MountsResolve, Lacking
  <2>1. Attached(submitted, {})
    BY DanglingAttached
  <2>2. Attached(pod, Lacking)
    BY <2>1 DEF IInv, MountsInv
  <2> QED
    BY <2>2, DanglingAttached
<1> QED
  BY <1>1, Invariance, PTL

\* In whatever state a pod comes to the agent's branch, it leaves it with the init
\* container, with the volumes and mounts of the agent and of the configmap, unless
\* it brought some of the agent's name, and with a variable of each of the agent's
\* names in every container. (Not with the agent's value: OptionsAdded is violated.)
THEOREM AgentIsComplete == Spec => []AgentComplete
<1>1. IInv => AgentComplete
  BY DEF IInv, PriorInv, AgentComplete
<1> QED
  BY <1>1, Invariance, PTL

\* Neither the injector nor another webhook's container takes away or changes a
\* label, an annotation, a volume, a mount or a variable of a container with a name.
THEOREM PodsPrevail == Spec => PodPrevails
<1>1. IInv /\ [Next]_vars =>
        [/\ Extends(pod'.labels, pod.labels)
         /\ Extends(pod'.annotations, pod.annotations)
         /\ pod.volumes \subseteq pod'.volumes
         /\ Extends(pod'.inits, pod.inits)
         /\ \A i \in Named(pod.containers) :
               /\ i \in DOMAIN pod'.containers
               /\ pod'.containers[i].name = pod.containers[i].name
               /\ Extends(pod'.containers[i].env, pod.containers[i].env)
               /\ pod.containers[i].mounts \subseteq pod'.containers[i].mounts
        ]_vars
  BY NextInv DEF Preserves, Keeps
<1> QED
  BY <1>1, Invariance, PTL DEF Spec, PodPrevails

\* An admission that added no label and dropped no container is a fixed point but
\* for the order of variables: with the same configuration the next one changes
\* nothing else, in whatever order the rules are merged, and although the
\* configuration was another one in between; with a sidecar it changes nothing.
THEOREM AdmittedSettles == Spec => Settles
<1>1. IInv /\ [Next]_vars =>
        [admissions' # admissions /\ Settled =>
            /\ \A f \in Fields \ {"order"} : pod'[f] = pod[f]
            /\ prior.branch = "sidecar" => pod' = pod]_vars
  BY NextInv DEF Unmoved
<1> QED
  BY <1>1, Invariance, PTL DEF Spec, Settles
=============================================================================
