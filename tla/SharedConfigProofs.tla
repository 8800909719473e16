------------------------- MODULE SharedConfigProofs -------------------------
(***************************************************************************)
(* Proofs about SharedConfig, for any number of requests, files, versions, *)
(* configmaps and revisions: what a request reads fits together, although  *)
(* nothing keeps the workers from writing between two of its reads.        *)
(***************************************************************************)
EXTENDS SharedConfig, TLAPS

-----------------------------------------------------------------------------
(* The inductive invariant. *)

OneRevision(m) == \A k, l \in Keys : m[k] # None /\ m[l] # None => m[k] = m[l]

\* The revisions that one map was filled from, and the values encoded from it.
Agree(m, s) == \A k, l \in Keys : m[k] # None /\ s[l] # None => m[k] = s[l]

\* The worker only touches the last map, and only with the newest revision.
Filling == worker \in {"fill", "strip"}
OfJob(m) == \A k \in Keys : m[k] \in {None, job.rev}

RevisionsInOrder ==
    /\ worker # "get" => job.rev = revisions
    /\ DefaultInjectorConfig <= revisions
    /\ \A c \in ConfigMapNames : InjectorConfigMaps[c] <= revisions

MapsOfOneRevision ==
    /\ DefaultInjectorConfigMap = Len(maps)
    /\ \A i \in DOMAIN maps : OneRevision(maps[i])
    /\ Filling => maps # <<>> /\ OfJob(maps[Len(maps)])

EncodedOf(r) ==
    /\ data[r].name = Nil => data[r].ref <= Len(maps)
    /\ pc[r] \in {"lookup", "choose", "send"} => sent[r] = Empty
    /\ pc[r] = "encode" =>
          /\ data[r].name = Nil
          /\ unsent[r] # {} => data[r].ref # None
          /\ OneRevision(sent[r])
          /\ data[r].ref # None => Agree(maps[data[r].ref], sent[r])
          /\ Filling /\ data[r].ref = Len(maps) => OfJob(sent[r])

EncodedOfOneRevision == \A r \in Requests : EncodedOf(r)

LookedUpAsPublished ==
    /\ \A v \in Versions : InjectorAgentVersion[v] # Nil =>
          InjectorAgentVersion[v] \in published /\ InjectorAgentVersion[v].version = v
    /\ \A r \in Requests :
          /\ pc[r] = "idle" => data[r].name = Nil
          /\ pc[r] \in {"choose", "podChoose"} =>
                spec[r] \in published /\ spec[r].version = asked[r]

IInv ==
    /\ TypeOK /\ RevisionsInOrder /\ MapsOfOneRevision /\ EncodedOfOneRevision
    /\ LookedUpAsPublished /\ FilesOfOneRevision /\ VersionAsPublished /\ AgentInOrder

-----------------------------------------------------------------------------
(* Lemmas. *)

\* A copy of a Go map with one key assigned is one.
LEMMA AssignedType ==
    ASSUME TypeOK, maps # <<>>, DefaultInjectorConfigMap = Len(maps),
           NEW k \in Keys, NEW v \in Revision, maps' = Assigned(k, v)
    PROVE  /\ maps' \in Seq(Contents) /\ Len(maps') = Len(maps) /\ Len(maps) \in Nat \ {0}
           /\ \A i \in DOMAIN maps : i # Len(maps) => maps'[i] = maps[i]
           /\ maps'[Len(maps)] = [maps[Len(maps)] EXCEPT ![k] = v]
           /\ DOMAIN maps' = DOMAIN maps /\ DOMAIN maps = 1..Len(maps)
<1> DEFINE n == Len(maps)
           m == [maps[n] EXCEPT ![k] = v]
<1>1. maps \in Seq(Contents) /\ n \in Nat /\ n # 0 /\ DOMAIN maps = 1..n
  BY DEF TypeOK
<1>2. maps[n] \in Contents
  BY <1>1
<1>3. m \in Contents
  BY <1>2 DEF Contents
<1>4. maps' = [maps EXCEPT ![n] = m]
  BY DEF Assigned
<1> HIDE DEF m
<1>5. maps' \in Seq(Contents) /\ DOMAIN maps' = DOMAIN maps /\ Len(maps') = n
  BY <1>1, <1>3, <1>4
<1>6. maps'[n] = m /\ \A i \in DOMAIN maps : i # n => maps'[i] = maps[i]
  BY <1>1, <1>4
<1> QED
  BY <1>1, <1>5, <1>6 DEF m

LEMMA TableStep ==
    ASSUME TypeOK, LookedUpAsPublished, AgentVersions
    PROVE  /\ published' \in SUBSET AgentVersionSpec /\ published \subseteq published'
           /\ InjectorAgentVersion' \in [Versions -> AgentVersionSpec \cup {Nil}]
           /\ \A v \in Versions : InjectorAgentVersion'[v] # Nil =>
                 InjectorAgentVersion'[v] \in published' /\ InjectorAgentVersion'[v].version = v
<1>1. CASE \E s \in AgentVersionSpec : s \notin published /\ Table!Publish({s})
  BY <1>1 DEF Table!Publish, TypeOK, LookedUpAsPublished
<1>2. ASSUME NEW s \in published, Table!cacheAgentVersion(s)
      PROVE  /\ published' = published
             /\ InjectorAgentVersion' \in [Versions -> AgentVersionSpec \cup {Nil}]
             /\ \A v \in Versions : InjectorAgentVersion'[v] # Nil =>
                   InjectorAgentVersion'[v] \in published' /\ InjectorAgentVersion'[v].version = v
  <2>1. s \in AgentVersionSpec /\ s.version \in Versions
    BY DEF TypeOK, AgentVersionSpec
  <2>2. /\ InjectorAgentVersion' = [InjectorAgentVersion EXCEPT ![s.version] = s]
        /\ published' = published
    BY <1>2 DEF Table!cacheAgentVersion
  <2> QED
    BY <2>1, <2>2 DEF TypeOK, LookedUpAsPublished
<1> QED
  BY <1>1, <1>2 DEF AgentVersions, TypeOK

\* A step of one of the workers: the handlers do nothing.
WorkerStep ==
    \/ AgentVersions
    \/ \E name \in ConfigMapNames \cup {Nil}, kind \in {"plain", "malformed", "wellformed"} :
          ConfigMapChanges(name, kind)
    \/ cacheConfigMap

\* A step of the handler of r: the workers do nothing.
HandlerStep(r) ==
    createOrUpdateConfigMap(r) \/ addPodInitContainer(r) \/ modifyPodContainer(r) \/ Answer(r)

LEMMA NextSplit ==
    ASSUME [Next]_vars
    PROVE  \/ WorkerStep \/ (\E r \in Requests : HandlerStep(r))
           \/ ConcurrentMapReadAndWrite \/ UNCHANGED vars
BY DEF Next, WorkerStep, HandlerStep

LEMMA WorkerLeavesHandlers ==
    ASSUME WorkerStep
    PROVE  UNCHANGED <<process, handlers>>
BY DEF WorkerStep, AgentVersions, ConfigMapChanges, cacheConfigMap, CacheVersion, CacheDefault,
       FillDefault, ParseDefault, StripDefault

LEMMA HandlerLeavesWorkers ==
    ASSUME NEW r \in Requests, HandlerStep(r)
    PROVE  UNCHANGED <<process, cmWorker, config>>
BY DEF HandlerStep, createOrUpdateConfigMap, addPodInitContainer, BeginDeploy, LookUp, Choose,
       Send, Encode, Encoded, BeginPod, BeginInjected, LookUpForPod, ChooseForPod, ReadImage,
       ReadEnvs, modifyPodContainer, Answer, Reading

\* A handler only changes what is its own.
LEMMA HandlerLeavesOthers ==
    ASSUME TypeOK, NEW r \in Requests, HandlerStep(r), NEW q \in Requests, q # r
    PROVE  /\ pc'[q] = pc[q] /\ asked'[q] = asked[q] /\ spec'[q] = spec[q]
           /\ data'[q] = data[q] /\ unsent'[q] = unsent[q] /\ sent'[q] = sent[q]
           /\ agent'[q] = agent[q]
<1> USE DEF TypeOK, Goto
<1>1. CASE createOrUpdateConfigMap(r)
  <2>1. CASE \E v \in Versions \cup {Nil} : BeginDeploy(r, v)
    BY <2>1 DEF BeginDeploy
  <2>2. CASE LookUp(r) \/ Choose(r) \/ Encoded(r)
    BY <2>2 DEF LookUp, Choose, Encoded
  <2>3. CASE Send(r)
    BY <2>3 DEF Send
  <2>4. CASE \E k \in Keys : Encode(r, k)
    BY <2>4 DEF Encode
  <2> QED
    BY <1>1, <2>1, <2>2, <2>3, <2>4 DEF createOrUpdateConfigMap
<1>2. CASE addPodInitContainer(r)
  BY <1>2 DEF addPodInitContainer, BeginPod, BeginInjected, LookUpForPod, ChooseForPod, ReadImage,
              ReadEnvs, Read
<1>3. CASE modifyPodContainer(r) \/ Answer(r)
  BY <1>3 DEF modifyPodContainer, Answer, Read
<1> QED
  BY <1>1, <1>2, <1>3 DEF HandlerStep

-----------------------------------------------------------------------------
(* Types. *)

WorkerType ==
    /\ revisions \in Nat /\ worker \in {"get", "cache", "fill", "strip"}
    /\ job \in Job /\ left \in SUBSET Keys
    /\ maps \in Seq(Contents)
    /\ DefaultInjectorConfigMap \in 0..Len(maps)
    /\ DefaultInjectorConfig \in Revision
    /\ InjectorConfigMaps \in [ConfigMapNames -> Revision]
    /\ published \in SUBSET AgentVersionSpec
    /\ InjectorAgentVersion \in [Versions -> AgentVersionSpec \cup {Nil}]

HandlerType(r) ==
    /\ pc[r] \in Labels
    /\ asked[r] \in Versions \cup {Nil}
    /\ spec[r] \in AgentVersionSpec \cup {Nil}
    /\ pc[r] \in {"choose", "podChoose"} => spec[r] # Nil
    /\ pc[r] \in {"lookup", "podLookup"} => asked[r] # Nil
    /\ data[r] \in Data
    /\ unsent[r] \in SUBSET Keys
    /\ sent[r] \in Contents
    /\ agent[r] \in Seq(Revision)

LEMMA WorkerTypeStep ==
    ASSUME IInv, WorkerStep
    PROVE  WorkerType'
<1> USE DEF IInv, TypeOK, WorkerType, Revision
<1>1. CASE AgentVersions
  BY <1>1, TableStep DEF AgentVersions, cmWorker, files
<1>2. ASSUME NEW name \in ConfigMapNames \cup {Nil},
             NEW kind \in {"plain", "malformed", "wellformed"}, ConfigMapChanges(name, kind)
      PROVE  WorkerType'
  BY <1>2 DEF ConfigMapChanges, config, files, versions, Job
<1>3. CASE CacheVersion
  <2>1. job.rev \in Nat
    BY DEF Job
  <2> QED
    BY <1>3, <2>1 DEF CacheVersion, files, versions
<1>4. CASE CacheDefault
  <2>1. Empty \in Contents
    BY DEF Empty, Contents, None
  <2>2. maps' \in Seq(Contents) /\ Len(maps') = Len(maps) + 1 /\ Len(maps) \in Nat
    BY <1>4, <2>1 DEF CacheDefault
  <2>3. left' \in SUBSET Keys
    BY <1>4 DEF CacheDefault, KeysOfJob, Keys
  <2> QED
    BY <1>4, <2>2, <2>3 DEF CacheDefault, versions
<1>5. CASE (\E k \in Keys : FillDefault(k)) \/ StripDefault
  <2>1. PICK k \in Keys, v \in Revision : maps' = Assigned(k, v)
    BY <1>5 DEF FillDefault, StripDefault, Job, None, Keys
  <2>2. maps # <<>> /\ DefaultInjectorConfigMap = Len(maps)
    BY <1>5 DEF FillDefault, StripDefault, MapsOfOneRevision, Filling
  <2>3. maps' \in Seq(Contents) /\ Len(maps') = Len(maps)
    BY <2>1, <2>2, AssignedType
  <2> QED
    BY <1>5, <2>3 DEF FillDefault, StripDefault, versions
<1>6. CASE ParseDefault
  <2>1. job.rev \in Nat
    BY DEF Job
  <2> QED
    BY <1>6, <2>1 DEF ParseDefault, files, versions
<1> QED
  BY <1>1, <1>2, <1>3, <1>4, <1>5, <1>6 DEF WorkerStep, cacheConfigMap

LEMMA HandlerTypeStep ==
    ASSUME IInv, NEW r \in Requests, HandlerStep(r)
    PROVE  HandlerType(r)'
<1> USE DEF IInv, TypeOK, HandlerType, At, Goto, Labels, Revision, None
<1>e. Empty \in Contents /\ NoData \in Data
  BY DEF Empty, Contents, NoData, Data
<1>c. ConstantsOK
  BY ConstantsOK
<1>v. ASSUME NEW s \in AgentVersionSpec
      PROVE  [name |-> s.configMapName, ref |-> InjectorConfigMaps[s.configMapName]] \in Data
  BY DEF AgentVersionSpec, Data
<1>1. ASSUME NEW v \in Versions \cup {Nil}, BeginDeploy(r, v) PROVE HandlerType(r)'
  <2>1. [name |-> Nil, ref |-> DefaultInjectorConfigMap] \in Data
    BY DEF Data
  <2> QED
    BY <1>1, <1>e, <2>1 DEF BeginDeploy
<1>2. CASE LookUp(r) \/ LookUpForPod(r)
  <2>1. asked[r] \in Versions
    BY <1>2 DEF LookUp, LookUpForPod
  <2> QED
    BY <1>2, <2>1 DEF LookUp, LookUpForPod
<1>3. CASE Choose(r) \/ ChooseForPod(r)
  <2>1. spec[r] \in AgentVersionSpec
    BY <1>3 DEF Choose, ChooseForPod
  <2>2. data'[r] \in Data
    BY <1>3, <1>v, <2>1 DEF Choose, ChooseForPod
  <2> QED
    BY <1>3, <2>2 DEF Choose, ChooseForPod
<1>4. CASE Send(r)
  <2>1. [k \in Keys |-> IF k \in Files THEN data[r].ref ELSE None] \in Contents
    BY DEF Contents, Data
  <2> QED
    BY <1>4, <2>1 DEF Send
<1>5. ASSUME NEW k \in Keys, Encode(r, k) PROVE HandlerType(r)'
  <2> DEFINE m == maps[data[r].ref]
  <2>1. data[r].ref \in 1..Len(maps)
    BY <1>5 DEF Encode, EncodedOfOneRevision, EncodedOf, Data
  <2>2. m \in Contents
    BY <2>1
  <2>3. sent'[r] = [sent[r] EXCEPT ![k] = m[k]]
    BY <1>5 DEF Encode
  <2>4. sent'[r] \in Contents
    BY <2>2, <2>3 DEF Contents
  <2> QED
    BY <1>5, <2>4 DEF Encode
<1>6. CASE Encoded(r)
  BY <1>6 DEF Encoded
<1>7. ASSUME NEW v \in Versions \cup {Nil}, BeginPod(r, v) PROVE HandlerType(r)'
  <2>1. agent'[r] \in Seq(Revision)
    BY <1>7 DEF BeginPod, Read
  <2> QED
    BY <1>7, <2>1 DEF BeginPod
<1>8. CASE ReadImage(r) \/ ReadEnvs(r) \/ modifyPodContainer(r)
  <2>1. Read(r)
    BY <1>8 DEF ReadImage, ReadEnvs, modifyPodContainer
  <2>2. agent'[r] \in Seq(Revision)
    BY <2>1 DEF Read
  <2>3. pc'[r] \in {"envs", "containers", "injected"}
    BY <1>8 DEF ReadImage, ReadEnvs, modifyPodContainer
  <2>4. UNCHANGED <<asked, spec, data, unsent, sent>>
    BY <1>8 DEF ReadImage, ReadEnvs, modifyPodContainer
  <2> QED
    BY <2>2, <2>3, <2>4
<1>9. CASE Answer(r)
  BY <1>9, <1>e DEF Answer
<1>10. CASE BeginInjected(r)
  BY <1>10 DEF BeginInjected
<1> QED
  BY <1>1, <1>2, <1>3, <1>4, <1>5, <1>6, <1>7, <1>8, <1>9, <1>10
     DEF HandlerStep, createOrUpdateConfigMap, addPodInitContainer

LEMMA TypeStep ==
    ASSUME IInv, [Next]_vars
    PROVE  TypeOK'
<1>1. CASE WorkerStep
  BY <1>1, WorkerTypeStep, WorkerLeavesHandlers DEF IInv, TypeOK, WorkerType, process, handlers
<1>2. ASSUME NEW r \in Requests, HandlerStep(r) PROVE TypeOK'
  <2>1. \A q \in Requests : HandlerType(q)'
    BY <1>2, HandlerTypeStep, HandlerLeavesOthers DEF IInv, TypeOK, HandlerType
  <2>2. /\ pc' = [q \in Requests |-> pc'[q]] /\ asked' = [q \in Requests |-> asked'[q]]
        /\ spec' = [q \in Requests |-> spec'[q]] /\ data' = [q \in Requests |-> data'[q]]
        /\ unsent' = [q \in Requests |-> unsent'[q]] /\ sent' = [q \in Requests |-> sent'[q]]
        /\ agent' = [q \in Requests |-> agent'[q]]
    BY <1>2 DEF HandlerStep, createOrUpdateConfigMap, addPodInitContainer, BeginDeploy, LookUp,
                Choose, Send, Encode, Encoded, BeginPod, BeginInjected, LookUpForPod,
                ChooseForPod, ReadImage, ReadEnvs, modifyPodContainer, Answer, Goto, Read, IInv, TypeOK
  <2>3. UNCHANGED <<process, cmWorker, config>>
    BY <1>2, HandlerLeavesWorkers
  <2>4. /\ pc' \in [Requests -> Labels] /\ asked' \in [Requests -> Versions \cup {Nil}]
        /\ spec' \in [Requests -> AgentVersionSpec \cup {Nil}] /\ data' \in [Requests -> Data]
        /\ unsent' \in [Requests -> SUBSET Keys] /\ sent' \in [Requests -> Contents]
        /\ agent' \in [Requests -> Seq(Revision)]
    BY <2>1, <2>2 DEF HandlerType
  <2> QED
    BY <2>1, <2>3, <2>4 DEF IInv, TypeOK, HandlerType, process, cmWorker, config, files, versions
<1>3. CASE ConcurrentMapReadAndWrite
  BY <1>3 DEF ConcurrentMapReadAndWrite, IInv, TypeOK, cmWorker, config, files, versions, handlers
<1>4. CASE UNCHANGED vars
  BY <1>4 DEF vars, IInv, TypeOK, process, cmWorker, config, files, versions, handlers
<1> QED
  BY <1>1, <1>2, <1>3, <1>4, NextSplit

-----------------------------------------------------------------------------
(* The configuration itself. *)

\* The worker's revision is the newest, so what it assigns never gets older.
LEMMA RevisionsStep ==
    ASSUME IInv, WorkerStep
    PROVE  /\ RevisionsInOrder'
           /\ DefaultInjectorConfig <= DefaultInjectorConfig'
           /\ \A c \in ConfigMapNames : InjectorConfigMaps[c] <= InjectorConfigMaps'[c]
<1> USE DEF IInv, TypeOK, RevisionsInOrder, Revision
<1>r. /\ revisions \in Nat /\ DefaultInjectorConfig \in Nat /\ job.rev \in Nat
      /\ \A c \in ConfigMapNames : InjectorConfigMaps[c] \in Nat
  BY DEF Job
<1>1. CASE AgentVersions
  BY <1>1, <1>r DEF AgentVersions, cmWorker
<1>2. ASSUME NEW name \in ConfigMapNames \cup {Nil},
             NEW kind \in {"plain", "malformed", "wellformed"}, ConfigMapChanges(name, kind)
      PROVE  /\ RevisionsInOrder' /\ UNCHANGED <<DefaultInjectorConfig, InjectorConfigMaps>>
  BY <1>2, <1>r DEF ConfigMapChanges, config
<1>3. CASE CacheVersion
  BY <1>3, <1>r DEF CacheVersion
<1>4. CASE CacheDefault \/ (\E k \in Keys : FillDefault(k)) \/ StripDefault
  BY <1>4, <1>r DEF CacheDefault, FillDefault, StripDefault
<1>5. CASE ParseDefault
  BY <1>5, <1>r DEF ParseDefault
<1> QED
  BY <1>1, <1>2, <1>r, <1>3, <1>4, <1>5 DEF WorkerStep, cacheConfigMap

LEMMA MapsStep ==
    ASSUME IInv, WorkerStep
    PROVE  /\ MapsOfOneRevision'
           /\ Len(maps) <= Len(maps')
           /\ \A i \in 1..Len(maps) : \/ maps'[i] = maps[i]
                                      \/ /\ Filling /\ i = Len(maps) /\ Len(maps') = Len(maps)
                                         /\ \A s \in Contents : OfJob(s) => Agree(maps'[i], s)
           /\ Filling' /\ ~Filling => Len(maps') = Len(maps) + 1
           /\ Filling' /\ Filling => job' = job /\ Len(maps') = Len(maps)
<1> USE DEF IInv, TypeOK, MapsOfOneRevision
<1>l. Len(maps) \in Nat /\ DOMAIN maps = 1..Len(maps)
  OBVIOUS
<1>u. ASSUME UNCHANGED files, ~Filling'
      PROVE  MapsOfOneRevision' /\ UNCHANGED maps
  BY <1>u DEF files, OneRevision
<1>1. CASE AgentVersions
  BY <1>1, <1>l DEF AgentVersions, cmWorker, files, Filling, OneRevision, OfJob
<1>2. ASSUME NEW name \in ConfigMapNames \cup {Nil},
             NEW kind \in {"plain", "malformed", "wellformed"}, ConfigMapChanges(name, kind)
      PROVE  UNCHANGED files /\ ~Filling'
  BY <1>2 DEF ConfigMapChanges, config, Filling
<1>3. CASE CacheVersion
  BY <1>3, <1>l, <1>u DEF CacheVersion, Filling
<1>4. CASE CacheDefault
  <2>0. Empty \in Contents /\ OneRevision(Empty) /\ \A k \in Keys : Empty[k] = None
    BY DEF Empty, Contents, None, OneRevision, Revision
  <2>1. maps' = Append(maps, Empty) /\ DefaultInjectorConfigMap' = Len(maps) + 1
        /\ worker = "cache" /\ worker' = "fill"
    BY <1>4 DEF CacheDefault
  <2>2. /\ Len(maps') = Len(maps) + 1 /\ DOMAIN maps' = 1..(Len(maps) + 1)
        /\ maps'[Len(maps) + 1] = Empty
        /\ \A i \in 1..Len(maps) : maps'[i] = maps[i]
    BY <2>0, <2>1, <1>l
  <2>3. \A i \in DOMAIN maps' : OneRevision(maps'[i])
    BY <2>0, <2>2, <1>l
  <2>4. maps' # <<>> /\ OfJob(maps[Len(maps)])'
    BY <2>0, <2>2, <1>l DEF OfJob
  <2>5. ~Filling
    BY <2>1 DEF Filling
  <2>6. MapsOfOneRevision'
    BY <2>1, <2>2, <2>3, <2>4
  <2> QED
    BY <2>2, <2>5, <2>6, <1>l
<1>5. CASE (\E k \in Keys : FillDefault(k)) \/ StripDefault
  <2> DEFINE n == Len(maps)
  <2>1. PICK k \in Keys, v \in {None, job.rev} : maps' = Assigned(k, v)
    BY <1>5 DEF FillDefault, StripDefault, Keys
  <2>2. Filling /\ UNCHANGED <<job, DefaultInjectorConfigMap>>
    BY <1>5 DEF FillDefault, StripDefault, Filling
  <2>3. maps # <<>> /\ DefaultInjectorConfigMap = n /\ OfJob(maps[n]) /\ v \in Revision
    BY <2>2 DEF Job, None, Revision
  <2>4. /\ Len(maps') = n /\ n \in Nat \ {0} /\ DOMAIN maps' = 1..n
        /\ \A i \in 1..n : i # n => maps'[i] = maps[i]
        /\ maps'[n] = [maps[n] EXCEPT ![k] = v]
    BY <2>1, <2>3, AssignedType
  <2>5. maps[n] \in Contents
    BY <2>4
  <2>6. /\ OfJob(maps'[n]) /\ OneRevision(maps'[n])
        /\ \A s \in Contents : OfJob(s) => Agree(maps'[n], s)
    <3> HIDE DEF n
    <3>1. maps[n] \in Contents /\ OfJob(maps[n])
      BY <2>3, <2>5
    <3>2. maps'[n] = [maps[n] EXCEPT ![k] = v]
      BY <2>4
    <3>3. OfJob(maps'[n])
      BY <3>1, <3>2 DEF OfJob, Contents
    <3> QED
      BY <3>3 DEF OfJob, OneRevision, Agree
  <2>7. \A i \in DOMAIN maps' : OneRevision(maps'[i])
    BY <2>4, <2>6
  <2>8. maps' # <<>> /\ OfJob(maps[Len(maps)])'
    BY <2>2, <2>4, <2>6 DEF OfJob
  <2>9. MapsOfOneRevision'
    BY <2>2, <2>3, <2>4, <2>7, <2>8
  <2>10. ASSUME NEW i \in 1..Len(maps), maps'[i] # maps[i]
         PROVE  /\ i = Len(maps)
                /\ \A s \in Contents : OfJob(s) => Agree(maps'[i], s)
    <3>1. i = n
      BY <2>4, <2>10
    <3> QED
      BY <3>1, <2>6
  <2>11. Len(maps) <= Len(maps') /\ Len(maps') = Len(maps) /\ Filling /\ job' = job
    BY <2>2, <2>4
  <2> HIDE DEF MapsOfOneRevision, IInv, TypeOK
  <2> QED
    BY <2>9, <2>10, <2>11
<1>6. CASE ParseDefault
  <2>1. Filling /\ UNCHANGED <<files, job>>
    BY <1>6 DEF ParseDefault, Filling
  <2>2. OfJob(maps[Len(maps)]) => OfJob(maps[Len(maps)])'
    BY <2>1 DEF files, OfJob
  <2>3. MapsOfOneRevision'
    BY <2>1, <2>2 DEF files, OneRevision
  <2>4. maps' = maps /\ job' = job
    BY <2>1 DEF files
  <2> QED
    BY <2>1, <2>3, <2>4, <1>l
<1>7. CASE \E name \in ConfigMapNames \cup {Nil}, kind \in {"plain", "malformed", "wellformed"} :
              ConfigMapChanges(name, kind)
  BY <1>2, <1>7, <1>l, <1>u
<1> QED
  BY <1>1, <1>3, <1>4, <1>5, <1>6, <1>7 DEF WorkerStep, cacheConfigMap

\* A worker's step keeps every part of the invariant: the handlers stand still, and
\* what they hold stays of one revision, published, and no newer than config.
LEMMA WorkerKeeps ==
    ASSUME IInv, WorkerStep
    PROVE  IInv'
<1> USE DEF IInv
<1>h. UNCHANGED <<process, handlers>>
  BY WorkerLeavesHandlers
<1>t. TypeOK'
  BY TypeStep DEF Next, WorkerStep
<1>p. /\ published \subseteq published'
      /\ \A v \in Versions : InjectorAgentVersion'[v] # Nil =>
            InjectorAgentVersion'[v] \in published' /\ InjectorAgentVersion'[v].version = v
  <2>1. CASE AgentVersions
    BY <2>1, TableStep
  <2>2. CASE ~AgentVersions
    <3>1. UNCHANGED versions
      BY <2>2 DEF WorkerStep, ConfigMapChanges, cacheConfigMap, CacheVersion, CacheDefault,
                  FillDefault, ParseDefault, StripDefault, config
    <3> QED
      BY <3>1 DEF versions, LookedUpAsPublished
  <2> QED
    BY <2>1, <2>2
<1>1. EncodedOfOneRevision'
  <2> SUFFICES ASSUME NEW r \in Requests
               PROVE  /\ data[r].name = Nil => data[r].ref <= Len(maps')
                      /\ pc[r] = "encode" /\ data[r].ref # None =>
                            Agree(maps'[data[r].ref], sent[r])
                      /\ pc[r] = "encode" /\ Filling' /\ data[r].ref = Len(maps') =>
                            OfJob(sent[r])'
    BY <1>h DEF EncodedOfOneRevision, EncodedOf, handlers, OneRevision, Agree, OfJob
  <2>1. data[r].ref \in Nat /\ sent[r] \in Contents /\ Len(maps) \in Nat /\ Len(maps') \in Nat
    BY <1>t DEF TypeOK, Data
  <2>2. Len(maps) <= Len(maps')
    BY MapsStep
  <2>3. ASSUME pc[r] = "encode", data[r].ref # None
        PROVE  Agree(maps'[data[r].ref], sent[r])
    <3>1. data[r].ref \in 1..Len(maps)
      BY <2>1, <2>3 DEF EncodedOfOneRevision, EncodedOf, None
    <3>2. CASE maps'[data[r].ref] = maps[data[r].ref]
      BY <2>3, <3>2 DEF EncodedOfOneRevision, EncodedOf, Agree
    <3>3. CASE Filling /\ data[r].ref = Len(maps)
               /\ \A s \in Contents : OfJob(s) => Agree(maps'[data[r].ref], s)
      BY <2>1, <2>3, <3>3 DEF EncodedOfOneRevision, EncodedOf
    <3> QED
      BY <3>1, <3>2, <3>3, MapsStep
  <2>4. ASSUME pc[r] = "encode", Filling', data[r].ref = Len(maps')
        PROVE  OfJob(sent[r])'
    <3>1. data[r].ref <= Len(maps)
      BY <2>4 DEF EncodedOfOneRevision, EncodedOf
    <3>2. Filling /\ job' = job /\ Len(maps') = Len(maps)
      BY <2>1, <2>4, <3>1, MapsStep
    <3>3. OfJob(sent[r])
      BY <2>4, <3>2 DEF EncodedOfOneRevision, EncodedOf
    <3> QED
      BY <1>h, <3>2, <3>3 DEF OfJob, handlers
  <2> QED
    BY <2>1, <2>2, <2>3, <2>4 DEF EncodedOfOneRevision, EncodedOf
<1>2. LookedUpAsPublished'
  BY <1>h, <1>p DEF LookedUpAsPublished, handlers
<1>3. FilesOfOneRevision'
  BY <1>h DEF FilesOfOneRevision, handlers
<1>4. VersionAsPublished'
  <2> SUFFICES ASSUME NEW r \in Requests, data[r].name # Nil
               PROVE  /\ [version |-> asked[r], enable |-> TRUE,
                           configMapName |-> data[r].name] \in published'
                      /\ data[r].ref # None /\ InjectorConfigMaps'[data[r].name] >= data[r].ref
    BY <1>h DEF VersionAsPublished, handlers
  <2>1. data[r].name \in ConfigMapNames /\ data[r].ref \in Nat
    BY DEF TypeOK, Data
  <2>2. /\ InjectorConfigMaps[data[r].name] \in Nat
        /\ InjectorConfigMaps'[data[r].name] \in Nat
        /\ InjectorConfigMaps[data[r].name] <= InjectorConfigMaps'[data[r].name]
    BY <1>t, <2>1, RevisionsStep DEF TypeOK, Revision
  <2> QED
    BY <1>p, <2>1, <2>2 DEF VersionAsPublished
<1>5. AgentInOrder'
  <2>1. DefaultInjectorConfig \in Nat /\ DefaultInjectorConfig' \in Nat
        /\ DefaultInjectorConfig <= DefaultInjectorConfig'
    BY <1>t, RevisionsStep DEF TypeOK, Revision
  <2>2. \A r \in Requests : \A i \in DOMAIN agent[r] : agent[r][i] \in Nat
    BY DEF TypeOK, Revision
  <2>3. agent' = agent
    BY <1>h DEF handlers
  <2>4. \A r \in Requests : \A i \in DOMAIN agent[r] :
            agent[r][i] <= DefaultInjectorConfig'
    BY <2>1, <2>2 DEF AgentInOrder
  <2> QED
    BY <2>3, <2>4 DEF AgentInOrder
<1> QED
  BY <1>t, <1>1, <1>2, <1>3, <1>4, <1>5, RevisionsStep, MapsStep

-----------------------------------------------------------------------------
(* The handlers. *)

LEMMA HandlerKeepsConfig ==
    ASSUME IInv, UNCHANGED <<cmWorker, config>>
    PROVE  RevisionsInOrder' /\ MapsOfOneRevision'
BY DEF IInv, RevisionsInOrder, MapsOfOneRevision, Filling, OneRevision, OfJob, cmWorker, config,
       files

\* The handler keeps what it has, or takes the configmap of its version, which is
\* enabled and has been read.
LEMMA ChooseStep ==
    ASSUME IInv, NEW r \in Requests, Choose(r) \/ ChooseForPod(r)
    PROVE  \/ data'[r] = data[r]
           \/ /\ spec[r].enable /\ data'[r].name = spec[r].configMapName
              /\ data'[r].name \in ConfigMapNames /\ data'[r].name # Nil
              /\ data'[r].ref = InjectorConfigMaps[data'[r].name] /\ data'[r].ref # None
<1>1. spec[r] # Nil /\ spec[r] \in AgentVersionSpec
  BY DEF Choose, ChooseForPod, At, IInv, TypeOK
<1>2. spec[r].configMapName \in ConfigMapNames /\ spec[r].configMapName # Nil
  BY <1>1, ConstantsOK DEF AgentVersionSpec
<1>3. data'[r] = IF Usable(spec[r])
                 THEN [name |-> spec[r].configMapName,
                       ref |-> InjectorConfigMaps[spec[r].configMapName]]
                 ELSE data[r]
  BY DEF Choose, ChooseForPod, IInv, TypeOK
<1> QED
  BY <1>2, <1>3 DEF Usable

\* The files of a Deployment: they come from the map the handler has taken, and
\* that map is of one revision even while the worker fills it.
LEMMA FilesStep ==
    ASSUME IInv, NEW r \in Requests, HandlerStep(r)
    PROVE  EncodedOf(r)' /\ (pc'[r] = "sent" => OneRevision(sent'[r]))
<1> USE DEF At, Goto
<1>f. EncodedOf(r) /\ (pc[r] = "idle" => data[r].name = Nil)
  BY DEF IInv, EncodedOfOneRevision, LookedUpAsPublished
<1>u. UNCHANGED <<maps, Filling, job>> /\ DefaultInjectorConfigMap = Len(maps)
  BY HandlerLeavesWorkers DEF cmWorker, config, files, Filling, IInv, MapsOfOneRevision
<1>l. Len(maps) \in Nat /\ DOMAIN maps = 1..Len(maps) /\ data[r].ref \in Nat
  BY DEF IInv, TypeOK, Data
<1>e. /\ Empty \in Contents /\ OneRevision(Empty) /\ OfJob(Empty)
      /\ \A m \in Contents : Agree(m, Empty)
  BY DEF Empty, Contents, Revision, None, OneRevision, OfJob, Agree
<1>t. /\ pc \in [Requests -> Labels] /\ data \in [Requests -> Data]
      /\ sent \in [Requests -> Contents] /\ unsent \in [Requests -> SUBSET Keys]
  BY DEF IInv, TypeOK
<1>1. CASE \E v \in Versions \cup {Nil} : BeginDeploy(r, v)
  <2>1. /\ data'[r] = [name |-> Nil, ref |-> Len(maps)] /\ sent'[r] = Empty
        /\ pc'[r] \in {"send", "lookup"}
    BY <1>1, <1>t, <1>u DEF BeginDeploy
  <2> QED
    BY <2>1, <1>l, <1>u DEF EncodedOf
<1>2. CASE LookUp(r) \/ Choose(r)
  <2>1. /\ sent'[r] = sent[r] /\ pc[r] \in {"lookup", "choose"} /\ pc'[r] \in {"choose", "send"}
        /\ data'[r].name = Nil => data'[r] = data[r]
    BY <1>2, <1>t, ChooseStep DEF LookUp, Choose
  <2> QED
    BY <2>1, <1>f, <1>u DEF EncodedOf
<1>3. CASE Send(r)
  <2>1. data'[r] = data[r] /\ pc[r] = "send" /\ sent[r] = Empty
    BY <1>3, <1>f, <1>t DEF Send, EncodedOf
  <2>2. CASE data[r].name # Nil
    <3>1. /\ sent'[r] = [k \in Keys |-> IF k \in Files THEN data[r].ref ELSE None]
          /\ pc'[r] = "sent"
      BY <1>3, <1>t, <2>2 DEF Send
    <3>2. OneRevision(sent'[r])
      BY <3>1 DEF OneRevision
    <3> QED
      BY <2>1, <2>2, <3>1, <3>2 DEF EncodedOf
  <2>3. CASE data[r].name = Nil
    <3>1. /\ sent'[r] = Empty /\ pc'[r] = "encode"
          /\ unsent'[r] = IF data[r].ref = None THEN {} ELSE Keys
      BY <1>3, <1>t, <2>1, <2>3 DEF Send
    <3>2. data[r].ref <= Len(maps)
      BY <1>f, <2>3 DEF EncodedOf
    <3>3. data[r].ref # None => maps[data[r].ref] \in Contents
      BY <1>l, <3>2 DEF IInv, TypeOK, None
    <3>4. OfJob(sent[r])'
      BY <1>e, <1>u, <3>1 DEF OfJob
    <3> QED
      BY <1>e, <1>u, <2>1, <2>3, <3>1, <3>2, <3>3, <3>4 DEF EncodedOf
  <2> QED
    BY <2>2, <2>3
<1>4. ASSUME NEW k \in Keys, Encode(r, k) PROVE EncodedOf(r)' /\ pc'[r] # "sent"
  <2> DEFINE m == maps[data[r].ref]
             s == sent[r]
  <2>1. /\ pc[r] = "encode" /\ k \in unsent[r] /\ pc' = pc /\ data' = data
        /\ sent'[r] = [s EXCEPT ![k] = m[k]]
        /\ unsent'[r] \subseteq unsent[r]
    BY <1>4, <1>t DEF Encode
  <2>2. /\ data[r].name = Nil /\ data[r].ref # None /\ data[r].ref <= Len(maps)
        /\ OneRevision(s) /\ Agree(m, s)
        /\ Filling /\ data[r].ref = Len(maps) => OfJob(s)
    BY <1>f, <2>1 DEF EncodedOf
  <2>3. OneRevision(m) /\ (Filling /\ data[r].ref = Len(maps) => OfJob(m)) /\ m \in Contents
    BY <1>l, <2>2 DEF IInv, MapsOfOneRevision, TypeOK, None
  <2>4. s \in Contents
    BY <1>t
  <2>5. OneRevision([s EXCEPT ![k] = m[k]]) /\ Agree(m, [s EXCEPT ![k] = m[k]])
    BY <2>2, <2>3, <2>4 DEF OneRevision, Agree, Contents
  <2>6. OfJob(m) /\ OfJob(s) => OfJob([s EXCEPT ![k] = m[k]])
    BY <2>4 DEF OfJob, Contents
  <2>7. Filling /\ data[r].ref = Len(maps) => OfJob(sent[r])'
    BY <1>u, <2>1, <2>2, <2>3, <2>6 DEF OfJob
  <2> QED
    BY <1>u, <2>1, <2>2, <2>5, <2>7 DEF EncodedOf
<1>5. CASE Encoded(r)
  <2>1. /\ pc[r] = "encode" /\ pc'[r] = "sent" /\ data' = data /\ sent' = sent
    BY <1>5, <1>t DEF Encoded
  <2> QED
    BY <1>f, <1>u, <2>1 DEF EncodedOf
<1>6. CASE \/ \E v \in Versions \cup {Nil} : BeginPod(r, v)
           \/ BeginInjected(r) \/ LookUpForPod(r) \/ ChooseForPod(r) \/ ReadImage(r)
           \/ ReadEnvs(r) \/ modifyPodContainer(r)
  <2>1. /\ pc'[r] \in {"podLookup", "podChoose", "image", "envs", "containers", "injected"}
        /\ data'[r].name = Nil => data'[r] = data[r]
    BY <1>6, <1>t, ChooseStep DEF BeginPod, BeginInjected, LookUpForPod, ChooseForPod,
                                  ReadImage, ReadEnvs, modifyPodContainer
  <2> QED
    BY <1>f, <1>u, <2>1 DEF EncodedOf
<1>7. CASE Answer(r)
  <2>1. pc'[r] = "idle" /\ data'[r] = NoData
    BY <1>7, <1>t DEF Answer
  <2> QED
    BY <1>l, <1>u, <2>1 DEF EncodedOf, NoData, None
<1> QED
  BY <1>1, <1>2, <1>3, <1>4, <1>5, <1>6, <1>7
     DEF HandlerStep, createOrUpdateConfigMap, addPodInitContainer

\* The agent version that is used.
LEMMA VersionStep ==
    ASSUME IInv, NEW r \in Requests, HandlerStep(r)
    PROVE  /\ pc'[r] = "idle" => data'[r].name = Nil
           /\ pc'[r] \in {"choose", "podChoose"} =>
                 spec'[r] \in published /\ spec'[r].version = asked'[r]
           /\ data'[r].name # Nil =>
                 /\ [version |-> asked'[r], enable |-> TRUE,
                     configMapName |-> data'[r].name] \in published
                 /\ data'[r].ref # None /\ InjectorConfigMaps[data'[r].name] >= data'[r].ref
<1> USE DEF At, Goto
<1>t. /\ pc \in [Requests -> Labels] /\ data \in [Requests -> Data]
      /\ asked \in [Requests -> Versions \cup {Nil}]
      /\ spec \in [Requests -> AgentVersionSpec \cup {Nil}]
      /\ pc[r] \in {"choose", "podChoose"} => spec[r] # Nil
      /\ pc[r] \in {"lookup", "podLookup"} => asked[r] # Nil
  BY DEF IInv, TypeOK
<1>p. data[r].name # Nil =>
         /\ [version |-> asked[r], enable |-> TRUE, configMapName |-> data[r].name] \in published
         /\ data[r].ref # None /\ InjectorConfigMaps[data[r].name] >= data[r].ref
  BY DEF IInv, VersionAsPublished
<1>s. pc[r] \in {"choose", "podChoose"} => spec[r] \in published /\ spec[r].version = asked[r]
  BY DEF IInv, LookedUpAsPublished
<1>1. CASE (\E v \in Versions \cup {Nil} : BeginDeploy(r, v)) \/ Answer(r)
  <2>1. data'[r].name = Nil /\ pc'[r] \in {"idle", "send", "lookup"}
    BY <1>1, <1>t DEF BeginDeploy, Answer, NoData
  <2> QED
    BY <2>1
<1>2. CASE \E v \in Versions \cup {Nil} : BeginPod(r, v)
  <2>1. data' = data /\ pc'[r] \in {"image", "podLookup"} /\ data[r].name = Nil
    BY <1>2, <1>t DEF BeginPod, IInv, LookedUpAsPublished
  <2> QED
    BY <2>1
<1>3. CASE LookUp(r) \/ LookUpForPod(r)
  <2>1. /\ data' = data /\ asked' = asked /\ spec'[r] = InjectorAgentVersion[asked[r]]
        /\ asked[r] \in Versions
        /\ pc'[r] \in {"choose", "podChoose"} => InjectorAgentVersion[asked[r]] # Nil
        /\ pc'[r] # "idle"
    BY <1>3, <1>t DEF LookUp, LookUpForPod
  <2>2. pc'[r] \in {"choose", "podChoose"} =>
           spec'[r] \in published /\ spec'[r].version = asked'[r]
    BY <2>1 DEF IInv, LookedUpAsPublished
  <2> QED
    BY <1>p, <2>1, <2>2
<1>4. CASE Choose(r) \/ ChooseForPod(r)
  <2>1. /\ asked' = asked /\ pc[r] \in {"choose", "podChoose"} /\ pc'[r] \in {"send", "image"}
    BY <1>4, <1>t DEF Choose, ChooseForPod
  <2>2. CASE data'[r] = data[r]
    BY <1>p, <2>1, <2>2
  <2>3. CASE /\ spec[r].enable /\ data'[r].name = spec[r].configMapName
             /\ data'[r].name \in ConfigMapNames /\ data'[r].name # Nil
             /\ data'[r].ref = InjectorConfigMaps[data'[r].name] /\ data'[r].ref # None
    <3>1. spec[r] \in AgentVersionSpec /\ spec[r] \in published /\ spec[r].version = asked[r]
      BY <1>s, <1>t, <2>1
    <3>2. spec[r] = [version |-> asked[r], enable |-> TRUE, configMapName |-> data'[r].name]
      BY <2>3, <3>1 DEF AgentVersionSpec
    <3>3. InjectorConfigMaps[data'[r].name] \in Nat
      BY <2>3 DEF IInv, TypeOK, Revision
    <3> QED
      BY <2>1, <2>3, <3>1, <3>2, <3>3
  <2> QED
    BY <1>4, <2>2, <2>3, ChooseStep
<1>5. CASE Send(r) \/ (\E k \in Keys : Encode(r, k)) \/ Encoded(r) \/ ReadImage(r) \/ ReadEnvs(r)
           \/ modifyPodContainer(r) \/ BeginInjected(r)
  <2>1. /\ data' = data /\ asked' = asked
        /\ pc'[r] \in {"encode", "sent", "envs", "containers", "injected"}
    BY <1>5, <1>t DEF Send, Encode, Encoded, ReadImage, ReadEnvs, modifyPodContainer,
                      BeginInjected
  <2> QED
    BY <1>p, <2>1
<1> QED
  BY <1>1, <1>2, <1>3, <1>4, <1>5 DEF HandlerStep, createOrUpdateConfigMap, addPodInitContainer

InOrder(r) ==
    \A i \in DOMAIN agent[r] :
        /\ agent[r][i] <= DefaultInjectorConfig
        /\ \A j \in DOMAIN agent[r] : j <= i => agent[r][j] <= agent[r][i]

\* The agent of a pod: each part is read from the configuration there is by then.
LEMMA AgentStep ==
    ASSUME IInv, NEW r \in Requests, HandlerStep(r)
    PROVE  InOrder(r)'
<1>t. /\ agent \in [Requests -> Seq(Nat)] /\ DefaultInjectorConfig \in Nat
  BY DEF IInv, TypeOK, Revision
<1>u. DefaultInjectorConfig' = DefaultInjectorConfig
  BY HandlerLeavesWorkers DEF config
<1>o. InOrder(r)
  BY DEF IInv, AgentInOrder, InOrder
<1>1. CASE agent' = agent
  BY <1>1, <1>o, <1>u DEF InOrder
<1>2. CASE Answer(r)
  <2>1. agent'[r] = <<>>
    BY <1>2, <1>t DEF Answer
  <2> QED
    BY <2>1 DEF InOrder
<1>3. CASE Read(r)
  <2> DEFINE a == agent[r]
             b == agent'[r]
             n == Len(a) + 1
  <2>1. a \in Seq(Nat) /\ b = Append(a, DefaultInjectorConfig)
    BY <1>3, <1>t DEF Read
  <2>2. /\ DOMAIN a = 1..(n - 1) /\ DOMAIN b = 1..n /\ n \in Nat
        /\ b[n] = DefaultInjectorConfig
        /\ \A i \in 1..(n - 1) : b[i] = a[i] /\ a[i] <= DefaultInjectorConfig
    BY <1>o, <2>1, <1>t DEF InOrder
  <2>3. \A i \in 1..n : b[i] <= DefaultInjectorConfig
    BY <1>t, <2>2
  <2>4. \A i \in 1..n, j \in 1..n : j <= i => b[j] <= b[i]
    <3>1. \A i \in 1..(n - 1), j \in 1..(n - 1) : j <= i => a[j] <= a[i]
      BY <1>o, <2>2 DEF InOrder
    <3> QED
      BY <1>t, <2>2, <2>3, <3>1
  <2> QED
    BY <1>u, <2>2, <2>3, <2>4 DEF InOrder
<1> QED
  BY <1>1, <1>2, <1>3
     DEF HandlerStep, createOrUpdateConfigMap, addPodInitContainer, BeginDeploy, LookUp, Choose,
         Send, Encode, Encoded, BeginPod, BeginInjected, LookUpForPod, ChooseForPod, ReadImage,
         ReadEnvs, modifyPodContainer

\* A handler's step keeps the invariant: the workers stand still, and the other
\* handlers with what they hold.
LEMMA HandlerKeeps ==
    ASSUME IInv, NEW r \in Requests, HandlerStep(r)
    PROVE  IInv'
<1>w. UNCHANGED <<process, cmWorker, config>>
  BY HandlerLeavesWorkers
<1>c. UNCHANGED <<DefaultInjectorConfig, InjectorConfigMaps, published, InjectorAgentVersion,
                  maps, DefaultInjectorConfigMap, worker, job>>
  BY <1>w DEF cmWorker, config, files, versions
<1>o. \A q \in Requests : q # r =>
         /\ pc'[q] = pc[q] /\ asked'[q] = asked[q] /\ spec'[q] = spec[q]
         /\ data'[q] = data[q] /\ unsent'[q] = unsent[q] /\ sent'[q] = sent[q]
         /\ agent'[q] = agent[q]
  BY HandlerLeavesOthers DEF IInv
<1>1. TypeOK'
  BY TypeStep DEF Next, HandlerStep
<1>2. RevisionsInOrder' /\ MapsOfOneRevision'
  BY <1>w, HandlerKeepsConfig
<1>3. EncodedOfOneRevision'
  <2>1. ASSUME NEW q \in Requests, q # r PROVE EncodedOf(q)'
    <3>1. EncodedOf(q)
      BY DEF IInv, EncodedOfOneRevision
    <3> QED
      BY <1>c, <1>o, <2>1, <3>1 DEF EncodedOf, OneRevision, Agree, Filling, OfJob
  <2> QED
    BY <2>1, FilesStep DEF EncodedOfOneRevision
<1>4. LookedUpAsPublished'
  BY <1>c, <1>o, VersionStep DEF IInv, LookedUpAsPublished
<1>5. FilesOfOneRevision'
  <2>1. OneRevision(sent'[r]) <=>
           \A k, l \in Keys : sent'[r][k] # None /\ sent'[r][l] # None => sent'[r][k] = sent'[r][l]
    BY DEF OneRevision
  <2> QED
    BY <1>o, <2>1, FilesStep DEF IInv, FilesOfOneRevision
<1>6. VersionAsPublished'
  BY <1>c, <1>o, VersionStep DEF IInv, VersionAsPublished
<1>7. AgentInOrder'
  BY <1>c, <1>o, AgentStep DEF IInv, AgentInOrder, InOrder
<1> QED
  BY <1>1, <1>2, <1>3, <1>4, <1>5, <1>6, <1>7 DEF IInv

-----------------------------------------------------------------------------
LEMMA IInvInvariant == Spec => []IInv
<1>1. Init => IInv
  <2>1. ASSUME Init PROVE TypeOK
    <3>1. /\ maps \in Seq(Contents) /\ DefaultInjectorConfigMap = Len(maps)
          /\ DefaultInjectorConfig \in {0, 1} /\ Len(maps) \in Nat
      <4> DEFINE f == [k \in Keys |-> IF k \in Files THEN 1 ELSE None]
      <4>1. f \in Contents
        BY DEF Contents, Revision, None
      <4> HIDE DEF f
      <4>2. CASE maps = <<f>> /\ DefaultInjectorConfigMap = 1 /\ DefaultInjectorConfig = 1
        BY <4>1, <4>2
      <4>3. CASE maps = <<>> /\ DefaultInjectorConfigMap = 0 /\ DefaultInjectorConfig = 0
        BY <4>3
      <4> QED
        BY <2>1, <4>2, <4>3 DEF Init, f, None
    <3>2. /\ published = {} /\ InjectorAgentVersion = [v \in Versions |-> Nil]
      BY <2>1 DEF Init, Table!Init, Table!NoEntries
    <3>3. Empty \in Contents /\ <<>> \in Seq(Revision) /\ NoData \in Data
      BY DEF Empty, Contents, Revision, None, NoData, Data
    <3>4. /\ phase = "running" /\ revisions = 1 /\ worker = "get" /\ left = {}
          /\ job = [name |-> Nil, rev |-> None, kind |-> "plain"]
          /\ InjectorConfigMaps = [c \in ConfigMapNames |-> None]
      BY <2>1 DEF Init
    <3>5. /\ pc = [r \in Requests |-> "idle"] /\ asked = [r \in Requests |-> Nil]
          /\ spec = [r \in Requests |-> Nil] /\ unsent = [r \in Requests |-> {}]
          /\ data = [r \in Requests |-> NoData] /\ sent = [r \in Requests |-> Empty]
          /\ agent = [r \in Requests |-> <<>>]
      BY <2>1 DEF Init
    <3>6. job \in Job
      BY <3>4 DEF Job, Revision, None
    <3>7. /\ phase \in {"running", "fatal"} /\ revisions \in Nat
          /\ worker \in {"get", "cache", "fill", "strip"} /\ left \in SUBSET Keys
          /\ DefaultInjectorConfigMap \in 0..Len(maps) /\ DefaultInjectorConfig \in Revision
          /\ InjectorConfigMaps \in [ConfigMapNames -> Revision]
      BY <3>1, <3>4 DEF Revision, None
    <3>8. /\ published \in SUBSET AgentVersionSpec
          /\ InjectorAgentVersion \in [Versions -> AgentVersionSpec \cup {Nil}]
      BY <3>2
    <3>9. /\ pc \in [Requests -> Labels] /\ asked \in [Requests -> Versions \cup {Nil}]
          /\ spec \in [Requests -> AgentVersionSpec \cup {Nil}]
          /\ \A r \in Requests : pc[r] = "idle"
          /\ data \in [Requests -> Data] /\ unsent \in [Requests -> SUBSET Keys]
          /\ sent \in [Requests -> Contents] /\ agent \in [Requests -> Seq(Revision)]
      BY <3>3, <3>5 DEF Labels
    <3> QED
      BY <3>1, <3>6, <3>7, <3>8, <3>9 DEF TypeOK
  <2>2. ASSUME Init PROVE RevisionsInOrder /\ MapsOfOneRevision
    <3>1. /\ DefaultInjectorConfig \in {0, 1} /\ revisions = 1 /\ worker = "get"
          /\ InjectorConfigMaps = [c \in ConfigMapNames |-> None]
      BY <2>2 DEF Init, None
    <3>2. MapsOfOneRevision
      <4>1. CASE maps = <<>> /\ DefaultInjectorConfigMap = None
        BY <3>1, <4>1 DEF MapsOfOneRevision, Filling, None
      <4>2. CASE maps = <<[k \in Keys |-> IF k \in Files THEN 1 ELSE None]>>
                 /\ DefaultInjectorConfigMap = 1
        BY <3>1, <4>2 DEF MapsOfOneRevision, Filling, OneRevision, None
      <4> QED
        BY <2>2, <4>1, <4>2 DEF Init
    <3> QED
      BY <3>1, <3>2 DEF RevisionsInOrder, None
  <2>3. ASSUME Init PROVE EncodedOfOneRevision /\ LookedUpAsPublished
    <3>1. Len(maps) \in Nat
      BY <2>1, <2>3 DEF TypeOK
    <3> QED
      BY <2>3, <3>1 DEF Init, EncodedOfOneRevision, EncodedOf, LookedUpAsPublished, NoData, None,
                        Table!Init, Table!NoEntries
  <2>4. ASSUME Init PROVE FilesOfOneRevision /\ VersionAsPublished /\ AgentInOrder
    <3>1. DefaultInjectorConfig \in Nat
      BY <2>1, <2>4 DEF TypeOK, Revision
    <3> QED
      BY <2>4, <3>1 DEF Init, FilesOfOneRevision, VersionAsPublished, AgentInOrder, NoData, None
  <2> QED
    BY <2>1, <2>2, <2>3, <2>4 DEF IInv
<1>2. IInv /\ [Next]_vars => IInv'
  <2> SUFFICES ASSUME IInv, [Next]_vars PROVE IInv'
    OBVIOUS
  <2>1. CASE ConcurrentMapReadAndWrite \/ UNCHANGED vars
    <3>1. UNCHANGED <<cmWorker, config, handlers>>
      BY <2>1 DEF ConcurrentMapReadAndWrite, vars
    <3>2. TypeOK' /\ RevisionsInOrder' /\ MapsOfOneRevision'
      BY <3>1, TypeStep, HandlerKeepsConfig
    <3>3. EncodedOfOneRevision' /\ LookedUpAsPublished'
      BY <3>1 DEF IInv, EncodedOfOneRevision, EncodedOf, LookedUpAsPublished, OneRevision, Agree,
                  Filling, OfJob, cmWorker, config, files, versions, handlers
    <3>4. FilesOfOneRevision' /\ VersionAsPublished' /\ AgentInOrder'
      BY <3>1 DEF IInv, FilesOfOneRevision, VersionAsPublished, AgentInOrder, config, versions,
                  handlers
    <3> QED
      BY <3>2, <3>3, <3>4 DEF IInv
  <2> QED
    BY <2>1, NextSplit, WorkerKeeps, HandlerKeeps
<1> QED
  BY <1>1, <1>2, PTL DEF Spec

\* The variables stay within their types, however the workers and any number of
\* handlers interleave.
THEOREM TypeCorrect == Spec => []TypeOK
<1>1. IInv => TypeOK
  BY DEF IInv
<1> QED
  BY <1>1, IInvInvariant, PTL

\* No Deployment gets files of two revisions, although the map they are encoded
\* from is filled in place: the worker makes a new map for every revision.
THEOREM NoMixedFiles == Spec => []FilesOfOneRevision
<1>1. IInv => FilesOfOneRevision
  BY DEF IInv
<1> QED
  BY <1>1, IInvInvariant, PTL

\* A version is used only as one of its AgentVersions said, as a whole, although
\* the entry may change or be disabled between the reads of a handler.
THEOREM NoMixedVersion == Spec => []VersionAsPublished
<1>1. IInv => VersionAsPublished
  BY DEF IInv
<1> QED
  BY <1>1, IInvInvariant, PTL

\* The parts of a pod's agent are no older than the parts read before them.
THEOREM NoAgentGoesBack == Spec => []AgentInOrder
<1>1. IInv => AgentInOrder
  BY DEF IInv
<1> QED
  BY <1>1, IInvInvariant, PTL
=============================================================================
