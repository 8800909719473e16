---------------------------- MODULE SharedConfig ----------------------------
(***************************************************************************)
(* The variables of pkg/config in the running process: the workers of the  *)
(* two watchers assign to them (pkg/watcher) while the admission handlers  *)
(* read them (pkg/mutation), in goroutines of their own and without a      *)
(* lock.                                                                   *)
(*                                                                         *)
(* What is read from a configmap is told apart by the number of its        *)
(* revision; None stands for a key, an entry or a value that is not there. *)
(* Go maps are references: the map that a handler has taken from           *)
(* DefaultInjectorConfigMap may still be filled by the worker, and is no   *)
(* longer the current one once the worker has made another. A handler may  *)
(* hold it while it waits for the API server.                              *)
(*                                                                         *)
(* The table of agent versions is the one VersionTable promises, which     *)
(* AgentVersionWatcher implements; the configmap worker takes the steps of *)
(* ConfigMapWatcher's cacheConfigMap.                                      *)
(***************************************************************************)
EXTENDS Naturals, Sequences, FiniteSets

CONSTANTS
    Files,              \* data keys of the default configmap but injector.yaml
    InjectorConfigName, \* the key "injector.yaml"
    ConfigMapNames,     \* the configmaps of agent versions
    Versions,           \* agent versions
    Nil,
    Requests,           \* admission requests under way, each again and again
    MaxRevisions,       \* bound: revisions of configmaps that get to the worker
    MaxReads            \* bound: reads of DefaultInjectorConfig for one pod

Keys == Files \cup {InjectorConfigName}
AgentVersionSpec == [version : Versions, enable : BOOLEAN, configMapName : ConfigMapNames]
None == 0
Revision == Nat
Contents == [Keys -> Revision]      \* of one Go map

ASSUME ConstantsOK ==
    /\ InjectorConfigName \notin Files /\ MaxReads \in Nat
    /\ Nil \notin Versions /\ Nil \notin AgentVersionSpec /\ Nil \notin ConfigMapNames

VARIABLES
    phase,      \* of the process: "running", "fatal"
    revisions,  \* number of revisions handed to the configmap worker
    worker,     \* where it is: "get", "cache", "fill", "strip"
    job,        \* the configMap it is caching
    left,       \* keys it has still to copy
    maps,       \* every map ever assigned to DefaultInjectorConfigMap
    DefaultInjectorConfigMap,   \* index of the current one in maps, or None
    DefaultInjectorConfig,      \* revision it was parsed from
    InjectorConfigMaps,         \* revision of each version's files
    published, InjectorAgentVersion,    \* see VersionTable
    pc,         \* where each handler is
    asked,      \* the version its object asks for, or Nil
    spec,       \* the agent version it has looked up, or Nil
    data,       \* configMapData: a map of maps, or a version's configmap
    unsent,     \* keys of it that are not yet encoded
    sent,       \* what is encoded
    agent       \* revisions of DefaultInjectorConfig the pod's agent is made from, in
                \* the order of the reads

process == <<phase>>
cmWorker == <<revisions, worker, job, left>>
files == <<maps, DefaultInjectorConfigMap>>
versions == <<published, InjectorAgentVersion>>
config == <<files, DefaultInjectorConfig, InjectorConfigMaps, versions>>
handlers == <<pc, asked, spec, data, unsent, sent, agent>>
vars == <<process, cmWorker, config, handlers>>

Table == INSTANCE VersionTable

Job == [name : ConfigMapNames \cup {Nil}, rev : Revision,
        kind : {"plain", "malformed", "wellformed"}]
Empty == [k \in Keys |-> None]

\* Where configMapData comes from: the map at the index ref of maps, or the files of
\* the configmap name, which are the informer's own object and never change; ref
\* is then their revision.
NoData == [name |-> Nil, ref |-> None]
Data == [name : ConfigMapNames \cup {Nil}, ref : Nat]

Init ==
    /\ phase = "running"
    /\ revisions = 1 /\ worker = "get" /\ left = {}
    /\ job = [name |-> Nil, rev |-> None, kind |-> "plain"]
    /\ \/ /\ maps = <<[k \in Keys |-> IF k \in Files THEN 1 ELSE None]>>
          /\ DefaultInjectorConfigMap = 1 /\ DefaultInjectorConfig = 1
       \/ /\ maps = <<>>
          /\ DefaultInjectorConfigMap = None /\ DefaultInjectorConfig = None
    /\ InjectorConfigMaps = [c \in ConfigMapNames |-> None]
    /\ Table!Init
    /\ pc = [r \in Requests |-> "idle"]
    /\ asked = [r \in Requests |-> Nil]
    /\ spec = [r \in Requests |-> Nil]
    /\ data = [r \in Requests |-> NoData]
    /\ unsent = [r \in Requests |-> {}]
    /\ sent = [r \in Requests |-> Empty]
    /\ agent = [r \in Requests |-> <<>>]

Running == phase = "running"

-----------------------------------------------------------------------------
(* The workers. *)

\* The AgentVersionWatcher learns of specs and caches them.
AgentVersions ==
    /\ Running
    /\ \/ \E s \in AgentVersionSpec : s \notin published /\ Table!Publish({s})
       \/ \E s \in published : Table!cacheAgentVersion(s)
    /\ UNCHANGED <<process, cmWorker, files, DefaultInjectorConfig,
                   InjectorConfigMaps, handlers>>

\* processConfigMap takes the next revision of a configmap: that of a version
\* (name), or the default one (Nil), which may have no injector.yaml or one that
\* does not parse.
ConfigMapChanges(name, kind) ==
    /\ Running /\ worker = "get" /\ revisions < MaxRevisions
    /\ name # Nil => kind = "plain"
    /\ revisions' = revisions + 1
    /\ job' = [name |-> name, rev |-> revisions + 1, kind |-> kind]
    /\ worker' = "cache"
    /\ UNCHANGED <<process, left, config, handlers>>

\* config.InjectorConfigMaps[configMap.Name] = configMap.Data
CacheVersion ==
    /\ Running /\ worker = "cache" /\ job.name # Nil
    /\ InjectorConfigMaps' = [InjectorConfigMaps EXCEPT ![job.name] = job.rev]
    /\ worker' = "get"
    /\ UNCHANGED <<process, revisions, job, left, files, DefaultInjectorConfig,
                   versions, handlers>>

KeysOfJob == IF job.kind = "plain" THEN Files ELSE Keys

\* Mutant: the map is emptied and filled again, not made anew.
CacheDefaultInPlace ==
    /\ Running /\ worker = "cache" /\ job.name = Nil
    /\ maps' = IF maps = <<>> THEN <<Empty>> ELSE [maps EXCEPT ![1] = Empty]
    /\ DefaultInjectorConfigMap' = 1
    /\ left' = KeysOfJob
    /\ worker' = "fill"
    /\ UNCHANGED <<process, revisions, job, DefaultInjectorConfig, InjectorConfigMaps,
                   versions, handlers>>

\* config.DefaultInjectorConfigMap = make(...)
CacheDefault ==
    /\ Running /\ worker = "cache" /\ job.name = Nil
    /\ maps' = Append(maps, Empty)
    /\ DefaultInjectorConfigMap' = Len(maps) + 1
    /\ left' = KeysOfJob
    /\ worker' = "fill"
    /\ UNCHANGED <<process, revisions, job, DefaultInjectorConfig, InjectorConfigMaps,
                   versions, handlers>>

\* The current map, with k set to v.
Assigned(k, v) == [maps EXCEPT ![DefaultInjectorConfigMap] = [@ EXCEPT ![k] = v]]

FillDefault(k) ==
    /\ Running /\ worker = "fill" /\ k \in left
    /\ maps' = Assigned(k, job.rev)
    /\ left' = left \ {k}
    /\ UNCHANGED <<process, revisions, worker, job, DefaultInjectorConfigMap,
                   DefaultInjectorConfig, InjectorConfigMaps, versions, handlers>>

ParseDefault ==
    /\ Running /\ worker = "fill" /\ left = {}
    /\ IF job.kind = "wellformed"
       THEN DefaultInjectorConfig' = job.rev /\ worker' = "strip"
       ELSE worker' = "get" /\ UNCHANGED DefaultInjectorConfig
    /\ UNCHANGED <<process, revisions, job, left, files, InjectorConfigMaps,
                   versions, handlers>>

\* delete(config.DefaultInjectorConfigMap, config.InjectorConfigName)
StripDefault ==
    /\ Running /\ worker = "strip"
    /\ maps' = Assigned(InjectorConfigName, None)
    /\ worker' = "get"
    /\ UNCHANGED <<process, revisions, job, left, DefaultInjectorConfigMap,
                   DefaultInjectorConfig, InjectorConfigMaps, versions, handlers>>

cacheConfigMap ==
    CacheVersion \/ CacheDefault \/ (\E k \in Keys : FillDefault(k))
    \/ ParseDefault \/ StripDefault

-----------------------------------------------------------------------------
(* The handlers. *)

At(r, label) == Running /\ pc[r] = label
Goto(r, label) == pc' = [pc EXCEPT ![r] = label]
Reading == UNCHANGED <<process, cmWorker, config>>

\* createOrUpdateConfigMap takes the default map before it looks at the version.
BeginDeploy(r, v) ==
    /\ At(r, "idle")
    /\ asked' = [asked EXCEPT ![r] = v]
    /\ data' = [data EXCEPT ![r] = [name |-> Nil, ref |-> DefaultInjectorConfigMap]]
    /\ sent' = [sent EXCEPT ![r] = Empty]
    /\ Goto(r, IF v = Nil THEN "send" ELSE "lookup")
    /\ UNCHANGED <<spec, unsent, agent>> /\ Reading

\* Mutant: ok is not looked at.
LookUpUnchecked(r) ==
    /\ At(r, "lookup")
    /\ spec' = [spec EXCEPT ![r] = InjectorAgentVersion[asked[r]]]
    /\ Goto(r, "choose")
    /\ UNCHANGED <<asked, data, unsent, sent, agent>> /\ Reading

\* agentVersion, ok := config.InjectorAgentVersion[version], a copy of the entry
LookUp(r) ==
    /\ At(r, "lookup")
    /\ spec' = [spec EXCEPT ![r] = InjectorAgentVersion[asked[r]]]
    /\ Goto(r, IF InjectorAgentVersion[asked[r]] = Nil THEN "send" ELSE "choose")
    /\ UNCHANGED <<asked, data, unsent, sent, agent>> /\ Reading

Usable(s) == s.enable /\ InjectorConfigMaps[s.configMapName] # None

\* Mutant: the entry is looked up once more for the name of its configmap.
ChooseTwice(r) ==
    /\ At(r, "choose")
    /\ data' = [data EXCEPT ![r] =
                  IF Usable(spec[r])
                  THEN [name |-> InjectorAgentVersion[asked[r]].configMapName,
                        ref |-> InjectorConfigMaps[InjectorAgentVersion[asked[r]].configMapName]]
                  ELSE @]
    /\ Goto(r, "send")
    /\ UNCHANGED <<asked, spec, unsent, sent, agent>> /\ Reading

\* The files of the version, if it is enabled and they are there.
Choose(r) ==
    /\ At(r, "choose")
    /\ data' = [data EXCEPT ![r] =
                  IF Usable(spec[r])
                  THEN [name |-> spec[r].configMapName,
                        ref |-> InjectorConfigMaps[spec[r].configMapName]]
                  ELSE @]
    /\ Goto(r, "send")
    /\ UNCHANGED <<asked, spec, unsent, sent, agent>> /\ Reading

\* CreateOrUpdateConfigMap has got the existing configmap, and sends the new data.
Send(r) ==
    /\ At(r, "send")
    /\ IF data[r].name # Nil
       THEN /\ sent' = [sent EXCEPT ![r] = [k \in Keys |->
                          IF k \in Files THEN data[r].ref ELSE None]]
            /\ Goto(r, "sent")
            /\ UNCHANGED unsent
       ELSE /\ unsent' = [unsent EXCEPT ![r] = IF data[r].ref = None THEN {} ELSE Keys]
            /\ Goto(r, "encode")
            /\ UNCHANGED sent
    /\ UNCHANGED <<asked, spec, data, agent>> /\ Reading

\* The map is encoded key by key, as it is by then.
Encode(r, k) ==
    /\ At(r, "encode") /\ k \in unsent[r]
    /\ sent' = [sent EXCEPT ![r] = [@ EXCEPT ![k] = maps[data[r].ref][k]]]
    /\ unsent' = [unsent EXCEPT ![r] = @ \ {k}]
    /\ UNCHANGED <<pc, asked, spec, data, agent>> /\ Reading

Encoded(r) ==
    /\ At(r, "encode") /\ unsent[r] = {}
    /\ Goto(r, "sent")
    /\ UNCHANGED <<asked, spec, data, unsent, sent, agent>> /\ Reading

createOrUpdateConfigMap(r) ==
    (\E v \in Versions \cup {Nil} : BeginDeploy(r, v))
    \/ LookUp(r) \/ Choose(r) \/ Send(r) \/ (\E k \in Keys : Encode(r, k)) \/ Encoded(r)

\* addPodInitContainer reads DefaultInjectorConfig for the version, the image and the
\* variables of the init container, modifyPodContainer once more for each container.
\* Without one they panic, and the pod is let down.
Read(r) == agent' = [agent EXCEPT ![r] = Append(@, DefaultInjectorConfig)]

\* The pod comes with the init container, and keeps the one it has.
BeginInjected(r) ==
    /\ At(r, "idle") /\ Goto(r, "containers")
    /\ UNCHANGED <<asked, spec, data, unsent, sent, agent>> /\ Reading

BeginPod(r, v) ==
    /\ At(r, "idle") /\ DefaultInjectorConfig # None
    /\ asked' = [asked EXCEPT ![r] = v]
    /\ Read(r)
    /\ Goto(r, IF v = Nil THEN "image" ELSE "podLookup")
    /\ UNCHANGED <<spec, data, unsent, sent>> /\ Reading

LookUpForPod(r) ==
    /\ At(r, "podLookup")
    /\ spec' = [spec EXCEPT ![r] = InjectorAgentVersion[asked[r]]]
    /\ Goto(r, IF InjectorAgentVersion[asked[r]] = Nil THEN "image" ELSE "podChoose")
    /\ UNCHANGED <<asked, data, unsent, sent, agent>> /\ Reading

\* agentVersion = v.Version: data stands for the version whose image is used.
ChooseForPod(r) ==
    /\ At(r, "podChoose")
    /\ data' = [data EXCEPT ![r] =
                  IF Usable(spec[r])
                  THEN [name |-> spec[r].configMapName,
                        ref |-> InjectorConfigMaps[spec[r].configMapName]]
                  ELSE @]
    /\ Goto(r, "image")
    /\ UNCHANGED <<asked, spec, unsent, sent, agent>> /\ Reading

ReadImage(r) ==
    /\ At(r, "image") /\ Read(r) /\ Goto(r, "envs")
    /\ UNCHANGED <<asked, spec, data, unsent, sent>> /\ Reading

\* Mutant: the variables are those of the configuration the version came from.
ReadEnvsEarly(r) ==
    /\ At(r, "envs") /\ Goto(r, "containers")
    /\ agent' = [agent EXCEPT ![r] = Append(@, @[1])]
    /\ UNCHANGED <<asked, spec, data, unsent, sent>> /\ Reading

ReadEnvs(r) ==
    /\ At(r, "envs") /\ Read(r) /\ Goto(r, "containers")
    /\ UNCHANGED <<asked, spec, data, unsent, sent>> /\ Reading

\* One container of the pod, which may have more.
modifyPodContainer(r) ==
    /\ At(r, "containers") /\ DefaultInjectorConfig # None
    /\ Read(r)
    /\ \/ Goto(r, "injected")
       \/ Len(agent[r]) + 1 < MaxReads /\ Goto(r, "containers")
    /\ UNCHANGED <<asked, spec, data, unsent, sent>> /\ Reading

addPodInitContainer(r) ==
    (\E v \in Versions \cup {Nil} : BeginPod(r, v))
    \/ BeginInjected(r)
    \/ LookUpForPod(r) \/ ChooseForPod(r) \/ ReadImage(r) \/ ReadEnvs(r)

\* The answer is sent, or a panic ends the request, and the goroutine is free for
\* another one.
Answer(r) ==
    /\ Running
    /\ \/ pc[r] \in {"sent", "injected"}
       \/ pc[r] = "containers" /\ DefaultInjectorConfig = None
    /\ Goto(r, "idle")
    /\ asked' = [asked EXCEPT ![r] = Nil]
    /\ spec' = [spec EXCEPT ![r] = Nil]
    /\ data' = [data EXCEPT ![r] = NoData]
    /\ sent' = [sent EXCEPT ![r] = Empty]
    /\ agent' = [agent EXCEPT ![r] = <<>>]
    /\ UNCHANGED unsent /\ Reading

-----------------------------------------------------------------------------
(* A Go map may not be read while it is assigned to: the runtime may notice,  *)
(* and then ends the process.                                                 *)

WritesFiles == worker = "strip" \/ (worker = "fill" /\ left # {})

ConcurrentMapReadAndWrite ==
    /\ Running
    /\ \E r \in Requests :
          \/ /\ pc[r] = "encode" /\ WritesFiles
             /\ data[r].ref = DefaultInjectorConfigMap
          \/ /\ pc[r] \in {"choose", "podChoose"}
             /\ worker = "cache" /\ job.name # Nil
          \/ /\ pc[r] \in {"lookup", "podLookup"}
             /\ published # {}      \* one of them may be being cached
    /\ phase' = "fatal"
    /\ UNCHANGED <<cmWorker, config, handlers>>

Next ==
    \/ AgentVersions
    \/ \E name \in ConfigMapNames \cup {Nil}, kind \in {"plain", "malformed", "wellformed"} :
          ConfigMapChanges(name, kind)
    \/ cacheConfigMap
    \/ \E r \in Requests :
          createOrUpdateConfigMap(r) \/ addPodInitContainer(r) \/ modifyPodContainer(r)
          \/ Answer(r)
    \/ ConcurrentMapReadAndWrite

Spec == Init /\ [][Next]_vars

-----------------------------------------------------------------------------
(* Properties *)

Labels == {"idle", "lookup", "choose", "send", "encode", "sent",
           "podLookup", "podChoose", "image", "envs", "containers", "injected"}

TypeOK ==
    /\ phase \in {"running", "fatal"}
    /\ revisions \in Nat /\ worker \in {"get", "cache", "fill", "strip"}
    /\ job \in Job /\ left \in SUBSET Keys
    /\ maps \in Seq(Contents)
    /\ DefaultInjectorConfigMap \in 0..Len(maps)
    /\ DefaultInjectorConfig \in Revision
    /\ InjectorConfigMaps \in [ConfigMapNames -> Revision]
    /\ published \in SUBSET AgentVersionSpec
    /\ InjectorAgentVersion \in [Versions -> AgentVersionSpec \cup {Nil}]
    /\ pc \in [Requests -> Labels]
    /\ asked \in [Requests -> Versions \cup {Nil}]
    /\ spec \in [Requests -> AgentVersionSpec \cup {Nil}]
    /\ \A r \in Requests : pc[r] \in {"choose", "podChoose"} => spec[r] # Nil
    /\ \A r \in Requests : pc[r] \in {"lookup", "podLookup"} => asked[r] # Nil
    /\ data \in [Requests -> Data]
    /\ unsent \in [Requests -> SUBSET Keys]
    /\ sent \in [Requests -> Contents]
    /\ agent \in [Requests -> Seq(Revision)]

\* The files that a Deployment gets, be they complete or not, come from one
\* revision of one configmap, although the map they are encoded from, key by key,
\* may be filled or replaced by the worker at the same time.
FilesOfOneRevision ==
    \A r \in Requests : pc[r] = "sent" =>
        \A k, l \in Keys : sent[r][k] # None /\ sent[r][l] # None => sent[r][k] = sent[r][l]

\* A version's files, or its image, are only used as some AgentVersion said: one
\* that was enabled, of the version that was asked for, with the configmap used,
\* which is there. The entry may be replaced and the version disabled between the
\* reads.
VersionAsPublished ==
    \A r \in Requests : data[r].name # Nil =>
        /\ [version |-> asked[r], enable |-> TRUE, configMapName |-> data[r].name] \in published
        /\ data[r].ref # None /\ InjectorConfigMaps[data[r].name] >= data[r].ref

\* What a pod gets of DefaultInjectorConfig is read in several places and may come
\* from as many revisions, but a later place never has an older one: a container's
\* variables are at least as new as the init container, and as the variables of the
\* containers before it.
AgentInOrder ==
    \A r \in Requests : \A i \in DOMAIN agent[r] :
        /\ agent[r][i] <= DefaultInjectorConfig
        /\ \A j \in DOMAIN agent[r] : j <= i => agent[r][j] <= agent[r][i]

(* A statement of the code that does not hold. *)

\* pkg/config/config.go:69: "DefaultInjectorConfigMap store default injector
\* configMap data". It does so only once the worker has filled it, and stripped it
\* of injector.yaml: a Deployment admitted before gets fewer files, or that one too.
StoresConfigMapData ==
    \A r \in Requests : pc[r] = "sent" /\ data[r].ref # None =>
        \A k \in Files : sent[r][k] # None
=============================================================================
