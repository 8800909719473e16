-------------------------- MODULE ConfigMapWatcher --------------------------
(***************************************************************************)
(* pkg/watcher/cm_watcher.go: the ConfigMapWatcher keeps the variables of  *)
(* pkg/config in step with the configmaps of the injector's namespace.     *)
(*                                                                         *)
(* Four goroutines touch those variables or what they are read from:       *)
(*   - the informer (client-go), which moves its indexer towards the API   *)
(*     server and queues a notification for every change it sees;          *)
(*   - the listener (client-go), which runs AddFunc, UpdateFunc and        *)
(*     DeleteFunc on those notifications in order;                         *)
(*   - the worker started by Start, which runs processConfigMap on the     *)
(*     keys AddFunc and UpdateFunc put in cmQueue;                         *)
(*   - the goroutine of watcher.init, which runs InitConfigMap once.       *)
(* The last two both run cacheConfigMap, without any lock.                 *)
(*                                                                         *)
(* The contents of a configmap are told apart by an id; kind says how      *)
(* cacheConfigMap will fare with them.                                     *)
(***************************************************************************)
EXTENDS Naturals, SequencesExt

CONSTANTS
    ConfigMapName,      \* config.ConfigMapName, the default configuration
    RuleConfigMapName,  \* config.RuleConfigMapName, the injection rules
    Names,              \* the configmaps of the namespace labelled app=joylive-injector
    Files,              \* data keys of the default configmap but injector.yaml
    InjectorConfigName, \* config.InjectorConfigName, the key "injector.yaml"
    Ids,                \* what tells the contents of two configmaps apart
    Nil,                \* no object, no value
    MaxWrites,          \* bound: changes made through the API server
    MaxPending          \* bound: notifications waiting when a resync adds one

\* Every other configmap holds the files of one agent version.
VersionNames == Names \ {ConfigMapName, RuleConfigMapName}
Keys == Files \cup {InjectorConfigName}

ASSUME ConstantsDistinct ==
    /\ ConfigMapName # RuleConfigMapName
    /\ InjectorConfigName \notin Files
    /\ Nil \notin Ids /\ Nil \notin Names

ASSUME FiniteNames == IsFiniteSet(Names)

\* "nil": Data == nil; "plain": nothing in it is parsed; "malformed" and
\* "wellformed": the YAML it holds (injector.yaml, or a rule) does not or does parse.
Data == [id : Ids \cup {Nil}, kind : {"nil", "plain", "malformed", "wellformed"}]
NilData == [id |-> Nil, kind |-> "nil"]
Object == Data \cup {Nil}

ASSUME NilIsNoData == Nil \notin Data

VARIABLES
    api,        \* the API server's configmaps of the namespace
    writes,     \* number of changes made to them
    phase,      \* of the process: "boot", "init", "running", "fatal"
    indexer,    \* configMapInformer.GetIndexer()
    pending,    \* notifications the listener has still to handle
    queue,      \* cmQueue: keys ready, in order
    dirty,      \* cmQueue: keys added and not yet handed to the worker
    pc,         \* where each of the two goroutines is
    job,        \* the configMap each of them is caching
    left,       \* keys the range over configMap.Data has still to visit
    cms,        \* InitConfigMap's cms it has not cached yet
    listed,     \* InitConfigMap's cms, all of them
    DefaultInjectorConfigMap, DefaultInjectorConfig,
    InjectorRules, InjectorConfigMaps,
    fresh       \* history: names whose indexer entry changed once running

external == <<api, writes>>
config == <<DefaultInjectorConfigMap, DefaultInjectorConfig, InjectorRules,
            InjectorConfigMaps>>
informer == <<indexer, pending, fresh>>
cmQueue == <<queue, dirty>>
threads == <<pc, job, left, cms, listed>>
vars == <<external, phase, informer, cmQueue, threads, config>>

Threads == {"init", "worker"}

\* tombstone: client-go tells a deletion it only sees in a new list by wrapping
\* the object it had in a DeletedFinalStateUnknown.
Notification == [name : Names, old : Object, new : Object, tombstone : BOOLEAN]
Job == [name : Names \cup {Nil}, data : Data]

-----------------------------------------------------------------------------
(* The process starts: package variables at their zero values. *)
NoJob == [name |-> Nil, data |-> NilData]

Init ==
    /\ api = [n \in Names |-> Nil] /\ writes = 0
    /\ phase = "boot"
    /\ indexer = [n \in Names |-> Nil] /\ pending = <<>> /\ fresh = {}
    /\ queue = <<>> /\ dirty = {}
    /\ pc = [t \in Threads |-> "wait"]
    /\ job = [t \in Threads |-> NoJob]
    /\ left = [t \in Threads |-> {}]
    /\ cms = {} /\ listed = {}
    /\ DefaultInjectorConfigMap = [k \in Keys |-> Nil]
    /\ DefaultInjectorConfig = Nil
    /\ InjectorRules = Nil
    /\ InjectorConfigMaps = [n \in VersionNames |-> Nil]

\* The process is killed or exited, and the kubelet starts it again.
Restart ==
    /\ phase # "boot"
    /\ phase' = "boot"
    /\ indexer' = [n \in Names |-> Nil] /\ pending' = <<>> /\ fresh' = {}
    /\ queue' = <<>> /\ dirty' = {}
    /\ pc' = [t \in Threads |-> "wait"]
    /\ job' = [t \in Threads |-> NoJob]
    /\ left' = [t \in Threads |-> {}]
    /\ cms' = {} /\ listed' = {}
    /\ DefaultInjectorConfigMap' = [k \in Keys |-> Nil]
    /\ DefaultInjectorConfig' = Nil
    /\ InjectorRules' = Nil
    /\ InjectorConfigMaps' = [n \in VersionNames |-> Nil]
    /\ UNCHANGED external

-----------------------------------------------------------------------------
(* The API server and the informer of client-go. *)

\* What users may put in a configmap: only injector.yaml and the rules are parsed.
Writable(n) ==
    {NilData} \cup
    IF n = ConfigMapName THEN [id : Ids, kind : {"plain", "malformed", "wellformed"}]
    ELSE IF n = RuleConfigMapName THEN [id : Ids, kind : {"malformed", "wellformed"}]
    ELSE [id : Ids, kind : {"plain"}]

Write(n, o) ==
    /\ writes < MaxWrites
    /\ o # api[n]
    /\ api' = [api EXCEPT ![n] = o]
    /\ writes' = writes + 1
    /\ UNCHANGED <<phase, informer, cmQueue, threads, config>>

\* Start: wait for the first list, add the event handler (which is sent an Add
\* for everything in the indexer, in no particular order), start the worker.
Start ==
    /\ phase = "boot"
    /\ phase' = "init"
    /\ indexer' = api
    /\ \E names \in SetToSeqs({n \in Names : api[n] # Nil}) :
          pending' = [i \in DOMAIN names |->
                        [name |-> names[i], old |-> Nil, new |-> api[names[i]],
                         tombstone |-> FALSE]]
    /\ pc' = [pc EXCEPT !["init"] = "list", !["worker"] = "get"]
    /\ UNCHANGED <<external, fresh, cmQueue, job, left, cms, listed, config>>

Alive == phase \in {"init", "running"}

\* A delta of one configmap reaches the indexer and is sent to the listener.
\* Deltas of different configmaps are grouped by key and may overtake each other;
\* a list after a lost watch shows only the last of several changes, and what is
\* missing from it is sent as a tombstone.
Inform(n) ==
    /\ Alive
    /\ indexer[n] # api[n]
    /\ indexer' = [indexer EXCEPT ![n] = api[n]]
    /\ \E tombstone \in IF api[n] = Nil THEN BOOLEAN ELSE {FALSE} :
          pending' = Append(pending, [name |-> n, old |-> indexer[n], new |-> api[n],
                                      tombstone |-> tombstone])
    /\ fresh' = IF phase = "running" THEN fresh \cup {n} ELSE fresh
    /\ UNCHANGED <<external, phase, cmQueue, threads, config>>

\* Every ten seconds each object of the indexer is sent as an update to itself.
Resync(n) ==
    /\ Alive
    /\ indexer[n] # Nil
    /\ Len(pending) < MaxPending
    /\ pending' = Append(pending, [name |-> n, old |-> indexer[n], new |-> indexer[n],
                                   tombstone |-> FALSE])
    /\ UNCHANGED <<external, phase, indexer, fresh, cmQueue, threads, config>>

-----------------------------------------------------------------------------
(* The event handlers, run by the listener. *)

processing == IF pc["worker"] = "get" THEN {} ELSE {job["worker"].name}

\* workqueue Add: a key is queued once, and not while it is being processed.
createOrUpdateCache(n) ==
    /\ dirty' = dirty \cup {n}
    /\ queue' = IF n \in dirty \/ n \in processing THEN queue ELSE Append(queue, n)

\* Mutant: the comparison overlooks part of the contents.
isConfigMapEqualPartly(old, new) == old.id = new.id

isConfigMapEqual(old, new) == old = new

AddFunc(e) ==
    /\ e.old = Nil
    /\ createOrUpdateCache(e.name)
    /\ UNCHANGED config

UpdateFunc(e) ==
    /\ e.old # Nil /\ e.new # Nil
    /\ IF isConfigMapEqual(e.old, e.new) THEN UNCHANGED cmQueue
       ELSE createOrUpdateCache(e.name)
    /\ UNCHANGED config

\* MetaNamespaceKeyFunc has no key for a tombstone, and the handler returns before
\* it gets to the lines that look for one.
DeleteFunc(e) ==
    /\ e.new = Nil
    /\ InjectorRules' = IF e.name = RuleConfigMapName /\ ~e.tombstone
                        THEN Nil ELSE InjectorRules
    /\ UNCHANGED <<cmQueue, DefaultInjectorConfigMap, DefaultInjectorConfig,
                   InjectorConfigMaps>>

Notify ==
    /\ Alive
    /\ pending # <<>>
    /\ pending' = Tail(pending)
    /\ LET e == Head(pending) IN AddFunc(e) \/ UpdateFunc(e) \/ DeleteFunc(e)
    /\ UNCHANGED <<external, phase, indexer, fresh, threads>>

-----------------------------------------------------------------------------
(* cacheConfigMap, run by the worker and by InitConfigMap. *)

At(t, label) == Alive /\ pc[t] = label

Goto(t, label) == pc' = [pc EXCEPT ![t] = label]

\* Mutant: InitConfigMap carries on after an error.
ReturnTolerant(t, err) ==
    /\ Goto(t, IF t = "worker" THEN "get" ELSE "next")
    /\ queue' = IF t = "worker" /\ job[t].name \in dirty
                THEN Append(queue, job[t].name) ELSE queue
    /\ UNCHANGED <<external, phase, informer, dirty, job, cms, listed>>

\* Mutant: Done is not called, so a key added meanwhile is not queued again.
ReturnNotDone(t, err) ==
    /\ Goto(t, IF t = "worker" THEN "get" ELSE "next")
    /\ phase' = IF t = "init" /\ err THEN "fatal" ELSE phase
    /\ UNCHANGED <<external, informer, cmQueue, job, cms, listed>>

\* The call returns: the worker logs an error and calls Done, InitConfigMap goes
\* on to the next configmap or, after an error, watcher.init ends the process.
Return(t, err) ==
    /\ Goto(t, IF t = "worker" THEN "get" ELSE "next")
    /\ phase' = IF t = "init" /\ err THEN "fatal" ELSE phase
    /\ queue' = IF t = "worker" /\ job[t].name \in dirty
                THEN Append(queue, job[t].name) ELSE queue
    /\ UNCHANGED <<external, informer, dirty, job, cms, listed>>

CacheNothing(t) ==
    /\ At(t, "cache") /\ job[t].data.kind = "nil"
    /\ Return(t, TRUE)
    /\ UNCHANGED <<left, config>>

\* config.DefaultInjectorConfigMap = make(...): readers see it fill up key by key.
CacheDefault(t) ==
    /\ At(t, "cache") /\ job[t].data.kind # "nil" /\ job[t].name = ConfigMapName
    /\ DefaultInjectorConfigMap' = [k \in Keys |-> Nil]
    /\ left' = [left EXCEPT ![t] =
                  IF job[t].data.kind = "plain" THEN Files ELSE Keys]
    /\ Goto(t, "fill")
    /\ UNCHANGED <<external, phase, informer, cmQueue, job, cms, listed,
                   DefaultInjectorConfig, InjectorRules, InjectorConfigMaps>>

FillDefault(t, k) ==
    /\ At(t, "fill") /\ k \in left[t]
    /\ DefaultInjectorConfigMap' = [DefaultInjectorConfigMap EXCEPT ![k] = job[t].data.id]
    /\ left' = [left EXCEPT ![t] = @ \ {k}]
    /\ UNCHANGED <<external, phase, informer, cmQueue, pc, job, cms, listed,
                   DefaultInjectorConfig, InjectorRules, InjectorConfigMaps>>

\* injector.yaml, if there is one, is parsed; without one, or when it does not
\* parse, DefaultInjectorConfig stays as it was.
ParseDefault(t) ==
    /\ At(t, "fill") /\ left[t] = {}
    /\ IF job[t].data.kind = "wellformed"
       THEN /\ DefaultInjectorConfig' = job[t].data.id
            /\ Goto(t, "strip")
            /\ UNCHANGED <<external, phase, informer, cmQueue, job, cms, listed>>
       ELSE /\ Return(t, job[t].data.kind = "malformed")
            /\ UNCHANGED DefaultInjectorConfig
    /\ UNCHANGED <<left, DefaultInjectorConfigMap, InjectorRules, InjectorConfigMaps>>

\* delete(config.DefaultInjectorConfigMap, config.InjectorConfigName)
StripDefault(t) ==
    /\ At(t, "strip")
    /\ DefaultInjectorConfigMap' =
          [DefaultInjectorConfigMap EXCEPT ![InjectorConfigName] = Nil]
    /\ Return(t, FALSE)
    /\ UNCHANGED <<left, DefaultInjectorConfig, InjectorRules, InjectorConfigMaps>>

\* Mutant: InjectorRules is assigned before the rules are parsed.
CacheRulesEarly(t) ==
    /\ At(t, "cache") /\ job[t].data.kind # "nil" /\ job[t].name = RuleConfigMapName
    /\ InjectorRules' = job[t].data.id
    /\ Return(t, job[t].data.kind = "malformed")
    /\ UNCHANGED <<left, DefaultInjectorConfigMap, DefaultInjectorConfig,
                   InjectorConfigMaps>>

\* The rules are replaced together, once all of them have parsed.
CacheRules(t) ==
    /\ At(t, "cache") /\ job[t].data.kind # "nil" /\ job[t].name = RuleConfigMapName
    /\ InjectorRules' = IF job[t].data.kind = "malformed" THEN InjectorRules
                        ELSE job[t].data.id
    /\ Return(t, job[t].data.kind = "malformed")
    /\ UNCHANGED <<left, DefaultInjectorConfigMap, DefaultInjectorConfig,
                   InjectorConfigMaps>>

CacheVersion(t) ==
    /\ At(t, "cache") /\ job[t].data.kind # "nil" /\ job[t].name \in VersionNames
    /\ InjectorConfigMaps' = [InjectorConfigMaps EXCEPT ![job[t].name] = job[t].data.id]
    /\ Return(t, FALSE)
    /\ UNCHANGED <<left, DefaultInjectorConfigMap, DefaultInjectorConfig, InjectorRules>>

cacheConfigMap(t) ==
    \/ CacheNothing(t) \/ CacheDefault(t) \/ (\E k \in Keys : FillDefault(t, k))
    \/ ParseDefault(t) \/ StripDefault(t) \/ CacheRules(t) \/ CacheVersion(t)

\* The Go map the next step of t assigns to, if it assigns to one.
MapWritten(t) ==
    CASE pc[t] = "fill" /\ left[t] # {} -> "DefaultInjectorConfigMap"
      [] pc[t] = "strip" -> "DefaultInjectorConfigMap"
      [] pc[t] = "cache" /\ job[t].name \in VersionNames
             /\ job[t].data.kind # "nil" -> "InjectorConfigMaps"
      [] OTHER -> "none"

\* Two goroutines assign to one map at once: the Go runtime may end the process.
ConcurrentMapWrites ==
    /\ Alive
    /\ MapWritten("init") = MapWritten("worker") /\ MapWritten("init") # "none"
    /\ phase' = "fatal"
    /\ UNCHANGED <<external, informer, cmQueue, threads, config>>

-----------------------------------------------------------------------------
(* The worker: processConfigMap in a loop. *)

\* cmQueue.Get: the key is being processed from now on, and no longer dirty.
GetKey ==
    /\ At("worker", "get") /\ queue # <<>>
    /\ job' = [job EXCEPT !["worker"] = [name |-> Head(queue), data |-> NilData]]
    /\ queue' = Tail(queue)
    /\ dirty' = dirty \ {Head(queue)}
    /\ Goto("worker", "lookup")
    /\ UNCHANGED <<external, phase, informer, left, cms, listed, config>>

\* Mutant: exists is not looked at.
GetByKeyUnchecked ==
    /\ At("worker", "lookup")
    /\ LET n == job["worker"].name IN
       job' = [job EXCEPT !["worker"] = [name |-> n, data |-> indexer[n]]]
    /\ Goto("worker", "cache")
    /\ UNCHANGED <<external, phase, informer, cmQueue, left, cms, listed, config>>

\* GetIndexer().GetByKey: what is cached is what the indexer holds now.
GetByKey ==
    /\ At("worker", "lookup")
    /\ LET n == job["worker"].name IN
       IF indexer[n] = Nil
       THEN Return("worker", FALSE)
       ELSE /\ job' = [job EXCEPT !["worker"] = [name |-> n, data |-> indexer[n]]]
            /\ Goto("worker", "cache")
            /\ UNCHANGED <<external, phase, informer, cmQueue, cms, listed>>
    /\ UNCHANGED <<left, config>>

processConfigMap == GetKey \/ GetByKey \/ cacheConfigMap("worker")

(* The goroutine of watcher.init: InitConfigMap, once. *)

ListConfigMaps ==
    /\ At("init", "list")
    /\ listed' = {[name |-> n, data |-> indexer[n]] : n \in {m \in Names : indexer[m] # Nil}}
    /\ cms' = listed'
    /\ Goto("init", "next")
    /\ UNCHANGED <<external, phase, informer, cmQueue, job, left, config>>

NextConfigMap(cm) ==
    /\ At("init", "next") /\ cm \in cms
    /\ job' = [job EXCEPT !["init"] = cm]
    /\ cms' = cms \ {cm}
    /\ Goto("init", "cache")
    /\ UNCHANGED <<external, phase, informer, cmQueue, left, listed, config>>

\* wg.Wait returns, main goes on to serve admission requests.
InitDone ==
    /\ At("init", "next") /\ cms = {}
    /\ phase' = "running"
    /\ Goto("init", "done")
    /\ UNCHANGED <<external, informer, cmQueue, job, left, cms, listed, config>>

InitConfigMap ==
    ListConfigMaps \/ (\E cm \in cms : NextConfigMap(cm)) \/ InitDone
    \/ cacheConfigMap("init")

-----------------------------------------------------------------------------
Next ==
    \/ Restart
    \/ \E n \in Names : \E o \in Writable(n) \cup {Nil} : Write(n, o)
    \/ Start
    \/ \E n \in Names : Inform(n) \/ Resync(n)
    \/ Notify
    \/ processConfigMap
    \/ InitConfigMap
    \/ ConcurrentMapWrites

\* client-go keeps its goroutines going, and the Go scheduler the two others;
\* nobody has to write, to resync or to restart.
Fairness ==
    /\ WF_vars(Start) /\ WF_vars(Notify)
    /\ \A n \in Names : WF_vars(Inform(n))
    /\ WF_vars(processConfigMap) /\ WF_vars(InitConfigMap)

Spec == Init /\ [][Next]_vars
FairSpec == Spec /\ Fairness

-----------------------------------------------------------------------------
(* Properties *)

Labels == {"wait", "list", "next", "done", "get", "lookup", "cache", "fill", "strip"}

TypeOK ==
    /\ api \in [Names -> Object] /\ writes \in Nat
    /\ phase \in {"boot", "init", "running", "fatal"}
    /\ indexer \in [Names -> Object]
    /\ pending \in Seq(Notification)
    /\ queue \in Seq(Names) /\ dirty \in SUBSET Names
    /\ pc \in [Threads -> Labels]
    /\ job \in [Threads -> Job]
    /\ pc["worker"] = "lookup" => job["worker"].name \in Names
    /\ left \in [Threads -> SUBSET Keys]
    /\ cms \in SUBSET Job /\ listed \in SUBSET Job
    /\ DefaultInjectorConfigMap \in [Keys -> Ids \cup {Nil}]
    /\ DefaultInjectorConfig \in Ids \cup {Nil}
    /\ InjectorRules \in Ids \cup {Nil}
    /\ InjectorConfigMaps \in [VersionNames -> Ids \cup {Nil}]
    /\ fresh \in SUBSET Names

\* What config holds once a configmap with data d has been cached. A default
\* configmap whose injector.yaml does not parse leaves that key in the map, and
\* the old DefaultInjectorConfig beside the new files.
CachedKeys(d) == [k \in Keys |->
    IF k \in Files \/ d.kind = "malformed" THEN d.id ELSE Nil]

Reflects(n, d) ==
    /\ n = ConfigMapName /\ d.kind # "nil" => DefaultInjectorConfigMap = CachedKeys(d)
    /\ n = ConfigMapName /\ d.kind = "wellformed" => DefaultInjectorConfig = d.id
    /\ n = RuleConfigMapName /\ d.kind = "wellformed" => InjectorRules = d.id
    /\ n \in VersionNames /\ d.kind # "nil" => InjectorConfigMaps[n] = d.id

\* Nothing about n is on its way through the listener, the queue or the worker.
Settled(n) ==
    /\ \A i \in DOMAIN pending : pending[i].name # n
    /\ n \notin dirty
    /\ n \notin processing

\* No change is lost: once the process is running, a configmap that changed and
\* of which nothing is in flight is in config as the indexer has it. The key is
\* read and used in two steps, added again while it is processed, and compared
\* with an old version, while the delete handler writes config on the side.
NoChangeLost ==
    \A n \in fresh :
        phase = "running" /\ Settled(n) /\ indexer[n] # Nil => Reflects(n, indexer[n])

\* The server only gets to run on configuration that was read whole: every
\* configmap InitConfigMap listed was cached without error, and when the default
\* configmap was among them with an injector.yaml, DefaultInjectorConfig is set
\* (addPodInitContainer dereferences it without a check).
RunningMeansConfigured ==
    phase = "running" =>
        \A cm \in listed :
            /\ cm.data.kind \in {"plain", "wellformed"}
            /\ cm.name = ConfigMapName /\ cm.data.kind = "wellformed"
                  => DefaultInjectorConfig # Nil

\* What changes in the API server while the process runs does reach config,
\* unless it changes again or the process is restarted. Of a configmap without
\* data there is nothing to reach it.
ChangesReachConfig ==
    \A n \in Names : \A d \in Writable(n) \ {NilData} :
        (phase = "running" /\ api[n] = d /\ indexer[n] # d)
            ~> (Reflects(n, d) \/ api[n] # d \/ phase # "running")

\* Rules are replaced whole, and only by rules that parsed: a step that changes
\* InjectorRules either empties it, on a deletion of the rule configmap that was
\* watched (one that only a new list shows leaves the rules in force), or sets it
\* to rules of a configmap some goroutine read from the indexer.
RulesReplacedWhole ==
    [][InjectorRules' # InjectorRules /\ phase' # "boot" =>
         \/ InjectorRules' = Nil /\ pending # <<>>
               /\ Head(pending).name = RuleConfigMapName /\ Head(pending).new = Nil
               /\ ~Head(pending).tombstone
         \/ \E t \in Threads : /\ job[t].name = RuleConfigMapName
                               /\ job[t].data = [id |-> InjectorRules', kind |-> "wellformed"]
      ]_vars
=============================================================================
