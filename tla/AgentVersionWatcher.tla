------------------------- MODULE AgentVersionWatcher -------------------------
(***************************************************************************)
(* pkg/watcher/av_watcher.go: the AgentVersionWatcher keeps                *)
(* config.InjectorAgentVersion in step with the AgentVersion objects of    *)
(* the cluster, through the informer of a shared factory                   *)
(* (client-go/informers/externalversions/factory.go).                      *)
(*                                                                         *)
(* The informer, the listener, the worker and the goroutine of             *)
(* watcher.init are those of ConfigMapWatcher. What differs is the cache:  *)
(* an object is kept under the version that its spec names, so that one    *)
(* object may have left several entries and two may share one; deletions   *)
(* are ignored; and while the informer watches every namespace,            *)
(* InitAgentVersion lists the one of the injector.                         *)
(***************************************************************************)
EXTENDS Naturals, SequencesExt

CONSTANTS
    Names,          \* the AgentVersions of the cluster, as "namespace/name"
    OwnNames,       \* those in the namespace of the injector
    AgentVersionSpec,
    Versions,
    Nil,            \* no object, no entry
    MaxWrites,      \* bound: changes made through the API server
    MaxPending      \* bound: notifications waiting when a resync adds one

Object == AgentVersionSpec \cup {Nil}

ASSUME SpecsHaveVersions ==
    /\ \A s \in AgentVersionSpec : s.version \in Versions
    /\ Nil \notin AgentVersionSpec

ASSUME NamesOK == OwnNames \subseteq Names /\ Nil \notin Names /\ IsFiniteSet(Names)

VARIABLES
    api,        \* the API server's AgentVersions: their specs
    writes,     \* number of changes made to them
    phase,      \* of the process: "boot", "sync", "synced", "init", "running", "fatal"
    indexer,    \* agentVersionInformer.GetIndexer()
    pending,    \* notifications the listener has still to handle
    queue,      \* cmQueue: keys ready, in order
    dirty,      \* cmQueue: keys added and not yet handed to the worker
    pc,         \* where each of the two goroutines is
    job,        \* the agentVersion each of them is caching
    avs,        \* InitAgentVersion's avs it has not cached yet
    listed,     \* InitAgentVersion's avs, all of them
    InjectorAgentVersion,
    source,     \* history: the object each entry was last made from
    published,  \* history: the specs this process may have seen
    fresh       \* history: names whose indexer entry changed once running

external == <<api, writes>>
informer == <<indexer, pending, published, fresh>>
cmQueue == <<queue, dirty>>
threads == <<pc, job, avs, listed>>
table == <<InjectorAgentVersion, source>>
vars == <<external, phase, informer, cmQueue, threads, table>>

Threads == {"init", "worker"}
Notification == [name : Names, old : Object, new : Object]
Job == [name : Names \cup {Nil}, spec : Object]
NoJob == [name |-> Nil, spec |-> Nil]

Promise == INSTANCE VersionTable

-----------------------------------------------------------------------------
(* The process starts, and may be killed and started again. *)

Init ==
    /\ api \in [Names -> Object] /\ writes = 0
    /\ phase = "boot"
    /\ indexer = [n \in Names |-> Nil] /\ pending = <<>>
    /\ published = {} /\ fresh = {}
    /\ queue = <<>> /\ dirty = {}
    /\ pc = [t \in Threads |-> "wait"]
    /\ job = [t \in Threads |-> NoJob]
    /\ avs = {} /\ listed = {}
    /\ InjectorAgentVersion = [v \in Versions |-> Nil]
    /\ source = [v \in Versions |-> Nil]

Restart ==
    /\ phase # "boot"
    /\ phase' = "boot"
    /\ indexer' = [n \in Names |-> Nil] /\ pending' = <<>>
    /\ published' = {} /\ fresh' = {}
    /\ queue' = <<>> /\ dirty' = {}
    /\ pc' = [t \in Threads |-> "wait"]
    /\ job' = [t \in Threads |-> NoJob]
    /\ avs' = {} /\ listed' = {}
    /\ InjectorAgentVersion' = [v \in Versions |-> Nil]
    /\ source' = [v \in Versions |-> Nil]
    /\ UNCHANGED external

-----------------------------------------------------------------------------
(* The API server, the factory and its informer. *)

Write(n, o) ==
    /\ writes < MaxWrites
    /\ o # api[n]
    /\ api' = [api EXCEPT ![n] = o]
    /\ writes' = writes + 1
    /\ UNCHANGED <<phase, informer, cmQueue, threads, table>>

\* NewAgentVersionWatcher asks the factory for the informer (InformerFor), and the
\* factory's Start runs it, once. The watcher runs it again later, of which
\* client-go only warns.
StartFactory ==
    /\ phase = "boot"
    /\ phase' = "sync"
    /\ UNCHANGED <<external, informer, cmQueue, threads, table>>

\* WaitForCacheSync: Start waits, without a limit, for the first list.
WaitForCacheSync ==
    /\ phase = "sync"
    /\ phase' = "synced"
    /\ indexer' = api
    /\ published' = published \cup ({api[n] : n \in Names} \ {Nil})
    /\ UNCHANGED <<external, pending, fresh, cmQueue, threads, table>>

\* AddEventHandler: the handler is sent an Add for everything in the indexer, in
\* no particular order. Then the worker starts, and Start returns.
AddEventHandler ==
    /\ phase = "synced"
    /\ phase' = "init"
    /\ \E names \in SetToSeqs({n \in Names : indexer[n] # Nil}) :
          pending' = [i \in DOMAIN names |->
                        [name |-> names[i], old |-> Nil, new |-> indexer[names[i]]]]
    /\ pc' = [pc EXCEPT !["init"] = "list", !["worker"] = "get"]
    /\ UNCHANGED <<external, indexer, published, fresh, cmQueue, job, avs, listed, table>>

Alive == phase \in {"init", "running"}

\* A change reaches the indexer, and the listener if there is one by now.
Inform(n) ==
    /\ Alive \/ phase = "synced"
    /\ indexer[n] # api[n]
    /\ indexer' = [indexer EXCEPT ![n] = api[n]]
    /\ published' = published \cup ({api[n]} \ {Nil})
    /\ pending' = IF Alive
                  THEN Append(pending, [name |-> n, old |-> indexer[n], new |-> api[n]])
                  ELSE pending
    /\ fresh' = IF phase = "running" THEN fresh \cup {n} ELSE fresh
    /\ UNCHANGED <<external, phase, cmQueue, threads, table>>

\* Every ten seconds each object of the indexer is sent as an update to itself.
Resync(n) ==
    /\ Alive
    /\ indexer[n] # Nil
    /\ Len(pending) < MaxPending
    /\ pending' = Append(pending, [name |-> n, old |-> indexer[n], new |-> indexer[n]])
    /\ UNCHANGED <<external, phase, indexer, published, fresh, cmQueue, threads, table>>

-----------------------------------------------------------------------------
(* The event handlers, run by the listener. *)

processing == IF pc["worker"] = "get" THEN {} ELSE {job["worker"].name}

\* workqueue Add: a key is queued once, and not while it is being processed.
createOrUpdateCache(n) ==
    /\ dirty' = dirty \cup {n}
    /\ queue' = IF n \in dirty \/ n \in processing THEN queue ELSE Append(queue, n)

\* Mutant: only the version is compared.
isAgentVersionEqualPartly(old, new) == old.version = new.version

isAgentVersionEqual(old, new) == old = new

\* Mutant: only the injector's namespace is looked at.
AddFuncOwn(e) ==
    /\ e.old = Nil
    /\ IF e.name \in OwnNames THEN createOrUpdateCache(e.name) ELSE UNCHANGED cmQueue

AddFunc(e) == e.old = Nil /\ createOrUpdateCache(e.name)

UpdateFunc(e) ==
    /\ e.old # Nil /\ e.new # Nil
    /\ IF isAgentVersionEqual(e.old, e.new) THEN UNCHANGED cmQueue
       ELSE createOrUpdateCache(e.name)

DeleteFunc(e) == e.new = Nil /\ UNCHANGED cmQueue

Notify ==
    /\ Alive
    /\ pending # <<>>
    /\ pending' = Tail(pending)
    /\ LET e == Head(pending) IN AddFunc(e) \/ UpdateFunc(e) \/ DeleteFunc(e)
    /\ UNCHANGED <<external, phase, indexer, published, fresh, threads, table>>

-----------------------------------------------------------------------------
(* cacheAgentVersion, run by the worker and by InitAgentVersion. *)

At(t, label) == Alive /\ pc[t] = label

Goto(t, label) == pc' = [pc EXCEPT ![t] = label]

\* Done: a key that was added while it was processed is queued again.
Done == queue' = IF job["worker"].name \in dirty
                 THEN Append(queue, job["worker"].name) ELSE queue

\* Mutant: one entry per object, the first version it had.
cacheUnderFirstVersion(t) ==
    /\ At(t, "cache")
    /\ LET s == job[t].spec IN
       /\ \/ \E v \in Versions : source[v] = job[t].name
                /\ InjectorAgentVersion' = [InjectorAgentVersion EXCEPT ![v] = s]
          \/ /\ \A v \in Versions : source[v] # job[t].name
             /\ InjectorAgentVersion' = [InjectorAgentVersion EXCEPT ![s.version] = s]
       /\ source' = [source EXCEPT ![s.version] = job[t].name]
    /\ IF t = "worker" THEN Goto(t, "get") /\ Done ELSE Goto(t, "next") /\ UNCHANGED queue
    /\ UNCHANGED <<external, phase, informer, dirty, job, avs, listed>>

\* config.InjectorAgentVersion[agentVersion.Spec.Version] = agentVersion.Spec
cacheAgentVersion(t) ==
    /\ At(t, "cache")
    /\ LET s == job[t].spec IN
       /\ InjectorAgentVersion' = [InjectorAgentVersion EXCEPT ![s.version] = s]
       /\ source' = [source EXCEPT ![s.version] = job[t].name]
    /\ IF t = "worker" THEN Goto(t, "get") /\ Done ELSE Goto(t, "next") /\ UNCHANGED queue
    /\ UNCHANGED <<external, phase, informer, dirty, job, avs, listed>>

\* Two goroutines assign to the map at once: the Go runtime may end the process.
ConcurrentMapWrites ==
    /\ At("init", "cache") /\ At("worker", "cache")
    /\ phase' = "fatal"
    /\ UNCHANGED <<external, informer, cmQueue, threads, table>>

-----------------------------------------------------------------------------
(* The worker: processAgentVersion in a loop. *)

\* cmQueue.Get: the key is being processed from now on, and no longer dirty.
GetKey ==
    /\ At("worker", "get") /\ queue # <<>>
    /\ job' = [job EXCEPT !["worker"] = [name |-> Head(queue), spec |-> Nil]]
    /\ queue' = Tail(queue)
    /\ dirty' = dirty \ {Head(queue)}
    /\ Goto("worker", "lookup")
    /\ UNCHANGED <<external, phase, informer, avs, listed, table>>

\* Mutant: exists is not looked at.
GetByKeyUnchecked ==
    /\ At("worker", "lookup")
    /\ LET n == job["worker"].name IN
       job' = [job EXCEPT !["worker"] = [name |-> n, spec |-> indexer[n]]]
    /\ Goto("worker", "cache")
    /\ UNCHANGED <<external, phase, informer, cmQueue, avs, listed, table>>

\* GetIndexer().GetByKey: what is cached is what the indexer holds now.
GetByKey ==
    /\ At("worker", "lookup")
    /\ LET n == job["worker"].name IN
       IF indexer[n] = Nil
       THEN Goto("worker", "get") /\ Done /\ UNCHANGED job
       ELSE /\ job' = [job EXCEPT !["worker"] = [name |-> n, spec |-> indexer[n]]]
            /\ Goto("worker", "cache")
            /\ UNCHANGED queue
    /\ UNCHANGED <<external, phase, informer, dirty, avs, listed, table>>

processAgentVersion == GetKey \/ GetByKey \/ cacheAgentVersion("worker")

(* The goroutine of watcher.init: InitAgentVersion, once. *)

ListAgentVersions ==
    /\ At("init", "list")
    /\ listed' = {[name |-> n, spec |-> indexer[n]] : n \in {m \in OwnNames : indexer[m] # Nil}}
    /\ avs' = listed'
    /\ Goto("init", "next")
    /\ UNCHANGED <<external, phase, informer, cmQueue, job, table>>

NextAgentVersion(av) ==
    /\ At("init", "next") /\ av \in avs
    /\ job' = [job EXCEPT !["init"] = av]
    /\ avs' = avs \ {av}
    /\ Goto("init", "cache")
    /\ UNCHANGED <<external, phase, informer, cmQueue, listed, table>>

\* wg.Wait returns, main goes on to serve admission requests.
InitDone ==
    /\ At("init", "next") /\ avs = {}
    /\ phase' = "running"
    /\ Goto("init", "done")
    /\ UNCHANGED <<external, informer, cmQueue, job, avs, listed, table>>

InitAgentVersion ==
    \/ ListAgentVersions \/ (\E av \in avs : NextAgentVersion(av)) \/ InitDone
    \/ cacheAgentVersion("init")

-----------------------------------------------------------------------------
Next ==
    \/ Restart
    \/ \E n \in Names : \E o \in Object : Write(n, o)
    \/ StartFactory \/ WaitForCacheSync \/ AddEventHandler
    \/ \E n \in Names : Inform(n) \/ Resync(n)
    \/ Notify
    \/ processAgentVersion
    \/ InitAgentVersion
    \/ ConcurrentMapWrites

Spec == Init /\ [][Next]_vars

-----------------------------------------------------------------------------
(* Properties *)

Labels == {"wait", "list", "next", "done", "get", "lookup", "cache"}

TypeOK ==
    /\ api \in [Names -> Object] /\ writes \in Nat
    /\ phase \in {"boot", "sync", "synced", "init", "running", "fatal"}
    /\ indexer \in [Names -> Object]
    /\ pending \in Seq(Notification)
    /\ queue \in Seq(Names) /\ dirty \in SUBSET Names
    /\ pc \in [Threads -> Labels]
    /\ job \in [Threads -> Job]
    /\ \A t \in Threads : pc[t] = "cache" => job[t].name \in Names /\ job[t].spec # Nil
    /\ pc["worker"] = "lookup" => job["worker"].name \in Names
    /\ avs \in SUBSET [name : Names, spec : AgentVersionSpec]
    /\ listed \in SUBSET [name : Names, spec : AgentVersionSpec]
    /\ InjectorAgentVersion \in [Versions -> Object]
    /\ source \in [Versions -> Names \cup {Nil}]
    /\ published \in SUBSET AgentVersionSpec
    /\ fresh \in SUBSET Names

\* Nothing will be done about n: no notification of it waits for the listener, no
\* key for the worker, and the worker is not at it. (That n is dirty does not mean
\* that anybody will take it.)
Settled(n) ==
    /\ \A i \in DOMAIN pending : pending[i].name # n
    /\ \A i \in DOMAIN queue : queue[i] # n
    /\ n \notin processing

\* No version is missing: once the process is running, an AgentVersion of which
\* nothing is in flight can be asked for under its version, whichever namespace
\* it is in and although InitAgentVersion lists one only. Its key is added and
\* processed in separate steps, and deletions on the way are ignored.
VersionsPresent ==
    \A n \in Names :
        phase = "running" /\ Settled(n) /\ indexer[n] # Nil
            => InjectorAgentVersion[indexer[n].version] # Nil

\* An entry is only as old as this: once its object is settled, it is what that
\* object says, unless the object has no such version any more (it was deleted,
\* or its version changed), or InitAgentVersion listed it in this form, wrote it
\* over what the worker had cached, and it has not changed again since.
EntriesCurrent ==
    phase = "running" =>
        \A v \in Versions :
            LET n == source[v] IN
            InjectorAgentVersion[v] # Nil /\ Settled(n) =>
                \/ indexer[n] = Nil \/ indexer[n].version # v
                \/ InjectorAgentVersion[v] = indexer[n]
                \/ n \notin fresh
                   /\ [name |-> n, spec |-> InjectorAgentVersion[v]] \in listed

\* The watcher keeps the promise the handlers rely on.
TableAsPromised == Promise!Spec
=============================================================================
