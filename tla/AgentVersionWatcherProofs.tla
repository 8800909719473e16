---------------------- MODULE AgentVersionWatcherProofs ----------------------
(***************************************************************************)
(* Proofs about AgentVersionWatcher, for all AgentVersions, namespaces and *)
(* specs and without the bounds TLC needs: no version is missing, no entry *)
(* is stale, and the watcher implements VersionTable.                      *)
(***************************************************************************)
EXTENDS AgentVersionWatcher, FiniteSetTheorems, TLAPS

-----------------------------------------------------------------------------
(* The inductive invariant: where an object is that the table does not reflect. *)

Announces(e, n) == e.name = n /\ e.new # Nil /\ e.old # e.new

Announced(n) == \E i \in DOMAIN pending : Announces(pending[i], n)

LookingUp(n) == pc["worker"] = "lookup" /\ job["worker"].name = n

Caching(n) == pc["worker"] = "cache" /\ job["worker"] = [name |-> n, spec |-> indexer[n]]

\* The entry for the version of n: made from n as it is, or from n as
\* InitAgentVersion listed it, or from another object.
Reflects(n) ==
    LET v == indexer[n].version
    IN  /\ InjectorAgentVersion[v] # Nil
        /\ source[v] = n =>
              \/ InjectorAgentVersion[v] = indexer[n]
              \/ n \notin fresh /\ [name |-> n, spec |-> InjectorAgentVersion[v]] \in listed

Arrived(n) == n \notin processing /\ Reflects(n)

Tracked(n) == Announced(n) \/ n \in dirty \/ LookingUp(n) \/ Caching(n) \/ Arrived(n)

EveryObjectTracked == Alive => \A n \in Names : indexer[n] # Nil => Tracked(n)

\* A dirty key has somebody to take it.
DirtyKeysTaken ==
    \A n \in dirty : n \in processing \/ \E i \in DOMAIN queue : queue[i] = n

Phases ==
    /\ phase = "running" => pc["init"] = "done"
    /\ phase \in {"boot", "sync", "synced", "init"} => fresh = {}
    /\ phase \in {"boot", "sync", "synced"} => dirty = {} /\ listed = {}
    /\ pc["init"] = "list" => listed = {}

SourcesKnown == \A v \in Versions : InjectorAgentVersion[v] # Nil => source[v] \in Names

\* Whatever is on its way to the table is a spec that some object had.
SpecsPublished ==
    /\ \A n \in Names : indexer[n] # Nil => indexer[n] \in published
    /\ \A av \in listed : av.spec \in published
    /\ avs \subseteq listed
    /\ pc["init"] = "cache" => job["init"] \in listed
    /\ pc["worker"] = "cache" => job["worker"].spec \in published

IInv ==
    /\ TypeOK /\ Phases /\ SourcesKnown /\ SpecsPublished
    /\ DirtyKeysTaken /\ EveryObjectTracked

-----------------------------------------------------------------------------
(* Lemmas. *)

\* The order in which AddEventHandler replays the indexer goes through each of the
\* objects.
LEMMA ReplayType ==
    ASSUME NEW S \in SUBSET Names, NEW names \in SetToSeqs(S)
    PROVE  /\ names \in Seq(Names)
           /\ \A i \in DOMAIN names : names[i] \in S
           /\ \A n \in S : \E i \in DOMAIN names : names[i] = n
<1>1. IsFiniteSet(S)
  BY NamesOK, FS_Subset
<1>2. Cardinality(S) \in Nat
  BY <1>1, FS_CardinalityType
<1> DEFINE D == 1..Cardinality(S)
<1>3. names \in [D -> S] /\ \A i, j \in D : i # j => names[i] # names[j]
  BY DEF SetToSeqs
<1>4. names \in Seq(S)
  BY <1>2, <1>3
<1>5. names \in Seq(Names)
  BY <1>4
<1>6. names \in Injection(D, S)
  BY <1>3 DEF Injection, IsInjective
<1>7. Cardinality(D) = Cardinality(S)
  BY <1>2, FS_Interval
<1>8. names \in Surjection(D, S)
  BY <1>1, <1>6, <1>7, FS_Injection
<1> QED
  BY <1>3, <1>5, <1>8 DEF Surjection

\* The notifications of AddEventHandler.
LEMMA ReplayedType ==
    ASSUME TypeOK, AddEventHandler
    PROVE  /\ pending' \in Seq(Notification)
           /\ \A n \in Names : indexer[n] # Nil =>
                 \E i \in DOMAIN pending' : Announces(pending'[i], n)
<1> DEFINE S == {n \in Names : indexer[n] # Nil}
<1>1. PICK names \in SetToSeqs(S) :
         pending' = [i \in DOMAIN names |->
                       [name |-> names[i], old |-> Nil, new |-> indexer[names[i]]]]
  BY DEF AddEventHandler
<1>2. /\ names \in Seq(Names)
      /\ \A i \in DOMAIN names : names[i] \in S
      /\ \A n \in S : \E i \in DOMAIN names : names[i] = n
  BY ReplayType
<1>3. DOMAIN names = 1..Len(names) /\ Len(names) \in Nat
  BY <1>2
<1>4. \A i \in 1..Len(names) :
         [name |-> names[i], old |-> Nil, new |-> indexer[names[i]]] \in Notification
  BY <1>2, <1>3 DEF Notification, Object, TypeOK
<1>5. pending' \in Seq(Notification)
  BY <1>1, <1>3, <1>4
<1>6. ASSUME NEW n \in Names, indexer[n] # Nil
      PROVE  \E i \in DOMAIN pending' : Announces(pending'[i], n)
  BY <1>1, <1>2, <1>6 DEF Announces
<1> QED
  BY <1>5, <1>6

LEMMA NotifyType ==
    ASSUME TypeOK, Notify
    PROVE  TypeOK'
<1> USE DEF external, informer, cmQueue, table, threads
<1> DEFINE e == Head(pending)
<1>1. e \in Notification /\ Tail(pending) \in Seq(Notification)
  BY DEF Notify, TypeOK
<1>2. e.name \in Names
  BY <1>1 DEF Notification
<1>3. createOrUpdateCache(e.name) => dirty' \in SUBSET Names /\ queue' \in Seq(Names)
  BY <1>2 DEF createOrUpdateCache, TypeOK
<1>4. /\ pending' = Tail(pending)
      /\ UNCHANGED <<external, phase, indexer, published, fresh, threads, table>>
  BY DEF Notify
<1>5. dirty' \in SUBSET Names /\ queue' \in Seq(Names)
  BY <1>3 DEF Notify, AddFunc, UpdateFunc, DeleteFunc, TypeOK
<1> QED
  BY <1>1, <1>4, <1>5 DEF TypeOK

\* What Done puts into the queue is a key.
LEMMA DoneType ==
    ASSUME TypeOK, Done, job["worker"].name \in Names
    PROVE  queue' \in Seq(Names)
<1>1. queue \in Seq(Names)
  BY DEF TypeOK
<1> QED
  BY <1>1 DEF Done

LEMMA cacheAgentVersionType ==
    ASSUME TypeOK, NEW t \in Threads, cacheAgentVersion(t)
    PROVE  TypeOK'
<1> USE DEF At, Labels, external, informer
<1> DEFINE s == job[t].spec
<1>1. pc[t] = "cache" /\ job[t].name \in Names /\ s \in AgentVersionSpec
  BY DEF cacheAgentVersion, TypeOK, Job, Object
<1>2. s.version \in Versions
  BY <1>1, SpecsHaveVersions
<1>3. InjectorAgentVersion' \in [Versions -> Object] /\ source' \in [Versions -> Names \cup {Nil}]
  BY <1>1, <1>2 DEF cacheAgentVersion, TypeOK, Object
<1>4. CASE t = "worker"
  <2>1. queue' \in Seq(Names) /\ pc' = [pc EXCEPT !["worker"] = "get"]
    BY <1>1, <1>4, DoneType DEF cacheAgentVersion, Goto
  <2> QED
    BY <1>3, <1>4, <2>1 DEF cacheAgentVersion, TypeOK, Threads
<1>5. CASE t # "worker"
  BY <1>3, <1>5 DEF cacheAgentVersion, Goto, TypeOK, Threads
<1> QED
  BY <1>4, <1>5

LEMMA TypeStep ==
    ASSUME TypeOK, [Next]_vars
    PROVE  TypeOK'
<1> USE DEF At, Goto, Labels, Alive, external, informer, cmQueue, table, threads
<1>1. CASE Restart
  BY <1>1 DEF Restart, TypeOK, Threads, NoJob, Job, Object
<1>2. CASE \E n \in Names : \E o \in Object : Write(n, o)
  BY <1>2 DEF Write, TypeOK
<1>3. CASE StartFactory
  BY <1>3 DEF StartFactory, TypeOK
<1>4. CASE WaitForCacheSync
  BY <1>4 DEF WaitForCacheSync, TypeOK, Object
<1>5. CASE AddEventHandler
  BY <1>5, ReplayedType DEF AddEventHandler, TypeOK, Threads
<1>6. ASSUME NEW n \in Names, Inform(n) PROVE TypeOK'
  <2>1. [name |-> n, old |-> indexer[n], new |-> api[n]] \in Notification
    BY DEF Notification, TypeOK
  <2>2. pending' \in Seq(Notification)
    BY <1>6, <2>1 DEF Inform, TypeOK
  <2> QED
    BY <1>6, <2>2 DEF Inform, TypeOK, Object
<1>7. ASSUME NEW n \in Names, Resync(n) PROVE TypeOK'
  <2>1. [name |-> n, old |-> indexer[n], new |-> indexer[n]] \in Notification
    BY DEF Notification, TypeOK
  <2> QED
    BY <1>7, <2>1 DEF Resync, TypeOK
<1>8. CASE Notify
  BY <1>8, NotifyType
<1>9. CASE GetKey
  BY <1>9 DEF GetKey, TypeOK, Threads, Job, Object
<1>10. CASE GetByKey
  <2> DEFINE n == job["worker"].name
  <2>1. pc["worker"] = "lookup" /\ n \in Names
    BY <1>10 DEF GetByKey, TypeOK
  <2>2. CASE indexer[n] = Nil
    <3>1. queue' \in Seq(Names)
      BY <1>10, <2>1, <2>2, DoneType DEF GetByKey
    <3> QED
      BY <1>10, <2>1, <2>2, <3>1 DEF GetByKey, TypeOK, Threads
  <2>3. CASE indexer[n] # Nil
    BY <1>10, <2>1, <2>3 DEF GetByKey, TypeOK, Threads, Job
  <2> QED
    BY <2>2, <2>3
<1>11. CASE \E t \in Threads : cacheAgentVersion(t)
  BY <1>11, cacheAgentVersionType
<1>12. CASE ListAgentVersions
  BY <1>12, NamesOK DEF ListAgentVersions, TypeOK, Threads, Object
<1>13. CASE \E av \in avs : NextAgentVersion(av)
  BY <1>13, SpecsHaveVersions DEF NextAgentVersion, TypeOK, Threads, Job, Object
<1>14. CASE InitDone
  BY <1>14 DEF InitDone, TypeOK, Threads
<1>15. CASE ConcurrentMapWrites
  BY <1>15 DEF ConcurrentMapWrites, TypeOK
<1>16. CASE UNCHANGED vars
  BY <1>16 DEF vars, TypeOK
<1> QED
  BY <1>1, <1>2, <1>3, <1>4, <1>5, <1>6, <1>7, <1>8, <1>9, <1>10, <1>11, <1>12, <1>13,
     <1>14, <1>15, <1>16 DEF Next, processAgentVersion, InitAgentVersion, Threads

\* The variables stay within their types, whatever the AgentVersions say and in
\* whatever order the goroutines run.
THEOREM TypeCorrect == Spec => []TypeOK
<1>1. Init => TypeOK
  BY DEF Init, TypeOK, Threads, NoJob, Job, Object, Labels
<1> QED
  BY <1>1, TypeStep, PTL DEF Spec

-----------------------------------------------------------------------------
(* The invariant, part by part. *)

LEMMA PhasesStep ==
    ASSUME IInv, [Next]_vars
    PROVE  Phases'
<1> USE DEF IInv, TypeOK, Phases, At, Goto, Alive, Threads
<1>1. CASE Restart
  BY <1>1 DEF Restart
<1>2. CASE \E n \in Names : \E o \in Object : Write(n, o)
  BY <1>2 DEF Write, informer, cmQueue, threads
<1>3. CASE StartFactory \/ WaitForCacheSync
  BY <1>3 DEF StartFactory, WaitForCacheSync, informer, cmQueue, threads
<1>4. CASE AddEventHandler
  BY <1>4 DEF AddEventHandler, cmQueue
<1>5. CASE \E n \in Names : Inform(n) \/ Resync(n)
  BY <1>5 DEF Inform, Resync, cmQueue, threads
<1>6. CASE Notify
  BY <1>6 DEF Notify, threads
<1>7. CASE GetKey \/ GetByKey
  BY <1>7 DEF GetKey, GetByKey, informer, cmQueue
<1>8. ASSUME NEW t \in Threads, cacheAgentVersion(t) PROVE Phases'
  BY <1>8 DEF cacheAgentVersion, informer
<1>9. CASE ListAgentVersions \/ (\E av \in avs : NextAgentVersion(av)) \/ InitDone
  BY <1>9 DEF ListAgentVersions, NextAgentVersion, InitDone, informer, cmQueue
<1>10. CASE ConcurrentMapWrites
  BY <1>10 DEF ConcurrentMapWrites, informer, cmQueue, threads
<1>11. CASE UNCHANGED vars
  BY <1>11 DEF vars, informer, cmQueue, threads
<1> QED
  BY <1>1, <1>2, <1>3, <1>4, <1>5, <1>6, <1>7, <1>8, <1>9, <1>10, <1>11
     DEF Next, processAgentVersion, InitAgentVersion

LEMMA SourcesStep ==
    ASSUME IInv, [Next]_vars
    PROVE  SourcesKnown'
<1> USE DEF IInv, SourcesKnown
<1>u. ASSUME UNCHANGED table PROVE SourcesKnown'
  BY <1>u DEF table
<1>1. CASE Restart
  BY <1>1 DEF Restart
<1>2. ASSUME NEW t \in Threads, cacheAgentVersion(t) PROVE SourcesKnown'
  <2> DEFINE s == job[t].spec
  <2>1. /\ InjectorAgentVersion' = [InjectorAgentVersion EXCEPT ![s.version] = s]
        /\ source' = [source EXCEPT ![s.version] = job[t].name]
        /\ job[t].name \in Names
    BY <1>2 DEF cacheAgentVersion, At, TypeOK
  <2> QED
    BY <2>1 DEF TypeOK
<1>3. CASE UNCHANGED vars
  BY <1>3, <1>u DEF vars
<1> QED
  BY <1>1, <1>2, <1>3, <1>u
     DEF Next, Write, StartFactory, WaitForCacheSync, AddEventHandler, Inform, Resync, Notify,
         processAgentVersion, GetKey, GetByKey, InitAgentVersion, ListAgentVersions,
         NextAgentVersion, InitDone, ConcurrentMapWrites, Threads

LEMMA PublishedStep ==
    ASSUME IInv, [Next]_vars
    PROVE  SpecsPublished'
<1> USE DEF IInv, TypeOK, SpecsPublished, At, Goto, Threads
<1>1. CASE Restart
  BY <1>1 DEF Restart
<1>2. CASE (\E n \in Names : \E o \in Object : Write(n, o)) \/ StartFactory \/ ConcurrentMapWrites
  BY <1>2 DEF Write, StartFactory, ConcurrentMapWrites, informer, threads
<1>3. CASE WaitForCacheSync
  BY <1>3 DEF WaitForCacheSync, threads
<1>4. CASE AddEventHandler
  BY <1>4 DEF AddEventHandler
<1>5. ASSUME NEW m \in Names, Inform(m) \/ Resync(m) PROVE SpecsPublished'
  BY <1>5 DEF Inform, Resync, threads
<1>6. CASE Notify
  BY <1>6 DEF Notify, threads
<1>7. CASE GetKey
  BY <1>7 DEF GetKey, informer
<1>8. CASE GetByKey
  BY <1>8 DEF GetByKey, informer
<1>9. ASSUME NEW t \in Threads, cacheAgentVersion(t) PROVE SpecsPublished'
  BY <1>9 DEF cacheAgentVersion, informer
<1>10. CASE ListAgentVersions
  BY <1>10, NamesOK DEF ListAgentVersions, informer
<1>11. CASE \E av \in avs : NextAgentVersion(av)
  BY <1>11 DEF NextAgentVersion, informer
<1>12. CASE InitDone
  BY <1>12 DEF InitDone, informer
<1>13. CASE UNCHANGED vars
  BY <1>13 DEF vars, informer, threads
<1> QED
  BY <1>1, <1>2, <1>3, <1>4, <1>5, <1>6, <1>7, <1>8, <1>9, <1>10, <1>11, <1>12, <1>13
     DEF Next, processAgentVersion, InitAgentVersion

\* What is in the queue stays there when a key is added to it.
LEMMA QueueGrows ==
    ASSUME TypeOK, NEW k \in Names, queue' = Append(queue, k)
    PROVE  /\ \E i \in DOMAIN queue' : queue'[i] = k
           /\ \A i \in DOMAIN queue : i \in DOMAIN queue' /\ queue'[i] = queue[i]
<1>1. queue \in Seq(Names)
  BY DEF TypeOK
<1>2. Len(queue) + 1 \in DOMAIN queue' /\ queue'[Len(queue) + 1] = k
  BY <1>1
<1> QED
  BY <1>1, <1>2

\* A key that became dirty while it was processed is queued when that is done.
LEMMA DoneKeepsDirtyKeys ==
    ASSUME IInv, job["worker"].name \in Names, pc["worker"] # "get",
           Done, dirty' = dirty, pc' = [pc EXCEPT !["worker"] = "get"]
    PROVE  DirtyKeysTaken'
<1> DEFINE k == job["worker"].name
<1>1. SUFFICES ASSUME NEW n \in dirty
               PROVE  \E i \in DOMAIN queue' : queue'[i] = n
  BY DEF DirtyKeysTaken
<1>2. processing = {k}
  BY DEF processing
<1>3. \A i \in DOMAIN queue : i \in DOMAIN queue' /\ queue'[i] = queue[i]
  BY QueueGrows DEF Done, IInv
<1>4. k \in dirty => \E i \in DOMAIN queue' : queue'[i] = k
  BY QueueGrows DEF Done, IInv
<1>5. n = k \/ \E i \in DOMAIN queue : queue[i] = n
  BY <1>2 DEF IInv, DirtyKeysTaken
<1> QED
  BY <1>3, <1>4, <1>5

LEMMA DirtyKeysStep ==
    ASSUME IInv, [Next]_vars
    PROVE  DirtyKeysTaken'
<1> USE DEF IInv, DirtyKeysTaken
<1>u. ASSUME UNCHANGED <<cmQueue, processing>> PROVE DirtyKeysTaken'
  BY <1>u DEF cmQueue
<1>1. CASE Restart
  BY <1>1 DEF Restart
<1>2. CASE AddEventHandler
  BY <1>2 DEF AddEventHandler, cmQueue, Phases
<1>3. CASE Notify
  <2> DEFINE e == Head(pending)
  <2>1. UNCHANGED processing
    BY <1>3 DEF Notify, threads, processing
  <2>0. e \in Notification
    BY <1>3 DEF Notify, TypeOK
  <2>2. e.name \in Names
    BY <2>0 DEF Notification
  <2>3. CASE UNCHANGED cmQueue
    BY <2>1, <2>3, <1>u
  <2>4. CASE createOrUpdateCache(e.name)
    BY <2>1, <2>2, <2>4, QueueGrows DEF createOrUpdateCache
  <2> QED
    BY <1>3, <2>3, <2>4 DEF Notify, AddFunc, UpdateFunc, DeleteFunc
<1>4. CASE GetKey
  <2> DEFINE k == Head(queue)
  <2>1. queue \in Seq(Names) /\ queue # <<>>
    BY <1>4 DEF GetKey, TypeOK
  <2>2. /\ queue' = Tail(queue) /\ dirty' = dirty \ {k} /\ pc["worker"] = "get"
        /\ k = queue[1]
    BY <1>4, <2>1 DEF GetKey, At
  <2>3. SUFFICES ASSUME NEW n \in dirty, n # k
                 PROVE  \E i \in DOMAIN queue' : queue'[i] = n
    BY <2>2
  <2>4. PICK i \in DOMAIN queue : queue[i] = n
    BY <2>2 DEF processing
  <2>5. i - 1 \in DOMAIN queue' /\ queue'[i - 1] = n
    BY <2>1, <2>2, <2>3, <2>4
  <2> QED
    BY <2>5
<1>5. CASE GetByKey
  <2> DEFINE k == job["worker"].name
  <2>1. pc["worker"] = "lookup" /\ k \in Names /\ dirty' = dirty
    BY <1>5 DEF GetByKey, At, TypeOK
  <2>2. CASE indexer[k] = Nil
    BY <1>5, <2>1, <2>2, DoneKeepsDirtyKeys DEF GetByKey, Goto
  <2>3. CASE indexer[k] # Nil
    <3>1. pc'["worker"] = "cache" /\ job'["worker"].name = k /\ queue' = queue
      BY <1>5, <2>3 DEF GetByKey, Goto, TypeOK, Threads
    <3>2. processing' = processing
      BY <2>1, <3>1 DEF processing
    <3> QED
      BY <2>1, <3>1, <3>2
  <2> QED
    BY <2>2, <2>3
<1>6. CASE cacheAgentVersion("worker")
  <2>1. pc["worker"] = "cache" /\ job["worker"].name \in Names
    BY <1>6 DEF cacheAgentVersion, At, TypeOK, Threads
  <2> QED
    BY <1>6, <2>1, DoneKeepsDirtyKeys DEF cacheAgentVersion, Goto
<1>7. CASE InitAgentVersion
  <2>1. /\ cmQueue' = cmQueue
        /\ pc'["worker"] = pc["worker"] /\ job'["worker"] = job["worker"]
    BY <1>7 DEF InitAgentVersion, ListAgentVersions, NextAgentVersion, InitDone,
                cacheAgentVersion, Goto, cmQueue, TypeOK, Threads
  <2> QED
    BY <2>1, <1>u DEF processing
<1>8. CASE \/ \E n \in Names : \E o \in Object : Write(n, o)
           \/ StartFactory \/ WaitForCacheSync \/ ConcurrentMapWrites
           \/ \E n \in Names : Inform(n) \/ Resync(n)
  BY <1>8, <1>u DEF Write, StartFactory, WaitForCacheSync, ConcurrentMapWrites, Inform, Resync,
                    threads, processing
<1>9. CASE UNCHANGED vars
  BY <1>9, <1>u DEF vars, threads, processing
<1> QED
  BY <1>1, <1>2, <1>3, <1>4, <1>5, <1>6, <1>7, <1>8, <1>9 DEF Next, processAgentVersion

-----------------------------------------------------------------------------
(* Every object that the table does not reflect is tracked. *)

\* A step that takes nothing away leaves an object tracked.
LEMMA StaysTracked ==
    ASSUME NEW n \in Names, Tracked(n),
           indexer'[n] = indexer[n], dirty \subseteq dirty',
           Announced(n) => Announced(n)' \/ n \in dirty',
           pc'["worker"] = pc["worker"], job'["worker"] = job["worker"],
           UNCHANGED <<table, listed>>, n \in fresh' => n \in fresh
    PROVE  Tracked(n)'
<1>1. processing' = processing
  BY DEF processing
<1> QED
  BY <1>1 DEF Tracked, LookingUp, Caching, Arrived, Reflects, table

LEMMA AppendPending ==
    ASSUME TypeOK, NEW e \in Notification, pending' = Append(pending, e)
    PROVE  /\ Len(pending) + 1 \in DOMAIN pending' /\ pending'[Len(pending) + 1] = e
           /\ \A i \in DOMAIN pending : i \in DOMAIN pending' /\ pending'[i] = pending[i]
<1>1. pending \in Seq(Notification)
  BY DEF TypeOK
<1> QED
  BY <1>1

LEMMA InformTracked ==
    ASSUME IInv, NEW m \in Names, Inform(m) \/ Resync(m)
    PROVE  EveryObjectTracked'
<1> DEFINE e == [name |-> m, old |-> indexer[m],
                 new |-> IF Inform(m) THEN api[m] ELSE indexer[m]]
<1>1. SUFFICES ASSUME Alive, NEW n \in Names, indexer'[n] # Nil
               PROVE  Tracked(n)'
  BY DEF EveryObjectTracked, Alive, Inform, Resync
<1>2. pending' = Append(pending, e) /\ e \in Notification
  BY <1>1 DEF Inform, Resync, Notification, IInv, TypeOK
<1>3. /\ Len(pending) + 1 \in DOMAIN pending' /\ pending'[Len(pending) + 1] = e
      /\ \A i \in DOMAIN pending : i \in DOMAIN pending' /\ pending'[i] = pending[i]
  BY <1>2, AppendPending DEF IInv
<1>4. CASE Inform(m) /\ n = m
  <2>1. indexer'[m] = api[m] /\ indexer[m] # api[m]
    BY <1>4 DEF Inform, IInv, TypeOK
  <2>2. Announces(e, n)
    BY <1>1, <1>4, <2>1 DEF Announces
  <2> QED
    BY <1>3, <2>2 DEF Tracked, Announced
<1>5. CASE Resync(m) \/ n # m
  <2>1. indexer'[n] = indexer[n] /\ (n \in fresh' => n \in fresh)
    BY <1>5 DEF Inform, Resync, IInv, TypeOK
  <2>2. Tracked(n)
    BY <1>1, <2>1 DEF IInv, EveryObjectTracked
  <2>3. Announced(n) => Announced(n)'
    BY <1>3 DEF Announced
  <2>4. UNCHANGED <<cmQueue, threads, table>>
    BY DEF Inform, Resync
  <2> QED
    BY <2>1, <2>2, <2>3, <2>4, StaysTracked DEF cmQueue, threads
<1> QED
  BY <1>4, <1>5

LEMMA NotifyTracked ==
    ASSUME IInv, Notify
    PROVE  EveryObjectTracked'
<1> DEFINE e == Head(pending)
<1>1. pending \in Seq(Notification) /\ pending # <<>> /\ pending' = Tail(pending)
  BY DEF Notify, IInv, TypeOK
<1>2. UNCHANGED <<phase, indexer, fresh, threads, table>> /\ Alive
  BY DEF Notify
<1>3. SUFFICES ASSUME NEW n \in Names, indexer[n] # Nil, Tracked(n)
               PROVE  Tracked(n)'
  BY <1>2 DEF EveryObjectTracked, IInv, Alive
<1>4. dirty \subseteq dirty'
  BY DEF Notify, AddFunc, UpdateFunc, DeleteFunc, createOrUpdateCache, cmQueue
<1>5. ASSUME Announces(e, n) PROVE n \in dirty'
  BY <1>5 DEF Announces, Notify, AddFunc, UpdateFunc, DeleteFunc, createOrUpdateCache,
              isAgentVersionEqual
<1>6. ASSUME NEW i \in DOMAIN pending, i # 1
      PROVE  i - 1 \in DOMAIN pending' /\ pending'[i - 1] = pending[i]
  BY <1>1, <1>6
<1>7. e = pending[1]
  BY <1>1
<1>8. Announced(n) => Announced(n)' \/ n \in dirty'
  BY <1>5, <1>6, <1>7 DEF Announced
<1> QED
  BY <1>2, <1>3, <1>4, <1>8, StaysTracked DEF threads

LEMMA WorkerTracked ==
    ASSUME IInv, GetKey \/ GetByKey
    PROVE  EveryObjectTracked'
<1> USE DEF IInv, At, Goto, informer, Threads
<1>1. UNCHANGED <<phase, indexer, pending, fresh, listed, table>> /\ Alive
  BY DEF GetKey, GetByKey
<1>2. SUFFICES ASSUME NEW n \in Names, indexer[n] # Nil, Tracked(n)
               PROVE  Tracked(n)'
  BY <1>1 DEF EveryObjectTracked, Alive
<1>3. Announced(n) => Announced(n)'
  BY <1>1 DEF Announced
<1>4. Reflects(n) => Reflects(n)'
  BY <1>1 DEF Reflects, table
<1>5. CASE GetKey
  <2> DEFINE k == Head(queue)
  <2>1. /\ pc["worker"] = "get" /\ pc'["worker"] = "lookup" /\ job'["worker"].name = k
        /\ dirty' = dirty \ {k}
    BY <1>5 DEF GetKey, TypeOK
  <2>2. CASE n = k
    BY <2>1, <2>2 DEF Tracked, LookingUp
  <2>3. CASE n # k
    <3>1. n \notin processing'
      BY <2>1, <2>3 DEF processing
    <3>2. ~LookingUp(n) /\ ~Caching(n)
      BY <2>1 DEF LookingUp, Caching
    <3> QED
      BY <1>2, <1>3, <1>4, <2>1, <2>3, <3>1, <3>2 DEF Tracked, Arrived
  <2> QED
    BY <2>2, <2>3
<1>6. CASE GetByKey
  <2> DEFINE k == job["worker"].name
  <2>1. pc["worker"] = "lookup" /\ k \in Names /\ dirty' = dirty /\ processing = {k}
    BY <1>6 DEF GetByKey, TypeOK, processing
  <2>2. CASE n = k
    <3>1. pc'["worker"] = "cache" /\ job'["worker"] = [name |-> n, spec |-> indexer[n]]
      BY <1>2, <1>6, <2>2 DEF GetByKey, TypeOK
    <3> QED
      BY <1>1, <3>1 DEF Tracked, Caching
  <2>3. CASE n # k
    <3>1. n \notin processing'
      BY <1>6, <2>1, <2>3 DEF GetByKey, processing, TypeOK
    <3>2. ~LookingUp(n) /\ ~Caching(n)
      BY <2>1, <2>3 DEF LookingUp, Caching
    <3> QED
      BY <1>2, <1>3, <1>4, <2>1, <3>1, <3>2 DEF Tracked, Arrived
  <2> QED
    BY <2>2, <2>3
<1> QED
  BY <1>5, <1>6

\* Caching another object, or an object as it was listed, takes nothing away that
\* Reflects asks for; caching an object as the indexer has it provides it.
LEMMA CachedTracked ==
    ASSUME IInv, NEW t \in Threads, cacheAgentVersion(t)
    PROVE  EveryObjectTracked'
<1> USE DEF IInv, At, Goto, informer, Threads
<1> DEFINE s == job[t].spec
           k == job[t].name
<1>1. UNCHANGED <<phase, indexer, pending, fresh, dirty, job, listed>> /\ Alive /\ pc[t] = "cache"
  BY DEF cacheAgentVersion
<1>2. k \in Names /\ s \in AgentVersionSpec /\ s.version \in Versions
  <2>1. job[t] \in Job /\ k \in Names /\ s # Nil
    BY <1>1 DEF TypeOK
  <2> QED
    BY <2>1, SpecsHaveVersions DEF Job, Object
<1>3. SUFFICES ASSUME NEW n \in Names, indexer[n] # Nil, Tracked(n)
               PROVE  Tracked(n)'
  BY <1>1 DEF EveryObjectTracked, Alive
<1>4. \A v \in Versions :
         /\ InjectorAgentVersion'[v] = IF v = s.version THEN s ELSE InjectorAgentVersion[v]
         /\ source'[v] = IF v = s.version THEN k ELSE source[v]
  BY <1>2 DEF cacheAgentVersion, TypeOK
<1>5. Announced(n) => Announced(n)'
  BY <1>1 DEF Announced
<1>6. indexer[n].version \in Versions /\ s # Nil
  BY <1>2, <1>3, SpecsHaveVersions DEF TypeOK, Object
<1>7. CASE t = "worker"
  <2>1. pc'["worker"] = "get" /\ processing' = {} /\ processing = {k}
    BY <1>1, <1>7 DEF cacheAgentVersion, TypeOK, processing
  <2>2. CASE Caching(n)
    <3>1. s = indexer[n]
      BY <1>7, <2>2 DEF Caching
    <3>2. Reflects(n)'
      BY <1>1, <1>4, <1>6, <3>1 DEF Reflects
    <3> QED
      BY <2>1, <3>2 DEF Tracked, Arrived
  <2>3. CASE Arrived(n)
    <3>1. n # k
      BY <2>1, <2>3 DEF Arrived
    <3>2. Reflects(n)'
      BY <1>1, <1>4, <1>6, <2>3, <3>1 DEF Arrived, Reflects
    <3> QED
      BY <2>1, <3>2 DEF Tracked, Arrived
  <2>4. ~LookingUp(n)
    BY <1>1, <1>7 DEF LookingUp
  <2> QED
    BY <1>1, <1>3, <1>5, <2>2, <2>3, <2>4 DEF Tracked
<1>8. CASE t = "init"
  <2>1. pc'["worker"] = pc["worker"] /\ processing' = processing
    BY <1>1, <1>8 DEF cacheAgentVersion, TypeOK, processing
  <2>2. [name |-> k, spec |-> s] \in listed /\ fresh = {}
    <3>1. job["init"] \in listed /\ phase # "running"
      BY <1>1, <1>8 DEF SpecsPublished, Phases
    <3>2. job["init"] = [name |-> k, spec |-> s]
      BY <1>8 DEF TypeOK, Job
    <3> QED
      BY <1>1, <3>1, <3>2 DEF Phases, Alive
  <2>3. Reflects(n) => Reflects(n)'
    BY <1>1, <1>4, <1>6, <2>2 DEF Reflects
  <2> QED
    BY <1>1, <1>3, <1>5, <2>1, <2>3 DEF Tracked, LookingUp, Caching, Arrived
<1> QED
  BY <1>7, <1>8

LEMMA TrackedStep ==
    ASSUME IInv, [Next]_vars
    PROVE  EveryObjectTracked'
<1>1. CASE Restart \/ StartFactory \/ WaitForCacheSync \/ ConcurrentMapWrites
  <2>1. ~Alive'
    BY <1>1 DEF Restart, StartFactory, WaitForCacheSync, ConcurrentMapWrites, Alive
  <2> QED
    BY <2>1 DEF EveryObjectTracked
<1>2. CASE (\E n \in Names : \E o \in Object : Write(n, o)) \/ UNCHANGED vars
  <2>1. UNCHANGED <<phase, informer, cmQueue, threads, table>>
    BY <1>2 DEF Write, vars
  <2> QED
    BY <2>1 DEF IInv, EveryObjectTracked, Alive, Tracked, Announced, LookingUp, Caching, Arrived,
                Reflects, processing, informer, cmQueue, threads, table
<1>3. CASE AddEventHandler
  <2>1. \A n \in Names : indexer[n] # Nil => Announced(n)'
    BY <1>3, ReplayedType DEF Announced, IInv
  <2> QED
    BY <1>3, <2>1 DEF AddEventHandler, EveryObjectTracked, Tracked
<1>4. CASE \E n \in Names : Inform(n) \/ Resync(n)
  BY <1>4, InformTracked
<1>5. CASE Notify
  BY <1>5, NotifyTracked
<1>6. CASE GetKey \/ GetByKey
  BY <1>6, WorkerTracked
<1>7. CASE \E t \in Threads : cacheAgentVersion(t)
  BY <1>7, CachedTracked
<1>8. CASE ListAgentVersions \/ (\E av \in avs : NextAgentVersion(av)) \/ InitDone
  <2>1. /\ UNCHANGED <<informer, cmQueue, table>> /\ Alive
        /\ pc'["worker"] = pc["worker"] /\ job'["worker"] = job["worker"]
        /\ listed \subseteq listed'
    BY <1>8 DEF ListAgentVersions, NextAgentVersion, InitDone, IInv, TypeOK, Phases, At, Goto,
                Threads
  <2>2. SUFFICES ASSUME NEW n \in Names, indexer[n] # Nil, Tracked(n)
                 PROVE  Tracked(n)'
    BY <2>1 DEF EveryObjectTracked, IInv, informer
  <2>3. processing' = processing
    BY <2>1 DEF processing
  <2>4. Reflects(n) => Reflects(n)'
    BY <2>1 DEF Reflects, informer, table
  <2> QED
    BY <2>1, <2>2, <2>3, <2>4 DEF Tracked, Announced, LookingUp, Caching, Arrived, informer,
                                  cmQueue
<1> QED
  BY <1>1, <1>2, <1>3, <1>4, <1>5, <1>6, <1>7, <1>8
     DEF Next, processAgentVersion, InitAgentVersion, Threads

LEMMA IInvInvariant == Spec => []IInv
<1>1. Init => IInv
  <2>1. Init => TypeOK
    BY DEF Init, TypeOK, Threads, NoJob, Job, Object, Labels
  <2>2. Init => Phases /\ SourcesKnown /\ SpecsPublished /\ DirtyKeysTaken /\ EveryObjectTracked
    BY DEF Init, Phases, SourcesKnown, SpecsPublished, DirtyKeysTaken, EveryObjectTracked,
           Alive, Threads
  <2> QED
    BY <2>1, <2>2 DEF IInv
<1>2. IInv /\ [Next]_vars => IInv'
  BY TypeStep, PhasesStep, SourcesStep, PublishedStep, DirtyKeysStep, TrackedStep DEF IInv
<1> QED
  BY <1>1, <1>2, PTL DEF Spec

-----------------------------------------------------------------------------
(* What follows. *)

\* Of a settled object, only Arrived is left.
LEMMA SettledArrived ==
    ASSUME IInv, phase = "running", NEW n \in Names, Settled(n), indexer[n] # Nil
    PROVE  Reflects(n)
<1>1. Tracked(n)
  BY DEF IInv, EveryObjectTracked, Alive
<1>2. ~Announced(n)
  BY DEF Settled, Announced, Announces
<1>3. n \notin dirty
  BY DEF Settled, IInv, DirtyKeysTaken
<1>4. ~LookingUp(n) /\ ~Caching(n)
  BY DEF Settled, LookingUp, Caching, processing
<1> QED
  BY <1>1, <1>2, <1>3, <1>4 DEF Tracked, Arrived

\* Once the process runs, no AgentVersion that is settled is missing from
\* InjectorAgentVersion, be it in the namespace InitAgentVersion lists or not.
THEOREM NoVersionMissing == Spec => []VersionsPresent
<1>1. IInv => VersionsPresent
  BY SettledArrived DEF VersionsPresent, Reflects
<1> QED
  BY <1>1, IInvInvariant, PTL

\* Once the process runs, a version is served as its settled AgentVersion has it,
\* or as InitAgentVersion listed that and nothing has changed it since.
THEOREM NoStaleVersion == Spec => []EntriesCurrent
<1>1. IInv => EntriesCurrent
  <2> SUFFICES ASSUME IInv, phase = "running", NEW v \in Versions,
                      InjectorAgentVersion[v] # Nil, Settled(source[v]),
                      indexer[source[v]] # Nil, indexer[source[v]].version = v
               PROVE  \/ InjectorAgentVersion[v] = indexer[source[v]]
                      \/ source[v] \notin fresh
                         /\ [name |-> source[v], spec |-> InjectorAgentVersion[v]] \in listed
    BY DEF EntriesCurrent
  <2>1. source[v] \in Names
    BY DEF IInv, SourcesKnown
  <2>2. Reflects(source[v])
    BY <2>1, SettledArrived
  <2> QED
    BY <2>2 DEF Reflects
<1> QED
  BY <1>1, IInvInvariant, PTL

\* The watcher implements the table that the handlers rely on: whatever it does
\* adds to what was published, replaces an entry by a published spec under the
\* version of that spec, starts over, or does not touch the table.
THEOREM KeepsPromise == Spec => TableAsPromised
<1>1. Init => Promise!Init
  BY DEF Init, Promise!Init, Promise!NoEntries
<1>2. IInv /\ [Next]_vars => [Promise!Next]_(Promise!vars)
  <2> SUFFICES ASSUME IInv, [Next]_vars, ~UNCHANGED <<published, InjectorAgentVersion>>
               PROVE  Promise!Next
    BY DEF Promise!vars
  <2>1. CASE Restart
    BY <2>1 DEF Restart, Promise!Next, Promise!Restart, Promise!NoEntries
  <2>2. CASE WaitForCacheSync
    <3> DEFINE specs == {api[n] : n \in Names} \ {Nil}
    <3>1. specs \in SUBSET AgentVersionSpec
      BY DEF IInv, TypeOK, Object
    <3>2. Promise!Publish(specs)
      BY <2>2, <3>1 DEF WaitForCacheSync, Promise!Publish, table
    <3> QED
      BY <3>1, <3>2 DEF Promise!Next
  <2>3. ASSUME NEW n \in Names, Inform(n) PROVE Promise!Next
    <3> DEFINE specs == {api[n]} \ {Nil}
    <3>1. specs \in SUBSET AgentVersionSpec
      BY DEF IInv, TypeOK, Object
    <3>2. Promise!Publish(specs)
      BY <2>3, <3>1 DEF Inform, Promise!Publish, table
    <3> QED
      BY <3>1, <3>2 DEF Promise!Next
  <2>4. ASSUME NEW t \in Threads, cacheAgentVersion(t) PROVE Promise!Next
    <3> DEFINE s == job[t].spec
    <3>1. pc[t] = "cache"
      BY <2>4 DEF cacheAgentVersion, At
    <3>2. s \in published
      BY <3>1 DEF IInv, SpecsPublished, Threads
    <3>3. Promise!cacheAgentVersion(s)
      BY <2>4, <3>2 DEF cacheAgentVersion, Promise!cacheAgentVersion, informer
    <3> QED
      BY <3>2, <3>3 DEF Promise!Next
  <2>5. \/ Restart \/ WaitForCacheSync
        \/ \E n \in Names : Inform(n)
        \/ \E t \in Threads : cacheAgentVersion(t)
    BY DEF Next, Write, StartFactory, AddEventHandler, Resync, Notify, processAgentVersion,
           GetKey, GetByKey, InitAgentVersion, ListAgentVersions, NextAgentVersion, InitDone,
           ConcurrentMapWrites, Threads, vars, informer, table
  <2> QED
    BY <2>1, <2>2, <2>3, <2>4, <2>5
<1> QED
  BY <1>1, <1>2, IInvInvariant, PTL DEF Spec, TableAsPromised, Promise!Spec
=============================================================================
