----------------------- MODULE ConfigMapWatcherProofs -----------------------
(***************************************************************************)
(* Proofs about ConfigMapWatcher, for every set of configmaps, of files    *)
(* and of contents, and without the bounds TLC needs.                      *)
(***************************************************************************)
EXTENDS ConfigMapWatcher, FiniteSetTheorems, TLAPS

-----------------------------------------------------------------------------
(* Why NoChangeLost holds: from the indexer to config, a change is always at   *)
(* one of five places. This is the inductive invariant.                        *)

\* 1. A notification that will queue n waits for the listener.
Announces(e, n) == e.name = n /\ e.new # Nil /\ e.old # e.new
Announced(n) == \E i \in DOMAIN pending : Announces(pending[i], n)

\* 2. n is in dirty. 3. The worker has the key and has not read the indexer.
LookingUp(n) == pc["worker"] = "lookup" /\ job["worker"].name = n

\* 4. The worker has read what the indexer still holds, and is caching it.
Caching(n) ==
    LET d == job["worker"].data IN
    /\ job["worker"].name = n /\ d = indexer[n]
    /\ \/ pc["worker"] = "cache"
       \/ /\ pc["worker"] = "fill" /\ n = ConfigMapName /\ d.kind # "nil"
          /\ d.kind = "plain" => left["worker"] \subseteq Files
          /\ DefaultInjectorConfigMap = [k \in Keys |->
                IF k \in left["worker"] \/ (k = InjectorConfigName /\ d.kind = "plain")
                THEN Nil ELSE d.id]
       \/ /\ pc["worker"] = "strip" /\ n = ConfigMapName /\ d.kind = "wellformed"
          /\ DefaultInjectorConfigMap = [k \in Keys |-> d.id]
          /\ DefaultInjectorConfig = d.id

\* 5. It has arrived, and the worker is not about to cache something else.
Arrived(n) == n \notin processing /\ Reflects(n, indexer[n])

Tracked(n) == Announced(n) \/ n \in dirty \/ LookingUp(n) \/ Caching(n) \/ Arrived(n)

EveryChangeTracked == \A n \in fresh : indexer[n] # Nil => Tracked(n)

\* A deletion that was undone is followed by the notification of what undid it.
DeletionsFollowed ==
    \A i \in DOMAIN pending :
        pending[i].new = Nil /\ indexer[pending[i].name] # Nil =>
            \E j \in DOMAIN pending : j > i /\ Announces(pending[j], pending[i].name)

RunningPhase ==
    /\ phase = "running" => pc["init"] = "done"
    /\ phase # "running" => fresh = {}
    /\ pc["worker"] \in {"fill", "strip"} => job["worker"].name = ConfigMapName

IInv == TypeOK /\ RunningPhase /\ DeletionsFollowed /\ EveryChangeTracked

(* Why the two properties below hold: what is cached is what somebody wrote, and *)
(* InitConfigMap has cached what it has listed and not got left to do.           *)

Busy(t) == pc[t] \in {"cache", "fill", "strip"}

OnlyWhatIsWritten ==
    /\ \A n \in Names : api[n] \in Writable(n) \cup {Nil} /\ indexer[n] \in Writable(n) \cup {Nil}
    /\ cms \subseteq listed
    /\ \A cm \in listed : cm.name \in Names /\ cm.data \in Writable(cm.name)
    /\ \A t \in Threads : Busy(t) => job[t].name \in Names /\ job[t].data \in Writable(job[t].name)
    /\ \A t \in Threads : pc[t] \in {"fill", "strip"} =>
                              job[t].name = ConfigMapName /\ job[t].data.kind # "nil"
    /\ pc["init"] = "strip" => job["init"].data.kind = "wellformed" /\ DefaultInjectorConfig # Nil

Cached(cm) ==
    /\ cm.data.kind \in {"plain", "wellformed"}
    /\ cm.name = ConfigMapName /\ cm.data.kind = "wellformed" => DefaultInjectorConfig # Nil

ListedOrCached ==
    /\ phase = "boot" => listed = {}
    /\ pc["init"] \in {"wait", "list"} => listed = {}
    /\ pc["init"] = "done" => cms = {}
    /\ Alive => \A cm \in listed : cm \in cms \/ (Busy("init") /\ cm = job["init"]) \/ Cached(cm)

ReadInv == OnlyWhatIsWritten /\ ListedOrCached

-----------------------------------------------------------------------------
(* Lemmas. *)

\* What a user writes is data of a configmap.
LEMMA WritableType ==
    ASSUME NEW n \in Names
    PROVE  Writable(n) \subseteq Data
BY DEF Writable, Data, NilData

\* The order in which AddEventHandler replays the indexer is a sequence of names.
LEMMA ReplayType ==
    ASSUME NEW S \in SUBSET Names, NEW names \in SetToSeqs(S)
    PROVE  /\ names \in Seq(Names)
           /\ \A i \in DOMAIN names : names[i] \in S
<1>1. IsFiniteSet(S)
  BY FiniteNames, FS_Subset
<1>2. Cardinality(S) \in Nat
  BY <1>1, FS_CardinalityType
<1>3. names \in [1..Cardinality(S) -> S]
  BY DEF SetToSeqs
<1> QED
  BY <1>2, <1>3

\* A call of cacheConfigMap that returns leaves phase, queue and pc well typed.
LEMMA ReturnType ==
    ASSUME TypeOK, NEW t \in Threads, NEW err \in BOOLEAN, Return(t, err)
    PROVE  /\ UNCHANGED <<external, informer, dirty, job, cms, listed>>
           /\ pc' = [pc EXCEPT ![t] = IF t = "worker" THEN "get" ELSE "next"]
           /\ pc' \in [Threads -> Labels]
           /\ phase' \in {"boot", "init", "running", "fatal"}
           /\ queue' \in Seq(Names)
BY DEF TypeOK, Return, Goto, Labels

LEMMA cacheConfigMapType ==
    ASSUME TypeOK, NEW t \in Threads, cacheConfigMap(t)
    PROVE  TypeOK'
<1> USE DEF At, Threads, Labels, external, informer, cmQueue, config
<1>j. job[t] \in Job /\ job[t].data \in Data /\ left[t] \subseteq Keys
  BY DEF TypeOK, Job
<1>d. job[t].data.kind # "nil" => job[t].data.id \in Ids \cup {Nil}
  BY <1>j DEF Data
<1>1. CASE CacheNothing(t)
  BY <1>1, ReturnType DEF CacheNothing, TypeOK
<1>2. CASE CacheDefault(t)
  BY <1>2, <1>j DEF CacheDefault, Goto, TypeOK, Keys
<1>3. CASE \E k \in Keys : FillDefault(t, k)
  <2>1. PICK k \in Keys : FillDefault(t, k)
    BY <1>3
  <2>2. job[t].data.id \in Ids \cup {Nil}
    BY <1>j DEF Data
  <2> QED
    BY <2>1, <2>2, <1>j DEF FillDefault, TypeOK
<1>4. CASE ParseDefault(t)
  <2>1. CASE job[t].data.kind = "wellformed"
    BY <1>4, <2>1, <1>d DEF ParseDefault, Goto, TypeOK
  <2>2. CASE job[t].data.kind # "wellformed"
    BY <1>4, <2>2, ReturnType DEF ParseDefault, TypeOK
  <2> QED
    BY <2>1, <2>2
<1>5. CASE StripDefault(t)
  BY <1>5, ReturnType DEF StripDefault, TypeOK
<1>6. CASE CacheRules(t)
  BY <1>6, <1>d, ReturnType DEF CacheRules, TypeOK
<1>7. CASE CacheVersion(t)
  BY <1>7, <1>d, ReturnType DEF CacheVersion, TypeOK
<1> QED
  BY <1>1, <1>2, <1>3, <1>4, <1>5, <1>6, <1>7 DEF cacheConfigMap

LEMMA NotifyType ==
    ASSUME TypeOK, Notify
    PROVE  TypeOK'
<1> USE DEF external, informer, cmQueue, config, threads
<1> DEFINE e == Head(pending)
<1>1. e \in Notification /\ Tail(pending) \in Seq(Notification)
  BY DEF Notify, TypeOK
<1>2. e.name \in Names
  BY <1>1 DEF Notification
<1>3. createOrUpdateCache(e.name) => dirty' \in SUBSET Names /\ queue' \in Seq(Names)
  BY <1>2 DEF createOrUpdateCache, TypeOK
<1>4. pending' = Tail(pending) /\ UNCHANGED <<external, phase, indexer, fresh, threads>>
  BY DEF Notify
<1>5. CASE AddFunc(e)
  BY <1>1, <1>3, <1>4, <1>5 DEF AddFunc, TypeOK
<1>6. CASE UpdateFunc(e)
  BY <1>1, <1>3, <1>4, <1>6 DEF UpdateFunc, TypeOK
<1>7. CASE DeleteFunc(e)
  BY <1>1, <1>4, <1>7 DEF DeleteFunc, TypeOK
<1> QED
  BY <1>5, <1>6, <1>7 DEF Notify

LEMMA TypeStep ==
    ASSUME TypeOK, [Next]_vars
    PROVE  TypeOK'
<1> USE DEF At, Labels, Alive, external, informer, cmQueue, config, threads
<1>1. CASE Restart
  BY <1>1 DEF Restart, TypeOK, Threads, NoJob, Job, Data, NilData, Object
<1>2. CASE \E n \in Names : \E o \in Writable(n) \cup {Nil} : Write(n, o)
  <2>0. PICK n \in Names : \E o \in Writable(n) \cup {Nil} : Write(n, o)
    BY <1>2
  <2>1. PICK o \in Writable(n) \cup {Nil} : Write(n, o)
    BY <2>0
  <2>2. o \in Object
    BY WritableType DEF Object
  <2> QED
    BY <2>1, <2>2 DEF Write, TypeOK
<1>3. CASE Start
  <2> DEFINE S == {n \in Names : api[n] # Nil}
  <2>1. PICK names \in SetToSeqs(S) :
           pending' = [i \in DOMAIN names |->
                         [name |-> names[i], old |-> Nil, new |-> api[names[i]],
                          tombstone |-> FALSE]]
    BY <1>3 DEF Start
  <2>2. names \in Seq(Names)
    BY ReplayType
  <2>3. DOMAIN names = 1..Len(names) /\ Len(names) \in Nat
    BY <2>2
  <2>4. \A i \in 1..Len(names) :
           [name |-> names[i], old |-> Nil, new |-> api[names[i]],
            tombstone |-> FALSE] \in Notification
    BY <2>2 DEF Notification, Object, TypeOK
  <2>5. pending' \in Seq(Notification)
    BY <2>1, <2>3, <2>4
  <2> QED
    BY <1>3, <2>5 DEF Start, TypeOK, Threads
<1>4. CASE \E n \in Names : Inform(n) \/ Resync(n)
  <2>1. PICK n \in Names : Inform(n) \/ Resync(n)
    BY <1>4
  <2>2. api[n] \in Object /\ indexer[n] \in Object
    BY DEF TypeOK
  <2>3. CASE Inform(n)
    <3>1. PICK tombstone \in BOOLEAN :
             pending' = Append(pending, [name |-> n, old |-> indexer[n], new |-> api[n],
                                         tombstone |-> tombstone])
      BY <2>3 DEF Inform
    <3>2. pending' \in Seq(Notification)
      BY <2>2, <3>1 DEF TypeOK, Notification
    <3> QED
      BY <2>2, <2>3, <3>2 DEF Inform, TypeOK
  <2>4. CASE Resync(n)
    BY <2>2, <2>4 DEF Resync, TypeOK, Notification
  <2> QED
    BY <2>1, <2>3, <2>4
<1>5. CASE Notify
  BY <1>5, NotifyType
<1>6. CASE GetKey
  <2>1. Head(queue) \in Names /\ Tail(queue) \in Seq(Names)
    BY <1>6 DEF GetKey, TypeOK
  <2> QED
    BY <1>6, <2>1 DEF GetKey, Goto, TypeOK, Threads, Job, Data, NilData
<1>7. CASE GetByKey
  <2>1. CASE indexer[job["worker"].name] = Nil
    BY <1>7, <2>1, ReturnType DEF GetByKey, TypeOK, Threads
  <2>2. CASE indexer[job["worker"].name] # Nil
    <3>1. job["worker"] \in Job /\ indexer[job["worker"].name] \in Data
      BY <1>7, <2>2 DEF GetByKey, TypeOK, Threads, Object
    <3>2. job' = [job EXCEPT !["worker"] = [name |-> job["worker"].name,
                                            data |-> indexer[job["worker"].name]]]
      BY <1>7, <2>2 DEF GetByKey
    <3>3. job' \in [Threads -> Job]
      BY <3>1, <3>2 DEF TypeOK, Threads, Job
    <3> QED
      BY <1>7, <2>2, <3>3 DEF GetByKey, Goto, TypeOK, Threads
  <2> QED
    BY <2>1, <2>2
<1>8. CASE \E t \in Threads : cacheConfigMap(t)
  BY <1>8, cacheConfigMapType
<1>9. CASE ListConfigMaps
  <2>1. listed' \in SUBSET Job
    BY <1>9 DEF ListConfigMaps, TypeOK, Job, Object
  <2> QED
    BY <1>9, <2>1 DEF ListConfigMaps, Goto, TypeOK, Threads
<1>10. CASE \E cm \in cms : NextConfigMap(cm)
  BY <1>10 DEF NextConfigMap, Goto, TypeOK, Threads
<1>11. CASE InitDone
  BY <1>11 DEF InitDone, Goto, TypeOK, Threads
<1>12. CASE ConcurrentMapWrites
  BY <1>12 DEF ConcurrentMapWrites, TypeOK
<1>13. CASE UNCHANGED vars
  BY <1>13 DEF vars, TypeOK
<1> QED
  BY <1>1, <1>2, <1>3, <1>4, <1>5, <1>6, <1>7, <1>8, <1>9, <1>10, <1>11, <1>12, <1>13
     DEF Next, processConfigMap, InitConfigMap, Threads

\* Every variable of the watcher keeps its type: in particular the worker never
\* caches a configmap that the indexer does not have (processConfigMap).
THEOREM TypeCorrect == Spec => []TypeOK
<1>1. Init => TypeOK
  BY DEF Init, TypeOK, Threads, NoJob, Job, Data, NilData, Object, Labels
<1> QED
  BY <1>1, TypeStep, PTL DEF Spec

-----------------------------------------------------------------------------
(* The inductive invariant of NoChangeLost. *)

\* A notification that joins the queue leaves the others where they are.
LEMMA AppendPending ==
    ASSUME TypeOK, NEW e \in Notification, pending' = Append(pending, e)
    PROVE  /\ DOMAIN pending' = 1..(Len(pending) + 1)
           /\ DOMAIN pending = 1..Len(pending) /\ Len(pending) \in Nat
           /\ pending'[Len(pending) + 1] = e
           /\ \A i \in DOMAIN pending : i \in DOMAIN pending' /\ pending'[i] = pending[i]
BY DEF TypeOK

\* The one that leaves is the first; each of the others moves up by one.
LEMMA TailPending ==
    ASSUME TypeOK, pending # <<>>, pending' = Tail(pending)
    PROVE  /\ DOMAIN pending = 1..Len(pending) /\ Len(pending) \in Nat \ {0}
           /\ Head(pending) = pending[1]
           /\ \A i \in DOMAIN pending : i # 1 =>
                 i - 1 \in DOMAIN pending' /\ pending'[i - 1] = pending[i]
           /\ \A i \in DOMAIN pending' :
                 i + 1 \in DOMAIN pending /\ pending'[i] = pending[i + 1]
BY DEF TypeOK

LEMMA DeletionsStep ==
    ASSUME IInv, [Next]_vars
    PROVE  DeletionsFollowed'
<1> USE DEF IInv
<1>u. ASSUME UNCHANGED <<pending, indexer>> PROVE DeletionsFollowed'
  BY <1>u DEF DeletionsFollowed, Announces
<1>1. CASE Restart
  BY <1>1 DEF Restart, DeletionsFollowed
<1>2. CASE Start
  <2> DEFINE S == {n \in Names : api[n] # Nil}
  <2>1. PICK names \in SetToSeqs(S) :
           pending' = [i \in DOMAIN names |->
                         [name |-> names[i], old |-> Nil, new |-> api[names[i]],
                          tombstone |-> FALSE]]
    BY <1>2 DEF Start
  <2>2. \A i \in DOMAIN names : api[names[i]] # Nil
    BY ReplayType
  <2> QED
    BY <2>1, <2>2 DEF DeletionsFollowed
<1>3. ASSUME NEW m \in Names, Inform(m) PROVE DeletionsFollowed'
  <2>0. PICK tombstone \in BOOLEAN :
           pending' = Append(pending, [name |-> m, old |-> indexer[m], new |-> api[m],
                                       tombstone |-> tombstone])
    BY <1>3 DEF Inform
  <2> DEFINE e == [name |-> m, old |-> indexer[m], new |-> api[m], tombstone |-> tombstone]
             last == Len(pending) + 1
  <2>1. pending' = Append(pending, e) /\ indexer' = [indexer EXCEPT ![m] = api[m]]
        /\ indexer[m] # api[m]
    BY <1>3, <2>0 DEF Inform
  <2>2. e \in Notification
    BY DEF Notification, TypeOK
  <2>3. /\ DOMAIN pending' = 1..last /\ DOMAIN pending = 1..Len(pending)
        /\ Len(pending) \in Nat /\ pending'[last] = e
        /\ \A i \in DOMAIN pending : i \in DOMAIN pending' /\ pending'[i] = pending[i]
    BY <2>1, <2>2, AppendPending
  <2>4. SUFFICES ASSUME NEW i \in DOMAIN pending', pending'[i].new = Nil,
                        indexer'[pending'[i].name] # Nil
                 PROVE  \E j \in DOMAIN pending' :
                           j > i /\ Announces(pending'[j], pending'[i].name)
    BY DEF DeletionsFollowed, Announces
  <2>5. CASE i = last
    <3>1. pending'[i].name = m /\ api[m] = Nil
      BY <2>3, <2>4, <2>5
    <3>2. indexer'[m] = api[m]
      BY <2>1 DEF TypeOK
    <3> QED
      BY <3>1, <3>2, <2>4
  <2>6. CASE i # last
    <3>1. i \in DOMAIN pending /\ pending'[i] = pending[i] /\ last > i /\ last \in DOMAIN pending'
      BY <2>3, <2>6
    <3>2. CASE pending[i].name = m
      <4>1. api[m] # Nil
        BY <2>1, <2>4, <3>1, <3>2 DEF TypeOK
      <4>2. Announces(e, m)
        BY <2>1, <4>1 DEF Announces
      <4> QED
        BY <2>3, <3>1, <3>2, <4>2
    <3>3. CASE pending[i].name # m
      <4>0. pending[i] \in Notification
        BY <2>3, <3>1 DEF TypeOK
      <4>1. pending[i].name \in Names
        BY <4>0 DEF Notification
      <4>2. indexer[pending[i].name] # Nil
        BY <2>1, <2>4, <3>1, <3>3, <4>1 DEF TypeOK
      <4>3. PICK j \in DOMAIN pending : j > i /\ Announces(pending[j], pending[i].name)
        BY <2>4, <3>1, <4>2 DEF DeletionsFollowed
      <4>4. j \in DOMAIN pending' /\ Announces(pending'[j], pending'[i].name)
        BY <2>3, <3>1, <4>3
      <4> QED
        BY <4>3, <4>4
    <3> QED
      BY <3>2, <3>3
  <2> QED
    BY <2>5, <2>6
<1>4. ASSUME NEW m \in Names, Resync(m) PROVE DeletionsFollowed'
  <2> DEFINE e == [name |-> m, old |-> indexer[m], new |-> indexer[m],
                   tombstone |-> FALSE]
  <2>1. pending' = Append(pending, e) /\ indexer' = indexer /\ indexer[m] # Nil
    BY <1>4 DEF Resync
  <2>2. e \in Notification
    BY DEF Notification, TypeOK
  <2>3. /\ DOMAIN pending' = 1..(Len(pending) + 1) /\ DOMAIN pending = 1..Len(pending)
        /\ Len(pending) \in Nat /\ pending'[Len(pending) + 1] = e
        /\ \A i \in DOMAIN pending : i \in DOMAIN pending' /\ pending'[i] = pending[i]
    BY <2>1, <2>2, AppendPending
  <2> QED
    BY <2>1, <2>3 DEF DeletionsFollowed, Announces
<1>5. CASE Notify
  <2>1. pending # <<>> /\ pending' = Tail(pending) /\ indexer' = indexer
    BY <1>5 DEF Notify
  <2>2. SUFFICES ASSUME NEW i \in DOMAIN pending', pending'[i].new = Nil,
                        indexer'[pending'[i].name] # Nil
                 PROVE  \E j \in DOMAIN pending' :
                           j > i /\ Announces(pending'[j], pending'[i].name)
    BY DEF DeletionsFollowed, Announces
  <2>3. i + 1 \in DOMAIN pending /\ pending'[i] = pending[i + 1] /\ i \in Nat
    BY <2>1, TailPending
  <2>4. PICK j \in DOMAIN pending : j > i + 1 /\ Announces(pending[j], pending[i + 1].name)
    BY <2>1, <2>2, <2>3 DEF DeletionsFollowed
  <2>5. j \in Nat /\ j - 1 > i
    BY <2>1, <2>3, <2>4, TailPending
  <2>6. j - 1 \in DOMAIN pending' /\ pending'[j - 1] = pending[j]
    BY <2>1, <2>3, <2>4, <2>5, TailPending
  <2> QED
    BY <2>3, <2>4, <2>5, <2>6
<1>6. CASE \E t \in Threads : cacheConfigMap(t)
  <2>1. PICK t \in Threads : cacheConfigMap(t)
    BY <1>6
  <2>2. UNCHANGED <<pending, indexer>>
    BY <2>1 DEF cacheConfigMap, CacheNothing, CacheDefault, FillDefault, ParseDefault,
                StripDefault, CacheRules, CacheVersion, Return, informer
  <2> QED
    BY <2>2, <1>u
<1>7. CASE GetKey \/ GetByKey
  BY <1>7, <1>u DEF GetKey, GetByKey, Return, informer
<1>8. CASE ListConfigMaps \/ (\E cm \in cms : NextConfigMap(cm)) \/ InitDone \/ ConcurrentMapWrites
  BY <1>8, <1>u DEF ListConfigMaps, NextConfigMap, InitDone, ConcurrentMapWrites, informer
<1>9. CASE \E n \in Names : \E o \in Writable(n) \cup {Nil} : Write(n, o)
  BY <1>9, <1>u DEF Write, informer
<1>10. CASE UNCHANGED vars
  BY <1>10, <1>u DEF vars, informer
<1> QED
  BY <1>1, <1>2, <1>3, <1>4, <1>5, <1>6, <1>7, <1>8, <1>9, <1>10
     DEF Next, processConfigMap, InitConfigMap, Threads

LEMMA RunningStep ==
    ASSUME IInv, [Next]_vars
    PROVE  RunningPhase'
<1> USE DEF IInv, RunningPhase, TypeOK, At, Alive, Goto, Threads, informer, threads
<1>1. CASE Restart
  BY <1>1 DEF Restart
<1>2. CASE \E n \in Names : \E o \in Writable(n) \cup {Nil} : Write(n, o)
  BY <1>2 DEF Write
<1>3. CASE Start
  BY <1>3 DEF Start
<1>4. CASE \E n \in Names : Inform(n) \/ Resync(n)
  BY <1>4 DEF Inform, Resync
<1>5. CASE Notify
  BY <1>5 DEF Notify
<1>6. CASE GetKey
  BY <1>6 DEF GetKey
<1>7. CASE GetByKey
  BY <1>7 DEF GetByKey, Return
<1>8. ASSUME NEW t \in Threads, cacheConfigMap(t) PROVE RunningPhase'
  <2>1. CASE CacheNothing(t)
    BY <2>1 DEF CacheNothing, Return
  <2>2. CASE CacheDefault(t)
    BY <2>2 DEF CacheDefault
  <2>3. CASE \E k \in Keys : FillDefault(t, k)
    BY <2>3 DEF FillDefault
  <2>4. CASE ParseDefault(t)
    BY <2>4 DEF ParseDefault, Return
  <2>5. CASE StripDefault(t) \/ CacheRules(t) \/ CacheVersion(t)
    BY <2>5 DEF StripDefault, CacheRules, CacheVersion, Return
  <2> QED
    BY <1>8, <2>1, <2>2, <2>3, <2>4, <2>5 DEF cacheConfigMap
<1>9. CASE ListConfigMaps
  BY <1>9 DEF ListConfigMaps
<1>10. CASE \E cm \in cms : NextConfigMap(cm)
  BY <1>10 DEF NextConfigMap
<1>11. CASE InitDone
  BY <1>11 DEF InitDone
<1>12. CASE ConcurrentMapWrites
  <2>1. pc["init"] # "done"
    BY <1>12 DEF ConcurrentMapWrites, MapWritten
  <2> QED
    BY <1>12, <2>1 DEF ConcurrentMapWrites
<1>13. CASE UNCHANGED vars
  BY <1>13 DEF vars
<1> QED
  BY <1>1, <1>2, <1>3, <1>4, <1>5, <1>6, <1>7, <1>8, <1>9, <1>10, <1>11, <1>12, <1>13
     DEF Next, processConfigMap, InitConfigMap

\* A configmap that the worker is not processing stays tracked when it caches another.
LEMMA OthersTracked ==
    ASSUME IInv, cacheConfigMap("worker"), NEW n \in Names, n # job["worker"].name,
           Tracked(n)
    PROVE  Tracked(n)'
<1> USE DEF IInv, At, external, informer, cmQueue, config
<1>1. /\ UNCHANGED <<pending, indexer, dirty, job>>
      /\ pc["worker"] \in {"cache", "fill", "strip"}
      /\ pc["worker"]' \in {"get", "fill", "strip"}
  BY DEF cacheConfigMap, CacheNothing, CacheDefault, FillDefault, ParseDefault,
         StripDefault, CacheRules, CacheVersion, Return, Goto, TypeOK, Threads
<1>2. CASE Announced(n)
  BY <1>1, <1>2 DEF Tracked, Announced, Announces
<1>3. CASE n \in dirty
  BY <1>1, <1>3 DEF Tracked
<1>4. CASE Arrived(n)
  <2>1. n \notin processing'
    BY <1>1 DEF processing
  <2>2. Reflects(n, indexer[n])
    BY <1>4 DEF Arrived
  <2>3. n = ConfigMapName => UNCHANGED <<DefaultInjectorConfigMap, DefaultInjectorConfig>>
    BY DEF cacheConfigMap, CacheNothing, CacheDefault, FillDefault, ParseDefault,
         StripDefault, CacheRules, CacheVersion, RunningPhase
  <2>4. n = RuleConfigMapName => UNCHANGED InjectorRules
    BY DEF cacheConfigMap, CacheNothing, CacheDefault, FillDefault, ParseDefault,
         StripDefault, CacheRules, CacheVersion
  <2>5. n \in VersionNames => UNCHANGED InjectorConfigMaps[n]
    BY DEF cacheConfigMap, CacheNothing, CacheDefault, FillDefault, ParseDefault,
         StripDefault, CacheRules, CacheVersion, TypeOK
  <2>6. Reflects(n, indexer[n])'
    BY <1>1, <2>2, <2>3, <2>4, <2>5 DEF Reflects, CachedKeys
  <2> QED
    BY <2>1, <2>6 DEF Tracked, Arrived
<1> QED
  BY <1>1, <1>2, <1>3, <1>4 DEF Tracked, LookingUp, Caching

\* The configmap being cached: each step of cacheConfigMap brings config nearer to it.
LEMMA CachedTracked ==
    ASSUME IInv, cacheConfigMap("worker"), NEW n \in Names, n = job["worker"].name,
           indexer[n] # Nil, Tracked(n)
    PROVE  Tracked(n)'
<1> USE DEF IInv, At, Goto, Threads, external, informer, cmQueue, config
<1> DEFINE d == job["worker"].data
<1>1. /\ UNCHANGED <<pending, indexer, dirty, job>>
      /\ pc["worker"] \in {"cache", "fill", "strip"}
  BY DEF cacheConfigMap, CacheNothing, CacheDefault, FillDefault, ParseDefault,
         StripDefault, CacheRules, CacheVersion, Return
<1>2. CASE Announced(n)
  BY <1>1, <1>2 DEF Tracked, Announced, Announces
<1>3. CASE n \in dirty
  BY <1>1, <1>3 DEF Tracked
<1>4. CASE Caching(n)
  <2>1. d = indexer[n] /\ d' = d /\ indexer'[n] = indexer[n]
    BY <1>1, <1>4 DEF Caching
  <2>2. d \in Data /\ left["worker"] \subseteq Keys
    BY DEF TypeOK, Job
  <2>a. ASSUME pc'["worker"] = "get", Reflects(n, d)' PROVE Tracked(n)'
    BY <2>1, <2>a DEF Tracked, Arrived, processing
  <2>3. CASE CacheNothing("worker")
    <3>1. pc'["worker"] = "get" /\ d.kind = "nil"
      BY <2>3 DEF CacheNothing, Return, TypeOK
    <3> QED
      BY <2>1, <2>a, <3>1 DEF Reflects
  <2>4. CASE CacheDefault("worker")
    <3>1. pc'["worker"] = "fill" /\ n = ConfigMapName /\ d.kind # "nil"
      BY <2>4 DEF CacheDefault, TypeOK
    <3>2. DefaultInjectorConfigMap' = [k \in Keys |-> Nil]
      BY <2>4 DEF CacheDefault
    <3>3. left'["worker"] = IF d.kind = "plain" THEN Files ELSE Keys
      BY <2>4 DEF CacheDefault, TypeOK
    <3>4. \A k \in Keys : k \in left'["worker"] \/ (k = InjectorConfigName /\ d.kind = "plain")
      BY <3>3 DEF Keys
    <3>5. Caching(n)'
      BY <1>1, <2>1, <3>1, <3>2, <3>3, <3>4 DEF Caching
    <3> QED
      BY <3>5 DEF Tracked
  <2>5. CASE \E k \in Keys : FillDefault("worker", k)
    <3>1. PICK x \in Keys : FillDefault("worker", x)
      BY <2>5
    <3>2. /\ pc' = pc /\ pc["worker"] = "fill" /\ x \in left["worker"]
          /\ DefaultInjectorConfigMap' = [DefaultInjectorConfigMap EXCEPT ![x] = d.id]
          /\ left'["worker"] = left["worker"] \ {x}
      BY <3>1 DEF FillDefault, TypeOK
    <3>3. /\ n = ConfigMapName /\ d.kind # "nil"
          /\ d.kind = "plain" => left["worker"] \subseteq Files
          /\ DefaultInjectorConfigMap = [k \in Keys |->
                IF k \in left["worker"] \/ (k = InjectorConfigName /\ d.kind = "plain")
                THEN Nil ELSE d.id]
      BY <1>4, <3>2 DEF Caching
    <3>4. DefaultInjectorConfigMap' = [k \in Keys |->
             IF k \in left'["worker"] \/ (k = InjectorConfigName /\ d.kind = "plain")
             THEN Nil ELSE d.id]
      <4>1. x = InjectorConfigName => d.kind # "plain"
        BY <3>2, <3>3, ConstantsDistinct
      <4> DEFINE v(k, l) ==
            IF k \in l \/ (k = InjectorConfigName /\ d.kind = "plain") THEN Nil ELSE d.id
      <4>2. DefaultInjectorConfigMap' =
               [k \in Keys |-> IF k = x THEN d.id ELSE v(k, left["worker"])]
        BY <3>2, <3>3
      <4>3. \A k \in Keys : (IF k = x THEN d.id ELSE v(k, left["worker"]))
                              = v(k, left["worker"] \ {x})
        BY <4>1
      <4> QED
        BY <3>2, <4>2, <4>3
    <3>5. d.kind = "plain" => left'["worker"] \subseteq Files
      BY <3>2, <3>3
    <3>6. pc'["worker"] = "fill" /\ job'["worker"].name = n /\ d' = indexer'[n] /\ d' = d
      BY <1>1, <2>1, <3>2
    <3>7. Caching(n)'
      BY <3>3, <3>4, <3>5, <3>6 DEF Caching
    <3> QED
      BY <3>7 DEF Tracked
  <2>6. CASE ParseDefault("worker")
    <3>1. /\ n = ConfigMapName /\ d.kind # "nil" /\ left["worker"] = {}
          /\ DefaultInjectorConfigMap = [k \in Keys |->
                IF k = InjectorConfigName /\ d.kind = "plain" THEN Nil ELSE d.id]
          /\ DefaultInjectorConfigMap' = DefaultInjectorConfigMap
      BY <1>4, <2>6 DEF Caching, ParseDefault
    <3>2. CASE d.kind = "wellformed"
      <4>1. pc'["worker"] = "strip" /\ DefaultInjectorConfig' = d.id
        BY <2>6, <3>2 DEF ParseDefault, TypeOK
      <4>2. DefaultInjectorConfigMap' = [k \in Keys |-> d.id]
        BY <3>1, <3>2
      <4>3. Caching(n)'
        BY <1>1, <2>1, <3>1, <3>2, <4>1, <4>2 DEF Caching
      <4> QED
        BY <4>3 DEF Tracked
    <3>3. CASE d.kind # "wellformed"
      <4>1. pc'["worker"] = "get"
        BY <2>6, <3>3 DEF ParseDefault, Return, TypeOK
      <4>2. d.kind \in {"plain", "malformed"}
        BY <2>2, <3>1, <3>3 DEF Data
      <4>3. DefaultInjectorConfigMap' = CachedKeys(d)
        BY <3>1, <4>2, ConstantsDistinct DEF CachedKeys, Keys
      <4> QED
        BY <2>1, <2>a, <3>1, <3>3, <4>1, <4>3, ConstantsDistinct
           DEF Reflects, CachedKeys, VersionNames
    <3> QED
      BY <3>2, <3>3
  <2>7. CASE StripDefault("worker")
    <3>1. /\ n = ConfigMapName /\ d.kind = "wellformed"
          /\ DefaultInjectorConfigMap = [k \in Keys |-> d.id]
          /\ DefaultInjectorConfig = d.id
      BY <1>4, <2>7 DEF Caching, StripDefault
    <3>2. /\ pc'["worker"] = "get" /\ DefaultInjectorConfig' = DefaultInjectorConfig
          /\ DefaultInjectorConfigMap' =
                [DefaultInjectorConfigMap EXCEPT ![InjectorConfigName] = Nil]
      BY <2>7 DEF StripDefault, Return, TypeOK
    <3>3. DefaultInjectorConfigMap' = CachedKeys(d)
      BY <3>1, <3>2, ConstantsDistinct DEF CachedKeys, Keys
    <3> QED
      BY <2>1, <2>a, <3>1, <3>2, <3>3, ConstantsDistinct DEF Reflects, CachedKeys, VersionNames
  <2>8. CASE CacheRules("worker")
    <3>1. /\ pc'["worker"] = "get" /\ n = RuleConfigMapName
          /\ InjectorRules' = IF d.kind = "malformed" THEN InjectorRules ELSE d.id
      BY <2>8 DEF CacheRules, Return, TypeOK
    <3> QED
      BY <2>1, <2>a, <3>1, ConstantsDistinct DEF Reflects, VersionNames
  <2>9. CASE CacheVersion("worker")
    <3>1. /\ pc'["worker"] = "get" /\ n \in VersionNames
          /\ InjectorConfigMaps'[n] = d.id
      BY <2>9 DEF CacheVersion, Return, TypeOK
    <3> QED
      BY <2>1, <2>a, <3>1 DEF Reflects, VersionNames
  <2> QED
    BY <2>3, <2>4, <2>5, <2>6, <2>7, <2>8, <2>9 DEF cacheConfigMap
<1> QED
  BY <1>1, <1>2, <1>3, <1>4 DEF Tracked, LookingUp, Arrived, processing

LEMMA NotifyTracked ==
    ASSUME IInv, Notify, NEW n \in Names, indexer[n] # Nil, Tracked(n)
    PROVE  Tracked(n)'
<1> USE DEF IInv, external, informer, cmQueue, config, threads
<1> DEFINE e == Head(pending)
<1>1. /\ pending # <<>> /\ pending' = Tail(pending)
      /\ UNCHANGED <<indexer, pc, job, left>>
      /\ AddFunc(e) \/ UpdateFunc(e) \/ DeleteFunc(e)
      /\ UNCHANGED <<DefaultInjectorConfigMap, DefaultInjectorConfig, InjectorConfigMaps>>
  BY DEF Notify, AddFunc, UpdateFunc, DeleteFunc
<1>2. dirty \subseteq dirty'
  BY <1>1 DEF AddFunc, UpdateFunc, DeleteFunc, createOrUpdateCache
<1>3. e = pending[1] /\ 1 \in DOMAIN pending
  BY <1>1, TailPending
<1>4. CASE Announced(n)
  <2>1. PICK i \in DOMAIN pending : Announces(pending[i], n)
    BY <1>4 DEF Announced
  <2>2. CASE i = 1
    <3>1. e.name = n /\ e.new # Nil /\ e.old # e.new
      BY <1>3, <2>1, <2>2 DEF Announces
    <3>2. n \in dirty'
      BY <1>1, <3>1 DEF AddFunc, UpdateFunc, DeleteFunc, createOrUpdateCache, isConfigMapEqual
    <3> QED
      BY <3>2 DEF Tracked
  <2>3. CASE i # 1
    <3>1. i - 1 \in DOMAIN pending' /\ pending'[i - 1] = pending[i]
      BY <1>1, <2>3, TailPending
    <3>2. Announced(n)'
      BY <2>1, <3>1 DEF Announced, Announces
    <3> QED
      BY <3>2 DEF Tracked
  <2> QED
    BY <2>2, <2>3
<1>5. CASE n \in dirty
  BY <1>2, <1>5 DEF Tracked
<1>6. CASE LookingUp(n) \/ Caching(n)
  BY <1>1, <1>6 DEF Tracked, LookingUp, Caching
<1>7. CASE Arrived(n)
  <2>1. CASE InjectorRules' = InjectorRules \/ n # RuleConfigMapName
    BY <1>1, <1>7, <2>1 DEF Tracked, Arrived, Reflects, CachedKeys, processing
  <2>2. CASE InjectorRules' # InjectorRules /\ n = RuleConfigMapName
    <3>1. e.new = Nil /\ e.name = n
      BY <1>1, <2>2 DEF AddFunc, UpdateFunc, DeleteFunc
    <3>2. PICK j \in DOMAIN pending : j > 1 /\ Announces(pending[j], n)
      BY <1>3, <3>1 DEF DeletionsFollowed
    <3>3. j # 1
      BY <3>2
    <3>4. j - 1 \in DOMAIN pending' /\ pending'[j - 1] = pending[j]
      BY <1>1, <3>3, TailPending
    <3>5. Announced(n)'
      BY <3>2, <3>4 DEF Announced, Announces
    <3> QED
      BY <3>5 DEF Tracked
  <2> QED
    BY <2>1, <2>2
<1> QED
  BY <1>4, <1>5, <1>6, <1>7 DEF Tracked

LEMMA TrackedStep ==
    ASSUME IInv, [Next]_vars
    PROVE  EveryChangeTracked'
<1> USE DEF IInv, At, Goto, Threads, external, informer, cmQueue, config, threads
<1>1. SUFFICES ASSUME NEW n \in fresh', indexer'[n] # Nil
               PROVE  Tracked(n)'
  BY DEF EveryChangeTracked
<1>2. n \in Names
  BY TypeStep DEF TypeOK
<1>i. ASSUME At("init", pc["init"]), pc["init"] # "done", fresh' = fresh PROVE FALSE
  BY <1>i, <1>1 DEF RunningPhase, Alive
<1>3. CASE Restart
  BY <1>1, <1>3 DEF Restart
<1>4. CASE \E m \in Names : \E o \in Writable(m) \cup {Nil} : Write(m, o)
  <2>1. UNCHANGED <<informer, cmQueue, threads, config>>
    BY <1>4 DEF Write
  <2> QED
    BY <1>1, <2>1 DEF EveryChangeTracked, Tracked, Announced, Announces, LookingUp,
                      Caching, Arrived, Reflects, CachedKeys, processing
<1>5. CASE Start
  BY <1>1, <1>5 DEF Start, RunningPhase
<1>6. ASSUME NEW m \in Names, Inform(m) \/ Resync(m) PROVE Tracked(n)'
  <2>0. PICK new \in {api[m], indexer[m]}, tombstone \in BOOLEAN :
           /\ Inform(m) => new = api[m]
           /\ pending' = Append(pending, [name |-> m, old |-> indexer[m], new |-> new,
                                          tombstone |-> tombstone])
    BY <1>6 DEF Inform, Resync
  <2> DEFINE e == [name |-> m, old |-> indexer[m], new |-> new, tombstone |-> tombstone]
  <2>1. pending' = Append(pending, e) /\ UNCHANGED <<cmQueue, threads, config>>
    BY <1>6, <2>0 DEF Inform, Resync
  <2>2. e \in Notification
    <3>1. api[m] \in Object /\ indexer[m] \in Object
      BY DEF TypeOK
    <3> QED
      BY <3>1 DEF Notification
  <2>3. /\ Len(pending) + 1 \in DOMAIN pending' /\ pending'[Len(pending) + 1] = e
        /\ \A i \in DOMAIN pending : i \in DOMAIN pending' /\ pending'[i] = pending[i]
    BY <2>1, <2>2, AppendPending
  <2>4. CASE Inform(m) /\ n = m
    <3>1. indexer[m] # api[m] /\ api[m] # Nil
      BY <1>1, <2>4 DEF Inform, TypeOK
    <3>2. Announced(n)'
      BY <2>0, <2>3, <2>4, <3>1 DEF Announced, Announces
    <3> QED
      BY <3>2 DEF Tracked
  <2>5. CASE ~(Inform(m) /\ n = m)
    <3>1. n \in fresh /\ indexer'[n] = indexer[n]
      <4>1. CASE Inform(m)
        <5>1. /\ indexer' = [indexer EXCEPT ![m] = api[m]] /\ n # m
              /\ fresh' \subseteq fresh \cup {m}
          BY <2>5, <4>1 DEF Inform
        <5> QED
          BY <1>1, <1>2, <5>1 DEF TypeOK
      <4>2. CASE Resync(m)
        BY <1>1, <4>2 DEF Resync
      <4> QED
        BY <1>6, <4>1, <4>2
    <3>2. Tracked(n)
      BY <1>1, <3>1 DEF EveryChangeTracked
    <3>3. Announced(n) => Announced(n)'
      BY <2>3 DEF Announced, Announces
    <3> QED
      BY <2>1, <3>1, <3>2, <3>3
         DEF Tracked, LookingUp, Caching, Arrived, Reflects, CachedKeys, processing
  <2> QED
    BY <2>4, <2>5
<1>7. CASE Notify
  <2>1. n \in fresh /\ indexer[n] # Nil
    BY <1>1, <1>7 DEF Notify
  <2> QED
    BY <1>2, <1>7, <2>1, NotifyTracked DEF EveryChangeTracked
<1>8. CASE GetKey
  <2>1. /\ n \in fresh /\ indexer[n] # Nil /\ UNCHANGED <<pending, indexer, config>>
        /\ pc["worker"] = "get" /\ pc'["worker"] = "lookup"
        /\ job'["worker"].name = Head(queue) /\ dirty' = dirty \ {Head(queue)}
    BY <1>1, <1>8 DEF GetKey, TypeOK
  <2>2. Tracked(n)
    BY <2>1 DEF EveryChangeTracked
  <2> QED
    BY <2>1, <2>2 DEF Tracked, Announced, Announces, LookingUp, Caching, Arrived,
                      Reflects, CachedKeys, processing
<1>9. CASE GetByKey
  <2>1. /\ n \in fresh /\ indexer[n] # Nil /\ UNCHANGED <<pending, indexer, dirty, config>>
        /\ pc["worker"] = "lookup"
    BY <1>1, <1>9 DEF GetByKey, Return
  <2>2. Tracked(n)
    BY <2>1 DEF EveryChangeTracked
  <2>3. CASE n = job["worker"].name
    <3>1. pc'["worker"] = "cache" /\ job'["worker"] = [name |-> n, data |-> indexer[n]]
      BY <1>9, <2>1, <2>3 DEF GetByKey, TypeOK
    <3>2. Caching(n)'
      BY <2>1, <3>1 DEF Caching
    <3> QED
      BY <3>2 DEF Tracked
  <2>4. CASE n # job["worker"].name
    <3>1. job'["worker"].name = job["worker"].name
      BY <1>9 DEF GetByKey, Return, TypeOK
    <3> QED
      BY <2>1, <2>2, <2>4, <3>1
         DEF Tracked, Announced, Announces, LookingUp, Caching, Arrived, Reflects,
             CachedKeys, processing
  <2> QED
    BY <2>3, <2>4
<1>10. CASE cacheConfigMap("worker")
  <2>1. UNCHANGED <<fresh, indexer>>
    BY <1>10 DEF cacheConfigMap, CacheNothing, CacheDefault, FillDefault, ParseDefault,
                StripDefault, CacheRules, CacheVersion, Return
  <2>2. Tracked(n) /\ indexer[n] # Nil
    BY <1>1, <2>1 DEF EveryChangeTracked
  <2> QED
    BY <1>2, <1>10, <2>2, OthersTracked, CachedTracked
<1>11. CASE cacheConfigMap("init")
  BY <1>11, <1>i DEF cacheConfigMap, CacheNothing, CacheDefault, FillDefault, ParseDefault,
                StripDefault, CacheRules, CacheVersion, Return
<1>12. CASE ListConfigMaps \/ (\E cm \in cms : NextConfigMap(cm)) \/ InitDone
  BY <1>12, <1>i DEF ListConfigMaps, NextConfigMap, InitDone
<1>13. CASE ConcurrentMapWrites
  <2>1. pc["init"] # "done"
    BY <1>13 DEF ConcurrentMapWrites, MapWritten
  <2> QED
    BY <1>13, <1>i, <2>1 DEF ConcurrentMapWrites
<1>14. CASE UNCHANGED vars
  <2>1. UNCHANGED <<informer, cmQueue, threads, config>>
    BY <1>14 DEF vars
  <2> QED
    BY <1>1, <2>1 DEF EveryChangeTracked, Tracked, Announced, Announces, LookingUp,
                      Caching, Arrived, Reflects, CachedKeys, processing
<1> QED
  BY <1>3, <1>4, <1>5, <1>6, <1>7, <1>8, <1>9, <1>10, <1>11, <1>12, <1>13, <1>14
     DEF Next, processConfigMap, InitConfigMap

LEMMA IInvInvariant == Spec => []IInv
<1>1. Init => IInv
  <2>1. Init => TypeOK
    BY DEF Init, TypeOK, Threads, NoJob, Job, Data, NilData, Object, Labels
  <2>2. Init => RunningPhase /\ DeletionsFollowed /\ EveryChangeTracked
    BY DEF Init, RunningPhase, DeletionsFollowed, EveryChangeTracked, Threads
  <2> QED
    BY <2>1, <2>2 DEF IInv
<1>2. IInv /\ [Next]_vars => IInv'
  <2> SUFFICES ASSUME IInv, [Next]_vars PROVE IInv'
    OBVIOUS
  <2>1. TypeOK'
    BY TypeStep DEF IInv
  <2> QED
    BY <2>1, RunningStep, DeletionsStep, TrackedStep DEF IInv
<1> QED
  BY <1>1, <1>2, PTL DEF Spec

\* No change of a configmap made while the process runs is lost between the
\* informer's indexer and the variables of pkg/config, whatever the order in
\* which the informer, the listener and the worker take their steps.
THEOREM NoLostChange == Spec => []NoChangeLost
<1>1. IInv => NoChangeLost
  <2> SUFFICES ASSUME IInv, NEW n \in fresh, phase = "running", Settled(n),
                      indexer[n] # Nil
               PROVE  Reflects(n, indexer[n])
    BY DEF NoChangeLost
  <2>1. Tracked(n)
    BY DEF IInv, EveryChangeTracked
  <2> QED
    BY <2>1 DEF Tracked, Settled, Announced, Announces, LookingUp, Caching, Arrived,
                processing
<1> QED
  BY <1>1, IInvInvariant, PTL

-----------------------------------------------------------------------------
(* What is cached is what was written; what InitConfigMap listed gets cached. *)

\* What config takes over is an id, and rules that did not fail to parse are rules.
LEMMA WritableKinds ==
    ASSUME NEW n \in Names, NEW d \in Writable(n)
    PROVE  /\ d \in Data /\ d # Nil
           /\ d.kind = "wellformed" => d.id \in Ids /\ d.id # Nil /\ d = [id |-> d.id, kind |-> "wellformed"]
           /\ n = RuleConfigMapName => d.kind \in {"nil", "malformed", "wellformed"}
           /\ n \in VersionNames => d.kind \in {"nil", "plain"}
<1>1. d \in Data
  BY WritableType
<1>2. d = NilData \/ d \in [id : Ids, kind : {"plain", "malformed", "wellformed"}]
  BY DEF Writable
<1>3. d.kind = "wellformed" => d.id \in Ids /\ d = [id |-> d.id, kind |-> "wellformed"]
  BY <1>2 DEF NilData
<1>4. n = RuleConfigMapName => d.kind \in {"nil", "malformed", "wellformed"}
  BY ConstantsDistinct DEF Writable, NilData
<1>5. n \in VersionNames => d.kind \in {"nil", "plain"}
  BY DEF Writable, NilData, VersionNames
<1> QED
  BY <1>1, <1>3, <1>4, <1>5, ConstantsDistinct, NilIsNoData

\* The step of cacheConfigMap that returns, and the others.
LEMMA CachePc ==
    ASSUME TypeOK, NEW t \in Threads, cacheConfigMap(t)
    PROVE  /\ UNCHANGED <<external, indexer, job, cms, listed>> /\ Busy(t) /\ Alive
           /\ \A u \in Threads : u # t => pc'[u] = pc[u]
           /\ \/ pc'[t] \in {"get", "next"}
              \/ /\ pc'[t] = "fill" /\ UNCHANGED phase
                 /\ \/ pc[t] = "fill"
                    \/ job[t].name = ConfigMapName /\ job[t].data.kind # "nil"
              \/ /\ pc'[t] = "strip" /\ pc[t] = "fill" /\ UNCHANGED phase
                 /\ job[t].data.kind = "wellformed"
                 /\ DefaultInjectorConfig' = job[t].data.id
           /\ pc'[t] \in {"get", "next"} /\ t = "init" => pc'[t] = "next"
<1> USE DEF TypeOK, At, Goto, Busy, informer
<1>1. CASE CacheNothing(t) \/ CacheRules(t) \/ CacheVersion(t) \/ StripDefault(t)
  BY <1>1 DEF CacheNothing, CacheRules, CacheVersion, StripDefault, Return
<1>2. CASE CacheDefault(t)
  BY <1>2 DEF CacheDefault
<1>3. CASE \E k \in Keys : FillDefault(t, k)
  BY <1>3 DEF FillDefault
<1>4. CASE ParseDefault(t)
  BY <1>4 DEF ParseDefault, Return
<1> QED
  BY <1>1, <1>2, <1>3, <1>4 DEF cacheConfigMap

\* Once parsed, a default configuration is only replaced by another one.
LEMMA ConfigStays ==
    ASSUME TypeOK, OnlyWhatIsWritten, NEW t \in Threads, cacheConfigMap(t),
           DefaultInjectorConfig # Nil
    PROVE  DefaultInjectorConfig' # Nil
<1>1. job[t].name \in Names /\ job[t].data \in Writable(job[t].name)
  BY CachePc DEF OnlyWhatIsWritten
<1>2. job[t].data.kind = "wellformed" => job[t].data.id # Nil
  BY <1>1, WritableKinds
<1> QED
  BY <1>2 DEF cacheConfigMap, CacheNothing, CacheDefault, FillDefault, ParseDefault, StripDefault,
              CacheRules, CacheVersion, config

LEMMA WrittenStep ==
    ASSUME TypeOK, OnlyWhatIsWritten, [Next]_vars
    PROVE  OnlyWhatIsWritten'
<1> USE DEF TypeOK, OnlyWhatIsWritten, Busy, At, Goto, Threads, external, informer, threads
<1>1. CASE Restart
  BY <1>1 DEF Restart, Writable
<1>2. ASSUME NEW n \in Names, NEW o \in Writable(n) \cup {Nil}, Write(n, o)
      PROVE  OnlyWhatIsWritten'
  BY <1>2 DEF Write, config
<1>3. CASE Start
  BY <1>3 DEF Start, config
<1>4. ASSUME NEW n \in Names, Inform(n) \/ Resync(n) PROVE OnlyWhatIsWritten'
  BY <1>4 DEF Inform, Resync, config
<1>5. CASE Notify
  <2>1. DefaultInjectorConfig' = DefaultInjectorConfig
    BY <1>5 DEF Notify, AddFunc, UpdateFunc, DeleteFunc, config
  <2> QED
    BY <1>5, <2>1 DEF Notify
<1>6. ASSUME NEW t \in Threads, cacheConfigMap(t) PROVE OnlyWhatIsWritten'
  <2>1. job[t].name \in Names /\ job[t].data \in Writable(job[t].name)
    BY <1>6, CachePc
  <2>2. job[t].data.kind = "wellformed" => job[t].data.id # Nil
    BY <2>1, WritableKinds
  <2>3. UNCHANGED <<external, indexer, job, cms, listed>>
        /\ \A u \in Threads : u # t => pc'[u] = pc[u]
    BY <1>6, CachePc
  <2>4. pc'[t] \in {"fill", "strip"} => job[t].name = ConfigMapName /\ job[t].data.kind # "nil"
    BY <1>6, CachePc
  <2>5. pc'["init"] = "strip" => job["init"].data.kind = "wellformed" /\ DefaultInjectorConfig' # Nil
    <3>1. CASE t = "init"
      BY <1>6, <2>2, <3>1, CachePc
    <3>2. CASE t # "init"
      BY <1>6, <2>3, <3>2, ConfigStays
    <3> QED
      BY <3>1, <3>2
  <2>6. Busy(t)
    BY <1>6, CachePc
  <2> QED
    BY <2>3, <2>4, <2>5, <2>6
<1>7. CASE GetKey
  BY <1>7 DEF GetKey, config
<1>8. CASE GetByKey
  BY <1>8 DEF GetByKey, Return, config
<1>9. CASE ListConfigMaps
  BY <1>9, NilIsNoData DEF ListConfigMaps, config
<1>10. ASSUME NEW cm \in cms, NextConfigMap(cm) PROVE OnlyWhatIsWritten'
  BY <1>10 DEF NextConfigMap, config
<1>11. CASE InitDone \/ ConcurrentMapWrites
  BY <1>11 DEF InitDone, ConcurrentMapWrites, config
<1>12. CASE UNCHANGED vars
  BY <1>12 DEF vars, config
<1> QED
  BY <1>1, <1>2, <1>3, <1>4, <1>5, <1>6, <1>7, <1>8, <1>9, <1>10, <1>11, <1>12
     DEF Next, processConfigMap, InitConfigMap

\* A configmap that InitConfigMap has cached without an error was cached whole.
LEMMA ReturnCached ==
    ASSUME TypeOK, OnlyWhatIsWritten, cacheConfigMap("init"), pc'["init"] = "next", Alive'
    PROVE  Cached(job["init"])'
<1> USE DEF TypeOK, At, Goto, Threads
<1> DEFINE cm == job["init"]
<1>1. job' = job /\ Busy("init") /\ Alive
  BY CachePc
<1>2. cm.name \in Names /\ cm.data \in Writable(cm.name)
  BY <1>1 DEF OnlyWhatIsWritten
<1>k. /\ cm.name = RuleConfigMapName => cm.data.kind \in {"nil", "malformed", "wellformed"}
      /\ cm.name \in VersionNames => cm.data.kind \in {"nil", "plain"}
      /\ cm.data.kind \in {"nil", "plain", "malformed", "wellformed"}
  BY <1>2, WritableKinds DEF Data
<1>e. ASSUME NEW err \in BOOLEAN, Return("init", err) PROVE err = FALSE
  BY <1>e DEF Return, Alive
<1>3. CASE CacheNothing("init")
  BY <1>3, <1>e DEF CacheNothing
<1>4. CASE CacheRules("init")
  BY <1>1, <1>4, <1>e, <1>k, ConstantsDistinct DEF CacheRules, Cached
<1>5. CASE CacheVersion("init")
  BY <1>1, <1>5, <1>k, ConstantsDistinct DEF CacheVersion, Cached
<1>6. CASE CacheDefault("init") \/ (\E k \in Keys : FillDefault("init", k))
  BY <1>6 DEF CacheDefault, FillDefault
<1>7. CASE ParseDefault("init")
  <2>1. cm.data.kind # "nil"
    BY <1>7 DEF ParseDefault, OnlyWhatIsWritten
  <2>2. cm.data.kind # "wellformed" /\ Return("init", cm.data.kind = "malformed")
    BY <1>7 DEF ParseDefault
  <2>3. cm.data.kind = "plain"
    BY <1>e, <1>k, <2>1, <2>2
  <2> QED
    BY <1>1, <2>3 DEF Cached
<1>8. CASE StripDefault("init")
  BY <1>1, <1>8 DEF StripDefault, Cached, OnlyWhatIsWritten
<1> QED
  BY <1>3, <1>4, <1>5, <1>6, <1>7, <1>8 DEF cacheConfigMap

LEMMA ListedStep ==
    ASSUME TypeOK, ReadInv, [Next]_vars
    PROVE  ListedOrCached'
<1> USE DEF TypeOK, ReadInv, ListedOrCached, At, Goto, Threads, external, informer, threads, Alive
<1>1. CASE Restart
  BY <1>1 DEF Restart
<1>2. ASSUME NEW n \in Names, NEW o \in Writable(n) \cup {Nil}, Write(n, o)
      PROVE  ListedOrCached'
  BY <1>2 DEF Write, config, Cached, Busy
<1>3. CASE Start
  BY <1>3 DEF Start, config
<1>4. ASSUME NEW n \in Names, Inform(n) \/ Resync(n) PROVE ListedOrCached'
  BY <1>4 DEF Inform, Resync, config, Cached, Busy
<1>5. CASE Notify
  <2>1. DefaultInjectorConfig' = DefaultInjectorConfig
    BY <1>5 DEF Notify, AddFunc, UpdateFunc, DeleteFunc, config
  <2> QED
    BY <1>5, <2>1 DEF Notify, Cached, Busy
<1>6. ASSUME NEW t \in Threads, cacheConfigMap(t) PROVE ListedOrCached'
  <2>1. /\ UNCHANGED <<job, cms, listed>> /\ Busy(t)
        /\ \A u \in Threads : u # t => pc'[u] = pc[u]
    BY <1>6, CachePc
  <2>2. \A cm \in listed : Cached(cm) => Cached(cm)'
    BY <1>6, ConfigStays DEF Cached
  <2>3. pc'["init"] \notin {"wait", "list", "done"} \/ pc'["init"] = pc["init"]
    BY <1>6, <2>1, CachePc
  <2>4. phase' # "boot" /\ (Alive' => Alive)
    BY <1>6, CachePc DEF cacheConfigMap, CacheNothing, CacheDefault, FillDefault, ParseDefault,
                         StripDefault, CacheRules, CacheVersion, Return
  <2>5. CASE t = "worker"
    BY <2>1, <2>2, <2>3, <2>4, <2>5 DEF Busy
  <2>6. CASE t = "init"
    <3>1. Busy("init")' \/ pc'["init"] = "next"
      BY <1>6, <2>6, CachePc DEF Busy
    <3>2. pc'["init"] = "next" /\ Alive' => Cached(job["init"])'
      BY <1>6, <2>6, ReturnCached
    <3> QED
      BY <2>1, <2>2, <2>3, <2>4, <3>1, <3>2
  <2> QED
    BY <2>5, <2>6
<1>7. CASE GetKey
  BY <1>7 DEF GetKey, config, Cached, Busy
<1>8. CASE GetByKey
  BY <1>8 DEF GetByKey, Return, config, Cached, Busy
<1>9. CASE ListConfigMaps
  BY <1>9 DEF ListConfigMaps
<1>10. ASSUME NEW cm \in cms, NextConfigMap(cm) PROVE ListedOrCached'
  BY <1>10 DEF NextConfigMap, config, Cached, Busy
<1>11. CASE InitDone
  BY <1>11 DEF InitDone, config, Cached, Busy
<1>12. CASE ConcurrentMapWrites
  BY <1>12 DEF ConcurrentMapWrites
<1>13. CASE UNCHANGED vars
  BY <1>13 DEF vars, config, Cached, Busy
<1> QED
  BY <1>1, <1>2, <1>3, <1>4, <1>5, <1>6, <1>7, <1>8, <1>9, <1>10, <1>11, <1>12, <1>13
     DEF Next, processConfigMap, InitConfigMap

LEMMA ReadInvariant == Spec => [](TypeOK /\ ReadInv /\ RunningPhase)
<1>1. Init => ReadInv
  BY DEF Init, ReadInv, OnlyWhatIsWritten, ListedOrCached, Busy, Alive, Threads
<1>2. TypeOK /\ ReadInv /\ [Next]_vars => ReadInv'
  BY WrittenStep, ListedStep DEF ReadInv
<1>3. IInv => TypeOK /\ RunningPhase
  BY DEF IInv
<1> QED
  BY <1>1, <1>2, <1>3, TypeCorrect, IInvInvariant, PTL DEF Spec

\* The server never gets to run on a configmap that InitConfigMap gave up on, or
\* without the DefaultInjectorConfig that such a configmap holds.
THEOREM ServesConfigured == Spec => []RunningMeansConfigured
<1>1. TypeOK /\ ReadInv /\ RunningPhase => RunningMeansConfigured
  <2> SUFFICES ASSUME ReadInv, RunningPhase, phase = "running", NEW cm \in listed
               PROVE  Cached(cm)
    BY DEF RunningMeansConfigured, Cached
  <2>1. pc["init"] = "done" /\ cms = {}
    BY DEF RunningPhase, ReadInv, ListedOrCached
  <2> QED
    BY <2>1 DEF ReadInv, ListedOrCached, Busy, Alive
<1> QED
  BY <1>1, ReadInvariant, PTL

\* InjectorRules only ever changes to the rules of a configmap that was read and
\* that parsed, or to none when a deletion of the rule configmap was watched.
THEOREM RulesWhole == Spec => RulesReplacedWhole
<1>1. TypeOK /\ ReadInv /\ [Next]_vars =>
         [InjectorRules' # InjectorRules /\ phase' # "boot" =>
            \/ InjectorRules' = Nil /\ pending # <<>>
                  /\ Head(pending).name = RuleConfigMapName /\ Head(pending).new = Nil
                  /\ ~Head(pending).tombstone
            \/ \E t \in Threads : /\ job[t].name = RuleConfigMapName
                                  /\ job[t].data = [id |-> InjectorRules', kind |-> "wellformed"]]_vars
  <2> SUFFICES ASSUME TypeOK, ReadInv, Next, InjectorRules' # InjectorRules, phase' # "boot"
               PROVE  \/ InjectorRules' = Nil /\ pending # <<>>
                            /\ Head(pending).name = RuleConfigMapName /\ Head(pending).new = Nil
                            /\ ~Head(pending).tombstone
                      \/ \E t \in Threads :
                            /\ job[t].name = RuleConfigMapName
                            /\ job[t].data = [id |-> InjectorRules', kind |-> "wellformed"]
    OBVIOUS
  <2>1. Notify \/ \E t \in Threads : CacheRules(t)
    BY DEF Next, Restart, Write, Start, Inform, Resync, processConfigMap, GetKey, GetByKey,
           InitConfigMap, ListConfigMaps, NextConfigMap, InitDone, ConcurrentMapWrites,
           cacheConfigMap, CacheNothing, CacheDefault, FillDefault, ParseDefault, StripDefault,
           CacheVersion, config, Threads
  <2>2. CASE Notify
    BY <2>2 DEF Notify, AddFunc, UpdateFunc, DeleteFunc, config
  <2>3. ASSUME NEW t \in Threads, CacheRules(t)
        PROVE  /\ job[t].name = RuleConfigMapName
               /\ job[t].data = [id |-> InjectorRules', kind |-> "wellformed"]
    <3>1. /\ job[t].name = RuleConfigMapName /\ job[t].data.kind \notin {"nil", "malformed"}
          /\ InjectorRules' = job[t].data.id /\ Busy(t)
      BY <2>3 DEF CacheRules, At, Busy
    <3>2. job[t].name \in Names /\ job[t].data \in Writable(job[t].name)
      BY <3>1 DEF ReadInv, OnlyWhatIsWritten
    <3>3. job[t].data.kind = "wellformed"
      BY <3>1, <3>2, WritableKinds
    <3> QED
      BY <3>1, <3>2, <3>3, WritableKinds
  <2> QED
    BY <2>1, <2>2, <2>3
<1> QED
  BY <1>1, ReadInvariant, PTL DEF Spec, RulesReplacedWhole
=============================================================================
