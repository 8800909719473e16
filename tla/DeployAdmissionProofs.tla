------------------------ MODULE DeployAdmissionProofs ------------------------
(***************************************************************************)
(* Proofs about DeployAdmission: for any number of Deployments, versions   *)
(* and concurrent requests, and for all that may go wrong around them.     *)
(***************************************************************************)
EXTENDS DeployAdmission, TLAPS

-----------------------------------------------------------------------------
(* The inductive invariant of AllowedMeansWritten and NoLostUpdate. *)

\* Where a handler is says what it has done, and what the API server knows of it.
HandlerProgress ==
    \A r \in Requests :
        /\ handler[r] # "none" <=> req[r] # Nil
        /\ handler[r] = "none" <=> server[r] = "new"
        /\ server[r] = "allowed" => handler[r] = "end"
        /\ handler[r] = "delete" => req[r].op = "DELETE"
        /\ handler[r] \in {"resolve", "get", "create", "update", "environments"}
              => req[r].op # "DELETE" /\ req[r].obj.match
        /\ handler[r] \in {"none", "resolve", "get", "create", "update", "delete"}
              => wrote[r] = Nil
        /\ handler[r] \in {"get", "create", "update", "environments"} => data[r] # Nil
        /\ handler[r] = "environments" => wrote[r] = data[r]
        /\ handler[r] = "create" => cm[r] = Nil
        /\ handler[r] = "update" => cm[r] # Nil

\* A request that overwrote a configmap left it newer than it found it.
VersionsGrow ==
    /\ \A d \in Deployments : cms[d] # Nil => cms[d].rv <= rev
    /\ \A r \in Requests : cm[r] # Nil => cm[r].rv <= rev
    /\ \A r \in Requests :
          req[r] # Nil /\ Overwrote(r) /\ cms[req[r].name] # Nil
             => cm[r].rv < cms[req[r].name].rv

IInv == TypeOK /\ HandlerProgress /\ VersionsGrow /\ AllowedMeansWritten /\ NoLostUpdate

(* The inductive invariant of ConfigMapsFollowDeployments. *)

\* The configmap has the files of the request.
Kept(r) == cms[req[r].name] # Nil /\ cms[req[r].name].data = data[r]

Follows(d) ==
    /\ ~Exists(d) => cms[d] = Nil
    /\ Exists(d) /\ deploys[d].obj.match => cms[d] # Nil /\ cms[d].data = deploys[d].files

\* Nobody else touches the Deployment or its configmap, and the API server waits
\* for the handler: what that has done to the configmap is there to stay, until
\* the API server does the same to the Deployment.
InOrder(r) ==
    /\ \A q \in Requests \ {r} : Active(q) => req[q].name # req[r].name
    /\ handler[r] # "end" => server[r] = "calling"
    /\ handler[r] = "environments" => Kept(r)
    /\ server[r] = "allowed" /\ req[r].op = "DELETE" => cms[req[r].name] = Nil
    /\ server[r] = "allowed" /\ req[r].op # "DELETE" /\ req[r].obj.match => Kept(r)
    /\ server[r] = "done" => Follows(req[r].name)

AloneInOrder ==
    \A d \in Deployments : alone[d] # Nil =>
        req[alone[d]] # Nil /\ req[alone[d]].name = d /\ InOrder(alone[d])

-----------------------------------------------------------------------------
(* Type correctness. *)

\* The handler ends with an answer: only handler and server change.
LEMMA AnswerStep ==
    ASSUME TypeOK, NEW r \in Requests, NEW verdict \in {"allowed", "denied"},
           Answer(r, verdict)
    PROVE  /\ handler' \in [Requests -> Labels]
           /\ server' \in [Requests -> Stages]
           /\ handler'[r] = "end"
           /\ server'[r] = server[r] \/ server'[r] = verdict
           /\ \A q \in Requests \ {r} : handler'[q] = handler[q] /\ server'[q] = server[q]
BY DEF TypeOK, Answer, Labels, Stages

LEMMA GotoStep ==
    ASSUME TypeOK, NEW r \in Requests, NEW label \in Labels, Goto(r, label)
    PROVE  /\ handler' \in [Requests -> Labels]
           /\ handler'[r] = label
           /\ server' = server
           /\ \A q \in Requests \ {r} : handler'[q] = handler[q]
BY DEF TypeOK, Goto, Labels

LEMMA PutType ==
    ASSUME TypeOK, NEW r \in Requests, req[r] # Nil, data[r] # Nil, Put(r)
    PROVE  TypeOK'
<1>1. handler' \in [Requests -> Labels] /\ server' = server
  BY GotoStep DEF Put, Labels
<1>2. req[r] \in Request /\ data[r] \in Files
  BY DEF TypeOK
<1>3. req[r].name \in Deployments
  BY <1>2 DEF Request
<1>4. [data |-> data[r], rv |-> rev + 1] \in ConfigMap /\ rev + 1 \in Nat
  BY <1>2 DEF ConfigMap, TypeOK
<1> QED
  BY <1>1, <1>2, <1>3, <1>4 DEF Put, TypeOK, caches, workloads

LEMMA RefusedType ==
    ASSUME TypeOK, NEW r \in Requests, Refused(r)
    PROVE  TypeOK'
BY AnswerStep DEF Refused, TypeOK, cluster, locals, caches, workloads

LEMMA CommitType ==
    ASSUME TypeOK, NEW r \in Requests, req[r] # Nil,
           server[r] = "allowed" /\ req[r].op # "DELETE" /\ req[r].obj.match => data[r] # Nil,
           Commit(r)
    PROVE  TypeOK'
<1> USE DEF cluster, locals, caches, workloads
<1>1. req[r] \in Request
  BY DEF TypeOK
<1>2. req[r].name \in Deployments /\ req[r].obj \in Object
  BY <1>1 DEF Request
<1>3. server' \in [Requests -> Stages] /\ UNCHANGED <<req, handler, locals, caches>>
  BY DEF Commit, Finish, TypeOK, Stages
<1>a. alone' \in [Deployments -> Requests \cup {Nil}]
  BY DEF Commit, Ineffective, TypeOK
<1>4. CASE Store(r) /\ req[r].op # "DELETE"
  <2>1. (IF req[r].obj.match THEN data[r] ELSE Nil) \in Files \cup {Nil}
    BY DEF TypeOK
  <2>2. rev + 1 \in Nat
    BY DEF TypeOK
  <2>3. [obj |-> req[r].obj, rv |-> rev + 1,
         files |-> IF req[r].obj.match THEN data[r] ELSE Nil] \in Deployment
    BY <1>2, <2>1, <2>2 DEF Deployment
  <2>4. req[r].obj.template \in Versions \cup {Nil}
    BY <1>2 DEF Object
  <2>5. deploys' \in [Deployments -> Deployment \cup {Nil}]
    BY <1>2, <1>4, <2>3 DEF Store, TypeOK
  <2>6. sets' \in [Deployments -> SUBSET (Versions \cup {Nil})]
    BY <1>2, <1>4, <2>4 DEF Store, TypeOK
  <2> QED
    BY <1>3, <1>4, <1>a, <2>2, <2>5, <2>6 DEF Store, TypeOK
<1>5. CASE Remove(req[r].name)
  BY <1>2, <1>3, <1>a, <1>5 DEF Remove, TypeOK
<1>6. CASE UNCHANGED <<cluster, workloads>>
  BY <1>3, <1>a, <1>6 DEF TypeOK
<1> QED
  BY <1>4, <1>5, <1>6 DEF Commit

LEMMA SubmitType ==
    ASSUME TypeOK, NEW r \in Requests, NEW d \in Deployments,
           NEW op \in {"CREATE", "UPDATE", "DELETE"}, NEW o \in Objects,
           Submit(r, d, op, o)
    PROVE  TypeOK' /\ req'[r] # Nil
<1>1. Dispatch(d, op, o) \in {"end", "delete", "resolve"}
  BY DEF Dispatch
<1>2. (IF op = "UPDATE" THEN deploys[d].rv ELSE 0) \in Nat
  BY DEF Submit, Exists, TypeOK, Deployment
<1>3. o \in Object
  BY ConstantsOK
<1>4. req' \in [Requests -> Request \cup {Nil}]
  BY <1>2, <1>3 DEF Submit, TypeOK, Request
<1>5. handler' \in [Requests -> Labels] /\ server' \in [Requests -> Stages]
  BY <1>1 DEF Submit, TypeOK, Labels, Stages
<1>6. req'[r] # Nil
  <2>1. req'[r] = [op |-> op, name |-> d, obj |-> o,
                   base |-> IF op = "UPDATE" THEN deploys[d].rv ELSE 0]
    BY DEF Submit, TypeOK
  <2>2. req'[r] \in Request
    BY <1>2, <1>3, <2>1 DEF Request
  <2> QED
    BY <2>2, NilIsNoRecord
<1>7. TypeOK'
  BY <1>4, <1>5 DEF Submit, TypeOK, cluster, locals, caches, workloads
<1> QED
  BY <1>6, <1>7

\* The watchers leave everything alone but the caches.
CacheStep ==
    (\E v \in Versions : Toggle(v)) \/ (\E d \in Defaults : CacheDefault(d)) \/ ParseDefault

LEMMA CacheFrame ==
    ASSUME TypeOK, CacheStep
    PROVE  /\ UNCHANGED <<cluster, req, server, handler, locals, workloads, alone>>
           /\ available' \in SUBSET Versions /\ changed' \in SUBSET Files /\ changes' \in Nat
           /\ defaultFiles' \in Defaults /\ defaultConfig' \in Defaults \cup {Nil}
BY DEF CacheStep, Toggle, CacheDefault, ParseDefault, Change, TypeOK, Files

LEMMA TypeStep ==
    ASSUME IInv, [Next]_vars
    PROVE  TypeOK'
<1> USE DEF IInv, cluster, locals, caches, workloads
<1>1. ASSUME NEW r \in Requests, NEW d \in Deployments,
             NEW op \in {"CREATE", "UPDATE", "DELETE"}, NEW o \in Objects,
             Submit(r, d, op, o)
      PROVE  TypeOK'
  BY <1>1, SubmitType
<1>2. ASSUME NEW r \in Requests, injectionDeploy(r) PROVE TypeOK'
  <2>1. CASE createOrUpdateConfigMap(r)
    <3>1. req[r] \in Request
      BY <2>1 DEF createOrUpdateConfigMap, HandlerProgress, TypeOK
    <3>2. req[r].obj \in Object
      BY <3>1 DEF Request
    <3>3. configMapData(req[r].obj) \in Files
      BY <3>2 DEF configMapData, version, Files, TypeOK
    <3>4. CASE Refused(r)
      BY <3>4, RefusedType
    <3>5. CASE ~Refused(r)
      BY <2>1, <3>3, <3>5, GotoStep DEF createOrUpdateConfigMap, TypeOK, Labels
    <3> QED
      BY <3>4, <3>5
  <2>2. CASE Get(r)
    <3>1. req[r] \in Request
      BY <2>2 DEF Get, HandlerProgress, TypeOK
    <3>2. cms[req[r].name] \in ConfigMap \cup {Nil}
      BY <3>1 DEF Request, TypeOK
    <3>3. handler' \in [Requests -> Labels] /\ server' = server
      BY <2>2, GotoStep DEF Get, Labels
    <3> QED
      BY <2>2, <3>2, <3>3 DEF Get, TypeOK
  <2>3. CASE Create(r) \/ Update(r)
    <3>1. req[r] # Nil /\ data[r] # Nil
      BY <2>3 DEF Create, Update, HandlerProgress
    <3> QED
      BY <2>3, <3>1, PutType, RefusedType DEF Create, Update
  <2>4. CASE deleteConfigMap(r)
    <3>1. req[r] \in Request
      BY <2>4 DEF deleteConfigMap, HandlerProgress, TypeOK
    <3>2. req[r].name \in Deployments
      BY <3>1 DEF Request
    <3> QED
      BY <2>4, <3>2, AnswerStep DEF deleteConfigMap, TypeOK
  <2>5. CASE ApiError(r)
    BY <2>5, RefusedType DEF ApiError
  <2>6. CASE AddApplicationEnvironments(r)
    BY <2>6, AnswerStep DEF AddApplicationEnvironments, TypeOK
  <2> QED
    BY <1>2, <2>1, <2>2, <2>3, <2>4, <2>5, <2>6 DEF injectionDeploy
<1>3. ASSUME NEW r \in Requests, Commit(r) PROVE TypeOK'
  <2>1. req[r] # Nil
    BY <1>3 DEF Commit, HandlerProgress
  <2> QED
    BY <1>3, <2>1, CommitType DEF AllowedMeansWritten
<1>4. ASSUME NEW r \in Requests, Fail(r) PROVE TypeOK'
  BY <1>4 DEF Fail, Finish, Ineffective, TypeOK, Stages
<1>5. CASE Crash
  BY <1>5 DEF Crash, TypeOK, Labels, Stages
<1>6. CASE CacheStep
  BY <1>6, CacheFrame DEF TypeOK
<1>7. ASSUME NEW d \in Deployments, NEW label \in sets[d], CreatePod(d, label) PROVE TypeOK'
  <2>1. agentVersion(label) \in Files
    BY <1>7 DEF CreatePod, agentVersion, Files, TypeOK
  <2>2. [name |-> d, image |-> agentVersion(label), files |-> Nil] \in Pod
    BY <2>1 DEF Pod
  <2> QED
    BY <1>7, <2>2 DEF CreatePod, TypeOK
<1>8. ASSUME NEW p \in pods, StartPod(p) PROVE TypeOK'
  <2>1. p \in Pod
    BY DEF TypeOK
  <2>2. cms[p.name].data \in Files
    BY <1>8, <2>1 DEF StartPod, TypeOK, Pod, ConfigMap
  <2>3. [p EXCEPT !.files = cms[p.name].data] \in Pod
    BY <2>1, <2>2 DEF Pod
  <2>4. pods' \in SUBSET Pod
    BY <1>8, <2>3 DEF StartPod, TypeOK
  <2> QED
    BY <1>8, <2>4 DEF StartPod, TypeOK
<1>9. CASE UNCHANGED vars
  BY <1>9 DEF vars, TypeOK
<1> QED
  BY <1>1, <1>2, <1>3, <1>4, <1>5, <1>6, <1>7, <1>8, <1>9 DEF Next, CacheStep

-----------------------------------------------------------------------------
(* The inductive invariant. *)

\* What a step of one handler leaves alone of the others.
LEMMA ProgressStep ==
    ASSUME IInv, [Next]_vars
    PROVE  HandlerProgress' /\ AllowedMeansWritten'
<1> USE DEF IInv, cluster, locals, caches, workloads
<1>f. ASSUME UNCHANGED <<req, server, handler, locals>>
      PROVE  HandlerProgress' /\ AllowedMeansWritten'
  BY <1>f DEF HandlerProgress, AllowedMeansWritten
<1>1. ASSUME NEW r \in Requests, NEW d \in Deployments,
             NEW op \in {"CREATE", "UPDATE", "DELETE"}, NEW o \in Objects,
             Submit(r, d, op, o)
      PROVE  HandlerProgress' /\ AllowedMeansWritten'
  <2>1. /\ UNCHANGED locals
        /\ req'[r] = [op |-> op, name |-> d, obj |-> o,
                      base |-> IF op = "UPDATE" THEN deploys[d].rv ELSE 0]
        /\ handler'[r] = Dispatch(d, op, o)
        /\ server'[r] = IF Dispatch(d, op, o) = "end" THEN "allowed" ELSE "calling"
        /\ \A q \in Requests \ {r} :
              req'[q] = req[q] /\ handler'[q] = handler[q] /\ server'[q] = server[q]
    BY <1>1 DEF Submit, TypeOK
  <2>2. req'[r] # Nil
    BY <1>1, SubmitType
  <2>3. server[r] = "new" /\ handler[r] = "none" /\ wrote[r] = Nil
    BY <1>1 DEF Submit, HandlerProgress
  <2>4. ASSUME NEW q \in Requests \ {r}
        PROVE  UNCHANGED <<req[q], handler[q], server[q], data[q], cm[q], wrote[q]>>
    BY <2>1
  <2>5. op = req'[r].op /\ o = req'[r].obj
    BY <2>1
  <2>6. Dispatch(d, op, o) \in {"end", "delete", "resolve"}
        /\ (Dispatch(d, op, o) = "delete" => op = "DELETE")
        /\ (Dispatch(d, op, o) = "resolve" => op # "DELETE" /\ o.match)
        /\ (Dispatch(d, op, o) = "end" /\ op # "DELETE" => ~o.match)
    BY DEF Dispatch, Selected
  <2>7. HandlerProgress'
    BY <2>1, <2>2, <2>3, <2>4, <2>5, <2>6 DEF HandlerProgress
  <2>8. AllowedMeansWritten'
    BY <2>1, <2>4, <2>5, <2>6 DEF AllowedMeansWritten
  <2> QED
    BY <2>7, <2>8
<1>2. ASSUME NEW r \in Requests, injectionDeploy(r)
      PROVE  HandlerProgress' /\ AllowedMeansWritten'
  <2>o. ASSUME NEW q \in Requests \ {r}
        PROVE  UNCHANGED <<req[q], handler[q], server[q], data[q], cm[q], wrote[q]>>
    BY <1>2 DEF injectionDeploy, createOrUpdateConfigMap, Get, Create, Update, Put, Refused,
                deleteConfigMap, ApiError, AddApplicationEnvironments, Answer, Goto, TypeOK
  <2>1. /\ req' = req /\ req[r] # Nil
        /\ handler[r] \notin {"none", "end"} /\ server[r] # "allowed" /\ server[r] # "new"
    BY <1>2 DEF injectionDeploy, createOrUpdateConfigMap, Get, Create, Update, Put, Refused,
                deleteConfigMap, ApiError, AddApplicationEnvironments, HandlerProgress
  <2>2. ASSUME /\ handler'[r] # "none" /\ server'[r] = server[r]
               /\ handler'[r] = "delete" => req[r].op = "DELETE"
               /\ handler'[r] \in {"resolve", "get", "create", "update", "environments"}
                     => req[r].op # "DELETE" /\ req[r].obj.match
               /\ handler'[r] \in {"resolve", "get", "create", "update", "delete"}
                     => wrote'[r] = Nil
               /\ handler'[r] \in {"get", "create", "update", "environments"}
                     => data'[r] # Nil
               /\ handler'[r] = "environments" => wrote'[r] = data'[r]
               /\ handler'[r] = "create" => cm'[r] = Nil
               /\ handler'[r] = "update" => cm'[r] # Nil
        PROVE  HandlerProgress' /\ AllowedMeansWritten'
    BY <2>o, <2>1, <2>2 DEF HandlerProgress, AllowedMeansWritten
  <2>3. ASSUME /\ handler'[r] = "end" /\ wrote' = wrote
               /\ \/ server'[r] = server[r] \/ server'[r] = "denied"
                  \/ /\ server'[r] = "allowed" /\ UNCHANGED locals
                     /\ req[r].op = "DELETE" \/ (wrote[r] = data[r] /\ data[r] # Nil)
        PROVE  HandlerProgress' /\ AllowedMeansWritten'
    BY <2>o, <2>1, <2>3 DEF HandlerProgress, AllowedMeansWritten
  <2>7. ASSUME Refused(r) PROVE HandlerProgress' /\ AllowedMeansWritten'
    BY <2>3, <2>7, AnswerStep DEF Refused
  <2>4. CASE createOrUpdateConfigMap(r)
    <3>1. req[r] \in Request
      BY <2>1 DEF TypeOK
    <3>2. req[r].obj \in Object
      BY <3>1 DEF Request
    <3>3. configMapData(req[r].obj) # Nil
      BY <3>2, ConstantsOK DEF configMapData, Files, TypeOK
    <3>4. CASE Refused(r)
      BY <2>7, <3>4
    <3>5. CASE ~Refused(r)
      BY <2>2, <2>4, <3>3, <3>5, GotoStep
         DEF createOrUpdateConfigMap, TypeOK, Labels, HandlerProgress
    <3> QED
      BY <3>4, <3>5
  <2>5. CASE Get(r)
    BY <2>2, <2>5, GotoStep DEF Get, TypeOK, Labels, HandlerProgress
  <2>6. ASSUME Put(r), handler[r] \in {"create", "update"}
        PROVE  HandlerProgress' /\ AllowedMeansWritten'
    BY <2>2, <2>6, GotoStep DEF Put, TypeOK, Labels, HandlerProgress
  <2>8. CASE Create(r) \/ Update(r)
    BY <2>6, <2>7, <2>8 DEF Create, Update
  <2>9. CASE deleteConfigMap(r)
    <3>1. Answer(r, "allowed") /\ UNCHANGED locals /\ req[r].op = "DELETE"
      BY <2>9 DEF deleteConfigMap, HandlerProgress
    <3>2. handler'[r] = "end" /\ (server'[r] = server[r] \/ server'[r] = "allowed")
      BY <3>1, AnswerStep
    <3> QED
      BY <2>3, <3>1, <3>2
  <2>10. CASE ApiError(r)
    BY <2>7, <2>10 DEF ApiError
  <2>11. CASE AddApplicationEnvironments(r)
    BY <2>3, <2>11, AnswerStep DEF AddApplicationEnvironments, HandlerProgress
  <2> QED
    BY <1>2, <2>4, <2>5, <2>8, <2>9, <2>10, <2>11 DEF injectionDeploy
<1>3. ASSUME NEW r \in Requests, Commit(r) \/ Fail(r)
      PROVE  HandlerProgress' /\ AllowedMeansWritten'
  <2>1. UNCHANGED <<req, handler, locals>> /\ server' = [server EXCEPT ![r] = "done"]
    BY <1>3 DEF Commit, Fail, Finish
  <2>2. server[r] # "new"
    BY <1>3 DEF Commit, Fail
  <2> QED
    BY <2>1, <2>2 DEF HandlerProgress, AllowedMeansWritten, TypeOK
<1>4. CASE Crash
  <2>1. UNCHANGED <<req, wrote>>
    BY <1>4 DEF Crash
  <2>2. ASSUME NEW q \in Requests
        PROVE  /\ handler'[q] = IF handler[q] = "none" THEN "none" ELSE "end"
               /\ server'[q] = IF server[q] = "calling" THEN "denied" ELSE server[q]
               /\ wrote[q] # Nil => data'[q] = data[q]
    BY <1>4 DEF Crash
  <2>3. HandlerProgress'
    BY <2>1, <2>2 DEF HandlerProgress
  <2>4. AllowedMeansWritten'
    BY <2>1, <2>2 DEF AllowedMeansWritten
  <2> QED
    BY <2>3, <2>4
<1>5. CASE CacheStep
  BY <1>f, <1>5, CacheFrame
<1>6. ASSUME NEW d \in Deployments, NEW label \in sets[d], CreatePod(d, label)
      PROVE  HandlerProgress' /\ AllowedMeansWritten'
  BY <1>f, <1>6 DEF CreatePod
<1>7. ASSUME NEW p \in pods, StartPod(p) PROVE HandlerProgress' /\ AllowedMeansWritten'
  BY <1>f, <1>7 DEF StartPod
<1>8. CASE UNCHANGED vars
  BY <1>f, <1>8 DEF vars
<1> QED
  BY <1>1, <1>2, <1>3, <1>4, <1>5, <1>6, <1>7, <1>8 DEF Next, CacheStep

\* The configmap of a request that overwrote one is newer than what it overwrote,
\* so that no other request can find that version again.
LEMMA VersionsStep ==
    ASSUME IInv, [Next]_vars
    PROVE  VersionsGrow' /\ NoLostUpdate'
<1> USE DEF IInv, cluster, locals, caches, workloads, Overwrote
<1>f. ASSUME UNCHANGED <<cms, rev, req, cm, wrote>> PROVE VersionsGrow' /\ NoLostUpdate'
  BY <1>f DEF VersionsGrow, NoLostUpdate
<1>k. ASSUME UNCHANGED <<cms, rev, req, wrote>>,
             \A q \in Requests : cm'[q] \in {cm[q], Nil}
      PROVE  VersionsGrow' /\ NoLostUpdate'
  BY <1>k DEF VersionsGrow, NoLostUpdate
<1>r. ASSUME NEW r \in Requests, req[r] # Nil PROVE req[r] \in Request /\ req[r].name \in Deployments
  BY <1>r DEF TypeOK, Request
<1>n. rev \in Nat /\ \A d \in Deployments : cms[d] # Nil => cms[d].rv \in Nat
  BY DEF TypeOK, ConfigMap
<1>m. \A r \in Requests : cm[r] # Nil => cm[r].rv \in Nat
  BY DEF TypeOK, ConfigMap
<1>1. ASSUME NEW r \in Requests, NEW d \in Deployments,
             NEW op \in {"CREATE", "UPDATE", "DELETE"}, NEW o \in Objects,
             Submit(r, d, op, o)
      PROVE  VersionsGrow' /\ NoLostUpdate'
  <2>1. UNCHANGED <<cms, rev, cm, wrote>> /\ wrote[r] = Nil
    BY <1>1 DEF Submit, HandlerProgress
  <2>2. \A q \in Requests \ {r} : req'[q] = req[q]
    BY <1>1 DEF Submit, TypeOK
  <2> QED
    BY <2>1, <2>2 DEF VersionsGrow, NoLostUpdate
<1>2. ASSUME NEW r \in Requests, Get(r) PROVE VersionsGrow' /\ NoLostUpdate'
  <2>1. UNCHANGED <<cms, rev, req, wrote>> /\ wrote[r] = Nil /\ req[r] # Nil
    BY <1>2 DEF Get, HandlerProgress
  <2>2. cm'[r] = cms[req[r].name] /\ \A q \in Requests \ {r} : cm'[q] = cm[q]
    BY <1>2 DEF Get, TypeOK
  <2>3. req[r].name \in Deployments
    BY <1>r, <2>1
  <2> QED
    BY <2>1, <2>2, <2>3 DEF VersionsGrow, NoLostUpdate
<1>3. ASSUME NEW r \in Requests, Put(r), handler[r] = "create" \/
                /\ handler[r] = "update" /\ cms[req[r].name] = cm[r]
      PROVE  VersionsGrow' /\ NoLostUpdate'
  <2> DEFINE d == req[r].name
  <2>1. req[r] # Nil /\ d \in Deployments
    BY <1>3, <1>r DEF HandlerProgress
  <2>2. /\ UNCHANGED <<req, cm>> /\ wrote'[r] = data[r]
        /\ \A q \in Requests \ {r} : wrote'[q] = wrote[q]
        /\ \A e \in Deployments \ {d} : cms'[e] = cms[e]
    BY <1>3, <2>1 DEF Put, TypeOK
  <2>3. CASE UNCHANGED <<cms, rev>> /\ cms[d] # Nil /\ cms[d].data = data[r]
    <3>1. ~Overwrote(r)' /\ ~Overwrote(r)
      BY <1>3, <2>2, <2>3 DEF HandlerProgress
    <3>2. \A q \in Requests : Overwrote(q)' <=> Overwrote(q)
      BY <2>2, <3>1
    <3> QED
      BY <2>2, <2>3, <3>2 DEF VersionsGrow, NoLostUpdate
  <2>4. CASE cms'[d] = [data |-> data[r], rv |-> rev + 1] /\ rev' = rev + 1
    <3>1. cms'[d].rv = rev + 1
      BY <2>4
    <3>2. VersionsGrow'
      BY <1>n, <1>m, <1>r, <2>1, <2>2, <2>4, <3>1 DEF VersionsGrow
    <3>3. ASSUME NEW q \in Requests, q # r, req[q] # Nil, req[q].name = d,
                 Overwrote(q), cm[r] # Nil
          PROVE  cm[q] # cm[r]
      <4>1. cms[d] = cm[r]
        BY <1>3, <3>3 DEF HandlerProgress
      <4>2. cm[q].rv < cm[r].rv
        BY <3>3, <4>1 DEF VersionsGrow
      <4> QED
        BY <1>m, <3>3, <4>2
    <3>4. NoLostUpdate'
      BY <2>2, <3>3 DEF NoLostUpdate
    <3> QED
      BY <3>2, <3>4
  <2> QED
    BY <1>3, <2>1, <2>3, <2>4 DEF Put, TypeOK
<1>4. ASSUME NEW r \in Requests, deleteConfigMap(r) PROVE VersionsGrow' /\ NoLostUpdate'
  <2>1. UNCHANGED <<rev, req, cm, wrote>> /\ \A d \in Deployments : cms'[d] \in {cms[d], Nil}
    BY <1>4 DEF deleteConfigMap, TypeOK
  <2>2. \A q \in Requests : req[q] # Nil => req[q].name \in Deployments
    BY <1>r
  <2> QED
    BY <2>1, <2>2 DEF VersionsGrow, NoLostUpdate
<1>5. ASSUME NEW r \in Requests, injectionDeploy(r) PROVE VersionsGrow' /\ NoLostUpdate'
  <2>1. ASSUME Refused(r) PROVE VersionsGrow' /\ NoLostUpdate'
    <3>1. UNCHANGED <<cms, rev, req, wrote>> /\ \A q \in Requests : cm'[q] \in {cm[q], Nil}
      BY <2>1 DEF Refused, TypeOK
    <3> QED
      BY <1>k, <3>1
  <2>2. CASE createOrUpdateConfigMap(r) \/ ApiError(r) \/ AddApplicationEnvironments(r)
    BY <1>f, <2>1, <2>2 DEF createOrUpdateConfigMap, ApiError, AddApplicationEnvironments
  <2>3. CASE Create(r) \/ Update(r)
    BY <1>3, <2>1, <2>3 DEF Create, Update
  <2> QED
    BY <1>2, <1>4, <1>5, <2>2, <2>3 DEF injectionDeploy
<1>6. ASSUME NEW r \in Requests, Commit(r) PROVE VersionsGrow' /\ NoLostUpdate'
  <2>1. UNCHANGED <<cms, req, cm, wrote>> /\ rev' \in {rev, rev + 1}
    BY <1>6 DEF Commit, Store, Remove
  <2> QED
    BY <1>n, <1>m, <2>1 DEF VersionsGrow, NoLostUpdate
<1>7. ASSUME NEW r \in Requests, Fail(r) PROVE VersionsGrow' /\ NoLostUpdate'
  BY <1>f, <1>7 DEF Fail
<1>8. CASE Crash
  <2>1. UNCHANGED <<cms, rev, req, wrote>> /\ \A q \in Requests : cm'[q] \in {cm[q], Nil}
    BY <1>8 DEF Crash
  <2> QED
    BY <1>k, <2>1
<1>9. CASE CacheStep
  BY <1>f, <1>9, CacheFrame
<1>10. ASSUME NEW d \in Deployments, NEW label \in sets[d], CreatePod(d, label)
       PROVE  VersionsGrow' /\ NoLostUpdate'
  BY <1>f, <1>10 DEF CreatePod
<1>11. ASSUME NEW p \in pods, StartPod(p) PROVE VersionsGrow' /\ NoLostUpdate'
  BY <1>f, <1>11 DEF StartPod
<1>12. CASE UNCHANGED vars
  BY <1>f, <1>12 DEF vars
<1> QED
  BY <1>1, <1>5, <1>6, <1>7, <1>8, <1>9, <1>10, <1>11, <1>12 DEF Next, CacheStep

LEMMA IInvInvariant == Spec => []IInv
<1>1. Init => IInv
  BY DEF Init, IInv, TypeOK, HandlerProgress, VersionsGrow, AllowedMeansWritten,
         NoLostUpdate, Labels, Stages
<1>2. IInv /\ [Next]_vars => IInv'
  <2> SUFFICES ASSUME IInv, [Next]_vars PROVE IInv'
    OBVIOUS
  <2> QED
    BY TypeStep, ProgressStep, VersionsStep DEF IInv
<1> QED
  BY <1>1, <1>2, PTL DEF Spec

-----------------------------------------------------------------------------
(* Requests handled alone. *)

\* What a step does not touch stays in order.
LEMMA AloneFrame ==
    ASSUME IInv, AloneInOrder,
           UNCHANGED <<deploys, cms, req, server, handler, data, alone>>
    PROVE  AloneInOrder'
BY DEF AloneInOrder, InOrder, Kept, Follows, Exists, Active

\* A step for one request, which is in order after it if it was alone before it
\* and still is: the others that are alone have nothing to do with it.
LEMMA AloneStepOf ==
    ASSUME IInv, AloneInOrder, NEW r \in Requests, Active(r), req' = req,
           \A q \in Requests \ {r} :
              UNCHANGED <<server[q], handler[q], data[q]>>,
           \A d \in Deployments \ {req[r].name} : UNCHANGED <<cms[d], deploys[d]>>,
           \A d \in Deployments : alone'[d] # Nil => alone'[d] = alone[d],
           alone'[req[r].name] = r /\ InOrder(r) => InOrder(r)'
    PROVE  AloneInOrder'
<1>1. SUFFICES ASSUME NEW d \in Deployments, NEW s \in Requests, alone'[d] = s, s # Nil
               PROVE  req[s] # Nil /\ req[s].name = d /\ InOrder(s)'
  <2>1. \A d \in Deployments : alone'[d] # Nil => alone'[d] \in Requests
    BY DEF IInv, TypeOK
  <2> QED
    BY <1>1, <2>1 DEF AloneInOrder, InOrder, Kept, Follows, Exists, Active
<1>2. alone[d] = s /\ req[s] # Nil /\ req[s].name = d /\ InOrder(s)
  BY <1>1 DEF AloneInOrder
<1>3. CASE s = r
  BY <1>1, <1>2, <1>3
<1>4. CASE s # r
  <2>1. req[r].name # d
    BY <1>2, <1>4 DEF InOrder
  <2>2. UNCHANGED <<cms[d], deploys[d], server[s], handler[s], data[s]>>
    BY <1>4, <2>1
  <2>3. \A q \in Requests \ {s} : Active(q)' => req[q].name # d
    BY <1>2, <2>1 DEF InOrder, Active
  <2> QED
    BY <1>2, <2>2, <2>3 DEF InOrder, Kept, Follows, Exists
<1> QED
  BY <1>3, <1>4

\* The request is answered with an error.
LEMMA DeniedInOrder ==
    ASSUME IInv, NEW r \in Requests, Answer(r, "denied"), handler[r] \notin {"none", "end"},
           req' = req, InOrder(r),
           \A q \in Requests \ {r} : Active(q)' => Active(q)
    PROVE  InOrder(r)'
<1>1. handler'[r] = "end" /\ server'[r] = "denied"
  BY DEF Answer, InOrder, IInv, TypeOK
<1> QED
  BY <1>1 DEF InOrder

LEMMA HandlerAlone ==
    ASSUME IInv, AloneInOrder, NEW r \in Requests, injectionDeploy(r)
    PROVE  AloneInOrder'
<1> USE DEF cluster, locals, caches, workloads
<1> DEFINE d == req[r].name
<1>1. handler[r] \notin {"none", "end"} /\ Active(r)
  BY DEF injectionDeploy, createOrUpdateConfigMap, Get, Create, Update, deleteConfigMap,
         ApiError, AddApplicationEnvironments, Active
<1>2. req[r] # Nil /\ d \in Deployments
  BY <1>1 DEF IInv, HandlerProgress, TypeOK, Request
<1>3. ASSUME Put(r) \/ Refused(r) PROVE
         /\ UNCHANGED <<req, deploys, alone>>
         /\ \A q \in Requests \ {r} : UNCHANGED <<server[q], handler[q], data[q]>>
         /\ \A e \in Deployments \ {d} : UNCHANGED cms[e]
  BY <1>2, <1>3 DEF Put, Refused, Goto, Answer, IInv, TypeOK
<1>4. /\ UNCHANGED <<req, deploys, alone>>
      /\ \A q \in Requests \ {r} : UNCHANGED <<server[q], handler[q], data[q]>>
      /\ \A e \in Deployments \ {d} : UNCHANGED cms[e]
  <2>1. CASE createOrUpdateConfigMap(r)
    BY <1>3, <2>1 DEF createOrUpdateConfigMap, Goto, IInv, TypeOK
  <2>2. CASE Get(r) \/ deleteConfigMap(r) \/ AddApplicationEnvironments(r)
    BY <1>2, <2>2 DEF Get, deleteConfigMap, AddApplicationEnvironments, Goto, Answer,
                      IInv, TypeOK
  <2>3. CASE Create(r) \/ Update(r) \/ ApiError(r)
    BY <1>3, <2>3 DEF Create, Update, ApiError
  <2> QED
    BY <2>1, <2>2, <2>3 DEF injectionDeploy
<1>5. \A q \in Requests \ {r} : Active(q)' => Active(q)
  BY <1>4 DEF Active
<1>6. ASSUME InOrder(r) PROVE InOrder(r)'
  <2>1. server[r] = "calling"
    BY <1>1, <1>6 DEF InOrder
  <2>2. ASSUME handler'[r] \notin {"end", "environments"}, server' = server PROVE InOrder(r)'
    BY <1>4, <1>5, <1>6, <2>1, <2>2 DEF InOrder
  <2>3. ASSUME Refused(r) PROVE InOrder(r)'
    BY <1>1, <1>4, <1>5, <1>6, <2>3, DeniedInOrder DEF Refused
  <2>4. ASSUME Put(r) PROVE InOrder(r)'
    <3>1. /\ cms'[d] # Nil /\ cms'[d].data = data[r] /\ data' = data
          /\ handler'[r] = "environments" /\ server' = server
      <4>1. [data |-> data[r], rv |-> rev + 1] # Nil
        <5>1. TypeOK /\ data[r] \in Files \cup {Nil}
          BY DEF IInv, TypeOK
        <5>2. handler[r] \in {"create", "update"} => data[r] # Nil
          BY DEF IInv, HandlerProgress
        <5>3. handler[r] \in {"create", "update"}
          BY <2>4 DEF injectionDeploy, createOrUpdateConfigMap, Get, Create, Update, Refused,
                      deleteConfigMap, ApiError, AddApplicationEnvironments, Put, Goto, Answer,
                      IInv, TypeOK
        <5>4. [data |-> data[r], rv |-> rev + 1] \in ConfigMap
          BY <5>1, <5>2, <5>3 DEF ConfigMap, TypeOK
        <5> QED
          BY <5>4, NilIsNoRecord
      <4> QED
        BY <1>2, <2>4, <4>1 DEF Put, Goto, IInv, TypeOK
    <3> QED
      BY <1>4, <1>5, <1>6, <2>1, <3>1 DEF InOrder, Kept
  <2>5. CASE createOrUpdateConfigMap(r) \/ Get(r)
    <3>1. Refused(r) \/ (server' = server /\ handler'[r] \notin {"end", "environments"})
      BY <2>5 DEF createOrUpdateConfigMap, Get, Goto, IInv, TypeOK
    <3> QED
      BY <2>2, <2>3, <3>1
  <2>6. CASE Create(r) \/ Update(r) \/ ApiError(r)
    BY <2>3, <2>4, <2>6 DEF Create, Update, ApiError
  <2>7. CASE deleteConfigMap(r)
    <3>1. /\ req[r].op = "DELETE" /\ cms'[d] = Nil
          /\ handler'[r] = "end" /\ server'[r] = "allowed"
      BY <1>2, <2>1, <2>7 DEF deleteConfigMap, Answer, IInv, HandlerProgress, TypeOK
    <3> QED
      BY <1>4, <1>5, <1>6, <3>1 DEF InOrder
  <2>8. CASE AddApplicationEnvironments(r)
    <3>1. Kept(r) /\ req[r].op # "DELETE" /\ cms' = cms /\ data' = data
      BY <1>6, <2>8 DEF AddApplicationEnvironments, InOrder, IInv, HandlerProgress
    <3>2. handler'[r] = "end" /\ server'[r] \in {"allowed", "denied"}
      BY <2>1, <2>8 DEF AddApplicationEnvironments, Answer, IInv, TypeOK
    <3> QED
      BY <1>4, <1>5, <1>6, <3>1, <3>2 DEF InOrder, Kept
  <2> QED
    BY <2>5, <2>6, <2>7, <2>8 DEF injectionDeploy
<1> QED
  BY <1>1, <1>4, <1>6, AloneStepOf

LEMMA SubmitAlone ==
    ASSUME IInv, AloneInOrder, NEW r \in Requests, NEW d \in Deployments,
           NEW op \in {"CREATE", "UPDATE", "DELETE"}, NEW o \in Objects,
           Submit(r, d, op, o)
    PROVE  AloneInOrder'
<1>0. req'[r] # Nil
  BY SubmitType DEF IInv
<1>1. /\ UNCHANGED <<deploys, cms, data>> /\ req[r] = Nil
      /\ req'[r].name = d /\ req'[r].op = op /\ req'[r].obj = o
      /\ handler'[r] = Dispatch(d, op, o)
      /\ server'[r] = IF Dispatch(d, op, o) = "end" THEN "allowed" ELSE "calling"
      /\ \A q \in Requests \ {r} : UNCHANGED <<req[q], handler[q], server[q]>>
      /\ \A e \in Deployments \ {d} : alone'[e] = alone[e]
  BY DEF Submit, IInv, HandlerProgress, TypeOK, cluster, locals
<1>2. alone'[d] # Nil => /\ alone'[d] = r /\ Selected(d, op, o)
                         /\ \A q \in Requests : Active(q) => req[q].name # d
  BY DEF Submit, IInv, TypeOK
<1>3. SUFFICES ASSUME NEW e \in Deployments, NEW s \in Requests, alone'[e] = s, s # Nil
               PROVE  req'[s] # Nil /\ req'[s].name = e /\ InOrder(s)'
  <2>1. \A e \in Deployments : alone'[e] # Nil => alone'[e] \in Requests
    BY SubmitType DEF IInv, TypeOK
  <2> QED
    BY <1>3, <2>1 DEF AloneInOrder, InOrder, Kept, Follows, Exists, Active
<1>4. CASE e = d
  <2>1. Dispatch(d, op, o) \in {"end", "delete", "resolve"}
        /\ (Dispatch(d, op, o) = "end" => op # "DELETE" /\ ~o.match)
    BY <1>2, <1>3, <1>4 DEF Dispatch
  <2>2. \A q \in Requests \ {r} : Active(q)' => req'[q].name # d
    BY <1>1, <1>2, <1>3, <1>4 DEF Active
  <2>3. s = r
    BY <1>2, <1>3, <1>4
  <2>4. InOrder(s)'
    BY <1>1, <2>1, <2>2, <2>3 DEF InOrder
  <2> QED
    BY <1>0, <1>1, <1>4, <2>3, <2>4
<1>5. CASE e # d
  <2>1. alone[e] = s /\ req[s] # Nil /\ req[s].name = e /\ InOrder(s)
    BY <1>1, <1>3, <1>5 DEF AloneInOrder
  <2>2. s # r
    BY <1>1, <2>1
  <2>3. \A q \in Requests \ {s} : Active(q)' => req'[q].name # e
    BY <1>1, <1>5, <2>1 DEF InOrder, Active
  <2>4. InOrder(s)'
    BY <1>1, <2>1, <2>2, <2>3 DEF InOrder, Kept, Follows, Exists
  <2> QED
    BY <1>1, <2>1, <2>2, <2>4
<1> QED
  BY <1>4, <1>5

LEMMA CommitAlone ==
    ASSUME IInv, AloneInOrder, NEW r \in Requests, Commit(r)
    PROVE  AloneInOrder'
<1> USE DEF cluster, locals, caches, workloads
<1>1. /\ server[r] = "allowed" /\ handler[r] = "end" /\ Active(r)
      /\ req[r] \in Request /\ req[r].name \in Deployments
  BY DEF Commit, IInv, HandlerProgress, Active, TypeOK, Request
<1>2. /\ UNCHANGED <<req, cms, handler, data>>
      /\ \A q \in Requests \ {r} : server'[q] = server[q]
      /\ server'[r] = "done"
  BY DEF Commit, Finish, Store, Remove, IInv, TypeOK
<1>3. \A d \in Deployments \ {req[r].name} : UNCHANGED deploys[d]
  BY <1>1 DEF Commit, Store, Remove, IInv, TypeOK
<1>4. \A d \in Deployments : alone'[d] # Nil => alone'[d] = alone[d]
  BY DEF Commit, Ineffective
<1>5. ASSUME alone'[req[r].name] = r, InOrder(r) PROVE InOrder(r)'
  <2>1. Possible(req[r])
    BY <1>1, <1>5, ConstantsOK DEF Commit, Ineffective
  <2>2. Follows(req[r].name)'
    <3>1. CASE req[r].op = "DELETE"
      <4>1. deploys'[req[r].name] = Nil /\ cms[req[r].name] = Nil
        BY <1>1, <1>5, <2>1, <3>1 DEF Commit, Remove, InOrder, IInv, TypeOK
      <4> QED
        BY <1>2, <4>1 DEF Follows, Exists
    <3>2. CASE req[r].op # "DELETE"
      <4> DEFINE new == [obj |-> req[r].obj, rv |-> rev + 1,
                         files |-> IF req[r].obj.match THEN data[r] ELSE Nil]
      <4>1. deploys'[req[r].name] = new
        BY <1>1, <2>1, <3>2 DEF Commit, Store, IInv, TypeOK
      <4>2. new # Nil
        <5>1. rev + 1 \in Nat /\ data[r] \in Files \cup {Nil} /\ req[r].obj \in Object
          BY <1>1 DEF IInv, TypeOK, Request
        <5>2. new \in Deployment
          BY <5>1 DEF Deployment
        <5> QED
          BY <5>2, NilIsNoRecord
      <4>3. req[r].obj.match => cms[req[r].name] # Nil /\ cms[req[r].name].data = data[r]
        BY <1>1, <1>5, <3>2 DEF InOrder, Kept
      <4> QED
        BY <1>2, <4>1, <4>2, <4>3 DEF Follows, Exists
    <3> QED
      BY <3>1, <3>2
  <2>3. \A q \in Requests \ {r} : Active(q)' => Active(q)
    BY <1>2 DEF Active
  <2> QED
    BY <1>1, <1>2, <1>5, <2>2, <2>3 DEF InOrder
<1> QED
  BY <1>1, <1>2, <1>3, <1>4, <1>5, AloneStepOf

LEMMA AloneStep ==
    ASSUME IInv, AloneInOrder, [Next]_vars
    PROVE  AloneInOrder'
<1> USE DEF cluster, locals, caches, workloads
<1>1. ASSUME NEW r \in Requests, NEW d \in Deployments,
             NEW op \in {"CREATE", "UPDATE", "DELETE"}, NEW o \in Objects,
             Submit(r, d, op, o)
      PROVE  AloneInOrder'
  BY <1>1, SubmitAlone
<1>2. ASSUME NEW r \in Requests, injectionDeploy(r) PROVE AloneInOrder'
  BY <1>2, HandlerAlone
<1>3. ASSUME NEW r \in Requests, Commit(r) PROVE AloneInOrder'
  BY <1>3, CommitAlone
<1>4. ASSUME NEW r \in Requests, Fail(r) PROVE AloneInOrder'
  <2>1. /\ UNCHANGED <<deploys, cms, req, handler, data>> /\ Active(r)
        /\ \A q \in Requests \ {r} : server'[q] = server[q]
    BY <1>4 DEF Fail, Finish, Active, IInv, TypeOK
  <2>2. \A d \in Deployments : alone'[d] # Nil => alone'[d] = alone[d] /\ alone'[d] # r
    BY <1>4 DEF Fail, Ineffective
  <2>3. req[r].name \in Deployments /\ r # Nil
    <3>1. req[r] # Nil
      BY <1>4 DEF Fail, IInv, HandlerProgress
    <3> QED
      BY <3>1, ConstantsOK DEF IInv, TypeOK, Request
  <2> QED
    BY <2>1, <2>2, <2>3, AloneStepOf
<1>5. CASE Crash
  <2>1. UNCHANGED <<deploys, cms, req, wrote, alone>>
    BY <1>5 DEF Crash
  <2>2. ASSUME NEW q \in Requests
        PROVE  /\ handler'[q] = IF handler[q] = "none" THEN "none" ELSE "end"
               /\ server'[q] = IF server[q] = "calling" THEN "denied" ELSE server[q]
               /\ wrote[q] # Nil => data'[q] = data[q]
    BY <1>5 DEF Crash
  <2>3. \A q \in Requests : Active(q)' => Active(q)
    BY <2>2 DEF Active
  <2>4. ASSUME NEW r \in Requests, req[r] # Nil, InOrder(r) PROVE InOrder(r)'
    <3>1. handler'[r] = "end"
      BY <2>2, <2>4 DEF IInv, HandlerProgress
    <3>2. server'[r] = "allowed" /\ req[r].op # "DELETE" /\ req[r].obj.match
             => Kept(r) /\ data'[r] = data[r]
      BY <2>2, <2>4 DEF InOrder, IInv, AllowedMeansWritten
    <3> QED
      BY <2>1, <2>2, <2>3, <2>4, <3>1, <3>2 DEF InOrder, Kept, Follows, Exists
  <2>5. \A d \in Deployments : alone[d] # Nil => alone[d] \in Requests
    BY DEF IInv, TypeOK
  <2> QED
    BY <2>1, <2>4, <2>5 DEF AloneInOrder
<1>6. CASE CacheStep
  BY <1>6, CacheFrame, AloneFrame DEF IInv
<1>7. ASSUME NEW d \in Deployments, NEW label \in sets[d], CreatePod(d, label)
      PROVE  AloneInOrder'
  BY <1>7, AloneFrame DEF CreatePod
<1>8. ASSUME NEW p \in pods, StartPod(p) PROVE AloneInOrder'
  BY <1>8, AloneFrame DEF StartPod
<1>9. CASE UNCHANGED vars
  BY <1>9, AloneFrame DEF vars
<1> QED
  BY <1>1, <1>2, <1>3, <1>4, <1>5, <1>6, <1>7, <1>8, <1>9 DEF Next, CacheStep

-----------------------------------------------------------------------------
(* Where files and images come from. *)

\* A handler writes the files that it chose, once.
OnlyAdmitted ==
    \A r \in Requests :
        /\ data[r] # Nil => handler[r] \notin {"none", "resolve"}
        /\ wrote[r] # Nil => wrote[r] = data[r]

\* The files of configmaps and pods, and the labels of ReplicaSets, are those of
\* requests to admit their Deployment: of old ones too, that a later one replaced.
FromAdmissions ==
    /\ \A d \in Deployments : cms[d] # Nil =>
          \E r \in Admissions(d) : wrote[r] = cms[d].data
    /\ \A d \in Deployments : \A t \in sets[d] :
          \E r \in Admissions(d) : req[r].obj.template = t
    /\ \A p \in pods : p.files # Nil =>
          \E r \in Admissions(p.name) : wrote[r] = p.files

\* The choice f of files or of an image, for the version label v, was right when it
\* was made, and only a change of the caches (available, default, changed) has made
\* it wrong since.
JustifiedBy(f, v, enabled, default, past) ==
    \/ f \in Versions /\ f = v /\ f \in past \cup enabled
    \/ f \in Defaults /\ f \in past \cup {default} /\ (v \in past \/ v \notin enabled)

Justified(f, v) == JustifiedBy(f, v, available, defaultFiles, changed)

Choices ==
    /\ defaultConfig \in changed \cup {defaultFiles, Nil}
    /\ \A r \in Requests : data[r] # Nil => Justified(data[r], version(req[r].obj))
    /\ \A p \in pods : \E r \in Admissions(p.name) : Justified(p.image, req[r].obj.template)

ReasonInv == OnlyAdmitted /\ FromAdmissions /\ Choices

\* Requests to admit a Deployment are never forgotten, nor what they wrote.
AdmissionsLast ==
    \A d \in Deployments : \A r \in Admissions(d) :
        /\ r \in Admissions(d)' /\ req'[r] = req[r]
        /\ wrote[r] # Nil => wrote'[r] = wrote[r]

\* Whatever the caches no longer hold is among what has changed.
CachesRemembered ==
    /\ changed \subseteq changed'
    /\ \A v \in available \cup available' : v \notin changed' => v \in available /\ v \in available'
    /\ defaultFiles' = defaultFiles \/ defaultFiles \in changed'

LEMMA JustifiedLasts ==
    ASSUME NEW f, NEW v, NEW enabled, NEW default, NEW past,
           NEW enabled2, NEW default2, NEW past2,
           past \subseteq past2,
           \A x \in enabled \cup enabled2 : x \notin past2 => x \in enabled /\ x \in enabled2,
           default2 = default \/ default \in past2,
           JustifiedBy(f, v, enabled, default, past)
    PROVE  JustifiedBy(f, v, enabled2, default2, past2)
BY DEF JustifiedBy

LEMMA ImageJustified ==
    ASSUME TypeOK, defaultConfig \in changed \cup {defaultFiles, Nil}, defaultConfig # Nil,
           NEW label \in Versions \cup {Nil}
    PROVE  Justified(agentVersion(label), label)
BY DEF Justified, JustifiedBy, agentVersion, TypeOK

LEMMA CachesStep ==
    ASSUME TypeOK, [Next]_vars
    PROVE  CachesRemembered
<1> USE DEF CachesRemembered
<1>1. CASE CacheStep
  BY <1>1 DEF CacheStep, Toggle, CacheDefault, ParseDefault, Change, TypeOK
<1>2. CASE UNCHANGED caches
  BY <1>2 DEF caches
<1>3. ASSUME NEW r \in Requests, injectionDeploy(r) PROVE UNCHANGED caches
  BY <1>3 DEF injectionDeploy, createOrUpdateConfigMap, Get, Create, Update, Put, Refused,
              deleteConfigMap, ApiError, AddApplicationEnvironments
<1>4. CacheStep \/ UNCHANGED caches
  BY <1>3 DEF Next, CacheStep, Submit, Commit, Fail, Crash, CreatePod, StartPod, vars
<1> QED
  BY <1>1, <1>2, <1>4

\* What a step has to show: the admissions behind whatever it adds.
LEMMA ReasonKept ==
    ASSUME IInv, ReasonInv, AdmissionsLast, OnlyAdmitted',
           \A d \in Deployments : cms'[d] # Nil =>
              \/ cms[d] # Nil /\ cms'[d].data = cms[d].data
              \/ \E r \in Admissions(d)' : wrote'[r] = cms'[d].data,
           \A d \in Deployments : \A t \in sets'[d] :
              t \in sets[d] \/ \E r \in Admissions(d)' : req'[r].obj.template = t,
           \A p \in pods' : p.files # Nil =>
              \/ \E o \in pods : o.name = p.name /\ o.files = p.files
              \/ \E r \in Admissions(p.name)' : wrote'[r] = p.files,
           CachesRemembered, defaultConfig' \in {defaultConfig, defaultFiles},
           \A r \in Requests : data'[r] # Nil =>
              /\ data'[r] = data[r] \/ Justified(data'[r], version(req[r].obj))
              /\ req'[r] = req[r],
           \A p \in pods' :
              \/ \E o \in pods : o.name = p.name /\ o.image = p.image
              \/ \E r \in Admissions(p.name)' : Justified(p.image, req'[r].obj.template)
    PROVE  ReasonInv'
<1> USE DEF ReasonInv
<1>1. ASSUME NEW d \in Deployments, NEW r \in Admissions(d)
      PROVE  r \in Admissions(d)' /\ req'[r] = req[r] /\ (wrote[r] # Nil => wrote'[r] = wrote[r])
  BY <1>1 DEF AdmissionsLast
<1>2. \A p \in pods : p.name \in Deployments
  BY DEF IInv, TypeOK, Pod
<1>3. ASSUME NEW d \in Deployments, cms'[d] # Nil
      PROVE  \E r \in Admissions(d)' : wrote'[r] = cms'[d].data
  <2>1. CASE cms[d] # Nil /\ cms'[d].data = cms[d].data
    <3>1. PICK r \in Admissions(d) : wrote[r] = cms[d].data
      BY <2>1 DEF FromAdmissions
    <3>2. cms[d].data # Nil
      BY <2>1, ConstantsOK DEF IInv, TypeOK, ConfigMap, Files
    <3> QED
      BY <1>1, <2>1, <3>1, <3>2
  <2> QED
    BY <1>3, <2>1
<1>4. ASSUME NEW d \in Deployments, NEW t \in sets'[d]
      PROVE  \E r \in Admissions(d)' : req'[r].obj.template = t
  BY <1>1, <1>4 DEF FromAdmissions
<1>5. ASSUME NEW p \in pods', p.files # Nil
      PROVE  \E r \in Admissions(p.name)' : wrote'[r] = p.files
  BY <1>1, <1>2, <1>5 DEF FromAdmissions
<1>6. ASSUME NEW p \in pods'
      PROVE  \E r \in Admissions(p.name)' : Justified(p.image, req'[r].obj.template)
  <2>1. ASSUME NEW o \in pods, o.name = p.name, o.image = p.image
        PROVE  \E r \in Admissions(p.name)' : Justified(p.image, req'[r].obj.template)
    <3>1. PICK r \in Admissions(o.name) : Justified(o.image, req[r].obj.template)
      BY <2>1 DEF Choices
    <3> QED
      BY <1>1, <1>2, <2>1, <3>1
  <2> QED
    BY <1>6, <2>1
<1>j. ASSUME NEW f, NEW v, Justified(f, v)
      PROVE  JustifiedBy(f, v, available', defaultFiles', changed')
  BY <1>j, JustifiedLasts DEF CachesRemembered, Justified
<1>9. ASSUME NEW r \in Requests, data'[r] # Nil
      PROVE  JustifiedBy(data'[r], version(req'[r].obj), available', defaultFiles', changed')
  <2>1. Justified(data'[r], version(req[r].obj)) /\ req'[r] = req[r]
    BY <1>9 DEF Choices
  <2>2. PICK f, v : f = data'[r] /\ v = version(req[r].obj)
    OBVIOUS
  <2>3. v = version(req'[r].obj)
    BY <2>1, <2>2
  <2> QED
    BY <1>j, <2>1, <2>2, <2>3
<1>10. ASSUME NEW p \in pods'
       PROVE  \E r \in Admissions(p.name)' :
                 JustifiedBy(p.image, req'[r].obj.template, available', defaultFiles', changed')
  BY <1>6, <1>10, <1>j
<1>11. defaultConfig' \in changed' \cup {defaultFiles', Nil}
  BY DEF Choices, CachesRemembered
<1>7. FromAdmissions'
  BY <1>3, <1>4, <1>5 DEF FromAdmissions
<1>8. Choices'
  BY <1>9, <1>10, <1>11 DEF Choices, Justified, version
<1> QED
  BY <1>7, <1>8

\* Requests are sent once, and write once.
LEMMA AdmittedStep ==
    ASSUME IInv, ReasonInv, [Next]_vars
    PROVE  OnlyAdmitted' /\ AdmissionsLast
<1> USE DEF IInv, ReasonInv, cluster, locals, caches, workloads
<1>f. ASSUME UNCHANGED <<req, handler, locals>> PROVE OnlyAdmitted' /\ AdmissionsLast
  BY <1>f DEF OnlyAdmitted, AdmissionsLast, Admissions
<1>1. ASSUME NEW r \in Requests, NEW d \in Deployments,
             NEW op \in {"CREATE", "UPDATE", "DELETE"}, NEW o \in Objects,
             Submit(r, d, op, o)
      PROVE  OnlyAdmitted' /\ AdmissionsLast
  <2>1. req[r] = Nil /\ data[r] = Nil
    BY <1>1 DEF Submit, OnlyAdmitted, HandlerProgress
  <2>2. /\ UNCHANGED locals
        /\ req'[r].op = op /\ req'[r].obj = o
        /\ handler'[r] = Dispatch(d, op, o)
        /\ \A q \in Requests \ {r} : req'[q] = req[q] /\ handler'[q] = handler[q]
    BY <1>1 DEF Submit, TypeOK
  <2>3. Dispatch(d, op, o) \notin {"end", "delete"} => op # "DELETE" /\ o.match
    BY DEF Dispatch
  <2>4. OnlyAdmitted'
    BY <2>1, <2>2, <2>3 DEF OnlyAdmitted, Dispatch
  <2> QED
    BY <2>1, <2>2, <2>4 DEF AdmissionsLast, Admissions
<1>2. ASSUME NEW r \in Requests, injectionDeploy(r)
      PROVE  OnlyAdmitted' /\ AdmissionsLast
  <2>1. /\ req' = req
        /\ \A q \in Requests \ {r} : UNCHANGED <<handler[q], data[q], wrote[q]>>
    BY <1>2 DEF injectionDeploy, createOrUpdateConfigMap, Get, Create, Update, Put, Refused,
                deleteConfigMap, ApiError, AddApplicationEnvironments, Answer, Goto, TypeOK
  <2>2. AdmissionsLast /\ \/ /\ wrote'[r] = wrote[r] /\ handler'[r] = "end"
                             /\ data'[r] = data[r] \/ (data'[r] = Nil /\ wrote[r] = Nil)
                          \/ handler[r] # "delete" /\ handler'[r] \notin {"none", "resolve"}
                              /\ (wrote'[r] # Nil => wrote'[r] = data'[r])
    <3>1. AdmissionsLast \/ (wrote'[r] # wrote[r] /\ wrote[r] # Nil)
      BY <2>1 DEF AdmissionsLast, Admissions
    <3>2. CASE (createOrUpdateConfigMap(r) /\ ~Refused(r)) \/ Get(r)
      BY <3>1, <3>2 DEF createOrUpdateConfigMap, Get, Goto, HandlerProgress, TypeOK
    <3>3. ASSUME Put(r), handler[r] \in {"create", "update"}
          PROVE  /\ AdmissionsLast
                 /\ handler'[r] = "environments" /\ wrote'[r] = data'[r]
      BY <3>1, <3>3 DEF Put, Goto, HandlerProgress, TypeOK
    <3>4. CASE deleteConfigMap(r) \/ AddApplicationEnvironments(r)
      BY <3>1, <3>4 DEF deleteConfigMap, AddApplicationEnvironments, Answer, TypeOK
    <3>5. ASSUME Refused(r), wrote[r] = Nil
          PROVE  /\ AdmissionsLast /\ wrote'[r] = wrote[r] /\ handler'[r] = "end"
                 /\ data'[r] = Nil
      BY <3>1, <3>5 DEF Refused, Answer, TypeOK
    <3>6. CASE Refused(r) /\ ~AddApplicationEnvironments(r)
      <4>1. wrote[r] = Nil
        BY <1>2, <3>6 DEF injectionDeploy, createOrUpdateConfigMap, Get, Create, Update,
                          deleteConfigMap, ApiError, HandlerProgress
      <4> QED
        BY <3>5, <3>6, <4>1
    <3> QED
      BY <1>2, <3>2, <3>3, <3>4, <3>6 DEF injectionDeploy, Create, Update, ApiError
  <2>3. handler[r] \notin {"none", "end"}
    BY <1>2 DEF injectionDeploy, createOrUpdateConfigMap, Get, Create, Update, deleteConfigMap,
                ApiError, AddApplicationEnvironments
  <2> QED
    BY <2>1, <2>2, <2>3 DEF OnlyAdmitted, HandlerProgress, TypeOK, Labels
<1>3. ASSUME NEW r \in Requests, Commit(r) \/ Fail(r) PROVE OnlyAdmitted' /\ AdmissionsLast
  BY <1>f, <1>3 DEF Commit, Fail
<1>4. CASE Crash
  <2>1. UNCHANGED <<req, wrote>>
    BY <1>4 DEF Crash
  <2>2. \A q \in Requests :
           /\ handler'[q] = IF handler[q] = "none" THEN "none" ELSE "end"
           /\ data'[q] = IF wrote[q] = Nil THEN Nil ELSE data[q]
    BY <1>4 DEF Crash
  <2> QED
    BY <2>1, <2>2 DEF OnlyAdmitted, AdmissionsLast, Admissions
<1>5. CASE CacheStep
  BY <1>f, <1>5, CacheFrame
<1>6. ASSUME NEW d \in Deployments, NEW label \in sets[d], CreatePod(d, label)
      PROVE  OnlyAdmitted' /\ AdmissionsLast
  BY <1>f, <1>6 DEF CreatePod
<1>7. ASSUME NEW p \in pods, StartPod(p) PROVE OnlyAdmitted' /\ AdmissionsLast
  BY <1>f, <1>7 DEF StartPod
<1>8. CASE UNCHANGED vars
  BY <1>f, <1>8 DEF vars
<1> QED
  BY <1>1, <1>2, <1>3, <1>4, <1>5, <1>6, <1>7, <1>8 DEF Next, CacheStep

LEMMA CommitReason ==
    ASSUME IInv, ReasonInv, AdmissionsLast, OnlyAdmitted', CachesRemembered,
           NEW r \in Requests, Commit(r)
    PROVE  ReasonInv'
<1> USE DEF IInv, cluster, locals, caches, workloads
<1>1. UNCHANGED <<cms, req, data, caches>> /\ server[r] = "allowed" /\ req[r] # Nil
  BY DEF Commit, Store, Remove, HandlerProgress
<1>2. req[r].name \in Deployments
  BY <1>1 DEF TypeOK, Request
<1>3. ASSUME NEW d \in Deployments, NEW t \in sets'[d]
      PROVE  t \in sets[d] \/ \E q \in Admissions(d)' : req'[q].obj.template = t
  <2>1. CASE Store(r) /\ req[r].op # "DELETE"
    <3>1. sets' = [sets EXCEPT ![req[r].name] =
                     IF req[r].obj.match THEN @ \cup {req[r].obj.template} ELSE @]
      BY <2>1 DEF Store
    <3>2. t \in sets[d] \/ (d = req[r].name /\ req[r].obj.match /\ t = req[r].obj.template)
      BY <1>2, <1>3, <3>1 DEF TypeOK
    <3> QED
      BY <1>1, <2>1, <3>2 DEF Admissions
  <2>2. CASE Remove(req[r].name)
    BY <1>2, <1>3, <2>2 DEF Remove, TypeOK
  <2> QED
    BY <1>3, <2>1, <2>2 DEF Commit
<1>4. pods' \subseteq pods
  BY DEF Commit, Store, Remove
<1> QED
  BY <1>1, <1>3, <1>4, ReasonKept

LEMMA ReasonStep ==
    ASSUME IInv, ReasonInv, [Next]_vars
    PROVE  ReasonInv'
<1> USE DEF IInv, cluster, locals, caches, workloads
<1>a. OnlyAdmitted' /\ AdmissionsLast /\ CachesRemembered
  BY AdmittedStep, CachesStep
<1>f. ASSUME UNCHANGED <<cms, req, data, workloads, caches>> PROVE ReasonInv'
  BY <1>a, <1>f, ReasonKept
<1>1. ASSUME NEW r \in Requests, NEW d \in Deployments,
             NEW op \in {"CREATE", "UPDATE", "DELETE"}, NEW o \in Objects,
             Submit(r, d, op, o)
      PROVE  ReasonInv'
  <2>1. UNCHANGED <<cms, data, workloads, caches>>
        /\ \A q \in Requests \ {r} : req'[q] = req[q]
    BY <1>1 DEF Submit, TypeOK
  <2>2. data[r] = Nil
    BY <1>1 DEF Submit, ReasonInv, OnlyAdmitted, HandlerProgress
  <2> QED
    BY <1>a, <2>1, <2>2, ReasonKept
<1>2. ASSUME NEW r \in Requests, injectionDeploy(r) PROVE ReasonInv'
  <2>1. CASE createOrUpdateConfigMap(r)
    <3>1. /\ UNCHANGED <<cms, req, workloads, caches>>
          /\ \A q \in Requests \ {r} : data'[q] = data[q]
          /\ data'[r] \in {Nil, configMapData(req[r].obj)}
      BY <2>1 DEF createOrUpdateConfigMap, Refused, TypeOK
    <3>2. req[r] \in Request
      BY <2>1 DEF createOrUpdateConfigMap, HandlerProgress, TypeOK
    <3>3. PICK o \in Object : o = req[r].obj
      BY <3>2 DEF Request
    <3>4. data'[r] # Nil => Justified(data'[r], version(req[r].obj))
      <4> SUFFICES ASSUME data'[r] # Nil PROVE Justified(data'[r], version(req[r].obj))
        OBVIOUS
      <4>1. PICK f, v : f = data'[r] /\ v = version(req[r].obj)
        OBVIOUS
      <4>2. f = configMapData(o) /\ v = version(o)
        BY <3>1, <3>3, <4>1 DEF configMapData, version
      <4>3. Justified(f, v)
        BY <4>2 DEF Justified, JustifiedBy, configMapData, TypeOK
      <4> QED
        BY <4>1, <4>3
    <3> QED
      BY <1>a, <3>1, <3>4, ReasonKept
  <2>2. ASSUME Put(r), handler[r] \in {"create", "update"} PROVE ReasonInv'
    <3>1. UNCHANGED <<req, data, workloads, caches>>
      BY <2>2 DEF Put
    <3>2. req[r] # Nil /\ r \in Admissions(req[r].name)
      BY <2>2 DEF Admissions, ReasonInv, OnlyAdmitted, HandlerProgress
    <3>3. r \in Admissions(req[r].name)'
      BY <3>1, <3>2 DEF Admissions
    <3>4. ASSUME NEW d \in Deployments, cms'[d] # Nil
          PROVE  \/ cms[d] # Nil /\ cms'[d].data = cms[d].data
                 \/ \E q \in Admissions(d)' : wrote'[q] = cms'[d].data
      <4>1. CASE d = req[r].name
        <5>1. cms'[d].data = data[r] /\ wrote'[r] = data[r]
          BY <2>2, <4>1 DEF Put, TypeOK
        <5>2. r \in Admissions(d)'
          BY <3>1, <3>2, <4>1 DEF Admissions
        <5> QED
          BY <5>1, <5>2
      <4>2. CASE d # req[r].name
        BY <2>2, <3>4, <4>2 DEF Put, TypeOK
      <4> QED
        BY <4>1, <4>2
    <3> QED
      BY <1>a, <3>1, <3>4, ReasonKept
  <2>3. CASE deleteConfigMap(r)
    <3>1. UNCHANGED <<req, data, workloads, caches>>
          /\ \A d \in Deployments : cms'[d] # Nil => cms'[d] = cms[d]
      BY <2>3 DEF deleteConfigMap, TypeOK
    <3> QED
      BY <1>a, <3>1, ReasonKept
  <2>4. CASE Get(r) \/ AddApplicationEnvironments(r)
    BY <1>f, <2>4 DEF Get, AddApplicationEnvironments
  <2>5. CASE Refused(r)
    <3>1. UNCHANGED <<cms, req, workloads, caches>>
          /\ \A q \in Requests : data'[q] # Nil => data'[q] = data[q]
      BY <2>5 DEF Refused, TypeOK
    <3> QED
      BY <1>a, <3>1, ReasonKept
  <2> QED
    BY <1>2, <2>1, <2>2, <2>3, <2>4, <2>5 DEF injectionDeploy, Create, Update, ApiError
<1>3. ASSUME NEW r \in Requests, Commit(r) PROVE ReasonInv'
  BY <1>a, <1>3, CommitReason
<1>4. ASSUME NEW r \in Requests, Fail(r) PROVE ReasonInv'
  BY <1>f, <1>4 DEF Fail
<1>5. CASE Crash
  <2>1. UNCHANGED <<cms, req, workloads, caches>>
        /\ \A q \in Requests : data'[q] # Nil => data'[q] = data[q]
    BY <1>5 DEF Crash
  <2> QED
    BY <1>a, <2>1, ReasonKept
<1>6. CASE CacheStep
  <2>1. UNCHANGED <<cms, req, data, workloads>> /\ defaultConfig' \in {defaultConfig, defaultFiles}
    BY <1>6, CacheFrame DEF CacheStep, Toggle, CacheDefault, ParseDefault, Change
  <2> QED
    BY <1>a, <2>1, ReasonKept
<1>7. ASSUME NEW d \in Deployments, NEW label \in sets[d], CreatePod(d, label)
      PROVE  ReasonInv'
  <2> DEFINE new == [name |-> d, image |-> agentVersion(label), files |-> Nil]
  <2>1. UNCHANGED <<cms, req, data, sets, caches>> /\ pods' = pods \cup {new}
    BY <1>7 DEF CreatePod
  <2>2. PICK r \in Admissions(d) : req[r].obj.template = label
    BY DEF ReasonInv, FromAdmissions
  <2>l. label \in Versions \cup {Nil} /\ defaultConfig # Nil
    BY <1>7 DEF CreatePod, TypeOK
  <2>j. Justified(agentVersion(label), label)
    BY <2>l, ImageJustified DEF ReasonInv, Choices
  <2>3. /\ new.name = d /\ new.files = Nil /\ Justified(new.image, req'[r].obj.template)
        /\ r \in Admissions(d)'
    BY <2>1, <2>2, <2>j DEF Admissions
  <2> HIDE DEF new
  <2>4. \A p \in pods' : p \in pods \/ p = new
    BY <2>1
  <2> QED
    BY <1>a, <2>1, <2>3, <2>4, ReasonKept
<1>8. ASSUME NEW p \in pods, StartPod(p) PROVE ReasonInv'
  <2>1. p \in Pod /\ p.name \in Deployments /\ cms[p.name] # Nil
    BY <1>8 DEF StartPod, TypeOK, Pod
  <2>2. PICK files : files = cms[p.name].data
    OBVIOUS
  <2>3. PICK new : new = [p EXCEPT !.files = files]
    OBVIOUS
  <2>4. new.name = p.name /\ new.image = p.image /\ new.files = files
    BY <2>1, <2>3 DEF Pod
  <2>5. UNCHANGED <<cms, req, data, wrote, sets, caches>> /\ pods' = (pods \ {p}) \cup {new}
    BY <1>8, <2>2, <2>3 DEF StartPod
  <2>6. PICK r \in Admissions(p.name) : wrote[r] = files
    BY <2>1, <2>2 DEF ReasonInv, FromAdmissions
  <2>7. r \in Admissions(new.name)' /\ wrote'[r] = new.files
    BY <2>4, <2>5, <2>6 DEF Admissions
  <2>8. \A o \in pods' : o \in pods \/ o = new
    BY <2>5
  <2> QED
    BY <1>a, <2>4, <2>5, <2>7, <2>8, ReasonKept
<1>9. CASE UNCHANGED vars
  BY <1>f, <1>9 DEF vars
<1> QED
  BY <1>1, <1>2, <1>3, <1>4, <1>5, <1>6, <1>7, <1>8, <1>9 DEF Next, CacheStep

-----------------------------------------------------------------------------
(* The theorems. *)

\* Every variable of the admission keeps its type.
THEOREM TypeCorrect == Spec => []TypeOK
<1>1. IInv => TypeOK
  BY DEF IInv
<1> QED
  BY <1>1, IInvInvariant, PTL

\* Whatever has gone wrong with a Deployment's configmap, for any number of
\* requests and any of the failures: after a request of its own that went through,
\* with no other for that Deployment still being handled, the configmap has the
\* files of the Deployment's admission, or is gone with the Deployment.
THEOREM Followed == Spec => []ConfigMapsFollowDeployments
<1>1. Init => AloneInOrder
  BY DEF Init, AloneInOrder
<1>2. IInv /\ AloneInOrder /\ [Next]_vars => AloneInOrder'
  BY AloneStep
<1>3. AloneInOrder => ConfigMapsFollowDeployments
  BY DEF AloneInOrder, InOrder, Follows, ConfigMapsFollowDeployments
<1> QED
  BY <1>1, <1>2, <1>3, IInvInvariant, PTL DEF Spec

\* No Deployment is admitted unless the handler wrote its configmap first, with
\* the files that createOrUpdateConfigMap chose for it: whatever fails, and
\* however requests, timeouts and crashes of the injector interleave.
THEOREM AllowedWritten == Spec => []AllowedMeansWritten
<1>1. IInv => AllowedMeansWritten
  BY DEF IInv
<1> QED
  BY <1>1, IInvInvariant, PTL

\* Two requests never overwrite the same version of a Deployment's configmap:
\* CreateOrUpdateConfigMap sends back the resourceVersion that its Get returned.
THEOREM UpdatesNotLost == Spec => []NoLostUpdate
<1>1. IInv => NoLostUpdate
  BY DEF IInv
<1> QED
  BY <1>1, IInvInvariant, PTL

\* A pod whose image is of another version than the files it mounted has one of
\* the reasons that MismatchHasReason names, for any number of versions, default
\* revisions and requests, and any errors, timeouts and crashes: a change of the
\* caches that concerns one of the two, two version labels, or a label that the
\* template lacked.
THEOREM Mismatched == Spec => []MismatchHasReason
<1>1. Init => ReasonInv
  BY DEF Init, ReasonInv, OnlyAdmitted, FromAdmissions, Choices
<1>2. IInv /\ ReasonInv /\ [Next]_vars => ReasonInv'
  BY ReasonStep
<1>3. IInv /\ ReasonInv => MismatchHasReason
  <2> SUFFICES ASSUME IInv, ReasonInv, NEW p \in pods, p.files # Nil,
                      p.files \notin changed, p.image \notin changed,
                      \A r, s \in Admissions(p.name) :
                         req[r].obj.template = req[s].obj.template,
                      \A r \in Admissions(p.name) :
                         req[r].obj.template = Nil => req[r].obj.label = Nil
               PROVE  p.files = p.image
    BY DEF MismatchHasReason
  <2>1. PICK r \in Admissions(p.name) : wrote[r] = p.files
    BY DEF ReasonInv, FromAdmissions
  <2>2. PICK s \in Admissions(p.name) : Justified(p.image, req[s].obj.template)
    BY DEF ReasonInv, Choices
  <2>3. Justified(p.files, version(req[r].obj))
    BY <2>1 DEF ReasonInv, OnlyAdmitted, Choices, Admissions
  <2>4. version(req[r].obj) = req[s].obj.template
    BY <2>1, <2>2 DEF version
  <2>5. PICK v : v = req[s].obj.template
    OBVIOUS
  <2>6. Justified(p.image, v) /\ Justified(p.files, v)
    BY <2>2, <2>3, <2>4, <2>5
  <2> QED
    BY <2>6, ConstantsOK DEF Justified, JustifiedBy
<1> QED
  BY <1>1, <1>2, <1>3, IInvInvariant, PTL DEF Spec
=============================================================================
