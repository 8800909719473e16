--------------------------- MODULE DeployAdmission ---------------------------
(***************************************************************************)
(* The admission of Deployments (pkg/mutation/mutation_deploy.go) and the  *)
(* configmap "<name>-live-configmap" that it keeps for each of them        *)
(* (pkg/resource/resource.go), with the pods that mount it                 *)
(* (addPodInitContainer of pkg/mutation/mutation_pod.go).                  *)
(*                                                                         *)
(* The API server calls the webhook while it handles a request, applies    *)
(* the request if it is allowed, and gives up after timeoutSeconds; the    *)
(* handler goes on all the same, with context.Background(). Requests are   *)
(* handled concurrently, each by a goroutine of the injector.              *)
(*                                                                         *)
(* The files of an agent version are told apart by the version they are    *)
(* for, those of the default configmap by its revision; the images of the  *)
(* agent likewise.                                                         *)
(***************************************************************************)
EXTENDS Naturals, FiniteSets

CONSTANTS
    Deployments,    \* names of Deployments, all in one namespace
    Versions,       \* agent versions
    Defaults,       \* revisions of the default configmap
    Nil,
    Objects,        \* the Deployments users submit, see Object
    Requests,       \* bound: the requests they send to the API server
    MaxChanges,     \* bound: changes of the injector's caches
    MaxPods         \* bound: pods at a time

\* match: the labels satisfy the webhook's objectSelector and WebHookMatchKey;
\* label, template: AgentVersionLabel on the Deployment and on its pod template;
\* what other labels the template has, if any, is left out.
Object == [match : BOOLEAN, label : Versions \cup {Nil}, template : Versions \cup {Nil}]

Files == Versions \cup Defaults

ASSUME ConstantsOK ==
    /\ Objects \subseteq Object
    /\ Versions \cap Defaults = {} /\ Nil \notin Files \cup Requests
    /\ MaxChanges \in Nat /\ MaxPods \in Nat

ConfigMap == [data : Files, rv : Nat]
Deployment == [obj : Object, rv : Nat, files : Files \cup {Nil}]
Request == [op : {"CREATE", "UPDATE", "DELETE"}, name : Deployments,
            obj : Object, base : Nat]
Pod == [name : Deployments, image : Files, files : Files \cup {Nil}]

ASSUME NilIsNoRecord ==
    Nil \notin Request /\ Nil \notin ConfigMap /\ Nil \notin Deployment

VARIABLES
    deploys,    \* the Deployments of the API server
    cms,        \* their "-live-configmap" configmaps
    rev,        \* the API server's last resourceVersion
    req,        \* each request, once sent
    server,     \* how far the API server is with it
    handler,    \* where its goroutine in the injector is
    data,       \* configMapData; once written, still the files of the admission
    cm,         \* what CreateOrUpdateConfigMap's Get returned; once written, kept too
    available,  \* versions that InjectorAgentVersion has enabled, with their files
    defaultFiles,   \* DefaultInjectorConfigMap
    defaultConfig,  \* DefaultInjectorConfig: image and version of the default agent
    sets,       \* version labels of the templates of each Deployment's ReplicaSets
    pods        \* the pods running

(* History variables, which no step of the code depends on but for the bound. *)
VARIABLES
    wrote,      \* what each request asked the API server to write to the configmap
    changes,    \* number of changes of the caches
    changed,    \* versions enabled or disabled, default revisions replaced
    alone       \* the last request for each Deployment, if the webhook was called
                \* for it, no other for that Deployment was being handled, and it
                \* has not failed

cluster == <<deploys, cms, rev>>
locals == <<data, cm, wrote>>
caches == <<available, defaultFiles, defaultConfig, changes, changed>>
workloads == <<sets, pods>>
vars == <<cluster, req, server, handler, locals, caches, workloads, alone>>

Init ==
    /\ deploys = [d \in Deployments |-> Nil]
    /\ cms = [d \in Deployments |-> Nil]
    /\ rev = 0
    /\ req = [r \in Requests |-> Nil]
    /\ server = [r \in Requests |-> "new"]
    /\ handler = [r \in Requests |-> "none"]
    /\ data = [r \in Requests |-> Nil]
    /\ cm = [r \in Requests |-> Nil]
    /\ wrote = [r \in Requests |-> Nil]
    /\ available \in SUBSET Versions
    /\ defaultFiles \in Defaults /\ defaultConfig \in {defaultFiles, Nil}
    /\ changes = 0 /\ changed = {}
    /\ alone = [d \in Deployments |-> Nil]
    /\ sets = [d \in Deployments |-> {}]
    /\ pods = {}

-----------------------------------------------------------------------------
(* The API server calls the webhook. *)

Exists(d) == deploys[d] # Nil

\* The API server or a handler still has something to do for the request.
Active(r) == server[r] \notin {"new", "done"} \/ handler[r] \notin {"none", "end"}

\* The webhook is called when the new or the old object matches the selector.
Selected(d, op, o) == (op # "DELETE" /\ o.match) \/ (Exists(d) /\ deploys[d].obj.match)

\* injectionDeploy up to its first call: DELETE goes to deleteConfigMap, an
\* object without the label is let through, the others get their configmap.
Dispatch(d, op, o) ==
    IF ~Selected(d, op, o) THEN "end"
    ELSE IF op = "DELETE" THEN "delete"
    ELSE IF o.match THEN "resolve" ELSE "end"

Submit(r, d, op, o) ==
    /\ server[r] = "new"
    /\ op \in {"UPDATE", "DELETE"} => Exists(d)
    /\ op = "DELETE" => o = deploys[d].obj
    /\ req' = [req EXCEPT ![r] = [op |-> op, name |-> d, obj |-> o,
                                  base |-> IF op = "UPDATE" THEN deploys[d].rv ELSE 0]]
    /\ handler' = [handler EXCEPT ![r] = Dispatch(d, op, o)]
    /\ server' = [server EXCEPT ![r] =
                    IF Dispatch(d, op, o) = "end" THEN "allowed" ELSE "calling"]
    /\ alone' = [alone EXCEPT ![d] =
                   IF /\ Selected(d, op, o)
                      /\ \A q \in Requests : Active(q) => req[q].name # d
                   THEN r ELSE Nil]
    /\ UNCHANGED <<cluster, locals, caches, workloads>>

-----------------------------------------------------------------------------
(* The handler. *)

\* The answer is lost on an API server that no longer waits for it.
Answer(r, verdict) ==
    /\ handler' = [handler EXCEPT ![r] = "end"]
    /\ server' = [server EXCEPT ![r] = IF @ = "calling" THEN verdict ELSE @]

Goto(r, label) == handler' = [handler EXCEPT ![r] = label] /\ UNCHANGED server

\* Mutant: the version asked for is not looked up.
configMapDataUnchecked(o) == IF o.template # Nil THEN o.template ELSE o.label

\* createOrUpdateConfigMap: the template's label before the Deployment's.
version(o) == IF o.template # Nil THEN o.template ELSE o.label
configMapData(o) == IF version(o) \in available THEN version(o) ELSE defaultFiles

\* An error: what the handler had in hand is gone with it.
Refused(r) ==
    /\ Answer(r, "denied")
    /\ data' = [data EXCEPT ![r] = Nil]
    /\ cm' = [cm EXCEPT ![r] = Nil]
    /\ UNCHANGED <<cluster, req, wrote, caches, workloads, alone>>

\* The version found is put among the template's labels, before that map is made
\* for a template that has none at all: then the handler panics, and the answer is
\* a 500.
createOrUpdateConfigMap(r) ==
    /\ handler[r] = "resolve"
    /\ \/ /\ req[r].obj.template = Nil /\ req[r].obj.label \in available
          /\ Refused(r)
       \/ /\ data' = [data EXCEPT ![r] = configMapData(req[r].obj)]
          /\ Goto(r, "get")
          /\ UNCHANGED <<cluster, req, cm, wrote, caches, workloads, alone>>

\* CreateOrUpdateConfigMap: Get, then Create or Update.
Get(r) ==
    /\ handler[r] = "get"
    /\ cm' = [cm EXCEPT ![r] = cms[req[r].name]]
    /\ Goto(r, IF cms[req[r].name] = Nil THEN "create" ELSE "update")
    /\ UNCHANGED <<cluster, req, data, wrote, caches, workloads, alone>>

\* The API server stores a configmap under a new resourceVersion, unless it has
\* just these data already.
Put(r) ==
    /\ LET old == cms[req[r].name] IN
       IF old # Nil /\ old.data = data[r] THEN UNCHANGED <<cms, rev>>
       ELSE /\ rev' = rev + 1
            /\ cms' = [cms EXCEPT ![req[r].name] = [data |-> data[r], rv |-> rev + 1]]
    /\ wrote' = [wrote EXCEPT ![r] = data[r]]
    /\ Goto(r, "environments")
    /\ UNCHANGED <<deploys, req, data, cm, caches, workloads, alone>>

\* Create fails when the configmap exists by now.
Create(r) ==
    /\ handler[r] = "create"
    /\ IF cms[req[r].name] = Nil THEN Put(r) ELSE Refused(r)

\* Mutant: the new object is sent, without the resourceVersion that Get returned.
UpdateBlindly(r) ==
    /\ handler[r] = "update"
    /\ IF cms[req[r].name] # Nil THEN Put(r) ELSE Refused(r)

\* Update sends back the object of Get, with its resourceVersion: it fails when
\* the configmap has changed or is gone.
Update(r) ==
    /\ handler[r] = "update"
    /\ IF cms[req[r].name] = cm[r] THEN Put(r) ELSE Refused(r)

\* Mutant: the configmap of a deleted Deployment is left alone.
deleteNothing(r) ==
    /\ handler[r] = "delete"
    /\ Answer(r, "allowed")
    /\ UNCHANGED <<cluster, req, locals, caches, workloads, alone>>

\* deleteConfigMap: a configmap that is not there is as good as deleted.
deleteConfigMap(r) ==
    /\ handler[r] = "delete"
    /\ cms' = [cms EXCEPT ![req[r].name] = Nil]
    /\ Answer(r, "allowed")
    /\ UNCHANGED <<deploys, rev, req, locals, caches, workloads, alone>>

\* Mutant: errors of the API server are logged and forgotten.
ApiErrorIgnored(r) ==
    /\ handler[r] \in {"get", "create", "update", "delete"}
    /\ Answer(r, "allowed")
    /\ UNCHANGED <<cluster, req, locals, caches, workloads, alone>>

\* Any of these calls may fail without effect.
ApiError(r) ==
    /\ handler[r] \in {"get", "create", "update", "delete"}
    /\ Refused(r)

\* The rest of injectionDeploy: labels and environment variables, for which the
\* control plane may answer with an error; then the patch. The version label
\* that createOrUpdateConfigMap sets is in both sides of the patch, so that the
\* Deployment is stored with the labels it came with.
AddApplicationEnvironments(r) ==
    /\ handler[r] = "environments"
    /\ Answer(r, "allowed") \/ Answer(r, "denied")
    /\ UNCHANGED <<cluster, req, locals, caches, workloads, alone>>

injectionDeploy(r) ==
    \/ createOrUpdateConfigMap(r) \/ Get(r) \/ Create(r) \/ Update(r)
    \/ deleteConfigMap(r) \/ ApiError(r) \/ AddApplicationEnvironments(r)

-----------------------------------------------------------------------------
(* The API server gets the answer, or does not. *)

Finish(r) == server' = [server EXCEPT ![r] = "done"]

Store(r) ==
    LET q == req[r] IN
    /\ rev' = rev + 1
    /\ deploys' = [deploys EXCEPT ![q.name] =
                     [obj |-> q.obj, rv |-> rev + 1,
                      files |-> IF q.obj.match THEN data[r] ELSE Nil]]
    /\ sets' = [sets EXCEPT ![q.name] =
                  IF q.obj.match THEN @ \cup {q.obj.template} ELSE @]
    /\ UNCHANGED <<cms, pods>>

Remove(d) ==
    /\ deploys' = [deploys EXCEPT ![d] = Nil]
    /\ sets' = [sets EXCEPT ![d] = {}]
    /\ pods' = {p \in pods : p.name # d}
    /\ UNCHANGED <<cms, rev>>

\* The request is carried out if the Deployment is still as it was found.
Possible(q) ==
    /\ q.op = "CREATE" <=> ~Exists(q.name)
    /\ q.op = "UPDATE" => deploys[q.name].rv = q.base

Ineffective(r) == alone' = [d \in Deployments |-> IF alone[d] = r THEN Nil ELSE alone[d]]

Commit(r) ==
    /\ server[r] = "allowed"
    /\ Finish(r)
    /\ IF Possible(req[r])
       THEN /\ IF req[r].op = "DELETE" THEN Remove(req[r].name) ELSE Store(r)
            /\ UNCHANGED alone
       ELSE UNCHANGED <<cluster, workloads>> /\ Ineffective(r)
    /\ UNCHANGED <<req, handler, locals, caches>>

\* A denied request ends; so does one that another admission step rejects, a dry
\* run, which the handler treats like any other request, and one whose webhook
\* call takes too long.
Fail(r) ==
    /\ server[r] \in {"denied", "allowed", "calling"}
    /\ Finish(r)
    /\ Ineffective(r)
    /\ UNCHANGED <<cluster, req, handler, locals, caches, workloads>>

\* The injector dies: the calls it was handling fail (failurePolicy: Fail).
Crash ==
    /\ \E r \in Requests : handler[r] \notin {"none", "end"}
    /\ handler' = [r \in Requests |-> IF handler[r] = "none" THEN "none" ELSE "end"]
    /\ server' = [r \in Requests |-> IF server[r] = "calling" THEN "denied" ELSE server[r]]
    /\ data' = [r \in Requests |-> IF wrote[r] = Nil THEN Nil ELSE data[r]]
    /\ cm' = [r \in Requests |-> IF wrote[r] = Nil THEN Nil ELSE cm[r]]
    /\ UNCHANGED <<cluster, req, wrote, caches, workloads, alone>>

-----------------------------------------------------------------------------
(* The watchers change what the handlers read. *)

Change(what) ==
    /\ changes < MaxChanges
    /\ changes' = changes + 1
    /\ changed' = changed \cup {what}
    /\ UNCHANGED <<cluster, req, server, handler, locals, workloads, alone>>

\* A version is enabled or disabled, or its files are loaded.
Toggle(v) ==
    /\ Change(v)
    /\ available' = IF v \in available THEN available \ {v} ELSE available \cup {v}
    /\ UNCHANGED <<defaultFiles, defaultConfig>>

\* cacheConfigMap, for a new revision of the default configmap: first its files.
CacheDefault(d) ==
    /\ d # defaultFiles
    /\ Change(defaultFiles)
    /\ defaultFiles' = d
    /\ UNCHANGED <<available, defaultConfig>>

\* Then its injector.yaml, if there is one and it parses.
ParseDefault ==
    /\ defaultConfig # defaultFiles
    /\ defaultConfig' = defaultFiles
    /\ UNCHANGED <<cluster, req, server, handler, locals, available, defaultFiles,
                   changes, changed, workloads, alone>>

-----------------------------------------------------------------------------
(* Pods. *)

\* Mutant: the version label is not looked up.
agentVersionUnchecked(label) == label

\* addPodInitContainer: the version of the init container's image.
agentVersion(label) == IF label \in available THEN label ELSE defaultConfig

\* A ReplicaSet, the current one or an older one, creates a pod from its template,
\* which injectionDeploy gave the label that the pod webhook selects. Without a
\* DefaultInjectorConfig the handler panics, and there is no pod.
CreatePod(d, label) ==
    /\ label \in sets[d]
    /\ defaultConfig # Nil
    /\ Cardinality(pods) < MaxPods
    /\ pods' = pods \cup {[name |-> d, image |-> agentVersion(label), files |-> Nil]}
    /\ UNCHANGED <<cluster, req, server, handler, locals, caches, sets, alone>>

\* The kubelet mounts the configmap, by subPath: the pod keeps what it finds now.
StartPod(p) ==
    /\ p \in pods /\ p.files = Nil
    /\ cms[p.name] # Nil
    /\ pods' = (pods \ {p}) \cup {[p EXCEPT !.files = cms[p.name].data]}
    /\ UNCHANGED <<cluster, req, server, handler, locals, caches, sets, alone>>

-----------------------------------------------------------------------------
Next ==
    \/ \E r \in Requests, d \in Deployments, op \in {"CREATE", "UPDATE", "DELETE"},
          o \in Objects : Submit(r, d, op, o)
    \/ \E r \in Requests : injectionDeploy(r) \/ Commit(r) \/ Fail(r)
    \/ Crash
    \/ \E v \in Versions : Toggle(v)
    \/ \E d \in Defaults : CacheDefault(d)
    \/ ParseDefault
    \/ \E d \in Deployments : \E label \in sets[d] : CreatePod(d, label)
    \/ \E p \in pods : StartPod(p)

Spec == Init /\ [][Next]_vars

-----------------------------------------------------------------------------
(* Properties *)

Stages == {"new", "calling", "allowed", "denied", "done"}
Labels == {"none", "resolve", "get", "create", "update", "delete", "environments", "end"}

TypeOK ==
    /\ deploys \in [Deployments -> Deployment \cup {Nil}]
    /\ cms \in [Deployments -> ConfigMap \cup {Nil}]
    /\ rev \in Nat
    /\ req \in [Requests -> Request \cup {Nil}]
    /\ server \in [Requests -> Stages]
    /\ handler \in [Requests -> Labels]
    /\ data \in [Requests -> Files \cup {Nil}]
    /\ cm \in [Requests -> ConfigMap \cup {Nil}]
    /\ wrote \in [Requests -> Files \cup {Nil}]
    /\ available \in SUBSET Versions
    /\ defaultFiles \in Defaults /\ defaultConfig \in Defaults \cup {Nil}
    /\ changes \in Nat /\ changed \in SUBSET Files
    /\ alone \in [Deployments -> Requests \cup {Nil}]
    /\ sets \in [Deployments -> SUBSET (Versions \cup {Nil})]
    /\ pods \in SUBSET Pod

\* No Deployment gets in without its configmap: a request that the injector has
\* allowed, for an object that matches, wrote that object's files first. The
\* write may have failed, conflicted, or been overtaken by a crash or a timeout.
AllowedMeansWritten ==
    \A r \in Requests :
        server[r] = "allowed" /\ req[r].op # "DELETE" /\ req[r].obj.match
            => wrote[r] # Nil /\ wrote[r] = data[r]

\* The request found a configmap, and had it written with other data.
Overwrote(r) == wrote[r] # Nil /\ cm[r] # Nil /\ wrote[r] # cm[r].data

\* No update is lost: of two requests that overwrote a configmap with something
\* else, one saw what the other wrote. Both read it first and write it later.
NoLostUpdate ==
    \A r, s \in Requests :
        /\ r # s /\ req[r] # Nil /\ req[s] # Nil /\ req[r].name = req[s].name
        /\ Overwrote(r) /\ Overwrote(s)
        => cm[r] # cm[s]

\* A configmap that failures have left wrong is put right by the next request.
\* Requests that fail or time out after the write, races, crashes and deletions
\* whose call was lost leave configmaps ahead of their Deployments, or behind
\* them. But once a request for which the webhook was called, with no other for
\* that Deployment still being handled, has gone through, the configmap is that
\* of the Deployment: it has the files chosen at its admission, and goes with it.
ConfigMapsFollowDeployments ==
    \A d \in Deployments :
        alone[d] # Nil /\ server[alone[d]] = "done" =>
            /\ ~Exists(d) => cms[d] = Nil
            /\ Exists(d) /\ deploys[d].obj.match
                  => cms[d] # Nil /\ cms[d].data = deploys[d].files

\* The requests sent so far to admit the Deployment, for the injector's webhook.
Admissions(d) ==
    {r \in Requests : req[r] # Nil /\ req[r].name = d
                        /\ req[r].op # "DELETE" /\ req[r].obj.match}

\* README.md:18 promises a "specified version joylive-agent and corresponding
\* configuration". The image is chosen when a pod is created, the files when its
\* Deployment was last admitted, and the pod mounts them when it starts: in between
\* come crashes of pods, old ReplicaSets and updates. The two only differ when one
\* of them is of a version that was enabled or disabled meanwhile, or of a default
\* configuration that was replaced meanwhile; in a rollout from one version label
\* to another; or for a Deployment whose template once lacked the label that it
\* had itself.
MismatchHasReason ==
    \A p \in pods : p.files # Nil /\ p.files # p.image =>
        \/ p.files \in changed \/ p.image \in changed
        \/ \E r, s \in Admissions(p.name) : req[r].obj.template # req[s].obj.template
        \/ \E r \in Admissions(p.name) : req[r].obj.template = Nil /\ req[r].obj.label # Nil

(* A statement of the repository that does not hold. *)

\* pkg/mutation/mutation_deploy.go:276: "Ensure the pod template has the agent
\* version label." The label is set before the copy that the patch is made from.
TemplateHasVersionLabel ==
    \A d \in Deployments :
        Exists(d) /\ deploys[d].files \in Versions
            => deploys[d].obj.template = deploys[d].files
=============================================================================
