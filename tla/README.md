# A verification of joylive-injector

joylive-injector is an admission webhook for Kubernetes. It keeps a configmap
`<name>-live-configmap` beside every Deployment it is asked to enhance, and
rewrites that Deployment's pods so that they copy an agent from an init
container and mount that configmap. What it injects is itself read from
configmaps and from `AgentVersion` objects that it watches.

This directory holds TLA+ models of the program, the TLC configurations that
check them on small instances, and theorems about them whose proofs TLAPS
checks. `PROJECT.json` ties every definition to the lines it models.

## The system

| Part | State | Operations | Talks to |
| --- | --- | --- | --- |
| configmap watcher, `pkg/watcher/cm_watcher.go` | `cmQueue`; writes `DefaultInjectorConfigMap`, `DefaultInjectorConfig`, `InjectorRules`, `InjectorConfigMaps` | `Start`, `AddFunc`, `UpdateFunc`, `DeleteFunc`, `processConfigMap`, `InitConfigMap`, `cacheConfigMap` | client-go informer, the variables of `pkg/config` |
| agent version watcher, `pkg/watcher/av_watcher.go` | its own queue; writes `InjectorAgentVersion` | the same, for `AgentVersion` objects | the same |
| start, `pkg/watcher/init.go`, `main.go` | `wg`, `fatalErr`; the HTTP server | run both watchers, wait, then serve; shut down on a signal | watchers, admission server |
| admission server, `pkg/admission`, `pkg/route` | the two `funcMap` registries | `Register`, `Setup`, decode, call, answer, recover | API server, handlers |
| deployment admission, `pkg/mutation/mutation_deploy.go`, `pkg/apm` | none between requests | `injectionDeploy`: configmap, labels, variables, patch | `pkg/config`, API server, control plane |
| pod admission, `pkg/mutation/mutation_pod.go` | none between requests | `injectionPod`: rules, init container, variables, mounts, volumes, patch | `pkg/config`, API server, control plane |
| resources, `pkg/resource/resource.go` | the client | get, create, update, delete a configmap; find a pod's Deployment; list nodes | API server |
| control plane client, `pkg/resource/control.go` | none | environment of an application, settings of a sidecar | control plane, over HTTP |

The watchers run in goroutines of their own from before the server listens
until the process ends. They share the variables of `pkg/config` with the
handlers, which run in a goroutine per request, and nobody takes a lock. The
only state that outlives the process is what is in the API server.

What is hard here, and what has to be right:

* **Watching.** A change must reach the configuration although it travels
  through an indexer, a notification, a queue and a worker, each with a step
  of its own, while a second goroutine initialises the same variables and a
  third clears one of them.
* **Configmaps of Deployments.** They are written in the middle of a request
  that may later fail, time out, be a dry run, or be overtaken by another
  one. No Deployment may be admitted without its configmap, and none may keep
  somebody else's.
* **Reading while it is written.** Handlers read several variables, one after
  the other, that the watchers are replacing.
* **Injecting again.** Objects come back with what was added to them earlier:
  injection has to be idempotent, and should not freeze old values.
* **Starting and stopping.** Nothing is served on configuration that was not
  read; nothing that was begun is cut off.

## The models

### ConfigMapWatcher

The watcher against an API server whose configmaps change in any way
(`Write`), with restarts of the process at any moment (`Restart`).

| Model | Code |
| --- | --- |
| `api`, `indexer`, `pending` | the API server, the informer's store, the notifications the listener still has to handle (client-go, external) |
| `Inform`, `Resync`, `Notify` | a change reaches the store; the ten-second resync; the listener calls a handler |
| `AddFunc`, `UpdateFunc`, `DeleteFunc`, `isConfigMapEqual` | the handlers of `Start` |
| `queue`, `dirty`, `processing` | the work queue: a key is queued once, and not while it is processed |
| `GetKey`, `GetByKey`, `cacheConfigMap("worker")` | one round of `processConfigMap` |
| `ListConfigMaps`, `NextConfigMap`, `cacheConfigMap("init")`, `InitDone` | `InitConfigMap` and the end of `watcher.init` |
| `CacheDefault`, `FillDefault`, `ParseDefault`, `StripDefault`, `CacheRules`, `CacheVersion`, `CacheNothing`, `Return` | `cacheConfigMap`, one step per access to a shared variable, and what its two callers do when it returns |
| `ConcurrentMapWrites` | the Go runtime ends a process in which two goroutines write to one map |

The contents of a configmap are an id and a kind: no data, nothing to parse,
YAML that does not parse, YAML that does. The default configmap has its keys,
since they become visible one by one.

`NoChangeLost` says: once the process runs, a configmap that has changed since
and of which nothing is in the listener, the queue or the worker is in the
configuration as the store has it. `RulesReplacedWhole` says that the rules
change only as a whole, to rules that some goroutine read and that parsed, or
to none on a deletion that was seen. `RunningMeansConfigured` says that the
process only gets to serve with every configmap it listed cached without an error.
`ChangesReachConfig` is the liveness of the first.

Runs: `_changes`, for the safety properties, has the default configmap, which is
cached in steps, and that of the rules, which the delete handler writes too,
each with two contents of every kind. Three writes are enough for a change while
an earlier one is being processed, and for a deletion between two versions.
`_live`, for the liveness, has the default configmap and that of a version, with
one content of each kind and two writes, and a resync between any two other
notifications: a state graph with cycles (restarts, resyncs) that is small enough
for it. What is special about the rules, the handler that clears them, takes three
writes to be in the way of a change, and is a matter of `NoChangeLost` in
`_changes`.

Three cases keep the configuration from following the store, and the properties
are worded around them. While the process starts, `InitConfigMap` may write the
configmap it listed over the newer one the worker has cached, and since
`UpdateFunc` skips an object equal to itself no resync mends it: `NoChangeLost`
speaks of configmaps that changed since. The worker may write rules it read
before the rule configmap was deleted after `DeleteFunc` has cleared them
(cm_watcher.go:103 and 167). And a deletion that the watch misses and only a
relist finds out comes as a `DeletedFinalStateUnknown` (`tombstone`), for which
`MetaNamespaceKeyFunc` has no key: `DeleteFunc` returns at line 86, and its
branch at 95-100, which is there for tombstones, is never reached. In both
cases rules that are gone stay in force: `NoChangeLost` speaks of configmaps
that are there, and `RulesReplacedWhole` says that a tombstone clears nothing.
Nothing in the repository says that any of the three cannot happen.

Fairness (`FairSpec`): client-go keeps its goroutines going and the Go
scheduler the two others, so `Start`, `Notify`, `Inform` of each configmap,
the worker and `InitConfigMap` are weakly fair. Nobody has to write, resync or
restart, and the property only speaks of runs that are not cut off by a
restart or a fatal error.

### AgentVersionWatcher, VersionTable

The second watcher, for `AgentVersion` objects. Its informer comes from a shared
factory. Both watchers start it, wait for the first list and only then register
their handlers, which is when the listener is sent everything that is in the
store; here these are three steps (`StartFactory`, `WaitForCacheSync`,
`AddEventHandler`), since an object may change between them. From there on
listener, queue, worker and initialising goroutine are those of
`ConfigMapWatcher`. What differs is what is cached: an object is kept under the
version its spec names and not under its own name, deletions are ignored, the
informer sees every namespace and `InitAgentVersion` lists one of them.

`VersionTable` is what the handlers rely on when they look a version up: an
entry is the whole spec of some `AgentVersion`, under the version that spec
names, and is replaced but never taken away while the process runs. The
refinement is `TableAsPromised`. `VersionsPresent` says that a version whose
object has nothing under way can be found, from whichever namespace it came and
however its key was added while it was being processed. `EntriesCurrent` says
how old an entry may be, and names the three cases the code leaves: its object
was deleted, its object names another version now (the old entry stays, enabled
as it was), or `InitAgentVersion` wrote what it had listed over what the worker
had cached since.

The run `_table` has an object in the injector's namespace and one in another,
a version that is enabled and disabled, and a second one to change to: two
objects may share a version and one may leave two entries. Two changes, and
resyncs and restarts at any time, as in `ConfigMapWatcher`.

### SharedConfig

The composition: both workers assign to the variables of `pkg/config` while
handlers read them, nobody with a lock. A handler of a Deployment
(`createOrUpdateConfigMap`: `BeginDeploy`, `LookUp`, `Choose`, `Send`, `Encode`,
`Encoded`) and one of a pod (`addPodInitContainer`: `BeginPod`, `LookUpForPod`,
`ChooseForPod`, `ReadImage`, `ReadEnvs`, or `BeginInjected` when the init
container is there already; then `modifyPodContainer` once per container) read in
the code's order, one access per step; the worker's steps are those of
`cacheConfigMap` in `ConfigMapWatcher`, and the table of versions takes the steps of
`VersionTable`, so that what is shown here holds with the watcher that
implements it. Go maps are references: `maps` has every map that was ever
assigned to `DefaultInjectorConfigMap`, since a handler may still hold one that
has been replaced, or one that is being filled. A map that is ranged over while
it is written may end the process (`ConcurrentMapReadAndWrite`).

`FilesOfOneRevision`: the files a Deployment gets may be incomplete, but are
never of two revisions. `VersionAsPublished`: a version's files and image are
used only as some enabled `AgentVersion` of that name said, with a configmap
that is there. `AgentInOrder`: `DefaultInjectorConfig` is read three times for the
init container and once for each container of a pod, and each read may meet
another revision, but none an older one than the reads before it. The run `_reads`
has pods of up to two containers (`MaxReads` is 5), or five when the init
container is there. It has one request, which is served again and again, two
configmaps of versions and the default one, and three revisions: enough for one
of them to be replaced while the handler holds it, and replaced once more
while it waits. `_filling` shows that the map may be incomplete when it is
taken, and with it what is stored in the Deployment's configmap.

### DeployAdmission

The API server's side of a request (`Submit`, `Commit`, `Fail`) around the
handler's (`injectionDeploy`), for requests of any kind on Deployments of one
namespace, with the pods that come of them.

| Model | Code |
| --- | --- |
| `Dispatch` | the early returns of `injectionDeploy` |
| `createOrUpdateConfigMap`, `version`, `configMapData` | the choice of the files, from the template's label before the Deployment's; the panic when the version is put among the labels of a template that has none (mutation_deploy.go:277) |
| `Get`, `Create`, `Update`, `Refused`, `ApiError` | `CreateOrUpdateConfigMap` on an API server that checks existence and `resourceVersion`, or fails |
| `deleteConfigMap` | the same, with "not found" as good as deleted |
| `AddApplicationEnvironments` | the rest of the handler, which the control plane may fail |
| `Answer` | the answer, which an API server that has given up does not get |
| `Fail`, `Crash` | a request that is denied, given up, a dry run, or rejected by somebody else; the end of the process |
| `Toggle` | the watchers enable and disable versions |
| `CacheDefault`, `ParseDefault` | `cacheConfigMap` replaces the default configuration, its files before its injector.yaml |
| `CreatePod`, `agentVersion`, `StartPod` | `addPodInitContainer`'s choice of the image, and its panic without a `DefaultInjectorConfig`; the kubelet mounts the configmap |

Requests are handled concurrently, and everything that may go wrong around them
may do so in every run. A dry run is a request that was allowed and then comes
to nothing. Labels and variables, which the configmap does not depend on, are
left out. What the handler has read and written stays known after its end, for
the properties.

`AllowedMeansWritten`: a request that the injector has allowed, for an object
it manages, wrote that object's files first. `NoLostUpdate`: of two requests
that overwrote a configmap with other data, one saw what the other wrote (a
write of what is there already gets no new version).

`ConfigMapsFollowDeployments`: whatever failures and races have left, the next
request puts right. Requests that fail or time out after the write, crashes and
deletions whose call was lost leave configmaps that are ahead of their
Deployments, or behind them, and nothing in the code goes back to them. But once
a request for which the webhook was called, with no other for that Deployment
under way, has gone through (`alone` is its name), the configmap has the files
of that admission, or is gone with the Deployment.

`MismatchHasReason` bounds a race that the design leaves open: a pod's image is
chosen when the pod is created, its files were chosen when its Deployment was
last admitted, and the pod mounts them when it starts. The property lists what
must have happened for a started pod to have the image of one configuration and
the files of another: one of them is of a version that was enabled or disabled,
or of a default configuration that was replaced, since (`changed`); two
admissions of the Deployment had different version labels on their templates;
or a template once lacked the label that its Deployment had.

The run `_events` checks all of this with three requests, one Deployment with
one pod at a time, one version, two revisions of the default configmap and one
change of the caches. The Deployment may be without the webhook's label, or ask for the version on its
template or on itself; that a template which does not ask for one may have no
labels at all is a choice of `createOrUpdateConfigMap`.
Three requests are a creation, an update or deletion that fails in any place,
and the one that mends it; or two that race after a creation; and pods of
old ReplicaSets start in the middle of any of them. The requests are symmetric,
and so are the revisions.

`_label` shows a disagreement with the comment that the template gets the
version label. Another needs no search: the chart declares the webhook with
`sideEffects: None`, which makes the API server send it dry runs too, and the
handler, which never looks at `request.DryRun`, writes or deletes the configmap
of the live Deployment for them: one of the ways for a configmap to get ahead of
its Deployment until the next request.

### PodInjection

The whole of `injectionPod` as a function of the pod and of what it reads of
`pkg/config` and the control plane, applied up to three times to one pod: the
manifest is submitted again, or another webhook adds a container
(`AddContainer`) and the API server invokes this one once more. In between the
watchers change the configuration (`Reconfigure`).

Containers are a function from places, of which only the order counts: one that
is dropped leaves its place empty, and another webhook may put its container
before, between or after the others (the first one is the one that rules and
settings are written to). A container's variables are a map, and the order in
which the containers list them is a field of the pod, `order`: the code makes it
anew by ranging over a Go map (mutation_pod.go:364-368), which the model does by
taking any of `EnvOrders`. Labels and variables are Go maps (`Maps`), and maps
that are merged one after the other are `Layers`, where the last one prevails.

| Model | Code |
| --- | --- |
| `LetThrough`, `Deny`, `Panic`, `InjectSidecar`, `InjectAgent` | the ways out of `injectionPod`, in its order; `Panic` is the nil `DefaultInjectorConfig`, which is only read when there is something to add |
| `matchRule`, `isMatch`, `Enhance` | the rules, merged in any order as a Go map is ranged over, and what the pod gets of them |
| `makePodEnvs`, `mergeEnvs`, `modifyPodContainer` | the variables of labels, node, agent and container, with those of earlier containers that stay in `envs` |
| `agentVersion`, `AgentInitContainer`, `addPodInitContainer` | the init container |
| `Mounts`, `addMounts`, `addPodVolume` | mounts and volumes, looked for by the agent volume's name |
| `injectIstioRequired`, `ToLower`, `GetSidecarConfig`, `Collect`, `AddPodConfigs` | the sidecar's settings |

The value of a variable is the set of its options, since all the code does to a
value is to append options. `strings.ToLower` is `Lowered`, its map from the
strings it changes.

`PodPrevails` says that what a pod comes with (labels, annotations, variables,
volumes, mounts, init containers) is never changed or lost, by whichever
admission. `Settles` says that an injection repeated with the configuration
unchanged changes nothing, but for three things: a label that a rule adds may
match other rules, or become a variable, the next time; a first container
without a name is dropped after the variables of the rules were put into it, so
that the next time they go to another container; and each injection of the agent
lists the variables in a new order, so that its patch is never empty. Once an
admission adds no labels and drops no container, only the order is left, and
with a sidecar nothing.

`MountsResolve` says that no admission adds a mount without its volume. A pod
that comes with a volume of the agent's name is the exception: `addPodVolume`
takes it for injected, and the mounts of the configmap that are added then
have no volume. `AgentComplete` says that in every such history a pod leaves the
agent's branch with the init container, both volumes, both mounts in every
container, and a variable of each of the agent's names in every container.
Again, a volume or a mount of the agent's name that came with the pod stands for
both.

The run `_again` has pods with labels, rules, versions, variables, volumes and
annotations that meet each branch of the code, rules that set the same variable,
settings that are incomplete or conflict, and one configuration for each thing
that may be missing; three admissions let one add labels, the next use them and
the last find the pod settled. A pod has up to three containers, with a place
free before and after them (`MaxContainers` is 4). Two orders of the variables
are enough to tell a new one from an old one.

`_options` shows what `AgentComplete` leaves out: to a `JAVA_TOOL_OPTIONS` that
the container has already, the agent's options are appended in a copy
(mutation_pod.go:357) that is not put back, so that the variable which README.md:13
says is added is not, and the container's JVM runs without the agent that was
mounted for it.

### DeployInjection

What `injectionDeploy` adds to the pod template, over a history of a
Deployment: it is created, relabelled, given another template and variables by
users (`Create`, `Relabel`, `Retemplate`, `SetEnv`), each time from what is
stored, while the control plane changes its answers, fails, or cannot be reached
(`PlaneChanges`).

| Model | Code |
| --- | --- |
| `EnhanceLabels`, `ApmLabels` | the labels for an agent, a sidecar, SGM |
| `GetApplicationEnvironments`, `LabelEnvironments`, `Filtered` | the environment; `Nil` is an error |
| `AddEnvironments`, `removeEnvVar`, `Environment` | `AddApplicationEnvironments` and the removal of `CONFIG_CENTER_ENABLED` |
| `Denied`, `Submit` | the answer, and the API server that stores what was allowed |

The run `_edits` makes three requests: an admission that adds, one that finds
what was added under other labels or another answer, and one after that.
`Settled` is idempotence; `VariablesPrevail`, `NoDuplicateVariables` and
`ConfigCenterOnlyIfAsked` say what must hold of the variables however the
requests and the control plane's moods follow each other. `PodsAreSelected` says
that the template of a managed Deployment comes out of an admission with the label
that the pod webhook selects
(deploy/joylive-injector/templates/mutatingwebhook.yaml:44-45) at
`"true"`, whichever way it is enhanced, and also when an edit had removed the
label. It holds unless the template came in with another value: `EnhanceLabels`
adds the label only when it is missing, and a template with `"false"`, which is
among those of the run, keeps it, so that the Deployment has a configmap and its
pods no agent. That may be a way to ask for just that; nothing says so.

The price of letting what is there prevail is that it is never brought up to
date: after a switch from sidecar to agent the template keeps
`sidecar.istio.io/inject`, and after a change of the application its old labels
and variables. Nothing in the repository says otherwise. Its test
(control_test.go:42) expects the control plane's data alone, to which the code
adds the labels' variables.

### Server, AdmissionCall

`AdmissionCall` is what an API server relies on when it calls a webhook: each
call has one outcome, and it is "allowed" only if the handler decided so
before. `Server` is the process: both watchers' goroutines and the wait for
them (`Watcher`, `Wait`), the registration of the routes (`Setup`), the
goroutine that receives signals (`Notify`, `Spawn`, `Receive`, `Shutdown`,
`Drained`), the server (`Listen`, `ServeReturns`, `MainReturns`), and each
request from the connection to the answer (`Send`, `Read`, `Handle`,
`Respond`), with an API server that gives up (`Timeout`) and a process that may
end at any moment. A handler returns a response, an error, nothing or a panic,
or never returns.

`AnswersOnce` is the refinement: the outcomes, and of the results only whether
they allow, are a behaviour of `AdmissionCall`. `ServedOnlyWhenReady`: no
request gets in before both watchers have succeeded. `StartEnds` and
`ReceivedSignalEnds` are liveness: the start ends in a server or in the end of
the process, and a signal that was received ends the process even when a
handler hangs. Assumed fair are main and the signal goroutine, which the Go
scheduler keeps going; not the watchers, which wait for the API server without
a limit, nor handlers, which wait for the control plane without one, nor the
senders of requests and signals. Two requests meet a shutdown in different
places; of two signals one may find the goroutine draining, and be lost in a
channel without a buffer.

`_graceful` shows that the shutdown is not the graceful one that is logged:
main returns as soon as `Shutdown` begins.

## The proofs

Each proof is by an inductive invariant, stated in the component's `...Proofs`
module (for its own theorems it was checked by a run of TLC before), and proved
step by step of `Next`. They hold for every value of the constants that the
module's assumptions admit, and no bound on writes, requests, edits or
admissions is used. Every invariant, action property and refinement that a
passing run checks is a theorem.

`ConfigMapWatcherProofs` proves `TypeOK` and `NoChangeLost` for any set of
configmaps, any contents and any number of writes. `NoChangeLost` is not
inductive: it says nothing while a change is under way. The invariant `IInv`
tells where a change can be: announced by a notification, in `dirty`, with the
worker before it reads the store, with the worker which is caching what the
store still has, or arrived (`EveryChangeTracked`). It needs to know that the
initialising goroutine is done (`RunningPhase`) and that a deletion in the
notifications is followed by the notification of whatever undid it
(`DeletionsFollowed`), since `DeleteFunc` writes the rules without the queue.
Assumed: the two configmaps of the configuration have different names,
injector.yaml is not among the other keys, the null values are not values, and
there are finitely many configmaps. `RunningMeansConfigured` and
`RulesReplacedWhole` (a tombstone clears nothing) follow from a second
invariant, `ReadInv`, on top of it: what a goroutine is caching was read from
the store with the keys it is copying (`OnlyWhatIsWritten`), and every configmap
that was listed is cached, in hand, or still to come (`ListedOrCached`).

`AgentVersionWatcherProofs` proves `TypeOK`, `VersionsPresent`, `EntriesCurrent`
and the refinement of `VersionTable` for any objects, versions and namespaces.
The invariant tells for each object where what it says now is: in a
notification, in the queue, with the worker, or in the table under its version.
The hard step is the worker's end: a key that was added while it was
being processed is only in `dirty` and goes back to the queue by `Done`. The
refinement needs that everything in the store, in the hands of either goroutine
or listed has been published.

`SharedConfigProofs` proves `TypeOK` and the three properties for any files,
configmaps, versions, number of requests and of containers. The invariant is
about references: every map holds one revision wherever it holds anything
(`OneRevision`, `MapsOfOneRevision`), the one that is being filled is the
worker's last (`Filling`, `OfJob`), and what a handler has encoded came from the
map it holds (`EncodedOf`). `AgentInOrder` is inductive with the bound it states
itself: no read is newer than what `DefaultInjectorConfig` is now, and that only
grows.

`DeployAdmissionProofs` proves `TypeOK`, `AllowedMeansWritten`, `NoLostUpdate`,
`ConfigMapsFollowDeployments` and `MismatchHasReason` for any number of
requests, Deployments, versions, default revisions and changes, with all the
failures. `IInv` adds how far each handler is and what the API server knows of it
(`HandlerProgress`), and that resource versions grow (`VersionsGrow`): the
write of a request leaves a version newer than the one it read, so that a
second request that read the same one fails.

`ConfigMapsFollowDeployments` (`Followed`) speaks of a request that has been
handled alone and is done. `AloneInOrder` says how it gets there: nobody else
has anything left to do for the Deployment; while the handler goes on the API
server still waits for it, since a request that it has given up is no longer
named by `alone`; from the write to the answer, and until the API server has
carried the request out, the configmap has the files of the admission (`Kept`),
or is gone for a deletion; and from then on it follows the Deployment
(`Follows`). The steps of other requests are for other Deployments, or end
`alone` when they are submitted (`AloneStepOf`, `SubmitAlone`). Nothing is
needed of the state before: that is why it heals.

Of a pod `MismatchHasReason` (`Mismatched`) sees the image and the files; the
reason is with the admissions that chose them. `ReasonInv` says that there are
such ones: the files of a configmap and of a pod, and the template of a
ReplicaSet, are those of some request to admit the Deployment, which may be an
old one or one that failed (`FromAdmissions`), and each choice of files or of an
image was right for the caches of its time: it is the version asked for, or a
default revision when that version was not enabled, and if the caches say
otherwise by now, what they no longer hold is in `changed` (`Justified`,
`Choices`). Two choices that disagree are then one of the reasons. Requests and
what they wrote are never forgotten (`AdmissionsLast`), nor are changes
(`CachesRemembered`), so that a step only has to show the admissions behind what
it adds (`ReasonKept`).

`ServerProofs` proves `TypeOK`, `ServedOnlyWhenReady` and the refinement of
`AdmissionCall` (`AnswersOnce`) for any number of requests, paths and signals.
`IInv` says that the wait group counts the watchers that have not come back
(`WaitGroupCounts`), so that main gets past it with both only; that it reaches
the server with every route registered (`StartOrder`); and that a call has an
outcome under way before it has a result, and none before its function has
returned (`CallProgress`), which makes every step of a request one step of
`AdmissionCall`. The end of the process is one step too: all calls that it
cuts off fail together.

`DeployInjectionProofs` proves `TypeOK`, `NoDuplicateVariables`,
`ConfigCenterOnlyIfAsked`, `VariablesPrevail`, `PodsAreSelected` and `Settled`
for any labels, variables and control plane. Most lemmas do not look at what the
control plane answers: adding variables keeps what is there and adds no name
twice, only one name is removed, last, and each way through `EnhanceLabels`
ends with the label that selects the pods at `"true"`, if it was not there with
another value (`EnhanceSelects`). `Settled` compares what is stored
with what the control plane answers now, which may have changed since. The
invariant `StaysInjected` therefore speaks of the answer of the last admission:
with that one, injecting what is stored changes nothing. Assumed is that a
container does not come with two variables of one name, and that labels,
variables and answers are strings.

`PodInjectionProofs` proves `TypeOK`, `MountsResolve`, `AgentComplete`,
`PodPrevails` and `Settles` for any pods, rules, settings, containers added by
others and number of admissions. `PodPrevails` is a fact about one step, but of
every operator on its way: what is merged is merged below what the pod has.
`MountsResolve` needs to be told why a mount is not looked up before it is
added: the agent's volume, or a mount of it, is only on the pod together with
the configmap's, or came with it (`VolumesInv`, `ContainersInv`, which make up
`MountsInv` with what every mount is attached to). `AgentComplete` and `Settles`
compare with an earlier admission, with other containers, labels and
configurations in between. `PriorInv` says what the result of the last one has
for good: everything that its branch would add with the configuration it read
(`AgentSteady`, `SidecarSteady`). The configuration is the one that was read
then, so that the invariant survives a change of it and, when it is changed
back, says what is needed. For the rules it is said of every order in which they
may be merged, since all have the same keys; of the order of the variables
nothing is said, since none lasts. Assumed is that pods and configurations are
what their types say, with finitely many rules; the number of containers and of
admissions is any number.

`MapsProofs` has the lemmas about Go maps that both rest on: what lies above
and below in an overlay, and when it changes nothing. The prover does not take
literals for strings, so that `Maps`, `DeployInjection` and `PodInjection`
assume it of the ones that the injector writes (`EmptyIsString`,
`LiteralsAssumption`); TLC evaluates these assumptions to true in every run.

Model-checked only:

* `ChangesReachConfig`, `StartEnds` and `ReceivedSignalEnds`: liveness under
  fairness is beyond the prover.

## Not modelled

* `pkg/log`: set-up of the logger, pure I/O.
* `client-go/`: generated. Its informers are modelled as the watchers use them,
  and of the shared factory `Start` and `WaitForCacheSync`; nothing calls its
  `Shutdown`. Client, lister, appliers and fakes translate calls to requests.
* The chart, but for the webhook's selectors, timeout and failure policy.
* Errors of the in-memory lister and indexer, and the shutdown of the queues,
  neither of which can happen.
* Patches: the JSON patch is taken to be the difference it is computed as.

## Plan

1. Two requests in `SharedConfig_reads`, when a property relates what two
   handlers were given.
2. The steps of the listener, which both watchers have, in a module of their
   own, so that the lemmas about `dirty` and `processing` are proved once.
