# A verification project for flowify-workflows-server

flowify-workflows-server is a REST server, written in Go, that keeps workflow
*components*, *workflows*, *jobs* and *volumes* in MongoDB, keeps *workspaces*
and *secrets* in Kubernetes, and runs jobs as Argo workflows. The handlers run
concurrently, one goroutine per request, in possibly several server processes,
and hardly any state is held in memory: what they share is the database and the
Kubernetes API. What can go wrong is therefore mostly *between* calls: two
requests on one document, a check made outside the transaction that relies on
it, a request that stops half-way, an event that arrives late.

## 1. Inventory

| Component | State | Operations | Talks to |
|---|---|---|---|
| versioned documents: `storage/mongo.go`, `rest/components.go`, `rest/workflows.go` | MongoDB collections `Components`, `Workflows`: documents with uid, version number, tag `latest`, timestamp | POST, GET, PUT (new version), PATCH (rewrite newest), DELETE (one version), list | MongoDB transactions; workspace access of the user |
| jobs: `rest/jobs.go`, `storage/mongo.go` | collection `Jobs`; an Argo workflow per job; a goroutine per running job | submit, status, list, event stream, terminate, delete; `EventSaver` | MongoDB, Argo/Kubernetes API, dereferencing and transpiler |
| dereferencing: `storage/references.go` | none | replace component references by components | document storage |
| transpiler: `transpiler/*.go` | none | component tree to Argo manifest | - |
| volumes: `storage/mongovolumestorage.go`, `rest/volumes.go` | collection `Volumes` | list, get, put, delete | MongoDB, no transactions |
| secrets: `pkg/secret/secret.go`, `rest/secrets.go` | per workspace a secret, role, role binding and service account | list keys, add key, delete key | Kubernetes API with retry |
| workspace cache: `pkg/workspace/workspace.go`, `rest/workspaces.go` | list of workspaces in memory; config maps, namespaces, role bindings | list, create, update, delete; informer callbacks | Kubernetes API |
| authorization: `auth/auth.go`, `rest/rest.go`, `user/user.go` | none | does a user have access to a workspace, a secret, a volume | workspace cache |
| authentication: `auth/azure_token.go` | none | token to user | - |
| list queries: `storage/parsequery.go` | none | query string to filter, sort and page | MongoDB |
| data model: `models/*.go` | none | JSON/BSON conversion, schema validation | - |
| start-up: `main.go`, `apiserver`, `cmd` | configuration | wiring | everything |

What makes each of them correct, and what is hard about it:

* **Versioned documents.** Version numbers of a uid are unique and consecutive,
  the tag `latest` sits on the newest version, a PATCH rewrites only the newest
  version and only what its client has read, and the versions of a workflow stay
  in one workspace. Hard: the only protection is the write conflict of a
  MongoDB transaction. There is no unique index, the checks of workflows are
  made before the transaction starts, and the timestamp that detects concurrent
  edits has a resolution of one millisecond.
* **Jobs.** A job is in two places and no transaction spans them. A running
  workflow must have its document, a deleted job must stay deleted, and the
  event history that is stored must be whole. Hard: lost answers, a crash
  between two calls, the event saver that writes long after the request that
  started it, deletions and terminations racing it.
* **Secrets, volumes, workspace cache.** Sequences of calls to Kubernetes or
  MongoDB without a transaction, retries, and a cache fed by callbacks. Hard:
  two requests in the same sequence, and one call of a sequence failing.
* **Dereferencing and transpiler.** A job names components that others may
  change while it is resolved; then volumes and secrets, which Argo does not pass
  along, have to be followed by hand through mappings, edges and the results of
  other components. Correct when every reference gets the component it names, and
  every container what the wiring says. Hard: arbitrarily nested graphs, walks
  with and without a bound, one template per uid, and fields without a type that
  are read back from two formats by trial.
* **Lists.** Each page is a request of its own, and documents come, change and go
  between two of them. Correct when a page keeps to the filters and to the access
  of the user, and a walk in a suitable order misses or repeats nothing.
* **Authorization.** Pure operators; what is hard is that the list of workspaces
  they are applied to is read several times in a request and may change.

`PROJECT.json` lists the hazards line by line. Sections 2 to 5 describe what is
modelled; section 6 is what could follow.

## 2. Modules

| Module | Contents |
|---|---|
| `VersionHistory` | what the API promises of a versioned document: the abstract specification |
| `VersionedStore` | components and workflows: storage, transactions, handlers; implements `VersionHistory` |
| `MCVersionedStore` | constants and symmetry for TLC |
| `VersionedStoreProofs` | inductive invariants and theorems: types, version numbers, the tag |
| `VersionHistoryProofs` | theorems about PATCH, workspaces, and the refinement of `VersionHistory`; extends `VersionedStoreProofs` |
| `JobLifecycle` | submit, event saver, event stream, terminate, delete |
| `MCJobLifecycle` | constants for TLC |
| `JobLifecycleProofs` | inductive invariants and theorems |
| `SecretGroup` | the secrets of one workspace |
| `MCSecretGroup` | constants for TLC |
| `SecretGroupProofs` | inductive invariants and theorems |
| `WorkspaceCache` | config maps and namespaces, informer, cached list, handlers |
| `MCWorkspaceCache` | constants for TLC |
| `WorkspaceCacheProofs` | inductive invariants and theorems |
| `Access` | roles, permissions, context of a request: operators |
| `VolumeStore` | volumes: middleware, handlers, storage; extends `Access` |
| `MCVolumeStore` | users, workspaces and constants for TLC |
| `VolumeStoreProofs` | inductive invariants and theorems |
| `Documents` | components, nodes and sources as values in memory |
| `Codec` | their JSON and BSON conversions: operators; extends `Documents` |
| `Transpiler` | from a component tree to an Argo workflow: operators; extends `Documents` |
| `Wiring` | what the wiring of a component tree means: the reference for `Transpiler` |
| `Dereference` | one job, dereferenced against other users and then translated; the conversions and the translation are parameters |
| `DereferenceProofs` | inductive invariants and theorems |
| `JobCompile` | `Dereference` with the code's conversions and translation; extends it, `Codec`, `Transpiler`, `Wiring` |
| `MCJobCompile` | the catalogue of jobs for TLC |
| `Listing` | list queries, pages and the users around them; extends `Access` |
| `MCListing` | documents, users and queries for TLC |
| `ListingProofs` | inductive invariants and theorems |

Definitions whose comment begins with "Mutant:" are deliberately wrong variants
of the definition that follows them. No specification uses them. Each one, put
in the place of its original, makes TLC report the property that
`PROJECT.json` pairs with it.

### VersionedStore

Every query of the storage filters on the uid, so one uid is modelled. `docs`
is the set of its documents. A document has MongoDB's `_id`, the version
number, the tag, the timestamp and, for workflows, the workspace; the rest of
the document is abstracted to `content`, the number of the write that produced
it, and `base`, the content of the copy that write was edited from. Clients
send documents they received earlier, with the version block unchanged, which
is what the user interface does and what the tests do.

| Action | Code |
|---|---|
| `CreateComponent`, `CreateWorkflow`, `Reply` | the POST handlers and storage operations of those names; `Create` is either |
| `GetVersion`, `GetFind` | `getCRefVersion`, `GetComponent`/`GetWorkflow` |
| `PutComponent`, `PutWorkflow`, `PutWorkflowCheck` | the PUT handlers, and the checks `PutWorkflow` makes before its transaction |
| `PutCommit`, `TaggedBefore` | `updateCallback`, `replaceLatestTag` |
| `PatchComponent`, `PatchWorkflow`, `PatchCommit` | the PATCH handlers, `patchCallback` |
| `DeleteComponent`, `DeleteWorkflow`, `DeleteWorkflowCheck`, `DeleteCommit` | the DELETE handlers, `DeleteDocument`, `deleteCallback` |
| `TxnBegin`, `Retry`, `Abort` | `session.WithTransaction` |

MongoDB is external. A transaction is two steps: `TxnBegin` reads a snapshot,
the commit succeeds if every document it modifies or deletes is still the one of
the snapshot, and is retried otherwise. Inserts do not conflict, because the
code creates no unique index. A request may be abandoned anywhere (`Abort`),
also after its commit and before its answer.

`VersionHistory` has no requests and no transactions: a history of numbered
contents, to which a version is appended, whose newest version is amended, and
from which an older one is removed, each at once. `StoredHistory` reads such a
history off `docs`, and `ImplementsHistory` says that every step of
`VersionedStore` is a step of it or none: no commit has an effect in two halves,
and none an effect the API does not have.

Two kinds share the module: `Kind = "component"` has no access check and no
read before the transaction, `Kind = "workflow"` has both.

### JobLifecycle

`db` and `events` are the job document, `argo` and `shutdown` the Argo
workflow, `sub` the submit handler, `watch` the event saver of each job and the
event stream of each viewer, `req` the delete and terminate requests, `gone`
the jobs whose deletion was confirmed to a client. Each call of a handler to
MongoDB or to the Kubernetes API is a step of its own:

* submit: `StoreJob`, `Transpile`, `CreateWorkflow`, `StartSaver`, and
  `SubmitFails` (in which the API server may have created the workflow although
  the call returned an error);
* event saver and streams: `OpenStream`, `OpenWatch`, `Receive`, `SaveEvents`,
  `SaveFails`, `WatchBreaks`, `CloseStream`;
* delete: `DeleteRequest`, `DeleteGet`, `DeleteDryRun`, `DeleteGetJob`,
  `DeleteDocument`, `DeleteWorkflow`; terminate: `TerminateRequest`,
  `TerminateGet`, `TerminatePatch`; `RequestFails` ends any of them early;
* `Advance` is the Argo controller, `Crash` the loss of the server process.

The Kubernetes API and the Argo controller are external. A watch delivers the
current object first and then every change in order, a deletion included; a
patch that changes nothing makes no event. A DELETE asks for foreground propagation
(`jobs.go:467`), so Kubernetes may keep the object a while until what it owns is
collected; such an object counts as absent. Events in which the phase does not
change are left out, except the one of a terminate patch.

### SecretGroup

The keys of a workspace are the fields of one Kubernetes secret. `objects` says
which of role, role binding, secret and service account exist, `data` and
`version` are the fields and the resource version of the secret; the rest is
the state of a request per client.

| Action | Code |
|---|---|
| `ListAvailableKeys`, `AvailableKeys` | `SecretListHandler`, `ListAvailableKeys` |
| `Put` | `SecretPutHandler` up to `AddSecretKey` |
| `k8sSecretExists` | the check of `AddSecretKey` |
| `addNewRole`, `addNewRoleBinding`, `addNewSecret`, `addNewServiceAccount` | `createNewGroup`, a call a step |
| `GetSecret`, `UpdateSecret` | `addFieldToSecret` |
| `DeleteSecretKey`, `RemoveKey` | `SecretDeleteHandler`, `DeleteSecretKey` |
| `Abort` | a call fails, the client disconnects, the process ends |

Kubernetes is external: Create fails if the object exists, Update fails if the
resource version sent is not the stored one, a write that changes nothing keeps
the resource version, and a JSON patch is applied atomically. Requests that are
refused before their first call change nothing and are left out.

### WorkspaceCache

A workspace is a namespace (`ns`) and a config map (`cm`), whose contents are
abstracted to the workspace label, the settings, and the resource version. A
change goes a long way: the watch (`up`) brings it to the informer (`pending`),
which updates its index (`index`) and queues a callback (`calls`); the listener
goroutine decides whether to refresh (`NeedsUpdate`), and `UpdateConfigMaps`
(`upd`, `mutex`, `fresh`) makes a list from the index and assigns it (`ws`).
The first list is made by the thread that starts the server, at the
same time as the first callbacks.

| Action | Code |
|---|---|
| `Callback`, `NeedsUpdate` | `AddFunc`, `DeleteFunc`, `UpdateFunc` |
| `Lock`, `ListIndex`, `Assign` | `UpdateConfigMaps` |
| `ListWorkspaces` | what a request gets that reads the field at this moment |
| `WorkspacesCreateHandler`, `CreateNamespace`, `CreateConfigMap` | `Create` |
| `WorkspacesUpdateHandler`, `GetNamespace`, `UpdateNamespace`, `GetConfigMap`, `UpdateConfigMap` | `Update` |
| `WorkspacesDeleteHandler`, `DeleteNamespace`, `DeleteConfigMap` | `Delete` |
| `CallFails` | a call fails and the handler returns |
| `WatchBreaks`, `Relist`, `Deliver`, `Resync` | the informer of client-go (external) |
| `Operate`, `NamespaceGone` | operators and the namespace controller (external) |

An empty list of roles makes Create and Update panic after their first write
(`WithRoles`); a Get of the config map that fails leaves Update with an empty
one (`GetConfigMap`), and writing that back is unconditional, because it has no
resource version.

### Access and VolumeStore

`Access` has the role checks as operators, under the names of the code:
`HasOwnership`, `UserHasRole`, `UserHasAccess`, `UserHasAdminAccess`,
`GetPermissions`, `Authorize`, `Visible` (`NewAuthorizationContext`) and
`CheckWorkspaceAccess`. Roles are tuples of words, since the code joins strings.

`VolumeStore` puts the volume requests behind them. `vols` is the collection; a
volume's data is the number of the request that wrote it. `list` is the cached
list of workspaces, which may change at any moment (`ListChanges`), `seen` the
lists there have been since a request began, `got` what it was answered. A PUT, GET
or DELETE is about a uid that a POST gave out or about one that a client made up (0),
since the handlers accept any. The history variable `raced` has no counterpart in the
code: it collects the uids that were inserted while another request, too, had looked
them up in vain and was about to insert them.

| Action | Code |
|---|---|
| `Begin` | authentication and `NewAuthorizationContext`: first reading of the list |
| `PathAuthorization` | second reading of the list, and the access check `PutVolume` starts with |
| `VolumeGetHandler`, `VolumesListHandler` | the handlers, with `GetVolume` and `ListVolumes` |
| `PutFind`, `Insert`, `Replace` | `PutVolume` for POST and PUT |
| `DeleteFind`, `Remove` | `DeleteVolume` |
| `CallFails` | a call to MongoDB fails |

MongoDB is external: a single call is atomic, and one that matches several
documents takes any of them.

### Documents, Codec, Dereference, Transpiler, Wiring, JobCompile

`Dereference` is what `JobsSubmitHandler` makes of one job between storing it and
handing it to Argo, and what the tool `cmd/transpile` makes of it. A path is the
sequence of positions that leads to a node, `parts[path]` the component there,
`todo` the nodes still to visit, in the order of the recursion. Other users write
meanwhile; a PUT that finds no version of its component makes version 1, as the
code does. The phase is `refused` after an error of `DereferenceComponent`, `done`
after the translation, whatever its result.

How a document is read (`Received`, `Loaded`) and how the job is translated
(`Translate`) are constants of `Dereference`, since these are recursive definitions,
which no module with a theorem may reach. `JobCompile` has the code's definitions of
them (`AsReceived`, `AsLoaded`, `ToArgo`), and the configurations put them in. The
component of a job goes through JSON, those it refers to through JSON and BSON: the
fields without a type are written by their struct tags and read back by trying one
type after the other, as in `Codec`. `ComponentsAssumption` is what Go's types say of
the result: nodes are a slice, and each holds a component or refers to one; TLC
evaluates it for every job of the catalogue.

| Action or operator | Code |
|---|---|
| `Receive`, `End`, `Transpile` | `JobsSubmitHandler`, `main` of `cmd/transpile` |
| `DrefInline`, `Traverse`, `Dereferenced` | `drefNode`, `drefComponent`, `traverseComponent`, `DereferenceComponent` |
| `getCRefVersion`, `GetComponent`, `Fetch` | the two queries of `GetComponent`, a step each |
| `PutVersion`, `PatchVersion`, `DeleteVersion` | other users, at once (see `VersionHistory`) |
| `AddBrick`, `AddGraph`, `AddMap`, `AddConditional`, `TraverseComponent`, `GetArgoWorkflow` | `transpiler.go`, under their names |
| `getConnectedSourceEdge`, `bridgeVolume`, `resolve`, `getConnectedVolumeMap`, `getNodeSecretMap`, ... | `helpers.go`, under their names |
| `Unmarshal...`, `Marshal...` | `models.go` |

An operator of `Transpiler` gives a value or the way the code ended: a Go error,
a dereferenced nil pointer, or a recursion without end (a claim that comes back
in `resolve`; more than `MaxDepth` levels in `traverseComponent`). A brick has a
container, as the schema requires of every job the server accepts
(`brick.schema.json:23`); the tool, run without a schema, would dereference the nil
pointer of one without (`transpiler.go:38`), which the model leaves out. A template
keeps its name, its tasks with their arguments and dependencies, its mounts, its
environment and its inputs and outputs. Of several ways to write the same value
(`{{inputs.parameters.p}}`) the address is kept.

`Wiring` says what is meant without an algorithm: components of a tree have
paths, ports are joined by wires, and what a port carries comes from the inputs
of the root from which it can be reached. The properties of `JobCompile` compare
the two for jobs whose wiring leaves no doubt (`ClearlyWired`: one wire into a
port, equal types, no circle of tasks).

### Listing

A client walks through a list page by page; a walk is the kind of list, the
user and the query. `coll` is the collection, `pending` the writes that have
taken their timestamp and are not committed, `list` and `ctx` the cached list of
workspaces and the one in the context of the request.

| Action or operator | Code |
|---|---|
| `parse_sort_query`, `sort_queries`, `mongo_operator`, `parse_filter_query`, `filter_queries`, `join_queries` | `parsequery.go`, under their names |
| `ListComponentsMetadata`, ... `ListJobsMetadata`, `ListVolumes` | the storage operations: the answers they may give |
| `Begin`, `PathAuthorization`, `ListHandler` | middleware and handlers of a list |
| `StampNew`, `StampPatch`, `Commit`, `Delete` | writes of other users, timestamp first |
| `ListChanges` | the cached list is refreshed |

MongoDB is external: an aggregation sees one moment of the collection, sorts equal
keys in any order, refuses an operator it does not know, a regular expression that is
a time, and a limit of zero, and finds nothing where a string is asked of a number.
The last concerns filters on the version number, which `parse_filter_query` leaves a
string (`Comparable`).
The conditions of several filters are a set, since MongoDB asks that all of them
hold; sort keys keep their order, the parts of the first parameter before those of
the second (`Before`). `Wanted` says what a client asks for by the documented
meaning of the filters, without the pipeline; the properties are stated with it.

## 3. Runs

| Run | Configuration | Shows |
|---|---|---|
| `component` | 2 clients, 4 writes | `VersionsUnique`, `LatestTagOnNewest`, `NewVersionIsNext`, `OnlyLatestPatched`, `NoLostUpdate`, and the refinement `ImplementsHistory` |
| `workflow` | 2 clients with different access, 2 workspaces, 3 writes, any version may be deleted | `WorkspaceFixed`, `NoLostUpdate` |
| `job` | 1 job, 2 clients, 1 viewer, 1 fault, breaking watches | `RunningJobRecorded`, `DeletedForGood`, `SavedHistoryWhole`, and the liveness properties `EventsGetSaved`, `StreamEnds` |
| `secret` | 2 clients, 2 keys, 4 requests, 1 fault | `OneCreator`, `OtherKeysKept`, and the liveness property `GroupGetsComplete` |
| `workspaces` | 2 clients, an operator, 1 name, 2 requests, 1 fault, 1 broken watch | `QuietListCurrent`, and the liveness property `ListCatchesUp` |
| `volume` | 2 users with different roles, 2 workspaces, 3 requests, 1 change of the list, 1 fault | `OneVolumePerUid`, `AnsweredIsStored`, `WritesByAdmins`, `ReadsByMembers` |
| `compile` | 1289 jobs, of which some are dereferenced against a user who puts, patches and deletes | `MountsFollowWires`, `ConnectedVolumesFound`, `SecretsFollowWires`, `ManifestClosed`, `CrashesOnlyOnBadWiring`, `ReferencesResolved`, `LoadedAsSent`, and the liveness property `CompileEnds` |
| `listing` | 41 queries of the six lists, 3 documents, a write under way, 2 changes by others | `NothingMissed`, `NothingRepeated`, `AsAsked` |
| `saver_panics` | breaking watches, no other fault | violation: the event saver dereferences a nil watch or workflow |
| `secret_stuck` | 1 client, 2 requests, 1 fault | violation: after a PUT that stopped inside `createNewGroup`, a later PUT that nobody disturbs does not complete the group (`PutCompletesGroup`) |
| `volume_result_lost` | jobs with volume results, no other user | violation: a stored volume result comes back as an empty file result |
| `documented_filters` | the filters of the API documentation | violation: `!=` and a plain date are refused |

**Bounds.** `MaxWrites` bounds the write requests: with four, one POST is
followed by three writes of two clients, which is enough for a PUT and a PATCH
to race a second PUT and for each of them to be retried once. A third client
adds no new pair of conflicting requests: each conflict is between the snapshot
of one transaction and the commit of another. Clients of the `component` run
are interchangeable, so it uses symmetry; the `workflow` run has clients with
different access and does not. Jobs are independent of each other except
through a crash or a panic, so one job is checked; two deleting clients are what
the races of DELETE need. `MaxFaults = 1` allows one lost answer, failed save or
crash at any point. The theorems of section 4 hold for every value of these.

Two clients on one secret with four requests allow a creator, a second creator
that loses, and later requests that meet the group half-made or complete; two
keys are what lost updates need. The workspace runs have one name: names meet
only in the queue of callbacks, where one that needs a refresh refreshes all of
them, and theorem `ListIsCurrent` covers any number. Two changes, by clients or
an operator, are enough for one to happen while the list of the first is being
made or its callback is queued, beside the list made at the start, and one
broken watch hides either of them. Runs with liveness properties use no symmetry.

Three requests on volumes are a POST and two that race each other on its volume, or
two PUTs that both insert a made-up uid, and one that meets the two volumes;
two workspaces allow a volume to be moved, and one change of the list falls
between any two steps. The users and settings of `MCVolumeStore` cover a plain
member, an administrator, an owner, a list of two roles of which a user has one,
and an empty list of roles, which gives nobody access.

The catalogue of `MCJobCompile` has five groups. Volumes: a root graph of a
brick, a graph of two bricks and a map, with every wiring from two volumes and
from each other, circles and missing wires included, and some with missing or odd
values. Secrets: crossed and renamed on the way into a brick, a graph and a map,
with and without a value. Data: every pair of types at the two ends of a mapping
and of an edge, the second node of each of the four kinds, through both entries.
Odd ones: branches with different ports or missing, nodes that are not inline, no
kind, no uid. References: with and without versions, at the root, in maps, graphs
and conditionals, to components that are there, are not, are not yet, or come to name each
other. A volume walk takes at most as many steps as a graph has nodes, so with
the three nodes of the root graph one step too few is a difference that shows.
`MaxDeletes = 1`: one DELETE between the two queries of a look-up is the case
there is; `MaxDepth = 5` is deeper than any job of the catalogue without a
circle of references.

A walk of `MCListing` takes pages of one or two items, so that two changes
fall between any of them: writes, deletions, and a write overtaken by one
with a later timestamp. The conditions under which `NothingMissed` and
`NothingRepeated` are claimed all occur otherwise as well, and without them TLC
finds violations.

**Deadlock.** It is checked for the document, secret, compile and listing runs
(in the last two a job or walk that has ended stutters). The job runs
switch it off: when every job has been deleted or lost its saver and nobody
sends a request, the system has really stopped. So do the workspace runs: with
no config map left and no request, an informer has nothing to do; and the volume
run, which ends when its requests are used up.

**Assumptions on the environment**, each a constant that can be turned off:

* `SameMillisecond = FALSE`: two writes get different timestamps. With `TRUE`,
  TLC finds an edit that is overwritten unseen (`NoLostUpdate`): the
  optimistic lock is the timestamp alone, truncated to milliseconds.
* `DeleteLatest = FALSE` in `component`: clients delete only versions that have
  a successor. With `TRUE`, no document carries the tag after the newest
  version was deleted, two concurrent PUTs then have no document in common, do
  not conflict and insert the same version number (`VersionsUnique`).
* `MovingPatch = FALSE` in `workflow`: a PATCH names the workspace the workflow is
  in. With `TRUE`, it moves the newest version to another one (`WorkspaceFixed`).
* `WatchErrors = TRUE` in `job`: a watch that breaks ends the process, see
  `saver_panics`, and what the savers of that process collected is lost, which
  `EventsGetSaved` allows for.
* `listing` has distinct timestamps.

**Fairness.** In `job`, `OpenWatch`, `Receive` and `SaveEvents` are
weakly fair: they are the goroutines of the server, which the Go runtime
schedules, waiting for an API server and a database that answer. Nothing is
assumed of clients, of the controller (a workflow may run for ever) or of
faults. In `secret`, the steps of a PUT that has begun (`PutStep`) are
weakly fair, for the same reason; `GroupGetsComplete` excludes a request that
was stopped, which is what `secret_stuck` is about, under the same fairness. In `workspaces`, the
goroutines of the informer (`Relist`, `Deliver`), the listener (`Callback`) and
the steps of `UpdateConfigMaps` are weakly fair; requests and operators are not.
In `compile`, the steps of the handler (`Server`) are weakly fair: they wait for
nobody but the database. `Fairness` says so without ENABLED (the handler ends or
takes steps for ever), because evaluating whether `Transpile` is enabled would
translate the job once more in every state.

## 4. Theorems

TLAPS proves these for every set of clients, workspaces, users, jobs, viewers and
keys, for any number of requests, faults and broken watches, those about lists for
every collection and every query, and those about dereferencing for every job, every
set of documents, and every way to read and to translate them.

| Theorem | States | Inductive invariant |
|---|---|---|
| `TypeCorrect` | `VersionedStore!TypeOK` is invariant | `TypeInv`: the types, and bounds on the version numbers a request carries |
| `VersionsStayUnique` | `VersionsUnique` is invariant, if `~DeleteLatest` | `HistoryInv` |
| `OneNewestVersion` | `LatestTagOnNewest` is invariant, if `~DeleteLatest` | `HistoryInv` |
| `WorkspaceStays` | `WorkspaceFixed` is invariant, if `~MovingPatch` for workflows | `PlaceInv` |
| `PatchLosesNothing` | `NoLostUpdate` holds of every step, if `~SameMillisecond` | `IdInv`, `StampInv` |
| `PatchRewritesLatest` | `OnlyLatestPatched` holds of every step, if `~DeleteLatest` | `HistoryInv`, `IdInv` |
| `VersionsConsecutive` | `NewVersionIsNext` holds of every step, if `~DeleteLatest` | `HistoryInv` |
| `StoreImplementsHistory` | `ImplementsHistory`, if `~DeleteLatest` | `HistoryInv`, `IdInv` |
| `JobTypeCorrect` | `JobLifecycle!TypeOK` is invariant | itself |
| `RunningJobsRecorded` | `RunningJobRecorded` is invariant | `DeleteSafe` |
| `DeletedStaysDeleted` | `DeletedForGood` is invariant | `DeleteSafe` |
| `HistoryIsWhole` | `SavedHistoryWhole` is invariant | `HistorySafe` |
| `NobodyWaitsInVain` | an open watch on a completed workflow has a completed phase in its queue (`CompletionOnItsWay`) | itself |
| `SecretTypeCorrect` | `SecretGroup!TypeOK` is invariant | itself |
| `GroupCreatedOnce` | `OneCreator` is invariant | `CreatorInv` |
| `UpdatesKeepOtherKeys` | `OtherKeysKept` holds of every step | `ReadInv` |
| `GroupNotAbandoned` | `GroupAttended` is invariant while `faults = 0` | `CreatorInv`, `GroupInv` |
| `WorkspaceTypeCorrect` | `WorkspaceCache!TypeOK` is invariant | itself |
| `ListIsCurrent` | `QuietListCurrent` is invariant | `CacheInv` |
| `VolumeTypeCorrect` | `VolumeStore!TypeOK` is invariant | itself |
| `UidsUnique` | `OneVolumePerUid` is invariant | `UidInv` |
| `AnsweredMeansStored` | `AnsweredIsStored` holds of every step | `ReplaceInv` |
| `OnlyAdminsWrite` | `WritesByAdmins` holds of every step | `AccessInv` |
| `OnlyMembersRead` | `ReadsByMembers` holds of every step | `AccessInv` |
| `DereferenceTypeCorrect` | `Dereference!TypeOK` is invariant | `Inv` |
| `WholeJobResolved` | `ReferencesResolved` is invariant | `Inv` |
| `EachNodeOnce` | no step replaces a component that was dereferenced (`DereferencedOnce`) | `Inv` |
| `ListingTypeCorrect` | `Listing!TypeOK` is invariant | `WriteInv` |
| `PagesAsAsked` | `AsAsked` is invariant | `PageInv` |
| `PagesDontRepeat` | `NothingRepeated` is invariant | `WriteInv`, `RepeatInv` |
| `PagesMissNothing` | `NothingMissed` is invariant | `WriteInv`, `FirstInv`, `MissInv` |

*VersionsStayUnique, OneNewestVersion.* Uniqueness of version numbers is not
inductive: nothing in `docs` says why two PUTs that hold the same snapshot cannot
both commit. The invariant says of every snapshot what it says of `docs`
(`Lineage`: numbers are unique and the tag is on the newest document). A PUT pulls
the tag from the newest document of its snapshot and commits only if that very
document, tag included, is still stored; since the stored tag is on the newest
version, the PUT has then seen the newest version. `Known` and `ClientInv` say
what a PATCH may write: the documents clients hold carry no number above the
stored ones, and without the tag a smaller one, so a body with the newest number
carries the tag. The proof does not use the timestamps: the theorems hold whatever
the clock does.

*PatchRewritesLatest, VersionsConsecutive, StoreImplementsHistory.* `IdInv` says
that stored documents differ in their `_id`, which is the number of the write that
inserted them, and that a PUT on its way has a number of its own: it tells a document
that was rewritten from one that appeared. Together with `HistoryInv`, the document a
PATCH replaces carries the tag and is therefore the newest stored one, not only the
newest of its snapshot, and the number a PUT gives out is one above the highest
stored. Each kind of commit then maps to one step of `VersionHistory`, and everything
else, retries and abandoned requests included, to none.

*PatchLosesNothing.* `StampInv` says that the timestamp of a document, whether
stored, in a snapshot or in the hands of a client, tells which write produced it, and
that the timestamp a PATCH compares is that of the contents it was edited from.
This is what `SameMillisecond` breaks, and nothing else is assumed: versions may
be deleted in any order.

*WorkspaceStays.* The check of PUT is made on a document that may be gone when
the transaction starts. `PlaceInv` says that all documents there are, stored, seen in
a snapshot or held by a client, are in one workspace, and that a PUT past its check
is about to store into it.

*RunningJobsRecorded, DeletedStaysDeleted.* The document is removed before the
workflow. `DeleteSafe` says that the document is stored from the first step of the
submit on and as long as the workflow has not finished (`DocumentInv`), that a
DELETE past its check is about a workflow that has been created, is not running
and will not run again, and that before its last step the document is gone
(`DeleteInv`), and that a job that is gone is past its submit (`GoneInv`), so
nothing creates it again.

*HistoryIsWhole.* `HistorySafe` describes an event saver: while it listens it
has collected unfinished phases only, and when it is about to save, the last
phase it has is completed. It needs nothing of the order in which events
arrive, because the loop stops at the first completed phase.

*NobodyWaitsInVain.* This is what makes `StreamEnds` and `EventsGetSaved` a matter of
fairness alone. `CompletionOnItsWay` is inductive: a watch begins with the object as
it is, every change of a phase is appended to the open watches, a DELETED event
carries the completed object, and a turn of the loop that goes on has taken an
unfinished phase from the front.

*GroupCreatedOnce.* `CreatorInv` adds that the role exists while somebody is
past it; a second request cannot get past it then, since creating it fails.

*UpdatesKeepOtherKeys.* The step alone does not show it: a request writes back
what it read earlier. `ReadInv` says that resource versions only grow and that a
request holding the stored one holds the stored data, so an Update that is not
refused changes nothing but its own key.

*GroupNotAbandoned.* `GroupInv` says, while `faults = 0`, which objects exist at each
step of the request that is past the role: exactly the ones before its next. With
`OneCreator` nobody else makes them, so this request never fails on an object that
exists. The theorem says that it takes a request that is cut off to leave a group
begun and attended by nobody (`GroupAttended`). That is no fault by itself; the run
`secret_stuck` shows what the code then makes of it: a later PUT either fails at the
role, which exists, or finds the secret and never creates the service account. With a
`createNewGroup` that goes on past what exists, and a check that asks for the whole
group, TLC finds `PutCompletesGroup` satisfied.

*ListIsCurrent.* `CacheInv` follows a change along its way. While the watch is
open, the newest version the informer was told of is the stored one
(`ChainInv`). Two versions of a config map with the same resource version are
the same (`VersionInv`), so a callback that `UpdateFunc` ignores for that reason
brought nothing new. At most one thread is inside `UpdateConfigMaps`
(`MutexInv`). And unless a refresh is still to begin, the last list made,
whether assigned or about to be, is that of the index (`ListInv`); without the
mutex, an older list could be assigned after it. The theorem speaks of config
maps that have the label or are gone: for a config map that loses the label the
statement is false, since `UpdateFunc` looks at the label of the new version
only and does not refresh.

*UidsUnique.* Look-up and write are two calls, so the invariant has to say of every
request between them what its look-up has shown, and what has become of it since.
`UidInv`: a stored volume has a uid that a POST gave out or a client made up, and one
of the former stays stored until a DELETE (`PostedInv`); the uid of a POST under way
is its own and not yet stored; a PUT inserts one that was given out only if it was
deleted, and one that has been stored since the look-up only if it was `raced`
(`OwnUid`); requests have different numbers (`OwnNumber`). The look-up and the insert
do race: TLC finds states in which a uid is stored twice.

*AnsweredMeansStored.* `ReplaceInv`: a request about to replace is about a uid that
is stored, or was deleted at some time, or a call has failed. MongoDB reports no error
when a replacement matches nothing, so the answer alone shows nothing.

*OnlyAdminsWrite, OnlyMembersRead.* The list of workspaces is read twice in a
request and may change between. `AccessInv` says that the lists used are among those
there were since the request began, and what each check that was passed has shown
under one of them.

*Listing.* `MatchingFits` and `ConditionsOfParts` show that the pipeline matches
what the documented operators mean, for any split of filters into parameters and
parts, and `PlaceByTime` that a document of a list sorted by time stands at the
position which is the number of documents asked for that are not after it (or not
before it). `WriteInv` says that a timestamp is given once: a document that has left
the collection, by DELETE or PATCH, never comes back as the same.

*PagesDontRepeat.* Oldest first, deletions and patches only move a document
forward, and new ones go to the end, if they are not overtaken. `RepeatInv` says
that every document shown before and still there has at most `offset` documents up
to it; the next page begins behind it.

*PagesMissNothing.* Newest first, writes only move a document back, as long as none
leaves the list. `MissInv` says that a document of the first page's list that is not
touched and not shown has more than `offset` documents from it on. A PATCH removes
one and adds a newer one, so the count does not shrink. The access of the user may
change and change back between two pages, in which the history variable `lost`
looks at another list; `FirstInv` therefore keeps that a request that has not begun
still has the context of the last page.

*WholeJobResolved, EachNodeOnce.* `Inv` has six parts. `TreeInv`: the parts are a tree
of paths from the root, and the entries of `todo` have different paths, outside the
tree and just below it. `FringeInv`: every node of a part has its own part or is in
`todo`; so when `todo` is empty, the tree is the whole job, however deep. A component
that takes the place of a node therefore takes a path of its own, and its nodes get
paths nobody has (`NewPaths`). `ResolvedInv`: every part is what its node holds or
names (`StandsFor`). `StoreInv`: the newest version of every component has a content
that was the newest since the job came. `FindInv` is about the two queries of
`GetComponent`: whatever version the first one found, what is stored under it when
the second one is made was the newest at some moment since the job came. It survives
a PUT, which leaves that version as it is, a PATCH, whose content becomes the newest,
and a DELETE followed by a PUT that uses the number again; after a DELETE alone the
component is not found, and `PhaseInv` keeps the reason.

All assumptions used are the named ones of the modules (`ConstantsAssumption`,
`JobAssumption`, `SecretAssumption`, `WorkspaceAssumption`, `VolumeAssumption`,
`SettingsAssumption`, `JobsAssumption`, `ComponentsAssumption`; `WalkAssumption`, `FirstAssumption` and `ListsAssumption` of
`Listing`, which say what the handlers and the regular expressions let through and
that the documents at the beginning were written one after the other), and
`~DeleteLatest`, `~SameMillisecond` or `~MovingPatch` where the
theorem says so. TLC evaluates the assumptions in every run, and has checked the
inductive invariants on small instances too.

## 5. Only model-checked, and not modelled

Checked by TLC only: what the translation makes of a job and what the conversions make
of a document (`MountsFollowWires`, `ConnectedVolumesFound`, `SecretsFollowWires`,
`ManifestClosed`, `CrashesOnlyOnBadWiring`, `LoadedAsSent`), since they are recursive
definitions, which no module with a theorem may reach, and what a recursive definition
computes needs induction over data, out of the prover's reach; and the liveness
properties `EventsGetSaved`, `StreamEnds`, `GroupGetsComplete`, `ListCatchesUp` and
`CompileEnds`, since fairness is out of the prover's reach too. Of the first three the
safety part is proved (`NobodyWaitsInVain`, `GroupNotAbandoned`). Every other property of
a passing run is a theorem.

Not modelled: authentication (a library checks signatures), the validation of
documents against JSON schemas (a library again), start-up and the tools
`dereference` and `validate`, the status of a job (one read), and the unused
`storage/local.go`. `version.previous`
is always the number minus one and is left out of the documents.
`ListWorkspaces` reads the list without the mutex that protects its assignment,
a data race on a value of several words; the model reads and assigns it in one
step, so a torn read is not in it.

Behaviour that the models show and no run of its own reports. Against what the
repository says ("Create new version of existing component object",
`models/spec/flowify.json:454`; "recognized as such, it is required to set the
label", `README.md:164`): PUT of a component does not look whether the component
exists, and begins again with version 1 after its only version was deleted; PUT of
a workflow does look, "make sure we have read access and the wf exists"
(`storage/mongo.go:1150`), but before its transaction, so that after a DELETE in
between it does the same; a config map that loses the workspace label stays listed
until another event refreshes the list; an Update that finds no config map because
a Create has not made it yet overwrites it without its label; a conflict ends the
PUT of a secret at its first try, since the function given to the retry loop
returns it as an error. PATCH of a workflow moves it to another workspace, which
PUT refuses ("cannot move workflows from workspace", `storage/mongo.go:1158`). The
transpiler says that a uid "is required to be unique and non-zero"
(`transpiler.go:403`) and checks the second only: of a component that is used
twice the first template is kept, and the second use mounts the volumes of the
first. Where no line promises otherwise: a PUT of a volume that is deleted between
look-up and write answers 204 and stores nothing, two overlapping PUTs of a uid that
no POST gave out, or that was deleted, may both insert it, after which GET, PUT and
DELETE take either of the two, and a POST whose look-up fails answers 201 and stores
nothing; PUT and DELETE of a volume are authorized for the workspace of their
path, which need not be the one the volume is in (a PUT moves it, which
`volumestorage_test.go` expects); a DELETE of a job whose last call fails leaves
the workflow without its document, and no later DELETE can succeed, because it
looks for the document first; a submit that fails leaves its document behind; a
Create of a workspace that fails or panics after the namespace leaves the
namespace, which makes the next Create fail; a Delete that fails after the
namespace leaves a listed workspace that no later Delete removes once the
namespace is gone. Conditionals are stored and then always refused at submission,
since dereferencing does not know them (the tool translates them); an array into a
conditional of a graph is dropped with an error that is made and not returned; of
several arrays into one node only the last is looped over; a conditional whose
second node is a reference without a version is read with the version of the
first. A limit of zero is accepted and then refused by MongoDB. The workspace
handlers also write their success message after an error message, since they do
not return; responses are not part of the model.

## 6. What could follow

1. For the cache, a specification in which the list is at any time a state the
   labelled config maps have been in, and the proof that `WorkspaceCache`
   implements it. This takes a history of the config maps, which the model does not
   keep.
2. The users of `Dereference` as steps of `VersionHistory`. They are freer than it
   now: they may delete the newest version, whose number is then used again.
3. The list of workspaces a user is shown, and the check before a workspace is
   created, in `Access`.
