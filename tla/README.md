# A verification of jsonnet-controller

jsonnet-controller keeps the objects of a Kubernetes cluster as a jsonnet program renders them. A
user writes a `Konfiguration`; the controller fetches a source artifact, evaluates the program,
applies what it renders with server-side apply, prunes what it no longer renders, checks health and
reports in the status. This directory holds TLA+ models of that controller, TLC configurations that
check them on small instances, and TLAPS proofs of what matters most for every instance.

## The system

| component | source | state | operations |
|---|---|---|---|
| reconciler | `controllers/konfiguration_controller.go` | the pass in hand: its copy of the Konfiguration, the revision, the rendered objects | `Reconcile`, `reconcile`, `reconcileDelete`, `checkHealth` |
| queue, watches, predicates | `SetupWithManager`, `konfiguration_indexers.go`, `source_predicate.go` | keys queued, keys waiting for `RequeueAfter`, the informer cache | generation changes, source revisions, errors |
| status | `api/v1beta1/konfiguration_status.go` | conditions, revisions, snapshot at the API server | `SetProgressing`, `SetReady`, `SetNotReady`, `SetNotReadySnapshot`, `patchStatus` |
| snapshot | `api/v1beta1/snapshot_types.go` | checksum and kinds per namespace | `NewSnapshotFromUnstructured`, `NamespacedKinds`, `NonNamespacedKinds` |
| resource manager | `pkg/resources/manager.go` | the objects of the cluster, their labels and checksums | `ReconcileUnstructured`, `serverSideApply`, `Prune` |
| source | `controllers/konfiguration_source.go` | the source's artifact | `prepareSource`, `downloadAndExtractTo` |
| dependencies | `controllers/konfiguration_dependencies.go` | the status of other Konfigurations | `checkDependencies` |
| builder | `pkg/jsonnet/builder.go`, `json_walk.go`, `object_sorter.go`, `output.go` | the rendered objects | `Build`, `checkNamespace`, `SortedObjects` |
| importer and HTTP cache | `pkg/jsonnet/importer.go`, `cache.go` | files in the cache directory, shared by the workers | `Get`, `tryLocalCache`, `writeToCache` |
| health | `pkg/healthcheck/healthcheck.go` | the poll in hand | `Assess` |
| dry-run handler | `controllers/konfiguration_validate.go` | an HTTP request and its copy of the Konfiguration | `DryRunFunc` |
| impersonation | `pkg/impersonation/impersonation.go` | none; it reads secrets and a service account | `GetClient` |
| diff | `pkg/diff`, `pkg/util/json`, `pkg/util/endpoints` | none: a function of two documents | `Diff`, `Normalize`, `ThreeWayDiff` |
| events, metrics, native functions, command line | `controllers/konfiguration_event.go`, `pkg/...`, `main.go` | none that lasts | |

How they meet: the queue hands a key to one worker at a time; the worker reads the Konfiguration
from the informer cache, which trails the API server; it writes the API server (finalizer and
status) and the cluster (objects) in many separate calls, each of which may fail; the writes come
back as watch events that fill the cache and may queue the key again. The snapshot in the status is
the only memory from one pass to the next: pruning lists the kinds it names and deletes what does
not carry the new checksum in its label. The finalizer is the only thing that keeps the
Konfiguration until its objects are gone.

What is hard, and what makes each part correct:

- a pass is some twenty remote calls and may fail, or lose its process, between any two. Objects are
  labelled only under the finalizer; a kind leaves the snapshot only when no orphan of it is left;
  Ready means what it says; every failure is made up for;
- the copy a pass works from may be old. A conflict on `Update` protects the finalizer, nothing
  protects a status patch, which is the difference between the pass's status and the cache;
- pruning and applying read each other's labels. A pass must not prune what it just applied, also
  when the dry run let it skip the apply;
- objects depend on objects (namespaces, definitions) while the dry run and the build look at the
  cluster as it was;
- a dry-run request reports a source it cannot use in the status of the Konfiguration it names, next
  to the passes of the worker;
- builds of several workers share a directory of cached imports and no lock. One build must see one
  content of a file; what an earlier build left behind must not fail every later one;
- the order of a Go map must not get into a checksum, and a kind must not get lost on the way from
  the rendered value to the snapshot, which is all a pruning goes by;
- the diff must see every drift and must not see one in what the API server filled in.

## The modules

| module | what it models |
|---|---|
| `KonfigurationStatus` | the status record, each setter as an operator, and the merge patch it is sent as |
| `ResourceManager` | the decisions about one object: apply or leave, admitted, invalid, prunable; and what apply and delete do to the cluster |
| `Reconciler` | the state machine of one Konfiguration, its worker and everything around it; its properties |
| `MCReconciler` | instances: objects, kinds, manifests, budgets |
| `ReconcilerProofs` | theorems about `Reconciler` |
| `Lifecycle` | the abstract specification: what the controller promises about one Konfiguration and its objects |
| `HealthCheck` | one assessment: poller, collector, observer, timeout |
| `Operations`, `MCOperations` | `Reconciler` composed with `HealthCheck`, the impersonated client and the dry-run requests |
| `OperationsProofs` | theorems about `Operations` |
| `ReadyProofs` | what Ready means, proved of both |
| `Scheduling` | several Konfigurations: the work queue and its workers, the watch of the source, the check of the dependencies |
| `MCScheduling` | its instances |
| `SchedulingProofs` | its theorems: about the dependencies, and about the queue |
| `Diff` | the verdict of `pkg/diff` as operators on documents |
| `Drift`, `MCDrift` | one rendered object and its counterpart in the cluster, pass after pass, with the document of each |
| `DriftProofs` | lemmas on paths and patches, and the theorems about `Drift` |
| `Rendering` | the walk, the lists, the namespaces, the order and the snapshot as operators |
| `Imports` | the builds of several Konfigurations up to the evaluation: candidates, the importer's cache, the cache directory, the remote site |
| `ImportsProofs` | theorems about `Imports` |
| `Builds`, `MCBuilds` | `Imports` and `Rendering` composed: whole builds and what they end with |
| `DataLemmas` | induction, sums, the concatenation of lists, permutations: lemmas without a word about the code |
| `BuildsProofs` | theorems about `Builds` |

`ResourceManager` extends `KonfigurationStatus` and `Reconciler` extends that; `Scheduling` extends
`KonfigurationStatus` alone. `Reconciler` sees one Konfiguration and every call of its pass, and a
dependency that is not ready as a fault; `Scheduling` sees many Konfigurations and takes what a pass
does between `SetProgressing` and its outcome as one step. `Reconciler` takes from an object whether
it is up to date and from a revision which objects it renders in which order; `Drift` and `Builds`
look into the one and the other.

### How the state corresponds to the code

The Konfiguration appears three times: `api` at the API server, `cache` in the informer cache that
serves `r.Get`, and `konfig`, the worker's copy. `gen` is the generation; it grows over a
re-creation as well, so that it stands for the UID too, and an `Update` goes through only if the
copy is the one stored (`UpToDate`). A status patch is two calls: `ReadBase` reads the cached status
into `base`, and the step that patches (`Patch`) lays the difference between the pass's status and
`base` over what the API server has by then, field by field (`MergePatch`). `conditions` is one JSON
list and travels whole. A condition keeps the second of its last transition, since a difference in
it is a difference of the list.

`cluster` maps each object to whether it is absent, live or terminating, the checksum label of the
snapshot it was applied for, whether a managed field drifted, and whether it is exempt from pruning.
A kind is a kind within one namespace, as a snapshot's entries group them. Every object gets the
checksum of the whole manifest as a label before its own checksum is taken, so that one stands for
the other.

`pc` is the call the pass does next. Each action is one remote call with everything the code does up
to the next one: `AddFinalizer`, `PrepareSource`, `CheckDependencies`, `SetProgressing`, `Build`,
`DryRun` and `Apply` (one object each), `PruneList` and `PruneDelete` (one kind, one object),
`CheckHealth`, the two patches of `SetReady` and of `SetNotReadySnapshot`, `RemoveFinalizer`; each
patch has its `ReadBase` before it, at the same `pc`. The branches that end in `SetNotReady` and an
error go to `"failed"`, then `ReturnAfter`. `queued` is the key in the queue or marked dirty while
it is worked on; `timer` is a `RequeueAfter`.

Around the worker: `CacheSync`, `TimerFires`, `SourceChanges` (predicate, index and the comparison
with the attempted revision), a user who creates, edits and deletes, `Drift`, the end of a deletion
with finalizers, and a `Crash` that loses the pass and lists everything again.

In `Scheduling` the queue is a sequence of keys; `again` holds the keys added during their own pass,
which the queue of client-go marks dirty and adds when the pass is `Done`. `CheckDependency` is one
round of the loop, one read of the cache; the passes of other keys go on between two rounds.
A source event adds several keys: those that are new to the queue (`Fresh`) join it in an order
`dependency.Sort` may return (`Sorted`). It returns an error when two dependents of the event need
each other (`Tangled`), upon which `requestsForRevisionChangeOf` requests nothing for anybody. `Trailing`
names the Konfigurations whose cached copy may be old. Finalizers, deletions and snapshots are left
to `Reconciler`, and `cluster` is the revision a Konfiguration's objects are at.

`Lifecycle` has four variables: the phase of a Konfiguration, the live objects pruning may find, the
kinds the snapshot names and whether a deletion collects. Its controller may own objects only in the
phases with a finalizer, and may release a Konfiguration that collects only when none of them is of
a tracked kind. `Promise` in `Reconciler` maps the one onto the other; every status patch, forced
re-creation, drift and restart is a step of it or none.

In `Operations` the pass of `Reconciler` goes on only together with what it waits for: `Pass` holds
the build and a deletion that prunes until `GetClient` finds what it needs (`credentials`), and the
outcome of `CheckHealth` until the assessment is `done`. `Poll` is the assessment by itself: events
may still come after the observer cancelled, and so may an error or the timeout. `request` is the
dry-run request in hand, one at a time. Its Konfiguration is as a user wrote it, without a status;
the status patch `prepareSource` sends for it is a Get and a Patch (`GetStored`, `PatchStored`), and
what happens in the worker falls before, between and after them, as they fall between the worker's.
The request's build and answer change nothing and are one step.

In `Diff` a document is a JSON value as a tree: a function from its paths to what is found there, a
map, a list, a null or a scalar. The code recurs over two values at once; the operators say the same
of the paths of two trees. `removeFields`, say, drops what is in a map of the live object and not in
the configuration, where all that leads there is alike in both (`Removed`). Kinds of the scheme are
patched by a strategic merge patch and others by a JSON merge patch, as `threeWayMergePatch`
chooses; patches are documents, too. What the API server stores (`Stored`) has the defaults of its
list items and no nulls, and of a Secret no `stringData`. `Drift` keeps with the live object the
document its checksum is of, the one whose fields the controller owns and the one kubectl last
applied.

In `Imports` the content of a file is a sequence of blocks, each of the version it was written from,
so that a file cut off, empty or mixed of two versions is a content of its own. `OpenFile` truncates
and `WriteFile` writes, in the order and without the lock of `ioutil.WriteFile`; a reader may come in
between. What the jsonnet interpreter makes of the imported contents is the constant `Document`, a
value of `Values`, which holds the values in its values; `Height` says how deep each nests. `Walks` of
`Rendering` is the set of all sequences `jsonWalk` may return, one for each order its maps may be
visited in, and `Sorts` is all that `sort.Sort` may make of one, which promises nothing of the order of
objects that tie (`Less`: two namespaces or definitions by their names, all others by namespace and
name). `result` is how the last build of a Konfiguration ended (`Ends`); `output`, which only `Builds`
has, is the contents it was evaluated with and the snapshot it ended with.

In `Reconciler` a manifest is a set of objects with a fixed order (`Rank`), and its checksum is a
function of the revision; `Builds` checks when that is so. Wording, events, metrics, intervals and
logging are left out.

## What TLC checks

| run | instance | shows |
|---|---|---|
| `core` | two objects, one immutable, slow to go and re-created by force, the other there before; health checks that may fail; four of all kinds of events | `TypeOK`; `PruneSparesManifest`; `ReadyMeansRecorded`: the revisions and the snapshot of a Ready status are of one revision, wherever a pass stopped between its patches; `SnapshotCoversUntilPruned`: no kind leaves the snapshot while a live orphan of it is there; `Converges`, `DeletionCompletes` |
| `stale` | two free objects of one revision, a cache that trails; three of three edits, a fault and a restart | `KeepsPromise`: every step is one of `Lifecycle`; `AppliesUnderFinalizer`, `FinalizerHeldUntilPruned`, `DeletionCompletes` |
| `operations` | a definition and an object of its kind, health checks on both, a kubeconfig secret, a dry-run request; three of two edits, a source change, two faults and a restart | `OpsTypeOK`; `ReadyMeansInstalled`: the objects are in the cluster whenever Ready is True; `NoReadyWhileApplying`: it is not True while a pass is at them, whichever patches of the request come between the worker's Gets and Patches; `FinalizerHeldUntilPruned` also without credentials; `HealthyMeansCurrent`; `UnansweredUntried` |
| `dependencies` | `app` depends on `base`, whose cached copy may be old; two workers | `TypeOK`, `DependenciesFirst`, `NeverForgotten`, `OnePassPerKey` |
| `settles` | the same and a cycle `x`, `y`; one worker, a revision that appears or goes | `CyclesWait`, `ReconciledOverReady`, `Settles` |
| `drift` | an object of each kind the diff tells apart, two revisions, two edits by hand or by kubectl | `TypeOK`, `UpToDateMeansApplied`: no drift goes unseen; `SettlesUnlessFilledIn`: what was applied is found up to date but for two named cases |
| `builds` | `app` imports a library by its search urls and again by the url it is found at, `crds` the same by another url, an internal file and a YAML file as data; two versions of a file, one fault | `TypeOK`, `OneContentPerBuild`; `EveryImportAnswered`: a program is evaluated with an answer to each of its imports, and no file outgrows its versions; `EveryObjectOnce`, `SnapshotCovers`, `NeededFirst`, `SameChecksum`, `ImportsRecover` |

Bounds. Events outside the worker's steps are limited by `Budget` (edits, source changes, failing
calls, drift, crashes; `MCReconciler`) kind by kind and by `MaxEvents` in all, the steps of the
worker are not. Two objects of two kinds and two revisions are what the properties need: one object
that stays and one that is dropped, one kind that stays in the snapshot and one that leaves. Two
edits are a creation and a deletion or an edit; `stale` has a third for the re-creation. One fault
may hit any call, one crash any point; `operations` has two faults, so that a call may fail in the
pass that makes up for another, or a secret be gone as well. `MaxEvents` cuts off only behaviours in
which more of these come together than any of the properties relates: a creation, a change, and what
goes wrong with it. `Stamps` are the seconds a condition may change at; one is the worst case for
the merge patch. The properties that need no fault, and those that need no drift, say so by their
budgets. The deadlock check is off where a system may stop: a Konfiguration that is suspended or
gone leaves nothing to do.

`ReadyMeansInstalled` is checked where objects go at once. With one that lingers there is an exception,
in the list below. `ReadyMeansRecorded` is checked where nobody but the worker writes the status,
since next to dry-run requests it does not hold (below). `stale` has one revision: what a trailing
cache can do to the finalizer and to a deletion needs no second.

`Scheduling` needs one pair that depends and one cycle; users create the Konfigurations in any order
and at any time. `settles` takes one worker because two of its properties need it: with two, `base`
may have begun a pass of its own between the check of `app` and its apply, and TLC finds a schedule
in which every check of `app` falls into a pass of `base`, which makes Ready Unknown at every
interval. Nothing in the code excludes that schedule; only the lengths of its timers make it unlikely.

`drift` takes for each kind the documents in which its normalization, its patch or the API server's
defaults make a difference, and for each the edits a field, a list or an annotation can suffer; a
second edit may undo or follow the first. `builds` has two writers of one file and a reader of
another, two versions of different lengths, so that a shorter one over a longer leaves a mixture, and
at most one crash, outage or failed write.

Fairness (`Fairness` of `Reconciler`): the worker goes on while it has something to do, an elapsed
`RequeueAfter` queues the key, the watch delivers, an object that is deleted goes. These are the
queue's, the informer's and the API server's promises. Nothing is assumed of users, sources or
faults: their budgets run out. Under a trailing cache `Converges` is not claimed: a cache that
trails through a whole pass within one second makes the patch that says Ready empty. So what goes
wrong only because a cache trails, a patch that is made from an old status or a source event that
finds no status to compare with, is in the models but is no hazard a property of `core` would catch.
In `Builds` a build goes on to its end and a Konfiguration is built again (its interval); the
fairness is of the steps of `Imports` alone (`ImportStep`, `Ends`), whose variables leave out the
output: an end of a build is the same step whatever it ends with. `ImportsRecover` assumes of the
site what its antecedent says, and that no torn file stays.

### Where the code does not do what it says

Each of these runs violates one property on purpose.

- `orphan_after_fault`: `ReadyMeansPruned`. The snapshot is recorded at the end of a pass that got
  through. A pass that applied `b` and then failed leaves a `b` whose kind is in no snapshot; if the
  source goes back, the next pass is Ready and `b` stays. A Konfiguration deleted at that point
  leaves `b` behind as well.
- `new_namespace`: `Converges`. With validation on, a manifest that creates a namespace and an
  object in it fails its dry run for ever. A definition and an object of its kind fail in
  `checkNamespace` for the same reason, with validation on or off.
- `definition_gone`: `DeletionCompletes`. A deletion prunes one kind after another, in the random order
  of a map. In the run no call fails by itself and there is no conflict: the pass lists the
  definition's kind first and deletes the definition, and then the list of the kind it defined fails,
  in that pass and in every later one. The finalizer stays for good.
- `list_aliased`: `EveryObjectRendered`. Every object of a rendered `List` is its last one.
- `dry_run_erases`: `DryRunSparesSnapshot`. A dry-run request that finds the source without an
  artifact replaces the stored status by its own, which is empty but for Ready: the snapshot and the
  applied revision are gone, and what they named is not pruned by any later pass or deletion.

Met while modelling, without a run of their own:

- A dry-run request may come between the Get and the Patch of the worker's last status patch
  (`konfiguration_status.go:104`, `:111`). Its own patch takes snapshot and applied revision away; the
  worker's brings back what differs from the base it read before, which is Ready alone. The
  Konfiguration says Ready, with all of its objects there, and has neither a snapshot nor an applied
  revision until the next pass. TLC finds `ReadyMeansRecorded` violated so under `OpsSpec`, which is why
  it is claimed of `Spec` only. The loss of the snapshot as such is `dry_run_erases`.
- The patch of `SetProgressing` is empty against a cache that has not seen the last Ready
  (`konfiguration_status.go:47`, `:108`): Ready stays True through the pass. `NoReadyWhileApplying`
  therefore is of a cache that does not trail. The comment promises a single Ready condition; a
  Healthy condition is left in place.
- `r.Update` with the finalizer leaves a false `validate` out and the API server puts true in its
  place (`konfiguration_types.go:108`); `Registered` says so.
- A forced re-creation that fails while the object still terminates, followed by a source that goes
  back: the terminating object has the earlier revision's checksum, passes for up to date, and the
  Konfiguration is Ready while the object goes away. The next interval brings it back.
- A revision that drops a namespace and still renders an object in it prunes the namespace, and the
  object with it, after its apply and is Ready in the same pass (`SelfContained` of `ReadyProofs`).
- `pkg/diff` runs `Scheme.Default`, but the scheme registers no defaulting functions: an object of a
  built-in kind with a list that has no merge key and whose items the API server defaults is drifted
  in every pass (`FilledIn`). So is an object whose kubectl annotation names a field the manifest has
  dropped (`Leftover`).
- The dry-run handler dereferences a nil `lastErr` if its time is over before the first attempt; the
  server recovers and the client gets no answer. It also does not look for `main.jsonnet`.
- `spec.jsonnetPaths` are joined to a new and empty directory, though `konfiguration_types.go:60`
  says that they are relative to the root of the source.
- A torn file in the import cache is never repaired, an error of one candidate ends an import that a
  later one would serve, `http` and `https` share a cache file, and `TrimLeft(.., "lib/")` takes
  letters off the names of internal imports. A YAML file that is read while it is written renders
  fewer objects without an error.
- Two objects of different kinds with the same namespace and name tie in the order, so that the
  checksum of a manifest with both may change from build to build (`Ties`).
- A failed download leaves its temporary directory behind.

## What TLAPS proves

All of it for any objects, kinds, revisions, manifests, budgets and, where nothing else is said,
any lag of the cache, from the assumptions in the modules (checksums are of manifests, ranks are
total, flags are Booleans).

- `TypeCorrect`: `Spec => []TypeOK`, with the revision a pass past its source works on.
- `LabelsUnderFinalizer`: `Spec => AppliesUnderFinalizer`. The argument is `FinalizerInv`: a pass that
  may apply implies the finalizer at the API server (`Held`), and so that nobody but the pass itself
  can make the object go. It is inductive only together with what a trailing cache may still say:
  a cached copy with the finalizer that is not deleting implies `Held` (nobody removes a finalizer
  but a deletion, whose pass is told apart by `Removing`), and a cached deletion implies that the
  stored one is not being served. `OnlyApplyLabels` then leaves one action to look at.
- `PruneSparesManifestAlways`: `Spec => []PruneSparesManifest`. `PruneInv` adds what the apply, or the
  dry run that skipped it, has established of every object behind it: its label is the pass's or it
  is not the controller's. Nobody but an apply can undo that.
- `FinalizerOutlivesObjects`: `Spec => FinalizerHeldUntilPruned`. `RemovalInv` follows the deletion:
  a live object of a kind its snapshot names is on the list of kinds, on the list of items, or the
  pass has failed. `OnlyRemoveFinalizerRemoves` says which step can take the finalizer, and its
  conflict check makes the worker's snapshot the stored one.
- `PromiseKept`: `Spec => KeepsPromise`, the refinement of `Lifecycle`. Each step is one of the abstract
  ones or a stutter: `PromiseCluster` for the steps that touch objects, which need `FinalizerInv`,
  `PromisePatch` for the status, `PromiseRegister`, `PromiseGone`, `PromiseRelease`, `PromiseUser`.
  `ReleaseInv`: a pass that prunes for a deletion has a copy with the finalizer, and one about to
  release it has a copy that is being deleted, too.
- `NotReadyWhileApplying`: `Spec => []NoReadyWhileApplying` where the cache does not trail (`~Lag`).
  `ProgressInv`: the cache is the API server's state, so that the patch of `SetProgressing`, whose base
  is the cached status, always carries the Ready condition, and nothing else writes a status until the
  pass reports. `BaseInv` says that the base, once read, stays the stored status until the patch.
- `SnapshotKeptUntilPruned`: `Spec => SnapshotCoversUntilPruned` where the cache does not trail. Two
  facts meet in the patch that drops a kind (`OnlySnapshotPatches`): the pass's copy has the snapshot
  the API server records (`SnapshotInv`), and past its pruning none of the objects that snapshot names
  is left (`LeftInv`, the twin of `RemovalInv` for a pass that applies).
- `InstalledAfterDependencies`: `Spec => []DependenciesFirst` of `Scheduling`, for any Konfigurations,
  dependencies and workers. `DependencyInv` says that a Ready, wherever it is written (API server,
  cache, a pass's copy), is of a Konfiguration with objects in the cluster, which is why an old
  reading does no harm, and that a pass past a dependency has read such a Ready.
- `OpsTypeCorrect`, `HealthyAlwaysCurrent`, `UnansweredAlwaysUntried`: `OpsTypeOK`, `HealthyMeansCurrent`
  and `UnansweredUntried` of `Operations`. `AssessInv`: only the observer cancels the context, over an
  event after which everything was Current, and an assessment ends by an error or with its context.
  `RequestInv`: an attempt that goes on leaves its error behind.
- `FinalizerOutlivesOperations`: `OpsSpec => FinalizerHeldUntilPruned`. `OpsSteps` splits a composed step
  into one of `Reconciler`, a pass that stops for want of a client, and one beside the pass, which may
  patch a status and nothing more; `FinalizerInv` and `RemovalInv` survive the last two.

- `PruneSparesBesideRequests`, `OperationsKeepPromise`: `PruneSparesManifest` and the refinement of
  `Lifecycle` for `OpsSpec`, at any lag. A request may empty the stored snapshot at any time; that is a
  step of `Lifecycle` under the finalizer and none without (`Untracked`, which holds of every step of
  `Lifecycle` and so needs no look at the controller).
- `ReadyAlwaysInstalled`, `InstalledBesideRequests`: `Spec => []ReadyMeansInstalled` and the same for
  `OpsSpec`; `NotReadyBesideRequests`: `OpsSpec => []NoReadyWhileApplying` where the cache does not trail.
  `PlaceInv` follows the cluster: whatever the dry run or the apply has behind it is live and has the
  new checksum, a forced re-creation takes away only what comes later in the order, and the pruning
  only what no manifest object needs. `StatusInv` follows the Ready condition through both writers:
  from `SetProgressing` to the last patch neither the stored status nor the pass's copy says True, and
  the stored condition is the one the worker's patch was made from, unless a request put its False
  there. So a patch that does not send Ready leaves none that says True. `CleanInv` keeps a label on
  what some revision renders, and `InstalledInv` is the property. The assumptions are the ones the
  property needs:
  - `~Lag`: a cache that trails makes the patch of `SetProgressing` empty (above);
  - `Undisturbed`: nobody else changes the cluster, as Ready says what was applied and not what
    became of it, and objects go at once, for a terminating one passes for up to date (above);
  - `SelfContained`: what an object needs is in every manifest with the object, or in none. A
    namespace that one revision renders and a later one only uses is pruned with all that is in it,
    after the apply of that same pass, which goes on to Ready;
  - `RequiredFirst`: the order has what is needed first, which `NeedsComeFirst` proves of the sort.
- `ReadyAlwaysRecorded`: `Spec => []ReadyMeansRecorded` where the cache does not trail. `RecordInv`:
  before the second patch of `SetReady` the pass's copy has the revision, the checksum and the kinds of
  the pass, and by `BaseInv` what that patch does not send is stored already. With a second writer
  `BaseInv` is lost between the Get and the Patch, and the property with it.
- `CyclesWaitForever`: `Spec => []CyclesWait` of `Scheduling`. `Needs` is the least closed set; it is
  enough that it is closed. The keys that need a cycle (`Knotted`) each depend on one that does, so
  that none can be the first to be installed; `DependencyInv` makes that inductive.
- `ScheduleTyped`, `OnePassAlways`, `NoneForgotten`: `TypeOK`, `OnePassPerKey` and `NeverForgotten`, for
  any number of keys and workers. The queue is a sequence without repetition whose members are not in
  hand (`QueueInv`); lemmas on sequences say what joining, taking the head and adding at the end do
  to the set of its members (`Joined`, `Taken` and the like).
- `ReconciledOnReady`: `Spec => []ReconciledOverReady` with one worker and no cache that trails.
  `SoloInv`: what the pass in hand has read of its dependencies still holds, since nobody but a pass
  takes a Ready away and there is no other.
- `ImportsTyped`, `OneContent`: `ImportsSpec => []TypeOK` and `[]OneContentPerBuild`, for any imports,
  search paths, sites, sizes of files and faults. `GoodBuild` relates what the program was given to
  what the importer remembers, and says that a url on its way through the cache directory or the
  site is not remembered yet.
- `ImportsAnswered`: `ImportsSpec => []EveryImportAnswered`. `AnswersInv` says how far the program is:
  the imports that are left are the end of its list, the candidates at hand the end of those of the
  first one left, and every file and all that is remembered is no longer than some version. Two
  writers of one file keep the last, since each of them truncates it or overwrites its start.
- `BuildsImplementImports`: `Spec => ImportsSpec` of `Builds`, the composition shown to add nothing to
  the steps of the imports; with it `BuildsTyped`, `BuildsOneContent` and `BuildsAnswered`.
- `InputsEnumerated`: the contents a program is evaluated with are among those `Renderings` is taken
  over, so that a build without a snapshot is one the code refuses.
- `EntriesCover`, `NeedsComeFirst`, `ObjectsOnce`, `ChecksumsStay`: `SnapshotCovers`, `NeededFirst`,
  `EveryObjectOnce` and `SameChecksum`, for any program, values of any shape and nesting, REST mapper
  and order of names. `BuildsInv` says that an output is one of those its contents may have (`Sound`);
  the rest is about those. The library's induction theorems cannot be used, but an induction over a set
  of numbers follows from the finiteness of intervals (`Induction` of `DataLemmas`), and with it that
  `Walks` and `Places`, which recur over values, have the equations they are defined by (`Recursion`).
  `WalksFind`, by the height of the value: each walk returns the objects of all places, each place
  once. What is appended for two walks is therefore a rearrangement of one another
  (`OutputsPermuted`), and two sequences in order that rearrange each other are equal if nothing ties
  (`SortedOnce`). `NewSnapshotCovers` is an induction over the objects the snapshot is made of.
- `DriftTyped`, `UpToDateIsApplied`: `Spec => []TypeOK` and `[]UpToDateMeansApplied` of `Drift`, for any
  kinds, documents, edits and defaults of the API server. The second assumes `NoSchemeDefaulting`, as
  `diff.Scheme` registers no function that fills in defaults; one that did could add to both sides
  what only one of them has. The diff computes a patch and compares what the live object becomes by
  it with what it is, so the question is what a patch without effect says. `NothingToAdd`: let c be
  the configuration and f the live object without some fields it has on its own, but with all items
  of the lists it keeps (`OnlyRemoves`). Every path of c that a JSON merge patch could set is in a
  part that f and c share, and then in the live object, or it is in the patch, and then in what the
  patch leaves, which is the live object; and a list that the patch sets keeps no other items. The
  normalizations are the rest: they hide nulls and a Secret's `stringData`, of which a stored
  document has none (`LiveOK`, inductive because every write goes through `Stored`), an empty
  list of rules (`EmptyRoleIsApplied`), and metadata.

Only model-checked:

- the liveness properties (`Converges`, `DeletionCompletes`, `Settles`, `ImportsRecover`): fairness
  and ENABLED are beyond the prover;
- `SettlesUnlessFilledIn` of `Drift`: that an applied object is unmodified depends on the documents,
  as the two exceptions it names show, and is claimed for those of the instance alone;
- the properties on purpose violated, of course.

## Not modelled, and why

- Native functions, certificates, the command line and the documentation generator are
  straight-line code over libraries, and the deep copies are generated.
- Events, metrics and logs report and change nothing.
- A leader election or a second replica: the flag is off by default and one process holds the queue.
- Spec edits other than `prune`, `suspend` and `validate`; labels edited by hand.
- A Konfiguration without `sourceRef`, whose path is a url: it is a pass that skips the source.
- What the identity of an impersonated client may do; several dry-run requests at a time, and one
  whose body carries a status; two Konfigurations over one object.
- In the diff: lists with a merge key, documents that do not decode into their type, the
  `Normalizer` option, which nobody sets, and `DiffArray` and `HideSecretData`, which nobody calls.
- In the imports: a disabled cache, directories in the place of files, the transport's timeouts.

## Plan

1. `Ownership`: two Konfigurations over one cluster; an object that changes hands.
