------------------------------ MODULE Reconciler ------------------------------
(***************************************************************************)
(* One Konfiguration and the worker that reconciles it                     *)
(* (controllers/konfiguration_controller.go): a pass from the work queue   *)
(* through the source, the build, the dry run, the apply, the pruning and  *)
(* the health checks to the status, or through the deletion.               *)
(*                                                                         *)
(* The Konfiguration is held three times: by the API server (api), by the  *)
(* informer cache that serves every typed read (cache), and by the pass in *)
(* hand (konfig).  An Update carries the resourceVersion of the copy it    *)
(* was made from and is refused when the API server holds a newer one; a   *)
(* status patch carries none: patchStatus reads the cached status in one   *)
(* step and sends what differs from it in another.                         *)
(*                                                                         *)
(* The work queue runs one pass at a time for a key, so one worker is      *)
(* enough.  Bounds: Budget[e] limits how often each kind of event e        *)
(* outside the worker's own steps may happen.                              *)
(***************************************************************************)
EXTENDS ResourceManager

CONSTANTS
    Manifest,     \* the objects each revision renders
    Sum,          \* the checksum of each revision's manifest
    Rank,         \* the place of each object in SortedObjects
    Preexisting,  \* objects in the cluster before the controller applies any
    Validations,  \* the values users give to spec.validate
    ForceCreate,  \* spec.force
    Lag,          \* the informer cache may trail the API server
    Budget,       \* how many events of each kind of Events may happen
    MaxEvents     \* and how many in all

\* edit: of the Konfiguration by a user; source: a new artifact or its loss;
\* fault: a call that fails; drift: a change of the cluster by someone else;
\* crash: of the controller.
Events == {"edit", "source", "fault", "drift", "crash"}

ASSUME ManifestAssumption == /\ Manifest \in [Revs -> SUBSET Objs]
                             /\ Sum \in [Revs -> Sums]
                             /\ \A r, s \in Revs : Sum[r] = Sum[s] => Manifest[r] = Manifest[s]
ASSUME RankAssumption == /\ Rank \in [Objs -> Nat]
                         /\ \A o, p \in Objs : Rank[o] = Rank[p] => o = p
ASSUME PreexistingAssumption == Preexisting \subseteq Objs
ASSUME SwitchAssumption == {ForceCreate, Lag} \union Validations \subseteq BOOLEAN
ASSUME BudgetAssumption == Budget \in [Events -> Nat] /\ MaxEvents \in Nat

VARIABLES
    src,       \* the revision of the source's artifact, NoRev if it has none
    api,       \* the Konfiguration at the API server
    cache,     \* the Konfiguration in the informer cache
    cluster,   \* the objects of the cluster
    queued,    \* the key is in the work queue, or dirty while in hand
    timer,     \* the key waits for RequeueAfter to elapse
    pc,        \* where the pass in hand is
    konfig,    \* its copy of the Konfiguration
    rev,       \* its revision
    base,      \* what its status patch has read of the stored status
    todo,      \* objects the dry run or the apply still has to visit
    changed,   \* the dry run's changeset is not empty
    kinds,     \* kinds the pruning still has to list
    items,     \* listed objects the pruning still has to delete
    failed,    \* the pruning met an error
    spent      \* events so far

worker == <<pc, konfig, rev, base, todo, changed, kinds, items, failed>>
vars   == <<src, api, cache, cluster, queued, timer, worker, spent>>

-------------------------------------------------------------------------------
Konfigurations == [exists   : BOOLEAN,
                   deleting : BOOLEAN,   \* has a deletionTimestamp
                   fin      : BOOLEAN,   \* has the controller's finalizer
                   gen      : Nat,       \* generation; grows across a re-creation
                   prune    : BOOLEAN,
                   suspend  : BOOLEAN,
                   validate : BOOLEAN,
                   status   : Statuses]

NoKonfiguration(gen) ==
    [exists |-> FALSE, deleting |-> FALSE, fin |-> FALSE, gen |-> gen,
     prune |-> FALSE, suspend |-> FALSE, validate |-> FALSE, status |-> NoStatus]

NewKonfiguration(gen, prune, validate) ==
    [NoKonfiguration(gen) EXCEPT !.exists = TRUE, !.prune = prune, !.validate = validate]

Steps == {"idle", "finalizer", "source", "dependencies", "progressing", "build",
          "dryrun", "apply", "prune", "health", "ready1", "ready2",
          "unhealthy1", "unhealthy2", "failed", "finalize"}

\* The steps that patch the status.
Patching == {"progressing", "failed", "ready1", "ready2", "unhealthy1", "unhealthy2"}

\* The stored status a patch is made from, once it is read.
Bases == [read : BOOLEAN, status : Statuses]

Unread == [read |-> FALSE, status |-> NoStatus]

Init == /\ src \in Revs \union {NoRev}
        /\ api = NoKonfiguration(0)
        /\ cache = api
        /\ cluster = [o \in Objs |-> IF o \in Preexisting
                                     THEN [Absent EXCEPT !.st = "live"] ELSE Absent]
        /\ queued = FALSE
        /\ timer = FALSE
        /\ pc = "idle"
        /\ konfig = NoKonfiguration(0)
        /\ rev = NoRev
        /\ base = Unread
        /\ todo = {}
        /\ changed = FALSE
        /\ kinds = {}
        /\ items = {}
        /\ failed = FALSE
        /\ spent = [e \in Events |-> 0]

-------------------------------------------------------------------------------
(* The pieces the steps are made of *)

Affordable(e) ==
    /\ spent[e] < Budget[e]
    /\ spent["edit"] + spent["source"] + spent["fault"] + spent["drift"] + spent["crash"] < MaxEvents

Spend(e) == /\ Affordable(e)
            /\ spent' = [spent EXCEPT ![e] = @ + 1]

\* GenerationChangedPredicate on the event the informer derives.
Noticed(old, new) == old.exists # new.exists \/ old.gen # new.gen

\* The API server stores k; the informer may have it at once or later.
Write(k) == /\ api' = k
            /\ cache' = k \/ (Lag /\ cache' = cache)

\* The key is queued if the step asks for it or the informer's event does.
Queue(requeue) == queued' = (queued \/ requeue \/ Noticed(cache, cache'))

Goto(step) == pc' = step

\* The pass keeps its lists.
KeepLists == UNCHANGED <<todo, changed, kinds, items, failed>>

\* The pass ends; its locals are gone.
Drop == /\ pc' = "idle"
        /\ konfig' = NoKonfiguration(0)
        /\ rev' = NoRev
        /\ base' = Unread
        /\ todo' = {}
        /\ changed' = FALSE
        /\ kinds' = {}
        /\ items' = {}
        /\ failed' = FALSE

\* Mutant of ReturnError and of ReturnAfter: nothing asks for another pass.
ReturnNothing == Drop /\ Queue(FALSE) /\ UNCHANGED timer

\* Returning an error or Requeue, and returning RequeueAfter.
ReturnError == Drop /\ Queue(TRUE) /\ UNCHANGED timer
ReturnAfter == Drop /\ Queue(FALSE) /\ timer' = TRUE

\* Of a status patch made from the status stored, the API server keeps its
\* own where nothing differs.
PatchFrom(stored, new) ==
    /\ api.exists
    /\ Write([api EXCEPT !.status = MergePatch(stored, new, @)])

\* A status patch of the pass goes through.
Patch(new) == /\ base.read
              /\ PatchFrom(base.status, new)
              /\ base' = Unread

\* The Get or the Patch fails.  The finalizer keeps the Konfiguration where
\* they find it.
PatchFails == Spend("fault") /\ UNCHANGED <<api, cache>>

-------------------------------------------------------------------------------
(* Reconcile: up to the source *)

\* A deletion removes the objects.
Collected(k) == k.prune /\ ~k.suspend

\* Mutant of Route: the finalizer is not looked for.
RouteUnregistered(k) == CASE k.deleting /\ Collected(k)   -> "prune"
                          [] k.deleting /\ ~Collected(k)  -> "finalize"
                          [] ~k.deleting                  -> "source"

\* Where a pass goes: deletion comes before suspension, and a suspended
\* Konfiguration is not pruned.
Route(k) == CASE ~k.fin                                 -> "finalizer"
              [] k.fin /\ k.deleting /\ Collected(k)    -> "prune"
              [] k.fin /\ k.deleting /\ ~Collected(k)   -> "finalize"
              [] k.fin /\ ~k.deleting                   -> "source"

\* Mutant of KindsToPrune: the deletion prunes without the last snapshot.
NoKinds(k) == {}

\* The kinds a deletion lists: those of the last snapshot.
KindsToPrune(k) == IF Route(k) = "prune" THEN k.status.entries ELSE {}

\* Mutant of UpToDate: an Update without a resourceVersion.
AlwaysUpToDate == TRUE

\* The API server takes an Update of the pass's copy.
UpToDate == konfig = api

\* The worker takes the key and reads the Konfiguration from the cache.
Begin ==
    /\ pc = "idle" /\ queued
    /\ queued' = FALSE
    /\ IF ~cache.exists \/ (cache.fin /\ ~cache.deleting /\ cache.suspend)
       THEN /\ timer' = (timer \/ cache.exists)
            /\ UNCHANGED worker
       ELSE /\ konfig' = cache
            /\ Goto(Route(cache))
            /\ kinds' = KindsToPrune(cache)
            /\ UNCHANGED <<timer, rev, base, todo, changed, items, failed>>
    /\ UNCHANGED <<src, api, cache, cluster, spent>>

\* r.Update with the finalizer added; a conflict or a fault returns the error.
\* The typed object leaves a false spec.validate out of its JSON, and the API
\* server puts the default, true, in its place.
Registered(k) == [k EXCEPT !.fin = TRUE,
                           !.validate = TRUE,
                           !.gen = IF k.validate THEN @ ELSE @ + 1]

AddFinalizer ==
    /\ pc = "finalizer"
    /\ \/ /\ UpToDate
          /\ Write(Registered(api))
          /\ IF konfig.suspend
             THEN ReturnAfter
             ELSE /\ konfig' = api'
                  /\ Goto("source")
                  /\ Queue(FALSE)
                  /\ KeepLists
                  /\ UNCHANGED <<timer, rev, base>>
          /\ UNCHANGED spent
       \/ /\ \/ ~UpToDate /\ UNCHANGED spent
             \/ Spend("fault")
          /\ UNCHANGED <<api, cache>>
          /\ ReturnError
    /\ UNCHANGED <<src, cluster>>

\* A pass fails with revision r in the status and is tried again later.
Fail(r) == /\ Goto("failed")
           /\ rev' = r
           /\ todo' = {} /\ changed' = FALSE
           /\ kinds' = {} /\ items' = {} /\ failed' = FALSE
           /\ UNCHANGED konfig

\* A step that neither writes the Konfiguration nor ends the pass.
Ambient == UNCHANGED <<src, api, cache, queued, timer, base>>

\* Mutant of PrepareSource: the artifact is not looked for.
PrepareAnySource ==
    /\ pc = "source"
    /\ rev' = src
    /\ Goto("dependencies")
    /\ KeepLists
    /\ UNCHANGED <<konfig, cluster, spent>>
    /\ Ambient

\* prepareSource: the artifact is missing, its download fails, or it is there.
PrepareSource ==
    /\ pc = "source"
    /\ \/ src = NoRev /\ Fail(NoRev) /\ UNCHANGED spent
       \/ src # NoRev /\ Spend("fault") /\ Fail(src)
       \/ /\ src # NoRev
          /\ rev' = src
          /\ Goto("dependencies")
          /\ KeepLists
          /\ UNCHANGED <<konfig, spent>>
    /\ Ambient /\ UNCHANGED cluster

\* checkDependencies: a Konfiguration this one depends on may not be ready.
CheckDependencies ==
    /\ pc = "dependencies"
    /\ \/ Spend("fault") /\ Fail(rev)
       \/ Goto("progressing") /\ KeepLists /\ UNCHANGED <<konfig, rev, spent>>
    /\ Ambient /\ UNCHANGED cluster

\* The Get of patchStatus.
ReadBase ==
    /\ pc \in Patching
    /\ ~base.read /\ cache.exists
    /\ base' = [read |-> TRUE, status |-> cache.status]
    /\ UNCHANGED <<src, api, cache, cluster, queued, timer, pc, konfig, rev, spent>>
    /\ KeepLists

SetProgressing ==
    /\ pc = "progressing"
    /\ \/ \E t \in Stamps :
            LET new == Progressing(konfig.status, t)
            IN  /\ Patch(new)
                /\ konfig' = [konfig EXCEPT !.status = new]
                /\ Goto("build")
                /\ Queue(FALSE)
                /\ KeepLists
                /\ UNCHANGED <<timer, rev, spent>>
       \/ PatchFails /\ ReturnError
    /\ UNCHANGED <<src, cluster>>

\* SetNotReady at the end of a pass that failed; an error of it is only logged.
SetNotReady ==
    /\ pc = "failed"
    /\ \/ \E t \in Stamps :
            /\ Patch(Readiness(konfig.status, konfig.gen, "False", rev, t))
            /\ UNCHANGED spent
       \/ PatchFails
    /\ ReturnAfter
    /\ UNCHANGED <<src, cluster>>

-------------------------------------------------------------------------------
(* reconcile: build, dry run, apply *)

KindsOf(r) == {KindOf[o] : o \in Manifest[r]}

\* The first object of the manifest still to be visited.
IsNext(o) == o \in todo /\ \A p \in todo : Rank[o] <= Rank[p]

\* A step of the pass that fails without writing anything.
Fails == Spend("fault") /\ Fail(rev)

\* Client, builder, evaluation and snapshot.  checkNamespace looks every kind
\* up in the REST mapper, which may still know a kind that is gone.
Build ==
    /\ pc = "build"
    /\ \/ Fails
       \/ /\ \E k \in KindsOf(rev) : ~Served(cluster, k)
          /\ Fail(rev)
          /\ UNCHANGED spent
       \/ /\ Goto(IF konfig.validate THEN "dryrun" ELSE "apply")
          /\ todo' = Manifest[rev]
          /\ UNCHANGED <<konfig, rev, changed, kinds, items, failed, spent>>
    /\ Ambient /\ UNCHANGED cluster

\* One object of the dry run: the API server's answer, and nothing stored.
\* An Invalid answer counts as a change when the object may be re-created.
DryRun ==
    /\ pc = "dryrun"
    /\ \E o \in Objs :
        /\ IsNext(o)
        /\ LET needed   == NeedsApply(cluster, o, Sum[rev])
               rejected == \/ ~Admitted(cluster, o)
                           \/ Invalid(cluster, o, Sum[rev]) /\ ~ForceCreate
           IN  \/ Fails
               \/ needed /\ rejected /\ Fail(rev) /\ UNCHANGED spent
               \/ /\ ~(needed /\ rejected)
                  /\ todo' = todo \ {o}
                  /\ changed' = (changed \/ needed)
                  /\ UNCHANGED <<pc, konfig, rev, kinds, items, failed, spent>>
    /\ Ambient /\ UNCHANGED cluster

\* Mutant of EnterPrune: it lists the kinds of the new snapshot.
EnterPruneOfNew == /\ IF konfig.prune
                      THEN Goto("prune") /\ kinds' = KindsOf(rev)
                      ELSE Goto("health") /\ UNCHANGED kinds
                   /\ UNCHANGED <<konfig, rev, todo, items, failed>>

\* Where the pass goes after the apply, or instead of it.
EnterPrune == /\ IF konfig.prune
                 THEN Goto("prune") /\ kinds' = konfig.status.entries
                 ELSE Goto("health") /\ UNCHANGED kinds
              /\ UNCHANGED <<konfig, rev, todo, items, failed>>

\* An empty changeset skips the apply.
DryRunDone ==
    /\ pc = "dryrun" /\ todo = {}
    /\ \/ /\ changed
          /\ Goto("apply")
          /\ todo' = Manifest[rev]
          /\ UNCHANGED <<konfig, rev, kinds, items, failed>>
       \/ ~changed /\ EnterPrune
    /\ UNCHANGED <<changed, spent>>
    /\ Ambient /\ UNCHANGED cluster

\* One object of the apply.  A forced re-creation deletes the object and
\* patches again; while the deleted object lingers the answer stays Invalid
\* and the call repeats until the context times out.
Apply ==
    /\ pc = "apply"
    /\ \E o \in Objs :
        /\ IsNext(o)
        /\ LET sum     == Sum[rev]
               needed  == NeedsApply(cluster, o, sum)
               invalid == Invalid(cluster, o, sum)
           IN  \/ Fails /\ UNCHANGED cluster
               \/ /\ needed
                  /\ \/ ~Admitted(cluster, o)
                     \/ invalid /\ (~ForceCreate \/ cluster[o].st = "terminating")
                  /\ Fail(rev)
                  /\ UNCHANGED <<cluster, spent>>
               \/ /\ needed /\ invalid /\ ForceCreate /\ cluster[o].st = "live"
                  /\ cluster' = Deleted(cluster, o)
                  /\ UNCHANGED <<worker, spent>>
               \/ /\ needed /\ Admitted(cluster, o) /\ ~invalid
                  /\ cluster' = ServerSideApply(cluster, o, sum)
                  /\ todo' = todo \ {o}
                  /\ UNCHANGED <<pc, konfig, rev, changed, kinds, items, failed, spent>>
               \/ /\ ~needed
                  /\ todo' = todo \ {o}
                  /\ UNCHANGED <<pc, konfig, rev, changed, kinds, items, failed, cluster, spent>>
    /\ Ambient

ApplyDone ==
    /\ pc = "apply" /\ todo = {}
    /\ EnterPrune
    /\ UNCHANGED <<changed, spent>>
    /\ Ambient /\ UNCHANGED cluster

-------------------------------------------------------------------------------
(* Prune, for a pass that applied a manifest and for one that deletes *)

\* Mutant of KeptSum: the new snapshot is not passed on.
NothingKept == NoSum

\* The checksum that is not orphaned; a deletion has none.
KeptSum == IF konfig.deleting THEN NoSum ELSE Sum[rev]

PruneList ==
    /\ pc = "prune" /\ items = {}
    /\ \E k \in NextKinds(kinds) :
        /\ kinds' = kinds \ {k}
        /\ \/ /\ Served(cluster, k)
              /\ items' = Prunable(cluster, k, KeptSum, konfig.deleting)
              /\ UNCHANGED <<failed, spent>>
           \/ ~Served(cluster, k) /\ failed' = TRUE /\ UNCHANGED <<items, spent>>
           \/ Spend("fault") /\ failed' = TRUE /\ UNCHANGED items
    /\ UNCHANGED <<pc, konfig, rev, todo, changed, cluster>>
    /\ Ambient

\* An object that went away since the list is an error like any other.
PruneDelete ==
    /\ pc = "prune"
    /\ \E o \in items :
        /\ items' = items \ {o}
        /\ \/ /\ cluster[o].st # "absent"
              /\ cluster' = Deleted(cluster, o)
              /\ UNCHANGED <<failed, spent>>
           \/ cluster[o].st = "absent" /\ failed' = TRUE /\ UNCHANGED <<cluster, spent>>
           \/ Spend("fault") /\ failed' = TRUE /\ UNCHANGED cluster
    /\ UNCHANGED <<pc, konfig, rev, todo, changed, kinds>>
    /\ Ambient

\* A deletion that failed returns the error; it reports nothing in the status.
PruneDone ==
    /\ pc = "prune" /\ items = {} /\ kinds = {}
    /\ UNCHANGED <<src, api, cache, cluster, spent>>
    /\ \/ konfig.deleting /\ failed /\ ReturnError
       \/ /\ ~konfig.deleting /\ failed
          /\ Fail(rev)
          /\ UNCHANGED <<queued, timer, base>>
       \/ /\ ~failed
          /\ Goto(IF konfig.deleting THEN "finalize" ELSE "health")
          /\ KeepLists
          /\ UNCHANGED <<konfig, rev, queued, timer, base>>

-------------------------------------------------------------------------------
(* The outcome *)

CheckHealth ==
    /\ pc = "health"
    /\ \/ Goto("ready1") /\ UNCHANGED spent
       \/ HasHealthChecks /\ Spend("fault") /\ Goto("unhealthy1")
    /\ KeepLists /\ UNCHANGED <<konfig, rev>>
    /\ Ambient /\ UNCHANGED cluster

\* SetHealthiness, the first patch of SetReady and of SetNotReadySnapshot.
PatchHealthiness(status, st, next) ==
    \/ \E t \in Stamps :
        LET new == Healthiness(status, st, rev, t)
        IN  /\ Patch(new)
            /\ konfig' = [konfig EXCEPT !.status = new]
            /\ Goto(next)
            /\ Queue(FALSE)
            /\ KeepLists
            /\ UNCHANGED <<timer, rev, spent>>
    \/ PatchFails /\ IF next = "ready2" THEN ReturnError ELSE ReturnAfter

\* SetReadiness, the second patch.
PatchReadiness(st) ==
    \E t \in Stamps : /\ Patch(Readiness(konfig.status, konfig.gen, st, rev, t))
                      /\ UNCHANGED spent

SetReady1 ==
    /\ pc = "ready1"
    /\ PatchHealthiness(Applied(konfig.status, rev, Sum[rev], KindsOf(rev)), "True", "ready2")
    /\ UNCHANGED <<src, cluster>>

SetReady2 ==
    /\ pc = "ready2"
    /\ \/ PatchReadiness("True") /\ ReturnAfter
       \/ PatchFails /\ ReturnError
    /\ UNCHANGED <<src, cluster>>

SetNotReadySnapshot1 ==
    /\ pc = "unhealthy1"
    /\ PatchHealthiness(AttemptedSnapshot(konfig.status, rev, Sum[rev], KindsOf(rev)),
                        "False", "unhealthy2")
    /\ UNCHANGED <<src, cluster>>

SetNotReadySnapshot2 ==
    /\ pc = "unhealthy2"
    /\ PatchReadiness("False") \/ PatchFails
    /\ ReturnAfter
    /\ UNCHANGED <<src, cluster>>

\* The end of reconcileDelete: the finalizer goes, and the object with it.
RemoveFinalizer ==
    /\ pc = "finalize"
    /\ \/ /\ UpToDate
          /\ Write(NoKonfiguration(api.gen + 1))
          /\ Drop /\ Queue(FALSE) /\ UNCHANGED <<timer, spent>>
       \/ /\ \/ ~UpToDate /\ UNCHANGED spent
             \/ Spend("fault")
          /\ UNCHANGED <<api, cache>>
          /\ ReturnError
    /\ UNCHANGED <<src, cluster>>

-------------------------------------------------------------------------------
(* Everything around the worker *)

\* The informer catches up.
CacheSync ==
    /\ cache # api
    /\ cache' = api
    /\ Queue(FALSE)
    /\ UNCHANGED <<src, api, cluster, timer, worker, spent>>

TimerFires ==
    /\ timer
    /\ timer' = FALSE /\ queued' = TRUE
    /\ UNCHANGED <<src, api, cache, cluster, worker, spent>>

\* A watch event of the source: SourceRevisionChangePredicate, then
\* requestsForRevisionChangeOf.
SourceChanges ==
    /\ Spend("source")
    /\ \E r \in (Revs \union {NoRev}) \ {src} :
        /\ src' = r
        /\ queued' = (queued \/ (/\ r # NoRev
                                 /\ cache.exists
                                 /\ cache.status.attempted # r))
    /\ UNCHANGED <<api, cache, cluster, timer, worker>>

UserCreates ==
    /\ ~api.exists
    /\ Spend("edit")
    /\ \E prune \in BOOLEAN, validate \in Validations :
        Write(NewKonfiguration(api.gen + 1, prune, validate))
    /\ Queue(FALSE)
    /\ UNCHANGED <<src, cluster, timer, worker>>

\* A change of spec.prune, spec.suspend or spec.validate.
UserEdits ==
    /\ api.exists
    /\ Spend("edit")
    /\ \/ Write([api EXCEPT !.prune = ~@, !.gen = @ + 1])
       \/ Write([api EXCEPT !.suspend = ~@, !.gen = @ + 1])
       \/ \E validate \in Validations \ {api.validate} :
            Write([api EXCEPT !.validate = validate, !.gen = @ + 1])
    /\ Queue(FALSE)
    /\ UNCHANGED <<src, cluster, timer, worker>>

\* Without the finalizer the object goes at once.
UserDeletes ==
    /\ api.exists /\ ~api.deleting
    /\ Spend("edit")
    /\ Write(IF api.fin THEN [api EXCEPT !.deleting = TRUE, !.gen = @ + 1]
                        ELSE NoKonfiguration(api.gen + 1))
    /\ Queue(FALSE)
    /\ UNCHANGED <<src, cluster, timer, worker>>

\* Someone changes a managed field, exempts an object from pruning or deletes it.
Drift ==
    /\ Spend("drift")
    /\ \E o \in Objs :
        /\ cluster[o].st = "live"
        /\ \/ cluster' = [cluster EXCEPT ![o].drift = TRUE]
           \/ cluster' = [cluster EXCEPT ![o].skip = TRUE]
           \/ cluster' = Deleted(cluster, o)
    /\ UNCHANGED <<src, api, cache, queued, timer, worker>>

\* The last finalizer of a deleted object goes; a namespace waits for its contents.
FinishTermination ==
    /\ \E o \in Objs :
        /\ cluster[o].st = "terminating"
        /\ \A x \in Objs : o \in Requires[x] => cluster[x].st = "absent"
        /\ cluster' = [cluster EXCEPT ![o] = Absent]
    /\ UNCHANGED <<src, api, cache, queued, timer, worker, spent>>

\* The controller restarts: the pass is lost, the informer lists everything.
Crash ==
    /\ Spend("crash")
    /\ Drop
    /\ cache' = api
    /\ queued' = api.exists
    /\ timer' = FALSE
    /\ UNCHANGED <<src, api, cluster>>

-------------------------------------------------------------------------------
Worker == \/ Begin \/ AddFinalizer \/ PrepareSource \/ CheckDependencies
          \/ ReadBase \/ SetProgressing \/ SetNotReady
          \/ Build \/ DryRun \/ DryRunDone \/ Apply \/ ApplyDone
          \/ PruneList \/ PruneDelete \/ PruneDone
          \/ CheckHealth \/ SetReady1 \/ SetReady2
          \/ SetNotReadySnapshot1 \/ SetNotReadySnapshot2
          \/ RemoveFinalizer

Surroundings == \/ CacheSync \/ TimerFires \/ SourceChanges
                \/ UserCreates \/ UserEdits \/ UserDeletes
                \/ Drift \/ FinishTermination \/ Crash

Next == Worker \/ Surroundings

Spec == Init /\ [][Next]_vars

-------------------------------------------------------------------------------
(* Properties *)

\* The pass has a revision in hand that it rendered or is to render.
HasRevision ==
    \/ pc \in {"dependencies", "progressing", "build", "dryrun", "apply", "health",
               "ready1", "ready2", "unhealthy1", "unhealthy2"}
    \/ pc = "prune" /\ ~konfig.deleting

\* Every variable has its type, and a pass past the source a revision.
TypeOK ==
    /\ src \in Revs \union {NoRev}
    /\ api \in Konfigurations /\ cache \in Konfigurations /\ konfig \in Konfigurations
    /\ cluster \in Clusters
    /\ queued \in BOOLEAN /\ timer \in BOOLEAN
    /\ pc \in Steps
    /\ rev \in Revs \union {NoRev}
    /\ HasRevision => rev \in Revs
    /\ base \in Bases
    /\ todo \subseteq Objs
    /\ changed \in BOOLEAN
    /\ kinds \subseteq Kinds
    /\ items \subseteq Objs
    /\ failed \in BOOLEAN
    /\ spent \in [Events -> Nat]

\* Pruning after an apply never holds an object of the manifest just applied,
\* whether the dry run skipped the apply or not (Prune with a newSnapshot).
PruneSparesManifest ==
    pc = "prune" /\ ~konfig.deleting => items \intersect Manifest[rev] = {}

\* The controller labels an object of the cluster as its own only while the
\* API server holds the Konfiguration with the finalizer that will undo it,
\* however stale the cached copy the pass works from (Reconcile, 162-174).
AppliesUnderFinalizer ==
    [][(\E o \in Objs : /\ cluster'[o].sum # NoSum
                        /\ cluster'[o].sum # cluster[o].sum)
       => api.exists /\ api.fin /\ api'.exists /\ api'.fin]_vars

\* When the finalizer of a pruned Konfiguration that is not suspended goes, no
\* live object of a kind in its last snapshot is left that pruning should
\* have removed, whatever failed, crashed or was read stale before
\* (reconcileDelete).
FinalizerHeldUntilPruned ==
    [][api.exists /\ api.fin /\ ~api'.exists /\ api.prune /\ ~api.suspend
       => \A o \in Objs : /\ KindOf[o] \in api.status.entries
                          /\ cluster[o].sum # NoSum
                          /\ ~cluster[o].skip
                          => cluster[o].st # "live"]_vars

\* A kind leaves the recorded snapshot only when the pruning of the pass left
\* no live orphan of that kind behind, so that no later pass has to find it
\* (Prune before SetReady and SetNotReadySnapshot).  Needs an informer cache
\* that does not trail.
SnapshotCoversUntilPruned ==
    [][\A o \in Objs :
        /\ KindOf[o] \in api.status.entries
        /\ api'.exists /\ KindOf[o] \notin api'.status.entries
        /\ konfig.prune
        => \/ cluster[o].st # "live" \/ cluster[o].skip
           \/ cluster[o].sum \in {NoSum, Sum[rev]}]_vars

\* While a pass changes the cluster the Ready condition does not say True
\* (SetProgressing comes first).
NoReadyWhileApplying ==
    pc \in {"build", "dryrun", "apply", "health"} => api.status.ready.st # "True"

\* The resource is ready: its condition names the revision last applied and
\* last attempted.
IsReady(k) == k.exists /\ ~k.deleting /\ k.status.ready.st = "True"

\* In a cluster nobody else changes, a Konfiguration that says Ready has every
\* object of the revision it names in the cluster: whatever calls failed, and
\* wherever the controller crashed or another writer of the status came
\* between the Get and the Patch (SetProgressing, SetReady, patchStatus).  An
\* object still terminating under the checksum of that revision would pass
\* for applied.
ReadyMeansInstalled ==
    IsReady(api) => \A o \in Manifest[api.status.ready.rev] :
                        /\ cluster[o].st = "live"
                        /\ cluster[o].sum = Sum[api.status.ready.rev]

\* The applied and attempted revisions and the snapshot of a Konfiguration that
\* says Ready are those of the revision it names, wherever a pass stopped
\* between its patches (SetReady).  Needs an informer cache that does not
\* trail and no other writer of the status.
ReadyMeansRecorded ==
    IsReady(api) => LET r == api.status.ready.rev
                    IN  /\ r = api.status.applied
                        /\ r = api.status.attempted
                        /\ Sum[r] = api.status.sum
                        /\ KindsOf(r) = api.status.entries

\* A Konfiguration with pruning that says Ready has no live object of an
\* earlier manifest left (konfiguration_types.go, Prune).
ReadyMeansPruned ==
    IsReady(api) /\ api.prune =>
        \A o \in Objs : /\ cluster[o].st = "live"
                        /\ cluster[o].sum # NoSum
                        /\ ~cluster[o].skip
                        => cluster[o].sum = api.status.sum

-------------------------------------------------------------------------------
(* What all this implements *)

Phase == CASE ~api.exists                             -> "absent"
           [] api.exists /\ ~api.fin                  -> "free"
           [] api.exists /\ api.fin /\ ~api.deleting  -> "held"
           [] api.exists /\ api.fin /\ api.deleting   -> "deleting"

\* Pruning may find and delete it.
Owned(o) == /\ cluster[o].st = "live"
            /\ cluster[o].sum # NoSum
            /\ ~cluster[o].skip

Promise == INSTANCE Lifecycle WITH phase   <- Phase,
                                   owned   <- {o \in Objs : Owned(o)},
                                   tracked <- api.status.entries,
                                   collect <- Collected(api)

\* Every step, of the controller and of the others, at any age of the cache,
\* is a step of Lifecycle or none: objects are owned only under the finalizer
\* (Reconcile) and the finalizer outlives them (reconcileDelete).
KeepsPromise == Promise!Spec

-------------------------------------------------------------------------------
(* Liveness *)

\* The Konfiguration is there, to be reconciled, and its source is.
Wanted == api.exists /\ ~api.deleting /\ ~api.suspend /\ src # NoRev

Converged == /\ IsReady(api)
             /\ api.status.obsGen = api.gen
             /\ api.status.applied = src
             /\ \A o \in Manifest[src] : /\ cluster[o].st = "live"
                                         /\ cluster[o].sum = Sum[src]
                                         /\ ~cluster[o].drift

\* As long as it is wanted, the Konfiguration keeps coming back to Ready at
\* the source's revision with its objects as rendered.
Converges == []<>(Wanted => Converged)

\* A deleted Konfiguration goes.
DeletionCompletes == api.exists /\ api.deleting ~> ~api.exists

\* The worker takes queued keys and finishes passes, RequeueAfter elapses, the
\* watch delivers, deleted objects go.  Nothing is owed by users or faults.
Fairness == /\ WF_vars(Worker)
            /\ WF_vars(TimerFires)
            /\ WF_vars(CacheSync)
            /\ WF_vars(FinishTermination)

FairSpec == Spec /\ Fairness
===============================================================================
