----------------------------- MODULE ReadyProofs -----------------------------
(***************************************************************************)
(* What Ready means: a Konfiguration that says it has every object of the  *)
(* revision it names in the cluster, also next to dry-run requests, and    *)
(* without them its revisions and its snapshot are that revision's.        *)
(*                                                                         *)
(* PlaceInv follows the cluster: what the apply, or the dry run that       *)
(* skipped it, has behind it is in place under the new checksum, and       *)
(* neither a forced re-creation nor the pruning takes it away again.       *)
(* StatusInv follows the status: it says True only by the last patch of a  *)
(* pass, whatever is written between the Get and the Patch of another, so  *)
(* no step that touches the cluster finds it so.                           *)
(***************************************************************************)
EXTENDS OperationsProofs

\* Nobody but the controller changes the cluster, and deleted objects go at once.
Undisturbed == Lingering = {} /\ Budget["drift"] = 0

\* What an object of a manifest cannot be without is in the manifest, or in
\* none: a namespace that one revision renders and another only uses would be
\* pruned with everything in it.
SelfContained ==
    \A r \in Revs : \A o \in Manifest[r] : \A n \in Requires[o] :
        n \in Manifest[r] \/ \A s \in Revs : n \notin Manifest[s]

\* SortedObjects has namespaces and definitions first.
RequiredFirst == \A o \in Objs : \A n \in Requires[o] : Rank[n] < Rank[o]

Rendered == UNION {Manifest[r] : r \in Revs}

\* The object is in the cluster as the pass renders it.
InPlace(o) == cluster[o].st = "live" /\ cluster[o].sum = Sum[rev]

\* Between the apply and the report.
PastApply == pc \in {"health", "ready1", "ready2"} \/ (pc = "prune" /\ ~konfig.deleting)

\* Nothing lingers, and what carries a label was rendered once.
CleanInv == /\ \A o \in Objs : /\ cluster[o].st # "terminating"
                               /\ cluster[o].sum # NoSum => o \in Rendered
            /\ items \subseteq Rendered

\* The manifest is visited by rank, and what is visited is in place.
PlaceInv ==
    /\ pc \in {"dryrun", "apply"} =>
        /\ todo \subseteq Manifest[rev]
        /\ \A o \in Manifest[rev] \ todo, p \in todo : Rank[o] < Rank[p]
    /\ pc = "apply" \/ (pc = "dryrun" /\ ~changed) => \A o \in Manifest[rev] \ todo : InPlace(o)
    /\ PastApply => \A o \in Manifest[rev] : InPlace(o)

-------------------------------------------------------------------------------
(* The cluster *)

LEMMA OnlyPassChangesCluster ==
    ASSUME TypeOK, Undisturbed, CleanInv, [Next]_vars, ~Apply, ~PruneDelete
    PROVE  UNCHANGED cluster
<1>1. ~Drift
  BY DEF Drift, Spend, Affordable, Undisturbed, TypeOK, Events
<1>2. ~FinishTermination
  BY DEF FinishTermination, CleanInv
<1>3. CASE Worker
  BY <1>3 DEF Worker, Begin, AddFinalizer, PrepareSource, CheckDependencies, ReadBase,
              SetProgressing, SetNotReady, Build, DryRun, DryRunDone, ApplyDone, PruneList, PruneDone,
              CheckHealth, SetReady1, SetReady2, SetNotReadySnapshot1, SetNotReadySnapshot2,
              RemoveFinalizer
<1>4. CASE Surroundings
  BY <1>1, <1>2, <1>4 DEF Surroundings, CacheSync, TimerFires, SourceChanges, UserCreates,
                          UserEdits, UserDeletes, Crash
<1> QED BY <1>3, <1>4 DEF Next, vars

\* A deletion takes the object and what cannot be without it, at once.
LEMMA DeletedAtOnce ==
    ASSUME Lingering = {}, NEW cl \in Clusters, NEW o \in Objs, NEW x \in Objs
    PROVE  /\ Deleted(cl, o)[x] \in {Absent, cl[x]}
           /\ x # o /\ o \notin Requires[x] => Deleted(cl, o)[x] = cl[x]
BY DEF Deleted

LEMMA CleanKept ==
    ASSUME CleanInv, NEW o \in Objs, cluster \in Clusters, Lingering = {},
           cluster' = Deleted(cluster, o), items' \subseteq items
    PROVE  CleanInv'
<1>1. \A x \in Objs : cluster'[x] \in {Absent, cluster[x]}
  BY DeletedAtOnce
<1> QED BY <1>1 DEF CleanInv, Absent

\* What the apply, the listing and the deletion of an orphan do to it.
LEMMA CleanStep ==
    TypeOK /\ Undisturbed /\ PlaceInv /\ CleanInv /\ [Next]_vars => CleanInv'
<1> SUFFICES ASSUME TypeOK, Undisturbed, PlaceInv, CleanInv, [Next]_vars PROVE CleanInv'
  OBVIOUS
<1>0. cluster \in Clusters /\ Lingering = {} /\ items \subseteq Objs
  BY DEF TypeOK, Undisturbed
<1>1. CASE Apply
  <2>0. pc = "apply" /\ rev \in Revs /\ todo \subseteq Manifest[rev]
    BY <1>1 DEF Apply, PlaceInv, TypeOK, HasRevision
  <2>1. PICK o \in Objs :
          /\ o \in todo
          /\ \/ UNCHANGED cluster
             \/ cluster' = Deleted(cluster, o)
             \/ cluster' = ServerSideApply(cluster, o, Sum[rev])
    BY <1>1 DEF Apply, IsNext
  <2>2. items' \subseteq items
    BY <1>1 DEF Apply, Fails, Fail, worker
  <2>3. CASE UNCHANGED cluster
    BY <2>2, <2>3 DEF CleanInv
  <2>4. CASE cluster' = Deleted(cluster, o)
    BY <1>0, <2>2, <2>4, CleanKept
  <2>5. CASE cluster' = ServerSideApply(cluster, o, Sum[rev])
    <3>1. o \in Rendered
      BY <2>0, <2>1 DEF Rendered
    <3>2. \A x \in Objs : cluster'[x] = cluster[x] \/ (x = o /\ cluster'[x].st # "terminating")
      BY <1>0, <2>5 DEF ServerSideApply, CleanInv, Clusters
    <3> QED BY <2>2, <3>1, <3>2 DEF CleanInv
  <2> QED BY <2>1, <2>3, <2>4, <2>5
<1>2. CASE PruneDelete
  <2>1. PICK o \in items : /\ items' = items \ {o}
                           /\ UNCHANGED cluster \/ cluster' = Deleted(cluster, o)
    BY <1>2 DEF PruneDelete
  <2> QED BY <1>0, <2>1, CleanKept DEF CleanInv
<1>3. CASE PruneList
  <2>1. /\ UNCHANGED cluster
        /\ items' \subseteq items \/ \E k : items' = Prunable(cluster, k, KeptSum, konfig.deleting)
    BY <1>3 DEF PruneList
  <2>2. \A k : Prunable(cluster, k, KeptSum, konfig.deleting) \subseteq Rendered
    BY DEF Prunable, Listed, CleanInv
  <2> QED BY <2>1, <2>2 DEF CleanInv
<1>4. CASE ~Apply /\ ~PruneDelete /\ ~PruneList
  <2>1. UNCHANGED cluster
    BY <1>4, OnlyPassChangesCluster
  <2>2. items' \subseteq items
    BY <1>4 DEF Next, Worker, Surroundings, Begin, AddFinalizer, PrepareSource,
                CheckDependencies, ReadBase, SetProgressing, SetNotReady, Build, DryRun, DryRunDone,
                ApplyDone, PruneDone, CheckHealth, SetReady1, SetReady2,
                SetNotReadySnapshot1, SetNotReadySnapshot2, RemoveFinalizer, CacheSync,
                TimerFires, SourceChanges, UserCreates, UserEdits, UserDeletes, Drift,
                FinishTermination, Crash, vars, worker, KeepLists, EnterPrune, Fail, Fails,
                Drop, ReturnError, ReturnAfter, PatchHealthiness
  <2> QED BY <2>1, <2>2 DEF CleanInv
<1> QED BY <1>1, <1>2, <1>3, <1>4

LEMMA CleanInit == Init => CleanInv
BY DEF Init, CleanInv, Absent

-------------------------------------------------------------------------------
(* The pass *)

\* A step that leaves the pass and the cluster, and one past the report.
LEMMA PlaceKept ==
    ASSUME PlaceInv, UNCHANGED <<cluster, Locals>>
    PROVE  PlaceInv'
BY DEF PlaceInv, PastApply, InPlace, Locals

LEMMA PlaceLeft ==
    ASSUME pc' \notin {"dryrun", "apply", "health", "ready1", "ready2"},
           pc' = "prune" => konfig'.deleting
    PROVE  PlaceInv'
BY DEF PlaceInv, PastApply

\* The next object of a list in rank order is behind all that remain.
LEMMA NextVisited ==
    ASSUME NEW o \in Objs, IsNext(o), NEW m, todo \subseteq m, m \subseteq Objs,
           \A x \in m \ todo, p \in todo : Rank[x] < Rank[p]
    PROVE  \A x \in m \ (todo \ {o}), p \in todo \ {o} : Rank[x] < Rank[p]
<1> SUFFICES ASSUME NEW x \in m \ (todo \ {o}), NEW p \in todo \ {o} PROVE Rank[x] < Rank[p]
  OBVIOUS
<1>1. CASE x = o
  <2>1. Rank[o] <= Rank[p] /\ Rank[o] # Rank[p] /\ Rank[o] \in Nat /\ Rank[p] \in Nat
    BY RankAssumption DEF IsNext
  <2> QED BY <1>1, <2>1
<1>2. CASE x # o
  BY <1>2
<1> QED BY <1>1, <1>2

LEMMA PlaceDryRun ==
    ASSUME TypeOK, CleanInv, PlaceInv, DryRun
    PROVE  PlaceInv'
<1>0. /\ pc = "dryrun" /\ cluster \in Clusters /\ UNCHANGED cluster
      /\ Manifest[rev] \subseteq Objs /\ changed \in BOOLEAN
  BY ManifestType DEF DryRun, TypeOK, HasRevision
<1>1. PICK o \in Objs :
        /\ IsNext(o)
        /\ \/ Fail(rev)
           \/ /\ todo' = todo \ {o}
              /\ changed' = (changed \/ NeedsApply(cluster, o, Sum[rev]))
              /\ UNCHANGED <<pc, konfig, rev, kinds, items, failed>>
  BY DEF DryRun, Fails
<1>2. CASE Fail(rev)
  BY <1>2, PlaceLeft DEF Fail, Goto
<1>3. CASE /\ todo' = todo \ {o}
           /\ changed' = (changed \/ NeedsApply(cluster, o, Sum[rev]))
           /\ UNCHANGED <<pc, konfig, rev, kinds, items, failed>>
  <2>1. \A x \in Manifest[rev] \ todo', p \in todo' : Rank[x] < Rank[p]
    BY <1>0, <1>1, <1>3, NextVisited DEF PlaceInv
  <2>2. ~changed' => ~changed /\ InPlace(o)
    BY <1>0, <1>3 DEF NeedsApply, InPlace, CleanInv, Clusters, Objects
  <2> QED BY <1>0, <1>3, <2>1, <2>2 DEF PlaceInv, PastApply, InPlace
<1> QED BY <1>1, <1>2, <1>3

\* The apply puts its object in place; a forced re-creation takes with it only
\* what comes later.
LEMMA PlaceApply ==
    ASSUME TypeOK, Undisturbed, RequiredFirst, CleanInv, PlaceInv, Apply
    PROVE  PlaceInv'
<1>0. /\ pc = "apply" /\ cluster \in Clusters /\ Lingering = {}
      /\ rev \in Revs /\ Manifest[rev] \subseteq Objs /\ Sum[rev] \in Sums
      /\ todo \subseteq Manifest[rev]
      /\ \A x \in Manifest[rev] \ todo : InPlace(x)
      /\ \A x \in Manifest[rev] \ todo, p \in todo : Rank[x] < Rank[p]
  BY ManifestType DEF Apply, TypeOK, HasRevision, Undisturbed, PlaceInv
<1>1. PICK o \in Objs :
        /\ IsNext(o)
        /\ \/ Fail(rev)
           \/ cluster' = Deleted(cluster, o) /\ UNCHANGED worker
           \/ /\ \/ cluster' = ServerSideApply(cluster, o, Sum[rev])
                 \/ ~NeedsApply(cluster, o, Sum[rev]) /\ UNCHANGED cluster
              /\ todo' = todo \ {o}
              /\ UNCHANGED <<pc, konfig, rev, changed, kinds, items, failed>>
  BY DEF Apply, Fails
<1>2. CASE Fail(rev)
  BY <1>2, PlaceLeft DEF Fail, Goto
<1>3. CASE cluster' = Deleted(cluster, o) /\ UNCHANGED worker
  <2>1. ASSUME NEW x \in Manifest[rev] \ todo PROVE cluster'[x] = cluster[x]
    <3>1. x \in Objs /\ o \in todo /\ Rank[x] < Rank[o]
      BY <1>0, <1>1 DEF IsNext
    <3>2. Rank[x] \in Nat /\ Rank[o] \in Nat
      BY <3>1, RankAssumption
    <3>3. x # o /\ o \notin Requires[x]
      BY <3>1, <3>2 DEF RequiredFirst
    <3> QED BY <1>0, <1>3, <3>1, <3>3, DeletedAtOnce
  <2> QED BY <1>0, <1>3, <2>1 DEF PlaceInv, PastApply, InPlace, worker
<1>4. CASE /\ \/ cluster' = ServerSideApply(cluster, o, Sum[rev])
              \/ ~NeedsApply(cluster, o, Sum[rev]) /\ UNCHANGED cluster
           /\ todo' = todo \ {o}
           /\ UNCHANGED <<pc, konfig, rev, changed, kinds, items, failed>>
  <2>1. \A x \in Manifest[rev] \ todo', p \in todo' : Rank[x] < Rank[p]
    BY <1>0, <1>1, <1>4, NextVisited
  <2>2. cluster'[o].st = "live" /\ cluster'[o].sum = Sum[rev]
    BY <1>0, <1>4 DEF ServerSideApply, NeedsApply, CleanInv, Clusters, Objects
  <2>3. \A x \in Objs : x # o => cluster'[x] = cluster[x]
    BY <1>0, <1>4 DEF ServerSideApply, Clusters
  <2> QED BY <1>0, <1>4, <2>1, <2>2, <2>3 DEF PlaceInv, PastApply, InPlace
<1> QED BY <1>1, <1>2, <1>3, <1>4

\* What is pruned is no object of the manifest, and none of them needs it.
LEMMA PlaceDelete ==
    ASSUME TypeOK, Undisturbed, SelfContained, CleanInv, PruneInv, PlaceInv, PruneDelete
    PROVE  PlaceInv'
<1>0. /\ pc = "prune" /\ cluster \in Clusters /\ Lingering = {} /\ items \subseteq Objs
      /\ UNCHANGED <<pc, konfig, rev>>
  BY DEF PruneDelete, TypeOK, Undisturbed
<1>1. CASE konfig.deleting
  BY <1>0, <1>1, PlaceLeft
<1>2. CASE ~konfig.deleting
  <2>0. /\ rev \in Revs /\ Manifest[rev] \subseteq Objs
        /\ items \intersect Manifest[rev] = {}
        /\ \A x \in Manifest[rev] : InPlace(x)
    BY <1>0, <1>2, ManifestType DEF HasRevision, PruneInv, PlaceInv, PastApply
  <2>1. PICK o \in items : UNCHANGED cluster \/ cluster' = Deleted(cluster, o)
    BY DEF PruneDelete
  <2>2. PICK r \in Revs : o \in Manifest[r]
    BY <2>1 DEF CleanInv, Rendered
  <2>3. ASSUME NEW x \in Manifest[rev] PROVE cluster'[x] = cluster[x]
    <3>1. x # o /\ o \notin Requires[x]
      BY <2>0, <2>2, <2>3 DEF SelfContained
    <3> QED BY <1>0, <2>0, <2>1, <3>1, DeletedAtOnce
  <2> QED BY <1>0, <2>0, <2>3 DEF PlaceInv, PastApply, InPlace
<1> QED BY <1>1, <1>2

LEMMA PlaceStep ==
    ASSUME Undisturbed, SelfContained, RequiredFirst
    PROVE  TypeOK /\ FinalizerInv /\ PruneInv /\ CleanInv /\ PlaceInv /\ [Next]_vars => PlaceInv'
<1> SUFFICES ASSUME TypeOK, FinalizerInv, PruneInv, CleanInv, PlaceInv, [Next]_vars
             PROVE  PlaceInv'
  OBVIOUS
<1>1. CASE Begin
  <2>1. UNCHANGED cluster /\ (UNCHANGED worker \/ (konfig' = cache /\ pc' = Route(cache)))
    BY <1>1 DEF Begin, Goto
  <2>2. CASE UNCHANGED worker
    BY <2>1, <2>2, PlaceKept DEF worker, Locals
  <2>3. CASE konfig' = cache /\ pc' = Route(cache)
    BY <2>3, PlaceLeft DEF Route
  <2> QED BY <2>1, <2>2, <2>3
<1>2. CASE \/ AddFinalizer \/ PrepareSource \/ CheckDependencies \/ SetProgressing \/ SetNotReady
           \/ SetReady2 \/ SetNotReadySnapshot1 \/ SetNotReadySnapshot2 \/ RemoveFinalizer
           \/ Crash
  <2>1. pc' \notin {"dryrun", "apply", "health", "ready1", "ready2", "prune"}
    BY <1>2 DEF AddFinalizer, PrepareSource, CheckDependencies, SetProgressing, SetNotReady,
                SetReady2, SetNotReadySnapshot1, SetNotReadySnapshot2, RemoveFinalizer, Crash,
                PatchHealthiness, ReturnError, ReturnAfter, Drop, Fail, Goto
  <2> QED BY <2>1, PlaceLeft
<1>3. CASE Build
  <2>1. /\ UNCHANGED cluster
        /\ Fail(rev) \/ /\ pc' \in {"dryrun", "apply"}
                        /\ todo' = Manifest[rev] /\ UNCHANGED rev
    BY <1>3 DEF Build, Fails, Goto
  <2>2. CASE Fail(rev)
    BY <2>2, PlaceLeft DEF Fail, Goto
  <2> QED BY <2>1, <2>2 DEF PlaceInv, PastApply
<1>4. CASE DryRun
  BY <1>4, PlaceDryRun
<1>5. CASE DryRunDone \/ ApplyDone
  <2>1. /\ pc \in {"dryrun", "apply"} /\ todo = {} /\ UNCHANGED <<rev, konfig, cluster>>
        /\ \/ pc' = "apply" /\ todo' = Manifest[rev]
           \/ (pc = "apply" \/ ~changed) /\ pc' \in {"prune", "health"}
    BY <1>5 DEF DryRunDone, ApplyDone, EnterPrune, Goto
  <2> QED BY <2>1 DEF PlaceInv, PastApply, InPlace
<1>6. CASE Apply
  BY <1>6, PlaceApply
<1>7. CASE PruneList
  <2>1. pc = "prune" /\ UNCHANGED <<pc, konfig, rev, cluster>>
    BY <1>7 DEF PruneList
  <2> QED BY <2>1 DEF PlaceInv, PastApply, InPlace
<1>8. CASE PruneDelete
  BY <1>8, PlaceDelete
<1>9. CASE PruneDone \/ CheckHealth \/ SetReady1
  <2>1. /\ UNCHANGED cluster
        /\ \/ pc' \in {"idle", "failed", "finalize", "unhealthy1"}
           \/ PastApply /\ pc' \in {"health", "ready1", "ready2"} /\ UNCHANGED rev
    BY <1>9 DEF PruneDone, CheckHealth, SetReady1, PatchHealthiness, ReturnError, ReturnAfter,
                Drop, Fail, Goto, PastApply
  <2>2. CASE pc' \in {"idle", "failed", "finalize", "unhealthy1"}
    BY <2>2, PlaceLeft
  <2>3. CASE PastApply /\ pc' \in {"health", "ready1", "ready2"} /\ UNCHANGED rev
    BY <2>1, <2>3 DEF PlaceInv, PastApply, InPlace
  <2> QED BY <2>1, <2>2, <2>3
<1>10. CASE ReadBase \/ (Surroundings /\ ~Crash) \/ UNCHANGED vars
  <2>1. UNCHANGED Locals
    BY <1>10 DEF ReadBase, KeepLists, Surroundings, CacheSync, TimerFires, SourceChanges,
                 UserCreates, UserEdits, UserDeletes, Drift, FinishTermination, vars, worker,
                 Locals
  <2>2. ~Apply /\ ~PruneDelete => UNCHANGED cluster
    BY OnlyPassChangesCluster
  <2> QED BY <1>6, <1>8, <2>1, <2>2, PlaceKept
<1> QED BY <1>1, <1>2, <1>3, <1>4, <1>5, <1>6, <1>7, <1>8, <1>9, <1>10 DEF Next, Worker

LEMMA PlaceInit == Init => PlaceInv
BY DEF Init, PlaceInv, PastApply

-------------------------------------------------------------------------------
(***************************************************************************)
(* The status.  A patch stores its own Ready condition or leaves the       *)
(* stored one, as the two conditions it was made from say; a dry-run       *)
(* request stores False or nothing.                                        *)
(***************************************************************************)

\* From SetProgressing to the last patch of the pass.
Reporting == \/ pc \in {"build", "dryrun", "apply", "health",
                        "ready1", "ready2", "unhealthy1", "unhealthy2"}
             \/ pc = "prune" /\ ~konfig.deleting

Unready(s) == s.ready.st # "True"

StatusInv ==
    /\ cache = api
    /\ Reporting => Unready(api.status) /\ Unready(konfig.status)
    /\ base.read => /\ pc \in Patching
                    /\ api.status.ready = base.status.ready \/ Unready(api.status)
    /\ ~api.fin => Unready(api.status)

LEMMA StatusInit == Init => StatusInv
BY DEF Init, StatusInv, Reporting, Unready, NoKonfiguration, NoStatus, NoCondition, Unread

\* A patch stores its Ready condition or leaves the stored one, and leaves it
\* only where it is made from the same.
LEMMA PatchReady ==
    ASSUME TypeOK, NEW stored \in Statuses, NEW new \in Statuses, PatchFrom(stored, new)
    PROVE  /\ \/ api'.status.ready = new.ready
              \/ api'.status.ready = api.status.ready /\ stored.ready = new.ready
           /\ SameFlags(api', api)
<1>1. api \in Konfigurations
  BY DEF TypeOK
<1>2. api' = [api EXCEPT !.status = MergePatch(stored, new, api.status)]
  BY DEF PatchFrom, Write
<1>3. MergePatch(stored, new, api.status).ready
        = (IF <<new.ready, new.healthy>> = <<stored.ready, stored.healthy>>
           THEN <<api.status.ready, api.status.healthy>> ELSE <<new.ready, new.healthy>>)[1]
  BY DEF MergePatch, Changed
<1>4. \/ MergePatch(stored, new, api.status).ready = new.ready
      \/ /\ MergePatch(stored, new, api.status).ready = api.status.ready
         /\ stored.ready = new.ready
  BY <1>3
<1> QED BY <1>1, <1>2, <1>4 DEF Konfigurations, SameFlags

\* A step after which the status is not ready, or its Ready condition and the
\* finalizer are what they were.
LEMMA StatusKept ==
    ASSUME StatusInv, cache' = api',
           \/ Unready(api'.status)
           \/ api'.status.ready = api.status.ready /\ (api.fin => api'.fin),
           Reporting' => Unready(api'.status) /\ Unready(konfig'.status),
           base' = Unread \/ (UNCHANGED base /\ pc' = pc)
    PROVE  StatusInv'
BY DEF StatusInv, Unready, Unread

\* A step of a pass that goes on reporting, without a patch.
LEMMA StatusSame ==
    ASSUME StatusInv, cache' = api', UNCHANGED api,
           Reporting' => Reporting /\ UNCHANGED konfig,
           base' = Unread \/ (UNCHANGED base /\ pc' = pc)
    PROVE  StatusInv'
BY StatusKept DEF StatusInv, Unready

\* A patch of the pass with a status that is not ready.
LEMMA StatusPatched ==
    ASSUME TypeOK, StatusInv, cache' = api', NEW new \in Statuses, Patch(new),
           Unready(new), Reporting' => Unready(konfig'.status)
    PROVE  StatusInv' /\ Unready(api'.status)
<1>1. /\ base.read /\ PatchFrom(base.status, new) /\ base' = Unread
      /\ base.status \in Statuses
  BY DEF Patch, TypeOK, Bases
<1>2. \/ api'.status.ready = new.ready
      \/ api'.status.ready = api.status.ready /\ base.status.ready = new.ready
  BY <1>1, PatchReady
<1>3. Unready(api'.status)
  BY <1>1, <1>2 DEF StatusInv, Unready
<1> QED BY <1>1, <1>3, StatusKept

\* The condition patches, of a pass that is under way, has failed or is unhealthy.
LEMMA StatusConditions ==
    ASSUME TypeOK, StatusInv, cache' = api',
           SetProgressing \/ SetNotReady \/ SetNotReadySnapshot2
    PROVE  StatusInv' /\ (Unready(api'.status) \/ UNCHANGED api)
<1>0. /\ konfig \in Konfigurations /\ konfig.status \in Statuses /\ konfig.gen \in Nat
      /\ rev \in Revs \union {NoRev}
  BY DEF TypeOK, Konfigurations
<1>1. CASE PatchFails /\ Drop
  BY <1>1, StatusSame DEF PatchFails, Drop, Reporting
<1>2. CASE SetProgressing /\ pc' = "build"
  <2> DEFINE new(t) == Progressing(konfig.status, t)
  <2>1. PICK t \in Stamps : Patch(new(t)) /\ konfig' = [konfig EXCEPT !.status = new(t)]
    BY <1>2 DEF SetProgressing, ReturnError, Drop
  <2>2. new(t) \in Statuses /\ new(t).ready.st = "Unknown"
    BY <1>0, ProgressingType DEF Progressing, SetResourceCondition, Statuses
  <2> HIDE DEF new
  <2>3. konfig'.status = new(t)
    BY <1>0, <2>1 DEF Konfigurations
  <2> QED BY <2>1, <2>2, <2>3, StatusPatched DEF Unready
<1>3. CASE (SetNotReady \/ SetNotReadySnapshot2) /\ PatchReadiness("False")
  <2> DEFINE new(t) == Readiness(konfig.status, konfig.gen, "False", rev, t)
  <2>1. PICK t \in Stamps : Patch(new(t))
    BY <1>3 DEF PatchReadiness
  <2>2. new(t) \in Statuses /\ new(t).ready.st = "False"
    BY <1>0, ReadinessType, ReadinessFields
  <2> HIDE DEF new
  <2>3. ~Reporting'
    BY <1>3 DEF SetNotReady, SetNotReadySnapshot2, ReturnAfter, Drop, Reporting
  <2> QED BY <2>1, <2>2, <2>3, StatusPatched DEF Unready
<1>4. \/ PatchFails /\ Drop
      \/ SetProgressing /\ pc' = "build"
      \/ (SetNotReady \/ SetNotReadySnapshot2) /\ PatchReadiness("False")
  <2>1. CASE SetProgressing
    BY <2>1 DEF SetProgressing, ReturnError, Goto
  <2>2. CASE SetNotReady
    BY <2>2 DEF SetNotReady, PatchReadiness, ReturnAfter
  <2>3. CASE SetNotReadySnapshot2
    BY <2>3 DEF SetNotReadySnapshot2, ReturnAfter
  <2> QED BY <2>1, <2>2, <2>3
<1> QED BY <1>1, <1>2, <1>3, <1>4 DEF PatchFails

\* The pass's copy carries what SetReady stores before its patches.
Complete(s) == s.applied = rev /\ s.sum = Sum[rev] /\ s.entries = KindsOf(rev)

\* The first patch of SetReady and of SetNotReadySnapshot leaves Ready as it is
\* in the pass's copy.
LEMMA StatusSnapshots ==
    ASSUME TypeOK, StatusInv, cache' = api', SetReady1 \/ SetNotReadySnapshot1
    PROVE  /\ StatusInv' /\ Unready(api'.status)
           /\ pc' = "ready2" => Complete(konfig.status)'
<1>0. /\ konfig \in Konfigurations /\ konfig.status \in Statuses
      /\ rev \in Revs /\ Sum[rev] \in Sums /\ KindsOf(rev) \in SUBSET Kinds
      /\ Unready(konfig.status) /\ Unready(api.status)
  <2>1. /\ konfig \in Konfigurations /\ konfig.status \in Statuses /\ rev \in Revs
        /\ Unready(konfig.status) /\ Unready(api.status)
    BY DEF TypeOK, HasRevision, SetReady1, SetNotReadySnapshot1, Konfigurations, StatusInv,
           Reporting
  <2> QED BY <2>1, ManifestAssumption, KindAssumption DEF KindsOf
<1>1. PICK s \in Statuses, st \in {"True", "False"}, next \in {"ready2", "unhealthy2"} :
        /\ PatchHealthiness(s, st, next)
        /\ s.ready = konfig.status.ready
        /\ next = "ready2" => s.applied = rev /\ s.sum = Sum[rev] /\ s.entries = KindsOf(rev)
  <2>1. CASE SetReady1
    <3> DEFINE s == Applied(konfig.status, rev, Sum[rev], KindsOf(rev))
    <3>1. /\ s \in Statuses /\ s.ready = konfig.status.ready
          /\ s.applied = rev /\ s.sum = Sum[rev] /\ s.entries = KindsOf(rev)
      BY <1>0, SnapshotType DEF Applied, Statuses
    <3>2. PatchHealthiness(s, "True", "ready2")
      BY <2>1 DEF SetReady1
    <3> HIDE DEF s
    <3> QED BY <3>1, <3>2
  <2>2. CASE SetNotReadySnapshot1
    <3> DEFINE s == AttemptedSnapshot(konfig.status, rev, Sum[rev], KindsOf(rev))
    <3>1. s \in Statuses /\ s.ready = konfig.status.ready
      BY <1>0, SnapshotType DEF AttemptedSnapshot, Statuses
    <3>2. PatchHealthiness(s, "False", "unhealthy2")
      BY <2>2 DEF SetNotReadySnapshot1
    <3> HIDE DEF s
    <3> QED BY <3>1, <3>2
  <2> QED BY <2>1, <2>2
<1>2. CASE PatchFails /\ Drop
  BY <1>0, <1>2, StatusSame DEF PatchFails, Drop, Reporting
<1>3. CASE \E t \in Stamps :
             /\ Patch(Healthiness(s, st, rev, t))
             /\ konfig' = [konfig EXCEPT !.status = Healthiness(s, st, rev, t)]
             /\ pc' = next /\ UNCHANGED rev
  <2> DEFINE new(t) == Healthiness(s, st, rev, t)
  <2>1. PICK t \in Stamps : /\ Patch(new(t))
                            /\ konfig' = [konfig EXCEPT !.status = new(t)]
                            /\ pc' = next /\ UNCHANGED rev
    BY <1>3
  <2>2. /\ new(t) \in Statuses /\ new(t).ready = s.ready
        /\ new(t).applied = s.applied /\ new(t).sum = s.sum /\ new(t).entries = s.entries
    BY <1>0, HealthinessType DEF Healthiness, Statuses
  <2> HIDE DEF new
  <2>3. konfig'.status = new(t)
    BY <1>0, <2>1 DEF Konfigurations
  <2>4. pc' = "ready2" => Complete(konfig.status)'
    BY <1>1, <2>1, <2>2, <2>3 DEF Complete, KindsOf
  <2>5. Unready(new(t)) /\ Unready(konfig'.status)
    BY <1>0, <1>1, <2>2, <2>3 DEF Unready
  <2> QED BY <2>1, <2>2, <2>4, <2>5, StatusPatched
<1>4. \/ PatchFails /\ Drop
      \/ \E t \in Stamps :
           /\ Patch(Healthiness(s, st, rev, t))
           /\ konfig' = [konfig EXCEPT !.status = Healthiness(s, st, rev, t)]
           /\ pc' = next /\ UNCHANGED rev
  BY <1>1 DEF PatchHealthiness, Goto, ReturnError, ReturnAfter
<1> QED BY <1>2, <1>3, <1>4

\* What else writes the Konfiguration: a user, the finalizer, the end.  It
\* keeps its status, or loses it, and becomes ready by none.
OtherWrite == \/ api'.status = NoStatus
              \/ /\ api'.status = api.status
                 /\ api.fin => api'.fin
                 /\ IsReady(api') => IsReady(api)

LEMMA UserWrites ==
    ASSUME TypeOK, UserCreates \/ UserEdits \/ UserDeletes
    PROVE  OtherWrite /\ UNCHANGED <<cluster, worker>>
<1>0. api \in Konfigurations /\ UNCHANGED <<cluster, worker>>
  BY DEF TypeOK, UserCreates, UserEdits, UserDeletes
<1>1. CASE UserCreates
  BY <1>0, <1>1 DEF UserCreates, Write, NewKonfiguration, NoKonfiguration, OtherWrite
<1>2. CASE UserEdits
  <2>1. /\ api'.status = api.status /\ api'.fin = api.fin
        /\ api'.exists = api.exists /\ api'.deleting = api.deleting
    BY <1>0, <1>2 DEF UserEdits, Write, Konfigurations
  <2> QED BY <1>0, <2>1 DEF IsReady, OtherWrite
<1>3. CASE UserDeletes /\ api.fin
  <2>1. api' = [api EXCEPT !.deleting = TRUE, !.gen = @ + 1]
    BY <1>3 DEF UserDeletes, Write
  <2>2. api'.status = api.status /\ api'.fin = api.fin /\ api'.deleting
    BY <1>0, <2>1 DEF Konfigurations
  <2> QED BY <1>0, <2>2 DEF IsReady, OtherWrite
<1>4. CASE UserDeletes /\ ~api.fin
  BY <1>0, <1>4 DEF UserDeletes, Write, NoKonfiguration, OtherWrite
<1> QED BY <1>1, <1>2, <1>3, <1>4

LEMMA FinalizerWrites ==
    ASSUME TypeOK, AddFinalizer \/ RemoveFinalizer
    PROVE  /\ OtherWrite /\ UNCHANGED cluster /\ pc' \in {"idle", "source"}
           /\ pc \notin Patching /\ (base' = Unread \/ UNCHANGED base)
<1>0. /\ api \in Konfigurations /\ UNCHANGED cluster /\ pc' \in {"idle", "source"}
      /\ pc \notin Patching /\ (base' = Unread \/ UNCHANGED base)
  BY DEF TypeOK, AddFinalizer, RemoveFinalizer, ReturnError, ReturnAfter, Drop, Goto, Patching
<1>1. CASE UNCHANGED api
  BY <1>0, <1>1 DEF OtherWrite
<1>2. CASE api' = Registered(api)
  <2>1. /\ api'.status = api.status /\ api'.fin
        /\ api'.exists = api.exists /\ api'.deleting = api.deleting
    BY <1>0, <1>2 DEF Registered, Konfigurations
  <2> QED BY <1>0, <2>1 DEF IsReady, OtherWrite
<1>3. CASE api' = NoKonfiguration(api.gen + 1)
  BY <1>0, <1>3 DEF NoKonfiguration, OtherWrite
<1> QED BY <1>0, <1>1, <1>2, <1>3 DEF AddFinalizer, RemoveFinalizer, Write

LEMMA StatusOther ==
    ASSUME StatusInv, cache' = api', OtherWrite,
           \/ UNCHANGED worker
           \/ pc' \in {"idle", "source"} /\ pc \notin Patching /\ (base' = Unread \/ UNCHANGED base)
    PROVE  StatusInv'
<1>1. Unready(NoStatus)
  BY DEF NoStatus, NoCondition, Unready
<1>2. Unready(api'.status) \/ (api'.status = api.status /\ (api.fin => api'.fin))
  BY <1>1 DEF OtherWrite
<1>3. CASE UNCHANGED worker
  BY <1>2, <1>3 DEF StatusInv, Reporting, worker, Unready
<1>4. CASE /\ pc' \in {"idle", "source"} /\ pc \notin Patching
           /\ base' = Unread \/ UNCHANGED base
  BY <1>2, <1>4 DEF StatusInv, Reporting, Unready, Unread
<1> QED BY <1>3, <1>4

\* The steps of a pass and around it that write neither the Konfiguration nor
\* the base, and lead to no report.
LEMMA StatusStill ==
    ASSUME StatusInv, [Next]_vars, cache' = api',
           \/ Begin \/ PrepareSource \/ CheckDependencies \/ Build \/ DryRun \/ DryRunDone
           \/ Apply \/ ApplyDone \/ PruneList \/ PruneDelete \/ PruneDone \/ CheckHealth
    PROVE  StatusInv'
<1>1. UNCHANGED api /\ pc \notin Patching
  BY DEF Begin, PrepareSource, CheckDependencies, Build, DryRun, DryRunDone, Apply, ApplyDone,
         PruneList, PruneDelete, PruneDone, CheckHealth, Ambient, Patching
<1>2. base' = Unread \/ (UNCHANGED base /\ ~base.read)
  BY <1>1, BaseSteps DEF StatusInv, ReadBase
<1>3. Reporting' => Reporting /\ UNCHANGED konfig
  <2>1. CASE Begin
    <3>1. UNCHANGED worker \/ (konfig' = cache /\ pc' = Route(cache))
      BY <2>1 DEF Begin, Goto
    <3>2. CASE UNCHANGED worker
      BY <3>2 DEF worker, Reporting
    <3>3. CASE konfig' = cache /\ pc' = Route(cache)
      BY <3>3 DEF Route, Reporting
    <3> QED BY <3>1, <3>2, <3>3
  <2>2. CASE \/ PrepareSource \/ CheckDependencies \/ Build \/ DryRun \/ DryRunDone
             \/ Apply \/ ApplyDone \/ PruneList \/ PruneDelete \/ PruneDone \/ CheckHealth
    BY <2>2 DEF PrepareSource, CheckDependencies, Build, DryRun, DryRunDone, Apply, ApplyDone,
                PruneList, PruneDelete, PruneDone, CheckHealth, EnterPrune, Fails, Fail, Goto,
                Drop, ReturnError, KeepLists, worker, Reporting
  <2> QED BY <2>1, <2>2
<1> QED BY <1>1, <1>2, <1>3 DEF StatusInv, Unread, Unready

LEMMA StatusStep ==
    ASSUME ~Lag
    PROVE  TypeOK /\ FinalizerInv /\ StatusInv /\ [Next]_vars => StatusInv'
<1> SUFFICES ASSUME TypeOK, FinalizerInv, StatusInv, [Next]_vars PROVE StatusInv'
  OBVIOUS
<1>0. cache' = api'
  BY CacheKeepsUp DEF StatusInv
<1>1. CASE SetProgressing \/ SetNotReady \/ SetNotReadySnapshot2
  BY <1>0, <1>1, StatusConditions
<1>2. CASE SetReady1 \/ SetNotReadySnapshot1
  BY <1>0, <1>2, StatusSnapshots
<1>3. CASE SetReady2
  <2>1. CASE PatchFails /\ Drop
    BY <1>0, <2>1, StatusSame DEF PatchFails, Drop, Reporting
  <2>2. CASE (\E new : Patch(new)) /\ Drop
    <3>1. api.fin /\ SameFlags(api', api)
      BY <1>3, <2>2, PatchFlags DEF SetReady2, FinalizerInv, Reconciling, Held
    <3> QED BY <1>0, <2>2, <3>1 DEF StatusInv, SameFlags, Drop, Unread, Reporting
  <2> QED BY <1>3, <2>1, <2>2 DEF SetReady2, PatchReadiness, ReturnAfter, ReturnError
<1>4. CASE UserCreates \/ UserEdits \/ UserDeletes
  BY <1>0, <1>4, UserWrites, StatusOther
<1>5. CASE AddFinalizer \/ RemoveFinalizer
  BY <1>0, <1>5, FinalizerWrites, StatusOther
<1>6. CASE \/ Begin \/ PrepareSource \/ CheckDependencies \/ Build \/ DryRun \/ DryRunDone
           \/ Apply \/ ApplyDone \/ PruneList \/ PruneDelete \/ PruneDone \/ CheckHealth
  BY <1>0, <1>6, StatusStill
<1>7. CASE ReadBase
  <2>1. /\ pc \in Patching /\ UNCHANGED <<api, pc, konfig>>
        /\ base'.status = api.status
    BY <1>7 DEF ReadBase, StatusInv
  <2> QED BY <1>0, <2>1 DEF StatusInv, Reporting, Unready
<1>8. CASE Crash
  BY <1>0, <1>8, StatusSame DEF Crash, Drop, Reporting
<1>9. CASE \/ CacheSync \/ TimerFires \/ SourceChanges \/ Drift \/ FinishTermination
           \/ UNCHANGED vars
  <2>1. UNCHANGED <<api, pc, konfig, base>>
    BY <1>9 DEF CacheSync, TimerFires, SourceChanges, Drift, FinishTermination, vars, worker
  <2> QED BY <1>0, <2>1, StatusSame DEF Reporting
<1> QED BY <1>1, <1>2, <1>3, <1>4, <1>5, <1>6, <1>7, <1>8, <1>9
        DEF Next, Worker, Surroundings

\* With a cache that keeps up, Ready says True in no state in which a pass is
\* between its first patch and its last.
THEOREM StatusInvariant == ASSUME ~Lag PROVE Spec => []StatusInv
<1>1. TypeOK /\ FinalizerInv /\ StatusInv /\ [Next]_vars => StatusInv'
  BY StatusStep
<1> QED BY <1>1, StatusInit, TypeCorrect, FinalizerInvariant, PTL DEF Spec

-------------------------------------------------------------------------------
(***************************************************************************)
(* What the status records, with no other writer: a patch that is made     *)
(* from what is stored stores all of the status it is made of.             *)
(***************************************************************************)

\* The body of ReadyMeansRecorded, for a status s.
Recorded(s) ==
    LET r == s.ready.rev
    IN  /\ r = s.applied
        /\ r = s.attempted
        /\ Sum[r] = s.sum
        /\ KindsOf(r) = s.entries

RecordInv == /\ pc = "ready2" => Complete(konfig.status)
             /\ IsReady(api) => Recorded(api.status)

LEMMA RecordInit == Init => RecordInv
BY DEF Init, RecordInv, NoKonfiguration, IsReady

LEMMA SameStatus ==
    ASSUME NEW s \in Statuses, NEW u \in Statuses,
           s.ready = u.ready, s.healthy = u.healthy, s.obsGen = u.obsGen,
           s.applied = u.applied, s.attempted = u.attempted, s.sum = u.sum,
           s.entries = u.entries
    PROVE  s = u
BY DEF Statuses

LEMMA PatchStores ==
    ASSUME TypeOK, BaseCurrent, NEW new \in Statuses, Patch(new)
    PROVE  api'.status = new
<1>1. api \in Konfigurations /\ api.status \in Statuses
  BY DEF TypeOK, Konfigurations
<1>2. api' = [api EXCEPT !.status = MergePatch(api.status, new, api.status)]
  BY DEF Patch, PatchFrom, BaseCurrent, Write
<1>3. MergePatch(api.status, new, api.status) = new
  <2> DEFINE merged == MergePatch(api.status, new, api.status)
  <2>1. merged \in Statuses
    BY <1>1, MergePatchType
  <2>2. /\ merged.obsGen = new.obsGen /\ merged.applied = new.applied
        /\ merged.attempted = new.attempted /\ merged.sum = new.sum
        /\ merged.entries = new.entries
    BY DEF MergePatch, Changed
  <2>3. merged.ready = new.ready /\ merged.healthy = new.healthy
    <3> DEFINE pair == Changed(<<api.status.ready, api.status.healthy>>,
                               <<new.ready, new.healthy>>,
                               <<api.status.ready, api.status.healthy>>)
    <3>1. pair = <<new.ready, new.healthy>>
      BY DEF Changed
    <3>2. merged.ready = pair[1] /\ merged.healthy = pair[2]
      BY DEF MergePatch
    <3> QED BY <3>1, <3>2
  <2> HIDE DEF merged
  <2>4. merged = new
    BY <2>1, <2>2, <2>3, SameStatus
  <2> QED BY <2>4 DEF merged
<1> QED BY <1>1, <1>2, <1>3 DEF Konfigurations

\* The last patch of a pass that is through.
LEMMA RecordReady ==
    ASSUME TypeOK, BaseCurrent, RecordInv, SetReady2
    PROVE  RecordInv'
<1>0. /\ pc = "ready2" /\ pc' = "idle"
      /\ konfig \in Konfigurations /\ konfig.status \in Statuses /\ konfig.gen \in Nat
      /\ rev \in Revs /\ rev # NoRev
  BY RevAssumption DEF SetReady2, ReturnAfter, ReturnError, Drop, TypeOK, Konfigurations,
                       HasRevision
<1>1. CASE UNCHANGED api
  BY <1>0, <1>1 DEF RecordInv, Recorded, IsReady
<1>2. CASE PatchReadiness("True")
  <2> DEFINE new(t) == Readiness(konfig.status, konfig.gen, "True", rev, t)
  <2>1. PICK t \in Stamps : Patch(new(t))
    BY <1>2 DEF PatchReadiness
  <2>2. new(t) \in Statuses
    BY <1>0, ReadinessType
  <2>3. Recorded(new(t))
    BY <1>0, ReadinessFields DEF RecordInv, Complete, Recorded
  <2> HIDE DEF new
  <2>4. api'.status = new(t)
    BY <2>1, <2>2, PatchStores
  <2> QED BY <1>0, <2>3, <2>4 DEF RecordInv, Recorded, KindsOf
<1> QED BY <1>1, <1>2 DEF SetReady2, PatchFails

LEMMA RecordStep ==
    ASSUME ~Lag
    PROVE  TypeOK /\ BaseInv /\ StatusInv /\ RecordInv /\ [Next]_vars => RecordInv'
<1> SUFFICES ASSUME TypeOK, BaseInv, StatusInv, RecordInv, [Next]_vars PROVE RecordInv'
  OBVIOUS
<1>0. cache' = api' /\ BaseCurrent /\ ~IsReady(NoKonfiguration(0))
  BY CacheKeepsUp DEF StatusInv, BaseInv, NoKonfiguration, IsReady
<1>1. CASE SetProgressing \/ SetNotReady \/ SetNotReadySnapshot2
  <2>1. Unready(api'.status) \/ UNCHANGED api
    BY <1>0, <1>1, StatusConditions
  <2>2. pc' # "ready2"
    BY <1>1 DEF SetProgressing, SetNotReady, SetNotReadySnapshot2, ReturnError, ReturnAfter,
                Drop, Goto
  <2> QED BY <2>1, <2>2 DEF RecordInv, Recorded, KindsOf, IsReady, Unready
<1>2. CASE SetReady1 \/ SetNotReadySnapshot1
  BY <1>0, <1>2, StatusSnapshots DEF RecordInv, IsReady, Unready
<1>3. CASE SetReady2
  BY <1>0, <1>3, RecordReady
<1>4. CASE OtherWrite /\ (UNCHANGED <<pc, konfig, rev>> \/ pc' # "ready2")
  <2>1. NoStatus.ready.st # "True"
    BY DEF NoStatus, NoCondition
  <2>2. IsReady(api') => IsReady(api) /\ api'.status = api.status
    BY <1>4, <2>1 DEF OtherWrite, IsReady
  <2> QED BY <1>4, <2>2 DEF RecordInv, Recorded, Complete, KindsOf, IsReady
<1>5. CASE \/ UserCreates \/ UserEdits \/ UserDeletes \/ AddFinalizer \/ RemoveFinalizer
  BY <1>4, <1>5, UserWrites, FinalizerWrites DEF worker
<1>6. CASE \/ Begin \/ PrepareSource \/ CheckDependencies \/ Build \/ DryRun \/ DryRunDone
           \/ Apply \/ ApplyDone \/ PruneList \/ PruneDelete \/ PruneDone \/ CheckHealth
           \/ Crash
  <2>1. UNCHANGED api
    BY <1>6 DEF Begin, PrepareSource, CheckDependencies, Build, DryRun, DryRunDone, Apply,
                ApplyDone, PruneList, PruneDelete, PruneDone, CheckHealth, Crash, Ambient
  <2>2. UNCHANGED <<pc, konfig, rev>> \/ pc' # "ready2"
    BY <1>6 DEF Begin, PrepareSource, CheckDependencies, Build, DryRun, DryRunDone, Apply,
                ApplyDone, PruneList, PruneDelete, PruneDone, CheckHealth, Crash, EnterPrune,
                Fails, Fail, Goto, Drop, ReturnError, Route, worker
  <2> QED BY <2>1, <2>2 DEF RecordInv, Recorded, Complete, KindsOf, IsReady
<1>7. CASE \/ ReadBase \/ CacheSync \/ TimerFires \/ SourceChanges \/ Drift
           \/ FinishTermination \/ UNCHANGED vars
  <2>1. UNCHANGED <<api, pc, konfig, rev>>
    BY <1>7 DEF ReadBase, CacheSync, TimerFires, SourceChanges, Drift, FinishTermination, vars,
                worker
  <2> QED BY <2>1 DEF RecordInv, Recorded, Complete, KindsOf, IsReady
<1> QED BY <1>1, <1>2, <1>3, <1>5, <1>6, <1>7 DEF Next, Worker, Surroundings

\* Wherever a pass stopped between its patches, the revisions and the snapshot
\* of a Konfiguration that says Ready are those of the revision it names, if
\* the informer cache does not trail and no request patches the status
\* (SetReady, patchStatus).
THEOREM ReadyAlwaysRecorded == ASSUME ~Lag PROVE Spec => []ReadyMeansRecorded
<1>1. TypeOK /\ BaseInv /\ StatusInv /\ RecordInv /\ [Next]_vars => RecordInv'
  BY RecordStep
<1>2. RecordInv => ReadyMeansRecorded
  BY DEF RecordInv, Recorded, ReadyMeansRecorded
<1> QED BY <1>1, <1>2, RecordInit, TypeCorrect, ProgressInvariant, StatusInvariant, PTL DEF Spec

-------------------------------------------------------------------------------
(* What the cluster holds *)

\* The body of ReadyMeansInstalled, for a status s.
Installed(s) ==
    \A o \in Manifest[s.ready.rev] : /\ cluster[o].st = "live"
                                     /\ cluster[o].sum = Sum[s.ready.rev]

InstalledInv == IsReady(api) => Installed(api.status)

LEMMA InstalledInit == Init => InstalledInv
BY DEF Init, InstalledInv, NoKonfiguration, IsReady

\* A step that leaves the cluster and makes nothing ready.
LEMMA InstalledKept ==
    ASSUME InstalledInv, UNCHANGED cluster,
           \/ Unready(api'.status)
           \/ api'.status.ready = api.status.ready /\ (IsReady(api') => IsReady(api))
    PROVE  InstalledInv'
BY DEF InstalledInv, Installed, IsReady, Unready

LEMMA InstalledReady ==
    ASSUME TypeOK, PlaceInv, StatusInv, InstalledInv, SetReady2
    PROVE  InstalledInv'
<1>0. /\ pc = "ready2" /\ UNCHANGED cluster /\ Unready(api.status)
      /\ konfig.status \in Statuses /\ konfig.gen \in Nat /\ rev \in Revs
  BY DEF SetReady2, TypeOK, Konfigurations, HasRevision, StatusInv, Reporting
<1>1. CASE UNCHANGED api
  BY <1>0, <1>1, InstalledKept
<1>2. CASE PatchReadiness("True")
  <2> DEFINE new(t) == Readiness(konfig.status, konfig.gen, "True", rev, t)
  <2>1. PICK t \in Stamps : Patch(new(t))
    BY <1>2 DEF PatchReadiness
  <2>2. new(t) \in Statuses /\ new(t).ready.rev = rev
    BY <1>0, ReadinessType, ReadinessFields
  <2> HIDE DEF new
  <2>3. api'.status.ready = new(t).ready \/ api'.status.ready = api.status.ready
    BY <2>1, <2>2, PatchReady DEF Patch, TypeOK, Bases
  <2>4. CASE api'.status.ready = api.status.ready
    BY <1>0, <2>4, InstalledKept DEF Unready
  <2>5. CASE api'.status.ready = new(t).ready
    <3>1. \A o \in Manifest[rev] : InPlace(o)
      BY <1>0 DEF PlaceInv, PastApply
    <3> QED BY <1>0, <2>2, <2>5, <3>1 DEF InstalledInv, Installed, InPlace
  <2> QED BY <2>3, <2>4, <2>5
<1> QED BY <1>1, <1>2 DEF SetReady2, PatchFails

\* While the cluster is changed the status is not ready.
LEMMA ClusterUnready ==
    ASSUME TypeOK, FinalizerInv, StatusInv, Apply \/ PruneDelete
    PROVE  ~IsReady(api)
<1>1. CASE Reporting
  BY <1>1 DEF StatusInv, IsReady, Unready
<1>2. CASE ~Reporting
  <2>1. Removing
    BY <1>2 DEF Apply, PruneDelete, Reporting, Removing
  <2> QED BY <2>1 DEF FinalizerInv, Serving, Held, StatusInv, IsReady, Unready
<1> QED BY <1>1, <1>2

LEMMA InstalledStep ==
    ASSUME ~Lag, Undisturbed
    PROVE  TypeOK /\ FinalizerInv /\ CleanInv /\ PlaceInv /\ StatusInv /\ InstalledInv
           /\ [Next]_vars => InstalledInv'
<1> SUFFICES ASSUME TypeOK, FinalizerInv, CleanInv, PlaceInv, StatusInv, InstalledInv,
                    [Next]_vars
             PROVE  InstalledInv'
  OBVIOUS
<1>0. cache' = api'
  BY CacheKeepsUp DEF StatusInv
<1>1. CASE Apply \/ PruneDelete
  <2>1. ~IsReady(api) /\ UNCHANGED api
    BY <1>1, ClusterUnready DEF Apply, PruneDelete, Ambient
  <2> QED BY <2>1 DEF InstalledInv, IsReady
<1>2. ~Apply /\ ~PruneDelete => UNCHANGED cluster
  BY OnlyPassChangesCluster
<1>3. CASE SetReady2
  BY <1>3, InstalledReady
<1>4. CASE \/ SetProgressing \/ SetNotReady \/ SetNotReadySnapshot2
           \/ SetReady1 \/ SetNotReadySnapshot1
  <2>1. Unready(api'.status) \/ UNCHANGED api
    BY <1>0, <1>4, StatusConditions, StatusSnapshots
  <2> QED BY <1>1, <1>2, <2>1, InstalledKept
<1>5. CASE \/ UserCreates \/ UserEdits \/ UserDeletes \/ AddFinalizer \/ RemoveFinalizer
  <2>1. OtherWrite
    BY <1>5, UserWrites, FinalizerWrites
  <2>2. Unready(NoStatus)
    BY DEF NoStatus, NoCondition, Unready
  <2>3. \/ Unready(api'.status)
        \/ api'.status.ready = api.status.ready /\ (IsReady(api') => IsReady(api))
    BY <2>1, <2>2 DEF OtherWrite
  <2> QED BY <1>1, <1>2, <2>3, InstalledKept
<1>6. CASE \/ Begin \/ PrepareSource \/ CheckDependencies \/ ReadBase \/ Build \/ DryRun
           \/ DryRunDone \/ ApplyDone \/ PruneList \/ PruneDone \/ CheckHealth
           \/ CacheSync \/ TimerFires \/ SourceChanges \/ Drift \/ FinishTermination
           \/ Crash \/ UNCHANGED vars
  <2>1. UNCHANGED api
    BY <1>6 DEF Begin, PrepareSource, CheckDependencies, ReadBase, Build, DryRun, DryRunDone,
                ApplyDone, PruneList, PruneDone, CheckHealth, CacheSync, TimerFires,
                SourceChanges, Drift, FinishTermination, Crash, vars, Ambient
  <2> QED BY <1>1, <1>2, <2>1, InstalledKept
<1> QED BY <1>1, <1>3, <1>4, <1>5, <1>6 DEF Next, Worker, Surroundings

\* All of it together; PruneInv keeps the pruning off the manifest.
ReadyInv == /\ FinalizerInv /\ PruneInv /\ CleanInv /\ PlaceInv
            /\ StatusInv /\ InstalledInv

LEMMA ReadyStep ==
    ASSUME ~Lag, Undisturbed, SelfContained, RequiredFirst
    PROVE  TypeOK /\ ReadyInv /\ [Next]_vars => ReadyInv'
BY FinalizerStep, PruneStep, CleanStep, PlaceStep, StatusStep, InstalledStep DEF ReadyInv

LEMMA ReadyInit == Init => ReadyInv
BY FinalizerInit, PruneInit, CleanInit, PlaceInit, StatusInit, InstalledInit DEF ReadyInv

\* Whatever calls fail and wherever the controller crashes, a Konfiguration
\* that says Ready has every object of the revision it names in the cluster
\* (SetProgressing, SetReady, patchStatus).
THEOREM ReadyAlwaysInstalled ==
    ASSUME ~Lag, Undisturbed, SelfContained, RequiredFirst
    PROVE  Spec => []ReadyMeansInstalled
<1>1. TypeOK /\ ReadyInv /\ [Next]_vars => ReadyInv'
  BY ReadyStep
<1>2. ReadyInv => ReadyMeansInstalled
  BY DEF ReadyInv, InstalledInv, Installed, ReadyMeansInstalled
<1> QED BY <1>1, <1>2, ReadyInit, TypeCorrect, PTL DEF Spec

-------------------------------------------------------------------------------
(* The same next to health checks, lost credentials and dry-run requests, whose *)
(* patches may come between the Get and the Patch of the pass's.                *)

\* What a request leaves of the Ready condition.
LEMMA BesideReady ==
    ASSUME TypeOK, Beside
    PROVE  /\ Unready(api'.status) \/ api'.status.ready = api.status.ready
           /\ SameFlags(api', api)
<1>1. CASE UNCHANGED <<api, cache>>
  BY <1>1 DEF SameFlags
<1>2. CASE \E stored, new \in Statuses : new.ready.st = "False" /\ PatchFrom(stored, new)
  BY <1>2, PatchReady DEF Unready
<1> QED BY <1>1, <1>2 DEF Beside

LEMMA OpsStatusStep ==
    ASSUME ~Lag
    PROVE  TypeOK /\ RequestInv /\ FinalizerInv /\ StatusInv /\ [OpsNext]_opsVars => StatusInv'
<1> SUFFICES ASSUME TypeOK, RequestInv, FinalizerInv, StatusInv, [OpsNext]_opsVars
             PROVE  StatusInv'
  OBVIOUS
<1>1. CASE [Next]_vars
  BY <1>1, StatusStep
<1>2. CASE BuildWithoutClient
  <2>1. /\ pc = "build" /\ pc' = "failed" /\ UNCHANGED <<api, cache, base>>
    BY <1>2 DEF BuildWithoutClient, Fail, Goto, Ambient
  <2> QED BY <2>1 DEF StatusInv, Reporting, Patching, Unready
<1>3. CASE Beside
  <2>1. cache' = api'
    BY <1>3 DEF Beside, PatchFrom, Write, StatusInv
  <2>2. UNCHANGED <<pc, konfig, base>>
    BY <1>3 DEF Beside, worker
  <2>3. api'.fin = api.fin
    BY <1>3, BesideReady DEF SameFlags
  <2>4. Reporting' => Unready(api'.status) /\ Unready(konfig'.status)
    BY <1>3, <2>2, BesideReady DEF StatusInv, Reporting, Unready
  <2> QED BY <1>3, <2>1, <2>2, <2>3, <2>4, BesideReady, StatusKept
<1> QED BY <1>1, <1>2, <1>3, OpsSteps

\* Nor does Ready say True next to requests while a pass changes the cluster,
\* whichever patch comes between the Get and the Patch of another
\* (SetProgressing, DryRunFunc, patchStatus).
THEOREM NotReadyBesideRequests == ASSUME ~Lag PROVE OpsSpec => []NoReadyWhileApplying
<1>1. TypeOK /\ RequestInv /\ FinalizerInv /\ StatusInv /\ [OpsNext]_opsVars => StatusInv'
  BY OpsStatusStep
<1>2. StatusInv => NoReadyWhileApplying
  BY DEF StatusInv, Reporting, Unready, NoReadyWhileApplying
<1>3. OpsInit => TypeOK /\ RequestInv /\ FinalizerInv /\ RemovalInv /\ StatusInv
  BY InitTypeOK, RequestInit, FinalizerInit, RemovalInit, StatusInit DEF OpsInit
<1> QED BY <1>1, <1>2, <1>3, RequestStep, OpsNextTypeOK, OpsFinalizerStep, PTL DEF OpsSpec

LEMMA OpsReadyStep ==
    ASSUME ~Lag, Undisturbed, SelfContained, RequiredFirst
    PROVE  TypeOK /\ RequestInv /\ ReadyInv /\ [OpsNext]_opsVars => ReadyInv'
<1> SUFFICES ASSUME TypeOK, RequestInv, ReadyInv, [OpsNext]_opsVars PROVE ReadyInv'
  OBVIOUS
<1>0. FinalizerInv /\ PruneInv /\ CleanInv /\ PlaceInv /\ StatusInv /\ InstalledInv
  BY DEF ReadyInv
<1>1. PruneInv' /\ StatusInv'
  BY <1>0, OpsPruneStep, OpsStatusStep
<1>2. CASE [Next]_vars
  BY <1>2, ReadyStep
<1>3. CASE BuildWithoutClient
  <2>1. /\ pc = "build" /\ pc' = "failed" /\ UNCHANGED <<konfig, api, cache, cluster>>
        /\ items' = {}
    BY <1>3 DEF BuildWithoutClient, Fail, Goto, Ambient
  <2>2. ~konfig.deleting /\ Reconciling
    BY <1>0, <2>1 DEF FinalizerInv, Reconciling
  <2>3. FinalizerInv'
    BY <1>0, <1>3, <2>1, <2>2, BesideFlags, FinalizerPassKept
  <2>4. PlaceInv'
    BY <2>1, PlaceLeft
  <2>5. CleanInv'
    BY <1>0, <2>1 DEF CleanInv
  <2>6. InstalledInv'
    BY <1>0, <2>1, InstalledKept
  <2> QED BY <1>1, <2>3, <2>4, <2>5, <2>6 DEF ReadyInv
<1>4. CASE Beside
  <2>1. UNCHANGED <<cluster, worker>>
    BY <1>4 DEF Beside
  <2>2. FinalizerInv'
    BY <1>0, <1>4, <2>1, BesideFlags, FinalizerKept
       DEF worker, Reconciling, Removing, FinalizerInv
  <2>3. CleanInv' /\ PlaceInv'
    BY <1>0, <2>1, PlaceKept DEF CleanInv, worker, Locals
  <2>4. InstalledInv'
    BY <1>0, <1>4, <2>1, BesideReady, InstalledKept DEF SameFlags, IsReady
  <2> QED BY <1>1, <2>2, <2>3, <2>4 DEF ReadyInv
<1> QED BY <1>2, <1>3, <1>4, OpsSteps

\* Dry-run requests that patch the same status between the pass's Get and its
\* Patch, passes without a client and health checks that end in any way leave
\* Ready to mean that the objects are installed (DryRunFunc, reconcile,
\* checkHealth).
THEOREM InstalledBesideRequests ==
    ASSUME ~Lag, Undisturbed, SelfContained, RequiredFirst
    PROVE  OpsSpec => []ReadyMeansInstalled
<1>1. TypeOK /\ RequestInv /\ ReadyInv /\ [OpsNext]_opsVars => ReadyInv'
  BY OpsReadyStep
<1>2. ReadyInv => ReadyMeansInstalled
  BY DEF ReadyInv, InstalledInv, Installed, ReadyMeansInstalled
<1>3. OpsInit => TypeOK /\ RequestInv /\ ReadyInv
  BY InitTypeOK, RequestInit, ReadyInit DEF OpsInit
<1> QED BY <1>1, <1>2, <1>3, RequestStep, OpsNextTypeOK, PTL DEF OpsSpec

===============================================================================
