--------------------------- MODULE ReconcilerProofs ---------------------------
(***************************************************************************)
(* Theorems about Reconciler, for every value of its constants.            *)
(***************************************************************************)
EXTENDS Reconciler, TLAPS

-------------------------------------------------------------------------------
(* The operators the steps are made of keep their types. *)

LEMMA ConditionType ==
    ASSUME NEW c \in Conditions, NEW st \in {"None", "Unknown", "True", "False"},
           NEW r \in Revs \union {NoRev}, NEW t \in Stamps
    PROVE  SetResourceCondition(c, st, r, t) \in Conditions
BY DEF SetResourceCondition, Conditions

LEMMA NoStatusType == NoCondition \in Conditions /\ NoStatus \in Statuses
<1>1. NoCondition \in Conditions
  BY StampAssumption DEF NoCondition, Conditions
<1> QED BY <1>1 DEF NoStatus, Statuses

LEMMA ProgressingType ==
    ASSUME NEW s \in Statuses, NEW t \in Stamps
    PROVE  Progressing(s, t) \in Statuses
<1>1. s.ready \in Conditions
  BY DEF Statuses
<1>2. SetResourceCondition(s.ready, "Unknown", NoRev, t) \in Conditions
  BY <1>1, ConditionType
<1> QED BY <1>2 DEF Progressing, Statuses

LEMMA HealthinessType ==
    ASSUME NEW s \in Statuses, NEW st \in {"True", "False"},
           NEW r \in Revs \union {NoRev}, NEW t \in Stamps
    PROVE  Healthiness(s, st, r, t) \in Statuses
<1>1. s.healthy \in Conditions
  BY DEF Statuses
<1>2. SetResourceCondition(s.healthy, st, r, t) \in Conditions
  BY <1>1, ConditionType
<1> QED BY <1>2, NoStatusType DEF Healthiness, Statuses

LEMMA ReadinessType ==
    ASSUME NEW s \in Statuses, NEW g \in Nat, NEW st \in {"True", "False"},
           NEW r \in Revs \union {NoRev}, NEW t \in Stamps
    PROVE  Readiness(s, g, st, r, t) \in Statuses
<1>1. s.ready \in Conditions
  BY DEF Statuses
<1>2. SetResourceCondition(s.ready, st, r, t) \in Conditions
  BY <1>1, ConditionType
<1> QED BY <1>2 DEF Readiness, Statuses

LEMMA SnapshotType ==
    ASSUME NEW s \in Statuses, NEW r \in Revs, NEW sum \in Sums, NEW ks \in SUBSET Kinds
    PROVE  Applied(s, r, sum, ks) \in Statuses /\ AttemptedSnapshot(s, r, sum, ks) \in Statuses
BY DEF Applied, AttemptedSnapshot, Statuses

LEMMA MergePatchType ==
    ASSUME NEW stored \in Statuses, NEW new \in Statuses, NEW target \in Statuses
    PROVE  MergePatch(stored, new, target) \in Statuses
BY DEF MergePatch, Changed, Statuses

LEMMA DeletedType ==
    ASSUME NEW cl \in Clusters, NEW o \in Objs
    PROVE  Deleted(cl, o) \in Clusters
BY DEF Deleted, Clusters, Objects, Absent

LEMMA ServerSideApplyType ==
    ASSUME NEW cl \in Clusters, NEW o \in Objs, NEW sum \in Sums
    PROVE  ServerSideApply(cl, o, sum) \in Clusters
BY DEF ServerSideApply, Clusters, Objects


-------------------------------------------------------------------------------
(* Type correctness *)

LEMMA NoKonfigurationType ==
    ASSUME NEW g \in Nat
    PROVE  NoKonfiguration(g) \in Konfigurations
BY NoStatusType DEF NoKonfiguration, Konfigurations

LEMMA RegisteredType ==
    ASSUME NEW k \in Konfigurations
    PROVE  Registered(k) \in Konfigurations
<1> DEFINE g == IF k.validate THEN k.gen ELSE k.gen + 1
<1>1. k.gen \in Nat /\ k.gen + 1 \in Nat
  BY DEF Konfigurations
<1>2. g \in Nat
  BY <1>1
<1>3. Registered(k) = [k EXCEPT !.fin = TRUE, !.validate = TRUE, !.gen = g]
  BY DEF Registered
<1> HIDE DEF g
<1> QED BY <1>2, <1>3 DEF Konfigurations

LEMMA InitTypeOK == Init => TypeOK
<1> SUFFICES ASSUME Init PROVE TypeOK
  OBVIOUS
<1>1. NoKonfiguration(0) \in Konfigurations
  BY NoKonfigurationType
<1>2. cluster \in Clusters
  BY DEF Init, Clusters, Objects, Absent
<1>3. spent \in [Events -> Nat]
  BY DEF Init
<1> QED BY <1>1, <1>2, <1>3, NoStatusType DEF Init, TypeOK, Steps, HasRevision, Bases, Unread

\* The pieces of a step, each for the variables it sets.
LEMMA SpendType ==
    ASSUME TypeOK, NEW e \in Events, Spend(e)
    PROVE  spent' \in [Events -> Nat]
BY DEF Spend, TypeOK

LEMMA WriteType ==
    ASSUME TypeOK, NEW k \in Konfigurations, Write(k)
    PROVE  api' \in Konfigurations /\ cache' \in Konfigurations
BY DEF Write, TypeOK

LEMMA PatchFromType ==
    ASSUME TypeOK, NEW stored \in Statuses, NEW new \in Statuses, PatchFrom(stored, new)
    PROVE  api' \in Konfigurations /\ cache' \in Konfigurations
<1>1. api \in Konfigurations /\ api.status \in Statuses
  BY DEF TypeOK, Konfigurations
<1>2. MergePatch(stored, new, api.status) \in Statuses
  BY <1>1, MergePatchType
<1>3. [api EXCEPT !.status = MergePatch(stored, new, @)] \in Konfigurations
  BY <1>1, <1>2 DEF Konfigurations
<1> QED BY <1>3, WriteType DEF PatchFrom

LEMMA PatchType ==
    ASSUME TypeOK, NEW new \in Statuses, Patch(new)
    PROVE  api' \in Konfigurations /\ cache' \in Konfigurations
BY PatchFromType DEF Patch, TypeOK, Bases

LEMMA PatchFailsType ==
    ASSUME TypeOK, PatchFails
    PROVE  /\ api' \in Konfigurations /\ cache' \in Konfigurations
           /\ spent' \in [Events -> Nat]
BY SpendType DEF PatchFails, TypeOK, Events

LEMMA QueueType ==
    ASSUME TypeOK, NEW requeue \in BOOLEAN, Queue(requeue)
    PROVE  queued' \in BOOLEAN
BY DEF Queue, Noticed

LocalsOK == /\ konfig \in Konfigurations
            /\ pc \in Steps
            /\ rev \in Revs \union {NoRev}
            /\ HasRevision => rev \in Revs
            /\ todo \subseteq Objs
            /\ changed \in BOOLEAN
            /\ kinds \subseteq Kinds
            /\ items \subseteq Objs
            /\ failed \in BOOLEAN

LEMMA DropType == ASSUME Drop PROVE LocalsOK'
BY NoKonfigurationType DEF Drop, LocalsOK, Steps, HasRevision

LEMMA ReturnType ==
    ASSUME TypeOK, ReturnError \/ ReturnAfter
    PROVE  LocalsOK' /\ queued' \in BOOLEAN /\ timer' \in BOOLEAN
<1>1. LocalsOK'
  BY DropType DEF ReturnError, ReturnAfter
<1>2. queued' \in BOOLEAN
  BY QueueType DEF ReturnError, ReturnAfter
<1>3. timer' \in BOOLEAN
  BY DEF ReturnError, ReturnAfter, TypeOK
<1> QED BY <1>1, <1>2, <1>3

LEMMA FailType ==
    ASSUME TypeOK, NEW r \in Revs \union {NoRev}, Fail(r)
    PROVE  LocalsOK'
BY DEF Fail, Goto, TypeOK, LocalsOK, Steps, HasRevision

LEMMA KeepType ==
    ASSUME TypeOK, KeepLists, konfig' \in Konfigurations, rev' = rev, pc' \in Steps,
           HasRevision' => rev \in Revs
    PROVE  LocalsOK'
BY DEF KeepLists, TypeOK, LocalsOK

LEMMA EnterPruneType ==
    ASSUME TypeOK, EnterPrune, UNCHANGED changed, HasRevision
    PROVE  LocalsOK'
BY DEF EnterPrune, Goto, TypeOK, LocalsOK, Konfigurations, Statuses, Steps

LEMMA PatchReadinessType ==
    ASSUME TypeOK, NEW st \in {"True", "False"}, PatchReadiness(st)
    PROVE  /\ api' \in Konfigurations /\ cache' \in Konfigurations
           /\ spent' \in [Events -> Nat]
<1>1. PICK t \in Stamps : /\ Patch(Readiness(konfig.status, konfig.gen, st, rev, t))
                          /\ UNCHANGED spent
  BY DEF PatchReadiness
<1>2. /\ konfig.status \in Statuses /\ konfig.gen \in Nat
      /\ rev \in Revs \union {NoRev} /\ spent \in [Events -> Nat]
  BY DEF TypeOK, Konfigurations
<1>3. Readiness(konfig.status, konfig.gen, st, rev, t) \in Statuses
  BY <1>2, ReadinessType
<1> QED BY <1>1, <1>2, <1>3, PatchType

LEMMA PatchHealthinessType ==
    ASSUME TypeOK, NEW s \in Statuses, NEW st \in {"True", "False"},
           NEW next \in Steps, PatchHealthiness(s, st, next), HasRevision
    PROVE  /\ api' \in Konfigurations /\ cache' \in Konfigurations
           /\ LocalsOK' /\ queued' \in BOOLEAN /\ timer' \in BOOLEAN
           /\ spent' \in [Events -> Nat]
<1> DEFINE New(t) == Healthiness(s, st, rev, t)
<1>1. CASE \E t \in Stamps : /\ Patch(New(t))
                              /\ konfig' = [konfig EXCEPT !.status = New(t)]
                              /\ Goto(next) /\ Queue(FALSE) /\ KeepLists
                              /\ UNCHANGED <<timer, rev, spent>>
  <2>1. PICK t \in Stamps : /\ Patch(New(t))
                            /\ konfig' = [konfig EXCEPT !.status = New(t)]
                            /\ Goto(next) /\ Queue(FALSE) /\ KeepLists
                            /\ UNCHANGED <<timer, rev, spent>>
    BY <1>1
  <2>2. New(t) \in Statuses
    BY HealthinessType DEF TypeOK
  <2>3. konfig' \in Konfigurations
    BY <2>1, <2>2 DEF TypeOK, Konfigurations
  <2>4. api' \in Konfigurations /\ cache' \in Konfigurations
    BY <2>1, <2>2, PatchType
  <2>5. queued' \in BOOLEAN
    BY <2>1, QueueType
  <2>6. LocalsOK'
    BY <2>1, <2>3, KeepType DEF TypeOK, Goto
  <2> QED BY <2>1, <2>4, <2>5, <2>6 DEF TypeOK
<1>2. CASE PatchFails /\ (ReturnError \/ ReturnAfter)
  BY <1>2, PatchFailsType, ReturnType
<1> QED BY <1>1, <1>2 DEF PatchHealthiness

\* What the Get of a status patch leaves.
Locals == <<pc, konfig, rev, todo, changed, kinds, items, failed>>

\* What becomes of the base: it is read in one step, used up by a patch, dropped
\* with the pass, or left.
LEMMA BaseSteps ==
    ASSUME [Next]_vars
    PROVE  \/ ReadBase
           \/ base' = Unread
           \/ UNCHANGED base
BY DEF Next, Worker, Surroundings, vars, worker, Ambient, Begin, AddFinalizer, PrepareSource,
       CheckDependencies, SetProgressing, SetNotReady, Build, DryRun, DryRunDone, Apply,
       ApplyDone, PruneList, PruneDelete, PruneDone, CheckHealth, SetReady1, SetReady2,
       SetNotReadySnapshot1, SetNotReadySnapshot2, RemoveFinalizer, CacheSync, TimerFires,
       SourceChanges, UserCreates, UserEdits, UserDeletes, Drift, FinishTermination, Crash,
       ReturnError, ReturnAfter, Drop, PatchHealthiness, PatchReadiness, Patch

LEMMA BaseType ==
    ASSUME TypeOK, [Next]_vars
    PROVE  base' \in Bases
<1>1. CASE ReadBase
  BY <1>1 DEF ReadBase, TypeOK, Konfigurations, Bases
<1>2. Unread \in Bases
  BY NoStatusType DEF Unread, Bases
<1>3. base \in Bases
  BY DEF TypeOK
<1> QED BY <1>1, <1>2, <1>3, BaseSteps

LEMMA StepType ==
    ASSUME src' \in Revs \union {NoRev},
           api' \in Konfigurations, cache' \in Konfigurations,
           cluster' \in Clusters, LocalsOK', base' \in Bases,
           queued' \in BOOLEAN, timer' \in BOOLEAN, spent' \in [Events -> Nat]
    PROVE  TypeOK'
BY DEF TypeOK, LocalsOK

LEMMA NextTypeOK == TypeOK /\ [Next]_vars => TypeOK'
<1> SUFFICES ASSUME TypeOK, [Next]_vars PROVE TypeOK'
  OBVIOUS
<1>0. /\ src \in Revs \union {NoRev} /\ rev \in Revs \union {NoRev}
      /\ api \in Konfigurations /\ cache \in Konfigurations /\ konfig \in Konfigurations
      /\ cluster \in Clusters /\ spent \in [Events -> Nat]
      /\ queued \in BOOLEAN /\ timer \in BOOLEAN
      /\ api.gen \in Nat /\ konfig.status \in Statuses /\ LocalsOK
      /\ HasRevision => rev \in Revs
      /\ base' \in Bases
  BY BaseType DEF TypeOK, LocalsOK, Konfigurations
<1>1. CASE Begin
  <2>1. LocalsOK'
    BY <1>0, <1>1 DEF Begin, worker, LocalsOK, Goto, Route, KindsToPrune, Steps, HasRevision,
                      Konfigurations, Statuses
  <2> QED BY <1>0, <1>1, <2>1, StepType DEF Begin
<1>2. CASE AddFinalizer
  <2>0. UNCHANGED <<src, cluster>>
    BY <1>2 DEF AddFinalizer
  <2>1. CASE UpToDate /\ Write(Registered(api)) /\ UNCHANGED spent /\ ReturnAfter
    <3>1. Registered(api) \in Konfigurations
      BY <1>0, RegisteredType
    <3>2. api' \in Konfigurations /\ cache' \in Konfigurations
      BY <2>1, <3>1, WriteType
    <3> QED BY <1>0, <2>0, <2>1, <3>2, ReturnType, StepType
  <2>2. CASE /\ UpToDate /\ Write(Registered(api)) /\ konfig' = api'
             /\ Goto("source") /\ Queue(FALSE) /\ KeepLists
             /\ UNCHANGED <<timer, rev, spent>>
    <3>1. Registered(api) \in Konfigurations
      BY <1>0, RegisteredType
    <3>2. api' \in Konfigurations /\ cache' \in Konfigurations
      BY <2>2, <3>1, WriteType
    <3>3. queued' \in BOOLEAN
      BY <2>2, QueueType
    <3>4. LocalsOK'
      BY <1>0, <2>2, <3>2 DEF LocalsOK, KeepLists, Goto, Steps, HasRevision
    <3> QED BY <1>0, <2>0, <2>2, <3>2, <3>3, <3>4, StepType
  <2>3. CASE /\ (~UpToDate /\ UNCHANGED spent) \/ Spend("fault")
             /\ UNCHANGED <<api, cache>> /\ ReturnError
    <3>1. spent' \in [Events -> Nat]
      BY <1>0, <2>3, SpendType DEF Events
    <3> QED BY <1>0, <2>0, <2>3, <3>1, ReturnType, StepType
  <2> QED BY <1>2, <2>1, <2>2, <2>3 DEF AddFinalizer
<1>3. CASE PrepareSource
  <2>1. LocalsOK'
    BY <1>0, <1>3, FailType, KeepType DEF PrepareSource, LocalsOK, KeepLists, Goto, Steps, HasRevision
  <2>2. spent' \in [Events -> Nat]
    BY <1>0, <1>3, SpendType DEF PrepareSource, Events
  <2> QED BY <1>0, <1>3, <2>1, <2>2, StepType DEF PrepareSource, Ambient
<1>4. CASE CheckDependencies
  <2>0. HasRevision
    BY <1>4 DEF CheckDependencies, HasRevision
  <2>1. LocalsOK'
    BY <1>0, <1>4, <2>0, FailType, KeepType DEF CheckDependencies, Goto, Steps
  <2>2. spent' \in [Events -> Nat]
    BY <1>0, <1>4, SpendType DEF CheckDependencies, Events
  <2> QED BY <1>0, <1>4, <2>1, <2>2, StepType DEF CheckDependencies, Ambient
<1>5. CASE SetProgressing
  <2>0. HasRevision /\ UNCHANGED <<src, cluster>>
    BY <1>5 DEF SetProgressing, HasRevision
  <2>1. CASE PatchFails /\ ReturnError
    BY <1>0, <2>0, <2>1, PatchFailsType, ReturnType, StepType
  <2>2. CASE ~(PatchFails /\ ReturnError)
    <3> DEFINE New(t) == Progressing(konfig.status, t)
    <3>1. PICK t \in Stamps : /\ Patch(New(t))
                              /\ konfig' = [konfig EXCEPT !.status = New(t)]
                              /\ Goto("build") /\ Queue(FALSE) /\ KeepLists
                              /\ UNCHANGED <<timer, rev, spent>>
      BY <1>5, <2>2 DEF SetProgressing
    <3>2. New(t) \in Statuses
      BY <1>0, ProgressingType
    <3>3. api' \in Konfigurations /\ cache' \in Konfigurations
      BY <3>1, <3>2, PatchType
    <3>4. konfig' \in Konfigurations
      BY <1>0, <3>1, <3>2 DEF Konfigurations
    <3>5. LocalsOK'
      BY <1>0, <2>0, <3>1, <3>4, KeepType DEF Goto, Steps
    <3>6. queued' \in BOOLEAN
      BY <3>1, QueueType
    <3> QED BY <1>0, <2>0, <3>1, <3>3, <3>5, <3>6, StepType
  <2> QED BY <2>1, <2>2
<1>6. CASE SetNotReady
  <2>1. /\ api' \in Konfigurations /\ cache' \in Konfigurations
        /\ spent' \in [Events -> Nat]
    BY <1>6, PatchFailsType, PatchReadinessType DEF SetNotReady, PatchReadiness
  <2> QED BY <1>0, <1>6, <2>1, ReturnType, StepType DEF SetNotReady
<1>7. CASE Build
  <2>0. HasRevision
    BY <1>7 DEF Build, HasRevision
  <2>1. CASE Fails
    BY <1>0, <1>7, <2>1, FailType, SpendType, StepType DEF Fails, Build, Ambient, Events
  <2>2. CASE Fail(rev) /\ UNCHANGED spent
    BY <1>0, <1>7, <2>2, FailType, StepType DEF Build, Ambient
  <2>3. CASE /\ Goto(IF konfig.validate THEN "dryrun" ELSE "apply")
             /\ todo' = Manifest[rev]
             /\ UNCHANGED <<konfig, rev, changed, kinds, items, failed, spent>>
    <3>1. Manifest[rev] \subseteq Objs
      BY <1>0, <2>0, ManifestAssumption
    <3>2. LocalsOK'
      BY <1>0, <2>0, <2>3, <3>1 DEF LocalsOK, Goto, Steps
    <3> QED BY <1>0, <1>7, <2>3, <3>2, StepType DEF Build, Ambient
  <2> QED BY <1>7, <2>1, <2>2, <2>3 DEF Build
<1>8. CASE DryRun
  <2>0. HasRevision /\ UNCHANGED cluster /\ Ambient
    BY <1>8 DEF DryRun, HasRevision
  <2>1. CASE Fail(rev) /\ (UNCHANGED spent \/ Spend("fault"))
    BY <1>0, <2>0, <2>1, FailType, SpendType, StepType DEF Ambient, Events
  <2>2. CASE \E o \in Objs : /\ todo' = todo \ {o}
                              /\ changed' = (changed \/ NeedsApply(cluster, o, Sum[rev]))
                              /\ UNCHANGED <<pc, konfig, rev, kinds, items, failed, spent>>
    <3>1. LocalsOK'
      BY <1>0, <2>2 DEF LocalsOK, HasRevision, NeedsApply
    <3> QED BY <1>0, <2>0, <2>2, <3>1, StepType DEF Ambient
  <2> QED BY <1>8, <2>1, <2>2 DEF DryRun, Fails
<1>9. CASE DryRunDone
  <2>0. HasRevision /\ UNCHANGED <<cluster, changed, spent>> /\ Ambient
    BY <1>9 DEF DryRunDone, HasRevision
  <2>1. CASE EnterPrune
    BY <1>0, <2>0, <2>1, EnterPruneType, StepType DEF Ambient
  <2>2. CASE /\ Goto("apply") /\ todo' = Manifest[rev]
             /\ UNCHANGED <<konfig, rev, kinds, items, failed>>
    <3>1. Manifest[rev] \subseteq Objs
      BY <1>0, <2>0, ManifestAssumption
    <3>2. LocalsOK'
      BY <1>0, <2>0, <2>2, <3>1 DEF LocalsOK, Goto, Steps
    <3> QED BY <1>0, <2>0, <3>2, StepType DEF Ambient
  <2> QED BY <1>9, <2>1, <2>2 DEF DryRunDone
<1>10. CASE Apply
  <2>0. HasRevision /\ Sum[rev] \in Sums /\ Ambient
    BY <1>0, <1>10, ManifestAssumption DEF Apply, HasRevision
  <2>1. CASE Fail(rev) /\ UNCHANGED cluster /\ (UNCHANGED spent \/ Spend("fault"))
    BY <1>0, <2>0, <2>1, FailType, SpendType, StepType DEF Ambient, Events
  <2>2. CASE \E o \in Objs : /\ cluster' = Deleted(cluster, o)
                              /\ UNCHANGED <<worker, spent>>
    <3>1. cluster' \in Clusters
      BY <1>0, <2>2, DeletedType
    <3>2. LocalsOK'
      BY <1>0, <2>2 DEF LocalsOK, worker, HasRevision
    <3> QED BY <1>0, <2>0, <2>2, <3>1, <3>2, StepType DEF Ambient
  <2>3. CASE \E o \in Objs : /\ \/ cluster' = ServerSideApply(cluster, o, Sum[rev])
                                 \/ UNCHANGED cluster
                              /\ todo' = todo \ {o}
                              /\ UNCHANGED <<pc, konfig, rev, changed, kinds, items, failed, spent>>
    <3>1. cluster' \in Clusters
      BY <1>0, <2>0, <2>3, ServerSideApplyType
    <3>2. LocalsOK'
      BY <1>0, <2>3 DEF LocalsOK, HasRevision
    <3> QED BY <1>0, <2>0, <2>3, <3>1, <3>2, StepType DEF Ambient
  <2> QED BY <1>10, <2>1, <2>2, <2>3 DEF Apply, Fails
<1>11. CASE ApplyDone
  <2>1. HasRevision /\ EnterPrune /\ UNCHANGED <<cluster, changed, spent>> /\ Ambient
    BY <1>11 DEF ApplyDone, HasRevision
  <2> QED BY <1>0, <2>1, EnterPruneType, StepType DEF Ambient
<1>12. CASE PruneList
  <2>1. PICK k \in NextKinds(kinds) :
            /\ kinds' = kinds \ {k}
            /\ items' \in {items, Prunable(cluster, k, KeptSum, konfig.deleting)}
            /\ failed' \in {failed, TRUE}
            /\ UNCHANGED spent \/ Spend("fault")
    BY <1>12 DEF PruneList
  <2>2. /\ UNCHANGED <<pc, konfig, rev, todo, changed, cluster>> /\ Ambient
    BY <1>12 DEF PruneList
  <2>3. Prunable(cluster, k, KeptSum, konfig.deleting) \subseteq Objs
    BY DEF Prunable, Listed
  <2>4. LocalsOK'
    BY <1>0, <2>1, <2>2, <2>3 DEF LocalsOK, HasRevision
  <2>5. spent' \in [Events -> Nat]
    BY <1>0, <2>1, SpendType DEF Events
  <2> QED BY <1>0, <2>2, <2>4, <2>5, StepType DEF Ambient
<1>13. CASE PruneDelete
  <2>1. PICK o \in items : /\ items' = items \ {o}
                           /\ cluster' \in {cluster, Deleted(cluster, o)}
                           /\ failed' \in {failed, TRUE}
                           /\ UNCHANGED spent \/ Spend("fault")
    BY <1>13 DEF PruneDelete
  <2>2. UNCHANGED <<pc, konfig, rev, todo, changed, kinds>> /\ Ambient
    BY <1>13 DEF PruneDelete
  <2>3. cluster' \in Clusters
    BY <1>0, <2>1, DeletedType DEF LocalsOK
  <2>4. LocalsOK'
    BY <1>0, <2>1, <2>2 DEF LocalsOK, HasRevision
  <2>5. spent' \in [Events -> Nat]
    BY <1>0, <2>1, SpendType DEF Events
  <2> QED BY <1>0, <2>2, <2>3, <2>4, <2>5, StepType DEF Ambient
<1>14. CASE PruneDone
  <2>0. pc = "prune" /\ UNCHANGED <<src, api, cache, cluster, spent>>
    BY <1>14 DEF PruneDone
  <2>1. CASE ReturnError
    BY <1>0, <2>0, <2>1, ReturnType, StepType
  <2>2. CASE Fail(rev) /\ UNCHANGED <<queued, timer>>
    BY <1>0, <2>0, <2>2, FailType, StepType
  <2>3. CASE /\ Goto(IF konfig.deleting THEN "finalize" ELSE "health")
             /\ KeepLists
             /\ UNCHANGED <<konfig, rev, queued, timer>>
    <3>1. HasRevision' => rev \in Revs
      BY <1>0, <2>0, <2>3 DEF HasRevision, Goto
    <3>2. LocalsOK'
      BY <1>0, <2>3, <3>1, KeepType DEF Goto, Steps
    <3> QED BY <1>0, <2>0, <2>3, <3>2, StepType
  <2> QED BY <1>14, <2>1, <2>2, <2>3 DEF PruneDone
<1>15. CASE CheckHealth
  <2>1. /\ HasRevision /\ KeepLists /\ UNCHANGED <<konfig, rev, cluster>> /\ Ambient
        /\ pc' \in Steps
        /\ UNCHANGED spent \/ Spend("fault")
    BY <1>15 DEF CheckHealth, HasRevision, Goto, Steps
  <2>2. LocalsOK'
    BY <1>0, <2>1, KeepType
  <2>3. spent' \in [Events -> Nat]
    BY <1>0, <2>1, SpendType DEF Events
  <2> QED BY <1>0, <2>1, <2>2, <2>3, StepType DEF Ambient
<1>16. CASE SetReady1
  <2>1. /\ HasRevision /\ UNCHANGED <<src, cluster>>
        /\ PatchHealthiness(Applied(konfig.status, rev, Sum[rev], KindsOf(rev)), "True", "ready2")
    BY <1>16 DEF SetReady1, HasRevision
  <2>2. Sum[rev] \in Sums /\ KindsOf(rev) \in SUBSET Kinds
    BY <1>0, <2>1, ManifestAssumption, KindAssumption DEF KindsOf
  <2>3. Applied(konfig.status, rev, Sum[rev], KindsOf(rev)) \in Statuses
    BY <1>0, <2>1, <2>2, SnapshotType
  <2> QED BY <1>0, <2>1, <2>3, PatchHealthinessType, StepType DEF Steps
<1>17. CASE SetReady2
  <2>1. /\ api' \in Konfigurations /\ cache' \in Konfigurations
        /\ spent' \in [Events -> Nat]
        /\ ReturnAfter \/ ReturnError
        /\ UNCHANGED <<src, cluster>>
    BY <1>17, PatchFailsType, PatchReadinessType DEF SetReady2
  <2> QED BY <1>0, <2>1, ReturnType, StepType
<1>18. CASE SetNotReadySnapshot1
  <2>1. /\ HasRevision /\ UNCHANGED <<src, cluster>>
        /\ PatchHealthiness(AttemptedSnapshot(konfig.status, rev, Sum[rev], KindsOf(rev)),
                            "False", "unhealthy2")
    BY <1>18 DEF SetNotReadySnapshot1, HasRevision
  <2>2. Sum[rev] \in Sums /\ KindsOf(rev) \in SUBSET Kinds
    BY <1>0, <2>1, ManifestAssumption, KindAssumption DEF KindsOf
  <2>3. AttemptedSnapshot(konfig.status, rev, Sum[rev], KindsOf(rev)) \in Statuses
    BY <1>0, <2>1, <2>2, SnapshotType
  <2> QED BY <1>0, <2>1, <2>3, PatchHealthinessType, StepType DEF Steps
<1>19. CASE SetNotReadySnapshot2
  <2>1. /\ api' \in Konfigurations /\ cache' \in Konfigurations
        /\ spent' \in [Events -> Nat]
        /\ ReturnAfter
        /\ UNCHANGED <<src, cluster>>
    BY <1>19, PatchFailsType, PatchReadinessType DEF SetNotReadySnapshot2
  <2> QED BY <1>0, <2>1, ReturnType, StepType
<1>20. CASE RemoveFinalizer
  <2>0. UNCHANGED <<src, cluster>>
    BY <1>20 DEF RemoveFinalizer
  <2>1. CASE /\ Write(NoKonfiguration(api.gen + 1))
             /\ Drop /\ Queue(FALSE) /\ UNCHANGED <<timer, spent>>
    <3>1. NoKonfiguration(api.gen + 1) \in Konfigurations
      BY <1>0, NoKonfigurationType
    <3>2. api' \in Konfigurations /\ cache' \in Konfigurations
      BY <2>1, <3>1, WriteType
    <3> QED BY <1>0, <2>0, <2>1, <3>2, DropType, QueueType, StepType
  <2>2. CASE /\ UNCHANGED <<api, cache>> /\ ReturnError
             /\ UNCHANGED spent \/ Spend("fault")
    BY <1>0, <2>0, <2>2, ReturnType, SpendType, StepType DEF Events
  <2> QED BY <1>20, <2>1, <2>2 DEF RemoveFinalizer
<1>21. CASE UNCHANGED <<src, api, cluster, timer, worker, spent>> /\ CacheSync
  <2>1. queued' \in BOOLEAN
    BY <1>21, QueueType DEF CacheSync
  <2>2. LocalsOK'
    BY <1>0, <1>21 DEF LocalsOK, worker, HasRevision
  <2> QED BY <1>0, <1>21, <2>1, <2>2, StepType DEF CacheSync
<1>22. CASE TimerFires \/ SourceChanges
  <2>1. UNCHANGED worker
    BY <1>22 DEF TimerFires, SourceChanges
  <2>2. LocalsOK'
    BY <1>0, <2>1 DEF LocalsOK, worker, HasRevision
  <2>3. spent' \in [Events -> Nat]
    BY <1>0, <1>22, SpendType DEF TimerFires, SourceChanges, Events
  <2> QED BY <1>0, <1>22, <2>2, <2>3, StepType DEF TimerFires, SourceChanges
<1>23. CASE UserCreates \/ UserEdits \/ UserDeletes
  <2>1. /\ UNCHANGED <<src, cluster, timer, worker>> /\ Queue(FALSE) /\ Spend("edit")
    BY <1>23 DEF UserCreates, UserEdits, UserDeletes
  <2>2. PICK k \in Konfigurations : Write(k)
    <3>1. CASE UserCreates
      <4>1. PICK prune \in BOOLEAN, validate \in Validations :
              Write(NewKonfiguration(api.gen + 1, prune, validate))
        BY <3>1 DEF UserCreates
      <4>2. NoKonfiguration(api.gen + 1) \in Konfigurations /\ validate \in BOOLEAN
        BY <1>0, NoKonfigurationType, SwitchAssumption
      <4>3. ASSUME NEW k \in Konfigurations
            PROVE  [k EXCEPT !.exists = TRUE, !.prune = prune, !.validate = validate]
                       \in Konfigurations
        BY <4>2 DEF Konfigurations
      <4>4. NewKonfiguration(api.gen + 1, prune, validate) \in Konfigurations
        BY <4>2, <4>3 DEF NewKonfiguration
      <4> QED BY <4>1, <4>4
    <3>2. CASE UserEdits
      <4>1. api.gen + 1 \in Nat /\ (~api.prune) \in BOOLEAN /\ (~api.suspend) \in BOOLEAN
        BY <1>0
      <4>2. \A g \in Nat, b \in BOOLEAN :
              /\ [api EXCEPT !.prune = b, !.gen = g] \in Konfigurations
              /\ [api EXCEPT !.suspend = b, !.gen = g] \in Konfigurations
              /\ [api EXCEPT !.validate = b, !.gen = g] \in Konfigurations
        BY <1>0 DEF Konfigurations
      <4>3. /\ [api EXCEPT !.prune = ~@, !.gen = @ + 1] \in Konfigurations
            /\ [api EXCEPT !.suspend = ~@, !.gen = @ + 1] \in Konfigurations
            /\ \A v \in Validations :
                  [api EXCEPT !.validate = v, !.gen = @ + 1] \in Konfigurations
        BY <4>1, <4>2, SwitchAssumption
      <4> QED BY <3>2, <4>3 DEF UserEdits
    <3>3. CASE UserDeletes
      <4>1. [api EXCEPT !.deleting = TRUE, !.gen = @ + 1] \in Konfigurations
        <5>1. \A g \in Nat : [api EXCEPT !.deleting = TRUE, !.gen = g] \in Konfigurations
          BY <1>0 DEF Konfigurations
        <5>2. api.gen + 1 \in Nat
          BY <1>0
        <5> QED BY <5>1, <5>2
      <4>2. NoKonfiguration(api.gen + 1) \in Konfigurations
        BY <1>0, NoKonfigurationType
      <4> QED BY <3>3, <4>1, <4>2 DEF UserDeletes
    <3> QED BY <1>23, <3>1, <3>2, <3>3
  <2>3. api' \in Konfigurations /\ cache' \in Konfigurations
    BY <2>2, WriteType
  <2>4. queued' \in BOOLEAN
    BY <2>1, QueueType
  <2>5. LocalsOK'
    BY <1>0, <2>1 DEF LocalsOK, worker, HasRevision
  <2>6. spent' \in [Events -> Nat]
    BY <1>0, <2>1, SpendType DEF Events
  <2> QED BY <1>0, <2>1, <2>3, <2>4, <2>5, <2>6, StepType
<1>24. CASE Drift \/ FinishTermination
  <2>1. UNCHANGED <<src, api, cache, queued, timer, worker>>
    BY <1>24 DEF Drift, FinishTermination
  <2>2. cluster' \in Clusters
    <3>1. \A o \in Objs : /\ Deleted(cluster, o) \in Clusters
                          /\ [cluster EXCEPT ![o].drift = TRUE] \in Clusters
                          /\ [cluster EXCEPT ![o].skip = TRUE] \in Clusters
                          /\ [cluster EXCEPT ![o] = Absent] \in Clusters
      BY <1>0, DeletedType DEF Clusters, Objects, Absent
    <3> QED BY <1>24, <3>1 DEF Drift, FinishTermination
  <2>3. LocalsOK'
    BY <1>0, <2>1 DEF LocalsOK, worker, HasRevision
  <2>4. spent' \in [Events -> Nat]
    BY <1>0, <1>24, SpendType DEF Drift, FinishTermination, Events
  <2> QED BY <1>0, <2>1, <2>2, <2>3, <2>4, StepType
<1>25. CASE Crash
  <2>1. spent' \in [Events -> Nat]
    BY <1>0, <1>25, SpendType DEF Crash, Events
  <2>2. api.exists \in BOOLEAN
    BY <1>0 DEF Konfigurations
  <2> QED BY <1>0, <1>25, <2>1, <2>2, DropType, StepType DEF Crash
<1>26. CASE ReadBase \/ UNCHANGED vars
  <2>1. UNCHANGED <<src, api, cache, cluster, queued, timer, Locals, spent>>
    BY <1>26 DEF ReadBase, KeepLists, Locals, vars, worker
  <2>2. LocalsOK'
    BY <1>0, <2>1 DEF LocalsOK, Locals, HasRevision
  <2> QED BY <1>0, <2>1, <2>2, StepType
<1> QED
  BY <1>1, <1>2, <1>3, <1>4, <1>5, <1>6, <1>7, <1>8, <1>9, <1>10, <1>11, <1>12, <1>13,
     <1>14, <1>15, <1>16, <1>17, <1>18, <1>19, <1>20, <1>21, <1>22, <1>23, <1>24, <1>25,
     <1>26 DEF Next, Worker, Surroundings, CacheSync

\* Every reachable state is well typed, and a pass past the source works on a
\* revision.
THEOREM TypeCorrect == Spec => []TypeOK
<1>1. Init => TypeOK
  BY InitTypeOK
<1>2. TypeOK /\ [Next]_vars => TypeOK'
  BY NextTypeOK
<1> QED BY <1>1, <1>2, PTL DEF Spec

-------------------------------------------------------------------------------
(***************************************************************************)
(* Pruning spares the manifest.  The label of every object of the manifest *)
(* the pass has behind it is the snapshot's, or the object is not ours:    *)
(* the apply writes it and an empty changeset found it.                    *)
(***************************************************************************)

Current(o) == cluster[o].sum \in {NoSum, Sum[rev]}

PruneInv ==
    /\ pc # "prune" => items = {}
    /\ pc = "dryrun" /\ ~changed => \A o \in Manifest[rev] \ todo : Current(o)
    /\ pc = "apply" => \A o \in Manifest[rev] \ todo : Current(o)
    /\ pc = "prune" /\ ~konfig.deleting => /\ \A o \in Manifest[rev] : Current(o)
                                          /\ items \intersect Manifest[rev] = {}

(***************************************************************************)
(* The finalizer.  Held is what every pass that may apply relies on; the   *)
(* cached copy may trail, so what it says has to imply it.                 *)
(***************************************************************************)

Held(k)    == k.exists /\ k.fin
Serving(k) == Held(k) /\ ~k.deleting

\* The pass in hand may apply; the pass in hand removes the Konfiguration.
Reconciling == \/ pc \notin {"idle", "finalizer", "prune", "finalize"}
               \/ pc = "prune" /\ ~konfig.deleting
Removing    == pc = "finalize" \/ (pc = "prune" /\ konfig.deleting)

FinalizerInv ==
    /\ Reconciling => Held(api)
    /\ Reconciling /\ pc # "prune" => ~konfig.deleting
    /\ Serving(cache) => Held(api)
    /\ cache.exists /\ cache.deleting => ~Serving(api)
    /\ Removing => ~Serving(cache) /\ ~Serving(api)
    /\ api.deleting => api.fin
    /\ cache.deleting => cache.fin
    /\ api.fin => api.exists
    /\ pc = "finalizer" => konfig.exists /\ ~konfig.fin
    /\ pc = "finalizer" /\ ~api.fin => ~(cache.exists /\ cache.deleting)

-------------------------------------------------------------------------------
(* FinalizerInv is inductive. *)

SameFlags(k, l) == /\ k.exists = l.exists
                   /\ k.fin = l.fin
                   /\ k.deleting = l.deleting

\* A status patch leaves the flags alone.
LEMMA PatchFromFlags ==
    ASSUME TypeOK, NEW stored, NEW new, PatchFrom(stored, new)
    PROVE  SameFlags(api', api) /\ cache' \in {api', cache}
BY DEF PatchFrom, Write, TypeOK, Konfigurations, SameFlags

LEMMA PatchFlags ==
    ASSUME TypeOK, NEW new, Patch(new)
    PROVE  SameFlags(api', api) /\ cache' \in {api', cache}
BY PatchFromFlags DEF Patch

\* No step but three changes what FinalizerInv looks at other than this way.
LEMMA FinalizerKept ==
    ASSUME FinalizerInv,
           SameFlags(api', api), cache' \in {api', api, cache},
           Reconciling' => Reconciling /\ (pc' # "prune" => ~konfig'.deleting),
           Removing' => Removing,
           pc' = "finalizer" => UNCHANGED <<pc, konfig>>
    PROVE  FinalizerInv'
BY DEF FinalizerInv, SameFlags, Reconciling, Removing, Held, Serving

\* A pass that ends.
LEMMA FinalizerDropped ==
    ASSUME FinalizerInv, SameFlags(api', api), cache' \in {api', api, cache}, Drop
    PROVE  FinalizerInv'
<1>1. pc' = "idle"
  BY DEF Drop
<1> QED BY <1>1, FinalizerKept DEF Reconciling, Removing

\* A step of a reconciling pass that leaves its copy but for the status.
LEMMA FinalizerPassKept ==
    ASSUME FinalizerInv, Reconciling, ~konfig.deleting,
           SameFlags(api', api), cache' \in {api', api, cache},
           konfig'.deleting = konfig.deleting,
           pc' \notin {"idle", "finalizer", "finalize"}
    PROVE  FinalizerInv'
BY FinalizerKept DEF Reconciling, Removing

LEMMA FinalizerStep == TypeOK /\ FinalizerInv /\ [Next]_vars => FinalizerInv'
<1> SUFFICES ASSUME TypeOK, FinalizerInv, [Next]_vars PROVE FinalizerInv'
  OBVIOUS
<1>0. /\ api \in Konfigurations /\ cache \in Konfigurations /\ konfig \in Konfigurations
      /\ api' = api => SameFlags(api', api)
      /\ \A s : [konfig EXCEPT !.status = s].deleting = konfig.deleting
  BY DEF TypeOK, Konfigurations, SameFlags
<1>1. CASE Begin
  <2>1. UNCHANGED <<api, cache>>
    BY <1>1 DEF Begin
  <2>2. CASE UNCHANGED worker
    BY <1>0, <2>1, <2>2, FinalizerKept DEF worker, Reconciling, Removing, FinalizerInv
  <2>3. CASE /\ cache.exists /\ konfig' = cache /\ pc' = Route(cache)
    <3>1. CASE ~cache.fin
      <4>1. pc' = "finalizer"
        BY <2>3, <3>1 DEF Route
      <4> QED BY <2>1, <2>3, <3>1, <4>1
              DEF FinalizerInv, Reconciling, Removing, Held, Serving
    <3>2. CASE cache.fin /\ cache.deleting
      <4>1. pc' \in {"prune", "finalize"}
        BY <2>3, <3>2 DEF Route
      <4> QED BY <2>1, <2>3, <3>2, <4>1
              DEF FinalizerInv, Reconciling, Removing, Held, Serving
    <3>3. CASE cache.fin /\ ~cache.deleting
      <4>1. pc' = "source"
        BY <2>3, <3>3 DEF Route
      <4> QED BY <2>1, <2>3, <3>3, <4>1
              DEF FinalizerInv, Reconciling, Removing, Held, Serving
    <3> QED BY <3>1, <3>2, <3>3
  <2> QED BY <1>1, <2>2, <2>3 DEF Begin, Goto
<1>2. CASE AddFinalizer
  <2>1. CASE UpToDate /\ Write(Registered(api))
    <3>1. /\ pc = "finalizer" /\ konfig = api
          /\ api.exists /\ ~api.fin /\ ~api.deleting
          /\ ~(cache.exists /\ cache.deleting)
      BY <1>2, <2>1 DEF AddFinalizer, UpToDate, FinalizerInv
    <3>2. api'.exists /\ api'.fin /\ ~api'.deleting
      BY <1>0, <2>1, <3>1 DEF Write, Registered, Konfigurations
    <3>3. cache' \in {api', cache}
      BY <2>1 DEF Write
    <3>4. pc' = "idle" \/ (pc' = "source" /\ konfig' = api')
      BY <1>2, <2>1 DEF AddFinalizer, ReturnAfter, ReturnError, Drop, Goto
    <3> QED BY <3>1, <3>2, <3>3, <3>4 DEF FinalizerInv, Reconciling, Removing, Held, Serving
  <2>2. CASE UNCHANGED <<api, cache>> /\ ReturnError
    BY <1>0, <2>2, FinalizerDropped DEF ReturnError
  <2> QED BY <1>2, <2>1, <2>2 DEF AddFinalizer
<1>3. CASE \/ PrepareSource \/ CheckDependencies \/ Build \/ DryRun \/ DryRunDone
           \/ Apply \/ ApplyDone \/ CheckHealth
  <2>1. UNCHANGED <<api, cache, konfig>>
    BY <1>3 DEF PrepareSource, CheckDependencies, Build, DryRun, DryRunDone, Apply, ApplyDone,
                CheckHealth, Ambient, Fails, Fail, EnterPrune, worker
  <2>2. pc \in {"source", "dependencies", "build", "dryrun", "apply", "health"}
    BY <1>3 DEF PrepareSource, CheckDependencies, Build, DryRun, DryRunDone, Apply, ApplyDone,
                CheckHealth
  <2>3. pc' \notin {"idle", "finalizer", "finalize"}
    BY <1>3, <2>2 DEF PrepareSource, CheckDependencies, Build, DryRun, DryRunDone, Apply,
                ApplyDone, CheckHealth, Fails, Fail, EnterPrune, Goto, worker
  <2>4. Reconciling /\ ~konfig.deleting
    BY <2>2 DEF Reconciling, FinalizerInv
  <2> QED BY <1>0, <2>1, <2>3, <2>4, FinalizerPassKept
<1>4. CASE SetProgressing \/ SetReady1 \/ SetNotReadySnapshot1
  <2>1. CASE PatchFails /\ (ReturnError \/ ReturnAfter)
    BY <1>0, <2>1, FinalizerDropped DEF PatchFails, ReturnError, ReturnAfter
  <2>2. CASE \E new : /\ Patch(new) /\ konfig' = [konfig EXCEPT !.status = new]
                      /\ pc' \in {"build", "ready2", "unhealthy2"}
    <3>1. PICK new : /\ Patch(new) /\ konfig' = [konfig EXCEPT !.status = new]
                     /\ pc' \in {"build", "ready2", "unhealthy2"}
      BY <2>2
    <3>2. pc \in {"progressing", "ready1", "unhealthy1"}
      BY <1>4 DEF SetProgressing, SetReady1, SetNotReadySnapshot1
    <3>3. Reconciling /\ ~konfig.deleting
      BY <3>2 DEF Reconciling, FinalizerInv
    <3>4. SameFlags(api', api) /\ cache' \in {api', cache}
      BY <3>1, PatchFlags
    <3> QED BY <1>0, <3>1, <3>3, <3>4, FinalizerPassKept
  <2> QED BY <1>4, <2>1, <2>2
          DEF SetProgressing, SetReady1, SetNotReadySnapshot1, PatchHealthiness, Goto
<1>5. CASE SetNotReady \/ SetReady2 \/ SetNotReadySnapshot2
  <2>1. Drop
    BY <1>5 DEF SetNotReady, SetReady2, SetNotReadySnapshot2, ReturnError, ReturnAfter
  <2>2. (\E new : Patch(new)) \/ UNCHANGED <<api, cache>>
    BY <1>5 DEF SetNotReady, SetReady2, SetNotReadySnapshot2, PatchReadiness, PatchFails
  <2>3. SameFlags(api', api) /\ cache' \in {api', cache}
    BY <1>0, <2>2, PatchFlags
  <2> QED BY <2>1, <2>3, FinalizerDropped
<1>6. CASE PruneList \/ PruneDelete
  <2>1. UNCHANGED <<api, cache, konfig, pc>>
    BY <1>6 DEF PruneList, PruneDelete, Ambient
  <2> QED BY <1>0, <2>1, FinalizerKept DEF Reconciling, Removing, FinalizerInv
<1>7. CASE PruneDone
  <2>1. UNCHANGED <<api, cache>> /\ pc = "prune"
    BY <1>7 DEF PruneDone
  <2>2. CASE Drop
    BY <1>0, <2>1, <2>2, FinalizerDropped
  <2>3. CASE konfig' = konfig /\ ~konfig.deleting /\ pc' \in {"failed", "health"}
    BY <1>0, <2>1, <2>3, FinalizerPassKept DEF Reconciling
  <2>4. CASE konfig' = konfig /\ konfig.deleting /\ pc' = "finalize"
    BY <1>0, <2>1, <2>4, FinalizerKept DEF Reconciling, Removing
  <2> QED BY <1>7, <2>2, <2>3, <2>4 DEF PruneDone, ReturnError, Fail, Goto
<1>8. CASE RemoveFinalizer
  <2>1. CASE UNCHANGED <<api, cache>> /\ ReturnError
    BY <1>0, <2>1, FinalizerDropped DEF ReturnError
  <2>2. CASE Write(NoKonfiguration(api.gen + 1)) /\ Drop
    <3>1. /\ pc = "finalize" /\ pc' = "idle"
          /\ api' = NoKonfiguration(api.gen + 1) /\ cache' \in {api', cache}
      BY <1>8, <2>2 DEF RemoveFinalizer, Drop, Write
    <3>2. ~api'.exists /\ ~api'.fin /\ ~api'.deleting
      BY <3>1 DEF NoKonfiguration
    <3> QED BY <3>1, <3>2 DEF FinalizerInv, Reconciling, Removing, Held, Serving
  <2> QED BY <1>8, <2>1, <2>2 DEF RemoveFinalizer
<1>9. CASE CacheSync \/ TimerFires \/ SourceChanges \/ Drift \/ FinishTermination
  <2>1. UNCHANGED <<api, konfig, pc>> /\ cache' \in {api, cache}
    BY <1>9 DEF CacheSync, TimerFires, SourceChanges, Drift, FinishTermination, worker
  <2> QED BY <1>0, <2>1, FinalizerKept DEF Reconciling, Removing, FinalizerInv
<1>10. CASE UserCreates
  <2>1. /\ ~api.exists /\ UNCHANGED <<konfig, pc>>
        /\ api'.exists /\ ~api'.fin /\ ~api'.deleting /\ cache' \in {api', cache}
    BY <1>10 DEF UserCreates, Write, NewKonfiguration, NoKonfiguration, worker
  <2> QED BY <2>1 DEF FinalizerInv, Reconciling, Removing, Held, Serving
<1>11. CASE UserEdits
  <2>1. SameFlags(api', api) /\ cache' \in {api', cache} /\ UNCHANGED <<konfig, pc>>
    BY <1>0, <1>11 DEF UserEdits, Write, SameFlags, Konfigurations, worker
  <2> QED BY <2>1, FinalizerKept DEF Reconciling, Removing, FinalizerInv
<1>12. CASE UserDeletes
  <2>1. UNCHANGED <<konfig, pc>> /\ cache' \in {api', cache} /\ api.exists
    BY <1>12 DEF UserDeletes, Write, worker
  <2>2. CASE api.fin
    <3>1. api'.exists /\ api'.fin /\ api'.deleting
      BY <1>0, <1>12, <2>2 DEF UserDeletes, Write, Konfigurations
    <3> QED BY <2>1, <2>2, <3>1 DEF FinalizerInv, Reconciling, Removing, Held, Serving
  <2>3. CASE ~api.fin
    <3>1. ~api'.exists /\ ~api'.fin /\ ~api'.deleting
      BY <1>12, <2>3 DEF UserDeletes, Write, NoKonfiguration
    <3> QED BY <2>1, <2>3, <3>1 DEF FinalizerInv, Reconciling, Removing, Held, Serving
  <2> QED BY <2>2, <2>3
<1>13. CASE Crash
  BY <1>0, <1>13, FinalizerDropped DEF Crash
<1>14. CASE ReadBase \/ UNCHANGED vars
  <2>1. UNCHANGED <<api, cache, pc, konfig>>
    BY <1>14 DEF ReadBase, vars, worker
  <2> QED BY <1>0, <2>1, FinalizerKept DEF Reconciling, Removing, FinalizerInv
<1> QED
  BY <1>1, <1>2, <1>3, <1>4, <1>5, <1>6, <1>7, <1>8, <1>9, <1>10, <1>11, <1>12, <1>13, <1>14
     DEF Next, Worker, Surroundings

LEMMA FinalizerInit == Init => FinalizerInv
BY DEF Init, NoKonfiguration, FinalizerInv, Reconciling, Removing, Held, Serving

\* A pass that may apply holds a finalizer at the API server, stale copy or not.
THEOREM FinalizerInvariant == Spec => []FinalizerInv
<1>1. Init => FinalizerInv
  BY FinalizerInit
<1>2. TypeOK /\ FinalizerInv /\ [Next]_vars => FinalizerInv'
  BY FinalizerStep
<1> QED BY <1>1, <1>2, TypeCorrect, PTL DEF Spec

-------------------------------------------------------------------------------
(* Who labels objects: the apply, and nothing else. *)

Labels(o) == cluster'[o].sum # NoSum /\ cluster'[o].sum # cluster[o].sum

LEMMA DeletedLabels ==
    ASSUME NEW cl \in Clusters, NEW o \in Objs, NEW x \in Objs
    PROVE  /\ Deleted(cl, o)[x].sum \in {NoSum, cl[x].sum}
           /\ Deleted(cl, o)[x].st = "live" => Deleted(cl, o)[x] = cl[x]
BY DEF Deleted, Clusters, Objects, Absent

\* Every other step leaves an object its label or none, and makes none owned.
LEMMA OnlyApplyLabels ==
    ASSUME TypeOK, [Next]_vars, ~Apply, NEW o \in Objs
    PROVE  ~Labels(o) /\ (Owned(o)' => Owned(o))
<1>0. cluster \in Clusters
  BY DEF TypeOK
<1>1. CASE UNCHANGED cluster
  BY <1>1 DEF Labels, Owned
<1>2. CASE \E p \in Objs : cluster' = Deleted(cluster, p)
  BY <1>0, <1>2, DeletedLabels DEF Labels, Owned
<1>3. CASE Drift
  <2>1. PICK p \in Objs : /\ cluster[p].st = "live"
                          /\ \/ cluster' = [cluster EXCEPT ![p].drift = TRUE]
                             \/ cluster' = [cluster EXCEPT ![p].skip = TRUE]
                             \/ cluster' = Deleted(cluster, p)
    BY <1>3 DEF Drift
  <2>2. CASE \/ cluster' = [cluster EXCEPT ![p].drift = TRUE]
             \/ cluster' = [cluster EXCEPT ![p].skip = TRUE]
    <3>1. /\ cluster'[o].sum = cluster[o].sum
          /\ cluster'[o].st = cluster[o].st
          /\ cluster[o].skip => cluster'[o].skip
      BY <1>0, <2>2 DEF Clusters, Objects
    <3> QED BY <3>1 DEF Labels, Owned
  <2> QED BY <1>2, <2>1, <2>2
<1>4. CASE FinishTermination
  <2>1. PICK p \in Objs : cluster' = [cluster EXCEPT ![p] = Absent]
    BY <1>4 DEF FinishTermination
  <2>2. cluster'[o] \in {Absent, cluster[o]}
    BY <1>0, <2>1 DEF Clusters
  <2> QED BY <2>2 DEF Labels, Owned, Absent
<1>5. CASE PruneDelete
  <2>1. (\E p \in items : cluster' = Deleted(cluster, p)) \/ UNCHANGED cluster
    BY <1>5 DEF PruneDelete
  <2>2. items \subseteq Objs
    BY DEF TypeOK
  <2> QED BY <1>1, <1>2, <2>1, <2>2
<1>6. CASE Worker /\ ~Apply /\ ~PruneDelete
  <2>1. UNCHANGED cluster
    BY <1>6 DEF Worker, Begin, AddFinalizer, PrepareSource, CheckDependencies, ReadBase,
                SetProgressing, SetNotReady, Build, DryRun, DryRunDone, ApplyDone, PruneList, PruneDone,
                CheckHealth, SetReady1, SetReady2, SetNotReadySnapshot1, SetNotReadySnapshot2,
                RemoveFinalizer
  <2> QED BY <1>1, <2>1
<1>7. CASE Surroundings /\ ~Drift /\ ~FinishTermination
  <2>1. UNCHANGED cluster
    BY <1>7 DEF Surroundings, CacheSync, TimerFires, SourceChanges, UserCreates, UserEdits,
                UserDeletes, Crash
  <2> QED BY <1>1, <2>1
<1> QED BY <1>1, <1>3, <1>4, <1>5, <1>6, <1>7 DEF Next, vars

\* The controller labels an object only while the API server holds the
\* Konfiguration with its finalizer, however far the cache trails.
THEOREM LabelsUnderFinalizer == Spec => AppliesUnderFinalizer
<1>1. ASSUME TypeOK, FinalizerInv, [Next]_vars
      PROVE  (\E o \in Objs : Labels(o)) => api.exists /\ api.fin /\ api'.exists /\ api'.fin
  <2> SUFFICES ASSUME NEW o \in Objs, Labels(o)
               PROVE  api.exists /\ api.fin /\ api'.exists /\ api'.fin
    OBVIOUS
  <2>1. pc = "apply" /\ api' = api
    BY <1>1, OnlyApplyLabels DEF Apply, Ambient
  <2> QED BY <1>1, <2>1 DEF FinalizerInv, Reconciling, Held
<1>2. TypeOK /\ FinalizerInv /\ [Next]_vars
      => [(\E o \in Objs : /\ cluster'[o].sum # NoSum
                           /\ cluster'[o].sum # cluster[o].sum)
          => api.exists /\ api.fin /\ api'.exists /\ api'.fin]_vars
  BY <1>1 DEF Labels
<1> QED BY <1>2, TypeCorrect, FinalizerInvariant, PTL DEF Spec, AppliesUnderFinalizer

-------------------------------------------------------------------------------
(* PruneInv is inductive. *)

\* What another actor does to the cluster makes no label of the manifest stale.
LEMMA CurrentKept ==
    ASSUME TypeOK, [Next]_vars, ~Apply, rev' = rev, NEW o \in Objs, Current(o)
    PROVE  Current(o)'
BY OnlyApplyLabels DEF Labels, Current

LEMMA ManifestType ==
    ASSUME TypeOK, HasRevision
    PROVE  rev \in Revs /\ Manifest[rev] \subseteq Objs /\ Sum[rev] \in Sums
BY ManifestAssumption DEF TypeOK

\* A step that leaves the pass as it is, and one that takes it out of reach.
LEMMA PruneInvKept ==
    ASSUME TypeOK, [Next]_vars, PruneInv, ~Apply, UNCHANGED Locals
    PROVE  PruneInv'
<1>1. \A o \in Objs : Current(o) => Current(o)'
  BY CurrentKept DEF Locals
<1>2. HasRevision => Manifest[rev] \subseteq Objs
  BY ManifestType
<1> QED BY <1>1, <1>2 DEF PruneInv, Locals, HasRevision

LEMMA PruneInvLeft ==
    ASSUME pc' \notin {"dryrun", "apply", "prune"}, items' = {}
    PROVE  PruneInv'
BY DEF PruneInv

\* The manifest is current when the pruning begins.
LEMMA PruneInvEntered ==
    ASSUME PruneInv, EnterPrune, UNCHANGED cluster, ~konfig.deleting, items = {},
           \A o \in Manifest[rev] : Current(o)
    PROVE  PruneInv'
BY DEF PruneInv, EnterPrune, Goto, Current

LEMMA PruneInvDryRun ==
    ASSUME TypeOK, PruneInv, DryRun
    PROVE  PruneInv'
<1>1. PICK o \in Objs :
        \/ Fail(rev)
        \/ /\ todo' = todo \ {o}
           /\ changed' = (changed \/ NeedsApply(cluster, o, Sum[rev]))
           /\ UNCHANGED <<pc, konfig, rev, kinds, items, failed>>
  BY DEF DryRun, Fails
<1>2. pc = "dryrun" /\ UNCHANGED cluster
  BY DEF DryRun
<1>3. CASE Fail(rev)
  BY <1>3, PruneInvLeft DEF Fail, Goto
<1>4. CASE /\ todo' = todo \ {o}
           /\ changed' = (changed \/ NeedsApply(cluster, o, Sum[rev]))
           /\ UNCHANGED <<pc, konfig, rev, kinds, items, failed>>
  <2>1. ~changed' => ~changed /\ Current(o)
    BY <1>4 DEF NeedsApply, Current
  <2> QED BY <1>2, <1>4, <2>1 DEF PruneInv, Current
<1> QED BY <1>1, <1>3, <1>4

LEMMA PruneInvApply ==
    ASSUME TypeOK, PruneInv, Apply
    PROVE  PruneInv'
<1>0. /\ pc = "apply" /\ cluster \in Clusters
      /\ rev \in Revs /\ Manifest[rev] \subseteq Objs /\ Sum[rev] \in Sums
  BY ManifestType DEF Apply, TypeOK, HasRevision
<1>1. PICK o \in Objs :
        \/ Fail(rev)
        \/ cluster' = Deleted(cluster, o) /\ UNCHANGED worker
        \/ /\ \/ cluster' = ServerSideApply(cluster, o, Sum[rev])
              \/ ~NeedsApply(cluster, o, Sum[rev]) /\ UNCHANGED cluster
           /\ todo' = todo \ {o}
           /\ UNCHANGED <<pc, konfig, rev, changed, kinds, items, failed>>
  BY DEF Apply, Fails
<1>2. CASE Fail(rev)
  BY <1>2, PruneInvLeft DEF Fail, Goto
<1>3. CASE cluster' = Deleted(cluster, o) /\ UNCHANGED worker
  <2>1. \A x \in Objs : Current(x) => Current(x)'
    BY <1>0, <1>3, DeletedLabels DEF Current, worker
  <2> QED BY <1>0, <1>3, <2>1 DEF PruneInv, worker
<1>4. CASE /\ \/ cluster' = ServerSideApply(cluster, o, Sum[rev])
              \/ ~NeedsApply(cluster, o, Sum[rev]) /\ UNCHANGED cluster
           /\ todo' = todo \ {o}
           /\ UNCHANGED <<pc, konfig, rev, changed, kinds, items, failed>>
  <2>1. \A x \in Objs : Current(x) => Current(x)'
    BY <1>0, <1>4 DEF Current, ServerSideApply, Clusters, Objects
  <2>2. Current(o)'
    BY <1>0, <1>4 DEF Current, ServerSideApply, NeedsApply, Clusters, Objects
  <2> QED BY <1>0, <1>4, <2>1, <2>2 DEF PruneInv
<1> QED BY <1>1, <1>2, <1>3, <1>4

LEMMA PruneInvList ==
    ASSUME TypeOK, PruneInv, PruneList
    PROVE  PruneInv'
<1>1. /\ pc = "prune" /\ items = {}
      /\ UNCHANGED <<pc, konfig, rev, cluster>>
      /\ \/ items' = items
         \/ \E k \in Kinds : items' = Prunable(cluster, k, KeptSum, konfig.deleting)
  BY DEF PruneList, NextKinds, TypeOK
<1>2. CASE ~konfig.deleting
  <2>1. KeptSum = Sum[rev]
    BY <1>2 DEF KeptSum
  <2>2. \A o \in Manifest[rev] : Current(o)
    BY <1>1, <1>2 DEF PruneInv
  <2>3. items' \intersect Manifest[rev] = {}
    BY <1>1, <1>2, <2>1, <2>2 DEF Prunable, Listed, IsOrphaned, Current
  <2> QED BY <1>1, <2>2, <2>3 DEF PruneInv, Current
<1> QED BY <1>1, <1>2 DEF PruneInv

LEMMA PruneInvDelete ==
    ASSUME TypeOK, [Next]_vars, PruneInv, PruneDelete
    PROVE  PruneInv'
<1>1. /\ pc = "prune" /\ items' \subseteq items
      /\ UNCHANGED <<pc, konfig, rev>>
  BY DEF PruneDelete
<1>2. \A o \in Objs : Current(o) => Current(o)'
  BY <1>1, CurrentKept DEF Apply
<1>3. ~konfig.deleting => Manifest[rev] \subseteq Objs
  BY <1>1, ManifestType DEF HasRevision
<1> QED BY <1>1, <1>2, <1>3 DEF PruneInv

LEMMA PruneStep == TypeOK /\ FinalizerInv /\ PruneInv /\ [Next]_vars => PruneInv'
<1> SUFFICES ASSUME TypeOK, FinalizerInv, PruneInv, [Next]_vars PROVE PruneInv'
  OBVIOUS
<1>1. CASE Begin
  <2>1. pc = "idle" /\ UNCHANGED cluster
    BY <1>1 DEF Begin
  <2>2. CASE UNCHANGED worker
    BY <2>1, <2>2, PruneInvKept DEF Apply, worker, Locals
  <2>3. CASE konfig' = cache /\ pc' = Route(cache) /\ UNCHANGED items
    <3>1. pc' \in {"finalizer", "finalize", "source"} \/ (pc' = "prune" /\ konfig'.deleting)
      BY <2>3 DEF Route
    <3> QED BY <2>1, <2>3, <3>1 DEF PruneInv
  <2> QED BY <1>1, <2>2, <2>3 DEF Begin, Goto
<1>2. CASE AddFinalizer \/ PrepareSource \/ CheckDependencies \/ SetProgressing \/ SetNotReady
           \/ CheckHealth \/ SetReady1 \/ SetReady2 \/ SetNotReadySnapshot1
           \/ SetNotReadySnapshot2 \/ RemoveFinalizer \/ PruneDone
  <2>1. pc # "prune" \/ items = {}
    BY <1>2 DEF AddFinalizer, PrepareSource, CheckDependencies, SetProgressing, SetNotReady,
                CheckHealth, SetReady1, SetReady2, SetNotReadySnapshot1, SetNotReadySnapshot2,
                RemoveFinalizer, PruneDone
  <2>2. items = {}
    BY <2>1 DEF PruneInv
  <2>3. items' = {}
    BY <1>2, <2>2 DEF AddFinalizer, PrepareSource, CheckDependencies, SetProgressing,
                SetNotReady, CheckHealth, SetReady1, SetReady2, SetNotReadySnapshot1,
                SetNotReadySnapshot2, RemoveFinalizer, PruneDone, PatchHealthiness,
                ReturnError, ReturnAfter, Drop, Fail, KeepLists
  <2>4. pc' \notin {"dryrun", "apply", "prune"}
    BY <1>2 DEF AddFinalizer, PrepareSource, CheckDependencies, SetProgressing,
                SetNotReady, CheckHealth, SetReady1, SetReady2, SetNotReadySnapshot1,
                SetNotReadySnapshot2, RemoveFinalizer, PruneDone, PatchHealthiness,
                ReturnError, ReturnAfter, Drop, Fail, Goto
  <2> QED BY <2>3, <2>4, PruneInvLeft
<1>3. CASE Build
  <2>1. /\ pc = "build" /\ UNCHANGED cluster
        /\ Fail(rev) \/ /\ pc' \in {"dryrun", "apply"}
                        /\ todo' = Manifest[rev] /\ UNCHANGED <<rev, items>>
    BY <1>3 DEF Build, Fails, Goto
  <2> QED BY <2>1, PruneInvLeft DEF Fail, Goto, PruneInv
<1>4. CASE DryRun
  BY <1>4, PruneInvDryRun
<1>5. CASE DryRunDone
  <2>1. pc = "dryrun" /\ todo = {} /\ UNCHANGED cluster
    BY <1>5 DEF DryRunDone
  <2>2. CASE pc' = "apply" /\ todo' = Manifest[rev] /\ UNCHANGED <<rev, items>>
    BY <2>1, <2>2 DEF PruneInv
  <2>3. CASE ~changed /\ EnterPrune
    BY <2>1, <2>3, PruneInvEntered DEF PruneInv, FinalizerInv, Reconciling
  <2> QED BY <1>5, <2>2, <2>3 DEF DryRunDone, Goto
<1>6. CASE Apply
  BY <1>6, PruneInvApply
<1>7. CASE ApplyDone
  BY <1>7, PruneInvEntered DEF ApplyDone, PruneInv, FinalizerInv, Reconciling
<1>8. CASE PruneList
  BY <1>8, PruneInvList
<1>9. CASE PruneDelete
  BY <1>9, PruneInvDelete
<1>10. CASE Crash
  BY <1>10, PruneInvLeft DEF Crash, Drop
<1>11. CASE (ReadBase \/ (Surroundings /\ ~Crash) \/ UNCHANGED vars) /\ ~Apply
  <2>1. UNCHANGED Locals
    BY <1>11 DEF ReadBase, KeepLists, Surroundings, CacheSync, TimerFires, SourceChanges,
                 UserCreates, UserEdits, UserDeletes, Drift, FinishTermination, vars, worker,
                 Locals
  <2> QED BY <1>11, <2>1, PruneInvKept
<1> QED
  BY <1>1, <1>2, <1>3, <1>4, <1>5, <1>6, <1>7, <1>8, <1>9, <1>10, <1>11 DEF Next, Worker

LEMMA PruneInit == Init => PruneInv
BY DEF Init, PruneInv

\* The manifest a pass goes on to prune around is in the cluster under the
\* pass's own label, or is not the controller's.
THEOREM PruneInvariant == Spec => []PruneInv
<1>1. Init => PruneInv
  BY PruneInit
<1>2. TypeOK /\ FinalizerInv /\ PruneInv /\ [Next]_vars => PruneInv'
  BY PruneStep
<1> QED BY <1>1, <1>2, TypeCorrect, FinalizerInvariant, PTL DEF Spec

\* Pruning never holds an object of the manifest just applied.
THEOREM PruneSparesManifestAlways == Spec => []PruneSparesManifest
<1>1. PruneInv => PruneSparesManifest
  BY DEF PruneInv, PruneSparesManifest
<1> QED BY <1>1, PruneInvariant, PTL

-------------------------------------------------------------------------------
(***************************************************************************)
(* What a deletion that collects has still to do: an owned object of a     *)
(* kind its snapshot names is on a list, or the pass has failed.           *)
(***************************************************************************)

Due(o) == KindOf[o] \in konfig.status.entries /\ Owned(o)

RemovalInv ==
    /\ pc = "prune" /\ konfig.deleting =>
         \A o \in Objs : Due(o) => KindOf[o] \in kinds \/ o \in items \/ failed
    /\ pc = "finalize" /\ Collected(konfig) => \A o \in Objs : ~Due(o)

LEMMA RemovalInvKept ==
    ASSUME TypeOK, [Next]_vars, RemovalInv, ~Apply, UNCHANGED Locals
    PROVE  RemovalInv'
<1>1. \A o \in Objs : Due(o)' => Due(o)
  BY OnlyApplyLabels DEF Due, Locals
<1> QED BY <1>1 DEF RemovalInv, Locals

\* A step to a place where RemovalInv asks nothing.
LEMMA RemovalInvLeft ==
    ASSUME \/ pc' \notin {"prune", "finalize"}
           \/ pc' = "prune" /\ ~konfig'.deleting
    PROVE  RemovalInv'
BY DEF RemovalInv

LEMMA RemovalInvList ==
    ASSUME TypeOK, RemovalInv, PruneList
    PROVE  RemovalInv'
<1>1. PICK k \in kinds :
        /\ kinds' = kinds \ {k}
        /\ \/ items' = Prunable(cluster, k, KeptSum, konfig.deleting) /\ UNCHANGED failed
           \/ failed'
  BY DEF PruneList, NextKinds
<1>2. pc = "prune" /\ items = {} /\ UNCHANGED <<pc, konfig, cluster>>
  BY DEF PruneList
<1>3. CASE konfig.deleting
  <2> SUFFICES ASSUME NEW o \in Objs, Due(o)
               PROVE  KindOf[o] \in kinds' \/ o \in items' \/ failed'
    BY <1>2 DEF RemovalInv, Due, Owned
  <2>1. KindOf[o] \in kinds \/ failed
    BY <1>2, <1>3 DEF RemovalInv
  <2>2. CASE KindOf[o] = k
    BY <1>1, <1>3, <2>2 DEF Due, Owned, Prunable, Listed, ShouldNotPrune, IsOrphaned
  <2>3. CASE KindOf[o] # k
    BY <1>1, <2>1, <2>3
  <2> QED BY <2>2, <2>3
<1> QED BY <1>2, <1>3 DEF RemovalInv

LEMMA RemovalInvDelete ==
    ASSUME TypeOK, [Next]_vars, RemovalInv, PruneDelete
    PROVE  RemovalInv'
<1>0. cluster \in Clusters /\ items \subseteq Objs
  BY DEF TypeOK
<1>1. PICK p \in items :
        /\ items' = items \ {p}
        /\ \/ cluster' = Deleted(cluster, p) /\ UNCHANGED failed
           \/ failed'
  BY DEF PruneDelete
<1>2. /\ pc = "prune" /\ ~Apply
      /\ UNCHANGED <<pc, konfig, kinds>>
  BY DEF PruneDelete, Apply
<1>3. \A o \in Objs : Due(o)' => Due(o)
  BY <1>2, OnlyApplyLabels DEF Due
<1>4. cluster' = Deleted(cluster, p) => ~Owned(p)'
  BY <1>0 DEF Deleted, Owned, Clusters, Objects, Absent
<1> QED BY <1>1, <1>2, <1>3, <1>4 DEF RemovalInv, Due

LEMMA RemovalStep == TypeOK /\ FinalizerInv /\ RemovalInv /\ [Next]_vars => RemovalInv'
<1> SUFFICES ASSUME TypeOK, FinalizerInv, RemovalInv, [Next]_vars PROVE RemovalInv'
  OBVIOUS
<1>1. CASE Begin
  <2>1. pc = "idle" /\ UNCHANGED cluster
    BY <1>1 DEF Begin
  <2>2. CASE UNCHANGED worker
    BY <2>1, <2>2, RemovalInvKept DEF Apply, worker, Locals
  <2>3. CASE konfig' = cache /\ pc' = Route(cache) /\ kinds' = KindsToPrune(cache)
    <3>1. pc' = "prune" => kinds' = konfig'.status.entries
      BY <2>3 DEF KindsToPrune
    <3>2. pc' = "finalize" => ~Collected(konfig')
      BY <2>3 DEF Route
    <3> QED BY <3>1, <3>2 DEF RemovalInv, Due
  <2> QED BY <1>1, <2>2, <2>3 DEF Begin, Goto
<1>2. CASE AddFinalizer \/ PrepareSource \/ CheckDependencies \/ SetProgressing \/ SetNotReady
           \/ Build \/ DryRun \/ Apply \/ CheckHealth \/ SetReady1 \/ SetReady2
           \/ SetNotReadySnapshot1 \/ SetNotReadySnapshot2 \/ RemoveFinalizer
  <2>1. pc' \notin {"prune", "finalize"}
    BY <1>2 DEF AddFinalizer, PrepareSource, CheckDependencies, SetProgressing,
                SetNotReady, Build, DryRun, Apply, CheckHealth, SetReady1, SetReady2,
                SetNotReadySnapshot1, SetNotReadySnapshot2, RemoveFinalizer, PatchHealthiness,
                ReturnError, ReturnAfter, Drop, Fails, Fail, Goto, worker
  <2> QED BY <2>1, RemovalInvLeft
<1>3. CASE DryRunDone \/ ApplyDone
  <2>1. pc \in {"dryrun", "apply"} /\ konfig' = konfig
    BY <1>3 DEF DryRunDone, ApplyDone, EnterPrune
  <2>2. ~konfig'.deleting
    BY <2>1 DEF FinalizerInv, Reconciling
  <2>3. pc' # "finalize"
    BY <1>3 DEF DryRunDone, ApplyDone, EnterPrune, Goto
  <2> QED BY <2>2, <2>3 DEF RemovalInv
<1>4. CASE PruneList
  BY <1>4, RemovalInvList
<1>5. CASE PruneDelete
  BY <1>5, RemovalInvDelete
<1>6. CASE PruneDone
  <2>1. pc = "prune" /\ items = {} /\ kinds = {} /\ UNCHANGED cluster
    BY <1>6 DEF PruneDone
  <2>2. \/ pc' \in {"idle", "failed", "health"}
        \/ konfig.deleting /\ ~failed /\ pc' = "finalize" /\ konfig' = konfig
    BY <1>6 DEF PruneDone, ReturnError, Drop, Fail, Goto
  <2> QED BY <2>1, <2>2 DEF RemovalInv, Due, Owned
<1>7. CASE Crash
  BY <1>7, RemovalInvLeft DEF Crash, Drop
<1>8. CASE (ReadBase \/ (Surroundings /\ ~Crash) \/ UNCHANGED vars) /\ ~Apply
  <2>1. UNCHANGED Locals
    BY <1>8 DEF ReadBase, KeepLists, Surroundings, CacheSync, TimerFires, SourceChanges,
                UserCreates, UserEdits, UserDeletes, Drift, FinishTermination, vars, worker,
                Locals
  <2> QED BY <1>8, <2>1, RemovalInvKept
<1> QED
  BY <1>1, <1>2, <1>3, <1>4, <1>5, <1>6, <1>7, <1>8 DEF Next, Worker

LEMMA RemovalInit == Init => RemovalInv
BY DEF Init, RemovalInv

\* A deletion forgets none of the objects its snapshot names.
THEOREM RemovalInvariant == Spec => []RemovalInv
<1>1. Init => RemovalInv
  BY RemovalInit
<1>2. TypeOK /\ FinalizerInv /\ RemovalInv /\ [Next]_vars => RemovalInv'
  BY RemovalStep
<1> QED BY <1>1, <1>2, TypeCorrect, FinalizerInvariant, PTL DEF Spec

\* A Konfiguration with the finalizer goes in one step only.
LEMMA OnlyRemoveFinalizerRemoves ==
    ASSUME TypeOK, [Next]_vars, api.exists, api.fin, ~api'.exists
    PROVE  pc = "finalize" /\ konfig = api
<1>0. api \in Konfigurations /\ (api' = api => api'.exists)
  BY DEF TypeOK
<1>1. CASE RemoveFinalizer
  BY <1>0, <1>1 DEF RemoveFinalizer, UpToDate
<1>2. CASE \E new : Patch(new)
  BY <1>0, <1>2, PatchFlags DEF SameFlags
<1>3. CASE AddFinalizer
  <2>1. api' = api \/ api' = Registered(api)
    BY <1>3 DEF AddFinalizer, Write
  <2> QED BY <1>0, <2>1 DEF Registered, Konfigurations
<1>4. CASE UserEdits
  BY <1>0, <1>4 DEF UserEdits, Write, Konfigurations
<1>5. CASE UserDeletes
  <2>1. api' = [api EXCEPT !.deleting = TRUE, !.gen = @ + 1]
    BY <1>5 DEF UserDeletes, Write
  <2> QED BY <1>0, <2>1 DEF Konfigurations
<1>6. CASE SetProgressing \/ SetNotReady \/ SetReady1 \/ SetReady2
           \/ SetNotReadySnapshot1 \/ SetNotReadySnapshot2
  <2>1. (\E new : Patch(new)) \/ api' = api
    BY <1>6 DEF SetProgressing, SetNotReady, SetReady1, SetReady2, SetNotReadySnapshot1,
                SetNotReadySnapshot2, PatchHealthiness, PatchReadiness, PatchFails
  <2> QED BY <1>0, <1>2, <2>1
<1>7. CASE \/ Begin \/ PrepareSource \/ CheckDependencies \/ Build \/ DryRun \/ DryRunDone
           \/ Apply \/ ApplyDone \/ PruneList \/ PruneDelete \/ PruneDone \/ CheckHealth
           \/ ReadBase
  <2>1. api' = api
    BY <1>7 DEF ReadBase, Begin, PrepareSource, CheckDependencies, Build, DryRun, DryRunDone, Apply,
                ApplyDone, PruneList, PruneDelete, PruneDone, CheckHealth, Ambient
  <2> QED BY <1>0, <2>1
<1>8. CASE \/ CacheSync \/ TimerFires \/ SourceChanges \/ UserCreates \/ Drift
           \/ FinishTermination \/ Crash \/ UNCHANGED vars
  <2>1. api' = api
    BY <1>8 DEF CacheSync, TimerFires, SourceChanges, UserCreates, Drift, FinishTermination,
                Crash, vars
  <2> QED BY <1>0, <2>1
<1> QED BY <1>1, <1>3, <1>4, <1>5, <1>6, <1>7, <1>8 DEF Next, Worker, Surroundings

\* The finalizer of a pruned Konfiguration goes only when no live object of a
\* kind in its last snapshot is left, however far the cache trails.
THEOREM FinalizerOutlivesObjects == Spec => FinalizerHeldUntilPruned
<1>1. ASSUME TypeOK, RemovalInv, [Next]_vars,
             api.exists, api.fin, ~api'.exists, api.prune, ~api.suspend,
             NEW o \in Objs, KindOf[o] \in api.status.entries,
             cluster[o].sum # NoSum, ~cluster[o].skip
      PROVE  cluster[o].st # "live"
  <2>1. pc = "finalize" /\ konfig = api
    BY <1>1, OnlyRemoveFinalizerRemoves
  <2>2. ~Due(o)
    BY <1>1, <2>1 DEF RemovalInv, Collected
  <2> QED BY <1>1, <2>1, <2>2 DEF Due, Owned
<1>2. TypeOK /\ RemovalInv /\ [Next]_vars
      => [api.exists /\ api.fin /\ ~api'.exists /\ api.prune /\ ~api.suspend
          => \A o \in Objs : /\ KindOf[o] \in api.status.entries
                             /\ cluster[o].sum # NoSum
                             /\ ~cluster[o].skip
                             => cluster[o].st # "live"]_vars
  BY <1>1
<1> QED BY <1>2, TypeCorrect, RemovalInvariant, PTL DEF Spec, FinalizerHeldUntilPruned

-------------------------------------------------------------------------------
(***************************************************************************)
(* The refinement of Lifecycle, under the mapping of Promise.              *)
(***************************************************************************)

AllOwned == {o \in Objs : Owned(o)}

Lifecycles == Promise!Next \/ UNCHANGED Promise!lifecycleVars

LEMMA PromiseInit == Init => Promise!Init
<1> SUFFICES ASSUME Init PROVE Promise!Init
  OBVIOUS
<1>1. api = NoKonfiguration(0)
  BY DEF Init
<1>2. \A o \in Objs : ~Owned(o)
  BY DEF Init, Owned, Absent
<1>3. Phase = "absent" /\ api.status.entries = {} /\ Collected(api) = FALSE
  BY <1>1 DEF NoKonfiguration, NoStatus, Phase, Collected
<1> QED BY <1>2, <1>3 DEF Promise!Init

\* A pass about to remove the finalizer has a copy that is being deleted.
ReleaseInv ==
    /\ pc = "finalize" => Held(konfig) /\ konfig.deleting
    /\ pc = "prune" /\ konfig.deleting => Held(konfig)

LEMMA ReleaseStep == TypeOK /\ FinalizerInv /\ ReleaseInv /\ [Next]_vars => ReleaseInv'
<1> SUFFICES ASSUME TypeOK, FinalizerInv, ReleaseInv, [Next]_vars PROVE ReleaseInv'
  OBVIOUS
<1>1. CASE Begin
  <2>1. UNCHANGED worker \/ (cache.exists /\ konfig' = cache /\ pc' = Route(cache))
    BY <1>1 DEF Begin, Goto
  <2>2. CASE UNCHANGED worker
    BY <2>2 DEF ReleaseInv, worker, Held
  <2>3. CASE cache.exists /\ konfig' = cache /\ pc' = Route(cache)
    BY <2>3 DEF ReleaseInv, Route, Held
  <2> QED BY <2>1, <2>2, <2>3
<1>2. CASE DryRunDone \/ ApplyDone
  <2>1. pc \in {"dryrun", "apply"} /\ konfig' = konfig /\ pc' # "finalize"
    BY <1>2 DEF DryRunDone, ApplyDone, EnterPrune, Goto
  <2>2. ~konfig'.deleting
    BY <2>1 DEF FinalizerInv, Reconciling
  <2> QED BY <2>1, <2>2 DEF ReleaseInv
<1>3. CASE PruneList \/ PruneDelete
  <2>1. UNCHANGED <<pc, konfig>>
    BY <1>3 DEF PruneList, PruneDelete
  <2> QED BY <2>1 DEF ReleaseInv, Held
<1>4. CASE PruneDone
  <2>1. pc = "prune"
    BY <1>4 DEF PruneDone
  <2>2. \/ pc' \in {"idle", "failed", "health"}
        \/ konfig.deleting /\ konfig' = konfig
    BY <1>4 DEF PruneDone, ReturnError, Drop, Fail, Goto
  <2> QED BY <2>1, <2>2 DEF ReleaseInv, Held
<1>5. CASE AddFinalizer \/ PrepareSource \/ CheckDependencies \/ SetProgressing \/ SetNotReady
           \/ Build \/ DryRun \/ CheckHealth \/ SetReady1 \/ SetReady2
           \/ SetNotReadySnapshot1 \/ SetNotReadySnapshot2 \/ RemoveFinalizer \/ Crash
  <2>1. pc' \notin {"prune", "finalize"}
    BY <1>5 DEF AddFinalizer, PrepareSource, CheckDependencies, SetProgressing,
                SetNotReady, Build, DryRun, CheckHealth, SetReady1, SetReady2,
                SetNotReadySnapshot1, SetNotReadySnapshot2, RemoveFinalizer, PatchHealthiness,
                ReturnError, ReturnAfter, Drop, Fails, Fail, Goto, Crash
  <2> QED BY <2>1 DEF ReleaseInv
<1>6. CASE Apply
  <2>1. pc' \notin {"prune", "finalize"}
    BY <1>6 DEF Apply, Fails, Fail, Goto, worker
  <2> QED BY <2>1 DEF ReleaseInv
<1>7. CASE ReadBase \/ (Surroundings /\ ~Crash) \/ UNCHANGED vars
  <2>1. UNCHANGED <<pc, konfig>>
    BY <1>7 DEF ReadBase, Surroundings, CacheSync, TimerFires, SourceChanges, UserCreates,
                UserEdits, UserDeletes, Drift, FinishTermination, vars, worker
  <2> QED BY <2>1 DEF ReleaseInv, Held
<1> QED
  BY <1>1, <1>2, <1>3, <1>4, <1>5, <1>6, <1>7 DEF Next, Worker

THEOREM ReleaseInvariant == Spec => []ReleaseInv
<1>1. Init => ReleaseInv
  BY DEF Init, ReleaseInv
<1>2. TypeOK /\ FinalizerInv /\ ReleaseInv /\ [Next]_vars => ReleaseInv'
  BY ReleaseStep
<1> QED BY <1>1, <1>2, TypeCorrect, FinalizerInvariant, PTL DEF Spec

\* The flags are all that Phase looks at.
LEMMA PhaseKept ==
    ASSUME SameFlags(api', api)
    PROVE  Phase' = Phase
BY DEF SameFlags, Phase

LEMMA HeldPhase ==
    ASSUME TypeOK, Held(api)
    PROVE  Phase \in {"held", "deleting"}
BY DEF Held, Phase, TypeOK, Konfigurations

\* The cluster moves: an apply may own more, and everything else less.
LEMMA PromiseCluster ==
    ASSUME TypeOK, FinalizerInv, [Next]_vars, api' = api
    PROVE  Lifecycles
<1>0. cluster \in Clusters /\ UNCHANGED <<Phase, Collected(api)>>
  BY DEF TypeOK, Phase, Collected
<1>1. CASE AllOwned' \subseteq AllOwned
  BY <1>0, <1>1 DEF Lifecycles, Promise!Next, Promise!Lose, AllOwned
<1>2. CASE Apply /\ ~(AllOwned' \subseteq AllOwned)
  <2>1. pc = "apply" /\ HasRevision
    BY <1>2 DEF Apply, HasRevision
  <2>2. Phase \in {"held", "deleting"}
    BY <2>1, HeldPhase DEF FinalizerInv, Reconciling
  <2>3. Sum[rev] \in Sums
    BY <2>1, ManifestType
  <2>4. PICK o \in Objs : \/ UNCHANGED cluster
                          \/ cluster' = Deleted(cluster, o)
                          \/ cluster' = ServerSideApply(cluster, o, Sum[rev])
    BY <1>2 DEF Apply
  <2>5. cluster' = Deleted(cluster, o) => AllOwned' \subseteq AllOwned
    BY <1>0, DeletedLabels DEF AllOwned, Owned
  <2>6. UNCHANGED cluster => AllOwned' \subseteq AllOwned
    BY DEF AllOwned, Owned
  <2>7. cluster' = ServerSideApply(cluster, o, Sum[rev]) => AllOwned \subseteq AllOwned'
    BY <1>0, <2>3, SumAssumption DEF ServerSideApply, AllOwned, Owned, Clusters, Objects
  <2>8. AllOwned \subseteq AllOwned'
    BY <1>2, <2>4, <2>5, <2>6, <2>7
  <2> QED BY <1>0, <2>2, <2>8
          DEF Lifecycles, Promise!Next, Promise!Own, Promise!UnderFinalizer, AllOwned
<1>3. CASE ~Apply
  <2>1. AllOwned' \subseteq AllOwned
    BY <1>3, OnlyApplyLabels DEF AllOwned
  <2> QED BY <1>1, <2>1
<1> QED BY <1>1, <1>2, <1>3

\* A status patch tracks.
LEMMA PromisePatch ==
    ASSUME TypeOK, FinalizerInv, [Next]_vars, Reconciling, UNCHANGED cluster,
           NEW new, Patch(new)
    PROVE  Lifecycles
<1>1. Phase' = Phase
  BY PatchFlags, PhaseKept
<1>2. Phase \in {"held", "deleting"}
  BY HeldPhase DEF FinalizerInv
<1>3. Collected(api)' = Collected(api)
  BY DEF Patch, PatchFrom, Write, TypeOK, Konfigurations, Collected
<1>4. api'.status.entries \in SUBSET Kinds
  BY NextTypeOK DEF TypeOK, Konfigurations, Statuses
<1>5. AllOwned' = AllOwned
  BY DEF AllOwned, Owned
<1> QED BY <1>1, <1>2, <1>3, <1>4, <1>5
        DEF Lifecycles, Promise!Next, Promise!Track, Promise!UnderFinalizer, AllOwned

LEMMA PromiseRegister ==
    ASSUME TypeOK, FinalizerInv, [Next]_vars, AddFinalizer, api' # api
    PROVE  Lifecycles
<1>1. /\ pc = "finalizer" /\ konfig = api
      /\ api' = Registered(api) /\ UNCHANGED cluster
  BY DEF AddFinalizer, Write, UpToDate
<1>2. api.exists /\ ~api.fin /\ ~api.deleting /\ api \in Konfigurations
  BY <1>1 DEF FinalizerInv, TypeOK
<1>3. /\ api'.exists /\ api'.fin /\ ~api'.deleting
      /\ api'.status = api.status
      /\ api'.prune = api.prune /\ api'.suspend = api.suspend
  BY <1>1, <1>2 DEF Registered, Konfigurations
<1>4. Phase = "free" /\ Phase' = "held"
  BY <1>2, <1>3 DEF Phase
<1>5. UNCHANGED <<AllOwned, api.status.entries, Collected(api)>>
  BY <1>1, <1>3 DEF AllOwned, Owned, Collected
<1> QED BY <1>4, <1>5 DEF Lifecycles, Promise!Next, Promise!Register, AllOwned

\* What a Konfiguration that is not there maps to.
LEMMA PromiseGone ==
    ASSUME NEW g, api' = NoKonfiguration(g), UNCHANGED cluster
    PROVE  Promise!Gone
<1>1. ~api'.exists /\ api'.status.entries = {} /\ Collected(api)' = FALSE
  BY DEF NoKonfiguration, NoStatus, Collected
<1>2. Phase' = "absent" /\ AllOwned' = AllOwned
  BY <1>1 DEF Phase, AllOwned, Owned
<1> QED BY <1>1, <1>2 DEF Promise!Gone, AllOwned

LEMMA PromiseRelease ==
    ASSUME TypeOK, FinalizerInv, ReleaseInv, RemovalInv, [Next]_vars, RemoveFinalizer, api' # api
    PROVE  Lifecycles
<1>1. /\ pc = "finalize" /\ konfig = api
      /\ api' = NoKonfiguration(api.gen + 1) /\ UNCHANGED cluster
  BY DEF RemoveFinalizer, Write, UpToDate
<1>2. Phase = "deleting"
  BY <1>1 DEF ReleaseInv, Held, Phase
<1>3. Collected(api) => \A o \in AllOwned : KindOf[o] \notin api.status.entries
  BY <1>1 DEF RemovalInv, Due, AllOwned
<1>4. Promise!Gone
  BY <1>1, PromiseGone
<1> QED BY <1>2, <1>3, <1>4 DEF Lifecycles, Promise!Next, Promise!Release, AllOwned

LEMMA PromiseUser ==
    ASSUME TypeOK, FinalizerInv, UserCreates \/ UserEdits \/ UserDeletes
    PROVE  Lifecycles
<1>0. api \in Konfigurations /\ UNCHANGED cluster /\ AllOwned' = AllOwned
  BY DEF TypeOK, UserCreates, UserEdits, UserDeletes, AllOwned, Owned
<1>1. CASE UserCreates
  <2>1. PICK prune \in BOOLEAN, validate \in Validations :
          api' = NewKonfiguration(api.gen + 1, prune, validate)
    BY <1>1 DEF UserCreates, Write
  <2>2. /\ api'.exists /\ ~api'.fin /\ api'.status.entries = {}
        /\ Collected(api)' \in BOOLEAN
    BY <2>1 DEF NewKonfiguration, NoKonfiguration, NoStatus, Collected
  <2>3. Phase = "absent" /\ Phase' = "free"
    BY <1>1, <2>2 DEF UserCreates, Phase
  <2> QED BY <1>0, <2>2, <2>3 DEF Lifecycles, Promise!Next, Promise!Create, AllOwned
<1>2. CASE UserEdits
  <2>1. SameFlags(api', api) /\ api'.status = api.status /\ api.exists
    BY <1>0, <1>2 DEF UserEdits, Write, SameFlags, Konfigurations
  <2>2. Phase # "absent" /\ Phase' = Phase
    BY <1>0, <2>1, PhaseKept DEF Phase, Konfigurations
  <2>3. Collected(api)' \in BOOLEAN
    BY DEF Collected
  <2> QED BY <1>0, <2>1, <2>2, <2>3 DEF Lifecycles, Promise!Next, Promise!Decide, AllOwned
<1>3. CASE UserDeletes /\ api.fin
  <2>1. api.exists /\ ~api.deleting /\ api' = [api EXCEPT !.deleting = TRUE, !.gen = @ + 1]
    BY <1>3 DEF UserDeletes, Write
  <2>2. /\ api'.exists /\ api'.fin /\ api'.deleting /\ api'.status = api.status
        /\ api'.prune = api.prune /\ api'.suspend = api.suspend
    BY <1>0, <1>3, <2>1 DEF Konfigurations
  <2>3. Phase = "held" /\ Phase' = "deleting"
    BY <1>3, <2>1, <2>2 DEF Phase
  <2>4. UNCHANGED <<api.status.entries, Collected(api)>>
    BY <2>2 DEF Collected
  <2> QED BY <1>0, <2>3, <2>4 DEF Lifecycles, Promise!Next, Promise!Delete, AllOwned
<1>4. CASE UserDeletes /\ ~api.fin
  <2>1. api.exists /\ api' = NoKonfiguration(api.gen + 1)
    BY <1>4 DEF UserDeletes, Write
  <2>2. Phase = "free"
    BY <1>4, <2>1 DEF Phase
  <2>3. Promise!Gone
    BY <1>0, <2>1, PromiseGone
  <2> QED BY <2>2, <2>3 DEF Lifecycles, Promise!Next, Promise!Delete
<1> QED BY <1>1, <1>2, <1>3, <1>4

LEMMA PromiseStep ==
    TypeOK /\ FinalizerInv /\ ReleaseInv /\ RemovalInv /\ [Next]_vars => Lifecycles
<1> SUFFICES ASSUME TypeOK, FinalizerInv, ReleaseInv, RemovalInv, [Next]_vars
             PROVE  Lifecycles
  OBVIOUS
<1>1. CASE api' = api
  BY <1>1, PromiseCluster
<1>2. CASE /\ api' # api
           /\ \/ SetProgressing \/ SetNotReady \/ SetReady1 \/ SetReady2
              \/ SetNotReadySnapshot1 \/ SetNotReadySnapshot2
  <2>1. UNCHANGED cluster /\ \E new : Patch(new)
    BY <1>2 DEF SetProgressing, SetNotReady, SetReady1, SetReady2, SetNotReadySnapshot1,
                SetNotReadySnapshot2, PatchHealthiness, PatchReadiness, PatchFails
  <2>2. Reconciling
    BY <1>2 DEF SetProgressing, SetNotReady, SetReady1, SetReady2, SetNotReadySnapshot1,
                SetNotReadySnapshot2, Reconciling
  <2> QED BY <2>1, <2>2, PromisePatch
<1>3. CASE AddFinalizer /\ api' # api
  BY <1>3, PromiseRegister
<1>4. CASE RemoveFinalizer /\ api' # api
  BY <1>4, PromiseRelease
<1>5. CASE UserCreates \/ UserEdits \/ UserDeletes
  BY <1>5, PromiseUser
<1>6. CASE \/ Begin \/ PrepareSource \/ CheckDependencies \/ Build \/ DryRun \/ DryRunDone
           \/ Apply \/ ApplyDone \/ PruneList \/ PruneDelete \/ PruneDone \/ CheckHealth
           \/ CacheSync \/ TimerFires \/ SourceChanges \/ Drift \/ FinishTermination
           \/ Crash \/ ReadBase \/ UNCHANGED vars
  <2>1. api' = api
    BY <1>6 DEF ReadBase, Begin, PrepareSource, CheckDependencies, Build, DryRun, DryRunDone, Apply,
                ApplyDone, PruneList, PruneDelete, PruneDone, CheckHealth, CacheSync,
                TimerFires, SourceChanges, Drift, FinishTermination, Crash, Ambient, vars
  <2> QED BY <1>1, <2>1
<1> QED BY <1>1, <1>2, <1>3, <1>4, <1>5, <1>6 DEF Next, Worker, Surroundings

\* Reconciler implements Lifecycle, whatever the cache trails behind.
THEOREM PromiseKept == Spec => KeepsPromise
<1>1. Init => Promise!Init
  BY PromiseInit
<1>2. TypeOK /\ FinalizerInv /\ ReleaseInv /\ RemovalInv /\ [Next]_vars
      => [Promise!Next]_Promise!lifecycleVars
  BY PromiseStep DEF Lifecycles
<1> QED BY <1>1, <1>2, TypeCorrect, FinalizerInvariant, ReleaseInvariant, RemovalInvariant, PTL
        DEF Spec, KeepsPromise, Promise!Spec


-------------------------------------------------------------------------------
(* Readiness during a pass, with an informer cache that does not trail *)

\* The pass has reported that it is under way and has not reported its outcome.
Applying == \/ pc \in {"build", "dryrun", "apply", "health"}
            \/ pc = "prune" /\ ~konfig.deleting

\* With a cache that keeps up, the patch of SetProgressing, whose base is the
\* cached status, always carries the Ready condition.
ProgressInv ==
    ~Lag => /\ cache = api
            /\ Applying => api.status.ready.st # "True"

LEMMA CacheKeepsUp ==
    ASSUME TypeOK, ~Lag, cache = api, [Next]_vars
    PROVE  cache' = api'
<1>0. api \in Konfigurations
  BY DEF TypeOK
<1>1. CASE UNCHANGED <<api, cache>>
  BY <1>1
<1>2. CASE \E k : Write(k)
  BY <1>2 DEF Write
<1>3. CASE CacheSync \/ Crash
  BY <1>3 DEF CacheSync, Crash
<1>4. CASE UserEdits
  <2>1. \/ Write([api EXCEPT !.prune = ~@, !.gen = @ + 1])
        \/ Write([api EXCEPT !.suspend = ~@, !.gen = @ + 1])
        \/ \E validate \in Validations : Write([api EXCEPT !.validate = validate, !.gen = @ + 1])
    BY <1>4, Zenon DEF UserEdits
  <2>2. ASSUME NEW k, Write(k) PROVE cache' = api'
    BY <2>2 DEF Write
  <2> QED BY <2>1, <2>2, Zenon
<1>5. CASE UserDeletes
  BY <1>5 DEF UserDeletes, Write
<1>6. \/ UNCHANGED <<api, cache>> \/ (\E k : Write(k))
      \/ CacheSync \/ Crash \/ UserEdits \/ UserDeletes
  <2>1. CASE \/ Begin \/ PrepareSource \/ CheckDependencies \/ Build
             \/ DryRun \/ DryRunDone \/ Apply \/ ApplyDone
             \/ PruneList \/ PruneDelete \/ PruneDone \/ CheckHealth
             \/ TimerFires \/ SourceChanges \/ Drift \/ FinishTermination
             \/ ReadBase \/ UNCHANGED vars
    BY <2>1 DEF ReadBase, Begin, PrepareSource, CheckDependencies, Build, DryRun, DryRunDone, Apply,
                ApplyDone, PruneList, PruneDelete, PruneDone, CheckHealth, TimerFires,
                SourceChanges, Drift, FinishTermination, vars, Ambient
  <2>2. CASE \/ SetProgressing \/ SetNotReady \/ SetReady1 \/ SetReady2
             \/ SetNotReadySnapshot1 \/ SetNotReadySnapshot2
    BY <2>2 DEF SetProgressing, SetNotReady, SetReady1, SetReady2, SetNotReadySnapshot1,
                SetNotReadySnapshot2, PatchHealthiness, PatchReadiness, Patch, PatchFrom,
                PatchFails
  <2>3. CASE AddFinalizer \/ RemoveFinalizer
    BY <2>3 DEF AddFinalizer, RemoveFinalizer
  <2>4. CASE UserCreates
    BY <2>4 DEF UserCreates
  <2> QED BY <2>1, <2>2, <2>3, <2>4 DEF Next, Worker, Surroundings
<1> QED BY <1>1, <1>2, <1>3, <1>4, <1>5, <1>6

\* The base a status patch is made from is read by a pass that is to patch, and
\* in a cache that keeps up it is the stored status until the patch is sent:
\* no one else writes the status of a Konfiguration with the finalizer.
BaseCurrent == base.read => base.status = api.status

BaseInv == /\ base.read => pc \in Patching
           /\ ~Lag => BaseCurrent

\* A user never writes the status; with the Konfiguration it is gone.
LEMMA UserStatus ==
    ASSUME TypeOK, UserCreates \/ UserEdits \/ UserDeletes
    PROVE  /\ UNCHANGED <<pc, konfig>>
           /\ api'.status = api.status \/ api'.status = NoStatus
<1>0. api \in Konfigurations
  BY DEF TypeOK
<1>1. CASE UserCreates
  BY <1>1 DEF UserCreates, Write, NewKonfiguration, NoKonfiguration, worker
<1>2. CASE UserEdits
  BY <1>0, <1>2 DEF UserEdits, Write, Konfigurations, worker
<1>3. CASE UserDeletes /\ api.fin
  <2>1. api' = [api EXCEPT !.deleting = TRUE, !.gen = @ + 1] /\ UNCHANGED <<pc, konfig>>
    BY <1>3 DEF UserDeletes, Write, worker
  <2> QED BY <1>0, <2>1 DEF Konfigurations
<1>4. CASE UserDeletes /\ ~api.fin
  <2>1. api' = NoKonfiguration(api.gen + 1) /\ UNCHANGED <<pc, konfig>>
    BY <1>4 DEF UserDeletes, Write, worker
  <2> QED BY <2>1 DEF NoKonfiguration
<1> QED BY <1>1, <1>2, <1>3, <1>4

\* A merge patch against the status it is made for stores all of the new one.
LEMMA PatchOverCurrent ==
    ASSUME NEW s \in Statuses, NEW new \in Statuses
    PROVE  MergePatch(s, new, s).ready.st = new.ready.st
<1>1. MergePatch(s, new, s).ready
        = (IF <<new.ready, new.healthy>> = <<s.ready, s.healthy>>
           THEN <<s.ready, s.healthy>> ELSE <<new.ready, new.healthy>>)[1]
  BY DEF MergePatch, Changed
<1> QED BY <1>1

LEMMA ProgressStep == TypeOK /\ BaseInv /\ ProgressInv /\ [Next]_vars => ProgressInv'
<1> SUFFICES ASSUME TypeOK, BaseInv, ProgressInv, [Next]_vars, ~Lag
             PROVE  ProgressInv'
  BY DEF ProgressInv
<1>0. /\ cache = api /\ cache' = api' /\ (Applying => api.status.ready.st # "True")
      /\ BaseCurrent
  BY CacheKeepsUp DEF ProgressInv, BaseInv
<1>1. CASE UNCHANGED api /\ (Applying' => Applying)
  BY <1>0, <1>1 DEF ProgressInv
<1>2. CASE ~Applying'
  BY <1>0, <1>2 DEF ProgressInv
<1>3. CASE SetProgressing /\ pc' = "build"
  <2>1. PICK t \in Stamps : Patch(Progressing(konfig.status, t))
    BY <1>3 DEF SetProgressing, ReturnError, Drop
  <2>2. konfig.status \in Statuses /\ api \in Konfigurations /\ api.status \in Statuses
    BY DEF TypeOK, Konfigurations
  <2>3. Progressing(konfig.status, t) \in Statuses
    BY <2>2, ProgressingType
  <2>4. Progressing(konfig.status, t).ready.st = "Unknown"
    BY <2>2 DEF Progressing, SetResourceCondition, Statuses
  <2>5. api'.status = MergePatch(api.status, Progressing(konfig.status, t), api.status)
    BY <1>0, <2>1, <2>2 DEF Patch, PatchFrom, BaseCurrent, Write, Konfigurations
  <2>6. api'.status.ready.st = "Unknown"
    BY <2>2, <2>3, <2>4, <2>5, PatchOverCurrent
  <2> QED BY <1>0, <2>6 DEF ProgressInv
<1>4. CASE UserCreates \/ UserEdits \/ UserDeletes
  <2>1. UNCHANGED <<pc, konfig>> /\ (api'.status = api.status \/ api'.status = NoStatus)
    BY <1>4, UserStatus
  <2>2. NoStatus.ready.st # "True"
    BY DEF NoStatus, NoCondition
  <2> QED BY <1>0, <2>1, <2>2 DEF ProgressInv, Applying
<1>5. CASE Begin
  <2>1. UNCHANGED api /\ (UNCHANGED worker \/ (konfig' = cache /\ pc' = Route(cache)))
    BY <1>5 DEF Begin, Goto
  <2>2. CASE UNCHANGED worker
    BY <1>1, <2>1, <2>2 DEF worker, Applying
  <2>3. CASE konfig' = cache /\ pc' = Route(cache)
    <3>1. cache.fin \in BOOLEAN /\ cache.deleting \in BOOLEAN /\ Collected(cache) \in BOOLEAN
      BY DEF TypeOK, Konfigurations, Collected
    <3> QED BY <1>2, <2>3, <3>1 DEF Route, Applying
  <2> QED BY <2>1, <2>2, <2>3
<1>6. CASE \/ AddFinalizer \/ PrepareSource \/ CheckDependencies \/ SetNotReady
           \/ SetReady1 \/ SetReady2 \/ SetNotReadySnapshot1 \/ SetNotReadySnapshot2
           \/ RemoveFinalizer \/ Crash \/ (SetProgressing /\ pc' # "build")
  <2>1. pc' \in {"idle", "source", "failed", "dependencies", "progressing", "ready2",
                 "unhealthy2"}
    BY <1>6 DEF AddFinalizer, PrepareSource, CheckDependencies, SetNotReady, SetReady1,
                SetReady2, SetNotReadySnapshot1, SetNotReadySnapshot2, RemoveFinalizer, Crash,
                SetProgressing, PatchHealthiness, Goto, Drop, Fail, ReturnError, ReturnAfter
  <2> QED BY <1>2, <2>1 DEF Applying
<1>7. CASE Build \/ DryRun \/ DryRunDone \/ Apply \/ ApplyDone \/ PruneDone \/ CheckHealth
  <2>1. UNCHANGED api
    BY <1>7 DEF Build, DryRun, DryRunDone, Apply, ApplyDone, PruneDone, CheckHealth, Ambient
  <2>2. Applying' => Applying
    BY <1>7 DEF Build, DryRun, DryRunDone, Apply, ApplyDone, PruneDone, CheckHealth, Goto,
                Fail, Fails, Drop, ReturnError, EnterPrune, worker, Applying
  <2> QED BY <1>1, <2>1, <2>2
<1>8. CASE \/ PruneList \/ PruneDelete \/ CacheSync \/ TimerFires \/ SourceChanges
           \/ Drift \/ FinishTermination \/ ReadBase \/ UNCHANGED vars
  <2>1. UNCHANGED <<api, pc, konfig>>
    BY <1>8 DEF ReadBase, PruneList, PruneDelete, CacheSync, TimerFires, SourceChanges, Drift,
                FinishTermination, vars, worker, Ambient
  <2> QED BY <1>1, <2>1 DEF Applying
<1> QED BY <1>3, <1>4, <1>5, <1>6, <1>7, <1>8 DEF Next, Worker, Surroundings

LEMMA ProgressInit == Init => ProgressInv
BY DEF Init, ProgressInv, Applying

\* The steps that leave the base leave the status too, or the pass is not one
\* that is to patch.
LEMMA BaseStep ==
    TypeOK /\ FinalizerInv /\ ProgressInv /\ BaseInv /\ [Next]_vars => BaseInv'
<1> SUFFICES ASSUME TypeOK, FinalizerInv, ProgressInv, BaseInv, [Next]_vars
             PROVE  BaseInv'
  OBVIOUS
<1>1. CASE base' = Unread
  BY <1>1 DEF Unread, BaseInv, BaseCurrent
<1>2. CASE ReadBase
  <2>1. pc \in Patching /\ UNCHANGED <<api, pc>> /\ base'.status = cache.status
    BY <1>2 DEF ReadBase
  <2>2. ~Lag => cache = api
    BY DEF ProgressInv
  <2> QED BY <2>1, <2>2 DEF BaseInv, BaseCurrent
<1>3. CASE UNCHANGED base /\ ~base.read
  BY <1>3 DEF BaseInv, BaseCurrent
<1>4. CASE UNCHANGED base /\ base.read /\ ~ReadBase
  <2>1. /\ pc \in Patching /\ Reconciling /\ api.exists /\ api.fin
        /\ api \in Konfigurations /\ (~Lag => base.status = api.status)
    BY <1>4 DEF BaseInv, BaseCurrent, FinalizerInv, Patching, Reconciling, Held, TypeOK
  <2>2. CASE UserEdits \/ UserDeletes
    <3>1. UNCHANGED pc /\ api'.status = api.status
      BY <2>1, <2>2 DEF UserEdits, UserDeletes, Write, worker, Konfigurations
    <3> QED BY <1>4, <2>1, <3>1 DEF BaseInv, BaseCurrent
  <2>3. CASE UNCHANGED <<api, pc>>
    BY <1>4, <2>1, <2>3 DEF BaseInv, BaseCurrent
  <2>4. CASE Worker
    <3>1. base' = Unread
      BY <1>4, <2>1, <2>4
         DEF Worker, Patching, Begin, AddFinalizer, PrepareSource, CheckDependencies,
             SetProgressing, SetNotReady, Build, DryRun, DryRunDone, Apply, ApplyDone,
             PruneList, PruneDelete, PruneDone, CheckHealth, SetReady1, SetReady2,
             SetNotReadySnapshot1, SetNotReadySnapshot2, RemoveFinalizer, ReturnError,
             ReturnAfter, Drop, PatchHealthiness, PatchReadiness, Patch
    <3> QED BY <1>1, <3>1
  <2>5. CASE Crash
    BY <1>1, <2>5 DEF Crash, Drop
  <2>6. CASE UserCreates
    BY <2>1, <2>6 DEF UserCreates
  <2>7. CASE \/ CacheSync \/ TimerFires \/ SourceChanges \/ Drift \/ FinishTermination
             \/ UNCHANGED vars
    BY <2>3, <2>7 DEF CacheSync, TimerFires, SourceChanges, Drift, FinishTermination, vars,
                      worker
  <2> QED BY <2>2, <2>4, <2>5, <2>6, <2>7 DEF Next, Surroundings
<1> QED BY <1>1, <1>2, <1>3, <1>4, BaseSteps

\* With a cache that keeps up, what a status patch is made from is what is
\* stored, and a pass under way has said so.
THEOREM ProgressInvariant == Spec => [](BaseInv /\ ProgressInv)
<1>1. Init => BaseInv /\ ProgressInv
  BY ProgressInit DEF Init, BaseInv, BaseCurrent, Unread
<1>2. TypeOK /\ FinalizerInv /\ BaseInv /\ ProgressInv /\ [Next]_vars
      => BaseInv' /\ ProgressInv'
  BY BaseStep, ProgressStep
<1> QED BY <1>1, <1>2, TypeCorrect, FinalizerInvariant, PTL DEF Spec

\* No Ready condition says True while a pass changes the cluster, if the
\* informer cache does not trail (SetProgressing, reconcile).
THEOREM NotReadyWhileApplying == ASSUME ~Lag PROVE Spec => []NoReadyWhileApplying
<1>1. ProgressInv => NoReadyWhileApplying
  BY DEF ProgressInv, Applying, NoReadyWhileApplying
<1> QED BY <1>1, ProgressInvariant, PTL

-------------------------------------------------------------------------------
(***************************************************************************)
(* What a pass that prunes its last snapshot has still to do: an owned     *)
(* object of a kind it names, under another checksum, is on a list, or the *)
(* pass has failed; past the pruning there is none.                        *)
(***************************************************************************)

Left(o) == Due(o) /\ cluster[o].sum # Sum[rev]

LeftInv ==
    /\ pc = "prune" /\ ~konfig.deleting =>
         \A o \in Objs : Left(o) => KindOf[o] \in kinds \/ o \in items \/ failed
    /\ pc \in {"health", "ready1", "unhealthy1"} /\ konfig.prune => \A o \in Objs : ~Left(o)

LEMMA LeftKept ==
    ASSUME TypeOK, [Next]_vars, ~Apply, UNCHANGED <<konfig, rev>>, NEW o \in Objs
    PROVE  Left(o)' => Left(o)
BY OnlyApplyLabels DEF Left, Due, Owned, Labels

LEMMA LeftInvKept ==
    ASSUME TypeOK, [Next]_vars, LeftInv, ~Apply, UNCHANGED Locals
    PROVE  LeftInv'
<1>1. \A o \in Objs : Left(o)' => Left(o)
  BY LeftKept DEF Locals
<1> QED BY <1>1 DEF LeftInv, Locals

LEMMA LeftInvList ==
    ASSUME TypeOK, LeftInv, PruneList
    PROVE  LeftInv'
<1>1. PICK k \in kinds :
        /\ kinds' = kinds \ {k}
        /\ \/ items' = Prunable(cluster, k, KeptSum, konfig.deleting) /\ UNCHANGED failed
           \/ failed'
  BY DEF PruneList, NextKinds
<1>2. pc = "prune" /\ items = {} /\ UNCHANGED <<pc, konfig, rev, cluster>>
  BY DEF PruneList
<1>3. CASE ~konfig.deleting
  <2> SUFFICES ASSUME NEW o \in Objs, Left(o)
               PROVE  KindOf[o] \in kinds' \/ o \in items' \/ failed'
    BY <1>2 DEF LeftInv, Left, Due, Owned
  <2>1. KindOf[o] \in kinds \/ failed
    BY <1>2, <1>3 DEF LeftInv
  <2>2. CASE KindOf[o] = k
    BY <1>1, <1>3, <2>2
       DEF Left, Due, Owned, KeptSum, Prunable, Listed, ShouldNotPrune, IsOrphaned
  <2>3. CASE KindOf[o] # k
    BY <1>1, <2>1, <2>3
  <2> QED BY <2>2, <2>3
<1> QED BY <1>2, <1>3 DEF LeftInv

LEMMA LeftInvDelete ==
    ASSUME TypeOK, [Next]_vars, LeftInv, PruneDelete
    PROVE  LeftInv'
<1>0. cluster \in Clusters /\ items \subseteq Objs
  BY DEF TypeOK
<1>1. PICK p \in items :
        /\ items' = items \ {p}
        /\ \/ cluster' = Deleted(cluster, p) /\ UNCHANGED failed
           \/ failed'
  BY DEF PruneDelete
<1>2. /\ pc = "prune" /\ ~Apply
      /\ UNCHANGED <<pc, konfig, rev, kinds>>
  BY DEF PruneDelete, Apply
<1>3. \A o \in Objs : Left(o)' => Left(o)
  BY <1>2, LeftKept
<1>4. cluster' = Deleted(cluster, p) => ~Left(p)'
  BY <1>0 DEF Deleted, Left, Due, Owned, Clusters, Objects, Absent
<1> QED BY <1>1, <1>2, <1>3, <1>4 DEF LeftInv

LEMMA LeftStep == TypeOK /\ LeftInv /\ [Next]_vars => LeftInv'
<1> SUFFICES ASSUME TypeOK, LeftInv, [Next]_vars PROVE LeftInv'
  OBVIOUS
<1>1. CASE Begin
  <2>1. pc = "idle"
    BY <1>1 DEF Begin
  <2>2. CASE UNCHANGED worker
    BY <2>1, <2>2, LeftInvKept DEF Apply, worker, Locals
  <2>3. CASE konfig' = cache /\ pc' = Route(cache)
    BY <2>3 DEF Route, LeftInv
  <2> QED BY <1>1, <2>2, <2>3 DEF Begin, Goto
<1>2. CASE AddFinalizer \/ PrepareSource \/ CheckDependencies \/ SetProgressing \/ SetNotReady
           \/ Build \/ DryRun \/ Apply \/ SetReady1 \/ SetReady2
           \/ SetNotReadySnapshot1 \/ SetNotReadySnapshot2 \/ RemoveFinalizer \/ Crash
  <2>1. pc' \notin {"prune", "health", "ready1", "unhealthy1"}
    BY <1>2 DEF AddFinalizer, PrepareSource, CheckDependencies, SetProgressing,
                SetNotReady, Build, DryRun, Apply, SetReady1, SetReady2,
                SetNotReadySnapshot1, SetNotReadySnapshot2, RemoveFinalizer, Crash,
                PatchHealthiness, ReturnError, ReturnAfter, Drop, Fails, Fail, Goto, worker
  <2> QED BY <2>1 DEF LeftInv
<1>3. CASE DryRunDone \/ ApplyDone
  <2>1. /\ UNCHANGED <<konfig, rev, cluster>>
        /\ \/ pc' = "apply"
           \/ pc' = "prune" /\ kinds' = konfig.status.entries
           \/ pc' = "health" /\ ~konfig.prune
    BY <1>3 DEF DryRunDone, ApplyDone, EnterPrune, Goto
  <2> QED BY <2>1 DEF LeftInv, Left, Due
<1>4. CASE PruneList
  BY <1>4, LeftInvList
<1>5. CASE PruneDelete
  BY <1>5, LeftInvDelete
<1>6. CASE PruneDone
  <2>1. pc = "prune" /\ items = {} /\ kinds = {} /\ UNCHANGED cluster
    BY <1>6 DEF PruneDone
  <2>2. \/ pc' \in {"idle", "failed", "finalize"}
        \/ ~konfig.deleting /\ ~failed /\ pc' = "health" /\ UNCHANGED <<konfig, rev>>
    BY <1>6 DEF PruneDone, ReturnError, Drop, Fail, Goto
  <2> QED BY <2>1, <2>2 DEF LeftInv, Left, Due, Owned
<1>7. CASE CheckHealth
  <2>1. pc = "health" /\ pc' # "prune" /\ UNCHANGED <<konfig, rev, cluster>>
    BY <1>7 DEF CheckHealth, Goto
  <2> QED BY <2>1 DEF LeftInv, Left, Due, Owned
<1>8. CASE (ReadBase \/ (Surroundings /\ ~Crash) \/ UNCHANGED vars) /\ ~Apply
  <2>1. UNCHANGED Locals
    BY <1>8 DEF ReadBase, KeepLists, Surroundings, CacheSync, TimerFires, SourceChanges,
                UserCreates, UserEdits, UserDeletes, Drift, FinishTermination, vars, worker,
                Locals
  <2> QED BY <1>8, <2>1, LeftInvKept
<1> QED
  BY <1>1, <1>2, <1>3, <1>4, <1>5, <1>6, <1>7, <1>8 DEF Next, Worker

LEMMA LeftInit == Init => LeftInv
BY DEF Init, LeftInv

\* A pass that gets past its pruning has left no object behind.
THEOREM LeftInvariant == Spec => []LeftInv
<1>1. Init => LeftInv
  BY LeftInit
<1>2. TypeOK /\ LeftInv /\ [Next]_vars => LeftInv'
  BY LeftStep
<1> QED BY <1>1, <1>2, TypeCorrect, PTL DEF Spec

-------------------------------------------------------------------------------
(* The snapshot in the pass's copy, with a cache that does not trail *)

SnapshotInv ==
    ~Lag => /\ Reconciling => konfig.status.entries = api.status.entries
            /\ ~api.exists => api.status.entries = {}

\* The entries a patch over the current status stores are those it was made with.
LEMMA PatchEntries ==
    ASSUME TypeOK, BaseCurrent, NEW new \in Statuses, Patch(new)
    PROVE  api'.status.entries = new.entries /\ api.exists /\ api'.exists
<1>1. api \in Konfigurations /\ api.exists
  BY DEF TypeOK, Patch, PatchFrom
<1>2. api' = [api EXCEPT !.status = MergePatch(api.status, new, @)]
  BY DEF Patch, PatchFrom, BaseCurrent, Write
<1>3. MergePatch(api.status, new, api.status).entries = new.entries
  BY DEF MergePatch, Changed
<1> QED BY <1>1, <1>2, <1>3 DEF Konfigurations

\* The four patches whose status keeps the snapshot of the pass's copy.
LEMMA ConditionPatches ==
    ASSUME TypeOK, BaseCurrent,
           SetProgressing \/ SetNotReady \/ SetReady2 \/ SetNotReadySnapshot2
    PROVE  /\ UNCHANGED api \/ (/\ api'.status.entries = konfig.status.entries
                                /\ api.exists /\ api'.exists)
           /\ pc' # "idle" => konfig'.status.entries = api'.status.entries
<1>0. /\ konfig \in Konfigurations /\ konfig.status \in Statuses /\ konfig.gen \in Nat
      /\ rev \in Revs \union {NoRev}
  BY DEF TypeOK, Konfigurations
<1>1. CASE SetProgressing /\ pc' # "idle"
  <2>1. PICK t \in Stamps :
          /\ Patch(Progressing(konfig.status, t))
          /\ konfig' = [konfig EXCEPT !.status = Progressing(konfig.status, t)]
    BY <1>1 DEF SetProgressing, ReturnError, Drop
  <2>2. /\ Progressing(konfig.status, t) \in Statuses
        /\ Progressing(konfig.status, t).entries = konfig.status.entries
    BY <1>0, ProgressingType DEF Progressing, Statuses
  <2>3. konfig'.status = Progressing(konfig.status, t)
    BY <1>0, <2>1 DEF Konfigurations
  <2> QED BY <2>1, <2>2, <2>3, PatchEntries
<1>2. CASE SetProgressing /\ pc' = "idle"
  BY <1>2 DEF SetProgressing, Goto, PatchFails
<1>3. CASE SetNotReady \/ SetReady2 \/ SetNotReadySnapshot2
  <2>1. pc' = "idle"
    BY <1>3 DEF SetNotReady, SetReady2, SetNotReadySnapshot2, ReturnError, ReturnAfter, Drop
  <2>2. \/ UNCHANGED api
        \/ \E t \in Stamps, st \in {"True", "False"} :
              Patch(Readiness(konfig.status, konfig.gen, st, rev, t))
    BY <1>3 DEF SetNotReady, SetReady2, SetNotReadySnapshot2, PatchReadiness, PatchFails
  <2>3. ASSUME NEW t \in Stamps, NEW st \in {"True", "False"},
               Patch(Readiness(konfig.status, konfig.gen, st, rev, t))
        PROVE  api'.status.entries = konfig.status.entries /\ api.exists /\ api'.exists
    <3>1. Readiness(konfig.status, konfig.gen, st, rev, t) \in Statuses
      BY <1>0, ReadinessType
    <3>2. Readiness(konfig.status, konfig.gen, st, rev, t).entries = konfig.status.entries
      BY <1>0 DEF Readiness, Statuses
    <3> QED BY <2>3, <3>1, <3>2, PatchEntries
  <2> QED BY <2>1, <2>2, <2>3
<1> QED BY <1>1, <1>2, <1>3

\* The two that carry the new snapshot.
LEMMA SnapshotPatches ==
    ASSUME TypeOK, BaseCurrent, SetReady1 \/ SetNotReadySnapshot1
    PROVE  /\ UNCHANGED api \/ (api.exists /\ api'.exists)
           /\ pc' # "idle" => konfig'.status.entries = api'.status.entries
<1>0. /\ konfig \in Konfigurations /\ konfig.status \in Statuses
      /\ rev \in Revs /\ Sum[rev] \in Sums /\ KindsOf(rev) \in SUBSET Kinds
  <2>1. konfig \in Konfigurations /\ konfig.status \in Statuses /\ rev \in Revs
    BY DEF TypeOK, HasRevision, SetReady1, SetNotReadySnapshot1, Konfigurations
  <2> QED BY <2>1, ManifestAssumption, KindAssumption DEF KindsOf
<1>1. PICK s \in Statuses, st \in {"True", "False"}, next \in {"ready2", "unhealthy2"} :
        PatchHealthiness(s, st, next)
  BY <1>0, SnapshotType DEF SetReady1, SetNotReadySnapshot1
<1>2. CASE PatchFails /\ (ReturnError \/ ReturnAfter)
  BY <1>2 DEF PatchFails, ReturnError, ReturnAfter, Drop
<1>3. CASE \E t \in Stamps :
             /\ Patch(Healthiness(s, st, rev, t))
             /\ konfig' = [konfig EXCEPT !.status = Healthiness(s, st, rev, t)]
  <2>1. PICK t \in Stamps :
          /\ Patch(Healthiness(s, st, rev, t))
          /\ konfig' = [konfig EXCEPT !.status = Healthiness(s, st, rev, t)]
    BY <1>3
  <2>2. Healthiness(s, st, rev, t) \in Statuses
    BY <1>0, HealthinessType
  <2>3. konfig'.status = Healthiness(s, st, rev, t)
    BY <1>0, <2>1 DEF Konfigurations
  <2> QED BY <2>1, <2>2, <2>3, PatchEntries
<1> QED BY <1>1, <1>2, <1>3 DEF PatchHealthiness

LEMMA SnapshotStep ==
    TypeOK /\ FinalizerInv /\ BaseInv /\ ProgressInv /\ SnapshotInv /\ [Next]_vars
    => SnapshotInv'
<1> SUFFICES ASSUME TypeOK, FinalizerInv, BaseInv, ProgressInv, SnapshotInv, [Next]_vars, ~Lag
             PROVE  SnapshotInv'
  BY DEF SnapshotInv
<1>0. /\ api \in Konfigurations /\ cache = api /\ BaseCurrent
      /\ Reconciling => api.exists /\ api.fin /\ konfig.status.entries = api.status.entries
      /\ ~api.exists => api.status.entries = {}
  BY DEF TypeOK, BaseInv, ProgressInv, SnapshotInv, FinalizerInv, Held
<1>1. CASE UNCHANGED api /\ ~Reconciling'
  BY <1>0, <1>1 DEF SnapshotInv
<1>2. CASE Begin
  <2>1. UNCHANGED api /\ (UNCHANGED worker \/ konfig' = cache)
    BY <1>2 DEF Begin
  <2> QED BY <1>0, <2>1 DEF SnapshotInv, worker, Reconciling
<1>3. CASE AddFinalizer
  <2>1. \/ UNCHANGED api /\ pc' = "idle"
        \/ pc = "finalizer" /\ konfig = api /\ api' = Registered(api)
           /\ (pc' = "idle" \/ konfig' = api')
    BY <1>3 DEF AddFinalizer, UpToDate, Write, ReturnError, ReturnAfter, Drop
  <2>2. CASE pc = "finalizer" /\ konfig = api /\ api' = Registered(api)
    <3>1. api.exists
      BY <2>2 DEF FinalizerInv
    <3>2. api'.exists
      BY <1>0, <2>2, <3>1 DEF Registered, Konfigurations
    <3> QED BY <2>1, <2>2, <3>2 DEF SnapshotInv, Reconciling
  <2> QED BY <1>1, <2>1, <2>2 DEF Reconciling
<1>4. CASE SetProgressing \/ SetNotReady \/ SetReady2 \/ SetNotReadySnapshot2
  BY <1>0, <1>4, ConditionPatches DEF SnapshotInv, Reconciling
<1>5. CASE SetReady1 \/ SetNotReadySnapshot1
  BY <1>0, <1>5, SnapshotPatches DEF SnapshotInv, Reconciling
<1>6. CASE \/ PrepareSource \/ CheckDependencies \/ Build \/ DryRun \/ DryRunDone \/ Apply
           \/ ApplyDone \/ PruneList \/ PruneDelete \/ PruneDone \/ CheckHealth
  <2>1. UNCHANGED api
    BY <1>6 DEF PrepareSource, CheckDependencies, Build, DryRun, DryRunDone, Apply, ApplyDone,
                PruneList, PruneDelete, PruneDone, CheckHealth, Ambient
  <2>2. ~Reconciling' \/ UNCHANGED konfig
    BY <1>6 DEF PrepareSource, CheckDependencies, Build, DryRun, DryRunDone, Apply, ApplyDone,
                PruneList, PruneDelete, PruneDone, CheckHealth, EnterPrune, Fail, Fails, Drop,
                ReturnError, worker, Reconciling
  <2>3. Reconciling' => Reconciling
    BY <1>6 DEF PrepareSource, CheckDependencies, Build, DryRun, DryRunDone, Apply, ApplyDone,
                PruneList, PruneDelete, PruneDone, CheckHealth, EnterPrune, Fail, Fails, Goto,
                Drop, ReturnError, worker, Reconciling
  <2> QED BY <1>0, <1>1, <2>1, <2>2, <2>3 DEF SnapshotInv
<1>7. CASE RemoveFinalizer
  <2>1. pc' = "idle" /\ (UNCHANGED api \/ api' = NoKonfiguration(api.gen + 1))
    BY <1>7 DEF RemoveFinalizer, Write, ReturnError, Drop
  <2> QED BY <1>0, <2>1 DEF SnapshotInv, Reconciling, NoKonfiguration, NoStatus
<1>8. CASE UserCreates
  <2>1. /\ UNCHANGED worker /\ ~api.exists
        /\ \E g, prune, validate : api' = NewKonfiguration(g, prune, validate)
    BY <1>8 DEF UserCreates, Write
  <2>2. ~Reconciling' /\ api'.status.entries = {}
    BY <1>0, <2>1 DEF Reconciling, worker, NewKonfiguration, NoKonfiguration, NoStatus
  <2> QED BY <2>2 DEF SnapshotInv
<1>9. CASE UserEdits
  <2>1. api'.status = api.status /\ api.exists /\ api'.exists /\ UNCHANGED <<pc, konfig>>
    BY <1>0, <1>9 DEF UserEdits, Write, Konfigurations, worker
  <2> QED BY <1>0, <2>1 DEF SnapshotInv, Reconciling
<1>10. CASE UserDeletes
  <2>1. UNCHANGED worker
    BY <1>10 DEF UserDeletes
  <2>2. CASE api.fin
    <3>1. api.exists /\ api' = [api EXCEPT !.deleting = TRUE, !.gen = @ + 1]
      BY <1>10, <2>2 DEF UserDeletes, Write
    <3>2. api'.status = api.status /\ api'.exists
      BY <1>0, <3>1 DEF Konfigurations
    <3> QED BY <1>0, <2>1, <3>2 DEF SnapshotInv, Reconciling, worker
  <2>3. CASE ~api.fin
    <3>1. api' = NoKonfiguration(api.gen + 1)
      BY <1>10, <2>3 DEF UserDeletes, Write
    <3> QED BY <1>0, <2>1, <2>3, <3>1
            DEF SnapshotInv, Reconciling, worker, NoKonfiguration, NoStatus
  <2> QED BY <2>2, <2>3
<1>11. CASE Crash
  BY <1>1, <1>11 DEF Crash, Drop, Reconciling
<1>12. CASE CacheSync \/ TimerFires \/ SourceChanges \/ Drift \/ FinishTermination
            \/ ReadBase \/ UNCHANGED vars
  <2>1. UNCHANGED <<api, pc, konfig>>
    BY <1>12 DEF ReadBase, CacheSync, TimerFires, SourceChanges, Drift, FinishTermination, vars, worker
  <2> QED BY <1>0, <2>1 DEF SnapshotInv, Reconciling
<1> QED BY <1>2, <1>3, <1>4, <1>5, <1>6, <1>7, <1>8, <1>9, <1>10, <1>11, <1>12
        DEF Next, Worker, Surroundings

LEMMA SnapshotInit == Init => SnapshotInv
BY DEF Init, SnapshotInv, Reconciling, NoKonfiguration, NoStatus

\* With a cache that does not trail, the pass's copy has the snapshot the API
\* server records.
THEOREM SnapshotInvariant == Spec => []SnapshotInv
<1>1. TypeOK /\ FinalizerInv /\ BaseInv /\ ProgressInv /\ SnapshotInv /\ [Next]_vars
      => SnapshotInv'
  BY SnapshotStep
<1> QED
  BY <1>1, SnapshotInit, TypeCorrect, FinalizerInvariant, ProgressInvariant, PTL DEF Spec

\* Where the snapshot loses a kind.
LEMMA OnlySnapshotPatches ==
    ASSUME TypeOK, FinalizerInv, BaseInv, ProgressInv, SnapshotInv, [Next]_vars, ~Lag,
           api'.exists, api'.status.entries # api.status.entries
    PROVE  SetReady1 \/ SetNotReadySnapshot1
<1>0. /\ api \in Konfigurations /\ BaseCurrent
      /\ Reconciling => konfig.status.entries = api.status.entries
      /\ ~api.exists => api.status.entries = {}
  BY DEF TypeOK, BaseInv, SnapshotInv
<1>1. CASE SetProgressing \/ SetNotReady \/ SetReady2 \/ SetNotReadySnapshot2
  <2>1. Reconciling
    BY <1>1 DEF SetProgressing, SetNotReady, SetReady2, SetNotReadySnapshot2, Reconciling
  <2> QED BY <1>0, <1>1, <2>1, ConditionPatches
<1>2. CASE AddFinalizer
  <2>1. UNCHANGED api \/ api' = Registered(api)
    BY <1>2 DEF AddFinalizer, Write
  <2> QED BY <1>0, <2>1 DEF Registered, Konfigurations
<1>3. CASE RemoveFinalizer
  <2>1. UNCHANGED api \/ api' = NoKonfiguration(api.gen + 1)
    BY <1>3 DEF RemoveFinalizer, Write
  <2> QED BY <2>1 DEF NoKonfiguration
<1>4. CASE UserCreates
  <2>1. ~api.exists /\ \E g, prune, validate : api' = NewKonfiguration(g, prune, validate)
    BY <1>4 DEF UserCreates, Write
  <2> QED BY <1>0, <2>1 DEF NewKonfiguration, NoKonfiguration, NoStatus
<1>5. CASE UserEdits
  BY <1>0, <1>5 DEF UserEdits, Write, Konfigurations
<1>6. CASE UserDeletes
  <2>1. \/ api' = [api EXCEPT !.deleting = TRUE, !.gen = @ + 1]
        \/ api' = NoKonfiguration(api.gen + 1)
    BY <1>6 DEF UserDeletes, Write
  <2>2. CASE api' = NoKonfiguration(api.gen + 1)
    BY <2>2 DEF NoKonfiguration
  <2>3. CASE api' = [api EXCEPT !.deleting = TRUE, !.gen = @ + 1]
    BY <1>0, <2>3 DEF Konfigurations
  <2> QED BY <2>1, <2>2, <2>3
<1>7. CASE \/ Begin \/ PrepareSource \/ CheckDependencies \/ Build \/ DryRun \/ DryRunDone
           \/ Apply \/ ApplyDone \/ PruneList \/ PruneDelete \/ PruneDone \/ CheckHealth
  <2>1. UNCHANGED api
    BY <1>7 DEF Begin, PrepareSource, CheckDependencies, Build, DryRun, DryRunDone, Apply,
                ApplyDone, PruneList, PruneDelete, PruneDone, CheckHealth, Ambient
  <2> QED BY <2>1
<1>8. CASE \/ CacheSync \/ TimerFires \/ SourceChanges \/ Drift \/ FinishTermination
           \/ Crash \/ ReadBase \/ UNCHANGED vars
  <2>1. UNCHANGED api
    BY <1>8 DEF ReadBase, CacheSync, TimerFires, SourceChanges, Drift, FinishTermination, Crash, vars
  <2> QED BY <2>1
<1> QED BY <1>1, <1>2, <1>3, <1>4, <1>5, <1>6, <1>7, <1>8 DEF Next, Worker, Surroundings

\* With a cache that does not trail, a kind leaves the recorded snapshot only
\* once the pruning of the pass left no live orphan of it behind.
THEOREM SnapshotKeptUntilPruned == ASSUME ~Lag PROVE Spec => SnapshotCoversUntilPruned
<1>1. ASSUME TypeOK, FinalizerInv, BaseInv, ProgressInv, SnapshotInv, LeftInv, [Next]_vars,
             NEW o \in Objs, KindOf[o] \in api.status.entries,
             api'.exists, KindOf[o] \notin api'.status.entries, konfig.prune
      PROVE  \/ cluster[o].st # "live" \/ cluster[o].skip
             \/ cluster[o].sum \in {NoSum, Sum[rev]}
  <2>1. SetReady1 \/ SetNotReadySnapshot1
    BY <1>1, OnlySnapshotPatches
  <2>2. pc \in {"ready1", "unhealthy1"}
    BY <2>1 DEF SetReady1, SetNotReadySnapshot1
  <2>3. KindOf[o] \in konfig.status.entries
    BY <1>1, <2>2 DEF SnapshotInv, Reconciling
  <2>4. ~Left(o)
    BY <1>1, <2>2 DEF LeftInv
  <2> QED BY <2>3, <2>4 DEF Left, Due, Owned
<1>2. TypeOK /\ FinalizerInv /\ BaseInv /\ ProgressInv /\ SnapshotInv /\ LeftInv /\ [Next]_vars
      => [\A o \in Objs :
            /\ KindOf[o] \in api.status.entries
            /\ api'.exists /\ KindOf[o] \notin api'.status.entries
            /\ konfig.prune
            => \/ cluster[o].st # "live" \/ cluster[o].skip
               \/ cluster[o].sum \in {NoSum, Sum[rev]}]_vars
  BY <1>1
<1> QED BY <1>2, TypeCorrect, FinalizerInvariant, ProgressInvariant, SnapshotInvariant,
           LeftInvariant, PTL DEF Spec, SnapshotCoversUntilPruned

===============================================================================
