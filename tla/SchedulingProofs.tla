--------------------------- MODULE SchedulingProofs ---------------------------
(***************************************************************************)
(* What TLAPS proves of Scheduling: of the dependencies, then of the work  *)
(* queue, its types, that a key is in one place at a time, that none is    *)
(* lost, and what a single worker adds.                                    *)
(*                                                                         *)
(* A Ready condition, wherever it is written down - at the API server, in  *)
(* the informer cache, in the copy of a pass - is of a Konfiguration with  *)
(* objects in the cluster, and those never go.  So a dependency read as    *)
(* Ready, however old the reading, is installed.                           *)
(***************************************************************************)
EXTENDS Scheduling, FiniteSetTheorems, TLAPS

Installed(k) == cluster[k] # NoRev

\* What the argument needs of the types: the functions have their domains.
Shape ==
    /\ api \in [Konfigs -> Konfigurations]
    /\ cache \in [Konfigs -> Konfigurations]
    /\ cluster \in [Konfigs -> Revs \union {NoRev}]
    /\ pass \in [Konfigs -> Passes]
    /\ src \in Revs \union {NoRev}
    /\ \A k \in Konfigs : pass[k].pc \in {"dependencies", "reconcile", "ready"}
                          => pass[k].rev \in Revs

\* A Ready of k, and a pass of k that is to write one.
ReadyMeansInstalled(k) ==
    \/ Installed(k)
    \/ /\ api[k].status.ready.st # "True"
       /\ cache[k].status.ready.st # "True"
       /\ pass[k].konfig.status.ready.st # "True"
       /\ pass[k].pc # "ready"

\* The dependencies a pass of k is past.
PastDependencies(k) ==
    pass[k].pc \in {"dependencies", "reconcile"} =>
        /\ pass[k].pc = "reconcile" => pass[k].todo = {}
        /\ \A d \in DependsOn[k] \ pass[k].todo : Installed(d)

DependencyInv == /\ Shape
                 /\ \A k \in Konfigs : ReadyMeansInstalled(k) /\ PastDependencies(k)
                 /\ DependenciesFirst

-------------------------------------------------------------------------------
(* The setters *)

\* A patch stores a well-typed status whose Ready is the new one or the stored one.
LEMMA PatchedStatus ==
    ASSUME NEW base \in Statuses, NEW new \in Statuses, NEW target \in Statuses
    PROVE  /\ MergePatch(base, new, target) \in Statuses
           /\ MergePatch(base, new, target).ready \in {new.ready, target.ready}
BY DEF MergePatch, Changed, Statuses

LEMMA ProgressingStatus ==
    ASSUME NEW s \in Statuses, NEW t \in Stamps
    PROVE  /\ Progressing(s, t) \in Statuses
           /\ Progressing(s, t).ready.st = "Unknown"
BY DEF Progressing, SetResourceCondition, Statuses, Conditions

LEMMA ReadinessStatus ==
    ASSUME NEW s \in Statuses, NEW g \in Nat, NEW st \in {"True", "False"},
           NEW r \in Revs \union {NoRev}, NEW t \in Stamps
    PROVE  /\ Readiness(s, g, st, r, t) \in Statuses
           /\ Readiness(s, g, st, r, t).ready.st = st
BY DEF Readiness, SetResourceCondition, Statuses, Conditions

LEMMA NothingThere == NoKonfiguration \in Konfigurations /\ NoPass \in Passes
BY StampAssumption DEF NoKonfiguration, NoPass, Konfigurations, Passes, Steps,
                       NoStatus, NoCondition, Statuses, Conditions

\* The records the steps build.
LEMMA FailedPass ==
    ASSUME NEW p \in Passes, NEW r \in Revs \union {NoRev}
    PROVE  LET new == [p EXCEPT !.pc = "failed", !.rev = r, !.todo = {}]
           IN  new \in Passes /\ new.pc = "failed" /\ new.konfig = p.konfig
BY DEF Passes, Steps

LEMMA ProgressingPass ==
    ASSUME NEW p \in Passes, NEW status \in Statuses
    PROVE  LET new == [p EXCEPT !.pc = "reconcile", !.konfig.status = status]
           IN  /\ new \in Passes /\ new.pc = "reconcile" /\ new.konfig.status = status
               /\ new.rev = p.rev /\ new.todo = p.todo
BY DEF Passes, Steps, Konfigurations

LEMMA EditedKonfiguration ==
    ASSUME NEW k \in Konfigurations, NEW suspend \in BOOLEAN
    PROVE  /\ [k EXCEPT !.suspend = suspend, !.gen = @ + 1] \in Konfigurations
           /\ [k EXCEPT !.suspend = suspend, !.gen = @ + 1].status = k.status
           /\ [k EXCEPT !.exists = TRUE, !.gen = 1] \in Konfigurations
           /\ [k EXCEPT !.exists = TRUE, !.gen = 1].status = k.status
<1>1. k.gen + 1 \in Nat /\ 1 \in Nat
  BY DEF Konfigurations
<1>2. \A g \in Nat : /\ [k EXCEPT !.suspend = suspend, !.gen = g] \in Konfigurations
                     /\ [k EXCEPT !.suspend = suspend, !.gen = g].status = k.status
                     /\ [k EXCEPT !.exists = TRUE, !.gen = g] \in Konfigurations
                     /\ [k EXCEPT !.exists = TRUE, !.gen = g].status = k.status
  BY DEF Konfigurations
<1> QED
  BY <1>1, <1>2

-------------------------------------------------------------------------------
LEMMA DependencyInit == Init => DependencyInv
<1> SUFFICES ASSUME Init PROVE DependencyInv
  OBVIOUS
<1>1. Shape
  BY NothingThere DEF Init, Shape, NoPass
<1>2. \A k \in Konfigs : ReadyMeansInstalled(k) /\ PastDependencies(k)
  BY DEF Init, ReadyMeansInstalled, PastDependencies, Installed,
         NoKonfiguration, NoPass, NoStatus, NoCondition
<1>3. DependenciesFirst
  BY DEF Init, DependenciesFirst
<1> QED
  BY <1>1, <1>2, <1>3 DEF DependencyInv

-------------------------------------------------------------------------------
(* The steps: what a step keeps is cut into what it does to the records, to *)
(* the passes and to the cluster. *)

\* A step that stores a status of k, whose Ready is not True unless k is installed.
LEMMA StoredStatus ==
    ASSUME Shape, NEW k \in Konfigs, NEW new \in Statuses, Patch(k, new)
    PROVE  /\ api' \in [Konfigs -> Konfigurations]
           /\ cache' \in [Konfigs -> Konfigurations]
           /\ \A d \in Konfigs \ {k} : api'[d] = api[d] /\ cache'[d] = cache[d]
           /\ api'[k].status.ready \in {new.ready, api[k].status.ready}
           /\ cache'[k] \in {api'[k], cache[k]}
<1>1. /\ MergePatch(cache[k].status, new, api[k].status) \in Statuses
      /\ MergePatch(cache[k].status, new, api[k].status).ready
            \in {new.ready, api[k].status.ready}
  BY PatchedStatus DEF Shape, Konfigurations
<1> DEFINE merged == MergePatch(cache[k].status, new, api[k].status)
           stored == [api[k] EXCEPT !.status = merged]
<1>2. api[k] \in Konfigurations /\ merged \in Statuses
  BY <1>1 DEF Shape
<1>3. stored \in Konfigurations /\ stored.status = merged
  <2> HIDE DEF merged
  <2> QED BY <1>2 DEF Konfigurations
<1>4. Store(k, stored)
  BY DEF Patch
<1> HIDE DEF stored
<1>5. api' = [api EXCEPT ![k] = stored] /\ cache' \in {[cache EXCEPT ![k] = stored], cache}
  BY <1>4 DEF Store
<1>6. stored.status.ready \in {new.ready, api[k].status.ready}
  BY <1>1, <1>3
<1> QED
  BY <1>3, <1>5, <1>6 DEF Shape

\* A step that ends the pass of k, or leaves it, and changes no other.
LEMMA PassDropped ==
    ASSUME Shape, NEW k \in Konfigs, pass' = [pass EXCEPT ![k] = NoPass]
    PROVE  /\ pass' \in [Konfigs -> Passes]
           /\ \A d \in Konfigs : pass'[d] \in {pass[d], NoPass}
BY NothingThere DEF Shape

\* A step in which no Ready appears and no pass moves on but by ending keeps
\* the invariant.
LEMMA QuietStep ==
    ASSUME DependencyInv, Shape', cluster' = cluster,
           \A k \in Konfigs :
              /\ pass'[k] \in {pass[k], NoPass}
              /\ \/ Installed(k)
                 \/ /\ api'[k].status.ready.st # "True"
                    /\ cache'[k].status.ready.st # "True"
    PROVE  DependencyInv'
<1>1. ASSUME NEW k \in Konfigs
      PROVE  ReadyMeansInstalled(k)' /\ PastDependencies(k)'
  BY <1>1 DEF DependencyInv, ReadyMeansInstalled, PastDependencies, Installed,
              NoPass, NoKonfiguration, NoStatus, NoCondition
<1>2. DependenciesFirst'
  BY DEF DependencyInv, DependenciesFirst
<1> QED
  BY <1>1, <1>2 DEF DependencyInv

LEMMA BeginStep ==
    ASSUME DependencyInv, NEW k \in Konfigs, Begin(k)
    PROVE  DependencyInv'
<1> DEFINE new == [NoPass EXCEPT !.pc = "source", !.konfig = cache[k]]
<1>1. pass' = pass \/ pass' = [pass EXCEPT ![k] = new]
  BY DEF Begin
<1>2. /\ new \in Passes /\ new.pc = "source" /\ new.konfig = cache[k]
  BY NothingThere DEF DependencyInv, Shape, NoPass, Passes, Steps
<1> HIDE DEF new
<1>3. Shape'
  BY <1>1, <1>2 DEF DependencyInv, Shape, Begin
<1>4. ASSUME NEW d \in Konfigs
      PROVE  ReadyMeansInstalled(d)' /\ PastDependencies(d)'
  BY <1>1, <1>2 DEF DependencyInv, Shape, Begin, ReadyMeansInstalled, PastDependencies,
                    Installed
<1>5. DependenciesFirst'
  BY DEF DependencyInv, DependenciesFirst, Begin
<1> QED
  BY <1>3, <1>4, <1>5 DEF DependencyInv

\* A pass that fails where it is.
LEMMA FailStep ==
    ASSUME DependencyInv, NEW k \in Konfigs, NEW r \in Revs \union {NoRev}, Fail(k, r),
           UNCHANGED <<src, api, cache>>,
           \/ cluster' = cluster
           \/ cluster' = [cluster EXCEPT ![k] = pass[k].rev] /\ pass[k].pc = "reconcile"
    PROVE  DependencyInv'
<1>1. \A d \in Konfigs : Installed(d) => Installed(d)'
  BY RevAssumption DEF DependencyInv, Shape, Installed
<1>2. /\ pass' \in [Konfigs -> Passes]
      /\ pass'[k].pc = "failed" /\ pass'[k].konfig = pass[k].konfig
      /\ \A d \in Konfigs \ {k} : pass'[d] = pass[d]
  <2> DEFINE new == [pass[k] EXCEPT !.pc = "failed", !.rev = r, !.todo = {}]
  <2>1. new \in Passes /\ new.pc = "failed" /\ new.konfig = pass[k].konfig
    BY FailedPass DEF DependencyInv, Shape
  <2>2. pass' = [pass EXCEPT ![k] = new]
    BY DEF Fail
  <2> HIDE DEF new
  <2> QED
    BY <2>1, <2>2 DEF DependencyInv, Shape
<1>3. Shape'
  BY <1>2 DEF DependencyInv, Shape
<1>4. ASSUME NEW d \in Konfigs
      PROVE  ReadyMeansInstalled(d)' /\ PastDependencies(d)'
  BY <1>1, <1>2, DependsOnAssumption
     DEF DependencyInv, ReadyMeansInstalled, PastDependencies, Installed
<1>5. DependenciesFirst'
  BY <1>1, DependsOnAssumption
     DEF DependencyInv, Shape, DependenciesFirst, PastDependencies, Installed
<1> QED
  BY <1>3, <1>4, <1>5 DEF DependencyInv

LEMMA PrepareSourceStep ==
    ASSUME DependencyInv, NEW k \in Konfigs, PrepareSource(k)
    PROVE  DependencyInv'
<1>1. CASE Fail(k, NoRev) \/ Fail(k, src)
  BY <1>1, FailStep DEF PrepareSource, DependencyInv, Shape
<1>2. CASE /\ src # NoRev
           /\ pass' = [pass EXCEPT ![k] =
                [@ EXCEPT !.pc = "dependencies", !.rev = src, !.todo = DependsOn[k]]]
  <2>1. /\ pass' \in [Konfigs -> Passes]
        /\ pass'[k].pc = "dependencies" /\ pass'[k].konfig = pass[k].konfig
        /\ pass'[k].todo = DependsOn[k] /\ pass'[k].rev = src
        /\ \A d \in Konfigs \ {k} : pass'[d] = pass[d]
    <3> DEFINE new == [pass[k] EXCEPT !.pc = "dependencies", !.rev = src, !.todo = DependsOn[k]]
    <3>1. /\ new \in Passes /\ new.pc = "dependencies" /\ new.konfig = pass[k].konfig
          /\ new.todo = DependsOn[k] /\ new.rev = src
      <4>1. pass[k] \in Passes /\ src \in Revs \union {NoRev} /\ DependsOn[k] \in SUBSET Konfigs
        BY DependsOnAssumption DEF DependencyInv, Shape
      <4> QED
        BY <4>1 DEF Passes, Steps
    <3>2. pass' = [pass EXCEPT ![k] = new]
      BY <1>2
    <3> HIDE DEF new
    <3> QED
      BY <3>1, <3>2 DEF DependencyInv, Shape
  <2>2. Shape'
    BY <1>2, <2>1 DEF DependencyInv, Shape, PrepareSource
  <2>3. ASSUME NEW d \in Konfigs
        PROVE  ReadyMeansInstalled(d)' /\ PastDependencies(d)'
    BY <2>1 DEF DependencyInv, PrepareSource, ReadyMeansInstalled, PastDependencies, Installed
  <2>4. DependenciesFirst'
    BY DEF DependencyInv, DependenciesFirst, PrepareSource
  <2> QED
    BY <2>2, <2>3, <2>4 DEF DependencyInv
<1> QED
  BY <1>1, <1>2 DEF PrepareSource

LEMMA CheckDependencyStep ==
    ASSUME DependencyInv, NEW k \in Konfigs, CheckDependency(k)
    PROVE  DependencyInv'
<1>1. PICK d \in pass[k].todo :
        \/ IsReady(cache[d]) /\ pass' = [pass EXCEPT ![k].todo = @ \ {d}]
        \/ ~IsReady(cache[d]) /\ Fail(k, pass[k].rev)
  BY DEF CheckDependency
<1>2. d \in Konfigs /\ pass[k].rev \in Revs \union {NoRev}
  BY DEF DependencyInv, Shape, Passes
<1>3. CASE Fail(k, pass[k].rev)
  BY <1>2, <1>3, FailStep DEF CheckDependency
<1>4. CASE IsReady(cache[d]) /\ pass' = [pass EXCEPT ![k].todo = @ \ {d}]
  <2>1. Installed(d)
    BY <1>2, <1>4 DEF DependencyInv, ReadyMeansInstalled, IsReady
  <2>2. /\ pass' \in [Konfigs -> Passes]
        /\ pass'[k].pc = pass[k].pc /\ pass'[k].konfig = pass[k].konfig
        /\ pass'[k].rev = pass[k].rev /\ pass'[k].todo = pass[k].todo \ {d}
        /\ \A e \in Konfigs \ {k} : pass'[e] = pass[e]
    BY <1>4 DEF DependencyInv, Shape, Passes
  <2>3. Shape'
    BY <2>2 DEF DependencyInv, Shape, CheckDependency
  <2>4. ASSUME NEW e \in Konfigs
        PROVE  ReadyMeansInstalled(e)' /\ PastDependencies(e)'
    BY <2>1, <2>2 DEF DependencyInv, CheckDependency, ReadyMeansInstalled, PastDependencies,
                      Installed
  <2>5. DependenciesFirst'
    BY DEF DependencyInv, DependenciesFirst, CheckDependency
  <2> QED
    BY <2>3, <2>4, <2>5 DEF DependencyInv
<1> QED
  BY <1>1, <1>3, <1>4

LEMMA SetProgressingStep ==
    ASSUME DependencyInv, NEW k \in Konfigs, SetProgressing(k)
    PROVE  DependencyInv'
<1> UNCHANGED <<src, cluster>>
  BY DEF SetProgressing
<1>1. CASE UNCHANGED <<api, cache>> /\ ReturnError(k)
  <2>1. /\ pass' \in [Konfigs -> Passes]
        /\ \A d \in Konfigs : pass'[d] \in {pass[d], NoPass}
    BY <1>1, PassDropped DEF DependencyInv, ReturnError, Done
  <2>2. Shape'
    BY <1>1, <2>1 DEF DependencyInv, Shape, NoPass
  <2> QED
    BY <1>1, <2>1, <2>2, QuietStep DEF DependencyInv, ReadyMeansInstalled
<1>2. CASE \E t \in Stamps :
             LET new == Progressing(pass[k].konfig.status, t)
             IN  /\ Patch(k, new)
                 /\ pass' = [pass EXCEPT ![k] =
                      [@ EXCEPT !.pc = "reconcile", !.konfig.status = new]]
  <2>1. PICK t \in Stamps :
             /\ Patch(k, Progressing(pass[k].konfig.status, t))
             /\ pass' = [pass EXCEPT ![k] =
                  [@ EXCEPT !.pc = "reconcile",
                            !.konfig.status = Progressing(pass[k].konfig.status, t)]]
    BY <1>2
  <2> DEFINE new == Progressing(pass[k].konfig.status, t)
  <2>2. new \in Statuses /\ new.ready.st = "Unknown"
    BY ProgressingStatus DEF DependencyInv, Shape, Passes, Konfigurations
  <2>3. /\ api' \in [Konfigs -> Konfigurations]
        /\ cache' \in [Konfigs -> Konfigurations]
        /\ \A d \in Konfigs \ {k} : api'[d] = api[d] /\ cache'[d] = cache[d]
        /\ api'[k].status.ready \in {new.ready, api[k].status.ready}
        /\ cache'[k] \in {api'[k], cache[k]}
    BY <2>1, <2>2, StoredStatus DEF DependencyInv
  <2> HIDE DEF new
  <2>4. /\ pass' \in [Konfigs -> Passes]
        /\ pass'[k].pc = "reconcile" /\ pass'[k].konfig.status = new
        /\ pass'[k].rev = pass[k].rev /\ pass'[k].todo = pass[k].todo
        /\ \A e \in Konfigs \ {k} : pass'[e] = pass[e]
    <3> DEFINE moved == [pass[k] EXCEPT !.pc = "reconcile", !.konfig.status = new]
    <3>1. /\ moved \in Passes /\ moved.pc = "reconcile" /\ moved.konfig.status = new
          /\ moved.rev = pass[k].rev /\ moved.todo = pass[k].todo
      BY <2>2, ProgressingPass DEF DependencyInv, Shape
    <3>2. pass' = [pass EXCEPT ![k] = moved]
      BY <2>1 DEF new
    <3> HIDE DEF moved
    <3> QED
      BY <3>1, <3>2 DEF DependencyInv, Shape
  <2>5. pass[k].pc = "dependencies" /\ pass[k].todo = {}
    BY DEF SetProgressing
  <2>6. Shape'
    BY <2>3, <2>4, <2>5 DEF DependencyInv, Shape
  <2>7. ASSUME NEW e \in Konfigs
        PROVE  ReadyMeansInstalled(e)' /\ PastDependencies(e)'
    BY <2>2, <2>3, <2>4, <2>5
       DEF DependencyInv, ReadyMeansInstalled, PastDependencies, Installed
  <2>8. DependenciesFirst'
    BY DEF DependencyInv, DependenciesFirst
  <2> QED
    BY <2>6, <2>7, <2>8 DEF DependencyInv
<1> QED
  BY <1>1, <1>2 DEF SetProgressing

LEMMA ReconcileStep ==
    ASSUME DependencyInv, NEW k \in Konfigs, Reconcile(k)
    PROVE  DependencyInv'
<1>1. CASE Fail(k, pass[k].rev)
  BY <1>1, FailStep DEF Reconcile, DependencyInv, Shape, Passes
<1>2. CASE cluster' = [cluster EXCEPT ![k] = pass[k].rev] /\ Move(k, "ready")
  <2>1. cluster'[k] \in Revs /\ \A d \in Konfigs \ {k} : cluster'[d] = cluster[d]
    BY <1>2 DEF Reconcile, DependencyInv, Shape
  <2>2. /\ Installed(k)'
        /\ \A d \in Konfigs : Installed(d) => Installed(d)'
    BY <2>1, RevAssumption DEF Installed
  <2>3. /\ pass' \in [Konfigs -> Passes]
        /\ pass'[k].pc = "ready" /\ pass'[k].konfig = pass[k].konfig
        /\ pass'[k].rev = pass[k].rev
        /\ \A d \in Konfigs \ {k} : pass'[d] = pass[d]
    BY <1>2 DEF Move, DependencyInv, Shape, Passes, Steps
  <2>4. Shape'
    BY <1>2, <2>1, <2>3 DEF Reconcile, DependencyInv, Shape
  <2>5. ASSUME NEW d \in Konfigs
        PROVE  ReadyMeansInstalled(d)' /\ PastDependencies(d)'
    BY <2>2, <2>3, DependsOnAssumption
       DEF Reconcile, DependencyInv, ReadyMeansInstalled, PastDependencies
  <2>6. \A d \in DependsOn[k] : Installed(d)
    BY DEF Reconcile, DependencyInv, PastDependencies
  <2>7. DependenciesFirst'
    BY <2>1, <2>2, <2>6, DependsOnAssumption
       DEF DependencyInv, DependenciesFirst, Installed
  <2> QED
    BY <2>4, <2>5, <2>7 DEF DependencyInv
<1> QED
  BY <1>1, <1>2 DEF Reconcile

\* A pass that ends with a patch of its Ready, or without.
LEMMA OutcomeStep ==
    ASSUME DependencyInv, NEW k \in Konfigs, NEW st \in {"True", "False"},
           st = "True" => pass[k].pc = "ready",
           PatchReadiness(k, st) \/ UNCHANGED <<api, cache>>,
           pass' = [pass EXCEPT ![k] = NoPass],
           UNCHANGED <<src, cluster>>
    PROVE  DependencyInv'
<1>1. /\ pass' \in [Konfigs -> Passes]
      /\ \A d \in Konfigs : pass'[d] \in {pass[d], NoPass}
  BY PassDropped DEF DependencyInv
<1>2. CASE UNCHANGED <<api, cache>>
  <2>1. Shape'
    BY <1>1, <1>2 DEF DependencyInv, Shape, NoPass
  <2> QED
    BY <1>1, <1>2, <2>1, QuietStep DEF DependencyInv, ReadyMeansInstalled
<1>3. CASE PatchReadiness(k, st)
  <2>1. PICK t \in Stamps : Patch(k, Readiness(pass[k].konfig.status, pass[k].konfig.gen,
                                               st, pass[k].rev, t))
    BY <1>3 DEF PatchReadiness
  <2> DEFINE new == Readiness(pass[k].konfig.status, pass[k].konfig.gen, st, pass[k].rev, t)
  <2>2. new \in Statuses /\ new.ready.st = st
    <3>1. /\ pass[k].konfig.status \in Statuses /\ pass[k].konfig.gen \in Nat
          /\ pass[k].rev \in Revs \union {NoRev}
      BY DEF DependencyInv, Shape, Passes, Konfigurations
    <3> QED
      BY <3>1, ReadinessStatus
  <2>3. /\ api' \in [Konfigs -> Konfigurations]
        /\ cache' \in [Konfigs -> Konfigurations]
        /\ \A d \in Konfigs \ {k} : api'[d] = api[d] /\ cache'[d] = cache[d]
        /\ api'[k].status.ready \in {new.ready, api[k].status.ready}
        /\ cache'[k] \in {api'[k], cache[k]}
    BY <2>1, <2>2, StoredStatus DEF DependencyInv
  <2> HIDE DEF new
  <2>4. Shape'
    BY <1>1, <2>3 DEF DependencyInv, Shape, NoPass
  <2>5. \A d \in Konfigs : \/ Installed(d)
                           \/ /\ api'[d].status.ready.st # "True"
                              /\ cache'[d].status.ready.st # "True"
    BY <2>2, <2>3 DEF DependencyInv, ReadyMeansInstalled
  <2> QED
    BY <1>1, <2>4, <2>5, QuietStep
<1> QED
  BY <1>2, <1>3

\* The informer delivers, users create and edit: the stored status stays.
LEMMA RecordStep ==
    ASSUME DependencyInv, NEW k \in Konfigs,
           InformerSyncs(k) \/ UserCreates(k) \/ UserEdits(k)
    PROVE  DependencyInv'
<1>1. /\ api' \in [Konfigs -> Konfigurations]
      /\ cache' \in [Konfigs -> Konfigurations]
      /\ \A d \in Konfigs : /\ api'[d].status = api[d].status
                            /\ cache'[d].status \in {api[d].status, cache[d].status}
  <2>1. CASE InformerSyncs(k)
    BY <2>1 DEF InformerSyncs, DependencyInv, Shape
  <2>2. ASSUME NEW new \in Konfigurations, new.status = api[k].status, Store(k, new)
        PROVE  <1>1
    BY <2>2 DEF Store, DependencyInv, Shape
  <2>3. CASE UserCreates(k)
    <3>1. /\ [api[k] EXCEPT !.exists = TRUE, !.gen = 1] \in Konfigurations
          /\ [api[k] EXCEPT !.exists = TRUE, !.gen = 1].status = api[k].status
      BY EditedKonfiguration DEF DependencyInv, Shape
    <3> QED
      BY <2>2, <2>3, <3>1 DEF UserCreates
  <2>4. CASE UserEdits(k)
    <3>1. PICK suspend \in BOOLEAN :
            Store(k, [api[k] EXCEPT !.suspend = suspend, !.gen = @ + 1])
      BY <2>4 DEF UserEdits
    <3>2. /\ [api[k] EXCEPT !.suspend = suspend, !.gen = @ + 1] \in Konfigurations
          /\ [api[k] EXCEPT !.suspend = suspend, !.gen = @ + 1].status = api[k].status
      BY EditedKonfiguration DEF DependencyInv, Shape
    <3> QED
      BY <2>2, <3>1, <3>2
  <2> QED
    BY <2>1, <2>3, <2>4
<1>2. UNCHANGED <<src, cluster, pass>>
  BY DEF InformerSyncs, UserCreates, UserEdits
<1>3. Shape'
  BY <1>1, <1>2 DEF DependencyInv, Shape
<1> QED
  BY <1>1, <1>2, <1>3, QuietStep DEF DependencyInv, ReadyMeansInstalled

\* A restart loses the passes; the source changes nothing but what is queued.
LEMMA AmbientStep ==
    ASSUME DependencyInv,
           \/ Crash \/ SourceChanges \/ UNCHANGED vars
           \/ \E k \in Konfigs : TimerFires(k)
    PROVE  DependencyInv'
<1>1. /\ api' = api /\ cluster' = cluster /\ src' \in Revs \union {NoRev}
      /\ cache' \in {cache, api}
      /\ pass' = pass \/ pass' = [k \in Konfigs |-> NoPass]
  <2>1. CASE Crash
    BY <2>1 DEF Crash, DependencyInv, Shape
  <2>2. CASE SourceChanges
    <3>1. UNCHANGED <<api, cache, cluster, pass>> /\ \E r \in (Revs \union {NoRev}) \ {src} : src' = r
      BY <2>2 DEF SourceChanges
    <3> QED
      BY <3>1
  <2>3. CASE UNCHANGED vars \/ \E k \in Konfigs : TimerFires(k)
    BY <2>3 DEF TimerFires, vars, DependencyInv, Shape
  <2> QED
    BY <2>1, <2>2, <2>3
<1>2. /\ pass' \in [Konfigs -> Passes]
      /\ \A k \in Konfigs : pass'[k] \in {pass[k], NoPass}
  BY <1>1, NothingThere DEF DependencyInv, Shape
<1>3. Shape'
  BY <1>1, <1>2 DEF DependencyInv, Shape, NoPass
<1> QED
  BY <1>1, <1>2, <1>3, QuietStep DEF DependencyInv, ReadyMeansInstalled

LEMMA DependencyNext == DependencyInv /\ [Next]_vars => DependencyInv'
<1> SUFFICES ASSUME DependencyInv, [Next]_vars PROVE DependencyInv'
  OBVIOUS
<1>1. ASSUME NEW k \in Konfigs, Begin(k) PROVE DependencyInv'
  BY <1>1, BeginStep
<1>2. ASSUME NEW k \in Konfigs, Step(k) PROVE DependencyInv'
  <2>1. CASE SetReady(k)
    BY <2>1, OutcomeStep DEF SetReady, ReturnAfter, ReturnError, Done
  <2>2. CASE SetNotReady(k)
    BY <2>2, OutcomeStep DEF SetNotReady, ReturnAfter, Done
  <2> QED
    BY <1>2, <2>1, <2>2, PrepareSourceStep, CheckDependencyStep, SetProgressingStep,
       ReconcileStep DEF Step
<1>3. ASSUME NEW k \in Konfigs, InformerSyncs(k) \/ UserCreates(k) \/ UserEdits(k)
      PROVE  DependencyInv'
  BY <1>3, RecordStep
<1>4. CASE \/ Crash \/ SourceChanges \/ UNCHANGED vars
           \/ \E k \in Konfigs : TimerFires(k)
  BY <1>4, AmbientStep
<1> QED
  BY <1>1, <1>2, <1>3, <1>4 DEF Next

\* No Konfiguration has objects in the cluster before all it depends on have:
\* checkDependencies reads Ready conditions that may be old, of Konfigurations
\* whose own passes go on meanwhile, and still keeps the order.
THEOREM InstalledAfterDependencies == Spec => []DependenciesFirst
<1>1. DependencyInv => DependenciesFirst
  BY DEF DependencyInv
<1> QED
  BY <1>1, DependencyInit, DependencyNext, PTL DEF Spec

-------------------------------------------------------------------------------
(* Cycles *)

\* Needs(Konfigs, k) holds k and what its members depend on, and all else it
\* holds is needed through something k depends on.
LEMMA NeedsItself ==
    ASSUME NEW k \in Konfigs
    PROVE  k \in Needs(Konfigs, k)
BY DEF Needs

LEMMA NeedsClosed ==
    ASSUME NEW k \in Konfigs, NEW x \in Needs(Konfigs, k), NEW d \in DependsOn[x]
    PROVE  d \in Needs(Konfigs, k)
<1>1. x \in Konfigs /\ d \in Konfigs
  BY DependsOnAssumption DEF Needs
<1>2. ASSUME NEW all \in SUBSET Konfigs, k \in all,
             \A y \in all \intersect Konfigs : DependsOn[y] \subseteq all
      PROVE  d \in all
  <2>1. x \in all
    BY <1>2 DEF Needs
  <2> QED
    BY <1>1, <1>2, <2>1
<1> QED
  BY <1>1, <1>2 DEF Needs

LEMMA NeedsUnrolled ==
    ASSUME NEW k \in Konfigs, NEW d \in Needs(Konfigs, k), d # k
    PROVE  \E e \in DependsOn[k] : d \in Needs(Konfigs, e)
<1> DEFINE all == {x \in Konfigs : x = k \/ \E e \in DependsOn[k] : x \in Needs(Konfigs, e)}
<1>1. all \in SUBSET Konfigs /\ k \in all
  OBVIOUS
<1>2. ASSUME NEW x \in all, NEW y \in DependsOn[x]
      PROVE  y \in all
  <2>1. y \in Konfigs /\ \A e \in DependsOn[k] : e \in Konfigs
    BY <1>2, DependsOnAssumption
  <2>2. CASE x = k
    BY <2>1, <2>2, NeedsItself
  <2>3. CASE \E e \in DependsOn[k] : x \in Needs(Konfigs, e)
    BY <2>1, <2>3, NeedsClosed
  <2> QED
    BY <2>2, <2>3
<1>3. \A x \in all \intersect Konfigs : DependsOn[x] \subseteq all
  BY <1>2
<1> HIDE DEF all
<1>4. d \in all
  BY <1>1, <1>3 DEF Needs
<1> QED
  BY <1>4 DEF all

\* Whoever needs a cycle depends on somebody who does.
LEMMA KnottedOnward ==
    ASSUME NEW k \in Knotted
    PROVE  \E e \in DependsOn[k] : e \in Knotted
<1>1. /\ \A x \in Konfigs : AllNeeds[x] = Needs(Konfigs, x)
      /\ k \in Konfigs
  BY DEF AllNeeds, Knotted
<1>2. PICK d \in Needs(Konfigs, k) : \E e \in DependsOn[d] : d \in AllNeeds[e]
  BY <1>1 DEF Knotted
<1>3. d \in Konfigs
  BY <1>2 DEF Needs
<1>4. CASE d = k
  <2>1. PICK e \in DependsOn[k] : k \in AllNeeds[e]
    BY <1>2, <1>4
  <2>2. e \in Konfigs
    BY <1>1, DependsOnAssumption
  <2> QED
    BY <2>1, <2>2 DEF Knotted
<1>5. CASE d # k
  <2>1. PICK e \in DependsOn[k] : d \in Needs(Konfigs, e)
    BY <1>1, <1>5, NeedsUnrolled
  <2>2. e \in Konfigs /\ d \in AllNeeds[e]
    BY <1>1, <2>1, DependsOnAssumption
  <2> QED
    BY <1>2, <2>1, <2>2 DEF Knotted
<1> QED
  BY <1>4, <1>5

LEMMA CyclesInit == Init => CyclesWait
BY DEF Init, CyclesWait, Knotted

LEMMA CyclesNext == DependencyInv /\ CyclesWait /\ [Next]_vars => CyclesWait'
<1> SUFFICES ASSUME DependencyInv, CyclesWait, [Next]_vars,
                    NEW k \in Knotted
             PROVE  cluster'[k] = NoRev
  BY DEF CyclesWait
<1> k \in Konfigs
  BY DEF Knotted
<1>1. CASE cluster' = cluster
  BY <1>1 DEF CyclesWait
<1>2. ASSUME NEW x \in Konfigs, Reconcile(x), x # k
      PROVE  cluster'[k] = NoRev
  BY <1>2 DEF Reconcile, DependencyInv, Shape, CyclesWait
<1>3. CASE Reconcile(k)
  <2>1. PICK e \in DependsOn[k] : e \in Knotted
    BY KnottedOnward
  <2>2. Installed(e)
    BY <1>3, <2>1 DEF Reconcile, DependencyInv, PastDependencies
  <2> QED
    BY <2>1, <2>2 DEF CyclesWait, Installed
<1> QED
  BY <1>1, <1>2, <1>3
     DEF Next, Step, Begin, PrepareSource, CheckDependency, SetProgressing, SetReady,
         SetNotReady, InformerSyncs, TimerFires, UserCreates, UserEdits, SourceChanges,
         Crash, vars

\* Nothing that needs a cycle of dependencies is ever applied: nobody detects
\* the cycle, and yet no stale Ready or fault lets one of its members through
\* (checkDependencies).
THEOREM CyclesWaitForever == Spec => []CyclesWait
BY DependencyInit, DependencyNext, CyclesInit, CyclesNext, PTL DEF Spec

-------------------------------------------------------------------------------
(* Sequences of keys *)

Distinct(s) == \A i, j \in DOMAIN s : s[i] = s[j] => i = j

\* SetToSeqs(S) has sequences of every member of S, once each.
LEMMA Arranged ==
    ASSUME NEW S, IsFiniteSet(S), NEW s \in SetToSeqs(S)
    PROVE  s \in Seq(S) /\ Distinct(s) /\ ToSet(s) = S
<1> DEFINE n == Cardinality(S)
<1>1. n \in Nat
  BY FS_CardinalityType
<1>2. s \in [1..n -> S] /\ \A i, j \in 1..n : i # j => s[i] # s[j]
  BY DEF SetToSeqs
<1>3. s \in Seq(S) /\ DOMAIN s = 1..n
  BY <1>1, <1>2
<1>4. Distinct(s)
  BY <1>2, <1>3 DEF Distinct
<1>5. IsFiniteSet(1..n) /\ Cardinality(1..n) = n
  BY <1>1, FS_Interval
<1>6. s \in Injection(1..n, S)
  BY <1>2 DEF Injection, IsInjective
<1>7. s \in Surjection(1..n, S)
  BY <1>5, <1>6, FS_Injection
<1>8. \A x \in S : \E i \in 1..n : s[i] = x
  BY <1>7 DEF Surjection
<1> QED
  BY <1>2, <1>3, <1>4, <1>8 DEF ToSet

\* A sequence without repetition continued by others.
LEMMA Joined ==
    ASSUME NEW T, NEW q \in Seq(T), NEW s \in Seq(T), Distinct(q), Distinct(s),
           ToSet(q) \intersect ToSet(s) = {}
    PROVE  /\ q \o s \in Seq(T)
           /\ Distinct(q \o s)
           /\ ToSet(q \o s) = ToSet(q) \union ToSet(s)
<1> DEFINE r == q \o s
<1>1. /\ r \in Seq(T) /\ Len(r) = Len(q) + Len(s)
      /\ \A i \in 1..Len(r) : r[i] = IF i <= Len(q) THEN q[i] ELSE s[i - Len(q)]
  OBVIOUS
<1>2. /\ DOMAIN q = 1..Len(q) /\ DOMAIN s = 1..Len(s) /\ DOMAIN r = 1..Len(r)
      /\ Len(q) \in Nat /\ Len(s) \in Nat
  BY <1>1
<1>3. \A i \in 1..Len(q), j \in 1..Len(s) : q[i] # s[j]
  BY <1>2 DEF ToSet
<1> HIDE DEF r
<1>4. ASSUME NEW i \in 1..Len(r), NEW j \in 1..Len(r), r[i] = r[j]
      PROVE  i = j
  <2>1. CASE i <= Len(q) /\ j <= Len(q)
    BY <1>1, <1>2, <1>4, <2>1 DEF Distinct
  <2>2. CASE i > Len(q) /\ j > Len(q)
    <3>1. i - Len(q) \in 1..Len(s) /\ j - Len(q) \in 1..Len(s)
      BY <1>1, <1>2, <2>2
    <3>2. s[i - Len(q)] = s[j - Len(q)]
      BY <1>1, <1>2, <1>4, <2>2
    <3>3. i - Len(q) = j - Len(q)
      BY <1>2, <3>1, <3>2 DEF Distinct
    <3> QED
      BY <1>2, <3>3
  <2>3. CASE i <= Len(q) /\ j > Len(q)
    BY <1>1, <1>2, <1>3, <1>4, <2>3
  <2>4. CASE i > Len(q) /\ j <= Len(q)
    BY <1>1, <1>2, <1>3, <1>4, <2>4
  <2> QED
    BY <1>2, <2>1, <2>2, <2>3, <2>4
<1>5. ASSUME NEW x \in ToSet(q) \union ToSet(s) PROVE x \in ToSet(r)
  <2>1. CASE x \in ToSet(q)
    BY <1>1, <1>2, <2>1 DEF ToSet
  <2>2. CASE x \in ToSet(s)
    <3>1. PICK j \in 1..Len(s) : x = s[j]
      BY <1>2, <2>2 DEF ToSet
    <3>2. /\ Len(q) + j \in 1..Len(r) /\ ~(Len(q) + j <= Len(q))
          /\ (Len(q) + j) - Len(q) = j
      BY <1>1, <1>2
    <3>3. r[Len(q) + j] = s[j]
      BY <1>1, <3>2
    <3> QED
      BY <1>2, <3>1, <3>2, <3>3 DEF ToSet
  <2> QED
    BY <1>5, <2>1, <2>2
<1>6. ASSUME NEW x \in ToSet(r) PROVE x \in ToSet(q) \union ToSet(s)
  <2>1. PICK i \in 1..Len(r) : x = r[i]
    BY <1>2 DEF ToSet
  <2>2. CASE i <= Len(q)
    <3>1. i \in 1..Len(q) /\ x = q[i]
      BY <1>1, <1>2, <2>1, <2>2
    <3> QED
      BY <1>2, <3>1 DEF ToSet
  <2>3. CASE i > Len(q)
    <3>1. i - Len(q) \in 1..Len(s)
      BY <1>1, <1>2, <2>3
    <3>2. x = s[i - Len(q)]
      BY <1>1, <1>2, <2>1, <2>3
    <3> QED
      BY <1>2, <3>1, <3>2 DEF ToSet
  <2> QED
    BY <1>2, <2>2, <2>3
<1> QED
  BY <1>1, <1>2, <1>4, <1>5, <1>6 DEF Distinct, r

\* The key at the head leaves.
LEMMA Taken ==
    ASSUME NEW T, NEW q \in Seq(T), q # <<>>, Distinct(q)
    PROVE  /\ Head(q) \in T
           /\ Tail(q) \in Seq(T)
           /\ Distinct(Tail(q))
           /\ ToSet(Tail(q)) = ToSet(q) \ {Head(q)}
<1> DEFINE t == Tail(q)
<1>1. /\ Len(q) \in Nat /\ Len(q) >= 1 /\ DOMAIN q = 1..Len(q)
      /\ t \in Seq(T) /\ Len(t) = Len(q) - 1 /\ DOMAIN t = 1..Len(t)
      /\ Head(q) = q[1] /\ \A i \in 1..Len(t) : t[i] = q[i + 1]
  OBVIOUS
<1> HIDE DEF t
<1>2. \A i \in 1..Len(t) : i + 1 \in 1..Len(q) /\ i + 1 # 1
  BY <1>1
<1>3. Distinct(t)
  <2>1. ASSUME NEW i \in 1..Len(t), NEW j \in 1..Len(t), t[i] = t[j]
        PROVE  i = j
    <3>1. i + 1 \in 1..Len(q) /\ j + 1 \in 1..Len(q) /\ q[i + 1] = q[j + 1]
      BY <1>1, <1>2, <2>1
    <3>2. i + 1 = j + 1
      BY <1>1, <3>1 DEF Distinct
    <3> QED
      BY <3>2
  <2> QED
    BY <1>1, <2>1 DEF Distinct
<1>4. \A i \in 1..Len(q) : i = 1 \/ (i - 1 \in 1..Len(t) /\ (i - 1) + 1 = i)
  BY <1>1
<1>5. ASSUME NEW x \in ToSet(t) PROVE x \in ToSet(q) /\ x # q[1]
  <2>1. PICK i \in 1..Len(t) : x = q[i + 1]
    BY <1>1 DEF ToSet
  <2>2. 1 \in 1..Len(q)
    BY <1>1
  <2> QED
    BY <1>1, <1>2, <2>1, <2>2 DEF ToSet, Distinct
<1>6. ASSUME NEW x \in ToSet(q), x # q[1] PROVE x \in ToSet(t)
  <2>1. PICK i \in 1..Len(q) : x = q[i]
    BY <1>1 DEF ToSet
  <2>2. i - 1 \in 1..Len(t) /\ t[i - 1] = q[i]
    BY <1>1, <1>4, <1>6, <2>1
  <2> QED
    BY <1>1, <2>1, <2>2 DEF ToSet
<1>7. q[1] \in T
  BY <1>1
<1> QED
  BY <1>1, <1>3, <1>5, <1>6, <1>7 DEF t

\* A key joins at the end.
LEMMA Appended ==
    ASSUME NEW T, NEW q \in Seq(T), NEW k \in T, Distinct(q), k \notin ToSet(q)
    PROVE  /\ Append(q, k) \in Seq(T)
           /\ Distinct(Append(q, k))
           /\ ToSet(Append(q, k)) = ToSet(q) \union {k}
<1> DEFINE s == <<k>>
<1>1. s \in Seq(T) /\ Append(q, k) = q \o s
  OBVIOUS
<1>2. Distinct(s) /\ ToSet(s) = {k}
  BY DEF Distinct, ToSet
<1> HIDE DEF s
<1>3. ToSet(q) \intersect ToSet(s) = {}
  BY <1>2
<1>4. /\ q \o s \in Seq(T) /\ Distinct(q \o s)
      /\ ToSet(q \o s) = ToSet(q) \union ToSet(s)
  BY <1>1, <1>2, <1>3, Joined
<1> QED
  BY <1>1, <1>2, <1>4

-------------------------------------------------------------------------------
(* The pieces of a step *)

QueueTypes == /\ queue \in Seq(Konfigs)
              /\ again \subseteq Konfigs
              /\ timers \subseteq Konfigs
              /\ spent \in [Events -> Nat]

QueueInv == QueueTypes /\ OnePassPerKey /\ NeverForgotten

LEMMA Spent ==
    ASSUME QueueTypes, NEW e \in Events, Spend(e) \/ UNCHANGED spent
    PROVE  spent' \in [Events -> Nat]
BY DEF QueueTypes, Spend

\* The passes in hand stay in hand.
LEMMA SameHands ==
    ASSUME Shape, NEW k \in Konfigs, pass[k].pc # "idle", NEW p, p.pc # "idle",
           pass' = [pass EXCEPT ![k] = p]
    PROVE  InHand' = InHand
BY DEF InHand, Shape

LEMMA FiniteHands == IsFiniteSet(InHand) /\ Cardinality(InHand) \in Nat
<1>1. InHand \in SUBSET Konfigs
  BY DEF InHand
<1> QED
  BY <1>1, KonfigsAssumption, FS_Subset, FS_CardinalityType

LEMMA Enqueued ==
    ASSUME QueueTypes, OnePassPerKey, NEW keys \in SUBSET Konfigs, Enqueue(keys),
           InHand' = InHand
    PROVE  /\ queue' \in Seq(Konfigs) /\ again' \subseteq Konfigs
           /\ OnePassPerKey'
           /\ ToSet(queue)' = ToSet(queue) \union Fresh(keys)
<1>1. PICK s \in SetToSeqs(Fresh(keys)) : queue' = queue \o s
  BY DEF Enqueue
<1>2. IsFiniteSet(Fresh(keys))
  <2>1. Fresh(keys) \in SUBSET Konfigs
    BY DEF Fresh
  <2> QED
    BY <2>1, KonfigsAssumption, FS_Subset
<1>3. s \in Seq(Fresh(keys)) /\ Distinct(s) /\ ToSet(s) = Fresh(keys)
  BY <1>2, Arranged
<1>4. s \in Seq(Konfigs) /\ queue \in Seq(Konfigs) /\ Distinct(queue)
  BY <1>3 DEF Fresh, QueueTypes, OnePassPerKey, Distinct
<1>5. ToSet(queue) \intersect ToSet(s) = {}
  BY <1>3 DEF Fresh
<1>6. /\ queue \o s \in Seq(Konfigs)
      /\ Distinct(queue \o s)
      /\ ToSet(queue \o s) = ToSet(queue) \union ToSet(s)
  BY <1>3, <1>4, <1>5, Joined
<1>7. ToSet(queue)' = ToSet(queue) \union Fresh(keys)
  BY <1>1, <1>3, <1>6 DEF ToSet
<1>8. OnePassPerKey'
  <2>1. Distinct(queue)'
    BY <1>1, <1>6
  <2>2. ToSet(queue)' \intersect InHand' = {}
    BY <1>7 DEF Fresh, OnePassPerKey
  <2> QED
    BY <2>1, <2>2 DEF OnePassPerKey, Distinct, ToSet
<1>9. again' \subseteq Konfigs
  BY DEF Enqueue, QueueTypes
<1> QED
  BY <1>1, <1>6, <1>7, <1>8, <1>9

\* Every key that was kept is kept, and so is one that becomes known.
LEMMA Kept ==
    ASSUME NeverForgotten,
           \A k \in Konfigs :
              /\ k \in ToSet(queue) \union InHand \union timers
                 => k \in ToSet(queue)' \union InHand' \union timers'
              /\ cache'[k].exists
                 => cache[k].exists \/ k \in ToSet(queue)' \union InHand' \union timers'
    PROVE  NeverForgotten'
<1>1. ASSUME NEW k \in Konfigs, cache'[k].exists
      PROVE  k \in ToSet(queue)' \union InHand' \union timers'
  BY <1>1 DEF NeverForgotten
<1> QED
  BY <1>1 DEF NeverForgotten, ToSet

\* A step that stores or delivers k, and lets the informer's event queue it.
LEMMA Delivered ==
    ASSUME Shape, Shape', QueueInv, NEW k \in Konfigs,
           \A d \in Konfigs \ {k} : cache'[d] = cache[d],
           Enqueue(News(k)), InHand' = InHand, timers' = timers,
           spent' \in [Events -> Nat]
    PROVE  QueueInv'
<1>1. News(k) \in SUBSET Konfigs
  BY DEF News
<1>2. /\ queue' \in Seq(Konfigs) /\ again' \subseteq Konfigs
      /\ OnePassPerKey'
      /\ ToSet(queue)' = ToSet(queue) \union Fresh(News(k))
  BY <1>1, Enqueued DEF QueueInv
<1>3. cache'[k].exists => cache[k].exists \/ Noticed(k)
  BY DEF Noticed, Shape, Konfigurations
<1>4. Noticed(k) => k \in ToSet(queue)' \union InHand'
  BY <1>2 DEF News, Fresh
<1>5. NeverForgotten'
  BY <1>2, <1>3, <1>4, Kept DEF QueueInv
<1> QED
  BY <1>2, <1>5 DEF QueueInv, QueueTypes

\* The pass of k ends.
LEMMA Ended ==
    ASSUME Shape, QueueInv, NEW k \in Konfigs, pass[k].pc # "idle",
           NEW requeue \in BOOLEAN, Done(k, requeue)
    PROVE  /\ queue' \in Seq(Konfigs) /\ again' \subseteq Konfigs
           /\ OnePassPerKey'
           /\ InHand' = InHand \ {k}
           /\ ToSet(queue) \subseteq ToSet(queue)'
           /\ requeue \/ Noticed(k) => k \in ToSet(queue)'
<1>1. InHand' = InHand \ {k} /\ k \in InHand
  BY DEF InHand, Done, NoPass, Shape
<1>2. /\ queue \in Seq(Konfigs) /\ Distinct(queue) /\ k \notin ToSet(queue)
      /\ ToSet(queue) \intersect InHand = {}
  BY <1>1 DEF QueueInv, QueueTypes, OnePassPerKey, Distinct
<1>3. /\ Append(queue, k) \in Seq(Konfigs)
      /\ Distinct(Append(queue, k))
      /\ ToSet(Append(queue, k)) = ToSet(queue) \union {k}
  BY <1>2, Appended
<1>4. /\ queue' \in {queue, Append(queue, k)}
      /\ requeue \/ Noticed(k) => queue' = Append(queue, k)
  BY DEF Done
<1>5. queue' \in Seq(Konfigs) /\ Distinct(queue)'
  BY <1>2, <1>3, <1>4 DEF Distinct
<1>6. /\ ToSet(queue) \subseteq ToSet(queue)'
      /\ ToSet(queue)' \subseteq ToSet(queue) \union {k}
      /\ requeue \/ Noticed(k) => k \in ToSet(queue)'
  BY <1>3, <1>4 DEF ToSet
<1>7. Cardinality(InHand)' <= MaxConcurrent
  <2>1. Cardinality(InHand \ {k}) = Cardinality(InHand) - 1
    BY <1>1, FiniteHands, FS_RemoveElement
  <2>2. Cardinality(InHand) <= MaxConcurrent
    BY DEF QueueInv, OnePassPerKey
  <2> QED
    BY <1>1, <2>1, <2>2, FiniteHands, MaxConcurrentAssumption
<1>8. ToSet(queue)' \intersect InHand' = {}
  BY <1>1, <1>2, <1>6
<1>9. OnePassPerKey'
  BY <1>5, <1>7, <1>8 DEF OnePassPerKey, Distinct, ToSet
<1> QED
  BY <1>1, <1>5, <1>6, <1>9 DEF Done, QueueInv, QueueTypes

\* It ends with a key that waits for its timer, or at once in the queue.
LEMMA Returned ==
    ASSUME Shape, Shape', QueueInv, NEW k \in Konfigs, pass[k].pc # "idle",
           \A d \in Konfigs \ {k} : cache'[d] = cache[d],
           ReturnAfter(k) \/ ReturnError(k),
           spent' \in [Events -> Nat]
    PROVE  QueueInv'
<1>1. CASE ReturnAfter(k)
  <2>1. /\ queue' \in Seq(Konfigs) /\ again' \subseteq Konfigs
        /\ OnePassPerKey'
        /\ InHand' = InHand \ {k}
        /\ ToSet(queue) \subseteq ToSet(queue)'
        /\ timers' = timers \union {k}
    BY <1>1, Ended DEF ReturnAfter
  <2>2. NeverForgotten'
    BY <2>1, Kept DEF QueueInv
  <2> QED
    BY <2>1, <2>2 DEF QueueInv, QueueTypes
<1>2. CASE ReturnError(k)
  <2>1. /\ queue' \in Seq(Konfigs) /\ again' \subseteq Konfigs
        /\ OnePassPerKey'
        /\ InHand' = InHand \ {k}
        /\ ToSet(queue) \subseteq ToSet(queue)'
        /\ k \in ToSet(queue)'
        /\ timers' = timers
    BY <1>2, Ended DEF ReturnError
  <2>2. NeverForgotten'
    BY <2>1, Kept DEF QueueInv
  <2> QED
    BY <2>1, <2>2 DEF QueueInv, QueueTypes
<1> QED
  BY <1>1, <1>2

-------------------------------------------------------------------------------
(* The steps *)

\* The informer's copy of any other Konfiguration stays.
LEMMA OthersStay ==
    ASSUME Shape, NEW k \in Konfigs, NEW new, Store(k, new)
    PROVE  \A d \in Konfigs \ {k} : cache'[d] = cache[d]
BY DEF Store, Shape

LEMMA BeginQueue ==
    ASSUME Shape, QueueInv, NEW k \in Konfigs, Begin(k)
    PROVE  QueueInv'
<1>1. queue \in Seq(Konfigs) /\ Distinct(queue) /\ ToSet(queue) \intersect InHand = {}
  BY DEF QueueInv, QueueTypes, OnePassPerKey, Distinct
<1>2. queue # <<>> /\ k = Head(queue) /\ queue' = Tail(queue)
  BY DEF Begin
<1>3. /\ queue' \in Seq(Konfigs) /\ Distinct(queue)'
      /\ ToSet(queue)' = ToSet(queue) \ {k}
  <2>1. /\ Tail(queue) \in Seq(Konfigs)
        /\ Distinct(Tail(queue))
        /\ ToSet(Tail(queue)) = ToSet(queue) \ {Head(queue)}
    BY <1>1, <1>2, Taken
  <2> QED
    BY <1>2, <2>1, Zenon DEF Distinct, ToSet
<1>4. k \in ToSet(queue)
  <2>1. 1 \in DOMAIN queue /\ k = queue[1]
    BY <1>1, <1>2
  <2> QED
    BY <2>1 DEF ToSet
<1>5. /\ InHand' \in {InHand, InHand \union {k}}
      /\ k \in InHand' \union timers'
      /\ timers \subseteq timers' /\ timers' \subseteq timers \union {k}
  <2>1. CASE cache[k].suspend
    BY <2>1 DEF Begin, InHand
  <2>2. CASE ~cache[k].suspend
    <3> DEFINE new == [NoPass EXCEPT !.pc = "source", !.konfig = cache[k]]
    <3>1. new.pc = "source" /\ pass' = [pass EXCEPT ![k] = new] /\ timers' = timers
      BY <2>2 DEF Begin, NoPass
    <3> HIDE DEF new
    <3> QED
      BY <3>1 DEF InHand, Shape
  <2> QED
    BY <2>1, <2>2
<1>6. Cardinality(InHand)' <= MaxConcurrent
  <2>1. k \notin InHand
    BY <1>1, <1>4
  <2>2. Cardinality(InHand \union {k}) = Cardinality(InHand) + 1
    BY <2>1, FiniteHands, FS_AddElement
  <2>3. Cardinality(InHand) < MaxConcurrent
    BY DEF Begin
  <2> QED
    BY <1>5, <2>2, <2>3, FiniteHands, MaxConcurrentAssumption
<1>7. OnePassPerKey'
  <2>1. ToSet(queue)' \intersect InHand' = {}
    BY <1>1, <1>3, <1>5
  <2> QED
    BY <1>3, <1>6, <2>1 DEF OnePassPerKey, Distinct, ToSet
<1>8. NeverForgotten'
  BY <1>3, <1>5, Kept DEF QueueInv, Begin
<1> QED
  BY <1>3, <1>5, <1>7, <1>8 DEF QueueInv, QueueTypes, Begin

\* The steps of a pass that leave the queue and the informer alone.
LEMMA QuietQueue ==
    ASSUME Shape, QueueInv, NEW k \in Konfigs,
           PrepareSource(k) \/ CheckDependency(k) \/ Reconcile(k)
    PROVE  QueueInv'
<1>1. UNCHANGED <<cache, queue, again, timers>>
  BY DEF PrepareSource, CheckDependency, Reconcile, Queues
<1>2. InHand' = InHand
  <2>1. pass[k].pc # "idle"
    BY DEF PrepareSource, CheckDependency, Reconcile
  <2>2. ASSUME NEW r, Fail(k, r) PROVE InHand' = InHand
    <3> DEFINE new == [pass[k] EXCEPT !.pc = "failed", !.rev = r, !.todo = {}]
    <3>1. new.pc = "failed" /\ pass' = [pass EXCEPT ![k] = new]
      BY <2>2 DEF Fail, Shape, Passes
    <3> HIDE DEF new
    <3> QED
      BY <2>1, <3>1, SameHands
  <2>3. CASE pass' = [pass EXCEPT ![k] =
                        [@ EXCEPT !.pc = "dependencies", !.rev = src, !.todo = DependsOn[k]]]
    <3> DEFINE new == [pass[k] EXCEPT !.pc = "dependencies", !.rev = src, !.todo = DependsOn[k]]
    <3>1. new.pc = "dependencies" /\ pass' = [pass EXCEPT ![k] = new]
      BY <2>3 DEF Shape, Passes
    <3> HIDE DEF new
    <3> QED
      BY <2>1, <3>1, SameHands
  <2>4. ASSUME NEW d, pass' = [pass EXCEPT ![k].todo = @ \ {d}] PROVE InHand' = InHand
    BY <2>4 DEF InHand, Shape, Passes
  <2>5. CASE Move(k, "ready")
    BY <2>1, <2>5 DEF Move, InHand, Shape, Passes
  <2>6. CASE PrepareSource(k)
    BY <2>2, <2>3, <2>6 DEF PrepareSource
  <2>7. CASE CheckDependency(k)
    BY <2>2, <2>4, <2>7 DEF CheckDependency
  <2>8. CASE Reconcile(k)
    BY <2>2, <2>5, <2>8 DEF Reconcile
  <2> QED
    BY <2>6, <2>7, <2>8
<1>3. spent' \in [Events -> Nat]
  BY Spent DEF QueueInv, PrepareSource, CheckDependency, Reconcile, Events
<1>4. OnePassPerKey' /\ NeverForgotten'
  BY <1>1, <1>2 DEF QueueInv, OnePassPerKey, NeverForgotten, ToSet
<1> QED
  BY <1>1, <1>3, <1>4 DEF QueueInv, QueueTypes

LEMMA ProgressingQueue ==
    ASSUME Shape, Shape', QueueInv, NEW k \in Konfigs, SetProgressing(k)
    PROVE  QueueInv'
<1>1. pass[k].pc # "idle"
  BY DEF SetProgressing
<1>2. CASE Spend("fault") /\ UNCHANGED <<api, cache>> /\ ReturnError(k)
  BY <1>1, <1>2, Spent, Returned DEF QueueInv, Events
<1>3. CASE \E t \in Stamps :
             LET new == Progressing(pass[k].konfig.status, t)
             IN  /\ Patch(k, new)
                 /\ pass' = [pass EXCEPT ![k] =
                      [@ EXCEPT !.pc = "reconcile", !.konfig.status = new]]
                 /\ Enqueue(News(k))
                 /\ UNCHANGED <<timers, spent>>
  <2>1. PICK t \in Stamps :
             /\ Patch(k, Progressing(pass[k].konfig.status, t))
             /\ pass' = [pass EXCEPT ![k] =
                  [@ EXCEPT !.pc = "reconcile",
                            !.konfig.status = Progressing(pass[k].konfig.status, t)]]
             /\ Enqueue(News(k))
             /\ UNCHANGED <<timers, spent>>
    BY <1>3
  <2> DEFINE new == [pass[k] EXCEPT !.pc = "reconcile",
                                    !.konfig.status = Progressing(pass[k].konfig.status, t)]
  <2>2. new.pc = "reconcile" /\ pass' = [pass EXCEPT ![k] = new]
    BY <2>1 DEF Shape, Passes, Konfigurations
  <2> HIDE DEF new
  <2>3. InHand' = InHand
    BY <1>1, <2>2, SameHands
  <2>4. \A d \in Konfigs \ {k} : cache'[d] = cache[d]
    BY <2>1, OthersStay DEF Patch
  <2>5. spent' \in [Events -> Nat]
    BY <2>1 DEF QueueInv, QueueTypes
  <2> QED
    BY <2>1, <2>3, <2>4, <2>5, Delivered
<1> QED
  BY <1>2, <1>3 DEF SetProgressing

LEMMA OutcomeQueue ==
    ASSUME Shape, Shape', QueueInv, NEW k \in Konfigs, SetReady(k) \/ SetNotReady(k)
    PROVE  QueueInv'
<1>1. pass[k].pc # "idle" /\ (ReturnAfter(k) \/ ReturnError(k))
  BY DEF SetReady, SetNotReady
<1>2. UNCHANGED spent \/ Spend("fault")
  BY DEF SetReady, SetNotReady
<1>3. spent' \in [Events -> Nat]
  BY <1>2, Spent DEF QueueInv, Events
<1>4. ASSUME NEW st, PatchReadiness(k, st)
      PROVE  \A d \in Konfigs \ {k} : cache'[d] = cache[d]
  BY <1>4, OthersStay DEF PatchReadiness, Patch
<1>5. \A d \in Konfigs \ {k} : cache'[d] = cache[d]
  BY <1>4 DEF SetReady, SetNotReady
<1> QED
  BY <1>1, <1>3, <1>5, Returned

LEMMA RecordQueue ==
    ASSUME Shape, Shape', QueueInv, NEW k \in Konfigs,
           InformerSyncs(k) \/ UserCreates(k) \/ UserEdits(k)
    PROVE  QueueInv'
<1>1. /\ Enqueue(News(k)) /\ UNCHANGED <<timers, pass>>
      /\ UNCHANGED spent \/ Spend("edit")
  BY DEF InformerSyncs, UserCreates, UserEdits
<1>2. InHand' = InHand /\ spent' \in [Events -> Nat]
  BY <1>1, Spent DEF InHand, QueueInv, Events
<1>3. \A d \in Konfigs \ {k} : cache'[d] = cache[d]
  BY OthersStay DEF InformerSyncs, UserCreates, UserEdits, Shape
<1> QED
  BY <1>1, <1>2, <1>3, Delivered

LEMMA TimerQueue ==
    ASSUME QueueInv, NEW k \in Konfigs, TimerFires(k)
    PROVE  QueueInv'
<1>1. /\ Enqueue({k}) /\ timers' = timers \ {k} /\ UNCHANGED <<cache, pass, spent>>
      /\ InHand' = InHand
  BY DEF TimerFires, InHand
<1>2. /\ queue' \in Seq(Konfigs) /\ again' \subseteq Konfigs
      /\ OnePassPerKey'
      /\ ToSet(queue)' = ToSet(queue) \union Fresh({k})
  BY <1>1, Enqueued DEF QueueInv
<1>3. k \in ToSet(queue)' \union InHand'
  BY <1>1, <1>2 DEF Fresh
<1>4. NeverForgotten'
  BY <1>1, <1>2, <1>3, Kept DEF QueueInv
<1> QED
  BY <1>1, <1>2, <1>4 DEF QueueInv, QueueTypes

LEMMA SourceQueue ==
    ASSUME QueueInv, SourceChanges
    PROVE  QueueInv'
<1>1. UNCHANGED <<cache, timers, pass>> /\ InHand' = InHand /\ spent' \in [Events -> Nat]
  BY Spent DEF SourceChanges, InHand, QueueInv, Events
<1>2. \/ UNCHANGED <<queue, again>>
      \/ \E keys \in SUBSET Konfigs : Enqueue(keys)
  <2>1. PICK r \in (Revs \union {NoRev}) \ {src} :
          LET dependents == {k \in Konfigs : /\ cache[k].exists
                                             /\ cache[k].status.attempted # r}
          IN  IF r = NoRev \/ Tangled(dependents)
              THEN UNCHANGED <<queue, again>>
              ELSE Enqueue(dependents)
    BY DEF SourceChanges
  <2> DEFINE dependents == {k \in Konfigs : /\ cache[k].exists
                                            /\ cache[k].status.attempted # r}
  <2>2. dependents \in SUBSET Konfigs
    OBVIOUS
  <2>3. UNCHANGED <<queue, again>> \/ Enqueue(dependents)
    BY <2>1
  <2> HIDE DEF dependents
  <2> QED
    BY <2>2, <2>3
<1>3. CASE UNCHANGED <<queue, again>>
  BY <1>1, <1>3 DEF QueueInv, QueueTypes, OnePassPerKey, NeverForgotten, ToSet
<1>4. ASSUME NEW keys \in SUBSET Konfigs, Enqueue(keys)
      PROVE  QueueInv'
  <2>1. /\ queue' \in Seq(Konfigs) /\ again' \subseteq Konfigs
        /\ OnePassPerKey'
        /\ ToSet(queue)' = ToSet(queue) \union Fresh(keys)
    BY <1>1, <1>4, Enqueued DEF QueueInv
  <2>2. NeverForgotten'
    BY <1>1, <2>1, Kept DEF QueueInv
  <2> QED
    BY <1>1, <2>1, <2>2 DEF QueueInv, QueueTypes
<1> QED
  BY <1>2, <1>3, <1>4

LEMMA CrashQueue ==
    ASSUME QueueInv, Crash
    PROVE  QueueInv'
<1>1. PICK s \in SetToSeqs({k \in Konfigs : api[k].exists}) : queue' = s
  BY DEF Crash
<1>2. IsFiniteSet({k \in Konfigs : api[k].exists})
  BY KonfigsAssumption, FS_Subset
<1>3. /\ s \in Seq({k \in Konfigs : api[k].exists}) /\ Distinct(s)
      /\ ToSet(s) = {k \in Konfigs : api[k].exists}
  BY <1>2, Arranged
<1>4. queue' \in Seq(Konfigs)
  BY <1>1, <1>3
<1>5. InHand' = {}
  BY DEF Crash, InHand, NoPass
<1>6. OnePassPerKey'
  <2>1. Cardinality(InHand)' <= MaxConcurrent
    BY <1>5, FS_EmptySet, MaxConcurrentAssumption
  <2>2. Distinct(queue)'
    BY <1>1, <1>3
  <2> QED
    BY <1>5, <2>1, <2>2 DEF OnePassPerKey, Distinct
<1>7. NeverForgotten'
  <2>1. ToSet(queue)' = {k \in Konfigs : cache'[k].exists}
    BY <1>1, <1>3 DEF Crash, ToSet
  <2> QED
    BY <2>1 DEF NeverForgotten
<1>8. spent' \in [Events -> Nat]
  BY Spent DEF Crash, QueueInv, Events
<1> QED
  BY <1>4, <1>6, <1>7, <1>8 DEF QueueInv, QueueTypes, Crash

LEMMA QueueInit == Init => QueueInv
<1> SUFFICES ASSUME Init PROVE QueueInv
  OBVIOUS
<1>1. InHand = {} /\ queue = <<>> /\ ToSet(queue) = {}
  BY DEF Init, InHand, NoPass, ToSet
<1>2. OnePassPerKey
  BY <1>1, FS_EmptySet, MaxConcurrentAssumption DEF OnePassPerKey
<1>3. NeverForgotten
  BY DEF Init, NeverForgotten, NoKonfiguration
<1>4. QueueTypes
  BY <1>1 DEF Init, QueueTypes
<1> QED
  BY <1>2, <1>3, <1>4 DEF QueueInv

LEMMA QueueNext == DependencyInv /\ QueueInv /\ [Next]_vars => QueueInv'
<1> SUFFICES ASSUME DependencyInv, QueueInv, [Next]_vars PROVE QueueInv'
  OBVIOUS
<1> Shape /\ Shape'
  BY DependencyNext DEF DependencyInv
<1>1. ASSUME NEW k \in Konfigs, Begin(k) PROVE QueueInv'
  BY <1>1, BeginQueue
<1>2. ASSUME NEW k \in Konfigs, Step(k) PROVE QueueInv'
  BY <1>2, QuietQueue, ProgressingQueue, OutcomeQueue DEF Step
<1>3. ASSUME NEW k \in Konfigs, InformerSyncs(k) \/ UserCreates(k) \/ UserEdits(k)
      PROVE  QueueInv'
  BY <1>3, RecordQueue
<1>4. ASSUME NEW k \in Konfigs, TimerFires(k) PROVE QueueInv'
  BY <1>4, TimerQueue
<1>5. CASE SourceChanges
  BY <1>5, SourceQueue
<1>6. CASE Crash
  BY <1>6, CrashQueue
<1>7. CASE UNCHANGED vars
  BY <1>7 DEF vars, QueueInv, QueueTypes, OnePassPerKey, NeverForgotten, InHand, ToSet
<1> QED
  BY <1>1, <1>2, <1>3, <1>4, <1>5, <1>6, <1>7 DEF Next

\* Every variable has its type, and a pass past the source a revision.
THEOREM ScheduleTyped == Spec => []TypeOK
<1>1. Shape /\ QueueTypes => TypeOK
  BY DEF Shape, QueueTypes, TypeOK
<1>2. DependencyInv /\ QueueInv => TypeOK
  BY <1>1 DEF DependencyInv, QueueInv
<1> QED
  BY <1>2, DependencyInit, DependencyNext, QueueInit, QueueNext, PTL DEF Spec

\* However many workers there are, a Konfiguration has at most one pass, waits
\* for its end outside the queue, and is in the queue once (MaxConcurrentReconciles
\* and the work queue of SetupWithManager).
THEOREM OnePassAlways == Spec => []OnePassPerKey
<1>1. QueueInv => OnePassPerKey
  BY DEF QueueInv
<1> QED
  BY <1>1, DependencyInit, DependencyNext, QueueInit, QueueNext, PTL DEF Spec

\* No return of a pass, event or restart loses a Konfiguration the controller
\* knows of: it stays queued, in hand or on a timer (the Results of Reconcile).
THEOREM NoneForgotten == Spec => []NeverForgotten
<1>1. QueueInv => NeverForgotten
  BY DEF QueueInv
<1> QED
  BY <1>1, DependencyInit, DependencyNext, QueueInit, QueueNext, PTL DEF Spec

-------------------------------------------------------------------------------
(* A single worker and an informer that does not trail *)

SoloInv == /\ cache = api
           /\ \A k \in Konfigs : pass[k].pc \in {"dependencies", "reconcile"} =>
                 \A d \in DependsOn[k] \ pass[k].todo : api[d].status.ready.st = "True"

LEMMA OnlyOne ==
    ASSUME MaxConcurrent = 1, OnePassPerKey, NEW k \in InHand, NEW d \in InHand
    PROVE  k = d
<1> SUFFICES ASSUME k # d PROVE FALSE
  OBVIOUS
<1>1. IsFiniteSet({k}) /\ Cardinality({k}) = 1
  BY FS_Singleton
<1>2. Cardinality({k} \union {d}) = Cardinality({k}) + 1
  BY <1>1, FS_AddElement
<1>3. Cardinality({k} \union {d}) <= Cardinality(InHand)
  <2>1. {k} \union {d} \in SUBSET InHand
    OBVIOUS
  <2> QED
    BY <2>1, FiniteHands, FS_Subset
<1>4. Cardinality(InHand) <= 1
  BY DEF OnePassPerKey
<1> QED
  BY <1>1, <1>2, <1>3, <1>4, FiniteHands

\* A Konfiguration that depends on itself is in no step past that dependency.
LEMMA NotItself ==
    ASSUME DependencyInv, CyclesWait, NEW k \in Konfigs,
           pass[k].pc \in {"dependencies", "reconcile"}
    PROVE  k \notin DependsOn[k] \ pass[k].todo
<1> SUFFICES ASSUME k \in DependsOn[k] \ pass[k].todo PROVE FALSE
  OBVIOUS
<1>1. k \in Knotted
  <2>1. k \in AllNeeds[k]
    BY NeedsItself DEF AllNeeds
  <2> QED
    BY <2>1 DEF Knotted
<1> QED
  BY <1>1 DEF DependencyInv, PastDependencies, Installed, CyclesWait

\* With Trailing = {} a write reaches the informer at once.
LEMMA StoredAtOnce ==
    ASSUME Shape, Trailing = {}, cache = api, NEW k \in Konfigs, NEW new, Store(k, new)
    PROVE  /\ cache' = api'
           /\ \A d \in Konfigs \ {k} : api'[d] = api[d]
BY DEF Store, Shape

\* A step that leaves the Ready conditions, and moves no pass on.
LEMMA SoloQuiet ==
    ASSUME SoloInv, cache' = api',
           \A k \in Konfigs : /\ api'[k].status.ready = api[k].status.ready
                              /\ \/ pass'[k] = pass[k]
                                 \/ pass'[k].pc \notin {"dependencies", "reconcile"}
    PROVE  SoloInv'
BY DependsOnAssumption DEF SoloInv

\* A step of a pass that is over, or at its outcome: no other pass is in hand.
LEMMA SoloEnded ==
    ASSUME SoloInv, cache' = api', MaxConcurrent = 1, OnePassPerKey,
           NEW k \in InHand, pass'[k].pc \notin {"dependencies", "reconcile"},
           \A d \in Konfigs \ {k} : pass'[d] = pass[d]
    PROVE  SoloInv'
<1>1. ASSUME NEW d \in Konfigs, d # k
      PROVE  pass'[d].pc = "idle"
  BY <1>1, OnlyOne DEF InHand
<1> QED
  BY <1>1 DEF SoloInv

LEMMA SoloProgressing ==
    ASSUME MaxConcurrent = 1, Trailing = {}, DependencyInv, CyclesWait, OnePassPerKey,
           SoloInv, NEW k \in Konfigs, SetProgressing(k)
    PROVE  SoloInv'
<1> Shape
  BY DEF DependencyInv
<1>1. k \in InHand /\ pass[k].pc = "dependencies" /\ pass[k].todo = {}
  BY DEF SetProgressing, InHand
<1>2. CASE UNCHANGED <<api, cache>> /\ ReturnError(k)
  <2>1. pass'[k].pc = "idle" /\ \A d \in Konfigs \ {k} : pass'[d] = pass[d]
    BY <1>2 DEF ReturnError, Done, Shape, NoPass
  <2> QED
    BY <1>1, <1>2, <2>1, SoloEnded DEF SoloInv
<1>3. CASE \E t \in Stamps :
             LET new == Progressing(pass[k].konfig.status, t)
             IN  /\ Patch(k, new)
                 /\ pass' = [pass EXCEPT ![k] =
                      [@ EXCEPT !.pc = "reconcile", !.konfig.status = new]]
  <2>1. PICK t \in Stamps :
             /\ Patch(k, Progressing(pass[k].konfig.status, t))
             /\ pass' = [pass EXCEPT ![k] =
                  [@ EXCEPT !.pc = "reconcile",
                            !.konfig.status = Progressing(pass[k].konfig.status, t)]]
    BY <1>3
  <2>2. cache' = api' /\ \A d \in Konfigs \ {k} : api'[d] = api[d]
    BY <2>1, StoredAtOnce DEF Patch, SoloInv
  <2>3. \A d \in Konfigs \ {k} : pass'[d] = pass[d] /\ pass[d].pc = "idle"
    BY <1>1, <2>1, OnlyOne DEF Shape, InHand
  <2>4. \A d \in DependsOn[k] : d # k /\ api[d].status.ready.st = "True"
    BY <1>1, NotItself DEF SoloInv
  <2> QED
    BY <2>2, <2>3, <2>4, DependsOnAssumption DEF SoloInv
<1> QED
  BY <1>2, <1>3 DEF SetProgressing

\* The steps of a pass before and after.
LEMMA SoloPass ==
    ASSUME MaxConcurrent = 1, Trailing = {}, DependencyInv, OnePassPerKey, SoloInv,
           NEW k \in Konfigs,
           \/ PrepareSource(k) \/ CheckDependency(k) \/ Reconcile(k)
           \/ SetReady(k) \/ SetNotReady(k)
    PROVE  SoloInv'
<1> Shape
  BY DEF DependencyInv
<1>1. ASSUME NEW r, Fail(k, r)
      PROVE  pass'[k].pc = "failed" /\ \A d \in Konfigs \ {k} : pass'[d] = pass[d]
  BY <1>1 DEF Fail, Shape, Passes
<1>2. ASSUME NEW r, Fail(k, r), UNCHANGED <<api, cache>>
      PROVE  SoloInv'
  <2>1. \A d \in Konfigs : \/ pass'[d] = pass[d]
                           \/ pass'[d].pc \notin {"dependencies", "reconcile"}
    BY <1>1, <1>2
  <2> QED
    BY <1>2, <2>1, SoloQuiet DEF SoloInv
<1>3. CASE PrepareSource(k)
  <2>1. CASE pass' = [pass EXCEPT ![k] =
                        [@ EXCEPT !.pc = "dependencies", !.rev = src, !.todo = DependsOn[k]]]
    <3>1. pass'[k].todo = DependsOn[k] /\ \A d \in Konfigs \ {k} : pass'[d] = pass[d]
      BY <2>1 DEF Shape, Passes
    <3> QED
      BY <1>3, <3>1 DEF PrepareSource, SoloInv
  <2> QED
    BY <1>2, <1>3, <2>1 DEF PrepareSource
<1>4. CASE CheckDependency(k)
  <2>1. PICK d \in pass[k].todo :
          \/ IsReady(cache[d]) /\ pass' = [pass EXCEPT ![k].todo = @ \ {d}]
          \/ ~IsReady(cache[d]) /\ Fail(k, pass[k].rev)
    BY <1>4 DEF CheckDependency
  <2>2. CASE IsReady(cache[d]) /\ pass' = [pass EXCEPT ![k].todo = @ \ {d}]
    <3>1. /\ pass'[k].todo = pass[k].todo \ {d} /\ pass'[k].pc = pass[k].pc
          /\ \A e \in Konfigs \ {k} : pass'[e] = pass[e]
      BY <2>2 DEF Shape, Passes
    <3>2. api[d].status.ready.st = "True"
      BY <2>2 DEF IsReady, SoloInv
    <3> QED
      BY <1>4, <3>1, <3>2 DEF CheckDependency, SoloInv
  <2> QED
    BY <1>2, <1>4, <2>1, <2>2 DEF CheckDependency
<1>5. CASE Reconcile(k)
  <2>1. CASE Move(k, "ready")
    <3>1. \A d \in Konfigs : \/ pass'[d] = pass[d]
                             \/ pass'[d].pc \notin {"dependencies", "reconcile"}
      BY <2>1 DEF Move, Shape, Passes
    <3> QED
      BY <1>5, <3>1, SoloQuiet DEF Reconcile, SoloInv
  <2> QED
    BY <1>2, <1>5, <2>1 DEF Reconcile
<1>6. CASE SetReady(k) \/ SetNotReady(k)
  <2>1. k \in InHand
    BY <1>6 DEF SetReady, SetNotReady, InHand
  <2>2. pass'[k].pc = "idle" /\ \A d \in Konfigs \ {k} : pass'[d] = pass[d]
    BY <1>6 DEF SetReady, SetNotReady, ReturnAfter, ReturnError, Done, Shape, NoPass
  <2>3. cache' = api'
    <3>1. ASSUME NEW st, PatchReadiness(k, st) PROVE cache' = api'
      BY <3>1, StoredAtOnce DEF PatchReadiness, Patch, SoloInv
    <3> QED
      BY <1>6, <3>1 DEF SetReady, SetNotReady, SoloInv
  <2> QED
    BY <2>1, <2>2, <2>3, SoloEnded
<1> QED
  BY <1>3, <1>4, <1>5, <1>6

\* Users and the informer leave the Ready conditions; a worker that takes a
\* key, and a restart, have no pass past a dependency.
LEMMA SoloAround ==
    ASSUME Trailing = {}, DependencyInv, SoloInv,
           \/ \E k \in Konfigs : \/ Begin(k) \/ InformerSyncs(k) \/ TimerFires(k)
                                 \/ UserCreates(k) \/ UserEdits(k)
           \/ SourceChanges \/ Crash \/ UNCHANGED vars
    PROVE  SoloInv'
<1> Shape
  BY DEF DependencyInv
<1>1. CASE UNCHANGED <<api, cache, pass>>
  BY <1>1, SoloQuiet DEF SoloInv
<1>2. ASSUME NEW k \in Konfigs, Begin(k) PROVE SoloInv'
  <2>1. \A d \in Konfigs : \/ pass'[d] = pass[d]
                           \/ pass'[d].pc \notin {"dependencies", "reconcile"}
    BY <1>2 DEF Begin, Shape, NoPass
  <2> QED
    BY <1>2, <2>1, SoloQuiet DEF Begin, SoloInv
<1>3. ASSUME NEW k \in Konfigs, NEW new, Store(k, new), pass' = pass,
             new.status = api[k].status
      PROVE  SoloInv'
  <2>1. cache' = api' /\ \A d \in Konfigs : api'[d].status = api[d].status
    BY <1>3, StoredAtOnce DEF Store, Shape, SoloInv
  <2> QED
    BY <1>3, <2>1, SoloQuiet
<1>4. ASSUME NEW k \in Konfigs, UserCreates(k) \/ UserEdits(k) PROVE SoloInv'
  <2>1. CASE UserCreates(k)
    <3>1. [api[k] EXCEPT !.exists = TRUE, !.gen = 1].status = api[k].status
      BY DEF Shape, Konfigurations
    <3> QED
      BY <1>3, <2>1, <3>1 DEF UserCreates
  <2>2. CASE UserEdits(k)
    <3>1. PICK suspend \in BOOLEAN :
            Store(k, [api[k] EXCEPT !.suspend = suspend, !.gen = @ + 1])
      BY <2>2 DEF UserEdits
    <3>2. [api[k] EXCEPT !.suspend = suspend, !.gen = @ + 1].status = api[k].status
      BY EditedKonfiguration DEF Shape
    <3> QED
      BY <1>3, <2>2, <3>1, <3>2 DEF UserEdits
  <2> QED
    BY <1>4, <2>1, <2>2
<1>5. ASSUME NEW k \in Konfigs, InformerSyncs(k) PROVE SoloInv'
  BY <1>5 DEF InformerSyncs, SoloInv
<1>6. CASE Crash
  <2>1. cache' = api' /\ api' = api /\ \A d \in Konfigs : pass'[d].pc = "idle"
    BY <1>6 DEF Crash, NoPass
  <2> QED
    BY <2>1, SoloQuiet
<1> QED
  BY <1>1, <1>2, <1>4, <1>5, <1>6 DEF TimerFires, SourceChanges, vars

LEMMA SoloInit == Init => SoloInv
BY DEF Init, SoloInv, NoPass

LEMMA SoloNext ==
    ASSUME MaxConcurrent = 1, Trailing = {}
    PROVE  DependencyInv /\ CyclesWait /\ OnePassPerKey /\ SoloInv /\ [Next]_vars => SoloInv'
BY SoloProgressing, SoloPass, SoloAround DEF Next, Step

\* One worker and an informer that does not trail: from the check of its last
\* dependency to the end of reconcile a Konfiguration stands on Ready
\* dependencies (checkDependencies).
THEOREM ReconciledOnReady ==
    ASSUME MaxConcurrent = 1, Trailing = {}
    PROVE  Spec => []ReconciledOverReady
<1>1. DependencyInv /\ SoloInv => ReconciledOverReady
  BY DEF DependencyInv, PastDependencies, SoloInv, ReconciledOverReady
<1>2. QueueInv => OnePassPerKey
  BY DEF QueueInv
<1>3. DependencyInv /\ CyclesWait /\ OnePassPerKey /\ SoloInv /\ [Next]_vars => SoloInv'
  BY SoloNext
<1> QED
  BY <1>1, <1>2, <1>3, DependencyInit, DependencyNext, CyclesInit, CyclesNext,
     QueueInit, QueueNext, SoloInit, PTL DEF Spec

===============================================================================
