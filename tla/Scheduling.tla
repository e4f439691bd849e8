------------------------------ MODULE Scheduling ------------------------------
(***************************************************************************)
(* Several Konfigurations that render one source and depend on each other: *)
(* the work queue and its workers, the watch of the source, and the check  *)
(* of the dependencies (controllers/konfiguration_dependencies.go,         *)
(* konfiguration_indexers.go, Reconcile of konfiguration_controller.go).   *)
(*                                                                         *)
(* What a pass does between SetProgressing and its outcome is module       *)
(* Reconciler's; here it is one step.  So are finalizers, deletions and    *)
(* snapshots.  Every typed read is served by an informer cache; what it    *)
(* holds of the Konfigurations in Trailing may be older than what the API  *)
(* server holds.                                                           *)
(*                                                                         *)
(* Bounds: Budget[e] limits the events of kind e.                          *)
(***************************************************************************)
EXTENDS KonfigurationStatus, SequencesExt

CONSTANTS
    Konfigs,        \* the names of the Konfigurations
    DependsOn,      \* spec.dependsOn of each
    MaxConcurrent,  \* MaxConcurrentReconciles
    Trailing,       \* the Konfigurations the informer cache may trail on
    Budget          \* how many events of each kind of Events may happen

Events == {"edit", "source", "fault", "crash"}

ASSUME KonfigsAssumption == IsFiniteSet(Konfigs)
ASSUME DependsOnAssumption == DependsOn \in [Konfigs -> SUBSET Konfigs]
ASSUME MaxConcurrentAssumption == MaxConcurrent \in Nat \ {0}
ASSUME TrailingAssumption == Trailing \subseteq Konfigs
ASSUME BudgetAssumption == Budget \in [Events -> Nat]

VARIABLES
    src,      \* the revision of the source's artifact, NoRev if it has none
    api,      \* the Konfigurations at the API server
    cache,    \* the Konfigurations in the informer cache
    cluster,  \* the revision of each Konfiguration's objects, NoRev before the first
    queue,    \* the keys in the work queue, first come first served
    again,    \* the keys added while their pass is under way
    timers,   \* the keys that wait for RequeueAfter to elapse
    pass,     \* the pass of each key
    spent     \* events so far

vars == <<src, api, cache, cluster, queue, again, timers, pass, spent>>

-------------------------------------------------------------------------------
Konfigurations == [exists : BOOLEAN, gen : Nat, suspend : BOOLEAN, status : Statuses]

NoKonfiguration == [exists |-> FALSE, gen |-> 0, suspend |-> FALSE, status |-> NoStatus]

Steps == {"idle", "source", "dependencies", "reconcile", "ready", "failed"}

Passes == [pc     : Steps,
           konfig : Konfigurations,           \* the pass's copy
           rev    : Revs \union {NoRev},
           todo   : SUBSET Konfigs]           \* dependencies still to check

NoPass == [pc |-> "idle", konfig |-> NoKonfiguration, rev |-> NoRev, todo |-> {}]

Init == /\ src \in Revs \union {NoRev}
        /\ api = [k \in Konfigs |-> NoKonfiguration]
        /\ cache = api
        /\ cluster = [k \in Konfigs |-> NoRev]
        /\ queue = <<>>
        /\ again = {}
        /\ timers = {}
        /\ pass = [k \in Konfigs |-> NoPass]
        /\ spent = [e \in Events |-> 0]

-------------------------------------------------------------------------------
(* The API server, the informer and the work queue *)

Spend(e) == /\ spent[e] < Budget[e]
            /\ spent' = [spent EXCEPT ![e] = @ + 1]

\* The API server stores new; the informer has it at once or later.
Store(k, new) == /\ api' = [api EXCEPT ![k] = new]
                 /\ \/ cache' = [cache EXCEPT ![k] = new]
                    \/ k \in Trailing /\ UNCHANGED cache

\* GenerationChangedPredicate on the event the informer derives for k: it
\* lets creations and new generations through.
Noticed(k) == cache[k].exists # cache'[k].exists \/ cache[k].gen # cache'[k].gen

News(k) == IF Noticed(k) THEN {k} ELSE {}

InHand == {k \in Konfigs : pass[k].pc # "idle"}

\* What k needs, itself included, along the dependencies of the members of S.
Needs(S, k) ==
    {d \in Konfigs : \A all \in SUBSET Konfigs :
        k \in all /\ (\A x \in all \intersect S : DependsOn[x] \subseteq all) => d \in all}

\* dependency.Sort fails: different members of S need each other.
Tangled(S) == \E k, d \in S : k # d /\ d \in Needs(S, k) /\ k \in Needs(S, d)

\* dependency.Sort: the sequence s of members of S has dependencies first.
Sorted(S, s) ==
    \A i, j \in DOMAIN s : s[i] # s[j] /\ s[i] \in Needs(S, s[j]) => i < j

\* Mutant of Fresh: a key in hand is queued like any other.
Unqueued(keys) == keys \ ToSet(queue)

\* The keys that join the queue: a key is in it once, and one in hand joins it
\* when its pass ends.
Fresh(keys) == keys \ (ToSet(queue) \union InHand)

\* Several keys come in the order of dependency.Sort.
Enqueue(keys) ==
    /\ \E s \in SetToSeqs(Fresh(keys)) : Sorted(keys, s) /\ queue' = queue \o s
    /\ again' = again \union (keys \intersect InHand)

\* The pass of k ends; k is not in the queue.
Done(k, requeue) ==
    /\ pass' = [pass EXCEPT ![k] = NoPass]
    /\ queue' = IF requeue \/ k \in again \/ Noticed(k) THEN Append(queue, k) ELSE queue
    /\ again' = again \ {k}

\* Mutant of ReturnAfter: the zero Result.
ReturnNothing(k) == Done(k, FALSE) /\ UNCHANGED timers

\* Returning RequeueAfter, and returning an error.
ReturnAfter(k) == Done(k, FALSE) /\ timers' = timers \union {k}
ReturnError(k) == Done(k, TRUE) /\ UNCHANGED timers

Queues == <<queue, again, timers>>

\* patchStatus goes through: base is the cached copy.
Patch(k, new) ==
    Store(k, [api[k] EXCEPT !.status = MergePatch(cache[k].status, new, @)])

-------------------------------------------------------------------------------
(* A pass *)

Move(k, step) == pass' = [pass EXCEPT ![k].pc = step]

\* The pass fails with revision r in the status.
Fail(k, r) == pass' = [pass EXCEPT ![k] = [@ EXCEPT !.pc = "failed", !.rev = r, !.todo = {}]]

\* A free worker takes the first key and reads the Konfiguration.
Begin(k) ==
    /\ queue # <<>> /\ k = Head(queue)
    /\ Cardinality(InHand) < MaxConcurrent
    /\ queue' = Tail(queue)
    /\ IF cache[k].suspend
       THEN timers' = timers \union {k} /\ UNCHANGED pass
       ELSE /\ pass' = [pass EXCEPT ![k] = [NoPass EXCEPT !.pc = "source", !.konfig = cache[k]]]
            /\ UNCHANGED timers
    /\ UNCHANGED <<src, api, cache, cluster, again, spent>>

\* Mutant of PrepareSource: the artifact is not looked for.
PrepareAnySource(k) ==
    /\ pass[k].pc = "source"
    /\ pass' = [pass EXCEPT ![k] =
                  [@ EXCEPT !.pc = "dependencies", !.rev = src, !.todo = DependsOn[k]]]
    /\ UNCHANGED <<src, api, cache, cluster, Queues, spent>>

\* prepareSource, up to the revision the pass works on.
PrepareSource(k) ==
    /\ pass[k].pc = "source"
    /\ \/ src = NoRev /\ Fail(k, NoRev) /\ UNCHANGED spent
       \/ src # NoRev /\ Spend("fault") /\ Fail(k, src)
       \/ /\ src # NoRev
          /\ pass' = [pass EXCEPT ![k] =
                        [@ EXCEPT !.pc = "dependencies", !.rev = src, !.todo = DependsOn[k]]]
          /\ UNCHANGED spent
    /\ UNCHANGED <<src, api, cache, cluster, Queues>>

\* Mutant of IsReady: the generation is looked at and the condition is not.
Observed(k) == k.exists /\ k.status.ready.st # "None" /\ k.status.obsGen = k.gen

\* A dependency is there, has observed its generation, and is ready.
IsReady(k) == /\ k.exists
              /\ k.status.ready.st = "True"
              /\ k.status.obsGen = k.gen

\* One round of the loop of checkDependencies: one read of the cache.
CheckDependency(k) ==
    /\ pass[k].pc = "dependencies"
    /\ \E d \in pass[k].todo :
        \/ IsReady(cache[d]) /\ pass' = [pass EXCEPT ![k].todo = @ \ {d}]
        \/ ~IsReady(cache[d]) /\ Fail(k, pass[k].rev)
    /\ UNCHANGED <<src, api, cache, cluster, Queues, spent>>

SetProgressing(k) ==
    /\ pass[k].pc = "dependencies" /\ pass[k].todo = {}
    /\ \/ \E t \in Stamps :
            LET new == Progressing(pass[k].konfig.status, t)
            IN  /\ Patch(k, new)
                /\ pass' = [pass EXCEPT ![k] = [@ EXCEPT !.pc = "reconcile", !.konfig.status = new]]
                /\ Enqueue(News(k))
                /\ UNCHANGED <<timers, spent>>
       \/ Spend("fault") /\ UNCHANGED <<api, cache>> /\ ReturnError(k)
    /\ UNCHANGED <<src, cluster>>

\* reconcile: it may fail before it changed the cluster, or after.
Reconcile(k) ==
    /\ pass[k].pc = "reconcile"
    /\ \/ Spend("fault") /\ Fail(k, pass[k].rev) /\ UNCHANGED cluster
       \/ /\ cluster' = [cluster EXCEPT ![k] = pass[k].rev]
          /\ \/ Move(k, "ready") /\ UNCHANGED spent
             \/ Spend("fault") /\ Fail(k, pass[k].rev)
    /\ UNCHANGED <<src, api, cache, Queues>>

\* SetReadiness(st) of the pass of k.
PatchReadiness(k, st) ==
    \E t \in Stamps :
        Patch(k, Readiness(pass[k].konfig.status, pass[k].konfig.gen, st, pass[k].rev, t))

SetReady(k) ==
    /\ pass[k].pc = "ready"
    /\ \/ PatchReadiness(k, "True") /\ ReturnAfter(k) /\ UNCHANGED spent
       \/ Spend("fault") /\ UNCHANGED <<api, cache>> /\ ReturnError(k)
    /\ UNCHANGED <<src, cluster>>

\* An error of SetNotReady is only logged.
SetNotReady(k) ==
    /\ pass[k].pc = "failed"
    /\ \/ PatchReadiness(k, "False") /\ UNCHANGED spent
       \/ Spend("fault") /\ UNCHANGED <<api, cache>>
    /\ ReturnAfter(k)
    /\ UNCHANGED <<src, cluster>>

-------------------------------------------------------------------------------
(* Around the workers *)

\* The informer catches up.
InformerSyncs(k) ==
    /\ cache[k] # api[k]
    /\ cache' = [cache EXCEPT ![k] = api[k]]
    /\ Enqueue(News(k))
    /\ UNCHANGED <<src, api, cluster, timers, pass, spent>>

TimerFires(k) ==
    /\ k \in timers
    /\ timers' = timers \ {k}
    /\ Enqueue({k})
    /\ UNCHANGED <<src, api, cache, cluster, pass, spent>>

\* A new artifact and requestsForRevisionChangeOf, or the loss of the artifact.
SourceChanges ==
    /\ Spend("source")
    /\ \E r \in (Revs \union {NoRev}) \ {src} :
        /\ src' = r
        /\ LET dependents == {k \in Konfigs : /\ cache[k].exists
                                              /\ cache[k].status.attempted # r}
           IN  IF r = NoRev \/ Tangled(dependents)
               THEN UNCHANGED <<queue, again>>
               ELSE Enqueue(dependents)
    /\ UNCHANGED <<api, cache, cluster, timers, pass>>

UserCreates(k) ==
    /\ ~api[k].exists
    /\ Store(k, [api[k] EXCEPT !.exists = TRUE, !.gen = 1])
    /\ Enqueue(News(k))
    /\ UNCHANGED <<src, cluster, timers, pass, spent>>

\* Any change of the specification, or one of spec.suspend.
UserEdits(k) ==
    /\ api[k].exists
    /\ Spend("edit")
    /\ \E suspend \in BOOLEAN :
        Store(k, [api[k] EXCEPT !.suspend = suspend, !.gen = @ + 1])
    /\ Enqueue(News(k))
    /\ UNCHANGED <<src, cluster, timers, pass>>

\* The controller restarts; the informer lists everything in some order.
Crash ==
    /\ Spend("crash")
    /\ pass' = [k \in Konfigs |-> NoPass]
    /\ cache' = api
    /\ queue' \in SetToSeqs({k \in Konfigs : api[k].exists})
    /\ again' = {} /\ timers' = {}
    /\ UNCHANGED <<src, api, cluster>>

-------------------------------------------------------------------------------
\* The pass under way goes on.
Step(k) == \/ PrepareSource(k) \/ CheckDependency(k) \/ SetProgressing(k)
           \/ Reconcile(k) \/ SetReady(k) \/ SetNotReady(k)

Next == \/ \E k \in Konfigs : \/ Begin(k) \/ Step(k)
                              \/ InformerSyncs(k) \/ TimerFires(k)
                              \/ UserCreates(k) \/ UserEdits(k)
        \/ SourceChanges
        \/ Crash

Spec == Init /\ [][Next]_vars

-------------------------------------------------------------------------------
(* Properties *)

TypeOK ==
    /\ src \in Revs \union {NoRev}
    /\ api \in [Konfigs -> Konfigurations]
    /\ cache \in [Konfigs -> Konfigurations]
    /\ cluster \in [Konfigs -> Revs \union {NoRev}]
    /\ queue \in Seq(Konfigs)
    /\ again \subseteq Konfigs
    /\ timers \subseteq Konfigs
    /\ pass \in [Konfigs -> Passes]
    /\ \A k \in Konfigs : pass[k].pc \in {"dependencies", "reconcile", "ready"}
                          => pass[k].rev \in Revs
    /\ spent \in [Events -> Nat]

\* A Konfiguration has objects in the cluster only when everything it depends
\* on has: whatever order users create them in, however stale the cached
\* conditions and whatever failed (checkDependencies, 43-61).
DependenciesFirst ==
    \A k \in Konfigs : cluster[k] # NoRev =>
        \A d \in DependsOn[k] : cluster[d] # NoRev

AllNeeds == [k \in Konfigs |-> Needs(Konfigs, k)]

\* The Konfigurations that need one that needs itself, through others or not.
Knotted == {k \in Konfigs : \E d \in AllNeeds[k] : \E e \in DependsOn[d] : d \in AllNeeds[e]}

\* What needs a cycle of dependencies waits for ever: nothing of it is applied,
\* although nobody detects the cycle (checkDependencies, 33-77).
CyclesWait == \A k \in Knotted : cluster[k] = NoRev

\* A Konfiguration the controller knows of is in the queue, in hand or on a
\* timer: no return, event or restart loses it.
NeverForgotten ==
    \A k \in Konfigs : cache[k].exists => k \in ToSet(queue) \union InHand \union timers

\* The workers are a bound on the passes under way, and a key in hand waits
\* for its pass outside the queue.
OnePassPerKey == /\ Cardinality(InHand) <= MaxConcurrent
                 /\ ToSet(queue) \intersect InHand = {}
                 /\ \A i, j \in DOMAIN queue : queue[i] = queue[j] => i = j

\* While a Konfiguration is reconciled everything it depends on says Ready
\* (doc/konfigurations.md, dependsOn).  Needs a single worker and an informer
\* that does not trail: with more, a dependency may have a pass of its own
\* after the check.
ReconciledOverReady ==
    \A k \in Konfigs : pass[k].pc = "reconcile"
                       => \A d \in DependsOn[k] : api[d].status.ready.st = "True"

\* Nothing keeps k from being reconciled: it and all it needs are there, none
\* is suspended or waits for itself, and the source has an artifact.
Wanted(k) ==
    /\ src # NoRev /\ k \notin Knotted
    /\ \A d \in AllNeeds[k] : api[d].exists /\ ~api[d].suspend

Settled(k) == IsReady(api[k]) /\ cluster[k] = src

\* A Konfiguration keeps coming back to Ready at the source's revision,
\* although nothing tells it that a dependency has become ready, and although
\* others wait for each other for ever.  Needs a single worker: with more,
\* every check may fall into a pass of the dependency.
Settles == \A k \in Konfigs : []<>(Wanted(k) => Settled(k))

Fairness == \A k \in Konfigs : /\ WF_vars(Begin(k))
                               /\ WF_vars(Step(k))
                               /\ WF_vars(InformerSyncs(k))
                               /\ WF_vars(TimerFires(k))

FairSpec == Spec /\ Fairness
===============================================================================
