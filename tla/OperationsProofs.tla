--------------------------- MODULE OperationsProofs ---------------------------
(***************************************************************************)
(* What TLAPS proves of Operations: what a passed health check says, which *)
(* dry-run requests stay without an answer, and that passes without        *)
(* credentials and next to requests keep what those of Reconciler promise. *)
(***************************************************************************)
EXTENDS Operations, ReconcilerProofs

-------------------------------------------------------------------------------
(***************************************************************************)
(* Only the observer cancels the context, and it does so over an event     *)
(* after which all checked resources were Current; an assessment ends      *)
(* only by an error or with its context.                                   *)
(***************************************************************************)

AssessInv ==
    /\ assess \in Assessments
    /\ assess.ctx = "cancelled" => assess.together
    /\ assess.pc = "done" => assess.err \/ assess.ctx # "open"

LEMMA NoAssessmentInv == ASSUME assess' = NoAssessment PROVE AssessInv'
BY DEF AssessInv, Assessments, NoAssessment

LEMMA StartAssessInv == ASSUME StartAssess PROVE AssessInv'
BY DEF AssessInv, Assessments, NoAssessment, StartAssess

LEMMA ObserveInv ==
    ASSUME AssessInv, NEW r \in Checked, Observe(r)
    PROVE  AssessInv'
<1>1. PICK current \in {assess.current \union {r}, assess.current \ {r}} :
        assess' = [assess EXCEPT
                    !.current = current,
                    !.together = @ \/ current = Checked,
                    !.ctx = IF @ = "open" /\ AggregateStatus(current) THEN "cancelled" ELSE @]
  BY DEF Observe
<1>2. assess \in Assessments /\ assess.pc = "polling" /\ current \in SUBSET Checked
  BY DEF AssessInv, Assessments, Observe
<1>3. /\ assess'.together = (assess.together \/ current = Checked)
      /\ assess'.pc = "polling" /\ assess'.current = current /\ assess'.err = assess.err
      /\ assess'.ctx = IF assess.ctx = "open" /\ AggregateStatus(current)
                       THEN "cancelled" ELSE assess.ctx
  BY <1>1, <1>2 DEF Assessments
<1>4. assess' \in Assessments
  BY <1>1, <1>2 DEF Assessments
<1> QED BY <1>2, <1>3, <1>4 DEF AssessInv, AggregateStatus

LEMMA AssessStep == AssessInv /\ [OpsNext]_opsVars => AssessInv'
<1> SUFFICES ASSUME AssessInv, [OpsNext]_opsVars PROVE AssessInv'
  OBVIOUS
<1>1. CASE UNCHANGED assess
  BY <1>1 DEF AssessInv
<1>2. CASE Pass
  BY <1>1, <1>2, NoAssessmentInv, StartAssessInv DEF Pass, Assess
<1>3. CASE Poll
  <2>1. CASE \E r \in Checked : Observe(r)
    BY <2>1, ObserveInv
  <2>2. CASE PollFails \/ Expires \/ Closes
    BY <2>2 DEF PollFails, Expires, Closes, AssessInv, Assessments
  <2> QED BY <1>3, <2>1, <2>2 DEF Poll
<1>4. CASE Restart
  BY <1>4, NoAssessmentInv DEF Restart
<1>5. CASE Receive \/ DryRunFunc \/ Rotate \/ Around \/ UNCHANGED opsVars
  BY <1>1, <1>5 DEF Receive, DryRunFunc, Rotate, Around, beside, opsVars
<1> QED BY <1>2, <1>3, <1>4, <1>5 DEF OpsNext

LEMMA AssessInit == OpsInit => AssessInv
BY DEF OpsInit, AssessInv, Assessments, NoAssessment

\* No assessment is cancelled but over resources that were Current together.
THEOREM AssessInvariant == OpsSpec => []AssessInv
BY AssessInit, AssessStep, PTL DEF OpsSpec

\* Where a pass gets past its health checks.
LEMMA OnlyAwaitHealth ==
    ASSUME [OpsNext]_opsVars, pc = "health", pc' = "ready1"
    PROVE  Pass /\ AwaitHealth
<1>1. CASE Pass
  <2>1. ~BeginOrRefuse
    BY DEF BeginOrRefuse, DeleteWithoutClient, Begin, vars, worker
  <2>2. ~BuildWithoutClient
    BY DEF BuildWithoutClient
  <2> QED BY <1>1, <2>1, <2>2 DEF Pass
<1>2. CASE Poll \/ Receive \/ DryRunFunc \/ Rotate \/ UNCHANGED opsVars
  <2>1. pc' = pc
    BY <1>2 DEF Poll, Receive, DryRunFunc, Rotate, vars, worker, opsVars
  <2> QED BY <2>1
<1>3. CASE Restart
  BY <1>3 DEF Restart, Crash, Drop
<1>4. CASE Around
  <2>1. pc' = pc
    BY <1>4 DEF Around, CacheSync, TimerFires, SourceChanges, UserCreates, UserEdits,
                UserDeletes, Drift, FinishTermination, worker
  <2> QED BY <2>1
<1> QED BY <1>1, <1>2, <1>3, <1>4 DEF OpsNext

\* A pass goes on to Ready only over an assessment in which every checked
\* resource was Current at one time (Assess, checkHealth).
THEOREM HealthyAlwaysCurrent == OpsSpec => HealthyMeansCurrent
<1>1. ASSUME AssessInv, [OpsNext]_opsVars, pc = "health", pc' = "ready1", HasHealthChecks
      PROVE  assess.together
  <2>1. Passed
    BY <1>1, OnlyAwaitHealth DEF AwaitHealth
  <2> QED BY <1>1, <2>1 DEF Passed, AssessInv, Assessments
<1>2. AssessInv /\ [OpsNext]_opsVars
      => [pc = "health" /\ pc' = "ready1" /\ HasHealthChecks => assess.together]_opsVars
  BY <1>1
<1> QED BY <1>2, AssessInvariant, PTL DEF OpsSpec, HealthyMeansCurrent

-------------------------------------------------------------------------------
(* The dry-run request.  Every attempt that goes on leaves its error behind,   *)
(* and what a request patches is not ready and names no kind.                  *)

RequestInv ==
    /\ src \in Revs \union {NoRev}
    /\ request \in Requests
    /\ request.status.entries = {}
    /\ request.pc \in {"get", "patch"} => request.status.ready.st = "False"
    /\ request.attempted => request.lastErr
    /\ request.pc = "panic" => ~request.lastErr

LEMMA NoRequestInv ==
    ASSUME src' \in Revs \union {NoRev}, request' = NoRequest
    PROVE  RequestInv'
BY NoStatusType DEF RequestInv, Requests, NoRequest, NoStatus

LEMMA SourceStep ==
    ASSUME src \in Revs \union {NoRev}, [OpsNext]_opsVars
    PROVE  src' \in Revs \union {NoRev}
<1>1. CASE Pass
  BY <1>1 DEF Pass, BeginOrRefuse, DeleteWithoutClient, Begin, BuildWithoutClient, Worker, ReadBase,
              AddFinalizer, PrepareSource, CheckDependencies, SetProgressing, SetNotReady,
              Build, DryRun, DryRunDone, Apply, ApplyDone, PruneList, PruneDelete, PruneDone,
              CheckHealth, SetReady1, SetReady2, SetNotReadySnapshot1, SetNotReadySnapshot2,
              RemoveFinalizer, Ambient, vars
<1>2. CASE Poll \/ Receive \/ DryRunFunc \/ Rotate \/ Restart \/ UNCHANGED opsVars
  BY <1>2 DEF Poll, Receive, DryRunFunc, Rotate, Restart, Crash, vars, opsVars
<1>3. CASE Around
  BY <1>3 DEF Around, CacheSync, TimerFires, SourceChanges, UserCreates, UserEdits,
              UserDeletes, Drift, FinishTermination
<1> QED BY <1>1, <1>2, <1>3 DEF OpsNext

LEMMA ReadinessFields ==
    ASSUME NEW s \in Statuses, NEW g, NEW st, NEW r, NEW t
    PROVE  LET new == Readiness(s, g, st, r, t)
           IN  /\ new.ready.st = st /\ new.ready.rev = r
               /\ r # NoRev => new.attempted = r
               /\ new.applied = s.applied /\ new.sum = s.sum /\ new.entries = s.entries
BY DEF Readiness, SetResourceCondition, Statuses

LEMMA AttemptInv ==
    ASSUME RequestInv, src' = src, AttemptFails
    PROVE  RequestInv'
<1>1. PICK t \in Stamps :
        request' = [request EXCEPT !.pc = "get", !.status = Readiness(@, 0, "False", src, t)]
  BY DEF AttemptFails
<1>2. request \in Requests /\ request.status \in Statuses /\ request.pc = "loop"
  BY DEF RequestInv, Requests, AttemptFails
<1>3. /\ Readiness(request.status, 0, "False", src, t) \in Statuses
      /\ Readiness(request.status, 0, "False", src, t).ready.st = "False"
      /\ Readiness(request.status, 0, "False", src, t).entries = {}
  BY <1>2, ReadinessType, ReadinessFields DEF RequestInv
<1>4. ASSUME NEW rejected \in Statuses, rejected.entries = {}, rejected.ready.st = "False",
             request' = [request EXCEPT !.pc = "get", !.status = rejected]
      PROVE  RequestInv'
  BY <1>2, <1>4 DEF RequestInv, Requests
<1> QED BY <1>1, <1>3, <1>4

LEMMA RejectedInv ==
    ASSUME RequestInv, src' \in Revs \union {NoRev}, Rejected
    PROVE  RequestInv'
<1>1. CASE request' = NoRequest
  BY <1>1, NoRequestInv
<1>2. CASE request' = Retry(request)
  BY <1>2, NoStatusType DEF RequestInv, Requests, Retry
<1> QED BY <1>1, <1>2 DEF Rejected

LEMMA GetStoredInv ==
    ASSUME TypeOK, RequestInv, src' \in Revs \union {NoRev}, GetStored
    PROVE  RequestInv'
<1>1. CASE Rejected
  BY <1>1, RejectedInv
<1>2. CASE request' = [request EXCEPT !.pc = "patch", !.base = cache.status]
  <2>1. cache.status \in Statuses /\ request.pc = "get"
    BY DEF TypeOK, Konfigurations, GetStored
  <2> QED BY <1>2, <2>1 DEF RequestInv, Requests
<1> QED BY <1>1, <1>2 DEF GetStored

LEMMA RequestStep == TypeOK /\ RequestInv /\ [OpsNext]_opsVars => RequestInv'
<1> SUFFICES ASSUME TypeOK, RequestInv, [OpsNext]_opsVars PROVE RequestInv'
  OBVIOUS
<1>0. src' \in Revs \union {NoRev}
  BY SourceStep DEF RequestInv
<1>1. CASE UNCHANGED request
  BY <1>0, <1>1 DEF RequestInv
<1>2. CASE Receive
  BY <1>0, <1>2, NoStatusType DEF Receive, RequestInv, Requests, NoRequest, NoStatus
<1>3. CASE DryRunFunc
  <2>1. CASE AttemptFails
    BY <1>3, <2>1, AttemptInv DEF DryRunFunc
  <2>2. CASE TimeoutBranch
    <3>1. CASE request.lastErr
      BY <1>0, <2>2, <3>1, NoRequestInv DEF TimeoutBranch
    <3>2. CASE ~request.lastErr
      BY <1>0, <2>2, <3>2 DEF TimeoutBranch, RequestInv, Requests
    <3> QED BY <3>1, <3>2
  <2>3. CASE TimesOut
    BY <1>0, <2>3 DEF TimesOut, RequestInv, Requests
  <2>4. CASE Recover \/ AttemptAnswers
    BY <1>0, <2>4, NoRequestInv DEF Recover, AttemptAnswers
  <2>5. CASE GetStored
    BY <1>0, <2>5, GetStoredInv
  <2>6. CASE PatchStored
    BY <1>0, <2>6, RejectedInv DEF PatchStored
  <2> QED BY <1>3, <2>1, <2>2, <2>3, <2>4, <2>5, <2>6 DEF DryRunFunc, Turn
<1>4. CASE Restart
  BY <1>0, <1>4, NoRequestInv DEF Restart
<1>5. CASE Pass \/ Poll \/ Rotate \/ Around \/ UNCHANGED opsVars
  BY <1>1, <1>5 DEF Pass, Poll, Rotate, Around, beside, opsVars
<1> QED BY <1>2, <1>3, <1>4, <1>5 DEF OpsNext

LEMMA RequestInit == OpsInit => RequestInv
BY NoStatusType DEF OpsInit, Init, RequestInv, Requests, NoRequest, NoStatus

-------------------------------------------------------------------------------
(* Type correctness of the composition *)

LEMMA DryRunType ==
    ASSUME TypeOK, RequestInv, DryRunFunc
    PROVE  TypeOK'
<1>0. UNCHANGED <<src, cluster, timer, worker>>
  BY DEF DryRunFunc
<1>1. CASE UNCHANGED <<api, cache, queued, spent>>
  BY <1>0, <1>1 DEF TypeOK, worker, HasRevision
<1>2. CASE AttemptFails
  <2>1. spent' \in [Events -> Nat]
    BY <1>2, SpendType DEF AttemptFails, Events, TypeOK
  <2> QED BY <1>0, <1>2, <2>1 DEF AttemptFails, TypeOK, worker, HasRevision
<1>3. CASE PatchStored
  <2>1. request.base \in Statuses /\ request.status \in Statuses
    BY DEF RequestInv, Requests
  <2>2. api' \in Konfigurations /\ cache' \in Konfigurations
    BY <1>3, <2>1, PatchFromType DEF PatchStored, TypeOK
  <2>3. queued' \in BOOLEAN /\ UNCHANGED spent
    BY <1>3, QueueType DEF PatchStored
  <2> QED BY <1>0, <2>2, <2>3 DEF TypeOK, worker, HasRevision
<1> QED BY <1>1, <1>2, <1>3
        DEF DryRunFunc, Turn, TimeoutBranch, Recover, GetStored, AttemptAnswers, TimesOut, Quiet

LEMMA OpsNextTypeOK == TypeOK /\ RequestInv /\ [OpsNext]_opsVars => TypeOK'
<1> SUFFICES ASSUME TypeOK, RequestInv, [OpsNext]_opsVars PROVE TypeOK'
  OBVIOUS
<1>1. CASE UNCHANGED vars
  BY <1>1, NextTypeOK
<1>2. CASE Pass
  <2>1. CASE BuildWithoutClient
    <3>1. HasRevision /\ rev \in Revs
      BY <2>1 DEF BuildWithoutClient, HasRevision, TypeOK
    <3>2. LocalsOK'
      BY <2>1, <3>1, FailType DEF BuildWithoutClient
    <3> QED BY <2>1, <3>2 DEF BuildWithoutClient, Ambient, TypeOK, LocalsOK
  <2>2. CASE Worker
    BY <2>2, NextTypeOK DEF Next
  <2>3. CASE BeginOrRefuse
    BY <1>1, <2>3, NextTypeOK DEF BeginOrRefuse, DeleteWithoutClient, Next, Worker
  <2> QED BY <1>2, <2>1, <2>2, <2>3 DEF Pass
<1>3. CASE Poll \/ Receive
  BY <1>1, <1>3 DEF Poll, Receive
<1>4. CASE DryRunFunc
  BY <1>4, DryRunType
<1>5. CASE Rotate
  <2>1. spent' \in [Events -> Nat]
    BY <1>5, SpendType DEF Rotate, Events, TypeOK
  <2> QED BY <1>5, <2>1 DEF Rotate, TypeOK, worker, HasRevision
<1>6. CASE Restart \/ Around
  BY <1>6, NextTypeOK DEF Restart, Around, Next, Surroundings
<1> QED BY <1>1, <1>2, <1>3, <1>4, <1>5, <1>6 DEF OpsNext, opsVars

\* An assessment is in hand exactly while a pass waits for one.
AwaitInv == /\ assess.pc # "off" <=> pc = "health" /\ HasHealthChecks
            /\ credentials \subseteq Credentials
            /\ requests \in 0..MaxRequests

LEMMA AwaitStep == AssessInv /\ AwaitInv /\ [OpsNext]_opsVars => AwaitInv'
<1> SUFFICES ASSUME AssessInv, AwaitInv, [OpsNext]_opsVars PROVE AwaitInv'
  OBVIOUS
<1>0. assess \in Assessments
  BY DEF AssessInv
<1>1. CASE UNCHANGED <<pc, assess>> /\ UNCHANGED <<credentials, requests>>
  BY <1>1 DEF AwaitInv
<1>2. CASE Pass
  <2>1. UNCHANGED <<credentials, requests>> /\ Assess
    BY <1>2 DEF Pass
  <2>2. CASE pc' = "health" /\ pc # "health"
    BY <2>1, <2>2 DEF Assess, StartAssess, NoAssessment, AwaitInv
  <2>3. CASE pc' # "health" /\ pc = "health"
    BY <2>1, <2>3 DEF Assess, NoAssessment, AwaitInv
  <2>4. CASE pc' = "health" <=> pc = "health"
    BY <2>1, <2>4 DEF Assess, AwaitInv
  <2> QED BY <2>2, <2>3, <2>4
<1>3. CASE Poll
  <2>1. UNCHANGED <<pc, credentials, requests>>
    BY <1>3 DEF Poll, vars, worker
  <2>2. assess.pc = "polling" /\ assess'.pc \in {"polling", "done"}
    BY <1>0, <1>3 DEF Poll, Observe, PollFails, Expires, Closes, Assessments
  <2> QED BY <2>1, <2>2 DEF AwaitInv
<1>4. CASE Receive
  <2>1. UNCHANGED <<pc, assess, credentials>> /\ requests < MaxRequests /\ requests' = requests + 1
    BY <1>4 DEF Receive, vars, worker
  <2>2. requests' \in 0..MaxRequests
    BY <2>1, MaxAssumption DEF AwaitInv
  <2> QED BY <2>1, <2>2 DEF AwaitInv
<1>5. CASE Rotate
  BY <1>5 DEF Rotate, AwaitInv, worker
<1>6. CASE Restart
  BY <1>6 DEF Restart, Crash, Drop, NoAssessment, AwaitInv
<1>7. CASE DryRunFunc \/ Around
  <2>1. UNCHANGED <<pc, assess, credentials, requests>>
    BY <1>7 DEF DryRunFunc, Around, CacheSync, TimerFires, SourceChanges, UserCreates,
                UserEdits, UserDeletes, Drift, FinishTermination, worker, beside
  <2> QED BY <1>1, <2>1
<1>8. CASE UNCHANGED opsVars
  BY <1>1, <1>8 DEF opsVars, vars, worker, beside
<1> QED BY <1>2, <1>3, <1>4, <1>5, <1>6, <1>7, <1>8 DEF OpsNext

LEMMA AwaitInit == OpsInit => TypeOK /\ AwaitInv
BY InitTypeOK, MaxAssumption DEF OpsInit, Init, AwaitInv, NoAssessment, Credentials

\* Passes, assessments, requests and credentials keep their types together.
THEOREM OpsTypeCorrect == OpsSpec => []OpsTypeOK
<1>1. TypeOK /\ AssessInv /\ RequestInv /\ AwaitInv => OpsTypeOK
  BY DEF AssessInv, RequestInv, AwaitInv, OpsTypeOK
<1> QED
  BY <1>1, AssessInit, AssessStep, RequestInit, RequestStep, AwaitInit, AwaitStep,
     OpsNextTypeOK, PTL DEF OpsSpec

\* A dry-run request that was attempted gets an answer (lastErr in DryRunFunc).
THEOREM UnansweredAlwaysUntried == OpsSpec => []UnansweredUntried
<1>1. RequestInv => UnansweredUntried
  BY DEF RequestInv, UnansweredUntried
<1> QED BY <1>1, RequestInit, RequestStep, AwaitInit, OpsNextTypeOK, PTL DEF OpsSpec

-------------------------------------------------------------------------------
(***************************************************************************)
(* The finalizer of a composed pass.  What runs beside a pass touches      *)
(* neither its locals nor the cluster; it may patch a status, with one     *)
(* that is not ready and names no kind.                                    *)
(***************************************************************************)

Beside == /\ UNCHANGED <<cluster, worker>>
          /\ \/ UNCHANGED <<api, cache>>
             \/ \E stored, new \in Statuses : /\ new.ready.st = "False" /\ new.entries = {}
                                             /\ PatchFrom(stored, new)

LEMMA DryRunBeside == ASSUME RequestInv, DryRunFunc PROVE Beside
<1>1. CASE PatchStored /\ ~UNCHANGED <<api, cache>>
  <2>1. /\ request.base \in Statuses /\ request.status \in Statuses
        /\ request.status.ready.st = "False" /\ request.status.entries = {}
    BY <1>1 DEF RequestInv, Requests, PatchStored
  <2>2. PatchFrom(request.base, request.status)
    BY <1>1 DEF PatchStored
  <2> QED BY <2>1, <2>2 DEF DryRunFunc, Beside
<1>2. CASE UNCHANGED <<api, cache>>
  BY <1>2 DEF DryRunFunc, Beside
<1> QED BY <1>1, <1>2 DEF DryRunFunc, Turn, TimeoutBranch, Recover, AttemptFails, GetStored,
                          AttemptAnswers, TimesOut, Quiet

LEMMA OpsSteps ==
    ASSUME RequestInv, [OpsNext]_opsVars
    PROVE  [Next]_vars \/ BuildWithoutClient \/ Beside
<1>1. CASE Pass
  BY <1>1 DEF Pass, BeginOrRefuse, DeleteWithoutClient, Next, Worker
<1>2. CASE Poll \/ Receive \/ Restart \/ Around \/ UNCHANGED opsVars
  BY <1>2 DEF Poll, Receive, Restart, Around, Next, Surroundings, opsVars
<1>3. CASE Rotate
  BY <1>3 DEF Rotate, Beside
<1>4. CASE DryRunFunc
  BY <1>4, DryRunBeside
<1> QED BY <1>1, <1>2, <1>3, <1>4 DEF OpsNext

LEMMA BesideFlags ==
    ASSUME TypeOK, BuildWithoutClient \/ Beside
    PROVE  SameFlags(api', api) /\ cache' \in {api', cache}
<1>1. CASE UNCHANGED <<api, cache>>
  BY <1>1 DEF SameFlags
<1>2. CASE \E stored, new : PatchFrom(stored, new)
  BY <1>2, PatchFromFlags
<1> QED BY <1>1, <1>2 DEF BuildWithoutClient, Ambient, Beside

LEMMA OpsFinalizerStep ==
    TypeOK /\ RequestInv /\ FinalizerInv /\ RemovalInv /\ [OpsNext]_opsVars
    => FinalizerInv' /\ RemovalInv'
<1> SUFFICES ASSUME TypeOK, RequestInv, FinalizerInv, RemovalInv, [OpsNext]_opsVars
             PROVE  FinalizerInv' /\ RemovalInv'
  OBVIOUS
<1>1. CASE [Next]_vars
  BY <1>1, FinalizerStep, RemovalStep
<1>2. CASE BuildWithoutClient
  <2>1. pc = "build" /\ pc' = "failed" /\ konfig' = konfig
    BY <1>2 DEF BuildWithoutClient, Fail, Goto
  <2>2. ~konfig.deleting /\ Reconciling
    BY <2>1 DEF FinalizerInv, Reconciling
  <2>3. FinalizerInv'
    BY <1>2, <2>1, <2>2, BesideFlags, FinalizerPassKept
  <2> QED BY <2>1, <2>3, RemovalInvLeft
<1>3. CASE Beside
  <2>1. UNCHANGED <<cluster, worker>>
    BY <1>3 DEF Beside
  <2>2. FinalizerInv'
    BY <1>3, <2>1, BesideFlags, FinalizerKept DEF worker, Reconciling, Removing, FinalizerInv
  <2>3. RemovalInv'
    BY <2>1 DEF RemovalInv, Due, Owned, worker
  <2> QED BY <2>2, <2>3
<1> QED BY <1>1, <1>2, <1>3, OpsSteps

\* Without credentials, next to dry-run requests and whatever the health checks
\* answer, the finalizer still outlives the objects (reconcileDelete).
THEOREM FinalizerOutlivesOperations == OpsSpec => FinalizerHeldUntilPruned
<1>1. ASSUME TypeOK, RequestInv, RemovalInv, [OpsNext]_opsVars,
             api.exists, api.fin, ~api'.exists, api.prune, ~api.suspend,
             NEW o \in Objs, KindOf[o] \in api.status.entries,
             cluster[o].sum # NoSum, ~cluster[o].skip
      PROVE  cluster[o].st # "live"
  <2>1. [Next]_vars
    BY <1>1, OpsSteps, BesideFlags DEF SameFlags
  <2>2. pc = "finalize" /\ konfig = api
    BY <1>1, <2>1, OnlyRemoveFinalizerRemoves
  <2>3. ~Due(o)
    BY <1>1, <2>2 DEF RemovalInv, Collected
  <2> QED BY <1>1, <2>2, <2>3 DEF Due, Owned
<1>2. TypeOK /\ RequestInv /\ RemovalInv /\ [OpsNext]_opsVars
      => [api.exists /\ api.fin /\ ~api'.exists /\ api.prune /\ ~api.suspend
          => \A o \in Objs : /\ KindOf[o] \in api.status.entries
                             /\ cluster[o].sum # NoSum
                             /\ ~cluster[o].skip
                             => cluster[o].st # "live"]_vars
  BY <1>1
<1>3. OpsInit => TypeOK /\ RequestInv /\ FinalizerInv /\ RemovalInv
  BY InitTypeOK, RequestInit, FinalizerInit, RemovalInit DEF OpsInit
<1> QED
  BY <1>2, <1>3, RequestStep, OpsNextTypeOK, OpsFinalizerStep, PTL
     DEF OpsSpec, FinalizerHeldUntilPruned

LEMMA OpsPruneStep ==
    TypeOK /\ RequestInv /\ FinalizerInv /\ PruneInv /\ [OpsNext]_opsVars => PruneInv'
<1> SUFFICES ASSUME TypeOK, RequestInv, FinalizerInv, PruneInv, [OpsNext]_opsVars
             PROVE  PruneInv'
  OBVIOUS
<1>1. CASE [Next]_vars
  BY <1>1, PruneStep
<1>2. CASE BuildWithoutClient
  BY <1>2, PruneInvLeft DEF BuildWithoutClient, Fail, Goto
<1>3. CASE Beside
  BY <1>3 DEF Beside, PruneInv, Current, worker
<1> QED BY <1>1, <1>2, <1>3, OpsSteps

\* Nor does any of this make a pass prune an object of its manifest (Prune).
THEOREM PruneSparesBesideRequests == OpsSpec => []PruneSparesManifest
<1>1. PruneInv => PruneSparesManifest
  BY DEF PruneInv, PruneSparesManifest
<1>2. OpsInit => TypeOK /\ RequestInv /\ FinalizerInv /\ RemovalInv /\ PruneInv
  BY InitTypeOK, RequestInit, FinalizerInit, RemovalInit, PruneInit DEF OpsInit
<1> QED
  BY <1>1, <1>2, RequestStep, OpsNextTypeOK, OpsFinalizerStep, OpsPruneStep, PTL DEF OpsSpec

-------------------------------------------------------------------------------
(***************************************************************************)
(* The refinement of Lifecycle by composed passes.  A dry-run request may  *)
(* make the snapshot of a Konfiguration empty, and that of one without a   *)
(* finalizer is.                                                           *)
(***************************************************************************)

Untracked == Phase \in {"absent", "free"} => api.status.entries = {}

LEMMA UntrackedStep == Untracked /\ Lifecycles => Untracked'
BY DEF Untracked, Lifecycles, Promise!lifecycleVars, Promise!Next, Promise!Create,
       Promise!Decide, Promise!Delete, Promise!Register, Promise!Own, Promise!Track,
       Promise!Release, Promise!Lose, Promise!Gone, Promise!UnderFinalizer

LEMMA OpsReleaseStep ==
    TypeOK /\ RequestInv /\ FinalizerInv /\ ReleaseInv /\ [OpsNext]_opsVars => ReleaseInv'
<1> SUFFICES ASSUME TypeOK, RequestInv, FinalizerInv, ReleaseInv, [OpsNext]_opsVars
             PROVE  ReleaseInv'
  OBVIOUS
<1>1. CASE [Next]_vars
  BY <1>1, ReleaseStep DEF ReleaseInv, Held, vars
<1>2. CASE BuildWithoutClient
  BY <1>2 DEF BuildWithoutClient, Fail, Goto, ReleaseInv
<1>3. CASE Beside
  BY <1>3 DEF Beside, worker, ReleaseInv, Held
<1> QED BY <1>1, <1>2, <1>3, OpsSteps

\* A request tracks nothing, or is a stutter.
LEMMA PromiseBeside ==
    ASSUME TypeOK, Untracked, Beside
    PROVE  Lifecycles
<1>1. AllOwned' = AllOwned
  BY DEF Beside, AllOwned, Owned
<1>2. CASE UNCHANGED api
  BY <1>1, <1>2 DEF Lifecycles, Promise!lifecycleVars, AllOwned, Phase, Collected
<1>3. CASE \E stored, new \in Statuses : new.entries = {} /\ PatchFrom(stored, new)
  <2>1. PICK stored \in Statuses, new \in Statuses :
          new.entries = {} /\ PatchFrom(stored, new)
    BY <1>3
  <2>2. Phase' = Phase
    BY <2>1, PatchFromFlags, PhaseKept
  <2>3. Collected(api)' = Collected(api)
    BY <2>1 DEF PatchFrom, Write, TypeOK, Konfigurations, Collected
  <2>4. api'.status = MergePatch(stored, new, api.status)
    BY <2>1 DEF PatchFrom, Write, TypeOK, Konfigurations
  <2>5. api'.status.entries \in {{}, api.status.entries}
    BY <2>1, <2>4 DEF MergePatch, Changed
  <2>6. api.status.entries \subseteq Kinds
    BY DEF TypeOK, Konfigurations, Statuses
  <2>7. CASE Phase \in {"absent", "free"}
    BY <1>1, <2>2, <2>3, <2>5, <2>7 DEF Untracked, Lifecycles, Promise!lifecycleVars, AllOwned
  <2>8. CASE Phase \in {"held", "deleting"}
    BY <1>1, <2>2, <2>3, <2>5, <2>6, <2>8
       DEF Lifecycles, Promise!Next, Promise!Track, Promise!UnderFinalizer, AllOwned
  <2>9. Phase \in {"absent", "free", "held", "deleting"}
    BY DEF TypeOK, Konfigurations, Phase
  <2> QED BY <2>7, <2>8, <2>9
<1> QED BY <1>2, <1>3 DEF Beside

LEMMA OpsPromiseStep ==
    /\ TypeOK /\ RequestInv /\ FinalizerInv /\ ReleaseInv /\ RemovalInv /\ Untracked
    /\ [OpsNext]_opsVars
    => Lifecycles
<1> SUFFICES ASSUME TypeOK, RequestInv, FinalizerInv, ReleaseInv, RemovalInv, Untracked,
                    [OpsNext]_opsVars
             PROVE  Lifecycles
  OBVIOUS
<1>1. CASE [Next]_vars
  BY <1>1, PromiseStep
<1>2. CASE BuildWithoutClient
  BY <1>2 DEF BuildWithoutClient, Ambient, Lifecycles, Promise!lifecycleVars, Owned, Phase,
              Collected
<1>3. CASE Beside
  BY <1>3, PromiseBeside
<1> QED BY <1>1, <1>2, <1>3, OpsSteps

\* Operations implements Lifecycle: whatever becomes of the credentials, the
\* health checks and the requests that overwrite the status, objects are owned
\* only under the finalizer and the finalizer outlives what the snapshot names.
THEOREM OperationsKeepPromise == OpsSpec => KeepsPromise
<1>1. OpsInit => /\ TypeOK /\ RequestInv /\ FinalizerInv /\ ReleaseInv /\ RemovalInv
                 /\ Untracked /\ Promise!Init
  <2>1. Init => Untracked /\ ReleaseInv
    BY DEF Init, Untracked, NoKonfiguration, NoStatus, ReleaseInv
  <2> QED BY <2>1, InitTypeOK, RequestInit, FinalizerInit, RemovalInit, PromiseInit DEF OpsInit
<1>2. /\ TypeOK /\ RequestInv /\ FinalizerInv /\ ReleaseInv /\ RemovalInv /\ Untracked
      /\ [OpsNext]_opsVars
      => Untracked' /\ [Promise!Next]_Promise!lifecycleVars
  BY OpsPromiseStep, UntrackedStep DEF Lifecycles
<1> QED
  BY <1>1, <1>2, RequestStep, OpsNextTypeOK, OpsFinalizerStep, OpsReleaseStep, PTL
     DEF OpsSpec, KeepsPromise, Promise!Spec

===============================================================================
