------------------------------ MODULE Operations ------------------------------
(***************************************************************************)
(* The passes of Reconciler with what runs beside them: the health checks  *)
(* of a pass, the client it impersonates (pkg/impersonation), and the      *)
(* dry-run requests for the same Konfiguration                             *)
(* (controllers/konfiguration_validate.go), which share its status.        *)
(*                                                                         *)
(* Bounds: MaxRequests on the requests; an assessment that fails and a     *)
(* credential that goes are faults of Budget.                              *)
(***************************************************************************)
EXTENDS Reconciler, HealthCheck

CONSTANTS
    Identity,       \* whom spec impersonates: "own", "account" or "kubeconfig"
    MaxRequests

ASSUME IdentityAssumption == Identity \in {"own", "account", "kubeconfig"}
ASSUME MaxAssumption == MaxRequests \in Nat

VARIABLES
    credentials,   \* the objects GetClient reads that are there
    request,       \* the dry-run request in hand
    requests       \* requests so far

beside  == <<assess, credentials, request, requests>>
opsVars == <<vars, beside>>

-------------------------------------------------------------------------------
(* GetClient *)

Credentials == {"account", "token", "kubeconfig"}

\* getKubeConfig and getServiceAccountToken: a secret with a kubeconfig comes
\* before a service account, which needs its token's secret, too.
Needed == CASE Identity = "kubeconfig" -> {"kubeconfig"}
            [] Identity = "account"    -> {"account", "token"}
            [] Identity = "own"        -> {}

GetClient == Needed \subseteq credentials

-------------------------------------------------------------------------------
(* The worker *)

\* Mutant of DeleteWithoutClient: the deletion goes on without pruning.
DeleteUnpruned == /\ konfig' = cache
                  /\ Goto("finalize")
                  /\ queued' = FALSE
                  /\ UNCHANGED <<src, api, cache, cluster, timer, rev, base, todo, changed,
                                 kinds, items, failed, spent>>

\* reconcileDelete returns the error, and the key is queued again.
DeleteWithoutClient == UNCHANGED vars

\* A deletion that prunes needs a client first.
BeginOrRefuse ==
    IF pc = "idle" /\ queued /\ cache.exists /\ Route(cache) = "prune" /\ ~GetClient
    THEN DeleteWithoutClient
    ELSE Begin

\* The first of reconcile's steps.
BuildWithoutClient ==
    /\ pc = "build" /\ ~GetClient
    /\ Fail(rev)
    /\ Ambient /\ UNCHANGED <<cluster, spent>>

\* checkHealth assesses only where there are health checks.
AwaitHealth == HasHealthChecks =>
                  /\ assess.pc = "done"
                  /\ pc' = "ready1" <=> Passed

Assess == CASE pc' = "health" /\ pc # "health" -> IF HasHealthChecks THEN StartAssess
                                                  ELSE UNCHANGED assess
            [] pc' # "health" /\ pc = "health" -> assess' = NoAssessment
            [] OTHER                           -> UNCHANGED assess

Pass == /\ \/ BeginOrRefuse
           \/ Worker /\ pc = "build" /\ GetClient
           \/ BuildWithoutClient
           \/ Worker /\ pc = "health" /\ AwaitHealth
           \/ Worker /\ pc \notin {"idle", "build", "health"}
        /\ Assess
        /\ UNCHANGED <<credentials, request, requests>>

\* A failed assessment is a fault that CheckHealth pays for.
MayFail == Affordable("fault")

Poll == /\ \/ \E r \in Checked : Observe(r)
           \/ MayFail /\ PollFails
           \/ MayFail /\ Expires
           \/ Closes
        /\ UNCHANGED <<vars, credentials, request, requests>>

-------------------------------------------------------------------------------
(* The dry-run handler.  A request whose body does not decode does nothing. *)

Requests == [pc        : {"none", "loop", "get", "patch", "panic"},
             status    : Statuses,   \* of the request's Konfiguration
             base      : Statuses,   \* what its status patch has read
             expired   : BOOLEAN,    \* the context's time is over
             lastErr   : BOOLEAN,    \* lastErr is set
             attempted : BOOLEAN]

NoRequest == [pc |-> "none", status |-> NoStatus, base |-> NoStatus,
              expired |-> FALSE, lastErr |-> FALSE, attempted |-> FALSE]

Quiet == UNCHANGED <<api, cache, queued, spent>>

\* A Konfiguration as a user wrote it, which has no status and no generation.
Receive ==
    /\ request.pc = "none" /\ requests < MaxRequests
    /\ requests' = requests + 1
    /\ request' = [NoRequest EXCEPT !.pc = "loop"]
    /\ UNCHANGED <<vars, assess, credentials>>

\* The context's timeout, which runs from the start of the request.
TimesOut == /\ request.pc \in {"loop", "get", "patch"} /\ ~request.expired
            /\ request' = [request EXCEPT !.expired = TRUE]
            /\ Quiet

\* The branch of the timeout reads lastErr, which nothing may have set.
TimeoutBranch ==
    /\ request.pc = "loop" /\ request.expired
    /\ request' = IF request.lastErr THEN NoRequest ELSE [request EXCEPT !.pc = "panic"]
    /\ Quiet

\* The server recovers, and closes the connection.
Recover == request.pc = "panic" /\ request' = NoRequest /\ Quiet

\* prepareSource fails: the source is not there, has no artifact, or its
\* download fails.  SetNotReady is next.
AttemptFails ==
    /\ request.pc = "loop" /\ ~request.expired
    /\ \/ src = NoRev /\ UNCHANGED spent
       \/ src # NoRev /\ Spend("fault")
    /\ \E t \in Stamps :
        request' = [request EXCEPT !.pc = "get", !.status = Readiness(@, 0, "False", src, t)]
    /\ UNCHANGED <<api, cache, queued>>

\* Mutant of Retry: the error of the attempt is another variable.
RetryUnnoted(r) == [r EXCEPT !.pc = "loop", !.base = NoStatus, !.attempted = TRUE]

Retry(r) == [r EXCEPT !.pc = "loop", !.base = NoStatus, !.attempted = TRUE, !.lastErr = TRUE]

\* After SetNotReady another attempt, but a source that is not there, whose
\* rejection names no revision, ends the request.
Rejected == \/ request' = Retry(request)
            \/ request.status.ready.rev = NoRev /\ request' = NoRequest

\* The Get of patchStatus, in SetNotReady on the request's copy.
GetStored ==
    /\ request.pc = "get"
    /\ \/ cache.exists /\ request' = [request EXCEPT !.pc = "patch", !.base = cache.status]
       \/ Rejected
    /\ Quiet

\* Its Patch: the request's status replaces the stored one.  An error of the
\* one or the other is only logged.
PatchStored ==
    /\ request.pc = "patch"
    /\ PatchFrom(request.base, request.status) \/ UNCHANGED <<api, cache>>
    /\ Rejected
    /\ Queue(FALSE) /\ UNCHANGED spent

\* The source is there; the client, the build and the output, whose errors end
\* the request as the manifest does.
AttemptAnswers ==
    /\ request.pc = "loop" /\ ~request.expired
    /\ src # NoRev
    /\ request' = NoRequest
    /\ Quiet

\* One turn of DryRunFunc's loop.
Turn == \/ TimeoutBranch \/ Recover
        \/ AttemptFails \/ GetStored \/ PatchStored
        \/ AttemptAnswers

DryRunFunc == /\ Turn \/ TimesOut
              /\ UNCHANGED <<src, cluster, timer, worker, assess, credentials, requests>>

-------------------------------------------------------------------------------
\* Someone deletes a secret or the service account, and makes it again.
Rotate ==
    /\ \/ Spend("fault") /\ \E c \in Needed \cap credentials : credentials' = credentials \ {c}
       \/ credentials # Credentials /\ credentials' = Credentials /\ UNCHANGED spent
    /\ UNCHANGED <<src, api, cache, cluster, queued, timer, worker, assess, request, requests>>

\* The requests are lost with the pass.
Restart == /\ Crash
           /\ assess' = NoAssessment
           /\ request' = NoRequest
           /\ UNCHANGED <<credentials, requests>>

Around == /\ \/ CacheSync \/ TimerFires \/ SourceChanges
             \/ UserCreates \/ UserEdits \/ UserDeletes
             \/ Drift \/ FinishTermination
          /\ UNCHANGED beside

OpsInit == /\ Init
           /\ assess = NoAssessment
           /\ credentials = Credentials
           /\ request = NoRequest
           /\ requests = 0

OpsNext == \/ Pass \/ Poll
           \/ Receive \/ DryRunFunc
           \/ Rotate \/ Restart \/ Around

OpsSpec == OpsInit /\ [][OpsNext]_opsVars

-------------------------------------------------------------------------------
(* Properties; those of Reconciler that hold next to requests are checked here, too *)

OpsTypeOK ==
    /\ TypeOK
    /\ assess \in Assessments
    /\ assess.pc # "off" <=> pc = "health" /\ HasHealthChecks
    /\ credentials \subseteq Credentials
    /\ request \in Requests
    /\ requests \in 0..MaxRequests

\* A pass goes on to Ready only over an assessment in which every checked
\* resource was Current at one time, however late events, an error and the
\* timeout fall together (Assess, checkHealth).
HealthyMeansCurrent ==
    [][pc = "health" /\ pc' = "ready1" /\ HasHealthChecks => assess.together]_opsVars

\* A request ends without any answer only if its time was over before the first
\* attempt (lastErr in DryRunFunc).
UnansweredUntried == request.pc = "panic" => ~request.attempted

\* "DryRunFunc returns the http handler for checking what a given Konfiguration
\* would produce" (konfiguration_validate.go): a request leaves the snapshot of
\* the Konfiguration as it is, and with it what there is to prune.
DryRunSparesSnapshot ==
    [][request' # request /\ api.exists /\ api'.exists
       => api'.status.entries = api.status.entries]_opsVars
===============================================================================
