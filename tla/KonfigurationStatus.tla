------------------------- MODULE KonfigurationStatus -------------------------
(***************************************************************************)
(* The status of a Konfiguration and the ways the controller rewrites it   *)
(* (api/v1beta1/konfiguration_status.go, snapshot_types.go).               *)
(*                                                                         *)
(* A condition keeps its status, the revision its message names and the    *)
(* second of its last transition.  Wording and reasons are left out.       *)
(***************************************************************************)
EXTENDS Naturals

CONSTANTS
    Revs,             \* revisions a source artifact may have
    NoRev,            \* the empty revision string
    Sums,             \* checksums of rendered manifests
    NoSum,            \* the checksum of the nil snapshot, and of a foreign object
    Kinds,            \* kinds of objects, each within one namespace (or none)
    Stamps,           \* seconds a condition may have changed at
    HasHealthChecks   \* len(spec.healthChecks) > 0

ASSUME RevAssumption == NoRev \notin Revs
ASSUME SumAssumption == NoSum \notin Sums
ASSUME StampAssumption == Stamps \subseteq Nat /\ 0 \in Stamps
ASSUME HealthAssumption == HasHealthChecks \in BOOLEAN

Conditions == [st  : {"None", "Unknown", "True", "False"},
               rev : Revs \union {NoRev},
               at  : Stamps]

NoCondition == [st |-> "None", rev |-> NoRev, at |-> 0]

\* status.snapshot is the pair of fields sum and entries; nil is NoSum, {}.
Statuses == [ready     : Conditions,
             healthy   : Conditions,
             obsGen    : Nat,
             applied   : Revs \union {NoRev},
             attempted : Revs \union {NoRev},
             sum       : Sums \union {NoSum},
             entries   : SUBSET Kinds]

NoStatus == [ready |-> NoCondition, healthy |-> NoCondition, obsGen |-> 0,
             applied |-> NoRev, attempted |-> NoRev,
             sum |-> NoSum, entries |-> {}]

-----------------------------------------------------------------------------
\* meta.SetResourceCondition: the transition time moves only with the status.
SetResourceCondition(c, st, r, t) ==
    [st |-> st, rev |-> r, at |-> IF c.st = st THEN c.at ELSE t]

\* Mutant of Progressing: a condition that is there stays.
ProgressingOnce(s, t) ==
    IF s.ready.st # "None" THEN s
    ELSE [s EXCEPT !.ready = SetResourceCondition(@, "Unknown", NoRev, t)]

Progressing(s, t) ==
    [s EXCEPT !.ready = SetResourceCondition(@, "Unknown", NoRev, t)]

Healthiness(s, st, r, t) ==
    [s EXCEPT !.healthy = IF HasHealthChecks
                          THEN SetResourceCondition(@, st, r, t)
                          ELSE NoCondition]

Readiness(s, g, st, r, t) ==
    [s EXCEPT !.ready = SetResourceCondition(@, st, r, t),
              !.obsGen = g,
              !.attempted = IF r = NoRev THEN @ ELSE r]

\* Mutant of Applied: a revision that is there stays.
AppliedOnce(s, r, sum, entries) ==
    [s EXCEPT !.sum = sum, !.entries = entries, !.applied = IF @ = NoRev THEN r ELSE @]

\* What SetReady stores before its two patches; r is never empty here.
Applied(s, r, sum, entries) ==
    [s EXCEPT !.sum = sum, !.entries = entries, !.applied = r]

\* What SetNotReadySnapshot stores before its two patches.
AttemptedSnapshot(s, r, sum, entries) ==
    [s EXCEPT !.sum = sum, !.entries = entries, !.attempted = r]

-----------------------------------------------------------------------------
(***************************************************************************)
(* A JSON merge patch carries the fields in which new differs from base    *)
(* and leaves the others of target as they are.  The two conditions are    *)
(* one list, so they travel together; a snapshot that replaces a nil one   *)
(* travels whole.                                                          *)
(***************************************************************************)
Changed(base, new, target) == IF new = base THEN target ELSE new

MergePatch(base, new, target) ==
    LET conditions(s) == <<s.ready, s.healthy>>
        merged == Changed(conditions(base), conditions(new), conditions(target))
        whole  == base.sum = NoSum /\ new.sum # NoSum
    IN  [ready     |-> merged[1],
         healthy   |-> merged[2],
         obsGen    |-> Changed(base.obsGen, new.obsGen, target.obsGen),
         applied   |-> Changed(base.applied, new.applied, target.applied),
         attempted |-> Changed(base.attempted, new.attempted, target.attempted),
         sum       |-> Changed(base.sum, new.sum, target.sum),
         entries   |-> IF whole THEN new.entries
                       ELSE Changed(base.entries, new.entries, target.entries)]
=============================================================================
