--------------------------- MODULE ResourceManager ---------------------------
(***************************************************************************)
(* What the resource manager (pkg/resources/manager.go) decides about one  *)
(* object of the cluster, and what a write of it does to the cluster.      *)
(*                                                                         *)
(* cl is a cluster: a function from Objs.  An object carries in sum the    *)
(* checksum label of the snapshot it was last applied for; NoSum means it  *)
(* carries none of the controller's labels.  Every object of a manifest    *)
(* gets the label of the whole snapshot, so its own checksum annotation    *)
(* differs whenever that label does and is not kept apart.                 *)
(***************************************************************************)
EXTENDS KonfigurationStatus

CONSTANTS
    Objs,           \* objects, by kind, namespace and name
    ClusterKinds,   \* the kinds without a namespace
    KindOf,         \* the kind of each object
    Requires,       \* what an object cannot be without: its namespace, its CRD
    Lingering,      \* objects with finalizers: deleting only marks them
    Immutable,      \* objects whose manifests differ in an immutable field
    DefinedBy       \* the object, if any, that defines a kind (its CRD)

ASSUME KindAssumption == /\ ClusterKinds \subseteq Kinds
                         /\ KindOf \in [Objs -> Kinds]
ASSUME RequiresAssumption == /\ Requires \in [Objs -> SUBSET Objs]
                             /\ DefinedBy \in [Kinds -> SUBSET Objs]
ASSUME LingeringAssumption == Lingering \subseteq Objs
ASSUME ImmutableAssumption == Immutable \subseteq Objs

Objects == [st    : {"absent", "live", "terminating"},
            sum   : Sums \union {NoSum},
            drift : BOOLEAN,   \* a managed field was changed by someone else
            skip  : BOOLEAN]   \* carries the skip-pruning label or annotation

Absent == [st |-> "absent", sum |-> NoSum, drift |-> FALSE, skip |-> FALSE]

Clusters == [Objs -> Objects]

-----------------------------------------------------------------------------
(* reconcileUnstructured *)

\* Mutant of NeedsApply: the checksum is not compared.
NeedsApplyIfDrifted(cl, o, sum) == cl[o].st = "absent" \/ cl[o].drift

\* An apply of o for the snapshot sum is not a no-op.
NeedsApply(cl, o, sum) ==
    \/ cl[o].st = "absent"
    \/ cl[o].sum # sum
    \/ cl[o].drift

\* The API server admits a write of o: nothing is created without what it needs.
Admitted(cl, o) ==
    cl[o].st = "absent" => \A n \in Requires[o] : cl[n].st = "live"

\* The API server knows the kind.
Served(cl, k) == \A d \in DefinedBy[k] : cl[d].st # "absent"

\* The API server answers Invalid: the patch changes an immutable field.
Invalid(cl, o, sum) ==
    o \in Immutable /\ cl[o].st # "absent" /\ cl[o].sum # sum

ServerSideApply(cl, o, sum) ==
    [cl EXCEPT ![o] = [st    |-> IF cl[o].st = "absent" THEN "live" ELSE cl[o].st,
                       sum   |-> sum,
                       drift |-> FALSE,
                       skip  |-> cl[o].skip]]

-----------------------------------------------------------------------------
(* Prune *)

Listed(cl, k) == {o \in Objs : /\ KindOf[o] = k
                               /\ cl[o].st # "absent"
                               /\ cl[o].sum # NoSum}

ShouldNotPrune(x) == x.skip

IsOrphaned(x, sum, parentDeleting) == parentDeleting \/ x.sum # sum

\* The objects of kind k that Prune goes on to delete, as it listed them.
Prunable(cl, k, sum, parentDeleting) ==
    {o \in Listed(cl, k) : /\ ~ShouldNotPrune(cl[o])
                           /\ IsOrphaned(cl[o], sum, parentDeleting)
                           /\ cl[o].st = "live"}

\* Namespaced kinds go first.
NextKinds(ks) == IF ks \subseteq ClusterKinds THEN ks ELSE ks \ ClusterKinds

-----------------------------------------------------------------------------
\* The API server deletes o, and with a namespace or a CRD everything in it.
Deleted(cl, o) ==
    [x \in Objs |->
        IF (x = o \/ o \in Requires[x]) /\ cl[x].st # "absent"
        THEN IF x \in Lingering THEN [cl[x] EXCEPT !.st = "terminating"] ELSE Absent
        ELSE cl[x]]
=============================================================================
