------------------------------- MODULE Lifecycle -------------------------------
(***************************************************************************)
(* What the controller promises about a Konfiguration and its objects,     *)
(* whatever it does in between: it owns objects only under its finalizer,  *)
(* and the finalizer of a Konfiguration that collects goes only when it    *)
(* owns no object of a kind it tracks.                                     *)
(***************************************************************************)
CONSTANTS Objs, Kinds, KindOf

VARIABLES
    phase,     \* of the Konfiguration
    owned,     \* the live objects under its labels that pruning may delete
    tracked,   \* the kinds its snapshot names
    collect    \* its deletion is to delete them

lifecycleVars == <<phase, owned, tracked, collect>>

Phases == {"absent",      \* there is none
           "free",        \* it has no finalizer
           "held",        \* it has one
           "deleting"}    \* it has one, and a deletionTimestamp

Init == /\ phase = "absent"
        /\ owned = {}
        /\ tracked = {}
        /\ collect = FALSE

Gone == /\ phase' = "absent"
        /\ tracked' = {}
        /\ collect' = FALSE
        /\ UNCHANGED owned

\* The user's part.
Create == /\ phase = "absent"
          /\ phase' = "free"
          /\ tracked' = {}
          /\ collect' \in BOOLEAN
          /\ UNCHANGED owned

Decide == /\ phase # "absent"
          /\ collect' \in BOOLEAN
          /\ UNCHANGED <<phase, owned, tracked>>

Delete == \/ phase = "free" /\ Gone
          \/ phase = "held" /\ phase' = "deleting" /\ UNCHANGED <<owned, tracked, collect>>

\* The controller's part.
Register == /\ phase = "free"
            /\ phase' = "held"
            /\ UNCHANGED <<owned, tracked, collect>>

UnderFinalizer == phase \in {"held", "deleting"}

Own == /\ UnderFinalizer
       /\ owned' \in {all \in SUBSET Objs : owned \subseteq all}
       /\ UNCHANGED <<phase, tracked, collect>>

Track == /\ UnderFinalizer
         /\ tracked' \in SUBSET Kinds
         /\ UNCHANGED <<phase, owned, collect>>

Release == /\ phase = "deleting"
           /\ collect => \A o \in owned : KindOf[o] \notin tracked
           /\ Gone

\* Anyone's: an object goes, is exempted from pruning or is pruned.
Lose == /\ owned' \in SUBSET owned
        /\ UNCHANGED <<phase, tracked, collect>>

Next == \/ Create \/ Decide \/ Delete
        \/ Register \/ Own \/ Track \/ Release
        \/ Lose

Spec == Init /\ [][Next]_lifecycleVars
===============================================================================
