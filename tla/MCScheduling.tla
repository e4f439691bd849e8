----------------------------- MODULE MCScheduling -----------------------------
(***************************************************************************)
(* Instances of Scheduling for TLC.                                        *)
(***************************************************************************)
EXTENDS Scheduling

\* app depends on base.
ChainKonfigs   == {"base", "app"}
ChainDependsOn == [k \in ChainKonfigs |-> IF k = "app" THEN {"base"} ELSE {}]

\* The same, and x and y depend on each other.
KnotKonfigs    == {"base", "app", "x", "y"}
KnotDependsOn  == [k \in KnotKonfigs |-> CASE k = "base" -> {}
                                           [] k = "app"  -> {"base"}
                                           [] k = "x"    -> {"y"}
                                           [] k = "y"    -> {"x"}]

Limits(edit, source, fault, crash) ==
    [e \in Events |-> CASE e = "edit"   -> edit
                        [] e = "source" -> source
                        [] e = "fault"  -> fault
                        [] e = "crash"  -> crash]

ChainBudget == Limits(1, 0, 1, 1)
KnotBudget  == Limits(0, 1, 0, 0)
===============================================================================
