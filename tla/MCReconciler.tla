----------------------------- MODULE MCReconciler -----------------------------
(***************************************************************************)
(* Instances of Reconciler for TLC.                                        *)
(***************************************************************************)
EXTENDS Reconciler

\* Two objects of two kinds: r1 renders a, r2 renders b and then a.
TwoObjs     == {"a", "b"}
TwoKinds    == {"A", "B"}
TwoKindOf   == [o \in TwoObjs |-> IF o = "a" THEN "A" ELSE "B"]
TwoRank     == [o \in TwoObjs |-> IF o = "a" THEN 2 ELSE 1]
TwoRevs     == {"r1", "r2"}
TwoManifest == [r \in TwoRevs |-> IF r = "r1" THEN {"a"} ELSE {"a", "b"}]
TwoSum      == [r \in TwoRevs |-> IF r = "r1" THEN "s1" ELSE "s2"]
TwoSums     == {"s1", "s2"}
Free        == [o \in TwoObjs |-> {}]
Builtin     == [k \in TwoKinds |-> {}]

\* The second of these revisions alone.
OneRev      == {"r2"}
OneManifest == [r \in OneRev |-> TwoManifest[r]]
OneSum      == [r \in OneRev |-> TwoSum[r]]
OneSums     == {"s2"}

\* A namespace n and an object a in it; r2 renders the namespace alone.
NsObjs      == {"n", "a"}
NsKinds     == {"N", "A"}
NsKindOf    == [o \in NsObjs |-> IF o = "n" THEN "N" ELSE "A"]
NsRank      == [o \in NsObjs |-> IF o = "n" THEN 1 ELSE 2]
NsRequires  == [o \in NsObjs |-> IF o = "a" THEN {"n"} ELSE {}]
NsManifest  == [r \in TwoRevs |-> IF r = "r1" THEN {"n", "a"} ELSE {"n"}]
NsBuiltin   == [k \in NsKinds |-> {}]

\* A definition n of the kind of a; r1 renders it alone and r2 with a.
CrdManifest == [r \in TwoRevs |-> IF r = "r1" THEN {"n"} ELSE {"n", "a"}]
CrdDefines  == [k \in NsKinds |-> IF k = "A" THEN {"n"} ELSE {}]

OneStamp  == {0}

Limits(edit, source, fault, drift, crash) ==
    [e \in Events |-> CASE e = "edit"   -> edit
                        [] e = "source" -> source
                        [] e = "fault"  -> fault
                        [] e = "drift"  -> drift
                        [] e = "crash"  -> crash]

StaleEdits     == Limits(3, 0, 1, 0, 1)
CalmBudget     == Limits(2, 1, 0, 0, 0)
CoreBudget     == Limits(2, 1, 1, 1, 1)
OneFault       == Limits(2, 2, 1, 0, 0)
===============================================================================
