------------------------------ MODULE DriftProofs ------------------------------
(***************************************************************************)
(* What holds of Drift for all kinds, documents, edits and defaults of the *)
(* API server: its type invariant, and that a pass that calls an object up *)
(* to date found all that is rendered in the cluster.                      *)
(*                                                                         *)
(* The argument.  When nothing is modified, a merge patch of what the live *)
(* object lacks leaves the live object (UnmodifiedIsPatched).  A path of   *)
(* the configuration then is in the patch, and so in what it leaves, or is *)
(* not, and so the same in the live object (NothingToAdd).  What the       *)
(* normalizations hide does not count, as a stored document has no nulls   *)
(* in its maps and a stored Secret no stringData (LiveOK, the part of the  *)
(* invariant that is about the cluster).                                   *)
(***************************************************************************)
EXTENDS Drift, SequenceTheorems, TLAPS

-------------------------------------------------------------------------------
(* Paths *)

LEMMA PathIs ==
    ASSUME NEW p, IsPath(p)
    PROVE  /\ Len(p) \in Nat
           /\ p = [i \in 1..Len(p) |-> p[i]]
           /\ \A S : (\A i \in 1..Len(p) : p[i] \in S) => p \in Seq(S)
<1> DEFINE n == Len(p)
<1>1. n \in Nat /\ p = SubSeq(p, 1, n)
  BY DEF IsPath
<1> HIDE DEF n
<1>2. p = [i \in 1..n |-> p[i]]
  BY <1>1
<1>3. \A S : (\A i \in 1..n : p[i] \in S) => p \in Seq(S)
  BY <1>1, <1>2
<1> QED
  BY <1>1, <1>2, <1>3 DEF n

LEMMA SequencesArePaths ==
    ASSUME NEW S, NEW p \in Seq(S)
    PROVE  IsPath(p)
BY SubSeqFull DEF IsPath

LEMMA PrefixIs ==
    ASSUME NEW p, NEW q, IsPath(p), IsPath(q)
    PROVE  IsPrefix(p, q) <=> Len(p) <= Len(q) /\ \A i \in 1..Len(p) : p[i] = q[i]
<1> DEFINE m == Len(p)
           n == Len(q)
<1>1. m \in Nat /\ n \in Nat /\ p = [i \in 1..m |-> p[i]]
  BY PathIs
<1>2. IsPrefix(p, q) <=> m <= n /\ SubSeq(p, 1, m) = SubSeq(q, 1, m)
  BY DEF IsPrefix
<1>3. SubSeq(p, 1, m) = p
  BY DEF IsPath
<1> HIDE DEF m, n
<1>4. SubSeq(q, 1, m) = [i \in 1..m |-> q[i]]
  BY <1>1
<1> QED
  BY <1>1, <1>2, <1>3, <1>4 DEF m, n

LEMMA PrefixesAre ==
    ASSUME NEW q, IsPath(q), NEW r
    PROVE  r \in Prefixes(q) <=> IsPath(r) /\ IsPrefix(r, q)
<1> DEFINE n == Len(q)
           S == {q[i] : i \in 1..n}
<1>1. n \in Nat /\ q \in Seq(S)
  <2>1. \A i \in 1..n : q[i] \in S
    OBVIOUS
  <2> QED
    BY <2>1, PathIs, Zenon
<1>2. Prefixes(q) = {SubSeq(q, 1, l) : l \in 0..n}
  BY DEF Prefixes
<1>3. ASSUME NEW l \in 0..n PROVE /\ SubSeq(q, 1, l) \in Seq(S) /\ Len(SubSeq(q, 1, l)) = l
                                   /\ \A i \in 1..l : SubSeq(q, 1, l)[i] = q[i]
  <2>1. l \in Int /\ \A i \in 1..l : q[i] \in S
    BY <1>1
  <2> HIDE DEF n, S
  <2> DEFINE s == SubSeq(q, 1, l)
  <2>2. s \in Seq(S) /\ Len(s) = (IF 1 <= l THEN l - 1 + 1 ELSE 0) /\ \A i \in 1..(l - 1 + 1) : s[i] = q[1 + i - 1]
    BY <2>1, SubSeqProperties
  <2> HIDE DEF s
  <2>3. l \in Nat
    BY <1>1
  <2>4. Len(s) = l /\ \A i \in 1..l : s[i] = q[i]
    BY <2>2, <2>3, <1>1
  <2> QED
    BY <2>2, <2>4 DEF s
<1> HIDE DEF n, S
<1>4. ASSUME r \in Prefixes(q) PROVE IsPath(r) /\ IsPrefix(r, q)
  <2>1. PICK l \in 0..n : r = SubSeq(q, 1, l)
    BY <1>2, <1>4
  <2>2. r \in Seq(S) /\ Len(r) = l /\ \A i \in 1..l : r[i] = q[i]
    BY <2>1, <1>3
  <2>3. IsPath(r)
    BY <2>2, SequencesArePaths
  <2>4. Len(r) <= Len(q)
    BY <2>2, <1>1 DEF n
  <2> QED
    BY <2>2, <2>3, <2>4, PrefixIs, Zenon
<1>5. ASSUME IsPath(r), IsPrefix(r, q) PROVE r \in Prefixes(q)
  <2> DEFINE l == Len(r)
  <2>1. l \in Nat /\ l <= n /\ SubSeq(r, 1, l) = SubSeq(q, 1, l) /\ r = SubSeq(r, 1, l)
    BY <1>5 DEF IsPath, IsPrefix, n
  <2> HIDE DEF l
  <2>2. l \in 0..n
    BY <2>1, <1>1
  <2> QED
    BY <2>1, <2>2, <1>2, Zenon
<1> QED
  BY <1>4, <1>5

LEMMA PrefixOrder ==
    ASSUME NEW p, NEW q, NEW r, IsPath(p), IsPath(q), IsPath(r)
    PROVE  /\ IsPrefix(p, p)
           /\ IsPrefix(p, q) /\ IsPrefix(q, r) => IsPrefix(p, r)
           /\ IsPrefix(p, q) /\ IsPrefix(q, p) => p = q
           /\ IsPrefix(p, r) /\ IsPrefix(q, r) => IsPrefix(p, q) \/ IsPrefix(q, p)
           /\ IsPrefix(p, r) /\ p # r => Len(p) < Len(r)
<1> DEFINE Below(a, b) == Len(a) <= Len(b) /\ \A i \in 1..Len(a) : a[i] = b[i]
           Is(a) == Len(a) \in Nat /\ a = [i \in 1..Len(a) |-> a[i]]
<1>1. \A a, b \in {p, q, r} : Is(a) /\ (IsPrefix(a, b) <=> Below(a, b))
  <2> TAKE a, b \in {p, q, r}
  <2>1. IsPath(a) /\ IsPath(b)
    OBVIOUS
  <2> QED
    BY <2>1, PathIs, PrefixIs, Zenon
<1>2. ASSUME NEW a, NEW b, Is(a), Is(b), Below(a, b), Len(b) <= Len(a) PROVE a = b
  <2>1. Len(a) = Len(b)
    <3>1. Len(a) \in Nat /\ Len(b) \in Nat /\ Len(a) <= Len(b) /\ Len(b) <= Len(a)
      BY <1>2, Zenon
    <3> QED
      BY <3>1
  <2>2. \A i \in 1..Len(a) : a[i] = b[i]
    BY <1>2
  <2> DEFINE n == Len(a)
  <2>3. a = [i \in 1..n |-> a[i]] /\ b = [i \in 1..n |-> b[i]]
    BY <1>2, <2>1
  <2>4. \A i \in 1..n : a[i] = b[i]
    BY <2>2
  <2> HIDE DEF n
  <2> QED
    BY <2>3, <2>4
<1>3. Below(p, p)
  BY <1>1
<1>4. Below(p, q) /\ Below(q, r) => Below(p, r)
  BY <1>1
<1>5. Below(p, r) /\ Below(q, r) => Below(p, q) \/ Below(q, p)
  BY <1>1
<1>6. Below(p, r) /\ p # r => Len(p) < Len(r)
  BY <1>1, <1>2
<1>7. Below(p, q) /\ Below(q, p) => p = q
  BY <1>1, <1>2
<1> QED
  BY <1>1, <1>3, <1>4, <1>5, <1>6, <1>7

\* No path is between a path and one that is longer by one.
LEMMA NextPath ==
    ASSUME NEW p, NEW q, NEW r, IsPath(p), IsPath(q), IsPath(r),
           IsPrefix(p, q), Len(q) = Len(p) + 1, IsPrefix(r, q)
    PROVE  IsPrefix(r, p) \/ r = q
<1>1. IsPrefix(r, p) \/ IsPrefix(p, r)
  BY PrefixOrder, Zenon
<1>2. ASSUME IsPrefix(p, r), p # r, r # q PROVE FALSE
  <2>1. Len(p) < Len(r) /\ Len(r) < Len(q)
    BY <1>2, PrefixOrder, Zenon
  <2>2. Len(p) \in Nat /\ Len(r) \in Nat
    BY PathIs, Zenon
  <2> QED
    BY <2>1, <2>2
<1> QED
  BY <1>1, <1>2, PrefixOrder, Zenon

\* The path that leads to one that is longer by one.
LEMMA FrontIs ==
    ASSUME NEW p, NEW q, IsPath(p), IsPath(q), IsPrefix(p, q), Len(q) = Len(p) + 1
    PROVE  Front(q) = p
<1> DEFINE m == Len(p)
           n == Len(q)
<1>1. m \in Nat /\ n - 1 = m /\ SubSeq(p, 1, m) = SubSeq(q, 1, m) /\ p = SubSeq(p, 1, m)
  BY PathIs DEF IsPrefix, IsPath
<1>2. Front(q) = SubSeq(q, 1, n - 1)
  BY DEF Front
<1> HIDE DEF m, n
<1> QED
  BY <1>1, <1>2

\* The root is a path and leads to every path.
LEMMA RootIs ==
    /\ IsPath(<<>>)
    /\ \A p : IsPath(p) => IsPrefix(<<>>, p)
    /\ \A p : IsPath(p) => (p = <<>> <=> Len(p) = 0)
<1>1. IsPath(<<>>)
  BY EmptySeq, SequencesArePaths
<1>2. ASSUME NEW p, IsPath(p) PROVE IsPrefix(<<>>, p) /\ (p = <<>> <=> Len(p) = 0)
  <2>1. Len(p) \in Nat /\ p = [i \in 1..Len(p) |-> p[i]] /\ Len(<<>>) = 0
    BY <1>2, PathIs
  <2>2. IsPrefix(<<>>, p)
    BY <2>1, <1>1, <1>2, PrefixIs
  <2>3. Len(p) = 0 => p = <<>>
    BY <2>1
  <2> QED
    BY <2>1, <2>2, <2>3
<1> QED
  BY <1>1, <1>2

-------------------------------------------------------------------------------
(* Patches that change nothing *)

AllPaths(v) == \A p \in DOMAIN v : IsPath(p)

\* f is l without some paths, none of them an item of a list f has.
OnlyRemoves(f, l) ==
    /\ DOMAIN f \subseteq DOMAIN l
    /\ \A p \in DOMAIN f : f[p] = l[p]
    /\ \A p \in DOMAIN f : f[p] = Arr =>
        \A q \in DOMAIN l : IsPrefix(p, q) /\ Len(q) = Len(p) + 1 => q \in DOMAIN f

LEMMA WithoutIs ==
    ASSUME NEW v, NEW paths
    PROVE  /\ DOMAIN Without(v, paths) = {q \in DOMAIN v : Prefixes(q) \cap paths = {}}
           /\ \A p \in DOMAIN Without(v, paths) : Without(v, paths)[p] = v[p]
BY Zenon DEF Without

LEMMA InWithout ==
    ASSUME NEW v, NEW paths, NEW p
    PROVE  /\ p \in DOMAIN Without(v, paths) <=> p \in DOMAIN v /\ Prefixes(p) \cap paths = {}
           /\ p \in DOMAIN Without(v, paths) => Without(v, paths)[p] = v[p]
<1> DEFINE w == Without(v, paths)
<1>1. DOMAIN w = {q \in DOMAIN v : Prefixes(q) \cap paths = {}} /\ \A q \in DOMAIN w : w[q] = v[q]
  BY WithoutIs
<1> HIDE DEF w
<1>2. p \in DOMAIN w <=> p \in DOMAIN v /\ Prefixes(p) \cap paths = {}
  BY <1>1
<1> QED
  BY <1>1, <1>2 DEF w

LEMMA LabelsDiffer == Arr # Obj /\ Arr # Nil /\ Obj # Nil
BY DEF Arr, Obj, Nil

LEMMA RemovingFieldsKeepsItems ==
    ASSUME NEW o, NEW l, AllPaths(l), NEW R \in SUBSET Removed(o, l)
    PROVE  OnlyRemoves(Without(l, R), l)
<1> DEFINE f == Without(l, R)
<1>1. DOMAIN f = {q \in DOMAIN l : Prefixes(q) \cap R = {}} /\ \A p \in DOMAIN f : f[p] = l[p]
  BY WithoutIs
<1> HIDE DEF f
<1>2. ASSUME NEW p \in DOMAIN f, f[p] = Arr, NEW q \in DOMAIN l, IsPrefix(p, q), Len(q) = Len(p) + 1
      PROVE  q \in DOMAIN f
  <2>1. SUFFICES ASSUME NEW r \in Prefixes(q) \cap R PROVE FALSE
    BY <1>1
  <2>2. IsPath(p) /\ IsPath(q)
    BY <1>1 DEF AllPaths
  <2>3. IsPath(r) /\ IsPrefix(r, q)
    BY <2>1, <2>2, PrefixesAre
  <2>4. ~IsPrefix(r, p)
    BY <1>1, <2>1, <2>2, <2>3, PrefixesAre
  <2>5. r = q
    BY <1>2, <2>2, <2>3, <2>4, NextPath, Zenon
  <2>6. q \in Removed(o, l)
    BY <2>1, <2>5
  <2>7. l[Front(q)] = Obj
    BY <2>6, Zenon DEF Removed
  <2>8. Front(q) = p
    BY <1>2, <2>2, FrontIs, Zenon
  <2> QED
    BY <1>1, <1>2, <2>7, <2>8, LabelsDiffer
<1> QED
  BY <1>1, <1>2 DEF OnlyRemoves, f

LEMMA ByFieldsIs ==
    ASSUME NEW v, NEW p, IsPath(p)
    PROVE  ByFields(v, p) <=> \A q : IsPath(q) /\ IsPrefix(q, p) /\ q # p => q \in DOMAIN v /\ v[q] = Obj
BY PrefixesAre, Zenon DEF ByFields

LEMMA SolidIs ==
    ASSUME NEW v, NEW s
    PROVE  s \in Solid(v) <=> /\ s \in DOMAIN v /\ ByFields(v, s) /\ v[s] # Nil
                              /\ v[s] = Obj => \A q \in DOMAIN v : IsPrefix(s, q) => q = s
BY Zenon DEF Solid

LEMMA DropNullsIs ==
    ASSUME NEW v, NEW p
    PROVE  /\ p \in DOMAIN DropNulls(v) <=>
                /\ p \in DOMAIN v
                /\ p = <<>> \/ \E s \in Solid(v) : IsPrefix(p, s) \/ IsPrefix(s, p)
           /\ p \in DOMAIN DropNulls(v) => DropNulls(v)[p] = v[p]
BY Zenon DEF DropNulls

\* What a document keeps without its nulls is, but for the root, what leads to
\* something solid or is in it.
LEMMA KeptIsSolid ==
    ASSUME NEW v, AllPaths(v), NEW p \in DOMAIN DropNulls(v), p # <<>>
    PROVE  \E s \in Solid(v) : /\ IsPath(s)
                               /\ \/ IsPrefix(s, p)
                                  \/ IsPrefix(p, s) /\ p # s /\ v[p] = Obj /\ ByFields(v, p)
<1>1. p \in DOMAIN v /\ IsPath(p)
  BY DropNullsIs, Zenon DEF AllPaths
<1>2. PICK s \in Solid(v) : IsPrefix(p, s) \/ IsPrefix(s, p)
  BY DropNullsIs, Zenon
<1>3. s \in DOMAIN v /\ ByFields(v, s) /\ IsPath(s)
  BY SolidIs, Zenon DEF AllPaths
<1>4. ASSUME IsPrefix(p, s), p # s PROVE v[p] = Obj /\ ByFields(v, p)
  <2>1. v[p] = Obj
    BY <1>1, <1>3, <1>4, ByFieldsIs, Zenon
  <2>2. ASSUME NEW q, IsPath(q), IsPrefix(q, p), q # p PROVE q \in DOMAIN v /\ v[q] = Obj
    <3>1. IsPrefix(q, s) /\ q # s
      BY <1>1, <1>3, <1>4, <2>2, PrefixOrder, Zenon
    <3> QED
      BY <1>3, <2>2, <3>1, ByFieldsIs, Zenon
  <2> QED
    BY <1>1, <2>1, <2>2, ByFieldsIs, Zenon
<1>5. p = s => IsPrefix(s, p)
  BY <1>1, PrefixOrder, Zenon
<1> QED
  BY <1>2, <1>3, <1>4, <1>5, Zenon

\* None of it is a null in a map.
LEMMA KeptIsNoNull ==
    ASSUME NEW v, AllPaths(v), v[<<>>] = Obj, NEW p \in DOMAIN DropNulls(v), v[p] = Nil
    PROVE  ~ByFields(v, p)
<1> SUFFICES ASSUME ByFields(v, p) PROVE FALSE
  OBVIOUS
<1>1. p # <<>>
  BY LabelsDiffer
<1>2. p \in DOMAIN v /\ IsPath(p)
  BY DropNullsIs, Zenon DEF AllPaths
<1>3. PICK s \in Solid(v) : IsPath(s) /\ (IsPrefix(s, p) \/ v[p] = Obj)
  BY <1>1, KeptIsSolid, Zenon
<1>4. IsPrefix(s, p)
  BY <1>3, LabelsDiffer
<1>5. s # p
  BY SolidIs, Zenon
<1>6. v[s] = Obj
  BY <1>2, <1>3, <1>4, <1>5, ByFieldsIs, Zenon
<1> QED
  BY <1>2, <1>4, <1>5, <1>6, SolidIs, Zenon

\* A list that is kept is kept with all that is in it.
LEMMA KeptListIsWhole ==
    ASSUME NEW v, AllPaths(v), v[<<>>] = Obj, NEW p \in DOMAIN DropNulls(v), v[p] # Obj,
           NEW q \in DOMAIN v, IsPrefix(p, q)
    PROVE  q \in DOMAIN DropNulls(v)
<1>1. p \in DOMAIN v /\ IsPath(p) /\ IsPath(q)
  BY DropNullsIs, Zenon DEF AllPaths
<1>2. PICK s \in Solid(v) : IsPath(s) /\ IsPrefix(s, p)
  BY KeptIsSolid, Zenon
<1>3. IsPrefix(s, q)
  BY <1>1, <1>2, PrefixOrder, Zenon
<1> QED
  BY <1>3, DropNullsIs, Zenon

LEMMA MergePatchIs ==
    ASSUME NEW doc, NEW patch, NEW p
    PROVE  /\ p \in DOMAIN MergePatch(doc, patch) <=>
                \/ p \in DOMAIN patch /\ ~(patch[p] = Nil /\ ByFields(patch, p))
                \/ /\ p \in DOMAIN doc \ DOMAIN patch
                   /\ \A q \in Prefixes(p) \cap DOMAIN patch :
                        patch[q] = Obj /\ q \in DOMAIN doc /\ doc[q] = Obj
           /\ p \in DOMAIN MergePatch(doc, patch) =>
                MergePatch(doc, patch)[p] = IF p \in DOMAIN patch THEN patch[p] ELSE doc[p]
BY Zenon DEF MergePatch

\* The paths Additions leaves out, and what it is without them.
Same(f, c) == {p \in DOMAIN c : p # <<>> /\ ByFields(f, p) /\ ByFields(c, p) /\ ~Differ(f, c, p)}

LEMMA AdditionsAre ==
    ASSUME NEW f, NEW c, NEW p
    PROVE  /\ p \in DOMAIN Additions(f, c) <=> p \in DOMAIN c /\ Prefixes(p) \cap Same(f, c) = {}
           /\ p \in DOMAIN Additions(f, c) => Additions(f, c)[p] = c[p]
<1>1. Additions(f, c) = Without(c, Same(f, c))
  BY DEF Additions, Same
<1> QED
  BY <1>1, InWithout

\* The two are alike below a path at which they do not differ.
LEMMA AlikeBelow ==
    ASSUME NEW f, NEW c, NEW r, ~Differ(f, c, r), NEW q, IsPrefix(r, q)
    PROVE  /\ q \in DOMAIN f <=> q \in DOMAIN c
           /\ q \in DOMAIN c => f[q] = c[q]
BY Zenon DEF Differ

\* p is in l as it is in c, and if it is a list it has no other items there.
Applied(l, c, p) ==
    /\ p \in DOMAIN l /\ l[p] = c[p]
    /\ c[p] = Arr => \A q \in DOMAIN l : IsPrefix(p, q) /\ Len(q) = Len(p) + 1 => q \in DOMAIN c

\* What is the same in what the patch is computed of is the same in l.
LEMMA SameIsApplied ==
    ASSUME NEW f, NEW l, NEW c, AllPaths(l), AllPaths(c), OnlyRemoves(f, l),
           NEW r \in Same(f, c), NEW p \in DOMAIN c, IsPrefix(p, r) \/ IsPrefix(r, p)
    PROVE  Applied(l, c, p)
<1>1. IsPath(r) /\ IsPath(p)
  BY DEF AllPaths, Same
<1>2. ByFields(f, r) /\ ByFields(c, r) /\ ~Differ(f, c, r)
  BY DEF Same
<1>3. CASE IsPrefix(p, r) /\ p # r
  <2>1. p \in DOMAIN f /\ f[p] = Obj /\ c[p] = Obj
    BY <1>1, <1>2, <1>3, ByFieldsIs, Zenon
  <2>2. p \in DOMAIN l /\ l[p] = Obj
    BY <2>1, Zenon DEF OnlyRemoves
  <2> QED
    BY <2>1, <2>2, LabelsDiffer, Zenon DEF Applied
<1>4. CASE IsPrefix(r, p)
  <2>1. p \in DOMAIN f /\ f[p] = c[p]
    BY <1>2, <1>4, AlikeBelow
  <2>2. p \in DOMAIN l /\ l[p] = c[p]
    BY <2>1, Zenon DEF OnlyRemoves
  <2>3. ASSUME c[p] = Arr, NEW q \in DOMAIN l, IsPrefix(p, q), Len(q) = Len(p) + 1
        PROVE  q \in DOMAIN c
    <3>1. q \in DOMAIN f
      BY <2>1, <2>3, Zenon DEF OnlyRemoves
    <3>2. IsPrefix(r, q)
      BY <1>1, <1>4, <2>3, PrefixOrder, Zenon DEF AllPaths
    <3> QED
      BY <1>2, <3>1, <3>2, AlikeBelow, Zenon
  <2> QED
    BY <2>2, <2>3, Zenon DEF Applied
<1>5. p = r => IsPrefix(r, p)
  BY <1>1, PrefixOrder, Zenon
<1> QED
  BY <1>3, <1>4, <1>5, Zenon

\* What leads to a solid path of the additions, or is in it, they have.
LEMMA SolidIsAdded ==
    ASSUME NEW f, NEW c, AllPaths(c), NEW s \in Solid(c), Prefixes(s) \cap Same(f, c) = {},
           NEW p \in DOMAIN c, IsPrefix(p, s) \/ IsPrefix(s, p)
    PROVE  p \in DOMAIN Additions(f, c) /\ p \in DOMAIN DropNulls(Additions(f, c))
<1> DEFINE add == Additions(f, c)
<1>1. IsPath(s) /\ IsPath(p) /\ s \in DOMAIN c /\ ByFields(c, s) /\ c[s] # Nil
  BY SolidIs, Zenon DEF AllPaths
<1>2. ASSUME NEW q \in DOMAIN c, IsPrefix(q, s) PROVE q \in DOMAIN add
  <2>1. SUFFICES ASSUME NEW t \in Prefixes(q), t \in Same(f, c) PROVE FALSE
    BY <1>2, AdditionsAre
  <2>2. IsPath(q) /\ IsPath(t) /\ IsPrefix(t, q)
    BY <2>1, PrefixesAre, Zenon DEF AllPaths
  <2>3. t \in Prefixes(s)
    BY <1>1, <1>2, <2>2, PrefixOrder, PrefixesAre, Zenon
  <2> QED
    BY <2>1, <2>3
<1>3. ASSUME IsPrefix(s, p), s # p PROVE p \in DOMAIN add
  <2>1. SUFFICES ASSUME NEW t \in Prefixes(p), t \in Same(f, c) PROVE FALSE
    BY <1>3, AdditionsAre
  <2>2. IsPath(t) /\ IsPrefix(t, p) /\ ByFields(c, t)
    BY <1>1, <2>1, PrefixesAre, Zenon DEF Same
  <2>3. ~IsPrefix(t, s)
    BY <1>1, <2>1, <2>2, PrefixesAre
  <2>4. IsPrefix(s, t) /\ s # t
    BY <1>1, <1>3, <2>2, <2>3, PrefixOrder, Zenon
  <2>5. c[s] = Obj
    BY <1>1, <2>2, <2>4, ByFieldsIs, Zenon
  <2> QED
    BY <1>3, <2>5, SolidIs, Zenon
<1>4. p = s => IsPrefix(p, s)
  BY <1>1, PrefixOrder, Zenon
<1>5. p \in DOMAIN add
  BY <1>2, <1>3, <1>4, Zenon
<1>6. s \in DOMAIN add /\ add[s] = c[s]
  BY <1>1, <1>2, PrefixOrder, AdditionsAre
<1>7. ByFields(add, s)
  <2>1. SUFFICES ASSUME NEW q, IsPath(q), IsPrefix(q, s), q # s PROVE q \in DOMAIN add /\ add[q] = Obj
    BY <1>1, ByFieldsIs, Zenon
  <2>2. q \in DOMAIN c /\ c[q] = Obj
    BY <1>1, <2>1, ByFieldsIs, Zenon
  <2> QED
    BY <1>2, <2>1, <2>2, AdditionsAre, Zenon
<1>8. ASSUME add[s] = Obj, NEW q \in DOMAIN add, IsPrefix(s, q) PROVE q = s
  <2>1. q \in DOMAIN c
    BY AdditionsAre, Zenon
  <2> QED
    BY <1>6, <1>8, <2>1, SolidIs, Zenon
<1>9. s \in Solid(add)
  BY <1>1, <1>6, <1>7, <1>8, SolidIs, Zenon
<1> QED
  BY <1>5, <1>9, DropNullsIs, Zenon

\* A merge patch of the additions that leaves l as the result: l has all that c
\* asks for, whatever it is made from.
LEMMA NothingToAdd ==
    ASSUME NEW f, NEW l, NEW c, NEW x, NEW add \in {Additions(f, c), DropNulls(Additions(f, c))},
           AllPaths(l), AllPaths(c), <<>> \in DOMAIN c, c[<<>>] = Obj,
           OnlyRemoves(f, l), MergePatch(x, add) = l,
           NEW p \in DOMAIN DropNulls(c)
    PROVE  Applied(l, c, p)
<1>1. p \in DOMAIN c /\ IsPath(p)
  BY DropNullsIs, Zenon DEF AllPaths
<1>2. \A q \in DOMAIN add : q \in DOMAIN c /\ add[q] = c[q]
  BY DropNullsIs, AdditionsAre
<1>3. ASSUME p \in DOMAIN add PROVE Applied(l, c, p)
  <2>1. ~(add[p] = Nil /\ ByFields(add, p))
    <3>1. ByFields(add, p) => ByFields(c, p)
      BY <1>1, <1>2, ByFieldsIs, Zenon
    <3> QED
      BY <1>2, <1>3, <3>1, KeptIsNoNull, Zenon
  <2>2. p \in DOMAIN l /\ l[p] = c[p]
    BY <1>2, <1>3, <2>1, MergePatchIs, Zenon
  <2>3. ASSUME c[p] = Arr, NEW q \in DOMAIN l, IsPrefix(p, q), q \notin DOMAIN add PROVE FALSE
    <3>1. p \in Prefixes(q)
      BY <1>1, <2>3, PrefixesAre, Zenon DEF AllPaths
    <3>2. add[p] = Obj
      BY <1>3, <2>3, <3>1, MergePatchIs
    <3> QED
      BY <1>2, <1>3, <2>3, <3>2, LabelsDiffer
  <2> QED
    BY <1>2, <2>2, <2>3, Zenon DEF Applied
<1>4. CASE p = <<>>
  <2>1. p \in DOMAIN Additions(f, c)
    <3>1. \A t \in Prefixes(p) : t = <<>>
      BY <1>1, <1>4, PrefixesAre, RootIs, PrefixOrder, Zenon
    <3>2. <<>> \notin Same(f, c)
      BY DEF Same
    <3> QED
      BY <1>1, <1>4, <3>1, <3>2, AdditionsAre
  <2>2. p \in DOMAIN add
    BY <1>4, <2>1, DropNullsIs, Zenon
  <2> QED
    BY <1>3, <2>2
<1>5. CASE p # <<>>
  <2>1. PICK s \in Solid(c) : IsPath(s) /\ (IsPrefix(s, p) \/ IsPrefix(p, s))
    BY <1>5, KeptIsSolid, Zenon
  <2>2. CASE Prefixes(s) \cap Same(f, c) = {}
    <3>1. p \in DOMAIN add
      BY <1>1, <2>1, <2>2, SolidIsAdded, Zenon
    <3> QED
      BY <1>3, <3>1
  <2>3. ASSUME NEW r \in Prefixes(s) \cap Same(f, c) PROVE Applied(l, c, p)
    <3>1. IsPath(r) /\ IsPrefix(r, s)
      BY <2>1, <2>3, PrefixesAre
    <3>2. IsPrefix(p, r) \/ IsPrefix(r, p)
      BY <1>1, <2>1, <3>1, PrefixOrder, Zenon
    <3> QED
      BY <1>1, <2>3, <3>2, SameIsApplied
  <2> QED
    BY <2>2, <2>3
<1> QED
  BY <1>4, <1>5

-------------------------------------------------------------------------------
(* What is not metadata *)

\* A path to a field, and one to a field of a field.
LEMMA KeysArePaths ==
    ASSUME NEW a, NEW b
    PROVE  /\ IsPath(<<a>>) /\ IsPath(<<a, b>>)
           /\ Len(<<a>>) = 1 /\ Len(<<a, b>>) = 2
           /\ IsPrefix(<<a>>, <<a, b>>)
<1> DEFINE S == {a, b}
           p == <<a>>
           q == <<a, b>>
<1>1. p \in Seq(S) /\ q \in Seq(S) /\ Len(p) = 1 /\ Len(q) = 2 /\ p[1] = q[1]
  OBVIOUS
<1> HIDE DEF S, p, q
<1>2. IsPath(p) /\ IsPath(q)
  BY <1>1, SequencesArePaths, Zenon
<1>3. IsPrefix(p, q)
  BY <1>1, <1>2, PrefixIs
<1> QED
  BY <1>1, <1>2, <1>3 DEF p, q

OfMetadata(p) == IsPrefix(<<"metadata">>, p)

\* Paths that are metadata themselves.
Metadata(paths) == \A n \in paths : IsPath(n) /\ OfMetadata(n)

LEMMA BesidesMetadata ==
    ASSUME NEW c, AllPaths(c), NEW paths, Metadata(paths), NEW p \in DOMAIN c, ~OfMetadata(p)
    PROVE  p \in DOMAIN Without(c, paths) /\ Without(c, paths)[p] = c[p]
<1>1. IsPath(p) /\ IsPath(<<"metadata">>)
  BY KeysArePaths, Zenon DEF AllPaths
<1>2. ASSUME NEW n \in Prefixes(p), n \in paths PROVE FALSE
  BY <1>1, <1>2, PrefixesAre, PrefixOrder, Zenon DEF Metadata, OfMetadata
<1>3. Prefixes(p) \cap paths = {}
  BY <1>2
<1> QED
  BY <1>3, WithoutIs

\* Leaving out metadata leaves out nothing else of what is kept without nulls.
LEMMA KeptBesidesMetadata ==
    ASSUME NEW c, AllPaths(c), NEW paths, Metadata(paths),
           <<>> \in DOMAIN c, NEW p \in DOMAIN DropNulls(c), ~OfMetadata(p)
    PROVE  p \in DOMAIN DropNulls(Without(c, paths))
<1> DEFINE d == Without(c, paths)
           m == <<"metadata">>
<1>1. p \in DOMAIN c /\ IsPath(p) /\ IsPath(m) /\ Len(m) = 1
  BY DropNullsIs, KeysArePaths, Zenon DEF AllPaths
<1>2. p \in DOMAIN d
  BY <1>1, BesidesMetadata, Zenon
<1> HIDE DEF m
<1>3. ASSUME p # <<>> PROVE \E s \in Solid(d) : IsPrefix(p, s) \/ IsPrefix(s, p)
  <2>1. PICK s \in Solid(c) : IsPath(s) /\ (IsPrefix(s, p) \/ IsPrefix(p, s))
    BY <1>3, KeptIsSolid, Zenon
  <2>2. s \in DOMAIN c /\ ByFields(c, s) /\ c[s] # Nil
    BY SolidIs, Zenon
  <2>3. ~OfMetadata(s)
    <3>1. SUFFICES ASSUME IsPrefix(m, s) PROVE FALSE
      BY DEF OfMetadata, m
    <3>2. ~IsPrefix(m, p)
      BY DEF OfMetadata, m
    <3>3. ~IsPrefix(s, p)
      BY <1>1, <2>1, <3>1, <3>2, PrefixOrder, Zenon
    <3>4. IsPrefix(p, m) /\ p # m
      BY <1>1, <2>1, <3>1, <3>2, <3>3, PrefixOrder, Zenon
    <3>5. Len(p) < 1
      BY <1>1, <3>4, PrefixOrder
    <3> QED
      BY <1>1, <1>3, <3>5, PathIs, RootIs
  <2>4. s \in DOMAIN d /\ d[s] = c[s]
    BY <2>2, <2>3, BesidesMetadata, Zenon
  <2>5. ByFields(d, s)
    <3>1. SUFFICES ASSUME NEW q, IsPath(q), IsPrefix(q, s), q # s PROVE q \in DOMAIN d /\ d[q] = Obj
      BY <2>1, ByFieldsIs, Zenon
    <3>2. q \in DOMAIN c /\ c[q] = Obj
      BY <2>1, <2>2, <3>1, ByFieldsIs, Zenon
    <3>3. ~OfMetadata(q)
      BY <1>1, <2>1, <2>3, <3>1, PrefixOrder, Zenon DEF OfMetadata, m
    <3> QED
      BY <3>2, <3>3, BesidesMetadata, Zenon
  <2>6. ASSUME d[s] = Obj, NEW q \in DOMAIN d, IsPrefix(s, q) PROVE q = s
    <3>1. q \in DOMAIN c
      BY WithoutIs
    <3> QED
      BY <2>4, <2>6, <3>1, SolidIs
  <2>7. s \in Solid(d)
    BY <2>2, <2>4, <2>5, <2>6, SolidIs, Zenon
  <2> QED
    BY <2>1, <2>7
<1> QED
  BY <1>2, <1>3, DropNullsIs, Zenon

-------------------------------------------------------------------------------
(* The diff *)

LEMMA NoDefaults ==
    ASSUME NEW doc, doc = [p \in DOMAIN doc |-> doc[p]]
    PROVE  DefaultItems(doc, NoFields) = doc
<1> DEFINE items == {i \in Keys(Sub(doc, "list")) :
                        doc[<<"list">>] = Arr /\ doc[<<"list", i>>] = Obj}
           Of(i) == UNION {{<<"list", i, k>> \o q : q \in DOMAIN NoFields[k]} :
                            k \in {k \in DOMAIN NoFields : <<"list", i, k>> \notin DOMAIN doc}}
           added == UNION {Of(i) : i \in items}
<1>1. DefaultItems(doc, NoFields) =
        [p \in DOMAIN doc \union added |->
            IF p \in DOMAIN doc THEN doc[p] ELSE NoFields[p[3]][SubSeq(p, 4, Len(p))]]
  BY DEF DefaultItems
<1>2. ASSUME NEW i PROVE Of(i) = {}
  BY DEF NoFields
<1> HIDE DEF Of, items
<1>3. added = {}
  BY <1>2
<1> HIDE DEF added
<1>4. DefaultItems(doc, NoFields) = [p \in DOMAIN doc |-> doc[p]]
  BY <1>1, <1>3
<1> QED
  BY <1>4

\* diff.Scheme registers no function that fills in defaults.
NoSchemeDefaulting == SchemeDefaults = NoFields

LEMMA SchemeDefaultsNothing ==
    ASSUME NoSchemeDefaulting, NEW k, NEW doc, doc = [p \in DOMAIN doc |-> doc[p]]
    PROVE  SchemeDefaulted(k, doc) = doc
BY NoDefaults, Zenon DEF SchemeDefaulted, NoSchemeDefaulting

LEMMA MergePatchIsFunction ==
    ASSUME NEW doc, NEW patch
    PROVE  MergePatch(doc, patch) = [p \in DOMAIN MergePatch(doc, patch) |-> MergePatch(doc, patch)[p]]
BY Zenon DEF MergePatch

\* An unmodified object is what a merge patch leaves, one of what its kept
\* fields lack of the configuration.
LEMMA UnmodifiedIsPatched ==
    ASSUME NoSchemeDefaulting, NEW k, NEW orig, NEW conf, NEW l,
           AllPaths(l), l = [p \in DOMAIN l |-> l[p]], ~ThreeWayDiff(k, orig, conf, l)
    PROVE  \E f, x, add :
            /\ OnlyRemoves(f, l) /\ MergePatch(x, add) = l
            /\ LET c == RemoveNamespaceAnnotation(conf)
               IN  /\ add \in {Additions(f, c), DropNulls(Additions(f, c))}
                   /\ k \in Registered \ {"StatefulSet"} => add = Additions(l, c)
<1> DEFINE o == RemoveNamespaceAnnotation(orig)
           c == RemoveNamespaceAnnotation(conf)
           patch == ThreeWayPatch(k, o, c, l)
           x == MergePatch(l, patch.del)
           y == MergePatch(x, patch.add)
<1>1. PredictedLive(k, l, patch) = SchemeDefaulted(k, l)
  BY Zenon DEF ThreeWayDiff
<1>2. PredictedLive(k, l, patch) = SchemeDefaulted(k, y)
  BY Zenon DEF PredictedLive
<1>3. SchemeDefaulted(k, y) = y /\ SchemeDefaulted(k, l) = l
  <2> HIDE DEF x, patch
  <2>1. y = [p \in DOMAIN y |-> y[p]]
    BY MergePatchIsFunction, Zenon
  <2> HIDE DEF y
  <2> QED
    BY <2>1, SchemeDefaultsNothing, Zenon
<1>4. MergePatch(x, patch.add) = l
  BY <1>1, <1>2, <1>3
<1>5. OnlyRemoves(l, l)
  BY DEF OnlyRemoves
<1>6. CASE k \notin Registered
  <2> DEFINE f == RemoveFields(o, l)
  <2>1. patch.add = DropNulls(Additions(f, c))
    BY <1>6 DEF ThreeWayPatch
  <2>2. OnlyRemoves(f, l)
    BY RemovingFieldsKeepsItems, Zenon DEF RemoveFields
  <2> HIDE DEF f, x, patch
  <2> QED
    BY <1>4, <1>6, <2>1, <2>2, Zenon
<1>7. CASE k \in Registered /\ k # "StatefulSet"
  <2>1. patch.add = Additions(l, c)
    BY <1>7 DEF ThreeWayPatch
  <2> HIDE DEF x, patch
  <2> QED
    BY <1>4, <1>5, <2>1, Zenon
<1>8. CASE k \in Registered /\ k = "StatefulSet"
  <2> DEFINE f == StatefulSetWorkaround(o, l)
  <2>1. patch.add = Additions(f, c)
    BY <1>8 DEF ThreeWayPatch
  <2>2. OnlyRemoves(f, l)
    <3> DEFINE R == {p \in Removed(o, l) : IsPrefix(<<"list">>, p)}
    <3>1. f = l \/ f = Without(l, R)
      BY Zenon DEF StatefulSetWorkaround
    <3>2. OnlyRemoves(Without(l, R), l)
      BY RemovingFieldsKeepsItems, Zenon
    <3> HIDE DEF f
    <3> QED
      BY <1>5, <3>1, <3>2
  <2> HIDE DEF f, x, patch
  <2> QED
    BY <1>4, <1>8, <2>1, <2>2, Zenon
<1> QED
  BY <1>6, <1>7, <1>8

\* A document's paths and its root.
Tree(v) == AllPaths(v) /\ <<>> \in DOMAIN v /\ v[<<>>] = Obj

LEMMA WithoutMetadata ==
    ASSUME NEW v, Tree(v), NEW paths, Metadata(paths)
    PROVE  Tree(Without(v, paths))
<1>1. ~OfMetadata(<<>>)
  <2>1. IsPath(<<"metadata">>) /\ Len(<<"metadata">>) = 1 /\ IsPath(<<>>) /\ Len(<<>>) = 0
    BY KeysArePaths, RootIs
  <2> QED
    BY <2>1, PrefixIs DEF OfMetadata
<1>2. AllPaths(Without(v, paths))
  BY WithoutIs, Zenon DEF AllPaths, Tree
<1> QED
  BY <1>1, <1>2, BesidesMetadata, Zenon DEF Tree

LEMMA AnnotationsAreMetadata ==
    ASSUME NEW doc
    PROVE  \E paths : Metadata(paths) /\ RemoveNamespaceAnnotation(doc) = Without(doc, paths)
<1> DEFINE annotations == <<"metadata", "annotations">>
           empty == annotations \in DOMAIN doc /\ At(doc, annotations) \in {Null, Map(NoFields)}
           paths == {<<"metadata", "namespace">>} \union (IF empty THEN {annotations} ELSE {})
<1>1. RemoveNamespaceAnnotation(doc) = Without(doc, paths)
  BY Zenon DEF RemoveNamespaceAnnotation
<1>2. \A n \in paths : n = <<"metadata", "namespace">> \/ n = <<"metadata", "annotations">>
  OBVIOUS
<1> HIDE DEF paths
<1>3. Metadata(paths)
  BY <1>2, KeysArePaths, Zenon DEF Metadata, OfMetadata
<1> QED
  BY <1>1, <1>3

\* An unmodified object has what is asked for, but for the metadata.
LEMMA UnmodifiedIsApplied ==
    ASSUME NoSchemeDefaulting, NEW k, NEW orig, NEW c, NEW l, Tree(c), AllPaths(l),
           l = [p \in DOMAIN l |-> l[p]], ~ThreeWayDiff(k, orig, c, l),
           NEW p \in DOMAIN DropNulls(c), ~OfMetadata(p)
    PROVE  Applied(l, c, p)
<1>1. PICK f, x, add :
        /\ OnlyRemoves(f, l) /\ MergePatch(x, add) = l
        /\ LET d == RemoveNamespaceAnnotation(c)
           IN  /\ add \in {Additions(f, d), DropNulls(Additions(f, d))}
               /\ k \in Registered \ {"StatefulSet"} => add = Additions(l, d)
  BY UnmodifiedIsPatched
<1>2. PICK d : d = RemoveNamespaceAnnotation(c)
  OBVIOUS
<1>3. PICK paths : Metadata(paths) /\ d = Without(c, paths)
  BY <1>2, AnnotationsAreMetadata
<1>4. /\ Tree(d) /\ p \in DOMAIN DropNulls(d)
      /\ \A q \in DOMAIN d : q \in DOMAIN c /\ d[q] = c[q]
  <2>1. Tree(Without(c, paths))
    BY <1>3, WithoutMetadata
  <2>2. p \in DOMAIN DropNulls(Without(c, paths))
    BY <1>3, KeptBesidesMetadata, Zenon DEF Tree
  <2>3. \A q \in DOMAIN Without(c, paths) : q \in DOMAIN c /\ Without(c, paths)[q] = c[q]
    BY InWithout
  <2> QED
    BY <1>3, <2>1, <2>2, <2>3
<1>5. Applied(l, d, p)
  BY <1>1, <1>2, <1>4, NothingToAdd DEF Tree
<1>6. p \in DOMAIN d
  BY <1>4, DropNullsIs
<1> QED
  BY <1>4, <1>5, <1>6, Zenon DEF Applied

-------------------------------------------------------------------------------
(* Normalized documents *)

LEMMA ConcatIsPath ==
    ASSUME NEW p, NEW q, IsPath(p), IsPath(q)
    PROVE  /\ IsPath(p \o q) /\ Len(p \o q) = Len(p) + Len(q) /\ IsPrefix(p, p \o q)
           /\ \A i \in 1..Len(p) : (p \o q)[i] = p[i]
<1> DEFINE S == {p[i] : i \in 1..Len(p)} \union {q[i] : i \in 1..Len(q)}
<1>1. p \in Seq(S) /\ q \in Seq(S)
  <2>1. (\A i \in 1..Len(p) : p[i] \in S) /\ (\A i \in 1..Len(q) : q[i] \in S)
    OBVIOUS
  <2> QED
    BY <2>1, PathIs, Zenon
<1> HIDE DEF S
<1> DEFINE r == p \o q
<1>2. r \in Seq(S) /\ Len(r) = Len(p) + Len(q) /\ \A i \in 1..Len(p) : r[i] = p[i]
  <2>1. \A i \in 1..(Len(p) + Len(q)) : r[i] = IF i <= Len(p) THEN p[i] ELSE q[i - Len(p)]
    BY <1>1, ConcatProperties
  <2> QED
    BY <1>1, <2>1, ConcatProperties
<1> HIDE DEF r
<1>3. IsPath(r)
  BY <1>2, SequencesArePaths, Zenon
<1>4. IsPrefix(p, r)
  <2>1. Len(p) \in Nat /\ Len(q) \in Nat
    BY PathIs, Zenon
  <2> QED
    BY <1>2, <1>3, <2>1, PrefixIs
<1> QED
  BY <1>2, <1>3, <1>4 DEF r

LEMMA RestIsPath ==
    ASSUME NEW p, IsPath(p)
    PROVE  /\ p # <<>> => IsPath(Tail(p))
           /\ \A m \in Nat \ {0} : IsPath(SubSeq(p, m, Len(p)))
<1> DEFINE S == {p[i] : i \in 1..Len(p)}
           n == Len(p)
<1>1. p \in Seq(S) /\ n \in Nat
  <2>1. \A i \in 1..Len(p) : p[i] \in S
    OBVIOUS
  <2> QED
    BY <2>1, PathIs, Zenon
<1>2. p # <<>> => IsPath(Tail(p))
  <2> HIDE DEF S
  <2> QED
    BY <1>1, HeadTailProperties, SequencesArePaths
<1>3. ASSUME NEW m \in Nat \ {0} PROVE IsPath(SubSeq(p, m, n))
  <2>1. \A i \in m..n : p[i] \in S
    <3>1. \A i \in m..n : i \in 1..n
      BY <1>1
    <3> QED
      BY <3>1
  <2> HIDE DEF S, n
  <2>2. SubSeq(p, m, n) \in Seq(S)
    BY <1>1, <2>1, SubSeqProperties
  <2> QED
    BY <2>2, SequencesArePaths, Zenon
<1> QED
  BY <1>2, <1>3

\* A document with its paths alone, as TLA+ functions are.
IsFunction(v) == v = [p \in DOMAIN v |-> v[p]]

\* No text of a Secret is left that is not in its data.
NoStrings(v) == \A p \in DOMAIN v : IsPrefix(<<"stringData">>, p) => Len(p) < 2

LEMMA DataIsNotStrings ==
    ASSUME NEW p, IsPath(p), IsPrefix(<<"data">>, p) \/ IsPrefix(<<"list">>, p) \/ OfMetadata(p)
    PROVE  ~IsPrefix(<<"stringData">>, p) /\ p # <<>>
<1>1. \A a : IsPath(<<a>>) /\ Len(<<a>>) = 1
  BY KeysArePaths, Zenon
<1>2. \A a : IsPrefix(<<a>>, p) => Len(p) >= 1 /\ p[1] = a
  <2> TAKE a
  <2> DEFINE m == <<a>>
  <2>1. IsPath(m) /\ Len(m) = 1 /\ m[1] = a
    BY <1>1
  <2> HIDE DEF m
  <2>2. IsPrefix(m, p) => Len(p) >= 1 /\ p[1] = m[1]
    BY <2>1, PrefixIs
  <2> QED
    BY <2>1, <2>2 DEF m
<1>3. p # <<>>
  BY <1>2, RootIs DEF OfMetadata
<1> QED
  BY <1>2, <1>3 DEF OfMetadata

LEMMA SecretIs ==
    ASSUME NEW v, AllPaths(v)
    PROVE  /\ AllPaths(NormalizeSecret(v)) /\ NoStrings(NormalizeSecret(v))
           /\ IsFunction(NormalizeSecret(v))
           /\ Tree(v) => Tree(NormalizeSecret(v))
<1> DEFINE isNull(p) == IsPrefix(<<"data">>, p) /\ Len(p) = 2 /\ v[p] = Nil /\ ByFields(v, p)
           plain   == [p \in DOMAIN v |-> IF isNull(p) THEN <<"string", "">> ELSE v[p]]
           strings == {p \in DOMAIN v : IsPrefix(<<"stringData">>, p) /\ Len(p) > 1}
           data    == {<<"data">> \o Tail(p) : p \in strings}
           rest    == data \union {<<"stringData">>}
           others  == DOMAIN Without(v, rest)
           both    == [p \in data \union {<<"data">>} \union others |->
                        IF p \in data THEN v[<<"stringData">> \o Tail(p)]
                        ELSE IF p = <<"data">> THEN Obj ELSE plain[p]]
           n == NormalizeSecret(v)
<1>1. n = IF strings = {} THEN plain ELSE both
  BY Zenon DEF NormalizeSecret
<1>2. Tree(v) => plain[<<>>] = Obj
  <2>1. ~isNull(<<>>)
    BY RootIs
  <2> HIDE DEF isNull
  <2> QED
    BY <2>1 DEF Tree
<1>3. \A p \in DOMAIN v : p \notin strings /\ IsPrefix(<<"stringData">>, p) => Len(p) < 2
  <2>1. \A p \in DOMAIN v : Len(p) \in Nat
    BY PathIs DEF AllPaths
  <2> QED
    BY <2>1
<1>4. \A p \in data : IsPath(p) /\ IsPrefix(<<"data">>, p)
  <2>1. ASSUME NEW p \in strings PROVE IsPath(<<"data">> \o Tail(p)) /\ IsPrefix(<<"data">>, <<"data">> \o Tail(p))
    <3>1. IsPath(p) /\ p # <<>>
      BY PathIs, RootIs DEF AllPaths
    <3>2. IsPath(Tail(p)) /\ IsPath(<<"data">>)
      BY <3>1, RestIsPath, KeysArePaths, Zenon
    <3> QED
      BY <3>2, ConcatIsPath, Zenon
  <2> HIDE DEF strings
  <2> QED
    BY <2>1
<1>5. IsPath(<<"data">>) /\ IsPrefix(<<"data">>, <<"data">>)
  BY KeysArePaths, PrefixOrder, Zenon
<1>6. \A p : p \in others <=> p \in DOMAIN v /\ Prefixes(p) \cap rest = {}
  <2> HIDE DEF rest
  <2> QED
    BY InWithout
<1>7. \A p \in others : IsPath(p) /\ ~IsPrefix(<<"stringData">>, p)
  <2> TAKE p \in others
  <2>1. IsPath(p) /\ Prefixes(p) \cap rest = {}
    BY <1>6 DEF AllPaths
  <2>2. <<"stringData">> \notin Prefixes(p)
    BY <2>1
  <2> QED
    BY <2>1, <2>2, PrefixesAre, KeysArePaths, Zenon
<1>8. Tree(v) => <<>> \in others
  <2>1. \A t \in Prefixes(<<>>) : t = <<>>
    BY PrefixesAre, RootIs, PrefixOrder, Zenon
  <2>2. <<>> \notin data
    BY <1>4, DataIsNotStrings, Zenon
  <2>3. <<>> \notin rest
    BY <2>2
  <2> HIDE DEF rest, others
  <2> QED
    BY <1>6, <2>1, <2>3 DEF Tree
<1>9. <<>> # <<"data">> /\ <<>> \notin data
  BY <1>4, DataIsNotStrings, Zenon
<1>10. CASE strings = {}
  <2>1. n = plain
    BY <1>1, <1>10
  <2> HIDE DEF n, strings, isNull
  <2>2. DOMAIN n = DOMAIN v /\ IsFunction(n)
    BY <2>1 DEF IsFunction
  <2>3. AllPaths(n) /\ NoStrings(n)
    BY <1>3, <1>10, <2>2 DEF AllPaths, NoStrings
  <2>4. Tree(v) => Tree(n)
    BY <1>2, <2>1, <2>2, <2>3 DEF Tree
  <2> QED
    BY <2>2, <2>3, <2>4 DEF n
<1>11. CASE strings # {}
  <2>1. n = both
    BY <1>1, <1>11
  <2> HIDE DEF n, strings, isNull, data, others, plain
  <2>2. DOMAIN n = data \union {<<"data">>} \union others /\ IsFunction(n)
    BY <2>1 DEF IsFunction
  <2>3. \A p \in DOMAIN n : IsPath(p) /\ (~IsPrefix(<<"stringData">>, p))
    BY <1>4, <1>5, <1>7, <2>2, DataIsNotStrings
  <2>4. Tree(v) => n[<<>>] = Obj /\ <<>> \in DOMAIN n
    BY <1>2, <1>8, <1>9, <2>1, <2>2
  <2> QED
    BY <2>2, <2>3, <2>4 DEF n, AllPaths, Tree, NoStrings
<1> QED
  BY <1>10, <1>11

LEMMA EndpointIs ==
    ASSUME NEW v, Tree(v)
    PROVE  Tree(NormalizeEndpoint(v)) /\ IsFunction(NormalizeEndpoint(v))
<1> DEFINE subsets  == Items(Sub(v, "list"))
           moved(p) == IF IsPrefix(<<"list">>, p) /\ Len(p) > 1
                       THEN <<"list", SortSubsets(subsets, p[2])>> \o SubSeq(p, 3, Len(p)) ELSE p
           from(p)  == {q \in DOMAIN v : moved(q) = p}
           D == {moved(q) : q \in DOMAIN v}
           n == NormalizeEndpoint(v)
<1>1. n = [p \in D |-> v[CHOOSE q \in from(p) : TRUE]]
  BY Zenon DEF NormalizeEndpoint
<1>2. ASSUME NEW q \in DOMAIN v PROVE IsPath(moved(q)) /\ (moved(q) = <<>> => q = <<>>)
  <2>1. IsPath(q)
    BY DEF Tree, AllPaths
  <2>2. CASE IsPrefix(<<"list">>, q) /\ Len(q) > 1
    <3> DEFINE h == <<"list", SortSubsets(subsets, q[2])>>
               t == SubSeq(q, 3, Len(q))
    <3>1. IsPath(h) /\ Len(h) = 2
      BY KeysArePaths, Zenon
    <3>2. IsPath(t)
      BY <2>1, RestIsPath
    <3>3. moved(q) = h \o t
      BY <2>2
    <3> HIDE DEF h, t, moved
    <3> DEFINE r == h \o t
    <3>4. IsPath(r) /\ Len(r) = Len(h) + Len(t) /\ Len(t) \in Nat
      BY <3>1, <3>2, ConcatIsPath, PathIs, Zenon
    <3>5. moved(q) = r
      BY <3>3
    <3> HIDE DEF r
    <3>6. Len(r) # 0
      BY <3>1, <3>4
    <3> QED
      BY <3>4, <3>5, <3>6, RootIs
  <2>3. CASE ~(IsPrefix(<<"list">>, q) /\ Len(q) > 1)
    BY <2>1, <2>3
  <2> QED
    BY <2>2, <2>3
<1>3. moved(<<>>) = <<>>
  BY RootIs
<1> HIDE DEF moved
<1>4. from(<<>>) = {<<>>}
  BY <1>2, <1>3 DEF Tree
<1>5. <<>> \in D
  BY <1>3 DEF Tree
<1>6. (CHOOSE q \in from(<<>>) : TRUE) = <<>>
  <2> HIDE DEF from
  <2> QED
    BY <1>4
<1> HIDE DEF n, from
<1>7. DOMAIN n = D /\ IsFunction(n)
  BY <1>1 DEF IsFunction
<1>8. n[<<>>] = Obj
  BY <1>1, <1>5, <1>6 DEF Tree
<1>9. AllPaths(n)
  BY <1>2, <1>7 DEF AllPaths
<1> QED
  BY <1>5, <1>7, <1>8, <1>9 DEF n, Tree

LEMMA RoleIs ==
    ASSUME NEW v, Tree(v), IsFunction(v)
    PROVE  Tree(NormalizeRole(v)) /\ IsFunction(NormalizeRole(v))
<1> DEFINE r == [v EXCEPT ![<<"list">>] = Nil]
           p == <<"list">>
<1>1. NormalizeRole(v) = r \/ NormalizeRole(v) = v
  BY Zenon DEF NormalizeRole
<1>2. p # <<>>
  BY KeysArePaths, RootIs, Zenon
<1>3. r = [q \in DOMAIN v |-> IF q = p THEN Nil ELSE v[q]]
  BY Zenon
<1> HIDE DEF r, p
<1>4. Tree(r) /\ IsFunction(r)
  BY <1>2, <1>3 DEF Tree, IsFunction, AllPaths
<1> QED
  BY <1>1, <1>4

LEMMA RemarshalIs ==
    ASSUME NEW k, NEW v, Tree(v)
    PROVE  /\ Tree(Remarshal(k, v))
           /\ IsFunction(v) => IsFunction(Remarshal(k, v))
           /\ \A p \in DOMAIN Remarshal(k, v) : p \in DOMAIN v /\ Remarshal(k, v)[p] = v[p]
           /\ \A p \in DOMAIN v : (p # <<>> /\ v[p] = Nil /\ ByFields(v, p)) \/ p \in DOMAIN Remarshal(k, v)
<1> DEFINE datum(p) == IsPrefix(<<"data">>, p) /\ Len(p) > 1
           D == DOMAIN Pruned(v) \union {q \in DOMAIN v : datum(q)}
           r == Remarshal(k, v)
<1>1. r = v \/ r = [p \in D |-> v[p]]
  BY Zenon DEF Remarshal
<1>2. DOMAIN Pruned(v) = {q \in DOMAIN v : q = <<>> \/ ~(v[q] = Nil /\ ByFields(v, q))}
  BY Zenon DEF Pruned
<1> HIDE DEF r, datum
<1>3. D \subseteq DOMAIN v /\ <<>> \in D
  BY <1>2 DEF Tree
<1>4. \A p \in DOMAIN v : (p # <<>> /\ v[p] = Nil /\ ByFields(v, p)) \/ p \in D
  BY <1>2
<1> HIDE DEF D
<1>5. /\ IsFunction(v) => IsFunction(r)
      /\ \A p \in DOMAIN r : p \in DOMAIN v /\ r[p] = v[p]
  BY <1>1, <1>3 DEF IsFunction
<1>6. <<>> \in DOMAIN r /\ \A p \in DOMAIN v : (p # <<>> /\ v[p] = Nil /\ ByFields(v, p)) \/ p \in DOMAIN r
  BY <1>1, <1>3, <1>4 DEF Tree
<1>7. Tree(r)
  BY <1>5, <1>6 DEF Tree, AllPaths
<1> QED
  BY <1>5, <1>6, <1>7 DEF r

Created == {<<"metadata", "creationTimestamp">>}

LEMMA NormalizeIs ==
    ASSUME NEW k, NEW v, Tree(v)
    PROVE  /\ Tree(Normalize(k, v)) /\ IsFunction(Normalize(k, v))
           /\ Metadata(Created)
           /\ Tree(Without(v, Created)) /\ IsFunction(Without(v, Created))
<1> DEFINE plain == Without(v, Created)
<1>1. Metadata(Created)
  BY KeysArePaths, Zenon DEF Metadata, OfMetadata, Created
<1>2. Tree(plain) /\ IsFunction(plain)
  <2>1. IsFunction(plain)
    BY Zenon DEF IsFunction, Without
  <2> QED
    BY <1>1, <2>1, WithoutMetadata
<1>3. Normalize(k, v) \in {NormalizeSecret(plain), NormalizeEndpoint(plain), NormalizeRole(plain), plain}
  BY DEF Normalize, Created
<1> HIDE DEF plain
<1>4. Tree(Normalize(k, v)) /\ IsFunction(Normalize(k, v))
  BY <1>2, <1>3, SecretIs, EndpointIs, RoleIs DEF Tree
<1> QED
  BY <1>1, <1>2, <1>4 DEF plain

-------------------------------------------------------------------------------
(* A document as the API server stores it *)

NoNulls(v) == \A p \in DOMAIN v \ {<<>>} : v[p] = Nil => ~ByFields(v, p)

\* It has no nulls in its maps, and of a Secret no strings.
Clean(k, doc) == Tree(doc) /\ IsFunction(doc) /\ NoNulls(doc) /\ (k = "Secret" => NoStrings(doc))

LEMMA SameFunction ==
    ASSUME NEW f, NEW g, IsFunction(f), IsFunction(g), DOMAIN f = DOMAIN g, \A p \in DOMAIN f : f[p] = g[p]
    PROVE  f = g
BY DEF IsFunction

LEMMA WithoutKeeps ==
    ASSUME NEW v, NEW paths, Tree(v)
    PROVE  /\ NoNulls(v) => NoNulls(Without(v, paths))
           /\ NoStrings(v) => NoStrings(Without(v, paths))
<1> DEFINE w == Without(v, paths)
<1>1. \A p : p \in DOMAIN w => p \in DOMAIN v /\ w[p] = v[p]
  BY InWithout
<1> HIDE DEF w
<1>2. ASSUME NEW p \in DOMAIN w, ByFields(w, p) PROVE ByFields(v, p)
  <2>1. IsPath(p)
    BY <1>1 DEF Tree, AllPaths
  <2> QED
    BY <1>1, <1>2, <2>1, ByFieldsIs
<1> QED
  BY <1>1, <1>2 DEF w, NoNulls, NoStrings

LEMMA SecretStays ==
    ASSUME NEW v, Tree(v), IsFunction(v), NoNulls(v), NoStrings(v)
    PROVE  NormalizeSecret(v) = v
<1> DEFINE isNull(p) == IsPrefix(<<"data">>, p) /\ Len(p) = 2 /\ v[p] = Nil /\ ByFields(v, p)
           plain   == [p \in DOMAIN v |-> IF isNull(p) THEN <<"string", "">> ELSE v[p]]
           strings == {p \in DOMAIN v : IsPrefix(<<"stringData">>, p) /\ Len(p) > 1}
<1>1. strings = {}
  <2>1. \A p \in DOMAIN v : Len(p) \in Nat
    BY PathIs DEF Tree, AllPaths
  <2> QED
    BY <2>1 DEF NoStrings
<1>2. NormalizeSecret(v) = plain
  BY <1>1, Zenon DEF NormalizeSecret
<1>3. \A p \in DOMAIN v : ~isNull(p)
  <2>1. Len(<<>>) = 0
    BY RootIs
  <2> QED
    BY <2>1 DEF NoNulls
<1> HIDE DEF isNull
<1> QED
  BY <1>2, <1>3 DEF IsFunction

LEMMA CleanIsNormal ==
    ASSUME NEW k, NEW doc, Clean(k, doc)
    PROVE  /\ Remarshal(k, doc) = doc
           /\ k \notin {"Endpoints", "Role"} => Normalize(k, doc) = Without(doc, Created)
           /\ k = "Role" => Normalize(k, doc) = NormalizeRole(Without(doc, Created))
<1> DEFINE w == Without(doc, Created)
<1>1. Remarshal(k, doc) = doc
  <2> DEFINE r == Remarshal(k, doc)
  <2>1. /\ IsFunction(r)
        /\ \A p \in DOMAIN r : p \in DOMAIN doc /\ r[p] = doc[p]
        /\ \A p \in DOMAIN doc : (p # <<>> /\ doc[p] = Nil /\ ByFields(doc, p)) \/ p \in DOMAIN r
    BY RemarshalIs, Zenon DEF Clean
  <2> HIDE DEF r
  <2>2. DOMAIN r = DOMAIN doc
    BY <2>1 DEF Clean, NoNulls
  <2>3. r = doc
    BY <2>1, <2>2, SameFunction DEF Clean
  <2> QED
    BY <2>3 DEF r
<1>2. Tree(w) /\ IsFunction(w) /\ NoNulls(w) /\ (k = "Secret" => NoStrings(w))
  BY NormalizeIs, WithoutKeeps, Zenon DEF Clean
<1>3. k = "Secret" => NormalizeSecret(w) = w
  <2> HIDE DEF w
  <2> QED
    BY <1>2, SecretStays
<1>4. /\ k = "Secret" => Normalize(k, doc) = NormalizeSecret(w)
      /\ k = "Role" => Normalize(k, doc) = NormalizeRole(w)
      /\ k \notin {"Secret", "Endpoints", "Role"} => Normalize(k, doc) = w
  BY DEF Normalize, Created
<1> HIDE DEF w
<1>5. k \notin {"Endpoints", "Role"} => Normalize(k, doc) = w
  BY <1>3, <1>4
<1> QED
  BY <1>1, <1>4, <1>5 DEF w

\* The path to a field has the root before it alone.
LEMMA FieldIs ==
    ASSUME NEW a, NEW v, <<>> \in DOMAIN v, v[<<>>] = Obj
    PROVE  /\ ByFields(v, <<a>>)
           /\ \A t \in Prefixes(<<a>>) : t = <<>> \/ t = <<a>>
<1> DEFINE p == <<a>>
<1>1. IsPath(p) /\ Len(p) = Len(<<>>) + 1 /\ IsPath(<<>>) /\ IsPrefix(<<>>, p)
  <2>1. IsPath(p) /\ Len(p) = 1
    BY KeysArePaths, Zenon
  <2> HIDE DEF p
  <2> QED
    BY <2>1, RootIs
<1> HIDE DEF p
<1>2. ASSUME NEW t, IsPath(t), IsPrefix(t, p) PROVE t = <<>> \/ t = p
  <2>1. IsPrefix(t, <<>>) \/ t = p
    BY <1>1, <1>2, NextPath, Zenon
  <2> QED
    BY <1>1, <1>2, <2>1, RootIs, PrefixOrder, Zenon
<1>3. ByFields(v, p)
  BY <1>1, <1>2, ByFieldsIs
<1>4. \A t \in Prefixes(p) : t = <<>> \/ t = p
  BY <1>1, <1>2, PrefixesAre
<1> QED
  BY <1>3, <1>4 DEF p

LEMMA NothingAppended ==
    ASSUME NEW a
    PROVE  <<a>> \o <<>> = <<a>>
<1>1. <<a>> \in Seq({a})
  OBVIOUS
<1> QED
  BY <1>1, ConcatEmptySeq, Zenon

\* A list that has no items.
IsEmptyList(v) == /\ <<"list">> \in DOMAIN v /\ v[<<"list">>] = Arr
                  /\ \A q \in DOMAIN v : IsPrefix(<<"list">>, q) => q = <<"list">>

LEMMA EmptyListIs ==
    ASSUME NEW v, AllPaths(v)
    PROVE  Sub(v, "list") = List(<<>>) <=> IsEmptyList(v)
<1> DEFINE p == <<"list">>
           rest(r) == SubSeq(r, Len(p) + 1, Len(r))
           below == {r \in DOMAIN v : IsPrefix(p, r)}
           D == {rest(r) : r \in below}
           at == At(v, p)
           empty == [q \in {<<>>} |-> Arr]
<1>1. List(<<>>) = empty
  <2> DEFINE E == UNION {{<<k>> \o q : q \in DOMAIN <<>>[k]} : k \in DOMAIN <<>>}
  <2>1. E = {}
    OBVIOUS
  <2>2. List(<<>>) = [q \in {<<>>} \union E |-> IF q = <<>> THEN Arr ELSE <<>>[Head(q)][Tail(q)]]
    BY Zenon DEF List, Node
  <2> HIDE DEF E
  <2> QED
    BY <2>1, <2>2
<1>2. Map(NoFields) # empty
  <2>1. Map(NoFields)[<<>>] = Obj
    BY DEF Map, Node
  <2> QED
    BY <2>1, LabelsDiffer
<1>3. at = [q \in D |-> v[p \o q]]
  BY Zenon DEF At
<1>4. IsPath(p) /\ Len(p) = 1 /\ p \o <<>> = p /\ IsPrefix(p, p)
  <2>1. p \o <<>> = p
    BY NothingAppended, Zenon
  <2> QED
    BY <2>1, KeysArePaths, PrefixOrder, Zenon
<1>5. Sub(v, "list") = IF p \in DOMAIN v THEN at ELSE Map(NoFields)
  BY Zenon DEF Sub
<1> HIDE DEF p, at
<1>6. ASSUME NEW r \in below PROVE rest(r) = <<>> <=> r = p
  <2>1. IsPath(r) /\ IsPrefix(p, r)
    BY DEF AllPaths
  <2> DEFINE n == Len(r)
             m == Len(p) + 1
  <2>2. n \in Nat /\ n >= 1 /\ m = 2 /\ (n = 1 <=> r = p)
    BY <1>4, <2>1, PathIs, PrefixIs, PrefixOrder
  <2> HIDE DEF n, m
  <2>3. SubSeq(r, m, n) = [i \in 1..(n - 1) |-> r[i + 1]]
    BY <2>2
  <2>4. n = 1 => SubSeq(r, m, n) = <<>>
    BY <2>2, <2>3
  <2>5. n # 1 => SubSeq(r, m, n) # <<>>
    <3> DEFINE s == SubSeq(r, m, n)
    <3>1. DOMAIN s = 1..(n - 1) /\ DOMAIN <<>> = {}
      BY <2>3
    <3> HIDE DEF s
    <3>2. n # 1 => s # <<>>
      BY <2>2, <3>1
    <3> QED
      BY <3>2 DEF s
  <2> QED
    BY <2>2, <2>4, <2>5 DEF n, m
<1> HIDE DEF rest
<1>7. ASSUME p \in DOMAIN v, at = empty PROVE IsEmptyList(v)
  <2>1. D = {<<>>}
    BY <1>3, <1>7
  <2>2. at[<<>>] = v[p]
    BY <1>3, <1>4, <2>1
  <2>3. \A r \in below : r = p
    BY <1>6, <2>1
  <2> QED
    BY <1>7, <2>2, <2>3 DEF IsEmptyList, p
<1>8. ASSUME IsEmptyList(v) PROVE p \in DOMAIN v /\ at = empty
  <2>1. p \in DOMAIN v /\ v[p] = Arr /\ below = {p}
    BY <1>4, <1>8 DEF IsEmptyList, p
  <2>2. D = {<<>>}
    BY <1>6, <2>1
  <2> QED
    BY <1>3, <1>4, <2>1, <2>2
<1> QED
  BY <1>1, <1>2, <1>5, <1>7, <1>8

-------------------------------------------------------------------------------
(* An object called up to date *)

\* What comes after a path that is not metadata and not the root is not either.
LEMMA BelowBesides ==
    ASSUME NEW p, NEW q, IsPath(p), IsPath(q), IsPrefix(p, q), p # <<>>, ~OfMetadata(p)
    PROVE  ~OfMetadata(q)
<1> DEFINE m == <<"metadata">>
<1>1. IsPath(m) /\ Len(m) = 1
  BY KeysArePaths, Zenon
<1> HIDE DEF m
<1>2. SUFFICES ASSUME IsPrefix(m, q) PROVE FALSE
  BY DEF OfMetadata, m
<1>3. ~IsPrefix(m, p)
  BY DEF OfMetadata, m
<1>4. IsPrefix(p, m) /\ p # m
  BY <1>1, <1>2, <1>3, PrefixOrder, Zenon
<1>5. Len(p) < 1
  BY <1>1, <1>4, PrefixOrder
<1> QED
  BY <1>5, PathIs, RootIs

LEMMA ListIsNotMetadata ==
    /\ ~OfMetadata(<<"list">>)
    /\ \A q : IsPath(q) /\ IsPrefix(<<"list">>, q) => ~OfMetadata(q)
<1> DEFINE m == <<"metadata">>
           p == <<"list">>
<1>1. IsPath(m) /\ Len(m) = 1 /\ IsPath(p) /\ Len(p) = 1
  BY KeysArePaths, Zenon
<1>2. m[1] # p[1]
  OBVIOUS
<1> HIDE DEF m, p
<1>3. ~IsPrefix(m, p)
  BY <1>1, <1>2, PrefixIs
<1>4. p # <<>>
  BY <1>1, RootIs
<1>5. ~OfMetadata(p)
  BY <1>3 DEF OfMetadata, m
<1>6. \A q : IsPath(q) /\ IsPrefix(p, q) => ~OfMetadata(q)
  BY <1>1, <1>4, <1>5, BelowBesides
<1> QED
  BY <1>5, <1>6 DEF p

\* Two documents have the same besides their metadata, but for a list that is a
\* null in the one.
Alike(l, doc) ==
    /\ \A p \in DOMAIN doc : ~OfMetadata(p) => p \in DOMAIN l
    /\ \A p \in DOMAIN l : p \in DOMAIN doc /\ (l[p] = doc[p] \/ (p = <<"list">> /\ l[p] = Nil))

LEMMA NormalizedIsAlike ==
    ASSUME NEW k, NEW doc, Clean(k, doc)
    PROVE  Alike(Normalize(k, doc), IF k = "Endpoints" THEN Normalize(k, doc) ELSE doc)
<1> DEFINE w == Without(doc, Created)
           l == Normalize(k, doc)
<1>1. \A p \in DOMAIN w : p \in DOMAIN doc /\ w[p] = doc[p]
  BY InWithout
<1>2. \A p \in DOMAIN doc : ~OfMetadata(p) => p \in DOMAIN w
  <2>1. Metadata(Created) /\ AllPaths(doc)
    BY NormalizeIs DEF Clean, Tree
  <2> QED
    BY <2>1, BesidesMetadata, Zenon
<1>3. /\ k \notin {"Endpoints", "Role"} => l = w
      /\ k = "Role" => l = NormalizeRole(w)
  BY CleanIsNormal
<1>4. NormalizeRole(w) = w \/ NormalizeRole(w) = [w EXCEPT ![<<"list">>] = Nil]
  BY Zenon DEF NormalizeRole
<1> HIDE DEF w, l
<1>5. Alike(w, doc) /\ Alike([w EXCEPT ![<<"list">>] = Nil], doc) /\ Alike(l, l)
  <2> DEFINE p == <<"list">>
  <2> HIDE DEF p
  <2>1. Alike(w, doc)
    BY <1>1, <1>2, Zenon DEF Alike
  <2>2. Alike(l, l)
    BY Zenon DEF Alike
  <2> DEFINE e == [w EXCEPT ![p] = Nil]
  <2>3. DOMAIN e = DOMAIN w /\ \A q \in DOMAIN w : e[q] = w[q] \/ (q = p /\ e[q] = Nil)
    OBVIOUS
  <2> HIDE DEF e
  <2>4. \A q \in DOMAIN e : q \in DOMAIN doc /\ (e[q] = doc[q] \/ (q = p /\ e[q] = Nil))
    BY <1>1, <2>3
  <2>5. Alike(e, doc)
    BY <1>2, <2>3, <2>4, Zenon DEF Alike, p
  <2> QED
    BY <2>1, <2>2, <2>5 DEF p, e
<1>6. k # "Endpoints" => Alike(l, doc)
  BY <1>3, <1>4, <1>5
<1> QED
  BY <1>5, <1>6 DEF l

\* What the diff compares the live object with.
LEMMA AppliedIsHad ==
    ASSUME NEW c, NEW l, NEW doc, Tree(c), AllPaths(doc), Alike(l, doc),
           \A p \in DOMAIN DropNulls(c) : ~OfMetadata(p) => Applied(l, c, p)
    PROVE  Has(doc, Without(DropNulls(c), {<<"metadata">>}))
<1> DEFINE d == DropNulls(c)
           want == Without(d, {<<"metadata">>})
<1>1. \A p : p \in DOMAIN want <=> p \in DOMAIN d /\ Prefixes(p) \cap {<<"metadata">>} = {}
  BY InWithout
<1>2. \A p \in DOMAIN want : want[p] = d[p]
  BY InWithout
<1>3. \A p \in DOMAIN d : p \in DOMAIN c /\ d[p] = c[p]
  BY DropNullsIs
<1>4. \A p \in DOMAIN d : p \in DOMAIN want <=> ~OfMetadata(p)
  <2> TAKE p \in DOMAIN d
  <2>1. IsPath(p)
    BY <1>3 DEF Tree, AllPaths
  <2>2. <<"metadata">> \in Prefixes(p) <=> OfMetadata(p)
    BY <2>1, PrefixesAre, KeysArePaths, Zenon DEF OfMetadata
  <2> QED
    BY <1>1, <2>2
<1> HIDE DEF want
<1>5. SUFFICES ASSUME NEW p \in DOMAIN want
               PROVE  /\ p \in DOMAIN doc /\ doc[p] = want[p]
                      /\ want[p] = Arr => \A q \in DOMAIN doc :
                            IsPrefix(p, q) /\ Len(q) = Len(p) + 1 => q \in DOMAIN want
  BY DEF Has, want
<1>6. p \in DOMAIN d /\ ~OfMetadata(p) /\ IsPath(p) /\ want[p] = c[p] /\ p \in DOMAIN c
  BY <1>1, <1>2, <1>3, <1>4 DEF Tree, AllPaths
<1>7. Applied(l, c, p)
  BY <1>6
<1>8. p \in DOMAIN doc /\ doc[p] = want[p]
  <2>1. p \in DOMAIN l /\ l[p] = c[p]
    BY <1>7 DEF Applied
  <2>2. p \in DOMAIN doc /\ (l[p] = doc[p] \/ (p = <<"list">> /\ l[p] = Nil))
    BY <2>1 DEF Alike
  <2>3. ~(p = <<"list">> /\ c[p] = Nil)
    <3>1. p = <<"list">> => ByFields(c, p)
      BY FieldIs DEF Tree
    <3> QED
      BY <1>6, <3>1, KeptIsNoNull DEF Tree
  <2> QED
    BY <1>6, <2>1, <2>2, <2>3
<1>9. ASSUME want[p] = Arr, NEW q \in DOMAIN doc, IsPrefix(p, q), Len(q) = Len(p) + 1
      PROVE  q \in DOMAIN want
  <2>1. c[p] = Arr /\ p # <<>> /\ c[p] # Obj
    BY <1>6, <1>9, LabelsDiffer DEF Tree
  <2>2. IsPath(q) /\ ~OfMetadata(q)
    BY <1>6, <1>9, <2>1, BelowBesides, Zenon DEF AllPaths
  <2>3. q \in DOMAIN l
    BY <2>2 DEF Alike
  <2>4. q \in DOMAIN c
    BY <1>7, <1>9, <2>1, <2>3 DEF Applied
  <2>5. q \in DOMAIN d
    BY <1>6, <1>9, <2>1, <2>4, KeptListIsWhole DEF Tree
  <2> QED
    BY <1>4, <2>2, <2>5
<1> QED
  BY <1>8, <1>9

\* A role that asks for no rules finds none.
LEMMA EmptyRoleIsApplied ==
    ASSUME NoSchemeDefaulting, NEW orig, NEW conf, Tree(conf),
           Sub(conf, "list") = List(<<>>), NEW doc, Clean("Role", doc),
           ~ThreeWayDiff("Role", orig, Normalize("Role", Remarshal("Role", conf)), Normalize("Role", doc))
    PROVE  Sub(doc, "list") \in {List(<<>>), Map(NoFields)}
<1> DEFINE p  == <<"list">>
           r  == Remarshal("Role", conf)
           wc == Without(r, Created)
           c  == Normalize("Role", r)
           wd == Without(doc, Created)
           l  == Normalize("Role", doc)
<1>1. IsPath(p) /\ ~OfMetadata(p) /\ p # <<>> /\ IsPath(<<>>)
  BY ListIsNotMetadata, KeysArePaths, RootIs
<1>2. Tree(r) /\ Tree(wc) /\ Tree(c) /\ Tree(wd) /\ Tree(l) /\ IsFunction(l) /\ Metadata(Created) /\ Tree(doc)
  <2>1. Tree(r) /\ Tree(doc)
    BY RemarshalIs, Zenon DEF Clean
  <2> QED
    BY <2>1, NormalizeIs, Zenon
<1>3. IsEmptyList(wc)
  <2>1. IsEmptyList(conf)
    BY EmptyListIs DEF Tree
  <2>2. p \in DOMAIN r /\ r[p] = Arr
    BY <2>1, RemarshalIs, LabelsDiffer DEF IsEmptyList
  <2>3. p \in DOMAIN wc /\ wc[p] = Arr
    BY <1>1, <1>2, <2>2, BesidesMetadata DEF Tree
  <2>4. \A q : q \in DOMAIN wc => q \in DOMAIN r
    BY InWithout
  <2>5. \A q : q \in DOMAIN r => q \in DOMAIN conf
    BY RemarshalIs
  <2> QED
    BY <2>1, <2>3, <2>4, <2>5, Zenon DEF IsEmptyList
<1>4. p \in DOMAIN c /\ c[p] = Nil
  <2>1. Sub(wc, "list") = List(<<>>)
    BY <1>2, <1>3, EmptyListIs, Zenon DEF Tree
  <2>2. NormalizeRole(wc) = [wc EXCEPT ![p] = Nil]
    BY <2>1, Zenon DEF NormalizeRole
  <2>3. c = NormalizeRole(wc)
    BY DEF Normalize, Created
  <2>4. p \in DOMAIN wc
    BY <1>3 DEF IsEmptyList
  <2> HIDE DEF c, wc
  <2> QED
    BY <2>2, <2>3, <2>4
<1>5. l = NormalizeRole(wd)
  BY CleanIsNormal
<1>6. \A q : q \in DOMAIN wd <=> q \in DOMAIN doc /\ Prefixes(q) \cap Created = {}
  BY InWithout
<1>7. \A q \in DOMAIN doc : ~OfMetadata(q) => q \in DOMAIN wd /\ wd[q] = doc[q]
  BY <1>2, BesidesMetadata, Zenon DEF Tree
<1>8. CASE p \notin DOMAIN doc
  BY <1>8, Zenon DEF Sub
<1>9. CASE p \in DOMAIN doc /\ IsEmptyList(wd)
  <2>1. p \in DOMAIN doc /\ doc[p] = Arr
    BY <1>1, <1>7, <1>9 DEF IsEmptyList
  <2>2. ASSUME NEW q \in DOMAIN doc, IsPrefix(p, q) PROVE q = p
    <3>1. IsPath(q)
      BY <1>2 DEF Tree, AllPaths
    <3>2. q \in DOMAIN wd
      BY <1>7, <2>2, <3>1, ListIsNotMetadata
    <3> QED
      BY <1>9, <2>2, <3>2 DEF IsEmptyList
  <2>3. IsEmptyList(doc)
    BY <2>1, <2>2 DEF IsEmptyList
  <2> QED
    BY <1>2, <2>3, EmptyListIs DEF Tree
<1>10. CASE p \in DOMAIN doc /\ ~IsEmptyList(wd)
  <2>1. l = wd
    <3>1. Sub(wd, "list") # List(<<>>)
      BY <1>2, <1>10, EmptyListIs, Zenon DEF Tree
    <3> QED
      BY <1>5, <3>1, Zenon DEF NormalizeRole
  <2>2. p \in DOMAIN l /\ l[p] = doc[p] /\ doc[p] # Nil
    <3>1. ByFields(doc, p)
      BY <1>2, FieldIs DEF Tree
    <3>2. doc[p] # Nil
      BY <1>1, <1>10, <3>1 DEF Clean, NoNulls
    <3> HIDE DEF l, wd
    <3> QED
      BY <1>1, <1>7, <1>10, <2>1, <3>2
  <2>3. PICK paths : Metadata(paths) /\ RemoveNamespaceAnnotation(c) = Without(c, paths)
    BY AnnotationsAreMetadata
  <2>4. PICK d : d = RemoveNamespaceAnnotation(c)
    OBVIOUS
  <2> HIDE DEF c, l
  <2>5. Tree(d) /\ p \in DOMAIN d /\ d[p] = Nil
    <3>1. Tree(Without(c, paths))
      BY <1>2, <2>3, WithoutMetadata
    <3>2. p \in DOMAIN Without(c, paths) /\ Without(c, paths)[p] = c[p]
      BY <1>1, <1>2, <1>4, <2>3, BesidesMetadata DEF Tree
    <3> QED
      BY <1>4, <2>3, <2>4, <3>1, <3>2
  <2>6. PICK f, x, add :
          /\ OnlyRemoves(f, l) /\ MergePatch(x, add) = l
          /\ LET e == RemoveNamespaceAnnotation(c)
             IN  /\ add \in {Additions(f, e), DropNulls(Additions(f, e))}
                 /\ "Role" \in Registered \ {"StatefulSet"} => add = Additions(l, e)
    <3>1. ~ThreeWayDiff("Role", orig, c, l)
      BY DEF c, l
    <3>2. AllPaths(l) /\ l = [q \in DOMAIN l |-> l[q]]
      BY <1>2 DEF IsFunction, Tree
    <3> QED
      BY <3>1, <3>2, UnmodifiedIsPatched
  <2>7. add = Additions(l, d)
    BY <2>4, <2>6, RegisteredAssumption
  <2>8. Differ(l, d, p)
    <3>1. IsPrefix(p, p)
      BY <1>1, PrefixOrder
    <3> QED
      BY <2>2, <2>5, <3>1, Zenon DEF Differ
  <2>9. p \in DOMAIN add /\ add[p] = Nil
    <3>1. p \notin Same(l, d) /\ <<>> \notin Same(l, d)
      BY <2>8, Zenon DEF Same
    <3>2. \A t \in Prefixes(p) : t = <<>> \/ t = p
      BY <2>5, FieldIs DEF Tree
    <3>3. Prefixes(p) \cap Same(l, d) = {}
      BY <3>1, <3>2
    <3> QED
      BY <2>5, <2>7, <3>3, AdditionsAre
  <2>10. ByFields(add, p)
    <3>1. \A t \in Prefixes(<<>>) : t = <<>>
      BY PrefixesAre, RootIs, PrefixOrder, Zenon
    <3>2. Prefixes(<<>>) \cap Same(l, d) = {}
      BY <3>1 DEF Same
    <3>3. <<>> \in DOMAIN add /\ add[<<>>] = Obj
      BY <2>5, <2>7, <3>2, AdditionsAre DEF Tree
    <3> QED
      BY <3>3, FieldIs
  <2>11. p \notin DOMAIN MergePatch(x, add)
    BY <2>9, <2>10, MergePatchIs
  <2> QED
    BY <2>2, <2>6, <2>11
<1> QED
  BY <1>8, <1>9, <1>10

\* The object has what the configuration asks for, if the diff finds it unmodified.
LEMMA UnmodifiedSatisfies ==
    ASSUME NoSchemeDefaulting, NEW k, NEW conf, Tree(conf), NEW doc, Clean(k, doc),
           NEW lastApplied, ~Modified(k, conf, doc, lastApplied)
    PROVE  /\ Has(IF k = "Endpoints" THEN Normalize(k, doc) ELSE doc,
                  Without(DropNulls(Normalize(k, Remarshal(k, conf))), {<<"metadata">>}))
           /\ k = "Role" /\ Sub(conf, "list") = List(<<>>) => Sub(doc, "list") \in {List(<<>>), Map(NoFields)}
<1> DEFINE c == Normalize(k, Remarshal(k, conf))
           l == Normalize(k, doc)
           shown == IF k = "Endpoints" THEN l ELSE doc
<1>1. Tree(c) /\ Tree(l) /\ IsFunction(l) /\ Tree(doc)
  BY RemarshalIs, NormalizeIs, Zenon DEF Clean
<1>2. PICK orig : ~ThreeWayDiff(k, orig, c, l)
  <2>1. Remarshal(k, doc) = doc
    BY CleanIsNormal
  <2> QED
    BY <2>1, Zenon DEF Modified
<1>3. Alike(l, shown)
  BY NormalizedIsAlike
<1>4. k = "Role" /\ Sub(conf, "list") = List(<<>>) => Sub(doc, "list") \in {List(<<>>), Map(NoFields)}
  BY <1>2, EmptyRoleIsApplied
<1> HIDE DEF c, l
<1>5. \A p \in DOMAIN DropNulls(c) : ~OfMetadata(p) => Applied(l, c, p)
  BY <1>1, <1>2, UnmodifiedIsApplied DEF Tree, IsFunction
<1>6. AllPaths(shown)
  BY <1>1 DEF Tree
<1> HIDE DEF shown
<1>7. Has(shown, Without(DropNulls(c), {<<"metadata">>}))
  BY <1>1, <1>3, <1>5, <1>6, AppliedIsHad
<1> QED
  BY <1>4, <1>7 DEF c, l, shown

-------------------------------------------------------------------------------
(* What the API server stores *)

LEMMA ItemFieldIsPath ==
    ASSUME NEW i, NEW k, NEW q, IsPath(q)
    PROVE  IsPath(<<"list", i, k>> \o q) /\ IsPrefix(<<"list">>, <<"list", i, k>> \o q)
<1> DEFINE S == {"list", i, k}
           a == <<"list">>
           p == <<"list", i, k>>
           r == p \o q
<1>1. p \in Seq(S) /\ Len(p) = 3 /\ a[1] = p[1]
  OBVIOUS
<1>2. IsPath(a) /\ Len(a) = 1
  BY KeysArePaths, Zenon
<1> HIDE DEF S, a, p
<1>3. IsPath(p) /\ IsPrefix(a, p)
  <2>1. IsPath(p)
    BY <1>1, SequencesArePaths, Zenon
  <2>2. Len(a) <= Len(p) /\ \A j \in 1..Len(a) : a[j] = p[j]
    BY <1>1, <1>2
  <2> QED
    BY <1>2, <2>1, <2>2, PrefixIs, Zenon
<1>4. IsPath(r) /\ IsPrefix(p, r)
  BY <1>3, ConcatIsPath, Zenon
<1> HIDE DEF r
<1>5. IsPrefix(a, r)
  BY <1>2, <1>3, <1>4, PrefixOrder, Zenon
<1> QED
  BY <1>4, <1>5 DEF r, a, p

LEMMA DefaultItemsAre ==
    ASSUME NEW v, AllPaths(v), NEW defaults, \A f \in DOMAIN defaults : AllPaths(defaults[f])
    PROVE  /\ AllPaths(DefaultItems(v, defaults))
           /\ NoStrings(v) => NoStrings(DefaultItems(v, defaults))
<1> DEFINE items == {i \in Keys(Sub(v, "list")) : v[<<"list">>] = Arr /\ v[<<"list", i>>] = Obj}
           Field(i, k) == {<<"list", i, k>> \o q : q \in DOMAIN defaults[k]}
           Of(i) == UNION {Field(i, k) : k \in {k \in DOMAIN defaults : <<"list", i, k>> \notin DOMAIN v}}
           added == UNION {Of(i) : i \in items}
           n == DefaultItems(v, defaults)
<1>1. n = [p \in DOMAIN v \union added |-> IF p \in DOMAIN v THEN v[p] ELSE defaults[p[3]][SubSeq(p, 4, Len(p))]]
  BY DEF DefaultItems
<1>2. ASSUME NEW p \in added PROVE IsPath(p) /\ ~IsPrefix(<<"stringData">>, p)
  <2>1. PICK i \in items : p \in Of(i)
    OBVIOUS
  <2>2. PICK k \in DOMAIN defaults : p \in Field(i, k)
    BY <2>1
  <2>3. PICK q \in DOMAIN defaults[k] : p = <<"list", i, k>> \o q
    BY <2>2
  <2>4. IsPath(q)
    BY DEF AllPaths
  <2>5. IsPath(p) /\ IsPrefix(<<"list">>, p)
    BY <2>3, <2>4, ItemFieldIsPath, Zenon
  <2> QED
    BY <2>5, DataIsNotStrings, Zenon
<1> HIDE DEF added, n
<1>3. DOMAIN n = DOMAIN v \union added
  BY <1>1
<1>4. \A p \in DOMAIN n : IsPath(p)
  BY <1>2, <1>3 DEF AllPaths
<1>5. NoStrings(v) => \A p \in DOMAIN n : IsPrefix(<<"stringData">>, p) => Len(p) < 2
  BY <1>2, <1>3 DEF NoStrings
<1> QED
  BY <1>4, <1>5, Zenon DEF n, AllPaths, NoStrings

LEMMA ServerMetadataIs ==
    /\ \A p \in DOMAIN ServerMetadata : /\ IsPath(p) /\ (p = <<>> \/ OfMetadata(p))
                                        /\ ServerMetadata[p] # Nil
    /\ <<>> \in DOMAIN ServerMetadata /\ ServerMetadata[<<>>] = Obj
<1> DEFINE D == {<<>>, <<"metadata">>, <<"metadata", "creationTimestamp">>, <<"metadata", "namespace">>}
<1>1. ServerMetadata = [p \in D |-> IF Len(p) < 2 THEN Obj ELSE <<"string", "server">>]
  BY Zenon DEF ServerMetadata
<1>2. \A p \in D : IsPath(p) /\ (p = <<>> \/ OfMetadata(p))
  <2>1. IsPath(<<"metadata">>) /\ OfMetadata(<<"metadata">>)
    BY KeysArePaths, PrefixOrder, Zenon DEF OfMetadata
  <2>2. \A a : IsPath(<<"metadata", a>>) /\ OfMetadata(<<"metadata", a>>)
    BY KeysArePaths, Zenon DEF OfMetadata
  <2> QED
    BY <2>1, <2>2, RootIs, Zenon
<1>3. <<>> \in D /\ Len(<<>>) = 0
  BY RootIs
<1>4. <<"string", "server">> # Nil
  BY DEF Nil
<1> HIDE DEF D
<1> QED
  BY <1>1, <1>2, <1>3, <1>4, LabelsDiffer

LEMMA MergePatchPaths ==
    ASSUME NEW doc, NEW patch, AllPaths(doc), AllPaths(patch)
    PROVE  AllPaths(MergePatch(doc, patch))
BY MergePatchIs, Zenon DEF AllPaths

LEMMA StoredIsClean ==
    ASSUME kind \in DOMAIN Configs, NEW doc, AllPaths(doc)
    PROVE  Clean(kind, Stored(doc))
<1> DEFINE given == IF kind = "Secret" THEN NormalizeSecret(doc) ELSE doc
           full == DefaultItems(given, ServerDefaults[kind])
           pruned == Pruned(full)
           meta == ServerMetadata
           n == MergePatch(pruned, meta)
<1>1. Stored(doc) = n
  BY DEF Stored
<1>2. AllPaths(given) /\ (kind = "Secret" => NoStrings(given))
  BY SecretIs
<1>3. AllPaths(full) /\ (kind = "Secret" => NoStrings(full))
  <2>1. \A f \in DOMAIN ServerDefaults[kind] : AllPaths(ServerDefaults[kind][f])
    BY DocumentsAssumption DEF AllPaths
  <2> HIDE DEF given
  <2> QED
    BY <1>2, <2>1, DefaultItemsAre, Zenon
<1>4. \A p : p \in DOMAIN pruned => /\ p \in DOMAIN full /\ pruned[p] = full[p]
                                    /\ p = <<>> \/ ~(full[p] = Nil /\ ByFields(full, p))
  <2> HIDE DEF full
  <2> QED
    BY Zenon DEF Pruned
<1> HIDE DEF given, full, pruned
<1>5. \A p : /\ p \in DOMAIN n <=>
                    \/ p \in DOMAIN meta /\ ~(meta[p] = Nil /\ ByFields(meta, p))
                    \/ /\ p \in DOMAIN pruned \ DOMAIN meta
                       /\ \A q \in Prefixes(p) \cap DOMAIN meta :
                            meta[q] = Obj /\ q \in DOMAIN pruned /\ pruned[q] = Obj
             /\ p \in DOMAIN n => n[p] = IF p \in DOMAIN meta THEN meta[p] ELSE pruned[p]
  BY MergePatchIs
<1>6. IsFunction(n)
  BY MergePatchIsFunction, Zenon DEF IsFunction
<1> HIDE DEF n
<1>7. \A p \in DOMAIN n : p \in DOMAIN meta \/ p \in DOMAIN full
  BY <1>4, <1>5
<1>8. AllPaths(n)
  BY <1>3, <1>7, ServerMetadataIs DEF AllPaths
<1>9. Tree(n)
  BY <1>5, <1>8, ServerMetadataIs, LabelsDiffer DEF Tree
<1>10. ASSUME NEW p \in DOMAIN n, p # <<>>, n[p] = Nil, ByFields(n, p) PROVE FALSE
  <2>1. p \notin DOMAIN meta
    BY <1>5, <1>10, ServerMetadataIs
  <2>2. p \in DOMAIN pruned /\ full[p] = Nil
    BY <1>4, <1>5, <1>10, <2>1
  <2>3. IsPath(p)
    BY <1>8 DEF AllPaths
  <2>4. ASSUME NEW q, IsPath(q), IsPrefix(q, p), q # p PROVE q \in DOMAIN full /\ full[q] = Obj
    <3>1. q \in DOMAIN n /\ n[q] = Obj
      BY <1>10, <2>3, <2>4, ByFieldsIs
    <3>2. q \in Prefixes(p)
      BY <2>3, <2>4, PrefixesAre
    <3>3. CASE q \in DOMAIN meta
      BY <1>4, <1>5, <2>1, <2>2, <3>2, <3>3
    <3>4. CASE q \notin DOMAIN meta
      BY <1>4, <1>5, <3>1, <3>4
    <3> QED
      BY <3>3, <3>4
  <2>5. ByFields(full, p)
    BY <2>3, <2>4, ByFieldsIs
  <2> QED
    BY <1>4, <1>10, <2>2, <2>5
<1>11. kind = "Secret" => NoStrings(n)
  <2>1. ASSUME NEW p \in DOMAIN meta PROVE ~IsPrefix(<<"stringData">>, p)
    <3>1. IsPath(p) /\ (p = <<>> \/ OfMetadata(p))
      BY <2>1, ServerMetadataIs
    <3>2. p # <<>> => ~IsPrefix(<<"stringData">>, p)
      BY <3>1, DataIsNotStrings, Zenon
    <3>3. ~IsPrefix(<<"stringData">>, <<>>)
      <4> DEFINE s == <<"stringData">>
      <4>1. IsPath(s) /\ Len(s) = 1
        BY KeysArePaths, Zenon
      <4> HIDE DEF s
      <4>2. ~IsPrefix(s, <<>>)
        BY <4>1, RootIs, PrefixIs
      <4> QED
        BY <4>2 DEF s
    <3> QED
      BY <3>2, <3>3
  <2> QED
    BY <1>3, <1>7, <2>1 DEF NoStrings
<1> QED
  BY <1>1, <1>6, <1>9, <1>10, <1>11 DEF Clean, NoNulls

LEMMA DeletionsPaths ==
    ASSUME NEW from, NEW to, AllPaths(from), AllPaths(to), NEW nulls
    PROVE  AllPaths(Deletions(from, to, nulls))
<1> DEFINE has(p)  == p \in DOMAIN from /\ ByFields(from, p)
           dropped == {p \in DOMAIN from \ DOMAIN to : has(p) /\ ByFields(to, p)}
           nulled  == {p \in DOMAIN to : /\ nulls /\ to[p] = Nil /\ ByFields(to, p)
                                         /\ has(p) => from[p] # Nil}
           gone    == dropped \union nulled
           D       == {<<>>} \union UNION {Prefixes(q) : q \in gone}
<1>1. DOMAIN Deletions(from, to, nulls) = D
  BY Zenon DEF Deletions
<1>2. \A q \in gone : IsPath(q)
  BY DEF AllPaths
<1> HIDE DEF gone
<1>3. \A p \in D : IsPath(p)
  BY <1>2, RootIs, PrefixesAre
<1> QED
  BY <1>1, <1>3 DEF AllPaths

LEMMA EmptyMapIs == /\ Tree(Map(NoFields)) /\ IsFunction(Map(NoFields))
                    /\ DOMAIN Map(NoFields) = {<<>>}
<1> DEFINE E == UNION {{<<k>> \o q : q \in DOMAIN NoFields[k]} : k \in DOMAIN NoFields}
           m == Map(NoFields)
<1>1. E = {}
  BY DEF NoFields
<1>2. m = [p \in {<<>>} \union E |-> IF p = <<>> THEN Obj ELSE NoFields[Head(p)][Tail(p)]]
  BY Zenon DEF Map, Node
<1> HIDE DEF E, m
<1>3. DOMAIN m = {<<>>} /\ m[<<>>] = Obj /\ IsFunction(m)
  BY <1>1, <1>2 DEF IsFunction
<1> QED
  BY <1>3, RootIs DEF m, Tree, AllPaths

LEMMA EmptyMapIsClean == ASSUME NEW k PROVE Clean(k, Map(NoFields))
<1>1. \A p \in DOMAIN Map(NoFields) : ~IsPrefix(<<"stringData">>, p)
  <2> DEFINE s == <<"stringData">>
  <2>1. IsPath(s) /\ Len(s) = 1
    BY KeysArePaths, Zenon
  <2> HIDE DEF s
  <2>2. ~IsPrefix(s, <<>>)
    BY <2>1, RootIs, PrefixIs
  <2> QED
    BY <2>2, EmptyMapIs DEF s
<1> QED
  BY <1>1, EmptyMapIs DEF Clean, NoNulls, NoStrings

-------------------------------------------------------------------------------
(* The passes *)

LiveOK == /\ live = [exists |-> live.exists, doc |-> live.doc, sum |-> live.sum,
                     mine |-> live.mine, lastApplied |-> live.lastApplied]
          /\ live.exists \in BOOLEAN
          /\ live.exists \/ live = Missing
          /\ Clean(kind, live.doc)
          /\ \A s \in {live.sum, live.mine, live.lastApplied} : s = <<>> \/ s[1] \in Configs[kind]

\* The inductive invariant: what is in the cluster is as the API server stores
\* documents, and what a pass called up to date has not changed since.
DriftInv == /\ TypeOK /\ LiveOK
            /\ verdict = "up to date" =>
                live.exists /\ ~Modified(kind, config, live.doc, live.lastApplied)

LEMMA ConfigIsTree ==
    ASSUME kind \in DOMAIN Configs, NEW doc \in Configs[kind]
    PROVE  Tree(doc)
BY DocumentsAssumption DEF IsDocument, Tree, AllPaths

LEMMA PatchedIsClean ==
    ASSUME kind \in DOMAIN Configs, AllPaths(live.doc), NEW from, NEW doc, AllPaths(from), AllPaths(doc)
    PROVE  Clean(kind, Patched(from, doc))
<1>1. AllPaths(Stored(doc))
  BY StoredIsClean DEF Clean, Tree
<1>2. AllPaths(MergePatch(live.doc, Deletions(from, doc, FALSE)))
  BY DeletionsPaths, MergePatchPaths, Zenon
<1>3. AllPaths(MergePatch(MergePatch(live.doc, Deletions(from, doc, FALSE)), Stored(doc)))
  BY <1>1, <1>2, MergePatchPaths, Zenon
<1> QED
  BY <1>3, StoredIsClean, Zenon DEF Patched

LEMMA InitDrift == Init => DriftInv
<1> SUFFICES ASSUME Init PROVE DriftInv
  OBVIOUS
<1>1. TypeOK
  BY BoundAssumption DEF Init, TypeOK, Missing
<1>2. LiveOK
  <2>1. Clean(kind, Map(NoFields))
    BY EmptyMapIsClean, Zenon
  <2> QED
    BY <2>1 DEF Init, LiveOK, Missing
<1>3. verdict # "up to date"
  BY DEF Init
<1> QED
  BY <1>1, <1>2, <1>3 DEF DriftInv

\* An object that is there after a change of its document.
LEMMA LiveWritten ==
    ASSUME DriftInv, NEW doc, Clean(kind, doc), NEW sum, NEW mine, NEW lastApplied,
           \A s \in {sum, mine, lastApplied} : s = <<>> \/ s[1] \in Configs[kind],
           kind' = kind,
           live' = [exists |-> TRUE, doc |-> doc, sum |-> sum, mine |-> mine, lastApplied |-> lastApplied]
    PROVE  LiveOK' /\ live'.exists /\ live'.doc[<<>>] = Obj
BY DEF LiveOK, Clean, Tree

LEMMA NextDrift == DriftInv /\ [Next]_vars => DriftInv'
<1> SUFFICES ASSUME DriftInv, [Next]_vars PROVE DriftInv'
  OBVIOUS
<1>1. /\ kind \in DOMAIN Configs /\ config \in Configs[kind] /\ LiveOK /\ Clean(kind, live.doc)
      /\ \A s \in {live.sum, live.mine, live.lastApplied} : s = <<>> \/ s[1] \in Configs[kind]
      /\ AllPaths(live.doc)
      /\ revisions \in 1..MaxRevisions /\ edits \in 0..MaxEdits
      /\ live = [exists |-> live.exists, doc |-> live.doc, sum |-> live.sum,
                 mine |-> live.mine, lastApplied |-> live.lastApplied]
  BY DEF DriftInv, TypeOK, LiveOK, Clean, Tree
<1>2. AllPaths(Map(NoFields))
  BY EmptyMapIs DEF Tree
<1>3. CASE Reconcile
  <2>1. CASE live' = ServerSideApply(config) /\ verdict' = "applied"
    <3> DEFINE own == IF live.mine = <<>> THEN Map(NoFields) ELSE Stored(live.mine[1])
               doc == Patched(own, Stored(config))
    <3>1. \A d \in Configs[kind] : AllPaths(Stored(d))
      BY <1>1, ConfigIsTree, StoredIsClean DEF Clean, Tree
    <3>2. AllPaths(own)
      BY <1>1, <1>2, <3>1
    <3> HIDE DEF own
    <3>3. Clean(kind, doc)
      BY <1>1, <3>1, <3>2, PatchedIsClean
    <3>4. live' = [live EXCEPT !.exists = TRUE, !.doc = doc, !.sum = <<config>>, !.mine = <<config>>]
      BY <2>1 DEF ServerSideApply, own
    <3> HIDE DEF doc
    <3>5. live' = [exists |-> TRUE, doc |-> doc, sum |-> <<config>>, mine |-> <<config>>,
                   lastApplied |-> live.lastApplied]
      BY <1>1, <3>4
    <3>6. kind' = kind
      BY <1>3 DEF Reconcile
    <3>7. \A s \in {<<config>>, <<config>>, live.lastApplied} : s = <<>> \/ s[1] \in Configs[kind]
      BY <1>1
    <3>8. LiveOK' /\ live'.exists /\ live'.doc[<<>>] = Obj
      BY <3>3, <3>5, <3>6, <3>7, LiveWritten
    <3> QED
      BY <1>1, <1>3, <2>1, <3>8 DEF Reconcile, DriftInv, TypeOK, LiveOK
  <2>2. CASE /\ live.exists /\ ~Modified(kind, config, live.doc, live.lastApplied)
             /\ verdict' = "up to date" /\ UNCHANGED live
    BY <1>3, <2>2 DEF Reconcile, DriftInv, TypeOK, LiveOK
  <2> QED
    BY <1>3, <2>1, <2>2 DEF Reconcile
<1>4. CASE Revise
  <2>1. revisions' \in 1..MaxRevisions /\ verdict' = "none" /\ config' \in Configs[kind]
        /\ UNCHANGED <<kind, live, edits>>
    BY <1>1, <1>4, BoundAssumption DEF Revise
  <2>2. LiveOK'
    BY <1>1, <2>1 DEF LiveOK
  <2> QED
    BY <1>1, <2>1, <2>2 DEF DriftInv, TypeOK
<1>5. CASE Edit
  <2>1. edits' \in 0..MaxEdits /\ verdict' = "none" /\ UNCHANGED <<kind, config, revisions>> /\ live.exists
    BY <1>1, <1>5, BoundAssumption DEF Edit
  <2>2. LiveOK' /\ (live'.exists => live'.doc[<<>>] = Obj)
    <3>1. CASE \E doc \in Edits(live.doc) : IsDocument(doc) /\ live' = [live EXCEPT !.doc = Stored(doc)]
      <4>1. PICK doc : IsDocument(doc) /\ live' = [live EXCEPT !.doc = Stored(doc)]
        BY <3>1
      <4>2. Clean(kind, Stored(doc))
        BY <1>1, <4>1, StoredIsClean DEF IsDocument, AllPaths
      <4>3. live' = [exists |-> TRUE, doc |-> Stored(doc), sum |-> live.sum, mine |-> live.mine,
                     lastApplied |-> live.lastApplied]
        BY <1>1, <2>1, <4>1 DEF LiveOK
      <4> QED
        BY <1>1, <2>1, <4>2, <4>3, LiveWritten
    <3>2. CASE live' = [live EXCEPT !.sum = <<>>]
      <4>1. live' = [exists |-> TRUE, doc |-> live.doc, sum |-> <<>>, mine |-> live.mine,
                     lastApplied |-> live.lastApplied]
        BY <1>1, <2>1, <3>2 DEF LiveOK
      <4> QED
        BY <1>1, <2>1, <4>1, LiveWritten
    <3>3. CASE live' = Missing
      <4>1. Clean(kind, Map(NoFields))
        BY EmptyMapIsClean, Zenon
      <4> QED
        BY <2>1, <3>3, <4>1 DEF LiveOK, Missing
    <3> QED
      BY <1>5, <3>1, <3>2, <3>3 DEF Edit
  <2> QED
    BY <1>1, <2>1, <2>2 DEF DriftInv, TypeOK, LiveOK
<1>6. CASE KubectlApply
  <2>1. edits' \in 0..MaxEdits /\ verdict' = "none" /\ UNCHANGED <<kind, config, revisions>>
    BY <1>1, <1>6, BoundAssumption DEF KubectlApply
  <2> DEFINE own == IF live.lastApplied = <<>> THEN Map(NoFields) ELSE live.lastApplied[1]
  <2>2. PICK doc \in Configs[kind] :
            live' = [live EXCEPT !.exists = TRUE, !.doc = Patched(own, doc), !.lastApplied = <<doc>>]
    BY <1>6 DEF KubectlApply
  <2>3. \A d \in Configs[kind] : AllPaths(d)
    BY <1>1, ConfigIsTree DEF Tree
  <2>4. AllPaths(own)
    BY <1>1, <1>2, <2>3
  <2> HIDE DEF own
  <2>5. Clean(kind, Patched(own, doc))
    BY <1>1, <2>3, <2>4, PatchedIsClean
  <2>6. live' = [exists |-> TRUE, doc |-> Patched(own, doc), sum |-> live.sum, mine |-> live.mine,
                 lastApplied |-> <<doc>>]
    BY <1>1, <2>2
  <2>7. \A s \in {live.sum, live.mine, <<doc>>} : s = <<>> \/ s[1] \in Configs[kind]
    BY <1>1
  <2>8. LiveOK' /\ live'.exists /\ live'.doc[<<>>] = Obj
    BY <2>1, <2>5, <2>6, <2>7, LiveWritten
  <2> QED
    BY <1>1, <2>1, <2>8 DEF DriftInv, TypeOK, LiveOK
<1>7. CASE UNCHANGED vars
  BY <1>7 DEF vars, DriftInv, TypeOK, LiveOK
<1> QED
  BY <1>3, <1>4, <1>5, <1>6, <1>7 DEF Next

\* What a pass finds in the cluster has the documents of the kind it came from,
\* and is stored without nulls and without the strings of a Secret.
THEOREM DriftInvariant == Spec => []DriftInv
<1>1. Init => DriftInv
  BY InitDrift
<1>2. DriftInv /\ [Next]_vars => DriftInv'
  BY NextDrift
<1> QED
  BY <1>1, <1>2, PTL DEF Spec

\* The type invariant of the passes over one object.
THEOREM DriftTyped == Spec => []TypeOK
<1>1. DriftInv => TypeOK
  BY DEF DriftInv
<1> QED
  BY <1>1, DriftInvariant, PTL

\* No pass calls an object up to date that lacks something of the configuration,
\* whatever the documents, the edits and what the API server adds are: as long
\* as the scheme of the diff fills in nothing (reconcileUnstructured, Diff).
THEOREM UpToDateIsApplied ==
    ASSUME NoSchemeDefaulting
    PROVE  Spec => []UpToDateMeansApplied
<1>1. DriftInv => UpToDateMeansApplied
  <2> SUFFICES ASSUME DriftInv, verdict = "up to date" PROVE Satisfies(live.doc)
    BY DEF UpToDateMeansApplied
  <2>1. Tree(config) /\ Clean(kind, live.doc) /\ ~Modified(kind, config, live.doc, live.lastApplied)
    BY ConfigIsTree DEF DriftInv, TypeOK, LiveOK
  <2> QED
    BY <2>1, UnmodifiedSatisfies, Zenon DEF Satisfies
<1> QED
  BY <1>1, DriftInvariant, PTL
===============================================================================
