--------------------------------- MODULE Diff ---------------------------------
(***************************************************************************)
(* The drift detection of pkg/diff: whether an object of the cluster still *)
(* is what a rendered one asks for, decided by the patch that would bring  *)
(* the one to the other.                                                   *)
(*                                                                         *)
(* A document is a JSON value as a tree: a function from its paths, which  *)
(* are sequences of keys and of places in lists, to what is found there, a *)
(* map, a list, a null or a scalar.  What the code does by recursion over  *)
(* two values is said here of the paths of two trees.                      *)
(*                                                                         *)
(* Kinds in Registered are those of the Kubernetes scheme: they are        *)
(* patched by a strategic merge patch, the others by a JSON merge patch.   *)
(* The field "list" stands for the list a kind has (rules, subsets,        *)
(* volumeClaimTemplates, ingress): one without a merge key, which a patch  *)
(* replaces as a whole.  Documents that do not decode into the type of     *)
(* their kind are left out, and so is the Normalizer of the options, which *)
(* is never another than the no-op.                                        *)
(***************************************************************************)
EXTENDS SequencesExt, Integers

CONSTANTS
    Registered,      \* the kinds of the scheme
    SchemeDefaults,  \* what diff.Scheme adds to a list item, as fields
    HashRank(_)      \* the order of the hashes of list items

\* The kinds that have a normalization of their own are kinds of the scheme.
ASSUME RegisteredAssumption ==
    /\ Registered \subseteq STRING
    /\ {"Secret", "Role", "Endpoints", "StatefulSet"} \subseteq Registered

Obj == <<"map">>
Arr == <<"list">>
Nil == <<"null">>

\* A value with these values in it, and a leaf.
Node(label, f) ==
    [p \in {<<>>} \union UNION {{<<k>> \o q : q \in DOMAIN f[k]} : k \in DOMAIN f} |->
        IF p = <<>> THEN label ELSE f[Head(p)][Tail(p)]]

NoFields == [k \in {} |-> Nil]

Null    == Node(Nil, NoFields)
Str(s)  == Node(<<"string", s>>, NoFields)
Map(f)  == Node(Obj, f)
List(s) == Node(Arr, s)

\* The value at a path.
At(v, p) == [q \in {SubSeq(r, Len(p) + 1, Len(r)) : r \in {r \in DOMAIN v : IsPrefix(p, r)}} |->
                v[p \o q]]

\* The fields of a map, the items of a list.
Keys(v)   == {Head(p) : p \in DOMAIN v \ {<<>>}}
Fields(v) == [k \in Keys(v) |-> At(v, <<k>>)]
Items(v)  == Fields(v)

\* A field of a map, which stands for no fields when there is none.
Sub(m, k) == IF <<k>> \in DOMAIN m THEN At(m, <<k>>) ELSE Map(NoFields)

\* A value without what is at some paths.
Without(v, paths) == [p \in {q \in DOMAIN v : Prefixes(q) \cap paths = {}} |-> v[p]]

\* Paths are sequences, and what leads to something is a map or a list.
IsPath(p) == Len(p) \in Nat /\ p = SubSeq(p, 1, Len(p))

IsDocument(v) ==
    /\ <<>> \in DOMAIN v /\ v[<<>>] = Obj
    /\ \A p \in DOMAIN v :
        /\ IsPath(p)
        /\ \A q \in Prefixes(p) \ {p} : q \in DOMAIN v /\ v[q] \in {Obj, Arr}

\* The path leads through maps alone, as those do that a merge patch names.
ByFields(v, p) == \A q \in Prefixes(p) \ {p} : q \in DOMAIN v /\ v[q] = Obj

-------------------------------------------------------------------------------
(* pkg/util/json *)

\* Mutant of Removed: elements past the end of config's list go, too.
RemovedWithTail(config, live) ==
    {p \in DOMAIN live \ DOMAIN config :
        p # <<>> /\ \A q \in Prefixes(p) \ {p} : q \in DOMAIN config /\ config[q] = live[q]}

\* The fields config does not have, as far down as the two have maps and lists
\* at the same places; list elements stay, and are compared by their place.
Removed(config, live) ==
    {p \in DOMAIN live \ DOMAIN config :
        /\ p # <<>> /\ live[Front(p)] = Obj
        /\ \A q \in Prefixes(p) \ {p} : q \in DOMAIN config /\ config[q] = live[q]}

RemoveFields(config, live) == Without(live, Removed(config, live))

-------------------------------------------------------------------------------
(* Merge patches *)

\* The values at the path are not the same.
Differ(from, to, p) ==
    \E q \in DOMAIN from \union DOMAIN to :
        /\ IsPrefix(p, q)
        /\ ~(q \in DOMAIN from /\ q \in DOMAIN to /\ from[q] = to[q])

\* The fields to set in from so that it has those of to: lists as a whole.
Additions(from, to) ==
    Without(to, {p \in DOMAIN to : /\ p # <<>> /\ ByFields(from, p) /\ ByFields(to, p)
                                   /\ ~Differ(from, to, p)})

\* The fields of from that to does not have any more, as nulls; with nulls,
\* those that to asks to be null count, too.
Deletions(from, to, nulls) ==
    LET has(p)  == p \in DOMAIN from /\ ByFields(from, p)
        dropped == {p \in DOMAIN from \ DOMAIN to : has(p) /\ ByFields(to, p)}
        nulled  == {p \in DOMAIN to : /\ nulls /\ to[p] = Nil /\ ByFields(to, p)
                                      /\ has(p) => from[p] # Nil}
        gone    == dropped \union nulled
    IN  [p \in {<<>>} \union UNION {Prefixes(q) : q \in gone} |-> IF p \in gone THEN Nil ELSE Obj]

\* What is left of a value's maps when those go that only nulls were in.
Solid(v) == {p \in DOMAIN v : /\ ByFields(v, p) /\ v[p] # Nil
                              /\ v[p] = Obj => \A q \in DOMAIN v : IsPrefix(p, q) => q = p}

\* A JSON merge patch sets no nulls, and leaves out a map that had nothing else
\* (keepOrDeleteNullInObj).
DropNulls(v) ==
    [p \in {q \in DOMAIN v : q = <<>> \/ \E s \in Solid(v) : IsPrefix(q, s) \/ IsPrefix(s, q)} |-> v[p]]

\* A value without the nulls in its maps, as an API server stores it.
Pruned(v) == [p \in {q \in DOMAIN v : q = <<>> \/ ~(v[q] = Nil /\ ByFields(v, q))} |-> v[p]]

\* What patch names is set or, if it is null, goes, with all that was there
\* unless both have a map there.
MergePatch(doc, patch) ==
    LET set  == {p \in DOMAIN patch : ~(patch[p] = Nil /\ ByFields(patch, p))}
        kept == {p \in DOMAIN doc \ DOMAIN patch : \A q \in Prefixes(p) \cap DOMAIN patch :
                    patch[q] = Obj /\ q \in DOMAIN doc /\ doc[q] = Obj}
    IN  [p \in set \union kept |-> IF p \in DOMAIN patch THEN patch[p] ELSE doc[p]]

-------------------------------------------------------------------------------
(* Normalize *)

\* A list whose items lack fields, with the fields of defaults.
DefaultItems(doc, defaults) ==
    LET items == {i \in Keys(Sub(doc, "list")) :
                    doc[<<"list">>] = Arr /\ doc[<<"list", i>>] = Obj}
        added == UNION {UNION {{<<"list", i, k>> \o q : q \in DOMAIN defaults[k]} :
                            k \in {k \in DOMAIN defaults : <<"list", i, k>> \notin DOMAIN doc}} :
                            i \in items}
    IN  [p \in DOMAIN doc \union added |->
            IF p \in DOMAIN doc THEN doc[p] ELSE defaults[p[3]][SubSeq(p, 4, Len(p))]]

\* A null value of data becomes empty, and stringData goes over data.  A value
\* of data stands for what its base64 decodes to, which is how the two compare.
NormalizeSecret(doc) ==
    LET isNull(p) == IsPrefix(<<"data">>, p) /\ Len(p) = 2 /\ doc[p] = Nil /\ ByFields(doc, p)
        plain   == [p \in DOMAIN doc |-> IF isNull(p) THEN <<"string", "">> ELSE doc[p]]
        strings == {p \in DOMAIN doc : IsPrefix(<<"stringData">>, p) /\ Len(p) > 1}
        data    == {<<"data">> \o Tail(p) : p \in strings}
        others  == DOMAIN Without(doc, data \union {<<"stringData">>})
    IN  IF strings = {} THEN plain
        ELSE [p \in data \union {<<"data">>} \union others |->
                IF p \in data THEN doc[<<"stringData">> \o Tail(p)]
                ELSE IF p = <<"data">> THEN Obj ELSE plain[p]]

\* The place a subset is moved to.
SortSubsets(subsets, i) ==
    Cardinality({j \in DOMAIN subsets : \/ HashRank(subsets[j]) < HashRank(subsets[i])
                                        \/ HashRank(subsets[j]) = HashRank(subsets[i]) /\ j <= i})

\* The order of the subsets, of their addresses and of their ports does not count.
NormalizeEndpoint(doc) ==
    LET subsets  == Items(Sub(doc, "list"))
        moved(p) == IF IsPrefix(<<"list">>, p) /\ Len(p) > 1
                    THEN <<"list", SortSubsets(subsets, p[2])>> \o SubSeq(p, 3, Len(p)) ELSE p
        from(p)  == {q \in DOMAIN doc : moved(q) = p}
    IN  [p \in {moved(q) : q \in DOMAIN doc} |-> doc[CHOOSE q \in from(p) : TRUE]]

\* An empty list of rules is no list.  The rules of an aggregated role are
\* compared: nobody sets IgnoreAggregatedRoles.
NormalizeRole(doc) ==
    IF Sub(doc, "list") = List(<<>>) THEN [doc EXCEPT ![<<"list">>] = Nil] ELSE doc

Normalize(kind, doc) ==
    LET plain == Without(doc, {<<"metadata", "creationTimestamp">>})
    IN  CASE kind = "Secret"    -> NormalizeSecret(plain)
          [] kind = "Endpoints" -> NormalizeEndpoint(plain)
          [] kind = "Role"      -> NormalizeRole(plain)
          [] OTHER              -> plain

\* Through the type of the kind and back: null fields are dropped, but for the
\* values of a Secret's data.
Remarshal(kind, doc) ==
    LET datum(p) == IsPrefix(<<"data">>, p) /\ Len(p) > 1
    IN  IF kind \notin Registered THEN doc
        ELSE [p \in DOMAIN Pruned(doc) \union {q \in DOMAIN doc : datum(q)} |-> doc[p]]

-------------------------------------------------------------------------------
(* ThreeWayDiff *)

RemoveNamespaceAnnotation(doc) ==
    LET annotations == <<"metadata", "annotations">>
        empty       == annotations \in DOMAIN doc /\ At(doc, annotations) \in {Null, Map(NoFields)}
    IN  Without(doc, {<<"metadata", "namespace">>} \union IF empty THEN {annotations} ELSE {})

\* The API server fills volumeClaimTemplates in; only the patch is computed
\* without what it added.
StatefulSetWorkaround(orig, live) ==
    LET list == <<"list">>
    IN  IF /\ list \in DOMAIN orig /\ orig[list] = Arr
           /\ list \in DOMAIN live /\ live[list] = Arr
        THEN Without(live, {p \in Removed(orig, live) : IsPrefix(list, p)})
        ELSE live

\* Mutant of ThreeWayPatch: the live object's own fields are not removed.
ThreeWayPatchOfAll(kind, orig, config, live) ==
    [del |-> Deletions(orig, config, kind \notin Registered),
     add |-> DropNulls(Additions(live, config))]

\* threeWayMergePatch, as the deletions it asks for and the additions.
ThreeWayPatch(kind, orig, config, live) ==
    [del |-> Deletions(orig, config, kind \notin Registered),
     add |-> IF kind \notin Registered
             THEN DropNulls(Additions(RemoveFields(orig, live), config))
             ELSE Additions(IF kind = "StatefulSet"
                            THEN StatefulSetWorkaround(orig, live) ELSE live, config)]

\* What a document becomes by Scheme.Default.
SchemeDefaulted(kind, doc) ==
    IF kind \in Registered THEN DefaultItems(doc, SchemeDefaults) ELSE doc

\* applyPatch, and jsonpatch.MergePatch for a kind without a type.
PredictedLive(kind, live, patch) ==
    SchemeDefaulted(kind, MergePatch(MergePatch(live, patch.del), patch.add))

ThreeWayDiff(kind, orig, config, live) ==
    LET o == RemoveNamespaceAnnotation(orig)
        c == RemoveNamespaceAnnotation(config)
    IN  PredictedLive(kind, live, ThreeWayPatch(kind, o, c, live)) # SchemeDefaulted(kind, live)

\* Diff(...).Modified.  lastApplied is the annotation kubectl apply leaves, as
\* a sequence of at most one document.  Without it, the object's own
\* configuration is the one last applied.
Modified(kind, config, live, lastApplied) ==
    LET c == Normalize(kind, Remarshal(kind, config))
        l == Normalize(kind, Remarshal(kind, live))
    IN  IF lastApplied = <<>> THEN ThreeWayDiff(kind, c, c, l)
        ELSE ThreeWayDiff(kind, Normalize(kind, lastApplied[1]), c, l)
===============================================================================
