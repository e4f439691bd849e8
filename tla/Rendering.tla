------------------------------- MODULE Rendering ------------------------------
(***************************************************************************)
(* From the value of a jsonnet program to the manifest of a revision and   *)
(* its snapshot: the walk for objects (json_walk.go), the lists and the    *)
(* namespaces (builder.go), the order (object_sorter.go, output.go) and    *)
(* what the snapshot keeps of it (snapshot_types.go).                      *)
(*                                                                         *)
(* A document is a pair of its type and its value: null, a scalar, a map   *)
(* of fields, a list, an object (a map with a kind and an apiVersion) or a *)
(* bundle (an object with a list of items, such as a List).  Go visits a   *)
(* map in any order, so a document has several walks.                      *)
(***************************************************************************)
EXTENDS SequencesExt, FiniteSetsExt, Integers

CONSTANTS
    Values,       \* the values a program may have, and the values in them
    Height,       \* how deep each of them nests
    MaxNesting,   \* how deep a value may nest: json.Unmarshal has a limit
    Namespaced,   \* for each kind in the REST mapper, whether it has a namespace
    KonfigNs,     \* the namespace of the Konfiguration
    NameRank      \* the order of "namespace/name", for each <<ns, name>>

Null      == <<"null">>
Scalar(s) == <<"scalar", s>>
Map(f)    == <<"map", f>>
List(s)   == <<"list", s>>
Object(o) == <<"object", o>>
Bundle(s) == <<"bundle", s>>

IsObject(doc) == doc[1] \in {"object", "bundle"}

\* Values are finite, and Values holds those in them.  The fields of an
\* object are the strings its metadata has.
ASSUME ValuesAssumption ==
    /\ Height \in [Values -> 0..MaxNesting] /\ MaxNesting \in Nat
    /\ \A v \in Values :
        /\ v[1] \in {"null", "scalar", "map", "list", "object", "bundle"}
        /\ v[1] = "object" => v[2] \in [kind : STRING, ns : STRING, name : STRING]
        /\ v[1] = "map" => IsFiniteSet(DOMAIN v[2])
        /\ v[1] \in {"list", "bundle"} => v[2] \in Seq(Values)
        /\ v[1] \in {"map", "list", "bundle"} =>
                \A k \in DOMAIN v[2] : v[2][k] \in Values /\ Height[v[2][k]] < Height[v]

ASSUME NamespacesAssumption ==
    Namespaced \in [DOMAIN Namespaced -> BOOLEAN] /\ KonfigNs \in STRING

ASSUME NameRankAssumption ==
    \A v \in Values : v[1] = "object" =>
        \A ns \in {"", KonfigNs, v[2].ns} : NameRank[<<ns, v[2].name>>] \in Nat

-------------------------------------------------------------------------------
(* jsonWalk *)

\* The orders in which the children of a map or a list are walked.
Orders(doc) == IF doc[1] = "list" THEN {[i \in DOMAIN doc[2] |-> i]}
               ELSE SetToSeqs(DOMAIN doc[2])

\* One walk of each child, out of those it may have.
Parts(doc, walks) ==
    {p \in [DOMAIN doc[2] -> UNION Range(walks)] : \A k \in DOMAIN doc[2] : p[k] \in walks[k]}

\* Mutant of Joined: of a child that holds several objects only one is kept.
JoinedFirsts(doc, walks) ==
    LET first(s) == IF s = <<>> THEN <<>> ELSE <<Head(s)>>
    IN  {FlattenSeq([i \in DOMAIN order |-> first(part[order[i]])]) :
            order \in Orders(doc), part \in Parts(doc, walks)}

\* The children's objects, appended one child after the other.
Joined(doc, walks) ==
    {FlattenSeq([i \in DOMAIN order |-> part[order[i]]]) :
        order \in Orders(doc), part \in Parts(doc, walks)}

\* The sequences of objects the walk may return: none when it meets a scalar,
\* which is neither an object nor holds any.
Walks[doc \in Values] ==
    CASE doc[1] = "null"   -> {<<>>}
      [] doc[1] = "scalar" -> {}
      [] IsObject(doc)     -> {<<doc>>}
      [] OTHER             -> Joined(doc, [k \in DOMAIN doc[2] |-> Walks[doc[2][k]]])

-------------------------------------------------------------------------------
(* Build: lists and namespaces *)

\* What the walk's objects stand for: themselves or their items.  ToList
\* refuses an item that is not an object.
ItemsOf(doc)   == IF doc[1] = "bundle" THEN doc[2] ELSE <<doc>>
ToListFails(s) == \E i \in DOMAIN s : \E j \in DOMAIN ItemsOf(s[i]) : ItemsOf(s[i])[j][1] # "object"

\* The loop over the items appends the address of its variable, which after
\* the loop is that of the last one.
Appended(doc) == LET s == ItemsOf(doc)
                 IN  [i \in DOMAIN s |-> s[Len(s)][2]]

\* checkNamespace: a kind the mapper does not know fails the build.
Unknown(s) == \E i \in DOMAIN s : \E j \in DOMAIN ItemsOf(s[i]) :
                ItemsOf(s[i])[j][2].kind \notin DOMAIN Namespaced

Placed(o) == IF Namespaced[o.kind] /\ o.ns = "" THEN [o EXCEPT !.ns = KonfigNs] ELSE o

\* The objects of a walk, in the order they are appended to the output.
Output(s) ==
    FlattenSeq([i \in DOMAIN s |-> [j \in DOMAIN Appended(s[i]) |-> Placed(Appended(s[i])[j])]])

-------------------------------------------------------------------------------
(* ObjectSorter *)

First == <<"Namespace", "CustomResourceDefinition">>

\* Mutant of Less: the kinds that others need have no place of their own.
LessByName(o, p) == NameRank[<<o.ns, o.name>>] < NameRank[<<p.ns, p.name>>]

Group(o) == IF o.kind = First[1] THEN 1 ELSE IF o.kind = First[2] THEN 2 ELSE 3

\* Mutant of Less: the other objects are not ordered among themselves.
LessByGroup(o, p) == Group(o) < Group(p)

\* What objects of a group are ordered by.
SortName(o) == NameRank[IF Group(o) = 3 THEN <<o.ns, o.name>> ELSE <<"", o.name>>]

\* Namespaces, then definitions, then by namespace and name: objects of
\* different kinds may tie.
Less(o, p) == \/ Group(o) < Group(p)
              \/ Group(o) = Group(p) /\ SortName(o) < SortName(p)

\* What sort.Sort may make of s: it promises nothing of the order of ties.
Sorts(s) ==
    {[i \in DOMAIN s |-> s[place[i]]] :
        place \in {p \in SetToSeqs(DOMAIN s) :
                    \A i, j \in DOMAIN s : i < j => ~Less(s[p[j]], s[p[i]])}}

-------------------------------------------------------------------------------
(* Snapshot: the checksum is the sequence of the objects *)

\* Mutant of AddEntry: a further kind of a namespace replaces the first.
ReplaceEntry(entries, o) ==
    [n \in DOMAIN entries \union {o.ns} |-> IF n = o.ns THEN {o.kind} ELSE entries[n]]

AddEntry(entries, o) ==
    [n \in DOMAIN entries \union {o.ns} |->
        (IF n \in DOMAIN entries THEN entries[n] ELSE {}) \union (IF n = o.ns THEN {o.kind} ELSE {})]

NoEntries == [n \in {} |-> {}]

NewSnapshot(objects) ==
    LET entries[i \in 0..Len(objects)] ==
            IF i = 0 THEN NoEntries ELSE AddEntry(entries[i - 1], objects[i])
    IN  [checksum |-> objects, entries |-> entries[Len(objects)]]

NonNamespacedKinds(snapshot) == UNION {snapshot.entries[n] : n \in DOMAIN snapshot.entries \cap {""}}

NamespacedKinds(snapshot) == [n \in DOMAIN snapshot.entries \ {""} |-> snapshot.entries[n]]
===============================================================================
