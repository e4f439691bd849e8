------------------------------- MODULE MCDrift --------------------------------
(***************************************************************************)
(* Instances of Drift for TLC: a few documents of every kind that takes a  *)
(* path of its own through Diff.                                           *)
(***************************************************************************)
EXTENDS Drift

\* A map with another field.
With(m, k, v) == Map([x \in Keys(m) \union {k} |-> IF x = k THEN v ELSE Sub(m, x)])

One == Str("1")
Two == Str("2")

Filled == [d |-> Str("default")]

ItemA == Map([x |-> One])
ItemB == Map([x |-> Two])
FullA == Map([x |-> One] @@ Filled)
FullB == Map([x |-> Two] @@ Filled)

\* The order of the hashes is not the order before the defaults.
Hash(item) == CASE item = ItemA -> 1
                [] item = ItemB -> 2
                [] item = FullB -> 3
                [] item = FullA -> 4
                [] OTHER        -> 5

Field(k, values) == {Map(NoFields)} \union {Map(k :> v) : v \in values}

\* All documents with one of these specs and one of these lists.
Documents(bases, lists) ==
    {With(Map(Fields(b) @@ Fields(l)), "metadata", Map(NoFields)) : b \in bases, l \in lists}

Lists(ls) == Field("list", {List(l) : l \in ls})

Specs == Field("spec", {Map([x |-> One]), Map([x |-> Two, y |-> One])})

Exported == Map([metadata |-> Map([creationTimestamp |-> Null, namespace |-> Str("default"),
                                   annotations |-> Map(NoFields)]),
                 spec |-> Map([x |-> One])])

KindDocuments ==
    [Widget      |-> Documents(Specs, Lists({<<ItemA>>, <<ItemB, ItemA>>})) \union {Exported},
     Policy      |-> Documents({Map([spec |-> Map([x |-> One])])},
                               Lists({<<ItemA>>, <<FullA, FullB>>})),
     StatefulSet |-> Documents({Map([spec |-> Map([x |-> One])])},
                               Lists({<<ItemA>>, <<ItemB, ItemA>>})),
     Endpoints   |-> Documents({Map(NoFields)}, Lists({<<ItemA, ItemB>>, <<FullA, FullB>>, <<FullB, FullA>>})),
     Secret      |-> Documents(Field("data", {Map([k |-> One]), Map([k |-> Null])}),
                               Field("stringData", {Map([k |-> Two]), Map([j |-> One])})),
     Role        |-> Documents({Map(NoFields)}, Lists({<<>>, <<ItemA>>}))]


KindConfigs == KindDocuments   \* computed once

AllRegistered == DOMAIN KindConfigs \ {"Widget"}

\* diff.Scheme registers types and no defaulting functions.
NoSchemeDefaults == NoFields

KindDefaults == [k \in DOMAIN KindConfigs |-> IF k \in {"Role", "Secret"} THEN NoFields ELSE Filled]

Drifted == Str("9")

\* A field goes or changes, or a list is cut, extended or turned.
KindEdits(doc) ==
    LET keys == Keys(doc) \ {"metadata"}
        maps == {k \in keys : Sub(doc, k)[<<>>] = Obj}
    IN  {Without(doc, {<<k>>}) : k \in keys}
        \union UNION {{With(doc, k, Without(Sub(doc, k), {<<i>>})) : i \in Keys(Sub(doc, k))}
                      : k \in maps}
        \union UNION {{With(doc, k, With(Sub(doc, k), i, Drifted)) : i \in {"x", "k"}} : k \in maps}
        \union UNION {LET l == Items(Sub(doc, k))
                      IN  {With(doc, k, List(e)) :
                            e \in {Append(l, Map([x |-> Drifted]))}
                                  \union {Tail(x) : x \in {l} \ {<<>>}}}
                      : k \in {"list"} \cap keys}
===============================================================================
