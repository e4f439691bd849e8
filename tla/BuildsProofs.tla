------------------------------ MODULE BuildsProofs -----------------------------
(***************************************************************************)
(* What TLAPS proves of Builds, for any programs, documents and REST       *)
(* mapper: a build renders every object once, its snapshot covers what it  *)
(* applies, what is needed comes first, the checksum of a document stays;  *)
(* and what is proved of Imports.                                          *)
(*                                                                         *)
(* The walk and the places of the objects are recursive functions of the   *)
(* document.  By induction on its height every walk returns the objects of *)
(* all places, each once; so two walks are rearrangements of one another,  *)
(* and sorting leaves them no difference but ties.                         *)
(***************************************************************************)
EXTENDS Builds, ImportsProofs, DataLemmas

Objects == [kind : STRING, ns : STRING, name : STRING]

Compound(doc) == doc[1] \in {"map", "list"}

\* The values that nest less than n deep.
Below(n) == {v \in Values : Height[v] < n}

LEMMA BelowAll == Below(MaxNesting + 1) = Values
BY ValuesAssumption DEF Below

\* What is in a map or a list.
LEMMA Children ==
    ASSUME NEW doc \in Values, Compound(doc), NEW k \in DOMAIN doc[2]
    PROVE  /\ doc[2][k] \in Values
           /\ Height[doc[2][k]] \in Nat /\ Height[doc[2][k]] < Height[doc] /\ Height[doc] \in Nat
BY ValuesAssumption DEF Compound

-------------------------------------------------------------------------------
(* The recursive definitions *)

WalkStep(g, doc) ==
    CASE doc[1] = "null"   -> {<<>>}
      [] doc[1] = "scalar" -> {}
      [] IsObject(doc)     -> {<<doc>>}
      [] OTHER             -> Joined(doc, [k \in DOMAIN doc[2] |-> g[doc[2][k]]])

PlaceStep(g, doc) ==
    IF IsObject(doc) THEN {<<<<>>, doc>>}
    ELSE IF doc[1] \in {"map", "list"}
         THEN Within(doc, [k \in DOMAIN doc[2] |-> g[doc[2][k]]])
         ELSE {}

Step(of, g, doc) == IF of = "walks" THEN WalkStep(g, doc) ELSE PlaceStep(g, doc)

\* They depend on the values inside only.
LEMMA StepsLocal ==
    ASSUME NEW of, NEW g, NEW h, NEW doc \in Values,
           Compound(doc) => \A k \in DOMAIN doc[2] : g[doc[2][k]] = h[doc[2][k]]
    PROVE  Step(of, g, doc) = Step(of, h, doc)
<1>1. CASE Compound(doc)
  <2>1. [k \in DOMAIN doc[2] |-> g[doc[2][k]]] = [k \in DOMAIN doc[2] |-> h[doc[2][k]]]
    BY <1>1
  <2>2. WalkStep(g, doc) = WalkStep(h, doc)
    BY <2>1, Zenon DEF WalkStep
  <2>3. PlaceStep(g, doc) = PlaceStep(h, doc)
    BY <2>1, Zenon DEF PlaceStep
  <2> QED
    BY <2>2, <2>3 DEF Step
<1>2. CASE ~Compound(doc)
  <2>1. doc[1] \in {"null", "scalar", "object", "bundle"}
    BY <1>2, ValuesAssumption DEF Compound
  <2> QED
    BY <1>2, <2>1 DEF Step, WalkStep, PlaceStep, Compound, IsObject
<1> QED
  BY <1>1, <1>2

LEMMA Recursion ==
    ASSUME NEW of
    PROVE  \E h : h = [doc \in Values |-> Step(of, h, doc)]
<1> DEFINE Is(g, n) == g = [doc \in Below(n) |-> Step(of, g, doc)]
           A == {n \in Nat : \E g : Is(g, n)}
<1>1. 0 \in A
  <2>1. Below(0) = {}
    BY ValuesAssumption DEF Below
  <2>2. Is(<<>>, 0)
    BY <2>1
  <2> QED
    BY <2>2
<1>2. ASSUME NEW n \in A PROVE n + 1 \in A
  <2>1. PICK g : Is(g, n)
    OBVIOUS
  <2> DEFINE h == [doc \in Below(n + 1) |-> Step(of, g, doc)]
  <2>2. \A doc \in Below(n) : doc \in Below(n + 1)
    BY ValuesAssumption DEF Below
  <2>3. \A doc \in Below(n) : g[doc] = h[doc]
    BY <2>1, <2>2, Zenon
  <2>4. ASSUME NEW doc \in Below(n + 1) PROVE Step(of, g, doc) = Step(of, h, doc)
    <3>1. doc \in Values /\ Height[doc] < n + 1 /\ n \in Nat
      BY DEF Below
    <3>2. Compound(doc) => \A k \in DOMAIN doc[2] : doc[2][k] \in Below(n)
      BY <3>1, Children DEF Below
    <3> HIDE DEF h
    <3> QED
      BY <2>3, <3>1, <3>2, StepsLocal
  <2>5. Is(h, n + 1)
    BY <2>4
  <2> HIDE DEF Is
  <2> QED
    BY <2>5
<1>3. A = Nat
  <2>1. A \in SUBSET Nat
    OBVIOUS
  <2> HIDE DEF A
  <2> QED
    BY <1>1, <1>2, <2>1, Induction
<1> QED
  BY <1>3, BelowAll, ValuesAssumption

LEMMA WalksDef == \A doc \in Values : Walks[doc] = WalkStep(Walks, doc)
<1> DEFINE Is(g) == g = [doc \in Values |-> WalkStep(g, doc)]
           c == CHOOSE g : Is(g)
<1>1. Walks = c
  BY Zenon DEF Walks, WalkStep
<1>2. PICK h : h = [doc \in Values |-> Step("walks", h, doc)]
  BY Recursion
<1>3. Is(h)
  BY <1>2 DEF Step
<1> HIDE DEF Is, c
<1>4. Is(c)
  BY <1>3, Zenon DEF c
<1> QED
  BY <1>1, <1>4, Zenon DEF Is

LEMMA PlacesDef == \A doc \in Values : Places[doc] = PlaceStep(Places, doc)
<1> DEFINE Is(g) == g = [doc \in Values |-> PlaceStep(g, doc)]
           c == CHOOSE g : Is(g)
<1>1. Places = c
  BY Zenon DEF Places, PlaceStep
<1>2. PICK h : h = [doc \in Values |-> Step("places", h, doc)]
  BY Recursion
<1>3. Is(h)
  BY <1>2 DEF Step
<1> HIDE DEF Is, c
<1>4. Is(c)
  BY <1>3, Zenon DEF c
<1> QED
  BY <1>1, <1>4, Zenon DEF Is

LEMMA PlacesArePairs ==
    \A doc \in Values : \A p \in Places[doc] : p = <<p[1], p[2]>>
<1> SUFFICES ASSUME NEW doc \in Values, NEW p \in Places[doc] PROVE p = <<p[1], p[2]>>
  OBVIOUS
<1>1. CASE IsObject(doc)
  <2> DEFINE here == <<>>
  <2>1. Places[doc] = {<<here, doc>>}
    BY <1>1, PlacesDef, Zenon DEF PlaceStep
  <2> HIDE DEF here
  <2> QED
    BY <2>1
<1>2. CASE ~IsObject(doc)
  <2> DEFINE ps == [k \in DOMAIN doc[2] |-> Places[doc[2][k]]]
  <2>1. p \in Within(doc, ps)
    BY <1>2, PlacesDef DEF PlaceStep
  <2> HIDE DEF ps
  <2> QED
    BY <2>1 DEF Within
<1> QED
  BY <1>1, <1>2

-------------------------------------------------------------------------------
(* A walk finds every object *)

\* The objects and lists a walk returns are those in the document, each once.
Finds(w, doc) ==
    /\ w \in Seq(Values)
    /\ \E b : OneToOne(b, 1..Len(w), Places[doc]) /\ \A i \in 1..Len(w) : w[i] = b[i][2]

\* The order of the children is a one-to-one map onto them.
LEMMA OrderOfChildren ==
    ASSUME NEW doc \in Values, Compound(doc), NEW order \in Orders(doc)
    PROVE  \E n \in Nat : DOMAIN order = 1..n /\ OneToOne(order, 1..n, DOMAIN doc[2])
<1>1. CASE doc[1] = "list"
  <2>1. /\ Len(doc[2]) \in Nat /\ DOMAIN doc[2] = 1..Len(doc[2])
    BY <1>1, ValuesAssumption
  <2>2. order = [i \in 1..Len(doc[2]) |-> i]
    BY <1>1, <2>1 DEF Orders
  <2> QED
    BY <2>1, <2>2 DEF OneToOne
<1>2. CASE doc[1] # "list"
  <2>1. IsFiniteSet(DOMAIN doc[2]) /\ Cardinality(DOMAIN doc[2]) \in Nat
    BY <1>2, ValuesAssumption, FS_CardinalityType DEF Compound
  <2>2. order \in SetToSeqs(DOMAIN doc[2])
    BY <1>2 DEF Orders
  <2>3. OneToOne(order, 1..Cardinality(DOMAIN doc[2]), DOMAIN doc[2])
    BY <2>1, <2>2, SeqsOfSet
  <2> QED
    BY <2>1, <2>3 DEF OneToOne
<1> QED
  BY <1>1, <1>2

LEMMA CompoundFinds ==
    ASSUME NEW doc \in Values, Compound(doc), NEW w \in Walks[doc],
           \A k \in DOMAIN doc[2] : \A v \in Walks[doc[2][k]] : Finds(v, doc[2][k])
    PROVE  Finds(w, doc)
<1> DEFINE keys == DOMAIN doc[2]
           ws == [k \in keys |-> Walks[doc[2][k]]]
           ps == [k \in keys |-> Places[doc[2][k]]]
<1>1. Walks[doc] = Joined(doc, ws) /\ Places[doc] = Within(doc, ps)
  <2>1. doc[1] \in {"map", "list"}
    BY DEF Compound
  <2> QED
    BY <2>1, WalksDef, PlacesDef DEF WalkStep, PlaceStep, IsObject
<1> HIDE DEF ws, ps
<1>2. PICK order \in Orders(doc), part \in Parts(doc, ws) :
        w = FlattenSeq([i \in DOMAIN order |-> part[order[i]]])
  BY <1>1 DEF Joined
<1>3. PICK n \in Nat : DOMAIN order = 1..n /\ OneToOne(order, 1..n, keys)
  BY OrderOfChildren
<1>4. \A k \in keys : part[k] \in Walks[doc[2][k]]
  BY DEF Parts, ws
<1> DEFINE ss == [i \in 1..n |-> part[order[i]]]
           Fits(b, k) == /\ OneToOne(b, 1..Len(part[k]), Places[doc[2][k]])
                         /\ \A i \in 1..Len(part[k]) : part[k][i] = b[i][2]
           B == [k \in keys |-> CHOOSE b : Fits(b, k)]
<1>5. \A k \in keys : part[k] \in Seq(Values) /\ \E b : Fits(b, k)
  BY <1>4 DEF Finds
<1>6. \A k \in keys : Fits(B[k], k)
  <2> HIDE DEF Fits
  <2>1. ASSUME NEW k \in keys PROVE Fits(CHOOSE b : Fits(b, k), k)
    BY <1>5, Zenon
  <2> QED
    BY <2>1
<1> HIDE DEF B
<1>7. ss \in Seq(Seq(Values)) /\ Len(ss) = n /\ \A i \in 1..n : ss[i] = part[order[i]]
  <2>1. \A i \in 1..n : order[i] \in keys
    BY <1>3 DEF OneToOne
  <2> QED
    BY <1>5, <2>1
<1>8. w = FlattenSeq(ss)
  BY <1>2, <1>3
<1> HIDE DEF ss
<1>9. PICK f : w \in Seq(Values) /\ Lists(w, ss, n, f)
  BY <1>7, <1>8, FlattenLists
<1> DEFINE cells == Cells(ss, n)
           key(c) == order[c[1]]
           at(c) == B[key(c)][c[2]]
           q == [c \in cells |-> <<<<key(c), at(c)[1]>>, at(c)[2]>>]
<1>10. /\ \A c \in cells : /\ c = <<c[1], c[2]>> /\ c[1] \in 1..n /\ c[2] \in 1..Len(part[key(c)])
                           /\ key(c) \in keys
       /\ \A i \in 1..n : \A j \in 1..Len(part[order[i]]) : <<i, j>> \in cells
  <2>1. \A i \in 1..n : order[i] \in keys
    BY <1>3 DEF OneToOne
  <2> QED
    BY <1>7, <2>1 DEF Cells
<1>11. \A k \in keys : ps[k] = Places[doc[2][k]]
  BY DEF ps
<1> HIDE DEF cells
<1>12. OneToOne(q, cells, Places[doc])
  <2>1. Places[doc] = UNION {{<<<<k, p[1]>>, p[2]>> : p \in ps[k]} : k \in keys}
    BY <1>1 DEF Within
  <2>2. ASSUME NEW c \in cells PROVE q[c] \in Places[doc] /\ at(c) \in Places[doc[2][key(c)]]
    <3>1. at(c) \in Places[doc[2][key(c)]] /\ key(c) \in keys
      BY <1>6, <1>10 DEF OneToOne
    <3> QED
      BY <1>11, <2>1, <3>1
  <2>3. ASSUME NEW c \in cells, NEW d \in cells, q[c] = q[d] PROVE c = d
    <3>1. key(c) = key(d) /\ at(c)[1] = at(d)[1] /\ at(c)[2] = at(d)[2]
      BY <2>3
    <3>2. c[1] = d[1]
      BY <1>3, <1>10, <3>1 DEF OneToOne
    <3>3. at(c) = at(d)
      <4>1. at(c) = <<at(c)[1], at(c)[2]>> /\ at(d) = <<at(d)[1], at(d)[2]>>
        BY <1>10, <2>2, Children, PlacesArePairs
      <4> QED
        BY <3>1, <4>1
    <3>4. c[2] = d[2]
      BY <1>6, <1>10, <3>1, <3>3 DEF OneToOne
    <3> QED
      BY <1>10, <3>2, <3>4
  <2>4. ASSUME NEW x \in Places[doc] PROVE \E c \in cells : q[c] = x
    <3>1. PICK k \in keys : \E p \in Places[doc[2][k]] : x = <<<<k, p[1]>>, p[2]>>
      BY <1>11, <2>1
    <3>2. PICK p \in Places[doc[2][k]] : x = <<<<k, p[1]>>, p[2]>>
      BY <3>1
    <3>3. PICK j \in 1..Len(part[k]) : B[k][j] = p
      BY <1>6 DEF OneToOne
    <3>4. PICK i \in 1..n : order[i] = k
      BY <1>3 DEF OneToOne
    <3>5. <<i, j>> \in cells /\ q[<<i, j>>] = x
      BY <1>10, <3>2, <3>3, <3>4
    <3> QED
      BY <3>5
  <2>5. q \in [cells -> Places[doc]]
    BY <2>2
  <2> HIDE DEF q
  <2> QED
    BY <2>3, <2>4, <2>5 DEF OneToOne
<1> DEFINE b == [i \in 1..Len(w) |-> q[f[i]]]
<1>13. OneToOne(f, 1..Len(w), cells) /\ \A i \in 1..Len(w) : w[i] = ss[f[i][1]][f[i][2]]
  BY <1>9 DEF Lists, cells
<1>14. OneToOne(b, 1..Len(w), Places[doc])
  <2> HIDE DEF q
  <2> QED
    BY <1>12, <1>13, Composed
<1>15. ASSUME NEW i \in 1..Len(w) PROVE w[i] = b[i][2]
  <2>1. f[i] \in cells
    BY <1>13 DEF OneToOne
  <2>2. b[i][2] = at(f[i])[2]
    BY <2>1
  <2>3. at(f[i])[2] = part[key(f[i])][f[i][2]]
    BY <1>6, <1>10, <2>1
  <2> QED
    BY <1>7, <1>10, <1>13, <2>1, <2>2, <2>3
<1> HIDE DEF b
<1> QED
  BY <1>9, <1>14, <1>15 DEF Finds

\* By induction on how deep a value nests.
LEMMA WalksFind ==
    \A doc \in Values : \A w \in Walks[doc] : Finds(w, doc)
<1> DEFINE Good(doc) == \A w \in Walks[doc] : Finds(w, doc)
           A == {n \in Nat : \A doc \in Below(n) : Good(doc)}
<1>1. 0 \in A
  BY ValuesAssumption DEF Below
<1>2. ASSUME NEW n \in A PROVE n + 1 \in A
  <2> SUFFICES ASSUME NEW doc \in Below(n + 1), NEW w \in Walks[doc] PROVE Finds(w, doc)
    OBVIOUS
  <2>1. doc \in Values /\ n \in Nat /\ Height[doc] < n + 1
    BY DEF Below
  <2>2. CASE doc[1] = "null"
    <3>1. Walks[doc] = {<<>>} /\ Places[doc] = {}
      BY <2>1, <2>2, WalksDef, PlacesDef DEF WalkStep, PlaceStep, IsObject
    <3> DEFINE none == <<>>
    <3>2. none \in Seq(Values) /\ Len(none) = 0 /\ w = none
      BY <3>1
    <3> HIDE DEF none
    <3>3. OneToOne(none, 1..0, {})
      BY DEF OneToOne, none
    <3>4. /\ OneToOne(none, 1..Len(none), Places[doc])
          /\ \A i \in 1..Len(none) : none[i] = none[i][2]
      BY <3>1, <3>2, <3>3
    <3>5. Finds(none, doc)
      BY <3>2, <3>4 DEF Finds
    <3> QED
      BY <3>2, <3>5
  <2>3. CASE doc[1] = "scalar"
    BY <2>1, <2>3, WalksDef DEF WalkStep, IsObject
  <2>4. CASE IsObject(doc)
    <3> DEFINE place == <<<<>>, doc>>
               b == [i \in 1..1 |-> place]
               one == <<doc>>
    <3>1. Walks[doc] = {one} /\ Places[doc] = {place}
      BY <2>1, <2>4, WalksDef, PlacesDef DEF WalkStep, PlaceStep, IsObject
    <3>2. one \in Seq(Values) /\ Len(one) = 1 /\ one[1] = doc /\ w = one /\ place[2] = doc
      BY <2>1, <3>1
    <3> HIDE DEF one, place
    <3>3. OneToOne(b, 1..1, {place}) /\ \A i \in 1..1 : b[i][2] = doc /\ i = 1
      BY <3>2 DEF OneToOne
    <3> HIDE DEF b
    <3> QED
      BY <3>1, <3>2, <3>3 DEF Finds
  <2>5. CASE Compound(doc)
    <3>1. \A k \in DOMAIN doc[2] : doc[2][k] \in Below(n)
      BY <2>1, <2>5, Children DEF Below
    <3> QED
      BY <2>1, <2>5, <3>1, CompoundFinds
  <2> QED
    BY <2>1, <2>2, <2>3, <2>4, <2>5, ValuesAssumption DEF Compound, IsObject
<1>3. A = Nat
  <2>1. A \in SUBSET Nat
    OBVIOUS
  <2> HIDE DEF A
  <2> QED
    BY <1>1, <1>2, <2>1, Induction
<1> QED
  BY <1>3, BelowAll, ValuesAssumption

-------------------------------------------------------------------------------
(* The output *)

\* Objects the order can tell apart by numbers.
Ranked == {o \in Objects : SortName(o) \in Nat}

Row(d) == [j \in DOMAIN Appended(d) |-> Placed(Appended(d)[j])]
Rows(w) == [i \in DOMAIN w |-> Row(w[i])]

\* A walk that the build goes on with.
Accepted(w) == w \in Seq(Values) /\ ~ToListFails(w) /\ ~Unknown(w)

LEMMA PlacedRanked ==
    ASSUME NEW d \in Values, d[1] = "object"
    PROVE  Placed(d[2]) \in Ranked
<1> DEFINE o == d[2]
           p == Placed(o)
<1>1. o \in Objects /\ KonfigNs \in STRING
  BY ValuesAssumption, NamespacesAssumption DEF Objects
<1>2. p \in Objects /\ p.name = o.name /\ p.ns \in {"", KonfigNs, o.ns}
  <2> HIDE DEF o
  <2> QED
    BY <1>1 DEF Placed, Objects
<1>3. \A ns \in {"", KonfigNs, o.ns} : NameRank[<<ns, o.name>>] \in Nat
  BY NameRankAssumption
<1> HIDE DEF o, p
<1>4. SortName(p) = NameRank[<<p.ns, o.name>>] \/ SortName(p) = NameRank[<<"", o.name>>]
  BY <1>2 DEF SortName
<1>5. SortName(p) \in Nat
  BY <1>2, <1>3, <1>4
<1> QED
  BY <1>2, <1>5 DEF Ranked, p, o

LEMMA RowTyped ==
    ASSUME NEW w, Accepted(w), NEW i \in 1..Len(w)
    PROVE  /\ Row(w[i]) \in Seq(Ranked)
           /\ Len(Row(w[i])) = Len(ItemsOf(w[i]))
<1> DEFINE items == ItemsOf(w[i])
           row == Row(w[i])
           n == Len(items)
<1>1. w[i] \in Values
  BY DEF Accepted
<1>2. items \in Seq(Values) /\ n \in Nat /\ DOMAIN items = 1..n
  <2>1. CASE w[i][1] = "bundle"
    <3>1. items = w[i][2] /\ w[i][2] \in Seq(Values)
      BY <1>1, <2>1, ValuesAssumption DEF ItemsOf
    <3> HIDE DEF items
    <3> QED
      BY <3>1
  <2>2. CASE w[i][1] # "bundle"
    <3> DEFINE one == <<w[i]>>
    <3>1. one \in Seq(Values)
      BY <1>1
    <3>2. items = one
      BY <2>2 DEF ItemsOf
    <3> HIDE DEF items, one
    <3> QED
      BY <3>1, <3>2
  <2> QED
    BY <2>1, <2>2
<1>3. \A j \in 1..n : items[j] \in Values /\ items[j][1] = "object"
  BY <1>2 DEF Accepted, ToListFails
<1>4. row = [j \in 1..n |-> Placed(items[n][2])]
  BY <1>2 DEF Row, Appended
<1> HIDE DEF items, row, n
<1>5. \A j \in 1..n : Placed(items[n][2]) \in Ranked
  <2> SUFFICES ASSUME NEW j \in 1..n PROVE Placed(items[n][2]) \in Ranked
    OBVIOUS
  <2>1. n \in 1..n
    BY <1>2
  <2> QED
    BY <1>3, <2>1, PlacedRanked
<1>6. row \in [1..n -> Ranked]
  BY <1>4, <1>5
<1>7. row \in Seq(Ranked) /\ Len(row) = n
  BY <1>2, <1>6
<1> QED
  BY <1>7 DEF items, row, n

LEMMA RowsTyped ==
    ASSUME NEW w, Accepted(w)
    PROVE  /\ Rows(w) \in Seq(Seq(Ranked)) /\ Len(Rows(w)) = Len(w) /\ DOMAIN Rows(w) = DOMAIN w
           /\ Output(w) = FlattenSeq(Rows(w))
           /\ Output(w) \in Seq(Ranked)
<1>1. DOMAIN w = 1..Len(w) /\ Len(w) \in Nat
  BY DEF Accepted
<1>2. \A i \in 1..Len(w) : Row(w[i]) \in Seq(Ranked)
  BY RowTyped
<1>3. Rows(w) \in [1..Len(w) -> Seq(Ranked)]
  BY <1>1, <1>2 DEF Rows
<1>4. Rows(w) \in Seq(Seq(Ranked)) /\ Len(Rows(w)) = Len(w) /\ DOMAIN Rows(w) = DOMAIN w
  BY <1>1, <1>3
<1>5. Output(w) = FlattenSeq(Rows(w))
  BY DEF Output, Rows, Row
<1> QED
  BY <1>4, <1>5, FlattenLists

\* Whatever order the maps of a document are walked in, the output has the
\* same objects, each as often.
LEMMA OutputsPermuted ==
    ASSUME NEW doc \in Values, NEW v \in Walks[doc], NEW w \in Walks[doc],
           Accepted(v), Accepted(w)
    PROVE  \E p : Permutes(p, Output(v), Output(w))
<1>1. PICK b : OneToOne(b, 1..Len(v), Places[doc]) /\ \A i \in 1..Len(v) : v[i] = b[i][2]
  BY WalksFind DEF Finds
<1>2. PICK c : OneToOne(c, 1..Len(w), Places[doc]) /\ \A i \in 1..Len(w) : w[i] = c[i][2]
  BY WalksFind DEF Finds
<1>3. PICK g : OneToOne(g, Places[doc], 1..Len(w)) /\ \A y \in Places[doc] : c[g[y]] = y
  BY <1>2, Inverted
<1> DEFINE h == [i \in 1..Len(v) |-> g[b[i]]]
<1>4. OneToOne(h, 1..Len(v), 1..Len(w))
  BY <1>1, <1>3, Composed
<1>5. ASSUME NEW i \in 1..Len(v) PROVE w[h[i]] = v[i]
  <2>1. b[i] \in Places[doc] /\ v[i] = b[i][2]
    BY <1>1 DEF OneToOne
  <2>2. h[i] \in 1..Len(w) /\ c[h[i]] = b[i]
    BY <1>3, <2>1 DEF OneToOne
  <2> QED
    BY <1>2, <2>1, <2>2
<1> HIDE DEF h
<1>6. DOMAIN v = 1..Len(v) /\ DOMAIN w = 1..Len(w)
  BY DEF Accepted
<1>7. DOMAIN Rows(v) = DOMAIN v /\ DOMAIN Rows(w) = DOMAIN w
  BY RowsTyped
<1>8. \A i \in 1..Len(v) : Rows(w)[h[i]] = Rows(v)[i]
  BY <1>4, <1>5, <1>6 DEF Rows, OneToOne
<1>9. Permutes(h, Rows(v), Rows(w))
  BY <1>4, <1>6, <1>7, <1>8 DEF Permutes
<1> QED
  BY <1>9, RowsTyped, FlattenPermutes

-------------------------------------------------------------------------------
(* The order *)

LEMMA SortsOrder ==
    ASSUME NEW S, NEW s \in Seq(S), NEW r \in Sorts(s)
    PROVE  /\ r \in Seq(S)
           /\ \E h : Permutes(h, r, s)
           /\ \A i, j \in 1..Len(r) : i < j => ~Less(r[j], r[i])
<1>1. Len(s) \in Nat /\ DOMAIN s = 1..Len(s)
  OBVIOUS
<1>2. PICK place \in SetToSeqs(1..Len(s)) :
        /\ r = [i \in 1..Len(s) |-> s[place[i]]]
        /\ \A i, j \in 1..Len(s) : i < j => ~Less(s[place[j]], s[place[i]])
  BY <1>1 DEF Sorts
<1>3. OneToOne(place, 1..Len(s), 1..Len(s))
  <2>1. IsFiniteSet(1..Len(s)) /\ Cardinality(1..Len(s)) = Len(s)
    BY <1>1, FS_Interval
  <2> QED
    BY <2>1, SeqsOfSet
<1>4. \A i \in 1..Len(s) : place[i] \in 1..Len(s) /\ r[i] = s[place[i]]
  BY <1>2, <1>3 DEF OneToOne
<1>5. r \in Seq(S) /\ Len(r) = Len(s) /\ DOMAIN r = 1..Len(s)
  BY <1>1, <1>2, <1>4
<1>6. Permutes(place, r, s)
  BY <1>1, <1>3, <1>4, <1>5 DEF Permutes
<1> QED
  BY <1>2, <1>4, <1>5, <1>6

LEMMA GroupTyped == \A o : Group(o) \in 1..3
BY DEF Group

\* Of two objects that do not tie, one comes first.
LEMMA LessTotal ==
    ASSUME NEW o \in Ranked, NEW p \in Ranked
    PROVE  /\ ~(Less(o, p) /\ Less(p, o))
           /\ Less(o, p) \/ Less(p, o) \/ (Group(o) = Group(p) /\ SortName(o) = SortName(p))
<1>1. SortName(o) \in Nat /\ SortName(p) \in Nat /\ Group(o) \in 1..3 /\ Group(p) \in 1..3
  BY GroupTyped DEF Ranked
<1> QED
  BY <1>1 DEF Less

\* Without ties there is one order of the same objects.
LEMMA SortedOnce ==
    ASSUME NEW s \in Seq(Ranked), NEW t \in Seq(Ranked), NEW p, Permutes(p, s, t),
           NEW q \in Sorts(s), NEW r \in Sorts(t), ~Ties(q)
    PROVE  q = r
<1>1. /\ q \in Seq(Ranked) /\ \E h : Permutes(h, q, s)
      /\ \A i, j \in 1..Len(q) : i < j => ~Less(q[j], q[i])
  BY SortsOrder
<1>2. /\ r \in Seq(Ranked) /\ \E h : Permutes(h, r, t)
      /\ \A i, j \in 1..Len(r) : i < j => ~Less(r[j], r[i])
  BY SortsOrder
<1>3. PICK h : Permutes(h, q, r)
  BY <1>1, <1>2, PermutesInverse, PermutesTwice
<1>4. PICK g : Permutes(g, r, q)
  BY <1>3, PermutesInverse
<1>5. /\ Len(q) \in Nat /\ DOMAIN q = 1..Len(q) /\ q \in [1..Len(q) -> Ranked]
      /\ Len(r) \in Nat /\ DOMAIN r = 1..Len(r) /\ r \in [1..Len(r) -> Ranked]
  BY <1>1, <1>2
<1> DEFINE Same(x, y) == Group(x) = Group(y) /\ SortName(x) = SortName(y)
<1>6. \A i, j \in 1..Len(q) : i # j => ~Same(q[i], q[j])
  BY <1>5 DEF Ties
<1>7. \A i, j \in 1..Len(r) : i # j => ~Same(r[i], r[j])
  <2> SUFFICES ASSUME NEW i \in 1..Len(r), NEW j \in 1..Len(r), i # j PROVE ~Same(r[i], r[j])
    OBVIOUS
  <2>1. /\ g[i] \in 1..Len(q) /\ g[j] \in 1..Len(q) /\ g[i] # g[j]
        /\ q[g[i]] = r[i] /\ q[g[j]] = r[j]
    BY <1>4, <1>5 DEF Permutes, OneToOne
  <2> HIDE DEF Same
  <2> QED
    BY <1>6, <2>1
<1> DEFINE R == {x \in Ranked \X Ranked : Less(x[1], x[2])}
<1>8. ASSUME NEW x \in Ranked, NEW y \in Ranked
      PROVE  /\ <<x, y>> \in R <=> Less(x, y)
             /\ ~(<<x, y>> \in R /\ <<y, x>> \in R)
             /\ ~Less(y, x) /\ ~Same(x, y) => <<x, y>> \in R
  BY LessTotal
<1> HIDE DEF R, Same
<1>9. \A i, j \in 1..Len(q) : i < j => <<q[i], q[j]>> \in R
  <2> SUFFICES ASSUME NEW i \in 1..Len(q), NEW j \in 1..Len(q), i < j
               PROVE  <<q[i], q[j]>> \in R
    OBVIOUS
  <2>1. q[i] \in Ranked /\ q[j] \in Ranked
    BY <1>5
  <2>2. ~Less(q[j], q[i]) /\ i # j
    BY <1>1, <1>5
  <2>3. ~Same(q[i], q[j])
    BY <1>6, <2>2
  <2> QED
    BY <1>8, <2>1, <2>2, <2>3
<1>10. \A i, j \in 1..Len(r) : i < j => <<r[i], r[j]>> \in R
  <2> SUFFICES ASSUME NEW i \in 1..Len(r), NEW j \in 1..Len(r), i < j
               PROVE  <<r[i], r[j]>> \in R
    OBVIOUS
  <2>1. r[i] \in Ranked /\ r[j] \in Ranked
    BY <1>5
  <2>2. ~Less(r[j], r[i]) /\ i # j
    BY <1>2, <1>5
  <2>3. ~Same(r[i], r[j])
    BY <1>7, <2>2
  <2> QED
    BY <1>8, <2>1, <2>2, <2>3
<1>11. OneWay(R, Ranked) /\ Ordered(q, R) /\ Ordered(r, R)
  BY <1>5, <1>8, <1>9, <1>10 DEF OneWay, Ordered
<1> QED
  BY <1>1, <1>2, <1>3, <1>11, OrderedOnce

-------------------------------------------------------------------------------
(* The snapshot *)

LEMMA AddEntryDef ==
    ASSUME NEW e, NEW o
    PROVE  LET f == AddEntry(e, o)
           IN  /\ DOMAIN f = DOMAIN e \union {o.ns}
               /\ f[o.ns] = {o.kind} \union (IF o.ns \in DOMAIN e THEN e[o.ns] ELSE {})
               /\ \A n \in DOMAIN e : n # o.ns => f[n] = e[n]
BY DEF AddEntry

\* The entries of the first objects of s, for each number of them up to n.
EntriesOf(g, s, n) ==
    g = [i \in 0..n |-> IF i = 0 THEN NoEntries ELSE AddEntry(g[i - 1], s[i])]

LEMMA EntriesExist ==
    ASSUME NEW s, NEW n \in Nat
    PROVE  \E g : EntriesOf(g, s, n)
<1> DEFINE A == {m \in Nat : \E g : EntriesOf(g, s, m)}
           empty == [i \in 0..0 |-> NoEntries]
<1>1. 0 \in A
  <2>1. \A i \in 0..0 : i = 0
    OBVIOUS
  <2>2. EntriesOf(empty, s, 0)
    BY <2>1 DEF EntriesOf
  <2> QED
    BY <2>2
<1>2. ASSUME NEW m \in A PROVE m + 1 \in A
  <2>1. PICK g : EntriesOf(g, s, m)
    OBVIOUS
  <2> DEFINE h == [i \in 0..(m + 1) |-> IF i = 0 THEN NoEntries ELSE AddEntry(g[i - 1], s[i])]
  <2>2. \A i \in 0..m : h[i] = g[i]
    <3>1. \A i \in 0..m : i \in 0..(m + 1)
      OBVIOUS
    <3> QED
      BY <2>1, <3>1, Zenon DEF EntriesOf
  <2>3. \A i \in 0..(m + 1) : i # 0 => i - 1 \in 0..m
    OBVIOUS
  <2> DEFINE Entry(f, i) == IF i = 0 THEN NoEntries ELSE AddEntry(f[i - 1], s[i])
  <2>4. \A i \in 0..(m + 1) : Entry(g, i) = Entry(h, i)
    <3> HIDE DEF h
    <3> QED
      BY <2>2, <2>3
  <2>5. h = [i \in 0..(m + 1) |-> Entry(h, i)]
    BY <2>4, Zenon
  <2>6. EntriesOf(h, s, m + 1)
    BY <2>5, Zenon DEF EntriesOf
  <2> QED
    BY <2>6
<1> HIDE DEF A
<1>3. A \in SUBSET Nat
  BY DEF A
<1>4. A = Nat
  BY <1>1, <1>2, <1>3, Induction
<1> QED
  BY <1>4 DEF A

\* The entries of the first i objects of s.
Covers(e, s, i) ==
    /\ DOMAIN e = {s[j].ns : j \in 1..i}
    /\ \A n \in DOMAIN e : e[n] = {s[j].kind : j \in {j \in 1..i : s[j].ns = n}}

LEMMA CoversNext ==
    ASSUME NEW s, NEW i \in Nat, NEW e, Covers(e, s, i)
    PROVE  Covers(AddEntry(e, s[i + 1]), s, i + 1)
<1> DEFINE o == s[i + 1]
           f == AddEntry(e, o)
<1>1. /\ DOMAIN f = DOMAIN e \union {o.ns}
      /\ f[o.ns] = {o.kind} \union (IF o.ns \in DOMAIN e THEN e[o.ns] ELSE {})
      /\ \A n \in DOMAIN e : n # o.ns => f[n] = e[n]
  BY AddEntryDef
<1>2. 1..(i + 1) = (1..i) \union {i + 1}
  OBVIOUS
<1> HIDE DEF f
<1>3. DOMAIN f = {s[j].ns : j \in 1..(i + 1)}
  BY <1>1, <1>2 DEF Covers
<1>4. ASSUME NEW n \in DOMAIN f
      PROVE  f[n] = {s[j].kind : j \in {j \in 1..(i + 1) : s[j].ns = n}}
  <2>1. CASE n # o.ns
    BY <1>1, <1>2, <1>4, <2>1 DEF Covers
  <2>2. CASE n = o.ns /\ n \in DOMAIN e
    BY <1>1, <1>2, <2>2 DEF Covers
  <2>3. CASE n = o.ns /\ n \notin DOMAIN e
    <3>1. \A j \in 1..i : s[j].ns # n
      BY <2>3 DEF Covers
    <3> QED
      BY <1>1, <1>2, <2>3, <3>1
  <2> QED
    BY <2>1, <2>2, <2>3
<1> QED
  BY <1>3, <1>4 DEF Covers, f

LEMMA NewSnapshotCovers ==
    ASSUME NEW s, Len(s) \in Nat
    PROVE  /\ NewSnapshot(s).checksum = s
           /\ Covers(NewSnapshot(s).entries, s, Len(s))
<1> DEFINE n == Len(s)
           c == CHOOSE g : EntriesOf(g, s, n)
<1>1. NewSnapshot(s) = [checksum |-> s, entries |-> c[n]]
  BY Zenon DEF NewSnapshot, EntriesOf
<1>2. EntriesOf(c, s, n)
  BY EntriesExist, Zenon
<1> HIDE DEF c
<1> DEFINE A == {m \in Nat : m <= n => Covers(c[m], s, m)}
<1>3. 0 \in A
  <2>1. c[0] = NoEntries
    <3>1. 0 \in 0..n
      OBVIOUS
    <3> QED
      BY <1>2, <3>1, Zenon DEF EntriesOf
  <2>2. DOMAIN NoEntries = {}
    BY DEF NoEntries
  <2> QED
    BY <2>1, <2>2 DEF Covers
<1>4. ASSUME NEW m \in A PROVE m + 1 \in A
  <2> SUFFICES ASSUME m + 1 <= n PROVE Covers(c[m + 1], s, m + 1)
    OBVIOUS
  <2>1. m \in Nat /\ m <= n /\ m + 1 \in 0..n /\ m + 1 # 0 /\ (m + 1) - 1 = m
    OBVIOUS
  <2>2. c[m + 1] = AddEntry(c[m], s[m + 1])
    BY <1>2, <2>1, Zenon DEF EntriesOf
  <2>3. Covers(c[m], s, m)
    BY <2>1
  <2> QED
    BY <2>1, <2>2, <2>3, CoversNext
<1>5. A = Nat
  <2>1. A \in SUBSET Nat
    OBVIOUS
  <2> HIDE DEF A
  <2> QED
    BY <1>3, <1>4, <2>1, Induction
<1>6. Covers(c[n], s, n)
  BY <1>5
<1> QED
  BY <1>1, <1>6

-------------------------------------------------------------------------------
(* Every object once *)

\* There is one value at a place.
LEMMA PlacesAlone ==
    \A doc \in Values : \A p, q \in Places[doc] : p[1] = q[1] => p = q
<1> DEFINE Good(doc) == \A p, q \in Places[doc] : p[1] = q[1] => p = q
           A == {n \in Nat : \A doc \in Below(n) : Good(doc)}
<1>1. 0 \in A
  BY ValuesAssumption DEF Below
<1>2. ASSUME NEW n \in A PROVE n + 1 \in A
  <2> SUFFICES ASSUME NEW doc \in Below(n + 1), NEW p \in Places[doc], NEW q \in Places[doc],
                      p[1] = q[1]
               PROVE  p = q
    OBVIOUS
  <2>1. doc \in Values /\ n \in Nat /\ Height[doc] < n + 1
    BY DEF Below
  <2>2. CASE IsObject(doc)
    <3> DEFINE place == <<<<>>, doc>>
    <3>1. Places[doc] = {place}
      BY <2>1, <2>2, PlacesDef, Zenon DEF PlaceStep
    <3> QED
      BY <3>1, Zenon
  <2>3. CASE ~IsObject(doc) /\ Compound(doc)
    <3> DEFINE keys == DOMAIN doc[2]
               ps == [k \in keys |-> Places[doc[2][k]]]
    <3>1. Places[doc] = Within(doc, ps)
      BY <2>1, <2>3, PlacesDef DEF PlaceStep, Compound
    <3>2. \A k \in keys : ps[k] = Places[doc[2][k]]
      OBVIOUS
    <3> HIDE DEF ps
    <3>3. \A x \in Places[doc] : \E k \in keys : \E y \in Places[doc[2][k]] : x = <<<<k, y[1]>>, y[2]>>
      BY <3>1, <3>2 DEF Within
    <3>4. PICK k \in keys : \E y \in Places[doc[2][k]] : p = <<<<k, y[1]>>, y[2]>>
      BY <3>3
    <3>5. PICK x \in Places[doc[2][k]] : p = <<<<k, x[1]>>, x[2]>>
      BY <3>4
    <3>6. PICK m \in keys : \E y \in Places[doc[2][m]] : q = <<<<m, y[1]>>, y[2]>>
      BY <3>3
    <3>7. PICK y \in Places[doc[2][m]] : q = <<<<m, y[1]>>, y[2]>>
      BY <3>6
    <3>8. k = m /\ x[1] = y[1]
      <4>1. p[1] = <<k, x[1]>> /\ q[1] = <<m, y[1]>>
        BY <3>5, <3>7
      <4>2. <<k, x[1]>> = <<m, y[1]>>
        BY <4>1, Zenon
      <4> QED
        BY <4>2
    <3>9. doc[2][k] \in Below(n)
      BY <2>1, <2>3, Children DEF Below
    <3>10. x = y
      BY <3>8, <3>9
    <3> QED
      BY <3>5, <3>7, <3>8, <3>10
  <2>4. CASE ~IsObject(doc) /\ ~Compound(doc)
    BY <2>1, <2>4, PlacesDef DEF PlaceStep, Compound
  <2> QED
    BY <2>2, <2>3, <2>4
<1>3. A = Nat
  <2>1. A \in SUBSET Nat
    OBVIOUS
  <2> HIDE DEF A
  <2> QED
    BY <1>1, <1>2, <2>1, Induction
<1> QED
  BY <1>3, BelowAll, ValuesAssumption

LEMMA PlacesTyped ==
    \A doc \in Values : \A p \in Places[doc] : p[2] \in Values
<1> DEFINE A == {n \in Nat : \A doc \in Below(n) : \A p \in Places[doc] : p[2] \in Values}
<1>1. 0 \in A
  BY ValuesAssumption DEF Below
<1>2. ASSUME NEW n \in A PROVE n + 1 \in A
  <2> SUFFICES ASSUME NEW doc \in Below(n + 1), NEW p \in Places[doc] PROVE p[2] \in Values
    OBVIOUS
  <2>1. doc \in Values /\ n \in Nat /\ Height[doc] < n + 1
    BY DEF Below
  <2>2. CASE IsObject(doc)
    <3> DEFINE place == <<<<>>, doc>>
    <3>1. Places[doc] = {place} /\ place[2] = doc
      BY <2>1, <2>2, PlacesDef DEF PlaceStep
    <3> HIDE DEF place
    <3> QED
      BY <2>1, <3>1
  <2>3. CASE ~IsObject(doc) /\ Compound(doc)
    <3> DEFINE keys == DOMAIN doc[2]
               ps == [k \in keys |-> Places[doc[2][k]]]
    <3>1. Places[doc] = Within(doc, ps)
      BY <2>1, <2>3, PlacesDef DEF PlaceStep, Compound
    <3>2. \A k \in keys : ps[k] = Places[doc[2][k]]
      OBVIOUS
    <3> HIDE DEF ps
    <3>3. PICK k \in keys : \E y \in Places[doc[2][k]] : p = <<<<k, y[1]>>, y[2]>>
      BY <3>1, <3>2 DEF Within
    <3>4. doc[2][k] \in Below(n)
      BY <2>1, <2>3, Children DEF Below
    <3> QED
      BY <3>3, <3>4
  <2>4. CASE ~IsObject(doc) /\ ~Compound(doc)
    BY <2>1, <2>4, PlacesDef DEF PlaceStep, Compound
  <2> QED
    BY <2>2, <2>3, <2>4
<1>3. A = Nat
  <2>1. A \in SUBSET Nat
    OBVIOUS
  <2> HIDE DEF A
  <2> QED
    BY <1>1, <1>2, <2>1, Induction
<1> QED
  BY <1>3, BelowAll, ValuesAssumption

\* The object at a place, if it is not that of a list of several.
Leaf(p) == <<<<p[1], 1>>, ItemsOf(p[2])[1][2]>>

\* A value that is an object or a list of one.
LEMMA SingleItem ==
    ASSUME NEW d \in Values, Len(ItemsOf(d)) = 1
    PROVE  /\ DOMAIN ItemsOf(d) = {1}
           /\ ItemsOf(d)[1] \in Values
           /\ Row(d) \in Seq({Placed(ItemsOf(d)[1][2])}) /\ Len(Row(d)) = 1
<1> DEFINE items == ItemsOf(d)
<1>1. items \in Seq(Values)
  <2>1. CASE d[1] = "bundle"
    BY <2>1, ValuesAssumption DEF ItemsOf
  <2>2. CASE d[1] # "bundle"
    <3> DEFINE one == <<d>>
    <3>1. one \in Seq(Values)
      OBVIOUS
    <3>2. items = one
      BY <2>2 DEF ItemsOf
    <3> HIDE DEF items, one
    <3> QED
      BY <3>1, <3>2
  <2> QED
    BY <2>1, <2>2
<1> HIDE DEF items
<1>2. Len(items) = 1 /\ DOMAIN items = 1..1 /\ items[1] \in Values
  BY <1>1 DEF items
<1>3. Row(d) = [j \in 1..1 |-> Placed(items[1][2])]
  BY <1>2 DEF Row, Appended, items
<1> DEFINE o == Placed(items[1][2])
<1> HIDE DEF o
<1>4. Row(d) \in [1..1 -> {o}]
  BY <1>3 DEF o
<1>5. Row(d) \in Seq({o}) /\ Len(Row(d)) = 1
  <2> DEFINE n == 1
             r == Row(d)
  <2>1. n \in Nat /\ r \in [1..n -> {o}]
    BY <1>4
  <2> HIDE DEF n, r
  <2>2. r \in Seq({o}) /\ Len(r) = n
    BY <2>1
  <2> QED
    BY <2>2 DEF n, r
<1>6. 1..1 = {1}
  OBVIOUS
<1> QED
  BY <1>2, <1>5, <1>6 DEF items, o

LEMMA LeavesOnce ==
    ASSUME NEW doc \in Values, ~HasList(doc)
    PROVE  OneToOne([p \in Places[doc] |-> Leaf(p)], Places[doc], Leaves(doc))
<1> DEFINE m == [p \in Places[doc] |-> Leaf(p)]
<1>1. \A p \in Places[doc] : p[2] \in Values /\ Len(ItemsOf(p[2])) = 1
  BY PlacesTyped DEF HasList
<1>2. \A p \in Places[doc] : DOMAIN ItemsOf(p[2]) = {1}
  BY <1>1, SingleItem
<1>3. Leaves(doc) = {Leaf(p) : p \in Places[doc]}
  <2> DEFINE At(p) == {<<<<p[1], j>>, ItemsOf(p[2])[j][2]>> : j \in DOMAIN ItemsOf(p[2])}
  <2>1. \A p \in Places[doc] : At(p) = {Leaf(p)}
    BY <1>2 DEF Leaf
  <2>2. Leaves(doc) = UNION {At(p) : p \in Places[doc]}
    BY DEF Leaves
  <2> HIDE DEF At
  <2> QED
    BY <2>1, <2>2
<1>4. ASSUME NEW p \in Places[doc], NEW q \in Places[doc], Leaf(p) = Leaf(q) PROVE p = q
  <2>1. <<p[1], 1>> = <<q[1], 1>>
    <3> DEFINE x == ItemsOf(p[2])[1][2]
               y == ItemsOf(q[2])[1][2]
               a == <<p[1], 1>>
               b == <<q[1], 1>>
    <3>1. <<a, x>> = <<b, y>>
      BY <1>4, Zenon DEF Leaf
    <3> HIDE DEF x, y, a, b
    <3>2. a = b
      BY <3>1
    <3> QED
      BY <3>2 DEF a, b
  <2>2. p[1] = q[1]
    BY <2>1
  <2> QED
    BY <2>2, PlacesAlone
<1>5. m \in [Places[doc] -> Leaves(doc)] /\ \A p \in Places[doc] : m[p] = Leaf(p)
  BY <1>3
<1> HIDE DEF m
<1>6. OneToOne(m, Places[doc], Leaves(doc))
  BY <1>3, <1>4, <1>5 DEF OneToOne
<1> QED
  BY <1>6 DEF m

LEMMA LeavesTyped ==
    ASSUME NEW doc \in Values, ~HasList(doc), NEW w \in Walks[doc], Accepted(w)
    PROVE  \A l \in Leaves(doc) : l[2] \in Objects
<1> SUFFICES ASSUME NEW l \in Leaves(doc) PROVE l[2] \in Objects
  OBVIOUS
<1>1. PICK p \in Places[doc] : Leaf(p) = l
  BY LeavesOnce DEF OneToOne
<1>2. PICK b : OneToOne(b, 1..Len(w), Places[doc]) /\ \A i \in 1..Len(w) : w[i] = b[i][2]
  BY WalksFind DEF Finds
<1>3. PICK i \in 1..Len(w) : b[i] = p
  BY <1>2 DEF OneToOne
<1>4. w[i] = p[2] /\ p[2] \in Values /\ Len(ItemsOf(p[2])) = 1
  BY <1>2, <1>3, PlacesTyped DEF HasList
<1>5. 1 \in DOMAIN ItemsOf(p[2]) /\ ItemsOf(p[2])[1] \in Values
  BY <1>4, SingleItem
<1>6. ItemsOf(p[2])[1][1] = "object"
  <2>1. i \in DOMAIN w
    BY DEF Accepted
  <2> QED
    BY <1>4, <1>5, <2>1 DEF Accepted, ToListFails
<1>7. ItemsOf(p[2])[1][2] \in Objects
  BY <1>5, <1>6, ValuesAssumption DEF Objects
<1> DEFINE o == ItemsOf(p[2])[1][2]
           at == <<p[1], 1>>
<1>8. l = <<at, o>>
  BY <1>1, Zenon DEF Leaf
<1> HIDE DEF o, at
<1>9. l[2] = o
  BY <1>8
<1> QED
  BY <1>7, <1>9 DEF o

\* The output has the objects of the document, each once.
LEMMA OutputOnce ==
    ASSUME NEW doc \in Values, ~HasList(doc), NEW w \in Walks[doc], Accepted(w)
    PROVE  /\ Output(w) \in Seq(Ranked)
           /\ \E h : /\ OneToOne(h, 1..Len(Output(w)), Leaves(doc))
                     /\ \A i \in 1..Len(Output(w)) : Output(w)[i] = Placed(h[i][2])
<1> DEFINE s == Output(w)
           n == Len(w)
           rows == Rows(w)
           cells == Cells(rows, n)
<1>1. PICK b : OneToOne(b, 1..n, Places[doc]) /\ \A i \in 1..n : w[i] = b[i][2]
  BY WalksFind DEF Finds
<1>2. /\ rows \in Seq(Seq(Ranked)) /\ Len(rows) = n /\ s = FlattenSeq(rows) /\ s \in Seq(Ranked)
      /\ n \in Nat /\ DOMAIN w = 1..n
  BY RowsTyped DEF Accepted
<1>3. PICK f : Lists(s, rows, n, f)
  BY <1>2, FlattenLists
<1>4. ASSUME NEW i \in 1..n
      PROVE  /\ Len(rows[i]) = 1 /\ rows[i][1] = Placed(Leaf(b[i])[2])
             /\ b[i] \in Places[doc]
  <2>1. b[i] \in Places[doc] /\ w[i] = b[i][2] /\ w[i] \in Values
    BY <1>1 DEF OneToOne, Accepted
  <2>2. Len(ItemsOf(w[i])) = 1
    BY <2>1 DEF HasList
  <2>3. rows[i] = Row(w[i])
    BY <1>2 DEF Rows
  <2> DEFINE o == Placed(ItemsOf(w[i])[1][2])
  <2>4. rows[i] \in Seq({o}) /\ Len(rows[i]) = 1
    BY <2>1, <2>2, <2>3, SingleItem
  <2>5. o = Placed(Leaf(b[i])[2])
    BY <2>1 DEF Leaf
  <2> HIDE DEF o, rows
  <2>6. rows[i][1] = o
    BY <2>4
  <2> QED
    BY <2>1, <2>4, <2>5, <2>6
<1> DEFINE at == [c \in cells |-> b[c[1]]]
<1> HIDE DEF s, rows
<1>5. /\ \A c \in cells : c = <<c[1], 1>> /\ c[1] \in 1..n /\ c[2] = 1
      /\ \A i \in 1..n : <<i, 1>> \in cells
  <2>1. \A i \in 1..n : Len(rows[i]) = 1
    BY <1>4
  <2> DEFINE Row1(i) == {<<i, j>> : j \in 1..Len(rows[i])}
  <2>2. ASSUME NEW i \in 1..n PROVE Row1(i) = {<<i, 1>>}
    <3>1. 1..Len(rows[i]) = {1}
      <4>1. Len(rows[i]) = 1 /\ 1..1 = {1}
        BY <2>1
      <4> QED
        BY <4>1
    <3> QED
      BY <3>1
  <2>3. cells = UNION {Row1(i) : i \in 1..n} /\ \A i \in 1..n : Row1(i) = {<<i, 1>>}
    BY <2>2 DEF Cells
  <2> HIDE DEF Row1, cells
  <2> QED
    BY <2>3
<1> HIDE DEF cells
<1>6. OneToOne(at, cells, Places[doc])
  <2>1. at \in [cells -> Places[doc]]
    BY <1>4, <1>5
  <2>2. ASSUME NEW c \in cells, NEW d \in cells, at[c] = at[d] PROVE c = d
    <3>1. c[1] = d[1]
      BY <1>1, <1>5, <2>2 DEF OneToOne
    <3> QED
      BY <1>5, <3>1
  <2>3. ASSUME NEW p \in Places[doc] PROVE \E c \in cells : at[c] = p
    <3>1. PICK i \in 1..n : b[i] = p
      BY <1>1 DEF OneToOne
    <3>2. <<i, 1>> \in cells /\ at[<<i, 1>>] = p
      BY <1>5, <3>1
    <3> QED
      BY <3>2
  <2> HIDE DEF at
  <2> QED
    BY <2>1, <2>2, <2>3 DEF OneToOne
<1>7. OneToOne(f, 1..Len(s), cells) /\ \A i \in 1..Len(s) : s[i] = rows[f[i][1]][f[i][2]]
  BY <1>3 DEF Lists, cells
<1> DEFINE g == [i \in 1..Len(s) |-> at[f[i]]]
           leaf == [p \in Places[doc] |-> Leaf(p)]
           h == [i \in 1..Len(s) |-> leaf[g[i]]]
<1>8. OneToOne(g, 1..Len(s), Places[doc])
  <2> HIDE DEF at
  <2> QED
    BY <1>6, <1>7, Composed
<1>9. OneToOne(h, 1..Len(s), Leaves(doc))
  <2>1. OneToOne(leaf, Places[doc], Leaves(doc))
    BY LeavesOnce
  <2> HIDE DEF leaf, g
  <2>2. OneToOne([i \in 1..Len(s) |-> leaf[g[i]]], 1..Len(s), Leaves(doc))
    BY <1>8, <2>1, Composed
  <2> QED
    BY <2>2
<1>10. ASSUME NEW i \in 1..Len(s) PROVE s[i] = Placed(h[i][2])
  <2>1. f[i] \in cells
    BY <1>7 DEF OneToOne
  <2>2. f[i][1] \in 1..n /\ f[i][2] = 1
    BY <1>5, <2>1
  <2>3. s[i] = Placed(Leaf(b[f[i][1]])[2])
    BY <1>4, <1>7, <2>2
  <2>4. at[f[i]] = b[f[i][1]] /\ b[f[i][1]] \in Places[doc]
    BY <1>4, <2>1, <2>2
  <2>5. h[i] = Leaf(b[f[i][1]])
    BY <2>4
  <2> QED
    BY <2>3, <2>5
<1> HIDE DEF h
<1> QED
  BY <1>2, <1>9, <1>10 DEF s

-------------------------------------------------------------------------------
(* The steps *)

\* What a build that was done has of its contents and its snapshot.
Sound(k, out) == /\ out.contents \in Inputs(k)
                 /\ out.snapshot \in Renders(Document(k, out.contents))

BuildsInv == /\ ImportsInv
             /\ DOMAIN output = Konfigs
             /\ \A k \in Konfigs : Built(k) => Sound(k, output[k])

LEMMA SnapshotsSound ==
    ASSUME NEW k, NEW c, NEW s \in Snapshots(k, c)
    PROVE  c \in Inputs(k) /\ s \in Renders(Document(k, c))
<1>1. PICK r \in Renderings : s = r[3] /\ r[1] = k /\ r[2] = c
  BY DEF Snapshots
<1> DEFINE Of(j, d) == {<<j, d, t>> : t \in Renders(Document(j, d))}
           At(j) == UNION {Of(j, d) : d \in Inputs(j)}
<1>2. Renderings = UNION {At(j) : j \in Konfigs}
  BY DEF Renderings
<1> HIDE DEF At
<1>3. PICK j \in Konfigs : r \in At(j)
  BY <1>1, <1>2
<1> HIDE DEF Of
<1>4. PICK d \in Inputs(j) : r \in Of(j, d)
  BY <1>3 DEF At
<1>5. PICK t \in Renders(Document(j, d)) : r = <<j, d, t>>
  BY <1>4, Zenon DEF Of
<1>6. j = k /\ d = c /\ t = s
  BY <1>1, <1>5
<1> QED
  BY <1>6

LEMMA SnapshotsAll ==
    ASSUME NEW k \in Konfigs, NEW c \in Inputs(k), NEW s \in Renders(Document(k, c))
    PROVE  s \in Snapshots(k, c)
<1> DEFINE Of(j, d) == {<<j, d, t>> : t \in Renders(Document(j, d))}
           At(j) == UNION {Of(j, d) : d \in Inputs(j)}
           r == <<k, c, s>>
<1>1. r \in Of(k, c)
  OBVIOUS
<1> HIDE DEF Of
<1>2. r \in At(k)
  BY <1>1
<1> HIDE DEF At
<1>3. r \in UNION {At(j) : j \in Konfigs}
  BY <1>2
<1>4. r \in Renderings
  BY <1>3 DEF Renderings, At, Of
<1> QED
  BY <1>4 DEF Snapshots

\* A snapshot is of a sorted output of a walk that is accepted.
LEMMA RendersSorted ==
    ASSUME NEW doc \in Values, NEW s \in Renders(doc)
    PROVE  \E w, r : w \in Walks[doc] /\ Accepted(w) /\ r \in Sorts(Output(w)) /\ s = NewSnapshot(r)
<1>1. /\ ~\E w \in Walks[doc] : ToListFails(w) \/ Unknown(w)
      /\ s \in {NewSnapshot(r) : r \in UNION {Sorts(Output(w)) : w \in Walks[doc]}}
  BY Zenon DEF Renders
<1>2. PICK r \in UNION {Sorts(Output(w)) : w \in Walks[doc]} : s = NewSnapshot(r)
  BY <1>1
<1>3. PICK w \in Walks[doc] : r \in Sorts(Output(w))
  BY <1>2
<1>4. Accepted(w)
  BY <1>1, WalksFind DEF Accepted, Finds
<1> QED
  BY <1>2, <1>3, <1>4

\* The objects of a build that was done, and what they were made of.
LEMMA BuiltFrom ==
    ASSUME BuildsInv, NEW k \in Konfigs, Built(k)
    PROVE  /\ Result(k) \in Values
           /\ \E w, r :
                /\ w \in Walks[Result(k)] /\ Accepted(w) /\ r \in Sorts(Output(w))
                /\ output[k].snapshot = NewSnapshot(r)
                /\ NewSnapshot(r).checksum = r
                /\ r \in Seq(Ranked)
<1>1. output[k].contents \in Inputs(k) /\ output[k].snapshot \in Renders(Result(k))
  BY DEF BuildsInv, Sound, Result
<1>2. Result(k) \in Values
  BY <1>1, DocumentAssumption DEF Result
<1>3. PICK w, r :
        w \in Walks[Result(k)] /\ Accepted(w) /\ r \in Sorts(Output(w)) /\ output[k].snapshot = NewSnapshot(r)
  BY <1>1, <1>2, RendersSorted
<1>4. r \in Seq(Ranked)
  BY <1>3, RowsTyped, SortsOrder
<1>5. NewSnapshot(r).checksum = r
  BY <1>4, NewSnapshotCovers
<1> QED
  BY <1>2, <1>3, <1>4, <1>5

\* An import, the site and a restart touch neither the outputs nor a result
\* but that of a build that fails.
LEMMA OnlyFails ==
    ASSUME ImportsInv, UNCHANGED output,
           \/ \E k \in Konfigs : ImportStep(k)
           \/ Site \/ Crash \/ UNCHANGED importVars
           \/ \E k \in Konfigs : Ends(k, "failed") \/ Ends(k, "refused")
    PROVE  \A k \in Konfigs : Built(k)' => Built(k)
<1>1. result \in [Konfigs -> {"none", "failed", "refused", "done"}]
  BY DEF ImportsInv, SiteTypes
<1>2. ASSUME NEW k \in Konfigs,
             \/ result' = result
             \/ result' = [result EXCEPT ![k] = "failed"]
             \/ result' = [result EXCEPT ![k] = "refused"]
      PROVE  \A j \in Konfigs : Built(j)' => Built(j)
  BY <1>1, <1>2 DEF Built
<1>3. ASSUME NEW k \in Konfigs, ImportStep(k)
      PROVE  result' = result \/ result' = [result EXCEPT ![k] = "failed"]
  BY <1>3 DEF ImportStep, StartBuild, Lookup, Get, OpenFile, WriteFile, TryNext, FailBuild, World
<1>4. ASSUME NEW k \in Konfigs, Ends(k, "failed") \/ Ends(k, "refused")
      PROVE  result' = [result EXCEPT ![k] = "failed"] \/ result' = [result EXCEPT ![k] = "refused"]
  BY <1>4 DEF Ends
<1>5. Site \/ Crash \/ UNCHANGED importVars => result' = result
  BY DEF Site, Publish, Outage, Restore, Crash, importVars
<1> QED
  BY <1>2, <1>3, <1>4, <1>5 DEF Built

\* A step of a build is one of the imports.
LEMMA ImportsOfNext == [Next]_buildVars => [ImportsNext]_importVars
<1> SUFFICES ASSUME [Next]_buildVars PROVE [ImportsNext]_importVars
  OBVIOUS
<1>1. ASSUME NEW k \in Konfigs, Build(k)
      PROVE  \E r \in {"failed", "refused", "done"} : Ends(k, r)
  BY <1>1 DEF Build
<1> QED
  BY <1>1 DEF Next, ImportsNext, buildVars, importVars

LEMMA BuildsInvInit == Init => BuildsInv
<1> SUFFICES ASSUME Init PROVE BuildsInv
  OBVIOUS
<1>1. ImportsInv /\ \A k \in Konfigs : ~Built(k)
  BY InvInit DEF Init, ImportsInit, Built
<1> QED
  BY <1>1 DEF Init, BuildsInv

LEMMA BuildsInvNext == BuildsInv /\ [Next]_buildVars => BuildsInv'
<1> SUFFICES ASSUME BuildsInv, [Next]_buildVars PROVE BuildsInv'
  OBVIOUS
<1>1. ImportsInv /\ ImportsInv'
  BY ImportsOfNext, InvNext DEF BuildsInv
<1>2. ASSUME UNCHANGED output, \A k \in Konfigs : Built(k)' => Built(k) PROVE BuildsInv'
  BY <1>1, <1>2 DEF BuildsInv
<1>3. ASSUME NEW k \in Konfigs, ImportStep(k) /\ UNCHANGED output PROVE BuildsInv'
  BY <1>1, <1>2, <1>3, OnlyFails
<1>4. ASSUME NEW k \in Konfigs, Build(k) PROVE BuildsInv'
  <2>1. CASE (Ends(k, "failed") \/ Ends(k, "refused")) /\ UNCHANGED output
    BY <1>1, <1>2, <2>1, OnlyFails
  <2>2. ASSUME Ends(k, "done"), NEW s \in Snapshots(k, Contents(k)),
               output' = [output EXCEPT ![k] = [contents |-> Contents(k), snapshot |-> s]]
        PROVE  BuildsInv'
    <3>1. Contents(k) \in Inputs(k) /\ s \in Renders(Document(k, Contents(k)))
      BY <2>2, SnapshotsSound
    <3> DEFINE out == [contents |-> Contents(k), snapshot |-> s]
    <3>2. Sound(k, out)
      BY <3>1 DEF Sound
    <3>3. result' = [result EXCEPT ![k] = "done"] /\ result \in [Konfigs -> {"none", "failed", "refused", "done"}]
      BY <1>1, <2>2 DEF Ends, ImportsInv, SiteTypes
    <3> HIDE DEF out
    <3>4. DOMAIN output' = Konfigs /\ output'[k] = out /\ \A j \in Konfigs \ {k} : output'[j] = output[j]
      BY <2>2 DEF BuildsInv, out
    <3>5. ASSUME NEW j \in Konfigs, Built(j)' PROVE Sound(j, output'[j])
      <4>1. CASE j = k
        BY <3>2, <3>4, <4>1
      <4>2. CASE j # k
        BY <3>3, <3>4, <3>5, <4>2 DEF BuildsInv, Built
      <4> QED
        BY <4>1, <4>2
    <3> QED
      BY <1>1, <3>4, <3>5 DEF BuildsInv, Sound
  <2> QED
    BY <1>4, <2>1, <2>2 DEF Build
<1>5. CASE (Site \/ Crash) /\ UNCHANGED output
  BY <1>1, <1>2, <1>5, OnlyFails
<1>6. CASE UNCHANGED buildVars
  BY <1>1, <1>2, <1>6, OnlyFails DEF buildVars, importVars
<1> QED
  BY <1>3, <1>4, <1>5, <1>6 DEF Next

LEMMA BuildsInvAlways == Spec => []BuildsInv
BY BuildsInvInit, BuildsInvNext, PTL DEF Spec

-------------------------------------------------------------------------------
(* The theorems *)

\* Builds only add the rendering to the imports: what is proved of Imports
\* holds of the builds (builder.Build).
THEOREM BuildsImplementImports == Spec => ImportsSpec
<1>1. Init => ImportsInit
  BY DEF Init
<1> QED
  BY <1>1, ImportsOfNext, PTL DEF Spec, ImportsSpec

\* A build's variables have their types, its candidates and its body in hand
\* among them (universalImporter.Import, httpCache.Get).
THEOREM BuildsTyped == Spec => []TypeOK
BY BuildsImplementImports, ImportsTyped, PTL

\* A build sees one content of a url (universalImporter.cache).
THEOREM BuildsOneContent == Spec => []OneContentPerBuild
BY BuildsImplementImports, OneContent, PTL

\* A program is evaluated with an answer to each of its imports
\* (universalImporter.Import, httpCache.Get).
THEOREM BuildsAnswered == Spec => []EveryImportAnswered
BY BuildsImplementImports, ImportsAnswered, PTL

\* The contents a program is evaluated with, if its code parses, are among
\* those that Renderings enumerates: that there is no snapshot means that the
\* build refuses the document.
THEOREM InputsEnumerated ==
    Spec => [](\A k \in Konfigs : build[k].pc = "render" /\ Parses(k, Contents(k)) =>
                    /\ Contents(k) \in Inputs(k)
                    /\ Snapshots(k, Contents(k)) = Renders(Document(k, Contents(k))))
<1>1. ASSUME EveryImportAnswered, NEW k \in Konfigs, build[k].pc = "render", Parses(k, Contents(k))
      PROVE  /\ Contents(k) \in Inputs(k)
             /\ Snapshots(k, Contents(k)) = Renders(Document(k, Contents(k)))
  <2> DEFINE c == Contents(k)
  <2>1. c \in [DOMAIN ImportsOf[k] -> AllContents]
    BY <1>1 DEF EveryImportAnswered, Contents
  <2>2. c \in Inputs(k)
    BY <1>1, <2>1 DEF Inputs
  <2> HIDE DEF c
  <2>3. \A s \in Snapshots(k, c) : s \in Renders(Document(k, c))
    BY SnapshotsSound
  <2>4. \A s \in Renders(Document(k, c)) : s \in Snapshots(k, c)
    BY <2>2, SnapshotsAll
  <2> QED
    BY <2>2, <2>3, <2>4 DEF c
<1> DEFINE Enumerated == \A k \in Konfigs : build[k].pc = "render" /\ Parses(k, Contents(k)) =>
                            /\ Contents(k) \in Inputs(k)
                            /\ Snapshots(k, Contents(k)) = Renders(Document(k, Contents(k)))
<1>2. EveryImportAnswered => Enumerated
  BY <1>1
<1> QED
  BY <1>2, BuildsAnswered, PTL

\* Whatever a program evaluates to and in whatever order its maps are walked,
\* the kinds a pruning will list by the snapshot are those of the objects the
\* build applies, namespace by namespace (addEntry).
THEOREM EntriesCover == Spec => []SnapshotCovers
<1>1. ASSUME BuildsInv, NEW k \in Konfigs, Built(k)
      PROVE  LET snap    == output[k].snapshot
                 inNs(n) == {o.kind : o \in {x \in Range(snap.checksum) : x.ns = n}}
             IN  /\ NonNamespacedKinds(snap) = inNs("")
                 /\ \A o \in Range(snap.checksum) : o.ns # "" => NamespacedKinds(snap)[o.ns] = inNs(o.ns)
                 /\ DOMAIN NamespacedKinds(snap) \subseteq {o.ns : o \in Range(snap.checksum)}
  <2> DEFINE snap == output[k].snapshot
             s == snap.checksum
             e == snap.entries
             inNs(n) == {o.kind : o \in {x \in Range(s) : x.ns = n}}
  <2>1. s \in Seq(Ranked) /\ Covers(e, s, Len(s))
    <3>1. PICK r \in Seq(Ranked) : snap = NewSnapshot(r) /\ NewSnapshot(r).checksum = r
      BY <1>1, BuiltFrom
    <3>2. Covers(NewSnapshot(r).entries, r, Len(r))
      BY NewSnapshotCovers
    <3> HIDE DEF snap
    <3> QED
      BY <3>1, <3>2
  <2> HIDE DEF snap
  <2>2. Range(s) = {s[i] : i \in 1..Len(s)}
    BY <2>1 DEF Range
  <2> HIDE DEF s, e
  <2>3. DOMAIN e = {o.ns : o \in Range(s)}
    BY <2>1, <2>2 DEF Covers
  <2>4. \A n \in DOMAIN e : e[n] = inNs(n)
    BY <2>1, <2>2 DEF Covers
  <2> HIDE DEF inNs
  <2>5. NonNamespacedKinds(snap) = inNs("")
    <3>1. NonNamespacedKinds(snap) = UNION {e[n] : n \in DOMAIN e \cap {""}}
      BY DEF NonNamespacedKinds, e
    <3>2. CASE "" \in DOMAIN e
      <4>1. UNION {e[n] : n \in {""}} = e[""]
        OBVIOUS
      <4>2. DOMAIN e \cap {""} = {""}
        BY <3>2
      <4>3. {e[n] : n \in DOMAIN e \cap {""}} = {e[n] : n \in {""}}
        BY <4>2, Zenon
      <4>4. NonNamespacedKinds(snap) = e[""]
        BY <3>1, <4>1, <4>3, Zenon
      <4> QED
        BY <2>4, <3>2, <4>4, Zenon
    <3>3. CASE "" \notin DOMAIN e
      <4>1. inNs("") = {}
        BY <2>3, <3>3 DEF inNs
      <4>2. DOMAIN e \cap {""} = {}
        BY <3>3
      <4>3. {e[n] : n \in DOMAIN e \cap {""}} = {}
        BY <4>2
      <4> QED
        BY <3>1, <4>1, <4>3
    <3> QED
      BY <3>2, <3>3
  <2>6. /\ DOMAIN NamespacedKinds(snap) = DOMAIN e \ {""}
        /\ \A n \in DOMAIN e \ {""} : NamespacedKinds(snap)[n] = e[n]
    BY DEF NamespacedKinds, e
  <2>7. \A o \in Range(s) : o.ns # "" => NamespacedKinds(snap)[o.ns] = inNs(o.ns)
    BY <2>3, <2>4, <2>6
  <2>8. DOMAIN NamespacedKinds(snap) \subseteq {o.ns : o \in Range(s)}
    BY <2>3, <2>6
  <2> QED
    BY <2>5, <2>7, <2>8 DEF s, inNs, snap
<1>2. BuildsInv => SnapshotCovers
  BY <1>1, Zenon DEF SnapshotCovers
<1> QED
  BY <1>2, BuildsInvAlways, PTL

\* Namespaces are applied before definitions, and those before all else,
\* whatever the sort does with ties (ObjectSorter.Less).
THEOREM NeedsComeFirst == Spec => []NeededFirst
<1>1. ASSUME BuildsInv, NEW k \in Konfigs, Built(k)
      PROVE  LET objects == output[k].snapshot.checksum
                 isNs(o)   == o.kind = "Namespace"
                 needed(o) == isNs(o) \/ o.kind = "CustomResourceDefinition"
             IN  \A i, j \in DOMAIN objects : i < j =>
                     /\ isNs(objects[j]) => isNs(objects[i])
                     /\ needed(objects[j]) => needed(objects[i])
  <2> DEFINE objects == output[k].snapshot.checksum
  <2>1. PICK w, r :
          /\ w \in Walks[Result(k)] /\ Accepted(w) /\ r \in Sorts(Output(w)) /\ objects = r /\ r \in Seq(Ranked)
    BY <1>1, BuiltFrom
  <2>2. Output(w) \in Seq(Ranked)
    BY <2>1, RowsTyped
  <2>3. \A i, j \in DOMAIN r : i < j => ~Less(r[j], r[i])
    BY <2>1, <2>2, SortsOrder
  <2> SUFFICES ASSUME NEW i \in DOMAIN r, NEW j \in DOMAIN r, i < j
               PROVE  /\ r[j].kind = "Namespace" => r[i].kind = "Namespace"
                      /\ r[j].kind \in {"Namespace", "CustomResourceDefinition"} =>
                            r[i].kind \in {"Namespace", "CustomResourceDefinition"}
    BY <2>1
  <2>4. ~(Group(r[j]) < Group(r[i]))
    BY <2>3 DEF Less
  <2> QED
    BY <2>4 DEF Group, First
<1>2. BuildsInv => NeededFirst
  BY <1>1, Zenon DEF NeededFirst
<1> QED
  BY <1>2, BuildsInvAlways, PTL

\* A build renders every object of its document once, and nothing else
\* (jsonWalk, Build, checkNamespace).
THEOREM ObjectsOnce == Spec => []EveryObjectOnce
<1>1. ASSUME BuildsInv, NEW k \in Konfigs, Built(k), ~HasList(Result(k))
      PROVE  LET objects == output[k].snapshot.checksum
                 leaves  == Leaves(Result(k))
                 home(o) == IF Namespaced[o.kind] /\ o.ns = "" THEN KonfigNs ELSE o.ns
             IN  /\ Len(objects) = Cardinality(leaves)
                 /\ Range(objects) = {[l[2] EXCEPT !.ns = home(l[2])] : l \in leaves}
  <2> DEFINE doc == Result(k)
             objects == output[k].snapshot.checksum
             leaves == Leaves(doc)
             home(o) == IF Namespaced[o.kind] /\ o.ns = "" THEN KonfigNs ELSE o.ns
             n == Len(objects)
  <2>1. PICK w \in Walks[doc] :
          /\ Accepted(w) /\ objects \in Sorts(Output(w)) /\ objects \in Seq(Ranked)
          /\ doc \in Values
    BY <1>1, BuiltFrom
  <2> HIDE DEF objects
  <2>2. PICK h : /\ OneToOne(h, 1..Len(Output(w)), leaves)
                 /\ \A i \in 1..Len(Output(w)) : Output(w)[i] = Placed(h[i][2])
                 /\ Output(w) \in Seq(Ranked)
    BY <1>1, <2>1, OutputOnce
  <2>3. PICK p : Permutes(p, objects, Output(w))
    BY <2>1, <2>2, SortsOrder
  <2> DEFINE m == [i \in 1..n |-> h[p[i]]]
  <2>4. n \in Nat /\ DOMAIN objects = 1..n /\ DOMAIN Output(w) = 1..Len(Output(w))
    BY <2>1, <2>2
  <2>5. OneToOne(p, 1..n, 1..Len(Output(w))) /\ \A i \in 1..n : Output(w)[p[i]] = objects[i]
    BY <2>3, <2>4 DEF Permutes
  <2> HIDE DEF leaves, doc, n
  <2>6. OneToOne(m, 1..n, leaves)
    <3> DEFINE mid == 1..Len(Output(w))
    <3>1. OneToOne(p, 1..n, mid) /\ OneToOne(h, mid, leaves)
      BY <2>2, <2>5
    <3> HIDE DEF mid
    <3> QED
      BY <3>1, Composed
  <2>7. \A i \in 1..n : objects[i] = Placed(m[i][2])
    BY <2>2, <2>5 DEF OneToOne
  <2> HIDE DEF m
  <2>8. n = Cardinality(leaves)
    <3>1. IsFiniteSet(1..n) /\ Cardinality(1..n) = n
      BY <2>4, FS_Interval
    <3> QED
      BY <2>6, <3>1, SameCardinality
  <2>9. \A l \in leaves : Placed(l[2]) = [l[2] EXCEPT !.ns = home(l[2])]
    <3>1. \A l \in leaves : l[2] \in Objects
      BY <1>1, <2>1, LeavesTyped DEF leaves, doc
    <3>2. ASSUME NEW o \in Objects PROVE Placed(o) = [o EXCEPT !.ns = home(o)]
      <4>1. [o EXCEPT !.ns = o.ns] = o
        BY DEF Objects
      <4> QED
        BY <4>1, Zenon DEF Placed
    <3> HIDE DEF home
    <3> QED
      BY <3>1, <3>2
  <2>10. Range(objects) = {[l[2] EXCEPT !.ns = home(l[2])] : l \in leaves}
    <3>1. Range(objects) = {objects[i] : i \in 1..n}
      BY <2>4 DEF Range
    <3>2. Range(objects) = {Placed(l[2]) : l \in leaves}
      BY <2>6, <2>7, <3>1 DEF OneToOne
    <3> DEFINE there(l) == [l[2] EXCEPT !.ns = home(l[2])]
    <3>3. \A l \in leaves : Placed(l[2]) = there(l)
      BY <2>9
    <3> HIDE DEF there
    <3>4. Range(objects) = {there(l) : l \in leaves}
      BY <3>2, <3>3
    <3> QED
      BY <3>4 DEF there
  <2> QED
    BY <2>8, <2>10, Zenon DEF objects, leaves, doc, n
<1>2. BuildsInv => EveryObjectOnce
  BY <1>1, Zenon DEF EveryObjectOnce
<1> QED
  BY <1>2, BuildsInvAlways, PTL

\* The same contents have the same checksum at every build, whatever order Go
\* walks the maps in and whatever the sort does, unless objects tie
\* (jsonWalk, ObjectSorter.Less).
THEOREM ChecksumsStay == Spec => SameChecksum
<1> DEFINE Stays(k) ==
        /\ Built(k) /\ result'[k] = "done"
        /\ output[k].contents = output'[k].contents
        /\ ~Ties(output[k].snapshot.checksum)
        => output'[k].snapshot = output[k].snapshot
<1>1. ASSUME BuildsInv, BuildsInv', NEW k \in Konfigs PROVE Stays(k)
  <2> SUFFICES ASSUME Built(k), result'[k] = "done",
                      output[k].contents = output'[k].contents,
                      ~Ties(output[k].snapshot.checksum)
               PROVE  output'[k].snapshot = output[k].snapshot
    OBVIOUS
  <2> DEFINE c == output[k].contents
             doc == Document(k, c)
             s == output[k].snapshot
             t == output'[k].snapshot
  <2>1. c \in Inputs(k) /\ s \in Renders(doc)
    BY <1>1 DEF BuildsInv, Sound
  <2>2. t \in Renders(doc)
    BY <1>1 DEF BuildsInv, Sound, Built
  <2>3. doc \in Values
    BY <2>1, DocumentAssumption
  <2> HIDE DEF doc, s, t
  <2>4. PICK v, q : v \in Walks[doc] /\ Accepted(v) /\ q \in Sorts(Output(v)) /\ s = NewSnapshot(q)
    BY <2>1, <2>3, RendersSorted
  <2>5. PICK w, r : w \in Walks[doc] /\ Accepted(w) /\ r \in Sorts(Output(w)) /\ t = NewSnapshot(r)
    BY <2>2, <2>3, RendersSorted
  <2>6. Output(v) \in Seq(Ranked) /\ Output(w) \in Seq(Ranked)
    BY <2>4, <2>5, RowsTyped
  <2>7. PICK p : Permutes(p, Output(v), Output(w))
    BY <2>3, <2>4, <2>5, OutputsPermuted
  <2>8. q \in Seq(Ranked)
    BY <2>4, <2>6, SortsOrder
  <2>9. ~Ties(q)
    <3>1. Len(q) \in Nat
      BY <2>8
    <3>2. NewSnapshot(q).checksum = q
      BY <3>1, NewSnapshotCovers
    <3> QED
      BY <2>4, <3>2 DEF s
  <2>10. q = r
    BY <2>4, <2>5, <2>6, <2>7, <2>9, SortedOnce
  <2> QED
    BY <2>4, <2>5, <2>10 DEF s, t
<1>2. BuildsInv /\ BuildsInv' => [\A k \in Konfigs : Stays(k)]_buildVars
  BY <1>1
<1> QED
  BY <1>2, BuildsInvAlways, PTL DEF SameChecksum

===============================================================================
