--------------------------------- MODULE Builds -------------------------------
(***************************************************************************)
(* Builds of several Konfigurations (builder.Build in pkg/jsonnet, as both *)
(* Reconcile and the dry-run handler call it): the imports of Imports,     *)
(* then the rendering of Rendering.  What the interpreter makes of the     *)
(* contents it imported is the constant Document.                          *)
(***************************************************************************)
EXTENDS Imports, Rendering

CONSTANT Document(_, _)   \* the value of a program, by the contents of its imports

VARIABLE output   \* the contents and the snapshot of the last build that was done

buildVars == <<importVars, output>>

NoOutput == [contents |-> <<>>, snapshot |-> NewSnapshot(<<>>)]

Init == /\ ImportsInit
        /\ output = [k \in Konfigs |-> NoOutput]

Contents(k) == [i \in DOMAIN build[k].got |-> build[k].got[i].content]

\* Code that is not a whole file does not parse; data, read by importstr, is
\* what it is.
Parses(k, contents) ==
    \A i \in DOMAIN ImportsOf[k] : ImportsOf[k][i].code => contents[i] \in Range(Whole)

\* What the imports of k may have been when its program was evaluated.
Inputs(k) == {c \in [DOMAIN ImportsOf[k] -> AllContents] : Parses(k, c)}

ASSUME DocumentAssumption == \A k \in Konfigs : \A c \in Inputs(k) : Document(k, c) \in Values

\* The snapshots a build of a document may end with: none if the walk, a list
\* or the REST mapper refuses it.
Renders(doc) ==
    IF \E s \in Walks[doc] : ToListFails(s) \/ Unknown(s) THEN {}
    ELSE {NewSnapshot(r) : r \in UNION {Sorts(Output(s)) : s \in Walks[doc]}}

\* The same for every program and its inputs, to be computed once.
Renderings == UNION {UNION {{<<k, c, s>> : s \in Renders(Document(k, c))} : c \in Inputs(k)} :
                        k \in Konfigs}

Snapshots(k, c) == {r[3] : r \in {r \in Renderings : r[1] = k /\ r[2] = c}}

Build(k) ==
    /\ build[k].pc = "render"
    /\ \/ ~Parses(k, Contents(k)) /\ Ends(k, "failed") /\ UNCHANGED output
       \/ /\ Parses(k, Contents(k))
          /\ Snapshots(k, Contents(k)) = {}
          /\ Ends(k, "refused") /\ UNCHANGED output
       \/ /\ Parses(k, Contents(k))
          /\ Ends(k, "done")
          /\ \E s \in Snapshots(k, Contents(k)) :
                output' = [output EXCEPT ![k] = [contents |-> Contents(k), snapshot |-> s]]

Next == \/ \E k \in Konfigs : \/ ImportStep(k) /\ UNCHANGED output
                              \/ Build(k)
        \/ (Site \/ Crash) /\ UNCHANGED output

Spec == Init /\ [][Next]_buildVars

\* A build goes on to its end, and a Konfiguration is built again at its
\* interval.  Fairness leaves out the snapshots, which are costly to enumerate
\* for ENABLED.
FairSpec == Spec /\ \A k \in Konfigs :
                /\ WF_importVars(ImportStep(k))
                /\ WF_importVars(\E r \in {"failed", "refused", "done"} : Ends(k, r))

-------------------------------------------------------------------------------
(* Properties *)

\* Every import of a Konfiguration succeeds from some time on, unless the site
\* does not have the file, or fails for one of the candidates, or a crash, a
\* failed write or two writers left a torn file behind, which nothing repairs
\* (universalImporter.Import, httpCache.Get).
ImportsRecover ==
    (/\ \A f \in RemoteFiles : <>[](remote[f] # Broken)
     /\ \A f \in Published \union Updated : <>[](remote[f] # NotFound) /\ <>[](~Torn(f)))
    => \A k \in Konfigs : <>[](result[k] # "failed")

Built(k)  == result[k] = "done"
Result(k) == Document(k, output[k].contents)

\* The objects and lists in a document, each with the place it is found at.
Within(doc, places) ==
    UNION {{<<<<k, p[1]>>, p[2]>> : p \in places[k]} : k \in DOMAIN doc[2]}

Places[doc \in Values] ==
    IF IsObject(doc) THEN {<<<<>>, doc>>}
    ELSE IF doc[1] \in {"map", "list"}
         THEN Within(doc, [k \in DOMAIN doc[2] |-> Places[doc[2][k]]])
         ELSE {}

\* The objects alone, those of lists among them.
Leaves(doc) == UNION {{<<<<p[1], j>>, ItemsOf(p[2])[j][2]>> : j \in DOMAIN ItemsOf(p[2])} :
                        p \in Places[doc]}

HasList(doc) == \E p \in Places[doc] : Len(ItemsOf(p[2])) # 1

\* A build renders every object of the document once and nothing else, a
\* namespaced one without a namespace into that of the Konfiguration; lists
\* of several items aside (jsonWalk, Build, checkNamespace).
EveryObjectOnce ==
    \A k \in Konfigs : Built(k) /\ ~HasList(Result(k)) =>
        LET objects == output[k].snapshot.checksum
            leaves  == Leaves(Result(k))
            home(o) == IF Namespaced[o.kind] /\ o.ns = "" THEN KonfigNs ELSE o.ns
        IN  /\ Len(objects) = Cardinality(leaves)
            /\ Range(objects) = {[l[2] EXCEPT !.ns = home(l[2])] : l \in leaves}

\* "Build the output, taking care to ensure namespaces are properly set on
\* namespaced objects" (builder.go): each object of the document has one in
\* the output.
EveryObjectRendered ==
    \A k \in Konfigs : Built(k) =>
        \A l \in Leaves(Result(k)) :
            \E i \in DOMAIN output[k].snapshot.checksum :
                LET o == output[k].snapshot.checksum[i] IN o.kind = l[2].kind /\ o.name = l[2].name

\* The kinds a pruning will list by this snapshot are those of the objects
\* the build applies, namespace by namespace: with one missing, its objects
\* are never pruned (addEntry, NonNamespacedKinds, NamespacedKinds).
SnapshotCovers ==
    \A k \in Konfigs : Built(k) =>
        LET snap    == output[k].snapshot
            inNs(n) == {o.kind : o \in {x \in Range(snap.checksum) : x.ns = n}}
        IN  /\ NonNamespacedKinds(snap) = inNs("")
            /\ \A o \in Range(snap.checksum) : o.ns # "" => NamespacedKinds(snap)[o.ns] = inNs(o.ns)
            /\ DOMAIN NamespacedKinds(snap) \subseteq {o.ns : o \in Range(snap.checksum)}

\* What other objects need comes before them in the order they are applied
\* in: the namespaces, then the definitions (ObjectSorter.Less).
NeededFirst ==
    \A k \in Konfigs : Built(k) =>
        LET objects == output[k].snapshot.checksum
            isNs(o)   == o.kind = "Namespace"
            needed(o) == isNs(o) \/ o.kind = "CustomResourceDefinition"
        IN  \A i, j \in DOMAIN objects : i < j =>
                /\ isNs(objects[j]) => isNs(objects[i])
                /\ needed(objects[j]) => needed(objects[i])

\* Two objects that the order does not tell apart.
Ties(s) == \E i, j \in DOMAIN s : i # j /\ Group(s[i]) = Group(s[j]) /\ SortName(s[i]) = SortName(s[j])

\* The same contents have the same checksum at every build, whatever order
\* maps are walked in and whatever the sort does with ties; unless there are
\* ties, such as objects of two kinds that share namespace and name.
SameChecksum ==
    [][\A k \in Konfigs :
        /\ Built(k) /\ result'[k] = "done"
        /\ output[k].contents = output'[k].contents
        /\ ~Ties(output[k].snapshot.checksum)
        => output'[k].snapshot = output[k].snapshot]_buildVars
===============================================================================
