--------------------------------- MODULE Drift --------------------------------
(***************************************************************************)
(* One rendered object and its counterpart in the cluster, pass after pass *)
(* (reconcileUnstructured of pkg/resources/manager.go): the checksum       *)
(* annotation, the drift detection of Diff and the server-side apply, next *)
(* to users who edit the object or manage it with kubectl apply.           *)
(*                                                                         *)
(* It is what ResourceManager abstracts as one of its objects: NeedsApply  *)
(* there says what Reconcile decides here.  Bounds: at most MaxRevisions   *)
(* manifests and MaxEdits changes by others.                               *)
(***************************************************************************)
EXTENDS Diff

CONSTANTS
    Configs,         \* for each kind, the documents an object may be rendered as
    Edits(_),        \* the documents a user may make of a live one
    ServerDefaults,  \* for each kind, what the API server adds to a list item
    MaxRevisions, MaxEdits

ASSUME BoundAssumption == MaxRevisions \in Nat \ {0} /\ MaxEdits \in Nat

ASSUME DocumentsAssumption ==
    /\ \A k \in DOMAIN Configs : \A c \in Configs[k] : IsDocument(c)
    /\ \A k \in DOMAIN Configs : \A f \in DOMAIN ServerDefaults[k] :
            \A p \in DOMAIN ServerDefaults[k][f] : IsPath(p)

VARIABLES
    kind,       \* the kind of the object, which never changes
    config,     \* the document as the last revision renders it
    live,       \* the object in the cluster
    verdict,    \* what the last pass said, "none" when something happened since
    revisions, edits

vars == <<kind, config, live, verdict, revisions, edits>>

-------------------------------------------------------------------------------
\* sum: the configuration the checksum annotation is of; mine: the one whose
\* fields the controller owns; lastApplied: kubectl's annotation.  Each is a
\* sequence of at most one document.
Missing == [exists |-> FALSE, doc |-> Map(NoFields), sum |-> <<>>, mine |-> <<>>,
            lastApplied |-> <<>>]

ServerMetadata ==
    [p \in {<<>>, <<"metadata">>, <<"metadata", "creationTimestamp">>, <<"metadata", "namespace">>} |->
        IF Len(p) < 2 THEN Obj ELSE <<"string", "server">>]

\* A document as the API server stores it: stringData becomes data, list items
\* of most kinds get defaults, a created object its timestamp and namespace.
Stored(doc) ==
    LET given == IF kind = "Secret" THEN NormalizeSecret(doc) ELSE doc
    IN  MergePatch(Pruned(DefaultItems(given, ServerDefaults[kind])), ServerMetadata)

\* The live object without the fields of from that doc does not have, and with
\* those of doc; all others stay.
Patched(from, doc) ==
    Stored(MergePatch(MergePatch(live.doc, Deletions(from, doc, FALSE)), Stored(doc)))

\* Mutant of ServerSideApply: the checksum is of the document as it is stored.
ApplyWithStoredSum(doc) ==
    LET own == IF live.mine = <<>> THEN Map(NoFields) ELSE Stored(live.mine[1])
    IN  [live EXCEPT !.exists = TRUE, !.doc = Patched(own, Stored(doc)),
                     !.sum = <<Stored(doc)>>, !.mine = <<doc>>]

\* The API server takes an apply: fields that were the controller's and are not
\* in doc go, those of doc are set.
ServerSideApply(doc) ==
    LET own == IF live.mine = <<>> THEN Map(NoFields) ELSE Stored(live.mine[1])
    IN  [live EXCEPT !.exists = TRUE, !.doc = Patched(own, Stored(doc)),
                     !.sum = <<doc>>, !.mine = <<doc>>]

Init == /\ kind \in DOMAIN Configs
        /\ config \in Configs[kind]
        /\ live = Missing
        /\ verdict = "none"
        /\ revisions = 1
        /\ edits = 0

\* reconcileUnstructured without a dry run: created, configured because of the
\* checksum or of drift, or up to date.
Reconcile ==
    /\ \/ /\ \/ ~live.exists
             \/ live.sum # <<config>>
             \/ Modified(kind, config, live.doc, live.lastApplied)
          /\ live' = ServerSideApply(config)
          /\ verdict' = "applied"
       \/ /\ live.exists
          /\ live.sum = <<config>>
          /\ ~Modified(kind, config, live.doc, live.lastApplied)
          /\ verdict' = "up to date"
          /\ UNCHANGED live
    /\ UNCHANGED <<kind, config, revisions, edits>>

\* A new revision renders another document.
Revise ==
    /\ revisions < MaxRevisions
    /\ config' \in Configs[kind] \ {config}
    /\ verdict' = "none"
    /\ revisions' = revisions + 1
    /\ UNCHANGED <<kind, live, edits>>

\* Someone changes the object, loses its annotation or deletes it.
Edit ==
    /\ live.exists /\ edits < MaxEdits
    /\ \/ \E doc \in Edits(live.doc) : IsDocument(doc) /\ live' = [live EXCEPT !.doc = Stored(doc)]
       \/ live' = [live EXCEPT !.sum = <<>>]
       \/ live' = Missing
    /\ verdict' = "none"
    /\ edits' = edits + 1
    /\ UNCHANGED <<kind, config, revisions>>

\* kubectl apply of a document of the user's own.
KubectlApply ==
    /\ edits < MaxEdits
    /\ \E doc \in Configs[kind] :
        LET own == IF live.lastApplied = <<>> THEN Map(NoFields) ELSE live.lastApplied[1]
        IN  live' = [live EXCEPT !.exists = TRUE, !.doc = Patched(own, doc), !.lastApplied = <<doc>>]
    /\ verdict' = "none"
    /\ edits' = edits + 1
    /\ UNCHANGED <<kind, config, revisions>>

Next == Reconcile \/ Revise \/ Edit \/ KubectlApply

Spec == Init /\ [][Next]_vars

-------------------------------------------------------------------------------
(* Properties *)

TypeOK == /\ kind \in DOMAIN Configs
          /\ config \in Configs[kind]
          /\ verdict \in {"none", "applied", "up to date"}
          /\ live.exists => /\ live.doc[<<>>] = Obj
                            /\ \A s \in {live.sum, live.mine, live.lastApplied} :
                                    s = <<>> \/ s[1] \in Configs[kind]
          /\ revisions \in 1..MaxRevisions /\ edits \in 0..MaxEdits

\* l has everything c asks for: the fields of its maps, and each of its lists
\* with as many items.
Has(l, c) ==
    \A p \in DOMAIN c :
        /\ p \in DOMAIN l /\ l[p] = c[p]
        /\ c[p] = Arr => \A q \in DOMAIN l : IsPrefix(p, q) /\ Len(q) = Len(p) + 1 => q \in DOMAIN c

\* doc has what the configuration asks for, but for its metadata, as the diff
\* compares the two: of a Secret its data, of Endpoints the subsets in whatever
\* order, of a Role an empty list by having none.
Satisfies(doc) ==
    LET want == Without(DropNulls(Normalize(kind, Remarshal(kind, config))), {<<"metadata">>})
    IN  /\ Has(IF kind = "Endpoints" THEN Normalize(kind, doc) ELSE doc, want)
        /\ kind = "Role" /\ Sub(config, "list") = List(<<>>) =>
                Sub(doc, "list") \in {List(<<>>), Map(NoFields)}

\* A pass that calls an object up to date found all it renders in the cluster:
\* no edit of a field, a list, a Secret or a role goes unseen
\* (reconcileUnstructured, the diff).
UpToDateMeansApplied == verdict = "up to date" => Satisfies(live.doc)

\* kubectl last applied something the configuration does not have any more.
Leftover == /\ live.lastApplied # <<>>
            /\ Deletions(Normalize(kind, live.lastApplied[1]), Normalize(kind, config), kind \notin Registered)
                    # Map(NoFields)

\* The API server adds fields to the items of a list that is patched whole, and
\* nothing tells them from the configuration's: the kind is registered, or what
\* was last applied has another list.
FilledIn ==
    LET base == IF live.lastApplied = <<>> THEN config ELSE live.lastApplied[1]
    IN  /\ DefaultItems(config, ServerDefaults[kind]) # config
        /\ \/ kind \in Registered \ {"StatefulSet"}
           \/ Sub(base, "list") # Sub(config, "list")

\* What a pass applied the next one finds up to date, so that nothing is
\* written without a change (reconcileUnstructured, "is up to date").
AppliedIsUpToDate ==
    verdict = "applied" => ~Modified(kind, config, live.doc, live.lastApplied)

\* The same but for the two cases in which it fails.
SettlesUnlessFilledIn == Leftover \/ FilledIn \/ AppliedIsUpToDate
===============================================================================
