-------------------------------- MODULE Imports -------------------------------
(***************************************************************************)
(* The imports of jsonnet builds (pkg/jsonnet/importer.go) and the cache   *)
(* of remote files they share (pkg/jsonnet/cache.go).  Each Konfiguration  *)
(* has at most one build in hand; builds of several run at once and read   *)
(* and write the cache directory without a lock.                           *)
(*                                                                         *)
(* A url is a triple of scheme, directory and name.  A content is a        *)
(* sequence of blocks, each the version it belongs to: Whole[v] is the     *)
(* whole file at version v, and the blocks of a file may also be a part of *)
(* it or a mixture, whatever its writers left there.  The URLs of a site   *)
(* change by versions 1, 2, ..: NotFound and Broken are its other answers. *)
(*                                                                         *)
(* Bounds: MaxVersion on the versions of a file, MaxFaults on outages,     *)
(* failed writes and crashes of the controller together.                   *)
(***************************************************************************)
EXTENDS Sequences, Integers

CONSTANTS
    Konfigs,
    ImportsOf,      \* the imports each Konfiguration's program evaluates, in order
    JsonnetPaths,   \* spec.jsonnetPaths of each Konfiguration
    JsonnetURLs,    \* spec.jsonnetURLs, as directories of the site
    SourceFiles,    \* the files of the source, as pairs of directory and name
    EmbeddedAs,     \* the name under lib/ that each internal name is looked up as
    Embedded,       \* the names the embedded library has
    RemoteFiles,    \* the files asked of the site, as pairs of directory and name
    Published,      \* those it has at the start
    Updated,        \* those it publishes new versions of
    Size,           \* the blocks of each version of a remote file
    MaxVersion, MaxFaults

ASSUME KonfigsAssumption == /\ DOMAIN ImportsOf = Konfigs
                            /\ DOMAIN JsonnetPaths = Konfigs
                            /\ DOMAIN JsonnetURLs = Konfigs
ASSUME BoundsAssumption == MaxVersion \in Nat \ {0} /\ MaxFaults \in Nat
ASSUME SizeAssumption == Size \in [1..MaxVersion -> Nat \ {0}]

VARIABLES
    remote,   \* what the site answers for each of its files
    newest,   \* the newest version of each
    files,    \* the cache directory
    build,    \* the build in hand of each Konfiguration
    result,   \* how the last build of each Konfiguration ended
    faults

importVars == <<remote, newest, files, build, result, faults>>

NotFound == 0
Broken   == -1
Missing  == <<0>>    \* no file, which is not an empty one

Whole == [v \in 1..MaxVersion |-> [i \in 1..Size[v] |-> v]]

\* What a file may hold, with what cut off or overwritten by other versions.
AllContents == UNION {[1..n -> 1..MaxVersion] : n \in UNION {0..Size[v] : v \in 1..MaxVersion}}

\* A file of the source or of the library: a content of its own.
Fixed == Whole[1]

Url(scheme, dir, name) == [scheme |-> scheme, dir |-> dir, name |-> name]

IsHTTP(u) == u.scheme \in {"http", "https"}

\* getLocalPath takes the scheme off the url.
LocalPath(u) == <<u.dir, u.name>>

-------------------------------------------------------------------------------
(* NewBuilder and expandImportToCandidateURLs *)

\* The search urls: the library, the paths of the working directory, which
\* is a new and empty one, and the remote ones.
SearchURLs(k, name) ==
    <<Url("internal", "", name)>>
    \o [i \in DOMAIN JsonnetPaths[k] |-> Url("workdir", JsonnetPaths[k][i], name)]
    \o [i \in DOMAIN JsonnetURLs[k] |-> Url("https", JsonnetURLs[k][i], name)]

\* An import is a url and whether it is absolute; a relative one is first
\* looked for in the directory of the importing file.
Candidates(k, import) ==
    IF import.absolute THEN <<import.url>>
    ELSE <<import.url>> \o SearchURLs(k, import.url.name)

\* The imports of the program of k, and the urls they may be looked for at.
Items(k) == {ImportsOf[k][i] : i \in DOMAIN ImportsOf[k]}
Asked(k) == UNION {{Candidates(k, import)[i] : i \in DOMAIN Candidates(k, import)} : import \in Items(k)}

ASSUME SequencesAssumption == \A k \in Konfigs :
    /\ ImportsOf[k] \in Seq(Items(k))
    /\ JsonnetPaths[k] \in Seq({JsonnetPaths[k][i] : i \in DOMAIN JsonnetPaths[k]})
    /\ JsonnetURLs[k] \in Seq({JsonnetURLs[k][i] : i \in DOMAIN JsonnetURLs[k]})
ASSUME RemoteFilesAssumption ==
    \A k \in Konfigs : \A u \in Asked(k) : IsHTTP(u) => LocalPath(u) \in RemoteFiles

\* What the transport of a local scheme finds.
IsThere(u) == CASE u.scheme = "internal" -> EmbeddedAs[u.name] \in Embedded
                [] u.scheme = "source"   -> LocalPath(u) \in SourceFiles
                [] u.scheme = "workdir"  -> FALSE

-------------------------------------------------------------------------------
NoMemo  == [u \in {} |-> <<>>]
NoBuild == [pc |-> "idle", left |-> <<>>, cand |-> <<>>, body |-> NotFound,
            memo |-> NoMemo, got |-> <<>>]

ImportsInit == /\ remote = [f \in RemoteFiles |-> IF f \in Published THEN 1 ELSE NotFound]
               /\ newest = remote
               /\ files = [f \in RemoteFiles |-> Missing]
               /\ build = [k \in Konfigs |-> NoBuild]
               /\ result = [k \in Konfigs |-> "none"]
               /\ faults = 0

Fault == faults < MaxFaults /\ faults' = faults + 1

World == UNCHANGED <<remote, newest>>

\* The url at the head of the candidates.
Wanted(k) == Head(build[k].cand)

\* What the program imports next, if anything.
Continue(k, b) == IF b.left = <<>> THEN [b EXCEPT !.pc = "render", !.cand = <<>>]
                  ELSE [b EXCEPT !.pc = "lookup", !.cand = Candidates(k, Head(b.left))]

\* The import is found at the head of the candidates.
Found(k, content) ==
    LET b == build[k]
    IN  build' = [build EXCEPT ![k] = Continue(k,
                    [b EXCEPT !.body = NotFound,
                              !.left = Tail(@),
                              !.got = Append(@, [url |-> Wanted(k), content |-> content]),
                              !.memo = [u \in DOMAIN @ \union {Wanted(k)} |->
                                            IF u = Wanted(k) THEN content ELSE @[u]]])]

\* An import that was not found, or could not be read, fails the build.
FailBuild(k) == /\ build' = [build EXCEPT ![k] = NoBuild]
                /\ result' = [result EXCEPT ![k] = "failed"]

\* Mutant of TryNext: the end of the candidates is not noticed.
TryOn(k) == /\ build' = [build EXCEPT ![k].pc = "lookup", ![k].cand = Tail(@)]
            /\ UNCHANGED result

\* Not found goes on to the next candidate, as long as there is one.
TryNext(k) == IF Len(build[k].cand) = 1 THEN FailBuild(k)
              ELSE /\ build' = [build EXCEPT ![k].pc = "lookup", ![k].cand = Tail(@)]
                   /\ UNCHANGED result

-------------------------------------------------------------------------------
(* Import *)

StartBuild(k) ==
    /\ build[k].pc = "idle"
    /\ build' = [build EXCEPT ![k] = Continue(k, [NoBuild EXCEPT !.left = ImportsOf[k]])]
    /\ UNCHANGED <<files, faults, result>> /\ World

\* Mutant of Remembered: the importer keeps no contents of its own.
ForgetsAll(k, u) == FALSE

\* The importer has the url from earlier in this build.
Remembered(k, u) == u \in DOMAIN build[k].memo

\* What this build imported already; what an earlier one left in the cache
\* directory, read as it is; a request; or a local file.
Lookup(k) ==
    /\ build[k].pc = "lookup"
    /\ LET u == Wanted(k)
       IN  \/ Remembered(k, u) /\ Found(k, build[k].memo[u]) /\ UNCHANGED result
           \/ /\ ~Remembered(k, u) /\ IsHTTP(u)
              /\ files[LocalPath(u)] # Missing
              /\ Found(k, files[LocalPath(u)])
              /\ UNCHANGED result
           \/ /\ ~Remembered(k, u) /\ IsHTTP(u)
              /\ files[LocalPath(u)] = Missing
              /\ build' = [build EXCEPT ![k].pc = "get"]
              /\ UNCHANGED result
           \/ /\ ~Remembered(k, u) /\ ~IsHTTP(u)
              /\ IF IsThere(u) THEN Found(k, Fixed) /\ UNCHANGED result ELSE TryNext(k)
    /\ UNCHANGED <<files, faults>> /\ World

\* Mutant of Get: any answer but OK ends the import.
GetOrFail(k) ==
    /\ build[k].pc = "get"
    /\ LET answer == remote[LocalPath(Wanted(k))]
       IN  \/ answer \in {NotFound, Broken} /\ FailBuild(k)
           \/ /\ answer \notin {NotFound, Broken}
              /\ build' = [build EXCEPT ![k] = [@ EXCEPT !.pc = "open", !.body = answer]]
              /\ UNCHANGED result
    /\ UNCHANGED <<files, faults>> /\ World

\* The request of a remote file: an error other than not found ends the import.
Get(k) ==
    /\ build[k].pc = "get"
    /\ LET answer == remote[LocalPath(Wanted(k))]
       IN  \/ answer = NotFound /\ TryNext(k)
           \/ answer = Broken /\ FailBuild(k)
           \/ /\ answer \notin {NotFound, Broken}
              /\ build' = [build EXCEPT ![k] = [@ EXCEPT !.pc = "open", !.body = answer]]
              /\ UNCHANGED result
    /\ UNCHANGED <<files, faults>> /\ World

\* WriteFile opens and truncates the file, then writes to it.  An error of
\* either is only logged.
OpenFile(k) ==
    /\ build[k].pc = "open"
    /\ \/ /\ files' = [files EXCEPT ![LocalPath(Wanted(k))] = <<>>]
          /\ build' = [build EXCEPT ![k].pc = "write"]
          /\ UNCHANGED faults
       \/ Fault /\ Found(k, Whole[build[k].body]) /\ UNCHANGED files
    /\ UNCHANGED result /\ World

\* Mutant of Overwrite: the file is opened to append to it.
Appends(file, blocks) == file \o blocks

\* Bytes at the start of a file, over what is there.
Overwrite(file, blocks) ==
    [i \in DOMAIN file \union DOMAIN blocks |-> IF i \in DOMAIN blocks THEN blocks[i] ELSE file[i]]

WriteFile(k) ==
    /\ build[k].pc = "write"
    /\ \E n \in 0..Size[build[k].body] :
        /\ \/ n = Size[build[k].body] /\ UNCHANGED faults
           \/ n < Size[build[k].body] /\ Fault
        /\ files' = [files EXCEPT ![LocalPath(Wanted(k))] =
                        Overwrite(@, SubSeq(Whole[build[k].body], 1, n))]
    /\ Found(k, Whole[build[k].body])
    /\ UNCHANGED result /\ World

\* The imports are there, and the build ends with r: what comes of the contents
\* is module Builds'.
Ends(k, r) ==
    /\ build[k].pc = "render"
    /\ build' = [build EXCEPT ![k] = NoBuild]
    /\ result' = [result EXCEPT ![k] = r]
    /\ UNCHANGED <<files, faults>> /\ World

-------------------------------------------------------------------------------
(* The site, and the controller *)

Publish(f) ==
    /\ f \in Updated /\ remote[f] # Broken /\ newest[f] < MaxVersion
    /\ newest' = [newest EXCEPT ![f] = @ + 1]
    /\ remote' = [remote EXCEPT ![f] = newest[f] + 1]
    /\ UNCHANGED <<files, build, result, faults>>

Outage(f) ==
    /\ remote[f] # Broken
    /\ Fault
    /\ remote' = [remote EXCEPT ![f] = Broken]
    /\ UNCHANGED <<newest, files, build, result>>

Restore(f) ==
    /\ remote[f] = Broken
    /\ remote' = [remote EXCEPT ![f] = newest[f]]
    /\ UNCHANGED <<newest, files, build, result, faults>>

\* The cache directory is an emptyDir: it outlives the controller's container.
Crash ==
    /\ \E k \in Konfigs : build[k].pc # "idle"
    /\ Fault
    /\ build' = [k \in Konfigs |-> NoBuild]
    /\ UNCHANGED <<remote, newest, files, result>>

ImportStep(k) == \/ StartBuild(k) \/ Lookup(k) \/ Get(k)
                 \/ OpenFile(k) \/ WriteFile(k)

Site == \E f \in RemoteFiles : Publish(f) \/ Outage(f) \/ Restore(f)

ImportsNext == \/ \E k \in Konfigs : \/ ImportStep(k)
                                     \/ \E r \in {"failed", "refused", "done"} : Ends(k, r)
               \/ Site
               \/ Crash

ImportsSpec == ImportsInit /\ [][ImportsNext]_importVars

-------------------------------------------------------------------------------
(* Properties *)

TypeOK ==
    /\ remote \in [RemoteFiles -> Broken..MaxVersion]
    /\ newest \in [RemoteFiles -> 0..MaxVersion]
    /\ files \in [RemoteFiles -> {Missing} \union Seq(1..MaxVersion)]
    /\ \A k \in Konfigs :
        /\ build[k].pc \in {"idle", "lookup", "get", "open", "write", "render"}
        /\ build[k].pc \in {"lookup", "get", "open", "write"} <=> build[k].cand # <<>>
        /\ build[k].pc \in {"open", "write"} <=> build[k].body # NotFound
    /\ result \in [Konfigs -> {"none", "failed", "refused", "done"}]
    /\ faults \in 0..MaxFaults

\* One build sees one content of a url, however often its program imports it
\* and whatever other builds write to the cache directory in between
\* (universalImporter.cache).
OneContentPerBuild ==
    \A k \in Konfigs : \A i, j \in DOMAIN build[k].got :
        build[k].got[i].url = build[k].got[j].url => build[k].got[i].content = build[k].got[j].content

\* A program is evaluated with an answer to each of its imports, in their
\* order and from a candidate of the import's own; and however builds write one
\* file at once, what they leave is no longer than a version of it
\* (universalImporter.Import, httpCache.Get).
EveryImportAnswered ==
    \A k \in Konfigs : build[k].pc = "render" =>
        /\ DOMAIN build[k].got = DOMAIN ImportsOf[k]
        /\ \A i \in DOMAIN ImportsOf[k] :
            LET given == build[k].got[i]
                cands == Candidates(k, ImportsOf[k][i])
            IN  /\ \E j \in DOMAIN cands : given.url = cands[j]
                /\ given.content \in AllContents

\* A cache file that is not the one the site served at any version.
Torn(f) == files[f] # Missing /\ \A v \in DOMAIN Whole : files[f] # Whole[v]
===============================================================================
