------------------------------ MODULE ImportsProofs -----------------------------
(***************************************************************************)
(* What TLAPS proves of Imports: its types, and that a build sees one      *)
(* content of a url while others write the files it reads.                 *)
(*                                                                         *)
(* The importer's own cache holds what the program was given, and a url    *)
(* that is asked of the cache directory or of the site is not in it.       *)
(***************************************************************************)
EXTENDS Imports, SequenceTheorems, TLAPS

Blocks == Seq(0..MaxVersion)
Gots(k) == [url : Asked(k), content : Blocks]
Memos(k) == UNION {[urls -> Blocks] : urls \in SUBSET Asked(k)}

Importing == {"lookup", "get", "open", "write"}
Fetching  == {"get", "open", "write"}

BuildTypes(k) == [pc   : Importing \union {"idle", "render"},
                  left : Seq(Items(k)),
                  cand : Seq(Asked(k)),
                  body : 0..MaxVersion,
                  memo : Memos(k),
                  got  : Seq(Gots(k))]

\* What the program was given so far is what the importer remembers.
Remembers(b) == \A i \in DOMAIN b.got : /\ b.got[i].url \in DOMAIN b.memo
                                        /\ b.memo[b.got[i].url] = b.got[i].content

\* A build in hand.
GoodBuild(k, b) ==
    /\ b \in BuildTypes(k)
    /\ b.pc \in Importing <=> b.cand # <<>>
    /\ b.pc \in Importing => b.left # <<>>
    /\ b.pc \in {"open", "write"} <=> b.body # NotFound
    /\ b.pc \in Fetching => IsHTTP(Head(b.cand)) /\ Head(b.cand) \notin DOMAIN b.memo
    /\ Remembers(b)

SiteTypes == /\ remote \in [RemoteFiles -> Broken..MaxVersion]
             /\ newest \in [RemoteFiles -> 0..MaxVersion]
             /\ files \in [RemoteFiles -> {Missing} \union Seq(1..MaxVersion)]
             /\ result \in [Konfigs -> {"none", "failed", "refused", "done"}]
             /\ faults \in 0..MaxFaults

ImportsInv == /\ SiteTypes
              /\ DOMAIN build = Konfigs
              /\ \A k \in Konfigs : GoodBuild(k, build[k])

-------------------------------------------------------------------------------
(* The candidates *)

LEMMA OwnRange ==
    ASSUME NEW S, NEW s \in Seq(S)
    PROVE  s \in Seq({s[i] : i \in DOMAIN s})
OBVIOUS

\* An import has a candidate at least, and its candidates are urls asked of.
LEMMA CandidatesAsked ==
    ASSUME NEW k \in Konfigs, NEW import \in Items(k)
    PROVE  /\ Candidates(k, import) \in Seq(Asked(k))
           /\ Candidates(k, import) # <<>>
<1> DEFINE c == Candidates(k, import)
<1>1. \E S : c \in Seq(S) /\ c # <<>>
  <2> DEFINE name == import.url.name
             paths == [i \in DOMAIN JsonnetPaths[k] |-> Url("workdir", JsonnetPaths[k][i], name)]
             urls == [i \in DOMAIN JsonnetURLs[k] |-> Url("https", JsonnetURLs[k][i], name)]
             inner == Url("internal", "", name)
             fromPaths == {paths[i] : i \in DOMAIN paths}
             fromUrls == {urls[i] : i \in DOMAIN urls}
             all == ({import.url} \union {inner}) \union (fromPaths \union fromUrls)
  <2>1. paths \in Seq(fromPaths) /\ urls \in Seq(fromUrls)
    <3>1. /\ DOMAIN JsonnetPaths[k] = 1..Len(JsonnetPaths[k]) /\ Len(JsonnetPaths[k]) \in Nat
          /\ DOMAIN JsonnetURLs[k] = 1..Len(JsonnetURLs[k]) /\ Len(JsonnetURLs[k]) \in Nat
      BY SequencesAssumption
    <3> QED
      BY <3>1
  <2>2. c = IF import.absolute THEN <<import.url>>
            ELSE <<import.url>> \o ((<<inner>> \o paths) \o urls)
    BY DEF Candidates, SearchURLs
  <2> HIDE DEF paths, urls, inner, fromPaths, fromUrls, c
  <2>3. paths \in Seq(all) /\ urls \in Seq(all) /\ import.url \in all /\ inner \in all
    BY <2>1
  <2> HIDE DEF all
  <2>4. <<inner>> \o paths \in Seq(all)
    BY <2>3
  <2>5. (<<inner>> \o paths) \o urls \in Seq(all)
    BY <2>3, <2>4
  <2> DEFINE rest == (<<inner>> \o paths) \o urls
  <2> HIDE DEF rest
  <2>6. rest \in Seq(all)
    BY <2>5 DEF rest
  <2>7. <<import.url>> \in Seq(all) /\ Len(<<import.url>>) = 1
    BY <2>3
  <2>8. <<import.url>> \o rest \in Seq(all) /\ Len(<<import.url>> \o rest) = 1 + Len(rest)
    BY <2>3, <2>6, <2>7
  <2>9. Len(rest) \in Nat
    BY <2>6
  <2>10. c \in Seq(all) /\ Len(c) # 0
    BY <2>2, <2>7, <2>8, <2>9 DEF rest
  <2> QED
    BY <2>10
<1> HIDE DEF c
<1>2. c \in Seq({c[i] : i \in DOMAIN c}) /\ c # <<>>
  BY <1>1, OwnRange
<1>3. {c[i] : i \in DOMAIN c} \subseteq Asked(k)
  BY DEF Asked, c
<1> QED
  BY <1>2, <1>3 DEF c

-------------------------------------------------------------------------------
(* The pieces of a step *)

LEMMA NotBuilding ==
    ASSUME NEW k \in Konfigs
    PROVE  GoodBuild(k, NoBuild)
<1>1. NoMemo \in Memos(k)
  <2>1. NoMemo \in [{} -> Blocks] /\ {} \in SUBSET Asked(k)
    BY DEF NoMemo
  <2> QED
    BY <2>1 DEF Memos
<1>2. 0 \in 0..MaxVersion
  BY BoundsAssumption
<1>3. NoBuild \in BuildTypes(k)
  BY <1>1, <1>2 DEF NoBuild, BuildTypes, NotFound
<1> QED
  BY <1>3 DEF GoodBuild, Remembers, NoBuild, Importing, Fetching

\* What the program imports next.
LEMMA GoodContinue ==
    ASSUME NEW k \in Konfigs, NEW b \in BuildTypes(k), Remembers(b), b.body = NotFound
    PROVE  GoodBuild(k, Continue(k, b))
<1>1. CASE b.left = <<>>
  <2> DEFINE none == <<>>
             new == [b EXCEPT !.pc = "render", !.cand = none]
  <2>2. Continue(k, b) = new
    BY <1>1 DEF Continue
  <2>3. none \in Seq(Asked(k)) /\ none = <<>>
    OBVIOUS
  <2> HIDE DEF none
  <2>1. /\ new \in BuildTypes(k) /\ new.pc = "render" /\ new.cand = none
        /\ new.body = b.body /\ new.memo = b.memo /\ new.got = b.got
    BY <2>3 DEF BuildTypes
  <2> HIDE DEF new
  <2> QED
    BY <2>1, <2>2, <2>3 DEF GoodBuild, Remembers, Importing, Fetching
<1>2. CASE b.left # <<>>
  <2> DEFINE c == Candidates(k, Head(b.left))
             new == [b EXCEPT !.pc = "lookup", !.cand = c]
  <2>1. c \in Seq(Asked(k)) /\ c # <<>>
    <3>1. Head(b.left) \in Items(k)
      BY <1>2 DEF BuildTypes
    <3> QED
      BY <3>1, CandidatesAsked
  <2>2. Continue(k, b) = new
    BY <1>2 DEF Continue
  <2> HIDE DEF c
  <2>3. /\ new \in BuildTypes(k) /\ new.pc = "lookup" /\ new.cand = c
        /\ new.body = b.body /\ new.memo = b.memo /\ new.got = b.got /\ new.left = b.left
    BY <2>1 DEF BuildTypes, Importing
  <2> HIDE DEF new
  <2> QED
    BY <1>2, <2>1, <2>2, <2>3 DEF GoodBuild, Remembers, Importing, Fetching
<1> QED
  BY <1>1, <1>2

LEMMA WantedAsked ==
    ASSUME NEW k \in Konfigs, GoodBuild(k, build[k]), build[k].pc \in Importing
    PROVE  Wanted(k) \in Asked(k)
<1>1. build[k].cand \in Seq(Asked(k)) /\ build[k].cand # <<>>
  BY DEF GoodBuild, BuildTypes
<1> QED
  BY <1>1 DEF Wanted

\* A step of the build of k that leaves it good.
LEMMA StepOf ==
    ASSUME ImportsInv, NEW k \in Konfigs, NEW b, GoodBuild(k, b),
           build' = [build EXCEPT ![k] = b], SiteTypes'
    PROVE  ImportsInv'
BY DEF ImportsInv

\* A content is found: one the importer remembers of the url, if it remembers any.
LEMMA FoundStep ==
    ASSUME ImportsInv, NEW k \in Konfigs, build[k].pc \in Importing,
           NEW content \in Blocks, Found(k, content),
           Wanted(k) \in DOMAIN build[k].memo => build[k].memo[Wanted(k)] = content,
           SiteTypes'
    PROVE  ImportsInv'
<1> DEFINE b == build[k]
           w == Wanted(k)
           m == [u \in DOMAIN b.memo \union {w} |-> IF u = w THEN content ELSE b.memo[u]]
           e == [url |-> w, content |-> content]
           g == Append(b.got, e)
           t == Tail(b.left)
           new == [b EXCEPT !.body = NotFound, !.left = t, !.got = g, !.memo = m]
<1>1. /\ GoodBuild(k, b) /\ b \in BuildTypes(k) /\ b.left # <<>> /\ Remembers(b)
      /\ w \in Asked(k)
  BY WantedAsked DEF ImportsInv, GoodBuild
<1>2. build' = [build EXCEPT ![k] = Continue(k, new)]
  BY DEF Found
<1> HIDE DEF w, b
<1>3. m \in Memos(k)
  <2>1. PICK urls \in SUBSET Asked(k) : b.memo \in [urls -> Blocks]
    BY <1>1 DEF BuildTypes, Memos
  <2>2. /\ urls \union {w} \in SUBSET Asked(k)
        /\ m \in [urls \union {w} -> Blocks]
    BY <1>1, <2>1
  <2> QED
    BY <2>2 DEF Memos
<1>4. t \in Seq(Items(k))
  BY <1>1 DEF BuildTypes
<1>5. e \in Gots(k) /\ e.url = w /\ e.content = content
  BY <1>1 DEF Gots
<1> HIDE DEF e
<1>6. /\ g \in Seq(Gots(k)) /\ DOMAIN b.got = 1..Len(b.got) /\ Len(b.got) \in Nat
      /\ DOMAIN g = 1..(Len(b.got) + 1)
      /\ g[Len(b.got) + 1] = e /\ \A i \in 1..Len(b.got) : g[i] = b.got[i]
  <2>1. b.got \in Seq(Gots(k))
    BY <1>1 DEF BuildTypes
  <2> QED
    BY <1>5, <2>1
<1>7. \A i \in DOMAIN g : g[i].url \in DOMAIN m /\ m[g[i].url] = g[i].content
  <2>1. m[w] = content /\ w \in DOMAIN m
    OBVIOUS
  <2>2. ASSUME NEW i \in 1..Len(b.got)
        PROVE  b.got[i].url \in DOMAIN m /\ m[b.got[i].url] = b.got[i].content
    BY <1>1, <1>6 DEF Remembers, w, b
  <2>3. \A i \in 1..(Len(b.got) + 1) : i \in 1..Len(b.got) \/ i = Len(b.got) + 1
    BY <1>6
  <2> QED
    BY <1>5, <1>6, <2>1, <2>2, <2>3
<1> HIDE DEF m, g, t
<1>8. 0 \in 0..MaxVersion
  BY BoundsAssumption
<1>9. /\ new \in BuildTypes(k) /\ new.body = NotFound /\ new.memo = m /\ new.got = g
  BY <1>1, <1>3, <1>4, <1>6, <1>8 DEF BuildTypes, NotFound
<1> HIDE DEF new
<1>10. Remembers(new)
  BY <1>7, <1>9 DEF Remembers
<1>11. GoodBuild(k, Continue(k, new))
  BY <1>9, <1>10, GoodContinue
<1> QED
  BY <1>2, <1>11, StepOf

LEMMA Ending ==
    ASSUME ImportsInv, NEW k \in Konfigs, build' = [build EXCEPT ![k] = NoBuild], SiteTypes'
    PROVE  ImportsInv'
BY NotBuilding, StepOf

\* The result of a build, and what is neither of the site nor of a build.
LEMMA ResultTyped ==
    ASSUME SiteTypes, NEW k \in Konfigs, NEW r \in {"failed", "refused", "done"},
           \/ result' = [result EXCEPT ![k] = r]
           \/ result' = result,
           UNCHANGED <<remote, newest, files, faults>>
    PROVE  SiteTypes'
BY DEF SiteTypes

LEMMA NextCandidate ==
    ASSUME ImportsInv, NEW k \in Konfigs, build[k].pc \in {"lookup", "get"}, TryNext(k),
           UNCHANGED <<remote, newest, files, faults>>
    PROVE  ImportsInv'
<1>1. CASE FailBuild(k)
  BY <1>1, Ending, ResultTyped DEF FailBuild, ImportsInv
<1>2. CASE Len(build[k].cand) # 1 /\ ~FailBuild(k)
  <2> DEFINE b == build[k]
             c == Tail(b.cand)
             new == [b EXCEPT !.pc = "lookup", !.cand = c]
  <2>1. /\ b \in BuildTypes(k) /\ b.cand # <<>> /\ b.left # <<>> /\ b.body = NotFound
        /\ Remembers(b)
    BY DEF ImportsInv, GoodBuild, Importing
  <2>2. c \in Seq(Asked(k)) /\ c # <<>>
    <3> DEFINE s == b.cand
    <3>1. s \in Seq(Asked(k)) /\ s # <<>> /\ Len(s) # 1
      BY <1>2, <2>1 DEF BuildTypes
    <3> HIDE DEF s
    <3>2. Tail(s) \in Seq(Asked(k)) /\ Len(Tail(s)) = Len(s) - 1 /\ Len(s) \in Nat
      BY <3>1, HeadTailProperties
    <3>3. ASSUME NEW t \in Seq(Asked(k)), Len(t) = Len(s) - 1
          PROVE  t # <<>>
      BY <3>1, <3>2, <3>3, EmptySeq
    <3> QED
      BY <3>2, <3>3, Zenon DEF s
  <2>0. build' = [build EXCEPT ![k] = new] /\ UNCHANGED result
    <3>1. /\ build' = [build EXCEPT ![k].pc = "lookup", ![k].cand = Tail(@)]
          /\ UNCHANGED result
      BY <1>2, Zenon DEF TryNext
    <3> HIDE DEF c
    <3>2. Tail(build[k].cand) = c
      BY DEF c
    <3>3. build' = [build EXCEPT ![k].pc = "lookup", ![k].cand = c]
      BY <3>1, <3>2, Zenon
    <3>4. DOMAIN build = Konfigs
      BY DEF ImportsInv
    <3> QED
      BY <3>1, <3>3, <3>4, <2>1 DEF BuildTypes
  <2> HIDE DEF b, c
  <2>3. /\ new \in BuildTypes(k) /\ new.pc = "lookup" /\ new.cand = c
        /\ new.left = b.left /\ new.body = b.body /\ new.memo = b.memo /\ new.got = b.got
    BY <2>1, <2>2 DEF BuildTypes, Importing
  <2> HIDE DEF new
  <2>4. GoodBuild(k, new)
    BY <2>1, <2>2, <2>3 DEF GoodBuild, Remembers, Importing, Fetching
  <2>5. SiteTypes'
    BY <2>0 DEF ImportsInv, SiteTypes
  <2> QED
    BY <2>0, <2>4, <2>5, StepOf
<1> QED
  BY <1>1, <1>2 DEF TryNext

\* A build that goes on to another step of the same candidate.
LEMMA SameCandidate ==
    ASSUME ImportsInv, NEW k \in Konfigs, NEW pc \in Fetching, NEW body \in 0..MaxVersion,
           build[k].pc \in Importing,
           IsHTTP(Wanted(k)), Wanted(k) \notin DOMAIN build[k].memo,
           pc \in {"open", "write"} <=> body # NotFound,
           build' = [build EXCEPT ![k] = [@ EXCEPT !.pc = pc, !.body = body]], SiteTypes'
    PROVE  ImportsInv'
<1> DEFINE b == build[k]
           new == [b EXCEPT !.pc = pc, !.body = body]
<1>1. b \in BuildTypes(k) /\ GoodBuild(k, b) /\ build' = [build EXCEPT ![k] = new]
  BY DEF ImportsInv, GoodBuild
<1> HIDE DEF b
<1>2. /\ new \in BuildTypes(k) /\ new.pc = pc /\ new.body = body /\ new.cand = b.cand
      /\ new.left = b.left /\ new.memo = b.memo /\ new.got = b.got
  BY <1>1 DEF BuildTypes, Importing, Fetching
<1> HIDE DEF new
<1>3. GoodBuild(k, new)
  BY <1>1, <1>2 DEF GoodBuild, Remembers, Wanted, b, Importing, Fetching
<1> QED
  BY <1>1, <1>3, StepOf

\* Files that are written over.
LEMMA Written ==
    ASSUME NEW file \in {Missing} \union Seq(1..MaxVersion), NEW v \in 1..MaxVersion,
           NEW n \in 0..Size[v]
    PROVE  Overwrite(file, SubSeq(Whole[v], 1, n)) \in {Missing} \union Seq(1..MaxVersion)
<1> DEFINE whole == Whole[v]
           blocks == SubSeq(whole, 1, n)
<1>1. whole \in Seq(1..MaxVersion) /\ Len(whole) = Size[v] /\ Size[v] \in Nat
  BY SizeAssumption, BoundsAssumption DEF Whole
<1> HIDE DEF whole
<1>2. blocks \in [1..n -> 1..MaxVersion] /\ n \in Nat
  <2>1. n \in Nat /\ 1..n \subseteq 1..Len(whole)
    BY <1>1
  <2>2. \A i \in 1..n : whole[i] \in 1..MaxVersion
    BY <1>1, <2>1, ElementOfSeq
  <2>3. /\ SubSeq(whole, 1, n) \in Seq(1..MaxVersion)
        /\ Len(SubSeq(whole, 1, n)) = IF 1 <= n THEN n - 1 + 1 ELSE 0
    BY <2>1, <2>2, SubSeqProperties
  <2> HIDE DEF blocks
  <2>4. blocks \in Seq(1..MaxVersion) /\ Len(blocks) = n
    BY <2>1, <2>3 DEF blocks
  <2>5. \A i \in 1..n : blocks[i] \in 1..MaxVersion
    BY <2>4, ElementOfSeq
  <2>6. blocks = [i \in 1..n |-> blocks[i]]
    BY <2>4
  <2> QED
    BY <2>1, <2>5, <2>6
<1> HIDE DEF blocks
<1>3. DOMAIN blocks = 1..n /\ \A i \in 1..n : blocks[i] \in 1..MaxVersion
  BY <1>2
<1>4. CASE file = Missing
  <2>1. DOMAIN file = 1..1 /\ file[1] = 0
    BY <1>4 DEF Missing
  <2>2. CASE n = 0
    <3>1. Overwrite(file, blocks) = [i \in 1..1 |-> file[i]]
      BY <1>3, <2>1, <2>2 DEF Overwrite
    <3>2. Missing = [i \in 1..1 |-> file[i]]
      BY <1>4, <2>1 DEF Missing
    <3> QED
      BY <3>1, <3>2 DEF blocks, whole
  <2>3. CASE n # 0
    <3>1. DOMAIN file \union DOMAIN blocks = 1..n
      BY <1>2, <1>3, <2>1, <2>3
    <3>2. Overwrite(file, blocks) = [i \in 1..n |-> blocks[i]]
      BY <1>3, <3>1 DEF Overwrite
    <3>3. [i \in 1..n |-> blocks[i]] \in Seq(1..MaxVersion)
      BY <1>2, <1>3
    <3> QED
      BY <3>2, <3>3 DEF blocks, whole
  <2> QED
    BY <2>2, <2>3
<1>5. CASE file \in Seq(1..MaxVersion)
  <2>1. DOMAIN file = 1..Len(file) /\ Len(file) \in Nat
    BY <1>5
  <2> DEFINE m == IF n > Len(file) THEN n ELSE Len(file)
  <2>2. m \in Nat /\ DOMAIN file \union DOMAIN blocks = 1..m
    BY <1>2, <1>3, <2>1
  <2>3. \A i \in 1..m : i \in 1..n \/ i \in 1..Len(file)
    BY <1>2, <2>1
  <2>4. Overwrite(file, blocks) = [i \in 1..m |-> IF i \in 1..n THEN blocks[i] ELSE file[i]]
    BY <1>3, <2>2 DEF Overwrite
  <2> HIDE DEF m
  <2>5. \A i \in 1..Len(file) : file[i] \in 1..MaxVersion
    BY <1>5, <2>1, ElementOfSeq
  <2>6. [i \in 1..m |-> IF i \in 1..n THEN blocks[i] ELSE file[i]] \in Seq(1..MaxVersion)
    <3>1. \A i \in 1..m : (IF i \in 1..n THEN blocks[i] ELSE file[i]) \in 1..MaxVersion
      BY <1>3, <2>3, <2>5
    <3> QED
      BY <2>2, <3>1
  <2> QED
    BY <2>4, <2>6 DEF blocks, whole
<1> QED
  BY <1>4, <1>5

\* The contents an import may get.
LEMMA ContentTypes ==
    /\ Fixed \in Blocks
    /\ \A v \in 1..MaxVersion : Whole[v] \in Blocks
    /\ {Missing} \union Seq(1..MaxVersion) \subseteq Blocks
<1>1. ASSUME NEW v \in 1..MaxVersion PROVE Whole[v] \in Blocks
  BY SizeAssumption, BoundsAssumption DEF Whole, Blocks
<1>2. 1 \in 1..MaxVersion
  BY BoundsAssumption
<1>3. Missing \in Blocks
  BY BoundsAssumption DEF Missing, Blocks
<1>4. Seq(1..MaxVersion) \subseteq Blocks
  <2>1. ASSUME NEW s \in Seq(1..MaxVersion) PROVE s \in Seq(0..MaxVersion)
    BY BoundsAssumption
  <2> QED
    BY <2>1 DEF Blocks
<1> QED
  BY <1>1, <1>2, <1>3, <1>4 DEF Fixed

-------------------------------------------------------------------------------
(* The steps *)

LEMMA LookupStep ==
    ASSUME ImportsInv, NEW k \in Konfigs, Lookup(k)
    PROVE  ImportsInv'
<1> DEFINE u == Wanted(k)
<1>1. /\ build[k].pc = "lookup" /\ build[k].pc \in Importing
      /\ UNCHANGED <<remote, newest, files, faults>>
  BY DEF Lookup, World, Importing
<1>2. /\ GoodBuild(k, build[k]) /\ build[k].cand # <<>> /\ u \in Asked(k)
      /\ build[k].body = NotFound
  BY <1>1, WantedAsked DEF ImportsInv, GoodBuild, Importing
<1>3. UNCHANGED result => SiteTypes'
  BY <1>1 DEF ImportsInv, SiteTypes
<1>4. CASE Remembered(k, u) /\ Found(k, build[k].memo[u]) /\ UNCHANGED result
  <2>1. build[k].memo[u] \in Blocks
    <3>1. PICK urls \in SUBSET Asked(k) : build[k].memo \in [urls -> Blocks]
      BY <1>2 DEF GoodBuild, BuildTypes, Memos
    <3> QED
      BY <1>4, <3>1 DEF Remembered
  <2> QED
    BY <1>1, <1>3, <1>4, <2>1, FoundStep
<1>5. CASE /\ ~Remembered(k, u) /\ IsHTTP(u)
           /\ Found(k, files[LocalPath(u)])
           /\ UNCHANGED result
  <2>1. files[LocalPath(u)] \in Blocks
    BY <1>2, <1>5, RemoteFilesAssumption, ContentTypes DEF ImportsInv, SiteTypes
  <2> QED
    BY <1>1, <1>3, <1>5, <2>1, FoundStep DEF Remembered
<1>6. CASE /\ ~Remembered(k, u) /\ IsHTTP(u)
           /\ build' = [build EXCEPT ![k].pc = "get"]
           /\ UNCHANGED result
  <2>1. build' = [build EXCEPT ![k] = [@ EXCEPT !.pc = "get", !.body = NotFound]]
    <3> DEFINE b == build[k]
    <3>1. b \in BuildTypes(k) /\ b.body = NotFound
      BY <1>2 DEF GoodBuild
    <3>2. [b EXCEPT !.pc = "get"] = [b EXCEPT !.pc = "get", !.body = NotFound]
      BY <3>1 DEF BuildTypes
    <3>3. build' = [build EXCEPT ![k] = [b EXCEPT !.pc = "get"]]
      BY <1>6
    <3> QED
      BY <3>2, <3>3
  <2>2. NotFound \in 0..MaxVersion /\ "get" \in Fetching
    BY BoundsAssumption DEF NotFound, Fetching
  <2>3. Wanted(k) \notin DOMAIN build[k].memo
    BY <1>6 DEF Remembered
  <2> QED
    BY <1>1, <1>3, <1>6, <2>1, <2>2, <2>3, SameCandidate
<1>7. CASE /\ ~Remembered(k, u)
           /\ IF IsThere(u) THEN Found(k, Fixed) /\ UNCHANGED result ELSE TryNext(k)
  <2>1. CASE Found(k, Fixed) /\ UNCHANGED result
    BY <1>1, <1>3, <1>7, <2>1, FoundStep, ContentTypes DEF Remembered
  <2>2. CASE TryNext(k)
    BY <1>1, <2>2, NextCandidate
  <2> QED
    BY <1>7, <2>1, <2>2
<1> QED
  BY <1>4, <1>5, <1>6, <1>7 DEF Lookup

LEMMA GetStep ==
    ASSUME ImportsInv, NEW k \in Konfigs, Get(k)
    PROVE  ImportsInv'
<1> DEFINE answer == remote[LocalPath(Wanted(k))]
<1>1. /\ build[k].pc = "get" /\ build[k].pc \in Importing /\ build[k].pc \in Fetching
      /\ UNCHANGED <<remote, newest, files, faults>>
  BY DEF Get, World, Importing, Fetching
<1>2. /\ GoodBuild(k, build[k]) /\ Wanted(k) \in Asked(k)
      /\ IsHTTP(Wanted(k)) /\ Wanted(k) \notin DOMAIN build[k].memo
  BY <1>1, WantedAsked DEF ImportsInv, GoodBuild, Wanted
<1>3. CASE TryNext(k)
  BY <1>1, <1>3, NextCandidate
<1>4. CASE FailBuild(k)
  BY <1>1, <1>4, Ending, ResultTyped DEF FailBuild, ImportsInv
<1>5. CASE /\ answer \notin {NotFound, Broken}
           /\ build' = [build EXCEPT ![k] = [@ EXCEPT !.pc = "open", !.body = answer]]
           /\ UNCHANGED result
  <2>1. answer \in Broken..MaxVersion
    BY <1>2, RemoteFilesAssumption DEF ImportsInv, SiteTypes
  <2>2. answer \in 0..MaxVersion /\ answer # NotFound
    BY <1>5, <2>1, BoundsAssumption DEF NotFound, Broken
  <2>3. SiteTypes'
    BY <1>1, <1>5 DEF ImportsInv, SiteTypes
  <2> HIDE DEF answer
  <2>4. "open" \in Fetching
    BY DEF Fetching
  <2> QED
    BY <1>1, <1>2, <1>5, <2>2, <2>3, <2>4, SameCandidate
<1> QED
  BY <1>3, <1>4, <1>5 DEF Get

\* The body in hand of a build that writes.
LEMMA BodyTyped ==
    ASSUME ImportsInv, NEW k \in Konfigs, build[k].pc \in {"open", "write"}
    PROVE  /\ build[k].pc \in Importing
           /\ build[k].body \in 1..MaxVersion
           /\ Whole[build[k].body] \in Blocks
           /\ LocalPath(Wanted(k)) \in RemoteFiles
           /\ IsHTTP(Wanted(k)) /\ Wanted(k) \notin DOMAIN build[k].memo
<1>1. /\ GoodBuild(k, build[k]) /\ build[k].pc \in Importing /\ build[k].pc \in Fetching
  BY DEF ImportsInv, Importing, Fetching
<1>2. build[k].body \in 0..MaxVersion /\ build[k].body # 0
  BY <1>1 DEF GoodBuild, BuildTypes, NotFound
<1>3. build[k].body \in 1..MaxVersion
  BY <1>2, BoundsAssumption
<1>4. IsHTTP(Wanted(k)) /\ Wanted(k) \notin DOMAIN build[k].memo
  BY <1>1 DEF GoodBuild, Wanted
<1>5. Wanted(k) \in Asked(k)
  BY <1>1, WantedAsked
<1> QED
  BY <1>1, <1>3, <1>4, <1>5, ContentTypes, RemoteFilesAssumption

LEMMA FaultTyped ==
    ASSUME faults \in 0..MaxFaults, Fault \/ UNCHANGED faults
    PROVE  faults' \in 0..MaxFaults
BY BoundsAssumption DEF Fault

LEMMA OpenFileStep ==
    ASSUME ImportsInv, NEW k \in Konfigs, OpenFile(k)
    PROVE  ImportsInv'
<1>1. /\ build[k].pc = "open" /\ build[k].pc \in {"open", "write"}
      /\ UNCHANGED <<remote, newest, result>>
  BY DEF OpenFile, World
<1>2. faults' \in 0..MaxFaults
  BY FaultTyped DEF OpenFile, ImportsInv, SiteTypes
<1>3. CASE Found(k, Whole[build[k].body]) /\ UNCHANGED files
  <2>1. SiteTypes'
    BY <1>1, <1>2, <1>3 DEF ImportsInv, SiteTypes
  <2> QED
    BY <1>1, <1>3, <2>1, BodyTyped, FoundStep
<1>4. CASE /\ files' = [files EXCEPT ![LocalPath(Wanted(k))] = <<>>]
           /\ build' = [build EXCEPT ![k].pc = "write"]
  <2>1. SiteTypes'
    <3> DEFINE none == <<>>
    <3>1. none \in Seq(1..MaxVersion)
      OBVIOUS
    <3> HIDE DEF none
    <3>2. files' = [files EXCEPT ![LocalPath(Wanted(k))] = none]
      BY <1>4 DEF none
    <3>3. files' \in [RemoteFiles -> {Missing} \union Seq(1..MaxVersion)]
      BY <3>1, <3>2 DEF ImportsInv, SiteTypes
    <3> QED
      BY <1>1, <1>2, <3>3 DEF ImportsInv, SiteTypes
  <2>2. build' = [build EXCEPT ![k] = [@ EXCEPT !.pc = "write", !.body = build[k].body]]
    <3> DEFINE b == build[k]
    <3>1. b \in BuildTypes(k)
      BY DEF ImportsInv, GoodBuild
    <3>2. [b EXCEPT !.pc = "write"] = [b EXCEPT !.pc = "write", !.body = b.body]
      BY <3>1 DEF BuildTypes
    <3>3. build' = [build EXCEPT ![k] = [b EXCEPT !.pc = "write"]]
      BY <1>4
    <3> QED
      BY <3>2, <3>3
  <2>3. "write" \in Fetching /\ build[k].body \in 0..MaxVersion /\ build[k].body # NotFound
    BY <1>1, BodyTyped, BoundsAssumption DEF Fetching, NotFound
  <2> QED
    BY <1>1, <2>1, <2>2, <2>3, BodyTyped, SameCandidate
<1> QED
  BY <1>3, <1>4 DEF OpenFile

LEMMA WriteFileStep ==
    ASSUME ImportsInv, NEW k \in Konfigs, WriteFile(k)
    PROVE  ImportsInv'
<1>1. /\ build[k].pc = "write" /\ build[k].pc \in {"open", "write"}
      /\ UNCHANGED <<remote, newest, result>>
      /\ Found(k, Whole[build[k].body])
  BY DEF WriteFile, World
<1>2. PICK n \in 0..Size[build[k].body] :
        /\ UNCHANGED faults \/ Fault
        /\ files' = [files EXCEPT ![LocalPath(Wanted(k))] =
                        Overwrite(@, SubSeq(Whole[build[k].body], 1, n))]
  BY DEF WriteFile
<1> DEFINE f == LocalPath(Wanted(k))
           new == Overwrite(files[f], SubSeq(Whole[build[k].body], 1, n))
<1>3. f \in RemoteFiles /\ build[k].body \in 1..MaxVersion
  BY <1>1, BodyTyped
<1>4. files[f] \in {Missing} \union Seq(1..MaxVersion)
  BY <1>3 DEF ImportsInv, SiteTypes
<1>5. new \in {Missing} \union Seq(1..MaxVersion)
  BY <1>3, <1>4, Written
<1>6. files' = [files EXCEPT ![f] = new]
  BY <1>2
<1>7. faults' \in 0..MaxFaults
  BY <1>2, FaultTyped DEF ImportsInv, SiteTypes
<1> HIDE DEF new, f
<1>8. files' \in [RemoteFiles -> {Missing} \union Seq(1..MaxVersion)]
  BY <1>5, <1>6 DEF ImportsInv, SiteTypes
<1>9. SiteTypes'
  BY <1>1, <1>7, <1>8 DEF ImportsInv, SiteTypes
<1> QED
  BY <1>1, <1>9, BodyTyped, FoundStep

\* The builds start and end, the site changes, the controller restarts.
LEMMA StartStep ==
    ASSUME ImportsInv, NEW k \in Konfigs, StartBuild(k)
    PROVE  ImportsInv'
<1> DEFINE new == [NoBuild EXCEPT !.left = ImportsOf[k]]
<1>1. /\ NoBuild \in BuildTypes(k) /\ NoBuild.body = NotFound /\ NoBuild.got = <<>>
      /\ ImportsOf[k] \in Seq(Items(k))
  BY NotBuilding, SequencesAssumption DEF GoodBuild, NoBuild
<1>2. build' = [build EXCEPT ![k] = Continue(k, new)]
  BY DEF StartBuild
<1>3. new \in BuildTypes(k) /\ new.body = NotFound /\ new.got = <<>>
  BY <1>1 DEF BuildTypes
<1> HIDE DEF new
<1>4. GoodBuild(k, Continue(k, new))
  BY <1>3, GoodContinue DEF Remembers
<1>5. SiteTypes'
  BY DEF StartBuild, World, ImportsInv, SiteTypes
<1> QED
  BY <1>2, <1>4, <1>5, StepOf

LEMMA AroundStep ==
    ASSUME ImportsInv, Site \/ Crash \/ UNCHANGED importVars
    PROVE  ImportsInv'
<1>1. CASE Site
  <2>1. PICK f \in RemoteFiles : Publish(f) \/ Outage(f) \/ Restore(f)
    BY <1>1 DEF Site
  <2>2. remote[f] \in Broken..MaxVersion /\ newest[f] \in 0..MaxVersion
    BY DEF ImportsInv, SiteTypes
  <2>3. /\ remote' \in [RemoteFiles -> Broken..MaxVersion]
        /\ newest' \in [RemoteFiles -> 0..MaxVersion]
    <3>1. /\ newest[f] \in Broken..MaxVersion /\ Broken \in Broken..MaxVersion
          /\ newest[f] < MaxVersion => /\ newest[f] + 1 \in Broken..MaxVersion
                                       /\ newest[f] + 1 \in 0..MaxVersion
      BY <2>2, BoundsAssumption DEF Broken
    <3>2. CASE Publish(f)
      BY <3>1, <3>2 DEF Publish, ImportsInv, SiteTypes
    <3>3. CASE Outage(f) \/ Restore(f)
      BY <3>1, <3>3 DEF Outage, Restore, ImportsInv, SiteTypes
    <3> QED
      BY <2>1, <3>2, <3>3
  <2>4. faults' \in 0..MaxFaults
    BY <2>1, FaultTyped DEF Publish, Outage, Restore, ImportsInv, SiteTypes
  <2>5. UNCHANGED <<files, build, result>>
    BY <2>1 DEF Publish, Outage, Restore
  <2> QED
    BY <2>3, <2>4, <2>5 DEF ImportsInv, SiteTypes
<1>2. CASE Crash
  <2>1. build' = [k \in Konfigs |-> NoBuild] /\ UNCHANGED <<remote, newest, files, result>>
    BY <1>2 DEF Crash
  <2>2. faults' \in 0..MaxFaults
    BY <1>2, FaultTyped DEF Crash, ImportsInv, SiteTypes
  <2> QED
    BY <2>1, <2>2, NotBuilding DEF ImportsInv, SiteTypes
<1>3. CASE UNCHANGED importVars
  BY <1>3 DEF importVars, ImportsInv, SiteTypes
<1> QED
  BY <1>1, <1>2, <1>3

LEMMA InvInit == ImportsInit => ImportsInv
<1> SUFFICES ASSUME ImportsInit PROVE ImportsInv
  OBVIOUS
<1>1. SiteTypes
  BY BoundsAssumption DEF ImportsInit, SiteTypes, NotFound, Broken
<1> QED
  BY <1>1, NotBuilding DEF ImportsInit, ImportsInv

LEMMA InvNext == ImportsInv /\ [ImportsNext]_importVars => ImportsInv'
<1> SUFFICES ASSUME ImportsInv, [ImportsNext]_importVars PROVE ImportsInv'
  OBVIOUS
<1>1. ASSUME NEW k \in Konfigs, ImportStep(k) PROVE ImportsInv'
  BY <1>1, StartStep, LookupStep, GetStep, OpenFileStep, WriteFileStep DEF ImportStep
<1>2. ASSUME NEW k \in Konfigs, NEW r \in {"failed", "refused", "done"}, Ends(k, r)
      PROVE  ImportsInv'
  BY <1>2, Ending, ResultTyped DEF Ends, World, ImportsInv
<1> QED
  BY <1>1, <1>2, AroundStep DEF ImportsNext

-------------------------------------------------------------------------------
(* The answers *)

\* What is given for an import of k.
Given(k, import, given) ==
    /\ \E j \in DOMAIN Candidates(k, import) : given.url = Candidates(k, import)[j]
    /\ given.content \in AllContents

\* The imports that are given so far, and those that are left.
Progress(k, b) ==
    /\ \A u \in DOMAIN b.memo : b.memo[u] \in AllContents
    /\ Len(b.got) + Len(b.left) = Len(ImportsOf[k])
    /\ \A j \in 1..Len(b.left) : b.left[j] = ImportsOf[k][Len(b.got) + j]
    /\ \A i \in 1..Len(b.got) : Given(k, ImportsOf[k][i], b.got[i])

Tries(k, import, cand) ==
    \A i \in DOMAIN cand : \E j \in DOMAIN Candidates(k, import) : cand[i] = Candidates(k, import)[j]

Answers(k, b) == b.pc # "idle" => /\ Progress(k, b)
                                  /\ b.pc = "render" => b.left = <<>>
                                  /\ b.pc # "render" => Tries(k, Head(b.left), b.cand)

Cached == files \in [RemoteFiles -> {Missing} \union AllContents]

AnswersInv == /\ ImportsInv
              /\ Cached
              /\ \A k \in Konfigs : Answers(k, build[k])

LEMMA ContentsDef ==
    \A s : s \in AllContents <=> /\ s \in Seq(1..MaxVersion)
                                 /\ \E v \in 1..MaxVersion : Len(s) \in 0..Size[v]
<1> SUFFICES ASSUME NEW s
             PROVE  s \in AllContents <=> /\ s \in Seq(1..MaxVersion)
                                          /\ \E v \in 1..MaxVersion : Len(s) \in 0..Size[v]
  OBVIOUS
<1> DEFINE blocks == 1..MaxVersion
           lengths == UNION {0..Size[v] : v \in 1..MaxVersion}
           files1(n) == [1..n -> blocks]
<1>1. \A n : n \in lengths <=> \E v \in 1..MaxVersion : n \in 0..Size[v]
  OBVIOUS
<1>2. AllContents = UNION {files1(n) : n \in lengths}
  BY DEF AllContents
<1>3. lengths \subseteq Nat
  BY SizeAssumption
<1> HIDE DEF lengths
<1>4. s \in AllContents <=> \E n \in lengths : s \in files1(n)
  <2> HIDE DEF files1
  <2> QED
    BY <1>2
<1> HIDE DEF blocks
<1>5. ASSUME NEW n \in lengths, s \in files1(n) PROVE s \in Seq(blocks) /\ Len(s) = n
  <2>1. n \in Nat
    BY <1>3
  <2> QED
    BY <1>5, <2>1
<1>6. ASSUME s \in Seq(blocks) PROVE s \in files1(Len(s))
  BY <1>6
<1> HIDE DEF files1
<1> QED
  BY <1>1, <1>4, <1>5, <1>6 DEF blocks

LEMMA ContentsGiven ==
    /\ Fixed \in AllContents
    /\ \A v \in 1..MaxVersion : Whole[v] \in AllContents
    /\ <<>> \in AllContents
<1>1. ASSUME NEW v \in 1..MaxVersion PROVE Whole[v] \in AllContents
  <2> DEFINE w == Whole[v]
  <2>1. w \in Seq(1..MaxVersion) /\ Len(w) = Size[v] /\ Size[v] \in Nat
    BY SizeAssumption, BoundsAssumption DEF Whole
  <2> HIDE DEF w
  <2>2. Len(w) \in 0..Size[v]
    BY <2>1
  <2>3. w \in AllContents
    BY <2>1, <2>2, ContentsDef
  <2> QED
    BY <2>3 DEF w
<1>2. 1 \in 1..MaxVersion /\ 0 \in 0..Size[1]
  BY BoundsAssumption, SizeAssumption
<1>3. <<>> \in AllContents
  <2> DEFINE none == <<>>
  <2>1. none \in Seq(1..MaxVersion) /\ Len(none) = 0
    OBVIOUS
  <2> HIDE DEF none
  <2>2. none \in AllContents
    BY <1>2, <2>1, ContentsDef
  <2> QED
    BY <2>2 DEF none
<1> QED
  BY <1>1, <1>2, <1>3 DEF Fixed

\* Builds that write over each other's files leave none longer than a version.
LEMMA WrittenBounded ==
    ASSUME NEW file \in {Missing} \union AllContents, NEW v \in 1..MaxVersion,
           NEW n \in 0..Size[v]
    PROVE  Overwrite(file, SubSeq(Whole[v], 1, n)) \in {Missing} \union AllContents
<1> DEFINE blocks == SubSeq(Whole[v], 1, n)
           s == Overwrite(file, blocks)
<1>1. file = Missing \/ /\ file \in Seq(1..MaxVersion)
                        /\ \E u \in 1..MaxVersion : Len(file) \in 0..Size[u]
  BY ContentsDef
<1>2. s \in {Missing} \union Seq(1..MaxVersion)
  BY <1>1, Written
<1>3. DOMAIN blocks = 1..n /\ n \in Nat /\ Size[v] \in Nat \ {0} /\ n <= Size[v]
  <2>1. /\ Whole[v] \in Seq(1..MaxVersion) /\ Len(Whole[v]) = Size[v]
        /\ Size[v] \in Nat \ {0}
    BY SizeAssumption, BoundsAssumption DEF Whole
  <2>2. n \in Nat /\ n <= Size[v]
    BY <2>1
  <2> QED
    BY <2>1, <2>2
<1>4. DOMAIN s = DOMAIN file \union DOMAIN blocks
  BY DEF Overwrite
<1> HIDE DEF s, blocks
<1>5. ASSUME s \in Seq(1..MaxVersion) PROVE \E u \in 1..MaxVersion : Len(s) \in 0..Size[u]
  <2>1. DOMAIN s = 1..Len(s) /\ Len(s) \in Nat
    BY <1>5
  <2>2. CASE file = Missing
    <3>1. DOMAIN file = 1..1
      BY <2>2 DEF Missing
    <3>2. 1..Len(s) = (1..1) \union (1..n)
      BY <1>3, <1>4, <2>1, <3>1
    <3>3. Len(s) \in 0..Size[v]
      BY <1>3, <2>1, <3>2
    <3> QED
      BY <3>3
  <2>3. ASSUME file \in Seq(1..MaxVersion), NEW u \in 1..MaxVersion, Len(file) \in 0..Size[u]
        PROVE  Len(s) \in 0..Size[u] \/ Len(s) \in 0..Size[v]
    <3>1. DOMAIN file = 1..Len(file) /\ Len(file) \in Nat /\ Size[u] \in Nat
      BY <2>3, SizeAssumption
    <3>2. 1..Len(s) = (1..Len(file)) \union (1..n)
      BY <1>3, <1>4, <2>1, <3>1
    <3> QED
      BY <1>3, <2>1, <2>3, <3>1, <3>2
  <2> QED
    BY <1>1, <2>2, <2>3
<1>6. s \in {Missing} \union AllContents
  BY <1>2, <1>5, ContentsDef
<1> QED
  BY <1>6 DEF s, blocks

Fields == {"pc", "left", "cand", "body", "memo", "got"}

LEMMA AnswersContinue ==
    ASSUME NEW k \in Konfigs, NEW b, DOMAIN b = Fields, Progress(k, b)
    PROVE  Answers(k, Continue(k, b))
<1>1. CASE b.left = <<>>
  <2> DEFINE none == <<>>
             new == [b EXCEPT !.pc = "render", !.cand = none]
  <2>1. Continue(k, b) = new
    BY <1>1 DEF Continue
  <2> HIDE DEF none
  <2>2. /\ new.pc = "render" /\ new.left = b.left /\ new.memo = b.memo /\ new.got = b.got
    BY DEF Fields
  <2> HIDE DEF new
  <2> QED
    BY <1>1, <2>1, <2>2 DEF Answers, Progress
<1>2. CASE b.left # <<>>
  <2> DEFINE c == Candidates(k, Head(b.left))
             new == [b EXCEPT !.pc = "lookup", !.cand = c]
  <2>1. Continue(k, b) = new
    BY <1>2 DEF Continue
  <2> HIDE DEF c
  <2>2. /\ new.pc = "lookup" /\ new.cand = c
        /\ new.left = b.left /\ new.memo = b.memo /\ new.got = b.got
    BY DEF Fields
  <2> HIDE DEF new
  <2>3. Tries(k, Head(b.left), c)
    BY DEF Tries, c
  <2> QED
    BY <2>1, <2>2, <2>3 DEF Answers, Progress
<1> QED
  BY <1>1, <1>2

LEMMA AnswersFound ==
    ASSUME AnswersInv, NEW k \in Konfigs, build[k].pc \in Importing,
           NEW content \in AllContents, Found(k, content)
    PROVE  \A j \in Konfigs : Answers(j, build'[j])
<1> DEFINE b == build[k]
           w == Wanted(k)
           m == [u \in DOMAIN b.memo \union {w} |-> IF u = w THEN content ELSE b.memo[u]]
           e == [url |-> w, content |-> content]
           g == Append(b.got, e)
           t == Tail(b.left)
           new == [b EXCEPT !.body = NotFound, !.left = t, !.got = g, !.memo = m]
<1>1. /\ b \in BuildTypes(k) /\ b.left # <<>> /\ b.cand # <<>> /\ w = Head(b.cand)
      /\ b.cand \in Seq(Asked(k)) /\ b.left \in Seq(Items(k)) /\ b.got \in Seq(Gots(k))
      /\ w \in Asked(k)
  BY WantedAsked DEF AnswersInv, ImportsInv, GoodBuild, Wanted, BuildTypes
<1>2. /\ Progress(k, b)
      /\ Tries(k, Head(b.left), b.cand)
  BY DEF AnswersInv, Answers, Importing
<1>3. build' = [build EXCEPT ![k] = Continue(k, new)] /\ DOMAIN build = Konfigs
  BY DEF Found, AnswersInv, ImportsInv
<1> HIDE DEF w, b
<1>4. /\ Len(b.left) \in Nat /\ Len(b.got) \in Nat /\ Len(b.left) >= 1
      /\ Head(b.left) = b.left[1]
  BY <1>1
<1>5. /\ t \in Seq(Items(k)) /\ Len(t) = Len(b.left) - 1
      /\ \A j \in 1..Len(t) : t[j] = b.left[j + 1]
  BY <1>1, <1>4
<1>6. Given(k, Head(b.left), e)
  <2>1. Head(b.cand) = b.cand[1] /\ 1 \in DOMAIN b.cand
    BY <1>1
  <2>2. e.url = b.cand[1] /\ e.content = content
    BY <1>1, <2>1
  <2> HIDE DEF e
  <2> QED
    BY <1>2, <2>1, <2>2 DEF Tries, Given
<1>7. e \in [url : Asked(k), content : AllContents]
  BY <1>1
<1> DEFINE n == Len(b.got)
<1>8. /\ Len(g) = n + 1 /\ g[n + 1] = e /\ \A i \in 1..n : g[i] = b.got[i]
  <2> HIDE DEF e
  <2> QED
    BY <1>1
<1>9. \A u \in DOMAIN m : m[u] \in AllContents
  BY <1>2 DEF Progress
<1> HIDE DEF m, g, t, e
<1>10. /\ new.left = t /\ new.got = g /\ new.memo = m /\ DOMAIN new = Fields
  <2>1. DOMAIN b = Fields
    BY <1>1 DEF BuildTypes, Fields
  <2> QED
    BY <2>1 DEF Fields
<1>11. Progress(k, new)
  <2> HIDE DEF new
  <2>1. Len(g) + Len(t) = Len(ImportsOf[k])
    <3> DEFINE l == Len(b.left)
    <3>1. n + l = Len(ImportsOf[k])
      BY <1>2 DEF Progress
    <3>2. n \in Nat /\ l \in Nat /\ Len(g) = n + 1 /\ Len(t) = l - 1
      BY <1>4, <1>5, <1>8
    <3> HIDE DEF n, l
    <3> QED
      BY <3>1, <3>2
  <2>2. ASSUME NEW j \in 1..Len(t) PROVE t[j] = ImportsOf[k][Len(g) + j]
    <3>1. j + 1 \in 1..Len(b.left) /\ n + (j + 1) = Len(g) + j
      <4> DEFINE l == Len(b.left)
      <4>1. n \in Nat /\ l \in Nat /\ Len(g) = n + 1 /\ Len(t) = l - 1
        BY <1>4, <1>5, <1>8
      <4> HIDE DEF n, l
      <4>2. j + 1 \in 1..l /\ n + (j + 1) = Len(g) + j
        BY <4>1
      <4> QED
        BY <4>2 DEF l
    <3>2. b.left[j + 1] = ImportsOf[k][n + (j + 1)]
      BY <1>2, <3>1 DEF Progress
    <3> QED
      BY <1>5, <3>1, <3>2
  <2>3. ASSUME NEW i \in 1..Len(g) PROVE Given(k, ImportsOf[k][i], g[i])
    <3>1. CASE i \in 1..n
      BY <1>2, <1>8, <3>1 DEF Progress
    <3>2. CASE i = n + 1
      <4>1. 1 \in 1..Len(b.left)
        BY <1>4
      <4>2. Head(b.left) = ImportsOf[k][n + 1]
        BY <1>2, <1>4, <4>1 DEF Progress
      <4> QED
        BY <1>6, <1>8, <3>2, <4>2
    <3> QED
      BY <1>4, <1>8, <3>1, <3>2
  <2> QED
    BY <1>9, <1>10, <2>1, <2>2, <2>3 DEF Progress
<1>12. Answers(k, Continue(k, new))
  <2> HIDE DEF new
  <2> QED
    BY <1>10, <1>11, AnswersContinue
<1> QED
  BY <1>3, <1>12 DEF AnswersInv

\* A step of k's build that ends it, or goes on with the same imports.
LEMMA AnswersOf ==
    ASSUME AnswersInv, NEW k \in Konfigs, NEW b, Answers(k, b), build' = [build EXCEPT ![k] = b]
    PROVE  \A j \in Konfigs : Answers(j, build'[j])
BY DEF AnswersInv, ImportsInv

LEMMA AnswersEnding ==
    ASSUME AnswersInv, NEW k \in Konfigs, build' = [build EXCEPT ![k] = NoBuild]
    PROVE  \A j \in Konfigs : Answers(j, build'[j])
<1>1. Answers(k, NoBuild)
  BY DEF Answers, NoBuild
<1> QED
  BY <1>1, AnswersOf

LEMMA AnswersSame ==
    ASSUME AnswersInv, NEW k \in Konfigs, build[k].pc \in Importing,
           NEW pc \in Importing, NEW body,
           build' = [build EXCEPT ![k] = [@ EXCEPT !.pc = pc, !.body = body]]
    PROVE  \A j \in Konfigs : Answers(j, build'[j])
<1> DEFINE b == build[k]
           new == [b EXCEPT !.pc = pc, !.body = body]
<1>1. b \in BuildTypes(k) /\ Answers(k, b) /\ b.pc \in Importing /\ build' = [build EXCEPT ![k] = new]
  BY DEF AnswersInv, ImportsInv, GoodBuild
<1> HIDE DEF b
<1>2. /\ new.pc = pc /\ new.cand = b.cand /\ new.left = b.left
      /\ new.memo = b.memo /\ new.got = b.got
  BY <1>1 DEF BuildTypes
<1> HIDE DEF new
<1>3. Answers(k, new)
  BY <1>1, <1>2 DEF Answers, Progress, Importing
<1> QED
  BY <1>1, <1>3, AnswersOf

LEMMA AnswersNext ==
    ASSUME AnswersInv, NEW k \in Konfigs, build[k].pc \in Importing, TryNext(k)
    PROVE  \A j \in Konfigs : Answers(j, build'[j])
<1>1. CASE FailBuild(k)
  BY <1>1, AnswersEnding DEF FailBuild
<1>2. CASE build' = [build EXCEPT ![k].pc = "lookup", ![k].cand = Tail(@)]
  <2> DEFINE b == build[k]
             c == Tail(b.cand)
             new == [b EXCEPT !.pc = "lookup", !.cand = c]
  <2>1. /\ b \in BuildTypes(k) /\ Answers(k, b) /\ b.pc \in Importing /\ b.cand # <<>>
        /\ DOMAIN build = Konfigs
    BY DEF AnswersInv, ImportsInv, GoodBuild
  <2>2. build' = [build EXCEPT ![k] = new]
    <3> HIDE DEF c
    <3>1. Tail(build[k].cand) = c
      BY DEF c
    <3>2. build' = [build EXCEPT ![k].pc = "lookup", ![k].cand = c]
      BY <1>2, <3>1, Zenon
    <3> QED
      BY <2>1, <3>2 DEF BuildTypes
  <2> HIDE DEF b
  <2>3. \A i \in DOMAIN c : i + 1 \in DOMAIN b.cand /\ c[i] = b.cand[i + 1]
    <3> DEFINE s == b.cand
    <3>1. s \in Seq(Asked(k)) /\ s # <<>>
      BY <2>1 DEF BuildTypes
    <3> HIDE DEF s
    <3>2. \A i \in DOMAIN Tail(s) : i + 1 \in DOMAIN s /\ Tail(s)[i] = s[i + 1]
      BY <3>1
    <3> QED
      BY <3>2 DEF s
  <2> HIDE DEF c
  <2>4. /\ new.pc = "lookup" /\ new.cand = c /\ new.left = b.left
        /\ new.memo = b.memo /\ new.got = b.got
    BY <2>1 DEF BuildTypes
  <2> HIDE DEF new
  <2>5. Tries(k, Head(b.left), c)
    BY <2>1, <2>3 DEF Answers, Tries, Importing
  <2>6. Answers(k, new)
    BY <2>1, <2>4, <2>5 DEF Answers, Progress, Importing
  <2> QED
    BY <2>2, <2>6, AnswersOf
<1> QED
  BY <1>1, <1>2 DEF TryNext

LEMMA AnswersImport ==
    ASSUME AnswersInv, NEW k \in Konfigs, ImportStep(k)
    PROVE  Cached' /\ \A j \in Konfigs : Answers(j, build'[j])
<1>1. ASSUME StartBuild(k) PROVE Cached' /\ \A j \in Konfigs : Answers(j, build'[j])
  <2> DEFINE new == [NoBuild EXCEPT !.left = ImportsOf[k]]
  <2>1. /\ build' = [build EXCEPT ![k] = Continue(k, new)] /\ UNCHANGED files
    BY <1>1 DEF StartBuild
  <2>2. /\ new.memo = NoMemo /\ new.left = ImportsOf[k] /\ new.got = <<>> /\ DOMAIN new = Fields
    BY DEF NoBuild, Fields
  <2> HIDE DEF new
  <2>3. Progress(k, new)
    <3> DEFINE none == <<>>
    <3>1. Len(none) = 0 /\ new.got = none /\ Len(ImportsOf[k]) \in Nat
      BY <2>2, SequencesAssumption
    <3> HIDE DEF none
    <3>2. DOMAIN NoMemo = {}
      BY DEF NoMemo
    <3> QED
      BY <2>2, <3>1, <3>2 DEF Progress
  <2> QED
    BY <2>1, <2>2, <2>3, AnswersContinue, AnswersOf DEF AnswersInv, Cached
<1>2. ASSUME Lookup(k) PROVE Cached' /\ \A j \in Konfigs : Answers(j, build'[j])
  <2> DEFINE u == Wanted(k)
  <2>1. /\ build[k].pc = "lookup" /\ build[k].pc \in Importing /\ UNCHANGED files
        /\ GoodBuild(k, build[k]) /\ Progress(k, build[k])
    BY <1>2 DEF Lookup, Importing, AnswersInv, ImportsInv, Answers
  <2>2. u \in Asked(k)
    BY <2>1, WantedAsked
  <2>3. CASE Remembered(k, u) /\ Found(k, build[k].memo[u])
    <3>1. build[k].memo[u] \in AllContents
      BY <2>1, <2>3 DEF Remembered, Progress
    <3> QED
      BY <2>1, <2>3, <3>1, AnswersFound DEF AnswersInv, Cached
  <2>4. CASE IsHTTP(u) /\ files[LocalPath(u)] # Missing /\ Found(k, files[LocalPath(u)])
    <3>1. files[LocalPath(u)] \in AllContents
      BY <2>2, <2>4, RemoteFilesAssumption DEF AnswersInv, Cached
    <3> QED
      BY <2>1, <2>4, <3>1, AnswersFound DEF AnswersInv, Cached
  <2>5. CASE build' = [build EXCEPT ![k].pc = "get"]
    <3> DEFINE b == build[k]
    <3>1. [b EXCEPT !.pc = "get"] = [b EXCEPT !.pc = "get", !.body = b.body]
      BY <2>1 DEF GoodBuild, BuildTypes
    <3>2. build' = [build EXCEPT ![k] = [b EXCEPT !.pc = "get"]]
      BY <2>5
    <3>3. build' = [build EXCEPT ![k] = [@ EXCEPT !.pc = "get", !.body = build[k].body]]
      BY <3>1, <3>2
    <3>4. "get" \in Importing
      BY DEF Importing
    <3> QED
      BY <2>1, <3>3, <3>4, AnswersSame DEF AnswersInv, Cached
  <2>6. CASE Found(k, Fixed)
    BY <2>1, <2>6, ContentsGiven, AnswersFound DEF AnswersInv, Cached
  <2>7. CASE TryNext(k)
    BY <2>1, <2>7, AnswersNext DEF AnswersInv, Cached
  <2> QED
    BY <1>2, <2>3, <2>4, <2>5, <2>6, <2>7 DEF Lookup
<1>3. ASSUME Get(k) PROVE Cached' /\ \A j \in Konfigs : Answers(j, build'[j])
  <2> DEFINE answer == remote[LocalPath(Wanted(k))]
  <2>1. build[k].pc \in Importing /\ UNCHANGED files /\ "open" \in Importing
    BY <1>3 DEF Get, Importing
  <2>2. CASE TryNext(k)
    BY <2>1, <2>2, AnswersNext DEF AnswersInv, Cached
  <2>3. CASE FailBuild(k)
    BY <2>1, <2>3, AnswersEnding DEF AnswersInv, Cached, FailBuild
  <2>4. CASE build' = [build EXCEPT ![k] = [@ EXCEPT !.pc = "open", !.body = answer]]
    <3> HIDE DEF answer
    <3> QED
      BY <2>1, <2>4, AnswersSame DEF AnswersInv, Cached
  <2> QED
    BY <1>3, <2>2, <2>3, <2>4 DEF Get
<1>4. ASSUME OpenFile(k) PROVE Cached' /\ \A j \in Konfigs : Answers(j, build'[j])
  <2>1. /\ build[k].pc \in {"open", "write"} /\ build[k].pc \in Importing
        /\ "write" \in Importing /\ ImportsInv
    BY <1>4 DEF OpenFile, Importing, AnswersInv
  <2>2. CASE Found(k, Whole[build[k].body]) /\ UNCHANGED files
    BY <2>1, <2>2, BodyTyped, ContentsGiven, AnswersFound DEF AnswersInv, Cached
  <2>3. CASE /\ files' = [files EXCEPT ![LocalPath(Wanted(k))] = <<>>]
             /\ build' = [build EXCEPT ![k].pc = "write"]
    <3> DEFINE b == build[k]
    <3>1. [b EXCEPT !.pc = "write"] = [b EXCEPT !.pc = "write", !.body = b.body]
      BY <2>1 DEF ImportsInv, GoodBuild, BuildTypes
    <3>2. build' = [build EXCEPT ![k] = [b EXCEPT !.pc = "write"]]
      BY <2>3
    <3>3. build' = [build EXCEPT ![k] = [@ EXCEPT !.pc = "write", !.body = build[k].body]]
      BY <3>1, <3>2
    <3>4. Cached'
      <4> DEFINE none == <<>>
      <4>1. files' = [files EXCEPT ![LocalPath(Wanted(k))] = none] /\ none \in AllContents
        BY <2>3, ContentsGiven
      <4> HIDE DEF none
      <4> QED
        BY <4>1 DEF AnswersInv, Cached
    <3> QED
      BY <2>1, <3>3, <3>4, AnswersSame
  <2> QED
    BY <1>4, <2>2, <2>3 DEF OpenFile
<1>5. ASSUME WriteFile(k) PROVE Cached' /\ \A j \in Konfigs : Answers(j, build'[j])
  <2>1. /\ build[k].pc \in {"open", "write"} /\ build[k].pc \in Importing /\ ImportsInv
        /\ Found(k, Whole[build[k].body])
    BY <1>5 DEF WriteFile, Importing, AnswersInv
  <2>2. PICK n \in 0..Size[build[k].body] :
          files' = [files EXCEPT ![LocalPath(Wanted(k))] =
                        Overwrite(@, SubSeq(Whole[build[k].body], 1, n))]
    BY <1>5 DEF WriteFile
  <2> DEFINE f == LocalPath(Wanted(k))
             new == Overwrite(files[f], SubSeq(Whole[build[k].body], 1, n))
  <2>3. f \in RemoteFiles /\ build[k].body \in 1..MaxVersion
    BY <2>1, BodyTyped
  <2>4. new \in {Missing} \union AllContents
    BY <2>3, WrittenBounded DEF AnswersInv, Cached
  <2>5. files' = [files EXCEPT ![f] = new]
    BY <2>2
  <2> HIDE DEF f, new
  <2>6. Cached'
    BY <2>4, <2>5 DEF AnswersInv, Cached
  <2> QED
    BY <2>1, <2>3, <2>6, ContentsGiven, AnswersFound
<1> QED
  BY <1>1, <1>2, <1>3, <1>4, <1>5 DEF ImportStep

LEMMA AnswersInvInit == ImportsInit => AnswersInv
<1> SUFFICES ASSUME ImportsInit PROVE AnswersInv
  OBVIOUS
<1>1. ImportsInv
  BY InvInit
<1>2. Cached /\ \A k \in Konfigs : Answers(k, NoBuild) /\ build[k] = NoBuild
  BY DEF ImportsInit, Cached, Answers, NoBuild
<1> QED
  BY <1>1, <1>2 DEF AnswersInv

LEMMA AnswersInvNext == AnswersInv /\ [ImportsNext]_importVars => AnswersInv'
<1> SUFFICES ASSUME AnswersInv, [ImportsNext]_importVars PROVE AnswersInv'
  OBVIOUS
<1>1. ImportsInv'
  BY InvNext DEF AnswersInv
<1>2. ASSUME NEW k \in Konfigs, ImportStep(k) PROVE AnswersInv'
  BY <1>1, <1>2, AnswersImport DEF AnswersInv
<1>3. ASSUME NEW k \in Konfigs, NEW r \in {"failed", "refused", "done"}, Ends(k, r)
      PROVE  AnswersInv'
  BY <1>1, <1>3, AnswersEnding DEF Ends, AnswersInv, Cached
<1>4. CASE Site \/ UNCHANGED importVars
  BY <1>1, <1>4 DEF Site, Publish, Outage, Restore, importVars, AnswersInv, Cached
<1>5. CASE Crash
  <2>1. build' = [k \in Konfigs |-> NoBuild] /\ UNCHANGED files
    BY <1>5 DEF Crash
  <2>2. \A k \in Konfigs : Answers(k, build'[k])
    BY <2>1 DEF Answers, NoBuild
  <2> QED
    BY <1>1, <2>1, <2>2 DEF AnswersInv, Cached
<1> QED
  BY <1>2, <1>3, <1>4, <1>5 DEF ImportsNext

LEMMA AnswersAlways == ImportsSpec => []AnswersInv
BY AnswersInvInit, AnswersInvNext, PTL DEF ImportsSpec

-------------------------------------------------------------------------------
(* The theorems *)

\* Every variable has its type: a build has candidates while it looks for an
\* import, a body while it writes one, and a file of the cache directory holds
\* blocks that were written to it.
THEOREM ImportsTyped == ImportsSpec => []TypeOK
<1>1. ImportsInv => TypeOK
  BY DEF ImportsInv, SiteTypes, TypeOK, GoodBuild, BuildTypes, Importing
<1> QED
  BY <1>1, InvInit, InvNext, PTL DEF ImportsSpec

\* However often a program imports a url, and whatever the builds of other
\* Konfigurations truncate, overwrite or half write meanwhile, all its imports
\* of the url have one content (universalImporter.Import).
THEOREM OneContent == ImportsSpec => []OneContentPerBuild
<1>1. ImportsInv => OneContentPerBuild
  BY DEF ImportsInv, GoodBuild, Remembers, OneContentPerBuild
<1> QED
  BY <1>1, InvInit, InvNext, PTL DEF ImportsSpec

\* Whatever other builds do to the files it reads, a program is evaluated with
\* an answer to each of its imports, from one of the import's own candidates
\* and no longer than a version of a file (universalImporter.Import,
\* httpCache.Get).
THEOREM ImportsAnswered == ImportsSpec => []EveryImportAnswered
<1>1. ASSUME AnswersInv, NEW k \in Konfigs, build[k].pc = "render"
      PROVE  /\ DOMAIN build[k].got = DOMAIN ImportsOf[k]
             /\ \A i \in DOMAIN ImportsOf[k] : Given(k, ImportsOf[k][i], build[k].got[i])
  <2> DEFINE b == build[k]
  <2>1. Progress(k, b) /\ b.left = <<>> /\ b.got \in Seq(Gots(k)) /\ ImportsOf[k] \in Seq(Items(k))
    BY <1>1, SequencesAssumption DEF AnswersInv, Answers, ImportsInv, GoodBuild, BuildTypes
  <2>2. Len(b.got) + Len(b.left) = Len(ImportsOf[k]) /\ Len(b.left) = 0
    BY <2>1 DEF Progress
  <2> HIDE DEF b
  <2>3. Len(b.got) = Len(ImportsOf[k])
    BY <2>1, <2>2
  <2>4. DOMAIN b.got = 1..Len(b.got) /\ DOMAIN ImportsOf[k] = 1..Len(b.got)
    BY <2>1, <2>3
  <2> QED
    BY <2>1, <2>4 DEF b, Progress
<1>2. AnswersInv => EveryImportAnswered
  BY <1>1 DEF EveryImportAnswered, Given
<1> QED
  BY <1>2, AnswersAlways, PTL

===============================================================================
