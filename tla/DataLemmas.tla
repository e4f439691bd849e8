------------------------------ MODULE DataLemmas ------------------------------
(***************************************************************************)
(* Lemmas on the data of the models: induction on the naturals for a set   *)
(* of them, FlattenSeq, and sequences that are rearrangements of one       *)
(* another.                                                                *)
(*                                                                         *)
(* Induction is stated for a set, not for an operator, and follows from    *)
(* the cardinalities of finite sets.  A recursive function is treated by   *)
(* proving, by that induction, that a function of its equation exists.     *)
(***************************************************************************)
EXTENDS SequencesExt, SequenceTheorems, FiniteSetTheorems, FunctionTheorems, TLAPS

-------------------------------------------------------------------------------
(* Induction *)

\* Were j the first gap of A, adding one would map the numbers of A below j
\* into those but 0, of which there is one less.
LEMMA Induction ==
    ASSUME NEW A \in SUBSET Nat, 0 \in A, \A n \in A : n + 1 \in A
    PROVE  A = Nat
<1> SUFFICES ASSUME NEW j \in Nat, j \notin A PROVE FALSE
  OBVIOUS
<1> DEFINE S == A \intersect (0..j)
           T == S \ {0}
           F == [n \in S |-> n + 1]
<1>1. IsFiniteSet(S)
  <2>1. IsFiniteSet(0..j) /\ S \in SUBSET (0..j)
    BY FS_Interval
  <2> QED
    BY <2>1, FS_Subset
<1>2. IsFiniteSet(T) /\ Cardinality(T) = Cardinality(S) - 1
  BY <1>1, FS_RemoveElement
<1>3. F \in [S -> T] /\ \A a, b \in S : F[a] = F[b] => a = b
  OBVIOUS
<1> HIDE DEF S, T, F
<1>4. Cardinality(S) <= Cardinality(T)
  BY <1>2, <1>3, Fun_IsInj, FS_Injection
<1>5. Cardinality(S) \in Nat
  BY <1>1, FS_CardinalityType
<1> QED
  BY <1>2, <1>4, <1>5

-------------------------------------------------------------------------------
(* Sequences of sequences *)

\* A one-to-one map of S onto T.
OneToOne(f, S, T) == /\ f \in [S -> T]
                     /\ \A a, b \in S : f[a] = f[b] => a = b
                     /\ \A t \in T : \E a \in S : f[a] = t

\* The places in the first n of some sequences.
Cells(ss, n) == UNION {{<<i, j>> : j \in 1..Len(ss[i])} : i \in 1..n}

\* s has what the first n sequences have, each at the place f maps it to.
Lists(s, ss, n, f) == /\ OneToOne(f, 1..Len(s), Cells(ss, n))
                      /\ \A i \in 1..Len(s) : s[i] = ss[f[i][1]][f[i][2]]

\* The sums that FlattenSeq builds up.
Sums(ss, n, g) == g = [i \in 1..n |-> IF i = 1 THEN ss[i] ELSE g[i - 1] \o ss[i]]

LEMMA SumsExist ==
    ASSUME NEW ss, NEW n \in Nat
    PROVE  \E g : Sums(ss, n, g)
<1> DEFINE A == {m \in Nat : \E g : Sums(ss, m, g)}
<1>1. 0 \in A
  <2>1. Sums(ss, 0, <<>>)
    BY DEF Sums
  <2> QED
    BY <2>1
<1>2. ASSUME NEW m \in A PROVE m + 1 \in A
  <2>1. PICK g : Sums(ss, m, g)
    OBVIOUS
  <2> DEFINE h == [i \in 1..(m + 1) |-> IF i = 1 THEN ss[i] ELSE g[i - 1] \o ss[i]]
  <2>2. \A i \in 1..m : h[i] = g[i]
    <3>1. \A i \in 1..m : i \in 1..(m + 1)
      OBVIOUS
    <3> QED
      BY <2>1, <3>1, Zenon DEF Sums
  <2>3. \A i \in 1..(m + 1) : i # 1 => i - 1 \in 1..m
    OBVIOUS
  <2>4. Sums(ss, m + 1, h)
    BY <2>2, <2>3 DEF Sums
  <2> QED
    BY <2>4
<1> HIDE DEF A
<1>3. A \in SUBSET Nat
  BY DEF A
<1>4. A = Nat
  BY <1>1, <1>2, <1>3, Induction
<1> QED
  BY <1>4 DEF A

LEMMA FlattenSums ==
    ASSUME NEW ss, Len(ss) \in Nat \ {0}
    PROVE  \E g : Sums(ss, Len(ss), g) /\ FlattenSeq(ss) = g[Len(ss)]
<1> DEFINE c == CHOOSE g : Sums(ss, Len(ss), g)
<1>1. FlattenSeq(ss) = c[Len(ss)]
  BY Zenon DEF FlattenSeq, Sums
<1>2. Sums(ss, Len(ss), c)
  BY SumsExist, Zenon
<1> QED
  BY <1>1, <1>2, Zenon

LEMMA CellsNext ==
    ASSUME NEW ss, NEW n \in Nat
    PROVE  Cells(ss, n + 1) = Cells(ss, n) \union {<<n + 1, j>> : j \in 1..Len(ss[n + 1])}
<1>1. 1..(n + 1) = (1..n) \union {n + 1}
  OBVIOUS
<1> DEFINE Row(i) == {<<i, j>> : j \in 1..Len(ss[i])}
<1>2. Cells(ss, n + 1) = UNION {Row(i) : i \in 1..(n + 1)} /\ Cells(ss, n) = UNION {Row(i) : i \in 1..n}
  BY DEF Cells
<1> HIDE DEF Row
<1>3. UNION {Row(i) : i \in 1..(n + 1)} = (UNION {Row(i) : i \in 1..n}) \union Row(n + 1)
  BY <1>1
<1> QED
  BY <1>2, <1>3, Zenon DEF Row

\* One more sequence is appended to those that are there.
LEMMA ListsNext ==
    ASSUME NEW S, NEW ss, NEW n \in Nat, NEW s \in Seq(S), ss[n + 1] \in Seq(S),
           NEW f, Lists(s, ss, n, f)
    PROVE  /\ s \o ss[n + 1] \in Seq(S)
           /\ \E g : Lists(s \o ss[n + 1], ss, n + 1, g)
<1> DEFINE t == ss[n + 1]
           u == s \o t
           g == [i \in 1..Len(u) |-> IF i <= Len(s) THEN f[i] ELSE <<n + 1, i - Len(s)>>]
           old == Cells(ss, n)
           new == {<<n + 1, j>> : j \in 1..Len(t)}
<1>1. /\ u \in Seq(S) /\ Len(u) = Len(s) + Len(t) /\ Len(s) \in Nat /\ Len(t) \in Nat
      /\ \A i \in 1..Len(u) : u[i] = IF i <= Len(s) THEN s[i] ELSE t[i - Len(s)]
  BY ConcatProperties
<1>2. Cells(ss, n + 1) = old \union new
  BY CellsNext
<1>3. \A c \in old : c[1] \in 1..n
  BY DEF Cells
<1>4. /\ OneToOne(f, 1..Len(s), old)
      /\ \A i \in 1..Len(s) : s[i] = ss[f[i][1]][f[i][2]]
  BY DEF Lists
<1> HIDE DEF t, u, old, Lists
<1>5. \A i \in 1..Len(u) : \/ i \in 1..Len(s) /\ g[i] = f[i] /\ g[i] \in old
                           \/ /\ i - Len(s) \in 1..Len(t) /\ ~(i <= Len(s))
                              /\ g[i] = <<n + 1, i - Len(s)>> /\ g[i] \in new
  <2> SUFFICES ASSUME NEW i \in 1..Len(u)
               PROVE  \/ i \in 1..Len(s) /\ g[i] = f[i] /\ g[i] \in old
                      \/ /\ i - Len(s) \in 1..Len(t) /\ ~(i <= Len(s))
                         /\ g[i] = <<n + 1, i - Len(s)>> /\ g[i] \in new
    BY Zenon
  <2>1. CASE i <= Len(s)
    <3>1. i \in 1..Len(s) /\ g[i] = f[i]
      BY <1>1, <2>1
    <3> HIDE DEF g
    <3> QED
      BY <1>4, <3>1 DEF OneToOne
  <2>2. CASE ~(i <= Len(s))
    <3>1. i - Len(s) \in 1..Len(t)
      BY <1>1, <2>2
    <3>2. g[i] = <<n + 1, i - Len(s)>>
      BY <2>2
    <3> HIDE DEF g
    <3> QED
      BY <2>2, <3>1, <3>2
  <2> QED
    BY <2>1, <2>2
<1>6. \A c \in new : c[1] = n + 1 /\ c \notin old
  BY <1>3
<1>7. OneToOne(g, 1..Len(u), old \union new)
  <2>1. g \in [1..Len(u) -> old \union new]
    BY <1>5
  <2>2. ASSUME NEW a \in 1..Len(u), NEW b \in 1..Len(u), g[a] = g[b] PROVE a = b
    <3> HIDE DEF g
    <3>1. CASE g[a] \in old
      <4>1. /\ a \in 1..Len(s) /\ g[a] = f[a]
            /\ b \in 1..Len(s) /\ g[b] = f[b]
        BY <1>5, <1>6, <2>2, <3>1
      <4>2. f[a] = f[b]
        BY <2>2, <4>1
      <4> QED
        BY <1>1, <1>4, <4>1, <4>2 DEF OneToOne
    <3>2. CASE g[a] \in new
      <4>1. /\ g[a] = <<n + 1, a - Len(s)>> /\ g[b] = <<n + 1, b - Len(s)>>
        BY <1>5, <1>6, <2>2, <3>2
      <4>2. <<n + 1, a - Len(s)>> = <<n + 1, b - Len(s)>>
        BY <2>2, <4>1, Zenon
      <4> QED
        BY <1>1, <4>2
    <3> QED
      BY <2>1, <3>1, <3>2
  <2>3. ASSUME NEW c \in old PROVE \E a \in 1..Len(u) : g[a] = c
    <3>1. PICK a \in 1..Len(s) : f[a] = c
      BY <1>4 DEF OneToOne
    <3>2. a \in 1..Len(u) /\ g[a] = f[a]
      BY <1>1
    <3> QED
      BY <3>1, <3>2
  <2>4. ASSUME NEW c \in new PROVE \E a \in 1..Len(u) : g[a] = c
    <3>1. PICK j \in 1..Len(t) : c = <<n + 1, j>>
      OBVIOUS
    <3>2. /\ Len(s) + j \in 1..Len(u) /\ ~(Len(s) + j <= Len(s)) /\ (Len(s) + j) - Len(s) = j
      BY <1>1
    <3>3. g[Len(s) + j] = <<n + 1, j>>
      BY <3>2
    <3> QED
      BY <3>1, <3>2, <3>3
  <2> HIDE DEF g, new
  <2> QED
    BY <2>1, <2>2, <2>3, <2>4 DEF OneToOne
<1>8. \A i \in 1..Len(u) : u[i] = ss[g[i][1]][g[i][2]]
  BY <1>1, <1>4, <1>5 DEF t
<1> HIDE DEF g, new
<1>9. Lists(u, ss, n + 1, g)
  BY <1>2, <1>7, <1>8 DEF Lists
<1> QED
  BY <1>1, <1>9 DEF u, t

\* FlattenSeq has every element of every sequence once.
LEMMA FlattenLists ==
    ASSUME NEW S, NEW ss \in Seq(Seq(S))
    PROVE  /\ FlattenSeq(ss) \in Seq(S)
           /\ \E f : Lists(FlattenSeq(ss), ss, Len(ss), f)
<1>0. Len(ss) \in Nat /\ \A i \in 1..Len(ss) : ss[i] \in Seq(S)
  OBVIOUS
<1>1. CASE Len(ss) = 0
  <2>1. FlattenSeq(ss) = <<>>
    BY <1>1 DEF FlattenSeq
  <2> DEFINE none == <<>>
  <2>2. none \in Seq(S) /\ Len(none) = 0
    OBVIOUS
  <2>3. Cells(ss, 0) = {} 
    BY DEF Cells
  <2> HIDE DEF none
  <2>4. Lists(none, ss, 0, <<>>)
    BY <2>2, <2>3 DEF Lists, OneToOne
  <2> QED
    BY <1>1, <2>1, <2>2, <2>4 DEF none
<1>2. CASE Len(ss) # 0
  <2>1. PICK g : Sums(ss, Len(ss), g) /\ FlattenSeq(ss) = g[Len(ss)]
    BY <1>0, <1>2, FlattenSums
  <2>2. /\ g[1] = ss[1]
        /\ \A i \in 1..Len(ss) : i # 1 => g[i] = g[i - 1] \o ss[i]
    <3>1. 1 \in 1..Len(ss)
      BY <1>0, <1>2
    <3> QED
      BY <2>1, <3>1, Zenon DEF Sums
  <2> DEFINE Good(m) == g[m] \in Seq(S) /\ \E f : Lists(g[m], ss, m, f)
             A == {m \in Nat : m < Len(ss) => Good(m + 1)}
  <2>3. Good(1)
    <3> DEFINE s == ss[1]
               f == [j \in 1..Len(s) |-> <<1, j>>]
    <3>1. s \in Seq(S) /\ Len(s) \in Nat
      BY <1>0, <1>2
    <3> HIDE DEF s
    <3>2. Cells(ss, 1) = {<<1, j>> : j \in 1..Len(s)}
      BY DEF Cells, s
    <3>3. Lists(s, ss, 1, f)
      BY <3>1, <3>2 DEF Lists, OneToOne, s
    <3> QED
      BY <2>2, <3>1, <3>3 DEF s
  <2>4. ASSUME NEW m \in A PROVE m + 1 \in A
    <3> SUFFICES ASSUME m + 1 < Len(ss) PROVE Good(m + 2)
      OBVIOUS
    <3>1. m \in Nat /\ Good(m + 1) /\ m + 2 \in 1..Len(ss) /\ m + 2 # 1 /\ (m + 2) - 1 = m + 1
      BY <1>0
    <3>2. PICK f : Lists(g[m + 1], ss, m + 1, f)
      BY <3>1
    <3>3. g[m + 2] = g[m + 1] \o ss[m + 2]
      BY <2>2, <3>1
    <3>4. /\ g[m + 1] \in Seq(S) /\ ss[(m + 1) + 1] \in Seq(S) /\ (m + 1) + 1 = m + 2
          /\ m + 1 \in Nat
      BY <1>0, <3>1
    <3> HIDE DEF Good
    <3>5. /\ g[m + 1] \o ss[(m + 1) + 1] \in Seq(S)
          /\ \E h : Lists(g[m + 1] \o ss[(m + 1) + 1], ss, (m + 1) + 1, h)
      BY <3>2, <3>4, ListsNext, Zenon
    <3> QED
      BY <3>3, <3>4, <3>5, Zenon DEF Good
  <2> HIDE DEF Good
  <2>5. A \in SUBSET Nat /\ 0 \in A
    BY <2>3
  <2>6. A = Nat
    <3> HIDE DEF A
    <3> QED
      BY <2>4, <2>5, Induction
  <2>7. Good(Len(ss))
    <3>1. Len(ss) - 1 \in A /\ Len(ss) - 1 < Len(ss) /\ (Len(ss) - 1) + 1 = Len(ss)
      BY <1>0, <1>2, <2>6
    <3> QED
      BY <3>1
  <2> QED
    BY <2>1, <2>7 DEF Good
<1> QED
  BY <1>1, <1>2

-------------------------------------------------------------------------------
(* One-to-one maps and rearranged sequences *)

LEMMA Composed ==
    ASSUME NEW S, NEW T, NEW U, NEW f, OneToOne(f, S, T), NEW g, OneToOne(g, T, U)
    PROVE  OneToOne([x \in S |-> g[f[x]]], S, U)
<1> DEFINE h == [x \in S |-> g[f[x]]]
<1>1. h \in [S -> U]
  BY DEF OneToOne
<1>2. \A a, b \in S : h[a] = h[b] => a = b
  BY DEF OneToOne
<1>3. \A u \in U : \E a \in S : h[a] = u
  BY DEF OneToOne
<1> QED
  BY <1>1, <1>2, <1>3, Zenon DEF OneToOne

LEMMA Inverted ==
    ASSUME NEW S, NEW T, NEW f, OneToOne(f, S, T)
    PROVE  \E g : /\ OneToOne(g, T, S)
                  /\ \A x \in S : g[f[x]] = x
                  /\ \A y \in T : f[g[y]] = y
<1> DEFINE g == [y \in T |-> CHOOSE x \in S : f[x] = y]
<1>1. \A y \in T : g[y] \in S /\ f[g[y]] = y
  BY DEF OneToOne
<1>2. \A x \in S : g[f[x]] = x
  BY <1>1 DEF OneToOne
<1>3. g \in [T -> S]
  BY <1>1
<1> HIDE DEF g
<1>4. OneToOne(g, T, S)
  BY <1>1, <1>2, <1>3 DEF OneToOne
<1> QED
  BY <1>1, <1>2, <1>4

\* h says where each element of s is in t.
Permutes(h, s, t) == /\ OneToOne(h, DOMAIN s, DOMAIN t)
                     /\ \A i \in DOMAIN s : t[h[i]] = s[i]

LEMMA SameCardinality ==
    ASSUME NEW S, NEW T, NEW f, OneToOne(f, S, T), IsFiniteSet(S)
    PROVE  IsFiniteSet(T) /\ Cardinality(S) = Cardinality(T)
<1>1. f \in Bijection(S, T)
  BY Fun_IsBij DEF OneToOne
<1>2. ExistsBijection(S, T)
  BY <1>1, Fun_ExistsBij
<1> QED
  BY <1>2, FS_Bijection

\* The sequences of a finite set.
LEMMA SeqsOfSet ==
    ASSUME NEW S, IsFiniteSet(S), NEW order \in SetToSeqs(S)
    PROVE  OneToOne(order, 1..Cardinality(S), S)
<1> DEFINE n == Cardinality(S)
<1>1. n \in Nat
  BY FS_CardinalityType
<1>2. order \in [1..n -> S] /\ \A i, j \in 1..n : i # j => order[i] # order[j]
  BY Zenon DEF SetToSeqs
<1>3. IsFiniteSet(1..n) /\ Cardinality(1..n) = n
  BY <1>1, FS_Interval
<1> HIDE DEF n
<1>4. order \in Injection(1..n, S)
  BY <1>2, Fun_IsInj
<1>5. order \in Surjection(1..n, S)
  BY <1>1, <1>3, <1>4, FS_Injection DEF n
<1>6. \A x \in S : \E i \in 1..n : order[i] = x
  BY <1>5 DEF Surjection
<1>7. OneToOne(order, 1..n, S)
  BY <1>2, <1>6 DEF OneToOne
<1> QED
  BY <1>7 DEF n

LEMMA PermutesInverse ==
    ASSUME NEW s, NEW t, NEW h, Permutes(h, s, t)
    PROVE  \E g : Permutes(g, t, s)
<1>1. PICK g : /\ OneToOne(g, DOMAIN t, DOMAIN s)
               /\ \A y \in DOMAIN t : h[g[y]] = y
  BY Inverted DEF Permutes
<1>2. \A y \in DOMAIN t : s[g[y]] = t[y]
  BY <1>1 DEF Permutes, OneToOne
<1> QED
  BY <1>1, <1>2 DEF Permutes

LEMMA PermutesTwice ==
    ASSUME NEW s, NEW t, NEW u, NEW g, Permutes(g, s, t), NEW h, Permutes(h, t, u)
    PROVE  \E p : Permutes(p, s, u)
<1> DEFINE p == [x \in DOMAIN s |-> h[g[x]]]
<1>1. OneToOne(p, DOMAIN s, DOMAIN u)
  BY Composed DEF Permutes
<1>2. \A x \in DOMAIN s : u[p[x]] = s[x]
  BY DEF Permutes, OneToOne
<1> HIDE DEF p
<1> QED
  BY <1>1, <1>2 DEF Permutes

LEMMA SameLength ==
    ASSUME NEW m \in Nat, NEW n \in Nat, NEW h, OneToOne(h, 1..m, 1..n)
    PROVE  m = n
<1>1. /\ IsFiniteSet(1..m) /\ Cardinality(1..m) = m
      /\ Cardinality(1..n) = n
  BY FS_Interval
<1> QED
  BY <1>1, SameCardinality

\* An increasing map of 1..n is never below its argument.
LEMMA NeverBelow ==
    ASSUME NEW n \in Nat, NEW h \in [1..n -> 1..n],
           \A i, j \in 1..n : i < j => h[i] < h[j]
    PROVE  \A i \in 1..n : h[i] >= i
<1> DEFINE A == {m \in Nat : m \in 1..n => h[m] >= m}
<1>1. 0 \in A
  OBVIOUS
<1>2. ASSUME NEW m \in A PROVE m + 1 \in A
  <2> SUFFICES ASSUME m + 1 \in 1..n PROVE h[m + 1] >= m + 1
    OBVIOUS
  <2>1. CASE m = 0
    BY <2>1
  <2>2. CASE m # 0
    <3>1. m \in 1..n /\ h[m] >= m /\ h[m] < h[m + 1]
      BY <2>2
    <3>2. h[m] \in Nat /\ h[m + 1] \in Nat /\ m \in Nat
      BY <3>1
    <3> QED
      BY <3>1, <3>2
  <2> QED
    BY <2>1, <2>2
<1>3. A = Nat
  <2>1. A \in SUBSET Nat
    OBVIOUS
  <2> HIDE DEF A
  <2> QED
    BY <1>1, <1>2, <2>1, Induction
<1> QED
  BY <1>3

LEMMA IncreasingIsIdentity ==
    ASSUME NEW n \in Nat, NEW h, OneToOne(h, 1..n, 1..n),
           \A i, j \in 1..n : i < j => h[i] < h[j]
    PROVE  \A i \in 1..n : h[i] = i
<1>1. PICK g : /\ OneToOne(g, 1..n, 1..n)
               /\ \A x \in 1..n : g[h[x]] = x
               /\ \A y \in 1..n : h[g[y]] = y
  BY Inverted
<1>2. h \in [1..n -> 1..n] /\ g \in [1..n -> 1..n]
  BY <1>1 DEF OneToOne
<1>3. ASSUME NEW i \in 1..n, NEW j \in 1..n, i < j PROVE g[i] < g[j]
  <2>1. h[g[i]] = i /\ h[g[j]] = j /\ g[i] \in 1..n /\ g[j] \in 1..n
    BY <1>1, <1>2
  <2>2. ~(g[j] < g[i]) /\ g[i] # g[j]
    BY <1>3, <2>1
  <2> QED
    BY <2>1, <2>2
<1>4. \A i \in 1..n : h[i] >= i /\ g[h[i]] >= h[i]
  BY <1>2, <1>3, NeverBelow
<1> QED
  BY <1>1, <1>2, <1>4

\* R, a set of pairs, puts no two elements both ways, and s is in its order.
OneWay(R, S)  == \A x, y \in S : ~(<<x, y>> \in R /\ <<y, x>> \in R)
Ordered(s, R) == \A i, j \in DOMAIN s : i < j => <<s[i], s[j]>> \in R

\* Two rearrangements of one another are the same if both are in an order.
LEMMA OrderedOnce ==
    ASSUME NEW S, NEW s \in Seq(S), NEW t \in Seq(S), NEW h, Permutes(h, s, t),
           NEW R, OneWay(R, S), Ordered(s, R), Ordered(t, R)
    PROVE  s = t
<1> DEFINE m == Len(s)
           n == Len(t)
<1>0. /\ m \in Nat /\ DOMAIN s = 1..m /\ s \in [1..m -> S]
      /\ n \in Nat /\ DOMAIN t = 1..n /\ t \in [1..n -> S]
  OBVIOUS
<1> HIDE DEF m, n
<1>1. OneToOne(h, 1..m, 1..n) /\ \A i \in 1..m : t[h[i]] = s[i]
  BY <1>0 DEF Permutes
<1>2. m = n
  BY <1>0, <1>1, SameLength
<1>3. ASSUME NEW i \in 1..m, NEW j \in 1..m, i < j PROVE h[i] < h[j]
  <2>1. h[i] \in 1..n /\ h[j] \in 1..n /\ h[i] # h[j]
    BY <1>1, <1>3 DEF OneToOne
  <2>2. <<s[i], s[j]>> \in R /\ s[i] \in S /\ s[j] \in S
    BY <1>0, <1>3 DEF Ordered
  <2>3. ~(<<s[j], s[i]>> \in R)
    BY <2>2 DEF OneWay
  <2>4. ~(h[j] < h[i])
    BY <1>0, <1>1, <2>1, <2>3 DEF Ordered
  <2> QED
    BY <2>1, <2>4
<1>4. \A i \in 1..m : h[i] = i
  BY <1>0, <1>1, <1>2, <1>3, IncreasingIsIdentity
<1>5. \A i \in 1..m : t[i] = s[i]
  BY <1>1, <1>4
<1> QED
  BY <1>0, <1>2, <1>5

\* Rearranged rows are, one after the other, a rearrangement.
LEMMA FlattenPermutes ==
    ASSUME NEW S, NEW ss \in Seq(Seq(S)), NEW tt \in Seq(Seq(S)),
           NEW h, Permutes(h, ss, tt)
    PROVE  \E p : Permutes(p, FlattenSeq(ss), FlattenSeq(tt))
<1> DEFINE s == FlattenSeq(ss)
           t == FlattenSeq(tt)
           from == Cells(ss, Len(ss))
           to == Cells(tt, Len(tt))
           q == [c \in from |-> <<h[c[1]], c[2]>>]
<1>1. PICK f : s \in Seq(S) /\ Lists(s, ss, Len(ss), f)
  BY FlattenLists
<1>2. PICK g : t \in Seq(S) /\ Lists(t, tt, Len(tt), g)
  BY FlattenLists
<1> HIDE DEF s, t
<1>3. /\ OneToOne(h, 1..Len(ss), 1..Len(tt))
      /\ \A i \in 1..Len(ss) : tt[h[i]] = ss[i]
  BY DEF Permutes
<1>4. /\ \A c \in from : c = <<c[1], c[2]>> /\ c[1] \in 1..Len(ss) /\ c[2] \in 1..Len(ss[c[1]])
      /\ \A i \in 1..Len(ss) : \A j \in 1..Len(ss[i]) : <<i, j>> \in from
      /\ \A c \in to : c = <<c[1], c[2]>> /\ c[1] \in 1..Len(tt) /\ c[2] \in 1..Len(tt[c[1]])
      /\ \A i \in 1..Len(tt) : \A j \in 1..Len(tt[i]) : <<i, j>> \in to
  BY DEF Cells
<1> HIDE DEF from, to
<1>5. OneToOne(q, from, to)
  <2>1. ASSUME NEW c \in from PROVE q[c] \in to
    <3>1. h[c[1]] \in 1..Len(tt) /\ tt[h[c[1]]] = ss[c[1]]
      BY <1>3, <1>4 DEF OneToOne
    <3> QED
      BY <1>4, <3>1
  <2>2. ASSUME NEW c \in from, NEW d \in from, q[c] = q[d] PROVE c = d
    <3>1. h[c[1]] = h[d[1]] /\ c[2] = d[2]
      BY <2>2
    <3>2. c[1] = d[1]
      BY <1>3, <1>4, <3>1 DEF OneToOne
    <3> QED
      BY <1>4, <3>1, <3>2
  <2>3. ASSUME NEW d \in to PROVE \E c \in from : q[c] = d
    <3>1. PICK i \in 1..Len(ss) : h[i] = d[1]
      BY <1>3, <1>4 DEF OneToOne
    <3>2. tt[d[1]] = ss[i]
      BY <1>3, <3>1
    <3>3. <<i, d[2]>> \in from
      BY <1>4, <3>2
    <3>4. q[<<i, d[2]>>] = d
      BY <1>4, <3>1, <3>3
    <3> QED
      BY <3>3, <3>4
  <2>4. q \in [from -> to]
    BY <2>1
  <2> HIDE DEF q
  <2> QED
    BY <2>2, <2>3, <2>4 DEF OneToOne
<1>6. PICK inv : /\ OneToOne(inv, to, 1..Len(t))
                 /\ \A y \in to : g[inv[y]] = y
  BY <1>2, Inverted DEF Lists, to
<1> DEFINE r == [i \in 1..Len(s) |-> q[f[i]]]
           p == [i \in 1..Len(s) |-> inv[r[i]]]
<1>7. OneToOne(f, 1..Len(s), from) /\ \A i \in 1..Len(s) : s[i] = ss[f[i][1]][f[i][2]]
  BY <1>1 DEF Lists, from
<1>8. OneToOne(r, 1..Len(s), to)
  <2> HIDE DEF q
  <2> QED
    BY <1>5, <1>7, Composed
<1>9. OneToOne(p, 1..Len(s), 1..Len(t))
  <2>1. OneToOne(inv, to, 1..Len(t))
    BY <1>6
  <2> HIDE DEF q, r
  <2>2. OneToOne([i \in 1..Len(s) |-> inv[r[i]]], 1..Len(s), 1..Len(t))
    BY <1>8, <2>1, Composed
  <2> QED
    BY <2>2
<1>10. ASSUME NEW i \in 1..Len(s) PROVE t[p[i]] = s[i]
  <2>1. f[i] \in from /\ q[f[i]] \in to /\ p[i] = inv[q[f[i]]]
    <3> HIDE DEF q
    <3> QED
      BY <1>5, <1>7 DEF OneToOne
  <2>2. p[i] \in 1..Len(t) /\ g[p[i]] = q[f[i]]
    <3> HIDE DEF q, p
    <3> QED
      BY <1>6, <2>1 DEF OneToOne
  <2>3. t[p[i]] = tt[g[p[i]][1]][g[p[i]][2]]
    <3> HIDE DEF q, p
    <3> QED
      BY <1>2, <2>2 DEF Lists
  <2>4. q[f[i]] = <<h[f[i][1]], f[i][2]>>
    BY <2>1
  <2>5. t[p[i]] = tt[h[f[i][1]]][f[i][2]]
    <3> HIDE DEF q, p
    <3> QED
      BY <2>2, <2>3, <2>4
  <2>6. tt[h[f[i][1]]] = ss[f[i][1]]
    BY <1>3, <1>4, <2>1
  <2> HIDE DEF q, p
  <2> QED
    BY <1>7, <2>5, <2>6
<1>11. DOMAIN s = 1..Len(s) /\ DOMAIN t = 1..Len(t)
  BY <1>1, <1>2
<1> HIDE DEF p
<1>12. Permutes(p, s, t)
  BY <1>9, <1>10, <1>11 DEF Permutes
<1> QED
  BY <1>12 DEF s, t

===============================================================================
