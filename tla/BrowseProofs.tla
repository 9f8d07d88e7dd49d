------------------------------ MODULE BrowseProofs ------------------------------
(***************************************************************************)
(* Proofs about Browse, for every file tree, request and size of buffers:  *)
(* type correctness; that what is served is below the document root, where *)
(* the path fits its buffer and names neither device nor stream; that      *)
(* a request is parsed as it was written; that the URL of a file or        *)
(* directory, encoded as a browser does, is answered with what it names;   *)
(* and that links and redirects lead where they say.                       *)
(*                                                                         *)
(* The order: how a path is walked (Steps), what url_decode yields, what   *)
(* resolve_file_path lets through, how requests are read, what URLs encode *)
(* name, what links and redirects name, with the invariants of the         *)
(* exchange and the theorems in between.                                   *)
(***************************************************************************)
EXTENDS Browse, ListFacts

-----------------------------------------------------------------------------
(* The way of a path.                                                      *)
LEMMA StepsDef ==
  ASSUME NEW path, Len(path) \in Nat
  PROVE  Steps(path) = [k \in 0 .. Len(path) + 1 |->
           IF k = 0 THEN <<>>
           ELSE IF Ends(path, k) THEN Into(Steps(path)[k - 1], NameBefore(path, k))
           ELSE Steps(path)[k - 1]]
<1> DEFINE Def(f, k) == IF k = 0 THEN <<>>
                        ELSE IF Ends(path, k) THEN Into(f[k - 1], NameBefore(path, k))
                        ELSE f[k - 1]
           T == {m \in Nat : \E f : f = [k \in 0 .. m |-> Def(f, k)]}
<1> SUFFICES \E f : f = [k \in 0 .. Len(path) + 1 |-> Def(f, k)]
  BY DEF Steps
<1>1. \A f, g, k : k = 0 \/ f[k - 1] = g[k - 1] => Def(f, k) = Def(g, k)
  OBVIOUS
<1> HIDE DEF Def
<1>2. 0 \in T
  <2> DEFINE f == [k \in 0 .. 0 |-> Def(<<>>, k)]
  <2>1. f = [k \in 0 .. 0 |-> Def(f, k)]
    BY <1>1
  <2> QED BY <2>1
<1>3. ASSUME NEW m \in Nat, m \in T PROVE m + 1 \in T
  <2>1. PICK f : f = [k \in 0 .. m |-> Def(f, k)]
    BY <1>3
  <2> DEFINE g == [k \in 0 .. m + 1 |-> Def(f, k)]
  <2>2. ASSUME NEW k \in 0 .. m + 1 PROVE Def(f, k) = Def(g, k)
    <3>1. CASE k = 0
      BY <1>1, <3>1
    <3>2. CASE k # 0
      <4>1. k - 1 \in 0 .. m /\ k - 1 \in 0 .. m + 1
        BY <3>2
      <4>2. f[k - 1] = Def(f, k - 1) /\ g[k - 1] = Def(f, k - 1)
        BY <2>1, <4>1
      <4> QED BY <1>1, <4>2
    <3> QED BY <3>1, <3>2
  <2>3. g = [k \in 0 .. m + 1 |-> Def(g, k)]
    BY <2>2
  <2>4. m + 1 \in Nat
    OBVIOUS
  <2> HIDE DEF g
  <2>5. \E h : h = [k \in 0 .. m + 1 |-> Def(h, k)]
    BY <2>3
  <2> QED BY <2>4, <2>5
<1>4. \A m \in Nat : m \in T
  <2> HIDE DEF T
  <2> QED BY <1>2, <1>3, SetInduction
<1>5. Len(path) + 1 \in Nat
  OBVIOUS
<1>6. Len(path) + 1 \in T
  BY <1>4, <1>5
<1> QED BY <1>6

LEMMA NameFacts ==
  ASSUME NEW S, NEW path \in Seq(S), NEW k \in 1 .. Len(path) + 1
  PROVE  /\ NameFrom(path, k) \in 1 .. k
         /\ \A i \in NameFrom(path, k) .. k - 1 : path[i] \notin Separators
         /\ NameFrom(path, k) = 1 \/ path[NameFrom(path, k) - 1] \in Separators
         /\ NameBefore(path, k) \in Seq(S)
         /\ Len(NameBefore(path, k)) = k - NameFrom(path, k)
         /\ \A i \in 1 .. k - NameFrom(path, k) :
              NameBefore(path, k)[i] = path[NameFrom(path, k) + i - 1]
<1> DEFINE last == SelectLastInSubSeq(path, 1, k - 1, LAMBDA c : c \in Separators)
           I == {i \in 1 .. k - 1 : path[i] \in Separators}
<1>1. Len(path) \in Nat /\ k \in Nat /\ k - 1 <= Len(path)
  BY LenProperties
<1>2. last = IF I # {} THEN Max(I) ELSE 0
  BY DEF SelectLastInSubSeq
<1>3. I \subseteq 0 .. k - 1 /\ k - 1 \in Nat
  BY <1>1
<1>4. \A i \in 1 .. k - 1 : i \notin I => path[i] \notin Separators
  OBVIOUS
<1>5. \A i \in I : path[i] \in Separators /\ i \in 1 .. k - 1
  OBVIOUS
<1> HIDE DEF I, last
<1>6. last \in 0 .. k - 1
  <2>1. I # {} => Max(I) \in 0 .. k - 1
    BY <1>3, MaxFacts
  <2>2. 0 \in 0 .. k - 1
    BY <1>3
  <2> QED BY <1>2, <2>1, <2>2
<1>7. last = 0 \/ last \in I
  BY <1>2, <1>3, MaxFacts
<1>8. \A i \in I : i <= last
  BY <1>2, <1>3, MaxFacts
<1>9. \A i \in last + 1 .. k - 1 : i \in 1 .. k - 1 /\ ~(i <= last)
  BY <1>1, <1>6
<1>10. \A i \in last + 1 .. k - 1 : path[i] \notin Separators
  BY <1>4, <1>8, <1>9
<1>11. NameFrom(path, k) = last + 1
  BY DEF NameFrom, last
<1>12. \A i \in last + 1 .. k - 1 : path[i] \in S
  BY <1>1, <1>6, ElementOfSeq
<1>13. last + 1 \in 1 .. k /\ k - 1 \in Int /\ last + 1 \in Int
  BY <1>1, <1>6
<1>14. last + 1 = 1 \/ path[last + 1 - 1] \in Separators
  BY <1>1, <1>5, <1>6, <1>7
<1>15. NameBefore(path, k) = SubSeq(path, last + 1, k - 1)
  BY <1>11 DEF NameBefore
<1> QED BY <1>1, <1>6, <1>10, <1>11, <1>12, <1>13, <1>14, <1>15, SubSeqProperties

(* Where a path leads that is put together with slashes.                   *)
LEMMA NameUnique ==
  ASSUME NEW S, NEW path \in Seq(S), NEW k \in 1 .. Len(path) + 1, NEW f \in 1 .. k,
         \A i \in f .. k - 1 : path[i] \notin Separators,
         f = 1 \/ path[f - 1] \in Separators
  PROVE  NameFrom(path, k) = f
<1>1. Len(path) \in Nat
  BY LenProperties
<1>2. PICK g : g = NameFrom(path, k)
  OBVIOUS
<1>3. /\ g \in 1 .. k /\ \A i \in g .. k - 1 : path[i] \notin Separators
      /\ g = 1 \/ path[g - 1] \in Separators
  BY <1>2, NameFacts
<1>4. ASSUME f < g PROVE FALSE
  <2>1. g - 1 \in f .. k - 1 /\ g # 1
    BY <1>1, <1>3, <1>4
  <2> QED BY <1>3, <2>1
<1>5. ASSUME g < f PROVE FALSE
  <2>1. f - 1 \in g .. k - 1 /\ f # 1
    BY <1>1, <1>3, <1>5
  <2> QED BY <1>3, <2>1
<1>6. f = g \/ f < g \/ g < f
  BY <1>1, <1>3
<1> QED BY <1>2, <1>4, <1>5, <1>6

(* A name is the same wherever the path it is in begins, at a separator,   *)
(* and whatever follows.                                                   *)
PartAt(path, m, q) == /\ m \in Nat /\ m + Len(q) <= Len(path)
                      /\ \A i \in 1 .. Len(q) : path[m + i] = q[i]
                      /\ m = 0 \/ path[m] \in Separators

LEMMA NameShift ==
  ASSUME NEW S, NEW path \in Seq(S), NEW q \in Seq(S), NEW m, PartAt(path, m, q)
  PROVE  \A k \in 1 .. Len(q) + 1 : NameBefore(path, m + k) = NameBefore(q, k)
<1> USE DEF PartAt
<1>1. Len(path) \in Nat /\ Len(q) \in Nat
  BY LenProperties
<1>2. SUFFICES ASSUME NEW k \in 1 .. Len(q) + 1
               PROVE  NameBefore(path, m + k) = NameBefore(q, k)
  OBVIOUS
<1>3. PICK f : f = NameFrom(q, k)
  OBVIOUS
<1>4. /\ f \in 1 .. k /\ \A i \in f .. k - 1 : q[i] \notin Separators
      /\ f = 1 \/ q[f - 1] \in Separators
      /\ NameBefore(q, k) \in Seq(S) /\ Len(NameBefore(q, k)) = k - f
      /\ \A i \in 1 .. k - f : NameBefore(q, k)[i] = q[f + i - 1]
  BY <1>3, NameFacts
<1>5. m + k \in 1 .. Len(path) + 1 /\ m + f \in 1 .. m + k
  BY <1>1, <1>4
<1>6. ASSUME NEW i \in m + f .. m + k - 1 PROVE path[i] \notin Separators
  <2>1. i - m \in f .. k - 1 /\ i - m \in 1 .. Len(q) /\ m + (i - m) = i
    BY <1>1, <1>4
  <2> QED BY <1>2, <1>4, <2>1
<1>7. m + f = 1 \/ path[m + f - 1] \in Separators
  <2>1. CASE f = 1
    <3>1. m + f - 1 = m /\ (m = 0 => m + f = 1)
      BY <2>1
    <3> QED BY <3>1
  <2>2. CASE f # 1
    <3>1. f - 1 \in 1 .. Len(q) /\ m + (f - 1) = m + f - 1
      BY <1>1, <1>4, <2>2
    <3>2. q[f - 1] \in Separators
      BY <1>4, <2>2
    <3> QED BY <3>1, <3>2
  <2> QED BY <2>1, <2>2
<1>8. NameFrom(path, m + k) = m + f
  <2>1. PICK K, F : K = m + k /\ F = m + f
    OBVIOUS
  <2>2. /\ K \in 1 .. Len(path) + 1 /\ F \in 1 .. K /\ \A i \in F .. K - 1 : path[i] \notin Separators
        /\ F = 1 \/ path[F - 1] \in Separators
    <3>1. K \in 1 .. Len(path) + 1 /\ F \in 1 .. K
      BY <1>5, <2>1
    <3>2. \A i \in F .. K - 1 : path[i] \notin Separators
      BY <1>6, <2>1
    <3>3. F - 1 = m + f - 1
      BY <1>4, <2>1
    <3>4. F = 1 \/ path[F - 1] \in Separators
      BY <1>7, <2>1, <3>3
    <3> QED BY <3>1, <3>2, <3>4
  <2>3. NameFrom(path, K) = F
    BY <2>2, NameUnique
  <2> QED BY <2>1, <2>3
<1>9. /\ NameBefore(path, m + k) \in Seq(S) /\ Len(NameBefore(path, m + k)) = k - f
      /\ \A i \in 1 .. k - f : NameBefore(path, m + k)[i] = path[m + f + i - 1]
  <2>1. PICK K, F : K = m + k /\ F = m + f
    OBVIOUS
  <2>2. K \in 1 .. Len(path) + 1 /\ NameFrom(path, K) = F /\ K - F = k - f
    BY <1>4, <1>5, <1>8, <2>1
  <2>3. /\ NameBefore(path, K) \in Seq(S) /\ Len(NameBefore(path, K)) = K - F
        /\ \A i \in 1 .. K - F : NameBefore(path, K)[i] = path[F + i - 1]
    BY <2>2, NameFacts
  <2> QED BY <2>1, <2>2, <2>3
<1>10. ASSUME NEW i \in 1 .. k - f PROVE path[m + f + i - 1] = q[f + i - 1]
  <2>1. f + i - 1 \in 1 .. Len(q) /\ m + (f + i - 1) = m + f + i - 1
    BY <1>1, <1>4
  <2> QED BY <2>1
<1> QED BY <1>4, <1>9, <1>10, SeqEqual
LEMMA StepsShift ==
  ASSUME NEW S, NEW path \in Seq(S), NEW q \in Seq(S), NEW m, PartAt(path, m, q),
         Steps(path)[m] = <<>>
  PROVE  \A k \in 0 .. Len(q) : Steps(path)[m + k] = Steps(q)[k]
<1> DEFINE T == {k \in Nat : k <= Len(q) => Steps(path)[m + k] = Steps(q)[k]}
<1>1. /\ Len(path) \in Nat /\ Len(q) \in Nat
      /\ m \in Nat /\ m + Len(q) <= Len(path) /\ \A i \in 1 .. Len(q) : path[m + i] = q[i]
  BY LenProperties DEF PartAt
<1>2. 0 \in T
  <2>1. Steps(q)[0] = <<>> /\ m + 0 = m
    BY <1>1, StepsDef
  <2> QED BY <2>1
<1>3. ASSUME NEW k \in Nat, k \in T PROVE k + 1 \in T
  <2> SUFFICES ASSUME k + 1 <= Len(q) PROVE Steps(path)[m + (k + 1)] = Steps(q)[k + 1]
    OBVIOUS
  <2>1. PICK j, K : j = k + 1 /\ K = m + j
    OBVIOUS
  <2>2. /\ j \in 1 .. Len(q) /\ j \in 0 .. Len(q) + 1 /\ j # 0 /\ j - 1 = k /\ j # Len(q) + 1
        /\ K \in 1 .. Len(path) /\ K \in 0 .. Len(path) + 1 /\ K # 0 /\ K - 1 = m + k
        /\ K # Len(path) + 1 /\ j \in 1 .. Len(q) + 1
    BY <1>1, <2>1
  <2>3. path[K] = q[j] /\ NameBefore(path, K) = NameBefore(q, j)
    <3>1. \A i \in 1 .. Len(q) + 1 : NameBefore(path, m + i) = NameBefore(q, i)
      BY NameShift
    <3> QED BY <1>1, <2>1, <2>2, <3>1
  <2>4. Steps(q)[j] = IF Ends(q, j) THEN Into(Steps(q)[k], NameBefore(q, j)) ELSE Steps(q)[k]
    BY <1>1, <2>2, StepsDef
  <2>5. Steps(path)[K] = IF Ends(path, K) THEN Into(Steps(path)[m + k], NameBefore(path, K))
                         ELSE Steps(path)[m + k]
    BY <1>1, <2>2, StepsDef
  <2>6. Ends(q, j) <=> Ends(path, K)
    BY <2>2, <2>3 DEF Ends
  <2>7. Steps(path)[m + k] = Steps(q)[k]
    BY <1>1, <1>3
  <2> QED BY <2>1, <2>3, <2>4, <2>5, <2>6, <2>7
<1>4. \A k \in Nat : k \in T
  <2> HIDE DEF T
  <2> QED BY <1>2, <1>3, SetInduction
<1> QED BY <1>1, <1>4

(* A separator at the beginning changes nothing.                           *)
LEMMA WalkLead ==
  ASSUME NEW S, NEW path \in Seq(S), path # <<>>, Head(path) = Slash
  PROVE  Walk(path) = Walk(Tail(path))
<1> DEFINE q == Tail(path)
           n == Len(path)
<1>1. /\ n \in Nat /\ n >= 1 /\ q \in Seq(S) /\ Len(q) = n - 1
      /\ \A i \in 1 .. Len(q) : q[i] = path[i + 1]
      /\ path[1] = Slash
  BY HeadTailProperties, EmptySeq
<1> HIDE DEF q
<1>2. Slash \in Separators
  BY DEF Separators
<1>3. Steps(path)[1] = <<>>
  <2>1. 1 \in 0 .. n + 1 /\ 0 \in 0 .. n + 1 /\ 1 # 0 /\ 1 - 1 = 0 /\ 1 \in 1 .. n + 1
    BY <1>1
  <2>2. Steps(path)[0] = <<>>
    BY <1>1, <2>1, StepsDef
  <2>3. NameBefore(path, 1) = <<>>
    <3>1. NameBefore(path, 1) \in Seq(S) /\ Len(NameBefore(path, 1)) = 1 - NameFrom(path, 1)
          /\ NameFrom(path, 1) \in 1 .. 1
      BY <2>1, NameFacts
    <3>2. Len(NameBefore(path, 1)) = 0
      BY <3>1
    <3> QED BY <3>1, <3>2, EmptySeq
  <2>4. Ends(path, 1)
    BY <1>1, <1>2 DEF Ends
  <2>5. Steps(path)[1] = Into(<<>>, <<>>)
    BY <1>1, <2>1, <2>2, <2>3, <2>4, StepsDef
  <2> QED BY <2>5 DEF Into
<1>4. \A i \in 1 .. Len(q) : path[1 + i] = q[i]
  <2>1. \A i \in 1 .. Len(q) : 1 + i = i + 1
    BY <1>1
  <2> QED BY <1>1, <2>1
<1>5. PartAt(path, 1, q)
  <2>1. 1 + Len(q) <= Len(path) /\ 1 \in Nat
    BY <1>1
  <2> QED BY <1>1, <1>2, <1>4, <2>1 DEF PartAt
<1>6. \A k \in 0 .. Len(q) : Steps(path)[1 + k] = Steps(q)[k]
  BY <1>1, <1>3, <1>5, StepsShift
<1>7. \A k \in 1 .. Len(q) + 1 : NameBefore(path, 1 + k) = NameBefore(q, k)
  BY <1>1, <1>5, NameShift
<1>8. PICK j, K : j = Len(q) + 1 /\ K = n + 1
  OBVIOUS
<1>9. /\ j \in 0 .. Len(q) + 1 /\ j # 0 /\ j - 1 = Len(q) /\ j - 1 \in 0 .. Len(q) /\ j \in 1 .. Len(q) + 1
      /\ K \in 0 .. n + 1 /\ K # 0 /\ K - 1 = 1 + Len(q) /\ K = 1 + j /\ Len(q) \in Nat
  BY <1>1, <1>8
<1>10. Steps(q)[j] = Into(Steps(q)[j - 1], NameBefore(q, j))
  <2>1. Ends(q, j)
    BY <1>8 DEF Ends
  <2> QED BY <1>9, <2>1, StepsDef
<1>11. Steps(path)[K] = Into(Steps(path)[K - 1], NameBefore(path, K))
  <2>1. Ends(path, K)
    BY <1>8 DEF Ends
  <2> QED BY <1>1, <1>9, <2>1, StepsDef
<1>12. Steps(path)[K - 1] = Steps(q)[j - 1] /\ NameBefore(path, K) = NameBefore(q, j)
  BY <1>6, <1>7, <1>9
<1> QED BY <1>8, <1>10, <1>11, <1>12 DEF Walk, q

(* A name after a path and a slash.                                        *)
LEMMA SlashBetween ==
  ASSUME NEW S, NEW p \in Seq(S), NEW name \in Seq(S), Slash \in S
  PROVE  LET path == p \o (<<Slash>> \o name) IN
         /\ path \in Seq(S) /\ Len(path) = Len(p) + Len(name) + 1
         /\ \A i \in 1 .. Len(p) : path[i] = p[i]
         /\ path[Len(p) + 1] = Slash
         /\ \A i \in 1 .. Len(name) : path[Len(p) + 1 + i] = name[i]
<1> DEFINE q    == <<Slash>> \o name
           path == p \o q
           l    == Len(p)
           n    == Len(name)
<1>1. l \in Nat /\ n \in Nat
  BY LenProperties
<1>2. q \in Seq(S) /\ Len(q) = n + 1 /\ q[1] = Slash /\ \A i \in 1 .. n : q[i + 1] = name[i]
  <2>1. PICK s : s = <<Slash>>
    OBVIOUS
  <2>2. s \in Seq(S) /\ Len(s) = 1 /\ s[1] = Slash
    BY <2>1
  <2>3. q \in Seq(S) /\ Len(q) = 1 + n
        /\ \A i \in 1 .. 1 + n : q[i] = IF i <= 1 THEN s[i] ELSE name[i - 1]
    BY <2>1, <2>2, ConcatProperties
  <2> HIDE DEF q
  <2>4. \A i \in 1 .. n : i + 1 \in 1 .. 1 + n /\ ~(i + 1 <= 1) /\ i + 1 - 1 = i
    BY <1>1
  <2>5. \A i \in 1 .. n : q[i + 1] = name[i]
    BY <2>3, <2>4
  <2>6. q[1] = Slash /\ Len(q) = n + 1
    BY <1>1, <2>2, <2>3
  <2> QED BY <2>3, <2>5, <2>6
<1> HIDE DEF q
<1>3. /\ path \in Seq(S) /\ Len(path) = l + n + 1
      /\ \A i \in 1 .. l : path[i] = p[i]
      /\ path[l + 1] = Slash
      /\ \A i \in 1 .. n : path[l + 1 + i] = name[i]
  <2>0. /\ path \in Seq(S) /\ Len(path) = Len(p) + Len(q)
        /\ \A i \in 1 .. Len(p) + Len(q) : path[i] = IF i <= Len(p) THEN p[i] ELSE q[i - Len(p)]
    BY <1>2, ConcatProperties
  <2> HIDE DEF path
  <2>1. /\ path \in Seq(S) /\ Len(path) = l + (n + 1)
        /\ \A i \in 1 .. l + (n + 1) : path[i] = IF i <= l THEN p[i] ELSE q[i - l]
    BY <1>2, <2>0
  <2>2. \A i \in 1 .. l : i \in 1 .. l + (n + 1) /\ i <= l
    BY <1>1
  <2>3. l + 1 \in 1 .. l + (n + 1) /\ ~(l + 1 <= l) /\ l + 1 - l = 1
    BY <1>1
  <2>4. \A i \in 1 .. n : l + 1 + i \in 1 .. l + (n + 1) /\ ~(l + 1 + i <= l) /\ l + 1 + i - l = i + 1
    BY <1>1
  <2>5. \A i \in 1 .. n : path[l + 1 + i] = name[i]
    BY <1>2, <2>1, <2>4
  <2>6. path[l + 1] = Slash
    BY <1>2, <2>1, <2>3
  <2>7. Len(path) = l + n + 1
    BY <1>1, <2>1
  <2> QED BY <2>1, <2>2, <2>5, <2>6, <2>7
<1> QED BY <1>3 DEF path, q

(* A name at the end of a path.                                            *)
LEMMA WalkInto ==
  ASSUME NEW S, NEW p \in Seq(S), NEW name \in Seq(S), Slash \in S,
         \A i \in 1 .. Len(name) : name[i] \notin Separators
  PROVE  Walk(p \o (<<Slash>> \o name)) = Into(Walk(p), name)
<1> DEFINE q    == <<Slash>> \o name
           path == p \o q
           l    == Len(p)
           n    == Len(name)
<1>1. l \in Nat /\ n \in Nat
  BY LenProperties
<1>3. /\ path \in Seq(S) /\ Len(path) = l + n + 1
      /\ \A i \in 1 .. l : path[i] = p[i]
      /\ path[l + 1] = Slash
      /\ \A i \in 1 .. n : path[l + 1 + i] = name[i]
  BY SlashBetween
<1> HIDE DEF path, q
<1>4. Slash \in Separators
  BY DEF Separators
<1>5. \A k \in 0 .. l : Steps(path)[k] = Steps(p)[k]
  <2>1. PartAt(path, 0, p)
    BY <1>1, <1>3 DEF PartAt
  <2>2. Steps(path)[0] = <<>>
    <3>1. Len(path) \in Nat /\ 0 \in 0 .. Len(path) + 1
      BY <1>1, <1>3
    <3> QED BY <3>1, StepsDef
  <2>3. \A k \in 0 .. Len(p) : Steps(path)[0 + k] = Steps(p)[k]
    BY <1>3, <2>1, <2>2, StepsShift
  <2> QED BY <1>1, <2>3
<1>6. \A k \in 1 .. l + 1 : NameBefore(path, k) = NameBefore(p, k)
  <2>1. PartAt(path, 0, p)
    BY <1>1, <1>3 DEF PartAt
  <2>2. \A k \in 1 .. Len(p) + 1 : NameBefore(path, 0 + k) = NameBefore(p, k)
    BY <1>3, <2>1, NameShift
  <2> QED BY <1>1, <2>2
<1>7. Steps(path)[l + 1] = Walk(p)
  <2>1. PICK k : k = l + 1
    OBVIOUS
  <2>2. /\ k \in 0 .. l + 1 /\ k \in 0 .. Len(path) + 1 /\ k # 0 /\ k - 1 = l /\ l \in 0 .. l
        /\ k \in 1 .. l + 1 /\ Len(path) \in Nat
    BY <1>1, <1>3, <2>1
  <2>3. Ends(path, k) /\ Ends(p, k)
    BY <1>3, <1>4, <2>1 DEF Ends
  <2>4. Steps(path)[k] = Into(Steps(path)[k - 1], NameBefore(path, k))
    BY <2>2, <2>3, StepsDef
  <2>5. Steps(p)[k] = Into(Steps(p)[k - 1], NameBefore(p, k))
    BY <1>1, <2>2, <2>3, StepsDef
  <2>6. Steps(path)[k - 1] = Steps(p)[k - 1] /\ NameBefore(path, k) = NameBefore(p, k)
    BY <1>5, <1>6, <2>2
  <2> QED BY <2>1, <2>4, <2>5, <2>6 DEF Walk
<1> DEFINE T == {i \in Nat : i <= n => Steps(path)[l + 1 + i] = Walk(p)}
<1>8. 0 \in T
  <2>1. l + 1 + 0 = l + 1
    BY <1>1
  <2> QED BY <1>7, <2>1
<1>9. ASSUME NEW i \in Nat, i \in T PROVE i + 1 \in T
  <2> SUFFICES ASSUME i + 1 <= n PROVE Steps(path)[l + 1 + (i + 1)] = Walk(p)
    OBVIOUS
  <2>1. PICK k : k = l + 1 + (i + 1)
    OBVIOUS
  <2>2. /\ k \in 0 .. Len(path) + 1 /\ k # 0 /\ k - 1 = l + 1 + i /\ k # Len(path) + 1
        /\ i + 1 \in 1 .. n /\ Len(path) \in Nat
    BY <1>1, <1>3, <2>1
  <2>3. path[k] \notin Separators
    BY <1>3, <2>1, <2>2
  <2>4. ~Ends(path, k)
    BY <2>2, <2>3 DEF Ends
  <2>5. Steps(path)[k] = Steps(path)[k - 1]
    BY <2>2, <2>4, StepsDef
  <2>6. Steps(path)[l + 1 + i] = Walk(p)
    BY <1>1, <1>9
  <2> QED BY <2>1, <2>2, <2>5, <2>6
<1>10. Steps(path)[l + 1 + n] = Walk(p)
  <2>1. n \in T
    <3> HIDE DEF T
    <3> QED BY <1>1, <1>8, <1>9, SetInduction
  <2> QED BY <1>1, <2>1
<1>11. NameBefore(path, Len(path) + 1) = name
  <2>1. PICK m, k : m = l + 1 /\ k = n + 1
    OBVIOUS
  <2>2. /\ m \in Nat /\ m + Len(name) <= Len(path) /\ k \in 1 .. Len(name) + 1
        /\ Len(path) + 1 = m + k /\ m # 0
    BY <1>1, <1>3, <2>1
  <2>3. path[m] \in Separators /\ \A i \in 1 .. Len(name) : path[m + i] = name[i]
    BY <1>3, <1>4, <2>1
  <2>4. NameBefore(path, m + k) = NameBefore(name, k)
    <3>1. PartAt(path, m, name)
      BY <2>2, <2>3 DEF PartAt
    <3>2. \A i \in 1 .. Len(name) + 1 : NameBefore(path, m + i) = NameBefore(name, i)
      BY <1>3, <3>1, NameShift
    <3> QED BY <2>2, <3>2
  <2>5. NameBefore(name, k) = name
    <3>1. 1 \in 1 .. k /\ \A i \in 1 .. k - 1 : name[i] \notin Separators
      BY <1>1, <2>1
    <3>2. NameFrom(name, k) = 1
      BY <2>2, <3>1, NameUnique
    <3>3. NameBefore(name, k) = SubSeq(name, 1, Len(name))
      BY <1>1, <2>1, <3>2 DEF NameBefore
    <3> QED BY <3>3, SubSeqFull
  <2> QED BY <2>2, <2>4, <2>5
<1>12. PICK K : K = Len(path) + 1
  OBVIOUS
<1>13. K \in 0 .. Len(path) + 1 /\ K # 0 /\ K - 1 = l + 1 + n /\ Len(path) \in Nat
  BY <1>1, <1>3, <1>12
<1>14. Steps(path)[K] = Into(Steps(path)[K - 1], NameBefore(path, K))
  <2>1. Ends(path, K)
    BY <1>12 DEF Ends
  <2> QED BY <1>13, <2>1, StepsDef
<1> QED BY <1>10, <1>11, <1>12, <1>13, <1>14 DEF Walk, path, q
-----------------------------------------------------------------------------
(* What a text decodes to.                                                 *)
LEMMA DecodeDef ==
  ASSUME NEW s, Len(s) \in Nat
  PROVE  \A i \in 1 .. Len(s) + 1 : DecodeFrom(s)[i] =
           IF i > Len(s) THEN <<>>
           ELSE IF s[i] = Percent /\ i + 2 <= Len(s)
                  THEN <<16 * HexVal(s[i + 1]) + HexVal(s[i + 2])>> \o DecodeFrom(s)[i + 3]
                  ELSE <<IF s[i] = Plus THEN SP ELSE s[i]>> \o DecodeFrom(s)[i + 1]
<1> DEFINE n == Len(s)
           Def(f, i) == IF i > n THEN <<>>
                        ELSE IF s[i] = Percent /\ i + 2 <= n
                          THEN <<16 * HexVal(s[i + 1]) + HexVal(s[i + 2])>> \o f[i + 3]
                          ELSE <<IF s[i] = Plus THEN SP ELSE s[i]>> \o f[i + 1]
           T == {m \in Nat : \E f : f = [i \in n + 1 - m .. n + 1 |-> Def(f, i)]}
           c == CHOOSE f : f = [i \in 1 .. n + 1 |-> Def(f, i)]
<1>1. \A f, g, i : i > n \/ (f[i + 1] = g[i + 1] /\ (i + 2 <= n => f[i + 3] = g[i + 3]))
                   => Def(f, i) = Def(g, i)
  OBVIOUS
<1>2. DecodeFrom(s) = c
  BY DEF DecodeFrom
<1>3. SUFFICES c = [i \in 1 .. n + 1 |-> Def(c, i)]
  <2> HIDE DEF c
  <2>1. \A i \in 1 .. n + 1 : c[i] = Def(c, i)
    OBVIOUS
  <2> QED BY <1>2, <2>1
<1>4. SUFFICES \E f : f = [i \in 1 .. n + 1 |-> Def(f, i)]
  OBVIOUS
<1>5. n \in Nat
  OBVIOUS
<1> HIDE DEF Def, c, n
<1>6. 0 \in T
  <2> DEFINE f == [i \in n + 1 - 0 .. n + 1 |-> Def(<<>>, i)]
  <2>1. \A i \in n + 1 - 0 .. n + 1 : i > n
    BY <1>5
  <2>2. f = [i \in n + 1 - 0 .. n + 1 |-> Def(f, i)]
    BY <1>1, <2>1
  <2> QED BY <2>2
<1>7. ASSUME NEW m \in Nat, m \in T PROVE m + 1 \in T
  <2>1. PICK f : f = [i \in n + 1 - m .. n + 1 |-> Def(f, i)]
    BY <1>7
  <2> DEFINE g == [i \in n + 1 - (m + 1) .. n + 1 |-> Def(f, i)]
  <2>2. ASSUME NEW i \in n + 1 - (m + 1) .. n + 1 PROVE Def(f, i) = Def(g, i)
    <3>1. ASSUME NEW j \in i + 1 .. n + 1 PROVE f[j] = g[j]
      <4>1. j \in n + 1 - m .. n + 1 /\ j \in n + 1 - (m + 1) .. n + 1
        BY <1>5
      <4>2. f[j] = Def(f, j) /\ g[j] = Def(f, j)
        BY <2>1, <4>1
      <4> QED BY <4>2
    <3>2. i <= n => i + 1 \in i + 1 .. n + 1
      BY <1>5
    <3>3. i + 2 <= n => i + 3 \in i + 1 .. n + 1
      BY <1>5
    <3>4. i > n \/ i <= n
      BY <1>5
    <3> HIDE DEF g
    <3> QED BY <1>1, <3>1, <3>2, <3>3, <3>4
  <2>3. g = [i \in n + 1 - (m + 1) .. n + 1 |-> Def(g, i)]
    BY <2>2
  <2>4. m + 1 \in Nat
    OBVIOUS
  <2> HIDE DEF g
  <2>5. \E h : h = [i \in n + 1 - (m + 1) .. n + 1 |-> Def(h, i)]
    BY <2>3
  <2> QED BY <2>4, <2>5
<1>8. \A m \in Nat : m \in T
  <2> HIDE DEF T
  <2> QED BY <1>6, <1>7, SetInduction
<1>9. n \in T
  BY <1>5, <1>8
<1>10. n + 1 - n = 1
  BY <1>5
<1> QED BY <1>9, <1>10

LEMMA HexTyped == \A c : HexVal(c) \in Int
<1>1. ASSUME NEW c PROVE HexVal(c) \in Int
  <2>1. CASE c \in Digits
    BY <2>1 DEF HexVal, Digits
  <2>2. CASE c \notin Digits /\ c \in UpperHex
    BY <2>2 DEF HexVal, UpperHex
  <2>3. CASE c \notin Digits /\ c \notin UpperHex /\ c \in LowerHex
    BY <2>3 DEF HexVal, LowerHex
  <2>4. CASE c \notin Digits /\ c \notin UpperHex /\ c \notin LowerHex
    BY <2>4 DEF HexVal
  <2> QED BY <2>1, <2>2, <2>3, <2>4
<1> QED BY <1>1

LEMMA DecodeEach ==
  ASSUME NEW S, NEW s \in Seq(S)
  PROVE  \A i \in 1 .. Len(s) + 1 : DecodeFrom(s)[i] \in Seq(S \cup Int)
<1> DEFINE R == S \cup Int
           T == {m \in Nat : \A i \in 1 .. Len(s) + 1 :
                               i >= Len(s) + 1 - m => DecodeFrom(s)[i] \in Seq(R)}
<1>1. Len(s) \in Nat
  BY LenProperties
<1>2. \A i \in 1 .. Len(s) : s[i] \in S
  BY ElementOfSeq
<1>3. \A c : HexVal(c) \in Int
  BY HexTyped
<1>4. \A r \in R : <<r>> \in Seq(R)
  OBVIOUS
<1>5. \A c : 16 * HexVal(c) \in Int
  BY <1>3
<1>6. 0 \in T
  <2>1. \A i \in 1 .. Len(s) + 1 : i >= Len(s) + 1 - 0 => i > Len(s)
    BY <1>1
  <2>2. \A i \in 1 .. Len(s) + 1 : i > Len(s) => DecodeFrom(s)[i] = <<>>
    BY <1>1, DecodeDef
  <2>3. <<>> \in Seq(R)
    BY EmptySeq
  <2> QED BY <2>1, <2>2, <2>3
<1>7. ASSUME NEW m \in Nat, m \in T PROVE m + 1 \in T
  <2> SUFFICES ASSUME NEW i \in 1 .. Len(s) + 1, i >= Len(s) + 1 - (m + 1)
               PROVE  DecodeFrom(s)[i] \in Seq(R)
    OBVIOUS
  <2>1. CASE i >= Len(s) + 1 - m
    BY <1>7, <2>1
  <2>2. CASE i < Len(s) + 1 - m
    <3>1. i \in 1 .. Len(s) /\ ~(i > Len(s)) /\ i + 1 \in 1 .. Len(s) + 1
      BY <1>1, <2>2
    <3>2. i + 1 >= Len(s) + 1 - m /\ i + 3 >= Len(s) + 1 - m
      BY <1>1
    <3>3. DecodeFrom(s)[i + 1] \in Seq(R)
      BY <1>7, <3>1, <3>2
    <3>4. CASE s[i] = Percent /\ i + 2 <= Len(s)
      <4> DEFINE h == 16 * HexVal(s[i + 1]) + HexVal(s[i + 2])
      <4>1. i + 3 \in 1 .. Len(s) + 1
        BY <1>1, <3>4
      <4>2. DecodeFrom(s)[i + 3] \in Seq(R)
        BY <1>7, <3>2, <4>1
      <4>3. h \in Int
        BY <1>3, <1>5
      <4>4. DecodeFrom(s)[i] = <<h>> \o DecodeFrom(s)[i + 3]
        BY <1>1, <3>1, <3>4, DecodeDef
      <4> HIDE DEF h
      <4>5. <<h>> \in Seq(R)
        BY <1>4, <4>3
      <4> QED BY <4>2, <4>4, <4>5, ConcatProperties
    <3>5. CASE ~(s[i] = Percent /\ i + 2 <= Len(s))
      <4> DEFINE h == IF s[i] = Plus THEN SP ELSE s[i]
      <4>1. DecodeFrom(s)[i] = <<h>> \o DecodeFrom(s)[i + 1]
        BY <1>1, <3>1, <3>5, DecodeDef
      <4>2. h \in R
        BY <1>2, <3>1 DEF SP
      <4> HIDE DEF h
      <4>3. <<h>> \in Seq(R)
        BY <1>4, <4>2
      <4> QED BY <3>3, <4>1, <4>3, ConcatProperties
    <3> QED BY <3>4, <3>5
  <2>3. i >= Len(s) + 1 - m \/ i < Len(s) + 1 - m
    BY <1>1
  <2> QED BY <2>1, <2>2, <2>3
<1>8. \A m \in Nat : m \in T
  <2> HIDE DEF T
  <2> QED BY <1>6, <1>7, SetInduction
<1>9. ASSUME NEW i \in 1 .. Len(s) + 1 PROVE DecodeFrom(s)[i] \in Seq(R)
  <2>1. i >= Len(s) + 1 - Len(s)
    BY <1>1
  <2>2. Len(s) \in T
    BY <1>1, <1>8
  <2> QED BY <2>1, <2>2
<1> QED BY <1>9

LEMMA DecodeTyped ==
  ASSUME NEW S, NEW s \in Seq(S)
  PROVE  UrlDecode(s) \in Seq(S \cup Int)
<1>1. 1 \in 1 .. Len(s) + 1
  BY LenProperties
<1> QED BY <1>1, DecodeEach DEF UrlDecode

(* What follows a text does not depend on what is before it.               *)
LEMMA DecodeShift ==
  ASSUME NEW s \in Seq(Nat), NEW t \in Seq(Nat)
  PROVE  \A i \in 1 .. Len(t) + 1 : DecodeFrom(s \o t)[Len(s) + i] = DecodeFrom(t)[i]
<1> DEFINE w == s \o t
           T == {m \in Nat : \A i \in 1 .. Len(t) + 1 : i >= Len(t) + 1 - m =>
                               DecodeFrom(w)[Len(s) + i] = DecodeFrom(t)[i]}
<1>1. Len(s) \in Nat /\ Len(t) \in Nat
  BY LenProperties
<1>2. Len(w) = Len(s) + Len(t)
  BY ConcatProperties
<1>3. ASSUME NEW i \in 1 .. Len(t) PROVE w[Len(s) + i] = t[i]
  <2>1. Len(s) + i \in 1 .. Len(s) + Len(t) /\ ~(Len(s) + i <= Len(s)) /\ Len(s) + i - Len(s) = i
    BY <1>1
  <2> QED BY <2>1, ConcatProperties
<1> HIDE DEF w
<1>4. 0 \in T
  <2>1. ASSUME NEW i \in 1 .. Len(t) + 1, i >= Len(t) + 1 - 0
        PROVE  DecodeFrom(w)[Len(s) + i] = DecodeFrom(t)[i]
    <3>1. i > Len(t) /\ Len(s) + i > Len(w) /\ Len(s) + i \in 1 .. Len(w) + 1
      BY <1>1, <1>2, <2>1
    <3>2. Len(w) \in Nat
      BY <1>1, <1>2
    <3>3. DecodeFrom(t)[i] = <<>>
      BY <1>1, <3>1, DecodeDef
    <3>4. DecodeFrom(w)[Len(s) + i] = <<>>
      BY <3>1, <3>2, DecodeDef
    <3> QED BY <3>3, <3>4
  <2> QED BY <2>1
<1>5. ASSUME NEW m \in Nat, m \in T PROVE m + 1 \in T
  <2> SUFFICES ASSUME NEW i \in 1 .. Len(t) + 1, i >= Len(t) + 1 - (m + 1)
               PROVE  DecodeFrom(w)[Len(s) + i] = DecodeFrom(t)[i]
    OBVIOUS
  <2>1. CASE i >= Len(t) + 1 - m
    BY <1>5, <2>1
  <2>2. CASE i < Len(t) + 1 - m
    <3> DEFINE j == Len(s) + i
    <3>1. i \in 1 .. Len(t) /\ ~(i > Len(t)) /\ i + 1 \in 1 .. Len(t) + 1
      BY <1>1, <2>2
    <3>2. i + 1 >= Len(t) + 1 - m /\ i + 3 >= Len(t) + 1 - m
      BY <1>1
    <3>3. /\ j \in 1 .. Len(w) + 1 /\ ~(j > Len(w)) /\ (j + 2 <= Len(w) <=> i + 2 <= Len(t))
          /\ j + 1 = Len(s) + (i + 1) /\ j + 2 = Len(s) + (i + 2) /\ j + 3 = Len(s) + (i + 3)
          /\ Len(w) \in Nat
      BY <1>1, <1>2, <3>1
    <3>4. w[j] = t[i] /\ (i + 2 <= Len(t) => w[j + 1] = t[i + 1] /\ w[j + 2] = t[i + 2])
      <4>1. w[j] = t[i]
        BY <1>3, <3>1
      <4>2. ASSUME i + 2 <= Len(t) PROVE w[j + 1] = t[i + 1] /\ w[j + 2] = t[i + 2]
        <5>1. i + 1 \in 1 .. Len(t) /\ i + 2 \in 1 .. Len(t)
          BY <1>1, <3>1, <4>2
        <5> QED BY <1>3, <3>3, <5>1
      <4> QED BY <4>1, <4>2
    <3>5. DecodeFrom(w)[j + 1] = DecodeFrom(t)[i + 1]
      BY <1>5, <3>1, <3>2, <3>3
    <3>6. i + 2 <= Len(t) => DecodeFrom(w)[j + 3] = DecodeFrom(t)[i + 3]
      <4>1. i + 2 <= Len(t) => i + 3 \in 1 .. Len(t) + 1
        BY <1>1, <3>1
      <4> QED BY <1>5, <3>2, <3>3, <4>1
    <3> HIDE DEF j
    <3>7. DecodeFrom(t)[i] = IF t[i] = Percent /\ i + 2 <= Len(t)
                  THEN <<16 * HexVal(t[i + 1]) + HexVal(t[i + 2])>> \o DecodeFrom(t)[i + 3]
                  ELSE <<IF t[i] = Plus THEN SP ELSE t[i]>> \o DecodeFrom(t)[i + 1]
      BY <1>1, <3>1, DecodeDef
    <3>8. DecodeFrom(w)[j] = IF w[j] = Percent /\ j + 2 <= Len(w)
                  THEN <<16 * HexVal(w[j + 1]) + HexVal(w[j + 2])>> \o DecodeFrom(w)[j + 3]
                  ELSE <<IF w[j] = Plus THEN SP ELSE w[j]>> \o DecodeFrom(w)[j + 1]
      BY <3>3, DecodeDef
    <3>9. DecodeFrom(w)[j] = DecodeFrom(t)[i]
      <4>1. CASE t[i] = Percent /\ i + 2 <= Len(t)
        <5>1. /\ w[j] = Percent /\ j + 2 <= Len(w)
              /\ w[j + 1] = t[i + 1] /\ w[j + 2] = t[i + 2]
              /\ DecodeFrom(w)[j + 3] = DecodeFrom(t)[i + 3]
          BY <3>3, <3>4, <3>6, <4>1
        <5>2. DecodeFrom(w)[j] =
                <<16 * HexVal(w[j + 1]) + HexVal(w[j + 2])>> \o DecodeFrom(w)[j + 3]
          BY <3>8, <5>1
        <5>3. DecodeFrom(t)[i] =
                <<16 * HexVal(t[i + 1]) + HexVal(t[i + 2])>> \o DecodeFrom(t)[i + 3]
          BY <3>7, <4>1
        <5> QED BY <5>1, <5>2, <5>3
      <4>2. CASE ~(t[i] = Percent /\ i + 2 <= Len(t))
        BY <3>3, <3>4, <3>5, <3>7, <3>8, <4>2
      <4> QED BY <4>1, <4>2
    <3> QED BY <3>9 DEF j
  <2>3. i >= Len(t) + 1 - m \/ i < Len(t) + 1 - m
    BY <1>1
  <2> QED BY <2>1, <2>2, <2>3
<1>6. \A m \in Nat : m \in T
  <2> HIDE DEF T
  <2> QED BY <1>4, <1>5, SetInduction
<1>7. ASSUME NEW i \in 1 .. Len(t) + 1 PROVE DecodeFrom(w)[Len(s) + i] = DecodeFrom(t)[i]
  <2>1. i >= Len(t) + 1 - Len(t)
    BY <1>1
  <2>2. Len(t) \in T
    <3> HIDE DEF T
    <3> QED BY <1>1, <1>6
  <2> QED BY <2>1, <2>2
<1> QED BY <1>7 DEF w

(* One character, as it is or escaped.                                     *)
LEMMA DecodePlain ==
  ASSUME NEW c \in Nat, c \notin {Percent, Plus}, NEW u \in Seq(Nat)
  PROVE  UrlDecode(<<c>> \o u) = <<c>> \o UrlDecode(u)
<1> DEFINE s == <<c>>
           w == s \o u
<1>1. s \in Seq(Nat) /\ Len(s) = 1 /\ s[1] = c
  OBVIOUS
<1> HIDE DEF s
<1>2. Len(u) \in Nat
  BY LenProperties
<1>3. Len(w) = 1 + Len(u) /\ w[1] = c
  <2>1. /\ Len(w) = Len(s) + Len(u)
        /\ \A i \in 1 .. Len(s) + Len(u) : w[i] = IF i <= Len(s) THEN s[i] ELSE u[i - Len(s)]
    BY <1>1, ConcatProperties
  <2> HIDE DEF w
  <2>2. 1 \in 1 .. Len(s) + Len(u) /\ 1 <= Len(s)
    BY <1>1, <1>2
  <2> QED BY <1>1, <2>1, <2>2
<1>4. DecodeFrom(w)[1 + 1] = DecodeFrom(u)[1]
  <2>1. 1 \in 1 .. Len(u) + 1
    BY <1>2
  <2> QED BY <1>1, <2>1, DecodeShift
<1> HIDE DEF w
<1>5. Len(w) \in Nat /\ 1 \in 1 .. Len(w) + 1 /\ ~(1 > Len(w))
  BY <1>2, <1>3
<1>6. DecodeFrom(w)[1] = <<IF w[1] = Plus THEN SP ELSE w[1]>> \o DecodeFrom(w)[1 + 1]
  BY <1>3, <1>5, DecodeDef
<1> QED BY <1>3, <1>4, <1>6 DEF UrlDecode, s, w

LEMMA HexFacts ==
  ASSUME NEW c \in 0 .. 255
  PROVE  /\ HexDigit(c \div 16) \in Nat /\ HexDigit(c % 16) \in Nat
         /\ 16 * HexVal(HexDigit(c \div 16)) + HexVal(HexDigit(c % 16)) = c
<1>1. ASSUME NEW d \in 0 .. 15 PROVE HexDigit(d) \in Nat /\ HexVal(HexDigit(d)) = d
  <2>1. CASE d < 10
    <3>1. PICK x : x = HexDigit(d)
      OBVIOUS
    <3>2. x = 48 + d /\ x \in Digits /\ x \notin UpperHex /\ x \notin LowerHex
      BY <2>1, <3>1 DEF HexDigit, Digits, UpperHex, LowerHex
    <3>3. HexVal(x) = x - 48
      BY <3>2 DEF HexVal
    <3> QED BY <3>1, <3>2, <3>3
  <2>2. CASE ~(d < 10)
    <3>1. PICK x : x = HexDigit(d)
      OBVIOUS
    <3>2. x = 55 + d /\ x \notin Digits /\ x \in UpperHex /\ x \notin LowerHex
      BY <2>2, <3>1 DEF HexDigit, Digits, UpperHex, LowerHex
    <3>3. HexVal(x) = x - 55
      BY <3>2 DEF HexVal
    <3> QED BY <3>1, <3>2, <3>3
  <2> QED BY <2>1, <2>2
<1>2. c \div 16 \in 0 .. 15 /\ c % 16 \in 0 .. 15
  OBVIOUS
<1>3. c = 16 * (c \div 16) + (c % 16)
  OBVIOUS
<1> QED BY <1>1, <1>2, <1>3

LEMMA DecodeEscaped ==
  ASSUME NEW c \in 0 .. 255, NEW u \in Seq(Nat)
  PROVE  Escaped(c) \in Seq(Nat) /\ UrlDecode(Escaped(c) \o u) = <<c>> \o UrlDecode(u)
<1> DEFINE s == Escaped(c)
           w == s \o u
           h == HexDigit(c \div 16)
           l == HexDigit(c % 16)
<1>1. h \in Nat /\ l \in Nat /\ 16 * HexVal(h) + HexVal(l) = c
  BY HexFacts
<1>2. s = <<Percent, h, l>>
  BY DEF Escaped
<1> HIDE DEF s, h, l
<1>3. s \in Seq(Nat) /\ Len(s) = 3 /\ s[1] = Percent /\ s[2] = h /\ s[3] = l
  <2>1. Percent \in Nat
    BY DEF Percent
  <2> QED BY <1>1, <1>2, <2>1
<1>4. Len(u) \in Nat
  BY LenProperties
<1>5. Len(w) = 3 + Len(u) /\ w[1] = Percent /\ w[1 + 1] = h /\ w[1 + 2] = l
  <2>1. /\ Len(w) = Len(s) + Len(u)
        /\ \A i \in 1 .. Len(s) + Len(u) : w[i] = IF i <= Len(s) THEN s[i] ELSE u[i - Len(s)]
    BY <1>3, ConcatProperties
  <2> HIDE DEF w
  <2>2. \A i \in 1 .. 3 : i \in 1 .. Len(s) + Len(u) /\ i <= Len(s)
    BY <1>3, <1>4
  <2>3. \A i \in 1 .. 3 : w[i] = s[i]
    BY <2>1, <2>2
  <2> QED BY <1>3, <2>1, <2>3
<1>6. DecodeFrom(w)[1 + 3] = DecodeFrom(u)[1]
  <2>1. 1 \in 1 .. Len(u) + 1
    BY <1>4
  <2>2. DecodeFrom(w)[Len(s) + 1] = DecodeFrom(u)[1]
    BY <1>3, <2>1, DecodeShift
  <2> HIDE DEF w
  <2> QED BY <1>3, <2>2
<1> HIDE DEF w
<1>7. Len(w) \in Nat /\ 1 \in 1 .. Len(w) + 1 /\ ~(1 > Len(w)) /\ 1 + 2 <= Len(w)
  BY <1>4, <1>5
<1>8. DecodeFrom(w)[1] = <<16 * HexVal(w[1 + 1]) + HexVal(w[1 + 2])>> \o DecodeFrom(w)[1 + 3]
  BY <1>5, <1>7, DecodeDef
<1> QED BY <1>1, <1>3, <1>5, <1>6, <1>8 DEF UrlDecode, s, w

(* What decodes to a text, whatever follows.                               *)
Encodes(s, t) == /\ s \in Seq(Nat) /\ t \in Seq(Nat)
                 /\ \A u \in Seq(Nat) : UrlDecode(s \o u) = t \o UrlDecode(u)

LEMMA DecodeNat ==
  ASSUME NEW u \in Seq(Nat)
  PROVE  UrlDecode(u) \in Seq(Int)
<1>1. UrlDecode(u) \in Seq(Nat \cup Int)
  BY DecodeTyped
<1>2. Nat \cup Int = Int
  OBVIOUS
<1> QED BY <1>1, <1>2

LEMMA EncodesConcat ==
  ASSUME NEW s, NEW t, NEW v, NEW w, Encodes(s, t), Encodes(v, w)
  PROVE  Encodes(s \o v, t \o w)
<1>0. /\ \A u \in Seq(Nat) : UrlDecode(s \o u) = t \o UrlDecode(u)
      /\ \A u \in Seq(Nat) : UrlDecode(v \o u) = w \o UrlDecode(u)
  BY DEF Encodes
<1>1. s \in Seq(Nat) /\ t \in Seq(Nat) /\ v \in Seq(Nat) /\ w \in Seq(Nat)
  BY DEF Encodes
<1>2. s \o v \in Seq(Nat) /\ t \o w \in Seq(Nat)
  BY <1>1, ConcatProperties
<1>3. ASSUME NEW u \in Seq(Nat) PROVE UrlDecode((s \o v) \o u) = (t \o w) \o UrlDecode(u)
  <2>1. (s \o v) \o u = s \o (v \o u)
    <3>1. Nat \subseteq Int
      OBVIOUS
    <3>2. s \in Seq(Int) /\ v \in Seq(Int) /\ u \in Seq(Int)
      BY <1>1, <3>1, SeqMonotonic
    <3> QED BY <3>2, Regroup
  <2>2. v \o u \in Seq(Nat)
    BY <1>1, ConcatProperties
  <2>3. UrlDecode(s \o (v \o u)) = t \o (w \o UrlDecode(u))
    BY <1>0, <2>2
  <2>4. t \in Seq(Int) /\ w \in Seq(Int) /\ UrlDecode(u) \in Seq(Int)
    <3>1. Nat \subseteq Int
      OBVIOUS
    <3> QED BY <1>1, <3>1, DecodeNat, SeqMonotonic
  <2>5. t \o (w \o UrlDecode(u)) = (t \o w) \o UrlDecode(u)
    BY <2>4, Regroup
  <2> QED BY <2>1, <2>3, <2>5
<1> QED BY <1>2, <1>3 DEF Encodes

LEMMA EncodesNothing == Encodes(<<>>, <<>>)
<1>1. <<>> \in Seq(Nat)
  BY EmptySeq
<1>2. ASSUME NEW u \in Seq(Nat) PROVE UrlDecode(<<>> \o u) = <<>> \o UrlDecode(u)
  <2>1. <<>> \o u = u
    BY ConcatEmptySeq
  <2>2. <<>> \o UrlDecode(u) = UrlDecode(u)
    BY DecodeNat, ConcatEmptySeq
  <2> QED BY <2>1, <2>2
<1> QED BY <1>1, <1>2 DEF Encodes

LEMMA EncodesPlain ==
  ASSUME NEW c \in Nat, c \notin {Percent, Plus}
  PROVE  Encodes(<<c>>, <<c>>)
<1>1. <<c>> \in Seq(Nat)
  OBVIOUS
<1> QED BY <1>1, DecodePlain DEF Encodes

LEMMA EncodesEscaped ==
  ASSUME NEW c \in 0 .. 255
  PROVE  Encodes(Escaped(c), <<c>>)
<1>1. <<c>> \in Seq(Nat)
  OBVIOUS
<1>2. Escaped(c) \in Seq(Nat)
  <2>1. <<>> \in Seq(Nat)
    BY EmptySeq
  <2> QED BY <2>1, DecodeEscaped
<1> QED BY <1>1, <1>2, DecodeEscaped DEF Encodes

LEMMA EncodesFlatten ==
  ASSUME NEW n \in Nat, NEW f, NEW g, \A i \in 1 .. n : Encodes(f[i], g[i])
  PROVE  Encodes(FlattenSeq([i \in 1 .. n |-> f[i]]), FlattenSeq([i \in 1 .. n |-> g[i]]))
<1> DEFINE F == [i \in 1 .. n |-> f[i]]
           G == [i \in 1 .. n |-> g[i]]
           T == {m \in Nat : m <= n => Encodes(FirstOnes(F, m), FirstOnes(G, m))}
<1>1. \A i \in 1 .. n : f[i] \in Seq(Nat) /\ g[i] \in Seq(Nat)
  BY DEF Encodes
<1>2. F \in Seq(Seq(Nat)) /\ Len(F) = n /\ G \in Seq(Seq(Nat)) /\ Len(G) = n
  BY <1>1
<1>3. \A i \in 1 .. n : Encodes(F[i], G[i])
  OBVIOUS
<1> HIDE DEF F, G
<1>4. 0 \in T
  <2>1. FirstOnes(F, 0) = <<>> /\ FirstOnes(G, 0) = <<>>
    BY <1>2, FlattenFacts
  <2> QED BY <2>1, EncodesNothing
<1>5. ASSUME NEW m \in Nat, m \in T PROVE m + 1 \in T
  <2> SUFFICES ASSUME m + 1 <= n PROVE Encodes(FirstOnes(F, m + 1), FirstOnes(G, m + 1))
    OBVIOUS
  <2>1. m \in 0 .. n - 1 /\ m + 1 \in 1 .. n
    OBVIOUS
  <2>2. FirstOnes(F, m + 1) = FirstOnes(F, m) \o F[m + 1] /\ FirstOnes(G, m + 1) = FirstOnes(G, m) \o G[m + 1]
    BY <1>2, <2>1, FlattenFacts
  <2>3. Encodes(FirstOnes(F, m), FirstOnes(G, m)) /\ Encodes(F[m + 1], G[m + 1])
    BY <1>3, <1>5, <2>1
  <2> QED BY <2>2, <2>3, EncodesConcat
<1>6. n \in T
  <2> HIDE DEF T
  <2> QED BY <1>4, <1>5, SetInduction
<1>7. FlattenSeq(F) = FirstOnes(F, n) /\ FlattenSeq(G) = FirstOnes(G, n)
  BY <1>2, FlattenFacts
<1> QED BY <1>6, <1>7 DEF F, G

LEMMA EncodesName ==
  ASSUME NEW name \in Seq(NameChars)
  PROVE  Encodes(EncodeName(name), name)
<1> DEFINE n == Len(name)
           f == [i \in 1 .. n |-> IF name[i] \in Unreserved THEN <<name[i]>> ELSE Escaped(name[i])]
           g == [i \in 1 .. n |-> <<name[i]>>]
<1>1. n \in Nat
  BY LenProperties
<1>2. ASSUME NEW c \in NameChars PROVE c \in 0 .. 255 /\ c \in Nat
  BY DEF NameChars
<1>3. ASSUME NEW c \in Unreserved PROVE c \in Nat /\ c \notin {Percent, Plus}
  BY DEF Unreserved, Digits, Dot, Percent, Plus
<1>4. ASSUME NEW i \in 1 .. n PROVE Encodes(f[i], g[i])
  <2>1. PICK c : c = name[i]
    OBVIOUS
  <2>2. c \in NameChars
    BY <2>1, ElementOfSeq
  <2>3. f[i] = (IF c \in Unreserved THEN <<c>> ELSE Escaped(c)) /\ g[i] = <<c>>
    BY <2>1
  <2> HIDE DEF f, g
  <2>4. CASE c \in Unreserved
    BY <1>3, <2>3, <2>4, EncodesPlain
  <2>5. CASE c \notin Unreserved
    BY <1>2, <2>2, <2>3, <2>5, EncodesEscaped
  <2> QED BY <2>4, <2>5
<1>5. EncodeName(name) = FlattenSeq([i \in 1 .. n |-> f[i]])
  BY DEF EncodeName
<1>6. name = FlattenSeq([i \in 1 .. n |-> g[i]])
  <2>1. g = [i \in 1 .. n |-> g[i]]
    OBVIOUS
  <2>2. name = FlattenSeq(g)
    BY FlattenSingles
  <2> HIDE DEF g
  <2> QED BY <2>1, <2>2
<1> HIDE DEF n, f, g
<1> QED BY <1>1, <1>4, <1>5, <1>6, EncodesFlatten

(* The path of a node below the root.                                      *)
PathOf(node) == FlattenSeq([i \in 1 .. Len(node) |-> <<Slash>> \o node[i]])

LEMMA EncodesPath ==
  ASSUME NEW node \in Seq(Seq(NameChars))
  PROVE  Encodes(EncodePath(node), PathOf(node))
<1> DEFINE n == Len(node)
           f == [i \in 1 .. n |-> <<Slash>> \o EncodeName(node[i])]
           g == [i \in 1 .. n |-> <<Slash>> \o node[i]]
<1>1. n \in Nat
  BY LenProperties
<1>2. Encodes(<<Slash>>, <<Slash>>)
  <2>1. Slash \in Nat /\ Slash \notin {Percent, Plus}
    BY DEF Slash, Percent, Plus
  <2> QED BY <2>1, EncodesPlain
<1>3. ASSUME NEW i \in 1 .. n PROVE Encodes(f[i], g[i])
  <2>1. Encodes(EncodeName(node[i]), node[i])
    BY ElementOfSeq, EncodesName
  <2> QED BY <1>2, <2>1, EncodesConcat
<1>4. EncodePath(node) = FlattenSeq([i \in 1 .. n |-> f[i]])
  BY DEF EncodePath
<1>5. PathOf(node) = FlattenSeq([i \in 1 .. n |-> g[i]])
  BY DEF PathOf
<1> HIDE DEF n, f, g
<1> QED BY <1>1, <1>3, <1>4, <1>5, EncodesFlatten
-----------------------------------------------------------------------------
(* Nothing that is_safe_path accepts leaves the document root, whatever    *)
(* separators and escapes it was written with: it has no two dots in a     *)
(* row, and so no component that goes up.                                  *)
NoDots(path) == \A i \in 1 .. Len(path) - 1 : ~(path[i] = Dot /\ path[i + 1] = Dot)

THEOREM SafeWalk ==
  ASSUME NEW S, NEW path \in Seq(S), NoDots(path)
  PROVE  Walk(path) # Outside /\ Walk(path) \in Seq(Seq(S))
<1> DEFINE Inside(node) == node \in Seq(Seq(S)) /\ \A i \in 1 .. Len(node) : node[i] # <<Dot, Dot>>
           T == {k \in Nat : k \in 0 .. Len(path) + 1 => Inside(Steps(path)[k])}
<1>1. Len(path) \in Nat
  BY LenProperties
<1>2. ASSUME NEW k \in 1 .. Len(path) + 1
      PROVE  NameBefore(path, k) \in Seq(S) /\ NameBefore(path, k) # <<Dot, Dot>>
  <2> DEFINE name == NameBefore(path, k)
             from == NameFrom(path, k)
  <2>1. /\ from \in 1 .. k /\ name \in Seq(S) /\ Len(name) = k - from
        /\ \A i \in 1 .. k - from : name[i] = path[from + i - 1]
    BY NameFacts
  <2> HIDE DEF name, from
  <2>2. ASSUME name = <<Dot, Dot>> PROVE FALSE
    <3>1. Len(name) = 2 /\ name[1] = Dot /\ name[2] = Dot
      BY <2>2
    <3>2. k - from = 2
      BY <2>1, <3>1
    <3>3. /\ 1 \in 1 .. k - from /\ 2 \in 1 .. k - from
          /\ from + 1 - 1 = from /\ from + 2 - 1 = from + 1
          /\ from \in 1 .. Len(path) - 1
      BY <1>1, <2>1, <3>2
    <3>4. path[from] = Dot /\ path[from + 1] = Dot
      BY <2>1, <3>1, <3>3
    <3> QED BY <3>3, <3>4 DEF NoDots
  <2> QED BY <2>1, <2>2 DEF name
<1>3. Inside(<<>>)
  BY EmptySeq
<1>4. ASSUME NEW node, Inside(node), NEW name \in Seq(S), name # <<Dot, Dot>>
      PROVE  Inside(Into(node, name))
  <2>1. CASE name \in {<<>>, <<Dot>>}
    BY <1>4, <2>1 DEF Into
  <2>2. CASE name \notin {<<>>, <<Dot>>}
    <3>1. Into(node, name) = Append(node, name)
      BY <1>4, <2>2 DEF Into
    <3>2. /\ Append(node, name) \in Seq(Seq(S)) /\ Len(Append(node, name)) = Len(node) + 1
          /\ \A i \in 1 .. Len(node) : Append(node, name)[i] = node[i]
          /\ Append(node, name)[Len(node) + 1] = name
      BY <1>4, AppendProperties
    <3>3. Len(node) \in Nat
      BY <1>4, LenProperties
    <3>4. \A i \in 1 .. Len(node) + 1 : i \in 1 .. Len(node) \/ i = Len(node) + 1
      BY <3>3
    <3>5. \A i \in 1 .. Len(node) + 1 : Append(node, name)[i] # <<Dot, Dot>>
      BY <1>4, <3>2, <3>4
    <3> QED BY <3>1, <3>2, <3>5
  <2> QED BY <2>1, <2>2
<1> HIDE DEF Inside
<1>5. 0 \in T
  BY <1>1, <1>3, StepsDef
<1>6. ASSUME NEW k \in Nat, k \in T PROVE k + 1 \in T
  <2> SUFFICES ASSUME k + 1 \in 0 .. Len(path) + 1 PROVE Inside(Steps(path)[k + 1])
    OBVIOUS
  <2>1. k \in 0 .. Len(path) + 1 /\ k + 1 \in 1 .. Len(path) + 1 /\ k + 1 # 0 /\ k + 1 - 1 = k
    BY <1>1
  <2>2. Steps(path)[k + 1] = IF Ends(path, k + 1) THEN Into(Steps(path)[k], NameBefore(path, k + 1))
                             ELSE Steps(path)[k]
    BY <1>1, <2>1, StepsDef
  <2>3. Inside(Steps(path)[k])
    BY <1>6, <2>1
  <2>4. Inside(Into(Steps(path)[k], NameBefore(path, k + 1)))
    BY <1>2, <1>4, <2>1, <2>3
  <2> QED BY <2>2, <2>3, <2>4
<1>7. \A k \in Nat : k \in T
  <2> HIDE DEF T
  <2> QED BY <1>5, <1>6, SetInduction
<1>8. Len(path) + 1 \in Nat /\ Len(path) + 1 \in 0 .. Len(path) + 1
  BY <1>1
<1>9. Inside(Walk(path))
  BY <1>7, <1>8 DEF Walk
<1>10. ~Inside(Outside)
  <2>1. Len(Outside) = 1 /\ Outside[1] = <<Dot, Dot>>
    BY DEF Outside
  <2>2. 1 \in 1 .. Len(Outside)
    BY <2>1
  <2> QED BY <2>1, <2>2 DEF Inside
<1> QED BY <1>9, <1>10 DEF Inside

LEMMA CStringTyped ==
  ASSUME NEW S, NEW s \in Seq(S)
  PROVE  CString(s) \in Seq(S)
<1> DEFINE t == Append(s, 0)
           I == {i \in 1 .. Len(t) : t[i] = 0}
<1>1. Len(s) \in Nat
  BY LenProperties
<1>2. s \in Seq(S \cup {0})
  BY SeqMonotonic
<1>3. Len(t) = Len(s) + 1 /\ t[Len(s) + 1] = 0
  BY <1>2, AppendProperties
<1>4. Len(s) + 1 \in I /\ I \subseteq Nat
  BY <1>1, <1>3
<1>5. SelectInSeq(t, LAMBDA c : c = 0) = Min(I)
  BY <1>4 DEF SelectInSeq
<1>6. Min(I) \in I
  BY <1>4, MinFacts
<1> HIDE DEF t
<1>7. Min(I) \in 1 .. Len(s) + 1
  BY <1>3, <1>6
<1>8. CString(s) = SubSeq(s, 1, Min(I) - 1)
  BY <1>5 DEF CString, t
<1> HIDE DEF I
<1>9. \A i \in 1 .. Min(I) - 1 : s[i] \in S
  BY <1>1, <1>7, ElementOfSeq
<1>10. Min(I) - 1 \in Int
  BY <1>1, <1>7
<1> QED BY <1>8, <1>9, <1>10, SubSeqProperties

LEMMA ResolveFacts ==
  ASSUME NEW S, NEW url \in Seq(S), Resolve(url) \notin Unresolved
  PROVE  Resolve(url) \in Seq(S \cup Int) /\ NoDots(Resolve(url))
<1> DEFINE text  == CString(UrlDecode(url))
           clean == Clean(text)
           R     == S \cup Int
<1>1. text \in Seq(R)
  BY DecodeTyped, CStringTyped
<1> HIDE DEF text
<1>2. clean \in Seq(R)
  BY <1>1, HeadTailProperties DEF Clean
<1>3. Resolve(url) = IF clean = <<>> THEN Index ELSE clean
  BY DEF Resolve, Unresolved, text
<1>4. IsSafePath(clean)
  BY DEF Resolve, Unresolved, text
<1> HIDE DEF clean
<1>5. CASE clean = <<>>
  <2>1. Index \in Seq(NameChars) /\ IsSafePath(Index)
    BY TextAssumption DEF ValidName
  <2>2. NameChars \subseteq R
    <3>1. \A c \in 32 .. 255 : c \in Int
      OBVIOUS
    <3> QED BY <3>1 DEF NameChars
  <2>3. Index \in Seq(R)
    BY <2>1, <2>2, SeqMonotonic
  <2> QED BY <1>3, <1>5, <2>1, <2>3 DEF IsSafePath, NoDots
<1>6. CASE clean # <<>>
  BY <1>2, <1>3, <1>4, <1>6 DEF IsSafePath, NoDots
<1> QED BY <1>5, <1>6

(* Whatever the URL, the answer is about a node of the tree.               *)
LEMMA AnswerConfined ==
  ASSUME NEW S, NEW url \in Seq(S), NEW method,
         Answer(method, url).kind \in {"file", "listing", "redirect"}
  PROVE  Answer(method, url).node \in DOMAIN tree
<1> DEFINE path == Resolve(url)
<1>1. (\A code : Error(code).kind = "error") /\ Nowhere.kind = "overrun" /\ Unsaid.kind = "unsaid"
  BY DEF Error, Nowhere, Unsaid
<1>2. Answer(method, url) = AnswerPath(url)
  BY <1>1 DEF Answer
<1>3. path \notin Unresolved /\ ~Special(Walk(path)) /\ Exists(path)
  BY <1>1, <1>2 DEF AnswerPath, Unresolved
<1>4. Walk(path) # Outside
  BY <1>3, ResolveFacts, SafeWalk
<1>5. Walk(path) \in DOMAIN tree
  BY <1>3, <1>4 DEF Exists
<1>6. ASSUME NEW node \in DOMAIN tree
      PROVE  Opened(node).kind = "error" \/ Opened(node).node \in DOMAIN tree
  BY <1>1 DEF Opened, File
<1>7. CASE IsDir(path)
  <2>1. Answer(method, url) = AnswerDirectory(url, path)
    BY <1>2, <1>3, <1>7 DEF AnswerPath, Unresolved
  <2>2. CASE Last(url) # Slash
    <3>1. AnswerDirectory(url, path) = Redirect(Walk(path))
      BY <2>2 DEF AnswerDirectory
    <3> QED BY <1>5, <2>1, <3>1 DEF Redirect
  <2>3. CASE Last(url) = Slash /\ ~IndexPathFits(path)
    <3>1. AnswerDirectory(url, path) = Nowhere
      BY <2>3 DEF AnswerDirectory
    <3> QED BY <2>1, <3>1 DEF Nowhere
  <2>4. CASE Last(url) = Slash /\ IndexPathFits(path)
    <3> DEFINE index == Append(Walk(path), Index)
    <3>1. AnswerDirectory(url, path) = IF index \in DOMAIN tree THEN Opened(index)
                                       ELSE Listing(Walk(path))
      BY <2>4 DEF AnswerDirectory
    <3> HIDE DEF index
    <3>2. CASE index \in DOMAIN tree
      BY <1>6, <2>1, <3>1, <3>2
    <3>3. CASE index \notin DOMAIN tree
      BY <1>5, <2>1, <3>1, <3>3 DEF Listing
    <3> QED BY <3>2, <3>3
  <2> QED BY <2>2, <2>3, <2>4
<1>8. CASE ~IsDir(path)
  <2>1. Answer(method, url) = Opened(Walk(path))
    BY <1>2, <1>3, <1>8 DEF AnswerPath, Unresolved
  <2> QED BY <1>5, <1>6, <2>1
<1> QED BY <1>7, <1>8
-----------------------------------------------------------------------------
(* Where a part of a text is.                                              *)
Holds(text, k, part) == \A i \in 1 .. Len(part) : text[k + i] = part[i]

LEMMA HoldsConcat ==
  ASSUME NEW S, NEW s \in Seq(S), NEW t \in Seq(S)
  PROVE  /\ s \o t \in Seq(S) /\ Len(s \o t) = Len(s) + Len(t)
         /\ Len(s) \in Nat /\ Len(t) \in Nat
         /\ Holds(s \o t, Len(s), t)
         /\ \A part : \A k \in Nat :
              Len(part) \in Nat /\ k + Len(part) <= Len(s) =>
                (Holds(s \o t, k, part) <=> Holds(s, k, part))
<1>1. Len(s) \in Nat /\ Len(t) \in Nat
  BY LenProperties
<1>2. s \o t \in Seq(S) /\ Len(s \o t) = Len(s) + Len(t)
  BY ConcatProperties
<1>3. \A i \in 1 .. Len(s) + Len(t) :
        (s \o t)[i] = IF i <= Len(s) THEN s[i] ELSE t[i - Len(s)]
  BY ConcatProperties
<1> DEFINE c == s \o t
<1> HIDE DEF c
<1>4. \A i \in 1 .. Len(s) + Len(t) : c[i] = IF i <= Len(s) THEN s[i] ELSE t[i - Len(s)]
  BY <1>3 DEF c
<1>5. ASSUME NEW i \in 1 .. Len(t) PROVE c[Len(s) + i] = t[i]
  <2>1. /\ Len(s) + i \in 1 .. Len(s) + Len(t) /\ ~(Len(s) + i <= Len(s))
        /\ Len(s) + i - Len(s) = i
    BY <1>1
  <2> QED BY <1>4, <2>1
<1>6. ASSUME NEW k \in Nat, NEW part, Len(part) \in Nat, k + Len(part) <= Len(s),
             NEW i \in 1 .. Len(part)
      PROVE  c[k + i] = s[k + i]
  <2>1. k + i \in 1 .. Len(s) + Len(t) /\ k + i <= Len(s)
    BY <1>1, <1>6
  <2> QED BY <1>4, <2>1
<1>7. Holds(c, Len(s), t)
  BY <1>5 DEF Holds
<1>8. ASSUME NEW k \in Nat, NEW part, Len(part) \in Nat, k + Len(part) <= Len(s)
      PROVE  Holds(c, k, part) <=> Holds(s, k, part)
  BY <1>6, <1>8 DEF Holds
<1> QED BY <1>1, <1>2, <1>7, <1>8 DEF c

LEMMA HoldsAll ==
  ASSUME NEW S, NEW s \in Seq(S)
  PROVE  Holds(s, 0, s)
<1>1. \A i \in 1 .. Len(s) : 0 + i = i
  BY LenProperties
<1> QED BY <1>1 DEF Holds

LEMMA HoldsBeginning ==
  ASSUME NEW S, NEW s \in Seq(S), NEW n \in 0 .. Len(s)
  PROVE  /\ SubSeq(s, 1, n) \in Seq(S) /\ Len(SubSeq(s, 1, n)) = n
         /\ \A i \in 1 .. n : SubSeq(s, 1, n)[i] = s[i]
         /\ \A part : \A k \in Nat :
              Len(part) \in Nat /\ k + Len(part) <= n =>
                (Holds(SubSeq(s, 1, n), k, part) <=> Holds(s, k, part))
<1>1. Len(s) \in Nat /\ n \in Nat
  BY LenProperties
<1>2. \A i \in 1 .. n : s[i] \in S
  BY <1>1, ElementOfSeq
<1> DEFINE c == SubSeq(s, 1, n)
<1>3. c \in Seq(S) /\ Len(c) = n /\ \A i \in 1 .. n : c[i] = s[i]
  BY <1>1, <1>2, SubSeqProperties
<1> HIDE DEF c
<1>4. ASSUME NEW k \in Nat, NEW part, Len(part) \in Nat, k + Len(part) <= n,
             NEW i \in 1 .. Len(part)
      PROVE  c[k + i] = s[k + i]
  <2>1. k + i \in 1 .. n
    BY <1>1, <1>4
  <2> QED BY <1>3, <2>1
<1>5. ASSUME NEW k \in Nat, NEW part, Len(part) \in Nat, k + Len(part) <= n
      PROVE  Holds(c, k, part) <=> Holds(s, k, part)
  BY <1>4, <1>5 DEF Holds
<1> QED BY <1>3, <1>5 DEF c
-----------------------------------------------------------------------------
(* The requests of the clients, and what is made of them.                  *)
Requests == [method : Methods \cup {MethodNames[GET]}, url : Seq(UrlChars),
             lines : {<<>>, HeaderLine}, body : Bodies]

LEMMA MethodFacts ==
  ASSUME NEW m \in Methods \cup {MethodNames[GET]}
  PROVE  m \in Seq(UrlChars) /\ Len(m) \in Nat
<1>1. MethodNames[GET] = <<71, 69, 84>>
  BY DEF MethodNames, GET
<1>2. \A c \in 65 .. 122 : c \in UrlChars
  BY DEF UrlChars, SP, CR, LF
<1>3. m \in {<<103, 101, 116>>, <<71>>, <<80, 79, 83, 84>>, <<80, 85, 84>>, <<72, 69, 65, 68>>,
             <<71, 69, 84>>}
  BY <1>1 DEF Methods
<1>4. m \in Seq(65 .. 122)
  <2>1. <<103, 101, 116>> \in Seq(65 .. 122) /\ <<71>> \in Seq(65 .. 122)
    OBVIOUS
  <2>2. <<80, 79, 83, 84>> \in Seq(65 .. 122) /\ <<80, 85, 84>> \in Seq(65 .. 122)
    OBVIOUS
  <2>3. <<72, 69, 65, 68>> \in Seq(65 .. 122) /\ <<71, 69, 84>> \in Seq(65 .. 122)
    OBVIOUS
  <2>4. CASE m = <<103, 101, 116>> \/ m = <<71>>
    BY <2>1, <2>4
  <2>5. CASE m = <<80, 79, 83, 84>> \/ m = <<80, 85, 84>>
    BY <2>2, <2>5
  <2>6. CASE m = <<72, 69, 65, 68>> \/ m = <<71, 69, 84>>
    BY <2>3, <2>6
  <2> QED BY <1>3, <2>4, <2>5, <2>6
<1>5. m \in Seq(UrlChars)
  BY <1>2, <1>4, SeqMonotonic
<1> QED BY <1>5, LenProperties

LEMMA RequestFacts ==
  ASSUME NEW r \in Requests
  PROVE  /\ Request(r) \in Seq(Nat)
         /\ Len(r.method) \in Nat /\ Len(r.url) \in Nat /\ Len(r.lines) \in Nat
         /\ Len(r.body) \in Nat
         /\ Len(Request(r)) = Len(r.method) + Len(r.url) + 7 + Len(r.lines) + Len(r.body)
         /\ Holds(Request(r), 0, r.method)
         /\ Holds(Request(r), Len(r.method), <<SP>>)
         /\ Holds(Request(r), Len(r.method) + 1, r.url)
         /\ Holds(Request(r), Len(r.method) + Len(r.url) + 1, <<SP, 72, CR, LF>>)
         /\ Holds(Request(r), Len(r.method) + Len(r.url) + 5, r.lines)
         /\ Holds(Request(r), Len(r.method) + Len(r.url) + 5 + Len(r.lines), <<CR, LF>>)
<1> DEFINE M == Len(r.method)
           U == Len(r.url)
           L == Len(r.lines)
           a == r.method \o <<SP>>
           b == a \o r.url
           line == <<SP, 72, CR, LF>>
           c == b \o line
           d == c \o r.lines
           end == <<CR, LF>>
           e == d \o end
<1> HIDE DEF M, U, L, line, end
<1>1. r.method \in Seq(Nat) /\ r.url \in Seq(Nat) /\ r.lines \in Seq(Nat) /\ r.body \in Seq(Nat)
  <2>1. r.method \in Seq(UrlChars) /\ r.url \in Seq(UrlChars)
    BY MethodFacts DEF Requests
  <2>2. UrlChars \subseteq Nat
    BY DEF UrlChars
  <2>3. r.method \in Seq(Nat) /\ r.url \in Seq(Nat)
    BY <2>1, <2>2, SeqMonotonic
  <2>4. HeaderLine \in Seq(Nat) /\ <<>> \in Seq(Nat) /\ <<98>> \in Seq(Nat)
    BY DEF HeaderLine, CR, LF
  <2> QED BY <2>3, <2>4 DEF Requests, Bodies
<1>2. <<SP>> \in Seq(Nat) /\ Len(<<SP>>) = 1
  BY DEF SP
<1>3. line \in Seq(Nat) /\ Len(line) = 4
  BY DEF line, SP, CR, LF
<1>4. end \in Seq(Nat) /\ Len(end) = 2
  BY DEF end, CR, LF
<1>5. M \in Nat /\ U \in Nat /\ L \in Nat /\ Len(r.body) \in Nat
  BY <1>1, LenProperties DEF M, U, L
<1>0. Len(r.method) = M /\ Len(r.url) = U /\ Len(r.lines) = L
  BY DEF M, U, L
<1>6. Request(r) = e \o r.body
  BY DEF Request, line, end
<1> HIDE DEF a, b, c, d, e
<1>7. /\ a \in Seq(Nat) /\ Len(a) = M + 1
      /\ Holds(a, 0, r.method) /\ Holds(a, M, <<SP>>)
  <2>1. Holds(r.method, 0, r.method)
    BY <1>1, HoldsAll
  <2>2. 0 + M <= M
    BY <1>5
  <2> QED BY <1>1, <1>2, <1>5, <2>1, <2>2, HoldsConcat DEF a, M
<1>8. /\ b \in Seq(Nat) /\ Len(b) = M + U + 1
      /\ Holds(b, M + 1, r.url) /\ Holds(b, 0, r.method) /\ Holds(b, M, <<SP>>)
  <2>1. b \in Seq(Nat) /\ Len(b) = M + 1 + U /\ Holds(b, M + 1, r.url)
    BY <1>1, <1>7, HoldsConcat DEF b, U
  <2>2. \A part : \A k, n \in Nat : Len(part) = n /\ k + n <= M + 1 /\ Holds(a, k, part)
          => Holds(b, k, part)
    BY <1>1, <1>7, HoldsConcat DEF b
  <2>3. 0 + M <= M + 1 /\ M + 1 <= M + 1 /\ M + 1 + U = M + U + 1
    BY <1>5
  <2>4. Holds(b, 0, r.method)
    BY <1>0, <1>2, <1>3, <1>4, <1>5, <1>7, <2>2, <2>3
  <2>5. Holds(b, M, <<SP>>)
    BY <1>0, <1>2, <1>3, <1>4, <1>5, <1>7, <2>2, <2>3
  <2> QED BY <2>1, <2>3, <2>4, <2>5
<1>9. /\ c \in Seq(Nat) /\ Len(c) = M + U + 5
      /\ Holds(c, M + U + 1, line)
      /\ Holds(c, M + 1, r.url) /\ Holds(c, 0, r.method) /\ Holds(c, M, <<SP>>)
  <2>1. c \in Seq(Nat) /\ Len(c) = M + U + 1 + 4 /\ Holds(c, M + U + 1, line)
    BY <1>3, <1>8, HoldsConcat DEF c
  <2>2. \A part : \A k, n \in Nat : Len(part) = n /\ k + n <= M + U + 1 /\ Holds(b, k, part)
          => Holds(c, k, part)
    BY <1>3, <1>8, HoldsConcat DEF c
  <2>3. /\ 0 + M <= M + U + 1 /\ M + 1 <= M + U + 1 /\ M + 1 + U <= M + U + 1
        /\ M + U + 1 + 4 = M + U + 5 /\ M + 1 \in Nat
    BY <1>5
  <2>4. Holds(c, 0, r.method)
    BY <1>0, <1>2, <1>3, <1>4, <1>5, <1>8, <2>2, <2>3
  <2>5. Holds(c, M, <<SP>>)
    BY <1>0, <1>2, <1>3, <1>4, <1>5, <1>8, <2>2, <2>3
  <2>6. Holds(c, M + 1, r.url)
    BY <1>0, <1>2, <1>3, <1>4, <1>5, <1>8, <2>2, <2>3
  <2> QED BY <2>1, <2>3, <2>4, <2>5, <2>6
<1>10. /\ d \in Seq(Nat) /\ Len(d) = M + U + 5 + L
       /\ Holds(d, M + U + 5, r.lines) /\ Holds(d, M + U + 1, line)
       /\ Holds(d, M + 1, r.url) /\ Holds(d, 0, r.method) /\ Holds(d, M, <<SP>>)
  <2>1. d \in Seq(Nat) /\ Len(d) = M + U + 5 + L /\ Holds(d, M + U + 5, r.lines)
    BY <1>1, <1>9, HoldsConcat DEF d, L
  <2>2. \A part : \A k, n \in Nat : Len(part) = n /\ k + n <= M + U + 5 /\ Holds(c, k, part)
          => Holds(d, k, part)
    BY <1>1, <1>9, HoldsConcat DEF d
  <2>3. /\ 0 + M <= M + U + 5 /\ M + 1 <= M + U + 5 /\ M + 1 + U <= M + U + 5
        /\ M + U + 1 + 4 <= M + U + 5 /\ M + 1 \in Nat /\ M + U + 1 \in Nat
    BY <1>5
  <2>4. Holds(d, 0, r.method)
    BY <1>0, <1>2, <1>3, <1>4, <1>5, <1>9, <2>2, <2>3
  <2>5. Holds(d, M, <<SP>>)
    BY <1>0, <1>2, <1>3, <1>4, <1>5, <1>9, <2>2, <2>3
  <2>6. Holds(d, M + 1, r.url)
    BY <1>0, <1>2, <1>3, <1>4, <1>5, <1>9, <2>2, <2>3
  <2>7. Holds(d, M + U + 1, line)
    BY <1>0, <1>2, <1>3, <1>4, <1>5, <1>9, <2>2, <2>3
  <2> QED BY <2>1, <2>4, <2>5, <2>6, <2>7
<1>11. /\ e \in Seq(Nat) /\ Len(e) = M + U + 5 + L + 2
       /\ Holds(e, M + U + 5 + L, end) /\ Holds(e, M + U + 5, r.lines)
       /\ Holds(e, M + U + 1, line)
       /\ Holds(e, M + 1, r.url) /\ Holds(e, 0, r.method) /\ Holds(e, M, <<SP>>)
  <2>1. e \in Seq(Nat) /\ Len(e) = M + U + 5 + L + 2 /\ Holds(e, M + U + 5 + L, end)
    BY <1>4, <1>10, HoldsConcat DEF e
  <2>2. \A part : \A k, n \in Nat : Len(part) = n /\ k + n <= M + U + 5 + L /\ Holds(d, k, part)
          => Holds(e, k, part)
    BY <1>4, <1>10, HoldsConcat DEF e
  <2>3. /\ 0 + M <= M + U + 5 + L /\ M + 1 <= M + U + 5 + L /\ M + 1 + U <= M + U + 5 + L
        /\ M + U + 1 + 4 <= M + U + 5 + L /\ M + U + 5 + L <= M + U + 5 + L
        /\ M + 1 \in Nat /\ M + U + 1 \in Nat /\ M + U + 5 \in Nat
    BY <1>5
  <2>4. Holds(e, 0, r.method)
    BY <1>0, <1>2, <1>3, <1>4, <1>5, <1>10, <2>2, <2>3
  <2>5. Holds(e, M, <<SP>>)
    BY <1>0, <1>2, <1>3, <1>4, <1>5, <1>10, <2>2, <2>3
  <2>6. Holds(e, M + 1, r.url)
    BY <1>0, <1>2, <1>3, <1>4, <1>5, <1>10, <2>2, <2>3
  <2>7. Holds(e, M + U + 1, line)
    BY <1>0, <1>2, <1>3, <1>4, <1>5, <1>10, <2>2, <2>3
  <2>8. Holds(e, M + U + 5, r.lines)
    BY <1>0, <1>2, <1>3, <1>4, <1>5, <1>10, <2>2, <2>3
  <2> QED BY <2>1, <2>4, <2>5, <2>6, <2>7, <2>8
<1>12. Request(r) \in Seq(Nat) /\ Len(Request(r)) = M + U + 5 + L + 2 + Len(r.body)
  BY <1>1, <1>6, <1>11, HoldsConcat
<1>13. Len(Request(r)) = M + U + 7 + L + Len(r.body)
  <2>1. \A n \in Nat : M + U + 5 + L + 2 + n = M + U + 7 + L + n
    BY <1>5
  <2> QED BY <1>5, <1>12, <2>1
<1>14. /\ Holds(Request(r), M + U + 5 + L, end) /\ Holds(Request(r), M + U + 5, r.lines)
       /\ Holds(Request(r), M + U + 1, line)
       /\ Holds(Request(r), M + 1, r.url) /\ Holds(Request(r), 0, r.method)
       /\ Holds(Request(r), M, <<SP>>)
  <2>1. \A part : \A k \in Nat : Len(part) \in Nat /\ k + Len(part) <= Len(e) =>
          (Holds(e \o r.body, k, part) <=> Holds(e, k, part))
    BY <1>1, <1>11, HoldsConcat
  <2>2. \A part : \A k, n \in Nat :
          Len(part) = n /\ k + n <= M + U + 5 + L + 2 /\ Holds(e, k, part)
             => Holds(Request(r), k, part)
    BY <1>6, <1>11, <2>1
  <2>3. /\ 0 + M <= M + U + 5 + L + 2 /\ M + 1 <= M + U + 5 + L + 2
        /\ M + 1 + U <= M + U + 5 + L + 2 /\ M + U + 1 + 4 <= M + U + 5 + L + 2
        /\ M + U + 5 + L <= M + U + 5 + L + 2 /\ M + U + 5 + L + 2 <= M + U + 5 + L + 2
        /\ M + 1 \in Nat /\ M + U + 1 \in Nat /\ M + U + 5 \in Nat /\ M + U + 5 + L \in Nat
    BY <1>5
  <2>4. Holds(Request(r), 0, r.method)
    BY <1>0, <1>2, <1>3, <1>4, <1>5, <1>11, <2>2, <2>3
  <2>5. Holds(Request(r), M, <<SP>>)
    BY <1>0, <1>2, <1>3, <1>4, <1>5, <1>11, <2>2, <2>3
  <2>6. Holds(Request(r), M + 1, r.url)
    BY <1>0, <1>2, <1>3, <1>4, <1>5, <1>11, <2>2, <2>3
  <2>7. Holds(Request(r), M + U + 1, line)
    BY <1>0, <1>2, <1>3, <1>4, <1>5, <1>11, <2>2, <2>3
  <2>8. Holds(Request(r), M + U + 5, r.lines)
    BY <1>0, <1>2, <1>3, <1>4, <1>5, <1>11, <2>2, <2>3
  <2>9. Holds(Request(r), M + U + 5 + L, end)
    BY <1>0, <1>2, <1>3, <1>4, <1>5, <1>11, <2>2, <2>3
  <2> QED BY <2>4, <2>5, <2>6, <2>7, <2>8, <2>9
<1> QED BY <1>5, <1>12, <1>13, <1>14 DEF M, U, L, line, end
-----------------------------------------------------------------------------
(* What the scans of the parser find.                                      *)
LEMMA ScanFacts ==
  ASSUME NEW text, Len(text) \in Nat, NEW from \in Nat, NEW c
  PROVE  /\ Scan(text, from, c) \in 0 .. Len(text)
         /\ \A p \in Nat \ {0} : /\ from # 0 /\ from <= p /\ p <= Len(text) /\ text[p] = c
                                 /\ \A i \in from .. p - 1 : text[i] # c
                                 => Scan(text, from, c) = p
<1> DEFINE n == Len(text)
           I == {i \in from .. n : text[i] = c}
<1>1. SelectInSubSeq(text, from, n, LAMBDA x : x = c) = IF I # {} THEN Min(I) ELSE 0
  BY DEF SelectInSubSeq
<1>2. Scan(text, from, c) = IF from = 0 \/ I = {} THEN 0 ELSE Min(I)
  BY <1>1 DEF Scan, Stray
<1>3. n \in Nat
  OBVIOUS
<1> HIDE DEF n
<1>4. I \subseteq Nat /\ \A i \in I : i \in from .. n /\ text[i] = c
  BY <1>3
<1>5. I # {} => Min(I) \in I /\ \A i \in I : Min(I) <= i
  BY <1>4, MinFacts
<1>6. Scan(text, from, c) \in 0 .. n
  <2>1. CASE from = 0 \/ I = {}
    BY <1>2, <1>3, <2>1
  <2>2. CASE from # 0 /\ I # {}
    <3>1. Min(I) \in from .. n
      BY <1>4, <1>5, <2>2
    <3>2. from .. n \subseteq 0 .. n
      BY <1>3
    <3> QED BY <1>2, <2>2, <3>1, <3>2
  <2> QED BY <2>1, <2>2
<1>7. ASSUME NEW p \in Nat \ {0}, from # 0, from <= p, p <= n, text[p] = c,
             \A i \in from .. p - 1 : text[i] # c
      PROVE  Scan(text, from, c) = p
  <2>1. p \in I
    BY <1>3, <1>7
  <2>2. Min(I) \in I /\ Min(I) <= p
    BY <1>5, <2>1
  <2>3. Min(I) \in from .. n /\ Min(I) \notin from .. p - 1
    BY <1>4, <1>7, <2>2
  <2>4. Min(I) = p
    <3> DEFINE m == Min(I)
    <3> HIDE DEF m
    <3>1. m \in from .. n /\ m \notin from .. p - 1 /\ m <= p
      BY <2>2, <2>3 DEF m
    <3>2. m = p
      BY <1>3, <3>1
    <3> QED BY <3>2 DEF m
  <2> QED BY <1>2, <1>7, <2>1, <2>4
<1> QED BY <1>6, <1>7 DEF n

LEMMA BlankAt ==
  ASSUME NEW S, NEW text \in Seq(S), NEW i \in 1 .. Len(text) - 3
  PROVE  SubSeq(text, i, i + 3) = BlankLine <=>
           text[i] = CR /\ text[i + 1] = LF /\ text[i + 2] = CR /\ text[i + 3] = LF
<1> DEFINE q == SubSeq(text, i, i + 3)
<1>1. Len(text) \in Nat /\ i \in Nat
  BY LenProperties
<1>2. \A j \in i .. i + 3 : text[j] \in S
  BY <1>1, ElementOfSeq
<1>3. i + 3 - i + 1 = 4 /\ i <= i + 3 /\ i + 3 \in Int /\ i \in Int
  BY <1>1
<1>4. q \in Seq(S) /\ Len(q) = 4 /\ \A j \in 1 .. 4 : q[j] = text[i + j - 1]
  BY <1>2, <1>3, SubSeqProperties
<1> HIDE DEF q
<1>5. i + 1 - 1 = i /\ i + 2 - 1 = i + 1 /\ i + 3 - 1 = i + 2 /\ i + 4 - 1 = i + 3
  BY <1>1
<1>6. q[1] = text[i] /\ q[2] = text[i + 1] /\ q[3] = text[i + 2] /\ q[4] = text[i + 3]
  BY <1>4, <1>5
<1>7. q = <<q[1], q[2], q[3], q[4]>>
  BY <1>4
<1>8. q = BlankLine <=> q[1] = CR /\ q[2] = LF /\ q[3] = CR /\ q[4] = LF
  BY <1>7 DEF BlankLine
<1> QED BY <1>6, <1>8 DEF q

LEMMA ScanBlankFacts ==
  ASSUME NEW S, NEW text \in Seq(S), NEW from \in Nat
  PROVE  /\ ScanBlank(text, from) \in 0 .. Len(text)
         /\ \A p \in Nat \ {0} :
              /\ from # 0 /\ from <= p /\ p + 3 <= Len(text)
              /\ text[p] = CR /\ text[p + 1] = LF /\ text[p + 2] = CR /\ text[p + 3] = LF
              /\ \A i \in from .. p - 1 : text[i] # CR
              => ScanBlank(text, from) = p
<1> DEFINE n == Len(text)
           hits == {i \in from .. n - 3 : SubSeq(text, i, i + 3) = BlankLine}
           first == CHOOSE i \in hits : \A j \in hits : i <= j
<1>1. ScanBlank(text, from) = IF from = 0 \/ hits = {} THEN 0 ELSE first
  BY DEF ScanBlank, Stray
<1>2. n \in Nat
  BY LenProperties
<1>3. hits \subseteq Nat
  BY <1>2
<1>4. hits # {} => first \in hits /\ \A j \in hits : first <= j
  <2>1. hits # {} => \E i \in hits : \A j \in hits : i <= j
    BY <1>3, Smallest
  <2> HIDE DEF hits
  <2> QED BY <2>1
<1>5. \A i \in hits : i \in from .. n - 3
  OBVIOUS
<1>6. ASSUME NEW i \in hits, from # 0 PROVE text[i] = CR
  <2>1. i \in 1 .. n - 3
    BY <1>2, <1>5, <1>6
  <2> QED BY <2>1, BlankAt
<1>7. ASSUME NEW p \in from .. n - 3, from # 0,
             text[p] = CR, text[p + 1] = LF, text[p + 2] = CR, text[p + 3] = LF
      PROVE  p \in hits
  <2>1. p \in 1 .. n - 3
    BY <1>2, <1>7
  <2> QED BY <1>7, <2>1, BlankAt
<1> HIDE DEF n, hits, first
<1>8. ScanBlank(text, from) \in 0 .. n
  <2>1. CASE from = 0 \/ hits = {}
    BY <1>1, <1>2, <2>1
  <2>2. CASE from # 0 /\ hits # {}
    <3>1. first \in from .. n - 3
      BY <1>4, <1>5, <2>2
    <3>2. from .. n - 3 \subseteq 0 .. n
      BY <1>2
    <3> QED BY <1>1, <2>2, <3>1, <3>2
  <2> QED BY <2>1, <2>2
<1>9. ASSUME NEW p \in Nat \ {0}, from # 0, from <= p, p + 3 <= n,
             text[p] = CR, text[p + 1] = LF, text[p + 2] = CR, text[p + 3] = LF,
             \A i \in from .. p - 1 : text[i] # CR
      PROVE  ScanBlank(text, from) = p
  <2>1. p \in from .. n - 3
    BY <1>2, <1>9
  <2>2. p \in hits
    BY <1>7, <1>9, <2>1
  <2>3. first \in hits /\ first <= p
    BY <1>4, <2>2
  <2>4. first \in from .. n - 3 /\ first \notin from .. p - 1
    BY <1>5, <1>6, <1>9, <2>3
  <2>5. first = p
    BY <1>2, <2>3, <2>4
  <2> QED BY <1>1, <1>9, <2>2, <2>5
<1> QED BY <1>8, <1>9 DEF n

Parses == [methodEnd : 0 .. RecvSize, pathEnd : 0 .. RecvSize,
           header : 0 .. RecvSize, headerEnd : 0 .. RecvSize]

LEMMA ParseTyped ==
  ASSUME NEW S, NEW text \in Seq(S), Len(text) < RecvSize
  PROVE  Parse(text) \in Parses
<1> DEFINE n == Len(text)
           methodEnd == Scan(text, 1, SP)
           lineEnd == Scan(text, 1, LF)
           pathEnd == Scan(text, After(methodEnd), SP)
           headerEnd == ScanBlank(text, After(lineEnd))
<1>1. n \in Nat /\ RecvSize \in Nat /\ n < RecvSize
  BY LenProperties, RequestAssumption
<1>2. methodEnd \in 0 .. n /\ lineEnd \in 0 .. n
  BY <1>1, ScanFacts
<1>3. \A p \in 0 .. n : After(p) \in Nat /\ After(p) \in 0 .. RecvSize
  BY <1>1 DEF After, Stray
<1>4. pathEnd \in 0 .. n
  BY <1>1, <1>2, <1>3, ScanFacts
<1>5. headerEnd \in 0 .. n
  BY <1>2, <1>3, ScanBlankFacts
<1>6. Parse(text) = [methodEnd |-> methodEnd, pathEnd |-> pathEnd,
                     header |-> After(lineEnd), headerEnd |-> headerEnd]
  BY DEF Parse
<1> HIDE DEF n, methodEnd, lineEnd, pathEnd, headerEnd
<1>7. 0 .. n \subseteq 0 .. RecvSize
  BY <1>1
<1>8. /\ methodEnd \in 0 .. RecvSize /\ pathEnd \in 0 .. RecvSize
      /\ After(lineEnd) \in 0 .. RecvSize /\ headerEnd \in 0 .. RecvSize
  BY <1>2, <1>3, <1>4, <1>5, <1>7
<1> QED BY <1>6, <1>8 DEF Parses
-----------------------------------------------------------------------------
(* A request with a header line, character by character: a space at H ends *)
(* the path.                                                               *)
Size(r) == Len(Request(r))
MethodSize(r) == Len(r.method)
PathEnd(r) == Len(r.method) + Len(r.url) + 2
Endings(r) == PathEnd(r) + 8 .. Size(r)

Chars(q, M, H) ==
    /\ M \in Nat /\ H \in Nat /\ M + 2 <= H
    /\ q \in Seq(Nat) /\ H + 8 <= Len(q)
    /\ \A i \in 1 .. H - 1 : i # M + 1 => q[i] \in UrlChars
    /\ q[M + 1] = SP /\ q[H] = SP /\ q[H + 1] = 72 /\ q[H + 2] = CR /\ q[H + 3] = LF
    /\ q[H + 4] = 104 /\ q[H + 5] = CR /\ q[H + 6] = LF
    /\ q[H + 7] = CR /\ q[H + 8] = LF

LEMMA CharsOf ==
  ASSUME NEW r \in Requests, r.lines = HeaderLine
  PROVE  /\ Chars(Request(r), MethodSize(r), PathEnd(r))
         /\ Size(r) \in Nat /\ PathEnd(r) + 8 <= Size(r)
         /\ r.body = <<>> => Size(r) = PathEnd(r) + 8
<1> DEFINE q == Request(r)
           line == <<SP, 72, CR, LF>>
           end == <<CR, LF>>
<1>1. /\ line[1] = SP /\ line[2] = 72 /\ line[3] = CR /\ line[4] = LF /\ Len(line) = 4
      /\ end[1] = CR /\ end[2] = LF /\ Len(end) = 2
      /\ HeaderLine[1] = 104 /\ HeaderLine[2] = CR /\ HeaderLine[3] = LF /\ Len(HeaderLine) = 3
  BY DEF HeaderLine
<1> HIDE DEF q, line, end
<1>0. PICK M : M = Len(r.method)
  OBVIOUS
<1>2. PICK U : U = Len(r.url)
  OBVIOUS
<1>3. PICK B : B = Len(r.body)
  OBVIOUS
<1>4. PICK N : N = Len(q)
  OBVIOUS
<1>5. M \in Nat /\ U \in Nat /\ B \in Nat /\ N = M + U + 7 + Len(r.lines) + B
  BY <1>0, <1>2, <1>3, <1>4, RequestFacts DEF q
<1>6. N = M + U + 10 + B
  <2>1. N = M + U + 7 + 3 + B
    BY <1>1, <1>5
  <2> QED BY <1>5, <2>1
<1>7. PICK H : H = M + U + 2
  OBVIOUS
<1>8. r.body = <<>> => B = 0
  BY <1>3
<1>9. /\ Holds(q, 0, r.method) /\ Holds(q, M, <<SP>>) /\ Holds(q, M + 1, r.url)
      /\ Holds(q, M + U + 1, line) /\ Holds(q, M + U + 5, HeaderLine)
      /\ Holds(q, M + U + 5 + 3, end)
  BY <1>0, <1>1, <1>2, RequestFacts DEF q, line, end
<1>10. q[M + 1] = SP
  <2>1. Len(<<SP>>) = 1 /\ <<SP>>[1] = SP /\ 1 \in 1 .. 1
    OBVIOUS
  <2> QED BY <1>9, <2>1 DEF Holds
<1>11. q[M + U + 1 + 1] = SP /\ q[M + U + 1 + 2] = 72 /\ q[M + U + 1 + 3] = CR /\ q[M + U + 1 + 4] = LF
  <2>1. \A i \in 1 .. 4 : q[M + U + 1 + i] = line[i]
    BY <1>1, <1>9 DEF Holds
  <2>2. 1 \in 1 .. 4 /\ 2 \in 1 .. 4 /\ 3 \in 1 .. 4 /\ 4 \in 1 .. 4
    OBVIOUS
  <2> QED BY <1>1, <2>1, <2>2
<1>12. q[M + U + 5 + 1] = 104 /\ q[M + U + 5 + 2] = CR /\ q[M + U + 5 + 3] = LF
  <2>1. \A i \in 1 .. 3 : q[M + U + 5 + i] = HeaderLine[i]
    BY <1>1, <1>9 DEF Holds
  <2>2. 1 \in 1 .. 3 /\ 2 \in 1 .. 3 /\ 3 \in 1 .. 3
    OBVIOUS
  <2> QED BY <1>1, <2>1, <2>2
<1>13. q[M + U + 5 + 3 + 1] = CR /\ q[M + U + 5 + 3 + 2] = LF
  <2>1. \A i \in 1 .. 2 : q[M + U + 5 + 3 + i] = end[i]
    BY <1>1, <1>9 DEF Holds
  <2>2. 1 \in 1 .. 2 /\ 2 \in 1 .. 2
    OBVIOUS
  <2> QED BY <1>1, <2>1, <2>2
<1>14. /\ M + U + 1 + 1 = H /\ M + U + 1 + 2 = H + 1 /\ M + U + 1 + 3 = H + 2 /\ M + U + 1 + 4 = H + 3
       /\ M + U + 5 + 1 = H + 4 /\ M + U + 5 + 2 = H + 5 /\ M + U + 5 + 3 = H + 6
       /\ M + U + 5 + 3 + 1 = H + 7 /\ M + U + 5 + 3 + 2 = H + 8
  BY <1>5, <1>7
<1>15. ASSUME NEW i \in 1 .. H - 1, i # M + 1 PROVE q[i] \in UrlChars
  <2>1. r.method \in Seq(UrlChars) /\ r.url \in Seq(UrlChars)
    BY MethodFacts DEF Requests
  <2>2. CASE i <= M
    <3>1. i \in 1 .. Len(r.method) /\ 0 + i = i
      BY <1>0, <1>5, <1>7, <2>2
    <3>2. q[i] = r.method[i]
      BY <1>9, <3>1 DEF Holds
    <3> QED BY <2>1, <3>1, <3>2, ElementOfSeq
  <2>3. CASE i > M + 1
    <3> DEFINE j == i - (M + 1)
    <3>1. j \in 1 .. U /\ M + 1 + j = i
      BY <1>5, <1>7, <2>3
    <3> HIDE DEF j
    <3>2. j \in 1 .. Len(r.url)
      BY <1>2, <3>1
    <3>3. q[i] = r.url[j]
      BY <1>9, <3>1, <3>2 DEF Holds
    <3> QED BY <2>1, <3>2, <3>3, ElementOfSeq
  <2> QED BY <1>5, <1>7, <1>15, <2>2, <2>3
<1>16. q \in Seq(Nat)
  BY RequestFacts DEF q
<1>17. H \in Nat /\ M + 2 <= H /\ H + 8 <= N /\ (B = 0 => N = H + 8) /\ N \in Nat
  BY <1>5, <1>6, <1>7
<1>18. M = MethodSize(r) /\ H = PathEnd(r)
  BY <1>0, <1>2, <1>7 DEF MethodSize, PathEnd
<1>19. /\ q[H] = SP /\ q[H + 1] = 72 /\ q[H + 2] = CR /\ q[H + 3] = LF /\ q[H + 4] = 104
       /\ q[H + 5] = CR /\ q[H + 6] = LF /\ q[H + 7] = CR /\ q[H + 8] = LF
  BY <1>11, <1>12, <1>13, <1>14
<1>20. H + 8 <= Len(q) /\ (r.body = <<>> => Len(q) = H + 8)
  BY <1>4, <1>8, <1>17
<1>21. Chars(q, M, H)
  BY <1>5, <1>10, <1>15, <1>16, <1>17, <1>19, <1>20 DEF Chars
<1>22. Size(r) = N
  BY <1>4 DEF Size, q
<1> QED BY <1>8, <1>17, <1>18, <1>21, <1>22 DEF q

(* No two carriage returns stand two apart before the blank line.          *)
LEMMA NoBlankBefore ==
  ASSUME NEW q, NEW M \in Nat, NEW H \in Nat,
         \A i \in 1 .. H - 1 : i # M + 1 => q[i] \in UrlChars,
         q[M + 1] = SP, q[H] = SP, q[H + 1] = 72, q[H + 2] = CR, q[H + 3] = LF, q[H + 4] = 104,
         NEW p \in Nat \ {0}, q[p] = CR, q[p + 2] = CR
  PROVE  p >= H + 5
<1> SUFFICES ASSUME p < H + 5 PROVE FALSE
  OBVIOUS
<1>1. p # M + 1
  BY DEF SP, CR
<1>2. p \notin 1 .. H - 1
  BY <1>1 DEF UrlChars
<1>3. p # H /\ p # H + 1 /\ p # H + 3 /\ p # H + 4
  BY DEF SP, CR, LF
<1>4. p = H + 2
  BY <1>2, <1>3
<1>5. p + 2 = H + 4
  BY <1>4
<1> QED BY <1>5 DEF CR

(* Where a blank line ends the received text, all header lines are there.  *)
LEMMA CompleteMeans ==
  ASSUME NEW r \in Requests, r.lines = HeaderLine, NEW g \in 0 .. Size(r)
  PROVE  /\ Complete(SubSeq(Request(r), 1, g)) => g \in Endings(r)
         /\ g = Size(r) /\ r.body = <<>> => Complete(SubSeq(Request(r), 1, g))
<1>1. PICK M, H : M = MethodSize(r) /\ H = PathEnd(r)
  OBVIOUS
<1> DEFINE q == Request(r)
           t == SubSeq(q, 1, g)
<1> HIDE DEF q, t
<1>2. PICK N : N = Size(r)
  OBVIOUS
<1>3. /\ M \in Nat /\ H \in Nat /\ M + 2 <= H /\ H + 8 <= N /\ N \in Nat
      /\ r.body = <<>> => N = H + 8
      /\ q \in Seq(Nat) /\ q[M + 1] = SP
      /\ \A i \in 1 .. H - 1 : i # M + 1 => q[i] \in UrlChars
      /\ q[H] = SP /\ q[H + 1] = 72 /\ q[H + 2] = CR /\ q[H + 3] = LF /\ q[H + 4] = 104
      /\ q[H + 5] = CR /\ q[H + 6] = LF /\ q[H + 7] = CR /\ q[H + 8] = LF
  <2>1. Chars(q, M, H) /\ N \in Nat /\ H + 8 <= N /\ (r.body = <<>> => N = H + 8)
    BY <1>1, <1>2, CharsOf DEF q
  <2> QED BY <2>1 DEF Chars
<1>4. g \in 0 .. N
  BY <1>2
<1>5. t \in Seq(Nat) /\ Len(t) = g /\ \A i \in 1 .. g : t[i] = q[i]
  <2>1. N = Len(q)
    BY <1>2 DEF Size, q
  <2>2. g \in 0 .. Len(q)
    BY <1>4, <2>1
  <2>3. q \in Seq(Nat)
    BY <1>3
  <2> QED BY <2>2, <2>3, HoldsBeginning DEF t
<1>6. Complete(t) <=> g >= 4 /\ SubSeq(t, g - 3, g - 3 + 3) = BlankLine
  <2>1. g - 3 + 3 = g
    BY <1>4
  <2> QED BY <1>5, <2>1 DEF Complete
<1>7. g >= 4 => (Complete(t) <=> t[g - 3] = CR /\ t[g - 3 + 1] = LF
                                  /\ t[g - 3 + 2] = CR /\ t[g - 3 + 3] = LF)
  <2>1. g >= 4 => g - 3 \in 1 .. g - 3
    BY <1>4
  <2> QED BY <1>5, <1>6, <2>1, BlankAt
<1>8. ASSUME Complete(t), g < H + 8 PROVE FALSE
  <2> DEFINE p == g - 3
  <2>1. g >= 4 /\ t[p] = CR /\ t[p + 2] = CR
    BY <1>6, <1>7, <1>8
  <2>2. p \in 1 .. g /\ p + 2 \in 1 .. g /\ p < H + 5
    BY <1>3, <1>4, <1>8, <2>1
  <2> HIDE DEF p
  <2>3. q[p] = CR /\ q[p + 2] = CR
    BY <1>5, <2>1, <2>2
  <2>4. p \in Nat \ {0}
    BY <2>2
  <2>5. p >= H + 5
    <3>1. M \in Nat /\ H \in Nat
      BY <1>3
    <3>2. \A i \in 1 .. H - 1 : i # M + 1 => q[i] \in UrlChars
      BY <1>3
    <3>3. q[M + 1] = SP /\ q[H] = SP /\ q[H + 1] = 72 /\ q[H + 2] = CR /\ q[H + 3] = LF /\ q[H + 4] = 104
      BY <1>3
    <3> QED BY <2>3, <2>4, <3>1, <3>2, <3>3, NoBlankBefore
  <2> QED BY <1>3, <2>2, <2>5
<1>9. ASSUME g = N, r.body = <<>> PROVE Complete(t)
  <2>1. g = H + 8 /\ g >= 4
    BY <1>3, <1>9
  <2>2. g - 3 = H + 5 /\ g - 3 + 1 = H + 6 /\ g - 3 + 2 = H + 7 /\ g - 3 + 3 = H + 8
    BY <1>3, <2>1
  <2>3. g - 3 \in 1 .. g /\ g - 3 + 1 \in 1 .. g /\ g - 3 + 2 \in 1 .. g /\ g - 3 + 3 \in 1 .. g
    BY <1>3, <2>1
  <2>4. q[H + 5] = CR /\ q[H + 6] = LF /\ q[H + 7] = CR /\ q[H + 8] = LF
    BY <1>3
  <2>5. t[g - 3] = CR /\ t[g - 3 + 1] = LF /\ t[g - 3 + 2] = CR /\ t[g - 3 + 3] = LF
    BY <1>5, <2>2, <2>3, <2>4
  <2> QED BY <1>7, <2>1, <2>5
<1>10. Complete(t) => g \in H + 8 .. N
  BY <1>3, <1>4, <1>8
<1> QED BY <1>1, <1>2, <1>9, <1>10 DEF q, t, Endings

(* What the parser makes of such a text, or of a beginning of it.          *)
LEMMA CharsBeginning ==
  ASSUME NEW q, NEW M, NEW H, Chars(q, M, H), NEW g
  PROVE  g \in 0 .. Len(q) /\ H + 8 <= g => Chars(SubSeq(q, 1, g), M, H)
<1> DEFINE t == SubSeq(q, 1, g)
<1>0. SUFFICES ASSUME g \in 0 .. Len(q), H + 8 <= g PROVE Chars(t, M, H)
  OBVIOUS
<1>1. M \in Nat /\ H \in Nat /\ M + 2 <= H /\ q \in Seq(Nat) /\ g \in Int /\ H + 8 <= g
  BY <1>0, LenProperties DEF Chars
<1>2. t \in Seq(Nat) /\ Len(t) = g /\ \A i \in 1 .. g : t[i] = q[i]
  BY <1>0, <1>1, HoldsBeginning
<1> HIDE DEF t
<1>3. \A i \in 1 .. H + 8 : i \in 1 .. g
  BY <1>1
<1>4. \A i \in 1 .. H + 8 : t[i] = q[i]
  BY <1>2, <1>3
<1>5. \A i \in 1 .. H - 1 : i \in 1 .. H + 8
  BY <1>1
<1>6. \A i \in 1 .. H - 1 : i # M + 1 => t[i] \in UrlChars
  BY <1>4, <1>5 DEF Chars
<1>7. /\ M + 1 \in 1 .. H + 8 /\ H \in 1 .. H + 8 /\ H + 1 \in 1 .. H + 8
      /\ H + 2 \in 1 .. H + 8 /\ H + 3 \in 1 .. H + 8 /\ H + 4 \in 1 .. H + 8
      /\ H + 5 \in 1 .. H + 8 /\ H + 6 \in 1 .. H + 8 /\ H + 7 \in 1 .. H + 8
      /\ H + 8 \in 1 .. H + 8
  BY <1>1
<1>8. /\ t[M + 1] = SP /\ t[H] = SP /\ t[H + 1] = 72 /\ t[H + 2] = CR /\ t[H + 3] = LF
      /\ t[H + 4] = 104 /\ t[H + 5] = CR /\ t[H + 6] = LF
      /\ t[H + 7] = CR /\ t[H + 8] = LF
  <2>1. /\ q[M + 1] = SP /\ q[H] = SP /\ q[H + 1] = 72 /\ q[H + 2] = CR /\ q[H + 3] = LF
        /\ q[H + 4] = 104 /\ q[H + 5] = CR /\ q[H + 6] = LF
        /\ q[H + 7] = CR /\ q[H + 8] = LF
    BY DEF Chars
  <2> QED BY <1>4, <1>7, <2>1
<1> QED BY <1>1, <1>2, <1>6, <1>8 DEF Chars

LEMMA ParseChars ==
  ASSUME NEW t, NEW M, NEW H, Chars(t, M, H)
  PROVE  Parse(t) = [methodEnd |-> M + 1, pathEnd |-> H, header |-> H + 4, headerEnd |-> H + 5]
<1>1. PICK n : n = Len(t)
  OBVIOUS
<1>2. M \in Nat /\ H \in Nat /\ M + 2 <= H /\ t \in Seq(Nat) /\ H + 8 <= n /\ n \in Nat
  BY <1>1, LenProperties DEF Chars
<1>3. \A i \in 1 .. H - 1 : i # M + 1 => t[i] # SP /\ t[i] # LF
  BY DEF Chars, UrlChars
<1>4. /\ t[M + 1] = SP /\ t[H] = SP /\ t[H + 1] = 72 /\ t[H + 2] = CR /\ t[H + 3] = LF
      /\ t[H + 4] = 104 /\ t[H + 5] = CR /\ t[H + 6] = LF
      /\ t[H + 7] = CR /\ t[H + 8] = LF
  BY DEF Chars
<1>5. ASSUME NEW from \in Nat \ {0}, NEW p \in Nat \ {0}, from <= p, p <= n, NEW c, t[p] = c,
             \A i \in from .. p - 1 : t[i] # c
      PROVE  Scan(t, from, c) = p
  <2>1. from # 0 /\ p <= Len(t) /\ Len(t) \in Nat /\ from \in Nat
    BY <1>1, <1>2, <1>5
  <2> QED BY <1>5, <2>1, ScanFacts
<1>6. Scan(t, 1, SP) = M + 1
  <2>0. PICK p : p = M + 1
    OBVIOUS
  <2>1. \A i \in 1 .. p - 1 : i \in 1 .. H - 1 /\ i # M + 1
    BY <1>2, <2>0
  <2>2. \A i \in 1 .. p - 1 : t[i] # SP
    BY <1>3, <2>1
  <2>3. p \in Nat \ {0} /\ 1 \in Nat \ {0} /\ 1 <= p /\ p <= n
    BY <1>2, <2>0
  <2>4. t[p] = SP
    BY <1>4, <2>0
  <2>5. Scan(t, 1, SP) = p
    BY <1>5, <2>2, <2>3, <2>4
  <2> QED BY <2>0, <2>5
<1>7. Scan(t, M + 2, SP) = H
  <2>1. \A i \in M + 2 .. H - 1 : i \in 1 .. H - 1 /\ i # M + 1
    BY <1>2
  <2>2. \A i \in M + 2 .. H - 1 : t[i] # SP
    BY <1>3, <2>1
  <2>3. H \in Nat \ {0} /\ M + 2 \in Nat \ {0} /\ M + 2 <= H /\ H <= n
    BY <1>2
  <2> QED BY <1>4, <1>5, <2>2, <2>3
<1>8. Scan(t, 1, LF) = H + 3
  <2>0. PICK p : p = H + 3
    OBVIOUS
  <2>1. ASSUME NEW i \in 1 .. p - 1 PROVE t[i] # LF
    <3>1. i \in 1 .. H - 1 \/ i = H \/ i = H + 1 \/ i = H + 2
      BY <1>2, <2>0
    <3>2. CASE i \in 1 .. H - 1
      BY <1>3, <1>4, <3>2 DEF SP, LF
    <3> QED BY <1>4, <3>1, <3>2 DEF SP, CR, LF
  <2>2. p \in Nat \ {0} /\ 1 \in Nat \ {0} /\ 1 <= p /\ p <= n
    BY <1>2, <2>0
  <2>3. t[p] = LF
    BY <1>4, <2>0
  <2>4. Scan(t, 1, LF) = p
    BY <1>5, <2>1, <2>2, <2>3
  <2> QED BY <2>0, <2>4
<1>9. After(M + 1) = M + 2 /\ After(H + 3) = H + 4
  BY <1>2 DEF After, Stray
<1>10. ScanBlank(t, H + 4) = H + 5
  <2>0. PICK from, p : from = H + 4 /\ p = H + 5
    OBVIOUS
  <2>1. \A i \in from .. p - 1 : t[i] # CR
    <3>1. \A i \in from .. p - 1 : i = H + 4
      BY <1>2, <2>0
    <3> QED BY <1>4, <3>1 DEF CR
  <2>2. p \in Nat \ {0} /\ from \in Nat /\ from # 0 /\ from <= p /\ p + 3 <= n
    BY <1>2, <2>0
  <2>3. p + 1 = H + 6 /\ p + 2 = H + 7 /\ p + 3 = H + 8
    BY <1>2, <2>0
  <2>4. t[p] = CR /\ t[p + 1] = LF /\ t[p + 2] = CR /\ t[p + 3] = LF
    BY <1>4, <2>0, <2>3
  <2>5. p + 3 <= Len(t)
    BY <1>1, <2>2
  <2>6. t \in Seq(Nat)
    BY <1>2
  <2>7. ScanBlank(t, from) = p
    BY <2>1, <2>2, <2>4, <2>5, <2>6, ScanBlankFacts
  <2> QED BY <2>0, <2>7
<1> QED BY <1>6, <1>7, <1>8, <1>9, <1>10 DEF Parse

(* A part of a text, cut out of it.                                        *)
LEMMA HoldsCut ==
  ASSUME NEW S, NEW part \in Seq(S), NEW text, NEW k \in Nat, Holds(text, k, part), NEW n,
         n = Len(part)
  PROVE  SubSeq(text, k + 1, k + n) = part
<1>1. n \in Nat
  BY LenProperties
<1>2. \A i \in 1 .. n : part[i] \in S /\ text[k + i] = part[i]
  BY ElementOfSeq DEF Holds
<1>3. ASSUME NEW j \in k + 1 .. k + n PROVE text[j] \in S
  <2>1. j - k \in 1 .. n /\ k + (j - k) = j
    BY <1>1
  <2> QED BY <1>2, <2>1
<1> DEFINE cut == SubSeq(text, k + 1, k + n)
<1>4. /\ cut \in Seq(S) /\ Len(cut) = IF k + 1 <= k + n THEN k + n - (k + 1) + 1 ELSE 0
      /\ \A i \in 1 .. k + n - (k + 1) + 1 : cut[i] = text[k + 1 + i - 1]
  BY <1>1, <1>3, SubSeqProperties
<1> HIDE DEF cut
<1>5. Len(cut) = n
  BY <1>1, <1>4
<1>6. ASSUME NEW i \in 1 .. n PROVE cut[i] = part[i]
  <2>1. i \in 1 .. k + n - (k + 1) + 1 /\ k + 1 + i - 1 = k + i
    BY <1>1
  <2> QED BY <1>2, <1>4, <2>1
<1> QED BY <1>4, <1>5, <1>6, SeqEqual DEF cut

(* A beginning of a request with its blank line is understood.             *)
Understood(r, text) ==
    /\ ~Strays(Parse(text))
    /\ MethodToken(text, Parse(text)) = r.method
    /\ PathText(text, Parse(text)) = r.url
    /\ SubSeq(text, Parse(text).header, Parse(text).headerEnd + 1) = r.lines

LEMMA BeginningUnderstood ==
  ASSUME NEW r \in Requests, r.lines = HeaderLine, NEW g \in Endings(r)
  PROVE  Understood(r, SubSeq(Request(r), 1, g))
<1>1. PICK M, U, H : M = Len(r.method) /\ U = Len(r.url) /\ H = PathEnd(r)
  OBVIOUS
<1>2. M = MethodSize(r) /\ H = M + U + 2
  BY <1>1 DEF MethodSize, PathEnd
<1>3. M \in Nat /\ U \in Nat
  BY <1>1, RequestFacts
<1>4. H \in Nat
  BY <1>2, <1>3
<1>5. Request(r) \in Seq(Nat)
  BY RequestFacts
<1>6. PICK N : N = Size(r)
  OBVIOUS
<1>7. g \in H + 8 .. N /\ N \in Nat
  <2>1. Size(r) \in Nat
    BY CharsOf
  <2> QED BY <1>1, <1>6, <2>1 DEF Endings
<1>8. g \in Nat /\ g \in 0 .. N /\ H + 8 <= g
  BY <1>4, <1>7
<1> DEFINE text == SubSeq(Request(r), 1, g)
<1>9. g \in 0 .. Len(Request(r))
  BY <1>6, <1>8 DEF Size
<1>10. Chars(text, M, H)
  <2>1. Chars(Request(r), M, H)
    BY <1>1, <1>2, CharsOf
  <2>2. H + 8 <= g
    BY <1>8
  <2> QED BY <1>9, <2>1, <2>2, CharsBeginning
<1>11. \A part : \A k \in Nat : Len(part) \in Nat /\ k + Len(part) <= g =>
         (Holds(text, k, part) <=> Holds(Request(r), k, part))
  BY <1>5, <1>9, HoldsBeginning
<1>12. text \in Seq(Nat)
  BY <1>5, <1>9, HoldsBeginning
<1> HIDE DEF text
<1>13. ASSUME NEW S, NEW part \in Seq(S), NEW n, n = Len(part), NEW k \in Nat, k + n <= g,
              Holds(Request(r), k, part)
       PROVE  SubSeq(text, k + 1, k + n) = part
  <2>1. Len(part) \in Nat /\ k + Len(part) <= g
    BY <1>13, LenProperties
  <2>2. Holds(text, k, part)
    BY <1>11, <1>13, <2>1
  <2> QED BY <1>13, <2>2, HoldsCut
<1>14. PICK p : p = Parse(text)
  OBVIOUS
<1>15. p.methodEnd = M + 1 /\ p.pathEnd = H /\ p.header = H + 4 /\ p.headerEnd = H + 5
  BY <1>10, <1>14, ParseChars
<1>16. ~Strays(p)
  <2>1. p = [methodEnd |-> M + 1, pathEnd |-> H, header |-> H + 4, headerEnd |-> H + 5]
    BY <1>10, <1>14, ParseChars
  <2>2. M + 1 # 0 /\ H # 0 /\ H + 4 # 0 /\ H + 5 # 0
    BY <1>2, <1>3, <1>4
  <2> QED BY <2>1, <2>2 DEF Strays, Stray
<1>17. MethodToken(text, p) = r.method
  <2>1. 0 + M <= g /\ 0 \in Nat /\ p.methodEnd - 1 = 0 + M /\ 0 + 1 = 1
    BY <1>2, <1>3, <1>8, <1>15
  <2>2. r.method \in Seq(UrlChars) /\ Holds(Request(r), 0, r.method)
    BY MethodFacts, RequestFacts DEF Requests
  <2>3. SubSeq(text, 0 + 1, 0 + M) = r.method
    BY <1>1, <1>13, <2>1, <2>2
  <2> QED BY <2>1, <2>3 DEF MethodToken
<1>18. PathText(text, p) = r.url
  <2>1. PICK k : k = M + 1
    OBVIOUS
  <2>2. k + U <= g /\ k \in Nat /\ p.methodEnd + 1 = k + 1 /\ p.pathEnd - 1 = k + U
    BY <1>2, <1>3, <1>8, <1>15, <2>1
  <2>3. r.url \in Seq(UrlChars) /\ Holds(Request(r), k, r.url)
    BY <1>1, <2>1, RequestFacts DEF Requests
  <2>4. SubSeq(text, k + 1, k + U) = r.url
    BY <1>1, <1>13, <2>2, <2>3
  <2> QED BY <2>2, <2>4 DEF PathText
<1>19. SubSeq(text, p.header, p.headerEnd + 1) = r.lines
  <2>1. PICK k : k = M + U + 5
    OBVIOUS
  <2>2. k + 3 <= g /\ k \in Nat /\ p.header = k + 1 /\ p.headerEnd + 1 = k + 3
    BY <1>2, <1>3, <1>8, <1>15, <2>1
  <2>3. HeaderLine \in Seq(Nat) /\ Len(HeaderLine) = 3
    BY DEF HeaderLine, CR, LF
  <2>4. Holds(Request(r), k, HeaderLine)
    BY <1>1, <2>1, RequestFacts
  <2>5. SubSeq(text, k + 1, k + 3) = HeaderLine
    BY <1>13, <2>2, <2>3, <2>4
  <2> QED BY <2>2, <2>5
<1> QED BY <1>14, <1>16, <1>17, <1>18, <1>19 DEF Understood, text
-----------------------------------------------------------------------------
(* The URLs that clients ask for have no space and no end of line in them. *)
EntryChars == UrlChars \ {Slash}

LEMMA EscapedTyped ==
  ASSUME NEW c \in 32 .. 255
  PROVE  Escaped(c) \in Seq(EntryChars)
<1>1. c \div 16 \in 0 .. 15 /\ c % 16 \in 0 .. 15
  OBVIOUS
<1>2. \A d \in 0 .. 15 : HexDigit(d) \in EntryChars
  BY DEF HexDigit, EntryChars, UrlChars, SP, CR, LF, Slash
<1>3. HexDigit(c \div 16) \in EntryChars /\ HexDigit(c % 16) \in EntryChars /\ Percent \in EntryChars
  BY <1>1, <1>2 DEF Percent, EntryChars, UrlChars, SP, CR, LF, Slash
<1> QED BY <1>3 DEF Escaped

LEMMA NameTyped ==
  ASSUME NEW name \in Seq(NameChars)
  PROVE  EncodeName(name) \in Seq(EntryChars)
<1> DEFINE n == Len(name)
           f == [i \in 1 .. n |-> IF name[i] \in Unreserved THEN <<name[i]>> ELSE Escaped(name[i])]
<1>1. n \in Nat
  BY LenProperties
<1>2. \A c \in NameChars : c \in 32 .. 255
  BY DEF NameChars
<1>3. \A c \in Unreserved : c \in EntryChars
  BY DEF Unreserved, Digits, Dot, EntryChars, UrlChars, SP, CR, LF, Slash
<1>4. ASSUME NEW i \in 1 .. n PROVE f[i] \in Seq(EntryChars)
  <2>1. name[i] \in 32 .. 255
    BY <1>2, ElementOfSeq
  <2>2. CASE name[i] \in Unreserved
    <3>1. PICK c : c = name[i]
      OBVIOUS
    <3>2. c \in EntryChars /\ f[i] = <<c>>
      BY <1>3, <2>2, <3>1
    <3> HIDE DEF f
    <3> QED BY <3>2
  <2>3. CASE name[i] \notin Unreserved
    BY <2>1, <2>3, EscapedTyped
  <2> QED BY <2>2, <2>3
<1>5. EncodeName(name) = FlattenSeq([i \in 1 .. n |-> f[i]])
  BY DEF EncodeName
<1> HIDE DEF n, f
<1> QED BY <1>1, <1>4, <1>5, PiecesTyped

LEMMA PathTyped ==
  ASSUME NEW node \in Seq(Seq(NameChars))
  PROVE  EncodePath(node) \in Seq(UrlChars) /\ Append(EncodePath(node), Slash) \in Seq(UrlChars)
         /\ EncodePath(node) \o <<Slash>> \in Seq(UrlChars)
         /\ EncodePath(node) \o <<>> \in Seq(UrlChars)
<1> DEFINE n == Len(node)
           f == [i \in 1 .. n |-> <<Slash>> \o EncodeName(node[i])]
<1>1. n \in Nat
  BY LenProperties
<1>2. <<Slash>> \in Seq(UrlChars) /\ Slash \in UrlChars /\ <<>> \in Seq(UrlChars)
  BY DEF Slash, UrlChars, SP, CR, LF
<1>3. ASSUME NEW i \in 1 .. n PROVE f[i] \in Seq(UrlChars)
  <2>1. EncodeName(node[i]) \in Seq(EntryChars)
    BY ElementOfSeq, NameTyped
  <2>2. EncodeName(node[i]) \in Seq(UrlChars)
    BY <2>1, SeqMonotonic DEF EntryChars
  <2> QED BY <1>2, <2>2, ConcatProperties
<1>4. EncodePath(node) = FlattenSeq([i \in 1 .. n |-> f[i]])
  BY DEF EncodePath
<1> HIDE DEF n, f
<1>5. EncodePath(node) \in Seq(UrlChars)
  BY <1>1, <1>3, <1>4, PiecesTyped
<1> QED BY <1>2, <1>5, ConcatProperties, AppendProperties

LEMMA LinkTyped ==
  ASSUME NEW href \in Seq(32 .. 255)
  PROVE  LinkText(href) \in Seq(UrlChars)
<1> DEFINE t == Append(href, Hash)
           I == {i \in 1 .. Len(t) : t[i] = Hash}
           n == Min(I) - 1
           f == [i \in 1 .. n |-> IF href[i] = SP THEN Escaped(SP) ELSE <<href[i]>>]
<1>1. Len(href) \in Nat
  BY LenProperties
<1>2. Len(t) = Len(href) + 1 /\ t[Len(href) + 1] = Hash
  <2>1. Hash \in 32 .. 255
    BY DEF Hash
  <2> QED BY <2>1, AppendProperties
<1>3. Len(href) + 1 \in I /\ I \subseteq Nat
  BY <1>1, <1>2
<1>4. SelectInSeq(t, LAMBDA c : c = Hash) = Min(I)
  BY <1>3 DEF SelectInSeq
<1>5. Min(I) \in I
  BY <1>3, MinFacts
<1> HIDE DEF t
<1>6. Min(I) \in 1 .. Len(href) + 1
  BY <1>2, <1>5
<1>7. LinkText(href) = FlattenSeq([i \in 1 .. n |-> f[i]])
  BY <1>4 DEF LinkText, t
<1> HIDE DEF I
<1>8. n \in Nat /\ \A i \in 1 .. n : i \in 1 .. Len(href)
  BY <1>1, <1>6
<1>9. ASSUME NEW i \in 1 .. n PROVE f[i] \in Seq(UrlChars)
  <2>1. href[i] \in 32 .. 255
    BY <1>8, ElementOfSeq
  <2>2. CASE href[i] = SP
    <3>1. SP \in 32 .. 255
      BY DEF SP
    <3>2. Escaped(SP) \in Seq(EntryChars)
      BY <3>1, EscapedTyped
    <3>3. Escaped(SP) \in Seq(UrlChars)
      BY <3>2, SeqMonotonic DEF EntryChars
    <3> QED BY <2>2, <3>3
  <2>3. CASE href[i] # SP
    <3>1. \A c \in 32 .. 255 : c # SP => c \in UrlChars
      BY DEF UrlChars, SP, CR, LF
    <3>2. PICK c : c = href[i]
      OBVIOUS
    <3>3. c \in UrlChars /\ f[i] = <<c>>
      BY <2>1, <2>3, <3>1, <3>2
    <3> HIDE DEF f
    <3> QED BY <3>3
  <2> QED BY <2>2, <2>3
<1> HIDE DEF f, n
<1> QED BY <1>7, <1>8, <1>9, PiecesTyped

LEMMA HrefTyped ==
  ASSUME NEW node \in Seq(Seq(NameChars)), node # <<>>
  PROVE  LinkText(Href(node)) \in Seq(UrlChars)
<1>1. Len(node) \in 1 .. Len(node)
  BY EmptySeq
<1>2. Last(node) \in Seq(NameChars)
  BY <1>1, ElementOfSeq DEF Last
<1>3. NameChars \subseteq 32 .. 255
  BY DEF NameChars
<1>4. Last(node) \in Seq(32 .. 255)
  <2>1. PICK name, S : name = Last(node) /\ S = 32 .. 255
    OBVIOUS
  <2>2. name \in Seq(NameChars) /\ NameChars \subseteq S
    BY <1>2, <1>3, <2>1
  <2>3. name \in Seq(S)
    BY <2>2, SeqMonotonic
  <2> QED BY <2>1, <2>3
<1>5. <<Slash>> \in Seq(32 .. 255) /\ <<>> \in Seq(32 .. 255)
  BY DEF Slash
<1>6. Href(node) \in Seq(32 .. 255)
  BY <1>4, <1>5, ConcatProperties DEF Href
<1> QED BY <1>6, LinkTyped

LEMMA DirectoryTyped ==
  ASSUME NEW url \in Seq(UrlChars)
  PROVE  DirectoryOf(url) \in Seq(UrlChars) /\ Front(url) \in Seq(UrlChars)
         /\ DirectoryOf(Front(url)) \in Seq(UrlChars) /\ Location(url) \in Seq(UrlChars)
<1>1. ASSUME NEW u \in Seq(UrlChars) PROVE DirectoryOf(u) \in Seq(UrlChars)
  <2> DEFINE I == {i \in 1 .. Len(u) : u[i] = Slash}
             last == SelectLastInSeq(u, LAMBDA c : c = Slash)
  <2>1. Len(u) \in Nat
    BY LenProperties
  <2>2. last = IF I # {} THEN Max(I) ELSE 0
    BY DEF SelectLastInSeq
  <2>3. I \subseteq 0 .. Len(u)
    BY <2>1
  <2> HIDE DEF I, last
  <2>4. last \in 0 .. Len(u)
    <3>1. I # {} => Max(I) \in 0 .. Len(u)
      BY <2>1, <2>3, MaxFacts
    <3> QED BY <2>1, <2>2, <3>1
  <2>5. last \in Int /\ last <= Len(u)
    BY <2>1, <2>4
  <2> QED BY <2>5, BeginningTyped DEF DirectoryOf, last
<1>2. Front(url) \in Seq(UrlChars)
  <2>1. Len(url) - 1 \in Int /\ Len(url) - 1 <= Len(url)
    BY LenProperties
  <2> QED BY <2>1, BeginningTyped DEF Front
<1>3. Location(url) \in Seq(UrlChars)
  <2>1. Slash \in UrlChars
    BY DEF Slash, UrlChars, SP, CR, LF
  <2> QED BY <2>1, AppendProperties DEF Location
<1> QED BY <1>1, <1>2, <1>3
-----------------------------------------------------------------------------
(* The invariant.  What has arrived is a beginning of the request, which   *)
(* the 9x server takes when it ends in a blank line or fills the buffer,   *)
(* unless the client left; the parse is that of what has arrived, and the  *)
(* page the answer to that; the server is lost only by its parser or by    *)
(* the path of index.html.                                                 *)
Arrived       == got <= Size(asked)
Awaiting      == server = "recv" => IF platform = "nt" THEN got = 0 ELSE ~Complete(Received)
Unanswered    == server \in {"recv", "parse", "serve"} => page = NoPage
Taken         == server \in {"parse", "serve", "undefined"} \/ page # NoPage
Filled        == Taken /\ platform = "win9x" /\ ~gone => Complete(Received) \/ got = RecvSize - 1
Understanding == server \in {"serve", "undefined"} \/ page # NoPage => parsed = Parse(Received)
Answering     == page # NoPage => \E m \in ParseMethod(MethodToken(Received, parsed)) :
                                     page = Answer(m, PathText(Received, parsed))
Lost          == /\ server = "undefined" => page = Nowhere \/ Strays(parsed)
                 /\ page = Nowhere => server = "undefined"

(* What a user who types a path asks for.                                  *)
TypedUrl(node, slash) == EncodePath(node) \o (IF slash THEN <<Slash>> ELSE <<>>)
TypedRequest(r, sought) ==
    \E node \in DOMAIN tree, slash \in BOOLEAN :
       (node = <<>> => slash) /\ sought = {node} /\ r = Get(TypedUrl(node, slash))
Typing == how = "typed" => TypedRequest(asked, want)

IInv == /\ TypeOK /\ asked \in Requests /\ parsed \in Parses
        /\ Arrived /\ Awaiting /\ Unanswered /\ Filled /\ Understanding /\ Answering /\ Lost
        /\ Typing

LEMMA GetTyped ==
  ASSUME NEW url \in Seq(UrlChars)
  PROVE  Get(url) \in Requests
BY DEF Get, Requests, Bodies

LEMMA ParsesTyped ==
  ASSUME NEW p \in Parses
  PROVE  /\ \A f \in DOMAIN p : p[f] \in 0 .. RecvSize
         /\ p.methodEnd \in Int /\ p.pathEnd \in Int
BY RequestAssumption DEF Parses

LEMMA AnswerKinds ==
  ASSUME NEW method, NEW url
  PROVE  Answer(method, url).kind \in {"error", "file", "listing", "redirect", "overrun", "unsaid"}
<1>1. /\ \A code : Error(code).kind = "error"
      /\ \A n : File(n).kind = "file" /\ Listing(n).kind = "listing" /\ Redirect(n).kind = "redirect"
      /\ Nowhere.kind = "overrun" /\ Unsaid.kind = "unsaid"
  BY DEF Error, File, Listing, Redirect, Nowhere, Unsaid
<1>2. \A n : Opened(n).kind \in {"error", "file"}
  BY <1>1 DEF Opened
<1>3. \A path : AnswerDirectory(url, path).kind \in {"error", "file", "listing", "redirect", "overrun"}
  BY <1>1, <1>2 DEF AnswerDirectory
<1>4. AnswerPath(url).kind \in {"error", "file", "listing", "redirect", "overrun", "unsaid"}
  BY <1>1, <1>2, <1>3 DEF AnswerPath
<1> QED BY <1>1, <1>4 DEF Answer

LEMMA PageOrNone == NoPage # Nowhere
<1>1. NoPage.kind = "none" /\ Nowhere.kind = "overrun"
  BY DEF NoPage, Nowhere
<1> QED BY <1>1

LEMMA InitIInv == Init => IInv
<1> SUFFICES ASSUME Init PROVE IInv
  OBVIOUS
<1>1. Parse(<<>>) \in Parses
  <2>1. <<>> \in Seq(Nat) /\ Len(<<>>) < RecvSize
    BY RequestAssumption
  <2> QED BY <2>1, ParseTyped
<1>2. asked \in Requests
  <2>1. <<Slash>> \in Seq(UrlChars)
    BY DEF Slash, UrlChars, SP, CR, LF
  <2> QED BY <2>1, GetTyped DEF Init
<1>3. parsed \in Parses
  BY <1>1 DEF Init
<1>4. TypeOK
  <2>1. Cardinality(want) <= 1
    BY FS_EmptySet DEF Init
  <2>2. got \in 0 .. RecvSize - 1
    BY RequestAssumption DEF Init
  <2>3. \A f \in DOMAIN parsed : parsed[f] \in 0 .. RecvSize
    BY <1>3, ParsesTyped
  <2> QED BY <2>1, <2>2, <2>3 DEF Init, TypeOK, NoPage
<1>5. Arrived
  BY <1>2, RequestFacts, LenProperties DEF Arrived, Init, Size
<1>6. Awaiting /\ Unanswered /\ Filled /\ Understanding /\ Answering /\ Lost /\ Typing
  BY PageOrNone
     DEF Init, Awaiting, Unanswered, Filled, Taken, Understanding, Answering, Lost, Typing
<1> QED BY <1>2, <1>3, <1>4, <1>5, <1>6 DEF IInv

(* A client asks.                                                          *)
LEMMA AskKeeps ==
  ASSUME IInv, NEW r \in Requests, NEW why \in {"typed", "link", "redirect", "other"}, NEW sought,
         Cardinality(sought) <= 1, why = "typed" => TypedRequest(r, sought), Ask(r, why, sought)
  PROVE  IInv'
<1>1. parsed' \in Parses
  <2>1. <<>> \in Seq(Nat) /\ Len(<<>>) < RecvSize
    BY RequestAssumption
  <2> QED BY <2>1, ParseTyped DEF Ask
<1>2. TypeOK'
  <2>1. got' \in 0 .. RecvSize - 1
    BY RequestAssumption DEF Ask
  <2>2. \A f \in DOMAIN parsed' : parsed'[f] \in 0 .. RecvSize
    BY <1>1, ParsesTyped
  <2> QED BY <2>1, <2>2 DEF IInv, TypeOK, Ask, given, NoPage
<1>3. Typing'
  BY DEF Typing, TypedRequest, Ask, given
<1>4. Arrived'
  BY RequestFacts, LenProperties DEF Arrived, Ask, Size
<1>5. Awaiting'
  <2>1. Received' = <<>>
    <3>1. Received' = SubSeq(Request(r), 1, 0)
      BY DEF Received, Beginning, Ask
    <3> QED BY <3>1, SubSeqEmpty
  <2>2. ~Complete(<<>>)
    BY DEF Complete
  <2> QED BY <2>1, <2>2 DEF Awaiting, Ask
<1>6. (Unanswered /\ Filled /\ Understanding /\ Answering /\ Lost)'
  BY PageOrNone DEF Ask, Unanswered, Filled, Taken, Understanding, Answering, Lost
<1>7. asked' \in Requests
  BY DEF Ask
<1> QED BY <1>1, <1>2, <1>3, <1>4, <1>5, <1>6, <1>7 DEF IInv

Asks == \/ \E node \in DOMAIN tree, slash \in BOOLEAN : Type(node, slash)
        \/ \E url \in Mistyped : Mistype(url)
        \/ FollowRedirect \/ ClickParent
        \/ \E node \in DOMAIN tree : ClickEntry(node)
        \/ \E m \in Methods, lines \in {<<>>, HeaderLine}, body \in Bodies :
              AskOtherwise(m, lines, body)

LEMMA ClientAsks == IInv /\ Asks => IInv'
<1> SUFFICES ASSUME IInv, Asks PROVE IInv'
  OBVIOUS
<1>1. ASSUME NEW x PROVE Cardinality({x}) <= 1
  <2>1. Cardinality({x}) = 1
    BY FS_Singleton, Zenon
  <2> QED BY <2>1
<1>2. Cardinality({}) <= 1
  BY FS_EmptySet
<1>11. ASSUME NEW known, NEW x PROVE Cardinality(Meant(known, x)) <= 1
  <2>1. Meant(known, x) \in {{x}, {}}
    BY DEF Meant
  <2> QED BY <1>1, <1>2, <2>1
<1>3. \A node \in DOMAIN tree : node \in Seq(Seq(NameChars))
  BY TreeAssumption DEF IInv, TypeOK
<1>4. asked.url \in Seq(UrlChars)
  BY DEF IInv, Requests
<1>5. ASSUME NEW node \in DOMAIN tree, NEW slash \in BOOLEAN, Type(node, slash) PROVE IInv'
  <2>1. TypedUrl(node, slash) \in Seq(UrlChars)
    BY <1>3, PathTyped DEF TypedUrl
  <2>2. Ask(Get(TypedUrl(node, slash)), "typed", {node}) /\ (node = <<>> => slash)
    BY <1>5 DEF Type, TypedUrl
  <2>3. TypedRequest(Get(TypedUrl(node, slash)), {node})
    BY <2>2 DEF TypedRequest
  <2> QED BY <1>1, <2>1, <2>2, <2>3, GetTyped, AskKeeps
<1>6. ASSUME NEW url \in Mistyped, Mistype(url) PROVE IInv'
  <2>1. url \in Seq(UrlChars)
    BY RequestAssumption
  <2> QED BY <1>2, <1>6, <2>1, GetTyped, AskKeeps DEF Mistype
<1>7. CASE FollowRedirect
  <2>1. Location(asked.url) \in Seq(UrlChars)
    BY <1>4, DirectoryTyped
  <2>2. PICK known, node :
          Ask(Get(Location(asked.url)), "redirect", Meant(known, node))
    BY <1>7 DEF FollowRedirect
  <2> QED BY <1>11, <2>1, <2>2, GetTyped, AskKeeps
<1>8. CASE ClickParent
  <2>1. ParentOf(asked.url) \in Seq(UrlChars)
    BY <1>4, DirectoryTyped DEF ParentOf
  <2>2. PICK known, node :
          Ask(Get(ParentOf(asked.url)), "link", Meant(known, node))
    BY <1>8 DEF ClickParent
  <2> QED BY <1>11, <2>1, <2>2, GetTyped, AskKeeps
<1>9. ASSUME NEW node \in DOMAIN tree, ClickEntry(node) PROVE IInv'
  <2>1. DirectoryOf(asked.url) \in Seq(UrlChars) /\ LinkText(Href(node)) \in Seq(UrlChars)
    BY <1>3, <1>4, <1>9, DirectoryTyped, HrefTyped DEF ClickEntry
  <2>2. DirectoryOf(asked.url) \o LinkText(Href(node)) \in Seq(UrlChars)
    BY <2>1, ConcatProperties
  <2>3. PICK known, sought :
          Ask(Get(DirectoryOf(asked.url) \o LinkText(Href(node))), "link", Meant(known, sought))
    BY <1>9 DEF ClickEntry
  <2> QED BY <1>11, <2>2, <2>3, GetTyped, AskKeeps
<1>10. ASSUME NEW m \in Methods, NEW lines \in {<<>>, HeaderLine}, NEW body \in Bodies,
              AskOtherwise(m, lines, body)
       PROVE  IInv'
  <2>1. <<Slash>> \in Seq(UrlChars)
    BY DEF Slash, UrlChars, SP, CR, LF
  <2>2. [method |-> m, url |-> <<Slash>>, lines |-> lines, body |-> body] \in Requests
    BY <2>1 DEF Requests
  <2> QED BY <1>2, <1>10, <2>2, AskKeeps DEF AskOtherwise
<1> QED BY <1>5, <1>6, <1>7, <1>8, <1>9, <1>10 DEF Asks

(* The request arrives, and is taken.                                      *)
LEMMA ReceivedTyped ==
  ASSUME asked \in Requests, Arrived, got \in 0 .. RecvSize - 1
  PROVE  Received \in Seq(Nat) /\ Len(Received) = got /\ got \in 0 .. Size(asked)
<1>1. Request(asked) \in Seq(Nat) /\ Len(Request(asked)) \in Nat
  BY RequestFacts, LenProperties
<1>2. got \in 0 .. Len(Request(asked))
  BY <1>1 DEF Arrived, Size
<1> QED BY <1>1, <1>2, HoldsBeginning DEF Received, Beginning, Size

LEMMA ArriveKeeps ==
  ASSUME IInv, NEW n \in Pieces \cup {Len(Request(asked)) - got}, Arrive(n)
  PROVE  IInv'
<1>1. got \in 0 .. RecvSize - 1 /\ RecvSize \in Nat /\ asked \in Requests
  BY RequestAssumption DEF IInv, TypeOK
<1>2. PICK N : N = Len(Request(asked))
  OBVIOUS
<1>3. N \in Nat
  BY <1>1, <1>2, RequestFacts, LenProperties
<1>4. n \in Int /\ n > 0 /\ got + n <= N /\ n <= RecvSize - 1 - got
  <2>1. n \in Int
    <3>1. CASE n \in Pieces
      BY <3>1, RequestAssumption
    <3>2. CASE n = N - got
      BY <1>1, <1>3, <3>2
    <3> QED BY <1>2, <3>1, <3>2
  <2> QED BY <1>2, <2>1 DEF Arrive, Room
<1>5. got' = got + n
  BY DEF Arrive
<1>6. got' \in 0 .. RecvSize - 1 /\ got' <= N
  BY <1>1, <1>4, <1>5
<1>7. Arrived'
  BY <1>2, <1>6 DEF Arrived, Arrive, Size, asking
<1>8. Received' = Beginning(got')
  BY DEF Received, Beginning, Arrive, asking
<1>9. (Awaiting /\ Filled)'
  BY <1>8 DEF IInv, Unanswered, Arrive, Awaiting, Filled, Taken, given
<1>10. (Unanswered /\ Understanding /\ Answering /\ Lost)'
  BY DEF IInv, Arrive, Unanswered, Understanding, Answering, Lost
<1>11. TypeOK'
  BY <1>6 DEF IInv, TypeOK, Arrive, given, asking
<1>12. Typing'
  BY DEF IInv, Typing, TypedRequest, Arrive, given, asking
<1>13. (asked \in Requests /\ parsed \in Parses)'
  BY DEF IInv, Arrive, asking
<1> QED BY <1>7, <1>9, <1>10, <1>11, <1>12, <1>13 DEF IInv

LEMMA ReceivedSame ==
  ASSUME UNCHANGED <<asked, got>>
  PROVE  Received' = Received
BY DEF Received, Beginning

LEMMA AnsweringSame ==
  ASSUME UNCHANGED <<tree, asked, got, parsed>>,
         page' # NoPage => \E m \in ParseMethod(MethodToken(Received, parsed)) :
                              page' = Answer(m, PathText(Received, parsed))
  PROVE  Answering'
<1>1. Received' = Received /\ parsed' = parsed
  BY ReceivedSame
<1>2. /\ MethodToken(Received, parsed)' = MethodToken(Received, parsed)
      /\ PathText(Received, parsed)' = PathText(Received, parsed)
  BY <1>1 DEF MethodToken, PathText
<1> SUFFICES ASSUME page' # NoPage
             PROVE  \E m \in ParseMethod(MethodToken(Received, parsed)') :
                       page' = Answer(m, PathText(Received, parsed))'
  BY DEF Answering
<1>3. PICK m \in ParseMethod(MethodToken(Received, parsed)) :
        page' = Answer(m, PathText(Received, parsed))
  OBVIOUS
<1>4. Answer(m, PathText(Received, parsed))' = Answer(m, PathText(Received, parsed))
  BY <1>2 DEF Answer, AnswerPath, AnswerDirectory, Exists, IsDir, Opened, Special
<1> QED BY <1>2, <1>3, <1>4

LEMMA LeaveKeeps == IInv /\ (Leave \/ RecvEnds) => IInv'
<1> SUFFICES ASSUME IInv, Leave \/ RecvEnds PROVE IInv'
  OBVIOUS
<1>1. UNCHANGED <<given, asking, got, parsed, page>>
  BY DEF Leave, RecvEnds
<1>2. Received' = Received
  BY <1>1, ReceivedSame DEF asking
<1>3. gone' = TRUE /\ server = "recv" /\ server' \in {"recv", "parse", "done"}
      /\ (server' = "recv" => gone = FALSE)
  BY DEF Leave, RecvEnds, IInv, TypeOK
<1>4. TypeOK'
  BY <1>1, <1>3 DEF IInv, TypeOK, given, asking
<1>5. Typing'
  BY <1>1 DEF IInv, Typing, TypedRequest, given, asking
<1>6. Arrived' /\ (asked \in Requests)' /\ (parsed \in Parses)'
  BY <1>1 DEF IInv, Arrived, Size, asking
<1>7. (Awaiting /\ Unanswered /\ Filled /\ Understanding /\ Answering /\ Lost)'
  BY <1>1, <1>2, <1>3 DEF IInv, Awaiting, Unanswered, Filled, Understanding, Answering, Lost, given
<1> QED BY <1>4, <1>5, <1>6, <1>7 DEF IInv

LEMMA ParseKeeps == IInv /\ ParseRequest => IInv'
<1> SUFFICES ASSUME IInv, ParseRequest PROVE IInv'
  OBVIOUS
<1>1. UNCHANGED <<given, asking, gone, got, page>>
  BY DEF ParseRequest
<1>2. Received' = Received
  BY <1>1, ReceivedSame DEF asking
<1>3. server = "parse" /\ server' \in {"serve", "undefined"}
      /\ (server' = "undefined" => Strays(parsed')) /\ parsed' = Parse(Received)
  BY DEF ParseRequest
<1>4. parsed' \in Parses
  <2>1. /\ got \in 0 .. RecvSize - 1 /\ RecvSize \in Nat
        /\ Received \in Seq(Nat) /\ Len(Received) = got
    BY ReceivedTyped, RequestAssumption DEF IInv, TypeOK
  <2>2. Len(Received) < RecvSize
    BY <2>1
  <2> QED BY <1>3, <2>1, <2>2, ParseTyped
<1>5. \A f \in DOMAIN parsed' : parsed'[f] \in 0 .. RecvSize
  BY <1>4, ParsesTyped
<1>6. TypeOK'
  BY <1>1, <1>3, <1>5 DEF IInv, TypeOK, given, asking
<1>7. Typing'
  BY <1>1 DEF IInv, Typing, TypedRequest, given, asking
<1>8. Arrived' /\ (asked \in Requests)'
  BY <1>1 DEF IInv, Arrived, Size, asking
<1>9. (Awaiting /\ Unanswered /\ Filled /\ Understanding /\ Answering /\ Lost)'
  BY <1>1, <1>2, <1>3
     DEF IInv, Awaiting, Unanswered, Filled, Taken, Understanding, Answering, Lost, given
<1> QED BY <1>4, <1>6, <1>7, <1>8, <1>9 DEF IInv

LEMMA ServeKeeps == IInv /\ Serve => IInv'
<1> SUFFICES ASSUME IInv, Serve PROVE IInv'
  OBVIOUS
<1>1. UNCHANGED <<given, asking, gone, got, parsed>>
  BY DEF Serve
<1>2. Received' = Received
  BY <1>1, ReceivedSame DEF asking
<1>3. PICK method \in ParseMethod(MethodToken(Received, parsed)) :
        page' = Answer(method, PathText(Received, parsed))
  BY DEF Serve
<1>4. server = "serve" /\ server' \in {"done", "undefined"}
      /\ (server' = "undefined" <=> page' = Nowhere)
  BY DEF Serve
<1>5. TypeOK'
  <2>1. page'.kind \in {"error", "file", "listing", "redirect", "overrun", "unsaid"}
    BY <1>3, AnswerKinds
  <2> QED BY <1>1, <1>4, <2>1 DEF IInv, TypeOK, given, asking
<1>6. Typing'
  BY <1>1 DEF IInv, Typing, TypedRequest, given, asking
<1>7. Arrived' /\ (asked \in Requests)' /\ (parsed \in Parses)'
  BY <1>1 DEF IInv, Arrived, Size, asking
<1>8. (Awaiting /\ Unanswered /\ Filled /\ Understanding /\ Lost)'
  BY <1>1, <1>2, <1>4 DEF IInv, Awaiting, Unanswered, Filled, Taken, Understanding, Lost, given
<1>9. Answering'
  <2>1. UNCHANGED <<tree, asked, got, parsed>>
    BY <1>1 DEF given, asking
  <2> QED BY <1>3, <2>1, AnsweringSame
<1> QED BY <1>5, <1>6, <1>7, <1>8, <1>9 DEF IInv

LEMMA StutterKeeps == IInv /\ UNCHANGED vars => IInv'
<1> SUFFICES ASSUME IInv, UNCHANGED vars PROVE IInv'
  OBVIOUS
<1>1. Received' = Received
  BY ReceivedSame DEF vars, asking
<1>2. TypeOK'
  BY DEF IInv, TypeOK, vars, given, asking
<1>3. Answering'
  <2>1. UNCHANGED <<tree, asked, got, parsed>> /\ page' = page
    BY DEF vars, given, asking
  <2> QED BY <2>1, AnsweringSame DEF IInv, Answering
<1> QED BY <1>1, <1>2, <1>3 DEF IInv, Arrived, Size, Awaiting, Unanswered, Filled, Taken,
                                Understanding, Lost, Typing, TypedRequest, vars, given, asking

LEMMA StepKeeps == IInv /\ [Next]_vars => IInv'
<1> SUFFICES ASSUME IInv, [Next]_vars PROVE IInv'
  OBVIOUS
<1>1. CASE ClientStep
  <2>1. CASE \E n \in Pieces \cup {Len(Request(asked)) - got} : Arrive(n)
    BY <2>1, ArriveKeeps
  <2>2. CASE Leave
    BY <2>2, LeaveKeeps
  <2> QED BY <1>1, <2>1, <2>2, ClientAsks DEF ClientStep, Asks
<1>2. CASE ServerStep
  BY <1>2, LeaveKeeps, ParseKeeps, ServeKeeps DEF ServerStep
<1>3. CASE Terminated \/ UNCHANGED vars
  BY <1>3, StutterKeeps DEF Terminated
<1> QED BY <1>1, <1>2, <1>3 DEF Next

(* The invariant holds throughout the exchange.                           *)
THEOREM Invariance == Spec => []IInv
BY InitIInv, StepKeeps, PTL DEF Spec

(* The variables keep their types.                                         *)
THEOREM TypeCorrect == Spec => []TypeOK
<1>1. IInv => TypeOK
  BY DEF IInv
<1> QED BY <1>1, Invariance, PTL

(* Whatever the files are, serve_http_request shows only what lies below   *)
(* the document root (server_win32.c, server_http.c), for a URL that fits  *)
(* full_path and names no device and no stream: is_safe_path and           *)
(* resolve_file_path let no other way out of the root through.             *)
THEOREM ServedBelowRoot == Spec => []Confined
<1>1. ASSUME IInv, page.kind \in {"file", "listing", "redirect"} PROVE page.node \in DOMAIN tree
  <2> DEFINE url == PathText(Received, parsed)
             S == {Received[i] : i \in parsed.methodEnd + 1 .. parsed.pathEnd - 1}
  <2>1. parsed.methodEnd + 1 \in Int /\ parsed.pathEnd - 1 \in Int
    BY <1>1, ParsesTyped DEF IInv
  <2>2. url \in Seq(S)
    BY <2>1, SubSeqProperties DEF PathText
  <2>3. PICK m : page = Answer(m, url)
    BY <1>1 DEF IInv, Answering, NoPage
  <2> HIDE DEF url, S
  <2> QED BY <1>1, <2>2, <2>3, AnswerConfined
<1>2. IInv => Confined
  BY <1>1 DEF Confined
<1> QED BY <1>2, Invariance, PTL

(* A request with a header line that fits the buffer is understood, in     *)
(* pieces of whatever sizes on Windows 9x, and in one piece on NT.         *)
LEMMA TakenUnderstood ==
  ASSUME IInv, Whole, Taken
  PROVE  Understood(asked, Received)
<1>1. asked \in Requests /\ asked.lines = HeaderLine
  BY DEF IInv, Whole, Requests
<1>2. got \in 0 .. Size(asked)
  BY <1>1, ReceivedTyped DEF IInv, TypeOK
<1>3. PICK N : N = Size(asked)
  OBVIOUS
<1>4. N \in Nat /\ PathEnd(asked) + 8 <= N /\ N < RecvSize
  BY <1>1, <1>3, CharsOf DEF Whole, Fits, Size
<1>5. got \in Endings(asked)
  <2>1. PathEnd(asked) \in Nat
    BY <1>1, CharsOf DEF Chars
  <2>2. CASE platform = "win9x" /\ Complete(Received)
    BY <1>1, <1>2, <2>2, CompleteMeans DEF Received, Beginning
  <2>3. CASE got = N
    BY <1>3, <1>4, <2>1, <2>3 DEF Endings
  <2>4. got = RecvSize - 1 => got = N
    BY <1>2, <1>3, <1>4, RequestAssumption
  <2>5. CASE platform = "nt"
    BY <1>3, <2>3, <2>5 DEF Whole, Size
  <2> QED BY <2>2, <2>3, <2>4, <2>5 DEF IInv, TypeOK, Filled, Whole
<1> QED BY <1>1, <1>5, BeginningUnderstood DEF Received, Beginning

THEOREM RequestsUnderstood == Spec => []RequestUnderstood
<1>1. ASSUME IInv, Whole PROVE RequestUnderstood
  <2>1. asked \in Requests /\ asked.lines = HeaderLine
    BY <1>1 DEF IInv, Whole, Requests
  <2>2. ASSUME got = Len(Request(asked)), asked.body = <<>>, server = "recv" PROVE FALSE
    <3>1. got \in 0 .. Size(asked) /\ got = Size(asked)
      BY <1>1, <2>1, <2>2, ReceivedTyped DEF IInv, TypeOK, Size
    <3>2. Complete(Received)
      BY <2>1, <2>2, <3>1, CompleteMeans DEF Received, Beginning
    <3>3. PICK N : N = Size(asked)
      OBVIOUS
    <3>4. N \in Nat /\ PathEnd(asked) + 8 <= N /\ PathEnd(asked) \in Nat
      BY <2>1, <3>3, CharsOf DEF Chars
    <3>5. got # 0
      BY <3>1, <3>3, <3>4
    <3> QED BY <1>1, <2>2, <3>2, <3>5 DEF IInv, Awaiting
  <2>3. Taken => Understood(asked, Received)
    BY <1>1, TakenUnderstood
  <2>4. ASSUME server = "undefined" PROVE page = Nowhere
    <3>1. parsed = Parse(Received) /\ (page = Nowhere \/ Strays(parsed))
      BY <1>1, <2>4 DEF IInv, Understanding, Lost
    <3>2. ~Strays(Parse(Received))
      BY <2>3, <2>4 DEF Taken, Understood
    <3> QED BY <3>1, <3>2
  <2>5. ASSUME server = "serve"
        PROVE  /\ MethodToken(Received, parsed) = asked.method
               /\ PathText(Received, parsed) = asked.url
               /\ SubSeq(Received, parsed.header, parsed.headerEnd + 1) = asked.lines
    <3>1. parsed = Parse(Received)
      BY <1>1, <2>5 DEF IInv, Understanding
    <3> QED BY <2>3, <2>5, <3>1 DEF Taken, Understood
  <2> QED BY <2>2, <2>4, <2>5 DEF RequestUnderstood
<1>2. IInv => RequestUnderstood
  BY <1>1 DEF RequestUnderstood
<1> QED BY <1>2, Invariance, PTL
-----------------------------------------------------------------------------
(* The path that names a node leads to it.                                 *)
PathChars == NameChars \cup {Slash}

PathGood(node, m, p) ==
    /\ p \in Seq(PathChars) /\ Walk(p) = SubSeq(node, 1, m)
    /\ ~DoubleDot(node) => NoDots(p)
    /\ m = 0 => p = <<>>
    /\ m # 0 => p # <<>> /\ p[1] = Slash /\ p[Len(p)] \in NameChars

LEMMA NameCharsPlain ==
  /\ \A c \in NameChars : c \notin Separators
  /\ \A c \in PathChars : c \in Nat /\ c # 0 /\ c # Backslash /\ c # Colon /\ c \notin Forbidden
<1>1. ASSUME NEW c \in 32 .. 255 PROVE c \in Nat /\ c # 0
  OBVIOUS
<1>2. Slash \in 32 .. 255 /\ Slash \notin Forbidden /\ Slash # Backslash /\ Slash # Colon
  BY DEF Slash, Forbidden, Backslash, Colon
<1> QED BY <1>1, <1>2 DEF NameChars, PathChars, Separators

LEMMA NoDotsBetween ==
  ASSUME NEW S, NEW p \in Seq(S), NEW name \in Seq(S), Slash \in S, NoDots(p), NoDots(name)
  PROVE  NoDots(p \o (<<Slash>> \o name))
<1> DEFINE path == p \o (<<Slash>> \o name)
           l    == Len(p)
           n    == Len(name)
<1>1. l \in Nat /\ n \in Nat /\ Slash # Dot
  BY LenProperties DEF Slash, Dot
<1>2. /\ Len(path) = l + n + 1
      /\ \A i \in 1 .. l : path[i] = p[i]
      /\ path[l + 1] = Slash
      /\ \A i \in 1 .. n : path[l + 1 + i] = name[i]
  BY SlashBetween
<1>3. \A i \in 1 .. l - 1 : ~(p[i] = Dot /\ p[i + 1] = Dot)
  BY DEF NoDots
<1>4. \A i \in 1 .. n - 1 : ~(name[i] = Dot /\ name[i + 1] = Dot)
  BY DEF NoDots
<1> HIDE DEF path, l, n
<1>5. ASSUME NEW i \in 1 .. Len(path) - 1, path[i] = Dot, path[i + 1] = Dot PROVE FALSE
  <2>1. CASE i \in 1 .. l - 1
    <3>1. i \in 1 .. l /\ i + 1 \in 1 .. l
      BY <1>1, <2>1
    <3> QED BY <1>2, <1>3, <1>5, <2>1, <3>1
  <2>2. CASE i = l \/ i = l + 1
    BY <1>1, <1>2, <1>5, <2>2
  <2>3. CASE i > l + 1
    <3>1. PICK j : j = i - (l + 1)
      OBVIOUS
    <3>2. /\ j \in 1 .. n - 1 /\ j \in 1 .. n /\ j + 1 \in 1 .. n
          /\ l + 1 + j = i /\ l + 1 + (j + 1) = i + 1
      BY <1>1, <1>2, <2>3, <3>1
    <3>3. name[j] = path[i] /\ name[j + 1] = path[i + 1]
      BY <1>2, <3>2
    <3> QED BY <1>4, <1>5, <3>2, <3>3
  <2>4. i \in 1 .. l - 1 \/ i = l \/ i = l + 1 \/ i > l + 1
    BY <1>1
  <2> QED BY <2>1, <2>2, <2>3, <2>4
<1> QED BY <1>5 DEF NoDots, path

LEMMA PathStep ==
  ASSUME NEW node \in Seq(Seq(NameChars)), \A i \in 1 .. Len(node) : ValidName(node[i]),
         NEW m \in 0 .. Len(node) - 1, NEW p, PathGood(node, m, p)
  PROVE  PathGood(node, m + 1, p \o (<<Slash>> \o node[m + 1]))
<1> DEFINE name == node[m + 1]
           path == p \o (<<Slash>> \o name)
<1>1. Len(node) \in Nat /\ m + 1 \in 1 .. Len(node) /\ m \in Nat /\ m + 1 # 0
  BY LenProperties
<1>2. name \in Seq(NameChars) /\ name \notin {<<>>, <<Dot>>, <<Dot, Dot>>}
  BY <1>1 DEF ValidName
<1>3. /\ p \in Seq(PathChars) /\ Walk(p) = SubSeq(node, 1, m) /\ (~DoubleDot(node) => NoDots(p))
      /\ m = 0 => p = <<>>
      /\ m # 0 => p # <<>> /\ p[1] = Slash
  BY DEF PathGood
<1> HIDE DEF name
<1>4. name \in Seq(PathChars) /\ Slash \in PathChars
  BY <1>2, SeqMonotonic DEF PathChars
<1>5. Len(name) \in Nat \ {0} /\ Len(p) \in Nat
  BY <1>2, <1>3, EmptySeq, LenProperties
<1>6. /\ path \in Seq(PathChars) /\ Len(path) = Len(p) + Len(name) + 1
      /\ \A i \in 1 .. Len(p) : path[i] = p[i]
      /\ path[Len(p) + 1] = Slash
      /\ \A i \in 1 .. Len(name) : path[Len(p) + 1 + i] = name[i]
  <2>1. p \in Seq(PathChars)
    BY <1>3
  <2> QED BY <1>4, <2>1, SlashBetween
<1>7. Walk(path) = SubSeq(node, 1, m + 1)
  <2>1. \A i \in 1 .. Len(name) : name[i] \notin Separators
    BY <1>2, ElementOfSeq, NameCharsPlain
  <2>2. Walk(path) = Into(SubSeq(node, 1, m), name)
    BY <1>3, <1>4, <2>1, WalkInto
  <2>3. Into(SubSeq(node, 1, m), name) = Append(SubSeq(node, 1, m), name)
    BY <1>2 DEF Into
  <2>4. SubSeq(node, 1, m) \in Seq(Seq(NameChars))
    BY <1>1, BeginningTyped
  <2>5. Append(SubSeq(node, 1, m), name) = SubSeq(node, 1, m) \o <<name>>
    BY <1>2, <2>4, AppendIsConcat
  <2>6. SubSeq(node, 1, m + 1) = SubSeq(node, 1, m) \o <<name>>
    <3>1. PICK k : k = m + 1
      OBVIOUS
    <3>2. k \in 1 .. Len(node) /\ 1 \in 1 .. Len(node) /\ k - 1 = m /\ k \in 1 .. Len(node)
      BY <1>1, <3>1
    <3>3. SubSeq(node, 1, k) = SubSeq(node, 1, k - 1) \o <<node[k]>>
      BY <3>2, SubSeqRecursiveSecond
    <3> QED BY <3>1, <3>2, <3>3 DEF name
  <2> QED BY <2>2, <2>3, <2>5, <2>6
<1>8. ASSUME ~DoubleDot(node) PROVE NoDots(path)
  <2>1. NoDots(name)
    BY <1>1, <1>8 DEF DoubleDot, NoDots, name
  <2> QED BY <1>3, <1>4, <1>8, <2>1, NoDotsBetween
<1>9. path # <<>> /\ path[1] = Slash /\ path[Len(path)] \in NameChars
  <2>1. path[1] = Slash
    <3>1. CASE m = 0
      <4>1. Len(p) = 0 /\ Len(p) + 1 = 1
        BY <1>3, <3>1, EmptySeq
      <4> QED BY <1>6, <4>1
    <3>2. CASE m # 0
      <4>1. 1 \in 1 .. Len(p)
        BY <1>3, <3>2, EmptySeq
      <4> QED BY <1>3, <1>6, <3>2, <4>1
    <3> QED BY <3>1, <3>2
  <2>2. path[Len(path)] \in NameChars
    <3>1. PICK l : l = Len(name)
      OBVIOUS
    <3>2. l \in 1 .. Len(name) /\ Len(path) = Len(p) + 1 + l
      BY <1>5, <1>6, <3>1
    <3>3. name[l] \in NameChars
      BY <1>2, <3>2, ElementOfSeq
    <3> QED BY <1>6, <3>2, <3>3
  <2>3. Len(path) # 0
    BY <1>5, <1>6
  <2> QED BY <2>1, <2>2, <2>3, EmptySeq
<1> QED BY <1>1, <1>6, <1>7, <1>8, <1>9 DEF PathGood, name

LEMMA WalkNowhere == Walk(<<>>) = <<>>
<1>1. PICK p : p = <<>>
  OBVIOUS
<1>2. p \in Seq(NameChars) /\ Len(p) = 0
  BY <1>1, EmptySeq
<1>3. PICK k : k = Len(p) + 1
  OBVIOUS
<1>4. k = 1 /\ k \in 0 .. Len(p) + 1 /\ k \in 1 .. Len(p) + 1 /\ k # 0 /\ k - 1 = 0 /\ 0 \in 0 .. Len(p) + 1
      /\ Len(p) \in Nat
  BY <1>2, <1>3
<1>5. Steps(p)[0] = <<>>
  BY <1>4, StepsDef
<1>6. NameBefore(p, k) = <<>>
  <2>0. p \in Seq(NameChars) /\ k \in 1 .. Len(p) + 1
    BY <1>2, <1>4
  <2>1. NameBefore(p, k) \in Seq(NameChars) /\ Len(NameBefore(p, k)) = k - NameFrom(p, k)
        /\ NameFrom(p, k) \in 1 .. k
    BY <2>0, NameFacts
  <2>2. Len(NameBefore(p, k)) = 0
    BY <1>4, <2>1
  <2> QED BY <2>1, <2>2, EmptySeq
<1>7. Steps(p)[k] = Into(Steps(p)[k - 1], NameBefore(p, k))
  <2>1. Ends(p, k)
    BY <1>3 DEF Ends
  <2> QED BY <1>4, <2>1, StepsDef
<1>8. Steps(p)[k] = Into(<<>>, <<>>)
  BY <1>4, <1>5, <1>6, <1>7
<1> QED BY <1>1, <1>3, <1>8 DEF Walk, Into

LEMMA PathFacts ==
  ASSUME NEW node \in Seq(Seq(NameChars)), \A i \in 1 .. Len(node) : ValidName(node[i])
  PROVE  PathGood(node, Len(node), PathOf(node))
<1> DEFINE n == Len(node)
           g == [i \in 1 .. n |-> <<Slash>> \o node[i]]
           T == {m \in Nat : m <= n => PathGood(node, m, FirstOnes(g, m))}
<1>1. n \in Nat
  BY LenProperties
<1>2. ASSUME NEW i \in 1 .. n PROVE <<Slash>> \o node[i] \in Seq(PathChars)
  <2>1. node[i] \in Seq(NameChars)
    BY ElementOfSeq
  <2>2. node[i] \in Seq(PathChars) /\ <<Slash>> \in Seq(PathChars)
    BY <2>1, SeqMonotonic DEF PathChars
  <2> QED BY <2>2, ConcatProperties
<1>3. g \in Seq(Seq(PathChars)) /\ Len(g) = n /\ \A i \in 1 .. n : g[i] = <<Slash>> \o node[i]
  BY <1>1, <1>2
<1>4. PathOf(node) = FlattenSeq(g)
  BY DEF PathOf
<1> HIDE DEF g
<1>5. 0 \in T
  <2>1. FirstOnes(g, 0) = <<>>
    BY <1>3, FlattenFacts
  <2>2. <<>> \in Seq(PathChars) /\ SubSeq(node, 1, 0) = <<>> /\ Len(<<>>) = 0
    BY EmptySeq, SubSeqEmpty
  <2>3. NoDots(<<>>)
    <3>1. \A i \in 1 .. Len(<<>>) - 1 : FALSE
      BY <2>2
    <3> QED BY <3>1 DEF NoDots
  <2>4. PathGood(node, 0, <<>>)
    BY <2>2, <2>3, WalkNowhere DEF PathGood
  <2> QED BY <2>1, <2>4
<1>6. ASSUME NEW m \in Nat, m \in T PROVE m + 1 \in T
  <2> SUFFICES ASSUME m + 1 <= n PROVE PathGood(node, m + 1, FirstOnes(g, m + 1))
    OBVIOUS
  <2>1. m \in 0 .. n - 1 /\ m + 1 \in 1 .. n
    BY <1>1
  <2>2. FirstOnes(g, m + 1) = FirstOnes(g, m) \o (<<Slash>> \o node[m + 1])
    BY <1>3, <2>1, FlattenFacts
  <2>3. PathGood(node, m, FirstOnes(g, m))
    BY <1>1, <1>6, <2>1
  <2> QED BY <2>1, <2>2, <2>3, PathStep
<1>7. n \in T
  <2> HIDE DEF T, n
  <2> QED BY <1>1, <1>5, <1>6, SetInduction
<1>8. PathOf(node) = FirstOnes(g, n)
  BY <1>3, <1>4, FlattenFacts
<1> QED BY <1>1, <1>7, <1>8

(* What the user means; and url_decode undoes what a browser encodes, for  *)
(* every path whatever characters its names have.                          *)
TypedPath(node, slash) == PathOf(node) \o (IF slash THEN <<Slash>> ELSE <<>>)

THEOREM TypedDecodes ==
  ASSUME NEW node \in Seq(Seq(NameChars)), NEW slash \in BOOLEAN
  PROVE  UrlDecode(TypedUrl(node, slash)) = TypedPath(node, slash)
<1> DEFINE e == IF slash THEN <<Slash>> ELSE <<>>
<1>1. Encodes(e, e)
  <2>1. Slash \in Nat /\ Slash \notin {Percent, Plus}
    BY DEF Slash, Percent, Plus
  <2>2. Encodes(<<Slash>>, <<Slash>>)
    BY <2>1, EncodesPlain
  <2> QED BY <2>2, EncodesNothing
<1>2. Encodes(TypedUrl(node, slash), TypedPath(node, slash))
  BY <1>1, EncodesPath, EncodesConcat DEF TypedUrl, TypedPath
<1>3. ASSUME NEW s, NEW t, Encodes(s, t) PROVE UrlDecode(s) = t
  <2>1. s \in Seq(Nat) /\ t \in Seq(Nat) /\ <<>> \in Seq(Nat)
    BY <1>3, EmptySeq DEF Encodes
  <2>2. UrlDecode(s \o <<>>) = t \o UrlDecode(<<>>)
    BY <1>3, <2>1 DEF Encodes
  <2>3. UrlDecode(<<>>) = <<>>
    <3>1. DecodeFrom(<<>>)[1] = <<>>
      <4>1. Len(<<>>) = 0 /\ 1 \in 1 .. 0 + 1 /\ 1 > 0
        BY EmptySeq
      <4>2. PICK z : z = <<>>
        OBVIOUS
      <4>3. Len(z) \in Nat /\ 1 \in 1 .. Len(z) + 1 /\ 1 > Len(z)
        BY <4>1, <4>2
      <4>4. DecodeFrom(z)[1] = <<>>
        BY <4>3, DecodeDef
      <4> QED BY <4>2, <4>4
    <3> QED BY <3>1 DEF UrlDecode
  <2> QED BY <2>1, <2>2, <2>3, ConcatEmptySeq
<1> QED BY <1>2, <1>3

(* What a typed URL says, once decoded.                                    *)
Named(node) == node \in Seq(Seq(NameChars)) /\ \A i \in 1 .. Len(node) : ValidName(node[i])

LEMMA NamedPlainly == ASSUME NEW node, Named(node) PROVE ~Special(node)
<1> SUFFICES ASSUME NEW i \in 1 .. Len(node) PROVE node[i] \notin Devices /\ Colon \notin Range(node[i])
  BY DEF Special
<1>1. node[i] \in Seq(NameChars) /\ node[i] \notin Devices
  BY DEF Named, ValidName
<1>2. \A k \in DOMAIN node[i] : node[i][k] \in NameChars
  BY <1>1, LenProperties, ElementOfSeq
<1>3. Colon \notin NameChars
  BY DEF NameChars
<1> QED BY <1>1, <1>2, <1>3 DEF Range

Names(node, slash, path) ==
    /\ path \in Seq(PathChars) /\ path # <<>> /\ path[1] = Slash
    /\ Walk(path) = node
    /\ ~DoubleDot(node) => NoDots(path)
    /\ Len(path) = Len(PathOf(node)) + (IF slash THEN 1 ELSE 0)
    /\ path[Len(path)] \in Separators <=> slash

LEMMA TypedNames ==
  ASSUME NEW node, Named(node), NEW slash \in BOOLEAN, node = <<>> => slash
  PROVE  Names(node, slash, TypedPath(node, slash))
<1> DEFINE p == PathOf(node)
<1>1. /\ p \in Seq(PathChars) /\ (~DoubleDot(node) => NoDots(p))
      /\ Len(node) = 0 => p = <<>>
      /\ Len(node) # 0 => p # <<>> /\ p[1] = Slash /\ p[Len(p)] \in NameChars
  BY PathFacts DEF PathGood, Named
<1>2. Walk(p) = node
  <2>1. Walk(p) = SubSeq(node, 1, Len(node))
    BY PathFacts DEF PathGood, Named
  <2> QED BY <2>1, SubSeqFull DEF Named
<1>3. (node = <<>> <=> Len(node) = 0) /\ Len(p) \in Nat
  BY <1>1, EmptySeq, LenProperties DEF Named
<1> HIDE DEF p
<1>4. CASE ~slash
  <2>1. TypedPath(node, slash) = p
    BY <1>1, <1>4, ConcatEmptySeq DEF TypedPath, p
  <2>2. p # <<>> /\ p[1] = Slash /\ p[Len(p)] \notin Separators
    BY <1>1, <1>3, <1>4, NameCharsPlain
  <2>3. Len(p) = Len(p) + 0
    BY <1>3
  <2> QED BY <1>1, <1>2, <1>4, <2>1, <2>2, <2>3 DEF Names, p
<1>5. CASE slash
  <2> DEFINE path == p \o (<<Slash>> \o <<>>)
  <2>1. TypedPath(node, slash) = path
    <3>1. <<Slash>> \in Seq(PathChars)
      BY DEF PathChars
    <3>2. <<Slash>> \o <<>> = <<Slash>>
      BY <3>1, ConcatEmptySeq
    <3> QED BY <1>5, <3>2 DEF TypedPath, p
  <2>2. <<>> \in Seq(PathChars) /\ Len(<<>>) = 0 /\ Slash \in PathChars
    BY EmptySeq DEF PathChars
  <2>3. /\ path \in Seq(PathChars) /\ Len(path) = Len(p) + Len(<<>>) + 1
        /\ \A i \in 1 .. Len(p) : path[i] = p[i]
        /\ path[Len(p) + 1] = Slash
    BY <1>1, <2>2, SlashBetween
  <2>4. Walk(path) = node
    <3>1. \A i \in 1 .. Len(<<>>) : <<>>[i] \notin Separators
      BY <2>2
    <3>2. Walk(path) = Into(Walk(p), <<>>)
      BY <1>1, <2>2, <3>1, WalkInto
    <3> QED BY <1>2, <3>2 DEF Into
  <2>5. ASSUME ~DoubleDot(node) PROVE NoDots(path)
    <3>1. \A i \in 1 .. Len(<<>>) - 1 : FALSE
      BY <2>2
    <3>2. NoDots(<<>>)
      BY <3>1 DEF NoDots
    <3> QED BY <1>1, <2>2, <2>5, <3>2, NoDotsBetween
  <2> HIDE DEF path
  <2>6. Len(path) = Len(p) + 1
    BY <1>3, <2>2, <2>3
  <2>7. path[Len(path)] \in Separators
    BY <2>3, <2>6 DEF Separators
  <2>8. path # <<>>
    BY <1>3, <2>2, <2>6
  <2>9. path[1] = Slash
    <3>1. CASE Len(node) = 0
      <4>1. Len(p) + 1 = 1
        BY <1>1, <2>2, <3>1
      <4> QED BY <2>3, <4>1
    <3>2. CASE Len(node) # 0
      <4>1. 1 \in 1 .. Len(p)
        BY <1>1, <3>2, EmptySeq
      <4> QED BY <1>1, <2>3, <3>2, <4>1
    <3> QED BY <3>1, <3>2
  <2> QED BY <1>5, <2>1, <2>3, <2>4, <2>5, <2>6, <2>7, <2>8, <2>9 DEF Names, p
<1> QED BY <1>4, <1>5

LEMMA CStringWhole ==
  ASSUME NEW S, NEW s \in Seq(S), 0 \notin S
  PROVE  CString(s) = s
<1> DEFINE t == Append(s, 0)
           I == {i \in 1 .. Len(t) : t[i] = 0}
<1>1. Len(s) \in Nat
  BY LenProperties
<1>2. /\ Len(t) = Len(s) + 1 /\ t[Len(s) + 1] = 0
      /\ \A i \in 1 .. Len(s) : t[i] = s[i]
  <2>1. s \in Seq(S \cup {0})
    BY SeqMonotonic
  <2> QED BY <2>1, AppendProperties
<1>3. \A i \in 1 .. Len(s) : s[i] # 0
  BY ElementOfSeq
<1> HIDE DEF t
<1>4. I = {Len(s) + 1}
  <2>1. \A i \in 1 .. Len(s) + 1 : i \in 1 .. Len(s) \/ i = Len(s) + 1
    BY <1>1
  <2>2. Len(s) + 1 \in 1 .. Len(s) + 1
    BY <1>1
  <2> QED BY <1>2, <1>3, <2>1, <2>2
<1>5. I # {} /\ I \subseteq Nat
  BY <1>1, <1>4
<1>6. SelectInSeq(t, LAMBDA c : c = 0) = Min(I)
  BY <1>5 DEF SelectInSeq
<1> HIDE DEF I
<1>7. Min(I) \in I
  BY <1>5, MinFacts
<1>8. Min(I) - 1 = Len(s)
  BY <1>1, <1>4, <1>7
<1>9. CString(s) = SubSeq(s, 1, Len(s))
  BY <1>6, <1>8 DEF CString, t
<1> QED BY <1>9, SubSeqFull

(* A typed URL ends with a slash only when the user typed one.             *)
LEMMA TypedEnd ==
  ASSUME NEW node, Named(node), NEW slash \in BOOLEAN, node = <<>> => slash
  PROVE  LET url == TypedUrl(node, slash) IN
         Len(url) \in Nat \ {0} /\ (Last(url) = Slash <=> slash)
<1> DEFINE e == EncodePath(node)
           url == TypedUrl(node, slash)
<1>1. e \in Seq(UrlChars) /\ Len(e) \in Nat
  BY PathTyped, LenProperties DEF Named
<1> HIDE DEF e
<1>2. CASE slash
  <2>1. url = e \o <<Slash>>
    BY <1>2 DEF TypedUrl, e
  <2>2. PICK s : s = <<Slash>>
    OBVIOUS
  <2>3. s \in Seq(UrlChars) /\ Len(s) = 1 /\ s[1] = Slash
    BY <2>2 DEF Slash, UrlChars, SP, CR, LF
  <2>4. /\ Len(url) = Len(e) + Len(s)
        /\ \A i \in 1 .. Len(e) + Len(s) : url[i] = IF i <= Len(e) THEN e[i] ELSE s[i - Len(e)]
    BY <1>1, <2>1, <2>2, <2>3, ConcatProperties
  <2> HIDE DEF url
  <2>5. PICK k : k = Len(e) + 1
    OBVIOUS
  <2>6. k \in 1 .. Len(e) + Len(s) /\ ~(k <= Len(e)) /\ k - Len(e) = 1 /\ Len(url) = k
    BY <1>1, <2>3, <2>4, <2>5
  <2>7. url[k] = Slash
    BY <2>3, <2>4, <2>6
  <2>8. Len(url) \in Nat \ {0}
    BY <1>1, <2>5, <2>6
  <2> QED BY <1>2, <2>6, <2>7, <2>8 DEF Last, url
<1>3. CASE ~slash
  <2> DEFINE n == Len(node)
             f == [i \in 1 .. n |-> <<Slash>> \o EncodeName(node[i])]
             p == FirstOnes(f, n - 1)
             name == EncodeName(node[n])
  <2>1. n \in Nat \ {0} /\ n - 1 \in 0 .. n - 1 /\ n \in 1 .. n /\ n - 1 + 1 = n
    BY <1>3, EmptySeq DEF Named
  <2>2. ASSUME NEW i \in 1 .. n PROVE <<Slash>> \o EncodeName(node[i]) \in Seq(UrlChars)
    <3>1. node[i] \in Seq(NameChars)
      BY ElementOfSeq DEF Named
    <3>2. EncodeName(node[i]) \in Seq(UrlChars)
      BY <3>1, NameTyped, SeqMonotonic DEF EntryChars
    <3>3. <<Slash>> \in Seq(UrlChars)
      BY DEF Slash, UrlChars, SP, CR, LF
    <3> QED BY <3>2, <3>3, ConcatProperties
  <2>3. f \in Seq(Seq(UrlChars)) /\ Len(f) = n /\ \A i \in 1 .. n : f[i] = <<Slash>> \o EncodeName(node[i])
    BY <2>1, <2>2
  <2>4. e = FlattenSeq(f)
    BY DEF EncodePath, e
  <2> HIDE DEF f
  <2>5. e = FirstOnes(f, n)
    BY <2>3, <2>4, FlattenFacts
  <2>6. p \in Seq(UrlChars) /\ FirstOnes(f, n - 1 + 1) = p \o f[n - 1 + 1]
    <3> HIDE DEF n
    <3>1. \A i \in 0 .. Len(f) : FirstOnes(f, i) \in Seq(UrlChars)
      BY <2>3, FlattenFacts
    <3>2. \A i \in 0 .. Len(f) - 1 : FirstOnes(f, i + 1) = FirstOnes(f, i) \o f[i + 1]
      BY <2>3, FlattenFacts
    <3>3. n - 1 \in 0 .. Len(f) /\ n - 1 \in 0 .. Len(f) - 1
      BY <2>1, <2>3
    <3> QED BY <3>1, <3>2, <3>3
  <2>7. e = p \o (<<Slash>> \o name)
    BY <2>1, <2>3, <2>5, <2>6
  <2>8. url = e
    BY <1>1, <1>3, ConcatEmptySeq DEF TypedUrl, e
  <2>9. node[n] \in Seq(NameChars) /\ node[n] # <<>>
    BY <2>1, ElementOfSeq DEF Named, ValidName
  <2>10. name \in Seq(EntryChars)
    BY <2>9, NameTyped
  <2>11. name # <<>>
    <3>1. ASSUME name = <<>> PROVE FALSE
      <4>1. Encodes(name, node[n])
        BY <2>9, EncodesName
      <4>2. Encodes(<<>>, node[n])
        BY <3>1, <4>1
      <4>3. <<>> \in Seq(Nat) /\ <<>> \o <<>> = <<>>
        BY EmptySeq, ConcatEmptySeq
      <4>4. UrlDecode(<<>>) = node[n] \o UrlDecode(<<>>)
        BY <4>2, <4>3 DEF Encodes
      <4>5. UrlDecode(<<>>) = <<>> \o UrlDecode(<<>>)
        BY <4>3, EncodesNothing DEF Encodes
      <4>6. UrlDecode(<<>>) \in Seq(Int) /\ node[n] \in Seq(Int)
        <5>1. NameChars \subseteq Int
          <6>1. \A c \in 32 .. 255 : c \in Int
            OBVIOUS
          <6> QED BY <6>1 DEF NameChars
        <5>2. node[n] \in Seq(Int)
          BY <2>9, <5>1, SeqMonotonic
        <5> QED BY <4>3, <5>2, DecodeNat
      <4>7. node[n] = <<>>
        BY <4>4, <4>6, ConcatEqualIffEmpty
      <4> QED BY <2>9, <4>7
    <3> QED BY <3>1
  <2> HIDE DEF p, name, n
  <2>12. name \in Seq(UrlChars) /\ Slash \in UrlChars
    BY <2>10, SeqMonotonic DEF EntryChars, Slash, UrlChars, SP, CR, LF
  <2>13. /\ Len(e) = Len(p) + Len(name) + 1
         /\ \A i \in 1 .. Len(name) : e[Len(p) + 1 + i] = name[i]
    BY <2>6, <2>7, <2>12, SlashBetween
  <2>14. PICK l : l = Len(name)
    OBVIOUS
  <2>15. l \in 1 .. Len(name) /\ Len(p) \in Nat /\ Len(e) = Len(p) + 1 + l /\ Len(e) # 0
    BY <2>6, <2>10, <2>11, <2>13, <2>14, EmptySeq, LenProperties
  <2>16. e[Len(e)] \in EntryChars
    BY <2>10, <2>13, <2>15, ElementOfSeq
  <2> QED BY <1>1, <1>3, <2>8, <2>15, <2>16 DEF Last, EntryChars
<1> QED BY <1>2, <1>3

LEMMA WalkIndex ==
  /\ Walk(Index) = <<Index>> /\ ~EndsOpen(Index) /\ <<Index>> # Outside
<1>1. Index \in Seq(NameChars) /\ Index \notin {<<>>, <<Dot>>, <<Dot, Dot>>}
  BY TextAssumption DEF ValidName
<1>2. Index \in Seq(PathChars) /\ Slash \in PathChars /\ <<>> \in Seq(PathChars)
  BY <1>1, SeqMonotonic, EmptySeq DEF PathChars
<1>3. \A i \in 1 .. Len(Index) : Index[i] \notin Separators
  BY <1>1, ElementOfSeq, NameCharsPlain
<1>4. Len(Index) \in 1 .. Len(Index)
  BY <1>1, EmptySeq
<1> DEFINE q == <<Slash>> \o Index
<1>5. Walk(q) = <<Index>>
  <2>1. Walk(<<>> \o (<<Slash>> \o Index)) = Into(Walk(<<>>), Index)
    BY <1>2, <1>3, WalkInto
  <2>2. q \in Seq(PathChars)
    <3>1. <<Slash>> \in Seq(PathChars)
      BY <1>2
    <3> QED BY <1>2, <3>1, ConcatProperties
  <2>3. <<>> \o q = q
    BY <2>2, ConcatEmptySeq
  <2>4. Into(<<>>, Index) = <<Index>>
    BY <1>1 DEF Into
  <2> QED BY <2>1, <2>3, <2>4, WalkNowhere
<1>6. q \in Seq(PathChars) /\ Len(q) = 0 + Len(Index) + 1 /\ q[1] = Slash
      /\ \A i \in 1 .. Len(Index) : q[i + 1] = Index[i]
  <2>1. <<>> \o q = q
    <3>1. <<Slash>> \in Seq(PathChars)
      BY <1>2
    <3>2. q \in Seq(PathChars)
      BY <1>2, <3>1, ConcatProperties
    <3> QED BY <3>2, ConcatEmptySeq
  <2>2. PICK z : z = <<>>
    OBVIOUS
  <2>3. z \in Seq(PathChars) /\ Len(z) = 0 /\ z \o q = q
    BY <1>2, <2>1, <2>2, EmptySeq
  <2>4. /\ q \in Seq(PathChars) /\ Len(q) = Len(z) + Len(Index) + 1
        /\ q[Len(z) + 1] = Slash
        /\ \A i \in 1 .. Len(Index) : q[Len(z) + 1 + i] = Index[i]
    <3>1. LET path == z \o (<<Slash>> \o Index) IN
          /\ path \in Seq(PathChars) /\ Len(path) = Len(z) + Len(Index) + 1
          /\ path[Len(z) + 1] = Slash
          /\ \A i \in 1 .. Len(Index) : path[Len(z) + 1 + i] = Index[i]
      BY <1>2, <2>3, SlashBetween
    <3> QED BY <2>3, <3>1
  <2> HIDE DEF q
  <2>5. \A i \in 1 .. Len(Index) : Len(z) + 1 + i = i + 1
    BY <2>3
  <2> QED BY <2>3, <2>4, <2>5
<1> HIDE DEF q
<1>7. Tail(q) = Index
  <2>1. q # <<>>
    BY <1>4, <1>6, EmptySeq
  <2>2. Tail(q) \in Seq(PathChars) /\ Len(Tail(q)) = Len(q) - 1
        /\ \A i \in 1 .. Len(Tail(q)) : Tail(q)[i] = q[i + 1]
    BY <1>6, <2>1, HeadTailProperties
  <2>3. Len(Tail(q)) = Len(Index)
    BY <1>4, <1>6, <2>2
  <2> QED BY <1>2, <1>6, <2>2, <2>3, SeqEqual
<1>8. Walk(Index) = <<Index>>
  <2>1. q # <<>> /\ Head(q) = Slash
    BY <1>4, <1>6, EmptySeq
  <2> QED BY <1>5, <1>6, <1>7, <2>1, WalkLead
<1>9. ~EndsOpen(Index)
  BY <1>3, <1>4 DEF EndsOpen, Last
<1>10. <<Index>> # Outside
  BY <1>1 DEF Outside
<1> QED BY <1>8, <1>9, <1>10

LEMMA OnlyGet == ParseMethod(MethodNames[GET]) = {GET}
<1> DEFINE token == <<71, 69, 84>>
           I == {i \in 1 .. Len(MethodNames) : IsPrefix(Capitals(token), MethodNames[i])}
<1>1. MethodNames[GET] = token /\ MethodNames[1] = token /\ Len(MethodNames) = 4
  BY DEF MethodNames, GET
<1>2. Capitals(token) = token
  <2>1. Capital(71) = 71 /\ Capital(69) = 69 /\ Capital(84) = 84
    BY DEF Capital
  <2>2. Len(token) = 3 /\ token[1] = 71 /\ token[2] = 69 /\ token[3] = 84
    OBVIOUS
  <2> HIDE DEF token
  <2>3. \A i \in 1 .. Len(token) : Capital(token[i]) = token[i]
    BY <2>1, <2>2
  <2>4. Capitals(token) = [i \in 1 .. Len(token) |-> token[i]]
    BY <2>3 DEF Capitals
  <2>5. token = [i \in 1 .. Len(token) |-> token[i]]
    BY DEF token
  <2> QED BY <2>4, <2>5
<1> HIDE DEF token
<1>3. 1 \in I
  <2>1. IsPrefix(token, token)
    BY DEF IsPrefix, token
  <2> QED BY <1>1, <1>2, <2>1
<1>4. I \subseteq 1 .. 4 /\ I \subseteq Nat
  BY <1>1
<1>5. SelectInSeq(MethodNames, LAMBDA name : IsPrefix(Capitals(token), name)) = Min(I)
  BY <1>3 DEF SelectInSeq
<1> HIDE DEF I
<1>6. Min(I) = 1
  <2>1. Min(I) \in I /\ \A i \in I : Min(I) <= i
    BY <1>3, <1>4, MinFacts
  <2>2. Min(I) \in 1 .. 4 /\ Min(I) <= 1
    BY <1>3, <1>4, <2>1
  <2> QED BY <2>2
<1>7. ParseMethod(token) = {1}
  <2>1. PICK first : first = SelectInSeq(MethodNames, LAMBDA name : IsPrefix(Capitals(token), name))
    OBVIOUS
  <2>2. first = 1
    BY <1>5, <1>6, <2>1
  <2>3. ParseMethod(token) = IF first # 0 THEN {first} ELSE 0 .. Len(MethodNames)
    BY <2>1 DEF ParseMethod
  <2> QED BY <2>2, <2>3
<1> QED BY <1>1, <1>7 DEF GET
-----------------------------------------------------------------------------
(* What is answered to a typed URL.                                        *)
Due(node, url, answer) ==
    CASE tree[node] = "dir" /\ Last(url) # Slash -> answer = Redirect(node)
      [] tree[node] # "dir" /\ Last(url) = Slash -> answer = Error(404)
      [] OTHER                                   -> answer \in Right(node)

LEMMA DueCases ==
  ASSUME NEW node, NEW url, NEW answer,
         tree[node] = "dir" /\ Last(url) # Slash => answer = Redirect(node),
         tree[node] # "dir" /\ Last(url) = Slash => answer = Error(404),
         (tree[node] = "dir" <=> Last(url) = Slash) => answer \in Right(node)
  PROVE  Due(node, url, answer)
BY DEF Due

LEMMA NodeAnswered ==
  ASSUME tree \in Trees, NEW node \in DOMAIN tree, NEW slash \in BOOLEAN,
         NEW url, Last(url) = Slash <=> slash, Len(url) \in 1 .. MaxPath - 1,
         NEW path, path = Resolve(url), path \notin Unresolved, Walk(path) = node,
         EndsOpen(path) <=> slash, IndexPathFits(path)
  PROVE  Due(node, url, Answer(GET, url))
<1>1. node # Outside
  <2>1. \A i \in 1 .. Len(node) : ValidName(node[i])
    BY TreeAssumption
  <2>2. ASSUME node = Outside PROVE FALSE
    <3>1. Len(node) = 1 /\ node[1] = <<Dot, Dot>>
      BY <2>2 DEF Outside
    <3>2. ValidName(node[1])
      BY <2>1, <3>1
    <3> QED BY <3>1, <3>2 DEF ValidName
  <2> QED BY <2>2
<1>2. /\ Answer(GET, url) = AnswerPath(url)
      /\ Exists(path) <=> (slash => tree[node] = "dir")
      /\ IsDir(path) <=> tree[node] = "dir"
  BY <1>1 DEF Answer, Exists, IsDir
<1>3. AnswerPath(url) = IF ~Exists(path) THEN Error(404)
                        ELSE IF IsDir(path) THEN AnswerDirectory(url, path)
                        ELSE Opened(node)
  <2>1. Named(node)
    BY TreeAssumption DEF Named
  <2> QED BY <2>1, NamedPlainly DEF AnswerPath, Unresolved
<1>4. CASE tree[node] = "dir" /\ ~slash
  <2>1. AnswerDirectory(url, path) = Redirect(node)
    BY <1>4 DEF AnswerDirectory
  <2> QED BY <1>2, <1>3, <1>4, <2>1, DueCases
<1>5. CASE tree[node] # "dir" /\ slash
  BY <1>2, <1>3, <1>5, DueCases
<1>6. CASE tree[node] # "dir" /\ ~slash
  <2>1. Shown(node) = Opened(node)
    BY <1>6 DEF Shown
  <2>2. Answer(GET, url) \in Right(node)
    BY <1>2, <1>3, <1>6, <2>1 DEF Right
  <2> QED BY <1>6, <2>2, DueCases
<1>7. CASE tree[node] = "dir" /\ slash
  <2>1. AnswerDirectory(url, path) = Shown(node)
    BY <1>7 DEF AnswerDirectory, Shown
  <2>2. Answer(GET, url) \in Right(node)
    BY <1>2, <1>3, <1>7, <2>1 DEF Right
  <2> QED BY <1>7, <2>2, DueCases
<1> QED BY <1>4, <1>5, <1>6, <1>7

LEMMA RootAnswered ==
  ASSUME tree \in Trees, NEW url, Last(url) = Slash, Len(url) \in 1 .. MaxPath - 1,
         Resolve(url) = Index, Index \notin Unresolved, Answer(GET, url) # Nowhere
  PROVE  Due(<<>>, url, Answer(GET, url))
<1> DEFINE node == <<Index>>
<1>1. Walk(Index) = node /\ ~EndsOpen(Index) /\ node # Outside
  BY WalkIndex
<1> HIDE DEF node
<1>2. /\ Answer(GET, url) = AnswerPath(url)
      /\ Exists(Index) <=> node \in DOMAIN tree
      /\ IsDir(Index) <=> tree[node] = "dir"
  BY <1>1 DEF Answer, Exists, IsDir
<1>3. AnswerPath(url) = IF node \notin DOMAIN tree THEN Error(404)
                        ELSE IF tree[node] = "dir" THEN AnswerDirectory(url, Index)
                        ELSE Opened(node)
  <2>1. Named(<<Index>>)
    BY TextAssumption DEF Named, ValidName
  <2> QED BY <1>1, <1>2, <2>1, NamedPlainly DEF AnswerPath, Unresolved, node
<1>4. Home = IF node \in DOMAIN tree THEN Shown(node) ELSE Error(404)
  BY DEF Home, node
<1>5. ASSUME node \in DOMAIN tree, tree[node] = "dir"
      PROVE  AnswerDirectory(url, Index) = Shown(node)
  <2>1. IndexPathFits(Index)
    <3>1. ~IndexPathFits(Index) => AnswerDirectory(url, Index) = Nowhere
      BY DEF AnswerDirectory
    <3> QED BY <1>2, <1>3, <1>5, <3>1
  <2> QED BY <1>1, <1>5, <2>1 DEF AnswerDirectory, Shown
<1>6. ASSUME node \in DOMAIN tree, tree[node] # "dir"
      PROVE  Opened(node) = Shown(node)
  BY <1>6 DEF Shown
<1>7. Answer(GET, url) = Home
  BY <1>2, <1>3, <1>4, <1>5, <1>6
<1>8. Answer(GET, url) \in Right(<<>>)
  BY <1>7 DEF Right
<1>9. tree[<<>>] = "dir"
  BY TreeAssumption
<1> QED BY <1>8, <1>9, DueCases

(* A URL reaches a node along the path that it decodes to.                  *)
Codes == Int \ {0}
Safe(text) == /\ NoDots(text)
              /\ Len(text) >= 2 => text[2] # Backslash
              /\ Len(text) >= 3 => text[3] # Colon
              /\ \A i \in 1 .. Len(text) : text[i] \notin Forbidden
Below(text) == text \in Seq(Codes) /\ text # <<>> /\ text[1] = Slash
Reaches(url, node) ==
    /\ Len(url) \in Nat \ {0}
    /\ Below(UrlDecode(url)) /\ Safe(UrlDecode(url)) /\ Walk(UrlDecode(url)) = node
    /\ UrlDecode(url)[Len(UrlDecode(url))] \in Separators <=> Last(url) = Slash

LEMMA BelowFacts ==
  ASSUME NEW text, Below(text)
  PROVE  /\ Len(text) \in Nat \ {0} /\ Clean(CString(text)) = Tail(text)
         /\ Clean(text) = Tail(text) /\ Walk(Tail(text)) = Walk(text)
         /\ Tail(text) \in Seq(Codes) /\ Len(Tail(text)) = Len(text) - 1
         /\ \A i \in 1 .. Len(text) - 1 : Tail(text)[i] = text[i + 1]
         /\ Tail(text) \notin Unresolved
         /\ IsSafePath(Tail(text)) <=> Safe(text)
<1>1. text \in Seq(Codes) /\ text # <<>> /\ text[1] = Slash /\ Head(text) = Slash
  BY DEF Below
<1>2. Len(text) \in Nat \ {0}
  BY <1>1, EmptySeq, LenProperties
<1>3. /\ Tail(text) \in Seq(Codes) /\ Len(Tail(text)) = Len(text) - 1
      /\ \A i \in 1 .. Len(Tail(text)) : Tail(text)[i] = text[i + 1]
  BY <1>1, HeadTailProperties
<1>4. CString(text) = text
  BY <1>1, CStringWhole DEF Codes
<1>5. Clean(text) = Tail(text)
  BY <1>1 DEF Clean
<1>6. Walk(Tail(text)) = Walk(text)
  BY <1>1, WalkLead
<1> DEFINE p == Tail(text)
<1> HIDE DEF p
<1>7. /\ p \in Seq(Codes) /\ Len(p) = Len(text) - 1 /\ Len(p) \in Nat
      /\ \A i \in 1 .. Len(p) : p[i] = text[i + 1]
  BY <1>2, <1>3 DEF p
<1>8. p \notin Unresolved
  <2>1. ASSUME p \in Unresolved PROVE FALSE
    <3>1. 1 \in 1 .. Len(p) /\ p[1] = 0
      BY <2>1 DEF Unresolved, Refused, Overrun
    <3>2. p[1] \in Codes
      BY <1>7, <3>1, ElementOfSeq
    <3> QED BY <3>1, <3>2 DEF Codes
  <2> QED BY <2>1
<1>9. IsSafePath(p) <=> Safe(text)
  <2>1. text[1] # Dot /\ text[1] \notin Forbidden
    BY <1>1 DEF Slash, Dot, Forbidden
  <2>2. p # <<>> <=> Len(text) >= 2
    BY <1>2, <1>7, EmptySeq
  <2>3. Len(text) >= 2 => p[1] = text[2]
    BY <1>2, <1>7
  <2>4. (Len(p) > 1 <=> Len(text) >= 3) /\ (Len(text) >= 3 => p[2] = text[3])
    BY <1>2, <1>7
  <2>5. (\A i \in 1 .. Len(p) : p[i] \notin Forbidden) <=> \A i \in 1 .. Len(text) : text[i] \notin Forbidden
    <3>1. ASSUME \A i \in 1 .. Len(p) : p[i] \notin Forbidden, NEW i \in 1 .. Len(text)
          PROVE  text[i] \notin Forbidden
      <4>1. CASE i = 1
        BY <2>1, <4>1
      <4>2. CASE i # 1
        <5>1. PICK j : j = i - 1
          OBVIOUS
        <5>2. j \in 1 .. Len(p) /\ j + 1 = i
          BY <1>2, <1>7, <4>2, <5>1
        <5> QED BY <1>7, <3>1, <5>2
      <4> QED BY <4>1, <4>2
    <3>2. ASSUME \A i \in 1 .. Len(text) : text[i] \notin Forbidden, NEW i \in 1 .. Len(p)
          PROVE  p[i] \notin Forbidden
      <4>1. i + 1 \in 1 .. Len(text)
        BY <1>2, <1>7
      <4> QED BY <1>7, <3>2, <4>1
    <3> QED BY <3>1, <3>2
  <2>6. NoDots(p) <=> NoDots(text)
    <3>1. ASSUME NoDots(p), NEW i \in 1 .. Len(text) - 1, text[i] = Dot, text[i + 1] = Dot PROVE FALSE
      <4>1. i # 1
        BY <2>1, <3>1
      <4>2. PICK j : j = i - 1
        OBVIOUS
      <4>3. j \in 1 .. Len(p) - 1 /\ j \in 1 .. Len(p) /\ j + 1 \in 1 .. Len(p) /\ j + 1 = i
        BY <1>2, <1>7, <3>1, <4>1, <4>2
      <4>4. p[j] = text[i] /\ p[j + 1] = text[i + 1]
        BY <1>7, <4>3
      <4> QED BY <3>1, <4>3, <4>4 DEF NoDots
    <3>2. ASSUME NoDots(text), NEW i \in 1 .. Len(p) - 1, p[i] = Dot, p[i + 1] = Dot PROVE FALSE
      <4>1. PICK j : j = i + 1
        OBVIOUS
      <4>2. j \in 1 .. Len(text) - 1 /\ i \in 1 .. Len(p) /\ j \in 1 .. Len(p)
        BY <1>2, <1>7, <3>2, <4>1
      <4>3. p[i] = text[j] /\ p[i + 1] = text[j + 1]
        BY <1>7, <4>1, <4>2
      <4> QED BY <3>2, <4>2, <4>3 DEF NoDots
    <3> QED BY <3>1, <3>2 DEF NoDots
  <2> QED BY <2>2, <2>3, <2>4, <2>5, <2>6 DEF IsSafePath, Safe, NoDots
<1> QED BY <1>2, <1>3, <1>4, <1>5, <1>6, <1>8, <1>9 DEF p

(* The path that resolve_file_path finds: the root's is that of its        *)
(* index.html.                                                             *)
LEMMA ReachesResolves ==
  ASSUME NEW url, NEW node, Reaches(url, node), IndexPathFits(Clean(UrlDecode(url)))
  PROVE  LET path == Resolve(url) IN
         /\ path \notin Unresolved
         /\ Len(UrlDecode(url)) = 1 => path = Index /\ node = <<>> /\ Last(url) = Slash
         /\ Len(UrlDecode(url)) # 1 => /\ Walk(path) = node /\ (EndsOpen(path) <=> Last(url) = Slash)
                                       /\ IndexPathFits(path)
<1> DEFINE text == UrlDecode(url)
           p == Tail(text)
<1>1. /\ Below(text) /\ Safe(text) /\ Walk(text) = node
      /\ text[Len(text)] \in Separators <=> Last(url) = Slash
  BY DEF Reaches
<1> HIDE DEF text
<1>2. /\ Len(text) \in Nat \ {0} /\ Clean(CString(text)) = p
      /\ Clean(text) = p /\ Walk(p) = node
      /\ p \in Seq(Codes) /\ Len(p) = Len(text) - 1
      /\ \A i \in 1 .. Len(text) - 1 : p[i] = text[i + 1]
      /\ p \notin Unresolved /\ IsSafePath(p)
  BY <1>1, BelowFacts
<1> HIDE DEF p
<1>3. IndexPathFits(p) /\ Clean(CString(UrlDecode(url))) = p
  BY <1>2 DEF text
<1>4. PICK M, N : M = Len(p) /\ N = Len(Index)
  OBVIOUS
<1>5. M \in Nat /\ N \in Nat /\ RootLen \in Nat /\ MaxPath \in Nat
  BY <1>2, <1>4, TextAssumption, LenProperties DEF ValidName
<1>6. RootLen + 1 + M + 1 + N < MaxPath
  BY <1>3, <1>4 DEF IndexPathFits
<1>7. RootLen + 1 + M < MaxPath /\ RootLen + 1 + N < MaxPath
  BY <1>5, <1>6
<1>8. Resolve(url) = IF p = <<>> THEN Index ELSE p
  BY <1>2, <1>3, <1>4, <1>7 DEF Resolve
<1>9. p = <<>> <=> Len(text) = 1
  BY <1>2, EmptySeq
<1>10. Index \notin Unresolved
  <2>1. Index \in Seq(NameChars) /\ 0 \notin NameChars
    BY TextAssumption, NameCharsPlain DEF ValidName, PathChars
  <2>2. ASSUME Index \in Unresolved PROVE FALSE
    <3>1. 1 \in 1 .. Len(Index) /\ Index[1] = 0
      BY <2>2 DEF Unresolved, Refused, Overrun
    <3> QED BY <2>1, <3>1, ElementOfSeq
  <2> QED BY <2>2
<1>11. CASE Len(text) = 1
  <2>1. node = <<>>
    BY <1>2, <1>9, <1>11, WalkNowhere
  <2>2. Last(url) = Slash
    BY <1>1, <1>11 DEF Below, Separators
  <2> QED BY <1>8, <1>9, <1>10, <1>11, <2>1, <2>2 DEF text
<1>12. CASE Len(text) # 1
  <2>1. Len(p) \in 1 .. Len(text) - 1 /\ Len(p) + 1 = Len(text)
    BY <1>2, <1>12
  <2>2. Last(p) = text[Len(text)]
    BY <1>2, <2>1 DEF Last
  <2> QED BY <1>1, <1>2, <1>3, <1>8, <1>9, <1>12, <2>2 DEF text, EndsOpen
<1> QED BY <1>11, <1>12 DEF text

LEMMA ReachesAnswered ==
  ASSUME tree \in Trees, NEW node \in DOMAIN tree, NEW url, Reaches(url, node),
         Len(url) < MaxPath, IndexPathFits(Clean(UrlDecode(url))), Answer(GET, url) # Nowhere
  PROVE  Due(node, url, Answer(GET, url))
<1> DEFINE text == UrlDecode(url)
           path == Resolve(url)
<1>1. /\ path \notin Unresolved
      /\ Len(text) = 1 => path = Index /\ node = <<>> /\ Last(url) = Slash
      /\ Len(text) # 1 => Walk(path) = node /\ (EndsOpen(path) <=> Last(url) = Slash) /\ IndexPathFits(path)
  BY ReachesResolves
<1>2. Len(url) \in 1 .. MaxPath - 1
  BY TextAssumption DEF Reaches
<1> HIDE DEF text
<1>3. CASE Len(text) = 1
  BY <1>1, <1>2, <1>3, RootAnswered
<1>4. CASE Len(text) # 1
  <2>1. PICK slash \in BOOLEAN : slash <=> Last(url) = Slash
    OBVIOUS
  <2>2. PICK q : q = path
    OBVIOUS
  <2> QED BY <1>1, <1>2, <1>4, <2>1, <2>2, NodeAnswered
<1> QED BY <1>3, <1>4

(* What was asked is what was answered.                                    *)
LEMMA AnsweredPage ==
  ASSUME IInv, Answered, asked = Get(asked.url)
  PROVE  page = Answer(GET, asked.url) /\ page # Nowhere
<1>1. Taken /\ Whole /\ page # NoPage /\ asked.method = MethodNames[GET]
  BY DEF Answered, Taken, Get
<1>2. /\ MethodToken(Received, Parse(Received)) = asked.method
      /\ PathText(Received, Parse(Received)) = asked.url
  BY <1>1, TakenUnderstood DEF Understood
<1>3. parsed = Parse(Received)
  BY <1>1 DEF IInv, Understanding
<1>4. PICK m \in ParseMethod(MethodToken(Received, parsed)) :
        page = Answer(m, PathText(Received, parsed))
  BY <1>1 DEF IInv, Answering
<1>5. m = GET
  BY <1>1, <1>2, <1>3, <1>4, OnlyGet
<1>6. page # Nowhere
  BY DEF IInv, Lost, Answered
<1> QED BY <1>2, <1>3, <1>4, <1>5, <1>6

LEMMA TypedReaches ==
  ASSUME NEW node, Named(node), NEW slash \in BOOLEAN, node = <<>> => slash, ~DoubleDot(node)
  PROVE  Reaches(TypedUrl(node, slash), node)
<1> DEFINE url  == TypedUrl(node, slash)
           text == TypedPath(node, slash)
<1>1. /\ text \in Seq(PathChars) /\ text # <<>> /\ text[1] = Slash /\ Walk(text) = node
      /\ NoDots(text) /\ (text[Len(text)] \in Separators <=> slash)
  BY TypedNames DEF Names
<1>2. UrlDecode(url) = text
  BY TypedDecodes DEF Named
<1>3. Len(url) \in Nat \ {0} /\ (Last(url) = Slash <=> slash)
  BY TypedEnd
<1> HIDE DEF text, url
<1>4. Below(text)
  <2>1. PathChars \subseteq Codes
    <3>1. \A c \in PathChars : c \in Int
      BY NameCharsPlain
    <3> QED BY <3>1, NameCharsPlain DEF Codes
  <2> QED BY <1>1, <2>1, SeqMonotonic DEF Below
<1>5. Safe(text)
  <2>1. \A i \in 1 .. Len(text) : text[i] \in PathChars
    BY <1>1, ElementOfSeq
  <2>2. \A i \in 1 .. Len(text) : text[i] # Backslash /\ text[i] # Colon /\ text[i] \notin Forbidden
    BY <2>1, NameCharsPlain
  <2>3. Len(text) \in Nat
    BY <1>1, LenProperties
  <2>4. (Len(text) >= 2 => 2 \in 1 .. Len(text)) /\ (Len(text) >= 3 => 3 \in 1 .. Len(text))
    BY <2>3
  <2> QED BY <1>1, <2>2, <2>4 DEF Safe
<1> QED BY <1>1, <1>2, <1>3, <1>4, <1>5 DEF Reaches, url

(* Whatever characters the names of files have, a URL that a user typed    *)
(* and the browser encoded is answered with what it names                  *)
(* (resolve_file_path and serve_http_request).                             *)
THEOREM TypedServed == Spec => []TypedIsServed
<1>1. ASSUME IInv, Answered, how = "typed", NEW sought \in want, ~DoubleDot(sought)
      PROVE  Due(sought, asked.url, page)
  <2>1. PICK node \in DOMAIN tree, slash \in BOOLEAN :
          (node = <<>> => slash) /\ want = {node} /\ asked = Get(TypedUrl(node, slash))
    BY <1>1 DEF IInv, Typing, TypedRequest
  <2>2. sought = node /\ ~DoubleDot(node)
    BY <1>1, <2>1
  <2>3. tree \in Trees /\ Named(node)
    BY <1>1, TreeAssumption DEF IInv, TypeOK, Named
  <2>4. asked.url = TypedUrl(node, slash) /\ asked = Get(asked.url)
    BY <2>1 DEF Get
  <2>5. Reaches(asked.url, node)
    BY <2>1, <2>2, <2>3, <2>4, TypedReaches
  <2>6. page = Answer(GET, asked.url) /\ page # Nowhere
    BY <1>1, <2>4, AnsweredPage
  <2> QED BY <1>1, <2>2, <2>3, <2>5, <2>6, ReachesAnswered DEF Answered
<1>2. IInv => TypedIsServed
  BY <1>1 DEF TypedIsServed, Due
<1> QED BY <1>2, Invariance, PTL
-----------------------------------------------------------------------------
(* Links and redirects: what a URL that is put together decodes to.        *)

(* Decoding a text that ends in no part of an escape is not disturbed by   *)
(* what follows it.                                                        *)
LEMMA DecodeApart ==
  ASSUME NEW s \in Seq(Nat), NEW t \in Seq(Nat), Apart(s)
  PROVE  UrlDecode(s \o t) = UrlDecode(s) \o UrlDecode(t)
<1> DEFINE w == s \o t
           D == DecodeFrom(t)[1]
           T == {m \in Nat : \A i \in 1 .. Len(s) + 1 : i >= Len(s) + 1 - m =>
                               DecodeFrom(w)[i] = DecodeFrom(s)[i] \o D}
<1>1. Len(s) \in Nat /\ Len(t) \in Nat
  BY LenProperties
<1>2. Len(w) = Len(s) + Len(t)
  BY ConcatProperties
<1>3. ASSUME NEW i \in 1 .. Len(s) PROVE w[i] = s[i] /\ s[i] \in Nat
  <2>1. i \in 1 .. Len(s) + Len(t) /\ i <= Len(s)
    BY <1>1
  <2> QED BY <2>1, ConcatProperties, ElementOfSeq
<1>4. D \in Seq(Int)
  BY DecodeNat DEF UrlDecode
<1>5. DecodeFrom(w)[Len(s) + 1] = D
  <2>1. 1 \in 1 .. Len(t) + 1
    BY <1>1
  <2> QED BY <2>1, DecodeShift
<1> HIDE DEF w, D
<1>11. \A i \in 1 .. Len(s) + 1 : DecodeFrom(s)[i] \in Seq(Int)
  <2>1. Nat \cup Int = Int
    OBVIOUS
  <2> QED BY <2>1, DecodeEach
<1>6. 0 \in T
  <2>1. ASSUME NEW i \in 1 .. Len(s) + 1, i >= Len(s) + 1 - 0
        PROVE  DecodeFrom(w)[i] = DecodeFrom(s)[i] \o D
    <3>1. i > Len(s) /\ i = Len(s) + 1
      BY <1>1, <2>1
    <3>2. DecodeFrom(s)[i] = <<>>
      BY <1>1, <3>1, DecodeDef
    <3> QED BY <1>4, <1>5, <3>1, <3>2, EmptySeq, ConcatEmptySeq
  <2> QED BY <2>1
<1>7. ASSUME NEW m \in Nat, m \in T PROVE m + 1 \in T
  <2> SUFFICES ASSUME NEW i \in 1 .. Len(s) + 1, i >= Len(s) + 1 - (m + 1)
               PROVE  DecodeFrom(w)[i] = DecodeFrom(s)[i] \o D
    OBVIOUS
  <2>1. CASE i >= Len(s) + 1 - m
    BY <1>7, <2>1
  <2>2. CASE i < Len(s) + 1 - m
    <3>1. /\ i \in 1 .. Len(s) /\ ~(i > Len(s)) /\ i + 1 \in 1 .. Len(s) + 1
          /\ i \in 1 .. Len(w) + 1 /\ ~(i > Len(w)) /\ Len(w) \in Nat
      BY <1>1, <1>2, <2>2
    <3>2. i + 1 >= Len(s) + 1 - m /\ i + 3 >= Len(s) + 1 - m
      BY <1>1
    <3>3. ASSUME NEW h \in Int, NEW k \in {i + 1, i + 3}, k \in 1 .. Len(s) + 1,
                 DecodeFrom(s)[i] = <<h>> \o DecodeFrom(s)[k],
                 DecodeFrom(w)[i] = <<h>> \o DecodeFrom(w)[k]
          PROVE  DecodeFrom(w)[i] = DecodeFrom(s)[i] \o D
      <4>1. DecodeFrom(s)[k] \in Seq(Int) /\ DecodeFrom(w)[k] = DecodeFrom(s)[k] \o D
        BY <1>7, <1>11, <3>2, <3>3
      <4>2. PICK one : one = <<h>>
        OBVIOUS
      <4>3. one \in Seq(Int)
        BY <4>2
      <4>4. one \o (DecodeFrom(s)[k] \o D) = (one \o DecodeFrom(s)[k]) \o D
        BY <1>4, <4>1, <4>3, Regroup
      <4> QED BY <3>3, <4>1, <4>2, <4>3, <4>4, ConcatProperties
    <3>4. CASE s[i] = Percent
      <4>1. i + 2 <= Len(s)
        <5>1. i \notin {Len(s) - 1, Len(s)}
          BY <3>1, <3>4 DEF Apart
        <5> QED BY <1>1, <3>1, <5>1
      <4>2. i + 2 <= Len(w) /\ i + 1 \in 1 .. Len(s) /\ i + 2 \in 1 .. Len(s) /\ i + 3 \in 1 .. Len(s) + 1
        BY <1>1, <1>2, <3>1, <4>1
      <4>3. w[i] = Percent /\ w[i + 1] = s[i + 1] /\ w[i + 2] = s[i + 2]
        BY <1>3, <3>1, <3>4, <4>2
      <4> DEFINE h == 16 * HexVal(s[i + 1]) + HexVal(s[i + 2])
      <4>4. DecodeFrom(s)[i] = <<h>> \o DecodeFrom(s)[i + 3]
        BY <1>1, <3>1, <3>4, <4>1, DecodeDef
      <4>5. DecodeFrom(w)[i] = <<h>> \o DecodeFrom(w)[i + 3]
        BY <3>1, <4>2, <4>3, DecodeDef
      <4>6. h \in Int
        <5>1. \A c : HexVal(c) \in Int
          BY HexTyped
        <5>2. PICK a, b : a = HexVal(s[i + 1]) /\ b = HexVal(s[i + 2])
          OBVIOUS
        <5>3. a \in Int /\ b \in Int
          BY <5>1, <5>2
        <5> QED BY <5>2, <5>3
      <4> HIDE DEF h
      <4> QED BY <3>3, <4>2, <4>4, <4>5, <4>6
    <3>5. CASE s[i] # Percent
      <4> DEFINE h == IF s[i] = Plus THEN SP ELSE s[i]
      <4>1. w[i] = s[i] /\ h \in Int
        BY <1>3, <3>1 DEF SP
      <4>2. DecodeFrom(s)[i] = <<h>> \o DecodeFrom(s)[i + 1]
        BY <1>1, <3>1, <3>5, DecodeDef
      <4>3. DecodeFrom(w)[i] = <<h>> \o DecodeFrom(w)[i + 1]
        BY <3>1, <3>5, <4>1, DecodeDef
      <4> HIDE DEF h
      <4> QED BY <3>1, <3>3, <4>1, <4>2, <4>3
    <3> QED BY <3>4, <3>5
  <2>3. i >= Len(s) + 1 - m \/ i < Len(s) + 1 - m
    BY <1>1
  <2> QED BY <2>1, <2>2, <2>3
<1>8. \A m \in Nat : m \in T
  <2> HIDE DEF T
  <2> QED BY <1>6, <1>7, SetInduction
<1>9. 1 \in 1 .. Len(s) + 1 /\ 1 >= Len(s) + 1 - Len(s)
  BY <1>1
<1>10. Len(s) \in T
  <2> HIDE DEF T
  <2> QED BY <1>1, <1>8
<1> QED BY <1>9, <1>10 DEF UrlDecode, w, D

LEMMA DecodeSlash == UrlDecode(<<Slash>>) = <<Slash>> /\ UrlDecode(<<>>) = <<>>
<1>1. <<>> \in Seq(Nat) /\ Slash \in Nat /\ Slash \notin {Percent, Plus}
  BY EmptySeq DEF Slash, Percent, Plus
<1>2. UrlDecode(<<>>) = <<>>
  <2>1. Len(<<>>) = 0 /\ 1 \in 1 .. 0 + 1 /\ 1 > 0
    BY EmptySeq
  <2>2. PICK none : none = <<>>
    OBVIOUS
  <2>3. DecodeFrom(none)[1] = <<>>
    BY <2>1, <2>2, DecodeDef
  <2> QED BY <2>2, <2>3 DEF UrlDecode
<1>3. PICK one, none : one = <<Slash>> /\ none = <<>>
  OBVIOUS
<1>4. one \in Seq(Nat) /\ none \in Seq(Nat)
  BY <1>1, <1>3
<1>5. UrlDecode(one \o none) = one \o UrlDecode(none)
  BY <1>1, <1>3, <1>4, DecodePlain
<1> QED BY <1>2, <1>3, <1>4, <1>5, ConcatEmptySeq

(* A text and a slash.                                                     *)
LEMMA AddSlash ==
  ASSUME NEW S, NEW s \in Seq(S), Slash \in S
  PROVE  /\ Append(s, Slash) = s \o <<Slash>> /\ s \o <<Slash>> \in Seq(S)
         /\ s \o <<Slash>> = s \o (<<Slash>> \o <<>>)
         /\ Len(s \o <<Slash>>) = Len(s) + 1 /\ Len(s) \in Nat
         /\ \A i \in 1 .. Len(s) : (s \o <<Slash>>)[i] = s[i]
         /\ (s \o <<Slash>>)[Len(s) + 1] = Slash
<1>1. PICK one, none : one = <<Slash>> /\ none = <<>>
  OBVIOUS
<1>2. one \in Seq(S) /\ Len(one) = 1 /\ one[1] = Slash /\ none \in Seq(S) /\ Len(s) \in Nat
  BY <1>1, LenProperties
<1>3. /\ s \o one \in Seq(S) /\ Len(s \o one) = Len(s) + Len(one)
      /\ \A i \in 1 .. Len(s) + Len(one) : (s \o one)[i] = IF i <= Len(s) THEN s[i] ELSE one[i - Len(s)]
  BY <1>2, ConcatProperties
<1>4. one \o none = one
  BY <1>1, <1>2, ConcatEmptySeq
<1>5. \A i \in 1 .. Len(s) : i \in 1 .. Len(s) + 1 /\ i <= Len(s)
  BY <1>2
<1>6. Len(s) + 1 \in 1 .. Len(s) + 1 /\ ~(Len(s) + 1 <= Len(s)) /\ Len(s) + 1 - Len(s) = 1
  BY <1>2
<1>7. Append(s, Slash) = s \o one
  <2>1. /\ Append(s, Slash) \in Seq(S) /\ Len(Append(s, Slash)) = Len(s) + 1
        /\ \A i \in 1 .. Len(s) : Append(s, Slash)[i] = s[i]
        /\ Append(s, Slash)[Len(s) + 1] = Slash
    BY AppendProperties
  <2>2. \A i \in 1 .. Len(s) + 1 : i \in 1 .. Len(s) \/ i = Len(s) + 1
    BY <1>2
  <2>3. ASSUME NEW i \in 1 .. Len(s) + 1 PROVE Append(s, Slash)[i] = (s \o one)[i]
    BY <1>2, <1>3, <1>5, <1>6, <2>1, <2>2
  <2> QED BY <1>2, <1>3, <2>1, <2>3, SeqEqual
<1> QED BY <1>1, <1>2, <1>3, <1>4, <1>5, <1>6, <1>7

(* A text that ends with a slash.                                          *)
LEMMA SlashEnd ==
  ASSUME NEW S, NEW s \in Seq(S), s # <<>>, Last(s) = Slash
  PROVE  /\ Len(s) \in Nat \ {0} /\ s[Len(s)] = Slash /\ Slash \in S
         /\ Front(s) \in Seq(S) /\ Len(Front(s)) = Len(s) - 1
         /\ \A i \in 1 .. Len(s) - 1 : Front(s)[i] = s[i]
         /\ s = Front(s) \o <<Slash>>
<1>1. Len(s) \in Nat \ {0} /\ s[Len(s)] = Slash
  BY EmptySeq, LenProperties DEF Last
<1>2. Slash \in S
  BY <1>1, ElementOfSeq
<1>3. Front(s) = SubSeq(s, 1, Len(s) - 1)
  BY DEF Front
<1>4. Len(s) - 1 \in 0 .. Len(s)
  BY <1>1
<1>5. /\ Front(s) \in Seq(S) /\ Len(Front(s)) = Len(s) - 1
      /\ \A i \in 1 .. Len(s) - 1 : Front(s)[i] = s[i]
  BY <1>3, <1>4, HoldsBeginning
<1> DEFINE f == Front(s)
           w == f \o <<Slash>>
<1>6. f \in Seq(S) /\ Len(f) = Len(s) - 1 /\ \A i \in 1 .. Len(s) - 1 : f[i] = s[i]
  BY <1>5
<1> HIDE DEF f
<1>7. /\ w \in Seq(S) /\ Len(w) = Len(f) + 1
      /\ \A i \in 1 .. Len(f) : w[i] = f[i]
      /\ w[Len(f) + 1] = Slash
  BY <1>2, <1>6, AddSlash
<1> HIDE DEF w
<1>8. Len(w) = Len(s) /\ \A i \in 1 .. Len(s) : i \in 1 .. Len(f) \/ i = Len(f) + 1
  BY <1>1, <1>6, <1>7
<1>9. \A i \in 1 .. Len(s) : w[i] = s[i]
  BY <1>1, <1>6, <1>7, <1>8
<1>10. w = s
  BY <1>7, <1>8, <1>9, SeqEqual
<1> QED BY <1>1, <1>2, <1>5, <1>10 DEF w, f

LEMMA NoNul ==
  ASSUME NEW d \in Seq(Int), 0 \notin Range(d)
  PROVE  d \in Seq(Codes)
<1>1. \A i \in 1 .. Len(d) : d[i] \in Int /\ d[i] # 0
  <2>1. \A i \in 1 .. Len(d) : d[i] \in Range(d)
    BY DEF Range
  <2> QED BY <2>1, ElementOfSeq
<1>2. \A i \in 1 .. Len(d) : d[i] \in Codes
  BY <1>1 DEF Codes
<1>3. Len(d) \in Nat /\ SubSeq(d, 1, Len(d)) = d
  BY LenProperties, SubSeqFull
<1>4. SubSeq(d, 1, Len(d)) \in Seq(Codes)
  BY <1>2, <1>3, SubSeqProperties
<1> QED BY <1>3, <1>4

LEMMA DecodeSome ==
  ASSUME NEW s \in Seq(Nat), s # <<>>
  PROVE  Len(UrlDecode(s)) \in Nat \ {0}
<1>1. Len(s) \in Nat \ {0}
  BY EmptySeq
<1>2. PICK h, k : h \in Int /\ k \in 1 .. Len(s) + 1 /\ DecodeFrom(s)[1] = <<h>> \o DecodeFrom(s)[k]
  <2>1. 1 \in 1 .. Len(s) + 1 /\ ~(1 > Len(s)) /\ Len(s) \in Nat /\ 1 \in 1 .. Len(s)
    BY <1>1
  <2>2. CASE s[1] = Percent /\ 1 + 2 <= Len(s)
    <3> DEFINE h == 16 * HexVal(s[1 + 1]) + HexVal(s[1 + 2])
    <3>1. DecodeFrom(s)[1] = <<h>> \o DecodeFrom(s)[1 + 3]
      BY <2>1, <2>2, DecodeDef
    <3>2. h \in Int
      <4>1. PICK a, b : a = HexVal(s[1 + 1]) /\ b = HexVal(s[1 + 2])
        OBVIOUS
      <4>2. a \in Int /\ b \in Int
        BY <4>1, HexTyped
      <4> QED BY <4>1, <4>2
    <3> HIDE DEF h
    <3>3. 1 + 3 \in 1 .. Len(s) + 1
      BY <1>1, <2>2
    <3> QED BY <3>1, <3>2, <3>3
  <2>3. CASE ~(s[1] = Percent /\ 1 + 2 <= Len(s))
    <3> DEFINE h == IF s[1] = Plus THEN SP ELSE s[1]
    <3>1. DecodeFrom(s)[1] = <<h>> \o DecodeFrom(s)[1 + 1]
      BY <2>1, <2>3, DecodeDef
    <3>2. h \in Int
      <4>1. s[1] \in Nat
        BY <2>1, ElementOfSeq
      <4> QED BY <4>1 DEF SP
    <3> HIDE DEF h
    <3>3. 1 + 1 \in 1 .. Len(s) + 1
      BY <1>1
    <3> QED BY <3>1, <3>2, <3>3
  <2> QED BY <2>2, <2>3
<1>3. DecodeFrom(s)[k] \in Seq(Int)
  <2>1. Nat \cup Int = Int
    OBVIOUS
  <2> QED BY <1>2, <2>1, DecodeEach
<1>4. PICK one : one = <<h>>
  OBVIOUS
<1>5. one \in Seq(Int) /\ Len(one) = 1
  BY <1>2, <1>4
<1>6. PICK rest : rest = DecodeFrom(s)[k]
  OBVIOUS
<1>7. Len(rest) \in Nat /\ Len(one \o rest) = Len(one) + Len(rest)
  BY <1>3, <1>5, <1>6, LenProperties, ConcatProperties
<1>8. DecodeFrom(s)[1] = one \o rest
  BY <1>2, <1>4, <1>6
<1>9. Len(one \o rest) \in Nat \ {0}
  BY <1>5, <1>7
<1> QED BY <1>8, <1>9 DEF UrlDecode

(* Where a URL begins with a slash, so does what it decodes to.            *)
LEMMA DecodesBelow ==
  ASSUME NEW url \in Seq(UrlChars), url # <<>>, Head(url) = Slash, 0 \notin Range(UrlDecode(url))
  PROVE  /\ url \in Seq(Nat) /\ Below(UrlDecode(url))
         /\ url # <<Slash>> => Len(UrlDecode(url)) >= 2
<1>1. UrlChars \subseteq Nat
  BY DEF UrlChars
<1>2. url \in Seq(Nat)
  BY <1>1, SeqMonotonic
<1> DEFINE rest == Tail(url)
           d    == UrlDecode(rest)
<1>3. rest \in Seq(Nat) /\ Len(rest) = Len(url) - 1 /\ Len(url) \in Nat \ {0}
      /\ \A i \in 1 .. Len(url) - 1 : rest[i] = url[i + 1]
  BY <1>2, HeadTailProperties, EmptySeq, LenProperties
<1>4. Slash \in Nat /\ Slash \notin {Percent, Plus}
  BY DEF Slash, Percent, Plus
<1>5. url = <<Slash>> \o rest
  BY <1>2, HeadTailProperties
<1> HIDE DEF rest
<1>6. UrlDecode(url) = <<Slash>> \o d
  BY <1>3, <1>4, <1>5, DecodePlain
<1>7. d \in Seq(Int)
  BY <1>3, DecodeNat
<1>8. PICK one : one = <<Slash>>
  OBVIOUS
<1>9. one \in Seq(Int) /\ Len(one) = 1 /\ one[1] = Slash
  BY <1>4, <1>8
<1>10. /\ one \o d \in Seq(Int) /\ Len(one \o d) = 1 + Len(d) /\ Len(d) \in Nat
       /\ (one \o d)[1] = Slash
  <2> DEFINE w == one \o d
  <2>1. /\ w \in Seq(Int) /\ Len(w) = Len(one) + Len(d)
        /\ \A i \in 1 .. Len(one) + Len(d) : w[i] = IF i <= Len(one) THEN one[i] ELSE d[i - Len(one)]
    BY <1>7, <1>9, ConcatProperties
  <2>2. Len(d) \in Nat
    BY <1>7, LenProperties
  <2> HIDE DEF w
  <2>3. 1 \in 1 .. Len(one) + Len(d) /\ 1 <= Len(one)
    BY <1>9, <2>2
  <2>4. w[1] = Slash /\ Len(w) = 1 + Len(d)
    BY <1>9, <2>1, <2>3
  <2> QED BY <2>1, <2>2, <2>4 DEF w
<1>11. UrlDecode(url) = one \o d
  BY <1>6, <1>8
<1>12. Below(UrlDecode(url))
  <2>1. UrlDecode(url) \in Seq(Codes)
    BY <1>10, <1>11, NoNul
  <2>2. UrlDecode(url) # <<>>
    BY <1>10, <1>11, EmptySeq
  <2> QED BY <1>10, <1>11, <2>1, <2>2 DEF Below
<1>13. ASSUME url # <<Slash>> PROVE Len(UrlDecode(url)) >= 2
  <2>1. rest # <<>>
    <3>1. ASSUME rest = <<>> PROVE FALSE
      <4>1. url = one
        BY <1>5, <1>8, <1>9, <3>1, ConcatEmptySeq
      <4> QED BY <1>8, <1>13, <4>1
    <3> QED BY <3>1
  <2>2. Len(d) \in Nat \ {0}
    BY <1>3, <2>1, DecodeSome
  <2> QED BY <1>10, <1>11, <2>2
<1> QED BY <1>2, <1>12, <1>13

LEMMA EndsFacts ==
  ASSUME NEW url \in Seq(UrlChars), EndsApart(url)
  PROVE  LET text == UrlDecode(url)
             begin == UrlDecode(Front(url)) IN
         /\ url \in Seq(Nat) /\ Apart(url) /\ Below(text) /\ url # <<>>
         /\ Last(url) = Slash /\ url = Front(url) \o <<Slash>>
         /\ begin \in Seq(Codes) /\ text = begin \o <<Slash>>
         /\ Len(text) = Len(begin) + 1 /\ Len(begin) \in Nat
         /\ \A i \in 1 .. Len(begin) : text[i] = begin[i]
         /\ text[Len(text)] = Slash
         /\ url # <<Slash>> => Len(text) >= 2
<1>1. /\ url # <<>> /\ Head(url) = Slash /\ Last(url) = Slash /\ Apart(Front(url))
      /\ 0 \notin Range(UrlDecode(url))
  BY DEF EndsApart
<1>2. url \in Seq(Nat) /\ Below(UrlDecode(url)) /\ (url # <<Slash>> => Len(UrlDecode(url)) >= 2)
  BY <1>1, DecodesBelow
<1> DEFINE f == Front(url)
<1>3. /\ Len(url) \in Nat \ {0} /\ url[Len(url)] = Slash
      /\ f \in Seq(Nat) /\ Len(f) = Len(url) - 1
      /\ \A i \in 1 .. Len(url) - 1 : f[i] = url[i]
      /\ url = f \o <<Slash>>
  BY <1>1, <1>2, SlashEnd
<1> HIDE DEF f
<1>4. Apart(url)
  <2>1. DOMAIN url = 1 .. Len(url) /\ DOMAIN f = 1 .. Len(f)
    BY <1>2, <1>3, LenProperties
  <2>2. url[Len(url)] # Percent
    BY <1>3 DEF Slash, Percent
  <2>3. ASSUME Len(url) - 1 \in 1 .. Len(url) PROVE url[Len(url) - 1] # Percent
    <3>1. Len(f) \in DOMAIN f /\ Len(f) \in 1 .. Len(url) - 1
      BY <1>3, <2>1, <2>3
    <3>2. f[Len(f)] # Percent
      BY <1>1, <3>1 DEF Apart, f
    <3> QED BY <1>3, <3>1, <3>2
  <2> QED BY <2>1, <2>2, <2>3 DEF Apart
<1> DEFINE begin == UrlDecode(f)
<1>5. UrlDecode(url) = begin \o <<Slash>>
  <2>1. PICK one : one = <<Slash>>
    OBVIOUS
  <2>2. one \in Seq(Nat) /\ Apart(f)
    BY <1>1, <2>1 DEF Slash, f
  <2>3. UrlDecode(f \o one) = UrlDecode(f) \o UrlDecode(one)
    BY <1>3, <2>2, DecodeApart
  <2> QED BY <1>3, <2>1, <2>3, DecodeSlash
<1>6. begin \in Seq(Int) /\ Slash \in Int
  BY <1>3, DecodeNat DEF Slash
<1> HIDE DEF begin
<1> DEFINE text == UrlDecode(url)
<1>7. /\ Len(text) = Len(begin) + 1 /\ Len(begin) \in Nat
      /\ \A i \in 1 .. Len(begin) : text[i] = begin[i]
      /\ text[Len(begin) + 1] = Slash
  BY <1>5, <1>6, AddSlash
<1>8. begin \in Seq(Codes)
  <2>1. text \in Seq(Codes)
    BY <1>2 DEF Below
  <2> HIDE DEF text
  <2>2. \A i \in 1 .. Len(begin) : i \in 1 .. Len(text)
    BY <1>7
  <2>3. \A i \in 1 .. Len(begin) : begin[i] \in Codes
    BY <1>7, <2>1, <2>2, ElementOfSeq
  <2>4. SubSeq(begin, 1, Len(begin)) \in Seq(Codes) /\ SubSeq(begin, 1, Len(begin)) = begin
    BY <1>6, <1>7, <2>3, SubSeqProperties, SubSeqFull
  <2> QED BY <2>4
<1> QED BY <1>1, <1>2, <1>3, <1>4, <1>5, <1>7, <1>8 DEF f, begin

(* What a listing or a redirect tells of the URL that was asked for.       *)
LEMMA DirectoryReached ==
  ASSUME tree \in Trees, NEW url \in Seq(UrlChars), Below(UrlDecode(url)),
         Len(UrlDecode(url)) >= 2, NEW method,
         Answer(method, url).kind \in {"listing", "redirect"}
  PROVE  LET page1 == Answer(method, url) IN
         /\ Safe(UrlDecode(url)) /\ Walk(UrlDecode(url)) = page1.node
         /\ page1.node \in DOMAIN tree /\ tree[page1.node] = "dir"
         /\ page1.kind = "redirect" <=> Last(url) # Slash
<1> DEFINE answer == Answer(method, url)
           text   == UrlDecode(url)
           path   == Resolve(url)
<1>1. /\ \A code : Error(code).kind = "error"
      /\ \A n : File(n).kind = "file" /\ Listing(n) = [kind |-> "listing", node |-> n]
              /\ Redirect(n) = [kind |-> "redirect", node |-> n]
      /\ Nowhere.kind = "overrun" /\ Unsaid.kind = "unsaid"
  BY DEF Error, File, Listing, Redirect, Nowhere, Unsaid
<1>2. answer = AnswerPath(url)
  BY <1>1 DEF Answer
<1>3. path \notin Unresolved /\ ~Special(Walk(path)) /\ Exists(path)
  BY <1>1, <1>2 DEF AnswerPath, Unresolved
<1>4. \A n : Opened(n).kind \in {"error", "file"}
  BY <1>1 DEF Opened
<1>5. IsDir(path) /\ answer = AnswerDirectory(url, path)
  BY <1>2, <1>3, <1>4 DEF AnswerPath, Unresolved
<1>6. /\ Clean(CString(text)) = Tail(text) /\ Walk(Tail(text)) = Walk(text)
      /\ Tail(text) \in Seq(Codes) /\ Len(Tail(text)) = Len(text) - 1
      /\ IsSafePath(Tail(text)) <=> Safe(text)
  BY BelowFacts
<1>7. Tail(text) # <<>>
  <2>1. Len(text) \in Nat
    BY BelowFacts
  <2> QED BY <1>6, <2>1, EmptySeq
<1>8. path = Tail(text) /\ IsSafePath(Tail(text))
  BY <1>3, <1>6, <1>7 DEF Resolve, Unresolved
<1>9. Walk(path) # Outside
  BY <1>3, ResolveFacts, SafeWalk
<1>10. Walk(path) \in DOMAIN tree /\ tree[Walk(path)] = "dir"
  BY <1>3, <1>5, <1>9 DEF Exists, IsDir
<1>11. IF Last(url) = Slash THEN answer = Listing(Walk(path)) ELSE answer = Redirect(Walk(path))
  <2>1. CASE Last(url) # Slash
    BY <1>5, <2>1 DEF AnswerDirectory
  <2>2. CASE Last(url) = Slash /\ ~IndexPathFits(path)
    BY <1>1, <1>5, <2>2 DEF AnswerDirectory
  <2>3. CASE Last(url) = Slash /\ IndexPathFits(path)
    BY <1>4, <1>5, <2>3 DEF AnswerDirectory
  <2> QED BY <2>1, <2>2, <2>3
<1> HIDE DEF answer, text, path
<1>12. answer.node = Walk(path) /\ (answer.kind = "redirect" <=> Last(url) # Slash)
  BY <1>1, <1>11
<1>13. Walk(path) = Walk(text) /\ Safe(text)
  BY <1>6, <1>8
<1> QED BY <1>10, <1>12, <1>13 DEF answer, text

LEMMA SafePrefix ==
  ASSUME NEW d \in Seq(Codes), NEW e \in Seq(Codes), Safe(d), Len(e) <= Len(d),
         \A i \in 1 .. Len(e) : e[i] = d[i]
  PROVE  Safe(e)
<1>1. Len(d) \in Nat /\ Len(e) \in Nat
  BY LenProperties
<1>2. \A i \in 1 .. Len(e) : i \in 1 .. Len(d)
  BY <1>1
<1>3. \A i \in 1 .. Len(e) - 1 : i \in 1 .. Len(d) - 1 /\ i \in 1 .. Len(e) /\ i + 1 \in 1 .. Len(e)
  BY <1>1
<1>4. NoDots(e)
  BY <1>3 DEF Safe, NoDots
<1>5. (Len(e) >= 2 => 2 \in 1 .. Len(e) /\ Len(d) >= 2) /\ (Len(e) >= 3 => 3 \in 1 .. Len(e) /\ Len(d) >= 3)
  BY <1>1
<1> QED BY <1>2, <1>4, <1>5 DEF Safe

(* Adding a name to a directory's path.                                    *)
LEMMA SafeMore ==
  ASSUME NEW p \in Seq(Codes), NEW name \in Seq(PathChars), Safe(p), p # <<>>, NoDots(name)
  PROVE  Safe(p \o (<<Slash>> \o name))
<1> DEFINE path == p \o (<<Slash>> \o name)
           l    == Len(p)
           n    == Len(name)
<1>1. \A c \in PathChars : c \in Codes /\ c # Colon /\ c \notin Forbidden
  BY NameCharsPlain DEF Codes
<1>2. name \in Seq(Codes) /\ Slash \in Codes
  <2>1. PathChars \subseteq Codes
    BY <1>1
  <2> QED BY <2>1, SeqMonotonic DEF PathChars
<1>3. /\ Len(path) = l + n + 1 /\ l \in Nat \ {0} /\ n \in Nat
      /\ \A i \in 1 .. l : path[i] = p[i]
      /\ path[l + 1] = Slash
      /\ \A i \in 1 .. n : path[l + 1 + i] = name[i]
  BY <1>2, SlashBetween, EmptySeq, LenProperties
<1>4. NoDots(path)
  BY <1>2, NoDotsBetween DEF Safe
<1>5. \A i \in 1 .. n : name[i] # Colon /\ name[i] \notin Forbidden
  BY <1>1, ElementOfSeq
<1>6. Slash # Colon /\ Slash # Backslash /\ Slash \notin Forbidden
  BY DEF Slash, Colon, Backslash, Forbidden
<1>7. \A i \in 1 .. l : p[i] \notin Forbidden
  BY DEF Safe
<1>8. (l >= 2 => p[2] # Backslash) /\ (l >= 3 => p[3] # Colon)
  BY DEF Safe
<1> HIDE DEF path, l, n
<1>9. path[2] # Backslash
  <2>1. CASE l = 1
    BY <1>3, <1>6, <2>1
  <2>2. CASE l # 1
    <3>1. 2 \in 1 .. l /\ l >= 2
      BY <1>3, <2>2
    <3> QED BY <1>3, <1>8, <3>1
  <2> QED BY <2>1, <2>2
<1>10. Len(path) >= 3 => path[3] # Colon
  <2>1. CASE l = 1
    <3>1. ASSUME Len(path) >= 3 PROVE path[3] # Colon
      <4>1. 1 \in 1 .. n /\ l + 1 + 1 = 3
        BY <1>3, <2>1, <3>1
      <4> QED BY <1>3, <1>5, <4>1
    <3> QED BY <3>1
  <2>2. CASE l = 2
    BY <1>3, <1>6, <2>2
  <2>3. CASE l # 1 /\ l # 2
    <3>1. 3 \in 1 .. l /\ l >= 3
      BY <1>3, <2>3
    <3> QED BY <1>3, <1>8, <3>1
  <2> QED BY <2>1, <2>2, <2>3
<1>11. ASSUME NEW i \in 1 .. Len(path) PROVE path[i] \notin Forbidden
  <2>1. CASE i \in 1 .. l
    BY <1>3, <1>7, <2>1
  <2>2. CASE i = l + 1
    BY <1>3, <1>6, <2>2
  <2>3. CASE i > l + 1
    <3>1. PICK j : j = i - (l + 1)
      OBVIOUS
    <3>2. j \in 1 .. n /\ l + 1 + j = i
      BY <1>3, <2>3, <3>1
    <3> QED BY <1>3, <1>5, <3>2
  <2>4. i \in 1 .. l \/ i = l + 1 \/ i > l + 1
    BY <1>3
  <2> QED BY <2>1, <2>2, <2>3, <2>4
<1> QED BY <1>4, <1>9, <1>10, <1>11 DEF Safe, path

LEMMA WalkSlash ==
  ASSUME NEW p \in Seq(Codes)
  PROVE  Walk(p \o <<Slash>>) = Walk(p)
<1>1. Slash \in Codes
  BY DEF Slash, Codes
<1>2. PICK none : none = <<>>
  OBVIOUS
<1>3. none \in Seq(Codes) /\ Len(none) = 0
  BY <1>2, EmptySeq
<1>4. Walk(p \o (<<Slash>> \o none)) = Into(Walk(p), none)
  <2>1. \A i \in 1 .. Len(none) : none[i] \notin Separators
    BY <1>3
  <2> QED BY <1>1, <1>3, <2>1, WalkInto
<1>5. Into(Walk(p), none) = Walk(p)
  <2>1. none # <<Dot, Dot>>
    BY <1>2
  <2> QED BY <1>2, <2>1 DEF Into
<1>6. p \o <<Slash>> = p \o (<<Slash>> \o none)
  BY <1>1, <1>2, AddSlash
<1> QED BY <1>4, <1>5, <1>6

LEMMA LastOfTwo ==
  ASSUME NEW S, NEW p \in Seq(S), NEW q \in Seq(S), q # <<>>
  PROVE  /\ p \o q \in Seq(S) /\ Len(p \o q) \in Nat \ {0}
         /\ Last(p \o q) = Last(q) /\ (p \o q)[Len(p \o q)] = Last(q)
<1> DEFINE w == p \o q
<1>1. /\ w \in Seq(S) /\ Len(w) = Len(p) + Len(q)
      /\ \A i \in 1 .. Len(p) + Len(q) : w[i] = IF i <= Len(p) THEN p[i] ELSE q[i - Len(p)]
  BY ConcatProperties
<1>2. Len(p) \in Nat /\ Len(q) \in Nat \ {0}
  BY EmptySeq, LenProperties
<1> HIDE DEF w
<1>3. PICK k, l, n : k = Len(w) /\ l = Len(p) /\ n = Len(q)
  OBVIOUS
<1>4. k \in 1 .. l + n /\ ~(k <= l) /\ k - l = n
  BY <1>1, <1>2, <1>3
<1>5. w[k] = q[n]
  BY <1>1, <1>3, <1>4
<1> QED BY <1>1, <1>2, <1>3, <1>5 DEF Last, w

(* A link whose text has nothing special leads to what it says.            *)
LEMMA LinkFacts ==
  ASSUME NEW href \in Seq(32 .. 255), href # <<>>, Range(href) \cap {Percent, Plus, Hash} = {}
  PROVE  LET link == LinkText(href) IN
         /\ link \in Seq(Nat) /\ link # <<>> /\ UrlDecode(link) = href
         /\ Last(link) = Slash <=> Last(href) = Slash
<1> DEFINE t == Append(href, Hash)
           I == {i \in 1 .. Len(t) : t[i] = Hash}
           n == Len(href)
           f == [i \in 1 .. n |-> IF href[i] = SP THEN Escaped(SP) ELSE <<href[i]>>]
           g == [i \in 1 .. n |-> <<href[i]>>]
<1>1. n \in Nat \ {0}
  BY EmptySeq
<1>2. ASSUME NEW i \in 1 .. n PROVE href[i] \in 32 .. 255 /\ href[i] \notin {Percent, Plus, Hash}
  <2>1. href[i] \in Range(href)
    BY LenProperties DEF Range
  <2> QED BY <2>1, ElementOfSeq
<1>3. Len(t) = n + 1 /\ t[n + 1] = Hash /\ \A i \in 1 .. n : t[i] = href[i]
  <2>1. Hash \in 32 .. 255
    BY DEF Hash
  <2> QED BY <2>1, AppendProperties
<1> HIDE DEF t
<1>4. I = {n + 1}
  <2>1. \A i \in 1 .. n + 1 : i \in 1 .. n \/ i = n + 1
    BY <1>1
  <2>2. n + 1 \in 1 .. n + 1
    BY <1>1
  <2> HIDE DEF n
  <2> QED BY <1>2, <1>3, <2>1, <2>2
<1>5. SelectInSeq(t, LAMBDA c : c = Hash) = Min(I)
  BY <1>4 DEF SelectInSeq
<1> HIDE DEF I
<1>6. Min(I) - 1 = n
  <2>1. I # {} /\ I \subseteq Nat
    BY <1>1, <1>4
  <2>2. Min(I) \in I
    BY <2>1, MinFacts
  <2> QED BY <1>1, <1>4, <2>2
<1>7. LinkText(href) = FlattenSeq([i \in 1 .. n |-> f[i]])
  BY <1>5, <1>6 DEF LinkText, t
<1>8. ASSUME NEW i \in 1 .. n
      PROVE  /\ Encodes(f[i], g[i]) /\ f[i] \in Seq(Nat) /\ f[i] # <<>>
             /\ Last(f[i]) = Slash <=> href[i] = Slash
  <2>1. PICK c : c = href[i]
    OBVIOUS
  <2>2. c \in 32 .. 255 /\ c \in Nat /\ c \notin {Percent, Plus}
    <3>1. \A k \in 32 .. 255 : k \in Nat
      OBVIOUS
    <3>2. c \in 32 .. 255 /\ c \notin {Percent, Plus, Hash}
      <4> HIDE DEF n
      <4> QED BY <1>2, <2>1
    <3> QED BY <3>1, <3>2
  <2>3. f[i] = (IF c = SP THEN Escaped(SP) ELSE <<c>>) /\ g[i] = <<c>>
    BY <2>1
  <2> HIDE DEF f, g
  <2>4. CASE c = SP
    <3>1. SP \in 0 .. 255
      BY DEF SP
    <3>2. Escaped(SP) = <<37, 50, 48>>
      <4>1. SP \div 16 = 2 /\ SP % 16 = 0
        BY DEF SP
      <4> QED BY <4>1 DEF Escaped, HexDigit, Percent
    <3>3. Encodes(f[i], g[i]) /\ f[i] \in Seq(Nat)
      <4>1. Encodes(Escaped(SP), <<SP>>)
        BY <3>1, EncodesEscaped
      <4>2. Escaped(SP) \in Seq(Nat)
        BY <4>1 DEF Encodes
      <4> QED BY <2>3, <2>4, <4>1, <4>2
    <3>4. Last(f[i]) = 48 /\ f[i] # <<>>
      BY <2>3, <2>4, <3>2 DEF Last
    <3> QED BY <2>1, <2>4, <3>3, <3>4 DEF Slash, SP
  <2>5. CASE c # SP
    <3>1. Encodes(f[i], g[i]) /\ f[i] \in Seq(Nat)
      BY <2>2, <2>3, <2>5, EncodesPlain
    <3>2. Last(f[i]) = c /\ f[i] # <<>>
      BY <2>3, <2>5 DEF Last
    <3> QED BY <2>1, <3>1, <3>2
  <2> QED BY <2>4, <2>5
<1>9. href = FlattenSeq([i \in 1 .. n |-> g[i]])
  <2>1. g = [i \in 1 .. n |-> g[i]]
    OBVIOUS
  <2>2. href = FlattenSeq(g)
    BY FlattenSingles
  <2> HIDE DEF g
  <2> QED BY <2>1, <2>2
<1>10. f \in Seq(Seq(Nat)) /\ Len(f) = n /\ f = [i \in 1 .. n |-> f[i]]
  <2>1. ASSUME NEW i \in 1 .. n PROVE (IF href[i] = SP THEN Escaped(SP) ELSE <<href[i]>>) \in Seq(Nat)
    BY <1>8
  <2> HIDE DEF n
  <2> QED BY <1>1, <2>1
<1>11. n = Len(href)
  OBVIOUS
<1> HIDE DEF n, f, g
<1>12. Encodes(LinkText(href), href)
  <2>1. n \in Nat /\ \A i \in 1 .. n : Encodes(f[i], g[i])
    BY <1>1, <1>8
  <2> QED BY <1>7, <1>9, <2>1, EncodesFlatten
<1>13. LinkText(href) \in Seq(Nat) /\ UrlDecode(LinkText(href)) = href
  <2>1. LinkText(href) \in Seq(Nat) /\ href \in Seq(Nat) /\ <<>> \in Seq(Nat)
    BY <1>12, EmptySeq DEF Encodes
  <2>2. UrlDecode(LinkText(href) \o <<>>) = href \o UrlDecode(<<>>)
    BY <1>12, <2>1 DEF Encodes
  <2> QED BY <2>1, <2>2, DecodeSlash, ConcatEmptySeq
<1>14. LinkText(href) # <<>> /\ (Last(LinkText(href)) = Slash <=> Last(href) = Slash)
  <2> DEFINE p == FirstOnes(f, n - 1)
             q == f[n]
  <2>1. n - 1 \in 0 .. Len(f) /\ n - 1 \in 0 .. Len(f) - 1 /\ n - 1 + 1 = n /\ n \in 1 .. n
    BY <1>1, <1>10
  <2>2. /\ FlattenSeq(f) = FirstOnes(f, Len(f))
        /\ \A k \in 0 .. Len(f) : FirstOnes(f, k) \in Seq(Nat)
        /\ \A k \in 0 .. Len(f) - 1 : FirstOnes(f, k + 1) = FirstOnes(f, k) \o f[k + 1]
    BY <1>10, FlattenFacts
  <2>3. p \in Seq(Nat) /\ FirstOnes(f, n - 1 + 1) = p \o f[n - 1 + 1]
    BY <2>1, <2>2
  <2>4. LinkText(href) = p \o q
    BY <1>7, <1>10, <2>1, <2>2, <2>3
  <2>5. q \in Seq(Nat) /\ q # <<>> /\ (Last(q) = Slash <=> href[n] = Slash)
    BY <1>8, <2>1
  <2> HIDE DEF p, q
  <2>6. Last(p \o q) = Last(q) /\ Len(p \o q) # 0 /\ p \o q \in Seq(Nat)
    BY <2>3, <2>5, LastOfTwo
  <2>7. Last(href) = href[n]
    BY <1>11 DEF Last
  <2> QED BY <2>4, <2>5, <2>6, <2>7, EmptySeq
<1> QED BY <1>13, <1>14

LEMMA RedirectNoSlash ==
  ASSUME NEW url, NEW method, Answer(method, url).kind = "redirect"
  PROVE  Last(url) # Slash /\ Len(url) \in 1 .. MaxPath - 1
<1>1. /\ \A code : Error(code).kind = "error"
      /\ \A n : File(n).kind = "file" /\ Listing(n).kind = "listing"
      /\ Nowhere.kind = "overrun" /\ Unsaid.kind = "unsaid"
  BY DEF Error, File, Listing, Nowhere, Unsaid
<1>2. Answer(method, url) = AnswerPath(url) /\ Len(url) \in 1 .. MaxPath - 1
  BY <1>1 DEF Answer
<1>3. \A n : Opened(n).kind \in {"error", "file"}
  BY <1>1 DEF Opened
<1>4. Answer(method, url) = AnswerDirectory(url, Resolve(url))
  BY <1>1, <1>2, <1>3 DEF AnswerPath
<1>5. ASSUME Last(url) = Slash PROVE FALSE
  <2>1. CASE ~IndexPathFits(Resolve(url))
    BY <1>1, <1>4, <1>5, <2>1 DEF AnswerDirectory
  <2>2. CASE IndexPathFits(Resolve(url))
    BY <1>1, <1>3, <1>4, <1>5, <2>2 DEF AnswerDirectory
  <2> QED BY <2>1, <2>2
<1> QED BY <1>2, <1>5

(* A redirect leads to the directory itself.                               *)
LEMMA RedirectReaches ==
  ASSUME tree \in Trees, NEW url \in Seq(UrlChars), EndsApart(Location(url)), NEW method,
         Answer(method, url).kind = "redirect"
  PROVE  LET node == Answer(method, url).node IN
         /\ node \in DOMAIN tree /\ tree[node] = "dir"
         /\ Reaches(Location(url), node) /\ Last(Location(url)) = Slash
<1> DEFINE L     == Location(url)
           node  == Answer(method, url).node
           begin == UrlDecode(url)
           text  == UrlDecode(L)
<1>1. Last(url) # Slash /\ Len(url) \in 1 .. MaxPath - 1
  BY RedirectNoSlash
<1>2. L \in Seq(UrlChars)
  BY DirectoryTyped
<1>3. /\ L # <<>> /\ Last(L) = Slash /\ Head(L) = Slash /\ Len(L) \in Nat \ {0}
  BY <1>2, EmptySeq DEF EndsApart
<1>4. Slash \in UrlChars
  BY DEF Slash, UrlChars, SP, CR, LF
<1>5. Len(url) \in Nat \ {0} /\ url # <<>>
  <2>1. Len(url) \in Nat
    BY LenProperties
  <2> QED BY <1>1, <2>1, EmptySeq
<1>6. Len(L) = Len(url) + 1 /\ \A i \in 1 .. Len(url) : L[i] = url[i]
  BY <1>4, AppendProperties DEF Location
<1>7. Front(L) = url
  <2>1. /\ Front(L) \in Seq(UrlChars) /\ Len(Front(L)) = Len(L) - 1
        /\ \A i \in 1 .. Len(L) - 1 : Front(L)[i] = L[i]
    BY <1>2, <1>3, SlashEnd
  <2>2. PICK f : f = Front(L)
    OBVIOUS
  <2>3. f \in Seq(UrlChars) /\ Len(f) = Len(url) /\ \A i \in 1 .. Len(f) : f[i] = url[i]
    BY <1>5, <1>6, <2>1, <2>2
  <2>4. f = url
    BY <2>3, SeqEqual
  <2> QED BY <2>2, <2>4
<1>8. Head(url) = Slash
  <2>1. 1 \in 1 .. Len(url) /\ Head(L) = L[1] /\ Head(url) = url[1]
    BY <1>3, <1>5
  <2> QED BY <1>3, <1>6, <2>1
<1>9. /\ Below(text) /\ begin \in Seq(Codes) /\ text = begin \o <<Slash>>
      /\ text[Len(text)] = Slash
  BY <1>2, <1>7, EndsFacts
<1>10. 0 \notin Range(begin)
  <2> HIDE DEF begin
  <2>1. \A i \in 1 .. Len(begin) : begin[i] # 0
    BY <1>9, ElementOfSeq DEF Codes
  <2>2. DOMAIN begin = 1 .. Len(begin)
    BY <1>9, LenProperties
  <2> QED BY <2>1, <2>2 DEF Range
<1>11. url # <<Slash>>
  BY <1>1 DEF Last
<1>12. Below(begin) /\ Len(begin) >= 2
  BY <1>5, <1>8, <1>10, <1>11, DecodesBelow
<1>13. Safe(begin) /\ Walk(begin) = node /\ node \in DOMAIN tree /\ tree[node] = "dir"
  BY <1>12, DirectoryReached
<1> HIDE DEF begin, text, node, L
<1>14. Safe(text)
  <2>1. PICK none : none = <<>>
    OBVIOUS
  <2>2. none \in Seq(PathChars) /\ NoDots(none)
    BY <2>1 DEF NoDots
  <2>3. begin # <<>>
    BY <1>12 DEF Below
  <2>4. Safe(begin \o (<<Slash>> \o none))
    BY <1>9, <1>13, <2>2, <2>3, SafeMore
  <2>5. begin \o <<Slash>> = begin \o (<<Slash>> \o none)
    <3>1. Slash \in Codes
      BY DEF Slash, Codes
    <3> QED BY <1>9, <2>1, <3>1, AddSlash
  <2> QED BY <1>9, <2>4, <2>5
<1>15. Walk(text) = node
  BY <1>9, <1>13, WalkSlash
<1>16. Slash \in Separators
  BY DEF Separators
<1> QED BY <1>3, <1>9, <1>13, <1>14, <1>15, <1>16 DEF Reaches, L, text, node

LEMMA DirectoryWhole ==
  ASSUME NEW url \in Seq(UrlChars), url # <<>>, Last(url) = Slash
  PROVE  DirectoryOf(url) = url
<1> DEFINE I    == {i \in 1 .. Len(url) : url[i] = Slash}
           last == SelectLastInSeq(url, LAMBDA c : c = Slash)
<1>1. Len(url) \in Nat \ {0} /\ url[Len(url)] = Slash
  BY EmptySeq DEF Last
<1>2. Len(url) \in I /\ I \subseteq 0 .. Len(url) /\ I # {}
  BY <1>1
<1>3. last = Max(I)
  BY <1>2 DEF SelectLastInSeq
<1> HIDE DEF I
<1>4. Max(I) \in I /\ \A i \in I : i <= Max(I)
  BY <1>1, <1>2, MaxFacts
<1>5. PICK m : m = Max(I)
  OBVIOUS
<1>6. m = Len(url)
  <2>1. m \in 0 .. Len(url) /\ Len(url) <= m
    BY <1>2, <1>4, <1>5
  <2> QED BY <1>1, <2>1
<1> QED BY <1>3, <1>5, <1>6, SubSeqFull DEF DirectoryOf

LEMMA HrefFacts ==
  ASSUME NEW node \in Seq(Seq(NameChars)), node # <<>>, Plain(node)
  PROVE  LET name == Last(node)
             href == Href(node) IN
         /\ name \in Seq(NameChars) /\ name \in Seq(PathChars) /\ NoDots(name)
         /\ Front(node) \in Seq(Seq(NameChars)) /\ node = Append(Front(node), name)
         /\ name # <<>> => /\ href \in Seq(32 .. 255) /\ href \in Seq(PathChars) /\ href # <<>>
                           /\ Range(href) \cap {Percent, Plus, Hash} = {} /\ NoDots(href)
                           /\ Last(href) = Slash <=> tree[node] = "dir"
<1> DEFINE name == Last(node)
           href == Href(node)
           n    == Len(node)
<1>1. n \in Nat \ {0} /\ n \in 1 .. n
  BY EmptySeq
<1>2. name \in Seq(NameChars)
  BY <1>1, ElementOfSeq DEF Last
<1>3. Front(node) \in Seq(Seq(NameChars)) /\ node = Append(Front(node), name)
  <2>1. n - 1 \in 0 .. n
    BY <1>1
  <2>2. /\ Front(node) \in Seq(Seq(NameChars)) /\ Len(Front(node)) = n - 1
        /\ \A i \in 1 .. n - 1 : Front(node)[i] = node[i]
    BY <2>1, HoldsBeginning DEF Front
  <2>3. PICK f, w : f = Front(node) /\ w = Append(f, name)
    OBVIOUS
  <2>4. /\ w \in Seq(Seq(NameChars)) /\ Len(w) = Len(f) + 1
        /\ \A i \in 1 .. Len(f) : w[i] = f[i]
        /\ w[Len(f) + 1] = name
    BY <1>2, <2>2, <2>3, AppendProperties
  <2>5. Len(w) = n /\ \A i \in 1 .. n : i \in 1 .. Len(f) \/ i = Len(f) + 1
    BY <1>1, <2>2, <2>3, <2>4
  <2>6. name = node[n]
    BY DEF Last
  <2> HIDE DEF name
  <2>7. \A i \in 1 .. n : w[i] = node[i]
    BY <1>1, <2>2, <2>3, <2>4, <2>5, <2>6
  <2>8. w = node
    BY <2>4, <2>5, <2>7, SeqEqual
  <2> QED BY <2>2, <2>3, <2>8
<1> HIDE DEF name
<1>4. NameChars \subseteq PathChars /\ PathChars \subseteq 32 .. 255 /\ Slash \in PathChars
  BY DEF PathChars, NameChars, Slash
<1>5. name \in Seq(PathChars)
  BY <1>2, <1>4, SeqMonotonic
<1>6. NoDots(name)
  <2>1. ~DoubleDot(<<name>>)
    BY DEF Plain, name
  <2>2. Len(<<name>>) = 1 /\ <<name>>[1] = name /\ 1 \in 1 .. 1
    OBVIOUS
  <2> QED BY <2>1, <2>2 DEF DoubleDot, NoDots
<1>7. \A i \in 1 .. Len(name) : name[i] \notin {Percent, Plus, Hash} /\ name[i] # Slash
  <2>1. Range(name) \cap {Percent, Plus, Hash} = {}
    BY DEF Plain, name
  <2>2. DOMAIN name = 1 .. Len(name)
    BY <1>2, LenProperties
  <2>3. \A i \in 1 .. Len(name) : name[i] \in Range(name)
    BY <2>2 DEF Range
  <2>4. \A i \in 1 .. Len(name) : name[i] \in NameChars
    BY <1>2, ElementOfSeq
  <2> QED BY <2>1, <2>3, <2>4, NameCharsPlain DEF Separators
<1>8. ASSUME name # <<>>
      PROVE  /\ href \in Seq(PathChars) /\ href # <<>>
             /\ \A i \in 1 .. Len(href) : href[i] \notin {Percent, Plus, Hash}
             /\ NoDots(href) /\ (Last(href) = Slash <=> tree[node] = "dir")
  <2>1. Len(name) \in Nat \ {0} /\ Len(name) \in 1 .. Len(name)
    BY <1>2, <1>8, EmptySeq
  <2>2. CASE tree[node] = "dir"
    <3>1. href = name \o <<Slash>>
      BY <2>2 DEF Href, name
    <3>2. /\ name \o <<Slash>> \in Seq(PathChars)
          /\ name \o <<Slash>> = name \o (<<Slash>> \o <<>>)
          /\ Len(name \o <<Slash>>) = Len(name) + 1
          /\ \A i \in 1 .. Len(name) : (name \o <<Slash>>)[i] = name[i]
          /\ (name \o <<Slash>>)[Len(name) + 1] = Slash
      BY <1>4, <1>5, AddSlash
    <3> HIDE DEF href
    <3>3. NoDots(href)
      <4>1. PICK none : none = <<>>
        OBVIOUS
      <4>2. none \in Seq(PathChars) /\ NoDots(none)
        BY <4>1 DEF NoDots
      <4>3. NoDots(name \o (<<Slash>> \o none))
        BY <1>4, <1>5, <1>6, <4>2, NoDotsBetween
      <4> QED BY <3>1, <3>2, <4>1, <4>3
    <3>4. Len(href) = Len(name) + 1 /\ href[Len(name) + 1] = Slash /\ \A i \in 1 .. Len(name) : href[i] = name[i]
      BY <3>1, <3>2
    <3>5. Last(href) = Slash /\ href # <<>>
      BY <2>1, <3>4, EmptySeq DEF Last
    <3>6. \A i \in 1 .. Len(name) + 1 : i \in 1 .. Len(name) \/ i = Len(name) + 1
      BY <2>1
    <3>7. Slash \notin {Percent, Plus, Hash}
      BY DEF Slash, Percent, Plus, Hash
    <3>8. \A i \in 1 .. Len(href) : href[i] \notin {Percent, Plus, Hash}
      BY <1>7, <3>4, <3>6, <3>7
    <3> QED BY <2>2, <3>1, <3>2, <3>3, <3>5, <3>8
  <2>3. CASE tree[node] # "dir"
    <3>1. href = name
      BY <1>2, <2>3, ConcatEmptySeq DEF Href, name
    <3>2. Last(name) # Slash
      BY <1>7, <2>1 DEF Last
    <3> QED BY <1>5, <1>6, <1>7, <1>8, <2>3, <3>1, <3>2
  <2> QED BY <2>2, <2>3
<1>9. ASSUME name # <<>> PROVE href \in Seq(32 .. 255) /\ Range(href) \cap {Percent, Plus, Hash} = {}
  <2> HIDE DEF href
  <2>1. href \in Seq(PathChars) /\ \A i \in 1 .. Len(href) : href[i] \notin {Percent, Plus, Hash}
    BY <1>8, <1>9
  <2>2. DOMAIN href = 1 .. Len(href)
    BY <2>1, LenProperties
  <2>3. PICK S : S = 32 .. 255
    OBVIOUS
  <2>4. href \in Seq(S)
    <3>1. PathChars \subseteq S /\ href \in Seq(PathChars)
      BY <1>4, <2>1, <2>3
    <3> QED BY <3>1, SeqMonotonic
  <2> QED BY <2>1, <2>2, <2>3, <2>4 DEF Range
<1> QED BY <1>2, <1>3, <1>5, <1>6, <1>8, <1>9 DEF name

(* A link of a listing leads to the entry whose name it shows.             *)
LEMMA EntryReaches ==
  ASSUME tree \in Trees, NEW url \in Seq(UrlChars), EndsApart(url), url # <<Slash>>,
         Safe(UrlDecode(url)), NEW node \in DOMAIN tree, node # <<>>,
         Front(node) = Walk(UrlDecode(url)), Plain(node)
  PROVE  LET link == DirectoryOf(url) \o LinkText(Href(node)) IN
         Reaches(link, node) /\ (tree[node] = "dir" <=> Last(link) = Slash)
<1> DEFINE name  == Last(node)
           href  == Href(node)
           more  == LinkText(href)
           begin == UrlDecode(Front(url))
           text  == UrlDecode(url)
           link  == url \o more
           path  == begin \o (<<Slash>> \o href)
<1>1. Named(node)
  BY TreeAssumption DEF Named
<1>2. name # <<>>
  <2>1. Len(node) \in 1 .. Len(node)
    BY <1>1, EmptySeq DEF Named
  <2> QED BY <1>1, <2>1 DEF Named, ValidName, Last
<1>3. /\ name \in Seq(NameChars) /\ name \in Seq(PathChars) /\ NoDots(name)
      /\ Front(node) \in Seq(Seq(NameChars)) /\ node = Append(Front(node), name)
      /\ href \in Seq(32 .. 255) /\ href \in Seq(PathChars) /\ href # <<>>
      /\ Range(href) \cap {Percent, Plus, Hash} = {} /\ NoDots(href)
      /\ Last(href) = Slash <=> tree[node] = "dir"
  BY <1>1, <1>2, HrefFacts DEF Named
<1>4. href = IF tree[node] = "dir" THEN name \o <<Slash>> ELSE name
  <2>1. name \o <<>> = name
    BY <1>3, ConcatEmptySeq
  <2> QED BY <2>1 DEF Href
<1> HIDE DEF href, name
<1>5. /\ more \in Seq(Nat) /\ more # <<>> /\ UrlDecode(more) = href
      /\ Last(more) = Slash <=> Last(href) = Slash
  BY <1>3, LinkFacts
<1> HIDE DEF more
<1>6. /\ url \in Seq(Nat) /\ Apart(url) /\ Below(text) /\ url # <<>> /\ Last(url) = Slash
      /\ begin \in Seq(Codes) /\ text = begin \o <<Slash>>
      /\ Len(text) = Len(begin) + 1 /\ Len(begin) \in Nat
      /\ \A i \in 1 .. Len(begin) : text[i] = begin[i]
      /\ Len(text) >= 2
  BY EndsFacts
<1>7. DirectoryOf(url) = url
  BY <1>6, DirectoryWhole
<1>8. link \in Seq(Nat) /\ Len(link) \in Nat \ {0} /\ Last(link) = Last(more)
  BY <1>5, <1>6, LastOfTwo
<1>9. UrlDecode(link) = text \o href
  BY <1>5, <1>6, DecodeApart
<1> HIDE DEF link
<1>10. PathChars \subseteq Codes /\ Slash \in Codes /\ NameChars \subseteq Codes
  <2>1. \A c \in PathChars : c \in Int /\ c # 0
    BY NameCharsPlain
  <2> QED BY <2>1 DEF Codes, PathChars
<1>11. href \in Seq(Codes) /\ name \in Seq(Codes) /\ <<Slash>> \in Seq(Codes)
  BY <1>3, <1>10, SeqMonotonic
<1>12. text \o href = path
  <2>1. begin \in Seq(Codes) /\ text = begin \o <<Slash>>
    BY <1>6
  <2>2. ASSUME NEW a \in Seq(Codes), NEW b \in Seq(Codes), NEW c \in Seq(Codes)
        PROVE (a \o b) \o c = a \o (b \o c)
    BY ConcatAssociative
  <2>3. (begin \o <<Slash>>) \o href = begin \o (<<Slash>> \o href)
    BY <1>11, <2>1, <2>2
  <2> QED BY <2>1, <2>3
<1>13. text \in Seq(Codes) /\ text[1] = Slash /\ Safe(text) /\ Walk(text) = Front(node)
  BY <1>6 DEF Below
<1> HIDE DEF text, begin
<1>14. Walk(begin) = Front(node)
  BY <1>6, <1>13, WalkSlash
<1>15. Safe(begin)
  <2>1. Len(begin) <= Len(text) /\ \A i \in 1 .. Len(begin) : begin[i] = text[i]
    BY <1>6
  <2> QED BY <1>6, <1>13, <2>1, SafePrefix
<1>16. begin # <<>>
  BY <1>6, EmptySeq
<1>17. Safe(path)
  BY <1>3, <1>6, <1>15, <1>16, SafeMore
<1>18. path \in Seq(Codes) /\ path # <<>> /\ path[Len(path)] = Last(href)
  <2>1. /\ text \o href \in Seq(Codes) /\ Len(text \o href) \in Nat \ {0}
        /\ (text \o href)[Len(text \o href)] = Last(href)
    BY <1>3, <1>11, <1>13, LastOfTwo
  <2> QED BY <1>12, <2>1, EmptySeq
<1>19. path[1] = Slash
  <2> DEFINE w == text \o href
  <2>1. \A i \in 1 .. Len(text) + Len(href) : w[i] = IF i <= Len(text) THEN text[i] ELSE href[i - Len(text)]
    BY <1>11, <1>13, ConcatProperties
  <2>2. 1 \in 1 .. Len(text) + Len(href) /\ 1 <= Len(text)
    BY <1>6, <1>11, LenProperties
  <2> HIDE DEF w
  <2>3. w[1] = Slash
    BY <1>13, <2>1, <2>2
  <2> QED BY <1>12, <2>3 DEF w
<1>20. Walk(path) = node
  <2>1. Walk(begin \o (<<Slash>> \o name)) = node
    <3>1. \A i \in 1 .. Len(name) : name[i] \notin Separators
      BY <1>3, ElementOfSeq, NameCharsPlain
    <3>2. Walk(begin \o (<<Slash>> \o name)) = Into(Walk(begin), name)
      BY <1>6, <1>10, <1>11, <3>1, WalkInto
    <3>3. ValidName(name)
      <4>1. Len(node) \in 1 .. Len(node)
        BY <1>1, EmptySeq DEF Named
      <4> QED BY <1>1, <4>1 DEF Named, Last, name
    <3> QED BY <1>3, <1>14, <3>2, <3>3 DEF Into, ValidName
  <2>2. CASE tree[node] = "dir"
    <3>1. PICK more1 : more1 = <<Slash>> \o name
      OBVIOUS
    <3>2. more1 \in Seq(Codes)
      BY <1>11, <3>1, ConcatProperties
    <3>3. <<Slash>> \o (name \o <<Slash>>) = more1 \o <<Slash>>
      BY <1>11, <3>1, ConcatAssociative
    <3>4. begin \o (more1 \o <<Slash>>) = (begin \o more1) \o <<Slash>>
      <4>1. PICK one : one = <<Slash>>
        OBVIOUS
      <4>2. one \in Seq(Codes)
        BY <1>11, <4>1
      <4>3. (begin \o more1) \o one = begin \o (more1 \o one)
        <5>1. PICK b : b = begin
          OBVIOUS
        <5>2. b \in Seq(Codes)
          BY <1>6, <5>1
        <5>3. (b \o more1) \o one = b \o (more1 \o one)
          BY <3>2, <4>2, <5>2, ConcatAssociative
        <5> QED BY <5>1, <5>3
      <4> QED BY <4>1, <4>3
    <3>5. begin \o more1 \in Seq(Codes)
      BY <1>6, <3>2, ConcatProperties
    <3>6. path = (begin \o more1) \o <<Slash>>
      BY <1>4, <2>2, <3>3, <3>4
    <3> QED BY <2>1, <3>1, <3>5, <3>6, WalkSlash
  <2>3. CASE tree[node] # "dir"
    BY <1>4, <2>1, <2>3
  <2> QED BY <2>2, <2>3
<1>21. Last(href) \in Separators <=> Last(href) = Slash
  <2>1. Last(href) \in PathChars
    <3>1. Len(href) \in 1 .. Len(href)
      BY <1>3, EmptySeq
    <3> QED BY <1>3, <3>1, ElementOfSeq DEF Last
  <2> QED BY <2>1, NameCharsPlain DEF Separators
<1>22. UrlDecode(link) = path
  BY <1>9, <1>12
<1> HIDE DEF path
<1>23. Reaches(link, node)
  BY <1>5, <1>8, <1>17, <1>18, <1>19, <1>20, <1>21, <1>22 DEF Reaches, Below
<1>24. link = DirectoryOf(url) \o LinkText(Href(node))
  BY <1>7 DEF link, more, href
<1> QED BY <1>3, <1>5, <1>8, <1>23, <1>24

(* Where the parent's link cuts the URL.                                   *)
LEMMA ParentFacts ==
  ASSUME NEW url \in Seq(UrlChars), url # <<>>, ParentOf(url) # <<>>
  PROVE  LET l == Len(ParentOf(url))
             named == SubSeq(url, l + 1, Len(url) - 1) IN
         /\ ParentOf(url) \in Seq(UrlChars) /\ named \in Seq(UrlChars)
         /\ Front(url) = ParentOf(url) \o named
<1> DEFINE f == Front(url)
           I == {i \in 1 .. Len(f) : f[i] = Slash}
           l == SelectLastInSeq(f, LAMBDA c : c = Slash)
           V == SubSeq(f, 1, l)
           N == SubSeq(url, l + 1, Len(url) - 1)
<1>1. Len(url) \in Nat \ {0}
  BY EmptySeq
<1>2. Len(url) - 1 \in 0 .. Len(url)
  BY <1>1
<1>3. /\ f \in Seq(UrlChars) /\ Len(f) = Len(url) - 1 /\ Len(f) \in Nat
      /\ \A i \in 1 .. Len(url) - 1 : f[i] = url[i]
  <2>1. f = SubSeq(url, 1, Len(url) - 1)
    BY DEF Front
  <2> HIDE DEF f
  <2>2. /\ f \in Seq(UrlChars) /\ Len(f) = Len(url) - 1
        /\ \A i \in 1 .. Len(url) - 1 : f[i] = url[i]
    BY <1>2, <2>1, HoldsBeginning
  <2> QED BY <1>1, <2>2
<1> HIDE DEF f
<1>4. l = IF I # {} THEN Max(I) ELSE 0
  BY DEF SelectLastInSeq
<1>5. I \subseteq 0 .. Len(f)
  BY <1>3
<1> HIDE DEF I, l
<1>6. l \in 0 .. Len(f)
  <2>1. I # {} => Max(I) \in 0 .. Len(f)
    BY <1>3, <1>5, MaxFacts
  <2> QED BY <1>3, <1>4, <2>1
<1>7. V \in Seq(UrlChars) /\ Len(V) = l /\ \A i \in 1 .. l : V[i] = f[i]
  BY <1>3, <1>6, HoldsBeginning
<1>8. /\ N \in Seq(UrlChars) /\ Len(N) = Len(f) - l
      /\ \A i \in 1 .. Len(f) - l : N[i] = f[l + i]
  <2>1. PICK a, b : a = l + 1 /\ b = Len(url) - 1
    OBVIOUS
  <2>2. a \in Int /\ b \in Int /\ b = Len(f) /\ b - a + 1 = Len(f) - l
    BY <1>3, <1>6, <2>1
  <2>3. \A i \in a .. b : i \in 1 .. Len(url)
    BY <1>1, <1>6, <2>1
  <2>4. \A i \in a .. b : url[i] \in UrlChars
    BY <2>3, ElementOfSeq
  <2>5. /\ SubSeq(url, a, b) \in Seq(UrlChars)
        /\ Len(SubSeq(url, a, b)) = IF a <= b THEN b - a + 1 ELSE 0
        /\ \A i \in 1 .. b - a + 1 : SubSeq(url, a, b)[i] = url[a + i - 1]
    BY <2>2, <2>4, SubSeqProperties
  <2>6. N = SubSeq(url, a, b)
    BY <2>1
  <2> HIDE DEF N
  <2>7. Len(N) = Len(f) - l
    BY <1>3, <1>6, <2>1, <2>2, <2>5, <2>6
  <2>8. \A i \in 1 .. Len(f) - l : a + i - 1 = l + i /\ l + i \in 1 .. Len(url) - 1
    BY <1>3, <1>6, <2>1
  <2>9. ASSUME NEW i \in 1 .. Len(f) - l PROVE N[i] = f[l + i]
    BY <1>3, <2>2, <2>5, <2>6, <2>8
  <2> QED BY <2>5, <2>6, <2>7, <2>9
<1>9. ParentOf(url) = V
  BY DEF ParentOf, DirectoryOf, f, l
<1>10. f = V \o N
  <2> HIDE DEF V, N
  <2> DEFINE w == V \o N
  <2>1. /\ w \in Seq(UrlChars) /\ Len(w) = Len(V) + Len(N)
        /\ \A i \in 1 .. Len(V) + Len(N) : w[i] = IF i <= Len(V) THEN V[i] ELSE N[i - Len(V)]
    BY <1>7, <1>8, ConcatProperties
  <2> HIDE DEF w
  <2>2. Len(w) = Len(f)
    BY <1>3, <1>6, <1>7, <1>8, <2>1
  <2>3. ASSUME NEW i \in 1 .. Len(f) PROVE w[i] = f[i]
    <3>1. CASE i <= l
      <4>1. i \in 1 .. l /\ i \in 1 .. Len(V) + Len(N)
        BY <1>3, <1>6, <1>7, <1>8, <3>1
      <4> QED BY <1>7, <2>1, <3>1, <4>1
    <3>2. CASE ~(i <= l)
      <4>1. PICK j : j = i - l
        OBVIOUS
      <4>2. j \in 1 .. Len(f) - l /\ l + j = i /\ i \in 1 .. Len(V) + Len(N)
        BY <1>3, <1>6, <1>7, <1>8, <3>2, <4>1
      <4> QED BY <1>7, <1>8, <2>1, <3>2, <4>1, <4>2
    <3> QED BY <3>1, <3>2
  <2>4. w = f
    BY <1>3, <2>1, <2>2, <2>3, SeqEqual
  <2> QED BY <2>4 DEF w
<1> HIDE DEF V, N
<1>11. l = Len(ParentOf(url))
  BY <1>7, <1>9
<1> QED BY <1>7, <1>8, <1>9, <1>10, <1>11 DEF f, N

(* ../ leads to the parent.                                                *)
LEMMA ParentReaches ==
  ASSUME tree \in Trees, NEW url \in Seq(UrlChars), NEW node \in DOMAIN tree,
         TakesOff(url, node), Safe(UrlDecode(url)), Walk(UrlDecode(url)) = node
  PROVE  LET parent == IF node = <<>> THEN <<>> ELSE Front(node) IN
         /\ parent \in DOMAIN tree /\ tree[parent] = "dir"
         /\ Reaches(ParentOf(url), parent) /\ Last(ParentOf(url)) = Slash
<1> DEFINE up     == ParentOf(url)
           name   == NameIn(url)
           text   == UrlDecode(url)
           begin  == UrlDecode(Front(url))
           utext  == UrlDecode(up)
           ubegin == UrlDecode(Front(up))
           parent == IF node = <<>> THEN <<>> ELSE Front(node)
<1>1. /\ EndsApart(url) /\ EndsApart(up) /\ Range(name) \cap Separators = {}
      /\ node # <<>> => name \notin {<<>>, <<Dot>>}
  BY DEF TakesOff
<1>2. up \in Seq(UrlChars)
  BY DirectoryTyped DEF ParentOf
<1>3. /\ begin \in Seq(Codes) /\ text = begin \o <<Slash>> /\ Below(text)
      /\ Len(text) = Len(begin) + 1 /\ Len(begin) \in Nat /\ url # <<>>
      /\ \A i \in 1 .. Len(begin) : text[i] = begin[i]
  BY <1>1, EndsFacts
<1>4. /\ up \in Seq(Nat) /\ Apart(up) /\ Below(utext) /\ up # <<>> /\ Last(up) = Slash
      /\ ubegin \in Seq(Codes) /\ utext = ubegin \o <<Slash>>
      /\ Len(utext) = Len(ubegin) + 1 /\ Len(ubegin) \in Nat
      /\ \A i \in 1 .. Len(ubegin) : utext[i] = ubegin[i]
      /\ utext[Len(utext)] = Slash
  BY <1>1, <1>2, EndsFacts
<1>5. begin = utext \o name /\ name \in Seq(Int)
  <2> DEFINE N == SubSeq(url, Len(up) + 1, Len(url) - 1)
  <2>1. N \in Seq(UrlChars) /\ Front(url) = up \o N
    BY <1>3, <1>4, ParentFacts
  <2>2. UrlChars \subseteq Nat
    BY DEF UrlChars
  <2> HIDE DEF N
  <2>3. N \in Seq(Nat)
    BY <2>1, <2>2, SeqMonotonic
  <2>4. UrlDecode(up \o N) = UrlDecode(up) \o UrlDecode(N)
    BY <1>4, <2>3, DecodeApart
  <2>5. name = UrlDecode(N)
    BY DEF NameIn, N
  <2> QED BY <2>1, <2>3, <2>4, <2>5, DecodeNat
<1> HIDE DEF name
<1>6. /\ text \in Seq(Codes) /\ utext \in Seq(Codes) /\ Safe(text) /\ Walk(text) = node
  BY <1>3, <1>4 DEF Below
<1> HIDE DEF text, begin, utext, ubegin
<1>7. Codes \subseteq Int /\ Slash \in Int /\ Slash \in Codes
  BY DEF Codes, Slash
<1>8. ubegin \in Seq(Int) /\ utext \in Seq(Int)
  BY <1>4, <1>6, <1>7, SeqMonotonic
<1>9. PICK one : one = <<Slash>>
  OBVIOUS
<1>10. one \in Seq(Int) /\ one \in Seq(Codes)
  BY <1>7, <1>9
<1>11. begin = ubegin \o (<<Slash>> \o name)
  <2>1. ubegin \in Seq(Int) /\ one \in Seq(Int) /\ name \in Seq(Int)
    <3>1. name \in Seq(Int)
      BY <1>5
    <3> QED BY <1>8, <1>10, <3>1
  <2>2. (ubegin \o one) \o name = ubegin \o (one \o name)
    <3>1. ASSUME NEW a \in Seq(Int), NEW b \in Seq(Int), NEW c \in Seq(Int)
          PROVE (a \o b) \o c = a \o (b \o c)
      BY ConcatAssociative
    <3> QED BY <2>1, <3>1
  <2> QED BY <1>4, <1>5, <1>9, <2>2
<1>12. Safe(begin)
  <2>1. Len(begin) <= Len(text) /\ \A i \in 1 .. Len(begin) : begin[i] = text[i]
    BY <1>3
  <2> QED BY <1>3, <1>6, <2>1, SafePrefix
<1>13. /\ Len(begin) = Len(utext) + Len(name) /\ Len(name) \in Nat /\ Len(utext) \in Nat
       /\ \A i \in 1 .. Len(utext) : begin[i] = utext[i]
       /\ \A i \in 1 .. Len(name) : begin[Len(utext) + i] = name[i]
  <2>1. /\ Len(utext \o name) = Len(utext) + Len(name) /\ Len(name) \in Nat /\ Len(utext) \in Nat
        /\ \A i \in 1 .. Len(utext) + Len(name) :
             (utext \o name)[i] = IF i <= Len(utext) THEN utext[i] ELSE name[i - Len(utext)]
    BY <1>5, <1>8, ConcatProperties, LenProperties
  <2>2. \A i \in 1 .. Len(begin) : begin[i] = IF i <= Len(utext) THEN utext[i] ELSE name[i - Len(utext)]
    BY <1>5, <2>1
  <2>3. ASSUME NEW i \in 1 .. Len(name) PROVE begin[Len(utext) + i] = name[i]
    <3>1. PICK j : j = Len(utext) + i
      OBVIOUS
    <3>2. j \in 1 .. Len(begin) /\ ~(j <= Len(utext)) /\ j - Len(utext) = i
      BY <1>5, <2>1, <3>1
    <3> QED BY <2>2, <3>1, <3>2
  <2>4. \A i \in 1 .. Len(utext) : i \in 1 .. Len(begin) /\ i <= Len(utext)
    BY <1>5, <2>1
  <2> QED BY <1>5, <2>1, <2>2, <2>3, <2>4
<1>14. Safe(utext)
  <2>1. Len(utext) <= Len(begin) /\ \A i \in 1 .. Len(utext) : utext[i] = begin[i]
    BY <1>13
  <2> QED BY <1>3, <1>6, <1>12, <2>1, SafePrefix
<1>15. name # <<Dot, Dot>>
  <2>1. ASSUME name = <<Dot, Dot>> PROVE FALSE
    <3>1. Len(name) = 2 /\ name[1] = Dot /\ name[2] = Dot
      BY <2>1
    <3>2. PICK k : k = Len(utext) + 1
      OBVIOUS
    <3>3. k \in 1 .. Len(begin) - 1 /\ 1 \in 1 .. Len(name) /\ 2 \in 1 .. Len(name)
          /\ Len(utext) + 1 = k /\ Len(utext) + 2 = k + 1
      BY <1>13, <3>1, <3>2
    <3>4. begin[k] = Dot /\ begin[k + 1] = Dot
      BY <1>13, <3>1, <3>3
    <3> QED BY <1>12, <3>3, <3>4 DEF Safe, NoDots
  <2> QED BY <2>1
<1> DEFINE W == Walk(ubegin)
<1>16. node = Into(W, name)
  <2>1. \A i \in 1 .. Len(name) : name[i] \notin Separators
    <3>1. \A i \in 1 .. Len(name) : name[i] \in Range(name)
      BY <1>5, LenProperties DEF Range
    <3> QED BY <1>1, <3>1
  <2>2. Walk(ubegin \o (<<Slash>> \o name)) = Into(W, name)
    BY <1>5, <1>7, <1>8, <2>1, WalkInto
  <2>3. Walk(text) = Walk(begin)
    BY <1>3, WalkSlash
  <2> QED BY <1>6, <1>11, <2>2, <2>3
<1>17. W \in Seq(Seq(Codes))
  <2>1. Len(ubegin) <= Len(utext) /\ \A i \in 1 .. Len(ubegin) : ubegin[i] = utext[i]
    BY <1>4
  <2>2. Safe(ubegin)
    BY <1>4, <1>6, <1>14, <2>1, SafePrefix
  <2> QED BY <1>4, <2>2, SafeWalk DEF Safe
<1>18. Walk(utext) = W
  BY <1>4, WalkSlash
<1> HIDE DEF W
<1>19. parent = W
  <2>1. CASE name \in {<<>>, <<Dot>>}
    BY <1>1, <1>15, <1>16, <2>1 DEF Into
  <2>2. CASE name \notin {<<>>, <<Dot>>}
    <3>1. node = Append(W, name)
      BY <1>15, <1>16, <2>2 DEF Into
    <3>2. PICK R : R = Seq(Int)
      OBVIOUS
    <3>3. W \in Seq(R) /\ name \in R
      <4>1. Seq(Codes) \subseteq R
        BY <1>7, <3>2, SeqMonotonic
      <4> QED BY <1>5, <1>17, <3>2, <4>1, SeqMonotonic
    <3>4. /\ node \in Seq(R) /\ Len(node) = Len(W) + 1 /\ Len(W) \in Nat
          /\ \A i \in 1 .. Len(W) : node[i] = W[i]
      BY <3>1, <3>3, AppendProperties, LenProperties
    <3>5. node # <<>> /\ Len(node) - 1 = Len(W)
      BY <3>4, EmptySeq
    <3>6. Front(node) = SubSeq(node, 1, Len(W))
      BY <3>5 DEF Front
    <3>7. Len(W) \in 0 .. Len(node)
      BY <3>4
    <3>8. PICK f : f = SubSeq(node, 1, Len(W))
      OBVIOUS
    <3>9. f \in Seq(R) /\ Len(f) = Len(W) /\ \A i \in 1 .. Len(W) : f[i] = node[i]
      BY <3>4, <3>7, <3>8, HoldsBeginning
    <3>10. f = W
      BY <3>3, <3>4, <3>9, SeqEqual
    <3> QED BY <3>5, <3>6, <3>8, <3>10
  <2> QED BY <2>1, <2>2
<1>20. parent \in DOMAIN tree /\ tree[parent] = "dir"
  BY TreeAssumption
<1>21. Len(up) \in Nat \ {0}
  BY <1>4, EmptySeq
<1>22. Slash \in Separators
  BY DEF Separators
<1> HIDE DEF parent
<1>23. Reaches(up, parent)
  BY <1>4, <1>14, <1>18, <1>19, <1>21, <1>22 DEF Reaches, utext
<1> QED BY <1>4, <1>20, <1>23 DEF parent
-----------------------------------------------------------------------------
(* What the client got last is an answer to its own URL, in whatever       *)
(* pieces that came: a request of which the parser found all it looks for  *)
(* has its URL complete.                                                   *)
LEMMA ScanFound ==
  ASSUME NEW text, Len(text) \in Nat, NEW from \in Nat, NEW c, Scan(text, from, c) # 0
  PROVE  /\ Scan(text, from, c) \in from .. Len(text) /\ from # 0
         /\ text[Scan(text, from, c)] = c
         /\ \A i \in from .. Scan(text, from, c) - 1 : text[i] # c
<1> DEFINE n == Len(text)
           I == {i \in from .. n : text[i] = c}
<1>1. SelectInSubSeq(text, from, n, LAMBDA x : x = c) = IF I # {} THEN Min(I) ELSE 0
  BY DEF SelectInSubSeq
<1>2. Scan(text, from, c) = IF from = 0 \/ I = {} THEN 0 ELSE Min(I)
  BY <1>1 DEF Scan, Stray
<1>3. from # 0 /\ I # {} /\ Scan(text, from, c) = Min(I)
  BY <1>2
<1>4. I \subseteq Nat /\ \A i \in I : i \in from .. n /\ text[i] = c
  OBVIOUS
<1>5. \A i \in from .. n : text[i] = c => i \in I
  OBVIOUS
<1> HIDE DEF I
<1>6. PICK m : m = Min(I)
  OBVIOUS
<1>7. m \in I /\ \A i \in I : m <= i
  BY <1>3, <1>4, <1>6, MinFacts
<1>8. m \in from .. n /\ text[m] = c
  BY <1>4, <1>7
<1>9. ASSUME NEW i \in from .. m - 1 PROVE text[i] # c
  <2>1. i \in from .. n /\ ~(m <= i)
    BY <1>8
  <2> QED BY <1>5, <1>7, <2>1
<1> QED BY <1>3, <1>6, <1>8, <1>9

LEMMA UrlRead ==
  ASSUME NEW r \in Requests, NEW g \in 0 .. Size(r),
         ~Strays(Parse(SubSeq(Request(r), 1, g)))
  PROVE  LET text == SubSeq(Request(r), 1, g) IN PathText(text, Parse(text)) = r.url
<1> DEFINE q == Request(r)
           text == SubSeq(q, 1, g)
           M == Len(r.method)
           U == Len(r.url)
           parse == Parse(text)
<1>1. /\ q \in Seq(Nat) /\ M \in Nat /\ U \in Nat /\ Len(q) \in Nat
      /\ Len(q) = M + U + 7 + Len(r.lines) + Len(r.body) /\ Len(r.lines) \in Nat /\ Len(r.body) \in Nat
      /\ Holds(q, 0, r.method) /\ Holds(q, M, <<SP>>)
      /\ Holds(q, M + 1, r.url) /\ Holds(q, M + U + 1, <<SP, 72, CR, LF>>)
  BY RequestFacts, LenProperties
<1>2. g \in 0 .. Len(q)
  BY DEF Size
<1> HIDE DEF q
<1>3. Len(text) = g /\ \A i \in 1 .. g : text[i] = q[i]
  BY <1>1, <1>2, HoldsBeginning
<1> HIDE DEF text
<1>4. /\ \A i \in 1 .. M : q[i] # SP
      /\ q[M + 1] = SP
      /\ \A i \in 1 .. U : q[M + 1 + i] = r.url[i] /\ q[M + 1 + i] # SP
      /\ q[M + U + 2] = SP
  <2>1. r.method \in Seq(UrlChars) /\ r.url \in Seq(UrlChars)
    BY MethodFacts DEF Requests
  <2>2. ASSUME NEW i \in 1 .. M PROVE q[i] = r.method[i] /\ r.method[i] \in UrlChars
    <3>1. q[0 + i] = r.method[i]
      BY <1>1 DEF Holds
    <3>2. r.method[i] \in UrlChars
      BY <2>1, ElementOfSeq
    <3>3. 0 + i = i
      BY <1>1
    <3> QED BY <3>1, <3>2, <3>3
  <2>3. \A i \in 1 .. U : q[M + 1 + i] = r.url[i] /\ r.url[i] \in UrlChars
    BY <1>1, <2>1, ElementOfSeq DEF Holds
  <2>4. SP \notin UrlChars
    BY DEF UrlChars
  <2>5. q[M + 1] = SP
    <3>1. Len(<<SP>>) = 1 /\ <<SP>>[1] = SP /\ 1 \in 1 .. 1
      OBVIOUS
    <3> QED BY <1>1, <3>1 DEF Holds
  <2>6. q[M + U + 2] = SP
    <3>1. PICK h : h = <<SP, 72, CR, LF>>
      OBVIOUS
    <3>2. Len(h) = 4 /\ h[1] = SP /\ 1 \in 1 .. Len(h)
      BY <3>1
    <3>3. q[M + U + 1 + 1] = SP
      BY <1>1, <3>1, <3>2 DEF Holds
    <3>4. M + U + 1 + 1 = M + U + 2
      BY <1>1
    <3> QED BY <3>3, <3>4
  <2> QED BY <2>2, <2>3, <2>4, <2>5, <2>6
<1>5. /\ parse.methodEnd = Scan(text, 1, SP) /\ parse.pathEnd = Scan(text, After(parse.methodEnd), SP)
      /\ parse.methodEnd # 0 /\ parse.pathEnd # 0
  <2>1. /\ parse.methodEnd = Scan(text, 1, SP)
        /\ parse.pathEnd = Scan(text, After(parse.methodEnd), SP)
        /\ {"methodEnd", "pathEnd"} \subseteq DOMAIN parse
    BY DEF Parse
  <2>2. ~Strays(parse)
    BY DEF text, q
  <2> HIDE DEF parse
  <2> QED BY <2>1, <2>2 DEF Strays, Stray
<1> HIDE DEF parse, M, U
<1>6. PICK e : e = parse.methodEnd
  OBVIOUS
<1>7. e \in 1 .. g /\ text[e] = SP /\ \A i \in 1 .. e - 1 : text[i] # SP
  <2>1. Scan(text, 1, SP) = e /\ e # 0
    BY <1>5, <1>6
  <2>2. Len(text) = g /\ g \in Nat
    BY <1>1, <1>2, <1>3
  <2>3. Scan(text, 1, SP) \in 1 .. g /\ text[Scan(text, 1, SP)] = SP
        /\ \A i \in 1 .. Scan(text, 1, SP) - 1 : text[i] # SP
    BY <2>1, <2>2, ScanFound
  <2> QED BY <2>1, <2>3
<1>8. e = M + 1
  <2>0. e \in Int /\ g \in Nat /\ e >= 1 /\ e <= g /\ M \in Nat
    BY <1>1, <1>7
  <2>1. q[e] = SP
    BY <1>3, <1>7
  <2>2. e > M
    BY <2>0, <1>4, <2>1
  <2>3. ASSUME e > M + 1 PROVE FALSE
    <3>1. M + 1 \in 1 .. e - 1 /\ M + 1 \in 1 .. g
      BY <1>1, <1>2, <1>7, <2>3
    <3> QED BY <1>3, <1>4, <1>7, <3>1
  <2>4. ~(e > M + 1)
    BY <2>3
  <2> QED BY <2>0, <2>2, <2>4
<1>9. PICK p : p = parse.pathEnd
  OBVIOUS
<1>10. p \in M + 2 .. g /\ text[p] = SP /\ \A i \in M + 2 .. p - 1 : text[i] # SP
  <2>1. After(parse.methodEnd) = M + 2
    <3>1. M \in Nat
      BY <1>1
    <3>2. M + 1 # 0 /\ M + 1 + 1 = M + 2
      BY <3>1
    <3>3. parse.methodEnd = M + 1
      BY <1>6, <1>8
    <3> QED BY <3>2, <3>3 DEF After, Stray
  <2>2. M + 2 \in Nat /\ Scan(text, M + 2, SP) = p /\ p # 0
    <3>1. M \in Nat
      BY <1>1
    <3>2. Scan(text, M + 2, SP) = p /\ p # 0
      BY <1>5, <1>9, <2>1
    <3> QED BY <3>1, <3>2
  <2> QED BY <1>2, <1>3, <2>2, ScanFound
<1>11. p = M + U + 2
  <2>1. q[p] = SP
    <3>1. p \in 1 .. g
      BY <1>1, <1>10
    <3> QED BY <1>3, <1>10, <3>1
  <2>2. ASSUME p < M + U + 2 PROVE FALSE
    <3>1. PICK i : i = p - (M + 1)
      OBVIOUS
    <3>2. i \in 1 .. U /\ M + 1 + i = p
      BY <1>1, <1>10, <2>2, <3>1
    <3> QED BY <1>4, <2>1, <3>2
  <2>3. ASSUME p > M + U + 2 PROVE FALSE
    <3>1. M + U + 2 \in M + 2 .. p - 1 /\ M + U + 2 \in 1 .. g
      BY <1>1, <1>2, <1>10, <2>3
    <3> QED BY <1>3, <1>4, <1>10, <3>1
  <2> QED BY <1>1, <1>10, <2>2, <2>3
<1>12. PathText(text, parse) = SubSeq(text, M + 1 + 1, M + 1 + U)
  <2>1. parse.methodEnd + 1 = M + 1 + 1 /\ parse.pathEnd - 1 = M + 1 + U
    BY <1>1, <1>6, <1>8, <1>9, <1>11
  <2> QED BY <2>1 DEF PathText
<1>13. SubSeq(text, M + 1 + 1, M + 1 + U) = r.url
  <2>1. ASSUME NEW i \in 1 .. Len(r.url) PROVE text[M + 1 + i] = r.url[i]
    <3>1. i \in 1 .. U /\ M + 1 + i \in 1 .. g
      BY <1>1, <1>2, <1>10, <1>11 DEF U
    <3> QED BY <1>3, <1>4, <3>1
  <2>2. Holds(text, M + 1, r.url)
    BY <2>1 DEF Holds
  <2>3. r.url \in Seq(UrlChars)
    BY DEF Requests
  <2>4. U = Len(r.url) /\ M + 1 \in Nat
    BY <1>1 DEF U
  <2> QED BY <2>2, <2>3, <2>4, HoldsCut
<1> QED BY <1>12, <1>13 DEF text, q, parse

-----------------------------------------------------------------------------
(* What a client that follows a link or a redirect asks for leads to what  *)
(* it means to reach.                                                      *)
Aims(r, why, sought) == why \in {"link", "redirect"} =>
    /\ r = Get(r.url)
    /\ \A node \in sought :
          /\ node \in DOMAIN tree
          /\ why = "redirect" \/ Plain(node) =>
               Reaches(r.url, node) /\ (tree[node] = "dir" <=> Last(r.url) = Slash)

Aimed == Aims(asked, how, want)
Sound == server = "serve" \/ page # NoPage => ~Strays(parsed)
JInv  == IInv /\ Sound /\ Aimed

LEMMA PageOf ==
  ASSUME IInv, Sound, page # NoPage
  PROVE  \E m : page = Answer(m, asked.url)
<1>1. asked \in Requests /\ got \in 0 .. Size(asked)
  BY ReceivedTyped DEF IInv, TypeOK
<1>2. parsed = Parse(Received) /\ ~Strays(parsed)
  BY DEF IInv, Understanding, Sound
<1>3. Received = SubSeq(Request(asked), 1, got)
  BY DEF Received, Beginning
<1>4. PathText(Received, parsed) = asked.url
  BY <1>1, <1>2, <1>3, UrlRead
<1> QED BY <1>4 DEF IInv, Answering

LEMMA AskedUrl ==
  ASSUME IInv
  PROVE  tree \in Trees /\ asked.url \in Seq(UrlChars)
BY DEF IInv, TypeOK, Requests

LEMMA GetUrl ==
  ASSUME NEW url
  PROVE  Get(url).url = url /\ Get(url) = Get(Get(url).url)
BY DEF Get

(* A redirect was answered at the URL of a directory without its slash.    *)
LEMMA RedirectAims ==
  ASSUME IInv, Sound, page.kind = "redirect"
  PROVE  Aims(Get(Location(asked.url)), "redirect",
              Meant(EndsApart(Location(asked.url)), page.node))
<1>1. PICK m : page = Answer(m, asked.url)
  BY PageOf DEF NoPage
<1>2. ASSUME EndsApart(Location(asked.url))
      PROVE  /\ page.node \in DOMAIN tree /\ tree[page.node] = "dir"
             /\ Reaches(Location(asked.url), page.node) /\ Last(Location(asked.url)) = Slash
  BY <1>1, <1>2, AskedUrl, RedirectReaches
<1> QED BY <1>2, GetUrl DEF Aims, Meant

(* A listing was answered at the URL of the directory that it lists.       *)
LEMMA ListingReached ==
  ASSUME IInv, Sound, page.kind = "listing", EndsApart(asked.url), asked.url # <<Slash>>
  PROVE  /\ Safe(UrlDecode(asked.url)) /\ Walk(UrlDecode(asked.url)) = page.node
         /\ page.node \in DOMAIN tree /\ tree[page.node] = "dir"
<1>1. PICK m : page = Answer(m, asked.url)
  BY PageOf DEF NoPage
<1>2. Below(UrlDecode(asked.url)) /\ Len(UrlDecode(asked.url)) >= 2
  BY AskedUrl, EndsFacts
<1> QED BY <1>1, <1>2, AskedUrl, DirectoryReached

LEMMA EntryAims ==
  ASSUME IInv, Sound, page.kind = "listing", NEW node \in DOMAIN tree, node # <<>>,
         Front(node) = page.node
  PROVE  Aims(Get(DirectoryOf(asked.url) \o LinkText(Href(node))), "link",
              Meant(EndsApart(asked.url) /\ asked.url # <<Slash>>, node))
<1> DEFINE link == DirectoryOf(asked.url) \o LinkText(Href(node))
<1>1. ASSUME EndsApart(asked.url), asked.url # <<Slash>>, Plain(node)
      PROVE  Reaches(link, node) /\ (tree[node] = "dir" <=> Last(link) = Slash)
  BY <1>1, AskedUrl, ListingReached, EntryReaches
<1> HIDE DEF link
<1>2. Aims(Get(link), "link", Meant(EndsApart(asked.url) /\ asked.url # <<Slash>>, node))
  BY <1>1, GetUrl DEF Aims, Meant
<1> QED BY <1>2 DEF link

LEMMA ParentAims ==
  ASSUME IInv, Sound, page.kind = "listing", asked.url # <<Slash>>
  PROVE  Aims(Get(ParentOf(asked.url)), "link",
              Meant(TakesOff(asked.url, page.node),
                    IF page.node = <<>> THEN <<>> ELSE Front(page.node)))
<1> DEFINE parent == IF page.node = <<>> THEN <<>> ELSE Front(page.node)
<1>1. ASSUME TakesOff(asked.url, page.node)
      PROVE  /\ parent \in DOMAIN tree /\ tree[parent] = "dir"
             /\ Reaches(ParentOf(asked.url), parent) /\ Last(ParentOf(asked.url)) = Slash
  <2>1. EndsApart(asked.url)
    BY <1>1 DEF TakesOff
  <2>2. /\ Safe(UrlDecode(asked.url)) /\ Walk(UrlDecode(asked.url)) = page.node
        /\ page.node \in DOMAIN tree
    BY <2>1, ListingReached
  <2> QED BY <1>1, <2>2, AskedUrl, ParentReaches
<1> HIDE DEF parent
<1>2. Aims(Get(ParentOf(asked.url)), "link", Meant(TakesOff(asked.url, page.node), parent))
  BY <1>1, GetUrl DEF Aims, Meant
<1> QED BY <1>2 DEF parent

LEMMA AskAims ==
  ASSUME NEW r, NEW why, NEW sought, Ask(r, why, sought), Aims(r, why, sought)
  PROVE  (Sound /\ Aimed)'
BY DEF Ask, Aims, Aimed, Sound, given, Plain

LEMMA AsksAim == JInv /\ Asks => (Sound /\ Aimed)'
<1> SUFFICES ASSUME JInv, Asks PROVE (Sound /\ Aimed)'
  OBVIOUS
<1> USE DEF JInv
<1>1. ASSUME NEW r, NEW why \in {"typed", "other"}, NEW sought, Ask(r, why, sought)
      PROVE  (Sound /\ Aimed)'
  BY <1>1, AskAims DEF Aims
<1>2. CASE FollowRedirect
  BY <1>2, RedirectAims, AskAims DEF FollowRedirect
<1>3. CASE ClickParent
  BY <1>3, ParentAims, AskAims DEF ClickParent
<1>4. ASSUME NEW node \in DOMAIN tree, ClickEntry(node) PROVE (Sound /\ Aimed)'
  BY <1>4, EntryAims, AskAims DEF ClickEntry
<1>5. ASSUME NEW node, NEW slash, Type(node, slash) PROVE (Sound /\ Aimed)'
  BY <1>1, <1>5 DEF Type
<1>6. ASSUME NEW url, Mistype(url) PROVE (Sound /\ Aimed)'
  BY <1>1, <1>6 DEF Mistype
<1>7. ASSUME NEW m, NEW lines, NEW body, AskOtherwise(m, lines, body) PROVE (Sound /\ Aimed)'
  BY <1>1, <1>7 DEF AskOtherwise
<1> QED BY <1>2, <1>3, <1>4, <1>5, <1>6, <1>7 DEF Asks

LEMMA AimedSame ==
  ASSUME Aimed, UNCHANGED <<tree, asked, how, want>>
  PROVE  Aimed'
<1>1. \A url, node : Reaches(url, node)' <=> Reaches(url, node)
  BY DEF Reaches, Below, Safe
<1> QED BY <1>1 DEF Aimed, Aims, Plain

LEMMA ServingAims ==
  ASSUME JInv, (\E n \in Pieces \cup {Len(Request(asked)) - got} : Arrive(n)) \/ Leave \/ ServerStep
  PROVE  (Sound /\ Aimed)'
<1>1. Aimed'
  <2>1. UNCHANGED <<tree, asked, how, want>>
    BY DEF Arrive, Leave, ServerStep, RecvEnds, ParseRequest, Serve, given, asking
  <2> QED BY <2>1, AimedSame DEF JInv
<1>2. Sound'
  <2>1. CASE (\E n \in Pieces \cup {Len(Request(asked)) - got} : Arrive(n)) \/ Leave \/ RecvEnds
    <3>1. page' = NoPage /\ server' # "serve"
      BY <2>1 DEF JInv, IInv, Unanswered, Arrive, Leave, RecvEnds
    <3> QED BY <3>1 DEF Sound
  <2>2. CASE ParseRequest
    <3>1. page' = NoPage /\ (server' = "serve" => ~Strays(parsed'))
      BY <2>2 DEF JInv, IInv, Unanswered, ParseRequest
    <3> QED BY <3>1 DEF Sound
  <2>3. CASE Serve
    <3>1. parsed' = parsed /\ ~Strays(parsed)
      BY <2>3 DEF JInv, Sound, Serve
    <3> QED BY <3>1 DEF Sound
  <2> QED BY <2>1, <2>2, <2>3 DEF ServerStep
<1> QED BY <1>1, <1>2

LEMMA Aiming == Spec => []JInv
<1>1. Init => JInv
  BY InitIInv DEF Init, JInv, Sound, Aimed, Aims
<1>2. IInv /\ [Next]_vars => IInv'
  BY StepKeeps
<1>3. JInv /\ [Next]_vars => (Sound /\ Aimed)'
  <2> SUFFICES ASSUME JInv, [Next]_vars PROVE (Sound /\ Aimed)'
    OBVIOUS
  <2>1. CASE ClientStep
    BY <2>1, AsksAim, ServingAims DEF ClientStep, Asks
  <2>2. CASE ServerStep
    BY <2>2, ServingAims
  <2>3. CASE Terminated \/ UNCHANGED vars
    <3>1. UNCHANGED vars
      BY <2>3 DEF Terminated
    <3>2. Aimed'
      BY <3>1, AimedSame DEF JInv, vars, given, asking
    <3> QED BY <3>1, <3>2 DEF JInv, Sound, vars
  <2> QED BY <2>1, <2>2, <2>3 DEF Next
<1>4. JInv /\ [Next]_vars => JInv'
  BY <1>2, <1>3 DEF JInv
<1> QED BY <1>1, <1>4, PTL DEF Spec

(* Clicking through the listings leads where the links say: an entry's     *)
(* link to the entry, ../ to the parent, and a redirect to the directory   *)
(* itself (dir_stream_next, build_http_redirect_response, url_decode,      *)
(* resolve_file_path and serve_http_request).                              *)
THEOREM LinksServed == Spec => []LinksLead
<1>1. ASSUME JInv, Answered, NEW node \in want,
             how = "redirect" \/ (how = "link" /\ Plain(node))
      PROVE  page \in Right(node)
  <2>1. asked = Get(asked.url) /\ node \in DOMAIN tree /\ Reaches(asked.url, node)
        /\ (tree[node] = "dir" <=> Last(asked.url) = Slash)
    BY <1>1 DEF JInv, Aimed, Aims
  <2>2. page = Answer(GET, asked.url) /\ page # Nowhere
    BY <1>1, <2>1, AnsweredPage DEF JInv
  <2>3. tree \in Trees
    BY <1>1 DEF JInv, IInv, TypeOK
  <2>4. Due(node, asked.url, page)
    BY <1>1, <2>1, <2>2, <2>3, ReachesAnswered DEF Answered
  <2>5. ~(tree[node] = "dir" /\ Last(asked.url) # Slash) /\ ~(tree[node] # "dir" /\ Last(asked.url) = Slash)
    BY <2>1
  <2> QED BY <2>4, <2>5 DEF Due
<1>2. JInv => LinksLead
  BY <1>1 DEF LinksLead
<1> QED BY <1>2, Aiming, PTL
=================================================================================
