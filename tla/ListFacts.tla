------------------------------- MODULE ListFacts -------------------------------
(***************************************************************************)
(* Lists without repetitions: what appending, and removing the first or    *)
(* the last element, does to the set of elements.  Sets of at most one     *)
(* element, for counting the places where something is.  Induction over    *)
(* the numbers of a set: the induction theorems of the library take an     *)
(* operator, a set needs none.  And sequences of sequences, end to end.    *)
(***************************************************************************)
EXTENDS SequencesExt, SequenceTheorems, FiniteSetTheorems, WellFoundedInduction, TLAPS

(* Appending adds one element to the range, and keeps a sequence without   *)
(* repetitions so when the element is new: QueueLink and WorkerRecycle.    *)
LEMMA AppendRange ==
  ASSUME NEW S, NEW q \in Seq(S), NEW e \in S
  PROVE  /\ Append(q, e) \in Seq(S)
         /\ Len(Append(q, e)) = Len(q) + 1
         /\ Range(Append(q, e)) = Range(q) \cup {e}
         /\ IsInjective(q) /\ e \notin Range(q) => IsInjective(Append(q, e))
<1> DEFINE r == Append(q, e)
<1>1. /\ r \in Seq(S) /\ Len(r) = Len(q) + 1
      /\ \A i \in 1 .. Len(q) : r[i] = q[i]
      /\ r[Len(q) + 1] = e
  BY AppendProperties
<1>2. Len(q) \in Nat /\ DOMAIN q = 1 .. Len(q) /\ DOMAIN r = 1 .. Len(r)
  BY <1>1, LenProperties
<1> HIDE DEF r
<1>3. Range(r) = Range(q) \cup {e}
  BY <1>1, <1>2 DEF Range
<1>4. ASSUME IsInjective(q), e \notin Range(q) PROVE IsInjective(r)
  BY <1>1, <1>2, <1>4 DEF IsInjective, Range
<1> QED BY <1>1, <1>3, <1>4 DEF r

(* Removing the head of a sequence without repetitions: WorkerUnlink.      *)
LEMMA TailRange ==
  ASSUME NEW S, NEW q \in Seq(S), q # <<>>
  PROVE  /\ Head(q) \in S /\ Tail(q) \in Seq(S)
         /\ Len(Tail(q)) = Len(q) - 1
         /\ Range(q) = Range(Tail(q)) \cup {Head(q)}
         /\ IsInjective(q) => IsInjective(Tail(q)) /\ Head(q) \notin Range(Tail(q))
<1> DEFINE r == Tail(q)
<1>1. /\ r \in Seq(S) /\ Len(r) = Len(q) - 1
      /\ \A i \in 1 .. Len(r) : r[i] = q[i + 1]
      /\ Head(q) = q[1] /\ Head(q) \in S
  BY HeadTailProperties
<1>2. Len(q) \in Nat \ {0} /\ DOMAIN q = 1 .. Len(q) /\ DOMAIN r = 1 .. Len(r)
  BY <1>1, LenProperties, EmptySeq
<1> HIDE DEF r
<1>3. \A i \in DOMAIN q : i # 1 => i - 1 \in DOMAIN r /\ q[i] = r[i - 1]
  <2>1. ASSUME NEW i \in DOMAIN q, i # 1 PROVE i - 1 \in DOMAIN r
    BY <1>1, <1>2, <2>1
  <2>2. ASSUME NEW i \in DOMAIN q, i # 1 PROVE q[i] = r[i - 1]
    <3>1. i - 1 \in 1 .. Len(r) /\ (i - 1) + 1 = i BY <1>2, <2>1, <2>2
    <3> QED BY <1>1, <3>1
  <2> QED BY <2>1, <2>2
<1>4. \A i \in DOMAIN r : i + 1 \in DOMAIN q /\ i + 1 # 1 /\ r[i] = q[i + 1]
  BY <1>1, <1>2
<1>5. \A i, j \in DOMAIN r : i + 1 = j + 1 => i = j
  BY <1>2
<1>6. 1 \in DOMAIN q
  BY <1>2
<1>7. Range(q) = Range(r) \cup {Head(q)}
  <2>1. ASSUME NEW x \in Range(q) PROVE x \in Range(r) \cup {Head(q)}
    <3>1. PICK i \in DOMAIN q : x = q[i] BY <2>1 DEF Range
    <3>2. CASE i = 1 BY <3>1, <3>2, <1>1
    <3>3. CASE i # 1 BY <3>1, <3>3, <1>3 DEF Range
    <3> QED BY <3>2, <3>3
  <2>2. Range(r) \subseteq Range(q)
    BY <1>4 DEF Range
  <2>3. Head(q) \in Range(q)
    BY <1>1, <1>6 DEF Range
  <2> QED BY <2>1, <2>2, <2>3
<1>8. ASSUME IsInjective(q) PROVE IsInjective(r) /\ Head(q) \notin Range(r)
  BY <1>1, <1>8, <1>4, <1>5, <1>6 DEF IsInjective, Range
<1> QED BY <1>1, <1>7, <1>8 DEF r

(* Removing the last element of a sequence without repetitions: QueueTake. *)
LEMMA FrontRange ==
  ASSUME NEW S, NEW q \in Seq(S), q # <<>>
  PROVE  LET last == q[Len(q)]
             r    == SubSeq(q, 1, Len(q) - 1)
         IN  /\ last \in S /\ r \in Seq(S)
             /\ Range(q) = Range(r) \cup {last}
             /\ IsInjective(q) => IsInjective(r) /\ last \notin Range(r)
<1> DEFINE last == q[Len(q)]
           r    == SubSeq(q, 1, Len(q) - 1)
<1>1. Len(q) \in Nat \ {0} /\ DOMAIN q = 1 .. Len(q) /\ \A i \in 1 .. Len(q) : q[i] \in S
  BY LenProperties, EmptySeq, ElementOfSeq
<1>2. r \in Seq(S) /\ Len(r) = Len(q) - 1 /\ \A i \in 1 .. Len(r) : r[i] = q[i]
  <2>1. \A i \in 1 .. Len(q) - 1 : q[i] \in S BY <1>1
  <2> QED BY <1>1, <2>1, SubSeqProperties DEF r
<1>3. DOMAIN r = 1 .. Len(r)
  BY <1>2, LenProperties
<1> HIDE DEF r
<1>4. Range(q) = Range(r) \cup {last}
  BY <1>1, <1>2, <1>3 DEF Range
<1>5. IsInjective(q) => IsInjective(r) /\ last \notin Range(r)
  BY <1>1, <1>2, <1>3 DEF IsInjective, Range
<1> QED BY <1>1, <1>2, <1>4, <1>5 DEF r

(* A sequence without repetitions is no longer than the set it is over.    *)
LEMMA InjectiveLen ==
  ASSUME NEW n \in Nat, NEW q \in Seq(0 .. n - 1), IsInjective(q)
  PROVE  Len(q) <= n
<1>1. q \in Injection(1 .. Len(q), 0 .. n - 1) /\ Len(q) \in Nat
  BY LenProperties DEF Injection
<1>2. IsFiniteSet(0 .. n - 1) /\ Cardinality(0 .. n - 1) = n
  BY FS_Interval
<1>3. Cardinality(1 .. Len(q)) = Len(q)
  BY <1>1, FS_Interval
<1> QED BY <1>1, <1>2, <1>3, FS_Injection

(* A set whose elements are all equal has at most one.                     *)
LEMMA AtMostOne ==
  ASSUME NEW S, \A a, b \in S : a = b
  PROVE  Cardinality(S) = IF S = {} THEN 0 ELSE 1
<1>1. CASE S = {}
  BY <1>1, FS_EmptySet
<1>2. CASE S # {}
  <2>1. PICK a \in S : S = {a}
    BY <1>2
  <2> QED BY <1>2, <2>1, FS_Singleton
<1> QED BY <1>1, <1>2
-----------------------------------------------------------------------------
(* Induction, for recursive functions.  The library's induction theorems   *)
(* take an operator; here it is over the set of the numbers that have the  *)
(* property.                                                               *)
LEMMA Smallest ==
  ASSUME NEW T, T \subseteq Nat, T # {}
  PROVE  \E m \in T : \A n \in T : m <= n
<1> DEFINE R == OpToRel(<, Nat)
<1>1. PICK m \in T : \A n \in T : ~ (<<n, m>> \in R)
  BY NatLessThanWellFounded, WFMin
<1>2. \A n \in T : <<n, m>> \in R <=> n < m
  BY DEF OpToRel
<1> HIDE DEF R
<1>3. \A n \in T : ~ (n < m)
  BY <1>1, <1>2
<1>4. \A n \in T : n \in Nat /\ m \in Nat
  OBVIOUS
<1>5. \A n \in T : m <= n
  BY <1>3, <1>4
<1> QED BY <1>5

LEMMA SetInduction ==
  ASSUME NEW T, 0 \in T, \A n \in Nat : n \in T => n + 1 \in T
  PROVE  \A n \in Nat : n \in T
<1> SUFFICES ASSUME Nat \ T # {} PROVE FALSE
  OBVIOUS
<1>1. PICK m \in Nat \ T : \A n \in Nat \ T : m <= n
  BY Smallest
<1>2. m # 0 /\ m - 1 \in Nat
  BY <1>1
<1>3. m - 1 \in T
  BY <1>1, <1>2
<1> QED BY <1>1, <1>2, <1>3

LEMMA MinFacts ==
  ASSUME NEW I, I \subseteq Nat, I # {}
  PROVE  Min(I) \in I /\ \A i \in I : Min(I) <= i
<1>1. \E m \in I : \A i \in I : m <= i
  BY Smallest
<1> QED BY <1>1 DEF Min

LEMMA MaxFacts ==
  ASSUME NEW n \in Nat, NEW I, I \subseteq 0 .. n, I # {}
  PROVE  Max(I) \in I /\ \A i \in I : i <= Max(I)
<1> DEFINE T == {n - i : i \in I}
<1>1. T \subseteq Nat /\ T # {}
  <2>1. \A i \in I : n - i \in Nat
    OBVIOUS
  <2> QED BY <2>1
<1>2. PICK m \in T : \A t \in T : m <= t
  BY <1>1, Smallest
<1>3. PICK x \in I : m = n - x
  BY <1>2
<1>4. \A i \in I : x >= i
  <2>1. ASSUME NEW i \in I PROVE x >= i
    <3>1. n - x <= n - i
      BY <1>2, <1>3
    <3>2. i \in Int /\ x \in Int
      OBVIOUS
    <3> QED BY <3>1, <3>2
  <2> QED BY <2>1
<1>5. \E y \in I : \A i \in I : y >= i
  BY <1>4
<1>6. Max(I) \in I /\ \A i \in I : Max(I) >= i
  BY <1>5 DEF Max
<1> QED BY <1>6

-----------------------------------------------------------------------------
(* What is put together of sequences.                                      *)
LEMMA FlattenDef ==
  ASSUME NEW seqs, Len(seqs) \in Nat \ {0}
  PROVE  \E f : /\ \A i \in 1 .. Len(seqs) : f[i] = IF i = 1 THEN seqs[i] ELSE f[i - 1] \o seqs[i]
                /\ FlattenSeq(seqs) = f[Len(seqs)]
<1> DEFINE Def(f, i) == IF i = 1 THEN seqs[i] ELSE f[i - 1] \o seqs[i]
           T == {m \in Nat : \E f : f = [i \in 1 .. m |-> Def(f, i)]}
           c == CHOOSE f : f = [i \in 1 .. Len(seqs) |-> Def(f, i)]
<1>1. \A f, g, i : i = 1 \/ f[i - 1] = g[i - 1] => Def(f, i) = Def(g, i)
  OBVIOUS
<1>2. FlattenSeq(seqs) = c[Len(seqs)]
  BY DEF FlattenSeq
<1> SUFFICES c = [i \in 1 .. Len(seqs) |-> Def(c, i)]
  <2> HIDE DEF c
  <2>1. \A i \in 1 .. Len(seqs) : c[i] = Def(c, i)
    OBVIOUS
  <2> QED BY <1>2, <2>1
<1> SUFFICES \E f : f = [i \in 1 .. Len(seqs) |-> Def(f, i)]
  OBVIOUS
<1> HIDE DEF Def, c
<1>3. 0 \in T
  <2> DEFINE f == [i \in 1 .. 0 |-> Def(<<>>, i)]
  <2>1. f = [i \in 1 .. 0 |-> Def(f, i)]
    OBVIOUS
  <2> QED BY <2>1
<1>4. ASSUME NEW m \in Nat, m \in T PROVE m + 1 \in T
  <2>1. PICK f : f = [i \in 1 .. m |-> Def(f, i)]
    BY <1>4
  <2> DEFINE g == [i \in 1 .. m + 1 |-> Def(f, i)]
  <2>2. ASSUME NEW i \in 1 .. m + 1 PROVE Def(f, i) = Def(g, i)
    <3>1. CASE i = 1
      BY <1>1, <3>1
    <3>2. CASE i # 1
      <4>1. i - 1 \in 1 .. m /\ i - 1 \in 1 .. m + 1
        BY <3>2
      <4>2. f[i - 1] = Def(f, i - 1) /\ g[i - 1] = Def(f, i - 1)
        BY <2>1, <4>1
      <4> QED BY <1>1, <4>2
    <3> QED BY <3>1, <3>2
  <2>3. g = [i \in 1 .. m + 1 |-> Def(g, i)]
    BY <2>2
  <2>4. m + 1 \in Nat
    OBVIOUS
  <2> HIDE DEF g
  <2>5. \E h : h = [i \in 1 .. m + 1 |-> Def(h, i)]
    BY <2>3
  <2> QED BY <2>4, <2>5
<1>5. \A m \in Nat : m \in T
  <2> HIDE DEF T
  <2> QED BY <1>3, <1>4, SetInduction
<1> QED BY <1>5

LEMMA FlattenStep ==
  ASSUME NEW S, NEW seqs \in Seq(S), NEW n \in 1 .. Len(seqs)
  PROVE  FlattenSeq(SubSeq(seqs, 1, n)) =
           IF n = 1 THEN seqs[1] ELSE FlattenSeq(SubSeq(seqs, 1, n - 1)) \o seqs[n]
<1> DEFINE Fold(f, m) == \A i \in 1 .. m : f[i] = IF i = 1 THEN seqs[i] ELSE f[i - 1] \o seqs[i]
<1>1. Len(seqs) \in Nat /\ n \in Nat
  BY LenProperties
<1>2. ASSUME NEW m \in 1 .. Len(seqs)
      PROVE  \E f : Fold(f, m) /\ FlattenSeq(SubSeq(seqs, 1, m)) = f[m]
  <2>1. \A i \in 1 .. m : seqs[i] \in S
    BY <1>1, ElementOfSeq
  <2> DEFINE q == SubSeq(seqs, 1, m)
  <2>2. Len(q) = m /\ m \in Nat \ {0} /\ \A i \in 1 .. m : q[i] = seqs[i]
    BY <1>1, <2>1, SubSeqProperties
  <2> HIDE DEF q
  <2>3. PICK f : /\ \A i \in 1 .. Len(q) : f[i] = IF i = 1 THEN q[i] ELSE f[i - 1] \o q[i]
                 /\ FlattenSeq(q) = f[Len(q)]
    BY <2>2, FlattenDef
  <2>4. Fold(f, m)
    BY <2>2, <2>3
  <2> QED BY <2>2, <2>3, <2>4 DEF q
<1>3. ASSUME NEW f, NEW g, NEW m \in 1 .. n, Fold(f, n), Fold(g, m)
      PROVE  f[m] = g[m]
  <2> DEFINE T == {i \in Nat : i \in 1 .. m => f[i] = g[i]}
  <2>1. 0 \in T
    OBVIOUS
  <2>2. ASSUME NEW i \in Nat, i \in T PROVE i + 1 \in T
    <3> SUFFICES ASSUME i + 1 \in 1 .. m PROVE f[i + 1] = g[i + 1]
      OBVIOUS
    <3>1. i + 1 \in 1 .. n
      BY <1>1
    <3>2. f[i + 1] = IF i + 1 = 1 THEN seqs[i + 1] ELSE f[i + 1 - 1] \o seqs[i + 1]
      BY <1>3, <3>1
    <3>3. g[i + 1] = IF i + 1 = 1 THEN seqs[i + 1] ELSE g[i + 1 - 1] \o seqs[i + 1]
      BY <1>3
    <3>4. i + 1 = 1 \/ (i \in 1 .. m /\ i + 1 - 1 = i)
      BY <1>1
    <3> QED BY <2>2, <3>2, <3>3, <3>4
  <2>3. m \in T
    <3> HIDE DEF T
    <3> QED BY <2>1, <2>2, SetInduction
  <2> QED BY <2>3
<1>4. PICK f : Fold(f, n) /\ FlattenSeq(SubSeq(seqs, 1, n)) = f[n]
  BY <1>2
<1>5. f[n] = IF n = 1 THEN seqs[n] ELSE f[n - 1] \o seqs[n]
  BY <1>4
<1>6. CASE n = 1
  BY <1>4, <1>5, <1>6
<1>7. CASE n # 1
  <2>1. n - 1 \in 1 .. Len(seqs) /\ n - 1 \in 1 .. n
    BY <1>1, <1>7
  <2>2. PICK g : Fold(g, n - 1) /\ FlattenSeq(SubSeq(seqs, 1, n - 1)) = g[n - 1]
    BY <1>2, <2>1
  <2> HIDE DEF Fold
  <2>3. f[n - 1] = g[n - 1]
    BY <1>3, <1>4, <2>1, <2>2
  <2> QED BY <1>4, <1>5, <1>7, <2>2, <2>3
<1> QED BY <1>6, <1>7

(* The first n parts put together.                                         *)
FirstOnes(seqs, n) == FlattenSeq(SubSeq(seqs, 1, n))

LEMMA FlattenFacts ==
  ASSUME NEW S, NEW seqs \in Seq(Seq(S))
  PROVE  /\ FlattenSeq(seqs) \in Seq(S)
         /\ FlattenSeq(seqs) = FirstOnes(seqs, Len(seqs))
         /\ FirstOnes(seqs, 0) = <<>>
         /\ \A n \in 0 .. Len(seqs) : FirstOnes(seqs, n) \in Seq(S)
         /\ \A n \in 0 .. Len(seqs) - 1 : FirstOnes(seqs, n + 1) = FirstOnes(seqs, n) \o seqs[n + 1]
<1> DEFINE T == {n \in Nat : n <= Len(seqs) => FirstOnes(seqs, n) \in Seq(S)}
<1>1. Len(seqs) \in Nat
  BY LenProperties
<1>2. FirstOnes(seqs, 0) = <<>>
  <2>1. SubSeq(seqs, 1, 0) = <<>>
    BY SubSeqEmpty
  <2> QED BY <2>1, EmptySeq DEF FlattenSeq, FirstOnes
<1>3. \A n \in 1 .. Len(seqs) : seqs[n] \in Seq(S)
  BY ElementOfSeq
<1>4. ASSUME NEW n \in 0 .. Len(seqs) - 1
      PROVE  FirstOnes(seqs, n + 1) = FirstOnes(seqs, n) \o seqs[n + 1]
  <2>1. n + 1 \in 1 .. Len(seqs) /\ n + 1 - 1 = n
    BY <1>1
  <2>2. FirstOnes(seqs, n + 1) = IF n + 1 = 1 THEN seqs[1] ELSE FirstOnes(seqs, n) \o seqs[n + 1]
    BY <2>1, FlattenStep DEF FirstOnes
  <2>3. CASE n = 0
    <3>1. FirstOnes(seqs, n + 1) = seqs[1]
      BY <2>2, <2>3
    <3>2. FirstOnes(seqs, n) = <<>> /\ n + 1 = 1
      BY <1>2, <2>3
    <3>3. seqs[1] = <<>> \o seqs[1]
      BY <1>3, <2>1, <3>2, ConcatEmptySeq
    <3> QED BY <3>1, <3>2, <3>3
  <2>4. CASE n # 0
    <3>1. n + 1 # 1
      BY <1>1, <2>4
    <3> QED BY <2>2, <3>1
  <2> QED BY <2>3, <2>4
<1>5. 0 \in T
  BY <1>2, EmptySeq
<1>6. ASSUME NEW n \in Nat, n \in T PROVE n + 1 \in T
  <2> SUFFICES ASSUME n + 1 <= Len(seqs) PROVE FirstOnes(seqs, n + 1) \in Seq(S)
    OBVIOUS
  <2>1. n \in 0 .. Len(seqs) - 1 /\ n + 1 \in 1 .. Len(seqs)
    BY <1>1
  <2>2. FirstOnes(seqs, n) \in Seq(S) /\ seqs[n + 1] \in Seq(S)
    BY <1>3, <1>6, <2>1
  <2>3. FirstOnes(seqs, n) \o seqs[n + 1] \in Seq(S)
    BY <2>2, ConcatProperties
  <2> QED BY <1>4, <2>1, <2>3
<1>7. \A n \in Nat : n \in T
  <2> HIDE DEF T
  <2> QED BY <1>5, <1>6, SetInduction
<1>8. \A n \in 0 .. Len(seqs) : FirstOnes(seqs, n) \in Seq(S)
  BY <1>1, <1>7
<1>9. FirstOnes(seqs, Len(seqs)) = FlattenSeq(seqs)
  BY SubSeqFull DEF FirstOnes
<1>10. FlattenSeq(seqs) \in Seq(S)
  BY <1>1, <1>8, <1>9
<1> QED BY <1>2, <1>4, <1>8, <1>9, <1>10

LEMMA FlattenSingles ==
  ASSUME NEW S, NEW s \in Seq(S)
  PROVE  FlattenSeq([i \in 1 .. Len(s) |-> <<s[i]>>]) = s
<1> DEFINE n == Len(s)
           G == [i \in 1 .. n |-> <<s[i]>>]
           T == {m \in Nat : m <= n => FirstOnes(G, m) = SubSeq(s, 1, m)}
<1>1. n \in Nat
  BY LenProperties
<1>2. ASSUME NEW i \in 1 .. n PROVE s[i] \in S /\ <<s[i]>> \in Seq(S)
  <2>1. s[i] \in S
    BY ElementOfSeq
  <2> QED BY <2>1
<1>3. G \in Seq(Seq(S)) /\ Len(G) = n /\ \A i \in 1 .. n : G[i] = <<s[i]>>
  BY <1>1, <1>2
<1> HIDE DEF G
<1>4. 0 \in T
  BY <1>3, FlattenFacts, SubSeqEmpty
<1>5. ASSUME NEW m \in Nat, m \in T PROVE m + 1 \in T
  <2> SUFFICES ASSUME m + 1 <= n PROVE FirstOnes(G, m + 1) = SubSeq(s, 1, m + 1)
    OBVIOUS
  <2>1. m \in 0 .. n - 1 /\ m + 1 \in 1 .. n /\ 1 \in 1 .. n /\ m + 1 \in 1 .. n /\ m + 1 - 1 = m
    BY <1>1
  <2>2. FirstOnes(G, m + 1) = FirstOnes(G, m) \o G[m + 1]
    BY <1>3, <2>1, FlattenFacts
  <2>3. FirstOnes(G, m) = SubSeq(s, 1, m) /\ G[m + 1] = <<s[m + 1]>>
    BY <1>1, <1>3, <1>5, <2>1
  <2>4. SubSeq(s, 1, m + 1) = SubSeq(s, 1, m + 1 - 1) \o <<s[m + 1]>>
    BY <2>1, SubSeqRecursiveSecond
  <2> QED BY <2>1, <2>2, <2>3, <2>4
<1>6. n \in T
  <2> HIDE DEF T, n
  <2> QED BY <1>1, <1>4, <1>5, SetInduction
<1>7. FlattenSeq(G) = FirstOnes(G, n)
  BY <1>3, FlattenFacts
<1> QED BY <1>1, <1>6, <1>7, SubSeqFull DEF G

LEMMA PiecesTyped ==
  ASSUME NEW S, NEW n \in Nat, NEW f, \A i \in 1 .. n : f[i] \in Seq(S)
  PROVE  FlattenSeq([i \in 1 .. n |-> f[i]]) \in Seq(S)
<1>1. [i \in 1 .. n |-> f[i]] \in Seq(Seq(S))
  OBVIOUS
<1> QED BY <1>1, FlattenFacts

LEMMA BeginningTyped ==
  ASSUME NEW S, NEW s \in Seq(S), NEW n \in Int, n <= Len(s)
  PROVE  SubSeq(s, 1, n) \in Seq(S)
<1>1. \A i \in 1 .. n : s[i] \in S
  BY LenProperties, ElementOfSeq
<1> QED BY <1>1, SubSeqProperties

LEMMA Regroup == \A a, b, c \in Seq(Int) : (a \o b) \o c = a \o (b \o c)
<1>1. ASSUME NEW S PROVE \A a, b, c \in Seq(S) : (a \o b) \o c = a \o (b \o c)
  BY ConcatAssociative
<1>2. PICK S : S = Int
  OBVIOUS
<1>3. \A a, b, c \in Seq(S) : (a \o b) \o c = a \o (b \o c)
  BY <1>1
<1> QED BY <1>2, <1>3
================================================================================
