-------------------------- MODULE SequenceInduction --------------------------
(***************************************************************************)
(* Induction over numbers and sequences with sets in the place of          *)
(* predicates, and what the functions that recurse over the positions of a *)
(* sequence compute.  The module of the statements recurses in this way    *)
(* over the characters of a text and over the parts of a name.             *)
(***************************************************************************)
EXTENDS Integers, Sequences, SequencesExt, SequenceTheorems, WellFoundedInduction, TLAPS

(* A set that holds 0 and the successor of each of its numbers holds every *)
(* number: its complement has no least element.                            *)
LEMMA NumberInduction ==
  ASSUME NEW S, 0 \in S, \A n \in Nat : n \in S => n + 1 \in S
  PROVE  Nat \subseteq S
<1> DEFINE T == Nat \ S
           Less == {ss \in Nat \X Nat : ss[1] < ss[2]}
<1>1. IsWellFoundedOn(Less, Nat)
  BY NatLessThanWellFounded, Zenon DEF OpToRel
<1>2. SUFFICES ASSUME T # {} PROVE FALSE
  OBVIOUS
<1>3. T \subseteq Nat
  OBVIOUS
<1> HIDE DEF Less, T
<1>4. PICK x \in T : \A y \in T : ~ (<<y, x>> \in Less)
  BY <1>1, <1>2, <1>3, WFMin
<1> USE DEF Less, T
<1>5. x \in Nat /\ x # 0
  OBVIOUS
<1>6. x - 1 \in Nat /\ x - 1 < x /\ (x - 1) + 1 = x
  BY <1>5
<1>7. <<x - 1, x>> \in Less
  BY <1>5, <1>6
<1>8. x - 1 \in S
  BY <1>4, <1>6, <1>7
<1> QED
  BY <1>5, <1>6, <1>8

(* A set that holds the empty sequence, and with a sequence the ones that  *)
(* are longer by an element, holds every sequence.                         *)
LEMMA SequenceInductionAppend ==
  ASSUME NEW S, NEW T, <<>> \in T,
         \A s \in Seq(S), e \in S : s \in T => Append(s, e) \in T
  PROVE  Seq(S) \subseteq T
<1> DEFINE N == {n \in Nat : \A s \in Seq(S) : Len(s) = n => s \in T}
<1>1. 0 \in N
  BY EmptySeq
<1>2. ASSUME NEW n \in Nat, n \in N PROVE n + 1 \in N
  <2>1. SUFFICES ASSUME NEW s \in Seq(S), Len(s) = n + 1 PROVE s \in T
    BY <1>2
  <2>2. s # <<>>
    BY <1>2, <2>1
  <2>3. PICK r \in Seq(S), e \in S : s = Append(r, e)
    BY <2>2, SequenceEmptyOrAppend
  <2>4. Len(r) = n
    BY <1>2, <2>1, <2>3
  <2> QED
    BY <1>2, <2>3, <2>4
<1>3. Nat \subseteq N
  <2> HIDE DEF N
  <2> QED
    BY <1>1, <1>2, NumberInduction
<1> QED
  BY <1>3

(* Functions that start alike and go on alike are alike. *)
LEMMA Agreement ==
  ASSUME NEW L \in Nat, NEW f, NEW g, f[0] = g[0],
         \A n \in 1..L : f[n - 1] = g[n - 1] => f[n] = g[n]
  PROVE  f[L] = g[L]
<1> DEFINE N == {n \in Nat : n <= L => f[n] = g[n]}
<1>1. 0 \in N
  OBVIOUS
<1>2. ASSUME NEW n \in Nat, n \in N PROVE n + 1 \in N
  <2>1. SUFFICES ASSUME n + 1 <= L PROVE f[n + 1] = g[n + 1]
    OBVIOUS
  <2>2. n + 1 \in 1..L /\ (n + 1) - 1 = n /\ n <= L
    BY <2>1
  <2> QED
    BY <1>2, <2>2
<1>3. Nat \subseteq N
  <2> HIDE DEF N
  <2> QED
    BY <1>1, <1>2, NumberInduction
<1> QED
  BY <1>3

(* A recursion over the positions of a sequence is that of a function. *)
Recurs(g, base, step, L) ==
  /\ g[0] = base
  /\ \A n \in 1..L : g[n] = step[<<g[n - 1], n>>]

(* A recursive function over 0..L exists. *)
LEMMA RecursionExists ==
  ASSUME NEW L \in Nat, NEW S, NEW base \in S, NEW step \in [S \X (1..L) -> S]
  PROVE  \E g \in [0..L -> S] : Recurs(g, base, step, L)
<1> DEFINE Fits(g, m) == Recurs(g, base, step, m)
           N == {m \in Nat : m <= L => \E g \in [0..m -> S] : Fits(g, m)}
<1>1. 0 \in N
  <2>1. [n \in 0..0 |-> base] \in [0..0 -> S] /\ Fits([n \in 0..0 |-> base], 0)
    BY DEF Recurs
  <2> QED
    BY <2>1
<1>2. ASSUME NEW m \in Nat, m \in N PROVE m + 1 \in N
  <2>1. SUFFICES ASSUME m + 1 <= L PROVE \E g \in [0..(m + 1) -> S] : Fits(g, m + 1)
    BY <1>2
  <2>2. PICK h \in [0..m -> S] : Fits(h, m)
    BY <1>2, <2>1
  <2> DEFINE g == [n \in 0..(m + 1) |-> IF n <= m THEN h[n] ELSE step[<<h[m], m + 1>>]]
  <2>3. h[m] \in S /\ m + 1 \in 1..L
    BY <2>1
  <2>4. step[<<h[m], m + 1>>] \in S
    BY <2>3
  <2>5. g \in [0..(m + 1) -> S]
    BY <2>4
  <2>6. ASSUME NEW n \in 1..(m + 1) PROVE g[n] = step[<<g[n - 1], n>>]
    <3>1. CASE n <= m
      BY <2>2, <3>1 DEF Recurs
    <3>2. CASE n = m + 1
      BY <3>2
    <3> QED
      BY <3>1, <3>2
  <2>7. g[0] = base
    BY <2>2 DEF Recurs
  <2> QED
    BY <2>5, <2>6, <2>7 DEF Recurs
<1>3. Nat \subseteq N
  <2> HIDE DEF N
  <2> QED
    BY <1>1, <1>2, NumberInduction
<1>4. L \in N
  BY <1>3
<1>5. L <= L
  OBVIOUS
<1>6. L <= L => \E g \in [0..L -> S] : Fits(g, L)
  BY <1>4, Zenon
<1> QED
  BY <1>5, <1>6, Zenon

(* Sequences of one and of two. *)
LEMMA ShortSequences ==
  ASSUME NEW S, NEW a \in S, NEW b \in S
  PROVE  /\ <<a>> \in Seq(S) /\ <<a, b>> \in Seq(S)
         /\ <<a, b>> = <<a>> \o <<b>>
<1>1. <<a>> \in Seq(S) /\ <<b>> \in Seq(S)
  OBVIOUS
<1>2. <<a, b>> \in Seq(S)
  OBVIOUS
<1> DEFINE both == <<a>> \o <<b>>
           pair == <<a, b>>
<1>3. both \in Seq(S) /\ Len(both) = 2 /\ both[1] = a /\ both[2] = b
  BY <1>1
<1>4. Len(pair) = 2 /\ pair[1] = a /\ pair[2] = b
  OBVIOUS
<1>5. \A i \in 1..2 : both[i] = pair[i]
  <2>1. \A i \in 1..2 : i = 1 \/ i = 2
    OBVIOUS
  <2> HIDE DEF both, pair
  <2> QED
    BY <1>3, <1>4, <2>1
<1>6. both = pair
  <2> HIDE DEF both, pair
  <2>1. pair \in Seq(S)
    BY <1>2 DEF pair
  <2> QED
    BY <1>3, <1>4, <1>5, <2>1, SeqEqual
<1> QED
  BY <1>1, <1>2, <1>6

(* An element at the end of the second of two sequences. *)
LEMMA ConcatAppend ==
  ASSUME NEW S, NEW a \in Seq(S), NEW b \in Seq(S), NEW c \in S
  PROVE  /\ a \o Append(b, c) = Append(a \o b, c)
         /\ a \o <<c>> = Append(a, c)
         /\ a \o <<>> = a
         /\ <<>> \o a = a
         /\ a \o b \in Seq(S)
<1>1. <<c>> \in Seq(S) /\ a \o b \in Seq(S)
  BY ConcatProperties
<1>2. Append(b, c) = b \o <<c>> /\ Append(a \o b, c) = (a \o b) \o <<c>> /\ Append(a, c) = a \o <<c>>
  BY <1>1, AppendIsConcat
<1>3. a \o (b \o <<c>>) = (a \o b) \o <<c>>
  BY <1>1, ConcatAssociative, SMTT(30)
<1>4. a \o <<>> = a /\ <<>> \o a = a
  BY ConcatEmptySeq
<1> QED
  BY <1>1, <1>2, <1>3, <1>4

(* Sequences that may be put in a row, in any grouping. *)
Chained(T) ==
  /\ \A x, y \in T : x \o y \in T
  /\ \A x, y, z \in T : x \o (y \o z) = (x \o y) \o z

(* All sequences over a set are. *)
LEMMA ConcatChained ==
  ASSUME NEW S
  PROVE  Chained(Seq(S))
<1> DEFINE T == Seq(S)
<1>1. \A x, y \in T : x \o y \in T
  BY ConcatProperties
<1>2. \A x, y, z \in T : x \o (y \o z) = (x \o y) \o z
  <2>1. ASSUME NEW x \in T, NEW y \in T, NEW z \in T PROVE x \o (y \o z) = (x \o y) \o z
    BY ConcatAssociative, SMTT(30)
  <2> QED
    BY <2>1, Zenon
<1> QED
  BY <1>1, <1>2, Zenon DEF Chained

(* A function that extends a sequence by a position. *)
LEMMA AppendByPoints ==
  ASSUME NEW S, NEW f \in Seq(S), NEW e \in S, NEW L \in Nat, Len(f) = L,
         NEW g \in [1..(L + 1) -> S],
         \A n \in 1..L : g[n] = f[n], g[L + 1] = e
  PROVE  g = Append(f, e)
<1> DEFINE h == Append(f, e)
<1>1. h \in Seq(S) /\ Len(h) = L + 1 /\ h[L + 1] = e
  OBVIOUS
<1>2. \A n \in 1..L : h[n] = f[n]
  OBVIOUS
<1> HIDE DEF h
<1>3. \A n \in 1..(L + 1) : g[n] = h[n]
  <2>1. \A n \in 1..(L + 1) : n \in 1..L \/ n = L + 1
    OBVIOUS
  <2> QED
    BY <1>1, <1>2, <2>1
<1>4. h = [n \in 1..(L + 1) |-> h[n]]
  <2>1. h \in [1..(L + 1) -> S]
    BY <1>1, LenProperties
  <2> QED
    BY <2>1
<1>5. g = h
  BY <1>3, <1>4
<1> QED
  BY <1>5 DEF h

(* A change of the last element. *)
LEMMA ExceptLast ==
  ASSUME NEW S, NEW s \in Seq(S), NEW e \in S, NEW d \in S
  PROVE  [Append(s, e) EXCEPT ![Len(Append(s, e))] = d] = Append(s, d)
<1> DEFINE L == Len(s)
           one == Append(s, e)
           two == Append(s, d)
           new == [one EXCEPT ![L + 1] = d]
<1>1. L \in Nat /\ Len(one) = L + 1 /\ Len(two) = L + 1 /\ one \in Seq(S) /\ two \in Seq(S)
  OBVIOUS
<1>2. \A i \in 1..L : one[i] = s[i] /\ two[i] = s[i]
  OBVIOUS
<1>3. two[L + 1] = d
  OBVIOUS
<1> HIDE DEF one, two, new
<1>4. DOMAIN one = 1..(L + 1) /\ two = [i \in 1..(L + 1) |-> two[i]]
  <2>1. one \in [1..(L + 1) -> S] /\ two \in [1..(L + 1) -> S]
    BY <1>1, LenProperties
  <2> QED
    BY <2>1
<1> USE DEF new
<1>5. ASSUME NEW i \in 1..(L + 1) PROVE new[i] = two[i]
  <2>1. CASE i = L + 1
    BY <1>3, <1>4, <2>1
  <2>2. CASE i # L + 1
    <3>1. i \in 1..L
      BY <1>1, <2>2
    <3> QED
      BY <1>2, <1>4, <2>2, <3>1
  <2> QED
    BY <2>1, <2>2
<1>6. new = [i \in 1..(L + 1) |-> new[i]]
  BY <1>4
<1>7. new = two
  <2> HIDE DEF new
  <2> QED
    BY <1>4, <1>5, <1>6
<1> QED
  BY <1>1, <1>7 DEF one, two

------------------------------------------------------------------------------
(* FlattenSeq concatenates from the left, starting with nothing. *)
LEMMA FlattenSteps ==
  ASSUME NEW S, NEW ss \in Seq(Seq(S))
  PROVE  \E g \in [0..Len(ss) -> Seq(S)] :
           /\ g[0] = <<>>
           /\ \A n \in 1..Len(ss) : g[n] = g[n - 1] \o ss[n]
           /\ FlattenSeq(ss) = g[Len(ss)]
<1> DEFINE L == Len(ss)
           T == Seq(S)
           step == [x \in T \X (1..L) |-> x[1] \o ss[x[2]]]
           none == <<>>
<1>1. L \in Nat
  OBVIOUS
<1>2. none \in T
  OBVIOUS
<1>3. step \in [T \X (1..L) -> T]
  OBVIOUS
<1>4. PICK g \in [0..L -> T] : Recurs(g, none, step, L)
  <2> HIDE DEF L, step, none, T
  <2> QED
    BY <1>1, <1>2, <1>3, RecursionExists
<1>5. g[0] = <<>>
  BY <1>4, Zenon DEF Recurs
<1>6. ASSUME NEW n \in 1..L
      PROVE  g[n - 1] \in Seq(S) /\ ss[n] \in Seq(S) /\ g[n] = g[n - 1] \o ss[n]
  <2>1. n - 1 \in 0..L
    BY <1>1
  <2>2. g[n - 1] \in T
    BY <2>1, Zenon
  <2>3. ss[n] \in Seq(S)
    OBVIOUS
  <2>4. <<g[n - 1], n>> \in T \X (1..L)
    BY <2>2
  <2>5. g[n] = step[<<g[n - 1], n>>]
    BY <1>4, Zenon DEF Recurs
  <2> QED
    BY <2>2, <2>3, <2>4, <2>5
<1>7. ASSUME L # 0 PROVE g[1] = ss[1]
  <2>1. 1 \in 1..L /\ 1 - 1 = 0
    BY <1>1, <1>7
  <2>2. g[1] = g[1 - 1] \o ss[1] /\ ss[1] \in Seq(S)
    BY <1>6, <2>1, Zenon
  <2> QED
    BY <1>5, <2>1, <2>2, ConcatEmptySeq
<1>8. CASE L = 0
  <2>1. ss = <<>>
    BY <1>8, EmptySeq
  <2>2. FlattenSeq(ss) = <<>>
    BY <1>8, <2>1 DEF FlattenSeq
  <2>3. FlattenSeq(ss) = g[L]
    BY <1>5, <1>8, <2>2
  <2> QED
    BY <1>5, <1>6, <2>3, Zenon
<1>9. CASE L # 0
  <2> DEFINE flatten == CHOOSE f : f = [i \in 1..Len(ss) |->
                          IF i = 1 THEN ss[i] ELSE f[i - 1] \o ss[i]]
             h == [n \in 0..L |-> IF n = 0 THEN <<>> ELSE flatten[n]]
             k == [n \in 1..L |-> g[n]]
  <2>1. FlattenSeq(ss) = flatten[L]
    BY <1>9 DEF FlattenSeq
  <2>2. k = [i \in 1..Len(ss) |-> IF i = 1 THEN ss[i] ELSE k[i - 1] \o ss[i]]
    <3>1. ASSUME NEW i \in 1..L PROVE k[i] = IF i = 1 THEN ss[i] ELSE k[i - 1] \o ss[i]
      <4>1. CASE i = 1
        BY <1>7, <1>9, <4>1
      <4>2. CASE i # 1
        <5>1. i - 1 \in 1..L
          BY <1>1, <4>2
        <5>2. k[i] = g[i] /\ k[i - 1] = g[i - 1]
          BY <5>1
        <5>3. g[i] = g[i - 1] \o ss[i]
          BY <1>6, Zenon
        <5> QED
          BY <4>2, <5>2, <5>3
      <4> QED
        BY <4>1, <4>2
    <3> QED
      BY <3>1
  <2>3. flatten = [i \in 1..Len(ss) |-> IF i = 1 THEN ss[i] ELSE flatten[i - 1] \o ss[i]]
    <3> HIDE DEF k
    <3> QED
      BY <2>2, Zenon
  <2> HIDE DEF flatten
  <2>4. \A i \in 1..L : flatten[i] = IF i = 1 THEN ss[i] ELSE flatten[i - 1] \o ss[i]
    BY <2>3, Zenon
  <2>5. h[0] = g[0]
    BY <1>1, <1>5
  <2>6. ASSUME NEW n \in 1..L, h[n - 1] = g[n - 1] PROVE h[n] = g[n]
    <3>1. h[n] = flatten[n]
      BY <1>1
    <3>2. flatten[n] = IF n = 1 THEN ss[n] ELSE flatten[n - 1] \o ss[n]
      BY <2>4, Zenon
    <3>3. CASE n = 1
      BY <1>7, <1>9, <3>1, <3>2, <3>3
    <3>4. CASE n # 1
      <4>1. n - 1 \in 1..L /\ n - 1 # 0
        BY <1>1, <3>4
      <4>2. h[n - 1] = flatten[n - 1]
        BY <1>1, <4>1
      <4>3. g[n] = g[n - 1] \o ss[n]
        BY <1>6, Zenon
      <4> QED
        BY <2>6, <3>1, <3>2, <3>4, <4>2, <4>3
    <3> QED
      BY <3>3, <3>4
  <2>7. h[L] = g[L]
    <3> HIDE DEF h, L
    <3> QED
      BY <1>1, <2>5, <2>6, Agreement
  <2>8. h[L] = flatten[L]
    BY <1>1, <1>9
  <2>9. FlattenSeq(ss) = g[L]
    BY <2>1, <2>7, <2>8
  <2> QED
    BY <1>5, <1>6, <2>9, Zenon
<1> QED
  BY <1>8, <1>9

(* Nothing flattened is nothing. *)
LEMMA FlattenEmpty ==
  FlattenSeq(<<>>) = <<>>
BY DEF FlattenSeq

(* The last sequence comes last. *)
LEMMA FlattenAppend ==
  ASSUME NEW S, NEW ss \in Seq(Seq(S)), NEW x \in Seq(S)
  PROVE  /\ FlattenSeq(ss) \in Seq(S)
         /\ FlattenSeq(Append(ss, x)) = FlattenSeq(ss) \o x
<1> DEFINE L == Len(ss)
           all == Append(ss, x)
<1>1. L \in Nat /\ all \in Seq(Seq(S)) /\ Len(all) = L + 1 /\ all[L + 1] = x
  OBVIOUS
<1>2. \A n \in 1..L : all[n] = ss[n]
  OBVIOUS
<1>3. PICK g \in [0..Len(ss) -> Seq(S)] :
        /\ g[0] = <<>>
        /\ \A n \in 1..Len(ss) : g[n] = g[n - 1] \o ss[n]
        /\ FlattenSeq(ss) = g[Len(ss)]
  BY FlattenSteps
<1>4. PICK f \in [0..Len(all) -> Seq(S)] :
        /\ f[0] = <<>>
        /\ \A n \in 1..Len(all) : f[n] = f[n - 1] \o all[n]
        /\ FlattenSeq(all) = f[Len(all)]
  <2> HIDE DEF all
  <2> QED
    BY <1>1, FlattenSteps
<1> HIDE DEF all
<1>5. ASSUME NEW n \in 1..L, f[n - 1] = g[n - 1] PROVE f[n] = g[n]
  <2>1. n \in 1..Len(all)
    BY <1>1
  <2>2. f[n] = f[n - 1] \o all[n]
    BY <1>4, <2>1, Zenon
  <2>3. g[n] = g[n - 1] \o ss[n]
    BY <1>3, Zenon
  <2> QED
    BY <1>2, <1>5, <2>2, <2>3
<1>6. f[0] = g[0]
  BY <1>3, <1>4, Zenon
<1>7. f[L] = g[L]
  <2> HIDE DEF L
  <2> QED
    BY <1>1, <1>5, <1>6, Agreement
<1>8. f[L + 1] = f[L] \o x
  <2>1. L + 1 \in 1..Len(all) /\ (L + 1) - 1 = L
    BY <1>1
  <2>2. f[L + 1] = f[(L + 1) - 1] \o all[L + 1]
    BY <1>4, <2>1, Zenon
  <2> QED
    BY <1>1, <2>1, <2>2
<1>9. FlattenSeq(ss) = g[L] /\ FlattenSeq(all) = f[L + 1]
  BY <1>1, <1>3, <1>4, Zenon
<1>10. g[L] \in Seq(S)
  BY SMTT(30)
<1> QED
  BY <1>7, <1>8, <1>9, <1>10 DEF all

(* A sequence ends with what it was extended by. *)
LEMMA SuffixOfConcat ==
  ASSUME NEW S, NEW a \in Seq(S), NEW b \in Seq(S)
  PROVE  IsSuffix(b, a \o b)
<1> DEFINE ab == a \o b
           La == Len(a)
           Lb == Len(b)
           r == Reverse(b)
           R == Reverse(ab)
<1>1. La \in Nat /\ Lb \in Nat
  BY LenProperties
<1>2. ab \in Seq(S) /\ Len(ab) = La + Lb
      /\ \A i \in 1..(La + Lb) : ab[i] = IF i <= La THEN a[i] ELSE b[i - La]
  BY ConcatProperties
<1> HIDE DEF ab, La, Lb
<1>3. r = [i \in 1..Lb |-> b[(Lb - i) + 1]]
  BY DEF Reverse, Lb
<1>4. R = [i \in 1..(La + Lb) |-> ab[((La + Lb) - i) + 1]]
  BY <1>2 DEF Reverse
<1> HIDE DEF r, R
<1>5. \A i \in 1..Lb : r[i] \in S
  <2>1. ASSUME NEW i \in 1..Lb PROVE r[i] \in S
    <3>1. (Lb - i) + 1 \in 1..Lb
      BY <1>1
    <3>2. b[(Lb - i) + 1] \in S
      BY <3>1, ElementOfSeq DEF Lb
    <3> QED
      BY <1>3, <3>2
  <2> QED
    BY <2>1
<1>6. \A i \in 1..Lb : R[i] = r[i]
  <2>1. ASSUME NEW i \in 1..Lb PROVE R[i] = r[i]
    <3> DEFINE k == ((La + Lb) - i) + 1
    <3>1. k \in 1..(La + Lb) /\ ~(k <= La) /\ k - La = (Lb - i) + 1 /\ i \in 1..(La + Lb)
      BY <1>1
    <3>2. R[i] = ab[k]
      BY <1>4, <3>1
    <3> HIDE DEF k
    <3>3. ab[k] = b[k - La]
      BY <1>2, <3>1
    <3>4. r[i] = b[(Lb - i) + 1]
      BY <1>3
    <3> QED
      BY <3>1, <3>2, <3>3, <3>4
  <2> QED
    BY <2>1
<1>7. Len(r) = Lb /\ Len(R) = La + Lb
  <2>1. La + Lb \in Nat
    BY <1>1
  <2> QED
    BY <1>1, <1>3, <1>4, <2>1
<1>8. SubSeq(r, 1, Lb) = SubSeq(R, 1, Lb)
  <2> DEFINE u == SubSeq(r, 1, Lb)
             v == SubSeq(R, 1, Lb)
  <2>1. \A i \in 1..Lb : R[i] \in S
    BY <1>5, <1>6
  <2>2. u \in Seq(S) /\ Len(u) = (IF 1 <= Lb THEN Lb - 1 + 1 ELSE 0)
        /\ \A i \in 1..(Lb - 1 + 1) : u[i] = r[1 + i - 1]
    BY <1>1, <1>5, SubSeqProperties
  <2>3. v \in Seq(S) /\ Len(v) = (IF 1 <= Lb THEN Lb - 1 + 1 ELSE 0)
        /\ \A i \in 1..(Lb - 1 + 1) : v[i] = R[1 + i - 1]
    BY <1>1, <2>1, SubSeqProperties
  <2> HIDE DEF u, v
  <2>4. Len(u) = Lb /\ Len(v) = Lb
    BY <1>1, <2>2, <2>3
  <2>5. \A i \in 1..Lb : u[i] = v[i]
    <3>1. ASSUME NEW i \in 1..Lb PROVE u[i] = v[i]
      <4>1. i \in 1..(Lb - 1 + 1) /\ 1 + i - 1 = i
        BY <1>1
      <4>2. u[i] = r[i] /\ v[i] = R[i]
        BY <2>2, <2>3, <4>1
      <4> QED
        BY <1>6, <4>2
    <3> QED
      BY <3>1
  <2> QED
    BY <2>2, <2>3, <2>4, <2>5, SeqEqual DEF u, v
<1>9. Lb <= La + Lb
  BY <1>1
<1>10. IsPrefix(r, R)
  BY <1>7, <1>8, <1>9 DEF IsPrefix
<1> QED
  BY <1>10 DEF IsSuffix, r, R, ab
================================================================================
