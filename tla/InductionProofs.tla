---------------------------- MODULE InductionProofs ----------------------------
(***************************************************************************)
(* What recursive definitions over sequences compute for every sequence.   *)
(* Each induction is over the numbers, by the least one for which its      *)
(* claim would fail.                                                       *)
(***************************************************************************)
EXTENDS Naturals, SequencesExt, SequenceTheorems, WellFoundedInduction, TLAPS

(* A set of natural numbers that is not empty has a least element. *)
LEMMA LeastNumber ==
  ASSUME NEW S \in SUBSET Nat, S # {}
  PROVE  \E m \in S : \A n \in S : m <= n
<1> DEFINE less == {pair \in Nat \X Nat : pair[1] < pair[2]}
<1>1. IsWellFoundedOn(less, Nat)
  BY NatLessThanWellFounded DEF OpToRel
<1>2. PICK m \in S : \A n \in S : <<n, m>> \notin less
  <2> HIDE DEF less
  <2> QED
    BY <1>1, WFMin
<1>3. ASSUME NEW n \in S PROVE m <= n
  <2>1. <<n, m>> \in Nat \X Nat /\ <<n, m>> \notin less
    BY <1>2
  <2> QED
    BY <2>1
<1> QED
  BY <1>3

(* What holds of 0, and of a number when it holds of the one before it, holds
   of all: the numbers up to n that have a property are the set S. *)
LEMMA NumbersUpTo ==
  ASSUME NEW n \in Nat, NEW S, 0 \in S, \A k \in 1..n : k - 1 \in S => k \in S
  PROVE  \A k \in 0..n : k \in S
<1> SUFFICES ASSUME NEW x \in 0..n, x \notin S PROVE FALSE
  OBVIOUS
<1> DEFINE bad == {k \in 0..n : k \notin S}
<1>1. bad \in SUBSET Nat /\ bad # {}
  OBVIOUS
<1> HIDE DEF bad
<1>2. PICK m \in bad : \A k \in bad : m <= k
  BY <1>1, LeastNumber
<1>3. m \in 0..n /\ m \notin S
  BY DEF bad
<1>4. m # 0 /\ m \in 1..n
  BY <1>3
<1>5. m - 1 \in 0..n /\ ~(m <= m - 1)
  BY <1>4
<1>6. m - 1 \in S
  BY <1>2, <1>5 DEF bad
<1> QED
  BY <1>3, <1>4, <1>6

-----------------------------------------------------------------------------
(* FlattenSeq: the function that its definition chooses exists. *)

IsFlattening(f, seqs) ==
  f = [i \in 1..Len(seqs) |-> IF i = 1 THEN seqs[i] ELSE f[i - 1] \o seqs[i]]

LEMMA FlattenSeqChooses ==
  ASSUME NEW seqs, Len(seqs) # 0
  PROVE  FlattenSeq(seqs) = (CHOOSE f : IsFlattening(f, seqs))[Len(seqs)]
BY DEF FlattenSeq, IsFlattening

(* One more sequence: the function goes on where it ended. *)
LEMMA FlatteningGoesOn ==
  ASSUME NEW S, NEW seqs \in Seq(S), NEW x \in S, NEW f, IsFlattening(f, seqs)
  PROVE  LET n == Len(seqs)
         IN  IsFlattening([i \in 1..(n + 1) |->
                             IF i <= n THEN f[i] ELSE IF n = 0 THEN x ELSE f[n] \o x],
                          Append(seqs, x))
<1> PICK n \in Nat : n = Len(seqs)
  BY LenProperties
<1> DEFINE t == Append(seqs, x)
           g == [i \in 1..(n + 1) |-> IF i <= n THEN f[i] ELSE IF n = 0 THEN x ELSE f[n] \o x]
           h == [i \in 1..(n + 1) |-> IF i = 1 THEN t[i] ELSE g[i - 1] \o t[i]]
<1>1. Len(t) = n + 1 /\ t[n + 1] = x /\ \A i \in 1..n : t[i] = seqs[i]
  BY AppendProperties
<1>2. \A i \in 1..n : f[i] = IF i = 1 THEN seqs[i] ELSE f[i - 1] \o seqs[i]
  BY DEF IsFlattening
<1>3. ASSUME NEW i \in 1..(n + 1) PROVE g[i] = IF i = 1 THEN t[i] ELSE g[i - 1] \o t[i]
  <2>1. CASE i <= n
    <3>1. i \in 1..n /\ g[i] = f[i] /\ t[i] = seqs[i]
      BY <1>1, <2>1
    <3>2. i # 1 => g[i - 1] = f[i - 1]
      BY <3>1
    <3> QED
      BY <1>2, <3>1, <3>2
  <2>2. CASE ~(i <= n)
    <3>1. i = n + 1
      BY <2>2
    <3>2. t[i] = x /\ g[i] = IF n = 0 THEN x ELSE f[n] \o x
      BY <1>1, <2>2, <3>1
    <3>3. CASE n = 0
      BY <3>1, <3>2, <3>3
    <3>4. CASE n # 0
      <4>1. i # 1 /\ i - 1 = n /\ g[n] = f[n]
        BY <3>1, <3>4
      <4> QED
        BY <3>2, <3>4, <4>1
    <3> QED
      BY <3>3, <3>4
  <2> QED
    BY <2>1, <2>2
<1>4. g = h
  BY <1>3
<1>5. IsFlattening(g, t)
  BY <1>1, <1>4 DEF IsFlattening
<1> QED
  BY <1>5

(* It is the only one. *)
LEMMA FlatteningIsUnique ==
  ASSUME NEW seqs, Len(seqs) \in Nat, NEW f, IsFlattening(f, seqs), NEW g, IsFlattening(g, seqs)
  PROVE  f = g
<1> PICK n \in Nat : n = Len(seqs)
  OBVIOUS
<1>1. \A i \in 1..n : /\ f[i] = IF i = 1 THEN seqs[i] ELSE f[i - 1] \o seqs[i]
                      /\ g[i] = IF i = 1 THEN seqs[i] ELSE g[i - 1] \o seqs[i]
  BY DEF IsFlattening
<1> DEFINE same == {i \in 0..n : i = 0 \/ f[i] = g[i]}
<1>2. 0 \in same
  OBVIOUS
<1>3. ASSUME NEW k \in 1..n, k - 1 \in same PROVE k \in same
  BY <1>1, <1>3
<1>4. \A k \in 0..n : k \in same
  <2> HIDE DEF same
  <2> QED
    BY <1>2, <1>3, NumbersUpTo
<1>5. \A i \in 1..n : f[i] = g[i]
  BY <1>4
<1>6. f = [i \in 1..n |-> f[i]] /\ g = [i \in 1..n |-> g[i]]
  BY DEF IsFlattening
<1> QED
  BY <1>5, <1>6

LEMMA FlatteningExists ==
  ASSUME NEW S, NEW seqs \in Seq(S)
  PROVE  \E f : IsFlattening(f, seqs)
<1> PICK n \in Nat : n = Len(seqs)
  BY LenProperties
<1> DEFINE upTo(k) == SubSeq(seqs, 1, k)
           good == {k \in 0..n : \E f : IsFlattening(f, upTo(k))}
<1>1. \A k \in 0..n : upTo(k) \in Seq(S) /\ Len(upTo(k)) = k /\ (k > 0 => upTo(k) = Append(upTo(k - 1), seqs[k]))
  <2> SUFFICES ASSUME NEW k \in 0..n
               PROVE  upTo(k) \in Seq(S) /\ Len(upTo(k)) = k /\ (k > 0 => upTo(k) = Append(upTo(k - 1), seqs[k]))
    OBVIOUS
  <2>1. upTo(k) \in Seq(S) /\ Len(upTo(k)) = k
    BY SubSeqProperties, ElementOfSeq
  <2>2. ASSUME k > 0 PROVE upTo(k) = Append(upTo(k - 1), seqs[k])
    <3>1. 1 \in 1..Len(seqs) /\ k \in 1..Len(seqs)
      BY <2>2
    <3>2. upTo(k) = upTo(k - 1) \o <<seqs[k]>>
      BY <3>1, SubSeqRecursiveSecond
    <3>3. k - 1 \in 0..n /\ upTo(k - 1) \in Seq(S) /\ seqs[k] \in S
      BY <2>2, <3>1, SubSeqProperties, ElementOfSeq
    <3> QED
      BY <3>2, <3>3, AppendIsConcat
  <2> QED
    BY <2>1, <2>2
<1>2. 0 \in good
  <2>1. Len(upTo(0)) = 0
    BY <1>1
  <2> HIDE DEF upTo
  <2>2. \A f : IsFlattening(f, upTo(0)) <=> f = [i \in 1..0 |-> IF i = 1 THEN upTo(0)[i] ELSE f[i - 1] \o upTo(0)[i]]
    BY <2>1 DEF IsFlattening
  <2>3. IsFlattening(<<>>, upTo(0))
    BY <2>2
  <2> QED
    BY <2>3
<1>3. ASSUME NEW k \in 1..n, k - 1 \in good PROVE k \in good
  <2>1. PICK f : IsFlattening(f, upTo(k - 1))
    BY <1>3
  <2>2. k - 1 \in 0..n /\ seqs[k] \in S /\ upTo(k - 1) \in Seq(S)
    BY <1>1, ElementOfSeq
  <2>3. upTo(k) = Append(upTo(k - 1), seqs[k])
    BY <1>1
  <2> HIDE DEF upTo
  <2>4. PICK g : IsFlattening(g, Append(upTo(k - 1), seqs[k]))
    BY <2>1, <2>2, FlatteningGoesOn
  <2>5. IsFlattening(g, upTo(k)) /\ k \in 0..n
    BY <2>3, <2>4
  <2> QED
    BY <2>5
<1>4. n \in good
  <2> HIDE DEF good
  <2>1. \A k \in 0..n : k \in good
    BY <1>2, <1>3, NumbersUpTo
  <2> QED
    BY <2>1
<1>5. upTo(n) = seqs
  BY SubSeqFull
<1> QED
  BY <1>4, <1>5

(* FlattenSeq of no sequence is empty, and one more sequence goes to its end. *)
LEMMA FlattenSeqAppend ==
  ASSUME NEW S, NEW seqs \in Seq(Seq(S)), NEW x \in Seq(S)
  PROVE  FlattenSeq(Append(seqs, x)) = FlattenSeq(seqs) \o x
<1> PICK n \in Nat : n = Len(seqs)
  BY LenProperties
<1> DEFINE t == Append(seqs, x)
<1>1. PICK f : f = (CHOOSE g : IsFlattening(g, seqs))
  OBVIOUS
<1>2. IsFlattening(f, seqs)
  BY <1>1, FlatteningExists
<1> DEFINE g == [i \in 1..(n + 1) |-> IF i <= n THEN f[i] ELSE IF n = 0 THEN x ELSE f[n] \o x]
<1>3. IsFlattening(g, t)
  BY <1>2, FlatteningGoesOn
<1>4. Len(t) = n + 1 /\ Len(t) # 0 /\ Len(t) \in Nat
  BY AppendProperties
<1>5. g[n + 1] = IF n = 0 THEN x ELSE f[n] \o x
  OBVIOUS
<1> HIDE DEF g, t
<1>6. PICK h : h = (CHOOSE u : IsFlattening(u, t))
  OBVIOUS
<1>7. IsFlattening(h, t)
  BY <1>3, <1>6
<1>8. h = g
  BY <1>3, <1>4, <1>7, FlatteningIsUnique
<1>9. FlattenSeq(t) = g[n + 1]
  BY <1>4, <1>6, <1>8, FlattenSeqChooses
<1>10. CASE n = 0
  <2>1. FlattenSeq(seqs) = seqs /\ seqs = <<>>
    BY <1>10, EmptySeq DEF FlattenSeq
  <2> QED
    BY <1>5, <1>9, <1>10, <2>1, ConcatEmptySeq DEF t
<1>11. CASE n # 0
  <2>1. FlattenSeq(seqs) = f[n]
    BY <1>1, <1>11, FlattenSeqChooses
  <2> QED
    BY <1>5, <1>9, <1>11, <2>1 DEF t
<1> QED
  BY <1>10, <1>11

-----------------------------------------------------------------------------
(* Appending keeps what was there. *)
LEMMA Appended ==
  ASSUME NEW S, NEW s \in Seq(S), NEW x \in S
  PROVE  /\ Append(s, x) \in Seq(S)
         /\ DOMAIN s = 1..Len(s) /\ Len(s) \in Nat
         /\ DOMAIN Append(s, x) = 1..(Len(s) + 1) /\ Len(Append(s, x)) = Len(s) + 1
         /\ \A n \in 1..Len(s) : Append(s, x)[n] = s[n]
         /\ Append(s, x)[Len(s) + 1] = x
  BY AppendProperties, LenProperties

(* A sequence is the last of its prefixes, each one element longer than the one before. *)
LEMMA PrefixesGrow ==
  ASSUME NEW S, NEW s \in Seq(S)
  PROVE  /\ SubSeq(s, 1, 0) = <<>> /\ SubSeq(s, 1, Len(s)) = s
         /\ \A k \in 1..Len(s) :
              /\ s[k] \in S /\ SubSeq(s, 1, k - 1) \in Seq(S)
              /\ SubSeq(s, 1, k) = Append(SubSeq(s, 1, k - 1), s[k])
<1>1. SubSeq(s, 1, 0) = <<>> /\ SubSeq(s, 1, Len(s)) = s
  BY SubSeqEmpty, SubSeqFull
<1> PICK n \in Nat : n = Len(s)
  BY LenProperties
<1>2. ASSUME NEW k \in 1..n
      PROVE  /\ s[k] \in S /\ SubSeq(s, 1, k - 1) \in Seq(S)
             /\ SubSeq(s, 1, k) = Append(SubSeq(s, 1, k - 1), s[k])
  <2>1. \A i \in 1..n : s[i] \in S
    BY ElementOfSeq
  <2>2. 1 \in 1..n /\ k \in 1..n /\ 1 \in Int /\ k - 1 \in Int /\ s[k] \in S
    BY <2>1
  <2>3. \A i \in 1..(k - 1) : s[i] \in S
    BY <2>1
  <2>4. SubSeq(s, 1, k - 1) \in Seq(S)
    BY <2>2, <2>3, SubSeqProperties
  <2>5. SubSeq(s, 1, k) = SubSeq(s, 1, k - 1) \o <<s[k]>>
    BY <2>2, SubSeqRecursiveSecond
  <2> QED
    BY <2>2, <2>4, <2>5, AppendIsConcat
<1> QED
  BY <1>1, <1>2

(* What holds of no element and stays with one more holds of a sequence: the claim is
   that all its prefixes are in Good. *)
LEMMA SequenceUpTo ==
  ASSUME NEW S, NEW s \in Seq(S), NEW Good, <<>> \in Good,
         \A p \in Good \cap Seq(S) : \A x \in S : Append(p, x) \in Good
  PROVE  s \in Good
<1> PICK n \in Nat : n = Len(s)
  BY LenProperties
<1> DEFINE set == {k \in 0..n : SubSeq(s, 1, k) \in Good}
<1>1. /\ SubSeq(s, 1, 0) = <<>> /\ SubSeq(s, 1, n) = s
      /\ \A k \in 1..n : /\ s[k] \in S /\ SubSeq(s, 1, k - 1) \in Seq(S)
                        /\ SubSeq(s, 1, k) = Append(SubSeq(s, 1, k - 1), s[k])
  BY PrefixesGrow
<1>2. 0 \in set
  <2>1. 0 \in 0..n
    OBVIOUS
  <2> QED
    BY <1>1, <2>1, Zenon
<1>3. ASSUME NEW k \in 1..n, k - 1 \in set PROVE k \in set
  <2>1. SubSeq(s, 1, k - 1) \in Good \cap Seq(S) /\ s[k] \in S
    BY <1>1, <1>3
  <2>2. Append(SubSeq(s, 1, k - 1), s[k]) \in Good
    BY <2>1
  <2>3. k \in 0..n
    OBVIOUS
  <2> QED
    BY <1>1, <2>2, <2>3, Zenon
<1> HIDE DEF set
<1>4. \A k \in 0..n : k \in set
  BY <1>2, <1>3, NumbersUpTo
<1>5. n \in set
  BY <1>4
<1> QED
  BY <1>1, <1>5 DEF set

LEMMA FlattenSeqEmpty == FlattenSeq(<<>>) = <<>>
  BY DEF FlattenSeq

LEMMA FlattenSeqType ==
  ASSUME NEW S, NEW seqs \in Seq(Seq(S))
  PROVE  FlattenSeq(seqs) \in Seq(S)
<1> DEFINE good == {p \in Seq(Seq(S)) : FlattenSeq(p) \in Seq(S)}
<1>1. <<>> \in good
  BY FlattenSeqEmpty, EmptySeq
<1>2. ASSUME NEW p \in good, NEW x \in Seq(S) PROVE Append(p, x) \in good
  <2>1. FlattenSeq(Append(p, x)) = FlattenSeq(p) \o x
    BY <1>2, FlattenSeqAppend
  <2> QED
    BY <1>2, <2>1, AppendProperties, ConcatProperties
<1> HIDE DEF good
<1>3. seqs \in good
  BY <1>1, <1>2, SequenceUpTo
<1> QED
  BY <1>3 DEF good

(* Flattening respects concatenation. *)
LEMMA FlattenSeqConcat ==
  ASSUME NEW S, NEW s \in Seq(Seq(S)), NEW t \in Seq(Seq(S))
  PROVE  FlattenSeq(s \o t) = FlattenSeq(s) \o FlattenSeq(t)
<1> DEFINE good == {p \in Seq(Seq(S)) : FlattenSeq(s \o p) = FlattenSeq(s) \o FlattenSeq(p)}
<1>1. <<>> \in good
  BY FlattenSeqEmpty, FlattenSeqType, EmptySeq, ConcatEmptySeq
<1>2. ASSUME NEW p \in good, NEW x \in Seq(S) PROVE Append(p, x) \in good
  <2>1. p \in Seq(Seq(S)) /\ FlattenSeq(s \o p) = FlattenSeq(s) \o FlattenSeq(p)
    BY <1>2
  <2> HIDE DEF good
  <2>2. s \o Append(p, x) = Append(s \o p, x)
    <3>1. <<x>> \in Seq(Seq(S))
      OBVIOUS
    <3>2. s \o p \in Seq(Seq(S))
      BY <2>1, ConcatProperties
    <3>3. Append(p, x) = p \o <<x>> /\ Append(s \o p, x) = (s \o p) \o <<x>>
      BY <2>1, <3>2, AppendIsConcat
    <3> QED
      BY <2>1, <3>1, <3>3, ConcatAssociative
  <2>3. s \o p \in Seq(Seq(S))
    BY <2>1, ConcatProperties
  <2>4. FlattenSeq(Append(s \o p, x)) = FlattenSeq(s \o p) \o x
    BY <2>3, FlattenSeqAppend
  <2>5. FlattenSeq(Append(p, x)) = FlattenSeq(p) \o x
    BY <2>1, FlattenSeqAppend
  <2>6. FlattenSeq(s) \in Seq(S) /\ FlattenSeq(p) \in Seq(S)
    BY <2>1, FlattenSeqType
  <2>7. (FlattenSeq(s) \o FlattenSeq(p)) \o x = FlattenSeq(s) \o (FlattenSeq(p) \o x)
    BY <2>6, ConcatAssociative, SMTT(30)
  <2>8. Append(p, x) \in Seq(Seq(S))
    BY <2>1, AppendProperties
  <2> QED
    BY <2>1, <2>2, <2>4, <2>5, <2>7, <2>8 DEF good
<1> HIDE DEF good
<1>3. t \in good
  BY <1>1, <1>2, SequenceUpTo
<1> QED
  BY <1>3 DEF good

LEMMA FlattenSeqOne ==
  ASSUME NEW S, NEW x \in Seq(S)
  PROVE  FlattenSeq(<<x>>) = x
<1>1. <<>> \in Seq(Seq(S)) /\ <<>> \in Seq(S) /\ Append(<<>>, x) = <<x>>
  OBVIOUS
<1>2. FlattenSeq(<<x>>) = <<>> \o x
  BY <1>1, FlattenSeqEmpty, FlattenSeqAppend
<1> QED
  BY <1>2, ConcatEmptySeq

(* The first sequence comes first. *)
LEMMA FlattenSeqFirst ==
  ASSUME NEW S, NEW seqs \in Seq(Seq(S)), seqs # <<>>
  PROVE  /\ Head(seqs) \in Seq(S) /\ Tail(seqs) \in Seq(Seq(S))
         /\ FlattenSeq(seqs) = Head(seqs) \o FlattenSeq(Tail(seqs))
<1>1. Head(seqs) \in Seq(S) /\ Tail(seqs) \in Seq(Seq(S))
  BY HeadTailProperties
<1>2. seqs = <<Head(seqs)>> \o Tail(seqs)
  <2>1. Len(seqs) \in Nat /\ Len(seqs) # 0 /\ 1 \in 1..Len(seqs) /\ Len(seqs) \in 1..Len(seqs)
    BY EmptySeq, LenProperties
  <2>2. SubSeq(seqs, 1, Len(seqs)) = <<seqs[1]>> \o SubSeq(seqs, 1 + 1, Len(seqs))
    BY <2>1, SubSeqRecursiveFirst
  <2>3. Tail(seqs) = SubSeq(seqs, 2, Len(seqs)) /\ Head(seqs) = seqs[1]
    BY TailIsSubSeq
  <2>4. SubSeq(seqs, 1, Len(seqs)) = seqs
    BY SubSeqFull
  <2> QED
    BY <2>2, <2>3, <2>4
<1>3. <<Head(seqs)>> \in Seq(Seq(S)) /\ FlattenSeq(<<Head(seqs)>>) = Head(seqs)
  BY <1>1, FlattenSeqOne
<1>4. FlattenSeq(<<Head(seqs)>> \o Tail(seqs)) = FlattenSeq(<<Head(seqs)>>) \o FlattenSeq(Tail(seqs))
  BY <1>1, <1>3, FlattenSeqConcat
<1> QED
  BY <1>1, <1>2, <1>3, <1>4

-----------------------------------------------------------------------------
(* Two sequences joined, as one operator for the provers. *)
Joined(s, t) == s \o t

LEMMA JoinedType ==
  ASSUME NEW S, NEW s \in Seq(S), NEW t \in Seq(S)
  PROVE  Joined(s, t) \in Seq(S)
  BY ConcatProperties DEF Joined

LEMMA JoinedElements ==
  ASSUME NEW S, NEW s \in Seq(S), NEW t \in Seq(S)
  PROVE  /\ Len(s) \in Nat /\ Len(t) \in Nat /\ Len(Joined(s, t)) = Len(s) + Len(t)
         /\ \A i \in 1..Len(s) : Joined(s, t)[i] = s[i]
         /\ Len(t) > 0 => Joined(s, t)[Len(s) + 1] = t[1]
<1>1. /\ Len(s \o t) = Len(s) + Len(t)
      /\ \A i \in 1..(Len(s) + Len(t)) :
           (s \o t)[i] = IF i <= Len(s) THEN s[i] ELSE t[i - Len(s)]
  BY ConcatProperties
<1> PICK j : j = s \o t
  OBVIOUS
<1> PICK a \in Nat, b \in Nat : a = Len(s) /\ b = Len(t)
  BY LenProperties
<1>2. Len(j) = a + b /\ \A i \in 1..(a + b) : j[i] = IF i <= a THEN s[i] ELSE t[i - a]
  BY <1>1
<1>3. \A i \in 1..a : j[i] = s[i]
  BY <1>2
<1>4. ASSUME b > 0 PROVE j[a + 1] = t[1]
  <2>1. a + 1 \in 1..(a + b) /\ ~(a + 1 <= a) /\ (a + 1) - a = 1
    BY <1>4
  <2> QED
    BY <1>2, <2>1
<1> QED
  BY <1>2, <1>3, <1>4 DEF Joined

LEMMA JoinedHeads ==
  ASSUME NEW S, NEW s \in Seq(S), NEW t \in Seq(S), NEW m \in Nat \ {0}, NEW n \in Nat \ {0}
  PROVE  Len(s) = m /\ Len(t) = n =>
           /\ Joined(s, t) \in Seq(S) /\ Len(Joined(s, t)) = m + n
           /\ Joined(s, t)[1] = s[1] /\ Joined(s, t)[m + 1] = t[1]
<1>1. Joined(s, t) \in Seq(S)
  BY JoinedType
<1>2. /\ Len(Joined(s, t)) = Len(s) + Len(t)
      /\ \A i \in 1..Len(s) : Joined(s, t)[i] = s[i]
  BY JoinedElements, Zenon
<1>3. Len(t) > 0 => Joined(s, t)[Len(s) + 1] = t[1]
  BY JoinedElements, Zenon
<1>4. 1 \in 1..m /\ n > 0
  OBVIOUS
<1> QED
  BY <1>1, <1>2, <1>3, <1>4

(* m times a and then n times b. *)
LEMMA Repeated ==
  ASSUME NEW S, NEW a \in S, NEW n \in Nat
  PROVE  [i \in 1..n |-> a] \in Seq(S) /\ Len([i \in 1..n |-> a]) = n
<1> PICK s : s = [i \in 1..n |-> a]
  OBVIOUS
<1>1. s \in [1..n -> S]
  OBVIOUS
<1>2. s \in Seq(S) /\ Len(s) = n
  BY <1>1, SeqDef, LenProperties
<1> QED
  BY <1>2

LEMMA JoinedRepeated ==
  ASSUME NEW S, NEW a \in S, NEW b \in S, NEW m \in Nat \ {0}, NEW n \in Nat \ {0}, NEW p,
         p = [i \in 1..m |-> a] \o [i \in 1..n |-> b]
  PROVE  p \in Seq(S) /\ Len(p) = m + n /\ p[1] = a /\ p[m + 1] = b
<1> DEFINE s == [i \in 1..m |-> a]
           t == [i \in 1..n |-> b]
<1>1. s \in Seq(S) /\ Len(s) = m /\ t \in Seq(S) /\ Len(t) = n
  BY Repeated
<1>2. s[1] = a /\ t[1] = b /\ p = Joined(s, t)
  BY DEF Joined
<1> HIDE DEF s, t
<1>3. /\ Joined(s, t) \in Seq(S) /\ Len(Joined(s, t)) = m + n
      /\ Joined(s, t)[1] = s[1] /\ Joined(s, t)[m + 1] = t[1]
  BY <1>1, JoinedHeads
<1> QED
  BY <1>2, <1>3

LEMMA JoinedAssociative ==
  ASSUME NEW S, NEW s \in Seq(S), NEW t \in Seq(S), NEW u \in Seq(S)
  PROVE  Joined(Joined(s, t), u) = Joined(s, Joined(t, u))
  BY ConcatAssociative DEF Joined

LEMMA JoinedSplits ==
  ASSUME NEW S, NEW s \in Seq(S), NEW p \in Seq(S), NEW r \in Seq(S), NEW t, NEW u
  PROVE  Joined(p, r) = t /\ Joined(s, p) = u => Joined(u, r) = Joined(s, t)
<1>1. Joined(Joined(s, p), r) = Joined(s, Joined(p, r))
  BY JoinedAssociative
<1> QED
  BY <1>1

LEMMA JoinedCancels ==
  \A S : \A s, t, u \in Seq(S) : Joined(s, t) = Joined(s, u) => t = u
  BY ConcatSimplifications DEF Joined

(* Every place splits a sequence in two. *)
Beginning(s, n) == SubSeq(s, 1, n)

Rest(s, n) == SubSeq(s, n + 1, Len(s))

Between(s, a, b) == SubSeq(s, a + 1, b)

LEMMA SplitAt ==
  ASSUME NEW S, NEW s \in Seq(S), NEW n \in 0..Len(s)
  PROVE  /\ Beginning(s, n) \in Seq(S) /\ Rest(s, n) \in Seq(S)
         /\ Len(Beginning(s, n)) = n /\ \A i \in 1..n : Beginning(s, n)[i] = s[i]
         /\ Joined(Beginning(s, n), Rest(s, n)) = s
<1> PICK m \in Nat : m = Len(s) /\ n \in 0..m
  BY LenProperties
<1>1. \A i \in 1..m : s[i] \in S
  BY ElementOfSeq
<1>2. /\ SubSeq(s, 1, n) \in Seq(S)
      /\ Len(SubSeq(s, 1, n)) = IF 1 <= n THEN n - 1 + 1 ELSE 0
      /\ \A i \in 1..(n - 1 + 1) : SubSeq(s, 1, n)[i] = s[1 + i - 1]
  <2>1. \A i \in 1..n : s[i] \in S
    BY <1>1
  <2> QED
    BY <2>1, SubSeqProperties
<1>3. Len(SubSeq(s, 1, n)) = n /\ \A i \in 1..n : SubSeq(s, 1, n)[i] = s[i]
  <2>1. \A i \in 1..n : i \in 1..(n - 1 + 1) /\ 1 + i - 1 = i
    OBVIOUS
  <2> QED
    BY <1>2, <2>1
<1>4. SubSeq(s, n + 1, m) \in Seq(S)
  <2>1. \A i \in (n + 1)..m : s[i] \in S
    BY <1>1
  <2> QED
    BY <2>1, SubSeqProperties
<1>5. SubSeq(s, 1, n) \o SubSeq(s, n + 1, m) = s
  <2>1. 1 \in 1..(m + 1) /\ n \in (1 - 1)..m /\ m \in n..m
    OBVIOUS
  <2>2. SubSeq(s, 1, n) \o SubSeq(s, n + 1, m) = SubSeq(s, 1, m)
    BY <2>1, ConcatAdjacentSubSeq
  <2> QED
    BY <2>2, SubSeqFull
<1> QED
  BY <1>2, <1>3, <1>4, <1>5 DEF Joined, Beginning, Rest

-----------------------------------------------------------------------------
(* A stream, of which s has been read and t has not, starts with a packet x. *)

(* Reading moves the border. *)
LEMMA ReadMoves ==
  ASSUME NEW S, NEW s \in Seq(S), NEW t \in Seq(S), NEW n \in DOMAIN t
  PROVE  /\ Joined(s, Beginning(t, n)) \in Seq(S) /\ Rest(t, n) \in Seq(S)
         /\ Len(Joined(s, Beginning(t, n))) >= Len(s)
         /\ Joined(Joined(s, Beginning(t, n)), Rest(t, n)) = Joined(s, t)
<1>1. n \in 0..Len(t)
  BY LenProperties
<1>2. Beginning(t, n) \in Seq(S) /\ Rest(t, n) \in Seq(S) /\ Joined(Beginning(t, n), Rest(t, n)) = t
  BY <1>1, SplitAt
<1>3. Joined(s, Beginning(t, n)) \in Seq(S)
  BY <1>2, JoinedType
<1>4. Len(Joined(s, Beginning(t, n))) >= Len(s)
  BY <1>2, JoinedElements
<1>5. Joined(Joined(s, Beginning(t, n)), Rest(t, n)) = Joined(s, t)
  BY <1>2, JoinedSplits
<1> QED
  BY <1>2, <1>3, <1>4, <1>5

(* What has been read of the packet is its start. *)
LEMMA StartOfPacket ==
  ASSUME NEW S, NEW s \in Seq(S), NEW t \in Seq(S), NEW x \in Seq(S), NEW y \in Seq(S),
         Joined(x, y) = Joined(s, t), NEW i \in 1..Len(s), i <= Len(x)
  PROVE  s[i] = x[i]
<1>1. i \in 1..Len(x)
  BY LenProperties
<1>2. Joined(s, t)[i] = s[i] /\ Joined(x, y)[i] = x[i]
  BY <1>1, JoinedElements
<1> QED
  BY <1>2

(* A packet that has been read whole is taken from the front. *)
LEMMA PacketTaken ==
  ASSUME NEW S, NEW s \in Seq(S), NEW t \in Seq(S), NEW x \in Seq(S), NEW y \in Seq(S),
         Joined(x, y) = Joined(s, t), Len(s) >= Len(x)
  PROVE  Rest(s, Len(x)) \in Seq(S) /\ Joined(Rest(s, Len(x)), t) = y
<1> PICK c \in Nat : c = Len(x) /\ c \in 0..Len(s)
  BY LenProperties
<1> PICK p, r : p = Beginning(s, c) /\ r = Rest(s, c)
  OBVIOUS
<1>1. /\ p \in Seq(S) /\ r \in Seq(S) /\ Joined(p, r) = s
      /\ Len(p) = c /\ \A i \in 1..c : p[i] = s[i]
  <2>1. c \in 0..Len(s)
    OBVIOUS
  <2>2. /\ Beginning(s, c) \in Seq(S) /\ Rest(s, c) \in Seq(S)
        /\ Len(Beginning(s, c)) = c /\ \A i \in 1..c : Beginning(s, c)[i] = s[i]
        /\ Joined(Beginning(s, c), Rest(s, c)) = s
    BY <2>1, SplitAt
  <2> QED
    BY <2>2
<1>2. \A i \in 1..c : p[i] = x[i]
  <2> TAKE i \in 1..c
  <2>1. i \in 1..Len(s) /\ i <= Len(x)
    BY LenProperties
  <2>2. s[i] = x[i]
    BY <2>1, StartOfPacket
  <2> QED
    BY <1>1, <2>2
<1>3. p = x
  BY <1>1, <1>2, SeqEqual
<1>4. Joined(s, t) = Joined(x, Joined(r, t))
  BY <1>1, <1>3, JoinedSplits
<1>5. Joined(r, t) \in Seq(S)
  BY <1>1, JoinedType
<1>6. y = Joined(r, t)
  BY <1>4, <1>5, JoinedCancels
<1> QED
  BY <1>1, <1>6

(* What has been read of the first of several sequences, and what is left of the others. *)
LEMMA FirstTaken ==
  ASSUME NEW S, NEW seqs \in Seq(Seq(S)), seqs # <<>>, NEW s \in Seq(S), NEW t \in Seq(S),
         FlattenSeq(seqs) = Joined(s, t), NEW x, x = seqs[1]
  PROVE  /\ x \in Seq(S) /\ Tail(seqs) \in Seq(Seq(S))
         /\ \A i \in 1..Len(s) : i <= Len(x) => s[i] = x[i]
         /\ Len(s) >= Len(x) => /\ Rest(s, Len(x)) \in Seq(S)
                                /\ FlattenSeq(Tail(seqs)) = Joined(Rest(s, Len(x)), t)
<1>1. Tail(seqs) \in Seq(Seq(S)) /\ Head(seqs) = x /\ x \in Seq(S)
  BY HeadTailProperties
<1>2. FlattenSeq(seqs) = Head(seqs) \o FlattenSeq(Tail(seqs))
  BY FlattenSeqFirst
<1> PICK y \in Seq(S) : y = FlattenSeq(Tail(seqs))
  BY <1>1, FlattenSeqType
<1>3. Joined(x, y) = Joined(s, t)
  BY <1>1, <1>2 DEF Joined
<1>4. ASSUME NEW i \in 1..Len(s), i <= Len(x) PROVE s[i] = x[i]
  BY <1>1, <1>3, <1>4, StartOfPacket
<1>5. ASSUME Len(s) >= Len(x) PROVE Rest(s, Len(x)) \in Seq(S) /\ Joined(Rest(s, Len(x)), t) = y
  BY <1>1, <1>3, <1>5, PacketTaken
<1> QED
  BY <1>1, <1>4, <1>5

(* A slice with the elements of b is b. *)
LEMMA SliceIs ==
  ASSUME NEW S, NEW s \in Seq(S), NEW b \in Seq(S), NEW k \in Nat, NEW n \in Nat,
         n = k + Len(b), Len(s) >= n, \A i \in 1..Len(b) : s[k + i] = b[i]
  PROVE  Between(s, k, n) = b
<1> PICK c \in Nat, a \in Nat : c = Len(b) /\ a = Len(s)
  BY LenProperties
<1>1. \A i \in (k + 1)..n : s[i] \in S
  <2>1. \A i \in (k + 1)..n : i \in 1..Len(s)
    OBVIOUS
  <2> QED
    BY <2>1, ElementOfSeq
<1>2. k + 1 \in Int /\ n \in Int /\ n - (k + 1) + 1 = c /\ n = k + c
  OBVIOUS
<1>3. /\ SubSeq(s, k + 1, n) \in Seq(S)
      /\ Len(SubSeq(s, k + 1, n)) = IF k + 1 <= n THEN n - (k + 1) + 1 ELSE 0
      /\ \A i \in 1..(n - (k + 1) + 1) : SubSeq(s, k + 1, n)[i] = s[(k + 1) + i - 1]
  BY <1>1, <1>2, SubSeqProperties
<1> PICK q : q = SubSeq(s, k + 1, n)
  OBVIOUS
<1>4. q \in Seq(S) /\ Len(q) = c /\ \A i \in 1..c : q[i] = s[(k + 1) + i - 1]
  BY <1>2, <1>3
<1>5. \A i \in 1..c : q[i] = b[i]
  <2>1. \A i \in 1..c : (k + 1) + i - 1 = k + i
    OBVIOUS
  <2> QED
    BY <1>4, <2>1
<1>6. q = b
  BY <1>4, <1>5, SeqEqual
<1> QED
  BY <1>6 DEF Between

LEMMA BeginningGrows ==
  ASSUME NEW S, NEW s \in Seq(S), NEW a \in 0..Len(s), NEW b \in a..Len(s)
  PROVE  Joined(Beginning(s, a), Between(s, a, b)) = Beginning(s, b)
<1>1. 1 \in 1..(Len(s) + 1) /\ a \in (1 - 1)..Len(s)
  BY LenProperties
<1> QED
  BY <1>1, ConcatAdjacentSubSeq DEF Joined, Beginning, Between

LEMMA BeginningIs ==
  ASSUME NEW S, NEW s \in Seq(S)
  PROVE  Beginning(s, 0) = <<>> /\ Beginning(s, Len(s)) = s /\ Between(s, 0, Len(s)) = s
<1>1. 0 + 1 = 1
  OBVIOUS
<1> QED
  BY <1>1, SubSeqEmpty, SubSeqFull DEF Beginning, Between
=============================================================================
