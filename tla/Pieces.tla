------------------------------- MODULE Pieces -------------------------------
(***************************************************************************)
(* Lemmas about the parts of sequences and about concatenation, element by *)
(* element.                                                                *)
(***************************************************************************)
EXTENDS Naturals, Sequences, SequenceTheorems, TLAPS

\* A piece of a sequence, element by element.
LEMMA Piece ==
  ASSUME NEW S, NEW s \in Seq(S), NEW m \in 1..(Len(s) + 1), NEW n \in 0..Len(s)
  PROVE  /\ SubSeq(s, m, n) \in Seq(S)
         /\ Len(SubSeq(s, m, n)) = IF m <= n THEN n - m + 1 ELSE 0
         /\ \A i \in 1..(n - m + 1) : SubSeq(s, m, n)[i] = s[m + i - 1]
<1>1. \A i \in m..n : s[i] \in S BY ElementOfSeq
<1>2. m \in Int /\ n \in Int BY LenProperties
<1> QED BY <1>1, <1>2, SubSeqProperties

\* The first n elements of a sequence.
LEMMA Prefix ==
  ASSUME NEW S, NEW s \in Seq(S), NEW n \in 0..Len(s)
  PROVE  /\ SubSeq(s, 1, n) \in Seq(S)
         /\ Len(SubSeq(s, 1, n)) = n
         /\ \A i \in 1..n : SubSeq(s, 1, n)[i] = s[i]
<1> DEFINE p == SubSeq(s, 1, n)
<1>1. Len(s) \in Nat BY LenProperties
<1>2. /\ p \in Seq(S)
      /\ Len(p) = IF 1 <= n THEN n - 1 + 1 ELSE 0
      /\ \A i \in 1..(n - 1 + 1) : p[i] = s[1 + i - 1]
  BY <1>1, Piece
<1> HIDE DEF p
<1>3. Len(p) = n /\ \A i \in 1..n : p[i] = s[i] BY <1>1, <1>2
<1> QED BY <1>2, <1>3 DEF p

\* The rest of it.
LEMMA Suffix ==
  ASSUME NEW S, NEW s \in Seq(S), NEW n \in 0..Len(s)
  PROVE  /\ SubSeq(s, n + 1, Len(s)) \in Seq(S)
         /\ Len(SubSeq(s, n + 1, Len(s))) = Len(s) - n
         /\ \A i \in 1..(Len(s) - n) : SubSeq(s, n + 1, Len(s))[i] = s[n + i]
<1> DEFINE p == SubSeq(s, n + 1, Len(s))
<1>1. Len(s) \in Nat BY LenProperties
<1>2. n + 1 \in 1..(Len(s) + 1) /\ Len(s) \in 0..Len(s) BY <1>1
<1>3. /\ p \in Seq(S)
      /\ Len(p) = IF n + 1 <= Len(s) THEN Len(s) - (n + 1) + 1 ELSE 0
      /\ \A i \in 1..(Len(s) - (n + 1) + 1) : p[i] = s[n + 1 + i - 1]
  BY <1>2, Piece
<1> HIDE DEF p
<1>4. Len(p) = Len(s) - n BY <1>1, <1>3
<1>5. ASSUME NEW i \in 1..(Len(s) - n) PROVE p[i] = s[n + i]
  <2>1. i \in 1..(Len(s) - (n + 1) + 1) /\ n + 1 + i - 1 = n + i BY <1>1
  <2> QED BY <1>3, <2>1
<1> QED BY <1>3, <1>4, <1>5 DEF p

\* The two parts of a sequence make it whole.
LEMMA Parts ==
  ASSUME NEW S, NEW s \in Seq(S), NEW k \in 0..Len(s)
  PROVE  SubSeq(s, 1, k) \o SubSeq(s, k + 1, Len(s)) = s
<1>1. Len(s) \in Nat BY LenProperties
<1>2. 1 \in 1..(Len(s) + 1) /\ k \in (1 - 1)..Len(s) /\ Len(s) \in k..Len(s) BY <1>1
<1>3. SubSeq(s, 1, k) \o SubSeq(s, k + 1, Len(s)) = SubSeq(s, 1, Len(s))
  BY <1>2, ConcatAdjacentSubSeq
<1>4. SubSeq(s, 1, Len(s)) = s BY SubSeqFull
<1> QED BY <1>3, <1>4

\* What moves from the front of one sequence to the end of another changes nothing else.
LEMMA Shift ==
  ASSUME NEW S, NEW c \in Seq(S), NEW s \in Seq(S), NEW k \in 0..Len(s)
  PROVE  (c \o SubSeq(s, 1, k)) \o SubSeq(s, k + 1, Len(s)) = c \o s
<1> DEFINE p == SubSeq(s, 1, k)
           q == SubSeq(s, k + 1, Len(s))
<1>1. p \in Seq(S) /\ q \in Seq(S) BY Prefix, Suffix
<1>2. p \o q = s BY Parts
<1> HIDE DEF p, q
<1>3. \A x, y, z \in Seq(S) : (x \o y) \o z = x \o (y \o z) BY ConcatAssociative, SMTT(30)
<1>4. c \in Seq(S) OBVIOUS
<1>5. (c \o p) \o q = c \o (p \o q) BY <1>1, <1>3, <1>4
<1> QED BY <1>2, <1>5 DEF p, q

\* The length and the elements of a concatenation.
LEMMA Cat ==
  ASSUME NEW S, NEW c \in Seq(S), NEW r \in Seq(S)
  PROVE  /\ c \o r \in Seq(S) /\ Len(c \o r) = Len(c) + Len(r)
         /\ Len(c) \in Nat /\ Len(r) \in Nat
         /\ \A i \in 1..(Len(c) + Len(r)) :
              (c \o r)[i] = IF i <= Len(c) THEN c[i] ELSE r[i - Len(c)]
BY ConcatProperties, LenProperties

\* One more element at the end.
LEMMA Appended ==
  ASSUME NEW S, NEW s \in Seq(S), NEW e \in S
  PROVE  /\ Append(s, e) \in Seq(S) /\ Append(s, e) # <<>>
         /\ Len(Append(s, e)) = Len(s) + 1
         /\ Append(s, e)[Len(s) + 1] = e
         /\ \A k \in 1..Len(s) : Append(s, e)[k] = s[k]
BY AppendProperties

\* Sequences of equal length with equal elements are equal.
LEMMA Same ==
  ASSUME NEW S, NEW s \in Seq(S), NEW t \in Seq(S), Len(s) = Len(t), \A i \in 1..Len(s) : s[i] = t[i]
  PROVE  s = t
BY SeqEqual

\* The beginning of a concatenation.
LEMMA FrontOfCat ==
  ASSUME NEW S, NEW c \in Seq(S), NEW r \in Seq(S), NEW n \in 0..Len(c)
  PROVE  SubSeq(c \o r, 1, n) = SubSeq(c, 1, n)
<1> DEFINE l == SubSeq(c \o r, 1, n)
           d == SubSeq(c, 1, n)
<1>1. n \in 0..Len(c \o r) /\ c \o r \in Seq(S) BY Cat
<1>2. l \in Seq(S) /\ Len(l) = n /\ \A i \in 1..n : l[i] = (c \o r)[i] BY <1>1, Prefix
<1>3. d \in Seq(S) /\ Len(d) = n /\ \A i \in 1..n : d[i] = c[i] BY Prefix
<1> HIDE DEF l, d
<1>4. ASSUME NEW i \in 1..n PROVE l[i] = d[i]
  <2>1. Len(c) \in Nat /\ Len(r) \in Nat BY Cat
  <2>2. i \in 1..(Len(c) + Len(r)) /\ i <= Len(c) BY <2>1
  <2>3. (c \o r)[i] = c[i] BY <2>2, Cat
  <2> QED BY <1>2, <1>3, <2>3
<1>5. l = d BY <1>2, <1>3, <1>4, Same
<1> QED BY <1>5 DEF l, d

\* The end of a concatenation.
LEMMA BackOfCat ==
  ASSUME NEW S, NEW c \in Seq(S), NEW r \in Seq(S), NEW m \in 0..Len(c)
  PROVE  SubSeq(c \o r, m + 1, Len(c \o r)) = SubSeq(c, m + 1, Len(c)) \o r
<1> DEFINE l == SubSeq(c \o r, m + 1, Len(c \o r))
           d == SubSeq(c, m + 1, Len(c))
<1>1. /\ c \o r \in Seq(S) /\ Len(c \o r) = Len(c) + Len(r) /\ Len(c) \in Nat /\ Len(r) \in Nat
      /\ m \in 0..Len(c \o r)
  BY Cat
<1>2. /\ l \in Seq(S) /\ Len(l) = Len(c \o r) - m
      /\ \A i \in 1..(Len(c \o r) - m) : l[i] = (c \o r)[m + i]
  BY <1>1, Suffix
<1>3. d \in Seq(S) /\ Len(d) = Len(c) - m /\ \A i \in 1..(Len(c) - m) : d[i] = c[m + i]
  BY Suffix
<1> HIDE DEF l, d
<1>4. /\ d \o r \in Seq(S) /\ Len(d \o r) = Len(d) + Len(r)
      /\ \A i \in 1..(Len(d) + Len(r)) : (d \o r)[i] = IF i <= Len(d) THEN d[i] ELSE r[i - Len(d)]
  BY <1>3, Cat
<1>5. Len(l) = Len(d \o r) BY <1>1, <1>2, <1>3, <1>4
<1>6. ASSUME NEW i \in 1..Len(l) PROVE l[i] = (d \o r)[i]
  <2>1. i \in 1..(Len(c) + Len(r) - m) /\ m + i \in 1..(Len(c) + Len(r)) BY <1>1, <1>2
  <2>2. (c \o r)[m + i] = IF m + i <= Len(c) THEN c[m + i] ELSE r[m + i - Len(c)] BY <2>1, Cat
  <2>3. l[i] = (c \o r)[m + i] BY <1>1, <1>2
  <2>4. (d \o r)[i] = IF i <= Len(d) THEN d[i] ELSE r[i - Len(d)] BY <1>1, <1>3, <1>4, <2>1
  <2>5. CASE i <= Len(d) BY <1>1, <1>3, <2>1, <2>2, <2>3, <2>4, <2>5
  <2>6. CASE ~(i <= Len(d))
    <3>1. i - Len(d) = m + i - Len(c) BY <1>1, <1>3, <2>1
    <3> QED BY <1>1, <1>3, <2>1, <2>2, <2>3, <2>4, <2>6, <3>1
  <2> QED BY <2>5, <2>6
<1>7. l = d \o r BY <1>2, <1>4, <1>5, <1>6, Same
<1> QED BY <1>7 DEF l, d

=============================================================================
