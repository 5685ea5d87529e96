--------------------------- MODULE RequestProofs ---------------------------
(***************************************************************************)
(* A command reaches its handler as it was given, for any alphabet, codes, *)
(* lines, buffer size and whatever the buffers of the server held before.  *)
(***************************************************************************)
EXTENDS Request, Pieces, FiniteSetTheorems, WellFoundedInduction, TLAPS

-----------------------------------------------------------------------------
(* Cutting strings. *)

\* Among positions there is a first one.
LEMMA Least ==
  ASSUME NEW n \in Nat, NEW S \in SUBSET (1..n), S # {}
  PROVE  \E x \in S : \A y \in S : x <= y
<1> DEFINE R == OpToRel(<, Nat)
<1>1. IsWellFoundedOn(R, Nat) BY NatLessThanWellFounded
<1>2. \A x, y \in Nat : <<y, x>> \in R <=> y < x BY DEF OpToRel
<1> HIDE DEF R
<1>3. S \subseteq Nat OBVIOUS
<1>4. \E x \in S : \A y \in S : ~ (<<y, x>> \in R) BY <1>1, <1>3, WFMin
<1>5. PICK x \in S : \A y \in S : ~ (y < x) BY <1>2, <1>3, <1>4
<1> QED BY <1>3, <1>5

\* What is kept of a string that begins with something that fits.
LEMMA CutCat ==
  ASSUME NEW S, NEW p \in Seq(S), NEW q \in Seq(S), NEW n \in Nat, Len(p) <= n
  PROVE  Cut(p \o q, n) = p \o Cut(q, n - Len(p))
<1>1. /\ p \o q \in Seq(S) /\ Len(p \o q) = Len(p) + Len(q) /\ Len(p) \in Nat /\ Len(q) \in Nat
  BY Cat
<1>2. CASE Len(p) + Len(q) <= n
  <2>1. Len(q) <= n - Len(p) BY <1>1, <1>2
  <2> QED BY <1>1, <1>2, <2>1 DEF Cut
<1>3. CASE ~(Len(p) + Len(q) <= n)
  <2> DEFINE m == n - Len(p)
             l == SubSeq(p \o q, 1, n)
             f == SubSeq(q, 1, m)
  <2>1. m \in 0..Len(q) /\ n \in 0..Len(p \o q) /\ ~(Len(q) <= m) BY <1>1, <1>3
  <2>2. l \in Seq(S) /\ Len(l) = n /\ \A i \in 1..n : l[i] = (p \o q)[i] BY <1>1, <2>1, Prefix
  <2>3. f \in Seq(S) /\ Len(f) = m /\ \A i \in 1..m : f[i] = q[i] BY <2>1, Prefix
  <2>4. Cut(p \o q, n) = l /\ Cut(q, m) = f BY <1>1, <1>3, <2>1 DEF Cut
  <2>5. n = Len(p) + m /\ m \in Nat BY <1>1, <1>3
  <2> HIDE DEF l, f, m
  <2>6. /\ p \o f \in Seq(S) /\ Len(p \o f) = n
        /\ \A i \in 1..n : (p \o f)[i] = IF i <= Len(p) THEN p[i] ELSE f[i - Len(p)]
    BY <2>3, <2>5, Cat
  <2>7. ASSUME NEW i \in 1..n PROVE l[i] = (p \o f)[i]
    <3>1. i \in 1..(Len(p) + Len(q)) BY <1>1, <2>1
    <3>2. (p \o q)[i] = IF i <= Len(p) THEN p[i] ELSE q[i - Len(p)] BY <3>1, Cat
    <3>3. ~(i <= Len(p)) => i - Len(p) \in 1..m BY <1>1, <2>5
    <3> QED BY <2>2, <2>3, <2>6, <3>2, <3>3
  <2>8. l = p \o f BY <2>2, <2>6, <2>7, Same
  <2> QED BY <2>4, <2>8 DEF m
<1> QED BY <1>2, <1>3

\* What is kept of any string.
LEMMA CutType ==
  ASSUME NEW S, NEW s \in Seq(S), NEW n \in Nat
  PROVE  /\ Cut(s, n) \in Seq(S)
         /\ Len(Cut(s, n)) = IF Len(s) <= n THEN Len(s) ELSE n
         /\ \A i \in 1..Len(Cut(s, n)) : Cut(s, n)[i] = s[i]
<1>1. Len(s) \in Nat BY LenProperties
<1>2. CASE Len(s) <= n BY <1>2 DEF Cut
<1>3. CASE ~(Len(s) <= n)
  <2>1. n \in 0..Len(s) BY <1>1, <1>3
  <2>2. /\ SubSeq(s, 1, n) \in Seq(S) /\ Len(SubSeq(s, 1, n)) = n
        /\ \A i \in 1..n : SubSeq(s, 1, n)[i] = s[i]
    BY <2>1, Prefix
  <2>3. Cut(s, n) = SubSeq(s, 1, n) BY <1>3 DEF Cut
  <2> QED BY <1>3, <2>2, <2>3
<1> QED BY <1>2, <1>3

\* A character is in a concatenation when it is in one of its parts.
LEMMA HasCat ==
  ASSUME NEW S, NEW p \in Seq(S), NEW q \in Seq(S), NEW c
  PROVE  Has(p \o q, c) <=> Has(p, c) \/ Has(q, c)
<1>1. /\ Len(p \o q) = Len(p) + Len(q) /\ Len(p) \in Nat /\ Len(q) \in Nat
      /\ \A i \in 1..(Len(p) + Len(q)) : (p \o q)[i] = IF i <= Len(p) THEN p[i] ELSE q[i - Len(p)]
  BY Cat
<1>2. ASSUME NEW i \in 1..Len(p \o q), (p \o q)[i] = c PROVE Has(p, c) \/ Has(q, c)
  <2>1. i <= Len(p) => i \in 1..Len(p) /\ p[i] = c BY <1>1, <1>2
  <2>2. ~(i <= Len(p)) => i - Len(p) \in 1..Len(q) /\ q[i - Len(p)] = c BY <1>1, <1>2
  <2> QED BY <2>1, <2>2 DEF Has
<1>3. ASSUME NEW i \in 1..Len(p), p[i] = c PROVE Has(p \o q, c)
  <2>1. i \in 1..Len(p \o q) /\ (p \o q)[i] = c BY <1>1, <1>3
  <2> QED BY <2>1 DEF Has
<1>4. ASSUME NEW i \in 1..Len(q), q[i] = c PROVE Has(p \o q, c)
  <2>1. Len(p) + i \in 1..Len(p \o q) /\ ~(Len(p) + i <= Len(p)) /\ Len(p) + i - Len(p) = i BY <1>1, <1>4
  <2>2. (p \o q)[Len(p) + i] = c BY <1>1, <1>4, <2>1
  <2> QED BY <2>1, <2>2 DEF Has
<1> QED BY <1>2, <1>3, <1>4 DEF Has

\* ft_strchr finds the first one.
LEMMA FirstOne ==
  ASSUME NEW S, NEW s \in Seq(S), NEW c, NEW k \in 1..Len(s), s[k] = c, \A j \in 1..(k - 1) : s[j] # c
  PROVE  Before(s, c) = SubSeq(s, 1, k - 1)
<1> DEFINE P(i) == s[i] = c /\ \A j \in 1..(i - 1) : s[j] # c
<1>1. Len(s) \in Nat BY LenProperties
<1>2. ASSUME NEW i \in 1..Len(s), P(i) PROVE i = k
  <2>1. ~(i < k) BY <1>1, <1>2
  <2>2. ~(k < i) BY <1>1, <1>2
  <2> QED BY <1>1, <2>1, <2>2
<1>3. P(k) OBVIOUS
<1>4. (CHOOSE i \in 1..Len(s) : P(i)) = k BY <1>2, <1>3
<1>5. Has(s, c) BY DEF Has
<1> QED BY <1>4, <1>5 DEF Before

\* Cutting at the first c leaves a beginning without a c.
LEMMA BeforeType ==
  ASSUME NEW S, NEW s \in Seq(S), NEW c
  PROVE  /\ Before(s, c) \in Seq(S) /\ Len(Before(s, c)) <= Len(s)
         /\ \A i \in 1..Len(Before(s, c)) : Before(s, c)[i] = s[i] /\ s[i] # c
         /\ Len(s) > 0 /\ s[1] # c => Before(s, c) # <<>>
<1>1. Len(s) \in Nat BY LenProperties
<1>2. CASE ~Has(s, c)
  <2>1. Before(s, c) = s BY <1>2 DEF Before
  <2>2. \A i \in 1..Len(s) : s[i] # c BY <1>2 DEF Has
  <2>3. Len(s) > 0 => s # <<>> BY <1>1
  <2> QED BY <1>1, <2>1, <2>2, <2>3
<1>3. CASE Has(s, c)
  <2> DEFINE T == {i \in 1..Len(s) : s[i] = c}
  <2>1. T \in SUBSET (1..Len(s)) /\ T # {} BY <1>3 DEF Has
  <2>2. PICK k \in T : \A j \in T : k <= j BY <1>1, <2>1, Least
  <2>3. k \in 1..Len(s) /\ s[k] = c BY <2>2
  <2>4. \A j \in 1..(k - 1) : s[j] # c BY <1>1, <2>2, <2>3
  <2>5. Before(s, c) = SubSeq(s, 1, k - 1) BY <2>3, <2>4, FirstOne
  <2>6. k - 1 \in 0..Len(s) BY <1>1, <2>3
  <2>7. /\ SubSeq(s, 1, k - 1) \in Seq(S) /\ Len(SubSeq(s, 1, k - 1)) = k - 1
        /\ \A i \in 1..(k - 1) : SubSeq(s, 1, k - 1)[i] = s[i]
    BY <2>6, Prefix
  <2>8. s[1] # c => k - 1 # 0 BY <2>3
  <2>9. s[1] # c => Before(s, c) # <<>> BY <2>5, <2>7, <2>8
  <2> QED BY <2>4, <2>5, <2>6, <2>7, <2>9, <1>1
<1> QED BY <1>2, <1>3

\* What has no c is kept, and the rest is cut where it has one.
LEMMA BeforeCat ==
  ASSUME NEW S, NEW p \in Seq(S), NEW q \in Seq(S), NEW c, ~Has(p, c)
  PROVE  Before(p \o q, c) = p \o Before(q, c)
<1>1. /\ p \o q \in Seq(S) /\ Len(p \o q) = Len(p) + Len(q) /\ Len(p) \in Nat /\ Len(q) \in Nat
      /\ \A i \in 1..(Len(p) + Len(q)) : (p \o q)[i] = IF i <= Len(p) THEN p[i] ELSE q[i - Len(p)]
  BY Cat
<1>2. CASE ~Has(q, c)
  <2>1. ~Has(p \o q, c) BY <1>2, HasCat
  <2> QED BY <1>2, <2>1 DEF Before
<1>3. CASE Has(q, c)
  <2> DEFINE T == {i \in 1..Len(q) : q[i] = c}
  <2>1. T \in SUBSET (1..Len(q)) /\ T # {} BY <1>3 DEF Has
  <2>2. PICK k \in T : \A j \in T : k <= j BY <1>1, <2>1, Least
  <2>3. k \in 1..Len(q) /\ q[k] = c BY <2>2
  <2>4. \A j \in 1..(k - 1) : q[j] # c
    <3> SUFFICES ASSUME NEW j \in 1..(k - 1), q[j] = c PROVE FALSE OBVIOUS
    <3>1. j \in 1..Len(q) /\ ~(k <= j) BY <1>1, <2>3
    <3>2. k <= j BY <2>2, <3>1
    <3> QED BY <3>1, <3>2
  <2>5. Before(q, c) = SubSeq(q, 1, k - 1)
    <3> HIDE DEF T
    <3> QED BY <2>3, <2>4, FirstOne, SMTT(30)
  <2> DEFINE m == Len(p) + k
  <2>6. m \in 1..Len(p \o q) /\ (p \o q)[m] = c
    <3>1. m \in 1..(Len(p) + Len(q)) /\ ~(m <= Len(p)) /\ m - Len(p) = k BY <1>1, <2>3
    <3> QED BY <1>1, <2>3, <3>1
  <2>7. ASSUME NEW j \in 1..(m - 1) PROVE (p \o q)[j] # c
    <3>1. j \in 1..(Len(p) + Len(q)) BY <1>1, <2>3
    <3>2. CASE j <= Len(p)
      <4>1. j \in 1..Len(p) BY <3>2, <1>1
      <4> QED BY <1>1, <3>1, <3>2, <4>1 DEF Has
    <3>3. CASE ~(j <= Len(p))
      <4>1. j - Len(p) \in 1..(k - 1) BY <1>1, <2>3, <3>3
      <4> QED BY <1>1, <2>4, <3>1, <3>3, <4>1
    <3> QED BY <3>2, <3>3
  <2>8. Before(p \o q, c) = SubSeq(p \o q, 1, m - 1) BY <1>1, <2>6, <2>7, FirstOne
  <2>9. Cut(p \o q, m - 1) = p \o Cut(q, k - 1)
    <3>1. m - 1 \in Nat /\ Len(p) <= m - 1 /\ m - 1 - Len(p) = k - 1 BY <1>1, <2>3
    <3> HIDE DEF m
    <3> QED BY <3>1, CutCat
  <2>10. Cut(p \o q, m - 1) = SubSeq(p \o q, 1, m - 1) /\ Cut(q, k - 1) = SubSeq(q, 1, k - 1)
    BY <1>1, <2>3 DEF Cut
  <2> QED BY <2>5, <2>8, <2>9, <2>10
<1> QED BY <1>2, <1>3

\* Nothing is left before a c.
LEMMA BeforeStop ==
  ASSUME NEW S, NEW p \in Seq(S), NEW q \in Seq(S), NEW c \in S, ~Has(p, c)
  PROVE  Before(p \o (<<c>> \o q), c) = p
<1>1. <<c>> \in Seq(S) /\ <<c>> \o q \in Seq(S) OBVIOUS
<1>2. Before(p \o (<<c>> \o q), c) = p \o Before(<<c>> \o q, c)
  <2> DEFINE t == <<c>> \o q
  <2>1. t \in Seq(S) BY <1>1
  <2> HIDE DEF t
  <2>2. Before(p \o t, c) = p \o Before(t, c) BY <2>1, BeforeCat
  <2> QED BY <2>2 DEF t
<1>3. Before(<<c>> \o q, c) = <<>>
  <2> DEFINE s == <<c>> \o q
  <2>1. s \in Seq(S) /\ 1 \in 1..Len(s) /\ s[1] = c BY <1>1
  <2> HIDE DEF s
  <2>2. \A j \in 1..(1 - 1) : s[j] # c OBVIOUS
  <2>3. Before(s, c) = SubSeq(s, 1, 1 - 1) BY <2>1, <2>2, FirstOne
  <2>4. SubSeq(s, 1, 1 - 1) = <<>> BY SubSeqEmpty
  <2> QED BY <2>3, <2>4 DEF s
<1> QED BY <1>2, <1>3, ConcatEmptySeq

-----------------------------------------------------------------------------
(* The first two pieces of a string. *)

\* The places where pieces begin are finitely many, and every piece has one.
LEMMA StartsType ==
  ASSUME NEW S, NEW s \in Seq(S), NEW c
  PROVE  /\ Starts(s, c) \in SUBSET (1..Len(s)) /\ Len(s) \in Nat
         /\ IsFiniteSet(Starts(s, c)) /\ Cardinality(Starts(s, c)) \in Nat
         /\ Len(Split(s, c)) = Cardinality(Starts(s, c))
         /\ Split(s, c) = <<>> <=> Starts(s, c) = {}
<1> DEFINE T == Starts(s, c)
           n == Cardinality(T)
<1>1. T \in SUBSET (1..Len(s)) /\ Len(s) \in Nat BY LenProperties DEF Starts
<1>2. IsFiniteSet(1..Len(s)) BY <1>1, FS_Interval
<1>3. IsFiniteSet(T) BY <1>1, <1>2, FS_Subset
<1>4. n \in Nat /\ (n = 0 <=> T = {}) BY <1>3, FS_CardinalityType, FS_EmptySet
<1> DEFINE f(k) == LET i == CHOOSE i \in T : Cardinality({j \in T : j <= i}) = k
                   IN  Before(SubSeq(s, i, Len(s)), c)
<1>5. Split(s, c) = [k \in 1..n |-> f(k)] BY DEF Split
<1> HIDE DEF T, n, f
<1>6. [k \in 1..n |-> f(k)] \in Seq({f(k) : k \in 1..n}) /\ Len([k \in 1..n |-> f(k)]) = n BY <1>4
<1>7. [k \in 1..n |-> f(k)] = <<>> <=> n = 0
  <2> DEFINE g == [k \in 1..n |-> f(k)]
  <2>1. g \in Seq({f(k) : k \in 1..n}) /\ Len(g) = n BY <1>6
  <2> HIDE DEF g
  <2>2. g = <<>> <=> Len(g) = 0 BY <2>1, EmptySeq
  <2> QED BY <2>1, <2>2 DEF g
<1> QED BY <1>1, <1>3, <1>4, <1>5, <1>6, <1>7 DEF T, n

\* The first piece begins where the first character that is not a c is.
LEMMA FirstPiece ==
  ASSUME NEW S, NEW s \in Seq(S), NEW c, NEW i \in Starts(s, c), \A j \in Starts(s, c) : i <= j
  PROVE  /\ Len(Split(s, c)) >= 1
         /\ Split(s, c)[1] = Before(SubSeq(s, i, Len(s)), c)
<1> DEFINE T == Starts(s, c)
           U(x) == {j \in T : j <= x}
<1>1. T \in SUBSET Nat /\ IsFiniteSet(T) /\ Cardinality(T) \in Nat /\ T # {} BY StartsType
<1>2. Cardinality(T) # 0 BY <1>1, FS_EmptySet
<1>3. U(i) = {i} BY <1>1
<1>4. Cardinality(U(i)) = 1 BY <1>3, FS_Singleton
<1>5. ASSUME NEW x \in T, Cardinality(U(x)) = 1 PROVE x = i
  <2>1. U(x) \in SUBSET T /\ x \in U(x) /\ i \in U(x) BY <1>1
  <2>2. IsFiniteSet(U(x)) BY <1>1, <2>1, FS_Subset
  <2>3. PICK y : U(x) = {y} BY <1>5, <2>2, FS_Singleton
  <2> QED BY <2>1, <2>3
<1>6. (CHOOSE x \in T : Cardinality(U(x)) = 1) = i BY <1>4, <1>5
<1>7. 1 \in 1..Cardinality(T) BY <1>1, <1>2
<1>8. Split(s, c)[1] = Before(SubSeq(s, CHOOSE x \in T : Cardinality(U(x)) = 1, Len(s)), c)
  BY <1>7 DEF Split
<1>9. Len(Split(s, c)) = Cardinality(T) BY StartsType
<1>10. Split(s, c)[1] = Before(SubSeq(s, i, Len(s)), c) BY <1>6, <1>8, Zenon
<1> QED BY <1>7, <1>9, <1>10

\* The second piece begins where the next one does.
LEMMA SecondPiece ==
  ASSUME NEW S, NEW s \in Seq(S), NEW c, NEW i \in Starts(s, c), NEW k \in Starts(s, c), i < k,
         \A j \in Starts(s, c) : j = i \/ k <= j
  PROVE  /\ Len(Split(s, c)) >= 2
         /\ Split(s, c)[2] = Before(SubSeq(s, k, Len(s)), c)
<1> DEFINE T == Starts(s, c)
           U(x) == {j \in T : j <= x}
<1>1. T \in SUBSET Nat /\ IsFiniteSet(T) /\ Cardinality(T) \in Nat BY StartsType
<1>2. IsFiniteSet({i}) /\ Cardinality({i}) = 1 BY FS_Singleton
<1>3. IsFiniteSet({i} \cup {k}) /\ Cardinality({i} \cup {k}) = 2
  <2>1. k \notin {i} BY <1>1
  <2>2. IsFiniteSet({i} \cup {k}) /\ Cardinality({i} \cup {k}) = Cardinality({i}) + 1
    BY <1>2, <2>1, FS_AddElement
  <2> DEFINE pair == {i} \cup {k}
  <2>3. Cardinality(pair) = 1 + 1 BY <1>2, <2>2, Zenon
  <2>4. IsFiniteSet(pair) BY <2>2
  <2> HIDE DEF pair
  <2>5. Cardinality(pair) = 2 BY <2>3
  <2> QED BY <2>4, <2>5 DEF pair
<1>4. U(k) = {i} \cup {k} BY <1>1
<1>5. Cardinality(U(k)) = 2 BY <1>3, <1>4
<1>6. ASSUME NEW x \in T, Cardinality(U(x)) = 2 PROVE x = k
  <2>1. IsFiniteSet(U(x)) BY <1>1, FS_Subset
  <2>2. x # i
    <3>1. U(i) = {i} BY <1>1
    <3>2. Cardinality(U(i)) = 1 BY <1>2, <3>1
    <3>3. Cardinality(U(i)) # 2 BY <3>2
    <3> QED BY <1>6, <3>3, Zenon
  <2>3. k <= x /\ {i} \cup {k} \in SUBSET U(x) BY <1>1, <2>2
  <2>4. U(x) = {i} \cup {k} BY <1>3, <1>6, <2>1, <2>3, FS_Subset
  <2>5. x \in U(x) BY <1>1
  <2> QED BY <2>2, <2>4, <2>5
<1>7. (CHOOSE x \in T : Cardinality(U(x)) = 2) = k BY <1>5, <1>6
<1>8. Cardinality(T) >= 2
  <2>1. {i} \cup {k} \in SUBSET T OBVIOUS
  <2> QED BY <1>1, <1>3, <2>1, FS_Subset
<1>9. 2 \in 1..Cardinality(T) BY <1>1, <1>8
<1>10. Split(s, c)[2] = Before(SubSeq(s, CHOOSE x \in T : Cardinality(U(x)) = 2, Len(s)), c)
  BY <1>9 DEF Split
<1>11. Len(Split(s, c)) = Cardinality(T) BY StartsType
<1> QED BY <1>7, <1>8, <1>10, <1>11

\* A single piece.
LEMMA OnePiece ==
  ASSUME NEW S, NEW s \in Seq(S), NEW c, NEW i, Starts(s, c) = {i}
  PROVE  Len(Split(s, c)) = 1 /\ Split(s, c)[1] = Before(SubSeq(s, i, Len(s)), c)
<1>1. i \in Starts(s, c) /\ i \in Nat BY StartsType
<1>2. \A j \in Starts(s, c) : i <= j BY <1>1
<1> QED BY <1>1, <1>2, StartsType, FirstPiece, FS_Singleton

\* A string without pieces is nothing but c's.
LEMMA NoPieces ==
  ASSUME NEW S, NEW s \in Seq(S), NEW c, Split(s, c) = <<>>
  PROVE  \A i \in 1..Len(s) : s[i] = c
<1>1. Starts(s, c) = {} /\ Len(s) \in Nat BY StartsType
<1> DEFINE T == {i \in 1..Len(s) : s[i] # c}
<1> SUFFICES ASSUME T # {} PROVE FALSE OBVIOUS
<1>2. PICK k \in T : \A j \in T : k <= j BY <1>1, Least
<1>3. k \in 1..Len(s) /\ s[k] # c /\ (k > 1 => s[k - 1] = c) BY <1>1, <1>2
<1>4. k \in Starts(s, c) BY <1>3 DEF Starts
<1> QED BY <1>1, <1>4

\* A second word is a string without the separator, and not empty.
LEMMA SecondWord ==
  ASSUME NEW S, NEW s \in Seq(S), NEW c, Split(s, c) # <<>>, Len(Split(s, c)) # 1
  PROVE  Split(s, c)[2] \in Seq(S) \ {<<>>}
<1> DEFINE T == Starts(s, c)
<1>1. /\ T \in SUBSET (1..Len(s)) /\ Len(s) \in Nat /\ T # {} /\ IsFiniteSet(T)
      /\ Cardinality(T) # 1
  BY StartsType
<1>2. PICK i \in T : \A j \in T : i <= j BY <1>1, Least
<1>3. T # {i} BY <1>1, FS_Singleton
<1> DEFINE R == T \ {i}
<1>4. R \in SUBSET (1..Len(s)) /\ R # {} BY <1>1, <1>2, <1>3
<1>5. PICK k \in R : \A j \in R : k <= j BY <1>1, <1>4, Least
<1>6. k \in T /\ i < k /\ \A j \in T : j = i \/ k <= j BY <1>1, <1>2, <1>5
<1>7. Split(s, c)[2] = Before(SubSeq(s, k, Len(s)), c) BY <1>2, <1>6, SecondPiece
<1>8. k \in 1..Len(s) /\ s[k] # c BY <1>6 DEF Starts
<1>9. k \in 1..(Len(s) + 1) /\ Len(s) \in 0..Len(s) /\ 1 \in 1..(Len(s) - k + 1) /\ k + 1 - 1 = k
  BY <1>1, <1>8
<1> DEFINE p == SubSeq(s, k, Len(s))
<1>10. p \in Seq(S) /\ Len(p) > 0 /\ p[1] = s[k]
  <2>1. /\ p \in Seq(S) /\ Len(p) = IF k <= Len(s) THEN Len(s) - k + 1 ELSE 0
        /\ \A j \in 1..(Len(s) - k + 1) : p[j] = s[k + j - 1]
    BY <1>9, Piece
  <2> HIDE DEF p
  <2> QED BY <1>1, <1>8, <1>9, <2>1
<1> HIDE DEF p
<1>11. Before(p, c) \in Seq(S) /\ Before(p, c) # <<>> BY <1>8, <1>10, BeforeType
<1> QED BY <1>7, <1>11 DEF p

\* The characters of two strings with one between them.
LEMMA Joined ==
  ASSUME NEW S, NEW p \in Seq(S), NEW n \in Seq(S), NEW c \in S
  PROVE  LET s == p \o (<<c>> \o n)
         IN  /\ s \in Seq(S) /\ Len(s) = Len(p) + 1 + Len(n) /\ Len(p) \in Nat /\ Len(n) \in Nat
             /\ \A i \in 1..Len(p) : s[i] = p[i]
             /\ s[Len(p) + 1] = c
             /\ \A i \in 1..Len(n) : s[Len(p) + 1 + i] = n[i]
<1> DEFINE t == <<c>> \o n
           s == p \o t
<1>1. <<c>> \in Seq(S) /\ Len(<<c>>) = 1 /\ <<c>>[1] = c OBVIOUS
<1>2. /\ t \in Seq(S) /\ Len(t) = 1 + Len(n) /\ Len(n) \in Nat
      /\ \A i \in 1..(1 + Len(n)) : t[i] = IF i <= 1 THEN <<c>>[i] ELSE n[i - 1]
  BY <1>1, Cat
<1> HIDE DEF t
<1>3. /\ s \in Seq(S) /\ Len(s) = Len(p) + Len(t) /\ Len(p) \in Nat
      /\ \A i \in 1..(Len(p) + Len(t)) : s[i] = IF i <= Len(p) THEN p[i] ELSE t[i - Len(p)]
  BY <1>2, Cat
<1> HIDE DEF s
<1>4. ASSUME NEW i \in 1..Len(p) PROVE s[i] = p[i]
  <2>1. i \in 1..(Len(p) + Len(t)) /\ i <= Len(p) BY <1>2, <1>3
  <2> QED BY <1>3, <2>1
<1>5. s[Len(p) + 1] = c
  <2>1. Len(p) + 1 \in 1..(Len(p) + Len(t)) /\ ~(Len(p) + 1 <= Len(p)) /\ Len(p) + 1 - Len(p) = 1
    BY <1>2, <1>3
  <2>2. s[Len(p) + 1] = t[1] BY <1>3, <2>1
  <2>3. 1 \in 1..(1 + Len(n)) BY <1>2
  <2> QED BY <1>1, <1>2, <2>2, <2>3
<1>6. ASSUME NEW i \in 1..Len(n) PROVE s[Len(p) + 1 + i] = n[i]
  <2>1. /\ Len(p) + 1 + i \in 1..(Len(p) + Len(t)) /\ ~(Len(p) + 1 + i <= Len(p))
        /\ Len(p) + 1 + i - Len(p) = i + 1 /\ i + 1 \in 1..(1 + Len(n)) /\ ~(i + 1 <= 1) /\ i + 1 - 1 = i
    BY <1>2, <1>3
  <2>2. s[Len(p) + 1 + i] = t[i + 1] BY <1>3, <2>1
  <2>3. t[i + 1] = n[i] BY <1>2, <2>1
  <2> QED BY <2>2, <2>3
<1>7. Len(s) = Len(p) + 1 + Len(n) BY <1>2, <1>3
<1> QED BY <1>2, <1>3, <1>4, <1>5, <1>6, <1>7 DEF s, t

\* A string without the separator is its only piece.
LEMMA Alone ==
  ASSUME NEW S, NEW p \in Seq(S), p # <<>>, NEW c, ~Has(p, c)
  PROVE  Len(Split(p, c)) = 1 /\ Split(p, c)[1] = p
<1>1. Len(p) \in Nat /\ Len(p) # 0 BY LenProperties, EmptySeq
<1>2. \A i \in 1..Len(p) : p[i] # c BY DEF Has
<1>3. Starts(p, c) = {1} BY <1>1, <1>2 DEF Starts
<1>4. Len(Split(p, c)) = 1 /\ Split(p, c)[1] = Before(SubSeq(p, 1, Len(p)), c) BY <1>3, OnePiece
<1>5. SubSeq(p, 1, Len(p)) = p BY SubSeqFull
<1> QED BY <1>4, <1>5 DEF Before

\* The pieces of s are p, and then, when n has anything but c's, its first piece.
LedBy(S, p, c, n, s) ==
  LET v == Split(s, c)
  IN  /\ Len(v) >= 1 /\ v[1] = p
      /\ (\A i \in 1..Len(n) : n[i] = c) => Len(v) = 1
      /\ (\E i \in 1..Len(n) : n[i] # c) =>
           /\ Len(v) >= 2 /\ v[2] \in Seq(S) \ {<<>>}
           /\ n[1] # c => v[2] = Before(n, c)

\* The pieces of a word, a separator and a name.
LEMMA Leading ==
  ASSUME NEW S, NEW p \in Seq(S), p # <<>>, NEW c \in S, ~Has(p, c), NEW n \in Seq(S)
  PROVE  LedBy(S, p, c, n, p \o (<<c>> \o n))
<1> DEFINE s == p \o (<<c>> \o n)
           T == Starts(s, c)
           v == Split(s, c)
<1>1. /\ s \in Seq(S) /\ Len(s) = Len(p) + 1 + Len(n) /\ Len(p) \in Nat /\ Len(n) \in Nat
      /\ \A i \in 1..Len(p) : s[i] = p[i]
      /\ s[Len(p) + 1] = c
      /\ \A i \in 1..Len(n) : s[Len(p) + 1 + i] = n[i]
  BY Joined
<1>2. Before(s, c) = p BY BeforeStop
<1> HIDE DEF s
<1>3. Len(p) # 0 BY EmptySeq
<1>4. \A i \in 1..Len(p) : p[i] # c BY DEF Has
<1>5. T = {i \in 1..Len(s) : s[i] # c /\ (i > 1 => s[i - 1] = c)} BY DEF Starts
<1> HIDE DEF T
<1>6. 1 \in T
  <2>1. 1 \in 1..Len(p) /\ 1 \in 1..Len(s) /\ ~(1 > 1) BY <1>1, <1>3
  <2>2. s[1] # c BY <1>1, <1>4, <2>1
  <2> QED BY <1>5, <2>1, <2>2
<1>7. \A j \in T : 1 <= j BY <1>5
<1>8. SubSeq(s, 1, Len(s)) = s BY <1>1, SubSeqFull
<1>9. Len(v) >= 1 /\ v[1] = p
  <2>1. Len(v) >= 1 /\ v[1] = Before(SubSeq(s, 1, Len(s)), c) BY <1>1, <1>6, <1>7, FirstPiece DEF T
  <2> QED BY <1>2, <1>8, <2>1
<1>10. ASSUME NEW j \in T, j # 1
       PROVE  j - Len(p) - 1 \in 1..Len(n) /\ n[j - Len(p) - 1] # c
  <2>1. j \in 1..Len(s) /\ s[j] # c /\ j > 1 /\ s[j - 1] = c BY <1>5, <1>10
  <2>2. ~(j <= Len(p))
    <3> SUFFICES ASSUME j <= Len(p) PROVE FALSE OBVIOUS
    <3>1. j - 1 \in 1..Len(p) BY <1>1, <2>1
    <3> QED BY <1>1, <1>4, <2>1, <3>1
  <2>3. j # Len(p) + 1 BY <1>1, <2>1
  <2>4. j - Len(p) - 1 \in 1..Len(n) /\ Len(p) + 1 + (j - Len(p) - 1) = j BY <1>1, <2>1, <2>2, <2>3
  <2> QED BY <1>1, <2>1, <2>4
<1>11. ASSUME \A i \in 1..Len(n) : n[i] = c PROVE Len(v) = 1
  <2>1. T = {1} BY <1>6, <1>10, <1>11
  <2> QED BY <1>1, <2>1, OnePiece DEF T
<1>12. ASSUME \E i \in 1..Len(n) : n[i] # c
       PROVE  Len(v) >= 2 /\ v[2] \in Seq(S) \ {<<>>} /\ (n[1] # c => v[2] = Before(n, c))
  <2> DEFINE R == {i \in 1..Len(n) : n[i] # c}
  <2>1. R \in SUBSET (1..Len(n)) /\ R # {} BY <1>12
  <2>2. PICK k \in R : \A j \in R : k <= j BY <1>1, <2>1, Least
  <2>3. k \in 1..Len(n) /\ n[k] # c BY <2>2
  <2> DEFINE m == Len(p) + k
             w == SubSeq(s, m + 1, Len(s))
  <2>4. m + 1 \in 1..Len(s) /\ m \in 0..Len(s) /\ m + 1 = Len(p) + 1 + k /\ m \in Nat /\ m >= 1
    BY <1>1, <1>3, <2>3
  <2>5. s[m + 1] = n[k] BY <1>1, <2>3, <2>4
  <2>6. s[m] = c
    <3>1. CASE k = 1 BY <1>1, <3>1
    <3>2. CASE k # 1
      <4>1. k - 1 \in 1..Len(n) /\ ~(k <= k - 1) BY <1>1, <2>3, <3>2
      <4>2. n[k - 1] = c BY <2>2, <4>1
      <4>3. Len(p) + 1 + (k - 1) = m BY <1>1, <2>3
      <4> QED BY <1>1, <4>1, <4>2, <4>3
    <3> QED BY <3>1, <3>2
  <2>7. m + 1 \in T
    <3>1. m + 1 - 1 = m BY <2>4
    <3> QED BY <1>5, <2>3, <2>4, <2>5, <2>6, <3>1
  <2>8. ASSUME NEW j \in T PROVE j = 1 \/ m + 1 <= j
    <3> SUFFICES ASSUME j # 1 PROVE m + 1 <= j OBVIOUS
    <3>1. j - Len(p) - 1 \in R BY <1>10
    <3>2. k <= j - Len(p) - 1 /\ j \in Nat BY <1>5, <2>2, <3>1
    <3> QED BY <1>1, <2>3, <2>4, <3>2
  <2>9. 1 < m + 1 BY <2>4
  <2>10. /\ w \in Seq(S) /\ Len(w) = Len(s) - m
         /\ \A i \in 1..(Len(s) - m) : w[i] = s[m + i]
    <3> HIDE DEF m
    <3>1. s \in Seq(S) BY <1>1
    <3>2. m \in 0..Len(s) BY <2>4
    <3> QED BY <3>1, <3>2, Suffix
  <2> HIDE DEF m, w
  <2>11. Len(v) >= 2 /\ v[2] = Before(w, c)
    <3>1. /\ 1 \in Starts(s, c) /\ m + 1 \in Starts(s, c)
          /\ \A j \in Starts(s, c) : j = 1 \/ m + 1 <= j
      BY <1>6, <2>7, <2>8, Zenon DEF T
    <3>2. Len(v) >= 2 /\ v[2] = Before(SubSeq(s, m + 1, Len(s)), c)
      <4>1. s \in Seq(S) BY <1>1
      <4> QED BY <2>9, <3>1, <4>1, SecondPiece
    <3> QED BY <3>2 DEF w
  <2>12. 1 \in 1..(Len(s) - m) /\ Len(w) > 0 BY <1>1, <2>4, <2>10
  <2>13. w[1] # c BY <2>3, <2>5, <2>10, <2>12
  <2>14. v[2] \in Seq(S) \ {<<>>} BY <2>10, <2>11, <2>12, <2>13, BeforeType
  <2>15. ASSUME n[1] # c PROVE w = n
    <3>1. 1 \in R BY <1>1, <2>3, <2>15
    <3>2. k = 1 BY <2>2, <2>3, <3>1
    <3>3. Len(s) - m = Len(n) /\ m = Len(p) + 1 BY <1>1, <3>2 DEF m
    <3>4. \A i \in 1..Len(n) : w[i] = n[i] BY <1>1, <2>10, <3>3
    <3> QED BY <2>10, <3>3, <3>4, Same
  <2> QED BY <2>11, <2>14, <2>15
<1> QED BY <1>9, <1>11, <1>12 DEF s, LedBy

-----------------------------------------------------------------------------
(* What arrives. *)

\* What the client sends: a command with the argument that it needs.
Call(r) ==
  /\ r.cmd \in Commands /\ r.name \in Seq(Char \ {NL})
  /\ r.cmd \in Transfers => r.name # <<>>

\* How the name of r may reach the handler.
Heard(r, name) ==
  /\ ~Has(r.name, Colon) =>
       /\ Cut(name, Room(r.cmd)) = Cut(r.name, Room(r.cmd))
       /\ Fits(r) => name = r.name
  /\ name = <<>> => \A i \in 1..Len(Cut(r.name, Room(r.cmd))) : r.name[i] = Colon

\* A code of g_com_str that leaves room for ':' and a character.
ShortCode(code) == code \in Seq(Plain) \ {<<>>} /\ Len(code) + 2 < MaxTn

\* How much of a name follows such a code.
RoomOf(code) == MaxTn - 1 - Len(code) - 1

\* The codes are strings without ':' and newline, and short.
LEMMA Codes ==
  /\ \A c \in Commands : ShortCode(Code[c]) /\ Room(c) = RoomOf(Code[c])
  /\ \A c \in Transfers : c \in Commands /\ ShortCode(Second[c])
BY CodeAssumption DEF ShortCode, Room, RoomOf, Transfers, Commands

\* What is known of the characters of a code, and of the room that it leaves.
LEMMA CodeType ==
  ASSUME NEW code, ShortCode(code)
  PROVE  /\ code \in Seq(Char) /\ code # <<>> /\ ~Has(code, Colon) /\ ~Has(code, NL)
         /\ Len(code) \in Nat /\ RoomOf(code) \in Nat /\ RoomOf(code) >= 1 /\ MaxTn \in Nat
<1>1. code \in Seq(Plain) /\ code # <<>> /\ Len(code) \in Nat BY LenProperties DEF ShortCode
<1>2. \A i \in 1..Len(code) : code[i] \in Plain BY <1>1, ElementOfSeq
<1>3. code \in Seq(Char) BY <1>1, <1>2 DEF Plain
<1>4. MaxTn \in Nat BY CodeAssumption
<1> QED BY <1>1, <1>2, <1>3, <1>4 DEF Has, Plain, ShortCode, RoomOf

\* A name of a line has no newline.
LEMMA NameType ==
  ASSUME NEW name \in Seq(Char \ {NL})
  PROVE  name \in Seq(Char) /\ ~Has(name, NL)
<1>1. \A i \in 1..Len(name) : name[i] \in Char \ {NL} BY ElementOfSeq
<1> QED BY <1>1 DEF Has

\* The separator and the newline are characters.
LEMMA Marks == /\ <<Colon>> \in Seq(Char) /\ <<NL>> \in Seq(Char) /\ Colon \in Char /\ NL \in Char
               /\ ~Has(<<Colon>>, NL)
BY CharAssumption DEF Has

\* What send_code makes of a code and a name.
LEMMA MessageShape ==
  ASSUME NEW code, ShortCode(code), NEW name \in Seq(Char \ {NL})
  PROVE  /\ Message(code, name) \in Seq(Char) /\ Len(Message(code, name)) < MaxTn
         /\ name = <<>> => Message(code, name) = code \o <<NL>>
         /\ name # <<>> => Message(code, name) =
                             code \o (<<Colon>> \o Cut(name \o <<NL>>, RoomOf(code)))
<1> DEFINE whole == (IF name = <<>> THEN code ELSE code \o <<Colon>> \o name) \o <<NL>>
           r == name \o <<NL>>
           d == <<Colon>> \o r
<1>1. /\ code \in Seq(Char) /\ Len(code) \in Nat /\ RoomOf(code) \in Nat /\ MaxTn \in Nat
      /\ Len(code) + 2 < MaxTn
  BY CodeType DEF ShortCode
<1>2. name \in Seq(Char) BY NameType
<1>3. <<Colon>> \in Seq(Char) /\ <<NL>> \in Seq(Char) /\ Len(<<Colon>>) = 1 /\ Len(<<NL>>) = 1 BY Marks
<1>4. r \in Seq(Char) BY <1>2, <1>3, Cat
<1>5. \A x, y, z \in Seq(Char) : (x \o y) \o z = x \o (y \o z) BY ConcatAssociative
<1>6. \A x, y \in Seq(Char) : x \o y \in Seq(Char) /\ Len(x \o y) = Len(x) + Len(y) BY Cat
<1>7. name # <<>> => whole = code \o d
  <2>1. code \o <<Colon>> \in Seq(Char) BY <1>1, <1>3, <1>6
  <2>2. ((code \o <<Colon>>) \o name) \o <<NL>> = (code \o <<Colon>>) \o r BY <1>2, <1>3, <1>5, <2>1
  <2> HIDE DEF r
  <2>3. (code \o <<Colon>>) \o r = code \o d BY <1>1, <1>3, <1>4, <1>5
  <2> QED BY <2>2, <2>3
<1>8. whole \in Seq(Char) /\ MaxTn - 1 \in Nat
  <2>1. (IF name = <<>> THEN code ELSE code \o <<Colon>> \o name) \in Seq(Char) BY <1>1, <1>2, <1>3, <1>6
  <2> QED BY <1>1, <1>3, <1>6, <2>1
<1>9. Message(code, name) = Cut(whole, MaxTn - 1) BY DEF Message
<1> HIDE DEF r
<1>10. d \in Seq(Char) BY <1>3, <1>4, <1>6
<1>11. Cut(code \o d, MaxTn - 1) = code \o Cut(d, MaxTn - 1 - Len(code))
  <2> HIDE DEF d
  <2>1. MaxTn - 1 \in Nat /\ Len(code) <= MaxTn - 1 BY <1>1, <1>8
  <2> QED BY <1>1, <1>10, <2>1, CutCat, Zenon
<1>12. Cut(d, MaxTn - 1 - Len(code)) = <<Colon>> \o Cut(r, RoomOf(code))
  <2>1. /\ MaxTn - 1 - Len(code) \in Nat /\ 1 <= MaxTn - 1 - Len(code)
        /\ MaxTn - 1 - Len(code) - 1 = RoomOf(code)
    BY <1>1 DEF RoomOf
  <2>2. ASSUME NEW k \in Nat, 1 <= k PROVE Cut(<<Colon>> \o r, k) = <<Colon>> \o Cut(r, k - 1)
    <3>1. Len(<<Colon>>) <= k BY <1>3, <2>2
    <3>2. Cut(<<Colon>> \o r, k) = <<Colon>> \o Cut(r, k - Len(<<Colon>>))
      BY <1>3, <1>4, <3>1, CutCat, Zenon
    <3> QED BY <1>3, <3>2
  <2> QED BY <2>1, <2>2
<1>13. name = <<>> => Message(code, name) = code \o <<NL>>
  <2>1. Len(code \o <<NL>>) <= MaxTn - 1 BY <1>1, <1>3, <1>6
  <2> QED BY <1>9, <2>1 DEF Cut
<1>14. /\ Message(code, name) \in Seq(Char) /\ Len(Message(code, name)) < MaxTn
  <2> HIDE DEF whole
  <2>1. Cut(whole, MaxTn - 1) \in Seq(Char) /\ Len(Cut(whole, MaxTn - 1)) <= MaxTn - 1
    BY <1>1, <1>8, CutType, LenProperties
  <2>2. Len(Cut(whole, MaxTn - 1)) \in Nat BY <2>1, LenProperties
  <2> QED BY <1>1, <1>9, <2>1, <2>2
<1>15. name # <<>> => Message(code, name) = code \o (<<Colon>> \o Cut(r, RoomOf(code)))
  BY <1>7, <1>9, <1>11, <1>12, Zenon
<1> QED BY <1>13, <1>14, <1>15 DEF r

\* Strings can be put together in either order.
Together(x, y, z) == (x \o y) \o z = x \o (y \o z)

LEMMA Associative == \A x, y, z \in Seq(Char) : Together(x, y, z)
BY ConcatAssociative DEF Together

\* A line that begins with the code, and goes on with the name as far as there is room.
ReadAs(code, name, line) ==
  /\ line \in Seq(Char)
  /\ name = <<>> => line = code
  /\ name # <<>> => \E y \in Seq(Char) :
       /\ line = code \o (<<Colon>> \o (Cut(name, RoomOf(code)) \o y))
       /\ Len(name) < RoomOf(code) => y = <<>>

\* What the thread reads: the code, and of the name as much as there is room for,
\* which is followed by something else only when it fills the message.
LEMMA LineRead ==
  ASSUME NEW code, ShortCode(code), NEW name \in Seq(Char \ {NL}),
         NEW tail \in Seq(Char \cup {Nul}), NEW behind \in Seq(Char)
  PROVE  LET text == AsString(Message(code, name) \o tail, behind)
             line == UpToNewline(text)
         IN  text \in Seq(Char) /\ ReadAs(code, name, line)
<1> DEFINE w == Message(code, name)
           room == RoomOf(code)
           m == Cut(name, room)
           text == AsString(w \o tail, behind)
           line == UpToNewline(text)
<1>1. /\ code \in Seq(Char) /\ code # <<>> /\ ~Has(code, NL) /\ room \in Nat
  BY CodeType
<1>2. name \in Seq(Char) /\ ~Has(name, NL) BY NameType
<1>3. <<Colon>> \in Seq(Char) /\ <<NL>> \in Seq(Char) /\ NL \in Char /\ ~Has(<<Colon>>, NL) BY Marks
<1>4. \A x, y, z \in Seq(Char) : (x \o y) \o z = x \o (y \o z) BY Associative DEF Together
<1>5. \A x, y \in Seq(Char) : x \o y \in Seq(Char) BY Cat
<1>6. w \in Seq(Char) BY MessageShape
<1>7. name = <<>> => w = code \o <<NL>> BY MessageShape
<1>8. name # <<>> => w = code \o (<<Colon>> \o Cut(name \o <<NL>>, room)) BY MessageShape
<1>9. m \in Seq(Char) BY <1>1, <1>2, CutType
<1> HIDE DEF w, room, m
<1>10. \E x \in Seq(Char) : text = w \o x
  <2> DEFINE Byte == Char \cup {Nul}
             b == w \o tail
  <2>1. w \in Seq(Byte) /\ tail \in Seq(Byte) BY <1>6
  <2>2. ~Has(w, Nul)
    <3>1. \A i \in 1..Len(w) : w[i] \in Char BY <1>6, ElementOfSeq
    <3> QED BY <3>1, CharAssumption DEF Has
  <2>3. ASSUME Has(b, Nul) PROVE \E x \in Seq(Char) : text = w \o x
    <3>1. text = Before(b, Nul) BY <2>3 DEF AsString
    <3>2. Before(b, Nul) = w \o Before(tail, Nul) BY <2>1, <2>2, BeforeCat
    <3>3. Before(tail, Nul) \in Seq(Char)
      <4> DEFINE t == Before(tail, Nul)
      <4>1. t \in Seq(Byte) /\ \A i \in 1..Len(t) : t[i] # Nul
        <5> HIDE DEF Byte
        <5>1. tail \in Seq(Byte) BY <2>1
        <5>2. t \in Seq(Byte) /\ \A i \in 1..Len(t) : t[i] = tail[i] /\ tail[i] # Nul
          BY <5>1, BeforeType
        <5> HIDE DEF t
        <5> QED BY <5>2
      <4> HIDE DEF t
      <4>2. \A i \in 1..Len(t) : t[i] \in Char BY <4>1, ElementOfSeq
      <4>3. t \in Seq(Char) BY <4>1, <4>2
      <4> QED BY <4>3 DEF t
    <3> QED BY <3>1, <3>2, <3>3
  <2>4. ASSUME ~Has(b, Nul) PROVE \E x \in Seq(Char) : text = w \o x
    <3>1. text = b \o behind BY <2>4 DEF AsString
    <3>2. tail \in Seq(Char)
      <4>1. ~Has(tail, Nul) BY <2>1, <2>4, HasCat
      <4>2. \A i \in 1..Len(tail) : tail[i] \in Char BY <2>1, <4>1, ElementOfSeq DEF Has
      <4> QED BY <2>1, <4>2
    <3>3. b \o behind = w \o (tail \o behind) BY <1>4, <1>6, <3>2, Zenon
    <3> QED BY <1>5, <3>1, <3>2, <3>3
  <2> QED BY <2>3, <2>4
<1>11. PICK x \in Seq(Char) : text = w \o x BY <1>10
<1>12. text \in Seq(Char) BY <1>5, <1>6, <1>11
<1> HIDE DEF text
<1>13. line = Before(text, NL) BY DEF UpToNewline
<1>14. line \in Seq(Char) BY <1>12, <1>13, BeforeType
<1>15. ASSUME name = <<>> PROVE line = code
  <2>1. text = code \o (<<NL>> \o x)
    <3>1. (code \o <<NL>>) \o x = code \o (<<NL>> \o x) BY <1>1, <1>3, <1>4, ConcatAssociative
    <3>2. w = code \o <<NL>> BY <1>7, <1>15
    <3> QED BY <1>11, <3>1, <3>2, Zenon
  <2> QED BY <1>1, <1>3, <1>13, <2>1, BeforeStop
<1>16. ASSUME name # <<>>, Len(name) < room
       PROVE  line = code \o (<<Colon>> \o (m \o <<>>))
  <2>1. m = name /\ m \o <<>> = m
    <3>1. Len(name) \in Nat BY <1>2, LenProperties
    <3>2. m = name BY <1>1, <1>16, <3>1 DEF Cut, m
    <3> QED BY <1>9, <3>2, ConcatEmptySeq
  <2>2. Cut(name \o <<NL>>, room) = name \o <<NL>>
    <3>1. Len(name \o <<NL>>) = Len(name) + 1 /\ Len(name) \in Nat BY <1>2, <1>3, Cat
    <3>2. Len(name \o <<NL>>) <= room BY <1>1, <1>16, <3>1
    <3> QED BY <3>2 DEF Cut
  <2> DEFINE d == <<Colon>> \o name
             body == code \o d
  <2>3. d \in Seq(Char) /\ ~Has(d, NL) BY <1>2, <1>3, <1>5, HasCat
  <2>4. <<Colon>> \o (name \o <<NL>>) = d \o <<NL>> BY <1>2, <1>3, <1>4
  <2> HIDE DEF d
  <2>5. body \in Seq(Char) /\ ~Has(body, NL) BY <1>1, <1>5, <2>3, HasCat
  <2>6. code \o (d \o <<NL>>) = body \o <<NL>> BY <1>1, <1>3, <1>4, <2>3
  <2> HIDE DEF body
  <2>7. w = body \o <<NL>> BY <1>8, <1>16, <2>2, <2>4, <2>6, Zenon
  <2>8. text = body \o (<<NL>> \o x) BY <1>3, <1>4, <1>11, <2>5, <2>7
  <2>9. line = body BY <1>3, <1>13, <2>5, <2>8, BeforeStop
  <2> QED BY <2>1, <2>9 DEF body, d
<1>17. ASSUME name # <<>>, ~(Len(name) < room)
       PROVE  \E y \in Seq(Char) : line = code \o (<<Colon>> \o (m \o y))
  <2>1. Cut(name \o <<NL>>, room) = m
    <3>1. Len(name \o <<NL>>) = Len(name) + 1 /\ Len(name) \in Nat BY <1>2, <1>3, Cat
    <3>2. ~(Len(name \o <<NL>>) <= room) /\ room \in 0..Len(name) BY <1>1, <1>17, <3>1
    <3>3. SubSeq(name \o <<NL>>, 1, room) = SubSeq(name, 1, room) BY <1>2, <1>3, <3>2, FrontOfCat
    <3>4. m = SubSeq(name, 1, room)
      <4>1. CASE Len(name) <= room
        <5>1. Len(name) = room BY <1>1, <1>17, <3>1, <4>1
        <5> QED BY <1>2, <4>1, <5>1, SubSeqFull DEF Cut, m
      <4>2. CASE ~(Len(name) <= room) BY <4>2 DEF Cut, m
      <4> QED BY <4>1, <4>2
    <3> QED BY <3>2, <3>3, <3>4 DEF Cut
  <2>2. ~Has(m, NL)
    <3>1. /\ Len(m) = IF Len(name) <= room THEN Len(name) ELSE room
          /\ \A i \in 1..Len(m) : m[i] = name[i]
      BY <1>1, <1>2, CutType DEF m
    <3>2. Len(name) \in Nat BY <1>2, LenProperties
    <3>3. \A i \in 1..Len(m) : i \in 1..Len(name) BY <1>1, <3>1, <3>2
    <3> QED BY <1>2, <3>1, <3>3 DEF Has
  <2> DEFINE d == <<Colon>> \o m
             y == Before(x, NL)
  <2>3. d \in Seq(Char) /\ ~Has(d, NL) BY <1>3, <1>5, <1>9, <2>2, HasCat
  <2>4. y \in Seq(Char) BY BeforeType
  <2>5. w = code \o d BY <1>8, <1>17, <2>1, Zenon
  <2>6. ~Has(w, NL)
    <3> HIDE DEF d
    <3> QED BY <1>1, <2>3, <2>5, HasCat
  <2>7. line = w \o y BY <1>6, <1>11, <1>13, <2>6, BeforeCat
  <2> HIDE DEF y
  <2>8. d \o y = <<Colon>> \o (m \o y) BY <1>3, <1>4, <1>9, <2>4
  <2> HIDE DEF d
  <2>9. (code \o d) \o y = code \o (d \o y)
    <3>1. Together(code, d, y) BY <1>1, <2>3, <2>4, Associative
    <3> QED BY <3>1 DEF Together
  <2> QED BY <2>4, <2>5, <2>7, <2>8, <2>9
<1>18. <<>> \in Seq(Char) OBVIOUS
<1> HIDE DEF line
<1>19. name # <<>> => \E y \in Seq(Char) :
         /\ line = code \o (<<Colon>> \o (m \o y))
         /\ Len(name) < room => y = <<>>
  BY <1>16, <1>17, <1>18, Zenon
<1> QED BY <1>12, <1>14, <1>15, <1>19 DEF ReadAs, line, text, w, room, m

\* When the name and its newline fit, the line ends within the message.
LEMMA LineShort ==
  ASSUME NEW code, ShortCode(code), NEW name \in Seq(Char), NEW line, ReadAs(code, name, line),
         Len(name) < RoomOf(code)
  PROVE  Len(line) \in Nat /\ Len(line) + 1 < MaxTn
<1>1. /\ code \in Seq(Char) /\ Len(code) \in Nat /\ MaxTn \in Nat /\ Len(code) + 2 < MaxTn
      /\ RoomOf(code) = MaxTn - 1 - Len(code) - 1
  BY CodeType DEF ShortCode, RoomOf
<1>2. CASE name = <<>>
  <2>1. line = code BY <1>2 DEF ReadAs
  <2> QED BY <1>1, <2>1
<1>3. CASE name # <<>>
  <2>1. PICK y \in Seq(Char) : /\ line = code \o (<<Colon>> \o (Cut(name, RoomOf(code)) \o y))
                               /\ Len(name) < RoomOf(code) => y = <<>>
    BY <1>3 DEF ReadAs
  <2>2. Len(name) \in Nat BY LenProperties
  <2>3. Cut(name, RoomOf(code)) = name BY <1>1, <2>2 DEF Cut
  <2>4. name \o <<>> = name BY ConcatEmptySeq
  <2>5. line = code \o (<<Colon>> \o name) BY <2>1, <2>3, <2>4
  <2>6. <<Colon>> \in Seq(Char) /\ Len(<<Colon>>) = 1 BY Marks
  <2>7. <<Colon>> \o name \in Seq(Char) /\ Len(<<Colon>> \o name) = 1 + Len(name)
    BY <2>6, Cat
  <2> DEFINE d == <<Colon>> \o name
  <2>8. d \in Seq(Char) /\ Len(d) = 1 + Len(name) BY <2>7
  <2> HIDE DEF d
  <2>9. Len(code \o d) = Len(code) + Len(d) BY <1>1, <2>8, Cat
  <2>10. line = code \o d BY <2>5 DEF d
  <2> QED BY <1>1, <2>2, <2>8, <2>9, <2>10
<1> QED BY <1>2, <1>3

-----------------------------------------------------------------------------
(* What handle_cmd of the server does with the line. *)

\* The empty string has no character.
LEMMA NoLength == Len(<<>>) = 0
OBVIOUS

\* The handler is that of the command, whatever is behind its name in the buffer.
LEMMA Dispatched ==
  ASSUME NEW r, Call(r), NEW tail \in Seq(Char \cup {Nul}), NEW behind \in Seq(Char)
  PROVE  \E name \in Seq(Char) :
           /\ Heard(r, name)
           /\ Dispatch(UpToNewline(AsString(Message(Code[r.cmd], r.name) \o tail, behind))) =
                {[cmd |-> r.cmd, name |-> name]}
<1> DEFINE code == Code[r.cmd]
           room == RoomOf(code)
           line == UpToNewline(AsString(Message(code, r.name) \o tail, behind))
           v == Split(line, Colon)
<1>1. /\ r.cmd \in Commands /\ ShortCode(code) /\ code = Code[r.cmd] /\ Room(r.cmd) = room
      /\ r.name \in Seq(Char \ {NL}) /\ r.name \in Seq(Char)
  <2>1. r.cmd \in Commands /\ r.name \in Seq(Char \ {NL}) BY DEF Call
  <2>2. r.name \in Seq(Char) BY <2>1, NameType
  <2>3. ShortCode(Code[r.cmd]) /\ Room(r.cmd) = RoomOf(Code[r.cmd]) BY <2>1, Codes, Zenon
  <2> QED BY <2>1, <2>2, <2>3
<1>2. code \in Seq(Char) /\ code # <<>> /\ ~Has(code, Colon) /\ room \in Nat /\ room >= 1
  BY <1>1, CodeType
<1> HIDE DEF code
<1>3. ReadAs(code, r.name, line) BY <1>1, LineRead
<1> HIDE DEF line, room
<1>4. ASSUME NEW nm, v[1] = code, Len(v) >= 1, v # <<>>,
             nm = IF Len(v) > 1 THEN v[2] ELSE <<>>
      PROVE  Dispatch(line) = {[cmd |-> r.cmd, name |-> nm]}
  <2> DEFINE D == {d \in Commands : v # <<>> /\ v[1] = Code[d]}
  <2>1. Dispatch(line) = {[cmd |-> c, name |-> nm] : c \in D} BY <1>4 DEF Dispatch
  <2> HIDE DEF v
  <2>2. \A d \in Commands : d # r.cmd => Code[d] # code BY <1>1, CodeAssumption
  <2>3. D = {r.cmd} BY <1>1, <1>4, <2>2
  <2> HIDE DEF D
  <2> QED BY <2>1, <2>3
<1>5. Colon \in Char BY Marks
<1>6. Len(r.name) \in Nat BY <1>1, LenProperties
<1>7. CASE r.name = <<>>
  <2>1. line = code BY <1>3, <1>7 DEF ReadAs
  <2>2. Len(v) = 1 /\ v[1] = code BY <1>2, <2>1, Alone
  <2> HIDE DEF v
  <2>3. v # <<>>
    <3> SUFFICES ASSUME v = <<>> PROVE FALSE OBVIOUS
    <3>1. Len(v) = 0 BY NoLength, Zenon
    <3> QED BY <2>2, <3>1
  <2>4. Dispatch(line) = {[cmd |-> r.cmd, name |-> <<>>]} BY <1>4, <2>2, <2>3
  <2>5. Heard(r, <<>>)
    <3>1. Len(Cut(r.name, room)) = 0 BY <1>2, <1>7, NoLength DEF Cut
    <3>2. ~(\E i \in 1..0 : TRUE) OBVIOUS
    <3>3. \A i \in 1..Len(Cut(r.name, Room(r.cmd))) : r.name[i] = Colon BY <1>1, <3>1, <3>2
    <3> QED BY <1>7, <3>3 DEF Heard
  <2>6. <<>> \in Seq(Char) OBVIOUS
  <2> QED BY <2>4, <2>5, <2>6 DEF line, code
<1>8. CASE r.name # <<>>
  <2> DEFINE m == Cut(r.name, room)
  <2>1. PICK y \in Seq(Char) : /\ line = code \o (<<Colon>> \o (m \o y))
                               /\ Len(r.name) < room => y = <<>>
    BY <1>3, <1>8 DEF ReadAs, room
  <2>2. /\ m \in Seq(Char) /\ Len(m) = IF Len(r.name) <= room THEN Len(r.name) ELSE room
        /\ \A i \in 1..Len(m) : m[i] = r.name[i]
    BY <1>1, <1>2, CutType
  <2>3. Len(r.name) # 0 BY <1>1, <1>8, EmptySeq
  <2>4. Len(m) \in Nat /\ Len(m) >= 1 /\ 1 \in 1..Len(m) BY <1>2, <1>6, <2>2, <2>3
  <2> HIDE DEF m
  <2> DEFINE n == m \o y
  <2>5. /\ n \in Seq(Char) /\ Len(n) = Len(m) + Len(y) /\ Len(y) \in Nat
        /\ \A i \in 1..(Len(m) + Len(y)) : n[i] = IF i <= Len(m) THEN m[i] ELSE y[i - Len(m)]
    BY <2>1, <2>2, Cat
  <2>6. \A i \in 1..Len(m) : i \in 1..Len(n) /\ n[i] = r.name[i] BY <2>2, <2>4, <2>5
  <2>7. Len(r.name) < room => n = r.name
    <3> SUFFICES ASSUME Len(r.name) < room PROVE n = r.name OBVIOUS
    <3>1. m = r.name BY <1>2, <1>6 DEF m, Cut
    <3> QED BY <1>1, <2>1, <3>1, ConcatEmptySeq
  <2>8. m = Cut(r.name, room) BY DEF m
  <2>9. Cut(n, room) = m
    <3>1. CASE Len(r.name) < room
      <4>1. m = r.name BY <1>2, <1>6, <3>1 DEF m, Cut
      <4>2. n = r.name BY <2>7, <3>1
      <4> QED BY <2>8, <4>1, <4>2, Zenon
    <3>2. CASE ~(Len(r.name) < room)
      <4>1. Len(m) = room BY <1>2, <1>6, <2>2, <3>2
      <4> HIDE DEF n
      <4>2. /\ Cut(n, room) \in Seq(Char) /\ Len(Cut(n, room)) = IF Len(n) <= room THEN Len(n) ELSE room
            /\ \A i \in 1..Len(Cut(n, room)) : Cut(n, room)[i] = n[i]
        BY <1>2, <2>5, CutType
      <4>3. Len(Cut(n, room)) = room BY <1>2, <2>5, <4>1, <4>2
      <4>4. \A i \in 1..room : Cut(n, room)[i] = m[i] BY <2>2, <2>6, <4>1, <4>2, <4>3
      <4> QED BY <2>2, <4>1, <4>2, <4>3, <4>4, Same
    <3> QED BY <3>1, <3>2
  <2>10. /\ Len(v) >= 1 /\ v[1] = code
         /\ (\A i \in 1..Len(n) : n[i] = Colon) => Len(v) = 1
         /\ (\E i \in 1..Len(n) : n[i] # Colon) =>
              /\ Len(v) >= 2 /\ v[2] \in Seq(Char) \ {<<>>}
              /\ n[1] # Colon => v[2] = Before(n, Colon)
    <3>1. line = code \o (<<Colon>> \o n) BY <2>1
    <3> HIDE DEF n
    <3>2. LedBy(Char, code, Colon, n, code \o (<<Colon>> \o n)) BY <1>2, <1>5, <2>5, Leading
    <3>3. LedBy(Char, code, Colon, n, line) BY <3>1, <3>2, Zenon
    <3> QED BY <3>3, Zenon DEF LedBy
  <2> HIDE DEF v, n
  <2>11. v # <<>>
    <3> SUFFICES ASSUME v = <<>> PROVE FALSE OBVIOUS
    <3>1. Len(v) = 0 BY NoLength, Zenon
    <3> QED BY <2>10, <3>1
  <2> DEFINE nm == IF Len(v) > 1 THEN v[2] ELSE <<>>
  <2>12. Dispatch(line) = {[cmd |-> r.cmd, name |-> nm]} BY <1>4, <2>10, <2>11
  <2>13. nm \in Seq(Char)
    <3>1. CASE \A i \in 1..Len(n) : n[i] = Colon BY <2>10, <3>1
    <3>2. CASE \E i \in 1..Len(n) : n[i] # Colon BY <2>10, <3>2
    <3> QED BY <3>1, <3>2
  <2>14. nm = <<>> => \A i \in 1..Len(m) : r.name[i] = Colon
    <3> SUFFICES ASSUME nm = <<>>, \E i \in 1..Len(n) : n[i] # Colon PROVE FALSE BY <2>6
    <3>1. Len(v) >= 2 /\ v[2] # <<>> BY <2>10
    <3>2. Len(v) \in Nat \/ ~(Len(v) > 1) BY <2>4
    <3> QED BY <3>1, <3>2
  <2>15. ASSUME ~Has(r.name, Colon)
         PROVE  Cut(nm, room) = m /\ (Len(r.name) < room => nm = r.name)
    <3>1. ~Has(m, Colon)
      <4>1. \A i \in 1..Len(m) : i \in 1..Len(r.name) BY <1>2, <1>6, <2>2
      <4> QED BY <2>2, <2>15, <4>1 DEF Has
    <3>2. 1 \in 1..Len(n) /\ n[1] # Colon
      <4>1. m[1] # Colon BY <2>4, <3>1 DEF Has
      <4> QED BY <2>2, <2>4, <2>6, <4>1
    <3>3. Len(v) >= 2 /\ v[2] = Before(n, Colon) BY <2>10, <3>2
    <3>4. nm = Before(n, Colon) BY <3>3
    <3>5. Len(r.name) < room => nm = r.name BY <2>7, <2>15, <3>4 DEF Before
    <3>6. Before(n, Colon) = m \o Before(y, Colon) BY <2>1, <2>2, <3>1, BeforeCat DEF n
    <3>7. Cut(nm, room) = m
      <4>1. CASE Len(r.name) < room
        <5>1. n = nm BY <2>7, <3>5, <4>1
        <5> QED BY <2>9, <5>1
      <4>2. CASE ~(Len(r.name) < room)
        <5> DEFINE b == Before(y, Colon)
        <5>1. b \in Seq(Char) BY BeforeType
        <5>2. Len(m) = room BY <1>2, <1>6, <2>2, <4>2
        <5> HIDE DEF b
        <5> room \in Nat /\ Len(m) <= room BY <1>2, <5>2
        <5>3. Cut(m \o b, room) = m \o Cut(b, room - Len(m)) BY <2>2, <5>1, CutCat, Zenon
        <5>4. Cut(b, room - Len(m)) \in Seq(Char) /\ Len(Cut(b, room - Len(m))) = 0
          <6>1. room - Len(m) = 0 /\ 0 \in Nat /\ Len(b) \in Nat BY <1>2, <5>1, <5>2, LenProperties
          <6>2. Cut(b, 0) \in Seq(Char) /\ Len(Cut(b, 0)) = IF Len(b) <= 0 THEN Len(b) ELSE 0
            BY <5>1, <6>1, CutType
          <6> QED BY <6>1, <6>2
        <5>5. Cut(b, room - Len(m)) = <<>> BY <5>4, EmptySeq
        <5>6. m \o <<>> = m BY <2>2, ConcatEmptySeq
        <5> QED BY <3>4, <3>6, <5>3, <5>5, <5>6 DEF b
      <4> QED BY <4>1, <4>2
    <3> QED BY <3>5, <3>7
  <2>16. Heard(r, nm) BY <1>1, <2>14, <2>15 DEF Heard, Fits, m
  <2> QED BY <2>12, <2>13, <2>16 DEF line, code
<1> QED BY <1>7, <1>8

-----------------------------------------------------------------------------
(* The inductive invariant. *)

\* What the client last sent is a command, or nothing yet.
Asked == wanted = Nothing \/ Call(wanted)

\* The message on the wire is that of the command that the client waits for.
Sent == pc = "request" => Call(wanted) /\ wire = Message(Code[wanted.cmd], wanted.name)
SentAgain ==
  pc = "second" =>
    /\ Call(wanted) /\ wanted.cmd \in Transfers
    /\ wire = Message(Second[wanted.cmd], wanted.name)

\* A NUL goes behind the buffer only when the newline did not fit.
Strayed == stray => ~Fits(wanted)

\* The handler is that of the command, with its name.
Answered ==
  pc \notin {"request", "wild"} =>
    /\ served.cmd = wanted.cmd
    /\ wanted # Nothing => Heard(wanted, served.name)

IInv ==
  TypeOK /\ Asked /\ Sent /\ SentAgain /\ Strayed /\ Answered /\ SecondTaken /\ NullExplained

\* "none" is not a command.
LEMMA NotNothing == \A r : Call(r) => r # Nothing /\ r.cmd \in Commands
BY DEF Call, Nothing, Commands

\* At the prompt nothing is known.
LEMMA InitIInv == Init => IInv
<1> SUFFICES ASSUME Init PROVE IInv OBVIOUS
<1>1. Nothing \in Commanded BY DEF Nothing, Commanded
<1>2. <<>> \in Seq(Char) /\ 0 < MaxTn
  <2>1. "ls" \in Commands BY DEF Commands
  <2>2. ShortCode(Code["ls"]) BY <2>1, Codes
  <2>3. RoomOf(Code["ls"]) \in Nat /\ Len(Code["ls"]) \in Nat /\ MaxTn \in Nat BY <2>2, CodeType
  <2> QED BY <2>3 DEF RoomOf
<1>3. TypeOK BY <1>1, <1>2, InputAssumption, NoLength DEF Init, TypeOK
<1>4. Asked /\ Sent /\ SentAgain /\ Strayed /\ Answered
  BY DEF Init, Asked, Sent, SentAgain, Strayed, Answered
<1>5. SecondTaken /\ NullExplained BY DEF Init, SecondTaken, NullExplained
<1> QED BY <1>3, <1>4, <1>5 DEF IInv

\* A line that is sent is a command with what it needs; a line of blanks is none.
LEMMA TypeIInv == ASSUME IInv, NEW line \in Lines, Type(line) PROVE IInv'
<1> DEFINE words == Split(line, Space)
<1>1. /\ TypeOK /\ Asked /\ Answered /\ pc = "prompt" /\ typed' = line /\ refused' = FALSE
      /\ stray' = FALSE /\ UNCHANGED <<buf, served>>
  BY DEF IInv, Type
<1>2a. Strayed' BY <1>1 DEF Strayed
<1>2. line \in Seq(Char \ {NL}) /\ line \in Seq(Char) BY InputAssumption, NameType
<1>3. CASE words = <<>> /\ pc' = "null" /\ UNCHANGED <<wanted, wire>>
  <2>1. TypeOK' BY <1>1, <1>2, <1>3 DEF TypeOK
  <2>2. \A i \in 1..Len(line) : line[i] = Space BY <1>2, <1>3, NoPieces
  <2>3. NullExplained' BY <1>1, <2>2 DEF NullExplained
  <2>4. Asked' BY <1>1, <1>3 DEF Asked
  <2>5. Sent' /\ SentAgain' BY <1>3 DEF Sent, SentAgain
  <2>6. Answered' BY <1>1, <1>3 DEF Answered
  <2>7. SecondTaken' BY <1>1 DEF SecondTaken
  <2> QED BY <1>2a, <2>1, <2>3, <2>4, <2>5, <2>6, <2>7 DEF IInv
<1>4. ASSUME NEW c \in Commands,
             NEW name, name = IF c \in {"ls", "pwd"} \/ Len(words) = 1 THEN <<>> ELSE words[2],
             words # <<>>, Acceptable(c, name), wanted' = [cmd |-> c, name |-> name],
             wire' = Message(Code[c], name), pc' = "request"
      PROVE  IInv'
  <2>1. name \in Seq(Char \ {NL})
    <3>1. CASE c \in {"ls", "pwd"} \/ Len(words) = 1 BY <1>4, <3>1
    <3>2. CASE ~(c \in {"ls", "pwd"} \/ Len(words) = 1)
      <4>1. words[2] \in Seq(Char \ {NL}) BY <1>2, <1>4, <3>2, SecondWord
      <4> QED BY <1>4, <3>2, <4>1
    <3> QED BY <3>1, <3>2
  <2>2. name \in Seq(Char) BY <2>1, NameType
  <2>3. Call(wanted')
    <3>1. wanted'.cmd = c /\ wanted'.name = name BY <1>4
    <3>2. c \in Transfers => name # <<>> BY <1>4 DEF Acceptable, Transfers
    <3> QED BY <1>4, <2>1, <3>1, <3>2 DEF Call
  <2>4. wire' \in Seq(Char) /\ Len(wire') < MaxTn BY <1>4, <2>1, Codes, MessageShape
  <2>5. wanted' \in Commanded BY <1>4, <2>2 DEF Commanded
  <2>6. TypeOK' BY <1>1, <1>2, <1>4, <2>4, <2>5 DEF TypeOK
  <2>7. Sent' /\ Asked' BY <1>4, <2>3 DEF Sent, Asked
  <2>8. SentAgain' /\ Answered' /\ NullExplained' BY <1>4 DEF SentAgain, Answered, NullExplained
  <2>9. SecondTaken' BY <1>1 DEF SecondTaken
  <2> QED BY <1>2a, <2>6, <2>7, <2>8, <2>9 DEF IInv
<1> QED BY <1>3, <1>4 DEF Type

\* The thread calls the handler that was meant, with the name as far as it got.
LEMMA ServeIInv == ASSUME IInv, Serve PROVE IInv'
<1> DEFINE tail == SubSeq(buf, Len(wire) + 1, Len(buf))
<1>1. /\ TypeOK /\ Sent /\ pc = "request" /\ SecondTaken /\ UNCHANGED <<typed, wanted, refused>>
  BY DEF IInv, Serve
<1>2. Call(wanted) /\ wire = Message(Code[wanted.cmd], wanted.name) BY <1>1 DEF Sent
<1>3. /\ wire \in Seq(Char) /\ Len(wire) \in Nat /\ Len(wire) <= MaxTn - 1 /\ MaxTn \in Nat
      /\ buf \in Seq(Char \cup {Nul}) /\ Len(buf) = MaxTn
  BY <1>1, CodeAssumption, LenProperties DEF TypeOK
<1>4. /\ tail \in Seq(Char \cup {Nul}) /\ Len(tail) = Len(buf) - Len(wire)
  BY <1>3, Suffix
<1> HIDE DEF tail
<1>5. Filled = wire \o tail BY DEF Filled, tail
<1>6. Filled \in Seq(Char \cup {Nul}) /\ Len(Filled) = MaxTn
  <2>1. wire \in Seq(Char \cup {Nul}) BY <1>3
  <2>2. Filled \in Seq(Char \cup {Nul}) /\ Len(Filled) = Len(wire) + Len(tail)
    BY <1>4, <1>5, <2>1, Cat
  <2> QED BY <1>3, <1>4, <2>2
<1>7. PICK behind \in Behind :
        LET text  == AsString(Filled, behind)
            line  == UpToNewline(text)
            end   == Len(line) + 1
            found == end <= Len(text)
        IN  /\ buf' = IF found /\ end <= MaxTn THEN [Filled EXCEPT ![end] = Nul] ELSE Filled
            /\ stray' = (found /\ end > MaxTn)
            /\ \/ Handle(line)
               \/ stray' /\ pc' = "wild" /\ served' = Nothing /\ UNCHANGED wire
  BY DEF Serve
<1>8. behind \in Seq(Char) BY InputAssumption
<1> DEFINE line == UpToNewline(AsString(Filled, behind))
<1>9. PICK name \in Seq(Char) : Heard(wanted, name) /\ Dispatch(line) = {[cmd |-> wanted.cmd, name |-> name]}
  <2> DEFINE f == Message(Code[wanted.cmd], wanted.name) \o tail
  <2>1. \E name \in Seq(Char) : /\ Heard(wanted, name)
                                /\ Dispatch(UpToNewline(AsString(f, behind))) = {[cmd |-> wanted.cmd, name |-> name]}
    BY <1>2, <1>4, <1>8, Dispatched, Zenon
  <2>2. Filled = f BY <1>2, <1>5, Zenon
  <2> HIDE DEF f
  <2> QED BY <2>1, <2>2
<1>10. /\ line \in Seq(Char) /\ Len(line) \in Nat
       /\ Fits(wanted) => Len(line) + 1 < MaxTn
  <2> DEFINE code == Code[wanted.cmd]
  <2>1. /\ ShortCode(code) /\ Room(wanted.cmd) = RoomOf(code)
        /\ wanted.name \in Seq(Char \ {NL}) /\ wanted.name \in Seq(Char)
    BY <1>2, Codes, NameType DEF Call
  <2>2. ReadAs(code, wanted.name, line) BY <1>2, <1>4, <1>5, <1>8, <2>1, LineRead
  <2>3. line \in Seq(Char) BY <2>2 DEF ReadAs
  <2> HIDE DEF code, line
  <2>4. ASSUME Len(wanted.name) < RoomOf(code) PROVE Len(line) + 1 < MaxTn
    BY <2>1, <2>2, <2>4, LineShort
  <2> QED BY <2>1, <2>3, <2>4, LenProperties DEF Fits
<1>11. buf' \in Seq(Char \cup {Nul}) /\ Len(buf') = MaxTn
  <2>1. \/ buf' = Filled
        \/ Len(line) + 1 <= MaxTn /\ buf' = [Filled EXCEPT ![Len(line) + 1] = Nul]
    BY <1>7
  <2> HIDE DEF line
  <2>2. \A i \in 1..Len(Filled) : [Filled EXCEPT ![i] = Nul] \in Seq(Char \cup {Nul})
                                  /\ Len([Filled EXCEPT ![i] = Nul]) = Len(Filled)
    BY <1>6, ExceptSeq
  <2>3. Len(line) + 1 <= MaxTn => Len(line) + 1 \in 1..Len(Filled) BY <1>3, <1>6, <1>10
  <2> QED BY <1>6, <2>1, <2>2, <2>3
<1>12. /\ wanted \in Commanded /\ wanted # Nothing /\ wanted.cmd \in Commands
       /\ wanted.name \in Seq(Char \ {NL})
  BY <1>1, <1>2, NotNothing DEF TypeOK, Call
<1>13. Strayed' /\ stray' \in BOOLEAN
  <2>1. stray' => Len(line) + 1 > MaxTn BY <1>7
  <2>2. stray' \in BOOLEAN BY <1>7
  <2> HIDE DEF line
  <2>3. stray' => ~Fits(wanted) BY <1>3, <1>10, <2>1
  <2>4. Fits(wanted)' <=> Fits(wanted) BY <1>1 DEF Fits, Room
  <2> QED BY <2>2, <2>3, <2>4 DEF Strayed
<1>14. CASE Handle(line)
  <2>1. served' = [cmd |-> wanted.cmd, name |-> name]
    <3> HIDE DEF line
    <3>1. served' \in IF Dispatch(line) = {} THEN {Nothing} ELSE Dispatch(line)
      BY <1>14 DEF Handle
    <3>2. Dispatch(line) # {} BY <1>9
    <3> QED BY <1>9, <3>1, <3>2
  <2>2. served' \in Commanded BY <1>9, <1>12, <2>1 DEF Commanded
  <2>3. /\ wire' \in Seq(Char) /\ Len(wire') < MaxTn /\ pc' \in {"prompt", "second"}
        /\ pc' = "second" => /\ wanted.cmd \in Transfers
                             /\ wire' = Message(Second[wanted.cmd], wanted.name)
    <3>1. CASE pc' = "prompt" /\ UNCHANGED wire BY <1>1, <3>1 DEF TypeOK
    <3>2. CASE /\ wanted.cmd \in {"put", "get"} /\ pc' = "second"
               /\ wire' = Message(Second[wanted.cmd], wanted.name)
      <4>1. wanted.cmd \in Transfers BY <3>2 DEF Transfers
      <4>2. ShortCode(Second[wanted.cmd]) BY <4>1, Codes
      <4> QED BY <1>12, <3>2, <4>1, <4>2, MessageShape
    <3>3. \/ pc' = "prompt" /\ UNCHANGED wire
          \/ /\ wanted.cmd \in {"put", "get"} /\ pc' = "second"
             /\ wire' = Message(Second[wanted.cmd], wanted.name)
      BY <1>14 DEF Handle
    <3> QED BY <3>1, <3>2, <3>3
  <2>4. TypeOK' BY <1>1, <1>11, <1>13, <2>2, <2>3 DEF TypeOK
  <2>5. Asked' /\ Sent' /\ SentAgain' BY <1>1, <1>2, <2>3 DEF Asked, Sent, SentAgain
  <2>6. Answered' BY <1>1, <1>9, <2>1 DEF Answered
  <2>7. SecondTaken' /\ NullExplained' BY <1>1, <2>3 DEF SecondTaken, NullExplained
  <2> QED BY <1>13, <2>4, <2>5, <2>6, <2>7 DEF IInv
<1>15. CASE stray' /\ pc' = "wild" /\ served' = Nothing /\ UNCHANGED wire
  <2>1. Nothing \in Commanded BY DEF Nothing, Commanded
  <2>2. TypeOK' BY <1>1, <1>11, <1>13, <1>15, <2>1 DEF TypeOK
  <2>3. Asked' /\ Sent' /\ SentAgain' BY <1>1, <1>2, <1>15 DEF Asked, Sent, SentAgain
  <2>4. Answered' /\ SecondTaken' /\ NullExplained'
    BY <1>1, <1>15 DEF Answered, SecondTaken, NullExplained
  <2> QED BY <1>13, <2>2, <2>3, <2>4 DEF IInv
<1> QED BY <1>7, <1>14, <1>15

\* The second code is the first piece of its message, whatever lies behind.
LEMMA ServeSecondIInv == ASSUME IInv, ServeSecond PROVE IInv'
<1>1. /\ TypeOK /\ Asked /\ SentAgain /\ Answered /\ pc = "second"
      /\ Strayed /\ UNCHANGED <<typed, wanted, wire, buf, stray, served>>
  BY DEF IInv, ServeSecond
<1>2. /\ Call(wanted) /\ wanted.cmd \in Transfers /\ wanted # Nothing
      /\ wire = Message(Second[wanted.cmd], wanted.name)
  BY <1>1, NotNothing DEF SentAgain
<1>3. served.cmd = wanted.cmd /\ Heard(wanted, served.name) BY <1>1, <1>2 DEF Answered
<1>4. PICK behind \in Behind :
        LET pieces == Split(wire \o behind, Colon)
        IN  /\ refused' = (pieces # <<>> /\ pieces[1] # Second[served.cmd])
            /\ pc' = IF served.cmd = "put" /\ served.name = <<>> /\ ~refused' THEN "null" ELSE "prompt"
  BY DEF ServeSecond
<1>5. behind \in Seq(Char) BY InputAssumption
<1> DEFINE code == Second[wanted.cmd]
           name == wanted.name
           rest == Cut(name \o <<NL>>, RoomOf(code))
<1>6. ShortCode(code) /\ name \in Seq(Char \ {NL}) /\ name # <<>> BY <1>2, Codes DEF Call
<1>7. /\ code \in Seq(Char) /\ code # <<>> /\ ~Has(code, Colon) /\ RoomOf(code) \in Nat
  BY <1>6, CodeType
<1>8. wire = code \o (<<Colon>> \o rest) BY <1>2, <1>6, MessageShape
<1>9. rest \in Seq(Char)
  <2>1. name \o <<NL>> \in Seq(Char) BY <1>6, NameType, Marks
  <2> QED BY <1>7, <2>1, CutType
<1> HIDE DEF rest, code
<1> DEFINE n == rest \o behind
<1>10. n \in Seq(Char) BY <1>5, <1>9
<1>11. wire \o behind = code \o (<<Colon>> \o n)
  <2>1. <<Colon>> \o rest \in Seq(Char) /\ <<Colon>> \in Seq(Char) BY <1>9, Marks
  <2>2. (code \o (<<Colon>> \o rest)) \o behind = code \o ((<<Colon>> \o rest) \o behind)
    BY <1>5, <1>7, <2>1, Associative DEF Together
  <2>3. (<<Colon>> \o rest) \o behind = <<Colon>> \o n BY <1>5, <1>9, <2>1, Associative DEF Together
  <2> QED BY <1>8, <2>2, <2>3
<1> HIDE DEF n
<1>12. LedBy(Char, code, Colon, n, code \o (<<Colon>> \o n)) BY <1>7, <1>10, Marks, Leading
<1>13. Split(wire \o behind, Colon)[1] = code BY <1>11, <1>12, Zenon DEF LedBy
<1>14. refused' = FALSE BY <1>3, <1>4, <1>13 DEF code
<1>15. pc' = IF served.cmd = "put" /\ served.name = <<>> THEN "null" ELSE "prompt" BY <1>4, <1>14
<1>16. TypeOK' BY <1>1, <1>14, <1>15 DEF TypeOK
<1>17. Asked' /\ Sent' /\ SentAgain' BY <1>1, <1>15 DEF Asked, Sent, SentAgain
<1>18. Answered' /\ Strayed' BY <1>1, <1>3 DEF Answered, Strayed, Fits, Room
<1>19. SecondTaken' BY <1>14 DEF SecondTaken
<1>20. NullExplained'
  <2> SUFFICES ASSUME pc' = "null"
               PROVE  /\ wanted.name # <<>>
                      /\ \A i \in 1..Len(Cut(wanted.name, Room("put"))) : wanted.name[i] = Colon
    BY <1>1 DEF NullExplained
  <2>1. wanted.cmd = "put" /\ served.name = <<>> BY <1>3, <1>15
  <2> QED BY <1>3, <1>6, <2>1 DEF Heard
<1> QED BY <1>16, <1>17, <1>18, <1>19, <1>20 DEF IInv

\* Every step keeps the invariant.
LEMMA NextIInv == IInv /\ [Next]_vars => IInv'
<1> SUFFICES ASSUME IInv, [Next]_vars PROVE IInv' OBVIOUS
<1>1. ASSUME NEW line \in Lines, Type(line) PROVE IInv' BY <1>1, TypeIInv
<1>2. CASE Serve BY <1>2, ServeIInv
<1>3. CASE ServeSecond BY <1>3, ServeSecondIInv
<1>4. CASE UNCHANGED vars
  BY <1>4 DEF vars, IInv, TypeOK, Asked, Sent, SentAgain, Strayed, Fits, Room, Answered, SecondTaken,
       NullExplained
<1> QED BY <1>1, <1>2, <1>3, <1>4 DEF Next

-----------------------------------------------------------------------------
(* The theorems. *)

\* Whatever is typed and whatever the buffers held: the invariant of the session.
THEOREM RequestInvariance == Spec => []IInv
BY InitIInv, NextIInv, PTL DEF Spec

\* send_code never overruns message[MAX_TN_LEN], and recv() never overruns
\* buf[MAX_TN_LEN] of the thread; where the NUL goes is said by Understood.
THEOREM MessagesFit == Spec => []TypeOK
<1>1. IInv => TypeOK BY DEF IInv
<1> QED BY <1>1, RequestInvariance, PTL

\* handle_cmd of the server calls the handler of the command that handle_cmd of the
\* client sent, unless a NUL was written behind the buffer and the thread went astray.
THEOREM CommandsAreKept == Spec => []CommandKept
<1>1. IInv => CommandKept BY DEF IInv, Answered, CommandKept
<1> QED BY <1>1, RequestInvariance, PTL

\* The thread writes the NUL of a line into buf[MAX_TN_LEN] whenever the newline fitted
\* into the message.  The handler's argument is the name that was typed, when that has
\* no ':' and fits; when it does not fit, it is cut where the message ends, unless a
\* NUL was written behind the buffer and the thread went astray.
THEOREM NamesAreUnderstood == Spec => []Understood
<1>1. IInv => Understood
  <2> SUFFICES ASSUME IInv, pc # "request", wanted # Nothing
               PROVE  /\ stray => ~Fits(wanted)
                      /\ pc # "wild" /\ ~Has(wanted.name, Colon) =>
                           /\ Cut(served.name, Room(wanted.cmd)) = Cut(wanted.name, Room(wanted.cmd))
                           /\ Fits(wanted) => served.name = wanted.name
    BY DEF Understood
  <2>1. stray => ~Fits(wanted) BY DEF IInv, Strayed
  <2>2. pc # "wild" => Heard(wanted, served.name) BY DEF IInv, Answered
  <2> QED BY <2>1, <2>2 DEF Heard
<1> QED BY <1>1, RequestInvariance, PTL

\* handle_get and handle_put never answer the second code with BAD, although its
\* newline is never cut off and nothing ends the bytes that recv() stored.
THEOREM SecondsAreTaken == Spec => []SecondTaken
<1>1. IInv => SecondTaken BY DEF IInv
<1> QED BY <1>1, RequestInvariance, PTL

\* A null pointer reaches ft_strequ or open only for a line of blanks and for a put of
\* a name of nothing but ':'.
THEOREM NullsAreExplained == Spec => []NullExplained
<1>1. IInv => NullExplained BY DEF IInv
<1> QED BY <1>1, RequestInvariance, PTL

=============================================================================
