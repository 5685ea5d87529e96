-------------------------- MODULE WorkingDirProofs --------------------------
(***************************************************************************)
(* The working directory of a session stays inside the server's tree, cd ..*)
(* retraces the way, and every path that is built is the one meant: for    *)
(* every buffer size, root and set of names.                               *)
(***************************************************************************)
EXTENDS WorkingDir, Pieces, WellFoundedInduction, TLAPS

Str == Seq(Char)

\* A path in its buffer.
Level(s) == s \in Str /\ s # <<>> /\ s[1] = Slash /\ Len(s) < Size

\* The name of one directory entry, not the parent's.
Entry(n) == n \in Str /\ n # <<>> /\ ~Has(n, Slash) /\ n # Up

\* Every element of trail is one entry below the element before it, which does not
\* fill the buffer; the last may not fit into it.
Way ==
  traced =>
    /\ cwd = Cut(Last(trail), Size - 1) /\ trail[1] = Top
    /\ \A k \in 1..Len(trail) : Ups(trail[k]) = {}
    /\ \A k \in 2..Len(trail) :
         /\ Level(trail[k - 1]) /\ Len(trail[k - 1]) < Size - 1
         /\ \E n : Entry(n) /\ trail[k] = Below(trail[k - 1], n)

\* A component '..' is the last one of a full directory.
AtEnd == Ups(cwd) \subseteq {Size - 3}

IInv == TypeOK /\ Way /\ AtEnd

-----------------------------------------------------------------------------
(* The strings. *)

\* Among finitely many positions there is a last one.
LEMMA Greatest ==
  ASSUME NEW n \in Nat, NEW S \in SUBSET (1..n), S # {}
  PROVE  \E x \in S : \A y \in S : y <= x
<1> DEFINE R == OpToRel(<, Nat)
           D == {n - i : i \in S}
<1>1. IsWellFoundedOn(R, Nat) BY NatLessThanWellFounded
<1>2. \A x, y \in Nat : <<y, x>> \in R <=> y < x BY DEF OpToRel
<1> HIDE DEF R
<1>3. D \subseteq Nat /\ D # {}
  <2>1. \A i \in S : i \in 1..n /\ n - i \in Nat OBVIOUS
  <2> QED BY <2>1
<1>4. \E x \in D : \A y \in D : ~ (<<y, x>> \in R) BY <1>1, <1>3, WFMin
<1>5. PICK i \in S : \A j \in S : ~ (n - j < n - i) BY <1>2, <1>3, <1>4
<1> QED BY <1>5

LEMMA CutType ==
  ASSUME NEW s \in Str, NEW n \in Nat
  PROVE  /\ Cut(s, n) \in Str /\ Len(Cut(s, n)) <= n
         /\ Len(s) <= n => Cut(s, n) = s
<1>1. Len(s) \in Nat BY LenProperties DEF Str
<1>2. CASE Len(s) <= n BY <1>2 DEF Cut
<1>3. CASE ~(Len(s) <= n)
  <2>1. s \in Seq(Char) /\ n \in 0..Len(s) BY <1>1, <1>3 DEF Str
  <2>2. SubSeq(s, 1, n) \in Seq(Char) /\ Len(SubSeq(s, 1, n)) = n BY <2>1, Prefix
  <2> QED BY <1>3, <2>2 DEF Cut, Str
<1> QED BY <1>2, <1>3

\* ft_strlcat never fills the buffer, and leaves what was there.
LEMMA StrlcatType ==
  ASSUME NEW d \in Str, NEW s \in Str, NEW n \in Nat, Len(d) < n
  PROVE  /\ Strlcat(d, s, n) \in Str
         /\ Len(Strlcat(d, s, n)) < n /\ Len(d) <= Len(Strlcat(d, s, n))
         /\ \A i \in 1..Len(d) : Strlcat(d, s, n)[i] = d[i]
<1>1. Len(d) \in Nat /\ d \in Seq(Char) BY LenProperties DEF Str
<1> DEFINE c == Cut(s, n - Len(d) - 1)
<1>2. n - Len(d) - 1 \in Nat BY <1>1
<1>3. c \in Seq(Char) /\ Len(c) <= n - Len(d) - 1 BY <1>2, CutType DEF Str
<1>4. Strlcat(d, s, n) = d \o c BY <1>1 DEF Strlcat
<1> HIDE DEF c
<1>5. /\ d \o c \in Seq(Char) /\ Len(d \o c) = Len(d) + Len(c) /\ Len(c) \in Nat
      /\ \A i \in 1..(Len(d) + Len(c)) : (d \o c)[i] = IF i <= Len(d) THEN d[i] ELSE c[i - Len(d)]
  BY <1>1, <1>3, Cat
<1>6. \A i \in 1..Len(d) : i \in 1..(Len(d) + Len(c)) /\ i <= Len(d) BY <1>1, <1>5
<1> QED BY <1>1, <1>3, <1>4, <1>5, <1>6 DEF Str

\* What fits is all there.
LEMMA StrlcatFits ==
  ASSUME NEW d \in Str, NEW s \in Str, NEW n \in Nat, Len(d) + Len(s) < n
  PROVE  Strlcat(d, s, n) = d \o s
<1>1. Len(d) \in Nat /\ Len(s) \in Nat BY LenProperties DEF Str
<1>2. n - Len(d) - 1 \in Nat /\ Len(s) <= n - Len(d) - 1 /\ ~(n <= Len(d)) BY <1>1
<1>3. Cut(s, n - Len(d) - 1) = s BY <1>2, CutType
<1> QED BY <1>2, <1>3 DEF Strlcat

\* The last '/' is where it is.
LEMMA LastOne ==
  ASSUME NEW s \in Str, NEW c, NEW k \in 1..Len(s), s[k] = c, \A j \in (k + 1)..Len(s) : s[j] # c
  PROVE  BeforeLast(s, c) = SubSeq(s, 1, k - 1)
<1> DEFINE P(i) == s[i] = c /\ \A j \in (i + 1)..Len(s) : s[j] # c
<1>1. Len(s) \in Nat BY LenProperties DEF Str
<1>2. ASSUME NEW i \in 1..Len(s), P(i) PROVE i = k
  <2>1. ~(i < k) BY <1>1, <1>2
  <2>2. ~(k < i) BY <1>1, <1>2
  <2> QED BY <1>1, <2>1, <2>2
<1>3. P(k) OBVIOUS
<1>4. (CHOOSE i \in 1..Len(s) : P(i)) = k BY <1>2, <1>3
<1> QED BY <1>4 DEF BeforeLast

\* ft_strrchr finds one if there is one.
LEMMA LastExists ==
  ASSUME NEW s \in Str, NEW c, Has(s, c)
  PROVE  \E k \in 1..Len(s) : s[k] = c /\ \A j \in (k + 1)..Len(s) : s[j] # c
<1>1. Len(s) \in Nat BY LenProperties DEF Str
<1> DEFINE S == {i \in 1..Len(s) : s[i] = c}
<1>2. S \in SUBSET (1..Len(s)) /\ S # {} BY DEF Has
<1>3. PICK k \in S : \A j \in S : j <= k BY <1>1, <1>2, Greatest
<1>4. k \in 1..Len(s) /\ s[k] = c BY <1>3
<1>5. \A j \in (k + 1)..Len(s) : s[j] # c BY <1>1, <1>3, <1>4
<1> QED BY <1>4, <1>5

\* What cutting a path at its last '/' leaves.
LEMMA BeforeLastType ==
  ASSUME NEW s \in Str, Has(s, Slash)
  PROVE  /\ BeforeLast(s, Slash) \in Str /\ Len(BeforeLast(s, Slash)) < Len(s)
         /\ \A i \in 1..Len(BeforeLast(s, Slash)) : BeforeLast(s, Slash)[i] = s[i]
<1>1. PICK k \in 1..Len(s) : s[k] = Slash /\ \A j \in (k + 1)..Len(s) : s[j] # Slash
  BY LastExists
<1>2. BeforeLast(s, Slash) = SubSeq(s, 1, k - 1) BY <1>1, LastOne
<1>3. s \in Seq(Char) /\ k - 1 \in 0..Len(s) /\ Len(s) \in Nat BY LenProperties DEF Str
<1>4. /\ SubSeq(s, 1, k - 1) \in Seq(Char) /\ Len(SubSeq(s, 1, k - 1)) = k - 1
      /\ \A i \in 1..(k - 1) : SubSeq(s, 1, k - 1)[i] = s[i]
  BY <1>3, Prefix
<1> QED BY <1>2, <1>3, <1>4 DEF Str

LEMMA TopLevel == Level(Top) /\ Top \in Str /\ Len(Top) = 1 /\ Top[1] = Slash
BY CharAssumption, SizeAssumption DEF Level, Top, Str

\* One level down, and one level up, the path is still one and still in its buffer.
LEMMA EnterLevel ==
  ASSUME NEW s \in Str, Level(s), NEW n \in Str
  PROVE  Level(Enter(s, n))
<1> DEFINE d == IF s # Top THEN Strlcat(s, <<Slash>>, Size) ELSE s
<1>1. <<Slash>> \in Str /\ Size \in Nat /\ Len(s) \in Nat
  BY TopLevel, SizeAssumption, LenProperties DEF Top, Str
<1>2. /\ d \in Str /\ Len(d) < Size /\ Len(s) <= Len(d) /\ \A i \in 1..Len(s) : d[i] = s[i]
  <2>1. CASE s # Top BY <1>1, <2>1, StrlcatType DEF Level
  <2>2. CASE s = Top BY <1>1, <2>2 DEF Level
  <2> QED BY <2>1, <2>2
<1>3. Enter(s, n) = Strlcat(d, n, Size) BY DEF Enter
<1> HIDE DEF d
<1>4. /\ Strlcat(d, n, Size) \in Str
      /\ Len(Strlcat(d, n, Size)) < Size /\ Len(d) <= Len(Strlcat(d, n, Size))
      /\ \A i \in 1..Len(d) : Strlcat(d, n, Size)[i] = d[i]
  BY <1>1, <1>2, StrlcatType
<1>5. 1 \in 1..Len(s) BY <1>1, EmptySeq DEF Level, Str
<1>6. /\ 1 \in 1..Len(d) /\ Len(d) \in Nat /\ Len(Strlcat(d, n, Size)) \in Nat
  BY <1>1, <1>2, <1>4, <1>5, LenProperties DEF Str
<1>7. Strlcat(d, n, Size)[1] = Slash BY <1>2, <1>4, <1>5, <1>6 DEF Level
<1>8. Strlcat(d, n, Size) # <<>> BY <1>4, <1>6
<1> QED BY <1>3, <1>4, <1>7, <1>8 DEF Level

LEMMA LeaveLevel ==
  ASSUME NEW s \in Str, Level(s)
  PROVE  Level(Leave(s))
<1> DEFINE u == BeforeLast(s, Slash)
<1>1. Len(s) \in Nat /\ 1 \in 1..Len(s) BY EmptySeq, LenProperties DEF Level, Str
<1>2. Has(s, Slash) BY <1>1 DEF Has, Level
<1>3. u \in Str /\ Len(u) < Len(s) /\ \A i \in 1..Len(u) : u[i] = s[i]
  BY <1>2, BeforeLastType
<1>4. Leave(s) = IF u = <<>> THEN Strlcat(u, <<Slash>>, Size) ELSE u BY DEF Leave
<1> HIDE DEF u
<1>5. CASE u = <<>>
  <2>1. Strlcat(<<>>, Top, Size) = <<>> \o Top
    <3>1. <<>> \in Str /\ Len(<<>>) + Len(Top) < Size /\ Size \in Nat
      BY TopLevel, SizeAssumption DEF Str
    <3> QED BY <3>1, TopLevel, StrlcatFits
  <2>2. <<>> \o Top = Top BY TopLevel, ConcatEmptySeq DEF Str
  <2> QED BY <1>4, <1>5, <2>1, <2>2, TopLevel DEF Top
<1>6. CASE u # <<>>
  <2>1. Len(u) \in Nat /\ 1 \in 1..Len(u) BY <1>3, <1>6, EmptySeq, LenProperties DEF Str
  <2>2. u[1] = Slash BY <1>3, <2>1 DEF Level
  <2>3. Len(u) < Size BY <1>1, <1>3, <2>1, SizeAssumption DEF Level
  <2> QED BY <1>3, <1>4, <1>6, <2>2, <2>3 DEF Level
<1> QED BY <1>5, <1>6

\* The way below a directory: what comes before the name ends in a '/'.
Stem(d) == IF d = Top THEN d ELSE d \o <<Slash>>

LEMMA StemType ==
  ASSUME NEW d \in Str, Level(d)
  PROVE  /\ Stem(d) \in Str /\ Len(Stem(d)) \in Nat \ {0} /\ Stem(d)[Len(Stem(d))] = Slash
         /\ Len(Stem(d)) = IF d = Top THEN 1 ELSE Len(d) + 1
         /\ Len(d) \in 1..Len(Stem(d)) /\ \A i \in 1..Len(d) : Stem(d)[i] = d[i]
<1>1. d \in Seq(Char) /\ <<Slash>> \in Seq(Char) /\ Len(<<Slash>>) = 1 /\ <<Slash>>[1] = Slash
  BY TopLevel DEF Top, Str
<1>2. Len(d) \in Nat /\ Len(d) >= 1 BY <1>1, EmptySeq, LenProperties DEF Level
<1>3. CASE d = Top BY <1>2, <1>3, TopLevel DEF Stem
<1>4. CASE d # Top
  <2>1. /\ d \o <<Slash>> \in Seq(Char) /\ Len(d \o <<Slash>>) = Len(d) + Len(<<Slash>>)
        /\ \A i \in 1..(Len(d) + Len(<<Slash>>)) :
             (d \o <<Slash>>)[i] = IF i <= Len(d) THEN d[i] ELSE <<Slash>>[i - Len(d)]
    BY <1>1, Cat
  <2>2. (d \o <<Slash>>)[Len(d) + 1] = Slash
    <3>1. /\ Len(d) + 1 \in 1..(Len(d) + Len(<<Slash>>)) /\ ~(Len(d) + 1 <= Len(d))
          /\ Len(d) + 1 - Len(d) = 1
      BY <1>1, <1>2
    <3> QED BY <1>1, <2>1, <3>1
  <2>3. \A i \in 1..Len(d) : (d \o <<Slash>>)[i] = d[i] BY <1>1, <1>2, <2>1
  <2> QED BY <1>1, <1>2, <1>4, <2>1, <2>2, <2>3 DEF Stem, Str
<1> QED BY <1>3, <1>4

\* A directory entry, character by character.
LEMMA BelowType ==
  ASSUME NEW d \in Str, Level(d), NEW n \in Str
  PROVE  /\ Below(d, n) \in Str /\ Len(Below(d, n)) = Len(Stem(d)) + Len(n)
         /\ \A i \in 1..(Len(Stem(d)) + Len(n)) :
              Below(d, n)[i] = IF i <= Len(Stem(d)) THEN Stem(d)[i] ELSE n[i - Len(Stem(d))]
<1>1. Below(d, n) = Stem(d) \o n BY DEF Below, Stem
<1>2. Stem(d) \in Seq(Char) /\ n \in Seq(Char) BY StemType DEF Str
<1>3. /\ Stem(d) \o n \in Seq(Char) /\ Len(Stem(d) \o n) = Len(Stem(d)) + Len(n)
      /\ \A i \in 1..(Len(Stem(d)) + Len(n)) :
           (Stem(d) \o n)[i] = IF i <= Len(Stem(d)) THEN Stem(d)[i] ELSE n[i - Len(Stem(d))]
  BY <1>2, Cat
<1> QED BY <1>1, <1>3 DEF Str

\* handle_cd builds exactly that, when it fits.
LEMMA EnterFits ==
  ASSUME NEW d \in Str, Level(d), NEW n \in Str, Len(Below(d, n)) < Size
  PROVE  Enter(d, n) = Below(d, n) /\ Level(Below(d, n))
<1>1. /\ Size \in Nat /\ <<Slash>> \in Str /\ Len(<<Slash>>) = 1
      /\ Len(d) \in Nat /\ Len(n) \in Nat
  BY SizeAssumption, TopLevel, LenProperties DEF Top, Str
<1>2. /\ Len(Stem(d)) + Len(n) < Size /\ Stem(d) \in Str
      /\ Len(Stem(d)) = IF d = Top THEN 1 ELSE Len(d) + 1
  BY BelowType, StemType
<1>3. (IF d # Top THEN Strlcat(d, <<Slash>>, Size) ELSE d) = Stem(d)
  <2>1. CASE d = Top BY <2>1 DEF Stem
  <2>2. CASE d # Top
    <3>1. Len(d) + Len(<<Slash>>) < Size BY <1>1, <1>2, <2>2
    <3>2. Strlcat(d, <<Slash>>, Size) = d \o <<Slash>> BY <1>1, <3>1, StrlcatFits
    <3> QED BY <2>2, <3>2 DEF Stem
  <2> QED BY <2>1, <2>2
<1>4. Strlcat(Stem(d), n, Size) = Stem(d) \o n BY <1>1, <1>2, StrlcatFits
<1>5. Enter(d, n) = Below(d, n) BY <1>3, <1>4 DEF Enter, Below, Stem
<1> QED BY <1>5, EnterLevel

\* cd_helper undoes it.
LEMMA LeaveBelow ==
  ASSUME NEW d \in Str, Level(d), NEW n \in Str, ~Has(n, Slash)
  PROVE  Leave(Below(d, n)) = d
<1> DEFINE t == Below(d, n)
           p == Stem(d)
<1>1. /\ t \in Str /\ Len(t) = Len(p) + Len(n)
      /\ \A i \in 1..(Len(p) + Len(n)) : t[i] = IF i <= Len(p) THEN p[i] ELSE n[i - Len(p)]
  BY BelowType
<1>2. /\ p \in Str /\ Len(p) \in Nat \ {0} /\ p[Len(p)] = Slash
      /\ Len(p) = IF d = Top THEN 1 ELSE Len(d) + 1
      /\ Len(d) \in 1..Len(p) /\ \A i \in 1..Len(d) : p[i] = d[i]
  BY StemType
<1>3. Len(n) \in Nat /\ \A i \in 1..Len(n) : n[i] # Slash
  BY LenProperties DEF Has, Str
<1> HIDE DEF t, p
<1>4. Len(p) \in 1..Len(t) /\ t[Len(p)] = Slash BY <1>1, <1>2, <1>3
<1>5. ASSUME NEW j \in (Len(p) + 1)..Len(t) PROVE t[j] # Slash
  <2>1. j - Len(p) \in 1..Len(n) /\ j \in 1..(Len(p) + Len(n)) /\ ~(j <= Len(p))
    BY <1>1, <1>2, <1>3
  <2> QED BY <1>1, <1>3, <2>1
<1>6. BeforeLast(t, Slash) = SubSeq(t, 1, Len(p) - 1) BY <1>1, <1>4, <1>5, LastOne
<1>7. /\ SubSeq(t, 1, Len(p) - 1) \in Seq(Char) /\ Len(SubSeq(t, 1, Len(p) - 1)) = Len(p) - 1
      /\ \A i \in 1..(Len(p) - 1) : SubSeq(t, 1, Len(p) - 1)[i] = t[i]
  <2>1. t \in Seq(Char) /\ Len(p) - 1 \in 0..Len(t) BY <1>1, <1>2, <1>3 DEF Str
  <2> QED BY <2>1, Prefix
<1>8. CASE d = Top
  <2>1. BeforeLast(t, Slash) = <<>> BY <1>2, <1>6, <1>7, <1>8, EmptySeq
  <2>2. Strlcat(<<>>, Top, Size) = <<>> \o Top
    <3>1. <<>> \in Str /\ Len(<<>>) + Len(Top) < Size /\ Size \in Nat
      BY TopLevel, SizeAssumption DEF Str
    <3> QED BY <3>1, TopLevel, StrlcatFits
  <2>3. <<>> \o Top = Top BY TopLevel, ConcatEmptySeq DEF Str
  <2> QED BY <1>8, <2>1, <2>2, <2>3 DEF Leave, Top, t
<1>9. CASE d # Top
  <2>1. Len(p) - 1 = Len(d) BY <1>2, <1>9
  <2>2. \A i \in 1..Len(d) : SubSeq(t, 1, Len(p) - 1)[i] = d[i]
    <3>1. ASSUME NEW i \in 1..Len(d) PROVE t[i] = d[i]
      <4>1. i \in 1..(Len(p) + Len(n)) /\ i <= Len(p) BY <1>2, <1>3
      <4> QED BY <1>1, <1>2, <4>1
    <3> QED BY <1>7, <2>1, <3>1
  <2>3. d \in Seq(Char) /\ d # <<>> BY DEF Str, Level
  <2>4. SubSeq(t, 1, Len(p) - 1) = d BY <1>7, <2>1, <2>2, <2>3, Same
  <2> QED BY <1>6, <2>3, <2>4 DEF Leave, t
<1> QED BY <1>8, <1>9

\* The name of an entry adds no place that leads up.
LEMMA BelowUps ==
  ASSUME NEW d \in Str, Level(d), Ups(d) = {}, NEW n, Entry(n)
  PROVE  Ups(Below(d, n)) = {}
<1> DEFINE t == Below(d, n)
           p == Stem(d)
<1>1. /\ t \in Str /\ Len(t) = Len(p) + Len(n)
      /\ \A i \in 1..(Len(p) + Len(n)) : t[i] = IF i <= Len(p) THEN p[i] ELSE n[i - Len(p)]
  BY BelowType DEF Entry
<1>2. /\ p \in Str /\ Len(p) \in Nat \ {0} /\ p[Len(p)] = Slash
      /\ Len(p) = IF d = Top THEN 1 ELSE Len(d) + 1
      /\ Len(d) \in 1..Len(p) /\ \A i \in 1..Len(d) : p[i] = d[i]
  BY StemType
<1>3. Len(n) \in Nat /\ \A i \in 1..Len(n) : n[i] # Slash
  BY LenProperties DEF Entry, Has, Str
<1>4. Len(d) \in Nat /\ (d = Top => Len(d) = 1) BY TopLevel, LenProperties DEF Str
<1>5. SUFFICES ASSUME NEW i \in Ups(t) PROVE FALSE OBVIOUS
<1>6. /\ i \in 1..Len(t) /\ i + 2 <= Len(t)
      /\ t[i] = Slash /\ t[i + 1] = Dot /\ t[i + 2] = Dot
      /\ i + 2 < Len(t) => t[i + 3] = Slash
  BY <1>5 DEF Ups
<1> HIDE DEF t, p
<1>7. CASE i > Len(p)
  <2>1. i - Len(p) \in 1..Len(n) /\ i \in 1..(Len(p) + Len(n)) BY <1>1, <1>2, <1>3, <1>6, <1>7
  <2> QED BY <1>1, <1>2, <1>3, <1>6, <1>7, <2>1
<1>8. CASE i = Len(p)
  <2>1. 1 \in 1..Len(n) /\ 2 \in 1..Len(n) BY <1>1, <1>2, <1>3, <1>6, <1>8
  <2>2. n[1] = Dot
    <3>1. i + 1 \in 1..(Len(p) + Len(n)) /\ ~(i + 1 <= Len(p)) /\ i + 1 - Len(p) = 1
      BY <1>2, <1>3, <1>8, <2>1
    <3> QED BY <1>1, <1>6, <3>1
  <2>3. n[2] = Dot
    <3>1. i + 2 \in 1..(Len(p) + Len(n)) /\ ~(i + 2 <= Len(p)) /\ i + 2 - Len(p) = 2
      BY <1>2, <1>3, <1>8, <2>1
    <3> QED BY <1>1, <1>6, <3>1
  <2>4. CASE Len(n) = 2
    <3>1. Up \in Seq(Char) /\ Len(Up) = 2 /\ Up[1] = Dot /\ Up[2] = Dot
      BY CharAssumption DEF Up
    <3>2. n \in Seq(Char) BY DEF Entry, Str
    <3>3. \A k \in 1..Len(n) : n[k] = Up[k]
      <4>1. \A k \in 1..2 : k = 1 \/ k = 2 OBVIOUS
      <4> QED BY <2>2, <2>3, <2>4, <3>1, <4>1
    <3>4. n = Up BY <2>4, <3>1, <3>2, <3>3, Same
    <3> QED BY <3>4 DEF Entry
  <2>5. CASE Len(n) > 2
    <3>1. /\ 3 \in 1..Len(n) /\ i + 2 < Len(t)
          /\ i + 3 \in 1..(Len(p) + Len(n)) /\ ~(i + 3 <= Len(p)) /\ i + 3 - Len(p) = 3
      <4>1. Len(n) >= 3 BY <1>3, <2>5
      <4>2. Len(t) = Len(p) + Len(n) BY <1>1
      <4> QED BY <1>2, <1>3, <1>8, <4>1, <4>2
    <3>2. n[3] = Slash BY <1>1, <1>6, <3>1
    <3> QED BY <1>3, <3>1, <3>2
  <2>6. Len(n) = 2 \/ Len(n) > 2
    <3>1. Len(n) \in Nat /\ Len(n) >= 2 BY <1>3, <2>1
    <3>2. \A m \in Nat : m >= 2 => m = 2 \/ m > 2 OBVIOUS
    <3> QED BY <3>1, <3>2
  <2> QED BY <2>4, <2>5, <2>6
<1>9. CASE i < Len(p)
  <2>1. \A k \in 1..Len(p) : k \in 1..(Len(p) + Len(n)) /\ t[k] = p[k] BY <1>1, <1>2, <1>3
  <2>2. i + 1 # Len(p) /\ i + 2 # Len(p)
    <3>1. i + 1 \in 1..Len(p) BY <1>2, <1>6, <1>9
    <3>2. i + 1 # Len(p) BY <1>2, <1>6, <2>1, <3>1, CharAssumption
    <3>3. i + 2 \in 1..Len(p) BY <1>2, <1>6, <3>1, <3>2
    <3> QED BY <1>2, <1>6, <2>1, <3>2, <3>3, CharAssumption
  <2>3. i + 3 <= Len(p) /\ i \in 1..Len(p) BY <1>2, <1>6, <1>9, <2>2
  <2>4. d # Top /\ Len(p) = Len(d) + 1 BY <1>2, <2>3
  <2>5. i \in 1..Len(d) /\ i + 1 \in 1..Len(d) /\ i + 2 \in 1..Len(d) /\ i + 2 <= Len(d)
    BY <1>4, <1>6, <2>3, <2>4
  <2>6. d[i] = Slash /\ d[i + 1] = Dot /\ d[i + 2] = Dot BY <1>2, <1>6, <2>1, <2>4, <2>5
  <2>7. i + 2 < Len(d) => d[i + 3] = Slash
    <3>1. ASSUME i + 2 < Len(d) PROVE d[i + 3] = Slash
      <4>1. i + 3 \in 1..Len(d) /\ i + 3 \in 1..Len(p) /\ i + 2 < Len(t)
        BY <1>1, <1>3, <1>4, <2>3, <2>4, <2>5, <3>1
      <4> QED BY <1>2, <1>6, <2>1, <4>1
    <3> QED BY <3>1
  <2>8. i \in Ups(d) BY <2>5, <2>6, <2>7 DEF Ups
  <2> QED BY <2>8
<1> QED BY <1>2, <1>6, <1>7, <1>8, <1>9

\* handle_cd, where there is room: the name is cut at the end of the buffer.
LEMMA EnterCut ==
  ASSUME NEW d \in Str, Level(d), Len(d) < Size - 1, NEW n \in Str
  PROVE  \E m \in Str : /\ Enter(d, n) = Below(d, m)
                        /\ Below(d, m) = Cut(Below(d, n), Size - 1)
                        /\ \A k \in 1..Len(m) : k \in 1..Len(n) /\ m[k] = n[k]
<1> DEFINE p == Stem(d)
           l == Size - Len(p) - 1
           m == Cut(n, l)
<1>1. /\ Size \in Nat /\ Size > 1 /\ <<Slash>> \in Str /\ Len(<<Slash>>) = 1
      /\ Len(d) \in Nat /\ Len(n) \in Nat
  BY SizeAssumption, TopLevel, LenProperties DEF Top, Str
<1>2. /\ p \in Str /\ Len(p) \in Nat \ {0}
      /\ Len(p) = IF d = Top THEN 1 ELSE Len(d) + 1
      /\ Len(d) \in 1..Len(p)
  BY StemType
<1>3. l \in Nat /\ ~(Size <= Len(p)) BY <1>1, <1>2
<1>4. (IF d # Top THEN Strlcat(d, <<Slash>>, Size) ELSE d) = p
  <2>1. CASE d = Top BY <2>1 DEF Stem
  <2>2. CASE d # Top
    <3>1. Len(d) + Len(<<Slash>>) < Size BY <1>1
    <3>2. Strlcat(d, <<Slash>>, Size) = d \o <<Slash>> BY <1>1, <3>1, StrlcatFits
    <3> QED BY <2>2, <3>2 DEF Stem
  <2> QED BY <2>1, <2>2
<1>5. Enter(d, n) = Below(d, m)
  <2>1. Strlcat(p, n, Size) = p \o m BY <1>3 DEF Strlcat
  <2> QED BY <1>4, <2>1 DEF Enter, Below, Stem
<1>6. m \in Str /\ Len(m) <= l BY <1>3, CutType
<1>7. /\ Below(d, n) \in Str /\ Len(Below(d, n)) = Len(p) + Len(n)
      /\ \A i \in 1..(Len(p) + Len(n)) :
           Below(d, n)[i] = IF i <= Len(p) THEN p[i] ELSE n[i - Len(p)]
  BY BelowType
<1>8. /\ Below(d, m) \in Str /\ Len(Below(d, m)) = Len(p) + Len(m)
      /\ \A i \in 1..(Len(p) + Len(m)) :
           Below(d, m)[i] = IF i <= Len(p) THEN p[i] ELSE m[i - Len(p)]
  BY <1>6, BelowType
<1>a. /\ Len(p) \in Nat /\ l = Size - Len(p) - 1 /\ Len(n) \in Nat /\ l \in Nat
      /\ Size \in Nat /\ Size > 1 /\ Len(Below(d, n)) = Len(p) + Len(n)
  BY <1>1, <1>2, <1>3, <1>7
<1> HIDE DEF p, l
<1>9. CASE Len(n) <= l
  <2>1. m = n BY <1>3, <1>9, CutType
  <2>2. Len(Below(d, n)) <= Size - 1 /\ Size - 1 \in Nat BY <1>a, <1>9
  <2>3. Cut(Below(d, n), Size - 1) = Below(d, n) BY <1>7, <2>2, CutType
  <2> QED BY <1>5, <1>6, <2>1, <2>3
<1>10. CASE ~(Len(n) <= l)
  <2>1. m = SubSeq(n, 1, l) BY <1>10 DEF Cut
  <2>2. Len(m) = l /\ \A k \in 1..l : m[k] = n[k]
    <3>1. n \in Seq(Char) /\ l \in 0..Len(n) BY <1>1, <1>3, <1>10 DEF Str
    <3> QED BY <2>1, <3>1, Prefix
  <2>3. Size - 1 \in 0..Len(Below(d, n)) /\ ~(Len(Below(d, n)) <= Size - 1)
    BY <1>a, <1>10
  <2> HIDE DEF m
  <2>4. Len(p) + Len(m) = Size - 1 BY <1>a, <2>2
  <2>5. /\ SubSeq(Below(d, n), 1, Size - 1) \in Seq(Char)
        /\ Len(SubSeq(Below(d, n), 1, Size - 1)) = Size - 1
        /\ \A i \in 1..(Size - 1) : SubSeq(Below(d, n), 1, Size - 1)[i] = Below(d, n)[i]
    <3>1. Below(d, n) \in Seq(Char) BY <1>7 DEF Str
    <3> QED BY <2>3, <3>1, Prefix
  <2>6. \A i \in 1..(Size - 1) : Below(d, m)[i] = Below(d, n)[i]
    <3> SUFFICES ASSUME NEW i \in 1..(Size - 1) PROVE Below(d, m)[i] = Below(d, n)[i] OBVIOUS
    <3>1. i \in 1..(Len(p) + Len(m)) BY <2>4
    <3>2. i \in 1..(Len(p) + Len(n)) BY <1>a, <2>3
    <3>3. CASE i <= Len(p) BY <1>7, <1>8, <3>1, <3>2, <3>3
    <3>4. CASE ~(i <= Len(p))
      <4>1. i - Len(p) \in 1..l BY <1>a, <3>4
      <4> QED BY <1>7, <1>8, <2>2, <3>1, <3>2, <3>4, <4>1
    <3> QED BY <3>3, <3>4
  <2>7. SubSeq(Below(d, n), 1, Size - 1) = Below(d, m)
    <3>1. Below(d, m) \in Seq(Char) /\ Len(Below(d, m)) = Size - 1 BY <1>8, <2>4 DEF Str
    <3> QED BY <2>5, <2>6, <3>1, Same
  <2>8. Cut(Below(d, n), Size - 1) = Below(d, m) BY <2>3, <2>7 DEF Cut
  <2>9. \A k \in 1..Len(m) : k \in 1..Len(n) /\ m[k] = n[k] BY <1>1, <1>3, <1>10, <2>2
  <2> QED BY <1>5, <1>6, <2>8, <2>9
<1> QED BY <1>9, <1>10

\* handle_cd in a full directory adds nothing.
LEMMA EnterFull ==
  ASSUME NEW d \in Str, Level(d), ~(Len(d) < Size - 1), NEW n \in Str
  PROVE  Enter(d, n) = d
<1>1. /\ Size \in Nat /\ Len(d) \in Nat /\ Len(d) < Size /\ <<Slash>> \in Str
  BY SizeAssumption, TopLevel, LenProperties DEF Level, Top, Str
<1>2. Size - Len(d) - 1 = 0 /\ ~(Size <= Len(d)) BY <1>1
<1>3. ASSUME NEW s \in Str PROVE Strlcat(d, s, Size) = d
  <2>1. Cut(s, 0) \in Str /\ Len(Cut(s, 0)) <= 0 BY CutType
  <2>2. Len(Cut(s, 0)) \in Nat /\ Cut(s, 0) \in Seq(Char) BY <2>1, LenProperties DEF Str
  <2>3. Cut(s, 0) = <<>> BY <2>1, <2>2, EmptySeq
  <2>4. d \o <<>> = d BY ConcatEmptySeq DEF Str
  <2> QED BY <1>2, <2>3, <2>4 DEF Strlcat
<1> QED BY <1>1, <1>3 DEF Enter

\* cd adds no component '..', but for a name that is cut at the end of the buffer.
LEMMA EnterUps ==
  ASSUME NEW d \in Str, Level(d), Ups(d) \subseteq {Size - 3}, NEW n, Entry(n)
  PROVE  Ups(Enter(d, n)) \subseteq {Size - 3}
<1>1. n \in Str /\ Size \in Nat /\ Len(d) \in Nat
  BY SizeAssumption, LenProperties DEF Entry, Str
<1>2. CASE ~(Len(d) < Size - 1) BY <1>1, <1>2, EnterFull
<1>3. CASE Len(d) < Size - 1
  <2>1. Ups(d) = {} BY <1>1, <1>3 DEF Ups
  <2> DEFINE t == Below(d, n)
             c == Cut(t, Size - 1)
  <2>2. Ups(t) = {} BY <2>1, BelowUps
  <2>3. t \in Str BY <1>1, BelowType
  <2>4. Enter(d, n) = c BY <1>1, <1>3, EnterCut
  <2> HIDE DEF t
  <2>5. Size - 1 \in Nat /\ Len(t) \in Nat BY <1>1, <1>3, <2>3, LenProperties DEF Str
  <2>6. CASE Len(t) <= Size - 1 BY <2>2, <2>3, <2>4, <2>5, <2>6, CutType
  <2>7. CASE ~(Len(t) <= Size - 1)
    <3>1. t \in Seq(Char) /\ Size - 1 \in 0..Len(t) BY <2>3, <2>5, <2>7 DEF Str
    <3>2. c = SubSeq(t, 1, Size - 1) BY <2>7 DEF Cut
    <3>3. Len(c) = Size - 1 /\ \A k \in 1..(Size - 1) : c[k] = t[k] BY <3>1, <3>2, Prefix
    <3> HIDE DEF c
    <3>4. ASSUME NEW i \in Ups(c), i # Size - 3 PROVE FALSE
      <4>1. /\ i \in 1..Len(c) /\ i + 2 <= Len(c)
            /\ c[i] = Slash /\ c[i + 1] = Dot /\ c[i + 2] = Dot
            /\ i + 2 < Len(c) => c[i + 3] = Slash
        BY <3>4 DEF Ups
      <4>2. /\ i \in 1..(Size - 1) /\ i + 1 \in 1..(Size - 1) /\ i + 2 \in 1..(Size - 1)
            /\ i + 3 \in 1..(Size - 1) /\ i + 2 < Len(c)
        BY <1>1, <3>3, <3>4, <4>1
      <4>3. t[i] = Slash /\ t[i + 1] = Dot /\ t[i + 2] = Dot /\ t[i + 3] = Slash
        BY <3>3, <4>1, <4>2
      <4>4. i \in 1..Len(t) /\ i + 2 <= Len(t) BY <1>1, <2>5, <2>7, <4>2
      <4>5. i \in Ups(t) BY <4>3, <4>4 DEF Ups
      <4> QED BY <2>2, <4>5
    <3> QED BY <2>4, <3>4
  <2> QED BY <2>6, <2>7
<1> QED BY <1>2, <1>3

\* cd .. leaves no component '..' behind.
LEMMA LeaveUps ==
  ASSUME NEW d \in Str, Level(d), Ups(d) \subseteq {Size - 3}
  PROVE  Ups(Leave(d)) = {}
<1>1. Len(d) \in Nat /\ Size \in Nat /\ Len(d) < Size /\ 1 \in 1..Len(d)
  BY SizeAssumption, EmptySeq, LenProperties DEF Level, Str
<1>2. Has(d, Slash) BY <1>1 DEF Has, Level
<1>3. PICK k \in 1..Len(d) : d[k] = Slash /\ \A j \in (k + 1)..Len(d) : d[j] # Slash
  BY <1>2, LastExists
<1> DEFINE u == SubSeq(d, 1, k - 1)
<1>4. BeforeLast(d, Slash) = u BY <1>3, LastOne
<1>5. /\ u \in Seq(Char) /\ Len(u) = k - 1 /\ \A i \in 1..(k - 1) : u[i] = d[i]
  <2>1. d \in Seq(Char) /\ k - 1 \in 0..Len(d) BY <1>1 DEF Str
  <2> QED BY <2>1, Prefix
<1> HIDE DEF u
<1>6. CASE u = <<>>
  <2>1. Strlcat(<<>>, Top, Size) = <<>> \o Top
    <3>1. <<>> \in Str /\ Len(<<>>) + Len(Top) < Size /\ Size \in Nat
      BY TopLevel, SizeAssumption DEF Str
    <3> QED BY <3>1, TopLevel, StrlcatFits
  <2>2. <<>> \o Top = Top BY TopLevel, ConcatEmptySeq DEF Str
  <2>3. Leave(d) = Top BY <1>4, <1>6, <2>1, <2>2 DEF Leave, Top
  <2> QED BY <2>3 DEF Ups, Top
<1>7. CASE u # <<>>
  <2>1. Leave(d) = u BY <1>4, <1>7 DEF Leave
  <2>2. ASSUME NEW i \in Ups(u) PROVE FALSE
    <3>1. /\ i \in 1..(k - 1) /\ i + 2 <= k - 1
          /\ u[i] = Slash /\ u[i + 1] = Dot /\ u[i + 2] = Dot
          /\ i + 2 < k - 1 => u[i + 3] = Slash
      BY <1>5, <2>2 DEF Ups
    <3>2. i + 1 \in 1..(k - 1) /\ i + 2 \in 1..(k - 1) BY <3>1
    <3>3. d[i] = Slash /\ d[i + 1] = Dot /\ d[i + 2] = Dot BY <1>5, <3>1, <3>2
    <3>4. d[i + 3] = Slash
      <4>1. CASE i + 2 < k - 1
        <5>1. i + 3 \in 1..(k - 1) BY <3>1, <4>1
        <5> QED BY <1>5, <3>1, <4>1, <5>1
      <4>2. CASE i + 2 = k - 1
        <5>1. i + 3 = k BY <3>1, <4>2
        <5> QED BY <1>3, <5>1
      <4> QED BY <3>1, <4>1, <4>2
    <3>5. i \in 1..Len(d) /\ i + 2 <= Len(d) BY <1>1, <3>1
    <3>6. i \in Ups(d) BY <3>3, <3>4, <3>5 DEF Ups
    <3>7. i # Size - 3 BY <1>1, <3>1
    <3> QED BY <3>6, <3>7
  <2> QED BY <2>1, <2>2
<1> QED BY <1>6, <1>7

-----------------------------------------------------------------------------
(* The invariant. *)

LEMMA TopUncut == Cut(Top, Size - 1) = Top
<1>1. Size - 1 \in Nat /\ Len(Top) <= Size - 1 BY SizeAssumption, TopLevel
<1> QED BY <1>1, TopLevel, CutType

LEMMA InitIInv == Init => IInv
<1> SUFFICES ASSUME Init PROVE IInv OBVIOUS
<1>1. /\ cwd = Top /\ asked = <<>> /\ wanted = [dir |-> Top, name |-> <<>>]
      /\ trail = <<Top>> /\ traced = TRUE
  BY DEF Init
<1>2. Ups(Top) = {} BY DEF Ups, Top
<1>3. Len(trail) = 1 /\ trail[1] = Top BY <1>1
<1>4. TypeOK
  <2>1. Top \in Seq(Char) /\ Top # <<>> /\ Top[1] = Slash /\ Len(Top) < Size
    BY TopLevel DEF Level, Str
  <2>2. <<>> \in Seq(Char) /\ <<Top>> \in Seq(Seq(Char)) /\ <<Top>> # <<>> BY <2>1
  <2> QED BY <1>1, <2>1, <2>2 DEF TypeOK
<1>5. Way
  <2>1. Last(trail) = Top BY <1>3 DEF Last
  <2>2. \A k \in 1..Len(trail) : Ups(trail[k]) = {} BY <1>2, <1>3
  <2>3. \A k \in 2..Len(trail) : FALSE BY <1>3
  <2> QED BY <1>1, <1>3, <2>1, <2>2, <2>3, TopUncut DEF Way
<1>6. AtEnd BY <1>1, <1>2 DEF AtEnd
<1> QED BY <1>4, <1>5, <1>6 DEF IInv

\* What the invariant says of where the session is.
LEMMA Here ==
  ASSUME IInv
  PROVE  /\ cwd \in Str /\ Level(cwd) /\ Last(trail) \in Str
         /\ Len(trail) \in Nat /\ Len(trail) >= 1
         /\ Ups(cwd) \subseteq {Size - 3}
         /\ traced => cwd = Cut(Last(trail), Size - 1) /\ Ups(Last(trail)) = {}
         /\ traced /\ Len(Last(trail)) < Size => cwd = Last(trail)
<1>1. cwd \in Str /\ Level(cwd) BY DEF IInv, TypeOK, Level, Str
<1>2. trail \in Seq(Seq(Char)) /\ trail # <<>> BY DEF IInv, TypeOK
<1>3. Len(trail) \in Nat /\ Len(trail) >= 1 BY <1>2, EmptySeq, LenProperties
<1>4. Last(trail) \in Str BY <1>2, <1>3, ElementOfSeq DEF Last, Str
<1>5. traced => cwd = Cut(Last(trail), Size - 1) /\ Ups(Last(trail)) = {}
  <2>1. Len(trail) \in 1..Len(trail) BY <1>3
  <2> QED BY <2>1 DEF IInv, Way, Last
<1>6. ASSUME traced, Len(Last(trail)) < Size PROVE cwd = Last(trail)
  <2>1. Len(Last(trail)) <= Size - 1 /\ Size - 1 \in Nat
    BY <1>4, <1>6, SizeAssumption, LenProperties DEF Str
  <2> QED BY <1>4, <1>5, <1>6, <2>1, CutType
<1> QED BY <1>1, <1>3, <1>4, <1>5, <1>6 DEF IInv, AtEnd

\* What is given to the kernel is a string.
LEMMA AskType ==
  ASSUME IInv, NEW n \in Names
  PROVE  DirPath(n) \in Seq(Char) /\ FilePath(n) \in Seq(Char)
<1>1. /\ cwd \in Str /\ n \in Str /\ Root \in Str /\ <<Slash>> \in Str
      /\ Len(<<Slash>>) = 1 /\ Size \in Nat /\ BigSize \in Nat /\ Len(Root) < Size
  BY Here, TopLevel, SizeAssumption, NameAssumption DEF Top, Str
<1>2. /\ Len(n) \in Nat /\ Len(cwd) \in Nat /\ Len(Root) \in Nat
      /\ Len(Root) + Size + Len(n) < BigSize
  BY <1>1, SizeAssumption, LenProperties DEF Str
<1>3. FilePath(n) \in Str
  <2> DEFINE d == Strlcat(Root, cwd, Size)
             e == IF cwd # Top THEN Strlcat(d, <<Slash>>, Size) ELSE d
  <2>1. d \in Str /\ Len(d) < Size BY <1>1, StrlcatType
  <2> HIDE DEF d
  <2>2. e \in Str /\ Len(e) < Size BY <1>1, <2>1, StrlcatType
  <2> HIDE DEF e
  <2>3. Strlcat(e, n, Size) \in Str BY <1>1, <2>2, StrlcatType
  <2> QED BY <2>3 DEF FilePath, d, e
<1>4. DirPath(n) \in Str
  <2> DEFINE r == Cut(Root, BigSize)
             d == Strlcat(r, cwd, BigSize)
             e == Strlcat(d, <<Slash>>, BigSize)
  <2>1. r = Root
    <3>1. Len(Root) <= BigSize BY <1>1, <1>2
    <3> QED BY <1>1, <3>1, CutType
  <2>2. Len(Root) < BigSize BY <1>1, <1>2
  <2>3. d \in Str /\ Len(d) < BigSize BY <1>1, <2>1, <2>2, StrlcatType
  <2> HIDE DEF r, d
  <2>4. e \in Str /\ Len(e) < BigSize BY <1>1, <2>3, StrlcatType
  <2> HIDE DEF e
  <2>5. Strlcat(e, n, BigSize) \in Str BY <1>1, <2>4, StrlcatType
  <2> QED BY <2>5 DEF DirPath, r, d, e
<1> QED BY <1>3, <1>4 DEF Str

LEMMA ListType == ASSUME IInv PROVE ListPath \in Seq(Char)
<1>1. cwd \in Str /\ Root \in Str /\ Size \in Nat /\ Len(Root) < Size
  BY Here, SizeAssumption DEF Str
<1> QED BY <1>1, StrlcatType DEF ListPath, Str

LEMMA AskStep ==
  ASSUME IInv, NEW path \in Seq(Char), NEW n \in Seq(Char), Ask(path, n)
  PROVE  asked' \in Seq(Char) /\ wanted' \in [dir : Seq(Char), name : Seq(Char)]
BY Here DEF Ask, Str

\* A step that leaves the directory alone.
LEMMA Stays ==
  ASSUME IInv, UNCHANGED <<cwd, trail, traced>>,
         asked' \in Seq(Char), wanted' \in [dir : Seq(Char), name : Seq(Char)]
  PROVE  IInv'
<1>1. TypeOK' BY DEF IInv, TypeOK
<1>2. Way' /\ AtEnd' BY DEF IInv, Way, AtEnd
<1> QED BY <1>1, <1>2 DEF IInv

\* cd name, when the name is one of a directory.
LEMMA EnterStep ==
  ASSUME IInv, NEW n, Entry(n), cwd' = Enter(cwd, n), Push(n),
         asked' \in Seq(Char), wanted' \in [dir : Seq(Char), name : Seq(Char)]
  PROVE  IInv'
<1>1. /\ cwd \in Str /\ Level(cwd) /\ Last(trail) \in Str /\ n \in Str
      /\ Len(trail) \in Nat /\ Len(trail) >= 1 /\ trail \in Seq(Seq(Char))
      /\ Ups(cwd) \subseteq {Size - 3} /\ traced \in BOOLEAN /\ Size \in Nat
  BY Here, SizeAssumption DEF Entry, IInv, TypeOK
<1>2. Level(Enter(cwd, n)) BY <1>1, EnterLevel
<1>3. cwd' \in Seq(Char) /\ cwd' # <<>> /\ cwd'[1] = Slash /\ Len(cwd') < Size
  BY <1>2 DEF Level, Str
<1>4. AtEnd' BY <1>1, EnterUps DEF AtEnd
<1>5. CASE ~traced
  <2>1. trail' = trail /\ traced' = traced BY <1>5 DEF Push
  <2>2. TypeOK' BY <1>3, <2>1 DEF IInv, TypeOK
  <2>3. Way' BY <1>5, <2>1 DEF Way
  <2> QED BY <1>4, <2>2, <2>3 DEF IInv
<1>6. CASE traced
  <2> DEFINE b == Below(Last(trail), n)
  <2>1. trail' = Append(trail, b) /\ traced' = (Len(Last(trail)) < Size - 1)
    BY <1>6 DEF Push
  <2>2. b \in Seq(Char)
    <3>1. Last(trail) \in Seq(Char) /\ <<Slash>> \in Seq(Char) /\ n \in Seq(Char)
      BY <1>1, CharAssumption DEF Str
    <3>2. Last(trail) \o <<Slash>> \in Seq(Char) BY <3>1, Cat
    <3>3. (IF Last(trail) = Top THEN Last(trail) ELSE Last(trail) \o <<Slash>>) \in Seq(Char)
      BY <3>1, <3>2
    <3> QED BY <3>1, <3>3, Cat DEF Below
  <2> HIDE DEF b
  <2>3. /\ Append(trail, b) \in Seq(Seq(Char)) /\ Append(trail, b) # <<>>
        /\ Len(Append(trail, b)) = Len(trail) + 1
        /\ Append(trail, b)[Len(trail) + 1] = b
        /\ \A k \in 1..Len(trail) : Append(trail, b)[k] = trail[k]
    <3> DEFINE S == Seq(Char)
    <3>1. trail \in Seq(S) /\ b \in S BY <1>1, <2>2
    <3> HIDE DEF S
    <3>2. /\ Append(trail, b) \in Seq(S) /\ Append(trail, b) # <<>>
          /\ Len(Append(trail, b)) = Len(trail) + 1
          /\ Append(trail, b)[Len(trail) + 1] = b
          /\ \A k \in 1..Len(trail) : Append(trail, b)[k] = trail[k]
      BY <3>1, Appended
    <3> QED BY <3>2 DEF S
  <2>4. TypeOK' BY <1>3, <2>1, <2>3 DEF TypeOK
  <2>5. CASE ~(Len(Last(trail)) < Size - 1)
    <3>1. ~traced' BY <2>1, <2>5
    <3>2. Way' BY <3>1 DEF Way
    <3> QED BY <1>4, <2>4, <3>2 DEF IInv
  <2>6. CASE Len(Last(trail)) < Size - 1
    <3>1. Len(Last(trail)) < Size BY <1>1, <2>6, LenProperties DEF Str
    <3>2. cwd = Last(trail) /\ Ups(cwd) = {} BY <1>6, <3>1, Here
    <3>3. b = Below(cwd, n) BY <3>2 DEF b
    <3>4. cwd' = Cut(b, Size - 1) BY <1>1, <2>6, <3>2, <3>3, EnterCut
    <3>5. Ups(b) = {} BY <1>1, <3>2, <3>3, BelowUps
    <3>6. Last(trail)' = b BY <2>1, <2>3 DEF Last
    <3>7. trail'[1] = Top BY <1>1, <1>6, <2>1, <2>3 DEF IInv, Way
    <3>8. ASSUME NEW k \in 1..Len(trail') PROVE Ups(trail'[k]) = {}
      <4>1. CASE k = Len(trail) + 1 BY <2>1, <2>3, <3>5, <4>1
      <4>2. CASE k \in 1..Len(trail) BY <1>6, <2>1, <2>3, <4>2 DEF IInv, Way
      <4>3. k \in 1..(Len(trail) + 1) BY <2>1, <2>3
      <4>4. k = Len(trail) + 1 \/ k \in 1..Len(trail) BY <1>1, <4>3
      <4> QED BY <4>1, <4>2, <4>4
    <3>9. ASSUME NEW k \in 2..Len(trail')
          PROVE  /\ Level(trail'[k - 1]) /\ Len(trail'[k - 1]) < Size - 1
                 /\ \E m : Entry(m) /\ trail'[k] = Below(trail'[k - 1], m)
      <4>1. CASE k = Len(trail) + 1
        <5>1. k - 1 = Len(trail) /\ Len(trail) \in 1..Len(trail) BY <1>1, <4>1
        <5>2. trail'[k] = b /\ trail'[k - 1] = cwd BY <2>1, <2>3, <3>2, <4>1, <5>1 DEF Last
        <5> QED BY <1>1, <2>6, <3>2, <3>3, <5>2
      <4>2. CASE k \in 2..Len(trail)
        <5>1. k \in 1..Len(trail) /\ k - 1 \in 1..Len(trail) BY <1>1, <4>2
        <5>2. trail'[k] = trail[k] /\ trail'[k - 1] = trail[k - 1] BY <2>1, <2>3, <5>1
        <5>3. /\ Level(trail[k - 1]) /\ Len(trail[k - 1]) < Size - 1
              /\ \E m : Entry(m) /\ trail[k] = Below(trail[k - 1], m)
          BY <1>6, <4>2 DEF IInv, Way
        <5> QED BY <5>2, <5>3
      <4>3. k \in 2..(Len(trail) + 1) BY <2>1, <2>3
      <4> QED BY <1>1, <4>1, <4>2, <4>3
    <3>10. cwd' = Cut(Last(trail)', Size - 1) BY <3>4, <3>6
    <3>11. Way' BY <3>7, <3>8, <3>9, <3>10 DEF Way
    <3> QED BY <1>4, <2>4, <3>11 DEF IInv
  <2> QED BY <2>5, <2>6
<1> QED BY <1>1, <1>5, <1>6

\* cd .. : the element of trail before the last is where it leads.
LEMMA LeaveStep ==
  ASSUME IInv, CdUp
  PROVE  IInv'
<1>1. /\ cwd \in Str /\ Level(cwd) /\ Len(trail) \in Nat /\ Len(trail) >= 1
      /\ trail \in Seq(Seq(Char)) /\ traced \in BOOLEAN
      /\ Ups(cwd) \subseteq {Size - 3} /\ Size \in Nat
  BY Here, SizeAssumption DEF IInv, TypeOK
<1>2. cwd # Top /\ cwd' = Leave(cwd) /\ Pop /\ UNCHANGED <<asked, wanted>> BY DEF CdUp
<1>3. Level(cwd') BY <1>1, <1>2, LeaveLevel
<1>4. cwd' \in Seq(Char) /\ cwd' # <<>> /\ cwd'[1] = Slash /\ Len(cwd') < Size
  BY <1>3 DEF Level, Str
<1>5. AtEnd' BY <1>1, <1>2, LeaveUps DEF AtEnd
<1>6. CASE traced
  <2>1. trail' = Front(trail) /\ traced' = traced BY <1>2, <1>6 DEF Pop
  <2>2. Len(trail) >= 2
    <3>1. ASSUME Len(trail) = 1 PROVE FALSE
      <4>1. Last(trail) = Top BY <1>6, <3>1 DEF IInv, Way, Last
      <4>2. cwd = Cut(Last(trail), Size - 1) BY <1>6 DEF IInv, Way
      <4> QED BY <1>2, <4>1, <4>2, TopUncut
    <3>2. Len(trail) \in Nat /\ Len(trail) >= 1 BY <1>1
    <3>3. \A i \in Nat : i >= 1 /\ i # 1 => i >= 2 OBVIOUS
    <3> QED BY <3>1, <3>2, <3>3
  <2>3. Len(trail) - 1 \in 0..Len(trail) BY <1>1
  <2>4. /\ trail' \in Seq(Seq(Char)) /\ Len(trail') = Len(trail) - 1
        /\ \A k \in 1..(Len(trail) - 1) : trail'[k] = trail[k]
    BY <1>1, <2>1, <2>3, Prefix DEF Front
  <2>5. trail' # <<>> BY <2>2, <2>4, EmptySeq
  <2>6. TypeOK' BY <1>2, <1>4, <1>6, <2>1, <2>4, <2>5 DEF IInv, TypeOK
  <2>7. /\ trail'[1] = Top
        /\ \A k \in 1..Len(trail') : Ups(trail'[k]) = {}
    <3>1. 1 \in 1..(Len(trail) - 1) BY <1>1, <2>2
    <3>2. trail[1] = Top BY <1>6 DEF IInv, Way
    <3>3. ASSUME NEW k \in 1..Len(trail') PROVE Ups(trail'[k]) = {}
      <4>1. k \in 1..(Len(trail) - 1) BY <2>4
      <4>2. k \in 1..Len(trail) BY <1>1, <4>1
      <4>3. Ups(trail[k]) = {} BY <1>6, <4>2 DEF IInv, Way
      <4> QED BY <2>4, <4>1, <4>3
    <3> QED BY <2>4, <3>1, <3>2, <3>3
  <2>8. ASSUME NEW k \in 2..Len(trail')
        PROVE  /\ Level(trail'[k - 1]) /\ Len(trail'[k - 1]) < Size - 1
               /\ \E n : Entry(n) /\ trail'[k] = Below(trail'[k - 1], n)
    <3>1. /\ k \in 2..Len(trail) /\ k \in 1..(Len(trail) - 1) /\ k - 1 \in 1..(Len(trail) - 1)
      <4>1. Len(trail) \in Nat /\ Len(trail') = Len(trail) - 1 BY <1>1, <2>4
      <4> QED BY <4>1
    <3>2. trail'[k] = trail[k] /\ trail'[k - 1] = trail[k - 1] BY <2>4, <3>1
    <3>3. /\ Level(trail[k - 1]) /\ Len(trail[k - 1]) < Size - 1
          /\ \E n : Entry(n) /\ trail[k] = Below(trail[k - 1], n)
      BY <1>6, <3>1 DEF IInv, Way
    <3> QED BY <3>2, <3>3
  <2>9. cwd' = Cut(Last(trail)', Size - 1)
    <3> DEFINE d == trail[Len(trail) - 1]
    <3>1. Len(trail) \in 2..Len(trail) BY <1>1, <2>2
    <3>2. PICK n : Entry(n) /\ trail[Len(trail)] = Below(d, n)
      BY <1>6, <3>1 DEF IInv, Way
    <3>3. Level(d) /\ Len(d) < Size - 1 /\ d \in Str BY <1>6, <3>1 DEF IInv, Way, Level
    <3>4. cwd = Cut(Below(d, n), Size - 1)
      BY <1>6, <3>2 DEF IInv, Way, Last
    <3> HIDE DEF d
    <3>5. n \in Str /\ ~Has(n, Slash) BY <3>2 DEF Entry
    <3>6. PICK m \in Str : /\ Below(d, m) = Cut(Below(d, n), Size - 1)
                           /\ \A k \in 1..Len(m) : k \in 1..Len(n) /\ m[k] = n[k]
      BY <3>3, <3>5, EnterCut
    <3>7. ~Has(m, Slash) BY <3>5, <3>6 DEF Has
    <3>8. cwd' = d BY <1>2, <3>3, <3>4, <3>6, <3>7, LeaveBelow
    <3>9. Last(trail)' = d
      <4>1. Len(trail) - 1 \in 1..(Len(trail) - 1) BY <1>1, <2>2
      <4>2. trail'[Len(trail')] = trail'[Len(trail) - 1] BY <2>4
      <4> QED BY <2>4, <4>1, <4>2 DEF Last, d
    <3>10. Cut(d, Size - 1) = d
      <4>1. Len(d) <= Size - 1 /\ Size - 1 \in Nat BY <1>1, <3>3, LenProperties DEF Str
      <4> QED BY <3>3, <4>1, CutType
    <3> QED BY <3>8, <3>9, <3>10
  <2>10. Way' BY <2>7, <2>8, <2>9 DEF Way
  <2> QED BY <1>5, <2>6, <2>10 DEF IInv
<1>7. CASE ~traced
  <2>1. traced' = (cwd' = Top) /\ trail' = IF cwd' = Top THEN <<Top>> ELSE trail
    BY <1>2, <1>7 DEF Pop
  <2>2. CASE cwd' = Top
    <3>1. trail' = <<Top>> BY <2>1, <2>2
    <3>2. Top \in Seq(Char) BY TopLevel DEF Str
    <3>3. /\ <<Top>> \in Seq(Seq(Char)) /\ <<Top>> # <<>> /\ Len(<<Top>>) = 1 /\ <<Top>>[1] = Top
      BY <3>2
    <3>4. TypeOK' BY <1>2, <1>4, <2>1, <3>1, <3>3 DEF IInv, TypeOK
    <3>5. Ups(Top) = {} BY DEF Ups, Top
    <3>6. Last(trail)' = Top BY <3>1, <3>3 DEF Last
    <3>7. Way'
      <4>1. \A k \in 1..Len(trail') : Ups(trail'[k]) = {} BY <3>1, <3>3, <3>5
      <4>2. \A k \in 2..Len(trail') : FALSE BY <3>1, <3>3
      <4> QED BY <2>2, <3>1, <3>3, <3>6, <4>1, <4>2, TopUncut DEF Way
    <3> QED BY <1>5, <3>4, <3>7 DEF IInv
  <2>3. CASE cwd' # Top
    <3>1. trail' = trail /\ traced' = FALSE BY <2>1, <2>3
    <3>2. TypeOK' BY <1>2, <1>4, <3>1 DEF IInv, TypeOK
    <3>3. Way' BY <3>1 DEF Way
    <3> QED BY <1>5, <3>2, <3>3 DEF IInv
  <2> QED BY <2>2, <2>3
<1> QED BY <1>1, <1>6, <1>7

LEMMA NextIInv == IInv /\ [Next]_vars => IInv'
<1> SUFFICES ASSUME IInv, [Next]_vars PROVE IInv' OBVIOUS
<1>1. CASE UNCHANGED vars
  <2>1. UNCHANGED <<cwd, trail, traced, asked, wanted>> BY <1>1 DEF vars
  <2>2. TypeOK' BY <2>1 DEF IInv, TypeOK
  <2>3. Way' /\ AtEnd' BY <2>1 DEF IInv, Way, AtEnd
  <2> QED BY <2>2, <2>3 DEF IInv
<1>2. ASSUME NEW n \in Names, Cd(n) PROVE IInv'
  <2>1. n \in Seq(Char) /\ n # <<>> BY NameAssumption
  <2>2. Entry(n) BY <1>2, <2>1 DEF Cd, Entry, Str
  <2>3. Ask(DirPath(n), n) BY <1>2 DEF Cd
  <2>4. asked' \in Seq(Char) /\ wanted' \in [dir : Seq(Char), name : Seq(Char)]
    BY <2>1, <2>3, AskType, AskStep
  <2>5. CASE cwd' = Enter(cwd, n) /\ Push(n) BY <2>2, <2>4, <2>5, EnterStep
  <2>6. CASE UNCHANGED <<cwd, trail, traced>> BY <2>4, <2>6, Stays
  <2> QED BY <1>2, <2>5, <2>6 DEF Cd
<1>3. ASSUME NEW n \in Names, Transfer(n) PROVE IInv'
  <2>1. n \in Seq(Char) /\ Ask(FilePath(n), n) /\ UNCHANGED <<cwd, trail, traced>>
    BY <1>3, NameAssumption DEF Transfer
  <2>2. asked' \in Seq(Char) /\ wanted' \in [dir : Seq(Char), name : Seq(Char)]
    BY <2>1, AskType, AskStep
  <2> QED BY <2>1, <2>2, Stays
<1>4. CASE CdUp BY <1>4, LeaveStep
<1>5. CASE List
  <2>1. <<>> \in Seq(Char) /\ Ask(ListPath, <<>>) /\ UNCHANGED <<cwd, trail, traced>>
    BY <1>5 DEF List
  <2>2. ListPath \in Seq(Char) BY ListType
  <2>3. asked' \in Seq(Char) /\ wanted' \in [dir : Seq(Char), name : Seq(Char)]
    BY <2>1, <2>2, AskStep
  <2> QED BY <2>1, <2>3, Stays
<1> QED BY <1>1, <1>2, <1>3, <1>4, <1>5 DEF Next

-----------------------------------------------------------------------------
(* The paths. *)

\* The lengths that let every part of a path through.
LEMMA Fits ==
  ASSUME IInv, NEW n \in Str, Len(Root) + Len(cwd) + 1 + Len(n) < Size
  PROVE  FilePath(n) = Root \o cwd \o (IF cwd = Top THEN <<>> ELSE <<Slash>>) \o n
<1>1. /\ cwd \in Str /\ Root \in Str /\ <<Slash>> \in Str /\ Len(<<Slash>>) = 1 /\ Size \in Nat
      /\ Len(Root) \in Nat /\ Len(cwd) \in Nat /\ Len(n) \in Nat
  BY Here, SizeAssumption, TopLevel, LenProperties DEF Str, Top
<1> DEFINE d == Root \o cwd
           e == d \o <<Slash>>
<1>2. /\ d \in Str /\ Len(d) = Len(Root) + Len(cwd)
      /\ Strlcat(Root, cwd, Size) = d
  <2>1. Len(Root) + Len(cwd) < Size BY <1>1
  <2> QED BY <1>1, <2>1, StrlcatFits, Cat DEF Str
<1> HIDE DEF d
<1>3. CASE cwd = Top
  <2>1. Len(d) + Len(n) < Size BY <1>1, <1>2
  <2>2. Strlcat(d, n, Size) = d \o n BY <1>1, <1>2, <2>1, StrlcatFits
  <2>3. FilePath(n) = d \o n BY <1>2, <1>3, <2>2 DEF FilePath
  <2>4. d \o <<>> = d BY <1>2, ConcatEmptySeq DEF Str
  <2> QED BY <1>3, <2>3, <2>4 DEF d
<1>4. CASE cwd # Top
  <2>1. /\ e \in Str /\ Len(e) = Len(d) + 1 /\ Strlcat(d, <<Slash>>, Size) = e
    <3>1. Len(d) + Len(<<Slash>>) < Size BY <1>1, <1>2
    <3>2. Strlcat(d, <<Slash>>, Size) = e BY <1>1, <1>2, <3>1, StrlcatFits
    <3>3. d \in Seq(Char) /\ <<Slash>> \in Seq(Char) BY <1>1, <1>2 DEF Str
    <3>4. d \o <<Slash>> \in Seq(Char) /\ Len(d \o <<Slash>>) = Len(d) + Len(<<Slash>>)
      BY <3>3, Cat
    <3> QED BY <1>1, <3>2, <3>4 DEF Str
  <2> HIDE DEF e
  <2>2. Len(e) + Len(n) < Size BY <1>1, <1>2, <2>1
  <2>3. Strlcat(e, n, Size) = e \o n BY <1>1, <2>1, <2>2, StrlcatFits
  <2>4. FilePath(n) = e \o n BY <1>2, <1>4, <2>1, <2>3 DEF FilePath
  <2> QED BY <1>4, <2>4 DEF d, e
<1> QED BY <1>3, <1>4

\* The buffer of is_valid_directory holds any path.
LEMMA DirFits ==
  ASSUME IInv, NEW n \in Names
  PROVE  DirPath(n) = Root \o cwd \o <<Slash>> \o n
<1>1. /\ cwd \in Str /\ Root \in Str /\ <<Slash>> \in Str /\ Len(<<Slash>>) = 1
      /\ n \in Str /\ BigSize \in Nat /\ Size \in Nat
      /\ Len(Root) \in Nat /\ Len(cwd) \in Nat /\ Len(n) \in Nat
      /\ Len(cwd) < Size /\ Len(Root) + Size + Len(n) < BigSize
  BY Here, SizeAssumption, NameAssumption, TopLevel, LenProperties DEF Str, Top, Level
<1> DEFINE d == Root \o cwd
           e == d \o <<Slash>>
<1>2. Cut(Root, BigSize) = Root
  <2>1. Len(Root) <= BigSize BY <1>1
  <2> QED BY <1>1, <2>1, CutType
<1>3. d \in Str /\ Len(d) = Len(Root) + Len(cwd) /\ Strlcat(Root, cwd, BigSize) = d
  <2>1. Len(Root) + Len(cwd) < BigSize BY <1>1
  <2> QED BY <1>1, <2>1, StrlcatFits, Cat DEF Str
<1> HIDE DEF d
<1>4. e \in Str /\ Len(e) = Len(d) + 1 /\ Strlcat(d, <<Slash>>, BigSize) = e
  <2>1. Len(d) + Len(<<Slash>>) < BigSize BY <1>1, <1>3
  <2>2. Strlcat(d, <<Slash>>, BigSize) = e BY <1>1, <1>3, <2>1, StrlcatFits
  <2>3. d \in Seq(Char) /\ <<Slash>> \in Seq(Char) BY <1>1, <1>3 DEF Str
  <2>4. d \o <<Slash>> \in Seq(Char) /\ Len(d \o <<Slash>>) = Len(d) + Len(<<Slash>>)
    BY <2>3, Cat
  <2> QED BY <1>1, <2>2, <2>4 DEF Str
<1> HIDE DEF e
<1>5. Strlcat(e, n, BigSize) = e \o n
  <2>1. Len(e) + Len(n) < BigSize BY <1>1, <1>3, <1>4
  <2> QED BY <1>1, <1>4, <2>1, StrlcatFits
<1>6. DirPath(n) = e \o n BY <1>2, <1>3, <1>4, <1>5 DEF DirPath
<1> QED BY <1>6 DEF d, e

LEMMA AddressedStep ==
  ASSUME IInv, [Next]_vars, <<asked, wanted>>' # <<asked, wanted>>, traced,
         Len(Root) + Len(wanted'.dir) + 1 + Len(wanted'.name) < Size
  PROVE  Denotes(asked', wanted'.dir, wanted'.name)
<1>1. wanted'.dir = Last(trail) => cwd = Last(trail)
  <2>1. ASSUME NEW n \in Seq(Char), Len(Root) + Len(Last(trail)) + 1 + Len(n) < Size
        PROVE  cwd = Last(trail)
    <3>1. /\ Len(Root) \in Nat /\ Len(Last(trail)) \in Nat /\ Len(n) \in Nat /\ Size \in Nat
      BY Here, SizeAssumption, LenProperties DEF Str
    <3>2. Len(Last(trail)) < Size BY <2>1, <3>1
    <3> QED BY <3>2, Here
  <2>2. wanted'.name \in Seq(Char) BY NextIInv DEF IInv, TypeOK
  <2> QED BY <2>1, <2>2
<1>2. ASSUME NEW n \in Names, Cd(n) PROVE Denotes(asked', wanted'.dir, wanted'.name)
  <2>1. asked' = DirPath(n) /\ wanted'.dir = cwd /\ wanted'.name = n BY <1>1, <1>2 DEF Cd, Ask
  <2>2. n # <<>> BY NameAssumption
  <2> QED BY <2>1, <2>2, DirFits DEF Denotes
<1>3. ASSUME NEW n \in Names, Transfer(n) PROVE Denotes(asked', wanted'.dir, wanted'.name)
  <2>1. asked' = FilePath(n) /\ wanted'.dir = cwd /\ wanted'.name = n
    BY <1>1, <1>3 DEF Transfer, Ask
  <2>2. n # <<>> /\ n \in Str BY NameAssumption DEF Str
  <2>3. FilePath(n) = Root \o cwd \o (IF cwd = Top THEN <<>> ELSE <<Slash>>) \o n
    BY <2>1, <2>2, Fits
  <2>4. CASE cwd = Top
    <3>1. Root \o cwd \in Seq(Char) BY Here, SizeAssumption, Cat DEF Str
    <3>2. (Root \o cwd) \o <<>> = Root \o cwd BY <3>1, ConcatEmptySeq
    <3> QED BY <2>1, <2>2, <2>3, <2>4, <3>2 DEF Denotes
  <2>5. CASE cwd # Top BY <2>1, <2>2, <2>3, <2>5 DEF Denotes
  <2> QED BY <2>4, <2>5
<1>4. CASE List
  <2>1. asked' = ListPath /\ wanted'.dir = cwd /\ wanted'.name = <<>> BY <1>1, <1>4 DEF List, Ask
  <2>2. CASE cwd = Top BY <2>1, <2>2 DEF ListPath, Denotes
  <2>3. CASE cwd # Top
    <3>1. /\ cwd \in Str /\ Root \in Str /\ Size \in Nat /\ Len(Root) \in Nat /\ Len(cwd) \in Nat
      BY Here, SizeAssumption, LenProperties DEF Str
    <3>2. Len(Root) + Len(cwd) < Size
      <4>1. Len(wanted'.name) = 0 BY <2>1
      <4> QED BY <2>1, <3>1, <4>1
    <3>3. Strlcat(Root, cwd, Size) = Root \o cwd BY <3>1, <3>2, StrlcatFits
    <3> QED BY <2>1, <2>3, <3>3 DEF ListPath, Denotes
  <2> QED BY <2>2, <2>3
<1>5. ~CdUp /\ ~UNCHANGED vars BY DEF CdUp, vars
<1> QED BY <1>2, <1>3, <1>4, <1>5 DEF Next

-----------------------------------------------------------------------------
(* The theorems. *)

\* cwd is a path in its buffer after any commands, and trail is the way to it.
THEOREM DirInvariance == Spec => []IInv
<1> QED BY InitIInv, NextIInv, PTL DEF Spec

\* The buffer of cwd never overflows and always starts with the '/' that cd_helper looks for.
THEOREM DirTypes == Spec => []TypeOK
<1>1. IInv => TypeOK BY DEF IInv
<1> QED BY <1>1, DirInvariance, PTL

\* cd .. leads back to where the last cd started, however long the way, also when its
\* name was cut; only a cd that began in a full directory loses the way back.
THEOREM Retracing == Spec => []Retrace
<1>1. IInv => Retrace BY Here DEF Retrace
<1> QED BY <1>1, DirInvariance, PTL

\* No name that fits makes a component '..', and one that was cut makes one only as the
\* last component of a full directory.
THEOREM StaysInside == Spec => []Inside
<1>1. IInv => Inside BY Here DEF Inside
<1> QED BY <1>1, DirInvariance, PTL

\* A path that fits is that of the name in the client's directory.
THEOREM Addresses == Spec => Addressed
<1>1. IInv /\ [Next]_vars =>
        [ /\ <<asked, wanted>>' # <<asked, wanted>> /\ traced
          /\ Len(Root) + Len(wanted'.dir) + 1 + Len(wanted'.name) < Size
          => Denotes(asked', wanted'.dir, wanted'.name) ]_vars
  BY AddressedStep
<1> QED BY <1>1, DirInvariance, PTL DEF Spec, Addressed

=============================================================================
