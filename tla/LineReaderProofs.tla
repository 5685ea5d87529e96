-------------------------- MODULE LineReaderProofs --------------------------
(***************************************************************************)
(* get_next_line() loses nothing, and keeps lines whole when they are      *)
(* written whole: for every size of its buffer and every input.            *)
(***************************************************************************)
EXTENDS LineReader, Pieces, SequenceTheorems, TLAPS

\* A read that was short of a newline has emptied the input; what is there ends a line
\* as long as more may come.
Lined == WritesLines /\ MaxFails = 0 /\ open => EndsLine(cache \o input)

\* On a terminal the cache never holds a newline, and nothing between two calls.
Unheld == tty => NoNL(cache) /\ (pc = "command" => cache = <<>>)

IInv == TypeOK /\ Lined /\ Unheld

-----------------------------------------------------------------------------
(* The cache and the input as one text. *)

T == cache \o input

\* What line_builder() makes of c, with r still to be read, is what LineStream allows:
\* a line up to the first newline, all of c, or nothing yet.
LEMMA BuildText ==
  ASSUME TypeOK, NEW c \in Seq(Char), NEW size, pc = "read", Build(c, size),
         input' \in Seq(Char), T = c \o input'
  PROVE  \/ \E n \in 0..(Len(T) - 1) :
              /\ T[n + 1] = NL /\ NoNL(SubSeq(T, 1, n))
              /\ lines' = Append(lines, SubSeq(T, 1, n))
              /\ T' = SubSeq(T, n + 1 + 1, Len(T)) /\ pc' = "command"
         \/ /\ Len(c) \in 0..Len(T) /\ NoNL(SubSeq(T, 1, Len(c)))
            /\ lines' = Append(lines, SubSeq(T, 1, Len(c)))
            /\ T' = SubSeq(T, Len(c) + 1, Len(T)) /\ pc' = "command"
            /\ NoNL(c) /\ size < BuffSize /\ T' = input'
         \/ T' = T /\ lines' = lines /\ pc' = pc
<1>1. Len(c) \in Nat /\ Len(input') \in Nat /\ Len(T) = Len(c) + Len(input') BY Cat
<1>2. CASE \E n \in 0..(Len(c) - 1) : FirstNL(c, n) /\ Return(SubSeq(c, 1, n), SubSeq(c, n + 2, Len(c)))
  <2>1. PICK n \in 0..(Len(c) - 1) :
          FirstNL(c, n) /\ Return(SubSeq(c, 1, n), SubSeq(c, n + 2, Len(c)))
    BY <1>2
  <2>2. n \in 0..(Len(T) - 1) /\ n \in 0..Len(c) /\ n + 1 \in 0..Len(c) /\ n + 1 + 1 = n + 2
    BY <1>1
  <2>3. n + 1 \in 1..(Len(c) + Len(input')) /\ n + 1 <= Len(c) BY <1>1
  <2>4. T[n + 1] = c[n + 1] BY <2>3, Cat
  <2>5. SubSeq(T, 1, n) = SubSeq(c, 1, n) BY <2>2, FrontOfCat
  <2>6. SubSeq(T, n + 1 + 1, Len(T)) = SubSeq(c, n + 1 + 1, Len(c)) \o input' BY <2>2, BackOfCat
  <2>7. T' = SubSeq(c, n + 2, Len(c)) \o input' BY <2>1 DEF Return, T
  <2> QED BY <2>1, <2>2, <2>4, <2>5, <2>6, <2>7 DEF FirstNL, Return
<1>3. CASE NoNL(c) /\ size < BuffSize /\ Return(c, <<>>)
  <2>1. Len(c) \in 0..Len(c) /\ Len(c) \in 0..Len(T) BY <1>1
  <2>2. SubSeq(T, 1, Len(c)) = SubSeq(c, 1, Len(c)) BY <2>1, FrontOfCat
  <2>3. SubSeq(c, 1, Len(c)) = c BY SubSeqFull
  <2>4. SubSeq(T, Len(c) + 1, Len(T)) = SubSeq(c, Len(c) + 1, Len(c)) \o input' BY <2>1, BackOfCat
  <2>5. SubSeq(c, Len(c) + 1, Len(c)) = <<>> BY <1>1, SubSeqEmpty
  <2>6. <<>> \o input' = input' BY ConcatEmptySeq
  <2>7. T' = <<>> \o input' BY <1>3 DEF Return, T
  <2> QED BY <1>3, <2>1, <2>2, <2>3, <2>4, <2>5, <2>6, <2>7 DEF Return
<1>4. CASE NoNL(c) /\ size >= BuffSize /\ cache' = c /\ UNCHANGED <<pc, lines>>
  BY <1>4 DEF T
<1> QED BY <1>2, <1>3, <1>4 DEF Build

\* What line_builder() leaves has its types.
LEMMA BuildType ==
  ASSUME NEW c \in Seq(Char), NEW size, lines \in Seq(Seq(Char)), pc = "read", Build(c, size)
  PROVE  cache' \in Seq(Char) /\ lines' \in Seq(Seq(Char)) /\ pc' \in {"command", "read"}
<1>1. CASE \E n \in 0..(Len(c) - 1) : FirstNL(c, n) /\ Return(SubSeq(c, 1, n), SubSeq(c, n + 2, Len(c)))
  <2>1. PICK n \in 0..(Len(c) - 1) :
          FirstNL(c, n) /\ Return(SubSeq(c, 1, n), SubSeq(c, n + 2, Len(c)))
    BY <1>1
  <2>2. Len(c) \in Nat BY LenProperties
  <2>3. n \in 0..Len(c) /\ n + 1 \in 0..Len(c) /\ n + 1 + 1 = n + 2 BY <2>2
  <2>4. SubSeq(c, 1, n) \in Seq(Char) BY <2>3, Prefix
  <2>5. SubSeq(c, n + 1 + 1, Len(c)) \in Seq(Char) BY <2>3, Suffix
  <2>6. Append(lines, SubSeq(c, 1, n)) \in Seq(Seq(Char)) BY <2>4, AppendProperties
  <2> QED BY <2>1, <2>3, <2>5, <2>6 DEF Return
<1>2. CASE NoNL(c) /\ size < BuffSize /\ Return(c, <<>>)
  <2>1. <<>> \in Seq(Char) OBVIOUS
  <2>2. Append(lines, c) \in Seq(Seq(Char)) BY AppendProperties
  <2> QED BY <1>2, <2>1, <2>2 DEF Return
<1>3. CASE NoNL(c) /\ size >= BuffSize /\ cache' = c /\ UNCHANGED <<pc, lines>> BY <1>3
<1> QED BY <1>1, <1>2, <1>3 DEF Build

\* A read() of k characters: what the cache and the input then are.
LEMMA ReadText ==
  ASSUME TypeOK, NEW k \in 1..Len(input), input' = SubSeq(input, k + 1, Len(input))
  PROVE  /\ input' \in Seq(Char) /\ cache \o SubSeq(input, 1, k) \in Seq(Char)
         /\ T = (cache \o SubSeq(input, 1, k)) \o input'
<1>1. cache \in Seq(Char) /\ input \in Seq(Char) /\ Len(input) \in Nat BY LenProperties DEF TypeOK
<1>2. k \in 0..Len(input) BY <1>1
<1>3. input' \in Seq(Char) /\ SubSeq(input, 1, k) \in Seq(Char) BY <1>1, <1>2, Prefix, Suffix
<1> QED BY <1>1, <1>2, <1>3, Cat, Shift DEF T

-----------------------------------------------------------------------------
(* The invariant. *)

\* Standard input as the client finds it.
LEMMA InitText ==
  ASSUME Init
  PROVE  /\ input \in Texts \cup {<<>>} /\ input \in Seq(Char)
         /\ open \in BOOLEAN /\ tty \in BOOLEAN /\ (open => input = <<>>)
<1>1. CASE input \in Texts /\ open = FALSE /\ tty = FALSE BY <1>1, InputAssumption
<1>2. CASE input = <<>> /\ open = TRUE /\ tty \in BOOLEAN BY <1>2
<1> QED BY <1>1, <1>2, Zenon DEF Init

\* Nothing is in the cache.
LEMMA InitIInv == Init => IInv
<1> SUFFICES ASSUME Init PROVE IInv OBVIOUS
<1>1. /\ input \in Seq(Char) /\ cache = <<>> /\ <<>> \in Seq(Char) /\ <<>> \in Seq(Seq(Char))
      /\ open \in BOOLEAN /\ tty \in BOOLEAN /\ (open => input = <<>>)
      /\ pc = "command" /\ lines = <<>> /\ written = 0 /\ fails = 0
  <2>1. <<>> \in Seq(Char) /\ <<>> \in Seq(Seq(Char)) OBVIOUS
  <2>2. cache = <<>> /\ pc = "command" /\ lines = <<>> /\ written = 0 /\ fails = 0 BY DEF Init
  <2> QED BY <2>1, <2>2, InitText
<1>2. TypeOK BY <1>1, BoundAssumption DEF TypeOK
<1>3. cache \o input = input BY <1>1, ConcatEmptySeq
<1>4. Lined BY <1>1, <1>3 DEF Lined, EndsLine
<1>5. Unheld BY <1>1 DEF Unheld, NoNL
<1> QED BY <1>2, <1>4, <1>5 DEF IInv

\* Every step keeps the types of the input, the cache and the lines.
LEMMA NextType == ASSUME TypeOK, [Next]_vars PROVE TypeOK'
<1>1. input \in Seq(Char) /\ cache \in Seq(Char) /\ lines \in Seq(Seq(Char)) /\ BuffSize \in Nat
  BY BuffSizeAssumption DEF TypeOK
<1>2. CASE UNCHANGED vars BY <1>2 DEF vars, TypeOK
<1>3. ASSUME NEW w \in Writes, Write(w) PROVE TypeOK'
  <2>1. w \in Seq(Char) BY InputAssumption
  <2>2. input \o w \in Seq(Char) /\ Len(w) \in Nat BY <1>1, <2>1, Cat
  <2>3. written + Len(w) \in 0..MaxText BY <1>3, <2>2, BoundAssumption DEF Write, TypeOK
  <2> QED BY <1>3, <2>2, <2>3 DEF Write, TypeOK
<1>4. CASE Close BY <1>4 DEF Close, TypeOK
<1>5. CASE Prompt BY <1>5 DEF Prompt, TypeOK
<1>6. CASE Read
  <2>1. PICK k \in 1..Len(input) :
          /\ input' = SubSeq(input, k + 1, Len(input))
          /\ Build(cache \o SubSeq(input, 1, k), k)
    BY <1>6 DEF Read
  <2>2. input' \in Seq(Char) /\ cache \o SubSeq(input, 1, k) \in Seq(Char) BY <2>1, ReadText
  <2>3. cache' \in Seq(Char) /\ lines' \in Seq(Seq(Char)) /\ pc' \in {"command", "read"}
    BY <1>1, <1>6, <2>1, <2>2, BuildType DEF Read
  <2> QED BY <1>6, <2>2, <2>3 DEF Read, TypeOK
<1>7. CASE ReadEnd
  <2>1. CASE cache # <<>>
    <3>1. cache' \in Seq(Char) /\ lines' \in Seq(Seq(Char)) /\ pc' \in {"command", "read"}
      BY <1>1, <1>7, <2>1, BuildType DEF ReadEnd
    <3> QED BY <1>7, <3>1 DEF ReadEnd, TypeOK
  <2>2. CASE cache = <<>> BY <1>7, <2>2 DEF ReadEnd, TypeOK
  <2> QED BY <2>1, <2>2
<1>8. CASE ReadFail
  <2>1. fails' \in 0..MaxFails BY <1>8, BoundAssumption DEF ReadFail, TypeOK
  <2>2. CASE cache # <<>>
    <3>1. cache' \in Seq(Char) /\ lines' \in Seq(Seq(Char)) /\ pc' \in {"command", "read"}
      BY <1>1, <1>8, <2>2, BuildType DEF ReadFail
    <3> QED BY <1>8, <2>1, <3>1 DEF ReadFail, TypeOK
  <2>3. CASE cache = <<>> BY <1>8, <2>1, <2>3 DEF ReadFail, TypeOK
  <2> QED BY <2>2, <2>3
<1>9. CASE Done BY <1>9 DEF Done, vars, TypeOK
<1> QED BY <1>2, <1>3, <1>4, <1>5, <1>6, <1>7, <1>8, <1>9 DEF Next, Reader

\* What is left of a text that ends a line also ends a line.
LEMMA SuffixEnds ==
  ASSUME NEW s \in Seq(Char), NEW n \in 0..Len(s), EndsLine(s)
  PROVE  EndsLine(SubSeq(s, n + 1, Len(s)))
<1> DEFINE p == SubSeq(s, n + 1, Len(s))
<1>1. /\ p \in Seq(Char) /\ Len(p) = Len(s) - n
      /\ \A i \in 1..(Len(s) - n) : p[i] = s[n + i]
  BY Suffix
<1>2. Len(s) \in Nat /\ (p = <<>> <=> Len(p) = 0) /\ (s = <<>> <=> Len(s) = 0)
  BY <1>1, LenProperties, EmptySeq
<1> SUFFICES EndsLine(p) OBVIOUS
<1> HIDE DEF p
<1>3. CASE Len(p) = 0 BY <1>2, <1>3 DEF EndsLine
<1>4. CASE Len(p) # 0
  <2>1. Len(p) \in 1..(Len(s) - n) /\ n + Len(p) = Len(s) BY <1>1, <1>2, <1>4
  <2>2. p[Len(p)] = s[Len(s)] BY <1>1, <2>1
  <2> QED BY <1>2, <1>4, <2>1, <2>2 DEF EndsLine
<1> QED BY <1>3, <1>4

\* A step of line_builder() leaves a text that ends a line.
LEMMA BuildLined ==
  ASSUME TypeOK, Lined, NEW c \in Seq(Char), NEW size, pc = "read", Build(c, size),
         input' \in Seq(Char), T = c \o input', UNCHANGED open
  PROVE  Lined'
<1> SUFFICES ASSUME WritesLines, MaxFails = 0, open PROVE EndsLine(T') BY DEF Lined, T
<1>1. EndsLine(T) /\ T \in Seq(Char) BY Cat DEF Lined, T
<1>2. Len(T) \in Nat BY <1>1, LenProperties
<1>3. ASSUME NEW n \in 0..(Len(T) - 1), T' = SubSeq(T, n + 1 + 1, Len(T)) PROVE EndsLine(T')
  <2>1. n + 1 \in 0..Len(T) BY <1>2
  <2> QED BY <1>1, <1>3, <2>1, SuffixEnds
<1>4. ASSUME Len(c) \in 0..Len(T), T' = SubSeq(T, Len(c) + 1, Len(T)) PROVE EndsLine(T')
  BY <1>1, <1>4, SuffixEnds
<1> QED BY <1>1, <1>3, <1>4, BuildText

\* What is written comes last.
LEMMA WriteText ==
  ASSUME TypeOK, NEW w \in Writes, Write(w)
  PROVE  cache' \o input' = T \o w
<1>1. input \in Seq(Char) /\ cache \in Seq(Char) /\ w \in Seq(Char)
  BY InputAssumption DEF TypeOK
<1>2. (cache \o input) \o w = cache \o (input \o w) BY <1>1, ConcatAssociative, SMTT(30)
<1> QED BY <1>2 DEF Write, T

\* Every step keeps what is left a text of whole lines, if all writes are.
LEMMA NextLined == ASSUME TypeOK, Lined, [Next]_vars PROVE Lined'
<1>1. input \in Seq(Char) /\ cache \in Seq(Char) BY DEF TypeOK
<1>2. CASE UNCHANGED vars BY <1>2 DEF vars, Lined, WritesLines, EndsLine
<1>3. ASSUME NEW w \in Writes, Write(w) PROVE Lined'
  <2> SUFFICES ASSUME WritesLines, MaxFails = 0, open PROVE EndsLine(T \o w)
    BY <1>3, WriteText DEF Lined, Write
  <2>1. w \in Seq(Char) /\ T \in Seq(Char) /\ EndsLine(w) /\ EndsLine(T)
    BY <1>1, InputAssumption, Cat DEF T, WritesLines, Lined
  <2>2. CASE w = <<>> BY <2>1, <2>2, ConcatEmptySeq
  <2>3. CASE w # <<>>
    <3>1. w[Len(w)] = NL /\ Len(w) # 0 BY <2>1, <2>3, EmptySeq DEF EndsLine
    <3>2. Len(T \o w) = Len(T) + Len(w) /\ Len(T) \in Nat /\ Len(w) \in Nat BY <2>1, Cat
    <3>3. Len(T) + Len(w) \in 1..(Len(T) + Len(w)) /\ ~(Len(T) + Len(w) <= Len(T))
          /\ Len(T) + Len(w) - Len(T) = Len(w)
      BY <3>1, <3>2
    <3>4. (T \o w)[Len(T) + Len(w)] = w[Len(w)] BY <2>1, <3>3, Cat
    <3> QED BY <3>1, <3>2, <3>4 DEF EndsLine
  <2> QED BY <2>2, <2>3
<1>4. CASE Close BY <1>4 DEF Close, Lined
<1>5. CASE Prompt BY <1>5 DEF Prompt, Lined, EndsLine
<1>6. CASE Read
  <2>1. PICK k \in 1..Len(input) :
          /\ input' = SubSeq(input, k + 1, Len(input))
          /\ Build(cache \o SubSeq(input, 1, k), k)
    BY <1>6 DEF Read
  <2>2. /\ input' \in Seq(Char) /\ cache \o SubSeq(input, 1, k) \in Seq(Char)
        /\ T = (cache \o SubSeq(input, 1, k)) \o input'
    BY <2>1, ReadText
  <2> QED BY <1>6, <2>1, <2>2, BuildLined DEF Read
<1>7. CASE ReadEnd BY <1>7 DEF ReadEnd, Lined
<1>8. CASE ReadFail
  <2>1. fails \in 0..MaxFails /\ fails < MaxFails BY <1>8 DEF ReadFail, TypeOK
  <2> QED BY <2>1, BoundAssumption DEF Lined
<1>9. CASE Done BY <1>9 DEF Done, vars, Lined, EndsLine
<1> QED BY <1>2, <1>3, <1>4, <1>5, <1>6, <1>7, <1>8, <1>9 DEF Next, Reader

\* On a terminal, every step leaves no newline in the cache, and nothing of a line that
\* was returned.
LEMMA NextUnheld == ASSUME TypeOK, Unheld, [Next]_vars PROVE Unheld'
<1>0. tty' = tty
  BY DEF Next, Reader, Write, Close, Prompt, Read, ReadEnd, ReadFail, Done, vars
<1> SUFFICES ASSUME tty PROVE NoNL(cache') /\ (pc' = "command" => cache' = <<>>)
  BY <1>0 DEF Unheld, NoNL
<1>1. /\ input \in Seq(Char) /\ cache \in Seq(Char)
      /\ NoNL(cache) /\ (pc = "command" => cache = <<>>) /\ NoNL(<<>>)
  BY DEF TypeOK, Unheld, NoNL
<1>2. CASE UNCHANGED vars BY <1>1, <1>2 DEF vars
<1>3. ASSUME NEW w \in Writes, Write(w) PROVE UNCHANGED <<cache, pc>> BY <1>3 DEF Write
<1>4. CASE Close BY <1>1, <1>4 DEF Close
<1>5. CASE Prompt BY <1>1, <1>5 DEF Prompt
<1>6. CASE Read
  <2>1. PICK k \in 1..Len(input) :
          Reads(k) /\ Build(cache \o SubSeq(input, 1, k), k)
    BY <1>6 DEF Read
  <2> DEFINE p == SubSeq(input, 1, k)
             c == cache \o p
  <2>2. Len(input) \in Nat /\ k \in 0..Len(input) /\ k - 1 \in 0..Len(input)
    BY <1>1, LenProperties
  <2>3. /\ p \in Seq(Char) /\ Len(p) = k /\ \A i \in 1..k : p[i] = input[i]
        /\ Len(SubSeq(input, 1, k - 1)) = k - 1
        /\ \A i \in 1..(k - 1) : SubSeq(input, 1, k - 1)[i] = input[i]
    BY <1>1, <2>2, Prefix
  <2>4. \A i \in 1..(k - 1) : p[i] # NL BY <2>1, <2>2, <2>3 DEF Reads, NoNL
  <2> HIDE DEF p
  <2>5. /\ c \in Seq(Char) /\ Len(c) = Len(cache) + k /\ Len(cache) \in Nat
        /\ \A i \in 1..(Len(cache) + k) : c[i] = IF i <= Len(cache) THEN cache[i] ELSE p[i - Len(cache)]
    <3>1. cache \in Seq(Char) /\ p \in Seq(Char) BY <1>1, <2>3
    <3>2. /\ c \in Seq(Char) /\ Len(c) = Len(cache) + Len(p) /\ Len(cache) \in Nat
          /\ \A i \in 1..(Len(cache) + Len(p)) :
               c[i] = IF i <= Len(cache) THEN cache[i] ELSE p[i - Len(cache)]
      BY <3>1, Cat
    <3> QED BY <2>3, <3>2
  <2> HIDE DEF c
  <2>6. ASSUME NEW i \in 1..(Len(c) - 1) PROVE c[i] # NL
    <3>1. CASE i <= Len(cache)
      <4>1. i \in 1..Len(cache) /\ i \in 1..(Len(cache) + k) BY <2>2, <2>5, <3>1
      <4> QED BY <1>1, <2>5, <3>1, <4>1 DEF NoNL
    <3>2. CASE ~(i <= Len(cache))
      <4>1. i - Len(cache) \in 1..(k - 1) /\ i \in 1..(Len(cache) + k) BY <2>2, <2>5, <3>2
      <4> QED BY <2>4, <2>5, <3>2, <4>1
    <3> QED BY <3>1, <3>2
  <2>7. CASE \E n \in 0..(Len(c) - 1) : FirstNL(c, n) /\ Return(SubSeq(c, 1, n), SubSeq(c, n + 2, Len(c)))
    <3>1. PICK n \in 0..(Len(c) - 1) :
            FirstNL(c, n) /\ Return(SubSeq(c, 1, n), SubSeq(c, n + 2, Len(c)))
      BY <2>7
    <3>2. Len(c) \in Nat /\ n + 1 \in 1..Len(c) BY <2>2, <2>5
    <3>3. n + 1 = Len(c)
      <4>1. ~(n + 1 \in 1..(Len(c) - 1)) BY <2>6, <3>1 DEF FirstNL
      <4> QED BY <3>2, <4>1
    <3>4. cache' = SubSeq(c, n + 2, Len(c)) /\ n + 2 \in Int /\ Len(c) < n + 2
      BY <3>1, <3>2, <3>3 DEF Return
    <3>5. cache' = <<>> BY <3>2, <3>4, SubSeqEmpty
    <3> QED BY <1>1, <3>5
  <2>8. CASE NoNL(c) /\ k < BuffSize /\ Return(c, <<>>) BY <1>1, <2>8 DEF Return
  <2>9. CASE NoNL(c) /\ k >= BuffSize /\ cache' = c /\ UNCHANGED <<pc, lines>>
    BY <1>6, <2>9 DEF Read
  <2> QED BY <2>1, <2>7, <2>8, <2>9 DEF Build, c, p
<1>7. ASSUME Build(cache, 0), pc = "read" PROVE NoNL(cache') /\ (pc' = "command" => cache' = <<>>)
  <2>1. \A n \in 0..(Len(cache) - 1) : ~FirstNL(cache, n)
    <3> SUFFICES ASSUME NEW n \in 0..(Len(cache) - 1) PROVE cache[n + 1] # NL BY DEF FirstNL
    <3>1. n + 1 \in 1..Len(cache) BY <1>1, LenProperties
    <3> QED BY <1>1, <3>1 DEF NoNL
  <2>2. ~(0 >= BuffSize) BY BuffSizeAssumption
  <2> QED BY <1>1, <1>7, <2>1, <2>2 DEF Build, Return
<1>8. CASE ReadEnd BY <1>1, <1>7, <1>8 DEF ReadEnd
<1>9. CASE ReadFail BY <1>1, <1>7, <1>9 DEF ReadFail
<1>10. CASE Done BY <1>1, <1>10 DEF Done, vars
<1> QED BY <1>1, <1>2, <1>3, <1>4, <1>5, <1>6, <1>8, <1>9, <1>10 DEF Next, Reader

\* Every step preserves the invariant.
LEMMA NextIInv == IInv /\ [Next]_vars => IInv'
BY NextType, NextLined, NextUnheld DEF IInv

-----------------------------------------------------------------------------
(* Theorems. *)

\* The invariant of the line reader always holds.
THEOREM LineInvariance == Spec => []IInv
BY InitIInv, NextIInv, PTL DEF Spec

\* Every variable keeps its type, and the client ends only when it has executed all
\* that was written to it.
THEOREM LineTypes == Spec => []TypeOK
<1>1. IInv => TypeOK BY DEF IInv
<1> QED BY <1>1, LineInvariance, PTL

\* Nothing typed on a terminal waits in the cache while a command runs.
THEOREM HeldBack == Spec => []NothingHeldBack
<1>1. IInv => NothingHeldBack BY DEF IInv, Unheld, NothingHeldBack
<1> QED BY <1>1, LineInvariance, PTL

\* One step of line_builder() that hands out a line up to a newline.
LEMMA LineStep ==
  ASSUME pc = "read", UNCHANGED open, pc' = "command", NEW n \in 0..(Len(T) - 1),
         T[n + 1] = NL, NoNL(SubSeq(T, 1, n)), lines' = Append(lines, SubSeq(T, 1, n)),
         T' = SubSeq(T, n + 1 + 1, Len(T))
  PROVE  Stream!Line /\ Shreds!Line
<1>1. ~(pc = "exit") /\ ~(pc' = "exit") OBVIOUS
<1>2. Stream!Deliver(n, n + 1) BY <1>1 DEF T, NoNL, Stream!Deliver, Stream!NoNL
<1>3. Shreds!Deliver(n, n + 1) BY <1>1 DEF T, NoNL, Shreds!Deliver, Shreds!NoNL
<1> QED BY <1>2, <1>3 DEF T, Stream!Line, Shreds!Line

\* One that hands out n characters and no newline.
LEMMA PieceStep ==
  ASSUME pc = "read", UNCHANGED open, pc' = "command", NEW n \in 0..Len(T),
         NoNL(SubSeq(T, 1, n)), lines' = Append(lines, SubSeq(T, 1, n)),
         T' = SubSeq(T, n + 1, Len(T))
  PROVE  Stream!Deliver(n, n) /\ Shreds!Deliver(n, n)
<1>1. ~(pc = "exit") /\ ~(pc' = "exit") OBVIOUS
<1>2. Stream!Deliver(n, n) BY <1>1 DEF T, NoNL, Stream!Deliver, Stream!NoNL
<1>3. Shreds!Deliver(n, n) BY <1>1 DEF T, NoNL, Shreds!Deliver, Shreds!NoNL
<1> QED BY <1>2, <1>3

\* No character is lost, none comes twice, no two lines are joined: line_builder()'s
\* steps are LineStream's, wherever writes and reads end.
LEMMA BuildShreds ==
  ASSUME TypeOK, NEW c \in Seq(Char), c # <<>>, NEW size, pc = "read", Build(c, size),
         input' \in Seq(Char), T = c \o input', UNCHANGED open
  PROVE  [Shreds!Next]_(Shreds!vars)
<1>1. CASE \E n \in 0..(Len(T) - 1) :
             /\ T[n + 1] = NL /\ NoNL(SubSeq(T, 1, n))
             /\ lines' = Append(lines, SubSeq(T, 1, n))
             /\ T' = SubSeq(T, n + 1 + 1, Len(T)) /\ pc' = "command"
  BY <1>1, LineStep DEF Shreds!Next
<1>2. CASE /\ Len(c) \in 0..Len(T) /\ NoNL(SubSeq(T, 1, Len(c)))
           /\ lines' = Append(lines, SubSeq(T, 1, Len(c)))
           /\ T' = SubSeq(T, Len(c) + 1, Len(T)) /\ pc' = "command"
  <2>1. Shreds!Deliver(Len(c), Len(c)) BY <1>2, PieceStep
  <2>2. Len(c) \in 1..Len(T) BY <1>2, EmptySeq, LenProperties
  <2> QED BY <2>1, <2>2 DEF Shreds!Next, Shreds!Cut, T
<1>3. CASE T' = T /\ lines' = lines /\ pc' = pc BY <1>3 DEF Shreds!vars, T
<1> QED BY <1>1, <1>2, <1>3, BuildText

\* With whole lines written, what a short read() leaves is the last line of a closed input.
LEMMA BuildStream ==
  ASSUME TypeOK, NEW c \in Seq(Char), c # <<>>, NEW size, pc = "read", Build(c, size),
         input' \in Seq(Char), T = c \o input', UNCHANGED open,
         NoNL(c) /\ size < BuffSize => input' = <<>> /\ ~open
  PROVE  [Stream!Next]_(Stream!vars)
<1>1. CASE \E n \in 0..(Len(T) - 1) :
             /\ T[n + 1] = NL /\ NoNL(SubSeq(T, 1, n))
             /\ lines' = Append(lines, SubSeq(T, 1, n))
             /\ T' = SubSeq(T, n + 1 + 1, Len(T)) /\ pc' = "command"
  BY <1>1, LineStep DEF Stream!Next
<1>2. CASE /\ Len(c) \in 0..Len(T) /\ NoNL(SubSeq(T, 1, Len(c)))
           /\ lines' = Append(lines, SubSeq(T, 1, Len(c)))
           /\ T' = SubSeq(T, Len(c) + 1, Len(T)) /\ pc' = "command"
           /\ NoNL(c) /\ size < BuffSize
  <2>1. input' = <<>> /\ ~open BY <1>2
  <2>2. T = c BY <2>1, ConcatEmptySeq
  <2>3. Stream!Deliver(Len(T), Len(T)) BY <1>2, <2>2, PieceStep
  <2> QED BY <2>1, <2>2, <2>3 DEF Stream!Next, Stream!Rest, T
<1>3. CASE T' = T /\ lines' = lines /\ pc' = pc BY <1>3 DEF Stream!vars, T
<1> QED BY <1>1, <1>2, <1>3, BuildText

\* A read() that is short of a newline, of whole lines, has come to a closed end.
LEMMA ShortRead ==
  ASSUME TypeOK, Lined, WritesLines, MaxFails = 0,
         NEW k \in 1..Len(input), Reads(k), input' = SubSeq(input, k + 1, Len(input)),
         NoNL(cache \o SubSeq(input, 1, k)), k < BuffSize
  PROVE  input' = <<>> /\ ~open
<1> DEFINE p == SubSeq(input, 1, k)
<1>1. input \in Seq(Char) /\ cache \in Seq(Char) /\ Len(input) \in Nat /\ k \in 0..Len(input)
  BY LenProperties DEF TypeOK
<1>2. p \in Seq(Char) /\ Len(p) = k /\ p[k] = input[k] BY <1>1, Prefix
<1> HIDE DEF p
<1>3. /\ Len(cache \o p) = Len(cache) + k /\ Len(cache) \in Nat
      /\ \A i \in 1..(Len(cache) + k) :
           (cache \o p)[i] = IF i <= Len(cache) THEN cache[i] ELSE p[i - Len(cache)]
  BY <1>1, <1>2, Cat
<1>4. Len(cache) + k \in 1..(Len(cache) + k) /\ ~(Len(cache) + k <= Len(cache))
      /\ Len(cache) + k - Len(cache) = k
  BY <1>1, <1>3
<1>5. (cache \o p)[Len(cache) + k] = p[k] BY <1>3, <1>4
<1>6. p[k] # NL BY <1>3, <1>4, <1>5 DEF NoNL, p
<1>7. k = Len(input) BY <1>2, <1>6 DEF Reads
<1>8. input' = <<>> BY <1>1, <1>7, SubSeqEmpty
<1>9. p = input BY <1>1, <1>7, SubSeqFull DEF p
<1>10. ASSUME open PROVE FALSE
  <2>1. EndsLine(cache \o p) BY <1>9, <1>10 DEF Lined
  <2>2. (cache \o p)[Len(cache \o p)] # NL BY <1>3, <1>5, <1>6
  <2>3. cache \o p = <<>> BY <2>1, <2>2 DEF EndsLine
  <2>4. cache \o p \in Seq(Char) BY <1>1, <1>2, Cat
  <2>5. Len(cache \o p) = 0 BY <2>3
  <2> QED BY <1>1, <1>3, <2>5
<1> QED BY <1>8, <1>10

\* Every step is one of LineStream's, or none, if LineStream may cut lines.
LEMMA NextShreds == ASSUME TypeOK, [Next]_vars PROVE [Shreds!Next]_(Shreds!vars)
<1>1. input \in Seq(Char) /\ cache \in Seq(Char) BY DEF TypeOK
<1>2. ASSUME UNCHANGED <<input, cache, open, lines>>, (pc' = "exit") = (pc = "exit")
      PROVE  UNCHANGED Shreds!vars
  BY <1>2 DEF Shreds!vars
<1>3. CASE UNCHANGED vars BY <1>2, <1>3 DEF vars
<1>4. ASSUME NEW w \in Writes, Write(w) PROVE Shreds!Next
  <2>1. w \in Seq(Char) /\ w \in Writes \cup Texts BY InputAssumption
  <2>2. cache' \o input' = (cache \o input) \o w BY <1>4, WriteText DEF T
  <2>3. Shreds!Write(w) BY <1>4, <2>2 DEF Write, Shreds!Write
  <2> QED BY <2>1, <2>3 DEF Shreds!Next
<1>5. CASE Close BY <1>5 DEF Close, Shreds!Close, Shreds!Next
<1>6. CASE Prompt BY <1>2, <1>6 DEF Prompt
<1>7. CASE Read
  <2>1. PICK k \in 1..Len(input) :
          /\ input' = SubSeq(input, k + 1, Len(input))
          /\ Build(cache \o SubSeq(input, 1, k), k)
    BY <1>7 DEF Read
  <2> DEFINE c == cache \o SubSeq(input, 1, k)
  <2>2. input' \in Seq(Char) /\ c \in Seq(Char) /\ T = c \o input' BY <2>1, ReadText
  <2>3. c # <<>>
    <3>1. Len(input) \in Nat /\ Len(cache) \in Nat BY <1>1, LenProperties
    <3>2. k \in 0..Len(input) BY <3>1
    <3>3. SubSeq(input, 1, k) \in Seq(Char) /\ Len(SubSeq(input, 1, k)) = k BY <1>1, <3>2, Prefix
    <3>4. Len(c) = Len(cache) + k BY <1>1, <3>3, Cat
    <3> QED BY <3>1, <3>4, EmptySeq
  <2> QED BY <1>7, <2>1, <2>2, <2>3, BuildShreds DEF Read
<1>8. ASSUME cache # <<>>, pc = "read", Build(cache, 0), UNCHANGED <<input, open>>
      PROVE  [Shreds!Next]_(Shreds!vars)
  BY <1>1, <1>8, BuildShreds DEF T
<1>9. CASE ReadEnd
  <2>1. CASE cache = <<>>
    <3>1. /\ pc = "read" /\ pc' = "exit" /\ input = <<>> /\ ~open
          /\ UNCHANGED <<input, cache, open, lines>>
      BY <1>9, <2>1 DEF ReadEnd
    <3>2. cache \o input = <<>> BY <1>1, <2>1, <3>1, ConcatEmptySeq
    <3> QED BY <3>1, <3>2 DEF Shreds!End, Shreds!Next
  <2> QED BY <1>8, <1>9, <2>1 DEF ReadEnd
<1>10. CASE ReadFail
  <2>1. CASE cache = <<>>
    <3>1. pc = "read" /\ pc' = "command" /\ UNCHANGED <<input, cache, open, lines>>
      BY <1>10, <2>1 DEF ReadFail
    <3> QED BY <1>2, <3>1
  <2> QED BY <1>8, <1>10, <2>1 DEF ReadFail
<1>11. CASE Done BY <1>2, <1>11 DEF Done, vars
<1> QED BY <1>3, <1>4, <1>5, <1>6, <1>7, <1>9, <1>10, <1>11 DEF Next, Reader

\* With whole lines written and no read() that fails, it need not.
LEMMA NextStream ==
  ASSUME WritesLines, MaxFails = 0, TypeOK, Lined, [Next]_vars
  PROVE  [Stream!Next]_(Stream!vars)
<1>1. input \in Seq(Char) /\ cache \in Seq(Char) BY DEF TypeOK
<1>2. ASSUME UNCHANGED <<input, cache, open, lines>>, (pc' = "exit") = (pc = "exit")
      PROVE  UNCHANGED Stream!vars
  BY <1>2 DEF Stream!vars
<1>3. CASE UNCHANGED vars BY <1>2, <1>3 DEF vars
<1>4. ASSUME NEW w \in Writes, Write(w) PROVE Stream!Next
  <2>1. w \in Seq(Char) /\ w \in Writes \cup Texts BY InputAssumption
  <2>2. cache' \o input' = (cache \o input) \o w BY <1>4, WriteText DEF T
  <2>3. Stream!Write(w) BY <1>4, <2>2 DEF Write, Stream!Write
  <2> QED BY <2>1, <2>3 DEF Stream!Next
<1>5. CASE Close BY <1>5 DEF Close, Stream!Close, Stream!Next
<1>6. CASE Prompt BY <1>2, <1>6 DEF Prompt
<1>7. CASE Read
  <2>1. PICK k \in 1..Len(input) :
          /\ k <= BuffSize /\ Reads(k)
          /\ input' = SubSeq(input, k + 1, Len(input))
          /\ Build(cache \o SubSeq(input, 1, k), k)
    BY <1>7 DEF Read
  <2> DEFINE c == cache \o SubSeq(input, 1, k)
  <2>2. input' \in Seq(Char) /\ c \in Seq(Char) /\ T = c \o input' BY <2>1, ReadText
  <2>3. c # <<>>
    <3>1. Len(input) \in Nat /\ Len(cache) \in Nat BY <1>1, LenProperties
    <3>2. k \in 0..Len(input) BY <3>1
    <3>3. SubSeq(input, 1, k) \in Seq(Char) /\ Len(SubSeq(input, 1, k)) = k BY <1>1, <3>2, Prefix
    <3>4. Len(c) = Len(cache) + k BY <1>1, <3>3, Cat
    <3> QED BY <3>1, <3>4, EmptySeq
  <2>4. NoNL(c) /\ k < BuffSize => input' = <<>> /\ ~open BY <2>1, ShortRead
  <2> QED BY <1>7, <2>1, <2>2, <2>3, <2>4, BuildStream DEF Read
<1>8. CASE ReadEnd
  <2>1. pc = "read" /\ input = <<>> /\ ~open /\ UNCHANGED <<input, open>> BY <1>8 DEF ReadEnd
  <2>2. CASE cache = <<>>
    <3>1. pc' = "exit" /\ UNCHANGED <<cache, lines>> BY <1>8, <2>2 DEF ReadEnd
    <3>2. cache \o input = <<>> BY <1>1, <2>1, <2>2, ConcatEmptySeq
    <3> QED BY <2>1, <3>1, <3>2 DEF Stream!End, Stream!Next
  <2>3. CASE cache # <<>>
    <3>1. Build(cache, 0) BY <1>8, <2>3 DEF ReadEnd
    <3> QED BY <1>1, <2>1, <2>3, <3>1, BuildStream DEF T
  <2> QED BY <2>2, <2>3
<1>9. CASE ReadFail
  <2>1. fails \in 0..MaxFails /\ fails < MaxFails BY <1>9 DEF ReadFail, TypeOK
  <2> QED BY <2>1, BoundAssumption
<1>10. CASE Done BY <1>2, <1>10 DEF Done, vars
<1> QED BY <1>3, <1>4, <1>5, <1>6, <1>7, <1>8, <1>9, <1>10 DEF Next, Reader

\* Both begin with what standard input holds, and no line.
LEMMA InitMaps == Init => Stream!Init /\ Shreds!Init
<1> SUFFICES ASSUME Init PROVE Stream!Init /\ Shreds!Init OBVIOUS
<1>1. input \in Texts \cup {<<>>} /\ input \in Seq(Char) /\ cache = <<>> BY InitText DEF Init
<1>2. cache \o input = input BY <1>1, ConcatEmptySeq
<1>3. open \in BOOLEAN /\ lines = <<>> /\ (pc = "exit") = FALSE BY InitText DEF Init
<1> QED BY <1>1, <1>2, <1>3 DEF Stream!Init, Shreds!Init

\* Lines may be cut by reads that fall short of them, but nothing else ever happens to
\* what is written to the client.
THEOREM ReaderLosesNothing == Spec => NothingLost
<1>1. IInv /\ [Next]_vars => [Shreds!Next]_(Shreds!vars) BY NextShreds DEF IInv
<1> QED BY <1>1, InitMaps, LineInvariance, PTL DEF Spec, NothingLost, Shreds!Spec

\* When every write ends a line and no read() fails, the client executes exactly the
\* lines that were written, whatever the size of its buffer.
THEOREM ReaderKeepsLines ==
  ASSUME WritesLines, MaxFails = 0
  PROVE  Spec => WholeLines
<1>1. IInv /\ [Next]_vars => [Stream!Next]_(Stream!vars) BY NextStream DEF IInv
<1> QED BY <1>1, InitMaps, LineInvariance, PTL DEF Spec, WholeLines, Stream!Spec

=============================================================================
