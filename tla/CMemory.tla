------------------------------ MODULE CMemory ------------------------------
(***************************************************************************)
(* libft functions that walk over memory with pointers or lengths, run in  *)
(* the order of their loops over a few bytes of memory, and what they are  *)
(* meant to do.  NUL ends strings; Blank and Other are the bytes that      *)
(* ft_strtrim tells apart; Beyond is what lies outside the object.         *)
(***************************************************************************)
EXTENDS Integers, Sequences, SequencesExt, FiniteSetsExt

CONSTANTS
  Size,      \* bytes of the object at address 0
  NUL, Blank, Other, Beyond,
  Null,      \* the null pointer
  Overrun,   \* no result: the copy ends the process
  Pending    \* no result yet

Byte    == {NUL, Blank, Other}
Object  == 0..(Size - 1)
Address == -2..Size

VARIABLES
  mem,       \* Address -> Byte, or Beyond outside the object
  call,      \* the function and its arguments
  before,    \* history: mem when it was called
  ret        \* what it returned

memVars == <<mem, call, before, ret>>

-----------------------------------------------------------------------------
(* The code. *)

Up(n)   == [i \in 1..n |-> i - 1]
Down(n) == [i \in 1..n |-> n - i]

\* The bytes at offsets is, copied from s to d one after the other.
Move(m, d, s, is) == FoldLeft(LAMBDA a, i : [a EXCEPT ![d + i] = a[s + i]], m, is)

Fill(m, d, n) == [a \in Address |-> IF a \in d..(d + n - 1) THEN NUL ELSE m[a]]

IsString(m, s) == \E a \in s..(Size - 1) : m[a] = NUL

StrLen(m, s) == Min({i \in 0..(Size - s - 1) : m[s + i] = NUL})

\* Mutant of Memmove: always from the first byte to the last.
MemmoveUp(m, d, s, n) == Move(m, d, s, Up(n))

\* ft_memmove, with ft_memcpy below the source.
Memmove(m, d, s, n) == Move(m, d, s, IF d <= s THEN Up(n) ELSE Down(n))

\* ft_memccpy: up to the first c, and the address behind its copy.
Hits(m, s, c, n) == {i \in 0..(n - 1) : m[s + i] = c}

Memccpy(m, d, s, c, n) ==
  IF Hits(m, s, c, n) = {}
  THEN <<Move(m, d, s, Up(n)), Null>>
  ELSE LET k == Min(Hits(m, s, c, n)) + 1 IN <<Move(m, d, s, Up(k)), d + k>>

\* ft_strncpy: count is strlen + 1; NULs from there on, and none if len is less.
Strncpy(m, d, s, len) ==
  LET count == StrLen(m, s) + 1
  IN IF len <= count THEN Move(m, d, s, Up(len))
     ELSE Fill(Move(m, d, s, Up(count)), d + count, len - count)

\* ft_strrev: swaps inwards until the indices meet.
Strrev(m, s) ==
  LET len == StrLen(m, s)
      Swap(a, i) == [a EXCEPT ![s + i] = a[s + len - 1 - i], ![s + len - 1 - i] = a[s + i]]
  IN FoldLeft(Swap, m, Up(len \div 2))

\* ft_strnstr: needle n in the first len bytes of haystack h.  It compares byte by
\* byte from each start k, the last byte of the needle first reached being a match.
Matches(m, h, n, k, len) ==
  \A j \in 0..(StrLen(m, n) - 1) : m[h + k + j] = m[n + j] /\ k + j < len

Strnstr(m, h, n, len) ==
  LET at == {k \in 0..(StrLen(m, h) - 1) : Matches(m, h, n, k, len)}
  IN IF StrLen(m, n) = 0 THEN h ELSE IF at = {} THEN Null ELSE h + Min(at)

\* ft_strsub: the string in a block of len + 1 bytes, if there is memory for it.
Strsub(m, s, start, len) ==
  LET n == Min({len, StrLen(m, s + start)})
  IN [i \in 1..(len + 1) |-> IF i <= n THEN m[s + start + i - 1] ELSE NUL]

(***************************************************************************)
(* ft_strtrim.  Its search for the end stops at the first byte that is not *)
(* blank, which in a blank or empty string lies before the string.  When   *)
(* the byte there is blank too, end wraps: end - i + 1 is a size for which *)
(* there is no memory or, one byte before an empty string, 0, and the copy *)
(* of "end" bytes runs through memory.                                     *)
(***************************************************************************)
BlanksBefore(m, s) == CHOOSE k \in 0..(s + 2) :
  (\A a \in (s - k)..(s - 1) : m[a] = Blank) /\ (k = s + 2 \/ m[s - k - 1] # Blank)

Strtrim(m, s) ==
  LET len == StrLen(m, s)
      i   == Min({k \in 0..len : m[s + k] # Blank})
      end == Max({i} \cup {k \in 1..len : m[s + k - 1] # Blank})
  IN IF i < len \/ BlanksBefore(m, s) = 0
     THEN [k \in 1..(end - i) |-> m[s + i + k - 1]]
     ELSE IF i = 0 /\ BlanksBefore(m, s) = 1 THEN Overrun ELSE Null

-----------------------------------------------------------------------------
(* A call, with the arguments its caller may give it; "full" when malloc() has no *)
(* memory for what ft_strsub or ft_strtrim is to return.                          *)

Uses ==
  [f : {"memmove"}, d : Object, s : Object, n : 0..Size]
    \cup [f : {"memccpy", "strncpy"}, d : {Size \div 2}, s : {0}, n : 0..(Size \div 2)]
    \cup [f : {"strrev"}, d : {0}, s : 0..2, n : {0}]
    \cup [f : {"strnstr"}, d : {0}, s : {Size \div 2}, n : 0..Size]
    \cup [f : {"strsub"}, d : 0..2, s : {0}, n : 0..Size, full : BOOLEAN]
    \cup [f : {"strtrim"}, d : {0}, s : 0..2, n : {0}, full : BOOLEAN]

\* Regions inside the object, strings with an end, memccpy's and strncpy's apart.
Legal(k, m) ==
  /\ k.f = "memmove" => k.d + k.n <= Size /\ k.s + k.n <= Size
  /\ k.f \in {"strncpy", "strrev", "strtrim", "strnstr", "strsub"} => IsString(m, k.s)
  /\ k.f = "strncpy" => StrLen(m, k.s) < k.d
  /\ k.f = "strnstr" => IsString(m, k.d) /\ StrLen(m, k.d) < k.s
  /\ k.f = "strsub" => k.d <= StrLen(m, k.s)

Outcome(k, m) ==
  CASE k.f = "memmove" -> <<Memmove(m, k.d, k.s, k.n), k.d>>
    [] k.f = "memccpy" -> Memccpy(m, k.d, k.s, Blank, k.n)
    [] k.f = "strncpy" -> <<Strncpy(m, k.d, k.s, k.n), k.d>>
    [] k.f = "strrev"  -> IF m[k.s] = NUL THEN <<m, Null>> ELSE <<Strrev(m, k.s), k.s>>
    [] k.f = "strnstr" -> <<m, Strnstr(m, k.d, k.s, k.n)>>
    [] k.f = "strsub"  -> <<m, IF k.full THEN Null ELSE Strsub(m, k.s, k.d, k.n)>>
    [] k.f = "strtrim" -> <<m, IF k.full THEN Null ELSE Strtrim(m, k.s)>>

Init ==
  /\ \E m \in [Object -> Byte], low \in [{-2, -1} -> {Blank, Beyond}] :
       mem = [a \in Address |-> IF a \in Object THEN m[a] ELSE IF a < 0 THEN low[a] ELSE Beyond]
  /\ call \in {k \in Uses : Legal(k, mem)}
  /\ before = mem
  /\ ret = Pending

Run ==
  /\ ret = Pending
  /\ mem' = Outcome(call, mem)[1]
  /\ ret' = Outcome(call, mem)[2]
  /\ UNCHANGED <<call, before>>

Spec == Init /\ [][Run]_memVars

-----------------------------------------------------------------------------
(* What the functions are meant to do, on the values in memory. *)

Bytes(m, s, n) == [i \in 1..n |-> m[s + i - 1]]

Text(m, s) == Bytes(m, s, StrLen(m, s))

Put(m, d, b) == [a \in Address |-> IF a - d + 1 \in DOMAIN b THEN b[a - d + 1] ELSE m[a]]

Padded(b, n) == [i \in 1..n |-> IF i <= Len(b) THEN b[i] ELSE NUL]

Trimmed(b) ==
  LET solid == {i \in DOMAIN b : b[i] # Blank}
  IN IF solid = {} THEN <<>> ELSE SubSeq(b, Min(solid), Max(solid))

\* Where b first begins in text.
Found(text, b) == {k \in 0..(Len(text) - Len(b)) : SubSeq(text, k + 1, k + Len(b)) = b}

Meant(k, m) ==
  LET src == Bytes(m, k.s, k.n)
      upto == {i \in DOMAIN src : src[i] = Blank}
  IN CASE k.f = "memmove" -> <<Put(m, k.d, src), k.d>>
       [] k.f = "memccpy" -> IF upto = {} THEN <<Put(m, k.d, src), Null>>
                             ELSE <<Put(m, k.d, SubSeq(src, 1, Min(upto))), k.d + Min(upto)>>
       [] k.f = "strncpy" -> <<Put(m, k.d, Padded(Text(m, k.s), k.n)), k.d>>
       [] k.f = "strrev"  -> <<Put(m, k.s, Reverse(Text(m, k.s))), IF m[k.s] = NUL THEN Null ELSE k.s>>
       [] k.f = "strnstr" ->
            LET hay  == Text(m, k.d)
                at   == Found(SubSeq(hay, 1, Min({k.n, Len(hay)})), Text(m, k.s))
            IN <<m, IF Text(m, k.s) = <<>> THEN k.d ELSE IF at = {} THEN Null ELSE k.d + Min(at)>>
       [] k.f = "strsub"  ->
            <<m, IF k.full THEN Null
                 ELSE Padded(SubSeq(Text(m, k.s), k.d + 1, Min({k.d + k.n, StrLen(m, k.s)})), k.n + 1)>>
       [] k.f = "strtrim" -> <<m, IF k.full THEN Null ELSE Trimmed(Text(m, k.s))>>

\* Whatever overlaps, is empty or just fits, a call changes and returns what it is
\* meant to, NULL without memory, and no byte beside.  The exception is ft_strtrim on a string without
\* anything but blanks, for which the bytes before it decide.
AsMeant ==
  ret # Pending =>
    /\ mem = Meant(call, before)[1]
    /\ \/ ret = Meant(call, before)[2]
       \/ /\ call.f = "strtrim" /\ ret \in {Null, Overrun}
          /\ Trimmed(Text(before, call.s)) = <<>> /\ before[call.s - 1] = Blank

=============================================================================
