------------------------------- MODULE Printf -------------------------------
(***************************************************************************)
(* ft_printf of libft: format strings are parsed one directive at a time,  *)
(* each handler writes its field and returns its length.  A character is a *)
(* string of length one; what is written is a sequence of characters.      *)
(*                                                                         *)
(* A call is given by its items: pieces of plain text, and directives as   *)
(* the C standard names their parts.  The program sees their text only.    *)
(***************************************************************************)
EXTENDS Integers, Sequences, FiniteSets, SequencesExt

CONSTANTS
  Calls,     \* families of calls of ft_printf: sets of [items, args]
  Bits,      \* the width of an integer argument by length modifier
  Null       \* the null pointer as an argument of %s

VARIABLES
  call,      \* the call
  format,    \* what is left of its format string
  ap,        \* the arguments that va_arg() has not returned
  out,       \* what has been written
  count,     \* the sum of the lengths that the handlers returned
  pc         \* "loop", or "done" when it has returned

printVars == <<call, format, ap, out, count, pc>>

-----------------------------------------------------------------------------
(* Characters and numbers. *)

Figures == <<"0", "1", "2", "3", "4", "5", "6", "7", "8", "9">>
Lower   == Figures \o <<"a", "b", "c", "d", "e", "f">>
Upper   == Figures \o <<"A", "B", "C", "D", "E", "F">>
IsDigit(c) == \E i \in 1..10 : Figures[i] = c

Larger(m, n) == IF m > n THEN m ELSE n
Pad(n, c)    == [i \in 1..n |-> c]                             \* write_padding
From(s, n)   == SubSeq(s, n + 1, Len(s))

\* The length of the longest beginning of s whose characters satisfy P.
Span(s, P(_)) == LET stops == {i \in 1..Len(s) : ~P(s[i])}
                 IN  IF stops = {} THEN Len(s) ELSE (CHOOSE i \in stops : \A j \in stops : i <= j) - 1

Ahead(s, c) == s # <<>> /\ s[1] = c

\* ft_atoi at a digit.
Atoi(s) == FoldLeft(LAMBDA v, c : 10 * v + (CHOOSE i \in 1..10 : Figures[i] = c) - 1,
                    0, SubSeq(s, 1, Span(s, IsDigit)))

\* places, pf_dtoa_u, pf_dtoa_signed, ft_ptoa: the digits of n.
Places(n, base) == IF n = 0 THEN 1 ELSE CHOOSE k \in 1..64 : base^(k - 1) <= n /\ n < base^k

Dtoa(n, base, figures) ==
  LET k == Places(n, base)
  IN  [i \in 1..k |-> figures[((n \div base^(k - i)) % base) + 1]]

\* What (char), (short), (int) and their unsigned kin keep of an argument.
Unsigned(v, w) == v % 2^w
Signed(v, w)   == IF Unsigned(v, w) >= 2^(w - 1) THEN Unsigned(v, w) - 2^w ELSE Unsigned(v, w)
IntArg(v)      == Signed(v, Bits[""])

-----------------------------------------------------------------------------
(* block_parser: flags, width, precision, length modifier, conversion.  A  *)
(* parser's state has the text, the arguments and the t_block.             *)

NoBlock == [flags |-> {}, width |-> 0, pflag |-> FALSE, p |-> 0, mod |-> "", conv |-> ""]

IsFlag(c) == c \in {"#", "0", "-", "+", " "}

ParseFlag(st) ==
  LET k == Span(st.s, IsFlag)
  IN  [st EXCEPT !.s = From(@, k), !.b.flags = {st.s[i] : i \in 1..k}]

\* handle_star_width: the argument becomes the width, unless a first '*' set one.
StarWidth(st, star) ==
  LET w    == IntArg(Head(st.ap))
      past == [st EXCEPT !.s = Tail(@), !.ap = Tail(@)]
  IN  IF star /\ st.b.width # 0 THEN past
      ELSE [past EXCEPT !.b.width = IF w < 0 THEN -w ELSE w,
                        !.b.flags = IF w < 0 THEN @ \cup {"-"} ELSE @]

\* After a '*' the width is read anew at every digit: the last one counts.
ParseWidth(st) ==
  LET star  == Ahead(st.s, "*")
      first == IF star THEN StarWidth(st, FALSE) ELSE st
      k     == Span(first.s, IsDigit)
      next  == IF k = 0 THEN first
               ELSE [first EXCEPT !.s = From(@, k),
                                  !.b.width = Atoi(IF star THEN From(first.s, k - 1) ELSE first.s)]
  IN  IF Ahead(next.s, "*") THEN StarWidth(next, star) ELSE next

\* Mutant of ParseP: a negative precision counts as one.
ParsePNegative(st) ==
  IF ~Ahead(st.s, ".") THEN st
  ELSE LET dotted == [st EXCEPT !.s = Tail(@), !.b.pflag = TRUE]
           k      == Span(dotted.s, IsDigit)
           next   == [dotted EXCEPT !.s = From(@, k), !.b.p = Atoi(dotted.s)]
       IN  IF ~Ahead(next.s, "*") THEN next
           ELSE [next EXCEPT !.s = Tail(@), !.ap = Tail(@), !.b.p = IntArg(Head(next.ap))]

ParseP(st) ==
  IF ~Ahead(st.s, ".") THEN st
  ELSE LET dotted == [st EXCEPT !.s = Tail(@), !.b.pflag = TRUE]
           k      == Span(dotted.s, IsDigit)
           next   == [dotted EXCEPT !.s = From(@, k), !.b.p = Atoi(dotted.s)]
           p      == IF next.b.p = 0 THEN IntArg(Head(next.ap)) ELSE next.b.p
       IN  IF ~Ahead(next.s, "*") THEN next
           ELSE [next EXCEPT !.s = Tail(@), !.ap = Tail(@), !.b.p = p, !.b.pflag = p >= 0]

\* The characters of a length modifier, "" being none.
Spelt(m) == CASE m = "" -> <<>> [] m = "hh" -> <<"h", "h">> [] m = "ll" -> <<"l", "l">>
              [] OTHER -> <<m>>

ParseMod(st) ==
  LET mods == {m \in DOMAIN Bits : IsPrefix(Spelt(m), st.s)}
      m    == CHOOSE m \in mods : \A n \in mods : Len(Spelt(n)) <= Len(Spelt(m))
  IN  [st EXCEPT !.s = From(@, Len(Spelt(m))), !.b.mod = m]

ParseC(st) ==
  IF st.s # <<>> /\ st.s[1] \in {"c", "s", "p", "d", "i", "o", "u", "x", "X", "f", "%"}
  THEN [st EXCEPT !.s = Tail(@), !.b.conv = IF st.s[1] = "i" THEN "d" ELSE st.s[1]]
  ELSE st

BlockParser(s, args) ==
  ParseC(ParseMod(ParseP(ParseWidth(ParseFlag([s |-> s, ap |-> args, b |-> NoBlock])))))

-----------------------------------------------------------------------------
(* Handlers: the text written and the length returned. *)

\* flag_manager.
FlagManager(b) ==
  [b EXCEPT !.flags = (@ \ (IF b.pflag \/ "-" \in @ THEN {"0"} ELSE {}))
                        \ (IF "+" \in @ THEN {" "} ELSE {})]

\* pad_block, around a sign or prefix and digits.
PadBlock(b, len, blen, seg) ==
  CASE seg = "ZEROS" ->
         IF b.pflag THEN Pad(Larger(b.p - len, 0), "0")
         ELSE IF "0" \in b.flags /\ b.width # 0 THEN Pad(Larger(b.width - blen, 0), "0") ELSE <<>>
    [] seg = "START" /\ "0" \notin b.flags /\ "-" \notin b.flags /\ b.width > blen ->
         Pad(b.width - blen, " ")
    [] seg = "END" /\ "0" \notin b.flags /\ "-" \in b.flags /\ b.width > blen ->
         Pad(b.width - blen, " ")
    [] OTHER -> <<>>

\* Mutant of BlockLen: the sign is not counted.
BlockLenUnsigned(b, len, lead) ==
  (IF b.pflag /\ b.p > len THEN b.p ELSE len) + (IF Len(lead) = 2 THEN 2 ELSE 0)

BlockLen(b, len, lead) == (IF b.pflag /\ b.p > len THEN b.p ELSE len) + Len(lead)

\* The common tail of handle_d, handle_p and write_unsigned.  A zero with
\* precision zero has no digits.
WriteNumber(b, n, lead, digits) ==
  LET s    == IF b.pflag /\ b.p = 0 /\ n = 0 THEN <<>> ELSE digits
      blen == BlockLen(b, Len(s), lead)
  IN  [text |-> PadBlock(b, Len(s), blen, "START") \o lead
                  \o PadBlock(b, Len(s), blen, "ZEROS") \o s
                  \o PadBlock(b, Len(s), blen, "END"),
       len  |-> Larger(b.width, blen)]

\* set_sign, or no sign at all.
SignOf(b, neg) ==
  IF neg THEN <<"-">> ELSE IF "+" \in b.flags THEN <<"+">>
  ELSE IF " " \in b.flags THEN <<" ">> ELSE <<>>

HandleD(b0, v) ==
  LET n == Signed(v, Bits[b0.mod])
      b == FlagManager(b0)
  IN  WriteNumber(b, n, SignOf(b, n < 0), Dtoa(IF n < 0 THEN -n ELSE n, 10, Lower))

\* handle_u, handle_o, handle_x with write_unsigned.
HandleU(b, v) ==
  LET n == Unsigned(v, Bits[b.mod]) IN WriteNumber(FlagManager(b), n, <<>>, Dtoa(n, 10, Lower))

HandleO(b, v) ==
  LET n      == Unsigned(v, Bits[b.mod])
      digits == Dtoa(n, 8, Lower)
      least  == IF n = 0 THEN 1 ELSE Len(digits) + 1
      b1     == IF "#" \in b.flags THEN [b EXCEPT !.pflag = TRUE, !.p = Larger(@, least)] ELSE b
  IN  WriteNumber(FlagManager(b1), n, <<>>, digits)

HandleX(b, v) ==
  LET n == Unsigned(v, Bits[b.mod])
  IN  WriteNumber(FlagManager(b), n,
                  IF "#" \in b.flags /\ n # 0 THEN <<"0", b.conv>> ELSE <<>>,
                  Dtoa(n, 16, IF b.conv = "x" THEN Lower ELSE Upper))

\* handle_p does without flag_manager.
HandleP(b, v) == WriteNumber(b, v, <<"0", "x">>, Dtoa(v, 16, Lower))

\* Fields of text: handle_c and handle_percent, handle_s.
WriteText(b, s) ==
  LET fill == Larger(b.width - Len(s), 0)
  IN  [text |-> IF "-" \in b.flags THEN s \o Pad(fill, " ")
                ELSE Pad(fill, IF "0" \in b.flags THEN "0" ELSE " ") \o s,
       len  |-> Larger(b.width, Len(s))]

HandleC(b, c) == WriteText(b, <<c>>)

HandleS(b, str) ==
  LET s == IF str = Null THEN <<"(", "n", "u", "l", "l", ")">> ELSE str
  IN  WriteText(b, SubSeq(s, 1, IF b.pflag /\ b.p < Len(s) THEN b.p ELSE Len(s)))

-----------------------------------------------------------------------------
(* handle_f for the numbers n / 2, for which long double is exact: <<"fin", *)
(* n>>, <<"inf", n>> with the sign of n, <<"nan", 0>>.                      *)

\* count_big_f: how often f can be divided by ten before it is 1 or less.
CountBigF(n) == Larger(Cardinality({k \in 0..9 : n > 2 * 10^k}), 1)

\* big_f: the first digit is whatever is left, "9" + 1 too.
BigF(n) ==
  LET c == CountBigF(n)
  IN  [i \in 1..c |-> IF i = 1 THEN Append(Figures, ":")[n \div (2 * 10^(c - 1)) + 1]
                      ELSE Figures[(((n \div 2) \div 10^(c - i)) % 10) + 1]]

\* little_f: p digits of the fraction.
LittleF(n, p) == [i \in 1..p |-> IF i = 1 /\ n % 2 = 1 THEN "5" ELSE "0"]

\* ft_round: a half is left over only with precision 0.  Whether it is rounded up is
\* decided by a character of a string that has been freed: either may come out.
FtRound(n, p, up) == IF p = 0 /\ n % 2 = 1 /\ up THEN n + 1 ELSE n

\* flag_manager_f, with flag_helper_f_nan.
FlagManagerF(b, kind) ==
  LET flags == ((b.flags \ (IF kind # "fin" THEN {"0", "#"} ELSE {}))
                  \ (IF kind = "nan" THEN {"+"} ELSE {}))
  IN  [b EXCEPT !.pflag = TRUE,
                !.p = IF kind # "fin" THEN 0 ELSE IF b.pflag THEN @ ELSE 6,
                !.flags = (flags \ (IF "-" \in flags THEN {"0"} ELSE {}))
                            \ (IF "+" \in flags THEN {" "} ELSE {})]

\* block_len_f: the sign of a negative number is counted only if a flag asks for a sign.
BlockLenF(b, big) ==
  Len(big) + b.p + (IF b.p > 0 \/ "#" \in b.flags THEN 1 ELSE 0)
    + (IF b.flags \cap {" ", "+"} # {} THEN 1 ELSE 0)

\* handle_f, write_f and pad_block_f.
HandleF(b0, f, up) ==
  LET b    == FlagManagerF(b0, f[1])
      n    == FtRound(IF f[2] < 0 THEN -f[2] ELSE f[2], b.p, up)
      big  == CASE f[1] = "fin" -> BigF(n) [] f[1] = "inf" -> <<"i", "n", "f">>
                [] OTHER -> <<"n", "a", "n">>
      dot  == IF b.p > 0 \/ "#" \in b.flags THEN <<".">> ELSE <<>>
      len  == BlockLenF(b, big)
      fill == Larger(b.width - len, 0)
      Fill(seg, c) == IF seg THEN Pad(fill, c) ELSE <<>>
  IN  [text |-> Fill(b.flags \cap {"0", "-"} = {}, " ") \o SignOf(b, f[2] < 0)
                  \o Fill("0" \in b.flags, "0") \o big \o dot
                  \o (IF f[1] = "fin" THEN LittleF(n, b.p) ELSE <<>>)
                  \o Fill("-" \in b.flags, " "),
       len  |-> Larger(b.width, len)]

\* pf_call_handler.
Handle(b, arg, up) ==
  CASE b.conv = "d" -> HandleD(b, arg)
    [] b.conv = "u" -> HandleU(b, arg)
    [] b.conv = "o" -> HandleO(b, arg)
    [] b.conv \in {"x", "X"} -> HandleX(b, arg)
    [] b.conv = "p" -> HandleP(b, arg)
    [] b.conv = "c" -> HandleC(b, arg)
    [] b.conv = "s" -> HandleS(b, arg)
    [] b.conv = "f" -> HandleF(b, arg, up)

-----------------------------------------------------------------------------
(* The items of a call, and the format string they make. *)

NoWidth == -1   \* also: no precision
Star    == -2
Dot     == -3   \* a precision of "." alone

TextOf(item) ==
  LET Number(n) == CASE n = NoWidth -> <<>> [] n = Star -> <<"*">>
                     [] n = Dot -> <<>> [] OTHER -> Dtoa(n, 10, Lower)
  IN  IF item.conv = "" THEN item.plain
      ELSE <<"%">> \o item.flags \o Number(item.width)
             \o (IF item.prec = NoWidth THEN <<>> ELSE <<".">>) \o Number(item.prec)
             \o Spelt(item.mod) \o <<item.conv>>

FormatOf(items) == FoldLeft(LAMBDA s, item : s \o TextOf(item), <<>>, items)

-----------------------------------------------------------------------------
(* The loop of ft_printf. *)

Init ==
  /\ \E family \in Calls : call \in family
  /\ format = FormatOf(call.items)
  /\ ap = call.args
  /\ out = <<>>
  /\ count = 0
  /\ pc = "loop"

\* handle_plain: up to the next '%'.
Plain ==
  /\ pc = "loop" /\ format # <<>> /\ format[1] # "%"
  /\ LET k == Span(format, LAMBDA c : c # "%")
     IN  /\ out' = out \o SubSeq(format, 1, k)
         /\ count' = count + k
         /\ format' = From(format, k)
  /\ UNCHANGED <<call, ap, pc>>

\* A directive without a conversion writes nothing: what stopped the parser is plain text.
Directive ==
  /\ pc = "loop" /\ format # <<>> /\ format[1] = "%"
  /\ LET st == BlockParser(Tail(format), ap)
     IN  /\ format' = st.s
         /\ \/ st.b.conv = "" /\ ap' = st.ap /\ UNCHANGED <<out, count>>
            \/ /\ st.b.conv = "%"
               /\ LET field == HandleC(st.b, "%")
                  IN  out' = out \o field.text /\ count' = count + field.len
               /\ ap' = st.ap
            \/ /\ st.b.conv \notin {"", "%"}
               /\ \E up \in BOOLEAN :
                    LET field == Handle(st.b, Head(st.ap), up)
                    IN  out' = out \o field.text /\ count' = count + field.len
               /\ ap' = Tail(st.ap)
  /\ UNCHANGED <<call, pc>>

Return ==
  /\ pc = "loop" /\ format = <<>>
  /\ pc' = "done"
  /\ UNCHANGED <<call, format, ap, out, count>>

Next == Plain \/ Directive \/ Return

Spec == Init /\ [][Next]_printVars


=============================================================================
