--------------------------- MODULE PrintfStandard ---------------------------
(***************************************************************************)
(* What the C standard says that a call of printf writes, from the parts   *)
(* of its directives, and where ft_printf does and does not agree.         *)
(***************************************************************************)
EXTENDS Printf

\* Sign or prefix and digits in a field.
Field(width, flags, zeros, lead, body) ==
  LET fill == Larger(width - Len(lead) - Len(body), 0)
  IN  IF "-" \in flags THEN lead \o body \o Pad(fill, " ")
      ELSE IF zeros /\ "0" \in flags THEN lead \o Pad(fill, "0") \o body
      ELSE Pad(fill, " ") \o lead \o body

Sign(flags, neg) ==
  IF neg THEN <<"-">> ELSE IF "+" \in flags THEN <<"+">> ELSE IF " " \in flags THEN <<" ">> ELSE <<>>

\* At least prec digits, none for a zero with precision 0.
AtLeast(prec, n, digits) ==
  IF prec = 0 /\ n = 0 THEN <<>> ELSE Pad(Larger(prec - Len(digits), 0), "0") \o digits

FloatBody(f, prec, alt, up) ==
  LET n == IF f[2] < 0 THEN -f[2] ELSE f[2]
      m == (IF prec = 0 /\ up THEN n + 1 ELSE n) \div 2
  IN  Dtoa(m, 10, Lower) \o (IF prec > 0 \/ alt THEN <<".">> ELSE <<>>)
        \o [i \in 1..prec |-> IF i = 1 /\ n % 2 = 1 THEN "5" ELSE "0"]

\* The field of a directive with its width, precision (or NoWidth) and argument.
Standard(conv, mod, flags, width, prec, arg, up) ==
  LET int == prec = NoWidth     \* the flag 0 counts for integers without precision only
      u   == Unsigned(arg, Bits[mod])
      n   == Signed(arg, Bits[mod])
      alt == "#" \in flags
  IN  CASE conv = "c" -> Field(width, flags, TRUE, <<>>, <<arg>>)
        [] conv = "%" -> Field(width, flags, TRUE, <<>>, <<"%">>)
        [] conv = "s" ->
             LET s == IF arg = Null THEN <<"(", "n", "u", "l", "l", ")">> ELSE arg
             IN  Field(width, flags, TRUE, <<>>,
                       SubSeq(s, 1, IF int \/ prec > Len(s) THEN Len(s) ELSE prec))
        [] conv \in {"d", "i"} ->
             Field(width, flags, int, Sign(flags, n < 0),
                   AtLeast(prec, n, Dtoa(IF n < 0 THEN -n ELSE n, 10, Lower)))
        [] conv = "u" -> Field(width, flags, int, <<>>, AtLeast(prec, u, Dtoa(u, 10, Lower)))
        [] conv = "o" ->
             LET s == AtLeast(prec, u, Dtoa(u, 8, Lower))
             IN  Field(width, flags, int, <<>>, IF alt /\ ~Ahead(s, "0") THEN <<"0">> \o s ELSE s)
        [] conv \in {"x", "X"} ->
             Field(width, flags, int, IF alt /\ u # 0 THEN <<"0", conv>> ELSE <<>>,
                   AtLeast(prec, u, Dtoa(u, 16, IF conv = "x" THEN Lower ELSE Upper)))
        [] conv = "p" ->
             Field(width, flags, int, <<"0", "x">>, AtLeast(prec, arg, Dtoa(arg, 16, Lower)))
        [] conv = "f" ->
             LET fin == arg[1] = "fin"
             IN  Field(width, flags, fin, Sign(flags, arg[2] < 0),
                       IF fin THEN FloatBody(arg, IF int THEN 6 ELSE prec, alt, up)
                       ELSE IF arg[1] = "inf" THEN <<"i", "n", "f">> ELSE <<"n", "a", "n">>)

\* One item after the others: its stars take an argument each, its conversion another.
Meant(acc, item, up) ==
  LET stars == Cardinality({x \in {"w", "p"} : (IF x = "w" THEN item.width ELSE item.prec) = Star})
      w     == IF item.width = Star THEN IntArg(acc.ap[1]) ELSE Larger(item.width, 0)
      prec  == CASE item.prec = Star -> IntArg(acc.ap[stars]) [] item.prec = Dot -> 0
                 [] OTHER -> item.prec
      flags == {item.flags[i] : i \in 1..Len(item.flags)} \cup (IF w < 0 THEN {"-"} ELSE {})
      args  == From(acc.ap, stars)
  IN  IF item.conv = "" THEN [acc EXCEPT !.text = @ \o item.plain]
      ELSE IF item.conv = "%" THEN
        [text |-> acc.text \o Standard("%", "", flags, IF w < 0 THEN -w ELSE w, NoWidth, 0, up),
         ap   |-> args]
      ELSE [text |-> acc.text \o Standard(item.conv, item.mod, flags, IF w < 0 THEN -w ELSE w,
                                         IF prec < 0 THEN NoWidth ELSE prec, Head(args), up),
            ap   |-> Tail(args)]

MeaningOf(c, up) ==
  FoldLeft(LAMBDA acc, item : Meant(acc, item, up), [text |-> <<>>, ap |-> c.args], c.items)

-----------------------------------------------------------------------------
(* Properties. *)

FlagSet(item) == {item.flags[i] : i \in 1..Len(item.flags)}
Items(c)      == {c.items[i] : i \in 1..Len(c.items)}

\* A negative number printed by %f without a flag for signs.
SignUncounted(item, f) == item.conv = "f" /\ f[2] < 0 /\ FlagSet(item) \cap {"+", " "} = {}

\* ft_printf returns the number of characters it has written, except that the "-" of a
\* %f is not counted, and that a %p with the flag 0 and a precision is not padded to the
\* width it returns.
CountIsWritten ==
  pc = "done" /\ (\A d \in Items(call) : d.conv = "p" /\ d.prec # NoWidth => "0" \notin FlagSet(d))
    => Len(out) = count + Cardinality({i \in 1..Len(call.items) :
                                        /\ call.items[i].conv = "f"
                                        /\ SignUncounted(call.items[i], call.args[Len(call.args)])})

\* Where ft_printf prints something else: text that is no directive; %#o does not fill with
\* zeros; %p ignores precision for the flag 0; %f writes one character more than its width
\* for a negative number, ":" for the 1 of a power of ten, and no sign for nan.
Loose(c) ==
  LET f == c.args[Len(c.args)]
  IN  \E d \in Items(c) :
        \/ d.conv = "" /\ "%" \in {d.plain[i] : i \in 1..Len(d.plain)}
        \/ d.conv = "o" /\ {"#", "0"} \subseteq FlagSet(d)
        \/ d.conv = "p" /\ "0" \in FlagSet(d)
        \/ d.conv = "f" /\ f[1] = "nan" /\ "+" \in FlagSet(d)
        \/ SignUncounted(d, f) /\ d.width # NoWidth
        \/ d.conv = "f" /\ f[1] = "fin" /\ \E k \in 1..9, n \in {f[2], -f[2]} : n \in {2 * 10^k - 1, 2 * 10^k}

\* Everywhere else a call writes what the standard says (either way for a half that is
\* rounded), and every argument went to the directive it was meant for.
AsStandard ==
  pc = "done" /\ ~Loose(call)
    => ap = <<>> /\ \E up \in BOOLEAN : out = MeaningOf(call, up).text

=============================================================================
