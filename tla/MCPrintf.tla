------------------------------ MODULE MCPrintf ------------------------------
(* Calls with one directive of every kind, and with several. *)
EXTENDS Libft

\* The values Printf gives them; calls that named them through its instance Pf, which
\* these calls are a constant of, would be circular for TLC's statistics.
NoWidth == -1
Star    == -2
Dot     == -3

MCWidths == [m \in {"hh", "h", "", "L", "l", "ll"} |->
             CASE m = "hh" -> 3 [] m = "h" -> 4 [] m \in {"", "L"} -> 6 [] OTHER -> 7]

Plainly(s) == [conv |-> "", plain |-> s]

\* The calls whose only directive is d, its stars being w and p.
One(d, w, p, arg) ==
  [items |-> <<Plainly(<<"a">>), d>>,
   args  |-> (IF d.width = Star THEN <<w>> ELSE <<>>) \o (IF d.prec = Star THEN <<p>> ELSE <<>>)
               \o (IF d.conv = "%" THEN <<>> ELSE <<arg>>)]

Directives(flags, widths, precs, mods, convs) ==
  [flags : flags, width : widths, prec : precs, mod : mods, conv : convs]

Calling(ds, args) == {One(d, w, p, a) : d \in ds, w \in {7, 59}, p \in {3, 63}, a \in args}

SomeFlags == {<<>>, <<"-">>, <<"0">>, <<"+">>, <<" ">>, <<"#">>, <<"#", "0">>, <<"0", "-">>,
              <<" ", "+">>, <<"0", " ">>, <<"-", "+">>}

Ints == Calling(Directives(SomeFlags, {NoWidth, 5, Star}, {NoWidth, Dot, 2, Star},
                           {"", "hh"}, {"d", "u", "o", "x"}), {0, 5, 63, 75})
          \cup Calling(Directives({<<>>, <<"0", "#">>}, {NoWidth, 12}, {NoWidth, 0},
                                  {"h", "l", "ll", "L"}, {"i", "X"}), {10, 75, 127})

Texts == Calling(Directives({<<>>, <<"-">>, <<"0">>}, {NoWidth, 1, 6, Star}, {NoWidth, Dot, 2, Star}, {""},
                            {"s"}), {<<>>, <<"a", "b", "c">>, Null})
           \cup Calling(Directives({<<>>, <<"-">>, <<"0">>}, {NoWidth, 1, 6, Star}, {NoWidth}, {""},
                                   {"c", "%"}), {"b"})
           \cup Calling(Directives(SomeFlags, {NoWidth, 6}, {NoWidth, Dot, 3}, {""}, {"p"}), {0, 45})

Floats == Calling(Directives(SomeFlags, {NoWidth, 5, Star}, {NoWidth, Dot, 1, 2, Star}, {"", "L"}, {"f"}),
                  {<<"fin", n>> : n \in {0, 1, 2, 3, -5, 19, 20, -20, 21, 200, 243}}
                    \cup {<<"inf", 1>>, <<"inf", -1>>, <<"nan", 0>>})

Dir(w, p, c) == [flags |-> <<>>, width |-> w, prec |-> p, mod |-> "", conv |-> c]

Chained == {[items |-> <<d, Plainly(s), e>>,
             args  |-> <<4, 5>> \o <<6, 7>>] :
              d \in {Dir(Star, NoWidth, "d"), Dir(Star, NoWidth, "x")},
              e \in {Dir(Star, NoWidth, "u"), Dir(NoWidth, Star, "d")},
              s \in {<<>>, <<"b", " ">>, <<"%", "1", "y">>}}

MCCalls == {Ints, Texts, Floats, Chained}

=============================================================================
