----------------------------- MODULE MCRequest -----------------------------
(* Codes of one or two characters in messages of at most eight, in buffers of nine. *)
EXTENDS Request

MCChar == {"a", "b", "c", "d", "g", "l", "p", "s", "t", " ", "/", ":", "n"}

MCWord ==
  [c \in Commands |->
     CASE c = "ls" -> <<"l">> [] c = "pwd" -> <<"p", "d">> [] c = "cd" -> <<"c">>
       [] c = "get" -> <<"g">> [] c = "put" -> <<"p">>]

MCCode ==
  [c \in Commands |->
     CASE c = "ls" -> <<"l">> [] c = "pwd" -> <<"c", "d">> [] c = "cd" -> <<"c">>
       [] c = "get" -> <<"g">> [] c = "put" -> <<"p">>]

MCSecond == [c \in Transfers |-> IF c = "get" THEN <<"s">> ELSE <<"t">>]

\* Names that fill the message to one less than, to just and to one more than its newline.
MCNames ==
  {<<"a">>, <<"b">>, <<"a", "b", "a", "b">>, <<"a", "b", "a", "b", "a">>,
   <<"a", "b", "a", "b", "a", "b">>, <<"a", "b", "a", "b", "a", "b", "a">>,
   <<"a", ":", "b">>, <<":", "b">>, <<":">>, <<"a", "/">>}

MCLines ==
  {<<" ">>, <<"l">>, <<"p", "d">>, <<"a">>, <<"p">>}
  \cup {<<w, " ">> \o n : w \in {"c", "g", "p"}, n \in MCNames}
  \cup {<<" ", "g", " ", " ">> \o n \o <<" ", "b">> : n \in MCNames}

MCStack ==
  {[i \in 1..9 |-> "NUL"], [i \in 1..9 |-> "a"],
   [i \in 1..9 |-> IF i = 5 THEN ":" ELSE IF i = 7 THEN "NUL" ELSE "n"]}

MCBehind == {<<>>, <<"b">>, <<":", "b">>, <<"a", "n", "b">>}

=============================================================================
