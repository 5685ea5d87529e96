----------------------------- MODULE LineStream -----------------------------
(***************************************************************************)
(* What main() of the client expects of get_next_line(): the lines of its  *)
(* standard input, each once, whole and in order, and then the end.        *)
(***************************************************************************)
EXTENDS Naturals, Sequences

CONSTANTS
  NL,      \* the newline
  Writes,  \* what may be written at once: sequences of characters
  Ragged   \* a line may also be cut short of its newline

VARIABLES
  text,    \* written, and not part of a line yet
  open,    \* more may be written
  lines,   \* the lines so far
  over     \* there are no more

vars == <<text, open, lines, over>>

NoNL(s) == \A i \in 1..Len(s) : s[i] # NL

Init == /\ text \in Writes \cup {<<>>} /\ open \in BOOLEAN
        /\ lines = <<>> /\ over = FALSE

Write(w) == open /\ text' = text \o w /\ UNCHANGED <<open, lines, over>>

Close == open /\ open' = FALSE /\ UNCHANGED <<text, lines, over>>

\* A line of n characters, of which `used` leave the text with its newline.
Deliver(n, used) ==
  /\ ~over
  /\ NoNL(SubSeq(text, 1, n))
  /\ lines' = Append(lines, SubSeq(text, 1, n))
  /\ text' = SubSeq(text, used + 1, Len(text))
  /\ UNCHANGED <<open, over>>

Line == \E n \in 0..(Len(text) - 1) : text[n + 1] = NL /\ Deliver(n, n + 1)

\* What follows the last newline is a line, too.
Rest == text # <<>> /\ ~open /\ Deliver(Len(text), Len(text))

Cut == Ragged /\ \E n \in 1..Len(text) : Deliver(n, n)

End == text = <<>> /\ ~open /\ over' = TRUE /\ UNCHANGED <<text, open, lines>>

Next == (\E w \in Writes : Write(w)) \/ Close \/ Line \/ Rest \/ Cut \/ End

Spec == Init /\ [][Next]_vars

=============================================================================
