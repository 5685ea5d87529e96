----------------------------- MODULE LineReader -----------------------------
(***************************************************************************)
(* The client's prompt loop and get_next_line() (src/libft/src/gnl), which *)
(* puts lines together from reads that may end anywhere.                   *)
(*                                                                         *)
(* get_next_line() keeps what it has read beyond a line in a cache, one    *)
(* per descriptor; the client reads one, its standard input.               *)
(***************************************************************************)
EXTENDS Naturals, Sequences

CONSTANTS
  Char,      \* the characters in use
  NL,        \* the newline
  BuffSize,  \* BUFF_SIZE: what one read() asks for
  Texts,     \* what a file that is standard input may hold
  Writes,    \* what may be written at once to a pipe or typed on a terminal
  MaxText,   \* bound: characters written while the client runs
  MaxFails   \* bound: calls of read() that fail

ASSUME BuffSizeAssumption == BuffSize \in Nat \ {0}
ASSUME InputAssumption    == NL \in Char /\ Texts \subseteq Seq(Char) /\ Writes \subseteq Seq(Char)
ASSUME BoundAssumption    == MaxText \in Nat /\ MaxFails \in Nat

VARIABLES
  input,     \* written to standard input and not read yet
  open,      \* someone may still write
  tty,       \* standard input is a terminal: read() stops behind a newline
  cache,     \* **cache: read, and not part of a line yet
  pc,        \* "command": in handle_cmd or main; "read": in read(); "exit"
  lines,     \* history: the lines returned to main
  written,   \* counts towards MaxText
  fails      \* counts towards MaxFails

vars == <<input, open, tty, cache, pc, lines, written, fails>>

Init ==
  /\ \/ input \in Texts /\ open = FALSE /\ tty = FALSE
     \/ input = <<>> /\ open = TRUE /\ tty \in BOOLEAN
  /\ cache = <<>>
  /\ pc = "command"
  /\ lines = <<>>
  /\ written = 0 /\ fails = 0

(***************************************************************************)
(* Whoever writes to standard input: a user, a file, another process.      *)
(***************************************************************************)
Write(w) ==
  /\ open /\ written + Len(w) <= MaxText
  /\ input' = input \o w
  /\ written' = written + Len(w)
  /\ UNCHANGED <<tty, open, cache, pc, lines, fails>>

Close == open /\ open' = FALSE /\ UNCHANGED <<tty, input, cache, pc, lines, written, fails>>

(***************************************************************************)
(* get_next_line().                                                        *)
(***************************************************************************)
NoNL(s) == \A i \in 1..Len(s) : s[i] # NL

\* The first newline follows the first n characters: ft_strchr(*cache, '\n').
FirstNL(s, n) == s[n + 1] = NL /\ NoNL(SubSeq(s, 1, n))

\* main: prompt() and the call, up to read().
Prompt == pc = "command" /\ pc' = "read" /\ UNCHANGED <<tty, input, open, cache, lines, written, fails>>

\* get_next_line() returns `line` and keeps `rest`.
Return(line, rest) == pc' = "command" /\ lines' = Append(lines, line) /\ cache' = rest

\* Mutant of Build: the newline stays in the cache.
BuildKeepNL(c, size) ==
  \/ \E n \in 0..(Len(c) - 1) : FirstNL(c, n) /\ Return(SubSeq(c, 1, n), SubSeq(c, n + 1, Len(c)))
  \/ NoNL(c) /\ size < BuffSize /\ Return(c, <<>>)
  \/ NoNL(c) /\ size >= BuffSize /\ cache' = c /\ UNCHANGED <<pc, lines>>

\* Mutant of Build: a full read() counts as a short one.
BuildFullIsShort(c, size) ==
  \/ \E n \in 0..(Len(c) - 1) : FirstNL(c, n) /\ Return(SubSeq(c, 1, n), SubSeq(c, n + 2, Len(c)))
  \/ NoNL(c) /\ size <= BuffSize /\ Return(c, <<>>)
  \/ NoNL(c) /\ size > BuffSize /\ cache' = c /\ UNCHANGED <<pc, lines>>

\* Mutant of Build: a cache without a newline is not emptied.
BuildNoClear(c, size) ==
  \/ \E n \in 0..(Len(c) - 1) : FirstNL(c, n) /\ Return(SubSeq(c, 1, n), SubSeq(c, n + 2, Len(c)))
  \/ NoNL(c) /\ size < BuffSize /\ Return(c, c)
  \/ NoNL(c) /\ size >= BuffSize /\ cache' = c /\ UNCHANGED <<pc, lines>>

\* line_builder(), with c in the cache after a read() that returned `size`: up to
\* the first newline, or all of it after a short read, or else another read().
Build(c, size) ==
  \/ \E n \in 0..(Len(c) - 1) : FirstNL(c, n) /\ Return(SubSeq(c, 1, n), SubSeq(c, n + 2, Len(c)))
  \/ NoNL(c) /\ size < BuffSize /\ Return(c, <<>>)
  \/ NoNL(c) /\ size >= BuffSize /\ cache' = c /\ UNCHANGED <<pc, lines>>

\* read() returns k characters: what there is, what was asked for, or one line.
Reads(k) ==
  /\ tty => NoNL(SubSeq(input, 1, k - 1))
  /\ k = BuffSize \/ k = Len(input) \/ (tty /\ input[k] = NL)

Read ==
  /\ pc = "read"
  /\ \E k \in 1..Len(input) :
       /\ k <= BuffSize /\ Reads(k)
       /\ input' = SubSeq(input, k + 1, Len(input))
       /\ Build(cache \o SubSeq(input, 1, k), k)
  /\ UNCHANGED <<tty, open, written, fails>>

\* Mutant of ReadEnd: main returns although the cache still holds a line.
ReadEndEarly ==
  /\ pc = "read" /\ input = <<>> /\ ~open
  /\ pc' = "exit"
  /\ UNCHANGED <<tty, input, open, cache, lines, written, fails>>

\* Mutant of ReadEnd: the end of the input is reported like an error.
ReadEndTrue ==
  /\ pc = "read" /\ input = <<>> /\ ~open
  /\ IF cache # <<>> THEN Build(cache, 0) ELSE pc' = "command" /\ UNCHANGED <<cache, lines>>
  /\ UNCHANGED <<tty, input, open, written, fails>>

\* read() returns 0: what the cache holds, or 0 to main, which returns.
ReadEnd ==
  /\ pc = "read" /\ input = <<>> /\ ~open
  /\ IF cache # <<>> THEN Build(cache, 0) ELSE pc' = "exit" /\ UNCHANGED <<cache, lines>>
  /\ UNCHANGED <<tty, input, open, written, fails>>

\* read() returns -1, and get_next_line() also does: as true for main as 1.
ReadFail ==
  /\ pc = "read" /\ fails < MaxFails
  /\ fails' = fails + 1
  /\ IF cache # <<>> THEN Build(cache, 0) ELSE pc' = "command" /\ UNCHANGED <<cache, lines>>
  /\ UNCHANGED <<tty, input, open, written>>

-----------------------------------------------------------------------------
Reader == Prompt \/ Read \/ ReadEnd \/ ReadFail

\* The client has returned from main.
Done == pc = "exit" /\ UNCHANGED vars

Next == (\E w \in Writes : Write(w)) \/ Close \/ Reader \/ Done

Spec == Init /\ [][Next]_vars

\* The client runs whenever it can; nobody has to write or to close.
FairSpec == Spec /\ WF_vars(Reader)

-----------------------------------------------------------------------------
(* Properties. *)

\* Every variable keeps its type, and the client ends with nothing left to execute.
TypeOK ==
  /\ input \in Seq(Char) /\ cache \in Seq(Char) /\ lines \in Seq(Seq(Char))
  /\ open \in BOOLEAN /\ tty \in BOOLEAN
  /\ pc \in {"command", "read", "exit"}
  /\ written \in 0..MaxText /\ fails \in 0..MaxFails
  /\ pc = "exit" => input = <<>> /\ cache = <<>> /\ ~open

\* On a terminal no line typed ahead is held back in the cache: while a command runs,
\* everything that was read has been returned.  (A pipe may hand over two lines at once,
\* and get_next_line() then waits for another read() before it returns the second.)
NothingHeldBack == tty /\ pc = "command" => cache = <<>>

EndsLine(s) == s = <<>> \/ s[Len(s)] = NL

\* Every write ends a line; of a file, the last line may lack its newline.
WritesLines == \A w \in Writes : EndsLine(w)

\* When every write ends a line and no read() fails, the client executes exactly the
\* lines that were written, whatever get_next_line() makes of them on the way.
Stream == INSTANCE LineStream WITH
  text <- cache \o input, over <- pc = "exit", Ragged <- FALSE,
  Writes <- Writes \cup Texts
WholeLines == Stream!Spec

\* With writes that end anywhere and reads that fail, lines may be cut in two, but no
\* character is lost, none comes twice, and no two lines are joined.
Shreds == INSTANCE LineStream WITH
  text <- cache \o input, over <- pc = "exit", Ragged <- TRUE,
  Writes <- Writes \cup Texts
NothingLost == Shreds!Spec

\* When standard input is closed the client executes what it still holds and ends.
EndsWithInput == ~open ~> pc = "exit"

=============================================================================
