------------------------------ MODULE Request ------------------------------
(***************************************************************************)
(* A command on its way from the prompt to the handler of the server: the  *)
(* client splits a line into words, send_code() prints code and name into  *)
(* MAX_TN_LEN bytes, the thread finds them in a buffer that earlier        *)
(* requests have used, cuts it at the newline and splits it at ':'.  When  *)
(* the newline did not fit, the one that is found may lie behind the       *)
(* buffer; what the NUL written there does is not followed.  The           *)
(* absent argument of a command (a null pointer) is the empty string: no   *)
(* word is empty.                                                          *)
(***************************************************************************)
EXTENDS CStrings

CONSTANTS
  Char, Space, Slash, Colon, NL, Nul,
  Word,     \* g_cmd_str, of the commands that go to the server
  Code,     \* g_com_str, of the same commands
  Second,   \* g_com_str, of the second code of a get and a put
  MaxTn,    \* MAX_TN_LEN
  Lines,    \* what a user may type
  Stack,    \* what an uninitialized buffer may hold
  Behind    \* what may follow the buffer in memory, up to a NUL

Commands == {"ls", "pwd", "cd", "get", "put"}
Transfers == {"get", "put"}
Plain == Char \ {Colon, NL}
Nothing == [cmd |-> "none", name |-> <<>>]

ASSUME CharAssumption ==
  {Space, Slash, Colon, NL} \subseteq Char /\ Nul \notin Char /\ Colon \notin {Space, NL}
ASSUME CodeAssumption ==
  /\ Word \in [Commands -> Seq(Char) \ {<<>>}]
  /\ Code \in [Commands -> Seq(Plain) \ {<<>>}] /\ Second \in [Transfers -> Seq(Plain) \ {<<>>}]
  /\ \A c, d \in Commands : c # d => Code[c] # Code[d] /\ Word[c] # Word[d]
  /\ MaxTn \in Nat
  /\ \A c \in Commands : Len(Code[c]) + 2 < MaxTn
  /\ \A c \in Transfers : Len(Second[c]) + 2 < MaxTn
ASSUME InputAssumption ==
  /\ Lines \subseteq Seq(Char \ {NL}) \ {<<>>} /\ Behind \subseteq Seq(Char)
  /\ \A s \in Stack : s \in Seq(Char \cup {Nul}) /\ Len(s) = MaxTn

VARIABLES
  pc,       \* where the client and the thread are; "wild" after a stray NUL
  typed,    \* the line at the prompt
  wanted,   \* the command and the name in it
  wire,     \* the last message of send_code()
  buf,      \* char buf[MAX_TN_LEN] of handle_connection()
  stray,    \* the NUL for this request's newline went behind buf
  served,   \* the handler that was called, with its av[0]
  refused   \* the handler answered the second code with BAD

vars == <<pc, typed, wanted, wire, buf, stray, served, refused>>

Init ==
  /\ pc = "prompt" /\ typed = <<>> /\ wanted = Nothing /\ wire = <<>>
  /\ buf \in Stack /\ stray = FALSE /\ served = Nothing /\ refused = FALSE

(***************************************************************************)
(* The client.                                                             *)
(***************************************************************************)
\* Mutant of Message: sprintf().
MessageUncut(code, name) ==
  (IF name = <<>> THEN code ELSE code \o <<Colon>> \o name) \o <<NL>>

\* Mutant of Message: no ':'.
MessageJoined(code, name) == Cut(code \o name \o <<NL>>, MaxTn - 1)

\* snprintf() in send_code.
Message(code, name) ==
  Cut((IF name = <<>> THEN code ELSE code \o <<Colon>> \o name) \o <<NL>>, MaxTn - 1)

\* The first lines of the handlers.
Acceptable(c, name) ==
  /\ c \notin {"ls", "pwd"} => name # <<>>
  /\ c \in Transfers => ~Has(name, Slash)

\* handle_cmd and the handlers up to send(); a line that is refused changes nothing.
Type(line) ==
  LET words == Split(line, Space)
  IN  /\ pc = "prompt"
      /\ typed' = line
      /\ \/ /\ words = <<>> /\ pc' = "null"
            /\ UNCHANGED <<wanted, wire>>
         \/ \E c \in Commands :
              LET name == IF c \in {"ls", "pwd"} \/ Len(words) = 1 THEN <<>> ELSE words[2]
              IN  /\ words # <<>> /\ words[1] = Word[c] /\ Acceptable(c, name)
                  /\ wanted' = [cmd |-> c, name |-> name]
                  /\ wire' = Message(Code[c], name)
                  /\ pc' = "request"
      /\ refused' = FALSE /\ stray' = FALSE
      /\ UNCHANGED <<buf, served>>

(***************************************************************************)
(* The thread.                                                             *)
(***************************************************************************)
\* recv(): the bytes of the message over those of earlier ones.
Filled == wire \o SubSeq(buf, Len(wire) + 1, Len(buf))

\* The string that begins with the bytes of b; without a NUL it goes on behind them.
AsString(b, behind) == IF Has(b, Nul) THEN Before(b, Nul) ELSE b \o behind

\* Mutant of UpToNewline: nothing is cut.
UpToNewlineUncut(s) == s

UpToNewline(s) == Before(s, NL)

\* Mutant of Dispatch: av begins one piece too far.
DispatchFar(line) ==
  LET pieces == Split(line, Colon)
      name   == IF Len(pieces) > 2 THEN pieces[3] ELSE <<>>
  IN  {[cmd |-> c, name |-> name] : c \in {d \in Commands : pieces # <<>> /\ pieces[1] = Code[d]}}

\* handle_cmd of the server: av[0] is the second piece.
Dispatch(line) ==
  LET pieces == Split(line, Colon)
      name   == IF Len(pieces) > 1 THEN pieces[2] ELSE <<>>
  IN  {[cmd |-> c, name |-> name] : c \in {d \in Commands : pieces # <<>> /\ pieces[1] = Code[d]}}

\* handle_cmd, with the handler up to its second recv().
Handle(line) ==
  /\ served' \in IF Dispatch(line) = {} THEN {Nothing} ELSE Dispatch(line)
  /\ \/ wanted.cmd # "put" /\ pc' = "prompt" /\ UNCHANGED wire
     \/ /\ wanted.cmd = "put" \/ (wanted.cmd = "get" /\ served'.name # <<>>)
        /\ pc' = "second" /\ wire' = Message(Second[wanted.cmd], wanted.name)

\* handle_connection: ft_strchr() runs on behind a buffer without a NUL, and a newline
\* found there is replaced by a NUL all the same, in whatever it belongs to.
Serve ==
  \E behind \in Behind :
    LET text == AsString(Filled, behind)
        line == UpToNewline(text)
        end  == Len(line) + 1
        found == end <= Len(text)
    IN  /\ pc = "request"
        /\ buf' = IF found /\ end <= MaxTn THEN [Filled EXCEPT ![end] = Nul] ELSE Filled
        /\ stray' = (found /\ end > MaxTn)
        /\ \/ Handle(line)
           \/ stray' /\ pc' = "wild" /\ served' = Nothing /\ UNCHANGED wire
        /\ UNCHANGED <<typed, wanted, refused>>

\* Mutant of ServeSecond: the whole message is compared.
ServeSecondWhole ==
  \E behind \in Behind :
    /\ pc = "second"
    /\ refused' = (wire \o behind # Second[served.cmd])
    /\ pc' = IF served.cmd = "put" /\ served.name = <<>> /\ ~refused' THEN "null" ELSE "prompt"
    /\ UNCHANGED <<typed, wanted, wire, buf, stray, served>>

\* The rest of handle_get and handle_put, up to the name's first use.
ServeSecond ==
  \E behind \in Behind :
    LET pieces == Split(wire \o behind, Colon)
    IN  /\ pc = "second"
        /\ refused' = (pieces # <<>> /\ pieces[1] # Second[served.cmd])
        /\ pc' = IF served.cmd = "put" /\ served.name = <<>> /\ ~refused' THEN "null" ELSE "prompt"
        /\ UNCHANGED <<typed, wanted, wire, buf, stray, served>>

Next == (\E line \in Lines : Type(line)) \/ Serve \/ ServeSecond

Spec == Init /\ [][Next]_vars

-----------------------------------------------------------------------------
(* Properties. *)

Commanded == [cmd : Commands \cup {"none"}, name : Seq(Char)]

\* Messages stay in their buffers; only a stray NUL does not.
TypeOK ==
  /\ pc \in {"prompt", "request", "second", "null", "wild"}
  /\ typed \in Seq(Char) /\ wanted \in Commanded /\ served \in Commanded
  /\ wire \in Seq(Char) /\ Len(wire) < MaxTn
  /\ buf \in Seq(Char \cup {Nul}) /\ Len(buf) = MaxTn
  /\ refused \in BOOLEAN
  /\ stray \in BOOLEAN /\ (pc = "wild" => stray)

\* How much of a name a request can hold, and whether it holds the name and its newline.
Room(c) == MaxTn - 1 - Len(Code[c]) - 1
Fits(r) == r.cmd \in Commands /\ Len(r.name) < Room(r.cmd)

\* Whatever the name and whatever the buffer held before, the handler is that of the
\* command, unless a stray NUL was written.
CommandKept == pc \notin {"request", "wild"} => served.cmd = wanted.cmd

\* The NUL that ends a request is written into the buffer whenever the newline fits.  A
\* name without ':' arrives as it is, nothing of an earlier request behind it; one that
\* is too long arrives as far as there is room, unless its NUL went astray.
Understood ==
  pc # "request" /\ wanted # Nothing =>
    /\ stray => ~Fits(wanted)
    /\ pc # "wild" /\ ~Has(wanted.name, Colon) =>
         /\ Cut(served.name, Room(wanted.cmd)) = Cut(wanted.name, Room(wanted.cmd))
         /\ Fits(wanted) => served.name = wanted.name

\* The second code is understood although nobody cuts its newline, or what the
\* uninitialized buffer holds behind it.
SecondTaken == ~refused

\* A handler meets a null pointer only for a line of blanks and a name of nothing but ':'
\* (or with nothing else in what there is room for).
NullExplained ==
  pc = "null" =>
    \/ \A i \in 1..Len(typed) : typed[i] = Space
    \/ wanted.name # <<>> /\ \A i \in 1..Len(Cut(wanted.name, Room("put"))) : wanted.name[i] = Colon

\* "get - Attempts to get the specified file from the server" (README.md): when the server
\* goes on with a get, it is with the name that the user gave.
NameHeard == pc = "second" /\ wanted.cmd = "get" /\ Fits(wanted) => served.name = wanted.name

=============================================================================
