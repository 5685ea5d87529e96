------------------------------- MODULE FtpNet -------------------------------
(***************************************************************************)
(* The sockets that join the client processes of ft_p to the one server    *)
(* process: per client a control connection, opened once, and at most one  *)
(* data connection at a time, negotiated for each command.                 *)
(*                                                                         *)
(* The kernel is not part of the repository.  This module states what the  *)
(* code in src/ relies on: ordered streams, end of file after FIN, errors  *)
(* after RST, a bounded socket buffer, and a descriptor that stays open    *)
(* for as long as some process still holds a copy of it.                   *)
(***************************************************************************)
EXTENDS Naturals, Sequences

CONSTANTS
  Clients,   \* the client processes; the session thread of c is also called c
  DataCap,   \* blocks a data socket buffers before send() blocks
  Names,     \* the file and directory names in use
  Blocks,    \* the blocks files are made of
  NoFile     \* the content of a name that does not exist

ASSUME DataCapAssumption == DataCap \in Nat \ {0}

\* What travels on a data connection, and what files hold: "text" is a piece of
\* readable output, "hole" the zeros of a file written beyond its end.
Chunk   == Blocks \cup {"hole", "text"}
Content == {NoFile} \cup Seq(Chunk)

ASSUME NoFileAssumption == NoFile \notin Seq(Chunk)

VARIABLES
  up,        \* the server process is alive
  ctl,       \* control connection of c, as the server end will find it
  c2s,       \* request lines sent by c, not yet read by the server
  s2c,       \* reply tokens sent to c, not yet read by the client
  announced, \* the file size that travels behind c's last "SIZE" token
  dcli,      \* the client's end of c's data connection
  dsrv,      \* the server's end of c's data connection
  holders,   \* the threads whose ls child inherited that end, listening or open
  dq         \* blocks in flight on c's data connection

netVars == <<up, ctl, c2s, s2c, announced, dcli, dsrv, holders, dq>>

\* g_com_str and g_cmd_code: the words that travel on the control connection.
FirstCodes  == {"LIST", "CWD", "CD", "GET", "PUT"}
SecondCodes == {"SFILE", "TFILE"}
Tokens      == {"ACK", "BAD", "SIZE", "PORT"}

Commands == [code : {"LIST", "CWD"}, name : {""}]
              \cup [code : {"CD"}, name : Names \cup {".."}]
              \cup [code : {"GET", "PUT"}, name : Names]
Request  == Commands \cup [code : SecondCodes, name : Names]

\* "open": both ends live.  "fin": the client closed in order.  "lost": it
\* closed, and the server has sent something since.  "rst": reset.
CtlStates == {"open", "fin", "lost", "rst"}

InitNet ==
  /\ up = TRUE
  /\ ctl = [c \in Clients |-> "open"]
  /\ c2s = [c \in Clients |-> <<>>]
  /\ s2c = [c \in Clients |-> <<>>]
  /\ announced = [c \in Clients |-> 0]
  /\ dcli = [c \in Clients |-> "none"]
  /\ dsrv = [c \in Clients |-> "none"]
  /\ holders = [c \in Clients |-> {}]
  /\ dq = [c \in Clients |-> <<>>]

(***************************************************************************)
(* Control connection, server to client: send() on afd.  To a client that  *)
(* has closed, the bytes are lost and the peer answers with a reset.       *)
(***************************************************************************)
Reply(c, toks) ==
  /\ s2c' = [s2c EXCEPT ![c] = IF ctl[c] = "open" THEN @ \o toks ELSE @]
  /\ ctl' = [ctl EXCEPT ![c] = IF @ = "fin" THEN "lost" ELSE @]

\* The reset that answers bytes sent to a closed client reaches the server.
NetReset(c) ==
  /\ ctl[c] = "lost"
  /\ ctl' = [ctl EXCEPT ![c] = "rst"]
  /\ UNCHANGED <<up, c2s, s2c, announced, dcli, dsrv, holders, dq>>

(***************************************************************************)
(* An ls child inherits every descriptor open at its fork(), and an orphan *)
(* of a dead server keeps them.  So a data connection is at its end when   *)
(* the thread (or the process) has closed it and no child holds it, and    *)
(* the control connections when server and children are all gone.          *)
(***************************************************************************)
ServerEndGone(c) == (~up \/ dsrv[c] = "shut") /\ holders[c] = {}

ServerSilent == ~up /\ \A c \in Clients : holders[c] = {}

Room(c) == Len(dq[c]) < DataCap

=============================================================================
