----------------------------- MODULE FtpClient -----------------------------
(***************************************************************************)
(* The client process (src/client): the prompt loop, send_code(), the      *)
(* handlers of ls, pwd, cd, get, put and quit, and the two data loops.     *)
(* Each action runs from one blocking call to the next one.                *)
(***************************************************************************)
EXTENDS FtpNet

CONSTANTS
  LocalInit, \* LocalInit[c]: the files client c starts with
  Menu,      \* Menu[c]: the commands the user of c may give
  Mortal     \* the clients that may be killed at any moment

ASSUME LocalAssumption  == LocalInit \in [Clients -> [Names -> Content]]
ASSUME MenuAssumption   == Menu \in [Clients -> SUBSET Commands]
ASSUME MortalAssumption == Mortal \subseteq Clients

VARIABLES
  pc,        \* where the client is
  cmd,       \* the command it executes: its code word and argument
  lfs,       \* its local files: name -> sequence of blocks, or NoFile
  sent       \* blocks of a put read from the local file and sent so far

clientVars == <<pc, cmd, lfs, sent>>

ClientPCs == {"prompt",             \* in get_next_line()
              "ack", "ack2",        \* in send_code(): recv of the ACK
              "verdict", "size",    \* handle_get: recv of ACK/BAD, of the size
              "sfile", "tfile",     \* about to send the second code
              "port",               \* connect_to_data_sock: recv of the port
              "recvdata", "senddata",
              "quit", "dead"}

\* The process has ended; "quit" is handle_quit's exit, "dead" every other end.
Ended(c) == pc[c] \in {"quit", "dead"}

NoCmd == [code |-> "LIST", name |-> ""]

InitClient ==
  /\ pc = [c \in Clients |-> "prompt"]
  /\ cmd = [c \in Clients |-> NoCmd]
  /\ lfs = LocalInit
  /\ sent = [c \in Clients |-> 0]

Goto(c, l) == pc' = [pc EXCEPT ![c] = l]

TakeToken(c) == s2c' = [s2c EXCEPT ![c] = Tail(@)]

(***************************************************************************)
(* The kernel closes the sockets of a process that ends.  Unread bytes in  *)
(* a socket turn its FIN into an RST, and are gone.                        *)
(***************************************************************************)
EndProcess(c, l) ==
  /\ Goto(c, l)
  /\ ctl' = [ctl EXCEPT ![c] = IF s2c[c] = <<>> THEN "fin" ELSE "rst"]
  /\ s2c' = [s2c EXCEPT ![c] = <<>>]
  /\ dcli' = [dcli EXCEPT ![c] = IF @ = "open" THEN "shut" ELSE @]
  /\ dq' = [dq EXCEPT ![c] = IF pc[c] = "recvdata" THEN <<>> ELSE @]
  /\ UNCHANGED <<up, c2s, announced, dsrv, holders, cmd, lfs, sent>>

(***************************************************************************)
(* main, handle_cmd and the head of each handler, up to the send() of      *)
(* send_code().  A put opens its file first and gives up without one.      *)
(***************************************************************************)
Issue(c, m) ==
  /\ pc[c] = "prompt"
  /\ m \in Menu[c]
  /\ m.code = "PUT" => lfs[c][m.name] # NoFile
  /\ ~ServerSilent \/ c2s[c] = <<>>
  /\ Goto(c, "ack")
  /\ cmd' = [cmd EXCEPT ![c] = m]
  /\ c2s' = [c2s EXCEPT ![c] = Append(@, m)]
  /\ UNCHANGED <<up, ctl, s2c, announced, dcli, dsrv, holders, dq, lfs, sent>>

Quit(c) == pc[c] = "prompt" /\ EndProcess(c, "quit")

\* The process is killed, by a signal or with its terminal, at any moment.  Its kernel
\* closes the sockets.  A machine that loses its power closes none: not modelled.
Crash(c) == c \in Mortal /\ ~Ended(c) /\ EndProcess(c, "dead")

(***************************************************************************)
(* SIGPIPE, which the client does not ignore: send() on a control          *)
(* connection that a dead server has reset, or on a data connection whose  *)
(* server end is gone.                                                     *)
(***************************************************************************)
BrokenPipe(c) ==
  /\ \/ pc[c] = "prompt" /\ ServerSilent /\ c2s[c] # <<>>
     \/ pc[c] = "senddata" /\ ServerEndGone(c) /\ sent[c] < Len(lfs[c][cmd[c].name])
  /\ EndProcess(c, "dead")

(***************************************************************************)
(* recv() returns 0 on the control connection of a server that is gone:    *)
(* die(), or, for the port, a connect() to port 0 and err_exit().          *)
(***************************************************************************)
ServerGone(c) ==
  /\ pc[c] \in {"ack", "ack2", "verdict", "size", "port"}
  /\ ServerSilent
  /\ s2c[c] = <<>>
  /\ EndProcess(c, "dead")

\* recv() returns -1 instead, when a line the server never read caused a reset:
\* the buffer is not "ACK", and send_code() sends the handler back to the prompt.
NoAck(c) ==
  /\ pc[c] \in {"ack", "ack2"}
  /\ ServerSilent
  /\ s2c[c] = <<>>
  /\ c2s[c] # <<>>
  /\ Goto(c, "prompt")
  /\ UNCHANGED <<netVars, cmd, lfs, sent>>

\* Mutant of AfterAck: handle_put goes for the port without its second code.
AfterAckOneCode(c) ==
  IF pc[c] = "ack2" \/ cmd[c].code # "GET" THEN "port" ELSE "verdict"

\* Where the handler goes on when send_code() has returned 0.
AfterAck(c) ==
  IF pc[c] = "ack2" \/ cmd[c].code \notin {"GET", "PUT"} THEN "port"
  ELSE IF cmd[c].code = "GET" THEN "verdict" ELSE "tfile"

\* send_code(): recv of three bytes, compared with "ACK".
RecvAck(c) ==
  /\ pc[c] \in {"ack", "ack2"}
  /\ s2c[c] # <<>>
  /\ TakeToken(c)
  /\ Goto(c, IF Head(s2c[c]) = "ACK" THEN AfterAck(c) ELSE "prompt")
  /\ UNCHANGED <<up, ctl, c2s, announced, dcli, dsrv, holders, dq, cmd, lfs, sent>>

\* handle_get: the second ACK, on which the local file is created or truncated
\* before a byte of it has arrived, or BAD.
RecvVerdict(c) ==
  /\ pc[c] = "verdict"
  /\ s2c[c] # <<>>
  /\ TakeToken(c)
  /\ IF Head(s2c[c]) = "ACK"
     THEN Goto(c, "size") /\ lfs' = [lfs EXCEPT ![c][cmd[c].name] = <<>>]
     ELSE Goto(c, "prompt") /\ UNCHANGED lfs
  /\ UNCHANGED <<up, ctl, c2s, announced, dcli, dsrv, holders, dq, cmd, sent>>

\* handle_get: recv of file_size.
RecvSize(c) ==
  /\ pc[c] = "size"
  /\ s2c[c] # <<>>
  /\ TakeToken(c)
  /\ Goto(c, "sfile")
  /\ UNCHANGED <<up, ctl, c2s, announced, dcli, dsrv, holders, dq, cmd, lfs, sent>>

\* Mutant of SendCode2: handle_get sends the code of a put.
SendCode2Swapped(c) ==
  /\ pc[c] \in {"sfile", "tfile"}
  /\ Goto(c, "ack2")
  /\ c2s' = [c2s EXCEPT ![c] = Append(@, [code |-> "TFILE", name |-> cmd[c].name])]
  /\ UNCHANGED <<up, ctl, s2c, announced, dcli, dsrv, holders, dq, cmd, lfs, sent>>

\* The send() of the second send_code(): SFILE for a get, TFILE for a put.
SendCode2(c) ==
  /\ pc[c] \in {"sfile", "tfile"}
  /\ Goto(c, "ack2")
  /\ c2s' = [c2s EXCEPT ![c] = Append(@,
       [code |-> IF pc[c] = "sfile" THEN "SFILE" ELSE "TFILE", name |-> cmd[c].name])]
  /\ UNCHANGED <<up, ctl, s2c, announced, dcli, dsrv, holders, dq, cmd, lfs, sent>>

\* connect_to_data_sock: the port, then connect(), which succeeds as long as
\* someone holds the listening socket, and ends the client otherwise.
ConnectData(c) ==
  /\ pc[c] = "port"
  /\ s2c[c] # <<>>
  /\ up \/ holders[c] # {}
  /\ TakeToken(c)
  /\ Goto(c, IF cmd[c].code = "PUT" THEN "senddata" ELSE "recvdata")
  /\ dcli' = [dcli EXCEPT ![c] = "open"]
  /\ sent' = [sent EXCEPT ![c] = 0]
  /\ UNCHANGED <<up, ctl, c2s, announced, dsrv, holders, dq, cmd, lfs>>

ConnectRefused(c) ==
  /\ pc[c] = "port"
  /\ s2c[c] # <<>>
  /\ ~up /\ holders[c] = {}
  /\ EndProcess(c, "dead")

\* read_data_from_request: a block, written to the local file of a get.
RecvBlock(c) ==
  /\ pc[c] = "recvdata"
  /\ dq[c] # <<>>
  /\ dq' = [dq EXCEPT ![c] = Tail(@)]
  /\ lfs' = IF cmd[c].code = "GET"
            THEN [lfs EXCEPT ![c][cmd[c].name] = Append(@, Head(dq[c]))]
            ELSE lfs
  /\ UNCHANGED <<up, ctl, c2s, s2c, announced, dcli, dsrv, holders, pc, cmd, sent>>

\* read_data_from_request: end of file, whatever the reason the stream ended.
RecvEOF(c) ==
  /\ pc[c] = "recvdata"
  /\ dq[c] = <<>>
  /\ ServerEndGone(c)
  /\ dsrv[c] # "listen"
  /\ Goto(c, "prompt")
  /\ dcli' = [dcli EXCEPT ![c] = "shut"]
  /\ UNCHANGED <<up, ctl, c2s, s2c, announced, dsrv, holders, dq, cmd, lfs, sent>>

(***************************************************************************)
(* read_data_from_request: the server died before its accept(), and the    *)
(* kernel resets the connection.  recv() returns -1, a huge size_t len:    *)
(* write() rejects it and the next recv() returns 0, but a get with a      *)
(* progress bar first runs write_progress() out of its buffer, and the     *)
(* stack.                                                                  *)
(***************************************************************************)
RecvReset(c) ==
  /\ pc[c] = "recvdata"
  /\ ServerEndGone(c)
  /\ dsrv[c] = "listen"
  /\ IF cmd[c].code = "GET" /\ announced[c] > 0
     THEN EndProcess(c, "dead")
     ELSE /\ Goto(c, "prompt")
          /\ dcli' = [dcli EXCEPT ![c] = "shut"]
          /\ UNCHANGED <<up, ctl, c2s, s2c, announced, dsrv, holders, dq, cmd, lfs, sent>>

\* send_data_for_request: a block of the local file.  Without a server end the
\* block is lost: the error reaches the client with the next send().
SendBlock(c) ==
  /\ pc[c] = "senddata"
  /\ sent[c] < Len(lfs[c][cmd[c].name])
  /\ \/ /\ ~ServerEndGone(c) /\ Room(c)
        /\ dq' = [dq EXCEPT ![c] = Append(@, lfs[c][cmd[c].name][sent[c] + 1])]
     \/ ServerEndGone(c) /\ UNCHANGED dq
  /\ sent' = [sent EXCEPT ![c] = @ + 1]
  /\ UNCHANGED <<up, ctl, c2s, s2c, announced, dcli, dsrv, holders, pc, cmd, lfs>>

\* send_data_for_request: end of the local file; close(dfd), back to the prompt.
SendEOF(c) ==
  /\ pc[c] = "senddata"
  /\ sent[c] = Len(lfs[c][cmd[c].name])
  /\ Goto(c, "prompt")
  /\ dcli' = [dcli EXCEPT ![c] = "shut"]
  /\ UNCHANGED <<up, ctl, c2s, s2c, announced, dsrv, holders, dq, cmd, lfs, sent>>

\* The steps a client takes by itself; Issue and Quit wait for a user.
ClientStep(c) ==
  \/ BrokenPipe(c)
  \/ ServerGone(c)
  \/ NoAck(c)
  \/ RecvAck(c)
  \/ RecvVerdict(c)
  \/ RecvSize(c)
  \/ SendCode2(c)
  \/ ConnectData(c)
  \/ ConnectRefused(c)
  \/ RecvBlock(c)
  \/ RecvEOF(c)
  \/ RecvReset(c)
  \/ SendBlock(c)
  \/ SendEOF(c)

=============================================================================
