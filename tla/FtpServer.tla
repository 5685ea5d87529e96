----------------------------- MODULE FtpServer -----------------------------
(***************************************************************************)
(* The server process (src/server): one thread per client runs             *)
(* handle_connection(), reading a request, acknowledging it and running    *)
(* its handler.  Each action runs from one blocking call, or one place     *)
(* where another thread can matter, to the next.  A failed send() or       *)
(* getpeername() ends the whole process: err_exit() calls exit().          *)
(***************************************************************************)
EXTENDS FtpNet

CONSTANTS
  Tree,      \* the directories under the server root, as paths from it
  FsInit,    \* the files the server starts with, per directory
  LsBlocks   \* blocks of output of an ls

Parent(d) == SubSeq(d, 1, Len(d) - 1)

ASSUME TreeAssumption ==
  /\ Tree \subseteq Seq(Names)
  /\ <<>> \in Tree
  /\ \A d \in Tree \ {<<>>} : Parent(d) \in Tree
ASSUME FsAssumption ==
  /\ FsInit \in [Tree -> [Names -> Content]]
  /\ \A d \in Tree, n \in Names : Append(d, n) \in Tree => FsInit[d][n] = NoFile
ASSUME LsBlocksAssumption == LsBlocks \in Nat

VARIABLES
  spc,       \* where the thread of c is
  req,       \* the request it handles
  cwd,       \* its working directory, a buffer on its stack
  fs,        \* the files of the server: directory -> name -> content
  off,       \* blocks read or written so far: the offset of its open file
  touched    \* history: since the thread announced or opened its file,
             \* another thread has truncated or written it

serverVars == <<spc, req, cwd, fs, off, touched>>

ServerPCs == {"recv",                        \* handle_connection: recv of a request
              "ack",                         \* request read, not yet acknowledged
              "get",                         \* handle_get entered
              "code", "codeok", "codebad",   \* recv of the second code; what it was
              "listen", "accept", "serve",   \* establish_data_sock; connected
              "ls", "tx", "rx",              \* the three transfers
              "done"}                        \* the thread, or the process, has ended

NoReq == [code |-> "LIST", name |-> ""]

InitServer ==
  /\ spc = [c \in Clients |-> "recv"]
  /\ req = [c \in Clients |-> NoReq]
  /\ cwd = [c \in Clients |-> <<>>]
  /\ fs = FsInit
  /\ off = [c \in Clients |-> 0]
  /\ touched = [c \in Clients |-> FALSE]

Step(c, l) == spc' = [spc EXCEPT ![c] = l]

\* err_exit(): every thread ends with the process; a running ls child does not.
ErrExit ==
  /\ up' = FALSE
  /\ UNCHANGED <<ctl, c2s, s2c, announced, dcli, dsrv, holders, dq>>
  /\ UNCHANGED serverVars

\* send_ack() and send_bad(), after which the thread is at l.
SendOrExit(c, tok, l) ==
  IF ctl[c] = "rst"
  THEN ErrExit
  ELSE /\ Reply(c, <<tok>>)
       /\ Step(c, l)
       /\ UNCHANGED <<up, c2s, announced, dcli, dsrv, holders, dq>>
       /\ UNCHANGED <<req, cwd, fs, off, touched>>

\* Mutant of SrvRecv: the rest of an older request of the same kind shows through.
SrvRecvStale(c) ==
  /\ up /\ spc[c] = "recv" /\ c2s[c] # <<>>
  /\ Step(c, "ack")
  /\ req' = [req EXCEPT ![c] = IF @.code = Head(c2s[c]).code THEN @ ELSE Head(c2s[c])]
  /\ c2s' = [c2s EXCEPT ![c] = Tail(@)]
  /\ UNCHANGED <<up, ctl, s2c, announced, dcli, dsrv, holders, dq>>
  /\ UNCHANGED <<cwd, fs, off, touched>>

(***************************************************************************)
(* handle_connection: recv().  0 ends the thread; -1 is as true as any     *)
(* length, and log_receive() then fails on the dead socket.                *)
(***************************************************************************)
SrvRecv(c) ==
  /\ up /\ spc[c] = "recv" /\ c2s[c] # <<>>
  /\ Step(c, "ack")
  /\ req' = [req EXCEPT ![c] = Head(c2s[c])]
  /\ c2s' = [c2s EXCEPT ![c] = Tail(@)]
  /\ UNCHANGED <<up, ctl, s2c, announced, dcli, dsrv, holders, dq>>
  /\ UNCHANGED <<cwd, fs, off, touched>>

\* Mutant of SrvHangup: a recv() of 0 is logged and acknowledged like a request.
SrvHangupLogged(c) ==
  /\ up /\ spc[c] = "recv" /\ c2s[c] = <<>>
  /\ ctl[c] # "open" /\ ErrExit

\* Mutant of SrvHangup: the loop only ends on a connection that was reset.
SrvHangupIgnored(c) ==
  /\ up /\ spc[c] = "recv" /\ c2s[c] = <<>>
  /\ ctl[c] = "rst" /\ ErrExit

SrvHangup(c) ==
  /\ up /\ spc[c] = "recv" /\ c2s[c] = <<>>
  /\ \/ /\ ctl[c] \in {"fin", "lost"}
        /\ Step(c, "done")
        /\ UNCHANGED <<netVars, req, cwd, fs, off, touched>>
     \/ ctl[c] = "rst" /\ ErrExit

\* log_receive(), send_ack() and the dispatch of handle_cmd().
SrvAck(c) ==
  /\ up /\ spc[c] = "ack"
  /\ SendOrExit(c, "ACK", CASE req[c].code \in {"LIST", "CWD", "CD"} -> "listen"
                            [] req[c].code = "GET" -> "get"
                            [] req[c].code = "PUT" -> "code"
                            [] OTHER -> "recv")

\* Mutant of SrvGet: the size of the file is looked for in the wrong directory.
SrvGetNoSize(c) ==
  LET file == fs[cwd[c]][req[c].name]
  IN /\ up /\ spc[c] = "get"
     /\ \/ file = NoFile /\ SendOrExit(c, "BAD", "recv")
        \/ file # NoFile /\ ctl[c] = "rst" /\ ErrExit
        \/ /\ file # NoFile /\ ctl[c] # "rst"
           /\ Reply(c, <<"ACK", "SIZE">>)
           /\ announced' = [announced EXCEPT ![c] = 0]
           /\ touched' = [touched EXCEPT ![c] = FALSE]
           /\ Step(c, "code")
           /\ UNCHANGED <<up, c2s, dcli, dsrv, holders, dq, req, cwd, fs, off>>

\* handle_get: is_gettable_file(), then the ACK and the size of the moment, or BAD.
\* When the ACK can be sent the send() of the size may fail: nobody looks.
SrvGet(c) ==
  LET file == fs[cwd[c]][req[c].name]
  IN /\ up /\ spc[c] = "get"
     /\ \/ file = NoFile /\ SendOrExit(c, "BAD", "recv")
        \/ file # NoFile /\ ctl[c] = "rst" /\ ErrExit
        \/ /\ file # NoFile /\ ctl[c] # "rst"
           /\ Reply(c, <<"ACK", "SIZE">>)
           /\ announced' = [announced EXCEPT ![c] = Len(file)]
           /\ touched' = [touched EXCEPT ![c] = FALSE]
           /\ Step(c, "code")
           /\ UNCHANGED <<up, c2s, dcli, dsrv, holders, dq, req, cwd, fs, off>>

(***************************************************************************)
(* handle_get and handle_put: recv() of the second code, its result        *)
(* ignored.  When the client is gone the buffer holds whatever the stack   *)
(* held, and may pass for the code or not.                                 *)
(***************************************************************************)
SrvCode(c) ==
  /\ up /\ spc[c] = "code"
  /\ \/ /\ c2s[c] # <<>>
        /\ c2s' = [c2s EXCEPT ![c] = Tail(@)]
        /\ Step(c, IF Head(c2s[c]).code = IF req[c].code = "GET" THEN "SFILE" ELSE "TFILE"
                   THEN "codeok" ELSE "codebad")
     \/ /\ c2s[c] = <<>> /\ ctl[c] # "open"
        /\ \E l \in {"codeok", "codebad"} : Step(c, l)
        /\ UNCHANGED c2s
  /\ UNCHANGED <<up, ctl, s2c, announced, dcli, dsrv, holders, dq>>
  /\ UNCHANGED <<req, cwd, fs, off, touched>>

\* Mutant of SrvCodeReply: no send_ack() before the data socket is offered.
SrvCodeReplyMute(c) ==
  /\ up
  /\ \/ /\ spc[c] = "codeok" /\ Step(c, "listen")
        /\ UNCHANGED <<netVars, req, cwd, fs, off, touched>>
     \/ spc[c] = "codebad" /\ SendOrExit(c, "BAD", "recv")

SrvCodeReply(c) ==
  /\ up
  /\ \/ spc[c] = "codeok" /\ SendOrExit(c, "ACK", "listen")
     \/ spc[c] = "codebad" /\ SendOrExit(c, "BAD", "recv")

\* establish_data_sock: server_listen_eph() and transmit_addr(), whose send() may fail.
SrvListen(c) ==
  /\ up /\ spc[c] = "listen"
  /\ Step(c, "accept")
  /\ Reply(c, <<"PORT">>)
  /\ dsrv' = [dsrv EXCEPT ![c] = "listen"]
  /\ dcli' = [dcli EXCEPT ![c] = "none"]
  /\ holders' = [holders EXCEPT ![c] = {}]
  /\ dq' = [dq EXCEPT ![c] = <<>>]
  /\ UNCHANGED <<up, c2s, announced, req, cwd, fs, off, touched>>

\* Mutant of SrvAccept: a connection that its client has already closed is skipped.
SrvAcceptLive(c) ==
  /\ up /\ spc[c] = "accept"
  /\ dcli[c] = "open"
  /\ Step(c, "serve")
  /\ dsrv' = [dsrv EXCEPT ![c] = "open"]
  /\ holders' = [holders EXCEPT ![c] = {}]
  /\ off' = [off EXCEPT ![c] = 0]
  /\ UNCHANGED <<up, ctl, c2s, s2c, announced, dcli, dq, req, cwd, fs, touched>>

\* establish_data_sock: accept(), then close() of the listening socket.
SrvAccept(c) ==
  /\ up /\ spc[c] = "accept"
  /\ dcli[c] # "none"
  /\ Step(c, "serve")
  /\ dsrv' = [dsrv EXCEPT ![c] = "open"]
  /\ holders' = [holders EXCEPT ![c] = {}]
  /\ off' = [off EXCEPT ![c] = 0]
  /\ UNCHANGED <<up, ctl, c2s, s2c, announced, dcli, dq, req, cwd, fs, touched>>

\* Mutant of CloseData: the close() is forgotten.
CloseDataLeak(c) == Step(c, "recv") /\ UNCHANGED dsrv

\* close() of the data socket, and back to the loop of handle_connection.
CloseData(c) ==
  /\ Step(c, "recv")
  /\ dsrv' = [dsrv EXCEPT ![c] = "shut"]

\* A send() or write() on the data socket: lost when the client has closed it.
Send(c, b) == dq' = [dq EXCEPT ![c] = IF dcli[c] = "shut" THEN @ ELSE Append(@, b)]

\* handle_ls, exec_to_socket: fork() copies every descriptor of the process.
Fork(c) ==
  /\ up /\ spc[c] = "serve" /\ req[c].code = "LIST"
  /\ Step(c, "ls")
  /\ holders' = [j \in Clients |-> IF dsrv[j] \in {"listen", "open"}
                                   THEN holders[j] \cup {c} ELSE holders[j]]
  /\ UNCHANGED <<up, ctl, c2s, s2c, announced, dcli, dsrv, dq>>
  /\ UNCHANGED <<req, cwd, fs, off, touched>>

\* ls writes its output; an orphan of a dead server goes on.
ChildWrite(c) ==
  /\ spc[c] = "ls" /\ off[c] < LsBlocks
  /\ dcli[c] = "shut" \/ Room(c)
  /\ Send(c, "text")
  /\ off' = [off EXCEPT ![c] = @ + 1]
  /\ UNCHANGED <<up, ctl, c2s, s2c, announced, dcli, dsrv, holders>>
  /\ UNCHANGED <<spc, req, cwd, fs, touched>>

\* ls ends, and its copies of the descriptors go; wait4() returns, and handle_ls closes.
ChildEnd(c) ==
  /\ spc[c] = "ls" /\ off[c] = LsBlocks
  /\ holders' = [j \in Clients |-> holders[j] \ {c}]
  /\ IF up THEN CloseData(c) ELSE Step(c, "done") /\ UNCHANGED dsrv
  /\ UNCHANGED <<up, ctl, c2s, s2c, announced, dcli, dq>>
  /\ UNCHANGED <<req, cwd, fs, off, touched>>

\* handle_pwd.
SrvPwd(c) ==
  /\ up /\ spc[c] = "serve" /\ req[c].code = "CWD"
  /\ Send(c, "text")
  /\ CloseData(c)
  /\ UNCHANGED <<up, ctl, c2s, s2c, announced, dcli, holders>>
  /\ UNCHANGED <<req, cwd, fs, off, touched>>

\* Mutant of SrvCd: no is_valid_directory().
SrvCdUnchecked(c) ==
  /\ up /\ spc[c] = "serve" /\ req[c].code = "CD"
  /\ cwd' = [cwd EXCEPT ![c] = IF req[c].name = ".." THEN Parent(@) ELSE Append(@, req[c].name)]
  /\ CloseData(c)
  /\ UNCHANGED <<up, ctl, c2s, s2c, announced, dcli, holders, dq, req, fs, off, touched>>

\* handle_cd: to the parent, to a directory of the current one, or an error text.
SrvCd(c) ==
  LET n == req[c].name
      sub == Append(cwd[c], n)
  IN /\ up /\ spc[c] = "serve" /\ req[c].code = "CD"
     /\ \/ /\ n = ".." /\ cwd[c] # <<>>
           /\ cwd' = [cwd EXCEPT ![c] = Parent(@)]
           /\ UNCHANGED dq
        \/ /\ n # ".." /\ sub \in Tree
           /\ cwd' = [cwd EXCEPT ![c] = sub]
           /\ UNCHANGED dq
        \/ /\ IF n = ".." THEN cwd[c] = <<>> ELSE sub \notin Tree
           /\ Send(c, "text")
           /\ UNCHANGED cwd
     /\ CloseData(c)
     /\ UNCHANGED <<up, ctl, c2s, s2c, announced, dcli, holders, req, fs, off, touched>>

\* send_file_to_client: open(); the file was gettable, and nothing removes files.
SrvOpenGet(c) ==
  /\ up /\ spc[c] = "serve" /\ req[c].code = "GET"
  /\ Step(c, "tx")
  /\ UNCHANGED <<netVars, req, cwd, fs, off, touched>>

\* send_file_to_client: read() and send() of a block; a failing send() stops nothing.
SrvTx(c) ==
  LET file == fs[cwd[c]][req[c].name]
  IN /\ up /\ spc[c] = "tx" /\ off[c] < Len(file)
     /\ dcli[c] = "shut" \/ Room(c)
     /\ Send(c, file[off[c] + 1])
     /\ off' = [off EXCEPT ![c] = @ + 1]
     /\ UNCHANGED <<up, ctl, c2s, s2c, announced, dcli, dsrv, holders>>
     /\ UNCHANGED <<spc, req, cwd, fs, touched>>

\* Mutant of SrvTxEnd: a last block that is not full is not sent.
SrvTxEndShort(c) ==
  /\ up /\ spc[c] = "tx" /\ off[c] + 1 >= Len(fs[cwd[c]][req[c].name])
  /\ CloseData(c)
  /\ UNCHANGED <<up, ctl, c2s, s2c, announced, dcli, holders, dq>>
  /\ UNCHANGED <<req, cwd, fs, off, touched>>

\* send_file_to_client: read() finds the end of the file, where it is now.
SrvTxEnd(c) ==
  /\ up /\ spc[c] = "tx" /\ off[c] >= Len(fs[cwd[c]][req[c].name])
  /\ CloseData(c)
  /\ UNCHANGED <<up, ctl, c2s, s2c, announced, dcli, holders, dq>>
  /\ UNCHANGED <<req, cwd, fs, off, touched>>

\* The other threads that have announced or opened the file that c changes.
Target(c) == <<cwd[c], req[c].name>>

TouchOthers(c) == [j \in Clients |-> touched[j] \/ (j # c /\ Target(j) = Target(c))]

\* Mutant of SrvOpenPut: no O_TRUNC.
SrvOpenPutOver(c) ==
  /\ up /\ spc[c] = "serve" /\ req[c].code = "PUT"
  /\ Append(cwd[c], req[c].name) \notin Tree
  /\ Step(c, "rx")
  /\ touched' = [TouchOthers(c) EXCEPT ![c] = FALSE]
  /\ UNCHANGED <<netVars, req, cwd, fs, off>>

\* rec_file_from_client: open() with O_CREAT and O_TRUNC.
SrvOpenPut(c) ==
  /\ up /\ spc[c] = "serve" /\ req[c].code = "PUT"
  /\ Append(cwd[c], req[c].name) \notin Tree
  /\ Step(c, "rx")
  /\ fs' = [fs EXCEPT ![cwd[c]][req[c].name] = <<>>]
  /\ touched' = [TouchOthers(c) EXCEPT ![c] = FALSE]
  /\ UNCHANGED <<netVars, req, cwd, off>>

\* rec_file_from_client: open() of a directory fails; handle_put closes the socket.
SrvRefusePut(c) ==
  /\ up /\ spc[c] = "serve" /\ req[c].code = "PUT"
  /\ Append(cwd[c], req[c].name) \in Tree
  /\ CloseData(c)
  /\ UNCHANGED <<up, ctl, c2s, s2c, announced, dcli, holders, dq>>
  /\ UNCHANGED <<req, cwd, fs, off, touched>>

\* write() of a block at an offset: over what is there, or beyond the end.
WriteAt(file, o, b) ==
  [i \in 1..(IF o < Len(file) THEN Len(file) ELSE o + 1) |->
     IF i = o + 1 THEN b ELSE IF i <= Len(file) THEN file[i] ELSE "hole"]

SrvRx(c) ==
  /\ up /\ spc[c] = "rx" /\ dq[c] # <<>>
  /\ fs' = [fs EXCEPT ![cwd[c]][req[c].name] = WriteAt(@, off[c], Head(dq[c]))]
  /\ touched' = TouchOthers(c)
  /\ off' = [off EXCEPT ![c] = @ + 1]
  /\ dq' = [dq EXCEPT ![c] = Tail(@)]
  /\ UNCHANGED <<up, ctl, c2s, s2c, announced, dcli, dsrv, holders>>
  /\ UNCHANGED <<spc, req, cwd>>

\* rec_file_from_client: recv() returns 0, because the client is done or dead.
SrvRxEnd(c) ==
  /\ up /\ spc[c] = "rx" /\ dq[c] = <<>> /\ dcli[c] = "shut"
  /\ CloseData(c)
  /\ UNCHANGED <<up, ctl, c2s, s2c, announced, dcli, holders, dq>>
  /\ UNCHANGED <<req, cwd, fs, off, touched>>

ServerStep(c) ==
  \/ SrvRecv(c)
  \/ SrvHangup(c)
  \/ SrvAck(c)
  \/ SrvGet(c)
  \/ SrvCode(c)
  \/ SrvCodeReply(c)
  \/ SrvListen(c)
  \/ SrvAccept(c)
  \/ Fork(c)
  \/ ChildWrite(c)
  \/ ChildEnd(c)
  \/ SrvPwd(c)
  \/ SrvCd(c)
  \/ SrvOpenGet(c)
  \/ SrvTx(c)
  \/ SrvTxEnd(c)
  \/ SrvOpenPut(c)
  \/ SrvRefusePut(c)
  \/ SrvRx(c)
  \/ SrvRxEnd(c)

=============================================================================
