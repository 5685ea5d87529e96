----------------------------- MODULE FtpSystem -----------------------------
(***************************************************************************)
(* ft_p: the client processes and the server process over their sockets,   *)
(* and what they promise together.                                         *)
(***************************************************************************)
EXTENDS FtpClient, FtpServer

vars == <<netVars, clientVars, serverVars>>

Init == InitNet /\ InitClient /\ InitServer

\* What happens without a user, a signal or a fault.
Run(c) ==
  \/ ClientStep(c) /\ UNCHANGED serverVars
  \/ ServerStep(c) /\ UNCHANGED clientVars
  \/ NetReset(c) /\ UNCHANGED <<clientVars, serverVars>>

User(c) ==
  \/ (\E m \in Menu[c] : Issue(c, m)) /\ UNCHANGED serverVars
  \/ Quit(c) /\ UNCHANGED serverVars
  \/ Crash(c) /\ UNCHANGED serverVars

Next == \E c \in Clients : Run(c) \/ User(c)

Spec == Init /\ [][Next]_vars

\* Processes and threads are scheduled by a preemptive kernel, and bytes
\* arrive.  Nobody owes us a command or a quit.
Fairness ==
  \A c \in Clients :
    /\ WF_vars(ClientStep(c) /\ UNCHANGED serverVars)
    /\ WF_vars(ServerStep(c) /\ UNCHANGED clientVars)
    /\ WF_vars(NetReset(c) /\ UNCHANGED <<clientVars, serverVars>>)

FairSpec == Spec /\ Fairness

-----------------------------------------------------------------------------
(* Types. *)

NetTypeOK ==
  /\ up \in BOOLEAN
  /\ ctl \in [Clients -> CtlStates]
  /\ c2s \in [Clients -> Seq(Request)]
  /\ s2c \in [Clients -> Seq(Tokens)]
  /\ announced \in [Clients -> Nat]
  /\ dcli \in [Clients -> {"none", "open", "shut"}]
  /\ dsrv \in [Clients -> {"none", "listen", "open", "shut"}]
  /\ holders \in [Clients -> SUBSET Clients]
  /\ dq \in [Clients -> Seq(Chunk)]

ClientTypeOK ==
  /\ pc \in [Clients -> ClientPCs]
  /\ cmd \in [Clients -> Commands]
  /\ lfs \in [Clients -> [Names -> Content]]
  /\ sent \in [Clients -> Nat]

ServerTypeOK ==
  /\ spc \in [Clients -> ServerPCs]
  /\ req \in [Clients -> Request]
  /\ cwd \in [Clients -> Tree]
  /\ fs \in [Tree -> [Names -> Content]]
  /\ off \in [Clients -> Nat]
  /\ touched \in [Clients -> BOOLEAN]

\* Every variable keeps its type; cwd never leaves the server's tree.
TypeOK == NetTypeOK /\ ClientTypeOK /\ ServerTypeOK

-----------------------------------------------------------------------------
(* Lockstep: the invariant behind the protocol properties. *)

\* The command of c has its local file open: a put from the start, a get later.
HasFile(c) ==
  \/ cmd[c].code = "PUT"
  \/ cmd[c].code = "GET" /\ pc[c] \in {"size", "sfile", "ack2", "port", "recvdata"}

\* What the client's program counter says of its command and local file.
ClientFacts(c) ==
  /\ pc[c] \in {"verdict", "size", "sfile"} => cmd[c].code = "GET"
  /\ pc[c] \in {"tfile", "senddata"} => cmd[c].code = "PUT"
  /\ pc[c] = "ack2" => cmd[c].code \in {"GET", "PUT"}
  /\ pc[c] = "recvdata" => cmd[c].code # "PUT"
  /\ HasFile(c) => lfs[c][cmd[c].name] # NoFile
  /\ Ended(c) <=> ctl[c] # "open"
  /\ Ended(c) => s2c[c] = <<>>

\* And of its data socket.
ClientShape(c) == ClientFacts(c) /\ (pc[c] \in {"recvdata", "senddata"} <=> dcli[c] = "open")

\* The thread of c has found or made the server's file.
Gettable(c) ==
  \/ spc[c] = "rx"
  \/ /\ req[c].code = "GET"
     /\ spc[c] \in {"code", "codeok", "codebad", "listen", "accept", "serve", "tx"}

\* What the thread's program counter says of its request and file.
ThreadFacts(c) ==
  /\ spc[c] = "get" => req[c].code = "GET"
  /\ spc[c] \in {"code", "codeok", "codebad"} => req[c].code \in {"GET", "PUT"}
  /\ spc[c] \in {"listen", "accept", "serve"} => req[c].code \in FirstCodes
  /\ spc[c] = "ls" => req[c].code = "LIST"
  /\ spc[c] = "tx" => req[c].code = "GET"
  /\ spc[c] = "rx" => req[c].code = "PUT"
  /\ Gettable(c) => fs[cwd[c]][req[c].name] # NoFile

\* And of its data socket.
ThreadShape(c) ==
  /\ ThreadFacts(c)
  /\ up => (spc[c] = "accept" <=> dsrv[c] = "listen")
  /\ up => (spc[c] \in {"serve", "ls", "tx", "rx"} <=> dsrv[c] = "open")

\* The client has sent its file and left; the thread is still to read the rest.
PutTail(c) ==
  req[c].code = "PUT" /\ dcli[c] = "shut" /\ spc[c] \in {"accept", "serve", "rx"}

\* The thread is at l, works for c's command, and owes nothing but toks.
At(c, l, toks) == spc[c] = l /\ req[c] = cmd[c] /\ c2s[c] = <<>> /\ s2c[c] = toks

Offered(c, toks) == At(c, "accept", toks) /\ dcli[c] = "none"

Second(c) == [code |-> IF cmd[c].code = "GET" THEN "SFILE" ELSE "TFILE", name |-> cmd[c].name]

\* Where a thread can be, and what can be on the wire, when its client is at pc[c].
Lockstep(c) ==
  /\ pc[c] \in {"prompt", "quit"} =>
       /\ c2s[c] = <<>> /\ s2c[c] = <<>>
       /\ spc[c] = "recv" \/ PutTail(c) \/ (pc[c] = "quit" /\ spc[c] = "done")
       /\ ctl[c] \in {"open", "fin"}
  /\ pc[c] = "ack" =>
       \/ c2s[c] = <<cmd[c]>> /\ s2c[c] = <<>> /\ (spc[c] = "recv" \/ PutTail(c))
       \/ At(c, "ack", <<>>)
       \/ /\ cmd[c].code = "GET"
          /\ \/ At(c, "get", <<"ACK">>)
             \/ At(c, "recv", <<"ACK", "BAD">>)
             \/ At(c, "code", <<"ACK", "ACK", "SIZE">>)
       \/ cmd[c].code = "PUT" /\ At(c, "code", <<"ACK">>)
       \/ /\ cmd[c].code \in {"LIST", "CWD", "CD"}
          /\ At(c, "listen", <<"ACK">>) \/ Offered(c, <<"ACK", "PORT">>)
  /\ pc[c] = "verdict" =>
       \/ At(c, "get", <<>>)
       \/ At(c, "recv", <<"BAD">>)
       \/ At(c, "code", <<"ACK", "SIZE">>)
  /\ pc[c] = "size" => At(c, "code", <<"SIZE">>)
  /\ pc[c] \in {"sfile", "tfile"} => At(c, "code", <<>>)
  /\ pc[c] = "ack2" =>
       \/ c2s[c] = <<Second(c)>> /\ s2c[c] = <<>> /\ spc[c] = "code" /\ req[c] = cmd[c]
       \/ At(c, "codeok", <<>>)
       \/ At(c, "listen", <<"ACK">>)
       \/ Offered(c, <<"ACK", "PORT">>)
  /\ pc[c] = "port" => At(c, "listen", <<>>) \/ Offered(c, <<"PORT">>)
  /\ pc[c] \in {"recvdata", "senddata"} =>
       \E l \in {"accept", "serve", "ls", "tx", "rx", "recv"} : At(c, l, <<>>)

\* While the server lives, a client and its thread are at matching places, and
\* the wire holds exactly what the one still has to read from the other.
InStep ==
  \A c \in Clients : ClientShape(c) /\ ThreadShape(c) /\ (up => Lockstep(c))

-----------------------------------------------------------------------------
(* The request and reply protocol. *)

Awaited(l) ==
  CASE l \in {"ack", "ack2"} -> {"ACK"}
    [] l = "verdict"         -> {"ACK", "BAD"}
    [] l = "size"            -> {"SIZE"}
    [] l = "port"            -> {"PORT"}
    [] OTHER                 -> {}

\* The control stream carries no message boundaries and no types: the size of a
\* file or a port would pass for an ACK.  Whatever is next in the stream is what
\* the client is about to read, across commands, refusals and crashes of others.
RightToken ==
  \A c \in Clients : s2c[c] # <<>>
                       => Head(s2c[c]) \in Awaited(pc[c])

\* c and its thread are both in recv() on the control connection.
BothWait(c) ==
  /\ up
  /\ pc[c] \in {"ack", "ack2", "verdict", "size", "port"} /\ s2c[c] = <<>>
  /\ spc[c] \in {"recv", "code"} /\ c2s[c] = <<>>

\* A client and its thread never sit in recv() on the control connection
\* both, each waiting for the other.
NoMutualWait == \A c \in Clients : ~BothWait(c)

\* A client and its thread talk about the same thing when data flows: the data
\* socket the client reads or writes serves the command it has given.
SameCommand ==
  \A c \in Clients :
    up /\ pc[c] \in {"recvdata", "senddata"} /\ spc[c] \in {"serve", "ls", "tx", "rx"}
      => req[c] = cmd[c]

\* err_exit() in a thread takes every session down.  As long as no client is
\* killed, no thread does it, whatever ends a client by itself.
ServerExitNeedsACrash == ~up => \E c \in Mortal : pc[c] = "dead"

-----------------------------------------------------------------------------
(* Transfers. *)

\* Both ends of the file c's thread transfers.
Remote(c) == fs[cwd[c]][req[c].name]
Local(c)  == lfs[c][req[c].name]

\* When a get ends while the server lives, and no put has changed the file since
\* its size was announced, the client holds the server's file.
GetFaithful ==
  [][\A c \in Clients :
       RecvEOF(c) /\ up /\ req[c].code = "GET" /\ ~touched[c] => Local(c) = Remote(c)]_vars

\* When the server ends a put that no other put has disturbed, it holds the
\* client's file; if the client was killed on the way, the beginning of it.
PutFaithful ==
  [][\A c \in Clients :
       SrvRxEnd(c) /\ ~touched[c] =>
         IF pc[c] = "dead"
         THEN /\ Len(Remote(c)) <= Len(Local(c))
              /\ Remote(c) = SubSeq(Local(c), 1, Len(Remote(c)))
         ELSE Remote(c) = Local(c)]_vars

\* The progress bar of a get is drawn into a buffer sized for a full bar: the
\* client never receives more than was announced, unless a put made the file grow.
ProgressFits ==
  \A c \in Clients :
    pc[c] = "recvdata" /\ req[c].code = "GET" /\ up /\ ~touched[c]
      => Len(Local(c)) + Len(dq[c]) <= announced[c]

-----------------------------------------------------------------------------
(* Progress. *)

\* A command comes to an end, whatever the other clients do and wherever they
\* are killed.
CommandEnds == \A c \in Clients : pc[c] \notin {"prompt"} ~> Ended(c) \/ pc[c] = "prompt"

\* A client that quits leaves no thread behind.
QuitEndsSession == \A c \in Clients : pc[c] = "quit" ~> spc[c] = "done" \/ ~up

\* A client whose process is killed, so that its kernel closes the sockets, leaves no
\* thread behind either, except one that waits in accept() for a connection that will
\* never come.
CrashEndsSession ==
  \A c \in Clients :
    pc[c] = "dead" ~> \/ ~up
                      \/ spc[c] = "done"
                      \/ spc[c] = "accept" /\ dcli[c] = "none"

=============================================================================
