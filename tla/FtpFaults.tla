----------------------------- MODULE FtpFaults -----------------------------
(***************************************************************************)
(* FtpSystem when calls fail that the code does not look at:               *)
(*                                                                         *)
(*   - the server has no descriptor left for the listening socket of a     *)
(*     data connection, or for the connection itself, and the handler goes *)
(*     on with descriptor -1;                                              *)
(*   - fork() fails, and handle_ls waits for a child it does not have;     *)
(*   - a client puts a directory, whose read() fails for ever.             *)
(*                                                                         *)
(* The sessions that meet none of this must not notice.                    *)
(***************************************************************************)
EXTENDS FtpSystem

CONSTANTS
  Unlucky,   \* the sessions in which the server's calls may fail
  LocalDirs, \* LocalDirs[c]: the names of c's files that are directories
  MaxStray   \* bound: blocks of its stack that a client may send

\* A directory opens like an empty file.  Gets of its name are left out.
ASSUME UnluckyAssumption == Unlucky \subseteq Clients
ASSUME MaxStrayAssumption == MaxStray \in Nat
ASSUME LocalDirsAssumption ==
  /\ LocalDirs \in [Clients -> SUBSET Names]
  /\ \A c \in Clients : \A n \in LocalDirs[c] :
       LocalInit[c][n] = <<>> /\ [code |-> "GET", name |-> n] \notin Menu[c]

VARIABLES
  dfd,       \* the thread's data descriptor: "good", or -1 because of "socket"
             \* or "accept"
  reaping    \* the thread waits for any child, after a fork() that failed

faultVars == <<vars, dfd, reaping>>

FaultInit ==
  /\ Init
  /\ dfd = [c \in Clients |-> "good"]
  /\ reaping = [c \in Clients |-> FALSE]

PutsDirectory(c) == pc[c] = "senddata" /\ cmd[c].name \in LocalDirs[c]

\* rec_file_from_client on descriptor -1: recv() returns -1, never 0.
Spins(c) == spc[c] = "rx" /\ dfd[c] # "good"

\* The client is at, or past, the connect() to a socket that nobody will accept from.
Unserved(c) == dfd[c] = "accept" /\ pc[c] \in {"port", "recvdata"}

-----------------------------------------------------------------------------
(* The server. *)

\* On descriptor -1 what the thread sends is lost: to FtpServer, and so to dcli,
\* that is a client which has closed its end.
BadDescriptor(c, call) ==
  /\ Step(c, "serve")
  /\ dfd' = [dfd EXCEPT ![c] = call]
  /\ dsrv' = [dsrv EXCEPT ![c] = "shut"]
  /\ dcli' = [dcli EXCEPT ![c] = "shut"]
  /\ off' = [off EXCEPT ![c] = 0]
  /\ UNCHANGED <<up, c2s, announced, req, cwd, fs, touched, clientVars, reaping>>

\* server_listen_eph() returns -1, and with it establish_data_sock(): no port is sent.
NoSocket(c) ==
  /\ up /\ spc[c] = "listen"
  /\ BadDescriptor(c, "socket")
  /\ holders' = [holders EXCEPT ![c] = {}]
  /\ dq' = [dq EXCEPT ![c] = <<>>]
  /\ UNCHANGED <<ctl, s2c>>

\* accept() finds no descriptor for the connection, whether or not it is there.
AcceptFails(c) ==
  /\ up /\ spc[c] = "accept"
  /\ BadDescriptor(c, "accept")
  /\ UNCHANGED <<ctl, s2c, holders, dq>>

\* exec_to_socket: fork() returns -1, and wait4() takes that for "any child".
ForkFails(c) ==
  /\ up /\ spc[c] = "serve" /\ req[c].code = "LIST" /\ ~reaping[c]
  /\ reaping' = [reaping EXCEPT ![c] = TRUE]
  /\ UNCHANGED <<vars, dfd>>

\* Mutant of Reap: it is the data connection of the other thread that is closed.
ReapOther(c) ==
  /\ up /\ reaping[c]
  /\ \E j \in Clients :
       /\ spc[j] = "ls" /\ off[j] = LsBlocks
       /\ Step(c, "recv")
       /\ dsrv' = [dsrv EXCEPT ![j] = "shut"]
       /\ holders' = [k \in Clients |-> holders[k] \ {j}]
  /\ reaping' = [reaping EXCEPT ![c] = FALSE]
  /\ UNCHANGED <<up, ctl, c2s, s2c, announced, dcli, dq, clientVars>>
  /\ UNCHANGED <<req, cwd, fs, off, touched, dfd>>

\* wait4(): there is no child, or one has ended.  The thread that waits for that
\* one finds it gone, and goes on as if it had seen its end itself.
Reap(c) ==
  /\ up /\ reaping[c]
  /\ \/ /\ \A j \in Clients : spc[j] # "ls"
        /\ CloseData(c)
        /\ UNCHANGED holders
     \/ \E j \in Clients :
          /\ spc[j] = "ls" /\ off[j] = LsBlocks
          /\ spc' = [spc EXCEPT ![c] = "recv", ![j] = "recv"]
          /\ dsrv' = [dsrv EXCEPT ![c] = "shut", ![j] = "shut"]
          /\ holders' = [k \in Clients |-> holders[k] \ {j}]
  /\ reaping' = [reaping EXCEPT ![c] = FALSE]
  /\ UNCHANGED <<up, ctl, c2s, s2c, announced, dcli, dq, clientVars>>
  /\ UNCHANGED <<req, cwd, fs, off, touched, dfd>>

-----------------------------------------------------------------------------
(* The client. *)

\* connect() to a port that is closed again, unless an ls child still has it open.
UnservedConnect(c) ==
  /\ Unserved(c) /\ pc[c] = "port" /\ s2c[c] # <<>>
  /\ \/ /\ holders[c] = {}
        /\ Goto(c, "dead")
        /\ TakeToken(c)
        /\ ctl' = [ctl EXCEPT ![c] = "fin"]
        /\ UNCHANGED <<up, c2s, announced, dcli, dsrv, holders, dq, cmd, lfs, sent>>
     \/ /\ holders[c] # {}
        /\ TakeToken(c)
        /\ Goto(c, IF cmd[c].code = "PUT" THEN "senddata" ELSE "recvdata")
        /\ sent' = [sent EXCEPT ![c] = 0]
        /\ UNCHANGED <<up, ctl, c2s, announced, dcli, dsrv, holders, dq, cmd, lfs>>
  /\ UNCHANGED <<serverVars, dfd, reaping>>

\* recv() on a connection that was reset unaccepted: see RecvReset.
UnservedReset(c) ==
  /\ Unserved(c) /\ pc[c] = "recvdata" /\ holders[c] = {}
  /\ IF cmd[c].code = "GET" /\ announced[c] > 0
     THEN EndProcess(c, "dead")
     ELSE Goto(c, "prompt") /\ UNCHANGED <<netVars, cmd, lfs, sent>>
  /\ UNCHANGED <<serverVars, dfd, reaping>>

(***************************************************************************)
(* send_data_for_request, with a directory.  read() returns -1, so send()  *)
(* is asked for all the memory from buf on: it fails, or sends the stack.  *)
(* Either way the total is no longer a part of file_size, and the progress *)
(* bar overruns its buffer; where directories have size 0 there is no bar, *)
(* and the loop goes on.                                                   *)
(***************************************************************************)
PutDirectory(c) ==
  /\ PutsDirectory(c)
  /\ \/ EndProcess(c, "dead")
     \/ /\ ~ServerEndGone(c) /\ Room(c) /\ sent[c] < MaxStray
        /\ dq' = [dq EXCEPT ![c] = Append(@, "text")]
        /\ sent' = [sent EXCEPT ![c] = @ + 1]
        /\ UNCHANGED <<up, ctl, c2s, s2c, announced, dcli, dsrv, holders, pc, cmd, lfs>>
  /\ UNCHANGED <<serverVars, dfd, reaping>>

-----------------------------------------------------------------------------
(* Everything else is as without faults. *)

Guarded(c) ==
  /\ Spins(c) => UNCHANGED <<spc[c], off[c]>>
  /\ reaping[c] => UNCHANGED spc[c]
  /\ Unserved(c) => pc'[c] \in {pc[c], "dead"}
  /\ PutsDirectory(c) => pc'[c] # "prompt"
  /\ dfd' = [dfd EXCEPT ![c] = IF spc'[c] = "accept" THEN "good" ELSE @]
  /\ UNCHANGED reaping

Process(c) ==
  \/ ClientStep(c) /\ UNCHANGED serverVars /\ Guarded(c)
  \/ UnservedConnect(c)
  \/ UnservedReset(c)

Thread(c) ==
  \/ ServerStep(c) /\ UNCHANGED clientVars /\ Guarded(c)
  \/ Reap(c)

Fault(c) == NoSocket(c) \/ AcceptFails(c) \/ ForkFails(c)

FaultNext ==
  \E c \in Clients :
    \/ Process(c)
    \/ Thread(c)
    \/ NetReset(c) /\ UNCHANGED <<clientVars, serverVars>> /\ Guarded(c)
    \/ User(c) /\ Guarded(c)
    \/ c \in Unlucky /\ Fault(c)
    \/ PutDirectory(c)

FaultSpec == FaultInit /\ [][FaultNext]_faultVars

\* As in FtpSystem.  Nothing says how often a loop over a directory turns before
\* it breaks something, if it does.
FaultFairSpec == FaultSpec /\ \A c \in Clients : WF_faultVars(Process(c)) /\ WF_faultVars(Thread(c))

-----------------------------------------------------------------------------
(* Properties. *)

\* A client and its thread sit in recv() on the control connection both only when
\* the thread had no listening socket to name: not after any other failed call,
\* and not because of what failed in another session.
WaitNeedsNoSocket == \A c \in Clients : BothWait(c) => dfd[c] = "socket"

\* The session of a data descriptor that is good is in step, and every session as long
\* as no call of its own has failed.
OthersInStep ==
  \A c \in Clients : dfd[c] = "good" => ClientShape(c) /\ ThreadShape(c) /\ (up => Lockstep(c))

\* What a failed call can leave without an end: no port came, the thread reads
\* from descriptor -1, read() fails on a directory, wait4() waits for others.
Stuck(c) == dfd[c] = "socket" \/ Spins(c) \/ PutsDirectory(c) \/ reaping[c]

\* Every other command ends, one whose connection could not be accepted included,
\* whatever fails in other sessions.
OthersEnd == \A c \in Clients : pc[c] # "prompt" ~> pc[c] = "prompt" \/ Ended(c) \/ Stuck(c)

=============================================================================
