----------------------------- MODULE FtpLaunch -----------------------------
(***************************************************************************)
(* The server's main loop and its hand-off of connections to threads.      *)
(*                                                                         *)
(* launch_thread() gives pthread_create() the address of a structure on    *)
(* its own stack and returns.  Nothing makes it wait for the thread to     *)
(* copy the structure, so main may already have accepted another           *)
(* connection, run server_log() over the dead frame and launched the next  *)
(* thread from the same address.  Nor does it look at the result of        *)
(* pthread_create(): when no thread can be created, the descriptor stays   *)
(* open, without an owner, and main goes on.  This module follows the      *)
(* descriptor from accept() to close(), and the table of descriptors that  *)
(* the kernel reuses.                                                      *)
(***************************************************************************)
EXTENDS Integers, FiniteSets

CONSTANTS
  Conns,      \* connections that clients may open
  Fds,        \* the descriptors the process may still open for them
  NoConn,     \* what a closed descriptor refers to
  MaxThreads  \* bound: launches of a thread in one run

ASSUME FdsAssumption    == Fds \subseteq Nat
ASSUME NoConnAssumption == NoConn \notin Conns
ASSUME ThreadAssumption == MaxThreads \in Nat

Threads == 1..MaxThreads
BadFd   == -1

VARIABLES
  alive,    \* the process has neither called exit() nor been killed
  cli,      \* a client's socket: "none", "up", "closed"
  backlog,  \* connections the kernel has established and main not accepted
  asked,    \* connections with a request that no thread has read
  table,    \* the descriptor table: Fds -> connection
  mpc,      \* main: in "accept", server_log ("log"), launch_thread ("launch"),
            \* or killed in pthread_detach ("detach")
  newfd,    \* main: afd
  fadd_len, \* main: an uninitialized length, "taken" or "refused" by accept()
  slot,     \* the memory launch_thread calls args.afd
  n,        \* threads launched so far
  tpc,      \* per thread: "none", "new", "top", "recv", "handle", "done"
  afd,      \* per thread: its copy of args.afd
  on,       \* per thread: the connection its recv() waits on
  orphans,  \* history: the values of afd that no thread could be created for
  overtaken \* history: main has accepted the next connection before a thread
            \* it launched made its copy

mainVars   == <<mpc, newfd, fadd_len, slot, n, orphans, overtaken>>
threadVars == <<tpc, afd, on>>
vars == <<alive, cli, backlog, asked, table, mainVars, threadVars>>

Init ==
  /\ alive = TRUE
  /\ cli = [k \in Conns |-> "none"]
  /\ backlog = {}
  /\ asked = {}
  /\ table = [f \in Fds |-> NoConn]
  /\ mpc = "accept" /\ newfd = BadFd /\ slot = BadFd /\ n = 0
  /\ fadd_len \in {"taken", "refused"}
  /\ tpc = [t \in Threads |-> "none"]
  /\ afd = [t \in Threads |-> BadFd]
  /\ on = [t \in Threads |-> NoConn]
  /\ orphans = {}
  /\ overtaken = FALSE

(***************************************************************************)
(* Clients: connect, ask, and close when nothing they asked is pending.    *)
(***************************************************************************)
Connect(k) ==
  /\ cli[k] = "none"
  /\ cli' = [cli EXCEPT ![k] = "up"]
  /\ backlog' = backlog \cup {k}
  /\ UNCHANGED <<alive, asked, table, mainVars, threadVars>>

Ask(k) ==
  /\ cli[k] = "up"
  /\ asked' = asked \cup {k}
  /\ UNCHANGED <<alive, cli, backlog, table, mainVars, threadVars>>

Leave(k) ==
  /\ cli[k] = "up" /\ k \notin asked
  /\ cli' = [cli EXCEPT ![k] = "closed"]
  /\ UNCHANGED <<alive, backlog, asked, table, mainVars, threadVars>>

(***************************************************************************)
(* main.  accept() takes a free descriptor (which one depends on the data  *)
(* sockets of the moment) or, without one, fails at once: -1 is as true as *)
(* any descriptor and is launched all the same.  It also fails, and drops  *)
(* the connection, when it finds a negative length in fadd_len; it stays   *)
(* so.                                                                     *)
(***************************************************************************)
Free == {f \in Fds : table[f] = NoConn}

MainAccept ==
  /\ mpc = "accept" /\ n < MaxThreads
  /\ mpc' = "log"
  /\ \/ \E k \in backlog, f \in Free :
          /\ fadd_len = "taken"
          /\ backlog' = backlog \ {k}
          /\ table' = [table EXCEPT ![f] = k]
          /\ newfd' = f
     \/ Free = {} /\ newfd' = BadFd /\ UNCHANGED <<backlog, table>>
     \/ /\ fadd_len = "refused" /\ Free # {}
        /\ \E k \in backlog : backlog' = backlog \ {k}
        /\ newfd' = BadFd /\ UNCHANGED table
  /\ overtaken' = (overtaken \/ \E t \in Threads : tpc[t] = "new")
  /\ UNCHANGED <<alive, cli, asked, fadd_len, slot, n, orphans, threadVars>>

\* server_log(): its frames, and those of ctime() and printf(), lie where the
\* frame of launch_thread() was.  What they leave in args.afd is anything.
MainLog ==
  /\ mpc = "log"
  /\ mpc' = "launch"
  /\ slot' \in {slot, BadFd} \cup Fds
  /\ UNCHANGED <<alive, cli, backlog, asked, table, newfd, fadd_len, n, orphans, overtaken,
                 threadVars>>

\* pthread_create() started the thread that will copy args.
Created ==
  /\ mpc' = "accept"
  /\ n' = n + 1
  /\ tpc' = [tpc EXCEPT ![n + 1] = "new"]
  /\ UNCHANGED <<alive, orphans>>

\* pthread_create() failed, and pthread_detach() is called on the uninitialized new:
\* it returns, or it follows a junk pointer and the process is killed.
NotCreated ==
  /\ orphans' = orphans \cup {newfd}
  /\ \/ mpc' = "accept" /\ UNCHANGED alive
     \/ mpc' = "detach" /\ alive' = FALSE
  /\ UNCHANGED <<n, tpc>>

\* Mutant of MainLaunch: main closes its descriptor, as after a fork().
MainLaunchClose ==
  /\ mpc = "launch"
  /\ slot' = newfd
  /\ Created \/ NotCreated
  /\ table' = [f \in Fds |-> IF f = newfd THEN NoConn ELSE table[f]]
  /\ UNCHANGED <<cli, backlog, asked, newfd, fadd_len, overtaken, afd, on>>

\* launch_thread(): at the same address every time it is called from main.
MainLaunch ==
  /\ mpc = "launch"
  /\ slot' = newfd
  /\ Created \/ NotCreated
  /\ UNCHANGED <<cli, backlog, asked, table, newfd, fadd_len, overtaken, afd, on>>

(***************************************************************************)
(* handle_connection, in thread t.                                         *)
(***************************************************************************)
ErrExit == alive' = FALSE /\ UNCHANGED <<cli, backlog, asked, table, mainVars, threadVars>>

\* What t's descriptor refers to now.
Peer(t) == IF afd[t] \in Fds THEN table[afd[t]] ELSE NoConn

\* Mutant of ThreadStart: the copy starts beside the structure.
ThreadStartBeside(t) ==
  /\ tpc[t] = "new"
  /\ tpc' = [tpc EXCEPT ![t] = "top"]
  /\ afd' = [afd EXCEPT ![t] = slot + 1]
  /\ UNCHANGED <<alive, cli, backlog, asked, table, mainVars, on>>

\* ft_memcpy(&args, in, ...).
ThreadStart(t) ==
  /\ tpc[t] = "new"
  /\ tpc' = [tpc EXCEPT ![t] = "top"]
  /\ afd' = [afd EXCEPT ![t] = slot]
  /\ UNCHANGED <<alive, cli, backlog, asked, table, mainVars, on>>

\* recv() is called: it waits on an open connection.  On anything else it returns
\* -1, which enters the loop, and getpeername() fails in log_receive().
ThreadRecv(t) ==
  /\ tpc[t] = "top"
  /\ \/ /\ Peer(t) # NoConn
        /\ tpc' = [tpc EXCEPT ![t] = "recv"]
        /\ on' = [on EXCEPT ![t] = Peer(t)]
        /\ UNCHANGED <<alive, cli, backlog, asked, table, mainVars, afd>>
     \/ Peer(t) = NoConn /\ ErrExit

ThreadRequest(t) ==
  /\ tpc[t] = "recv" /\ on[t] \in asked
  /\ tpc' = [tpc EXCEPT ![t] = "handle"]
  /\ asked' = asked \ {on[t]}
  /\ UNCHANGED <<alive, cli, backlog, table, mainVars, afd, on>>

\* Mutant of ThreadHandle: a thread handles one request and ends.
ThreadHandleOnce(t) ==
  /\ tpc[t] = "handle"
  /\ tpc' = [tpc EXCEPT ![t] = "done"]
  /\ UNCHANGED <<alive, cli, backlog, asked, table, mainVars, afd, on>>

\* log_receive(), send_ack() and handle_cmd(), on whatever the descriptor is now.
ThreadHandle(t) ==
  /\ tpc[t] = "handle"
  /\ \/ /\ Peer(t) # NoConn
        /\ tpc' = [tpc EXCEPT ![t] = "top"]
        /\ UNCHANGED <<alive, cli, backlog, asked, table, mainVars, afd, on>>
     \/ Peer(t) = NoConn /\ ErrExit

\* Mutant of ThreadHangup: the descriptor is not closed.
ThreadHangupLeak(t) ==
  /\ tpc[t] = "recv" /\ cli[on[t]] = "closed" /\ on[t] \notin asked
  /\ tpc' = [tpc EXCEPT ![t] = "done"]
  /\ UNCHANGED <<alive, cli, backlog, asked, table, mainVars, afd, on>>

\* Mutant of ThreadHangup: close() inside the loop, which goes on.
ThreadHangupLoop(t) ==
  /\ tpc[t] = "recv" /\ cli[on[t]] = "closed" /\ on[t] \notin asked
  /\ tpc' = [tpc EXCEPT ![t] = "top"]
  /\ table' = [table EXCEPT ![afd[t]] = NoConn]
  /\ UNCHANGED <<alive, cli, backlog, asked, mainVars, afd, on>>

\* recv() returns 0: close() of whatever the descriptor is now, and the end.
ThreadHangup(t) ==
  /\ tpc[t] = "recv" /\ cli[on[t]] = "closed" /\ on[t] \notin asked
  /\ tpc' = [tpc EXCEPT ![t] = "done"]
  /\ table' = [table EXCEPT ![afd[t]] = NoConn]
  /\ UNCHANGED <<alive, cli, backlog, asked, mainVars, afd, on>>

Main == MainAccept \/ MainLog \/ MainLaunch

Thread(t) ==
  ThreadStart(t) \/ ThreadRecv(t) \/ ThreadRequest(t) \/ ThreadHandle(t) \/ ThreadHangup(t)

Client(k) == Connect(k) \/ Ask(k) \/ Leave(k)

Next ==
  \/ alive /\ (Main \/ \E t \in Threads : Thread(t))
  \/ \E k \in Conns : Client(k)

Spec == Init /\ [][Next]_vars

\* The kernel schedules main and every thread.
Fairness == WF_vars(alive /\ Main) /\ \A t \in Threads : WF_vars(alive /\ Thread(t))

FairSpec == Spec /\ Fairness

-----------------------------------------------------------------------------
(* Properties. *)

TypeOK ==
  /\ alive \in BOOLEAN
  /\ cli \in [Conns -> {"none", "up", "closed"}]
  /\ backlog \subseteq Conns
  /\ asked \subseteq Conns
  /\ table \in [Fds -> Conns \cup {NoConn}]
  /\ mpc \in {"accept", "log", "launch", "detach"}
  /\ newfd \in Fds \cup {BadFd}
  /\ fadd_len \in {"taken", "refused"}
  /\ slot \in Fds \cup {BadFd}
  /\ n \in 0..MaxThreads
  /\ tpc \in [Threads -> {"none", "new", "top", "recv", "handle", "done"}]
  /\ afd \in [Threads -> Fds \cup {BadFd}]
  /\ on \in [Threads -> Conns \cup {NoConn}]
  /\ orphans \subseteq Fds \cup {BadFd}
  /\ overtaken \in BOOLEAN

Serving(t) == tpc[t] \in {"top", "recv", "handle"}

\* README: "spawns a new thread to handle each connection".  No two threads are
\* ever at work on one connection.
OneThreadPerConnection ==
  \A t, u \in Threads : t # u /\ Serving(t) /\ Serving(u) /\ Peer(t) # NoConn => Peer(t) # Peer(u)

\* f is on its way from accept() to the thread that will serve it.
InHandOff(f) ==
  \/ mpc \in {"log", "launch"} /\ newfd = f
  \/ \E t \in Threads : t = n /\ tpc[t] = "new" /\ slot = f

\* As long as main overtakes no thread, every open descriptor has exactly one owner,
\* main, a thread about to start or a thread at work, whatever is closed and
\* reused meanwhile; only one that no thread could be created for has none, ever.
OneOwner ==
  ~overtaken =>
    \A f \in Fds :
      /\ table[f] # NoConn =>
           InHandOff(f) \/ f \in orphans \/ \E t \in Threads : Serving(t) /\ afd[t] = f
      /\ InHandOff(f) \/ f \in orphans =>
           table[f] # NoConn /\ \A t \in Threads : Serving(t) => afd[t] # f
      /\ ~(InHandOff(f) /\ f \in orphans)
      /\ \A t, u \in Threads : Serving(t) /\ Serving(u) /\ afd[t] = f /\ afd[u] = f =>
           t = u /\ table[f] # NoConn

\* As long as main overtakes no thread, a request is answered on the connection it
\* came from, although the descriptor is looked up again after recv().
AnswersGoBack ==
  [][\A t \in Threads : ~overtaken /\ tpc[t] = "handle" /\ tpc'[t] = "top" => Peer(t) = on[t]]_vars

\* Only an overtaken thread, one launched for an accept() that failed, or a
\* pthread_detach() after a failed pthread_create() ends the server when every
\* client leaves in order.
ExitExplained ==
  ~alive => \/ overtaken
            \/ \E t \in Threads : Serving(t) /\ afd[t] = BadFd
            \/ mpc = "detach"

\* As long as main overtakes no thread, a request is read by some thread, unless no
\* thread could be created for its connection, or for an accept() that failed.
RequestRead ==
  \A k \in Conns :
    k \in asked ~> \/ k \notin asked \/ ~alive \/ overtaken
                   \/ BadFd \in orphans
                   \/ \E f \in Fds : f \in orphans /\ table[f] = k

=============================================================================
