-------------------------- MODULE FtpLaunchProofs --------------------------
(***************************************************************************)
(* Descriptors have one owner each as long as main overtakes no thread:    *)
(* the inductive invariant of FtpLaunch, for any connections, descriptors  *)
(* and number of launches, and what follows from it.                       *)
(***************************************************************************)
EXTENDS FtpLaunch, TLAPS

\* Threads are launched in order, and main goes on only with one left.
Order ==
  /\ \A t \in Threads : t > n => tpc[t] = "none"
  /\ mpc # "accept" => n < MaxThreads

\* A thread that has not made its copy is the last one, and finds it intact.
Intact == \A t \in Threads : tpc[t] = "new" => t = n /\ mpc = "accept" /\ slot = newfd

\* A descriptor on its way to a thread is open, and no thread works on it.
Exclusive ==
  \A f \in Fds : InHandOff(f) =>
    table[f] # NoConn /\ \A t \in Threads : Serving(t) => afd[t] # f

\* Threads at work have open descriptors, each its own.
OpenAndOwn ==
  \A t \in Threads : Serving(t) /\ afd[t] \in Fds =>
    /\ table[afd[t]] # NoConn
    /\ \A u \in Threads : Serving(u) /\ afd[u] = afd[t] => u = t

\* No open descriptor is forgotten, unless no thread could be created for it.
Owned ==
  \A f \in Fds : table[f] # NoConn =>
    InHandOff(f) \/ f \in orphans \/ \E t \in Threads : Serving(t) /\ afd[t] = f

\* A descriptor that no thread could be created for stays open, and nobody has it.
Orphaned ==
  \A f \in Fds : f \in orphans =>
    /\ table[f] # NoConn
    /\ ~InHandOff(f)
    /\ \A t \in Threads : Serving(t) => afd[t] # f

\* A thread that has called recv() still has the connection it called it on.
Listening ==
  \A t \in Threads : tpc[t] \in {"recv", "handle"} => afd[t] \in Fds /\ on[t] = table[afd[t]]

\* Only a thread without a descriptor, or pthread_detach(), has ended the process.
ExitByBad == ~alive => mpc = "detach" \/ \E t \in Threads : Serving(t) /\ afd[t] = BadFd

HandOff == Intact /\ Exclusive /\ OpenAndOwn /\ Owned /\ Orphaned /\ Listening /\ ExitByBad

IInv == TypeOK /\ Order /\ (~overtaken => HandOff)

-----------------------------------------------------------------------------

\* A thread's place in handle_connection is one of the six.
LEMMA Places ==
  ASSUME TypeOK, NEW t \in Threads
  PROVE  /\ tpc[t] \in {"none", "new", "top", "recv", "handle", "done"}
         /\ afd[t] \in Fds \cup {BadFd}
         /\ BadFd \notin Fds
BY FdsAssumption DEF TypeOK, BadFd

\* A server that listens, with no connection yet, satisfies the invariant.
LEMMA InitIInv == Init => IInv
<1> SUFFICES ASSUME Init PROVE IInv OBVIOUS
<1> USE DEF Init
<1>1. TypeOK
  <2>1. n \in 0..MaxThreads BY ThreadAssumption
  <2>2. /\ cli \in [Conns -> {"none", "up", "closed"}]
        /\ table \in [Fds -> Conns \cup {NoConn}]
    OBVIOUS
  <2>3. tpc \in [Threads -> {"none", "new", "top", "recv", "handle", "done"}] OBVIOUS
  <2>4. afd \in [Threads -> Fds \cup {BadFd}] /\ on \in [Threads -> Conns \cup {NoConn}]
    OBVIOUS
  <2> QED BY <2>1, <2>2, <2>3, <2>4 DEF TypeOK
<1>2. Order BY DEF Order
<1>3. HandOff
  BY DEF HandOff, Intact, Exclusive, OpenAndOwn, Owned, Orphaned, Listening, ExitByBad, InHandOff,
       Serving
<1> QED BY <1>1, <1>2, <1>3 DEF IInv

\* Every step keeps the types of the descriptor table, of main and of the threads.
LEMMA NextType == ASSUME TypeOK, Order, [Next]_vars PROVE TypeOK'
<1> USE DEF TypeOK
<1>1. CASE UNCHANGED vars BY <1>1 DEF vars, mainVars, threadVars
<1>2. ASSUME NEW k \in Conns, Client(k) PROVE TypeOK'
  BY <1>2 DEF Client, Connect, Ask, Leave, mainVars, threadVars
<1>3. CASE MainAccept BY <1>3 DEF MainAccept, Free, threadVars
<1>4. CASE MainLog BY <1>4 DEF MainLog, threadVars
<1>5. CASE MainLaunch
  <2>1. n' \in 0..MaxThreads BY <1>5, ThreadAssumption DEF MainLaunch, Created, NotCreated, Order
  <2>2. tpc' \in [Threads -> {"none", "new", "top", "recv", "handle", "done"}]
    BY <1>5 DEF MainLaunch, Created, NotCreated
  <2>3. orphans' \subseteq Fds \cup {BadFd} BY <1>5 DEF MainLaunch, Created, NotCreated
  <2> QED BY <1>5, <2>1, <2>2, <2>3 DEF MainLaunch, Created, NotCreated
<1>6. ASSUME NEW t \in Threads, Thread(t) PROVE TypeOK'
  <2>1. CASE ErrExit BY <2>1 DEF ErrExit, mainVars, threadVars
  <2>2. CASE ThreadStart(t) BY <2>2 DEF ThreadStart, mainVars
  <2>3. CASE ThreadRecv(t) BY <2>1, <2>3 DEF ThreadRecv, Peer, mainVars
  <2>4. CASE ThreadRequest(t) BY <2>4 DEF ThreadRequest, mainVars
  <2>5. CASE ThreadHandle(t) BY <2>1, <2>5 DEF ThreadHandle, mainVars
  <2>6. CASE ThreadHangup(t) BY <2>6 DEF ThreadHangup, mainVars
  <2> QED BY <1>6, <2>2, <2>3, <2>4, <2>5, <2>6 DEF Thread
<1> QED BY <1>1, <1>2, <1>3, <1>4, <1>5, <1>6 DEF Next, Main

\* Every step keeps the threads in the order of their launch.
LEMMA NextOrder == ASSUME TypeOK, Order, [Next]_vars PROVE Order'
<1> USE DEF TypeOK, Order
<1>1. CASE UNCHANGED vars BY <1>1 DEF vars, mainVars, threadVars
<1>2. ASSUME NEW k \in Conns, Client(k) PROVE Order'
  BY <1>2 DEF Client, Connect, Ask, Leave, mainVars, threadVars
<1>3. CASE MainAccept BY <1>3 DEF MainAccept, threadVars
<1>4. CASE MainLog BY <1>4 DEF MainLog, threadVars
<1>5. CASE MainLaunch
  <2>1. CASE Created BY <1>5, <2>1, ThreadAssumption DEF MainLaunch, Created, Threads
  <2>2. CASE NotCreated BY <1>5, <2>2 DEF MainLaunch, NotCreated
  <2> QED BY <1>5, <2>1, <2>2 DEF MainLaunch
<1>6. ASSUME NEW t \in Threads, Thread(t) PROVE Order'
  <2>1. CASE ErrExit BY <2>1 DEF ErrExit, mainVars, threadVars
  <2>2. CASE ThreadStart(t) BY <2>2 DEF ThreadStart, mainVars
  <2>3. CASE ThreadRecv(t) BY <2>1, <2>3 DEF ThreadRecv, mainVars
  <2>4. CASE ThreadRequest(t) BY <2>4 DEF ThreadRequest, mainVars
  <2>5. CASE ThreadHandle(t) BY <2>1, <2>5 DEF ThreadHandle, mainVars
  <2>6. CASE ThreadHangup(t) BY <2>6 DEF ThreadHangup, mainVars
  <2> QED BY <1>6, <2>2, <2>3, <2>4, <2>5, <2>6 DEF Thread
<1> QED BY <1>1, <1>2, <1>3, <1>4, <1>5, <1>6 DEF Next, Main

\* Steps of clients, and everything but alive in err_exit(), leave the hand-off alone.
LEMMA HandOffFrame ==
  ASSUME HandOff, UNCHANGED <<table, mainVars, threadVars>>, ExitByBad'
  PROVE  HandOff'
BY DEF HandOff, Intact, Exclusive, OpenAndOwn, Owned, Orphaned, Listening, InHandOff, Serving,
       mainVars, threadVars

\* accept(): the descriptor was free, so that no thread works on it.
LEMMA AcceptHandOff ==
  ASSUME TypeOK, HandOff, MainAccept, ~overtaken'
  PROVE  HandOff'
<1> USE DEF TypeOK, HandOff
<1>1. /\ mpc = "accept" /\ mpc' = "log" /\ UNCHANGED <<alive, slot, n, orphans, tpc, afd, on>>
      /\ \A t \in Threads : tpc[t] # "new"
  BY DEF MainAccept, threadVars
<1>2. \A f \in Fds : ~InHandOff(f) BY <1>1 DEF InHandOff
<1>3. CASE \E k \in backlog, f \in Free : table' = [table EXCEPT ![f] = k] /\ newfd' = f
  <2> PICK k \in backlog, f \in Free : table' = [table EXCEPT ![f] = k] /\ newfd' = f BY <1>3
  <2>1. f \in Fds /\ table[f] = NoConn /\ k # NoConn BY NoConnAssumption DEF Free
  <2>2. table' \in [Fds -> Conns \cup {NoConn}] /\ table'[f] = k
        /\ \A g \in Fds : g # f => table'[g] = table[g]
    BY <2>1
  <2>3. \A t \in Threads : Serving(t) => afd[t] # f BY <2>1 DEF OpenAndOwn
  <2>4. \A g \in Fds : InHandOff(g)' <=> g = f BY <1>1 DEF InHandOff
  <2>5. \A t \in Threads : Serving(t)' <=> Serving(t) BY <1>1 DEF Serving
  <2>6. Intact' BY <1>1 DEF Intact
  <2>7. Exclusive' BY <1>1, <2>1, <2>2, <2>3, <2>4, <2>5 DEF Exclusive
  <2>8. OpenAndOwn' BY <1>1, <2>2, <2>3, <2>5 DEF OpenAndOwn
  <2>9. Owned' BY <1>1, <1>2, <2>2, <2>4, <2>5 DEF Owned
  <2>10. Listening' BY <1>1, <2>2, <2>3 DEF Listening, Serving
  <2>11. ExitByBad' BY <1>1, <2>5 DEF ExitByBad
  <2>12. Orphaned' BY <1>1, <2>1, <2>2, <2>4, <2>5 DEF Orphaned
  <2> QED BY <2>6, <2>7, <2>8, <2>9, <2>10, <2>11, <2>12
<1>4. CASE newfd' = BadFd /\ UNCHANGED table
  <2>1. \A g \in Fds : ~InHandOff(g)' BY <1>1, <1>4, FdsAssumption DEF InHandOff, BadFd
  <2>2. \A t \in Threads : Serving(t)' <=> Serving(t) BY <1>1 DEF Serving
  <2>3. Intact' BY <1>1 DEF Intact
  <2>4. Exclusive' BY <2>1 DEF Exclusive
  <2>5. OpenAndOwn' BY <1>1, <1>4, <2>2 DEF OpenAndOwn
  <2>6. Owned' BY <1>1, <1>2, <1>4, <2>2 DEF Owned
  <2>7. Listening' BY <1>1, <1>4 DEF Listening
  <2>8. ExitByBad' BY <1>1, <2>2 DEF ExitByBad
  <2>9. Orphaned' BY <1>1, <1>4, <2>1, <2>2 DEF Orphaned
  <2> QED BY <2>3, <2>4, <2>5, <2>6, <2>7, <2>8, <2>9
<1> QED BY <1>3, <1>4 DEF MainAccept

\* server_log() ruins a slot that nobody needs any more.
LEMMA LogHandOff ==
  ASSUME TypeOK, HandOff, MainLog
  PROVE  HandOff'
<1> USE DEF TypeOK, HandOff
<1>1. /\ mpc = "log" /\ mpc' = "launch"
      /\ UNCHANGED <<alive, table, newfd, n, orphans, tpc, afd, on>>
      /\ \A t \in Threads : tpc[t] # "new"
  BY DEF MainLog, Intact, threadVars
<1>2. \A f \in Fds : InHandOff(f)' <=> InHandOff(f) BY <1>1 DEF InHandOff
<1>3. \A t \in Threads : Serving(t)' <=> Serving(t) BY <1>1 DEF Serving
<1>4. Intact' BY <1>1 DEF Intact
<1>5. Exclusive' BY <1>1, <1>2, <1>3 DEF Exclusive
<1>6. OpenAndOwn' BY <1>1, <1>3 DEF OpenAndOwn
<1>7. Owned' BY <1>1, <1>2, <1>3 DEF Owned
<1>8. Listening' BY <1>1 DEF Listening
<1>9. ExitByBad' BY <1>1, <1>3 DEF ExitByBad
<1>10. Orphaned' BY <1>1, <1>2, <1>3 DEF Orphaned
<1> QED BY <1>4, <1>5, <1>6, <1>7, <1>8, <1>9, <1>10

\* launch_thread(): the descriptor passes from main to the slot and a new thread.
LEMMA LaunchHandOff ==
  ASSUME TypeOK, Order, HandOff, MainLaunch, Created
  PROVE  HandOff'
<1> USE DEF TypeOK, HandOff
<1>1. /\ mpc = "launch" /\ mpc' = "accept" /\ slot' = newfd /\ n' = n + 1
      /\ tpc' = [tpc EXCEPT ![n + 1] = "new"]
      /\ UNCHANGED <<alive, table, newfd, orphans, afd, on>>
  BY DEF MainLaunch, Created
<1>2. n + 1 \in Threads /\ tpc[n + 1] = "none"
  BY <1>1, ThreadAssumption DEF Order, Threads
<1>3. tpc'[n + 1] = "new" /\ \A t \in Threads : t # n + 1 => tpc'[t] = tpc[t] BY <1>1, <1>2
<1>4. \A t \in Threads : tpc[t] # "new" BY <1>1 DEF Intact
<1>5. \A f \in Fds : InHandOff(f)' <=> f = newfd BY <1>1, <1>2, <1>3, <1>4 DEF InHandOff
<1>6. \A f \in Fds : InHandOff(f) <=> f = newfd BY <1>1, <1>4 DEF InHandOff
<1>7. \A t \in Threads : Serving(t)' <=> Serving(t) BY <1>2, <1>3 DEF Serving
<1>8. Intact' BY <1>1, <1>3, <1>4 DEF Intact
<1>9. Exclusive' BY <1>1, <1>5, <1>6, <1>7 DEF Exclusive
<1>10. OpenAndOwn' BY <1>1, <1>7 DEF OpenAndOwn
<1>11. Owned' BY <1>1, <1>5, <1>6, <1>7 DEF Owned
<1>12. Listening' BY <1>1, <1>2, <1>3 DEF Listening
<1>13. ExitByBad' BY <1>1, <1>7 DEF ExitByBad
<1>14. Orphaned' BY <1>1, <1>5, <1>6, <1>7 DEF Orphaned
<1> QED BY <1>8, <1>9, <1>10, <1>11, <1>12, <1>13, <1>14

\* launch_thread() without a thread: the descriptor passes from main to nobody.
LEMMA NoThreadHandOff ==
  ASSUME TypeOK, HandOff, alive, MainLaunch, NotCreated
  PROVE  HandOff'
<1> USE DEF TypeOK, HandOff
<1>1. /\ mpc = "launch" /\ mpc' \in {"accept", "detach"}
      /\ orphans' = orphans \cup {newfd}
      /\ UNCHANGED <<table, newfd, n, tpc, afd, on>>
      /\ alive' \/ mpc' = "detach"
  BY DEF MainLaunch, NotCreated
<1>2. \A t \in Threads : tpc[t] # "new" BY <1>1 DEF Intact
<1>3. \A f \in Fds : InHandOff(f) <=> f = newfd BY <1>1, <1>2 DEF InHandOff
<1>4. \A f \in Fds : ~InHandOff(f)' BY <1>1, <1>2 DEF InHandOff
<1>5. \A t \in Threads : Serving(t)' <=> Serving(t) BY <1>1 DEF Serving
<1>6. Intact' BY <1>1, <1>2 DEF Intact
<1>7. Exclusive' BY <1>4 DEF Exclusive
<1>8. OpenAndOwn' BY <1>1, <1>5 DEF OpenAndOwn
<1>9. Owned' BY <1>1, <1>3, <1>5 DEF Owned
<1>10. Orphaned' BY <1>1, <1>3, <1>4, <1>5 DEF Orphaned, Exclusive
<1>11. Listening' BY <1>1 DEF Listening
<1>12. ExitByBad' BY <1>1 DEF ExitByBad
<1> QED BY <1>6, <1>7, <1>8, <1>9, <1>10, <1>11, <1>12

\* The copy of args.afd: the thread becomes the owner of the descriptor.
LEMMA StartHandOff ==
  ASSUME TypeOK, HandOff, NEW t \in Threads, ThreadStart(t)
  PROVE  HandOff'
<1> USE DEF TypeOK, HandOff
<1>1. /\ tpc[t] = "new" /\ t = n /\ mpc = "accept" /\ slot = newfd
      /\ UNCHANGED <<alive, table, mpc, newfd, slot, n, orphans, on>>
  BY DEF ThreadStart, Intact, mainVars
<1>2. tpc'[t] = "top" /\ afd'[t] = newfd
      /\ \A u \in Threads : u # t => tpc'[u] = tpc[u] /\ afd'[u] = afd[u]
  BY <1>1 DEF ThreadStart
<1>3. \A u \in Threads : Serving(u)' <=> u = t \/ Serving(u) BY <1>2 DEF Serving
<1>4. ~Serving(t) BY <1>1 DEF Serving
<1>5. \A f \in Fds : (InHandOff(f) <=> f = newfd) /\ ~InHandOff(f)'
  BY <1>1, <1>2 DEF InHandOff
<1>6. newfd \in Fds => table[newfd] # NoConn /\ \A u \in Threads : Serving(u) => afd[u] # newfd
  BY <1>5 DEF Exclusive
<1>7. Intact' BY <1>1, <1>2 DEF Intact
<1>8. Exclusive' BY <1>5 DEF Exclusive
<1>9. OpenAndOwn' BY <1>1, <1>2, <1>3, <1>4, <1>6 DEF OpenAndOwn
<1>10. Owned' BY <1>1, <1>2, <1>3, <1>4, <1>5 DEF Owned
<1>11. Listening' BY <1>1, <1>2 DEF Listening
<1>12. ExitByBad' BY <1>1, <1>2, <1>3, <1>4 DEF ExitByBad
<1>13. Orphaned' BY <1>1, <1>2, <1>3, <1>4, <1>5 DEF Orphaned
<1> QED BY <1>7, <1>8, <1>9, <1>10, <1>11, <1>12, <1>13

\* A thread at work that goes on to its next place keeps its descriptor.
LEMMA MoveHandOff ==
  ASSUME TypeOK, HandOff, NEW t \in Threads, Serving(t),
         NEW l \in {"top", "recv", "handle"}, tpc' = [tpc EXCEPT ![t] = l],
         UNCHANGED <<alive, table, mpc, newfd, slot, n, orphans, afd>>,
         \A u \in Threads : u # t => on'[u] = on[u],
         l # "top" => afd[t] \in Fds /\ on'[t] = table[afd[t]]
  PROVE  HandOff'
<1> USE DEF TypeOK, HandOff
<1>1. tpc'[t] = l /\ \A u \in Threads : u # t => tpc'[u] = tpc[u] OBVIOUS
<1>2. \A u \in Threads : Serving(u)' <=> Serving(u) BY <1>1 DEF Serving
<1>3. \A u \in Threads : tpc'[u] = "new" <=> tpc[u] = "new" BY <1>1 DEF Serving
<1>4. \A f \in Fds : InHandOff(f)' <=> InHandOff(f) BY <1>3 DEF InHandOff
<1>5. Intact' BY <1>3 DEF Intact
<1>6. Exclusive' BY <1>2, <1>4 DEF Exclusive
<1>7. OpenAndOwn' BY <1>2 DEF OpenAndOwn
<1>8. Owned' BY <1>2, <1>4 DEF Owned
<1>9. Listening' BY <1>1 DEF Listening
<1>10. ExitByBad' BY <1>2 DEF ExitByBad
<1>11. Orphaned' BY <1>2, <1>4 DEF Orphaned
<1> QED BY <1>5, <1>6, <1>7, <1>8, <1>9, <1>10, <1>11

\* close() and the end of a thread: it owned the descriptor, and nobody else did.
LEMMA HangupHandOff ==
  ASSUME TypeOK, HandOff, alive, NEW t \in Threads, ThreadHangup(t)
  PROVE  HandOff'
<1> USE DEF TypeOK, HandOff
<1> DEFINE g == afd[t]
<1>1. /\ tpc[t] = "recv" /\ UNCHANGED <<alive, mpc, newfd, slot, n, orphans, afd, on>>
      /\ tpc' = [tpc EXCEPT ![t] = "done"]
      /\ table' = [table EXCEPT ![g] = NoConn]
  BY DEF ThreadHangup, mainVars
<1>2. g \in Fds /\ Serving(t) BY <1>1 DEF Listening, Serving
<1>3. tpc'[t] = "done" /\ \A u \in Threads : u # t => tpc'[u] = tpc[u] BY <1>1
<1>4. table'[g] = NoConn /\ \A f \in Fds : f # g => table'[f] = table[f] BY <1>1, <1>2
<1>5. \A u \in Threads : Serving(u)' <=> Serving(u) /\ u # t BY <1>3 DEF Serving
<1>6. \A u \in Threads : Serving(u) /\ afd[u] = g => u = t BY <1>2 DEF OpenAndOwn
<1>7. ~InHandOff(g) BY <1>2 DEF Exclusive
<1>8. \A u \in Threads : tpc'[u] = "new" <=> tpc[u] = "new" BY <1>1, <1>3
<1>9. \A f \in Fds : InHandOff(f)' <=> InHandOff(f) BY <1>1, <1>8 DEF InHandOff
<1> HIDE DEF g
<1>10. Intact' BY <1>1, <1>8 DEF Intact
<1>11. Exclusive' BY <1>1, <1>4, <1>5, <1>7, <1>9 DEF Exclusive
<1>12. OpenAndOwn' BY <1>1, <1>4, <1>5, <1>6 DEF OpenAndOwn
<1>13. Owned' BY <1>1, <1>4, <1>5, <1>9 DEF Owned, g
<1>14. Listening' BY <1>1, <1>3, <1>4, <1>6 DEF Listening, Serving
<1>15. ExitByBad' BY <1>1 DEF ExitByBad
<1>16. g \notin orphans BY <1>2 DEF Orphaned, g
<1>17. Orphaned' BY <1>1, <1>4, <1>5, <1>9, <1>16 DEF Orphaned
<1> QED BY <1>10, <1>11, <1>12, <1>13, <1>14, <1>15, <1>17

\* A thread at work that finds no connection behind its descriptor never had one.
LEMMA NoPeerIsBad ==
  ASSUME TypeOK, HandOff, NEW t \in Threads, Serving(t), Peer(t) = NoConn
  PROVE  afd[t] = BadFd
BY DEF TypeOK, HandOff, OpenAndOwn, Peer

\* Every step of a thread keeps the hand-off in order.
LEMMA ThreadHandOff ==
  ASSUME TypeOK, HandOff, alive, NEW t \in Threads, Thread(t)
  PROVE  HandOff'
<1>1. ASSUME ErrExit, Serving(t), Peer(t) = NoConn PROVE HandOff'
  <2>1. Serving(t)' /\ afd'[t] = BadFd BY <1>1, NoPeerIsBad DEF ErrExit, Serving, threadVars
  <2>2. ExitByBad' BY <2>1 DEF ExitByBad
  <2> QED BY <1>1, <2>2, HandOffFrame DEF ErrExit
<1>2. CASE ThreadStart(t) BY <1>2, StartHandOff
<1>3. CASE ThreadRecv(t)
  <2>1. Serving(t) BY <1>3 DEF ThreadRecv, Serving
  <2>2. CASE Peer(t) = NoConn BY <1>1, <1>3, <2>1, <2>2 DEF ThreadRecv
  <2>3. CASE Peer(t) # NoConn
    <3>1. /\ tpc' = [tpc EXCEPT ![t] = "recv"] /\ on' = [on EXCEPT ![t] = Peer(t)]
          /\ UNCHANGED <<alive, table, mpc, newfd, slot, n, orphans, afd>>
      BY <1>3, <2>3 DEF ThreadRecv, mainVars
    <3>2. afd[t] \in Fds /\ on'[t] = table[afd[t]] /\ \A u \in Threads : u # t => on'[u] = on[u]
      BY <2>3, <3>1 DEF Peer, TypeOK
    <3> QED BY <2>1, <3>1, <3>2, MoveHandOff
  <2> QED BY <2>2, <2>3
<1>4. CASE ThreadRequest(t)
  <2>1. /\ Serving(t) /\ tpc' = [tpc EXCEPT ![t] = "handle"]
        /\ UNCHANGED <<alive, table, mpc, newfd, slot, n, orphans, afd, on>>
    BY <1>4 DEF ThreadRequest, Serving, mainVars
  <2>2. afd[t] \in Fds /\ on[t] = table[afd[t]] BY <1>4 DEF ThreadRequest, HandOff, Listening
  <2> QED BY <2>1, <2>2, MoveHandOff
<1>5. CASE ThreadHandle(t)
  <2>1. Serving(t) BY <1>5 DEF ThreadHandle, Serving
  <2>2. CASE Peer(t) = NoConn BY <1>1, <1>5, <2>1, <2>2 DEF ThreadHandle
  <2>3. CASE Peer(t) # NoConn
    <3>1. /\ tpc' = [tpc EXCEPT ![t] = "top"]
          /\ UNCHANGED <<alive, table, mpc, newfd, slot, n, orphans, afd, on>>
      BY <1>5, <2>3 DEF ThreadHandle, mainVars
    <3> QED BY <2>1, <3>1, MoveHandOff
  <2> QED BY <2>2, <2>3
<1>6. CASE ThreadHangup(t) BY <1>6, HangupHandOff
<1> QED BY <1>2, <1>3, <1>4, <1>5, <1>6 DEF Thread

\* Every step preserves the invariant.
LEMMA NextIInv == IInv /\ [Next]_vars => IInv'
<1> SUFFICES ASSUME IInv, [Next]_vars PROVE IInv' OBVIOUS
<1>1. TypeOK' /\ Order' BY NextType, NextOrder DEF IInv
<1>2. ASSUME ~overtaken' PROVE HandOff'
  <2>1. ~overtaken
    BY <1>2 DEF Next, vars, Main, MainAccept, MainLog, MainLaunch, Thread, ThreadStart, ThreadRecv,
         ThreadRequest, ThreadHandle, ThreadHangup, ErrExit, Client, Connect, Ask, Leave,
         mainVars, threadVars, IInv, TypeOK
  <2>2. TypeOK /\ Order /\ HandOff BY <2>1 DEF IInv
  <2>3. ASSUME UNCHANGED <<alive, table, mainVars, threadVars>> PROVE HandOff'
    <3>1. ExitByBad' BY <2>2, <2>3 DEF HandOff, ExitByBad, Serving, mainVars, threadVars
    <3> QED BY <2>2, <2>3, <3>1, HandOffFrame
  <2>4. CASE UNCHANGED vars BY <2>3, <2>4 DEF vars
  <2>5. ASSUME NEW k \in Conns, Client(k) PROVE HandOff'
    BY <2>3, <2>5 DEF Client, Connect, Ask, Leave
  <2>6. CASE MainAccept BY <1>2, <2>2, <2>6, AcceptHandOff
  <2>7. CASE MainLog BY <2>2, <2>7, LogHandOff
  <2>8. ASSUME alive, MainLaunch PROVE HandOff'
    BY <2>2, <2>8, LaunchHandOff, NoThreadHandOff DEF MainLaunch
  <2>9. ASSUME NEW t \in Threads, alive, Thread(t) PROVE HandOff' BY <2>2, <2>9, ThreadHandOff
  <2> QED BY <2>4, <2>5, <2>6, <2>7, <2>8, <2>9 DEF Next, Main
<1> QED BY <1>1, <1>2 DEF IInv

-----------------------------------------------------------------------------
(* Theorems. *)

\* The invariant of the hand-off from main to the threads always holds.
THEOREM LaunchInvariance == Spec => []IInv
BY InitIInv, NextIInv, PTL DEF Spec

\* Main, the threads and the descriptor table keep their types.
THEOREM LaunchTypes == Spec => []TypeOK
<1>1. IInv => TypeOK BY DEF IInv
<1> QED BY <1>1, LaunchInvariance, PTL

\* As long as main overtakes no thread, every open descriptor has one owner; only one
\* that no thread could be created for has none, and stays open.
THEOREM Ownership == Spec => []OneOwner
<1>1. IInv => OneOwner
  <2> SUFFICES ASSUME IInv, ~overtaken, NEW f \in Fds
               PROVE  /\ table[f] # NoConn => \/ InHandOff(f) \/ f \in orphans
                                              \/ \E t \in Threads : Serving(t) /\ afd[t] = f
                      /\ InHandOff(f) \/ f \in orphans =>
                           table[f] # NoConn /\ \A t \in Threads : Serving(t) => afd[t] # f
                      /\ ~(InHandOff(f) /\ f \in orphans)
                      /\ \A t, u \in Threads :
                           Serving(t) /\ Serving(u) /\ afd[t] = f /\ afd[u] = f =>
                             t = u /\ table[f] # NoConn
    BY DEF OneOwner
  <2>1. HandOff BY DEF IInv
  <2>2. table[f] # NoConn =>
          InHandOff(f) \/ f \in orphans \/ \E t \in Threads : Serving(t) /\ afd[t] = f
    BY <2>1 DEF HandOff, Owned
  <2>3. InHandOff(f) \/ f \in orphans =>
          table[f] # NoConn /\ \A t \in Threads : Serving(t) => afd[t] # f
    BY <2>1 DEF HandOff, Exclusive, Orphaned
  <2>4. ~(InHandOff(f) /\ f \in orphans) BY <2>1 DEF HandOff, Orphaned
  <2>5. \A t, u \in Threads :
          Serving(t) /\ Serving(u) /\ afd[t] = f /\ afd[u] = f => t = u /\ table[f] # NoConn
    BY <2>1 DEF HandOff, OpenAndOwn
  <2> QED BY <2>2, <2>3, <2>4, <2>5
<1> QED BY <1>1, LaunchInvariance, PTL

\* With orderly clients, the server ends only over a thread that was overtaken or
\* that was launched for an accept() that failed, or in pthread_detach() when no
\* thread could be created.
THEOREM Exits == Spec => []ExitExplained
<1>1. IInv => ExitExplained BY DEF IInv, HandOff, ExitByBad, ExitExplained
<1> QED BY <1>1, LaunchInvariance, PTL

\* As long as main overtakes no thread, answers go where their requests came from.
THEOREM Answers == Spec => AnswersGoBack
<1>1. IInv => \A t \in Threads : ~overtaken /\ tpc[t] = "handle" => Peer(t) = on[t]
  BY DEF IInv, HandOff, Listening, Peer
<1>2. IInv /\ [Next]_vars
        => [\A t \in Threads : ~overtaken /\ tpc[t] = "handle" /\ tpc'[t] = "top" => Peer(t) = on[t]]_vars
  BY <1>1
<1> QED BY <1>2, LaunchInvariance, PTL DEF Spec, AnswersGoBack

=============================================================================
