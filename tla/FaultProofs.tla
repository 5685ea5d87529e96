---------------------------- MODULE FaultProofs ----------------------------
(***************************************************************************)
(* The theorems of FtpFaults: what is left of InStep when calls fail.  A   *)
(* session is in step, as in FtpProofs, or its thread goes on with a data  *)
(* descriptor of -1, and the client with a connection nobody will serve.   *)
(* Adrift says how far such a session can go, and that it comes back into  *)
(* step when the thread is in recv() again.                                *)
(***************************************************************************)
EXTENDS FtpFaults, FtpProofs

FaultTypeOK ==
  /\ dfd \in [Clients -> {"good", "socket", "accept"}]
  /\ reaping \in [Clients -> BOOLEAN]

\* A port is on its way to the client.
PortSent(c) == s2c[c] \in {<<"ACK", "PORT">>, <<"PORT">>}

\* A session in step: a descriptor that once was -1 has no use any more.
Kept(c) ==
  /\ InStepAt(c)
  /\ dfd[c] # "good" => pc[c] \notin {"recvdata", "senddata"} /\ ~PortSent(c)

\* What the thread has sent before it went on with -1.
Acked(c)   == s2c[c] = IF dfd[c] = "socket" THEN <<"ACK">> ELSE <<"ACK", "PORT">>
Offer(c)   == s2c[c] = IF dfd[c] = "socket" THEN <<>> ELSE <<"PORT">>
Serving(c) == req[c] = cmd[c] /\ c2s[c] = <<>>

\* Where a client can be whose thread serves descriptor -1.
Adrift(c) ==
  /\ spc[c] \in {"serve", "ls", "tx", "rx", "recv"} /\ dsrv[c] = "shut"
  /\ pc[c] \notin {"verdict", "size", "sfile", "tfile"}
  /\ pc[c] \in {"prompt", "quit"} =>
       dfd[c] = "accept" /\ c2s[c] = <<>> /\ s2c[c] = <<>> /\ ctl[c] \in {"open", "fin"}
  /\ pc[c] = "ack" =>
       \/ dfd[c] = "accept" /\ c2s[c] = <<cmd[c]>> /\ s2c[c] = <<>>
       \/ cmd[c].code \in {"LIST", "CWD", "CD"} /\ Serving(c) /\ Acked(c)
  /\ pc[c] = "ack2" => Serving(c) /\ Acked(c)
  /\ pc[c] = "port" => Serving(c) /\ Offer(c)
  /\ pc[c] \in {"recvdata", "senddata"} => Serving(c) /\ s2c[c] = <<>>

Lost(c) ==
  /\ dfd[c] # "good" /\ dcli[c] = "shut"
  /\ dfd[c] = "socket" => pc[c] \notin {"recvdata", "senddata"} /\ ~PortSent(c)
  /\ ClientFacts(c) /\ ThreadFacts(c)
  /\ up => Adrift(c)

Session(c) ==
  /\ Kept(c) \/ Lost(c)
  /\ Wire(c) /\ Orderly(c)
  /\ spc[c] = "accept" => dfd[c] = "good"
  /\ reaping[c] => spc[c] = "serve" /\ req[c].code = "LIST"
  /\ c \notin Unlucky => dfd[c] = "good" /\ ~reaping[c]

\* The strengthening that is inductive.
FaultInv ==
  /\ TypeOK /\ FaultTypeOK
  /\ \A c \in Clients : Session(c)
  /\ ServerExitNeedsACrash

-----------------------------------------------------------------------------
(* Sessions that a step does not concern. *)

\* In or out of step, a session has its files.
LEMMA SessionFacts == (\A c \in Clients : Session(c)) => Facts
BY DEF Session, Kept, Lost, InStepAt, ClientShape, ThreadShape, Facts

\* What happens to other sessions leaves a session as it is.
LEMMA SessionFrame ==
  ASSUME NEW c \in Clients, Session(c), Same(c), dfd'[c] = dfd[c], reaping'[c] = reaping[c],
         up' => up, Gettable(c) => fs'[cwd[c]][req[c].name] # NoFile
  PROVE  Session(c)'
<1>1. Kept(c) => Kept(c)'
  <2>1. Kept(c) => InStepAt(c)' BY Frame DEF Kept
  <2> QED BY <2>1 DEF Kept, PortSent, Same
<1>2. Lost(c) => Lost(c)'
  <2>1. ClientFacts(c) => ClientFacts(c)' BY DEF ClientFacts, HasFile, Ended, Same
  <2>2. ThreadFacts(c) => ThreadFacts(c)' BY DEF ThreadFacts, Gettable, Same
  <2>3. Adrift(c) => Adrift(c)' BY DEF Adrift, Serving, Acked, Offer, Same
  <2> QED BY <2>1, <2>2, <2>3 DEF Lost, PortSent, Same
<1>3. Wire(c)' BY WireFrame DEF Session
<1>4. Orderly(c)' BY OrderlyFrame DEF Session
<1> QED BY <1>1, <1>2, <1>3, <1>4 DEF Session, Same

\* What a step without a fault does to dfd and reaping.
LEMMA GuardedFacts ==
  ASSUME FaultTypeOK, NEW c \in Clients, Guarded(c)
  PROVE  /\ FaultTypeOK' /\ reaping' = reaping
         /\ dfd'[c] = IF spc'[c] = "accept" THEN "good" ELSE dfd[c]
         /\ \A j \in Clients \ {c} : dfd'[j] = dfd[j]
BY DEF FaultTypeOK, Guarded

-----------------------------------------------------------------------------
(* The steps of a client. *)

\* No other reply passes for a port.
LEMMA NoPortIn ==
  \A s \in {<<>>, <<"ACK">>, <<"BAD">>, <<"SIZE">>, <<"ACK", "BAD">>, <<"ACK", "SIZE">>,
            <<"ACK", "ACK", "SIZE">>} : s \notin {<<"ACK", "PORT">>, <<"PORT">>}
<1>1. <<>> # <<"PORT">> /\ <<>> # <<"ACK", "PORT">> OBVIOUS
<1>2. <<"ACK">> # <<"PORT">> /\ <<"BAD">> # <<"PORT">> /\ <<"SIZE">> # <<"PORT">> OBVIOUS
<1>3. <<"ACK">> # <<"ACK", "PORT">> /\ <<"BAD">> # <<"ACK", "PORT">> /\ <<"SIZE">> # <<"ACK", "PORT">>
  OBVIOUS
<1>4. <<"ACK", "BAD">> # <<"PORT">> /\ <<"ACK", "SIZE">> # <<"PORT">> /\ <<"ACK", "ACK", "SIZE">> # <<"PORT">>
  OBVIOUS
<1>5. <<"ACK", "BAD">> # <<"ACK", "PORT">> /\ <<"ACK", "SIZE">> # <<"ACK", "PORT">>
  <2>1. <<"ACK", "BAD">>[2] # <<"ACK", "PORT">>[2] /\ <<"ACK", "SIZE">>[2] # <<"ACK", "PORT">>[2] OBVIOUS
  <2> QED BY ONLY <2>1
<1>6. <<"ACK", "ACK", "SIZE">> # <<"ACK", "PORT">> OBVIOUS
<1> QED BY <1>1, <1>2, <1>3, <1>4, <1>5, <1>6

\* What a client reads before its port brings it no port.
LEMMA NoPortRead ==
  ASSUME NEW c \in Clients, Wire(c), ~PortSent(c), pc[c] \in {"ack", "ack2", "verdict", "size"},
         s2c[c] # <<>>, s2c'[c] = Tail(s2c[c])
  PROVE  ~PortSent(c)'
<1>1. /\ pc[c] = "ack" => s2c[c] \in {<<"ACK">>, <<"ACK", "BAD">>, <<"ACK", "ACK", "SIZE">>}
      /\ pc[c] = "ack2" => s2c[c] = <<"ACK">>
      /\ pc[c] = "verdict" => s2c[c] \in {<<"BAD">>, <<"ACK", "SIZE">>}
      /\ pc[c] = "size" => s2c[c] = <<"SIZE">>
  BY DEF Wire, PortSent
<1>2. s2c'[c] \in {<<>>, <<"BAD">>, <<"ACK", "SIZE">>, <<"SIZE">>}
  <2>1. CASE s2c[c] \in {<<"ACK">>, <<"BAD">>, <<"SIZE">>}
    <3>1. Tail(<<"ACK">>) = <<>> /\ Tail(<<"BAD">>) = <<>> /\ Tail(<<"SIZE">>) = <<>>
      BY ONLY TailOfReplies
    <3> QED BY <2>1, <3>1
  <2>2. CASE s2c[c] = <<"ACK", "BAD">> BY <2>2, TailOfReplies
  <2>3. CASE s2c[c] = <<"ACK", "ACK", "SIZE">> BY <2>3, TailOfReplies
  <2>4. CASE s2c[c] = <<"ACK", "SIZE">> BY <2>4, TailOfReplies
  <2> QED BY <1>1, <2>1, <2>2, <2>3, <2>4
<1> QED BY <1>2, NoPortIn DEF PortSent

\* A client that is not promised a port gets none by itself.
LEMMA NoPort ==
  ASSUME TypeOK, NEW c \in Clients, Wire(c), ~PortSent(c), pc[c] \notin {"recvdata", "senddata"},
         ByClient(c)
  PROVE  pc'[c] \notin {"recvdata", "senddata"} /\ ~PortSent(c)'
<1> USE DEF TypeOK, NetTypeOK, ClientTypeOK
<1>1. ASSUME NEW l \in {"quit", "dead"}, EndProcess(c, l)
      PROVE  pc'[c] \notin {"recvdata", "senddata"} /\ ~PortSent(c)'
  BY <1>1 DEF EndProcess, Goto, PortSent
<1>2. CASE Quit(c) \/ Crash(c) \/ BrokenPipe(c) \/ ServerGone(c) \/ ConnectRefused(c)
  BY <1>1, <1>2 DEF Quit, Crash, BrokenPipe, ServerGone, ConnectRefused
<1>3. CASE NoAck(c) \/ SendCode2(c) \/ \E m \in Menu[c] : Issue(c, m)
  BY <1>3 DEF NoAck, SendCode2, Issue, Goto, netVars, PortSent
<1>4. CASE RecvAck(c) \/ RecvVerdict(c) \/ RecvSize(c)
  <2>1. /\ pc[c] \in {"ack", "ack2", "verdict", "size"} /\ s2c[c] # <<>> /\ s2c'[c] = Tail(s2c[c])
        /\ pc'[c] \notin {"recvdata", "senddata"}
    BY <1>4 DEF RecvAck, RecvVerdict, RecvSize, TakeToken, Goto, AfterAck
  <2> QED BY <2>1, NoPortRead
<1>5. ~ConnectData(c) BY DEF ConnectData, Wire, PortSent
<1>6. ~RecvBlock(c) /\ ~RecvEOF(c) /\ ~RecvReset(c) /\ ~SendBlock(c) /\ ~SendEOF(c)
  BY DEF RecvBlock, RecvEOF, RecvReset, SendBlock, SendEOF
<1> QED BY <1>2, <1>3, <1>4, <1>5, <1>6 DEF ByClient, ClientStep

\* A client knows its command and has its file, whatever its thread does.
LEMMA ByClientFacts ==
  ASSUME TypeOK, NEW c \in Clients, ClientFacts(c), ByClient(c)
  PROVE  ClientFacts(c)'
<1> USE DEF TypeOK, NetTypeOK, ClientTypeOK, ClientFacts, HasFile, Ended
<1>1. ASSUME NEW l \in {"quit", "dead"}, EndProcess(c, l) PROVE ClientFacts(c)'
  BY <1>1 DEF EndProcess, Goto
<1>2. CASE Quit(c) \/ Crash(c) \/ BrokenPipe(c) \/ ServerGone(c) \/ ConnectRefused(c)
  BY <1>1, <1>2 DEF Quit, Crash, BrokenPipe, ServerGone, ConnectRefused
<1>3. CASE NoAck(c) BY <1>3 DEF NoAck, Goto, netVars
<1>4. CASE SendCode2(c) BY <1>4 DEF SendCode2, Goto
<1>5. CASE \E m \in Menu[c] : Issue(c, m) BY <1>5 DEF Issue, Goto
<1>6. CASE RecvAck(c) BY <1>6 DEF RecvAck, TakeToken, Goto, AfterAck
<1>7. CASE RecvVerdict(c)
  <2>1. CASE Head(s2c[c]) = "ACK"
    <3>1. cmd[c].code = "GET" /\ cmd[c] \in Commands BY <1>7 DEF RecvVerdict
    <3>2. cmd[c].name \in Names BY <3>1 DEF Commands
    <3>3. lfs'[c][cmd[c].name] = <<>> BY <1>7, <2>1, <3>2 DEF RecvVerdict
    <3>4. <<>> # NoFile
      <4>1. <<>> \in Seq(Chunk) OBVIOUS
      <4> QED BY <4>1, NotNoFile
    <3> QED BY <1>7, <2>1, <3>1, <3>3, <3>4 DEF RecvVerdict, TakeToken, Goto
  <2>2. CASE Head(s2c[c]) # "ACK" BY <1>7, <2>2 DEF RecvVerdict, TakeToken, Goto
  <2> QED BY <2>1, <2>2
<1>8. CASE RecvSize(c) BY <1>8 DEF RecvSize, TakeToken, Goto
<1>9. CASE ConnectData(c) BY <1>9 DEF ConnectData, TakeToken, Goto
<1>10. CASE RecvBlock(c)
  <2>1. CASE cmd[c].code = "GET"
    <3>1. cmd[c] \in Commands BY DEF RecvVerdict
    <3>2. cmd[c].name \in Names BY <2>1, <3>1 DEF Commands
    <3>3. lfs[c][cmd[c].name] \in Seq(Chunk) BY <1>10, <2>1, <3>2 DEF RecvBlock, Content
    <3>4. lfs'[c][cmd[c].name] = Append(lfs[c][cmd[c].name], Head(dq[c])) /\ Head(dq[c]) \in Chunk
      BY <1>10, <2>1, <3>2 DEF RecvBlock
    <3>5. lfs'[c][cmd[c].name] \in Seq(Chunk) BY <3>3, <3>4
    <3>6. lfs'[c][cmd[c].name] # NoFile BY <3>5, NotNoFile
    <3> QED BY <1>10, <3>6 DEF RecvBlock
  <2>2. CASE cmd[c].code # "GET" BY <1>10, <2>2 DEF RecvBlock
  <2> QED BY <2>1, <2>2
<1>11. CASE RecvEOF(c) BY <1>11 DEF RecvEOF, Goto
<1>12. CASE RecvReset(c)
  <2>1. CASE EndProcess(c, "dead") BY <1>1, <2>1
  <2>2. CASE ~EndProcess(c, "dead") BY <1>12, <2>2 DEF RecvReset, Goto
  <2> QED BY <2>1, <2>2
<1>13. CASE SendBlock(c) BY <1>13 DEF SendBlock
<1>14. CASE SendEOF(c) BY <1>14 DEF SendEOF, Goto
<1> QED BY <1>2, <1>3, <1>4, <1>5, <1>6, <1>7, <1>8, <1>9, <1>10, <1>11, <1>12, <1>13, <1>14
     DEF ByClient, ClientStep

\* A client that ends leaves an unserved session as unserved as it was.
LEMMA LostEnd ==
  ASSUME TypeOK, NEW c \in Clients, Lost(c), NEW l \in {"quit", "dead"}, EndProcess(c, l),
         l = "quit" => pc[c] = "prompt", UNCHANGED serverVars, dfd'[c] = dfd[c]
  PROVE  Lost(c)'
<1>1. /\ pc'[c] = l /\ s2c'[c] = <<>> /\ cmd'[c] = cmd[c] /\ lfs'[c] = lfs[c]
      /\ ctl'[c] = IF s2c[c] = <<>> THEN "fin" ELSE "rst"
      /\ dcli'[c] = IF dcli[c] = "open" THEN "shut" ELSE dcli[c]
      /\ c2s'[c] = c2s[c] /\ up' = up /\ dsrv' = dsrv
  BY DEF EndProcess, Goto, TypeOK, NetTypeOK, ClientTypeOK
<1>2. dcli'[c] = "shut" /\ dfd'[c] # "good" BY <1>1 DEF Lost
<1>3. ClientFacts(c)' BY <1>1 DEF Lost, ClientFacts, HasFile, Ended
<1>4. ThreadFacts(c)' BY DEF Lost, ThreadFacts, Gettable, serverVars
<1>5. up' => Adrift(c)'
  <2>1. up => /\ spc[c] \in {"serve", "ls", "tx", "rx", "recv"} /\ dsrv[c] = "shut"
              /\ pc[c] = "prompt" => dfd[c] = "accept" /\ c2s[c] = <<>> /\ s2c[c] = <<>>
    BY DEF Lost, Adrift
  <2> QED BY <1>1, <2>1 DEF Adrift, serverVars
<1>6. pc'[c] \notin {"recvdata", "senddata"} /\ ~PortSent(c)'
  BY <1>1, NoPortIn DEF PortSent
<1> QED BY <1>2, <1>3, <1>4, <1>5, <1>6 DEF Lost

\* Its connection is not a step of FtpClient: see UnservedConnect.
LEMMA NoConnect ==
  ASSUME TypeOK, FaultTypeOK, NEW c \in Clients, Lost(c), Wire(c), Guarded(c)
  PROVE  ~ConnectData(c)
<1>1. SUFFICES ASSUME ConnectData(c) PROVE FALSE OBVIOUS
<1>2. pc[c] = "port" /\ s2c[c] # <<>> /\ pc'[c] \in {"senddata", "recvdata"}
  BY <1>1 DEF ConnectData, Goto, TypeOK, ClientTypeOK
<1>3. dfd[c] # "accept" BY <1>2 DEF Guarded, Unserved
<1>4. PortSent(c) BY <1>2 DEF Wire, PortSent
<1> QED BY <1>3, <1>4 DEF Lost, FaultTypeOK

\* While the server lives, so does any other step of its client: it gets no further
\* than a data connection that was never accepted.
LEMMA AdriftStep ==
  ASSUME TypeOK, FaultTypeOK, NEW c \in Clients, Lost(c), Wire(c), ByClient(c), up,
         pc'[c] \notin {"quit", "dead"}, UNCHANGED serverVars, dfd'[c] = dfd[c], Guarded(c)
  PROVE  Adrift(c)'
<1>1. Adrift(c) /\ dfd[c] \in {"socket", "accept"} BY DEF Lost, FaultTypeOK
<1>2. dsrv' = dsrv
  BY DEF ByClient, ClientStep, EndProcess, netVars, Quit, Crash, Issue, BrokenPipe, ServerGone, NoAck,
       RecvAck, RecvVerdict, RecvSize, SendCode2, ConnectData, ConnectRefused, RecvBlock, RecvEOF,
       RecvReset, SendBlock, SendEOF
<1>3. /\ spc'[c] = spc[c] /\ req'[c] = req[c] /\ dsrv'[c] = "shut"
      /\ spc[c] \in {"serve", "ls", "tx", "rx", "recv"}
  BY <1>1, <1>2 DEF Adrift, serverVars
<1>4. CASE \E m \in Menu[c] : Issue(c, m)
  <2>1. PICK m \in Menu[c] : Issue(c, m) BY <1>4
  <2>2. /\ pc[c] = "prompt" /\ pc'[c] = "ack" /\ cmd'[c] = m /\ s2c' = s2c /\ c2s'[c] = Append(c2s[c], m)
    BY <2>1 DEF Issue, Goto, TypeOK, NetTypeOK, ClientTypeOK
  <2>3. dfd[c] = "accept" /\ c2s[c] = <<>> /\ s2c[c] = <<>> BY <1>1, <2>2 DEF Adrift
  <2>4. c2s'[c] = <<m>> BY <2>2, <2>3, AppendEmpty
  <2> QED BY <1>3, <2>2, <2>3, <2>4 DEF Adrift
<1>5. ~Quit(c) /\ ~Crash(c)
  BY DEF Quit, Crash, EndProcess, Goto, TypeOK, ClientTypeOK
<1>6. ~BrokenPipe(c) /\ ~ServerGone(c) /\ ~NoAck(c) /\ ~ConnectRefused(c)
  BY DEF BrokenPipe, ServerGone, NoAck, ConnectRefused, ServerSilent, EndProcess, Goto, TypeOK, ClientTypeOK
<1>7. CASE RecvAck(c)
  <2>1. /\ pc[c] \in {"ack", "ack2"} /\ s2c[c] # <<>> /\ s2c'[c] = Tail(s2c[c])
        /\ pc'[c] = IF Head(s2c[c]) = "ACK" THEN AfterAck(c) ELSE "prompt"
        /\ c2s' = c2s /\ cmd' = cmd
    BY <1>7 DEF RecvAck, Goto, TakeToken, TypeOK, NetTypeOK, ClientTypeOK
  <2>2. Serving(c) /\ Acked(c) /\ (pc[c] = "ack" => cmd[c].code \in {"LIST", "CWD", "CD"})
    BY <1>1, <2>1 DEF Adrift
  <2>3. Head(s2c[c]) = "ACK" BY <2>2, TailOfReplies DEF Acked
  <2>4. pc'[c] = "port" BY <2>1, <2>2, <2>3 DEF AfterAck
  <2>5. Offer(c)'
    <3>1. CASE dfd[c] = "socket" BY <2>1, <2>2, <3>1, TailOfReplies DEF Acked, Offer
    <3>2. CASE dfd[c] # "socket" BY <2>1, <2>2, <3>2, TailOfReplies DEF Acked, Offer
    <3> QED BY <3>1, <3>2
  <2> QED BY <1>3, <2>1, <2>2, <2>4, <2>5 DEF Adrift, Serving
<1>8. ~RecvVerdict(c) /\ ~RecvSize(c) /\ ~SendCode2(c) BY <1>1 DEF Adrift, RecvVerdict, RecvSize, SendCode2
<1>9. ~ConnectData(c) BY NoConnect
<1>10. CASE RecvBlock(c) \/ SendBlock(c)
  <2>1. pc' = pc /\ s2c' = s2c /\ c2s' = c2s /\ cmd' = cmd /\ ctl' = ctl BY <1>10 DEF RecvBlock, SendBlock
  <2> QED BY <1>1, <1>3, <2>1 DEF Adrift, Serving, Acked, Offer
<1>11. CASE RecvEOF(c) \/ RecvReset(c)
  <2>1. pc[c] = "recvdata" /\ pc'[c] = "prompt"
    BY <1>11 DEF RecvEOF, RecvReset, EndProcess, Goto, TypeOK, ClientTypeOK
  <2> QED BY <1>1, <2>1 DEF Lost, Guarded, Unserved
<1>12. CASE SendEOF(c)
  <2>1. pc[c] = "senddata" /\ pc'[c] = "prompt" /\ s2c' = s2c /\ c2s' = c2s /\ ctl' = ctl
    BY <1>12 DEF SendEOF, Goto, TypeOK, ClientTypeOK
  <2>2. Serving(c) /\ s2c[c] = <<>> /\ ctl[c] = "open" /\ dfd[c] = "accept"
    BY <1>1, <2>1 DEF Adrift, Lost, ClientFacts, Ended
  <2> QED BY <1>3, <2>1, <2>2 DEF Adrift, Serving
<1> QED BY <1>4, <1>5, <1>6, <1>7, <1>8, <1>9, <1>10, <1>11, <1>12 DEF ByClient, ClientStep

\* A client that ends closes its connections, and one that quits does so at its prompt.
LEMMA Ending ==
  ASSUME TypeOK, NEW c \in Clients, ByClient(c), pc'[c] \in {"quit", "dead"}
  PROVE  \E l \in {"quit", "dead"} : EndProcess(c, l) /\ (l = "quit" => pc[c] = "prompt")
<1> USE DEF TypeOK, ClientTypeOK
<1>1. ~RecvAck(c) /\ ~RecvVerdict(c) /\ ~RecvSize(c) /\ ~SendCode2(c) /\ ~ConnectData(c) /\ ~NoAck(c)
  BY DEF RecvAck, RecvVerdict, RecvSize, SendCode2, ConnectData, NoAck, Goto, AfterAck
<1>2. ~RecvBlock(c) /\ ~RecvEOF(c) /\ ~SendBlock(c) /\ ~SendEOF(c) /\ ~\E m \in Menu[c] : Issue(c, m)
  BY DEF RecvBlock, RecvEOF, SendBlock, SendEOF, Issue, Goto
<1>3. CASE BrokenPipe(c) \/ ServerGone(c) \/ ConnectRefused(c) \/ RecvReset(c) \/ Crash(c)
  <2>1. EndProcess(c, "dead")
    BY <1>3 DEF BrokenPipe, ServerGone, ConnectRefused, RecvReset, Crash, Goto
  <2> QED BY <2>1
<1>4. CASE Quit(c) BY <1>4 DEF Quit
<1> QED BY <1>1, <1>2, <1>3, <1>4 DEF ByClient, ClientStep

\* Whatever a client does leaves an unserved session unserved.
LEMMA ByClientLost ==
  ASSUME TypeOK, FaultTypeOK, NEW c \in Clients, Lost(c), Wire(c), ByClient(c),
         UNCHANGED serverVars, dfd'[c] = dfd[c], Guarded(c)
  PROVE  Lost(c)'
<1>1. CASE pc'[c] \in {"quit", "dead"} BY <1>1, Ending, LostEnd
<1>2. CASE pc'[c] \notin {"quit", "dead"}
  <2>1. dcli'[c] = "shut"
    <3>1. dcli[c] = "shut" /\ dcli \in [Clients -> {"none", "open", "shut"}] BY DEF Lost, TypeOK, NetTypeOK
    <3>2. ~ConnectData(c) BY NoConnect
    <3> QED BY <3>1, <3>2 DEF ByClient, ClientStep, EndProcess, netVars, Quit, Crash, Issue, BrokenPipe,
              ServerGone, NoAck, RecvAck, RecvVerdict, RecvSize, SendCode2, ConnectRefused, RecvBlock,
              RecvEOF, RecvReset, SendBlock, SendEOF
  <2>2. ClientFacts(c)' BY ByClientFacts DEF Lost
  <2>3. ThreadFacts(c)' BY DEF Lost, ThreadFacts, Gettable, serverVars
  <2>4. dfd[c] = "socket" => pc'[c] \notin {"recvdata", "senddata"} /\ ~PortSent(c)'
    BY NoPort DEF Lost
  <2>5. up' => Adrift(c)' BY <1>2, ClientSpares, AdriftStep
  <2> QED BY <2>1, <2>2, <2>3, <2>4, <2>5 DEF Lost
<1> QED BY <1>1, <1>2

\* While the server lives, a client whose thread serves it and has nothing to tell it
\* ends in order.
LEMMA LostOrderly ==
  ASSUME TypeOK, NEW c \in Clients, Lost(c), Orderly(c), ByClient(c), UNCHANGED serverVars
  PROVE  Orderly(c)'
<1> SUFFICES ASSUME up', pc'[c] = "dead", c \notin Mortal
             PROVE  /\ ctl'[c] = "fin" /\ c2s'[c] = <<>>
                    /\ spc'[c] \notin {"ack", "get", "code", "codeok", "codebad", "listen"}
  BY DEF Orderly
<1>1. up BY ClientSpares
<1>2. pc[c] # "dead" BY DeadStop
<1>3. EndProcess(c, "dead") /\ pc[c] \in {"senddata", "recvdata"} BY <1>1, <1>2, UnkilledEnd
<1>4. c2s[c] = <<>> /\ s2c[c] = <<>> /\ spc[c] \in {"serve", "ls", "tx", "rx", "recv"}
  BY <1>1, <1>3 DEF Lost, Adrift, Serving
<1> QED BY <1>3, <1>4 DEF EndProcess, serverVars, TypeOK, NetTypeOK

\* Whatever a client does keeps what is known of its session.
LEMMA ByClientSession ==
  ASSUME TypeOK, FaultTypeOK, NEW c \in Clients, Session(c), ByClient(c), UNCHANGED serverVars, Guarded(c)
  PROVE  Session(c)'
<1>1. spc'[c] = spc[c] /\ req'[c] = req[c] BY DEF serverVars
<1>2. dfd'[c] = dfd[c] /\ reaping' = reaping BY <1>1, GuardedFacts DEF Session
<1>3. Kept(c) \/ Lost(c) BY DEF Session
<1>4. Wire(c) /\ Orderly(c) BY DEF Session
<1>5. ASSUME Kept(c) PROVE Kept(c)' /\ Orderly(c)'
  <2>1. InStepAt(c)' BY <1>5, ByClientInStep DEF Kept
  <2>2. Kept(c)' BY <1>2, <1>4, <1>5, <2>1, NoPort DEF Kept
  <2>3. Orderly(c)' BY <1>4, <1>5, ByClientOrderly DEF Kept
  <2> QED BY <2>2, <2>3
<1>6. ASSUME Lost(c) PROVE Lost(c)' /\ Orderly(c)'
  <2>1. Lost(c)' BY <1>2, <1>4, <1>6, ByClientLost
  <2>2. Orderly(c)' BY <1>4, <1>6, LostOrderly
  <2> QED BY <2>1, <2>2
<1>7. Wire(c)' BY <1>4, ByClientWire
<1> QED BY <1>1, <1>2, <1>3, <1>5, <1>6, <1>7 DEF Session

-----------------------------------------------------------------------------
(* The steps of a thread. *)

\* In step, a port is on its way only while the thread waits in accept().
PortOffered ==
  TypeOK /\ up => \A c \in Clients : InStepAt(c) /\ PortSent(c) => spc[c] = "accept"

\* PortOffered, as a lemma: its primed form is used below.
LEMMA PortAtAccept == PortOffered
<1> SUFFICES ASSUME TypeOK, up, NEW c \in Clients, InStepAt(c), PortSent(c)
             PROVE  spc[c] = "accept"
  BY DEF PortOffered
<1>1. Lockstep(c) /\ ClientFacts(c) /\ pc[c] \in ClientPCs
  BY DEF InStepAt, ClientShape, TypeOK, ClientTypeOK
<1>2. s2c[c] \notin {<<>>, <<"ACK">>, <<"BAD">>, <<"SIZE">>, <<"ACK", "BAD">>, <<"ACK", "SIZE">>,
                     <<"ACK", "ACK", "SIZE">>}
  BY NoPortIn DEF PortSent
<1>3. CASE pc[c] = "ack" BY <1>1, <1>2, <1>3 DEF Lockstep, At, Offered
<1>4. CASE pc[c] \in {"verdict", "size", "sfile", "tfile", "ack2", "port", "recvdata", "senddata"}
  BY <1>1, <1>2, <1>4 DEF Lockstep, At, Offered
<1>5. CASE pc[c] \in {"prompt", "quit", "dead"} BY <1>1, <1>2, <1>5 DEF Lockstep, ClientFacts, Ended
<1> QED BY <1>1, <1>3, <1>4, <1>5 DEF ClientPCs

\* A thread in step sends a port only with a descriptor to accept from.
LEMMA ServerKept ==
  ASSUME TypeOK, TypeOK', Facts, NEW c \in Clients, Kept(c), ServerStep(c), UNCHANGED clientVars,
         dfd'[c] = IF spc'[c] = "accept" THEN "good" ELSE dfd[c]
  PROVE  Kept(c)'
<1>1. InStepAt(c)' BY ServerStepInStep DEF Kept
<1>2. ASSUME dfd'[c] # "good" PROVE pc'[c] \notin {"recvdata", "senddata"} /\ ~PortSent(c)'
  <2>1. dfd[c] # "good" /\ spc'[c] # "accept" /\ pc' = pc BY <1>2 DEF clientVars
  <2>2. CASE up'
    <3>1. PortOffered' BY PortAtAccept, PTL
    <3>2. InStepAt(c)' /\ PortSent(c)' => spc'[c] = "accept" BY <2>2, <3>1 DEF PortOffered
    <3>3. pc[c] \notin {"recvdata", "senddata"} BY <2>1 DEF Kept
    <3> QED BY <1>1, <2>1, <3>2, <3>3
  <2>3. CASE ~up' BY <2>1, <2>3, ExitSilent DEF Kept, PortSent
  <2> QED BY <2>2, <2>3
<1> QED BY <1>1, <1>2 DEF Kept

\* An unserved session whose thread is in recv() with something to read is in step.
LEMMA Settle ==
  ASSUME TypeOK, up, NEW c \in Clients, Lost(c), spc[c] = "recv", c2s[c] # <<>> \/ ctl[c] # "open"
  PROVE  Kept(c)
<1>1. Adrift(c) /\ ClientFacts(c) /\ ThreadFacts(c) /\ dcli[c] = "shut" /\ pc[c] \in ClientPCs
  BY DEF Lost, TypeOK, ClientTypeOK
<1>2. \/ pc[c] = "ack" /\ c2s[c] = <<cmd[c]>> /\ s2c[c] = <<>>
      \/ pc[c] = "quit" /\ c2s[c] = <<>> /\ s2c[c] = <<>> /\ ctl[c] \in {"open", "fin"}
      \/ pc[c] = "dead" /\ s2c[c] = <<>>
  BY <1>1 DEF Adrift, Serving, ClientFacts, Ended, ClientPCs
<1>3. ClientShape(c) BY <1>1, <1>2 DEF ClientShape
<1>4. ThreadShape(c) BY <1>1 DEF ThreadShape, Adrift
<1>5. Lockstep(c) BY <1>2 DEF Lockstep
<1>6. ~PortSent(c) BY <1>2, NoPortIn DEF PortSent
<1> QED BY <1>2, <1>3, <1>4, <1>5, <1>6 DEF Kept, InStepAt

\* A thread that does not touch the control connection stays adrift.
LEMMA LostQuiet ==
  ASSUME NEW c \in Clients, Lost(c), up, UNCHANGED clientVars, dfd'[c] = dfd[c],
         UNCHANGED <<ctl[c], c2s[c], s2c[c], dcli[c], req[c]>>, dsrv'[c] = "shut",
         spc'[c] \in {"serve", "ls", "tx", "rx", "recv"}, ThreadFacts(c)'
  PROVE  Lost(c)'
<1>1. ClientFacts(c)' BY DEF Lost, ClientFacts, HasFile, Ended, clientVars
<1>2. Adrift(c)' BY DEF Lost, Adrift, Serving, Acked, Offer, clientVars
<1> QED BY <1>1, <1>2 DEF Lost, PortSent, clientVars

\* Up to its next recv(), a thread that serves descriptor -1 goes on as with another.
LEMMA LostServer ==
  ASSUME TypeOK, TypeOK', Facts, NEW c \in Clients, Lost(c), up, spc[c] # "recv",
         ServerStep(c), UNCHANGED clientVars, Guarded(c),
         dfd'[c] = IF spc'[c] = "accept" THEN "good" ELSE dfd[c]
  PROVE  Lost(c)' /\ s2c' = s2c
<1>1. /\ spc[c] \in {"serve", "ls", "tx", "rx"} /\ dsrv[c] = "shut" /\ dfd[c] # "good" /\ ThreadFacts(c)
  BY DEF Lost, Adrift
<1>2. /\ ~SrvRecv(c) /\ ~SrvHangup(c) /\ ~SrvAck(c) /\ ~SrvGet(c) /\ ~SrvCode(c) /\ ~SrvCodeReply(c)
      /\ ~SrvListen(c) /\ ~SrvAccept(c)
  BY <1>1 DEF SrvRecv, SrvHangup, SrvAck, SrvGet, SrvCode, SrvCodeReply, SrvListen, SrvAccept
<1>3. ~SrvRx(c)
  <2>1. SrvRx(c) => spc[c] = "rx" /\ off'[c] = off[c] + 1 /\ off[c] \in Nat
    BY DEF SrvRx, TypeOK, ServerTypeOK
  <2> QED BY <1>1, <2>1 DEF Guarded, Spins
<1>4. ~SrvRxEnd(c)
  <2>1. SrvRxEnd(c) => spc[c] = "rx" /\ spc'[c] = "recv"
    BY DEF SrvRxEnd, CloseData, Step, TypeOK, ServerTypeOK
  <2> QED BY <1>1, <2>1 DEF Guarded, Spins
<1>5. ASSUME UNCHANGED <<ctl, c2s, s2c, dcli, req>>, dsrv'[c] = "shut",
             spc'[c] \in {"serve", "ls", "tx", "rx", "recv"}, ThreadFacts(c)'
      PROVE  Lost(c)' /\ s2c' = s2c
  BY <1>5, LostQuiet
<1> USE DEF TypeOK, NetTypeOK, ServerTypeOK
<1>6. CASE Fork(c)
  <2>1. /\ UNCHANGED <<ctl, c2s, s2c, dcli, req, dsrv>> /\ spc'[c] = "ls" /\ req[c].code = "LIST"
    BY <1>6 DEF Fork, Step
  <2> QED BY <1>1, <1>5, <2>1 DEF ThreadFacts, Gettable
<1>7. CASE ChildWrite(c) \/ SrvTx(c)
  <2>1. UNCHANGED <<ctl, c2s, s2c, dcli, req, dsrv, spc, cwd, fs>> BY <1>7 DEF ChildWrite, SrvTx
  <2> QED BY <1>1, <1>5, <2>1 DEF ThreadFacts, Gettable
<1>8. CASE ChildEnd(c) \/ SrvPwd(c) \/ SrvCd(c) \/ SrvTxEnd(c) \/ SrvRefusePut(c)
  <2>1. UNCHANGED <<ctl, c2s, s2c, dcli, req>> /\ CloseData(c)
    BY <1>8 DEF ChildEnd, SrvPwd, SrvCd, SrvTxEnd, SrvRefusePut
  <2>2. spc'[c] = "recv" /\ dsrv'[c] = "shut" BY <2>1 DEF CloseData, Step
  <2> QED BY <1>5, <2>1, <2>2 DEF ThreadFacts, Gettable
<1>9. CASE SrvOpenGet(c)
  <2>1. UNCHANGED <<ctl, c2s, s2c, dcli, req, dsrv, cwd, fs>> /\ spc'[c] = "tx"
        /\ spc[c] = "serve" /\ req[c].code = "GET"
    BY <1>9 DEF SrvOpenGet, Step, netVars
  <2> QED BY <1>1, <1>5, <2>1 DEF ThreadFacts, Gettable
<1>10. CASE SrvOpenPut(c)
  <2>1. /\ UNCHANGED <<ctl, c2s, s2c, dcli, req, dsrv, cwd>> /\ spc'[c] = "rx" /\ req[c].code = "PUT"
        /\ fs' = [fs EXCEPT ![cwd[c]][req[c].name] = <<>>]
    BY <1>10 DEF SrvOpenPut, Step, netVars
  <2>2. fs'[cwd[c]][req[c].name] # NoFile
    <3>1. <<>> \in Seq(Chunk) OBVIOUS
    <3>2. req[c].name \in Names /\ cwd[c] \in Tree BY <2>1, RemoteFileType
    <3> QED BY <2>1, <3>1, <3>2, NotNoFile
  <2> QED BY <1>5, <1>1, <2>1, <2>2 DEF ThreadFacts, Gettable
<1> QED BY <1>2, <1>3, <1>4, <1>6, <1>7, <1>8, <1>9, <1>10 DEF ServerStep

\* When the server has died, an ls child still writes and ends.
LEMMA LostOrphan ==
  ASSUME TypeOK, NEW c \in Clients, Lost(c), ~up, ServerStep(c), UNCHANGED clientVars,
         dfd'[c] = IF spc'[c] = "accept" THEN "good" ELSE dfd[c]
  PROVE  Lost(c)' /\ s2c' = s2c
<1> USE DEF TypeOK, NetTypeOK, ServerTypeOK
<1>1. ChildWrite(c) \/ ChildEnd(c)
  BY DEF ServerStep, SrvRecv, SrvHangup, SrvAck, SrvGet, SrvCode, SrvCodeReply, SrvListen, SrvAccept,
       Fork, SrvPwd, SrvCd, SrvOpenGet, SrvTx, SrvTxEnd, SrvOpenPut, SrvRefusePut, SrvRx, SrvRxEnd
<1>2. /\ UNCHANGED <<up, ctl, s2c, dcli, req, cwd, fs>>
      /\ spc[c] = "ls" /\ (spc'[c] = spc[c] \/ spc'[c] = "done")
  BY <1>1 DEF ChildWrite, ChildEnd, Step
<1>3. dfd'[c] = dfd[c] BY <1>2
<1>4. ClientFacts(c)' BY <1>2 DEF Lost, ClientFacts, HasFile, Ended, clientVars
<1>5. ThreadFacts(c)' BY <1>2 DEF Lost, ThreadFacts, Gettable
<1> QED BY <1>2, <1>3, <1>4, <1>5 DEF Lost, PortSent, clientVars

\* A session in step has the replies on its wire that FtpProofs says.
WireKnown == TypeOK /\ up => \A c \in Clients : InStepAt(c) => Wire(c)

\* WireKnown, as a lemma: its primed form is used below.
LEMMA KnownWire == WireKnown
BY WireInStep DEF WireKnown

\* Whatever a thread does keeps what is known of its session.
LEMMA ServerSession ==
  ASSUME TypeOK, FaultTypeOK, TypeOK', Facts, NEW c \in Clients, Session(c), ServerStep(c),
         UNCHANGED clientVars, Guarded(c)
  PROVE  Session(c)'
<1>1. dfd'[c] = (IF spc'[c] = "accept" THEN "good" ELSE dfd[c]) /\ reaping' = reaping BY GuardedFacts
<1>2. Wire(c) /\ Orderly(c) BY DEF Session
<1>3. ASSUME Kept(c) PROVE Kept(c)' /\ Wire(c)'
  <2>1. Kept(c)' BY <1>1, <1>3, ServerKept
  <2>2. CASE up'
    <3>1. WireKnown' BY KnownWire, PTL
    <3> QED BY <2>1, <2>2, <3>1 DEF WireKnown, Kept
  <2>3. CASE ~up' BY <1>2, <2>1, <2>3, ExitWire
  <2> QED BY <2>1, <2>2, <2>3
<1>4. ASSUME Lost(c) PROVE (Kept(c) \/ Lost(c))' /\ Wire(c)'
  <2>1. CASE up /\ spc[c] = "recv"
    <3>1. SrvRecv(c) \/ SrvHangup(c)
      BY <2>1 DEF ServerStep, SrvAck, SrvGet, SrvCode, SrvCodeReply, SrvListen, SrvAccept, Fork, ChildWrite,
           ChildEnd, SrvPwd, SrvCd, SrvOpenGet, SrvTx, SrvTxEnd, SrvOpenPut, SrvRefusePut, SrvRx, SrvRxEnd
    <3>2. c2s[c] # <<>> \/ ctl[c] # "open" BY <3>1 DEF SrvRecv, SrvHangup
    <3> QED BY <1>3, <1>4, <2>1, <3>2, Settle
  <2>2. CASE ~(up /\ spc[c] = "recv")
    <3>1. Lost(c)' /\ s2c' = s2c
      <4>1. CASE up BY <1>1, <1>4, <2>2, <4>1, LostServer
      <4>2. CASE ~up BY <1>1, <1>4, <4>2, LostOrphan
      <4> QED BY <4>1, <4>2
    <3> QED BY <1>2, <3>1 DEF Wire, clientVars
  <2> QED BY <2>1, <2>2
<1>5. Orderly(c)' BY <1>2, ServerOrderly
<1>6. reaping[c] => spc'[c] = "serve" /\ req'[c].code = "LIST"
  <2>1. SUFFICES ASSUME reaping[c] PROVE spc'[c] = "serve" /\ req'[c].code = "LIST" OBVIOUS
  <2>2. spc[c] = "serve" /\ req[c].code = "LIST" /\ spc'[c] = spc[c] BY <2>1 DEF Session, Guarded
  <2>3. req' = req
    BY <2>2 DEF ServerStep, SendOrExit, ErrExit, serverVars, netVars, SrvRecv, SrvHangup, SrvAck, SrvGet,
         SrvCode, SrvCodeReply, SrvListen, SrvAccept, Fork, ChildWrite, ChildEnd, SrvPwd, SrvCd,
         SrvOpenGet, SrvTx, SrvTxEnd, SrvOpenPut, SrvRefusePut, SrvRx, SrvRxEnd
  <2> QED BY <2>2, <2>3
<1>7. /\ spc'[c] = "accept" => dfd'[c] = "good"
      /\ c \notin Unlucky => dfd'[c] = "good" /\ ~reaping'[c]
  BY <1>1 DEF Session
<1> QED BY <1>1, <1>3, <1>4, <1>5, <1>6, <1>7 DEF Session

\* The reset of a connection keeps what is known of its session.
LEMMA ResetSession ==
  ASSUME TypeOK, FaultTypeOK, NEW c \in Clients, Session(c), NetReset(c),
         UNCHANGED <<clientVars, serverVars>>, Guarded(c)
  PROVE  Session(c)'
<1>1. /\ ctl[c] = "lost" /\ ctl'[c] = "rst" /\ UNCHANGED <<up, c2s, s2c, dcli, dsrv>>
      /\ UNCHANGED <<pc, cmd, lfs, spc, req, cwd, fs>>
  BY DEF NetReset, TypeOK, NetTypeOK, clientVars, serverVars
<1>2. dfd'[c] = dfd[c] /\ reaping' = reaping BY <1>1, GuardedFacts DEF Session
<1>3. Kept(c) => Kept(c)' BY <1>1, <1>2, ResetInStep DEF Kept, PortSent
<1>4. Lost(c) => Lost(c)'
  <2>1. SUFFICES ASSUME Lost(c) PROVE Lost(c)' OBVIOUS
  <2>2. ClientFacts(c)' BY <1>1, <2>1 DEF Lost, ClientFacts, HasFile, Ended
  <2>3. ThreadFacts(c)' BY <1>1, <2>1 DEF Lost, ThreadFacts, Gettable
  <2>4. up => pc[c] = "dead" /\ spc[c] \in {"serve", "ls", "tx", "rx", "recv"} /\ dsrv[c] = "shut"
    BY <1>1, <2>1 DEF Lost, ClientFacts, Ended, Adrift
  <2>5. up' => Adrift(c)' BY <1>1, <2>4 DEF Adrift
  <2> QED BY <1>1, <1>2, <2>1, <2>2, <2>3, <2>5 DEF Lost, PortSent
<1>5. Wire(c)' BY <1>1 DEF Session, Wire
<1>6. Orderly(c)' BY ResetOrderly DEF Session
<1> QED BY <1>1, <1>2, <1>3, <1>4, <1>5, <1>6 DEF Session

-----------------------------------------------------------------------------
(* The calls that fail. *)

\* Only a thread in step meets the failure of socket() or accept(), and its client
\* is then still before, or past, the data connection.
LEMMA FailedCall ==
  ASSUME TypeOK, FaultTypeOK, NEW c \in Clients, Session(c), up, NEW call \in {"socket", "accept"},
         spc[c] = IF call = "socket" THEN "listen" ELSE "accept",
         BadDescriptor(c, call), UNCHANGED <<ctl, s2c>>, c \in Unlucky
  PROVE  Session(c)'
<1>1. /\ spc'[c] = "serve" /\ dfd'[c] = call /\ dsrv'[c] = "shut" /\ dcli'[c] = "shut"
      /\ UNCHANGED <<up, ctl, c2s, s2c, req, cwd, fs, pc, cmd, lfs, reaping>>
  BY DEF BadDescriptor, Step, clientVars, TypeOK, NetTypeOK, ServerTypeOK, FaultTypeOK
<1>2. Kept(c) /\ ~reaping[c] /\ Wire(c) /\ Orderly(c) BY DEF Session, Lost, Adrift
<1>3. Lockstep(c) /\ ClientFacts(c) /\ ThreadFacts(c) /\ pc[c] \in ClientPCs
  BY <1>2 DEF Kept, InStepAt, ClientShape, ThreadShape, TypeOK, ClientTypeOK
<1>4. ClientFacts(c)' BY <1>1, <1>3 DEF ClientFacts, HasFile, Ended
<1>5. ThreadFacts(c)' BY <1>1, <1>3 DEF ThreadFacts, Gettable
<1>6. Adrift(c)' /\ (call = "socket" => pc[c] \notin {"recvdata", "senddata"} /\ ~PortSent(c))
  <2>1. CASE pc[c] = "dead"
    <3>1. s2c[c] = <<>> BY <1>3, <2>1 DEF ClientFacts, Ended
    <3> QED BY <1>1, <2>1, <3>1, NoPortIn DEF Adrift, PortSent
  <2>2. CASE pc[c] # "dead" /\ call = "socket"
    <3>1. \/ /\ pc[c] = "ack" /\ At(c, "listen", <<"ACK">>)
             /\ cmd[c].code \in {"LIST", "CWD", "CD"}
          \/ pc[c] = "ack2" /\ At(c, "listen", <<"ACK">>)
          \/ pc[c] = "port" /\ At(c, "listen", <<>>)
      BY <1>2, <2>2, Replying DEF Kept
    <3>2. Adrift(c)' BY <1>1, <2>2, <3>1 DEF Adrift, At, Serving, Acked, Offer
    <3>3. ~PortSent(c) BY <3>1, NoPortIn DEF At, PortSent
    <3> QED BY <3>1, <3>2, <3>3
  <2>3. CASE pc[c] # "dead" /\ call = "accept"
    <3>1. \/ pc[c] \in {"prompt", "quit"} /\ c2s[c] = <<>> /\ s2c[c] = <<>> /\ ctl[c] \in {"open", "fin"}
          \/ pc[c] = "ack" /\ c2s[c] = <<cmd[c]>> /\ s2c[c] = <<>>
          \/ pc[c] = "ack" /\ cmd[c].code \in {"LIST", "CWD", "CD"} /\ At(c, "accept", <<"ACK", "PORT">>)
          \/ pc[c] = "ack2" /\ At(c, "accept", <<"ACK", "PORT">>)
          \/ pc[c] = "port" /\ At(c, "accept", <<"PORT">>)
          \/ pc[c] \in {"recvdata", "senddata"} /\ At(c, "accept", <<>>)
      BY <1>3, <2>3 DEF Lockstep, At, Offered, ClientPCs
    <3> QED BY <1>1, <2>3, <3>1 DEF Adrift, At, Serving, Acked, Offer
  <2> QED BY <2>1, <2>2, <2>3
<1>7. Lost(c)' BY <1>1, <1>4, <1>5, <1>6 DEF Lost, PortSent
<1>8. Wire(c)' /\ Orderly(c)' BY <1>1, <1>2 DEF Wire, Orderly
<1> QED BY <1>1, <1>2, <1>7, <1>8 DEF Session

\* A thread that finds its child gone, or never had one, closes its data descriptor.
LEMMA ReapSession ==
  ASSUME TypeOK, NEW c \in Clients, Session(c), up, UNCHANGED <<up, ctl, c2s, s2c, dcli, clientVars>>,
         UNCHANGED <<req, cwd, fs, dfd>>, spc[c] \in {"serve", "ls"}, spc'[c] = "recv", dsrv'[c] = "shut",
         ~reaping'[c]
  PROVE  Session(c)'
<1>1. Kept(c) => Kept(c)'
  <2>1. Kept(c) => InStepAt(c)' BY DataStep DEF Kept
  <2> QED BY <2>1 DEF Kept, PortSent, clientVars
<1>2. Lost(c) => Lost(c)'
  <2>1. ThreadFacts(c)' BY DEF ThreadFacts, Gettable
  <2> QED BY <2>1, LostQuiet
<1>3. Wire(c)' /\ Orderly(c)' BY DEF Session, Wire, Orderly, clientVars
<1> QED BY <1>1, <1>2, <1>3 DEF Session

\* A client whose connection is refused, or waits for nobody, is no better off: its
\* thread still serves -1.
LEMMA UnservedConnectSession ==
  ASSUME TypeOK, FaultTypeOK, NEW c \in Clients, Session(c), UnservedConnect(c)
  PROVE  Session(c)' /\ TypeOK'
<1>1. /\ dfd[c] = "accept" /\ pc[c] = "port" /\ s2c[c] # <<>>
      /\ UNCHANGED <<up, c2s, dcli, dsrv, cmd, lfs, serverVars, dfd, reaping>>
      /\ s2c'[c] = Tail(s2c[c])
      /\ \/ pc'[c] = "dead" /\ ctl'[c] = "fin"
         \/ pc'[c] = (IF cmd[c].code = "PUT" THEN "senddata" ELSE "recvdata") /\ ctl' = ctl
  BY DEF UnservedConnect, Unserved, TakeToken, Goto, TypeOK, NetTypeOK, ClientTypeOK
<1>2. s2c[c] = <<"PORT">> BY <1>1 DEF Session, Wire
<1>3. s2c'[c] = <<>> BY <1>1, <1>2, TailOfReplies
<1>4. Lost(c) /\ Orderly(c) BY <1>1, <1>2 DEF Session, Kept, PortSent
<1>5. ClientFacts(c)' BY <1>1, <1>3, <1>4 DEF Lost, ClientFacts, HasFile, Ended
<1>6. ThreadFacts(c)' BY <1>1, <1>4 DEF Lost, ThreadFacts, Gettable, serverVars
<1>7. up => Adrift(c) /\ Serving(c) BY <1>1, <1>4 DEF Lost, Adrift
<1>8. up' => Adrift(c)' BY <1>1, <1>3, <1>7 DEF Adrift, Serving, serverVars
<1>9. Lost(c)' BY <1>1, <1>4, <1>5, <1>6, <1>8 DEF Lost
<1>10. Wire(c)' BY <1>1, <1>3 DEF Wire
<1>11. Orderly(c)' BY <1>1, <1>7 DEF Orderly, Adrift, Serving, serverVars
<1>12. TypeOK'
  <2>1. /\ s2c' \in [Clients -> Seq(Tokens)]
        /\ ctl' \in [Clients -> CtlStates] /\ sent' \in [Clients -> Nat]
    <3>1. TakeToken(c) BY DEF UnservedConnect
    <3>2. s2c' \in [Clients -> Seq(Tokens)] BY <1>1, <3>1, TakeTokenType DEF TypeOK
    <3>3. ctl' = [ctl EXCEPT ![c] = "fin"] \/ ctl' = ctl BY DEF UnservedConnect
    <3>4. sent' = [sent EXCEPT ![c] = 0] \/ sent' = sent BY DEF UnservedConnect
    <3>5. ctl' \in [Clients -> CtlStates] BY <3>3 DEF TypeOK, NetTypeOK, CtlStates
    <3>6. sent' \in [Clients -> Nat] BY <3>4 DEF TypeOK, ClientTypeOK
    <3> QED BY <3>2, <3>5, <3>6
  <2>2. pc' \in [Clients -> ClientPCs]
    BY DEF UnservedConnect, Goto, TypeOK, ClientTypeOK, ClientPCs
  <2>3. UNCHANGED <<up, c2s, announced, dcli, dsrv, holders, dq, cmd, lfs, serverVars>>
    BY DEF UnservedConnect
  <2> QED BY <2>1, <2>2, <2>3 DEF TypeOK, NetTypeOK, ClientTypeOK, ServerTypeOK, serverVars
<1> QED BY <1>1, <1>9, <1>10, <1>11, <1>12 DEF Session, serverVars

\* The reset of a data connection that nobody took leaves the session a session: the
\* client is at its prompt again, or has died.
LEMMA UnservedResetSession ==
  ASSUME TypeOK, FaultTypeOK, NEW c \in Clients, Session(c), UnservedReset(c)
  PROVE  Session(c)' /\ TypeOK'
<1>1. /\ dfd[c] = "accept" /\ pc[c] = "recvdata"
      /\ UNCHANGED <<serverVars, dfd, reaping>>
  BY DEF UnservedReset, Unserved
<1>2. Lost(c) /\ Wire(c) /\ Orderly(c) /\ s2c[c] = <<>> BY <1>1 DEF Session, Kept, Wire
<1>3. up => spc[c] \in {"serve", "ls", "tx", "rx", "recv"} /\ dsrv[c] = "shut" /\ c2s[c] = <<>>
  BY <1>1, <1>2 DEF Lost, Adrift, Serving
<1>4. CASE EndProcess(c, "dead")
  <2>1. /\ pc'[c] = "dead" /\ ctl'[c] = "fin" /\ s2c'[c] = <<>> /\ c2s' = c2s /\ up' = up
    BY <1>2, <1>4 DEF EndProcess, Goto, TypeOK, NetTypeOK, ClientTypeOK
  <2>2. Lost(c)' BY <1>1, <1>2, <1>4, LostEnd
  <2>3. Wire(c)' BY <2>1 DEF Wire
  <2>4. Orderly(c)' BY <1>1, <1>3, <2>1 DEF Orderly, serverVars
  <2>5. TypeOK' BY <1>1, <1>4, EndProcessType DEF TypeOK, ServerTypeOK, serverVars
  <2> QED BY <1>1, <2>2, <2>3, <2>4, <2>5 DEF Session, serverVars
<1>5. CASE Goto(c, "prompt") /\ UNCHANGED <<netVars, cmd, lfs, sent>>
  <2>1. /\ pc'[c] = "prompt" /\ UNCHANGED <<netVars, cmd, lfs, sent>>
    BY <1>5 DEF Goto, TypeOK, ClientTypeOK
  <2>2. ClientFacts(c)' BY <1>1, <1>2, <2>1 DEF Lost, ClientFacts, HasFile, Ended, netVars
  <2>3. ThreadFacts(c)' BY <1>1, <1>2, <2>1 DEF Lost, ThreadFacts, Gettable, serverVars
  <2>4. ctl[c] = "open" BY <1>1, <1>2 DEF Lost, ClientFacts, Ended
  <2>5. up' => Adrift(c)' BY <1>1, <1>2, <1>3, <2>1, <2>4 DEF Adrift, netVars, serverVars
  <2>6. Lost(c)' BY <1>1, <1>2, <2>1, <2>2, <2>3, <2>5 DEF Lost, netVars
  <2>7. Wire(c)' BY <1>2, <2>1 DEF Wire, netVars
  <2>8. Orderly(c)' BY <2>1 DEF Orderly
  <2>9. TypeOK'
    <3>1. pc' \in [Clients -> ClientPCs] BY <1>5 DEF Goto, TypeOK, ClientTypeOK, ClientPCs
    <3> QED BY <1>1, <2>1, <3>1 DEF TypeOK, NetTypeOK, ClientTypeOK, ServerTypeOK, netVars, serverVars
  <2> QED BY <1>1, <2>6, <2>7, <2>8, <2>9 DEF Session, serverVars
<1> QED BY <1>4, <1>5 DEF UnservedReset

\* A client that puts a directory ends in order, or floods its data connection.
LEMMA DirectorySession ==
  ASSUME TypeOK, FaultTypeOK, NEW c \in Clients, Session(c), EndProcess(c, "dead"), pc[c] = "senddata",
         UNCHANGED <<serverVars, dfd, reaping>>
  PROVE  Session(c)'
<1>1. /\ pc'[c] = "dead" /\ s2c'[c] = <<>> /\ c2s' = c2s /\ up' = up
      /\ ctl'[c] = IF s2c[c] = <<>> THEN "fin" ELSE "rst"
  BY DEF EndProcess, Goto, TypeOK, NetTypeOK, ClientTypeOK
<1>2. ~PortSent(c)' BY <1>1, NoPortIn DEF PortSent
<1>3. Kept(c) => Kept(c)'
  <2>1. Kept(c) => InStepAt(c)' BY EndInStep DEF Kept
  <2> QED BY <1>1, <1>2, <2>1 DEF Kept
<1>4. Lost(c) => Lost(c)' BY LostEnd
<1>5. Wire(c)' BY <1>1 DEF Wire
<1>6. Orderly(c)'
  <2>1. s2c[c] = <<>> BY DEF Session, Wire
  <2>2. up => c2s[c] = <<>> /\ spc[c] \in {"accept", "serve", "ls", "tx", "rx", "recv"}
    <3>1. up /\ Kept(c) => c2s[c] = <<>> /\ spc[c] \in {"accept", "serve", "ls", "tx", "rx", "recv"}
      BY DEF Kept, InStepAt, Lockstep, At
    <3>2. up /\ Lost(c) => c2s[c] = <<>> /\ spc[c] \in {"serve", "ls", "tx", "rx", "recv"}
      BY DEF Lost, Adrift, Serving
    <3> QED BY <3>1, <3>2 DEF Session
  <2> QED BY <1>1, <2>1, <2>2 DEF Orderly, serverVars
<1> QED BY <1>3, <1>4, <1>5, <1>6 DEF Session, serverVars

-----------------------------------------------------------------------------
(* The inductive invariant. *)

\* The invariant holds before any call has failed.
LEMMA InitFaultInv == FaultInit => FaultInv
<1> SUFFICES ASSUME FaultInit PROVE FaultInv OBVIOUS
<1>1. Inv /\ s2c = [c \in Clients |-> <<>>] /\ spc = [c \in Clients |-> "recv"]
  BY InitInv DEF FaultInit, Init, InitNet, InitServer
<1>2. FaultTypeOK /\ \A c \in Clients : dfd[c] = "good" /\ ~reaping[c] BY DEF FaultInit, FaultTypeOK
<1>3. TypeOK /\ ServerExitNeedsACrash BY <1>1 DEF Inv
<1>4. ASSUME NEW c \in Clients PROVE Session(c)
  <2>1. InStepAt(c) /\ Orderly(c) BY <1>1 DEF Inv, InStep, InStepAt
  <2>2. Wire(c)
    <3>1. up BY DEF FaultInit, Init, InitNet
    <3> QED BY <1>3, <2>1, <3>1, WireInStep
  <2> QED BY <1>1, <1>2, <2>1, <2>2 DEF Session, Kept
<1> QED BY <1>2, <1>3, <1>4 DEF FaultInv

\* What a step on c's side needs to keep the invariant of all sessions.
LEMMA OneSession ==
  ASSUME FaultInv, NEW c \in Clients, TypeOK', FaultTypeOK', Session(c)', up' = up,
         \A j \in Clients : pc[j] = "dead" => pc'[j] = "dead",
         \A j \in Clients \ {c} :
           /\ Same(j) /\ dfd'[j] = dfd[j] /\ reaping'[j] = reaping[j]
           /\ Gettable(j) => fs'[cwd[j]][req[j].name] # NoFile
  PROVE  FaultInv'
<1>1. ASSUME NEW j \in Clients PROVE Session(j)'
  <2>1. CASE j = c BY <2>1
  <2>2. CASE j # c BY <2>2, SessionFrame DEF FaultInv
  <2> QED BY <2>1, <2>2
<1>2. ServerExitNeedsACrash' BY MortalAssumption DEF FaultInv, ServerExitNeedsACrash
<1> QED BY <1>1, <1>2 DEF FaultInv

\* The files that threads have found are there as long as the files do not change.
LEMMA FilesStay ==
  ASSUME Facts, fs' = fs, NEW j \in Clients
  PROVE  Gettable(j) => fs'[cwd[j]][req[j].name] # NoFile
BY DEF Facts, ThreadFacts

\* What a client and its user do keeps the invariant.
LEMMA ByClientInv ==
  ASSUME FaultInv, NEW c \in Clients, ByClient(c), UNCHANGED serverVars, Guarded(c)
  PROVE  FaultInv'
<1>1. TypeOK /\ FaultTypeOK /\ Facts /\ Session(c) BY SessionFacts DEF FaultInv
<1>2. Session(c)' BY <1>1, ByClientSession
<1>3. TypeOK' BY <1>1, ByClientType
<1>4. FaultTypeOK' /\ reaping' = reaping /\ \A j \in Clients \ {c} : dfd'[j] = dfd[j]
  BY <1>1, GuardedFacts
<1>5. up' = up /\ \A j \in Clients : pc[j] = "dead" => pc'[j] = "dead" BY <1>1, ClientSpares
<1>6. ASSUME NEW j \in Clients \ {c} PROVE Same(j) BY <1>1, ClientOthers DEF ByClient
<1>7. fs' = fs BY DEF serverVars
<1> QED BY <1>1, <1>2, <1>3, <1>4, <1>5, <1>6, <1>7, FilesStay, OneSession

\* What a thread does, with no call failing, keeps the invariant.
LEMMA ServerInv ==
  ASSUME FaultInv, NEW c \in Clients, ServerStep(c), UNCHANGED clientVars, Guarded(c)
  PROVE  FaultInv'
<1>1. TypeOK /\ FaultTypeOK /\ Facts /\ Session(c) BY SessionFacts DEF FaultInv
<1>2. TypeOK' BY <1>1, ServerStepType DEF TypeOK, ClientTypeOK, clientVars
<1>3. FaultTypeOK' /\ reaping' = reaping /\ \A j \in Clients \ {c} : dfd'[j] = dfd[j]
  BY <1>1, GuardedFacts
<1>4. ASSUME NEW j \in Clients PROVE Session(j)'
  <2>1. CASE j = c BY <1>1, <1>2, <2>1, ServerSession
  <2>2. CASE j # c
    <3>1. /\ Same(j) /\ (up' => up)
          /\ Gettable(j) => fs'[cwd[j]][req[j].name] # NoFile
      BY <1>1, <2>2, ServerOthers
    <3> QED BY <1>3, <2>2, <3>1, SessionFrame DEF FaultInv
  <2> QED BY <2>1, <2>2
<1>5. ServerExitNeedsACrash'
  <2>1. up /\ ~up' => pc[c] = "dead" /\ c \in Mortal
    <3>1. ClientFacts(c) /\ Orderly(c) BY <1>1 DEF Facts, Session
    <3>2. up /\ pc[c] = "quit" => ctl[c] # "rst"
      BY <1>1 DEF Session, Kept, Lost, InStepAt, Lockstep, Adrift
    <3> QED BY <3>1, <3>2, ExitNeedsCrash
  <2>2. pc' = pc BY DEF clientVars
  <2>3. up \in BOOLEAN /\ up' \in BOOLEAN BY <1>1, <1>2 DEF TypeOK, NetTypeOK
  <2> QED BY <2>1, <2>2, <2>3 DEF FaultInv, ServerExitNeedsACrash
<1> QED BY <1>2, <1>3, <1>4, <1>5 DEF FaultInv

\* A reset on a control connection keeps the invariant.
LEMMA ResetInv ==
  ASSUME FaultInv, NEW c \in Clients, NetReset(c), UNCHANGED <<clientVars, serverVars>>, Guarded(c)
  PROVE  FaultInv'
<1>1. TypeOK /\ FaultTypeOK /\ Facts /\ Session(c) BY SessionFacts DEF FaultInv
<1>2. Session(c)' BY <1>1, ResetSession
<1>3. TypeOK' /\ up' = up /\ fs' = fs /\ pc' = pc /\ \A j \in Clients \ {c} : Same(j)
  BY <1>1, ResetOthers
<1>4. FaultTypeOK' /\ reaping' = reaping /\ \A j \in Clients \ {c} : dfd'[j] = dfd[j]
  BY <1>1, GuardedFacts
<1> QED BY <1>1, <1>2, <1>3, <1>4, FilesStay, OneSession

\* A socket() or an accept() that fails keeps the invariant.
LEMMA FailInv ==
  ASSUME FaultInv, NEW c \in Unlucky, NoSocket(c) \/ AcceptFails(c)
  PROVE  FaultInv'
<1>1. TypeOK /\ FaultTypeOK /\ Facts /\ Session(c) /\ c \in Clients
  BY SessionFacts, UnluckyAssumption DEF FaultInv
<1>2. PICK call \in {"socket", "accept"} :
        /\ spc[c] = IF call = "socket" THEN "listen" ELSE "accept"
        /\ BadDescriptor(c, call) /\ UNCHANGED <<ctl, s2c>> /\ up
  BY DEF NoSocket, AcceptFails
<1>3. Session(c)' BY <1>1, <1>2, FailedCall
<1>4. TypeOK'
  <2>1. /\ UNCHANGED <<up, ctl, c2s, s2c, announced, req, cwd, fs, touched, clientVars>>
        /\ dsrv' = [dsrv EXCEPT ![c] = "shut"] /\ dcli' = [dcli EXCEPT ![c] = "shut"]
        /\ off' = [off EXCEPT ![c] = 0] /\ Step(c, "serve")
    BY <1>2 DEF BadDescriptor
  <2>2. holders' \in [Clients -> SUBSET Clients] /\ dq' \in [Clients -> Seq(Chunk)]
    <3>1. holders' = [holders EXCEPT ![c] = {}] \/ holders' = holders BY DEF NoSocket, AcceptFails
    <3>2. dq' = [dq EXCEPT ![c] = <<>>] \/ dq' = dq BY DEF NoSocket, AcceptFails
    <3>3. <<>> \in Seq(Chunk) OBVIOUS
    <3> QED BY <1>1, <3>1, <3>2, <3>3 DEF TypeOK, NetTypeOK
  <2>3. NetTypeOK' BY <1>1, <2>1, <2>2 DEF TypeOK, NetTypeOK
  <2>4. ServerTypeOK' BY <1>1, <2>1 DEF Step, TypeOK, ServerTypeOK, ServerPCs
  <2> QED BY <1>1, <2>1, <2>3, <2>4 DEF TypeOK, ClientTypeOK, clientVars
<1>5. FaultTypeOK' BY <1>1, <1>2 DEF BadDescriptor, FaultTypeOK
<1>6. \A j \in Clients \ {c} : Same(j) /\ dfd'[j] = dfd[j] /\ reaping'[j] = reaping[j]
  BY <1>1, <1>2 DEF BadDescriptor, Step, Same, clientVars, FaultTypeOK, TypeOK, NetTypeOK, ServerTypeOK
<1>7. UNCHANGED <<up, pc, fs>> BY <1>2 DEF BadDescriptor, clientVars
<1> QED BY <1>1, <1>3, <1>4, <1>5, <1>6, <1>7, FilesStay, OneSession

\* A fork() that fails keeps the invariant: the thread waits, and nothing else moved.
LEMMA ForkFailsInv ==
  ASSUME FaultInv, NEW c \in Unlucky, ForkFails(c)
  PROVE  FaultInv'
<1>1. TypeOK /\ FaultTypeOK /\ Facts /\ Session(c) /\ c \in Clients
  BY SessionFacts, UnluckyAssumption DEF FaultInv
<1>2. /\ UNCHANGED <<vars, dfd>> /\ spc[c] = "serve" /\ req[c].code = "LIST"
      /\ reaping' = [reaping EXCEPT ![c] = TRUE]
  BY DEF ForkFails
<1>3. UNCHANGED <<up, ctl, c2s, s2c, announced, dcli, dsrv, holders, dq>>
      /\ UNCHANGED <<pc, cmd, lfs, sent, spc, req, cwd, fs, off, touched, dfd>>
  BY <1>2 DEF vars, netVars, clientVars, serverVars
<1>4. TypeOK' BY <1>1, <1>3 DEF TypeOK, NetTypeOK, ClientTypeOK, ServerTypeOK
<1>5. FaultTypeOK' BY <1>1, <1>2 DEF FaultTypeOK
<1>6. \A j \in Clients : Same(j) BY <1>3 DEF Same
<1>7. Session(c)'
  <2>1. (Kept(c) \/ Lost(c))'
    <3>1. Kept(c) => Kept(c)'
      <4>1. Kept(c) => InStepAt(c)' BY <1>1, <1>3, <1>6, FilesStay, Frame DEF Kept
      <4> QED BY <1>3, <4>1 DEF Kept, PortSent
    <3>2. Lost(c) => Lost(c)'
      BY <1>3 DEF Lost, ClientFacts, HasFile, Ended, ThreadFacts, Gettable, Adrift, Serving, Acked, Offer, PortSent
    <3> QED BY <1>1, <3>1, <3>2 DEF Session
  <2>2. Wire(c)' /\ Orderly(c)' BY <1>1, <1>3 DEF Session, Wire, Orderly
  <2> QED BY <1>1, <1>2, <1>3, <2>1, <2>2 DEF Session
<1>8. \A j \in Clients \ {c} : reaping'[j] = reaping[j] BY <1>1, <1>2 DEF FaultTypeOK
<1> QED BY <1>1, <1>3, <1>4, <1>5, <1>6, <1>7, <1>8, FilesStay, OneSession

\* The wait4() of that thread keeps it, also when it takes the child of another.
LEMMA ReapInv ==
  ASSUME FaultInv, NEW c \in Clients, Reap(c)
  PROVE  FaultInv'
<1>1. TypeOK /\ FaultTypeOK /\ Facts /\ up /\ reaping[c] /\ \A j \in Clients : Session(j)
  BY SessionFacts DEF FaultInv, Reap
<1>2. /\ UNCHANGED <<up, ctl, c2s, s2c, announced, dcli, dq, clientVars>>
      /\ UNCHANGED <<req, cwd, fs, off, touched, dfd>>
      /\ reaping' = [reaping EXCEPT ![c] = FALSE]
  BY DEF Reap
<1>3. UNCHANGED <<pc, cmd, lfs, sent>> BY <1>2 DEF clientVars
<1>4. PICK j \in Clients :
        /\ spc[j] \in {"serve", "ls"} /\ (spc[j] = "serve" => j = c)
        /\ spc' = [spc EXCEPT ![c] = "recv", ![j] = "recv"]
        /\ dsrv' = [dsrv EXCEPT ![c] = "shut", ![j] = "shut"]
        /\ holders' = holders \/ holders' = [k \in Clients |-> holders[k] \ {j}]
  <2>1. spc[c] = "serve" BY <1>1 DEF Session
  <2>2. CASE CloseData(c) /\ UNCHANGED holders
    <3>1. spc' = [spc EXCEPT ![c] = "recv", ![c] = "recv"]
      BY <1>1, <2>2 DEF CloseData, Step, TypeOK, ServerTypeOK
    <3>2. dsrv' = [dsrv EXCEPT ![c] = "shut", ![c] = "shut"]
      BY <1>1, <2>2 DEF CloseData, TypeOK, NetTypeOK
    <3> QED BY <2>1, <2>2, <3>1, <3>2
  <2>3. CASE ~(CloseData(c) /\ UNCHANGED holders) BY <2>3 DEF Reap
  <2> QED BY <2>2, <2>3
<1>5. TypeOK'
  <2>1. spc' \in [Clients -> ServerPCs] BY <1>1, <1>4 DEF TypeOK, ServerTypeOK, ServerPCs
  <2>2. dsrv' \in [Clients -> {"none", "listen", "open", "shut"}] BY <1>1, <1>4 DEF TypeOK, NetTypeOK
  <2>3. holders' \in [Clients -> SUBSET Clients] BY <1>1, <1>4 DEF TypeOK, NetTypeOK
  <2>4. NetTypeOK' BY <1>1, <1>2, <2>2, <2>3 DEF TypeOK, NetTypeOK
  <2>5. ServerTypeOK' BY <1>1, <1>2, <2>1 DEF TypeOK, ServerTypeOK
  <2> QED BY <1>1, <1>3, <2>4, <2>5 DEF TypeOK, ClientTypeOK
<1>6. FaultTypeOK' BY <1>1, <1>2 DEF FaultTypeOK
<1>7. ASSUME NEW k \in Clients PROVE Session(k)'
  <2>1. CASE k \in {c, j}
    <3>1. spc[k] \in {"serve", "ls"} BY <1>1, <1>4, <2>1 DEF Session
    <3>2. spc'[k] = "recv" /\ dsrv'[k] = "shut" BY <1>1, <1>4, <2>1 DEF TypeOK, NetTypeOK, ServerTypeOK
    <3>3. ~reaping'[k]
      <4>1. k # c => spc[k] = "ls" BY <1>4, <2>1
      <4>2. k # c => ~reaping[k] BY <1>1, <4>1 DEF Session
      <4> QED BY <1>1, <1>2, <4>2 DEF FaultTypeOK
    <3> QED BY <1>1, <1>2, <3>1, <3>2, <3>3, ReapSession
  <2>2. CASE k \notin {c, j}
    <3>1. Same(k) BY <1>1, <1>2, <1>3, <1>4, <2>2 DEF Same, TypeOK, NetTypeOK, ServerTypeOK
    <3>2. dfd'[k] = dfd[k] /\ reaping'[k] = reaping[k] BY <1>1, <1>2, <2>2 DEF FaultTypeOK
    <3> QED BY <1>1, <1>2, <3>1, <3>2, FilesStay, SessionFrame
  <2> QED BY <2>1, <2>2
<1>8. ServerExitNeedsACrash' BY <1>2, <1>3 DEF FaultInv, ServerExitNeedsACrash
<1> QED BY <1>5, <1>6, <1>7, <1>8 DEF FaultInv

\* What a client does with a connection that nobody will take keeps the invariant.
LEMMA UnservedInv ==
  ASSUME FaultInv, NEW c \in Clients, UnservedConnect(c) \/ UnservedReset(c)
  PROVE  FaultInv'
<1>1. TypeOK /\ FaultTypeOK /\ Facts /\ Session(c) BY SessionFacts DEF FaultInv
<1>2. Session(c)' /\ TypeOK' BY <1>1, UnservedConnectSession, UnservedResetSession
<1>3. UNCHANGED <<serverVars, dfd, reaping>> BY DEF UnservedConnect, UnservedReset
<1>4. up' = up /\ pc[c] \in {"port", "recvdata"}
      /\ \A j \in Clients \ {c} : Same(j)
  <2>1. CASE UnservedConnect(c)
    BY <1>1, <1>3, <2>1 DEF UnservedConnect, TakeToken, Goto, Same, serverVars, TypeOK, NetTypeOK, ClientTypeOK
  <2>2. CASE EndProcess(c, "dead") /\ UnservedReset(c)
    BY <1>1, <1>3, <2>2 DEF UnservedReset, EndProcess, Goto, Same, serverVars, TypeOK, NetTypeOK, ClientTypeOK
  <2>3. CASE ~EndProcess(c, "dead") /\ UnservedReset(c)
    BY <1>1, <1>3, <2>3 DEF UnservedReset, Goto, netVars, Same, serverVars, TypeOK, NetTypeOK, ClientTypeOK
  <2> QED BY <2>1, <2>2, <2>3
<1>5. FaultTypeOK' BY <1>1, <1>3 DEF FaultTypeOK
<1>6. \A j \in Clients : pc[j] = "dead" => pc'[j] = "dead" BY <1>4 DEF Same
<1> QED BY <1>1, <1>2, <1>3, <1>4, <1>5, <1>6, FilesStay, OneSession DEF serverVars

\* A client that sends a directory keeps the invariant.
LEMMA DirectoryInv ==
  ASSUME FaultInv, NEW c \in Clients, PutDirectory(c)
  PROVE  FaultInv'
<1>1. TypeOK /\ FaultTypeOK /\ Facts /\ Session(c) BY SessionFacts DEF FaultInv
<1>2. pc[c] = "senddata" /\ UNCHANGED <<serverVars, dfd, reaping>> BY DEF PutDirectory, PutsDirectory
<1>3. FaultTypeOK' BY <1>1, <1>2 DEF FaultTypeOK
<1>4. CASE EndProcess(c, "dead")
  <2>1. Session(c)' BY <1>1, <1>2, <1>4, DirectorySession
  <2>2. TypeOK' BY <1>1, <1>2, <1>4, EndProcessType DEF TypeOK, ServerTypeOK, serverVars
  <2>3. up' = up /\ \A j \in Clients \ {c} : Same(j)
    BY <1>1, <1>2, <1>4 DEF EndProcess, Goto, Same, serverVars, TypeOK, NetTypeOK, ClientTypeOK
  <2>4. \A j \in Clients : pc[j] = "dead" => pc'[j] = "dead" BY <1>2, <2>3 DEF Same
  <2> QED BY <1>1, <1>2, <1>3, <2>1, <2>2, <2>3, <2>4, FilesStay, OneSession DEF serverVars
<1>5. CASE ~EndProcess(c, "dead")
  <2>1. /\ dq' = [dq EXCEPT ![c] = Append(@, "text")] /\ sent' = [sent EXCEPT ![c] = @ + 1]
        /\ UNCHANGED <<up, ctl, c2s, s2c, announced, dcli, dsrv, holders, pc, cmd, lfs>>
    BY <1>5 DEF PutDirectory
  <2>2. TypeOK'
    <3>1. dq' \in [Clients -> Seq(Chunk)]
      <4>1. dq \in [Clients -> Seq(Chunk)] BY <1>1 DEF TypeOK, NetTypeOK
      <4> QED BY <2>1, <4>1, TextType, AppendType
    <3>2. sent' \in [Clients -> Nat] BY <1>1, <2>1 DEF TypeOK, ClientTypeOK
    <3>3. NetTypeOK' BY <1>1, <2>1, <3>1 DEF TypeOK, NetTypeOK
    <3>4. ClientTypeOK' BY <1>1, <2>1, <3>2 DEF TypeOK, ClientTypeOK
    <3> QED BY <1>1, <1>2, <3>3, <3>4 DEF TypeOK, ServerTypeOK, serverVars
  <2>3. \A j \in Clients : Same(j) BY <1>2, <2>1 DEF Same, serverVars
  <2>4. Session(c)' BY <1>1, <1>2, <2>1, <2>3, FilesStay, SessionFrame DEF serverVars
  <2> QED BY <1>1, <1>2, <1>3, <2>1, <2>2, <2>3, <2>4, FilesStay, OneSession DEF serverVars
<1> QED BY <1>4, <1>5

\* A step that changes nothing.
LEMMA StutterInv == FaultInv /\ UNCHANGED faultVars => FaultInv'
<1> SUFFICES ASSUME FaultInv, UNCHANGED faultVars PROVE FaultInv' OBVIOUS
<1>1. UNCHANGED <<up, ctl, c2s, s2c, announced, dcli, dsrv, holders, dq>>
      /\ UNCHANGED <<pc, cmd, lfs, sent, spc, req, cwd, fs, off, touched, dfd, reaping>>
  BY DEF faultVars, vars, netVars, clientVars, serverVars
<1>2. TypeOK /\ FaultTypeOK /\ Facts BY SessionFacts DEF FaultInv
<1>3. TypeOK' /\ FaultTypeOK'
  BY <1>1, <1>2 DEF TypeOK, NetTypeOK, ClientTypeOK, ServerTypeOK, FaultTypeOK
<1>4. ASSUME NEW c \in Clients PROVE Session(c)'
  <2>1. Same(c) BY <1>1 DEF Same
  <2> QED BY <1>1, <1>2, <2>1, FilesStay, SessionFrame DEF FaultInv
<1> QED BY <1>1, <1>3, <1>4 DEF FaultInv, ServerExitNeedsACrash

\* Every step of the system with faults preserves the invariant.
LEMMA NextFaultInv == FaultInv /\ [FaultNext]_faultVars => FaultInv'
<1> SUFFICES ASSUME FaultInv, NEW c \in Clients,
                    \/ Process(c)
                    \/ Thread(c)
                    \/ NetReset(c) /\ UNCHANGED <<clientVars, serverVars>> /\ Guarded(c)
                    \/ User(c) /\ Guarded(c)
                    \/ c \in Unlucky /\ Fault(c)
                    \/ PutDirectory(c)
             PROVE  FaultInv'
  BY StutterInv DEF FaultNext
<1>1. CASE Process(c) BY <1>1, ByClientInv, UnservedInv DEF Process, ByClient
<1>2. CASE Thread(c) BY <1>2, ServerInv, ReapInv DEF Thread
<1>3. CASE NetReset(c) /\ UNCHANGED <<clientVars, serverVars>> /\ Guarded(c) BY <1>3, ResetInv
<1>4. CASE User(c) /\ Guarded(c) BY <1>4, ByClientInv DEF User, ByClient
<1>5. CASE c \in Unlucky /\ Fault(c) BY <1>5, FailInv, ForkFailsInv DEF Fault
<1>6. CASE PutDirectory(c) BY <1>6, DirectoryInv
<1> QED BY <1>1, <1>2, <1>3, <1>4, <1>5, <1>6

-----------------------------------------------------------------------------
(* Theorems. *)

\* The invariant holds in every state of every behaviour of the system in which
\* socket(), accept() and fork() of src/server fail and src/client puts directories.
THEOREM FaultInvariance == FaultSpec => []FaultInv
BY InitFaultInv, NextFaultInv, PTL DEF FaultSpec

\* Whatever fails, every variable keeps its type.
THEOREM FaultTypes == FaultSpec => [](TypeOK /\ FaultTypeOK)
<1>1. FaultInv => TypeOK /\ FaultTypeOK BY DEF FaultInv
<1> QED BY <1>1, FaultInvariance, PTL

\* A session of which no call has failed is in step, whatever failed in the others:
\* the threads of handle_connection share the process, but not their sessions.
THEOREM GoodSessions == FaultSpec => []OthersInStep
<1>1. FaultInv => OthersInStep BY DEF FaultInv, Session, Kept, Lost, InStepAt, OthersInStep
<1> QED BY <1>1, FaultInvariance, PTL

\* After an error that establish_data_sock returns and nobody looks at, client and
\* thread wait for each other only if the port was never sent.
THEOREM WaitsForPort == FaultSpec => []WaitNeedsNoSocket
<1>1. FaultInv => WaitNeedsNoSocket
  <2> SUFFICES ASSUME FaultInv, NEW c \in Clients, BothWait(c) PROVE dfd[c] = "socket"
    BY DEF WaitNeedsNoSocket
  <2>1. FaultTypeOK /\ Session(c) BY DEF FaultInv
  <2>2. Lost(c) BY <2>1, NotBothWait DEF Session, Kept
  <2>3. CASE dfd[c] = "accept"
    <3>1. /\ c2s[c] = <<>> /\ s2c[c] = <<>> /\ pc[c] \in {"ack", "ack2", "verdict", "size", "port"}
          /\ Adrift(c)
      BY <2>2 DEF BothWait, Lost
    <3>2. Acked(c) \/ Offer(c) \/ c2s[c] = <<cmd[c]>> BY <3>1 DEF Adrift
    <3>3. <<>> # <<"ACK", "PORT">> /\ <<>> # <<"PORT">> /\ <<>> # <<cmd[c]>> OBVIOUS
    <3> QED BY <2>3, <3>1, <3>2, <3>3 DEF Acked, Offer
  <2> QED BY <2>1, <2>2, <2>3 DEF Lost, FaultTypeOK
<1> QED BY <1>1, FaultInvariance, PTL

\* Whatever fails, the next bytes of a control stream are those its client is about
\* to read as such: nothing that send_code() takes for an ACK was meant otherwise.
THEOREM RepliesStayInOrder == FaultSpec => []RightToken
<1>1. FaultInv => RightToken BY WireOrder DEF FaultInv, Session, RightToken
<1> QED BY <1>1, FaultInvariance, PTL

\* No failed call makes a thread call err_exit(): that still takes a killed client.
THEOREM FaultsSpareServer == FaultSpec => []ServerExitNeedsACrash
<1>1. FaultInv => ServerExitNeedsACrash BY DEF FaultInv
<1> QED BY <1>1, FaultInvariance, PTL

=============================================================================
