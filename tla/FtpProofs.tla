----------------------------- MODULE FtpProofs -----------------------------
(***************************************************************************)
(* The theorems of FtpSystem, for any number of clients, any files, menus  *)
(* and mortality: every step keeps every variable in its type, and every   *)
(* client in step with its thread.  That a client may append to its local  *)
(* file, or a thread index the server's, needs more than types: the file   *)
(* must exist when they do, which Facts say.                               *)
(***************************************************************************)
EXTENDS FtpSystem, SequenceTheorems, TLAPS

\* What a program counter says of its own process, for every session.
Facts == \A c \in Clients : ClientFacts(c) /\ ThreadFacts(c)

\* InStep at one client.
InStepAt(c) == ClientShape(c) /\ ThreadShape(c) /\ (up => Lockstep(c))

\* What is in step has the facts the lemmas on single steps ask for.
LEMMA InStepFacts == InStep => Facts
BY DEF InStep, Facts, ClientShape, ThreadShape

-----------------------------------------------------------------------------
(* Types. *)

\* Appending an element to one sequence of a family keeps the family's type:
\* the sockets' queues under send() and recv().
LEMMA AppendType ==
  ASSUME NEW S, NEW T, NEW q \in [S -> Seq(T)], NEW c \in S, NEW b \in T
  PROVE  [q EXCEPT ![c] = Append(@, b)] \in [S -> Seq(T)]
OBVIOUS

\* Replacing the content of one file of one directory keeps the type of a
\* family of directories (lfs and fs).
LEMMA NestedType ==
  ASSUME NEW S, NEW T, NEW U, NEW f \in [S -> [T -> U]], NEW c \in S, NEW n, NEW v \in U
  PROVE  [f EXCEPT ![c][n] = v] \in [S -> [T -> U]]
OBVIOUS

\* exit(), a signal or a crash of a client keeps the types: its sockets close.
LEMMA EndProcessType ==
  ASSUME NetTypeOK, ClientTypeOK, NEW c \in Clients, NEW l \in {"quit", "dead"}, EndProcess(c, l)
  PROVE  NetTypeOK' /\ ClientTypeOK'
<1>1. pc' \in [Clients -> ClientPCs]
  BY DEF EndProcess, Goto, ClientTypeOK, ClientPCs
<1>2. ctl' \in [Clients -> CtlStates]
  BY DEF EndProcess, NetTypeOK, CtlStates
<1>3. s2c' \in [Clients -> Seq(Tokens)] /\ dq' \in [Clients -> Seq(Chunk)]
  BY DEF EndProcess, NetTypeOK
<1>4. dcli' \in [Clients -> {"none", "open", "shut"}]
  BY DEF EndProcess, NetTypeOK
<1> QED BY <1>1, <1>2, <1>3, <1>4 DEF EndProcess, NetTypeOK, ClientTypeOK

\* recv() of one reply on the control connection keeps the types.
LEMMA TakeTokenType ==
  ASSUME NetTypeOK, NEW c \in Clients, s2c[c] # <<>>, TakeToken(c)
  PROVE  s2c' \in [Clients -> Seq(Tokens)]
BY DEF TakeToken, NetTypeOK

\* A get or put names a file, and once the client has it open there is one.
LEMMA LocalFileType ==
  ASSUME TypeOK, Facts, NEW c \in Clients, cmd[c].code \in {"GET", "PUT"}
  PROVE  /\ cmd[c].name \in Names
         /\ lfs[c][cmd[c].name] \in Content
         /\ HasFile(c) => lfs[c][cmd[c].name] \in Seq(Chunk)
<1>1. cmd[c] \in Commands BY DEF TypeOK, ClientTypeOK
<1>2. cmd[c].name \in Names BY <1>1 DEF Commands
<1>3. lfs[c][cmd[c].name] \in Content BY <1>2 DEF TypeOK, ClientTypeOK
<1>4. HasFile(c) => lfs[c][cmd[c].name] # NoFile BY DEF Facts, ClientFacts
<1> QED BY <1>2, <1>3, <1>4 DEF Content

\* A get or put request names a file; once the thread has found or made it,
\* there is one to read or write.
LEMMA RemoteFileType ==
  ASSUME TypeOK, Facts, NEW c \in Clients, req[c].code \in {"GET", "PUT"}
  PROVE  /\ req[c].name \in Names
         /\ fs[cwd[c]][req[c].name] \in Content
         /\ Gettable(c) => fs[cwd[c]][req[c].name] \in Seq(Chunk)
<1>1. req[c] \in Request /\ cwd[c] \in Tree BY DEF TypeOK, ServerTypeOK
<1>2. req[c].name \in Names BY <1>1 DEF Commands, Request, SecondCodes
<1>3. fs[cwd[c]][req[c].name] \in Content BY <1>1, <1>2 DEF TypeOK, ServerTypeOK
<1>4. Gettable(c) => fs[cwd[c]][req[c].name] # NoFile BY DEF Facts, ThreadFacts
<1> QED BY <1>2, <1>3, <1>4 DEF Content

\* write() at an offset makes a file of blocks again, even beyond the end.
LEMMA WriteAtType ==
  ASSUME NEW f \in Seq(Chunk), NEW o \in Nat, NEW b \in Chunk
  PROVE  WriteAt(f, o, b) \in Seq(Chunk)
<1> DEFINE n == IF o < Len(f) THEN Len(f) ELSE o + 1
<1>1. n \in Nat OBVIOUS
<1>2. ASSUME NEW i \in 1..n PROVE (IF i = o + 1 THEN b ELSE IF i <= Len(f) THEN f[i] ELSE "hole") \in Chunk
  BY <1>2 DEF Chunk
<1>3. WriteAt(f, o, b) \in [1..n -> Chunk] BY <1>2 DEF WriteAt
<1> QED BY <1>1, <1>3

\* Giving a command at the prompt keeps the types.
LEMMA IssueType ==
  ASSUME NetTypeOK, ClientTypeOK, NEW c \in Clients, NEW m \in Menu[c], Issue(c, m)
  PROVE  NetTypeOK' /\ ClientTypeOK'
<1>1. m \in Commands /\ m \in Request BY MenuAssumption DEF Request
<1>2. c2s' \in [Clients -> Seq(Request)] BY <1>1 DEF Issue, NetTypeOK
<1>3. pc' \in [Clients -> ClientPCs] BY DEF Issue, Goto, ClientTypeOK, ClientPCs
<1>4. cmd' \in [Clients -> Commands] BY <1>1 DEF Issue, ClientTypeOK
<1> QED BY <1>2, <1>3, <1>4 DEF Issue, NetTypeOK, ClientTypeOK

\* Every step of a client keeps the types of the sockets and its own state.
LEMMA ClientStepType ==
  ASSUME TypeOK, Facts, NEW c \in Clients, ClientStep(c)
  PROVE  NetTypeOK' /\ ClientTypeOK'
<1> USE DEF TypeOK
<1>1. CASE BrokenPipe(c) BY <1>1, EndProcessType DEF BrokenPipe
<1>2. CASE ServerGone(c) BY <1>2, EndProcessType DEF ServerGone
<1>3. CASE NoAck(c)
  <2>1. pc' \in [Clients -> ClientPCs] BY <1>3 DEF NoAck, Goto, ClientTypeOK, ClientPCs
  <2> QED BY <1>3, <2>1 DEF NoAck, NetTypeOK, ClientTypeOK, netVars
<1>4. CASE RecvAck(c)
  <2>1. pc' \in [Clients -> ClientPCs] BY <1>4 DEF RecvAck, AfterAck, Goto, ClientTypeOK, ClientPCs
  <2>2. s2c' \in [Clients -> Seq(Tokens)] BY <1>4, TakeTokenType DEF RecvAck
  <2> QED BY <1>4, <2>1, <2>2 DEF RecvAck, NetTypeOK, ClientTypeOK
<1>5. CASE RecvVerdict(c)
  <2>1. pc' \in [Clients -> ClientPCs] BY <1>5 DEF RecvVerdict, Goto, ClientTypeOK, ClientPCs
  <2>2. s2c' \in [Clients -> Seq(Tokens)] BY <1>5, TakeTokenType DEF RecvVerdict
  <2>3. <<>> \in Content BY DEF Content
  <2>4. lfs' \in [Clients -> [Names -> Content]]
    <3>1. lfs \in [Clients -> [Names -> Content]] BY DEF ClientTypeOK
    <3>2. [lfs EXCEPT ![c][cmd[c].name] = <<>>] \in [Clients -> [Names -> Content]]
      BY <2>3, <3>1, NestedType
    <3>3. lfs' = [lfs EXCEPT ![c][cmd[c].name] = <<>>] \/ lfs' = lfs BY <1>5 DEF RecvVerdict
    <3> QED BY <3>1, <3>2, <3>3
  <2> QED BY <1>5, <2>1, <2>2, <2>4 DEF RecvVerdict, NetTypeOK, ClientTypeOK
<1>6. CASE RecvSize(c)
  <2>1. pc' \in [Clients -> ClientPCs] BY <1>6 DEF RecvSize, Goto, ClientTypeOK, ClientPCs
  <2>2. s2c' \in [Clients -> Seq(Tokens)] BY <1>6, TakeTokenType DEF RecvSize
  <2> QED BY <1>6, <2>1, <2>2 DEF RecvSize, NetTypeOK, ClientTypeOK
<1>7. CASE SendCode2(c)
  <2>1. pc' \in [Clients -> ClientPCs] BY <1>7 DEF SendCode2, Goto, ClientTypeOK, ClientPCs
  <2>2. cmd[c].name \in Names BY <1>7, LocalFileType DEF SendCode2, Facts, ClientFacts
  <2>3. c2s' \in [Clients -> Seq(Request)] BY <1>7, <2>2 DEF SendCode2, NetTypeOK, Request, SecondCodes
  <2> QED BY <1>7, <2>1, <2>3 DEF SendCode2, NetTypeOK, ClientTypeOK
<1>8. CASE ConnectData(c)
  <2>1. pc' \in [Clients -> ClientPCs] BY <1>8 DEF ConnectData, Goto, ClientTypeOK, ClientPCs
  <2>2. s2c' \in [Clients -> Seq(Tokens)] BY <1>8, TakeTokenType DEF ConnectData
  <2>3. dcli' \in [Clients -> {"none", "open", "shut"}] BY <1>8 DEF ConnectData, NetTypeOK
  <2>4. sent' \in [Clients -> Nat] BY <1>8 DEF ConnectData, ClientTypeOK
  <2> QED BY <1>8, <2>1, <2>2, <2>3, <2>4 DEF ConnectData, NetTypeOK, ClientTypeOK
<1>9. CASE ConnectRefused(c) BY <1>9, EndProcessType DEF ConnectRefused
<1>10. CASE RecvBlock(c)
  <2>1. Head(dq[c]) \in Chunk /\ dq' \in [Clients -> Seq(Chunk)] BY <1>10 DEF RecvBlock, NetTypeOK
  <2>2. cmd[c].code = "GET" =>
          Append(lfs[c][cmd[c].name], Head(dq[c])) \in Content
    BY <1>10, <2>1, LocalFileType DEF RecvBlock, HasFile, Content
  <2>3. lfs' \in [Clients -> [Names -> Content]] BY <1>10, <2>2 DEF RecvBlock, ClientTypeOK
  <2> QED BY <1>10, <2>1, <2>3 DEF RecvBlock, NetTypeOK, ClientTypeOK
<1>11. CASE RecvEOF(c)
  <2>1. pc' \in [Clients -> ClientPCs] BY <1>11 DEF RecvEOF, Goto, ClientTypeOK, ClientPCs
  <2>2. dcli' \in [Clients -> {"none", "open", "shut"}] BY <1>11 DEF RecvEOF, NetTypeOK
  <2> QED BY <1>11, <2>1, <2>2 DEF RecvEOF, NetTypeOK, ClientTypeOK
<1>12. CASE RecvReset(c)
  <2>1. CASE EndProcess(c, "dead") BY <2>1, EndProcessType
  <2>2. CASE /\ Goto(c, "prompt")
             /\ dcli' = [dcli EXCEPT ![c] = "shut"]
             /\ UNCHANGED <<up, ctl, c2s, s2c, announced, dsrv, holders, dq, cmd, lfs, sent>>
    <3>1. pc' \in [Clients -> ClientPCs] BY <2>2 DEF Goto, ClientTypeOK, ClientPCs
    <3>2. dcli' \in [Clients -> {"none", "open", "shut"}] BY <2>2 DEF NetTypeOK
    <3> QED BY <2>2, <3>1, <3>2 DEF NetTypeOK, ClientTypeOK
  <2> QED BY <1>12, <2>1, <2>2 DEF RecvReset
<1>13. CASE SendBlock(c)
  <2>1. cmd[c].code = "PUT" BY <1>13 DEF SendBlock, Facts, ClientFacts
  <2>2. lfs[c][cmd[c].name] \in Seq(Chunk) BY <2>1, LocalFileType DEF HasFile
  <2>3. sent[c] \in Nat BY DEF ClientTypeOK
  <2>4. lfs[c][cmd[c].name][sent[c] + 1] \in Chunk
    <3>1. sent[c] + 1 \in 1..Len(lfs[c][cmd[c].name]) BY <1>13, <2>2, <2>3 DEF SendBlock
    <3> QED BY <2>2, <3>1, ElementOfSeq
  <2> DEFINE b == lfs[c][cmd[c].name][sent[c] + 1]
  <2>5. dq' \in [Clients -> Seq(Chunk)]
    <3>1. dq' = [dq EXCEPT ![c] = Append(@, b)] \/ dq' = dq BY <1>13 DEF SendBlock
    <3>2. b \in Chunk BY <2>4
    <3> HIDE DEF b
    <3>3. dq \in [Clients -> Seq(Chunk)] BY DEF NetTypeOK
    <3>4. [dq EXCEPT ![c] = Append(@, b)] \in [Clients -> Seq(Chunk)] BY <3>2, <3>3, AppendType
    <3> QED BY <3>1, <3>3, <3>4
  <2>6. sent' \in [Clients -> Nat] BY <1>13 DEF SendBlock, ClientTypeOK
  <2> QED BY <1>13, <2>5, <2>6 DEF SendBlock, NetTypeOK, ClientTypeOK
<1>14. CASE SendEOF(c)
  <2>1. pc' \in [Clients -> ClientPCs] BY <1>14 DEF SendEOF, Goto, ClientTypeOK, ClientPCs
  <2>2. dcli' \in [Clients -> {"none", "open", "shut"}] BY <1>14 DEF SendEOF, NetTypeOK
  <2> QED BY <1>14, <2>1, <2>2 DEF SendEOF, NetTypeOK, ClientTypeOK
<1> QED BY <1>1, <1>2, <1>3, <1>4, <1>5, <1>6, <1>7, <1>8, <1>9, <1>10, <1>11, <1>12, <1>13, <1>14
     DEF ClientStep

-----------------------------------------------------------------------------
\* send() on the control connection keeps the types.
LEMMA ReplyType ==
  ASSUME NetTypeOK, NEW c \in Clients, NEW toks \in Seq(Tokens), Reply(c, toks)
  PROVE  s2c' \in [Clients -> Seq(Tokens)] /\ ctl' \in [Clients -> CtlStates]
<1>1. s2c' \in [Clients -> Seq(Tokens)] BY DEF Reply, NetTypeOK
<1>2. ctl' \in [Clients -> CtlStates] BY DEF Reply, NetTypeOK, CtlStates
<1> QED BY <1>1, <1>2

\* Moving a thread to a place of the server's code keeps the type of spc.
LEMMA StepType ==
  ASSUME ServerTypeOK, NEW c \in Clients, NEW l \in ServerPCs, Step(c, l)
  PROVE  spc' \in [Clients -> ServerPCs]
BY DEF Step, ServerTypeOK

\* err_exit() in the server keeps the types.
LEMMA ErrExitType ==
  ASSUME NetTypeOK, ServerTypeOK, ErrExit
  PROVE  NetTypeOK' /\ ServerTypeOK'
BY DEF ErrExit, NetTypeOK, ServerTypeOK, serverVars

\* send_ack() and send_bad(), successful or not, keep the types.
LEMMA SendOrExitType ==
  ASSUME NetTypeOK, ServerTypeOK, NEW c \in Clients, NEW tok \in Tokens, NEW l \in ServerPCs,
         SendOrExit(c, tok, l)
  PROVE  NetTypeOK' /\ ServerTypeOK'
<1>1. CASE ErrExit BY <1>1, ErrExitType
<1>2. CASE ~ErrExit
  <2>1. <<tok>> \in Seq(Tokens) OBVIOUS
  <2>2. Reply(c, <<tok>>) /\ Step(c, l) BY <1>2 DEF SendOrExit
  <2>3. s2c' \in [Clients -> Seq(Tokens)] /\ ctl' \in [Clients -> CtlStates] BY <2>1, <2>2, ReplyType
  <2>4. spc' \in [Clients -> ServerPCs] BY <2>2, StepType
  <2> QED BY <1>2, <2>3, <2>4 DEF SendOrExit, NetTypeOK, ServerTypeOK
<1> QED BY <1>1, <1>2

\* close() of the data socket at the end of a handler keeps the types.
LEMMA CloseDataType ==
  ASSUME NetTypeOK, ServerTypeOK, NEW c \in Clients, CloseData(c)
  PROVE  /\ spc' \in [Clients -> ServerPCs]
         /\ dsrv' \in [Clients -> {"none", "listen", "open", "shut"}]
<1>1. "recv" \in ServerPCs BY DEF ServerPCs
<1>2. spc' \in [Clients -> ServerPCs] BY <1>1, StepType DEF CloseData
<1>3. dsrv' \in [Clients -> {"none", "listen", "open", "shut"}] BY DEF CloseData, NetTypeOK
<1> QED BY <1>2, <1>3

\* send() on the data socket keeps the types.
LEMMA SendType ==
  ASSUME NetTypeOK, NEW c \in Clients, NEW b \in Chunk, Send(c, b)
  PROVE  dq' \in [Clients -> Seq(Chunk)]
BY DEF Send, NetTypeOK

\* Reading or writing one block more keeps the type of the file offset.
LEMMA OffType ==
  ASSUME ServerTypeOK, NEW c \in Clients, off' = [off EXCEPT ![c] = @ + 1]
  PROVE  off' \in [Clients -> Nat]
BY DEF ServerTypeOK

\* The output of ls, pwd and cd is made of chunks of text.
LEMMA TextType == "text" \in Chunk
BY DEF Chunk

\* open() with O_TRUNC and write() keep the type of the server's files.
LEMMA FsType ==
  ASSUME TypeOK, Facts, NEW c \in Clients, NEW v \in Content,
         fs' = [fs EXCEPT ![cwd[c]][req[c].name] = v]
  PROVE  fs' \in [Tree -> [Names -> Content]]
<1>1. cwd[c] \in Tree /\ fs \in [Tree -> [Names -> Content]] BY DEF TypeOK, ServerTypeOK
<1> QED BY <1>1, NestedType

\* Every step of a session thread or its ls child keeps the types.
LEMMA ServerStepType ==
  ASSUME TypeOK, Facts, NEW c \in Clients, ServerStep(c)
  PROVE  NetTypeOK' /\ ServerTypeOK'
<1> USE DEF TypeOK
<1>1. CASE SrvRecv(c)
  <2>1. spc' \in [Clients -> ServerPCs] BY <1>1, StepType DEF SrvRecv, ServerPCs
  <2>2. c2s' \in [Clients -> Seq(Request)] /\ Head(c2s[c]) \in Request BY <1>1 DEF SrvRecv, NetTypeOK
  <2>3. req' \in [Clients -> Request] BY <1>1, <2>2 DEF SrvRecv, ServerTypeOK
  <2> QED BY <1>1, <2>1, <2>2, <2>3 DEF SrvRecv, NetTypeOK, ServerTypeOK
<1>2. CASE SrvHangup(c)
  <2>1. CASE ErrExit BY <2>1, ErrExitType
  <2>2. CASE Step(c, "done") /\ UNCHANGED <<netVars, req, cwd, fs, off, touched>>
    <3>1. spc' \in [Clients -> ServerPCs] BY <2>2, StepType DEF ServerPCs
    <3> QED BY <2>2, <3>1 DEF netVars, NetTypeOK, ServerTypeOK
  <2> QED BY <1>2, <2>1, <2>2 DEF SrvHangup
<1>3. CASE SrvAck(c)
  <2> DEFINE l == CASE req[c].code \in {"LIST", "CWD", "CD"} -> "listen"
                    [] req[c].code = "GET" -> "get"
                    [] req[c].code = "PUT" -> "code"
                    [] OTHER -> "recv"
  <2>1. l \in ServerPCs BY DEF ServerPCs
  <2>2. SendOrExit(c, "ACK", l) BY <1>3 DEF SrvAck
  <2> QED BY <2>1, <2>2, SendOrExitType DEF Tokens
<1>4. CASE SrvGet(c)
  <2> DEFINE file == fs[cwd[c]][req[c].name]
  <2>1. CASE file = NoFile /\ SendOrExit(c, "BAD", "recv") BY <2>1, SendOrExitType DEF Tokens, ServerPCs
  <2>2. CASE ErrExit BY <2>2, ErrExitType
  <2>3. CASE /\ file # NoFile /\ ctl[c] # "rst"
             /\ Reply(c, <<"ACK", "SIZE">>)
             /\ announced' = [announced EXCEPT ![c] = Len(file)]
             /\ touched' = [touched EXCEPT ![c] = FALSE]
             /\ Step(c, "code")
             /\ UNCHANGED <<up, c2s, dcli, dsrv, holders, dq, req, cwd, fs, off>>
    <3>1. <<"ACK", "SIZE">> \in Seq(Tokens) BY DEF Tokens
    <3>2. s2c' \in [Clients -> Seq(Tokens)] /\ ctl' \in [Clients -> CtlStates] BY <2>3, <3>1, ReplyType
    <3>3. spc' \in [Clients -> ServerPCs] BY <2>3, StepType DEF ServerPCs
    <3>4. Len(file) \in Nat
      <4>1. req[c].code = "GET" BY <1>4 DEF SrvGet, Facts, ThreadFacts
      <4>2. file \in Content BY <4>1, RemoteFileType
      <4> QED BY <2>3, <4>2 DEF Content
    <3>5. announced' \in [Clients -> Nat] BY <2>3, <3>4 DEF NetTypeOK
    <3>6. touched' \in [Clients -> BOOLEAN] BY <2>3 DEF ServerTypeOK
    <3> QED BY <2>3, <3>2, <3>3, <3>5, <3>6 DEF NetTypeOK, ServerTypeOK
  <2> QED BY <1>4, <2>1, <2>2, <2>3 DEF SrvGet
<1>5. CASE SrvCode(c)
  <2>1. PICK l \in ServerPCs : Step(c, l) BY <1>5 DEF SrvCode, ServerPCs
  <2>2. spc' \in [Clients -> ServerPCs] BY <2>1, StepType
  <2>3. c2s' \in [Clients -> Seq(Request)]
    <3>1. (c2s[c] # <<>> /\ c2s' = [c2s EXCEPT ![c] = Tail(@)]) \/ c2s' = c2s BY <1>5 DEF SrvCode
    <3>2. c2s \in [Clients -> Seq(Request)] BY DEF NetTypeOK
    <3>3. c2s[c] # <<>> => [c2s EXCEPT ![c] = Tail(@)] \in [Clients -> Seq(Request)]
      BY <3>2
    <3> QED BY <3>1, <3>2, <3>3
  <2> QED BY <1>5, <2>2, <2>3 DEF SrvCode, NetTypeOK, ServerTypeOK
<1>6. CASE SrvCodeReply(c) BY <1>6, SendOrExitType DEF SrvCodeReply, Tokens, ServerPCs
<1>7. CASE SrvListen(c)
  <2>1. spc' \in [Clients -> ServerPCs] BY <1>7, StepType DEF SrvListen, ServerPCs
  <2>2. <<"PORT">> \in Seq(Tokens) BY DEF Tokens
  <2>3. s2c' \in [Clients -> Seq(Tokens)] /\ ctl' \in [Clients -> CtlStates] BY <1>7, <2>2, ReplyType DEF SrvListen
  <2>4. /\ dsrv' \in [Clients -> {"none", "listen", "open", "shut"}]
        /\ dcli' \in [Clients -> {"none", "open", "shut"}]
        /\ holders' \in [Clients -> SUBSET Clients]
        /\ dq' \in [Clients -> Seq(Chunk)]
    BY <1>7 DEF SrvListen, NetTypeOK
  <2> QED BY <1>7, <2>1, <2>3, <2>4 DEF SrvListen, NetTypeOK, ServerTypeOK
<1>8. CASE SrvAccept(c)
  <2>1. spc' \in [Clients -> ServerPCs] BY <1>8, StepType DEF SrvAccept, ServerPCs
  <2>2. /\ dsrv' \in [Clients -> {"none", "listen", "open", "shut"}]
        /\ holders' \in [Clients -> SUBSET Clients]
    BY <1>8 DEF SrvAccept, NetTypeOK
  <2>3. off' \in [Clients -> Nat] BY <1>8 DEF SrvAccept, ServerTypeOK
  <2> QED BY <1>8, <2>1, <2>2, <2>3 DEF SrvAccept, NetTypeOK, ServerTypeOK
<1>9. CASE Fork(c)
  <2>1. spc' \in [Clients -> ServerPCs] BY <1>9, StepType DEF Fork, ServerPCs
  <2>2. holders' \in [Clients -> SUBSET Clients] BY <1>9 DEF Fork, NetTypeOK
  <2> QED BY <1>9, <2>1, <2>2 DEF Fork, NetTypeOK, ServerTypeOK
<1>10. CASE ChildWrite(c)
  <2>1. dq' \in [Clients -> Seq(Chunk)] BY <1>10, SendType, TextType DEF ChildWrite
  <2>2. off' \in [Clients -> Nat] BY <1>10, OffType DEF ChildWrite
  <2> QED BY <1>10, <2>1, <2>2 DEF ChildWrite, NetTypeOK, ServerTypeOK
<1>11. CASE ChildEnd(c)
  <2>1. spc' \in [Clients -> ServerPCs]
    <3>1. CloseData(c) \/ Step(c, "done") BY <1>11 DEF ChildEnd
    <3>2. "done" \in ServerPCs BY DEF ServerPCs
    <3> QED BY <3>1, <3>2, CloseDataType, StepType
  <2>2. dsrv' \in [Clients -> {"none", "listen", "open", "shut"}]
    <3>1. CloseData(c) \/ dsrv' = dsrv BY <1>11 DEF ChildEnd
    <3> QED BY <3>1, CloseDataType DEF NetTypeOK
  <2>3. holders' \in [Clients -> SUBSET Clients] BY <1>11 DEF ChildEnd, NetTypeOK
  <2> QED BY <1>11, <2>1, <2>2, <2>3 DEF ChildEnd, NetTypeOK, ServerTypeOK
<1>12. CASE SrvPwd(c)
  <2>1. dq' \in [Clients -> Seq(Chunk)] BY <1>12, SendType, TextType DEF SrvPwd
  <2> QED BY <1>12, <2>1, CloseDataType DEF SrvPwd, NetTypeOK, ServerTypeOK
<1>13. CASE SrvCd(c)
  <2>1. dq' \in [Clients -> Seq(Chunk)]
    <3>1. Send(c, "text") \/ dq' = dq BY <1>13 DEF SrvCd
    <3> QED BY <3>1, SendType, TextType DEF NetTypeOK
  <2>2. cwd' \in [Clients -> Tree]
    <3>1. cwd[c] \in Tree /\ (cwd[c] # <<>> => Parent(cwd[c]) \in Tree) BY TreeAssumption DEF ServerTypeOK
    <3>2. PICK d \in Tree : cwd' = [cwd EXCEPT ![c] = d] \/ cwd' = cwd BY <1>13, <3>1 DEF SrvCd
    <3> QED BY <3>2 DEF ServerTypeOK
  <2>3. CloseData(c) BY <1>13 DEF SrvCd
  <2>4. UNCHANGED <<up, ctl, c2s, s2c, announced, dcli, holders, req, fs, off, touched>> BY <1>13 DEF SrvCd
  <2> QED BY <2>1, <2>2, <2>3, <2>4, CloseDataType DEF NetTypeOK, ServerTypeOK
<1>14. CASE SrvOpenGet(c)
  <2>1. spc' \in [Clients -> ServerPCs] BY <1>14, StepType DEF SrvOpenGet, ServerPCs
  <2> QED BY <1>14, <2>1 DEF SrvOpenGet, netVars, NetTypeOK, ServerTypeOK
<1>15. CASE SrvTx(c)
  <2> DEFINE file == fs[cwd[c]][req[c].name]
             b == file[off[c] + 1]
  <2>1. req[c].code = "GET" /\ spc[c] = "tx" BY <1>15 DEF SrvTx, Facts, ThreadFacts
  <2>2. file \in Seq(Chunk) BY <2>1, RemoteFileType DEF Gettable
  <2>3. off[c] \in Nat BY DEF ServerTypeOK
  <2>4. off[c] + 1 \in 1..Len(file) BY <1>15, <2>2, <2>3 DEF SrvTx
  <2>5. b \in Chunk BY <2>2, <2>4, ElementOfSeq
  <2>6. Send(c, b) BY <1>15 DEF SrvTx
  <2>7. dq' \in [Clients -> Seq(Chunk)] BY <2>5, <2>6, SendType
  <2>8. off' \in [Clients -> Nat] BY <1>15, OffType DEF SrvTx
  <2> QED BY <1>15, <2>7, <2>8 DEF SrvTx, NetTypeOK, ServerTypeOK
<1>16. CASE SrvTxEnd(c) BY <1>16, CloseDataType DEF SrvTxEnd, NetTypeOK, ServerTypeOK
<1>17. CASE SrvOpenPut(c)
  <2>1. spc' \in [Clients -> ServerPCs] BY <1>17, StepType DEF SrvOpenPut, ServerPCs
  <2>2. <<>> \in Content BY DEF Content
  <2>3. fs' \in [Tree -> [Names -> Content]] BY <1>17, <2>2, FsType DEF SrvOpenPut
  <2>4. touched' \in [Clients -> BOOLEAN] BY <1>17 DEF SrvOpenPut, TouchOthers, ServerTypeOK
  <2> QED BY <1>17, <2>1, <2>3, <2>4 DEF SrvOpenPut, netVars, NetTypeOK, ServerTypeOK
<1>18. CASE SrvRefusePut(c) BY <1>18, CloseDataType DEF SrvRefusePut, NetTypeOK, ServerTypeOK
<1>19. CASE SrvRx(c)
  <2> DEFINE file == fs[cwd[c]][req[c].name]
             v == WriteAt(file, off[c], Head(dq[c]))
  <2>1. Head(dq[c]) \in Chunk /\ dq' \in [Clients -> Seq(Chunk)] BY <1>19 DEF SrvRx, NetTypeOK
  <2>2. req[c].code = "PUT" /\ spc[c] = "rx" BY <1>19 DEF SrvRx, Facts, ThreadFacts
  <2>3. file \in Seq(Chunk) /\ req[c].name \in Names BY <2>2, RemoteFileType DEF Gettable
  <2>4. v \in Content BY <2>1, <2>3, WriteAtType DEF Content, ServerTypeOK
  <2>5. cwd[c] \in Tree /\ fs \in [Tree -> [Names -> Content]] BY DEF ServerTypeOK
  <2>6. fs' = [fs EXCEPT ![cwd[c]][req[c].name] = v] BY <1>19, <2>3, <2>5 DEF SrvRx
  <2>7. fs' \in [Tree -> [Names -> Content]] BY <2>4, <2>6, FsType
  <2>8. touched' \in [Clients -> BOOLEAN] BY <1>19 DEF SrvRx, TouchOthers, ServerTypeOK
  <2>9. off' \in [Clients -> Nat] BY <1>19, OffType DEF SrvRx
  <2> QED BY <1>19, <2>1, <2>7, <2>8, <2>9 DEF SrvRx, NetTypeOK, ServerTypeOK
<1>20. CASE SrvRxEnd(c) BY <1>20, CloseDataType DEF SrvRxEnd, NetTypeOK, ServerTypeOK
<1> QED BY <1>1, <1>2, <1>3, <1>4, <1>5, <1>6, <1>7, <1>8, <1>9, <1>10, <1>11, <1>12, <1>13, <1>14,
           <1>15, <1>16, <1>17, <1>18, <1>19, <1>20 DEF ServerStep

-----------------------------------------------------------------------------
(* Lockstep. *)

\* A step leaves the session of c, as far as the invariant speaks of it, alone.
Same(c) ==
  /\ pc'[c] = pc[c] /\ cmd'[c] = cmd[c] /\ lfs'[c] = lfs[c]
  /\ ctl'[c] = ctl[c] /\ c2s'[c] = c2s[c] /\ s2c'[c] = s2c[c]
  /\ dcli'[c] = dcli[c] /\ dsrv'[c] = dsrv[c]
  /\ spc'[c] = spc[c] /\ req'[c] = req[c] /\ cwd'[c] = cwd[c]

\* The first request in an empty control connection is alone there.
LEMMA AppendEmpty ==
  ASSUME NEW x PROVE Append(<<>>, x) = <<x>>
OBVIOUS

\* What is left of a sequence of replies when the client has read the first.
LEMMA TailOfReplies ==
  ASSUME NEW x, NEW y, NEW z
  PROVE  /\ Tail(<<x>>) = <<>> /\ Tail(<<x, y>>) = <<y>> /\ Tail(<<x, y, z>>) = <<y, z>>
         /\ Head(<<x>>) = x /\ Head(<<x, y>>) = x /\ Head(<<x, y, z>>) = x
OBVIOUS

\* A client that reads a reply leaves its thread where it is, owing the rest.
LEMMA ReadReply ==
  ASSUME NEW c \in Clients, NEW l, NEW toks, At(c, l, toks),
         s2c'[c] = Tail(s2c[c]), UNCHANGED <<c2s, cmd>>, UNCHANGED serverVars
  PROVE  At(c, l, Tail(toks))'
BY DEF At, serverVars

\* A file that exists is not the absence of a file.
LEMMA NotNoFile ==
  ASSUME NEW s \in Seq(Chunk) PROVE s # NoFile
BY NoFileAssumption

\* What happens to other sessions leaves a session in step, as long as the
\* files it has found still exist.
LEMMA Frame ==
  ASSUME NEW c \in Clients, InStepAt(c), Same(c), up' => up,
         Gettable(c) => fs'[cwd[c]][req[c].name] # NoFile
  PROVE  InStepAt(c)'
<1>1. ClientShape(c)' BY DEF InStepAt, ClientShape, ClientFacts, HasFile, Ended, Same
<1>2. ThreadShape(c)' BY DEF InStepAt, ThreadShape, ThreadFacts, Gettable, Same
<1>3. up' => Lockstep(c)' BY DEF InStepAt, Lockstep, At, Offered, PutTail, Second, Same
<1> QED BY <1>1, <1>2, <1>3 DEF InStepAt

\* The shape of a thread does not depend on what its client does.
LEMMA ThreadFrame ==
  ASSUME NEW c \in Clients, InStepAt(c), UNCHANGED serverVars, dsrv' = dsrv, up' = up
  PROVE  ThreadShape(c)'
BY DEF InStepAt, ThreadShape, ThreadFacts, Gettable, serverVars

\* A client that quits or dies leaves its session in step: a thread that is
\* left behind is one the invariant expects (recv, or the tail of a put).
LEMMA EndInStep ==
  ASSUME TypeOK, NEW c \in Clients, InStepAt(c), NEW l \in {"quit", "dead"}, EndProcess(c, l),
         l = "quit" => pc[c] = "prompt", UNCHANGED serverVars
  PROVE  InStepAt(c)'
<1>1. /\ pc'[c] = l /\ s2c'[c] = <<>> /\ cmd'[c] = cmd[c] /\ lfs'[c] = lfs[c]
      /\ ctl'[c] = IF s2c[c] = <<>> THEN "fin" ELSE "rst"
      /\ dcli'[c] = IF dcli[c] = "open" THEN "shut" ELSE dcli[c]
      /\ c2s'[c] = c2s[c] /\ up' = up /\ dsrv' = dsrv
  BY DEF EndProcess, Goto, TypeOK, NetTypeOK, ClientTypeOK
<1>2. ClientShape(c)' BY <1>1 DEF InStepAt, ClientShape, ClientFacts, HasFile, Ended
<1>3. ThreadShape(c)' BY <1>1, ThreadFrame
<1>4. up' => Lockstep(c)' BY <1>1 DEF InStepAt, Lockstep, At, Offered, PutTail, serverVars
<1> QED BY <1>2, <1>3, <1>4 DEF InStepAt

\* Sending the request of a new command keeps the session in step.
LEMMA IssueInStep ==
  ASSUME TypeOK, NEW c \in Clients, InStepAt(c), NEW m \in Menu[c], Issue(c, m), UNCHANGED serverVars
  PROVE  InStepAt(c)'
<1>1. /\ pc[c] = "prompt" /\ pc'[c] = "ack" /\ cmd'[c] = m /\ lfs' = lfs /\ s2c' = s2c /\ ctl' = ctl
      /\ dcli' = dcli /\ dsrv' = dsrv /\ up' = up
      /\ c2s'[c] = Append(c2s[c], m)
  BY DEF Issue, Goto, TypeOK, NetTypeOK, ClientTypeOK
<1>2. ClientShape(c)' BY <1>1 DEF InStepAt, ClientShape, ClientFacts, HasFile, Ended, Issue
<1>3. ThreadShape(c)' BY <1>1, ThreadFrame
<1>4. up => c2s'[c] = <<m>>
  <2>1. up => c2s[c] = <<>> BY <1>1 DEF InStepAt, Lockstep
  <2> QED BY <1>1, <2>1, AppendEmpty
<1>5. up' => Lockstep(c)' BY <1>1, <1>4 DEF InStepAt, Lockstep, At, Offered, PutTail, serverVars
<1> QED BY <1>2, <1>3, <1>5 DEF InStepAt

\* Every step of a client keeps its session in step.
LEMMA ClientStepInStep ==
  ASSUME TypeOK, NEW c \in Clients, InStepAt(c), ClientStep(c), UNCHANGED serverVars
  PROVE  InStepAt(c)'
<1>1. CASE BrokenPipe(c) BY <1>1, EndInStep DEF BrokenPipe
<1>2. CASE ServerGone(c) BY <1>2, EndInStep DEF ServerGone
<1>3. CASE NoAck(c)
  <2>1. pc'[c] = "prompt" /\ ~up /\ UNCHANGED <<netVars, cmd, lfs>> /\ pc[c] \in {"ack", "ack2"}
    BY <1>3 DEF NoAck, Goto, TypeOK, ClientTypeOK, ServerSilent
  <2>2. ClientShape(c)' BY <2>1 DEF InStepAt, ClientShape, ClientFacts, HasFile, Ended, netVars
  <2>3. ThreadShape(c)' BY <2>1, ThreadFrame DEF netVars
  <2> QED BY <2>1, <2>2, <2>3 DEF InStepAt, netVars
<1>4. CASE RecvAck(c)
  <2>1. /\ pc[c] \in {"ack", "ack2"} /\ s2c[c] # <<>>
        /\ s2c'[c] = Tail(s2c[c])
        /\ pc'[c] = IF Head(s2c[c]) = "ACK" THEN AfterAck(c) ELSE "prompt"
        /\ UNCHANGED <<up, ctl, c2s, announced, dcli, dsrv, holders, dq, cmd, lfs, sent>>
    BY <1>4 DEF RecvAck, Goto, TakeToken, TypeOK, NetTypeOK, ClientTypeOK
  <2>2. cmd[c].code \in FirstCodes BY DEF TypeOK, ClientTypeOK, Commands, FirstCodes
  <2>3. ClientShape(c)'
    BY <2>1, <2>2 DEF InStepAt, ClientShape, ClientFacts, HasFile, Ended, FirstCodes, AfterAck
  <2>4. ThreadShape(c)' BY <2>1, ThreadFrame
  <2>5. up' => Lockstep(c)'
    <3> SUFFICES ASSUME up PROVE Lockstep(c)' BY <2>1
    <3>1. CASE pc[c] = "ack"
      <4>1. Head(s2c[c]) = "ACK" BY <2>1, <3>1, TailOfReplies DEF InStepAt, Lockstep, At, Offered
      <4>2. CASE cmd[c].code = "GET"
        <5>1. \/ At(c, "get", <<"ACK">>)
              \/ At(c, "recv", <<"ACK", "BAD">>)
              \/ At(c, "code", <<"ACK", "ACK", "SIZE">>)
          BY <2>1, <3>1, <4>2 DEF InStepAt, Lockstep, At
        <5>2. pc'[c] = "verdict" BY <2>1, <3>1, <4>1, <4>2 DEF AfterAck
        <5>3. \/ At(c, "get", Tail(<<"ACK">>))'
              \/ At(c, "recv", Tail(<<"ACK", "BAD">>))'
              \/ At(c, "code", Tail(<<"ACK", "ACK", "SIZE">>))'
          BY <2>1, <5>1, ReadReply
        <5>4. \/ At(c, "get", <<>>)'
              \/ At(c, "recv", <<"BAD">>)'
              \/ At(c, "code", <<"ACK", "SIZE">>)'
          BY <5>3, TailOfReplies
        <5> QED BY <5>2, <5>4 DEF Lockstep
      <4>3. CASE cmd[c].code = "PUT"
        <5>1. At(c, "code", <<"ACK">>) BY <2>1, <3>1, <4>3 DEF InStepAt, Lockstep, At
        <5>2. pc'[c] = "tfile" BY <2>1, <3>1, <4>1, <4>3 DEF AfterAck
        <5>3. At(c, "code", <<>>)' BY <2>1, <5>1, TailOfReplies DEF At, serverVars
        <5> QED BY <5>2, <5>3 DEF Lockstep
      <4>4. CASE cmd[c].code \in {"LIST", "CWD", "CD"}
        <5>1. At(c, "listen", <<"ACK">>) \/ Offered(c, <<"ACK", "PORT">>)
          BY <2>1, <3>1, <4>4 DEF InStepAt, Lockstep, At
        <5>2. pc'[c] = "port" BY <2>1, <3>1, <4>1, <4>4 DEF AfterAck
        <5>3. \/ At(c, "listen", Tail(<<"ACK">>))'
              \/ At(c, "accept", Tail(<<"ACK", "PORT">>))' /\ dcli'[c] = "none"
          BY <2>1, <5>1, ReadReply DEF Offered
        <5>4. At(c, "listen", <<>>)' \/ Offered(c, <<"PORT">>)'
          BY <5>3, TailOfReplies DEF Offered
        <5> QED BY <5>2, <5>4 DEF Lockstep
      <4> QED BY <2>2, <4>2, <4>3, <4>4 DEF FirstCodes
    <3>2. CASE pc[c] = "ack2"
      <4>1. At(c, "listen", <<"ACK">>) \/ Offered(c, <<"ACK", "PORT">>)
        BY <2>1, <3>2 DEF InStepAt, Lockstep, At
      <4>2. Head(s2c[c]) = "ACK" BY <4>1, TailOfReplies DEF At, Offered
      <4>3. pc'[c] = "port" BY <2>1, <3>2, <4>2 DEF AfterAck
      <4>4. \/ At(c, "listen", Tail(<<"ACK">>))'
            \/ At(c, "accept", Tail(<<"ACK", "PORT">>))' /\ dcli'[c] = "none"
        BY <2>1, <4>1, ReadReply DEF Offered
      <4>5. At(c, "listen", <<>>)' \/ Offered(c, <<"PORT">>)'
        BY <4>4, TailOfReplies DEF Offered
      <4> QED BY <4>3, <4>5 DEF Lockstep
    <3> QED BY <2>1, <3>1, <3>2
  <2> QED BY <2>3, <2>4, <2>5 DEF InStepAt
<1>5. CASE RecvVerdict(c)
  <2>1. /\ pc[c] = "verdict" /\ s2c[c] # <<>>
        /\ s2c'[c] = Tail(s2c[c])
        /\ pc'[c] = IF Head(s2c[c]) = "ACK" THEN "size" ELSE "prompt"
        /\ UNCHANGED <<up, ctl, c2s, announced, dcli, dsrv, holders, dq, cmd, sent>>
    BY <1>5 DEF RecvVerdict, Goto, TakeToken, TypeOK, NetTypeOK, ClientTypeOK
  <2>2. ClientShape(c)'
    <3>1. cmd[c].code = "GET" BY <2>1 DEF InStepAt, ClientShape, ClientFacts
    <3>2. cmd[c].name \in Names BY <3>1 DEF TypeOK, ClientTypeOK, Commands
    <3>3. pc'[c] = "size" => lfs'[c][cmd[c].name] # NoFile
      <4>1. <<>> # NoFile
        <5>1. <<>> \in Seq(Chunk) OBVIOUS
        <5> QED BY <5>1, NotNoFile
      <4> QED BY <1>5, <2>1, <3>2, <4>1 DEF RecvVerdict, TypeOK, ClientTypeOK
    <3> QED BY <2>1, <3>1, <3>3 DEF InStepAt, ClientShape, ClientFacts, HasFile, Ended
  <2>3. ThreadShape(c)' BY <2>1, ThreadFrame
  <2>4. up' => Lockstep(c)'
    <3> SUFFICES ASSUME up PROVE Lockstep(c)' BY <2>1
    <3>1. At(c, "recv", <<"BAD">>) \/ At(c, "code", <<"ACK", "SIZE">>)
      BY <2>1 DEF InStepAt, Lockstep, At
    <3>2. CASE At(c, "recv", <<"BAD">>)
      <4>1. pc'[c] = "prompt" /\ s2c'[c] = <<>> BY <2>1, <3>2, TailOfReplies DEF At
      <4>2. ctl[c] = "open" BY <2>1 DEF InStepAt, ClientShape, ClientFacts, Ended
      <4> QED BY <2>1, <3>2, <4>1, <4>2 DEF At, Lockstep, serverVars
    <3>3. CASE At(c, "code", <<"ACK", "SIZE">>)
      <4>1. pc'[c] = "size" /\ s2c'[c] = <<"SIZE">> BY <2>1, <3>3, TailOfReplies DEF At
      <4> QED BY <2>1, <3>3, <4>1 DEF At, Lockstep, serverVars
    <3> QED BY <3>1, <3>2, <3>3
  <2> QED BY <2>2, <2>3, <2>4 DEF InStepAt
<1>6. CASE RecvSize(c)
  <2>1. /\ pc[c] = "size" /\ s2c[c] # <<>> /\ pc'[c] = "sfile"
        /\ s2c'[c] = Tail(s2c[c])
        /\ UNCHANGED <<up, ctl, c2s, announced, dcli, dsrv, holders, dq, cmd, lfs, sent>>
    BY <1>6 DEF RecvSize, Goto, TakeToken, TypeOK, NetTypeOK, ClientTypeOK
  <2>2. ClientShape(c)' BY <2>1 DEF InStepAt, ClientShape, ClientFacts, HasFile, Ended
  <2>3. ThreadShape(c)' BY <2>1, ThreadFrame
  <2>4. up' => Lockstep(c)'
    <3>1. up => At(c, "code", <<"SIZE">>) BY <2>1 DEF InStepAt, Lockstep
    <3>2. up => At(c, "code", <<>>)' BY <2>1, <3>1, TailOfReplies DEF At, serverVars
    <3> QED BY <2>1, <3>2 DEF Lockstep
  <2> QED BY <2>2, <2>3, <2>4 DEF InStepAt
<1>7. CASE SendCode2(c)
  <2>1. /\ pc[c] \in {"sfile", "tfile"} /\ pc'[c] = "ack2"
        /\ c2s'[c] = Append(c2s[c],
             [code |-> IF pc[c] = "sfile" THEN "SFILE" ELSE "TFILE", name |-> cmd[c].name])
        /\ UNCHANGED <<up, ctl, s2c, announced, dcli, dsrv, holders, dq, cmd, lfs, sent>>
    BY <1>7 DEF SendCode2, Goto, TypeOK, NetTypeOK, ClientTypeOK
  <2>2. cmd[c].code = IF pc[c] = "sfile" THEN "GET" ELSE "PUT" BY <2>1 DEF InStepAt, ClientShape, ClientFacts
  <2>3. ClientShape(c)' BY <2>1, <2>2 DEF InStepAt, ClientShape, ClientFacts, HasFile, Ended
  <2>4. ThreadShape(c)' BY <2>1, ThreadFrame
  <2>5. up => c2s'[c] = <<Second(c)>>
    <3>1. up => c2s[c] = <<>> BY <2>1 DEF InStepAt, Lockstep, At
    <3>2. c2s'[c] = Append(c2s[c], Second(c)) BY <2>1, <2>2 DEF Second
    <3> QED BY <3>1, <3>2, AppendEmpty
  <2>6. up' => Lockstep(c)' BY <2>1, <2>5 DEF InStepAt, Lockstep, At, Offered, Second, serverVars
  <2> QED BY <2>3, <2>4, <2>6 DEF InStepAt
<1>8. CASE ConnectData(c)
  <2>1. /\ pc[c] = "port" /\ s2c[c] # <<>>
        /\ pc'[c] = IF cmd[c].code = "PUT" THEN "senddata" ELSE "recvdata"
        /\ s2c'[c] = Tail(s2c[c]) /\ dcli'[c] = "open"
        /\ UNCHANGED <<up, ctl, c2s, announced, dsrv, holders, dq, cmd, lfs>>
    BY <1>8 DEF ConnectData, Goto, TakeToken, TypeOK, NetTypeOK, ClientTypeOK
  <2>2. ClientShape(c)' BY <2>1 DEF InStepAt, ClientShape, ClientFacts, HasFile, Ended
  <2>3. ThreadShape(c)' BY <2>1, ThreadFrame
  <2>4. up' => Lockstep(c)'
    <3>1. up => At(c, "accept", <<"PORT">>) BY <2>1 DEF InStepAt, Lockstep, At, Offered
    <3>2. up => At(c, "accept", <<>>)' BY <2>1, <3>1, TailOfReplies DEF At, serverVars
    <3> QED BY <2>1, <3>2 DEF Lockstep
  <2> QED BY <2>2, <2>3, <2>4 DEF InStepAt
<1>9. CASE ConnectRefused(c) BY <1>9, EndInStep DEF ConnectRefused
<1>10. CASE RecvBlock(c)
  <2>1. /\ pc[c] = "recvdata"
        /\ UNCHANGED <<up, ctl, c2s, s2c, announced, dcli, dsrv, holders, pc, cmd, sent>>
    BY <1>10 DEF RecvBlock
  <2>2. ClientShape(c)'
    <3>1. CASE cmd[c].code = "GET"
      <4>1. cmd[c].name \in Names /\ lfs[c][cmd[c].name] \in Seq(Chunk)
        <5>1. cmd[c].name \in Names BY <3>1 DEF TypeOK, ClientTypeOK, Commands
        <5>2. lfs[c][cmd[c].name] # NoFile BY <2>1, <3>1 DEF InStepAt, ClientShape, ClientFacts, HasFile
        <5> QED BY <5>1, <5>2 DEF TypeOK, ClientTypeOK, Content
      <4>2. Head(dq[c]) \in Chunk BY <1>10 DEF RecvBlock, TypeOK, NetTypeOK
      <4>3. lfs'[c][cmd[c].name] = Append(lfs[c][cmd[c].name], Head(dq[c]))
        BY <1>10, <3>1, <4>1 DEF RecvBlock, TypeOK, ClientTypeOK
      <4>4. Append(lfs[c][cmd[c].name], Head(dq[c])) \in Seq(Chunk) BY <4>1, <4>2
      <4>5. lfs'[c][cmd[c].name] # NoFile BY <4>3, <4>4, NotNoFile
      <4> QED BY <2>1, <3>1, <4>5 DEF InStepAt, ClientShape, ClientFacts, HasFile, Ended
    <3>2. CASE cmd[c].code # "GET"
      BY <1>10, <2>1, <3>2 DEF RecvBlock, InStepAt, ClientShape, ClientFacts, HasFile, Ended
    <3> QED BY <3>1, <3>2
  <2>3. ThreadShape(c)' BY <2>1, ThreadFrame
  <2>4. up' => Lockstep(c)' BY <2>1 DEF InStepAt, Lockstep, At, serverVars
  <2> QED BY <2>2, <2>3, <2>4 DEF InStepAt
<1>11. CASE RecvEOF(c)
  <2>1. /\ pc[c] = "recvdata" /\ pc'[c] = "prompt" /\ dcli'[c] = "shut"
        /\ ~up \/ dsrv[c] = "shut"
        /\ UNCHANGED <<up, ctl, c2s, s2c, announced, dsrv, holders, dq, cmd, lfs, sent>>
    BY <1>11 DEF RecvEOF, Goto, ServerEndGone, TypeOK, NetTypeOK, ClientTypeOK
  <2>2. ClientShape(c)' BY <2>1 DEF InStepAt, ClientShape, ClientFacts, HasFile, Ended
  <2>3. ThreadShape(c)' BY <2>1, ThreadFrame
  <2>4. up' => Lockstep(c)'
    <3>1. up => spc[c] = "recv" BY <2>1 DEF InStepAt, ThreadShape, ThreadFacts, Lockstep, At
    <3> QED BY <2>1, <3>1 DEF InStepAt, ClientShape, ClientFacts, Ended, Lockstep, At, Offered, serverVars
  <2> QED BY <2>2, <2>3, <2>4 DEF InStepAt
<1>12. CASE RecvReset(c)
  <2>1. CASE EndProcess(c, "dead") BY <2>1, EndInStep
  <2>2. CASE ~EndProcess(c, "dead")
    <3>1. /\ pc[c] = "recvdata" /\ pc'[c] = "prompt" /\ dcli'[c] = "shut"
          /\ ~up
          /\ UNCHANGED <<up, ctl, c2s, s2c, announced, dsrv, holders, dq, cmd, lfs, sent>>
      BY <1>12, <2>2 DEF RecvReset, Goto, ServerEndGone, TypeOK, NetTypeOK, ClientTypeOK
    <3>2. ClientShape(c)' BY <3>1 DEF InStepAt, ClientShape, ClientFacts, HasFile, Ended
    <3>3. ThreadShape(c)' BY <3>1, ThreadFrame
    <3> QED BY <3>1, <3>2, <3>3 DEF InStepAt
  <2> QED BY <2>1, <2>2
<1>13. CASE SendBlock(c)
  <2>1. UNCHANGED <<up, ctl, c2s, s2c, announced, dcli, dsrv, holders, pc, cmd, lfs>>
    BY <1>13 DEF SendBlock
  <2> QED BY <2>1, Frame DEF Same, InStepAt, ThreadShape, ThreadFacts, serverVars
<1>14. CASE SendEOF(c)
  <2>1. /\ pc[c] = "senddata" /\ pc'[c] = "prompt" /\ dcli'[c] = "shut"
        /\ UNCHANGED <<up, ctl, c2s, s2c, announced, dsrv, holders, dq, cmd, lfs, sent>>
    BY <1>14 DEF SendEOF, Goto, TypeOK, NetTypeOK, ClientTypeOK
  <2>2. ClientShape(c)' BY <2>1 DEF InStepAt, ClientShape, ClientFacts, HasFile, Ended
  <2>3. ThreadShape(c)' BY <2>1, ThreadFrame
  <2>4. up' => Lockstep(c)'
    <3>1. up => PutTail(c)' \/ spc[c] = "recv"
      BY <2>1 DEF InStepAt, ClientShape, ClientFacts, ThreadShape, ThreadFacts, Lockstep, At, PutTail, serverVars
    <3> QED BY <2>1, <3>1 DEF InStepAt, ClientShape, ClientFacts, Ended, Lockstep, At, Offered, PutTail, serverVars
  <2> QED BY <2>2, <2>3, <2>4 DEF InStepAt
<1> QED BY <1>1, <1>2, <1>3, <1>4, <1>5, <1>6, <1>7, <1>8, <1>9, <1>10, <1>11, <1>12, <1>13, <1>14
     DEF ClientStep

-----------------------------------------------------------------------------
\* Sequences of two and of three replies are their elements, in order.
LEMMA Pair ==
  ASSUME NEW s \in Seq(Tokens), Len(s) = 2 PROVE s = <<s[1], s[2]>>
OBVIOUS

\* Sequences of two and of three replies are their elements, in order.
LEMMA Triple ==
  ASSUME NEW s \in Seq(Tokens), Len(s) = 3 PROVE s = <<s[1], s[2], s[3]>>
OBVIOUS

\* The replies that can be on the wire, with those a handler adds.
LEMMA AddReply ==
  ASSUME NEW x \in Tokens, NEW y \in Tokens, NEW z \in Tokens
  PROVE  /\ <<>> \o <<x>> = <<x>> /\ <<>> \o <<x, y>> = <<x, y>>
         /\ <<x>> \o <<y>> = <<x, y>> /\ <<x>> \o <<y, z>> = <<x, y, z>>
<1>1. <<x>> \in Seq(Tokens) /\ <<y>> \in Seq(Tokens) /\ <<y, z>> \in Seq(Tokens) OBVIOUS
<1>2. <<>> \o <<x>> = <<x>> OBVIOUS
<1>3. <<>> \o <<x, y>> = <<x, y>> OBVIOUS
<1>4. <<x>> \o <<y>> = <<x, y>>
  <2> DEFINE s == <<x>> \o <<y>>
  <2>1. s \in Seq(Tokens) /\ Len(s) = 2 BY <1>1
  <2>2. s[1] = x /\ s[2] = y BY <1>1
  <2> QED BY <2>1, <2>2, Pair
<1>5. <<x>> \o <<y, z>> = <<x, y, z>>
  <2> DEFINE s == <<x>> \o <<y, z>>
  <2>1. s \in Seq(Tokens) /\ Len(s) = 3 BY <1>1
  <2>2. s[1] = x /\ s[2] = y /\ s[3] = z BY <1>1
  <2> QED BY <2>1, <2>2, Triple
<1> QED BY <1>2, <1>3, <1>4, <1>5

\* When err_exit() ends the server, what remains of the invariant holds.
LEMMA ErrExitInStep ==
  ASSUME NEW c \in Clients, InStepAt(c), ErrExit, UNCHANGED clientVars
  PROVE  InStepAt(c)'
<1>1. Same(c) /\ up' = FALSE /\ fs' = fs BY DEF Same, ErrExit, clientVars, serverVars
<1> QED BY <1>1, Frame DEF InStepAt, ThreadShape, ThreadFacts

\* A reply reaches a client that lives, and changes nothing else about it.
LEMMA ReplyShape ==
  ASSUME TypeOK, NEW c \in Clients, InStepAt(c), NEW toks, Reply(c, toks),
         UNCHANGED clientVars, UNCHANGED dcli
  PROVE  /\ ClientShape(c)'
         /\ ~Ended(c) => s2c'[c] = s2c[c] \o toks /\ ctl'[c] = "open"
<1>1. /\ s2c'[c] = IF ctl[c] = "open" THEN s2c[c] \o toks ELSE s2c[c]
      /\ ctl'[c] = IF ctl[c] = "fin" THEN "lost" ELSE ctl[c]
  BY DEF Reply, TypeOK, NetTypeOK
<1>2. Ended(c) <=> ctl[c] # "open" BY DEF InStepAt, ClientShape, ClientFacts
<1>3. ClientShape(c)' BY <1>1, <1>2 DEF InStepAt, ClientShape, ClientFacts, HasFile, Ended, clientVars
<1> QED BY <1>1, <1>2, <1>3

\* Where the client is when its thread is about to reply.
LEMMA Replying ==
  ASSUME TypeOK, NEW c \in Clients, InStepAt(c), up, pc[c] # "dead"
  PROVE  /\ spc[c] = "ack" => pc[c] = "ack" /\ At(c, "ack", <<>>)
         /\ spc[c] = "get" => \/ pc[c] = "ack" /\ At(c, "get", <<"ACK">>)
                              \/ pc[c] = "verdict" /\ At(c, "get", <<>>)
         /\ spc[c] = "codeok" => pc[c] = "ack2" /\ At(c, "codeok", <<>>)
         /\ spc[c] # "codebad"
         /\ spc[c] = "listen" => \/ /\ pc[c] = "ack" /\ At(c, "listen", <<"ACK">>)
                                    /\ cmd[c].code \in {"LIST", "CWD", "CD"}
                                 \/ pc[c] = "ack2" /\ At(c, "listen", <<"ACK">>)
                                 \/ pc[c] = "port" /\ At(c, "listen", <<>>)
<1>1. pc[c] \in ClientPCs BY DEF TypeOK, ClientTypeOK
<1>2. Lockstep(c) BY DEF InStepAt
<1>3. spc[c] = "ack" => pc[c] = "ack" /\ At(c, "ack", <<>>)
  BY <1>1, <1>2 DEF Lockstep, At, Offered, PutTail, ClientPCs
<1>4. spc[c] = "get" => \/ pc[c] = "ack" /\ At(c, "get", <<"ACK">>)
                        \/ pc[c] = "verdict" /\ At(c, "get", <<>>)
  BY <1>1, <1>2 DEF Lockstep, At, Offered, PutTail, ClientPCs
<1>5. spc[c] = "codeok" => pc[c] = "ack2" /\ At(c, "codeok", <<>>)
  BY <1>1, <1>2 DEF Lockstep, At, Offered, PutTail, ClientPCs
<1>6. spc[c] # "codebad"
  BY <1>1, <1>2 DEF Lockstep, At, Offered, PutTail, ClientPCs
<1>7. spc[c] = "listen" => \/ /\ pc[c] = "ack" /\ At(c, "listen", <<"ACK">>)
                              /\ cmd[c].code \in {"LIST", "CWD", "CD"}
                           \/ pc[c] = "ack2" /\ At(c, "listen", <<"ACK">>)
                           \/ pc[c] = "port" /\ At(c, "listen", <<>>)
  BY <1>1, <1>2 DEF Lockstep, At, Offered, PutTail, ClientPCs
<1> QED BY <1>3, <1>4, <1>5, <1>6, <1>7

\* send_ack() of handle_cmd, for a request of any kind, keeps the session in step.
LEMMA AckInStep ==
  ASSUME TypeOK, NEW c \in Clients, InStepAt(c), SrvAck(c), UNCHANGED clientVars
  PROVE  InStepAt(c)'
<1> DEFINE l == CASE req[c].code \in {"LIST", "CWD", "CD"} -> "listen"
                  [] req[c].code = "GET" -> "get"
                  [] req[c].code = "PUT" -> "code"
                  [] OTHER -> "recv"
<1>1. up /\ spc[c] = "ack" /\ SendOrExit(c, "ACK", l) BY DEF SrvAck
<1>2. CASE ErrExit BY <1>2, ErrExitInStep
<1>3. CASE ~ErrExit
  <2>1. /\ Reply(c, <<"ACK">>) /\ spc'[c] = l
        /\ UNCHANGED <<up, c2s, announced, dcli, dsrv, holders, dq, req, cwd, fs, off, touched>>
    BY <1>1, <1>3 DEF SendOrExit, Step, TypeOK, ServerTypeOK
  <2>2. ClientShape(c)' BY <2>1, ReplyShape
  <2>3. req[c].code \in FirstCodes \cup SecondCodes
    BY DEF TypeOK, ServerTypeOK, Request, Commands, FirstCodes, SecondCodes
  <2>4. ThreadShape(c)'
    <3>1. l \in {"listen", "get", "code", "recv"} OBVIOUS
    <3>2. /\ l = "listen" => req[c].code \in {"LIST", "CWD", "CD"}
          /\ l = "get" => req[c].code = "GET"
          /\ l = "code" => req[c].code = "PUT"
      BY <2>3 DEF FirstCodes, SecondCodes
    <3> HIDE DEF l
    <3> QED BY <1>1, <2>1, <3>1, <3>2 DEF InStepAt, ThreadShape, ThreadFacts, Gettable, FirstCodes
  <2>5. up' => Lockstep(c)'
    <3>1. CASE pc[c] = "dead" BY <3>1 DEF Lockstep, clientVars
    <3>2. CASE pc[c] # "dead"
      <4>1. pc[c] = "ack" /\ At(c, "ack", <<>>) BY <1>1, <3>2, Replying
      <4>2. s2c'[c] = <<>> \o <<"ACK">> BY <2>1, <4>1, ReplyShape DEF At, Ended
      <4>3. s2c'[c] = <<"ACK">> BY <4>2, AddReply DEF Tokens
      <4>4. cmd[c].code \in FirstCodes BY DEF TypeOK, ClientTypeOK, Commands, FirstCodes
      <4>5. spc'[c] = l BY <2>1
      <4>6. \/ cmd[c].code = "GET" /\ l = "get"
            \/ cmd[c].code = "PUT" /\ l = "code"
            \/ cmd[c].code \in {"LIST", "CWD", "CD"} /\ l = "listen"
        BY <4>1, <4>4 DEF At, FirstCodes
      <4> HIDE DEF l
      <4>7. pc'[c] = "ack" /\ cmd' = cmd BY <4>1 DEF clientVars
      <4>8. \/ cmd'[c].code = "GET" /\ At(c, "get", <<"ACK">>)'
            \/ cmd'[c].code = "PUT" /\ At(c, "code", <<"ACK">>)'
            \/ cmd'[c].code \in {"LIST", "CWD", "CD"} /\ At(c, "listen", <<"ACK">>)'
        BY <2>1, <4>1, <4>3, <4>5, <4>6, <4>7 DEF At
      <4> QED BY <4>7, <4>8 DEF Lockstep
    <3> QED BY <3>1, <3>2
  <2> QED BY <2>2, <2>4, <2>5 DEF InStepAt
<1> QED BY <1>2, <1>3

\* handle_get's BAD, or ACK and size, keep the session in step.
LEMMA GetInStep ==
  ASSUME TypeOK, NEW c \in Clients, InStepAt(c), SrvGet(c), UNCHANGED clientVars
  PROVE  InStepAt(c)'
<1> DEFINE file == fs[cwd[c]][req[c].name]
<1>1. up /\ spc[c] = "get" BY DEF SrvGet
<1>2. req[c].code = "GET" BY <1>1 DEF InStepAt, ThreadShape, ThreadFacts
<1>3. CASE ErrExit BY <1>3, ErrExitInStep
<1>4. CASE ~ErrExit /\ file = NoFile
  <2>1. /\ Reply(c, <<"BAD">>) /\ spc'[c] = "recv"
        /\ UNCHANGED <<up, c2s, announced, dcli, dsrv, holders, dq, req, cwd, fs, off, touched>>
    BY <1>4 DEF SrvGet, SendOrExit, Step, TypeOK, ServerTypeOK
  <2>2. ClientShape(c)' BY <2>1, ReplyShape
  <2>3. ThreadShape(c)' BY <1>1, <1>2, <2>1 DEF InStepAt, ThreadShape, ThreadFacts, Gettable
  <2>4. up' => Lockstep(c)'
    <3>1. CASE pc[c] = "dead" BY <3>1 DEF Lockstep, clientVars
    <3>2. CASE pc[c] = "ack" /\ At(c, "get", <<"ACK">>)
      <4>1. s2c'[c] = <<"ACK">> \o <<"BAD">> BY <2>1, <3>2, ReplyShape DEF At, Ended
      <4>2. s2c'[c] = <<"ACK", "BAD">> BY <4>1, AddReply DEF Tokens
      <4> QED BY <1>2, <2>1, <3>2, <4>2 DEF Lockstep, At, clientVars
    <3>3. CASE pc[c] = "verdict" /\ At(c, "get", <<>>)
      <4>1. s2c'[c] = <<>> \o <<"BAD">> BY <2>1, <3>3, ReplyShape DEF At, Ended
      <4>2. s2c'[c] = <<"BAD">> BY <4>1, AddReply DEF Tokens
      <4> QED BY <2>1, <3>3, <4>2 DEF Lockstep, At, clientVars
    <3> QED BY <1>1, <3>1, <3>2, <3>3, Replying
  <2> QED BY <2>2, <2>3, <2>4 DEF InStepAt
<1>5. CASE ~ErrExit /\ file # NoFile
  <2>1. /\ Reply(c, <<"ACK", "SIZE">>) /\ spc'[c] = "code"
        /\ UNCHANGED <<up, c2s, dcli, dsrv, holders, dq, req, cwd, fs, off>>
    BY <1>5 DEF SrvGet, Step, TypeOK, ServerTypeOK
  <2>2. ClientShape(c)' BY <2>1, ReplyShape
  <2>3. ThreadShape(c)' BY <1>1, <1>2, <1>5, <2>1 DEF InStepAt, ThreadShape, ThreadFacts, Gettable
  <2>4. up' => Lockstep(c)'
    <3>1. CASE pc[c] = "dead" BY <3>1 DEF Lockstep, clientVars
    <3>2. CASE pc[c] = "ack" /\ At(c, "get", <<"ACK">>)
      <4>1. s2c'[c] = <<"ACK">> \o <<"ACK", "SIZE">> BY <2>1, <3>2, ReplyShape DEF At, Ended
      <4>2. s2c'[c] = <<"ACK", "ACK", "SIZE">> BY <4>1, AddReply DEF Tokens
      <4> QED BY <1>2, <2>1, <3>2, <4>2 DEF Lockstep, At, clientVars
    <3>3. CASE pc[c] = "verdict" /\ At(c, "get", <<>>)
      <4>1. s2c'[c] = <<>> \o <<"ACK", "SIZE">> BY <2>1, <3>3, ReplyShape DEF At, Ended
      <4>2. s2c'[c] = <<"ACK", "SIZE">> BY <4>1, AddReply DEF Tokens
      <4> QED BY <2>1, <3>3, <4>2 DEF Lockstep, At, clientVars
    <3> QED BY <1>1, <3>1, <3>2, <3>3, Replying
  <2> QED BY <2>2, <2>3, <2>4 DEF InStepAt
<1> QED BY <1>3, <1>4, <1>5

\* The answer to the second code of a get or put keeps the session in step.
LEMMA CodeReplyInStep ==
  ASSUME TypeOK, NEW c \in Clients, InStepAt(c), SrvCodeReply(c), UNCHANGED clientVars
  PROVE  InStepAt(c)'
<1>1. up /\ spc[c] \in {"codeok", "codebad"} BY DEF SrvCodeReply
<1>2. CASE ErrExit BY <1>2, ErrExitInStep
<1>3. CASE ~ErrExit
  <2> DEFINE tok == IF spc[c] = "codeok" THEN "ACK" ELSE "BAD"
             l == IF spc[c] = "codeok" THEN "listen" ELSE "recv"
  <2>1. /\ Reply(c, <<tok>>) /\ spc'[c] = l
        /\ UNCHANGED <<up, c2s, announced, dcli, dsrv, holders, dq, req, cwd, fs, off, touched>>
    BY <1>3 DEF SrvCodeReply, SendOrExit, Step, TypeOK, ServerTypeOK
  <2>2. ClientShape(c)' BY <2>1, ReplyShape
  <2>3. ThreadShape(c)' BY <1>1, <2>1 DEF InStepAt, ThreadShape, ThreadFacts, Gettable, FirstCodes
  <2>4. up' => Lockstep(c)'
    <3>1. CASE pc[c] = "dead" BY <3>1 DEF Lockstep, clientVars
    <3>2. CASE pc[c] # "dead"
      <4>1. spc[c] = "codeok" /\ pc[c] = "ack2" /\ At(c, "codeok", <<>>)
        BY <1>1, <3>2, Replying
      <4>2. s2c'[c] = <<>> \o <<"ACK">> BY <2>1, <4>1, ReplyShape DEF At, Ended
      <4>3. s2c'[c] = <<"ACK">> BY <4>2, AddReply DEF Tokens
      <4> QED BY <2>1, <4>1, <4>3 DEF Lockstep, At, clientVars
    <3> QED BY <3>1, <3>2
  <2> QED BY <2>2, <2>3, <2>4 DEF InStepAt
<1> QED BY <1>2, <1>3

\* Opening the listening socket and sending its port keep the session in step.
LEMMA ListenInStep ==
  ASSUME TypeOK, NEW c \in Clients, InStepAt(c), SrvListen(c), UNCHANGED clientVars
  PROVE  InStepAt(c)'
<1>1. /\ up /\ spc[c] = "listen" /\ spc'[c] = "accept"
      /\ Reply(c, <<"PORT">>)
      /\ dsrv'[c] = "listen" /\ dcli'[c] = "none"
      /\ UNCHANGED <<up, c2s, announced, req, cwd, fs, off, touched>>
  BY DEF SrvListen, Step, TypeOK, NetTypeOK, ServerTypeOK
<1>2. /\ s2c'[c] = IF ctl[c] = "open" THEN s2c[c] \o <<"PORT">> ELSE s2c[c]
      /\ ctl'[c] = IF ctl[c] = "fin" THEN "lost" ELSE ctl[c]
  BY <1>1 DEF Reply, TypeOK, NetTypeOK
<1>3. pc[c] \notin {"recvdata", "senddata"} BY <1>1 DEF InStepAt, Lockstep, At
<1>4. ClientShape(c)' BY <1>1, <1>2, <1>3 DEF InStepAt, ClientShape, ClientFacts, HasFile, Ended, clientVars
<1>5. ThreadShape(c)' BY <1>1 DEF InStepAt, ThreadShape, ThreadFacts, Gettable
<1>6. up' => Lockstep(c)'
  <2>1. CASE pc[c] = "dead" BY <2>1 DEF Lockstep, clientVars
  <2>2. CASE pc[c] # "dead"
    <3>1. \/ /\ pc[c] = "ack" /\ At(c, "listen", <<"ACK">>)
             /\ cmd[c].code \in {"LIST", "CWD", "CD"}
          \/ pc[c] = "ack2" /\ At(c, "listen", <<"ACK">>)
          \/ pc[c] = "port" /\ At(c, "listen", <<>>)
      BY <1>1, <2>2, Replying
    <3>2. s2c'[c] = s2c[c] \o <<"PORT">> BY <1>2, <3>1 DEF InStepAt, ClientShape, ClientFacts, Ended
    <3>3. CASE pc[c] \in {"ack", "ack2"}
      <4>1. s2c'[c] = <<"ACK">> \o <<"PORT">> BY <3>1, <3>2, <3>3 DEF At
      <4>2. s2c'[c] = <<"ACK", "PORT">> BY <4>1, AddReply DEF Tokens
      <4>3. Offered(c, <<"ACK", "PORT">>)' BY <1>1, <3>1, <4>2 DEF Offered, At, clientVars
      <4> QED BY <3>1, <3>3, <4>3 DEF Lockstep, clientVars
    <3>4. CASE pc[c] = "port"
      <4>1. s2c'[c] = <<>> \o <<"PORT">> BY <3>1, <3>2, <3>4 DEF At
      <4>2. s2c'[c] = <<"PORT">> BY <4>1, AddReply DEF Tokens
      <4>3. Offered(c, <<"PORT">>)' BY <1>1, <3>1, <4>2 DEF Offered, At, clientVars
      <4> QED BY <3>4, <4>3 DEF Lockstep, clientVars
    <3> QED BY <3>1, <3>3, <3>4
  <2> QED BY <2>1, <2>2
<1> QED BY <1>4, <1>5, <1>6 DEF InStepAt

-----------------------------------------------------------------------------
\* A thread with an accepted data connection moves on to l.
LEMMA DataStep ==
  ASSUME TypeOK, NEW c \in Clients, InStepAt(c), UNCHANGED clientVars, up,
         UNCHANGED <<up, ctl, c2s, s2c, dcli, req>>,
         spc[c] \in {"accept", "serve", "ls", "tx", "rx"},
         spc[c] = "accept" => dcli[c] # "none",
         NEW l \in {"serve", "ls", "tx", "rx", "recv"}, spc'[c] = l,
         dsrv'[c] = IF l = "recv" THEN "shut" ELSE "open",
         l = "serve" => spc[c] = "accept",
         l = "ls" => req[c].code = "LIST",
         l = "tx" => req[c].code = "GET",
         l = "rx" => req[c].code = "PUT",
         l = "rx" \/ (l \in {"serve", "tx"} /\ req[c].code = "GET")
           => fs'[cwd'[c]][req[c].name] # NoFile
  PROVE  InStepAt(c)'
<1>1. ClientShape(c)' BY DEF InStepAt, ClientShape, ClientFacts, HasFile, Ended, clientVars
<1>2. ThreadShape(c)' BY DEF InStepAt, ThreadShape, ThreadFacts, Gettable
<1>3. Lockstep(c)'
  <2>1. CASE pc[c] = "dead" BY <2>1 DEF Lockstep, clientVars
  <2>2. CASE pc[c] \in {"recvdata", "senddata"}
    <3>1. At(c, spc[c], <<>>) BY <2>2 DEF InStepAt, Lockstep, At
    <3>2. At(c, l, <<>>)' BY <3>1 DEF At, clientVars
    <3> QED BY <2>2, <3>2 DEF Lockstep, clientVars
  <2>3. CASE pc[c] \in {"prompt", "quit", "ack"}
    <3>1. PutTail(c) /\ s2c[c] = <<>>
      BY <2>3 DEF InStepAt, Lockstep, At, Offered
    <3>2. spc'[c] = "recv" \/ PutTail(c)' BY <3>1 DEF PutTail
    <3>3. CASE pc[c] \in {"prompt", "quit"}
      BY <3>1, <3>2, <3>3 DEF InStepAt, Lockstep, clientVars
    <3>4. CASE pc[c] = "ack"
      <4>1. c2s[c] = <<cmd[c]>> BY <3>1, <3>4 DEF InStepAt, Lockstep, At, Offered, PutTail
      <4> QED BY <3>1, <3>2, <3>4, <4>1 DEF Lockstep, clientVars
    <3> QED BY <2>3, <3>3, <3>4
  <2>4. pc[c] \in ClientPCs BY DEF TypeOK, ClientTypeOK
  <2>5. pc[c] \notin {"verdict", "size", "sfile", "tfile", "ack2", "port"}
    BY DEF InStepAt, Lockstep, At, Offered
  <2> QED BY <2>1, <2>2, <2>3, <2>4, <2>5 DEF ClientPCs
<1> QED BY <1>1, <1>2, <1>3 DEF InStepAt

\* Reading a request keeps the session in step.
LEMMA RecvInStep ==
  ASSUME TypeOK, NEW c \in Clients, InStepAt(c), SrvRecv(c), UNCHANGED clientVars
  PROVE  InStepAt(c)'
<1>1. /\ up /\ spc[c] = "recv" /\ c2s[c] # <<>>
      /\ spc'[c] = "ack" /\ req'[c] = Head(c2s[c]) /\ c2s'[c] = Tail(c2s[c])
      /\ UNCHANGED <<up, ctl, s2c, announced, dcli, dsrv, holders, dq>>
  BY DEF SrvRecv, Step, TypeOK, NetTypeOK, ServerTypeOK
<1>2. ClientShape(c)' BY <1>1 DEF InStepAt, ClientShape, ClientFacts, HasFile, Ended, clientVars
<1>3. ThreadShape(c)' BY <1>1 DEF InStepAt, ThreadShape, ThreadFacts, Gettable
<1>4. Lockstep(c)'
  <2>1. CASE pc[c] = "dead" BY <2>1 DEF Lockstep, clientVars
  <2>2. CASE pc[c] # "dead"
    <3>1. pc[c] \in ClientPCs BY DEF TypeOK, ClientTypeOK
    <3>2. pc[c] = "ack" /\ c2s[c] = <<cmd[c]>> /\ s2c[c] = <<>>
      BY <1>1, <2>2, <3>1 DEF InStepAt, Lockstep, At, Offered, ClientPCs
    <3>3. req'[c] = cmd[c] /\ c2s'[c] = <<>> BY <1>1, <3>2, TailOfReplies
    <3>4. At(c, "ack", <<>>)' BY <1>1, <3>2, <3>3 DEF At, clientVars
    <3> QED BY <3>2, <3>4 DEF Lockstep, clientVars
  <2> QED BY <2>1, <2>2
<1> QED BY <1>2, <1>3, <1>4 DEF InStepAt

\* The end of a session thread, or of the server, keeps the session in step.
LEMMA HangupInStep ==
  ASSUME TypeOK, NEW c \in Clients, InStepAt(c), SrvHangup(c), UNCHANGED clientVars
  PROVE  InStepAt(c)'
<1>1. CASE ErrExit BY <1>1, ErrExitInStep
<1>2. CASE ~ErrExit
  <2>1. /\ spc[c] = "recv" /\ spc'[c] = "done" /\ ctl[c] \in {"fin", "lost"}
        /\ UNCHANGED <<netVars, req, cwd, fs, off, touched>>
    BY <1>2 DEF SrvHangup, Step, TypeOK, ServerTypeOK
  <2>2. ClientShape(c)' BY <2>1 DEF InStepAt, ClientShape, ClientFacts, HasFile, Ended, clientVars, netVars
  <2>3. ThreadShape(c)' BY <2>1 DEF InStepAt, ThreadShape, ThreadFacts, Gettable, netVars
  <2>4. pc[c] \in {"quit", "dead"} BY <2>1 DEF InStepAt, ClientShape, ClientFacts, Ended
  <2>5. up' => Lockstep(c)' BY <2>1, <2>4 DEF InStepAt, Lockstep, clientVars, netVars
  <2> QED BY <2>2, <2>3, <2>5 DEF InStepAt
<1> QED BY <1>1, <1>2

\* Reading the second code, or the garbage left in the buffer when the client
\* is gone, keeps the session in step.
LEMMA CodeInStep ==
  ASSUME TypeOK, NEW c \in Clients, InStepAt(c), SrvCode(c), UNCHANGED clientVars
  PROVE  InStepAt(c)'
<1>1. /\ up /\ spc[c] = "code"
      /\ UNCHANGED <<up, ctl, s2c, announced, dcli, dsrv, holders, dq>>
      /\ UNCHANGED <<req, cwd, fs, off, touched>>
  BY DEF SrvCode
<1>2. \/ /\ c2s[c] # <<>> /\ c2s'[c] = Tail(c2s[c])
         /\ spc'[c] = IF Head(c2s[c]).code = IF req[c].code = "GET" THEN "SFILE" ELSE "TFILE"
                      THEN "codeok" ELSE "codebad"
      \/ c2s[c] = <<>> /\ ctl[c] # "open" /\ spc'[c] \in {"codeok", "codebad"} /\ c2s' = c2s
  BY DEF SrvCode, Step, TypeOK, NetTypeOK, ServerTypeOK
<1>3. ClientShape(c)' BY <1>1 DEF InStepAt, ClientShape, ClientFacts, HasFile, Ended, clientVars
<1>4. ThreadShape(c)'
  <2>1. spc'[c] \in {"codeok", "codebad"} BY <1>2
  <2> QED BY <1>1, <2>1 DEF InStepAt, ThreadShape, ThreadFacts, Gettable
<1>5. Lockstep(c)'
  <2>1. CASE pc[c] = "dead" BY <2>1 DEF Lockstep, clientVars
  <2>2. CASE pc[c] # "dead"
    <3>1. pc[c] \in ClientPCs BY DEF TypeOK, ClientTypeOK
    <3>2. pc[c] # "quit" BY <1>1 DEF InStepAt, Lockstep, PutTail
    <3>3. ctl[c] = "open" BY <2>2, <3>2 DEF InStepAt, ClientShape, ClientFacts, Ended
    <3>4. c2s[c] # <<>> BY <1>2, <3>3
    <3>5. pc[c] = "ack2" /\ c2s[c] = <<Second(c)>> /\ s2c[c] = <<>> /\ req[c] = cmd[c]
      BY <1>1, <2>2, <3>1, <3>2, <3>4 DEF InStepAt, Lockstep, At, Offered, PutTail, ClientPCs
    <3>6. Head(c2s[c]) = Second(c) /\ Tail(c2s[c]) = <<>> BY <3>5, TailOfReplies
    <3>7. spc'[c] = "codeok" /\ c2s'[c] = <<>> BY <1>2, <3>4, <3>5, <3>6 DEF Second
    <3>8. At(c, "codeok", <<>>)' BY <1>1, <3>5, <3>7 DEF At, clientVars
    <3> QED BY <3>5, <3>8 DEF Lockstep, clientVars
  <2> QED BY <2>1, <2>2
<1> QED BY <1>3, <1>4, <1>5 DEF InStepAt

\* Every step of a session thread keeps its own session in step.
LEMMA ServerStepInStep ==
  ASSUME TypeOK, TypeOK', Facts, NEW c \in Clients, InStepAt(c), ServerStep(c), UNCHANGED clientVars
  PROVE  InStepAt(c)'
<1>1. CASE SrvRecv(c) BY <1>1, RecvInStep
<1>2. CASE SrvHangup(c) BY <1>2, HangupInStep
<1>3. CASE SrvAck(c) BY <1>3, AckInStep
<1>4. CASE SrvGet(c) BY <1>4, GetInStep
<1>5. CASE SrvCode(c) BY <1>5, CodeInStep
<1>6. CASE SrvCodeReply(c) BY <1>6, CodeReplyInStep
<1>7. CASE SrvListen(c) BY <1>7, ListenInStep
<1>8. CASE SrvAccept(c)
  <2>1. /\ up /\ spc[c] = "accept" /\ dcli[c] # "none" /\ spc'[c] = "serve" /\ dsrv'[c] = "open"
        /\ UNCHANGED <<up, ctl, c2s, s2c, announced, dcli, dq, req, cwd, fs, touched>>
    BY <1>8 DEF SrvAccept, Step, TypeOK, NetTypeOK, ServerTypeOK
  <2>2. req[c].code = "GET" => fs[cwd[c]][req[c].name] # NoFile
    BY <2>1 DEF InStepAt, ThreadShape, ThreadFacts, Gettable
  <2> QED BY <2>1, <2>2, DataStep
<1>9. CASE Fork(c)
  <2>1. /\ up /\ spc[c] = "serve" /\ req[c].code = "LIST" /\ spc'[c] = "ls" /\ dsrv' = dsrv
        /\ UNCHANGED <<up, ctl, c2s, s2c, announced, dcli, dq, req, cwd, fs, touched>>
    BY <1>9 DEF Fork, Step, TypeOK, NetTypeOK, ServerTypeOK
  <2>2. dsrv[c] = "open" BY <2>1 DEF InStepAt, ThreadShape, ThreadFacts
  <2> QED BY <2>1, <2>2, DataStep
<1>10. CASE ChildWrite(c)
  <2>1. Same(c) /\ up' = up /\ fs' = fs BY <1>10 DEF ChildWrite, Same, clientVars
  <2> QED BY <2>1, Frame DEF InStepAt, ThreadShape, ThreadFacts
<1>11. CASE ChildEnd(c)
  <2>1. /\ spc[c] = "ls"
        /\ UNCHANGED <<up, ctl, c2s, s2c, announced, dcli, dq, req, cwd, fs, off, touched>>
    BY <1>11 DEF ChildEnd
  <2>2. CASE up
    <3>1. spc'[c] = "recv" /\ dsrv'[c] = "shut"
      BY <1>11, <2>2 DEF ChildEnd, CloseData, Step, TypeOK, NetTypeOK, ServerTypeOK
    <3> QED BY <2>1, <2>2, <3>1, DataStep
  <2>3. CASE ~up
    <3>1. spc'[c] = "done" BY <1>11, <2>3 DEF ChildEnd, Step, TypeOK, ServerTypeOK
    <3>2. ClientShape(c)' BY <2>1 DEF InStepAt, ClientShape, ClientFacts, HasFile, Ended, clientVars
    <3>3. ThreadShape(c)' BY <2>1, <2>3, <3>1 DEF InStepAt, ThreadShape, ThreadFacts, Gettable
    <3> QED BY <2>1, <2>3, <3>2, <3>3 DEF InStepAt
  <2> QED BY <2>2, <2>3
<1>12. CASE SrvPwd(c)
  <2>1. /\ up /\ spc[c] = "serve" /\ spc'[c] = "recv" /\ dsrv'[c] = "shut"
        /\ UNCHANGED <<up, ctl, c2s, s2c, announced, dcli, holders, req, cwd, fs, off, touched>>
    BY <1>12 DEF SrvPwd, CloseData, Step, TypeOK, NetTypeOK, ServerTypeOK
  <2> QED BY <2>1, DataStep
<1>13. CASE SrvCd(c)
  <2>1. /\ up /\ spc[c] = "serve" /\ spc'[c] = "recv" /\ dsrv'[c] = "shut"
        /\ UNCHANGED <<up, ctl, c2s, s2c, announced, dcli, holders, req, fs, off, touched>>
    BY <1>13 DEF SrvCd, CloseData, Step, TypeOK, NetTypeOK, ServerTypeOK
  <2> QED BY <2>1, DataStep
<1>14. CASE SrvOpenGet(c)
  <2>1. /\ up /\ spc[c] = "serve" /\ spc'[c] = "tx" /\ req[c].code = "GET"
        /\ UNCHANGED <<netVars, req, cwd, fs, off, touched>>
    BY <1>14 DEF SrvOpenGet, Step, TypeOK, ServerTypeOK
  <2>2. dsrv[c] = "open" /\ fs[cwd[c]][req[c].name] # NoFile
    BY <2>1 DEF InStepAt, ThreadShape, ThreadFacts, Gettable
  <2> QED BY <2>1, <2>2, DataStep DEF netVars
<1>15. CASE SrvTx(c)
  <2>1. Same(c) /\ up' = up /\ fs' = fs BY <1>15 DEF SrvTx, Same, clientVars
  <2> QED BY <2>1, Frame DEF InStepAt, ThreadShape, ThreadFacts
<1>16. CASE SrvTxEnd(c)
  <2>1. /\ up /\ spc[c] = "tx" /\ spc'[c] = "recv" /\ dsrv'[c] = "shut"
        /\ UNCHANGED <<up, ctl, c2s, s2c, announced, dcli, holders, dq, req, cwd, fs, off, touched>>
    BY <1>16 DEF SrvTxEnd, CloseData, Step, TypeOK, NetTypeOK, ServerTypeOK
  <2> QED BY <2>1, DataStep
<1>17. CASE SrvOpenPut(c)
  <2>1. /\ up /\ spc[c] = "serve" /\ spc'[c] = "rx" /\ req[c].code = "PUT"
        /\ UNCHANGED <<netVars, req, cwd, off>>
    BY <1>17 DEF SrvOpenPut, Step, TypeOK, ServerTypeOK
  <2>2. dsrv[c] = "open" BY <2>1 DEF InStepAt, ThreadShape, ThreadFacts
  <2>3. fs'[cwd[c]][req[c].name] # NoFile
    <3>1. fs' = [fs EXCEPT ![cwd[c]][req[c].name] = <<>>] BY <1>17 DEF SrvOpenPut
    <3>2. req[c].name \in Names /\ cwd[c] \in Tree BY <2>1, RemoteFileType DEF TypeOK, ServerTypeOK
    <3>3. fs'[cwd[c]][req[c].name] = <<>> BY <3>1, <3>2 DEF TypeOK, ServerTypeOK
    <3>4. <<>> \in Seq(Chunk) OBVIOUS
    <3> QED BY <3>3, <3>4, NotNoFile
  <2> QED BY <2>1, <2>2, <2>3, DataStep DEF netVars
<1>18. CASE SrvRefusePut(c)
  <2>1. /\ up /\ spc[c] = "serve" /\ spc'[c] = "recv" /\ dsrv'[c] = "shut"
        /\ UNCHANGED <<up, ctl, c2s, s2c, announced, dcli, holders, dq, req, cwd, fs, off, touched>>
    BY <1>18 DEF SrvRefusePut, CloseData, Step, TypeOK, NetTypeOK, ServerTypeOK
  <2> QED BY <2>1, DataStep
<1>19. CASE SrvRx(c)
  <2> DEFINE file == fs[cwd[c]][req[c].name]
             v == WriteAt(file, off[c], Head(dq[c]))
  <2>1. Same(c) /\ up' = up /\ spc[c] = "rx" /\ req[c].code = "PUT"
    BY <1>19 DEF SrvRx, Same, clientVars, InStepAt, ThreadShape, ThreadFacts
  <2>2. file \in Seq(Chunk) /\ req[c].name \in Names BY <2>1, RemoteFileType DEF Gettable
  <2>3. Head(dq[c]) \in Chunk /\ off[c] \in Nat BY <1>19 DEF SrvRx, TypeOK, NetTypeOK, ServerTypeOK
  <2>4. v \in Seq(Chunk) BY <2>2, <2>3, WriteAtType
  <2>5. cwd[c] \in Tree /\ fs \in [Tree -> [Names -> Content]] BY DEF TypeOK, ServerTypeOK
  <2>6. fs'[cwd[c]][req[c].name] = v BY <1>19, <2>2, <2>5 DEF SrvRx
  <2>7. fs'[cwd[c]][req[c].name] # NoFile BY <2>4, <2>6, NotNoFile
  <2> QED BY <2>1, <2>7, Frame
<1>20. CASE SrvRxEnd(c)
  <2>1. /\ up /\ spc[c] = "rx" /\ spc'[c] = "recv" /\ dsrv'[c] = "shut"
        /\ UNCHANGED <<up, ctl, c2s, s2c, announced, dcli, holders, dq, req, cwd, fs, off, touched>>
    BY <1>20 DEF SrvRxEnd, CloseData, Step, TypeOK, NetTypeOK, ServerTypeOK
  <2> QED BY <2>1, DataStep
<1> QED BY <1>1, <1>2, <1>3, <1>4, <1>5, <1>6, <1>7, <1>8, <1>9, <1>10, <1>11, <1>12, <1>13, <1>14,
           <1>15, <1>16, <1>17, <1>18, <1>19, <1>20 DEF ServerStep

-----------------------------------------------------------------------------
(* The other sessions, and the inductive invariant. *)


\* What a client does touches its own sockets and files only.
LEMMA ClientOthers ==
  ASSUME TypeOK, NEW c \in Clients, NEW j \in Clients, j # c, UNCHANGED serverVars,
         \/ ClientStep(c) \/ Quit(c) \/ Crash(c)
         \/ \E m \in Menu[c] : Issue(c, m)
  PROVE  Same(j) /\ up' = up /\ fs' = fs
<1> USE DEF Same, serverVars, TypeOK, NetTypeOK, ClientTypeOK
<1>1. ASSUME NEW l, EndProcess(c, l) PROVE Same(j) /\ up' = up /\ fs' = fs
  BY <1>1 DEF EndProcess, Goto
<1>2. CASE BrokenPipe(c) BY <1>1, <1>2 DEF BrokenPipe
<1>3. CASE ServerGone(c) BY <1>1, <1>3 DEF ServerGone
<1>4. CASE NoAck(c) BY <1>4 DEF NoAck, Goto, netVars
<1>5. CASE RecvAck(c) BY <1>5 DEF RecvAck, Goto, TakeToken
<1>6. CASE RecvVerdict(c) BY <1>6 DEF RecvVerdict, Goto, TakeToken
<1>7. CASE RecvSize(c) BY <1>7 DEF RecvSize, Goto, TakeToken
<1>8. CASE SendCode2(c) BY <1>8 DEF SendCode2, Goto
<1>9. CASE ConnectData(c) BY <1>9 DEF ConnectData, Goto, TakeToken
<1>10. CASE ConnectRefused(c) BY <1>1, <1>10 DEF ConnectRefused
<1>11. CASE RecvBlock(c) BY <1>11 DEF RecvBlock
<1>12. CASE RecvEOF(c) BY <1>12 DEF RecvEOF, Goto
<1>13. CASE RecvReset(c)
  <2>1. CASE EndProcess(c, "dead") BY <1>1, <2>1
  <2>2. CASE ~EndProcess(c, "dead") BY <1>13, <2>2 DEF RecvReset, Goto
  <2> QED BY <2>1, <2>2
<1>14. CASE SendBlock(c) BY <1>14 DEF SendBlock
<1>15. CASE SendEOF(c) BY <1>15 DEF SendEOF, Goto
<1>16. CASE Quit(c) BY <1>1, <1>16 DEF Quit
<1>17. CASE Crash(c) BY <1>1, <1>17 DEF Crash
<1>18. CASE \E m \in Menu[c] : Issue(c, m) BY <1>18 DEF Issue, Goto
<1> QED BY <1>2, <1>3, <1>4, <1>5, <1>6, <1>7, <1>8, <1>9, <1>10, <1>11, <1>12, <1>13, <1>14, <1>15,
           <1>16, <1>17, <1>18 DEF ClientStep

\* What a thread does touches its own sockets and, of the others' data, files
\* that exist and still do afterwards.
LEMMA ServerOthers ==
  ASSUME TypeOK, Facts, NEW c \in Clients, NEW j \in Clients, j # c, UNCHANGED clientVars,
         ServerStep(c)
  PROVE  /\ Same(j)
         /\ up' => up
         /\ Gettable(j) => fs'[cwd[j]][req[j].name] # NoFile
<1>1. Gettable(j) => fs[cwd[j]][req[j].name] # NoFile BY DEF Facts, ThreadFacts
<1>2. ASSUME ErrExit PROVE Same(j) /\ fs' = fs /\ ~up' BY <1>2 DEF ErrExit, Same, clientVars, serverVars
<1>3. ASSUME NEW tok, NEW l, SendOrExit(c, tok, l) PROVE Same(j) /\ fs' = fs /\ (up' => up)
  BY <1>2, <1>3 DEF SendOrExit, Reply, Step, Same, clientVars, TypeOK, NetTypeOK, ServerTypeOK
<1>4. ASSUME NEW v \in Content, v # NoFile, fs' = [fs EXCEPT ![cwd[c]][req[c].name] = v], Gettable(j)
      PROVE  fs'[cwd[j]][req[j].name] # NoFile
  <2>1. req[j].code \in {"GET", "PUT"} BY <1>4 DEF Gettable, Facts, ThreadFacts
  <2>2. req[j].name \in Names /\ cwd[j] \in Tree /\ cwd[c] \in Tree
    BY <2>1, RemoteFileType DEF TypeOK, ServerTypeOK
  <2>3. fs \in [Tree -> [Names -> Content]] BY DEF TypeOK, ServerTypeOK
  <2>4. fs'[cwd[j]][req[j].name] \in {v, fs[cwd[j]][req[j].name]} BY <1>4, <2>2, <2>3
  <2> QED BY <1>1, <1>4, <2>4
<1> USE DEF Same, clientVars, TypeOK, NetTypeOK, ServerTypeOK
<1>5. CASE SrvRecv(c) BY <1>1, <1>5 DEF SrvRecv, Step
<1>6. CASE SrvHangup(c)
  <2>1. CASE ErrExit BY <1>1, <1>2, <2>1
  <2>2. CASE ~ErrExit BY <1>1, <1>6, <2>2 DEF SrvHangup, Step, netVars
  <2> QED BY <2>1, <2>2
<1>7. CASE SrvAck(c) BY <1>1, <1>3, <1>7 DEF SrvAck
<1>8. CASE SrvGet(c)
  <2>1. CASE ErrExit BY <1>1, <1>2, <2>1
  <2>2. CASE SendOrExit(c, "BAD", "recv") BY <1>1, <1>3, <2>2
  <2>3. CASE ~ErrExit /\ ~SendOrExit(c, "BAD", "recv") BY <1>1, <1>8, <2>3 DEF SrvGet, Reply, Step
  <2> QED BY <2>1, <2>2, <2>3
<1>9. CASE SrvCode(c) BY <1>1, <1>9 DEF SrvCode, Step
<1>10. CASE SrvCodeReply(c) BY <1>1, <1>3, <1>10 DEF SrvCodeReply
<1>11. CASE SrvListen(c) BY <1>1, <1>11 DEF SrvListen, Step, Reply
<1>12. CASE SrvAccept(c) BY <1>1, <1>12 DEF SrvAccept, Step
<1>13. CASE Fork(c) BY <1>1, <1>13 DEF Fork, Step
<1>14. CASE ChildWrite(c) BY <1>1, <1>14 DEF ChildWrite
<1>15. CASE ChildEnd(c) BY <1>1, <1>15 DEF ChildEnd, CloseData, Step
<1>16. CASE SrvPwd(c) BY <1>1, <1>16 DEF SrvPwd, CloseData, Step
<1>17. CASE SrvCd(c) BY <1>1, <1>17 DEF SrvCd, CloseData, Step
<1>18. CASE SrvOpenGet(c) BY <1>1, <1>18 DEF SrvOpenGet, Step, netVars
<1>19. CASE SrvTx(c) BY <1>1, <1>19 DEF SrvTx
<1>20. CASE SrvTxEnd(c) BY <1>1, <1>20 DEF SrvTxEnd, CloseData, Step
<1>21. CASE SrvOpenPut(c)
  <2>1. <<>> \in Content /\ <<>> # NoFile
    <3>1. <<>> \in Seq(Chunk) OBVIOUS
    <3> QED BY <3>1, NotNoFile DEF Content
  <2>2. fs' = [fs EXCEPT ![cwd[c]][req[c].name] = <<>>] BY <1>21 DEF SrvOpenPut
  <2>3. Gettable(j) => fs'[cwd[j]][req[j].name] # NoFile BY <1>4, <2>1, <2>2
  <2> QED BY <1>21, <2>3 DEF SrvOpenPut, Step, netVars
<1>22. CASE SrvRefusePut(c) BY <1>1, <1>22 DEF SrvRefusePut, CloseData, Step
<1>23. CASE SrvRx(c)
  <2> DEFINE file == fs[cwd[c]][req[c].name]
             v == WriteAt(file, off[c], Head(dq[c]))
  <2>1. req[c].code = "PUT" /\ spc[c] = "rx" BY <1>23 DEF SrvRx, Facts, ThreadFacts
  <2>2. file \in Seq(Chunk) /\ req[c].name \in Names BY <2>1, RemoteFileType DEF Gettable
  <2>3. Head(dq[c]) \in Chunk /\ off[c] \in Nat BY <1>23 DEF SrvRx
  <2>4. v \in Content /\ v # NoFile BY <2>2, <2>3, WriteAtType, NotNoFile DEF Content
  <2>5. fs' = [fs EXCEPT ![cwd[c]][req[c].name] = v] BY <1>23, <2>2 DEF SrvRx
  <2>6. Gettable(j) => fs'[cwd[j]][req[j].name] # NoFile BY <1>4, <2>4, <2>5
  <2> QED BY <1>23, <2>6 DEF SrvRx
<1>24. CASE SrvRxEnd(c) BY <1>1, <1>24 DEF SrvRxEnd, CloseData, Step
<1> QED BY <1>5, <1>6, <1>7, <1>8, <1>9, <1>10, <1>11, <1>12, <1>13, <1>14, <1>15, <1>16, <1>17, <1>18,
           <1>19, <1>20, <1>21, <1>22, <1>23, <1>24 DEF ServerStep

\* Who ends without being killed leaves nothing that its thread would answer.
Orderly(c) ==
  up /\ pc[c] = "dead" /\ c \notin Mortal
  => /\ ctl[c] = "fin" /\ c2s[c] = <<>>
     /\ spc[c] \notin {"ack", "get", "code", "codeok", "codebad", "listen"}

\* What moves on the client's side of a session.
ByClient(c) ==
  \/ ClientStep(c) \/ Quit(c) \/ Crash(c)
  \/ \E m \in Menu[c] : Issue(c, m)

\* A dead client does nothing.
LEMMA DeadStop == ASSUME NEW c \in Clients, ByClient(c) PROVE pc[c] # "dead"
BY DEF ByClient, ClientStep, Quit, Crash, Ended, Issue, BrokenPipe, ServerGone, NoAck, RecvAck,
     RecvVerdict, RecvSize, SendCode2, ConnectData, ConnectRefused, RecvBlock, RecvEOF, RecvReset,
     SendBlock, SendEOF

\* A client changes neither whether the server lives nor who is dead, itself apart.
LEMMA ClientSpares ==
  ASSUME TypeOK, NEW c \in Clients, ByClient(c), UNCHANGED serverVars
  PROVE  up' = up /\ \A j \in Clients : pc[j] = "dead" => pc'[j] = "dead"
<1>1. up' = up
  BY DEF ByClient, ClientStep, EndProcess, netVars, Quit, Crash, Issue, BrokenPipe, ServerGone, NoAck,
       RecvAck, RecvVerdict, RecvSize, SendCode2, ConnectData, ConnectRefused, RecvBlock, RecvEOF,
       RecvReset, SendBlock, SendEOF
<1>2. ASSUME NEW j \in Clients, pc[j] = "dead" PROVE pc'[j] = "dead"
  <2>1. j # c BY <1>2, DeadStop
  <2> QED BY <1>2, <2>1, ClientOthers DEF Same, ByClient
<1> QED BY <1>1, <1>2

\* Whatever a client does keeps the types.
LEMMA ByClientType ==
  ASSUME TypeOK, Facts, NEW c \in Clients, ByClient(c), UNCHANGED serverVars
  PROVE  TypeOK'
<1>1. NetTypeOK' /\ ClientTypeOK'
  <2>1. CASE ClientStep(c) BY <2>1, ClientStepType
  <2>2. CASE Quit(c) BY <2>2, EndProcessType DEF Quit, TypeOK
  <2>3. CASE Crash(c) BY <2>3, EndProcessType DEF Crash, TypeOK
  <2>4. CASE \E m \in Menu[c] : Issue(c, m) BY <2>4, IssueType DEF TypeOK
  <2> QED BY <2>1, <2>2, <2>3, <2>4 DEF ByClient
<1> QED BY <1>1 DEF TypeOK, ServerTypeOK, serverVars

\* And keeps its session in step.
LEMMA ByClientInStep ==
  ASSUME TypeOK, NEW c \in Clients, InStepAt(c), ByClient(c), UNCHANGED serverVars
  PROVE  InStepAt(c)'
<1>1. CASE ClientStep(c) BY <1>1, ClientStepInStep
<1>2. CASE Quit(c) BY <1>2, EndInStep DEF Quit
<1>3. CASE Crash(c) BY <1>3, EndInStep DEF Crash
<1>4. CASE \E m \in Menu[c] : Issue(c, m) BY <1>4, IssueInStep
<1> QED BY <1>1, <1>2, <1>3, <1>4 DEF ByClient

\* While the server lives, a client that is not killed ends on its data connection.
LEMMA UnkilledEnd ==
  ASSUME TypeOK, NEW c \in Clients, ByClient(c), up, pc'[c] = "dead", pc[c] # "dead", c \notin Mortal
  PROVE  EndProcess(c, "dead") /\ ServerEndGone(c) /\ pc[c] \in {"senddata", "recvdata"}
<1>1. ~Quit(c) /\ ~Crash(c) /\ ~\E m \in Menu[c] : Issue(c, m)
  BY DEF Quit, Crash, Issue, EndProcess, Goto, TypeOK, ClientTypeOK
<1>2. ClientStep(c) BY <1>1 DEF ByClient
<1>3. ~ServerGone(c) /\ ~NoAck(c) /\ ~ConnectRefused(c)
  BY DEF ServerGone, NoAck, ConnectRefused, ServerSilent
<1>4. ~RecvAck(c) /\ ~RecvVerdict(c) /\ ~RecvSize(c) /\ ~SendCode2(c) /\ ~ConnectData(c)
  BY DEF RecvAck, RecvVerdict, RecvSize, SendCode2, ConnectData, Goto, AfterAck, TypeOK, ClientTypeOK
<1>5. ~RecvBlock(c) /\ ~RecvEOF(c) /\ ~SendBlock(c) /\ ~SendEOF(c)
  BY DEF RecvBlock, RecvEOF, SendBlock, SendEOF, Goto, TypeOK, ClientTypeOK
<1>6. BrokenPipe(c) \/ RecvReset(c) BY <1>2, <1>3, <1>4, <1>5 DEF ClientStep
<1>7. EndProcess(c, "dead") BY <1>6 DEF BrokenPipe, RecvReset, Goto, TypeOK, ClientTypeOK
<1>8. pc[c] \in {"senddata", "recvdata"} /\ ServerEndGone(c)
  BY <1>6 DEF BrokenPipe, RecvReset, ServerSilent
<1> QED BY <1>7, <1>8

\* Its thread has then closed that connection, and waits for a request that does not come.
LEMMA ByClientOrderly ==
  ASSUME TypeOK, NEW c \in Clients, InStepAt(c), Orderly(c), ByClient(c), UNCHANGED serverVars
  PROVE  Orderly(c)'
<1> SUFFICES ASSUME up', pc'[c] = "dead", c \notin Mortal
             PROVE  /\ ctl'[c] = "fin" /\ c2s'[c] = <<>>
                    /\ spc'[c] \notin {"ack", "get", "code", "codeok", "codebad", "listen"}
  BY DEF Orderly
<1>1. up BY ClientSpares
<1>2. pc[c] # "dead" BY DeadStop
<1>3. EndProcess(c, "dead") /\ ServerEndGone(c) /\ pc[c] \in {"senddata", "recvdata"}
  BY <1>1, <1>2, UnkilledEnd
<1>4. dsrv[c] = "shut" BY <1>1, <1>3 DEF ServerEndGone
<1>5. spc[c] = "recv" /\ c2s[c] = <<>> /\ s2c[c] = <<>>
  BY <1>1, <1>3, <1>4 DEF InStepAt, ThreadShape, Lockstep, At
<1> QED BY <1>3, <1>5 DEF EndProcess, serverVars, TypeOK, NetTypeOK

\* A thread ends the server only on a connection that was reset.
LEMMA ExitNeedsReset ==
  ASSUME NEW c \in Clients, ServerStep(c), up, ~up'
  PROVE  ctl[c] = "rst"
BY DEF ServerStep, SendOrExit, netVars, SrvRecv, SrvHangup, SrvAck, SrvGet, SrvCode, SrvCodeReply,
       SrvListen, SrvAccept, Fork, ChildWrite, ChildEnd, SrvPwd, SrvCd, SrvOpenGet, SrvTx, SrvTxEnd,
       SrvOpenPut, SrvRefusePut, SrvRx, SrvRxEnd

\* And that is the connection of a client that was killed.
LEMMA ExitNeedsCrash ==
  ASSUME NEW c \in Clients, ClientFacts(c), pc[c] = "quit" => ctl[c] # "rst", Orderly(c),
         ServerStep(c), up, ~up'
  PROVE  pc[c] = "dead" /\ c \in Mortal
<1>1. ctl[c] = "rst" BY ExitNeedsReset
<1>2. pc[c] = "dead" BY <1>1 DEF ClientFacts, Ended
<1> QED BY <1>1, <1>2 DEF Orderly

\* A thread does not answer a client that has ended in order.
LEMMA ServerOrderly ==
  ASSUME TypeOK, NEW c \in Clients, Orderly(c), ServerStep(c), UNCHANGED clientVars
  PROVE  Orderly(c)'
<1> SUFFICES ASSUME up', pc[c] = "dead", c \notin Mortal
             PROVE  /\ ctl'[c] = "fin" /\ c2s'[c] = <<>>
                    /\ spc'[c] \notin {"ack", "get", "code", "codeok", "codebad", "listen"}
  BY DEF Orderly, clientVars
<1> USE DEF TypeOK, NetTypeOK, ServerTypeOK
<1>1. up
  BY DEF ServerStep, SendOrExit, ErrExit, netVars, SrvRecv, SrvHangup, SrvAck, SrvGet, SrvCode,
       SrvCodeReply, SrvListen, SrvAccept, Fork, ChildWrite, ChildEnd, SrvPwd, SrvCd, SrvOpenGet, SrvTx,
       SrvTxEnd, SrvOpenPut, SrvRefusePut, SrvRx, SrvRxEnd
<1>2. /\ ctl[c] = "fin" /\ c2s[c] = <<>>
      /\ spc[c] \notin {"ack", "get", "code", "codeok", "codebad", "listen"}
  BY <1>1 DEF Orderly
<1>3. ~SrvRecv(c) /\ ~SrvAck(c) /\ ~SrvGet(c) /\ ~SrvCode(c) /\ ~SrvCodeReply(c) /\ ~SrvListen(c)
  BY <1>2 DEF SrvRecv, SrvAck, SrvGet, SrvCode, SrvCodeReply, SrvListen
<1>4. CASE SrvHangup(c) BY <1>2, <1>4 DEF SrvHangup, Step, netVars
<1>5. CASE SrvAccept(c) \/ Fork(c) BY <1>2, <1>5 DEF SrvAccept, Fork, Step
<1>6. CASE ChildWrite(c) \/ SrvTx(c) BY <1>2, <1>6 DEF ChildWrite, SrvTx
<1>7. CASE ChildEnd(c) BY <1>2, <1>7 DEF ChildEnd, CloseData, Step
<1>8. CASE SrvPwd(c) \/ SrvCd(c) BY <1>2, <1>8 DEF SrvPwd, SrvCd, CloseData, Step
<1>9. CASE SrvOpenGet(c) \/ SrvOpenPut(c) BY <1>2, <1>9 DEF SrvOpenGet, SrvOpenPut, Step, netVars
<1>10. CASE SrvTxEnd(c) \/ SrvRefusePut(c) \/ SrvRxEnd(c)
  BY <1>2, <1>10 DEF SrvTxEnd, SrvRefusePut, SrvRxEnd, CloseData, Step
<1>11. CASE SrvRx(c) BY <1>2, <1>11 DEF SrvRx
<1> QED BY <1>3, <1>4, <1>5, <1>6, <1>7, <1>8, <1>9, <1>10, <1>11 DEF ServerStep

\* What another session does leaves the end of a client as it was.
LEMMA OrderlyFrame ==
  ASSUME NEW c \in Clients, Orderly(c), Same(c), up' => up
  PROVE  Orderly(c)'
BY DEF Orderly, Same

\* The reset that answers a late reply is a matter of a client that was killed.
LEMMA ResetInStep ==
  ASSUME TypeOK, NEW c \in Clients, InStepAt(c), NetReset(c), UNCHANGED <<clientVars, serverVars>>
  PROVE  InStepAt(c)'
<1>1. /\ ctl[c] = "lost" /\ ctl'[c] = "rst"
      /\ UNCHANGED <<up, c2s, s2c, announced, dcli, dsrv, holders, dq>>
  BY DEF NetReset, TypeOK, NetTypeOK
<1>2. ClientShape(c)' BY <1>1 DEF InStepAt, ClientShape, ClientFacts, HasFile, Ended, clientVars
<1>3. ThreadShape(c)' BY <1>1, ThreadFrame
<1>4. up => pc[c] = "dead" BY <1>1 DEF InStepAt, ClientShape, ClientFacts, Ended, Lockstep
<1>5. up' => Lockstep(c)' BY <1>1, <1>4 DEF Lockstep, clientVars
<1> QED BY <1>2, <1>3, <1>5 DEF InStepAt

\* Nor does it change how a client has ended.
LEMMA ResetOrderly ==
  ASSUME NEW c \in Clients, Orderly(c), NetReset(c), UNCHANGED <<clientVars, serverVars>>
  PROVE  Orderly(c)'
BY DEF Orderly, NetReset, clientVars

\* It keeps the types, and touches one connection.
LEMMA ResetOthers ==
  ASSUME TypeOK, NEW c \in Clients, NetReset(c), UNCHANGED <<clientVars, serverVars>>
  PROVE  /\ TypeOK' /\ up' = up /\ fs' = fs /\ pc' = pc
         /\ \A j \in Clients \ {c} : Same(j)
<1>1. /\ ctl' = [ctl EXCEPT ![c] = "rst"]
      /\ UNCHANGED <<up, c2s, s2c, announced, dcli, dsrv, holders, dq>>
  BY DEF NetReset
<1>2. TypeOK'
  BY <1>1 DEF TypeOK, NetTypeOK, ClientTypeOK, ServerTypeOK, CtlStates, clientVars, serverVars
<1>3. ASSUME NEW j \in Clients \ {c} PROVE Same(j)
  BY <1>1 DEF Same, clientVars, serverVars, TypeOK, NetTypeOK
<1> QED BY <1>1, <1>2, <1>3 DEF clientVars, serverVars

\* In step, a client and its thread are not both in recv() on the control connection.
LEMMA NotBothWait ==
  ASSUME NEW c \in Clients, InStepAt(c)
  PROVE  ~BothWait(c)
<1> SUFFICES ASSUME Lockstep(c), s2c[c] = <<>>, c2s[c] = <<>>,
                    pc[c] \in {"ack", "ack2", "verdict", "size", "port"}
             PROVE  spc[c] \notin {"recv", "code"}
  BY DEF BothWait, InStepAt
<1> QED BY DEF Lockstep, At, Offered

-----------------------------------------------------------------------------
(* The inductive invariant. *)

\* The strengthening that is inductive.
Inv == TypeOK /\ InStep /\ (\A c \in Clients : Orderly(c)) /\ ServerExitNeedsACrash

\* The server that has started and clients at their prompts satisfy the invariant.
LEMMA InitInv == Init => Inv
<1> SUFFICES ASSUME Init PROVE Inv OBVIOUS
<1> USE DEF Init, InitNet, InitClient, InitServer
<1>1. NoCmd \in Commands /\ NoReq \in Request
  BY DEF NoCmd, NoReq, Commands, Request
<1>2. NetTypeOK BY DEF NetTypeOK, CtlStates
<1>3. ClientTypeOK BY <1>1, LocalAssumption DEF ClientTypeOK, ClientPCs
<1>4. ServerTypeOK BY <1>1, TreeAssumption, FsAssumption DEF ServerTypeOK, ServerPCs
<1>5. ASSUME NEW c \in Clients PROVE ClientShape(c)
  BY <1>5 DEF ClientShape, ClientFacts, HasFile, Ended, NoCmd
<1>6. ASSUME NEW c \in Clients PROVE ThreadShape(c)
  BY <1>6 DEF ThreadShape, ThreadFacts, Gettable
<1>7. ASSUME NEW c \in Clients PROVE Lockstep(c)
  BY <1>7 DEF Lockstep
<1> QED BY <1>2, <1>3, <1>4, <1>5, <1>6, <1>7 DEF Inv, TypeOK, InStep, Orderly, ServerExitNeedsACrash

\* Every step of the system preserves the invariant.
LEMMA NextInv == Inv /\ [Next]_vars => Inv'
<1> SUFFICES ASSUME Inv, [Next]_vars PROVE Inv' OBVIOUS
<1>0. TypeOK /\ Facts /\ ServerExitNeedsACrash /\ \A c \in Clients : InStepAt(c) /\ Orderly(c)
  BY InStepFacts DEF Inv, InStep, InStepAt
<1>1. ASSUME TypeOK', ServerExitNeedsACrash', \A c \in Clients : InStepAt(c)' /\ Orderly(c)' PROVE Inv'
  BY <1>1 DEF Inv, InStep, InStepAt
<1>2. ASSUME NEW j \in Clients, Same(j), up' => up,
             Gettable(j) => fs'[cwd[j]][req[j].name] # NoFile
      PROVE  InStepAt(j)' /\ Orderly(j)'
  BY <1>0, <1>2, Frame, OrderlyFrame
<1>3. \A j \in Clients : Gettable(j) => fs[cwd[j]][req[j].name] # NoFile BY <1>0 DEF Facts, ThreadFacts
<1>4. CASE UNCHANGED vars
  <2>1. TypeOK'
    BY <1>0, <1>4 DEF TypeOK, NetTypeOK, ClientTypeOK, ServerTypeOK, vars, netVars, clientVars, serverVars
  <2>2. ASSUME NEW j \in Clients PROVE InStepAt(j)' /\ Orderly(j)'
    <3>1. Same(j) /\ up' = up /\ fs' = fs BY <1>4 DEF Same, vars, netVars, clientVars, serverVars
    <3> QED BY <1>2, <1>3, <3>1
  <2>3. ServerExitNeedsACrash' BY <1>0, <1>4 DEF ServerExitNeedsACrash, vars, netVars, clientVars
  <2> QED BY <1>1, <2>1, <2>2, <2>3
<1>5. ASSUME NEW c \in Clients, ByClient(c), UNCHANGED serverVars PROVE Inv'
  <2>1. TypeOK' BY <1>0, <1>5, ByClientType
  <2>2. up' = up /\ \A j \in Clients : pc[j] = "dead" => pc'[j] = "dead" BY <1>0, <1>5, ClientSpares
  <2>3. ASSUME NEW j \in Clients PROVE InStepAt(j)' /\ Orderly(j)'
    <3>1. CASE j = c BY <1>0, <1>5, <3>1, ByClientInStep, ByClientOrderly
    <3>2. CASE j # c
      <4>1. Same(j) /\ up' = up /\ fs' = fs BY <1>0, <1>5, <3>2, ClientOthers DEF ByClient
      <4> QED BY <1>2, <1>3, <4>1
    <3> QED BY <3>1, <3>2
  <2>4. ServerExitNeedsACrash' BY <1>0, <2>2, MortalAssumption DEF ServerExitNeedsACrash
  <2> QED BY <1>1, <2>1, <2>3, <2>4
<1>6. ASSUME NEW c \in Clients, ServerStep(c), UNCHANGED clientVars PROVE Inv'
  <2>1. TypeOK' BY <1>0, <1>6, ServerStepType DEF TypeOK, ClientTypeOK, clientVars
  <2>2. ASSUME NEW j \in Clients PROVE InStepAt(j)' /\ Orderly(j)'
    <3>1. CASE j = c BY <1>0, <1>6, <2>1, <3>1, ServerStepInStep, ServerOrderly
    <3>2. CASE j # c BY <1>0, <1>2, <1>6, <3>2, ServerOthers
    <3> QED BY <3>1, <3>2
  <2>3. ServerExitNeedsACrash'
    <3>1. up /\ ~up' => pc[c] = "dead" /\ c \in Mortal
      <4>1. up /\ pc[c] = "quit" => ctl[c] # "rst" BY <1>0 DEF InStepAt, Lockstep
      <4> QED BY <1>0, <1>6, <4>1, ExitNeedsCrash DEF Facts
    <3>2. pc' = pc BY <1>6 DEF clientVars
    <3>3. up \in BOOLEAN /\ up' \in BOOLEAN BY <1>0, <2>1 DEF TypeOK, NetTypeOK
    <3> QED BY <1>0, <3>1, <3>2, <3>3 DEF ServerExitNeedsACrash
  <2> QED BY <1>1, <2>1, <2>2, <2>3
<1>7. ASSUME NEW c \in Clients, NetReset(c), UNCHANGED <<clientVars, serverVars>> PROVE Inv'
  <2>1. /\ TypeOK' /\ up' = up /\ fs' = fs /\ pc' = pc
        /\ \A j \in Clients \ {c} : Same(j)
    BY <1>0, <1>7, ResetOthers
  <2>2. ASSUME NEW j \in Clients PROVE InStepAt(j)' /\ Orderly(j)'
    <3>1. CASE j = c BY <1>0, <1>7, <3>1, ResetInStep, ResetOrderly
    <3>2. CASE j # c BY <1>2, <1>3, <2>1, <3>2
    <3> QED BY <3>1, <3>2
  <2>3. ServerExitNeedsACrash' BY <1>0, <2>1 DEF ServerExitNeedsACrash
  <2> QED BY <1>1, <2>1, <2>2, <2>3
<1> QED BY <1>4, <1>5, <1>6, <1>7 DEF Next, Run, User, ByClient

-----------------------------------------------------------------------------
(* Theorems. *)

\* The invariant holds in every state of every behaviour of the system: what the
\* sockets, the clients and the threads of src/client and src/server can reach.
THEOREM Invariance == Spec => []Inv
BY InitInv, NextInv, PTL DEF Spec

\* Every variable keeps its type; in particular the working directory of a
\* session (handle_cd) is always a directory of the server's tree.
THEOREM Types == Spec => []TypeOK
<1>1. Inv => TypeOK BY DEF Inv
<1> QED BY <1>1, Invariance, PTL

\* A client inside a handler and the thread inside its counterpart are always at
\* matching places, whatever the other sessions do and whoever is killed.
THEOREM SessionsInStep == Spec => []InStep
<1>1. Inv => InStep BY DEF Inv
<1> QED BY <1>1, Invariance, PTL

\* handle_connection and send_code never wait for each other, both in recv().
THEOREM NoTwoReaders == Spec => []NoMutualWait
<1>1. Inv => NoMutualWait BY NotBothWait DEF Inv, InStep, InStepAt, NoMutualWait
<1> QED BY <1>1, Invariance, PTL

\* The data socket of establish_data_sock serves the command the client gave.
THEOREM OneCommand == Spec => []SameCommand
<1>1. Inv => SameCommand
  <2> SUFFICES ASSUME Inv, NEW c \in Clients, up, pc[c] \in {"recvdata", "senddata"}
               PROVE  req[c] = cmd[c]
    BY DEF SameCommand
  <2> QED BY DEF Inv, InStep, Lockstep, At
<1> QED BY <1>1, Invariance, PTL

\* A thread calls err_exit() only on the connection of a client that was killed.
THEOREM ServerExit == Spec => []ServerExitNeedsACrash
<1>1. Inv => ServerExitNeedsACrash BY DEF Inv
<1> QED BY <1>1, Invariance, PTL

-----------------------------------------------------------------------------
(* The replies on the wire.  InStep fixes them while the server lives; when it *)
(* has died, what it had sent is still read, and in order.                     *)

\* What can still be on its way to a client, whether the server lives or not.
Wire(c) ==
  /\ s2c[c] # <<>> => pc[c] \in {"ack", "ack2", "verdict", "size", "port"}
  /\ pc[c] = "ack" =>
       \/ s2c[c] \in {<<>>, <<"ACK">>}
       \/ cmd[c].code = "GET" /\ s2c[c] \in {<<"ACK", "BAD">>, <<"ACK", "ACK", "SIZE">>}
       \/ cmd[c].code \notin {"GET", "PUT"} /\ s2c[c] = <<"ACK", "PORT">>
  /\ pc[c] = "verdict" => s2c[c] \in {<<>>, <<"BAD">>, <<"ACK", "SIZE">>}
  /\ pc[c] = "size" => s2c[c] \in {<<>>, <<"SIZE">>}
  /\ pc[c] = "ack2" => s2c[c] \in {<<>>, <<"ACK">>, <<"ACK", "PORT">>}
  /\ pc[c] = "port" => s2c[c] \in {<<>>, <<"PORT">>}

\* While the server lives, a session in step fixes what is on its wire.
LEMMA WireInStep ==
  ASSUME TypeOK, up, NEW c \in Clients, InStepAt(c)
  PROVE  Wire(c)
<1>1. pc[c] \in ClientPCs BY DEF TypeOK, ClientTypeOK
<1>2. Lockstep(c) /\ ClientShape(c) BY DEF InStepAt
<1>3. s2c[c] # <<>> => pc[c] \in {"ack", "ack2", "verdict", "size", "port"}
  BY <1>1, <1>2 DEF Lockstep, ClientShape, ClientFacts, Ended, At, Offered, ClientPCs
<1>4. pc[c] = "ack" =>
       \/ s2c[c] \in {<<>>, <<"ACK">>}
       \/ cmd[c].code = "GET" /\ s2c[c] \in {<<"ACK", "BAD">>, <<"ACK", "ACK", "SIZE">>}
       \/ cmd[c].code \notin {"GET", "PUT"} /\ s2c[c] = <<"ACK", "PORT">>
  BY <1>2 DEF Lockstep, At, Offered
<1>5. /\ pc[c] = "verdict" => s2c[c] \in {<<>>, <<"BAD">>, <<"ACK", "SIZE">>}
      /\ pc[c] = "size" => s2c[c] \in {<<>>, <<"SIZE">>}
      /\ pc[c] = "ack2" => s2c[c] \in {<<>>, <<"ACK">>, <<"ACK", "PORT">>}
      /\ pc[c] = "port" => s2c[c] \in {<<>>, <<"PORT">>}
  BY <1>2 DEF Lockstep, At, Offered
<1> QED BY <1>3, <1>4, <1>5 DEF Wire

\* A client that reads what a dead server has sent reads it in order.
LEMMA WireRead ==
  ASSUME TypeOK, NEW c \in Clients, Wire(c), ClientStep(c)
  PROVE  Wire(c)'
<1> USE DEF TypeOK, NetTypeOK, ClientTypeOK
<1>1. ASSUME NEW l \in {"quit", "dead"}, EndProcess(c, l) PROVE Wire(c)'
  BY <1>1 DEF EndProcess, Goto, Wire
<1>2. CASE BrokenPipe(c) BY <1>1, <1>2 DEF BrokenPipe
<1>3. CASE ServerGone(c) BY <1>1, <1>3 DEF ServerGone
<1>4. CASE NoAck(c)
  <2>1. s2c'[c] = <<>> /\ pc'[c] = "prompt" BY <1>4 DEF NoAck, Goto, netVars
  <2> QED BY <2>1 DEF Wire
<1>5. CASE RecvAck(c)
  <2>1. /\ pc[c] \in {"ack", "ack2"} /\ s2c[c] # <<>> /\ cmd' = cmd
        /\ s2c'[c] = Tail(s2c[c])
        /\ pc'[c] = IF Head(s2c[c]) = "ACK" THEN AfterAck(c) ELSE "prompt"
    BY <1>5 DEF RecvAck, Goto, TakeToken
  <2>2. Head(s2c[c]) = "ACK"
    <3>1. s2c[c] \in {<<"ACK">>, <<"ACK", "BAD">>, <<"ACK", "ACK", "SIZE">>, <<"ACK", "PORT">>}
      BY <2>1 DEF Wire
    <3> QED BY <3>1, TailOfReplies
  <2>3. CASE pc[c] = "ack2" \/ cmd[c].code \notin {"GET", "PUT"}
    <3>1. s2c[c] = <<"ACK">> \/ s2c[c] = <<"ACK", "PORT">> BY <2>1, <2>3 DEF Wire
    <3>2. s2c'[c] \in {<<>>, <<"PORT">>}
      <4>1. CASE s2c[c] = <<"ACK">> BY <2>1, <4>1, TailOfReplies
      <4>2. CASE s2c[c] = <<"ACK", "PORT">> BY <2>1, <4>2, TailOfReplies
      <4> QED BY <3>1, <4>1, <4>2
    <3>3. pc'[c] = "port" BY <2>1, <2>2, <2>3 DEF AfterAck
    <3> QED BY <3>2, <3>3 DEF Wire
  <2>4. CASE pc[c] = "ack" /\ cmd[c].code = "GET"
    <3>1. \/ s2c[c] = <<"ACK">>
          \/ s2c[c] = <<"ACK", "BAD">>
          \/ s2c[c] = <<"ACK", "ACK", "SIZE">>
      BY <2>1, <2>4 DEF Wire
    <3>2. s2c'[c] \in {<<>>, <<"BAD">>, <<"ACK", "SIZE">>}
      <4>1. CASE s2c[c] = <<"ACK">> BY <2>1, <4>1, TailOfReplies
      <4>2. CASE s2c[c] = <<"ACK", "BAD">> BY <2>1, <4>2, TailOfReplies
      <4>3. CASE s2c[c] = <<"ACK", "ACK", "SIZE">> BY <2>1, <4>3, TailOfReplies
      <4> QED BY <3>1, <4>1, <4>2, <4>3
    <3>3. pc'[c] = "verdict" BY <2>1, <2>2, <2>4 DEF AfterAck
    <3> QED BY <3>2, <3>3 DEF Wire
  <2>5. CASE pc[c] = "ack" /\ cmd[c].code = "PUT"
    <3>1. s2c[c] = <<"ACK">> BY <2>1, <2>5 DEF Wire
    <3>2. s2c'[c] = <<>> BY <2>1, <3>1, TailOfReplies
    <3>3. pc'[c] = "tfile" BY <2>1, <2>2, <2>5 DEF AfterAck
    <3> QED BY <3>2, <3>3 DEF Wire
  <2> QED BY <2>1, <2>3, <2>4, <2>5
<1>6. CASE RecvVerdict(c)
  <2>1. /\ pc[c] = "verdict" /\ s2c[c] # <<>> /\ s2c'[c] = Tail(s2c[c])
        /\ pc'[c] = IF Head(s2c[c]) = "ACK" THEN "size" ELSE "prompt"
    BY <1>6 DEF RecvVerdict, Goto, TakeToken
  <2>2. CASE s2c[c] = <<"BAD">>
    <3>1. s2c'[c] = <<>> /\ pc'[c] = "prompt" BY <2>1, <2>2, TailOfReplies
    <3> QED BY <3>1 DEF Wire
  <2>3. CASE s2c[c] = <<"ACK", "SIZE">>
    <3>1. s2c'[c] = <<"SIZE">> /\ pc'[c] = "size" BY <2>1, <2>3, TailOfReplies
    <3> QED BY <3>1 DEF Wire
  <2> QED BY <2>1, <2>2, <2>3 DEF Wire
<1>7. CASE RecvSize(c)
  <2>1. /\ pc[c] = "size" /\ s2c[c] # <<>> /\ s2c'[c] = Tail(s2c[c]) /\ pc'[c] = "sfile"
    BY <1>7 DEF RecvSize, Goto, TakeToken
  <2>2. s2c[c] = <<"SIZE">> BY <2>1 DEF Wire
  <2>3. s2c'[c] = <<>> BY <2>1, <2>2, TailOfReplies
  <2> QED BY <2>1, <2>3 DEF Wire
<1>8. CASE SendCode2(c)
  <2>1. s2c[c] = <<>> /\ s2c' = s2c /\ pc'[c] = "ack2" BY <1>8 DEF SendCode2, Goto, Wire
  <2> QED BY <2>1 DEF Wire
<1>9. CASE ConnectData(c)
  <2>1. /\ pc[c] = "port" /\ s2c[c] # <<>> /\ s2c'[c] = Tail(s2c[c])
        /\ pc'[c] \in {"senddata", "recvdata"}
    BY <1>9 DEF ConnectData, Goto, TakeToken
  <2>2. s2c[c] = <<"PORT">> BY <2>1 DEF Wire
  <2>3. s2c'[c] = <<>> BY <2>1, <2>2, TailOfReplies
  <2> QED BY <2>1, <2>3 DEF Wire
<1>10. CASE ConnectRefused(c) BY <1>1, <1>10 DEF ConnectRefused
<1>11. CASE RecvBlock(c) BY <1>11 DEF RecvBlock, Wire
<1>12. CASE RecvEOF(c)
  <2>1. s2c[c] = <<>> /\ s2c' = s2c /\ pc'[c] = "prompt" BY <1>12 DEF RecvEOF, Goto, Wire
  <2> QED BY <2>1 DEF Wire
<1>13. CASE RecvReset(c)
  <2>1. CASE EndProcess(c, "dead") BY <1>1, <2>1
  <2>2. CASE ~EndProcess(c, "dead")
    <3>1. s2c[c] = <<>> /\ s2c' = s2c /\ pc'[c] = "prompt" BY <1>13, <2>2 DEF RecvReset, Goto, Wire
    <3> QED BY <3>1 DEF Wire
  <2> QED BY <2>1, <2>2
<1>14. CASE SendBlock(c) BY <1>14 DEF SendBlock, Wire
<1>15. CASE SendEOF(c)
  <2>1. s2c[c] = <<>> /\ s2c' = s2c /\ pc'[c] = "prompt" BY <1>15 DEF SendEOF, Goto, Wire
  <2> QED BY <2>1 DEF Wire
<1> QED BY <1>2, <1>3, <1>4, <1>5, <1>6, <1>7, <1>8, <1>9, <1>10, <1>11, <1>12, <1>13, <1>14, <1>15
     DEF ClientStep

\* Whatever a client does adds nothing to its wire.
LEMMA ByClientWire ==
  ASSUME TypeOK, NEW c \in Clients, Wire(c), ByClient(c)
  PROVE  Wire(c)'
<1>1. CASE ClientStep(c) BY <1>1, WireRead
<1>2. CASE Quit(c) \/ Crash(c)
  <2>1. s2c'[c] = <<>> /\ pc'[c] \in {"quit", "dead"}
    BY <1>2 DEF Quit, Crash, EndProcess, Goto, TypeOK, NetTypeOK, ClientTypeOK
  <2> QED BY <2>1 DEF Wire
<1>3. CASE \E m \in Menu[c] : Issue(c, m)
  <2>1. s2c'[c] = <<>> /\ pc'[c] = "ack"
    BY <1>3 DEF Issue, Goto, Wire, TypeOK, NetTypeOK, ClientTypeOK
  <2> QED BY <2>1 DEF Wire
<1> QED BY <1>1, <1>2, <1>3 DEF ByClient

\* A server that ends sends nothing any more.
LEMMA ExitSilent == ASSUME NEW c \in Clients, ServerStep(c), ~up' PROVE s2c' = s2c
<1>1. CASE SrvRecv(c) \/ SrvHangup(c) \/ SrvAck(c) \/ SrvGet(c)
  BY <1>1 DEF SendOrExit, ErrExit, netVars, SrvRecv, SrvHangup, SrvAck, SrvGet
<1>2. CASE SrvCode(c) \/ SrvCodeReply(c) \/ SrvListen(c) \/ SrvAccept(c)
  BY <1>2 DEF SendOrExit, ErrExit, netVars, SrvCode, SrvCodeReply, SrvListen, SrvAccept
<1>3. CASE Fork(c) \/ ChildWrite(c) \/ ChildEnd(c) \/ SrvPwd(c) \/ SrvCd(c)
  BY <1>3 DEF Fork, ChildWrite, ChildEnd, SrvPwd, SrvCd
<1>4. CASE SrvOpenGet(c) \/ SrvTx(c) \/ SrvTxEnd(c)
  BY <1>4 DEF netVars, SrvOpenGet, SrvTx, SrvTxEnd
<1>5. CASE SrvOpenPut(c) \/ SrvRefusePut(c) \/ SrvRx(c) \/ SrvRxEnd(c)
  BY <1>5 DEF netVars, SrvOpenPut, SrvRefusePut, SrvRx, SrvRxEnd
<1> QED BY <1>1, <1>2, <1>3, <1>4, <1>5 DEF ServerStep

\* So its end leaves the wire of every session as it was.
LEMMA ExitWire ==
  ASSUME NEW c \in Clients, ServerStep(c), UNCHANGED clientVars, ~up', NEW j \in Clients, Wire(j)
  PROVE  Wire(j)'
<1>1. s2c' = s2c BY ExitSilent
<1> QED BY <1>1 DEF Wire, clientVars

\* Nor what happens to other sessions.
LEMMA WireFrame == ASSUME NEW c \in Clients, Wire(c), Same(c) PROVE Wire(c)'
BY DEF Wire, Same

\* After the server has died nothing is added, and what is there is read in order.
LEMMA NextWire ==
  Inv /\ (\A c \in Clients : Wire(c)) /\ [Next]_vars /\ ~up' => (\A c \in Clients : Wire(c))'
<1> SUFFICES ASSUME Inv, ~up', \A c \in Clients : Wire(c), [Next]_vars, NEW j \in Clients
             PROVE  Wire(j)'
  OBVIOUS
<1>0. TypeOK BY DEF Inv
<1>1. CASE UNCHANGED vars BY <1>1 DEF vars, netVars, clientVars, Wire
<1>2. ASSUME NEW c \in Clients, UNCHANGED serverVars, ByClient(c) PROVE Wire(j)'
  <2>1. CASE j # c BY <1>0, <1>2, <2>1, ClientOthers, WireFrame DEF ByClient
  <2>2. CASE j = c BY <1>0, <1>2, <2>2, ByClientWire
  <2> QED BY <2>1, <2>2
<1>3. ASSUME NEW c \in Clients, ServerStep(c), UNCHANGED clientVars PROVE Wire(j)' BY <1>3, ExitWire
<1>4. ASSUME NEW c \in Clients, NetReset(c), UNCHANGED <<clientVars, serverVars>> PROVE Wire(j)'
  BY <1>4 DEF NetReset, clientVars, Wire
<1> QED BY <1>1, <1>2, <1>3, <1>4 DEF Next, Run, User, ByClient

\* The first reply on the wire is one that the client waits for.
LEMMA WireOrder ==
  ASSUME NEW c \in Clients, Wire(c), s2c[c] # <<>>
  PROVE  Head(s2c[c]) \in Awaited(pc[c])
<1>1. CASE pc[c] \in {"ack", "ack2"}
  <2>1. s2c[c] \in {<<"ACK">>, <<"ACK", "BAD">>, <<"ACK", "ACK", "SIZE">>, <<"ACK", "PORT">>}
    BY <1>1 DEF Wire
  <2> QED BY <1>1, <2>1, TailOfReplies DEF Awaited
<1>2. CASE pc[c] = "verdict"
  <2>1. s2c[c] \in {<<"BAD">>, <<"ACK", "SIZE">>} BY <1>2 DEF Wire
  <2> QED BY <1>2, <2>1, TailOfReplies DEF Awaited
<1>3. CASE pc[c] = "size"
  <2>1. s2c[c] = <<"SIZE">> BY <1>3 DEF Wire
  <2> QED BY <1>3, <2>1, TailOfReplies DEF Awaited
<1>4. CASE pc[c] = "port"
  <2>1. s2c[c] = <<"PORT">> BY <1>4 DEF Wire
  <2> QED BY <1>4, <2>1, TailOfReplies DEF Awaited
<1> QED BY <1>1, <1>2, <1>3, <1>4 DEF Wire

\* The next bytes of the control stream are always those the client is about to
\* read as such: an ACK as an ACK, a size as a size, a port as a port, although
\* send_code and the handlers recv() without any framing.
THEOREM RepliesInOrder == Spec => []RightToken
<1>1. Inv /\ up => \A c \in Clients : Wire(c) BY WireInStep DEF Inv, InStep, InStepAt
<1>2. Init => \A c \in Clients : Wire(c) BY <1>1, InitInv DEF Init, InitNet
<1>3. (\A c \in Clients : Wire(c)) => RightToken BY WireOrder DEF RightToken
<1> QED BY <1>1, <1>2, <1>3, NextWire, Invariance, PTL DEF Spec

-----------------------------------------------------------------------------
(***************************************************************************)
(* The files, for any files, clients and buffer size: what a get and a put *)
(* have moved at every moment, and that a client or the server holds the   *)
(* whole file at the end.                                                  *)
(***************************************************************************)

\* The size that was announced is that of the file, from handle_get to its end.
Announced(c) ==
  /\ req[c].code = "GET" /\ ~touched[c]
  /\ spc[c] \in {"code", "codeok", "codebad", "listen", "accept", "serve", "tx"}
  => announced[c] = Len(Remote(c))

\* A get begins with an empty local file; data sockets and offsets begin at 0.
Fresh(c) ==
  /\ cmd[c].code = "GET" /\ pc[c] \in {"size", "sfile", "ack2", "port"} => lfs[c][cmd[c].name] = <<>>
  /\ spc[c] = "accept" /\ dcli[c] = "none" => dq[c] = <<>>
  /\ spc[c] = "serve" => off[c] = 0

\* How much of the file it sends the thread of c has read.
Taken(c) == CASE spc[c] = "tx" -> off[c] [] spc[c] = "recv" -> Len(Remote(c)) [] OTHER -> 0

\* A get: what has arrived and what is in flight are what the thread has read.
GetData(c) ==
  pc[c] = "recvdata" /\ req[c].code = "GET" /\ ~touched[c] =>
    /\ Remote(c) # NoFile /\ announced[c] = Len(Remote(c))
    /\ Taken(c) <= Len(Remote(c))
    /\ Local(c) \o dq[c] = SubSeq(Remote(c), 1, Taken(c))

\* The thread of c serves a put whose client is connected, or already gone.
Receiving(c) ==
  /\ req[c].code = "PUT"
  /\ spc[c] \in {"serve", "rx"} \/ (spc[c] = "accept" /\ dcli[c] # "none")

\* A put: what is written and what is in flight are what the client has sent.
PutData(c) ==
  Receiving(c) =>
    /\ Local(c) # NoFile
    /\ sent[c] <= Len(Local(c))
    /\ pc[c] \notin {"senddata", "dead"} => sent[c] = Len(Local(c))
    /\ spc[c] # "rx" => dq[c] = SubSeq(Local(c), 1, sent[c])
    /\ spc[c] = "rx" /\ ~touched[c] =>
         off[c] = Len(Remote(c)) /\ Remote(c) \o dq[c] = SubSeq(Local(c), 1, sent[c])

SessionData(c) == Announced(c) /\ Fresh(c) /\ GetData(c) /\ PutData(c)

\* The strengthening that is inductive.
DataInv == Inv /\ (up => \A c \in Clients : SessionData(c))

-----------------------------------------------------------------------------
(* What blocks moving from one sequence to the next do to their concatenation. *)

\* recv() of the first block in flight.
LEMMA Arrives ==
  ASSUME NEW S, NEW s \in Seq(S), NEW q \in Seq(S), q # <<>>
  PROVE  Append(s, Head(q)) \o Tail(q) = s \o q
<1>1. Head(q) \in S /\ Tail(q) \in Seq(S) /\ <<Head(q)>> \in Seq(S) BY HeadTailProperties
<1>2. Append(s, Head(q)) = s \o <<Head(q)>> BY <1>1, AppendIsConcat
<1>3. (s \o <<Head(q)>>) \o Tail(q) = s \o (<<Head(q)>> \o Tail(q)) BY <1>1, ConcatAssociative
<1>4. <<Head(q)>> \o Tail(q) = q
  <2> DEFINE t == <<Head(q)>> \o Tail(q)
  <2>1. t \in Seq(S) /\ Len(t) = Len(q)
    BY <1>1
  <2>2. ASSUME NEW i \in 1..Len(q) PROVE t[i] = q[i]
    BY <1>1, <2>2
  <2> QED BY <2>1, <2>2, SeqEqual
<1> QED BY <1>2, <1>3, <1>4

\* send() of one more block.
LEMMA Departs ==
  ASSUME NEW S, NEW s \in Seq(S), NEW q \in Seq(S), NEW b \in S
  PROVE  s \o Append(q, b) = Append(s \o q, b)
<1>1. <<b>> \in Seq(S) /\ s \o q \in Seq(S) OBVIOUS
<1>2. Append(q, b) = q \o <<b>> /\ Append(s \o q, b) = (s \o q) \o <<b>> BY <1>1, AppendIsConcat
<1> QED BY <1>1, <1>2, ConcatAssociative

\* One block more of a file.
LEMMA OneMore ==
  ASSUME NEW S, NEW s \in Seq(S), NEW n \in Nat, n < Len(s)
  PROVE  s[n + 1] \in S /\ Append(SubSeq(s, 1, n), s[n + 1]) = SubSeq(s, 1, n + 1)
<1>1. Len(s) \in Nat /\ 1 \in 1..Len(s) /\ n + 1 \in 1..Len(s) BY LenProperties
<1>2. s[n + 1] \in S BY <1>1, ElementOfSeq
<1>3. SubSeq(s, 1, n) \in Seq(S) BY <1>1
<1>4. SubSeq(s, 1, n + 1) = SubSeq(s, 1, n + 1 - 1) \o <<s[n + 1]>> BY <1>1, SubSeqRecursiveSecond
<1>5. n + 1 - 1 = n OBVIOUS
<1>6. Append(SubSeq(s, 1, n), s[n + 1]) = SubSeq(s, 1, n) \o <<s[n + 1]>> BY <1>2, <1>3, AppendIsConcat
<1> QED BY <1>2, <1>4, <1>5, <1>6

\* The length of the beginning of a file.
LEMMA PrefixLength ==
  ASSUME NEW S, NEW s \in Seq(S), NEW n \in Nat, n <= Len(s)
  PROVE  Len(SubSeq(s, 1, n)) = n
OBVIOUS

\* The beginning of a file: none of it and all of it.
LEMMA NoneAndAll ==
  ASSUME NEW S, NEW s \in Seq(S)
  PROVE  SubSeq(s, 1, 0) = <<>> /\ SubSeq(s, 1, Len(s)) = s
BY SubSeqEmpty, SubSeqFull

\* write() at the end of a file.
LEMMA WriteAtEnd ==
  ASSUME NEW f \in Seq(Chunk), NEW b \in Chunk
  PROVE  WriteAt(f, Len(f), b) = Append(f, b)
<1>1. Len(f) \in Nat BY LenProperties
<1>2. WriteAt(f, Len(f), b) = [i \in 1..(Len(f) + 1) |-> IF i = Len(f) + 1 THEN b ELSE IF i <= Len(f) THEN f[i] ELSE "hole"]
  BY <1>1 DEF WriteAt
<1>3. WriteAt(f, Len(f), b) \in Seq(Chunk) BY <1>1, WriteAtType
<1>4. Len(WriteAt(f, Len(f), b)) = Len(f) + 1 BY <1>1, <1>2
<1>5. Append(f, b) \in Seq(Chunk) /\ Len(Append(f, b)) = Len(f) + 1 OBVIOUS
<1>6. ASSUME NEW i \in 1..(Len(f) + 1) PROVE WriteAt(f, Len(f), b)[i] = Append(f, b)[i]
  BY <1>1, <1>2
<1> QED BY <1>3, <1>4, <1>5, <1>6, SeqEqual

-----------------------------------------------------------------------------
(* Frames. *)

\* A step leaves what the data invariant says of the session of c alone, except
\* that another thread may have changed the file, and noted it.
SameData(c) ==
  /\ Same(c) /\ dq'[c] = dq[c] /\ sent'[c] = sent[c]
  /\ off'[c] = off[c] /\ announced'[c] = announced[c]
  /\ touched[c] => touched'[c]
  /\ ~touched'[c] /\ req[c].code \in {"GET", "PUT"} => Remote(c)' = Remote(c)

\* What other sessions do keeps the data of a session.
LEMMA DataFrame ==
  ASSUME NEW c \in Clients, SessionData(c), SameData(c), touched'[c] \in BOOLEAN
  PROVE  SessionData(c)'
<1> USE DEF SameData, Same
<1>1. Local(c)' = Local(c) BY DEF Local
<1>2. Announced(c)' BY DEF SessionData, Announced
<1>3. Fresh(c)' BY DEF SessionData, Fresh
<1>4. GetData(c)' BY <1>1 DEF SessionData, GetData, Taken
<1>5. PutData(c)' BY <1>1 DEF SessionData, PutData, Receiving
<1> QED BY <1>2, <1>3, <1>4, <1>5 DEF SessionData

\* What a client does leaves the data of other sessions alone.
LEMMA ClientOthersData ==
  ASSUME TypeOK, NEW c \in Clients, NEW j \in Clients, j # c, UNCHANGED serverVars,
         \/ ClientStep(c) \/ Quit(c) \/ Crash(c)
         \/ \E m \in Menu[c] : Issue(c, m)
  PROVE  SameData(j)
<1>1. Same(j) BY ClientOthers
<1>2. /\ off'[j] = off[j] /\ touched'[j] = touched[j]
      /\ Remote(j)' = Remote(j)
  BY DEF serverVars, Remote
<1>3. announced' = announced
  BY DEF ClientStep, EndProcess, netVars, Quit, Crash, Issue, BrokenPipe, ServerGone, NoAck,
     RecvAck, RecvVerdict, RecvSize, SendCode2, ConnectData, ConnectRefused, RecvBlock, RecvEOF,
     RecvReset, SendBlock, SendEOF
<1>4. dq'[j] = dq[j] /\ sent'[j] = sent[j]
  <2> USE DEF TypeOK, NetTypeOK, ClientTypeOK
  <2>1. CASE \E l : EndProcess(c, l) BY <2>1 DEF EndProcess
  <2>2. CASE ClientStep(c) /\ ~\E l : EndProcess(c, l)
    BY <2>2 DEF ClientStep, netVars, BrokenPipe, ServerGone, NoAck, RecvAck, RecvVerdict, RecvSize,
       SendCode2, ConnectData, ConnectRefused, RecvBlock, RecvEOF, RecvReset, SendBlock, SendEOF
  <2>3. CASE Quit(c) \/ Crash(c) BY <2>1, <2>3 DEF Quit, Crash
  <2>4. CASE \E m \in Menu[c] : Issue(c, m) BY <2>4 DEF Issue
  <2> QED BY <2>1, <2>2, <2>3, <2>4
<1> QED BY <1>1, <1>2, <1>3, <1>4 DEF SameData

\* Writing the file of one thread changes no other file, and is noted by the
\* threads that have it.
LEMMA TouchedOrSame ==
  ASSUME TypeOK, Facts, NEW c \in Clients, NEW j \in Clients, j # c, req[c].code \in {"GET", "PUT"},
         NEW v, fs' = [fs EXCEPT ![cwd[c]][req[c].name] = v],
         touched'[j] = TouchOthers(c)[j], cwd' = cwd, req' = req
  PROVE  /\ touched[j] => touched'[j]
         /\ ~touched'[j] /\ req[j].code \in {"GET", "PUT"} => Remote(j)' = Remote(j)
<1>1. touched'[j] = (touched[j] \/ Target(j) = Target(c)) BY DEF TouchOthers
<1>2. SUFFICES ASSUME ~touched'[j], req[j].code \in {"GET", "PUT"}
               PROVE  fs'[cwd[j]][req[j].name] = fs[cwd[j]][req[j].name]
  BY <1>1 DEF Remote
<1>3. cwd[j] # cwd[c] \/ req[j].name # req[c].name BY <1>1, <1>2 DEF Target
<1>4. req[j].name \in Names /\ cwd[j] \in Tree /\ cwd[c] \in Tree /\ fs \in [Tree -> [Names -> Content]]
  BY <1>2, RemoteFileType DEF TypeOK, ServerTypeOK
<1> QED BY <1>3, <1>4

\* What a thread does leaves the data of other sessions alone, or notes it.
LEMMA ServerOthersData ==
  ASSUME TypeOK, Facts, NEW c \in Clients, NEW j \in Clients, j # c, UNCHANGED clientVars,
         ServerStep(c)
  PROVE  SameData(j)
<1>1. Same(j) BY ServerOthers
<1>2. sent'[j] = sent[j] BY DEF clientVars
<1> USE DEF TypeOK, NetTypeOK, ServerTypeOK
<1>3. ASSUME ErrExit PROVE /\ dq'[j] = dq[j] /\ off'[j] = off[j] /\ announced'[j] = announced[j]
                           /\ touched'[j] = touched[j] /\ Remote(j)' = Remote(j)
  BY <1>3 DEF ErrExit, serverVars, Remote
<1>4. ASSUME NEW tok, NEW l, SendOrExit(c, tok, l)
      PROVE  /\ dq'[j] = dq[j] /\ off'[j] = off[j] /\ announced'[j] = announced[j]
             /\ touched'[j] = touched[j] /\ Remote(j)' = Remote(j)
  BY <1>3, <1>4 DEF SendOrExit, Remote
<1>5. dq'[j] = dq[j] /\ off'[j] = off[j] /\ announced'[j] = announced[j]
  <2>1. CASE ErrExit \/ (\E tok, l : SendOrExit(c, tok, l)) BY <1>3, <1>4, <2>1
  <2>2. CASE ~ErrExit /\ ~(\E tok, l : SendOrExit(c, tok, l))
    BY <2>2 DEF ServerStep, netVars, SrvRecv, SrvHangup, SrvAck, SrvGet, SrvCode, SrvCodeReply,
       SrvListen, SrvAccept, Fork, ChildWrite, ChildEnd, SrvPwd, SrvCd, SrvOpenGet, SrvTx, SrvTxEnd,
       SrvOpenPut, SrvRefusePut, SrvRx, SrvRxEnd, Send
  <2> QED BY <2>1, <2>2
<1>6. /\ touched[j] => touched'[j]
      /\ ~touched'[j] /\ req[j].code \in {"GET", "PUT"} => Remote(j)' = Remote(j)
  <2>1. CASE SrvOpenPut(c)
    <3>1. req[c].code = "PUT" /\ fs' = [fs EXCEPT ![cwd[c]][req[c].name] = <<>>]
          /\ touched' = [TouchOthers(c) EXCEPT ![c] = FALSE] /\ cwd' = cwd /\ req' = req
      BY <2>1 DEF SrvOpenPut
    <3>2. touched'[j] = TouchOthers(c)[j] BY <3>1 DEF TouchOthers
    <3> QED BY <3>1, <3>2, TouchedOrSame
  <2>2. CASE SrvRx(c)
    <3>1. req[c].code = "PUT" BY <2>2 DEF SrvRx, Facts, ThreadFacts
    <3>2. cwd[c] \in Tree /\ req[c].name \in Names BY <3>1, RemoteFileType
    <3>3. fs' = [fs EXCEPT ![cwd[c]][req[c].name] =
                   WriteAt(fs[cwd[c]][req[c].name], off[c], Head(dq[c]))]
      BY <2>2, <3>2 DEF SrvRx
    <3>4. touched'[j] = TouchOthers(c)[j] /\ cwd' = cwd /\ req' = req BY <2>2 DEF SrvRx
    <3> QED BY <3>1, <3>3, <3>4, TouchedOrSame
  <2>3. CASE SrvCd(c) BY <1>1, <2>3 DEF SrvCd, Remote, Same
  <2>4. CASE ErrExit \/ (\E tok, l : SendOrExit(c, tok, l)) BY <1>3, <1>4, <2>4
  <2>5. CASE /\ ~SrvOpenPut(c) /\ ~SrvRx(c) /\ ~SrvCd(c)
             /\ ~ErrExit /\ ~(\E tok, l : SendOrExit(c, tok, l))
    <3>1. fs' = fs /\ touched'[j] = touched[j]
      BY <2>5 DEF ServerStep, SrvRecv, SrvHangup, SrvAck, SrvGet, SrvCode, SrvCodeReply,
         SrvListen, SrvAccept, Fork, ChildWrite, ChildEnd, SrvPwd, SrvCd, SrvOpenGet, SrvTx, SrvTxEnd,
         SrvOpenPut, SrvRefusePut, SrvRx, SrvRxEnd
    <3> QED BY <1>1, <3>1 DEF Remote, Same
  <2> QED BY <2>1, <2>2, <2>3, <2>4, <2>5
<1> QED BY <1>1, <1>2, <1>5, <1>6 DEF SameData

-----------------------------------------------------------------------------
(* The steps of a client. *)

\* What the invariant says of a session while the server lives.
LEMMA TransferFacts ==
  ASSUME DataInv, up, NEW c \in Clients
  PROVE  TypeOK /\ InStepAt(c) /\ Lockstep(c) /\ ClientShape(c) /\ ThreadShape(c) /\ SessionData(c)
BY DEF DataInv, Inv, InStep, InStepAt

\* A client that quits or dies keeps the data of its session.
LEMMA EndData ==
  ASSUME DataInv, up, NEW c \in Clients, NEW l \in {"quit", "dead"}, EndProcess(c, l),
         l = "quit" => pc[c] = "prompt", UNCHANGED serverVars
  PROVE  SessionData(c)'
<1> USE TransferFacts
<1>1. /\ pc'[c] = l /\ dcli'[c] = (IF dcli[c] = "open" THEN "shut" ELSE dcli[c])
      /\ dq'[c] = (IF pc[c] = "recvdata" THEN <<>> ELSE dq[c])
      /\ UNCHANGED <<announced, cmd, lfs, sent>>
  BY DEF EndProcess, Goto, TypeOK, NetTypeOK, ClientTypeOK
<1>2. Announced(c)' BY <1>1 DEF SessionData, Announced, Remote, serverVars
<1>3. Fresh(c)' BY <1>1 DEF SessionData, Fresh, serverVars
<1>4. GetData(c)' BY <1>1 DEF GetData
<1>5. PutData(c)'
  <2>1. pc[c] = "recvdata" => req[c].code # "PUT" BY DEF Lockstep, At, ClientShape, ClientFacts
  <2> QED BY <1>1, <2>1 DEF SessionData, PutData, Receiving, Local, Remote, serverVars
<1> QED BY <1>2, <1>3, <1>4, <1>5 DEF SessionData

\* A step of the client outside the transfers, which leaves its files and the
\* data connection alone, keeps the data of its session.
LEMMA QuietData ==
  ASSUME DataInv, up, NEW c \in Clients, UNCHANGED serverVars,
         UNCHANGED <<announced, dcli, dq, lfs, sent>>,
         pc'[c] \notin {"recvdata", "senddata"},
         pc[c] # "senddata" /\ pc[c] # "dead",
         cmd'[c].code = "GET" /\ pc'[c] \in {"size", "sfile", "ack2", "port"}
           => lfs[c][cmd'[c].name] = <<>>
  PROVE  SessionData(c)'
<1> USE TransferFacts DEF serverVars, SessionData
<1>1. Announced(c)' BY DEF Announced, Remote
<1>2. Fresh(c)' BY DEF Fresh
<1>3. GetData(c)' BY DEF GetData
<1>4. PutData(c)' BY DEF PutData, Receiving, Local, Remote
<1> QED BY <1>1, <1>2, <1>3, <1>4

\* A put that is received has a local file, and blocks in flight.
LEMMA PutTypes ==
  ASSUME DataInv, up, NEW c \in Clients, Receiving(c)
  PROVE  /\ req[c].name \in Names
         /\ Local(c) \in Seq(Chunk) /\ dq[c] \in Seq(Chunk) /\ sent[c] \in Nat
         /\ spc[c] = "rx" => Remote(c) \in Seq(Chunk)
<1> USE TransferFacts
<1>1. req[c].code = "PUT" BY DEF Receiving
<1>2. req[c].name \in Names /\ (spc[c] = "rx" => Remote(c) \in Seq(Chunk))
  BY <1>1, RemoteFileType, InStepFacts DEF DataInv, Inv, Gettable, Remote
<1>3. Local(c) \in Content BY <1>2 DEF Local, TypeOK, ClientTypeOK
<1>4. Local(c) # NoFile BY DEF SessionData, PutData
<1> QED BY <1>2, <1>3, <1>4 DEF Content, TypeOK, NetTypeOK, ClientTypeOK

\* A get that is received has a file on both sides.
LEMMA GetTypes ==
  ASSUME DataInv, up, NEW c \in Clients, pc[c] \in {"port", "recvdata"}, req[c].code = "GET"
  PROVE  /\ req[c] = cmd[c] /\ req[c].name \in Names
         /\ Local(c) \in Seq(Chunk) /\ dq[c] \in Seq(Chunk)
         /\ Gettable(c) => Remote(c) \in Seq(Chunk)
<1> USE TransferFacts
<1>1. req[c] = cmd[c] BY DEF Lockstep, At, Offered
<1>2. req[c].name \in Names /\ (Gettable(c) => Remote(c) \in Seq(Chunk))
  BY RemoteFileType, InStepFacts DEF DataInv, Inv, Remote
<1>3. Local(c) \in Seq(Chunk) BY <1>1, LocalFileType, InStepFacts DEF DataInv, Inv, Local, HasFile
<1> QED BY <1>1, <1>2, <1>3 DEF TypeOK, NetTypeOK

\* connect() finds no data on the connection yet.
LEMMA ConnectKeepsData ==
  ASSUME DataInv, up, NEW c \in Clients, ConnectData(c), UNCHANGED serverVars
  PROVE  SessionData(c)'
<1> USE TransferFacts DEF serverVars
<1>1. /\ pc[c] = "port" /\ s2c[c] # <<>> /\ dcli'[c] = "open" /\ sent'[c] = 0
      /\ pc'[c] = (IF cmd[c].code = "PUT" THEN "senddata" ELSE "recvdata")
      /\ UNCHANGED <<announced, dq, cmd, lfs>>
  BY DEF ConnectData, Goto, TypeOK, NetTypeOK, ClientTypeOK
<1>2. spc[c] = "accept" /\ req[c] = cmd[c] /\ dcli[c] = "none" BY <1>1 DEF Lockstep, At, Offered
<1>3. dq[c] = <<>> BY <1>2 DEF SessionData, Fresh
<1>4. Announced(c)' BY <1>1 DEF SessionData, Announced, Remote
<1>5. Fresh(c)' BY <1>1, <1>2 DEF Fresh
<1>6. GetData(c)'
  <2> SUFFICES ASSUME req[c].code = "GET", ~touched[c] PROVE GetData(c)' BY DEF GetData
  <2>1. announced[c] = Len(Remote(c)) BY <1>2 DEF SessionData, Announced
  <2>2. Local(c) = <<>> BY <1>1, <1>2 DEF SessionData, Fresh, Local
  <2>3. Remote(c) \in Seq(Chunk) BY <1>1, <1>2, GetTypes DEF Gettable
  <2>4. Local(c) \o dq[c] = SubSeq(Remote(c), 1, 0)
    <3>1. SubSeq(Remote(c), 1, 0) = <<>> BY <2>3, NoneAndAll
    <3>2. <<>> \o <<>> = <<>> OBVIOUS
    <3> QED BY <1>3, <2>2, <3>1, <3>2
  <2>5. 0 <= Len(Remote(c)) /\ Remote(c) # NoFile BY <2>3, NotNoFile
  <2> QED BY <1>1, <1>2, <2>1, <2>4, <2>5 DEF GetData, Taken, Local, Remote
<1>7. PutData(c)'
  <2> SUFFICES ASSUME req[c].code = "PUT" PROVE PutData(c)' BY DEF PutData, Receiving
  <2>1. Local(c) \in Seq(Chunk) BY <1>2, LocalFileType, InStepFacts DEF DataInv, Inv, Local, HasFile
  <2>2. Local(c) # NoFile /\ 0 <= Len(Local(c)) /\ SubSeq(Local(c), 1, 0) = <<>>
    BY <2>1, NotNoFile, NoneAndAll
  <2> QED BY <1>1, <1>2, <1>3, <2>2 DEF PutData, Local
<1> QED BY <1>4, <1>5, <1>6, <1>7 DEF SessionData

\* A block that a client receives is appended to the file of a get.
LEMMA RecvKeepsData ==
  ASSUME DataInv, up, NEW c \in Clients, RecvBlock(c), UNCHANGED serverVars
  PROVE  SessionData(c)'
<1> USE TransferFacts DEF serverVars
<1>1. /\ pc[c] = "recvdata" /\ pc' = pc /\ dq[c] # <<>> /\ dq'[c] = Tail(dq[c])
      /\ UNCHANGED <<announced, dcli, cmd, sent>>
  BY DEF RecvBlock, TypeOK, NetTypeOK
<1>2. req[c] = cmd[c] /\ dcli[c] = "open" /\ cmd[c].code # "PUT"
  BY <1>1 DEF Lockstep, At, ClientShape, ClientFacts
<1>3. Announced(c)' BY <1>1 DEF SessionData, Announced, Remote
<1>4. Fresh(c)' BY <1>1, <1>2 DEF SessionData, Fresh
<1>5. GetData(c)'
  <2> SUFFICES ASSUME req[c].code = "GET", ~touched[c] PROVE GetData(c)' BY DEF GetData
  <2>1. Local(c) \in Seq(Chunk) /\ dq[c] \in Seq(Chunk) /\ req[c].name \in Names BY <1>1, GetTypes
  <2>2. Local(c)' = Append(Local(c), Head(dq[c]))
    <3>1. lfs' = [lfs EXCEPT ![c][req[c].name] = Append(@, Head(dq[c]))] BY <1>2 DEF RecvBlock
    <3>2. lfs \in [Clients -> [Names -> Content]] BY DEF TypeOK, ClientTypeOK
    <3> QED BY <2>1, <3>1, <3>2 DEF Local
  <2>3. Local(c)' \o dq'[c] = Local(c) \o dq[c] BY <1>1, <2>1, <2>2, Arrives
  <2> QED BY <1>1, <2>3 DEF SessionData, GetData, Taken, Remote
<1>6. PutData(c)' BY <1>2 DEF PutData, Receiving
<1> QED BY <1>3, <1>4, <1>5, <1>6 DEF SessionData

\* A block that a client sends is the next one of its file.
LEMMA SendKeepsData ==
  ASSUME DataInv, up, NEW c \in Clients, SendBlock(c), UNCHANGED serverVars
  PROVE  SessionData(c)'
<1> USE TransferFacts DEF serverVars
<1>1. /\ pc[c] = "senddata" /\ sent[c] < Len(lfs[c][cmd[c].name]) /\ sent'[c] = sent[c] + 1
      /\ UNCHANGED <<announced, dcli, pc, cmd, lfs>>
  BY DEF SendBlock, TypeOK, ClientTypeOK
<1>2. req[c] = cmd[c] /\ dcli[c] = "open" /\ cmd[c].code = "PUT"
  BY <1>1 DEF Lockstep, At, ClientShape, ClientFacts
<1>3. Announced(c)' BY <1>2 DEF Announced
<1>4. Fresh(c)' BY <1>1, <1>2 DEF SessionData, Fresh
<1>5. GetData(c)' BY <1>1 DEF GetData
<1>6. PutData(c)'
  <2> SUFFICES ASSUME Receiving(c) PROVE PutData(c)' BY <1>1 DEF PutData, Receiving
  <2>1. dq'[c] = Append(dq[c], Local(c)[sent[c] + 1])
    <3>1. ~ServerEndGone(c) BY <1>2 DEF ServerEndGone, Receiving, ThreadShape, ThreadFacts
    <3> QED BY <1>2, <3>1 DEF SendBlock, Local, TypeOK, NetTypeOK
  <2>2. /\ Local(c) \in Seq(Chunk) /\ dq[c] \in Seq(Chunk) /\ sent[c] \in Nat
        /\ spc[c] = "rx" => Remote(c) \in Seq(Chunk)
    BY PutTypes
  <2>3. sent[c] < Len(Local(c)) BY <1>1, <1>2 DEF Local
  <2>4. /\ Local(c)[sent[c] + 1] \in Chunk
        /\ Append(SubSeq(Local(c), 1, sent[c]), Local(c)[sent[c] + 1]) = SubSeq(Local(c), 1, sent[c] + 1)
    BY <2>2, <2>3, OneMore
  <2>5. sent'[c] <= Len(Local(c)) BY <1>1, <2>2, <2>3
  <2>6. spc[c] # "rx" => dq'[c] = SubSeq(Local(c), 1, sent'[c])
    BY <1>1, <2>1, <2>4 DEF SessionData, PutData
  <2>7. spc[c] = "rx" /\ ~touched[c] => Remote(c) \o dq'[c] = SubSeq(Local(c), 1, sent'[c])
    <3> SUFFICES ASSUME spc[c] = "rx", ~touched[c]
                 PROVE  Remote(c) \o dq'[c] = SubSeq(Local(c), 1, sent'[c])
      OBVIOUS
    <3>1. Remote(c) \o dq[c] = SubSeq(Local(c), 1, sent[c]) BY DEF SessionData, PutData
    <3>2. Remote(c) \o dq'[c] = Append(Remote(c) \o dq[c], Local(c)[sent[c] + 1])
      <4>1. Remote(c) \o Append(dq[c], Local(c)[sent[c] + 1])
              = Append(Remote(c) \o dq[c], Local(c)[sent[c] + 1])
        <5> DEFINE s == Remote(c)
                   q == dq[c]
                   b == Local(c)[sent[c] + 1]
        <5>1. s \in Seq(Chunk) /\ q \in Seq(Chunk) /\ b \in Chunk BY <2>2, <2>4
        <5> HIDE DEF s, q, b
        <5>2. s \o Append(q, b) = Append(s \o q, b) BY <5>1, Departs
        <5> QED BY <5>2 DEF s, q, b
      <4> QED BY <2>1, <4>1, Zenon
    <3> QED BY <1>1, <2>4, <3>1, <3>2
  <2> QED BY <1>1, <2>5, <2>6, <2>7 DEF SessionData, PutData, Local, Remote
<1> QED BY <1>3, <1>4, <1>5, <1>6 DEF SessionData

\* Every step of a client keeps the data of its session.
LEMMA ClientStepData ==
  ASSUME DataInv, up, NEW c \in Clients, ClientStep(c), UNCHANGED serverVars
  PROVE  SessionData(c)'
<1> USE TransferFacts
<1>1. CASE BrokenPipe(c) BY <1>1, EndData DEF BrokenPipe
<1>2. CASE ServerGone(c) \/ NoAck(c) \/ ConnectRefused(c)
  BY <1>2 DEF ServerGone, NoAck, ConnectRefused, ServerSilent
<1>3. CASE RecvAck(c)
  <2>1. /\ pc[c] \in {"ack", "ack2"} /\ UNCHANGED <<announced, dcli, dq, cmd, lfs, sent>>
        /\ pc'[c] \in {"prompt", AfterAck(c)}
    BY <1>3 DEF RecvAck, Goto, TypeOK, ClientTypeOK
  <2>2. pc'[c] \notin {"recvdata", "senddata"} BY <2>1 DEF AfterAck
  <2>3. cmd'[c].code = "GET" /\ pc'[c] \in {"size", "sfile", "ack2", "port"} => lfs[c][cmd'[c].name] = <<>>
    BY <2>1 DEF AfterAck, SessionData, Fresh
  <2> QED BY <2>1, <2>2, <2>3, QuietData
<1>4. CASE RecvVerdict(c)
  <2>1. /\ pc[c] = "verdict" /\ cmd[c].code = "GET" /\ UNCHANGED <<announced, dcli, dq, cmd, sent>>
        /\ pc'[c] \in {"size", "prompt"}
        /\ pc'[c] = "size" => lfs' = [lfs EXCEPT ![c][cmd[c].name] = <<>>]
    BY <1>4 DEF RecvVerdict, Goto, TypeOK, ClientTypeOK, ClientShape, ClientFacts
  <2>2. spc[c] \in {"get", "recv", "code"} BY <2>1 DEF Lockstep, At
  <2>3. pc'[c] = "size" => lfs'[c][cmd[c].name] = <<>>
    BY <2>1, LocalFileType, InStepFacts DEF DataInv, Inv, TypeOK, ClientTypeOK
  <2>4. Announced(c)' /\ Fresh(c)' BY <2>1, <2>2, <2>3 DEF SessionData, Announced, Fresh, Remote, serverVars
  <2>5. GetData(c)' /\ PutData(c)' BY <2>1, <2>2 DEF GetData, PutData, Receiving, serverVars
  <2> QED BY <2>4, <2>5 DEF SessionData
<1>5. CASE RecvSize(c) \/ SendCode2(c)
  <2>1. /\ pc[c] \in {"size", "sfile", "tfile"} /\ pc'[c] \in {"sfile", "ack2"}
        /\ UNCHANGED <<announced, dcli, dq, cmd, lfs, sent>>
    BY <1>5 DEF RecvSize, SendCode2, Goto, TypeOK, ClientTypeOK
  <2>2. cmd[c].code = "GET" => pc[c] # "tfile" BY DEF ClientShape, ClientFacts
  <2> QED BY <2>1, <2>2, QuietData DEF SessionData, Fresh
<1>6. CASE ConnectData(c) BY <1>6, ConnectKeepsData
<1>7. CASE RecvBlock(c) BY <1>7, RecvKeepsData
<1>8. CASE RecvReset(c) /\ EndProcess(c, "dead") BY <1>8, EndData
<1>9. CASE RecvEOF(c) \/ (RecvReset(c) /\ ~EndProcess(c, "dead"))
  <2>1. /\ pc[c] = "recvdata" /\ pc'[c] = "prompt" /\ dcli'[c] = "shut"
        /\ UNCHANGED <<announced, dq, cmd, lfs, sent>>
    BY <1>9 DEF RecvEOF, RecvReset, Goto, TypeOK, NetTypeOK, ClientTypeOK
  <2>2. req[c].code # "PUT" BY <2>1 DEF Lockstep, At, ClientShape, ClientFacts
  <2>3. Announced(c)' /\ Fresh(c)' BY <2>1 DEF SessionData, Announced, Fresh, Remote, serverVars
  <2>4. GetData(c)' /\ PutData(c)' BY <2>1, <2>2 DEF GetData, PutData, Receiving, serverVars
  <2> QED BY <2>3, <2>4 DEF SessionData
<1>10. CASE SendBlock(c) BY <1>10, SendKeepsData
<1>11. CASE SendEOF(c)
  <2>1. /\ pc[c] = "senddata" /\ pc'[c] = "prompt" /\ dcli'[c] = "shut" /\ dcli[c] = "open"
        /\ sent[c] = Len(Local(c))
        /\ UNCHANGED <<announced, dq, cmd, lfs, sent>>
    BY <1>11 DEF SendEOF, Goto, TypeOK, NetTypeOK, ClientTypeOK, Local, Lockstep, At, ClientShape, ClientFacts
  <2>2. Announced(c)' /\ Fresh(c)' BY <2>1 DEF SessionData, Announced, Fresh, Remote, serverVars
  <2>3. GetData(c)' BY <2>1 DEF GetData
  <2>4. PutData(c)' BY <2>1 DEF SessionData, PutData, Receiving, Local, Remote, serverVars
  <2> QED BY <2>2, <2>3, <2>4 DEF SessionData
<1> QED BY <1>1, <1>2, <1>3, <1>4, <1>5, <1>6, <1>7, <1>8, <1>9, <1>10, <1>11 DEF ClientStep

-----------------------------------------------------------------------------
(* The steps of a thread. *)

\* Where a client in a data loop can find its thread.
LEMMA WhereThread ==
  ASSUME DataInv, up, NEW c \in Clients, pc[c] = "recvdata"
  PROVE  /\ spc[c] \in {"accept", "serve", "ls", "tx", "rx", "recv"}
         /\ c2s[c] = <<>> /\ dcli[c] = "open" /\ req[c] = cmd[c] /\ ctl[c] = "open"
BY TransferFacts DEF Lockstep, At, ClientShape, ClientFacts, Ended, TypeOK, NetTypeOK

\* A step of a thread that does not receive a put, and sends and announces
\* nothing of a get, keeps the data of its session.
LEMMA ThreadMove ==
  ASSUME DataInv, up, NEW c \in Clients, UNCHANGED clientVars,
         announced'[c] = announced[c], req'[c] = req[c], touched'[c] = touched[c],
         spc'[c] \notin {"accept", "serve", "rx"},
         req[c].code = "GET" =>
           /\ dq'[c] = dq[c] /\ cwd'[c] = cwd[c] /\ fs' = fs
           /\ spc'[c] \in {"code", "codeok", "codebad", "listen", "tx"}
                => spc[c] \in {"code", "codeok", "codebad", "listen", "accept", "serve", "tx"}
           /\ pc[c] = "recvdata" /\ ~touched[c] => Taken(c)' = Taken(c)
  PROVE  SessionData(c)'
<1> USE TransferFacts DEF clientVars, SessionData
<1>1. Announced(c)' BY DEF Announced, Remote
<1>2. Fresh(c)' BY DEF Fresh
<1>3. GetData(c)'
  <2> SUFFICES ASSUME pc[c] = "recvdata", req[c].code = "GET", ~touched[c] PROVE GetData(c)'
    BY DEF GetData
  <2>1. Local(c)' = Local(c) /\ Remote(c)' = Remote(c) /\ Taken(c)' = Taken(c) BY DEF Local, Remote
  <2> QED BY <2>1 DEF GetData
<1>4. PutData(c)' BY DEF PutData, Receiving
<1> QED BY <1>1, <1>2, <1>3, <1>4

\* handle_get announces the size that the file has.
LEMMA AnnounceData ==
  ASSUME DataInv, up, NEW c \in Clients, SrvGet(c), UNCHANGED clientVars, up'
  PROVE  SessionData(c)'
<1> USE TransferFacts DEF clientVars
<1>1. spc[c] = "get" /\ pc[c] # "recvdata" BY WhereThread DEF SrvGet
<1>2. CASE SendOrExit(c, "BAD", "recv")
  <2>1. /\ announced'[c] = announced[c] /\ req'[c] = req[c] /\ touched'[c] = touched[c]
        /\ spc'[c] = "recv" /\ dq'[c] = dq[c] /\ cwd'[c] = cwd[c] /\ fs' = fs
    BY <1>2 DEF SendOrExit, ErrExit, Step, TypeOK, ServerTypeOK
  <2> QED BY <1>1, <2>1, ThreadMove
<1>3. CASE ~SendOrExit(c, "BAD", "recv")
  <2>1. /\ announced'[c] = Len(Remote(c)) /\ spc'[c] = "code" /\ touched'[c] = FALSE
        /\ UNCHANGED <<dcli, dq, req, cwd, fs, off>>
    BY <1>3 DEF SrvGet, ErrExit, Step, Remote, TypeOK, NetTypeOK, ServerTypeOK
  <2>2. Announced(c)' BY <2>1 DEF Announced, Remote
  <2>3. Fresh(c)' BY <2>1 DEF SessionData, Fresh
  <2>4. GetData(c)' /\ PutData(c)' BY <1>1, <2>1 DEF GetData, PutData, Receiving
  <2> QED BY <2>2, <2>3, <2>4 DEF SessionData
<1> QED BY <1>2, <1>3

\* A new data socket has nothing in flight; a connection that is accepted
\* begins at the beginning of the file.
LEMMA OfferData ==
  ASSUME DataInv, up, NEW c \in Clients, SrvListen(c) \/ SrvAccept(c), UNCHANGED clientVars
  PROVE  SessionData(c)'
<1> USE TransferFacts DEF clientVars
<1>1. CASE SrvListen(c)
  <2>1. /\ spc[c] = "listen" /\ spc'[c] = "accept" /\ dcli'[c] = "none" /\ dq'[c] = <<>>
        /\ UNCHANGED <<announced, req, cwd, fs, off, touched>>
    BY <1>1 DEF SrvListen, Step, TypeOK, NetTypeOK, ServerTypeOK
  <2>2. pc[c] # "recvdata" BY <2>1, WhereThread
  <2>3. Announced(c)' /\ Fresh(c)' BY <2>1 DEF SessionData, Announced, Fresh, Remote
  <2>4. GetData(c)' /\ PutData(c)' BY <2>1, <2>2 DEF GetData, PutData, Receiving
  <2> QED BY <2>3, <2>4 DEF SessionData
<1>2. CASE SrvAccept(c)
  <2>1. /\ spc[c] = "accept" /\ dcli[c] # "none" /\ spc'[c] = "serve" /\ off'[c] = 0
        /\ UNCHANGED <<announced, dcli, dq, req, cwd, fs, touched>>
    BY <1>2 DEF SrvAccept, Step, TypeOK, ServerTypeOK
  <2>2. Announced(c)' /\ Fresh(c)' BY <2>1 DEF SessionData, Announced, Fresh, Remote
  <2>3. GetData(c)' BY <2>1 DEF SessionData, GetData, Taken, Local, Remote
  <2>4. PutData(c)' BY <2>1 DEF SessionData, PutData, Receiving, Local, Remote
  <2> QED BY <2>2, <2>3, <2>4 DEF SessionData
<1> QED BY <1>1, <1>2

\* A block that send_file_to_client sends is the next one of its file.
LEMMA TxKeepsData ==
  ASSUME DataInv, up, NEW c \in Clients, SrvTx(c), UNCHANGED clientVars
  PROVE  SessionData(c)'
<1> USE TransferFacts DEF clientVars
<1>1. /\ spc[c] = "tx" /\ spc' = spc /\ off[c] < Len(Remote(c)) /\ off'[c] = off[c] + 1
      /\ UNCHANGED <<announced, dcli, req, cwd, fs, touched>>
  BY DEF SrvTx, Remote, TypeOK, ServerTypeOK
<1>2. req[c].code = "GET" BY <1>1 DEF ThreadShape, ThreadFacts
<1>3. Announced(c)' BY <1>1 DEF SessionData, Announced, Remote
<1>4. Fresh(c)' BY <1>1 DEF SessionData, Fresh
<1>5. PutData(c)' BY <1>1, <1>2 DEF PutData, Receiving
<1>6. GetData(c)'
  <2> SUFFICES ASSUME pc[c] = "recvdata", ~touched[c] PROVE GetData(c)' BY <1>1 DEF GetData
  <2> DEFINE f == Remote(c)
             l == Local(c)
             q == dq[c]
             n == off[c]
             b == Remote(c)[off[c] + 1]
  <2>1. l \in Seq(Chunk) /\ q \in Seq(Chunk) /\ f \in Seq(Chunk)
    BY <1>1, <1>2, GetTypes DEF Gettable
  <2>2. n \in Nat /\ n < Len(f) BY <1>1 DEF TypeOK, ServerTypeOK
  <2>3. l \o q = SubSeq(f, 1, n) /\ announced[c] = Len(f)
    BY <1>1, <1>2 DEF SessionData, GetData, Taken
  <2>4. dq'[c] = Append(q, b)
    BY <1>1, WhereThread DEF SrvTx, Send, Remote, TypeOK, NetTypeOK
  <2>5. l' = l /\ f' = f BY <1>1 DEF Local, Remote
  <2>6. b = f[n + 1] OBVIOUS
  <2> HIDE DEF f, l, q, n, b
  <2>7. b \in Chunk /\ Append(SubSeq(f, 1, n), b) = SubSeq(f, 1, n + 1) BY <2>1, <2>2, <2>6, OneMore
  <2>8. l \o Append(q, b) = SubSeq(f, 1, n + 1)
    <3> HIDE TransferFacts
    <3>1. l \o Append(q, b) = Append(l \o q, b) BY <2>1, <2>7, Departs
    <3> QED BY <2>3, <2>7, <3>1
  <2>9. n + 1 <= Len(f) BY <2>1, <2>2
  <2>10. Taken(c)' = n + 1 BY <1>1 DEF Taken, n
  <2>11. announced'[c] = Len(f) /\ f # NoFile BY <1>1, <2>1, <2>3, NotNoFile
  <2> QED BY <2>4, <2>5, <2>8, <2>9, <2>10, <2>11 DEF GetData, f, l
<1> QED BY <1>3, <1>4, <1>5, <1>6 DEF SessionData

\* rec_file_from_client begins with an empty file.
LEMMA OpenPutData ==
  ASSUME DataInv, up, NEW c \in Clients, SrvOpenPut(c), UNCHANGED clientVars
  PROVE  SessionData(c)'
<1> USE TransferFacts DEF clientVars
<1>1. /\ spc[c] = "serve" /\ spc'[c] = "rx" /\ req[c].code = "PUT"
      /\ UNCHANGED <<announced, dcli, dq, req, cwd, off>>
  BY DEF SrvOpenPut, Step, netVars, TypeOK, ServerTypeOK
<1>2. Remote(c)' = <<>>
  <2>1. req[c].name \in Names /\ cwd[c] \in Tree /\ fs \in [Tree -> [Names -> Content]]
    BY <1>1, RemoteFileType, InStepFacts DEF DataInv, Inv, TypeOK, ServerTypeOK
  <2>2. fs' = [fs EXCEPT ![cwd[c]][req[c].name] = <<>>] BY DEF SrvOpenPut
  <2> QED BY <1>1, <2>1, <2>2 DEF Remote
<1>3. off[c] = 0 BY <1>1 DEF SessionData, Fresh
<1>4. Announced(c)' /\ GetData(c)' BY <1>1 DEF Announced, GetData
<1>5. Fresh(c)' BY <1>1 DEF SessionData, Fresh
<1>6. PutData(c)'
  <2>1. Local(c)' = Local(c) BY <1>1 DEF Local
  <2>2. Receiving(c) BY <1>1 DEF Receiving
  <2>3. <<>> \o dq[c] = dq[c] BY <2>2, PutTypes, ConcatEmptySeq
  <2>4. Len(<<>>) = 0 OBVIOUS
  <2> QED BY <1>1, <1>2, <1>3, <2>1, <2>2, <2>3, <2>4 DEF SessionData, PutData
<1> QED BY <1>4, <1>5, <1>6 DEF SessionData

\* A block that rec_file_from_client receives goes to the end of its file.
LEMMA RxKeepsData ==
  ASSUME DataInv, up, NEW c \in Clients, SrvRx(c), UNCHANGED clientVars
  PROVE  SessionData(c)'
<1> USE TransferFacts DEF clientVars
<1>1. /\ spc[c] = "rx" /\ spc' = spc /\ dq[c] # <<>> /\ dq'[c] = Tail(dq[c]) /\ off'[c] = off[c] + 1
      /\ UNCHANGED <<announced, dcli, req, cwd>>
  BY DEF SrvRx, TypeOK, NetTypeOK, ServerTypeOK
<1>2. req[c].code = "PUT" BY <1>1 DEF ThreadShape, ThreadFacts
<1>3. touched'[c] = touched[c] BY DEF SrvRx, TouchOthers, TypeOK, ServerTypeOK
<1>4. Announced(c)' /\ GetData(c)' BY <1>1, <1>2 DEF Announced, GetData
<1>5. Fresh(c)' BY <1>1 DEF SessionData, Fresh
<1>6. PutData(c)'
  <2>1. Receiving(c) BY <1>1, <1>2 DEF Receiving
  <2>2. Local(c)' = Local(c) BY <1>1 DEF Local
  <2>3. ASSUME ~touched[c]
        PROVE  off'[c] = Len(Remote(c)') /\ Remote(c)' \o dq'[c] = SubSeq(Local(c), 1, sent[c])
    <3> DEFINE f == Remote(c)
               q == dq[c]
    <3>1. f \in Seq(Chunk) /\ q \in Seq(Chunk) /\ q # <<>> /\ req[c].name \in Names
      BY <1>1, <2>1, PutTypes
    <3>2. off[c] = Len(f) /\ f \o q = SubSeq(Local(c), 1, sent[c])
      BY <1>1, <2>1, <2>3 DEF SessionData, PutData
    <3>3. Remote(c)' = WriteAt(f, Len(f), Head(q))
      <4>1. fs' = [fs EXCEPT ![cwd[c]][req[c].name] = WriteAt(@, off[c], Head(dq[c]))] BY DEF SrvRx
      <4>2. cwd[c] \in Tree /\ fs \in [Tree -> [Names -> Content]] BY DEF TypeOK, ServerTypeOK
      <4>3. fs'[cwd[c]][req[c].name] = WriteAt(fs[cwd[c]][req[c].name], off[c], Head(dq[c]))
        BY <3>1, <4>1, <4>2
      <4> QED BY <1>1, <3>2, <4>3 DEF Remote
    <3>4. q' = Tail(q) /\ off'[c] = Len(f) + 1 BY <1>1, <3>2
    <3> HIDE DEF f, q
    <3>5. Head(q) \in Chunk BY <3>1
    <3>6. WriteAt(f, Len(f), Head(q)) = Append(f, Head(q)) BY <3>1, <3>5, WriteAtEnd
    <3>7. Len(Append(f, Head(q))) = Len(f) + 1 BY <3>1, <3>5, AppendProperties
    <3>8. Append(f, Head(q)) \o Tail(q) = f \o q BY <3>1, Arrives
    <3> QED BY <3>2, <3>3, <3>4, <3>6, <3>7, <3>8 DEF q
  <2> QED BY <1>1, <1>3, <2>1, <2>2, <2>3 DEF SessionData, PutData
<1> QED BY <1>4, <1>5, <1>6 DEF SessionData

\* Every step of a thread keeps the data of its session, as long as it does not
\* end the server.
LEMMA ServerStepData ==
  ASSUME DataInv, up, NEW c \in Clients, ServerStep(c), UNCHANGED clientVars, up'
  PROVE  SessionData(c)'
<1> USE TransferFacts DEF clientVars, Step, TypeOK, NetTypeOK, ServerTypeOK
<1>0. ASSUME NEW tok, NEW l, SendOrExit(c, tok, l)
      PROVE  /\ UNCHANGED <<announced, dq, req, cwd, fs, off, touched>>
             /\ spc'[c] = l
  BY <1>0 DEF SendOrExit, ErrExit
<1>1. CASE SrvRecv(c)
  <2>1. /\ spc[c] = "recv" /\ c2s[c] # <<>> /\ spc'[c] = "ack"
        /\ UNCHANGED <<announced, dcli, dq, cwd, fs, off, touched>>
    BY <1>1 DEF SrvRecv
  <2>2. pc[c] # "recvdata" BY <2>1, WhereThread
  <2> QED BY <2>1, <2>2 DEF SessionData, Announced, Fresh, GetData, PutData, Receiving
<1>2. CASE SrvHangup(c)
  <2>1. /\ ctl[c] # "open" /\ spc'[c] = "done"
        /\ UNCHANGED <<announced, dcli, dq, req, cwd, fs, off, touched>>
    BY <1>2 DEF SrvHangup, ErrExit, netVars
  <2>2. pc[c] # "recvdata" BY <2>1, WhereThread
  <2> QED BY <2>1, <2>2, ThreadMove
<1>3. CASE SrvAck(c)
  <2>1. /\ spc[c] = "ack" /\ spc'[c] \in {"listen", "get", "code", "recv"}
        /\ req[c].code = "GET" => spc'[c] = "get"
        /\ UNCHANGED <<announced, dq, req, cwd, fs, off, touched>>
    BY <1>0, <1>3 DEF SrvAck
  <2>2. pc[c] # "recvdata" BY <2>1, WhereThread
  <2> QED BY <2>1, <2>2, ThreadMove
<1>4. CASE SrvGet(c) BY <1>4, AnnounceData
<1>5. CASE SrvCode(c)
  <2>1. /\ spc[c] = "code" /\ spc'[c] \in {"codeok", "codebad"}
        /\ UNCHANGED <<announced, dq, req, cwd, fs, off, touched>>
    BY <1>5 DEF SrvCode
  <2>2. pc[c] # "recvdata" BY <2>1, WhereThread
  <2> QED BY <2>1, <2>2, ThreadMove
<1>6. CASE SrvCodeReply(c)
  <2>1. /\ spc[c] \in {"codeok", "codebad"} /\ spc'[c] \in {"listen", "recv"}
        /\ UNCHANGED <<announced, dq, req, cwd, fs, off, touched>>
    BY <1>0, <1>6 DEF SrvCodeReply
  <2>2. pc[c] # "recvdata" BY <2>1, WhereThread
  <2> QED BY <2>1, <2>2, ThreadMove
<1>7. CASE SrvListen(c) \/ SrvAccept(c) BY <1>7, OfferData
<1>8. CASE Fork(c) \/ ChildWrite(c) \/ ChildEnd(c)
  <2>1. /\ req[c].code = "LIST" /\ spc'[c] \in {"ls", "recv"}
        /\ UNCHANGED <<announced, req, cwd, fs, touched>>
    BY <1>8 DEF Fork, ChildWrite, ChildEnd, CloseData, ThreadShape, ThreadFacts
  <2> QED BY <2>1, ThreadMove
<1>9. CASE SrvPwd(c) \/ SrvCd(c)
  <2>1. /\ req[c].code \in {"CWD", "CD"} /\ spc'[c] = "recv"
        /\ UNCHANGED <<announced, req, fs, touched>>
    BY <1>9 DEF SrvPwd, SrvCd, CloseData
  <2> QED BY <2>1, ThreadMove
<1>10. CASE SrvOpenGet(c)
  <2>1. /\ spc[c] = "serve" /\ spc'[c] = "tx"
        /\ UNCHANGED <<announced, dq, req, cwd, fs, off, touched>>
    BY <1>10 DEF SrvOpenGet, netVars
  <2>2. off[c] = 0 BY <2>1 DEF SessionData, Fresh
  <2>3. Taken(c)' = Taken(c) BY <2>1, <2>2 DEF Taken
  <2> QED BY <2>1, <2>3, ThreadMove
<1>11. CASE SrvTx(c) BY <1>11, TxKeepsData
<1>12. CASE SrvTxEnd(c)
  <2>1. /\ spc[c] = "tx" /\ spc'[c] = "recv" /\ off[c] >= Len(Remote(c))
        /\ UNCHANGED <<announced, dq, req, cwd, fs, off, touched>>
    BY <1>12 DEF SrvTxEnd, CloseData, Remote
  <2>2. ASSUME req[c].code = "GET", pc[c] = "recvdata", ~touched[c]
        PROVE  Taken(c)' = Taken(c)
    <3>1. off[c] <= Len(Remote(c)) BY <2>1, <2>2 DEF SessionData, GetData, Taken
    <3>2. Remote(c) \in Seq(Chunk) BY <2>1, <2>2, GetTypes DEF Gettable
    <3>3. Len(Remote(c)) \in Nat BY <3>2, LenProperties
    <3>4. off[c] = Len(Remote(c)) BY <2>1, <3>1, <3>3
    <3> QED BY <2>1, <3>4 DEF Taken, Remote
  <2> QED BY <2>1, <2>2, ThreadMove
<1>13. CASE SrvOpenPut(c) BY <1>13, OpenPutData
<1>14. CASE SrvRefusePut(c)
  <2>1. req[c].code = "PUT" /\ spc'[c] = "recv" /\ UNCHANGED <<announced, req, touched>>
    BY <1>14 DEF SrvRefusePut, CloseData
  <2> QED BY <2>1, ThreadMove
<1>15. CASE SrvRx(c) BY <1>15, RxKeepsData
<1>16. CASE SrvRxEnd(c)
  <2>1. req[c].code = "PUT" /\ spc'[c] = "recv" /\ UNCHANGED <<announced, req, touched>>
    BY <1>16 DEF SrvRxEnd, CloseData, ThreadShape, ThreadFacts
  <2> QED BY <2>1, ThreadMove
<1> QED BY <1>1, <1>2, <1>3, <1>4, <1>5, <1>6, <1>7, <1>8, <1>9, <1>10, <1>11, <1>12, <1>13, <1>14,
           <1>15, <1>16 DEF ServerStep

-----------------------------------------------------------------------------
(* The invariant of the system. *)

\* A command or a quit of the user, a signal, or a reset that arrives, keeps the
\* data of the session it belongs to.
LEMMA UserStepData ==
  ASSUME DataInv, up, NEW c \in Clients, UNCHANGED serverVars,
         Quit(c) \/ Crash(c) \/ \E m \in Menu[c] : Issue(c, m)
  PROVE  SessionData(c)'
<1>1. CASE Quit(c) BY <1>1, EndData DEF Quit
<1>2. CASE Crash(c) BY <1>2, EndData DEF Crash
<1>3. ASSUME NEW m \in Menu[c], Issue(c, m) PROVE SessionData(c)'
  <2>1. /\ pc[c] = "prompt" /\ pc'[c] = "ack"
        /\ UNCHANGED <<announced, dcli, dq, lfs, sent>>
    BY <1>3, TransferFacts DEF Issue, Goto, TypeOK, ClientTypeOK
  <2> QED BY <2>1, QuietData
<1> QED BY <1>1, <1>2, <1>3

\* Before the first command nothing is announced and nothing is in flight.
LEMMA InitData == Init => DataInv
<1> SUFFICES ASSUME Init, NEW c \in Clients PROVE SessionData(c)
  BY InitInv DEF DataInv
<1> QED
  BY DEF SessionData, Announced, Fresh, GetData, PutData, Receiving, Init, InitNet, InitClient,
     InitServer, NoReq

\* A server that has ended does not come back.
LEMMA UpStays == [Next]_vars /\ up' => up
<1> SUFFICES ASSUME Next, up' PROVE up BY DEF vars, netVars
<1>1. ASSUME NEW c \in Clients, ServerStep(c) PROVE up
  BY <1>1 DEF ServerStep, SrvRecv, SrvHangup, SrvAck, SrvGet, SrvCode, SrvCodeReply, SrvListen,
     SrvAccept, Fork, ChildWrite, ChildEnd, SrvPwd, SrvCd, SrvOpenGet, SrvTx, SrvTxEnd, SrvOpenPut,
     SrvRefusePut, SrvRx, SrvRxEnd
<1>2. ASSUME NEW c \in Clients, ClientStep(c) PROVE up
  BY <1>2 DEF ClientStep, EndProcess, netVars, BrokenPipe, ServerGone, NoAck, RecvAck, RecvVerdict,
     RecvSize, SendCode2, ConnectData, ConnectRefused, RecvBlock, RecvEOF, RecvReset, SendBlock, SendEOF
<1>3. ASSUME NEW c \in Clients, User(c) \/ NetReset(c) PROVE up
  BY <1>3 DEF User, Issue, Quit, Crash, EndProcess, NetReset
<1> QED BY <1>1, <1>2, <1>3 DEF Next, Run

\* Every step of the system preserves what the files hold.
LEMMA NextData == DataInv /\ [Next]_vars => DataInv'
<1> SUFFICES ASSUME DataInv, [Next]_vars, up', NEW j \in Clients PROVE SessionData(j)'
  BY NextInv DEF DataInv
<1>1. TypeOK /\ Facts /\ TypeOK' BY NextInv, InStepFacts DEF DataInv, Inv
<1>2. up BY UpStays
<1>3. SessionData(j) BY <1>2 DEF DataInv
<1>4. touched'[j] \in BOOLEAN BY <1>1 DEF TypeOK, ServerTypeOK
<1>5. CASE UNCHANGED vars
  <2>1. SameData(j)
    BY <1>5 DEF SameData, Same, Remote, vars, netVars, clientVars, serverVars
  <2> QED BY <1>3, <1>4, <2>1, DataFrame
<1>6. ASSUME NEW c \in Clients, UNCHANGED serverVars,
             \/ ClientStep(c) \/ Quit(c) \/ Crash(c)
             \/ \E m \in Menu[c] : Issue(c, m)
      PROVE  SessionData(j)'
  <2>1. CASE j = c BY <1>2, <1>6, <2>1, ClientStepData, UserStepData
  <2>2. CASE j # c
    <3>1. SameData(j) BY <1>1, <1>6, <2>2, ClientOthersData
    <3> QED BY <1>3, <1>4, <3>1, DataFrame
  <2> QED BY <2>1, <2>2
<1>7. ASSUME NEW c \in Clients, ServerStep(c), UNCHANGED clientVars PROVE SessionData(j)'
  <2>1. CASE j = c BY <1>2, <1>7, <2>1, ServerStepData
  <2>2. CASE j # c
    <3>1. SameData(j) BY <1>1, <1>7, <2>2, ServerOthersData
    <3> QED BY <1>3, <1>4, <3>1, DataFrame
  <2> QED BY <2>1, <2>2
<1>8. ASSUME NEW c \in Clients, NetReset(c), UNCHANGED <<clientVars, serverVars>>
      PROVE  SessionData(j)'
  <2>1. UNCHANGED <<announced, dcli, dq, pc, cmd, lfs, sent, spc, req, cwd, fs, off, touched>>
    BY <1>8 DEF NetReset, clientVars, serverVars
  <2>2. Local(j)' = Local(j) /\ Remote(j)' = Remote(j) BY <2>1 DEF Local, Remote
  <2>3. Announced(j)' BY <1>3, <2>1, <2>2 DEF SessionData, Announced
  <2>4. Fresh(j)' BY <1>3, <2>1 DEF SessionData, Fresh
  <2>5. GetData(j)' BY <1>3, <2>1, <2>2 DEF SessionData, GetData, Taken
  <2>6. PutData(j)' BY <1>3, <2>1, <2>2 DEF SessionData, PutData, Receiving
  <2> QED BY <2>3, <2>4, <2>5, <2>6 DEF SessionData
<1> QED BY <1>5, <1>6, <1>7, <1>8 DEF Next, Run, User

-----------------------------------------------------------------------------
(* Theorems. *)

\* At every moment of a get or a put of send_file_to_client, read_data_from_request,
\* send_data_for_request and rec_file_from_client: the blocks at the receiver and
\* the blocks in flight are the beginning of the sender's file.
THEOREM DataInvariance == Spec => []DataInv
BY InitData, NextData, PTL DEF Spec

\* While the server is up, a get of a file that no other session writes receives no more
\* than was announced, which is what the bar of write_progress() was made for.
THEOREM NoMoreThanAnnounced == Spec => []ProgressFits
<1>1. DataInv => ProgressFits
  <2> SUFFICES ASSUME DataInv, NEW c \in Clients,
                      pc[c] = "recvdata", req[c].code = "GET", up, ~touched[c]
               PROVE  Len(Local(c)) + Len(dq[c]) <= announced[c]
    BY DEF ProgressFits
  <2> DEFINE l == Local(c)
             q == dq[c]
             f == Remote(c)
             n == Taken(c)
  <2>1. l \in Seq(Chunk) /\ q \in Seq(Chunk) BY GetTypes
  <2>2. announced[c] = Len(f) /\ n <= Len(f) /\ l \o q = SubSeq(f, 1, n)
    BY TransferFacts DEF SessionData, GetData
  <2>3. f \in Seq(Chunk) /\ n \in Nat
    <3>1. f \in Content /\ f # NoFile
      BY TransferFacts, RemoteFileType, InStepFacts DEF DataInv, Inv, SessionData, GetData, Remote
    <3>2. f \in Seq(Chunk) BY <3>1 DEF Content
    <3> QED BY <3>2, TransferFacts DEF Taken, TypeOK, ServerTypeOK
  <2> HIDE DEF l, q, f, n
  <2>4. Len(SubSeq(f, 1, n)) = n BY <2>2, <2>3, PrefixLength
  <2>5. Len(l \o q) = Len(l) + Len(q) BY <2>1, ConcatProperties
  <2>6. Len(l) + Len(q) <= announced[c] BY <2>2, <2>4, <2>5
  <2> QED BY <2>6 DEF l, q
<1> QED BY <1>1, DataInvariance, PTL

\* handle_get: the file that a client holds when its get ends is the server's,
\* whatever the other sessions did and however the blocks were buffered.
THEOREM GetsAreFaithful == Spec => GetFaithful
<1>1. DataInv /\ [Next]_vars =>
        [\A c \in Clients : RecvEOF(c) /\ up /\ req[c].code = "GET" /\ ~touched[c]
                              => Local(c) = Remote(c)]_vars
  <2> SUFFICES ASSUME DataInv, NEW c \in Clients, RecvEOF(c), up, req[c].code = "GET", ~touched[c]
               PROVE  Local(c) = Remote(c)
    OBVIOUS
  <2>1. pc[c] = "recvdata" /\ dq[c] = <<>> /\ dsrv[c] = "shut" BY DEF RecvEOF, ServerEndGone
  <2>2. spc[c] = "recv" BY <2>1, WhereThread, TransferFacts DEF ThreadShape, ThreadFacts
  <2>3. /\ Remote(c) # NoFile
        /\ Local(c) \o <<>> = SubSeq(Remote(c), 1, Len(Remote(c)))
    BY <2>1, <2>2, TransferFacts DEF SessionData, GetData, Taken
  <2>4. Local(c) \in Seq(Chunk) BY <2>1, GetTypes
  <2>5. Remote(c) \in Seq(Chunk)
    BY <2>3, RemoteFileType, InStepFacts DEF DataInv, Inv, Remote, Content
  <2>6. SubSeq(Remote(c), 1, Len(Remote(c))) = Remote(c) BY <2>5, NoneAndAll
  <2>7. Local(c) \o <<>> = Local(c) BY <2>4, ConcatEmptySeq
  <2> QED BY <2>3, <2>6, <2>7
<1> QED BY <1>1, DataInvariance, PTL DEF Spec, GetFaithful

\* handle_put: the file that the server holds when its thread ends a put is the
\* client's, or the beginning of it when the client was killed on the way.
THEOREM PutsAreFaithful == Spec => PutFaithful
<1>1. DataInv /\ [Next]_vars =>
        [\A c \in Clients :
           SrvRxEnd(c) /\ ~touched[c] =>
             IF pc[c] = "dead"
             THEN /\ Len(Remote(c)) <= Len(Local(c))
                  /\ Remote(c) = SubSeq(Local(c), 1, Len(Remote(c)))
             ELSE Remote(c) = Local(c)]_vars
  <2> SUFFICES ASSUME DataInv, NEW c \in Clients, SrvRxEnd(c), ~touched[c]
               PROVE  IF pc[c] = "dead"
                      THEN /\ Len(Remote(c)) <= Len(Local(c))
                           /\ Remote(c) = SubSeq(Local(c), 1, Len(Remote(c)))
                      ELSE Remote(c) = Local(c)
    OBVIOUS
  <2>1. up /\ spc[c] = "rx" /\ dq[c] = <<>> /\ dcli[c] = "shut" BY DEF SrvRxEnd
  <2>2. Receiving(c) BY <2>1, TransferFacts DEF Receiving, ThreadShape, ThreadFacts
  <2>3. /\ Local(c) \in Seq(Chunk) /\ Remote(c) \in Seq(Chunk) /\ sent[c] \in Nat
    BY <2>1, <2>2, PutTypes
  <2>4. /\ sent[c] <= Len(Local(c))
        /\ pc[c] \notin {"senddata", "dead"} => sent[c] = Len(Local(c))
        /\ Remote(c) \o <<>> = SubSeq(Local(c), 1, sent[c])
    BY <2>1, <2>2, TransferFacts DEF SessionData, PutData
  <2>5. pc[c] # "senddata" BY <2>1, TransferFacts DEF ClientShape, ClientFacts
  <2>6. Remote(c) = SubSeq(Local(c), 1, sent[c]) BY <2>3, <2>4, ConcatEmptySeq
  <2>7. Len(Remote(c)) = sent[c] BY <2>3, <2>4, <2>6, PrefixLength
  <2>8. SubSeq(Local(c), 1, Len(Local(c))) = Local(c) BY <2>3, NoneAndAll
  <2> QED BY <2>4, <2>5, <2>6, <2>7, <2>8
<1> QED BY <1>1, DataInvariance, PTL DEF Spec, PutFaithful

=============================================================================
