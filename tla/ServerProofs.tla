---------------------------- MODULE ServerProofs ----------------------------
(***************************************************************************)
(* Theorems about the servers and the programs that talk to them, for      *)
(* every value of their constants: Gnet; Chat, Echo, UdpEcho and HalfClose *)
(* of cpp-socket; SharedSum; AsyncProducer; and UserService, whose         *)
(* constants and variables are declared where its theorems begin.          *)
(***************************************************************************)
EXTENDS Gnet, NaturalsInduction, WellFoundedInduction, FunctionTheorems, FiniteSetTheorems, TLAPS

CONSTANTS
  Clients, Cap, BufSize, SockCap, MaxSend,                                \* Chat
  EchoKinds, MaxLine, EchoBuf, EchoBufio, EchoSock, Split,                \* Echo
  UdpClients, Connected, UdpBuf, Sizes, MaxRounds, Loses, Copies, Exits, Strays,  \* UdpEcho
  HalfKinds, MaxLen, LineLen, HalfBuf, HalfBufio,                         \* HalfClose
  Program, Threads, Rounds,                                               \* SharedSum
  Total, Pending                                                          \* AsyncProducer

VARIABLES
  up, pending, cur, arr, arrLen, mut, hpc, buf, idx, c2s, s2c,
  cst, recv, sent, got, log, from,                                        \* Chat
  echoKind, echoCpc, echoSend, echoUnsent, echoC2s, echoSbio, echoSpc, echoHold, echoS2c,
  echoCbio, echoOwed, udpCpc, udpSend, udpRound, udpPrinted, udpRefused, udpUp,
  udpToServer, udpToClient, udpDisturbed, halfKind, halfTotal, halfSpc, halfCpc, halfLeft,
  halfBio, halfFds, halfShut, halfS2c, halfC2s, halfGot, halfCollected, halfThanked,
  sumSum, sumMutex, sumPc, sumI, sumReg, sumWg, sumPrinted, asyncMpc, asyncI,
  asyncEnqueued, asyncTimedOut, asyncSpc, asyncSucceeded, asyncEpc, asyncFailed,
  asyncTaken, asyncSuccesses, asyncErrors, asyncClosed

Chat == INSTANCE Chat
Echo == INSTANCE Echo WITH
  Kinds <- EchoKinds, BufSize <- EchoBuf, BioSize <- EchoBufio, SockCap <- EchoSock,
  kind <- echoKind, cpc <- echoCpc, send <- echoSend, unsent <- echoUnsent, c2s <- echoC2s,
  sbio <- echoSbio, spc <- echoSpc, hold <- echoHold, s2c <- echoS2c, cbio <- echoCbio,
  owed <- echoOwed
Udp == INSTANCE UdpEcho WITH
  Clients <- UdpClients, BufSize <- UdpBuf, cpc <- udpCpc, send <- udpSend, round <- udpRound,
  printed <- udpPrinted, refused <- udpRefused, up <- udpUp, toServer <- udpToServer,
  toClient <- udpToClient, disturbed <- udpDisturbed
Half == INSTANCE HalfClose WITH
  Kinds <- HalfKinds, BufSize <- HalfBuf, BioSize <- HalfBufio, kind <- halfKind,
  total <- halfTotal, spc <- halfSpc, cpc <- halfCpc, left <- halfLeft, bio <- halfBio,
  fds <- halfFds, shut <- halfShut, s2c <- halfS2c, c2s <- halfC2s, got <- halfGot,
  collected <- halfCollected, thanked <- halfThanked
Sum == INSTANCE SharedSum WITH
  sum <- sumSum, mutex <- sumMutex, pc <- sumPc, i <- sumI, reg <- sumReg, wg <- sumWg,
  printed <- sumPrinted
Async == INSTANCE AsyncProducer WITH
  mpc <- asyncMpc, i <- asyncI, enqueued <- asyncEnqueued, timedOut <- asyncTimedOut,
  spc <- asyncSpc, succeeded <- asyncSucceeded, epc <- asyncEpc, failed <- asyncFailed,
  taken <- asyncTaken, successes <- asyncSuccesses, errors <- asyncErrors, closed <- asyncClosed

-----------------------------------------------------------------------------
(* Gnet: types.                                                            *)

\* The accept loop holds a socket that it has neither added nor refused yet.
HoldsSocket == apc \in {"test", "refuse", "add"}

\* What TypeOK needs to be inductive: the bounds of the model are respected.
Bounded ==
  /\ HoldsSocket => nextId < MaxAccepts
  /\ \A c \in Conns : Len(msgs[c]) <= MaxMsgs

TypeInv == TypeOK /\ Bounded

\* The connection id is an index of the dictionary.
LEMMA IdOfType == \A c \in Conns : IdOf(c) \in Ids
  BY ConfAssumption, BoundAssumption DEF IdOf, Ids, Conns

LEMMA TypeInit == Init => TypeInv
<1> SUFFICES ASSUME Init PROVE TypeInv
  OBVIOUS
<1> USE ConfAssumption, BoundAssumption DEF Init
<1>1. /\ nextId \in 0 .. MaxAccepts
      /\ received \in [Conns -> 0 .. MaxMsgs]
      /\ outbox \in [Conns -> 0 .. SockBuf]
      /\ msgs \in [Conns -> Seq(Kinds)]
      /\ reqChan \in [Workers -> Seq(Senders)]
  OBVIOUS
<1>2. TypeOK
  BY <1>1 DEF TypeOK, StopLabels
<1>3. Bounded
  BY DEF Bounded, HoldsSocket
<1> QED BY <1>2, <1>3 DEF TypeInv

LEMMA TypeNext == TypeInv /\ [Next]_vars => TypeInv'
<1> USE ConfAssumption, BoundAssumption DEF TypeInv, TypeOK, Bounded, HoldsSocket
<1> SUFFICES ASSUME TypeInv, [Next]_vars PROVE TypeInv'
  OBVIOUS
<1> USE DEF registry, network, chans, control
<1>1. CASE Listen      BY <1>1 DEF Listen
<1>2. CASE AcceptTCP \/ TestConnNum \/ Refuse
  BY <1>2 DEF AcceptTCP, TestConnNum, Refuse
<1>3. CASE AddConn
  <2>1. nextId \in Conns
    BY <1>3 DEF AddConn, Conns
  <2>2. nextId' \in 0 .. MaxAccepts
    BY <1>3 DEF AddConn
  <2>3. connDict' \in [Ids -> Conns \cup {None}]
    BY <1>3, <2>1 DEF AddConn
  <2> QED BY <1>3, <2>2, <2>3 DEF AddConn
<1>4. ASSUME NEW c \in Conns, Start(c) PROVE TypeInv'
  BY <1>4 DEF Start
<1>5. ASSUME NEW c \in Conns, ReadPacket(c) PROVE TypeInv'
  <2>1. received' \in [Conns -> 0 .. MaxMsgs]
    BY <1>5 DEF ReadPacket
  <2>2. stop' \in [Stoppers -> StopLabels]
    BY <1>5 DEF ReadPacket, StopLabels
  <2> QED BY <1>5, <2>1, <2>2 DEF ReadPacket
<1>6. ASSUME NEW c \in Conns, ReadError(c) PROVE TypeInv'
  BY <1>6 DEF ReadError, StopLabels
<1>7. ASSUME NEW c \in Conns, PushToReqChan(c) PROVE TypeInv'
  <2>1. <<c, received[c]>> \in Senders
    BY <1>7 DEF Senders
  <2>2. reqChan' \in [Workers -> Seq(Senders)]
    <3>1. \/ UNCHANGED reqChan
          \/ reqChan' = [reqChan EXCEPT ![WorkerOf(c)] = Append(@, <<c, received[c]>>)]
      BY <1>7 DEF PushToReqChan
    <3>2. \A w \in Workers : Append(reqChan[w], <<c, received[c]>>) \in Seq(Senders)
      BY <2>1
    <3> HIDE DEF TypeInv
    <3>3. reqChan \in [Workers -> Seq(Senders)]
      BY DEF TypeInv
    <3> HIDE DEF TypeOK
    <3> QED BY <3>1, <3>2, <3>3
  <2>3. Routed(<<c, received[c]>>) \in {"check", "done"}
    BY DEF Routed
  <2>4. spc' \in [Senders -> {"none", "held", "queued", "check", "send", "done"}]
    <3>1. PICK v \in {"queued", "check", "done"} :
            spc' = [spc EXCEPT ![<<c, received[c]>>] = v]
      BY <1>7, <2>3 DEF PushToReqChan
    <3> QED BY <2>1, <3>1
  <2> QED BY <1>7, <2>2, <2>4 DEF PushToReqChan
<1>8. ASSUME NEW g \in Stoppers, Stop(g) PROVE TypeInv'
  <2> USE DEF StopGoto, StopLabels
  <2>1. CASE StopCheck(g)           BY <2>1 DEF StopCheck
  <2>2. CASE StopMark(g)            BY <2>2 DEF StopMark
  <2>3. CASE StopCloseSocket(g)     BY <2>3 DEF StopCloseSocket
  <2>4. CASE StopNotify(g)
    <3>1. closedBuf' \in [Conns -> {0, 1}] /\ stop' \in [Stoppers -> StopLabels]
      BY <2>4 DEF StopNotify
    <3> QED BY <2>4, <3>1 DEF StopNotify
  <2>5. CASE StopDelConn(g)         BY <2>5 DEF StopDelConn
  <2>6. CASE StopCloseClosedChan(g) BY <2>6 DEF StopCloseClosedChan
  <2>7. CASE StopClosePacketChan(g) BY <2>7 DEF StopClosePacketChan
  <2> QED BY <1>8, <2>1, <2>2, <2>3, <2>4, <2>5, <2>6, <2>7 DEF Stop
<1>9. ASSUME NEW w \in Workers, WorkerPop(w) PROVE TypeInv'
  <2>1. /\ reqChan[w] # <<>>
        /\ reqChan' = [reqChan EXCEPT ![w] = Tail(@)]
        /\ spc' = [spc EXCEPT ![Head(reqChan[w])] = Routed(Head(reqChan[w]))]
    BY <1>9 DEF WorkerPop
  <2>2. Tail(reqChan[w]) \in Seq(Senders)
    BY <2>1
  <2>3. reqChan' \in [Workers -> Seq(Senders)]
    BY <2>1, <2>2
  <2>4. Routed(Head(reqChan[w])) \in {"check", "done"}
    BY DEF Routed
  <2>5. spc' \in [Senders -> {"none", "held", "queued", "check", "send", "done"}]
    BY <2>1, <2>4
  <2> QED BY <1>9, <2>3, <2>5 DEF WorkerPop
<1>10. ASSUME NEW s \in Senders, Sender(s) PROVE TypeInv'
  <2>1. CASE SendCheck(s)
    <3>1. PICK v \in {"done", "send"} : spc' = [spc EXCEPT ![s] = v]
      BY <2>1 DEF SendCheck
    <3>2. spc' \in [Senders -> {"none", "held", "queued", "check", "send", "done"}]
      BY <3>1
    <3> QED BY <2>1, <3>2 DEF SendCheck
  <2>2. CASE SendPanic(s)
    BY <2>2 DEF SendPanic
  <2> QED BY <1>10, <2>1, <2>2 DEF Sender
<1>11. ASSUME NEW c \in Conns, Writer(c) PROVE TypeInv'
  <2>1. CASE WriterRecv(c)       BY <2>1 DEF WriterRecv
  <2>2. CASE WriterRecvClosed(c) BY <2>2 DEF WriterRecvClosed
  <2>3. CASE WriterClosed(c)
    <3>1. closedBuf' = [closedBuf EXCEPT ![c] = 0]
      BY <2>3 DEF WriterClosed
    <3>2. closedBuf' \in [Conns -> {0, 1}]
      BY <3>1
    <3> QED BY <2>3, <3>2 DEF WriterClosed
  <2>4. CASE SocketWrite(c)
    <3>1. \/ UNCHANGED outbox
          \/ outbox[c] < SockBuf /\ outbox' = [outbox EXCEPT ![c] = @ + 1]
      BY <2>4 DEF SocketWrite
    <3>2. outbox \in [Conns -> 0 .. SockBuf]
      OBVIOUS
    <3>3. outbox' \in [Conns -> 0 .. SockBuf]
      <4> HIDE DEF TypeInv
      <4> QED BY <3>1, <3>2
    <3> QED BY <2>4, <3>3 DEF SocketWrite
  <2> QED BY <1>11, <2>1, <2>2, <2>3, <2>4 DEF Writer
<1>12. CASE Signal       BY <1>12 DEF Signal
<1>13. CASE DelAllConn
  <2> USE DEF StopGoto, StopLabels
  <2>1. CASE DelAllLock   BY <2>1 DEF DelAllLock
  <2>2. CASE DelAllStop
    <3>1. mconn' \in Conns \cup {None}
      BY <2>2 DEF DelAllStop
    <3> QED BY <2>2, <3>1 DEF DelAllStop
  <2>3. CASE DelAllDelete BY <2>3 DEF DelAllDelete
  <2>4. CASE DelAllUnlock BY <2>4 DEF DelAllUnlock
  <2> QED BY <1>13, <2>1, <2>2, <2>3, <2>4 DEF DelAllConn
<1>14. CASE Exit         BY <1>14 DEF Exit
<1>15. ASSUME NEW c \in Conns, Client(c) PROVE TypeInv'
  <2>1. CASE ClientSend(c)
    <3>1. PICK k \in Traffic : msgs' = [msgs EXCEPT ![c] = Append(@, k)]
      BY <2>1 DEF ClientSend
    <3>2. k \in Kinds
      BY DEF Kinds
    <3>3. msgs' \in [Conns -> Seq(Kinds)]
      BY <3>1, <3>2
    <3>4. \A d \in Conns : Len(msgs'[d]) <= MaxMsgs
      BY <2>1, <3>1, <3>2 DEF ClientSend
    <3> QED BY <2>1, <3>3, <3>4 DEF ClientSend
  <2>2. CASE ClientRead(c)
    <3>1. outbox' \in [Conns -> 0 .. SockBuf]
      BY <2>2 DEF ClientRead
    <3> QED BY <2>2, <3>1 DEF ClientRead
  <2>3. CASE ClientLeave(c) BY <2>3 DEF ClientLeave
  <2> QED BY <1>15, <2>1, <2>2, <2>3 DEF Client
<1>16. CASE UNCHANGED vars BY <1>16 DEF vars
<1>17. \A c \in Conns : c \in Stoppers
  BY DEF Stoppers
<1>18. Main \in Stoppers
  BY DEF Stoppers
<1> QED
  BY <1>1, <1>2, <1>3, <1>4, <1>5, <1>6, <1>7, <1>8, <1>9, <1>10, <1>11, <1>12,
     <1>13, <1>14, <1>15, <1>16, <1>17, <1>18
  DEF Next, Acceptor, Reader, Shutdown

\* Every reachable state of the server is well typed.
THEOREM TypeCorrect == Spec => []TypeOK
<1>1. Init => TypeInv
  BY TypeInit
<1>2. TypeInv /\ [Next]_vars => TypeInv'
  BY TypeNext
<1>3. TypeInv => TypeOK
  BY DEF TypeInv
<1> QED
  BY <1>1, <1>2, <1>3, PTL DEF Spec

-----------------------------------------------------------------------------
(* No channel is closed twice.                                             *)

\* DelAllConn holds the lock from its first iteration to its last, and the
\* Stop it calls cannot get past DelConn.
LockHeld ==
  /\ connLock <=> mpc \in {"range", "stopping"}
  /\ stop[Main] # "idle" => mpc = "stopping"
  /\ stop[Main] \notin {"closeC", "closeP"}

\* A connection in the dictionary is there under its own id, and neither of
\* its channels is closed.
DictEntries ==
  \A i \in Ids : connDict[i] # None =>
    LET c == connDict[i] IN
    /\ IdOf(c) = i
    /\ c < nextId
    /\ ~closedDone[c]
    /\ stop[c] \notin {"closeC", "closeP"}

\* The connection that DelAllConn is stopping is still in the dictionary.
MainTarget ==
  mpc = "stopping" => mconn \in Conns /\ connDict[IdOf(mconn)] = mconn

\* Only the reader of a connection closes its channels, in order.
ReaderCloses ==
  \A c \in Conns :
    /\ closedDone[c] => stop[c] \in {"closeP", "done"}
    /\ packetDone[c] => stop[c] = "done"
    /\ rpc[c] = "stopping" <=> stop[c] # "idle"
    /\ c >= nextId => rpc[c] = "none"

CloseInv ==
  /\ TypeInv
  /\ LockHeld
  /\ DictEntries
  /\ MainTarget
  /\ ReaderCloses
  /\ ChannelsClosedOnce

LEMMA CloseInit == Init => CloseInv
<1> SUFFICES ASSUME Init PROVE CloseInv
  OBVIOUS
<1>1. TypeInv
  BY TypeInit
<1>2. LockHeld /\ MainTarget /\ ReaderCloses /\ ChannelsClosedOnce
  BY DEF Init, LockHeld, MainTarget, ReaderCloses, ChannelsClosedOnce, Stoppers
<1>3. DictEntries
  BY DEF Init, DictEntries
<1> QED BY <1>1, <1>2, <1>3 DEF CloseInv

\* The variables that the invariant is about.
closeVars == <<mpc, mconn, connDict, connLock, nextId, closedDone, packetDone, rpc, stop>>

\* Steps that touch none of them and do not panic on a close.
LEMMA CloseFrame ==
  ASSUME CloseInv, UNCHANGED closeVars, proc' # "panic_close", TypeInv'
  PROVE  CloseInv'
BY DEF CloseInv, closeVars, LockHeld, DictEntries, MainTarget, ReaderCloses, ChannelsClosedOnce

\* The reader's Stop.
LEMMA CloseReader ==
  ASSUME NEW c \in Conns, CloseInv, Stop(c), TypeInv'
  PROVE  CloseInv'
<1> USE DEF LockHeld, DictEntries, MainTarget, ReaderCloses, ChannelsClosedOnce, StopGoto
<1>1. /\ connDict \in [Ids -> Conns \cup {None}]
      /\ stop \in [Stoppers -> StopLabels]
      /\ closedDone \in [Conns -> BOOLEAN]
      /\ packetDone \in [Conns -> BOOLEAN]
  BY DEF CloseInv, TypeInv, TypeOK
<1>2. c # Main /\ c # None /\ c \in Stoppers /\ Main \in Stoppers /\ StopTarget(c) = c /\ IdOf(c) \in Ids
  BY IdOfType, BoundAssumption DEF Conns, Main, None, Stoppers, StopTarget
<1>3. LockHeld /\ DictEntries /\ MainTarget /\ ReaderCloses /\ ChannelsClosedOnce
  BY DEF CloseInv
<1>4. CASE StopCheck(c) \/ StopMark(c) \/ StopCloseSocket(c)
  <2>1. /\ UNCHANGED <<proc, mpc, mconn, connDict, connLock, nextId, closedDone, packetDone, rpc>>
        /\ stop[c] \in {"check", "mark", "close"}
        /\ \E l \in {"mark", "close", "notify", "done"} : stop' = [stop EXCEPT ![c] = l]
    BY <1>4 DEF StopCheck, StopMark, StopCloseSocket, registry, chans
  <2> QED BY <1>1, <1>2, <1>3, <2>1 DEF CloseInv
<1>5. CASE StopNotify(c)
  <2>1. ~closedDone[c]
    BY <1>3, <1>5 DEF StopNotify
  <2>2. /\ UNCHANGED <<proc, mpc, mconn, connDict, connLock, nextId, closedDone, packetDone, rpc>>
        /\ stop[c] = "notify"
        /\ stop' = [stop EXCEPT ![c] = "delete"]
    BY <1>2, <1>5, <2>1 DEF StopNotify, registry
  <2> QED BY <1>1, <1>2, <1>3, <2>2 DEF CloseInv
<1>6. CASE StopDelConn(c)
  <2>1. /\ UNCHANGED <<proc, mpc, mconn, connLock, nextId, closedDone, packetDone, rpc>>
        /\ stop[c] = "delete" /\ ~connLock
        /\ connDict' = [connDict EXCEPT ![IdOf(c)] = None]
        /\ stop' = [stop EXCEPT ![c] = "closeC"]
    BY <1>2, <1>6 DEF StopDelConn, chans
  <2>2. LockHeld' /\ MainTarget' /\ ChannelsClosedOnce'
    BY <1>1, <1>2, <1>3, <2>1
  <2>3. DictEntries'
    BY <1>1, <1>2, <1>3, <2>1
  <2>4. ReaderCloses'
    BY <1>1, <1>2, <1>3, <2>1
  <2> QED BY <2>2, <2>3, <2>4 DEF CloseInv
<1>7. CASE StopCloseClosedChan(c) \/ StopClosePacketChan(c)
  <2>1. /\ stop[c] = "closeC" => ~closedDone[c]
        /\ stop[c] = "closeP" => ~packetDone[c]
    BY <1>3
  <2>2. /\ UNCHANGED <<proc, mpc, mconn, connDict, connLock, nextId, rpc>>
        /\ \/ /\ stop[c] = "closeC" /\ stop' = [stop EXCEPT ![c] = "closeP"]
              /\ closedDone' = [closedDone EXCEPT ![c] = TRUE]
              /\ UNCHANGED packetDone
           \/ /\ stop[c] = "closeP" /\ stop' = [stop EXCEPT ![c] = "done"]
              /\ packetDone' = [packetDone EXCEPT ![c] = TRUE]
              /\ UNCHANGED closedDone
    BY <1>2, <1>7, <2>1 DEF StopCloseClosedChan, StopClosePacketChan, registry
  <2>3. LockHeld' /\ MainTarget' /\ ChannelsClosedOnce'
    BY <1>1, <1>2, <1>3, <2>2
  <2>4. DictEntries'
    <3>1. \A i \in Ids : connDict[i] # c
      BY <1>2, <1>3, <2>2
    <3>2. \A i \in Ids : connDict[i] # None =>
             /\ stop'[connDict[i]] = stop[connDict[i]]
             /\ closedDone'[connDict[i]] = closedDone[connDict[i]]
      BY <1>1, <1>2, <2>2, <3>1 DEF Stoppers
    <3> QED BY <1>3, <2>2, <3>2
  <2>5. ReaderCloses'
    <3> SUFFICES ASSUME NEW d \in Conns
                 PROVE  /\ closedDone'[d] => stop'[d] \in {"closeP", "done"}
                        /\ packetDone'[d] => stop'[d] = "done"
                        /\ rpc'[d] = "stopping" <=> stop'[d] # "idle"
                        /\ d >= nextId' => rpc'[d] = "none"
      OBVIOUS
    <3>1. CASE d # c
      BY <1>1, <1>2, <1>3, <2>2, <3>1 DEF Stoppers
    <3>2. CASE d = c
      BY <1>1, <1>2, <1>3, <2>2, <3>2
    <3> QED BY <3>1, <3>2
  <2> QED BY <2>3, <2>4, <2>5 DEF CloseInv
<1> QED BY <1>4, <1>5, <1>6, <1>7 DEF Stop

\* The Stop called by DelAllConn: it blocks in DelConn, whose lock it holds.
LEMMA CloseMain ==
  ASSUME CloseInv, Stop(Main), TypeInv'
  PROVE  CloseInv'
<1> USE DEF LockHeld, DictEntries, MainTarget, ReaderCloses, ChannelsClosedOnce, StopGoto
<1>1. /\ connDict \in [Ids -> Conns \cup {None}]
      /\ stop \in [Stoppers -> StopLabels]
  BY DEF CloseInv, TypeInv, TypeOK
<1>2. /\ Main \in Stoppers /\ Main \notin Conns /\ None \notin Conns
      /\ \A c \in Conns : IdOf(c) \in Ids /\ c \in Stoppers
  BY IdOfType, BoundAssumption DEF Conns, Main, None, Stoppers
<1>3. LockHeld /\ DictEntries /\ MainTarget /\ ReaderCloses /\ ChannelsClosedOnce
  BY DEF CloseInv
<1>4. stop[Main] # "idle"
  BY DEF Stop, StopCheck, StopMark, StopCloseSocket, StopNotify, StopDelConn,
         StopCloseClosedChan, StopClosePacketChan
<1>5. connLock /\ mconn \in Conns /\ connDict[IdOf(mconn)] = mconn /\ ~closedDone[mconn]
  BY <1>1, <1>2, <1>3, <1>4
<1>6. /\ UNCHANGED <<proc, mpc, mconn, connDict, connLock, nextId, closedDone, packetDone, rpc>>
      /\ \E l \in {"mark", "close", "notify", "delete", "done"} : stop' = [stop EXCEPT ![Main] = l]
  BY <1>3, <1>5 DEF Stop, StopCheck, StopMark, StopCloseSocket, StopNotify, StopDelConn,
         StopCloseClosedChan, StopClosePacketChan, StopTarget, registry, chans
<1> QED BY <1>1, <1>2, <1>3, <1>4, <1>6 DEF CloseInv

LEMMA CloseNext == CloseInv /\ [Next]_vars => CloseInv'
<1> SUFFICES ASSUME CloseInv, [Next]_vars PROVE CloseInv'
  OBVIOUS
<1>1. TypeInv'
  BY TypeNext DEF CloseInv
<1>2. /\ connDict \in [Ids -> Conns \cup {None}]
      /\ stop \in [Stoppers -> StopLabels]
      /\ rpc \in [Conns -> {"none", "created", "read", "push", "stopping"}]
      /\ nextId \in Nat
      /\ apc = "add" => nextId \in Conns
  BY BoundAssumption DEF CloseInv, TypeInv, TypeOK, Bounded, HoldsSocket, Conns
<1>3. /\ Main \in Stoppers /\ Main \notin Conns /\ None \notin Conns
      /\ \A c \in Conns : c \in Nat /\ IdOf(c) \in Ids /\ c \in Stoppers
  BY IdOfType, BoundAssumption DEF Conns, Main, None, Stoppers
<1>4. LockHeld /\ DictEntries /\ MainTarget /\ ReaderCloses /\ ChannelsClosedOnce
  BY DEF CloseInv
<1> USE DEF LockHeld, DictEntries, MainTarget, ReaderCloses, ChannelsClosedOnce, StopGoto
<1>5. CASE Listen \/ AcceptTCP \/ TestConnNum \/ Refuse
  BY <1>1, <1>4, <1>5, CloseFrame DEF Listen, AcceptTCP, TestConnNum, Refuse, closeVars, registry, chans
<1>6. CASE AddConn
  <2>1. /\ nextId \in Conns /\ ~connLock
        /\ connDict' = [connDict EXCEPT ![IdOf(nextId)] = nextId]
        /\ rpc' = [rpc EXCEPT ![nextId] = "created"]
        /\ nextId' = nextId + 1
        /\ UNCHANGED <<proc, mpc, mconn, connLock, closedDone, packetDone, stop>>
    BY <1>2, <1>6 DEF AddConn, chans
  <2>2. rpc[nextId] = "none" /\ stop[nextId] = "idle" /\ ~closedDone[nextId]
    BY <1>4, <1>2, <2>1
  <2>3. LockHeld' /\ MainTarget' /\ ChannelsClosedOnce'
    BY <1>4, <2>1
  <2>4. DictEntries'
    <3> SUFFICES ASSUME NEW i \in Ids, connDict'[i] # None
                 PROVE  /\ IdOf(connDict'[i]) = i
                        /\ connDict'[i] < nextId'
                        /\ ~closedDone'[connDict'[i]]
                        /\ stop'[connDict'[i]] \notin {"closeC", "closeP"}
      OBVIOUS
    <3>1. CASE i = IdOf(nextId)
      BY <1>2, <1>3, <2>1, <2>2, <3>1
    <3>2. CASE i # IdOf(nextId)
      <4>1. connDict'[i] = connDict[i] /\ connDict[i] \in Conns
        BY <1>2, <2>1, <3>2
      <4>2. IdOf(connDict[i]) = i /\ connDict[i] < nextId
        BY <1>4, <1>3, <4>1
      <4>3. ~closedDone[connDict[i]] /\ stop[connDict[i]] \notin {"closeC", "closeP"}
        BY <1>4, <1>3, <4>1
      <4>4. connDict[i] < nextId + 1
        BY <1>2, <1>3, <4>1, <4>2
      <4> QED BY <2>1, <4>1, <4>2, <4>3, <4>4
    <3> QED BY <3>1, <3>2
  <2>5. ReaderCloses'
    BY <1>2, <1>3, <1>4, <2>1, <2>2
  <2> QED BY <1>1, <2>3, <2>4, <2>5 DEF CloseInv
<1>7. ASSUME NEW c \in Conns, Start(c) \/ PushToReqChan(c) PROVE CloseInv'
  <2>1. /\ UNCHANGED <<proc, mpc, mconn, connDict, connLock, nextId, closedDone, packetDone, stop>>
        /\ rpc[c] \in {"created", "push"}
        /\ rpc' = [rpc EXCEPT ![c] = "read"]
    BY <1>7 DEF Start, PushToReqChan, registry, chans
  <2> QED BY <1>1, <1>2, <1>3, <1>4, <2>1 DEF CloseInv
<1>8. ASSUME NEW c \in Conns, ReadPacket(c) \/ ReadError(c) PROVE CloseInv'
  <2>1. /\ UNCHANGED <<proc, mpc, mconn, connDict, connLock, nextId, closedDone, packetDone>>
        /\ rpc[c] = "read"
        /\ \/ rpc' = [rpc EXCEPT ![c] = "push"] /\ UNCHANGED stop
           \/ rpc' = [rpc EXCEPT ![c] = "stopping"] /\ stop' = [stop EXCEPT ![c] = "check"]
    BY <1>8 DEF ReadPacket, ReadError, registry, chans
  <2>2. LockHeld' /\ MainTarget' /\ ChannelsClosedOnce'
    BY <1>2, <1>3, <1>4, <2>1
  <2>3. DictEntries'
    BY <1>2, <1>3, <1>4, <2>1
  <2>4. ReaderCloses'
    BY <1>2, <1>3, <1>4, <2>1
  <2> QED BY <1>1, <2>2, <2>3, <2>4 DEF CloseInv
<1>9. ASSUME NEW c \in Conns, Stop(c) PROVE CloseInv'
  BY <1>1, <1>9, CloseReader
<1>10. CASE Stop(Main)
  BY <1>1, <1>10, CloseMain
<1>11. ASSUME NEW w \in Workers, WorkerPop(w) PROVE CloseInv'
  BY <1>1, <1>4, <1>11, CloseFrame DEF WorkerPop, closeVars, registry, chans
<1>12. ASSUME NEW s \in Senders, Sender(s) PROVE CloseInv'
  BY <1>1, <1>4, <1>12, CloseFrame
  DEF Sender, SendCheck, SendPanic, closeVars, registry, chans, control
<1>13. ASSUME NEW c \in Conns, Writer(c) PROVE CloseInv'
  BY <1>1, <1>4, <1>13, CloseFrame
  DEF Writer, WriterRecv, WriterRecvClosed, WriterClosed, SocketWrite, closeVars, registry, chans
<1>14. ASSUME NEW c \in Conns, Client(c) PROVE CloseInv'
  BY <1>1, <1>4, <1>14, CloseFrame
  DEF Client, ClientSend, ClientRead, ClientLeave, closeVars, registry, chans, control
<1>15. CASE Exit
  BY <1>1, <1>15, CloseFrame DEF Exit, closeVars, registry, chans, control
<1>16. CASE Signal
  BY <1>1, <1>4, <1>16 DEF CloseInv, Signal, registry, chans
<1>17. CASE DelAllConn
  <2>1. CASE DelAllLock
    BY <1>1, <1>4, <2>1 DEF CloseInv, DelAllLock, chans
  <2>2. CASE DelAllStop
    <3>1. PICK i \in Ids : connDict[i] # None /\ mconn' = connDict[i]
      BY <2>2 DEF DelAllStop
    <3>2. /\ UNCHANGED <<proc, connDict, connLock, nextId, closedDone, packetDone, rpc>>
          /\ mpc = "range" /\ mpc' = "stopping"
          /\ stop' = [stop EXCEPT ![Main] = "check"]
      BY <2>2 DEF DelAllStop, registry, chans
    <3>3. MainTarget'
      BY <1>2, <1>4, <3>1, <3>2
    <3> QED BY <1>1, <1>2, <1>3, <1>4, <3>2, <3>3 DEF CloseInv
  <2>3. CASE DelAllDelete
    <3>1. /\ UNCHANGED <<proc, mconn, connLock, nextId, closedDone, packetDone, rpc>>
          /\ mpc = "stopping" /\ mpc' = "range"
          /\ connDict' = [connDict EXCEPT ![IdOf(mconn)] = None]
          /\ stop' = [stop EXCEPT ![Main] = "idle"]
      BY <2>3 DEF DelAllDelete, chans
    <3>2. LockHeld' /\ MainTarget' /\ ChannelsClosedOnce' /\ ReaderCloses'
      BY <1>2, <1>3, <1>4, <3>1
    <3>3. DictEntries'
      BY <1>2, <1>3, <1>4, <3>1
    <3> QED BY <1>1, <3>2, <3>3 DEF CloseInv
  <2>4. CASE DelAllUnlock
    BY <1>1, <1>4, <2>4 DEF CloseInv, DelAllUnlock, chans
  <2> QED BY <1>17, <2>1, <2>2, <2>3, <2>4 DEF DelAllConn
<1>18. CASE UNCHANGED vars
  BY <1>1, <1>4, <1>18, CloseFrame DEF vars, closeVars, registry, chans, control
<1> QED
  BY <1>5, <1>6, <1>7, <1>8, <1>9, <1>10, <1>11, <1>12, <1>13, <1>14, <1>15, <1>16, <1>17, <1>18
  DEF Next, Acceptor, Reader, Shutdown

\* Conn.Stop never closes a channel twice and never sends on a closed
\* ClosedChan, however the reader's Stop and DelAllConn interleave.
THEOREM NoDoubleClose == Spec => []ChannelsClosedOnce
<1>1. CloseInv => ChannelsClosedOnce
  BY DEF CloseInv
<1> QED BY <1>1, CloseInit, CloseNext, PTL DEF Spec

-----------------------------------------------------------------------------
(* The connection limit.                                                   *)

Registered == {i \in Ids : connDict[i] # None}

LEMMA IdSetsFinite ==
  ASSUME NEW S \in SUBSET Ids
  PROVE  IsFiniteSet(S) /\ Cardinality(S) \in Nat
<1>1. IsFiniteSet(Ids)
  BY ConfAssumption, FS_Interval DEF Ids
<1> QED BY <1>1, FS_Subset, FS_CardinalityType

\* A step that adds nothing does not raise the count; AddConn adds one at most.
LEMMA CountStep ==
  ASSUME NEW i \in Ids, Registered' \subseteq Registered \cup {i}
  PROVE  /\ GetConnNum' <= GetConnNum + 1
         /\ Registered' \subseteq Registered => GetConnNum' <= GetConnNum
<1>1. IsFiniteSet(Registered) /\ GetConnNum = Cardinality(Registered) /\ GetConnNum \in Nat
  BY IdSetsFinite DEF GetConnNum, Registered
<1>2. IsFiniteSet(Registered') /\ GetConnNum' = Cardinality(Registered') /\ GetConnNum' \in Nat
  BY IdSetsFinite DEF GetConnNum, Registered
<1>3. /\ IsFiniteSet(Registered \cup {i})
      /\ Cardinality(Registered \cup {i}) <= Cardinality(Registered) + 1
  BY <1>1, FS_AddElement
<1>4. Cardinality(Registered') <= Cardinality(Registered \cup {i})
  BY <1>3, FS_Subset
<1>5. Registered' \subseteq Registered => Cardinality(Registered') <= Cardinality(Registered)
  BY <1>1, FS_Subset
<1>6. Cardinality(Registered \cup {i}) \in Nat
  BY <1>3, FS_CardinalityType
<1> QED BY <1>1, <1>2, <1>3, <1>4, <1>5, <1>6

LimitInv == TypeInv /\ ConnNumBound

LEMMA LimitInit == Init => LimitInv
<1> SUFFICES ASSUME Init PROVE LimitInv
  OBVIOUS
<1>1. {i \in Ids : connDict[i] # None} = {}
  BY DEF Init
<1>2. GetConnNum = 0
  BY <1>1, FS_EmptySet DEF GetConnNum
<1>3. apc # "add"
  BY DEF Init
<1> QED BY <1>2, <1>3, TypeInit, ConfAssumption DEF LimitInv, ConnNumBound

\* A step that leaves the accept goroutine alone and adds no entry.
LEMMA LimitShrink ==
  ASSUME LimitInv, TypeInv', UNCHANGED apc, Registered' \subseteq Registered
  PROVE  LimitInv'
<1>1. PICK i \in Ids : TRUE
  BY ConfAssumption DEF Ids
<1>2. GetConnNum' <= GetConnNum
  BY <1>1, CountStep
<1>3. GetConnNum \in Nat /\ GetConnNum' \in Nat
  BY IdSetsFinite DEF GetConnNum
<1>4. CASE apc = "add"
  BY <1>2, <1>3, <1>4, ConfAssumption DEF LimitInv, ConnNumBound
<1>5. CASE apc # "add"
  BY <1>2, <1>3, <1>5, ConfAssumption DEF LimitInv, ConnNumBound
<1> QED BY <1>4, <1>5

LEMMA LimitNext == LimitInv /\ [Next]_vars => LimitInv'
<1> SUFFICES ASSUME LimitInv, [Next]_vars PROVE LimitInv'
  OBVIOUS
<1>1. TypeInv'
  BY TypeNext DEF LimitInv
<1>2. connDict \in [Ids -> Conns \cup {None}]
  BY DEF LimitInv, TypeInv, TypeOK
<1>3. GetConnNum \in Nat /\ GetConnNum' \in Nat
  BY IdSetsFinite DEF GetConnNum
<1> USE DEF registry, chans, control
<1>4. ASSUME UNCHANGED <<apc, connDict>> PROVE LimitInv'
  BY <1>1, <1>4, LimitShrink DEF Registered
<1>5. ASSUME NEW c, UNCHANGED apc, connDict' = [connDict EXCEPT ![IdOf(c)] = None] PROVE LimitInv'
  <2>1. Registered' \subseteq Registered
    BY <1>2, <1>5 DEF Registered
  <2> QED BY <1>1, <1>5, <2>1, LimitShrink
<1>6. CASE Listen
  <2>1. GetConnNum' = GetConnNum
    BY <1>6 DEF Listen, GetConnNum
  <2> QED BY <1>1, <1>3, <1>6, <2>1, ConfAssumption DEF Listen, LimitInv, ConnNumBound
<1>7. CASE AcceptTCP \/ TestConnNum \/ Refuse
  <2>1. GetConnNum' = GetConnNum
    BY <1>7 DEF AcceptTCP, TestConnNum, Refuse, GetConnNum
  <2>2. apc # "add" /\ (apc' = "add" => ~(GetConnNum >= MaxConnNum))
    BY <1>7 DEF AcceptTCP, TestConnNum, Refuse
  <2> QED BY <1>1, <1>3, <2>1, <2>2, ConfAssumption DEF LimitInv, ConnNumBound
<1>8. CASE AddConn
  <2>1. nextId \in Conns
    BY <1>8, BoundAssumption DEF AddConn, LimitInv, TypeInv, TypeOK, Bounded, HoldsSocket, Conns
  <2>2. Registered' \subseteq Registered \cup {IdOf(nextId)}
    BY <1>2, <1>8 DEF AddConn, Registered
  <2>3. GetConnNum' <= GetConnNum + 1
    BY <2>1, <2>2, CountStep, IdOfType
  <2>4. apc = "add" /\ apc' = "accept"
    BY <1>8 DEF AddConn
  <2>5. GetConnNum < MaxConnNum
    BY <2>4 DEF LimitInv, ConnNumBound
  <2>6. GetConnNum' <= MaxConnNum
    BY <1>3, <2>3, <2>5, ConfAssumption
  <2>7. ConnNumBound'
    BY <1>3, <2>4, <2>6, ConfAssumption DEF ConnNumBound
  <2> QED BY <1>1, <2>7 DEF LimitInv
<1>9. ASSUME NEW g, Stop(g) PROVE LimitInv'
  <2>1. CASE StopDelConn(g)
    BY <1>5, <2>1 DEF StopDelConn
  <2>2. CASE ~StopDelConn(g)
    BY <1>4, <1>9, <2>2
    DEF Stop, StopCheck, StopMark, StopCloseSocket, StopNotify, StopCloseClosedChan, StopClosePacketChan
  <2> QED BY <2>1, <2>2
<1>10. CASE DelAllConn
  <2>1. CASE DelAllDelete
    BY <1>5, <2>1 DEF DelAllDelete
  <2>2. CASE ~DelAllDelete
    BY <1>4, <1>10, <2>2 DEF DelAllConn, DelAllLock, DelAllStop, DelAllUnlock
  <2> QED BY <2>1, <2>2
<1>11. ASSUME NEW c \in Conns, Start(c) \/ ReadPacket(c) \/ ReadError(c) \/ PushToReqChan(c)
       PROVE  LimitInv'
  BY <1>4, <1>11 DEF Start, ReadPacket, ReadError, PushToReqChan
<1>12. ASSUME NEW c \in Conns, Writer(c) \/ Client(c) PROVE LimitInv'
  BY <1>4, <1>12 DEF Writer, WriterRecv, WriterRecvClosed, WriterClosed, SocketWrite,
                     Client, ClientSend, ClientRead, ClientLeave
<1>13. ASSUME NEW w \in Workers, WorkerPop(w) PROVE LimitInv'
  BY <1>4, <1>13 DEF WorkerPop
<1>14. ASSUME NEW s \in Senders, Sender(s) PROVE LimitInv'
  BY <1>4, <1>14 DEF Sender, SendCheck, SendPanic
<1>15. CASE Signal \/ Exit
  BY <1>4, <1>15 DEF Signal, Exit
<1>16. CASE UNCHANGED vars
  BY <1>4, <1>16 DEF vars
<1> QED
  BY <1>6, <1>7, <1>8, <1>9, <1>10, <1>11, <1>12, <1>13, <1>14, <1>15, <1>16
  DEF Next, Acceptor, Reader, Shutdown

\* The dictionary never exceeds MaxConnNum, although the accept loop tests its
\* size without the lock: only that loop adds entries.
THEOREM ConnLimit == Spec => []ConnNumBound
<1>1. LimitInv => ConnNumBound
  BY DEF LimitInv
<1> QED BY <1>1, LimitInit, LimitNext, PTL DEF Spec

-----------------------------------------------------------------------------
(* The sockets and the dictionary.                                         *)

\* A socket exists from its accept on, every connection that was added has its
\* goroutine, and Stop is past its delete only when the socket is closed.
SockInv ==
  \A c \in Conns :
    /\ sock[c] # "none" => c < nextId \/ (c = nextId /\ HoldsSocket)
    /\ c < nextId => rpc[c] # "none"
    /\ stop[c] \in {"notify", "delete", "closeC", "closeP"} => sock[c] = "closed"

RegistryInv == CloseInv /\ SockInv /\ RegisteredById

\* Without wrap-around a connection's number is its id.
LEMMA NoWrapIds == NoWrap => \A c \in Conns : IdOf(c) = c
  BY ConfAssumption, BoundAssumption DEF NoWrap, IdOf, Conns

\* The variables that the invariant is about, apart from the control of main.
sockVars == <<apc, nextId, connDict, sock, rpc, stop>>

LEMMA SockFrame ==
  ASSUME SockInv, RegisteredById, UNCHANGED sockVars,
         mpc' \in {"wait", "lock"} => mpc \in {"wait", "lock"}
  PROVE  SockInv' /\ RegisteredById'
BY DEF SockInv, RegisteredById, sockVars, HoldsSocket

LEMMA RegistryNext == RegistryInv /\ [Next]_vars => RegistryInv'
<1> SUFFICES ASSUME RegistryInv, [Next]_vars PROVE RegistryInv'
  OBVIOUS
<1>1. CloseInv' /\ CloseInv /\ SockInv /\ RegisteredById
  BY CloseNext DEF RegistryInv
<1> SUFFICES SockInv' /\ RegisteredById'
  BY <1>1 DEF RegistryInv
<1>2. /\ connDict \in [Ids -> Conns \cup {None}]
      /\ stop \in [Stoppers -> StopLabels]
      /\ sock \in [Conns -> {"none", "open", "closed"}]
      /\ rpc \in [Conns -> {"none", "created", "read", "push", "stopping"}]
      /\ nextId \in Nat
      /\ HoldsSocket => nextId \in Conns
      /\ nextId < MaxAccepts => nextId \in Conns
  <2>1. TypeOK /\ Bounded
    BY <1>1 DEF CloseInv, TypeInv
  <2>2. nextId \in 0 .. MaxAccepts /\ (HoldsSocket => nextId < MaxAccepts)
    BY <2>1 DEF TypeOK, Bounded
  <2>3. nextId \in Nat /\ (nextId < MaxAccepts => nextId \in Conns)
    BY <2>2, BoundAssumption DEF Conns
  <2> QED BY <2>1, <2>2, <2>3 DEF TypeOK
<1>3. /\ Main \in Stoppers /\ Main \notin Conns /\ None \notin Conns
      /\ \A c \in Conns : c \in Nat /\ IdOf(c) \in Ids /\ c \in Stoppers
  BY IdOfType, BoundAssumption DEF Conns, Main, None, Stoppers
<1>4. /\ \A c \in Conns : rpc[c] = "stopping" <=> stop[c] # "idle"
      /\ \A c \in Conns : c >= nextId => rpc[c] = "none"
      /\ stop[Main] # "idle" => mpc = "stopping"
  BY <1>1 DEF CloseInv, ReaderCloses, LockHeld
<1> USE DEF registry, network, chans, control, sockVars
<1>5. CASE Listen
  <2>1. UNCHANGED <<nextId, connDict, sock, rpc, stop, mpc>> /\ ~HoldsSocket /\ ~HoldsSocket'
    BY <1>5 DEF Listen, HoldsSocket
  <2> QED BY <1>1, <2>1 DEF SockInv, RegisteredById
<1>6. CASE AcceptTCP \/ TestConnNum \/ Refuse
  <2>1. CASE TestConnNum
    <3>1. UNCHANGED <<nextId, connDict, sock, rpc, stop, mpc>> /\ HoldsSocket /\ HoldsSocket'
      BY <2>1 DEF TestConnNum, HoldsSocket
    <3> QED BY <1>1, <3>1 DEF SockInv, RegisteredById
  <2>2. CASE AcceptTCP \/ Refuse
    <3>1. /\ UNCHANGED <<nextId, connDict, rpc, stop, mpc>> /\ nextId \in Conns
          /\ \/ sock' = [sock EXCEPT ![nextId] = "open"] /\ HoldsSocket'
             \/ sock' = [sock EXCEPT ![nextId] = "none"]
      BY <1>2, <2>2 DEF AcceptTCP, Refuse, HoldsSocket
    <3>2. rpc[nextId] = "none" /\ stop[nextId] = "idle"
      BY <1>2, <1>4, <3>1
    <3>3. SockInv'
      BY <1>1, <1>2, <1>3, <3>1, <3>2 DEF SockInv
    <3>4. RegisteredById'
      BY <1>1, <1>2, <1>3, <3>1, <3>2 DEF RegisteredById
    <3> QED BY <3>3, <3>4
  <2> QED BY <1>6, <2>1, <2>2
<1>7. CASE AddConn
  <2>1. /\ nextId \in Conns /\ ~HoldsSocket'
        /\ connDict' = [connDict EXCEPT ![IdOf(nextId)] = nextId]
        /\ rpc' = [rpc EXCEPT ![nextId] = "created"]
        /\ nextId' = nextId + 1
        /\ UNCHANGED <<mpc, sock, stop>>
    BY <1>2, <1>7 DEF AddConn, HoldsSocket
  <2>2. SockInv'
    BY <1>1, <1>2, <1>3, <2>1 DEF SockInv
  <2>3. RegisteredById'
    BY <1>1, <1>2, <1>3, <2>1, NoWrapIds DEF RegisteredById
  <2> QED BY <2>2, <2>3
<1>8. ASSUME NEW c \in Conns, Start(c) \/ ReadPacket(c) \/ ReadError(c) \/ PushToReqChan(c)
      PROVE  SockInv' /\ RegisteredById'
  <2>1. /\ UNCHANGED <<apc, nextId, connDict, sock, mpc>> /\ rpc[c] # "none"
        /\ \E v \in {"read", "push", "stopping"} : rpc' = [rpc EXCEPT ![c] = v]
        /\ UNCHANGED stop \/ stop' = [stop EXCEPT ![c] = "check"]
    BY <1>8 DEF Start, ReadPacket, ReadError, PushToReqChan
  <2>2. SockInv'
    BY <1>1, <1>2, <1>3, <2>1 DEF SockInv, HoldsSocket
  <2>3. RegisteredById'
    BY <1>1, <1>2, <1>3, <2>1 DEF RegisteredById
  <2> QED BY <2>2, <2>3
<1>9. ASSUME NEW c \in Conns, Stop(c) PROVE SockInv' /\ RegisteredById'
  <2>0. StopTarget(c) = c
    BY <1>3 DEF StopTarget
  <2>1. CASE StopCheck(c) \/ StopMark(c)
    <3>1. /\ UNCHANGED <<apc, nextId, connDict, sock, mpc, rpc>>
          /\ \E l \in {"done", "mark", "close"} : stop' = [stop EXCEPT ![c] = l]
      BY <2>1 DEF StopCheck, StopMark, StopGoto
    <3> QED BY <1>1, <1>2, <1>3, <3>1 DEF SockInv, RegisteredById, HoldsSocket
  <2>2. CASE StopCloseSocket(c)
    <3>1. /\ UNCHANGED <<apc, nextId, connDict, mpc, rpc>> /\ stop[c] = "close"
          /\ sock' = [sock EXCEPT ![c] = "closed"] /\ stop' = [stop EXCEPT ![c] = "notify"]
      BY <2>0, <2>2 DEF StopCloseSocket, StopGoto
    <3>2. c < nextId
      BY <1>2, <1>3, <1>4, <3>1
    <3>3. SockInv'
      BY <1>1, <1>2, <1>3, <3>1, <3>2 DEF SockInv, HoldsSocket
    <3>4. RegisteredById'
      BY <1>1, <1>2, <1>3, <3>1 DEF RegisteredById
    <3> QED BY <3>3, <3>4
  <2>3. CASE StopDelConn(c)
    <3>1. /\ UNCHANGED <<apc, nextId, sock, mpc, rpc>> /\ stop[c] = "delete"
          /\ connDict' = [connDict EXCEPT ![IdOf(c)] = None] /\ stop' = [stop EXCEPT ![c] = "closeC"]
      BY <2>0, <2>3 DEF StopDelConn, StopGoto
    <3>2. sock[c] = "closed"
      BY <1>1, <3>1 DEF SockInv, HoldsSocket
    <3>3. SockInv'
      BY <1>1, <1>2, <1>3, <3>1, <3>2 DEF SockInv, HoldsSocket
    <3>4. RegisteredById'
      BY <1>1, <1>2, <1>3, <3>1, <3>2, NoWrapIds DEF RegisteredById
    <3> QED BY <3>3, <3>4
  <2>4. CASE StopNotify(c) \/ StopCloseClosedChan(c) \/ StopClosePacketChan(c)
    <3>1. /\ UNCHANGED <<apc, nextId, connDict, sock, mpc, rpc>>
          /\ stop[c] \in {"notify", "closeC", "closeP"}
          /\ UNCHANGED stop \/ \E l \in {"delete", "closeP", "done"} : stop' = [stop EXCEPT ![c] = l]
      BY <2>4 DEF StopNotify, StopCloseClosedChan, StopClosePacketChan, StopGoto
    <3>2. sock[c] = "closed"
      BY <1>1, <3>1 DEF SockInv, HoldsSocket
    <3>3. SockInv'
      BY <1>1, <1>2, <1>3, <3>1, <3>2 DEF SockInv, HoldsSocket
    <3>4. RegisteredById'
      BY <1>1, <3>1 DEF RegisteredById
    <3> QED BY <3>3, <3>4
  <2> QED BY <1>9, <2>1, <2>2, <2>3, <2>4 DEF Stop
<1>10. CASE Stop(Main)
  <2>1. stop[Main] # "idle"
    BY <1>10 DEF Stop, StopCheck, StopMark, StopCloseSocket, StopNotify, StopDelConn,
           StopCloseClosedChan, StopClosePacketChan
  <2>2. mpc = "stopping" /\ mconn \in Conns /\ connDict[IdOf(mconn)] = mconn /\ mconn < nextId
    <3>1. mpc = "stopping" /\ mconn \in Conns /\ connDict[IdOf(mconn)] = mconn
      BY <1>1, <1>4, <2>1 DEF CloseInv, MainTarget
    <3>2. IdOf(mconn) \in Ids /\ mconn # None
      BY <1>3, <3>1
    <3> QED BY <1>1, <3>1, <3>2 DEF CloseInv, DictEntries
  <2>3. /\ UNCHANGED <<apc, nextId, mpc, rpc>> /\ mpc' = "stopping"
        /\ UNCHANGED sock \/ sock' = [sock EXCEPT ![mconn] = "closed"]
        /\ UNCHANGED stop \/ \E l \in StopLabels : stop' = [stop EXCEPT ![Main] = l]
    BY <1>10, <2>2
    DEF Stop, StopCheck, StopMark, StopCloseSocket, StopNotify, StopDelConn,
        StopCloseClosedChan, StopClosePacketChan, StopTarget, StopGoto, StopLabels
  <2>4. SockInv'
    BY <1>1, <1>2, <1>3, <2>2, <2>3 DEF SockInv, HoldsSocket
  <2> QED BY <2>3, <2>4 DEF RegisteredById
<1>11. ASSUME NEW c \in Conns, Writer(c) \/ Client(c) PROVE SockInv' /\ RegisteredById'
  BY <1>1, <1>11, SockFrame
  DEF Writer, WriterRecv, WriterRecvClosed, WriterClosed, SocketWrite,
      Client, ClientSend, ClientRead, ClientLeave
<1>12. ASSUME NEW w \in Workers, WorkerPop(w) PROVE SockInv' /\ RegisteredById'
  BY <1>1, <1>12, SockFrame DEF WorkerPop
<1>13. ASSUME NEW s \in Senders, Sender(s) PROVE SockInv' /\ RegisteredById'
  BY <1>1, <1>13, SockFrame DEF Sender, SendCheck, SendPanic
<1>14. CASE Signal \/ Exit \/ DelAllLock \/ DelAllUnlock
  BY <1>1, <1>14, SockFrame DEF Signal, Exit, DelAllLock, DelAllUnlock
<1>15. CASE DelAllStop \/ DelAllDelete
  <2>1. /\ UNCHANGED <<apc, nextId, sock, rpc>> /\ mpc' \in {"stopping", "range"}
        /\ \E l \in {"check", "idle"} : stop' = [stop EXCEPT ![Main] = l]
    BY <1>15 DEF DelAllStop, DelAllDelete, StopGoto
  <2> QED BY <1>1, <1>2, <1>3, <2>1 DEF SockInv, RegisteredById, HoldsSocket
<1>16. CASE UNCHANGED vars
  BY <1>1, <1>16, SockFrame DEF vars
<1> QED
  BY <1>5, <1>6, <1>7, <1>8, <1>9, <1>10, <1>11, <1>12, <1>13, <1>14, <1>15, <1>16
  DEF Next, Acceptor, Reader, Shutdown, DelAllConn

LEMMA RegistryInit == Init => RegistryInv
<1>1. Init => SockInv /\ RegisteredById
  BY BoundAssumption DEF Init, SockInv, RegisteredById, HoldsSocket, Stoppers, Conns
<1> QED BY <1>1, CloseInit DEF RegistryInv

\* Until shutdown begins, GetConnById finds every connection whose socket is
\* open, however many connections come and go, as long as ids do not wrap.
THEOREM OpenIsRegistered == Spec => []RegisteredById
<1>1. RegistryInv => RegisteredById
  BY DEF RegistryInv
<1> QED BY <1>1, RegistryInit, RegistryNext, PTL DEF Spec

\* The limit on connections is a limit on sockets: the accept loop counts the
\* dictionary, and an open socket outside it can only be the one that loop
\* holds, which exceeds the limit by one until it is refused.
THEOREM SocketLimit == Spec => []OpenSocketBound
<1>1. ASSUME RegistryInv, LimitInv PROVE OpenSocketBound
  <2> SUFFICES ASSUME NoWrap, mpc \in {"wait", "lock"}
               PROVE  Cardinality({c \in Conns : sock[c] = "open"}) <= MaxConnNum + Unadmitted
    BY DEF OpenSocketBound
  <2> DEFINE O == {c \in Conns : sock[c] = "open"}
  <2>1. /\ \A c \in Conns : IdOf(c) = c /\ IdOf(c) \in Ids /\ c \in Nat
        /\ None \notin Conns /\ nextId \in Nat
    <3>1. nextId \in 0 .. MaxAccepts
      BY <1>1 DEF LimitInv, TypeInv, TypeOK
    <3>2. \A c \in Conns : IdOf(c) = c /\ IdOf(c) \in Ids
      BY NoWrapIds, IdOfType
    <3> QED BY <3>1, <3>2, BoundAssumption DEF Conns, None
  <2>2. ASSUME NEW c \in O PROVE c \in Registered \/ (HoldsSocket /\ c = nextId)
    <3>1. c < nextId \/ (c = nextId /\ HoldsSocket)
      BY <1>1 DEF RegistryInv, SockInv
    <3>2. CASE c < nextId
      <4>1. rpc[c] # "none"
        BY <1>1, <3>2 DEF RegistryInv, SockInv
      <4>2. connDict[IdOf(c)] = c
        BY <1>1, <4>1 DEF RegistryInv, RegisteredById
      <4> QED BY <2>1, <4>2 DEF Registered
    <3> QED BY <3>1, <3>2
  <2>3. IsFiniteSet(Registered) /\ GetConnNum = Cardinality(Registered) /\ GetConnNum \in Nat
    BY IdSetsFinite DEF GetConnNum, Registered
  <2> HIDE DEF O
  <2>u. /\ Unadmitted \in Nat
        /\ HoldsSocket /\ apc # "add" => Unadmitted = 1
    BY DEF Unadmitted, HoldsSocket
  <2>4. CASE ~HoldsSocket
    <3>1. O \in SUBSET Registered
      BY <2>2, <2>4
    <3>2. Cardinality(O) <= Cardinality(Registered) /\ IsFiniteSet(O)
      BY <2>3, <3>1, FS_Subset
    <3>3. Cardinality(O) \in Nat
      BY <3>2, FS_CardinalityType
    <3> QED BY <1>1, <2>3, <2>u, <3>2, <3>3, ConfAssumption DEF LimitInv, ConnNumBound, O
  <2>5. CASE HoldsSocket
    <3>1. O \in SUBSET (Registered \cup {nextId})
      BY <2>2
    <3>2. /\ IsFiniteSet(Registered \cup {nextId})
          /\ Cardinality(Registered \cup {nextId}) <= Cardinality(Registered) + 1
      BY <2>3, FS_AddElement
    <3>3. Cardinality(O) <= Cardinality(Registered \cup {nextId}) /\ IsFiniteSet(O)
      BY <3>1, <3>2, FS_Subset
    <3>4. Cardinality(O) \in Nat /\ Cardinality(Registered \cup {nextId}) \in Nat
      BY <3>2, <3>3, FS_CardinalityType
    <3>5. GetConnNum + 1 <= MaxConnNum + Unadmitted
      BY <1>1, <2>3, <2>5, <2>u, ConfAssumption DEF LimitInv, ConnNumBound
    <3> QED BY <2>3, <2>u, <3>2, <3>3, <3>4, <3>5, ConfAssumption DEF O
  <2> QED BY <2>4, <2>5
<1>2. RegistryInv /\ LimitInv => OpenSocketBound
  BY <1>1
<1> QED BY <1>2, RegistryInit, RegistryNext, LimitInit, LimitNext, PTL DEF Spec

-----------------------------------------------------------------------------
(* The order of the requests of a connection.                              *)

Requests == Conns \X (1 .. MaxMsgs)

\* A request is held by the reader, then queued, then handled; only the last
\* one received can be held, or be missing because it was not unpacked.
RequestStages ==
  \A s \in Requests :
    LET c == s[1]
        n == s[2]
    IN /\ n > received[c] => spc[s] = "none"
       /\ n <= received[c] /\ spc[s] = "none" => n = received[c] /\ rpc[c] = "stopping"
       /\ spc[s] = "held" <=> n = received[c] /\ rpc[c] = "push"

\* The queue of a worker holds the queued requests that it serves, those of
\* one connection in their order.
QueueOrder ==
  /\ \A w \in Workers : \A k \in 1 .. Len(reqChan[w]) :
       LET s == reqChan[w][k] IN s \in Requests /\ spc[s] = "queued" /\ WorkerOf(s[1]) = w
  /\ \A w \in Workers : \A j, k \in 1 .. Len(reqChan[w]) :
       j < k /\ reqChan[w][j][1] = reqChan[w][k][1] => reqChan[w][j][2] < reqChan[w][k][2]
  /\ \A s \in Requests : spc[s] = "queued" =>
       \E k \in 1 .. Len(reqChan[WorkerOf(s[1])]) : reqChan[WorkerOf(s[1])][k] = s

PushHolds == \A c \in Conns : rpc[c] = "push" => received[c] > 0

OrderInv == RequestStages /\ PushHolds /\ QueueOrder /\ HandledInOrder

LEMMA WorkerOfType == WorkerPoolSize > 0 => \A c \in Conns : WorkerOf(c) \in Workers
  BY IdOfType, ConfAssumption DEF WorkerOf, Workers, Ids

LEMMA RequestFacts ==
  /\ Requests \subseteq Senders
  /\ \A c \in Conns, n \in 1 .. MaxMsgs : <<c, n>> \in Requests
  /\ \A s \in Requests : s = <<s[1], s[2]>> /\ s[1] \in Conns /\ s[2] \in 1 .. MaxMsgs
  /\ \A s \in Senders : s[2] > 0 => s \in Requests
  /\ \A c \in Conns : <<c, 0>> \in Senders /\ <<c, 0>> \notin Requests
  BY BoundAssumption DEF Requests, Senders

\* A step that leaves the requests alone.
LEMMA OrderFrame ==
  ASSUME OrderInv, UNCHANGED <<received, reqChan>>,
         \A s \in Requests : spc'[s] = spc[s],
         \A c \in Conns : \/ rpc'[c] = rpc[c]
                          \/ rpc[c] # "push" /\ rpc'[c] # "push" /\ rpc[c] # "stopping"
  PROVE  OrderInv'
<1>1. RequestStages' /\ PushHolds'
  BY RequestFacts DEF OrderInv, RequestStages, PushHolds
<1>2. QueueOrder'
  BY DEF OrderInv, QueueOrder
<1>3. HandledInOrder'
  <2>1. \A s, t \in Senders : 0 < s[2] /\ s[2] < t[2] => s \in Requests /\ t \in Requests
    BY BoundAssumption DEF Requests, Senders
  <2> QED BY <2>1 DEF OrderInv, HandledInOrder
<1> QED BY <1>1, <1>2, <1>3 DEF OrderInv

\* A handler goes on, or returns.
LEMMA OrderHandler ==
  ASSUME TypeInv, OrderInv, UNCHANGED <<received, reqChan, rpc>>, NEW t \in Senders,
         spc[t] \in {"check", "send"}, NEW v \in {"send", "done"}, spc' = [spc EXCEPT ![t] = v]
  PROVE  OrderInv'
<1>0. spc \in [Senders -> {"none", "held", "queued", "check", "send", "done"}]
  BY DEF TypeInv, TypeOK
<1>1. RequestStages' /\ PushHolds'
  BY <1>0, RequestFacts DEF OrderInv, RequestStages, PushHolds
<1>2. QueueOrder'
  <2>1. \A s \in Requests : spc'[s] = "queued" <=> spc[s] = "queued"
    BY <1>0, RequestFacts
  <2> QED BY <2>1 DEF OrderInv, QueueOrder
<1>3. HandledInOrder'
  BY <1>0 DEF OrderInv, HandledInOrder
<1> QED BY <1>1, <1>2, <1>3 DEF OrderInv

\* The reader takes a message: a request to hold, or an error.
LEMMA OrderRead ==
  ASSUME TypeInv, OrderInv, NEW c \in Conns, ReadPacket(c)
  PROVE  OrderInv'
<1> DEFINE n == received[c] + 1
           r == <<c, n>>
<1>0. /\ spc \in [Senders -> {"none", "held", "queued", "check", "send", "done"}]
      /\ received \in [Conns -> 0 .. MaxMsgs]
      /\ rpc \in [Conns -> {"none", "created", "read", "push", "stopping"}]
      /\ Len(msgs[c]) <= MaxMsgs /\ Len(msgs[c]) \in Nat
  BY DEF TypeInv, TypeOK, Bounded
<1>1. /\ rpc[c] = "read" /\ received' = [received EXCEPT ![c] = n] /\ UNCHANGED reqChan
      /\ received[c] < Len(msgs[c])
      /\ \/ UNCHANGED spc /\ rpc' = [rpc EXCEPT ![c] = "stopping"]
         \/ spc' = [spc EXCEPT ![r] = "held"] /\ rpc' = [rpc EXCEPT ![c] = "push"]
  BY DEF ReadPacket
<1>2. n \in 1 .. MaxMsgs /\ r \in Requests /\ r \in Senders /\ n > received[c] /\ received[c] \in Nat
  BY <1>0, <1>1, RequestFacts, BoundAssumption
<1>3. spc[r] = "none"
  BY <1>2 DEF OrderInv, RequestStages
<1>4. \A s \in Requests : s # r => spc'[s] = spc[s]
  BY <1>0, <1>1, RequestFacts
<1>5. spc'[r] \in {"none", "held"} /\ received'[c] = n /\ \A d \in Conns : d # c => received'[d] = received[d]
  BY <1>0, <1>1, <1>2, <1>3
<1>6. RequestStages'
  <2> SUFFICES ASSUME NEW s \in Requests
               PROVE  /\ s[2] > received'[s[1]] => spc'[s] = "none"
                      /\ s[2] <= received'[s[1]] /\ spc'[s] = "none" => s[2] = received'[s[1]] /\ rpc'[s[1]] = "stopping"
                      /\ spc'[s] = "held" <=> s[2] = received'[s[1]] /\ rpc'[s[1]] = "push"
    BY DEF RequestStages
  <2>0. s[1] \in Conns /\ s[2] \in 1 .. MaxMsgs /\ s = <<s[1], s[2]>> /\ received[s[1]] \in Nat
        /\ /\ s[2] > received[s[1]] => spc[s] = "none"
           /\ s[2] <= received[s[1]] /\ spc[s] = "none" => s[2] = received[s[1]] /\ rpc[s[1]] = "stopping"
           /\ spc[s] = "held" <=> s[2] = received[s[1]] /\ rpc[s[1]] = "push"
    BY <1>0, RequestFacts DEF OrderInv, RequestStages
  <2>1. CASE s = r
    <3>1. s[1] = c /\ s[2] = n
      BY <2>1
    <3> QED BY <1>0, <1>1, <1>2, <1>3, <1>5, <2>1, <3>1
  <2>2. CASE s # r /\ s[1] = c
    <3>1. s[2] # n /\ spc'[s] = spc[s] /\ rpc'[c] \in {"stopping", "push"}
      BY <1>0, <1>1, <1>4, <2>0, <2>2
    <3> QED BY <1>1, <1>2, <1>5, <2>0, <2>2, <3>1, BoundAssumption
  <2>3. CASE s[1] # c
    BY <1>0, <1>1, <1>4, <1>5, <2>0, <2>3
  <2> QED BY <2>1, <2>2, <2>3
<1>7. QueueOrder'
  <2>1. \A s \in Requests : spc'[s] = "queued" <=> spc[s] = "queued"
    BY <1>3, <1>4, <1>5
  <2>2. QueueOrder /\ reqChan' = reqChan
    BY <1>1 DEF OrderInv
  <2> QED BY ONLY <2>1, <2>2 DEF QueueOrder
<1>8. HandledInOrder'
  <2> SUFFICES ASSUME WorkerPoolSize > 0, NEW s \in Senders, NEW t \in Senders,
                      s[1] = t[1], 0 < s[2], s[2] < t[2], spc'[t] \in {"check", "send", "done"}
               PROVE  spc'[s] = "done"
    BY DEF HandledInOrder
  <2>1. s \in Requests /\ t \in Requests
    BY BoundAssumption DEF Requests, Senders
  <2>2. spc[t] \in {"check", "send", "done"}
    BY <1>4, <1>5, <2>1
  <2>3. spc[s] = "done"
    BY <2>2 DEF OrderInv, HandledInOrder
  <2> QED BY <1>3, <1>4, <2>1, <2>3
<1>9. PushHolds'
  BY <1>0, <1>1, <1>2, <1>5 DEF OrderInv, PushHolds
<1> QED BY <1>6, <1>7, <1>8, <1>9 DEF OrderInv

\* The reader puts the request it holds into the queue of its worker.
LEMMA OrderPush ==
  ASSUME WorkerPoolSize > 0, TypeInv, OrderInv, NEW c \in Conns, PushToReqChan(c)
  PROVE  OrderInv'
<1> DEFINE r == <<c, received[c]>>
           v == WorkerOf(c)
<1>0. /\ spc \in [Senders -> {"none", "held", "queued", "check", "send", "done"}]
      /\ received \in [Conns -> 0 .. MaxMsgs]
      /\ rpc \in [Conns -> {"none", "created", "read", "push", "stopping"}]
      /\ reqChan \in [Workers -> Seq(Senders)]
      /\ v \in Workers
  BY WorkerOfType DEF TypeInv, TypeOK
<1>1. /\ rpc[c] = "push" /\ rpc' = [rpc EXCEPT ![c] = "read"] /\ UNCHANGED received
      /\ reqChan' = [reqChan EXCEPT ![v] = Append(@, r)] /\ spc' = [spc EXCEPT ![r] = "queued"]
  BY DEF PushToReqChan, network
<1>2. /\ r \in Requests /\ r \in Senders /\ spc[r] = "held"
      /\ r[1] = c /\ r[2] = received[c] /\ received[c] \in 1 .. MaxMsgs
  <2>1. received[c] \in 1 .. MaxMsgs
    BY <1>0, <1>1, BoundAssumption DEF OrderInv, PushHolds
  <2>2. r \in Requests /\ r \in Senders /\ r[1] = c /\ r[2] = received[c]
    BY <2>1, RequestFacts
  <2> QED BY <1>1, <2>1, <2>2 DEF OrderInv, RequestStages
<1>3. PICK q : q = reqChan[v]
  OBVIOUS
<1>4. q \in Seq(Senders) /\ Len(q) \in Nat /\ reqChan'[v] = Append(q, r)
  BY <1>0, <1>1, <1>3
<1>5. /\ spc'[r] = "queued"
      /\ \A s \in Senders : s # r => spc'[s] = spc[s]
      /\ \A w \in Workers : w # v => reqChan'[w] = reqChan[w]
      /\ rpc'[c] = "read" /\ \A d \in Conns : d # c => rpc'[d] = rpc[d]
  BY <1>0, <1>1, <1>2
<1>6. /\ Len(Append(q, r)) = Len(q) + 1 /\ Append(q, r)[Len(q) + 1] = r
      /\ \A k \in 1 .. Len(q) : Append(q, r)[k] = q[k]
  BY <1>2, <1>4
<1> HIDE DEF r, v
<1>7. \A k \in 1 .. Len(q) : q[k] \in Requests /\ spc[q[k]] = "queued" /\ WorkerOf(q[k][1]) = v
  BY <1>0, <1>3 DEF OrderInv, QueueOrder
<1>8. \A k \in 1 .. Len(q) : q[k] # r /\ (q[k][1] = c => q[k][2] < r[2])
  <2> SUFFICES ASSUME NEW k \in 1 .. Len(q) PROVE q[k] # r /\ (q[k][1] = c => q[k][2] < r[2])
    OBVIOUS
  <2>1. q[k] \in Requests /\ spc[q[k]] = "queued"
    BY <1>7
  <2>2. q[k] # r
    BY <1>2, <2>1
  <2>3. ASSUME q[k][1] = c PROVE q[k][2] < r[2]
    <3>1. q[k] = <<c, q[k][2]>> /\ q[k][2] \in 1 .. MaxMsgs /\ r = <<c, r[2]>>
      BY <1>2, <2>1, <2>3, RequestFacts
    <3>2. q[k][2] # r[2]
      BY <2>2, <3>1
    <3>3. ~(q[k][2] > received[c])
      BY <2>1, <2>3 DEF OrderInv, RequestStages
    <3> QED BY <1>2, <3>1, <3>2, <3>3, BoundAssumption
  <2> QED BY <2>2, <2>3
<1>9. RequestStages' /\ PushHolds'
  <2>1. PushHolds'
    BY <1>0, <1>1, <1>5 DEF OrderInv, PushHolds
  <2>2. RequestStages'
    <3> SUFFICES ASSUME NEW s \in Requests
                 PROVE  /\ s[2] > received'[s[1]] => spc'[s] = "none"
                        /\ s[2] <= received'[s[1]] /\ spc'[s] = "none" => s[2] = received'[s[1]] /\ rpc'[s[1]] = "stopping"
                        /\ spc'[s] = "held" <=> s[2] = received'[s[1]] /\ rpc'[s[1]] = "push"
      BY DEF RequestStages
    <3>1. s[1] \in Conns /\ s[2] \in 1 .. MaxMsgs /\ s = <<s[1], s[2]>> /\ s \in Senders /\ r = <<c, received[c]>>
      BY RequestFacts DEF r
    <3>2. /\ s[2] > received[s[1]] => spc[s] = "none"
          /\ s[2] <= received[s[1]] /\ spc[s] = "none" => s[2] = received[s[1]] /\ rpc[s[1]] = "stopping"
          /\ spc[s] = "held" <=> s[2] = received[s[1]] /\ rpc[s[1]] = "push"
      BY DEF OrderInv, RequestStages
    <3>3. received' = received
      BY <1>1
    <3>4. CASE s = r
      <4>1. s[1] = c /\ s[2] = received[c] /\ spc'[s] = "queued"
        BY <1>2, <1>5, <3>4
      <4> QED BY <1>2, <1>5, <3>3, <4>1
    <3>5. CASE s # r
      BY <1>1, <1>5, <3>1, <3>2, <3>3, <3>5
    <3> QED BY <3>4, <3>5
  <2> QED BY <2>1, <2>2
<1>10. QueueOrder'
  <2>1. ASSUME NEW w \in Workers, NEW k \in 1 .. Len(reqChan'[w])
        PROVE  /\ reqChan'[w][k] \in Requests /\ spc'[reqChan'[w][k]] = "queued"
               /\ WorkerOf(reqChan'[w][k][1]) = w
    <3>1. CASE w # v
      <4>1. reqChan'[w] = reqChan[w]
        BY <1>5, <3>1
      <4>2. reqChan[w][k] \in Requests /\ spc[reqChan[w][k]] = "queued" /\ WorkerOf(reqChan[w][k][1]) = w
        BY <2>1, <4>1 DEF OrderInv, QueueOrder
      <4> QED BY <1>2, <1>5, <4>1, <4>2, RequestFacts
    <3>2. CASE w = v /\ k \in 1 .. Len(q)
      <4>1. reqChan'[w][k] = q[k]
        BY <1>4, <1>6, <3>2
      <4> QED BY <1>5, <1>7, <1>8, <3>2, <4>1, RequestFacts
    <3>3. CASE w = v /\ k \notin 1 .. Len(q)
      <4>1. k = Len(q) + 1
        BY <1>4, <1>6, <2>1, <3>3
      <4>2. reqChan'[w][k] = r
        BY <1>4, <1>6, <3>3, <4>1
      <4> QED BY <1>2, <1>5, <3>3, <4>2 DEF v
    <3> QED BY <3>1, <3>2, <3>3
  <2>2. ASSUME NEW w \in Workers, NEW j \in 1 .. Len(reqChan'[w]), NEW k \in 1 .. Len(reqChan'[w]),
               j < k, reqChan'[w][j][1] = reqChan'[w][k][1]
        PROVE  reqChan'[w][j][2] < reqChan'[w][k][2]
    <3>1. CASE w # v
      BY <1>5, <2>2, <3>1 DEF OrderInv, QueueOrder
    <3>2. CASE w = v
      <4>1. j \in 1 .. Len(q) /\ reqChan'[w][j] = q[j]
        BY <1>4, <1>6, <2>2, <3>2
      <4>2. CASE k \in 1 .. Len(q)
        <5>1. reqChan'[w][k] = q[k]
          BY <1>4, <1>6, <3>2, <4>2
        <5> QED BY <1>0, <1>3, <2>2, <4>1, <4>2, <5>1 DEF OrderInv, QueueOrder
      <4>3. CASE k \notin 1 .. Len(q)
        <5>1. reqChan'[w][k] = r
          BY <1>4, <1>6, <2>2, <3>2, <4>3
        <5> QED BY <1>2, <1>8, <2>2, <4>1, <5>1
      <4> QED BY <4>2, <4>3
    <3> QED BY <3>1, <3>2
  <2>3. ASSUME NEW s \in Requests, spc'[s] = "queued"
        PROVE  \E k \in 1 .. Len(reqChan'[WorkerOf(s[1])]) : reqChan'[WorkerOf(s[1])][k] = s
    <3>1. CASE s = r
      <4>1. WorkerOf(s[1]) = v
        BY <1>2, <3>1 DEF v
      <4> QED BY <1>4, <1>6, <3>1, <4>1
    <3>2. CASE s # r
      <4>1. spc[s] = "queued" /\ WorkerOf(s[1]) \in Workers
        BY <1>5, <2>3, <3>2, RequestFacts, WorkerOfType
      <4>2. PICK k \in 1 .. Len(reqChan[WorkerOf(s[1])]) : reqChan[WorkerOf(s[1])][k] = s
        BY <4>1 DEF OrderInv, QueueOrder
      <4>3. CASE WorkerOf(s[1]) = v
        <5>1. k \in 1 .. Len(q) /\ q[k] = s
          BY <1>3, <4>2, <4>3
        <5> QED BY <1>4, <1>6, <4>3, <5>1
      <4>4. CASE WorkerOf(s[1]) # v
        BY <1>5, <4>1, <4>2, <4>4
      <4> QED BY <4>3, <4>4
    <3> QED BY <3>1, <3>2
  <2> QED BY <2>1, <2>2, <2>3 DEF QueueOrder
<1>11. HandledInOrder'
  <2> SUFFICES ASSUME NEW s \in Senders, NEW t \in Senders,
                      s[1] = t[1], 0 < s[2], s[2] < t[2], spc'[t] \in {"check", "send", "done"}
               PROVE  spc'[s] = "done"
    BY DEF HandledInOrder
  <2>1. t # r /\ spc[t] \in {"check", "send", "done"}
    BY <1>5
  <2>2. spc[s] = "done"
    BY <2>1 DEF OrderInv, HandledInOrder
  <2> QED BY <1>2, <1>5, <2>2
<1> QED BY <1>9, <1>10, <1>11 DEF OrderInv

\* An idle worker takes the oldest request of its queue.
LEMMA OrderPop ==
  ASSUME WorkerPoolSize > 0, TypeInv, OrderInv, NEW v \in Workers, WorkerPop(v)
  PROVE  OrderInv'
<1>1. PICK q : q = reqChan[v]
  OBVIOUS
<1>2. PICK r : r = Head(q)
  OBVIOUS
<1>0. /\ spc \in [Senders -> {"none", "held", "queued", "check", "send", "done"}]
      /\ received \in [Conns -> 0 .. MaxMsgs]
      /\ reqChan \in [Workers -> Seq(Senders)]
  BY DEF TypeInv, TypeOK
<1>3. /\ ~WorkerBusy(v) /\ q # <<>> /\ reqChan' = [reqChan EXCEPT ![v] = Tail(@)]
      /\ spc' = [spc EXCEPT ![r] = Routed(r)] /\ UNCHANGED <<received, rpc>>
  BY <1>1, <1>2 DEF WorkerPop, network
<1>4. /\ q \in Seq(Senders) /\ Len(q) \in Nat /\ Len(q) >= 1 /\ r = q[1]
      /\ Len(Tail(q)) = Len(q) - 1 /\ \A k \in 1 .. Len(Tail(q)) : Tail(q)[k] = q[k + 1]
      /\ reqChan'[v] = Tail(q)
  BY <1>0, <1>1, <1>2, <1>3
<1>5. \A k \in 1 .. Len(q) : q[k] \in Requests /\ spc[q[k]] = "queued" /\ WorkerOf(q[k][1]) = v
  BY <1>1 DEF OrderInv, QueueOrder
<1>6. r \in Requests /\ r \in Senders /\ spc[r] = "queued" /\ WorkerOf(r[1]) = v
  BY <1>4, <1>5, RequestFacts
<1>7. /\ spc'[r] \in {"check", "done"}
      /\ \A s \in Senders : s # r => spc'[s] = spc[s]
      /\ \A w \in Workers : w # v => reqChan'[w] = reqChan[w]
  BY <1>0, <1>3, <1>6 DEF Routed
<1>8. \A j, k \in 1 .. Len(q) : j < k /\ q[j][1] = q[k][1] => q[j][2] < q[k][2]
  BY <1>1 DEF OrderInv, QueueOrder
<1>9. \A k \in 2 .. Len(q) : q[k] # r
  <2> SUFFICES ASSUME NEW k \in 2 .. Len(q), q[k] = r PROVE FALSE
    OBVIOUS
  <2>1. k \in 1 .. Len(q) /\ 1 \in 1 .. Len(q) /\ 1 < k
    BY <1>4
  <2>2. r[2] < r[2]
    BY <1>4, <1>8, <2>1
  <2> QED BY <1>6, <2>2, RequestFacts, BoundAssumption
<1>10. RequestStages' /\ PushHolds'
  <2>1. PushHolds'
    BY <1>3 DEF OrderInv, PushHolds
  <2>2. RequestStages'
    <3> SUFFICES ASSUME NEW s \in Requests
                 PROVE  /\ s[2] > received'[s[1]] => spc'[s] = "none"
                        /\ s[2] <= received'[s[1]] /\ spc'[s] = "none" => s[2] = received'[s[1]] /\ rpc'[s[1]] = "stopping"
                        /\ spc'[s] = "held" <=> s[2] = received'[s[1]] /\ rpc'[s[1]] = "push"
      BY DEF RequestStages
    <3>1. /\ s[2] > received[s[1]] => spc[s] = "none"
          /\ s[2] <= received[s[1]] /\ spc[s] = "none" => s[2] = received[s[1]] /\ rpc[s[1]] = "stopping"
          /\ spc[s] = "held" <=> s[2] = received[s[1]] /\ rpc[s[1]] = "push"
      BY DEF OrderInv, RequestStages
    <3>2. received' = received /\ rpc' = rpc /\ s \in Senders
      BY <1>3, RequestFacts
    <3>3. CASE s = r
      <4>1. spc'[s] # "none" /\ spc'[s] # "held" /\ spc[s] # "none" /\ spc[s] # "held"
        BY <1>6, <1>7, <3>3
      <4> QED BY <3>1, <3>2, <4>1
    <3>4. CASE s # r
      BY <1>7, <3>1, <3>2, <3>4
    <3> QED BY <3>3, <3>4
  <2> QED BY <2>1, <2>2
<1>11. QueueOrder'
  <2>1. ASSUME NEW w \in Workers, NEW k \in 1 .. Len(reqChan'[w])
        PROVE  /\ reqChan'[w][k] \in Requests /\ spc'[reqChan'[w][k]] = "queued"
               /\ WorkerOf(reqChan'[w][k][1]) = w
    <3>1. CASE w # v
      <4>1. reqChan'[w] = reqChan[w]
        BY <1>7, <3>1
      <4>2. reqChan[w][k] \in Requests /\ spc[reqChan[w][k]] = "queued" /\ WorkerOf(reqChan[w][k][1]) = w
        BY <2>1, <4>1 DEF OrderInv, QueueOrder
      <4>3. reqChan[w][k] # r
        BY <1>6, <3>1, <4>2
      <4> QED BY <1>7, <4>1, <4>2, <4>3, RequestFacts
    <3>2. CASE w = v
      <4>1. reqChan'[w][k] = q[k + 1] /\ k + 1 \in 2 .. Len(q) /\ k + 1 \in 1 .. Len(q)
        BY <1>4, <2>1, <3>2
      <4>2. q[k + 1] \in Requests /\ spc[q[k + 1]] = "queued" /\ WorkerOf(q[k + 1][1]) = v /\ q[k + 1] # r
        BY <1>5, <1>9, <4>1
      <4> QED BY <1>7, <3>2, <4>1, <4>2, RequestFacts
    <3> QED BY <3>1, <3>2
  <2>2. ASSUME NEW w \in Workers, NEW j \in 1 .. Len(reqChan'[w]), NEW k \in 1 .. Len(reqChan'[w]),
               j < k, reqChan'[w][j][1] = reqChan'[w][k][1]
        PROVE  reqChan'[w][j][2] < reqChan'[w][k][2]
    <3>1. CASE w # v
      BY <1>7, <2>2, <3>1 DEF OrderInv, QueueOrder
    <3>2. CASE w = v
      <4>1. /\ reqChan'[w][j] = q[j + 1] /\ j + 1 \in 1 .. Len(q)
            /\ reqChan'[w][k] = q[k + 1] /\ k + 1 \in 1 .. Len(q) /\ j + 1 < k + 1
        <5>1. reqChan'[w] = Tail(q) /\ j \in 1 .. Len(Tail(q)) /\ k \in 1 .. Len(Tail(q))
          BY <1>4, <3>2
        <5>2. reqChan'[w][j] = q[j + 1] /\ reqChan'[w][k] = q[k + 1]
          BY <1>4, <5>1
        <5>3. j + 1 \in 1 .. Len(q) /\ k + 1 \in 1 .. Len(q) /\ j + 1 < k + 1
          BY <1>4, <2>2, <5>1
        <5> QED BY <5>2, <5>3
      <4> QED BY <1>8, <2>2, <4>1
    <3> QED BY <3>1, <3>2
  <2>3. ASSUME NEW s \in Requests, spc'[s] = "queued"
        PROVE  \E k \in 1 .. Len(reqChan'[WorkerOf(s[1])]) : reqChan'[WorkerOf(s[1])][k] = s
    <3>1. s # r
      BY <1>7, <2>3
    <3>2. spc[s] = "queued" /\ WorkerOf(s[1]) \in Workers
      BY <1>7, <2>3, <3>1, RequestFacts, WorkerOfType
    <3>3. PICK k \in 1 .. Len(reqChan[WorkerOf(s[1])]) : reqChan[WorkerOf(s[1])][k] = s
      BY <3>2 DEF OrderInv, QueueOrder
    <3>4. CASE WorkerOf(s[1]) = v
      <4>1. k \in 1 .. Len(q) /\ q[k] = s
        BY <1>1, <3>3, <3>4
      <4>2. k # 1
        BY <1>4, <3>1, <4>1
      <4>3. k - 1 \in 1 .. Len(Tail(q)) /\ Tail(q)[k - 1] = q[(k - 1) + 1] /\ (k - 1) + 1 = k
        BY <1>4, <4>1, <4>2
      <4> QED BY <1>4, <3>4, <4>1, <4>3
    <3>5. CASE WorkerOf(s[1]) # v
      BY <1>7, <3>2, <3>3, <3>5
    <3> QED BY <3>4, <3>5
  <2> QED BY <2>1, <2>2, <2>3 DEF QueueOrder
<1>12. HandledInOrder'
  <2> SUFFICES ASSUME NEW s \in Senders, NEW t \in Senders,
                      s[1] = t[1], 0 < s[2], s[2] < t[2], spc'[t] \in {"check", "send", "done"}
               PROVE  spc'[s] = "done"
    BY DEF HandledInOrder
  <2>1. CASE t # r
    <3>1. spc[t] \in {"check", "send", "done"}
      BY <1>7, <2>1
    <3>2. spc[s] = "done"
      BY <3>1 DEF OrderInv, HandledInOrder
    <3> QED BY <1>6, <1>7, <3>2
  <2>2. CASE t = r
    <3>1. /\ s \in Requests /\ s[1] = r[1] /\ s[2] < r[2] /\ s # r
          /\ s[2] \in 1 .. MaxMsgs /\ r[2] \in 1 .. MaxMsgs /\ r[1] \in Conns
      BY <1>6, <2>2, RequestFacts, BoundAssumption
    <3>2. r[2] <= received[r[1]] /\ received[r[1]] \in Nat
      BY <1>0, <1>6, <3>1, BoundAssumption DEF OrderInv, RequestStages
    <3>3. s[2] < received[s[1]] /\ s[2] # received[s[1]] /\ s[2] <= received[s[1]]
      BY <3>1, <3>2, BoundAssumption
    <3>4. spc[s] # "none" /\ spc[s] # "held"
      BY <3>1, <3>3 DEF OrderInv, RequestStages
    <3>5. spc[s] # "queued"
      <4> SUFFICES ASSUME spc[s] = "queued" PROVE FALSE
        OBVIOUS
      <4>1. PICK k \in 1 .. Len(q) : q[k] = s
        BY <1>1, <1>6, <3>1 DEF OrderInv, QueueOrder
      <4>2. k # 1 /\ 1 \in 1 .. Len(q) /\ 1 < k
        BY <1>4, <3>1, <4>1
      <4>3. r[2] < s[2]
        BY <1>4, <1>8, <3>1, <4>1, <4>2
      <4> QED BY <3>1, <4>3, BoundAssumption
    <3>6. spc[s] \notin {"check", "send"}
      BY <1>3, <1>6, <3>1 DEF WorkerBusy, Active
    <3>7. spc[s] = "done"
      BY <1>0, <3>4, <3>5, <3>6
    <3> QED BY <1>7, <3>1, <3>7
  <2> QED BY <2>1, <2>2
<1> QED BY <1>10, <1>11, <1>12 DEF OrderInv

LEMMA OrderInit == Init => OrderInv
<1> SUFFICES ASSUME Init PROVE OrderInv
  OBVIOUS
<1>1. \A s \in Senders : spc[s] = "none"
  BY DEF Init
<1>2. RequestStages /\ PushHolds
  BY <1>1, RequestFacts DEF Init, RequestStages, PushHolds
<1>3. QueueOrder
  <2>1. \A w \in Workers : Len(reqChan[w]) = 0
    BY DEF Init
  <2> QED BY <1>1, <2>1, RequestFacts DEF QueueOrder
<1>4. HandledInOrder
  BY <1>1 DEF HandledInOrder
<1> QED BY <1>2, <1>3, <1>4 DEF OrderInv

LEMMA OrderNext ==
  ASSUME WorkerPoolSize > 0, CloseInv, OrderInv, [Next]_vars
  PROVE  OrderInv'
<1>0. /\ TypeInv
      /\ spc \in [Senders -> {"none", "held", "queued", "check", "send", "done"}]
      /\ rpc \in [Conns -> {"none", "created", "read", "push", "stopping"}]
  BY DEF CloseInv, TypeInv, TypeOK
<1> USE DEF registry, network, chans, control
<1>1. CASE UNCHANGED <<received, reqChan, spc, rpc>>
  BY <1>1, OrderFrame
<1>2. CASE AddConn
  <2>1. nextId \in Conns /\ rpc[nextId] = "none"
    <3>1. nextId \in Conns
      BY <1>0, <1>2, BoundAssumption DEF AddConn, TypeInv, TypeOK, Bounded, HoldsSocket, Conns
    <3>2. nextId >= nextId
      BY <3>1 DEF Conns
    <3> QED BY <3>1, <3>2 DEF CloseInv, ReaderCloses
  <2>2. \A c \in Conns : rpc'[c] = rpc[c] \/ (rpc[c] = "none" /\ rpc'[c] = "created")
    BY <1>0, <1>2, <2>1 DEF AddConn
  <2> QED BY <1>2, <2>2, OrderFrame DEF AddConn
<1>3. ASSUME NEW c \in Conns, Start(c) PROVE OrderInv'
  <2>1. \A s \in Requests : spc'[s] = spc[s]
    BY <1>0, <1>3, RequestFacts DEF Start
  <2>2. \A d \in Conns : rpc'[d] = rpc[d] \/ (rpc[d] = "created" /\ rpc'[d] = "read")
    BY <1>0, <1>3 DEF Start
  <2> QED BY <1>3, <2>1, <2>2, OrderFrame DEF Start
<1>4. ASSUME NEW c \in Conns, ReadPacket(c) PROVE OrderInv'
  BY <1>0, <1>4, OrderRead
<1>5. ASSUME NEW c \in Conns, ReadError(c) PROVE OrderInv'
  <2>1. \A d \in Conns : rpc'[d] = rpc[d] \/ (rpc[d] = "read" /\ rpc'[d] = "stopping")
    BY <1>0, <1>5 DEF ReadError
  <2> QED BY <1>5, <2>1, OrderFrame DEF ReadError
<1>6. ASSUME NEW c \in Conns, PushToReqChan(c) PROVE OrderInv'
  BY <1>0, <1>6, OrderPush
<1>7. ASSUME NEW w \in Workers, WorkerPop(w) PROVE OrderInv'
  BY <1>0, <1>7, OrderPop
<1>8. ASSUME NEW s \in Senders, SendCheck(s) PROVE OrderInv'
  <2>1. PICK v \in {"send", "done"} : spc' = [spc EXCEPT ![s] = v]
    BY <1>8 DEF SendCheck
  <2> QED BY <1>0, <1>8, <2>1, OrderHandler DEF SendCheck
<1>9. ASSUME NEW c \in Conns, WriterRecv(c) PROVE OrderInv'
  <2>1. PICK s \in Senders : spc[s] = "send" /\ spc' = [spc EXCEPT ![s] = "done"]
    BY <1>9 DEF WriterRecv
  <2> QED BY <1>0, <1>9, <2>1, OrderHandler DEF WriterRecv
<1>10. ASSUME NEW g \in Stoppers, Stop(g) PROVE OrderInv'
  <2>1. UNCHANGED <<received, reqChan, spc, rpc>>
    BY <1>10 DEF Stop, StopCheck, StopMark, StopCloseSocket, StopNotify, StopDelConn,
                 StopCloseClosedChan, StopClosePacketChan
  <2> QED BY <1>1, <2>1
<1>11. CASE Listen \/ AcceptTCP \/ TestConnNum \/ Refuse
  <2>1. UNCHANGED <<received, reqChan, spc, rpc>>
    BY <1>11 DEF Listen, AcceptTCP, TestConnNum, Refuse
  <2> QED BY <1>1, <2>1
<1>12. ASSUME NEW c \in Conns, WriterRecvClosed(c) \/ WriterClosed(c) \/ SocketWrite(c) \/ Client(c)
       PROVE  OrderInv'
  <2>1. UNCHANGED <<received, reqChan, spc, rpc>>
    BY <1>12 DEF WriterRecvClosed, WriterClosed, SocketWrite, Client, ClientSend, ClientRead, ClientLeave
  <2> QED BY <1>1, <2>1
<1>13. ASSUME NEW s \in Senders, SendPanic(s) PROVE OrderInv'
  <2>1. UNCHANGED <<received, reqChan, spc, rpc>>
    BY <1>13 DEF SendPanic
  <2> QED BY <1>1, <2>1
<1>14. CASE Signal \/ DelAllConn \/ Exit
  <2>1. UNCHANGED <<received, reqChan, spc, rpc>>
    BY <1>14 DEF Signal, DelAllConn, DelAllLock, DelAllStop, DelAllDelete, DelAllUnlock, Exit
  <2> QED BY <1>1, <2>1
<1>15. CASE UNCHANGED vars
  <2>1. UNCHANGED <<received, reqChan, spc, rpc>>
    BY <1>15 DEF vars
  <2> QED BY <1>1, <2>1
<1> QED BY <1>2, <1>3, <1>4, <1>5, <1>6, <1>7, <1>8, <1>9, <1>10, <1>11, <1>12, <1>13, <1>14, <1>15
    DEF Next, Acceptor, Reader, Writer, Sender, Shutdown, Stoppers

\* With a worker pool the requests of one connection are handled one at a time
\* and in the order in which they were received, for any number of workers, of
\* connections and any queue length: one queue serves a connection, its worker
\* returns from UseRoute before it takes the next request, and the reader puts
\* a request into the queue before it reads another.
THEOREM RequestsInOrder == Spec => []HandledInOrder
<1>1. CASE WorkerPoolSize > 0
  <2>1. OrderInv => HandledInOrder
    BY DEF OrderInv
  <2>2. CloseInv /\ OrderInv /\ [Next]_vars => OrderInv'
    BY <1>1, OrderNext
  <2> QED BY <2>1, <2>2, OrderInit, CloseInit, CloseNext, PTL DEF Spec
<1>2. CASE ~(WorkerPoolSize > 0)
  <2>1. Init => HandledInOrder
    BY <1>2 DEF HandledInOrder
  <2>2. HandledInOrder /\ [Next]_vars => HandledInOrder'
    BY <1>2 DEF HandledInOrder
  <2> QED BY <2>1, <2>2, PTL DEF Spec
<1> QED BY <1>1, <1>2

-----------------------------------------------------------------------------
(* Chat.                                                                   *)

Bytes == Clients \X Nat

HandlerPlaces == {"none", "read", "lock", "broadcast", "remove", "closed"}

\* TypeOK, with streams of any length where it names the bytes.
ChatTypes ==
  /\ up \in BOOLEAN
  /\ pending \subseteq Clients /\ cur \in Clients \cup {Chat!Free}
  /\ arr \in [1 .. Cap -> Clients \cup {Chat!Free}] /\ arrLen \in 0 .. Cap
  /\ mut \in Clients \cup {Chat!Free}
  /\ hpc \in [Clients -> HandlerPlaces]
  /\ buf \in [Clients -> Seq(Bytes)] /\ idx \in [Clients -> Nat \ {0}]
  /\ c2s \in [Clients -> Seq(Bytes)] /\ s2c \in [Clients -> Seq(Bytes)]
  /\ cst \in [Clients -> {"new", "open", "closed", "exit1"}]
  /\ recv \in [Clients -> {"none", "run", "done"}]
  /\ sent \in [Clients -> 0 .. MaxSend] /\ got \in [Clients -> Seq(Bytes)]
  /\ log \in Seq(Bytes) /\ from \in [Clients -> Nat]
  /\ \A c \in Clients : Len(buf[c]) <= BufSize /\ Len(s2c[c]) <= SockCap

\* A connection is pending, accepted or served by its goroutine, and gets bytes
\* only in the last case; who is inside the broadcast has the mutex.
ChatPlaces ==
  \A c \in Clients :
    /\ c \in pending => cst[c] # "new" /\ cst[c] # "exit1" /\ hpc[c] = "none" /\ cur # c
    /\ cur = c => cst[c] # "new" /\ cst[c] # "exit1" /\ hpc[c] = "none"
    /\ hpc[c] # "none" => cst[c] \in {"open", "closed"}
    /\ hpc[c] = "none" => s2c[c] = <<>> /\ got[c] = <<>>
    /\ hpc[c] = "broadcast" <=> mut = c

\* The first arrLen entries are the connections whose goroutines run, each once.
ChatArray ==
  /\ \A i \in 1 .. arrLen : arr[i] \in Chat!Connected
  /\ \A i, j \in 1 .. arrLen : arr[i] = arr[j] => i = j
  /\ \A c \in Chat!Connected : \E i \in 1 .. arrLen : arr[i] = c

\* How much of the log has been written to the connection in entry i: a broadcast
\* under way has not come to the entries from its index on.
Reach(i) == IF mut # Chat!Free /\ i >= idx[mut] THEN Len(log) - Len(buf[mut]) ELSE Len(log)

\* An open client has got, or has under way, the log from its registration on.
ChatStream(i) ==
  LET c == arr[i] IN
  cst[c] = "open" =>
    /\ from[c] + Len(got[c]) + Len(s2c[c]) = Reach(i)
    /\ \A k \in 1 .. Len(got[c]) : got[c][k] = log[from[c] + k]
    /\ \A k \in 1 .. Len(s2c[c]) : s2c[c][k] = log[from[c] + Len(got[c]) + k]

\* That holds for every entry, and the bytes a broadcast writes end the log.
ChatStreams ==
  /\ \A i \in 1 .. arrLen : ChatStream(i)
  /\ mut # Chat!Free => /\ Len(buf[mut]) <= Len(log)
                   /\ \A k \in 1 .. Len(buf[mut]) : buf[mut][k] = log[Len(log) - Len(buf[mut]) + k]

\* Bytes that a handler has read and not yet broadcast.
Held(c) == IF hpc[c] = "lock" THEN Len(buf[c]) ELSE 0

\* Of the bytes of c the first n have been broadcast, each once and in order.
Broadcast(c, n) ==
  /\ \A i \in 1 .. Len(log) : log[i][1] = c => log[i][2] \in 1 .. n
  /\ \A k \in 1 .. n : \E i \in 1 .. Len(log) : log[i] = <<c, k>>
  /\ \A i, j \in 1 .. Len(log) : log[i][1] = c /\ log[j][1] = c /\ i < j => log[i][2] < log[j][2]

\* The bytes of c from n + 1 on are those its handler holds and those under way;
\* while its connection lives they reach to what it has sent.
Ahead(c, n) ==
  /\ n + Held(c) + Len(c2s[c]) <= sent[c]
  /\ up /\ cst[c] \in {"new", "open"} => n + Held(c) + Len(c2s[c]) = sent[c]
  /\ hpc[c] = "lock" => \A k \in 1 .. Len(buf[c]) : buf[c][k] = <<c, n + k>>
  /\ \A k \in 1 .. Len(c2s[c]) : c2s[c][k] = <<c, n + Held(c) + k>>

ChatSenders == \A c \in Clients : \E n \in Nat : Broadcast(c, n) /\ Ahead(c, n)

\* The inductive invariant.
ChatInv == ChatTypes /\ ChatPlaces /\ ChatArray /\ ChatStreams /\ ChatSenders

ServerStep(h) == Chat!HandlerRead(h) \/ Chat!HandlerReadErr(h) \/ Chat!Remove(h) \/ Chat!Lock(h) \/ Chat!Write(h) \/ Chat!Unlock(h)
ClientStep(c) == Chat!Dial(c) \/ Chat!SendMsg(c) \/ Chat!Quit(c) \/ Chat!RecvMsg(c) \/ Chat!RecvEnds(c)

\* The specification without its fairness.
ChatSteps == Chat!Init /\ [][Chat!Next]_Chat!vars

\* What the two parts of a sequence hold.
LEMMA CutSeq ==
  ASSUME NEW S, NEW s \in Seq(S), NEW k \in 0 .. Len(s)
  PROVE  /\ SubSeq(s, 1, k) \in Seq(S) /\ Len(SubSeq(s, 1, k)) = k
         /\ \A j \in 1 .. k : SubSeq(s, 1, k)[j] = s[j]
         /\ SubSeq(s, k + 1, Len(s)) \in Seq(S) /\ Len(SubSeq(s, k + 1, Len(s))) = Len(s) - k
         /\ \A j \in 1 .. Len(s) - k : SubSeq(s, k + 1, Len(s))[j] = s[k + j]
OBVIOUS

\* What a concatenation holds.
LEMMA JoinSeq ==
  ASSUME NEW S, NEW s \in Seq(S), NEW t \in Seq(S)
  PROVE  /\ s \o t \in Seq(S) /\ Len(s \o t) = Len(s) + Len(t)
         /\ \A j \in 1 .. Len(s) : (s \o t)[j] = s[j]
         /\ \A j \in 1 .. Len(t) : (s \o t)[Len(s) + j] = t[j]
OBVIOUS

\* Two sequences of one length with the same elements are the same sequence.
LEMMA SeqEqual ==
  ASSUME NEW S, NEW a \in Seq(S), NEW b \in Seq(S), Len(a) = Len(b),
         \A j \in 1 .. Len(a) : a[j] = b[j]
  PROVE  a = b
OBVIOUS

\* What an update of one entry of a function does.
LEMMA SetOne ==
  ASSUME NEW D, NEW S, NEW f \in [D -> S], NEW c \in D, NEW s \in S
  PROVE  /\ [f EXCEPT ![c] = s] \in [D -> S]
         /\ \A e \in D : [f EXCEPT ![c] = s][e] = IF e = c THEN s ELSE f[e]
OBVIOUS

LEMMA ChatInitInv == ASSUME Chat!SizesAssumption PROVE Chat!Init => ChatInv
<1> SUFFICES ASSUME Chat!Init PROVE ChatInv
  OBVIOUS
<1> USE DEF Chat!Init
<1>1. ChatTypes
  BY DEF ChatTypes, Chat!SizesAssumption, HandlerPlaces
<1>2. ChatPlaces
  BY DEF ChatPlaces, Chat!SizesAssumption
<1>3. ChatArray
  BY DEF ChatArray, Chat!Connected
<1>4. ChatStreams
  BY DEF ChatStreams
<1>5. ChatSenders
  <2> SUFFICES ASSUME NEW c \in Clients PROVE Broadcast(c, 0) /\ Ahead(c, 0)
    BY DEF ChatSenders
  <2> QED BY Chat!SizesAssumption DEF Broadcast, Ahead, Held, Chat!SizesAssumption
<1> QED BY <1>1, <1>2, <1>3, <1>4, <1>5 DEF ChatInv

LEMMA ChatTypesNext ==
  ASSUME Chat!SizesAssumption, ChatTypes, ChatArray, Chat!Next PROVE ChatTypes'
<1>0. Cap \in Nat \ {0} /\ BufSize \in Nat \ {0} /\ SockCap \in Nat \ {0} /\ MaxSend \in Nat
      /\ BufSize <= SockCap /\ <<>> \in Seq(Bytes) /\ Len(<<>>) = 0
  BY DEF Chat!SizesAssumption
<1>1. CASE Chat!Register
  <2>1. cur \in Clients /\ arrLen + 1 \in 1 .. Cap
    BY <1>0, <1>1 DEF Chat!Register, ChatTypes, HandlerPlaces
  <2> QED BY <1>0, <1>1, <2>1 DEF Chat!Register, Chat!clientVars, ChatTypes, HandlerPlaces
<1>2. CASE Chat!Panic \/ Chat!AcceptErr
  BY <1>2 DEF Chat!Panic, Chat!AcceptErr, Chat!clientVars, ChatTypes, HandlerPlaces
<1>3. ASSUME NEW c \in Clients, Chat!Accept(c) PROVE ChatTypes'
  BY <1>3 DEF Chat!Accept, Chat!clientVars, ChatTypes, HandlerPlaces
<1>4. ASSUME NEW h \in Clients, Chat!HandlerRead(h) PROVE ChatTypes'
  <2> PICK k \in 1 .. BufSize :
         /\ k <= Len(c2s[h])
         /\ buf' = [buf EXCEPT ![h] = SubSeq(c2s[h], 1, k)]
         /\ c2s' = [c2s EXCEPT ![h] = SubSeq(@, k + 1, Len(@))]
    BY <1>4 DEF Chat!HandlerRead, ChatTypes, HandlerPlaces
  <2>1. c2s[h] \in Seq(Bytes) /\ k \in 0 .. Len(c2s[h])
    BY <1>0 DEF ChatTypes
  <2>2. SubSeq(c2s[h], 1, k) \in Seq(Bytes) /\ SubSeq(c2s[h], k + 1, Len(c2s[h])) \in Seq(Bytes)
        /\ Len(SubSeq(c2s[h], 1, k)) = k
    BY <2>1, CutSeq
  <2>3. buf' \in [Clients -> Seq(Bytes)] /\ c2s' \in [Clients -> Seq(Bytes)]
        /\ \A c \in Clients : Len(buf'[c]) <= BufSize
    <3>1. buf \in [Clients -> Seq(Bytes)] /\ c2s \in [Clients -> Seq(Bytes)]
          /\ \A c \in Clients : Len(buf[c]) <= BufSize
      BY DEF ChatTypes
    <3>2. buf' \in [Clients -> Seq(Bytes)] /\ c2s' \in [Clients -> Seq(Bytes)]
      BY <2>2, <3>1, SetOne
    <3>3. \A c \in Clients : buf'[c] = IF c = h THEN SubSeq(c2s[h], 1, k) ELSE buf[c]
      BY <2>2, <3>1, SetOne
    <3> QED BY <1>0, <2>2, <3>1, <3>2, <3>3
  <2> QED BY <1>4, <2>3 DEF Chat!HandlerRead, Chat!clientVars, ChatTypes, HandlerPlaces
<1>5. ASSUME NEW h \in Clients, Chat!HandlerReadErr(h) PROVE ChatTypes'
  BY <1>5 DEF Chat!HandlerReadErr, Chat!clientVars, ChatTypes, HandlerPlaces
<1>6. ASSUME NEW h \in Clients, Chat!Remove(h) PROVE ChatTypes'
  <2>1. h \in Chat!Connected
    BY <1>6 DEF Chat!Remove, Chat!Connected
  <2>2. arrLen \in 1 .. Cap
    BY <1>0, <2>1 DEF ChatArray, ChatTypes
  <2>30. \A j \in 1 .. Cap : arr[j] \in Clients \cup {Chat!Free} /\ (j < arrLen => j + 1 \in 1 .. Cap)
    <3>1. \A j \in 1 .. Cap : j < arrLen => j + 1 \in 1 .. Cap
      BY <1>0, <2>2
    <3> QED BY <3>1 DEF ChatTypes
  <2>3. Chat!Without(h) \in [1 .. Cap -> Clients \cup {Chat!Free}]
    BY <2>30 DEF Chat!Without
  <2>4. arr' \in [1 .. Cap -> Clients \cup {Chat!Free}]
    BY <1>6, <2>3 DEF Chat!Remove
  <2>5. arrLen' \in 0 .. Cap
    BY <1>0, <1>6, <2>2 DEF Chat!Remove
  <2>6. /\ hpc' \in [Clients -> HandlerPlaces]
        /\ UNCHANGED <<up, pending, cur, mut, buf, idx, log, from, c2s, s2c, cst, recv, sent, got>>
    BY <1>6 DEF Chat!Remove, Chat!clientVars, ChatTypes, HandlerPlaces
  <2> QED BY <2>4, <2>5, <2>6 DEF ChatTypes
<1>7. ASSUME NEW h \in Clients, Chat!Lock(h) PROVE ChatTypes'
  <2>0. log \in Seq(Bytes) /\ buf[h] \in Seq(Bytes) /\ log' = log \o buf[h]
    BY <1>7 DEF Chat!Lock, ChatTypes
  <2>1. log' \in Seq(Bytes)
    BY <2>0, JoinSeq DEF Chat!Lock, ChatTypes, HandlerPlaces
  <2>2. /\ hpc' \in [Clients -> HandlerPlaces]
        /\ idx' \in [Clients -> Nat \ {0}]
    BY <1>7 DEF Chat!Lock, ChatTypes, HandlerPlaces
  <2>3. /\ mut' = h
        /\ UNCHANGED <<up, pending, cur, arr, arrLen, buf, from, c2s, s2c, cst, recv, sent, got>>
    BY <1>7 DEF Chat!Lock, Chat!clientVars
  <2> QED BY <2>1, <2>2, <2>3 DEF ChatTypes
<1>8. ASSUME NEW h \in Clients, Chat!Write(h) PROVE ChatTypes'
  <2> DEFINE d == arr[idx[h]]
  <2>0. idx[h] \in 1 .. arrLen
    BY <1>0, <1>8 DEF Chat!Write, ChatTypes
  <2>1. d \in Clients
    BY <2>0 DEF ChatArray, Chat!Connected
  <2>2. s2c[d] \o buf[h] \in Seq(Bytes) /\ Len(s2c[d] \o buf[h]) = Len(s2c[d]) + Len(buf[h])
    <3>1. s2c[d] \in Seq(Bytes) /\ buf[h] \in Seq(Bytes)
      BY <2>1 DEF ChatTypes
    <3> QED BY <3>1, JoinSeq
  <2> HIDE DEF d
  <2>5. /\ idx' \in [Clients -> Nat \ {0}]
        /\ UNCHANGED <<up, pending, cur, arr, arrLen, mut, hpc, buf, log, from, c2s, cst, recv, sent, got>>
    <3>0. idx \in [Clients -> Nat \ {0}]
      BY DEF ChatTypes
    <3>00. idx[h] \in Nat \ {0}
      BY <3>0
    <3>1. idx[h] + 1 \in Nat \ {0}
      BY <3>00
    <3>2. idx' = [idx EXCEPT ![h] = idx[h] + 1]
      BY <1>8 DEF Chat!Write
    <3>3. idx' \in [Clients -> Nat \ {0}]
      BY <3>0, <3>1, <3>2, SetOne
    <3> QED BY <1>8, <3>3 DEF Chat!Write, Chat!clientVars
  <2>3. CASE cst[d] = "open"
    <3>1. Len(s2c[d]) + Len(buf[h]) <= SockCap /\ s2c' = [s2c EXCEPT ![d] = s2c[d] \o buf[h]]
      BY <1>8, <2>3 DEF Chat!Write, d
    <3>2. s2c' \in [Clients -> Seq(Bytes)] /\ \A c \in Clients : Len(s2c'[c]) <= SockCap
      <4>1. s2c \in [Clients -> Seq(Bytes)] /\ \A c \in Clients : Len(s2c[c]) <= SockCap
        BY DEF ChatTypes
      <4>2. s2c' \in [Clients -> Seq(Bytes)]
            /\ \A c \in Clients : s2c'[c] = IF c = d THEN s2c[d] \o buf[h] ELSE s2c[c]
        BY <2>1, <2>2, <3>1, <4>1, SetOne
      <4> QED BY <2>2, <3>1, <4>1, <4>2
    <3> QED BY <2>5, <3>2 DEF ChatTypes
  <2>4. CASE cst[d] # "open"
    <3>1. s2c' = s2c
      BY <1>8, <2>4 DEF Chat!Write, d
    <3> QED BY <2>5, <3>1 DEF ChatTypes
  <2> QED BY <2>3, <2>4
<1>9. ASSUME NEW h \in Clients, Chat!Unlock(h) PROVE ChatTypes'
  <2>1. buf \in [Clients -> Seq(Bytes)] /\ \A c \in Clients : Len(buf[c]) <= BufSize
    BY DEF ChatTypes
  <2>2. buf' = [buf EXCEPT ![h] = <<>>]
    BY <1>9 DEF Chat!Unlock
  <2>3. buf' \in [Clients -> Seq(Bytes)] /\ \A c \in Clients : buf'[c] = IF c = h THEN <<>> ELSE buf[c]
    BY <1>0, <2>1, <2>2, SetOne
  <2>4. \A c \in Clients : Len(buf'[c]) <= BufSize
    BY <1>0, <2>1, <2>3
  <2>5. /\ hpc' \in [Clients -> HandlerPlaces] /\ mut' \in Clients \cup {Chat!Free}
        /\ UNCHANGED <<up, pending, cur, arr, arrLen, idx, log, from, c2s, s2c, cst, recv, sent, got>>
    BY <1>9 DEF Chat!Unlock, Chat!clientVars, ChatTypes, HandlerPlaces
  <2> QED BY <2>3, <2>4, <2>5 DEF ChatTypes
<1>10. ASSUME NEW c \in Clients, Chat!Dial(c) PROVE ChatTypes'
  BY <1>10 DEF Chat!Dial, ChatTypes, HandlerPlaces
<1>11. ASSUME NEW c \in Clients, Chat!SendMsg(c) PROVE ChatTypes'
  <2>1. <<c, sent[c] + 1>> \in Bytes /\ sent'[c] \in 0 .. MaxSend
    BY <1>0, <1>11 DEF Chat!SendMsg, Bytes, ChatTypes
  <2>2. Append(c2s[c], <<c, sent[c] + 1>>) \in Seq(Bytes)
    BY <2>1 DEF ChatTypes
  <2>3. c2s' \in [Clients -> Seq(Bytes)] /\ sent' \in [Clients -> 0 .. MaxSend]
    <3>1. c2s \in [Clients -> Seq(Bytes)] /\ sent \in [Clients -> 0 .. MaxSend]
      BY DEF ChatTypes
    <3>2. sent' = [sent EXCEPT ![c] = sent[c] + 1] /\ sent[c] + 1 \in 0 .. MaxSend
          /\ c2s' = IF up THEN [c2s EXCEPT ![c] = Append(c2s[c], <<c, sent[c] + 1>>)] ELSE c2s
      BY <1>0, <1>11, <3>1 DEF Chat!SendMsg
    <3>3. sent' \in [Clients -> 0 .. MaxSend]
      BY <3>1, <3>2, SetOne
    <3>4. c2s' \in [Clients -> Seq(Bytes)]
      BY <2>2, <3>1, <3>2, SetOne
    <3> QED BY <3>3, <3>4
  <2> QED BY <1>11, <2>3 DEF Chat!SendMsg, Chat!serverVars, ChatTypes, HandlerPlaces
<1>12. ASSUME NEW c \in Clients, Chat!Quit(c) PROVE ChatTypes'
  <2> PICK k \in 0 .. Len(c2s[c]) : c2s' = [c2s EXCEPT ![c] = SubSeq(@, 1, k)]
    BY <1>12 DEF Chat!Quit
  <2>0. c2s[c] \in Seq(Bytes)
    BY DEF ChatTypes
  <2>1. SubSeq(c2s[c], 1, k) \in Seq(Bytes)
    BY <2>0, CutSeq
  <2>2. c2s' \in [Clients -> Seq(Bytes)]
    <3>1. c2s \in [Clients -> Seq(Bytes)]
      BY DEF ChatTypes
    <3> QED BY <2>1, <3>1, SetOne
  <2>3. s2c \in [Clients -> Seq(Bytes)] /\ \A e \in Clients : Len(s2c[e]) <= SockCap
    BY DEF ChatTypes
  <2>4. s2c' = [s2c EXCEPT ![c] = <<>>]
    BY <1>12 DEF Chat!Quit
  <2>5. s2c' \in [Clients -> Seq(Bytes)] /\ \A e \in Clients : s2c'[e] = IF e = c THEN <<>> ELSE s2c[e]
    BY <1>0, <2>3, <2>4, SetOne
  <2>6. \A e \in Clients : Len(s2c'[e]) <= SockCap
    BY <1>0, <2>3, <2>5
  <2>7. /\ cst' \in [Clients -> {"new", "open", "closed", "exit1"}]
        /\ UNCHANGED <<up, pending, cur, arr, arrLen, mut, hpc, buf, idx, log, from, recv, sent, got>>
    BY <1>12 DEF Chat!Quit, Chat!serverVars, ChatTypes
  <2> QED BY <2>2, <2>5, <2>6, <2>7 DEF ChatTypes
<1>13. ASSUME NEW c \in Clients, Chat!RecvMsg(c) PROVE ChatTypes'
  <2> PICK k \in 1 .. BufSize :
         /\ k <= Len(s2c[c])
         /\ got' = [got EXCEPT ![c] = @ \o SubSeq(s2c[c], 1, k)]
         /\ s2c' = [s2c EXCEPT ![c] = SubSeq(@, k + 1, Len(@))]
    BY <1>13 DEF Chat!RecvMsg, ChatTypes, HandlerPlaces
  <2>1. s2c[c] \in Seq(Bytes) /\ k \in 0 .. Len(s2c[c])
    BY <1>0 DEF ChatTypes
  <2>20. Len(s2c[c]) <= SockCap
    BY DEF ChatTypes
  <2>2. SubSeq(s2c[c], 1, k) \in Seq(Bytes) /\ SubSeq(s2c[c], k + 1, Len(s2c[c])) \in Seq(Bytes)
        /\ Len(SubSeq(s2c[c], k + 1, Len(s2c[c]))) <= SockCap
    BY <1>0, <2>1, <2>20, CutSeq
  <2>3. got[c] \o SubSeq(s2c[c], 1, k) \in Seq(Bytes)
    <3>1. got[c] \in Seq(Bytes)
      BY DEF ChatTypes
    <3> QED BY <2>2, <3>1, JoinSeq
  <2>4. got' \in [Clients -> Seq(Bytes)] /\ s2c' \in [Clients -> Seq(Bytes)]
        /\ \A e \in Clients : Len(s2c'[e]) <= SockCap
    <3>1. s2c \in [Clients -> Seq(Bytes)] /\ got \in [Clients -> Seq(Bytes)]
          /\ \A e \in Clients : Len(s2c[e]) <= SockCap
      BY DEF ChatTypes
    <3>2. got' \in [Clients -> Seq(Bytes)] /\ s2c' \in [Clients -> Seq(Bytes)]
          /\ \A e \in Clients : s2c'[e] = IF e = c THEN SubSeq(s2c[c], k + 1, Len(s2c[c])) ELSE s2c[e]
      BY <2>2, <2>3, <3>1, SetOne
    <3> QED BY <2>2, <3>1, <3>2
  <2> QED BY <1>13, <2>4 DEF Chat!RecvMsg, Chat!serverVars, ChatTypes, HandlerPlaces
<1>14. ASSUME NEW c \in Clients, Chat!RecvEnds(c) PROVE ChatTypes'
  BY <1>14 DEF Chat!RecvEnds, Chat!serverVars, ChatTypes, HandlerPlaces
<1> QED BY <1>1, <1>2, <1>3, <1>4, <1>5, <1>6, <1>7, <1>8, <1>9, <1>10, <1>11, <1>12, <1>13, <1>14
        DEF Chat!Next, Chat!Main, Chat!Handler

LEMMA ChatPlacesNext ==
  ASSUME Chat!SizesAssumption, ChatTypes, ChatPlaces, ChatArray, Chat!Next PROVE ChatPlaces'
<1> USE DEF ChatTypes, HandlerPlaces, ChatPlaces
<1>0. Chat!Free \notin Clients
  BY DEF Chat!SizesAssumption
<1>1. CASE Chat!Register
  BY <1>0, <1>1 DEF Chat!Register, Chat!clientVars
<1>2. CASE Chat!Panic \/ Chat!AcceptErr
  BY <1>2 DEF Chat!Panic, Chat!AcceptErr, Chat!clientVars
<1>3. ASSUME NEW c \in Clients, Chat!Accept(c) PROVE ChatPlaces'
  BY <1>0, <1>3 DEF Chat!Accept, Chat!clientVars
<1>4. ASSUME NEW h \in Clients, Chat!HandlerRead(h) PROVE ChatPlaces'
  BY <1>4 DEF Chat!HandlerRead, Chat!clientVars
<1>5. ASSUME NEW h \in Clients, Chat!HandlerReadErr(h) PROVE ChatPlaces'
  BY <1>5 DEF Chat!HandlerReadErr, Chat!clientVars
<1>6. ASSUME NEW h \in Clients, Chat!Remove(h) PROVE ChatPlaces'
  BY <1>6 DEF Chat!Remove, Chat!clientVars
<1>7. ASSUME NEW h \in Clients, Chat!Lock(h) PROVE ChatPlaces'
  BY <1>0, <1>7 DEF Chat!Lock, Chat!clientVars
<1>8. ASSUME NEW h \in Clients, Chat!Write(h) PROVE ChatPlaces'
  <2>0. idx[h] \in 1 .. arrLen
    BY <1>8 DEF Chat!Write
  <2>1. arr[idx[h]] \in Clients /\ hpc[arr[idx[h]]] # "none"
    BY <2>0 DEF ChatArray, Chat!Connected
  <2>2. \A c \in Clients : hpc[c] = "none" => s2c'[c] = s2c[c]
    BY <1>8, <2>1 DEF Chat!Write
  <2> QED BY <1>8, <2>2 DEF Chat!Write, Chat!clientVars
<1>9. ASSUME NEW h \in Clients, Chat!Unlock(h) PROVE ChatPlaces'
  BY <1>0, <1>9 DEF Chat!Unlock, Chat!clientVars
<1>10. ASSUME NEW c \in Clients, Chat!Dial(c) PROVE ChatPlaces'
  <2>1. cst[c] = "new" /\ cst' \in {[cst EXCEPT ![c] = "open"], [cst EXCEPT ![c] = "exit1"]}
        /\ (pending' = pending \/ (pending' = pending \cup {c} /\ cst' = [cst EXCEPT ![c] = "open"]))
        /\ UNCHANGED <<cur, hpc, mut, s2c, got>>
    BY <1>10 DEF Chat!Dial
  <2>2. ASSUME NEW e \in Clients, e # c PROVE cst'[e] = cst[e] /\ (e \in pending' <=> e \in pending)
    BY <2>1, <2>2
  <2>3. hpc[c] = "none" /\ cur # c /\ c \notin pending
    BY <2>1
  <2>4. cst'[c] \in {"open", "exit1"} /\ (c \in pending' => cst'[c] = "open")
    BY <2>1, <2>3
  <2> QED BY <2>1, <2>2, <2>3, <2>4
<1>11. ASSUME NEW c \in Clients, Chat!SendMsg(c) PROVE ChatPlaces'
  BY <1>11 DEF Chat!SendMsg, Chat!serverVars
<1>12. ASSUME NEW c \in Clients, Chat!Quit(c) PROVE ChatPlaces'
  BY <1>12 DEF Chat!Quit, Chat!serverVars
<1>13. ASSUME NEW c \in Clients, Chat!RecvMsg(c) PROVE ChatPlaces'
  <2>1. s2c[c] # <<>>
    BY <1>13 DEF Chat!RecvMsg, Chat!SizesAssumption
  <2>2. \A e \in Clients : e # c => s2c'[e] = s2c[e] /\ got'[e] = got[e]
    BY <1>13 DEF Chat!RecvMsg
  <2> QED BY <1>13, <2>1, <2>2 DEF Chat!RecvMsg, Chat!serverVars
<1>14. ASSUME NEW c \in Clients, Chat!RecvEnds(c) PROVE ChatPlaces'
  BY <1>14 DEF Chat!RecvEnds, Chat!serverVars
<1> QED BY <1>1, <1>2, <1>3, <1>4, <1>5, <1>6, <1>7, <1>8, <1>9, <1>10, <1>11, <1>12, <1>13, <1>14
        DEF Chat!Next, Chat!Main, Chat!Handler

LEMMA ChatArrayNext ==
  ASSUME Chat!SizesAssumption, ChatTypes, ChatPlaces, ChatArray, Chat!Next PROVE ChatArray'
<1>0. Cap \in Nat \ {0} /\ Chat!Free \notin Clients /\ arrLen \in 0 .. Cap
  BY DEF Chat!SizesAssumption, ChatTypes
<1>h. hpc \in [Clients -> HandlerPlaces]
  BY DEF ChatTypes
<1>f. \A i \in 1 .. arrLen : arr[i] \in Clients
  BY DEF ChatArray, Chat!Connected
<1>1. CASE Chat!Register
  <2>1. cur \in Clients /\ arrLen' = arrLen + 1 /\ arrLen < Cap
    BY <1>0, <1>1 DEF Chat!Register, ChatTypes
  <2>2. hpc[cur] = "none"
    BY <2>1 DEF ChatPlaces
  <2>3. Chat!Connected' = Chat!Connected \cup {cur} /\ cur \notin Chat!Connected
    BY <1>1, <1>h, <2>1, <2>2 DEF Chat!Register, Chat!Connected, HandlerPlaces
  <2>4. arr'[arrLen + 1] = cur /\ \A i \in 1 .. arrLen : arr'[i] = arr[i]
    <3>1. arr \in [1 .. Cap -> Clients \cup {Chat!Free}] /\ arrLen + 1 \in 1 .. Cap
          /\ arr' = [arr EXCEPT ![arrLen + 1] = cur]
      BY <1>0, <1>1, <2>1 DEF Chat!Register, ChatTypes
    <3> QED BY <1>0, <3>1
  <2>5. \A i \in 1 .. arrLen' : i = arrLen + 1 \/ i \in 1 .. arrLen
    BY <1>0, <2>1
  <2>6. arrLen + 1 \in 1 .. arrLen' /\ \A i \in 1 .. arrLen : i \in 1 .. arrLen'
    BY <1>0, <2>1
  <2>7. \A i \in 1 .. arrLen : arr[i] # cur
    BY <2>3 DEF ChatArray
  <2> QED BY <2>3, <2>4, <2>5, <2>6, <2>7 DEF ChatArray
<1>2. ASSUME NEW h \in Clients, Chat!Remove(h) PROVE ChatArray'
  <2>1. h \in Chat!Connected /\ Chat!Connected' = Chat!Connected \ {h}
    BY <1>2, <1>h DEF Chat!Remove, Chat!Connected, HandlerPlaces
  <2> DEFINE p == CHOOSE j \in 1 .. arrLen : arr[j] = h
  <2>2. p \in 1 .. arrLen /\ arr[p] = h
    BY <2>1 DEF ChatArray
  <2>3. arr' = [j \in 1 .. Cap |-> IF j >= p /\ j < arrLen THEN arr[j + 1] ELSE arr[j]]
    BY <1>2 DEF Chat!Remove, Chat!Without
  <2> HIDE DEF p
  <2>4. arrLen' = arrLen - 1 /\ arrLen \in Nat /\ p \in Nat
    BY <1>0, <1>2, <2>2 DEF Chat!Remove
  <2>5. \A j \in 1 .. arrLen' : arr'[j] = IF j >= p THEN arr[j + 1] ELSE arr[j]
    BY <1>0, <2>3, <2>4
  <2> DEFINE o(j) == IF j >= p THEN j + 1 ELSE j
  <2>6. \A j \in 1 .. arrLen' : o(j) \in 1 .. arrLen /\ o(j) # p /\ arr'[j] = arr[o(j)]
    BY <1>0, <2>4, <2>5
  <2>7. \A j, k \in 1 .. arrLen' : o(j) = o(k) => j = k
    BY <1>0, <2>4
  <2>8. \A i \in 1 .. arrLen : i # p => \E j \in 1 .. arrLen' : o(j) = i
    <3> SUFFICES ASSUME NEW i \in 1 .. arrLen, i # p PROVE \E j \in 1 .. arrLen' : o(j) = i
      OBVIOUS
    <3>1. CASE i < p
      <4>1. i \in 1 .. arrLen' /\ o(i) = i
        BY <1>0, <2>2, <2>4, <3>1
      <4> QED BY <4>1
    <3>2. CASE i > p
      <4>1. i - 1 \in 1 .. arrLen' /\ o(i - 1) = i
        BY <1>0, <2>2, <2>4, <3>2
      <4> QED BY <4>1
    <3> QED BY <2>4, <3>1, <3>2
  <2> HIDE DEF o
  <2>9. \A j \in 1 .. arrLen' : arr'[j] \in Chat!Connected'
    <3> SUFFICES ASSUME NEW j \in 1 .. arrLen' PROVE arr'[j] \in Chat!Connected'
      OBVIOUS
    <3>1. arr[o(j)] \in Chat!Connected /\ arr[o(j)] # h
      BY <2>2, <2>6 DEF ChatArray
    <3> QED BY <2>1, <2>6, <3>1
  <2>10. \A j, k \in 1 .. arrLen' : arr'[j] = arr'[k] => j = k
    <3> SUFFICES ASSUME NEW j \in 1 .. arrLen', NEW k \in 1 .. arrLen', arr'[j] = arr'[k] PROVE j = k
      OBVIOUS
    <3>1. o(j) = o(k)
      BY <2>6 DEF ChatArray
    <3> QED BY <2>7, <3>1
  <2>11. \A c \in Chat!Connected' : \E j \in 1 .. arrLen' : arr'[j] = c
    <3> SUFFICES ASSUME NEW c \in Chat!Connected' PROVE \E j \in 1 .. arrLen' : arr'[j] = c
      OBVIOUS
    <3>1. PICK i \in 1 .. arrLen : arr[i] = c
      BY <2>1 DEF ChatArray
    <3>2. i # p
      BY <2>1, <2>2, <3>1
    <3>3. PICK j \in 1 .. arrLen' : o(j) = i
      BY <2>8, <3>2
    <3> QED BY <2>6, <3>1, <3>3
  <2> QED BY <2>9, <2>10, <2>11 DEF ChatArray
<1>3. ASSUME UNCHANGED <<arr, arrLen>>, Chat!Connected' = Chat!Connected PROVE ChatArray'
  BY <1>3 DEF ChatArray
<1>4. ASSUME NEW h \in Clients, Chat!HandlerRead(h) \/ Chat!HandlerReadErr(h) \/ Chat!Lock(h) \/ Chat!Write(h) \/ Chat!Unlock(h)
      PROVE  ChatArray'
  <2>1. UNCHANGED <<arr, arrLen>>
    BY <1>4 DEF Chat!HandlerRead, Chat!HandlerReadErr, Chat!Lock, Chat!Write, Chat!Unlock
  <2>2. \/ hpc' = hpc
        \/ \E l \in {"read", "lock", "broadcast", "remove"} : hpc' = [hpc EXCEPT ![h] = l]
    BY <1>4 DEF Chat!HandlerRead, Chat!HandlerReadErr, Chat!Lock, Chat!Write, Chat!Unlock
  <2>3. hpc[h] \in {"read", "lock", "broadcast", "remove"}
    BY <1>4 DEF Chat!HandlerRead, Chat!HandlerReadErr, Chat!Lock, Chat!Write, Chat!Unlock
  <2>4. Chat!Connected' = Chat!Connected
    BY <1>h, <2>2, <2>3 DEF Chat!Connected
  <2> QED BY <1>3, <2>1, <2>4
<1>5. ASSUME UNCHANGED <<arr, arrLen, hpc>> PROVE ChatArray'
  BY <1>3, <1>5 DEF Chat!Connected
<1>6. CASE Chat!Panic \/ Chat!AcceptErr
  BY <1>5, <1>6 DEF Chat!Panic, Chat!AcceptErr
<1>7. ASSUME NEW c \in Clients, Chat!Accept(c) PROVE ChatArray'
  BY <1>5, <1>7 DEF Chat!Accept
<1>8. ASSUME NEW c \in Clients, Chat!Dial(c) \/ Chat!SendMsg(c) \/ Chat!Quit(c) \/ Chat!RecvMsg(c) \/ Chat!RecvEnds(c)
      PROVE  ChatArray'
  BY <1>5, <1>8 DEF Chat!Dial, Chat!SendMsg, Chat!Quit, Chat!RecvMsg, Chat!RecvEnds, Chat!serverVars
<1> QED BY <1>1, <1>2, <1>4, <1>6, <1>7, <1>8 DEF Chat!Next, Chat!Main, Chat!Handler

\* An entry whose stream and the broadcasts before it are left alone.
LEMMA StreamKept ==
  ASSUME NEW i, NEW j, ChatStream(i), arr'[j] = arr[i], Reach(j)' = Reach(i), log' = log,
         cst'[arr[i]] = "open" => cst[arr[i]] = "open",
         from'[arr[i]] = from[arr[i]], got'[arr[i]] = got[arr[i]], s2c'[arr[i]] = s2c[arr[i]]
  PROVE  ChatStream(j)'
BY DEF ChatStream

\* A place behind the first a of a + b is one of the last b.
LEMMA Behind ==
  ASSUME NEW a \in Nat, NEW b \in Nat, NEW k \in 1 .. a + b, k \notin 1 .. a
  PROVE  \E j \in 1 .. b : k = a + j
<1>1. k - a \in 1 .. b /\ k = a + (k - a)
  OBVIOUS
<1> QED BY <1>1

LEMMA ChatStreamsNext ==
  ASSUME Chat!SizesAssumption, ChatTypes, ChatPlaces, ChatArray, ChatStreams, Chat!Next PROVE ChatStreams'
<1>0. /\ Cap \in Nat \ {0} /\ BufSize \in Nat \ {0} /\ Chat!Free \notin Clients /\ arrLen \in 0 .. Cap
      /\ log \in Seq(Bytes) /\ Len(log) \in Nat
  BY DEF Chat!SizesAssumption, ChatTypes
<1>f. \A i \in 1 .. arrLen : arr[i] \in Clients /\ hpc[arr[i]] # "none"
  BY DEF ChatArray, Chat!Connected
<1>t. \A c \in Clients : /\ buf[c] \in Seq(Bytes) /\ s2c[c] \in Seq(Bytes) /\ got[c] \in Seq(Bytes)
                         /\ Len(buf[c]) \in Nat /\ Len(s2c[c]) \in Nat /\ Len(got[c]) \in Nat
                         /\ idx[c] \in Nat \ {0} /\ from[c] \in Nat
  <2>1. \A c \in Clients : buf[c] \in Seq(Bytes) /\ s2c[c] \in Seq(Bytes) /\ got[c] \in Seq(Bytes)
    BY DEF ChatTypes
  <2>2. \A c \in Clients : idx[c] \in Nat \ {0} /\ from[c] \in Nat
    BY DEF ChatTypes
  <2>3. \A t \in Seq(Bytes) : Len(t) \in Nat
    OBVIOUS
  <2> QED BY <2>1, <2>2, <2>3
<1>s. \A i \in 1 .. arrLen : ChatStream(i)
  BY DEF ChatStreams
<1>1. CASE Chat!Register
  <2>1. cur \in Clients /\ arrLen' = arrLen + 1 /\ arrLen < Cap /\ mut = Chat!Free /\ mut' = Chat!Free /\ log' = log
        /\ UNCHANGED <<got, s2c, cst, buf, idx>>
    BY <1>0, <1>1 DEF Chat!Register, ChatTypes, Chat!clientVars
  <2>2. hpc[cur] = "none" /\ s2c[cur] = <<>> /\ got[cur] = <<>>
    BY <2>1 DEF ChatPlaces
  <2>3. arr'[arrLen + 1] = cur /\ \A i \in 1 .. arrLen : arr'[i] = arr[i]
    <3>1. arr \in [1 .. Cap -> Clients \cup {Chat!Free}] /\ arrLen + 1 \in 1 .. Cap
          /\ arr' = [arr EXCEPT ![arrLen + 1] = cur]
      BY <1>0, <1>1, <2>1 DEF Chat!Register, ChatTypes
    <3> QED BY <1>0, <3>1
  <2>4. from'[cur] = Len(log) /\ \A c \in Clients : c # cur => from'[c] = from[c]
    BY <1>1, <2>1 DEF Chat!Register, ChatTypes
  <2>5. \A i : Reach(i)' = Len(log) /\ Reach(i) = Len(log)
    BY <2>1 DEF Reach
  <2>6. ASSUME NEW i \in 1 .. arrLen PROVE ChatStream(i)'
    <3>1. arr[i] # cur
      BY <1>f, <2>2
    <3> QED BY <1>f, <1>s, <2>1, <2>3, <2>4, <2>5, <3>1, StreamKept
  <2>7. ASSUME NEW i, i = arrLen + 1 PROVE ChatStream(i)'
    <3>1. arr'[i] = cur /\ Len(<<>>) = 0
      BY <2>3, <2>7
    <3>2. from'[cur] + Len(got'[cur]) + Len(s2c'[cur]) = Len(log)
      BY <1>0, <2>1, <2>2, <2>4, <3>1
    <3>3. Len(got'[cur]) = 0 /\ Len(s2c'[cur]) = 0
      BY <2>1, <2>2, <3>1
    <3>4. from'[arr'[i]] + Len(got'[arr'[i]]) + Len(s2c'[arr'[i]]) = Reach(i)'
      BY <2>5, <3>1, <3>2
    <3> QED BY <3>1, <3>3, <3>4 DEF ChatStream
  <2>8. \A i \in 1 .. arrLen' : i = arrLen + 1 \/ i \in 1 .. arrLen
    BY <1>0, <2>1
  <2> QED BY <2>1, <2>6, <2>7, <2>8 DEF ChatStreams
<1>2. ASSUME NEW h \in Clients, Chat!Remove(h) PROVE ChatStreams'
  <2>1. h \in Chat!Connected /\ mut = Chat!Free /\ mut' = Chat!Free /\ log' = log /\ UNCHANGED <<got, s2c, cst, from>>
    BY <1>2 DEF Chat!Remove, Chat!Connected, Chat!clientVars
  <2> DEFINE p == CHOOSE j \in 1 .. arrLen : arr[j] = h
  <2>2. p \in 1 .. arrLen /\ arr[p] = h
    BY <2>1 DEF ChatArray
  <2>3. arr' = [j \in 1 .. Cap |-> IF j >= p /\ j < arrLen THEN arr[j + 1] ELSE arr[j]]
    BY <1>2 DEF Chat!Remove, Chat!Without
  <2> HIDE DEF p
  <2>4. arrLen' = arrLen - 1 /\ arrLen \in Nat /\ p \in Nat
    BY <1>0, <1>2, <2>2 DEF Chat!Remove
  <2>5. \A i : Reach(i)' = Len(log) /\ Reach(i) = Len(log)
    BY <2>1 DEF Reach
  <2>6. ASSUME NEW j \in 1 .. arrLen' PROVE ChatStream(j)'
    <3>1. PICK i \in 1 .. arrLen : arr'[j] = arr[i]
      BY <1>0, <2>3, <2>4
    <3> QED BY <1>s, <2>1, <2>5, <3>1, StreamKept
  <2> QED BY <2>1, <2>6 DEF ChatStreams
<1>3. ASSUME NEW h \in Clients, Chat!HandlerRead(h) PROVE ChatStreams'
  <2>1. mut # h /\ UNCHANGED <<arr, arrLen, mut, idx, log, from, s2c, got, cst>>
    BY <1>3 DEF Chat!HandlerRead, ChatPlaces, Chat!clientVars
  <2>2. \A c \in Clients : c # h => buf'[c] = buf[c]
    BY <1>3 DEF Chat!HandlerRead, ChatTypes
  <2>3. mut # Chat!Free => mut \in Clients /\ buf'[mut] = buf[mut]
    BY <2>1, <2>2 DEF ChatTypes
  <2>4. \A i : Reach(i)' = Reach(i)
    BY <2>1, <2>3 DEF Reach
  <2>5. \A i \in 1 .. arrLen : ChatStream(i)'
    BY <1>s, <2>1, <2>4, StreamKept
  <2> QED BY <2>1, <2>3, <2>5 DEF ChatStreams
<1>4. ASSUME NEW h \in Clients, Chat!Lock(h) PROVE ChatStreams'
  <2>1. mut = Chat!Free /\ mut' = h /\ h # Chat!Free /\ log' = log \o buf[h]
        /\ UNCHANGED <<arr, arrLen, buf, from, s2c, got, cst>>
    BY <1>0, <1>4 DEF Chat!Lock, Chat!clientVars
  <2>2. idx'[h] = 1
    BY <1>4 DEF Chat!Lock, ChatTypes
  <2>3. /\ Len(log') = Len(log) + Len(buf[h])
        /\ \A j \in 1 .. Len(log) : log'[j] = log[j]
        /\ \A j \in 1 .. Len(buf[h]) : log'[Len(log) + j] = buf[h][j]
    BY <1>0, <1>t, <2>1, JoinSeq
  <2>4. \A i \in 1 .. arrLen : Reach(i)' = Len(log) /\ Reach(i) = Len(log)
    BY <1>0, <1>t, <2>1, <2>2, <2>3 DEF Reach
  <2>5. ASSUME NEW i \in 1 .. arrLen PROVE ChatStream(i)'
    <3> DEFINE c == arr[i]
    <3> SUFFICES ASSUME cst[c] = "open"
                 PROVE  /\ from[c] + Len(got[c]) + Len(s2c[c]) = Len(log)
                        /\ \A k \in 1 .. Len(got[c]) : got[c][k] = log'[from[c] + k]
                        /\ \A k \in 1 .. Len(s2c[c]) : s2c[c][k] = log'[from[c] + Len(got[c]) + k]
      BY <2>1, <2>4 DEF ChatStream
    <3>1. /\ from[c] + Len(got[c]) + Len(s2c[c]) = Len(log)
          /\ \A k \in 1 .. Len(got[c]) : got[c][k] = log[from[c] + k]
          /\ \A k \in 1 .. Len(s2c[c]) : s2c[c][k] = log[from[c] + Len(got[c]) + k]
      BY <1>s, <2>4 DEF ChatStream
    <3>2. c \in Clients
      BY <1>f
    <3> HIDE DEF c
    <3>3. from[c] \in Nat /\ Len(got[c]) \in Nat /\ Len(s2c[c]) \in Nat
      BY <1>t, <3>2
    <3>4. \A k \in 1 .. Len(got[c]) : from[c] + k \in 1 .. Len(log)
      BY <1>0, <3>1, <3>3
    <3>5. \A k \in 1 .. Len(s2c[c]) : from[c] + Len(got[c]) + k \in 1 .. Len(log)
      BY <1>0, <3>1, <3>3
    <3> QED BY <2>3, <3>1, <3>4, <3>5
  <2>6. /\ Len(buf'[mut']) <= Len(log')
        /\ \A k \in 1 .. Len(buf'[mut']) : buf'[mut'][k] = log'[Len(log') - Len(buf'[mut']) + k]
    <3>1. Len(log') - Len(buf[h]) = Len(log) /\ Len(buf[h]) <= Len(log')
      BY <1>0, <1>t, <2>3
    <3> QED BY <2>1, <2>3, <3>1
  <2> QED BY <2>1, <2>5, <2>6 DEF ChatStreams
<1>5. ASSUME NEW h \in Clients, Chat!Write(h) PROVE ChatStreams'
  <2>1. mut = h /\ h # Chat!Free /\ idx[h] \in 1 .. arrLen
        /\ UNCHANGED <<arr, arrLen, mut, buf, log, from, got, cst>>
    BY <1>0, <1>5, <1>t DEF Chat!Write, Chat!clientVars, ChatPlaces
  <2>2. idx'[h] = idx[h] + 1
    BY <1>5 DEF Chat!Write, ChatTypes
  <2> PICK q \in 1 .. arrLen : q = idx[h]
    BY <2>1
  <2> PICK d : d = arr[q]
    OBVIOUS
  <2>3. d \in Clients
    BY <1>f, <2>1
  <2>20. s2c' = IF cst[d] = "open" THEN [s2c EXCEPT ![d] = @ \o buf[h]] ELSE s2c
    BY <1>5 DEF Chat!Write
  <2>4. ASSUME NEW i \in 1 .. arrLen, i # q PROVE ChatStream(i)'
    <3>1. arr[i] # d /\ arr[i] \in Clients
      BY <1>f, <2>1, <2>4 DEF ChatArray
    <3>2. s2c'[arr[i]] = s2c[arr[i]]
      BY <2>20, <3>1 DEF ChatTypes
    <3>3. i >= idx[h] + 1 <=> i >= idx[h]
      BY <1>0, <1>t, <2>4
    <3>4. Reach(i)' = Reach(i)
      BY <2>1, <2>2, <3>3 DEF Reach
    <3> QED BY <1>s, <2>1, <3>2, <3>4, StreamKept
  <2>5. ChatStream(q)'
    <3> SUFFICES ASSUME cst[d] = "open"
                 PROVE  /\ from[d] + Len(got[d]) + Len(s2c'[d]) = Len(log)
                        /\ \A k \in 1 .. Len(got[d]) : got[d][k] = log[from[d] + k]
                        /\ \A k \in 1 .. Len(s2c'[d]) : s2c'[d][k] = log[from[d] + Len(got[d]) + k]
      <4>1. Reach(q)' = Len(log)
        <5>1. ~(q >= idx[h] + 1)
          BY <1>t
        <5> QED BY <2>1, <2>2, <5>1 DEF Reach
      <4>2. arr'[q] = d
        BY <2>1
      <4> QED BY <2>1, <4>1, <4>2 DEF ChatStream
    <3>1. Reach(q) = Len(log) - Len(buf[h])
      <4>1. q >= idx[h]
        BY <1>t
      <4> QED BY <2>1, <4>1 DEF Reach
    <3>2. /\ from[d] + Len(got[d]) + Len(s2c[d]) = Len(log) - Len(buf[h])
          /\ \A k \in 1 .. Len(got[d]) : got[d][k] = log[from[d] + k]
          /\ \A k \in 1 .. Len(s2c[d]) : s2c[d][k] = log[from[d] + Len(got[d]) + k]
      BY <1>s, <2>1, <3>1 DEF ChatStream
    <3>3. s2c'[d] = s2c[d] \o buf[h]
      BY <2>3, <2>20 DEF ChatTypes
    <3>4. /\ Len(s2c'[d]) = Len(s2c[d]) + Len(buf[h])
          /\ \A j \in 1 .. Len(s2c[d]) : s2c'[d][j] = s2c[d][j]
          /\ \A j \in 1 .. Len(buf[h]) : s2c'[d][Len(s2c[d]) + j] = buf[h][j]
      <4>1. s2c[d] \in Seq(Bytes) /\ buf[h] \in Seq(Bytes)
        BY <1>t, <2>3
      <4> PICK u, v, w : u = s2c[d] /\ v = buf[h] /\ w = s2c'[d]
        OBVIOUS
      <4>2. u \in Seq(Bytes) /\ v \in Seq(Bytes) /\ w = u \o v
        BY <3>3, <4>1
      <4>3. /\ Len(w) = Len(u) + Len(v)
            /\ \A j \in 1 .. Len(u) : w[j] = u[j]
            /\ \A j \in 1 .. Len(v) : w[Len(u) + j] = v[j]
        BY ONLY <4>2, JoinSeq
      <4> QED BY <4>3
    <3>5. /\ Len(buf[h]) <= Len(log)
          /\ \A k \in 1 .. Len(buf[h]) : buf[h][k] = log[Len(log) - Len(buf[h]) + k]
      BY <2>1 DEF ChatStreams
    <3>6. from[d] \in Nat /\ Len(got[d]) \in Nat /\ Len(s2c[d]) \in Nat /\ Len(buf[h]) \in Nat
      BY <1>t, <2>3
    <3>60. Len(s2c'[d]) = Len(s2c[d]) + Len(buf[h]) /\ from[d] + Len(got[d]) + Len(s2c[d]) = Len(log) - Len(buf[h])
      BY <3>2, <3>4
    <3> PICK f, g, a, b, l : f = from[d] /\ g = Len(got[d]) /\ a = Len(s2c[d]) /\ b = Len(buf[h]) /\ l = Len(log)
      OBVIOUS
    <3>61. f \in Nat /\ g \in Nat /\ a \in Nat /\ b \in Nat /\ l \in Nat
      BY <1>0, <3>6
    <3>62. Len(s2c'[d]) = a + b /\ f + g + a = l - b
      BY <3>60
    <3>7. ASSUME NEW k \in 1 .. a + b PROVE s2c'[d][k] = log[f + g + k]
      <4>1. CASE k \in 1 .. a
        BY <3>2, <3>4, <4>1
      <4>2. CASE k \notin 1 .. a
        <5>1. PICK j \in 1 .. b : k = a + j
          BY ONLY <3>61, <3>7, <4>2, Behind
        <5>2. f + g + k = l - b + j
          BY ONLY <3>61, <3>62, <5>1
        <5>3. s2c'[d][k] = buf[h][j]
          BY <3>4, <5>1
        <5>4. buf[h][j] = log[l - b + j]
          BY <3>5, <5>1
        <5> QED BY ONLY <5>2, <5>3, <5>4
      <4> QED BY <4>1, <4>2
    <3>8. f + g + (a + b) = l
      BY ONLY <3>61, <3>62
    <3>9. f + g + Len(s2c'[d]) = l
      BY ONLY <3>62, <3>8
    <3>10. \A k \in 1 .. Len(s2c'[d]) : s2c'[d][k] = log[f + g + k]
      BY <3>7, <3>62
    <3> QED BY <3>2, <3>9, <3>10
  <2> QED BY <2>1, <2>4, <2>5 DEF ChatStreams
<1>6. ASSUME NEW h \in Clients, Chat!Unlock(h) PROVE ChatStreams'
  <2>1. mut = h /\ h # Chat!Free /\ idx[h] > arrLen /\ mut' = Chat!Free
        /\ UNCHANGED <<arr, arrLen, log, from, s2c, got, cst>>
    BY <1>0, <1>6 DEF Chat!Unlock, Chat!clientVars, ChatPlaces
  <2>2. \A i \in 1 .. arrLen : Reach(i) = Len(log) /\ Reach(i)' = Len(log)
    BY <1>0, <1>t, <2>1 DEF Reach
  <2>3. \A i \in 1 .. arrLen : ChatStream(i)'
    BY <1>s, <2>1, <2>2, StreamKept
  <2> QED BY <2>1, <2>3 DEF ChatStreams
<1>7. ASSUME NEW c \in Clients, Chat!RecvMsg(c) PROVE ChatStreams'
  <2>1. UNCHANGED <<arr, arrLen, mut, buf, idx, log, from, cst>>
    BY <1>7 DEF Chat!RecvMsg, Chat!serverVars
  <2>2. \A i : Reach(i)' = Reach(i)
    BY <2>1 DEF Reach
  <2> PICK k \in 1 .. BufSize :
         /\ k <= Len(s2c[c])
         /\ got' = [got EXCEPT ![c] = @ \o SubSeq(s2c[c], 1, k)]
         /\ s2c' = [s2c EXCEPT ![c] = SubSeq(@, k + 1, Len(@))]
    BY <1>7 DEF Chat!RecvMsg
  <2>3. got'[c] = got[c] \o SubSeq(s2c[c], 1, k) /\ s2c'[c] = SubSeq(s2c[c], k + 1, Len(s2c[c]))
        /\ \A e \in Clients : e # c => got'[e] = got[e] /\ s2c'[e] = s2c[e]
    BY DEF ChatTypes
  <2>4. k \in 0 .. Len(s2c[c]) /\ k \in Nat
    BY <1>0, <1>t
  <2>5. /\ SubSeq(s2c[c], 1, k) \in Seq(Bytes) /\ Len(SubSeq(s2c[c], 1, k)) = k
        /\ \A j \in 1 .. k : SubSeq(s2c[c], 1, k)[j] = s2c[c][j]
        /\ Len(s2c'[c]) = Len(s2c[c]) - k
        /\ \A j \in 1 .. Len(s2c[c]) - k : s2c'[c][j] = s2c[c][k + j]
    BY <1>t, <2>3, <2>4, CutSeq
  <2>6. /\ Len(got'[c]) = Len(got[c]) + k
        /\ \A j \in 1 .. Len(got[c]) : got'[c][j] = got[c][j]
        /\ \A j \in 1 .. k : got'[c][Len(got[c]) + j] = s2c[c][j]
    <3>1. got[c] \in Seq(Bytes)
      BY <1>t
    <3>2. SubSeq(s2c[c], 1, k) \in Seq(Bytes) /\ Len(SubSeq(s2c[c], 1, k)) = k
          /\ \A j \in 1 .. k : SubSeq(s2c[c], 1, k)[j] = s2c[c][j]
      BY <2>5
    <3>3. PICK u : u = SubSeq(s2c[c], 1, k)
      OBVIOUS
    <3>4. got'[c] = got[c] \o u /\ u \in Seq(Bytes) /\ Len(u) = k /\ \A j \in 1 .. k : u[j] = s2c[c][j]
      BY <2>3, <3>2, <3>3
    <3> PICK g : g = got[c]
      OBVIOUS
    <3>50. g \in Seq(Bytes) /\ u \in Seq(Bytes)
      BY <3>1, <3>4
    <3>5. /\ Len(g \o u) = Len(g) + Len(u)
          /\ \A j \in 1 .. Len(g) : (g \o u)[j] = g[j]
          /\ \A j \in 1 .. Len(u) : (g \o u)[Len(g) + j] = u[j]
      BY ONLY <3>50, JoinSeq
    <3> QED BY <3>4, <3>5
  <2>7. ASSUME NEW i \in 1 .. arrLen PROVE ChatStream(i)'
    <3>1. CASE arr[i] # c
      BY <1>f, <1>s, <2>1, <2>2, <2>3, <3>1, StreamKept
    <3>2. CASE arr[i] = c
      <4> SUFFICES ASSUME cst[c] = "open"
                   PROVE  /\ from[c] + Len(got'[c]) + Len(s2c'[c]) = Reach(i)
                          /\ \A j \in 1 .. Len(got'[c]) : got'[c][j] = log[from[c] + j]
                          /\ \A j \in 1 .. Len(s2c'[c]) : s2c'[c][j] = log[from[c] + Len(got'[c]) + j]
        BY <2>1, <2>2, <3>2 DEF ChatStream
      <4>1. /\ from[c] + Len(got[c]) + Len(s2c[c]) = Reach(i)
            /\ \A j \in 1 .. Len(got[c]) : got[c][j] = log[from[c] + j]
            /\ \A j \in 1 .. Len(s2c[c]) : s2c[c][j] = log[from[c] + Len(got[c]) + j]
        BY <1>s, <3>2 DEF ChatStream
      <4>2. from[c] \in Nat /\ Len(got[c]) \in Nat /\ Len(s2c[c]) \in Nat
        BY <1>t
      <4>3. ASSUME NEW j \in 1 .. Len(got'[c]) PROVE got'[c][j] = log[from[c] + j]
        <5>1. CASE j \in 1 .. Len(got[c])
          BY <2>6, <4>1, <5>1
        <5>2. CASE j \notin 1 .. Len(got[c])
          <6>1. PICK m \in 1 .. k : j = Len(got[c]) + m
            <7>1. j - Len(got[c]) \in 1 .. k /\ j = Len(got[c]) + (j - Len(got[c]))
              BY <2>4, <2>6, <4>2, <4>3, <5>2
            <7> QED BY <7>1
          <6>2. m \in 1 .. Len(s2c[c]) /\ from[c] + j = from[c] + Len(got[c]) + m
            BY <2>4, <4>2, <6>1
          <6> QED BY <2>6, <4>1, <6>1, <6>2
        <5> QED BY <5>1, <5>2
      <4>4. ASSUME NEW j \in 1 .. Len(s2c'[c]) PROVE s2c'[c][j] = log[from[c] + Len(got'[c]) + j]
        <5>1. k + j \in 1 .. Len(s2c[c]) /\ j \in 1 .. Len(s2c[c]) - k
              /\ from[c] + Len(got'[c]) + j = from[c] + Len(got[c]) + (k + j)
          <6>1. Len(got'[c]) = Len(got[c]) + k /\ Len(s2c'[c]) = Len(s2c[c]) - k
            BY <2>5, <2>6
          <6>2. j \in 1 .. Len(s2c[c]) - k
            BY <6>1
          <6>3. k \in Nat /\ j \in Nat /\ Len(s2c[c]) - k \in Int
            BY <2>4, <4>2, <6>2
          <6>4. k + j \in 1 .. Len(s2c[c])
            BY <4>2, <6>2, <6>3
          <6>5. from[c] + (Len(got[c]) + k) + j = from[c] + Len(got[c]) + (k + j)
            BY <4>2, <6>3
          <6> QED BY <6>1, <6>2, <6>4, <6>5
        <5> QED BY <2>5, <4>1, <5>1
      <4>5. from[c] + Len(got'[c]) + Len(s2c'[c]) = from[c] + Len(got[c]) + Len(s2c[c])
        <5>1. Len(got'[c]) = Len(got[c]) + k /\ Len(s2c'[c]) = Len(s2c[c]) - k
          BY <2>5, <2>6
        <5>2. k \in Nat
          BY <2>4, <4>2
        <5>3. \A a, b, d, e \in Nat : a + (b + e) + (d - e) = a + b + d
          OBVIOUS
        <5>4. from[c] + (Len(got[c]) + k) + (Len(s2c[c]) - k) = from[c] + Len(got[c]) + Len(s2c[c])
          BY ONLY <4>2, <5>2, <5>3
        <5> QED BY ONLY <5>1, <5>4
      <4> QED BY <4>1, <4>3, <4>4, <4>5
    <3> QED BY <3>1, <3>2
  <2> QED BY <2>1, <2>7 DEF ChatStreams
<1>8. ASSUME NEW c \in Clients, Chat!Quit(c) PROVE ChatStreams'
  <2>1. UNCHANGED <<arr, arrLen, mut, buf, idx, log, from, got>>
    BY <1>8 DEF Chat!Quit, Chat!serverVars
  <2>2. \A i : Reach(i)' = Reach(i)
    BY <2>1 DEF Reach
  <2>3. cst'[c] # "open" /\ \A e \in Clients : e # c => cst'[e] = cst[e] /\ s2c'[e] = s2c[e]
    BY <1>8 DEF Chat!Quit, ChatTypes
  <2>4. ASSUME NEW i \in 1 .. arrLen PROVE ChatStream(i)'
    <3>1. CASE arr[i] = c
      BY <2>1, <2>3, <3>1 DEF ChatStream
    <3>2. CASE arr[i] # c
      BY <1>f, <1>s, <2>1, <2>2, <2>3, <3>2, StreamKept
    <3> QED BY <3>1, <3>2
  <2> QED BY <2>1, <2>4 DEF ChatStreams
<1>9. ASSUME NEW c \in Clients, Chat!Dial(c) PROVE ChatStreams'
  <2>1. UNCHANGED <<arr, arrLen, mut, buf, idx, log, from, got, s2c>>
    BY <1>9 DEF Chat!Dial
  <2>2. \A i : Reach(i)' = Reach(i)
    BY <2>1 DEF Reach
  <2>3. cst[c] = "new" /\ \A e \in Clients : e # c => cst'[e] = cst[e]
    BY <1>9 DEF Chat!Dial, ChatTypes
  <2>4. ASSUME NEW i \in 1 .. arrLen PROVE ChatStream(i)'
    <3>1. arr[i] # c
      BY <1>f, <2>3 DEF ChatPlaces
    <3> QED BY <1>f, <1>s, <2>1, <2>2, <2>3, <3>1, StreamKept
  <2> QED BY <2>1, <2>4 DEF ChatStreams
<1>10. ASSUME UNCHANGED <<arr, arrLen, mut, buf, idx, log, from, got, s2c, cst>> PROVE ChatStreams'
  <2>1. \A i : Reach(i)' = Reach(i)
    BY <1>10 DEF Reach
  <2>2. \A i \in 1 .. arrLen : ChatStream(i)'
    BY <1>s, <1>10, <2>1, StreamKept
  <2> QED BY <1>10, <2>2 DEF ChatStreams
<1>11. CASE Chat!Panic \/ Chat!AcceptErr
  BY <1>10, <1>11 DEF Chat!Panic, Chat!AcceptErr, Chat!clientVars
<1>12. ASSUME NEW c \in Clients, Chat!Accept(c) \/ Chat!HandlerReadErr(c) \/ Chat!SendMsg(c) \/ Chat!RecvEnds(c) PROVE ChatStreams'
  BY <1>10, <1>12 DEF Chat!Accept, Chat!HandlerReadErr, Chat!SendMsg, Chat!RecvEnds, Chat!clientVars, Chat!serverVars
<1> QED BY <1>1, <1>2, <1>3, <1>4, <1>5, <1>6, <1>7, <1>8, <1>9, <1>11, <1>12 DEF Chat!Next, Chat!Main, Chat!Handler

\* A client whose bytes are left alone.
LEMMA SenderKept ==
  ASSUME NEW c \in Clients, \E n \in Nat : Broadcast(c, n) /\ Ahead(c, n), log' = log,
         hpc'[c] = "lock" <=> hpc[c] = "lock", hpc[c] = "lock" => buf'[c] = buf[c],
         c2s'[c] = c2s[c], sent'[c] = sent[c], up' /\ cst'[c] \in {"new", "open"} => up /\ cst[c] \in {"new", "open"}
  PROVE  \E n \in Nat : (Broadcast(c, n) /\ Ahead(c, n))'
<1>1. PICK n \in Nat : Broadcast(c, n) /\ Ahead(c, n)
  OBVIOUS
<1>2. Broadcast(c, n)'
  BY <1>1 DEF Broadcast
<1>3. Held(c)' = Held(c)
  BY DEF Held
<1>4. Ahead(c, n)'
  BY <1>1, <1>3 DEF Ahead
<1> QED BY <1>2, <1>4

LEMMA ChatSendersNext ==
  ASSUME Chat!SizesAssumption, ChatTypes, ChatPlaces, ChatArray, ChatSenders, Chat!Next PROVE ChatSenders'
<1>0. /\ BufSize \in Nat \ {0} /\ Chat!Free \notin Clients /\ MaxSend \in Nat
      /\ log \in Seq(Bytes) /\ Len(log) \in Nat
  BY DEF Chat!SizesAssumption, ChatTypes
<1>t. \A c \in Clients : /\ buf[c] \in Seq(Bytes) /\ c2s[c] \in Seq(Bytes)
                         /\ Len(buf[c]) \in Nat /\ Len(c2s[c]) \in Nat /\ sent[c] \in Nat
  <2>1. \A c \in Clients : buf[c] \in Seq(Bytes) /\ c2s[c] \in Seq(Bytes)
    BY DEF ChatTypes
  <2>2. \A c \in Clients : sent[c] \in Nat
    BY <1>0 DEF ChatTypes
  <2>3. \A t \in Seq(Bytes) : Len(t) \in Nat
    OBVIOUS
  <2> QED BY <2>1, <2>2, <2>3
<1>s. \A c \in Clients : \E n \in Nat : Broadcast(c, n) /\ Ahead(c, n)
  BY DEF ChatSenders
<1>k. ASSUME log' = log,
             \A c \in Clients :
                /\ hpc'[c] = "lock" <=> hpc[c] = "lock"
                /\ hpc[c] = "lock" => buf'[c] = buf[c]
                /\ c2s'[c] = c2s[c] /\ sent'[c] = sent[c]
                /\ up' /\ cst'[c] \in {"new", "open"} => up /\ cst[c] \in {"new", "open"}
      PROVE  ChatSenders'
  BY <1>s, <1>k, SenderKept DEF ChatSenders
<1>1. CASE Chat!Register
  <2>1. \A c \in Clients : hpc'[c] = "lock" <=> hpc[c] = "lock"
    <3>1. cur \in Clients /\ hpc' = [hpc EXCEPT ![cur] = "read"]
      BY <1>1 DEF Chat!Register, ChatTypes
    <3>2. hpc[cur] = "none"
      BY <3>1 DEF ChatPlaces
    <3> QED BY <3>1, <3>2 DEF ChatTypes
  <2> QED BY <1>1, <1>k, <2>1 DEF Chat!Register, Chat!clientVars
<1>2. CASE Chat!Panic \/ Chat!AcceptErr
  BY <1>2, <1>k DEF Chat!Panic, Chat!AcceptErr, Chat!clientVars
<1>3. ASSUME NEW h \in Clients, Chat!HandlerRead(h) PROVE ChatSenders'
  <2>1. hpc[h] = "read" /\ hpc' = [hpc EXCEPT ![h] = "lock"] /\ UNCHANGED <<up, log, cst, sent>>
    BY <1>3 DEF Chat!HandlerRead, Chat!clientVars
  <2>2. PICK k \in 1 .. BufSize :
           /\ k <= Len(c2s[h])
           /\ buf' = [buf EXCEPT ![h] = SubSeq(c2s[h], 1, k)]
           /\ c2s' = [c2s EXCEPT ![h] = SubSeq(@, k + 1, Len(@))]
    BY <1>3 DEF Chat!HandlerRead
  <2>3. buf'[h] = SubSeq(c2s[h], 1, k) /\ c2s'[h] = SubSeq(c2s[h], k + 1, Len(c2s[h])) /\ hpc'[h] = "lock"
        /\ \A e \in Clients : e # h => buf'[e] = buf[e] /\ c2s'[e] = c2s[e] /\ hpc'[e] = hpc[e]
    BY <2>1, <2>2 DEF ChatTypes
  <2>4. PICK n \in Nat : Broadcast(h, n) /\ Ahead(h, n)
    BY <1>s
  <2> PICK u, a, s : u = c2s[h] /\ a = Len(c2s[h]) /\ s = sent[h]
    OBVIOUS
  <2>5. u \in Seq(Bytes) /\ a \in Nat /\ s \in Nat /\ k \in 0 .. a /\ k \in Nat /\ a = Len(u)
    BY <1>0, <1>t, <2>2
  <2>6. /\ Len(buf'[h]) = k
        /\ \A j \in 1 .. k : buf'[h][j] = u[j]
        /\ Len(c2s'[h]) = a - k
        /\ \A j \in 1 .. a - k : c2s'[h][j] = u[k + j]
    BY <2>3, <2>5, CutSeq
  <2>7. /\ n + a <= s /\ (up /\ cst[h] \in {"new", "open"} => n + a = s)
        /\ \A j \in 1 .. a : u[j] = <<h, n + j>>
    <3>1. Held(h) = 0 /\ n + 0 = n
      BY <2>1 DEF Held
    <3>2. /\ n + 0 + a <= s /\ (up /\ cst[h] \in {"new", "open"} => n + 0 + a = s)
          /\ \A j \in 1 .. a : u[j] = <<h, n + 0 + j>>
      BY <2>4, <3>1 DEF Ahead
    <3> QED BY <3>1, <3>2
  <2>8. Held(h)' = k
    BY <2>3, <2>6 DEF Held
  <2>9. n + k + (a - k) = n + a /\ \A j \in 1 .. a - k : n + k + j = n + (k + j) /\ k + j \in 1 .. a
    BY ONLY <2>5
  <2>10. n + Held(h)' + Len(c2s'[h]) = n + a
    BY <2>6, <2>8, <2>9
  <2>11. \A j \in 1 .. k : buf'[h][j] = <<h, n + j>>
    BY <2>5, <2>6, <2>7
  <2>12. \A j \in 1 .. a - k : c2s'[h][j] = <<h, n + k + j>>
    BY <2>6, <2>7, <2>9
  <2>13. Broadcast(h, n)'
    BY <2>1, <2>4 DEF Broadcast
  <2>14. Ahead(h, n)'
    BY <2>1, <2>6, <2>7, <2>8, <2>10, <2>11, <2>12 DEF Ahead
  <2>15. ASSUME NEW e \in Clients, e # h PROVE \E m \in Nat : (Broadcast(e, m) /\ Ahead(e, m))'
    BY <1>s, <2>1, <2>3, <2>15, SenderKept
  <2> QED BY <2>13, <2>14, <2>15 DEF ChatSenders
<1>4. ASSUME NEW h \in Clients, Chat!Lock(h) PROVE ChatSenders'
  <2>1. hpc[h] = "lock" /\ log' = log \o buf[h] /\ UNCHANGED <<up, buf, c2s, cst, sent>>
    BY <1>4 DEF Chat!Lock, Chat!clientVars
  <2>2. hpc'[h] = "broadcast" /\ \A e \in Clients : e # h => hpc'[e] = hpc[e]
    BY <1>4 DEF Chat!Lock, ChatTypes
  <2>3. PICK n \in Nat : Broadcast(h, n) /\ Ahead(h, n)
    BY <1>s
  <2>4. PICK u, b, l : u = buf[h] /\ b = Len(buf[h]) /\ l = Len(log)
    OBVIOUS
  <2>5. u \in Seq(Bytes) /\ b \in Nat /\ b = Len(u) /\ l \in Nat
    BY <1>0, <1>t, <2>4
  <2>6. /\ Len(log') = l + b
        /\ \A j \in 1 .. l : log'[j] = log[j]
        /\ \A j \in 1 .. b : log'[l + j] = u[j]
    BY <1>0, <2>1, <2>4, <2>5, JoinSeq
  <2>7. \A j \in 1 .. b : u[j] = <<h, n + j>>
    BY <2>1, <2>3, <2>4 DEF Ahead
  <2>8. \A i \in 1 .. l + b : i \in 1 .. l \/ \E j \in 1 .. b : i = l + j
    BY <2>5, Behind
  <2>9. \A i \in 1 .. l + b : \/ i \in 1 .. l /\ log'[i] = log[i]
                             \/ \E j \in 1 .. b : i = l + j /\ log'[i] = <<h, n + j>>
    BY <2>6, <2>7, <2>8
  <2>10. ASSUME NEW e \in Clients, e # h PROVE \E m \in Nat : (Broadcast(e, m) /\ Ahead(e, m))'
    <3>1. PICK m \in Nat : Broadcast(e, m) /\ Ahead(e, m)
      BY <1>s
    <3>2. \A i \in 1 .. l + b : log'[i][1] = e => i \in 1 .. l /\ log'[i] = log[i]
      BY <2>9, <2>10
    <3>3. \A i \in 1 .. l + b : log'[i][1] = e => log'[i][2] \in 1 .. m
      BY <2>4, <3>1, <3>2 DEF Broadcast
    <3>4. \A k \in 1 .. m : \E i \in 1 .. l + b : log'[i] = <<e, k>>
      <4> SUFFICES ASSUME NEW k \in 1 .. m PROVE \E i \in 1 .. l + b : log'[i] = <<e, k>>
        OBVIOUS
      <4>1. PICK i \in 1 .. l : log[i] = <<e, k>>
        BY <2>4, <3>1 DEF Broadcast
      <4>2. i \in 1 .. l + b
        BY <2>5
      <4> QED BY <2>6, <4>1, <4>2
    <3>5. \A i, j \in 1 .. l + b : log'[i][1] = e /\ log'[j][1] = e /\ i < j => log'[i][2] < log'[j][2]
      <4> SUFFICES ASSUME NEW i \in 1 .. l + b, NEW j \in 1 .. l + b, log'[i][1] = e, log'[j][1] = e, i < j
                   PROVE  log'[i][2] < log'[j][2]
        OBVIOUS
      <4>1. \A o, p \in 1 .. l : log[o][1] = e /\ log[p][1] = e /\ o < p => log[o][2] < log[p][2]
        BY <2>4, <3>1 DEF Broadcast
      <4>2. i \in 1 .. l /\ log'[i] = log[i] /\ j \in 1 .. l /\ log'[j] = log[j]
        BY <3>2
      <4> QED BY <4>1, <4>2
    <3>6. Broadcast(e, m)'
      BY <2>6, <3>3, <3>4, <3>5 DEF Broadcast
    <3>7. Held(e)' = Held(e)
      BY <2>1, <2>2, <2>10 DEF Held
    <3>8. Ahead(e, m)'
      BY <2>1, <2>2, <2>10, <3>1, <3>7 DEF Ahead
    <3> QED BY <3>6, <3>8
  <2>11. \E m \in Nat : (Broadcast(h, m) /\ Ahead(h, m))'
    <3>1. PICK m \in Nat : m = n + b
      BY <2>5
    <3>2. \A i \in 1 .. l : log[i][1] = h => log[i][2] \in 1 .. n
      BY <2>3, <2>4 DEF Broadcast
    <3>3. \A i \in 1 .. l + b : log'[i][1] = h => log'[i][2] \in 1 .. m
      <4> SUFFICES ASSUME NEW i \in 1 .. l + b, log'[i][1] = h PROVE log'[i][2] \in 1 .. m
        OBVIOUS
      <4>1. CASE i \in 1 .. l /\ log'[i] = log[i]
        <5>1. log'[i][2] \in 1 .. n
          BY <3>2, <4>1
        <5>2. \A x \in 1 .. n : x \in 1 .. m
          BY <2>5, <3>1
        <5> QED BY <5>1, <5>2
      <4>2. ASSUME NEW j \in 1 .. b, i = l + j, log'[i] = <<h, n + j>> PROVE log'[i][2] \in 1 .. m
        <5>1. n + j \in 1 .. m
          BY <2>5, <3>1
        <5> QED BY <4>2, <5>1
      <4> QED BY <2>9, <4>1, <4>2
    <3>4. \A k \in 1 .. m : \E i \in 1 .. l + b : log'[i] = <<h, k>>
      <4> SUFFICES ASSUME NEW k \in 1 .. m PROVE \E i \in 1 .. l + b : log'[i] = <<h, k>>
        OBVIOUS
      <4>1. CASE k \in 1 .. n
        <5>1. PICK i \in 1 .. l : log[i] = <<h, k>>
          BY <2>3, <2>4, <4>1 DEF Broadcast
        <5>2. i \in 1 .. l + b
          BY <2>5
        <5> QED BY <2>6, <5>1, <5>2
      <4>2. CASE k \notin 1 .. n
        <5>1. PICK j \in 1 .. b : k = n + j
          BY <2>5, <3>1, <4>2, Behind
        <5>2. l + j \in 1 .. l + b
          BY <2>5
        <5> QED BY <2>6, <2>7, <5>1, <5>2
      <4> QED BY <4>1, <4>2
    <3>5. ASSUME NEW i \in 1 .. l + b, NEW j \in 1 .. l + b, log'[i][1] = h, log'[j][1] = h, i < j
          PROVE  log'[i][2] < log'[j][2]
      <4>1. CASE j \in 1 .. l
        <5>1. i \in 1 .. l
          BY <2>5, <3>5, <4>1
        <5>2. log'[i] = log[i] /\ log'[j] = log[j]
          BY <2>6, <4>1, <5>1
        <5> QED BY <2>3, <2>4, <3>5, <4>1, <5>1, <5>2 DEF Broadcast
      <4>2. CASE j \notin 1 .. l
        <5>1. PICK y \in 1 .. b : j = l + y
          BY <2>8, <4>2
        <5>2. log'[j][2] = n + y
          BY <2>6, <2>7, <5>1
        <5>3. CASE i \in 1 .. l
          <6>1. log'[i][2] \in 1 .. n
            BY <2>6, <3>2, <3>5, <5>3
          <6> QED BY <2>5, <5>2, <6>1
        <5>4. CASE i \notin 1 .. l
          <6>1. PICK x \in 1 .. b : i = l + x
            BY <2>8, <5>4
          <6>2. log'[i][2] = n + x
            BY <2>6, <2>7, <6>1
          <6> QED BY <2>5, <3>5, <5>1, <5>2, <6>1, <6>2
        <5> QED BY <5>3, <5>4
      <4> QED BY <4>1, <4>2
    <3>6. Broadcast(h, m)'
      BY <2>6, <3>3, <3>4, <3>5 DEF Broadcast
    <3>7. Held(h)' = 0 /\ Held(h) = b
      BY <2>1, <2>2, <2>4 DEF Held
    <3>8. m + 0 + Len(c2s[h]) = n + b + Len(c2s[h]) /\ \A k \in 1 .. Len(c2s[h]) : m + 0 + k = n + b + k
      BY <2>5, <3>1, <1>t
    <3>9. Ahead(h, m)'
      BY <2>1, <2>2, <2>3, <3>7, <3>8 DEF Ahead
    <3> QED BY <3>6, <3>9
  <2> QED BY <2>10, <2>11 DEF ChatSenders
<1>5. ASSUME NEW h \in Clients, Chat!HandlerReadErr(h) \/ Chat!Remove(h) \/ Chat!Write(h) \/ Chat!Unlock(h) PROVE ChatSenders'
  <2>1. UNCHANGED <<up, log, c2s, cst, sent>>
    BY <1>5 DEF Chat!HandlerReadErr, Chat!Remove, Chat!Write, Chat!Unlock, Chat!clientVars
  <2>2. hpc[h] # "lock" /\ (hpc' = hpc \/ \E p \in {"remove", "closed", "read"} : hpc' = [hpc EXCEPT ![h] = p])
    BY <1>5 DEF Chat!HandlerReadErr, Chat!Remove, Chat!Write, Chat!Unlock
  <2>3. buf' = buf \/ buf' = [buf EXCEPT ![h] = <<>>]
    BY <1>5 DEF Chat!HandlerReadErr, Chat!Remove, Chat!Write, Chat!Unlock
  <2>4. \A c \in Clients : (hpc'[c] = "lock" <=> hpc[c] = "lock") /\ (hpc[c] = "lock" => buf'[c] = buf[c])
    BY <2>2, <2>3 DEF ChatTypes
  <2> QED BY <1>k, <2>1, <2>4
<1>6. ASSUME NEW c \in Clients, Chat!SendMsg(c) PROVE ChatSenders'
  <2>1. cst[c] = "open" /\ UNCHANGED <<up, log, hpc, buf, cst>>
    BY <1>6 DEF Chat!SendMsg, Chat!serverVars
  <2>2. sent'[c] = sent[c] + 1 /\ \A e \in Clients : e # c => sent'[e] = sent[e] /\ c2s'[e] = c2s[e]
    BY <1>6 DEF Chat!SendMsg, ChatTypes
  <2>3. ASSUME NEW e \in Clients, e # c PROVE \E m \in Nat : (Broadcast(e, m) /\ Ahead(e, m))'
    BY <1>s, <2>1, <2>2, <2>3, SenderKept
  <2>4. PICK n \in Nat : Broadcast(c, n) /\ Ahead(c, n)
    BY <1>s
  <2>5. Broadcast(c, n)'
    BY <2>1, <2>4 DEF Broadcast
  <2>6. Held(c)' = Held(c) /\ Held(c) \in Nat
    BY <1>t, <2>1 DEF Held
  <2> PICK u, a, s, g : u = c2s[c] /\ a = Len(c2s[c]) /\ s = sent[c] /\ g = Held(c)
    OBVIOUS
  <2>7. u \in Seq(Bytes) /\ a \in Nat /\ s \in Nat /\ g \in Nat /\ a = Len(u)
    BY <1>t, <2>6
  <2>8. CASE ~up
    <3>1. c2s'[c] = u
      BY <1>6, <2>8 DEF Chat!SendMsg
    <3>2. n + g + a <= s + 1
      <4>1. n + g + a <= s
        BY <2>4 DEF Ahead
      <4> QED BY <2>7, <4>1
    <3>3. n + Held(c)' + Len(c2s'[c]) <= sent'[c]
      BY <2>2, <2>6, <2>7, <3>1, <3>2
    <3>4. Ahead(c, n)'
      BY <2>1, <2>4, <2>6, <2>8, <3>1, <3>3 DEF Ahead
    <3> QED BY <2>3, <2>5, <3>4 DEF ChatSenders
  <2>9. CASE up
    <3>1. c2s'[c] = Append(u, <<c, s + 1>>)
      BY <1>6, <2>9 DEF Chat!SendMsg, ChatTypes
    <3>2. Len(c2s'[c]) = a + 1 /\ c2s'[c][a + 1] = <<c, s + 1>> /\ \A j \in 1 .. a : c2s'[c][j] = u[j]
      BY <2>7, <3>1
    <3>3. n + g + a = s /\ \A j \in 1 .. a : u[j] = <<c, n + g + j>>
      BY <2>1, <2>4, <2>9 DEF Ahead
    <3>30. n + g + a = s
      BY <3>3
    <3>4. n + g + (a + 1) = s + 1 /\ \A j \in 1 .. a + 1 : j \in 1 .. a \/ j = a + 1
      BY ONLY <2>7, <3>30
    <3>5. \A j \in 1 .. a + 1 : c2s'[c][j] = <<c, n + g + j>>
      BY <3>2, <3>3, <3>4
    <3>6. n + Held(c)' + Len(c2s'[c]) = sent'[c] /\ sent'[c] \in Nat
      BY <2>2, <2>6, <2>7, <3>2, <3>4
    <3>7. hpc'[c] = "lock" => \A k \in 1 .. Len(buf'[c]) : buf'[c][k] = <<c, n + k>>
      BY <2>1, <2>4 DEF Ahead
    <3>8. \A j \in 1 .. Len(c2s'[c]) : c2s'[c][j] = <<c, n + Held(c)' + j>>
      BY <2>6, <3>2, <3>5
    <3>9. n + Held(c)' + Len(c2s'[c]) <= sent'[c]
      BY <3>6
    <3>10. Ahead(c, n)'
      BY <3>6, <3>7, <3>8, <3>9 DEF Ahead
    <3> QED BY <2>3, <2>5, <3>10 DEF ChatSenders
  <2> QED BY <2>8, <2>9
<1>7. ASSUME NEW c \in Clients, Chat!Quit(c) PROVE ChatSenders'
  <2>1. UNCHANGED <<up, log, hpc, buf, sent>>
    BY <1>7 DEF Chat!Quit, Chat!serverVars
  <2>2. PICK k \in 0 .. Len(c2s[c]) : c2s' = [c2s EXCEPT ![c] = SubSeq(@, 1, k)]
    BY <1>7 DEF Chat!Quit
  <2>3. cst'[c] = "closed" /\ c2s'[c] = SubSeq(c2s[c], 1, k)
        /\ \A e \in Clients : e # c => cst'[e] = cst[e] /\ c2s'[e] = c2s[e]
    BY <1>7, <2>2 DEF Chat!Quit, ChatTypes
  <2>4. ASSUME NEW e \in Clients, e # c PROVE \E m \in Nat : (Broadcast(e, m) /\ Ahead(e, m))'
    BY <1>s, <2>1, <2>3, <2>4, SenderKept
  <2>5. PICK n \in Nat : Broadcast(c, n) /\ Ahead(c, n)
    BY <1>s
  <2>6. Broadcast(c, n)'
    BY <2>1, <2>5 DEF Broadcast
  <2>7. Held(c)' = Held(c) /\ Held(c) \in Nat
    BY <1>t, <2>1 DEF Held
  <2> PICK u, a, s, g : u = c2s[c] /\ a = Len(c2s[c]) /\ s = sent[c] /\ g = Held(c)
    OBVIOUS
  <2>8. u \in Seq(Bytes) /\ a \in Nat /\ s \in Nat /\ g \in Nat /\ a = Len(u) /\ k \in 0 .. a
    BY <1>t, <2>2, <2>7
  <2>9. Len(c2s'[c]) = k /\ \A j \in 1 .. k : c2s'[c][j] = u[j]
    BY <2>3, <2>8, CutSeq
  <2>10. n + g + a <= s /\ \A j \in 1 .. a : u[j] = <<c, n + g + j>>
    BY <2>5 DEF Ahead
  <2>11. n + g + k <= s /\ \A j \in 1 .. k : j \in 1 .. a
    BY <2>8, <2>10
  <2>12. n + Held(c)' + Len(c2s'[c]) <= sent'[c]
    BY <2>1, <2>7, <2>9, <2>11
  <2>13. \A j \in 1 .. Len(c2s'[c]) : c2s'[c][j] = <<c, n + Held(c)' + j>>
    BY <2>7, <2>9, <2>10, <2>11
  <2>14. Ahead(c, n)'
    BY <2>1, <2>3, <2>5, <2>12, <2>13 DEF Ahead
  <2> QED BY <2>4, <2>6, <2>14 DEF ChatSenders
<1>8. ASSUME NEW c \in Clients, Chat!Dial(c) PROVE ChatSenders'
  <2>1. cst[c] = "new" /\ UNCHANGED <<up, log, hpc, buf, c2s, sent>>
    BY <1>8 DEF Chat!Dial
  <2>2. cst'[c] \in {"open", "exit1"} /\ \A e \in Clients : e # c => cst'[e] = cst[e]
    BY <1>8 DEF Chat!Dial, ChatTypes
  <2> QED BY <1>k, <2>1, <2>2
<1>9. ASSUME NEW c \in Clients, Chat!Accept(c) \/ Chat!RecvMsg(c) \/ Chat!RecvEnds(c) PROVE ChatSenders'
  BY <1>k, <1>9 DEF Chat!Accept, Chat!RecvMsg, Chat!RecvEnds, Chat!clientVars, Chat!serverVars
<1> QED BY <1>1, <1>2, <1>3, <1>4, <1>5, <1>6, <1>7, <1>8, <1>9 DEF Chat!Next, Chat!Main, Chat!Handler

LEMMA ChatUnchanged == ChatInv /\ UNCHANGED Chat!vars => ChatInv'
<1> SUFFICES ASSUME ChatInv, UNCHANGED Chat!vars PROVE ChatInv'
  OBVIOUS
<1>1. UNCHANGED <<up, pending, cur, arr, arrLen, mut, hpc, buf, idx, log, from, cst, recv, sent, got, c2s, s2c>>
  BY DEF Chat!vars, Chat!serverVars, Chat!clientVars
<1>2. ChatTypes'
  BY <1>1 DEF ChatInv, ChatTypes
<1>3. ChatPlaces'
  BY <1>1 DEF ChatInv, ChatPlaces
<1>4. ChatArray'
  BY <1>1 DEF ChatInv, ChatArray, Chat!Connected
<1>5. ChatStreams'
  BY <1>1 DEF ChatInv, ChatStreams, ChatStream, Reach
<1>6. ChatSenders'
  BY <1>1 DEF ChatInv, ChatSenders, Broadcast, Ahead, Held
<1> QED BY <1>2, <1>3, <1>4, <1>5, <1>6 DEF ChatInv

LEMMA ChatInvariant == ASSUME Chat!SizesAssumption PROVE ChatSteps => []ChatInv
<1>1. Chat!Init => ChatInv
  BY ChatInitInv
<1>2. ChatInv /\ [Chat!Next]_Chat!vars => ChatInv'
  BY ChatUnchanged, ChatTypesNext, ChatPlacesNext, ChatArrayNext, ChatStreamsNext, ChatSendersNext DEF ChatInv
<1> QED BY <1>1, <1>2, PTL DEF ChatSteps

\* Every reachable state of the chat is well typed, for any number of clients and
\* any sizes of the array, the buffers and the sockets; the buffers of a handler
\* and of a socket are never over their sizes.
THEOREM ChatTyped == ASSUME Chat!SizesAssumption PROVE ChatSteps => []Chat!TypeOK
<1>1. ChatInv => Chat!TypeOK
  BY DEF ChatInv, ChatTypes, Chat!TypeOK, HandlerPlaces
<1> QED BY <1>1, ChatInvariant, PTL

\* The first arrLen entries of connArr are the connections whose goroutines run,
\* each exactly once, though a removal moves the entries behind it and leaves the
\* last one where it was.
THEOREM ArrayHoldsConnected == ASSUME Chat!SizesAssumption PROVE ChatSteps => []Chat!ArrayIsConnected
<1>1. ASSUME ChatInv PROVE Chat!ArrayIsConnected
  <2>1. {arr[i] : i \in 1 .. arrLen} = Chat!Connected
    BY <1>1 DEF ChatInv, ChatArray
  <2>2. arrLen \in Nat
    BY <1>1 DEF ChatInv, ChatTypes, Chat!SizesAssumption
  <2> DEFINE f == [i \in 1 .. arrLen |-> arr[i]]
  <2>3. f \in Bijection(1 .. arrLen, Chat!Connected)
    <3>1. f \in [1 .. arrLen -> Chat!Connected]
      BY <1>1 DEF ChatInv, ChatArray
    <3>2. \A i, j \in 1 .. arrLen : f[i] = f[j] => i = j
      BY <1>1 DEF ChatInv, ChatArray
    <3>3. \A c \in Chat!Connected : \E i \in 1 .. arrLen : f[i] = c
      BY <1>1 DEF ChatInv, ChatArray
    <3> HIDE DEF f
    <3> QED BY <3>1, <3>2, <3>3 DEF Bijection, Injection, Surjection, IsInjective
  <2>4. ExistsBijection(1 .. arrLen, Chat!Connected)
    BY <2>3 DEF ExistsBijection
  <2>5. IsFiniteSet(1 .. arrLen) /\ Cardinality(1 .. arrLen) = arrLen
    BY <2>2, FS_Interval
  <2>6. Cardinality(Chat!Connected) = arrLen
    BY <2>4, <2>5, FS_Bijection
  <2>7. Chat!Cardinality(Chat!Connected) = Cardinality(Chat!Connected)
    BY DEF Chat!Cardinality, Cardinality
  <2> QED BY <2>1, <2>6, <2>7 DEF Chat!ArrayIsConnected
<1>2. ChatInv => Chat!ArrayIsConnected
  BY <1>1
<1> QED BY <1>2, ChatInvariant, PTL

\* Whenever no broadcast is under way, a connected client that is still there has
\* got, or has in its socket, all that was broadcast since it was registered, in the
\* one order of the broadcasts.
THEOREM BroadcastsDelivered == ASSUME Chat!SizesAssumption PROVE ChatSteps => []Chat!Delivered
<1>1. ASSUME ChatInv, up, mut = Chat!Free, NEW c \in Chat!Connected, cst[c] = "open"
      PROVE  got[c] \o s2c[c] = SubSeq(log, from[c] + 1, Len(log))
  <2>1. c \in Clients /\ log \in Seq(Bytes) /\ got[c] \in Seq(Bytes) /\ s2c[c] \in Seq(Bytes) /\ from[c] \in Nat
    BY <1>1 DEF Chat!Connected, ChatInv, ChatTypes
  <2>2. PICK i \in 1 .. arrLen : arr[i] = c
    BY <1>1 DEF ChatInv, ChatArray
  <2>3. Reach(i) = Len(log)
    BY <1>1 DEF Reach
  <2>4. /\ from[c] + Len(got[c]) + Len(s2c[c]) = Len(log)
        /\ \A k \in 1 .. Len(got[c]) : got[c][k] = log[from[c] + k]
        /\ \A k \in 1 .. Len(s2c[c]) : s2c[c][k] = log[from[c] + Len(got[c]) + k]
    BY <1>1, <2>2, <2>3 DEF ChatInv, ChatStreams, ChatStream
  <2> PICK g, s, f : g = got[c] /\ s = s2c[c] /\ f = from[c]
    OBVIOUS
  <2>5. g \in Seq(Bytes) /\ s \in Seq(Bytes) /\ log \in Seq(Bytes) /\ f \in Nat
    BY <2>1
  <2>6. /\ f + Len(g) + Len(s) = Len(log)
        /\ \A k \in 1 .. Len(g) : g[k] = log[f + k]
        /\ \A k \in 1 .. Len(s) : s[k] = log[f + Len(g) + k]
    BY <2>4
  <2>7. g \o s = SubSeq(log, f + 1, Len(log))
    <3>0. Len(g) \in Nat /\ Len(s) \in Nat /\ Len(log) \in Nat
      BY ONLY <2>5
    <3>1. PICK z : z = g \o s
      OBVIOUS
    <3>2. PICK y : y = SubSeq(log, f + 1, Len(log))
      OBVIOUS
    <3>3. /\ z \in Seq(Bytes) /\ Len(z) = Len(g) + Len(s)
          /\ \A j \in 1 .. Len(g) : z[j] = g[j]
          /\ \A j \in 1 .. Len(s) : z[Len(g) + j] = s[j]
      BY ONLY <2>5, <3>1, JoinSeq
    <3>4. f \in 0 .. Len(log) /\ Len(log) - f = Len(g) + Len(s)
      BY ONLY <2>5, <2>6, <3>0
    <3>5. /\ y \in Seq(Bytes) /\ Len(y) = Len(log) - f
          /\ \A j \in 1 .. Len(log) - f : y[j] = log[f + j]
      BY ONLY <2>5, <3>2, <3>4, CutSeq
    <3>6. \A j \in 1 .. Len(z) : z[j] = y[j]
      <4> SUFFICES ASSUME NEW j \in 1 .. Len(z) PROVE z[j] = y[j]
        OBVIOUS
      <4>0. j \in 1 .. Len(g) + Len(s) /\ y[j] = log[f + j]
        BY ONLY <3>3, <3>4, <3>5
      <4>1. CASE j \in 1 .. Len(g)
        BY ONLY <2>6, <3>3, <4>0, <4>1
      <4>2. CASE j \notin 1 .. Len(g)
        <5>1. PICK m \in 1 .. Len(s) : j = Len(g) + m
          BY ONLY <3>0, <4>0, <4>2, Behind
        <5>2. f + j = f + Len(g) + m
          BY ONLY <2>5, <3>0, <5>1
        <5> QED BY ONLY <2>6, <3>3, <4>0, <5>1, <5>2
      <4> QED BY ONLY <4>1, <4>2
    <3>7. z = y
      BY ONLY <3>3, <3>4, <3>5, <3>6, SeqEqual
    <3> QED BY ONLY <3>1, <3>2, <3>7
  <2> QED BY <2>7
<1>2. ChatInv => Chat!Delivered
  BY <1>1 DEF Chat!Delivered
<1> QED BY <1>2, ChatInvariant, PTL

\* The bytes of a client are broadcast once each and in the order it sent them:
\* those broadcast, those its handler holds and those under way are, together,
\* what it sent.
THEOREM SendersInOrder == ASSUME Chat!SizesAssumption PROVE ChatSteps => []Chat!SenderOrder
<1>1. ASSUME ChatInv, NEW c \in Clients
      PROVE  LET own == {i \in DOMAIN log : log[i][1] = c}
                 ahead == (IF hpc[c] = "lock" THEN buf[c] ELSE <<>>) \o c2s[c]
             IN  \E n \in 0 .. MaxSend :
                     /\ {log[i][2] : i \in own} = 1 .. n
                     /\ \A i, j \in own : i < j => log[i][2] < log[j][2]
                     /\ ahead = [k \in 1 .. Len(ahead) |-> <<c, n + k>>]
                     /\ up /\ cst[c] = "open" => n + Len(ahead) = sent[c]
  <2> DEFINE own == {i \in DOMAIN log : log[i][1] = c}
             held == IF hpc[c] = "lock" THEN buf[c] ELSE <<>>
             ahead == held \o c2s[c]
  <2>1. DOMAIN log = 1 .. Len(log) /\ Len(log) \in Nat
    BY <1>1 DEF ChatInv, ChatTypes
  <2>2. PICK n \in Nat : Broadcast(c, n) /\ Ahead(c, n)
    BY <1>1 DEF ChatInv, ChatSenders
  <2>3. {log[i][2] : i \in own} = 1 .. n
    <3>1. \A i \in own : log[i][2] \in 1 .. n
      BY <2>1, <2>2 DEF Broadcast
    <3>2. \A k \in 1 .. n : \E i \in own : log[i][2] = k
      <4> SUFFICES ASSUME NEW k \in 1 .. n PROVE \E i \in own : log[i][2] = k
        OBVIOUS
      <4>1. PICK i \in 1 .. Len(log) : log[i] = <<c, k>>
        BY <2>2 DEF Broadcast
      <4>2. i \in own /\ log[i][2] = k
        BY <2>1, <4>1
      <4> QED BY <4>2
    <3> HIDE DEF own
    <3> QED BY <3>1, <3>2
  <2>4. \A i, j \in own : i < j => log[i][2] < log[j][2]
    BY <2>1, <2>2 DEF Broadcast
  <2>5. held \in Seq(Bytes) /\ Len(held) = Held(c)
    <3>1. buf[c] \in Seq(Bytes) /\ <<>> \in Seq(Bytes) /\ Len(<<>>) = 0
      BY <1>1 DEF ChatInv, ChatTypes
    <3> QED BY <3>1 DEF Held
  <2>6. \A k \in 1 .. Len(held) : held[k] = <<c, n + k>>
    <3>1. Len(<<>>) = 0
      OBVIOUS
    <3> QED BY <2>2, <3>1 DEF Ahead
  <2>7. c2s[c] \in Seq(Bytes) /\ sent[c] \in 0 .. MaxSend /\ MaxSend \in Nat
    BY <1>1 DEF ChatInv, ChatTypes, Chat!SizesAssumption
  <2>8. /\ n + Held(c) + Len(c2s[c]) <= sent[c]
        /\ up /\ cst[c] = "open" => n + Held(c) + Len(c2s[c]) = sent[c]
        /\ \A k \in 1 .. Len(c2s[c]) : c2s[c][k] = <<c, n + Held(c) + k>>
    BY <2>2 DEF Ahead
  <2>80. PICK h, u, s, z : h = held /\ u = c2s[c] /\ s = sent[c] /\ z = ahead
    OBVIOUS
  <2>9. h \in Seq(Bytes) /\ u \in Seq(Bytes) /\ s \in 0 .. MaxSend /\ MaxSend \in Nat /\ z = h \o u
    BY <2>5, <2>7, <2>80
  <2>10. \A k \in 1 .. Len(h) : h[k] = <<c, n + k>>
    BY <2>6, <2>80
  <2>11. \A k \in 1 .. Len(u) : u[k] = <<c, n + Len(h) + k>>
    BY <2>5, <2>8, <2>80
  <2>12. n + Len(h) + Len(u) <= s /\ (up /\ cst[c] = "open" => n + Len(h) + Len(u) = s)
    BY <2>5, <2>8, <2>80
  <2>13. /\ z \in Seq(Bytes) /\ Len(z) = Len(h) + Len(u)
         /\ \A j \in 1 .. Len(h) : z[j] = h[j]
         /\ \A j \in 1 .. Len(u) : z[Len(h) + j] = u[j]
    BY ONLY <2>9, JoinSeq
  <2>14. \A k \in 1 .. Len(z) : z[k] = <<c, n + k>>
    <3> SUFFICES ASSUME NEW k \in 1 .. Len(z) PROVE z[k] = <<c, n + k>>
      OBVIOUS
    <3>0. Len(h) \in Nat /\ Len(u) \in Nat
      BY ONLY <2>9
    <3>1. CASE k \in 1 .. Len(h)
      BY ONLY <2>10, <2>13, <3>1
    <3>2. CASE k \notin 1 .. Len(h)
      <4>0. k \in 1 .. Len(h) + Len(u)
        BY ONLY <2>13
      <4>1. PICK j \in 1 .. Len(u) : k = Len(h) + j
        BY ONLY <3>0, <3>2, <4>0, Behind
      <4>2. n + k = n + Len(h) + j
        BY ONLY <3>0, <4>1
      <4> QED BY ONLY <2>11, <2>13, <4>1, <4>2
    <3> QED BY ONLY <3>1, <3>2
  <2>15. z = [k \in 1 .. Len(z) |-> <<c, n + k>>]
    <3>1. DOMAIN z = 1 .. Len(z) /\ z = [k \in DOMAIN z |-> z[k]]
      BY ONLY <2>13
    <3> QED BY ONLY <2>14, <3>1
  <2>16. n \in 0 .. MaxSend /\ (up /\ cst[c] = "open" => n + Len(z) = s)
    <3>0. Len(h) \in Nat /\ Len(u) \in Nat
      BY ONLY <2>9
    <3>1. PICK x, y : x = Len(h) /\ y = Len(u)
      OBVIOUS
    <3>2. x \in Nat /\ y \in Nat /\ s \in 0 .. MaxSend /\ MaxSend \in Nat /\ n + x + y <= s
          /\ (up /\ cst[c] = "open" => n + x + y = s) /\ Len(z) = x + y
      BY <2>9, <2>12, <2>13, <3>0, <3>1
    <3> QED BY ONLY <3>2
  <2>17. ahead = [k \in 1 .. Len(ahead) |-> <<c, n + k>>] /\ (up /\ cst[c] = "open" => n + Len(ahead) = sent[c])
    BY <2>15, <2>16, <2>80
  <2> HIDE DEF own, ahead
  <2>18. \E m \in 0 .. MaxSend :
           /\ {log[i][2] : i \in own} = 1 .. m
           /\ \A i, j \in own : i < j => log[i][2] < log[j][2]
           /\ ahead = [k \in 1 .. Len(ahead) |-> <<c, m + k>>]
           /\ up /\ cst[c] = "open" => m + Len(ahead) = sent[c]
    BY <2>3, <2>4, <2>16, <2>17
  <2> QED BY <2>18 DEF own, ahead, held
<1>2. ChatInv => Chat!SenderOrder
  BY <1>1 DEF Chat!SenderOrder
<1> QED BY <1>2, ChatInvariant, PTL

-----------------------------------------------------------------------------
(* Echo.                                                                   *)

\* The least of two numbers.
LEMMA EchoMin ==
  ASSUME NEW a \in Nat, NEW b \in Nat
  PROVE  Echo!Min({a, b}) = IF a <= b THEN a ELSE b
BY DEF Echo!Min

\* A piece is not empty, and not more than there is.
LEMMA PieceFacts ==
  ASSUME Echo!EchoAssumption, NEW a \in Nat, NEW b \in Nat, NEW n \in Echo!Pieces(Echo!Min({a, b}))
  PROVE  /\ n \in Nat /\ 0 < n /\ n <= a /\ n <= b
         /\ ~Split => n = IF a <= b THEN a ELSE b
<1>1. PICK m : m = Echo!Min({a, b})
  OBVIOUS
<1>2. m \in Nat /\ m <= a /\ m <= b /\ m = IF a <= b THEN a ELSE b
  BY <1>1, EchoMin
<1>3. n \in Echo!Pieces(m)
  BY <1>1
<1> QED BY <1>2, <1>3 DEF Echo!Pieces

EchoTypes ==
  /\ echoCpc \in {"input", "write", "read", "done"} /\ echoSpc \in {"read", "write", "done"}
  /\ echoC2s \in 0 .. EchoSock /\ echoS2c \in 0 .. EchoSock
  /\ echoSbio \in 0 .. EchoBufio /\ echoCbio \in 0 .. EchoBufio
  /\ echoHold \in 0 .. EchoBuf /\ echoSend \in Nat \ {0} /\ echoUnsent \in Nat /\ echoOwed \in Int
  /\ echoSend <= MaxLine \/ echoSend <= EchoBuf
  /\ echoKind \in EchoKinds /\ EchoKinds \subseteq {"ch04", "ch15"}
  /\ echoSpc = "read" => echoHold = 0
  /\ echoCpc \in {"input", "read"} => echoUnsent = 0

EchoInv == EchoTypes /\ Echo!NothingLost

LEMMA EchoInit == ASSUME Echo!EchoAssumption, Echo!Init PROVE EchoInv
<1>1. EchoBuf \in Nat \ {0} /\ EchoSock \in Nat /\ EchoBufio \in Nat /\ MaxLine \in Nat
  BY DEF Echo!EchoAssumption
<1> QED BY <1>1 DEF Echo!EchoAssumption, Echo!Init, EchoInv, EchoTypes, Echo!NothingLost, Echo!Outstanding

LEMMA EchoNext == ASSUME Echo!EchoAssumption, EchoInv, [Echo!Next]_Echo!vars PROVE EchoInv'
<1>0. /\ EchoBuf \in Nat \ {0} /\ EchoSock \in Nat \ {0} /\ EchoBufio \in Nat \ {0}
      /\ MaxLine \in Nat \ {0}
  BY DEF Echo!EchoAssumption
<1>1. /\ echoUnsent \in Nat /\ echoC2s \in Nat /\ echoSbio \in Nat /\ echoHold \in Nat /\ echoS2c \in Nat /\ echoCbio \in Nat
      /\ EchoSock - echoC2s \in Nat /\ EchoSock - echoS2c \in Nat
  BY <1>0 DEF EchoInv, EchoTypes
<1> USE DEF Echo!clientVars, Echo!serverVars
<1>2. CASE Echo!Input
  <2>1. PICK n \in 1 .. MaxLine \cup {echoSend} : echoSend' = n /\ echoUnsent' = n /\ echoOwed' = echoOwed + n
    BY <1>2 DEF Echo!Input
  <2>2. echoSend \in Nat \ {0} /\ (echoSend <= MaxLine \/ echoSend <= EchoBuf) /\ echoOwed \in Int
    BY DEF EchoInv, EchoTypes
  <2>3. n \in Nat \ {0} /\ (n <= MaxLine \/ n <= EchoBuf)
    BY <1>0, <2>1, <2>2
  <2>4. echoUnsent = 0
    BY <1>2 DEF Echo!Input, EchoInv, EchoTypes
  <2>5. EchoTypes'
    BY <1>2, <2>1, <2>2, <2>3 DEF Echo!Input, EchoInv, EchoTypes
  <2> QED BY <1>1, <1>2, <2>1, <2>3, <2>4, <2>5 DEF Echo!Input, EchoInv, Echo!NothingLost, Echo!Outstanding
<1>3. CASE Echo!ClientWrite
  <2>1. PICK n \in Echo!Pieces(Echo!Min({echoUnsent, EchoSock - echoC2s})) : echoC2s' = echoC2s + n /\ echoUnsent' = echoUnsent - n
    BY <1>3 DEF Echo!ClientWrite
  <2>2. n \in Nat /\ n <= echoUnsent /\ n <= EchoSock - echoC2s
    BY <1>1, PieceFacts
  <2> QED BY <1>0, <1>1, <1>3, <2>1, <2>2 DEF Echo!ClientWrite, EchoInv, EchoTypes, Echo!NothingLost, Echo!Outstanding
<1>4. CASE Echo!ClientRead
  <2>1. PICK n \in Echo!Pieces(Echo!Min({EchoBuf, echoS2c})) : echoS2c' = echoS2c - n /\ echoOwed' = echoOwed - n
    BY <1>4 DEF Echo!ClientRead
  <2>2. n \in Nat /\ n <= echoS2c
    BY <1>0, <1>1, PieceFacts
  <2> QED BY <1>0, <1>1, <1>4, <2>1, <2>2 DEF Echo!ClientRead, EchoInv, EchoTypes, Echo!NothingLost, Echo!Outstanding
<1>5. CASE Echo!ClientReadBuffered
  <2> DEFINE Room == IF echoCbio = 0 THEN Echo!Pieces(Echo!Min({EchoBufio, echoS2c})) ELSE {0}
  <2>0. \E num \in Room : echoS2c' = echoS2c - num /\ echoCbio' = (echoCbio + num) - Echo!Min({EchoBuf, echoCbio + num}) /\ echoOwed' = echoOwed - Echo!Min({EchoBuf, echoCbio + num})
    BY <1>5 DEF Echo!ClientReadBuffered
  <2> HIDE DEF Room
  <2>1. PICK num : /\ echoCbio = 0 => num \in Echo!Pieces(Echo!Min({EchoBufio, echoS2c}))
                   /\ echoCbio # 0 => num = 0
                   /\ echoS2c' = echoS2c - num /\ echoCbio' = (echoCbio + num) - Echo!Min({EchoBuf, echoCbio + num})
                   /\ echoOwed' = echoOwed - Echo!Min({EchoBuf, echoCbio + num})
    <3>1. PICK num \in Room : echoS2c' = echoS2c - num /\ echoCbio' = (echoCbio + num) - Echo!Min({EchoBuf, echoCbio + num}) /\ echoOwed' = echoOwed - Echo!Min({EchoBuf, echoCbio + num})
      BY <2>0
    <3>2. /\ echoCbio = 0 => Room = Echo!Pieces(Echo!Min({EchoBufio, echoS2c}))
          /\ echoCbio # 0 => Room = {0}
      BY DEF Room
    <3> QED BY <3>1, <3>2
  <2>2. num \in Nat /\ num <= echoS2c /\ echoCbio + num <= EchoBufio
    <3>1. CASE echoCbio = 0
      BY <1>0, <1>1, <2>1, <3>1, PieceFacts
    <3>2. CASE echoCbio # 0
      BY <1>1, <2>1, <3>2 DEF EchoInv, EchoTypes
    <3> QED BY <3>1, <3>2
  <2>3. PICK n : n = Echo!Min({EchoBuf, echoCbio + num})
    OBVIOUS
  <2>4. n \in Nat /\ n <= echoCbio + num /\ n <= EchoBuf
    BY <1>0, <1>1, <2>2, <2>3, EchoMin
  <2>5. echoS2c' = echoS2c - num /\ echoCbio' = (echoCbio + num) - n /\ echoOwed' = echoOwed - n
    BY <2>1, <2>3
  <2> QED BY <1>0, <1>1, <1>5, <2>2, <2>4, <2>5
          DEF Echo!ClientReadBuffered, EchoInv, EchoTypes, Echo!NothingLost, Echo!Outstanding
<1>6. CASE Echo!Quit
  BY <1>0, <1>1, <1>6 DEF Echo!Quit, EchoInv, EchoTypes, Echo!NothingLost, Echo!Outstanding
<1>7. CASE Echo!ServerRead
  <2>1. PICK n \in Echo!Pieces(Echo!Min({EchoBuf, echoC2s})) : echoC2s' = echoC2s - n /\ echoHold' = n
    BY <1>7 DEF Echo!ServerRead
  <2>2. n \in Nat /\ n <= echoC2s /\ n <= EchoBuf
    BY <1>0, <1>1, PieceFacts
  <2>3. echoHold = 0
    BY <1>7 DEF Echo!ServerRead, EchoInv, EchoTypes
  <2> QED BY <1>0, <1>1, <1>7, <2>1, <2>2, <2>3 DEF Echo!ServerRead, EchoInv, EchoTypes, Echo!NothingLost, Echo!Outstanding
<1>8. CASE Echo!ServerReadBuffered
  <2> DEFINE Room == IF echoSbio = 0 THEN Echo!Pieces(Echo!Min({EchoBufio, echoC2s})) ELSE {0}
  <2>0. \E num \in Room : echoC2s' = echoC2s - num /\ echoSbio' = (echoSbio + num) - Echo!Min({EchoBuf, echoSbio + num}) /\ echoHold' = Echo!Min({EchoBuf, echoSbio + num})
    BY <1>8 DEF Echo!ServerReadBuffered
  <2> HIDE DEF Room
  <2>1. PICK num : /\ echoSbio = 0 => num \in Echo!Pieces(Echo!Min({EchoBufio, echoC2s}))
                   /\ echoSbio # 0 => num = 0
                   /\ echoC2s' = echoC2s - num /\ echoSbio' = (echoSbio + num) - Echo!Min({EchoBuf, echoSbio + num})
                   /\ echoHold' = Echo!Min({EchoBuf, echoSbio + num})
    <3>1. PICK num \in Room : echoC2s' = echoC2s - num /\ echoSbio' = (echoSbio + num) - Echo!Min({EchoBuf, echoSbio + num}) /\ echoHold' = Echo!Min({EchoBuf, echoSbio + num})
      BY <2>0
    <3>2. /\ echoSbio = 0 => Room = Echo!Pieces(Echo!Min({EchoBufio, echoC2s}))
          /\ echoSbio # 0 => Room = {0}
      BY DEF Room
    <3> QED BY <3>1, <3>2
  <2>2. num \in Nat /\ num <= echoC2s /\ echoSbio + num <= EchoBufio
    <3>1. CASE echoSbio = 0
      BY <1>0, <1>1, <2>1, <3>1, PieceFacts
    <3>2. CASE echoSbio # 0
      BY <1>1, <2>1, <3>2 DEF EchoInv, EchoTypes
    <3> QED BY <3>1, <3>2
  <2>3. PICK n : n = Echo!Min({EchoBuf, echoSbio + num})
    OBVIOUS
  <2>4. n \in Nat /\ n <= echoSbio + num /\ n <= EchoBuf
    BY <1>0, <1>1, <2>2, <2>3, EchoMin
  <2>5. echoC2s' = echoC2s - num /\ echoSbio' = (echoSbio + num) - n /\ echoHold' = n
    BY <2>1, <2>3
  <2>6. echoHold = 0
    BY <1>8 DEF Echo!ServerReadBuffered, EchoInv, EchoTypes
  <2> QED BY <1>0, <1>1, <1>8, <2>2, <2>4, <2>5, <2>6
          DEF Echo!ServerReadBuffered, EchoInv, EchoTypes, Echo!NothingLost, Echo!Outstanding
<1>9. CASE Echo!ServerWrite
  <2>1. PICK n \in Echo!Pieces(Echo!Min({echoHold, EchoSock - echoS2c})) : echoS2c' = echoS2c + n /\ echoHold' = echoHold - n
    BY <1>9 DEF Echo!ServerWrite
  <2>2. n \in Nat /\ n <= echoHold /\ n <= EchoSock - echoS2c
    BY <1>1, PieceFacts
  <2> QED BY <1>0, <1>1, <1>9, <2>1, <2>2 DEF Echo!ServerWrite, EchoInv, EchoTypes, Echo!NothingLost, Echo!Outstanding
<1>10. CASE Echo!ServerWriteFails \/ Echo!ServerEof
  BY <1>0, <1>1, <1>10 DEF Echo!ServerWriteFails, Echo!ServerEof, EchoInv, EchoTypes, Echo!NothingLost, Echo!Outstanding
<1>11. CASE UNCHANGED Echo!vars
  BY <1>11 DEF Echo!vars, EchoInv, EchoTypes, Echo!NothingLost, Echo!Outstanding
<1> QED
  BY <1>2, <1>3, <1>4, <1>5, <1>6, <1>7, <1>8, <1>9, <1>10, <1>11 DEF Echo!Next, Echo!Server, Echo!Exited

EchoSteps == Echo!Init /\ [][Echo!Next]_Echo!vars

LEMMA EchoInvariant == ASSUME Echo!EchoAssumption PROVE EchoSteps => []EchoInv
<1>1. Echo!Init => EchoInv
  BY EchoInit
<1>2. EchoInv /\ [Echo!Next]_Echo!vars => EchoInv'
  BY EchoNext
<1> QED BY <1>1, <1>2, PTL DEF EchoSteps

LEMMA EchoMax ==
  ASSUME NEW a \in Nat, NEW b \in Nat
  PROVE  Echo!Max({a, b}) = IF a <= b THEN b ELSE a
BY DEF Echo!Max

THEOREM EchoTyped == ASSUME Echo!EchoAssumption PROVE EchoSteps => []Echo!TypeOK
<1>1. EchoInv => Echo!TypeOK
  <2>1. MaxLine \in Nat /\ EchoBuf \in Nat
    BY DEF Echo!EchoAssumption
  <2>2. Echo!Max({MaxLine, EchoBuf}) = IF MaxLine <= EchoBuf THEN EchoBuf ELSE MaxLine
    BY <2>1, EchoMax
  <2> QED BY <2>1, <2>2 DEF EchoInv, EchoTypes, Echo!TypeOK
<1> QED BY <1>1, EchoInvariant, PTL

\* Every byte the client sent is printed or on its way.
THEOREM EveryByteEchoed == ASSUME Echo!EchoAssumption PROVE EchoSteps => []Echo!NothingLost
<1>1. EchoInv => Echo!NothingLost
  BY DEF EchoInv
<1> QED BY <1>1, EchoInvariant, PTL

\* Lines that fit the buffers.
ShortLines ==
  /\ Echo!EchoAssumption /\ ~Split
  /\ MaxLine <= EchoBuf /\ EchoBuf <= EchoBufio /\ EchoBuf <= EchoSock

\* A line that arrives in one piece is in one place.
OnePlace ==
  echoCpc # "done" =>
    /\ echoSbio = 0 /\ echoCbio = 0
    /\ echoCpc \in {"input", "write"} => echoC2s = 0 /\ echoHold = 0 /\ echoS2c = 0
    /\ echoC2s <= EchoBuf /\ echoS2c <= EchoBuf
    /\ echoUnsent <= EchoBuf
    /\ echoC2s = 0 \/ echoHold = 0
    /\ echoC2s = 0 \/ echoS2c = 0
    /\ echoHold = 0 \/ echoS2c = 0

LEMMA OnePlaceNext == ASSUME ShortLines, EchoInv, OnePlace, [Echo!Next]_Echo!vars PROVE OnePlace'
<1>0. /\ EchoBuf \in Nat \ {0} /\ EchoSock \in Nat \ {0} /\ EchoBufio \in Nat \ {0}
      /\ MaxLine \in Nat \ {0} /\ Echo!EchoAssumption /\ ~Split
      /\ MaxLine <= EchoBuf /\ EchoBuf <= EchoBufio /\ EchoBuf <= EchoSock
  BY DEF ShortLines, Echo!EchoAssumption
<1>1. /\ echoUnsent \in Nat /\ echoC2s \in Nat /\ echoSbio \in Nat /\ echoHold \in Nat /\ echoS2c \in Nat /\ echoCbio \in Nat
      /\ EchoSock - echoC2s \in Nat /\ EchoSock - echoS2c \in Nat /\ echoHold <= EchoBuf
      /\ echoSpc = "read" => echoHold = 0
      /\ echoCpc \in {"input", "read"} => echoUnsent = 0
  BY <1>0 DEF EchoInv, EchoTypes
<1> USE DEF Echo!clientVars, Echo!serverVars
<1>2. CASE Echo!Input
  <2>1. PICK n \in 1 .. MaxLine \cup {echoSend} : echoUnsent' = n
    BY <1>2 DEF Echo!Input
  <2>2. echoSend \in Nat \ {0} /\ (echoSend <= MaxLine \/ echoSend <= EchoBuf)
    BY DEF EchoInv, EchoTypes
  <2>3. n <= EchoBuf
    BY <1>0, <2>1, <2>2
  <2> QED BY <1>1, <1>2, <2>1, <2>3 DEF Echo!Input, OnePlace
<1>3. CASE Echo!ClientWrite
  <2>1. PICK n \in Echo!Pieces(Echo!Min({echoUnsent, EchoSock - echoC2s})) : echoC2s' = echoC2s + n /\ echoUnsent' = echoUnsent - n
    BY <1>3 DEF Echo!ClientWrite
  <2>2. n \in Nat /\ n = IF echoUnsent <= EchoSock - echoC2s THEN echoUnsent ELSE EchoSock - echoC2s
    BY <1>0, <1>1, PieceFacts
  <2>3. echoC2s = 0 /\ echoUnsent <= EchoBuf
    BY <1>3 DEF Echo!ClientWrite, OnePlace
  <2>4. echoUnsent' = 0 /\ echoC2s' = echoUnsent
    BY <1>0, <1>1, <2>1, <2>2, <2>3
  <2> QED BY <1>0, <1>1, <1>3, <2>3, <2>4 DEF Echo!ClientWrite, OnePlace
<1>4. CASE Echo!ClientRead
  <2>1. PICK n \in Echo!Pieces(Echo!Min({EchoBuf, echoS2c})) : echoS2c' = echoS2c - n
    BY <1>4 DEF Echo!ClientRead
  <2>2. n \in Nat /\ n > 0 /\ n = IF EchoBuf <= echoS2c THEN EchoBuf ELSE echoS2c
    BY <1>0, <1>1, PieceFacts
  <2>3. echoS2c <= EchoBuf
    BY <1>4 DEF Echo!ClientRead, OnePlace
  <2>4. echoS2c # 0 /\ echoS2c' = 0
    BY <1>0, <1>1, <2>1, <2>2, <2>3
  <2> QED BY <1>0, <1>1, <1>4, <2>4 DEF Echo!ClientRead, OnePlace
<1>5. CASE Echo!ClientReadBuffered
  <2>1. echoSbio = 0 /\ echoCbio = 0 /\ echoS2c <= EchoBuf
    BY <1>5 DEF Echo!ClientReadBuffered, OnePlace
  <2>2. PICK num \in Echo!Pieces(Echo!Min({EchoBufio, echoS2c})) :
          echoS2c' = echoS2c - num /\ echoCbio' = (echoCbio + num) - Echo!Min({EchoBuf, echoCbio + num})
    BY <1>5, <2>1 DEF Echo!ClientReadBuffered
  <2>3. num \in Nat /\ num > 0 /\ num = IF EchoBufio <= echoS2c THEN EchoBufio ELSE echoS2c
    BY <1>0, <1>1, PieceFacts
  <2>4. num = echoS2c
    BY <1>0, <1>1, <2>1, <2>3
  <2>5. echoCbio + num = echoS2c
    BY <1>1, <2>1, <2>4
  <2>6. Echo!Min({EchoBuf, echoS2c}) = echoS2c
    BY <1>0, <1>1, <2>1, EchoMin
  <2>7. echoS2c # 0 /\ echoS2c' = 0 /\ echoCbio' = 0
    <3>1. echoS2c' = echoS2c - num /\ echoCbio' = (echoCbio + num) - Echo!Min({EchoBuf, echoCbio + num})
      BY <2>2
    <3>2. Echo!Min({EchoBuf, echoCbio + num}) = echoS2c
      BY <2>5, <2>6
    <3>3. echoCbio' = echoS2c - echoS2c /\ echoS2c' = echoS2c - echoS2c
      BY <2>4, <2>5, <3>1, <3>2
    <3> QED BY <1>1, <2>3, <2>4, <3>3
  <2> QED BY <1>0, <1>1, <1>5, <2>1, <2>7 DEF Echo!ClientReadBuffered, OnePlace
<1>6. CASE Echo!Quit
  BY <1>6 DEF Echo!Quit, OnePlace
<1>7. CASE Echo!ServerRead
  <2>1. PICK n \in Echo!Pieces(Echo!Min({EchoBuf, echoC2s})) : echoC2s' = echoC2s - n /\ echoHold' = n
    BY <1>7 DEF Echo!ServerRead
  <2>2. n \in Nat /\ n > 0 /\ n = IF EchoBuf <= echoC2s THEN EchoBuf ELSE echoC2s
    BY <1>0, <1>1, PieceFacts
  <2>3. echoCpc # "done" => echoC2s <= EchoBuf
    BY DEF OnePlace
  <2>4. echoCpc # "done" => echoC2s # 0 /\ echoC2s' = 0
    BY <1>0, <1>1, <2>1, <2>2, <2>3
  <2> QED BY <1>0, <1>1, <1>7, <2>4 DEF Echo!ServerRead, OnePlace
<1>8. CASE Echo!ServerReadBuffered
  <2> SUFFICES ASSUME echoCpc # "done" PROVE OnePlace'
    BY <1>8 DEF Echo!ServerReadBuffered, OnePlace
  <2>1. echoSbio = 0 /\ echoCbio = 0 /\ echoC2s <= EchoBuf
    BY <1>8 DEF Echo!ServerReadBuffered, OnePlace
  <2>2. PICK num \in Echo!Pieces(Echo!Min({EchoBufio, echoC2s})) :
          echoC2s' = echoC2s - num /\ echoSbio' = (echoSbio + num) - Echo!Min({EchoBuf, echoSbio + num})
    BY <1>8, <2>1 DEF Echo!ServerReadBuffered
  <2>3. num \in Nat /\ num > 0 /\ num = IF EchoBufio <= echoC2s THEN EchoBufio ELSE echoC2s
    BY <1>0, <1>1, PieceFacts
  <2>4. num = echoC2s
    BY <1>0, <1>1, <2>1, <2>3
  <2>5. echoSbio + num = echoC2s
    BY <1>1, <2>1, <2>4
  <2>6. Echo!Min({EchoBuf, echoC2s}) = echoC2s
    BY <1>0, <1>1, <2>1, EchoMin
  <2>7. echoC2s # 0 /\ echoC2s' = 0 /\ echoSbio' = 0
    BY <1>1, <2>2, <2>3, <2>4, <2>5, <2>6
  <2> QED BY <1>0, <1>1, <1>8, <2>1, <2>7 DEF Echo!ServerReadBuffered, OnePlace
<1>9. CASE Echo!ServerWrite
  <2>1. PICK n \in Echo!Pieces(Echo!Min({echoHold, EchoSock - echoS2c})) : echoS2c' = echoS2c + n /\ echoHold' = echoHold - n
    BY <1>9 DEF Echo!ServerWrite
  <2>2. n \in Nat /\ n > 0 /\ n <= echoHold /\ n = IF echoHold <= EchoSock - echoS2c THEN echoHold ELSE EchoSock - echoS2c
    BY <1>0, <1>1, PieceFacts
  <2>3. echoHold # 0
    BY <1>1, <2>2
  <2>4. echoS2c = 0 /\ echoC2s = 0 /\ echoCpc = "read"
    BY <1>9, <2>3 DEF Echo!ServerWrite, OnePlace, EchoInv, EchoTypes
  <2>5. echoHold' = 0 /\ echoS2c' = echoHold
    BY <1>0, <1>1, <2>1, <2>2, <2>4
  <2> QED BY <1>0, <1>1, <1>9, <2>4, <2>5 DEF Echo!ServerWrite, OnePlace
<1>10. CASE Echo!ServerWriteFails \/ Echo!ServerEof
  BY <1>10 DEF Echo!ServerWriteFails, Echo!ServerEof, OnePlace
<1>11. CASE UNCHANGED Echo!vars
  BY <1>11 DEF Echo!vars, OnePlace
<1> QED
  BY <1>2, <1>3, <1>4, <1>5, <1>6, <1>7, <1>8, <1>9, <1>10, <1>11 DEF Echo!Next, Echo!Server, Echo!Exited

\* Short lines are echoed one for one.
THEOREM LinesInStep == ASSUME ShortLines PROVE EchoSteps => []Echo!InStep
<1>1. Echo!EchoAssumption
  BY DEF ShortLines
<1>2. Echo!Init => OnePlace
  BY DEF Echo!Init, OnePlace, ShortLines, Echo!EchoAssumption
<1>3. EchoInv /\ OnePlace /\ [Echo!Next]_Echo!vars => OnePlace'
  BY OnePlaceNext
<1>4. EchoInv /\ OnePlace => Echo!InStep
  BY DEF EchoInv, EchoTypes, OnePlace, Echo!InStep, Echo!Outstanding
<1> QED BY <1>1, <1>2, <1>3, <1>4, EchoInvariant, PTL DEF EchoSteps

-----------------------------------------------------------------------------
(* UdpEcho.                                                                *)

LEMMA AddToBag ==
  ASSUME NEW B, NEW x
  PROVE  /\ Udp!BagToSet(Udp!BagAdd(B, x)) = Udp!BagToSet(B) \cup {x}
         /\ \A e \in Udp!BagToSet(B) : e # x => Udp!BagAdd(B, x)[e] = B[e]
         /\ x \notin Udp!BagToSet(B) => Udp!BagAdd(B, x)[x] = 1
BY DEF Udp!BagAdd, Udp!BagToSet

LEMMA RemoveFromBag ==
  ASSUME NEW B, NEW x
  PROVE  /\ Udp!BagToSet(Udp!BagRemove(B, x)) \subseteq Udp!BagToSet(B)
         /\ \A e \in Udp!BagToSet(Udp!BagRemove(B, x)) : e # x => Udp!BagRemove(B, x)[e] = B[e]
         /\ x \in Udp!BagToSet(B) /\ B[x] = 1 => Udp!BagToSet(Udp!BagRemove(B, x)) = Udp!BagToSet(B) \ {x}
BY DEF Udp!BagRemove, Udp!BagToSet

LEMMA UdpCard == \A T : Udp!Cardinality(T) = Cardinality(T)
  BY DEF Udp!Cardinality, Cardinality

Datagrams == [addr : UdpClients, by : UdpClients \cup {Udp!Stranger}, line : Nat, size : Nat, round : Nat, sent : Nat]

\* A datagram under way: its client's own, of a round begun and with a line of that
\* round or before, or a stranger's, on its way to an unconnected socket.
Genuine(d) ==
  /\ d \in Datagrams /\ d.line <= d.round /\ d.round \in 0 .. udpRound[d.addr]
  /\ d.by = d.addr \/ (d.by = Udp!Stranger /\ udpDisturbed /\ d.addr \notin Connected)

UdpTypes ==
  /\ udpCpc \in [UdpClients -> {"input", "read", "ended"}]
  /\ udpRound \in [UdpClients -> 0 .. MaxRounds]
  /\ udpSend \in [UdpClients -> [line : Nat, size : Nat]]
  /\ \A c \in UdpClients : udpSend[c].line <= udpRound[c]
  /\ udpRefused \in [UdpClients -> BOOLEAN] /\ \A c \in UdpClients : udpRefused[c] => c \in Connected
  /\ udpUp \in BOOLEAN /\ udpDisturbed \in BOOLEAN
  /\ DOMAIN udpPrinted = UdpClients

\* What the server gets is what was sent; what it sends, what fitted its buffer.
UdpDatagrams ==
  /\ \A d \in Udp!BagToSet(udpToServer) : Genuine(d) /\ d.size = d.sent
  /\ \A d \in Udp!BagToSet(udpToClient) : Genuine(d) /\ Udp!Kept(d.size) = Udp!Kept(d.sent)
  /\ \A c \in UdpClients : udpPrinted[c] # Udp!NoEcho =>
       udpPrinted[c].addr = c /\ Genuine(udpPrinted[c]) /\ udpPrinted[c].size = Udp!Kept(udpPrinted[c].sent)

UdpInv == UdpTypes /\ UdpDatagrams

LEMMA KeptTwice == ASSUME Udp!UdpAssumption, NEW n \in Nat PROVE Udp!Kept(n) \in Nat /\ Udp!Kept(Udp!Kept(n)) = Udp!Kept(n)
BY DEF Udp!Kept, Udp!UdpAssumption

LEMMA UdpInit == ASSUME Udp!UdpAssumption, Udp!Init PROVE UdpInv
<1>1. UdpTypes
  <2>1. /\ UdpBuf \in Nat /\ MaxRounds \in Nat
    BY DEF Udp!UdpAssumption
  <2>2. /\ udpCpc \in [UdpClients -> {"input", "read", "ended"}] /\ udpRefused \in [UdpClients -> BOOLEAN]
        /\ \A c \in UdpClients : udpRefused[c] => c \in Connected
        /\ udpUp \in BOOLEAN /\ udpDisturbed \in BOOLEAN
    BY DEF Udp!Init
  <2>3. /\ udpRound \in [UdpClients -> 0 .. MaxRounds] /\ udpSend \in [UdpClients -> [line : Nat, size : Nat]]
        /\ DOMAIN udpPrinted = UdpClients /\ \A c \in UdpClients : udpSend[c].line <= udpRound[c]
    BY <2>1 DEF Udp!Init
  <2> QED BY <2>2, <2>3 DEF UdpTypes
<1>2. Udp!BagToSet(udpToServer) = {} /\ Udp!BagToSet(udpToClient) = {}
  BY DEF Udp!Init, Udp!EmptyBag, Udp!SetToBag, Udp!BagToSet
<1> QED BY <1>1, <1>2 DEF Udp!Init, UdpInv, UdpDatagrams

\* The datagrams of a state with the rounds of a later one.
LEMMA GenuineStays ==
  ASSUME Udp!UdpAssumption, UdpTypes, UdpTypes', \A c \in UdpClients : udpRound[c] <= udpRound'[c],
         UNCHANGED udpDisturbed, NEW d, Genuine(d)
  PROVE  Genuine(d)'
<1>1. /\ d \in Datagrams /\ d.addr \in UdpClients /\ d.round \in 0 .. udpRound[d.addr]
      /\ udpRound[d.addr] \in Nat /\ udpRound'[d.addr] \in Nat /\ udpRound[d.addr] <= udpRound'[d.addr]
  BY DEF Genuine, Datagrams, UdpTypes, Udp!UdpAssumption
<1> QED BY <1>1 DEF Genuine

\* A step that begins no round and prints nothing new.
LEMMA UdpFrame ==
  ASSUME Udp!UdpAssumption, UdpInv, UdpTypes', UNCHANGED udpRound, udpDisturbed => udpDisturbed',
         \A d \in Udp!BagToSet(udpToServer)' : Genuine(d) /\ d.size = d.sent,
         \A d \in Udp!BagToSet(udpToClient)' : Genuine(d) /\ Udp!Kept(d.size) = Udp!Kept(d.sent),
         \A c \in UdpClients : udpPrinted'[c] # Udp!NoEcho =>
           udpPrinted'[c].addr = c /\ Genuine(udpPrinted'[c]) /\ udpPrinted'[c].size = Udp!Kept(udpPrinted'[c].sent)
  PROVE  UdpInv'
<1>1. \A d : Genuine(d) => Genuine(d)'
  BY DEF Genuine
<1> QED BY <1>1 DEF UdpInv, UdpDatagrams, Udp!Kept, Udp!NoEcho

LEMMA UdpWrite ==
  ASSUME Udp!UdpAssumption, UdpInv, NEW c \in UdpClients, udpCpc[c] = "input", udpRound[c] < MaxRounds,
         NEW line \in [line : Nat, size : Nat], line.line <= udpRound[c] + 1, Udp!Write(c, line)
  PROVE  UdpInv'
<1>0. udpRound[c] \in Nat /\ MaxRounds \in Nat /\ DOMAIN udpRound = UdpClients
  BY DEF UdpInv, UdpTypes, Udp!UdpAssumption
<1>1. UdpTypes'
  <2>1. /\ udpSend' = [udpSend EXCEPT ![c] = line] /\ udpRound' = [udpRound EXCEPT ![c] = udpRound[c] + 1]
        /\ udpRefused' = [udpRefused EXCEPT ![c] = FALSE] /\ udpCpc' = [udpCpc EXCEPT ![c] = "read"]
        /\ UNCHANGED <<udpPrinted, udpUp, udpDisturbed>>
    BY DEF Udp!Write, Udp!Goto
  <2>2. udpRound[c] + 1 \in 0 .. MaxRounds
    BY <1>0
  <2>3. /\ udpRound' \in [UdpClients -> 0 .. MaxRounds] /\ udpSend' \in [UdpClients -> [line : Nat, size : Nat]]
        /\ udpCpc' \in [UdpClients -> {"input", "read", "ended"}]
    BY <2>1, <2>2 DEF UdpInv, UdpTypes
  <2>4. udpRefused' \in [UdpClients -> BOOLEAN] /\ \A a \in UdpClients : udpRefused'[a] => a \in Connected
    BY <2>1 DEF UdpInv, UdpTypes
  <2>5. ASSUME NEW a \in UdpClients PROVE udpSend'[a].line <= udpRound'[a]
    BY <2>1, <2>5 DEF UdpInv, UdpTypes
  <2> QED BY <2>1, <2>3, <2>4, <2>5 DEF UdpInv, UdpTypes
<1>2. \A a \in UdpClients : udpRound[a] <= udpRound'[a]
  <2>1. udpRound \in [UdpClients -> 0 .. MaxRounds] /\ udpRound' = [udpRound EXCEPT ![c] = udpRound[c] + 1]
    BY DEF UdpInv, UdpTypes, Udp!Write
  <2> QED BY <1>0, <2>1
<1>3. \A d : Genuine(d) => Genuine(d)'
  <2>1. UNCHANGED udpDisturbed
    BY DEF Udp!Write
  <2> QED BY <1>1, <1>2, <2>1, GenuineStays DEF UdpInv
<1>10. PICK new : new = [addr |-> c, by |-> c, line |-> line.line, size |-> line.size,
                         round |-> udpRound[c] + 1, sent |-> line.size]
  OBVIOUS
<1>4. Genuine(new)' /\ new.size = new.sent
  <2>1. udpRound'[c] = udpRound[c] + 1
    BY <1>0 DEF Udp!Write
  <2> QED BY <1>0, <1>10, <2>1 DEF Genuine, Datagrams
<1>5. Udp!BagToSet(udpToServer)' \subseteq Udp!BagToSet(udpToServer) \cup {new}
  <2>1. CASE udpRefused[c]
    BY <2>1 DEF Udp!Write
  <2>2. CASE ~udpRefused[c]
    <3>1. udpToServer' = Udp!BagAdd(udpToServer, new)
      BY <1>10, <2>2 DEF Udp!Write
    <3> QED BY <3>1, AddToBag
  <2> QED BY <2>1, <2>2
<1>6. udpToClient' = udpToClient /\ udpPrinted' = udpPrinted
  BY DEF Udp!Write
<1>7. \A d \in Udp!BagToSet(udpToServer)' : Genuine(d)' /\ d.size = d.sent
  BY <1>3, <1>4, <1>5 DEF UdpInv, UdpDatagrams
<1>8. \A d \in Udp!BagToSet(udpToClient)' : Genuine(d)' /\ Udp!Kept(d.size) = Udp!Kept(d.sent)
  BY <1>3, <1>6 DEF UdpInv, UdpDatagrams
<1>9. \A a \in UdpClients : udpPrinted'[a] # Udp!NoEcho =>
       udpPrinted'[a].addr = a /\ Genuine(udpPrinted[a])' /\ udpPrinted'[a].size = Udp!Kept(udpPrinted'[a].sent)
  BY <1>3, <1>6 DEF UdpInv, UdpDatagrams
<1> QED BY <1>1, <1>6, <1>7, <1>8, <1>9 DEF UdpInv, UdpDatagrams, Udp!Kept, Udp!NoEcho

LEMMA UdpNext == ASSUME Udp!UdpAssumption, UdpInv, [Udp!Next]_Udp!vars PROVE UdpInv'
<1> USE DEF UdpInv
<1>1. ASSUME NEW c \in UdpClients, Udp!Input(c) PROVE UdpInv'
  <2>1. PICK n \in Sizes : Udp!Write(c, [line |-> udpRound[c] + 1, size |-> n])
    BY <1>1 DEF Udp!Input
  <2>2. [line |-> udpRound[c] + 1, size |-> n] \in [line : Nat, size : Nat] /\ udpRound[c] \in Nat
    BY DEF UdpTypes, Udp!UdpAssumption
  <2> QED BY <1>1, <2>1, <2>2, UdpWrite DEF Udp!Input
<1>2. ASSUME NEW c \in UdpClients, Udp!InputFails(c) PROVE UdpInv'
  <2>1. CASE c \in Connected
    <3>1. udpSend[c] \in [line : Nat, size : Nat] /\ udpSend[c].line <= udpRound[c] + 1
      BY DEF UdpTypes, Udp!UdpAssumption
    <3> QED BY <1>2, <2>1, <3>1, UdpWrite DEF Udp!InputFails
  <2>2. CASE c \notin Connected
    <3>1. /\ udpCpc' = [udpCpc EXCEPT ![c] = "ended"]
          /\ UNCHANGED <<udpSend, udpRound, udpPrinted, udpRefused, udpUp, udpToServer, udpToClient, udpDisturbed>>
      BY <1>2, <2>2 DEF Udp!InputFails, Udp!Goto
    <3>2. UdpTypes'
      BY <3>1 DEF UdpTypes
    <3> QED BY <3>1, <3>2, UdpFrame DEF UdpDatagrams
  <2> QED BY <2>1, <2>2
<1>3. ASSUME NEW c \in UdpClients, Udp!ClientRead(c) PROVE UdpInv'
  <2>1. PICK d \in Udp!BagToSet(udpToClient) :
          /\ d.addr = c /\ udpToClient' = Udp!BagRemove(udpToClient, d)
          /\ udpPrinted' = [udpPrinted EXCEPT ![c] = [d EXCEPT !.size = Udp!Kept(d.size)]]
    BY <1>3 DEF Udp!ClientRead
  <2>2. udpCpc' = [udpCpc EXCEPT ![c] = "input"] /\ UNCHANGED <<udpSend, udpRound, udpRefused, udpUp, udpToServer, udpDisturbed>>
    BY <1>3 DEF Udp!ClientRead, Udp!Goto
  <2>3. UdpTypes'
    BY <2>1, <2>2 DEF UdpTypes
  <2>4. Udp!BagToSet(udpToClient)' \subseteq Udp!BagToSet(udpToClient)
    BY <2>1, RemoveFromBag
  <2>5. Genuine(d) /\ Udp!Kept(d.size) = Udp!Kept(d.sent) /\ d \in Datagrams /\ d.sent \in Nat
    BY DEF UdpDatagrams, Genuine, Datagrams
  <2>6. Udp!Kept(d.size) = Udp!Kept(d.sent) /\ Udp!Kept(d.sent) \in Nat
    BY <2>5, KeptTwice
  <2> DEFINE e == [d EXCEPT !.size = Udp!Kept(d.size)]
  <2>7. e.addr = c /\ Genuine(e) /\ e.size = Udp!Kept(e.sent)
    BY <2>1, <2>5, <2>6 DEF Genuine, Datagrams
  <2> HIDE DEF e
  <2>8. \A a \in UdpClients : udpPrinted'[a] # Udp!NoEcho =>
          udpPrinted'[a].addr = a /\ Genuine(udpPrinted'[a]) /\ udpPrinted'[a].size = Udp!Kept(udpPrinted'[a].sent)
    <3>1. udpPrinted' = [udpPrinted EXCEPT ![c] = e] /\ DOMAIN udpPrinted = UdpClients
      BY <2>1 DEF e, UdpTypes
    <3> QED BY <3>1, <2>7 DEF UdpDatagrams
  <2> QED BY <2>2, <2>3, <2>4, <2>8, UdpFrame DEF UdpDatagrams
<1>4. ASSUME NEW c \in UdpClients, Udp!ReadFails(c) PROVE UdpInv'
  <2>1. /\ udpRefused' = [udpRefused EXCEPT ![c] = FALSE] /\ udpPrinted' = [udpPrinted EXCEPT ![c] = Udp!NoEcho]
        /\ udpCpc' = [udpCpc EXCEPT ![c] = "input"] /\ UNCHANGED <<udpSend, udpRound, udpUp, udpToServer, udpToClient, udpDisturbed>>
    BY <1>4 DEF Udp!ReadFails, Udp!Goto
  <2>2. udpRefused' \in [UdpClients -> BOOLEAN] /\ \A a \in UdpClients : udpRefused'[a] => a \in Connected
    BY <2>1 DEF UdpTypes
  <2>3. UdpTypes'
    BY <2>1, <2>2 DEF UdpTypes
  <2>4. \A a \in UdpClients : udpPrinted'[a] # Udp!NoEcho =>
          udpPrinted'[a].addr = a /\ Genuine(udpPrinted'[a]) /\ udpPrinted'[a].size = Udp!Kept(udpPrinted'[a].sent)
    BY <2>1 DEF UdpTypes, UdpDatagrams
  <2> QED BY <2>1, <2>3, <2>4, UdpFrame DEF UdpDatagrams
<1>5. CASE Udp!Serve
  <2>1. PICK d \in Udp!BagToSet(udpToServer) :
          /\ udpToServer' = Udp!BagRemove(udpToServer, d)
          /\ udpToClient' = Udp!BagAdd(udpToClient, [d EXCEPT !.size = Udp!Kept(d.size)])
    BY <1>5 DEF Udp!Serve
  <2>2. UNCHANGED <<udpCpc, udpSend, udpRound, udpPrinted, udpRefused, udpUp, udpDisturbed>>
    BY <1>5 DEF Udp!Serve
  <2>3. UdpTypes'
    BY <2>2 DEF UdpTypes
  <2>4. Udp!BagToSet(udpToServer)' \subseteq Udp!BagToSet(udpToServer)
    BY <2>1, RemoveFromBag
  <2> DEFINE e == [d EXCEPT !.size = Udp!Kept(d.size)]
  <2>5. Genuine(e) /\ Udp!Kept(e.size) = Udp!Kept(e.sent)
    <3>1. Genuine(d) /\ d.size = d.sent /\ d \in Datagrams /\ d.size \in Nat
      BY DEF UdpDatagrams, Genuine, Datagrams
    <3>2. Udp!Kept(d.size) \in Nat /\ Udp!Kept(Udp!Kept(d.size)) = Udp!Kept(d.size)
      BY <3>1, KeptTwice
    <3> QED BY <3>1, <3>2 DEF Genuine, Datagrams
  <2>6. Udp!BagToSet(udpToClient)' = Udp!BagToSet(udpToClient) \cup {e}
    BY <2>1, AddToBag
  <2> HIDE DEF e
  <2> QED BY <2>2, <2>3, <2>4, <2>5, <2>6, UdpFrame DEF UdpDatagrams
<1>6. CASE Udp!ServerExits
  <2>1. UdpTypes' /\ UNCHANGED <<udpRound, udpPrinted, udpToServer, udpToClient, udpDisturbed>>
    BY <1>6 DEF Udp!ServerExits, UdpTypes
  <2> QED BY <2>1, UdpFrame DEF UdpDatagrams
<1>7. CASE Udp!Unreachable
  <2>1. PICK d \in Udp!BagToSet(udpToServer) :
          /\ udpToServer' = Udp!BagRemove(udpToServer, d)
          /\ udpRefused' = [udpRefused EXCEPT ![d.addr] = udpRefused[d.addr] \/ d.addr \in Connected]
    BY <1>7 DEF Udp!Unreachable
  <2>2. UNCHANGED <<udpCpc, udpSend, udpRound, udpPrinted, udpUp, udpToClient, udpDisturbed>>
    BY <1>7 DEF Udp!Unreachable
  <2>3. Udp!BagToSet(udpToServer)' \subseteq Udp!BagToSet(udpToServer)
    BY <2>1, RemoveFromBag
  <2>4. udpRefused' \in [UdpClients -> BOOLEAN] /\ \A a \in UdpClients : udpRefused'[a] => a \in Connected
    BY <2>1 DEF UdpTypes
  <2>5. UdpTypes'
    BY <2>2, <2>4 DEF UdpTypes
  <2> QED BY <2>2, <2>3, <2>5, UdpFrame DEF UdpDatagrams
<1>8. CASE Udp!Lose \/ Udp!Copy
  <2>1. /\ UNCHANGED <<udpCpc, udpSend, udpRound, udpPrinted, udpRefused, udpUp>> /\ udpDisturbed' \in BOOLEAN
        /\ udpDisturbed => udpDisturbed'
    BY <1>8 DEF Udp!Lose, Udp!Copy, UdpTypes
  <2>2. UdpTypes'
    BY <2>1 DEF UdpTypes
  <2>3. Udp!BagToSet(udpToServer)' \subseteq Udp!BagToSet(udpToServer) /\ Udp!BagToSet(udpToClient)' \subseteq Udp!BagToSet(udpToClient)
    <3>1. CASE Udp!Lose
      BY <3>1, RemoveFromBag DEF Udp!Lose
    <3>2. CASE Udp!Copy
      BY <3>2, AddToBag DEF Udp!Copy
    <3> QED BY <1>8, <3>1, <3>2
  <2> QED BY <2>1, <2>2, <2>3, UdpFrame DEF UdpDatagrams
<1>9. CASE UNCHANGED Udp!vars
  <2>1. UdpTypes' /\ UNCHANGED <<udpRound, udpPrinted, udpToServer, udpToClient, udpDisturbed>>
    BY <1>9 DEF Udp!vars, UdpTypes
  <2> QED BY <2>1, UdpFrame DEF UdpDatagrams
<1>10. ASSUME NEW c \in UdpClients, Udp!Stray(c) PROVE UdpInv'
  <2>1. PICK n \in Sizes :
          udpToClient' = Udp!BagAdd(udpToClient, [addr |-> c, by |-> Udp!Stranger, line |-> 0, size |-> n,
                                                  round |-> 0, sent |-> n])
    BY <1>10 DEF Udp!Stray
  <2>2. /\ UNCHANGED <<udpCpc, udpSend, udpRound, udpPrinted, udpRefused, udpUp, udpToServer>>
        /\ udpDisturbed' = TRUE /\ c \notin Connected
    BY <1>10 DEF Udp!Stray
  <2>3. UdpTypes'
    BY <2>2 DEF UdpTypes
  <2>10. PICK e : e = [addr |-> c, by |-> Udp!Stranger, line |-> 0, size |-> n, round |-> 0, sent |-> n]
    OBVIOUS
  <2>4. Udp!BagToSet(udpToClient)' = Udp!BagToSet(udpToClient) \cup {e}
    BY <2>1, <2>10, AddToBag
  <2>5. \A d : Genuine(d) => Genuine(d)'
    BY <2>2 DEF Genuine
  <2>6. Genuine(e)'
    <3>1. n \in Nat
      BY DEF Udp!UdpAssumption
    <3>2. udpRound[c] \in Nat
      BY DEF UdpTypes, Udp!UdpAssumption
    <3> QED BY <2>2, <2>10, <3>1, <3>2 DEF Genuine, Datagrams
  <2>7. Udp!Kept(e.size) = Udp!Kept(e.sent)
    BY <2>10
  <2>8. \A d \in Udp!BagToSet(udpToServer)' : Genuine(d)' /\ d.size = d.sent
    BY <2>2, <2>5 DEF UdpDatagrams
  <2>9. \A d \in Udp!BagToSet(udpToClient)' : Genuine(d)' /\ Udp!Kept(d.size) = Udp!Kept(d.sent)
    BY <2>4, <2>5, <2>6, <2>7 DEF UdpDatagrams
  <2>11. \A a \in UdpClients : udpPrinted'[a] # Udp!NoEcho =>
           udpPrinted'[a].addr = a /\ Genuine(udpPrinted[a])' /\ udpPrinted'[a].size = Udp!Kept(udpPrinted'[a].sent)
    BY <2>2, <2>5 DEF UdpDatagrams
  <2> QED BY <2>2, <2>3, <2>8, <2>9, <2>11 DEF UdpDatagrams, Udp!Kept, Udp!NoEcho
<1> QED
  BY <1>1, <1>2, <1>3, <1>4, <1>5, <1>6, <1>7, <1>8, <1>9, <1>10 DEF Udp!Next

\* Before the first duplicate or stray datagram: one copy of a datagram at most, one datagram of a
\* client at most, that of its last line, and none once its socket was refused or
\* the client has read.
Single(B) ==
  /\ \A d \in Udp!BagToSet(B) : B[d] = 1
  /\ \A d, e \in Udp!BagToSet(B) : d.addr = e.addr => d = e
  /\ \A d \in Udp!BagToSet(B) :
       /\ udpCpc[d.addr] = "read" /\ ~udpRefused[d.addr]
       /\ d.round = udpRound[d.addr] /\ d.line = udpSend[d.addr].line

Fresh(c) ==
  udpCpc[c] = "input" =>
    /\ ~udpRefused[c]
    /\ udpPrinted[c] # Udp!NoEcho => udpPrinted[c].round = udpRound[c] /\ udpPrinted[c].line = udpSend[c].line

UdpOne ==
  ~udpDisturbed =>
    /\ Single(udpToServer) /\ Single(udpToClient)
    /\ \A d \in Udp!BagToSet(udpToServer), e \in Udp!BagToSet(udpToClient) : d.addr # e.addr
    /\ \A c \in UdpClients : Fresh(c)

LEMMA FromClients ==
  ASSUME UdpInv
  PROVE  \A d \in Udp!BagToSet(udpToServer) \cup Udp!BagToSet(udpToClient) : d \in Datagrams /\ d.addr \in UdpClients
BY DEF UdpInv, UdpDatagrams, Genuine, Datagrams

LEMMA OneWrite ==
  ASSUME Udp!UdpAssumption, UdpInv, UdpOne, ~udpDisturbed, NEW c \in UdpClients, udpCpc[c] = "input",
         NEW line \in [line : Nat, size : Nat], Udp!Write(c, line)
  PROVE  UdpOne'
<1>1. /\ udpSend' = [udpSend EXCEPT ![c] = line] /\ udpRound' = [udpRound EXCEPT ![c] = udpRound[c] + 1]
      /\ udpRefused' = [udpRefused EXCEPT ![c] = FALSE] /\ udpCpc' = [udpCpc EXCEPT ![c] = "read"]
      /\ UNCHANGED <<udpPrinted, udpToClient>>
  BY DEF Udp!Write, Udp!Goto
<1>2. /\ DOMAIN udpSend = UdpClients /\ DOMAIN udpRound = UdpClients /\ DOMAIN udpRefused = UdpClients
      /\ DOMAIN udpCpc = UdpClients
  BY DEF UdpInv, UdpTypes
<1>3. \A d \in Udp!BagToSet(udpToServer) \cup Udp!BagToSet(udpToClient) : d.addr # c /\ d.addr \in UdpClients
  BY FromClients DEF UdpOne, Single
<1>4. \A a \in UdpClients : a # c => /\ udpCpc'[a] = udpCpc[a] /\ udpRefused'[a] = udpRefused[a]
                                 /\ udpRound'[a] = udpRound[a] /\ udpSend'[a] = udpSend[a]
  BY <1>1, <1>2
<1>5. PICK new : new = [addr |-> c, by |-> c, line |-> line.line, size |-> line.size,
                        round |-> udpRound[c] + 1, sent |-> line.size]
  OBVIOUS
<1>6. /\ new.addr = c /\ new.round = udpRound'[c] /\ new.line = udpSend'[c].line /\ udpCpc'[c] = "read"
      /\ ~udpRefused'[c]
  BY <1>1, <1>2, <1>5
<1>7. udpToServer' = Udp!BagAdd(udpToServer, new)
  <2>1. ~udpRefused[c]
    BY DEF UdpOne, Fresh
  <2> QED BY <1>5, <2>1 DEF Udp!Write
<1>8. /\ Udp!BagToSet(udpToServer)' = Udp!BagToSet(udpToServer) \cup {new}
      /\ new \notin Udp!BagToSet(udpToServer) /\ udpToServer'[new] = 1
      /\ \A d \in Udp!BagToSet(udpToServer) : udpToServer'[d] = udpToServer[d]
  <2>1. new \notin Udp!BagToSet(udpToServer)
    BY <1>3, <1>6
  <2> QED BY <1>7, <2>1, AddToBag
<1>9. Single(udpToServer)'
  <2>1. Single(udpToServer)
    BY DEF UdpOne
  <2> QED BY <1>3, <1>4, <1>6, <1>8, <2>1 DEF Single
<1>10. Single(udpToClient)'
  <2>1. Single(udpToClient) /\ udpToClient' = udpToClient
    BY <1>1 DEF UdpOne
  <2> QED BY <1>3, <1>4, <2>1 DEF Single
<1>11. \A d \in Udp!BagToSet(udpToServer)', e \in Udp!BagToSet(udpToClient)' : d.addr # e.addr
  BY <1>1, <1>3, <1>6, <1>8 DEF UdpOne
<1>12. \A a \in UdpClients : Fresh(a)'
  BY <1>1, <1>4, <1>6 DEF UdpOne, Fresh, Udp!NoEcho
<1> QED BY <1>9, <1>10, <1>11, <1>12 DEF UdpOne

LEMMA OneNext == ASSUME Udp!UdpAssumption, UdpInv, UdpOne, [Udp!Next]_Udp!vars PROVE UdpOne'
<1> SUFFICES ASSUME ~udpDisturbed' PROVE UdpOne'
  BY DEF UdpOne
<1>0. ~udpDisturbed /\ Single(udpToServer) /\ Single(udpToClient) /\ \A c \in UdpClients : Fresh(c)
  <2>1. ~udpDisturbed
    BY DEF Udp!Next, Udp!Input, Udp!InputFails, Udp!Write, Udp!ClientRead, Udp!ReadFails, Udp!Serve, Udp!ServerExits, Udp!Unreachable, Udp!Lose, Udp!Copy,
           Udp!Stray, Udp!vars
  <2> QED BY <2>1 DEF UdpOne
<1>a. \A d \in Udp!BagToSet(udpToServer), e \in Udp!BagToSet(udpToClient) : d.addr # e.addr
  BY <1>0 DEF UdpOne
<1>b. /\ DOMAIN udpSend = UdpClients /\ DOMAIN udpRound = UdpClients /\ DOMAIN udpRefused = UdpClients
      /\ DOMAIN udpCpc = UdpClients /\ DOMAIN udpPrinted = UdpClients
  BY DEF UdpInv, UdpTypes
<1>1. ASSUME NEW c \in UdpClients, Udp!Input(c) PROVE UdpOne'
  <2>1. PICK n \in Sizes : Udp!Write(c, [line |-> udpRound[c] + 1, size |-> n])
    BY <1>1 DEF Udp!Input
  <2>2. [line |-> udpRound[c] + 1, size |-> n] \in [line : Nat, size : Nat]
    BY DEF UdpInv, UdpTypes, Udp!UdpAssumption
  <2> QED BY <1>0, <1>1, <2>1, <2>2, OneWrite DEF Udp!Input
<1>2. ASSUME NEW c \in UdpClients, Udp!InputFails(c) PROVE UdpOne'
  <2>1. CASE c \in Connected
    <3>1. udpSend[c] \in [line : Nat, size : Nat]
      BY DEF UdpInv, UdpTypes
    <3> QED BY <1>0, <1>2, <2>1, <3>1, OneWrite DEF Udp!InputFails
  <2>2. CASE c \notin Connected
    <3>1. /\ udpCpc' = [udpCpc EXCEPT ![c] = "ended"]
          /\ UNCHANGED <<udpSend, udpRound, udpPrinted, udpRefused, udpToServer, udpToClient>>
      BY <1>2, <2>2 DEF Udp!InputFails, Udp!Goto
    <3>2. \A d \in Udp!BagToSet(udpToServer) \cup Udp!BagToSet(udpToClient) : d.addr # c /\ d.addr \in UdpClients
      BY <1>0, <1>2, FromClients DEF Udp!InputFails, Single
    <3>3. Single(udpToServer)' /\ Single(udpToClient)'
      BY <1>0, <1>b, <3>1, <3>2 DEF Single
    <3>4. \A a \in UdpClients : Fresh(a)'
      BY <1>0, <1>b, <3>1 DEF Fresh, Udp!NoEcho
    <3> QED BY <1>a, <3>1, <3>3, <3>4 DEF UdpOne
  <2> QED BY <2>1, <2>2
<1>3. ASSUME NEW c \in UdpClients, Udp!ClientRead(c) PROVE UdpOne'
  <2>1. PICK d \in Udp!BagToSet(udpToClient) :
          /\ d.addr = c /\ udpToClient' = Udp!BagRemove(udpToClient, d)
          /\ udpPrinted' = [udpPrinted EXCEPT ![c] = [d EXCEPT !.size = Udp!Kept(d.size)]]
    BY <1>3 DEF Udp!ClientRead
  <2>2. udpCpc' = [udpCpc EXCEPT ![c] = "input"] /\ UNCHANGED <<udpSend, udpRound, udpRefused, udpToServer>>
    BY <1>3 DEF Udp!ClientRead, Udp!Goto
  <2>3. /\ Udp!BagToSet(udpToClient)' = Udp!BagToSet(udpToClient) \ {d}
        /\ \A e \in Udp!BagToSet(udpToClient)' : udpToClient'[e] = udpToClient[e]
    BY <1>0, <2>1, RemoveFromBag DEF Single
  <2>4. \A e \in Udp!BagToSet(udpToServer)' \cup Udp!BagToSet(udpToClient)' : e.addr # c /\ e.addr \in UdpClients
    BY <1>0, <1>a, <2>1, <2>2, <2>3, FromClients DEF Single
  <2>5. \A a \in UdpClients : a # c => udpCpc'[a] = udpCpc[a] /\ udpPrinted'[a] = udpPrinted[a]
    BY <1>b, <2>1, <2>2
  <2>6. Single(udpToServer)'
    BY <1>0, <2>2, <2>4, <2>5 DEF Single
  <2>7. Single(udpToClient)'
    BY <1>0, <2>2, <2>3, <2>4, <2>5 DEF Single
  <2>8. udpPrinted'[c].round = udpRound[c] /\ udpPrinted'[c].line = udpSend[c].line /\ ~udpRefused[c]
    <3>1. d \in Datagrams /\ d.round = udpRound[c] /\ d.line = udpSend[c].line /\ ~udpRefused[c]
      BY <1>0, <2>1, FromClients DEF Single
    <3> QED BY <1>b, <2>1, <3>1 DEF Datagrams
  <2>9. \A a \in UdpClients : Fresh(a)'
    BY <1>0, <2>2, <2>5, <2>8 DEF Fresh, Udp!NoEcho
  <2> QED BY <1>a, <2>2, <2>3, <2>6, <2>7, <2>9 DEF UdpOne
<1>4. ASSUME NEW c \in UdpClients, Udp!ReadFails(c) PROVE UdpOne'
  <2>1. /\ udpRefused[c] /\ udpRefused' = [udpRefused EXCEPT ![c] = FALSE]
        /\ udpPrinted' = [udpPrinted EXCEPT ![c] = Udp!NoEcho]
        /\ udpCpc' = [udpCpc EXCEPT ![c] = "input"] /\ UNCHANGED <<udpSend, udpRound, udpToServer, udpToClient>>
    BY <1>4 DEF Udp!ReadFails, Udp!Goto
  <2>2. \A d \in Udp!BagToSet(udpToServer) \cup Udp!BagToSet(udpToClient) : d.addr # c /\ d.addr \in UdpClients
    BY <1>0, <2>1, FromClients DEF Single
  <2>3. \A a \in UdpClients : a # c => udpCpc'[a] = udpCpc[a] /\ udpPrinted'[a] = udpPrinted[a] /\ udpRefused'[a] = udpRefused[a]
    BY <1>b, <2>1
  <2>4. Single(udpToServer)' /\ Single(udpToClient)'
    BY <1>0, <2>1, <2>2, <2>3 DEF Single
  <2>5. ~udpRefused'[c] /\ udpPrinted'[c] = Udp!NoEcho
    BY <1>b, <2>1
  <2>6. \A a \in UdpClients : Fresh(a)'
    BY <1>0, <2>1, <2>3, <2>5 DEF Fresh, Udp!NoEcho
  <2> QED BY <1>a, <2>1, <2>4, <2>6 DEF UdpOne
<1>5. CASE Udp!Serve
  <2>1. PICK d \in Udp!BagToSet(udpToServer) :
          /\ udpToServer' = Udp!BagRemove(udpToServer, d)
          /\ udpToClient' = Udp!BagAdd(udpToClient, [d EXCEPT !.size = Udp!Kept(d.size)])
    BY <1>5 DEF Udp!Serve
  <2>2. UNCHANGED <<udpCpc, udpSend, udpRound, udpPrinted, udpRefused>>
    BY <1>5 DEF Udp!Serve
  <2>3. PICK e : e = [d EXCEPT !.size = Udp!Kept(d.size)]
    OBVIOUS
  <2>4. e.addr = d.addr /\ e.round = d.round /\ e.line = d.line
    <3>1. d \in Datagrams
      BY FromClients
    <3> QED BY <2>3, <3>1 DEF Datagrams
  <2>5. /\ Udp!BagToSet(udpToServer)' = Udp!BagToSet(udpToServer) \ {d}
        /\ \A x \in Udp!BagToSet(udpToServer)' : udpToServer'[x] = udpToServer[x]
    BY <1>0, <2>1, RemoveFromBag DEF Single
  <2>6. e \notin Udp!BagToSet(udpToClient) /\ \A x \in Udp!BagToSet(udpToClient) : x.addr # e.addr
    BY <1>a, <2>4
  <2>7. /\ Udp!BagToSet(udpToClient)' = Udp!BagToSet(udpToClient) \cup {e}
        /\ udpToClient'[e] = 1
        /\ \A x \in Udp!BagToSet(udpToClient) : udpToClient'[x] = udpToClient[x]
    <3>1. udpToClient' = Udp!BagAdd(udpToClient, e)
      BY <2>1, <2>3
    <3> QED BY <2>6, <3>1, AddToBag
  <2>8. Single(udpToServer)'
    BY <1>0, <2>2, <2>5 DEF Single
  <2>9. Single(udpToClient)'
    BY <1>0, <2>2, <2>4, <2>6, <2>7 DEF Single
  <2>10. \A x \in Udp!BagToSet(udpToServer)', y \in Udp!BagToSet(udpToClient)' : x.addr # y.addr
    BY <1>0, <1>a, <2>4, <2>5, <2>7 DEF Single
  <2>11. \A a \in UdpClients : Fresh(a)'
    BY <1>0, <2>2 DEF Fresh, Udp!NoEcho
  <2> QED BY <2>8, <2>9, <2>10, <2>11 DEF UdpOne
<1>6. CASE Udp!ServerExits \/ UNCHANGED Udp!vars
  <2>1. UNCHANGED <<udpCpc, udpSend, udpRound, udpPrinted, udpRefused, udpToServer, udpToClient>>
    BY <1>6 DEF Udp!ServerExits, Udp!vars
  <2> QED BY <1>0, <1>a, <2>1 DEF UdpOne, Single, Fresh, Udp!NoEcho
<1>7. CASE Udp!Unreachable
  <2>1. PICK d \in Udp!BagToSet(udpToServer) :
          /\ udpToServer' = Udp!BagRemove(udpToServer, d)
          /\ udpRefused' = [udpRefused EXCEPT ![d.addr] = udpRefused[d.addr] \/ d.addr \in Connected]
    BY <1>7 DEF Udp!Unreachable
  <2>2. UNCHANGED <<udpCpc, udpSend, udpRound, udpPrinted, udpToClient>>
    BY <1>7 DEF Udp!Unreachable
  <2>3. /\ Udp!BagToSet(udpToServer)' = Udp!BagToSet(udpToServer) \ {d}
        /\ \A x \in Udp!BagToSet(udpToServer)' : udpToServer'[x] = udpToServer[x]
    BY <1>0, <2>1, RemoveFromBag DEF Single
  <2>4. \A e \in Udp!BagToSet(udpToServer)' \cup Udp!BagToSet(udpToClient)' : e.addr # d.addr /\ e.addr \in UdpClients
    BY <1>0, <1>a, <2>2, <2>3, FromClients DEF Single
  <2>5. \A a \in UdpClients : a # d.addr => udpRefused'[a] = udpRefused[a]
    BY <1>b, <2>1
  <2>6. Single(udpToServer)'
    BY <1>0, <2>2, <2>3, <2>4, <2>5 DEF Single
  <2>7. Single(udpToClient)'
    BY <1>0, <2>2, <2>4, <2>5 DEF Single
  <2>8. udpCpc[d.addr] = "read"
    BY <1>0 DEF Single
  <2>9. \A a \in UdpClients : Fresh(a)'
    BY <1>0, <2>2, <2>5, <2>8 DEF Fresh, Udp!NoEcho
  <2> QED BY <1>a, <2>2, <2>3, <2>6, <2>7, <2>9 DEF UdpOne
<1>8. CASE Udp!Lose
  <2>1. UNCHANGED <<udpCpc, udpSend, udpRound, udpPrinted, udpRefused>>
    BY <1>8 DEF Udp!Lose
  <2>2. /\ Udp!BagToSet(udpToServer)' \subseteq Udp!BagToSet(udpToServer)
        /\ Udp!BagToSet(udpToClient)' \subseteq Udp!BagToSet(udpToClient)
        /\ \A x \in Udp!BagToSet(udpToServer)' : udpToServer'[x] = udpToServer[x]
        /\ \A x \in Udp!BagToSet(udpToClient)' : udpToClient'[x] = udpToClient[x]
    <3>1. CASE \E d \in Udp!BagToSet(udpToServer) : udpToServer' = Udp!BagRemove(udpToServer, d) /\ UNCHANGED udpToClient
      BY <1>0, <3>1, RemoveFromBag DEF Single
    <3>2. CASE \E d \in Udp!BagToSet(udpToClient) : udpToClient' = Udp!BagRemove(udpToClient, d) /\ UNCHANGED udpToServer
      BY <1>0, <3>2, RemoveFromBag DEF Single
    <3> QED BY <1>8, <3>1, <3>2 DEF Udp!Lose
  <2>3. Single(udpToServer)' /\ Single(udpToClient)'
    BY <1>0, <2>1, <2>2 DEF Single
  <2>4. \A a \in UdpClients : Fresh(a)'
    BY <1>0, <2>1 DEF Fresh, Udp!NoEcho
  <2> QED BY <1>a, <2>2, <2>3, <2>4 DEF UdpOne
<1>9. CASE Udp!Copy \/ \E c \in UdpClients : Udp!Stray(c)
  BY <1>9 DEF Udp!Copy, Udp!Stray
<1> QED
  BY <1>1, <1>2, <1>3, <1>4, <1>5, <1>6, <1>7, <1>8, <1>9 DEF Udp!Next

UdpSteps == Udp!Init /\ [][Udp!Next]_Udp!vars

LEMMA UdpInvariant == ASSUME Udp!UdpAssumption PROVE UdpSteps => [](UdpInv /\ UdpOne)
<1>1. Udp!Init => UdpInv
  BY UdpInit
<1>2. Udp!Init => UdpOne
  <2>1. Udp!Init => Udp!BagToSet(udpToServer) = {} /\ Udp!BagToSet(udpToClient) = {}
    BY DEF Udp!Init, Udp!EmptyBag, Udp!SetToBag, Udp!BagToSet
  <2> QED BY <2>1 DEF Udp!Init, UdpOne, Single, Fresh
<1>3. UdpInv /\ [Udp!Next]_Udp!vars => UdpInv'
  BY UdpNext
<1>4. UdpInv /\ UdpOne /\ [Udp!Next]_Udp!vars => UdpOne'
  BY OneNext
<1> QED BY <1>1, <1>2, <1>3, <1>4, PTL DEF UdpSteps

THEOREM UdpTyped == ASSUME Udp!UdpAssumption PROVE UdpSteps => []Udp!TypeOK
<1>1. UdpInv => Udp!TypeOK
  <2>1. \A d \in Udp!BagToSet(udpToServer) \cup Udp!BagToSet(udpToClient) :
          UdpInv => d.addr \in UdpClients /\ d.round \in 0 .. udpRound[d.addr]
    BY DEF UdpInv, UdpDatagrams, Genuine, Datagrams
  <2> QED BY <2>1 DEF UdpInv, UdpTypes, Udp!TypeOK
<1> QED BY <1>1, UdpInvariant, PTL

\* What a client prints is its own, or a stranger's datagram to an unconnected socket.
THEOREM EchoIsOwn == ASSUME Udp!UdpAssumption PROVE UdpSteps => []Udp!OwnEcho
<1>1. UdpInv => Udp!OwnEcho
  <2> SUFFICES ASSUME UdpInv, NEW c \in UdpClients, udpPrinted[c] # Udp!NoEcho
               PROVE  LET e == udpPrinted[c]
                      IN /\ e.size = Udp!Kept(e.sent)
                         /\ \/ e.by = c /\ e.line <= e.round /\ e.round <= udpRound[c]
                            \/ e.by = Udp!Stranger /\ udpDisturbed /\ c \notin Connected
    BY DEF Udp!OwnEcho
  <2>1. udpPrinted[c].addr = c /\ Genuine(udpPrinted[c]) /\ udpPrinted[c].size = Udp!Kept(udpPrinted[c].sent)
    BY DEF UdpInv, UdpDatagrams
  <2>2. udpRound[c] \in Nat
    BY DEF UdpInv, UdpTypes, Udp!UdpAssumption
  <2> QED BY <2>1, <2>2 DEF Genuine
<1> QED BY <1>1, UdpInvariant, PTL

\* Before the first duplicate or stray datagram clients are in step.
THEOREM UdpInStep == ASSUME Udp!UdpAssumption PROVE UdpSteps => []Udp!InStep
<1>1. UdpInv /\ UdpOne => Udp!InStep
  <2> SUFFICES ASSUME UdpInv, UdpOne, ~udpDisturbed, NEW c \in UdpClients
               PROVE  /\ udpCpc[c] = "input" /\ udpPrinted[c] # Udp!NoEcho =>
                           udpPrinted[c].round = udpRound[c] /\ udpPrinted[c].line = udpSend[c].line
                      /\ Udp!Cardinality({d \in Udp!BagToSet(udpToServer) \cup Udp!BagToSet(udpToClient) : d.addr = c})
                           <= IF udpCpc[c] = "read" THEN 1 ELSE 0
    BY DEF Udp!InStep
  <2> DEFINE Own == {d \in Udp!BagToSet(udpToServer) \cup Udp!BagToSet(udpToClient) : d.addr = c}
  <2>1. \A d, e \in Own : d = e
    BY DEF UdpOne, Single
  <2>2. udpCpc[c] # "read" => Own = {}
    BY DEF UdpOne, Single
  <2>3. Own = {} \/ \E d : Own = {d}
    BY <2>1
  <2> HIDE DEF Own
  <2>4. Udp!Cardinality(Own) <= 1 /\ (Own = {} => Udp!Cardinality(Own) = 0)
    <3>1. CASE Own = {}
      BY <3>1, FS_EmptySet, UdpCard
    <3>2. CASE \E d : Own = {d}
      <4>1. PICK d : Own = {d}
        BY <3>2
      <4> QED BY <4>1, FS_Singleton, UdpCard
    <3> QED BY <2>3, <3>1, <3>2
  <2>5. Udp!Cardinality(Own) <= IF udpCpc[c] = "read" THEN 1 ELSE 0
    BY <2>2, <2>4
  <2> QED BY <2>5 DEF Own, UdpOne, Fresh
<1> QED BY <1>1, UdpInvariant, PTL

-----------------------------------------------------------------------------
(* HalfClose.                                                              *)

\* The least of two numbers.
LEMMA HalfMin ==
  ASSUME NEW a \in Nat, NEW b \in Nat
  PROVE  Half!Min({a, b}) = IF a <= b THEN a ELSE b
BY DEF Half!Min

HalfTypes ==
  /\ halfKind \in HalfKinds /\ HalfKinds \subseteq {"file", "server1", "server2"}
  /\ halfSpc \in {"listen", "open", "write", "endOutput", "readThanks", "done", "exit1"}
  /\ halfCpc \in {"dial", "loop", "reading", "thank", "done"}
  /\ halfFds \in 0 .. 3 /\ halfShut \in BOOLEAN /\ halfC2s \in BOOLEAN
  /\ halfCollected \in BOOLEAN /\ halfThanked \in BOOLEAN
  /\ halfLeft \in Nat /\ halfBio \in Nat /\ halfS2c \in Nat /\ halfGot \in Nat /\ halfTotal \in Nat
  /\ halfLeft + halfBio + halfS2c + halfGot = halfTotal
  /\ halfKind = "server1" /\ halfSpc \in {"listen", "write"} => halfLeft \in {LineLen, 2 * LineLen, 3 * LineLen}
  /\ halfKind # "file" => halfBio = 0

\* A descriptor is open until the server ends, and shutdown is called once all is written.
HalfPlaces ==
  /\ halfSpc \in {"open", "write", "endOutput", "readThanks"} => halfFds > 0
  /\ halfSpc \in {"open", "write", "endOutput"} => halfFds = IF halfKind = "file" THEN 1 ELSE 3
  /\ halfSpc = "open" => halfKind = "file"
  /\ halfShut => halfSpc \in {"readThanks", "done"}

\* The bytes that a full buffer leaves over when it is handed out in pieces of BUF_SIZE.
HalfRem == HalfBufio % HalfBuf

\* While the server writes, the rest of the file is in the buffer, or nothing of it has
\* been read, or the buffer holds whole pieces and what is left over; then, if anything
\* is left over, it is the first buffer and a longer file stays unread behind it.
HalfRest ==
  \/ halfLeft = 0 /\ (HalfRem # 0 => halfTotal <= HalfBufio)
  \/ halfLeft = halfTotal /\ halfBio = 0
  \/ /\ \E k \in Nat : halfBio = k * HalfBuf + HalfRem
     /\ HalfRem # 0 => halfTotal > HalfBufio /\ halfLeft = halfTotal - HalfBufio

HalfWritten ==
  /\ halfKind = "file" /\ halfSpc \in {"listen", "open", "write"} => HalfRest
  /\ halfSpc \in {"endOutput", "readThanks", "done"} => halfLeft = halfTotal - Half!Sent /\ halfBio = 0

HalfLeaves ==
  /\ halfCpc \in {"thank", "done"} /\ ~halfCollected =>
       \/ halfSpc = "exit1"
       \/ halfSpc \in {"readThanks", "done"} /\ halfS2c = 0 /\ halfGot = Half!Sent
  /\ halfCpc = "done" /\ ~halfCollected /\ halfSpc = "readThanks" => halfC2s
  /\ halfSpc = "done" /\ ~halfThanked => halfCollected

HalfInv == HalfTypes /\ HalfPlaces /\ HalfWritten /\ HalfLeaves

LEMMA HalfDivides ==
  ASSUME Half!SizesAssumption
  PROVE  HalfRem \in 0 .. HalfBuf - 1 /\ \E k \in Nat : HalfBufio = k * HalfBuf + HalfRem
<1>1. HalfBufio \in Nat /\ HalfBuf \in Nat \ {0}
  BY DEF Half!SizesAssumption
<1>2. HalfRem \in 0 .. HalfBuf - 1
  BY <1>1 DEF HalfRem
<1>3. HalfBufio \div HalfBuf \in Nat /\ HalfBufio = (HalfBufio \div HalfBuf) * HalfBuf + HalfRem
  BY <1>1 DEF HalfRem
<1> QED BY <1>2, <1>3

LEMMA HalfSends ==
  /\ Half!Sent = IF halfKind = "file" /\ halfTotal > HalfBufio /\ HalfRem # 0 THEN HalfBufio ELSE halfTotal
  /\ UNCHANGED <<halfKind, halfTotal>> => Half!Sent' = Half!Sent
  /\ UNCHANGED <<halfKind, halfTotal, halfLeft, halfBio>> => (HalfRest => HalfRest')
<1>1. Half!Sent = IF halfKind = "file" /\ halfTotal > HalfBufio /\ HalfRem # 0 THEN HalfBufio ELSE halfTotal
  BY DEF Half!Sent, HalfRem
<1>2. UNCHANGED <<halfKind, halfTotal>> => Half!Sent' = Half!Sent
  BY DEF Half!Sent
<1>3. UNCHANGED <<halfKind, halfTotal, halfLeft, halfBio>> => (HalfRest => HalfRest')
  BY DEF HalfRest, HalfRem
<1> QED BY <1>1, <1>2, <1>3

\* One piece taken out of a buffer.
LEMMA HalfTakes ==
  ASSUME NEW b \in Nat \ {0}, NEW k \in Nat, NEW r \in 0 .. b - 1, k * b + r >= b
  PROVE  \E m \in Nat : k * b + r - b = m * b + r
<1>1. k # 0
  OBVIOUS
<1>2. k - 1 \in Nat
  BY <1>1
<1>3. k * b + r - b = (k - 1) * b + r
  OBVIOUS
<1> QED BY <1>2, <1>3

\* One Read of the file: x bytes are buffered and n of them handed out, l stay unread.
HalfTaken(l, x, n) ==
  /\ l \in Nat /\ x - n \in Nat /\ l + x = halfLeft + halfBio
  /\ IF n < HalfBuf
     THEN x - n = 0 /\ l = halfTotal - (IF halfTotal > HalfBufio /\ HalfRem # 0 THEN HalfBufio ELSE halfTotal)
     ELSE \/ l = 0 /\ (HalfRem # 0 => halfTotal <= HalfBufio)
          \/ l = halfTotal /\ x - n = 0
          \/ (\E k \in Nat : x - n = k * HalfBuf + HalfRem) /\ (HalfRem # 0 => halfTotal > HalfBufio /\ l = halfTotal - HalfBufio)

LEMMA HalfReads ==
  ASSUME Half!SizesAssumption, HalfRest, halfTotal \in Nat, halfLeft \in Nat, halfBio \in Nat,
         NEW x \in Nat, NEW n \in Nat, NEW l \in Int,
         x = IF halfBio = 0 THEN IF HalfBufio <= halfLeft THEN HalfBufio ELSE halfLeft ELSE halfBio,
         n = IF HalfBuf <= x THEN HalfBuf ELSE x,
         l = IF halfBio = 0 THEN halfLeft - x ELSE halfLeft
  PROVE  HalfTaken(l, x, n)
<1>0. /\ HalfBuf \in Nat \ {0} /\ HalfBufio \in Nat \ {0} /\ HalfRem \in 0 .. HalfBuf - 1 /\ halfTotal \in Nat /\ halfLeft \in Nat /\ halfBio \in Nat
      /\ x \in Nat /\ n \in Nat /\ l \in Int
      /\ x = (IF halfBio = 0 THEN IF HalfBufio <= halfLeft THEN HalfBufio ELSE halfLeft ELSE halfBio) /\ n = (IF HalfBuf <= x THEN HalfBuf ELSE x)
      /\ l = IF halfBio = 0 THEN halfLeft - x ELSE halfLeft
  BY HalfDivides DEF Half!SizesAssumption
<1>3. PICK q \in Nat : HalfBufio = q * HalfBuf + HalfRem
  BY HalfDivides
<1>1. l \in Nat /\ x - n \in Nat /\ l + x = halfLeft + halfBio /\ n <= HalfBuf
  <2>1. CASE halfBio = 0
    BY ONLY <1>0, <2>1
  <2>2. CASE halfBio # 0
    BY ONLY <1>0, <2>2
  <2> QED BY <2>1, <2>2
<1>4. ASSUME NEW y \in Nat, \E k \in Nat : y = k * HalfBuf + HalfRem, y >= HalfBuf
      PROVE  \E m \in Nat : y - HalfBuf = m * HalfBuf + HalfRem
  BY <1>0, <1>4, HalfTakes
<1> DEFINE P == IF n < HalfBuf
                THEN x - n = 0 /\ l = halfTotal - (IF halfTotal > HalfBufio /\ HalfRem # 0 THEN HalfBufio ELSE halfTotal)
                ELSE \/ l = 0 /\ (HalfRem # 0 => halfTotal <= HalfBufio)
                     \/ l = halfTotal /\ x - n = 0
                     \/ (\E k \in Nat : x - n = k * HalfBuf + HalfRem) /\ (HalfRem # 0 => halfTotal > HalfBufio /\ l = halfTotal - HalfBufio)
<1> SUFFICES P
  BY <1>1 DEF HalfTaken
<1>5. CASE halfLeft = 0 /\ (HalfRem # 0 => halfTotal <= HalfBufio)
  <2>1. l = 0 /\ (n < HalfBuf => x = n)
    <3>1. CASE halfBio = 0
      <4>1. x = 0
        BY ONLY <1>0, <1>5, <3>1
      <4>2. l = 0
        <5>1. l = halfLeft - x
          BY ONLY <1>0, <3>1
        <5>2. halfLeft = 0
          BY ONLY <1>5
        <5> QED BY ONLY <4>1, <5>1, <5>2
      <4>3. n = 0
        BY ONLY <1>0, <4>1
      <4> QED BY ONLY <4>1, <4>2, <4>3
    <3>2. CASE halfBio # 0
      BY ONLY <1>0, <1>5, <3>2
    <3> QED BY <3>1, <3>2
  <2>2. CASE n < HalfBuf
    BY ONLY <1>0, <1>5, <2>1, <2>2
  <2>3. CASE ~ (n < HalfBuf)
    BY ONLY <1>0, <1>5, <2>1, <2>3
  <2> QED BY <2>2, <2>3
<1>6. CASE halfLeft = halfTotal /\ halfBio = 0
  <2>1. CASE halfTotal <= HalfBufio
    <3>1. x = halfTotal /\ l = 0 /\ (n < HalfBuf => x = n)
      BY ONLY <1>0, <1>6, <2>1
    <3>2. CASE n < HalfBuf
      BY ONLY <1>0, <2>1, <3>1, <3>2
    <3>3. CASE ~ (n < HalfBuf)
      BY ONLY <1>0, <2>1, <3>1, <3>3
    <3> QED BY <3>2, <3>3
  <2>2. CASE halfTotal > HalfBufio
    <3>1. x = HalfBufio /\ l = halfTotal - HalfBufio /\ (n < HalfBuf => x = n)
      BY ONLY <1>0, <1>6, <2>2
    <3>2. CASE n < HalfBuf
      <4>1. HalfBufio < HalfBuf /\ HalfBufio = n
        BY ONLY <1>0, <3>1, <3>2
      <4>2. HalfRem # 0
        <5>1. ASSUME HalfRem = 0 PROVE FALSE
          <6>1. HalfBufio = q * HalfBuf /\ q \in Nat /\ HalfBuf \in Nat
            BY ONLY <1>0, <1>3, <5>1
          <6>2. q # 0
            BY ONLY <1>0, <6>1
          <6>3. q * HalfBuf >= HalfBuf
            BY ONLY <1>0, <6>1, <6>2
          <6>4. HalfBufio >= HalfBuf /\ HalfBufio \in Nat /\ HalfBuf \in Nat
            BY <1>0, <6>1, <6>3
          <6> QED BY ONLY <4>1, <6>4
        <5> QED BY <5>1
      <4> QED BY ONLY <1>0, <2>2, <3>1, <3>2, <4>1, <4>2
    <3>3. CASE ~ (n < HalfBuf)
      <4>1. n = HalfBuf /\ HalfBufio >= HalfBuf
        BY ONLY <1>0, <3>1, <3>3
      <4>2. \E m \in Nat : HalfBufio - HalfBuf = m * HalfBuf + HalfRem
        BY <1>0, <1>3, <1>4, <4>1
      <4> QED BY ONLY <1>0, <2>2, <3>1, <3>3, <4>1, <4>2
    <3> QED BY <3>2, <3>3
  <2> QED BY <2>1, <2>2
<1>7. CASE (\E k \in Nat : halfBio = k * HalfBuf + HalfRem) /\ (HalfRem # 0 => halfTotal > HalfBufio /\ halfLeft = halfTotal - HalfBufio)
  <2>1. PICK k \in Nat : halfBio = k * HalfBuf + HalfRem
    BY ONLY <1>0, <1>7
  <2>2. k * HalfBuf \in Nat /\ (k * HalfBuf = 0 \/ k * HalfBuf >= HalfBuf)
    <3>1. CASE k = 0
      BY ONLY <1>0, <3>1
    <3>2. CASE k # 0
      BY ONLY <1>0, <3>2
    <3> QED BY <3>1, <3>2
  <2>3. CASE HalfRem # 0
    <3>1. halfBio # 0 /\ x = halfBio /\ l = halfLeft
      BY ONLY <1>0, <2>1, <2>2, <2>3
    <3>2. CASE n < HalfBuf
      BY ONLY <1>0, <1>7, <2>3, <3>1, <3>2
    <3>3. CASE ~ (n < HalfBuf)
      <4>1. n = HalfBuf /\ halfBio >= HalfBuf
        BY ONLY <1>0, <3>1, <3>3
      <4>2. \E m \in Nat : halfBio - HalfBuf = m * HalfBuf + HalfRem
        BY ONLY <1>0, <1>4, <1>7, <4>1
      <4> QED BY ONLY <1>0, <1>7, <2>3, <3>1, <3>3, <4>1, <4>2
    <3> QED BY <3>2, <3>3
  <2>4. CASE HalfRem = 0 /\ halfBio # 0
    <3>1. x = halfBio /\ halfBio >= HalfBuf /\ n = HalfBuf
      BY ONLY <1>0, <2>1, <2>2, <2>4
    <3>2. \E m \in Nat : halfBio - HalfBuf = m * HalfBuf + HalfRem
      BY ONLY <1>0, <1>4, <1>7, <3>1
    <3> QED BY <2>4, <3>1, <3>2
  <2>5. CASE HalfRem = 0 /\ halfBio = 0
    <3>1. CASE halfLeft <= HalfBufio
      <4>1. l = 0 /\ x = halfLeft
        BY ONLY <1>0, <2>5, <3>1
      <4>2. CASE n < HalfBuf
        BY ONLY <1>0, <2>5, <4>1, <4>2
      <4>3. CASE ~ (n < HalfBuf)
        BY ONLY <1>0, <2>5, <4>1, <4>3
      <4> QED BY ONLY <1>0, <4>2, <4>3
    <3>2. CASE halfLeft > HalfBufio
      <4>1. x = HalfBufio /\ q # 0
        BY ONLY <1>0, <1>3, <2>5, <3>2
      <4>2. q * HalfBuf >= HalfBuf /\ HalfBufio = q * HalfBuf
        BY ONLY <1>0, <1>3, <2>5, <4>1
      <4>3. n = HalfBuf /\ HalfBufio >= HalfBuf
        BY ONLY <1>0, <4>1, <4>2
      <4>4. \E m \in Nat : HalfBufio - HalfBuf = m * HalfBuf + HalfRem
        BY <1>0, <1>3, <1>4, <4>3
      <4> QED BY ONLY <1>0, <2>5, <4>1, <4>3, <4>4
    <3> QED BY <3>1, <3>2
  <2> QED BY <2>3, <2>4, <2>5
<1> QED BY <1>5, <1>6, <1>7 DEF HalfRest

LEMMA HalfInit == ASSUME Half!SizesAssumption, Half!Init PROVE HalfInv
<1>1. halfTotal \in Nat /\ LineLen \in Nat
  <2>1. CASE halfKind = "file"
    BY <2>1 DEF Half!Init, Half!SizesAssumption
  <2>2. CASE halfKind # "file"
    BY <2>2 DEF Half!Init, Half!SizesAssumption
  <2> QED BY <2>1, <2>2
<1>2. HalfTypes
  <2>1. /\ halfLeft = halfTotal /\ halfBio = 0 /\ halfS2c = 0 /\ halfGot = 0 /\ halfFds = 0 /\ halfSpc = "listen" /\ halfCpc = "dial"
        /\ halfKind \in HalfKinds /\ HalfKinds \subseteq {"file", "server1", "server2"}
        /\ halfKind = "server1" => halfLeft = 3 * LineLen
    BY DEF Half!Init, Half!SizesAssumption
  <2>2. halfShut \in BOOLEAN /\ halfC2s \in BOOLEAN /\ halfCollected \in BOOLEAN /\ halfThanked \in BOOLEAN
    BY DEF Half!Init
  <2> QED BY <1>1, <2>1, <2>2 DEF HalfTypes
<1> QED BY <1>1, <1>2 DEF Half!Init, HalfInv, HalfPlaces, HalfWritten, HalfRest, HalfLeaves

LEMMA HalfNext == ASSUME Half!SizesAssumption, HalfInv, [Half!Next]_Half!vars PROVE HalfInv'
<1> USE DEF HalfInv
<1>0. LineLen \in Nat \ {0} /\ HalfBufio \in Nat \ {0} /\ HalfBuf \in Nat \ {0}
  BY DEF Half!SizesAssumption
<1> USE DEF Half!fileVars, Half!clientVars, Half!serverVars
<1>d. HalfRem \in 0 .. HalfBuf - 1 /\ \E q \in Nat : HalfBufio = q * HalfBuf + HalfRem
  BY HalfDivides
<1>u. UNCHANGED <<halfKind, halfTotal>>
  BY DEF Half!Next, Half!Accept, Half!OpenFile, Half!ReadFile, Half!WriteLine, Half!WriteFlush, Half!EndOutput,
         Half!ReadThanks, Half!Dial, Half!CallRead, Half!ReadReturns, Half!ReadEof, Half!Collect, Half!Thank,
         Half!Exited, Half!vars
<1>k. /\ Half!Sent = IF halfKind = "file" /\ halfTotal > HalfBufio /\ HalfRem # 0 THEN HalfBufio ELSE halfTotal
      /\ Half!Sent' = Half!Sent /\ Half!Sent \in Nat
      /\ UNCHANGED <<halfLeft, halfBio>> => (HalfRest => HalfRest')
  BY <1>0, <1>u, HalfSends DEF HalfTypes
<1>1. CASE Half!Accept
  BY <1>k, <1>0, <1>1 DEF Half!Accept, HalfTypes, HalfPlaces, HalfWritten, HalfLeaves
<1>2. CASE Half!OpenFile
  BY <1>k, <1>0, <1>2 DEF Half!OpenFile, HalfTypes, HalfPlaces, HalfWritten, HalfLeaves
<1>3. CASE Half!ReadFile
  <2> DEFINE buffered == IF halfBio = 0 THEN Half!Min({HalfBufio, halfLeft}) ELSE halfBio
             byteCount == Half!Min({HalfBuf, buffered})
  <2>1. /\ halfSpc = "write" /\ halfKind = "file"
        /\ halfLeft' = IF halfBio = 0 THEN halfLeft - buffered ELSE halfLeft
        /\ halfBio' = buffered - byteCount
        /\ halfS2c' = halfS2c + byteCount
        /\ halfSpc' = IF byteCount < HalfBuf THEN "endOutput" ELSE "write"
        /\ UNCHANGED <<halfKind, halfTotal, halfFds, halfShut, halfC2s, halfThanked, halfCpc, halfGot, halfCollected>>
    BY <1>3 DEF Half!ReadFile
  <2>2. /\ halfLeft \in Nat /\ halfBio \in Nat /\ halfTotal \in Nat /\ halfS2c \in Nat /\ halfGot \in Nat
        /\ halfLeft + halfBio + halfS2c + halfGot = halfTotal
        /\ \/ halfLeft = 0 /\ (HalfRem # 0 => halfTotal <= HalfBufio)
           \/ halfLeft = halfTotal /\ halfBio = 0
           \/ /\ \E k \in Nat : halfBio = k * HalfBuf + HalfRem
              /\ HalfRem # 0 => halfTotal > HalfBufio /\ halfLeft = halfTotal - HalfBufio
    BY <1>k, <2>1 DEF HalfTypes, HalfWritten, HalfRest
  <2>3. /\ buffered = IF halfBio = 0 THEN IF HalfBufio <= halfLeft THEN HalfBufio ELSE halfLeft ELSE halfBio
        /\ buffered \in Nat
    BY <1>0, <2>2, HalfMin
  <2>4. byteCount = (IF HalfBuf <= buffered THEN HalfBuf ELSE buffered) /\ byteCount \in Nat
    BY <1>0, <2>3, HalfMin
  <2> HIDE DEF buffered, byteCount
  <2> DEFINE l == IF halfBio = 0 THEN halfLeft - buffered ELSE halfLeft
  <2>5. /\ l \in Nat /\ buffered - byteCount \in Nat /\ l + buffered = halfLeft + halfBio
        /\ IF byteCount < HalfBuf
           THEN /\ buffered - byteCount = 0
                /\ l = halfTotal - (IF halfTotal > HalfBufio /\ HalfRem # 0 THEN HalfBufio ELSE halfTotal)
           ELSE \/ l = 0 /\ (HalfRem # 0 => halfTotal <= HalfBufio)
                \/ l = halfTotal /\ buffered - byteCount = 0
                \/ /\ \E k \in Nat : buffered - byteCount = k * HalfBuf + HalfRem
                   /\ HalfRem # 0 => halfTotal > HalfBufio /\ l = halfTotal - HalfBufio
    <3>1. PICK q \in Nat : HalfBufio = q * HalfBuf + HalfRem
      BY <1>d
    <3>6. l \in Int
      BY <2>2, <2>3
    <3>2. PICK y \in Int, x \in Nat, n \in Nat : y = l /\ x = buffered /\ n = byteCount
      BY <2>3, <2>4, <3>6
    <3> HIDE DEF l
    <3>3. y = IF halfBio = 0 THEN halfLeft - x ELSE halfLeft
      BY <3>2 DEF l
    <3>4. /\ x = IF halfBio = 0 THEN IF HalfBufio <= halfLeft THEN HalfBufio ELSE halfLeft ELSE halfBio
          /\ n = IF HalfBuf <= x THEN HalfBuf ELSE x
      BY <2>3, <2>4, <3>2
    <3>5. HalfTaken(y, x, n)
      <4>1. HalfRest
        BY <2>1 DEF HalfWritten
      <4>2. halfTotal \in Nat /\ halfLeft \in Nat /\ halfBio \in Nat
        BY <2>2
      <4> QED BY <3>3, <3>4, <4>1, <4>2, HalfReads
    <3> QED BY <3>2, <3>5 DEF HalfTaken
  <2>6. halfLeft' = l /\ halfBio' = buffered - byteCount /\ l \in Nat
    BY <2>1, <2>5
  <2>7. /\ halfLeft' \in Nat /\ halfBio' \in Nat /\ halfS2c' \in Nat
        /\ halfLeft' + halfBio' + halfS2c' + halfGot' = halfTotal'
    <3>1. PICK x, y, n : x = l /\ y = buffered /\ n = byteCount
      OBVIOUS
    <3>2. /\ x \in Nat /\ y \in Nat /\ n \in Nat /\ y - n \in Nat /\ x + y = halfLeft + halfBio
          /\ halfLeft' = x /\ halfBio' = y - n /\ halfS2c' = halfS2c + n /\ halfGot' = halfGot
          /\ halfTotal' = halfTotal
      BY <2>1, <2>3, <2>4, <2>5, <2>6, <3>1
    <3> QED BY ONLY <2>2, <3>2
  <2>8. HalfTypes'
    BY <2>1, <2>7 DEF HalfTypes
  <2>9. HalfWritten'
    <3>1. CASE byteCount < HalfBuf
      BY <1>k, <2>1, <2>5, <2>6, <3>1 DEF HalfWritten
    <3>2. CASE ~ (byteCount < HalfBuf)
      <4>1. halfSpc' = "write" /\ halfTotal' = halfTotal
        BY <2>1, <3>2
      <4> QED BY <2>5, <2>6, <3>2, <4>1 DEF HalfWritten, HalfRest, HalfRem
    <3> QED BY <3>1, <3>2
  <2>10. HalfPlaces' /\ HalfLeaves'
    BY <1>k, <2>1 DEF HalfPlaces, HalfLeaves
  <2> QED BY <2>8, <2>9, <2>10
<1>4. CASE Half!WriteLine
  <2>1. halfLeft \in {LineLen, 2 * LineLen, 3 * LineLen}
    BY <1>4 DEF Half!WriteLine, HalfTypes
  <2>2. halfLeft - LineLen \in Nat /\ (halfLeft - LineLen # 0 => halfLeft - LineLen \in {LineLen, 2 * LineLen})
    BY <1>0, <2>1
  <2> QED BY <1>k, <1>0, <1>4, <2>2 DEF Half!WriteLine, HalfTypes, HalfPlaces, HalfWritten, HalfLeaves
<1>5. CASE Half!WriteFlush
  BY <1>k, <1>0, <1>5 DEF Half!WriteFlush, HalfTypes, HalfPlaces, HalfWritten, HalfLeaves
<1>6. CASE Half!EndOutput
  <2>1. halfFds' \in 1 .. 3
    <3>1. halfKind \in {"file", "server1", "server2"} /\ halfFds = IF halfKind = "file" THEN 1 ELSE 3
      BY <1>6 DEF Half!EndOutput, HalfTypes, HalfPlaces
    <3>2. halfFds' = IF halfKind = "file" THEN halfFds + 1 ELSE halfFds - 1
      BY <1>6, <3>1 DEF Half!EndOutput, Half!EndOutputClose, Half!EndOutputShutdown, Half!EndOutputFile
    <3> QED BY <3>1, <3>2
  <2>2. halfShut' \in BOOLEAN
    BY <1>6 DEF Half!EndOutput, Half!EndOutputClose, Half!EndOutputShutdown, Half!EndOutputFile, HalfTypes
  <2>3. /\ halfSpc = "endOutput" /\ halfSpc' = "readThanks"
        /\ UNCHANGED <<halfKind, halfTotal, halfS2c, halfC2s, halfThanked, halfLeft, halfBio, halfCpc, halfGot,
                       halfCollected>>
    BY <1>6 DEF Half!EndOutput
  <2>4. HalfTypes' /\ HalfPlaces'
    BY <1>0, <2>1, <2>2, <2>3 DEF HalfTypes, HalfPlaces
  <2>5. HalfWritten' /\ HalfLeaves'
    BY <1>k, <2>3 DEF HalfWritten, HalfLeaves
  <2> QED BY <2>4, <2>5
<1>7. CASE Half!ReadThanks
  <2>1. HalfTypes'
    <3>0. halfFds' = 0 /\ halfC2s' = FALSE
      BY <1>7 DEF Half!ReadThanks
    <3>1. halfFds' \in 0 .. 3
      BY ONLY <3>0
    <3>5. halfC2s' \in BOOLEAN
      BY ONLY <3>0
    <3>3. halfC2s \in BOOLEAN /\ halfThanked' = halfC2s
      BY <1>7 DEF Half!ReadThanks, HalfTypes
    <3>4. halfThanked' \in BOOLEAN
      BY ONLY <3>3
    <3>2. halfSpc' = "done" /\ UNCHANGED <<halfKind, halfTotal, halfShut, halfS2c, halfLeft, halfBio, halfCpc, halfGot, halfCollected>>
      BY <1>7 DEF Half!ReadThanks
    <3> QED BY <3>1, <3>2, <3>4, <3>5 DEF HalfTypes
  <2>2. HalfPlaces' /\ HalfWritten'
    BY <1>k, <1>7 DEF Half!ReadThanks, HalfPlaces, HalfWritten
  <2>3. /\ halfSpc = "readThanks" /\ halfSpc' = "done" /\ (halfC2s \/ halfCpc = "done") /\ halfThanked' = halfC2s
        /\ UNCHANGED <<halfCpc, halfGot, halfTotal, halfS2c, halfCollected>>
    BY <1>7 DEF Half!ReadThanks
  <2>4. HalfLeaves'
    BY <1>k, <2>3 DEF HalfLeaves
  <2> QED BY <2>1, <2>2, <2>4
<1>8. CASE Half!Dial \/ Half!CallRead
  BY <1>k, <1>0, <1>8 DEF Half!Dial, Half!CallRead, HalfTypes, HalfPlaces, HalfWritten, HalfLeaves
<1>9. CASE Half!ReadReturns
  <2>1. PICK n \in 1 .. Half!Min({HalfBuf, halfS2c}) : halfS2c' = halfS2c - n /\ halfGot' = halfGot + n
    BY <1>9 DEF Half!ReadReturns
  <2>2. halfS2c \in Nat /\ halfGot \in Nat
    BY DEF HalfTypes
  <2>3. n \in Nat /\ n <= halfS2c
    BY <1>0, <2>2, HalfMin
  <2>4. halfS2c' \in Nat /\ halfGot' \in Nat /\ halfS2c' + halfGot' = halfS2c + halfGot
    BY <2>1, <2>2, <2>3
  <2> QED BY <1>k, <1>0, <1>9, <2>4 DEF Half!ReadReturns, HalfTypes, HalfPlaces, HalfWritten, HalfLeaves
<1>10. CASE Half!ReadEof
  BY <1>k, <1>0, <1>10 DEF Half!ReadEof, Half!Ended, HalfTypes, HalfPlaces, HalfWritten, HalfLeaves
<1>11. CASE Half!Collect
  BY <1>k, <1>0, <1>11 DEF Half!Collect, HalfTypes, HalfPlaces, HalfWritten, HalfLeaves
<1>12. CASE Half!Thank
  <2>1. halfC2s' \in BOOLEAN
    BY <1>12 DEF Half!Thank
  <2> QED BY <1>k, <1>0, <1>12, <2>1 DEF Half!Thank, HalfTypes, HalfPlaces, HalfWritten, HalfLeaves
<1>13. CASE UNCHANGED Half!vars
  BY <1>k, <1>13 DEF Half!vars, HalfTypes, HalfPlaces, HalfWritten, HalfLeaves
<1> QED
  BY <1>1, <1>2, <1>3, <1>4, <1>5, <1>6, <1>7, <1>8, <1>9, <1>10, <1>11, <1>12, <1>13
  DEF Half!Next, Half!Exited

HalfSteps == Half!Init /\ [][Half!Next]_Half!vars

LEMMA HalfInvariant == ASSUME Half!SizesAssumption PROVE HalfSteps => []HalfInv
<1>1. Half!Init => HalfInv
  BY HalfInit
<1>2. HalfInv /\ [Half!Next]_Half!vars => HalfInv'
  BY HalfNext
<1> QED BY <1>1, <1>2, PTL DEF HalfSteps

THEOREM HalfTyped == ASSUME Half!SizesAssumption PROVE HalfSteps => []Half!TypeOK
<1>1. HalfInv => Half!TypeOK
  BY DEF HalfInv, HalfTypes, Half!TypeOK
<1> QED BY <1>1, HalfInvariant, PTL

\* A half-close client has all that the server's loop sends: the whole file, or its first
\* bufio buffer.
THEOREM FileArrives == ASSUME Half!SizesAssumption PROVE HalfSteps => []Half!AllSentArrives
<1>1. HalfInv => Half!AllSentArrives
  BY DEF HalfInv, HalfLeaves, Half!AllSentArrives
<1> QED BY <1>1, HalfInvariant, PTL

THEOREM ThanksArrive == ASSUME Half!SizesAssumption PROVE HalfSteps => []Half!ThanksReceived
<1>1. HalfInv => Half!ThanksReceived
  BY DEF HalfInv, HalfLeaves, Half!ThanksReceived
<1> QED BY <1>1, HalfInvariant, PTL

-----------------------------------------------------------------------------
(* SharedSum.                                                              *)

SumLeft == {t \in Sum!Thread : sumPc[t] # "done"}

SumInv ==
  /\ sumSum \in Int /\ sumReg \in [Sum!Thread -> Int]
  /\ sumMutex \in Sum!Thread \cup {Sum!None}
  /\ sumPc \in [Sum!Thread -> {"start", "load", "store", "end", "done"}]
  /\ sumI \in [Sum!Thread -> Nat] /\ sumPrinted \in BOOLEAN
  /\ \A t \in Sum!Thread : sumI[t] \in 1 .. Rounds + 1 /\ (sumPc[t] \in {"start", "load", "store"} => sumI[t] <= Rounds)
  /\ sumWg = Cardinality(SumLeft)

LEMMA SumCard == \A T : Sum!Cardinality(T) = Cardinality(T)
  BY DEF Sum!Cardinality, Cardinality

LEMMA ThreadFacts ==
  ASSUME Sum!SumAssumption
  PROVE  /\ Threads \in Nat /\ Rounds \in Nat \ {0} /\ Sum!Thread \subseteq Nat
         /\ IsFiniteSet(Sum!Thread) /\ Cardinality(Sum!Thread) = Threads
<1>1. Threads \in Nat \ {0} /\ Rounds \in Nat \ {0}
  BY DEF Sum!SumAssumption
<1>2. IsFiniteSet(0 .. Threads - 1) /\ Cardinality(0 .. Threads - 1) = IF 0 > Threads - 1 THEN 0 ELSE (Threads - 1) - 0 + 1
  BY <1>1, FS_Interval
<1>3. Cardinality(0 .. Threads - 1) = Threads
  BY <1>1, <1>2
<1> QED BY <1>1, <1>2, <1>3 DEF Sum!Thread

LEMMA SumInit == ASSUME Sum!SumAssumption, Sum!Init PROVE SumInv
<1>1. SumLeft = Sum!Thread
  BY DEF Sum!Init, SumLeft
<1>2. sumWg = Cardinality(SumLeft)
  BY <1>1, ThreadFacts DEF Sum!Init
<1>3. Threads \in Nat /\ Rounds \in Nat \ {0} /\ Sum!Thread \subseteq Nat
  BY ThreadFacts
<1>4. /\ sumReg \in [Sum!Thread -> Int] /\ sumI \in [Sum!Thread -> Nat]
      /\ sumPc \in [Sum!Thread -> {"start", "load", "store", "end", "done"}]
      /\ \A t \in Sum!Thread : sumI[t] = 1
  BY DEF Sum!Init
<1>5. sumSum \in Int /\ sumMutex \in Sum!Thread \cup {Sum!None}
  BY DEF Sum!Init
<1>6. sumPrinted \in BOOLEAN
  BY DEF Sum!Init
<1>7. \A t \in Sum!Thread : sumI[t] \in 1 .. Rounds + 1 /\ sumI[t] <= Rounds
  BY <1>3, <1>4
<1> QED BY <1>2, <1>4, <1>5, <1>6, <1>7 DEF SumInv

LEMMA SumNext == ASSUME Sum!SumAssumption, SumInv, [Sum!Next]_Sum!vars PROVE SumInv'
<1>0. Rounds \in Nat \ {0} /\ IsFiniteSet(Sum!Thread)
  BY ThreadFacts
<1>1. CASE Sum!Wait
  <2>1. sumPrinted' \in BOOLEAN /\ UNCHANGED <<sumSum, sumMutex, sumPc, sumI, sumReg, sumWg>>
    BY <1>1 DEF Sum!Wait
  <2> QED BY <2>1 DEF SumInv, SumLeft
<1>2. ASSUME NEW t \in Sum!Thread, Sum!Start(t) PROVE SumInv'
  <2>1. sumMutex' \in Sum!Thread \cup {Sum!None} /\ sumPc[t] = "start" /\ sumPc' = [sumPc EXCEPT ![t] = "load"]
        /\ UNCHANGED <<sumSum, sumI, sumReg, sumWg, sumPrinted>>
    BY <1>2 DEF Sum!Start, Sum!Goto, SumInv
  <2>2. SumLeft' = SumLeft
    BY <2>1 DEF SumLeft, SumInv
  <2> QED BY <2>1, <2>2 DEF SumInv
<1>3. ASSUME NEW t \in Sum!Thread, Sum!Load(t) PROVE SumInv'
  <2>1. sumReg' = [sumReg EXCEPT ![t] = sumSum] /\ sumPc[t] = "load" /\ sumPc' = [sumPc EXCEPT ![t] = "store"]
        /\ UNCHANGED <<sumSum, sumMutex, sumI, sumWg, sumPrinted>>
    BY <1>3 DEF Sum!Load, Sum!Goto
  <2>2. SumLeft' = SumLeft
    BY <2>1 DEF SumLeft, SumInv
  <2> QED BY <2>1, <2>2 DEF SumInv
<1>4. ASSUME NEW t \in Sum!Thread, Sum!Store(t) PROVE SumInv'
  <2>1. /\ sumSum' = sumReg[t] + Sum!Amount(t, sumI[t]) /\ sumI' = [sumI EXCEPT ![t] = sumI[t] + 1]
        /\ sumPc[t] = "store" /\ sumPc' = [sumPc EXCEPT ![t] = IF sumI[t] < Rounds THEN "load" ELSE "end"]
        /\ UNCHANGED <<sumMutex, sumReg, sumWg, sumPrinted>>
    BY <1>4 DEF Sum!Store, Sum!Goto
  <2>2. SumLeft' = SumLeft
    BY <2>1 DEF SumLeft, SumInv
  <2>3. sumSum' \in Int
    <3>1. t \in Nat /\ sumI[t] \in Nat /\ sumReg[t] \in Int
      BY ThreadFacts DEF SumInv
    <3>2. Sum!Amount(t, sumI[t]) \in Int
      BY <1>0, <3>1 DEF Sum!Amount
    <3> QED BY <2>1, <3>1, <3>2
  <2>4. sumI[t] \in Nat /\ sumI[t] <= Rounds /\ sumI[t] >= 1
    BY <2>1 DEF SumInv
  <2>5. sumI' \in [Sum!Thread -> Nat] /\ sumPc' \in [Sum!Thread -> {"start", "load", "store", "end", "done"}]
    BY <2>1, <2>4 DEF SumInv
  <2>6. \A u \in Sum!Thread : sumI'[u] \in 1 .. Rounds + 1 /\ (sumPc'[u] \in {"start", "load", "store"} => sumI'[u] <= Rounds)
    BY <1>0, <2>1, <2>4 DEF SumInv
  <2> QED BY <2>1, <2>2, <2>3, <2>5, <2>6 DEF SumInv
<1>5. ASSUME NEW t \in Sum!Thread, Sum!End(t) PROVE SumInv'
  <2>1. /\ sumMutex' = (IF sumMutex = t THEN Sum!None ELSE sumMutex) /\ sumWg' = sumWg - 1
        /\ sumPc[t] = "end" /\ sumPc' = [sumPc EXCEPT ![t] = "done"]
        /\ UNCHANGED <<sumSum, sumI, sumReg, sumPrinted>>
    BY <1>5 DEF Sum!End, Sum!Goto
  <2>2. SumLeft' = SumLeft \ {t} /\ t \in SumLeft
    BY <2>1 DEF SumLeft, SumInv
  <2>3. IsFiniteSet(SumLeft)
    BY <1>0, FS_Subset DEF SumLeft
  <2>4. Cardinality(SumLeft \ {t}) = Cardinality(SumLeft) - 1
    BY <2>2, <2>3, FS_RemoveElement
  <2>5. sumWg' = Cardinality(SumLeft')
    BY <2>1, <2>2, <2>4 DEF SumInv
  <2>6. sumMutex' \in Sum!Thread \cup {Sum!None}
    BY <2>1 DEF SumInv
  <2>7. sumPc' \in [Sum!Thread -> {"start", "load", "store", "end", "done"}]
    BY <2>1 DEF SumInv
  <2> QED BY <2>1, <2>5, <2>6, <2>7 DEF SumInv
<1>6. CASE UNCHANGED Sum!vars
  BY <1>6 DEF Sum!vars, SumInv, SumLeft
<1> QED BY <1>1, <1>2, <1>3, <1>4, <1>5, <1>6 DEF Sum!Next

SumSteps == Sum!Init /\ [][Sum!Next]_Sum!vars

\* The WaitGroup counts the goroutines still to end.
THEOREM WaitGroupCounts == ASSUME Sum!SumAssumption PROVE SumSteps => []Sum!TypeOK
<1>1. Sum!Init => SumInv
  BY SumInit
<1>2. SumInv /\ [Sum!Next]_Sum!vars => SumInv'
  BY SumNext
<1>3. SumInv => Sum!TypeOK
  <2> SUFFICES ASSUME SumInv PROVE Sum!TypeOK
    OBVIOUS
  <2>1. sumI \in [Sum!Thread -> 1 .. Rounds + 1]
    BY DEF SumInv
  <2>2. sumWg = Sum!Cardinality(SumLeft)
    BY SumCard DEF SumInv
  <2> QED BY <2>1, <2>2 DEF SumInv, Sum!TypeOK, SumLeft
<1> QED BY <1>1, <1>2, <1>3, PTL DEF SumSteps

\* The programs apart: goroutine2 with its own numbers, and one add and one sub of
\* goroutine3 and of goroutine4, for any number of rounds.
Race == INSTANCE SharedSum WITH
  Program <- "goroutine2", Threads <- 2, Rounds <- 5,
  sum <- sumSum, mutex <- sumMutex, pc <- sumPc, i <- sumI, reg <- sumReg, wg <- sumWg,
  printed <- sumPrinted
Sides == INSTANCE SharedSum WITH
  Program <- "goroutine3", Threads <- 2,
  sum <- sumSum, mutex <- sumMutex, pc <- sumPc, i <- sumI, reg <- sumReg, wg <- sumWg,
  printed <- sumPrinted
Locked == INSTANCE SharedSum WITH
  Program <- "goroutine4", Threads <- 2,
  sum <- sumSum, mutex <- sumMutex, pc <- sumPc, i <- sumI, reg <- sumReg, wg <- sumWg,
  printed <- sumPrinted

\* Every nonempty set of natural numbers has a least element.
LEMMA LeastNat ==
  ASSUME NEW T \in SUBSET Nat, T # {}
  PROVE  \E x \in T : \A y \in T : x <= y
<1> DEFINE R == OpToRel(<, Nat)
<1>1. IsWellFoundedOn(R, Nat)
  BY NatLessThanWellFounded
<1>2. R = {ss \in Nat \X Nat : ss[1] < ss[2]}
  BY DEF OpToRel
<1>3. \A x, y \in Nat : x < y => <<x, y>> \in R
  BY <1>2
<1> HIDE DEF R
<1>4. \E x \in T : \A y \in T : ~ (<<y, x>> \in R)
  BY <1>1, WFMin, Zenon
<1>5. PICK x \in T : \A y \in T : ~ (<<y, x>> \in R)
  BY <1>4, Zenon
<1>6. ASSUME NEW y \in T PROVE x <= y
  <2>1. ~(<<y, x>> \in R)
    BY <1>5, Zenon
  <2>2. x \in Nat /\ y \in Nat
    OBVIOUS
  <2>3. ~(y < x)
    BY <1>3, <2>1, <2>2, Zenon
  <2> QED BY <2>2, <2>3
<1> QED BY <1>6

\* Two functions on the subsets of a finite set agree when they agree on {} and
\* on a subset as soon as they agree on it without one of its elements.
LEMMA FoldUnique ==
  ASSUME NEW S, IsFiniteSet(S), NEW h, NEW g, h[{}] = g[{}],
         \A s \in SUBSET S : s # {} => \E x \in s : h[s \ {x}] = g[s \ {x}] => h[s] = g[s]
  PROVE  h[S] = g[S]
<1> DEFINE Bad == {s \in SUBSET S : h[s] # g[s]}
           T == {Cardinality(s) : s \in Bad}
<1>0. SUFFICES ASSUME S \in Bad PROVE FALSE
  OBVIOUS
<1>1. \A s \in SUBSET S : IsFiniteSet(s) /\ Cardinality(s) \in Nat
  BY FS_Subset, FS_CardinalityType
<1>2. T \in SUBSET Nat /\ T # {}
  BY <1>0, <1>1
<1>3. PICK k \in T : \A y \in T : k <= y
  BY <1>2, LeastNat
<1>4. PICK s \in Bad : Cardinality(s) = k
  BY <1>3
<1>5. s \in SUBSET S /\ s # {}
  OBVIOUS
<1>6. PICK x \in s : h[s \ {x}] = g[s \ {x}] => h[s] = g[s]
  BY <1>5
<1>7. s \ {x} \in SUBSET S /\ Cardinality(s \ {x}) = Cardinality(s) - 1
  BY <1>1, <1>5, FS_RemoveElement
<1>8. s \ {x} \in Bad
  BY <1>6, <1>7
<1>9. k <= Cardinality(s \ {x})
  BY <1>3, <1>8
<1> QED BY <1>1, <1>4, <1>5, <1>7, <1>9

\* An interval is finite.
LEMMA FiniteInterval == \A a, b \in Int : IsFiniteSet(a .. b)
  BY FS_Interval

\* goroutine2: what goroutine t adds.
LEMMA RaceInner ==
  ASSUME NEW t \in {0, 1}
  PROVE  Race!MapThenSumSet(LAMBDA n : Race!Amount(t, n), 1 .. 5) = 25 * t + 15
<1> DEFINE Body(it) == [s \in SUBSET (1 .. 5) |->
             IF s = {} THEN 0 ELSE Race!Amount(t, CHOOSE x \in s : TRUE)
             + it[s \ {CHOOSE x \in s : TRUE}]]
           It == CHOOSE it : it = Body(it)
           v == [x \in 1 .. 5 |-> 5 * t + x]
           w(s, n) == IF n \in s THEN 5 * t + n ELSE 0
           g == [s \in SUBSET (1 .. 5) |-> w(s, 1) + w(s, 2) + w(s, 3) + w(s, 4) + w(s, 5)]
<1>1. Race!MapThenSumSet(LAMBDA n : Race!Amount(t, n), 1 .. 5) = It[1 .. 5]
  BY Zenon DEF Race!MapThenSumSet, Race!MapThenFoldSet
<1>2. ASSUME NEW s \in SUBSET (1 .. 5), NEW x \in s
      PROVE  g[s] = v[x] + g[s \ {x}]
  <2>1. x \in {1, 2, 3, 4, 5} /\ s \ {x} \in SUBSET (1 .. 5) /\ t \in Nat
    OBVIOUS
  <2>2. \A n \in 1 .. 5 : n # x => w(s \ {x}, n) = w(s, n)
    OBVIOUS
  <2>3. w(s, x) = v[x] /\ w(s \ {x}, x) = 0 /\ v[x] \in Nat
    BY <2>1
  <2>4. \A n \in 1 .. 5 : w(s, n) \in Nat /\ w(s \ {x}, n) \in Nat
    BY <2>1
  <2>5. g[s] = w(s, 1) + w(s, 2) + w(s, 3) + w(s, 4) + w(s, 5)
    OBVIOUS
  <2>6. g[s \ {x}] = w(s \ {x}, 1) + w(s \ {x}, 2) + w(s \ {x}, 3) + w(s \ {x}, 4) + w(s \ {x}, 5)
    BY <2>1
  <2>7. 1 \in 1 .. 5 /\ 2 \in 1 .. 5 /\ 3 \in 1 .. 5 /\ 4 \in 1 .. 5 /\ 5 \in 1 .. 5
    OBVIOUS
  <2> HIDE DEF w, g, v
  <2> QED BY <2>1, <2>2, <2>3, <2>4, <2>5, <2>6, <2>7
<1>3. g[{}] = 0 /\ g = [s \in SUBSET (1 .. 5) |-> g[s]] /\ g[1 .. 5] = 25 * t + 15
  OBVIOUS
<1>4. \A s \in SUBSET (1 .. 5) : s # {} =>
        Race!Amount(t, CHOOSE x \in s : TRUE) = v[CHOOSE x \in s : TRUE]
  <2> SUFFICES ASSUME NEW s \in SUBSET (1 .. 5), s # {}
               PROVE  Race!Amount(t, CHOOSE x \in s : TRUE) = v[CHOOSE x \in s : TRUE]
    OBVIOUS
  <2>1. PICK e : e = CHOOSE y \in s : TRUE
    OBVIOUS
  <2>2. e \in 1 .. 5
    BY <2>1
  <2>3. Race!Amount(t, e) = v[e]
    BY <2>2 DEF Race!Amount
  <2> HIDE DEF v
  <2> QED BY <2>1, <2>3, Zenon
<1>5. g = Body(g)
  <2>1. ASSUME NEW s \in SUBSET (1 .. 5), s # {}
        PROVE  g[s] = Race!Amount(t, CHOOSE x \in s : TRUE) + g[s \ {CHOOSE x \in s : TRUE}]
    <3>1. PICK e : e = CHOOSE y \in s : TRUE
      OBVIOUS
    <3>2. e \in s
      BY <2>1, <3>1
    <3>3. Race!Amount(t, CHOOSE x \in s : TRUE) = v[e]
      BY <1>4, <2>1, <3>1, Zenon
    <3> HIDE DEF g, v
    <3>4. g[s] = v[e] + g[s \ {e}]
      BY <1>2, <3>2
    <3> QED BY <3>1, <3>3, <3>4
  <2> HIDE DEF g
  <2> QED BY <1>3, <2>1
<1>6. It = Body(It)
  <2> HIDE DEF g, Body
  <2> QED BY <1>5
<1>7. It[{}] = g[{}]
  <2>1. Body(It)[{}] = 0
    <3> HIDE DEF It
    <3> QED OBVIOUS
  <2> HIDE DEF It, Body, g
  <2> QED BY <1>3, <1>6, <2>1
<1>8. ASSUME NEW s \in SUBSET (1 .. 5), s # {}
      PROVE  \E x \in s : It[s \ {x}] = g[s \ {x}] => It[s] = g[s]
  <2>1. PICK e : e = CHOOSE y \in s : TRUE
    OBVIOUS
  <2>2. e \in s
    BY <1>8, <2>1
  <2>3. Race!Amount(t, CHOOSE x \in s : TRUE) = v[e]
    BY <1>4, <1>8, <2>1, Zenon
  <2>4. Body(It)[s] = v[e] + It[s \ {e}]
    <3> HIDE DEF It, v
    <3> QED BY <1>8, <2>1, <2>3
  <2> HIDE DEF It, Body, g, v
  <2>5. g[s] = v[e] + g[s \ {e}]
    BY <1>2, <2>2
  <2>6. It[s] = v[e] + It[s \ {e}]
    BY <1>6, <2>4
  <2> QED BY <2>2, <2>5, <2>6
<1>9. IsFiniteSet(1 .. 5)
  <2>1. 1 \in Int /\ 5 \in Int
    OBVIOUS
  <2> QED BY <2>1, FiniteInterval, Zenon
<1> HIDE DEF It, g, v
<1>10. It[1 .. 5] = g[1 .. 5]
  BY <1>7, <1>8, <1>9, FoldUnique
<1> QED BY <1>1, <1>3, <1>10

\* goroutine2: what both add, 55.
LEMMA RaceTotal ==
  Race!Total(Race!Amount) = 55
<1> DEFINE Body(it) == [s \in SUBSET (Race!Thread) |->
             IF s = {} THEN 0 ELSE
             Race!MapThenSumSet(LAMBDA n : Race!Amount((CHOOSE x \in s : TRUE), n), 1 .. 5)
             + it[s \ {CHOOSE x \in s : TRUE}]]
           It == CHOOSE it : it = Body(it)
           v == [x \in {0, 1} |-> 25 * x + 15]
           g == [s \in SUBSET (Race!Thread) |->
             (IF 0 \in s THEN 15 ELSE 0) + (IF 1 \in s THEN 40 ELSE 0)]
<1>0. Race!Thread = {0, 1}
  BY DEF Race!Thread
<1>1. Race!Total(Race!Amount) = It[Race!Thread]
  BY Zenon DEF Race!Total, Race!MapThenSumSet, Race!MapThenFoldSet
<1>2. ASSUME NEW s \in SUBSET (Race!Thread), NEW x \in s
      PROVE  g[s] = v[x] + g[s \ {x}]
  BY <1>0
<1>3. g[{}] = 0 /\ g = [s \in SUBSET (Race!Thread) |-> g[s]] /\ g[Race!Thread] = 55
  BY <1>0
<1>4. \A s \in SUBSET (Race!Thread) : s # {} =>
        Race!MapThenSumSet(LAMBDA n : Race!Amount((CHOOSE x \in s : TRUE), n), 1 .. 5) = v[CHOOSE x \in s : TRUE]
  <2> SUFFICES ASSUME NEW s \in SUBSET Race!Thread, s # {}
               PROVE  Race!MapThenSumSet(LAMBDA n : Race!Amount((CHOOSE x \in s : TRUE), n),
                     1 .. 5) = v[CHOOSE x \in s : TRUE]
    OBVIOUS
  <2>1. PICK e : e = CHOOSE y \in s : TRUE
    OBVIOUS
  <2>2. e \in {0, 1}
    BY <1>0, <2>1
  <2>3. \A y \in {0, 1} : Race!MapThenSumSet(LAMBDA n : Race!Amount(y, n), 1 .. 5) = v[y]
    BY RaceInner
  <2>4. (CHOOSE y \in s : TRUE) \in {0, 1}
    BY <2>1, <2>2
  <2> HIDE DEF v
  <2> QED BY <2>3, <2>4, Zenon DEF Race!MapThenSumSet, Race!MapThenFoldSet
<1>5. g = Body(g)
  <2>1. ASSUME NEW s \in SUBSET (Race!Thread), s # {}
        PROVE  g[s] = Race!MapThenSumSet(LAMBDA n : Race!Amount((CHOOSE x \in s : TRUE), n), 1 .. 5)
                      + g[s \ {CHOOSE x \in s : TRUE}]
    <3>1. PICK e : e = CHOOSE y \in s : TRUE
      OBVIOUS
    <3>2. e \in s
      BY <2>1, <3>1
    <3>3. Race!MapThenSumSet(LAMBDA n : Race!Amount((CHOOSE x \in s : TRUE), n), 1 .. 5) = v[e]
      BY <1>4, <2>1, <3>1, Zenon
    <3> HIDE DEF g, v
    <3>4. g[s] = v[e] + g[s \ {e}]
      BY <1>2, <3>2
    <3> QED BY <3>1, <3>3, <3>4
  <2> HIDE DEF g
  <2> QED BY <1>3, <2>1
<1>6. It = Body(It)
  <2> HIDE DEF g, Body
  <2> QED BY <1>5
<1>7. It[{}] = g[{}]
  <2>1. Body(It)[{}] = 0
    <3> HIDE DEF It
    <3> QED OBVIOUS
  <2> HIDE DEF It, Body, g
  <2> QED BY <1>3, <1>6, <2>1
<1>8. ASSUME NEW s \in SUBSET (Race!Thread), s # {}
      PROVE  \E x \in s : It[s \ {x}] = g[s \ {x}] => It[s] = g[s]
  <2>1. PICK e : e = CHOOSE y \in s : TRUE
    OBVIOUS
  <2>2. e \in s
    BY <1>8, <2>1
  <2>3. Race!MapThenSumSet(LAMBDA n : Race!Amount((CHOOSE x \in s : TRUE), n), 1 .. 5) = v[e]
    BY <1>4, <1>8, <2>1, Zenon
  <2>4. Body(It)[s] = v[e] + It[s \ {e}]
    <3> HIDE DEF It, v
    <3> QED BY <1>8, <2>1, <2>3
  <2> HIDE DEF It, Body, g, v
  <2>5. g[s] = v[e] + g[s \ {e}]
    BY <1>2, <2>2
  <2>6. It[s] = v[e] + It[s \ {e}]
    BY <1>6, <2>4
  <2> QED BY <2>2, <2>5, <2>6
<1>9. IsFiniteSet(Race!Thread)
  <2>1. 0 \in Int /\ 1 \in Int
    OBVIOUS
  <2>2. IsFiniteSet(0 .. 1)
    BY <2>1, FiniteInterval, Zenon
  <2>3. 0 .. 1 = {0, 1}
    OBVIOUS
  <2> QED BY <1>0, <2>2, <2>3
<1> HIDE DEF It, g, v
<1>10. It[Race!Thread] = g[Race!Thread]
  BY <1>7, <1>8, <1>9, FoldUnique
<1> QED BY <1>1, <1>3, <1>10

\* goroutine4: what goroutine t adds.
LEMMA LockedInner ==
  ASSUME Rounds \in Nat, NEW t \in {0, 1}
  PROVE  Locked!MapThenSumSet(LAMBDA n : Locked!Amount(t, n),
                     1 .. Rounds) = (IF t = 0 THEN Rounds ELSE -Rounds)
<1> DEFINE Body(it) == [s \in SUBSET (1 .. Rounds) |->
             IF s = {} THEN 0 ELSE
             Locked!Amount(t, CHOOSE x \in s : TRUE)
             + it[s \ {CHOOSE x \in s : TRUE}]]
           It == CHOOSE it : it = Body(it)
           v == [x \in 1 .. Rounds |-> IF t = 0 THEN 1 ELSE -1]
           g == [s \in SUBSET (1 .. Rounds) |-> IF t = 0 THEN Cardinality(s) ELSE -Cardinality(s)]
<1>1. Locked!MapThenSumSet(LAMBDA n : Locked!Amount(t, n), 1 .. Rounds) = It[1 .. Rounds]
  BY Zenon DEF Locked!MapThenSumSet, Locked!MapThenFoldSet
<1>2. ASSUME NEW s \in SUBSET (1 .. Rounds), NEW x \in s
      PROVE  g[s] = v[x] + g[s \ {x}]
  <2>0. 1 \in Int /\ Rounds \in Int
    OBVIOUS
  <2>1. IsFiniteSet(s)
    BY <2>0, FiniteInterval, FS_Subset, Zenon
  <2>2. Cardinality(s) \in Nat /\ Cardinality(s \ {x}) = Cardinality(s) - 1
        /\ s \ {x} \in SUBSET (1 .. Rounds)
    BY <2>1, FS_RemoveElement, FS_CardinalityType
  <2>3. g[s] = (IF t = 0 THEN Cardinality(s) ELSE -Cardinality(s))
        /\ g[s \ {x}] = (IF t = 0 THEN Cardinality(s \ {x}) ELSE -Cardinality(s \ {x}))
    BY <2>2
  <2>4. v[x] = IF t = 0 THEN 1 ELSE -1
    OBVIOUS
  <2> HIDE DEF g, v
  <2> QED BY <2>2, <2>3, <2>4
<1>3. g[{}] = 0 /\ g = [s \in SUBSET (1 .. Rounds) |-> g[s]]
      /\ g[1 .. Rounds] = (IF t = 0 THEN Rounds ELSE -Rounds)
  <2>1. Cardinality({}) = 0 /\ Cardinality(1 .. Rounds) = Rounds
    BY FS_EmptySet, FS_Interval
  <2> QED BY <2>1
<1>4. \A s \in SUBSET (1 .. Rounds) : s # {} =>
        Locked!Amount(t, CHOOSE x \in s : TRUE) = v[CHOOSE x \in s : TRUE]
  <2> SUFFICES ASSUME NEW s \in SUBSET (1 .. Rounds), s # {}
               PROVE  Locked!Amount(t, CHOOSE x \in s : TRUE) = v[CHOOSE x \in s : TRUE]
    OBVIOUS
  <2>1. PICK e : e = CHOOSE y \in s : TRUE
    OBVIOUS
  <2>2. e \in 1 .. Rounds
    BY <2>1
  <2>3. Locked!Amount(t, e) = v[e]
    BY <2>2 DEF Locked!Amount
  <2> HIDE DEF v
  <2> QED BY <2>1, <2>3, Zenon
<1>5. g = Body(g)
  <2>1. ASSUME NEW s \in SUBSET (1 .. Rounds), s # {}
        PROVE  g[s] = Locked!Amount(t, CHOOSE x \in s : TRUE) + g[s \ {CHOOSE x \in s : TRUE}]
    <3>1. PICK e : e = CHOOSE y \in s : TRUE
      OBVIOUS
    <3>2. e \in s
      BY <2>1, <3>1
    <3>3. Locked!Amount(t, CHOOSE x \in s : TRUE) = v[e]
      BY <1>4, <2>1, <3>1, Zenon
    <3> HIDE DEF g, v
    <3>4. g[s] = v[e] + g[s \ {e}]
      BY <1>2, <3>2
    <3> QED BY <3>1, <3>3, <3>4
  <2> HIDE DEF g
  <2> QED BY <1>3, <2>1
<1>6. It = Body(It)
  <2> HIDE DEF g, Body
  <2> QED BY <1>5
<1>7. It[{}] = g[{}]
  <2>1. Body(It)[{}] = 0
    <3> HIDE DEF It
    <3> QED OBVIOUS
  <2> HIDE DEF It, Body, g
  <2> QED BY <1>3, <1>6, <2>1
<1>8. ASSUME NEW s \in SUBSET (1 .. Rounds), s # {}
      PROVE  \E x \in s : It[s \ {x}] = g[s \ {x}] => It[s] = g[s]
  <2>1. PICK e : e = CHOOSE y \in s : TRUE
    OBVIOUS
  <2>2. e \in s
    BY <1>8, <2>1
  <2>3. Locked!Amount(t, CHOOSE x \in s : TRUE) = v[e]
    BY <1>4, <1>8, <2>1, Zenon
  <2>4. Body(It)[s] = v[e] + It[s \ {e}]
    <3> HIDE DEF It, v
    <3> QED BY <1>8, <2>1, <2>3
  <2> HIDE DEF It, Body, g, v
  <2>5. g[s] = v[e] + g[s \ {e}]
    BY <1>2, <2>2
  <2>6. It[s] = v[e] + It[s \ {e}]
    BY <1>6, <2>4
  <2> QED BY <2>2, <2>5, <2>6
<1>9. IsFiniteSet(1 .. Rounds)
  <2>1. 1 \in Int /\ Rounds \in Int
    OBVIOUS
  <2> QED BY <2>1, FiniteInterval, Zenon
<1> HIDE DEF It, g, v
<1>10. It[1 .. Rounds] = g[1 .. Rounds]
  BY <1>7, <1>8, <1>9, FoldUnique
<1> QED BY <1>1, <1>3, <1>10

\* goroutine4: what both add, nothing.
LEMMA LockedTotal ==
  ASSUME Rounds \in Nat
  PROVE  Locked!Total(Locked!Amount) = 0
<1> DEFINE Body(it) == [s \in SUBSET (Locked!Thread) |->
             IF s = {} THEN 0 ELSE
             Locked!MapThenSumSet(LAMBDA n : Locked!Amount((CHOOSE x \in s : TRUE), n), 1 .. Rounds)
             + it[s \ {CHOOSE x \in s : TRUE}]]
           It == CHOOSE it : it = Body(it)
           v == [x \in {0, 1} |-> IF x = 0 THEN Rounds ELSE -Rounds]
           g == [s \in SUBSET (Locked!Thread) |->
             (IF 0 \in s THEN Rounds ELSE 0) + (IF 1 \in s THEN -Rounds ELSE 0)]
<1>0. Locked!Thread = {0, 1}
  BY DEF Locked!Thread
<1>1. Locked!Total(Locked!Amount) = It[Locked!Thread]
  BY Zenon DEF Locked!Total, Locked!MapThenSumSet, Locked!MapThenFoldSet
<1>2. ASSUME NEW s \in SUBSET (Locked!Thread), NEW x \in s
      PROVE  g[s] = v[x] + g[s \ {x}]
  BY <1>0
<1>3. g[{}] = 0 /\ g = [s \in SUBSET (Locked!Thread) |-> g[s]] /\ g[Locked!Thread] = 0
  BY <1>0
<1>4. \A s \in SUBSET (Locked!Thread) : s # {} =>
        Locked!MapThenSumSet(LAMBDA n : Locked!Amount((CHOOSE x \in s : TRUE), n), 1 .. Rounds) = v[CHOOSE x \in s : TRUE]
  <2> SUFFICES ASSUME NEW s \in SUBSET Locked!Thread, s # {}
               PROVE  Locked!MapThenSumSet(LAMBDA n : Locked!Amount((CHOOSE x \in s : TRUE), n),
                     1 .. Rounds) = v[CHOOSE x \in s : TRUE]
    OBVIOUS
  <2>1. PICK e : e = CHOOSE y \in s : TRUE
    OBVIOUS
  <2>2. e \in {0, 1}
    BY <1>0, <2>1
  <2>3. \A y \in {0, 1} : Locked!MapThenSumSet(LAMBDA n : Locked!Amount(y, n), 1 .. Rounds) = v[y]
    BY LockedInner
  <2>4. (CHOOSE y \in s : TRUE) \in {0, 1}
    BY <2>1, <2>2
  <2> HIDE DEF v
  <2> QED BY <2>3, <2>4, Zenon DEF Locked!MapThenSumSet, Locked!MapThenFoldSet
<1>5. g = Body(g)
  <2>1. ASSUME NEW s \in SUBSET (Locked!Thread), s # {}
        PROVE  g[s] = Locked!MapThenSumSet(LAMBDA n : Locked!Amount((CHOOSE x \in s : TRUE), n), 1 .. Rounds)
                      + g[s \ {CHOOSE x \in s : TRUE}]
    <3>1. PICK e : e = CHOOSE y \in s : TRUE
      OBVIOUS
    <3>2. e \in s
      BY <2>1, <3>1
    <3>3. Locked!MapThenSumSet(LAMBDA n : Locked!Amount((CHOOSE x \in s : TRUE), n), 1 .. Rounds) = v[e]
      BY <1>4, <2>1, <3>1, Zenon
    <3> HIDE DEF g, v
    <3>4. g[s] = v[e] + g[s \ {e}]
      BY <1>2, <3>2
    <3> QED BY <3>1, <3>3, <3>4
  <2> HIDE DEF g
  <2> QED BY <1>3, <2>1
<1>6. It = Body(It)
  <2> HIDE DEF g, Body
  <2> QED BY <1>5
<1>7. It[{}] = g[{}]
  <2>1. Body(It)[{}] = 0
    <3> HIDE DEF It
    <3> QED OBVIOUS
  <2> HIDE DEF It, Body, g
  <2> QED BY <1>3, <1>6, <2>1
<1>8. ASSUME NEW s \in SUBSET (Locked!Thread), s # {}
      PROVE  \E x \in s : It[s \ {x}] = g[s \ {x}] => It[s] = g[s]
  <2>1. PICK e : e = CHOOSE y \in s : TRUE
    OBVIOUS
  <2>2. e \in s
    BY <1>8, <2>1
  <2>3. Locked!MapThenSumSet(LAMBDA n : Locked!Amount((CHOOSE x \in s : TRUE), n), 1 .. Rounds) = v[e]
    BY <1>4, <1>8, <2>1, Zenon
  <2>4. Body(It)[s] = v[e] + It[s \ {e}]
    <3> HIDE DEF It, v
    <3> QED BY <1>8, <2>1, <2>3
  <2> HIDE DEF It, Body, g, v
  <2>5. g[s] = v[e] + g[s \ {e}]
    BY <1>2, <2>2
  <2>6. It[s] = v[e] + It[s \ {e}]
    BY <1>6, <2>4
  <2> QED BY <2>2, <2>5, <2>6
<1>9. IsFiniteSet(Locked!Thread)
  <2>1. 0 \in Int /\ 1 \in Int
    OBVIOUS
  <2>2. IsFiniteSet(0 .. 1)
    BY <2>1, FiniteInterval, Zenon
  <2>3. 0 .. 1 = {0, 1}
    OBVIOUS
  <2> QED BY <1>0, <2>2, <2>3
<1> HIDE DEF It, g, v
<1>10. It[Locked!Thread] = g[Locked!Thread]
  BY <1>7, <1>8, <1>9, FoldUnique
<1> QED BY <1>1, <1>3, <1>10

\* goroutine2.  Sums of the numbers that a goroutine has added before iteration k.
Added(t, k) ==
  IF t = 0 THEN (IF k = 1 THEN 0 ELSE IF k = 2 THEN 1 ELSE IF k = 3 THEN 3 ELSE IF k = 4 THEN 6
                 ELSE IF k = 5 THEN 10 ELSE 15)
  ELSE (IF k = 1 THEN 0 ELSE IF k = 2 THEN 6 ELSE IF k = 3 THEN 13 ELSE IF k = 4 THEN 21
        ELSE IF k = 5 THEN 30 ELSE 40)

\* What of it the first goroutine is sure to find, whatever the other overwrites.
Sure(k) == IF k = 1 THEN 0 ELSE IF k = 2 THEN 1 ELSE IF k = 3 THEN 3 ELSE 6

PairTypes(R) ==
  /\ sumPc \in [{0, 1} -> {"start", "load", "store", "end", "done"}]
  /\ sumI \in [{0, 1} -> 1 .. R + 1]
  /\ sumReg \in [{0, 1} -> Int] /\ sumSum \in Int
  /\ \A t \in {0, 1} : IF sumPc[t] \in {"end", "done"} THEN sumI[t] = R + 1 ELSE sumI[t] <= R

\* The WaitGroup counts two goroutines, and main prints after both.
PairEnds ==
  /\ sumWg = (IF sumPc[0] = "done" THEN 0 ELSE 1) + (IF sumPc[1] = "done" THEN 0 ELSE 1)
  /\ sumPrinted => sumPc[0] = "done" /\ sumPc[1] = "done"

\* What was loaded and what is stored is at most all that was added; and at least
\* what no other store can have taken away.
RaceBounds ==
  LET all == Added(0, sumI[0]) + Added(1, sumI[1])
  IN  /\ sumSum <= all /\ \A t \in {0, 1} : sumPc[t] = "store" => sumReg[t] <= all
      /\ sumSum >= Sure(sumI[0])
      /\ sumPc[0] = "store" => sumReg[0] >= Sure(sumI[0])
      /\ sumI[1] > 1 => sumSum >= 1
      /\ sumPc[1] = "store" => sumReg[1] >= 0 /\ (sumI[1] > 1 => sumReg[1] >= 1)
      /\ sumI[0] = 6 /\ sumI[1] = 6 => sumSum >= 11

RaceInv == PairTypes(5) /\ PairEnds /\ RaceBounds

\* goroutine3: add has stored once per iteration, sub likewise.
SidesInv ==
  /\ PairTypes(Rounds)
  /\ sumSum <= sumI[0] - 1 /\ sumSum >= 1 - sumI[1]
  /\ \A t \in {0, 1} : sumReg[t] <= sumI[0] - 1 /\ sumReg[t] >= 1 - sumI[1]

\* goroutine4: who is between Lock and Unlock has the mutex, and what it loaded
\* is what sum still is.
LockedInv ==
  /\ PairTypes(Rounds) /\ PairEnds
  /\ \A t \in {0, 1} : sumPc[t] \in {"load", "store", "end"} => sumMutex = t
  /\ \A t \in {0, 1} : sumPc[t] = "store" => sumReg[t] = sumSum
  /\ sumSum = sumI[0] - sumI[1]

LEMMA RaceInit == Race!Init => RaceInv
<1>1. Race!Thread = {0, 1}
  BY DEF Race!Thread
<1> QED BY <1>1 DEF Race!Init, RaceInv, PairTypes, PairEnds, RaceBounds, Added, Sure

LEMMA RaceNext == RaceInv /\ [Race!Next]_Race!vars => RaceInv'
<1> SUFFICES ASSUME RaceInv, [Race!Next]_Race!vars PROVE RaceInv'
  OBVIOUS
<1>0. Race!Thread = {0, 1}
  BY DEF Race!Thread
<1>1. ASSUME NEW t \in {0, 1}, Race!Start(t) PROVE RaceInv'
  BY <1>1 DEF Race!Start, Race!Goto, RaceInv, PairTypes, PairEnds, RaceBounds
<1>2. ASSUME NEW t \in {0, 1}, Race!Load(t) PROVE RaceInv'
  <2>1. sumI[0] \in 1 .. 6 /\ sumI[1] \in 1 .. 6 /\ sumSum \in Int
    BY DEF RaceInv, PairTypes
  <2>2. Sure(sumI[0]) \in Nat
    BY DEF Sure
  <2>3. PairTypes(5)' /\ PairEnds'
    BY <1>2 DEF Race!Load, Race!Goto, RaceInv, PairTypes, PairEnds
  <2>4. RaceBounds'
    BY <1>2, <2>1, <2>2 DEF Race!Load, Race!Goto, RaceInv, PairTypes, RaceBounds
  <2> QED BY <2>3, <2>4 DEF RaceInv
<1>3. ASSUME NEW t \in {0, 1}, Race!Store(t) PROVE RaceInv'
  <2>1. /\ sumPc[t] = "store" /\ sumI[t] \in 1 .. 5 /\ sumReg[t] \in Int /\ sumI[1 - t] \in 1 .. 6
        /\ sumSum' = sumReg[t] + (5 * t + sumI[t])
        /\ sumI' = [sumI EXCEPT ![t] = sumI[t] + 1]
        /\ sumPc' = [sumPc EXCEPT ![t] = IF sumI[t] < 5 THEN "load" ELSE "end"]
        /\ UNCHANGED <<sumReg, sumWg, sumPrinted>>
    BY <1>3 DEF Race!Store, Race!Goto, Race!Amount, RaceInv, PairTypes
  <2>2. PairTypes(5)' /\ PairEnds'
    BY <2>1 DEF RaceInv, PairTypes, PairEnds
  <2>3. Added(t, sumI[t] + 1) = Added(t, sumI[t]) + (5 * t + sumI[t])
    BY <2>1 DEF Added
  <2>4. Sure(sumI[0]) \in 0 .. 6 /\ Added(0, sumI[0]) \in Nat /\ Added(1, sumI[1]) \in Nat
    BY DEF Sure, Added
  <2>5. CASE t = 0
    <3>1. sumI'[0] = sumI[0] + 1 /\ sumI'[1] = sumI[1] /\ sumI[1] \in 1 .. 6 /\ sumI[0] \in 1 .. 5
      BY <2>1, <2>5 DEF RaceInv, PairTypes
    <3>2. Sure(sumI[0] + 1) <= Sure(sumI[0]) + sumI[0] /\ (sumI[0] = 5 => Sure(sumI[0]) = 6)
      BY <3>1 DEF Sure
    <3>3. /\ sumReg[0] >= Sure(sumI[0]) /\ sumReg[0] <= Added(0, sumI[0]) + Added(1, sumI[1])
          /\ sumPc[1] = "store" => /\ sumReg[1] <= Added(0, sumI[0]) + Added(1, sumI[1])
                                   /\ sumReg[1] >= 0 /\ (sumI[1] > 1 => sumReg[1] >= 1)
      BY <2>1, <2>5 DEF RaceInv, RaceBounds
    <3>4. sumSum' = sumReg[0] + sumI[0] /\ sumReg[0] \in Int /\ sumReg[1] \in Int /\ sumReg' = sumReg
      BY <2>1, <2>5 DEF RaceInv, PairTypes
    <3>5. sumPc'[0] # "store" /\ sumPc'[1] = sumPc[1]
      BY <2>1, <2>5 DEF RaceInv, PairTypes
    <3>6. Added(0, sumI'[0]) = Added(0, sumI[0]) + sumI[0] /\ Added(1, sumI'[1]) = Added(1, sumI[1])
      BY <2>3, <2>5, <3>1
    <3>7. Sure(sumI'[0]) <= Sure(sumI[0]) + sumI[0] /\ Sure(sumI'[0]) \in Nat
      BY <3>1, <3>2 DEF Sure
    <3> HIDE DEF Added, Sure
    <3>8. RaceBounds'
      BY <2>4, <3>1, <3>2, <3>3, <3>4, <3>5, <3>6, <3>7 DEF RaceBounds
    <3> QED BY <2>2, <3>8 DEF RaceInv
  <2>6. CASE t = 1
    <3>1. sumI'[1] = sumI[1] + 1 /\ sumI'[0] = sumI[0] /\ sumI[0] \in 1 .. 6 /\ sumI[1] \in 1 .. 5
      BY <2>1, <2>6 DEF RaceInv, PairTypes
    <3>2. /\ sumReg[1] >= 0 /\ sumReg[1] <= Added(0, sumI[0]) + Added(1, sumI[1])
          /\ sumI[1] > 1 => sumReg[1] >= 1
          /\ sumPc[0] = "store" => /\ sumReg[0] <= Added(0, sumI[0]) + Added(1, sumI[1])
                                   /\ sumReg[0] >= Sure(sumI[0])
      BY <2>1, <2>6 DEF RaceInv, RaceBounds
    <3>3. sumSum' = sumReg[1] + (5 + sumI[1]) /\ sumReg[0] \in Int /\ sumReg[1] \in Int /\ sumReg' = sumReg
      BY <2>1, <2>6 DEF RaceInv, PairTypes
    <3>4. sumPc'[1] # "store" /\ sumPc'[0] = sumPc[0]
      BY <2>1, <2>6 DEF RaceInv, PairTypes
    <3>5. Added(1, sumI'[1]) = Added(1, sumI[1]) + (5 + sumI[1]) /\ Added(0, sumI'[0]) = Added(0, sumI[0])
      BY <2>3, <2>6, <3>1
    <3>6. Sure(sumI'[0]) = Sure(sumI[0])
      BY <3>1
    <3> HIDE DEF Added, Sure
    <3>7. RaceBounds'
      BY <2>4, <3>1, <3>2, <3>3, <3>4, <3>5, <3>6 DEF RaceBounds
    <3> QED BY <2>2, <3>7 DEF RaceInv
  <2> QED BY <2>5, <2>6
<1>4. ASSUME NEW t \in {0, 1}, Race!End(t) PROVE RaceInv'
  <2>1. /\ sumPc[t] = "end" /\ sumPc' = [sumPc EXCEPT ![t] = "done"] /\ sumWg' = sumWg - 1
        /\ UNCHANGED <<sumSum, sumI, sumReg, sumPrinted>>
    BY <1>4 DEF Race!End, Race!Goto
  <2>2. PairTypes(5)'
    BY <2>1 DEF RaceInv, PairTypes
  <2>3. PairEnds'
    <3>1. sumPc'[t] = "done" /\ sumPc'[1 - t] = sumPc[1 - t] /\ 1 - t \in {0, 1}
      BY <2>1 DEF RaceInv, PairTypes
    <3>2. CASE t = 0
      BY <2>1, <3>1, <3>2 DEF RaceInv, PairEnds
    <3>3. CASE t = 1
      BY <2>1, <3>1, <3>3 DEF RaceInv, PairEnds
    <3> QED BY <3>2, <3>3
  <2>4. \A u \in {0, 1} : sumPc'[u] = "store" => sumPc[u] = "store"
    BY <2>1 DEF RaceInv, PairTypes
  <2>5. RaceBounds'
    BY <2>1, <2>4 DEF RaceInv, RaceBounds
  <2> QED BY <2>2, <2>3, <2>5 DEF RaceInv
<1>5. CASE Race!Wait
  <2>1. UNCHANGED <<sumSum, sumMutex, sumPc, sumI, sumReg, sumWg>> /\ (sumPrinted' => sumWg = 0)
    BY <1>5 DEF Race!Wait
  <2>2. PairTypes(5)' /\ RaceBounds'
    BY <2>1 DEF RaceInv, PairTypes, RaceBounds
  <2>3. sumWg = 0 => sumPc[0] = "done" /\ sumPc[1] = "done"
    BY DEF RaceInv, PairEnds
  <2>4. PairEnds'
    BY <2>1, <2>3 DEF RaceInv, PairEnds
  <2> QED BY <2>1, <2>2, <2>4 DEF RaceInv
<1>6. CASE UNCHANGED Race!vars
  BY <1>6 DEF Race!vars, RaceInv, PairTypes, PairEnds, RaceBounds
<1> QED BY <1>0, <1>1, <1>2, <1>3, <1>4, <1>5, <1>6 DEF Race!Next

\* goroutine2 prints at least 11 and at most 55, whatever updates its race loses.
THEOREM RaceLosesBounded == Race!Init /\ [][Race!Next]_Race!vars => []Race!LostUpdatesBounded
<1>1. RaceInv => Race!LostUpdatesBounded
  <2> SUFFICES ASSUME RaceInv, sumPrinted PROVE sumSum \in 1 + 2 * 5 .. Race!Total(Race!Amount)
    BY DEF Race!LostUpdatesBounded
  <2>1. sumI[0] = 6 /\ sumI[1] = 6 /\ sumSum \in Int
    BY DEF RaceInv, PairTypes, PairEnds
  <2>2. sumSum >= 11 /\ sumSum <= 55
    BY <2>1 DEF RaceInv, RaceBounds, Added
  <2> QED BY <2>1, <2>2, RaceTotal
<1> QED BY <1>1, RaceInit, RaceNext, PTL

LEMMA SidesInit == ASSUME Rounds \in Nat \ {0} PROVE Sides!Init => SidesInv
<1>1. Sides!Thread = {0, 1}
  BY DEF Sides!Thread
<1> QED BY <1>1 DEF Sides!Init, SidesInv, PairTypes

LEMMA SidesNext == ASSUME Rounds \in Nat \ {0} PROVE SidesInv /\ [Sides!Next]_Sides!vars => SidesInv'
<1> SUFFICES ASSUME SidesInv, [Sides!Next]_Sides!vars PROVE SidesInv'
  OBVIOUS
<1>0. Sides!Thread = {0, 1}
  BY DEF Sides!Thread
<1>1. ASSUME NEW t \in {0, 1}, Sides!Start(t) PROVE SidesInv'
  BY <1>1 DEF Sides!Start, Sides!Goto, SidesInv, PairTypes
<1>2. ASSUME NEW t \in {0, 1}, Sides!Load(t) PROVE SidesInv'
  BY <1>2 DEF Sides!Load, Sides!Goto, SidesInv, PairTypes
<1>3. ASSUME NEW t \in {0, 1}, Sides!Store(t) PROVE SidesInv'
  <2>1. /\ sumPc[t] = "store" /\ sumI[t] \in 1 .. Rounds
        /\ sumSum' = sumReg[t] + (IF t = 0 THEN 1 ELSE -1)
        /\ sumI' = [sumI EXCEPT ![t] = sumI[t] + 1]
        /\ sumPc' = [sumPc EXCEPT ![t] = IF sumI[t] < Rounds THEN "load" ELSE "end"]
        /\ UNCHANGED sumReg
    BY <1>3 DEF Sides!Store, Sides!Goto, Sides!Amount, SidesInv, PairTypes
  <2>2. PairTypes(Rounds)'
    BY <2>1 DEF SidesInv, PairTypes
  <2>3. /\ sumI[0] \in Nat /\ sumI[1] \in Nat /\ sumReg[0] \in Int /\ sumReg[1] \in Int
        /\ sumI'[0] = (IF t = 0 THEN sumI[0] + 1 ELSE sumI[0])
        /\ sumI'[1] = (IF t = 1 THEN sumI[1] + 1 ELSE sumI[1])
    BY <2>1 DEF SidesInv, PairTypes
  <2> QED BY <2>1, <2>2, <2>3 DEF SidesInv
<1>4. ASSUME NEW t \in {0, 1}, Sides!End(t) PROVE SidesInv'
  BY <1>4 DEF Sides!End, Sides!Goto, SidesInv, PairTypes
<1>5. CASE Sides!Wait
  BY <1>5 DEF Sides!Wait, SidesInv, PairTypes
<1>6. CASE UNCHANGED Sides!vars
  BY <1>6 DEF Sides!vars, SidesInv, PairTypes
<1> QED BY <1>0, <1>1, <1>2, <1>3, <1>4, <1>5, <1>6 DEF Sides!Next

\* One add and one sub of goroutine3: the race carries sum past neither side.
THEOREM SidesHold ==
  ASSUME Rounds \in Nat \ {0}
  PROVE  Sides!Init /\ [][Sides!Next]_Sides!vars => []Sides!NeverPastOneSide
<1>1. SidesInv => Sides!NeverPastOneSide
  BY DEF SidesInv, PairTypes, Sides!NeverPastOneSide
<1> QED BY <1>1, SidesInit, SidesNext, PTL

LEMMA LockedInit == ASSUME Rounds \in Nat \ {0} PROVE Locked!Init => LockedInv
<1>1. Locked!Thread = {0, 1}
  BY DEF Locked!Thread
<1> QED BY <1>1 DEF Locked!Init, LockedInv, PairTypes, PairEnds

LEMMA LockedNext == ASSUME Rounds \in Nat \ {0} PROVE LockedInv /\ [Locked!Next]_Locked!vars => LockedInv'
<1> SUFFICES ASSUME LockedInv, [Locked!Next]_Locked!vars PROVE LockedInv'
  OBVIOUS
<1>0. Locked!Thread = {0, 1} /\ Locked!None = 2
  BY DEF Locked!Thread, Locked!None
<1>1. ASSUME NEW t \in {0, 1}, Locked!Start(t) PROVE LockedInv'
  BY <1>0, <1>1 DEF Locked!Start, Locked!Goto, LockedInv, PairTypes, PairEnds
<1>2. ASSUME NEW t \in {0, 1}, Locked!Load(t) PROVE LockedInv'
  BY <1>2 DEF Locked!Load, Locked!Goto, LockedInv, PairTypes, PairEnds
<1>3. ASSUME NEW t \in {0, 1}, Locked!Store(t) PROVE LockedInv'
  <2>1. /\ sumPc[t] = "store" /\ sumI[t] \in 1 .. Rounds
        /\ sumSum' = sumReg[t] + (IF t = 0 THEN 1 ELSE -1)
        /\ sumI' = [sumI EXCEPT ![t] = sumI[t] + 1]
        /\ sumPc' = [sumPc EXCEPT ![t] = IF sumI[t] < Rounds THEN "load" ELSE "end"]
        /\ UNCHANGED <<sumMutex, sumReg, sumWg, sumPrinted>>
    BY <1>3 DEF Locked!Store, Locked!Goto, Locked!Amount, LockedInv, PairTypes
  <2>2. PairTypes(Rounds)' /\ PairEnds'
    BY <2>1 DEF LockedInv, PairTypes, PairEnds
  <2>3. /\ sumI[0] \in Nat /\ sumI[1] \in Nat /\ sumReg[t] \in Int /\ sumSum \in Int
        /\ sumI'[0] = (IF t = 0 THEN sumI[0] + 1 ELSE sumI[0])
        /\ sumI'[1] = (IF t = 1 THEN sumI[1] + 1 ELSE sumI[1])
    BY <2>1 DEF LockedInv, PairTypes
  <2>4. sumSum' = sumI'[0] - sumI'[1]
    BY <2>1, <2>3 DEF LockedInv
  <2>5. \A u \in {0, 1} : u # t => sumPc[u] \notin {"load", "store", "end"}
    BY <2>1 DEF LockedInv
  <2>6. \A u \in {0, 1} : sumPc'[u] \in {"load", "store", "end"} => u = t /\ sumPc'[u] # "store"
    BY <2>1, <2>5 DEF LockedInv, PairTypes
  <2>7. sumMutex = t
    BY <2>1 DEF LockedInv
  <2> QED BY <2>1, <2>2, <2>4, <2>6, <2>7 DEF LockedInv
<1>4. ASSUME NEW t \in {0, 1}, Locked!End(t) PROVE LockedInv'
  <2>1. /\ sumPc[t] = "end" /\ sumPc' = [sumPc EXCEPT ![t] = "done"] /\ sumWg' = sumWg - 1
        /\ UNCHANGED <<sumSum, sumI, sumReg, sumPrinted>>
    BY <1>4 DEF Locked!End, Locked!Goto
  <2>2. PairTypes(Rounds)'
    BY <2>1 DEF LockedInv, PairTypes
  <2>3. PairEnds'
    <3>1. sumPc'[t] = "done" /\ sumPc'[1 - t] = sumPc[1 - t] /\ 1 - t \in {0, 1}
      BY <2>1 DEF LockedInv, PairTypes
    <3>2. CASE t = 0
      BY <2>1, <3>1, <3>2 DEF LockedInv, PairEnds
    <3>3. CASE t = 1
      BY <2>1, <3>1, <3>3 DEF LockedInv, PairEnds
    <3> QED BY <3>2, <3>3
  <2>4. \A u \in {0, 1} : sumPc'[u] \notin {"load", "store", "end"}
    BY <2>1 DEF LockedInv, PairTypes
  <2> QED BY <2>1, <2>2, <2>3, <2>4 DEF LockedInv
<1>5. CASE Locked!Wait
  <2>1. UNCHANGED <<sumSum, sumMutex, sumPc, sumI, sumReg, sumWg>> /\ (sumPrinted' => sumWg = 0)
    BY <1>5 DEF Locked!Wait
  <2>2. PairTypes(Rounds)'
    BY <2>1 DEF LockedInv, PairTypes
  <2>3. sumWg = 0 => sumPc[0] = "done" /\ sumPc[1] = "done"
    BY DEF LockedInv, PairEnds
  <2>4. PairEnds'
    BY <2>1, <2>3 DEF LockedInv, PairEnds
  <2> QED BY <2>1, <2>2, <2>4 DEF LockedInv
<1>6. CASE UNCHANGED Locked!vars
  BY <1>6 DEF Locked!vars, LockedInv, PairTypes, PairEnds
<1> QED BY <1>0, <1>1, <1>2, <1>3, <1>4, <1>5, <1>6 DEF Locked!Next

\* One add and one sub of goroutine4, which takes the mutex: the sum printed is exact.
THEOREM MutexIsExact ==
  ASSUME Rounds \in Nat \ {0}
  PROVE  Locked!Init /\ [][Locked!Next]_Locked!vars => []Locked!SumExact
<1>1. LockedInv => Locked!SumExact
  BY LockedTotal DEF LockedInv, PairTypes, PairEnds, Locked!SumExact
<1> QED BY <1>1, LockedInit, LockedNext, PTL

-----------------------------------------------------------------------------
(* AsyncProducer.                                                          *)

\* TypeOK, and the types it needs.
AsyncInv ==
  /\ Async!TypeOK
  /\ asyncI \in Nat /\ asyncEnqueued \in Nat /\ asyncTimedOut \in Nat /\ asyncSucceeded \in Nat /\ asyncFailed \in Nat
  /\ asyncTaken \in Nat /\ asyncSuccesses \in Nat /\ asyncErrors \in Nat

LEMMA AsyncNext == AsyncInv /\ [Async!Next]_Async!vars => AsyncInv'
<1> SUFFICES ASSUME AsyncInv, [Async!Next]_Async!vars PROVE AsyncInv'
  OBVIOUS
<1> USE DEF AsyncInv, Async!TypeOK, Async!LoopVars
<1>1. CASE Async!Enqueue
  BY <1>1 DEF Async!Enqueue
<1>2. CASE Async!TimeOut
  BY <1>2 DEF Async!TimeOut
<1>3. CASE Async!LoopEnds \/ Async!Wait
  BY <1>3 DEF Async!LoopEnds, Async!Wait
<1>4. CASE Async!Report
  BY <1>4 DEF Async!Report
<1>5. CASE Async!RangeSuccesses
  BY <1>5 DEF Async!RangeSuccesses
<1>6. CASE Async!RangeErrors
  BY <1>6 DEF Async!RangeErrors
<1>7. CASE UNCHANGED Async!vars
  BY <1>7 DEF Async!vars
<1> QED BY <1>1, <1>2, <1>3, <1>4, <1>5, <1>6, <1>7 DEF Async!Next

AsyncSteps == Async!Init /\ [][Async!Next]_Async!vars

\* The producer's messages are accounted for.
THEOREM MessagesAccounted == AsyncSteps => []Async!TypeOK
<1>1. Async!Init => AsyncInv
  BY DEF Async!Init, AsyncInv, Async!TypeOK
<1>2. AsyncInv => Async!TypeOK
  BY DEF AsyncInv
<1> QED BY <1>1, <1>2, AsyncNext, PTL DEF AsyncSteps
-----------------------------------------------------------------------------
(* UserService.                                                            *)

CONSTANTS Reqs, UserKinds, Names, DbFails, MaxId, MaxTime, RedisExpire, JwtExpire, Second, Width, NoUser

VARIABLES users, token, ttl, info, now, req, issued, stored, buried, server

User == INSTANCE UserService WITH Kinds <- UserKinds, None <- NoUser

UserSteps == User!Init /\ [][User!Next]_User!vars

UserPlaces == {"free", "login", "setToken", "setInfo", "auth", "ttl", "renew", "select", "insert",
               "create", "page", "count", "update", "save", "delete"}

UserCalls == [pc : UserPlaces, kind : UserKinds \cup {""}, id : 0 .. MaxId, name : Names \cup {NoUser},
              tok : User!Tokens \cup {NoUser}]

\* A request past the lookup of its user knows the user; one in the middleware has a
\* token; and a handler with an id in its path has one.
UserCall(c) ==
  /\ c.pc \in {"setToken", "setInfo"} => c.id \in User!Ids /\ c.tok \in User!Tokens
  /\ c.pc \in {"auth", "ttl", "renew"} => c.tok \in User!Tokens /\ c.kind \in UserKinds
  /\ c.kind \in {"select", "update", "delete"} => c.id \in User!Ids
  /\ c.pc \in {"update", "save", "delete"} => c.id \in User!Ids

UserReqs ==
  /\ req \in [Reqs -> UserCalls]
  /\ \A r \in Reqs : UserCall(req[r])

UserData ==
  /\ users \in [User!Ids -> User!Rows]
  /\ now \in 0 .. MaxTime /\ issued \subseteq User!Tokens /\ buried \subseteq User!Ids
  /\ server \in {"up", "deaf", "draining", "down", "cut"}

\* Redis: a stored token has time left, and is the one of the last login.
UserKeys ==
  /\ token \in [User!Ids -> User!Tokens \cup {NoUser}] /\ stored \in [User!Ids -> User!Tokens \cup {NoUser}]
  /\ ttl \in [User!Ids -> 0 .. RedisExpire] /\ info \in [User!Ids -> 0 .. RedisExpire]
  /\ \A i \in User!Ids : token[i] = NoUser <=> ttl[i] = 0
  /\ \A i \in User!Ids : token[i] \in {NoUser, stored[i]}

UserInv == UserReqs /\ UserData /\ UserKeys

LEMMA UserInit == ASSUME User!ServiceAssumption, User!Init PROVE UserInv
<1>1. PICK n \in Names : users = [i \in User!Ids |-> IF i = 1 THEN [name |-> n, st |-> "live"]
                                                       ELSE [name |-> NoUser, st |-> "none"]]
  BY DEF User!Init
<1>2. users \in [User!Ids -> User!Rows]
  BY <1>1 DEF User!Rows
<1>3. UserData
  BY <1>2 DEF User!Init, UserData, User!ServiceAssumption
<1>4. UserKeys
  BY DEF User!Init, UserKeys, User!ServiceAssumption
<1>5. User!Free \in UserCalls /\ UserCall(User!Free)
  BY DEF User!Free, UserCalls, UserCall, UserPlaces, User!ServiceAssumption
<1>6. UserReqs
  BY <1>5 DEF User!Init, UserReqs
<1> QED BY <1>3, <1>4, <1>6 DEF UserInv

\* A step of one request: what it becomes has to be a request.
LEMMA UserMoves ==
  ASSUME UserInv, NEW r \in Reqs, NEW c \in UserCalls, UserCall(c),
         req' = [req EXCEPT ![r] = c], server' = server, server # "down"
  PROVE  UserReqs'
<1>1. req \in [Reqs -> UserCalls]
  BY DEF UserInv, UserReqs
<1> QED BY <1>1 DEF UserInv, UserReqs

\* Goto and Respond.
LEMMA UserGoes ==
  ASSUME User!ServiceAssumption, UserInv, NEW r \in Reqs, server' = server, User!Alive,
         NEW pc \in UserPlaces
  PROVE  /\ User!Respond(r) => UserReqs'
         /\ User!Goto(r, pc) /\ UserCall([req[r] EXCEPT !.pc = pc]) => UserReqs'
<1>1. server # "down"
  BY DEF User!Alive
<1>2. User!Free \in UserCalls /\ UserCall(User!Free)
  BY DEF User!Free, UserCalls, UserCall, UserPlaces, User!ServiceAssumption
<1>3. ASSUME User!Respond(r) PROVE UserReqs'
  BY <1>1, <1>2, <1>3, UserMoves DEF User!Respond
<1>4. ASSUME User!Goto(r, pc), UserCall([req[r] EXCEPT !.pc = pc]) PROVE UserReqs'
  <2>1. req[r] \in UserCalls
    BY DEF UserInv, UserReqs
  <2>2. [req[r] EXCEPT !.pc = pc] \in UserCalls
    BY <2>1 DEF UserCalls
  <2>3. req' = [req EXCEPT ![r] = [req[r] EXCEPT !.pc = pc]]
    BY <1>4 DEF User!Goto
  <2> QED BY <1>1, <1>4, <2>2, <2>3, UserMoves
<1> QED BY <1>3, <1>4

\* Find returns a row that is live.
LEMMA UserFound == ASSUME MaxId \in Nat, NEW n, User!Find(n) # 0 PROVE User!Find(n) \in User!Ids
<1> DEFINE s == {i \in User!Live : users[i].name = n}
<1>1. s # {} /\ User!Find(n) = CHOOSE i \in s : \A j \in s : i <= j
  BY DEF User!Find
<1>2. s \in SUBSET Nat
  BY DEF User!Live, User!Ids
<1> HIDE DEF s
<1>3. \E i \in s : \A j \in s : i <= j
  BY <1>1, <1>2, LeastNat
<1>4. (CHOOSE i \in s : \A j \in s : i <= j) \in s
  BY <1>3
<1> QED BY <1>1, <1>4 DEF s, User!Live

LEMMA UserNext == ASSUME User!ServiceAssumption, UserInv, [User!Next]_User!vars PROVE UserInv'
<1>0. /\ req \in [Reqs -> UserCalls] /\ \A r \in Reqs : req[r] \in UserCalls /\ UserCall(req[r])
      /\ \A x \in UserPlaces : x \in UserPlaces
  BY DEF UserInv, UserReqs
<1>u. UserData /\ UserKeys
  BY DEF UserInv
<1>1. ASSUME NEW r \in Reqs, NEW k \in UserKinds, NEW i \in User!IdIn(k), NEW n \in User!NameIn(k),
             NEW t \in User!TokenIn(k), User!Arrive(r, k, i, n, t)
      PROVE  UserInv'
  <2> DEFINE c == [pc |-> IF k = "login" THEN "login" ELSE "auth", kind |-> k, id |-> i,
                   name |-> n, tok |-> t]
  <2>1. req' = [req EXCEPT ![r] = c] /\ server' = server /\ server # "down"
    BY <1>1 DEF User!Arrive
  <2>2. UNCHANGED <<users, token, ttl, info, now, issued, stored, buried, server>>
    BY <1>1 DEF User!Arrive, User!redis
  <2>3. c \in UserCalls
    <3>1. i \in 0 .. MaxId
      BY DEF User!IdIn, User!Ids, User!ServiceAssumption
    <3>2. n \in Names \cup {NoUser}
      BY DEF User!NameIn
    <3>3. t \in User!Tokens \cup {NoUser}
      BY <1>u DEF User!TokenIn, UserData
    <3>4. (IF k = "login" THEN "login" ELSE "auth") \in UserPlaces
      BY DEF UserPlaces
    <3> QED BY <3>1, <3>2, <3>3, <3>4 DEF UserCalls
  <2>4. UserCall(c)
    BY <1>u DEF UserCall, User!IdIn, User!TokenIn, UserData
  <2>5. UserData' /\ UserKeys'
    BY <1>u, <2>2 DEF UserData, UserKeys
  <2> HIDE DEF c
  <2> QED BY <2>1, <2>3, <2>4, <2>5, UserMoves DEF UserInv
<1>2. ASSUME NEW r \in Reqs, \/ User!Fail(r) \/ User!AuthGet(r) \/ User!AuthTtl(r)
                             \/ User!SelectUserById(r) \/ User!InsertUser(r) \/ User!UpdateUser(r)
                             \/ User!SelectPaginatedUsers(r) \/ User!CountUsers(r)
      PROVE  UserInv'
  <2>1. UNCHANGED <<users, token, ttl, info, now, issued, stored, buried, server>> /\ User!Alive
    BY <1>2 DEF User!Fail, User!AuthGet, User!AuthTtl, User!SelectUserById, User!InsertUser,
                User!UpdateUser, User!SelectPaginatedUsers, User!CountUsers, User!redis, User!At
  <2>2. UserData' /\ UserKeys'
    BY <1>u, <2>1 DEF UserData, UserKeys
  <2>3. \/ User!Respond(r)
        \/ \E pc \in UserPlaces : User!Goto(r, pc) /\ UserCall([req[r] EXCEPT !.pc = pc])
    <3>1. req[r] \in UserCalls /\ UserCall(req[r])
      BY <1>0
    <3>2. CASE User!Fail(r) \/ User!SelectUserById(r) \/ User!CountUsers(r)
      BY <3>2 DEF User!Fail, User!SelectUserById, User!CountUsers
    <3>3. CASE User!AuthGet(r)
      BY <3>1, <3>3 DEF User!AuthGet, User!At, UserCalls, UserCall, UserPlaces
    <3>4. CASE User!AuthTtl(r)
      BY <3>1, <3>4 DEF User!AuthTtl, User!At, UserCalls, UserCall, UserPlaces
    <3>5. CASE User!InsertUser(r)
      BY <3>1, <3>5 DEF User!InsertUser, User!At, UserCalls, UserCall, UserPlaces
    <3>6. CASE User!UpdateUser(r)
      BY <3>1, <3>6 DEF User!UpdateUser, User!At, UserCalls, UserCall, UserPlaces
    <3>7. CASE User!SelectPaginatedUsers(r)
      BY <3>1, <3>7 DEF User!SelectPaginatedUsers, User!At, UserCalls, UserCall, UserPlaces
    <3> QED BY <1>2, <3>2, <3>3, <3>4, <3>5, <3>6, <3>7
  <2>4. "free" \in UserPlaces
    BY DEF UserPlaces
  <2> QED BY <2>1, <2>2, <2>3, <2>4, UserGoes DEF UserInv
<1>3. ASSUME NEW r \in Reqs, User!Login(r) PROVE UserInv'
  <2> DEFINE i == User!Find(req[r].name)
             c == [req[r] EXCEPT !.pc = "setToken", !.id = i, !.tok = User!GenToken(i)]
  <2>1. /\ req' = [req EXCEPT ![r] = c] /\ server' = server /\ server # "down"
        /\ UNCHANGED <<users, token, ttl, info, now, issued, stored, buried, server>> /\ i # 0
        /\ req[r].pc = "login"
    BY <1>0, <1>3 DEF User!Login, User!At, User!Alive, User!redis
  <2>2. i \in User!Ids
    BY <2>1, UserFound DEF User!ServiceAssumption
  <2>3. User!GenToken(i) \in User!Tokens /\ i \in 0 .. MaxId
    BY <1>u, <2>2 DEF User!GenToken, User!Tokens, User!Ids, UserData, User!ServiceAssumption
  <2> HIDE DEF i
  <2>4. req[r] \in UserCalls /\ UserCall(req[r])
    BY <1>0
  <2>5. c \in UserCalls
    BY <2>3, <2>4 DEF UserCalls, UserPlaces
  <2>6. UserCall(c)
    BY <2>2, <2>3, <2>4 DEF UserCall, UserCalls
  <2> HIDE DEF c
  <2>7. UserData' /\ UserKeys'
    BY <1>u, <2>1 DEF UserData, UserKeys
  <2> QED BY <2>1, <2>5, <2>6, <2>7, UserMoves DEF UserInv
<1>4. ASSUME NEW r \in Reqs, User!SetToken(r) PROVE UserInv'
  <2>1. /\ User!Alive /\ server' = server /\ User!Goto(r, "setInfo")
        /\ UNCHANGED <<users, info, now, issued, buried, server>> /\ req[r].pc = "setToken"
        /\ token' = [token EXCEPT ![req[r].id] = req[r].tok]
        /\ stored' = [stored EXCEPT ![req[r].id] = req[r].tok]
        /\ ttl' = [ttl EXCEPT ![req[r].id] = RedisExpire]
    BY <1>4 DEF User!SetToken, User!At
  <2>2. req[r] \in UserCalls /\ UserCall(req[r])
    BY <1>0
  <2>3. req[r].id \in User!Ids /\ req[r].tok \in User!Tokens /\ NoUser \notin User!Tokens
    BY <2>1, <2>2 DEF UserCall, User!ServiceAssumption, User!Tokens, User!Ids
  <2>4. UserKeys'
    BY <1>u, <2>1, <2>3 DEF UserKeys, User!ServiceAssumption
  <2>5. UserData'
    BY <1>u, <2>1 DEF UserData
  <2>6. UserCall([req[r] EXCEPT !.pc = "setInfo"]) /\ "setInfo" \in UserPlaces
    BY <2>2, <2>3 DEF UserCall, UserCalls, UserPlaces
  <2> QED BY <2>1, <2>4, <2>5, <2>6, UserGoes DEF UserInv
<1>5. ASSUME NEW r \in Reqs, User!SetInfo(r) PROVE UserInv'
  <2>1. /\ User!Alive /\ server' = server /\ User!Respond(r)
        /\ UNCHANGED <<users, token, ttl, now, stored, buried, server>> /\ req[r].pc = "setInfo"
        /\ info' = [info EXCEPT ![req[r].id] = RedisExpire] /\ issued' = issued \cup {req[r].tok}
    BY <1>5 DEF User!SetInfo, User!At
  <2>2. req[r].tok \in User!Tokens
    BY <1>0, <2>1 DEF UserCall
  <2>3. UserKeys'
    <3>1. RedisExpire \in 0 .. RedisExpire
      BY DEF User!ServiceAssumption
    <3>2. info' \in [User!Ids -> 0 .. RedisExpire]
      BY <1>u, <2>1, <3>1 DEF UserKeys
    <3> QED BY <1>u, <2>1, <3>2 DEF UserKeys
  <2>4. UserData'
    BY <1>u, <2>1, <2>2 DEF UserData
  <2>5. "free" \in UserPlaces
    BY DEF UserPlaces
  <2> QED BY <2>1, <2>3, <2>4, <2>5, UserGoes DEF UserInv
<1>6. ASSUME NEW r \in Reqs, User!AuthRenew(r) PROVE UserInv'
  <2> DEFINE c == [req[r] EXCEPT !.pc = req[r].kind]
  <2>1. /\ req' = [req EXCEPT ![r] = c] /\ server' = server /\ server # "down"
        /\ UNCHANGED <<users, token, info, now, issued, stored, buried, server>>
        /\ req[r].pc = "renew"
        /\ \/ token[req[r].tok.id] # NoUser /\ ttl' = [ttl EXCEPT ![req[r].tok.id] = RedisExpire]
           \/ UNCHANGED ttl
    BY <1>0, <1>6 DEF User!AuthRenew, User!Admit, User!Goto, User!At, User!Alive
  <2>2. req[r] \in UserCalls /\ UserCall(req[r])
    BY <1>0
  <2>3. req[r].kind \in UserKinds /\ req[r].kind \in UserPlaces /\ now \in 0 .. MaxTime
    BY <1>u, <2>1, <2>2 DEF UserCall, UserPlaces, User!ServiceAssumption, UserData
  <2>4. c \in UserCalls
    BY <2>2, <2>3 DEF UserCalls
  <2>5. UserCall(c)
    BY <2>1, <2>2, <2>3 DEF UserCall, UserCalls, User!ServiceAssumption
  <2> HIDE DEF c
  <2>6. UserKeys'
    BY <1>u, <2>1 DEF UserKeys, User!ServiceAssumption
  <2>7. UserData'
    BY <1>u, <2>1 DEF UserData
  <2> QED BY <2>1, <2>4, <2>5, <2>6, <2>7, UserMoves DEF UserInv
<1>7. ASSUME NEW r \in Reqs, User!CreateUser(r) \/ User!SaveUser(r) \/ User!DeleteUserById(r)
      PROVE  UserInv'
  <2>1. /\ User!Alive /\ server' = server /\ User!Respond(r)
        /\ UNCHANGED <<token, ttl, info, now, issued, stored, server>>
    BY <1>7 DEF User!CreateUser, User!SaveUser, User!DeleteUserById, User!At, User!redis
  <2>2. req[r] \in UserCalls /\ buried' \subseteq User!Ids
    <3>1. req[r] \in UserCalls /\ UserCall(req[r])
      BY <1>0
    <3>2. CASE User!CreateUser(r) \/ User!SaveUser(r)
      BY <1>u, <3>1, <3>2 DEF User!CreateUser, User!SaveUser, UserData
    <3>3. CASE User!DeleteUserById(r)
      <4>1. req[r].id \in User!Ids
        BY <3>1, <3>3 DEF User!DeleteUserById, User!At, UserCall
      <4> QED BY <1>u, <3>1, <3>3, <4>1 DEF User!DeleteUserById, UserData
    <3> QED BY <1>7, <3>2, <3>3
  <2>3. users' \in [User!Ids -> User!Rows]
    <3>1. [name |-> req[r].name, st |-> "live"] \in User!Rows
      BY <2>2 DEF UserCalls, User!Rows
    <3>2. CASE User!CreateUser(r)
      BY <1>u, <3>1, <3>2 DEF User!CreateUser, UserData
    <3>3. CASE User!SaveUser(r)
      BY <1>u, <3>1, <3>3 DEF User!SaveUser, UserData
    <3>4. CASE User!DeleteUserById(r)
      BY <1>u, <3>4 DEF User!DeleteUserById, UserData, User!Rows
    <3> QED BY <1>7, <3>2, <3>3, <3>4
  <2>4. UserData' /\ UserKeys'
    BY <1>u, <2>1, <2>2, <2>3 DEF UserData, UserKeys
  <2>5. "free" \in UserPlaces
    BY DEF UserPlaces
  <2> QED BY <2>1, <2>4, <2>5, UserGoes DEF UserInv
<1>8. CASE User!Tick
  <2>1. /\ now < MaxTime /\ now' = now + 1 /\ server # "down"
        /\ UNCHANGED <<users, req, issued, stored, buried, server>>
    BY <1>8 DEF User!Tick, User!Alive
  <2>2. /\ ttl' = [i \in User!Ids |-> IF ttl[i] = 0 THEN 0 ELSE ttl[i] - 1]
        /\ info' = [i \in User!Ids |-> IF info[i] = 0 THEN 0 ELSE info[i] - 1]
        /\ token' = [i \in User!Ids |-> IF ttl'[i] = 0 THEN NoUser ELSE token[i]]
    BY <1>8 DEF User!Tick
  <2>3. UserData'
    BY <1>u, <2>1 DEF UserData, User!ServiceAssumption
  <2>4. ASSUME NEW i \in User!Ids
        PROVE  /\ ttl'[i] \in 0 .. RedisExpire /\ info'[i] \in 0 .. RedisExpire
               /\ ttl[i] = 0 => ttl'[i] = 0
    <3>1. ttl[i] \in 0 .. RedisExpire /\ info[i] \in 0 .. RedisExpire /\ RedisExpire \in Nat
      BY <1>u DEF UserKeys, User!ServiceAssumption
    <3> QED BY <2>2, <3>1
  <2>5. ASSUME NEW i \in User!Ids
        PROVE  /\ token'[i] \in User!Tokens \cup {NoUser} /\ (token'[i] = NoUser <=> ttl'[i] = 0)
               /\ token'[i] \in {NoUser, stored[i]}
    <3>1. /\ token[i] \in User!Tokens \cup {NoUser} /\ (token[i] = NoUser <=> ttl[i] = 0)
          /\ token[i] \in {NoUser, stored[i]}
      BY <1>u DEF UserKeys
    <3> QED BY <2>2, <2>4, <3>1
  <2>6. UserKeys'
    BY <1>u, <2>1, <2>2, <2>4, <2>5 DEF UserKeys
  <2>7. UserReqs'
    BY <1>u, <2>1 DEF UserInv, UserReqs
  <2> QED BY <2>3, <2>6, <2>7 DEF UserInv
<1>9. CASE User!Signal \/ User!Drained \/ User!ShutdownTimeout
  <2>1. UNCHANGED <<users, token, ttl, info, now, req, issued, stored, buried>>
    BY <1>9 DEF User!Signal, User!Drained, User!ShutdownTimeout, User!redis
  <2>2. server' \in {"draining", "cut", "down"}
    BY <1>9 DEF User!Signal, User!Drained, User!ShutdownTimeout
  <2> QED BY <1>u, <2>1, <2>2 DEF UserInv, UserReqs, UserData, UserKeys
<1>10. CASE UNCHANGED User!vars
  <2>1. UNCHANGED <<users, token, ttl, info, now, req, issued, stored, buried, server>>
    BY <1>10 DEF User!vars
  <2> QED BY <1>u, <2>1 DEF UserInv, UserReqs, UserData, UserKeys
<1> QED BY <1>1, <1>2, <1>3, <1>4, <1>5, <1>6, <1>7, <1>8, <1>9, <1>10 DEF User!Next, User!Handler

LEMMA UserInvariant == ASSUME User!ServiceAssumption PROVE UserSteps => []UserInv
<1>1. User!Init => UserInv
  BY UserInit
<1>2. UserInv /\ [User!Next]_User!vars => UserInv'
  BY UserNext
<1> QED BY <1>1, <1>2, PTL DEF UserSteps

\* go-proj's user service: every row, key and request has its type, and a stored token
\* has time left.
THEOREM UserTyped == ASSUME User!ServiceAssumption PROVE UserSteps => []User!TypeOK
<1>1. UserInv => User!TypeOK
  BY DEF UserInv, UserData, UserKeys, User!TypeOK
<1> QED BY <1>1, UserInvariant, PTL

\* A stored token is the one of the last login, though requests that were let in with an
\* earlier one renew the key.
THEOREM LoginsWin == ASSUME User!ServiceAssumption PROVE UserSteps => []User!LastLoginWins
<1>1. UserInv => User!LastLoginWins
  BY DEF UserInv, UserKeys, User!LastLoginWins
<1> QED BY <1>1, UserInvariant, PTL

\* The table has no gap in its ids, an UpdateUser saves a row that is there, and no
\* UpdateUser has read and not yet saved a row that was deleted for good.
UserRows ==
  /\ \E n \in 0 .. MaxId : \A j \in User!Ids : users[j].st # "none" <=> j <= n
  /\ \A r \in Reqs : req[r].pc = "save" => users[req[r].id].st # "none"
  /\ \A i \in buried : users[i].st = "deleted" /\ ~ User!Saving(i)

\* A step that leaves the table alone and brings no request to its Save.
LEMMA RowsKept ==
  ASSUME UserRows, UNCHANGED <<users, buried>>,
         \A r \in Reqs : req'[r].pc = "save" => req'[r] = req[r]
  PROVE  UserRows'
<1>1. \A i \in buried : users[i].st = "deleted" /\ ~ User!Saving(i)
  BY DEF UserRows
<1>2. \A i \in buried' : (users[i].st)' = "deleted" /\ ~ User!Saving(i)'
  BY <1>1 DEF User!Saving
<1> QED BY <1>2 DEF UserRows

\* The next id is the first that no row has.
LEMMA NextId ==
  ASSUME MaxId \in Nat, NEW n \in 0 .. MaxId, \A j \in User!Ids : users[j].st # "none" <=> j <= n
  PROVE  User!Cardinality({j \in User!Ids : users[j].st # "none"}) = n
<1>1. {j \in User!Ids : users[j].st # "none"} = 1 .. n
  BY DEF User!Ids
<1>2. 1 \in Int /\ n \in Int /\ n >= 0
  OBVIOUS
<1>3. Cardinality(1 .. n) = n
  <2>1. Cardinality(1 .. n) = IF 1 > n THEN 0 ELSE n - 1 + 1
    BY <1>2, FS_Interval
  <2> QED BY <1>2, <2>1
<1>4. \A T : User!Cardinality(T) = Cardinality(T)
  BY DEF User!Cardinality, Cardinality
<1> QED BY <1>1, <1>3, <1>4

LEMMA RowsNext ==
  ASSUME User!ServiceAssumption, UserInv, UserRows, [User!Next]_User!vars
  PROVE  UserRows'
<1>0. /\ req \in [Reqs -> UserCalls] /\ \A r \in Reqs : req[r] \in UserCalls /\ UserCall(req[r])
      /\ users \in [User!Ids -> User!Rows] /\ buried \subseteq User!Ids
  BY DEF UserInv, UserReqs, UserData
<1>1. PICK n \in 0 .. MaxId : \A j \in User!Ids : users[j].st # "none" <=> j <= n
  BY DEF UserRows
<1>2. /\ \A r \in Reqs : req[r].pc = "save" => users[req[r].id].st # "none"
      /\ \A i \in buried : users[i].st = "deleted" /\ ~ User!Saving(i)
  BY DEF UserRows
<1>3. ASSUME NEW r \in Reqs, User!Respond(r)
      PROVE  \A x \in Reqs : req'[x].pc = "save" => x # r /\ req'[x] = req[x]
  BY <1>0, <1>3 DEF User!Respond, User!Free
<1>4. ASSUME NEW r \in Reqs,
             \/ \E k \in UserKinds : \E i \in User!IdIn(k), m \in User!NameIn(k), t \in User!TokenIn(k) :
                  User!Arrive(r, k, i, m, t)
             \/ User!Fail(r) \/ User!Login(r) \/ User!SetToken(r) \/ User!SetInfo(r)
             \/ User!AuthGet(r) \/ User!AuthTtl(r) \/ User!AuthRenew(r)
             \/ User!SelectUserById(r) \/ User!InsertUser(r)
             \/ User!SelectPaginatedUsers(r) \/ User!CountUsers(r)
      PROVE  UserRows'
  <2>1. UNCHANGED <<users, buried>>
    BY <1>4 DEF User!Arrive, User!Fail, User!Login, User!SetToken, User!SetInfo, User!AuthGet, User!AuthTtl,
                User!AuthRenew, User!SelectUserById, User!InsertUser, User!SelectPaginatedUsers, User!CountUsers
  <2>2. ASSUME NEW pc, pc # "save", User!Goto(r, pc)
        PROVE  \A x \in Reqs : req'[x].pc = "save" => req'[x] = req[x]
    BY <1>0, <2>2 DEF User!Goto, UserCalls
  <2>3. \A x \in Reqs : req'[x].pc = "save" => req'[x] = req[x]
    <3>1. CASE \E k \in UserKinds : \E i \in User!IdIn(k), m \in User!NameIn(k), t \in User!TokenIn(k) :
                 User!Arrive(r, k, i, m, t)
      BY <1>0, <3>1 DEF User!Arrive
    <3>2. CASE User!Login(r)
      BY <1>0, <3>2 DEF User!Login, UserCalls
    <3>3. CASE User!AuthRenew(r)
      <4>1. User!Goto(r, req[r].kind) /\ req[r].pc = "renew"
        BY <3>3 DEF User!AuthRenew, User!Admit, User!At
      <4>2. req[r].kind # "save"
        BY <1>0, <4>1 DEF UserCall, User!ServiceAssumption
      <4> QED BY <2>2, <4>1, <4>2
    <3>4. CASE \/ User!Fail(r) \/ User!SetToken(r) \/ User!SetInfo(r) \/ User!AuthGet(r) \/ User!AuthTtl(r)
               \/ User!SelectUserById(r) \/ User!InsertUser(r) \/ User!SelectPaginatedUsers(r) \/ User!CountUsers(r)
      <4>1. User!Respond(r) \/ \E pc \in {"setInfo", "ttl", "renew", "create", "count"} : User!Goto(r, pc)
        BY <3>4 DEF User!Fail, User!SetToken, User!SetInfo, User!AuthGet, User!AuthTtl, User!SelectUserById,
                    User!InsertUser, User!SelectPaginatedUsers, User!CountUsers
      <4> QED BY <1>3, <2>2, <4>1
    <3> QED BY <1>4, <3>1, <3>2, <3>3, <3>4
  <2> QED BY <2>1, <2>3, RowsKept
<1>5. ASSUME NEW r \in Reqs, User!UpdateUser(r) PROVE UserRows'
  <2>1. CASE User!Respond(r)
    BY <1>3, <1>5, <2>1, RowsKept DEF User!UpdateUser
  <2>2. CASE req[r].id \in User!Live /\ User!Goto(r, "save")
    <3>1. /\ UNCHANGED <<users, buried>> /\ users[req[r].id].st = "live"
          /\ req' = [req EXCEPT ![r] = [req[r] EXCEPT !.pc = "save"]]
      BY <1>5, <2>2 DEF User!UpdateUser, User!Live, User!Goto
    <3>2. \A x \in Reqs : req'[x].id = req[x].id /\ (x # r => req'[x] = req[x])
      BY <1>0, <3>1 DEF UserCalls
    <3>3. \A x \in Reqs : req'[x].pc = "save" => users[req'[x].id].st # "none"
      BY <1>2, <3>1, <3>2
    <3>4. \A i \in buried : ~ User!Saving(i)'
      BY <1>2, <3>1, <3>2 DEF User!Saving
    <3> QED BY <1>1, <1>2, <3>1, <3>3, <3>4 DEF UserRows
  <2> QED BY <1>5, <2>1, <2>2 DEF User!UpdateUser
<1>6. ASSUME NEW r \in Reqs, User!CreateUser(r) PROVE UserRows'
  <2>1. /\ User!Cardinality({j \in User!Ids : users[j].st # "none"}) = n /\ n \in Nat
    BY <1>1, NextId DEF User!ServiceAssumption
  <2>2. /\ n + 1 \in 0 .. MaxId /\ n + 1 \in User!Ids /\ UNCHANGED buried /\ User!Respond(r)
        /\ users' = [users EXCEPT ![n + 1] = [name |-> req[r].name, st |-> "live"]]
    <3> DEFINE i == User!Cardinality({j \in User!Ids : users[j].st # "none"}) + 1
    <3>1. /\ i <= MaxId /\ UNCHANGED buried /\ User!Respond(r)
          /\ users' = [users EXCEPT ![i] = [name |-> req[r].name, st |-> "live"]]
      BY <1>6 DEF User!CreateUser
    <3>2. i = n + 1
      BY <2>1
    <3> HIDE DEF i
    <3>3. n + 1 \in 0 .. MaxId /\ n + 1 \in User!Ids
      BY <2>1, <3>1, <3>2 DEF User!Ids, User!ServiceAssumption
    <3> QED BY <3>1, <3>2, <3>3
  <2>3. \A j \in User!Ids : users'[j].st # "none" <=> j <= n + 1
    <3>1. \A j \in User!Ids : j \in Nat
      BY DEF User!Ids
    <3> QED BY <1>0, <1>1, <2>1, <2>2, <3>1
  <2>4. n + 1 \notin buried
    BY <1>1, <1>2, <2>1, <2>2
  <2>5. \A x \in Reqs : req'[x].pc = "save" => users'[req'[x].id].st # "none"
    <3>1. \A x \in Reqs : req[x].pc = "save" => req[x].id \in User!Ids
      BY <1>0 DEF UserCall
    <3> QED BY <1>0, <1>2, <1>3, <2>2, <3>1
  <2>6. \A i \in buried : users'[i].st = "deleted" /\ ~ User!Saving(i)'
    BY <1>0, <1>2, <1>3, <2>2, <2>4 DEF User!Saving
  <2> QED BY <2>2, <2>3, <2>5, <2>6 DEF UserRows
<1>7. ASSUME NEW r \in Reqs, User!SaveUser(r) PROVE UserRows'
  <2>1. /\ req[r].pc = "save" /\ UNCHANGED buried /\ User!Respond(r)
        /\ users' = [users EXCEPT ![req[r].id] = [name |-> req[r].name, st |-> "live"]]
    BY <1>7 DEF User!SaveUser, User!At
  <2>2. /\ req[r].id \in User!Ids /\ users[req[r].id].st # "none" /\ req[r].id \notin buried
    BY <1>0, <1>2, <2>1 DEF UserCall, User!Saving
  <2>3. \A j \in User!Ids : users'[j].st # "none" <=> j <= n
    BY <1>0, <1>1, <2>1, <2>2
  <2>4. \A x \in Reqs : req'[x].pc = "save" => users'[req'[x].id].st # "none"
    <3>1. \A x \in Reqs : req[x].pc = "save" => req[x].id \in User!Ids
      BY <1>0 DEF UserCall
    <3> QED BY <1>0, <1>2, <1>3, <2>1, <2>2, <3>1
  <2>5. \A i \in buried : users'[i].st = "deleted" /\ ~ User!Saving(i)'
    BY <1>0, <1>2, <1>3, <2>1, <2>2 DEF User!Saving
  <2> QED BY <2>1, <2>3, <2>4, <2>5 DEF UserRows
<1>8. ASSUME NEW r \in Reqs, User!DeleteUserById(r) PROVE UserRows'
  <2>1. /\ req[r].pc = "delete" /\ User!Respond(r)
        /\ users' = IF req[r].id \in User!Live THEN [users EXCEPT ![req[r].id].st = "deleted"] ELSE users
        /\ buried' = IF users[req[r].id].st = "none" \/ User!Saving(req[r].id) THEN buried
                     ELSE buried \cup {req[r].id}
    BY <1>8 DEF User!DeleteUserById, User!At
  <2>2. req[r].id \in User!Ids
    BY <1>0, <2>1 DEF UserCall
  <2>3. /\ \A j \in User!Ids : users'[j].st # "none" <=> users[j].st # "none"
        /\ \A j \in User!Ids : users[j].st = "deleted" => users'[j].st = "deleted"
        /\ users[req[r].id].st # "none" => users'[req[r].id].st = "deleted"
    BY <1>0, <2>1, <2>2 DEF User!Live, User!Rows
  <2>4. \A x \in Reqs : req'[x].pc = "save" => users'[req'[x].id].st # "none"
    <3>1. \A x \in Reqs : req[x].pc = "save" => req[x].id \in User!Ids
      BY <1>0 DEF UserCall
    <3> QED BY <1>2, <1>3, <2>1, <2>3, <3>1
  <2>5. \A i \in User!Ids : ~ User!Saving(i) => ~ User!Saving(i)'
    BY <1>3, <2>1 DEF User!Saving
  <2>6. \A i \in buried' : users'[i].st = "deleted" /\ ~ User!Saving(i)'
    BY <1>0, <1>2, <2>1, <2>2, <2>3, <2>5
  <2> QED BY <1>1, <2>3, <2>4, <2>6 DEF UserRows
<1>9. CASE User!Tick \/ User!Signal \/ User!Drained \/ User!ShutdownTimeout \/ UNCHANGED User!vars
  <2>1. UNCHANGED <<users, buried, req>>
    BY <1>9 DEF User!Tick, User!Signal, User!Drained, User!ShutdownTimeout, User!vars
  <2> QED BY <2>1, RowsKept
<1> QED BY <1>4, <1>5, <1>6, <1>7, <1>8, <1>9 DEF User!Next, User!Handler

\* A row deleted while no UpdateUser stood between its read and its Save stays deleted,
\* whatever requests insert, update and delete from then on.
THEOREM DeletesAreFinal == ASSUME User!ServiceAssumption PROVE UserSteps => []User!DeleteIsFinal
<1>1. ASSUME User!Init PROVE UserRows
  <2>1. PICK m \in Names : users = [i \in User!Ids |-> IF i = 1 THEN [name |-> m, st |-> "live"]
                                                         ELSE [name |-> NoUser, st |-> "none"]]
    BY <1>1 DEF User!Init
  <2>2. 1 \in 0 .. MaxId /\ \A j \in User!Ids : j \in Nat \ {0}
    BY DEF User!ServiceAssumption, User!Ids
  <2>3. \A j \in User!Ids : users[j].st # "none" <=> j <= 1
    BY <2>1, <2>2
  <2>4. buried = {} /\ \A r \in Reqs : req[r].pc # "save"
    BY <1>1 DEF User!Init, User!Free
  <2> QED BY <2>2, <2>3, <2>4 DEF UserRows
<1>2. UserInv /\ UserRows /\ [User!Next]_User!vars => UserRows'
  BY RowsNext
<1>3. UserRows => User!DeleteIsFinal
  BY DEF UserRows, User!DeleteIsFinal
<1> QED BY <1>1, <1>2, <1>3, UserInvariant, PTL DEF UserSteps
=============================================================================
