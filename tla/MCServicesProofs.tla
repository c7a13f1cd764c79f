-------------------------- MODULE MCServicesProofs --------------------------
(***************************************************************************)
(* The servers together.  A behaviour of MCServices keeps its              *)
(* configuration and is, in each of them, one of the component; so what    *)
(* ServerProofs proves for all values of the constants of Gnet, Chat and   *)
(* UserService holds of it.  The instances below have the values that      *)
(* MCServices gives (a connection id wraps around at once in both).        *)
(***************************************************************************)
EXTENDS MCServices, TLAPS

\* "gnet", "chat" and "logins"; "chat full" and "data".
SC == INSTANCE ServerProofs WITH
  Clients <- {alice, bob}, Cap <- 2, BufSize <- 2, SockCap <- 2, MaxSend <- 2,
  MaxConnNum <- 2, WorkerPoolSize <- 1, ReqChanLen <- 1, UseMsgSerializer <- FALSE,
  AfterConnStart <- FALSE, IdSpace <- 1, MaxAccepts <- 2, MaxMsgs <- 2, Traffic <- {"bound"},
  SockBuf <- 1,
  proc <- gnetProc, mpc <- gnetMpc, mconn <- gnetMconn, apc <- gnetApc, nextId <- gnetNextId,
  connDict <- gnetConnDict, connLock <- gnetConnLock, sock <- gnetSock, peer <- gnetPeer,
  msgs <- gnetMsgs, received <- gnetReceived, outbox <- gnetOutbox, isClosed <- gnetIsClosed,
  closedBuf <- gnetClosedBuf, closedDone <- gnetClosedDone, packetDone <- gnetPacketDone,
  rpc <- gnetRpc, wpc <- gnetWpc, stop <- gnetStop, spc <- gnetSpc, reqChan <- gnetReqChan,
  EchoKinds <- {}, MaxLine <- 1, EchoBuf <- 1, EchoBufio <- 1, EchoSock <- 1, Split <- FALSE,
  UdpClients <- {}, Connected <- {}, UdpBuf <- 1, Sizes <- {}, MaxRounds <- 1, Loses <- FALSE,
  Copies <- FALSE, Exits <- FALSE, Strays <- FALSE, HalfKinds <- {}, MaxLen <- 1, LineLen <- 1,
  HalfBuf <- 1, HalfBufio <- 1, Program <- NoVar, Threads <- 1, Rounds <- 1, Total <- 1,
  Pending <- 1, echoKind <- NoVar, echoCpc <- NoVar, echoSend <- NoVar, echoUnsent <- NoVar,
  echoC2s <- NoVar, echoSbio <- NoVar, echoSpc <- NoVar, echoHold <- NoVar, echoS2c <- NoVar,
  echoCbio <- NoVar, echoOwed <- NoVar, udpCpc <- NoVar, udpSend <- NoVar, udpRound <- NoVar,
  udpPrinted <- NoVar, udpRefused <- NoVar, udpUp <- NoVar, udpToServer <- NoVar,
  udpToClient <- NoVar, udpDisturbed <- NoVar, halfKind <- NoVar, halfTotal <- NoVar,
  halfSpc <- NoVar, halfCpc <- NoVar, halfLeft <- NoVar, halfBio <- NoVar, halfFds <- NoVar,
  halfShut <- NoVar, halfS2c <- NoVar, halfC2s <- NoVar, halfGot <- NoVar,
  halfCollected <- NoVar, halfThanked <- NoVar, sumSum <- NoVar, sumMutex <- NoVar,
  sumPc <- NoVar, sumI <- NoVar, sumReg <- NoVar, sumWg <- NoVar, sumPrinted <- NoVar,
  asyncMpc <- NoVar, asyncI <- NoVar, asyncEnqueued <- NoVar, asyncTimedOut <- NoVar,
  asyncSpc <- NoVar, asyncSucceeded <- NoVar, asyncEpc <- NoVar, asyncFailed <- NoVar,
  asyncTaken <- NoVar, asyncSuccesses <- NoVar, asyncErrors <- NoVar, asyncClosed <- NoVar,
  UserKinds <- {"login", "select"}, DbFails <- FALSE, MaxId <- 1, MaxTime <- 2, Reqs <- {r1, r2},
  Names <- {n1}, RedisExpire <- 1, JwtExpire <- 1, Second <- 2, Width <- 8, NoUser <- Nothing
SF == INSTANCE ServerProofs WITH
  Clients <- {alice, bob, carol}, Cap <- 2, BufSize <- 1, SockCap <- 1, MaxSend <- 0,
  MaxConnNum <- 2, WorkerPoolSize <- 1, ReqChanLen <- 1, UseMsgSerializer <- FALSE,
  AfterConnStart <- FALSE, IdSpace <- 1, MaxAccepts <- 2, MaxMsgs <- 2, Traffic <- {"bound"},
  SockBuf <- 1,
  proc <- gnetProc, mpc <- gnetMpc, mconn <- gnetMconn, apc <- gnetApc, nextId <- gnetNextId,
  connDict <- gnetConnDict, connLock <- gnetConnLock, sock <- gnetSock, peer <- gnetPeer,
  msgs <- gnetMsgs, received <- gnetReceived, outbox <- gnetOutbox, isClosed <- gnetIsClosed,
  closedBuf <- gnetClosedBuf, closedDone <- gnetClosedDone, packetDone <- gnetPacketDone,
  rpc <- gnetRpc, wpc <- gnetWpc, stop <- gnetStop, spc <- gnetSpc, reqChan <- gnetReqChan,
  EchoKinds <- {}, MaxLine <- 1, EchoBuf <- 1, EchoBufio <- 1, EchoSock <- 1, Split <- FALSE,
  UdpClients <- {}, Connected <- {}, UdpBuf <- 1, Sizes <- {}, MaxRounds <- 1, Loses <- FALSE,
  Copies <- FALSE, Exits <- FALSE, Strays <- FALSE, HalfKinds <- {}, MaxLen <- 1, LineLen <- 1,
  HalfBuf <- 1, HalfBufio <- 1, Program <- NoVar, Threads <- 1, Rounds <- 1, Total <- 1,
  Pending <- 1, echoKind <- NoVar, echoCpc <- NoVar, echoSend <- NoVar, echoUnsent <- NoVar,
  echoC2s <- NoVar, echoSbio <- NoVar, echoSpc <- NoVar, echoHold <- NoVar, echoS2c <- NoVar,
  echoCbio <- NoVar, echoOwed <- NoVar, udpCpc <- NoVar, udpSend <- NoVar, udpRound <- NoVar,
  udpPrinted <- NoVar, udpRefused <- NoVar, udpUp <- NoVar, udpToServer <- NoVar,
  udpToClient <- NoVar, udpDisturbed <- NoVar, halfKind <- NoVar, halfTotal <- NoVar,
  halfSpc <- NoVar, halfCpc <- NoVar, halfLeft <- NoVar, halfBio <- NoVar, halfFds <- NoVar,
  halfShut <- NoVar, halfS2c <- NoVar, halfC2s <- NoVar, halfGot <- NoVar,
  halfCollected <- NoVar, halfThanked <- NoVar, sumSum <- NoVar, sumMutex <- NoVar,
  sumPc <- NoVar, sumI <- NoVar, sumReg <- NoVar, sumWg <- NoVar, sumPrinted <- NoVar,
  asyncMpc <- NoVar, asyncI <- NoVar, asyncEnqueued <- NoVar, asyncTimedOut <- NoVar,
  asyncSpc <- NoVar, asyncSucceeded <- NoVar, asyncEpc <- NoVar, asyncFailed <- NoVar,
  asyncTaken <- NoVar, asyncSuccesses <- NoVar, asyncErrors <- NoVar, asyncClosed <- NoVar,
  UserKinds <- {"login", "insert", "delete", "page", "update"}, DbFails <- TRUE, MaxId <- 2,
  MaxTime <- 0, Reqs <- {r1, r2}, Names <- {n1}, RedisExpire <- 1, JwtExpire <- 1, Second <- 2,
  Width <- 8, NoUser <- Nothing

\* What Gnet assumes of its constants holds of the values it has here.
LEMMA GnetConfigured ==
  /\ 2 \in Nat /\ 1 \in Nat /\ 1 \in Nat \ {0} /\ FALSE \in BOOLEAN
  /\ {"bound"} \subseteq {"bound", "unbound", "oversize"}
OBVIOUS

LEMMA GnetSame ==
  /\ GnetWrap!Init <=> SC!Init
  /\ [GnetWrap!Next]_GnetWrap!vars <=> [SC!Next]_SC!vars
<1>1. GnetWrap!Init <=> SC!Init
  BY DEF GnetWrap!Init, SC!Init, GnetWrap!None, SC!None, GnetWrap!Ids, SC!Ids, GnetWrap!Conns,
         SC!Conns, GnetWrap!Stoppers, SC!Stoppers, GnetWrap!Main, SC!Main, GnetWrap!Senders,
         SC!Senders, GnetWrap!Workers, SC!Workers
<1>2. GnetWrap!Next <=> SC!Next
  BY DEF GnetWrap!Next, SC!Next, GnetWrap!Acceptor, SC!Acceptor, GnetWrap!Listen, SC!Listen,
         GnetWrap!registry, SC!registry, GnetWrap!network, SC!network, GnetWrap!chans, SC!chans,
         GnetWrap!AcceptTCP, SC!AcceptTCP,
         GnetWrap!TestConnNum, SC!TestConnNum, GnetWrap!Refuse, SC!Refuse, GnetWrap!GetConnNum, SC!GetConnNum, GnetWrap!Ids, SC!Ids,
         GnetWrap!None, SC!None, GnetWrap!AddConn, SC!AddConn, GnetWrap!IdOf, SC!IdOf,
         GnetWrap!Conns, SC!Conns, GnetWrap!Start, SC!Start, GnetWrap!Reader, SC!Reader,
         GnetWrap!ReadPacket, SC!ReadPacket, GnetWrap!Decoded, SC!Decoded, GnetWrap!ReadError,
         SC!ReadError, GnetWrap!PushToReqChan, SC!PushToReqChan, GnetWrap!WorkerOf, SC!WorkerOf,
         GnetWrap!Routed, SC!Routed, GnetWrap!Stop, SC!Stop, GnetWrap!StopCheck, SC!StopCheck,
         GnetWrap!StopGoto, SC!StopGoto, GnetWrap!StopTarget, SC!StopTarget, GnetWrap!Main,
         SC!Main, GnetWrap!StopMark, SC!StopMark, GnetWrap!StopCloseSocket, SC!StopCloseSocket,
         GnetWrap!StopNotify, SC!StopNotify, GnetWrap!StopDelConn, SC!StopDelConn,
         GnetWrap!StopCloseClosedChan, SC!StopCloseClosedChan, GnetWrap!StopClosePacketChan,
         SC!StopClosePacketChan, GnetWrap!Writer, SC!Writer, GnetWrap!WriterRecv, SC!WriterRecv,
         GnetWrap!Senders, SC!Senders, GnetWrap!WriterRecvClosed, SC!WriterRecvClosed,
         GnetWrap!WriterClosed, SC!WriterClosed, GnetWrap!SocketWrite, SC!SocketWrite,
         GnetWrap!Client, SC!Client, GnetWrap!ClientSend, SC!ClientSend, GnetWrap!control,
         SC!control, GnetWrap!ClientRead, SC!ClientRead, GnetWrap!ClientLeave, SC!ClientLeave,
         GnetWrap!Workers, SC!Workers, GnetWrap!WorkerPop, SC!WorkerPop, GnetWrap!WorkerBusy,
         SC!WorkerBusy, GnetWrap!Active, SC!Active, GnetWrap!Sender, SC!Sender,
         GnetWrap!SendCheck, SC!SendCheck, GnetWrap!SendPanic, SC!SendPanic, GnetWrap!Signal,
         SC!Signal, GnetWrap!Shutdown, SC!Shutdown, GnetWrap!DelAllConn, SC!DelAllConn,
         GnetWrap!DelAllLock, SC!DelAllLock, GnetWrap!DelAllStop, SC!DelAllStop,
         GnetWrap!DelAllDelete, SC!DelAllDelete, GnetWrap!DelAllUnlock, SC!DelAllUnlock,
         GnetWrap!Exit, SC!Exit, GnetWrap!Cardinality, SC!Cardinality
<1> QED BY <1>1, <1>2 DEF GnetWrap!vars, SC!vars, GnetWrap!registry, SC!registry,
         GnetWrap!network, SC!network, GnetWrap!chans, SC!chans, GnetWrap!control, SC!control

LEMMA ChatSame ==
  /\ Chat!Init <=> SC!Chat!Init
  /\ [Chat!Next]_Chat!vars <=> [SC!Chat!Next]_SC!Chat!vars
<1>1. Chat!Init <=> SC!Chat!Init
  BY DEF Chat!Init, SC!Chat!Init, Chat!Free, SC!Chat!Free
<1>2. Chat!Next <=> SC!Chat!Next
  BY DEF Chat!Next, SC!Chat!Next, Chat!Main, SC!Chat!Main, Chat!Register, SC!Chat!Register,
         Chat!Free, SC!Chat!Free, Chat!clientVars, SC!Chat!clientVars, Chat!Panic,
         SC!Chat!Panic, Chat!Accept, SC!Chat!Accept,
         Chat!AcceptErr, SC!Chat!AcceptErr, Chat!Handler, SC!Chat!Handler,
         Chat!HandlerRead, SC!Chat!HandlerRead, Chat!HandlerReadErr, SC!Chat!HandlerReadErr,
         Chat!Remove, SC!Chat!Remove, Chat!Without, SC!Chat!Without, Chat!Lock, SC!Chat!Lock,
         Chat!Write, SC!Chat!Write, Chat!Unlock, SC!Chat!Unlock, Chat!Dial, SC!Chat!Dial,
         Chat!SendMsg, SC!Chat!SendMsg, Chat!serverVars, SC!Chat!serverVars, Chat!Quit,
         SC!Chat!Quit, Chat!RecvMsg, SC!Chat!RecvMsg, Chat!RecvEnds, SC!Chat!RecvEnds
<1> QED BY <1>1, <1>2 DEF Chat!vars, SC!Chat!vars, Chat!serverVars, SC!Chat!serverVars,
         Chat!clientVars, SC!Chat!clientVars

LEMMA ChatFullSame ==
  /\ ChatFull!Init <=> SF!Chat!Init
  /\ [ChatFull!Next]_ChatFull!vars <=> [SF!Chat!Next]_SF!Chat!vars
<1>1. ChatFull!Init <=> SF!Chat!Init
  BY DEF ChatFull!Init, SF!Chat!Init, ChatFull!Free, SF!Chat!Free
<1>2. ChatFull!Next <=> SF!Chat!Next
  BY DEF ChatFull!Next, SF!Chat!Next, ChatFull!Main, SF!Chat!Main, ChatFull!Register,
         SF!Chat!Register, ChatFull!Free, SF!Chat!Free, ChatFull!clientVars, SF!Chat!clientVars,
         ChatFull!Panic, SF!Chat!Panic, ChatFull!Accept, SF!Chat!Accept,
         ChatFull!AcceptErr, SF!Chat!AcceptErr, ChatFull!Handler,
         SF!Chat!Handler, ChatFull!HandlerRead, SF!Chat!HandlerRead, ChatFull!HandlerReadErr,
         SF!Chat!HandlerReadErr, ChatFull!Remove, SF!Chat!Remove, ChatFull!Without,
         SF!Chat!Without, ChatFull!Lock, SF!Chat!Lock, ChatFull!Write, SF!Chat!Write,
         ChatFull!Unlock, SF!Chat!Unlock, ChatFull!Dial, SF!Chat!Dial, ChatFull!SendMsg,
         SF!Chat!SendMsg, ChatFull!serverVars, SF!Chat!serverVars, ChatFull!Quit, SF!Chat!Quit,
         ChatFull!RecvMsg, SF!Chat!RecvMsg, ChatFull!RecvEnds, SF!Chat!RecvEnds
<1> QED BY <1>1, <1>2 DEF ChatFull!vars, SF!Chat!vars, ChatFull!serverVars, SF!Chat!serverVars,
         ChatFull!clientVars, SF!Chat!clientVars

LEMMA LoginsSame ==
  /\ Logins!Init <=> SC!User!Init
  /\ [Logins!Next]_Logins!vars <=> [SC!User!Next]_SC!User!vars
<1>1. Logins!Init <=> SC!User!Init
  BY DEF Logins!Init, SC!User!Init, Logins!Ids, SC!User!Ids, Logins!Free, SC!User!Free
<1>2. \A S : Logins!Cardinality(S) = SC!User!Cardinality(S)
  BY DEF Logins!Cardinality, SC!User!Cardinality
<1>3. Logins!Live = SC!User!Live /\ Logins!Ids = SC!User!Ids /\ Logins!Free = SC!User!Free /\ Logins!redis = SC!User!redis
  BY DEF Logins!Live, SC!User!Live, Logins!Ids, SC!User!Ids, Logins!Free, SC!User!Free,
         Logins!redis, SC!User!redis
<1>4. \A n : Logins!Find(n) = SC!User!Find(n)
  BY <1>3 DEF Logins!Find, SC!User!Find
<1>5. \A t : Logins!ParseToken(t) = SC!User!ParseToken(t)
  BY DEF Logins!ParseToken, SC!User!ParseToken, Logins!JwtLife, SC!User!JwtLife
<1>6. ASSUME NEW r, NEW k, NEW i, NEW n, NEW t
      PROVE  Logins!Arrive(r, k, i, n, t) <=> SC!User!Arrive(r, k, i, n, t)
  BY DEF Logins!Arrive, SC!User!Arrive, Logins!redis, SC!User!redis, Logins!Free, SC!User!Free
<1>7. ASSUME NEW r
      PROVE  /\ Logins!Fail(r) <=> SC!User!Fail(r)
             /\ Logins!SetToken(r) <=> SC!User!SetToken(r)
             /\ Logins!SetInfo(r) <=> SC!User!SetInfo(r)
  BY DEF Logins!Fail, SC!User!Fail, Logins!SetToken, SC!User!SetToken, Logins!SetInfo,
         SC!User!SetInfo, Logins!At, SC!User!At, Logins!Alive, SC!User!Alive, Logins!Goto,
         SC!User!Goto, Logins!Respond, SC!User!Respond, Logins!redis, SC!User!redis,
         Logins!Free, SC!User!Free
<1>8. ASSUME NEW r
      PROVE  Logins!Login(r) <=> SC!User!Login(r)
  BY <1>4 DEF Logins!Login, SC!User!Login, Logins!At, SC!User!At, Logins!Alive, SC!User!Alive,
         Logins!redis, SC!User!redis, Logins!GenToken, SC!User!GenToken
<1>9. ASSUME NEW r
      PROVE  /\ Logins!AuthGet(r) <=> SC!User!AuthGet(r)
             /\ Logins!AuthTtl(r) <=> SC!User!AuthTtl(r)
             /\ Logins!AuthRenew(r) <=> SC!User!AuthRenew(r)
  BY <1>5 DEF Logins!AuthGet, SC!User!AuthGet, Logins!AuthTtl, SC!User!AuthTtl,
         Logins!AuthRenew, SC!User!AuthRenew, Logins!At, SC!User!At, Logins!Alive,
         SC!User!Alive, Logins!Goto, SC!User!Goto, Logins!Respond, SC!User!Respond,
         Logins!redis, SC!User!redis, Logins!Free, SC!User!Free, Logins!Admit, SC!User!Admit
<1>10. ASSUME NEW r
       PROVE  /\ Logins!SelectUserById(r) <=> SC!User!SelectUserById(r)
              /\ Logins!InsertUser(r) <=> SC!User!InsertUser(r)
  BY <1>4 DEF Logins!SelectUserById, SC!User!SelectUserById, Logins!InsertUser,
         SC!User!InsertUser, Logins!At, SC!User!At, Logins!Alive, SC!User!Alive, Logins!Goto,
         SC!User!Goto, Logins!Respond, SC!User!Respond, Logins!redis, SC!User!redis,
         Logins!Free, SC!User!Free
<1>11. ASSUME NEW r
       PROVE  Logins!CreateUser(r) <=> SC!User!CreateUser(r)
  BY <1>2, <1>3 DEF Logins!CreateUser, SC!User!CreateUser, Logins!At, SC!User!At, Logins!Alive,
         SC!User!Alive, Logins!Respond, SC!User!Respond, Logins!redis, SC!User!redis,
         Logins!Free, SC!User!Free
<1>12. ASSUME NEW r
       PROVE  /\ Logins!UpdateUser(r) <=> SC!User!UpdateUser(r)
              /\ Logins!SaveUser(r) <=> SC!User!SaveUser(r)
              /\ Logins!DeleteUserById(r) <=> SC!User!DeleteUserById(r)
  BY <1>3 DEF Logins!UpdateUser, SC!User!UpdateUser, Logins!SaveUser, SC!User!SaveUser,
         Logins!DeleteUserById, SC!User!DeleteUserById, Logins!At, SC!User!At, Logins!Alive,
         SC!User!Alive, Logins!Goto, SC!User!Goto, Logins!Respond, SC!User!Respond,
         Logins!redis, SC!User!redis, Logins!Free, SC!User!Free, Logins!Saving, SC!User!Saving
<1>13. ASSUME NEW r
       PROVE  /\ Logins!SelectPaginatedUsers(r) <=> SC!User!SelectPaginatedUsers(r)
              /\ Logins!CountUsers(r) <=> SC!User!CountUsers(r)
  BY DEF Logins!SelectPaginatedUsers, SC!User!SelectPaginatedUsers, Logins!CountUsers,
         SC!User!CountUsers, Logins!At, SC!User!At, Logins!Alive, SC!User!Alive, Logins!Goto,
         SC!User!Goto, Logins!Respond, SC!User!Respond, Logins!redis, SC!User!redis,
         Logins!Free, SC!User!Free
<1>14. ASSUME NEW r
       PROVE  Logins!Handler(r) <=> SC!User!Handler(r)
  BY <1>3, <1>6, <1>7, <1>8, <1>9, <1>10, <1>11, <1>12, <1>13 DEF Logins!Handler,
         SC!User!Handler, Logins!IdIn, SC!User!IdIn, Logins!NameIn, SC!User!NameIn,
         Logins!TokenIn, SC!User!TokenIn
<1>15. /\ Logins!Tick <=> SC!User!Tick
       /\ Logins!Signal <=> SC!User!Signal
       /\ Logins!Drained <=> SC!User!Drained
       /\ Logins!ShutdownTimeout <=> SC!User!ShutdownTimeout
  BY <1>3 DEF Logins!Tick, SC!User!Tick, Logins!Alive, SC!User!Alive, Logins!Signal,
         SC!User!Signal, Logins!Drained, SC!User!Drained, Logins!ShutdownTimeout,
         SC!User!ShutdownTimeout, Logins!redis, SC!User!redis
<1>16. Logins!Next <=> SC!User!Next
  BY <1>14, <1>15 DEF Logins!Next, SC!User!Next
<1> QED BY <1>1, <1>16 DEF Logins!vars, SC!User!vars

LEMMA DataSame ==
  /\ Data!Init <=> SF!User!Init
  /\ [Data!Next]_Data!vars <=> [SF!User!Next]_SF!User!vars
<1>1. Data!Init <=> SF!User!Init
  BY DEF Data!Init, SF!User!Init, Data!Ids, SF!User!Ids, Data!Free, SF!User!Free
<1>2. \A S : Data!Cardinality(S) = SF!User!Cardinality(S)
  BY DEF Data!Cardinality, SF!User!Cardinality
<1>3. Data!Live = SF!User!Live /\ Data!Ids = SF!User!Ids /\ Data!Free = SF!User!Free /\ Data!redis = SF!User!redis
  BY DEF Data!Live, SF!User!Live, Data!Ids, SF!User!Ids, Data!Free, SF!User!Free, Data!redis,
         SF!User!redis
<1>4. \A n : Data!Find(n) = SF!User!Find(n)
  BY <1>3 DEF Data!Find, SF!User!Find
<1>5. \A t : Data!ParseToken(t) = SF!User!ParseToken(t)
  BY DEF Data!ParseToken, SF!User!ParseToken, Data!JwtLife, SF!User!JwtLife
<1>6. ASSUME NEW r, NEW k, NEW i, NEW n, NEW t
      PROVE  Data!Arrive(r, k, i, n, t) <=> SF!User!Arrive(r, k, i, n, t)
  BY DEF Data!Arrive, SF!User!Arrive, Data!redis, SF!User!redis, Data!Free, SF!User!Free
<1>7. ASSUME NEW r
      PROVE  /\ Data!Fail(r) <=> SF!User!Fail(r)
             /\ Data!SetToken(r) <=> SF!User!SetToken(r)
             /\ Data!SetInfo(r) <=> SF!User!SetInfo(r)
  BY DEF Data!Fail, SF!User!Fail, Data!SetToken, SF!User!SetToken, Data!SetInfo,
         SF!User!SetInfo, Data!At, SF!User!At, Data!Alive, SF!User!Alive, Data!Goto,
         SF!User!Goto, Data!Respond, SF!User!Respond, Data!redis, SF!User!redis, Data!Free,
         SF!User!Free
<1>8. ASSUME NEW r
      PROVE  Data!Login(r) <=> SF!User!Login(r)
  BY <1>4 DEF Data!Login, SF!User!Login, Data!At, SF!User!At, Data!Alive, SF!User!Alive,
         Data!redis, SF!User!redis, Data!GenToken, SF!User!GenToken
<1>9. ASSUME NEW r
      PROVE  /\ Data!AuthGet(r) <=> SF!User!AuthGet(r)
             /\ Data!AuthTtl(r) <=> SF!User!AuthTtl(r)
             /\ Data!AuthRenew(r) <=> SF!User!AuthRenew(r)
  BY <1>5 DEF Data!AuthGet, SF!User!AuthGet, Data!AuthTtl, SF!User!AuthTtl, Data!AuthRenew,
         SF!User!AuthRenew, Data!At, SF!User!At, Data!Alive, SF!User!Alive, Data!Goto,
         SF!User!Goto, Data!Respond, SF!User!Respond, Data!redis, SF!User!redis, Data!Free,
         SF!User!Free, Data!Admit, SF!User!Admit
<1>10. ASSUME NEW r
       PROVE  /\ Data!SelectUserById(r) <=> SF!User!SelectUserById(r)
              /\ Data!InsertUser(r) <=> SF!User!InsertUser(r)
  BY <1>4 DEF Data!SelectUserById, SF!User!SelectUserById, Data!InsertUser, SF!User!InsertUser,
         Data!At, SF!User!At, Data!Alive, SF!User!Alive, Data!Goto, SF!User!Goto, Data!Respond,
         SF!User!Respond, Data!redis, SF!User!redis, Data!Free, SF!User!Free
<1>11. ASSUME NEW r
       PROVE  Data!CreateUser(r) <=> SF!User!CreateUser(r)
  BY <1>2, <1>3 DEF Data!CreateUser, SF!User!CreateUser, Data!At, SF!User!At, Data!Alive,
         SF!User!Alive, Data!Respond, SF!User!Respond, Data!redis, SF!User!redis, Data!Free,
         SF!User!Free
<1>12. ASSUME NEW r
       PROVE  /\ Data!UpdateUser(r) <=> SF!User!UpdateUser(r)
              /\ Data!SaveUser(r) <=> SF!User!SaveUser(r)
              /\ Data!DeleteUserById(r) <=> SF!User!DeleteUserById(r)
  BY <1>3 DEF Data!UpdateUser, SF!User!UpdateUser, Data!SaveUser, SF!User!SaveUser,
         Data!DeleteUserById, SF!User!DeleteUserById, Data!At, SF!User!At, Data!Alive,
         SF!User!Alive, Data!Goto, SF!User!Goto, Data!Respond, SF!User!Respond, Data!redis,
         SF!User!redis, Data!Free, SF!User!Free, Data!Saving, SF!User!Saving
<1>13. ASSUME NEW r
       PROVE  /\ Data!SelectPaginatedUsers(r) <=> SF!User!SelectPaginatedUsers(r)
              /\ Data!CountUsers(r) <=> SF!User!CountUsers(r)
  BY DEF Data!SelectPaginatedUsers, SF!User!SelectPaginatedUsers, Data!CountUsers,
         SF!User!CountUsers, Data!At, SF!User!At, Data!Alive, SF!User!Alive, Data!Goto,
         SF!User!Goto, Data!Respond, SF!User!Respond, Data!redis, SF!User!redis, Data!Free,
         SF!User!Free
<1>14. ASSUME NEW r
       PROVE  Data!Handler(r) <=> SF!User!Handler(r)
  BY <1>3, <1>6, <1>7, <1>8, <1>9, <1>10, <1>11, <1>12, <1>13 DEF Data!Handler, SF!User!Handler,
         Data!IdIn, SF!User!IdIn, Data!NameIn, SF!User!NameIn, Data!TokenIn, SF!User!TokenIn
<1>15. /\ Data!Tick <=> SF!User!Tick
       /\ Data!Signal <=> SF!User!Signal
       /\ Data!Drained <=> SF!User!Drained
       /\ Data!ShutdownTimeout <=> SF!User!ShutdownTimeout
  BY <1>3 DEF Data!Tick, SF!User!Tick, Data!Alive, SF!User!Alive, Data!Signal, SF!User!Signal,
         Data!Drained, SF!User!Drained, Data!ShutdownTimeout, SF!User!ShutdownTimeout,
         Data!redis, SF!User!redis
<1>16. Data!Next <=> SF!User!Next
  BY <1>14, <1>15 DEF Data!Next, SF!User!Next
<1> QED BY <1>1, <1>16 DEF Data!vars, SF!User!vars

-----------------------------------------------------------------------------
(* Theorems.                                                               *)

\* Connection ids wrap around: still every channel is closed once, and the
\* requests of a connection are handled in their order, though another
\* connection has its dictionary entry and its worker.
THEOREM WrapKeepsOrder == Spec => []OrderedThoughIdsWrap
<1> DEFINE P == config = "gnet"
<1>1. Init /\ P => SC!Init
  BY GnetSame DEF Init
<1>2. [Next]_vars => (P <=> P') /\ (P => [SC!Next]_SC!vars)
  BY GnetSame DEF Next, vars, gnetVars, GnetWrap!vars, GnetWrap!registry, GnetWrap!network, GnetWrap!chans, GnetWrap!control
<1>3. SC!Spec => []SC!ChannelsClosedOnce
  BY GnetConfigured, SC!NoDoubleClose
<1>4. SC!Spec => []SC!HandledInOrder
  BY GnetConfigured, SC!RequestsInOrder
<1>5. (P => SC!ChannelsClosedOnce /\ SC!HandledInOrder) => OrderedThoughIdsWrap
  BY DEF OrderedThoughIdsWrap, GnetWrap!ChannelsClosedOnce, SC!ChannelsClosedOnce,
         GnetWrap!HandledInOrder, SC!HandledInOrder, GnetWrap!Senders, SC!Senders,
         GnetWrap!Conns, SC!Conns
<1> HIDE DEF P
<1> QED BY <1>1, <1>2, <1>3, <1>4, <1>5, PTL DEF Spec, SC!Spec

\* The chat: bytes are broadcast once each and in the order of their sender, who
\* is connected gets all that is broadcast, and the array holds who is connected,
\* also when one more client comes than it has room for.
THEOREM ChatIsDelivered == Spec => []ChatDelivers
<1> DEFINE P == config = "chat"
           Q == config = "chat full"
<1>1. /\ Init /\ P => SC!Chat!Init
      /\ Init /\ Q => SF!Chat!Init
  BY ChatSame, ChatFullSame DEF Init
<1>2. [Next]_vars => (P <=> P') /\ (P => [SC!Chat!Next]_SC!Chat!vars)
  BY ChatSame DEF Next, vars, chatVars, streams, Chat!vars, Chat!serverVars, Chat!clientVars
<1>3. [Next]_vars => (Q <=> Q') /\ (Q => [SF!Chat!Next]_SF!Chat!vars)
  BY ChatFullSame DEF Next, vars, chatVars, streams, ChatFull!vars, ChatFull!serverVars,
         ChatFull!clientVars
<1>4. SC!Chat!SizesAssumption /\ SF!Chat!SizesAssumption
  BY Configured DEF SC!Chat!SizesAssumption, SF!Chat!SizesAssumption, Chat!SizesAssumption,
         ChatFull!SizesAssumption, SC!Chat!Free, SF!Chat!Free, Chat!Free, ChatFull!Free
<1>5. SC!ChatSteps => []SC!Chat!SenderOrder
  BY <1>4, SC!SendersInOrder
<1>6. SC!ChatSteps => []SC!Chat!Delivered
  BY <1>4, SC!BroadcastsDelivered
<1>7. SC!ChatSteps => []SC!Chat!ArrayIsConnected
  BY <1>4, SC!ArrayHoldsConnected
<1>8. SF!ChatSteps => []SF!Chat!ArrayIsConnected
  BY <1>4, SF!ArrayHoldsConnected
<1>9. /\ P => SC!Chat!SenderOrder /\ SC!Chat!Delivered /\ SC!Chat!ArrayIsConnected
      /\ Q => SF!Chat!ArrayIsConnected
      => ChatDelivers
  BY DEF ChatDelivers, Chat!SenderOrder, SC!Chat!SenderOrder, Chat!Delivered, SC!Chat!Delivered,
         Chat!Free, SC!Chat!Free, Chat!Connected, SC!Chat!Connected, Chat!ArrayIsConnected,
         SC!Chat!ArrayIsConnected, Chat!Cardinality, SC!Chat!Cardinality,
         ChatFull!ArrayIsConnected, SF!Chat!ArrayIsConnected, ChatFull!Connected,
         SF!Chat!Connected, ChatFull!Cardinality, SF!Chat!Cardinality
<1> HIDE DEF P, Q
<1> QED BY <1>1, <1>2, <1>3, <1>5, <1>6, <1>7, <1>8, <1>9, PTL DEF Spec, SC!ChatSteps, SF!ChatSteps

\* The user service: a stored token is the one of the last login, and a row that
\* was deleted while no UpdateUser had read and not yet saved it stays deleted.
THEOREM UsersAreServed == Spec => []UsersServed
<1> DEFINE P == config = "logins"
           Q == config = "data"
<1>1. /\ Init /\ P => SC!User!Init
      /\ Init /\ Q => SF!User!Init
  BY LoginsSame, DataSame DEF Init
<1>2. [Next]_vars => (P <=> P') /\ (P => [SC!User!Next]_SC!User!vars)
  BY LoginsSame DEF Next, vars, userVars, Logins!vars
<1>3. [Next]_vars => (Q <=> Q') /\ (Q => [SF!User!Next]_SF!User!vars)
  BY DataSame DEF Next, vars, userVars, Data!vars
<1>4. SC!User!ServiceAssumption /\ SF!User!ServiceAssumption
  BY Configured DEF SC!User!ServiceAssumption, SF!User!ServiceAssumption, Logins!ServiceAssumption,
         Data!ServiceAssumption
<1>5. SC!UserSteps => []SC!User!LastLoginWins
  BY <1>4, GnetConfigured, SC!LoginsWin
<1>6. SF!UserSteps => []SF!User!DeleteIsFinal
  BY <1>4, GnetConfigured, SF!DeletesAreFinal
<1>7. SC!User!LastLoginWins => Logins!LastLoginWins
  BY DEF SC!User!LastLoginWins, Logins!LastLoginWins, SC!User!Ids, Logins!Ids
<1>8. SF!User!DeleteIsFinal => Data!DeleteIsFinal
  BY DEF SF!User!DeleteIsFinal, Data!DeleteIsFinal
<1>9. /\ P => SC!User!LastLoginWins
      /\ Q => SF!User!DeleteIsFinal
      => UsersServed
  BY <1>7, <1>8 DEF UsersServed
<1> HIDE DEF P, Q
<1> QED BY <1>1, <1>2, <1>3, <1>5, <1>6, <1>9, PTL DEF Spec, SC!UserSteps, SF!UserSteps
=============================================================================
