------------------------- MODULE MCProgramsProofs -------------------------
(***************************************************************************)
(* The programs together.  A behaviour of MCPrograms is one of one         *)
(* program, and the variables of the others keep their initial values; so  *)
(* what ServerProofs proves for all values of the constants of Echo,       *)
(* UdpEcho, HalfClose and SharedSum holds of it.  The instances below have *)
(* the values that MCPrograms gives; Gnet and UserService are no part of   *)
(* it.                                                                     *)
(***************************************************************************)
EXTENDS MCPrograms, TLAPS

\* "echo", and "echo short"; a lossy network and every kind of half close in both.
PA == INSTANCE ServerProofs WITH
  Clients <- {alice, bob}, Cap <- 2, BufSize <- 1, SockCap <- 1, MaxSend <- 1,
  EchoKinds <- {"ch04", "ch15"}, MaxLine <- 3, EchoBuf <- 2, EchoBufio <- 3, EchoSock <- 3,
  Split <- TRUE, UdpClients <- {alice, bob}, Connected <- {bob}, UdpBuf <- 2, Sizes <- {1, 3},
  MaxRounds <- 2, Loses <- TRUE, Copies <- TRUE, Exits <- TRUE, Strays <- TRUE,
  HalfKinds <- {"file", "server1", "server2"}, MaxLen <- 13, LineLen <- 2, HalfBuf <- 5,
  HalfBufio <- 12, Program <- "goroutine2", Threads <- 2, Rounds <- 5, Total <- 4, Pending <- 2,
  Reqs <- {}, UserKinds <- {}, Names <- {}, DbFails <- FALSE, MaxId <- 1, MaxTime <- 1,
  RedisExpire <- 1, JwtExpire <- 1, Second <- 1, Width <- 1, NoUser <- Nil, up <- chatUp,
  pending <- chatPending, cur <- chatCur, arr <- chatArr, arrLen <- chatArrLen, mut <- chatMut,
  hpc <- chatHpc, buf <- chatBuf, idx <- chatIdx, c2s <- chatC2s, s2c <- chatS2c, cst <- chatCst,
  recv <- chatRecv, sent <- chatSent, got <- chatGot, log <- chatLog, from <- chatFrom,
  MaxConnNum <- 2, WorkerPoolSize <- 1, ReqChanLen <- 1, UseMsgSerializer <- FALSE,
  AfterConnStart <- FALSE, IdSpace <- 1, MaxAccepts <- 2, MaxMsgs <- 2, Traffic <- {"bound"},
  SockBuf <- 1, proc <- Nil, mpc <- Nil, mconn <- Nil, apc <- Nil, nextId <- Nil,
  connDict <- Nil, connLock <- Nil, sock <- Nil, peer <- Nil, msgs <- Nil, received <- Nil,
  outbox <- Nil, isClosed <- Nil, closedBuf <- Nil, closedDone <- Nil, packetDone <- Nil,
  rpc <- Nil, wpc <- Nil, stop <- Nil, spc <- Nil, reqChan <- Nil, users <- Nil, token <- Nil,
  ttl <- Nil, info <- Nil, now <- Nil, req <- Nil, issued <- Nil, stored <- Nil, buried <- Nil,
  server <- Nil
PB == INSTANCE ServerProofs WITH
  Clients <- {alice, bob}, Cap <- 2, BufSize <- 1, SockCap <- 1, MaxSend <- 1,
  EchoKinds <- {"ch04", "ch15"}, MaxLine <- 6, EchoBuf <- 6, EchoBufio <- 20, EchoSock <- 9,
  Split <- FALSE, UdpClients <- {alice, bob}, Connected <- {bob}, UdpBuf <- 2, Sizes <- {1, 3},
  MaxRounds <- 2, Loses <- TRUE, Copies <- TRUE, Exits <- TRUE, Strays <- TRUE,
  HalfKinds <- {"file", "server1", "server2"}, MaxLen <- 13, LineLen <- 2, HalfBuf <- 5,
  HalfBufio <- 12, Program <- "goroutine4", Threads <- 2, Rounds <- 4, Total <- 4, Pending <- 2,
  Reqs <- {}, UserKinds <- {}, Names <- {}, DbFails <- FALSE, MaxId <- 1, MaxTime <- 1,
  RedisExpire <- 1, JwtExpire <- 1, Second <- 1, Width <- 1, NoUser <- Nil, up <- chatUp,
  pending <- chatPending, cur <- chatCur, arr <- chatArr, arrLen <- chatArrLen, mut <- chatMut,
  hpc <- chatHpc, buf <- chatBuf, idx <- chatIdx, c2s <- chatC2s, s2c <- chatS2c, cst <- chatCst,
  recv <- chatRecv, sent <- chatSent, got <- chatGot, log <- chatLog, from <- chatFrom,
  MaxConnNum <- 2, WorkerPoolSize <- 1, ReqChanLen <- 1, UseMsgSerializer <- FALSE,
  AfterConnStart <- FALSE, IdSpace <- 1, MaxAccepts <- 2, MaxMsgs <- 2, Traffic <- {"bound"},
  SockBuf <- 1, proc <- Nil, mpc <- Nil, mconn <- Nil, apc <- Nil, nextId <- Nil,
  connDict <- Nil, connLock <- Nil, sock <- Nil, peer <- Nil, msgs <- Nil, received <- Nil,
  outbox <- Nil, isClosed <- Nil, closedBuf <- Nil, closedDone <- Nil, packetDone <- Nil,
  rpc <- Nil, wpc <- Nil, stop <- Nil, spc <- Nil, reqChan <- Nil, users <- Nil, token <- Nil,
  ttl <- Nil, info <- Nil, now <- Nil, req <- Nil, issued <- Nil, stored <- Nil, buried <- Nil,
  server <- Nil

LEMMA EchoSame ==
  /\ Echo!Init => PA!Echo!Init
  /\ [Echo!Next]_Echo!vars => [PA!Echo!Next]_PA!Echo!vars
<1>1. \A S : Echo!Min(S) = PA!Echo!Min(S)
  BY DEF Echo!Min, PA!Echo!Min
<1>2. Echo!Init => PA!Echo!Init
  BY <1>1 DEF Echo!Init, PA!Echo!Init
<1>3. Echo!Next => PA!Echo!Next
  BY <1>1 DEF Echo!Next, PA!Echo!Next, Echo!Input, PA!Echo!Input, Echo!serverVars,
         PA!Echo!serverVars, Echo!ClientWrite, PA!Echo!ClientWrite, Echo!Pieces, PA!Echo!Pieces,
         Echo!ClientRead, PA!Echo!ClientRead, Echo!ClientReadBuffered,
         PA!Echo!ClientReadBuffered, Echo!Quit, PA!Echo!Quit, Echo!Server, PA!Echo!Server,
         Echo!ServerRead, PA!Echo!ServerRead, Echo!clientVars, PA!Echo!clientVars,
         Echo!ServerReadBuffered, PA!Echo!ServerReadBuffered, Echo!ServerWrite,
         PA!Echo!ServerWrite, Echo!ServerWriteFails, PA!Echo!ServerWriteFails, Echo!ServerEof,
         PA!Echo!ServerEof, Echo!Exited, PA!Echo!Exited, Echo!vars, PA!Echo!vars
<1> QED BY <1>2, <1>3 DEF Echo!vars, PA!Echo!vars

LEMMA EchoShortSame ==
  /\ EchoShort!Init => PB!Echo!Init
  /\ [EchoShort!Next]_EchoShort!vars => [PB!Echo!Next]_PB!Echo!vars
<1>1. \A S : EchoShort!Min(S) = PB!Echo!Min(S)
  BY DEF EchoShort!Min, PB!Echo!Min
<1>2. EchoShort!Init => PB!Echo!Init
  BY <1>1 DEF EchoShort!Init, PB!Echo!Init
<1>3. EchoShort!Next => PB!Echo!Next
  BY <1>1 DEF EchoShort!Next, PB!Echo!Next, EchoShort!Input, PB!Echo!Input,
         EchoShort!serverVars, PB!Echo!serverVars, EchoShort!ClientWrite, PB!Echo!ClientWrite,
         EchoShort!Pieces, PB!Echo!Pieces, EchoShort!ClientRead, PB!Echo!ClientRead,
         EchoShort!ClientReadBuffered, PB!Echo!ClientReadBuffered, EchoShort!Quit, PB!Echo!Quit,
         EchoShort!Server, PB!Echo!Server, EchoShort!ServerRead, PB!Echo!ServerRead,
         EchoShort!clientVars, PB!Echo!clientVars, EchoShort!ServerReadBuffered,
         PB!Echo!ServerReadBuffered, EchoShort!ServerWrite, PB!Echo!ServerWrite,
         EchoShort!ServerWriteFails, PB!Echo!ServerWriteFails, EchoShort!ServerEof,
         PB!Echo!ServerEof, EchoShort!Exited, PB!Echo!Exited, EchoShort!vars, PB!Echo!vars
<1> QED BY <1>2, <1>3 DEF EchoShort!vars, PB!Echo!vars

LEMMA UdpLossySame ==
  /\ UdpLossy!Init => PA!Udp!Init
  /\ [UdpLossy!Next]_UdpLossy!vars => [PA!Udp!Next]_PA!Udp!vars
<1>1. UdpLossy!EmptyBag = PA!Udp!EmptyBag
  BY DEF UdpLossy!EmptyBag, PA!Udp!EmptyBag, UdpLossy!SetToBag, PA!Udp!SetToBag
<1>2. \A S : UdpLossy!BagToSet(S) = PA!Udp!BagToSet(S)
  BY <1>1 DEF UdpLossy!BagToSet, PA!Udp!BagToSet
<1>3. \A S, T : UdpLossy!BagAdd(S, T) = PA!Udp!BagAdd(S, T)
  BY <1>1, <1>2 DEF UdpLossy!BagAdd, PA!Udp!BagAdd, UdpLossy!BagToSet, PA!Udp!BagToSet,
         UdpLossy!SetToBag, PA!Udp!SetToBag
<1>4. \A S, T : UdpLossy!BagRemove(S, T) = PA!Udp!BagRemove(S, T)
  BY <1>1, <1>2, <1>3 DEF UdpLossy!BagRemove, PA!Udp!BagRemove, UdpLossy!BagToSet,
         PA!Udp!BagToSet, UdpLossy!SetToBag, PA!Udp!SetToBag
<1>5. UdpLossy!Init => PA!Udp!Init
  BY <1>1, <1>2, <1>3, <1>4 DEF UdpLossy!Init, PA!Udp!Init, UdpLossy!NoEcho, PA!Udp!NoEcho
<1>6. UdpLossy!Next => PA!Udp!Next
  BY <1>1, <1>2, <1>3, <1>4 DEF UdpLossy!Next, PA!Udp!Next, UdpLossy!Stray, PA!Udp!Stray,
         UdpLossy!Stranger, PA!Udp!Stranger, UdpLossy!Input, PA!Udp!Input, UdpLossy!Write,
         PA!Udp!Write, UdpLossy!Goto, PA!Udp!Goto, UdpLossy!InputFails, PA!Udp!InputFails,
         UdpLossy!ClientRead, PA!Udp!ClientRead, UdpLossy!Kept, PA!Udp!Kept, UdpLossy!ReadFails,
         PA!Udp!ReadFails, UdpLossy!NoEcho, PA!Udp!NoEcho, UdpLossy!Serve, PA!Udp!Serve,
         UdpLossy!ServerExits, PA!Udp!ServerExits, UdpLossy!Unreachable, PA!Udp!Unreachable,
         UdpLossy!Lose, PA!Udp!Lose, UdpLossy!Copy, PA!Udp!Copy
<1> QED BY <1>5, <1>6 DEF UdpLossy!vars, PA!Udp!vars

LEMMA UdpSame ==
  /\ Udp!Init => PA!Udp!Init
  /\ [Udp!Next]_Udp!vars => [PA!Udp!Next]_PA!Udp!vars
<1>1. Udp!EmptyBag = PA!Udp!EmptyBag
  BY DEF Udp!EmptyBag, PA!Udp!EmptyBag, Udp!SetToBag, PA!Udp!SetToBag
<1>2. \A S : Udp!BagToSet(S) = PA!Udp!BagToSet(S)
  BY <1>1 DEF Udp!BagToSet, PA!Udp!BagToSet
<1>3. \A S, T : Udp!BagAdd(S, T) = PA!Udp!BagAdd(S, T)
  BY <1>1, <1>2 DEF Udp!BagAdd, PA!Udp!BagAdd, Udp!BagToSet, PA!Udp!BagToSet, Udp!SetToBag,
         PA!Udp!SetToBag
<1>4. \A S, T : Udp!BagRemove(S, T) = PA!Udp!BagRemove(S, T)
  BY <1>1, <1>2, <1>3 DEF Udp!BagRemove, PA!Udp!BagRemove, Udp!BagToSet, PA!Udp!BagToSet,
         Udp!SetToBag, PA!Udp!SetToBag
<1>5. Udp!Init => PA!Udp!Init
  BY <1>1, <1>2, <1>3, <1>4 DEF Udp!Init, PA!Udp!Init, Udp!NoEcho, PA!Udp!NoEcho
<1>6. Udp!Next => PA!Udp!Next
  BY <1>1, <1>2, <1>3, <1>4 DEF Udp!Next, PA!Udp!Next, Udp!Stray, PA!Udp!Stray, Udp!Stranger,
         PA!Udp!Stranger, Udp!Input, PA!Udp!Input, Udp!Write, PA!Udp!Write, Udp!Goto,
         PA!Udp!Goto, Udp!InputFails, PA!Udp!InputFails, Udp!ClientRead, PA!Udp!ClientRead,
         Udp!Kept, PA!Udp!Kept, Udp!ReadFails, PA!Udp!ReadFails, Udp!NoEcho, PA!Udp!NoEcho,
         Udp!Serve, PA!Udp!Serve, Udp!ServerExits, PA!Udp!ServerExits, Udp!Unreachable,
         PA!Udp!Unreachable, Udp!Lose, PA!Udp!Lose, Udp!Copy, PA!Udp!Copy
<1> QED BY <1>5, <1>6 DEF Udp!vars, PA!Udp!vars

LEMMA HalfSame ==
  /\ Half!Init => PA!Half!Init
  /\ [Half!Next]_Half!vars => [PA!Half!Next]_PA!Half!vars
<1>1. \A S : Half!Min(S) = PA!Half!Min(S)
  BY DEF Half!Min, PA!Half!Min
<1>2. Half!Init => PA!Half!Init
  BY <1>1 DEF Half!Init, PA!Half!Init
<1>3. Half!Next => PA!Half!Next
  BY <1>1 DEF Half!Next, PA!Half!Next, Half!Accept, PA!Half!Accept, Half!fileVars,
         PA!Half!fileVars, Half!clientVars, PA!Half!clientVars, Half!OpenFile, PA!Half!OpenFile,
         Half!ReadFile, PA!Half!ReadFile, Half!WriteLine, PA!Half!WriteLine, Half!WriteFlush,
         PA!Half!WriteFlush, Half!EndOutput, PA!Half!EndOutput, Half!EndOutputClose,
         PA!Half!EndOutputClose, Half!EndOutputShutdown, PA!Half!EndOutputShutdown,
         Half!EndOutputFile, PA!Half!EndOutputFile, Half!ReadThanks, PA!Half!ReadThanks,
         Half!Dial, PA!Half!Dial, Half!serverVars, PA!Half!serverVars, Half!CallRead,
         PA!Half!CallRead, Half!ReadReturns, PA!Half!ReadReturns, Half!ReadEof, PA!Half!ReadEof,
         Half!Ended, PA!Half!Ended, Half!Collect, PA!Half!Collect, Half!Thank, PA!Half!Thank,
         Half!Exited, PA!Half!Exited, Half!vars, PA!Half!vars
<1> QED BY <1>2, <1>3 DEF Half!vars, PA!Half!vars

LEMMA HalfServer1Same ==
  /\ HalfServer1!Init => PA!Half!Init
  /\ [HalfServer1!Next]_HalfServer1!vars => [PA!Half!Next]_PA!Half!vars
<1>1. \A S : HalfServer1!Min(S) = PA!Half!Min(S)
  BY DEF HalfServer1!Min, PA!Half!Min
<1>2. HalfServer1!Init => PA!Half!Init
  BY <1>1 DEF HalfServer1!Init, PA!Half!Init
<1>3. HalfServer1!Next => PA!Half!Next
  BY <1>1 DEF HalfServer1!Next, PA!Half!Next, HalfServer1!Accept, PA!Half!Accept,
         HalfServer1!fileVars, PA!Half!fileVars, HalfServer1!clientVars, PA!Half!clientVars,
         HalfServer1!OpenFile, PA!Half!OpenFile, HalfServer1!ReadFile, PA!Half!ReadFile,
         HalfServer1!WriteLine, PA!Half!WriteLine, HalfServer1!WriteFlush, PA!Half!WriteFlush,
         HalfServer1!EndOutput, PA!Half!EndOutput, HalfServer1!EndOutputClose,
         PA!Half!EndOutputClose, HalfServer1!EndOutputShutdown, PA!Half!EndOutputShutdown,
         HalfServer1!EndOutputFile, PA!Half!EndOutputFile, HalfServer1!ReadThanks,
         PA!Half!ReadThanks, HalfServer1!Dial, PA!Half!Dial, HalfServer1!serverVars,
         PA!Half!serverVars, HalfServer1!CallRead, PA!Half!CallRead, HalfServer1!ReadReturns,
         PA!Half!ReadReturns, HalfServer1!ReadEof, PA!Half!ReadEof, HalfServer1!Ended,
         PA!Half!Ended, HalfServer1!Collect, PA!Half!Collect, HalfServer1!Thank, PA!Half!Thank,
         HalfServer1!Exited, PA!Half!Exited, HalfServer1!vars, PA!Half!vars
<1> QED BY <1>2, <1>3 DEF HalfServer1!vars, PA!Half!vars

LEMMA SumRaceSame ==
  /\ SumRace!Init => PA!Race!Init
  /\ [SumRace!Next]_SumRace!vars => [PA!Race!Next]_PA!Race!vars
<1>1. SumRace!Init => PA!Race!Init
  BY DEF SumRace!Init, PA!Race!Init, SumRace!None, PA!Race!None, SumRace!Thread, PA!Race!Thread
<1>2. SumRace!Next => PA!Race!Next
  BY DEF SumRace!Next, PA!Race!Next, SumRace!Wait, PA!Race!Wait, SumRace!Thread, PA!Race!Thread,
         SumRace!Start, PA!Race!Start, SumRace!None, PA!Race!None, SumRace!Goto, PA!Race!Goto,
         SumRace!Load, PA!Race!Load, SumRace!Store, PA!Race!Store, SumRace!Amount,
         PA!Race!Amount, SumRace!End, PA!Race!End
<1> QED BY <1>1, <1>2 DEF SumRace!vars, PA!Race!vars

LEMMA SumSidesSame ==
  /\ SumSides!Init => PB!Sides!Init
  /\ [SumSides!Next]_SumSides!vars => [PB!Sides!Next]_PB!Sides!vars
<1>1. SumSides!Init => PB!Sides!Init
  BY DEF SumSides!Init, PB!Sides!Init, SumSides!None, PB!Sides!None, SumSides!Thread,
         PB!Sides!Thread
<1>2. SumSides!Next => PB!Sides!Next
  BY DEF SumSides!Next, PB!Sides!Next, SumSides!Wait, PB!Sides!Wait, SumSides!Thread,
         PB!Sides!Thread, SumSides!Start, PB!Sides!Start, SumSides!None, PB!Sides!None,
         SumSides!Goto, PB!Sides!Goto, SumSides!Load, PB!Sides!Load, SumSides!Store,
         PB!Sides!Store, SumSides!Amount, PB!Sides!Amount, SumSides!End, PB!Sides!End
<1> QED BY <1>1, <1>2 DEF SumSides!vars, PB!Sides!vars

LEMMA SumLockedSame ==
  /\ SumLocked!Init => PB!Locked!Init
  /\ [SumLocked!Next]_SumLocked!vars => [PB!Locked!Next]_PB!Locked!vars
<1>1. SumLocked!Init => PB!Locked!Init
  BY DEF SumLocked!Init, PB!Locked!Init, SumLocked!None, PB!Locked!None, SumLocked!Thread,
         PB!Locked!Thread
<1>2. SumLocked!Next => PB!Locked!Next
  BY DEF SumLocked!Next, PB!Locked!Next, SumLocked!Wait, PB!Locked!Wait, SumLocked!Thread,
         PB!Locked!Thread, SumLocked!Start, PB!Locked!Start, SumLocked!None, PB!Locked!None,
         SumLocked!Goto, PB!Locked!Goto, SumLocked!Load, PB!Locked!Load, SumLocked!Store,
         PB!Locked!Store, SumLocked!Amount, PB!Locked!Amount, SumLocked!End, PB!Locked!End
<1> QED BY <1>1, <1>2 DEF SumLocked!vars, PB!Locked!vars

-----------------------------------------------------------------------------
(* Theorems.                                                               *)

\* Steps of a program and of the others, as the program sees them.
LEMMA EchoRuns ==
  /\ Init /\ config = "echo" => PA!Echo!Init
  /\ Init /\ config = "echo short" => PB!Echo!Init
  /\ [Next]_vars => (config = "echo" => [PA!Echo!Next]_PA!Echo!vars)
  /\ [Next]_vars => (config = "echo short" => [PB!Echo!Next]_PB!Echo!vars)
<1>1. /\ Init /\ config = "echo" => PA!Echo!Init
      /\ Init /\ config = "echo short" => PB!Echo!Init
  BY EchoSame, EchoShortSame DEF Init
<1>2. [Next]_vars /\ config = "echo" => [Echo!Next]_Echo!vars
  BY DEF Next, vars, echoVars, Echo!vars, RpcStep, ClerkStep, EchoStep, UdpStep, HalfStep,
         ChatStep, SumStep, AsyncStep
<1>3. [Next]_vars /\ config = "echo short" => [EchoShort!Next]_EchoShort!vars
  BY DEF Next, vars, echoVars, EchoShort!vars, RpcStep, ClerkStep, EchoStep, UdpStep, HalfStep,
         ChatStep, SumStep, AsyncStep
<1> QED BY <1>1, <1>2, <1>3, EchoSame, EchoShortSame

LEMMA UdpRuns ==
  /\ Init => PA!Udp!Init
  /\ [Next]_vars => [PA!Udp!Next]_PA!Udp!vars
<1>1. Init => PA!Udp!Init
  BY UdpSame DEF Init
<1>2. [Next]_vars => [UdpLossy!Next]_UdpLossy!vars \/ [Udp!Next]_Udp!vars
  BY DEF Next, vars, udpVars, UdpLossy!vars, Udp!vars, RpcStep, ClerkStep, EchoStep, UdpStep, HalfStep,
         ChatStep, SumStep, AsyncStep
<1> QED BY <1>1, <1>2, UdpLossySame, UdpSame

LEMMA HalfRuns ==
  /\ Init => PA!Half!Init
  /\ [Next]_vars => [PA!Half!Next]_PA!Half!vars
<1>1. Init => PA!Half!Init
  BY HalfSame, HalfServer1Same DEF Init
<1>2. [Next]_vars => [Half!Next]_Half!vars \/ [HalfServer1!Next]_HalfServer1!vars
  BY DEF Next, vars, halfVars, Half!vars, HalfServer1!vars, RpcStep, ClerkStep, EchoStep, UdpStep, HalfStep,
         ChatStep, SumStep, AsyncStep
<1> QED BY <1>1, <1>2, HalfSame, HalfServer1Same

\* What the programs assume of their constants holds of the values they have here.
LEMMA ProgramsConfigured ==
  /\ PA!Echo!EchoAssumption /\ PB!ShortLines
  /\ PA!Udp!UdpAssumption
  /\ PA!Half!SizesAssumption
<1>1. PA!Echo!EchoAssumption /\ PB!Echo!EchoAssumption
  BY DEF PA!Echo!EchoAssumption, PB!Echo!EchoAssumption
<1>2. PA!Udp!UdpAssumption
  BY DEF PA!Udp!UdpAssumption
<1>3. PA!Half!SizesAssumption
  BY DEF PA!Half!SizesAssumption
<1> QED BY <1>1, <1>2, <1>3 DEF PB!ShortLines

\* What Gnet assumes of its constants, which have no part in this.
LEMMA GnetConfigured ==
  /\ 2 \in Nat /\ 1 \in Nat /\ 1 \in Nat \ {0} /\ FALSE \in BOOLEAN
  /\ {"bound"} \subseteq {"bound", "unbound", "oversize"}
OBVIOUS

\* The socket programs lose and mix up nothing: TCP echo, UDP echo over a network
\* that loses, copies and brings a stranger's datagram, and half close.
THEOREM StreamsAreKept == Spec => []StreamsKept
<1> DEFINE P == config = "echo"
           Q == config = "echo short"
<1>1. /\ Init /\ P => PA!Echo!Init
      /\ Init /\ Q => PB!Echo!Init
      /\ Init => PA!Udp!Init /\ PA!Half!Init
  BY EchoRuns, UdpRuns, HalfRuns
<1>2. [Next]_vars => (P <=> P') /\ (Q <=> Q')
  BY DEF Next, vars, RpcStep, ClerkStep, EchoStep, UdpStep, HalfStep, ChatStep, SumStep, AsyncStep
<1>3. [Next]_vars => /\ P => [PA!Echo!Next]_PA!Echo!vars
                     /\ Q => [PB!Echo!Next]_PB!Echo!vars
                     /\ [PA!Udp!Next]_PA!Udp!vars /\ [PA!Half!Next]_PA!Half!vars
  BY EchoRuns, UdpRuns, HalfRuns
<1>4. PA!EchoSteps => []PA!Echo!NothingLost
  BY ProgramsConfigured, GnetConfigured, PA!EveryByteEchoed
<1>5. PB!EchoSteps => []PB!Echo!InStep
  BY ProgramsConfigured, GnetConfigured, PB!LinesInStep
<1>6. PA!UdpSteps => []PA!Udp!OwnEcho
  BY ProgramsConfigured, GnetConfigured, PA!EchoIsOwn
<1>7. PA!UdpSteps => []PA!Udp!InStep
  BY ProgramsConfigured, GnetConfigured, PA!UdpInStep
<1>8. PA!HalfSteps => []PA!Half!AllSentArrives
  BY ProgramsConfigured, GnetConfigured, PA!FileArrives
<1>9. PA!HalfSteps => []PA!Half!ThanksReceived
  BY ProgramsConfigured, GnetConfigured, PA!ThanksArrive
<1>10. /\ PA!Echo!NothingLost => Echo!NothingLost
       /\ PB!Echo!InStep => EchoShort!InStep
  BY DEF PA!Echo!NothingLost, Echo!NothingLost, PA!Echo!Outstanding, Echo!Outstanding,
         PB!Echo!InStep, EchoShort!InStep, PB!Echo!Outstanding, EchoShort!Outstanding
<1>11. PA!Udp!OwnEcho => UdpLossy!OwnEcho
  BY DEF PA!Udp!OwnEcho, UdpLossy!OwnEcho, PA!Udp!NoEcho, UdpLossy!NoEcho, PA!Udp!Kept, UdpLossy!Kept,
         PA!Udp!Stranger, UdpLossy!Stranger
<1>12. PA!Udp!InStep => UdpLossy!InStep
  <2>1. \A S : PA!Udp!Cardinality(S) = UdpLossy!Cardinality(S)
    BY DEF PA!Udp!Cardinality, UdpLossy!Cardinality
  <2>2. \A S : PA!Udp!BagToSet(S) = UdpLossy!BagToSet(S)
    BY DEF PA!Udp!BagToSet, UdpLossy!BagToSet
  <2> QED BY <2>1, <2>2 DEF PA!Udp!InStep, UdpLossy!InStep, PA!Udp!NoEcho, UdpLossy!NoEcho
<1>13. PA!Half!AllSentArrives /\ PA!Half!ThanksReceived => Half!AllSentArrives /\ Half!ThanksReceived
  BY DEF PA!Half!AllSentArrives, PA!Half!ThanksReceived, Half!AllSentArrives, Half!ThanksReceived,
         PA!Half!Sent, Half!Sent
<1>14. /\ P => PA!Echo!NothingLost
       /\ Q => PB!Echo!InStep
       /\ PA!Udp!OwnEcho /\ PA!Udp!InStep
       /\ PA!Half!AllSentArrives /\ PA!Half!ThanksReceived
       => StreamsKept
  BY <1>10, <1>11, <1>12, <1>13 DEF StreamsKept
<1> HIDE DEF P, Q
<1> QED
  BY <1>1, <1>2, <1>3, <1>4, <1>5, <1>6, <1>7, <1>8, <1>9, <1>14, PTL
     DEF Spec, PA!EchoSteps, PB!EchoSteps, PA!UdpSteps, PA!HalfSteps

LEMMA SumRuns ==
  /\ Init => PA!Race!Init /\ PB!Sides!Init /\ PB!Locked!Init
  /\ [Next]_vars => (config = "sum race" => [PA!Race!Next]_PA!Race!vars)
  /\ [Next]_vars => (config = "sum sides" => [PB!Sides!Next]_PB!Sides!vars)
  /\ [Next]_vars => (config = "sum locked" => [PB!Locked!Next]_PB!Locked!vars)
<1>1. SumRace!Init => SumSides!Init /\ SumLocked!Init
  BY DEF SumRace!Init, SumRace!Thread, SumRace!None, SumSides!Init, SumSides!Thread, SumSides!None,
         SumLocked!Init, SumLocked!Thread, SumLocked!None
<1>2. Init => PA!Race!Init /\ PB!Sides!Init /\ PB!Locked!Init
  BY <1>1, SumRaceSame, SumSidesSame, SumLockedSame DEF Init
<1>3. [Next]_vars /\ config = "sum race" => [SumRace!Next]_SumRace!vars
  BY DEF Next, vars, sumVars, SumRace!vars, RpcStep, ClerkStep, EchoStep, UdpStep, HalfStep,
         ChatStep, SumStep, AsyncStep
<1>4. [Next]_vars /\ config = "sum sides" => [SumSides!Next]_SumSides!vars
  BY DEF Next, vars, sumVars, SumSides!vars, RpcStep, ClerkStep, EchoStep, UdpStep, HalfStep,
         ChatStep, SumStep, AsyncStep
<1>5. [Next]_vars /\ config = "sum locked" => [SumLocked!Next]_SumLocked!vars
  BY DEF Next, vars, sumVars, SumLocked!vars, RpcStep, ClerkStep, EchoStep, UdpStep, HalfStep,
         ChatStep, SumStep, AsyncStep
<1> QED BY <1>2, <1>3, <1>4, <1>5, SumRaceSame, SumSidesSame, SumLockedSame

\* The goroutines that share a sum: goroutine2 prints at least 11 and at most 55,
\* the race of goroutine3 carries the sum past neither side, and with the mutex of
\* goroutine4 the sum is exact.
THEOREM SumsAreBounded == Spec => []SumsBounded
<1> DEFINE P == config = "sum race"
           Q == config = "sum sides"
           R == config = "sum locked"
<1>1. Init => PA!Race!Init /\ PB!Sides!Init /\ PB!Locked!Init
  BY SumRuns
<1>2. [Next]_vars => (P <=> P') /\ (Q <=> Q') /\ (R <=> R')
  BY DEF Next, vars, RpcStep, ClerkStep, EchoStep, UdpStep, HalfStep, ChatStep, SumStep, AsyncStep
<1>3. [Next]_vars => /\ P => [PA!Race!Next]_PA!Race!vars
                     /\ Q => [PB!Sides!Next]_PB!Sides!vars
                     /\ R => [PB!Locked!Next]_PB!Locked!vars
  BY SumRuns
<1>0. 4 \in Nat \ {0}
  OBVIOUS
<1>4. PA!Race!Init /\ [][PA!Race!Next]_PA!Race!vars => []PA!Race!LostUpdatesBounded
  BY GnetConfigured, PA!RaceLosesBounded
<1>5. PB!Sides!Init /\ [][PB!Sides!Next]_PB!Sides!vars => []PB!Sides!NeverPastOneSide
  BY <1>0, GnetConfigured, PB!SidesHold
<1>6. PB!Locked!Init /\ [][PB!Locked!Next]_PB!Locked!vars => []PB!Locked!SumExact
  BY <1>0, GnetConfigured, PB!MutexIsExact
<1>7. PA!Race!LostUpdatesBounded => SumRace!LostUpdatesBounded
  <2>1. PA!Race!Total(PA!Race!Amount) = SumRace!Total(SumRace!Amount)
    BY Zenon DEF PA!Race!Total, PA!Race!MapThenSumSet, PA!Race!MapThenFoldSet, PA!Race!Amount,
       PA!Race!Thread, SumRace!Thread,
       SumRace!Total, SumRace!MapThenSumSet, SumRace!MapThenFoldSet, SumRace!Amount
  <2> QED BY <2>1 DEF PA!Race!LostUpdatesBounded, SumRace!LostUpdatesBounded
<1>8. PB!Sides!NeverPastOneSide => SumSides!NeverPastOneSide
  BY DEF PB!Sides!NeverPastOneSide, SumSides!NeverPastOneSide
<1>9. PB!Locked!SumExact => SumLocked!SumExact
  <2>1. PB!Locked!Total(PB!Locked!Amount) = SumLocked!Total(SumLocked!Amount)
    BY Zenon DEF PB!Locked!Total, PB!Locked!MapThenSumSet, PB!Locked!MapThenFoldSet, PB!Locked!Amount,
       PB!Locked!Thread, SumLocked!Thread,
       SumLocked!Total, SumLocked!MapThenSumSet, SumLocked!MapThenFoldSet, SumLocked!Amount
  <2> QED BY <2>1 DEF PB!Locked!SumExact, SumLocked!SumExact
<1>10. /\ P => PA!Race!LostUpdatesBounded
       /\ Q => PB!Sides!NeverPastOneSide
       /\ R => PB!Locked!SumExact
       => SumsBounded
  BY <1>7, <1>8, <1>9 DEF SumsBounded
<1> HIDE DEF P, Q, R
<1> QED
  BY <1>1, <1>2, <1>3, <1>4, <1>5, <1>6, <1>10, PTL DEF Spec
=============================================================================
