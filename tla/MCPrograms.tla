---------------------------- MODULE MCPrograms ----------------------------
(***************************************************************************)
(* Small concurrent programs that are to come to an end, or to come back   *)
(* to their users: a call through labrpc, the clerk of shardkv, the socket *)
(* programs of cpp-socket and the Kafka producer.  A behaviour is one of one program;  *)
(* the others stay in an initial state.  A program's variables carry its   *)
(* prefix; those of LabRpc have none.                                      *)
(***************************************************************************)
EXTENDS Naturals, FiniteSets

CONSTANTS alice, bob, e1, s1, o1, o2, c1, k1, g1, g2, adm, NoGroup, Nil

VARIABLES
  config,
  ends, enabled, connections, servers, reliable, netDone, netLoop, pc, end, srv, lossy, handler,
  echoKind, echoCpc, echoSend, echoUnsent, echoC2s, echoSbio, echoSpc, echoHold, echoS2c,
  echoCbio, echoOwed,
  udpCpc, udpSend, udpRound, udpPrinted, udpRefused, udpUp, udpToServer, udpToClient, udpDisturbed,
  halfKind, halfTotal, halfSpc, halfCpc, halfLeft, halfBio, halfFds, halfShut, halfS2c, halfC2s,
  halfGot, halfCollected, halfThanked,
  chatUp, chatPending, chatCur, chatArr, chatArrLen, chatMut, chatHpc, chatBuf, chatIdx, chatC2s,
  chatS2c, chatCst, chatRecv, chatSent, chatGot, chatLog, chatFrom,
  sumSum, sumMutex, sumPc, sumI, sumReg, sumWg, sumPrinted,
  asyncMpc, asyncI, asyncEnqueued, asyncTimedOut, asyncSpc, asyncSucceeded, asyncEpc, asyncFailed,
  asyncTaken, asyncSuccesses, asyncErrors, asyncClosed,
  clerkCk, clerkConfigs, clerkLeader, clerkElections, clerkServing, clerkStore, clerkFloating

\* A call, while its server is replaced and its end-point enabled and disabled.
Rpc == INSTANCE LabRpc WITH Ends <- {e1}, Names <- {s1}, Objects <- {o1, o2}, Calls <- {c1}

\* A Get, while groups join, leave and are given the shard.
Clerk == INSTANCE ShardClerk WITH
  Clerks <- {k1}, Admin <- adm, Groups <- {g1, g2}, N <- 2, NShards <- 1, Key <- 97,
  Ops <- {"get"}, MaxOps <- 1, MaxConfigs <- 3, MaxElections <- 0, MaxStore <- 3, MaxFloating <- 0,
  ck <- clerkCk, configs <- clerkConfigs, leader <- clerkLeader, elections <- clerkElections,
  serving <- clerkServing, store <- clerkStore, floating <- clerkFloating

\* Lines longer than the buffer, Writes cut at will, sockets that fill up.
Echo == INSTANCE Echo WITH
  Kinds <- {"ch04", "ch15"}, MaxLine <- 3, BufSize <- 2, BioSize <- 3, SockCap <- 3, Split <- TRUE,
  kind <- echoKind, cpc <- echoCpc, send <- echoSend, unsent <- echoUnsent, c2s <- echoC2s,
  sbio <- echoSbio, spc <- echoSpc, hold <- echoHold, s2c <- echoS2c, cbio <- echoCbio, owed <- echoOwed

\* Lines that fit the buffer and arrive in one piece.
EchoShort == INSTANCE Echo WITH
  Kinds <- {"ch04", "ch15"}, MaxLine <- 6, BufSize <- 6, BioSize <- 20, SockCap <- 9, Split <- FALSE,
  kind <- echoKind, cpc <- echoCpc, send <- echoSend, unsent <- echoUnsent, c2s <- echoC2s,
  sbio <- echoSbio, spc <- echoSpc, hold <- echoHold, s2c <- echoS2c, cbio <- echoCbio, owed <- echoOwed

\* A client of either kind, a network that loses and copies, and a stranger.
UdpLossy == INSTANCE UdpEcho WITH
  Clients <- {alice, bob}, Connected <- {bob}, BufSize <- 2, Sizes <- {1, 3}, MaxRounds <- 2,
  Loses <- TRUE, Copies <- TRUE, Exits <- TRUE, Strays <- TRUE,
  cpc <- udpCpc, send <- udpSend, round <- udpRound, printed <- udpPrinted, refused <- udpRefused,
  up <- udpUp, toServer <- udpToServer, toClient <- udpToClient, disturbed <- udpDisturbed

\* The same clients over a network that delivers; the server may still exit.
Udp == INSTANCE UdpEcho WITH
  Clients <- {alice, bob}, Connected <- {bob}, BufSize <- 2, Sizes <- {1, 3}, MaxRounds <- 2,
  Loses <- FALSE, Copies <- FALSE, Exits <- TRUE, Strays <- FALSE,
  cpc <- udpCpc, send <- udpSend, round <- udpRound, printed <- udpPrinted, refused <- udpRefused,
  up <- udpUp, toServer <- udpToServer, toClient <- udpToClient, disturbed <- udpDisturbed

\* Files shorter and longer than bufio's buffer, which BUF_SIZE does not divide.
Half == INSTANCE HalfClose WITH
  Kinds <- {"file", "server2"}, MaxLen <- 13, LineLen <- 2, BufSize <- 5, BioSize <- 12,
  kind <- halfKind, total <- halfTotal, spc <- halfSpc, cpc <- halfCpc, left <- halfLeft,
  bio <- halfBio, fds <- halfFds, shut <- halfShut, s2c <- halfS2c, c2s <- halfC2s, got <- halfGot,
  collected <- halfCollected, thanked <- halfThanked

\* ch16's first server, which waits for ever: only what it does is checked.
HalfServer1 == INSTANCE HalfClose WITH
  Kinds <- {"server1"}, MaxLen <- 13, LineLen <- 2, BufSize <- 5, BioSize <- 12,
  kind <- halfKind, total <- halfTotal, spc <- halfSpc, cpc <- halfCpc, left <- halfLeft,
  bio <- halfBio, fds <- halfFds, shut <- halfShut, s2c <- halfS2c, c2s <- halfC2s, got <- halfGot,
  collected <- halfCollected, thanked <- halfThanked

\* Two clients that send a byte each, and read a byte at a time.
Chat == INSTANCE Chat WITH
  Clients <- {alice, bob}, Cap <- 2, BufSize <- 1, SockCap <- 1, MaxSend <- 1,
  up <- chatUp, pending <- chatPending, cur <- chatCur, arr <- chatArr, arrLen <- chatArrLen,
  mut <- chatMut, hpc <- chatHpc, buf <- chatBuf, idx <- chatIdx, c2s <- chatC2s, s2c <- chatS2c,
  cst <- chatCst, recv <- chatRecv, sent <- chatSent, got <- chatGot, log <- chatLog, from <- chatFrom

\* goroutine2 with its own numbers, 1 .. 5 and 6 .. 10.
SumRace == INSTANCE SharedSum WITH
  Program <- "goroutine2", Threads <- 2, Rounds <- 5,
  sum <- sumSum, mutex <- sumMutex, pc <- sumPc, i <- sumI, reg <- sumReg, wg <- sumWg,
  printed <- sumPrinted

\* goroutine3 and goroutine4 with one add and one sub.
SumSides == INSTANCE SharedSum WITH
  Program <- "goroutine3", Threads <- 2, Rounds <- 4,
  sum <- sumSum, mutex <- sumMutex, pc <- sumPc, i <- sumI, reg <- sumReg, wg <- sumWg,
  printed <- sumPrinted

SumLocked == INSTANCE SharedSum WITH
  Program <- "goroutine4", Threads <- 2, Rounds <- 4,
  sum <- sumSum, mutex <- sumMutex, pc <- sumPc, i <- sumI, reg <- sumReg, wg <- sumWg,
  printed <- sumPrinted

Async == INSTANCE AsyncProducer WITH
  Total <- 4, Pending <- 2,
  mpc <- asyncMpc, i <- asyncI, enqueued <- asyncEnqueued, timedOut <- asyncTimedOut,
  spc <- asyncSpc, succeeded <- asyncSucceeded, epc <- asyncEpc, failed <- asyncFailed,
  taken <- asyncTaken, successes <- asyncSuccesses, errors <- asyncErrors, closed <- asyncClosed

ASSUME Configured ==
  /\ Rpc!NilAssumption /\ Clerk!ShardClerkAssumption
  /\ Echo!EchoAssumption /\ EchoShort!EchoAssumption /\ UdpLossy!UdpAssumption /\ Udp!UdpAssumption
  /\ Half!SizesAssumption /\ HalfServer1!SizesAssumption /\ Chat!SizesAssumption /\ Async!ProducerAssumption
  /\ SumRace!SumAssumption /\ SumSides!SumAssumption /\ SumLocked!SumAssumption

-----------------------------------------------------------------------------

rpcVars == <<ends, enabled, connections, servers, reliable, netDone, netLoop, pc, end, srv, lossy,
  handler>>
echoVars == <<echoKind, echoCpc, echoSend, echoUnsent, echoC2s, echoSbio, echoSpc, echoHold,
  echoS2c, echoCbio, echoOwed>>
udpVars == <<udpCpc, udpSend, udpRound, udpPrinted, udpRefused, udpUp, udpToServer, udpToClient,
  udpDisturbed>>
halfVars == <<halfKind, halfTotal, halfSpc, halfCpc, halfLeft, halfBio, halfFds, halfShut,
  halfS2c, halfC2s, halfGot, halfCollected, halfThanked>>
chatVars == <<chatUp, chatPending, chatCur, chatArr, chatArrLen, chatMut, chatHpc, chatBuf,
  chatIdx, chatC2s, chatS2c, chatCst, chatRecv, chatSent, chatGot, chatLog, chatFrom>>
sumVars == <<sumSum, sumMutex, sumPc, sumI, sumReg, sumWg, sumPrinted>>
asyncVars == <<asyncMpc, asyncI, asyncEnqueued, asyncTimedOut, asyncSpc, asyncSucceeded, asyncEpc,
  asyncFailed, asyncTaken, asyncSuccesses, asyncErrors, asyncClosed>>
clerkVars == <<clerkCk, clerkConfigs, clerkLeader, clerkElections, clerkServing, clerkStore,
  clerkFloating>>
vars == <<config, rpcVars, echoVars, udpVars, halfVars, chatVars, sumVars, asyncVars, clerkVars>>

Configs == {"rpc", "clerk", "echo", "echo short", "udp lossy", "udp", "half close", "server1",
            "chat", "sum race", "sum sides", "sum locked", "async"}

Init ==
  /\ config \in Configs
  /\ Rpc!RpcInit
  /\ IF config = "echo short" THEN EchoShort!Init ELSE Echo!Init
  /\ config \in {"echo", "echo short"} \/ echoKind = "ch04"
  /\ Udp!Init
  /\ IF config = "server1" THEN HalfServer1!Init ELSE Half!Init
  /\ config \in {"half close", "server1"} \/ halfKind = "server2"
  /\ Chat!Init
  /\ SumRace!Init
  /\ Async!Init
  /\ Clerk!Init

\* The steps of the programs; a step of one leaves the others alone.
RpcStep ==
  /\ config = "rpc" /\ Rpc!RpcNext
  /\ UNCHANGED <<config, clerkVars, echoVars, udpVars, halfVars, chatVars, sumVars, asyncVars>>

ClerkStep ==
  /\ config = "clerk" /\ Clerk!Next
  /\ UNCHANGED <<config, rpcVars, echoVars, udpVars, halfVars, chatVars, sumVars, asyncVars>>

EchoStep ==
  /\ \/ config = "echo" /\ Echo!Next
     \/ config = "echo short" /\ EchoShort!Next
  /\ UNCHANGED <<config, clerkVars, rpcVars, udpVars, halfVars, chatVars, sumVars, asyncVars>>

UdpStep ==
  /\ \/ config = "udp lossy" /\ UdpLossy!Next
     \/ config = "udp" /\ Udp!Next
  /\ UNCHANGED <<config, clerkVars, rpcVars, echoVars, halfVars, chatVars, sumVars, asyncVars>>

HalfStep ==
  /\ \/ config = "half close" /\ Half!Next
     \/ config = "server1" /\ HalfServer1!Next
  /\ UNCHANGED <<config, clerkVars, rpcVars, echoVars, udpVars, chatVars, sumVars, asyncVars>>

ChatStep ==
  /\ config = "chat" /\ Chat!Next
  /\ UNCHANGED <<config, clerkVars, rpcVars, echoVars, udpVars, halfVars, sumVars, asyncVars>>

SumStep ==
  /\ \/ config = "sum race" /\ SumRace!Next
     \/ config = "sum sides" /\ SumSides!Next
     \/ config = "sum locked" /\ SumLocked!Next
  /\ UNCHANGED <<config, clerkVars, rpcVars, echoVars, udpVars, halfVars, chatVars, asyncVars>>

AsyncStep ==
  /\ config = "async" /\ Async!Next
  /\ UNCHANGED <<config, clerkVars, rpcVars, echoVars, udpVars, halfVars, chatVars, sumVars>>

Next == RpcStep \/ ClerkStep \/ EchoStep \/ UdpStep \/ HalfStep \/ ChatStep \/ SumStep \/ AsyncStep

\* The program that runs is scheduled as its module says.
Fairness ==
  \/ config = "rpc" /\ Rpc!RpcFairness
  \/ config = "clerk" /\ Clerk!Fairness
  \/ config = "echo" /\ Echo!Fairness
  \/ config = "udp" /\ Udp!Fairness
  \/ config = "half close" /\ Half!Fairness
  \/ config = "chat" /\ Chat!Fairness
  \/ config = "sum locked" /\ SumLocked!Fairness
  \/ config = "async" /\ Async!Fairness
  \/ config \in {"echo short", "udp lossy", "server1", "sum race", "sum sides"}

Spec == Init /\ [][Next]_vars /\ Fairness

-----------------------------------------------------------------------------
(* Properties *)

\* Every program keeps its variables in their types and its counts in balance.
TypeOK ==
  /\ Rpc!RpcTypeOK /\ Clerk!TypeOK
  /\ IF config = "echo short" THEN EchoShort!TypeOK ELSE Echo!TypeOK
  /\ IF config = "server1" THEN HalfServer1!TypeOK ELSE Half!TypeOK
  /\ Udp!TypeOK /\ Chat!TypeOK /\ SumRace!TypeOK /\ Async!TypeOK

\* The socket programs lose and mix up nothing: every byte of a TCP echo is
\* printed or on its way, and short lines are echoed one for one; a UDP client
\* prints only echoes of its own lines, or what a stranger sent to its unconnected
\* socket, and in step until a datagram is duplicated or strays; a half-close client
\* that leaves its loop has exactly what the server's loop sends, the whole file or
\* its first bufio buffer, and a server that ends normally has read the thanks.
StreamsKept ==
  /\ config = "echo" => Echo!NothingLost
  /\ config = "echo short" => EchoShort!InStep
  /\ UdpLossy!OwnEcho /\ UdpLossy!InStep
  /\ Half!AllSentArrives /\ Half!ThanksReceived

\* Shared sum: the race of goroutine2 prints at least 11 and at most 55, that of
\* goroutine3 never carries sum past either side, and with the mutex of
\* goroutine4 the sum is exact.
SumsBounded ==
  /\ config = "sum race" => SumRace!LostUpdatesBounded
  /\ config = "sum sides" => SumSides!NeverPastOneSide
  /\ config = "sum locked" => SumLocked!SumExact

\* A program comes back to its user.  Call returns whatever happens to the
\* network, unless its handler does not return and the server stays alive; a
\* clerk's operation returns if in the end the shard has a group; a round of TCP
\* echo ends, or old echoes have filled both sockets, and a client that is gone
\* ends the server; a round of UDP echo ends where no datagram is lost; both ends
\* of the half-close examples exit; a chat client that quits is forgotten; every
\* goroutine gets the mutex; and every message of the producer is counted.
Returns ==
  /\ config = "rpc" => Rpc!CallReturns
  /\ config = "clerk" => Clerk!OperationsReturn
  /\ config = "echo" => Echo!RoundReturns /\ Echo!ServerEnds
  /\ config = "udp" => Udp!RoundReturns
  /\ config = "half close" => Half!Terminates
  /\ config = "chat" => Chat!QuitIsSeen
  /\ config = "sum locked" => SumLocked!Prints
  /\ config = "async" => Async!AllCounted
=============================================================================
