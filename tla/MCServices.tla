---------------------------- MODULE MCServices ----------------------------
(***************************************************************************)
(* What the servers of the repository promise their clients: UserService   *)
(* (go-proj), Chat (cpp-socket ch18), Gnet (go-server) where ids wrap      *)
(* around, and Packet, its serializer.                                     *)
(* A behaviour is one of one module, in one of its configurations; the     *)
(* variables of the others stay NoVar.                                     *)
(***************************************************************************)
EXTENDS Naturals, FiniteSets, Sequences

CONSTANTS alice, bob, carol, n1, r1, r2, Nothing, NoVar

VARIABLES
  config,
  users, token, ttl, info, now, req, issued, stored, buried, server,    \* UserService
  up, pending, cur, arr, arrLen, mut, hpc, buf, idx, c2s, s2c,
  cst, recv, sent, got, log, from,                              \* Chat
  useMsgSerializer, wire, ended, rpc, head,                     \* Packet, with sent and got
  gnetProc, gnetMpc, gnetMconn, gnetApc, gnetNextId, gnetConnDict, gnetConnLock, gnetSock,
  gnetPeer, gnetMsgs, gnetReceived, gnetOutbox, gnetIsClosed, gnetClosedBuf, gnetClosedDone,
  gnetPacketDone, gnetRpc, gnetWpc, gnetStop, gnetSpc, gnetReqChan      \* Gnet

userVars   == <<users, token, ttl, info, now, req, issued, stored, buried, server>>
chatVars   == <<up, pending, cur, arr, arrLen, mut, hpc, buf, idx, c2s, s2c, cst, recv, log, from>>
packetVars == <<useMsgSerializer, wire, ended, rpc, head>>
streams    == <<sent, got>>
gnetVars   == <<gnetProc, gnetMpc, gnetMconn, gnetApc, gnetNextId, gnetConnDict, gnetConnLock,
                gnetSock, gnetPeer, gnetMsgs, gnetReceived, gnetOutbox, gnetIsClosed,
                gnetClosedBuf, gnetClosedDone, gnetPacketDone, gnetRpc, gnetWpc, gnetStop,
                gnetSpc, gnetReqChan>>
vars       == <<config, userVars, chatVars, packetVars, streams, gnetVars>>

\* Two logins and requests of one user, with time passing and tokens expiring.
Logins == INSTANCE UserService WITH
  Kinds <- {"login", "select"}, DbFails <- FALSE, Reqs <- {r1, r2}, Names <- {n1}, MaxId <- 1,
  MaxTime <- 2, RedisExpire <- 1, JwtExpire <- 1, Second <- 2, Width <- 8, None <- Nothing

\* Two requests that change the table.
Data == INSTANCE UserService WITH
  Kinds <- {"login", "insert", "delete", "page", "update"}, DbFails <- TRUE, Reqs <- {r1, r2},
  Names <- {n1}, MaxId <- 2, MaxTime <- 0, RedisExpire <- 1, JwtExpire <- 1, Second <- 2,
  Width <- 8, None <- Nothing

\* Two clients with two bytes each, which a Read may take together.
Chat == INSTANCE Chat WITH Clients <- {alice, bob}, Cap <- 2, BufSize <- 2, SockCap <- 2, MaxSend <- 2

\* One client more than the array of connections has room for; they come and go and
\* send nothing.
ChatFull == INSTANCE Chat WITH Clients <- {alice, bob, carol}, Cap <- 2, BufSize <- 1, SockCap <- 1, MaxSend <- 0

\* Numbers of two digits of base two stand for the 32-bit ones; a raw Read may take
\* the end of one packet and the start of the next.
Packet == INSTANCE Packet WITH
  Base <- 2, Width <- 2, Ids <- {1}, MaxPacketSize <- 2, Modes <- BOOLEAN, MaxData <- 3, MaxSent <- 2

\* The second connection gets the id of the first, and messages are raw.
GnetWrap == INSTANCE Gnet WITH
  MaxConnNum <- 2, WorkerPoolSize <- 1, ReqChanLen <- 1, UseMsgSerializer <- FALSE,
  AfterConnStart <- FALSE, IdSpace <- 1, MaxAccepts <- 2, MaxMsgs <- 2, Traffic <- {"bound"},
  SockBuf <- 1,
  proc <- gnetProc, mpc <- gnetMpc, mconn <- gnetMconn, apc <- gnetApc, nextId <- gnetNextId,
  connDict <- gnetConnDict, connLock <- gnetConnLock, sock <- gnetSock, peer <- gnetPeer, msgs
  <- gnetMsgs, received <- gnetReceived, outbox <- gnetOutbox, isClosed <- gnetIsClosed,
  closedBuf <- gnetClosedBuf, closedDone <- gnetClosedDone, packetDone <- gnetPacketDone, rpc <-
  gnetRpc, wpc <- gnetWpc, stop <- gnetStop, spc <- gnetSpc, reqChan <- gnetReqChan

ASSUME Configured ==
  /\ Logins!ServiceAssumption /\ Data!ServiceAssumption
  /\ Chat!SizesAssumption /\ ChatFull!SizesAssumption
  /\ Packet!PacketAssumption

NoUser ==
  /\ users = NoVar /\ token = NoVar /\ ttl = NoVar /\ info = NoVar /\ now = NoVar
  /\ req = NoVar /\ issued = NoVar /\ stored = NoVar /\ buried = NoVar /\ server = NoVar

NoChat ==
  /\ up = NoVar /\ pending = NoVar /\ cur = NoVar /\ arr = NoVar /\ arrLen = NoVar
  /\ mut = NoVar /\ hpc = NoVar /\ buf = NoVar /\ idx = NoVar /\ c2s = NoVar /\ s2c = NoVar
  /\ cst = NoVar /\ recv = NoVar /\ log = NoVar /\ from = NoVar

NoPacket ==
  useMsgSerializer = NoVar /\ wire = NoVar /\ ended = NoVar /\ rpc = NoVar /\ head = NoVar

NoGnet ==
  /\ gnetProc = NoVar /\ gnetMpc = NoVar /\ gnetMconn = NoVar /\ gnetApc = NoVar
  /\ gnetNextId = NoVar /\ gnetConnDict = NoVar /\ gnetConnLock = NoVar /\ gnetSock = NoVar
  /\ gnetPeer = NoVar /\ gnetMsgs = NoVar /\ gnetReceived = NoVar /\ gnetOutbox = NoVar
  /\ gnetIsClosed = NoVar /\ gnetClosedBuf = NoVar /\ gnetClosedDone = NoVar /\ gnetPacketDone = NoVar
  /\ gnetRpc = NoVar /\ gnetWpc = NoVar /\ gnetStop = NoVar /\ gnetSpc = NoVar
  /\ gnetReqChan = NoVar

NoStreams == sent = NoVar /\ got = NoVar

Init ==
  \/ config = "logins" /\ Logins!Init /\ NoChat /\ NoPacket /\ NoStreams /\ NoGnet
  \/ config = "data" /\ Data!Init /\ NoChat /\ NoPacket /\ NoStreams /\ NoGnet
  \/ config = "chat" /\ Chat!Init /\ NoUser /\ NoPacket /\ NoGnet
  \/ config = "chat full" /\ ChatFull!Init /\ NoUser /\ NoPacket /\ NoGnet
  \/ config = "packet" /\ Packet!Init /\ NoUser /\ NoChat /\ NoGnet
  \/ config = "gnet" /\ GnetWrap!Init /\ NoUser /\ NoChat /\ NoPacket /\ NoStreams

Next ==
  \/ config = "logins" /\ Logins!Next /\ UNCHANGED <<config, chatVars, packetVars, streams, gnetVars>>
  \/ config = "data" /\ Data!Next /\ UNCHANGED <<config, chatVars, packetVars, streams, gnetVars>>
  \/ config = "chat" /\ Chat!Next /\ UNCHANGED <<config, userVars, packetVars, gnetVars>>
  \/ config = "chat full" /\ ChatFull!Next /\ UNCHANGED <<config, userVars, packetVars, gnetVars>>
  \/ config = "packet" /\ Packet!Next /\ UNCHANGED <<config, userVars, chatVars, gnetVars>>
  \/ config = "gnet" /\ GnetWrap!Next /\ UNCHANGED <<config, userVars, chatVars, packetVars, streams>>

Spec == Init /\ [][Next]_vars

-----------------------------------------------------------------------------
(* Properties *)

\* Every module keeps its variables in their types.
TypeOK ==
  CASE config = "logins" -> Logins!TypeOK
    [] config = "data" -> Data!TypeOK
    [] config = "chat" -> Chat!TypeOK
    [] config = "chat full" -> ChatFull!TypeOK
    [] config = "packet" -> Packet!TypeOK
    [] config = "gnet" -> GnetWrap!TypeOK

\* user service: a stored token is the one of the last login, though requests let
\* in with an earlier token still renew the key; and a row deleted while no
\* UpdateUser stands between its read and its Save of it stays deleted.
UsersServed ==
  /\ config = "logins" => Logins!LastLoginWins
  /\ config = "data" => Data!DeleteIsFinal

\* chat: a client's bytes are broadcast once each and in the order it sent them,
\* a connected client gets all that was broadcast since it registered, and the
\* array holds the connections whose goroutines run, each once.
ChatDelivers ==
  /\ config = "chat" => Chat!SenderOrder /\ Chat!Delivered /\ Chat!ArrayIsConnected
  /\ config = "chat full" => ChatFull!ArrayIsConnected

\* gnet: the request handler gets the messages that were sent, in their order,
\* though the stream may end inside any of them; while the connection lives, the
\* reader stops at the first message above MaxPacketSize and at no other; and
\* without the serializer no byte of the stream is lost or moved.
Framing ==
  config = "packet" => Packet!Framing /\ Packet!StopsAtOverflow /\ Packet!RawKeepsBytes

\* gnet: channels are closed once and the requests of a connection are handled
\* in order, also for a connection whose id, and so dictionary entry and
\* worker, was given to another one.
OrderedThoughIdsWrap ==
  config = "gnet" => GnetWrap!ChannelsClosedOnce /\ GnetWrap!HandledInOrder
=============================================================================
