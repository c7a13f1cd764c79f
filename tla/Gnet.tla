-------------------------------- MODULE Gnet --------------------------------
(***************************************************************************)
(* The TCP server framework go-server/gnet: the accept loop (server.go),   *)
(* the connection manager with its lock (conn_man.go), the reader and the  *)
(* writer goroutine of every connection and the teardown in Conn.Stop      *)
(* (conn.go), the worker pool (req_handler.go), the hooks and handlers     *)
(* that main.go registers, and the shutdown on SIGINT/SIGTERM.             *)
(*                                                                         *)
(* Every goroutine is a group of actions.  A blocking channel operation or *)
(* lock acquisition is an action whose guard is false while it blocks.  A  *)
(* Go panic in any goroutine ends the whole process: nothing recovers it.  *)
(***************************************************************************)
EXTENDS Integers, Sequences, FiniteSets

CONSTANTS
  MaxConnNum,        \* global.Conf.MaxConnNum
  WorkerPoolSize,    \* global.Conf.WorkerPoolSize; 0 means one goroutine per request
  ReqChanLen,        \* global.Conf.ReqChanLen, capacity of one request queue
  UseMsgSerializer,  \* global.Conf.UseMsgSerializer
  AfterConnStart,    \* whether a hook is registered (main.go registers one that sends)
  IdSpace,           \* number of connection ids: 2^32 in the code
  MaxAccepts,        \* bound: how many connections the listener accepts
  MaxMsgs,           \* bound: messages one client sends
  Traffic,           \* the kinds of messages the clients send
  SockBuf            \* bound: packets the kernel buffers towards one client

ASSUME ConfAssumption ==
  /\ MaxConnNum \in Nat
  /\ WorkerPoolSize \in Nat
  /\ ReqChanLen \in Nat \ {0}
  /\ UseMsgSerializer \in BOOLEAN
  /\ AfterConnStart \in BOOLEAN
  /\ IdSpace \in Nat \ {0}

ASSUME BoundAssumption ==
  /\ MaxAccepts \in Nat
  /\ MaxMsgs \in Nat
  /\ SockBuf \in Nat \ {0}
  /\ Traffic \subseteq {"bound", "unbound", "oversize"}

None == -1     \* no connection
Main == -2     \* the main goroutine, as a caller of Conn.Stop

Conns    == 0 .. MaxAccepts - 1
Ids      == 0 .. IdSpace - 1
Workers  == 0 .. WorkerPoolSize - 1
Stoppers == Conns \cup {Main}

\* A call of SendPacket: n = 0 is the one in the AfterConnStart hook, n > 0
\* the one made by the handler of the n-th request of the connection.
Senders == Conns \X (0 .. MaxMsgs)

\* What a client may send: a message with a bound route, one without, and one
\* whose length field exceeds MaxPacketSize.
Kinds == {"bound", "unbound", "oversize"}

\* The 32-bit connection id has not wrapped around.
NoWrap == MaxAccepts <= IdSpace

\* Where a call of Conn.Stop is.
StopLabels == {"idle", "check", "mark", "close", "notify", "delete",
               "closeC", "closeP", "done"}

VARIABLES
  proc,        \* "running", "exited", or the panic that killed the process
  mpc, mconn,  \* main goroutine: control and the connection DelAllConn stops
  apc,         \* accept goroutine: control
  nextId,      \* connections accepted so far; connId is nextId % IdSpace
  connDict,    \* ConnMan.connDict: id -> connection, None where absent
  connLock,    \* TRUE while DelAllConn holds ConnMan.rwLock
  sock, peer,  \* per connection: the server's socket, and whether the client is there
  msgs,        \* per connection: what the client has sent, in order
  received,    \* per connection: how many of msgs the reader has taken
  outbox,      \* per connection: packets written and not yet read by the client
  isClosed,    \* Conn.isClosed
  closedBuf,   \* elements in Conn.ClosedChan (capacity 1)
  closedDone,  \* Conn.ClosedChan is closed
  packetDone,  \* Conn.PacketChan (unbuffered) is closed
  rpc, wpc,    \* per connection: reader and writer goroutine
  stop,        \* per caller: where its call of Conn.Stop is
  spc,         \* per sender: the request and its SendPacket call
  reqChan      \* per worker: ReqChanArr, sequences of <<connection, n>>

registry == <<nextId, connDict, connLock>>
network  == <<sock, peer, msgs, received, outbox>>
chans    == <<isClosed, closedBuf, closedDone, packetDone>>
control  == <<mpc, mconn, apc, rpc, wpc, stop, spc, reqChan>>
vars     == <<proc, registry, network, chans, control>>

-----------------------------------------------------------------------------

IdOf(c) == c % IdSpace

GetConnNum == Cardinality({i \in Ids : connDict[i] # None})

\* PushToReqChan: the queue, hence the worker, that serves connection c.
WorkerOf(c) == IdOf(c) % WorkerPoolSize

\* A handler that has left the queue and has not returned.
Active(s) == s[2] > 0 /\ spc[s] \in {"check", "send"}

WorkerBusy(w) == \E s \in Senders : Active(s) /\ WorkerOf(s[1]) = w

\* Without the serializer every message is read as id 0, which is bound.
Decoded(k) == IF UseMsgSerializer THEN k ELSE "bound"

StopTarget(g) == IF g = Main THEN mconn ELSE g

Init ==
  /\ proc = "running"
  /\ mpc = "wait" /\ mconn = None
  /\ apc = "listen"
  /\ nextId = 0
  /\ connDict = [i \in Ids |-> None]
  /\ connLock = FALSE
  /\ sock = [c \in Conns |-> "none"]
  /\ peer = [c \in Conns |-> "here"]
  /\ msgs = [c \in Conns |-> <<>>]
  /\ received = [c \in Conns |-> 0]
  /\ outbox = [c \in Conns |-> 0]
  /\ isClosed = [c \in Conns |-> FALSE]
  /\ closedBuf = [c \in Conns |-> 0]
  /\ closedDone = [c \in Conns |-> FALSE]
  /\ packetDone = [c \in Conns |-> FALSE]
  /\ rpc = [c \in Conns |-> "none"]
  /\ wpc = [c \in Conns |-> "none"]
  /\ stop = [g \in Stoppers |-> "idle"]
  /\ spc = [s \in Senders |-> "none"]
  /\ reqChan = [w \in Workers |-> <<>>]

-----------------------------------------------------------------------------
(* The accept goroutine of Server.Start.                                   *)

\* Resolve and listen; either may fail, and then nothing is ever accepted.
\* On success the worker pool is started before the first accept.
Listen ==
  /\ apc = "listen"
  /\ apc' \in {"accept", "dead"}
  /\ UNCHANGED <<proc, registry, network, chans, mpc, mconn, rpc, wpc, stop, spc, reqChan>>

\* AcceptTCP returns the socket of a client (an error is logged and retried).
AcceptTCP ==
  /\ apc = "accept"
  /\ nextId < MaxAccepts
  /\ sock' = [sock EXCEPT ![nextId] = "open"]
  /\ apc' = "test"
  /\ UNCHANGED <<proc, registry, peer, msgs, received, outbox, chans,
                 mpc, mconn, rpc, wpc, stop, spc, reqChan>>

\* Mutant: the limit is compared with > instead of >=.
TestOneMore ==
  /\ apc = "test"
  /\ apc' = IF GetConnNum > MaxConnNum THEN "refuse" ELSE "add"
  /\ UNCHANGED <<proc, registry, network, chans, mpc, mconn, rpc, wpc, stop, spc, reqChan>>

\* The unlocked read of the number of connections, with the socket open.
TestConnNum ==
  /\ apc = "test"
  /\ apc' = IF GetConnNum >= MaxConnNum THEN "refuse" ELSE "add"
  /\ UNCHANGED <<proc, registry, network, chans, mpc, mconn, rpc, wpc, stop, spc, reqChan>>

\* At the limit the new socket is closed and forgotten; its place in sock is
\* that of the next one accepted.
Refuse ==
  /\ apc = "refuse"
  /\ sock' = [sock EXCEPT ![nextId] = "none"]
  /\ apc' = "accept"
  /\ UNCHANGED <<proc, registry, peer, msgs, received, outbox, chans,
                 mpc, mconn, rpc, wpc, stop, spc, reqChan>>

\* NewConn (with AddConn under the lock), connId++, go conn.Start().
AddConn ==
  /\ apc = "add"
  /\ ~connLock
  /\ connDict' = [connDict EXCEPT ![IdOf(nextId)] = nextId]
  /\ rpc' = [rpc EXCEPT ![nextId] = "created"]
  /\ nextId' = nextId + 1
  /\ apc' = "accept"
  /\ UNCHANGED <<proc, connLock, network, chans, mpc, mconn, wpc, stop, spc, reqChan>>

Acceptor == Listen \/ AcceptTCP \/ TestConnNum \/ Refuse \/ AddConn

-----------------------------------------------------------------------------
(* Conn.Start: both goroutines, then the hook.                             *)

Start(c) ==
  /\ rpc[c] = "created"
  /\ rpc' = [rpc EXCEPT ![c] = "read"]
  /\ wpc' = [wpc EXCEPT ![c] = "select"]
  /\ spc' = [spc EXCEPT ![<<c, 0>>] = IF AfterConnStart THEN "check" ELSE "done"]
  /\ UNCHANGED <<proc, registry, network, chans, mpc, mconn, apc, stop, reqChan>>

-----------------------------------------------------------------------------
(* Conn.StartReader.                                                       *)

\* A full packet is there: head, Unpack, body.  An oversize length is an
\* Unpack error, and the deferred Stop runs.
ReadPacket(c) ==
  /\ rpc[c] = "read"
  /\ sock[c] = "open"
  /\ received[c] < Len(msgs[c])
  /\ received' = [received EXCEPT ![c] = @ + 1]
  /\ IF Decoded(msgs[c][received[c] + 1]) = "oversize"
     THEN /\ rpc' = [rpc EXCEPT ![c] = "stopping"]
          /\ stop' = [stop EXCEPT ![c] = "check"]
          /\ UNCHANGED spc
     ELSE /\ rpc' = [rpc EXCEPT ![c] = "push"]
          /\ spc' = [spc EXCEPT ![<<c, received[c] + 1>>] = "held"]
          /\ UNCHANGED stop
  /\ UNCHANGED <<proc, registry, sock, peer, msgs, outbox, chans, mpc, mconn, apc, wpc, reqChan>>

\* The read fails: the server closed the socket, or the client has gone
\* (end of file after the data, or a reset that discards it).
ReadError(c) ==
  /\ rpc[c] = "read"
  /\ sock[c] = "closed" \/ peer[c] = "gone"
  /\ rpc' = [rpc EXCEPT ![c] = "stopping"]
  /\ stop' = [stop EXCEPT ![c] = "check"]
  /\ UNCHANGED <<proc, registry, network, chans, mpc, mconn, apc, wpc, spc, reqChan>>

\* What UseRoute does first: no route for the id, and the request is done.
Routed(s) == IF Decoded(msgs[s[1]][s[2]]) = "bound" THEN "check" ELSE "done"

\* With a pool the reader blocks while the queue is full; without one it
\* starts a goroutine that runs UseRoute.
PushToReqChan(c) ==
  LET s == <<c, received[c]>>
      w == WorkerOf(c)
  IN /\ rpc[c] = "push"
     /\ rpc' = [rpc EXCEPT ![c] = "read"]
     /\ IF WorkerPoolSize > 0
        THEN /\ Len(reqChan[w]) < ReqChanLen
             /\ reqChan' = [reqChan EXCEPT ![w] = Append(@, s)]
             /\ spc' = [spc EXCEPT ![s] = "queued"]
        ELSE /\ spc' = [spc EXCEPT ![s] = Routed(s)]
             /\ UNCHANGED reqChan
     /\ UNCHANGED <<proc, registry, network, chans, mpc, mconn, apc, wpc, stop>>

-----------------------------------------------------------------------------
(* Conn.Stop, called by the reader of c (g = c) or by DelAllConn (g = Main). *)

StopGoto(g, label) == stop' = [stop EXCEPT ![g] = label]

\* The unsynchronised test of isClosed, and the assignment after it.
StopCheck(g) ==
  /\ stop[g] = "check"
  /\ StopGoto(g, IF isClosed[StopTarget(g)] THEN "done" ELSE "mark")
  /\ UNCHANGED <<proc, registry, network, chans, mpc, mconn, apc, rpc, wpc, spc, reqChan>>

\* Mutant: the connection leaves the dictionary before its socket is closed.
StopMarkDelete(g) ==
  /\ stop[g] = "mark"
  /\ isClosed' = [isClosed EXCEPT ![StopTarget(g)] = TRUE]
  /\ connDict' = [connDict EXCEPT ![IdOf(StopTarget(g))] = None]
  /\ StopGoto(g, "close")
  /\ UNCHANGED <<proc, nextId, connLock, network, closedBuf, closedDone, packetDone,
                 mpc, mconn, apc, rpc, wpc, spc, reqChan>>

StopMark(g) ==
  /\ stop[g] = "mark"
  /\ isClosed' = [isClosed EXCEPT ![StopTarget(g)] = TRUE]
  /\ StopGoto(g, "close")
  /\ UNCHANGED <<proc, registry, network, closedBuf, closedDone, packetDone,
                 mpc, mconn, apc, rpc, wpc, spc, reqChan>>

\* Mutant: Stop does not close the socket.
StopKeepSocket(g) ==
  /\ stop[g] = "close"
  /\ StopGoto(g, "notify")
  /\ UNCHANGED <<proc, registry, network, chans, mpc, mconn, apc, rpc, wpc, spc, reqChan>>

\* The BeforeConnStop hook only logs; then the socket is closed (a second
\* close is an error that is logged).
StopCloseSocket(g) ==
  /\ stop[g] = "close"
  /\ sock' = [sock EXCEPT ![StopTarget(g)] = "closed"]
  /\ StopGoto(g, "notify")
  /\ UNCHANGED <<proc, registry, peer, msgs, received, outbox, chans,
                 mpc, mconn, apc, rpc, wpc, spc, reqChan>>

\* Mutant: ClosedChan is made with room for two notifications.
StopNotifyTwo(g) ==
  LET c == StopTarget(g) IN
  /\ stop[g] = "notify"
  /\ ~closedDone[c]
  /\ closedBuf[c] < 2
  /\ closedBuf' = [closedBuf EXCEPT ![c] = @ + 1]
  /\ StopGoto(g, "delete")
  /\ UNCHANGED <<proc, registry, network, isClosed, closedDone, packetDone,
                 mpc, mconn, apc, rpc, wpc, spc, reqChan>>

\* ClosedChan <- struct{}{}: blocks while the one-element buffer is full.
StopNotify(g) ==
  LET c == StopTarget(g) IN
  /\ stop[g] = "notify"
  /\ \/ /\ closedDone[c]
        /\ proc' = "panic_close"
        /\ UNCHANGED <<closedBuf, stop>>
     \/ /\ ~closedDone[c]
        /\ closedBuf[c] = 0
        /\ closedBuf' = [closedBuf EXCEPT ![c] = 1]
        /\ StopGoto(g, "delete")
        /\ UNCHANGED proc
  /\ UNCHANGED <<registry, network, isClosed, closedDone, packetDone,
                 mpc, mconn, apc, rpc, wpc, spc, reqChan>>

\* Mutant: DelConn no longer takes the lock (the obvious cure of the
\* self-deadlock of DelAllConn).
StopDelConnUnlocked(g) ==
  /\ stop[g] = "delete"
  /\ connDict' = [connDict EXCEPT ![IdOf(StopTarget(g))] = None]
  /\ StopGoto(g, "closeC")
  /\ UNCHANGED <<proc, nextId, connLock, network, chans, mpc, mconn, apc, rpc, wpc, spc, reqChan>>

\* ConnMan.DelConn: takes the lock DelAllConn holds while it calls Stop.
StopDelConn(g) ==
  /\ stop[g] = "delete"
  /\ ~connLock
  /\ connDict' = [connDict EXCEPT ![IdOf(StopTarget(g))] = None]
  /\ StopGoto(g, "closeC")
  /\ UNCHANGED <<proc, nextId, connLock, network, chans, mpc, mconn, apc, rpc, wpc, spc, reqChan>>

StopCloseClosedChan(g) ==
  LET c == StopTarget(g) IN
  /\ stop[g] = "closeC"
  /\ IF closedDone[c]
     THEN proc' = "panic_close" /\ UNCHANGED <<closedDone, stop>>
     ELSE /\ closedDone' = [closedDone EXCEPT ![c] = TRUE]
          /\ StopGoto(g, "closeP")
          /\ UNCHANGED proc
  /\ UNCHANGED <<registry, network, isClosed, closedBuf, packetDone,
                 mpc, mconn, apc, rpc, wpc, spc, reqChan>>

\* Mutant: Stop forgets close(PacketChan).
StopKeepPacketChan(g) ==
  /\ stop[g] = "closeP"
  /\ StopGoto(g, "done")
  /\ UNCHANGED <<proc, registry, network, chans, mpc, mconn, apc, rpc, wpc, spc, reqChan>>

StopClosePacketChan(g) ==
  LET c == StopTarget(g) IN
  /\ stop[g] = "closeP"
  /\ IF packetDone[c]
     THEN proc' = "panic_close" /\ UNCHANGED <<packetDone, stop>>
     ELSE /\ packetDone' = [packetDone EXCEPT ![c] = TRUE]
          /\ StopGoto(g, "done")
          /\ UNCHANGED proc
  /\ UNCHANGED <<registry, network, isClosed, closedBuf, closedDone,
                 mpc, mconn, apc, rpc, wpc, spc, reqChan>>

Stop(g) ==
  \/ StopCheck(g) \/ StopMark(g) \/ StopCloseSocket(g) \/ StopNotify(g)
  \/ StopDelConn(g) \/ StopCloseClosedChan(g) \/ StopClosePacketChan(g)

Reader(c) == ReadPacket(c) \/ ReadError(c) \/ PushToReqChan(c) \/ Stop(c)

-----------------------------------------------------------------------------
(* The workers and Conn.SendPacket.                                        *)

\* Mutant: the worker starts a goroutine for UseRoute and takes the next request.
WorkerPopAsync(w) ==
  /\ reqChan[w] # <<>>
  /\ reqChan' = [reqChan EXCEPT ![w] = Tail(@)]
  /\ spc' = [spc EXCEPT ![Head(reqChan[w])] = Routed(Head(reqChan[w]))]
  /\ UNCHANGED <<proc, registry, network, chans, mpc, mconn, apc, rpc, wpc, stop>>

\* StartWorker: an idle worker takes the oldest request and runs UseRoute.
WorkerPop(w) ==
  /\ ~WorkerBusy(w)
  /\ reqChan[w] # <<>>
  /\ reqChan' = [reqChan EXCEPT ![w] = Tail(@)]
  /\ spc' = [spc EXCEPT ![Head(reqChan[w])] = Routed(Head(reqChan[w]))]
  /\ UNCHANGED <<proc, registry, network, chans, mpc, mconn, apc, rpc, wpc, stop>>

\* The unsynchronised test of isClosed at the start of SendPacket.
SendCheck(s) ==
  /\ spc[s] = "check"
  /\ spc' = [spc EXCEPT ![s] = IF isClosed[s[1]] THEN "done" ELSE "send"]
  /\ UNCHANGED <<proc, registry, network, chans, mpc, mconn, apc, rpc, wpc, stop, reqChan>>

\* PacketChan <- packet on a closed channel.
SendPanic(s) ==
  /\ spc[s] = "send"
  /\ packetDone[s[1]]
  /\ proc' = "panic_send"
  /\ UNCHANGED <<registry, network, chans, control>>

Sender(s) == SendCheck(s) \/ SendPanic(s)

-----------------------------------------------------------------------------
(* Conn.StartWriter.                                                       *)

\* The select takes a packet from a blocked sender, and that call returns.
WriterRecv(c) ==
  /\ wpc[c] = "select"
  /\ ~packetDone[c]
  /\ \E s \in Senders :
       /\ s[1] = c
       /\ spc[s] = "send"
       /\ spc' = [spc EXCEPT ![s] = "done"]
  /\ wpc' = [wpc EXCEPT ![c] = "write"]
  /\ UNCHANGED <<proc, registry, network, chans, mpc, mconn, apc, rpc, stop, reqChan>>

\* A receive from the closed PacketChan yields a nil packet.
WriterRecvClosed(c) ==
  /\ wpc[c] = "select"
  /\ packetDone[c]
  /\ wpc' = [wpc EXCEPT ![c] = "write"]
  /\ UNCHANGED <<proc, registry, network, chans, mpc, mconn, apc, rpc, stop, spc, reqChan>>

\* The select takes the notification, or finds ClosedChan closed.
WriterClosed(c) ==
  /\ wpc[c] = "select"
  /\ closedBuf[c] > 0 \/ closedDone[c]
  /\ closedBuf' = [closedBuf EXCEPT ![c] = 0]
  /\ wpc' = [wpc EXCEPT ![c] = "done"]
  /\ UNCHANGED <<proc, registry, network, isClosed, closedDone, packetDone,
                 mpc, mconn, apc, rpc, stop, spc, reqChan>>

\* Socket.Write: blocks while the kernel buffer is full, fails when the
\* socket is closed or the client has gone; a failure ends the goroutine.
SocketWrite(c) ==
  /\ wpc[c] = "write"
  /\ \/ /\ sock[c] = "open"
        /\ outbox[c] < SockBuf
        /\ outbox' = [outbox EXCEPT ![c] = @ + 1]
        /\ wpc' = [wpc EXCEPT ![c] = "select"]
     \/ /\ sock[c] = "closed" \/ peer[c] = "gone"
        /\ wpc' = [wpc EXCEPT ![c] = "done"]
        /\ UNCHANGED outbox
  /\ UNCHANGED <<proc, registry, sock, peer, msgs, received, chans,
                 mpc, mconn, apc, rpc, stop, spc, reqChan>>

Writer(c) == WriterRecv(c) \/ WriterRecvClosed(c) \/ WriterClosed(c) \/ SocketWrite(c)

-----------------------------------------------------------------------------
(* The main goroutine: wait for the signal, Server.Stop, DelAllConn.       *)

Signal ==
  /\ mpc = "wait"
  /\ mpc' = "lock"
  /\ UNCHANGED <<proc, registry, network, chans, mconn, apc, rpc, wpc, stop, spc, reqChan>>

DelAllLock ==
  /\ mpc = "lock"
  /\ ~connLock
  /\ connLock' = TRUE
  /\ mpc' = "range"
  /\ UNCHANGED <<proc, nextId, connDict, network, chans, mconn, apc, rpc, wpc, stop, spc, reqChan>>

\* One iteration of the range over connDict: conn.Stop() is called ...
DelAllStop ==
  /\ mpc = "range"
  /\ \E i \in Ids : connDict[i] # None /\ mconn' = connDict[i]
  /\ mpc' = "stopping"
  /\ StopGoto(Main, "check")
  /\ UNCHANGED <<proc, registry, network, chans, apc, rpc, wpc, spc, reqChan>>

\* ... and when it returns the entry is deleted.
DelAllDelete ==
  /\ mpc = "stopping"
  /\ stop[Main] = "done"
  /\ connDict' = [connDict EXCEPT ![IdOf(mconn)] = None]
  /\ mpc' = "range"
  /\ StopGoto(Main, "idle")
  /\ UNCHANGED <<proc, nextId, connLock, network, chans, mconn, apc, rpc, wpc, spc, reqChan>>

DelAllUnlock ==
  /\ mpc = "range"
  /\ \A i \in Ids : connDict[i] = None
  /\ connLock' = FALSE
  /\ mpc' = "return"
  /\ UNCHANGED <<proc, nextId, connDict, network, chans, mconn, apc, rpc, wpc, stop, spc, reqChan>>

\* Server.Stop, Server.Start and main return.
Exit ==
  /\ mpc = "return"
  /\ proc' = "exited"
  /\ UNCHANGED <<registry, network, chans, control>>

DelAllConn == DelAllLock \/ DelAllStop \/ DelAllDelete \/ DelAllUnlock

Shutdown == DelAllConn \/ Exit \/ Stop(Main)

-----------------------------------------------------------------------------
(* The clients.  They may do these things or not: no fairness.             *)

ClientSend(c) ==
  /\ c < nextId
  /\ peer[c] = "here"
  /\ sock[c] = "open"
  /\ Len(msgs[c]) < MaxMsgs
  /\ \E k \in Traffic : msgs' = [msgs EXCEPT ![c] = Append(@, k)]
  /\ UNCHANGED <<proc, registry, sock, peer, received, outbox, chans, control>>

ClientRead(c) ==
  /\ peer[c] = "here"
  /\ outbox[c] > 0
  /\ outbox' = [outbox EXCEPT ![c] = @ - 1]
  /\ UNCHANGED <<proc, registry, sock, peer, msgs, received, chans, control>>

ClientLeave(c) ==
  /\ c < nextId
  /\ peer[c] = "here"
  /\ peer' = [peer EXCEPT ![c] = "gone"]
  /\ UNCHANGED <<proc, registry, sock, msgs, received, outbox, chans, control>>

Client(c) == ClientSend(c) \/ ClientRead(c) \/ ClientLeave(c)

-----------------------------------------------------------------------------

Next ==
  /\ proc = "running"
  /\ \/ Acceptor
     \/ \E c \in Conns : Start(c) \/ Reader(c) \/ Writer(c) \/ Client(c)
     \/ \E w \in Workers : WorkerPop(w)
     \/ \E s \in Senders : Sender(s)
     \/ Signal
     \/ Shutdown

Spec == Init /\ [][Next]_vars

\* The Go scheduler runs every goroutine that can run.  Nothing is assumed of
\* the clients, of new connections, or of the signal.
Scheduled(A) == proc = "running" /\ A

Fairness ==
  /\ \A c \in Conns : /\ WF_vars(Scheduled(Start(c)))
                      /\ WF_vars(Scheduled(Reader(c)))
                      /\ WF_vars(Scheduled(Writer(c)))
  /\ \A w \in Workers : WF_vars(Scheduled(WorkerPop(w)))
  /\ \A s \in Senders : WF_vars(Scheduled(Sender(s)))
  /\ WF_vars(Scheduled(Shutdown))

FairSpec == Spec /\ Fairness

-----------------------------------------------------------------------------
(* Properties.                                                             *)

\* Every variable has its type.
TypeOK ==
  /\ proc \in {"running", "exited", "panic_send", "panic_close"}
  /\ mpc \in {"wait", "lock", "range", "stopping", "return"}
  /\ mconn \in Conns \cup {None}
  /\ apc \in {"listen", "accept", "test", "refuse", "add", "dead"}
  /\ nextId \in 0 .. MaxAccepts
  /\ connDict \in [Ids -> Conns \cup {None}]
  /\ connLock \in BOOLEAN
  /\ sock \in [Conns -> {"none", "open", "closed"}]
  /\ peer \in [Conns -> {"here", "gone"}]
  /\ msgs \in [Conns -> Seq(Kinds)]
  /\ received \in [Conns -> 0 .. MaxMsgs]
  /\ outbox \in [Conns -> 0 .. SockBuf]
  /\ isClosed \in [Conns -> BOOLEAN]
  /\ closedBuf \in [Conns -> {0, 1}]
  /\ closedDone \in [Conns -> BOOLEAN]
  /\ packetDone \in [Conns -> BOOLEAN]
  /\ rpc \in [Conns -> {"none", "created", "read", "push", "stopping"}]
  /\ wpc \in [Conns -> {"none", "select", "write", "done"}]
  /\ stop \in [Stoppers -> StopLabels]
  /\ spc \in [Senders -> {"none", "held", "queued", "check", "send", "done"}]
  /\ reqChan \in [Workers -> Seq(Senders)]

\* The dictionary never holds more than MaxConnNum connections, counting the
\* one between the unlocked test of GetConnNum in the accept loop and its
\* AddConn, however closing connections interleave with it.
ConnNumBound ==
  /\ GetConnNum <= MaxConnNum
  /\ apc = "add" => GetConnNum < MaxConnNum

\* The accept loop holds a socket that AcceptTCP returned and that it has not
\* yet admitted.
Unadmitted == IF apc \in {"test", "refuse"} THEN 1 ELSE 0

\* Until shutdown begins the server has at most MaxConnNum open client
\* sockets, and one more only while the accept loop holds a socket it has not
\* yet admitted: counting the dictionary counts the sockets, because Stop
\* closes the socket before DelConn.
OpenSocketBound ==
  (NoWrap /\ mpc \in {"wait", "lock"}) =>
    Cardinality({c \in Conns : sock[c] = "open"}) <= MaxConnNum + Unadmitted

\* Until shutdown begins a connection whose socket is open and that has been
\* constructed is the one GetConnById finds under its id: DelAllConn, which
\* walks the dictionary, can reach it.
RegisteredById ==
  (NoWrap /\ mpc \in {"wait", "lock"}) =>
    \A c \in Conns : (sock[c] = "open" /\ rpc[c] # "none") => connDict[IdOf(c)] = c

\* Stop never closes a channel twice and never sends on a closed ClosedChan,
\* although its test of isClosed is not synchronised and the reader and
\* DelAllConn may both pass it.
ChannelsClosedOnce == proc # "panic_close"

\* With a worker pool the handlers of one connection run one at a time and in
\* the order in which the requests were received: when the handler of a
\* request has been reached, those of all earlier requests have returned.
HandledInOrder ==
  WorkerPoolSize > 0 =>
    \A s, t \in Senders :
      /\ s[1] = t[1] /\ 0 < s[2] /\ s[2] < t[2]
      /\ spc[t] \in {"check", "send", "done"}
      => spc[s] = "done"

\* Reader, writer and every SendPacket call of the connection have returned.
TornDown(c) ==
  /\ stop[c] = "done"
  /\ wpc[c] = "done"
  /\ \A n \in 0 .. MaxMsgs : spc[<<c, n>>] \in {"none", "done"}

\* A client that has gone costs nothing for ever: its connection is torn down,
\* goroutines included, unless the process ends or shutdown has begun.
GoneIsTornDown ==
  \A c \in Conns :
    peer[c] = "gone" ~> (TornDown(c) \/ proc # "running" \/ mpc # "wait")

\* SendPacket on a connection that is being stopped returns an error and never
\* sends on the closed PacketChan.
SendOnClosedIsError == proc # "panic_send"

\* On a signal DelAllConn stops and removes every connection and the process
\* ends.
ShutdownCompletes == mpc = "lock" ~> proc # "running"

\* The worker of a queue handles the requests in it, once no client can hold
\* it up any more.
QueueIsServed ==
  \A s \in Senders :
    (spc[s] = "queued" /\ \A c \in Conns : peer[c] = "gone")
      ~> (spc[s] # "queued" \/ proc # "running" \/ mpc # "wait")
=============================================================================
