# A TLA+ model of the concurrent parts of this repository

The repository collects several small systems. This directory models those
whose correctness depends on the order of events: the TCP server framework
`go-server` with its serializer; in `6.5840/src` the simulated network `labrpc`,
the test harnesses of the Raft, kvraft and shardkv labs, the clerks, the judges
the tests use, and the linearizability checker `porcupine`; the user service
`go-proj`; the Go programs of `cpp-socket`; and the producer of `go-kafka`.

Everything is translated from the code. `PROJECT.json` gives, for every
definition, the lines it stands for, and lists the runs, the mutants that show
that each property can fail, the findings, the hazards and the theorems.

## 1. Inventory

### go-server/gnet: TCP server framework (modelled: `Gnet`)

* **State.** `ConnMan.connDict` under `rwLock`; per connection the socket,
  `isClosed`, `ClosedChan` (capacity 1), `PacketChan` (unbuffered); one queue
  `ReqChanArr[w]` per worker; `connId`, a `uint32`.
* **Goroutines.** main (waits for SIGINT/SIGTERM, then `DelAllConn`), the accept
  loop, per connection a reader, a writer and the goroutine of `Conn.Start` with
  the hook, `WorkerPoolSize` workers, or without a pool one goroutine per request.
* **Interactions.** The reader pushes requests to a worker chosen by id modulo
  pool size; handlers call `SendPacket`, which hands the packet to the writer;
  the reader's deferred `Stop`, or `DelAllConn`, closes the socket, notifies the
  writer, leaves the dictionary and closes both channels.
* **Hard.** `isClosed` and the number of connections are read without a lock; a
  closed channel panics a sender; every goroutine can block on every other one.
* **Correct means.** The connection limit holds for the dictionary, and for open
  sockets but for the one the accept loop has not judged yet; a live connection can be found by its id; channels are closed once;
  requests of a connection are handled in order; a client that goes away leaves
  no goroutine behind; shutdown ends.

### 6.5840/src/labrpc: simulated network (modelled: `LabRpc`)

* **State.** End-points, which are enabled, end-point to server name, server
  name to server object, `reliable`, `done`.
* **Operations.** `Call`, `processReq` and its handler goroutine, `MakeEnd`,
  `Connect`, `Enable`, `AddServer`, `DeleteServer`, `Reliable`, `Cleanup`.
* **Hard.** A call looks its server up once, then waits for a handler while the
  tester deletes and replaces servers; replies race the 100 ms poll and `Cleanup`.
* **Correct means.** A call returns unless its handler does not; a positive reply
  is never given for a server that has been superseded.

### 6.5840/src/{raft,kvraft,shardkv}/config.go: test harnesses (partly: `RaftHarness`, `KvHarness`, `ShardHarness`)

* **State.** Instances of each server, the end-points of each instance, of the
  clerks and (shardkv) those servers make themselves, `connected` or the last
  partition, `saved` (the Persister for the next instance).
* **Operations.** `crash1`, `start1`, `connect`, `disconnect`, `cleanup`;
  `make_partition`, `partition`, `ConnectAll`, `ShutdownServer`, `StartServer`,
  `makeClient`, `deleteClient`; groups, controllers, `make_end`, `join`, `leave`.
* **Hard.** An instance cannot be killed: the old one goes on calling, handling
  and saving while the new one is set up, step by step.
* **Correct means.** What was acknowledged is in the state the next instance is
  given; Raft state and snapshot are of one save; an instance that was shut down
  reaches nobody (in shardkv: over the ends `StartServer` gave it); servers reach each other exactly as the tester was told.

### 6.5840/src/raft/config.go: the judges of the tests (`RaftOracle`, `LeaderCheck`)

* **State.** `logs`, `lastApplied`, `maxIndex` of the tester, the applier
  goroutine of every instance; the answers a check has collected so far.
* **Operations.** `applier`, `applierSnap`, `checkLogs`, `ingestSnap`,
  `nCommitted`, `wait`, `one`; `checkOneLeader`, `checkTerms`, `checkNoLeader`.
* **Hard.** The appliers of a killed and of the current instance share `logs[i]`;
  counts and answers are collected server by server while Raft goes on.
* **Correct means.** A Raft that commits two commands at one index or skips one is
  noticed; a correct Raft is not failed unless the harness itself races; an answer is
  true of some moment.

### 6.5840/src/{shardkv,shardctrler}/client.go: clerks (`ShardClerk`)

* **State.** The cached configuration, the operation, the server it tries.
* **Hard.** A call that returned false may have been handled, or be handled
  later; the configuration is stale; leaders change.
* **Correct means.** Appends take effect in order, a read is not older than its
  call, configurations do not go back, an operation returns in the end.

### 6.5840/src/main/mrsequential.go, mrapps (`MrSequential`, `NParallel`)

* **Hard.** An unstable sort and a range over a Go map; files of processes that
  start, end or are killed while another one counts them.
* **Correct means.** The output is a function of the input; the counts that
  `test-mr.sh` takes for parallelism miss no overlap and invent none.

### 6.5840/src/porcupine and models/kv.go (`CheckSingle`, `CheckParallel`)

* **State.** A doubly linked list of entries, the stack of lifted calls, the
  cache, `longest`; one goroutine per partition, a result channel, `kill`.
* **Hard.** Lists restored by unlifting in stack order, pruning by the cache,
  ties in time; goroutines killed while their answer is pending.
* **Correct means.** The answer is linearizability; the search ends; the partial
  linearizations are the longest; the verdict over all partitions is right.

### go-server/gnet/msg_serializer.go (`Packet`)

* **State.** The stream of bytes, the head that was read, the mode.
* **Correct means.** What is unpacked is what was packed, wherever the stream ends
  and however reads split it; the reader stops at an oversize message only.

### go-proj: user service (`UserService`)

* **State.** The `users` table (soft delete), the token and the user information
  in Redis with their time to live, the requests under way, the server.
* **Operations.** Login, the five user operations, the `Authorize` middleware,
  start and graceful shutdown. A step is one query or one Redis command.
* **Hard.** Every request is several steps on state that others change.
* **Correct means.** The last login's token is the one stored; a deleted user stays
  deleted, except where an update had already read it.

### cpp-socket, the Go programs (`Echo`, `UdpEcho`, `HalfClose`, `Chat`, `SharedSum`)

* **Hard.** Reads that return part of a stream or parts of two lines; datagrams
  lost, copied, reordered or sent by a stranger; descriptors that share a stream; a mutex held while a
  write blocks; a sum without a lock.
* **Correct means.** No byte that was sent is lost or mixed up; a client that quits is forgotten;
  programs end; racing sums stay within their bounds and locked ones are exact.

### go-kafka/src/async.go (`AsyncProducer`)

* **Hard.** A send that gives up after 10 ms, two goroutines that count, a
  WaitGroup for them.
* **Correct means.** Every message is counted once.

### Not modelled

`PROJECT.json` lists every part with its reason. In short: stubs of the course
(the servers of raft, kvraft, shardctrler, shardkv and mr: they are the code under
test, and the models let them do anything or assume the contract of the lab),
wrappers and I/O (labgob, gzlib, visualization, go-redis, java-kafka), exercises
without a system (go-leetcode, go-design-pattern, java-func, the three
-concurrent directories), C++ versions of the socket programs, user interfaces
(ts-*), and the article service java-proj, whose requests are single SQL
statements.

## 2. Modules

| module | of | models |
|---|---|---|
| `Gnet` | go-server | the whole server, one group of actions per goroutine |
| `Packet` | msg_serializer.go, conn.go | Pack, Unpack and the reader, digit by digit |
| `LabRpc` | labrpc.go | calls and the network; also usable on its own |
| `RaftHarness` | raft/config.go, persister.go | the harness, over `LabRpc` |
| `KvHarness` | kvraft/config.go | partitions, clerks, restarts, over `LabRpc` |
| `ShardHarness` | shardkv/config.go | groups, controllers, restarts, over `LabRpc` |
| `ShardClerk` | shardkv/client.go, shardctrler/client.go | the retry loops, with an external service |
| `HarnessProofs` | | theorems about `RaftHarness`, `KvHarness`, `ShardHarness`, `ShardClerk` |
| `RaftOracle` | raft/config.go | appliers, nCommitted, one, wait, with any or a correct Raft |
| `LeaderCheck` | raft/config.go | the three checks, with elections of a correct Raft |
| `MrSequential`, `NParallel` | mrsequential.go, mrapps | the reference output; the counts |
| `CheckSingle` | checker.go, models/kv.go | one search, with linearizability as reference |
| `CheckSingleProofs` | | theorems about `CheckSingle` |
| `CheckParallel` | checker.go | the goroutines over all partitions |
| `JudgeProofs` | | theorems about `CheckParallel`, `RaftOracle`, `LeaderCheck`, `NParallel` |
| `UserService` | go-proj | requests, middleware, shutdown |
| `Echo`, `UdpEcho`, `HalfClose`, `Chat`, `SharedSum` | cpp-socket | one program family each |
| `AsyncProducer` | go-kafka/src/async.go | the send loop and the counters |
| `ServerProofs` | | theorems about `Gnet`, `UserService`, `Chat`, `Echo`, `UdpEcho`, `HalfClose`, `SharedSum`, `AsyncProducer` |

The harnesses are composed with the network: `RaftHarness`, `KvHarness` and
`ShardHarness` use the actions of `LabRpc`, so a call is interleaved with every
step of the tester.

Four modules hold the configurations that are checked together. Each instantiates
component modules with values for their constants, and a variable `config`,
chosen initially and never changed, says which of them the behaviour is one of;
variables of the others do not change. A property of such a module says, for each
configuration, which properties of the component it stands for.

| module | configurations |
|---|---|
| `MCHarness` | `RaftHarness`, `KvHarness` (two), `ShardHarness` (two), `ShardClerk` (two) |
| `MCOracle` | `RaftOracle` (three), `LeaderCheck`, `MrSequential`, `NParallel` |
| `MCServices` | `UserService` (two), `Chat` (two), `Packet`, `Gnet` with ids that wrap |
| `MCPrograms` | `LabRpc`, `ShardClerk`, `Echo` (two), `UdpEcho` (two), `HalfClose` (two), `Chat`, `SharedSum` (three), `AsyncProducer`; with their fairness |

`MCHarnessProofs`, `MCOracleProofs`, `MCServicesProofs` and `MCProgramsProofs` carry
the theorems about the components over to the composition.

How the models correspond to the code:

* **`Gnet`.** The accept loop is four steps: `AcceptTCP` returns an open socket, the
  test reads the number of connections, and the socket is closed (`Refuse`) or made
  a connection (`AddConn`). A channel operation or lock that may block is an action whose guard
  is false while it blocks. The unbuffered `PacketChan` is a rendezvous: a sender
  in `"send"` and a writer in `"select"` step together (`WriterRecv`). `Conn.Stop`
  is one action per statement that others can observe, parameterised by the
  caller: the reader of the connection, or `Main` for `DelAllConn`. A panic sets
  `proc` and ends every goroutine. The unlocked reads of `isClosed` and
  `connDict` see the current value: the actions around them interleave freely.
  Write locks in `AddConn` and `DelConn` cover one step and are not variables;
  `connLock` is the one `DelAllConn` holds over many.
  Clients (external) send bound, unbound or oversize messages, read, or leave.
  The kernel buffer towards a client is a counter, so a write can block.
* **`LabRpc`.** Sleeps and timers are steps that may come at any later time, so
  delays and reordering are interleavings, and `longDelays` and `longReordering`
  add nothing. Randomised losses are nondeterministic choices. A handler may
  never return.
* **`RaftHarness`.** A Persister is the set of updates in its Raft state and in
  its snapshot. The instance under test is external: it calls through its own
  end-points at any time, killed or not, and its handler saves the update it is
  asked for and returns, the situation the comment in `processReq` is about.
  Each `Enable`, `DeleteServer`, `Copy`, `Kill` and read of the Persister
  is a step of its own.
* **`CheckSingle`.** One step is one iteration of the loop. The list keeps its
  `next` and `prev` pointers, and `Lift` and `Unlift` are the pointer assignments
  of the code. `makeEntries` and `makeLinkedEntries` are one loop, which takes
  any entry that no other is later than. Strings are sequences of values. The
  bitset is the set of its ids (its hash only spreads the cache).
  `computePartial` is on: without it `longest` is not written on backtracking.
* **`KvHarness`, `ShardHarness`.** As `RaftHarness`: each `Enable`, `DeleteServer`
  and copy of a Persister is a step. `ShutdownServer` of kvraft disconnects
  without the lock, so its loop is interleaved. The code under test is external.
* **`ShardClerk`.** A call is handled, answered or lost at any time, and a request
  given up may be handled later. The service is external and does what the lab
  asks for, but an append is applied as often as it arrives: the clerk sends no
  identity, so duplicates are visible, and only first effects are ordered.
* **`RaftOracle`.** `Correct` says whether the Raft under test applies one agreed
  log in order or anything at all. Each critical section of an applier, and each
  server's turn in `nCommitted`, is a step. `applier` records an entry and unlocks
  before `log.Fatalf`, so a wrong entry is in `logs` for a while before the run fails
  (`Apply`, `Fatal`); the checks go on in between. `stale` remembers that a server was
  started while `applierSnap` of its predecessor was still handling a command.
* **`LeaderCheck`.** Raft is its terms, votes and who leads; a majority elects.
* **`UserService`.** A request is a record of where it is and what it has read.
  Redis expires keys when the clock ticks. Gorm's `Save` of a row that is no longer
  live inserts it again. Which rows a page holds is left out: the query has no
  ORDER BY. The life of a JWT is computed with the
  code's multiplications modulo the width of a Duration.
* **`Packet`.** Bytes are digits of a small base and numbers have a small width;
  little-endian order and the limit are those of the code.
* **Socket programs.** A stream is a number of bytes, or a sequence where content
  matters; a Read returns any part of what has arrived; a Write blocks on a full
  socket. A datagram is the client's address, whose bytes it carries, its line and its
  length; a stranger may send one to an unconnected client. The file server sends what
  its loop sends: a file longer than bufio's buffer is cut there. The chat server ends
  when `Accept` fails or its array overflows.
* **`SharedSum`.** `sum += i` without a lock is a load and a store.
* **`CheckParallel`.** A goroutine answers what `CheckSingle` shows it answers.

## 3. Runs

| run | bounds | result |
|---|---|---|
| `gnet_pool` | 2 connections, limit 1, 1 worker, queue 1, 2 messages | pass |
| `gnet_live` | no pool, hook, every kind of message | pass |
| `gnet_send` | | violation: send on closed `PacketChan` |
| `gnet_shutdown` | | violation: `DelAllConn` waits for itself |
| `gnet_queue` | | violation: worker and reader wait for each other |
| `lab_harness` | raft: 2 servers, 2 instances each, 1 call; kvraft: 5 servers without calls, 1 server with 3 instances and a call; shardkv: groups of 1 and 2 servers; clerks: 2 operations, 3 configurations or an election | pass |
| `lab_oracle` | 3 servers of any Raft, 2 of a correct one with restarts, without and with snapshots, 2 indices; 4 terms; 2 files of 2 words; 2 workers with 3 tasks | pass |
| `check_single` | histories of up to 3 operations, 3 instants, 1 value | pass |
| `check_parallel` | 3 partitions | pass |
| `check_parallel_empty` | no partition | violation: the call never returns |
| `services` | 2 requests, 2 ticks or 2 rows; 2 chat clients with 2 bytes each, or 3 that only come and go, an array of 2; 2 packets of every content of up to 3 digits with a limit of 2; 2 connections with one id | pass |
| `programs` | 1 call, 1 operation; lines of up to 3 bytes through buffers of 2; 2 UDP clients with 2 rounds; files of up to 13 bytes through a bufio buffer of 12; 5 additions each | pass |

**What they show.**

* `gnet_pool`: `ConnNumBound`, `OpenSocketBound` and `RegisteredById` relate the
  unlocked test in the accept loop, the dictionary and the sockets. The sockets are
  one more than the limit while the accept loop holds one that it has not admitted
  (server.go:68 to :77), and then only. One
  connection beyond the limit is enough to make accept, teardown and shutdown
  compete. `HandledInOrder` needs two messages of one connection and a worker;
  with a queue of one the reader blocks in it.
* `gnet_live`: `GoneIsTornDown` under fairness: reader, writer and blocked
  senders of a client that has gone all return, one woken by another. It needs
  the pool to be off; with a pool `gnet_queue` shows the circular wait.
* `lab_harness`: `AckedSurvives`, `DeadIsSilent` and `PersistersApart` are the
  promise of a crash, in the three labs' versions of it. Two instances of a server
  make every mixture of old and new; the second crash of a restarted server is
  within the bound. `AckedSurvives` fails without the second `isServerDead` of
  `processReq`, `PersistersApart` without the first `Copy` of `crash1`,
  `DeadIsSilent` if only incoming ends were disabled. `ConnectedAsTold` needs five
  servers: with three, a minority is a single server. `OperationsInOrder` and
  `ConfigMonotonic` hold of the clerks through stale configurations, late
  requests and a new leader.
* `lab_oracle`: `WrongIsNoticed` is checked against a Raft that applies anything,
  `NoFalseAlarm` against one that is correct; together they say what a green or a
  red test means. Both have an exception that is the code's: an agreement that `one`
  reports may rest on an entry that was overwritten a moment ago, if the applier that
  did it has not yet come to its `log.Fatalf`; and a correct Raft can be failed when a
  server is started while `applierSnap` of its last instance is still handling a
  command. The configuration `Snaps` has restarts and snapshots together: without such
  a start no interleaving raises an alarm. `LeaderAnswers` says in which sense the answer of a scan over
  servers is true: for `checkTerms`, that the term it returns was not yet exceeded
  when it began and reached everywhere when it ended. There need be no moment at
  which all servers had it.
* `services`: `UsersServed`, `ChatDelivers`, `Framing` for their clients under
  every interleaving. `UsersServed` is `LastLoginWins`, which holds because `Expire`
  renews the key whatever it holds and writes no token, and `DeleteIsFinal`: a row
  deleted while no `UpdateUser` stands between its read and its `Save` stays deleted.
  A raw Read of `Framing` may take the end of one packet and the start of the next.
  `OrderedThoughIdsWrap`: the code has 2^32 ids, the model one, so
  the second connection overwrites the entry of the first. `OpenSocketBound` and
  `RegisteredById` of `gnet_pool` say `NoWrap`: they are about servers that have
  not accepted 2^32 connections; closing and order survive the wrap.
* `programs`: `StreamsKept` and `SumsBounded` while the programs run. `StreamsKept`
  says that what the file server sends arrives, all of a file that fits the buffer of
  bufio and the first buffer of a longer one (the server reads 30 bytes at a time, which
  do not divide 4096); and that a
  UDP client prints only its own lines, or, on an unconnected socket, what a stranger
  sent to its port (the sums have
  the numbers of the code, 1 .. 5 and 6 .. 10, of which at least 11 and at most 55
  is printed), and `Returns` under fairness. Its clause for labrpc is the promise
  of the header of labrpc.go, with its exception made precise: a call waits for
  ever only if again and again its handler is still running on a server that is
  alive. The clause for TCP echo admits that lines longer than the buffer leave
  rests behind until both sockets are full; that for UDP needs a network that
  loses nothing, since the clients read without a deadline.
* `check_single`: three operations are the least for which a backtrack over a
  lifted operation, a cache hit with equal and with different states, and an
  operation between two others occur; three instants give overlap, precedence,
  chains and ties. Histories are numbered by time, one numbering for each.
  `AnswerIsLinearizability` compares the search with a definition that
  quantifies over all orders and shares nothing with it but the history.
* `check_parallel`: three partitions give an answer received, one in the channel
  and one still being computed.

**Findings.** The four violations are disagreements with a comment of the code,
quoted in `PROJECT.json`: a send on a connection being stopped panics instead of
returning its error; shutdown with a connection open deadlocks; a worker whose
client has left can block for ever and with it every connection it serves; the
linearizability check of a history without operations does not return.

**Observations.** Met while modelling, and left without a run of their own:

* `go-proj/src/service/user_service.go:70` looks a username up and inserts it in two
  queries without a unique index, so two requests can both insert it.
* `go-proj/src/dao/common_dao.go:13` computes the offset from the limit before the
  default replaces a missing one, so without a limit every page is the first, although
  `dto/common_dto.go:11` describes pages that follow each other; and the query asks for
  no order, so that rows may move between pages. Nothing is claimed of pages.
* `go-proj/src/util/jwt.go:27` multiplies by `time.Second` twice, so a JWT outlives
  the 60 s of `settings.yml`; sessions end by the key in Redis instead.
* `go-proj/src/dao/user_dao.go:97`: an update that read its row before the row was
  deleted saves it again, without its deletion mark. `DeleteIsFinal` excepts this.
* `6.5840/src/shardkv/config.go:252`: ends that an instance got from `make_end` lead to
  every joined group, its own included, are in no table, and stay enabled when it is
  shut down, although `config.go:162` says "prevent this server from sending".
  `DeadIsSilent` is about the ends `StartServer` made, and `AckedSurvives` and
  `PersistersApart` hold although the others stay open.
* `6.5840/src/raft/config.go:241`: `applierSnap` of a killed instance may write
  `lastApplied[i]` after `start1` has reset it, if it was handling a command when the
  server was started again; the restarted instance's first entry is then reported out
  of order. `NoFalseAlarm` excepts exactly this (`stale`).
* `6.5840/src/raft/config.go:168` to `:173`: see `AgreedIsCommitted` above.
* `cpp-socket/ch07/go/server/file_server.go:53` takes a short count for the end of the
  file, also where bufio's buffer of 4096 bytes ends: longer files are cut off there.
* `cpp-socket/ch06/go/udp_client/udp_client.go:48` discards the address `ReadFrom`
  returns: what anybody sends to its port is printed as "Echo from server".
* `cpp-socket/ch16/go/server1/server1.go:40` closes one of three descriptors of its
  socket, which ends no stream: server1 and its client wait for each other. It is
  therefore not among the programs of `Returns`.
* `go-kafka/src/async.go:75` waits for loops that end only when the producer is
  closed, which is deferred to after the wait: "Done!" is not printed.

`CHECK_DEADLOCK FALSE` is set where the system may stop: a process that ends or
panics, a test that is over, a checker that has answered. For `Gnet` deadlock is
instead asked about by the liveness properties.

## 4. Fairness

* `Gnet` (`FairSpec`): every goroutine that can run is scheduled, which the Go
  runtime guarantees. Nothing is assumed of clients, of new connections, or of
  the signal. Fairness is weak: the choice in the writer's `select` is never
  assumed to be fair to one case.
* `LabRpc`: the network goroutine and `processReq` are scheduled and timers
  fire. Handlers and the tester owe nothing.
* `ShardClerk`: a clerk goes on, a request that is made to one server again and
  again gets through sometime (labrpc loses at random), and the group of the
  latest configuration is given the shard.
* `Echo`, `UdpEcho`, `HalfClose`, `AsyncProducer`: processes and goroutines run, TCP
  delivers; users type or not, and nothing makes the garbage collector run. For
  `UdpEcho` only where the network loses nothing.
* `Chat`: goroutines run, and a `sync.Mutex` starves nobody (strong fairness of
  taking it), which Go's mutex guarantees by its starvation mode.
* `SharedSum`: the same, for goroutine4.
* In `MCPrograms` the fairness of a behaviour is that of its program; the
  configurations that are about safety only have none.
* `CheckSingle`: the searching goroutine is scheduled. `CheckParallel`: so is
  every goroutine; the timer may fire arbitrarily late.

## 5. Proofs

All theorems are checked by TLAPS, for every value of the constants within named
assumptions: configuration values and bounds are naturals (some positive),
queues have capacity, sets that are counted are finite, `Nil` and `None` are no
names or commands. `Gnet`,
`CheckSingle` and `CheckParallel` state them as ASSUMEs; the components of the
composed modules define theirs (`HarnessAssumption`, `KvHarnessAssumption`,
`ShardHarnessAssumption`, `ShardClerkAssumption`, `OracleAssumption`,
`LeaderAssumption`, `TasksAssumption`, `ServiceAssumption`, `SizesAssumption` of `Chat`
and of `HalfClose`, `EchoAssumption`, `UdpAssumption`, `SumAssumption`), the theorems have
them as hypotheses, and the ASSUME `Configured` of each MC module instantiates them, so
that TLC evaluates them in the runs.

**Gnet** (`ServerProofs`): every safety invariant of `gnet_pool`.

* `TypeCorrect`: `TypeOK`, strengthened by `Bounded`: the accept goroutine that holds
  a socket has a place for it, and a client sends at most
  `MaxMsgs`.
* `NoDoubleClose`: `ChannelsClosedOnce`. The argument is `CloseInv`: `DelAllConn`
  holds the lock while it stops a connection (`LockHeld`), and `DelConn` needs
  it, so a `Stop` called by main never reaches the closes (the self-deadlock of
  shutdown is what prevents a double close); hence whoever is at or past a close
  is the reader of that connection (`ReaderCloses`), and there is one. The
  mutant of this property, `DelConn` without the lock, is the obvious repair of
  the deadlock, and it introduces the panic.
* `ConnLimit`: `ConnNumBound`, although the test is unlocked. `LimitInv` says that
  between test and `AddConn` there is still room; `CountStep` bounds what one step
  does to the size of the dictionary; only the accept loop adds an entry.
* `OpenIsRegistered` and `SocketLimit`: `RegisteredById` and `OpenSocketBound`.
  `RegistryInv` adds to `CloseInv` that a connection past `StopCloseSocket` has a
  closed socket (`SockInv`), so `DelConn` takes no entry of an open one; open
  sockets then map injectively into the dictionary, but for the one that the accept
  loop holds; when the loop has decided to add it there is room for it in the limit,
  before that it is the one socket more.
* `RequestsInOrder`: `HandledInOrder`. `OrderInv` follows a request from the reader
  through the queue to the worker: the reader at the push holds the last request
  it received and no other (`PushHolds`, `RequestStages`), and a worker's queue has
  exactly the queued requests of its connections, those of one connection in
  increasing order (`QueueOrder`).

**Porcupine** (`CheckSingleProofs`, `JudgeProofs`): every safety invariant of
`check_single` and `check_parallel`, for histories of any length.

* `ListInvariant`, with `SearchTypes` and `ListHoldsTheRest`: there is one order of
  the entries (a place in the integers for each, no two alike, that respects time:
  what the sort chose among ties), and the list links exactly the entries that are not
  linearized, in that order; every frame of the stack restores the list as it was
  (`ListInv`). The pointer assignments of `lift` and `unlift` are shown to remove
  and reinsert one operation in it.
* `AnswerInvariant`, with `StackLinearizes`, `AnswerIsCorrect` and `LongestIsRecorded`:
  `AnswerInv` says that the stack is a partial linearization whose configurations
  (a set of operations and a state) are in the cache (`Cached`); that at every level
  of the stack each call already passed has been tried (`Tried`); and that every
  configuration in the cache that is not on the stack was given up for a reason
  (`Explored`): some operation is left, everything that may be linearized before
  it was taken, to a configuration that is in the cache too (`Exhausted`), and
  `longest` has a partial linearization at least as long. With the stack empty
  the initial configuration is exhausted as well, and a linearization would have
  to leave the exhausted configurations at some step, which none allows.
* `VerdictSound`, `LongestSafe` (and `ParallelTypes`): `VerdictIsRight` and
  `NoRaceOnLongest`. The invariant is `Inv`: results received and in the channel
  are as many as goroutines that have ended (`Accounting`); nobody is killed before
  the loop is left, so what the loop receives is true (`Honest`); an illegal
  partition that has been reported is visible in `ok` or in the channel
  (`Reported`). That a goroutine's answer is right is `AnswerIsCorrect`.

**Harness** (`HarnessProofs`): the properties that `MCHarness` checks of the three
harnesses and of the clerks, for any number of servers, instances and calls over the
network of `LabRpc`.

* `AcknowledgedSurvives` and `SavesAreWhole`: `AckedSurvives` and `SavedInSync`.
  `DiskInv` says that the instance that is registered under a name is the last one
  and saves into `cfg.saved` (`Registered`; from `DeleteServer` to `AddServer` none
  is), that while `crash1` reads the copied Persister no instance has it
  (`Private`), that Raft state and snapshot of every Persister agree (`InSync`),
  and that the update of a handler that returned is in its instance's Persister
  (`CallsInv`). So a reply that finds its server registered after the handler's
  return has its update in `cfg.saved`; later Persisters only add to it.
* `KilledIsSilent`: `CrashedIsSilent`. `SilentInv`: the ends of an instance are all
  disabled before `Kill` (`Cut`), and a connected server has a running instance
  (`Alive`), so `connect` enables no end of a killed one.
* `HarnessTypes`: the types, which a handler's save needs `DiskInv` for.
* kvraft (`KvInv`): `KvTypeOK`, `KvAckedSurvives`, `KvDeadIsSilent` as above, although the
  ends of clerks stay enabled through `ShutdownServer`. `KvPartitionHolds` and
  `KvLeaderInMinority`: after the loops of `partition` the ends between current
  instances are those within a side (`KvCut`), for any sequence of partitions.
* shardkv (`ShInv`): `ShTypeOK`, `ShAckedSurvives`, `ShPersistersApart`,
  `ShGroupConnected`, and `ShSilentOnStartEnds`: the ends in `endnames` and `mendnames`
  are disabled before `Kill` and nothing enables them again, so a call made over one
  of them afterwards never gets to a server (`ShLate`). Ends made with `make_end` are outside of it.
* The clerks (`ClerkInv`): `ClerkTyped`; `ReadsInInterval`, since a reply is the value
  at a moment within the call (`OpInv`); `AppendsKeepOrder`, since a request that was
  given up is of the clerk's current append or of one that is in the value already
  (`FloatInv`); `ConfigsMonotonic`, an action property.
* `UpdatesSurvive`, `PersistersAreOwn`, `DeadAreSilent`, `ReachedAsTold`,
  `ClerksInOrder`, `HarnessesTyped`, `ConfigsNeverGoBack` (`MCHarnessProofs`): the
  properties of the run `lab_harness`.

**Judges** (`JudgeProofs`).

* `DisagreementIsNoticed`, `GapIsNoticed`, `AgreementIsReal`, of any Raft: `NoticeInv`.
  While the run goes on and no applier has an error to report (`Calm`), there has been
  no wrong entry: `applier` compares under the lock in which it records, and an applier
  with an error stays at its `log.Fatalf` (`Plain`). An entry once in a log then stays
  there, so what `nCommitted` counted on the way is still there at the end
  (`CountIsHeld`). The hypothesis is `~Snapshots`: `ingestSnap` replaces a log by a
  snapshot without comparing it, so with `applierSnap` and a wrong Raft these
  statements are false.
* `CorrectIsNotFailed`, of a correct Raft, with snapshots and restarts: `Trusted`, which
  is `CorrectInv` until a server is started over an applier that still works on a
  command. Everything recorded is of one log (`OneLog`), and a server has what its
  instance has applied (`AppliedPlain`; with snapshots `AppliedSnap`, one clause per
  place of the loop of `applierSnap`).
* `OneLeaderPerTerm`: votes of a term are cast once and two majorities meet
  (`QuorumsMeet`); every leader, now or seen earlier in the scan, has a majority that
  voted in its term or a later one, so a term has one leader (`ElectionInv`). `LatestLeaderIsReturned`,
  `TermsAreBracketed`, `NoLeaderStays`: what the answers so far say of the servers
  asked, and that terms only grow.
* `OverlapSeen`, `OnlyParallelCounted`: of two workers in their calls the one that
  read the directory later read the other's file (`LaterSeesBoth`).
* `AnyRaftIsJudged`, `CorrectRaftPasses`, `LeaderChecksAnswer`,
  `ParallelismIsMeasured` (`MCOracleProofs`): the properties of the run `lab_oracle`. A
  behaviour of `MCOracle` keeps `config` and is a behaviour of that component, so
  the theorems above apply to it.

**Services and programs** (`ServerProofs`), for all sizes of buffers and sockets and any
number of clients and requests.

* Chat (`ChatInv`): `ChatTyped`; `ArrayHoldsConnected`, where a removal shifts the
  entries behind it (`ChatArray`); `BroadcastsDelivered`, where inside a broadcast the
  entries before the index are one buffer ahead of the others (`ChatStreams`);
  `SendersInOrder` (`ChatSenders`).
* User service: `UserTyped` and `LoginsWin` (`UserInv`); `DeletesAreFinal` (`UserRows`: ids
  are given out in order, so an insert takes none that was deleted, an update saves
  only a row that was there, and of a buried row no update is under way).
* Echo (`EchoInv`): `EchoTyped`, `EveryByteEchoed`; with lines within the buffers
  (`ShortLines`) a line is in one place at a time (`OnePlace`), hence `LinesInStep`.
* UDP echo (`UdpInv`): `UdpTyped`, `EchoIsOwn`; `UdpInStep`, since until the network copies
  a datagram or a stranger sends one a client has at most one under way (`UdpOne`).
* Half close (`HalfInv`): `HalfTyped`, `FileArrives` for files of any length (`HalfRest`
  follows what bufio has left to give), `ThanksArrive`.
* Shared sums: `WaitGroupCounts` (`SumInv`); `RaceLosesBounded` for the two goroutines and
  five rounds of the program (`RaceInv`), `SidesHold` (`SidesInv`) and `MutexIsExact`
  (`LockedInv`) for any number of rounds.
* Producer: `MessagesAccounted` (`AsyncInv`).
* `WrapKeepsOrder`, `ChatIsDelivered`, `UsersAreServed` (`MCServicesProofs`),
  `StreamsAreKept`, `SumsAreBounded` (`MCProgramsProofs`): the properties of the runs
  `services` and `programs`.

The inductive invariants hold under TLC too, in the configurations of the runs,
but for those of `CheckSingle`: the order of the entries is quantified over all
functions into the integers, which TLC cannot enumerate. Induction over sequences is done where it is needed by the least counterexample: the library
proves that the naturals are well-founded, and `LeastNat` and `UpTo` of
`CheckSingleProofs` state this as an induction rule over sets, which the provers can
instantiate.

**Only model-checked.** Every liveness property (`GoneIsTornDown`, `SearchEnds`,
`WorkersEnd`, `CheckReturns`, `Returns`), which is out of reach of the prover. `TypeOK` and
`OutputIsExpected` of `MCOracle`, `TypeOK` and `Framing` of `MCServices`: the output of
`MrSequential` and the digits of `Packet` are defined with folds and sorting operators
about which the library has no theorems. `TypeOK` of `MCPrograms`, as composed.

## 6. Bounds

Every bound is a CONSTANT named in its module, and the values are in the `.cfg`
files or, for the composed runs, in the INSTANCE of the configuration.
`MaxAccepts`, `MaxMsgs`, `SockBuf` (`Gnet`); `Calls` (`LabRpc`); `MaxGen`,
`MaxDisks` (harnesses); `MaxOps`, `MaxConfigs`, `MaxElections`, `MaxStore`,
`MaxFloating` (`ShardClerk`); `MaxIndex`, `MaxGen` (`RaftOracle`); `MaxTerm`,
`MaxIters` (`LeaderCheck`); `MaxWords`, `MaxTasks` (MapReduce); `MaxOps`, `MaxTime`,
`MaxOutput` (`CheckSingle`); `MaxId`, `MaxTime` (`UserService`); `MaxData`, `MaxSent`
(`Packet`); `MaxSend`, `SockCap` (`Chat`); `MaxLine`, `SockCap` (`Echo`); `MaxRounds`
and one copy or stray datagram (`UdpEcho`); `MaxLen` (`HalfClose`). Sizes the code fixes are constants too
(`BUF_SIZE`, `CLIENT_CAP`, the buffer of bufio, `IdSpace` = 2^32, the digits of a
uint32) and small, which makes the cases at their limits reachable: a line longer
than the buffer, a file longer than bufio's, an array that is full, an id that wraps, a length that overflows.

## 7. Plan

Done: all modules of section 2 and the proofs of section 5. Left, in this order:

1. **Refinement.** An abstract specification of the request pipeline of gnet (a
   FIFO per connection, handled once and in order), implemented by `Gnet`;
   `OrderInv` is the invariant it needs.
2. **Porcupine, continued.** Histories of events (`renumber`, `convertEntries`),
   and partition by key.
3. **Packet.** `Framing` for every base and width, with lemmas about the digits of a
   number.
