----------------------------- MODULE RaftOracle -----------------------------
(***************************************************************************)
(* The part of 6.5840/src/raft/config.go that judges a Raft: the applier   *)
(* goroutines that read every server's applyCh and compare the committed   *)
(* entries, the snapshots they take and ingest, and the agreement checks   *)
(* nCommitted, wait and one that a test calls.                             *)
(*                                                                         *)
(* The Raft under test is a skeleton in this repository and is the         *)
(* environment here: with Correct it applies one agreed log, in order, and *)
(* is silent once killed; otherwise it applies anything.  Each applier     *)
(* step below is one critical section of cfg.mu, or one of the accesses    *)
(* that applierSnap makes outside it.                                      *)
(***************************************************************************)
EXTENDS Naturals, FiniteSets

CONSTANTS
  N,            \* cfg.n
  Commands,     \* the commands a test submits
  MaxIndex,     \* bound: the highest log index
  MaxGen,       \* bound: instances of one server; the last one is not crashed
  Snapshots,    \* whether the appliers are applierSnap (else applier)
  SnapShotInterval,
  Correct,      \* whether the Raft under test is a correct one
  Expected,     \* expectedServers of one, n of wait
  None, Nil     \* no entry; Go's nil

OracleAssumption ==
  /\ N \in Nat \ {0} /\ MaxIndex \in Nat /\ MaxGen \in Nat \ {0}
  /\ SnapShotInterval \in Nat \ {0} /\ Expected \in 1 .. N
  /\ Snapshots \in BOOLEAN /\ Correct \in BOOLEAN
  /\ None # Nil /\ {None, Nil} \cap Commands = {}

VARIABLES
  logs,         \* per server: cfg.logs, a map from index to command
  lastApplied,  \* per server
  maxIndex,
  rafts,        \* per server: the instance in cfg.rafts, or 0 after crash1
  gen,          \* per server: instances started
  saved,        \* per server: the snapshot in cfg.saved (index 0: none)
  made,         \* the snapshots taken so far, which Raft may send to any server
  next,         \* per server: the index a correct Raft applies next
  log,          \* the agreed log of a correct Raft
  app,          \* per instance: its applier goroutine
  test,         \* the agreement check in progress
  alarm,        \* how the test run was failed
  stale         \* history: a server was started while an applier of an earlier
                \* instance of it still had lastApplied to write

vars == <<logs, lastApplied, maxIndex, rafts, gen, saved, made, next, log, app, test, alarm, stale>>
env  == <<rafts, gen, saved, made, next, log, stale>>

Servers  == 0 .. N - 1
Indices  == 0 .. MaxIndex
Entries  == Commands \cup {Nil}
Insts    == Servers \X (1 .. MaxGen)
Snapshot == [index : Indices, xlog : [Indices -> Entries \cup {None}]]
NoSnap   == [index |-> 0, xlog |-> [k \in Indices |-> None]]

Present(i, k) == logs[i][k] # None
Reading       == [pc |-> "recv", index |-> 0, cmd |-> Nil, err |-> FALSE]
IdleTest      == [op |-> "idle", cmd |-> Nil, index |-> 0, starts |-> 0, si |-> 0,
                  i |-> 0, count |-> 0, got |-> Nil]

\* make_config, every server started.
Init ==
  /\ logs = [i \in Servers |-> [k \in Indices |-> None]]
  /\ lastApplied = [i \in Servers |-> 0]
  /\ maxIndex = 0
  /\ rafts = [i \in Servers |-> 1] /\ gen = rafts
  /\ saved = [i \in Servers |-> NoSnap] /\ made = {}
  /\ next = [i \in Servers |-> 1]
  /\ log \in IF Correct THEN [1 .. MaxIndex -> Commands] ELSE {[k \in 1 .. MaxIndex |-> Nil]}
  /\ app = [x \in Insts |-> IF x[2] = 1 THEN Reading ELSE [Reading EXCEPT !.pc = "none"]]
  /\ test = IdleTest
  /\ alarm = "none" /\ stale = FALSE

\* log.Fatalf and t.Fatalf end the run.
Running == alarm = "none"

-----------------------------------------------------------------------------
(* checkLogs and the applier.                                              *)

\* Mutant: only server i's own log is looked at.
ConflictSelf(i, k, v) == Present(i, k) /\ logs[i][k] # v

Conflict(i, k, v) == \E j \in Servers : Present(j, k) /\ logs[j][k] # v

\* Mutant: the gap check is left out.
ErrorNoGap(i, k, v) == Conflict(i, k, v)

\* The error of applying command v at index k: another value committed there,
\* or the previous entry missing.
ApplyError(i, k, v) == Conflict(i, k, v) \/ (k > 1 /\ ~Present(i, k - 1))

\* Mutant: maxIndex is one too far.
RecordPast(i, k, v) ==
  /\ logs' = [logs EXCEPT ![i][k] = v]
  /\ maxIndex' = IF k >= maxIndex THEN k + 1 ELSE maxIndex

\* checkLogs records the entry even when it reports an error.
Record(i, k, v) ==
  /\ logs' = [logs EXCEPT ![i][k] = v]
  /\ maxIndex' = IF k > maxIndex THEN k ELSE maxIndex

\* What Raft may send next on the applyCh of instance x.
MayApply(x, k, v) ==
  IF Correct THEN rafts[x[1]] = x[2] /\ next[x[1]] = k /\ log[k] = v ELSE TRUE

MaySend(x, s) ==
  IF Correct THEN rafts[x[1]] = x[2] /\ s.index >= next[x[1]] ELSE TRUE

Sent(i, k) == next' = IF Correct THEN [next EXCEPT ![i] = k + 1] ELSE next

\* The loop's end: an error is fatal, otherwise the next message.
EndLoop(x, err) ==
  /\ app' = [app EXCEPT ![x] = Reading]
  /\ alarm' = IF err THEN "apply" ELSE alarm

\* The lock is released; an error has still to be reported.
Failed(x) == [app EXCEPT ![x] = [pc |-> "fatal", index |-> 0, cmd |-> Nil, err |-> TRUE]]

\* applier: one command is recorded under the lock.
Apply(x, k, v) ==
  /\ Running /\ ~Snapshots
  /\ app[x].pc = "recv" /\ MayApply(x, k, v)
  /\ Record(x[1], k, v) /\ Sent(x[1], k)
  /\ app' = IF ApplyError(x[1], k, v) THEN Failed(x) ELSE app
  /\ UNCHANGED <<lastApplied, rafts, gen, saved, made, log, test, alarm, stale>>

\* log.Fatalf, after the lock was released.
Fatal(x) ==
  /\ Running /\ app[x].pc = "fatal"
  /\ EndLoop(x, TRUE)
  /\ UNCHANGED <<logs, lastApplied, maxIndex, env, test>>

-----------------------------------------------------------------------------
(* applierSnap and the snapshots.                                          *)

\* A command is received and lastApplied is read, without the lock.
SnapRecv(x, k, v) ==
  LET bad == k # lastApplied[x[1]] + 1 IN
  /\ Running /\ Snapshots
  /\ app[x].pc = "recv" /\ MayApply(x, k, v)
  /\ app' = [app EXCEPT ![x] = [pc |-> IF bad THEN "last" ELSE "check",
                                index |-> k, cmd |-> v, err |-> bad]]
  /\ Sent(x[1], k)
  /\ UNCHANGED <<logs, lastApplied, maxIndex, rafts, gen, saved, made, log, test, alarm, stale>>

SnapCheck(x) ==
  LET a == app[x] IN
  /\ Running /\ a.pc = "check"
  /\ Record(x[1], a.index, a.cmd)
  /\ app' = [app EXCEPT ![x].pc = "last", ![x].err = ApplyError(x[1], a.index, a.cmd)]
  /\ UNCHANGED <<lastApplied, env, test, alarm>>

\* Mutant: lastApplied is not set when a snapshot is due.
SnapLastElse(x) ==
  LET a == app[x] IN
  /\ Running /\ a.pc = "last"
  /\ IF (a.index + 1) % SnapShotInterval = 0
     THEN app' = [app EXCEPT ![x].pc = "snap"] /\ UNCHANGED <<lastApplied, alarm>>
     ELSE EndLoop(x, a.err) /\ lastApplied' = [lastApplied EXCEPT ![x[1]] = a.index]
  /\ UNCHANGED <<logs, maxIndex, env, test>>

SnapLast(x) ==
  LET a == app[x] IN
  /\ Running /\ a.pc = "last"
  /\ lastApplied' = [lastApplied EXCEPT ![x[1]] = a.index]
  /\ IF (a.index + 1) % SnapShotInterval = 0
     THEN app' = [app EXCEPT ![x].pc = "snap"] /\ UNCHANGED alarm
     ELSE EndLoop(x, a.err)
  /\ UNCHANGED <<logs, maxIndex, env, test>>

\* The log up to the index is read without the lock (a missing entry reads as
\* nil) and given to Raft, which saves it: in cfg.saved, unless the instance
\* has been killed, and then a correct one does not send it to anybody either.
SnapTake(x) ==
  LET a == app[x]
      i == x[1]
      s == [index |-> a.index,
            xlog |-> [k \in Indices |-> IF k > a.index THEN None
                                        ELSE IF Present(i, k) THEN logs[i][k] ELSE Nil]]
  IN /\ Running /\ a.pc = "snap"
     /\ made' = IF Correct /\ rafts[i] # x[2] THEN made ELSE made \cup {s}
     /\ saved' = IF rafts[i] = x[2] THEN [saved EXCEPT ![i] = s] ELSE saved
     /\ EndLoop(x, a.err)
     /\ UNCHANGED <<logs, lastApplied, maxIndex, rafts, gen, next, log, test, stale>>

\* ingestSnap: the server's log becomes the snapshot's.
Ingest(i, s) ==
  /\ logs' = [logs EXCEPT ![i] = s.xlog]
  /\ lastApplied' = [lastApplied EXCEPT ![i] = s.index]

\* Raft sends a snapshot, with the index it says it has.
SnapInstall(x, s, k) ==
  /\ Running /\ Snapshots
  /\ app[x].pc = "recv" /\ MaySend(x, s)
  /\ Correct => k = s.index
  /\ IF k = s.index
     THEN Ingest(x[1], s) /\ Sent(x[1], k) /\ UNCHANGED app
     ELSE app' = Failed(x) /\ UNCHANGED <<logs, lastApplied, next>>
  /\ UNCHANGED <<maxIndex, rafts, gen, saved, made, log, test, alarm, stale>>

-----------------------------------------------------------------------------
(* crash1 and start1, as far as the appliers see them: the applier of a    *)
(* killed instance lives on.                                               *)

Crash(i) ==
  /\ Running /\ rafts[i] # 0 /\ gen[i] < MaxGen
  /\ rafts' = [rafts EXCEPT ![i] = 0]
  /\ UNCHANGED <<logs, lastApplied, maxIndex, gen, saved, made, next, log, app, test, alarm, stale>>

\* An applier of server i is in the middle of a command.
Applying(i) == \E x \in Insts : x[1] = i /\ app[x].pc \in {"check", "last"}

\* start1 resets lastApplied and ingests the saved snapshot; a correct Raft
\* applies what follows it.  Without a snapshot the old log stays.
Start(i) ==
  LET g == gen[i] + 1
      s == saved[i]
  IN /\ Running /\ g <= MaxGen /\ rafts[i] = 0
     /\ gen' = [gen EXCEPT ![i] = g] /\ rafts' = [rafts EXCEPT ![i] = g]
     /\ app' = [app EXCEPT ![<<i, g>>] = Reading]
     /\ IF s = NoSnap
        THEN lastApplied' = [lastApplied EXCEPT ![i] = 0] /\ UNCHANGED logs
        ELSE Ingest(i, s)
     /\ next' = IF Correct THEN [next EXCEPT ![i] = s.index + 1] ELSE next
     /\ stale' = (stale \/ Applying(i))
     /\ UNCHANGED <<maxIndex, saved, made, log, test, alarm>>

-----------------------------------------------------------------------------
(* nCommitted, wait and one: the logs are read one server at a time, each  *)
(* under the lock.                                                         *)

StartPoll(op) ==
  test' = [test EXCEPT !.op = op, !.i = 0, !.count = 0, !.got = Nil]

\* one(cmd): the servers are asked in turn to Start the command.
OneBegin(cmd) ==
  /\ Running /\ test.op = "idle"
  /\ test' = [IdleTest EXCEPT !.op = "try", !.cmd = cmd]
  /\ UNCHANGED <<logs, lastApplied, maxIndex, env, app, alarm>>

\* The server is skipped when it is crashed or disconnected, or is not the leader;
\* a leader says at which index the command will be if it is ever committed.
OneTry ==
  LET s == (test.starts + 1) % N IN
  /\ Running /\ test.op = "try" /\ test.si < N
  /\ \/ test' = [test EXCEPT !.starts = s, !.si = @ + 1]
     \/ /\ rafts[s] # 0
        /\ \E k \in 1 .. MaxIndex :
             test' = [test EXCEPT !.op = "poll", !.starts = s, !.index = k,
                                  !.i = 0, !.count = 0, !.got = Nil]
  /\ UNCHANGED <<logs, lastApplied, maxIndex, env, app, alarm>>

\* One round of nCommitted's loop for a server that has the entry.
CountEntry(i, k) ==
  /\ Present(i, k)
  /\ test' = [test EXCEPT !.i = @ + 1, !.count = @ + 1, !.got = logs[i][k]]
  /\ alarm' = IF test.count > 0 /\ test.got # logs[i][k] THEN "mismatch" ELSE alarm

NCommitted ==
  LET i == test.i IN
  /\ Running /\ test.op \in {"poll", "wait", "final"} /\ i < N
  /\ \/ CountEntry(i, test.index)
     \/ /\ ~Present(i, test.index)
        /\ test' = [test EXCEPT !.i = @ + 1] /\ UNCHANGED alarm
  /\ UNCHANGED <<logs, lastApplied, maxIndex, env, app>>

\* Mutant: the entry on one server is enough.
DoneAny == test.count > 0 /\ test.got = test.cmd

Done == test.count > 0 /\ test.count >= Expected /\ test.got = test.cmd

\* After a poll: the command is agreed on, or one polls again, or gives up on
\* this index after two seconds and submits again (retry) or fails the test.
OnePolled ==
  /\ Running /\ test.op = "poll" /\ test.i = N
  /\ IF Done
     THEN test' = [test EXCEPT !.op = "agreed"] /\ UNCHANGED alarm
     ELSE \/ StartPoll("poll") /\ UNCHANGED alarm
          \/ test' = [test EXCEPT !.op = "try", !.si = 0, !.index = 0] /\ UNCHANGED alarm
          \/ alarm' = "timeout" /\ UNCHANGED test
  /\ UNCHANGED <<logs, lastApplied, maxIndex, env, app>>

\* No server took the command: after 50 ms one tries again, or ten seconds are over.
OneNobody ==
  /\ Running /\ test.op = "try" /\ test.si = N
  /\ \/ test' = [test EXCEPT !.si = 0] /\ UNCHANGED alarm
     \/ alarm' = "timeout" /\ UNCHANGED test
  /\ UNCHANGED <<logs, lastApplied, maxIndex, env, app>>

\* wait(index, n, startTerm) polls until n servers have the entry, a higher term
\* is seen, or thirty rounds are over; then it counts once more.
WaitBegin(k) ==
  /\ Running /\ test.op = "idle"
  /\ test' = [IdleTest EXCEPT !.op = "wait", !.index = k]
  /\ UNCHANGED <<logs, lastApplied, maxIndex, env, app, alarm>>

WaitPolled ==
  /\ Running /\ test.op = "wait" /\ test.i = N
  /\ \/ StartPoll("final")
     \/ test.count < Expected /\ (StartPoll("wait") \/ test' = IdleTest)
  /\ UNCHANGED <<logs, lastApplied, maxIndex, env, app, alarm>>

WaitFinal ==
  /\ Running /\ test.op = "final" /\ test.i = N
  /\ IF test.count < Expected
     THEN alarm' = "timeout" /\ UNCHANGED test
     ELSE test' = [test EXCEPT !.op = "agreed", !.cmd = test.got] /\ UNCHANGED alarm
  /\ UNCHANGED <<logs, lastApplied, maxIndex, env, app>>

\* The caller has its answer and goes on with the test.
TestNext ==
  /\ Running /\ test.op = "agreed"
  /\ test' = IdleTest
  /\ UNCHANGED <<logs, lastApplied, maxIndex, env, app, alarm>>

Tester ==
  \/ \E c \in Commands : OneBegin(c)
  \/ \E k \in 1 .. MaxIndex : WaitBegin(k)
  \/ OneTry \/ NCommitted \/ OnePolled \/ OneNobody \/ WaitPolled \/ WaitFinal \/ TestNext

Applier ==
  \E x \in Insts :
    \/ \E k \in 1 .. MaxIndex, v \in Commands : Apply(x, k, v) \/ SnapRecv(x, k, v)
    \/ Fatal(x) \/ SnapCheck(x) \/ SnapLast(x) \/ SnapTake(x)
    \/ \E s \in made, k \in 1 .. MaxIndex : SnapInstall(x, s, k)

Next == Applier \/ Tester \/ \E i \in Servers : Crash(i) \/ Start(i)

Spec == Init /\ [][Next]_vars

-----------------------------------------------------------------------------
(* Properties.                                                             *)

\* Every variable has its type.
TypeOK ==
  /\ logs \in [Servers -> [Indices -> Entries \cup {None}]]
  /\ lastApplied \in [Servers -> Indices] /\ maxIndex \in Indices
  /\ rafts \in [Servers -> 0 .. MaxGen] /\ gen \in [Servers -> 1 .. MaxGen]
  /\ saved \in [Servers -> Snapshot] /\ made \subseteq Snapshot
  /\ next \in [Servers -> 1 .. MaxIndex + 1]
  /\ app \in [Insts -> [pc : {"none", "recv", "check", "last", "snap", "fatal"}, index : Indices,
                        cmd : Entries, err : BOOLEAN]]
  /\ alarm \in {"none", "apply", "mismatch", "timeout"} /\ stale \in BOOLEAN

\* No applier has an error that it has not reported yet.
NoError == \A x \in Insts : ~app[x].err

\* While no applier has an error to report, no two servers have committed
\* different commands at one index, whatever Raft applies (the comment on one:
\* the "threads that read from applyCh" check that the servers agree).
LogsAgree ==
  (Running /\ NoError) =>
    \A i, j \in Servers, k \in 1 .. MaxIndex :
      Present(i, k) /\ Present(j, k) => logs[i][k] = logs[j][k]

\* While no applier has an error to report, every log is without gaps, whatever
\* Raft applies, and nothing is beyond maxIndex, which end() subtracts from.
NoGaps ==
  (Running /\ NoError) =>
    \A i \in Servers, k \in 2 .. MaxIndex :
      Present(i, k) => Present(i, k - 1) /\ k <= maxIndex

\* When one or wait returns a command and its index, that many servers have
\* committed it there, although the logs were read one after the other, or an
\* applier has overwritten an entry and is about to fail the run for it.
AgreedIsCommitted ==
  (Running /\ NoError /\ test.op = "agreed") =>
    Cardinality({i \in Servers : logs[i][test.index] = test.cmd}) >= Expected

\* A Raft that applies one agreed log in order is never failed by the appliers or
\* by nCommitted, across crashes, snapshots and restarts, unless a server was
\* started while applierSnap was still handling a command of an earlier instance:
\* then that goroutine writes the log and lastApplied which its successor uses.
NoFalseAlarm == Correct /\ ~stale => alarm \notin {"apply", "mismatch"}
=============================================================================
