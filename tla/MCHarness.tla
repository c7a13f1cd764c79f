----------------------------- MODULE MCHarness -----------------------------
(***************************************************************************)
(* The test harnesses of the three labs, which all run servers with        *)
(* Persisters over one labrpc network, and the clerks of shardkv and       *)
(* shardctrler.  A behaviour is one of RaftHarness, KvHarness,             *)
(* ShardHarness or ShardClerk, in one of seven configurations; variables   *)
(* that a module does not have stay NoVar.                                 *)
(***************************************************************************)
EXTENDS Naturals, FiniteSets

CONSTANTS s1, s2, g1, g2, m1, m2, k1, adm, c1, Nil, NoGroup, NoVar

VARIABLES
  config,
  ends, enabled, connections, servers, reliable, netDone, netLoop,
  pc, end, srv, lossy, handler,        \* LabRpc
  gen, disks, saved, pers, tester,     \* every harness
  rafts, crashed, connected,           \* RaftHarness
  kvservers, cut,                      \* KvHarness
  running, killed, joined,             \* ShardHarness
  late,                                \* RaftHarness and ShardHarness
  clerks,                              \* KvHarness and ShardHarness
  ck, configs, leader, elections, serving, store, floating    \* ShardClerk

harnessVars == <<ends, enabled, connections, servers, reliable, netDone, netLoop,
          pc, end, srv, lossy, handler, gen, disks, saved, pers, tester,
          rafts, crashed, connected, kvservers, cut, running, killed, joined, late, clerks>>
clerkVars == <<ck, configs, leader, elections, serving, store, floating>>
vars == <<config, harnessVars, clerkVars>>

\* Two servers that crash and restart, with one call under way.
Raft == INSTANCE RaftHarness WITH
  Names <- {s1, s2}, MaxGen <- 2, MaxDisks <- 4, Calls <- {c1}

\* Partitions of five servers, without calls: what a majority is, is seen.
KvTopology == INSTANCE KvHarness WITH
  N <- 5, Clerks <- {}, MaxGen <- 2, Calls <- {}

\* One server, three instances of it, a clerk and a call.
KvCalls == INSTANCE KvHarness WITH
  N <- 1, Clerks <- {k1}, MaxGen <- 3, Calls <- {c1}

\* A group of one server with two instances, and a call.
ShardCalls == INSTANCE ShardHarness WITH
  Groups <- {g1}, N <- 1, Ctrlers <- {m1}, Clerks <- {k1}, MaxGen <- 2, MaxDisks <- 4, Calls <- {c1}

\* A group of two servers, without calls.
ShardRestart == INSTANCE ShardHarness WITH
  Groups <- {g1}, N <- 2, Ctrlers <- {m1, m2}, Clerks <- {}, MaxGen <- 2, MaxDisks <- 4, Calls <- {}

\* A clerk, configurations that change under it, and a leader that does not.
ClerkConfigs == INSTANCE ShardClerk WITH
  Clerks <- {k1}, Admin <- adm, Groups <- {g1, g2}, N <- 2, NShards <- 1, Key <- 97,
  Ops <- {"get", "append"}, MaxOps <- 2, MaxConfigs <- 3, MaxElections <- 0, MaxStore <- 2,
  MaxFloating <- 1

\* A clerk and one change of a leader.
ClerkElection == INSTANCE ShardClerk WITH
  Clerks <- {k1}, Admin <- adm, Groups <- {g1, g2}, N <- 2, NShards <- 1, Key <- 97,
  Ops <- {"get", "append"}, MaxOps <- 2, MaxConfigs <- 2, MaxElections <- 1, MaxStore <- 3,
  MaxFloating <- 1

ASSUME Configured ==
  /\ Raft!HarnessAssumption
  /\ KvTopology!KvHarnessAssumption /\ KvCalls!KvHarnessAssumption
  /\ ShardCalls!ShardHarnessAssumption /\ ShardRestart!ShardHarnessAssumption
  /\ ClerkConfigs!ShardClerkAssumption /\ ClerkElection!ShardClerkAssumption

raftVars  == <<rafts, crashed, connected>>
kvVars    == <<kvservers, cut>>
shardVars == <<running, killed, joined>>

NoRaft  == rafts = NoVar /\ crashed = NoVar /\ connected = NoVar
NoKv    == kvservers = NoVar /\ cut = NoVar
NoShard == running = NoVar /\ killed = NoVar /\ joined = NoVar
NoHarness ==
  /\ ends = NoVar /\ enabled = NoVar /\ connections = NoVar /\ servers = NoVar /\ reliable = NoVar
  /\ netDone = NoVar /\ netLoop = NoVar /\ pc = NoVar /\ end = NoVar /\ srv = NoVar
  /\ lossy = NoVar /\ handler = NoVar /\ gen = NoVar /\ disks = NoVar /\ saved = NoVar
  /\ pers = NoVar /\ tester = NoVar /\ late = NoVar /\ clerks = NoVar
  /\ NoRaft /\ NoKv /\ NoShard
NoClerk ==
  /\ ck = NoVar /\ configs = NoVar /\ leader = NoVar /\ elections = NoVar
  /\ serving = NoVar /\ store = NoVar /\ floating = NoVar

Init ==
  \/ config = "raft" /\ Raft!Init /\ NoKv /\ NoShard /\ clerks = NoVar /\ NoClerk
  \/ config = "kv topology" /\ KvTopology!Init /\ NoRaft /\ NoShard /\ late = NoVar /\ NoClerk
  \/ config = "kv calls" /\ KvCalls!Init /\ NoRaft /\ NoShard /\ late = NoVar /\ NoClerk
  \/ config = "shard calls" /\ ShardCalls!Init /\ NoRaft /\ NoKv /\ NoClerk
  \/ config = "shard restart" /\ ShardRestart!Init /\ NoRaft /\ NoKv /\ NoClerk
  \/ config = "clerk configs" /\ ClerkConfigs!Init /\ NoHarness
  \/ config = "clerk election" /\ ClerkElection!Init /\ NoHarness

Next ==
  \/ config = "raft" /\ Raft!Next /\ UNCHANGED <<config, clerkVars, kvVars, shardVars, clerks>>
  \/ config = "kv topology" /\ KvTopology!Next /\ UNCHANGED <<config, clerkVars, raftVars, shardVars, late>>
  \/ config = "kv calls" /\ KvCalls!Next /\ UNCHANGED <<config, clerkVars, raftVars, shardVars, late>>
  \/ config = "shard calls" /\ ShardCalls!Next /\ UNCHANGED <<config, clerkVars, raftVars, kvVars>>
  \/ config = "shard restart" /\ ShardRestart!Next /\ UNCHANGED <<config, clerkVars, raftVars, kvVars>>
  \/ config = "clerk configs" /\ ClerkConfigs!Next /\ UNCHANGED <<config, harnessVars>>
  \/ config = "clerk election" /\ ClerkElection!Next /\ UNCHANGED <<config, harnessVars>>

Spec == Init /\ [][Next]_vars

-----------------------------------------------------------------------------
(* Properties *)

\* Every module keeps its variables in their types.
TypeOK ==
  CASE config = "raft" -> Raft!TypeOK
    [] config = "kv topology" -> KvTopology!TypeOK
    [] config = "kv calls" -> KvCalls!TypeOK
    [] config = "shard calls" -> ShardCalls!TypeOK
    [] config = "shard restart" -> ShardRestart!TypeOK
    [] config = "clerk configs" -> ClerkConfigs!TypeOK
    [] config = "clerk election" -> ClerkElection!TypeOK

\* A call that returned true has its update in the Persister that the next
\* instance of its server will be given, in all three labs, although clerks'
\* ends stay enabled through a shutdown and shardkv's servers make ends
\* themselves: no positive reply for what a superseded Persister has alone.
AckedSurvives ==
  /\ config = "raft" => Raft!AckedSurvives
  /\ config = "kv calls" => KvCalls!AckedSurvives
  /\ config = "shard calls" => ShardCalls!AckedSurvives

\* A restart is given one consistent Persister of its own: the Raft state and the
\* snapshot that crash1 reads one after the other are of the same save, and a
\* killed instance of shardkv saves into no Persister that a later one has.
PersistersApart ==
  /\ config = "raft" => Raft!SavedInSync
  /\ config = "shard restart" => ShardRestart!PersistersApart

\* An instance that was shut down is not heard any more over the ends that the
\* harness made for it, whatever restarts and partitions follow: what it sends
\* reaches no handler of a Raft peer, none of its ends of kvraft is enabled, and in
\* shardkv only a call over an end it made by itself is ever handled.
DeadIsSilent ==
  /\ config = "raft" => Raft!CrashedIsSilent
  /\ config = "kv topology" => KvTopology!DeadIsSilent
  /\ config = "shard calls" => ShardCalls!SilentOnStartEnds

\* Servers reach each other as the tester was told: in kvraft if and only if the
\* last partition put them on one side, with the leader it found in a minority,
\* and in shardkv all running servers of a group, after any restarts.
ConnectedAsTold ==
  /\ config = "kv topology" => KvTopology!PartitionHolds /\ KvTopology!LeaderInMinority
  /\ config = "shard restart" => ShardRestart!GroupConnected

\* shardkv clerk: a Get returns a value that the key had after it was called, and
\* the appends that returned are in the value, first applied in the order they
\* were called, whatever was retried, lost or handled late.
OperationsInOrder ==
  /\ config = "clerk configs" => ClerkConfigs!ReadInInterval /\ ClerkConfigs!AppendsInOrder
  /\ config = "clerk election" => ClerkElection!ReadInInterval /\ ClerkElection!AppendsInOrder

\* shardkv clerk: the configuration it works with never goes back.
ConfigMonotonic ==
  [][ck # NoVar => ck'[k1].cfg.num >= ck[k1].cfg.num]_vars
=============================================================================
