-------------------------- MODULE MCHarnessProofs --------------------------
(***************************************************************************)
(* The harnesses and the clerks together.  A behaviour of MCHarness keeps  *)
(* its configuration and is, in each of them, one of the component; so     *)
(* what HarnessProofs proves for all values of the components' constants   *)
(* holds of it.  Its instances below have the values that MCHarness gives; *)
(* a first lemma for each configuration says that the specification of the *)
(* instance is the one there.                                              *)
(***************************************************************************)
EXTENDS MCHarness, TLAPS

\* "raft", "kv calls", "shard calls" and "clerk configs"; "kv topology", "shard
\* restart" and "clerk election".
HC == INSTANCE HarnessProofs WITH
  Peers <- {s1, s2}, MaxInst <- 2, MaxDisks <- 4, Calls <- {c1},
  N <- 1, Clerks <- {k1}, MaxGen <- 3,
  Gids <- {g1}, Size <- 1, Ctrlers <- {m1}, Clients <- {k1}, MaxShard <- 2,
  Users <- {k1}, Admin <- adm, KvGroups <- {g1, g2}, Replicas <- 2, NShards <- 1, Key <- 97,
  Ops <- {"get", "append"}, MaxOps <- 2, MaxConfigs <- 3, MaxElections <- 0, MaxStore <- 2,
  MaxFloating <- 1
HT == INSTANCE HarnessProofs WITH
  Peers <- {}, MaxInst <- 1, MaxDisks <- 4, Calls <- {},
  N <- 5, Clerks <- {}, MaxGen <- 2,
  Gids <- {g1}, Size <- 2, Ctrlers <- {m1, m2}, Clients <- {}, MaxShard <- 2,
  Users <- {k1}, Admin <- adm, KvGroups <- {g1, g2}, Replicas <- 2, NShards <- 1, Key <- 97,
  Ops <- {"get", "append"}, MaxOps <- 2, MaxConfigs <- 2, MaxElections <- 1, MaxStore <- 3,
  MaxFloating <- 1

LEMMA RaftSame ==
  /\ Raft!Init <=> HC!Raft!Init
  /\ [Raft!Next]_Raft!vars <=> [HC!Raft!Next]_HC!Raft!vars
<1>1. Raft!Init <=> HC!Raft!Init
  BY DEF Raft!Init, HC!Raft!Init, Raft!AllEnds, HC!Raft!AllEnds, Raft!Gens, HC!Raft!Gens,
         Raft!Instances, HC!Raft!Instances, Raft!Persister, HC!Raft!Persister, Raft!Idle,
         HC!Raft!Idle
<1>2. Raft!Next <=> HC!Raft!Next
  BY DEF Raft!Next, HC!Raft!Next, Raft!AllEnds, HC!Raft!AllEnds, Raft!Gens, HC!Raft!Gens,
         Raft!Instances, HC!Raft!Instances, Raft!MakeCall, HC!Raft!MakeCall, Raft!Call,
         HC!Raft!Call, Raft!Goto, HC!Raft!Goto, Raft!netVars, HC!Raft!netVars, Raft!harnessVars,
         HC!Raft!harnessVars, Raft!Handle, HC!Raft!Handle, Raft!HandlerReturn,
         HC!Raft!HandlerReturn, Raft!Persister, HC!Raft!Persister, Raft!Network,
         HC!Raft!Network, Raft!Send, HC!Raft!Send, Raft!Refuse, HC!Raft!Refuse, Raft!ProcessReq,
         HC!Raft!ProcessReq, Raft!ReadEndnameInfo, HC!Raft!ReadEndnameInfo, Raft!ServerOf,
         HC!Raft!ServerOf, Raft!DropRequest, HC!Raft!DropRequest, Raft!Dispatch,
         HC!Raft!Dispatch, Raft!AwaitReply, HC!Raft!AwaitReply, Raft!AwaitPoll,
         HC!Raft!AwaitPoll, Raft!IsServerDead, HC!Raft!IsServerDead, Raft!Recheck,
         HC!Raft!Recheck, Raft!Reply, HC!Raft!Reply, Raft!NetExit, HC!Raft!NetExit,
         Raft!callVars, HC!Raft!callVars, Raft!Tester1, HC!Raft!Tester1, Raft!Disconnect,
         HC!Raft!Disconnect, Raft!TesterFree, HC!Raft!TesterFree, Raft!Idle, HC!Raft!Idle,
         Raft!EndsOf, HC!Raft!EndsOf, Raft!network, HC!Raft!network, Raft!inFlight,
         HC!Raft!inFlight, Raft!ConnectServer, HC!Raft!ConnectServer, Raft!CrashDisconnect,
         HC!Raft!CrashDisconnect, Raft!NextEnable, HC!Raft!NextEnable, Raft!Enable,
         HC!Raft!Enable, Raft!CrashDelete, HC!Raft!CrashDelete, Raft!DeleteServer,
         HC!Raft!DeleteServer, Raft!Then, HC!Raft!Then, Raft!CrashCopy, HC!Raft!CrashCopy,
         Raft!NewDisk, HC!Raft!NewDisk, Raft!Disk, HC!Raft!Disk, Raft!CrashKill,
         HC!Raft!CrashKill, Raft!CrashReadState, HC!Raft!CrashReadState, Raft!CrashReadSnapshot,
         HC!Raft!CrashReadSnapshot, Raft!CrashReturn, HC!Raft!CrashReturn, Raft!StartEnds,
         HC!Raft!StartEnds, Raft!StartMake, HC!Raft!StartMake, Raft!StartServe,
         HC!Raft!StartServe, Raft!AddServer, HC!Raft!AddServer, Raft!SetReliable,
         HC!Raft!SetReliable, Raft!Reliable, HC!Raft!Reliable, Raft!CleanupAll,
         HC!Raft!CleanupAll, Raft!Cleanup, HC!Raft!Cleanup
<1> QED BY <1>1, <1>2 DEF Raft!vars, HC!Raft!vars, Raft!network, HC!Raft!network, Raft!inFlight,
         HC!Raft!inFlight, Raft!harnessVars, HC!Raft!harnessVars

LEMMA KvTopologySame ==
  /\ KvTopology!Init <=> HT!Init
  /\ [KvTopology!Next]_KvTopology!vars <=> [HT!Next]_HT!vars
<1>1. KvTopology!Init <=> HT!Init
  BY DEF KvTopology!Init, HT!Init, KvTopology!ServerEnds, HT!ServerEnds, KvTopology!Names,
         HT!Names, KvTopology!Gens, HT!Gens, KvTopology!AllEnds, HT!AllEnds,
         KvTopology!ClerkEnds, HT!ClerkEnds, KvTopology!Instances, HT!Instances,
         KvTopology!Idle, HT!Idle, KvTopology!Whole, HT!Whole
<1>2. ASSUME NEW en, NEW p, NEW q
      PROVE  KvTopology!Side(en, p, q) = HT!Side(en, p, q)
  BY DEF KvTopology!Side, HT!Side, KvTopology!ConnectUnlocked, HT!ConnectUnlocked,
         KvTopology!DisconnectUnlocked, HT!DisconnectUnlocked, KvTopology!Links, HT!Links,
         KvTopology!Range, HT!Range
<1>3. ASSUME NEW p, NEW q, NEW l
      PROVE  KvTopology!Partition(p, q, l) <=> HT!Partition(p, q, l)
  <2>1. KvTopology!Side(KvTopology!Side(enabled, p, q), q, p) = HT!Side(HT!Side(enabled, p, q), q, p)
    BY <1>2
  <2> QED
    BY <2>1 DEF KvTopology!Partition, HT!Partition, KvTopology!Range, HT!Range,
           KvTopology!Steady, HT!Steady, KvTopology!SetEnabled, HT!SetEnabled, KvTopology!Idle,
           HT!Idle, KvTopology!Whole, HT!Whole, KvTopology!Names, HT!Names, KvTopology!inFlight,
           HT!inFlight, KvTopology!harnessVars, HT!harnessVars
<1>4. KvTopology!RandomPartition <=> HT!RandomPartition
  <2>1. \A S : KvTopology!Cardinality(S) = HT!Cardinality(S)
    BY DEF KvTopology!Cardinality, HT!Cardinality
  <2>2. \A S : KvTopology!SetToSeq(S) = HT!SetToSeq(S)
    BY <2>1 DEF KvTopology!SetToSeq, HT!SetToSeq, KvTopology!IsInjective, HT!IsInjective
  <2> QED BY <1>3, <2>2 DEF KvTopology!RandomPartition, HT!RandomPartition, KvTopology!Names,
         HT!Names
<1>5. KvTopology!MakePartition <=> HT!MakePartition
  BY <1>3 DEF KvTopology!MakePartition, HT!MakePartition, KvTopology!Leader, HT!Leader,
         KvTopology!Others, HT!Others, KvTopology!Entry, HT!Entry, KvTopology!Names, HT!Names
<1>6. ASSUME NEW c, NEW e
      PROVE  /\ KvTopology!MakeCall(c, e) <=> HT!MakeCall(c, e)
             /\ KvTopology!Handle(c) <=> HT!Handle(c)
  BY DEF KvTopology!MakeCall, HT!MakeCall, KvTopology!ClerkEnds, HT!ClerkEnds, KvTopology!Names,
         HT!Names, KvTopology!Call, HT!Call, KvTopology!Goto, HT!Goto, KvTopology!netVars,
         HT!netVars, KvTopology!harnessVars, HT!harnessVars, KvTopology!Handle, HT!Handle,
         KvTopology!HandlerReturn, HT!HandlerReturn
<1>7. ASSUME NEW c
      PROVE  KvTopology!Network(c) <=> HT!Network(c)
  BY DEF KvTopology!Network, HT!Network, KvTopology!Send, HT!Send, KvTopology!Goto, HT!Goto,
         KvTopology!netVars, HT!netVars, KvTopology!Refuse, HT!Refuse, KvTopology!ProcessReq,
         HT!ProcessReq, KvTopology!ReadEndnameInfo, HT!ReadEndnameInfo, KvTopology!ServerOf,
         HT!ServerOf, KvTopology!DropRequest, HT!DropRequest, KvTopology!Dispatch, HT!Dispatch,
         KvTopology!AwaitReply, HT!AwaitReply, KvTopology!AwaitPoll, HT!AwaitPoll,
         KvTopology!IsServerDead, HT!IsServerDead, KvTopology!Recheck, HT!Recheck,
         KvTopology!Reply, HT!Reply, KvTopology!harnessVars, HT!harnessVars
<1>8. ASSUME NEW k, NEW js
      PROVE  /\ KvTopology!MakeClient(k, js) <=> HT!MakeClient(k, js)
             /\ KvTopology!ConnectClient(k, js) <=> HT!ConnectClient(k, js)
             /\ KvTopology!DisconnectClient(k, js) <=> HT!DisconnectClient(k, js)
             /\ KvTopology!DeleteClient(k) <=> HT!DeleteClient(k)
  BY DEF KvTopology!MakeClient, HT!MakeClient, KvTopology!Unlocked, HT!Unlocked,
         KvTopology!ClerkLinks, HT!ClerkLinks, KvTopology!Names, HT!Names, KvTopology!AllEnds,
         HT!AllEnds, KvTopology!ServerEnds, HT!ServerEnds, KvTopology!Gens, HT!Gens,
         KvTopology!ClerkEnds, HT!ClerkEnds, KvTopology!Instances, HT!Instances,
         KvTopology!inFlight, HT!inFlight, KvTopology!ConnectClient, HT!ConnectClient,
         KvTopology!SetEnabled, HT!SetEnabled, KvTopology!harnessVars, HT!harnessVars,
         KvTopology!DisconnectClient, HT!DisconnectClient, KvTopology!DeleteClient,
         HT!DeleteClient, KvTopology!network, HT!network
<1>9. ASSUME NEW n
      PROVE  /\ KvTopology!ShutdownDisconnect(n) <=> HT!ShutdownDisconnect(n)
             /\ KvTopology!StartServer(n) <=> HT!StartServer(n)
  BY DEF KvTopology!ShutdownDisconnect, HT!ShutdownDisconnect, KvTopology!Idle, HT!Idle,
         KvTopology!SetEnabled, HT!SetEnabled, KvTopology!inFlight, HT!inFlight,
         KvTopology!DisconnectUnlocked, HT!DisconnectUnlocked, KvTopology!Links, HT!Links,
         KvTopology!Names, HT!Names, KvTopology!Whole, HT!Whole, KvTopology!harnessVars,
         HT!harnessVars, KvTopology!StartServer, HT!StartServer, KvTopology!AllEnds, HT!AllEnds,
         KvTopology!ServerEnds, HT!ServerEnds, KvTopology!Gens, HT!Gens, KvTopology!ClerkEnds,
         HT!ClerkEnds, KvTopology!Instances, HT!Instances, KvTopology!Copy, HT!Copy,
         KvTopology!Disk, HT!Disk
<1>10. /\ KvTopology!ConnectAll <=> HT!ConnectAll
       /\ KvTopology!CleanupAll <=> HT!CleanupAll
       /\ KvTopology!ShutdownDelete <=> HT!ShutdownDelete
       /\ KvTopology!ShutdownCopy <=> HT!ShutdownCopy
       /\ KvTopology!ShutdownKill <=> HT!ShutdownKill
       /\ KvTopology!StartServe <=> HT!StartServe
       /\ KvTopology!NetExit <=> HT!NetExit
  BY DEF KvTopology!ConnectAll, HT!ConnectAll, KvTopology!Steady, HT!Steady, KvTopology!Idle,
         HT!Idle, KvTopology!Names, HT!Names, KvTopology!SetEnabled, HT!SetEnabled,
         KvTopology!inFlight, HT!inFlight, KvTopology!Links, HT!Links, KvTopology!Whole,
         HT!Whole, KvTopology!harnessVars, HT!harnessVars, KvTopology!CleanupAll, HT!CleanupAll,
         KvTopology!Cleanup, HT!Cleanup, KvTopology!callVars, HT!callVars,
         KvTopology!ShutdownDelete, HT!ShutdownDelete, KvTopology!DeleteServer, HT!DeleteServer,
         KvTopology!ShutdownCopy, HT!ShutdownCopy, KvTopology!Copy, HT!Copy, KvTopology!Disk,
         HT!Disk, KvTopology!network, HT!network, KvTopology!ShutdownKill, HT!ShutdownKill,
         KvTopology!StartServe, HT!StartServe, KvTopology!AddServer, HT!AddServer,
         KvTopology!NetExit, HT!NetExit
<1>11. KvTopology!Next <=> HT!Next
  BY <1>4, <1>5, <1>6, <1>7, <1>8, <1>9, <1>10 DEF KvTopology!Next, HT!Next, KvTopology!Tester1,
         HT!Tester1, KvTopology!AllEnds, HT!AllEnds, KvTopology!ServerEnds, HT!ServerEnds,
         KvTopology!ClerkEnds, HT!ClerkEnds, KvTopology!Names, HT!Names, KvTopology!Gens,
         HT!Gens, KvTopology!harnessVars, HT!harnessVars
<1> QED BY <1>1, <1>11 DEF KvTopology!vars, HT!vars, KvTopology!network, HT!network,
         KvTopology!inFlight, HT!inFlight, KvTopology!harnessVars, HT!harnessVars

LEMMA KvCallsSame ==
  /\ KvCalls!Init <=> HC!Init
  /\ [KvCalls!Next]_KvCalls!vars <=> [HC!Next]_HC!vars
<1>1. KvCalls!Init <=> HC!Init
  BY DEF KvCalls!Init, HC!Init, KvCalls!ServerEnds, HC!ServerEnds, KvCalls!Names, HC!Names,
         KvCalls!Gens, HC!Gens, KvCalls!AllEnds, HC!AllEnds, KvCalls!ClerkEnds, HC!ClerkEnds,
         KvCalls!Instances, HC!Instances, KvCalls!Idle, HC!Idle, KvCalls!Whole, HC!Whole
<1>2. ASSUME NEW en, NEW p, NEW q
      PROVE  KvCalls!Side(en, p, q) = HC!Side(en, p, q)
  BY DEF KvCalls!Side, HC!Side, KvCalls!ConnectUnlocked, HC!ConnectUnlocked,
         KvCalls!DisconnectUnlocked, HC!DisconnectUnlocked, KvCalls!Links, HC!Links,
         KvCalls!Range, HC!Range
<1>3. ASSUME NEW p, NEW q, NEW l
      PROVE  KvCalls!Partition(p, q, l) <=> HC!Partition(p, q, l)
  <2>1. KvCalls!Side(KvCalls!Side(enabled, p, q), q, p) = HC!Side(HC!Side(enabled, p, q), q, p)
    BY <1>2
  <2> QED
    BY <2>1 DEF KvCalls!Partition, HC!Partition, KvCalls!Range, HC!Range, KvCalls!Steady,
           HC!Steady, KvCalls!SetEnabled, HC!SetEnabled, KvCalls!Idle, HC!Idle, KvCalls!Whole,
           HC!Whole, KvCalls!Names, HC!Names, KvCalls!inFlight, HC!inFlight,
           KvCalls!harnessVars, HC!harnessVars
<1>4. KvCalls!RandomPartition <=> HC!RandomPartition
  <2>1. \A S : KvCalls!Cardinality(S) = HC!Cardinality(S)
    BY DEF KvCalls!Cardinality, HC!Cardinality
  <2>2. \A S : KvCalls!SetToSeq(S) = HC!SetToSeq(S)
    BY <2>1 DEF KvCalls!SetToSeq, HC!SetToSeq, KvCalls!IsInjective, HC!IsInjective
  <2> QED BY <1>3, <2>2 DEF KvCalls!RandomPartition, HC!RandomPartition, KvCalls!Names, HC!Names
<1>5. KvCalls!MakePartition <=> HC!MakePartition
  BY <1>3 DEF KvCalls!MakePartition, HC!MakePartition, KvCalls!Leader, HC!Leader,
         KvCalls!Others, HC!Others, KvCalls!Entry, HC!Entry, KvCalls!Names, HC!Names
<1>6. ASSUME NEW c, NEW e
      PROVE  /\ KvCalls!MakeCall(c, e) <=> HC!MakeCall(c, e)
             /\ KvCalls!Handle(c) <=> HC!Handle(c)
  BY DEF KvCalls!MakeCall, HC!MakeCall, KvCalls!ClerkEnds, HC!ClerkEnds, KvCalls!Names,
         HC!Names, KvCalls!Call, HC!Call, KvCalls!Goto, HC!Goto, KvCalls!netVars, HC!netVars,
         KvCalls!harnessVars, HC!harnessVars, KvCalls!Handle, HC!Handle, KvCalls!HandlerReturn,
         HC!HandlerReturn
<1>7. ASSUME NEW c
      PROVE  KvCalls!Network(c) <=> HC!Network(c)
  BY DEF KvCalls!Network, HC!Network, KvCalls!Send, HC!Send, KvCalls!Goto, HC!Goto,
         KvCalls!netVars, HC!netVars, KvCalls!Refuse, HC!Refuse, KvCalls!ProcessReq,
         HC!ProcessReq, KvCalls!ReadEndnameInfo, HC!ReadEndnameInfo, KvCalls!ServerOf,
         HC!ServerOf, KvCalls!DropRequest, HC!DropRequest, KvCalls!Dispatch, HC!Dispatch,
         KvCalls!AwaitReply, HC!AwaitReply, KvCalls!AwaitPoll, HC!AwaitPoll,
         KvCalls!IsServerDead, HC!IsServerDead, KvCalls!Recheck, HC!Recheck, KvCalls!Reply,
         HC!Reply, KvCalls!harnessVars, HC!harnessVars
<1>8. ASSUME NEW k, NEW js
      PROVE  /\ KvCalls!MakeClient(k, js) <=> HC!MakeClient(k, js)
             /\ KvCalls!ConnectClient(k, js) <=> HC!ConnectClient(k, js)
             /\ KvCalls!DisconnectClient(k, js) <=> HC!DisconnectClient(k, js)
             /\ KvCalls!DeleteClient(k) <=> HC!DeleteClient(k)
  BY DEF KvCalls!MakeClient, HC!MakeClient, KvCalls!Unlocked, HC!Unlocked, KvCalls!ClerkLinks,
         HC!ClerkLinks, KvCalls!Names, HC!Names, KvCalls!AllEnds, HC!AllEnds,
         KvCalls!ServerEnds, HC!ServerEnds, KvCalls!Gens, HC!Gens, KvCalls!ClerkEnds,
         HC!ClerkEnds, KvCalls!Instances, HC!Instances, KvCalls!inFlight, HC!inFlight,
         KvCalls!ConnectClient, HC!ConnectClient, KvCalls!SetEnabled, HC!SetEnabled,
         KvCalls!harnessVars, HC!harnessVars, KvCalls!DisconnectClient, HC!DisconnectClient,
         KvCalls!DeleteClient, HC!DeleteClient, KvCalls!network, HC!network
<1>9. ASSUME NEW n
      PROVE  /\ KvCalls!ShutdownDisconnect(n) <=> HC!ShutdownDisconnect(n)
             /\ KvCalls!StartServer(n) <=> HC!StartServer(n)
  BY DEF KvCalls!ShutdownDisconnect, HC!ShutdownDisconnect, KvCalls!Idle, HC!Idle,
         KvCalls!SetEnabled, HC!SetEnabled, KvCalls!inFlight, HC!inFlight,
         KvCalls!DisconnectUnlocked, HC!DisconnectUnlocked, KvCalls!Links, HC!Links,
         KvCalls!Names, HC!Names, KvCalls!Whole, HC!Whole, KvCalls!harnessVars, HC!harnessVars,
         KvCalls!StartServer, HC!StartServer, KvCalls!AllEnds, HC!AllEnds, KvCalls!ServerEnds,
         HC!ServerEnds, KvCalls!Gens, HC!Gens, KvCalls!ClerkEnds, HC!ClerkEnds,
         KvCalls!Instances, HC!Instances, KvCalls!Copy, HC!Copy, KvCalls!Disk, HC!Disk
<1>10. /\ KvCalls!ConnectAll <=> HC!ConnectAll
       /\ KvCalls!CleanupAll <=> HC!CleanupAll
       /\ KvCalls!ShutdownDelete <=> HC!ShutdownDelete
       /\ KvCalls!ShutdownCopy <=> HC!ShutdownCopy
       /\ KvCalls!ShutdownKill <=> HC!ShutdownKill
       /\ KvCalls!StartServe <=> HC!StartServe
       /\ KvCalls!NetExit <=> HC!NetExit
  BY DEF KvCalls!ConnectAll, HC!ConnectAll, KvCalls!Steady, HC!Steady, KvCalls!Idle, HC!Idle,
         KvCalls!Names, HC!Names, KvCalls!SetEnabled, HC!SetEnabled, KvCalls!inFlight,
         HC!inFlight, KvCalls!Links, HC!Links, KvCalls!Whole, HC!Whole, KvCalls!harnessVars,
         HC!harnessVars, KvCalls!CleanupAll, HC!CleanupAll, KvCalls!Cleanup, HC!Cleanup,
         KvCalls!callVars, HC!callVars, KvCalls!ShutdownDelete, HC!ShutdownDelete,
         KvCalls!DeleteServer, HC!DeleteServer, KvCalls!ShutdownCopy, HC!ShutdownCopy,
         KvCalls!Copy, HC!Copy, KvCalls!Disk, HC!Disk, KvCalls!network, HC!network,
         KvCalls!ShutdownKill, HC!ShutdownKill, KvCalls!StartServe, HC!StartServe,
         KvCalls!AddServer, HC!AddServer, KvCalls!NetExit, HC!NetExit
<1>11. KvCalls!Next <=> HC!Next
  BY <1>4, <1>5, <1>6, <1>7, <1>8, <1>9, <1>10 DEF KvCalls!Next, HC!Next, KvCalls!Tester1,
         HC!Tester1, KvCalls!AllEnds, HC!AllEnds, KvCalls!ServerEnds, HC!ServerEnds,
         KvCalls!ClerkEnds, HC!ClerkEnds, KvCalls!Names, HC!Names, KvCalls!Gens, HC!Gens,
         KvCalls!harnessVars, HC!harnessVars
<1> QED BY <1>1, <1>11 DEF KvCalls!vars, HC!vars, KvCalls!network, HC!network, KvCalls!inFlight,
         HC!inFlight, KvCalls!harnessVars, HC!harnessVars

LEMMA ShardCallsSame ==
  /\ ShardCalls!Init <=> HC!Shard!Init
  /\ [ShardCalls!Next]_ShardCalls!vars <=> [HC!Shard!Next]_HC!Shard!vars
<1>1. ShardCalls!Init <=> HC!Shard!Init
  BY DEF ShardCalls!Init, HC!Shard!Init, ShardCalls!StartEnds, HC!Shard!StartEnds,
         ShardCalls!PeerEnds, HC!Shard!PeerEnds, ShardCalls!Peers, HC!Shard!Peers,
         ShardCalls!Shards, HC!Shard!Shards, ShardCalls!CtrlEnds, HC!Shard!CtrlEnds,
         ShardCalls!AllEnds, HC!Shard!AllEnds, ShardCalls!Gens, HC!Shard!Gens,
         ShardCalls!MadeEnds, HC!Shard!MadeEnds, ShardCalls!ClerkIds, HC!Shard!ClerkIds,
         ShardCalls!Instances, HC!Shard!Instances, ShardCalls!Names, HC!Shard!Names,
         ShardCalls!Idle, HC!Shard!Idle
<1>2. ShardCalls!Next <=> HC!Shard!Next
  BY DEF ShardCalls!Next, HC!Shard!Next, ShardCalls!AllEnds, HC!Shard!AllEnds,
         ShardCalls!PeerEnds, HC!Shard!PeerEnds, ShardCalls!Peers, HC!Shard!Peers,
         ShardCalls!Shards, HC!Shard!Shards, ShardCalls!Gens, HC!Shard!Gens,
         ShardCalls!CtrlEnds, HC!Shard!CtrlEnds, ShardCalls!MadeEnds, HC!Shard!MadeEnds,
         ShardCalls!ClerkIds, HC!Shard!ClerkIds, ShardCalls!Instances, HC!Shard!Instances,
         ShardCalls!Names, HC!Shard!Names, ShardCalls!MakeCall, HC!Shard!MakeCall,
         ShardCalls!Actors, HC!Shard!Actors, ShardCalls!Call, HC!Shard!Call, ShardCalls!Goto,
         HC!Shard!Goto, ShardCalls!netVars, HC!Shard!netVars, ShardCalls!harnessVars,
         HC!Shard!harnessVars, ShardCalls!MakeEndTo, HC!Shard!MakeEndTo, ShardCalls!OpenEnds,
         HC!Shard!OpenEnds, ShardCalls!inFlight, HC!Shard!inFlight, ShardCalls!Handle,
         HC!Shard!Handle, ShardCalls!HandlerReturn, HC!Shard!HandlerReturn, ShardCalls!Network,
         HC!Shard!Network, ShardCalls!Send, HC!Shard!Send, ShardCalls!Refuse, HC!Shard!Refuse,
         ShardCalls!ProcessReq, HC!Shard!ProcessReq, ShardCalls!ReadEndnameInfo,
         HC!Shard!ReadEndnameInfo, ShardCalls!ServerOf, HC!Shard!ServerOf,
         ShardCalls!DropRequest, HC!Shard!DropRequest, ShardCalls!Dispatch, HC!Shard!Dispatch,
         ShardCalls!AwaitReply, HC!Shard!AwaitReply, ShardCalls!AwaitPoll, HC!Shard!AwaitPoll,
         ShardCalls!IsServerDead, HC!Shard!IsServerDead, ShardCalls!Recheck, HC!Shard!Recheck,
         ShardCalls!Reply, HC!Shard!Reply, ShardCalls!NetExit, HC!Shard!NetExit,
         ShardCalls!callVars, HC!Shard!callVars, ShardCalls!Tester1, HC!Shard!Tester1,
         ShardCalls!MakeClient, HC!Shard!MakeClient, ShardCalls!Unlocked, HC!Shard!Unlocked,
         ShardCalls!DeleteClient, HC!Shard!DeleteClient, ShardCalls!network, HC!Shard!network,
         ShardCalls!Joinm, HC!Shard!Joinm, ShardCalls!Idle, HC!Shard!Idle, ShardCalls!Leavem,
         HC!Shard!Leavem, ShardCalls!ShutdownDisable, HC!Shard!ShutdownDisable,
         ShardCalls!Disabled, HC!Shard!Disabled, ShardCalls!StartServer, HC!Shard!StartServer,
         ShardCalls!NewEnds, HC!Shard!NewEnds, ShardCalls!StartEnds, HC!Shard!StartEnds,
         ShardCalls!Copy, HC!Shard!Copy, ShardCalls!Disk, HC!Shard!Disk, ShardCalls!Give,
         HC!Shard!Give, ShardCalls!ShutdownDelete, HC!Shard!ShutdownDelete,
         ShardCalls!DeleteServer, HC!Shard!DeleteServer, ShardCalls!ShutdownCopy,
         HC!Shard!ShutdownCopy, ShardCalls!ShutdownKill, HC!Shard!ShutdownKill,
         ShardCalls!StartServe, HC!Shard!StartServe, ShardCalls!AddServer, HC!Shard!AddServer,
         ShardCalls!CleanupAll, HC!Shard!CleanupAll, ShardCalls!Cleanup, HC!Shard!Cleanup
<1> QED BY <1>1, <1>2 DEF ShardCalls!vars, HC!Shard!vars, ShardCalls!network, HC!Shard!network,
         ShardCalls!inFlight, HC!Shard!inFlight, ShardCalls!harnessVars, HC!Shard!harnessVars

LEMMA ShardRestartSame ==
  /\ ShardRestart!Init <=> HT!Shard!Init
  /\ [ShardRestart!Next]_ShardRestart!vars <=> [HT!Shard!Next]_HT!Shard!vars
<1>1. ShardRestart!Init <=> HT!Shard!Init
  BY DEF ShardRestart!Init, HT!Shard!Init, ShardRestart!StartEnds, HT!Shard!StartEnds,
         ShardRestart!PeerEnds, HT!Shard!PeerEnds, ShardRestart!Peers, HT!Shard!Peers,
         ShardRestart!Shards, HT!Shard!Shards, ShardRestart!CtrlEnds, HT!Shard!CtrlEnds,
         ShardRestart!AllEnds, HT!Shard!AllEnds, ShardRestart!Gens, HT!Shard!Gens,
         ShardRestart!MadeEnds, HT!Shard!MadeEnds, ShardRestart!ClerkIds, HT!Shard!ClerkIds,
         ShardRestart!Instances, HT!Shard!Instances, ShardRestart!Names, HT!Shard!Names,
         ShardRestart!Idle, HT!Shard!Idle
<1>2. ShardRestart!Next <=> HT!Shard!Next
  BY DEF ShardRestart!Next, HT!Shard!Next, ShardRestart!AllEnds, HT!Shard!AllEnds,
         ShardRestart!PeerEnds, HT!Shard!PeerEnds, ShardRestart!Peers, HT!Shard!Peers,
         ShardRestart!Shards, HT!Shard!Shards, ShardRestart!Gens, HT!Shard!Gens,
         ShardRestart!CtrlEnds, HT!Shard!CtrlEnds, ShardRestart!MadeEnds, HT!Shard!MadeEnds,
         ShardRestart!ClerkIds, HT!Shard!ClerkIds, ShardRestart!Instances, HT!Shard!Instances,
         ShardRestart!Names, HT!Shard!Names, ShardRestart!MakeCall, HT!Shard!MakeCall,
         ShardRestart!Actors, HT!Shard!Actors, ShardRestart!Call, HT!Shard!Call,
         ShardRestart!Goto, HT!Shard!Goto, ShardRestart!netVars, HT!Shard!netVars,
         ShardRestart!harnessVars, HT!Shard!harnessVars, ShardRestart!MakeEndTo,
         HT!Shard!MakeEndTo, ShardRestart!OpenEnds, HT!Shard!OpenEnds, ShardRestart!inFlight,
         HT!Shard!inFlight, ShardRestart!Handle, HT!Shard!Handle, ShardRestart!HandlerReturn,
         HT!Shard!HandlerReturn, ShardRestart!Network, HT!Shard!Network, ShardRestart!Send,
         HT!Shard!Send, ShardRestart!Refuse, HT!Shard!Refuse, ShardRestart!ProcessReq,
         HT!Shard!ProcessReq, ShardRestart!ReadEndnameInfo, HT!Shard!ReadEndnameInfo,
         ShardRestart!ServerOf, HT!Shard!ServerOf, ShardRestart!DropRequest,
         HT!Shard!DropRequest, ShardRestart!Dispatch, HT!Shard!Dispatch,
         ShardRestart!AwaitReply, HT!Shard!AwaitReply, ShardRestart!AwaitPoll,
         HT!Shard!AwaitPoll, ShardRestart!IsServerDead, HT!Shard!IsServerDead,
         ShardRestart!Recheck, HT!Shard!Recheck, ShardRestart!Reply, HT!Shard!Reply,
         ShardRestart!NetExit, HT!Shard!NetExit, ShardRestart!callVars, HT!Shard!callVars,
         ShardRestart!Tester1, HT!Shard!Tester1, ShardRestart!MakeClient, HT!Shard!MakeClient,
         ShardRestart!Unlocked, HT!Shard!Unlocked, ShardRestart!DeleteClient,
         HT!Shard!DeleteClient, ShardRestart!network, HT!Shard!network, ShardRestart!Joinm,
         HT!Shard!Joinm, ShardRestart!Idle, HT!Shard!Idle, ShardRestart!Leavem, HT!Shard!Leavem,
         ShardRestart!ShutdownDisable, HT!Shard!ShutdownDisable, ShardRestart!Disabled,
         HT!Shard!Disabled, ShardRestart!StartServer, HT!Shard!StartServer,
         ShardRestart!NewEnds, HT!Shard!NewEnds, ShardRestart!StartEnds, HT!Shard!StartEnds,
         ShardRestart!Copy, HT!Shard!Copy, ShardRestart!Disk, HT!Shard!Disk, ShardRestart!Give,
         HT!Shard!Give, ShardRestart!ShutdownDelete, HT!Shard!ShutdownDelete,
         ShardRestart!DeleteServer, HT!Shard!DeleteServer, ShardRestart!ShutdownCopy,
         HT!Shard!ShutdownCopy, ShardRestart!ShutdownKill, HT!Shard!ShutdownKill,
         ShardRestart!StartServe, HT!Shard!StartServe, ShardRestart!AddServer,
         HT!Shard!AddServer, ShardRestart!CleanupAll, HT!Shard!CleanupAll, ShardRestart!Cleanup,
         HT!Shard!Cleanup
<1> QED BY <1>1, <1>2 DEF ShardRestart!vars, HT!Shard!vars, ShardRestart!network,
         HT!Shard!network, ShardRestart!inFlight, HT!Shard!inFlight, ShardRestart!harnessVars,
         HT!Shard!harnessVars

LEMMA ClerkConfigsSame ==
  /\ ClerkConfigs!Init <=> HC!Clerk!Init
  /\ [ClerkConfigs!Next]_ClerkConfigs!vars <=> [HC!Clerk!Next]_HC!Clerk!vars
<1>1. ClerkConfigs!Init <=> HC!Clerk!Init
  BY DEF ClerkConfigs!Init, HC!Clerk!Init, ClerkConfigs!Actors, HC!Clerk!Actors,
         ClerkConfigs!Config0, HC!Clerk!Config0, ClerkConfigs!Shards, HC!Clerk!Shards,
         ClerkConfigs!NoReply, HC!Clerk!NoReply, ClerkConfigs!Ctrler, HC!Clerk!Ctrler
<1>2. ClerkConfigs!Next <=> HC!Clerk!Next
  BY DEF ClerkConfigs!Next, HC!Clerk!Next, ClerkConfigs!Begin, HC!Clerk!Begin, ClerkConfigs!Set,
         HC!Clerk!Set, ClerkConfigs!service, HC!Clerk!service, ClerkConfigs!Actors,
         HC!Clerk!Actors, ClerkConfigs!ClerkStep, HC!Clerk!ClerkStep, ClerkConfigs!Look,
         HC!Clerk!Look, ClerkConfigs!shard, HC!Clerk!shard, ClerkConfigs!Key2Shard,
         HC!Clerk!Key2Shard, ClerkConfigs!CallHandled, HC!Clerk!CallHandled,
         ClerkConfigs!KvHandle, HC!Clerk!KvHandle, ClerkConfigs!KvErr, HC!Clerk!KvErr,
         ClerkConfigs!Group, HC!Clerk!Group, ClerkConfigs!NoReply, HC!Clerk!NoReply,
         ClerkConfigs!Config0, HC!Clerk!Config0, ClerkConfigs!Shards, HC!Clerk!Shards,
         ClerkConfigs!CallReturned, HC!Clerk!CallReturned, ClerkConfigs!AfterReply,
         HC!Clerk!AfterReply, ClerkConfigs!Return, HC!Clerk!Return, ClerkConfigs!NextServer,
         HC!Clerk!NextServer, ClerkConfigs!CallFailed, HC!Clerk!CallFailed, ClerkConfigs!Abandon,
         HC!Clerk!Abandon, ClerkConfigs!Request, HC!Clerk!Request, ClerkConfigs!AskHandled,
         HC!Clerk!AskHandled, ClerkConfigs!CtrlHandle, HC!Clerk!CtrlHandle, ClerkConfigs!Ctrler,
         HC!Clerk!Ctrler, ClerkConfigs!NextConfig, HC!Clerk!NextConfig, ClerkConfigs!Latest,
         HC!Clerk!Latest, ClerkConfigs!Assign, HC!Clerk!Assign, ClerkConfigs!AskReturned,
         HC!Clerk!AskReturned, ClerkConfigs!AfterAsk, HC!Clerk!AfterAsk, ClerkConfigs!NextCtrler,
         HC!Clerk!NextCtrler, ClerkConfigs!AskFailed, HC!Clerk!AskFailed, ClerkConfigs!AdminBegin,
         HC!Clerk!AdminBegin, ClerkConfigs!Migrate, HC!Clerk!Migrate, ClerkConfigs!Elect,
         HC!Clerk!Elect, ClerkConfigs!Servers, HC!Clerk!Servers, ClerkConfigs!LateHandle,
         HC!Clerk!LateHandle, ClerkConfigs!Cardinality, HC!Clerk!Cardinality
<1> QED BY <1>1, <1>2 DEF ClerkConfigs!vars, HC!Clerk!vars

LEMMA ClerkElectionSame ==
  /\ ClerkElection!Init <=> HT!Clerk!Init
  /\ [ClerkElection!Next]_ClerkElection!vars <=> [HT!Clerk!Next]_HT!Clerk!vars
<1>1. ClerkElection!Init <=> HT!Clerk!Init
  BY DEF ClerkElection!Init, HT!Clerk!Init, ClerkElection!Actors, HT!Clerk!Actors,
         ClerkElection!Config0, HT!Clerk!Config0, ClerkElection!Shards, HT!Clerk!Shards,
         ClerkElection!NoReply, HT!Clerk!NoReply, ClerkElection!Ctrler, HT!Clerk!Ctrler
<1>2. ClerkElection!Next <=> HT!Clerk!Next
  BY DEF ClerkElection!Next, HT!Clerk!Next, ClerkElection!Begin, HT!Clerk!Begin,
         ClerkElection!Set, HT!Clerk!Set, ClerkElection!service, HT!Clerk!service,
         ClerkElection!Actors, HT!Clerk!Actors, ClerkElection!ClerkStep, HT!Clerk!ClerkStep,
         ClerkElection!Look, HT!Clerk!Look, ClerkElection!shard, HT!Clerk!shard,
         ClerkElection!Key2Shard, HT!Clerk!Key2Shard, ClerkElection!CallHandled,
         HT!Clerk!CallHandled, ClerkElection!KvHandle, HT!Clerk!KvHandle, ClerkElection!KvErr,
         HT!Clerk!KvErr, ClerkElection!Group, HT!Clerk!Group, ClerkElection!NoReply,
         HT!Clerk!NoReply, ClerkElection!Config0, HT!Clerk!Config0, ClerkElection!Shards,
         HT!Clerk!Shards, ClerkElection!CallReturned, HT!Clerk!CallReturned,
         ClerkElection!AfterReply, HT!Clerk!AfterReply, ClerkElection!Return, HT!Clerk!Return,
         ClerkElection!NextServer, HT!Clerk!NextServer, ClerkElection!CallFailed,
         HT!Clerk!CallFailed, ClerkElection!Abandon, HT!Clerk!Abandon, ClerkElection!Request,
         HT!Clerk!Request, ClerkElection!AskHandled, HT!Clerk!AskHandled,
         ClerkElection!CtrlHandle, HT!Clerk!CtrlHandle, ClerkElection!Ctrler, HT!Clerk!Ctrler,
         ClerkElection!NextConfig, HT!Clerk!NextConfig, ClerkElection!Latest, HT!Clerk!Latest,
         ClerkElection!Assign, HT!Clerk!Assign, ClerkElection!AskReturned, HT!Clerk!AskReturned,
         ClerkElection!AfterAsk, HT!Clerk!AfterAsk, ClerkElection!NextCtrler, HT!Clerk!NextCtrler,
         ClerkElection!AskFailed, HT!Clerk!AskFailed, ClerkElection!AdminBegin,
         HT!Clerk!AdminBegin, ClerkElection!Migrate, HT!Clerk!Migrate, ClerkElection!Elect,
         HT!Clerk!Elect, ClerkElection!Servers, HT!Clerk!Servers, ClerkElection!LateHandle,
         HT!Clerk!LateHandle, ClerkElection!Cardinality, HT!Clerk!Cardinality
<1> QED BY <1>1, <1>2 DEF ClerkElection!vars, HT!Clerk!vars

-----------------------------------------------------------------------------
(* A behaviour of MCHarness and those of the components.                   *)

\* In "raft" a behaviour is one of Raft; in another configuration it stays there.
LEMMA RaftRuns == Spec => []~(config = "raft") \/ (HC!Raft!Spec /\ [](config = "raft"))
<1>1. Init /\ config = "raft" => HC!Raft!Init
  BY RaftSame DEF Init
<1>2. [Next]_vars => (config = "raft" <=> (config = "raft")')
                     /\ (config = "raft" => [HC!Raft!Next]_HC!Raft!vars)
  BY RaftSame DEF Next, vars, harnessVars, clerkVars, kvVars, shardVars, Raft!vars,
         Raft!network, Raft!inFlight, Raft!harnessVars
<1> QED BY <1>1, <1>2, PTL DEF Spec, HC!Raft!Spec

\* In "kv topology" a behaviour is one of KvTopology; in another configuration it stays there.
LEMMA KvTopologyRuns == Spec => []~(config = "kv topology") \/ (HT!Spec /\ [](config = "kv topology"))
<1>1. Init /\ config = "kv topology" => HT!Init
  BY KvTopologySame DEF Init
<1>2. [Next]_vars => (config = "kv topology" <=> (config = "kv topology")')
                     /\ (config = "kv topology" => [HT!Next]_HT!vars)
  BY KvTopologySame DEF Next, vars, harnessVars, clerkVars, raftVars, shardVars,
         KvTopology!vars, KvTopology!network, KvTopology!inFlight, KvTopology!harnessVars
<1> QED BY <1>1, <1>2, PTL DEF Spec, HT!Spec

\* In "kv calls" a behaviour is one of KvCalls; in another configuration it stays there.
LEMMA KvCallsRuns == Spec => []~(config = "kv calls") \/ (HC!Spec /\ [](config = "kv calls"))
<1>1. Init /\ config = "kv calls" => HC!Init
  BY KvCallsSame DEF Init
<1>2. [Next]_vars => (config = "kv calls" <=> (config = "kv calls")')
                     /\ (config = "kv calls" => [HC!Next]_HC!vars)
  BY KvCallsSame DEF Next, vars, harnessVars, clerkVars, raftVars, shardVars, KvCalls!vars,
         KvCalls!network, KvCalls!inFlight, KvCalls!harnessVars
<1> QED BY <1>1, <1>2, PTL DEF Spec, HC!Spec

\* In "shard calls" a behaviour is one of ShardCalls; in another configuration it stays there.
LEMMA ShardCallsRuns == Spec => []~(config = "shard calls") \/ (HC!Shard!Spec /\ [](config = "shard calls"))
<1>1. Init /\ config = "shard calls" => HC!Shard!Init
  BY ShardCallsSame DEF Init
<1>2. [Next]_vars => (config = "shard calls" <=> (config = "shard calls")')
                     /\ (config = "shard calls" => [HC!Shard!Next]_HC!Shard!vars)
  BY ShardCallsSame DEF Next, vars, harnessVars, clerkVars, raftVars, kvVars, ShardCalls!vars,
         ShardCalls!network, ShardCalls!inFlight, ShardCalls!harnessVars
<1> QED BY <1>1, <1>2, PTL DEF Spec, HC!Shard!Spec

\* In "shard restart" a behaviour is one of ShardRestart; in another configuration it stays there.
LEMMA ShardRestartRuns == Spec => []~(config = "shard restart") \/ (HT!Shard!Spec /\ [](config = "shard restart"))
<1>1. Init /\ config = "shard restart" => HT!Shard!Init
  BY ShardRestartSame DEF Init
<1>2. [Next]_vars => (config = "shard restart" <=> (config = "shard restart")')
                     /\ (config = "shard restart" => [HT!Shard!Next]_HT!Shard!vars)
  BY ShardRestartSame DEF Next, vars, harnessVars, clerkVars, raftVars, kvVars,
         ShardRestart!vars, ShardRestart!network, ShardRestart!inFlight,
         ShardRestart!harnessVars
<1> QED BY <1>1, <1>2, PTL DEF Spec, HT!Shard!Spec

\* In "clerk configs" a behaviour is one of ClerkConfigs; in another configuration it stays there.
LEMMA ClerkConfigsRuns == Spec => []~(config = "clerk configs") \/ (HC!Clerk!Spec /\ [](config = "clerk configs"))
<1>1. Init /\ config = "clerk configs" => HC!Clerk!Init
  BY ClerkConfigsSame DEF Init
<1>2. [Next]_vars => (config = "clerk configs" <=> (config = "clerk configs")')
                     /\ (config = "clerk configs" => [HC!Clerk!Next]_HC!Clerk!vars)
  BY ClerkConfigsSame DEF Next, vars, harnessVars, clerkVars, raftVars, kvVars, shardVars,
         ClerkConfigs!vars
<1> QED BY <1>1, <1>2, PTL DEF Spec, HC!Clerk!Spec

\* In "clerk election" a behaviour is one of ClerkElection; in another configuration it stays there.
LEMMA ClerkElectionRuns == Spec => []~(config = "clerk election") \/ (HT!Clerk!Spec /\ [](config = "clerk election"))
<1>1. Init /\ config = "clerk election" => HT!Clerk!Init
  BY ClerkElectionSame DEF Init
<1>2. [Next]_vars => (config = "clerk election" <=> (config = "clerk election")')
                     /\ (config = "clerk election" => [HT!Clerk!Next]_HT!Clerk!vars)
  BY ClerkElectionSame DEF Next, vars, harnessVars, clerkVars, raftVars, kvVars, shardVars,
         ClerkElection!vars
<1> QED BY <1>1, <1>2, PTL DEF Spec, HT!Clerk!Spec

\* The constants that MCHarness gives meet the assumptions.
LEMMA Assumed ==
  /\ HC!Raft!HarnessAssumption
  /\ HT!KvHarnessAssumption
  /\ HC!KvHarnessAssumption
  /\ HC!Shard!ShardHarnessAssumption
  /\ HT!Shard!ShardHarnessAssumption
  /\ HC!Clerk!ShardClerkAssumption
  /\ HT!Clerk!ShardClerkAssumption
<1>1. HC!Raft!HarnessAssumption
  BY Configured DEF Raft!HarnessAssumption, HC!Raft!HarnessAssumption
<1>2. HT!KvHarnessAssumption
  BY Configured DEF KvTopology!KvHarnessAssumption, HT!KvHarnessAssumption
<1>3. HC!KvHarnessAssumption
  BY Configured DEF KvCalls!KvHarnessAssumption, HC!KvHarnessAssumption
<1>4. HC!Shard!ShardHarnessAssumption
  BY Configured DEF ShardCalls!ShardHarnessAssumption, HC!Shard!ShardHarnessAssumption,
         ShardCalls!Cardinality, HC!Shard!Cardinality
<1>5. HT!Shard!ShardHarnessAssumption
  BY Configured DEF ShardRestart!ShardHarnessAssumption, HT!Shard!ShardHarnessAssumption,
         ShardRestart!Cardinality, HT!Shard!Cardinality
<1>6. HC!Clerk!ShardClerkAssumption
  BY Configured DEF ClerkConfigs!ShardClerkAssumption, HC!Clerk!ShardClerkAssumption
<1>7. HT!Clerk!ShardClerkAssumption
  BY Configured DEF ClerkElection!ShardClerkAssumption, HT!Clerk!ShardClerkAssumption
<1> QED BY <1>1, <1>2, <1>3, <1>4, <1>5, <1>6, <1>7

-----------------------------------------------------------------------------
(* Theorems.                                                               *)

\* In the harnesses of all three labs a call that returned true has its update in
\* the Persister that the next instance of its server will be given.
THEOREM UpdatesSurvive == Spec => []AckedSurvives
<1>1. HC!Raft!Spec => []HC!Raft!AckedSurvives
  BY Assumed, HC!AcknowledgedSurvives
<1>2. HC!Raft!AckedSurvives => Raft!AckedSurvives
  BY DEF Raft!AckedSurvives, HC!Raft!AckedSurvives, Raft!Disk, HC!Raft!Disk
<1>3. HC!Spec => []HC!AckedSurvives
  BY Assumed, HC!KvAckedSurvives
<1>4. HC!AckedSurvives => KvCalls!AckedSurvives
  BY DEF KvCalls!AckedSurvives, HC!AckedSurvives, KvCalls!Disk, HC!Disk
<1>5. HC!Shard!Spec => []HC!Shard!AckedSurvives
  BY Assumed, HC!ShAckedSurvives
<1>6. HC!Shard!AckedSurvives => ShardCalls!AckedSurvives
  BY DEF ShardCalls!AckedSurvives, HC!Shard!AckedSurvives, ShardCalls!Disk, HC!Shard!Disk
<1>7. /\ (config = "raft" => Raft!AckedSurvives)
      /\ (config = "kv calls" => KvCalls!AckedSurvives)
      /\ (config = "shard calls" => ShardCalls!AckedSurvives)
      => AckedSurvives
  BY DEF AckedSurvives
<1> QED BY <1>1, <1>2, <1>3, <1>4, <1>5, <1>6, <1>7, RaftRuns, KvCallsRuns, ShardCallsRuns, PTL

\* A restart is given one consistent Persister of its own: crash1 copies state and
\* snapshot of one save, and no killed instance of shardkv saves into a later one's.
THEOREM PersistersAreOwn == Spec => []PersistersApart
<1>1. HC!Raft!Spec => []HC!Raft!SavedInSync
  BY Assumed, HC!SavesAreWhole
<1>2. HC!Raft!SavedInSync => Raft!SavedInSync
  BY DEF Raft!SavedInSync, HC!Raft!SavedInSync, Raft!Disk, HC!Raft!Disk
<1>3. HT!Shard!Spec => []HT!Shard!PersistersApart
  BY Assumed, HT!ShPersistersApart
<1>4. HT!Shard!PersistersApart => ShardRestart!PersistersApart
  BY DEF ShardRestart!PersistersApart, HT!Shard!PersistersApart, ShardRestart!Instances,
         HT!Shard!Instances, ShardRestart!Names, HT!Shard!Names, ShardRestart!Shards,
         HT!Shard!Shards, ShardRestart!Gens, HT!Shard!Gens
<1>5. /\ (config = "raft" => Raft!SavedInSync)
      /\ (config = "shard restart" => ShardRestart!PersistersApart)
      => PersistersApart
  BY DEF PersistersApart
<1> QED BY <1>1, <1>2, <1>3, <1>4, <1>5, RaftRuns, ShardRestartRuns, PTL

\* What an instance sends after it was shut down reaches no Raft peer and no server of
\* kvraft, and in shardkv no one except over an end it made with make_end.
THEOREM DeadAreSilent == Spec => []DeadIsSilent
<1>1. HC!Raft!Spec => []HC!Raft!CrashedIsSilent
  BY Assumed, HC!KilledIsSilent
<1>2. HC!Raft!CrashedIsSilent => Raft!CrashedIsSilent
  BY DEF Raft!CrashedIsSilent, HC!Raft!CrashedIsSilent
<1>3. HT!Spec => []HT!DeadIsSilent
  BY Assumed, HT!KvDeadIsSilent
<1>4. HT!DeadIsSilent => KvTopology!DeadIsSilent
  BY DEF KvTopology!DeadIsSilent, HT!DeadIsSilent, KvTopology!ServerEnds, HT!ServerEnds,
         KvTopology!Names, HT!Names, KvTopology!Gens, HT!Gens
<1>5. HC!Shard!Spec => []HC!Shard!SilentOnStartEnds
  BY Assumed, HC!ShSilentOnStartEnds
<1>6. HC!Shard!SilentOnStartEnds => ShardCalls!SilentOnStartEnds
  BY DEF ShardCalls!SilentOnStartEnds, HC!Shard!SilentOnStartEnds
<1>7. /\ (config = "raft" => Raft!CrashedIsSilent)
      /\ (config = "kv topology" => KvTopology!DeadIsSilent)
      /\ (config = "shard calls" => ShardCalls!SilentOnStartEnds)
      => DeadIsSilent
  BY DEF DeadIsSilent
<1> QED BY <1>1, <1>2, <1>3, <1>4, <1>5, <1>6, <1>7, RaftRuns, KvTopologyRuns, ShardCallsRuns,
           PTL

\* Servers reach each other as the last partition of kvraft says, with the leader that
\* make_partition found in a minority; the running servers of a group of shardkv do.
THEOREM ReachedAsTold == Spec => []ConnectedAsTold
<1>1. HT!Spec => []HT!PartitionHolds
  BY Assumed, HT!KvPartitionHolds
<1>2. HT!Spec => []HT!LeaderInMinority
  BY Assumed, HT!KvLeaderInMinority
<1>3. HT!PartitionHolds /\ HT!LeaderInMinority => KvTopology!PartitionHolds /\ KvTopology!LeaderInMinority
  <2>1. \A S : KvTopology!Cardinality(S) = HT!Cardinality(S)
    BY DEF KvTopology!Cardinality, HT!Cardinality
  <2> QED
    BY <2>1 DEF KvTopology!PartitionHolds, HT!PartitionHolds, KvTopology!Whole, HT!Whole,
           KvTopology!Names, HT!Names, KvTopology!LeaderInMinority, HT!LeaderInMinority
<1>4. HT!Shard!Spec => []HT!Shard!GroupConnected
  BY Assumed, HT!ShGroupConnected
<1>5. HT!Shard!GroupConnected => ShardRestart!GroupConnected
  BY DEF ShardRestart!GroupConnected, HT!Shard!GroupConnected, ShardRestart!Idle, HT!Shard!Idle,
         ShardRestart!Shards, HT!Shard!Shards, ShardRestart!Peers, HT!Shard!Peers
<1>6. /\ (config = "kv topology" => KvTopology!PartitionHolds /\ KvTopology!LeaderInMinority)
      /\ (config = "shard restart" => ShardRestart!GroupConnected)
      => ConnectedAsTold
  BY DEF ConnectedAsTold
<1> QED BY <1>1, <1>2, <1>3, <1>4, <1>5, <1>6, KvTopologyRuns, ShardRestartRuns, PTL

\* A Get of shardkv's clerk returns a value that the key had after it was called, and
\* the appends that returned are in the value, first applied in the order of the calls.
THEOREM ClerksInOrder == Spec => []OperationsInOrder
<1>1. HC!Clerk!Spec => []HC!Clerk!ReadInInterval
  BY Assumed, HC!ReadsInInterval
<1>2. HC!Clerk!Spec => []HC!Clerk!AppendsInOrder
  BY Assumed, HC!AppendsKeepOrder
<1>3. HC!Clerk!ReadInInterval /\ HC!Clerk!AppendsInOrder => ClerkConfigs!ReadInInterval /\ ClerkConfigs!AppendsInOrder
  BY DEF ClerkConfigs!ReadInInterval, HC!Clerk!ReadInInterval, ClerkConfigs!Done, HC!Clerk!Done,
         ClerkConfigs!AppendsInOrder, HC!Clerk!AppendsInOrder, ClerkConfigs!FirstIn,
         HC!Clerk!FirstIn, ClerkConfigs!Range, HC!Clerk!Range
<1>4. HT!Clerk!Spec => []HT!Clerk!ReadInInterval
  BY Assumed, HT!ReadsInInterval
<1>5. HT!Clerk!Spec => []HT!Clerk!AppendsInOrder
  BY Assumed, HT!AppendsKeepOrder
<1>6. HT!Clerk!ReadInInterval /\ HT!Clerk!AppendsInOrder => ClerkElection!ReadInInterval /\ ClerkElection!AppendsInOrder
  BY DEF ClerkElection!ReadInInterval, HT!Clerk!ReadInInterval, ClerkElection!Done, HT!Clerk!Done,
         ClerkElection!AppendsInOrder, HT!Clerk!AppendsInOrder, ClerkElection!FirstIn,
         HT!Clerk!FirstIn, ClerkElection!Range, HT!Clerk!Range
<1>7. /\ (config = "clerk configs" => ClerkConfigs!ReadInInterval /\ ClerkConfigs!AppendsInOrder)
      /\ (config = "clerk election" => ClerkElection!ReadInInterval /\ ClerkElection!AppendsInOrder)
      => OperationsInOrder
  BY DEF OperationsInOrder
<1> QED BY <1>1, <1>2, <1>3, <1>4, <1>5, <1>6, <1>7, ClerkConfigsRuns, ClerkElectionRuns, PTL

Configs == {"raft", "kv topology", "kv calls", "shard calls", "shard restart", "clerk configs",
            "clerk election"}

\* All harnesses and clerks keep their variables in their types.
THEOREM HarnessesTyped == Spec => []TypeOK
<1>1. HC!Raft!Spec => []HC!Raft!TypeOK
  BY Assumed, HC!HarnessTypes
<1>2. HC!Raft!TypeOK => Raft!TypeOK
  BY DEF Raft!TypeOK, HC!Raft!TypeOK, Raft!RpcTypeOK, HC!Raft!RpcTypeOK, Raft!Gens,
         HC!Raft!Gens, Raft!Instances, HC!Raft!Instances, Raft!AllEnds, HC!Raft!AllEnds
<1>3. HT!Spec => []HT!TypeOK
  BY Assumed, HT!KvTypeOK
<1>4. HT!TypeOK => KvTopology!TypeOK
  BY DEF KvTopology!TypeOK, HT!TypeOK, KvTopology!RpcTypeOK, HT!RpcTypeOK, KvTopology!Names,
         HT!Names, KvTopology!Gens, HT!Gens, KvTopology!AllEnds, HT!AllEnds,
         KvTopology!ServerEnds, HT!ServerEnds, KvTopology!ClerkEnds, HT!ClerkEnds,
         KvTopology!Instances, HT!Instances
<1>5. HC!Spec => []HC!TypeOK
  BY Assumed, HC!KvTypeOK
<1>6. HC!TypeOK => KvCalls!TypeOK
  BY DEF KvCalls!TypeOK, HC!TypeOK, KvCalls!RpcTypeOK, HC!RpcTypeOK, KvCalls!Names, HC!Names,
         KvCalls!Gens, HC!Gens, KvCalls!AllEnds, HC!AllEnds, KvCalls!ServerEnds, HC!ServerEnds,
         KvCalls!ClerkEnds, HC!ClerkEnds, KvCalls!Instances, HC!Instances
<1>7. HC!Shard!Spec => []HC!Shard!TypeOK
  BY Assumed, HC!ShTypeOK
<1>8. HC!Shard!TypeOK => ShardCalls!TypeOK
  <2>1. ShardCalls!AllEnds = HC!Shard!AllEnds
    BY DEF ShardCalls!AllEnds, HC!Shard!AllEnds, ShardCalls!PeerEnds, HC!Shard!PeerEnds,
           ShardCalls!Peers, HC!Shard!Peers, ShardCalls!Shards, HC!Shard!Shards,
           ShardCalls!Gens, HC!Shard!Gens, ShardCalls!CtrlEnds, HC!Shard!CtrlEnds,
           ShardCalls!MadeEnds, HC!Shard!MadeEnds, ShardCalls!ClerkIds, HC!Shard!ClerkIds,
           ShardCalls!Instances, HC!Shard!Instances, ShardCalls!Names, HC!Shard!Names
  <2>2. ShardCalls!Shards = HC!Shard!Shards /\ ShardCalls!Names = HC!Shard!Names /\ ShardCalls!Gens = HC!Shard!Gens
        /\ ShardCalls!Instances = HC!Shard!Instances
    BY DEF ShardCalls!Instances, HC!Shard!Instances, ShardCalls!Names, HC!Shard!Names,
           ShardCalls!Shards, HC!Shard!Shards, ShardCalls!Gens, HC!Shard!Gens
  <2>3. ShardCalls!RpcTypeOK <=> HC!Shard!RpcTypeOK
    BY <2>1, <2>2 DEF ShardCalls!RpcTypeOK, HC!Shard!RpcTypeOK
  <2> QED BY <2>2, <2>3 DEF ShardCalls!TypeOK, HC!Shard!TypeOK
<1>9. HT!Shard!Spec => []HT!Shard!TypeOK
  BY Assumed, HT!ShTypeOK
<1>10. HT!Shard!TypeOK => ShardRestart!TypeOK
  <2>1. ShardRestart!AllEnds = HT!Shard!AllEnds
    BY DEF ShardRestart!AllEnds, HT!Shard!AllEnds, ShardRestart!PeerEnds, HT!Shard!PeerEnds,
           ShardRestart!Peers, HT!Shard!Peers, ShardRestart!Shards, HT!Shard!Shards,
           ShardRestart!Gens, HT!Shard!Gens, ShardRestart!CtrlEnds, HT!Shard!CtrlEnds,
           ShardRestart!MadeEnds, HT!Shard!MadeEnds, ShardRestart!ClerkIds, HT!Shard!ClerkIds,
           ShardRestart!Instances, HT!Shard!Instances, ShardRestart!Names, HT!Shard!Names
  <2>2. ShardRestart!Shards = HT!Shard!Shards /\ ShardRestart!Names = HT!Shard!Names /\ ShardRestart!Gens = HT!Shard!Gens
        /\ ShardRestart!Instances = HT!Shard!Instances
    BY DEF ShardRestart!Instances, HT!Shard!Instances, ShardRestart!Names, HT!Shard!Names,
           ShardRestart!Shards, HT!Shard!Shards, ShardRestart!Gens, HT!Shard!Gens
  <2>3. ShardRestart!RpcTypeOK <=> HT!Shard!RpcTypeOK
    BY <2>1, <2>2 DEF ShardRestart!RpcTypeOK, HT!Shard!RpcTypeOK
  <2> QED BY <2>2, <2>3 DEF ShardRestart!TypeOK, HT!Shard!TypeOK
<1>11. HC!Clerk!Spec => []HC!Clerk!TypeOK
  BY Assumed, HC!ClerkTyped
<1>12. HC!Clerk!TypeOK => ClerkConfigs!TypeOK
  BY DEF ClerkConfigs!TypeOK, HC!Clerk!TypeOK, ClerkConfigs!Actors, HC!Clerk!Actors,
         ClerkConfigs!Servers, HC!Clerk!Servers, ClerkConfigs!Range, HC!Clerk!Range
<1>13. HT!Clerk!Spec => []HT!Clerk!TypeOK
  BY Assumed, HT!ClerkTyped
<1>14. HT!Clerk!TypeOK => ClerkElection!TypeOK
  BY DEF ClerkElection!TypeOK, HT!Clerk!TypeOK, ClerkElection!Actors, HT!Clerk!Actors,
         ClerkElection!Servers, HT!Clerk!Servers, ClerkElection!Range, HT!Clerk!Range
<1>15. Spec => [](config \in Configs)
  <2>1. Init => config \in Configs
    BY DEF Init, Configs
  <2>2. config \in Configs /\ [Next]_vars => (config \in Configs)'
    BY DEF Next, vars, Configs
  <2> QED BY <2>1, <2>2, PTL DEF Spec
<1>16. /\ config \in Configs
      /\ (config = "raft" => Raft!TypeOK)
      /\ (config = "kv topology" => KvTopology!TypeOK)
      /\ (config = "kv calls" => KvCalls!TypeOK)
      /\ (config = "shard calls" => ShardCalls!TypeOK)
      /\ (config = "shard restart" => ShardRestart!TypeOK)
      /\ (config = "clerk configs" => ClerkConfigs!TypeOK)
      /\ (config = "clerk election" => ClerkElection!TypeOK)
      => TypeOK
  BY DEF TypeOK, Configs
<1> QED BY <1>1, <1>2, <1>3, <1>4, <1>5, <1>6, <1>7, <1>8, <1>9, <1>10, <1>11, <1>12, <1>13,
           <1>14, <1>15, <1>16, RaftRuns, KvTopologyRuns, KvCallsRuns, ShardCallsRuns,
           ShardRestartRuns, ClerkConfigsRuns, ClerkElectionRuns, PTL

\* The configuration that shardkv's clerk works with never goes back, whatever it is told by
\* which controller; the harnesses have no clerk of this kind.
THEOREM ConfigsNeverGoBack == Spec => ConfigMonotonic
<1> DEFINE Clerked == config \in {"clerk configs", "clerk election"}
           Up == ck # NoVar => ck'[k1].cfg.num >= ck[k1].cfg.num
<1>1. Spec => [](Clerked \/ ck = NoVar)
  <2>1. Init => Clerked \/ ck = NoVar
    BY DEF Init, NoClerk
  <2>2. (Clerked \/ ck = NoVar) /\ [Next]_vars => (Clerked \/ ck = NoVar)'
    BY DEF Next, vars, clerkVars
  <2> QED BY <2>1, <2>2, PTL DEF Spec
<1>2. /\ HC!Clerk!Spec => HC!Clerk!ConfigMonotonic
      /\ HT!Clerk!Spec => HT!Clerk!ConfigMonotonic
  BY Assumed, HC!ConfigsMonotonic, HT!ConfigsMonotonic
<1>3. config = "clerk configs" /\ [Next]_vars
        /\ [\A c \in {k1} : ck'[c].cfg.num >= ck[c].cfg.num]_HC!Clerk!vars => [Up]_vars
  BY DEF Next, vars, clerkVars, HC!Clerk!vars
<1>4. config = "clerk election" /\ [Next]_vars
        /\ [\A c \in {k1} : ck'[c].cfg.num >= ck[c].cfg.num]_HT!Clerk!vars => [Up]_vars
  BY DEF Next, vars, clerkVars, HT!Clerk!vars
<1>5. ck = NoVar => [Up]_vars
  OBVIOUS
<1>6. Clerked <=> config = "clerk configs" \/ config = "clerk election"
  OBVIOUS
<1> HIDE DEF Clerked
<1> QED
  BY <1>1, <1>2, <1>3, <1>4, <1>5, <1>6, ClerkConfigsRuns, ClerkElectionRuns, PTL
     DEF Spec, ConfigMonotonic, HC!Clerk!ConfigMonotonic, HT!Clerk!ConfigMonotonic
=============================================================================
