--------------------------- MODULE HarnessProofs ---------------------------
(***************************************************************************)
(* Theorems about the harnesses of the raft, kvraft and shardkv tests      *)
(* (RaftHarness, KvHarness, ShardHarness), for any servers, instances,     *)
(* clerks and calls; and about ShardClerk, the clerks of shardkv and       *)
(* shardctrler.  A harness has an inductive invariant that follows an      *)
(* update from the handler that saves it into the Persister of its         *)
(* instance to the reply, and from there to the Persister that the next    *)
(* instance will be given.                                                 *)
(***************************************************************************)
EXTENDS KvHarness, NaturalsInduction, WellFoundedInduction, SequenceTheorems, FiniteSetTheorems, TLAPS

CONSTANTS
  Peers, MaxInst, MaxDisks,                                      \* RaftHarness
  Gids, Size, Ctrlers, Clients, MaxShard,                        \* ShardHarness
  Users, Admin, KvGroups, Replicas, NShards, Key, Ops, MaxOps,   \* ShardClerk
  MaxConfigs, MaxElections, MaxStore, MaxFloating, NoGroup

VARIABLES
  rafts, crashed, connected, late,                               \* RaftHarness
  running, killed, joined,                                       \* ShardHarness
  ck, configs, leader, elections, serving, store, floating       \* ShardClerk

Raft  == INSTANCE RaftHarness WITH Names <- Peers, MaxGen <- MaxInst
Shard == INSTANCE ShardHarness WITH Groups <- Gids, N <- Size, Clerks <- Clients, MaxGen <- MaxShard
Clerk == INSTANCE ShardClerk WITH Clerks <- Users, Groups <- KvGroups, N <- Replicas

-----------------------------------------------------------------------------
(* KvHarness.                                                              *)

\* Every nonempty set of natural numbers has a least element.
LEMMA LeastNat ==
  ASSUME NEW T \in SUBSET Nat, T # {}
  PROVE  \E x \in T : \A y \in T : x <= y
<1> DEFINE R == OpToRel(<, Nat)
<1>1. IsWellFoundedOn(R, Nat)
  BY NatLessThanWellFounded
<1>2. R = {ss \in Nat \X Nat : ss[1] < ss[2]}
  BY DEF OpToRel
<1>3. \A x, y \in Nat : x < y => <<x, y>> \in R
  BY <1>2
<1> HIDE DEF R
<1>4. \E x \in T : \A y \in T : ~ (<<y, x>> \in R)
  BY <1>1, WFMin, Zenon
<1>5. PICK x \in T : \A y \in T : ~ (<<y, x>> \in R)
  BY <1>4, Zenon
<1>6. ASSUME NEW y \in T PROVE x <= y
  <2>1. ~(<<y, x>> \in R)
    BY <1>5, Zenon
  <2>2. x \in Nat /\ y \in Nat
    OBVIOUS
  <2>3. ~(y < x)
    BY <1>3, <2>1, <2>2, Zenon
  <2> QED BY <2>2, <2>3
<1> QED BY <1>6

\* A set of numbers that has 0, and with a number below n the next one, has
\* all the numbers up to n.
LEMMA UpTo ==
  ASSUME NEW n \in Nat, NEW P, 0 \in P, \A k \in 0 .. n : k < n /\ k \in P => k + 1 \in P
  PROVE  \A k \in 0 .. n : k \in P
<1> DEFINE T == {k \in 0 .. n : k \notin P}
<1> SUFFICES ASSUME T # {} PROVE FALSE
  OBVIOUS
<1>1. T \in SUBSET Nat
  OBVIOUS
<1>2. PICK x \in T : \A y \in T : x <= y
  BY <1>1, LeastNat
<1>3. x \in 0 .. n /\ x \notin P /\ x # 0
  OBVIOUS
<1>4. x - 1 \in 0 .. n /\ x - 1 < n /\ ~(x <= x - 1)
  BY <1>3
<1>5. x - 1 \in P
  BY <1>2, <1>4
<1>6. (x - 1) + 1 \in P
  BY <1>4, <1>5
<1> QED BY <1>3, <1>6


KvOps == {"idle", "delete", "copy", "kill", "serve"}

KvTypes ==
  /\ RpcTypeOK
  /\ gen \in [Names -> Gens] /\ kvservers \in [Names -> 0 .. MaxGen]
  /\ disks \in [Names -> Seq(SUBSET Calls)] /\ saved \in [Names -> Nat] /\ pers \in [Instances -> Nat]
  /\ clerks \subseteq Clerks
  /\ tester \in [op : KvOps, i : Names]

\* The end-points that exist go where their name says.
KvWired == \A e \in ends : e \in AllEnds /\ connections[e] = e[3]

\* An instance has a Persister not newer than cfg.saved, and one not started yet has none.
KvGiven ==
  \A i \in Names :
    /\ saved[i] \in 1 .. Len(disks[i])
    /\ \A g \in Gens : pers[<<i, g>>] <= saved[i] /\ (g > gen[i] => pers[<<i, g>>] = 0)

\* The instance that is registered is the last one, and saves into cfg.saved.
KvRegistered ==
  /\ \A i \in Names :
       /\ kvservers[i] = 0 => servers[i] = Nil /\ gen[i] < MaxGen
       /\ servers[i] # Nil => servers[i] = <<i, gen[i]>> /\ pers[<<i, gen[i]>>] = saved[i]
  /\ tester.op \in {"delete", "copy", "kill"} => gen[tester.i] < MaxGen
  /\ tester.op \in {"copy", "kill", "serve"} => servers[tester.i] = Nil
  /\ tester.op = "serve" =>
       kvservers[tester.i] # 0 /\ pers[<<tester.i, gen[tester.i]>>] = saved[tester.i]

KvServed(c) == srv[c] \in Instances /\ srv[c] # Nil /\ pers[srv[c]] # 0

\* The update of a handler that has returned is in the Persister of its instance, and in that
\* of the next one once the reply was let through.
KvCall(c) ==
  /\ pc[c] # "idle" => end[c] \in ends
  /\ pc[c] \in {"deliver", "await", "recheck", "replying", "true"} => KvServed(c)
  /\ pc[c] \in {"idle", "send", "process", "deliver"} => handler[c] = "none"
  /\ handler[c] # "none" => KvServed(c)
  /\ handler[c] \in {"ready", "taken"} => c \in disks[srv[c][1]][pers[srv[c]]]
  /\ pc[c] = "recheck" => handler[c] = "taken"
  /\ pc[c] \in {"replying", "true"} => c \in Disk(srv[c][1])

KvCalls == \A c \in Calls : KvCall(c)

\* Only the current instance of a server that is not being shut down has enabled end-points.
KvSilent ==
  \A e \in enabled \cap ServerEnds :
    /\ e[2] = gen[e[1]] /\ kvservers[e[1]] # 0
    /\ tester.op \in {"delete", "copy", "kill"} => e[1] # tester.i

KvInv == KvTypes /\ KvWired /\ KvGiven /\ KvRegistered /\ KvCalls /\ KvSilent

\* make_config leaves the invariant true.
LEMMA KvInitInv == ASSUME KvHarnessAssumption, Init PROVE KvInv
<1> USE DEF KvHarnessAssumption, Init
<1>0. 1 \in Gens /\ 1 \in 0 .. MaxGen /\ 0 \in Names
  BY DEF Gens, Names
<1>1. \A e \in AllEnds : e[3] \in Names
  BY DEF AllEnds, ServerEnds, ClerkEnds
<1>2. RpcTypeOK
  <2>1. ends \subseteq AllEnds /\ enabled \subseteq AllEnds
    BY DEF AllEnds
  <2>2. connections \in [AllEnds -> Names \cup {Nil}]
    BY <1>1
  <2>3. servers \in [Names -> Instances \cup {Nil}]
    BY <1>0 DEF Instances
  <2> QED BY <2>1, <2>2, <2>3 DEF RpcTypeOK
<1>3. KvTypes
  <2>1. gen \in [Names -> Gens] /\ kvservers \in [Names -> 0 .. MaxGen] /\ saved \in [Names -> Nat]
    BY <1>0
  <2>2. disks \in [Names -> Seq(SUBSET Calls)]
    <3>1. <<{}>> \in Seq(SUBSET Calls)
      OBVIOUS
    <3> QED BY <3>1
  <2>3. pers \in [Instances -> Nat]
    OBVIOUS
  <2>4. tester \in [op : KvOps, i : Names] /\ clerks \subseteq Clerks
    BY <1>0 DEF Idle, KvOps
  <2> QED BY <1>2, <2>1, <2>2, <2>3, <2>4 DEF KvTypes
<1>4. KvWired
  BY DEF KvWired, AllEnds
<1>5. KvGiven
  <2>1. \A i \in Names : disks[i] = <<{}>> /\ saved[i] = 1 /\ \A g \in Gens : pers[<<i, g>>] <= 1
    BY DEF Instances
  <2>2. Len(<<{}>>) = 1
    OBVIOUS
  <2>3. \A i \in Names : \A g \in Gens : g > gen[i] => pers[<<i, g>>] = 0
    BY DEF Instances
  <2> QED BY <2>1, <2>2, <2>3 DEF KvGiven
<1>6. KvRegistered
  <2>1. \A i \in Names : kvservers[i] = 1 /\ gen[i] = 1 /\ servers[i] = <<i, 1>> /\ saved[i] = 1 /\ pers[<<i, 1>>] = 1
    BY <1>0 DEF Instances
  <2>2. tester.op = "idle"
    BY DEF Idle
  <2> QED BY <2>1, <2>2 DEF KvRegistered
<1>7. KvCalls
  BY DEF KvCalls, KvCall
<1>8. KvSilent
  <2>1. \A e \in ServerEnds : e[1] \in Names
    BY DEF ServerEnds
  <2>2. tester.op = "idle"
    BY DEF Idle
  <2> QED BY <2>1, <2>2 DEF KvSilent
<1> QED BY <1>3, <1>4, <1>5, <1>6, <1>7, <1>8 DEF KvInv

\* The calls and their processReq leave the harness and the wiring alone.
LEMMA KvRpcStep ==
  ASSUME KvTypes, NEW c \in Calls, (\E e \in AllEnds : MakeCall(c, e)) \/ Network(c)
  PROVE  /\ RpcTypeOK'
         /\ UNCHANGED <<ends, enabled, connections, servers, harnessVars, tester, cut>>
<1> USE DEF KvTypes, RpcTypeOK, netVars
<1>1. CASE \E e \in AllEnds : MakeCall(c, e)
  BY <1>1 DEF MakeCall, Call, Goto
<1>2. CASE Send(c) /\ Network(c)
  BY <1>2 DEF Network, Send, Goto
<1>3. CASE Refuse(c) /\ Network(c)
  BY <1>3 DEF Network, Refuse, Goto
<1>4. CASE ReadEndnameInfo(c) /\ Network(c)
  <2>1. end[c] \in enabled => ServerOf(end[c]) \in Instances \cup {Nil}
    BY DEF ServerOf
  <2> QED BY <1>4, <2>1 DEF Network, ReadEndnameInfo, Goto
<1>5. CASE DropRequest(c) /\ Network(c)
  BY <1>5 DEF Network, DropRequest, Goto
<1>6. CASE Dispatch(c) /\ Network(c)
  BY <1>6 DEF Network, Dispatch, Goto
<1>7. CASE AwaitReply(c) /\ Network(c)
  BY <1>7 DEF Network, AwaitReply, Goto
<1>8. CASE AwaitPoll(c) /\ Network(c)
  BY <1>8 DEF Network, AwaitPoll, Goto
<1>9. CASE Recheck(c) /\ Network(c)
  BY <1>9 DEF Network, Recheck, Goto
<1>10. CASE Reply(c) /\ Network(c)
  BY <1>10 DEF Network, Reply, Goto
<1> QED BY <1>1, <1>2, <1>3, <1>4, <1>5, <1>6, <1>7, <1>8, <1>9, <1>10 DEF Network, ProcessReq

\* The place of a call's instance and Persister.
LEMMA KvServedAt ==
  ASSUME KvTypes, KvGiven, NEW c \in Calls, KvServed(c)
  PROVE  /\ srv[c] = <<srv[c][1], srv[c][2]>> /\ srv[c][1] \in Names /\ srv[c][2] \in Gens
         /\ pers[srv[c]] \in 1 .. Len(disks[srv[c][1]])
<1> DEFINE i == srv[c][1]
           g == srv[c][2]
<1>1. srv[c] = <<i, g>> /\ i \in Names /\ g \in Gens /\ srv[c] \in Instances /\ pers[srv[c]] # 0
  BY DEF KvServed, Instances
<1>2. pers[srv[c]] \in Nat /\ Len(disks[i]) \in Nat
  BY <1>1 DEF KvTypes
<1> HIDE DEF i, g
<1>3. pers[srv[c]] <= saved[i] /\ saved[i] \in 1 .. Len(disks[i])
  BY <1>1 DEF KvGiven
<1>4. pers[srv[c]] \in 1 .. Len(disks[i])
  BY <1>1, <1>2, <1>3
<1> QED BY <1>1, <1>4 DEF i, g

\* Persisters that only grow keep what the calls have.
LEMMA KvCallsFrame ==
  ASSUME KvTypes, KvGiven, KvCalls, UNCHANGED <<pc, end, srv, handler>>, ends \subseteq ends',
         \A x \in Instances : pers[x] # 0 => pers'[x] = pers[x],
         \A j \in Names : \A k \in 1 .. Len(disks[j]) : disks[j][k] \subseteq disks'[j][k],
         \A j \in Names : Disk(j) \subseteq Disk(j)'
  PROVE  KvCalls'
<1> SUFFICES ASSUME NEW c \in Calls PROVE KvCall(c)'
  BY DEF KvCalls
<1>0. KvCall(c)
  BY DEF KvCalls
<1>1. KvServed(c) => KvServed(c)' /\ pers'[srv[c]] = pers[srv[c]]
  BY DEF KvServed
<1>2. CASE ~KvServed(c)
  BY <1>0, <1>2 DEF KvCall
<1>3. CASE KvServed(c)
  <2>1. srv[c][1] \in Names /\ pers[srv[c]] \in 1 .. Len(disks[srv[c][1]])
    BY <1>3, KvServedAt
  <2>2. pc[c] \in {"replying", "true"} => c \in Disk(srv[c][1])'
    BY <1>0, <2>1 DEF KvCall
  <2>3. handler[c] \in {"ready", "taken"} => c \in disks'[srv[c][1]][pers'[srv[c]]]
    BY <1>0, <1>1, <1>3, <2>1 DEF KvCall
  <2> QED BY <1>0, <1>1, <1>3, <2>2, <2>3 DEF KvCall
<1> QED BY <1>2, <1>3

\* What processReq looks up under a name is the last instance, which saves into cfg.saved.
LEMMA KvLookup ==
  ASSUME KvHarnessAssumption, KvInv, NEW c \in Calls, pc[c] # "idle"
  PROVE  /\ connections[end[c]] \in Names /\ ServerOf(end[c]) = servers[connections[end[c]]]
         /\ \A n \in Names : servers[n] # Nil =>
              /\ servers[n] = <<n, gen[n]>> /\ servers[n] \in Instances
              /\ pers[servers[n]] = saved[n] /\ saved[n] # 0
<1> USE DEF KvInv
<1>1. end[c] \in AllEnds /\ connections[end[c]] = end[c][3]
  BY DEF KvCalls, KvCall, KvWired
<1>2. end[c][3] \in Names
  BY <1>1 DEF AllEnds, ServerEnds, ClerkEnds
<1>3. \A n \in Names : n # Nil
  BY DEF KvHarnessAssumption, Names
<1>4. ServerOf(end[c]) = servers[connections[end[c]]]
  BY <1>1, <1>2, <1>3 DEF ServerOf
<1>5. ASSUME NEW n \in Names, servers[n] # Nil
      PROVE  /\ servers[n] = <<n, gen[n]>> /\ servers[n] \in Instances
             /\ pers[servers[n]] = saved[n] /\ saved[n] # 0
  <2>1. servers[n] = <<n, gen[n]>> /\ pers[<<n, gen[n]>>] = saved[n]
    BY <1>5 DEF KvRegistered
  <2>2. servers[n] \in Instances
    BY <1>5 DEF KvTypes, RpcTypeOK
  <2>3. saved[n] \in 1 .. Len(disks[n])
    BY DEF KvGiven
  <2>4. saved[n] # 0
    BY <2>3
  <2> QED BY <2>1, <2>2, <2>4
<1> QED BY <1>1, <1>2, <1>4, <1>5

\* The network's steps keep what is known of every call.
LEMMA KvRpcCalls ==
  ASSUME KvHarnessAssumption, KvInv, NEW c \in Calls, (\E e \in AllEnds : MakeCall(c, e)) \/ Network(c)
  PROVE  KvCalls'
<1> USE DEF KvInv
<1>0. UNCHANGED <<ends, connections, servers, gen, pers, disks, saved>>
  BY KvRpcStep DEF harnessVars
<1>1. /\ pc = [d \in Calls |-> pc[d]] /\ end = [d \in Calls |-> end[d]]
      /\ srv = [d \in Calls |-> srv[d]] /\ handler = [d \in Calls |-> handler[d]]
  BY DEF KvTypes, RpcTypeOK
<1>2. ASSUME NEW d \in Calls, d # c
      PROVE  UNCHANGED <<pc[d], end[d], srv[d], handler[d]>>
  BY <1>1, <1>2 DEF MakeCall, Call, Network, Send, Refuse, ProcessReq, ReadEndnameInfo, DropRequest,
         Dispatch, AwaitReply, AwaitPoll, Recheck, Reply, Goto
<1>3. \A d \in Calls : KvCall(d)
  BY DEF KvCalls
<1>4. ASSUME NEW d \in Calls, d # c PROVE KvCall(d)'
  BY <1>0, <1>2, <1>3, <1>4 DEF KvCall, KvServed, Disk
<1>6. KvCall(c)'
  <2>1. CASE \E e \in AllEnds : MakeCall(c, e)
    BY <1>0, <1>1, <1>3, <2>1 DEF MakeCall, Call, Goto, KvCall, KvServed, Disk
  <2>2. CASE Send(c) \/ Refuse(c) \/ DropRequest(c) \/ AwaitPoll(c)
    BY <1>0, <1>1, <1>3, <2>2 DEF Send, Refuse, DropRequest, AwaitPoll, Goto, KvCall, KvServed, Disk
  <2>3. CASE ReadEndnameInfo(c)
    <3>1. pc[c] = "process" /\ handler[c] = "none" /\ handler' = handler /\ end' = end
      BY <1>3, <2>3 DEF ReadEndnameInfo, KvCall
    <3>2. pc'[c] = "deliver" => srv'[c] = ServerOf(end[c]) /\ ServerOf(end[c]) # Nil
      BY <1>1, <2>3 DEF ReadEndnameInfo, Goto
    <3>3. pc'[c] \in {"deliver", "failing"}
      BY <1>1, <2>3 DEF ReadEndnameInfo, Goto
    <3>4. pc'[c] = "deliver" => KvServed(c)'
      BY <1>0, <3>1, <3>2, KvLookup DEF KvServed
    <3> QED BY <1>0, <1>3, <3>1, <3>3, <3>4 DEF KvCall
  <2>4. CASE Dispatch(c)
    BY <1>0, <1>1, <1>3, <2>4 DEF Dispatch, Goto, KvCall, KvServed, Disk
  <2>5. CASE AwaitReply(c)
    BY <1>0, <1>1, <1>3, <2>5 DEF AwaitReply, Goto, KvCall, KvServed, Disk
  <2>6. CASE Recheck(c)
    <3>1. /\ pc[c] = "recheck" /\ UNCHANGED <<end, srv, handler>>
          /\ pc'[c] \in {"failing", "replying"} /\ (pc'[c] = "replying" => ~IsServerDead(c))
      BY <1>1, <2>6 DEF Recheck, Goto
    <3>2. KvServed(c) /\ KvServed(c)' /\ c \in disks[srv[c][1]][pers[srv[c]]]
          /\ handler[c] = "taken" /\ end[c] \in ends
      BY <1>0, <1>3, <3>1 DEF KvServed, KvCall
    <3>3. ASSUME pc'[c] = "replying" PROVE c \in Disk(srv[c][1])
      <4>1. servers[connections[end[c]]] = srv[c] /\ srv[c] # Nil
        BY <3>1, <3>2, <3>3 DEF IsServerDead, KvServed
      <4>2. srv[c][1] = connections[end[c]] /\ pers[srv[c]] = saved[srv[c][1]]
        BY <3>1, <4>1, KvLookup
      <4> QED BY <3>2, <4>2 DEF Disk
    <3> QED BY <1>0, <3>1, <3>2, <3>3 DEF Disk, KvCall
  <2>7. CASE Reply(c)
    BY <1>0, <1>1, <1>3, <2>7 DEF Reply, Goto, KvCall, KvServed, Disk
  <2> QED BY <2>1, <2>2, <2>3, <2>4, <2>5, <2>6, <2>7 DEF Network, ProcessReq
<1> QED BY <1>4, <1>6 DEF KvCalls

\* The handler under test saves into the Persister of its instance.
LEMMA KvHandled ==
  ASSUME KvHarnessAssumption, KvInv, NEW c \in Calls, Handle(c)
  PROVE  KvInv'
<1> USE DEF KvInv
<1> DEFINE i == srv[c][1]
           p == pers[srv[c]]
<1>1. KvServed(c)
  BY DEF KvCalls, KvCall, Handle, HandlerReturn
<1>2. i \in Names /\ p \in 1 .. Len(disks[i])
  BY <1>1, KvServedAt
<1>3. /\ UNCHANGED <<ends, enabled, connections, servers, reliable, netDone, netLoop, pc, end, srv, lossy,
                     gen, kvservers, saved, pers, clerks, tester>>
      /\ handler' = [handler EXCEPT ![c] = "ready"] /\ handler[c] = "run"
      /\ disks' = [disks EXCEPT ![i] = [disks[i] EXCEPT ![p] = disks[i][p] \cup {c}]]
  BY DEF Handle, HandlerReturn, netVars
<1>4. /\ handler \in [Calls -> {"none", "run", "ready", "taken"}] /\ disks \in [Names -> Seq(SUBSET Calls)]
  BY DEF KvTypes, RpcTypeOK
<1> HIDE DEF i, p
<1>5. disks[i] \in Seq(SUBSET Calls) /\ disks[i][p] \cup {c} \in SUBSET Calls
  BY <1>2, <1>4
<1>6. /\ [disks[i] EXCEPT ![p] = disks[i][p] \cup {c}] \in Seq(SUBSET Calls)
      /\ Len([disks[i] EXCEPT ![p] = disks[i][p] \cup {c}]) = Len(disks[i])
  BY <1>2, <1>5
<1>7. /\ disks' \in [Names -> Seq(SUBSET Calls)]
      /\ \A j \in Names : Len(disks'[j]) = Len(disks[j])
      /\ \A j \in Names : \A k \in 1 .. Len(disks[j]) : disks[j][k] \subseteq disks'[j][k]
      /\ c \in disks'[i][p]
  <2>1. \A j \in Names : j # i => disks'[j] = disks[j]
    BY <1>2, <1>3, <1>4
  <2>2. disks'[i] = [disks[i] EXCEPT ![p] = disks[i][p] \cup {c}]
    BY <1>2, <1>3, <1>4
  <2>3. \A k \in 1 .. Len(disks[i]) : disks[i][k] \subseteq disks'[i][k]
    BY <1>2, <1>5, <2>2
  <2>4. c \in disks'[i][p]
    BY <1>2, <1>5, <2>2
  <2>5. disks' \in [Names -> Seq(SUBSET Calls)]
    BY <1>2, <1>3, <1>4, <1>6
  <2>6. \A j \in Names : Len(disks'[j]) = Len(disks[j])
    BY <1>6, <2>1, <2>2
  <2> QED BY <2>1, <2>3, <2>4, <2>5, <2>6
<1>8. KvTypes'
  <2>1. RpcTypeOK'
    BY <1>3, <1>4 DEF KvTypes, RpcTypeOK
  <2> QED BY <1>3, <1>7, <2>1 DEF KvTypes
<1>9. KvWired' /\ KvGiven' /\ KvRegistered' /\ KvSilent'
  <2>1. KvGiven'
    BY <1>3, <1>7 DEF KvGiven
  <2> QED BY <1>3, <2>1 DEF KvWired, KvRegistered, KvSilent
<1>10. KvCalls'
  <2>0. \A d \in Calls : KvServed(d)' <=> KvServed(d)
    BY <1>3 DEF KvServed
  <2>1. ASSUME NEW d \in Calls, KvServed(d)
        PROVE  /\ disks[srv[d][1]][pers[srv[d]]] \subseteq disks'[srv[d][1]][pers[srv[d]]]
               /\ disks[srv[d][1]][saved[srv[d][1]]] \subseteq disks'[srv[d][1]][saved[srv[d][1]]]
    <3>1. srv[d][1] \in Names /\ pers[srv[d]] \in 1 .. Len(disks[srv[d][1]])
      BY <2>1, KvServedAt
    <3>2. saved[srv[d][1]] \in 1 .. Len(disks[srv[d][1]])
      BY <3>1 DEF KvGiven
    <3> QED BY <1>7, <3>1, <3>2
  <2>2. ASSUME NEW d \in Calls, d # c PROVE KvCall(d)'
    <3>1. handler'[d] = handler[d]
      BY <1>3, <1>4, <2>2
    <3>2. KvCall(d)
      BY DEF KvCalls
    <3> QED BY <1>3, <2>0, <2>1, <3>1, <3>2 DEF KvCall, Disk
  <2>3. KvCall(c)'
    <3>1. handler'[c] = "ready"
      BY <1>3, <1>4
    <3>2. KvCall(c)
      BY DEF KvCalls
    <3>3. c \in disks'[srv[c][1]][pers[srv[c]]]
      BY <1>7 DEF i, p
    <3> QED BY <1>1, <1>3, <2>0, <2>1, <3>1, <3>2, <3>3 DEF KvCall, Disk
  <2> QED BY <2>2, <2>3 DEF KvCalls
<1> QED BY <1>8, <1>9, <1>10

\* cfg.saved[i] becomes a copy of itself.
LEMMA KvCopied ==
  ASSUME KvTypes, KvGiven, NEW i \in Names, Copy(i)
  PROVE  /\ disks' \in [Names -> Seq(SUBSET Calls)] /\ saved' \in [Names -> Nat]
         /\ \A j \in Names : j # i => disks'[j] = disks[j] /\ saved'[j] = saved[j]
         /\ Len(disks'[i]) = Len(disks[i]) + 1 /\ saved'[i] = Len(disks[i]) + 1
         /\ \A j \in Names : \A k \in 1 .. Len(disks[j]) : disks'[j][k] = disks[j][k]
         /\ \A j \in Names : Disk(j)' = Disk(j)
         /\ \A j \in Names : saved'[j] \in 1 .. Len(disks'[j]) /\ saved[j] <= saved'[j]
         /\ saved[i] < saved'[i]
<1>1. disks \in [Names -> Seq(SUBSET Calls)] /\ saved \in [Names -> Nat]
  BY DEF KvTypes
<1>2. saved[i] \in 1 .. Len(disks[i]) /\ Len(disks[i]) \in Nat
  BY <1>1 DEF KvGiven
<1> DEFINE x == Disk(i)
<1>3. x \in SUBSET Calls
  BY <1>1, <1>2 DEF Disk
<1>4. disks' = [disks EXCEPT ![i] = Append(disks[i], x)] /\ saved' = [saved EXCEPT ![i] = Len(disks[i]) + 1]
  BY DEF Copy
<1>5. x = disks[i][saved[i]]
  BY DEF Disk
<1> HIDE DEF x
<1>6. /\ Append(disks[i], x) \in Seq(SUBSET Calls) /\ Len(Append(disks[i], x)) = Len(disks[i]) + 1
      /\ \A k \in 1 .. Len(disks[i]) : Append(disks[i], x)[k] = disks[i][k]
      /\ Append(disks[i], x)[Len(disks[i]) + 1] = x
  <2>1. disks[i] \in Seq(SUBSET Calls)
    BY <1>1
  <2> QED BY <1>3, <2>1
<1>7. disks'[i] = Append(disks[i], x) /\ saved'[i] = Len(disks[i]) + 1
  BY <1>1, <1>4
<1>8. \A j \in Names : j # i => disks'[j] = disks[j] /\ saved'[j] = saved[j]
  BY <1>1, <1>4
<1>9. disks' \in [Names -> Seq(SUBSET Calls)] /\ saved' \in [Names -> Nat]
  BY <1>1, <1>2, <1>4, <1>6
<1>10. ASSUME NEW j \in Names
       PROVE  /\ \A k \in 1 .. Len(disks[j]) : disks'[j][k] = disks[j][k]
              /\ disks'[j][saved'[j]] = disks[j][saved[j]]
              /\ saved'[j] \in 1 .. Len(disks'[j]) /\ saved[j] <= saved'[j]
  <2>1. CASE j = i
    BY <1>2, <1>5, <1>6, <1>7, <2>1
  <2>2. CASE j # i
    <3>1. saved[j] \in 1 .. Len(disks[j]) /\ saved[j] \in Nat
      BY <1>1 DEF KvGiven
    <3> QED BY <1>8, <2>2, <3>1
  <2> QED BY <2>1, <2>2
<1>11. \A j \in Names : Disk(j)' = Disk(j)
  BY <1>10 DEF Disk
<1>12. saved[i] < saved'[i]
  BY <1>2, <1>7
<1> QED BY <1>6, <1>7, <1>8, <1>9, <1>10, <1>11, <1>12

\* Enabling end-points of current instances, or disabling any.
LEMMA KvRewired ==
  ASSUME KvInv,
         UNCHANGED <<ends, connections, servers, reliable, netDone, netLoop, pc, end, srv, lossy, handler,
                     harnessVars, tester>>,
         enabled' \subseteq AllEnds,
         \A e \in enabled' \cap ServerEnds :
           e \in enabled \/ (tester.op = "idle" /\ e[2] = gen[e[1]] /\ kvservers[e[1]] # 0)
  PROVE  KvInv'
<1> USE DEF KvInv, harnessVars
<1>1. RpcTypeOK'
  BY DEF KvTypes, RpcTypeOK
<1>2. KvTypes'
  BY <1>1 DEF KvTypes
<1>3. KvWired' /\ KvGiven' /\ KvRegistered'
  BY DEF KvWired, KvGiven, KvRegistered
<1>4. KvCalls'
  BY DEF KvCalls, KvCall, KvServed, Disk
<1>5. KvSilent'
  BY DEF KvSilent
<1> QED BY <1>2, <1>3, <1>4, <1>5

\* Links are end-points of servers.
LEMMA KvLinksType ==
  ASSUME KvHarnessAssumption, KvTypes, NEW i \in Names, NEW js \in SUBSET Names
  PROVE  /\ Links(i, js) \subseteq ServerEnds /\ ServerEnds \subseteq AllEnds
         /\ \A e \in Links(i, js) : e[1] \in Names /\ e[2] = gen[e[1]]
<1>1. gen \in [Names -> Gens]
  BY DEF KvTypes
<1> QED BY <1>1 DEF Links, ServerEnds, AllEnds

\* The loop of partition over one side.
LEMMA SideSteps ==
  ASSUME NEW en, NEW p, Len(p) \in Nat, NEW q
  PROVE  \E f : /\ f[0] = en /\ Side(en, p, q) = f[Len(p)]
                /\ \A k \in 1 .. Len(p) :
                     f[k] = ConnectUnlocked(DisconnectUnlocked(f[k - 1], p[k], Range(q)), p[k], Range(p))
<1> DEFINE n == Len(p)
           Step(x, k) == ConnectUnlocked(DisconnectUnlocked(x, p[k], Range(q)), p[k], Range(p))
           F(g, m) == [k \in 0 .. m |-> IF k = 0 THEN en ELSE Step(g[k - 1], k)]
           P == {m \in 0 .. n : \E g : g = F(g, m)}
           f == CHOOSE g : g = F(g, n)
<1>2. Side(en, p, q) = f[n]
  BY DEF Side
<1> HIDE DEF Step
<1>3. 0 \in P
  <2> DEFINE g == [k \in 0 .. 0 |-> en]
  <2>1. g = F(g, 0)
    OBVIOUS
  <2> HIDE DEF g, F
  <2>2. 0 \in 0 .. n
    OBVIOUS
  <2> QED BY <2>1, <2>2
<1>4. ASSUME NEW m \in 0 .. n, m < n, m \in P PROVE m + 1 \in P
  <2>1. PICK g : g = F(g, m)
    BY <1>4
  <2> DEFINE h == [k \in 0 .. m + 1 |-> IF k <= m THEN g[k] ELSE Step(g[m], m + 1)]
  <2>2. ASSUME NEW k \in 0 .. m + 1
        PROVE  h[k] = IF k = 0 THEN en ELSE Step(h[k - 1], k)
    <3>1. CASE k = 0
      <4>1. g[0] = en
        BY <2>1
      <4> QED BY <3>1, <4>1
    <3>2. CASE k # 0 /\ k <= m
      <4>1. k \in 0 .. m /\ k - 1 \in 0 .. m /\ k - 1 \in 0 .. m + 1
        BY <3>2
      <4>2. g[k] = Step(g[k - 1], k)
        BY <2>1, <3>2, <4>1
      <4>3. h[k] = g[k] /\ h[k - 1] = g[k - 1]
        BY <3>2, <4>1
      <4> QED BY <3>2, <4>2, <4>3
    <3>3. CASE k = m + 1
      <4>1. h[k] = Step(g[m], m + 1) /\ h[k - 1] = g[m] /\ k # 0
        BY <3>3
      <4> QED BY <3>3, <4>1
    <3> QED BY <3>1, <3>2, <3>3
  <2>3. h = F(h, m + 1)
    <3>1. h = [k \in 0 .. m + 1 |-> h[k]]
      OBVIOUS
    <3> HIDE DEF h
    <3> QED BY <2>2, <3>1
  <2> HIDE DEF h, F
  <2>4. m + 1 \in 0 .. n
    BY <1>4
  <2> QED BY <2>3, <2>4
<1> HIDE DEF P
<1>5. n \in P
  <2>1. \A m \in 0 .. n : m < n /\ m \in P => m + 1 \in P
    BY <1>4
  <2> HIDE DEF n
  <2>2. n \in Nat
    BY DEF n
  <2>3. \A m \in 0 .. n : m \in P
    BY <1>3, <2>1, <2>2, UpTo, Zenon
  <2> QED BY <2>2, <2>3
<1>6. \E g : g = F(g, n)
  BY <1>5 DEF P
<1>7. f = F(f, n)
  <2> HIDE DEF F
  <2> QED BY <1>6, Zenon
<1> HIDE DEF f
<1>8. f[0] = en /\ \A k \in 1 .. n : f[k] = Step(f[k - 1], k)
  BY <1>7
<1> QED BY <1>2, <1>8 DEF Step

\* partition enables end-points of current instances only.
LEMMA SideWithin ==
  ASSUME NEW en, NEW p, Len(p) \in Nat, NEW q, \A k \in 1 .. Len(p) : p[k] \in Names, Range(p) \subseteq Names
  PROVE  \A e \in Side(en, p, q) : e \in en \/ \E i \in Names : e \in Links(i, Names)
<1>1. PICK f : /\ f[0] = en /\ Side(en, p, q) = f[Len(p)]
               /\ \A k \in 1 .. Len(p) :
                    f[k] = ConnectUnlocked(DisconnectUnlocked(f[k - 1], p[k], Range(q)), p[k], Range(p))
  BY SideSteps
<1> DEFINE n == Len(p)
           P == {k \in 0 .. n : \A e \in f[k] : e \in en \/ \E i \in Names : e \in Links(i, Names)}
<1>2. 0 \in P
  BY <1>1
<1>3. ASSUME NEW k \in 0 .. n, k < n, k \in P PROVE k + 1 \in P
  <2>1. k + 1 \in 1 .. n /\ k + 1 \in 0 .. n /\ (k + 1) - 1 = k
    BY <1>3
  <2>2. f[k + 1] = ConnectUnlocked(DisconnectUnlocked(f[k], p[k + 1], Range(q)), p[k + 1], Range(p))
    BY <1>1, <2>1
  <2>3. p[k + 1] \in Names /\ Links(p[k + 1], Range(p)) \subseteq Links(p[k + 1], Names)
    BY <2>1 DEF Links
  <2>4. \A e \in f[k + 1] : e \in f[k] \/ e \in Links(p[k + 1], Names)
    BY <2>2, <2>3 DEF ConnectUnlocked, DisconnectUnlocked
  <2> QED BY <1>3, <2>1, <2>3, <2>4
<1> HIDE DEF P
<1>4. n \in Nat /\ \A k \in 0 .. n : k < n /\ k \in P => k + 1 \in P
  BY <1>3
<1> HIDE DEF n
<1>5. \A k \in 0 .. n : k \in P
  BY <1>2, <1>4, UpTo, Zenon
<1>6. n \in P
  BY <1>4, <1>5
<1> QED BY <1>1, <1>6 DEF P, n

\* SetToSeq gives a side as a sequence of its servers.
LEMMA KvEnumerated ==
  ASSUME KvHarnessAssumption, NEW p \in SUBSET Names
  PROVE  LET s == SetToSeq(p) IN
         /\ Len(s) \in Nat /\ DOMAIN s = 1 .. Len(s) /\ \A k \in 1 .. Len(s) : s[k] \in p
         /\ Range(s) = p
<1>1. IsFiniteSet(Names)
  BY FS_Interval DEF Names, KvHarnessAssumption
<1>2. IsFiniteSet(p) /\ Cardinality(p) \in Nat /\ ExistsBijection(1 .. Cardinality(p), p)
  BY <1>1, FS_Subset, FS_CardinalityType
<1> DEFINE n == Cardinality(p)
           s == SetToSeq(p)
<1>3. PICK g : g \in Bijection(1 .. n, p)
  BY <1>2 DEF ExistsBijection
<1>4. g \in [1 .. n -> p] /\ IsInjective(g)
  BY <1>3 DEF Bijection, Injection
<1>5. s \in [1 .. n -> p] /\ IsInjective(s)
  BY <1>4 DEF SetToSeq
<1> HIDE DEF s
<1>6. n \in Nat
  BY <1>2
<1>7. s \in Surjection(1 .. n, p)
  <2>1. s \in Injection(1 .. n, p)
    BY <1>5 DEF Injection
  <2>2. IsFiniteSet(1 .. n) /\ Cardinality(1 .. n) = n
    <3> HIDE DEF n
    <3> QED BY <1>6, FS_Interval
  <2> QED BY <1>2, <2>1, <2>2, FS_Injection
<1> HIDE DEF n
<1>8. Len(s) = n /\ DOMAIN s = 1 .. n
  BY <1>5, <1>6
<1>9. Range(s) = p
  BY <1>5, <1>7, <1>8 DEF Surjection, Range
<1> QED BY <1>5, <1>6, <1>8, <1>9 DEF s

\* Partition keeps the invariant whatever its sides are: it enables links of current instances.
LEMMA KvPartitioned ==
  ASSUME KvHarnessAssumption, KvInv, NEW p1, NEW p2, NEW l, Partition(p1, p2, l),
         Len(p1) \in Nat, \A k \in 1 .. Len(p1) : p1[k] \in Names, Range(p1) \subseteq Names,
         Len(p2) \in Nat, \A k \in 1 .. Len(p2) : p2[k] \in Names, Range(p2) \subseteq Names
  PROVE  KvInv'
<1>1. /\ UNCHANGED <<ends, connections, servers, reliable, netDone, netLoop, pc, end, srv, lossy, handler,
                     harnessVars, tester>>
      /\ enabled' = Side(Side(enabled, p1, p2), p2, p1) /\ Steady
  BY DEF Partition, SetEnabled, inFlight
<1>2. ASSUME NEW e \in enabled' PROVE e \in enabled \/ \E i \in Names : e \in Links(i, Names)
  <2>1. e \in Side(enabled, p1, p2) \/ \E i \in Names : e \in Links(i, Names)
    BY <1>1, SideWithin
  <2> QED BY <2>1, SideWithin
<1>3. ASSUME NEW i \in Names, NEW e \in Links(i, Names)
      PROVE  e \in AllEnds /\ e[2] = gen[e[1]] /\ kvservers[e[1]] # 0
  BY <1>1, KvLinksType DEF KvInv, Steady
<1>4. tester.op = "idle"
  BY <1>1 DEF Steady, Idle
<1>5. enabled' \subseteq AllEnds
  BY <1>2, <1>3 DEF KvInv, KvTypes, RpcTypeOK
<1>6. \A e \in enabled' \cap ServerEnds :
        e \in enabled \/ (tester.op = "idle" /\ e[2] = gen[e[1]] /\ kvservers[e[1]] # 0)
  BY <1>2, <1>3, <1>4
<1> QED BY <1>1, <1>5, <1>6, KvRewired

\* Leader returns a server.
LEMMA KvLeader ==
  ASSUME KvHarnessAssumption, NEW said \in SUBSET Names
  PROVE  Leader(said) \in Names
<1>1. CASE said = {}
  BY <1>1 DEF Leader, Names, KvHarnessAssumption
<1>2. CASE said # {}
  <2>1. said \in SUBSET Nat
    BY DEF Names, KvHarnessAssumption
  <2>2. \E i \in said : \A j \in said : i <= j
    BY <1>2, <2>1, LeastNat
  <2> QED BY <1>2, <2>2 DEF Leader
<1> QED BY <1>1, <1>2

\* The two sides that make_partition fills.
P1(l) == [k \in 1 .. (N \div 2) + 1 |-> Entry(Others(l), k)]
P2(l) == [k \in 1 .. N \div 2 |-> IF k = N \div 2 THEN l ELSE Entry(Others(l), (N \div 2) + 1 + k)]

\* The sides of make_partition are disjoint and have all servers, the leader is in the second,
\* and the first is without repetition.
LEMMA KvSides ==
  ASSUME KvHarnessAssumption, NEW l \in Names, N % 2 = 1, N > 1
  PROVE  /\ P1(l) \in [1 .. (N \div 2) + 1 -> Names] /\ P2(l) \in [1 .. N \div 2 -> Names]
         /\ N \div 2 \in Nat \ {0} /\ N = 2 * (N \div 2) + 1
         /\ Range(P1(l)) \cap Range(P2(l)) = {} /\ Range(P1(l)) \cup Range(P2(l)) = Names
         /\ l \in Range(P2(l)) /\ \A j, k \in 1 .. (N \div 2) + 1 : P1(l)[j] = P1(l)[k] => j = k
<1> DEFINE h == N \div 2
<1>1. N \in Nat /\ h \in Nat \ {0} /\ N = 2 * h + 1
  BY DEF KvHarnessAssumption
<1>2. l \in Nat /\ l <= 2 * h
  BY <1>1 DEF Names
<1>3. \A k \in 1 .. 2 * h : Entry(Others(l), k) = IF k <= l THEN k - 1 ELSE k
  <2>1. DOMAIN Others(l) = 1 .. 2 * h
    BY <1>1 DEF Others
  <2>2. \A k \in 1 .. 2 * h : Others(l)[k] = IF k <= l THEN k - 1 ELSE k
    BY <1>1 DEF Others
  <2> QED BY <2>1, <2>2 DEF Entry
<1> HIDE DEF h
<1>4. \A x : x \in Names <=> x \in 0 .. 2 * h
  BY <1>1 DEF Names
<1>5. \A k \in 1 .. h + 1 : P1(l)[k] = IF k <= l THEN k - 1 ELSE k
  <2>1. \A k \in 1 .. h + 1 : P1(l)[k] = Entry(Others(l), k) /\ k \in 1 .. 2 * h
    BY <1>1 DEF P1, h
  <2> QED BY <1>3, <2>1
<1>6. \A k \in 1 .. h : P2(l)[k] = IF k = h THEN l ELSE IF h + 1 + k <= l THEN h + k ELSE h + 1 + k
  <2>1. ASSUME NEW k \in 1 .. h, k # h PROVE P2(l)[k] = IF h + 1 + k <= l THEN h + k ELSE h + 1 + k
    <3>1. P2(l)[k] = Entry(Others(l), h + 1 + k) /\ h + 1 + k \in 1 .. 2 * h
      BY <1>1, <2>1 DEF P2, h
    <3> QED BY <1>1, <1>3, <3>1
  <2>2. P2(l)[h] = l
    BY <1>1 DEF P2, h
  <2> QED BY <2>1, <2>2
<1>7. P1(l) \in [1 .. h + 1 -> Names]
  <2>1. P1(l) = [k \in 1 .. h + 1 |-> P1(l)[k]]
    BY DEF P1, h
  <2>2. \A k \in 1 .. h + 1 : P1(l)[k] \in Names
    BY <1>1, <1>2, <1>4, <1>5
  <2> QED BY <2>1, <2>2
<1>8. P2(l) \in [1 .. h -> Names]
  <2>1. P2(l) = [k \in 1 .. h |-> P2(l)[k]]
    BY DEF P2, h
  <2>2. \A k \in 1 .. h : P2(l)[k] \in Names
    BY <1>1, <1>2, <1>4, <1>6
  <2> QED BY <2>1, <2>2
<1>9. ASSUME NEW j \in 1 .. h + 1, NEW k \in 1 .. h PROVE P1(l)[j] # P2(l)[k]
  BY <1>1, <1>2, <1>5, <1>6
<1>10. ASSUME NEW x \in Names PROVE (\E j \in 1 .. h + 1 : P1(l)[j] = x) \/ (\E k \in 1 .. h : P2(l)[k] = x)
  <2>0. x \in 0 .. 2 * h
    BY <1>4
  <2>1. CASE x = l
    <3>1. h \in 1 .. h /\ P2(l)[h] = l
      BY <1>1, <1>6
    <3> QED BY <2>1, <3>1
  <2>2. CASE x < l
    <3>1. CASE x + 1 <= h + 1
      <4>1. x + 1 \in 1 .. h + 1 /\ x + 1 <= l /\ (x + 1) - 1 = x
        BY <1>1, <1>2, <2>0, <2>2, <3>1
      <4> QED BY <1>5, <4>1
    <3>2. CASE x + 1 > h + 1
      <4>1. x - h \in 1 .. h /\ x - h # h /\ h + 1 + (x - h) <= l /\ h + (x - h) = x
        BY <1>1, <1>2, <2>0, <2>2, <3>2
      <4> QED BY <1>6, <4>1
    <3> QED BY <2>0, <1>1, <3>1, <3>2
  <2>3. CASE x > l
    <3>1. CASE x <= h + 1
      <4>1. x \in 1 .. h + 1 /\ ~(x <= l)
        BY <1>1, <1>2, <2>0, <2>3, <3>1
      <4> QED BY <1>5, <4>1
    <3>2. CASE x > h + 1
      <4>1. x - (h + 1) \in 1 .. h /\ x - (h + 1) # h /\ ~(h + 1 + (x - (h + 1)) <= l) /\ h + 1 + (x - (h + 1)) = x
        BY <1>1, <1>2, <2>0, <2>3, <3>2
      <4> QED BY <1>6, <4>1
    <3> QED BY <2>0, <1>1, <3>1, <3>2
  <2> QED BY <1>2, <2>0, <2>1, <2>2, <2>3
<1>11. /\ Range(P1(l)) = {P1(l)[j] : j \in 1 .. h + 1} /\ Range(P2(l)) = {P2(l)[k] : k \in 1 .. h}
  <2>1. DOMAIN P1(l) = 1 .. h + 1 /\ DOMAIN P2(l) = 1 .. h
    BY <1>7, <1>8
  <2> QED BY <2>1 DEF Range
<1>12. Range(P1(l)) \cap Range(P2(l)) = {}
  BY <1>9, <1>11
<1>13. Range(P1(l)) \cup Range(P2(l)) = Names
  BY <1>7, <1>8, <1>10, <1>11
<1>14. l \in Range(P2(l))
  <2>1. h \in 1 .. h /\ P2(l)[h] = l
    BY <1>1, <1>6
  <2> QED BY <1>11, <2>1
<1>15. ASSUME NEW j \in 1 .. h + 1, NEW k \in 1 .. h + 1, P1(l)[j] = P1(l)[k] PROVE j = k
  BY <1>1, <1>2, <1>5, <1>15
<1> QED BY <1>1, <1>7, <1>8, <1>12, <1>13, <1>14, <1>15 DEF h

\* Every partition has two sides that are disjoint and have all the servers.
LEMMA KvCutInTwo ==
  ASSUME KvHarnessAssumption, RandomPartition \/ MakePartition
  PROVE  \E p1, p2, l :
           /\ Partition(p1, p2, l) /\ Len(p1) \in Nat /\ Len(p2) \in Nat
           /\ \A k \in 1 .. Len(p1) : p1[k] \in Names
           /\ \A k \in 1 .. Len(p2) : p2[k] \in Names
           /\ DOMAIN p1 = 1 .. Len(p1) /\ DOMAIN p2 = 1 .. Len(p2)
           /\ Range(p1) \cap Range(p2) = {} /\ Range(p1) \cup Range(p2) = Names
           /\ l # Nil => /\ l \in Range(p2) /\ N = 2 * Len(p2) + 1 /\ Len(p1) = Len(p2) + 1
                         /\ \A j, k \in 1 .. Len(p1) : p1[j] = p1[k] => j = k
<1>1. CASE RandomPartition
  <2>1. PICK p \in SUBSET Names : Partition(SetToSeq(p), SetToSeq(Names \ p), Nil)
    BY <1>1 DEF RandomPartition
  <2> DEFINE p1 == SetToSeq(p)
             p2 == SetToSeq(Names \ p)
  <2>2. Len(p1) \in Nat /\ DOMAIN p1 = 1 .. Len(p1) /\ (\A k \in 1 .. Len(p1) : p1[k] \in p) /\ Range(p1) = p
    BY KvEnumerated
  <2>3. Names \ p \in SUBSET Names
    OBVIOUS
  <2>4. Len(p2) \in Nat /\ DOMAIN p2 = 1 .. Len(p2) /\ (\A k \in 1 .. Len(p2) : p2[k] \in Names \ p) /\ Range(p2) = Names \ p
    BY <2>3, KvEnumerated
  <2>5. Partition(p1, p2, Nil)
    BY <2>1
  <2> HIDE DEF p1, p2
  <2>6. Range(p1) \cap Range(p2) = {} /\ Range(p1) \cup Range(p2) = Names
    BY <2>2, <2>4
  <2> QED BY <2>2, <2>4, <2>5, <2>6
<1>2. CASE MakePartition
  <2>1. PICK said \in SUBSET Names :
          N % 2 = 1 /\ N > 1 /\ Partition(P1(Leader(said)), P2(Leader(said)), Leader(said))
    BY <1>2 DEF MakePartition, P1, P2
  <2> DEFINE l == Leader(said)
             p1 == P1(l)
             p2 == P2(l)
             h == N \div 2
  <2>2. l \in Names
    BY KvLeader
  <2> HIDE DEF l
  <2>3. /\ p1 \in [1 .. h + 1 -> Names] /\ p2 \in [1 .. h -> Names] /\ h \in Nat \ {0} /\ N = 2 * h + 1
        /\ Range(p1) \cap Range(p2) = {} /\ Range(p1) \cup Range(p2) = Names
        /\ l \in Range(p2) /\ \A j, k \in 1 .. h + 1 : p1[j] = p1[k] => j = k
    BY <2>1, <2>2, KvSides
  <2>4. Partition(p1, p2, l)
    BY <2>1 DEF l
  <2> HIDE DEF p1, p2, h
  <2>5. Len(p1) = h + 1 /\ Len(p2) = h /\ DOMAIN p1 = 1 .. h + 1 /\ DOMAIN p2 = 1 .. h
    BY <2>3
  <2>6. /\ Len(p1) \in Nat /\ Len(p2) \in Nat /\ DOMAIN p1 = 1 .. Len(p1) /\ DOMAIN p2 = 1 .. Len(p2)
        /\ \A k \in 1 .. Len(p1) : p1[k] \in Names
        /\ \A k \in 1 .. Len(p2) : p2[k] \in Names
        /\ N = 2 * Len(p2) + 1 /\ Len(p1) = Len(p2) + 1
        /\ \A j, k \in 1 .. Len(p1) : p1[j] = p1[k] => j = k
    BY <2>3, <2>5
  <2> QED BY <2>3, <2>4, <2>6
<1> QED BY <1>1, <1>2

\* ConnectAll and the partitions keep the invariant.
LEMMA KvTopology ==
  ASSUME KvHarnessAssumption, KvInv, ConnectAll \/ RandomPartition \/ MakePartition
  PROVE  KvInv'
<1>1. CASE ConnectAll
  <2>1. /\ UNCHANGED <<ends, connections, servers, reliable, netDone, netLoop, pc, end, srv, lossy, handler,
                     harnessVars, tester>>
        /\ enabled' = enabled \cup UNION {Links(i, Names) : i \in Names} /\ Steady
    BY <1>1 DEF ConnectAll, SetEnabled, inFlight
  <2>2. ASSUME NEW i \in Names, NEW e \in Links(i, Names)
        PROVE  e \in AllEnds /\ e[2] = gen[e[1]] /\ kvservers[e[1]] # 0
    BY <2>1, KvLinksType DEF KvInv, Steady
  <2>3. tester.op = "idle"
    BY <2>1 DEF Steady, Idle
  <2>4. enabled' \subseteq AllEnds
    BY <2>1, <2>2 DEF KvInv, KvTypes, RpcTypeOK
  <2>5. \A e \in enabled' \cap ServerEnds :
          e \in enabled \/ (tester.op = "idle" /\ e[2] = gen[e[1]] /\ kvservers[e[1]] # 0)
    BY <2>1, <2>2, <2>3
  <2> QED BY <2>1, <2>4, <2>5, KvRewired
<1>2. CASE RandomPartition \/ MakePartition
  <2>1. PICK p1, p2, l :
           /\ Partition(p1, p2, l) /\ Len(p1) \in Nat /\ Len(p2) \in Nat
           /\ \A k \in 1 .. Len(p1) : p1[k] \in Names
           /\ \A k \in 1 .. Len(p2) : p2[k] \in Names
           /\ Range(p1) \cup Range(p2) = Names
    BY <1>2, KvCutInTwo
  <2>2. Range(p1) \subseteq Names /\ Range(p2) \subseteq Names
    BY <2>1
  <2> QED BY <2>1, <2>2, KvPartitioned
<1> QED BY <1>1, <1>2

\* A clerk's end-points are none of a server's.
LEMMA KvClerkEnds ==
  ASSUME KvHarnessAssumption, NEW k \in Clerks, NEW js \in SUBSET Names
  PROVE  /\ ClerkLinks(k, js) \subseteq AllEnds /\ ClerkLinks(k, js) \cap ServerEnds = {}
         /\ \A e \in ClerkLinks(k, js) : e[3] \in Names
<1>1. \A i \in Names : i # k
  BY DEF KvHarnessAssumption, Names
<1>2. ClerkLinks(k, js) \subseteq AllEnds
  BY DEF ClerkLinks, AllEnds, ClerkEnds
<1>3. ClerkLinks(k, js) \cap ServerEnds = {}
  BY <1>1 DEF ClerkLinks, ServerEnds
<1>4. \A e \in ClerkLinks(k, js) : e[3] \in Names
  BY DEF ClerkLinks
<1> QED BY <1>2, <1>3, <1>4

\* So do the operations on clerks.
LEMMA KvClerks ==
  ASSUME KvHarnessAssumption, KvInv, NEW k \in Clerks, NEW js \in SUBSET Names,
         MakeClient(k, js) \/ ConnectClient(k, js) \/ DisconnectClient(k, js) \/ DeleteClient(k)
  PROVE  KvInv'
<1>0. ClerkLinks(k, js) \subseteq AllEnds /\ ClerkLinks(k, js) \cap ServerEnds = {}
  BY KvClerkEnds
<1>1. CASE ConnectClient(k, js) \/ DisconnectClient(k, js)
  <2>1. /\ UNCHANGED <<ends, connections, servers, reliable, netDone, netLoop, pc, end, srv, lossy, handler,
                     harnessVars, tester>>
        /\ enabled' \in {enabled \cup ClerkLinks(k, js), enabled \ ClerkLinks(k, js)}
    BY <1>1 DEF ConnectClient, DisconnectClient, SetEnabled, inFlight
  <2>2. enabled' \subseteq AllEnds
    BY <1>0, <2>1 DEF KvInv, KvTypes, RpcTypeOK
  <2> QED BY <1>0, <2>1, <2>2, KvRewired
<1> USE DEF KvInv
<1>2. CASE DeleteClient(k)
  <2>1. UNCHANGED <<network, inFlight, gen, kvservers, disks, saved, pers, tester>> /\ clerks' \subseteq clerks
    BY <1>2 DEF DeleteClient
  <2>2. RpcTypeOK'
    BY <2>1 DEF KvTypes, RpcTypeOK, network, inFlight
  <2>3. KvTypes'
    BY <2>1, <2>2 DEF KvTypes
  <2>4. KvWired' /\ KvGiven' /\ KvRegistered' /\ KvSilent'
    BY <2>1 DEF KvWired, KvGiven, KvRegistered, KvSilent, network
  <2>5. KvCalls'
    BY <2>1 DEF KvCalls, KvCall, KvServed, Disk, network, inFlight
  <2> QED BY <2>3, <2>4, <2>5
<1>3. CASE MakeClient(k, js)
  <2> DEFINE new == ClerkLinks(k, Names)
  <2>0. new \subseteq AllEnds /\ \A e \in new : e[3] \in Names
    BY KvClerkEnds
  <2> HIDE DEF new
  <2>1. /\ ends' = ends \cup new /\ enabled' = enabled \cup ClerkLinks(k, js) /\ clerks' = clerks \cup {k}
        /\ connections' = [e \in AllEnds |-> IF e \in new THEN e[3] ELSE connections[e]]
        /\ UNCHANGED <<servers, reliable, netDone, netLoop, inFlight, gen, kvservers, disks, saved, pers, tester>>
    BY <1>3 DEF MakeClient, new
  <2>2. RpcTypeOK'
    <3>1. ends' \subseteq AllEnds /\ enabled' \subseteq AllEnds
      BY <1>0, <2>0, <2>1 DEF KvTypes, RpcTypeOK
    <3>2. connections' \in [AllEnds -> Names \cup {Nil}]
      BY <2>0, <2>1 DEF KvTypes, RpcTypeOK
    <3> QED BY <2>1, <3>1, <3>2 DEF KvTypes, RpcTypeOK, inFlight
  <2>3. KvTypes'
    BY <2>1, <2>2 DEF KvTypes
  <2>4. KvWired'
    BY <2>0, <2>1 DEF KvWired
  <2>5. KvGiven' /\ KvRegistered' /\ KvSilent'
    BY <1>0, <2>1 DEF KvGiven, KvRegistered, KvSilent
  <2>6. KvCalls'
    BY <2>1 DEF KvCalls, KvCall, KvServed, Disk, inFlight
  <2> QED BY <2>3, <2>4, <2>5, <2>6
<1> QED BY <1>1, <1>2, <1>3

\* ShutdownServer: disconnect, DeleteServer, a copy of cfg.saved, and Kill.
LEMMA KvShutdown ==
  ASSUME KvHarnessAssumption, KvInv,
         (\E i \in Names : ShutdownDisconnect(i)) \/ ShutdownDelete \/ ShutdownCopy \/ ShutdownKill
  PROVE  KvInv'
<1> USE DEF KvInv
<1>0. tester.i \in Names /\ tester.op \in KvOps /\ tester = [op |-> tester.op, i |-> tester.i]
  BY DEF KvTypes
<1>1. ASSUME NEW i \in Names, ShutdownDisconnect(i) PROVE KvInv'
  <2>1. /\ UNCHANGED <<ends, connections, servers, reliable, netDone, netLoop, pc, end, srv, lossy, handler,
                       gen, kvservers, disks, saved, pers, clerks>>
        /\ enabled' = enabled \ Links(i, Names) /\ tester' = [op |-> "delete", i |-> i]
        /\ tester.op = "idle" /\ gen[i] < MaxGen
    BY <1>1 DEF ShutdownDisconnect, SetEnabled, DisconnectUnlocked, inFlight, harnessVars, Idle
  <2>2. KvTypes'
    <3>1. RpcTypeOK'
      BY <2>1 DEF KvTypes, RpcTypeOK
    <3> QED BY <2>1, <3>1 DEF KvTypes, KvOps
  <2>3. KvWired' /\ KvGiven' /\ KvRegistered'
    BY <2>1 DEF KvWired, KvGiven, KvRegistered
  <2>4. KvCalls'
    BY <2>1 DEF KvCalls, KvCall, KvServed, Disk
  <2>5. KvSilent'
    <3>1. ASSUME NEW e \in enabled' \cap ServerEnds PROVE e[1] # i
      <4>1. e \in enabled /\ e \notin Links(i, Names) /\ e[2] = gen[e[1]]
        BY <2>1 DEF KvSilent
      <4>2. PICK a \in Names, g \in Gens, j \in Names : e = <<a, g, j>>
        BY DEF ServerEnds
      <4> QED BY <4>1, <4>2 DEF Links
    <3> QED BY <2>1, <3>1 DEF KvSilent
  <2> QED BY <2>2, <2>3, <2>4, <2>5
<1>2. CASE ShutdownDelete
  <2>1. /\ UNCHANGED <<ends, enabled, connections, reliable, netDone, netLoop, pc, end, srv, lossy, handler,
                       gen, kvservers, disks, saved, pers, clerks>>
        /\ servers' = [servers EXCEPT ![tester.i] = Nil] /\ tester' = [tester EXCEPT !.op = "copy"]
        /\ tester.op = "delete"
    BY <1>2 DEF ShutdownDelete, DeleteServer, callVars, harnessVars
  <2>2. tester'.op = "copy" /\ tester'.i = tester.i /\ tester' \in [op : KvOps, i : Names]
    BY <1>0, <2>1 DEF KvOps
  <2>3. servers' \in [Names -> Instances \cup {Nil}] /\ servers'[tester.i] = Nil
        /\ \A j \in Names : servers'[j] = Nil \/ servers'[j] = servers[j]
    BY <1>0, <2>1 DEF KvTypes, RpcTypeOK
  <2>4. KvTypes'
    <3>1. RpcTypeOK'
      BY <2>1, <2>3 DEF KvTypes, RpcTypeOK
    <3> QED BY <2>1, <2>2, <3>1 DEF KvTypes
  <2>5. KvWired' /\ KvGiven'
    BY <2>1 DEF KvWired, KvGiven
  <2>6. KvRegistered'
    BY <1>0, <2>1, <2>2, <2>3 DEF KvRegistered
  <2>7. KvCalls'
    BY <2>1 DEF KvCalls, KvCall, KvServed, Disk
  <2>8. KvSilent'
    BY <2>1, <2>2 DEF KvSilent
  <2> QED BY <2>4, <2>5, <2>6, <2>7, <2>8
<1>3. CASE ShutdownCopy
  <2>1. /\ UNCHANGED <<ends, enabled, connections, servers, reliable, netDone, netLoop, pc, end, srv, lossy, handler,
                       gen, kvservers, pers, clerks>>
        /\ Copy(tester.i) /\ tester' = [tester EXCEPT !.op = "kill"] /\ tester.op = "copy"
    BY <1>3 DEF ShutdownCopy, network, inFlight
  <2>2. tester'.op = "kill" /\ tester'.i = tester.i /\ tester' \in [op : KvOps, i : Names]
    BY <1>0, <2>1 DEF KvOps
  <2>3. /\ disks' \in [Names -> Seq(SUBSET Calls)] /\ saved' \in [Names -> Nat]
        /\ \A j \in Names : j # tester.i => disks'[j] = disks[j] /\ saved'[j] = saved[j]
        /\ \A j \in Names : \A k \in 1 .. Len(disks[j]) : disks'[j][k] = disks[j][k]
        /\ \A j \in Names : Disk(j)' = Disk(j)
        /\ \A j \in Names : saved'[j] \in 1 .. Len(disks'[j]) /\ saved[j] <= saved'[j]
    BY <1>0, <2>1, KvCopied
  <2>4. KvTypes'
    <3>1. RpcTypeOK'
      BY <2>1 DEF KvTypes, RpcTypeOK
    <3> QED BY <2>1, <2>2, <2>3, <3>1 DEF KvTypes
  <2>5. KvWired'
    BY <2>1 DEF KvWired
  <2>6. KvGiven'
    <3>1. ASSUME NEW j \in Names, NEW g \in Gens
          PROVE  pers'[<<j, g>>] <= saved'[j] /\ (g > gen'[j] => pers'[<<j, g>>] = 0)
      <4>1. /\ pers[<<j, g>>] <= saved[j] /\ (g > gen[j] => pers[<<j, g>>] = 0)
            /\ saved[j] <= saved'[j] /\ saved[j] \in Nat /\ saved'[j] \in Nat
        BY <2>3 DEF KvGiven, KvTypes
      <4>2. pers[<<j, g>>] \in Nat
        BY DEF KvTypes, Instances
      <4> QED BY <2>1, <4>1, <4>2
    <3> QED BY <2>3, <3>1 DEF KvGiven
  <2>7. KvRegistered'
    BY <1>0, <2>1, <2>2, <2>3 DEF KvRegistered
  <2>8. KvCalls'
    BY <2>1, <2>3, KvCallsFrame
  <2>9. KvSilent'
    BY <2>1, <2>2 DEF KvSilent
  <2> QED BY <2>4, <2>5, <2>6, <2>7, <2>8, <2>9
<1>4. CASE ShutdownKill
  <2>1. /\ UNCHANGED <<ends, enabled, connections, servers, reliable, netDone, netLoop, pc, end, srv, lossy, handler,
                       gen, disks, saved, pers, clerks>>
        /\ kvservers' = [kvservers EXCEPT ![tester.i] = 0] /\ tester' = [op |-> "idle", i |-> 0]
        /\ tester.op = "kill"
    BY <1>4 DEF ShutdownKill, network, inFlight, Idle
  <2>2. tester'.op = "idle" /\ tester' \in [op : KvOps, i : Names]
    BY <2>1 DEF KvOps, Names, KvHarnessAssumption
  <2>3. /\ kvservers' \in [Names -> 0 .. MaxGen] /\ kvservers'[tester.i] = 0
        /\ \A j \in Names : j # tester.i => kvservers'[j] = kvservers[j]
    BY <1>0, <2>1 DEF KvTypes, KvHarnessAssumption
  <2>4. KvTypes'
    <3>1. RpcTypeOK'
      BY <2>1 DEF KvTypes, RpcTypeOK
    <3> QED BY <2>1, <2>2, <2>3, <3>1 DEF KvTypes
  <2>5. KvWired' /\ KvGiven'
    BY <2>1 DEF KvWired, KvGiven
  <2>6. KvRegistered'
    BY <1>0, <2>1, <2>2, <2>3 DEF KvRegistered
  <2>7. KvCalls'
    BY <2>1 DEF KvCalls, KvCall, KvServed, Disk
  <2>8. KvSilent'
    <3>1. \A e \in ServerEnds : e[1] \in Names
      BY DEF ServerEnds
    <3> QED BY <2>1, <2>2, <2>3, <3>1 DEF KvSilent
  <2> QED BY <2>4, <2>5, <2>6, <2>7, <2>8
<1> QED BY <1>1, <1>2, <1>3, <1>4

\* StartServer: fresh ends, a fresh Persister, and then AddServer.
LEMMA KvStarted ==
  ASSUME KvHarnessAssumption, KvInv, (\E i \in Names : StartServer(i)) \/ StartServe
  PROVE  KvInv'
<1> USE DEF KvInv
<1>0. tester.i \in Names /\ tester.op \in KvOps /\ tester = [op |-> tester.op, i |-> tester.i]
  BY DEF KvTypes
<1>1. ASSUME NEW i \in Names, StartServer(i) PROVE KvInv'
  <2> DEFINE g == gen[i] + 1
             new == {<<i, g, j>> : j \in Names}
  <2>1. /\ UNCHANGED <<enabled, servers, reliable, netDone, netLoop, pc, end, srv, lossy, handler, clerks>>
        /\ gen' = [gen EXCEPT ![i] = g] /\ ends' = ends \cup new
        /\ connections' = [e \in AllEnds |-> IF e \in new THEN e[3] ELSE connections[e]]
        /\ Copy(i) /\ pers' = [pers EXCEPT ![<<i, g>>] = saved'[i]]
        /\ kvservers' = [kvservers EXCEPT ![i] = g] /\ tester' = [op |-> "serve", i |-> i]
        /\ tester.op = "idle" /\ kvservers[i] = 0
    BY <1>1 DEF StartServer, inFlight, Idle
  <2>2. gen[i] \in Gens /\ gen[i] < MaxGen /\ servers[i] = Nil
    BY <2>1 DEF KvTypes, KvRegistered
  <2>3. g \in Gens /\ g \in 0 .. MaxGen /\ g # 0
    BY <2>2 DEF Gens, KvHarnessAssumption
  <2>4. new \subseteq AllEnds /\ (\A e \in new : e[3] \in Names)
    BY <2>3 DEF AllEnds, ServerEnds
  <2>5. <<i, g>> \in Instances
    BY <2>3 DEF Instances
  <2> HIDE DEF g, new
  <2>6. /\ disks' \in [Names -> Seq(SUBSET Calls)] /\ saved' \in [Names -> Nat]
        /\ \A j \in Names : j # i => disks'[j] = disks[j] /\ saved'[j] = saved[j]
        /\ \A j \in Names : \A k \in 1 .. Len(disks[j]) : disks'[j][k] = disks[j][k]
        /\ \A j \in Names : Disk(j)' = Disk(j)
        /\ \A j \in Names : saved'[j] \in 1 .. Len(disks'[j]) /\ saved[j] <= saved'[j]
    BY <2>1, KvCopied
  <2>7. /\ gen' \in [Names -> Gens] /\ gen'[i] = g /\ \A j \in Names : j # i => gen'[j] = gen[j]
    BY <2>1, <2>3 DEF KvTypes
  <2>8. /\ kvservers' \in [Names -> 0 .. MaxGen] /\ kvservers'[i] = g
        /\ \A j \in Names : j # i => kvservers'[j] = kvservers[j]
    BY <2>1, <2>3 DEF KvTypes
  <2>9. /\ pers' \in [Instances -> Nat] /\ pers'[<<i, g>>] = saved'[i]
        /\ \A x \in Instances : x # <<i, g>> => pers'[x] = pers[x]
    <3>1. saved'[i] \in Nat
      BY <2>6
    <3> QED BY <2>1, <2>5, <3>1 DEF KvTypes
  <2>10. KvTypes'
    <3>1. connections' \in [AllEnds -> Names \cup {Nil}]
      BY <2>1, <2>4 DEF KvTypes, RpcTypeOK
    <3>2. RpcTypeOK'
      BY <2>1, <2>4, <3>1 DEF KvTypes, RpcTypeOK
    <3>3. tester' \in [op : KvOps, i : Names]
      BY <2>1 DEF KvOps
    <3> QED BY <2>1, <2>6, <2>7, <2>8, <2>9, <3>2, <3>3 DEF KvTypes
  <2>11. KvWired'
    BY <2>1, <2>4 DEF KvWired
  <2>12. KvGiven'
    <3>1. ASSUME NEW j \in Names, NEW h \in Gens
          PROVE  pers'[<<j, h>>] <= saved'[j] /\ (h > gen'[j] => pers'[<<j, h>>] = 0)
      <4>0. saved[j] <= saved'[j] /\ saved[j] \in Nat /\ saved'[j] \in Nat
        BY <2>6 DEF KvTypes
      <4>1. CASE <<j, h>> = <<i, g>>
        <5>1. j = i /\ h = g /\ gen'[j] = g /\ ~(g > g)
          BY <2>3, <2>7, <4>1 DEF Gens
        <5> QED BY <2>9, <4>0, <4>1, <5>1
      <4>2. CASE <<j, h>> # <<i, g>>
        <5>1. pers'[<<j, h>>] = pers[<<j, h>>] /\ pers[<<j, h>>] \in Nat
          BY <2>9, <4>2 DEF KvTypes, Instances
        <5>2. pers[<<j, h>>] <= saved[j] /\ (h > gen[j] => pers[<<j, h>>] = 0)
          BY DEF KvGiven
        <5>3. h > gen'[j] => h > gen[j]
          <6>1. gen[j] \in Nat /\ h \in Nat /\ gen[i] \in Nat
            BY DEF KvTypes, Gens
          <6>2. gen'[j] = gen[j] \/ (j = i /\ gen'[j] = gen[i] + 1)
            BY <2>7 DEF g
          <6> QED BY <6>1, <6>2
        <5> QED BY <4>0, <5>1, <5>2, <5>3
      <4> QED BY <4>1, <4>2
    <3> QED BY <2>6, <3>1 DEF KvGiven
  <2>13. KvRegistered'
    <3>1. ASSUME NEW j \in Names, j # i
          PROVE  /\ kvservers'[j] = 0 => servers'[j] = Nil /\ gen'[j] < MaxGen
                 /\ servers'[j] # Nil => servers'[j] = <<j, gen'[j]>> /\ pers'[<<j, gen'[j]>>] = saved'[j]
      <4>1. kvservers'[j] = kvservers[j] /\ servers'[j] = servers[j] /\ gen'[j] = gen[j] /\ saved'[j] = saved[j]
        BY <2>1, <2>6, <2>7, <2>8, <3>1
      <4>2. <<j, gen[j]>> \in Instances /\ <<j, gen[j]>> # <<i, g>>
        BY <3>1 DEF KvTypes, Instances
      <4>3. pers'[<<j, gen[j]>>] = pers[<<j, gen[j]>>]
        BY <2>9, <4>2
      <4> QED BY <4>1, <4>3 DEF KvRegistered
    <3>2. kvservers'[i] # 0 /\ servers'[i] = Nil /\ pers'[<<i, gen'[i]>>] = saved'[i]
      BY <2>1, <2>2, <2>3, <2>7, <2>8, <2>9
    <3>3. tester'.op = "serve" /\ tester'.i = i
      BY <2>1
    <3> QED BY <3>1, <3>2, <3>3 DEF KvRegistered
  <2>14. KvCalls'
    <3>1. ASSUME NEW x \in Instances, pers[x] # 0 PROVE pers'[x] = pers[x]
      <4>1. x # <<i, g>>
        <5>1. pers[<<i, g>>] = 0
          <6>1. g > gen[i]
            BY <2>2 DEF g, Gens
          <6> QED BY <2>3, <6>1 DEF KvGiven
        <5> QED BY <3>1, <5>1
      <4> QED BY <2>9, <4>1
    <3> QED BY <2>1, <2>6, <3>1, KvCallsFrame
  <2>15. KvSilent'
    <3>1. ASSUME NEW e \in enabled' \cap ServerEnds PROVE e[1] # i
      BY <2>1 DEF KvSilent
    <3>2. \A e \in ServerEnds : e[1] \in Names
      BY DEF ServerEnds
    <3> QED BY <2>1, <2>7, <2>8, <3>1, <3>2 DEF KvSilent
  <2> QED BY <2>10, <2>11, <2>12, <2>13, <2>14, <2>15
<1>2. CASE StartServe
  <2>1. /\ UNCHANGED <<ends, enabled, connections, reliable, netDone, netLoop, pc, end, srv, lossy, handler,
                       gen, kvservers, disks, saved, pers, clerks>>
        /\ servers' = [servers EXCEPT ![tester.i] = <<tester.i, gen[tester.i]>>]
        /\ tester' = [op |-> "idle", i |-> 0] /\ tester.op = "serve"
    BY <1>2 DEF StartServe, AddServer, callVars, harnessVars, Idle
  <2>2. tester'.op = "idle" /\ tester' \in [op : KvOps, i : Names]
    BY <2>1 DEF KvOps, Names, KvHarnessAssumption
  <2>3. /\ servers' \in [Names -> Instances \cup {Nil}] /\ servers'[tester.i] = <<tester.i, gen[tester.i]>>
        /\ \A j \in Names : j # tester.i => servers'[j] = servers[j]
    BY <1>0, <2>1 DEF KvTypes, RpcTypeOK, Instances
  <2>4. KvTypes'
    <3>1. RpcTypeOK'
      BY <2>1, <2>3 DEF KvTypes, RpcTypeOK
    <3> QED BY <2>1, <2>2, <3>1 DEF KvTypes
  <2>5. KvWired' /\ KvGiven'
    BY <2>1 DEF KvWired, KvGiven
  <2>6. KvRegistered'
    BY <1>0, <2>1, <2>2, <2>3 DEF KvRegistered
  <2>7. KvCalls'
    BY <2>1 DEF KvCalls, KvCall, KvServed, Disk
  <2>8. KvSilent'
    BY <2>1, <2>2 DEF KvSilent
  <2> QED BY <2>4, <2>5, <2>6, <2>7, <2>8
<1> QED BY <1>1, <1>2

\* Every step keeps the invariant.
LEMMA KvNext ==
  ASSUME KvHarnessAssumption, KvInv, [Next]_vars
  PROVE  KvInv'
<1>1. CASE UNCHANGED vars
  <2>1. UNCHANGED <<ends, enabled, connections, servers, reliable, netDone, netLoop, pc, end, srv, lossy,
                    handler, harnessVars, tester>>
    BY <1>1 DEF vars, network, inFlight
  <2>2. enabled' \subseteq AllEnds
    BY <2>1 DEF KvInv, KvTypes, RpcTypeOK
  <2> QED BY <2>1, <2>2, KvRewired
<1>2. ASSUME NEW c \in Calls, (\E e \in AllEnds : MakeCall(c, e)) \/ Network(c) PROVE KvInv'
  <2>1. RpcTypeOK' /\ UNCHANGED <<ends, enabled, connections, servers, harnessVars, tester, cut>>
    BY <1>2, KvRpcStep DEF KvInv
  <2>2. KvCalls'
    BY <1>2, KvRpcCalls
  <2>3. KvTypes'
    BY <2>1 DEF KvInv, KvTypes, harnessVars
  <2>4. KvWired' /\ KvGiven' /\ KvRegistered' /\ KvSilent'
    BY <2>1 DEF KvInv, KvWired, KvGiven, KvRegistered, KvSilent, harnessVars
  <2> QED BY <2>2, <2>3, <2>4 DEF KvInv
<1>3. ASSUME NEW c \in Calls, Handle(c) PROVE KvInv'
  BY <1>3, KvHandled
<1>4. CASE (NetExit \/ CleanupAll) /\ UNCHANGED <<harnessVars, tester, cut>>
  <2>1. /\ UNCHANGED <<ends, enabled, connections, servers, reliable, pc, end, srv, lossy, handler,
                       harnessVars, tester>>
        /\ netDone' \in BOOLEAN /\ netLoop' \in BOOLEAN
    BY <1>4 DEF NetExit, CleanupAll, Cleanup, callVars, KvInv, KvTypes, RpcTypeOK
  <2>2. RpcTypeOK'
    BY <2>1 DEF KvInv, KvTypes, RpcTypeOK
  <2>3. KvTypes'
    BY <2>1, <2>2 DEF KvInv, KvTypes, harnessVars
  <2>4. KvWired' /\ KvGiven' /\ KvRegistered' /\ KvSilent'
    BY <2>1 DEF KvInv, KvWired, KvGiven, KvRegistered, KvSilent, harnessVars
  <2>5. KvCalls'
    BY <2>1 DEF KvInv, KvCalls, KvCall, KvServed, Disk, harnessVars
  <2> QED BY <2>3, <2>4, <2>5 DEF KvInv
<1>5. CASE ConnectAll \/ RandomPartition \/ MakePartition
  BY <1>5, KvTopology
<1>6. ASSUME NEW k \in Clerks, NEW js \in SUBSET Names,
             MakeClient(k, js) \/ ConnectClient(k, js) \/ DisconnectClient(k, js)
      PROVE  KvInv'
  BY <1>6, KvClerks
<1>7. ASSUME NEW k \in Clerks, DeleteClient(k) PROVE KvInv'
  <2>1. {} \in SUBSET Names
    OBVIOUS
  <2> QED BY <1>7, <2>1, KvClerks
<1>8. CASE (\E i \in Names : ShutdownDisconnect(i)) \/ ShutdownDelete \/ ShutdownCopy \/ ShutdownKill
  BY <1>8, KvShutdown
<1>9. CASE (\E i \in Names : StartServer(i)) \/ StartServe
  BY <1>9, KvStarted
<1>10. CASE CleanupAll
  BY <1>4, <1>10 DEF CleanupAll
<1> QED BY <1>1, <1>2, <1>3, <1>4, <1>5, <1>6, <1>7, <1>8, <1>9, <1>10 DEF Next, Tester1

\* The inductive invariant of KvHarness.
LEMMA KvInvariant == ASSUME KvHarnessAssumption PROVE Spec => []KvInv
<1>1. Init => KvInv
  BY KvInitInv
<1>2. KvInv /\ [Next]_vars => KvInv'
  BY KvNext
<1> QED BY <1>1, <1>2, PTL DEF Spec

\* It gives the types.
LEMMA KvTyped ==
  ASSUME KvHarnessAssumption PROVE KvInv => TypeOK
<1> SUFFICES ASSUME KvInv PROVE TypeOK
  OBVIOUS
<1>1. \A i \in Names : saved[i] \in DOMAIN disks[i]
  BY DEF KvInv, KvTypes, KvGiven
<1> QED BY <1>1 DEF KvInv, KvTypes, KvGiven, TypeOK

\* KvHarness and the network under it stay in their types, and no instance has a Persister newer
\* than cfg.saved, for any number of servers, clerks, instances and calls.
THEOREM KvTypeOK == ASSUME KvHarnessAssumption PROVE Spec => []TypeOK
BY KvInvariant, KvTyped, PTL

\* A clerk's call that returned true is in the Persister that StartServer will give the next
\* instance, although clerks' ends stay enabled through ShutdownServer: DeleteServer comes before
\* the copy, and processReq looks the server up again before it lets the reply through.
THEOREM KvAckedSurvives == ASSUME KvHarnessAssumption PROVE Spec => []AckedSurvives
<1>1. KvInv => AckedSurvives
  BY DEF KvInv, KvCalls, KvCall, AckedSurvives
<1> QED BY <1>1, KvInvariant, PTL

\* No end of an instance that ShutdownServer has killed is enabled any more, whatever ConnectAll,
\* partition and StartServer do later: cfg.endnames has the ends of the new instance then.
THEOREM KvDeadIsSilent == ASSUME KvHarnessAssumption PROVE Spec => []DeadIsSilent
<1>1. KvInv => DeadIsSilent
  BY DEF KvInv, KvSilent, DeadIsSilent
<1> QED BY <1>1, KvInvariant, PTL

\* The end-point of server i's current instance towards server j.
KvLink(i, j) == <<i, gen[i], j>>

\* Which links Links has.
LEMMA KvLinksOf ==
  ASSUME NEW i, NEW j, NEW x, NEW js
  PROVE  KvLink(i, j) \in Links(x, js) <=> (i = x /\ j \in js) \/ (j = x /\ i \in js)
BY DEF KvLink, Links

\* The loop over one side connects that side, cuts it from the other and leaves the other alone.
LEMMA SideCuts ==
  ASSUME NEW en, NEW p, Len(p) \in Nat, DOMAIN p = 1 .. Len(p), NEW q,
         Range(p) \cap Range(q) = {}
  PROVE  LET s == Side(en, p, q) IN
         /\ \A i, j \in Range(p) : KvLink(i, j) \in s
         /\ \A i \in Range(p), j \in Range(q) : KvLink(i, j) \notin s /\ KvLink(j, i) \notin s
         /\ \A i, j \in Range(q) : KvLink(i, j) \in s <=> KvLink(i, j) \in en
<1>1. PICK f : /\ f[0] = en /\ Side(en, p, q) = f[Len(p)]
               /\ \A k \in 1 .. Len(p) :
                    f[k] = ConnectUnlocked(DisconnectUnlocked(f[k - 1], p[k], Range(q)), p[k], Range(p))
  BY SideSteps
<1> DEFINE n == Len(p)
           A == Range(p)
           B == Range(q)
           Done(i, k) == \E m \in 1 .. k : p[m] = i
           Own(k) == \A i, j \in A : Done(i, k) => KvLink(i, j) \in f[k] /\ KvLink(j, i) \in f[k]
           Cross(k) == \A i \in A, j \in B : Done(i, k) => KvLink(i, j) \notin f[k] /\ KvLink(j, i) \notin f[k]
           Rest(k) == \A i, j \in B : KvLink(i, j) \in f[k] <=> KvLink(i, j) \in en
           P == {k \in 0 .. n : Own(k) /\ Cross(k) /\ Rest(k)}
<1>2. 0 \in P
  <2>1. \A i : ~Done(i, 0)
    OBVIOUS
  <2>2. Rest(0)
    BY <1>1
  <2> HIDE DEF Done, Rest
  <2> QED BY <2>1, <2>2
<1>3. ASSUME NEW k \in 0 .. n, k < n, k \in P PROVE k + 1 \in P
  <2> DEFINE x == p[k + 1]
  <2>1. k + 1 \in 1 .. n /\ k + 1 \in 0 .. n /\ (k + 1) - 1 = k
    BY <1>3
  <2>2. x \in A
    BY <2>1 DEF Range
  <2>3. \A i : Done(i, k + 1) <=> Done(i, k) \/ i = x
    BY <2>1
  <2>4. f[k + 1] = ConnectUnlocked(DisconnectUnlocked(f[k], x, B), x, A)
    BY <1>1, <2>1
  <2> HIDE DEF x, Done, A, B
  <2>5. A \cap B = {}
    BY DEF A, B
  <2>6. \A e : e \in f[k + 1] <=> (e \in f[k] /\ e \notin Links(x, B)) \/ e \in Links(x, A)
    BY <2>4 DEF ConnectUnlocked, DisconnectUnlocked
  <2>7. \A i, j : KvLink(i, j) \in f[k + 1] <=>
          \/ KvLink(i, j) \in f[k] /\ ~((i = x /\ j \in B) \/ (j = x /\ i \in B))
          \/ (i = x /\ j \in A) \/ (j = x /\ i \in A)
    BY <2>6, KvLinksOf
  <2>8. Own(k) /\ Cross(k) /\ Rest(k)
    BY <1>3
  <2>9. Own(k + 1)
    BY <2>2, <2>3, <2>5, <2>7, <2>8
  <2>10. Cross(k + 1)
    BY <2>2, <2>3, <2>5, <2>7, <2>8
  <2>11. Rest(k + 1)
    BY <2>2, <2>5, <2>7, <2>8
  <2> QED BY <2>1, <2>9, <2>10, <2>11
<1> HIDE DEF P
<1>4. n \in Nat /\ \A k \in 0 .. n : k < n /\ k \in P => k + 1 \in P
  BY <1>3
<1>5. \A i \in A : Done(i, n)
  BY DEF Range
<1> HIDE DEF n, Done
<1>6. \A k \in 0 .. n : k \in P
  BY <1>2, <1>4, UpTo, Zenon
<1>7. n \in P
  BY <1>4, <1>6
<1>8. Own(n) /\ Cross(n) /\ Rest(n)
  BY <1>7 DEF P
<1>9. Side(en, p, q) = f[n]
  BY <1>1 DEF n
<1> QED BY <1>5, <1>8, <1>9

\* Both loops: two servers are connected if and only if they are on one side.
LEMMA KvBothSides ==
  ASSUME NEW en, NEW p1, NEW p2, Len(p1) \in Nat, DOMAIN p1 = 1 .. Len(p1),
         Len(p2) \in Nat, DOMAIN p2 = 1 .. Len(p2),
         Range(p1) \cap Range(p2) = {}, Range(p1) \cup Range(p2) = Names
  PROVE  \A i, j \in Names :
           KvLink(i, j) \in Side(Side(en, p1, p2), p2, p1) <=>
             \/ i \in Range(p1) /\ j \in Range(p1)
             \/ i \in Range(p2) /\ j \in Range(p2)
<1> DEFINE A == Range(p1)
           B == Range(p2)
           s == Side(en, p1, p2)
           t == Side(s, p2, p1)
<1>1. \A i, j \in A : KvLink(i, j) \in s
  BY SideCuts
<1>2. Range(p2) \cap Range(p1) = {}
  OBVIOUS
<1>3. /\ \A i, j \in B : KvLink(i, j) \in t
      /\ \A i \in B, j \in A : KvLink(i, j) \notin t /\ KvLink(j, i) \notin t
      /\ \A i, j \in A : KvLink(i, j) \in t <=> KvLink(i, j) \in s
  <2> HIDE DEF s
  <2> QED BY <1>2, SideCuts
<1>4. A \cap B = {} /\ A \cup B = Names
  OBVIOUS
<1> HIDE DEF A, B, s, t
<1>5. \A i, j \in Names : KvLink(i, j) \in t <=> (i \in A /\ j \in A) \/ (i \in B /\ j \in B)
  BY <1>1, <1>3, <1>4
<1> QED BY <1>5 DEF A, B, s, t

\* The last partition, while it lasts: every server is up, the sides are disjoint and have all
\* the servers, and the links of the current instances are those of the sides; the leader
\* that make_partition found is in the minority.
KvCut ==
  cut = Whole \/
    /\ tester = Idle /\ \A i \in Names : kvservers[i] # 0
    /\ cut.p1 \cap cut.p2 = {} /\ cut.p1 \cup cut.p2 = Names
    /\ \A i, j \in Names :
         KvLink(i, j) \in enabled <=> (i \in cut.p1 /\ j \in cut.p1) \/ (i \in cut.p2 /\ j \in cut.p2)
    /\ cut.leader # Nil =>
         cut.leader \in cut.p2 /\ 2 * Cardinality(cut.p2) < N /\ 2 * Cardinality(cut.p1) > N

\* A loop of make_partition fills a side of that many servers.
LEMMA KvSideSize ==
  ASSUME KvHarnessAssumption, NEW p, Len(p) \in Nat, DOMAIN p = 1 .. Len(p), Range(p) \subseteq Names
  PROVE  /\ Cardinality(Range(p)) \in Nat /\ Cardinality(Range(p)) <= Len(p)
         /\ (\A j, k \in 1 .. Len(p) : p[j] = p[k] => j = k) => Cardinality(Range(p)) = Len(p)
<1> DEFINE n == Len(p)
           A == Range(p)
           g == [k \in 1 .. n |-> p[k]]
<1>0. n \in Nat
  OBVIOUS
<1>1. IsFiniteSet(1 .. n) /\ Cardinality(1 .. n) = n
  <2> HIDE DEF n
  <2> QED BY <1>0, FS_Interval
<1>2. g \in Surjection(1 .. n, A)
  BY DEF Surjection, Range
<1>3. ASSUME \A j, k \in 1 .. n : p[j] = p[k] => j = k PROVE g \in Bijection(1 .. n, A)
  <2>1. IsInjective(g)
    BY <1>3 DEF IsInjective
  <2> QED BY <1>2, <2>1 DEF Bijection, Injection, Surjection
<1> HIDE DEF g, n, A
<1>4. IsFiniteSet(A) /\ Cardinality(A) <= Cardinality(1 .. n)
  BY <1>1, <1>2, FS_Surjection
<1>5. Cardinality(A) \in Nat
  BY <1>4, FS_CardinalityType
<1>6. ASSUME \A j, k \in 1 .. n : p[j] = p[k] => j = k PROVE Cardinality(A) = Cardinality(1 .. n)
  BY <1>1, <1>3, <1>4, <1>6, FS_Bijection DEF ExistsBijection
<1> QED BY <1>1, <1>4, <1>5, <1>6 DEF n, A

\* A step that leaves the enabled links of current instances and cut alone keeps KvCut.
LEMMA KvCutFrame ==
  ASSUME KvTypes, KvCut, UNCHANGED <<gen, kvservers, tester, cut>>, enabled' \cap ServerEnds = enabled \cap ServerEnds
  PROVE  KvCut'
<1>1. \A i, j \in Names : KvLink(i, j) \in ServerEnds /\ KvLink(i, j)' = KvLink(i, j)
  BY DEF KvLink, ServerEnds, KvTypes
<1>2. \A i, j \in Names : KvLink(i, j)' \in enabled' <=> KvLink(i, j) \in enabled
  BY <1>1
<1>3. CASE cut = Whole
  BY <1>3 DEF KvCut, Whole
<1>4. CASE cut # Whole
  <2>1. cut' # Whole /\ Whole' = Whole /\ Idle' = Idle
    BY <1>4 DEF Whole, Idle
  <2> QED BY <1>2, <1>4, <2>1 DEF KvCut
<1> QED BY <1>3, <1>4

\* Partition leaves the links of its sides.
LEMMA KvCutPartition ==
  ASSUME KvHarnessAssumption, KvInv, RandomPartition \/ MakePartition
  PROVE  KvCut'
<1>1. PICK p1, p2, l :
           /\ Partition(p1, p2, l) /\ Len(p1) \in Nat /\ Len(p2) \in Nat
           /\ DOMAIN p1 = 1 .. Len(p1) /\ DOMAIN p2 = 1 .. Len(p2)
           /\ Range(p1) \cap Range(p2) = {} /\ Range(p1) \cup Range(p2) = Names
           /\ l # Nil => /\ l \in Range(p2) /\ N = 2 * Len(p2) + 1 /\ Len(p1) = Len(p2) + 1
                         /\ \A j, k \in 1 .. Len(p1) : p1[j] = p1[k] => j = k
  BY KvCutInTwo
<1>2. /\ enabled' = Side(Side(enabled, p1, p2), p2, p1) /\ Steady
      /\ cut' = [p1 |-> Range(p1), p2 |-> Range(p2), leader |-> l]
      /\ UNCHANGED <<gen, kvservers, tester>>
  BY <1>1 DEF Partition, SetEnabled, harnessVars
<1>3. cut'.p1 = Range(p1) /\ cut'.p2 = Range(p2) /\ cut'.leader = l
  BY <1>2
<1>4. \A i, j \in Names : KvLink(i, j)' \in enabled' <=>
             \/ i \in Range(p1) /\ j \in Range(p1)
             \/ i \in Range(p2) /\ j \in Range(p2)
  <2>1. \A i, j \in Names : KvLink(i, j)' = KvLink(i, j)
    BY <1>2 DEF KvLink
  <2>2. \A i, j \in Names : KvLink(i, j) \in Side(Side(enabled, p1, p2), p2, p1) <=>
             \/ i \in Range(p1) /\ j \in Range(p1)
             \/ i \in Range(p2) /\ j \in Range(p2)
    <3> DEFINE en == enabled
    <3> HIDE DEF en
    <3>1. \A i, j \in Names : KvLink(i, j) \in Side(Side(en, p1, p2), p2, p1) <=>
             \/ i \in Range(p1) /\ j \in Range(p1)
             \/ i \in Range(p2) /\ j \in Range(p2)
      BY <1>1, KvBothSides
    <3> QED BY <3>1 DEF en
  <2> QED BY <1>2, <2>1, <2>2
<1>5. ASSUME l # Nil PROVE l \in Range(p2) /\ 2 * Cardinality(Range(p2)) < N /\ 2 * Cardinality(Range(p1)) > N
  <2>1. Range(p1) \subseteq Names /\ Range(p2) \subseteq Names
    BY <1>1
  <2>2. Cardinality(Range(p1)) = Len(p1) /\ Cardinality(Range(p2)) \in Nat /\ Cardinality(Range(p2)) <= Len(p2)
    BY <1>1, <1>5, <2>1, KvSideSize
  <2> QED BY <1>1, <1>5, <2>2
<1>6. tester' = Idle /\ \A i \in Names : kvservers'[i] # 0
  BY <1>2 DEF Steady
<1>7. Idle' = Idle /\ Nil' = Nil
  BY DEF Idle
<1>8. /\ cut'.p1 \cap cut'.p2 = {} /\ cut'.p1 \cup cut'.p2 = Names
      /\ \A i, j \in Names :
           KvLink(i, j)' \in enabled' <=>
             (i \in cut'.p1 /\ j \in cut'.p1) \/ (i \in cut'.p2 /\ j \in cut'.p2)
  <2>1. cut'.p1 \cap cut'.p2 = {} /\ cut'.p1 \cup cut'.p2 = Names
    BY <1>1, <1>3
  <2>2. ASSUME NEW i \in Names, NEW j \in Names
        PROVE  KvLink(i, j)' \in enabled' <=>
                 (i \in cut'.p1 /\ j \in cut'.p1) \/ (i \in cut'.p2 /\ j \in cut'.p2)
    <3>1. KvLink(i, j)' \in enabled' <=>
             \/ i \in Range(p1) /\ j \in Range(p1)
             \/ i \in Range(p2) /\ j \in Range(p2)
      BY <1>4
    <3> QED BY <1>3, <3>1
  <2> QED BY <2>1, <2>2
<1>9. cut'.leader # Nil =>
        cut'.leader \in cut'.p2 /\ 2 * Cardinality(cut'.p2) < N /\ 2 * Cardinality(cut'.p1) > N
  BY <1>3, <1>5
<1> QED BY <1>6, <1>7, <1>8, <1>9 DEF KvCut

\* Every step keeps KvCut.
LEMMA KvCutNext ==
  ASSUME KvHarnessAssumption, KvInv, KvCut, [Next]_vars
  PROVE  KvCut'
<1>0. KvTypes
  BY DEF KvInv
<1>1. CASE UNCHANGED vars
  BY <1>0, <1>1, KvCutFrame DEF vars, network, harnessVars
<1>2. ASSUME NEW c \in Calls, (\E e \in AllEnds : MakeCall(c, e)) \/ Network(c) PROVE KvCut'
  BY <1>0, <1>2, KvRpcStep, KvCutFrame DEF harnessVars
<1>3. ASSUME NEW c \in Calls, Handle(c) PROVE KvCut'
  BY <1>0, <1>3, KvCutFrame DEF Handle, HandlerReturn, netVars
<1>4. CASE NetExit /\ UNCHANGED <<harnessVars, tester, cut>>
  BY <1>0, <1>4, KvCutFrame DEF NetExit, harnessVars
<1>5. CASE CleanupAll
  BY <1>0, <1>5, KvCutFrame DEF CleanupAll, Cleanup, harnessVars
<1>6. CASE RandomPartition \/ MakePartition
  BY <1>6, KvCutPartition
<1>7. ASSUME NEW k \in Clerks, NEW js \in SUBSET Names,
             MakeClient(k, js) \/ ConnectClient(k, js) \/ DisconnectClient(k, js)
      PROVE  KvCut'
  <2>1. ClerkLinks(k, js) \cap ServerEnds = {}
    BY KvClerkEnds
  <2>2. /\ enabled' \in {enabled \cup ClerkLinks(k, js), enabled \ ClerkLinks(k, js)}
        /\ UNCHANGED <<gen, kvservers, tester, cut>>
    BY <1>7 DEF MakeClient, ConnectClient, DisconnectClient, SetEnabled, harnessVars
  <2>3. enabled' \cap ServerEnds = enabled \cap ServerEnds
    BY <2>1, <2>2
  <2> QED BY <1>0, <2>2, <2>3, KvCutFrame
<1>8. ASSUME NEW k \in Clerks, DeleteClient(k) PROVE KvCut'
  BY <1>0, <1>8, KvCutFrame DEF DeleteClient, network
<1>9. CASE ConnectAll \/ \E i \in Names : ShutdownDisconnect(i)
  <2>1. cut' = Whole /\ Whole' = Whole
    BY <1>9 DEF ConnectAll, ShutdownDisconnect, Whole
  <2> QED BY <2>1 DEF KvCut
<1>10. CASE ShutdownDelete \/ ShutdownCopy \/ ShutdownKill \/ StartServe
  <2>1. tester # Idle /\ cut' = cut /\ Whole' = Whole
    BY <1>10 DEF ShutdownDelete, ShutdownCopy, ShutdownKill, StartServe, Idle, Whole
  <2> QED BY <2>1 DEF KvCut
<1>11. ASSUME NEW i \in Names, StartServer(i) PROVE KvCut'
  <2>1. kvservers[i] = 0 /\ cut' = cut /\ Whole' = Whole
    BY <1>11 DEF StartServer, Whole
  <2> QED BY <2>1 DEF KvCut
<1> QED BY <1>1, <1>2, <1>3, <1>4, <1>5, <1>6, <1>7, <1>8, <1>9, <1>10, <1>11 DEF Next, Tester1

\* The inductive invariant of the partitions.
LEMMA KvCutInvariant == ASSUME KvHarnessAssumption PROVE Spec => []KvCut
<1>1. Init => KvCut
  BY DEF Init, KvCut
<1>2. KvInv /\ KvCut /\ [Next]_vars => KvCut'
  BY KvCutNext
<1> QED BY <1>1, <1>2, KvInvariant, PTL DEF Spec

\* After partition two servers' current instances reach each other if and only if they are on one
\* side, for any number of servers and any earlier partitions: every link across is cut by one of
\* the two loops, and neither enables it again.
THEOREM KvPartitionHolds == ASSUME KvHarnessAssumption PROVE Spec => []PartitionHolds
<1>1. KvCut => PartitionHolds
  BY DEF KvCut, KvLink, PartitionHolds
<1> QED BY <1>1, KvCutInvariant, PTL

\* make_partition leaves the leader it found connected to less than a majority, and the servers
\* of the other side are a majority, for every odd number of servers.
THEOREM KvLeaderInMinority == ASSUME KvHarnessAssumption PROVE Spec => []LeaderInMinority
<1>1. ASSUME KvCut PROVE LeaderInMinority
  <2> SUFFICES ASSUME cut.leader # Nil
               PROVE  /\ 2 * Cardinality({j \in Names : <<cut.leader, gen[cut.leader], j>> \in enabled}) < N
                      /\ 2 * Cardinality(cut.p1 \ cut.p2) > N
    BY DEF LeaderInMinority
  <2>1. cut # Whole
    BY DEF Whole
  <2>2. /\ cut.p1 \cap cut.p2 = {} /\ cut.p1 \cup cut.p2 = Names
        /\ \A i, j \in Names :
             KvLink(i, j) \in enabled <=> (i \in cut.p1 /\ j \in cut.p1) \/ (i \in cut.p2 /\ j \in cut.p2)
        /\ cut.leader \in cut.p2 /\ 2 * Cardinality(cut.p2) < N /\ 2 * Cardinality(cut.p1) > N
    BY <1>1, <2>1 DEF KvCut
  <2>3. {j \in Names : <<cut.leader, gen[cut.leader], j>> \in enabled} = cut.p2
    BY <2>2 DEF KvLink
  <2>4. cut.p1 \ cut.p2 = cut.p1
    BY <2>2
  <2> QED BY <2>2, <2>3, <2>4
<1>2. KvCut => LeaderInMinority
  BY <1>1
<1> QED BY <1>2, KvCutInvariant, PTL

-----------------------------------------------------------------------------
(* RaftHarness.                                                            *)

-----------------------------------------------------------------------------
(* The invariant.                                                          *)

RaftOps == {"idle", "disable", "enable", "crash", "delete", "copy", "kill", "readState",
        "readSnapshot", "crashed", "persist", "serve"}

Update == [raftstate : SUBSET Calls, snapshot : SUBSET Calls]

TesterType ==
  /\ tester \in [op : RaftOps, i : Peers \cup {Nil}, todo : SUBSET Raft!AllEnds, raftlog : SUBSET Calls]
  /\ tester.op # "idle" => tester.i \in Peers

TypeInv == Raft!TypeOK /\ TesterType

\* crash1 or start1 is past DeleteServer and has not registered an instance.
Replacing(i) ==
  /\ tester.i = i
  /\ tester.op \in {"copy", "kill", "readState", "readSnapshot", "crashed", "persist", "serve"}

\* The end-points that exist go where their name says, and belong to instances
\* that have been started.
Wired ==
  \A e \in ends : e \in Raft!AllEnds /\ connections[e] = e[3] /\ e[2] <= gen[e[1]]

\* A server has Persisters, and an instance that was made has one of them.
Given ==
  \A i \in Peers :
    /\ saved[i] \in 1 .. Len(disks[i])
    /\ \A g \in Raft!Gens :
         /\ pers[<<i, g>>] <= Len(disks[i])
         /\ pers[<<i, g>>] # 0 => g <= gen[i]
    /\ tester.op = "persist" /\ tester.i = i => pers[<<i, gen[i]>>] = 0

\* The instance that is registered is the last one, and saves into cfg.saved.
Registered ==
  \A i \in Peers :
    /\ servers[i] # Nil => servers[i] = <<i, gen[i]>> /\ pers[<<i, gen[i]>>] = saved[i]
    /\ Replacing(i) => servers[i] = Nil
    /\ tester.op = "serve" /\ tester.i = i => pers[<<i, gen[i]>>] = saved[i]

\* While crash1 reads it, nobody has the Persister that it has copied.
Private ==
  /\ tester.op \in {"kill", "readState", "readSnapshot"} =>
       \A g \in Raft!Gens : pers[<<tester.i, g>>] # saved[tester.i]
  /\ tester.op = "readSnapshot" => tester.raftlog = Raft!Disk(tester.i).raftstate

InSync ==
  \A i \in Peers, k \in Nat :
    k \in 1 .. Len(disks[i]) => disks[i][k].raftstate = disks[i][k].snapshot

\* A call that has found its server has found an instance that was made.
Served(c) == srv[c] \in Raft!Instances /\ srv[c] # Nil /\ pers[srv[c]] # 0

\* The update of a handler that has returned is in the Persister of its instance,
\* and in that of the next one once the reply was let through.
CallsInv ==
  \A c \in Calls :
    /\ pc[c] # "idle" => end[c] \in ends
    /\ pc[c] \in {"deliver", "await", "recheck", "replying", "true"} => Served(c)
    /\ pc[c] \in {"idle", "send", "process", "deliver"} => handler[c] = "none"
    /\ handler[c] # "none" => Served(c)
    /\ handler[c] \in {"ready", "taken"} => c \in disks[srv[c][1]][pers[srv[c]]].raftstate
    /\ pc[c] = "recheck" => handler[c] = "taken"
    /\ pc[c] \in {"replying", "true"} => c \in Raft!Disk(srv[c][1]).raftstate

DiskInv == Wired /\ Given /\ Registered /\ Private /\ InSync /\ CallsInv

\* The instance of an end-point.
From(e) == <<e[1], e[2]>>

\* An instance that was killed has no enabled end-point, and gets none.
Cut ==
  /\ \A e \in enabled : From(e) \notin crashed
  /\ tester.op = "enable" => \A e \in tester.todo : From(e) \notin crashed
  /\ tester.op = "crash" =>
       \A e \in enabled : From(e) = <<tester.i, gen[tester.i]>> => e \in tester.todo
  /\ tester.op \in {"delete", "copy", "kill"} =>
       \A e \in enabled : From(e) # <<tester.i, gen[tester.i]>>

\* Only a running instance is connected; it is the last one, and not killed.
Alive ==
  /\ \A x \in crashed : x[2] <= gen[x[1]]
  /\ \A i \in Peers :
       /\ rafts[i] # 0 => rafts[i] = gen[i] /\ <<i, gen[i]>> \notin crashed
       /\ connected[i] => rafts[i] # 0
       /\ tester.op = "persist" /\ tester.i = i => <<i, gen[i]>> \notin crashed
       /\ tester.op \in {"readState", "readSnapshot", "crashed", "persist"} /\ tester.i = i =>
            rafts[i] = 0
       /\ tester.op \in {"crash", "delete", "copy", "kill", "readState", "readSnapshot",
                         "crashed", "persist", "serve"} /\ tester.i = i => ~connected[i]

\* A late call does not get as far as a server.
LateFails ==
  \A c \in late :
    /\ From(end[c]) \in crashed
    /\ pc[c] \in {"send", "process", "failing", "false"} /\ handler[c] = "none"

SilentInv == Cut /\ Alive /\ LateFails

-----------------------------------------------------------------------------
(* Types.                                                                  *)

LEMMA EndsOfType ==
  ASSUME TypeInv, NEW i \in Peers
  PROVE  Raft!EndsOf(i) \subseteq Raft!AllEnds
BY DEF TypeInv, Raft!TypeOK, Raft!EndsOf, Raft!AllEnds

LEMMA TypeInit == ASSUME Raft!HarnessAssumption, Raft!Init PROVE TypeInv
<1> USE DEF Raft!HarnessAssumption, Raft!Init, Raft!Gens, Raft!Instances
<1>1. Raft!RpcTypeOK
  <2>1. ends \subseteq Raft!AllEnds /\ enabled \subseteq Raft!AllEnds
    OBVIOUS
  <2>2. \A e \in Raft!AllEnds : e[3] \in Peers
    BY DEF Raft!AllEnds
  <2>3. connections \in [Raft!AllEnds -> Peers \cup {Nil}]
    BY <2>2
  <2>4. servers \in [Peers -> Raft!Instances \cup {Nil}]
    OBVIOUS
  <2> HIDE DEF Raft!Instances
  <2> QED BY <2>1, <2>3, <2>4 DEF Raft!RpcTypeOK
<1>2. disks \in [Peers -> Seq(Update)]
  BY DEF Update, Raft!Persister
<1>3. TesterType
  BY DEF TesterType, Raft!Idle, RaftOps
<1>4. gen \in [Peers -> Raft!Gens] /\ rafts \in [Peers -> 0 .. MaxInst] /\ crashed \subseteq Raft!Instances
  OBVIOUS
<1>5. connected \in [Peers -> BOOLEAN] /\ saved \in [Peers -> Nat] /\ pers \in [Raft!Instances -> Nat]
      /\ late \subseteq Calls
  OBVIOUS
<1> QED BY <1>1, <1>2, <1>3, <1>4, <1>5 DEF TypeInv, Raft!TypeOK, Update

\* The calls and their processReq leave the harness and the wiring alone.
LEMMA RpcStep ==
  ASSUME TypeInv, NEW c \in Calls,
         (\E e \in Raft!AllEnds : Raft!MakeCall(c, e)) \/ Raft!Network(c)
  PROVE  /\ Raft!RpcTypeOK'
         /\ UNCHANGED <<ends, enabled, connections, servers, Raft!harnessVars, tester>>
<1> USE DEF TypeInv, Raft!TypeOK, Raft!RpcTypeOK, Raft!netVars
<1>1. CASE \E e \in Raft!AllEnds : Raft!MakeCall(c, e)
  BY <1>1 DEF Raft!MakeCall, Raft!Call, Raft!Goto
<1>2. CASE Raft!Send(c) /\ Raft!Network(c)
  BY <1>2 DEF Raft!Network, Raft!Send, Raft!Goto
<1>3. CASE Raft!Refuse(c) /\ Raft!Network(c)
  BY <1>3 DEF Raft!Network, Raft!Refuse, Raft!Goto
<1>4. CASE Raft!ReadEndnameInfo(c) /\ Raft!Network(c)
  <2>1. end[c] \in enabled => Raft!ServerOf(end[c]) \in Raft!Instances \cup {Nil}
    BY DEF Raft!ServerOf
  <2> QED BY <1>4, <2>1 DEF Raft!Network, Raft!ReadEndnameInfo, Raft!Goto
<1>5. CASE Raft!DropRequest(c) /\ Raft!Network(c)
  BY <1>5 DEF Raft!Network, Raft!DropRequest, Raft!Goto
<1>6. CASE Raft!Dispatch(c) /\ Raft!Network(c)
  BY <1>6 DEF Raft!Network, Raft!Dispatch, Raft!Goto
<1>7. CASE Raft!AwaitReply(c) /\ Raft!Network(c)
  BY <1>7 DEF Raft!Network, Raft!AwaitReply, Raft!Goto
<1>8. CASE Raft!AwaitPoll(c) /\ Raft!Network(c)
  BY <1>8 DEF Raft!Network, Raft!AwaitPoll, Raft!Goto
<1>9. CASE Raft!Recheck(c) /\ Raft!Network(c)
  BY <1>9 DEF Raft!Network, Raft!Recheck, Raft!Goto
<1>10. CASE Raft!Reply(c) /\ Raft!Network(c)
  BY <1>10 DEF Raft!Network, Raft!Reply, Raft!Goto
<1> QED BY <1>1, <1>2, <1>3, <1>4, <1>5, <1>6, <1>7, <1>8, <1>9, <1>10 DEF Raft!Network, Raft!ProcessReq

LEMMA NewDiskStep ==
  ASSUME TypeInv, NEW i \in Peers, NEW p \in Update, Raft!NewDisk(i, p)
  PROVE  /\ disks' \in [Peers -> Seq(Update)] /\ saved' \in [Peers -> Nat]
         /\ \A j \in Peers : j # i => disks'[j] = disks[j] /\ saved'[j] = saved[j]
         /\ Len(disks'[i]) = Len(disks[i]) + 1 /\ saved'[i] = Len(disks[i]) + 1
         /\ \A k \in 1 .. Len(disks[i]) : disks'[i][k] = disks[i][k]
         /\ disks'[i][saved'[i]] = p
<1>1. disks \in [Peers -> Seq(Update)] /\ saved \in [Peers -> Nat]
  BY DEF TypeInv, Raft!TypeOK, Update
<1>2. /\ disks' = [disks EXCEPT ![i] = Append(disks[i], p)]
      /\ saved' = [saved EXCEPT ![i] = Len(disks[i]) + 1]
  BY DEF Raft!NewDisk
<1>3. /\ Append(disks[i], p) \in Seq(Update) /\ Len(Append(disks[i], p)) = Len(disks[i]) + 1
      /\ \A k \in 1 .. Len(disks[i]) : Append(disks[i], p)[k] = disks[i][k]
      /\ Append(disks[i], p)[Len(disks[i]) + 1] = p /\ Len(disks[i]) \in Nat
  BY <1>1
<1> QED BY <1>1, <1>2, <1>3

LEMMA DiskType ==
  ASSUME TypeInv, Given, NEW i \in Peers
  PROVE  Raft!Disk(i) \in Update
<1>1. disks[i] \in Seq(Update) /\ saved[i] \in 1 .. Len(disks[i])
  BY DEF TypeInv, Raft!TypeOK, Update, Given
<1> QED BY <1>1 DEF Raft!Disk

\* The Save of a handler adds its call to the Persister of its instance.
LEMMA HandleStep ==
  ASSUME Raft!HarnessAssumption, TypeInv, Given, NEW c \in Calls, Served(c), Raft!Handle(c)
  PROVE  LET i == srv[c][1]
             p == pers[srv[c]]
         IN /\ i \in Peers /\ p \in 1 .. Len(disks[i])
            /\ disks' \in [Peers -> Seq(Update)]
            /\ \A j \in Peers : Len(disks'[j]) = Len(disks[j])
            /\ \A j \in Peers : j # i => disks'[j] = disks[j]
            /\ \A k \in 1 .. Len(disks[i]) : k # p => disks'[i][k] = disks[i][k]
            /\ disks'[i][p] = Raft!Persister(disks[i][p].raftstate \cup {c}, disks[i][p].snapshot \cup {c})
<1> DEFINE i == srv[c][1]
           g == srv[c][2]
           p == pers[srv[c]]
           q == Raft!Persister(disks[i][p].raftstate \cup {c}, disks[i][p].snapshot \cup {c})
<1>1. srv[c] = <<i, g>> /\ i \in Peers /\ g \in Raft!Gens /\ p # 0
  BY DEF Served, Raft!Instances
<1>2. disks \in [Peers -> Seq(Update)] /\ pers \in [Raft!Instances -> Nat]
  BY DEF TypeInv, Raft!TypeOK, Update
<1>3. p \in 1 .. Len(disks[i])
  <2>1. pers[<<i, g>>] <= Len(disks[i])
    BY <1>1 DEF Given
  <2>2. srv[c] \in Raft!Instances
    BY DEF Served
  <2>3. p \in Nat
    BY <1>2, <2>2
  <2>4. Len(disks[i]) \in Nat
    BY <1>1, <1>2
  <2>5. p <= Len(disks[i])
    <3> HIDE DEF i, g
    <3> QED BY <1>1, <2>1
  <2> QED BY <1>1, <2>3, <2>4, <2>5
<1>4. disks[i][p] \in Update
  BY <1>1, <1>2, <1>3
<1>5. q \in Update
  BY <1>4 DEF Raft!Persister, Update
<1>6. disks' = [disks EXCEPT ![i] = [disks[i] EXCEPT ![p] = q]]
  BY DEF Raft!Handle
<1> HIDE DEF q, p, i
<1>7. [disks[i] EXCEPT ![p] = q] \in Seq(Update) /\ Len([disks[i] EXCEPT ![p] = q]) = Len(disks[i])
  <2>1. disks[i] \in Seq(Update)
    BY <1>1, <1>2
  <2> QED BY <1>3, <1>5, <2>1
<1>8. /\ disks' \in [Peers -> Seq(Update)]
      /\ \A j \in Peers : j # i => disks'[j] = disks[j]
      /\ disks'[i] = [disks[i] EXCEPT ![p] = q]
  BY <1>1, <1>2, <1>6, <1>7
<1>9. disks'[i][p] = q /\ \A k \in 1 .. Len(disks[i]) : k # p => disks'[i][k] = disks[i][k]
  BY <1>1, <1>2, <1>3, <1>8
<1>10. \A j \in Peers : Len(disks'[j]) = Len(disks[j])
  BY <1>7, <1>8
<1> QED BY <1>1, <1>3, <1>8, <1>9, <1>10 DEF i, p, q

LEMMA TypeNext == ASSUME Raft!HarnessAssumption, TypeInv, DiskInv, [Raft!Next]_Raft!vars PROVE TypeInv'
<1>1. ASSUME NEW c \in Calls, (\E e \in Raft!AllEnds : Raft!MakeCall(c, e)) \/ Raft!Network(c) PROVE TypeInv'
  <2>1. /\ Raft!RpcTypeOK' /\ UNCHANGED <<Raft!harnessVars, tester>>
    BY <1>1, RpcStep
  <2>2. late' \subseteq Calls
    BY <1>1 DEF Raft!MakeCall, Raft!Network, TypeInv, Raft!TypeOK
  <2> QED BY <2>1, <2>2 DEF TypeInv, Raft!TypeOK, TesterType, Raft!harnessVars
<1>2. ASSUME NEW c \in Calls, Raft!Handle(c) PROVE TypeInv'
  <2>1. Served(c)
    BY <1>2 DEF Raft!Handle, Raft!HandlerReturn, DiskInv, CallsInv
  <2>2. disks' \in [Peers -> Seq(Update)]
    BY <1>2, <2>1, HandleStep DEF DiskInv
  <2>3. Raft!RpcTypeOK'
    BY <1>2 DEF Raft!Handle, Raft!HandlerReturn, Raft!netVars, TypeInv, Raft!TypeOK, Raft!RpcTypeOK
  <2> QED BY <1>2, <2>2, <2>3 DEF Raft!Handle, TypeInv, Raft!TypeOK, TesterType, Update
<1>3. CASE Raft!NetExit /\ UNCHANGED <<Raft!harnessVars, tester, late>>
  BY <1>3 DEF Raft!NetExit, Raft!callVars, Raft!harnessVars, TypeInv, Raft!TypeOK, Raft!RpcTypeOK, TesterType
<1>4. ASSUME NEW i \in Peers, Raft!Disconnect(i) \/ Raft!ConnectServer(i) \/ Raft!CrashDisconnect(i) PROVE TypeInv'
  <2>1. Raft!EndsOf(i) \subseteq Raft!AllEnds
    BY EndsOfType
  <2>2. UNCHANGED <<Raft!network, Raft!inFlight, gen, rafts, crashed, disks, saved, pers, late>>
        /\ connected' \in [Peers -> BOOLEAN]
    BY <1>4 DEF Raft!Disconnect, Raft!ConnectServer, Raft!CrashDisconnect, TypeInv, Raft!TypeOK
  <2>3. TesterType'
    BY <1>4, <2>1 DEF Raft!Disconnect, Raft!ConnectServer, Raft!CrashDisconnect, TesterType, Raft!Idle, RaftOps
  <2> QED BY <2>2, <2>3 DEF TypeInv, Raft!TypeOK, Raft!RpcTypeOK, Raft!network, Raft!inFlight
<1>5. CASE Raft!NextEnable
  <2>1. TesterType'
    BY <1>5 DEF Raft!NextEnable, TypeInv, TesterType, Raft!Idle, RaftOps
  <2>2. Raft!RpcTypeOK'
    <3>1. tester.todo \subseteq Raft!AllEnds
      BY DEF TypeInv, TesterType
    <3> QED BY <1>5, <3>1 DEF Raft!NextEnable, Raft!Enable, TypeInv, Raft!TypeOK, Raft!RpcTypeOK, Raft!network, Raft!inFlight, Raft!callVars
  <2> QED BY <1>5, <2>1, <2>2 DEF Raft!NextEnable, Raft!harnessVars, TypeInv, Raft!TypeOK
<1>6. CASE Raft!CrashDelete
  <2>1. TesterType'
    BY <1>6 DEF Raft!CrashDelete, Raft!Then, TypeInv, TesterType, RaftOps
  <2>2. Raft!RpcTypeOK'
    BY <1>6 DEF Raft!CrashDelete, Raft!DeleteServer, TypeInv, Raft!TypeOK, Raft!RpcTypeOK, Raft!callVars
  <2> QED BY <1>6, <2>1, <2>2 DEF Raft!CrashDelete, Raft!harnessVars, TypeInv, Raft!TypeOK
<1>7. CASE Raft!CrashCopy
  <2>1. tester.i \in Peers
    BY <1>7 DEF Raft!CrashCopy, TypeInv, TesterType
  <2>2. disks' \in [Peers -> Seq(Update)] /\ saved' \in [Peers -> Nat]
    BY <1>7, <2>1, DiskType, NewDiskStep DEF Raft!CrashCopy, DiskInv
  <2>3. TesterType'
    BY <1>7 DEF Raft!CrashCopy, Raft!Then, TypeInv, TesterType, RaftOps
  <2> QED BY <1>7, <2>2, <2>3 DEF Raft!CrashCopy, Raft!network, Raft!inFlight, TypeInv, Raft!TypeOK, Raft!RpcTypeOK, Update
<1>8. CASE Raft!CrashKill
  <2>1. TesterType'
    BY <1>8 DEF Raft!CrashKill, Raft!Then, TypeInv, TesterType, RaftOps
  <2>2. rafts' \in [Peers -> 0 .. MaxInst]
    <3>1. 0 \in 0 .. MaxInst
      BY DEF Raft!HarnessAssumption
    <3> QED BY <1>8, <3>1 DEF Raft!CrashKill, TypeInv, Raft!TypeOK, Raft!HarnessAssumption
  <2>3. crashed' \subseteq Raft!Instances
    BY <1>8 DEF Raft!CrashKill, TypeInv, Raft!TypeOK, TesterType, Raft!Instances, Raft!Gens, Raft!HarnessAssumption
  <2> QED BY <1>8, <2>1, <2>2, <2>3 DEF Raft!CrashKill, Raft!network, Raft!inFlight, TypeInv, Raft!TypeOK, Raft!RpcTypeOK
<1>9. CASE Raft!CrashReadState
  <2>1. tester.i \in Peers
    BY <1>9 DEF Raft!CrashReadState, TypeInv, TesterType
  <2>2. Raft!Disk(tester.i) \in Update
    BY <2>1, DiskType DEF DiskInv
  <2>3. TesterType'
    BY <1>9, <2>2 DEF Raft!CrashReadState, TypeInv, TesterType, RaftOps, Update
  <2> QED BY <1>9, <2>3 DEF Raft!CrashReadState, Raft!network, Raft!inFlight, Raft!harnessVars, TypeInv, Raft!TypeOK, Raft!RpcTypeOK
<1>10. CASE Raft!CrashReadSnapshot
  <2>1. tester.i \in Peers /\ tester.raftlog \subseteq Calls
    BY <1>10 DEF Raft!CrashReadSnapshot, TypeInv, TesterType
  <2>2. Raft!Disk(tester.i) \in Update
    BY <2>1, DiskType DEF DiskInv
  <2>3. Raft!Persister(tester.raftlog, Raft!Disk(tester.i).snapshot) \in Update
    BY <2>1, <2>2 DEF Update, Raft!Persister
  <2>4. disks' \in [Peers -> Seq(Update)] /\ saved' \in [Peers -> Nat]
    BY <1>10, <2>1, <2>3, NewDiskStep DEF Raft!CrashReadSnapshot
  <2>5. TesterType'
    BY <1>10, <2>1 DEF Raft!CrashReadSnapshot, Raft!Idle, TypeInv, TesterType, RaftOps
  <2> QED BY <1>10, <2>4, <2>5 DEF Raft!CrashReadSnapshot, Raft!network, Raft!inFlight, TypeInv, Raft!TypeOK, Raft!RpcTypeOK, Update
<1>11. CASE Raft!CrashReturn
  <2>1. TesterType'
    BY <1>11 DEF Raft!CrashReturn, Raft!Idle, TesterType, RaftOps
  <2> QED BY <1>11, <2>1 DEF Raft!CrashReturn, Raft!network, Raft!inFlight, Raft!harnessVars, TypeInv, Raft!TypeOK, Raft!RpcTypeOK
<1>12. CASE Raft!StartEnds
  <2>1. tester.i \in Peers /\ gen \in [Peers -> Raft!Gens]
    BY <1>12 DEF Raft!StartEnds, TypeInv, Raft!TypeOK, TesterType
  <2>2. gen[tester.i] + 1 \in Raft!Gens
    BY <1>12, <2>1 DEF Raft!StartEnds, Raft!Gens, Raft!HarnessAssumption
  <2>3. gen' \in [Peers -> Raft!Gens]
    BY <1>12, <2>1, <2>2 DEF Raft!StartEnds
  <2>4. TesterType'
    BY <1>12 DEF Raft!StartEnds, Raft!Then, TypeInv, TesterType, RaftOps
  <2>5. {<<tester.i, gen[tester.i] + 1, j>> : j \in Peers} \subseteq Raft!AllEnds
    BY <2>1, <2>2 DEF Raft!AllEnds
  <2>6. \A e \in Raft!AllEnds : e[3] \in Peers
    BY DEF Raft!AllEnds
  <2>7. ends' \subseteq Raft!AllEnds /\ connections' \in [Raft!AllEnds -> Peers \cup {Nil}]
    BY <1>12, <2>5, <2>6 DEF Raft!StartEnds, TypeInv, Raft!TypeOK, Raft!RpcTypeOK
  <2> QED BY <1>12, <2>3, <2>4, <2>7 DEF Raft!StartEnds, Raft!inFlight, TypeInv, Raft!TypeOK, Raft!RpcTypeOK
<1>13. CASE Raft!StartMake
  <2>1. tester.i \in Peers /\ gen \in [Peers -> Raft!Gens]
    BY <1>13 DEF Raft!StartMake, TypeInv, Raft!TypeOK, TesterType
  <2>2. disks' \in [Peers -> Seq(Update)] /\ saved' \in [Peers -> Nat]
    BY <1>13, <2>1, DiskType, NewDiskStep DEF Raft!StartMake, DiskInv
  <2>3. pers' \in [Raft!Instances -> Nat] /\ rafts' \in [Peers -> 0 .. MaxInst]
    <3>1. saved'[tester.i] \in Nat
      BY <2>1, <2>2
    <3>2. gen[tester.i] \in 0 .. MaxInst
      BY <2>1 DEF Raft!Gens
    <3> QED BY <1>13, <3>1, <3>2 DEF Raft!StartMake, TypeInv, Raft!TypeOK
  <2>4. TesterType'
    BY <1>13 DEF Raft!StartMake, Raft!Then, TypeInv, TesterType, RaftOps
  <2> QED BY <1>13, <2>2, <2>3, <2>4 DEF Raft!StartMake, Raft!network, Raft!inFlight, TypeInv, Raft!TypeOK, Raft!RpcTypeOK, Update
<1>14. CASE Raft!StartServe
  <2>1. tester.i \in Peers /\ gen \in [Peers -> Raft!Gens]
    BY <1>14 DEF Raft!StartServe, TypeInv, Raft!TypeOK, TesterType
  <2>2. Raft!RpcTypeOK'
    BY <1>14, <2>1 DEF Raft!StartServe, Raft!AddServer, TypeInv, Raft!TypeOK, Raft!RpcTypeOK, Raft!callVars, Raft!Instances
  <2>3. TesterType'
    BY <1>14 DEF Raft!StartServe, Raft!Idle, TesterType, RaftOps
  <2> QED BY <1>14, <2>2, <2>3 DEF Raft!StartServe, Raft!harnessVars, TypeInv, Raft!TypeOK
<1>15. CASE Raft!SetReliable \/ Raft!CleanupAll
  BY <1>15 DEF Raft!SetReliable, Raft!CleanupAll, Raft!Reliable, Raft!Cleanup, Raft!callVars, Raft!harnessVars, TypeInv, Raft!TypeOK,
               Raft!RpcTypeOK, TesterType
<1>16. CASE UNCHANGED Raft!vars
  BY <1>16 DEF Raft!vars, Raft!network, Raft!inFlight, Raft!harnessVars, TypeInv, Raft!TypeOK, Raft!RpcTypeOK, TesterType
<1> QED
  BY <1>1, <1>2, <1>3, <1>4, <1>5, <1>6, <1>7, <1>8, <1>9, <1>10, <1>11, <1>12, <1>13, <1>14,
     <1>15, <1>16
  DEF Raft!Next, Raft!Tester1

-----------------------------------------------------------------------------
(* The Persisters.                                                         *)

LEMMA DiskInit == ASSUME Raft!HarnessAssumption, Raft!Init PROVE DiskInv
<1> USE DEF Raft!Init, Raft!Gens, Raft!HarnessAssumption
<1>1. \A i \in Peers : disks[i] = <<Raft!Persister({}, {})>> /\ Len(disks[i]) = 1 /\ saved[i] = 1
  OBVIOUS
<1>2. tester.op = "idle"
  BY DEF Raft!Idle
<1>3. Wired
  <2>1. \A e \in Raft!AllEnds : e[1] \in Peers
    BY DEF Raft!AllEnds
  <2> QED BY <2>1 DEF Wired
<1>4. Given
  BY <1>1, <1>2 DEF Given, Raft!Instances
<1>5. Registered
  BY <1>2 DEF Registered, Replacing, Raft!Instances
<1>6. Private
  BY <1>2 DEF Private
<1>7. InSync
  <2>1. \A k \in 1 .. 1 : k = 1
    OBVIOUS
  <2>2. \A i \in Peers : disks[i][1].raftstate = disks[i][1].snapshot
    BY <1>1 DEF Raft!Persister
  <2> QED BY <1>1, <2>1, <2>2 DEF InSync
<1>8. CallsInv
  BY DEF CallsInv
<1> QED BY <1>3, <1>4, <1>5, <1>6, <1>7, <1>8 DEF DiskInv

\* The place of a Served call's instance and Persister.
LEMMA ServedAt ==
  ASSUME Raft!HarnessAssumption, TypeInv, Given, NEW c \in Calls, Served(c)
  PROVE  /\ srv[c] = <<srv[c][1], srv[c][2]>> /\ srv[c][1] \in Peers /\ srv[c][2] \in Raft!Gens
         /\ pers[srv[c]] \in 1 .. Len(disks[srv[c][1]])
<1> DEFINE i == srv[c][1]
           g == srv[c][2]
<1>1. srv[c] = <<i, g>> /\ i \in Peers /\ g \in Raft!Gens /\ srv[c] \in Raft!Instances /\ pers[srv[c]] # 0
  BY DEF Served, Raft!Instances
<1>2. pers[srv[c]] \in Nat /\ Len(disks[i]) \in Nat
  BY <1>1 DEF TypeInv, Raft!TypeOK
<1> HIDE DEF i, g
<1>3. pers[srv[c]] <= Len(disks[i])
  BY <1>1 DEF Given
<1>4. pers[srv[c]] \in 1 .. Len(disks[i])
  BY <1>1, <1>2, <1>3
<1> QED BY <1>1, <1>4 DEF i, g

\* Persisters that only grow keep what the calls have.
LEMMA CallsFrame ==
  ASSUME Raft!HarnessAssumption, TypeInv, Given, CallsInv, UNCHANGED <<pc, end, srv, handler>>,
         ends \subseteq ends',
         \A x \in Raft!Instances : pers[x] # 0 => pers'[x] = pers[x],
         \A j \in Peers : \A k \in 1 .. Len(disks[j]) : disks[j][k].raftstate \subseteq disks'[j][k].raftstate,
         \A j \in Peers : Raft!Disk(j).raftstate \subseteq Raft!Disk(j)'.raftstate
  PROVE  CallsInv'
<1> SUFFICES ASSUME NEW c \in Calls
             PROVE  /\ pc[c] # "idle" => end[c] \in ends'
                    /\ pc[c] \in {"deliver", "await", "recheck", "replying", "true"} => Served(c)'
                    /\ handler[c] # "none" => Served(c)'
                    /\ handler[c] \in {"ready", "taken"} => c \in disks'[srv[c][1]][pers'[srv[c]]].raftstate
                    /\ pc[c] \in {"replying", "true"} => c \in Raft!Disk(srv[c][1])'.raftstate
  BY DEF CallsInv
<1>1. Served(c) => Served(c)' /\ pers'[srv[c]] = pers[srv[c]]
  BY DEF Served
<1>2. CASE ~Served(c)
  BY <1>2 DEF CallsInv
<1>3. CASE Served(c)
  <2>1. srv[c][1] \in Peers /\ pers[srv[c]] \in 1 .. Len(disks[srv[c][1]])
    BY <1>3, ServedAt
  <2>2. pc[c] \in {"replying", "true"} => c \in Raft!Disk(srv[c][1]).raftstate
    BY DEF CallsInv
  <2>3. handler[c] \in {"ready", "taken"} => c \in disks[srv[c][1]][pers[srv[c]]].raftstate
    BY DEF CallsInv
  <2>4. pc[c] # "idle" => end[c] \in ends'
    BY DEF CallsInv
  <2> QED BY <1>1, <1>3, <2>1, <2>2, <2>3, <2>4
<1> QED BY <1>2, <1>3

\* What processReq looks up under a name is the last instance, which saves into
\* cfg.saved; so a reply that passes the second question whether the server is
\* dead has its update there.
LEMMA RpcCalls ==
  ASSUME Raft!HarnessAssumption, TypeInv, DiskInv, NEW c \in Calls,
         (\E e \in Raft!AllEnds : Raft!MakeCall(c, e)) \/ Raft!Network(c)
  PROVE  CallsInv'
<1>0. UNCHANGED <<ends, connections, servers, gen, pers, disks, saved>>
  BY RpcStep DEF Raft!harnessVars
<1>1. /\ pc = [d \in Calls |-> pc[d]] /\ end = [d \in Calls |-> end[d]]
      /\ srv = [d \in Calls |-> srv[d]] /\ handler = [d \in Calls |-> handler[d]]
  BY DEF TypeInv, Raft!TypeOK, Raft!RpcTypeOK
<1>2. ASSUME NEW d \in Calls, d # c
      PROVE  UNCHANGED <<pc[d], end[d], srv[d], handler[d]>>
  BY <1>1, <1>2 DEF Raft!MakeCall, Raft!Call, Raft!Network, Raft!Send, Raft!Refuse, Raft!ProcessReq, Raft!ReadEndnameInfo, Raft!DropRequest,
         Raft!Dispatch, Raft!AwaitReply, Raft!AwaitPoll, Raft!Recheck, Raft!Reply, Raft!Goto
<1> DEFINE One(d) ==
      /\ pc[d] # "idle" => end[d] \in ends
      /\ pc[d] \in {"deliver", "await", "recheck", "replying", "true"} => Served(d)
      /\ pc[d] \in {"idle", "send", "process", "deliver"} => handler[d] = "none"
      /\ handler[d] # "none" => Served(d)
      /\ handler[d] \in {"ready", "taken"} => d \in disks[srv[d][1]][pers[srv[d]]].raftstate
      /\ pc[d] = "recheck" => handler[d] = "taken"
      /\ pc[d] \in {"replying", "true"} => d \in Raft!Disk(srv[d][1]).raftstate
<1>3. \A d \in Calls : One(d)
  BY DEF DiskInv, CallsInv
<1>4. ASSUME NEW d \in Calls, d # c PROVE One(d)'
  BY <1>0, <1>2, <1>3, <1>4 DEF Served, Raft!Disk
<1>5. ASSUME pc[c] # "idle"
      PROVE  /\ connections[end[c]] \in Peers /\ Raft!ServerOf(end[c]) = servers[connections[end[c]]]
             /\ \A n \in Peers : servers[n] # Nil =>
                  servers[n] = <<n, gen[n]>> /\ servers[n] \in Raft!Instances /\ pers[servers[n]] = saved[n]
                  /\ saved[n] # 0
  <2>1. end[c] \in Raft!AllEnds /\ connections[end[c]] = end[c][3]
    BY <1>3, <1>5 DEF DiskInv, Wired
  <2>2. end[c][3] \in Peers
    BY <2>1 DEF Raft!AllEnds
  <2>3. ASSUME NEW n \in Peers PROVE saved[n] # 0
    <3>1. saved[n] \in 1 .. Len(disks[n])
      BY DEF DiskInv, Given
    <3> QED BY <3>1
  <2>4. Raft!ServerOf(end[c]) = servers[connections[end[c]]]
    BY <2>1, <2>2 DEF Raft!HarnessAssumption, Raft!ServerOf
  <2>5. ASSUME NEW n \in Peers, servers[n] # Nil
        PROVE  servers[n] = <<n, gen[n]>> /\ servers[n] \in Raft!Instances /\ pers[servers[n]] = saved[n]
    <3>1. servers[n] = <<n, gen[n]>> /\ pers[<<n, gen[n]>>] = saved[n]
      BY <2>5 DEF DiskInv, Registered
    <3>2. servers[n] \in Raft!Instances
      BY <2>5 DEF TypeInv, Raft!TypeOK, Raft!RpcTypeOK
    <3> QED BY <3>1, <3>2
  <2> QED BY <2>1, <2>2, <2>3, <2>4, <2>5
<1>6. One(c)'
  <2>1. CASE \E e \in Raft!AllEnds : Raft!MakeCall(c, e)
    BY <1>0, <1>1, <1>3, <2>1 DEF Raft!MakeCall, Raft!Call, Raft!Goto, Served, Raft!Disk
  <2>2. CASE Raft!Send(c) \/ Raft!Refuse(c) \/ Raft!DropRequest(c) \/ Raft!AwaitPoll(c)
    BY <1>0, <1>1, <1>3, <2>2 DEF Raft!Send, Raft!Refuse, Raft!DropRequest, Raft!AwaitPoll, Raft!Goto, Served, Raft!Disk
  <2>3. CASE Raft!ReadEndnameInfo(c)
    <3>1. pc[c] = "process" /\ handler[c] = "none" /\ handler' = handler /\ end' = end
      BY <1>3, <2>3 DEF Raft!ReadEndnameInfo
    <3>2. pc'[c] = "deliver" => srv'[c] = Raft!ServerOf(end[c]) /\ Raft!ServerOf(end[c]) # Nil
      BY <1>1, <2>3 DEF Raft!ReadEndnameInfo, Raft!Goto
    <3>3. pc'[c] \in {"deliver", "failing"}
      BY <1>1, <2>3 DEF Raft!ReadEndnameInfo, Raft!Goto
    <3>4. pc'[c] = "deliver" => Served(c)'
      BY <1>0, <1>5, <3>1, <3>2 DEF Served
    <3> QED BY <1>0, <1>3, <3>1, <3>3, <3>4
  <2>4. CASE Raft!Dispatch(c)
    BY <1>0, <1>1, <1>3, <2>4 DEF Raft!Dispatch, Raft!Goto, Served, Raft!Disk
  <2>5. CASE Raft!AwaitReply(c)
    BY <1>0, <1>1, <1>3, <2>5 DEF Raft!AwaitReply, Raft!Goto, Served, Raft!Disk
  <2>6. CASE Raft!Recheck(c)
    <3>1. /\ pc[c] = "recheck" /\ UNCHANGED <<end, srv, handler>>
          /\ pc'[c] \in {"failing", "replying"} /\ (pc'[c] = "replying" => ~Raft!IsServerDead(c))
      BY <1>1, <2>6 DEF Raft!Recheck, Raft!Goto
    <3>2. Served(c) /\ Served(c)' /\ c \in disks[srv[c][1]][pers[srv[c]]].raftstate
          /\ handler[c] = "taken" /\ end[c] \in ends
      BY <1>0, <1>3, <3>1 DEF Served
    <3>3. ASSUME pc'[c] = "replying" PROVE c \in Raft!Disk(srv[c][1]).raftstate
      <4>1. servers[connections[end[c]]] = srv[c] /\ srv[c] # Nil
        BY <3>1, <3>2, <3>3 DEF Raft!IsServerDead, Served
      <4>2. srv[c][1] = connections[end[c]] /\ pers[srv[c]] = saved[srv[c][1]]
        BY <1>5, <3>1, <4>1
      <4> QED BY <3>2, <4>2 DEF Raft!Disk
    <3> QED BY <1>0, <3>1, <3>2, <3>3 DEF Raft!Disk
  <2>7. CASE Raft!Reply(c)
    BY <1>0, <1>1, <1>3, <2>7 DEF Raft!Reply, Raft!Goto, Served, Raft!Disk
  <2> QED BY <2>1, <2>2, <2>3, <2>4, <2>5, <2>6, <2>7 DEF Raft!Network, Raft!ProcessReq
<1> HIDE DEF One
<1>7. \A d \in Calls : One(d)'
  BY <1>4, <1>6
<1> QED BY <1>7 DEF CallsInv, One

\* Steps that change neither Persisters nor servers.
LEMMA DiskFrame ==
  ASSUME Raft!HarnessAssumption, TypeInv, DiskInv,
         UNCHANGED <<ends, connections, servers, pc, end, srv, handler, gen, disks, saved, pers>>,
         \A i \in Peers : Replacing(i)' => Replacing(i),
         tester'.op \in {"persist", "serve"} => tester' = tester,
         Private'
  PROVE  DiskInv'
<1>1. Wired' /\ Given' /\ InSync'
  BY DEF DiskInv, Wired, Given, InSync
<1>2. Registered'
  BY DEF DiskInv, Registered
<1>3. CallsInv'
  BY DEF DiskInv, CallsInv, Served, Raft!Disk
<1> QED BY <1>1, <1>2, <1>3 DEF DiskInv

LEMMA DiskTester ==
  ASSUME Raft!HarnessAssumption, TypeInv, DiskInv,
         \/ \E i \in Peers : Raft!Disconnect(i) \/ Raft!ConnectServer(i) \/ Raft!CrashDisconnect(i)
         \/ Raft!NextEnable \/ Raft!CrashKill \/ Raft!CrashReadState \/ Raft!CrashReturn \/ Raft!SetReliable \/ Raft!CleanupAll
         \/ Raft!NetExit /\ UNCHANGED <<Raft!harnessVars, tester, late>>
         \/ UNCHANGED Raft!vars
  PROVE  DiskInv'
<1>1. UNCHANGED <<ends, connections, servers, pc, end, srv, handler, gen, disks, saved, pers>>
  BY DEF Raft!Disconnect, Raft!ConnectServer, Raft!CrashDisconnect, Raft!NextEnable, Raft!Enable, Raft!CrashKill, Raft!CrashReadState,
         Raft!CrashReturn, Raft!SetReliable, Raft!Reliable, Raft!CleanupAll, Raft!Cleanup, Raft!NetExit, Raft!vars, Raft!network, Raft!inFlight,
         Raft!harnessVars, Raft!callVars
<1>2. \/ tester' = tester
      \/ tester'.op \in {"idle", "disable", "enable", "crash", "delete"}
      \/ Raft!CrashKill /\ tester'.op = "readState"
      \/ Raft!CrashReadState /\ tester'.op = "readSnapshot" /\ tester'.raftlog = Raft!Disk(tester.i).raftstate
  <2>0. tester \in [op : RaftOps, i : Peers \cup {Nil}, todo : SUBSET Raft!AllEnds, raftlog : SUBSET Calls]
    BY DEF TypeInv, TesterType
  <2>1. CASE \E i \in Peers : Raft!Disconnect(i) \/ Raft!ConnectServer(i) \/ Raft!CrashDisconnect(i)
    <3>1. \E op \in {"disable", "enable", "crash"} : \E i, todo :
            tester' = [Raft!Idle EXCEPT !.op = op, !.i = i, !.todo = todo]
      BY <2>1 DEF Raft!Disconnect, Raft!ConnectServer, Raft!CrashDisconnect
    <3> QED BY <3>1 DEF Raft!Idle
  <2>2. CASE Raft!NextEnable
    <3>1. tester.op \in {"disable", "enable", "crash"} /\
            \/ \E todo : tester' = [tester EXCEPT !.todo = todo]
            \/ tester' = [tester EXCEPT !.op = "delete"]
            \/ tester' = Raft!Idle
      BY <2>2 DEF Raft!NextEnable
    <3> QED BY <2>0, <3>1 DEF Raft!Idle
  <2>3. CASE Raft!CrashKill
    BY <2>0, <2>3 DEF Raft!CrashKill, Raft!Then
  <2>4. CASE Raft!CrashReadState
    BY <2>0, <2>4 DEF Raft!CrashReadState
  <2>5. CASE Raft!CrashReturn
    BY <2>5 DEF Raft!CrashReturn, Raft!Idle
  <2>6. CASE tester' = tester
    BY <2>6
  <2> QED BY <2>1, <2>2, <2>3, <2>4, <2>5, <2>6 DEF Raft!SetReliable, Raft!CleanupAll, Raft!vars
<1>3. Raft!CrashKill \/ Raft!CrashReadState =>
        tester.op \in {"kill", "readState"} /\ tester'.i = tester.i
  BY DEF Raft!CrashKill, Raft!CrashReadState, Raft!Then, TypeInv, TesterType
<1>4. \A i \in Peers : Replacing(i)' => Replacing(i)
  BY <1>2, <1>3 DEF Replacing
<1>5. Private'
  BY <1>1, <1>2, <1>3 DEF DiskInv, Private, Raft!Disk
<1>6. tester'.op \in {"persist", "serve"} => tester' = tester
  BY <1>2
<1> QED BY <1>1, <1>4, <1>5, <1>6, DiskFrame

LEMMA DiskRpc ==
  ASSUME Raft!HarnessAssumption, TypeInv, DiskInv, NEW c \in Calls,
         (\E e \in Raft!AllEnds : Raft!MakeCall(c, e)) \/ Raft!Network(c)
  PROVE  DiskInv'
<1>1. UNCHANGED <<ends, connections, servers, gen, pers, disks, saved, tester>>
  BY RpcStep DEF Raft!harnessVars
<1> QED BY <1>1, RpcCalls DEF DiskInv, Wired, Given, Registered, Replacing, Private, InSync, Raft!Disk

LEMMA DiskHandle ==
  ASSUME Raft!HarnessAssumption, TypeInv, DiskInv, NEW c \in Calls, Raft!Handle(c)
  PROVE  DiskInv'
<1> DEFINE i == srv[c][1]
           p == pers[srv[c]]
<1>0. Served(c) /\ Given
  BY DEF DiskInv, CallsInv, Raft!Handle, Raft!HandlerReturn
<1>1. /\ i \in Peers /\ p \in 1 .. Len(disks[i])
      /\ \A j \in Peers : Len(disks'[j]) = Len(disks[j])
      /\ \A j \in Peers : j # i => disks'[j] = disks[j]
      /\ \A k \in 1 .. Len(disks[i]) : k # p => disks'[i][k] = disks[i][k]
      /\ disks'[i][p] = Raft!Persister(disks[i][p].raftstate \cup {c}, disks[i][p].snapshot \cup {c})
  BY <1>0, HandleStep
<1>2. /\ UNCHANGED <<ends, connections, servers, gen, rafts, saved, pers, tester, pc, end, srv>>
      /\ handler[c] = "run" /\ handler'[c] = "ready"
      /\ \A d \in Calls : d # c => handler'[d] = handler[d]
  BY DEF Raft!Handle, Raft!HandlerReturn, Raft!netVars, TypeInv, Raft!TypeOK, Raft!RpcTypeOK
<1>3. srv[c] = <<i, srv[c][2]>> /\ srv[c][2] \in Raft!Gens
  BY <1>0, ServedAt
<1> HIDE DEF i, p
<1>4. /\ \A j \in Peers : \A k \in 1 .. Len(disks[j]) :
           /\ disks[j][k].raftstate \subseteq disks'[j][k].raftstate
           /\ disks[j][k].raftstate = disks[j][k].snapshot => disks'[j][k].raftstate = disks'[j][k].snapshot
      /\ c \in disks'[i][p].raftstate
  <2>1. disks'[i][p].raftstate = disks[i][p].raftstate \cup {c}
        /\ disks'[i][p].snapshot = disks[i][p].snapshot \cup {c}
    BY <1>1 DEF Raft!Persister
  <2>2. ASSUME NEW j \in Peers, NEW k \in 1 .. Len(disks[j])
        PROVE  disks'[j][k] = disks[j][k] \/ (j = i /\ k = p)
    BY <1>1
  <2>3. ASSUME NEW j \in Peers, NEW k \in 1 .. Len(disks[j])
        PROVE  /\ disks[j][k].raftstate \subseteq disks'[j][k].raftstate
               /\ disks[j][k].raftstate = disks[j][k].snapshot => disks'[j][k].raftstate = disks'[j][k].snapshot
    <3>1. CASE disks'[j][k] = disks[j][k]
      BY <3>1
    <3>2. CASE j = i /\ k = p
      BY <2>1, <3>2
    <3> QED BY <2>2, <3>1, <3>2
  <2> QED BY <2>1, <2>3
<1>5. Wired' /\ Given'
  BY <1>1, <1>2 DEF DiskInv, Wired, Given
<1>6. Registered'
  BY <1>2 DEF DiskInv, Registered, Replacing
<1>7. Private'
  <2>1. \A g \in Raft!Gens : tester.op \in {"kill", "readState", "readSnapshot"} =>
          pers[<<tester.i, g>>] # saved[tester.i]
    BY DEF DiskInv, Private
  <2>2. tester.op = "readSnapshot" => tester.i \in Peers
    BY DEF TypeInv, TesterType
  <2>3. tester.op = "readSnapshot" /\ tester.i = i => saved[i] # p
    BY <1>3, <2>1 DEF p
  <2>4. tester.op = "readSnapshot" => disks'[tester.i][saved[tester.i]] = disks[tester.i][saved[tester.i]]
    <3>1. \A j \in Peers : saved[j] \in 1 .. Len(disks[j])
      BY <1>0 DEF Given
    <3> QED BY <1>1, <2>2, <2>3, <3>1
  <2> QED BY <1>2, <2>1, <2>4 DEF DiskInv, Private, Raft!Disk
<1>8. InSync'
  BY <1>1, <1>4 DEF DiskInv, InSync
<1>9. CallsInv'
  <2>1. \A j \in Peers : Raft!Disk(j).raftstate \subseteq disks'[j][saved'[j]].raftstate
    BY <1>0, <1>2, <1>4 DEF Given, Raft!Disk
  <2>2. ASSUME NEW d \in Calls, Served(d)
        PROVE  disks[srv[d][1]][pers[srv[d]]].raftstate \subseteq disks'[srv[d][1]][pers[srv[d]]].raftstate
    BY <1>0, <1>4, <2>2, ServedAt
  <2>3. ASSUME NEW d \in Calls, Served(d)
        PROVE  Raft!Disk(srv[d][1]).raftstate \subseteq disks'[srv[d][1]][saved'[srv[d][1]]].raftstate
    BY <1>0, <2>1, <2>3, ServedAt
  <2>4. c \in disks'[srv[c][1]][pers[srv[c]]].raftstate
    BY <1>4 DEF i, p
  <2>5. ASSUME NEW d \in Calls
        PROVE  /\ pc[d] # "idle" => end[d] \in ends
               /\ pc[d] \in {"deliver", "await", "recheck", "replying", "true"} => Served(d)
               /\ pc[d] \in {"idle", "send", "process", "deliver"} => handler'[d] = "none"
               /\ handler'[d] # "none" => Served(d)
               /\ handler'[d] \in {"ready", "taken"} =>
                    d \in disks'[srv[d][1]][pers[srv[d]]].raftstate
               /\ pc[d] = "recheck" => handler'[d] = "taken"
               /\ pc[d] \in {"replying", "true"} =>
                    d \in disks'[srv[d][1]][saved'[srv[d][1]]].raftstate
    <3>1. CASE d = c
      BY <1>0, <1>2, <2>3, <2>4, <3>1 DEF DiskInv, CallsInv
    <3>2. CASE d # c
      BY <1>2, <2>2, <2>3, <3>2 DEF DiskInv, CallsInv
    <3> QED BY <3>1, <3>2
  <2>6. \A d \in Calls : Served(d)' <=> Served(d)
    BY <1>2 DEF Served
  <2> QED BY <1>2, <2>5, <2>6 DEF CallsInv, Raft!Disk
<1> QED BY <1>5, <1>6, <1>7, <1>8, <1>9 DEF DiskInv

LEMMA DiskInSync ==
  ASSUME TypeInv, Given, InSync, NEW i \in Peers
  PROVE  Raft!Disk(i).raftstate = Raft!Disk(i).snapshot
<1>1. saved[i] \in 1 .. Len(disks[i]) /\ saved[i] \in Nat
  BY DEF Given, TypeInv, Raft!TypeOK
<1> QED BY <1>1 DEF InSync, Raft!Disk

\* A new Persister with at least what cfg.saved had.
LEMMA NewDiskKeeps ==
  ASSUME TypeInv, Given, InSync, NEW i \in Peers, NEW p \in Update, Raft!NewDisk(i, p),
         p.raftstate = p.snapshot, Raft!Disk(i).raftstate \subseteq p.raftstate
  PROVE  /\ InSync'
         /\ \A j \in Peers : saved'[j] \in 1 .. Len(disks'[j]) /\ Len(disks[j]) \in Nat
                             /\ Len(disks'[j]) \in Nat /\ Len(disks[j]) <= Len(disks'[j])
         /\ \A j \in Peers : \A k \in 1 .. Len(disks[j]) :
              disks[j][k].raftstate \subseteq disks'[j][k].raftstate
         /\ \A j \in Peers : Raft!Disk(j).raftstate \subseteq Raft!Disk(j)'.raftstate
         /\ \A j \in Peers : j # i => saved'[j] = saved[j]
         /\ saved'[i] = Len(disks[i]) + 1
<1>1. /\ disks' \in [Peers -> Seq(Update)] /\ saved' \in [Peers -> Nat]
      /\ \A j \in Peers : j # i => disks'[j] = disks[j] /\ saved'[j] = saved[j]
      /\ Len(disks'[i]) = Len(disks[i]) + 1 /\ saved'[i] = Len(disks[i]) + 1
      /\ \A k \in 1 .. Len(disks[i]) : disks'[i][k] = disks[i][k]
      /\ disks'[i][saved'[i]] = p
  BY NewDiskStep
<1>2. \A j \in Peers : Len(disks[j]) \in Nat /\ Len(disks'[j]) \in Nat
  BY <1>1 DEF TypeInv, Raft!TypeOK
<1>3. \A j \in Peers : saved[j] \in 1 .. Len(disks[j])
  BY DEF Given
<1>4. \A j \in Peers : saved'[j] \in 1 .. Len(disks'[j]) /\ Len(disks[j]) <= Len(disks'[j])
  BY <1>1, <1>2, <1>3
<1>5. InSync'
  <2> SUFFICES ASSUME NEW j \in Peers, NEW k \in Nat, k \in 1 .. Len(disks'[j])
               PROVE  disks'[j][k].raftstate = disks'[j][k].snapshot
    BY DEF InSync
  <2>1. CASE j # i
    BY <1>1, <2>1 DEF InSync
  <2>2. CASE j = i /\ k = saved'[i]
    BY <1>1, <2>2
  <2>3. CASE j = i /\ k # saved'[i]
    <3>1. k \in 1 .. Len(disks[i])
      BY <1>1, <1>2, <2>3
    <3> QED BY <1>1, <2>3, <3>1 DEF InSync
  <2> QED BY <2>1, <2>2, <2>3
<1>6. \A j \in Peers : \A k \in 1 .. Len(disks[j]) : disks'[j][k] = disks[j][k]
  BY <1>1
<1>7. ASSUME NEW j \in Peers PROVE Raft!Disk(j).raftstate \subseteq Raft!Disk(j)'.raftstate
  BY <1>1 DEF Raft!Disk
<1> QED BY <1>1, <1>2, <1>4, <1>5, <1>6, <1>7

LEMMA DiskDelete == ASSUME Raft!HarnessAssumption, TypeInv, DiskInv, Raft!CrashDelete PROVE DiskInv'
<1>1. /\ UNCHANGED <<ends, connections, gen, pers, disks, saved, pc, end, srv, handler>>
      /\ tester.op = "delete" /\ tester'.op = "copy" /\ tester'.i = tester.i /\ tester.i \in Peers
      /\ servers'[tester.i] = Nil /\ \A j \in Peers : j # tester.i => servers'[j] = servers[j]
  BY DEF Raft!CrashDelete, Raft!DeleteServer, Raft!Then, Raft!callVars, Raft!harnessVars, TypeInv, Raft!TypeOK, Raft!RpcTypeOK, TesterType
<1>2. Wired' /\ Given' /\ InSync' /\ Private'
  BY <1>1 DEF DiskInv, Wired, Given, InSync, Private
<1>3. Registered'
  BY <1>1 DEF DiskInv, Registered, Replacing
<1>4. CallsInv'
  BY <1>1 DEF DiskInv, CallsInv, Served, Raft!Disk
<1> QED BY <1>2, <1>3, <1>4 DEF DiskInv

LEMMA DiskCopy == ASSUME Raft!HarnessAssumption, TypeInv, DiskInv, Raft!CrashCopy PROVE DiskInv'
<1>0. PICK i \in Peers : i = tester.i
  BY DEF Raft!CrashCopy, TypeInv, TesterType
<1>1. /\ UNCHANGED <<ends, connections, servers, gen, pers, pc, end, srv, handler>>
      /\ tester.op = "copy" /\ tester'.op = "kill" /\ tester'.i = i
      /\ Raft!NewDisk(i, Raft!Disk(i))
  BY <1>0 DEF Raft!CrashCopy, Raft!Then, Raft!network, Raft!inFlight, TypeInv, TesterType
<1>2. Raft!Disk(i) \in Update /\ Given /\ InSync
  BY DiskType DEF DiskInv
<1>3. Raft!Disk(i).raftstate = Raft!Disk(i).snapshot
  BY <1>2, DiskInSync
<1>4. /\ InSync'
      /\ \A j \in Peers : saved'[j] \in 1 .. Len(disks'[j]) /\ Len(disks[j]) \in Nat
                          /\ Len(disks'[j]) \in Nat /\ Len(disks[j]) <= Len(disks'[j])
      /\ \A j \in Peers : \A k \in 1 .. Len(disks[j]) :
           disks[j][k].raftstate \subseteq disks'[j][k].raftstate
      /\ \A j \in Peers : Raft!Disk(j).raftstate \subseteq Raft!Disk(j)'.raftstate
      /\ \A j \in Peers : j # i => saved'[j] = saved[j]
      /\ saved'[i] = Len(disks[i]) + 1
  BY <1>1, <1>2, <1>3, NewDiskKeeps
<1>5. CallsInv'
  BY <1>1, <1>4, CallsFrame DEF DiskInv
<1>6. \A j \in Peers, g \in Raft!Gens : pers[<<j, g>>] \in Nat /\ pers[<<j, g>>] <= Len(disks[j])
  BY DEF DiskInv, Given, TypeInv, Raft!TypeOK, Raft!Instances
<1>7. Wired' /\ Given'
  BY <1>1, <1>4, <1>6 DEF DiskInv, Wired, Given
<1>8. Private'
  <2>1. \A g \in Raft!Gens : pers[<<i, g>>] # saved'[i]
    BY <1>4, <1>6
  <2> QED BY <1>1, <2>1 DEF Private
<1>9. Registered'
  <2>1. servers[i] = Nil
    BY <1>0, <1>1 DEF DiskInv, Registered, Replacing
  <2> QED BY <1>1, <1>4, <2>1 DEF DiskInv, Registered, Replacing
<1> QED BY <1>4, <1>5, <1>7, <1>8, <1>9 DEF DiskInv

\* The two reads of crash1 see one state: nobody saves into the copy.
LEMMA DiskReadSnapshot == ASSUME Raft!HarnessAssumption, TypeInv, DiskInv, Raft!CrashReadSnapshot PROVE DiskInv'
<1>0. PICK i \in Peers : i = tester.i
  BY DEF Raft!CrashReadSnapshot, TypeInv, TesterType
<1> DEFINE p == Raft!Persister(tester.raftlog, Raft!Disk(i).snapshot)
<1>1. /\ UNCHANGED <<ends, connections, servers, gen, pers, pc, end, srv, handler>>
      /\ tester.op = "readSnapshot" /\ tester'.op = "crashed" /\ tester'.i = i
      /\ Raft!NewDisk(i, p)
  BY <1>0 DEF Raft!CrashReadSnapshot, Raft!Idle, Raft!network, Raft!inFlight, TypeInv, TesterType
<1>2. Raft!Disk(i) \in Update /\ Given /\ InSync
  BY DiskType DEF DiskInv
<1>3. /\ Raft!Disk(i).raftstate = Raft!Disk(i).snapshot
      /\ tester.raftlog = Raft!Disk(i).raftstate
  BY <1>0, <1>1, <1>2, DiskInSync DEF DiskInv, Private
<1>4. p \in Update /\ p.raftstate = p.snapshot /\ Raft!Disk(i).raftstate \subseteq p.raftstate
  BY <1>2, <1>3 DEF Raft!Persister, Update
<1> HIDE DEF p
<1>5. /\ InSync'
      /\ \A j \in Peers : saved'[j] \in 1 .. Len(disks'[j]) /\ Len(disks[j]) \in Nat
                          /\ Len(disks'[j]) \in Nat /\ Len(disks[j]) <= Len(disks'[j])
      /\ \A j \in Peers : \A k \in 1 .. Len(disks[j]) :
           disks[j][k].raftstate \subseteq disks'[j][k].raftstate
      /\ \A j \in Peers : Raft!Disk(j).raftstate \subseteq Raft!Disk(j)'.raftstate
      /\ \A j \in Peers : j # i => saved'[j] = saved[j]
  BY <1>1, <1>2, <1>4, NewDiskKeeps
<1>6. CallsInv'
  BY <1>1, <1>5, CallsFrame DEF DiskInv
<1>7. \A j \in Peers, g \in Raft!Gens : pers[<<j, g>>] \in Nat /\ pers[<<j, g>>] <= Len(disks[j])
  BY DEF DiskInv, Given, TypeInv, Raft!TypeOK, Raft!Instances
<1>8. Wired' /\ Given'
  BY <1>1, <1>5, <1>7 DEF DiskInv, Wired, Given
<1>9. Registered' /\ Private'
  <2>1. servers[i] = Nil
    BY <1>0, <1>1 DEF DiskInv, Registered, Replacing
  <2> QED BY <1>1, <1>5, <2>1 DEF DiskInv, Registered, Replacing, Private
<1> QED BY <1>5, <1>6, <1>8, <1>9 DEF DiskInv

LEMMA DiskEnds == ASSUME Raft!HarnessAssumption, TypeInv, DiskInv, Raft!StartEnds PROVE DiskInv'
<1>0. PICK i \in Peers : i = tester.i
  BY DEF Raft!StartEnds, TypeInv, TesterType
<1> DEFINE g == gen[i] + 1
           new == {<<i, g, j>> : j \in Peers}
<1>1. /\ UNCHANGED <<servers, pers, disks, saved, pc, end, srv, handler>>
      /\ tester.op = "crashed" /\ tester'.op = "persist" /\ tester'.i = i
      /\ gen' = [gen EXCEPT ![i] = g] /\ g <= MaxInst
      /\ ends' = ends \cup new
      /\ connections' = [e \in Raft!AllEnds |-> IF e \in new THEN e[3] ELSE connections[e]]
  BY <1>0 DEF Raft!StartEnds, Raft!Then, Raft!inFlight, TypeInv, TesterType
<1>2. gen \in [Peers -> Raft!Gens] /\ gen[i] \in Nat /\ g \in Raft!Gens /\ g > gen[i]
  BY <1>1 DEF TypeInv, Raft!TypeOK, Raft!Gens, Raft!HarnessAssumption
<1>3. new \subseteq Raft!AllEnds
  BY <1>2 DEF Raft!AllEnds
<1>4. Wired'
  <2> SUFFICES ASSUME NEW e \in ends' PROVE e \in Raft!AllEnds /\ connections'[e] = e[3] /\ e[2] <= gen'[e[1]]
    BY DEF Wired
  <2>1. CASE e \in new
    BY <1>1, <1>2, <1>3, <2>1
  <2>2. CASE e \notin new
    <3>1. e \in Raft!AllEnds /\ connections[e] = e[3] /\ e[2] <= gen[e[1]]
      BY <1>1, <2>2 DEF DiskInv, Wired
    <3>2. e[1] \in Peers /\ e[2] \in Nat
      BY <3>1 DEF Raft!AllEnds, Raft!Gens
    <3>3. gen[e[1]] \in Nat /\ (gen'[e[1]] = gen[e[1]] \/ gen'[e[1]] = gen[e[1]] + 1)
      BY <1>1, <1>2, <3>2 DEF Raft!Gens
    <3>4. connections'[e] = e[3]
      BY <1>1, <2>2, <3>1
    <3> QED BY <3>1, <3>2, <3>3, <3>4
  <2> QED BY <2>1, <2>2
<1>5. Given'
  <2>1. \A j \in Peers, h \in Raft!Gens : pers[<<j, h>>] # 0 => h <= gen[j]
    BY DEF DiskInv, Given
  <2>2. pers[<<i, g>>] = 0
    BY <1>2, <2>1 DEF Raft!Gens
  <2>3. \A j \in Peers : gen[j] \in Nat /\ (gen'[j] = gen[j] \/ gen'[j] = gen[j] + 1)
    <3>1. \A j \in Peers : gen[j] \in Nat
      BY <1>2 DEF Raft!Gens
    <3>2. \A j \in Peers : gen'[j] = IF j = i THEN g ELSE gen[j]
      <4> HIDE DEF g
      <4> QED BY <1>1, <1>2
    <3> QED BY <3>1, <3>2
  <2>4. \A j \in Peers, h \in Raft!Gens : pers[<<j, h>>] # 0 => h <= gen'[j]
    <3>1. \A h \in Raft!Gens : h \in Nat
      BY DEF Raft!Gens
    <3> QED BY <2>1, <2>3, <3>1
  <2>5. gen'[i] = g
    BY <1>1, <1>2
  <2> QED BY <1>1, <2>2, <2>4, <2>5 DEF DiskInv, Given
<1>6. Registered'
  <2>1. servers[i] = Nil
    BY <1>0, <1>1 DEF DiskInv, Registered, Replacing
  <2>2. \A j \in Peers : j # i => gen'[j] = gen[j]
    BY <1>1, <1>2
  <2> QED BY <1>1, <2>1, <2>2 DEF DiskInv, Registered, Replacing
<1>7. Private' /\ InSync'
  BY <1>1 DEF DiskInv, Private, InSync
<1>8. CallsInv'
  BY <1>1 DEF DiskInv, CallsInv, Served, Raft!Disk
<1> QED BY <1>4, <1>5, <1>6, <1>7, <1>8 DEF DiskInv

\* Make is given a copy of cfg.saved, which no other instance has.
LEMMA DiskMake == ASSUME Raft!HarnessAssumption, TypeInv, DiskInv, Raft!StartMake PROVE DiskInv'
<1>0. PICK i \in Peers : i = tester.i
  BY DEF Raft!StartMake, TypeInv, TesterType
<1>1. /\ UNCHANGED <<ends, connections, servers, gen, pc, end, srv, handler>>
      /\ tester.op = "persist" /\ tester'.op = "serve" /\ tester'.i = i
      /\ Raft!NewDisk(i, Raft!Disk(i)) /\ pers' = [pers EXCEPT ![<<i, gen[i]>>] = saved'[i]]
  BY <1>0 DEF Raft!StartMake, Raft!Then, Raft!network, Raft!inFlight, TypeInv, TesterType
<1>2. Raft!Disk(i) \in Update /\ Given /\ InSync
  BY DiskType DEF DiskInv
<1>3. Raft!Disk(i).raftstate = Raft!Disk(i).snapshot
  BY <1>2, DiskInSync
<1>4. /\ InSync'
      /\ \A j \in Peers : saved'[j] \in 1 .. Len(disks'[j]) /\ Len(disks[j]) \in Nat
                          /\ Len(disks'[j]) \in Nat /\ Len(disks[j]) <= Len(disks'[j])
      /\ \A j \in Peers : \A k \in 1 .. Len(disks[j]) :
           disks[j][k].raftstate \subseteq disks'[j][k].raftstate
      /\ \A j \in Peers : Raft!Disk(j).raftstate \subseteq Raft!Disk(j)'.raftstate
      /\ \A j \in Peers : j # i => saved'[j] = saved[j]
  BY <1>1, <1>2, <1>3, NewDiskKeeps
<1>5. /\ pers \in [Raft!Instances -> Nat] /\ gen \in [Peers -> Raft!Gens] /\ pers[<<i, gen[i]>>] = 0
      /\ <<i, gen[i]>> \in Raft!Instances
  BY <1>0, <1>1 DEF DiskInv, Given, TypeInv, Raft!TypeOK, Raft!Instances
<1>6. \A x \in Raft!Instances : pers'[x] = IF x = <<i, gen[i]>> THEN saved'[i] ELSE pers[x]
  BY <1>1, <1>5
<1>7. CallsInv'
  <2>1. \A x \in Raft!Instances : pers[x] # 0 => pers'[x] = pers[x]
    BY <1>5, <1>6
  <2> QED BY <1>1, <1>4, <2>1, CallsFrame DEF DiskInv
<1>8. \A j \in Peers, g \in Raft!Gens : <<j, g>> \in Raft!Instances /\ pers[<<j, g>>] \in Nat
        /\ pers[<<j, g>>] <= Len(disks[j]) /\ (pers[<<j, g>>] # 0 => g <= gen[j]) /\ g \in Nat
  <2>1. \A g \in Raft!Gens : g \in Nat
    BY DEF Raft!Gens
  <2>2. \A j \in Peers, g \in Raft!Gens : <<j, g>> \in Raft!Instances
    BY DEF Raft!Instances
  <2> QED BY <1>2, <1>5, <2>1, <2>2 DEF Given
<1>9. Wired'
  BY <1>1 DEF DiskInv, Wired
<1>10. Given'
  <2> SUFFICES ASSUME NEW j \in Peers, NEW g \in Raft!Gens
               PROVE  pers'[<<j, g>>] <= Len(disks'[j]) /\ (pers'[<<j, g>>] # 0 => g <= gen[j])
    BY <1>1, <1>4 DEF Given
  <2>1. CASE <<j, g>> = <<i, gen[i]>>
    <3>1. pers'[<<j, g>>] = saved'[j] /\ g = gen[j]
      BY <1>6, <1>8, <2>1
    <3> QED BY <1>4, <1>8, <3>1
  <2>2. CASE <<j, g>> # <<i, gen[i]>>
    <3>1. pers'[<<j, g>>] = pers[<<j, g>>]
      BY <1>6, <1>8, <2>2
    <3> QED BY <1>4, <1>8, <3>1
  <2> QED BY <2>1, <2>2
<1>11. Registered' /\ Private'
  <2>1. servers[i] = Nil
    BY <1>0, <1>1 DEF DiskInv, Registered, Replacing
  <2>2. pers'[<<i, gen[i]>>] = saved'[i]
    BY <1>5, <1>6
  <2>3. \A j \in Peers : j # i => pers'[<<j, gen[j]>>] = pers[<<j, gen[j]>>]
    BY <1>5, <1>6, <1>8
  <2> QED BY <1>1, <1>4, <2>1, <2>2, <2>3 DEF DiskInv, Registered, Replacing, Private
<1> QED BY <1>4, <1>7, <1>9, <1>10, <1>11 DEF DiskInv

LEMMA DiskServe == ASSUME Raft!HarnessAssumption, TypeInv, DiskInv, Raft!StartServe PROVE DiskInv'
<1>0. PICK i \in Peers : i = tester.i
  BY DEF Raft!StartServe, TypeInv, TesterType
<1>1. /\ UNCHANGED <<ends, connections, gen, pers, disks, saved, pc, end, srv, handler>>
      /\ tester.op = "serve" /\ tester'.op = "idle"
      /\ servers'[i] = <<i, gen[i]>> /\ \A j \in Peers : j # i => servers'[j] = servers[j]
  BY <1>0 DEF Raft!StartServe, Raft!AddServer, Raft!Idle, Raft!callVars, Raft!harnessVars, TypeInv, Raft!TypeOK, Raft!RpcTypeOK
<1>2. Wired' /\ Given' /\ InSync' /\ Private'
  BY <1>1 DEF DiskInv, Wired, Given, InSync, Private
<1>3. Registered'
  BY <1>0, <1>1 DEF DiskInv, Registered, Replacing
<1>4. CallsInv'
  BY <1>1 DEF DiskInv, CallsInv, Served, Raft!Disk
<1> QED BY <1>2, <1>3, <1>4 DEF DiskInv

LEMMA DiskNext == ASSUME Raft!HarnessAssumption, TypeInv, DiskInv, [Raft!Next]_Raft!vars PROVE DiskInv'
BY DiskTester, DiskRpc, DiskHandle, DiskDelete, DiskCopy, DiskReadSnapshot, DiskEnds, DiskMake, DiskServe
DEF Raft!Next, Raft!Tester1

LEMMA DiskInvariant == ASSUME Raft!HarnessAssumption PROVE Raft!Spec => [](TypeInv /\ DiskInv)
<1>1. Raft!Init => TypeInv /\ DiskInv
  BY TypeInit, DiskInit
<1>2. TypeInv /\ DiskInv /\ [Raft!Next]_Raft!vars => TypeInv' /\ DiskInv'
  BY TypeNext, DiskNext
<1> QED BY <1>1, <1>2, PTL DEF Raft!Spec

\* Every variable of the harness and of the network under it has its type.
THEOREM HarnessTypes == ASSUME Raft!HarnessAssumption PROVE Raft!Spec => []Raft!TypeOK
<1>1. TypeInv /\ DiskInv => Raft!TypeOK
  BY DEF TypeInv
<1> QED BY <1>1, DiskInvariant, PTL

\* A call that returned true has its update in the Persister that the next instance
\* of its server will be given, for any number of servers, crashes, restarts and
\* calls: processReq asks again after the handler whether the instance is still
\* registered, and crash1 copies the Persister only after DeleteServer.
THEOREM AcknowledgedSurvives == ASSUME Raft!HarnessAssumption PROVE Raft!Spec => []Raft!AckedSurvives
<1>1. TypeInv /\ DiskInv => Raft!AckedSurvives
  BY DEF DiskInv, CallsInv, Raft!AckedSurvives
<1> QED BY <1>1, DiskInvariant, PTL

\* The Raft state and the snapshot in cfg.saved are of one save, although crash1
\* reads them one after the other: it reads a copy that no instance has.
THEOREM SavesAreWhole == ASSUME Raft!HarnessAssumption PROVE Raft!Spec => []Raft!SavedInSync
<1>1. TypeInv /\ DiskInv => Raft!SavedInSync
  BY DiskInSync DEF DiskInv, Raft!SavedInSync
<1> QED BY <1>1, DiskInvariant, PTL

-----------------------------------------------------------------------------
(* Killed instances.                                                       *)

LEMMA SilentInit == ASSUME Raft!HarnessAssumption, Raft!Init PROVE SilentInv
<1> USE DEF Raft!Init, Raft!HarnessAssumption
<1>1. tester.op = "idle" /\ tester.i = Nil
  BY DEF Raft!Idle
<1>2. Cut
  BY <1>1 DEF Cut
<1>3. Alive
  BY <1>1 DEF Alive
<1>4. LateFails
  BY DEF LateFails
<1> QED BY <1>2, <1>3, <1>4 DEF SilentInv

\* Enabling: the ends of connected servers are those of running instances.
LEMMA SilentConnect ==
  ASSUME Raft!HarnessAssumption, TypeInv, SilentInv, NEW i \in Peers,
         Raft!Disconnect(i) \/ Raft!ConnectServer(i) \/ Raft!CrashDisconnect(i)
  PROVE  SilentInv'
<1>1. UNCHANGED <<enabled, pc, end, handler, gen, rafts, crashed, late>> /\ tester = Raft!Idle
  BY DEF Raft!Disconnect, Raft!ConnectServer, Raft!CrashDisconnect, Raft!TesterFree, Raft!network, Raft!inFlight
<1>2. connected \in [Peers -> BOOLEAN] /\ gen \in [Peers -> Raft!Gens]
  BY DEF TypeInv, Raft!TypeOK
<1>3. LateFails'
  BY <1>1 DEF SilentInv, LateFails, From
<1>4. ASSUME Raft!ConnectServer(i) PROVE Cut' /\ Alive'
  <2>1. /\ rafts[i] # 0 /\ connected' = [connected EXCEPT ![i] = TRUE]
        /\ tester'.op = "enable" /\ tester'.i = i
        /\ tester'.todo = {e \in Raft!EndsOf(i) : connected'[e[1]] /\ connected'[e[3]]}
    BY <1>4 DEF Raft!ConnectServer, Raft!Idle
  <2>2. \A j \in Peers : connected'[j] => rafts[j] # 0
    BY <1>2, <2>1 DEF SilentInv, Alive
  <2>3. Alive'
    BY <1>1, <2>1, <2>2 DEF SilentInv, Alive
  <2>4. \A e \in Raft!EndsOf(i) : e[1] \in Peers /\ e[2] = gen[e[1]]
    BY DEF Raft!EndsOf
  <2>5. \A e \in tester'.todo : From(e) \notin crashed
    BY <2>1, <2>2, <2>4 DEF SilentInv, Alive, From
  <2> QED BY <1>1, <2>1, <2>3, <2>5 DEF SilentInv, Cut, From
<1>5. ASSUME Raft!Disconnect(i) \/ Raft!CrashDisconnect(i) PROVE Cut' /\ Alive'
  <2>1. /\ connected' = [connected EXCEPT ![i] = FALSE]
        /\ tester'.op \in {"disable", "crash"} /\ tester'.i = i /\ tester'.todo = Raft!EndsOf(i)
    BY <1>5 DEF Raft!Disconnect, Raft!CrashDisconnect, Raft!Idle
  <2>2. Alive'
    BY <1>1, <1>2, <2>1 DEF SilentInv, Alive
  <2>3. \A e \in enabled : From(e) = <<i, gen[i]>> => e \in Raft!EndsOf(i)
    <3>1. ASSUME NEW e \in enabled, From(e) = <<i, gen[i]>> PROVE e = <<i, gen[i], e[3]>> /\ e[3] \in Peers
      BY <3>1 DEF From, Raft!AllEnds, TypeInv, Raft!TypeOK, Raft!RpcTypeOK
    <3> QED BY <3>1 DEF Raft!EndsOf
  <2> QED BY <1>1, <2>1, <2>2, <2>3 DEF SilentInv, Cut, From
<1> QED BY <1>3, <1>4, <1>5 DEF SilentInv

LEMMA SilentEnable == ASSUME Raft!HarnessAssumption, TypeInv, SilentInv, Raft!NextEnable PROVE SilentInv'
<1>1. UNCHANGED <<pc, end, handler, gen, rafts, crashed, connected, late>>
  BY DEF Raft!NextEnable, Raft!Enable, Raft!network, Raft!inFlight, Raft!harnessVars, Raft!callVars
<1>2. LateFails'
  BY <1>1 DEF SilentInv, LateFails, From
<1>3. tester \in [op : RaftOps, i : Peers \cup {Nil}, todo : SUBSET Raft!AllEnds, raftlog : SUBSET Calls]
  BY DEF TypeInv, TesterType
<1>4. CASE tester.todo = {} /\ enabled' = enabled /\ tester' = IF tester.op = "crash" THEN [tester EXCEPT !.op = "delete"] ELSE Raft!Idle
  <2>1. \/ tester.op = "crash" /\ tester'.op = "delete" /\ tester'.i = tester.i
        \/ tester'.op = "idle"
    BY <1>3, <1>4 DEF Raft!Idle
  <2>2. Alive'
    BY <1>1, <2>1 DEF SilentInv, Alive
  <2>3. Cut'
    BY <1>1, <1>4, <2>1 DEF SilentInv, Cut, From
  <2> QED BY <1>2, <2>2, <2>3 DEF SilentInv
<1>5. ASSUME NEW e \in tester.todo, Raft!Enable(e, tester.op = "enable"), tester' = [tester EXCEPT !.todo = @ \ {e}],
             tester.op \in {"disable", "enable", "crash"}
      PROVE  SilentInv'
  <2>1. tester'.op = tester.op /\ tester'.i = tester.i /\ tester'.todo = tester.todo \ {e}
    BY <1>3, <1>5
  <2>2. enabled' = IF tester.op = "enable" THEN enabled \cup {e} ELSE enabled \ {e}
    BY <1>5 DEF Raft!Enable
  <2>3. Alive'
    BY <1>1, <2>1 DEF SilentInv, Alive
  <2>4. Cut'
    BY <1>1, <1>5, <2>1, <2>2 DEF SilentInv, Cut, From
  <2> QED BY <1>2, <2>3, <2>4 DEF SilentInv
<1> QED BY <1>4, <1>5 DEF Raft!NextEnable, Raft!network

LEMMA SilentRpc ==
  ASSUME Raft!HarnessAssumption, TypeInv, DiskInv, SilentInv, NEW c \in Calls,
         (\E e \in Raft!AllEnds : Raft!MakeCall(c, e)) \/ Raft!Network(c) \/ Raft!Handle(c)
  PROVE  SilentInv'
<1>1. UNCHANGED <<enabled, gen, rafts, crashed, connected, tester>>
  <2>1. CASE Raft!Handle(c)
    BY <2>1 DEF Raft!Handle, Raft!HandlerReturn, Raft!netVars
  <2>2. CASE ~Raft!Handle(c)
    BY <2>2, RpcStep DEF Raft!harnessVars
  <2> QED BY <2>1, <2>2
<1>2. Cut' /\ Alive'
  BY <1>1 DEF SilentInv, Cut, Alive, From
<1>3. /\ pc = [d \in Calls |-> pc[d]] /\ end = [d \in Calls |-> end[d]]
      /\ handler = [d \in Calls |-> handler[d]]
  BY DEF TypeInv, Raft!TypeOK, Raft!RpcTypeOK
<1>4. ASSUME NEW d \in Calls, d # c
      PROVE  UNCHANGED <<pc[d], end[d], handler[d]>> /\ (d \in late' => d \in late)
  BY <1>3, <1>4 DEF Raft!MakeCall, Raft!Call, Raft!Network, Raft!Handle, Raft!HandlerReturn, Raft!Send, Raft!Refuse, Raft!ProcessReq,
         Raft!ReadEndnameInfo, Raft!DropRequest, Raft!Dispatch, Raft!AwaitReply, Raft!AwaitPoll, Raft!Recheck, Raft!Reply, Raft!Goto
<1> DEFINE One(d) == /\ From(end[d]) \in crashed
                     /\ pc[d] \in {"send", "process", "failing", "false"} /\ handler[d] = "none"
<1>5. \A d \in late : d \in Calls /\ One(d) /\ end[d] \notin enabled
  BY DEF SilentInv, LateFails, Cut, TypeInv, Raft!TypeOK
<1>6. ASSUME c \in late' PROVE One(c)'
  <2>1. CASE \E e \in Raft!AllEnds : Raft!MakeCall(c, e)
    <3>1. PICK e \in Raft!AllEnds : Raft!MakeCall(c, e)
      BY <2>1
    <3>2. pc[c] = "idle" /\ pc'[c] = "send" /\ end'[c] = e /\ handler' = handler /\ crashed' = crashed
      BY <1>3, <3>1 DEF Raft!MakeCall, Raft!Call, Raft!Goto, Raft!harnessVars
    <3>3. handler[c] = "none"
      BY <3>2 DEF DiskInv, CallsInv
    <3>4. c \notin late
      BY <1>5, <3>2
    <3>5. From(e) \in crashed
      BY <1>6, <3>1, <3>4 DEF Raft!MakeCall, From
    <3> QED BY <3>2, <3>3, <3>5 DEF From
  <2>2. CASE Raft!Network(c)
    <3>1. c \in late /\ One(c) /\ end[c] \notin enabled
      BY <1>5, <1>6, <2>2 DEF Raft!Network
    <3> QED BY <1>1, <1>3, <2>2, <3>1 DEF Raft!Network, Raft!Send, Raft!Refuse, Raft!ProcessReq, Raft!ReadEndnameInfo, Raft!DropRequest,
              Raft!Dispatch, Raft!AwaitReply, Raft!AwaitPoll, Raft!Recheck, Raft!Reply, Raft!Goto, From
  <2>3. CASE Raft!Handle(c)
    BY <1>5, <1>6, <2>3 DEF Raft!Handle, Raft!HandlerReturn
  <2> QED BY <2>1, <2>2, <2>3
<1>7. late' \subseteq Calls
  BY <1>5 DEF Raft!MakeCall, Raft!Network, Raft!Handle
<1>8. ASSUME NEW d \in late' PROVE One(d)'
  <2>1. CASE d = c
    BY <1>6, <2>1
  <2>2. CASE d # c
    BY <1>1, <1>4, <1>5, <1>7, <2>2 DEF From
  <2> QED BY <2>1, <2>2
<1> HIDE DEF One
<1>9. LateFails'
  BY <1>8 DEF LateFails, One
<1> QED BY <1>2, <1>9 DEF SilentInv

LEMMA SilentKill == ASSUME Raft!HarnessAssumption, TypeInv, SilentInv, Raft!CrashKill PROVE SilentInv'
<1>0. PICK i \in Peers : i = tester.i
  BY DEF Raft!CrashKill, TypeInv, TesterType
<1>1. /\ UNCHANGED <<enabled, pc, end, handler, gen, connected, late>>
      /\ tester.op = "kill" /\ tester'.op = "readState" /\ tester'.i = i
      /\ rafts' = [rafts EXCEPT ![i] = 0]
      /\ crashed' = IF rafts[i] = 0 THEN crashed ELSE crashed \cup {<<i, rafts[i]>>}
  BY <1>0 DEF Raft!CrashKill, Raft!Then, Raft!network, Raft!inFlight, TypeInv, TesterType
<1>2. rafts \in [Peers -> 0 .. MaxInst] /\ gen \in [Peers -> Raft!Gens]
  BY DEF TypeInv, Raft!TypeOK
<1>3. rafts[i] # 0 => rafts[i] = gen[i]
  BY DEF SilentInv, Alive
<1>4. crashed \subseteq crashed' /\ \A x \in crashed' : x \in crashed \/ x = <<i, gen[i]>>
  BY <1>1, <1>3
<1>5. LateFails'
  BY <1>1, <1>4 DEF SilentInv, LateFails, From
<1>6. Cut'
  BY <1>0, <1>1, <1>4 DEF SilentInv, Cut, From
<1>7. Alive'
  <2>1. \A x \in crashed' : x[2] <= gen[x[1]]
    <3>1. gen[i] <= gen[i]
      BY <1>2 DEF Raft!Gens
    <3> QED BY <1>4, <3>1 DEF SilentInv, Alive
  <2>2. \A j \in Peers : j # i => rafts'[j] = rafts[j] /\ (<<j, gen[j]>> \in crashed' => <<j, gen[j]>> \in crashed)
    BY <1>1, <1>2, <1>4
  <2>3. rafts'[i] = 0 /\ ~connected[i]
    BY <1>0, <1>1, <1>2 DEF SilentInv, Alive
  <2> QED BY <1>1, <2>1, <2>2, <2>3 DEF SilentInv, Alive
<1> QED BY <1>5, <1>6, <1>7 DEF SilentInv

LEMMA SilentStart == ASSUME Raft!HarnessAssumption, TypeInv, SilentInv, Raft!StartEnds \/ Raft!StartMake PROVE SilentInv'
<1>0. PICK i \in Peers : i = tester.i
  BY DEF Raft!StartEnds, Raft!StartMake, TypeInv, TesterType
<1>1. UNCHANGED <<enabled, pc, end, handler, connected, crashed, late>> /\ tester'.i = i
      /\ tester'.op \in {"persist", "serve"}
  BY <1>0 DEF Raft!StartEnds, Raft!StartMake, Raft!Then, Raft!network, Raft!inFlight, TypeInv, TesterType
<1>2. rafts \in [Peers -> 0 .. MaxInst] /\ gen \in [Peers -> Raft!Gens] /\ crashed \subseteq Raft!Instances
  BY DEF TypeInv, Raft!TypeOK
<1>3. LateFails' /\ Cut'
  BY <1>1 DEF SilentInv, LateFails, Cut, From
<1>4. ASSUME Raft!StartEnds PROVE Alive'
  <2>1. /\ tester.op = "crashed" /\ tester'.op = "persist" /\ rafts' = rafts
        /\ gen' = [gen EXCEPT ![i] = gen[i] + 1]
    BY <1>0, <1>4 DEF Raft!StartEnds, Raft!Then, TypeInv, TesterType
  <2>2. rafts[i] = 0 /\ ~connected[i]
    BY <1>0, <2>1 DEF SilentInv, Alive
  <2>3. ASSUME NEW x \in crashed PROVE x[2] <= gen'[x[1]] /\ x # <<i, gen[i] + 1>>
    <3>1. x[1] \in Peers /\ x[2] \in Nat /\ gen[x[1]] \in Nat /\ gen[i] \in Nat
      BY <1>2 DEF Raft!Instances, Raft!Gens
    <3>2. x[2] <= gen[x[1]]
      BY DEF SilentInv, Alive
    <3>3. gen'[x[1]] = gen[x[1]] \/ gen'[x[1]] = gen[x[1]] + 1
      BY <1>2, <2>1, <3>1
    <3>4. x = <<i, gen[i] + 1>> => x[1] = i /\ x[2] = gen[i] + 1
      OBVIOUS
    <3> QED BY <3>1, <3>2, <3>3, <3>4
  <2>4. gen'[i] = gen[i] + 1 /\ \A j \in Peers : j # i => gen'[j] = gen[j]
    BY <1>2, <2>1
  <2> QED BY <1>1, <2>1, <2>2, <2>3, <2>4 DEF SilentInv, Alive
<1>5. ASSUME Raft!StartMake PROVE Alive'
  <2>1. tester.op = "persist" /\ tester'.op = "serve" /\ rafts' = [rafts EXCEPT ![i] = gen[i]] /\ gen' = gen
    BY <1>0, <1>5 DEF Raft!StartMake, Raft!Then, TypeInv, TesterType
  <2>2. <<i, gen[i]>> \notin crashed /\ ~connected[i]
    BY <1>0, <2>1 DEF SilentInv, Alive
  <2>3. rafts'[i] = gen[i] /\ \A j \in Peers : j # i => rafts'[j] = rafts[j]
    BY <1>2, <2>1
  <2> QED BY <1>1, <2>1, <2>2, <2>3 DEF SilentInv, Alive
<1> QED BY <1>3, <1>4, <1>5 DEF SilentInv

LEMMA SilentOther ==
  ASSUME Raft!HarnessAssumption, TypeInv, SilentInv,
         \/ Raft!CrashDelete \/ Raft!CrashCopy \/ Raft!CrashReadState \/ Raft!CrashReadSnapshot \/ Raft!CrashReturn \/ Raft!StartServe
         \/ Raft!SetReliable \/ Raft!CleanupAll
         \/ Raft!NetExit /\ UNCHANGED <<Raft!harnessVars, tester, late>>
         \/ UNCHANGED Raft!vars
  PROVE  SilentInv'
<1>1. UNCHANGED <<enabled, pc, end, handler, gen, rafts, crashed, connected, late>>
  BY DEF Raft!CrashDelete, Raft!DeleteServer, Raft!CrashCopy, Raft!CrashReadState, Raft!CrashReadSnapshot, Raft!CrashReturn, Raft!StartServe,
         Raft!AddServer, Raft!SetReliable, Raft!Reliable, Raft!CleanupAll, Raft!Cleanup, Raft!NetExit, Raft!vars, Raft!network, Raft!inFlight,
         Raft!harnessVars, Raft!callVars
<1>2. tester \in [op : RaftOps, i : Peers \cup {Nil}, todo : SUBSET Raft!AllEnds, raftlog : SUBSET Calls]
  BY DEF TypeInv, TesterType
<1>3. \/ tester' = tester
      \/ tester'.op = "idle"
      \/ /\ tester'.i = tester.i
         /\ \/ tester.op = "delete" /\ tester'.op = "copy"
            \/ tester.op = "copy" /\ tester'.op = "kill"
            \/ tester.op = "readState" /\ tester'.op = "readSnapshot"
            \/ tester.op = "readSnapshot" /\ tester'.op = "crashed"
  <2>1. CASE Raft!CrashDelete \/ Raft!CrashCopy
    BY <1>2, <2>1 DEF Raft!CrashDelete, Raft!CrashCopy, Raft!Then
  <2>2. CASE Raft!CrashReadState
    BY <1>2, <2>2 DEF Raft!CrashReadState
  <2>3. CASE Raft!CrashReadSnapshot
    BY <2>3 DEF Raft!CrashReadSnapshot, Raft!Idle
  <2>4. CASE Raft!CrashReturn \/ Raft!StartServe
    BY <2>4 DEF Raft!CrashReturn, Raft!StartServe, Raft!Idle
  <2>5. CASE tester' = tester
    BY <2>5
  <2> QED BY <2>1, <2>2, <2>3, <2>4, <2>5 DEF Raft!SetReliable, Raft!CleanupAll, Raft!vars
<1>4. LateFails'
  BY <1>1 DEF SilentInv, LateFails, From
<1>5. Cut'
  BY <1>1, <1>3 DEF SilentInv, Cut, From
<1>6. Alive'
  BY <1>1, <1>3 DEF SilentInv, Alive
<1> QED BY <1>4, <1>5, <1>6 DEF SilentInv

LEMMA SilentNext ==
  ASSUME Raft!HarnessAssumption, TypeInv, DiskInv, SilentInv, [Raft!Next]_Raft!vars PROVE SilentInv'
BY SilentConnect, SilentEnable, SilentRpc, SilentKill, SilentStart, SilentOther DEF Raft!Next, Raft!Tester1

\* A call made by an instance that crash1 has killed reaches no handler and returns
\* false, whatever is connected and restarted afterwards: its ends are disabled
\* before Kill and connect only enables those of running instances.
THEOREM KilledIsSilent == ASSUME Raft!HarnessAssumption PROVE Raft!Spec => []Raft!CrashedIsSilent
<1>1. Raft!Init => SilentInv
  BY SilentInit
<1>2. TypeInv /\ DiskInv /\ SilentInv /\ [Raft!Next]_Raft!vars => SilentInv'
  BY SilentNext
<1>3. SilentInv => Raft!CrashedIsSilent
  BY DEF SilentInv, LateFails, Raft!CrashedIsSilent
<1> QED BY <1>1, <1>2, <1>3, DiskInvariant, PTL DEF Raft!Spec

-----------------------------------------------------------------------------
(* ShardHarness.                                                           *)

ShOps == {"idle", "delete", "copy", "kill", "serve"}

ShTypes ==
  /\ Shard!RpcTypeOK
  /\ gen \in [Shard!Shards -> Shard!Gens] /\ running \in [Shard!Shards -> 0 .. MaxShard] /\ killed \subseteq Shard!Shards \X Shard!Gens
  /\ disks \in [Shard!Names -> Seq(SUBSET Calls)] /\ saved \in [Shard!Names -> Nat] /\ pers \in [Shard!Instances -> Nat]
  /\ clerks \subseteq Clients /\ joined \subseteq Gids /\ late \subseteq Calls
  /\ tester \in [op : ShOps, s : Shard!Shards \cup {Nil}] /\ (tester.op # "idle" => tester.s \in Shard!Shards)

\* The end-points that exist go where their name says.
ShWired == \A e \in ends : e \in Shard!AllEnds /\ connections[e] = e[3]

\* An instance has a Persister not newer than gg.saved, newer than that of any instance before
\* it, and one not started yet has none.
ShGiven ==
  /\ \A n \in Shard!Names : saved[n] \in 1 .. Len(disks[n]) /\ \A g \in Shard!Gens : pers[<<n, g>>] <= saved[n]
  /\ \A s \in Shard!Shards : \A g \in Shard!Gens : g > gen[s] => pers[<<s, g>>] = 0
  /\ \A n \in Shard!Names : \A g, h \in Shard!Gens : g < h /\ pers[<<n, h>>] # 0 => pers[<<n, g>>] < pers[<<n, h>>]

\* The server that the tester is shutting down.
ShDown(s) == tester.op \in {"delete", "copy", "kill"} /\ tester.s = s

\* The instance that is registered is the last one, and saves into gg.saved; a controller is
\* never restarted.
ShRegistered ==
  /\ \A s \in Shard!Shards :
       /\ running[s] \in {0, gen[s]}
       /\ running[s] = 0 => servers[s] = Nil
       /\ servers[s] # Nil => servers[s] = <<s, gen[s]>> /\ pers[<<s, gen[s]>>] = saved[s]
       /\ running[s] # 0 /\ ~ShDown(s) /\ ~(tester.op = "serve" /\ tester.s = s) =>
            servers[s] = <<s, gen[s]>>
  /\ \A n \in Shard!Names \ Shard!Shards : servers[n] = <<n, 1>> /\ pers[<<n, 1>>] = saved[n]
  /\ tester.op \in {"copy", "kill", "serve"} => servers[tester.s] = Nil
  /\ tester.op = "serve" => running[tester.s] # 0 /\ pers[<<tester.s, gen[tester.s]>>] = saved[tester.s]

ShServed(c) == srv[c] \in Shard!Instances /\ srv[c] # Nil /\ pers[srv[c]] # 0

\* The update of a handler that has returned is in the Persister of its instance, and in that
\* of the next one once the reply was let through.
ShCall(c) ==
  /\ pc[c] # "idle" => end[c] \in ends
  /\ pc[c] \in {"deliver", "await", "recheck", "replying", "true"} => ShServed(c)
  /\ pc[c] \in {"idle", "send", "process", "deliver"} => handler[c] = "none"
  /\ handler[c] # "none" => ShServed(c)
  /\ handler[c] \in {"ready", "taken"} => c \in disks[srv[c][1]][pers[srv[c]]]
  /\ pc[c] = "recheck" => handler[c] = "taken"
  /\ pc[c] \in {"replying", "true"} => c \in Shard!Disk(srv[c][1])

ShCalls == \A c \in Calls : ShCall(c)

\* Of the ends that StartServer made, only those of the current instance of a server that is not
\* being shut down are enabled, and those to the group all are.
ShSilent ==
  /\ \A e \in enabled : e[1] # "made" /\ e[2] \in Shard!Shards \X Shard!Gens =>
       e[2][2] = gen[e[2][1]] /\ running[e[2][1]] # 0 /\ ~ShDown(e[2][1])
  /\ \A s \in Shard!Shards : running[s] # 0 /\ ~ShDown(s) => Shard!PeerEnds(s, gen[s]) \subseteq enabled

\* A killed instance is not the running one.
ShKilled == \A x \in killed : x[2] <= gen[x[1]] /\ (x[2] = gen[x[1]] => running[x[1]] = 0)

\* A call that a killed instance makes through an end of StartServer never gets to a server.
ShLate ==
  \A c \in late :
    /\ pc[c] # "idle" /\ end[c][2] \in killed
    /\ end[c][1] # "made" => handler[c] = "none" /\ pc[c] \in {"send", "process", "failing", "false"}

ShInv == ShTypes /\ ShWired /\ ShGiven /\ ShRegistered /\ ShCalls /\ ShSilent /\ ShKilled /\ ShLate

\* What an end-point is made of.
LEMMA ShEnds ==
  /\ \A e \in Shard!AllEnds : e = <<e[1], e[2], e[3]>> /\ e[3] \in Shard!Names
  /\ \A s \in Shard!Shards, g \in Shard!Gens : Shard!PeerEnds(s, g) \subseteq Shard!AllEnds /\ Shard!StartEnds(s, g) \subseteq Shard!AllEnds
  /\ \A x \in (Shard!Shards \X Shard!Gens) \cup Shard!ClerkIds :
       Shard!CtrlEnds(x) \subseteq Shard!AllEnds /\ \A t \in Shard!Shards : <<"made", x, t>> \in Shard!AllEnds
<1>1. ASSUME NEW s \in Shard!Shards, NEW g \in Shard!Gens PROVE Shard!PeerEnds(s, g) \subseteq Shard!AllEnds
  BY DEF Shard!AllEnds
<1>2. ASSUME NEW x \in (Shard!Shards \X Shard!Gens) \cup Shard!ClerkIds PROVE Shard!CtrlEnds(x) \cup Shard!MadeEnds(x) \subseteq Shard!AllEnds
  <2>1. Shard!CtrlEnds(x) \cup Shard!MadeEnds(x) \in {Shard!CtrlEnds(y) \cup Shard!MadeEnds(y) : y \in (Shard!Shards \X Shard!Gens) \cup Shard!ClerkIds}
    OBVIOUS
  <2> DEFINE U == {Shard!PeerEnds(s, g) : s \in Shard!Shards, g \in Shard!Gens} \cup
                  {Shard!CtrlEnds(y) \cup Shard!MadeEnds(y) : y \in (Shard!Shards \X Shard!Gens) \cup Shard!ClerkIds}
             T == Shard!CtrlEnds(x) \cup Shard!MadeEnds(x)
  <2>2. Shard!AllEnds = UNION U /\ T \in U
    BY <2>1 DEF Shard!AllEnds
  <2> HIDE DEF U, T
  <2>3. T \subseteq Shard!AllEnds
    BY <2>2
  <2> QED BY <2>3 DEF T
<1>3. ASSUME NEW s \in Shard!Shards, NEW g \in Shard!Gens PROVE Shard!StartEnds(s, g) \subseteq Shard!AllEnds
  <2>1. <<s, g>> \in (Shard!Shards \X Shard!Gens) \cup Shard!ClerkIds
    OBVIOUS
  <2> QED BY <1>1, <1>2, <2>1 DEF Shard!StartEnds
<1>4. ASSUME NEW e \in Shard!AllEnds PROVE e = <<e[1], e[2], e[3]>> /\ e[3] \in Shard!Names
  <2>1. \/ \E s \in Shard!Shards, g \in Shard!Gens : e \in Shard!PeerEnds(s, g)
        \/ \E x \in (Shard!Shards \X Shard!Gens) \cup Shard!ClerkIds : e \in Shard!CtrlEnds(x) \/ e \in Shard!MadeEnds(x)
    BY DEF Shard!AllEnds
  <2>2. ASSUME NEW s \in Shard!Shards, NEW g \in Shard!Gens, e \in Shard!PeerEnds(s, g)
        PROVE  e = <<e[1], e[2], e[3]>> /\ e[3] \in Shard!Names
    BY <2>2 DEF Shard!PeerEnds, Shard!Peers, Shard!Names
  <2>3. ASSUME NEW x, e \in Shard!CtrlEnds(x) \/ e \in Shard!MadeEnds(x)
        PROVE  e = <<e[1], e[2], e[3]>> /\ e[3] \in Shard!Names
    BY <2>3 DEF Shard!CtrlEnds, Shard!MadeEnds, Shard!Names
  <2> QED BY <2>1, <2>2, <2>3
<1>5. \A x \in (Shard!Shards \X Shard!Gens) \cup Shard!ClerkIds : \A t \in Shard!Shards : <<"made", x, t>> \in Shard!AllEnds
  BY <1>2 DEF Shard!MadeEnds
<1> QED BY <1>1, <1>2, <1>3, <1>4, <1>5

\* Facts about single assumptions and sets.
LEMMA ShNumbers ==
  ASSUME Shard!ShardHarnessAssumption
  PROVE  /\ 1 \in Shard!Gens /\ 1 \in 0 .. MaxShard /\ 0 \in 0 .. MaxShard /\ MaxShard \in Nat
         /\ (\A n \in Shard!Names : n # Nil) /\ Clients \cap Shard!Shards = {}
         /\ Shard!Shards \subseteq Shard!Names /\ Shard!Shards \X Shard!Gens \subseteq Shard!Instances
<1>1. MaxShard \in Nat \ {0}
  BY DEF Shard!ShardHarnessAssumption
<1>2. Nil \notin Shard!Names /\ Clients \cap Shard!Shards = {}
  BY DEF Shard!ShardHarnessAssumption, Shard!Names, Shard!Shards
<1>3. Shard!Shards \subseteq Shard!Names
  BY DEF Shard!Names
<1> QED BY <1>1, <1>2, <1>3 DEF Shard!Gens, Shard!Instances

\* make_config leaves the invariant true.
LEMMA ShInitInv == ASSUME Shard!ShardHarnessAssumption, Shard!Init PROVE ShInv
<1> USE DEF Shard!Init
<1>0. /\ 1 \in Shard!Gens /\ 1 \in 0 .. MaxShard /\ Shard!Shards \subseteq Shard!Names
  BY ShNumbers
<1>1. ends \subseteq Shard!AllEnds
  BY <1>0, ShEnds
<1>2. Shard!RpcTypeOK
  <2>2. connections \in [Shard!AllEnds -> Shard!Names \cup {Nil}]
    BY ShEnds
  <2>3. servers \in [Shard!Names -> Shard!Instances \cup {Nil}]
    BY <1>0 DEF Shard!Instances
  <2> QED BY <1>1, <2>2, <2>3 DEF Shard!RpcTypeOK
<1>3. ShTypes
  <2>1. gen \in [Shard!Shards -> Shard!Gens] /\ running \in [Shard!Shards -> 0 .. MaxShard] /\ saved \in [Shard!Names -> Nat]
    BY <1>0
  <2>2. disks \in [Shard!Names -> Seq(SUBSET Calls)]
    <3>1. <<{}>> \in Seq(SUBSET Calls)
      OBVIOUS
    <3> QED BY <3>1
  <2>3. pers \in [Shard!Instances -> Nat]
    OBVIOUS
  <2>4. /\ tester \in [op : ShOps, s : Shard!Shards \cup {Nil}] /\ (tester.op # "idle" => tester.s \in Shard!Shards)
        /\ clerks \subseteq Clients /\ joined \subseteq Gids /\ late \subseteq Calls /\ killed \subseteq Shard!Shards \X Shard!Gens
    BY DEF Shard!Idle, ShOps
  <2> QED BY <1>2, <2>1, <2>2, <2>3, <2>4 DEF ShTypes
<1>4. ShWired
  BY <1>1 DEF ShWired
<1>5. ShGiven
  <2>1. \A n \in Shard!Names : disks[n] = <<{}>> /\ saved[n] = 1 /\ \A g \in Shard!Gens : pers[<<n, g>>] = IF g = 1 THEN 1 ELSE 0
    BY DEF Shard!Instances
  <2>2. Len(<<{}>>) = 1 /\ \A g \in Shard!Gens : g \in Nat /\ g >= 1
    BY DEF Shard!Gens
  <2>3. \A s \in Shard!Shards : gen[s] = 1 /\ s \in Shard!Names
    BY <1>0
  <2>4. \A n \in Shard!Names : saved[n] \in 1 .. Len(disks[n]) /\ \A g \in Shard!Gens : pers[<<n, g>>] <= saved[n]
    BY <2>1, <2>2
  <2>5. \A s \in Shard!Shards : \A g \in Shard!Gens : g > gen[s] => pers[<<s, g>>] = 0
    <3> SUFFICES ASSUME NEW s \in Shard!Shards, NEW g \in Shard!Gens, g > gen[s] PROVE pers[<<s, g>>] = 0
      OBVIOUS
    <3>1. g > 1 /\ s \in Shard!Names
      BY <2>3
    <3>2. g # 1
      BY <2>2, <3>1
    <3> QED BY <2>1, <3>1, <3>2
  <2>6. \A n \in Shard!Names : \A g, h \in Shard!Gens : g < h /\ pers[<<n, h>>] # 0 => pers[<<n, g>>] < pers[<<n, h>>]
    <3> SUFFICES ASSUME NEW n \in Shard!Names, NEW g \in Shard!Gens, NEW h \in Shard!Gens, g < h PROVE pers[<<n, h>>] = 0
      OBVIOUS
    <3>1. h # 1
      BY <2>2
    <3> QED BY <2>1, <3>1
  <2> QED BY <2>4, <2>5, <2>6 DEF ShGiven
<1>6. ShRegistered
  <2>1. \A n \in Shard!Names : servers[n] = <<n, 1>> /\ saved[n] = 1 /\ pers[<<n, 1>>] = 1
    BY <1>0 DEF Shard!Instances
  <2>2. tester.op = "idle"
    BY DEF Shard!Idle
  <2>3. \A s \in Shard!Shards : running[s] = 1 /\ gen[s] = 1 /\ s \in Shard!Names
    BY <1>0
  <2> QED BY <2>1, <2>2, <2>3 DEF ShRegistered
<1>7. ShCalls
  BY DEF ShCalls, ShCall
<1>8. ShSilent
  <2>1. \A s : ~ShDown(s)
    BY DEF Shard!Idle, ShDown
  <2>2. ASSUME NEW e \in enabled PROVE e[2][2] = 1 /\ e[2][1] \in Shard!Shards
    <3>1. PICK s \in Shard!Shards : e \in Shard!StartEnds(s, 1)
      OBVIOUS
    <3> QED BY <3>1 DEF Shard!StartEnds, Shard!PeerEnds, Shard!CtrlEnds
  <2>3. \A s \in Shard!Shards : Shard!PeerEnds(s, gen[s]) \subseteq enabled
    BY DEF Shard!StartEnds
  <2>4. \A s \in Shard!Shards : running[s] = 1 /\ gen[s] = 1
    OBVIOUS
  <2> QED BY <2>1, <2>2, <2>3, <2>4 DEF ShSilent
<1>9. ShKilled /\ ShLate
  BY DEF ShKilled, ShLate
<1> QED BY <1>3, <1>4, <1>5, <1>6, <1>7, <1>8, <1>9 DEF ShInv

\* The calls and their processReq leave the harness and the wiring alone.
LEMMA ShRpcStep ==
  ASSUME ShTypes, NEW c \in Calls, (\E e \in Shard!AllEnds : Shard!MakeCall(c, e)) \/ Shard!Network(c)
  PROVE  /\ Shard!RpcTypeOK'
         /\ UNCHANGED <<ends, enabled, connections, servers, Shard!harnessVars, tester>>
<1> USE DEF ShTypes, Shard!RpcTypeOK, Shard!netVars
<1>1. CASE \E e \in Shard!AllEnds : Shard!MakeCall(c, e)
  BY <1>1 DEF Shard!MakeCall, Shard!Call, Shard!Goto
<1>2. CASE Shard!Send(c) /\ Shard!Network(c)
  BY <1>2 DEF Shard!Network, Shard!Send, Shard!Goto
<1>3. CASE Shard!Refuse(c) /\ Shard!Network(c)
  BY <1>3 DEF Shard!Network, Shard!Refuse, Shard!Goto
<1>4. CASE Shard!ReadEndnameInfo(c) /\ Shard!Network(c)
  <2>1. end[c] \in enabled => Shard!ServerOf(end[c]) \in Shard!Instances \cup {Nil}
    BY DEF Shard!ServerOf
  <2>2. /\ srv' \in [Calls -> Shard!Instances \cup {Nil}] /\ lossy' \in [Calls -> BOOLEAN]
        /\ pc' \in [Calls -> {"idle", "send", "process", "deliver", "await", "recheck",
                              "failing", "replying", "true", "false"}]
    <3>1. CASE end[c] \in enabled /\ Shard!ServerOf(end[c]) # Nil
      <4>1. /\ srv' = [srv EXCEPT ![c] = Shard!ServerOf(end[c])] /\ lossy' = [lossy EXCEPT ![c] = ~reliable]
            /\ pc' = [pc EXCEPT ![c] = "deliver"]
        BY <1>4, <3>1 DEF Shard!ReadEndnameInfo, Shard!Goto
      <4> QED BY <2>1, <3>1, <4>1
    <3>2. CASE ~(end[c] \in enabled /\ Shard!ServerOf(end[c]) # Nil)
      <4>1. srv' = srv /\ lossy' = lossy /\ pc' = [pc EXCEPT ![c] = "failing"]
        BY <1>4, <3>2 DEF Shard!ReadEndnameInfo, Shard!Goto
      <4> QED BY <4>1
    <3> QED BY <3>1, <3>2
  <2>3. UNCHANGED <<ends, enabled, connections, servers, reliable, netDone, netLoop, end, handler,
                    Shard!harnessVars, tester>>
    BY <1>4 DEF Shard!Network, Shard!ReadEndnameInfo
  <2> QED BY <2>2, <2>3
<1>5. CASE Shard!DropRequest(c) /\ Shard!Network(c)
  BY <1>5 DEF Shard!Network, Shard!DropRequest, Shard!Goto
<1>6. CASE Shard!Dispatch(c) /\ Shard!Network(c)
  BY <1>6 DEF Shard!Network, Shard!Dispatch, Shard!Goto
<1>7. CASE Shard!AwaitReply(c) /\ Shard!Network(c)
  BY <1>7 DEF Shard!Network, Shard!AwaitReply, Shard!Goto
<1>8. CASE Shard!AwaitPoll(c) /\ Shard!Network(c)
  BY <1>8 DEF Shard!Network, Shard!AwaitPoll, Shard!Goto
<1>9. CASE Shard!Recheck(c) /\ Shard!Network(c)
  BY <1>9 DEF Shard!Network, Shard!Recheck, Shard!Goto
<1>10. CASE Shard!Reply(c) /\ Shard!Network(c)
  BY <1>10 DEF Shard!Network, Shard!Reply, Shard!Goto
<1> QED BY <1>1, <1>2, <1>3, <1>4, <1>5, <1>6, <1>7, <1>8, <1>9, <1>10 DEF Shard!Network, Shard!ProcessReq

\* The place of a call's instance and Persister.
LEMMA ShServedAt ==
  ASSUME ShTypes, ShGiven, NEW c \in Calls, ShServed(c)
  PROVE  /\ srv[c] = <<srv[c][1], srv[c][2]>> /\ srv[c][1] \in Shard!Names /\ srv[c][2] \in Shard!Gens
         /\ pers[srv[c]] \in 1 .. Len(disks[srv[c][1]])
<1> DEFINE i == srv[c][1]
           g == srv[c][2]
<1>1. srv[c] = <<i, g>> /\ i \in Shard!Names /\ g \in Shard!Gens /\ srv[c] \in Shard!Instances /\ pers[srv[c]] # 0
  BY DEF ShServed, Shard!Instances
<1>2. pers[srv[c]] \in Nat /\ Len(disks[i]) \in Nat
  BY <1>1 DEF ShTypes
<1> HIDE DEF i, g
<1>3. pers[srv[c]] <= saved[i] /\ saved[i] \in 1 .. Len(disks[i])
  BY <1>1 DEF ShGiven
<1>4. pers[srv[c]] \in 1 .. Len(disks[i])
  BY <1>1, <1>2, <1>3
<1> QED BY <1>1, <1>4 DEF i, g

\* Persisters that only grow keep what the calls have.
LEMMA ShCallsFrame ==
  ASSUME ShTypes, ShGiven, ShCalls, UNCHANGED <<pc, end, srv, handler>>, ends \subseteq ends',
         \A x \in Shard!Instances : pers[x] # 0 => pers'[x] = pers[x],
         \A j \in Shard!Names : \A k \in 1 .. Len(disks[j]) : disks[j][k] \subseteq disks'[j][k],
         \A j \in Shard!Names : Shard!Disk(j) \subseteq Shard!Disk(j)'
  PROVE  ShCalls'
<1> SUFFICES ASSUME NEW c \in Calls PROVE ShCall(c)'
  BY DEF ShCalls
<1>0. ShCall(c)
  BY DEF ShCalls
<1>1. ShServed(c) => ShServed(c)' /\ pers'[srv[c]] = pers[srv[c]]
  BY DEF ShServed
<1>2. CASE ~ShServed(c)
  BY <1>0, <1>2 DEF ShCall
<1>3. CASE ShServed(c)
  <2>1. srv[c][1] \in Shard!Names /\ pers[srv[c]] \in 1 .. Len(disks[srv[c][1]])
    BY <1>3, ShServedAt
  <2>2. pc[c] \in {"replying", "true"} => c \in Shard!Disk(srv[c][1])'
    BY <1>0, <2>1 DEF ShCall
  <2>3. handler[c] \in {"ready", "taken"} => c \in disks'[srv[c][1]][pers'[srv[c]]]
    BY <1>0, <1>1, <1>3, <2>1 DEF ShCall
  <2> QED BY <1>0, <1>1, <1>3, <2>2, <2>3 DEF ShCall
<1> QED BY <1>2, <1>3

\* What processReq looks up under a name is the last instance, which saves into gg.saved.
LEMMA ShLookup ==
  ASSUME Shard!ShardHarnessAssumption, ShInv, NEW c \in Calls, pc[c] # "idle"
  PROVE  /\ connections[end[c]] \in Shard!Names /\ Shard!ServerOf(end[c]) = servers[connections[end[c]]]
         /\ \A n \in Shard!Names : servers[n] # Nil =>
              /\ servers[n] \in Shard!Instances /\ servers[n][1] = n
              /\ pers[servers[n]] = saved[n] /\ saved[n] # 0
<1> USE DEF ShInv
<1>1. end[c] \in Shard!AllEnds /\ connections[end[c]] = end[c][3]
  BY DEF ShCalls, ShCall, ShWired
<1>2. end[c][3] \in Shard!Names
  BY <1>1, ShEnds
<1>3. \A n \in Shard!Names : n # Nil
  BY ShNumbers
<1>4. Shard!ServerOf(end[c]) = servers[connections[end[c]]]
  BY <1>1, <1>2, <1>3 DEF Shard!ServerOf
<1>5. ASSUME NEW n \in Shard!Names, servers[n] # Nil
      PROVE  /\ servers[n] \in Shard!Instances /\ servers[n][1] = n
             /\ pers[servers[n]] = saved[n] /\ saved[n] # 0
  <2>1. servers[n][1] = n /\ pers[servers[n]] = saved[n]
    <3>1. CASE n \in Shard!Shards
      <4>1. servers[n] = <<n, gen[n]>> /\ pers[<<n, gen[n]>>] = saved[n]
        BY <1>5, <3>1 DEF ShRegistered
      <4> QED BY <4>1
    <3>2. CASE n \notin Shard!Shards
      <4>1. servers[n] = <<n, 1>> /\ pers[<<n, 1>>] = saved[n]
        BY <3>2 DEF ShRegistered
      <4> QED BY <4>1
    <3> QED BY <3>1, <3>2
  <2>2. servers[n] \in Shard!Instances
    BY <1>5 DEF ShTypes, Shard!RpcTypeOK
  <2>3. saved[n] \in 1 .. Len(disks[n])
    BY DEF ShGiven
  <2>4. saved[n] # 0
    BY <2>3
  <2> QED BY <2>1, <2>2, <2>4
<1> QED BY <1>1, <1>2, <1>4, <1>5

\* The network's steps keep what is known of every call.
LEMMA ShRpcCalls ==
  ASSUME Shard!ShardHarnessAssumption, ShInv, NEW c \in Calls, (\E e \in Shard!AllEnds : Shard!MakeCall(c, e)) \/ Shard!Network(c)
  PROVE  ShCalls'
<1> USE DEF ShInv
<1>0. UNCHANGED <<ends, connections, servers, gen, pers, disks, saved>>
  BY ShRpcStep DEF Shard!harnessVars
<1>1. /\ pc = [d \in Calls |-> pc[d]] /\ end = [d \in Calls |-> end[d]]
      /\ srv = [d \in Calls |-> srv[d]] /\ handler = [d \in Calls |-> handler[d]]
  BY DEF ShTypes, Shard!RpcTypeOK
<1>2. ASSUME NEW d \in Calls, d # c
      PROVE  UNCHANGED <<pc[d], end[d], srv[d], handler[d]>>
  BY <1>1, <1>2 DEF Shard!MakeCall, Shard!Call, Shard!Network, Shard!Send, Shard!Refuse, Shard!ProcessReq, Shard!ReadEndnameInfo, Shard!DropRequest,
         Shard!Dispatch, Shard!AwaitReply, Shard!AwaitPoll, Shard!Recheck, Shard!Reply, Shard!Goto
<1>3. \A d \in Calls : ShCall(d)
  BY DEF ShCalls
<1>4. ASSUME NEW d \in Calls, d # c PROVE ShCall(d)'
  BY <1>0, <1>2, <1>3, <1>4 DEF ShCall, ShServed, Shard!Disk
<1>6. ShCall(c)'
  <2>1. CASE \E e \in Shard!AllEnds : Shard!MakeCall(c, e)
    BY <1>0, <1>1, <1>3, <2>1 DEF Shard!MakeCall, Shard!Call, Shard!Goto, ShCall, ShServed, Shard!Disk
  <2>2. CASE Shard!Send(c) \/ Shard!Refuse(c) \/ Shard!DropRequest(c) \/ Shard!AwaitPoll(c)
    BY <1>0, <1>1, <1>3, <2>2 DEF Shard!Send, Shard!Refuse, Shard!DropRequest, Shard!AwaitPoll, Shard!Goto, ShCall, ShServed, Shard!Disk
  <2>3. CASE Shard!ReadEndnameInfo(c)
    <3>1. pc[c] = "process" /\ handler[c] = "none" /\ handler' = handler /\ end' = end
      BY <1>3, <2>3 DEF Shard!ReadEndnameInfo, ShCall
    <3>2. pc'[c] = "deliver" => srv'[c] = Shard!ServerOf(end[c]) /\ Shard!ServerOf(end[c]) # Nil
      BY <1>1, <2>3 DEF Shard!ReadEndnameInfo, Shard!Goto
    <3>3. pc'[c] \in {"deliver", "failing"}
      BY <1>1, <2>3 DEF Shard!ReadEndnameInfo, Shard!Goto
    <3>4. pc'[c] = "deliver" => ShServed(c)'
      BY <1>0, <3>1, <3>2, ShLookup DEF ShServed
    <3> QED BY <1>0, <1>3, <3>1, <3>3, <3>4 DEF ShCall
  <2>4. CASE Shard!Dispatch(c)
    BY <1>0, <1>1, <1>3, <2>4 DEF Shard!Dispatch, Shard!Goto, ShCall, ShServed, Shard!Disk
  <2>5. CASE Shard!AwaitReply(c)
    BY <1>0, <1>1, <1>3, <2>5 DEF Shard!AwaitReply, Shard!Goto, ShCall, ShServed, Shard!Disk
  <2>6. CASE Shard!Recheck(c)
    <3>1. /\ pc[c] = "recheck" /\ UNCHANGED <<end, srv, handler>>
          /\ pc'[c] \in {"failing", "replying"} /\ (pc'[c] = "replying" => ~Shard!IsServerDead(c))
      BY <1>1, <2>6 DEF Shard!Recheck, Shard!Goto
    <3>2. ShServed(c) /\ ShServed(c)' /\ c \in disks[srv[c][1]][pers[srv[c]]]
          /\ handler[c] = "taken" /\ end[c] \in ends
      BY <1>0, <1>3, <3>1 DEF ShServed, ShCall
    <3>3. ASSUME pc'[c] = "replying" PROVE c \in Shard!Disk(srv[c][1])
      <4>1. servers[connections[end[c]]] = srv[c] /\ srv[c] # Nil
        BY <3>1, <3>2, <3>3 DEF Shard!IsServerDead, ShServed
      <4>2. srv[c][1] = connections[end[c]] /\ pers[srv[c]] = saved[srv[c][1]]
        BY <3>1, <4>1, ShLookup
      <4> QED BY <3>2, <4>2 DEF Shard!Disk
    <3> QED BY <1>0, <3>1, <3>2, <3>3 DEF Shard!Disk, ShCall
  <2>7. CASE Shard!Reply(c)
    BY <1>0, <1>1, <1>3, <2>7 DEF Shard!Reply, Shard!Goto, ShCall, ShServed, Shard!Disk
  <2> QED BY <2>1, <2>2, <2>3, <2>4, <2>5, <2>6, <2>7 DEF Shard!Network, Shard!ProcessReq
<1> QED BY <1>4, <1>6 DEF ShCalls

\* The handler under test saves into the Persister of its instance.
LEMMA ShHandled ==
  ASSUME Shard!ShardHarnessAssumption, ShInv, NEW c \in Calls, Shard!Handle(c)
  PROVE  ShInv'
<1> USE DEF ShInv
<1> DEFINE i == srv[c][1]
           p == pers[srv[c]]
<1>1. ShServed(c)
  BY DEF ShCalls, ShCall, Shard!Handle, Shard!HandlerReturn
<1>2. i \in Shard!Names /\ p \in 1 .. Len(disks[i])
  BY <1>1, ShServedAt
<1>3. /\ UNCHANGED <<ends, enabled, connections, servers, reliable, netDone, netLoop, pc, end, srv, lossy,
                     gen, running, killed, saved, pers, clerks, joined, tester, late>>
      /\ handler' = [handler EXCEPT ![c] = "ready"] /\ handler[c] = "run"
      /\ disks' = [disks EXCEPT ![i] = [disks[i] EXCEPT ![p] = disks[i][p] \cup {c}]]
  BY DEF Shard!Handle, Shard!HandlerReturn, Shard!netVars
<1>4. /\ handler \in [Calls -> {"none", "run", "ready", "taken"}] /\ disks \in [Shard!Names -> Seq(SUBSET Calls)]
  BY DEF ShTypes, Shard!RpcTypeOK
<1> HIDE DEF i, p
<1>5. disks[i] \in Seq(SUBSET Calls) /\ disks[i][p] \cup {c} \in SUBSET Calls
  BY <1>2, <1>4
<1>6. /\ [disks[i] EXCEPT ![p] = disks[i][p] \cup {c}] \in Seq(SUBSET Calls)
      /\ Len([disks[i] EXCEPT ![p] = disks[i][p] \cup {c}]) = Len(disks[i])
  BY <1>2, <1>5
<1>7. /\ disks' \in [Shard!Names -> Seq(SUBSET Calls)]
      /\ \A j \in Shard!Names : Len(disks'[j]) = Len(disks[j])
      /\ \A j \in Shard!Names : \A k \in 1 .. Len(disks[j]) : disks[j][k] \subseteq disks'[j][k]
      /\ c \in disks'[i][p]
  <2>1. \A j \in Shard!Names : j # i => disks'[j] = disks[j]
    BY <1>2, <1>3, <1>4
  <2>2. disks'[i] = [disks[i] EXCEPT ![p] = disks[i][p] \cup {c}]
    BY <1>2, <1>3, <1>4
  <2>3. \A k \in 1 .. Len(disks[i]) : disks[i][k] \subseteq disks'[i][k]
    BY <1>2, <1>5, <2>2
  <2>4. c \in disks'[i][p]
    BY <1>2, <1>5, <2>2
  <2>5. disks' \in [Shard!Names -> Seq(SUBSET Calls)]
    BY <1>2, <1>3, <1>4, <1>6
  <2>6. \A j \in Shard!Names : Len(disks'[j]) = Len(disks[j])
    BY <1>6, <2>1, <2>2
  <2> QED BY <2>1, <2>3, <2>4, <2>5, <2>6
<1>8. ShTypes'
  <2>1. Shard!RpcTypeOK'
    BY <1>3, <1>4 DEF ShTypes, Shard!RpcTypeOK
  <2> QED BY <1>3, <1>7, <2>1 DEF ShTypes
<1>9. ShWired' /\ ShGiven' /\ ShRegistered' /\ ShSilent' /\ ShKilled' /\ ShLate'
  <2>1. ShGiven'
    BY <1>3, <1>7 DEF ShGiven
  <2>2. ShLate'
    BY <1>3, <1>4 DEF ShLate, ShTypes
  <2> QED BY <1>3, <2>1, <2>2 DEF ShWired, ShRegistered, ShSilent, ShKilled, ShDown
<1>10. ShCalls'
  <2>0. \A d \in Calls : ShServed(d)' <=> ShServed(d)
    BY <1>3 DEF ShServed
  <2>1. ASSUME NEW d \in Calls, ShServed(d)
        PROVE  /\ disks[srv[d][1]][pers[srv[d]]] \subseteq disks'[srv[d][1]][pers[srv[d]]]
               /\ disks[srv[d][1]][saved[srv[d][1]]] \subseteq disks'[srv[d][1]][saved[srv[d][1]]]
    <3>1. srv[d][1] \in Shard!Names /\ pers[srv[d]] \in 1 .. Len(disks[srv[d][1]])
      BY <2>1, ShServedAt
    <3>2. saved[srv[d][1]] \in 1 .. Len(disks[srv[d][1]])
      BY <3>1 DEF ShGiven
    <3> QED BY <1>7, <3>1, <3>2
  <2>2. ASSUME NEW d \in Calls, d # c PROVE ShCall(d)'
    <3>1. handler'[d] = handler[d]
      BY <1>3, <1>4, <2>2
    <3>2. ShCall(d)
      BY DEF ShCalls
    <3> QED BY <1>3, <2>0, <2>1, <3>1, <3>2 DEF ShCall, Shard!Disk
  <2>3. ShCall(c)'
    <3>1. handler'[c] = "ready"
      BY <1>3, <1>4
    <3>2. ShCall(c)
      BY DEF ShCalls
    <3>3. c \in disks'[srv[c][1]][pers[srv[c]]]
      BY <1>7 DEF i, p
    <3> QED BY <1>1, <1>3, <2>0, <2>1, <3>1, <3>2, <3>3 DEF ShCall, Shard!Disk
  <2> QED BY <2>2, <2>3 DEF ShCalls
<1> QED BY <1>8, <1>9, <1>10

\* cfg.saved[i] becomes a copy of itself.
LEMMA ShCopied ==
  ASSUME ShTypes, ShGiven, NEW i \in Shard!Names, Shard!Copy(i)
  PROVE  /\ disks' \in [Shard!Names -> Seq(SUBSET Calls)] /\ saved' \in [Shard!Names -> Nat]
         /\ \A j \in Shard!Names : j # i => disks'[j] = disks[j] /\ saved'[j] = saved[j]
         /\ Len(disks'[i]) = Len(disks[i]) + 1 /\ saved'[i] = Len(disks[i]) + 1
         /\ \A j \in Shard!Names : \A k \in 1 .. Len(disks[j]) : disks'[j][k] = disks[j][k]
         /\ \A j \in Shard!Names : Shard!Disk(j)' = Shard!Disk(j)
         /\ \A j \in Shard!Names : saved'[j] \in 1 .. Len(disks'[j]) /\ saved[j] <= saved'[j]
         /\ saved[i] < saved'[i]
<1>1. disks \in [Shard!Names -> Seq(SUBSET Calls)] /\ saved \in [Shard!Names -> Nat]
  BY DEF ShTypes
<1>2. saved[i] \in 1 .. Len(disks[i]) /\ Len(disks[i]) \in Nat
  BY <1>1 DEF ShGiven
<1> DEFINE x == Shard!Disk(i)
<1>3. x \in SUBSET Calls
  BY <1>1, <1>2 DEF Shard!Disk
<1>4. disks' = [disks EXCEPT ![i] = Append(disks[i], x)] /\ saved' = [saved EXCEPT ![i] = Len(disks[i]) + 1]
  BY DEF Shard!Copy
<1>5. x = disks[i][saved[i]]
  BY DEF Shard!Disk
<1> HIDE DEF x
<1>6. /\ Append(disks[i], x) \in Seq(SUBSET Calls) /\ Len(Append(disks[i], x)) = Len(disks[i]) + 1
      /\ \A k \in 1 .. Len(disks[i]) : Append(disks[i], x)[k] = disks[i][k]
      /\ Append(disks[i], x)[Len(disks[i]) + 1] = x
  <2>1. disks[i] \in Seq(SUBSET Calls)
    BY <1>1
  <2> QED BY <1>3, <2>1
<1>7. disks'[i] = Append(disks[i], x) /\ saved'[i] = Len(disks[i]) + 1
  BY <1>1, <1>4
<1>8. \A j \in Shard!Names : j # i => disks'[j] = disks[j] /\ saved'[j] = saved[j]
  BY <1>1, <1>4
<1>9. disks' \in [Shard!Names -> Seq(SUBSET Calls)] /\ saved' \in [Shard!Names -> Nat]
  BY <1>1, <1>2, <1>4, <1>6
<1>10. ASSUME NEW j \in Shard!Names
       PROVE  /\ \A k \in 1 .. Len(disks[j]) : disks'[j][k] = disks[j][k]
              /\ disks'[j][saved'[j]] = disks[j][saved[j]]
              /\ saved'[j] \in 1 .. Len(disks'[j]) /\ saved[j] <= saved'[j]
  <2>1. CASE j = i
    BY <1>2, <1>5, <1>6, <1>7, <2>1
  <2>2. CASE j # i
    <3>1. saved[j] \in 1 .. Len(disks[j]) /\ saved[j] \in Nat
      BY <1>1 DEF ShGiven
    <3> QED BY <1>8, <2>2, <3>1
  <2> QED BY <2>1, <2>2
<1>11. \A j \in Shard!Names : Shard!Disk(j)' = Shard!Disk(j)
  BY <1>10 DEF Shard!Disk
<1>12. saved[i] < saved'[i]
  BY <1>2, <1>7
<1> QED BY <1>6, <1>7, <1>8, <1>9, <1>10, <1>11, <1>12


\* The home ends of a killed instance are disabled.
LEMMA ShKilledEnds ==
  ASSUME ShInv, NEW e, e[1] # "made", e[2] \in killed
  PROVE  e \notin enabled
<1>1. e[2] \in Shard!Shards \X Shard!Gens
  BY DEF ShInv, ShTypes
<1>2. e[2][2] = gen[e[2][1]] => running[e[2][1]] = 0
  BY DEF ShInv, ShKilled
<1> QED BY <1>1, <1>2 DEF ShInv, ShSilent

\* The network's steps keep the calls of killed instances away from the servers.
LEMMA ShRpcLate ==
  ASSUME ShInv, NEW c \in Calls, (\E e \in Shard!AllEnds : Shard!MakeCall(c, e)) \/ Shard!Network(c)
  PROVE  late' \subseteq Calls /\ ShLate'
<1>1. UNCHANGED <<enabled, killed>>
  BY ShRpcStep DEF ShInv, Shard!harnessVars
<1>2. /\ pc = [d \in Calls |-> pc[d]] /\ end = [d \in Calls |-> end[d]]
      /\ srv = [d \in Calls |-> srv[d]] /\ handler = [d \in Calls |-> handler[d]] /\ late \subseteq Calls
  BY DEF ShInv, ShTypes, Shard!RpcTypeOK
<1>3. \A d \in late :
        /\ pc[d] # "idle" /\ end[d][2] \in killed
        /\ end[d][1] # "made" => handler[d] = "none" /\ pc[d] \in {"send", "process", "failing", "false"}
  BY DEF ShInv, ShLate
<1>4. ASSUME NEW d \in Calls, d # c
      PROVE  UNCHANGED <<pc[d], end[d], srv[d], handler[d]>>
  BY <1>2, <1>4 DEF Shard!MakeCall, Shard!Call, Shard!Network, Shard!Send, Shard!Refuse, Shard!ProcessReq, Shard!ReadEndnameInfo, Shard!DropRequest,
         Shard!Dispatch, Shard!AwaitReply, Shard!AwaitPoll, Shard!Recheck, Shard!Reply, Shard!Goto
<1>5. ASSUME NEW e \in Shard!AllEnds, Shard!MakeCall(c, e) PROVE late' \subseteq Calls /\ ShLate'
  <2>1. /\ pc[c] = "idle" /\ pc'[c] = "send" /\ end'[c] = e /\ handler' = handler
        /\ late' = IF e[2] \in killed THEN late \cup {c} ELSE late
    BY <1>2, <1>5 DEF Shard!MakeCall, Shard!Call, Shard!Goto
  <2>2. handler[c] = "none"
    BY <2>1 DEF ShInv, ShCalls, ShCall
  <2>3. c \notin late
    BY <1>3, <2>1
  <2>4. late' \subseteq Calls
    BY <1>2, <2>1
  <2>5. ASSUME NEW d \in late'
        PROVE  /\ pc'[d] # "idle" /\ end'[d][2] \in killed'
               /\ end'[d][1] # "made" => handler'[d] = "none" /\ pc'[d] \in {"send", "process", "failing", "false"}
    <3>1. CASE d = c
      <4>1. e[2] \in killed
        BY <2>1, <2>3, <3>1
      <4> QED BY <1>1, <2>1, <2>2, <3>1, <4>1
    <3>2. CASE d # c
      <4>1. d \in late /\ d \in Calls
        BY <1>2, <2>1, <3>2
      <4> QED BY <1>1, <1>3, <1>4, <3>2, <4>1
    <3> QED BY <3>1, <3>2
  <2> QED BY <2>4, <2>5 DEF ShLate
<1>6. ASSUME Shard!Network(c) PROVE late' \subseteq Calls /\ ShLate'
  <2>1. late' = late
    BY <1>6 DEF Shard!Network
  <2>2. ASSUME c \in late
        PROVE  /\ pc'[c] # "idle" /\ end'[c][2] \in killed'
               /\ end'[c][1] # "made" => handler'[c] = "none" /\ pc'[c] \in {"send", "process", "failing", "false"}
    <3>1. end' = end /\ pc'[c] # "idle"
      BY <1>2, <1>6 DEF Shard!Network, Shard!Send, Shard!Refuse, Shard!ProcessReq, Shard!ReadEndnameInfo, Shard!DropRequest,
         Shard!Dispatch, Shard!AwaitReply, Shard!AwaitPoll, Shard!Recheck, Shard!Reply, Shard!Goto
    <3>2. ASSUME end[c][1] # "made"
          PROVE  handler'[c] = "none" /\ pc'[c] \in {"send", "process", "failing", "false"}
      <4>1. end[c] \notin enabled /\ handler[c] = "none" /\ pc[c] \in {"send", "process", "failing", "false"}
        BY <1>3, <2>2, <3>2, ShKilledEnds
      <4> QED BY <1>2, <1>6, <4>1 DEF Shard!Network, Shard!Send, Shard!Refuse, Shard!ProcessReq, Shard!ReadEndnameInfo, Shard!DropRequest,
         Shard!Dispatch, Shard!AwaitReply, Shard!AwaitPoll, Shard!Recheck, Shard!Reply, Shard!Goto
    <3> QED BY <1>1, <1>3, <2>2, <3>1, <3>2
  <2>3. ASSUME NEW d \in late, d # c
        PROVE  /\ pc'[d] # "idle" /\ end'[d][2] \in killed'
               /\ end'[d][1] # "made" => handler'[d] = "none" /\ pc'[d] \in {"send", "process", "failing", "false"}
    BY <1>1, <1>2, <1>3, <1>4, <2>3
  <2> QED BY <1>2, <2>1, <2>2, <2>3 DEF ShLate
<1> QED BY <1>5, <1>6

\* Every step of the network keeps the invariant.
LEMMA ShRpc ==
  ASSUME Shard!ShardHarnessAssumption, ShInv, NEW c \in Calls, (\E e \in Shard!AllEnds : Shard!MakeCall(c, e)) \/ Shard!Network(c)
  PROVE  ShInv'
<1>1. Shard!RpcTypeOK' /\ UNCHANGED <<ends, enabled, connections, servers, Shard!harnessVars, tester>>
  BY ShRpcStep DEF ShInv
<1>2. ShCalls'
  BY ShRpcCalls
<1>3. late' \subseteq Calls /\ ShLate'
  BY ShRpcLate
<1>4. ShTypes'
  BY <1>1, <1>3 DEF ShInv, ShTypes, Shard!harnessVars
<1>5. ShWired' /\ ShGiven' /\ ShRegistered' /\ ShSilent' /\ ShKilled'
  BY <1>1 DEF ShInv, ShWired, ShGiven, ShRegistered, ShSilent, ShKilled, ShDown, Shard!harnessVars
<1> QED BY <1>2, <1>3, <1>4, <1>5 DEF ShInv

\* What neither rewires nor restarts.
LEMMA ShFrame ==
  ASSUME ShInv,
         UNCHANGED <<ends, enabled, connections, servers, reliable, pc, end, srv, lossy, handler,
                     gen, running, killed, disks, saved, pers, tester, late>>,
         netDone' \in BOOLEAN, netLoop' \in BOOLEAN, clerks' \subseteq Clients, joined' \subseteq Gids
  PROVE  ShInv'
<1> USE DEF ShInv
<1>1. Shard!RpcTypeOK'
  BY DEF ShTypes, Shard!RpcTypeOK
<1>2. ShTypes'
  BY <1>1 DEF ShTypes
<1>3. ShWired' /\ ShGiven' /\ ShRegistered' /\ ShSilent' /\ ShKilled' /\ ShLate'
  BY DEF ShWired, ShGiven, ShRegistered, ShSilent, ShKilled, ShLate, ShDown
<1>4. ShCalls'
  BY DEF ShCalls, ShCall, ShServed, Shard!Disk
<1> QED BY <1>2, <1>3, <1>4

\* Ends that a clerk or make_end opens are none of those that StartServer made.
LEMMA ShOpened ==
  ASSUME Shard!ShardHarnessAssumption, ShInv, NEW new, Shard!OpenEnds(new), new \subseteq Shard!AllEnds,
         \A e \in new : e[1] # "made" => e[2] \notin Shard!Shards \X Shard!Gens,
         UNCHANGED <<gen, running, killed, disks, saved, pers, joined, tester, late>>, clerks' \subseteq Clients
  PROVE  ShInv'
<1> USE DEF ShInv
<1>1. /\ ends' = ends \cup new /\ enabled' = enabled \cup new
      /\ connections' = [e \in Shard!AllEnds |-> IF e \in new THEN e[3] ELSE connections[e]]
      /\ UNCHANGED <<servers, reliable, netDone, netLoop, pc, end, srv, lossy, handler>>
  BY DEF Shard!OpenEnds, Shard!inFlight
<1>2. Shard!RpcTypeOK'
  <2>1. connections' \in [Shard!AllEnds -> Shard!Names \cup {Nil}]
    BY <1>1, ShEnds DEF ShTypes, Shard!RpcTypeOK
  <2> QED BY <1>1, <2>1 DEF ShTypes, Shard!RpcTypeOK
<1>3. ShTypes'
  BY <1>1, <1>2 DEF ShTypes
<1>4. ShWired'
  BY <1>1 DEF ShWired
<1>5. ShGiven' /\ ShRegistered' /\ ShKilled' /\ ShLate'
  BY <1>1 DEF ShGiven, ShRegistered, ShKilled, ShLate, ShDown
<1>6. ShSilent'
  BY <1>1 DEF ShSilent, ShDown
<1>7. ShCalls'
  BY <1>1 DEF ShCalls, ShCall, ShServed, Shard!Disk
<1> QED BY <1>3, <1>4, <1>5, <1>6, <1>7

\* Clerks, joins and leaves keep it.
LEMMA ShClients ==
  ASSUME Shard!ShardHarnessAssumption, ShInv,
         \/ \E k \in Clients : Shard!MakeClient(k) \/ Shard!DeleteClient(k)
         \/ \E x \in (Shard!Shards \X Shard!Gens) \cup Shard!ClerkIds, t \in Shard!Shards : Shard!MakeEndTo(x, t)
         \/ \E gis \in SUBSET Gids : Shard!Joinm(gis) \/ Shard!Leavem(gis)
  PROVE  ShInv'
<1>1. ASSUME NEW k \in Clients, Shard!MakeClient(k) PROVE ShInv'
  <2> DEFINE x == <<k, 1>>
  <2>1. x \in Shard!ClerkIds
    BY DEF Shard!ClerkIds
  <2>2. Shard!CtrlEnds(x) \subseteq Shard!AllEnds
    BY <2>1, ShEnds
  <2>3. x \notin Shard!Shards \X Shard!Gens
    BY ShNumbers
  <2>4. \A e \in Shard!CtrlEnds(x) : e[1] # "made" => e[2] \notin Shard!Shards \X Shard!Gens
    <3> HIDE DEF x
    <3> QED BY <2>3 DEF Shard!CtrlEnds
  <2>5. clerks' \subseteq Clients
    BY <1>1 DEF Shard!MakeClient, ShInv, ShTypes
  <2> QED BY <1>1, <2>2, <2>4, <2>5, ShOpened DEF Shard!MakeClient
<1>2. ASSUME NEW x \in (Shard!Shards \X Shard!Gens) \cup Shard!ClerkIds, NEW t \in Shard!Shards, Shard!MakeEndTo(x, t) PROVE ShInv'
  <2>1. {<<"made", x, t>>} \subseteq Shard!AllEnds
    BY ShEnds
  <2>2. \A e \in {<<"made", x, t>>} : e[1] = "made"
    OBVIOUS
  <2>3. UNCHANGED <<gen, running, killed, disks, saved, pers, joined, tester, late>> /\ clerks' \subseteq Clients
        /\ Shard!OpenEnds({<<"made", x, t>>})
    BY <1>2 DEF Shard!MakeEndTo, Shard!harnessVars, ShInv, ShTypes
  <2> QED BY <2>1, <2>2, <2>3, ShOpened
<1>3. ASSUME NEW k \in Clients, Shard!DeleteClient(k) PROVE ShInv'
  <2>1. clerks' \subseteq Clients /\ joined' \subseteq Gids /\ netDone' \in BOOLEAN /\ netLoop' \in BOOLEAN
    BY <1>3 DEF Shard!DeleteClient, Shard!network, ShInv, ShTypes, Shard!RpcTypeOK
  <2> QED BY <1>3, <2>1, ShFrame DEF Shard!DeleteClient, Shard!network, Shard!inFlight
<1>4. ASSUME NEW gis \in SUBSET Gids, Shard!Joinm(gis) \/ Shard!Leavem(gis) PROVE ShInv'
  <2>1. clerks' \subseteq Clients /\ joined' \subseteq Gids /\ netDone' \in BOOLEAN /\ netLoop' \in BOOLEAN
    BY <1>4 DEF Shard!Joinm, Shard!Leavem, Shard!network, ShInv, ShTypes, Shard!RpcTypeOK
  <2> QED BY <1>4, <2>1, ShFrame DEF Shard!Joinm, Shard!Leavem, Shard!network, Shard!inFlight
<1> QED BY <1>1, <1>2, <1>3, <1>4

\* The ends of one instance are no other's.
LEMMA ShPeerEnds ==
  ASSUME NEW s \in Shard!Shards, NEW g, NEW r \in Shard!Shards, NEW h
  PROVE  /\ \A e \in Shard!StartEnds(s, g) : e[1] # "made" /\ e[2] = <<s, g>>
         /\ \A e \in Shard!PeerEnds(s, g) : e[2] = <<s, g>>
         /\ s # r => Shard!PeerEnds(s, g) \cap Shard!StartEnds(r, h) = {}
<1>1. \A e \in Shard!StartEnds(s, g) : e[1] # "made" /\ e[2] = <<s, g>>
  BY DEF Shard!StartEnds, Shard!PeerEnds, Shard!CtrlEnds
<1>2. \A e \in Shard!StartEnds(r, h) : e[2] = <<r, h>>
  BY DEF Shard!StartEnds, Shard!PeerEnds, Shard!CtrlEnds
<1>3. \A e \in Shard!PeerEnds(s, g) : e[2] = <<s, g>>
  BY DEF Shard!PeerEnds
<1> QED BY <1>1, <1>2, <1>3

\* The first step of ShutdownServer: the ends of the instance are disabled.
LEMMA ShShutdownDisable ==
  ASSUME Shard!ShardHarnessAssumption, ShInv, NEW s \in Shard!Shards, Shard!ShutdownDisable(s)
  PROVE  ShInv'
<1> USE DEF ShInv
<1>1. /\ UNCHANGED <<ends, connections, servers, reliable, netDone, netLoop, pc, end, srv, lossy, handler,
                     gen, running, killed, disks, saved, pers, clerks, joined, late>>
      /\ enabled' = enabled \ Shard!StartEnds(s, gen[s]) /\ tester' = [op |-> "delete", s |-> s]
      /\ tester.op = "idle"
  BY DEF Shard!ShutdownDisable, Shard!Disabled, Shard!StartEnds, Shard!inFlight, Shard!harnessVars, Shard!Idle
<1>2. /\ \A r : ShDown(r)' <=> r = s
      /\ \A r : ~ShDown(r)
      /\ tester'.op = "delete" /\ tester'.s = s
  BY <1>1 DEF ShDown
<1>3. ShTypes'
  <2>1. Shard!RpcTypeOK'
    BY <1>1 DEF ShTypes, Shard!RpcTypeOK
  <2>2. tester' \in [op : ShOps, s : Shard!Shards \cup {Nil}] /\ tester'.s \in Shard!Shards
    BY <1>1 DEF ShOps
  <2> QED BY <1>1, <2>1, <2>2 DEF ShTypes
<1>4. ShWired' /\ ShGiven' /\ ShKilled' /\ ShLate'
  BY <1>1 DEF ShWired, ShGiven, ShKilled, ShLate
<1>5. ShRegistered'
  BY <1>1, <1>2 DEF ShRegistered
<1>6. ShCalls'
  BY <1>1 DEF ShCalls, ShCall, ShServed, Shard!Disk
<1>7. ShSilent'
  <2>1. ASSUME NEW e \in enabled', e[1] # "made", e[2] \in Shard!Shards \X Shard!Gens
        PROVE  e[2][2] = gen[e[2][1]] /\ running[e[2][1]] # 0 /\ e[2][1] # s
    <3>1. e \in enabled /\ e \notin Shard!StartEnds(s, gen[s]) /\ e \in Shard!AllEnds
      BY <1>1 DEF ShTypes, Shard!RpcTypeOK
    <3>2. e[2][2] = gen[e[2][1]] /\ running[e[2][1]] # 0
      BY <2>1, <3>1 DEF ShSilent
    <3>3. ASSUME e[2][1] = s PROVE FALSE
      <4>0. e[2] = <<s, gen[s]>>
        BY <2>1, <3>2, <3>3
      <4>1. \/ \E r \in Shard!Shards, g \in Shard!Gens : e \in Shard!PeerEnds(r, g)
            \/ \E x \in (Shard!Shards \X Shard!Gens) \cup Shard!ClerkIds : e \in Shard!CtrlEnds(x) \/ e \in Shard!MadeEnds(x)
        BY <3>1 DEF Shard!AllEnds
      <4>2. ASSUME NEW r \in Shard!Shards, NEW g \in Shard!Gens, e \in Shard!PeerEnds(r, g) PROVE FALSE
        <5>1. r = s /\ g = gen[s]
          BY <4>0, <4>2 DEF Shard!PeerEnds
        <5> QED BY <3>1, <4>2, <5>1 DEF Shard!StartEnds
      <4>3. ASSUME NEW x, e \in Shard!CtrlEnds(x) PROVE FALSE
        <5>1. x = <<s, gen[s]>>
          BY <4>0, <4>3 DEF Shard!CtrlEnds
        <5> QED BY <3>1, <4>3, <5>1 DEF Shard!StartEnds
      <4>4. ASSUME NEW x, e \in Shard!MadeEnds(x) PROVE FALSE
        BY <2>1, <4>4 DEF Shard!MadeEnds
      <4> QED BY <4>1, <4>2, <4>3, <4>4
    <3> QED BY <3>2, <3>3
  <2>2. ASSUME NEW r \in Shard!Shards, running[r] # 0, r # s PROVE Shard!PeerEnds(r, gen[r]) \subseteq enabled'
    <3>1. Shard!PeerEnds(r, gen[r]) \subseteq enabled
      BY <1>2, <2>2 DEF ShSilent
    <3>2. Shard!PeerEnds(r, gen[r]) \cap Shard!StartEnds(s, gen[s]) = {}
      BY <2>2, ShPeerEnds
    <3> QED BY <1>1, <3>1, <3>2
  <2> QED BY <1>1, <1>2, <2>1, <2>2 DEF ShSilent
<1> QED BY <1>3, <1>4, <1>5, <1>6, <1>7

\* The others: the server is deleted, gg.saved is copied, the instance is killed.
LEMMA ShShutdown ==
  ASSUME Shard!ShardHarnessAssumption, ShInv, Shard!ShutdownDelete \/ Shard!ShutdownCopy \/ Shard!ShutdownKill
  PROVE  ShInv'
<1> USE DEF ShInv
<1>0. tester.op \in ShOps /\ tester = [op |-> tester.op, s |-> tester.s] /\ (tester.op # "idle" => tester.s \in Shard!Shards)
  BY DEF ShTypes
<1>01. Shard!Shards \subseteq Shard!Names
  BY ShNumbers
<1>2. CASE Shard!ShutdownDelete
  <2>1. /\ UNCHANGED <<ends, enabled, connections, reliable, netDone, netLoop, pc, end, srv, lossy, handler,
                       gen, running, killed, disks, saved, pers, clerks, joined, late>>
        /\ servers' = [servers EXCEPT ![tester.s] = Nil] /\ tester' = [tester EXCEPT !.op = "copy"]
        /\ tester.op = "delete"
    BY <1>2 DEF Shard!ShutdownDelete, Shard!DeleteServer, Shard!callVars, Shard!harnessVars
  <2>2. /\ tester'.op = "copy" /\ tester'.s = tester.s /\ tester.s \in Shard!Shards
        /\ tester' \in [op : ShOps, s : Shard!Shards \cup {Nil}]
    BY <1>0, <2>1 DEF ShOps
  <2>3. servers' \in [Shard!Names -> Shard!Instances \cup {Nil}] /\ servers'[tester.s] = Nil
        /\ \A j \in Shard!Names : j # tester.s => servers'[j] = servers[j]
    BY <1>01, <2>1, <2>2 DEF ShTypes, Shard!RpcTypeOK
  <2>4. ShTypes'
    <3>1. Shard!RpcTypeOK'
      BY <2>1, <2>3 DEF ShTypes, Shard!RpcTypeOK
    <3> QED BY <2>1, <2>2, <3>1 DEF ShTypes
  <2>5. ShWired' /\ ShGiven' /\ ShKilled' /\ ShLate'
    BY <2>1 DEF ShWired, ShGiven, ShKilled, ShLate
  <2>6. \A r : ShDown(r)' <=> ShDown(r)
    BY <2>1, <2>2 DEF ShDown
  <2>7. ShRegistered'
    <3>1. ASSUME NEW r \in Shard!Shards, r # tester.s
          PROVE  /\ running[r] \in {0, gen[r]}
                 /\ running[r] = 0 => servers'[r] = Nil
                 /\ servers'[r] # Nil => servers'[r] = <<r, gen[r]>> /\ pers[<<r, gen[r]>>] = saved[r]
                 /\ running[r] # 0 => servers'[r] = <<r, gen[r]>>
      <4>1. servers'[r] = servers[r] /\ ~ShDown(r)
        BY <1>01, <2>3, <3>1 DEF ShDown
      <4> QED BY <2>1, <3>1, <4>1 DEF ShRegistered
    <3>2. running[tester.s] \in {0, gen[tester.s]} /\ servers'[tester.s] = Nil /\ ShDown(tester.s)'
      BY <2>1, <2>2, <2>3 DEF ShRegistered, ShDown
    <3>3. \A n \in Shard!Names \ Shard!Shards : servers'[n] = <<n, 1>> /\ pers[<<n, 1>>] = saved[n]
      BY <2>2, <2>3 DEF ShRegistered
    <3> QED BY <2>1, <2>2, <2>3, <3>1, <3>2, <3>3 DEF ShRegistered
  <2>8. ShCalls'
    BY <2>1 DEF ShCalls, ShCall, ShServed, Shard!Disk
  <2>9. ShSilent'
    BY <2>1, <2>6 DEF ShSilent
  <2> QED BY <2>4, <2>5, <2>7, <2>8, <2>9
<1>3. CASE Shard!ShutdownCopy
  <2>1. /\ UNCHANGED <<ends, enabled, connections, servers, reliable, netDone, netLoop, pc, end, srv, lossy, handler,
                       gen, running, killed, pers, clerks, joined, late>>
        /\ Shard!Copy(tester.s) /\ tester' = [tester EXCEPT !.op = "kill"] /\ tester.op = "copy"
    BY <1>3 DEF Shard!ShutdownCopy, Shard!network, Shard!inFlight
  <2>2. /\ tester'.op = "kill" /\ tester'.s = tester.s /\ tester.s \in Shard!Shards
        /\ tester' \in [op : ShOps, s : Shard!Shards \cup {Nil}]
    BY <1>0, <2>1 DEF ShOps
  <2>3. /\ disks' \in [Shard!Names -> Seq(SUBSET Calls)] /\ saved' \in [Shard!Names -> Nat]
        /\ \A j \in Shard!Names : j # tester.s => disks'[j] = disks[j] /\ saved'[j] = saved[j]
        /\ \A j \in Shard!Names : \A k \in 1 .. Len(disks[j]) : disks'[j][k] = disks[j][k]
        /\ \A j \in Shard!Names : Shard!Disk(j)' = Shard!Disk(j)
        /\ \A j \in Shard!Names : saved'[j] \in 1 .. Len(disks'[j]) /\ saved[j] <= saved'[j]
    BY <1>01, <2>1, <2>2, ShCopied
  <2>4. ShTypes'
    <3>1. Shard!RpcTypeOK'
      BY <2>1 DEF ShTypes, Shard!RpcTypeOK
    <3> QED BY <2>1, <2>2, <2>3, <3>1 DEF ShTypes
  <2>5. ShWired' /\ ShKilled' /\ ShLate'
    BY <2>1 DEF ShWired, ShKilled, ShLate
  <2>6. ShGiven'
    <3>1. ASSUME NEW j \in Shard!Names, NEW g \in Shard!Gens PROVE pers'[<<j, g>>] <= saved'[j]
      <4>1. pers[<<j, g>>] <= saved[j] /\ saved[j] <= saved'[j] /\ saved[j] \in Nat /\ saved'[j] \in Nat
        BY <2>3 DEF ShGiven, ShTypes
      <4>2. pers[<<j, g>>] \in Nat
        BY DEF ShTypes, Shard!Instances
      <4> QED BY <2>1, <4>1, <4>2
    <3> QED BY <2>1, <2>3, <3>1 DEF ShGiven
  <2>7. \A r : ShDown(r)' <=> ShDown(r)
    BY <2>1, <2>2 DEF ShDown
  <2>8. ShRegistered'
    <3>1. ASSUME NEW r \in Shard!Shards
          PROVE  servers[r] # Nil => pers[<<r, gen[r]>>] = saved'[r]
      <4>1. servers[tester.s] = Nil
        BY <2>1 DEF ShRegistered
      <4> QED BY <1>01, <2>3, <4>1 DEF ShRegistered
    <3>2. \A n \in Shard!Names \ Shard!Shards : pers[<<n, 1>>] = saved'[n]
      BY <2>2, <2>3 DEF ShRegistered
    <3> QED BY <2>1, <2>2, <2>7, <3>1, <3>2 DEF ShRegistered
  <2>9. ShCalls'
    BY <2>1, <2>3, ShCallsFrame
  <2>10. ShSilent'
    BY <2>1, <2>7 DEF ShSilent
  <2> QED BY <2>4, <2>5, <2>6, <2>8, <2>9, <2>10
<1>4. CASE Shard!ShutdownKill
  <2> DEFINE s == tester.s
  <2>1. /\ UNCHANGED <<ends, enabled, connections, servers, reliable, netDone, netLoop, pc, end, srv, lossy, handler,
                       gen, disks, saved, pers, clerks, joined, late>>
        /\ killed' = (IF running[s] = 0 THEN killed ELSE killed \cup {<<s, running[s]>>})
        /\ running' = [running EXCEPT ![s] = 0] /\ tester' = [op |-> "idle", s |-> Nil]
        /\ tester.op = "kill" /\ s \in Shard!Shards
    BY <1>0, <1>4 DEF Shard!ShutdownKill, Shard!network, Shard!inFlight, Shard!Idle
  <2>2. tester'.op = "idle" /\ tester' \in [op : ShOps, s : Shard!Shards \cup {Nil}]
    BY <2>1 DEF ShOps
  <2> HIDE DEF s
  <2>3. /\ running' \in [Shard!Shards -> 0 .. MaxShard] /\ running'[s] = 0
        /\ \A j \in Shard!Shards : j # s => running'[j] = running[j]
    BY <2>1, ShNumbers DEF ShTypes
  <2>4. /\ running[s] \in {0, gen[s]} /\ gen[s] \in Shard!Gens /\ gen[s] \in Nat /\ servers[s] = Nil
    <3>1. running[s] \in {0, gen[s]} /\ servers[s] = Nil
      BY <2>1 DEF ShRegistered, s
    <3>2. gen[s] \in Shard!Gens
      BY <2>1 DEF ShTypes
    <3>3. \A g \in Shard!Gens : g \in Nat
      BY DEF Shard!Gens
    <3> QED BY <3>1, <3>2, <3>3
  <2>5. killed' \subseteq Shard!Shards \X Shard!Gens /\ killed \subseteq killed'
        /\ \A x \in killed' : x \in killed \/ x = <<s, gen[s]>>
    BY <2>1, <2>4 DEF ShTypes
  <2>6. ShTypes'
    <3>1. Shard!RpcTypeOK'
      BY <2>1 DEF ShTypes, Shard!RpcTypeOK
    <3> QED BY <2>1, <2>2, <2>3, <2>5, <3>1 DEF ShTypes
  <2>7. ShWired' /\ ShGiven'
    BY <2>1 DEF ShWired, ShGiven
  <2>8. (\A r : ~ShDown(r)') /\ (\A r : ShDown(r) <=> r = s)
    BY <2>1, <2>2 DEF ShDown, s
  <2>9. ShRegistered'
    <3>1. ASSUME NEW r \in Shard!Shards, r # s
          PROVE  running'[r] # 0 => servers[r] = <<r, gen[r]>>
      <4>1. running'[r] = running[r] /\ ~ShDown(r) /\ tester.op # "serve"
        BY <2>1, <2>3, <2>8, <3>1
      <4> QED BY <4>1 DEF ShRegistered
    <3> QED BY <2>1, <2>2, <2>3, <2>4, <3>1 DEF ShRegistered
  <2>10. ShKilled'
    <3>1. ASSUME NEW x \in killed' PROVE x[2] <= gen[x[1]] /\ (x[2] = gen[x[1]] => running'[x[1]] = 0)
      <4>1. CASE x = <<s, gen[s]>>
        BY <2>3, <2>4, <4>1
      <4>2. CASE x \in killed
        <5>1. x[1] \in Shard!Shards /\ x[2] <= gen[x[1]] /\ (x[2] = gen[x[1]] => running[x[1]] = 0)
          BY <4>2 DEF ShKilled, ShTypes
        <5> QED BY <2>3, <5>1
      <4> QED BY <2>5, <4>1, <4>2
    <3> QED BY <2>1, <3>1 DEF ShKilled
  <2>11. ShLate'
    BY <2>1, <2>5 DEF ShLate
  <2>12. ShCalls'
    BY <2>1 DEF ShCalls, ShCall, ShServed, Shard!Disk
  <2>13. ShSilent'
    <3>1. ASSUME NEW e \in enabled, e[1] # "made", e[2] \in Shard!Shards \X Shard!Gens
          PROVE  e[2][2] = gen[e[2][1]] /\ running'[e[2][1]] # 0
      <4>1. e[2][1] \in Shard!Shards /\ e[2][2] = gen[e[2][1]] /\ running[e[2][1]] # 0 /\ ~ShDown(e[2][1])
        BY <3>1 DEF ShSilent
      <4> QED BY <2>3, <2>8, <4>1
    <3>2. ASSUME NEW r \in Shard!Shards, running'[r] # 0 PROVE Shard!PeerEnds(r, gen[r]) \subseteq enabled
      <4>1. r # s /\ running[r] # 0 /\ ~ShDown(r)
        BY <2>3, <2>8, <3>2
      <4> QED BY <4>1 DEF ShSilent
    <3> QED BY <2>1, <2>8, <3>1, <3>2 DEF ShSilent
  <2> QED BY <2>6, <2>7, <2>9, <2>10, <2>11, <2>12, <2>13
<1> QED BY <1>2, <1>3, <1>4

\* StartServer: fresh ends, a fresh Persister, a new instance.
LEMMA ShStart ==
  ASSUME Shard!ShardHarnessAssumption, ShInv, NEW s \in Shard!Shards, Shard!StartServer(s)
  PROVE  ShInv'
<1> USE DEF ShInv
<1> DEFINE g == gen[s] + 1
           new == Shard!StartEnds(s, g)
<1>1. /\ UNCHANGED <<servers, reliable, netDone, netLoop, pc, end, srv, lossy, handler, killed, clerks, joined, late>>
      /\ gen' = [gen EXCEPT ![s] = g] /\ ends' = ends \cup new /\ enabled' = enabled \cup new
      /\ connections' = [e \in Shard!AllEnds |-> IF e \in new THEN e[3] ELSE connections[e]]
      /\ Shard!Copy(s) /\ pers' = [pers EXCEPT ![<<s, g>>] = saved'[s]]
      /\ running' = [running EXCEPT ![s] = g] /\ tester' = [op |-> "serve", s |-> s]
      /\ tester.op = "idle" /\ running[s] = 0 /\ g <= MaxShard
  BY DEF Shard!StartServer, Shard!OpenEnds, Shard!NewEnds, Shard!Give, Shard!inFlight, Shard!Idle
<1>2. gen[s] \in Shard!Gens /\ servers[s] = Nil /\ Shard!Shards \subseteq Shard!Names /\ s \in Shard!Names
  BY <1>1, ShNumbers DEF ShTypes, ShRegistered
<1>3. /\ g \in Shard!Gens /\ g \in 0 .. MaxShard /\ g # 0 /\ gen[s] \in Nat /\ gen[s] < g
      /\ \A h \in Shard!Gens : h \in Nat
  BY <1>1, <1>2, ShNumbers DEF Shard!Gens
<1>4. new \subseteq Shard!AllEnds /\ (\A e \in new : e[3] \in Shard!Names)
  BY <1>3, ShEnds
<1>5. <<s, g>> \in Shard!Instances
  BY <1>2, <1>3 DEF Shard!Instances
<1>6. /\ \A e \in new : e[1] # "made" /\ e[2] = <<s, g>>
      /\ Shard!PeerEnds(s, g) \subseteq new
  BY ShPeerEnds DEF Shard!StartEnds
<1> HIDE DEF g, new
<1>7. /\ disks' \in [Shard!Names -> Seq(SUBSET Calls)] /\ saved' \in [Shard!Names -> Nat]
      /\ \A j \in Shard!Names : j # s => disks'[j] = disks[j] /\ saved'[j] = saved[j]
      /\ \A j \in Shard!Names : \A k \in 1 .. Len(disks[j]) : disks'[j][k] = disks[j][k]
      /\ \A j \in Shard!Names : Shard!Disk(j)' = Shard!Disk(j)
      /\ \A j \in Shard!Names : saved'[j] \in 1 .. Len(disks'[j]) /\ saved[j] <= saved'[j]
      /\ saved[s] < saved'[s]
  BY <1>1, <1>2, ShCopied
<1>8. /\ gen' \in [Shard!Shards -> Shard!Gens] /\ gen'[s] = g /\ \A r \in Shard!Shards : r # s => gen'[r] = gen[r]
  BY <1>1, <1>3 DEF ShTypes
<1>9. /\ running' \in [Shard!Shards -> 0 .. MaxShard] /\ running'[s] = g
      /\ \A r \in Shard!Shards : r # s => running'[r] = running[r]
  BY <1>1, <1>3 DEF ShTypes
<1>10. /\ pers' \in [Shard!Instances -> Nat] /\ pers'[<<s, g>>] = saved'[s]
       /\ \A x \in Shard!Instances : x # <<s, g>> => pers'[x] = pers[x]
  <2>1. saved'[s] \in Nat
    BY <1>2, <1>7
  <2> QED BY <1>1, <1>5, <2>1 DEF ShTypes
<1>11. tester'.op = "serve" /\ tester'.s = s /\ (\A r : ~ShDown(r)) /\ (\A r : ~ShDown(r)')
  BY <1>1 DEF ShDown
<1>12. ShTypes'
  <2>1. connections' \in [Shard!AllEnds -> Shard!Names \cup {Nil}]
    BY <1>1, <1>4 DEF ShTypes, Shard!RpcTypeOK
  <2>2. Shard!RpcTypeOK'
    BY <1>1, <1>4, <2>1 DEF ShTypes, Shard!RpcTypeOK
  <2>3. tester' \in [op : ShOps, s : Shard!Shards \cup {Nil}] /\ tester'.s \in Shard!Shards
    BY <1>1 DEF ShOps
  <2> QED BY <1>1, <1>7, <1>8, <1>9, <1>10, <2>2, <2>3 DEF ShTypes
<1>13. ShWired'
  BY <1>1, <1>4 DEF ShWired
<1>14. \A n \in Shard!Names, h \in Shard!Gens :
         /\ pers[<<n, h>>] \in Nat /\ saved[n] \in Nat /\ saved'[n] \in Nat
         /\ pers[<<n, h>>] <= saved[n] /\ saved[n] <= saved'[n]
         /\ pers'[<<n, h>>] = IF n = s /\ h = g THEN saved'[s] ELSE pers[<<n, h>>]
  <2> SUFFICES ASSUME NEW n \in Shard!Names, NEW h \in Shard!Gens
               PROVE  /\ pers[<<n, h>>] \in Nat /\ saved[n] \in Nat /\ saved'[n] \in Nat
                      /\ pers[<<n, h>>] <= saved[n] /\ saved[n] <= saved'[n]
                      /\ pers'[<<n, h>>] = IF n = s /\ h = g THEN saved'[s] ELSE pers[<<n, h>>]
    OBVIOUS
  <2>1. <<n, h>> \in Shard!Instances
    BY DEF Shard!Instances
  <2>2. pers[<<n, h>>] \in Nat /\ saved[n] \in Nat /\ saved'[n] \in Nat
    BY <1>7, <2>1 DEF ShTypes
  <2>3. pers[<<n, h>>] <= saved[n] /\ saved[n] <= saved'[n]
    BY <1>7 DEF ShGiven
  <2>4. pers'[<<n, h>>] = IF n = s /\ h = g THEN saved'[s] ELSE pers[<<n, h>>]
    BY <1>10, <2>1
  <2> QED BY <2>2, <2>3, <2>4
<1>15. pers[<<s, g>>] = 0 /\ \A h \in Shard!Gens : h > g => pers[<<s, h>>] = 0
  <2>1. \A h \in Shard!Gens : h > g => h > gen[s]
    BY <1>3
  <2>2. g > gen[s]
    BY <1>3
  <2> QED BY <1>3, <2>1, <2>2 DEF ShGiven
<1>16. ShGiven'
  <2>1. ASSUME NEW n \in Shard!Names, NEW h \in Shard!Gens PROVE pers'[<<n, h>>] <= saved'[n]
    BY <1>14
  <2>2. ASSUME NEW r \in Shard!Shards, NEW h \in Shard!Gens, h > gen'[r] PROVE pers'[<<r, h>>] = 0
    <3>0. r \in Shard!Names
      BY <1>2
    <3>1. CASE r # s
      <4>1. h > gen[r]
        BY <1>8, <2>2, <3>1
      <4>2. pers[<<r, h>>] = 0
        BY <4>1 DEF ShGiven
      <4> QED BY <1>14, <3>0, <3>1, <4>2
    <3>2. CASE r = s
      <4>1. h > g /\ h # g
        BY <1>3, <1>8, <2>2, <3>2
      <4> QED BY <1>14, <1>15, <3>0, <3>2, <4>1
    <3> QED BY <3>1, <3>2
  <2>3. ASSUME NEW n \in Shard!Names, NEW a \in Shard!Gens, NEW b \in Shard!Gens, a < b, pers'[<<n, b>>] # 0
        PROVE  pers'[<<n, a>>] < pers'[<<n, b>>]
    <3>1. CASE n = s /\ b = g
      <4>1. a # g
        BY <1>3, <2>3, <3>1
      <4>2. pers'[<<n, a>>] = pers[<<n, a>>] /\ pers'[<<n, b>>] = saved'[s]
        BY <1>14, <3>1, <4>1
      <4>3. pers[<<n, a>>] <= saved[s] /\ saved[s] < saved'[s] /\ pers[<<n, a>>] \in Nat
            /\ saved[s] \in Nat /\ saved'[s] \in Nat
        BY <1>7, <1>14, <3>1
      <4> QED BY <4>2, <4>3
    <3>2. CASE n = s /\ a = g
      <4>1. b > g /\ b # g
        BY <1>3, <2>3, <3>2
      <4>2. pers'[<<n, b>>] = 0
        BY <1>14, <1>15, <3>2, <4>1
      <4> QED BY <2>3, <4>2
    <3>3. CASE ~(n = s /\ b = g) /\ ~(n = s /\ a = g)
      <4>1. pers'[<<n, a>>] = pers[<<n, a>>] /\ pers'[<<n, b>>] = pers[<<n, b>>]
        BY <1>14, <3>3
      <4> QED BY <2>3, <4>1 DEF ShGiven
    <3> QED BY <3>1, <3>2, <3>3
  <2> QED BY <1>7, <2>1, <2>2, <2>3 DEF ShGiven
<1>17. ShRegistered'
  <2>1. ASSUME NEW r \in Shard!Shards, r # s
        PROVE  /\ running'[r] \in {0, gen'[r]}
               /\ running'[r] = 0 => servers'[r] = Nil
               /\ servers'[r] # Nil => servers'[r] = <<r, gen'[r]>> /\ pers'[<<r, gen'[r]>>] = saved'[r]
               /\ running'[r] # 0 => servers'[r] = <<r, gen'[r]>>
    <3>1. r \in Shard!Names /\ gen[r] \in Shard!Gens
      BY <1>2 DEF ShTypes
    <3>2. running'[r] = running[r] /\ servers'[r] = servers[r] /\ gen'[r] = gen[r] /\ saved'[r] = saved[r]
      BY <1>1, <1>7, <1>8, <1>9, <2>1, <3>1
    <3>3. pers'[<<r, gen[r]>>] = pers[<<r, gen[r]>>]
      BY <1>14, <2>1, <3>1
    <3> QED BY <1>1, <1>11, <3>2, <3>3 DEF ShRegistered
  <2>2. running'[s] = gen'[s] /\ running'[s] # 0 /\ servers'[s] = Nil /\ pers'[<<s, gen'[s]>>] = saved'[s]
    BY <1>1, <1>2, <1>3, <1>8, <1>9, <1>10
  <2>3. ASSUME NEW n \in Shard!Names \ Shard!Shards PROVE servers'[n] = <<n, 1>> /\ pers'[<<n, 1>>] = saved'[n]
    <3>1. n # s /\ n \in Shard!Names /\ 1 \in Shard!Gens
      BY ShNumbers
    <3>2. pers'[<<n, 1>>] = pers[<<n, 1>>] /\ saved'[n] = saved[n] /\ servers'[n] = servers[n]
      BY <1>1, <1>7, <1>14, <3>1
    <3> QED BY <3>2 DEF ShRegistered
  <2> QED BY <1>11, <2>1, <2>2, <2>3 DEF ShRegistered
<1>18. ShCalls'
  <2>1. ASSUME NEW x \in Shard!Instances, pers[x] # 0 PROVE pers'[x] = pers[x]
    BY <1>10, <1>15, <2>1
  <2> QED BY <1>1, <1>7, <2>1, ShCallsFrame
<1>19. ShSilent'
  <2>1. ASSUME NEW e \in enabled', e[1] # "made", e[2] \in Shard!Shards \X Shard!Gens
        PROVE  e[2][2] = gen'[e[2][1]] /\ running'[e[2][1]] # 0
    <3>1. CASE e \in new
      BY <1>3, <1>6, <1>8, <1>9, <3>1
    <3>2. CASE e \in enabled
      <4>1. e[2][1] \in Shard!Shards /\ e[2][2] = gen[e[2][1]] /\ running[e[2][1]] # 0
        BY <2>1, <3>2 DEF ShSilent
      <4>2. e[2][1] # s
        BY <1>1, <4>1
      <4> QED BY <1>8, <1>9, <4>1, <4>2
    <3> QED BY <1>1, <3>1, <3>2
  <2>2. ASSUME NEW r \in Shard!Shards, running'[r] # 0 PROVE Shard!PeerEnds(r, gen'[r]) \subseteq enabled'
    <3>1. CASE r = s
      BY <1>1, <1>6, <1>8, <3>1
    <3>2. CASE r # s
      <4>1. running[r] # 0 /\ gen'[r] = gen[r]
        BY <1>8, <1>9, <2>2, <3>2
      <4>2. Shard!PeerEnds(r, gen[r]) \subseteq enabled
        BY <1>11, <4>1 DEF ShSilent
      <4> QED BY <1>1, <4>1, <4>2
    <3> QED BY <3>1, <3>2
  <2>3. \A r : Shard!PeerEnds(r, gen[r])' = Shard!PeerEnds(r, gen'[r])
    BY DEF Shard!PeerEnds, Shard!Peers
  <2> QED BY <1>11, <2>1, <2>2, <2>3 DEF ShSilent
<1>20. ShKilled'
  <2>1. ASSUME NEW x \in killed PROVE x[2] <= gen'[x[1]] /\ (x[2] = gen'[x[1]] => running'[x[1]] = 0)
    <3>1. x[1] \in Shard!Shards /\ x[2] \in Nat /\ x[2] <= gen[x[1]] /\ (x[2] = gen[x[1]] => running[x[1]] = 0)
      BY <1>3 DEF ShKilled, ShTypes
    <3>2. CASE x[1] = s
      <4>1. x[2] < g /\ x[2] <= g
        BY <1>3, <3>1, <3>2
      <4> QED BY <1>3, <1>8, <3>1, <3>2, <4>1
    <3>3. CASE x[1] # s
      BY <1>8, <1>9, <3>1, <3>3
    <3> QED BY <3>2, <3>3
  <2> QED BY <1>1, <2>1 DEF ShKilled
<1>21. ShLate'
  BY <1>1 DEF ShLate
<1> QED BY <1>12, <1>13, <1>16, <1>17, <1>18, <1>19, <1>20, <1>21

\* The new instance is registered.
LEMMA ShServe ==
  ASSUME Shard!ShardHarnessAssumption, ShInv, Shard!StartServe
  PROVE  ShInv'
<1> USE DEF ShInv
<1> DEFINE s == tester.s
<1>1. /\ UNCHANGED <<ends, enabled, connections, reliable, netDone, netLoop, pc, end, srv, lossy, handler,
                     gen, running, killed, disks, saved, pers, clerks, joined, late>>
      /\ servers' = [servers EXCEPT ![s] = <<s, gen[s]>>]
      /\ tester' = [op |-> "idle", s |-> Nil] /\ tester.op = "serve" /\ s \in Shard!Shards
  BY DEF Shard!StartServe, Shard!AddServer, Shard!callVars, Shard!harnessVars, Shard!Idle, ShTypes
<1>2. tester'.op = "idle" /\ tester' \in [op : ShOps, s : Shard!Shards \cup {Nil}]
  BY <1>1 DEF ShOps
<1>3. (\A r : ~ShDown(r)') /\ (\A r : ~ShDown(r)) /\ s \in Shard!Names /\ Shard!Shards \subseteq Shard!Names
  BY <1>1, <1>2, ShNumbers DEF ShDown
<1>4. running[s] # 0 /\ pers[<<s, gen[s]>>] = saved[s]
  BY <1>1 DEF ShRegistered
<1>5. \A r \in Shard!Shards : r # s => ~(tester.op = "serve" /\ tester.s = r)
  OBVIOUS
<1> HIDE DEF s
<1>6. /\ servers' \in [Shard!Names -> Shard!Instances \cup {Nil}] /\ servers'[s] = <<s, gen[s]>>
      /\ \A n \in Shard!Names : n # s => servers'[n] = servers[n]
  BY <1>1, <1>3 DEF ShTypes, Shard!RpcTypeOK, Shard!Instances
<1>7. ShTypes'
  <2>1. Shard!RpcTypeOK'
    BY <1>1, <1>6 DEF ShTypes, Shard!RpcTypeOK
  <2> QED BY <1>1, <1>2, <2>1 DEF ShTypes
<1>8. ShWired' /\ ShGiven' /\ ShKilled' /\ ShLate'
  BY <1>1 DEF ShWired, ShGiven, ShKilled, ShLate
<1>9. ShRegistered'
  <2>1. ASSUME NEW r \in Shard!Shards, r # s
        PROVE  /\ running[r] \in {0, gen[r]}
               /\ running[r] = 0 => servers'[r] = Nil
               /\ servers'[r] # Nil => servers'[r] = <<r, gen[r]>> /\ pers[<<r, gen[r]>>] = saved[r]
               /\ running[r] # 0 => servers'[r] = <<r, gen[r]>>
    <3>1. servers'[r] = servers[r]
      BY <1>3, <1>6, <2>1
    <3> QED BY <1>3, <1>5, <2>1, <3>1 DEF ShRegistered
  <2>2. running[s] \in {0, gen[s]}
    BY <1>1 DEF ShRegistered
  <2>3. \A n \in Shard!Names \ Shard!Shards : servers'[n] = <<n, 1>> /\ pers[<<n, 1>>] = saved[n]
    BY <1>1, <1>6 DEF ShRegistered
  <2> QED BY <1>1, <1>2, <1>4, <1>6, <2>1, <2>2, <2>3 DEF ShRegistered
<1>10. ShCalls'
  BY <1>1 DEF ShCalls, ShCall, ShServed, Shard!Disk
<1>11. ShSilent'
  BY <1>1, <1>3 DEF ShSilent
<1> QED BY <1>7, <1>8, <1>9, <1>10, <1>11

\* Every step keeps the invariant.
LEMMA ShNext == ASSUME Shard!ShardHarnessAssumption, ShInv, [Shard!Next]_Shard!vars PROVE ShInv'
<1>1. CASE UNCHANGED Shard!vars \/ (Shard!NetExit /\ UNCHANGED <<Shard!harnessVars, tester, late>>) \/ Shard!CleanupAll
  <2>1. /\ UNCHANGED <<ends, enabled, connections, servers, reliable, pc, end, srv, lossy, handler,
                       gen, running, killed, disks, saved, pers, clerks, joined, tester, late>>
        /\ netDone' \in {netDone, TRUE} /\ netLoop' \in {netLoop, FALSE}
    <3>1. CASE UNCHANGED Shard!vars
      BY <3>1 DEF Shard!vars, Shard!network, Shard!inFlight, Shard!harnessVars
    <3>2. CASE Shard!NetExit /\ UNCHANGED <<Shard!harnessVars, tester, late>>
      BY <3>2 DEF Shard!NetExit, Shard!callVars, Shard!harnessVars
    <3>3. CASE Shard!CleanupAll
      BY <3>3 DEF Shard!CleanupAll, Shard!Cleanup, Shard!callVars, Shard!harnessVars
    <3> QED BY <1>1, <3>1, <3>2, <3>3
  <2>2. /\ netDone' \in BOOLEAN /\ netLoop' \in BOOLEAN /\ clerks' \subseteq Clients /\ joined' \subseteq Gids
    BY <2>1 DEF ShInv, ShTypes, Shard!RpcTypeOK
  <2> QED BY <2>1, <2>2, ShFrame
<1>2. ASSUME NEW c \in Calls, (\E e \in Shard!AllEnds : Shard!MakeCall(c, e)) \/ Shard!Network(c) PROVE ShInv'
  BY <1>2, ShRpc
<1>3. ASSUME NEW c \in Calls, Shard!Handle(c) PROVE ShInv'
  BY <1>3, ShHandled
<1>4. CASE \/ \E k \in Clients : Shard!MakeClient(k) \/ Shard!DeleteClient(k)
           \/ \E x \in (Shard!Shards \X Shard!Gens) \cup Shard!ClerkIds, t \in Shard!Shards : Shard!MakeEndTo(x, t)
           \/ \E gis \in SUBSET Gids : Shard!Joinm(gis) \/ Shard!Leavem(gis)
  BY <1>4, ShClients
<1>5. ASSUME NEW s \in Shard!Shards, Shard!ShutdownDisable(s) PROVE ShInv'
  BY <1>5, ShShutdownDisable
<1>6. CASE Shard!ShutdownDelete \/ Shard!ShutdownCopy \/ Shard!ShutdownKill
  BY <1>6, ShShutdown
<1>7. ASSUME NEW s \in Shard!Shards, Shard!StartServer(s) PROVE ShInv'
  BY <1>7, ShStart
<1>8. CASE Shard!StartServe
  BY <1>8, ShServe
<1> QED BY <1>1, <1>2, <1>3, <1>4, <1>5, <1>6, <1>7, <1>8 DEF Shard!Next, Shard!Tester1

\* The inductive invariant of ShardHarness.
LEMMA ShInvariant == ASSUME Shard!ShardHarnessAssumption PROVE Shard!Spec => []ShInv
<1>1. Shard!Init => ShInv
  BY ShInitInv
<1>2. ShInv /\ [Shard!Next]_Shard!vars => ShInv'
  BY ShNext
<1> QED BY <1>1, <1>2, PTL DEF Shard!Spec

\* ShardHarness and the network under it stay in their types, for any number of groups, servers,
\* controllers, clerks, instances and calls.
THEOREM ShTypeOK == ASSUME Shard!ShardHarnessAssumption PROVE Shard!Spec => []Shard!TypeOK
<1>1. ASSUME ShInv PROVE Shard!TypeOK
  <2>1. ASSUME NEW x \in Shard!Instances PROVE pers[x] <= saved[x[1]] /\ saved[x[1]] <= Len(disks[x[1]])
    <3>1. x = <<x[1], x[2]>> /\ x[1] \in Shard!Names /\ x[2] \in Shard!Gens
      BY DEF Shard!Instances
    <3>2. saved[x[1]] \in 1 .. Len(disks[x[1]]) /\ pers[<<x[1], x[2]>>] <= saved[x[1]]
      BY <1>1, <3>1 DEF ShInv, ShGiven
    <3>3. Len(disks[x[1]]) \in Nat
      BY <1>1, <3>1 DEF ShInv, ShTypes
    <3> QED BY <3>1, <3>2, <3>3
  <2>2. killed \subseteq Shard!Instances
    BY <1>1, ShNumbers DEF ShInv, ShTypes
  <2> QED BY <1>1, <2>1, <2>2 DEF ShInv, ShTypes, Shard!TypeOK
<1>2. ShInv => Shard!TypeOK
  BY <1>1
<1> QED BY <1>2, ShInvariant, PTL

\* A call that returned true is in the Persister that StartServer will give the next instance,
\* although servers and clerks call through ends that make_end made and nobody ever disables.
THEOREM ShAckedSurvives == ASSUME Shard!ShardHarnessAssumption PROVE Shard!Spec => []Shard!AckedSurvives
<1>1. ShInv => Shard!AckedSurvives
  BY DEF ShInv, ShCalls, ShCall, Shard!AckedSurvives
<1> QED BY <1>1, ShInvariant, PTL

\* No two instances of a server have one Persister: StartServer copies gg.saved for each, so that
\* a killed instance that still saves reaches none that a later one reads.
THEOREM ShPersistersApart == ASSUME Shard!ShardHarnessAssumption PROVE Shard!Spec => []Shard!PersistersApart
<1>1. ASSUME ShInv PROVE Shard!PersistersApart
  <2> SUFFICES ASSUME NEW x \in Shard!Instances, NEW y \in Shard!Instances, x[1] = y[1], x # y, pers[x] # 0
               PROVE  pers[x] # pers[y]
    BY DEF Shard!PersistersApart
  <2>1. /\ x = <<x[1], x[2]>> /\ y = <<x[1], y[2]>> /\ x[1] \in Shard!Names
        /\ x[2] \in Shard!Gens /\ y[2] \in Shard!Gens /\ x[2] # y[2]
    BY DEF Shard!Instances
  <2>2. x[2] < y[2] \/ y[2] < x[2]
    BY <2>1 DEF Shard!Gens
  <2>3. pers[x] \in Nat /\ pers[y] \in Nat
    BY <1>1 DEF ShInv, ShTypes
  <2>4. \A n \in Shard!Names : \A g, h \in Shard!Gens : g < h /\ pers[<<n, h>>] # 0 => pers[<<n, g>>] < pers[<<n, h>>]
    BY <1>1 DEF ShInv, ShGiven
  <2>5. CASE x[2] < y[2]
    <3>1. pers[y] # 0 => pers[x] < pers[y]
      BY <2>1, <2>4, <2>5
    <3> QED BY <2>3, <3>1
  <2>6. CASE y[2] < x[2]
    <3>1. pers[y] < pers[x]
      BY <2>1, <2>4, <2>6
    <3> QED BY <2>3, <3>1
  <2> QED BY <2>2, <2>5, <2>6
<1>2. ShInv => Shard!PersistersApart
  BY <1>1
<1> QED BY <1>2, ShInvariant, PTL

\* What an instance sends after ShutdownServer killed it over the ends of gg.endnames and
\* gg.mendnames reaches no handler: all of them are disabled, and none is enabled again.  Only an
\* end that the instance made by itself with make_end still leads anywhere.
THEOREM ShSilentOnStartEnds == ASSUME Shard!ShardHarnessAssumption PROVE Shard!Spec => []Shard!SilentOnStartEnds
<1>1. ShInv => Shard!SilentOnStartEnds
  BY DEF ShInv, ShLate, Shard!SilentOnStartEnds
<1> QED BY <1>1, ShInvariant, PTL

\* Whenever the tester is idle, the running servers of a group reach each other and are registered,
\* after any shutdowns and restarts and without a ConnectAll.
THEOREM ShGroupConnected == ASSUME Shard!ShardHarnessAssumption PROVE Shard!Spec => []Shard!GroupConnected
<1>1. ASSUME ShInv PROVE Shard!GroupConnected
  <2> SUFFICES ASSUME tester = Shard!Idle, NEW s \in Shard!Shards, NEW t \in Shard!Peers(s), running[s] # 0, running[t] # 0
               PROVE  <<"peer", <<s, running[s]>>, t>> \in enabled /\ servers[t] = <<t, running[t]>>
    BY DEF Shard!GroupConnected
  <2>1. t \in Shard!Shards /\ tester.op = "idle" /\ \A r : ~ShDown(r)
    BY DEF Shard!Peers, Shard!Idle, ShDown
  <2>2. running[s] = gen[s] /\ running[t] = gen[t] /\ servers[t] = <<t, gen[t]>>
    BY <1>1, <2>1 DEF ShInv, ShRegistered
  <2>3. Shard!PeerEnds(s, gen[s]) \subseteq enabled
    BY <1>1, <2>1 DEF ShInv, ShSilent
  <2>4. <<"peer", <<s, gen[s]>>, t>> \in Shard!PeerEnds(s, gen[s])
    BY DEF Shard!PeerEnds
  <2> QED BY <2>2, <2>3, <2>4
<1>2. ShInv => Shard!GroupConnected
  BY <1>1
<1> QED BY <1>2, ShInvariant, PTL

-----------------------------------------------------------------------------
(* ShardClerk.                                                             *)

ConfigType == [num : Nat, shards : [Clerk!Shards -> KvGroups \cup {NoGroup}], groups : SUBSET KvGroups]

ReplyType ==
  [err : {"", "OK", "ErrWrongLeader", "ErrWrongGroup", "WrongLeader"}, cfg : ConfigType, val : Nat]

ClerkType ==
  [pc : {"done", "look", "call", "reply", "query", "told"}, op : {"", "get", "append", "join", "leave", "move"},
   arg : KvGroups \cup {NoGroup}, n : 0 .. MaxOps, cfg : ConfigType, si : Clerk!Servers, reply : ReplyType,
   base : Nat, got : Nat]

ClerkTypes ==
  /\ ck \in [Clerk!Actors -> ClerkType]
  /\ configs \in Seq(ConfigType) /\ Len(configs) \in 1 .. MaxConfigs
  /\ leader \in [KvGroups \cup {Clerk!Ctrler} -> Clerk!Servers]
  /\ serving \in KvGroups \cup {NoGroup}
  /\ store \in Seq(Users \X Nat)

\* The configurations are numbered, and a clerk has one of them; the one it is told is
\* not older.
ConfInv ==
  /\ \A k \in 1 .. Len(configs) : configs[k].num = k - 1
  /\ \A c \in Clerk!Actors :
       /\ \E k \in 1 .. Len(configs) : ck[c].cfg = configs[k]
       /\ ck[c].pc = "told" /\ ck[c].reply.err = "OK" =>
            /\ \E k \in 1 .. Len(configs) : ck[c].reply.cfg = configs[k]
            /\ ck[c].cfg.num <= ck[c].reply.cfg.num

\* The bounds are natural numbers.
LEMMA ClerkNumbers ==
  ASSUME Clerk!ShardClerkAssumption
  PROVE  /\ Replicas \in Nat /\ Replicas > 0 /\ Clerk!Servers \subseteq Nat /\ 1 \in Clerk!Servers /\ Replicas \in Clerk!Servers
         /\ \A i \in Clerk!Servers : (i < Replicas => i + 1 \in Clerk!Servers) /\ (i % Replicas) + 1 \in Clerk!Servers
         /\ MaxOps \in Nat /\ \A n \in 0 .. MaxOps : n \in Nat /\ (n < MaxOps => n + 1 \in 0 .. MaxOps)
         /\ \A op \in Ops : op \in {"get", "append"}
         /\ Admin \notin Users /\ NoGroup \notin KvGroups
<1>1. Replicas \in Nat /\ Replicas > 0 /\ MaxOps \in Nat
  BY DEF Clerk!ShardClerkAssumption
<1>2. Clerk!Servers \subseteq Nat /\ 1 \in Clerk!Servers /\ Replicas \in Clerk!Servers
  BY <1>1 DEF Clerk!Servers
<1>3. ASSUME NEW i \in Clerk!Servers PROVE (i < Replicas => i + 1 \in Clerk!Servers) /\ (i % Replicas) + 1 \in Clerk!Servers
  <2>1. i % Replicas \in 0 .. Replicas - 1
    BY <1>1 DEF Clerk!Servers
  <2> QED BY <1>1, <2>1 DEF Clerk!Servers
<1>4. \A n \in 0 .. MaxOps : n \in Nat /\ (n < MaxOps => n + 1 \in 0 .. MaxOps)
  BY <1>1
<1>5. \A op \in Ops : op \in {"get", "append"}
  BY DEF Clerk!ShardClerkAssumption
<1>6. Admin \notin Users /\ NoGroup \notin KvGroups
  BY DEF Clerk!ShardClerkAssumption
<1> QED BY <1>1, <1>2, <1>3, <1>4, <1>5, <1>6

\* key2shard gives a shard.
LEMMA ClerkShard == ASSUME Clerk!ShardClerkAssumption PROVE Clerk!shard \in Clerk!Shards
BY DEF Clerk!ShardClerkAssumption, Clerk!shard, Clerk!Key2Shard, Clerk!Shards

\* The configurations, those that may follow too, and the empty reply have their types.
LEMMA ClerkConfigTypes ==
  ASSUME Clerk!ShardClerkAssumption, ClerkTypes
  PROVE  /\ Clerk!Config0 \in ConfigType /\ Clerk!Latest \in ConfigType /\ Clerk!NoReply \in ReplyType
         /\ \A op \in {"join", "leave", "move"}, g \in KvGroups : Clerk!NextConfig(op, g) \subseteq ConfigType
         /\ Len(configs) \in Nat \ {0}
<1>1. Clerk!Config0 \in ConfigType
  BY DEF Clerk!Config0, ConfigType
<1>2. Clerk!NoReply \in ReplyType
  BY <1>1 DEF Clerk!NoReply, ReplyType
<1>3. Len(configs) \in Nat \ {0} /\ Clerk!Latest \in ConfigType
  BY DEF ClerkTypes, Clerk!Latest, Clerk!ShardClerkAssumption
<1>4. ASSUME NEW op \in {"join", "leave", "move"}, NEW g \in KvGroups
      PROVE  Clerk!NextConfig(op, g) \subseteq ConfigType
  <2> DEFINE gs == CASE op = "join" -> Clerk!Latest.groups \cup {g}
              [] op = "leave" -> Clerk!Latest.groups \ {g}
              [] op = "move" -> Clerk!Latest.groups
  <2>1. gs \in SUBSET KvGroups
    BY <1>3, Zenon DEF ConfigType
  <2> HIDE DEF gs
  <2>2. Clerk!Assign(gs) \subseteq [Clerk!Shards -> KvGroups \cup {NoGroup}]
    BY <2>1 DEF Clerk!Assign
  <2>3. Clerk!NextConfig(op, g) = {[num |-> Len(configs), shards |-> a, groups |-> gs] : a \in Clerk!Assign(gs)}
    BY DEF Clerk!NextConfig, gs
  <2> QED BY <1>3, <2>1, <2>2, <2>3 DEF ConfigType
<1> QED BY <1>1, <1>2, <1>3, <1>4

\* The types hold in the initial states.
LEMMA ClerkInitTypes == ASSUME Clerk!ShardClerkAssumption, Clerk!Init PROVE ClerkTypes /\ ConfInv
<1>1. Clerk!Config0 \in ConfigType
  BY DEF Clerk!Config0, ConfigType
<1>2. Clerk!NoReply \in ReplyType
  BY <1>1 DEF Clerk!NoReply, ReplyType
<1>3. 1 \in Clerk!Servers /\ Replicas \in Clerk!Servers /\ 0 \in 0 .. MaxOps /\ 1 \in 1 .. MaxConfigs
  BY DEF Clerk!Servers, Clerk!ShardClerkAssumption
<1>4. ck \in [Clerk!Actors -> ClerkType]
  BY <1>1, <1>2, <1>3 DEF Clerk!Init, ClerkType
<1>5. configs = <<Clerk!Config0>> /\ Len(configs) = 1 /\ configs \in Seq(ConfigType)
  <2>1. configs = <<Clerk!Config0>>
    BY DEF Clerk!Init
  <2>2. Len(<<Clerk!Config0>>) = 1 /\ <<Clerk!Config0>> \in Seq(ConfigType)
    BY <1>1
  <2> QED BY <2>1, <2>2
<1>6. ClerkTypes
  <2>1. /\ leader = [g \in KvGroups \cup {Clerk!Ctrler} |-> Replicas]
        /\ serving = NoGroup /\ store = <<>>
    BY DEF Clerk!Init
  <2> QED BY <1>3, <1>4, <1>5, <2>1 DEF ClerkTypes
<1>7. \A c \in Clerk!Actors : ck[c].cfg = Clerk!Config0 /\ ck[c].pc = "done"
  BY DEF Clerk!Init
<1>8. configs[1] = Clerk!Config0 /\ Clerk!Config0.num = 0
  BY <1>5 DEF Clerk!Config0
<1> QED BY <1>5, <1>6, <1>7, <1>8 DEF ConfInv

\* What a step makes of one clerk's record.
LEMMA ClerkRecords ==
  ASSUME Clerk!ShardClerkAssumption, ClerkTypes, NEW c \in Clerk!Actors
  PROVE  LET k == ck[c] IN
         /\ k \in ClerkType
         /\ Clerk!NextServer([k EXCEPT !.reply = Clerk!NoReply]) \in ClerkType
         /\ Clerk!NextCtrler(k) \in ClerkType
         /\ Clerk!AfterReply(k) \in ClerkType
         /\ Clerk!AfterAsk(c, k) \in ClerkType
<1> DEFINE k == ck[c]
<1>1. k \in ClerkType
  BY DEF ClerkTypes
<1>2. Clerk!NoReply \in ReplyType
  BY ClerkConfigTypes
<1>3. k.si \in Clerk!Servers /\ (k.si < Replicas => k.si + 1 \in Clerk!Servers) /\ (k.si % Replicas) + 1 \in Clerk!Servers /\ 1 \in Clerk!Servers
  <2>1. k.si \in Clerk!Servers
    BY <1>1 DEF ClerkType
  <2> QED BY <2>1, ClerkNumbers
<1> HIDE DEF k
<1>4. [k EXCEPT !.reply = Clerk!NoReply] \in ClerkType
  BY <1>1, <1>2 DEF ClerkType
<1>5. Clerk!NextServer([k EXCEPT !.reply = Clerk!NoReply]) \in ClerkType
  BY <1>1, <1>3, <1>4 DEF ClerkType, Clerk!NextServer
<1>6. Clerk!NextCtrler(k) \in ClerkType
  BY <1>1, <1>2, <1>3 DEF ClerkType, Clerk!NextCtrler
<1>7. Clerk!AfterReply(k) \in ClerkType
  <2>1. Clerk!Return(k, k.reply.val) \in ClerkType
    BY <1>1, <1>2 DEF ClerkType, Clerk!Return, ReplyType
  <2>2. [k EXCEPT !.pc = "query", !.si = 1, !.reply = Clerk!NoReply] \in ClerkType
    BY <1>1, <1>2, <1>3 DEF ClerkType
  <2> QED BY <1>5, <2>1, <2>2, Zenon DEF Clerk!AfterReply
<1>8. Clerk!AfterAsk(c, k) \in ClerkType
  <2>1. [k EXCEPT !.pc = "done", !.reply = Clerk!NoReply] \in ClerkType
    BY <1>1, <1>2 DEF ClerkType
  <2>2. [k EXCEPT !.pc = "look", !.cfg = k.reply.cfg, !.reply = Clerk!NoReply] \in ClerkType
    BY <1>1, <1>2 DEF ClerkType, ReplyType
  <2> QED BY <1>6, <2>1, <2>2 DEF Clerk!AfterAsk
<1> QED BY <1>1, <1>5, <1>6, <1>7, <1>8 DEF k

\* A request to the controller leaves the configurations, or adds the next one.
LEMMA CtrlStep ==
  ASSUME Clerk!ShardClerkAssumption, ClerkTypes, ConfInv, NEW m, NEW op, NEW g \in KvGroups \cup {NoGroup},
         op \in {"join", "leave", "move"} => g \in KvGroups, Clerk!CtrlHandle(m, op, g)
  PROVE  /\ configs' \in Seq(ConfigType) /\ Len(configs') \in 1 .. MaxConfigs
         /\ Len(configs) <= Len(configs')
         /\ \A k \in 1 .. Len(configs) : configs'[k] = configs[k]
         /\ \A k \in 1 .. Len(configs') : configs'[k].num = k - 1
<1>0. Len(configs) \in Nat /\ Len(configs) \in 1 .. MaxConfigs
  BY DEF ClerkTypes
<1>1. CASE configs' = configs
  BY <1>0, <1>1 DEF ClerkTypes, ConfInv
<1>2. CASE configs' # configs
  <2>1. op \in {"join", "leave", "move"} /\ Len(configs) < MaxConfigs
        /\ \E cfg \in Clerk!NextConfig(op, g) : configs' = Append(configs, cfg)
    BY <1>2 DEF Clerk!CtrlHandle
  <2>2. PICK cfg \in Clerk!NextConfig(op, g) : configs' = Append(configs, cfg)
    BY <2>1
  <2>3. cfg \in ConfigType
    BY <2>1, ClerkConfigTypes
  <2>4. cfg.num = Len(configs)
    BY DEF Clerk!NextConfig
  <2> QED BY <1>0, <2>1, <2>2, <2>3, <2>4 DEF ClerkTypes, ConfInv, Clerk!ShardClerkAssumption
<1> QED BY <1>1, <1>2


\* Only the tester's clerk changes the configuration, and it names a group.
ArgInv ==
  /\ ck[Admin].op \in {"", "join", "leave", "move"}
  /\ \A c \in Clerk!Actors : ck[c].op \in {"join", "leave", "move"} => c = Admin /\ ck[c].arg \in KvGroups
  /\ \A q \in floating : /\ q.arg \in KvGroups \cup {NoGroup}
                         /\ q.op \in {"join", "leave", "move"} => q.arg \in KvGroups
                         /\ q.op = "append" => q.id \in Users \X Nat

\* What a clerk asks for stays of its type.
LEMMA ArgKept ==
  ASSUME ClerkTypes, ArgInv, NEW c \in Clerk!Actors, NEW r, ck' = [ck EXCEPT ![c] = r],
         r.op = ck[c].op, r.arg = ck[c].arg
  PROVE  /\ ck'[Admin].op \in {"", "join", "leave", "move"}
         /\ \A d \in Clerk!Actors : ck'[d].op \in {"join", "leave", "move"} => d = Admin /\ ck'[d].arg \in KvGroups
<1>1. \A d \in Clerk!Actors : ck'[d].op = ck[d].op /\ ck'[d].arg = ck[d].arg
  BY DEF ClerkTypes
<1>2. Admin \in Clerk!Actors
  BY DEF Clerk!Actors
<1> QED BY <1>1, <1>2 DEF ArgInv

\* Every step keeps the types.
LEMMA ClerkTypesNext ==
  ASSUME Clerk!ShardClerkAssumption, ClerkTypes, ConfInv, ArgInv, [Clerk!Next]_Clerk!vars
  PROVE  ClerkTypes' /\ ArgInv'
<1>1. CASE \E c \in Users, op \in Ops : Clerk!Begin(c, op)
  <2>1. PICK c \in Users, op \in Ops : Clerk!Begin(c, op)
    BY <1>1
  <2>2. c \in Clerk!Actors /\ c # Admin /\ ck[c] \in ClerkType /\ Len(store) \in Nat
    BY ClerkNumbers DEF ClerkTypes, Clerk!Actors
  <2> DEFINE r == [ck[c] EXCEPT !.pc = "look", !.op = op, !.n = @ + 1, !.base = Len(store), !.got = 0]
  <2>3. ck' = [ck EXCEPT ![c] = r] /\ ck[c].n < MaxOps /\ UNCHANGED <<Clerk!service, floating>>
    BY <2>1 DEF Clerk!Begin, Clerk!Set
  <2>4. r \in ClerkType /\ r.op \notin {"join", "leave", "move"}
    <3>1. ck[c].n + 1 \in 0 .. MaxOps /\ op \in {"get", "append"}
      BY <2>2, <2>3, ClerkNumbers DEF ClerkType
    <3> QED BY <2>2, <3>1 DEF ClerkType
  <2> HIDE DEF r
  <2>5. ClerkTypes'
    BY <2>2, <2>3, <2>4 DEF ClerkTypes, Clerk!service
  <2>6. ArgInv'
    BY <2>2, <2>3, <2>4 DEF ClerkTypes, ArgInv, Clerk!Actors
  <2> QED BY <2>5, <2>6
<1>2. ASSUME NEW c \in Clerk!Actors, Clerk!Look(c) \/ Clerk!CallReturned(c) \/ Clerk!AskReturned(c) PROVE ClerkTypes' /\ ArgInv'
  <2>0. ck[c] \in ClerkType
    BY DEF ClerkTypes
  <2>1. \E r \in ClerkType : /\ ck' = [ck EXCEPT ![c] = r] /\ r.op = ck[c].op /\ r.arg = ck[c].arg
                             /\ UNCHANGED <<Clerk!service, floating>>
    <3>1. CASE Clerk!Look(c)
      <4> DEFINE r == [ck[c] EXCEPT !.pc = IF ck[c].cfg.shards[Clerk!shard] \in ck[c].cfg.groups THEN "call" ELSE "query",
                      !.si = 1]
      <4>1. r \in ClerkType /\ r.op = ck[c].op /\ r.arg = ck[c].arg
        BY <2>0, ClerkNumbers DEF ClerkType
      <4> QED BY <3>1, <4>1 DEF Clerk!Look, Clerk!Set
    <3>2. CASE Clerk!CallReturned(c)
      <4>1. Clerk!AfterReply(ck[c]) \in ClerkType
        BY ClerkRecords
      <4>2. Clerk!AfterReply(ck[c]).op = ck[c].op /\ Clerk!AfterReply(ck[c]).arg = ck[c].arg
        BY <2>0 DEF Clerk!AfterReply, Clerk!Return, Clerk!NextServer, ClerkType
      <4> QED BY <3>2, <4>1, <4>2 DEF Clerk!CallReturned, Clerk!Set
    <3>3. CASE Clerk!AskReturned(c)
      <4>1. Clerk!AfterAsk(c, ck[c]) \in ClerkType
        BY ClerkRecords
      <4>2. Clerk!AfterAsk(c, ck[c]).op = ck[c].op /\ Clerk!AfterAsk(c, ck[c]).arg = ck[c].arg
        BY <2>0 DEF Clerk!AfterAsk, Clerk!NextCtrler, ClerkType
      <4> QED BY <3>3, <4>1, <4>2 DEF Clerk!AskReturned, Clerk!Set
    <3> QED BY <1>2, <3>1, <3>2, <3>3
  <2>2. PICK r \in ClerkType : /\ ck' = [ck EXCEPT ![c] = r] /\ r.op = ck[c].op /\ r.arg = ck[c].arg
                             /\ UNCHANGED <<Clerk!service, floating>>
    BY <2>1
  <2>3. ClerkTypes'
    BY <2>2 DEF ClerkTypes, Clerk!service
  <2>4. ArgInv'
    <3>1. floating' = floating
      BY <2>2
    <3> QED BY <2>2, <3>1, ArgKept DEF ArgInv
  <2> QED BY <2>3, <2>4
<1>3. ASSUME NEW c \in Clerk!Actors, Clerk!CallFailed(c) \/ Clerk!AskFailed(c) PROVE ClerkTypes' /\ ArgInv'
  <2>0. ck[c] \in ClerkType
    BY DEF ClerkTypes
  <2>1. PICK to : floating' \in {floating, floating \cup {Clerk!Request(c, to)}}
    BY <1>3 DEF Clerk!CallFailed, Clerk!AskFailed, Clerk!Abandon
  <2>2. PICK r \in ClerkType : /\ ck' = [ck EXCEPT ![c] = r] /\ r.op = ck[c].op /\ r.arg = ck[c].arg
                               /\ UNCHANGED Clerk!service
    <3>1. Clerk!NextServer([ck[c] EXCEPT !.reply = Clerk!NoReply]) \in ClerkType /\ Clerk!NextCtrler(ck[c]) \in ClerkType
      BY ClerkRecords
    <3>2. /\ Clerk!NextServer([ck[c] EXCEPT !.reply = Clerk!NoReply]).op = ck[c].op
          /\ Clerk!NextServer([ck[c] EXCEPT !.reply = Clerk!NoReply]).arg = ck[c].arg
      BY <2>0 DEF Clerk!NextServer, ClerkType
    <3>3. Clerk!NextCtrler(ck[c]).op = ck[c].op /\ Clerk!NextCtrler(ck[c]).arg = ck[c].arg
      BY <2>0 DEF Clerk!NextCtrler, ClerkType
    <3> QED BY <1>3, <3>1, <3>2, <3>3 DEF Clerk!CallFailed, Clerk!AskFailed, Clerk!Set
  <2>3. ClerkTypes'
    BY <2>2 DEF ClerkTypes, Clerk!service
  <2>4. ArgInv'
    <3>1. Clerk!Request(c, to).arg = ck[c].arg /\ Clerk!Request(c, to).op = ck[c].op
      BY DEF Clerk!Request
    <3>2. ck[c].arg \in KvGroups \cup {NoGroup}
      BY <2>0 DEF ClerkType
    <3>3. ck[c].op = "append" => c \in Users /\ ck[c].n \in Nat
      <4>1. ck[c].n \in Nat
        BY <2>0, ClerkNumbers DEF ClerkType
      <4> QED BY <4>1 DEF ArgInv, Clerk!Actors
    <3>4. Clerk!Request(c, to).id = <<c, ck[c].n>>
      BY DEF Clerk!Request
    <3>5. \A q \in floating' : q \in floating \/ q = Clerk!Request(c, to)
      BY <2>1
    <3>6. \A q \in floating' : /\ q.arg \in KvGroups \cup {NoGroup}
                               /\ q.op \in {"join", "leave", "move"} => q.arg \in KvGroups
                               /\ q.op = "append" => q.id \in Users \X Nat
      <4>1. Clerk!Request(c, to).op = "append" => Clerk!Request(c, to).id \in Users \X Nat
        BY <3>1, <3>3, <3>4
      <4>2. /\ Clerk!Request(c, to).arg \in KvGroups \cup {NoGroup}
            /\ Clerk!Request(c, to).op \in {"join", "leave", "move"} => Clerk!Request(c, to).arg \in KvGroups
        BY <3>1, <3>2 DEF ArgInv
      <4> QED BY <3>5, <4>1, <4>2 DEF ArgInv
    <3>7. /\ ck'[Admin].op \in {"", "join", "leave", "move"}
          /\ \A d \in Clerk!Actors : ck'[d].op \in {"join", "leave", "move"} => d = Admin /\ ck'[d].arg \in KvGroups
      BY <2>2, ArgKept
    <3> QED BY <3>6, <3>7 DEF ArgInv
  <2> QED BY <2>3, <2>4
<1>4. ASSUME NEW c \in Clerk!Actors, Clerk!CallHandled(c) PROVE ClerkTypes' /\ ArgInv'
  <2>0. ck[c] \in ClerkType /\ Clerk!NoReply \in ReplyType /\ Len(store) \in Nat
    BY ClerkConfigTypes DEF ClerkTypes
  <2> DEFINE e == Clerk!KvErr(Clerk!Group(ck[c]), ck[c].si)
             r == [ck[c] EXCEPT !.pc = "reply", !.reply = [Clerk!NoReply EXCEPT !.err = e, !.val = Len(store)]]
  <2>1. e \in {"OK", "ErrWrongLeader", "ErrWrongGroup"}
    BY DEF Clerk!KvErr
  <2>2. ck' = [ck EXCEPT ![c] = r] /\ UNCHANGED <<configs, leader, elections, serving, floating>>
    BY <1>4 DEF Clerk!CallHandled, Clerk!Set
  <2> HIDE DEF e
  <2>3. [Clerk!NoReply EXCEPT !.err = e, !.val = Len(store)] \in ReplyType
    BY <2>0, <2>1 DEF ReplyType
  <2>4. r \in ClerkType /\ r.op = ck[c].op /\ r.arg = ck[c].arg
    BY <2>0, <2>3 DEF ClerkType
  <2> HIDE DEF r
  <2>5. store' \in Seq(Users \X Nat)
    <3> DEFINE x == <<c, ck[c].n>>
    <3>1. store' = store \/ (ck[c].op = "append" /\ store' = Append(store, x))
      BY <1>4 DEF Clerk!CallHandled, Clerk!KvHandle
    <3>2. ck[c].op = "append" => c \in Users
      BY DEF ArgInv, Clerk!Actors
    <3>3. ck[c].n \in Nat
      BY <2>0, ClerkNumbers DEF ClerkType
    <3>4. store \in Seq(Users \X Nat)
      BY DEF ClerkTypes
    <3>5. ck[c].op = "append" => x \in Users \X Nat
      BY <3>2, <3>3
    <3> HIDE DEF x
    <3> QED BY <3>1, <3>4, <3>5
  <2>6. ClerkTypes'
    BY <2>2, <2>4, <2>5 DEF ClerkTypes
  <2>7. ArgInv'
    BY <2>2, <2>4, ArgKept DEF ArgInv
  <2> QED BY <2>6, <2>7
<1>5. ASSUME NEW c \in Clerk!Actors, Clerk!AskHandled(c) PROVE ClerkTypes' /\ ArgInv'
  <2>0. ck[c] \in ClerkType /\ Clerk!NoReply \in ReplyType
    BY ClerkConfigTypes DEF ClerkTypes
  <2>1. configs' \in Seq(ConfigType) /\ Len(configs') \in 1 .. MaxConfigs
    <3>1. Clerk!CtrlHandle(ck[c].si, ck[c].op, ck[c].arg)
      BY <1>5 DEF Clerk!AskHandled
    <3>2. ck[c].arg \in KvGroups \cup {NoGroup} /\ (ck[c].op \in {"join", "leave", "move"} => ck[c].arg \in KvGroups)
      BY <2>0 DEF ArgInv, ClerkType
    <3> QED BY <3>1, <3>2, CtrlStep
  <2>2. configs'[Len(configs')] \in ConfigType
    BY <2>1 DEF Clerk!ShardClerkAssumption
  <2> DEFINE p == IF ck[c].si = leader[Clerk!Ctrler]
                  THEN [Clerk!NoReply EXCEPT !.err = "OK", !.cfg = configs'[Len(configs')]]
                  ELSE [Clerk!NoReply EXCEPT !.err = "WrongLeader"]
             r == [ck[c] EXCEPT !.pc = "told", !.reply = p]
  <2>3. ck' = [ck EXCEPT ![c] = r] /\ UNCHANGED <<leader, elections, serving, store, floating>>
    BY <1>5 DEF Clerk!AskHandled, Clerk!Set
  <2>4. p \in ReplyType
    BY <2>0, <2>2 DEF ReplyType
  <2> HIDE DEF p
  <2>5. r \in ClerkType /\ r.op = ck[c].op /\ r.arg = ck[c].arg
    BY <2>0, <2>4 DEF ClerkType
  <2> HIDE DEF r
  <2>6. ClerkTypes'
    BY <2>1, <2>3, <2>5 DEF ClerkTypes
  <2>7. ArgInv'
    BY <2>3, <2>5, ArgKept DEF ArgInv
  <2> QED BY <2>6, <2>7
<1>6. CASE \E op \in {"join", "leave", "move"}, g \in KvGroups : Clerk!AdminBegin(op, g)
  <2>1. PICK op \in {"join", "leave", "move"}, g \in KvGroups : Clerk!AdminBegin(op, g)
    BY <1>6
  <2>2. Admin \in Clerk!Actors /\ ck[Admin] \in ClerkType
    BY DEF ClerkTypes, Clerk!Actors
  <2> DEFINE r == [ck[Admin] EXCEPT !.pc = "query", !.op = op, !.arg = g, !.si = 1]
  <2>3. ck' = [ck EXCEPT ![Admin] = r] /\ UNCHANGED <<Clerk!service, floating>>
    BY <2>1 DEF Clerk!AdminBegin, Clerk!Set
  <2>4. r \in ClerkType /\ r.op \in {"join", "leave", "move"} /\ r.arg \in KvGroups
    BY <2>2, ClerkNumbers DEF ClerkType
  <2> HIDE DEF r
  <2>5. ClerkTypes'
    BY <2>2, <2>3, <2>4 DEF ClerkTypes, Clerk!service
  <2>6. ArgInv'
    BY <2>2, <2>3, <2>4 DEF ClerkTypes, ArgInv
  <2> QED BY <2>5, <2>6
<1>7. CASE Clerk!Migrate
  <2>1. Clerk!Latest \in ConfigType /\ Clerk!shard \in Clerk!Shards
    BY ClerkConfigTypes, ClerkShard
  <2>2. serving' \in KvGroups \cup {NoGroup} /\ UNCHANGED <<ck, configs, leader, elections, store, floating>>
    BY <1>7, <2>1 DEF Clerk!Migrate, ConfigType
  <2> QED BY <2>2 DEF ClerkTypes, ArgInv
<1>8. CASE \E g \in KvGroups \cup {Clerk!Ctrler} : Clerk!Elect(g)
  <2>1. UNCHANGED <<ck, configs, serving, store, floating>> /\ leader' \in [KvGroups \cup {Clerk!Ctrler} -> Clerk!Servers]
    BY <1>8 DEF Clerk!Elect, ClerkTypes
  <2> QED BY <2>1 DEF ClerkTypes, ArgInv
<1>9. CASE \E q \in floating : Clerk!LateHandle(q)
  <2>1. PICK q \in floating : Clerk!LateHandle(q)
    BY <1>9
  <2>2. UNCHANGED <<ck, leader, elections, serving>> /\ floating' \subseteq floating
    BY <2>1 DEF Clerk!LateHandle
  <2>3. ArgInv'
    BY <2>2 DEF ArgInv
  <2>4. CASE q.to = Clerk!Ctrler
    <3>1. Clerk!CtrlHandle(q.si, q.op, q.arg) /\ store' = store
      BY <2>1, <2>4 DEF Clerk!LateHandle
    <3>2. configs' \in Seq(ConfigType) /\ Len(configs') \in 1 .. MaxConfigs
      BY <3>1, CtrlStep DEF ArgInv
    <3> QED BY <2>2, <2>3, <3>1, <3>2 DEF ClerkTypes
  <2>5. CASE q.to # Clerk!Ctrler
    <3>1. Clerk!KvHandle(q.to, q.si, q.op, q.id) /\ configs' = configs
      BY <2>1, <2>5 DEF Clerk!LateHandle
    <3>2. store' \in Seq(Users \X Nat)
      <4>1. store' = store \/ (q.op = "append" /\ store' = Append(store, q.id))
        BY <3>1 DEF Clerk!KvHandle
      <4>2. store \in Seq(Users \X Nat) /\ (q.op = "append" => q.id \in Users \X Nat)
        BY DEF ClerkTypes, ArgInv
      <4> QED BY <4>1, <4>2
    <3> QED BY <2>2, <2>3, <3>1, <3>2 DEF ClerkTypes
  <2> QED BY <2>4, <2>5
<1>10. CASE UNCHANGED Clerk!vars
  BY <1>10 DEF Clerk!vars, ClerkTypes, ArgInv
<1> QED BY <1>1, <1>2, <1>3, <1>4, <1>5, <1>6, <1>7, <1>8, <1>9, <1>10 DEF Clerk!Next, Clerk!ClerkStep

\* What the loops change in a clerk's record, and what they keep.
Kept(k, r) == r.n = k.n /\ r.op = k.op /\ r.base = k.base

Retries(k, r) == Kept(k, r) /\ r.cfg = k.cfg /\ r.pc \in {"call", "query"}

Answered(k, r) ==
  /\ Kept(k, r) /\ r.cfg = k.cfg
  /\ r.pc \in {"call", "query"} \/ (r.pc = "done" /\ k.reply.err = "OK" /\ r.got = k.reply.val)

Told(c, k, r) ==
  /\ Kept(k, r)
  /\ \/ r.pc = "query" /\ r.cfg = k.cfg
     \/ r.pc = "done" /\ c = Admin /\ r.cfg = k.cfg
     \/ r.pc = "look" /\ k.reply.err = "OK" /\ r.cfg = k.reply.cfg

\* The fields of a clerk's record after each change of it.
LEMMA ClerkFields ==
  ASSUME Clerk!ShardClerkAssumption, NEW c \in Clerk!Actors, NEW k \in ClerkType
  PROVE  /\ Retries(k, Clerk!NextServer([k EXCEPT !.reply = Clerk!NoReply]))
         /\ Retries(k, Clerk!NextCtrler(k))
         /\ Answered(k, Clerk!AfterReply(k))
         /\ Told(c, k, Clerk!AfterAsk(c, k))
<1>2. Retries(k, Clerk!NextServer([k EXCEPT !.reply = Clerk!NoReply]))
  BY DEF ClerkType, Clerk!NextServer, Retries, Kept
<1>3. Retries(k, Clerk!NextCtrler(k)) /\ Clerk!NextCtrler(k).pc = "query"
  BY DEF ClerkType, Clerk!NextCtrler, Retries, Kept
<1>4. Answered(k, Clerk!AfterReply(k))
  <2>1. CASE k.reply.err = "OK"
    BY <2>1 DEF ClerkType, Clerk!AfterReply, Clerk!Return, Answered, Kept
  <2>2. CASE k.reply.err = "ErrWrongGroup"
    BY <2>2 DEF ClerkType, Clerk!AfterReply, Answered, Kept
  <2>3. CASE k.reply.err \notin {"OK", "ErrWrongGroup"}
    <3>1. Clerk!AfterReply(k) = Clerk!NextServer([k EXCEPT !.reply = Clerk!NoReply])
      BY <2>3, Zenon DEF Clerk!AfterReply
    <3> QED BY <1>2, <3>1 DEF Retries, Answered
  <2> QED BY <2>1, <2>2, <2>3
<1>5. Told(c, k, Clerk!AfterAsk(c, k))
  <2>1. CASE k.reply.err # "OK"
    BY <1>3, <2>1 DEF Clerk!AfterAsk, Retries, Told
  <2>2. CASE k.reply.err = "OK"
    BY <2>2 DEF ClerkType, Clerk!AfterAsk, Told, Kept
  <2> QED BY <2>1, <2>2
<1> QED BY <1>2, <1>3, <1>4, <1>5

\* One step of a clerk's loops, in the fields the invariants speak of.
Moved(c) ==
  LET k == ck[c]
      r == ck'[c]
  IN /\ \A d \in Clerk!Actors \ {c} : ck'[d] = ck[d]
     /\ r.n = k.n /\ r.op = k.op /\ r.base = k.base
     /\ r.cfg = k.cfg \/ (k.pc = "told" /\ k.reply.err = "OK" /\ r.cfg = k.reply.cfg)
     /\ r.pc = "told" => r.cfg = k.cfg /\ (r.reply.err = "OK" => r.reply.cfg = configs'[Len(configs')])
     /\ r.pc = "told" => Clerk!CtrlHandle(k.si, k.op, k.arg)
     /\ r.pc # "told" => configs' = configs
     /\ r.pc = "reply" => /\ Clerk!KvHandle(Clerk!Group(k), k.si, k.op, <<c, k.n>>)
                          /\ r.reply.err = Clerk!KvErr(Clerk!Group(k), k.si) /\ r.reply.val = Len(store)
     /\ r.pc # "reply" => store' = store
     /\ r.pc = "done" => c = Admin \/ (k.pc = "reply" /\ k.reply.err = "OK" /\ r.got = k.reply.val)
     /\ floating' = floating \/ ((c = Admin \/ k.op = "append") /\ \E to : floating' = floating \cup {Clerk!Request(c, to)})

\* What a step of one clerk may do to its place and its counters.
LEMMA ClerkMoves ==
  ASSUME Clerk!ShardClerkAssumption, ClerkTypes, NEW c \in Clerk!Actors, Clerk!ClerkStep(c)
  PROVE  Moved(c)
<1>0. ck[c] \in ClerkType /\ ck \in [Clerk!Actors -> ClerkType]
  BY DEF ClerkTypes
<1>1. CASE Clerk!Look(c)
  <2> DEFINE r == [ck[c] EXCEPT !.pc = IF ck[c].cfg.shards[Clerk!shard] \in ck[c].cfg.groups THEN "call" ELSE "query",
                      !.si = 1]
  <2>1. r.n = ck[c].n /\ r.op = ck[c].op /\ r.base = ck[c].base /\ r.cfg = ck[c].cfg /\ r.pc \in {"call", "query"}
    BY <1>0 DEF ClerkType
  <2>2. ck' = [ck EXCEPT ![c] = r] /\ UNCHANGED <<Clerk!service, floating>>
    BY <1>1 DEF Clerk!Look, Clerk!Set
  <2> HIDE DEF r
  <2>3. ck'[c] = r /\ \A d \in Clerk!Actors \ {c} : ck'[d] = ck[d]
    BY <1>0, <2>2
  <2> QED BY <2>1, <2>2, <2>3 DEF Moved, Retries, Answered, Told, Kept, Clerk!service
<1>2. CASE Clerk!CallHandled(c)
  <2> DEFINE p == [Clerk!NoReply EXCEPT !.err = Clerk!KvErr(Clerk!Group(ck[c]), ck[c].si), !.val = Len(store)]
             r == [ck[c] EXCEPT !.pc = "reply", !.reply = p]
  <2>1. p.err = Clerk!KvErr(Clerk!Group(ck[c]), ck[c].si) /\ p.val = Len(store)
    BY DEF Clerk!NoReply
  <2> HIDE DEF p
  <2>2. /\ r.n = ck[c].n /\ r.op = ck[c].op /\ r.base = ck[c].base /\ r.cfg = ck[c].cfg /\ r.pc = "reply"
        /\ r.reply = p
    BY <1>0 DEF ClerkType
  <2>3. /\ ck' = [ck EXCEPT ![c] = r] /\ Clerk!KvHandle(Clerk!Group(ck[c]), ck[c].si, ck[c].op, <<c, ck[c].n>>)
        /\ UNCHANGED <<configs, leader, elections, serving, floating>>
    BY <1>2 DEF Clerk!CallHandled, Clerk!Set, p
  <2> HIDE DEF r
  <2>4. ck'[c] = r /\ \A d \in Clerk!Actors \ {c} : ck'[d] = ck[d]
    BY <1>0, <2>3
  <2> QED BY <2>1, <2>2, <2>3, <2>4 DEF Moved
<1>3. CASE Clerk!CallReturned(c)
  <2> DEFINE r == Clerk!AfterReply(ck[c])
  <2>2. ck' = [ck EXCEPT ![c] = r] /\ ck[c].pc = "reply" /\ UNCHANGED <<Clerk!service, floating>>
    BY <1>3 DEF Clerk!CallReturned, Clerk!Set
  <2>1. Answered(ck[c], r)
    BY <1>0, ClerkFields
  <2> HIDE DEF r
  <2>3. ck'[c] = r /\ \A d \in Clerk!Actors \ {c} : ck'[d] = ck[d]
    BY <1>0, <2>2
  <2> QED BY <2>1, <2>2, <2>3 DEF Moved, Retries, Answered, Told, Kept, Clerk!service
<1>4. CASE Clerk!CallFailed(c)
  <2> DEFINE r == Clerk!NextServer([ck[c] EXCEPT !.reply = Clerk!NoReply])
  <2>2. /\ ck' = [ck EXCEPT ![c] = r] /\ UNCHANGED Clerk!service
        /\ floating' = floating \/ (ck[c].op = "append" /\ \E to : floating' = floating \cup {Clerk!Request(c, to)})
    BY <1>4 DEF Clerk!CallFailed, Clerk!Set, Clerk!Abandon
  <2>1. Retries(ck[c], r)
    BY <1>0, ClerkFields
  <2> HIDE DEF r
  <2>3. ck'[c] = r /\ \A d \in Clerk!Actors \ {c} : ck'[d] = ck[d]
    BY <1>0, <2>2
  <2> QED BY <2>1, <2>2, <2>3 DEF Moved, Retries, Answered, Told, Kept, Clerk!service
<1>5. CASE Clerk!AskHandled(c)
  <2> DEFINE p == IF ck[c].si = leader[Clerk!Ctrler]
                  THEN [Clerk!NoReply EXCEPT !.err = "OK", !.cfg = configs'[Len(configs')]]
                  ELSE [Clerk!NoReply EXCEPT !.err = "WrongLeader"]
             r == [ck[c] EXCEPT !.pc = "told", !.reply = p]
  <2>1. p.err = "OK" => p.cfg = configs'[Len(configs')]
    BY DEF Clerk!NoReply
  <2> HIDE DEF p
  <2>2. /\ r.n = ck[c].n /\ r.op = ck[c].op /\ r.base = ck[c].base /\ r.cfg = ck[c].cfg /\ r.pc = "told"
        /\ r.reply = p
    BY <1>0 DEF ClerkType
  <2>3. /\ ck' = [ck EXCEPT ![c] = r] /\ Clerk!CtrlHandle(ck[c].si, ck[c].op, ck[c].arg)
        /\ UNCHANGED <<leader, elections, serving, store, floating>>
    BY <1>5 DEF Clerk!AskHandled, Clerk!Set, p
  <2> HIDE DEF r
  <2>4. ck'[c] = r /\ \A d \in Clerk!Actors \ {c} : ck'[d] = ck[d]
    BY <1>0, <2>3
  <2> QED BY <2>1, <2>2, <2>3, <2>4 DEF Moved
<1>6. CASE Clerk!AskReturned(c)
  <2> DEFINE r == Clerk!AfterAsk(c, ck[c])
  <2>2. ck' = [ck EXCEPT ![c] = r] /\ ck[c].pc = "told" /\ UNCHANGED <<Clerk!service, floating>>
    BY <1>6 DEF Clerk!AskReturned, Clerk!Set
  <2>1. Told(c, ck[c], r)
    BY <1>0, ClerkFields
  <2> HIDE DEF r
  <2>3. ck'[c] = r /\ \A d \in Clerk!Actors \ {c} : ck'[d] = ck[d]
    BY <1>0, <2>2
  <2> QED BY <2>1, <2>2, <2>3 DEF Moved, Retries, Answered, Told, Kept, Clerk!service
<1>7. CASE Clerk!AskFailed(c)
  <2> DEFINE r == Clerk!NextCtrler(ck[c])
  <2>2. /\ ck' = [ck EXCEPT ![c] = r] /\ UNCHANGED Clerk!service
        /\ floating' = floating \/ (c = Admin /\ \E to : floating' = floating \cup {Clerk!Request(c, to)})
    BY <1>7 DEF Clerk!AskFailed, Clerk!Set, Clerk!Abandon
  <2>1. Retries(ck[c], r)
    BY <1>0, ClerkFields
  <2> HIDE DEF r
  <2>3. ck'[c] = r /\ \A d \in Clerk!Actors \ {c} : ck'[d] = ck[d]
    BY <1>0, <2>2
  <2> QED BY <2>1, <2>2, <2>3 DEF Moved, Retries, Answered, Told, Kept, Clerk!service
<1> QED BY <1>1, <1>2, <1>3, <1>4, <1>5, <1>6, <1>7 DEF Clerk!ClerkStep

-----------------------------------------------------------------------------
(* What is in the value.                                                   *)

Held(s, x) == \E i \in 1 .. Len(s) : s[i] = x

\* An append in the value was called; an earlier one of its clerk that is there, was there first.
StoreInv ==
  \A j \in 1 .. Len(store) :
    /\ store[j][2] <= ck[store[j][1]].n
    /\ \A m \in 0 .. store[j][2] - 1 :
         Held(store, <<store[j][1], m>>) => \E i \in 1 .. j - 1 : store[i] = <<store[j][1], m>>

\* An abandoned append is that of its clerk's operation, or is in the value already.
FloatInv ==
  \A q \in floating : q.op = "append" =>
    LET k == ck[q.id[1]] IN
    /\ q.id[2] <= k.n
    /\ q.id[2] = k.n => k.op = "append"
    /\ q.id[2] < k.n => Held(store, q.id)

\* What a clerk has been answered.
OpInv ==
  \A c \in Users :
    /\ ck[c].base <= Len(store)
    /\ ck[c].pc = "reply" /\ ck[c].reply.err = "OK" =>
         ck[c].base <= ck[c].reply.val /\ (ck[c].op = "append" => Held(store, <<c, ck[c].n>>))
    /\ ck[c].pc = "done" /\ ck[c].op = "get" => ck[c].base <= ck[c].got
    /\ ck[c].pc = "done" /\ ck[c].op = "append" => Held(store, <<c, ck[c].n>>)

ClerkInv == ClerkTypes /\ ConfInv /\ ArgInv /\ StoreInv /\ FloatInv /\ OpInv

\* A request of a clerk, or none, changed the configurations.
LEMMA ConfMoved ==
  ASSUME Clerk!ShardClerkAssumption, ClerkTypes, ConfInv, ArgInv, NEW c \in Clerk!Actors, Moved(c), ClerkTypes'
  PROVE  ConfInv' /\ \A d \in Clerk!Actors : ck'[d].cfg.num >= ck[d].cfg.num
<1>0. ck[c] \in ClerkType /\ Len(configs) \in Nat \ {0} /\ Len(configs') \in Nat \ {0}
  BY ClerkConfigTypes DEF ClerkTypes
<1>1. /\ Len(configs) <= Len(configs')
      /\ \A k \in 1 .. Len(configs) : configs'[k] = configs[k]
      /\ \A k \in 1 .. Len(configs') : configs'[k].num = k - 1
  <2>1. CASE ck'[c].pc = "told"
    <3>1. Clerk!CtrlHandle(ck[c].si, ck[c].op, ck[c].arg)
      BY <2>1 DEF Moved
    <3>2. ck[c].arg \in KvGroups \cup {NoGroup} /\ (ck[c].op \in {"join", "leave", "move"} => ck[c].arg \in KvGroups)
      BY <1>0 DEF ArgInv, ClerkType
    <3> QED BY <3>1, <3>2, CtrlStep
  <2>2. CASE ck'[c].pc # "told"
    BY <1>0, <2>2 DEF Moved, ConfInv
  <2> QED BY <2>1, <2>2
<1>2. ASSUME NEW x, \E k \in 1 .. Len(configs) : x = configs[k]
      PROVE  /\ \E k \in 1 .. Len(configs') : x = configs'[k]
             /\ x.num \in Nat /\ x.num <= configs'[Len(configs')].num
  <2>1. PICK k \in 1 .. Len(configs) : x = configs[k]
    BY <1>2
  <2>2. k \in 1 .. Len(configs') /\ x = configs'[k] /\ x.num = k - 1
        /\ configs'[Len(configs')].num = Len(configs') - 1
    BY <1>0, <1>1, <2>1
  <2> QED BY <1>0, <2>2
<1>3. ASSUME NEW d \in Clerk!Actors
      PROVE  /\ \E k \in 1 .. Len(configs') : ck'[d].cfg = configs'[k]
             /\ ck'[d].cfg.num >= ck[d].cfg.num
             /\ ck'[d].pc = "told" /\ ck'[d].reply.err = "OK" =>
                  /\ \E k \in 1 .. Len(configs') : ck'[d].reply.cfg = configs'[k]
                  /\ ck'[d].cfg.num <= ck'[d].reply.cfg.num
  <2>0. \E k \in 1 .. Len(configs) : ck[d].cfg = configs[k]
    BY DEF ConfInv
  <2>1. CASE d # c
    <3>1. ck'[d] = ck[d]
      BY <2>1 DEF Moved
    <3>2. ck[d].cfg.num \in Nat /\ \E k \in 1 .. Len(configs') : ck[d].cfg = configs'[k]
      BY <2>0, <1>2
    <3>3. CASE ck[d].pc = "told" /\ ck[d].reply.err = "OK"
      <4>1. /\ \E k \in 1 .. Len(configs) : ck[d].reply.cfg = configs[k]
            /\ ck[d].cfg.num <= ck[d].reply.cfg.num
        BY <3>3 DEF ConfInv
      <4> QED BY <3>1, <3>2, <4>1, <1>2
    <3> QED BY <3>1, <3>2, <3>3
  <2>2. CASE d = c
    <3>1. CASE ck'[c].cfg = ck[c].cfg
      <4>1. /\ \E k \in 1 .. Len(configs') : ck'[c].cfg = configs'[k]
            /\ ck'[c].cfg.num >= ck[c].cfg.num /\ ck'[c].cfg.num <= configs'[Len(configs')].num
        BY <1>2, <2>0, <2>2, <3>1
      <4>2. ck'[c].pc = "told" /\ ck'[c].reply.err = "OK" => ck'[c].reply.cfg = configs'[Len(configs')]
        BY DEF Moved
      <4> QED BY <1>0, <2>2, <4>1, <4>2
    <3>2. CASE ck'[c].cfg # ck[c].cfg
      <4>1. ck[c].pc = "told" /\ ck[c].reply.err = "OK" /\ ck'[c].cfg = ck[c].reply.cfg /\ ck'[c].pc # "told"
        BY <3>2 DEF Moved
      <4>2. /\ \E k \in 1 .. Len(configs) : ck[c].reply.cfg = configs[k]
            /\ ck[c].cfg.num <= ck[c].reply.cfg.num
        BY <4>1 DEF ConfInv
      <4>3. ck[c].cfg.num \in Nat /\ ck[c].reply.cfg.num \in Nat
        BY <1>2, <2>0, <2>2, <4>2
      <4> QED BY <1>2, <2>2, <4>1, <4>2, <4>3
    <3> QED BY <3>1, <3>2
  <2> QED BY <2>1, <2>2
<1> QED BY <1>1, <1>3 DEF ConfInv

\* Every step keeps the numbers of the configurations and lets none go back.
LEMMA ConfNext ==
  ASSUME Clerk!ShardClerkAssumption, ClerkTypes, ConfInv, ArgInv, [Clerk!Next]_Clerk!vars
  PROVE  ConfInv' /\ \A d \in Clerk!Actors : ck'[d].cfg.num >= ck[d].cfg.num
<1>0. ClerkTypes' /\ ArgInv'
  BY ClerkTypesNext
<1>a. \A d \in Clerk!Actors : ck[d].cfg.num \in Nat
  BY DEF ClerkTypes, ClerkType, ConfigType
<1>b. ASSUME configs' = configs,
             \A d \in Clerk!Actors : ck'[d].cfg = ck[d].cfg /\ (ck'[d] = ck[d] \/ ck'[d].pc # "told")
      PROVE  ConfInv' /\ \A d \in Clerk!Actors : ck'[d].cfg.num >= ck[d].cfg.num
  BY <1>a, <1>b DEF ConfInv
<1>1. CASE \E c \in Users, op \in Ops : Clerk!Begin(c, op)
  <2>1. PICK c \in Users, op \in Ops : Clerk!Begin(c, op)
    BY <1>1
  <2>2. c \in Clerk!Actors /\ ck[c] \in ClerkType /\ ck \in [Clerk!Actors -> ClerkType]
    BY DEF ClerkTypes, Clerk!Actors
  <2> DEFINE r == [ck[c] EXCEPT !.pc = "look", !.op = op, !.n = @ + 1, !.base = Len(store), !.got = 0]
  <2>3. ck' = [ck EXCEPT ![c] = r] /\ UNCHANGED <<Clerk!service, floating>>
    BY <2>1 DEF Clerk!Begin, Clerk!Set
  <2>4. r.cfg = ck[c].cfg /\ r.pc = "look"
    BY <2>2 DEF ClerkType
  <2> HIDE DEF r
  <2>5. configs' = configs /\ \A d \in Clerk!Actors : ck'[d].cfg = ck[d].cfg /\ (ck'[d] = ck[d] \/ ck'[d].pc # "told")
    BY <2>2, <2>3, <2>4 DEF Clerk!service
  <2> QED BY <1>b, <2>5
<1>2. ASSUME NEW c \in Clerk!Actors, Clerk!ClerkStep(c)
      PROVE  ConfInv' /\ \A d \in Clerk!Actors : ck'[d].cfg.num >= ck[d].cfg.num
  BY <1>0, <1>2, ClerkMoves, ConfMoved
<1>6. CASE \E op \in {"join", "leave", "move"}, g \in KvGroups : Clerk!AdminBegin(op, g)
  <2>1. PICK op \in {"join", "leave", "move"}, g \in KvGroups : Clerk!AdminBegin(op, g)
    BY <1>6
  <2>2. Admin \in Clerk!Actors /\ ck[Admin] \in ClerkType /\ ck \in [Clerk!Actors -> ClerkType]
    BY DEF ClerkTypes, Clerk!Actors
  <2> DEFINE r == [ck[Admin] EXCEPT !.pc = "query", !.op = op, !.arg = g, !.si = 1]
  <2>3. ck' = [ck EXCEPT ![Admin] = r] /\ UNCHANGED <<Clerk!service, floating>>
    BY <2>1 DEF Clerk!AdminBegin, Clerk!Set
  <2>4. r.cfg = ck[Admin].cfg /\ r.pc = "query"
    BY <2>2 DEF ClerkType
  <2> HIDE DEF r
  <2>5. configs' = configs /\ \A d \in Clerk!Actors : ck'[d].cfg = ck[d].cfg /\ (ck'[d] = ck[d] \/ ck'[d].pc # "told")
    BY <2>2, <2>3, <2>4 DEF Clerk!service
  <2> QED BY <1>b, <2>5
<1>7. CASE Clerk!Migrate \/ (\E g \in KvGroups \cup {Clerk!Ctrler} : Clerk!Elect(g)) \/ UNCHANGED Clerk!vars
  <2>1. ck' = ck /\ configs' = configs
    BY <1>7 DEF Clerk!Migrate, Clerk!Elect, Clerk!vars
  <2> QED BY <1>b, <2>1
<1>9. CASE \E q \in floating : Clerk!LateHandle(q)
  <2>1. PICK q \in floating : Clerk!LateHandle(q)
    BY <1>9
  <2>2. ck' = ck
    BY <2>1 DEF Clerk!LateHandle
  <2>3. /\ Len(configs) \in Nat /\ Len(configs') \in Nat /\ Len(configs) <= Len(configs')
        /\ \A k \in 1 .. Len(configs) : configs'[k] = configs[k]
        /\ \A k \in 1 .. Len(configs') : configs'[k].num = k - 1
    <3>1. CASE q.to = Clerk!Ctrler
      <4>1. Clerk!CtrlHandle(q.si, q.op, q.arg)
        BY <2>1, <3>1 DEF Clerk!LateHandle
      <4>2. q.arg \in KvGroups \cup {NoGroup} /\ (q.op \in {"join", "leave", "move"} => q.arg \in KvGroups)
        BY DEF ArgInv
      <4>3. Len(configs) \in Nat /\ Len(configs') \in Nat
        BY <1>0 DEF ClerkTypes
      <4> QED BY <4>1, <4>2, <4>3, CtrlStep
    <3>2. CASE q.to # Clerk!Ctrler
      <4>1. configs' = configs
        BY <2>1, <3>2 DEF Clerk!LateHandle
      <4>2. Len(configs) \in Nat
        BY DEF ClerkTypes
      <4> QED BY <4>1, <4>2 DEF ConfInv
    <3> QED BY <3>1, <3>2
  <2>4. \A x : (\E k \in 1 .. Len(configs) : x = configs[k]) => \E k \in 1 .. Len(configs') : x = configs'[k]
    BY <2>3
  <2> QED BY <1>a, <2>2, <2>3, <2>4 DEF ConfInv
<1> QED BY <1>1, <1>2, <1>6, <1>7, <1>9 DEF Clerk!Next

\* An append is applied, at the end.
LEMMA StoreGrows ==
  ASSUME ClerkTypes, NEW id \in Users \X Nat, store' = Append(store, id)
  PROVE  /\ Len(store) \in Nat /\ Len(store') = Len(store) + 1
         /\ \A i \in 1 .. Len(store) : store'[i] = store[i]
         /\ store'[Len(store) + 1] = id
<1>1. store \in Seq(Users \X Nat)
  BY DEF ClerkTypes
<1> QED BY <1>1

\* An append that is applied keeps the order of first occurrences.
LEMMA StoreApplied ==
  ASSUME ClerkTypes, StoreInv, ClerkTypes', NEW id \in Users \X Nat, store' = Append(store, id),
         \A d \in Users : ck'[d].n = ck[d].n,
         id[2] <= ck[id[1]].n, id[2] < ck[id[1]].n => Held(store, id)
  PROVE  StoreInv' /\ Held(store', id) /\ \A x : Held(store, x) => Held(store', x)
<1>1. /\ Len(store) \in Nat /\ Len(store') = Len(store) + 1
      /\ \A i \in 1 .. Len(store) : store'[i] = store[i]
      /\ store'[Len(store) + 1] = id
  BY StoreGrows
<1>2. \A x : Held(store, x) => Held(store', x)
  BY <1>1 DEF Held
<1>3. Held(store', id)
  BY <1>1 DEF Held
<1>4. ASSUME NEW x, Held(store', x), x # id PROVE Held(store, x)
  BY <1>1, <1>4 DEF Held
<1>5. id[1] \in Users /\ id[2] \in Nat /\ id = <<id[1], id[2]>>
  OBVIOUS
<1>6. ASSUME NEW j \in 1 .. Len(store')
      PROVE  /\ store'[j][2] <= ck'[store'[j][1]].n
             /\ \A m \in 0 .. store'[j][2] - 1 :
                  Held(store', <<store'[j][1], m>>) => \E i \in 1 .. j - 1 : store'[i] = <<store'[j][1], m>>
  <2>1. CASE j = Len(store) + 1
    <3>1. store'[j] = id
      BY <1>1, <2>1
    <3>2. ASSUME NEW m \in 0 .. id[2] - 1, Held(store', <<id[1], m>>)
          PROVE  \E i \in 1 .. j - 1 : store'[i] = <<id[1], m>>
      <4>1. <<id[1], m>> # id
        BY <1>5, <3>2
      <4>2. PICK i \in 1 .. Len(store) : store[i] = <<id[1], m>>
        BY <1>4, <3>2, <4>1 DEF Held
      <4> QED BY <1>1, <2>1, <4>2
    <3> QED BY <1>5, <3>1, <3>2
  <2>2. CASE j \in 1 .. Len(store)
    <3>1. store'[j] = store[j] /\ store[j] \in Users \X Nat
      BY <1>1, <2>2 DEF ClerkTypes
    <3> DEFINE c == store[j][1]
               n == store[j][2]
    <3>2. c \in Users /\ n \in Nat /\ n <= ck[c].n /\ c \in Clerk!Actors /\ ck[c].n \in 0 .. MaxOps
      BY <2>2, <3>1 DEF StoreInv, Clerk!Actors, ClerkTypes, ClerkType
    <3>3. ASSUME NEW m \in 0 .. n - 1, Held(store', <<c, m>>)
          PROVE  \E i \in 1 .. j - 1 : store'[i] = <<c, m>>
      <4>1. Held(store, <<c, m>>)
        <5>1. CASE <<c, m>> = id
          <6>1. id[1] = c /\ id[2] = m
            BY <5>1
          <6>2. id[2] < ck[id[1]].n
            BY <3>2, <6>1
          <6> QED BY <5>1, <6>2
        <5>2. CASE <<c, m>> # id
          BY <1>4, <3>3, <5>2
        <5> QED BY <5>1, <5>2
      <4>2. PICK i \in 1 .. j - 1 : store[i] = <<c, m>>
        BY <2>2, <4>1 DEF StoreInv
      <4> QED BY <1>1, <2>2, <4>2
    <3> QED BY <3>1, <3>2, <3>3
  <2>3. j = Len(store) + 1 \/ j \in 1 .. Len(store)
    BY <1>1
  <2> QED BY <2>1, <2>2, <2>3
<1>7. StoreInv'
  BY <1>6 DEF StoreInv
<1> QED BY <1>2, <1>3, <1>7

\* The request <<c, n>> of clerk c's operation, or a late one, is applied or refused.
LEMMA StoreMoved ==
  ASSUME Clerk!ShardClerkAssumption, ClerkTypes, ArgInv, StoreInv, FloatInv, OpInv, ClerkTypes',
         NEW c \in Clerk!Actors, Moved(c)
  PROVE  StoreInv' /\ FloatInv' /\ OpInv'
<1>0. /\ \A d \in Clerk!Actors : ck[d] \in ClerkType /\ ck'[d].n = ck[d].n /\ ck'[d].op = ck[d].op /\ ck'[d].base = ck[d].base
      /\ \A d \in Users : d \in Clerk!Actors /\ d # Admin /\ ck[d].n \in Nat /\ ck[d].base \in Nat
      /\ Len(store) \in Nat
  <2>1. \A d \in Clerk!Actors : ck[d] \in ClerkType
    BY DEF ClerkTypes
  <2>2. \A d \in Clerk!Actors : ck'[d].n = ck[d].n /\ ck'[d].op = ck[d].op /\ ck'[d].base = ck[d].base
    BY DEF Moved
  <2>3. \A d \in Users : d \in Clerk!Actors /\ d # Admin
    BY ClerkNumbers DEF Clerk!Actors
  <2>4. \A d \in Clerk!Actors : ck[d].n \in Nat /\ ck[d].base \in Nat
    BY <2>1, ClerkNumbers DEF ClerkType
  <2>5. Len(store) \in Nat
    BY DEF ClerkTypes
  <2> QED BY <2>1, <2>2, <2>3, <2>4, <2>5
<1> DEFINE id == <<c, ck[c].n>>
<1>1. \/ store' = store /\ ~(ck'[c].pc = "reply" /\ ck'[c].reply.err = "OK" /\ ck[c].op = "append")
      \/ store' = Append(store, id) /\ ck[c].op = "append" /\ c \in Users
  <2>1. ck[c].op = "append" => c \in Users
    BY DEF ArgInv, Clerk!Actors
  <2> QED BY <2>1 DEF Moved, Clerk!KvHandle
<1>2. /\ StoreInv' /\ \A x : Held(store, x) => Held(store', x)
      /\ Len(store') \in Nat /\ Len(store) <= Len(store')
      /\ ck'[c].pc = "reply" /\ ck'[c].reply.err = "OK" /\ ck[c].op = "append" => Held(store', id)
  <2>1. CASE store' = store /\ ~(ck'[c].pc = "reply" /\ ck'[c].reply.err = "OK" /\ ck[c].op = "append")
    <3>1. \A j \in 1 .. Len(store) : store[j][1] \in Clerk!Actors
      BY <1>0 DEF ClerkTypes
    <3>2. StoreInv'
      <4>1. \A j \in 1 .. Len(store) : ck'[store[j][1]].n = ck[store[j][1]].n
        BY <1>0, <3>1
      <4> QED BY <2>1, <4>1 DEF StoreInv
    <3> QED BY <1>0, <2>1, <3>2 DEF Held
  <2>2. CASE store' = Append(store, id) /\ ck[c].op = "append" /\ c \in Users
    <3>1. id \in Users \X Nat /\ id[1] = c /\ id[2] = ck[c].n
      BY <1>0, <2>2
    <3>2. id[2] <= ck[id[1]].n /\ ~(id[2] < ck[id[1]].n)
      BY <1>0, <2>2, <3>1
    <3> HIDE DEF id
    <3>3. StoreInv' /\ Held(store', id) /\ \A x : Held(store, x) => Held(store', x)
      BY <1>0, <2>2, <3>1, <3>2, StoreApplied
    <3>4. Len(store') = Len(store) + 1
      BY <2>2, <3>1, StoreGrows
    <3> QED BY <1>0, <3>3, <3>4
  <2> QED BY <1>1, <2>1, <2>2
<1>3. FloatInv'
  <2>1. ASSUME NEW q \in floating', q.op = "append"
        PROVE  /\ q.id[2] <= ck'[q.id[1]].n
               /\ q.id[2] = ck'[q.id[1]].n => ck'[q.id[1]].op = "append"
               /\ q.id[2] < ck'[q.id[1]].n => Held(store', q.id)
    <3>1. CASE q \in floating
      <4>1. q.id \in Users \X Nat
        BY <2>1, <3>1 DEF ArgInv
      <4>2. q.id[1] \in Clerk!Actors
        BY <1>0, <4>1
      <4> QED BY <1>0, <1>2, <2>1, <3>1, <4>2 DEF FloatInv
    <3>2. CASE q \notin floating
      <4>1. PICK to : q = Clerk!Request(c, to)
        BY <2>1, <3>2 DEF Moved
      <4>2. q.id = id /\ ck[c].op = "append"
        BY <2>1, <4>1 DEF Clerk!Request
      <4>3. c \in Users
        BY <4>2 DEF ArgInv, Clerk!Actors
      <4>4. q.id[1] = c /\ q.id[2] = ck[c].n
        BY <4>2
      <4> QED BY <1>0, <4>2, <4>3, <4>4
    <3> QED BY <3>1, <3>2
  <2> QED BY <2>1 DEF FloatInv
<1>4. OpInv'
  <2>1. ASSUME NEW d \in Users
        PROVE  /\ ck'[d].base <= Len(store')
               /\ ck'[d].pc = "reply" /\ ck'[d].reply.err = "OK" =>
                    ck'[d].base <= ck'[d].reply.val /\ (ck'[d].op = "append" => Held(store', <<d, ck'[d].n>>))
               /\ ck'[d].pc = "done" /\ ck'[d].op = "get" => ck'[d].base <= ck'[d].got
               /\ ck'[d].pc = "done" /\ ck'[d].op = "append" => Held(store', <<d, ck'[d].n>>)
    <3>0. ck'[d].base <= Len(store')
      <4>1. ck'[d].base = ck[d].base /\ ck[d].base \in Nat /\ ck[d].base <= Len(store)
        BY <1>0 DEF OpInv
      <4> QED BY <1>0, <1>2, <4>1
    <3>1. CASE d # c
      <4>1. ck'[d] = ck[d]
        BY <1>0, <3>1 DEF Moved
      <4> QED BY <1>2, <3>0, <4>1 DEF OpInv
    <3>2. CASE d = c
      <4>1. ck'[c].n = ck[c].n /\ ck'[c].op = ck[c].op /\ ck'[c].base = ck[c].base /\ c # Admin
        BY <1>0, <3>2
      <4>2. ck'[c].pc = "reply" /\ ck'[c].reply.err = "OK" =>
                    ck'[c].base <= ck'[c].reply.val /\ (ck'[c].op = "append" => Held(store', id))
        <5>1. ck'[c].pc = "reply" => ck'[c].reply.val = Len(store)
          BY DEF Moved
        <5> QED BY <1>2, <3>2, <4>1, <5>1 DEF OpInv
      <4>3. ck'[c].pc = "done" => /\ ck'[c].op = "get" => ck'[c].base <= ck'[c].got
                                  /\ ck'[c].op = "append" => Held(store', id)
        <5>1. ck'[c].pc = "done" => ck[c].pc = "reply" /\ ck[c].reply.err = "OK" /\ ck'[c].got = ck[c].reply.val
          BY <4>1 DEF Moved
        <5>2. ck'[c].pc = "done" => ck[c].base <= ck[c].reply.val /\ (ck[c].op = "append" => Held(store, id))
          BY <3>2, <5>1 DEF OpInv
        <5> QED BY <1>2, <4>1, <5>1, <5>2
      <4> QED BY <3>0, <3>2, <4>1, <4>2, <4>3
    <3> QED BY <3>1, <3>2
  <2> QED BY <2>1 DEF OpInv
<1> QED BY <1>2, <1>3, <1>4

\* Every step keeps what is known of the value.
LEMMA StoreNext ==
  ASSUME Clerk!ShardClerkAssumption, ClerkInv, [Clerk!Next]_Clerk!vars
  PROVE  StoreInv' /\ FloatInv' /\ OpInv'
<1> USE DEF ClerkInv
<1>0. ClerkTypes' /\ ArgInv'
  BY ClerkTypesNext
<1>a. ASSUME NEW d \in Users
      PROVE  d \in Clerk!Actors /\ d # Admin /\ ck[d] \in ClerkType /\ ck[d].n \in Nat /\ ck[d].base \in Nat
  <2>1. d \in Clerk!Actors /\ d # Admin
    BY ClerkNumbers DEF Clerk!Actors
  <2>2. ck[d] \in ClerkType
    BY <2>1 DEF ClerkTypes
  <2> QED BY <2>1, <2>2, ClerkNumbers DEF ClerkType
<1>b. ASSUME store' = store, floating' \subseteq floating, \A d \in Users : ck'[d] = ck[d]
      PROVE  StoreInv' /\ FloatInv' /\ OpInv'
  <2>1. \A j \in 1 .. Len(store) : store[j][1] \in Users
    BY DEF ClerkTypes
  <2>2. StoreInv'
    BY <1>b, <2>1 DEF StoreInv
  <2>3. \A q \in floating : q.op = "append" => q.id[1] \in Users
    BY DEF ArgInv
  <2>4. FloatInv'
    BY <1>b, <2>3 DEF FloatInv
  <2>5. OpInv'
    BY <1>b DEF OpInv
  <2> QED BY <2>2, <2>4, <2>5
<1>1. CASE \E c \in Users, op \in Ops : Clerk!Begin(c, op)
  <2>1. PICK c \in Users, op \in Ops : Clerk!Begin(c, op)
    BY <1>1
  <2> DEFINE r == [ck[c] EXCEPT !.pc = "look", !.op = op, !.n = @ + 1, !.base = Len(store), !.got = 0]
  <2>2. ck' = [ck EXCEPT ![c] = r] /\ ck[c].pc = "done" /\ store' = store /\ floating' = floating
    BY <2>1 DEF Clerk!Begin, Clerk!Set, Clerk!service
  <2>3. r.n = ck[c].n + 1 /\ r.pc = "look" /\ r.base = Len(store)
    BY <1>a DEF ClerkType
  <2> HIDE DEF r
  <2>4. ck'[c] = r /\ \A d \in Users : d # c => ck'[d] = ck[d]
    BY <1>a, <2>2 DEF ClerkTypes
  <2>5. \A d \in Users : ck[d].n <= ck'[d].n /\ ck'[d].n \in Nat
    BY <1>a, <2>3, <2>4
  <2>6. StoreInv'
    <3>1. ASSUME NEW j \in 1 .. Len(store)
          PROVE  store[j][2] <= ck'[store[j][1]].n
      <4>1. store[j][1] \in Users /\ store[j][2] \in Nat /\ store[j][2] <= ck[store[j][1]].n
        BY DEF ClerkTypes, StoreInv
      <4> QED BY <1>a, <2>5, <4>1
    <3> QED BY <2>2, <3>1 DEF StoreInv
  <2>7. FloatInv'
    <3>1. ASSUME NEW q \in floating, q.op = "append"
          PROVE  /\ q.id[2] <= ck'[q.id[1]].n
                 /\ q.id[2] = ck'[q.id[1]].n => ck'[q.id[1]].op = "append"
                 /\ q.id[2] < ck'[q.id[1]].n => Held(store', q.id)
      <4>1. q.id \in Users \X Nat
        BY <3>1 DEF ArgInv
      <4>2. q.id[1] \in Users /\ q.id[2] \in Nat /\ q.id = <<q.id[1], q.id[2]>>
        BY <4>1
      <4>3. /\ q.id[2] <= ck[q.id[1]].n
            /\ q.id[2] = ck[q.id[1]].n => ck[q.id[1]].op = "append"
            /\ q.id[2] < ck[q.id[1]].n => Held(store, q.id)
        BY <3>1 DEF FloatInv
      <4>4. CASE q.id[1] # c
        BY <2>2, <2>4, <4>2, <4>3, <4>4
      <4>5. CASE q.id[1] = c
        <5>1. q.id[2] < ck'[c].n
          BY <1>a, <2>3, <2>4, <4>2, <4>3, <4>5
        <5>2. q.id[2] = ck[c].n => Held(store, q.id)
          <6>1. ck[c].op = "append" => Held(store, <<c, ck[c].n>>)
            BY <2>2 DEF OpInv
          <6> QED BY <4>2, <4>3, <4>5, <6>1
        <5>3. Held(store, q.id)
          BY <1>a, <4>2, <4>3, <4>5, <5>2
        <5> QED BY <1>a, <2>2, <2>3, <2>4, <4>2, <4>5, <5>1, <5>3
      <4> QED BY <4>4, <4>5
    <3> QED BY <2>2, <3>1 DEF FloatInv
  <2>8. OpInv'
    <3>1. Len(store) \in Nat
      BY DEF ClerkTypes
    <3> QED BY <2>2, <2>3, <2>4, <3>1 DEF OpInv
  <2> QED BY <2>6, <2>7, <2>8
<1>2. ASSUME NEW c \in Clerk!Actors, Clerk!ClerkStep(c) PROVE StoreInv' /\ FloatInv' /\ OpInv'
  BY <1>0, <1>2, ClerkMoves, StoreMoved
<1>6. CASE \E op \in {"join", "leave", "move"}, g \in KvGroups : Clerk!AdminBegin(op, g)
  <2>1. store' = store /\ floating' = floating /\ \E r : ck' = [ck EXCEPT ![Admin] = r]
    BY <1>6 DEF Clerk!AdminBegin, Clerk!Set, Clerk!service
  <2>2. \A d \in Users : ck'[d] = ck[d]
    BY <1>a, <2>1 DEF ClerkTypes
  <2> QED BY <1>b, <2>1, <2>2
<1>7. CASE Clerk!Migrate \/ (\E g \in KvGroups \cup {Clerk!Ctrler} : Clerk!Elect(g)) \/ UNCHANGED Clerk!vars
  <2>1. ck' = ck /\ store' = store /\ floating' = floating
    BY <1>7 DEF Clerk!Migrate, Clerk!Elect, Clerk!vars
  <2> QED BY <1>b, <2>1
<1>9. CASE \E q \in floating : Clerk!LateHandle(q)
  <2>1. PICK q \in floating : Clerk!LateHandle(q)
    BY <1>9
  <2>2. ck' = ck /\ floating' \subseteq floating
    BY <2>1 DEF Clerk!LateHandle
  <2>3. CASE store' = store
    BY <1>b, <2>2, <2>3
  <2>4. CASE store' # store
    <3>1. q.op = "append" /\ store' = Append(store, q.id)
      BY <2>1, <2>4 DEF Clerk!LateHandle, Clerk!KvHandle
    <3>2. q.id \in Users \X Nat
      BY <3>1 DEF ArgInv
    <3>3. q.id[2] <= ck[q.id[1]].n /\ (q.id[2] < ck[q.id[1]].n => Held(store, q.id))
      BY <3>1 DEF FloatInv
    <3>4. StoreInv' /\ \A x : Held(store, x) => Held(store', x)
      BY <1>0, <2>2, <3>1, <3>2, <3>3, StoreApplied
    <3>5. FloatInv'
      BY <2>2, <3>4 DEF FloatInv
    <3>6. Len(store) \in Nat /\ Len(store') = Len(store) + 1
      BY <3>1, <3>2, StoreGrows
    <3>7. \A d \in Users : ck[d].base <= Len(store')
      <4>1. \A d \in Users : ck[d].base \in Nat /\ ck[d].base <= Len(store)
        BY <1>a DEF OpInv
      <4> QED BY <3>6, <4>1
    <3>8. OpInv'
      BY <2>2, <3>4, <3>7 DEF OpInv
    <3> QED BY <3>4, <3>5, <3>8
  <2> QED BY <2>3, <2>4
<1> QED BY <1>1, <1>2, <1>6, <1>7, <1>9 DEF Clerk!Next

\* The invariant holds in the initial states.
LEMMA ClerkInitInv == ASSUME Clerk!ShardClerkAssumption, Clerk!Init PROVE ClerkInv
<1>1. ClerkTypes /\ ConfInv
  BY ClerkInitTypes
<1>2. /\ \A c \in Clerk!Actors : ck[c].op = "" /\ ck[c].pc = "done" /\ ck[c].base = 0
      /\ store = <<>> /\ floating = {}
  BY DEF Clerk!Init
<1>3. ArgInv
  BY <1>2 DEF ArgInv, Clerk!Actors
<1>4. Len(store) = 0
  BY <1>2
<1>5. StoreInv /\ FloatInv
  <2>1. 1 .. Len(store) = {}
    BY <1>4
  <2> QED BY <1>2, <2>1 DEF StoreInv, FloatInv
<1>6. OpInv
  <2>1. \A c \in Users : ck[c].op = "" /\ ck[c].pc = "done" /\ ck[c].base <= Len(store)
    <3>1. ASSUME NEW c \in Users PROVE ck[c].op = "" /\ ck[c].pc = "done" /\ ck[c].base = 0
      BY <1>2, Zenon DEF Clerk!Actors
    <3>2. \A c \in Users : ck[c].base <= Len(store)
      <4>1. 0 <= 0
        OBVIOUS
      <4> QED BY <1>4, <3>1, <4>1, Zenon
    <3> QED BY <3>1, <3>2, Zenon
  <2> QED BY <2>1 DEF OpInv
<1> QED BY <1>1, <1>3, <1>5, <1>6 DEF ClerkInv

\* The inductive invariant of ShardClerk.
LEMMA ClerkInvariant == ASSUME Clerk!ShardClerkAssumption PROVE Clerk!Spec => []ClerkInv
<1>1. Clerk!Init => ClerkInv
  BY ClerkInitInv
<1>2. ClerkInv /\ [Clerk!Next]_Clerk!vars => ClerkInv'
  BY ClerkTypesNext, ConfNext, StoreNext DEF ClerkInv
<1> QED BY <1>1, <1>2, PTL DEF Clerk!Spec

\* Every variable of the clerks has its type, and a clerk works with a configuration that
\* the controller has made.
THEOREM ClerkTyped == ASSUME Clerk!ShardClerkAssumption PROVE Clerk!Spec => []Clerk!TypeOK
<1>1. ClerkInv => Clerk!TypeOK
  <2> SUFFICES ASSUME ClerkInv PROVE Clerk!TypeOK
    OBVIOUS
  <2> USE DEF ClerkInv
  <2>1. ASSUME NEW c \in Clerk!Actors
        PROVE  /\ ck[c].pc \in {"done", "look", "call", "reply", "query", "told"}
               /\ ck[c].si \in Clerk!Servers /\ ck[c].n \in 0 .. MaxOps
               /\ ck[c].cfg \in Clerk!Range(configs)
    <3>1. ck[c] \in ClerkType
      BY DEF ClerkTypes
    <3>2. ck[c].cfg \in Clerk!Range(configs)
      BY DEF ConfInv, ClerkTypes, Clerk!Range
    <3> QED BY <3>1, <3>2 DEF ClerkType
  <2>2. serving \in KvGroups \cup {NoGroup} /\ Len(configs) <= MaxConfigs
    BY DEF ClerkTypes
  <2> QED BY <2>1, <2>2 DEF Clerk!TypeOK
<1> QED BY <1>1, ClerkInvariant, PTL

\* Get of shardkv/client.go returns a value that the key had after the Get was called.
THEOREM ReadsInInterval == ASSUME Clerk!ShardClerkAssumption PROVE Clerk!Spec => []Clerk!ReadInInterval
<1>1. ClerkInv => Clerk!ReadInInterval
  <2> SUFFICES ASSUME ClerkInv, NEW c \in Users, Clerk!Done(c), ck[c].op = "get" PROVE ck[c].got >= ck[c].base
    BY DEF Clerk!ReadInInterval
  <2>1. ck[c] \in ClerkType
    BY DEF ClerkInv, ClerkTypes, Clerk!Actors
  <2>2. ck[c].got \in Nat /\ ck[c].base \in Nat /\ ck[c].base <= ck[c].got
    BY <2>1 DEF ClerkInv, OpInv, Clerk!Done, ClerkType
  <2> QED BY <2>2
<1> QED BY <1>1, ClerkInvariant, PTL

\* Where an append took effect first.
LEMMA FirstInStore ==
  ASSUME ClerkTypes, NEW x \in Clerk!Range(store)
  PROVE  /\ Clerk!FirstIn(x) \in 1 .. Len(store) /\ store[Clerk!FirstIn(x)] = x
         /\ \A j \in 1 .. Clerk!FirstIn(x) - 1 : store[j] # x
<1>1. DOMAIN store = 1 .. Len(store) /\ Len(store) \in Nat
  BY DEF ClerkTypes
<1> DEFINE T == {i \in 1 .. Len(store) : store[i] = x}
<1>2. T \in SUBSET Nat /\ T # {}
  BY <1>1 DEF Clerk!Range
<1>3. PICK i \in T : \A j \in T : i <= j
  BY <1>2, LeastNat
<1>4. i \in DOMAIN store /\ store[i] = x /\ \A j \in 1 .. i - 1 : store[j] # x
  <2>1. ASSUME NEW j \in 1 .. i - 1, store[j] = x PROVE FALSE
    <3>1. j \in T /\ ~(i <= j)
      BY <1>1, <2>1
    <3> QED BY <1>3, <3>1
  <2> QED BY <1>1, <2>1
<1> QED BY <1>1, <1>4 DEF Clerk!FirstIn

\* Append of shardkv/client.go: what returned is in the value, and the appends of one clerk
\* took effect first in the order they were called, whatever was retried, lost or handled late.
THEOREM AppendsKeepOrder == ASSUME Clerk!ShardClerkAssumption PROVE Clerk!Spec => []Clerk!AppendsInOrder
<1>1. ClerkInv => Clerk!AppendsInOrder
  <2> SUFFICES ASSUME ClerkInv, NEW c \in Users
               PROVE  /\ Clerk!Done(c) /\ ck[c].op = "append" => <<c, ck[c].n>> \in Clerk!Range(store)
                      /\ \A x, y \in Clerk!Range(store) :
                           x[1] = c /\ y[1] = c /\ x[2] < y[2] => Clerk!FirstIn(x) < Clerk!FirstIn(y)
    BY DEF Clerk!AppendsInOrder
  <2> USE DEF ClerkInv
  <2>0. DOMAIN store = 1 .. Len(store) /\ Len(store) \in Nat /\ \A i \in 1 .. Len(store) : store[i] \in Users \X Nat
    BY DEF ClerkTypes
  <2>1. Clerk!Done(c) /\ ck[c].op = "append" => <<c, ck[c].n>> \in Clerk!Range(store)
    BY <2>0 DEF OpInv, Clerk!Done, Held, Clerk!Range
  <2>2. ASSUME NEW x \in Clerk!Range(store), NEW y \in Clerk!Range(store), x[1] = c, y[1] = c, x[2] < y[2]
        PROVE  Clerk!FirstIn(x) < Clerk!FirstIn(y)
    <3> DEFINE i == Clerk!FirstIn(x)
               j == Clerk!FirstIn(y)
    <3>1. i \in 1 .. Len(store) /\ store[i] = x /\ \A k \in 1 .. i - 1 : store[k] # x
      BY FirstInStore
    <3>2. j \in 1 .. Len(store) /\ store[j] = y
      BY FirstInStore
    <3> HIDE DEF i, j
    <3>3. x \in Users \X Nat /\ y \in Users \X Nat
      BY <2>0, <3>1, <3>2
    <3>4. x = <<c, x[2]>> /\ x[2] \in 0 .. y[2] - 1
      BY <2>2, <3>3
    <3>5. Held(store, <<store[j][1], x[2]>>)
      BY <2>2, <3>1, <3>2, <3>4 DEF Held
    <3>6. PICK k \in 1 .. j - 1 : store[k] = <<store[j][1], x[2]>>
      BY <3>2, <3>4, <3>5 DEF StoreInv
    <3>7. store[k] = x
      BY <2>2, <3>2, <3>4, <3>6
    <3>8. i <= k
      BY <2>0, <3>1, <3>2, <3>7
    <3>9. i < j
      BY <2>0, <3>1, <3>2, <3>8
    <3> QED BY <3>9 DEF i, j
  <2> QED BY <2>1, <2>2
<1> QED BY <1>1, ClerkInvariant, PTL

\* Query of shardkv/client.go: the configuration a clerk works with never goes back, although
\* the answers of the controllers are lost, late or of a controller that does not lead.
THEOREM ConfigsMonotonic == ASSUME Clerk!ShardClerkAssumption PROVE Clerk!Spec => Clerk!ConfigMonotonic
<1>1. ClerkInv /\ [Clerk!Next]_Clerk!vars => [\A c \in Users : ck'[c].cfg.num >= ck[c].cfg.num]_Clerk!vars
  BY ConfNext DEF ClerkInv, Clerk!Actors
<1> QED BY <1>1, ClerkInvariant, PTL DEF Clerk!Spec, Clerk!ConfigMonotonic
=============================================================================
