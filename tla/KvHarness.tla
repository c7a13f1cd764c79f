------------------------------ MODULE KvHarness ------------------------------
(***************************************************************************)
(* 6.5840/src/kvraft/config.go over the network of LabRpc: the key/value   *)
(* servers and their Persisters, the clerks with end-points of their own,  *)
(* partitions, and shutting servers down and starting them again.          *)
(*                                                                         *)
(* A loop of Network.Enable is one step: a call looks at its own end-point *)
(* only, and RaftHarness has the loop one end-point at a time.  The order  *)
(* of the tester's operations is that of kvraft/test_test.go: partition    *)
(* and ConnectAll are called while every server is up.                     *)
(***************************************************************************)
EXTENDS Integers, Sequences, SequencesExt, FiniteSets

CONSTANTS
  N,       \* cfg.n
  Clerks,  \* bound: the clerks made
  MaxGen,  \* bound: instances of one server
  Calls,   \* bound: the calls made
  Nil

KvHarnessAssumption ==
  /\ N \in Nat \ {0} /\ MaxGen \in Nat \ {0}
  /\ Nil \notin Clerks /\ \A i \in 0 .. N - 1 : i \notin Clerks /\ i # Nil

VARIABLES
  ends, enabled, connections, servers, reliable, netDone, netLoop,
  pc, end, srv, lossy, handler,    \* LabRpc
  gen,        \* per server: cfg.endnames[i] are those of its instance gen[i]
  kvservers,  \* per server: cfg.kvservers, the current instance or 0 for nil
  disks,      \* per server: its Persisters, each the set of calls saved in it
  saved,      \* per server: cfg.saved, an index into disks
  pers,       \* per instance: the Persister that StartKVServer was given
  clerks,     \* the clerks in cfg.clerks
  tester,     \* the operation of the tester in progress
  cut         \* history: the last partition, while it lasts

Names      == 0 .. N - 1
Gens       == 1 .. MaxGen
Instances  == Names \X Gens
ServerEnds == {<<i, g, j>> : i \in Names, g \in Gens, j \in Names}
ClerkEnds  == {<<ck, 1, j>> : ck \in Clerks, j \in Names}
AllEnds    == ServerEnds \cup ClerkEnds

INSTANCE LabRpc WITH Ends <- AllEnds, Objects <- Instances

network     == <<ends, enabled, connections, servers, reliable, netDone, netLoop>>
inFlight    == <<pc, end, srv, lossy, handler>>
harnessVars == <<gen, kvservers, disks, saved, pers, clerks>>
vars        == <<network, inFlight, harnessVars, tester, cut>>

Idle    == [op |-> "idle", i |-> 0]
Whole   == [p1 |-> {}, p2 |-> {}, leader |-> Nil]
Disk(i) == disks[i][saved[i]]

\* make_config: every server started and connected, the network reliable or not.
Init ==
  /\ ends = {e \in ServerEnds : e[2] = 1} /\ enabled = ends
  /\ connections = [e \in AllEnds |-> IF e \in ends THEN e[3] ELSE Nil]
  /\ servers = [i \in Names |-> <<i, 1>>]
  /\ reliable \in BOOLEAN /\ netDone = FALSE /\ netLoop = TRUE
  /\ pc = [c \in Calls |-> "idle"] /\ lossy = [c \in Calls |-> FALSE]
  /\ end = [c \in Calls |-> Nil] /\ srv = end /\ handler = [c \in Calls |-> "none"]
  /\ gen = [i \in Names |-> 1] /\ kvservers = gen
  /\ disks = [i \in Names |-> <<{}>>] /\ saved = gen
  /\ pers = [x \in Instances |-> IF x[2] = 1 THEN 1 ELSE 0]
  /\ clerks = {}
  /\ tester = Idle /\ cut = Whole

-----------------------------------------------------------------------------
(* The servers and the clerks.                                             *)

\* An instance, shut down or not, or a clerk calls through an end of its own.
MakeCall(c, e) ==
  /\ IF e \in ClerkEnds THEN e[1] \in clerks ELSE pers[<<e[1], e[2]>>] # 0
  /\ Call(c, e)
  /\ UNCHANGED <<harnessVars, tester, cut>>

\* The handler under test: it saves what it is asked for and returns.
Handle(c) ==
  /\ HandlerReturn(c)
  /\ disks' = [disks EXCEPT ![srv[c][1]][pers[srv[c]]] = @ \cup {c}]
  /\ UNCHANGED <<gen, kvservers, saved, pers, clerks, tester, cut>>

Network(c) ==
  /\ Send(c) \/ Refuse(c) \/ ProcessReq(c)
  /\ UNCHANGED <<harnessVars, tester, cut>>

-----------------------------------------------------------------------------
(* Connectivity.                                                           *)

\* The ends of cfg.endnames that go out of server i to js, or come in from them.
Links(i, js) == {<<i, gen[i], j>> : j \in js} \cup {<<j, gen[j], i>> : j \in js}

ConnectUnlocked(en, i, to) == en \cup Links(i, to)

\* Mutant: the incoming ends only.
DisconnectIn(en, i, from) == en \ {<<j, gen[j], i>> : j \in from \ {i}}

DisconnectUnlocked(en, i, from) == en \ Links(i, from)

\* Mutant: the sides are connected and not cut from each other.
SideConnect(en, p, q) == FoldLeft(LAMBDA e, i : ConnectUnlocked(e, i, Range(p)), en, p)

\* The loop over one side: each of its servers is cut from the other side, then
\* connected to its own.
Side(en, p, q) ==
  LET after[k \in 0 .. Len(p)] ==
        IF k = 0 THEN en
        ELSE ConnectUnlocked(DisconnectUnlocked(after[k - 1], p[k], Range(q)), p[k], Range(p))
  IN after[Len(p)]

\* The tests call these with every server up and nothing else in progress.
Steady == tester = Idle /\ ~netDone /\ \A i \in Names : kvservers[i] # 0

SetEnabled(en) ==
  /\ enabled' = en
  /\ UNCHANGED <<ends, connections, servers, reliable, netDone, netLoop, inFlight>>

ConnectAll ==
  /\ Steady
  /\ SetEnabled(enabled \cup UNION {Links(i, Names) : i \in Names})
  /\ cut' = Whole
  /\ UNCHANGED <<harnessVars, tester>>

Partition(p1, p2, l) ==
  /\ Steady
  /\ SetEnabled(Side(Side(enabled, p1, p2), p2, p1))
  /\ cut' = [p1 |-> Range(p1), p2 |-> Range(p2), leader |-> l]
  /\ UNCHANGED <<harnessVars, tester>>

\* The partitioner of GenericTest puts every server on a random side.
RandomPartition ==
  \E p \in SUBSET Names : Partition(SetToSeq(p), SetToSeq(Names \ p), Nil)

\* Leader: the first server that says so, or 0 if none does.
Leader(said) == IF said = {} THEN 0 ELSE CHOOSE i \in said : \A j \in said : i <= j

\* Mutant: the leader is not skipped when the sides are filled.
OthersAll(l) == [k \in 1 .. N |-> k - 1]

\* The servers other than l, in order: the loop skips l.
Others(l) == [k \in 1 .. N - 1 |-> IF k <= l THEN k - 1 ELSE k]

\* An entry of p1 or p2 that the loop does not reach keeps the zero value.
Entry(s, k) == IF k \in DOMAIN s THEN s[k] ELSE 0

\* make_partition, then partition; the tests use an odd number of servers.
MakePartition ==
  \E said \in SUBSET Names :
    LET l == Leader(said)
        half == N \div 2
        p1 == [k \in 1 .. half + 1 |-> Entry(Others(l), k)]
        p2 == [k \in 1 .. half |-> IF k = half THEN l ELSE Entry(Others(l), half + 1 + k)]
    IN N % 2 = 1 /\ N > 1 /\ Partition(p1, p2, l)

-----------------------------------------------------------------------------
(* Clerks.                                                                 *)

Unlocked == tester.op \in {"idle", "kill", "serve"} /\ ~netDone

ClerkLinks(ck, js) == {<<ck, 1, j>> : j \in js}

\* Fresh ends to every server, of which those in to are enabled.
MakeClient(ck, to) ==
  /\ Unlocked /\ ck \notin clerks /\ ClerkLinks(ck, Names) \cap ends = {}
  /\ clerks' = clerks \cup {ck}
  /\ ends' = ends \cup ClerkLinks(ck, Names)
  /\ connections' = [e \in AllEnds |-> IF e \in ClerkLinks(ck, Names) THEN e[3] ELSE connections[e]]
  /\ enabled' = enabled \cup ClerkLinks(ck, to)
  /\ UNCHANGED <<servers, reliable, netDone, netLoop, inFlight, gen, kvservers, disks, saved,
                 pers, tester, cut>>

\* The clerk is forgotten; its ends stay in the network, as they are.
DeleteClient(ck) ==
  /\ Unlocked /\ ck \in clerks
  /\ clerks' = clerks \ {ck}
  /\ UNCHANGED <<network, inFlight, gen, kvservers, disks, saved, pers, tester, cut>>

ConnectClient(ck, to) ==
  /\ Unlocked /\ ck \in clerks
  /\ SetEnabled(enabled \cup ClerkLinks(ck, to))
  /\ UNCHANGED <<harnessVars, tester, cut>>

DisconnectClient(ck, from) ==
  /\ Unlocked /\ ck \in clerks
  /\ SetEnabled(enabled \ ClerkLinks(ck, from))
  /\ UNCHANGED <<harnessVars, tester, cut>>

-----------------------------------------------------------------------------
(* ShutdownServer and StartServer.                                         *)

ShutdownDisconnect(i) ==
  /\ tester = Idle /\ ~netDone /\ kvservers[i] # 0 /\ gen[i] < MaxGen
  /\ SetEnabled(DisconnectUnlocked(enabled, i, Names))
  /\ tester' = [op |-> "delete", i |-> i] /\ cut' = Whole
  /\ UNCHANGED harnessVars

\* DeleteServer: the only thing that keeps the clerks' calls away.
ShutdownDelete ==
  /\ tester.op = "delete"
  /\ DeleteServer(tester.i)
  /\ tester' = [tester EXCEPT !.op = "copy"]
  /\ UNCHANGED <<harnessVars, cut>>

\* cfg.saved[i] becomes a copy of itself.
Copy(i) ==
  /\ disks' = [disks EXCEPT ![i] = Append(@, Disk(i))]
  /\ saved' = [saved EXCEPT ![i] = Len(disks[i]) + 1]

ShutdownCopy ==
  /\ tester.op = "copy"
  /\ Copy(tester.i)
  /\ tester' = [tester EXCEPT !.op = "kill"]
  /\ UNCHANGED <<network, inFlight, gen, kvservers, pers, clerks, cut>>

ShutdownKill ==
  /\ tester.op = "kill"
  /\ kvservers' = [kvservers EXCEPT ![tester.i] = 0]
  /\ tester' = Idle
  /\ UNCHANGED <<network, inFlight, gen, disks, saved, pers, clerks, cut>>

\* Fresh ends, not enabled yet, a fresh Persister, and StartKVServer.
StartServer(i) ==
  LET g == gen[i] + 1 new == {<<i, g, j>> : j \in Names} IN
  /\ tester = Idle /\ ~netDone /\ kvservers[i] = 0
  /\ gen' = [gen EXCEPT ![i] = g]
  /\ ends' = ends \cup new
  /\ connections' = [e \in AllEnds |-> IF e \in new THEN e[3] ELSE connections[e]]
  /\ Copy(i)
  /\ pers' = [pers EXCEPT ![<<i, g>>] = saved'[i]]
  /\ kvservers' = [kvservers EXCEPT ![i] = g]
  /\ tester' = [op |-> "serve", i |-> i]
  /\ UNCHANGED <<enabled, servers, reliable, netDone, netLoop, inFlight, clerks, cut>>

StartServe ==
  /\ tester.op = "serve"
  /\ AddServer(tester.i, <<tester.i, gen[tester.i]>>)
  /\ tester' = Idle
  /\ UNCHANGED <<harnessVars, cut>>

\* cleanup: Kill, which sets a flag of the servers themselves, and Network.Cleanup.
CleanupAll ==
  /\ tester = Idle
  /\ Cleanup
  /\ UNCHANGED <<harnessVars, tester, cut>>

Tester1 ==
  \/ ConnectAll \/ RandomPartition \/ MakePartition \/ CleanupAll
  \/ \E ck \in Clerks, js \in SUBSET Names :
       MakeClient(ck, js) \/ ConnectClient(ck, js) \/ DisconnectClient(ck, js)
  \/ \E ck \in Clerks : DeleteClient(ck)
  \/ \E i \in Names : ShutdownDisconnect(i) \/ StartServer(i)
  \/ ShutdownDelete \/ ShutdownCopy \/ ShutdownKill \/ StartServe

Next ==
  \/ \E c \in Calls, e \in AllEnds : MakeCall(c, e)
  \/ \E c \in Calls : Handle(c) \/ Network(c)
  \/ NetExit /\ UNCHANGED <<harnessVars, tester, cut>>
  \/ Tester1

Spec == Init /\ [][Next]_vars

-----------------------------------------------------------------------------
(* Properties.                                                             *)

\* Every variable of the harness has its type, and so has the network below it.
TypeOK ==
  /\ RpcTypeOK
  /\ gen \in [Names -> Gens] /\ kvservers \in [Names -> 0 .. MaxGen]
  /\ disks \in [Names -> Seq(SUBSET Calls)]
  /\ \A i \in Names : saved[i] \in DOMAIN disks[i] /\ \A g \in Gens : pers[<<i, g>>] <= saved[i]
  /\ clerks \subseteq Clerks

\* Two current instances reach each other if and only if the last partition put them
\* on one side ("2 partitions with connectivity between servers in each partition").
PartitionHolds ==
  cut # Whole =>
    \A i, j \in Names : <<i, gen[i], j>> \in enabled <=> \E p \in {cut.p1, cut.p2} : {i, j} \subseteq p

\* make_partition leaves the leader it found with less than a majority, and the
\* other side with a majority.
LeaderInMinority ==
  cut.leader # Nil =>
    /\ 2 * Cardinality({j \in Names : <<cut.leader, gen[cut.leader], j>> \in enabled}) < N
    /\ 2 * Cardinality(cut.p1 \ cut.p2) > N

\* An instance that has been shut down can send nothing any more, whatever partitions
\* and restarts follow.
DeadIsSilent ==
  \A e \in enabled \cap ServerEnds : e[2] = gen[e[1]] /\ (kvservers[e[1]] # 0 \/ tester.op = "kill")

\* A clerk's call that returned true is in the Persister that the next instance will
\* be given: no "positive reply to an Append but persisting the result in the
\* superseded Persister", although clerks' ends stay enabled all the time.
AckedSurvives == \A c \in Calls : pc[c] = "true" => c \in Disk(srv[c][1])
=============================================================================
