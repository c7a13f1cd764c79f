---------------------------- MODULE ShardHarness ----------------------------
(***************************************************************************)
(* 6.5840/src/shardkv/config.go over the network of LabRpc: groups of      *)
(* key/value servers, the servers of the shard controller, clerks, groups  *)
(* joining and leaving, shutdown and restart.  Servers and clerks make     *)
(* further end-points by themselves, with the make_end they are given.     *)
(*                                                                         *)
(* The controller and the servers are code under test: the controller's    *)
(* configuration is the set of groups that joined, a handler saves what it *)
(* is asked for and returns.  A loop of Network.Enable is one step, as in  *)
(* KvHarness.                                                              *)
(***************************************************************************)
EXTENDS Integers, Sequences, FiniteSets

CONSTANTS
  Groups,    \* the groups, gid 100 + gi in the code
  N,         \* cfg.n, the servers of a group
  Ctrlers,   \* the servers of the controller
  Clerks,    \* bound: the clerks made
  MaxGen,    \* bound: instances of one server
  MaxDisks,  \* bound: a server with this many Persisters is not shut down again
  Calls,     \* bound: the calls made
  Nil

\* endnames in makeClient has n entries and mendnames in a group nctrlers of them; the
\* first is indexed by controllers, the second by servers: only this size fits both.
\* The name of a server is never empty, and no clerk is a server.
ShardHarnessAssumption ==
  /\ N \in Nat \ {0} /\ MaxGen \in Nat \ {0} /\ MaxDisks \in Nat
  /\ N = Cardinality(Ctrlers)
  /\ Nil \notin (Groups \X (0 .. N - 1)) \cup Ctrlers
  /\ Clerks \cap (Groups \X (0 .. N - 1)) = {}

VARIABLES
  ends, enabled, connections, servers, reliable, netDone, netLoop,
  pc, end, srv, lossy, handler,    \* LabRpc
  gen,      \* per server: gg.endnames[i] are those of its instance gen[i]
  running,  \* per server: gg.servers[i], the current instance or 0 for nil
  killed,   \* the instances that ShutdownServer has killed
  disks,    \* per server: its Persisters, each the set of calls saved in it
  saved,    \* per server: gg.saved[i], an index into disks
  pers,     \* per instance: the Persister that StartServer was given
  clerks,   \* the clerks in cfg.clerks
  joined,   \* the groups that the controller has been told of
  tester,   \* the operation of the tester in progress
  late      \* calls made by an instance after it was killed

Shards    == Groups \X (0 .. N - 1)       \* servername(gid, i)
Names     == Shards \cup Ctrlers
Gens      == 1 .. MaxGen
Instances == Names \X Gens
Peers(s)  == {t \in Shards : t[1] = s[1]}

\* An end-point is what kind it is, whose instance it belongs to, and where it leads;
\* those that one instance makes to one server with make_end are alike.
PeerEnds(s, g) == {<<"peer", <<s, g>>, t>> : t \in Peers(s)}
CtrlEnds(x)    == {<<"ctrler", x, m>> : m \in Ctrlers}
MadeEnds(x)    == {<<"made", x, t>> : t \in Shards}
ClerkIds       == Clerks \X {1}
AllEnds ==
  UNION ({PeerEnds(s, g) : s \in Shards, g \in Gens} \cup
         {CtrlEnds(x) \cup MadeEnds(x) : x \in (Shards \X Gens) \cup ClerkIds})

INSTANCE LabRpc WITH Ends <- AllEnds, Objects <- Instances

network     == <<ends, enabled, connections, servers, reliable, netDone, netLoop>>
inFlight    == <<pc, end, srv, lossy, handler>>
harnessVars == <<gen, running, killed, disks, saved, pers, clerks, joined>>
vars        == <<network, inFlight, harnessVars, tester, late>>

Idle    == [op |-> "idle", s |-> Nil]
Disk(s) == disks[s][saved[s]]

\* The ends that StartServer makes for an instance of s.
StartEnds(s, g) == PeerEnds(s, g) \cup CtrlEnds(<<s, g>>)

\* make_config: the controllers and all groups started, nobody joined yet.
Init ==
  /\ ends = UNION {StartEnds(s, 1) : s \in Shards} /\ enabled = ends
  /\ connections = [e \in AllEnds |-> IF e \in ends THEN e[3] ELSE Nil]
  /\ servers = [n \in Names |-> <<n, 1>>]
  /\ reliable \in BOOLEAN /\ netDone = FALSE /\ netLoop = TRUE
  /\ pc = [c \in Calls |-> "idle"] /\ lossy = [c \in Calls |-> FALSE]
  /\ end = [c \in Calls |-> Nil] /\ srv = end /\ handler = [c \in Calls |-> "none"]
  /\ gen = [s \in Shards |-> 1] /\ running = gen /\ killed = {}
  /\ disks = [n \in Names |-> <<{}>>] /\ saved = [n \in Names |-> 1]
  /\ pers = [x \in Instances |-> IF x[2] = 1 THEN 1 ELSE 0]
  /\ clerks = {} /\ joined = {}
  /\ tester = Idle /\ late = {}

\* MakeEnd, Connect and Enable(true) for fresh ends; nobody knows them before.
OpenEnds(new) ==
  /\ ends' = ends \cup new /\ enabled' = enabled \cup new
  /\ connections' = [e \in AllEnds |-> IF e \in new THEN e[3] ELSE connections[e]]
  /\ UNCHANGED <<servers, reliable, netDone, netLoop, inFlight>>

-----------------------------------------------------------------------------
(* The servers and the clerks.                                             *)

\* The instances and clerks that are there, killed or not.
Actors == {x \in Shards \X Gens : pers[x] # 0} \cup {x \in ClerkIds : x[1] \in clerks}

MakeCall(c, e) ==
  /\ e[2] \in Actors
  /\ Call(c, e)
  /\ late' = IF e[2] \in killed THEN late \cup {c} ELSE late
  /\ UNCHANGED <<harnessVars, tester>>

\* make_end: an end to a server of a group in the configuration, enabled for good.
MakeEndTo(x, t) ==
  /\ x \in Actors /\ t[1] \in joined /\ <<"made", x, t>> \notin ends
  /\ OpenEnds({<<"made", x, t>>})
  /\ UNCHANGED <<harnessVars, tester, late>>

Handle(c) ==
  /\ HandlerReturn(c)
  /\ disks' = [disks EXCEPT ![srv[c][1]][pers[srv[c]]] = @ \cup {c}]
  /\ UNCHANGED <<gen, running, killed, saved, pers, clerks, joined, tester, late>>

Network(c) ==
  /\ Send(c) \/ Refuse(c) \/ ProcessReq(c)
  /\ UNCHANGED <<harnessVars, tester, late>>

-----------------------------------------------------------------------------
(* Clerks, joins and leaves.                                               *)

Unlocked == tester.op \in {"idle", "kill", "serve"} /\ ~netDone

MakeClient(ck) ==
  /\ Unlocked /\ ck \notin clerks /\ CtrlEnds(<<ck, 1>>) \cap ends = {}
  /\ clerks' = clerks \cup {ck}
  /\ OpenEnds(CtrlEnds(<<ck, 1>>))
  /\ UNCHANGED <<gen, running, killed, disks, saved, pers, joined, tester, late>>

DeleteClient(ck) ==
  /\ Unlocked /\ ck \in clerks
  /\ clerks' = clerks \ {ck}
  /\ UNCHANGED <<network, inFlight, gen, running, killed, disks, saved, pers, joined, tester, late>>

Joinm(gis) ==
  /\ tester = Idle /\ ~netDone
  /\ joined' = joined \cup gis
  /\ UNCHANGED <<network, inFlight, gen, running, killed, disks, saved, pers, clerks, tester, late>>

Leavem(gis) ==
  /\ tester = Idle /\ ~netDone
  /\ joined' = joined \ gis
  /\ UNCHANGED <<network, inFlight, gen, running, killed, disks, saved, pers, clerks, tester, late>>

-----------------------------------------------------------------------------
(* ShutdownServer and StartServer; a group is shut down and started one    *)
(* server after the other.                                                 *)

\* Mutant: the ends to the controllers are forgotten.
DisabledPeers(s) == PeerEnds(s, gen[s])

\* The two loops of ShutdownServer: gg.endnames[i] and gg.mendnames[i].
Disabled(s) == PeerEnds(s, gen[s]) \cup CtrlEnds(<<s, gen[s]>>)

\* cleanup shuts servers down that are down already.
ShutdownDisable(s) ==
  /\ tester = Idle /\ ~netDone /\ Len(disks[s]) < MaxDisks
  /\ enabled' = enabled \ Disabled(s)
  /\ tester' = [op |-> "delete", s |-> s]
  /\ UNCHANGED <<ends, connections, servers, reliable, netDone, netLoop, inFlight, harnessVars, late>>

ShutdownDelete ==
  /\ tester.op = "delete"
  /\ DeleteServer(tester.s)
  /\ tester' = [tester EXCEPT !.op = "copy"]
  /\ UNCHANGED <<harnessVars, late>>

\* gg.saved[i] becomes a copy of itself.
Copy(s) ==
  /\ disks' = [disks EXCEPT ![s] = Append(@, Disk(s))]
  /\ saved' = [saved EXCEPT ![s] = Len(disks[s]) + 1]

ShutdownCopy ==
  /\ tester.op = "copy"
  /\ Copy(tester.s)
  /\ tester' = [tester EXCEPT !.op = "kill"]
  /\ UNCHANGED <<network, inFlight, gen, running, killed, pers, clerks, joined, late>>

ShutdownKill ==
  LET s == tester.s IN
  /\ tester.op = "kill"
  /\ killed' = IF running[s] = 0 THEN killed ELSE killed \cup {<<s, running[s]>>}
  /\ running' = [running EXCEPT ![s] = 0]
  /\ tester' = Idle
  /\ UNCHANGED <<network, inFlight, gen, disks, saved, pers, clerks, joined, late>>

\* Mutant: fresh ends to the controllers only; those to the group are to be enabled
\* by a ConnectAll, as in kvraft.
NewCtrlEnds(s, g) == CtrlEnds(<<s, g>>)

\* The ends that a new instance gets, enabled at once.
NewEnds(s, g) == StartEnds(s, g)

\* Mutant: the Persister of the instance before is used on.
GiveOld(s, g) == pers' = [pers EXCEPT ![<<s, g>>] = pers[<<s, gen[s]>>]]

Give(s, g) == pers' = [pers EXCEPT ![<<s, g>>] = saved'[s]]

StartServer(s) ==
  LET g == gen[s] + 1 IN
  /\ tester = Idle /\ ~netDone /\ running[s] = 0 /\ g <= MaxGen
  /\ gen' = [gen EXCEPT ![s] = g]
  /\ OpenEnds(NewEnds(s, g))
  /\ Copy(s)
  /\ Give(s, g)
  /\ running' = [running EXCEPT ![s] = g]
  /\ tester' = [op |-> "serve", s |-> s]
  /\ UNCHANGED <<killed, clerks, joined, late>>

StartServe ==
  LET s == tester.s IN
  /\ tester.op = "serve"
  /\ AddServer(s, <<s, gen[s]>>)
  /\ tester' = Idle
  /\ UNCHANGED <<harnessVars, late>>

\* cleanup, once every group is shut down.
CleanupAll ==
  /\ tester = Idle /\ \A s \in Shards : running[s] = 0
  /\ Cleanup
  /\ UNCHANGED <<harnessVars, tester, late>>

Tester1 ==
  \/ \E ck \in Clerks : MakeClient(ck) \/ DeleteClient(ck)
  \/ \E gis \in SUBSET Groups : Joinm(gis) \/ Leavem(gis)
  \/ \E s \in Shards : ShutdownDisable(s) \/ StartServer(s)
  \/ ShutdownDelete \/ ShutdownCopy \/ ShutdownKill \/ StartServe \/ CleanupAll

Next ==
  \/ \E c \in Calls, e \in AllEnds : MakeCall(c, e)
  \/ \E x \in (Shards \X Gens) \cup ClerkIds, t \in Shards : MakeEndTo(x, t)
  \/ \E c \in Calls : Handle(c) \/ Network(c)
  \/ NetExit /\ UNCHANGED <<harnessVars, tester, late>>
  \/ Tester1

Spec == Init /\ [][Next]_vars

-----------------------------------------------------------------------------
(* Properties.                                                             *)

\* Every variable of the harness has its type; an instance has a Persister not newer
\* than the one its server has now.
TypeOK ==
  /\ RpcTypeOK
  /\ gen \in [Shards -> Gens] /\ running \in [Shards -> 0 .. MaxGen] /\ killed \subseteq Instances
  /\ disks \in [Names -> Seq(SUBSET Calls)]
  /\ \A x \in Instances : pers[x] <= saved[x[1]] /\ saved[x[1]] <= Len(disks[x[1]])
  /\ clerks \subseteq Clerks /\ joined \subseteq Groups /\ late \subseteq Calls

\* A call that returned true is in the Persister that the next instance will be given.
AckedSurvives == \A c \in Calls : pc[c] = "true" => c \in Disk(srv[c][1])

\* Two Persisters are never shared: a killed instance saves into none that a later one has.
PersistersApart == \A x, y \in Instances : x[1] = y[1] /\ x # y /\ pers[x] # 0 => pers[x] # pers[y]

\* After any shutdowns and restarts the running servers of a group reach each other,
\* although no ConnectAll follows a restart here.
GroupConnected ==
  tester = Idle =>
    \A s \in Shards : \A t \in Peers(s) : running[s] # 0 /\ running[t] # 0 =>
      <<"peer", <<s, running[s]>>, t>> \in enabled /\ servers[t] = <<t, running[t]>>

\* A call that an instance makes after it was killed over an end that StartServer made
\* for it, to a peer of its Raft or to a controller, reaches no handler.  The ends it
\* made by itself with make_end are in no table that ShutdownServer walks: they stay
\* enabled and lead to every server of the groups that joined, its own included.  What
\* "prevent this server from sending" promises holds of the first kind only.
SilentOnStartEnds ==
  \A c \in late : handler[c] # "none" \/ pc[c] = "true" => end[c][1] = "made"

=============================================================================
