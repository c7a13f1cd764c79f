----------------------------- MODULE RaftHarness -----------------------------
(***************************************************************************)
(* 6.5840/src/raft/config.go over the network of LabRpc: crashing and      *)
(* restarting a Raft server, connecting and disconnecting it, and the      *)
(* Persister (persister.go) that carries its state from one instance to    *)
(* the next.  An instance cannot really be killed: its goroutines go on    *)
(* calling, handling requests and saving after Kill.                       *)
(*                                                                         *)
(* The RPC handlers belong to the code under test, which this repository   *)
(* has as a skeleton.  A handler here saves the update it is asked for and *)
(* returns, as labrpc.go's comment on positive replies has it.             *)
(***************************************************************************)
EXTENDS Naturals, Sequences, FiniteSets

CONSTANTS
  Names,     \* the servers, 0 .. cfg.n - 1 in the code
  MaxGen,    \* bound: instances of one server
  MaxDisks,  \* bound: a server with this many Persisters is not crashed again
  Calls,     \* bound: the calls made
  Nil

HarnessAssumption ==
  /\ MaxGen \in Nat \ {0}
  /\ MaxDisks \in Nat
  /\ Nil \notin Names

VARIABLES
  ends, enabled, connections, servers, reliable, netDone, netLoop,
  pc, end, srv, lossy, handler,    \* LabRpc
  gen,        \* per server: instances started; cfg.endnames[i] are those of gen[i]
  rafts,      \* per server: cfg.rafts, the current instance or 0
  crashed,    \* the instances that crash1 has killed
  connected,  \* cfg.connected
  disks,      \* per server: its Persisters, in the order they were made
  saved,      \* per server: cfg.saved, an index into disks
  pers,       \* per instance: the Persister that Make was given
  tester,     \* the operation of the tester in progress
  late        \* calls made by an instance after crash1 killed it

Gens      == 1 .. MaxGen
Instances == Names \X Gens
AllEnds   == {<<i, g, j>> : i \in Names, g \in Gens, j \in Names}

INSTANCE LabRpc WITH Ends <- AllEnds, Objects <- Instances

network     == <<ends, enabled, connections, servers, reliable, netDone, netLoop>>
inFlight    == <<pc, end, srv, lossy, handler>>
harnessVars == <<gen, rafts, crashed, connected, disks, saved, pers>>
vars        == <<network, inFlight, harnessVars, tester, late>>

\* A Persister holds the Raft state and the snapshot: here, the updates each
\* of them contains.
Persister(raftstate, snapshot) == [raftstate |-> raftstate, snapshot |-> snapshot]

Disk(i) == disks[i][saved[i]]

\* cfg.saved[i] is set to a new Persister.
NewDisk(i, p) ==
  /\ disks' = [disks EXCEPT ![i] = Append(@, p)]
  /\ saved' = [saved EXCEPT ![i] = Len(disks[i]) + 1]

Idle == [op |-> "idle", i |-> Nil, todo |-> {}, raftlog |-> {}]

\* Mutant: only the ends that come in.
EndsInto(i) == {<<j, gen[j], i>> : j \in Names}

\* The ends of cfg.endnames that go out of server i or come in to it.
EndsOf(i) == {<<i, gen[i], j>> : j \in Names} \cup {<<j, gen[j], i>> : j \in Names}

\* What make_config leaves: every server started once and connected.
Init ==
  /\ ends = {e \in AllEnds : e[2] = 1} /\ enabled = ends
  /\ connections = [e \in AllEnds |-> IF e[2] = 1 THEN e[3] ELSE Nil]
  /\ servers = [n \in Names |-> <<n, 1>>]
  /\ reliable \in BOOLEAN
  /\ netDone = FALSE /\ netLoop = TRUE
  /\ pc = [c \in Calls |-> "idle"]
  /\ end = [c \in Calls |-> Nil]
  /\ srv = [c \in Calls |-> Nil]
  /\ lossy = [c \in Calls |-> FALSE]
  /\ handler = [c \in Calls |-> "none"]
  /\ gen = [n \in Names |-> 1]
  /\ rafts = [n \in Names |-> 1]
  /\ crashed = {}
  /\ connected = [n \in Names |-> TRUE]
  /\ disks = [n \in Names |-> <<Persister({}, {})>>]
  /\ saved = [n \in Names |-> 1]
  /\ pers = [x \in Instances |-> IF x[2] = 1 THEN 1 ELSE 0]
  /\ tester = Idle
  /\ late = {}

-----------------------------------------------------------------------------
(* The servers' side.                                                      *)

\* An instance that Make has made, killed or not, calls through one of its own ends.
MakeCall(c, e) ==
  /\ pers[<<e[1], e[2]>>] # 0
  /\ Call(c, e)
  /\ late' = IF <<e[1], e[2]>> \in crashed THEN late \cup {c} ELSE late
  /\ UNCHANGED <<harnessVars, tester>>

\* The handler saves the state with the update in it and returns: Save
\* replaces Raft state and snapshot in one step.
Handle(c) ==
  LET i == srv[c][1]
      p == pers[srv[c]]
  IN /\ HandlerReturn(c)
     /\ disks' = [disks EXCEPT ![i][p] = Persister(@.raftstate \cup {c}, @.snapshot \cup {c})]
     /\ UNCHANGED <<gen, rafts, crashed, connected, saved, pers, tester, late>>

Network(c) ==
  /\ Send(c) \/ Refuse(c) \/ ProcessReq(c)
  /\ UNCHANGED <<harnessVars, tester, late>>

-----------------------------------------------------------------------------
(* config.disconnect and config.connect: one Enable per end-point.         *)

\* The test may call the next operation; cleanup is its last one.
TesterFree == tester = Idle /\ ~netDone

Then(op) == tester' = [tester EXCEPT !.op = op]

Disconnect(i) ==
  /\ TesterFree
  /\ connected' = [connected EXCEPT ![i] = FALSE]
  /\ tester' = [Idle EXCEPT !.op = "disable", !.i = i, !.todo = EndsOf(i)]
  /\ UNCHANGED <<network, inFlight, gen, rafts, crashed, disks, saved, pers, late>>

\* The tests connect a server that is running.
ConnectServer(i) ==
  /\ TesterFree
  /\ rafts[i] # 0
  /\ connected' = [connected EXCEPT ![i] = TRUE]
  /\ tester' = [Idle EXCEPT !.op = "enable", !.i = i,
                            !.todo = {e \in EndsOf(i) : connected'[e[1]] /\ connected'[e[3]]}]
  /\ UNCHANGED <<network, inFlight, gen, rafts, crashed, disks, saved, pers, late>>

\* One Enable of the loops, and what follows the last one.
NextEnable ==
  /\ tester.op \in {"disable", "enable", "crash"}
  /\ \/ \E e \in tester.todo :
          /\ Enable(e, tester.op = "enable")
          /\ tester' = [tester EXCEPT !.todo = @ \ {e}]
     \/ /\ tester.todo = {}
        /\ tester' = IF tester.op = "crash" THEN [tester EXCEPT !.op = "delete"] ELSE Idle
        /\ UNCHANGED <<network, inFlight>>
  /\ UNCHANGED <<harnessVars, late>>

-----------------------------------------------------------------------------
(* config.crash1: disconnect, DeleteServer, Copy, Kill, a second copy.     *)

\* crash1 on its own, or as the first thing start1 does.
CrashDisconnect(i) ==
  /\ TesterFree
  /\ Len(disks[i]) < MaxDisks
  /\ connected' = [connected EXCEPT ![i] = FALSE]
  /\ tester' = [Idle EXCEPT !.op = "crash", !.i = i, !.todo = EndsOf(i)]
  /\ UNCHANGED <<network, inFlight, gen, rafts, crashed, disks, saved, pers, late>>

CrashDelete ==
  /\ tester.op = "delete"
  /\ DeleteServer(tester.i)
  /\ Then("copy")
  /\ UNCHANGED <<harnessVars, late>>

\* Mutant: the new instance is given the Persister of the old one.
CrashNoCopy ==
  /\ tester.op = "copy"
  /\ Then("kill")
  /\ UNCHANGED <<network, inFlight, harnessVars, late>>

CrashCopy ==
  /\ tester.op = "copy"
  /\ NewDisk(tester.i, Disk(tester.i))
  /\ Then("kill")
  /\ UNCHANGED <<network, inFlight, gen, rafts, crashed, connected, pers, late>>

CrashKill ==
  LET i == tester.i IN
  /\ tester.op = "kill"
  /\ crashed' = IF rafts[i] = 0 THEN crashed ELSE crashed \cup {<<i, rafts[i]>>}
  /\ rafts' = [rafts EXCEPT ![i] = 0]
  /\ Then("readState")
  /\ UNCHANGED <<network, inFlight, gen, connected, disks, saved, pers, late>>

\* ReadRaftState, then ReadSnapshot and the Save into a new Persister.
CrashReadState ==
  /\ tester.op = "readState"
  /\ tester' = [tester EXCEPT !.op = "readSnapshot", !.raftlog = Disk(tester.i).raftstate]
  /\ UNCHANGED <<network, inFlight, harnessVars, late>>

CrashReadSnapshot ==
  LET i == tester.i IN
  /\ tester.op = "readSnapshot"
  /\ NewDisk(i, Persister(tester.raftlog, Disk(i).snapshot))
  /\ tester' = [Idle EXCEPT !.op = "crashed", !.i = i]
  /\ UNCHANGED <<network, inFlight, gen, rafts, crashed, connected, pers, late>>

\* crash1 returns to a test, which may do anything else before start1.
CrashReturn ==
  /\ tester.op = "crashed"
  /\ tester' = Idle
  /\ UNCHANGED <<network, inFlight, harnessVars, late>>

-----------------------------------------------------------------------------
(* config.start1 after its crash1: fresh ends, a fresh Persister, Make,    *)
(* AddServer.                                                              *)

\* Nobody knows the new ends before Make is given them, so they are made and
\* connected in one step.
StartEnds ==
  LET i == tester.i
      g == gen[i] + 1
      new == {<<i, g, j>> : j \in Names}
  IN /\ tester.op = "crashed"
     /\ g <= MaxGen
     /\ gen' = [gen EXCEPT ![i] = g]
     /\ ends' = ends \cup new
     /\ connections' = [e \in AllEnds |-> IF e \in new THEN e[3] ELSE connections[e]]
     /\ Then("persist")
     /\ UNCHANGED <<enabled, servers, reliable, netDone, netLoop, inFlight,
                    rafts, crashed, connected, disks, saved, pers, late>>

StartMake ==
  LET i == tester.i IN
  /\ tester.op = "persist"
  /\ NewDisk(i, Disk(i))
  /\ pers' = [pers EXCEPT ![<<i, gen[i]>>] = saved'[i]]
  /\ rafts' = [rafts EXCEPT ![i] = gen[i]]
  /\ Then("serve")
  /\ UNCHANGED <<network, inFlight, gen, crashed, connected, late>>

\* Mutant: the instance is registered under its server's name only.
StartServeName ==
  LET i == tester.i IN
  /\ tester.op = "serve"
  /\ AddServer(i, i)
  /\ tester' = Idle
  /\ UNCHANGED <<harnessVars, late>>

StartServe ==
  LET i == tester.i IN
  /\ tester.op = "serve"
  /\ AddServer(i, <<i, gen[i]>>)
  /\ tester' = Idle
  /\ UNCHANGED <<harnessVars, late>>

\* setunreliable(false): no test makes a reliable network unreliable.
SetReliable ==
  /\ TesterFree
  /\ Reliable(TRUE)
  /\ UNCHANGED <<harnessVars, tester, late>>

\* cleanup: Kill, which sets a flag of the instance itself, then Network.Cleanup.
CleanupAll ==
  /\ TesterFree
  /\ Cleanup
  /\ UNCHANGED <<harnessVars, tester, late>>

Tester1 ==
  \/ \E i \in Names : Disconnect(i) \/ ConnectServer(i) \/ CrashDisconnect(i)
  \/ NextEnable
  \/ CrashDelete \/ CrashCopy \/ CrashKill \/ CrashReadState \/ CrashReadSnapshot \/ CrashReturn
  \/ StartEnds \/ StartMake \/ StartServe
  \/ SetReliable
  \/ CleanupAll

Next ==
  \/ \E c \in Calls, e \in AllEnds : MakeCall(c, e)
  \/ \E c \in Calls : Handle(c) \/ Network(c)
  \/ NetExit /\ UNCHANGED <<harnessVars, tester, late>>
  \/ Tester1

Spec == Init /\ [][Next]_vars

-----------------------------------------------------------------------------
(* Properties.                                                             *)

\* Every variable of the harness has its type.
TypeOK ==
  /\ RpcTypeOK
  /\ gen \in [Names -> Gens]
  /\ rafts \in [Names -> 0 .. MaxGen]
  /\ crashed \subseteq Instances
  /\ connected \in [Names -> BOOLEAN]
  /\ disks \in [Names -> Seq([raftstate : SUBSET Calls, snapshot : SUBSET Calls])]
  /\ saved \in [Names -> Nat]
  /\ pers \in [Instances -> Nat]
  /\ late \subseteq Calls

\* A call that returns true has its update in the Persister that the next
\* instance of the server will be given, whatever crashes and restarts happen
\* before or after (the comment in processReq on positive replies).
AckedSurvives ==
  \A c \in Calls : pc[c] = "true" => c \in Disk(srv[c][1]).raftstate

\* The Raft state and the snapshot in cfg.saved are always of the same save,
\* although crash1 reads them one after the other while the old instance may
\* still be saving.
SavedInSync ==
  \A i \in Names : Disk(i).raftstate = Disk(i).snapshot

\* A call made by an instance that crash1 has killed reaches no handler ("so that
\* old crashed instance's ClientEnds can't send").
CrashedIsSilent ==
  \A c \in late : handler[c] = "none" /\ pc[c] # "true"
=============================================================================
