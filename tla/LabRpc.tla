------------------------------- MODULE LabRpc -------------------------------
(***************************************************************************)
(* The simulated network 6.5840/src/labrpc/labrpc.go: ClientEnd.Call, the  *)
(* goroutine processReq that carries one request, the handler goroutine it *)
(* starts, and the operations of the tester that rewire the network while  *)
(* calls are in flight.                                                    *)
(*                                                                         *)
(* Time is abstracted: a sleep or a timer is a step that may be taken any  *)
(* time later, so short, long and reordering delays are all interleavings. *)
(***************************************************************************)
EXTENDS Naturals, FiniteSets

CONSTANTS
  Ends,     \* names of client end-points
  Names,    \* names of servers
  Objects,  \* *Server values: the instances that are registered under a name
  Calls,    \* bound: the calls made, each a call of ClientEnd.Call
  Nil

NilAssumption == Nil \notin Ends \cup Names \cup Objects

VARIABLES
  ends,         \* Network.ends: the end-points that exist
  enabled,      \* Network.enabled: the end-points that are enabled
  connections,  \* Network.connections: end-point -> server name
  servers,      \* Network.servers: server name -> instance
  reliable,     \* Network.reliable
  netDone,      \* Network.done is closed
  netLoop,      \* the goroutine of MakeNetwork is running
  pc,           \* per call: where Call and its processReq are
  end,          \* per call: the end-point used
  srv,          \* per call: the instance processReq has looked up
  lossy,        \* per call: whether processReq has read reliable = false
  handler       \* per call: the handler goroutine

netVars  == <<ends, enabled, connections, servers, reliable, netDone, netLoop>>
callVars == <<pc, end, srv, lossy, handler>>
rpcVars  == <<netVars, callVars>>

RpcInit ==
  /\ ends = {} /\ enabled = {}
  /\ connections = [e \in Ends |-> Nil]
  /\ servers = [n \in Names |-> Nil]
  /\ reliable = TRUE
  /\ netDone = FALSE /\ netLoop = TRUE
  /\ pc = [c \in Calls |-> "idle"]
  /\ end = [c \in Calls |-> Nil]
  /\ srv = [c \in Calls |-> Nil]
  /\ lossy = [c \in Calls |-> FALSE]
  /\ handler = [c \in Calls |-> "none"]

Goto(c, label) == pc' = [pc EXCEPT ![c] = label]

-----------------------------------------------------------------------------
(* ClientEnd.Call and the goroutine of MakeNetwork.                        *)

Call(c, e) ==
  /\ pc[c] = "idle"
  /\ e \in ends
  /\ end' = [end EXCEPT ![c] = e]
  /\ Goto(c, "send")
  /\ UNCHANGED <<netVars, srv, lossy, handler>>

\* The network goroutine receives the request and starts processReq.
Send(c) ==
  /\ pc[c] = "send"
  /\ netLoop
  /\ Goto(c, "process")
  /\ UNCHANGED <<netVars, end, srv, lossy, handler>>

\* The other case of the select: the network has been cleaned up.
Refuse(c) ==
  /\ pc[c] = "send"
  /\ netDone
  /\ Goto(c, "false")
  /\ UNCHANGED <<netVars, end, srv, lossy, handler>>

\* The network goroutine sees done closed; until then it may still receive.
NetExit ==
  /\ netDone /\ netLoop
  /\ netLoop' = FALSE
  /\ UNCHANGED <<ends, enabled, connections, servers, reliable, netDone, callVars>>

-----------------------------------------------------------------------------
(* processReq.                                                             *)

ServerOf(e) == IF connections[e] = Nil THEN Nil ELSE servers[connections[e]]

\* One locked read of everything that concerns the end-point.  Without a
\* server behind it the request fails after a timer.
ReadEndnameInfo(c) ==
  /\ pc[c] = "process"
  /\ IF end[c] \in enabled /\ ServerOf(end[c]) # Nil
     THEN /\ srv' = [srv EXCEPT ![c] = ServerOf(end[c])]
          /\ lossy' = [lossy EXCEPT ![c] = ~reliable]
          /\ Goto(c, "deliver")
     ELSE /\ Goto(c, "failing")
          /\ UNCHANGED <<srv, lossy>>
  /\ UNCHANGED <<netVars, end, handler>>

DropRequest(c) ==
  /\ pc[c] = "deliver"
  /\ lossy[c]
  /\ Goto(c, "failing")
  /\ UNCHANGED <<netVars, end, srv, lossy, handler>>

\* Start the handler of the instance looked up before the delay.
Dispatch(c) ==
  /\ pc[c] = "deliver"
  /\ handler' = [handler EXCEPT ![c] = "run"]
  /\ Goto(c, "await")
  /\ UNCHANGED <<netVars, end, srv, lossy>>

\* The handler returns and offers its reply on ech.
HandlerReturn(c) ==
  /\ handler[c] = "run"
  /\ handler' = [handler EXCEPT ![c] = "ready"]
  /\ UNCHANGED <<netVars, pc, end, srv, lossy>>

IsServerDead(c) ==
  \/ end[c] \notin enabled
  \/ servers[connections[end[c]]] # srv[c]

AwaitReply(c) ==
  /\ pc[c] = "await"
  /\ handler[c] = "ready"
  /\ handler' = [handler EXCEPT ![c] = "taken"]
  /\ Goto(c, "recheck")
  /\ UNCHANGED <<netVars, end, srv, lossy>>

\* Mutant: the loop asks for the server only once the handler has returned.
AwaitForever(c) ==
  /\ pc[c] = "await"
  /\ handler[c] = "ready"
  /\ IsServerDead(c)
  /\ Goto(c, "failing")
  /\ UNCHANGED <<netVars, end, srv, lossy, handler>>

\* The 100 ms poll gives up on a server that is dead; another goroutine
\* drains ech.  While the server lives the loop goes round.
AwaitPoll(c) ==
  /\ pc[c] = "await"
  /\ IsServerDead(c)
  /\ Goto(c, "failing")
  /\ UNCHANGED <<netVars, end, srv, lossy, handler>>

\* Mutant: the reply is passed on without asking again whether the server lives.
RecheckNothing(c) ==
  /\ pc[c] = "recheck"
  /\ \/ Goto(c, "replying")
     \/ lossy[c] /\ Goto(c, "failing")
  /\ UNCHANGED <<netVars, end, srv, lossy, handler>>

\* After the reply has been taken: a dead server's reply is suppressed, and
\* an unreliable network may lose it.
Recheck(c) ==
  /\ pc[c] = "recheck"
  /\ \/ (IsServerDead(c) \/ lossy[c]) /\ Goto(c, "failing")
     \/ ~IsServerDead(c) /\ Goto(c, "replying")
  /\ UNCHANGED <<netVars, end, srv, lossy, handler>>

\* The reply reaches Call, at once or when a timer fires; Call returns.
Reply(c) ==
  /\ \/ pc[c] = "failing" /\ Goto(c, "false")
     \/ pc[c] = "replying" /\ Goto(c, "true")
  /\ UNCHANGED <<netVars, end, srv, lossy, handler>>

ProcessReq(c) ==
  \/ ReadEndnameInfo(c) \/ DropRequest(c) \/ Dispatch(c) \/ AwaitReply(c)
  \/ AwaitPoll(c) \/ Recheck(c) \/ Reply(c)

-----------------------------------------------------------------------------
(* The tester's operations.  Each holds Network.mu throughout.             *)

\* The caller makes end-points with fresh names only (a duplicate is fatal).
MakeEnd(e) ==
  /\ e \notin ends
  /\ ends' = ends \cup {e}
  /\ enabled' = enabled \ {e}
  /\ connections' = [connections EXCEPT ![e] = Nil]
  /\ UNCHANGED <<servers, reliable, netDone, netLoop, callVars>>

Connect(e, n) ==
  /\ connections' = [connections EXCEPT ![e] = n]
  /\ UNCHANGED <<ends, enabled, servers, reliable, netDone, netLoop, callVars>>

Enable(e, on) ==
  /\ enabled' = IF on THEN enabled \cup {e} ELSE enabled \ {e}
  /\ UNCHANGED <<ends, connections, servers, reliable, netDone, netLoop, callVars>>

AddServer(n, o) ==
  /\ servers' = [servers EXCEPT ![n] = o]
  /\ UNCHANGED <<ends, enabled, connections, reliable, netDone, netLoop, callVars>>

DeleteServer(n) ==
  /\ servers' = [servers EXCEPT ![n] = Nil]
  /\ UNCHANGED <<ends, enabled, connections, reliable, netDone, netLoop, callVars>>

Reliable(yes) ==
  /\ reliable' = yes
  /\ UNCHANGED <<ends, enabled, connections, servers, netDone, netLoop, callVars>>

\* close(done): a second call would panic, and the testers call it once.
Cleanup ==
  /\ ~netDone
  /\ netDone' = TRUE
  /\ UNCHANGED <<ends, enabled, connections, servers, reliable, netLoop, callVars>>

-----------------------------------------------------------------------------
(* The network alone, under a tester that may call the operations in any   *)
(* order; an end-point is connected once in its lifetime.                  *)

Tester ==
  \/ \E e \in Ends : MakeEnd(e)
  \/ \E e \in ends, n \in Names : connections[e] = Nil /\ Connect(e, n)
  \/ \E e \in ends, on \in BOOLEAN : Enable(e, on)
  \/ \E n \in Names, o \in Objects : AddServer(n, o)
  \/ \E n \in Names : DeleteServer(n)
  \/ \E yes \in BOOLEAN : Reliable(yes)
  \/ Cleanup

RpcNext ==
  \/ \E c \in Calls : Send(c) \/ Refuse(c) \/ ProcessReq(c) \/ HandlerReturn(c)
  \/ \E c \in Calls, e \in Ends : Call(c, e)
  \/ NetExit
  \/ Tester

\* The goroutines of the network are scheduled; a handler may never return.
RpcFairness ==
  /\ \A c \in Calls : WF_rpcVars(Send(c) \/ Refuse(c)) /\ WF_rpcVars(ProcessReq(c))
  /\ WF_rpcVars(NetExit)

RpcSpec == RpcInit /\ [][RpcNext]_rpcVars /\ RpcFairness

-----------------------------------------------------------------------------
(* Properties.                                                             *)

Returned(c) == pc[c] \in {"true", "false"}

\* Every variable has its type.
RpcTypeOK ==
  /\ ends \subseteq Ends /\ enabled \subseteq Ends
  /\ connections \in [Ends -> Names \cup {Nil}]
  /\ servers \in [Names -> Objects \cup {Nil}]
  /\ reliable \in BOOLEAN /\ netDone \in BOOLEAN /\ netLoop \in BOOLEAN
  /\ pc \in [Calls -> {"idle", "send", "process", "deliver", "await", "recheck",
                       "failing", "replying", "true", "false"}]
  /\ end \in [Calls -> Ends \cup {Nil}]
  /\ srv \in [Calls -> Objects \cup {Nil}]
  /\ lossy \in [Calls -> BOOLEAN]
  /\ handler \in [Calls -> {"none", "run", "ready", "taken"}]

\* labrpc.go promises that Call returns, whatever happens to the network,
\* except while its handler does not return: and even then it returns once
\* the server is deleted or the end-point disabled for good.
CallReturns ==
  \A c \in Calls :
    pc[c] # "idle" ~> (Returned(c) \/ []<>(handler[c] = "run" /\ ~IsServerDead(c)))
=============================================================================
