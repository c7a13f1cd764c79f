----------------------------- MODULE ShardClerk -----------------------------
(***************************************************************************)
(* The clerks of the sharded key/value service: Get and PutAppend of       *)
(* 6.5840/src/shardkv/client.go, which look the key's group up in a cached *)
(* configuration, try the group's servers one after the other and ask the  *)
(* controller again, and Query, Join, Leave and Move of                    *)
(* shardctrler/client.go, which try the controller's servers for ever.     *)
(*                                                                         *)
(* The servers are skeletons in this repository and external here: the     *)
(* leader of the controller applies an operation and the leader of the     *)
(* group that serves the shard applies an append, whenever a request       *)
(* arrives, be it a second time or after Call has given up (labrpc).       *)
(***************************************************************************)
EXTENDS Integers, Sequences, SequencesExt, FiniteSets

CONSTANTS
  Clerks,        \* the clerks of shardkv
  Admin,         \* the tester's clerk of shardctrler (cfg.mck)
  Groups,        \* gids
  N,             \* servers of a group, and of the controller
  NShards,       \* shardctrler.NShards
  Key,           \* the first byte of the key, 0 for the empty one
  Ops,           \* the operations the clerks call: "get", "append"
  MaxOps,        \* bound: operations of a clerk
  MaxConfigs,    \* bound: configurations
  MaxElections,  \* bound: changes of a leader
  MaxStore,      \* bound: appends applied
  MaxFloating,   \* bound: abandoned requests kept at a time, the others are lost
  NoGroup        \* gid 0, the invalid group

ShardClerkAssumption ==
  /\ N \in Nat \ {0} /\ NShards \in Nat \ {0} /\ Key \in 0 .. 255
  /\ MaxOps \in Nat /\ MaxConfigs \in Nat \ {0} /\ MaxElections \in Nat
  /\ MaxStore \in Nat /\ MaxFloating \in Nat
  /\ Ops \subseteq {"get", "append"}
  /\ Admin \notin Clerks /\ NoGroup \notin Groups

VARIABLES
  ck,         \* per clerk: its operation, its configuration and its call
  configs,    \* the controller's configurations
  leader,     \* the server of each group, and of the controller, that leads
  elections,  \* how often a leader changed
  serving,    \* the group that serves the key's shard
  store,      \* the appends in the value of the key
  floating    \* requests that Call gave up on and that may still be handled

vars == <<ck, configs, leader, elections, serving, store, floating>>
service == <<configs, leader, elections, serving, store>>

Shards  == 0 .. NShards - 1
Servers == 1 .. N
Ctrler  == "ctrler"

\* key2shard.
Key2Shard(b) == b % NShards

shard == Key2Shard(Key)

\* Config #0: no groups, all shards assigned to the invalid group.
Config0 == [num |-> 0, shards |-> [s \in Shards |-> NoGroup], groups |-> {}]

Latest == configs[Len(configs)]

Actors == Clerks \cup {Admin}

NoReply == [err |-> "", cfg |-> Config0, val |-> 0]

\* MakeClerk: the configuration of a new clerk is the zero value.  The server that the
\* loops try last leads at first.
Init ==
  /\ ck = [c \in Actors |-> [pc |-> "done", op |-> "", arg |-> NoGroup, n |-> 0, cfg |-> Config0,
                             si |-> 1, reply |-> NoReply, base |-> 0, got |-> 0]]
  /\ configs = <<Config0>>
  /\ leader = [g \in Groups \cup {Ctrler} |-> N]
  /\ elections = 0 /\ serving = NoGroup /\ store = <<>> /\ floating = {}

Set(c, r) == ck' = [ck EXCEPT ![c] = r]

-----------------------------------------------------------------------------
(* The service, external.                                                  *)

\* Any assignment to the groups there are may follow a Join, a Leave or a Move.
Assign(gs) == IF gs = {} THEN {[s \in Shards |-> NoGroup]} ELSE [Shards -> gs]

NextConfig(op, g) ==
  LET gs == CASE op = "join" -> Latest.groups \cup {g}
              [] op = "leave" -> Latest.groups \ {g}
              [] op = "move" -> Latest.groups
  IN {[num |-> Len(configs), shards |-> a, groups |-> gs] : a \in Assign(gs)}

\* Server m of the controller handles a request.
CtrlHandle(m, op, g) ==
  IF m # leader[Ctrler] \/ op \notin {"join", "leave", "move"} THEN UNCHANGED configs
  ELSE Len(configs) < MaxConfigs /\ \E cfg \in NextConfig(op, g) : configs' = Append(configs, cfg)

\* Server m of group g handles a request.
KvErr(g, m) ==
  IF m # leader[g] THEN "ErrWrongLeader" ELSE IF serving # g THEN "ErrWrongGroup" ELSE "OK"

KvHandle(g, m, op, id) ==
  IF KvErr(g, m) = "OK" /\ op = "append"
  THEN Len(store) < MaxStore /\ store' = Append(store, id)
  ELSE UNCHANGED store

\* The shard is handed over to the group of the latest configuration.
Migrate ==
  /\ serving # Latest.shards[shard]
  /\ serving' = Latest.shards[shard]
  /\ UNCHANGED <<ck, configs, leader, elections, store, floating>>

Elect(g) ==
  /\ elections < MaxElections
  /\ \E m \in Servers : m # leader[g] /\ leader' = [leader EXCEPT ![g] = m]
  /\ elections' = elections + 1
  /\ UNCHANGED <<ck, configs, serving, store, floating>>

\* A request whose Call has returned false is handled after all.
LateHandle(q) ==
  /\ q \in floating
  /\ floating' = floating \ {q}
  /\ IF q.to = Ctrler THEN CtrlHandle(q.si, q.op, q.arg) /\ UNCHANGED store
     ELSE KvHandle(q.to, q.si, q.op, q.id) /\ UNCHANGED configs
  /\ UNCHANGED <<ck, leader, elections, serving>>

-----------------------------------------------------------------------------
(* Get and PutAppend.                                                      *)

\* Get, Put or Append is called; base is what the value had then.
Begin(c, op) ==
  LET k == ck[c] IN
  /\ c \in Clerks /\ k.pc = "done" /\ k.n < MaxOps
  /\ Set(c, [k EXCEPT !.pc = "look", !.op = op, !.n = @ + 1, !.base = Len(store), !.got = 0])
  /\ UNCHANGED <<service, floating>>

\* The group of the shard in the cached configuration, if it is there.
Look(c) ==
  LET k == ck[c] IN
  /\ k.pc = "look"
  /\ Set(c, [k EXCEPT !.pc = IF k.cfg.shards[shard] \in k.cfg.groups THEN "call" ELSE "query",
                      !.si = 1])
  /\ UNCHANGED <<service, floating>>

\* The loop over the servers goes on; after the last one the controller is asked.
NextServer(k) ==
  IF k.si < N THEN [k EXCEPT !.pc = "call", !.si = @ + 1] ELSE [k EXCEPT !.pc = "query", !.si = 1]

Group(k) == k.cfg.shards[shard]

\* The request is handled by the server it was sent to.
CallHandled(c) ==
  LET k == ck[c] IN
  /\ k.pc = "call"
  /\ KvHandle(Group(k), k.si, k.op, <<c, k.n>>)
  /\ Set(c, [k EXCEPT !.pc = "reply",
                      !.reply = [NoReply EXCEPT !.err = KvErr(Group(k), k.si), !.val = Len(store)]])
  /\ UNCHANGED <<configs, leader, elections, serving, floating>>

Return(k, v) == [k EXCEPT !.pc = "done", !.reply = NoReply, !.got = v]

\* Mutant: PutAppend returns on any answer but ErrWrongGroup.
AfterReplyAny(k) ==
  IF k.op = "get" \/ k.reply.err = "ErrWrongGroup" THEN [k EXCEPT !.pc = "query", !.si = 1, !.reply = NoReply]
  ELSE Return(k, k.reply.val)

\* Mutant: Get returns on any answer, with the value "" of the reply.
AfterReplyEmpty(k) ==
  IF k.reply.err = "OK" \/ k.op = "get"
  THEN Return(k, IF k.reply.err = "OK" THEN k.reply.val ELSE 0)
  ELSE [k EXCEPT !.pc = "query", !.si = 1, !.reply = NoReply]

\* Mutant: the outer loop is left out; the servers of the group are tried once more.
AfterReplyStay(k) ==
  IF k.reply.err = "OK" THEN Return(k, k.reply.val) ELSE [k EXCEPT !.pc = "call", !.si = (@ % N) + 1, !.reply = NoReply]

\* Ok (or ErrNoKey) returns, ErrWrongGroup leaves the loop, ErrWrongLeader goes on.
AfterReply(k) ==
  CASE k.reply.err = "OK" -> Return(k, k.reply.val)
    [] k.reply.err = "ErrWrongGroup" -> [k EXCEPT !.pc = "query", !.si = 1, !.reply = NoReply]
    [] OTHER -> NextServer([k EXCEPT !.reply = NoReply])

CallReturned(c) ==
  /\ ck[c].pc = "reply"
  /\ Set(c, AfterReply(ck[c]))
  /\ UNCHANGED <<service, floating>>

Request(c, to) ==
  [to |-> to, si |-> ck[c].si, op |-> ck[c].op, arg |-> ck[c].arg, id |-> <<c, ck[c].n>>]

\* The request of c may be handled later, if there is room for it.
Abandon(c, to) ==
  floating' = IF Cardinality(floating) < MaxFloating THEN floating \cup {Request(c, to)} ELSE floating

\* Call returns false: the reply is lost, or the request is, for now or for ever.
CallFailed(c) ==
  LET k == ck[c] IN
  /\ k.pc \in {"call", "reply"}
  /\ IF k.pc = "call" /\ k.op = "append" THEN Abandon(c, Group(k)) ELSE UNCHANGED floating
  /\ Set(c, NextServer([k EXCEPT !.reply = NoReply]))
  /\ UNCHANGED service

-----------------------------------------------------------------------------
(* Query, Join, Leave and Move: four copies of one loop.                   *)

\* joinm, leavem and move of the tester; a Move names a group and a shard.
AdminBegin(op, g) ==
  LET k == ck[Admin] IN
  /\ k.pc = "done"
  /\ Len(configs) < MaxConfigs
  /\ Set(Admin, [k EXCEPT !.pc = "query", !.op = op, !.arg = g, !.si = 1])
  /\ UNCHANGED <<service, floating>>

\* The request is handled by controller si; only its leader does not say WrongLeader.
AskHandled(c) ==
  LET k == ck[c] IN
  /\ k.pc = "query"
  /\ CtrlHandle(k.si, k.op, k.arg)
  /\ Set(c, [k EXCEPT !.pc = "told",
                      !.reply = IF k.si = leader[Ctrler]
                                THEN [NoReply EXCEPT !.err = "OK", !.cfg = configs'[Len(configs')]]
                                ELSE [NoReply EXCEPT !.err = "WrongLeader"]])
  /\ UNCHANGED <<leader, elections, serving, store, floating>>

\* The next controller, from the first again after a sleep.
NextCtrler(k) == [k EXCEPT !.pc = "query", !.si = (@ % N) + 1, !.reply = NoReply]

\* Mutant: the configuration of any reply is used.
AfterAskAny(c, k) ==
  IF c = Admin THEN [k EXCEPT !.pc = "done", !.reply = NoReply]
  ELSE [k EXCEPT !.pc = "look", !.cfg = k.reply.cfg, !.reply = NoReply]

\* A reply without WrongLeader ends the loop; Query hands its configuration to the clerk.
AfterAsk(c, k) ==
  IF k.reply.err # "OK" THEN NextCtrler(k)
  ELSE IF c = Admin THEN [k EXCEPT !.pc = "done", !.reply = NoReply]
  ELSE [k EXCEPT !.pc = "look", !.cfg = k.reply.cfg, !.reply = NoReply]

AskReturned(c) ==
  /\ ck[c].pc = "told"
  /\ Set(c, AfterAsk(c, ck[c]))
  /\ UNCHANGED <<service, floating>>

AskFailed(c) ==
  LET k == ck[c] IN
  /\ k.pc \in {"query", "told"}
  /\ IF k.pc = "query" /\ c = Admin THEN Abandon(c, Ctrler) ELSE UNCHANGED floating
  /\ Set(c, NextCtrler(k))
  /\ UNCHANGED service

ClerkStep(c) ==
  \/ Look(c) \/ CallHandled(c) \/ CallReturned(c) \/ CallFailed(c)
  \/ AskHandled(c) \/ AskReturned(c) \/ AskFailed(c)

Next ==
  \/ \E c \in Clerks, op \in Ops : Begin(c, op)
  \/ \E c \in Actors : ClerkStep(c)
  \/ \E op \in {"join", "leave", "move"}, g \in Groups : AdminBegin(op, g)
  \/ Migrate
  \/ \E g \in Groups \cup {Ctrler} : Elect(g)
  \/ \E q \in floating : LateHandle(q)

\* A request to one server succeeds sometimes when it is made again and again, and so
\* does its reply; the group of the configuration is handed the shard.
Fairness ==
  /\ WF_vars(Migrate)
  /\ \A c \in Clerks :
       /\ WF_vars(ClerkStep(c))
       /\ \A m \in Servers :
            /\ SF_vars(ck[c].si = m /\ CallHandled(c)) /\ SF_vars(ck[c].si = m /\ CallReturned(c))
            /\ SF_vars(ck[c].si = m /\ AskHandled(c)) /\ SF_vars(ck[c].si = m /\ AskReturned(c))

Spec == Init /\ [][Next]_vars

FairSpec == Spec /\ Fairness

-----------------------------------------------------------------------------
(* Properties.                                                             *)

\* Every variable has its type.
TypeOK ==
  /\ \A c \in Actors :
       /\ ck[c].pc \in {"done", "look", "call", "reply", "query", "told"}
       /\ ck[c].si \in Servers /\ ck[c].n \in 0 .. MaxOps
       /\ ck[c].cfg \in Range(configs)
  /\ serving \in Groups \cup {NoGroup} /\ Len(configs) <= MaxConfigs

Done(c) == ck[c].pc = "done"

\* The appends of a clerk that returned are in the value, and took effect for the first
\* time in the order they were called, whatever was retried, lost or handled late.
FirstIn(x) == CHOOSE i \in DOMAIN store : store[i] = x /\ \A j \in 1 .. i - 1 : store[j] # x
AppendsInOrder ==
  \A c \in Clerks :
    /\ Done(c) /\ ck[c].op = "append" => <<c, ck[c].n>> \in Range(store)
    /\ \A x, y \in Range(store) :
         x[1] = c /\ y[1] = c /\ x[2] < y[2] => FirstIn(x) < FirstIn(y)

\* A Get returns a value that the key had after the Get was called.
ReadInInterval == \A c \in Clerks : Done(c) /\ ck[c].op = "get" => ck[c].got >= ck[c].base

\* The configuration a clerk works with never goes back.
ConfigMonotonic == [][\A c \in Clerks : ck'[c].cfg.num >= ck[c].cfg.num]_vars

\* If in the end the shard has a group, every operation returns ("keeps trying forever").
OperationsReturn ==
  <>[](Latest.shards[shard] # NoGroup) => \A c \in Clerks : ~Done(c) ~> Done(c)
=============================================================================
