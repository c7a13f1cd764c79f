----------------------------- MODULE UserService -----------------------------
(***************************************************************************)
(* The user service of go-proj: the gin handlers of api/user_api.go with   *)
(* service/user_service.go and dao/user_dao.go below them, the token       *)
(* middleware (middleware/authorize.go), the tokens (util/jwt.go), and the *)
(* start and graceful shutdown of router/router.go.                        *)
(*                                                                         *)
(* Every request is a goroutine; a step of it is one query of MySQL or one *)
(* command of Redis, which are the atomic things in this program.  Gorm's  *)
(* soft delete, Save and Find and Redis' expiry are external.              *)
(***************************************************************************)
EXTENDS Integers, FiniteSets

CONSTANTS
  Reqs,         \* bound: the requests in progress at a time
  Kinds,        \* the requests of this instance
  Names,        \* usernames
  DbFails,      \* whether SelectUserByUsername may fail in InsertUser
  MaxId,        \* bound: rows of t_users
  MaxTime,      \* bound: the seconds that pass
  RedisExpire,  \* redis.expire in settings.yml, in seconds
  JwtExpire,    \* jwt.expire in settings.yml
  Second,       \* time.Second, in nanoseconds
  Width,        \* the bits of a time.Duration
  None

ServiceAssumption ==
  /\ Kinds \subseteq {"login", "select", "insert", "page", "update", "delete"}
  /\ MaxId \in Nat \ {0} /\ MaxTime \in Nat /\ RedisExpire \in Nat \ {0}
  /\ JwtExpire \in Nat /\ Second \in Nat \ {0} /\ Width \in Nat \ {0}
  /\ DbFails \in BOOLEAN
  /\ None \notin Names \cup [id : 1 .. MaxId, iat : 0 .. MaxTime]

VARIABLES
  users,    \* t_users: id -> [name, st]; st is "none", "live" or "deleted"
  token,    \* Redis: "token<id>" -> the token, or None
  ttl,      \* Redis: the seconds "token<id>" has left
  info,     \* Redis: the seconds "user<id>" (the LoginInfo) has left
  now,      \* the clock, in seconds
  req,      \* the requests in progress
  issued,   \* the tokens that clients have been given
  stored,   \* history: per user, the last token a login stored
  buried,   \* history: the rows deleted while no UpdateUser had read and not yet saved them
  server    \* http.Server: "up", "deaf", "draining", "down"; "cut": Shutdown timed out

vars == <<users, token, ttl, info, now, req, issued, stored, buried, server>>
redis == <<token, ttl, info>>

Ids    == 1 .. MaxId
\* A token is its claims; the username among them follows from the id.
Tokens == [id : Ids, iat : 0 .. MaxTime]
Rows   == [name : Names \cup {None}, st : {"none", "live", "deleted"}]
Live   == {i \in Ids : users[i].st = "live"}
Free   == [pc |-> "free", kind |-> "", id |-> 0, name |-> None, tok |-> None]

\* First(&user) with a username: the live row with the smallest id.
Find(n) == LET s == {i \in Live : users[i].name = n}
           IN IF s = {} THEN 0 ELSE CHOOSE i \in s : \A j \in s : i <= j

\* cmd.Start: settings read, database and Redis connected, the router running, or deaf
\* because ListenAndServe failed; the table has the users it was left with, here one.
Init ==
  /\ \E n \in Names :
       users = [i \in Ids |-> IF i = 1 THEN [name |-> n, st |-> "live"]
                                       ELSE [name |-> None, st |-> "none"]]
  /\ token = [i \in Ids |-> None] /\ ttl = [i \in Ids |-> 0] /\ info = ttl
  /\ now = 0
  /\ req = [r \in Reqs |-> Free]
  /\ issued = {} /\ stored = token /\ buried = {}
  /\ server \in {"up", "deaf"}

Alive == server \in {"up", "draining"}

At(r, pc) == Alive /\ req[r].pc = pc

Goto(r, pc) == req' = [req EXCEPT ![r].pc = pc]

\* Ok and Err abort the chain with the response: the goroutine is over.
Respond(r) == req' = [req EXCEPT ![r] = Free]

\* The query or the command fails, and the request is answered with Err.
Fail(r) ==
  /\ Alive /\ req[r].pc \notin {"free", "renew"}
  /\ Respond(r)
  /\ UNCHANGED <<users, redis, now, issued, stored, buried, server>>

-----------------------------------------------------------------------------
(* util/jwt.go.                                                            *)

\* expire is already a Duration when GenToken multiplies it by time.Second again;
\* the product wraps at the width of a Duration.
JwtLife ==
  LET half == 2 ^ (Width - 1)
  IN ((JwtExpire * Second * Second + half) % (2 * half)) - half

GenToken(i) == [id |-> i, iat |-> now]

\* ParseToken refuses a token whose ExpiresAt has passed.
ParseToken(t) == now * Second < t.iat * Second + JwtLife

-----------------------------------------------------------------------------
(* Login.                                                                  *)

\* A request arrives: the binding fails and is answered at once (no step), or
\* the handler is entered: the public one, or the middleware with some token.
Arrive(r, k, i, n, t) ==
  /\ server = "up" /\ req[r] = Free
  /\ k \in Kinds
  /\ req' = [req EXCEPT ![r] = [pc |-> IF k = "login" THEN "login" ELSE "auth",
                                kind |-> k, id |-> i, name |-> n, tok |-> t]]
  /\ UNCHANGED <<users, redis, now, issued, stored, buried, server>>

\* SelectUserByUsername and GenToken; a wrong name or password is a Fail.
Login(r) ==
  LET i == Find(req[r].name) IN
  /\ At(r, "login") /\ i # 0
  /\ req' = [req EXCEPT ![r].pc = "setToken", ![r].id = i, ![r].tok = GenToken(i)]
  /\ UNCHANGED <<users, redis, now, issued, stored, buried, server>>

\* The token is stored with its TTL.
SetToken(r) ==
  LET i == req[r].id IN
  /\ At(r, "setToken")
  /\ token' = [token EXCEPT ![i] = req[r].tok]
  /\ ttl' = [ttl EXCEPT ![i] = RedisExpire]
  /\ stored' = [stored EXCEPT ![i] = req[r].tok]
  /\ Goto(r, "setInfo")
  /\ UNCHANGED <<users, info, now, issued, buried, server>>

\* The LoginInfo is stored and the client gets its token; after a Fail here the
\* client has none, although the token of the previous login is gone.
SetInfo(r) ==
  LET i == req[r].id IN
  /\ At(r, "setInfo")
  /\ info' = [info EXCEPT ![i] = RedisExpire] /\ issued' = issued \cup {req[r].tok}
  /\ Respond(r)
  /\ UNCHANGED <<users, token, ttl, now, stored, buried, server>>

-----------------------------------------------------------------------------
(* The Authorize middleware.                                               *)

\* ParseToken and the comparison with the stored token.
AuthGet(r) ==
  LET t == req[r].tok IN
  /\ At(r, "auth")
  /\ IF ParseToken(t) /\ token[t.id] = t THEN Goto(r, "ttl") ELSE Respond(r)
  /\ UNCHANGED <<users, redis, now, issued, stored, buried, server>>

\* TTL of a key that has expired since the Get is negative.
AuthTtl(r) ==
  /\ At(r, "ttl")
  /\ IF ttl[req[r].tok.id] > 0 THEN Goto(r, "renew") ELSE Respond(r)
  /\ UNCHANGED <<users, redis, now, issued, stored, buried, server>>

\* ctx.Next: the handler runs.
Admit(r) == Goto(r, req[r].kind)

\* Mutant: the token is written back with its new TTL.
AuthRenewSet(r) ==
  LET i == req[r].tok.id IN
  /\ At(r, "renew")
  /\ token' = [token EXCEPT ![i] = req[r].tok]
  /\ ttl' = [ttl EXCEPT ![i] = RedisExpire]
  /\ Admit(r)
  /\ UNCHANGED <<users, info, now, issued, stored, buried, server>>

\* Expire renews whatever is stored under the key now, and nothing if the key is
\* gone or Redis fails; its result is ignored and the handler runs.
AuthRenew(r) ==
  LET i == req[r].tok.id IN
  /\ At(r, "renew")
  /\ \/ token[i] # None /\ ttl' = [ttl EXCEPT ![i] = RedisExpire]
     \/ UNCHANGED ttl
  /\ Admit(r)
  /\ UNCHANGED <<users, token, info, now, issued, stored, buried, server>>

-----------------------------------------------------------------------------
(* The handlers behind the middleware.                                     *)

\* SelectUserById answers with the row or with an error: nothing changes.
SelectUserById(r) ==
  /\ At(r, "select") /\ Respond(r)
  /\ UNCHANGED <<users, redis, now, issued, stored, buried, server>>

\* InsertUser takes any error of the query to mean that the username is free, a
\* failure of the database (if DbFails) too; storing the avatar may Fail before it.
InsertUser(r) ==
  /\ At(r, "insert")
  /\ IF Find(req[r].name) = 0 THEN Goto(r, "create")
     ELSE Respond(r) \/ (DbFails /\ Goto(r, "create"))
  /\ UNCHANGED <<users, redis, now, issued, stored, buried, server>>

\* Save without a primary key: Create, with the next id (BeforeCreate hashes
\* the password).
CreateUser(r) ==
  LET i == Cardinality({j \in Ids : users[j].st # "none"}) + 1 IN
  /\ At(r, "create") /\ i <= MaxId
  /\ users' = [users EXCEPT ![i] = [name |-> req[r].name, st |-> "live"]]
  /\ Respond(r)
  /\ UNCHANGED <<redis, now, issued, stored, buried, server>>

\* Mutant: the error of the read is dropped.
UpdateUnread(r) ==
  /\ At(r, "update") /\ Goto(r, "save")
  /\ UNCHANGED <<users, redis, now, issued, stored, buried, server>>

\* UpdateUser reads the row, which must be there,
UpdateUser(r) ==
  /\ At(r, "update")
  /\ IF req[r].id \in Live THEN Goto(r, "save") ELSE Respond(r)
  /\ UNCHANGED <<users, redis, now, issued, stored, buried, server>>

\* and saves all its fields; a row that is no longer live is not updated, and gorm
\* then inserts it, overwriting the deleted one.
SaveUser(r) ==
  /\ At(r, "save")
  /\ users' = [users EXCEPT ![req[r].id] = [name |-> req[r].name, st |-> "live"]]
  /\ Respond(r)
  /\ UNCHANGED <<redis, now, issued, stored, buried, server>>

\* An UpdateUser has read row i and not saved it yet.
Saving(i) == \E r \in Reqs : req[r].pc = "save" /\ req[r].id = i

\* DeleteUserById soft-deletes; deleting nothing is no error.
DeleteUserById(r) ==
  LET i == req[r].id IN
  /\ At(r, "delete")
  /\ users' = IF i \in Live THEN [users EXCEPT ![i].st = "deleted"] ELSE users
  /\ buried' = IF users[i].st = "none" \/ Saving(i) THEN buried ELSE buried \cup {i}
  /\ Respond(r)
  /\ UNCHANGED <<redis, now, issued, stored, server>>

\* SelectPaginatedUsers: the query of the page, some live rows in no stated order,
\* then the count of all rows.
SelectPaginatedUsers(r) ==
  /\ At(r, "page") /\ Goto(r, "count")
  /\ UNCHANGED <<users, redis, now, issued, stored, buried, server>>

CountUsers(r) ==
  /\ At(r, "count") /\ Respond(r)
  /\ UNCHANGED <<users, redis, now, issued, stored, buried, server>>

-----------------------------------------------------------------------------
(* Time, and router/router.go.                                             *)

\* Mutant: only the LoginInfo is removed when its TTL runs out.
TickKeepsToken ==
  /\ Alive /\ now < MaxTime
  /\ now' = now + 1
  /\ ttl' = [i \in Ids |-> IF ttl[i] = 0 THEN 0 ELSE ttl[i] - 1]
  /\ info' = [i \in Ids |-> IF info[i] = 0 THEN 0 ELSE info[i] - 1]
  /\ UNCHANGED <<users, token, req, issued, stored, buried, server>>

\* A second passes; a key whose TTL runs out is gone.
Tick ==
  /\ Alive /\ now < MaxTime
  /\ now' = now + 1
  /\ ttl' = [i \in Ids |-> IF ttl[i] = 0 THEN 0 ELSE ttl[i] - 1]
  /\ info' = [i \in Ids |-> IF info[i] = 0 THEN 0 ELSE info[i] - 1]
  /\ token' = [i \in Ids |-> IF ttl'[i] = 0 THEN None ELSE token[i]]
  /\ UNCHANGED <<users, req, issued, stored, buried, server>>

\* SIGINT or SIGTERM: Shutdown closes the listener and waits for the handlers.
Signal ==
  /\ server \in {"up", "deaf"} /\ server' = "draining"
  /\ UNCHANGED <<users, redis, now, req, issued, stored, buried>>

\* Shutdown returns nil once every connection is idle.
Drained ==
  /\ server = "draining" /\ \A r \in Reqs : req[r] = Free
  /\ server' = "down"
  /\ UNCHANGED <<users, redis, now, req, issued, stored, buried>>

\* The five seconds are over: Shutdown returns an error and the process ends.
ShutdownTimeout ==
  /\ server = "draining" /\ server' = "cut"
  /\ UNCHANGED <<users, redis, now, req, issued, stored, buried>>

\* What a request carries: the id in its path, the username in its body, its token.
IdIn(k)    == IF k \in {"select", "update", "delete"} THEN Ids ELSE {0}
NameIn(k)  == IF k \in {"login", "insert", "update"} THEN Names ELSE {None}
TokenIn(k) == IF k = "login" THEN {None} ELSE issued

Handler(r) ==
  \/ \E k \in Kinds : \E i \in IdIn(k), n \in NameIn(k), t \in TokenIn(k) : Arrive(r, k, i, n, t)
  \/ Fail(r) \/ Login(r) \/ SetToken(r) \/ SetInfo(r)
  \/ AuthGet(r) \/ AuthTtl(r) \/ AuthRenew(r)
  \/ SelectUserById(r) \/ InsertUser(r) \/ CreateUser(r) \/ UpdateUser(r) \/ SaveUser(r)
  \/ DeleteUserById(r) \/ SelectPaginatedUsers(r) \/ CountUsers(r)

Next == (\E r \in Reqs : Handler(r)) \/ Tick \/ Signal \/ Drained \/ ShutdownTimeout

Spec == Init /\ [][Next]_vars

-----------------------------------------------------------------------------
(* Properties.                                                             *)

\* Every variable has its type, and a stored token has time left.
TypeOK ==
  /\ users \in [Ids -> Rows]
  /\ token \in [Ids -> Tokens \cup {None}] /\ stored \in [Ids -> Tokens \cup {None}]
  /\ ttl \in [Ids -> 0 .. RedisExpire] /\ info \in [Ids -> 0 .. RedisExpire]
  /\ \A i \in Ids : token[i] = None <=> ttl[i] = 0
  /\ now \in 0 .. MaxTime /\ issued \subseteq Tokens /\ buried \subseteq Ids
  /\ server \in {"up", "deaf", "draining", "down", "cut"}

\* The last login wins: a stored token is the one that the last login stored, though
\* requests that were checked against the token before it still renew the key.
LastLoginWins == \A i \in Ids : token[i] \in {None, stored[i]}

\* A delete is final: a row that was deleted while no UpdateUser stood between its
\* read and its Save stays deleted, whatever is inserted and updated later.  (An
\* UpdateUser that has read the row before does bring it back: gorm's Save inserts
\* what it cannot update.)
DeleteIsFinal == \A i \in buried : users[i].st = "deleted"
=============================================================================
