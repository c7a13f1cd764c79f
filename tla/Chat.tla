-------------------------------- MODULE Chat --------------------------------
(***************************************************************************)
(* The broadcast chat of cpp-socket/ch18/go: goroutine_server keeps its    *)
(* connections in an array under a mutex, one goroutine per connection     *)
(* reads and writes what it read to all of them; goroutine_client has a    *)
(* goroutine that sends and one that receives.  A stream is a sequence of  *)
(* bytes, a byte is its sender and its place among the bytes it sent: Read *)
(* returns any part of what has arrived.                                   *)
(***************************************************************************)
EXTENDS Naturals, FiniteSets, Sequences

CONSTANTS
    Clients,
    Cap,      \* CLIENT_CAP
    BufSize,  \* BUF_SIZE
    SockCap,  \* what a client's socket takes before a Write to it blocks
    MaxSend   \* bound: bytes a client sends

Free == "free"

SizesAssumption ==
    /\ {Cap, BufSize, SockCap} \subseteq Nat \ {0} /\ BufSize <= SockCap /\ MaxSend \in Nat
    /\ Free \notin Clients

VARIABLES
    up,          \* the server process runs
    pending,     \* connections Accept has not returned yet
    cur,         \* the connection main has accepted and not yet registered
    arr, arrLen, \* connArr and connArrLen
    mut,         \* who is inside the broadcast's critical section
    hpc, buf, idx, \* a handler's place, buffer and index
    c2s, s2c,    \* bytes under way
    cst, recv,   \* the client and its receiving goroutine
    sent, got,   \* what a client has sent (how much) and received
    log, from    \* history: bytes in the order of their broadcasts; a client's start in it

serverVars == <<up, pending, cur, arr, arrLen, mut, hpc, buf, idx, log, from>>
clientVars == <<cst, recv, sent, got>>
vars == <<serverVars, clientVars, c2s, s2c>>

Init ==
    /\ up = TRUE
    /\ pending = {} /\ cur = Free
    /\ arr = [i \in 1 .. Cap |-> Free] /\ arrLen = 0
    /\ mut = Free
    /\ hpc = [c \in Clients |-> "none"]
    /\ buf = [c \in Clients |-> <<>>] /\ idx = [c \in Clients |-> 1]
    /\ c2s = [c \in Clients |-> <<>>] /\ s2c = [c \in Clients |-> <<>>]
    /\ cst = [c \in Clients |-> "new"] /\ recv = [c \in Clients |-> "none"]
    /\ sent = [c \in Clients |-> 0] /\ got = [c \in Clients |-> <<>>]
    /\ log = <<>> /\ from = [c \in Clients |-> 0]

-----------------------------------------------------------------------------
(* The server.  A critical section that cannot block is one step; only the *)
(* broadcast, whose Writes may wait for a client, keeps the mutex.         *)

Accept(c) ==
    /\ up /\ cur = Free
    /\ c \in pending
    /\ pending' = pending \ {c} /\ cur' = c
    /\ UNCHANGED <<up, arr, arrLen, mut, hpc, buf, idx, log, from, c2s, s2c>>
    /\ UNCHANGED clientVars

\* Accept fails: main leaves its loop and returns, and with it the process ends.
AcceptErr ==
    /\ up /\ cur = Free
    /\ up' = FALSE
    /\ UNCHANGED <<pending, cur, arr, arrLen, mut, hpc, buf, idx, log, from, c2s, s2c>>
    /\ UNCHANGED clientVars

\* connArr[connArrLen] = &conn, and the connection's goroutine starts.
Register ==
    /\ up /\ cur # Free /\ mut = Free
    /\ arrLen < Cap
    /\ arr' = [arr EXCEPT ![arrLen + 1] = cur]
    /\ arrLen' = arrLen + 1
    /\ hpc' = [hpc EXCEPT ![cur] = "read"]
    /\ from' = [from EXCEPT ![cur] = Len(log)]
    /\ cur' = Free
    /\ UNCHANGED <<up, pending, mut, buf, idx, log, c2s, s2c>>
    /\ UNCHANGED clientVars

\* One connection too many: the index is out of range and the process panics.
Panic ==
    /\ up /\ cur # Free /\ mut = Free
    /\ arrLen = Cap
    /\ up' = FALSE
    /\ UNCHANGED <<pending, cur, arr, arrLen, mut, hpc, buf, idx, log, from, c2s, s2c>>
    /\ UNCHANGED clientVars

HandlerRead(h) ==
    /\ up /\ hpc[h] = "read"
    /\ \E k \in 1 .. BufSize :
           /\ k <= Len(c2s[h])
           /\ buf' = [buf EXCEPT ![h] = SubSeq(c2s[h], 1, k)]
           /\ c2s' = [c2s EXCEPT ![h] = SubSeq(@, k + 1, Len(@))]
    /\ hpc' = [hpc EXCEPT ![h] = "lock"]
    /\ UNCHANGED <<up, pending, cur, arr, arrLen, mut, idx, log, from, s2c>>
    /\ UNCHANGED clientVars

\* The client is gone and everything it sent has been read.
HandlerReadErr(h) ==
    /\ up /\ hpc[h] = "read"
    /\ cst[h] = "closed" /\ c2s[h] = <<>>
    /\ hpc' = [hpc EXCEPT ![h] = "remove"]
    /\ UNCHANGED <<up, pending, cur, arr, arrLen, mut, buf, idx, log, from, c2s, s2c>>
    /\ UNCHANGED clientVars

(* As if the last entry were dropped instead of the connection's own. *)
WithoutLast(h) == arr

\* The array with the entry of h overwritten by the ones behind it; the last
\* entry stays where it was.
Without(h) ==
    LET i == CHOOSE j \in 1 .. arrLen : arr[j] = h
    IN  [j \in 1 .. Cap |-> IF j >= i /\ j < arrLen THEN arr[j + 1] ELSE arr[j]]

Remove(h) ==
    /\ up /\ hpc[h] = "remove" /\ mut = Free
    /\ arr' = Without(h)
    /\ arrLen' = arrLen - 1
    /\ hpc' = [hpc EXCEPT ![h] = "closed"]
    /\ UNCHANGED <<up, pending, cur, mut, buf, idx, log, from, c2s, s2c>>
    /\ UNCHANGED clientVars

(* As if the broadcast did not wait for the mutex. *)
LockNot(h) ==
    /\ up /\ hpc[h] = "lock"
    /\ mut' = h
    /\ hpc' = [hpc EXCEPT ![h] = "broadcast"]
    /\ idx' = [idx EXCEPT ![h] = 1]
    /\ log' = log \o buf[h]
    /\ UNCHANGED <<up, pending, cur, arr, arrLen, buf, from, c2s, s2c>>
    /\ UNCHANGED clientVars

Lock(h) ==
    /\ up /\ hpc[h] = "lock" /\ mut = Free
    /\ mut' = h
    /\ hpc' = [hpc EXCEPT ![h] = "broadcast"]
    /\ idx' = [idx EXCEPT ![h] = 1]
    /\ log' = log \o buf[h]
    /\ UNCHANGED <<up, pending, cur, arr, arrLen, buf, from, c2s, s2c>>
    /\ UNCHANGED clientVars

\* Write waits for room; to a client that is gone it fails, which is ignored.
Write(h) ==
    LET d == arr[idx[h]] IN
    /\ up /\ hpc[h] = "broadcast" /\ idx[h] <= arrLen
    /\ IF cst[d] = "open"
       THEN /\ Len(s2c[d]) + Len(buf[h]) <= SockCap
            /\ s2c' = [s2c EXCEPT ![d] = @ \o buf[h]]
       ELSE s2c' = s2c
    /\ idx' = [idx EXCEPT ![h] = @ + 1]
    /\ UNCHANGED <<up, pending, cur, arr, arrLen, mut, hpc, buf, log, from, c2s>>
    /\ UNCHANGED clientVars

(* As if a broadcast with a failed Write were tried again. *)
UnlockAndRetry(h) ==
    /\ up /\ hpc[h] = "broadcast" /\ idx[h] > arrLen
    /\ mut' = Free
    /\ hpc' = [hpc EXCEPT ![h] = IF \E i \in 1 .. arrLen : cst[arr[i]] = "closed"
                                 THEN "lock" ELSE "read"]
    /\ UNCHANGED <<up, pending, cur, arr, arrLen, buf, idx, log, from, c2s, s2c>>
    /\ UNCHANGED clientVars

(* As if a failed Write ended the handler. *)
UnlockAndLeave(h) ==
    /\ up /\ hpc[h] = "broadcast" /\ idx[h] > arrLen
    /\ mut' = Free
    /\ hpc' = [hpc EXCEPT ![h] = IF \E i \in 1 .. arrLen : cst[arr[i]] = "closed"
                                 THEN "none" ELSE "read"]
    /\ buf' = [buf EXCEPT ![h] = <<>>]
    /\ UNCHANGED <<up, pending, cur, arr, arrLen, idx, log, from, c2s, s2c>>
    /\ UNCHANGED clientVars

Unlock(h) ==
    /\ up /\ hpc[h] = "broadcast" /\ idx[h] > arrLen
    /\ mut' = Free
    /\ hpc' = [hpc EXCEPT ![h] = "read"]
    /\ buf' = [buf EXCEPT ![h] = <<>>]
    /\ UNCHANGED <<up, pending, cur, arr, arrLen, idx, log, from, c2s, s2c>>
    /\ UNCHANGED clientVars

-----------------------------------------------------------------------------
(* The clients *)

\* net.Dial, then one goroutine to send and one to receive; a failed Dial ends
\* the process.
Dial(c) ==
    /\ cst[c] = "new"
    /\ \/ /\ up
          /\ cst' = [cst EXCEPT ![c] = "open"]
          /\ recv' = [recv EXCEPT ![c] = "run"]
          /\ pending' = pending \cup {c}
       \/ /\ cst' = [cst EXCEPT ![c] = "exit1"]
          /\ UNCHANGED <<recv, pending>>
    /\ UNCHANGED <<up, cur, arr, arrLen, mut, hpc, buf, idx, log, from, c2s, s2c, sent, got>>

\* A line is written; with the server gone the error is ignored.
SendMsg(c) ==
    /\ cst[c] = "open" /\ sent[c] < MaxSend
    /\ sent' = [sent EXCEPT ![c] = @ + 1]
    /\ c2s' = IF up THEN [c2s EXCEPT ![c] = Append(@, <<c, sent[c] + 1>>)] ELSE c2s
    /\ UNCHANGED <<cst, recv, got, s2c>> /\ UNCHANGED serverVars

\* "q" closes the connection.  With unread input the kernel resets it, and what
\* was not yet transmitted is lost.
Quit(c) ==
    /\ cst[c] = "open"
    /\ cst' = [cst EXCEPT ![c] = "closed"]
    /\ \E k \in 0 .. Len(c2s[c]) :
           /\ s2c[c] = <<>> => k = Len(c2s[c])
           /\ c2s' = [c2s EXCEPT ![c] = SubSeq(@, 1, k)]
    /\ s2c' = [s2c EXCEPT ![c] = <<>>]
    /\ UNCHANGED <<recv, sent, got>> /\ UNCHANGED serverVars

RecvMsg(c) ==
    /\ cst[c] = "open" /\ recv[c] = "run"
    /\ \E k \in 1 .. BufSize :
           /\ k <= Len(s2c[c])
           /\ got' = [got EXCEPT ![c] = @ \o SubSeq(s2c[c], 1, k)]
           /\ s2c' = [s2c EXCEPT ![c] = SubSeq(@, k + 1, Len(@))]
    /\ UNCHANGED <<cst, recv, sent, c2s>> /\ UNCHANGED serverVars

\* Read fails on the closed connection, or because the server is gone.
RecvEnds(c) ==
    /\ recv[c] = "run"
    /\ cst[c] = "closed" \/ (~up /\ s2c[c] = <<>>)
    /\ recv' = [recv EXCEPT ![c] = "done"]
    /\ UNCHANGED <<cst, sent, got, c2s, s2c>> /\ UNCHANGED serverVars

Handler(h) ==
    \/ HandlerRead(h) \/ HandlerReadErr(h) \/ Remove(h)
    \/ Lock(h) \/ Write(h) \/ Unlock(h)

Main == Register \/ Panic \/ AcceptErr \/ \E c \in Clients : Accept(c)

Next ==
    \/ Main
    \/ \E c \in Clients :
           \/ Handler(c)
           \/ Dial(c) \/ SendMsg(c) \/ Quit(c) \/ RecvMsg(c) \/ RecvEnds(c)

\* The goroutines run, and a sync.Mutex starves nobody, so that main and a
\* handler get it though others take it in between.  Users do as they like.
Fairness ==
    /\ SF_vars(Register \/ Panic)
    /\ WF_vars(\E c \in Clients : Accept(c))
    /\ \A c \in Clients :
           /\ SF_vars(Remove(c)) /\ SF_vars(Lock(c))
           /\ WF_vars(HandlerRead(c) \/ HandlerReadErr(c) \/ Write(c) \/ Unlock(c))
           /\ WF_vars(RecvMsg(c) \/ RecvEnds(c))

Spec == Init /\ [][Next]_vars /\ Fairness

-----------------------------------------------------------------------------
(* Properties *)

\* Every variable has its type; the array, the buffers and the sockets keep their sizes.
TypeOK ==
    /\ up \in BOOLEAN
    /\ pending \subseteq Clients /\ cur \in Clients \cup {Free}
    /\ arrLen \in 0 .. Cap /\ \A i \in 1 .. Cap : arr[i] \in Clients \cup {Free}
    /\ mut \in Clients \cup {Free}
    /\ \A c \in Clients :
           /\ hpc[c] \in {"none", "read", "lock", "broadcast", "remove", "closed"}
           /\ Len(buf[c]) <= BufSize /\ Len(s2c[c]) <= SockCap
           /\ cst[c] \in {"new", "open", "closed", "exit1"}
           /\ recv[c] \in {"none", "run", "done"}

Connected == {c \in Clients : hpc[c] \in {"read", "lock", "broadcast", "remove"}}

\* The array holds every connection whose goroutine runs, each once: a slot is
\* neither lost nor shared, in whatever order connections come and go.
ArrayIsConnected ==
    /\ {arr[i] : i \in 1 .. arrLen} = Connected
    /\ Cardinality(Connected) = arrLen

\* Between two broadcasts a connected client has received, or will receive, the
\* bytes broadcast since it was registered, in their order and without a gap.
Delivered ==
    up /\ mut = Free =>
        \A c \in Connected :
            cst[c] = "open" => got[c] \o s2c[c] = SubSeq(log, from[c] + 1, Len(log))

\* What has been broadcast of a client is a beginning of what it sent: its bytes
\* are neither repeated nor reordered nor skipped on their way through a Read,
\* the wait for the mutex and the broadcast.
SenderOrder ==
    \A c \in Clients :
        LET own == {i \in DOMAIN log : log[i][1] = c}
            ahead == (IF hpc[c] = "lock" THEN buf[c] ELSE <<>>) \o c2s[c]
        IN  \E n \in 0 .. MaxSend :
                /\ {log[i][2] : i \in own} = 1 .. n
                /\ \A i, j \in own : i < j => log[i][2] < log[j][2]
                /\ ahead = [k \in 1 .. Len(ahead) |-> <<c, n + k>>]
                /\ up /\ cst[c] = "open" => n + Len(ahead) = sent[c]

\* A client that quits is forgotten by a server that runs, and its receiving
\* goroutine ends, so that the client's main returns.
QuitIsSeen ==
    \A c \in Clients :
        cst[c] = "closed" ~> recv[c] = "done" /\ (hpc[c] = "closed" \/ ~up)
=============================================================================
