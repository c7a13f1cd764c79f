------------------------------ MODULE UdpEcho ------------------------------
(***************************************************************************)
(* The UDP echo programs of cpp-socket/ch06/go: the server, the client     *)
(* with an unconnected socket (udp_client) and the one with a connected    *)
(* socket (conn_client).  Every round is one datagram and one read without *)
(* a deadline.  The network may lose, duplicate and reorder; it is         *)
(* external.                                                               *)
(***************************************************************************)
EXTENDS Naturals, BagsExt, Bags, FiniteSets

CONSTANTS
    Clients, Connected,  \* all clients, and those that run conn_client
    BufSize,             \* BUF_SIZE of both sides
    Sizes,               \* lengths of the lines typed
    MaxRounds,           \* bound: rounds of a client
    Loses, Copies, Exits,\* what can go wrong: loss, duplication, the server's end,
    Strays               \* and a datagram that the server did not send

UdpAssumption ==
    /\ Connected \subseteq Clients
    /\ BufSize \in Nat \ {0} /\ MaxRounds \in Nat
    /\ Sizes \subseteq Nat \ {0}
    /\ {Loses, Copies, Exits, Strays} \subseteq BOOLEAN

VARIABLES
    cpc,     \* "input", "read" or "ended"
    send,    \* each client's buffer: the round its line was typed in, its size
    round,   \* rounds begun
    printed, \* the datagram printed last, or NoEcho
    refused, \* a connected socket's pending error
    up,      \* the server runs
    toServer, toClient, \* datagrams under way
    disturbed \* bound: the network has made its one copy, or a stranger sent its one datagram

vars == <<cpc, send, round, printed, refused, up, toServer, toClient, disturbed>>

NoEcho == [by |-> "none"]

\* A datagram: addr is the client's address, its source on the way to the server and
\* its destination on the way back; by is whose bytes it carries; line, size, round
\* and sent tell which.
Stranger == "stranger"

Init ==
    /\ cpc = [c \in Clients |-> "input"]
    /\ send = [c \in Clients |-> [line |-> 0, size |-> BufSize]]
    /\ round = [c \in Clients |-> 0]
    /\ printed = [c \in Clients |-> NoEcho]
    /\ refused = [c \in Clients |-> FALSE]
    /\ up = TRUE
    /\ toServer = EmptyBag /\ toClient = EmptyBag
    /\ disturbed = FALSE

\* What a datagram leaves in a buffer of BUF_SIZE bytes: the rest is dropped.
Kept(n) == IF n > BufSize THEN BufSize ELSE n

Goto(c, l) == cpc' = [cpc EXCEPT ![c] = l]

-----------------------------------------------------------------------------
(* The clients *)

\* WriteTo or Write: the datagram is under way, unless a pending error of a
\* connected socket is what the call returns; neither client looks.
Write(c, line) ==
    /\ send' = [send EXCEPT ![c] = line]
    /\ round' = [round EXCEPT ![c] = @ + 1]
    /\ refused' = [refused EXCEPT ![c] = FALSE]
    /\ toServer' = IF refused[c] THEN toServer
                   ELSE BagAdd(toServer, [addr |-> c, by |-> c, line |-> line.line, size |-> line.size,
                                          round |-> round[c] + 1, sent |-> line.size])
    /\ Goto(c, "read")
    /\ UNCHANGED <<printed, up, toClient, disturbed>>

\* A line is typed and sent.
Input(c) ==
    /\ cpc[c] = "input" /\ round[c] < MaxRounds
    /\ \E n \in Sizes : Write(c, [line |-> round[c] + 1, size |-> n])

\* Scanln fails (an empty line, the end of the input): udp_client leaves its
\* loop; conn_client ignores the error and sends its buffer once more.
InputFails(c) ==
    /\ cpc[c] = "input" /\ round[c] < MaxRounds
    /\ IF c \in Connected
       THEN Write(c, send[c])
       ELSE /\ Goto(c, "ended")
            /\ UNCHANGED <<send, round, printed, refused, up, toServer, toClient, disturbed>>

\* The read takes any datagram that came to the client's port, whoever sent it, and
\* prints the bytes it got.
ClientRead(c) ==
    /\ cpc[c] = "read"
    /\ \E d \in BagToSet(toClient) :
        /\ d.addr = c
        /\ toClient' = BagRemove(toClient, d)
        /\ printed' = [printed EXCEPT ![c] = [d EXCEPT !.size = Kept(@)]]
    /\ Goto(c, "input")
    /\ UNCHANGED <<send, round, refused, up, toServer, disturbed>>

\* Read of a connected socket returns the error, and nothing is printed.
ReadFails(c) ==
    /\ cpc[c] = "read" /\ refused[c]
    /\ refused' = [refused EXCEPT ![c] = FALSE]
    /\ printed' = [printed EXCEPT ![c] = NoEcho]
    /\ Goto(c, "input")
    /\ UNCHANGED <<send, round, up, toServer, toClient, disturbed>>

-----------------------------------------------------------------------------
(* The server *)

(* As if all of buf went back, whatever the datagram's length. *)
ServeWhole ==
    /\ up
    /\ \E d \in BagToSet(toServer) :
        /\ toServer' = BagRemove(toServer, d)
        /\ toClient' = BagAdd(toClient, [d EXCEPT !.size = BufSize])
    /\ UNCHANGED <<cpc, send, round, printed, refused, up, disturbed>>

(* As if the echo were sent twice. *)
ServeTwice ==
    /\ up
    /\ \E d \in BagToSet(toServer) :
        /\ toServer' = BagRemove(toServer, d)
        /\ LET e == [d EXCEPT !.size = Kept(@)]
           IN toClient' = BagAdd(BagAdd(toClient, e), e)
    /\ UNCHANGED <<cpc, send, round, printed, refused, up, disturbed>>

(* As if a datagram that fills the buffer were taken for a broken one. *)
ServeShort ==
    /\ up
    /\ \E d \in BagToSet(toServer) :
        /\ toServer' = BagRemove(toServer, d)
        /\ toClient' = IF d.size < BufSize THEN BagAdd(toClient, d) ELSE toClient
    /\ UNCHANGED <<cpc, send, round, printed, refused, up, disturbed>>

\* ReadFrom, and WriteTo with what was read to the address it came from.
Serve ==
    /\ up
    /\ \E d \in BagToSet(toServer) :
        /\ toServer' = BagRemove(toServer, d)
        /\ toClient' = BagAdd(toClient, [d EXCEPT !.size = Kept(@)])
    /\ UNCHANGED <<cpc, send, round, printed, refused, up, disturbed>>

\* ReadFrom fails and the server exits.
ServerExits ==
    /\ Exits /\ up
    /\ up' = FALSE
    /\ UNCHANGED <<cpc, send, round, printed, refused, toServer, toClient, disturbed>>

-----------------------------------------------------------------------------
(* The network *)

\* Nobody has the port: a connected socket learns of it, another does not.
Unreachable ==
    /\ ~up
    /\ \E d \in BagToSet(toServer) :
        /\ toServer' = BagRemove(toServer, d)
        /\ refused' = [refused EXCEPT ![d.addr] = @ \/ d.addr \in Connected]
    /\ UNCHANGED <<cpc, send, round, printed, up, toClient, disturbed>>

Lose ==
    /\ Loses
    /\ \/ \E d \in BagToSet(toServer) : toServer' = BagRemove(toServer, d) /\ UNCHANGED toClient
       \/ \E d \in BagToSet(toClient) : toClient' = BagRemove(toClient, d) /\ UNCHANGED toServer
    /\ UNCHANGED <<cpc, send, round, printed, refused, up, disturbed>>

Copy ==
    /\ Copies /\ ~disturbed
    /\ disturbed' = TRUE
    /\ \/ \E d \in BagToSet(toServer) : toServer' = BagAdd(toServer, d) /\ UNCHANGED toClient
       \/ \E d \in BagToSet(toClient) : toClient' = BagAdd(toClient, d) /\ UNCHANGED toServer
    /\ UNCHANGED <<cpc, send, round, printed, refused, up>>

\* Somebody else sends to a client's port; the kernel keeps it from a connected socket.
Stray(c) ==
    /\ Strays /\ ~disturbed /\ c \notin Connected
    /\ disturbed' = TRUE
    /\ \E n \in Sizes :
        toClient' = BagAdd(toClient, [addr |-> c, by |-> Stranger, line |-> 0, size |-> n,
                                      round |-> 0, sent |-> n])
    /\ UNCHANGED <<cpc, send, round, printed, refused, up, toServer>>

Next ==
    \/ \E c \in Clients : Stray(c) \/ Input(c) \/ InputFails(c) \/ ClientRead(c) \/ ReadFails(c)
    \/ Serve \/ ServerExits \/ Unreachable \/ Lose \/ Copy

\* The programs run and the network delivers what it does not lose.
Fairness ==
    /\ WF_vars(Serve) /\ WF_vars(Unreachable)
    /\ \A c \in Clients : WF_vars(ClientRead(c)) /\ WF_vars(ReadFails(c))

Spec == Init /\ [][Next]_vars /\ Fairness

-----------------------------------------------------------------------------
(* Properties *)

\* The type of the state; a client that waits has begun a round.
TypeOK ==
    /\ cpc \in [Clients -> {"input", "read", "ended"}]
    /\ round \in [Clients -> 0 .. MaxRounds]
    /\ refused \in [Clients -> BOOLEAN] /\ {c \in Clients : refused[c]} \subseteq Connected
    /\ up \in BOOLEAN /\ disturbed \in BOOLEAN
    /\ \A d \in BagToSet(toServer) \cup BagToSet(toClient) :
        d.addr \in Clients /\ d.round \in 0 .. round[d.addr]

\* Whatever the network does, what a client prints is the beginning of a line
\* it typed itself, as much of it as fits BUF_SIZE: the server's one buffer and one
\* clientAddr mix up no two clients.  Only an unconnected socket, which does not look
\* at the sender, can also print what somebody else sent.
OwnEcho ==
    \A c \in Clients :
        LET e == printed[c]
        IN e # NoEcho => /\ e.size = Kept(e.sent)
                         /\ \/ e.by = c /\ e.line <= e.round /\ e.round <= round[c]
                            \/ e.by = Stranger /\ disturbed /\ c \notin Connected

\* Before the first duplicate or stray datagram, loss and a server that exits cannot make a client
\* read an old echo: while it types nothing of it is under way, and what it
\* printed belongs to the line it sent last.
InStep ==
    ~disturbed => \A c \in Clients :
        /\ cpc[c] = "input" /\ printed[c] # NoEcho =>
            printed[c].round = round[c] /\ printed[c].line = send[c].line
        /\ Cardinality({d \in BagToSet(toServer) \cup BagToSet(toClient) : d.addr = c})
            <= IF cpc[c] = "read" THEN 1 ELSE 0

\* A client waits for ever only when a datagram was lost: without loss every
\* round ends, and one against a server that is gone ends for a connected
\* socket.
RoundReturns ==
    \A c \in Clients :
        cpc[c] = "read" ~> cpc[c] # "read" \/ ~(up \/ c \in Connected)
=============================================================================
