-------------------------------- MODULE Echo --------------------------------
(***************************************************************************)
(* The TCP echo programs of cpp-socket: ch04/go on the connection itself,  *)
(* ch15/go through bufio.  The client sends a line, Reads once and prints  *)
(* what that Read returned as the echo; the server writes back what it     *)
(* read.  Streams keep the order of bytes, so a stream is the number of    *)
(* bytes in it; rounds go on for ever.                                     *)
(***************************************************************************)
EXTENDS Integers, FiniteSetsExt

CONSTANTS
    Kinds,    \* a subset of {"ch04", "ch15"}
    MaxLine,  \* bound: the longest line the user types
    BufSize,  \* BUF_SIZE
    BioSize,  \* the buffer of a bufio.Reader
    SockCap,  \* what a socket's buffers hold in one direction
    Split     \* whether TCP may deliver a Write in several pieces

EchoAssumption ==
    /\ Kinds \subseteq {"ch04", "ch15"} /\ Split \in BOOLEAN
    /\ {MaxLine, BufSize, BioSize, SockCap} \subseteq Nat \ {0}

VARIABLES
    kind,
    cpc, send, unsent,  \* the client, the length of its line, the part its Write still holds
    c2s, sbio,          \* bytes in the socket to the server, in the server's bufio.Reader
    spc, hold,          \* the server and the bytes its Write still holds
    s2c, cbio,          \* bytes in the socket to the client, in the client's bufio.Reader
    owed                \* bytes the client has sent less those it has printed

vars == <<kind, cpc, send, unsent, c2s, sbio, spc, hold, s2c, cbio, owed>>
clientVars == <<cpc, send, unsent, cbio, owed>>
serverVars == <<spc, hold, sbio>>

Init ==
    /\ kind \in Kinds
    /\ cpc = "input" /\ send = BufSize /\ unsent = 0   \* make([]byte, BUF_SIZE)
    /\ c2s = 0 /\ s2c = 0
    /\ spc = "read" /\ hold = 0
    /\ sbio = 0 /\ cbio = 0
    /\ owed = 0

\* The pieces in which n bytes may pass.
Pieces(n) == IF Split THEN 1 .. n ELSE {n} \ {0}

-----------------------------------------------------------------------------
(* The client *)

\* Bytes on their way from the client's Write to its print.
Outstanding == unsent + c2s + sbio + hold + s2c + cbio

\* Scanf: a line, or an error that leaves the line before it in place.
Input ==
    /\ cpc = "input"
    /\ \E n \in 1 .. MaxLine \cup {send} :
           /\ send' = n /\ unsent' = n
           /\ owed' = owed + n
    /\ cpc' = "write"
    /\ UNCHANGED <<kind, c2s, s2c, cbio>> /\ UNCHANGED serverVars

\* Write (in ch15: Write and Flush) returns when the socket has taken it all.
ClientWrite ==
    /\ cpc = "write" /\ unsent > 0
    /\ \E n \in Pieces(Min({unsent, SockCap - c2s})) :
           c2s' = c2s + n /\ unsent' = unsent - n
    /\ cpc' = IF unsent' = 0 THEN "read" ELSE "write"
    /\ UNCHANGED <<kind, send, s2c, cbio, owed>> /\ UNCHANGED serverVars

(* As if the buffer were a byte shorter than a line. *)
ClientReadShort ==
    /\ cpc = "read" /\ kind = "ch04"
    /\ \E n \in Pieces(Min({BufSize - 1, s2c})) : s2c' = s2c - n /\ owed' = owed - n
    /\ cpc' = "input"
    /\ UNCHANGED <<kind, send, unsent, c2s, cbio>> /\ UNCHANGED serverVars

\* ch04: one Read of the connection.
ClientRead ==
    /\ cpc = "read" /\ kind = "ch04"
    /\ \E n \in Pieces(Min({BufSize, s2c})) : s2c' = s2c - n /\ owed' = owed - n
    /\ cpc' = "input"
    /\ UNCHANGED <<kind, send, unsent, c2s, cbio>> /\ UNCHANGED serverVars

\* ch15: the same Read through bufio, which asks the socket only when it is empty.
ClientReadBuffered ==
    /\ cpc = "read" /\ kind = "ch15"
    /\ \E got \in IF cbio = 0 THEN Pieces(Min({BioSize, s2c})) ELSE {0} :
           LET buffered == cbio + got
               n == Min({BufSize, buffered})
           IN  /\ s2c' = s2c - got /\ cbio' = buffered - n
               /\ owed' = owed - n
    /\ cpc' = "input"
    /\ UNCHANGED <<kind, send, unsent, c2s>> /\ UNCHANGED serverVars

\* "q" in ch15; a ch04 client is ended from outside, at any time.
Quit ==
    /\ cpc # "done" /\ (kind = "ch15" => cpc = "input")
    /\ cpc' = "done" /\ unsent' = 0 /\ s2c' = 0 /\ cbio' = 0
    /\ UNCHANGED <<kind, send, c2s, owed>> /\ UNCHANGED serverVars

-----------------------------------------------------------------------------
(* The server *)

(* As if the whole buffer were written back instead of what was read. *)
ServerReadWhole ==
    /\ spc = "read" /\ kind = "ch04"
    /\ \E n \in Pieces(Min({BufSize, c2s})) : c2s' = c2s - n /\ hold' = BufSize
    /\ spc' = "write"
    /\ UNCHANGED <<kind, s2c, sbio>> /\ UNCHANGED clientVars

(* As if the server waited for a full buffer. *)
ServerReadFull ==
    /\ spc = "read" /\ kind = "ch04" /\ c2s >= BufSize
    /\ c2s' = c2s - BufSize /\ hold' = BufSize
    /\ spc' = "write"
    /\ UNCHANGED <<kind, s2c, sbio>> /\ UNCHANGED clientVars

ServerRead ==
    /\ spc = "read" /\ kind = "ch04"
    /\ \E n \in Pieces(Min({BufSize, c2s})) : c2s' = c2s - n /\ hold' = n
    /\ spc' = "write"
    /\ UNCHANGED <<kind, s2c, sbio>> /\ UNCHANGED clientVars

ServerReadBuffered ==
    /\ spc = "read" /\ kind = "ch15"
    /\ \E got \in IF sbio = 0 THEN Pieces(Min({BioSize, c2s})) ELSE {0} :
           LET buffered == sbio + got
               n == Min({BufSize, buffered})
           IN  c2s' = c2s - got /\ sbio' = buffered - n /\ hold' = n
    /\ spc' = "write"
    /\ UNCHANGED <<kind, s2c>> /\ UNCHANGED clientVars

ServerWrite ==
    /\ spc = "write" /\ cpc # "done"
    /\ \E n \in Pieces(Min({hold, SockCap - s2c})) :
           s2c' = s2c + n /\ hold' = hold - n
    /\ spc' = IF hold' = 0 THEN "read" ELSE "write"
    /\ UNCHANGED <<kind, c2s, sbio>> /\ UNCHANGED clientVars

(* As if a failed Write were tried again. *)
ServerWriteRetry ==
    /\ spc = "write" /\ cpc = "done"
    /\ spc' = "write"
    /\ UNCHANGED <<kind, c2s, s2c, sbio, hold>> /\ UNCHANGED clientVars

\* Write to a client that is gone fails, which is ignored.
ServerWriteFails ==
    /\ spc = "write" /\ cpc = "done"
    /\ hold' = 0 /\ spc' = "read"
    /\ UNCHANGED <<kind, c2s, s2c, sbio>> /\ UNCHANGED clientVars

\* The end of the stream ends the loop and the program.
ServerEof ==
    /\ spc = "read" /\ cpc = "done" /\ c2s = 0 /\ sbio = 0
    /\ spc' = "done"
    /\ UNCHANGED <<kind, c2s, s2c, sbio, hold>> /\ UNCHANGED clientVars

Exited == cpc = "done" /\ spc = "done" /\ UNCHANGED vars

Server ==
    \/ ServerRead \/ ServerReadBuffered
    \/ ServerWrite \/ ServerWriteFails \/ ServerEof

Next ==
    \/ Input \/ ClientWrite \/ ClientRead \/ ClientReadBuffered \/ Quit
    \/ Server \/ Exited

\* Both processes run and TCP delivers; the user types or not.
Fairness == WF_vars(ClientWrite \/ ClientRead \/ ClientReadBuffered) /\ WF_vars(Server)

Spec == Init /\ [][Next]_vars /\ Fairness

-----------------------------------------------------------------------------
(* Properties *)

\* The type of the state: no buffer holds more than it can.
TypeOK ==
    /\ cpc \in {"input", "write", "read", "done"} /\ spc \in {"read", "write", "done"}
    /\ c2s \in 0 .. SockCap /\ s2c \in 0 .. SockCap
    /\ sbio \in 0 .. BioSize /\ cbio \in 0 .. BioSize
    /\ hold \in 0 .. BufSize /\ send \in 1 .. Max({MaxLine, BufSize})

\* Every byte the client sent is printed or on its way: what it prints is a
\* beginning of what it sent.
NothingLost ==
    cpc # "done" => owed = Outstanding

\* Lines that fit the buffer and arrive in one piece are echoed one for one: at
\* the prompt nothing is under way.
InStep == cpc = "input" => Outstanding = 0

Backlogged == c2s = SockCap /\ s2c = SockCap

\* A round ends, or the echoes left over from rounds before have filled both
\* sockets and server and client each wait in Write for the other to read:
\* nothing else keeps a client from its prompt.
RoundReturns ==
    cpc \in {"write", "read"} ~> cpc \in {"input", "done"} \/ Backlogged

\* A client that is gone ends the server, whatever was under way.
ServerEnds == cpc = "done" ~> spc = "done"
=============================================================================
