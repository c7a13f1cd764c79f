------------------------------ MODULE HalfClose ------------------------------
(***************************************************************************)
(* The half-close examples: a server sends what it has, ends its output    *)
(* stream and still waits for the client's thanks.  "file" is ch07's       *)
(* file_server with file_client; "server1" and "server2" are ch16's        *)
(* servers with their client.  The kernel's side of a descriptor (when the *)
(* peer sees the end of the stream) is modelled from how the programs use  *)
(* it: the stream ends on shutdown(SHUT_WR) or with the last descriptor.   *)
(***************************************************************************)
EXTENDS Naturals, FiniteSetsExt

CONSTANTS
    Kinds,    \* which servers run: a subset of {"file", "server1", "server2"}
    MaxLen,   \* the longest file
    LineLen,  \* the length of an "[INFO]" line (11)
    BufSize,  \* BUF_SIZE (30)
    BioSize   \* the buffer of a bufio.Reader (4096)

SizesAssumption ==
    /\ Kinds \subseteq {"file", "server1", "server2"}
    /\ MaxLen \in Nat
    /\ {LineLen, BufSize, BioSize} \subseteq Nat \ {0}

VARIABLES
    kind, total,  \* the server, and the bytes it has to send
    spc, cpc,     \* where server and client are
    left, bio,    \* bytes not yet read from the file, bytes in bufio's buffer
    fds, shut,    \* the server's open descriptors of the socket; SHUT_WR was called
    s2c, c2s,     \* bytes under way to the client; whether the thanks are under way
    got,          \* bytes the client printed or saved
    collected,    \* its descriptor was closed under it
    thanked       \* what the server's last Read returned: the thanks or nothing

vars == <<kind, total, spc, cpc, left, bio, fds, shut, s2c, c2s, got, collected, thanked>>
fileVars == <<left, bio>>
clientVars == <<cpc, got, collected>>

\* The programs before the connection: a listener, and a client about to dial.
Init ==
    /\ kind \in Kinds
    /\ total \in IF kind = "file" THEN 0 .. MaxLen ELSE {3 * LineLen}
    /\ spc = "listen" /\ cpc = "dial"
    /\ left = total /\ bio = 0
    /\ fds = 0 /\ shut = FALSE
    /\ s2c = 0 /\ c2s = FALSE
    /\ got = 0 /\ collected = FALSE
    /\ thanked = FALSE

-----------------------------------------------------------------------------
(* The servers *)

\* The peer of the accepted connection reads the end of the stream.
Ended == spc # "listen" /\ (shut \/ fds = 0)

\* net.Dial returns once the kernel has queued the connection.
Accept ==
    /\ spc = "listen" /\ cpc # "dial"
    /\ spc' = IF kind = "file" THEN "open" ELSE "write"
    \* server1: tcpConn.File() twice, server2: tcpConn.File() and Dup, next to conn
    /\ fds' = IF kind = "file" THEN 1 ELSE 3
    /\ UNCHANGED <<kind, total, shut, s2c, c2s, thanked>>
    /\ UNCHANGED fileVars /\ UNCHANGED clientVars

OpenFile ==
    /\ spc = "open"
    /\ \/ spc' = "write" /\ fds' = fds
       \/ spc' = "exit1" /\ fds' = 0       \* os.Exit(1): the process is gone
    /\ UNCHANGED <<kind, total, shut, s2c, c2s, thanked>>
    /\ UNCHANGED fileVars /\ UNCHANGED clientVars

\* bufio.Reader.Read fills an empty buffer with one read, then hands out what
\* is buffered, never more; only when the file is at its end does it return 0.
ReadFile ==
    LET buffered == IF bio = 0 THEN Min({BioSize, left}) ELSE bio
        byteCount == Min({BufSize, buffered})
    IN
    /\ spc = "write" /\ kind = "file"
    /\ left' = IF bio = 0 THEN left - buffered ELSE left
    /\ bio' = buffered - byteCount
    /\ s2c' = s2c + byteCount
    /\ spc' = IF byteCount < BufSize THEN "endOutput" ELSE "write"
    /\ UNCHANGED <<kind, total, fds, shut, c2s, thanked>>
    /\ UNCHANGED clientVars

\* server1 writes each line to the socket.
WriteLine ==
    /\ spc = "write" /\ kind = "server1"
    /\ left' = left - LineLen
    /\ s2c' = s2c + LineLen
    /\ spc' = IF left' = 0 THEN "endOutput" ELSE "write"
    /\ UNCHANGED <<kind, total, bio, fds, shut, c2s, thanked>>
    /\ UNCHANGED clientVars

\* server2 collects the lines in a bufio.Writer and flushes them together.
WriteFlush ==
    /\ spc = "write" /\ kind = "server2"
    /\ left' = 0
    /\ s2c' = s2c + left
    /\ spc' = "endOutput"
    /\ UNCHANGED <<kind, total, bio, fds, shut, c2s, thanked>>
    /\ UNCHANGED clientVars

\* server1 only closes one of its descriptors.
EndOutputClose ==
    /\ fds' = fds - 1
    /\ shut' = shut

\* server2: shutdown on the duplicated descriptor, then close it.
EndOutputShutdown ==
    /\ fds' = fds - 1
    /\ shut' = TRUE

\* file_server: shutdown on a descriptor made for it, which stays open.
EndOutputFile ==
    /\ fds' = fds + 1
    /\ shut' = TRUE

(* As if the socket were closed instead of its output stream. *)
EndOutputEarly ==
    /\ spc = "endOutput" /\ spc' = "done"
    /\ fds' = 0 /\ shut' = TRUE
    /\ UNCHANGED <<kind, total, s2c, c2s, thanked>>
    /\ UNCHANGED fileVars /\ UNCHANGED clientVars

EndOutput ==
    /\ spc = "endOutput" /\ spc' = "readThanks"
    /\ CASE kind = "server1" -> EndOutputClose
         [] kind = "server2" -> EndOutputShutdown
         [] kind = "file"    -> EndOutputFile
    /\ UNCHANGED <<kind, total, s2c, c2s, thanked>>
    /\ UNCHANGED fileVars /\ UNCHANGED clientVars

\* The Read for the thanks returns them or, with the client gone, nothing; the
\* descriptors are closed and the process ends.
ReadThanks ==
    /\ spc = "readThanks"
    /\ c2s \/ cpc = "done"
    /\ thanked' = c2s /\ c2s' = FALSE
    /\ fds' = 0
    /\ spc' = "done"
    /\ UNCHANGED <<kind, total, shut, s2c>>
    /\ UNCHANGED fileVars /\ UNCHANGED clientVars

-----------------------------------------------------------------------------
(* The clients *)

serverVars == <<kind, total, spc, left, bio, fds, shut, thanked>>

Dial ==
    /\ cpc = "dial" /\ cpc' = "loop"
    /\ UNCHANGED <<s2c, c2s, got, collected>> /\ UNCHANGED serverVars

\* The loop calls Read; a collected descriptor fails the call at once.
CallRead ==
    /\ cpc = "loop"
    /\ cpc' = IF collected THEN "thank" ELSE "reading"
    /\ UNCHANGED <<s2c, c2s, got, collected>> /\ UNCHANGED serverVars

(* As if a short count were the end of the stream. *)
ReadReturnsShort ==
    /\ cpc = "reading"
    /\ \E n \in 1 .. Min({BufSize, s2c}) :
           /\ s2c' = s2c - n /\ got' = got + n
           /\ cpc' = IF n < BufSize THEN "thank" ELSE "loop"
    /\ UNCHANGED <<c2s, collected>> /\ UNCHANGED serverVars

\* Read returns any part of what has arrived, at most the buffer.
ReadReturns ==
    /\ cpc = "reading" /\ cpc' = "loop"
    /\ \E n \in 1 .. Min({BufSize, s2c}) : s2c' = s2c - n /\ got' = got + n
    /\ UNCHANGED <<c2s, collected>> /\ UNCHANGED serverVars

(* As if the loop went on at the end of the stream. *)
ReadEofIgnored ==
    /\ cpc = "reading" /\ cpc' = "loop"
    /\ s2c = 0 /\ Ended
    /\ UNCHANGED <<s2c, c2s, got, collected>> /\ UNCHANGED serverVars

ReadEof ==
    /\ cpc = "reading" /\ cpc' = "thank"
    /\ s2c = 0 /\ Ended
    /\ UNCHANGED <<s2c, c2s, got, collected>> /\ UNCHANGED serverVars

\* ch16's client keeps only the number of fp's descriptor: fp is garbage while
\* the client waits in Read, and its finalizer closes that descriptor.
Collect ==
    /\ kind # "file"
    /\ cpc = "reading" /\ ~collected
    /\ collected' = TRUE
    /\ UNCHANGED <<cpc, s2c, c2s, got>> /\ UNCHANGED serverVars

\* "Thank you", then the files are closed; errors are ignored.
Thank ==
    /\ cpc = "thank" /\ cpc' = "done"
    /\ c2s' = (~collected /\ spc # "exit1")
    /\ UNCHANGED <<s2c, got, collected>> /\ UNCHANGED serverVars

Exited ==
    /\ spc \in {"done", "exit1"} /\ cpc = "done"
    /\ UNCHANGED vars

Next ==
    \/ Accept \/ OpenFile \/ ReadFile \/ WriteLine \/ WriteFlush
    \/ EndOutput \/ ReadThanks
    \/ Dial \/ CallRead \/ ReadReturns \/ ReadEof \/ Collect \/ Thank
    \/ Exited

\* Each process has one goroutine, which runs; the kernel delivers.  Nothing
\* makes the garbage collector run.
Fairness ==
    /\ WF_vars(Accept \/ OpenFile \/ ReadFile \/ WriteLine \/ WriteFlush \/ EndOutput \/ ReadThanks)
    /\ WF_vars(Dial \/ CallRead \/ ReadReturns \/ ReadEof \/ Thank)

Spec == Init /\ [][Next]_vars /\ Fairness

-----------------------------------------------------------------------------
(* Properties *)

\* Every variable has its type, and no byte appears or disappears between the
\* file, bufio's buffer, the stream and the client.
TypeOK ==
    /\ kind \in Kinds
    /\ spc \in {"listen", "open", "write", "endOutput", "readThanks", "done", "exit1"}
    /\ cpc \in {"dial", "loop", "reading", "thank", "done"}
    /\ fds \in 0 .. 3 /\ {shut, c2s, collected, thanked} \subseteq BOOLEAN
    /\ left + bio + s2c + got = total

\* What the server's loop sends: it takes a short count for the end of the file, and
\* when BUF_SIZE does not divide bufio's buffer (4096 % 30 = 16) the count at the end
\* of the first buffer is short, wherever the file ends.
Sent == IF kind = "file" /\ total > BioSize /\ BioSize % BufSize # 0 THEN BioSize ELSE total

\* A client that leaves its loop, with its descriptor in order and a server that
\* could open the file, has all that the server's loop sends: the whole file when it
\* fits bufio's buffer, else the bytes of the first buffer and not one less or more.
\* However Read splits the stream, only the end of the server's output ends the loop.
AllSentArrives ==
    cpc \in {"thank", "done"} /\ ~collected /\ spc # "exit1" => got = Sent

\* The output stream ends while the input stream stays open: a server that has
\* ended normally has read the thanks, unless the client lost its descriptor.
ThanksReceived ==
    spc = "done" /\ ~thanked => collected

\* Both processes end, also when the file cannot be opened or the client loses
\* its descriptor: nobody is left in a Read that never returns.
Terminates == <>(spc \in {"done", "exit1"} /\ cpc = "done")

=============================================================================
