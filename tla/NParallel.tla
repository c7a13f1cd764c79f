----------------------------- MODULE NParallel -----------------------------
(***************************************************************************)
(* nparallel of mrapps/mtiming.go and mrapps/rtiming.go: a worker process  *)
(* leaves a file with its pid, counts the files of processes that are      *)
(* alive, sleeps and removes its file.  main/test-mr.sh takes the counts   *)
(* as evidence that tasks ran in parallel.  A worker may be killed at any  *)
(* moment and leaves its file behind.                                      *)
(***************************************************************************)
EXTENDS Naturals, FiniteSets, TLC

CONSTANTS
    Workers,  \* worker processes, named by their pids
    MaxTasks  \* bound: tasks a worker runs

TasksAssumption == MaxTasks \in Nat \ {0}

VARIABLES
    alive,     \* the processes that run
    files,     \* pids of the mr-worker files in the directory
    pc, tasks, \* a worker's place and the tasks it has begun
    names,     \* the names its loop has still to look at
    counted,   \* the pids that made up ret so far
    inCall     \* history: the workers inside nparallel when the directory was read

vars == <<alive, files, pc, tasks, names, counted, inCall>>

Init ==
    /\ alive = Workers /\ files = {}
    /\ pc = [w \in Workers |-> "idle"] /\ tasks = [w \in Workers |-> 0]
    /\ names = [w \in Workers |-> {}] /\ counted = [w \in Workers |-> {}]
    /\ inCall = [w \in Workers |-> {}]

Calling == {w \in alive : pc[w] # "idle"}

-----------------------------------------------------------------------------

(* As if the directory were read before the file is written. *)
WriteFileLate(w) ==
    /\ w \in alive /\ pc[w] = "idle" /\ tasks[w] < MaxTasks
    /\ names' = [names EXCEPT ![w] = files]
    /\ inCall' = [inCall EXCEPT ![w] = Calling \cup {w}]
    /\ counted' = [counted EXCEPT ![w] = {}]
    /\ tasks' = [tasks EXCEPT ![w] = @ + 1]
    /\ pc' = [pc EXCEPT ![w] = "count"]
    /\ files' = files \cup {w}
    /\ UNCHANGED alive

WriteFile(w) ==
    /\ w \in alive /\ pc[w] = "idle" /\ tasks[w] < MaxTasks
    /\ files' = files \cup {w}
    /\ counted' = [counted EXCEPT ![w] = {}]
    /\ tasks' = [tasks EXCEPT ![w] = @ + 1]
    /\ pc' = [pc EXCEPT ![w] = "scan"]
    /\ UNCHANGED <<alive, names, inCall>>

Readdirnames(w) ==
    /\ w \in alive /\ pc[w] = "scan"
    /\ names' = [names EXCEPT ![w] = files]
    /\ inCall' = [inCall EXCEPT ![w] = Calling]
    /\ pc' = [pc EXCEPT ![w] = "count"]
    /\ UNCHANGED <<alive, files, tasks, counted>>

(* As if every file counted. *)
KillAll(w, x) == TRUE

\* syscall.Kill(xpid, 0) succeeds for a process that is alive.
KillZero(w, x) == x \in alive

Count(w) ==
    /\ w \in alive /\ pc[w] = "count"
    /\ \E x \in names[w] :
           /\ names' = [names EXCEPT ![w] = @ \ {x}]
           /\ counted' = IF KillZero(w, x) THEN [counted EXCEPT ![w] = @ \cup {x}] ELSE counted
    /\ UNCHANGED <<alive, files, pc, tasks, inCall>>

Sleep(w) ==
    /\ w \in alive /\ pc[w] = "count" /\ names[w] = {}
    /\ pc' = [pc EXCEPT ![w] = "sleep"]
    /\ UNCHANGED <<alive, files, tasks, names, counted, inCall>>

\* os.Remove panics without the file; the call returns ret.
RemoveFile(w) ==
    /\ w \in alive /\ pc[w] = "sleep"
    /\ files' = files \ {w}
    /\ pc' = [pc EXCEPT ![w] = "idle"]
    /\ alive' = IF w \in files THEN alive ELSE alive \ {w}
    /\ UNCHANGED <<tasks, names, counted, inCall>>

Crash(w) ==
    /\ w \in alive
    /\ alive' = alive \ {w}
    /\ UNCHANGED <<files, pc, tasks, names, counted, inCall>>

Next ==
    \E w \in Workers :
        \/ WriteFile(w) \/ Readdirnames(w) \/ Count(w) \/ Sleep(w) \/ RemoveFile(w)
        \/ Crash(w)

Spec == Init /\ [][Next]_vars

-----------------------------------------------------------------------------
(* Properties *)

\* Every variable has its type; a live worker has a file exactly while it is in its call.
TypeOK ==
    /\ alive \subseteq Workers
    /\ \A w \in Workers :
           /\ pc[w] \in {"idle", "scan", "count", "sleep"}
           /\ tasks[w] \in 0 .. MaxTasks
           /\ names[w] \cup counted[w] \cup inCall[w] \subseteq Workers
    \* a worker inside the call has its file, a worker outside it has none
    /\ \A w \in alive : w \in files <=> pc[w] # "idle"

\* "are any other workers running?": of two live workers that sleep at the same
\* time, at least one has counted both.  The test for parallelism misses no
\* overlap of two sleeps.
OverlapIsSeen ==
    \A v, w \in alive :
        v # w /\ pc[v] = "sleep" /\ pc[w] = "sleep" =>
            {v, w} \subseteq counted[v] \/ {v, w} \subseteq counted[w]

\* Nobody is counted that was not inside its own call when the directory was
\* read, neither a worker that was killed and left its file nor one between two
\* tasks: the test reports no parallelism that was not there.
CountsOnlyParallel ==
    \A w \in Workers : counted[w] \subseteq inCall[w]
=============================================================================
