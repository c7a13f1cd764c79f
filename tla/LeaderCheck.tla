---------------------------- MODULE LeaderCheck ----------------------------
(***************************************************************************)
(* The checks of raft/config.go that ask one server after another for its  *)
(* term and whether it leads: checkOneLeader, checkTerms and checkNoLeader.*)
(* Servers vote, win elections and learn of terms between two GetState     *)
(* calls; they are the code under test and are modelled as what a correct  *)
(* Raft does with terms and votes.  The question is whether the checks     *)
(* are right about a correct Raft.                                         *)
(***************************************************************************)
EXTENDS Naturals, FiniteSets

CONSTANTS
    N,         \* servers 1 .. N
    Networks,  \* the sets of servers that may be connected to each other
    Checks,    \* which checks run
    MaxIters,  \* tries of checkOneLeader (10)
    MaxTerm    \* bound on terms

LeaderAssumption ==
    /\ {N, MaxIters, MaxTerm} \subseteq Nat \ {0}
    /\ Networks \subseteq SUBSET (1 .. N)
    /\ Checks \subseteq {"oneLeader", "terms", "noLeader"}

Servers == 1 .. N

VARIABLES
    term, vote, leads,  \* a server's term, the last term it voted in, whether it leads
    connected,
    check, i, iters,    \* the check that runs, the server it asks next, the try
    seen,               \* leaders: the answers <<term, server>> of this try
    checkTerm,          \* checkTerms' term, 0 for -1
    result, leader,     \* how the check ended; the answer checkOneLeader returned
    stable, began       \* history of the scan: no term or leader changed; the highest term
                        \* of a connected server when the first one was asked

raftVars == <<term, vote, leads>>
vars == <<raftVars, connected, check, i, iters, seen, checkTerm, result, leader, stable, began>>

Init ==
    /\ term = [s \in Servers |-> 1] /\ vote = [s \in Servers |-> 1]
    /\ leads = [s \in Servers |-> FALSE]
    /\ connected \in Networks
    /\ check \in Checks /\ i = 1 /\ iters = 1
    /\ seen = {} /\ checkTerm = 0
    /\ result = "none"
    /\ leader = <<0, 0>>
    /\ stable = TRUE /\ began = 0

-----------------------------------------------------------------------------
(* Raft's terms and votes *)

Quorum(Q) == 2 * Cardinality(Q) > N

\* History: something has changed.
Note == stable' = FALSE /\ UNCHANGED began

harnessVars == <<connected, check, i, iters, seen, checkTerm, result, leader>>

\* A server's election timer fires and it gets no majority.
Campaign(s) ==
    /\ term[s] < MaxTerm
    /\ term' = [term EXCEPT ![s] = @ + 1]
    /\ vote' = [vote EXCEPT ![s] = term[s] + 1]
    /\ leads' = [leads EXCEPT ![s] = FALSE]
    /\ Note /\ UNCHANGED harnessVars

\* A majority that can reach it, and has not voted in that term, elects it.
Elect(s) ==
    /\ term[s] < MaxTerm
    /\ \E Q \in SUBSET connected :
           /\ s \in Q /\ Quorum(Q)
           /\ \A q \in Q : vote[q] <= term[s] /\ term[q] <= term[s] + 1
           /\ term' = [q \in Servers |-> IF q \in Q THEN term[s] + 1 ELSE term[q]]
           /\ vote' = [q \in Servers |-> IF q \in Q THEN term[s] + 1 ELSE vote[q]]
           /\ leads' = [q \in Servers |-> IF q \in Q THEN q = s ELSE leads[q]]
    /\ Note /\ UNCHANGED harnessVars

\* A message from a connected server with a newer term.
Learn(s) ==
    /\ s \in connected
    /\ \E r \in connected :
           /\ term[r] > term[s]
           /\ term' = [term EXCEPT ![s] = term[r]]
    /\ leads' = [leads EXCEPT ![s] = FALSE]
    /\ vote' = vote
    /\ Note /\ UNCHANGED harnessVars

-----------------------------------------------------------------------------
(* The checks *)

Asking == result = "none" /\ i <= N

SkipDisconnected ==
    /\ Asking /\ i \notin connected
    /\ i' = i + 1 /\ stable' = (i = 1 \/ stable)
    /\ UNCHANGED <<raftVars, connected, check, iters, seen, checkTerm, result, leader, began>>

\* if term, leader := GetState(); leader { leaders[term] = append(...) }
OneLeaderAsk ==
    /\ Asking /\ check = "oneLeader" /\ i \in connected
    /\ seen' = IF leads[i] THEN seen \cup {<<term[i], i>>} ELSE seen
    /\ i' = i + 1 /\ stable' = (i = 1 \/ stable)
    /\ UNCHANGED <<raftVars, connected, check, iters, checkTerm, result, leader, began>>

(* As if two leaders of any terms were an error. *)
TwoLeadersAnyTerm == \E a, b \in seen : a # b

TwoLeaders == \E a, b \in seen : a # b /\ a[1] = b[1]

(* As if the first term of the map were the last. *)
AnyTermWithLeader == CHOOSE a \in seen : \A b \in seen : a[1] <= b[1]

LastTermWithLeader == CHOOSE a \in seen : \A b \in seen : b[1] <= a[1]

Tried == result = "none" /\ check = "oneLeader" /\ i > N

\* A try that met leaders fails or returns the leader of the last term.
OneLeaderReturn ==
    /\ Tried /\ seen # {}
    /\ result' = IF TwoLeaders THEN "twoLeaders" ELSE "leader"
    /\ leader' = LastTermWithLeader
    /\ UNCHANGED <<raftVars, connected, check, i, iters, seen, checkTerm, stable, began>>

\* Sleep and try again.
OneLeaderRetry ==
    /\ Tried /\ seen = {} /\ iters < MaxIters
    /\ i' = 1 /\ iters' = iters + 1
    /\ UNCHANGED <<raftVars, connected, check, seen, checkTerm, result, leader, stable, began>>

\* "expected one leader, got none"
OneLeaderNone ==
    /\ Tried /\ seen = {} /\ iters = MaxIters
    /\ result' = "noLeader"
    /\ UNCHANGED <<raftVars, connected, check, i, iters, seen, checkTerm, leader, stable, began>>

HighestTerm == CHOOSE t \in {term[s] : s \in connected} : \A s \in connected : term[s] <= t

(* As if only a server that is behind were an error. *)
TermsAskBehind ==
    /\ Asking /\ check = "terms" /\ i \in connected
    /\ began' = IF checkTerm = 0 THEN HighestTerm ELSE began
    /\ checkTerm' = IF checkTerm = 0 THEN term[i] ELSE checkTerm
    /\ result' = IF term[i] < checkTerm' THEN "disagree" ELSE "none"
    /\ i' = i + 1
    /\ UNCHANGED <<raftVars, connected, check, iters, seen, leader, stable>>

TermsAsk ==
    /\ Asking /\ check = "terms" /\ i \in connected
    /\ began' = IF checkTerm = 0 THEN HighestTerm ELSE began
    /\ checkTerm' = IF checkTerm = 0 THEN term[i] ELSE checkTerm
    /\ result' = IF checkTerm' # term[i] THEN "disagree" ELSE "none"
    /\ i' = i + 1
    /\ UNCHANGED <<raftVars, connected, check, iters, seen, leader, stable>>

(* As if the loop stopped one server short. *)
NoLeaderAskShort ==
    /\ Asking /\ check = "noLeader" /\ i \in connected
    /\ result' = IF leads[i] /\ i < N THEN "aLeader" ELSE "none"
    /\ i' = i + 1
    /\ UNCHANGED <<raftVars, connected, check, iters, seen, checkTerm, leader, stable, began>>

NoLeaderAsk ==
    /\ Asking /\ check = "noLeader" /\ i \in connected
    /\ result' = IF leads[i] THEN "aLeader" ELSE "none"
    /\ i' = i + 1
    /\ UNCHANGED <<raftVars, connected, check, iters, seen, checkTerm, leader, stable, began>>

\* checkTerms and checkNoLeader return at the end of their loops.
Passed ==
    /\ result = "none" /\ check # "oneLeader" /\ i > N
    /\ result' = "ok"
    /\ UNCHANGED <<raftVars, connected, check, i, iters, seen, checkTerm, leader, stable, began>>

\* The network is changed before a check, never during one.
Reconnect ==
    /\ i = 1 /\ iters = 1 /\ checkTerm = 0
    /\ connected' \in Networks
    /\ UNCHANGED <<raftVars, check, i, iters, seen, checkTerm, result, leader, stable, began>>

Next ==
    \/ \E s \in Servers : Campaign(s) \/ Elect(s) \/ Learn(s)
    \/ SkipDisconnected \/ TermsAsk \/ NoLeaderAsk \/ Passed
    \/ OneLeaderAsk \/ OneLeaderReturn \/ OneLeaderRetry \/ OneLeaderNone
    \/ Reconnect

Spec == Init /\ [][Next]_vars

-----------------------------------------------------------------------------
(* Properties *)

\* Every variable has its type, and nobody has voted beyond its term.
TypeOK ==
    /\ \A s \in Servers : term[s] \in 1 .. MaxTerm /\ vote[s] \in 1 .. term[s] /\ leads[s] \in BOOLEAN
    /\ i \in 1 .. N + 1 /\ iters \in 1 .. MaxIters
    /\ seen \subseteq (1 .. MaxTerm) \X Servers

\* checkOneLeader asks servers at different moments and may meet several leaders
\* on its way; it never takes a correct Raft for one with two leaders in a term.
NoFalseAlarm == result # "twoLeaders"

\* Once elections have settled, it returns the server that leads: of several
\* connected servers that still take themselves for leaders, the latest.
SettledLeader ==
    result = "leader" /\ stable =>
        /\ leads[leader[2]] /\ term[leader[2]] = leader[1]
        /\ \A s \in connected : leads[s] => term[s] <= leader[1]

\* checkNoLeader is called with no majority connected.  When it has passed, no
\* connected server leads, though it asked them one by one.
NoLeaderIsTrue ==
    check = "noLeader" /\ result = "ok" /\ ~Quorum(connected) =>
        \A s \in connected : ~leads[s]

\* A term that checkTerms returns is one that no connected server was beyond when
\* the first was asked, and that all have reached when the last has answered:
\* the answers are of different moments, but no server skipped it.
TermsBracketed ==
    check = "terms" /\ result = "ok" =>
        began <= checkTerm /\ \A s \in connected : checkTerm <= term[s]
=============================================================================
