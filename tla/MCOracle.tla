------------------------------ MODULE MCOracle ------------------------------
(***************************************************************************)
(* What the tests of the labs judge with.  For Raft: RaftOracle (appliers, *)
(* nCommitted, one, wait) in three configurations, and LeaderCheck         *)
(* (checkOneLeader, checkTerms, checkNoLeader).  For MapReduce: the output *)
(* of MrSequential, which test-mr.sh compares with, and the counts of      *)
(* NParallel, which it takes as evidence of parallel tasks.  Variables     *)
(* that do not belong to the module of a configuration stay NoVar.         *)
(***************************************************************************)
EXTENDS Naturals, FiniteSets, Sequences, TLC

CONSTANTS cmdA, cmdB, cmdC, pid1, pid2, None, Nil, NoVar

VARIABLES
  config,
  logs, lastApplied, maxIndex, rafts, gen, saved, made, next, log, app, test, alarm, stale,  \* RaftOracle
  term, vote, leads, connected, check, i, iters, seen, checkTerm, result, leader,
  stable, began,                                                                     \* LeaderCheck
  contents, nextFile, intermediate, ofile,                     \* MrSequential, with app, i and pc
  alive, files, tasks, names, counted, inCall,                 \* NParallel, with pc
  pc

oracleVars == <<logs, lastApplied, maxIndex, rafts, gen, saved, made, next, log, test, alarm,
                stale>>
leaderVars == <<term, vote, leads, connected, check, iters, seen, checkTerm, result, leader,
                stable, began>>
mrVars     == <<contents, nextFile, intermediate, ofile>>
workerVars == <<alive, files, tasks, names, counted, inCall>>
vars == <<config, oracleVars, leaderVars, mrVars, workerVars, app, i, pc>>

\* Any Raft: what it applies is arbitrary.
AnyRaft == INSTANCE RaftOracle WITH
  N <- 3, Commands <- {cmdA, cmdB}, MaxIndex <- 2, MaxGen <- 1, Snapshots <- FALSE,
  SnapShotInterval <- 2, Correct <- FALSE, Expected <- 2

\* A correct Raft whose servers crash and restart.
Restarts == INSTANCE RaftOracle WITH
  N <- 2, Commands <- {cmdA, cmdB}, MaxIndex <- 2, MaxGen <- 2, Snapshots <- FALSE,
  SnapShotInterval <- 2, Correct <- TRUE, Expected <- 2

\* A correct Raft that takes and sends snapshots and whose servers crash and restart.
Snaps == INSTANCE RaftOracle WITH
  N <- 2, Commands <- {cmdC}, MaxIndex <- 2, MaxGen <- 2, Snapshots <- TRUE,
  SnapShotInterval <- 2, Correct <- TRUE, Expected <- 2

\* Three servers of a correct Raft, all connected, a majority or less.
Leaders == INSTANCE LeaderCheck WITH
  N <- 3, Networks <- {{1, 2, 3}, {1, 3}, {2, 3}, {3}},
  Checks <- {"oneLeader", "terms", "noLeader"}, MaxIters <- 2, MaxTerm <- 4

\* Every content of two files of up to two words.
Mr == INSTANCE MrSequential WITH NFiles <- 2, Words <- {1, 2, 3}, MaxWords <- 2

\* Two worker processes with three tasks each.
Timing == INSTANCE NParallel WITH Workers <- {pid1, pid2}, MaxTasks <- 3

ASSUME Configured ==
  /\ AnyRaft!OracleAssumption /\ Restarts!OracleAssumption /\ Snaps!OracleAssumption
  /\ Leaders!LeaderAssumption
  /\ Mr!InputAssumption /\ Timing!TasksAssumption

\* In every configuration the commands cmdA and cmdB may be exchanged.
Symmetry == Permutations({cmdA, cmdB})

NoOracle ==
  /\ logs = NoVar /\ lastApplied = NoVar /\ maxIndex = NoVar /\ rafts = NoVar
  /\ gen = NoVar /\ saved = NoVar /\ made = NoVar /\ next = NoVar
  /\ log = NoVar /\ test = NoVar /\ alarm = NoVar /\ stale = NoVar

NoLeaderCheck ==
  /\ term = NoVar /\ vote = NoVar /\ leads = NoVar /\ connected = NoVar
  /\ check = NoVar /\ iters = NoVar /\ seen = NoVar /\ checkTerm = NoVar
  /\ result = NoVar /\ leader = NoVar /\ stable = NoVar /\ began = NoVar

NoMr == contents = NoVar /\ nextFile = NoVar /\ intermediate = NoVar /\ ofile = NoVar

NoWorkers ==
  /\ alive = NoVar /\ files = NoVar /\ tasks = NoVar /\ names = NoVar
  /\ counted = NoVar /\ inCall = NoVar

Init ==
  \/ /\ \/ config = "any raft" /\ AnyRaft!Init
        \/ config = "restarts" /\ Restarts!Init
        \/ config = "snapshots" /\ Snaps!Init
     /\ NoLeaderCheck /\ NoMr /\ NoWorkers /\ i = NoVar /\ pc = NoVar
  \/ config = "leaders" /\ Leaders!Init /\ NoOracle /\ NoMr /\ NoWorkers /\ app = NoVar /\ pc = NoVar
  \/ config = "mr" /\ Mr!Init /\ NoOracle /\ NoLeaderCheck /\ NoWorkers
  \/ config = "workers" /\ Timing!Init /\ NoOracle /\ NoLeaderCheck /\ NoMr /\ app = NoVar /\ i = NoVar

Next ==
  \/ config = "any raft" /\ AnyRaft!Next /\ UNCHANGED <<config, leaderVars, mrVars, workerVars, i, pc>>
  \/ config = "restarts" /\ Restarts!Next /\ UNCHANGED <<config, leaderVars, mrVars, workerVars, i, pc>>
  \/ config = "snapshots" /\ Snaps!Next /\ UNCHANGED <<config, leaderVars, mrVars, workerVars, i, pc>>
  \/ config = "leaders" /\ Leaders!Next /\ UNCHANGED <<config, oracleVars, mrVars, workerVars, app, pc>>
  \/ config = "mr" /\ Mr!Next /\ UNCHANGED <<config, oracleVars, leaderVars, workerVars>>
  \/ config = "workers" /\ Timing!Next /\ UNCHANGED <<config, oracleVars, leaderVars, mrVars, app, i>>

Spec == Init /\ [][Next]_vars

-----------------------------------------------------------------------------
(* Properties *)

\* All modules keep their variables in their types.
TypeOK ==
  CASE config = "any raft" -> AnyRaft!TypeOK
    [] config = "restarts" -> Restarts!TypeOK
    [] config = "snapshots" -> Snaps!TypeOK
    [] config = "leaders" -> Leaders!TypeOK
    [] config = "mr" -> Mr!TypeOK
    [] config = "workers" -> Timing!TypeOK

\* Whatever Raft applies: while no applier has an error to report, no two servers
\* have committed different commands at one index, no log has a gap, and when one
\* or wait returns a command and its index, that many servers have committed it
\* there, although the logs were read one after the other.
WrongIsNoticed ==
  config = "any raft" => AnyRaft!LogsAgree /\ AnyRaft!NoGaps /\ AnyRaft!AgreedIsCommitted

\* A Raft that applies one agreed log in order is never failed by the appliers
\* or by nCommitted, across crashes and restarts, with and without snapshots, unless
\* a server was started while applierSnap still handled a command of an earlier
\* instance of it; nor is it taken by checkOneLeader for one with two leaders in a
\* term.
NoFalseAlarm ==
  /\ config = "restarts" => Restarts!NoFalseAlarm
  /\ config = "snapshots" => Snaps!NoFalseAlarm
  /\ config = "leaders" => Leaders!NoFalseAlarm

\* What the checks of leaders and terms answer, from servers asked one by one:
\* checkOneLeader the latest leader, once elections have settled, checkTerms a
\* term between those at its first and its last question, and checkNoLeader that
\* no connected server leads, where there is no connected majority.
LeaderAnswers ==
  config = "leaders" => Leaders!SettledLeader /\ Leaders!TermsBracketed /\ Leaders!NoLeaderIsTrue

\* The output file of mrsequential is what the files' contents ask for, whatever
\* order the unstable sort and the range over a Go map leave.
OutputIsExpected == config = "mr" => Mr!OutputIsExpected

\* The test for parallelism misses no overlap (of two live workers that sleep at
\* the same time one has counted both) and counts no worker that was not inside
\* its own call, neither one that was killed nor one between two tasks.
CountsParallel == config = "workers" => Timing!OverlapIsSeen /\ Timing!CountsOnlyParallel
=============================================================================
