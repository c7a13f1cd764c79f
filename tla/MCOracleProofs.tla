--------------------------- MODULE MCOracleProofs ---------------------------
(***************************************************************************)
(* The judges of the tests together.  A behaviour of MCOracle keeps its    *)
(* configuration and is, in each of them, one of the component; so what    *)
(* JudgeProofs proves for all values of the components' constants holds of *)
(* it.  Its instances below have the values that MCOracle gives; a first   *)
(* lemma for each component says that its specification is the one there.  *)
(***************************************************************************)
EXTENDS MCOracle, FiniteSetTheorems, TLAPS

A == INSTANCE JudgeProofs WITH
  N <- 3, Commands <- {cmdA, cmdB}, MaxIndex <- 2, MaxGen <- 1, Snapshots <- FALSE,
  SnapShotInterval <- 2, Correct <- FALSE, Expected <- 2,
  Networks <- {{1, 2, 3}, {1, 3}, {2, 3}, {3}},
  Checks <- {"oneLeader", "terms", "noLeader"}, MaxIters <- 2, MaxTerm <- 4,
  Partitions <- {}, legal <- {}, computeInfo <- FALSE, timeout <- FALSE, worker <- <<>>, answer <- <<>>,
  longest <- {}, results <- <<>>, kill <- FALSE, main <- "done", ok <- TRUE, timedOut <- FALSE,
  count <- 0, result <- "none", asked <- i, outcome <- result,
  Workers <- {pid1, pid2}, MaxTasks <- 3
R == INSTANCE JudgeProofs WITH
  N <- 2, Commands <- {cmdA, cmdB}, MaxIndex <- 2, MaxGen <- 2, Snapshots <- FALSE,
  SnapShotInterval <- 2, Correct <- TRUE, Expected <- 2,
  Networks <- {}, Checks <- {}, MaxIters <- 1, MaxTerm <- 1,
  Partitions <- {}, legal <- {}, computeInfo <- FALSE, timeout <- FALSE, worker <- <<>>, answer <- <<>>,
  longest <- {}, results <- <<>>, kill <- FALSE, main <- "done", ok <- TRUE, timedOut <- FALSE,
  count <- 0, result <- "none", asked <- i, outcome <- result, Workers <- {}, MaxTasks <- 1
S == INSTANCE JudgeProofs WITH
  N <- 2, Commands <- {cmdC}, MaxIndex <- 2, MaxGen <- 2, Snapshots <- TRUE,
  SnapShotInterval <- 2, Correct <- TRUE, Expected <- 2,
  Networks <- {}, Checks <- {}, MaxIters <- 1, MaxTerm <- 1,
  Partitions <- {}, legal <- {}, computeInfo <- FALSE, timeout <- FALSE, worker <- <<>>, answer <- <<>>,
  longest <- {}, results <- <<>>, kill <- FALSE, main <- "done", ok <- TRUE, timedOut <- FALSE,
  count <- 0, result <- "none", asked <- i, outcome <- result, Workers <- {}, MaxTasks <- 1

\* CheckParallel, which JudgeProofs is about too, has no partition here.
LEMMA NoPartition == IsFiniteSet({}) /\ A!IsFiniteSet({}) /\ R!IsFiniteSet({}) /\ S!IsFiniteSet({})
<1>1. IsFiniteSet({})
  BY FS_EmptySet
<1> QED BY <1>1 DEF IsFiniteSet, A!IsFiniteSet, R!IsFiniteSet, S!IsFiniteSet

LEMMA WorkersSame ==
  /\ Timing!Init <=> A!Timing!Init
  /\ [Timing!Next]_Timing!vars <=> [A!Timing!Next]_A!Timing!vars
<1>1. Timing!Init <=> A!Timing!Init
  BY DEF Timing!Init, A!Timing!Init
<1>2. Timing!Next <=> A!Timing!Next
  BY DEF Timing!Next, A!Timing!Next, Timing!WriteFile, A!Timing!WriteFile,
         Timing!Readdirnames, A!Timing!Readdirnames, Timing!Count, A!Timing!Count,
         Timing!Sleep, A!Timing!Sleep, Timing!RemoveFile, A!Timing!RemoveFile,
         Timing!Crash, A!Timing!Crash, Timing!KillZero, A!Timing!KillZero,
         Timing!Calling, A!Timing!Calling
<1> QED BY <1>1, <1>2 DEF Timing!vars, A!Timing!vars

LEMMA LeadersSame ==
  /\ Leaders!Init <=> A!Leaders!Init
  /\ [Leaders!Next]_Leaders!vars <=> [A!Leaders!Next]_A!Leaders!vars
<1>1. Leaders!Init <=> A!Leaders!Init
  BY DEF Leaders!Init, A!Leaders!Init, Leaders!Servers, A!Leaders!Servers
<1>2. Leaders!LastTermWithLeader = A!Leaders!LastTermWithLeader /\ Leaders!HighestTerm = A!Leaders!HighestTerm
  BY DEF Leaders!LastTermWithLeader, A!Leaders!LastTermWithLeader, Leaders!HighestTerm, A!Leaders!HighestTerm
<1>3. ASSUME NEW s
      PROVE  /\ Leaders!Campaign(s) <=> A!Leaders!Campaign(s)
             /\ Leaders!Elect(s) <=> A!Leaders!Elect(s)
             /\ Leaders!Learn(s) <=> A!Leaders!Learn(s)
  <2> USE DEF Leaders!Note, A!Leaders!Note, Leaders!harnessVars, A!Leaders!harnessVars
  <2>1. Leaders!Campaign(s) <=> A!Leaders!Campaign(s)
    BY DEF Leaders!Campaign, A!Leaders!Campaign
  <2>2. Leaders!Elect(s) <=> A!Leaders!Elect(s)
    <3>1. \A T : Leaders!Cardinality(T) = A!Leaders!Cardinality(T)
      BY DEF Leaders!Cardinality, A!Leaders!Cardinality
    <3> QED BY <3>1 DEF Leaders!Elect, A!Leaders!Elect, Leaders!Quorum, A!Leaders!Quorum, Leaders!Servers, A!Leaders!Servers
  <2>3. Leaders!Learn(s) <=> A!Leaders!Learn(s)
    BY DEF Leaders!Learn, A!Leaders!Learn
  <2> QED BY <2>1, <2>2, <2>3
<1>4. /\ Leaders!OneLeaderReturn <=> A!Leaders!OneLeaderReturn
      /\ Leaders!TermsAsk <=> A!Leaders!TermsAsk
  BY <1>2 DEF Leaders!OneLeaderReturn, A!Leaders!OneLeaderReturn, Leaders!TermsAsk, A!Leaders!TermsAsk,
         Leaders!Asking, A!Leaders!Asking, Leaders!Tried, A!Leaders!Tried, Leaders!TwoLeaders, A!Leaders!TwoLeaders,
         Leaders!raftVars, A!Leaders!raftVars
<1>5. /\ Leaders!SkipDisconnected <=> A!Leaders!SkipDisconnected
      /\ Leaders!NoLeaderAsk <=> A!Leaders!NoLeaderAsk
      /\ Leaders!Passed <=> A!Leaders!Passed
      /\ Leaders!OneLeaderAsk <=> A!Leaders!OneLeaderAsk
      /\ Leaders!OneLeaderRetry <=> A!Leaders!OneLeaderRetry
      /\ Leaders!OneLeaderNone <=> A!Leaders!OneLeaderNone
      /\ Leaders!Reconnect <=> A!Leaders!Reconnect
  BY DEF Leaders!SkipDisconnected, A!Leaders!SkipDisconnected, Leaders!NoLeaderAsk, A!Leaders!NoLeaderAsk,
         Leaders!Passed, A!Leaders!Passed, Leaders!OneLeaderAsk, A!Leaders!OneLeaderAsk, Leaders!OneLeaderRetry,
         A!Leaders!OneLeaderRetry, Leaders!OneLeaderNone, A!Leaders!OneLeaderNone, Leaders!Reconnect, A!Leaders!Reconnect,
         Leaders!Asking, A!Leaders!Asking, Leaders!Tried, A!Leaders!Tried, Leaders!raftVars, A!Leaders!raftVars
<1>6. Leaders!Next <=> A!Leaders!Next
  <2>1. Leaders!Servers = A!Leaders!Servers
    BY DEF Leaders!Servers, A!Leaders!Servers
  <2> QED BY <1>3, <1>4, <1>5, <2>1 DEF Leaders!Next, A!Leaders!Next
<1> QED BY <1>1, <1>6 DEF Leaders!vars, A!Leaders!vars, Leaders!raftVars, A!Leaders!raftVars

LEMMA AnyRaftSame ==
  /\ AnyRaft!Init <=> A!Oracle!Init
  /\ [AnyRaft!Next]_AnyRaft!vars <=> [A!Oracle!Next]_A!Oracle!vars
<1>1. AnyRaft!Init <=> A!Oracle!Init
  BY DEF AnyRaft!Init, A!Oracle!Init, AnyRaft!Servers, A!Oracle!Servers, AnyRaft!Indices, A!Oracle!Indices,
         AnyRaft!Entries, A!Oracle!Entries, AnyRaft!Insts, A!Oracle!Insts,
         AnyRaft!Snapshot, A!Oracle!Snapshot, AnyRaft!NoSnap, A!Oracle!NoSnap,
         AnyRaft!Reading, A!Oracle!Reading, AnyRaft!IdleTest, A!Oracle!IdleTest
<1>2. AnyRaft!Next <=> A!Oracle!Next
  BY DEF AnyRaft!Next, A!Oracle!Next, AnyRaft!Applier, A!Oracle!Applier, AnyRaft!Tester, A!Oracle!Tester,
         AnyRaft!Apply, A!Oracle!Apply, AnyRaft!Fatal, A!Oracle!Fatal,
         AnyRaft!Failed, A!Oracle!Failed, AnyRaft!Applying, A!Oracle!Applying, AnyRaft!SnapRecv, A!Oracle!SnapRecv,
         AnyRaft!SnapCheck, A!Oracle!SnapCheck, AnyRaft!SnapLast, A!Oracle!SnapLast,
         AnyRaft!SnapTake, A!Oracle!SnapTake, AnyRaft!SnapInstall, A!Oracle!SnapInstall,
         AnyRaft!Crash, A!Oracle!Crash, AnyRaft!Start, A!Oracle!Start, AnyRaft!OneBegin, A!Oracle!OneBegin,
         AnyRaft!OneTry, A!Oracle!OneTry, AnyRaft!NCommitted, A!Oracle!NCommitted,
         AnyRaft!OnePolled, A!Oracle!OnePolled, AnyRaft!OneNobody, A!Oracle!OneNobody,
         AnyRaft!WaitBegin, A!Oracle!WaitBegin, AnyRaft!WaitPolled, A!Oracle!WaitPolled,
         AnyRaft!WaitFinal, A!Oracle!WaitFinal, AnyRaft!TestNext, A!Oracle!TestNext,
         AnyRaft!Running, A!Oracle!Running, AnyRaft!Conflict, A!Oracle!Conflict,
         AnyRaft!ApplyError, A!Oracle!ApplyError, AnyRaft!Present, A!Oracle!Present,
         AnyRaft!Record, A!Oracle!Record, AnyRaft!MayApply, A!Oracle!MayApply,
         AnyRaft!MaySend, A!Oracle!MaySend, AnyRaft!Sent, A!Oracle!Sent, AnyRaft!EndLoop, A!Oracle!EndLoop,
         AnyRaft!Ingest, A!Oracle!Ingest, AnyRaft!StartPoll, A!Oracle!StartPoll,
         AnyRaft!CountEntry, A!Oracle!CountEntry, AnyRaft!Done, A!Oracle!Done,
         AnyRaft!Servers, A!Oracle!Servers, AnyRaft!Indices, A!Oracle!Indices,
         AnyRaft!Entries, A!Oracle!Entries, AnyRaft!Insts, A!Oracle!Insts,
         AnyRaft!Snapshot, A!Oracle!Snapshot, AnyRaft!NoSnap, A!Oracle!NoSnap,
         AnyRaft!Reading, A!Oracle!Reading, AnyRaft!IdleTest, A!Oracle!IdleTest, AnyRaft!env, A!Oracle!env
<1> QED BY <1>1, <1>2 DEF AnyRaft!vars, A!Oracle!vars

LEMMA RestartsSame ==
  /\ Restarts!Init <=> R!Oracle!Init
  /\ [Restarts!Next]_Restarts!vars <=> [R!Oracle!Next]_R!Oracle!vars
<1>1. Restarts!Init <=> R!Oracle!Init
  BY DEF Restarts!Init, R!Oracle!Init, Restarts!Servers, R!Oracle!Servers,
         Restarts!Indices, R!Oracle!Indices, Restarts!Entries, R!Oracle!Entries,
         Restarts!Insts, R!Oracle!Insts, Restarts!Snapshot, R!Oracle!Snapshot,
         Restarts!NoSnap, R!Oracle!NoSnap, Restarts!Reading, R!Oracle!Reading,
         Restarts!IdleTest, R!Oracle!IdleTest
<1>2. Restarts!Next <=> R!Oracle!Next
  BY DEF Restarts!Next, R!Oracle!Next, Restarts!Applier, R!Oracle!Applier, Restarts!Tester, R!Oracle!Tester,
         Restarts!Apply, R!Oracle!Apply, Restarts!Fatal, R!Oracle!Fatal,
         Restarts!Failed, R!Oracle!Failed, Restarts!Applying, R!Oracle!Applying, Restarts!SnapRecv, R!Oracle!SnapRecv,
         Restarts!SnapCheck, R!Oracle!SnapCheck, Restarts!SnapLast, R!Oracle!SnapLast,
         Restarts!SnapTake, R!Oracle!SnapTake, Restarts!SnapInstall, R!Oracle!SnapInstall,
         Restarts!Crash, R!Oracle!Crash, Restarts!Start, R!Oracle!Start,
         Restarts!OneBegin, R!Oracle!OneBegin, Restarts!OneTry, R!Oracle!OneTry,
         Restarts!NCommitted, R!Oracle!NCommitted, Restarts!OnePolled, R!Oracle!OnePolled,
         Restarts!OneNobody, R!Oracle!OneNobody, Restarts!WaitBegin, R!Oracle!WaitBegin,
         Restarts!WaitPolled, R!Oracle!WaitPolled, Restarts!WaitFinal, R!Oracle!WaitFinal,
         Restarts!TestNext, R!Oracle!TestNext, Restarts!Running, R!Oracle!Running,
         Restarts!Conflict, R!Oracle!Conflict, Restarts!ApplyError, R!Oracle!ApplyError,
         Restarts!Present, R!Oracle!Present, Restarts!Record, R!Oracle!Record,
         Restarts!MayApply, R!Oracle!MayApply, Restarts!MaySend, R!Oracle!MaySend,
         Restarts!Sent, R!Oracle!Sent, Restarts!EndLoop, R!Oracle!EndLoop, Restarts!Ingest, R!Oracle!Ingest,
         Restarts!StartPoll, R!Oracle!StartPoll, Restarts!CountEntry, R!Oracle!CountEntry,
         Restarts!Done, R!Oracle!Done, Restarts!Servers, R!Oracle!Servers,
         Restarts!Indices, R!Oracle!Indices, Restarts!Entries, R!Oracle!Entries,
         Restarts!Insts, R!Oracle!Insts, Restarts!Snapshot, R!Oracle!Snapshot,
         Restarts!NoSnap, R!Oracle!NoSnap, Restarts!Reading, R!Oracle!Reading,
         Restarts!IdleTest, R!Oracle!IdleTest, Restarts!env, R!Oracle!env
<1> QED BY <1>1, <1>2 DEF Restarts!vars, R!Oracle!vars

LEMMA SnapsSame ==
  /\ Snaps!Init <=> S!Oracle!Init
  /\ [Snaps!Next]_Snaps!vars <=> [S!Oracle!Next]_S!Oracle!vars
<1>1. Snaps!Init <=> S!Oracle!Init
  BY DEF Snaps!Init, S!Oracle!Init, Snaps!Servers, S!Oracle!Servers, Snaps!Indices, S!Oracle!Indices,
         Snaps!Entries, S!Oracle!Entries, Snaps!Insts, S!Oracle!Insts, Snaps!Snapshot, S!Oracle!Snapshot,
         Snaps!NoSnap, S!Oracle!NoSnap, Snaps!Reading, S!Oracle!Reading, Snaps!IdleTest, S!Oracle!IdleTest
<1>2. Snaps!Next <=> S!Oracle!Next
  BY DEF Snaps!Next, S!Oracle!Next, Snaps!Applier, S!Oracle!Applier, Snaps!Tester, S!Oracle!Tester,
         Snaps!Apply, S!Oracle!Apply, Snaps!Fatal, S!Oracle!Fatal,
         Snaps!Failed, S!Oracle!Failed, Snaps!Applying, S!Oracle!Applying, Snaps!SnapRecv, S!Oracle!SnapRecv, Snaps!SnapCheck, S!Oracle!SnapCheck,
         Snaps!SnapLast, S!Oracle!SnapLast, Snaps!SnapTake, S!Oracle!SnapTake,
         Snaps!SnapInstall, S!Oracle!SnapInstall, Snaps!Crash, S!Oracle!Crash, Snaps!Start, S!Oracle!Start,
         Snaps!OneBegin, S!Oracle!OneBegin, Snaps!OneTry, S!Oracle!OneTry,
         Snaps!NCommitted, S!Oracle!NCommitted, Snaps!OnePolled, S!Oracle!OnePolled,
         Snaps!OneNobody, S!Oracle!OneNobody, Snaps!WaitBegin, S!Oracle!WaitBegin,
         Snaps!WaitPolled, S!Oracle!WaitPolled, Snaps!WaitFinal, S!Oracle!WaitFinal,
         Snaps!TestNext, S!Oracle!TestNext, Snaps!Running, S!Oracle!Running,
         Snaps!Conflict, S!Oracle!Conflict, Snaps!ApplyError, S!Oracle!ApplyError,
         Snaps!Present, S!Oracle!Present, Snaps!Record, S!Oracle!Record, Snaps!MayApply, S!Oracle!MayApply,
         Snaps!MaySend, S!Oracle!MaySend, Snaps!Sent, S!Oracle!Sent, Snaps!EndLoop, S!Oracle!EndLoop,
         Snaps!Ingest, S!Oracle!Ingest, Snaps!StartPoll, S!Oracle!StartPoll,
         Snaps!CountEntry, S!Oracle!CountEntry, Snaps!Done, S!Oracle!Done, Snaps!Servers, S!Oracle!Servers,
         Snaps!Indices, S!Oracle!Indices, Snaps!Entries, S!Oracle!Entries, Snaps!Insts, S!Oracle!Insts,
         Snaps!Snapshot, S!Oracle!Snapshot, Snaps!NoSnap, S!Oracle!NoSnap, Snaps!Reading, S!Oracle!Reading,
         Snaps!IdleTest, S!Oracle!IdleTest, Snaps!env, S!Oracle!env
<1> QED BY <1>1, <1>2 DEF Snaps!vars, S!Oracle!vars

-----------------------------------------------------------------------------
(* Theorems.                                                               *)

\* Of two live workers that sleep in nparallel at the same time one has counted
\* both, and no worker is counted that was outside its own call.
THEOREM ParallelismIsMeasured == Spec => []CountsParallel
<1> DEFINE P == config = "workers"
<1>1. Init /\ P => A!Timing!Init
  BY WorkersSame DEF Init
<1>2. [Next]_vars => (P <=> P') /\ (P => [A!Timing!Next]_A!Timing!vars)
  BY WorkersSame DEF Next, vars, workerVars, Timing!vars
<1>3. A!Timing!TasksAssumption
  BY Configured DEF A!Timing!TasksAssumption, Timing!TasksAssumption
<1>4. A!Timing!Spec => []A!Timing!OverlapIsSeen
  BY <1>3, NoPartition, A!OverlapSeen
<1>5. A!Timing!Spec => []A!Timing!CountsOnlyParallel
  BY <1>3, NoPartition, A!OnlyParallelCounted
<1>6. (P => A!Timing!OverlapIsSeen /\ A!Timing!CountsOnlyParallel) => CountsParallel
  BY DEF CountsParallel, A!Timing!OverlapIsSeen, A!Timing!CountsOnlyParallel,
         Timing!OverlapIsSeen, Timing!CountsOnlyParallel
<1> HIDE DEF P
<1> QED BY <1>1, <1>2, <1>4, <1>5, <1>6, PTL DEF Spec, A!Timing!Spec

\* The checks of leaders and terms, on three servers: the latest leader once
\* elections have settled, a term between the first and the last question, no
\* leader where no majority is connected.
THEOREM LeaderChecksAnswer == Spec => []LeaderAnswers
<1> DEFINE P == config = "leaders"
<1>1. Init /\ P => A!Leaders!Init
  BY LeadersSame DEF Init
<1>2. [Next]_vars => (P <=> P') /\ (P => [A!Leaders!Next]_A!Leaders!vars)
  BY LeadersSame DEF Next, vars, leaderVars, Leaders!vars, Leaders!raftVars
<1>3. A!Leaders!LeaderAssumption
  BY Configured DEF A!Leaders!LeaderAssumption, Leaders!LeaderAssumption, A!Leaders!Servers, Leaders!Servers
<1>4. A!Leaders!Spec => []A!Leaders!SettledLeader
  BY <1>3, NoPartition, A!LatestLeaderIsReturned
<1>5. A!Leaders!Spec => []A!Leaders!TermsBracketed
  BY <1>3, NoPartition, A!TermsAreBracketed
<1>6. A!Leaders!Spec => []A!Leaders!NoLeaderIsTrue
  BY <1>3, NoPartition, A!NoLeaderStays
<1>7. (P => A!Leaders!SettledLeader /\ A!Leaders!TermsBracketed /\ A!Leaders!NoLeaderIsTrue) => LeaderAnswers
  <2>1. \A T : Leaders!Cardinality(T) = A!Leaders!Cardinality(T)
    BY DEF Leaders!Cardinality, A!Leaders!Cardinality
  <2>2. A!Leaders!NoLeaderIsTrue => Leaders!NoLeaderIsTrue
    BY <2>1 DEF A!Leaders!NoLeaderIsTrue, Leaders!NoLeaderIsTrue, A!Leaders!Quorum, Leaders!Quorum
  <2> QED BY <2>2 DEF LeaderAnswers, A!Leaders!SettledLeader, A!Leaders!TermsBracketed,
                      Leaders!SettledLeader, Leaders!TermsBracketed
<1> HIDE DEF P
<1> QED BY <1>1, <1>2, <1>4, <1>5, <1>6, <1>7, PTL DEF Spec, A!Leaders!Spec

\* Any Raft on three servers: after a disagreement or a gap an applier has an error
\* and fails the run, and until then an agreement that one or wait reports is there.
THEOREM AnyRaftIsJudged == Spec => []WrongIsNoticed
<1> DEFINE P == config = "any raft"
<1>1. Init /\ P => A!Oracle!Init
  BY AnyRaftSame DEF Init
<1>2. [Next]_vars => (P <=> P') /\ (P => [A!Oracle!Next]_A!Oracle!vars)
  BY AnyRaftSame DEF Next, vars, oracleVars, AnyRaft!vars
<1>3. A!Oracle!OracleAssumption
  BY Configured DEF A!Oracle!OracleAssumption, AnyRaft!OracleAssumption
<1>4. A!Oracle!Spec => []A!Oracle!LogsAgree
  BY <1>3, NoPartition, A!DisagreementIsNoticed
<1>5. A!Oracle!Spec => []A!Oracle!NoGaps
  BY <1>3, NoPartition, A!GapIsNoticed
<1>6. A!Oracle!Spec => []A!Oracle!AgreedIsCommitted
  BY <1>3, NoPartition, A!AgreementIsReal
<1>7. (P => A!Oracle!LogsAgree /\ A!Oracle!NoGaps /\ A!Oracle!AgreedIsCommitted) => WrongIsNoticed
  <2>1. \A T : AnyRaft!Cardinality(T) = A!Oracle!Cardinality(T)
    BY DEF AnyRaft!Cardinality, A!Oracle!Cardinality
  <2>2. A!Oracle!AgreedIsCommitted => AnyRaft!AgreedIsCommitted
    BY <2>1 DEF A!Oracle!AgreedIsCommitted, AnyRaft!AgreedIsCommitted, A!Oracle!Running, AnyRaft!Running,
                A!Oracle!NoError, AnyRaft!NoError, A!Oracle!Insts, AnyRaft!Insts, A!Oracle!Servers, AnyRaft!Servers
  <2>3. A!Oracle!LogsAgree => AnyRaft!LogsAgree
    BY DEF A!Oracle!LogsAgree, AnyRaft!LogsAgree, A!Oracle!Running, AnyRaft!Running, A!Oracle!Servers, AnyRaft!Servers,
           A!Oracle!NoError, AnyRaft!NoError, A!Oracle!Insts, AnyRaft!Insts, A!Oracle!Present, AnyRaft!Present
  <2>4. A!Oracle!NoGaps => AnyRaft!NoGaps
    BY DEF A!Oracle!NoGaps, AnyRaft!NoGaps, A!Oracle!Running, AnyRaft!Running, A!Oracle!Servers, AnyRaft!Servers,
           A!Oracle!NoError, AnyRaft!NoError, A!Oracle!Insts, AnyRaft!Insts, A!Oracle!Present, AnyRaft!Present
  <2> QED BY <2>2, <2>3, <2>4 DEF WrongIsNoticed
<1> HIDE DEF P
<1> QED BY <1>1, <1>2, <1>4, <1>5, <1>6, <1>7, PTL DEF Spec, A!Oracle!Spec

\* A correct Raft is failed by none of the checks: restarted without snapshots or
\* with them, unless while applierSnap is in the middle of a command of an earlier
\* instance, or asked for its leaders.
THEOREM CorrectRaftPasses == Spec => []NoFalseAlarm
<1> DEFINE P == config = "restarts"
           Q == config = "snapshots"
           T == config = "leaders"
<1>1. /\ Init /\ P => R!Oracle!Init
      /\ Init /\ Q => S!Oracle!Init
      /\ Init /\ T => A!Leaders!Init
  BY RestartsSame, SnapsSame, LeadersSame DEF Init
<1>2. [Next]_vars => (P <=> P') /\ (P => [R!Oracle!Next]_R!Oracle!vars)
  BY RestartsSame DEF Next, vars, oracleVars, Restarts!vars
<1>3. [Next]_vars => (Q <=> Q') /\ (Q => [S!Oracle!Next]_S!Oracle!vars)
  BY SnapsSame DEF Next, vars, oracleVars, Snaps!vars
<1>4. [Next]_vars => (T <=> T') /\ (T => [A!Leaders!Next]_A!Leaders!vars)
  BY LeadersSame DEF Next, vars, leaderVars, Leaders!vars, Leaders!raftVars
<1>5. /\ R!Oracle!OracleAssumption
      /\ S!Oracle!OracleAssumption
      /\ A!Leaders!LeaderAssumption
  BY Configured DEF R!Oracle!OracleAssumption, Restarts!OracleAssumption, S!Oracle!OracleAssumption,
                    Snaps!OracleAssumption, A!Leaders!LeaderAssumption, Leaders!LeaderAssumption,
                    A!Leaders!Servers, Leaders!Servers
<1>6. R!Oracle!Spec => []R!Oracle!NoFalseAlarm
  BY <1>5, NoPartition, R!CorrectIsNotFailed
<1>7. S!Oracle!Spec => []S!Oracle!NoFalseAlarm
  BY <1>5, NoPartition, S!CorrectIsNotFailed
<1>8. A!Leaders!Spec => []A!Leaders!NoFalseAlarm
  BY <1>5, NoPartition, A!OneLeaderPerTerm
<1>9. /\ P => R!Oracle!NoFalseAlarm
      /\ Q => S!Oracle!NoFalseAlarm
      /\ T => A!Leaders!NoFalseAlarm
      => NoFalseAlarm
  BY DEF NoFalseAlarm, R!Oracle!NoFalseAlarm, Restarts!NoFalseAlarm, S!Oracle!NoFalseAlarm, Snaps!NoFalseAlarm,
         A!Leaders!NoFalseAlarm, Leaders!NoFalseAlarm
<1> HIDE DEF P, Q, T
<1> QED BY <1>1, <1>2, <1>3, <1>4, <1>6, <1>7, <1>8, <1>9, PTL DEF Spec, R!Oracle!Spec, S!Oracle!Spec, A!Leaders!Spec
=============================================================================
