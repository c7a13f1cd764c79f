----------------------------- MODULE JudgeProofs -----------------------------
(***************************************************************************)
(* Theorems about the judges of the tests: CheckParallel, porcupine's      *)
(* checker of the partitions of a history; RaftOracle, the appliers and    *)
(* agreement checks of the raft tests; LeaderCheck, their checks of        *)
(* leaders and terms; NParallel, the count that the mapreduce tests take   *)
(* for parallelism.  They hold for any number of partitions, servers,      *)
(* instances, commands, terms and worker processes and any length of the   *)
(* log.                                                                    *)
(***************************************************************************)
EXTENDS CheckParallel, FiniteSetTheorems, WellFoundedInduction, TLAPS

CONSTANTS N, Commands, MaxIndex, MaxGen, Snapshots, SnapShotInterval, Correct, Expected,
          None, Nil,                              \* RaftOracle
          Networks, Checks, MaxIters, MaxTerm,    \* LeaderCheck
          Workers, MaxTasks                       \* NParallel

VARIABLES logs, lastApplied, maxIndex, rafts, gen, saved, made, next, log, app, test,
          alarm, stale,                                           \* RaftOracle
          term, vote, leads, connected, check, asked, iters, seen, checkTerm, outcome, leader,
          stable, began,                                          \* LeaderCheck
          alive, files, pc, tasks, names, counted, inCall         \* NParallel

Oracle  == INSTANCE RaftOracle
Leaders == INSTANCE LeaderCheck WITH i <- asked, result <- outcome
Timing  == INSTANCE NParallel

-----------------------------------------------------------------------------
(* CheckParallel.                                                          *)

Ended == {p \in Partitions : worker[p] = "end"}

Types ==
  /\ legal \in SUBSET Partitions
  /\ worker \in [Partitions -> {"check", "write", "send", "end"}]
  /\ answer \in [Partitions -> BOOLEAN]
  /\ longest \in SUBSET Partitions
  /\ results \in Seq(BOOLEAN)
  /\ main \in {"select", "drain", "info", "done"}
  /\ computeInfo \in BOOLEAN /\ timeout \in BOOLEAN
  /\ kill \in BOOLEAN /\ ok \in BOOLEAN /\ timedOut \in BOOLEAN
  /\ count \in Nat
  /\ result \in {"none", "Unknown", "Ok", "Illegal"}

\* No result is lost: those received and those in the channel are those sent.
Accounting == count + Len(results) = Cardinality(Ended)

\* Nobody is killed before the loop has been left, and a goroutine that was
\* not killed answers truly.
Honest ==
  /\ main = "select" => ~kill /\ ~timedOut
  /\ ~kill => \A p \in Partitions : worker[p] # "check" => (answer[p] <=> p \in legal)

\* While the loop runs: a false result in the channel is true to its partition,
\* and every illegal partition that has been reported is in the channel or in ok.
Reported ==
  main = "select" =>
    /\ \A k \in 1 .. Len(results) : results[k] = FALSE => legal # Partitions
    /\ \A p \in Ended : p \notin legal =>
         ok = FALSE \/ \E k \in 1 .. Len(results) : results[k] = FALSE

\* What ok means, during the loop and after it.
Meaning ==
  /\ ok = FALSE => legal # Partitions
  /\ main # "select" /\ ok /\ ~timedOut => legal = Partitions
  /\ timedOut => timeout
  /\ result # "none" => main # "select" /\ result = Verdict(ok, timedOut)

\* The partial linearizations are read when every goroutine has sent its result.
Waited == main = "info" => Ended = Partitions

Inv == Types /\ Accounting /\ Honest /\ Reported /\ Meaning /\ Waited

-----------------------------------------------------------------------------

LEMMA EndedCount ==
  /\ Cardinality(Partitions) \in Nat
  /\ IsFiniteSet(Ended) /\ Cardinality(Ended) \in Nat
  /\ Cardinality(Ended) <= Cardinality(Partitions)
  /\ Cardinality(Ended) = Cardinality(Partitions) => Ended = Partitions
<1>1. Ended \subseteq Partitions
  BY DEF Ended
<1> QED BY <1>1, PartitionsAssumption, FS_Subset, FS_CardinalityType

LEMMA InitInv == Init => Inv
<1> SUFFICES ASSUME Init PROVE Inv
  OBVIOUS
<1>1. Ended = {}
  BY DEF Init, Ended
<1>2. Cardinality(Ended) = 0
  BY <1>1, FS_EmptySet
<1>3. Types
  <2>1. /\ computeInfo \in BOOLEAN /\ timeout \in BOOLEAN
        /\ kill \in BOOLEAN /\ ok \in BOOLEAN /\ timedOut \in BOOLEAN
    BY Zenon DEF Init
  <2>2. /\ legal \in SUBSET Partitions /\ longest \in SUBSET Partitions
        /\ worker \in [Partitions -> {"check", "write", "send", "end"}]
        /\ main \in {"select", "drain", "info", "done"}
        /\ count \in Nat
        /\ result \in {"none", "Unknown", "Ok", "Illegal"}
    BY DEF Init
  <2>3. answer \in [Partitions -> BOOLEAN]
    BY Zenon DEF Init
  <2>4. results \in Seq(BOOLEAN)
    BY DEF Init
  <2> QED BY <2>1, <2>2, <2>3, <2>4 DEF Types
<1>4. Accounting
  BY <1>2 DEF Init, Accounting
<1>5. Honest /\ Reported /\ Meaning /\ Waited
  BY <1>1 DEF Init, Honest, Reported, Meaning, Waited
<1> QED BY <1>3, <1>4, <1>5 DEF Inv

\* A goroutine that is not at its send leaves Ended as it is.
LEMMA CheckWriteStep ==
  ASSUME Inv, NEW p \in Partitions, Check(p) \/ Write(p)
  PROVE  Inv'
<1> USE DEF Inv, params
<1>1. Types'
  <2>1. answer' \in [Partitions -> BOOLEAN]
    <3>1. CASE Check(p)
      <4>1. ASSUME NEW b \in BOOLEAN, answer' = [answer EXCEPT ![p] = b]
            PROVE  answer' \in [Partitions -> BOOLEAN]
        BY <4>1 DEF Types
      <4>2. (p \in legal) \in BOOLEAN /\ FALSE \in BOOLEAN
        OBVIOUS
      <4> QED BY <3>1, <4>1, <4>2, Zenon DEF Check
    <3>2. CASE Write(p)
      BY <3>2 DEF Types, Write
    <3> QED BY <3>1, <3>2
  <2> QED BY <2>1 DEF Types, Check, Write
<1>2. Ended' = Ended
  BY DEF Types, Check, Write, Ended
<1>3. Accounting'
  BY <1>2 DEF Accounting, Check, Write
<1>4. Honest'
  <2>1. CASE Check(p)
    BY <2>1 DEF Types, Honest, Check
  <2>2. CASE Write(p)
    BY <2>2 DEF Types, Honest, Write
  <2> QED BY <2>1, <2>2
<1>5. UNCHANGED <<legal, timeout, main, results, ok, timedOut, result>>
  BY DEF Check, Write
<1>6. Reported' /\ Waited'
  BY <1>2, <1>5 DEF Reported, Waited
<1>7. Meaning'
  BY <1>5 DEF Meaning, Verdict
<1> QED BY <1>1, <1>3, <1>4, <1>6, <1>7

LEMMA SendStep ==
  ASSUME Inv, NEW p \in Partitions, Send(p)
  PROVE  Inv'
<1> USE DEF Inv, params
<1>1. Types'
  BY DEF Types, Send
<1>2. Ended' = Ended \cup {p} /\ p \notin Ended
  BY DEF Types, Send, Ended
<1>3. Cardinality(Ended') = Cardinality(Ended) + 1
  BY <1>2, EndedCount, FS_AddElement
<1>4. /\ results \in Seq(BOOLEAN) /\ answer[p] \in BOOLEAN
      /\ results' = Append(results, answer[p])
  BY DEF Types, Send
<1>5. /\ Len(results') = Len(results) + 1
      /\ Len(results) \in Nat
      /\ results'[Len(results) + 1] = answer[p]
      /\ \A k \in 1 .. Len(results) : results'[k] = results[k]
  BY <1>4
<1>6. Accounting'
  BY <1>3, <1>5, EndedCount DEF Accounting, Types, Send
<1>7. Honest'
  BY DEF Types, Honest, Send
<1>8. UNCHANGED <<legal, timeout, main, ok, timedOut, result, kill>>
  BY DEF Send
<1>9. main = "select" => (answer[p] <=> p \in legal)
  BY DEF Honest, Send
<1>10. Reported'
  <2> SUFFICES ASSUME main = "select" PROVE Reported'
    BY <1>8 DEF Reported
  <2>1. answer[p] = FALSE => p \notin legal
    BY <1>9
  <2>2. p \notin legal => answer[p] = FALSE
    BY <1>4, <1>9
  <2>3. \A k \in 1 .. Len(results') : results'[k] = FALSE => legal' # Partitions
    BY <1>5, <1>8, <2>1 DEF Reported
  <2>4. ASSUME NEW q \in Ended', q \notin legal', ok' # FALSE
        PROVE  \E k \in 1 .. Len(results') : results'[k] = FALSE
    <3>1. CASE q = p
      BY <1>5, <1>8, <2>2, <2>4, <3>1
    <3>2. CASE q \in Ended
      <4>1. PICK k \in 1 .. Len(results) : results[k] = FALSE
        BY <1>8, <2>4, <3>2 DEF Reported
      <4> QED BY <1>5, <4>1
    <3> QED BY <1>2, <3>1, <3>2
  <2> QED BY <2>3, <2>4 DEF Reported
<1>11. Waited'
  BY <1>2, <1>8 DEF Waited, Ended
<1>12. Meaning'
  BY <1>8 DEF Meaning, Verdict
<1> QED BY <1>1, <1>6, <1>7, <1>10, <1>11, <1>12

\* What a receive from the channel does to the accounts.
LEMMA TakeOne ==
  ASSUME Inv, results # <<>>, results' = Tail(results), count' = count + 1, UNCHANGED worker
  PROVE  /\ results \in Seq(BOOLEAN) /\ results' \in Seq(BOOLEAN)
         /\ Len(results) \in Nat \ {0} /\ Len(results') = Len(results) - 1
         /\ \A k \in 1 .. Len(results') : results'[k] = results[k + 1]
         /\ results[1] \in BOOLEAN
         /\ Ended' = Ended /\ count' \in Nat /\ Accounting'
         /\ count' >= Cardinality(Partitions) => Ended = Partitions /\ Len(results) = 1
<1>1. results \in Seq(BOOLEAN) /\ count \in Nat
  BY DEF Inv, Types
<1>2. /\ results' \in Seq(BOOLEAN)
      /\ Len(results) \in Nat \ {0} /\ Len(results') = Len(results) - 1
      /\ \A k \in 1 .. Len(results') : results'[k] = results[k + 1]
      /\ results[1] \in BOOLEAN
  BY <1>1
<1>3. Ended' = Ended
  BY DEF Ended
<1>4. Accounting'
  BY <1>1, <1>2, <1>3 DEF Inv, Accounting
<1>5. count' >= Cardinality(Partitions) => Ended = Partitions /\ Len(results) = 1
  BY <1>1, <1>2, EndedCount DEF Inv, Accounting
<1> QED BY <1>1, <1>2, <1>3, <1>4, <1>5

LEMMA ReceiveStep == Inv /\ Receive => Inv'
<1> SUFFICES ASSUME Inv, Receive PROVE Inv'
  OBVIOUS
<1> USE DEF params
<1>1. /\ results # <<>> /\ results' = Tail(results) /\ count' = count + 1
      /\ UNCHANGED <<legal, computeInfo, timeout, worker, answer, longest, timedOut>>
      /\ main = "select"
      /\ ok' = (ok /\ results[1])
  BY DEF Receive, Combine
<1> DEFINE illegal == ~ok' /\ ~computeInfo
<1>2. /\ kill' = (kill \/ illegal)
      /\ (illegal \/ count' >= Cardinality(Partitions)) =>
            main' = AfterLoop /\ result' = IF computeInfo THEN result ELSE Verdict(ok', timedOut')
      /\ ~(illegal \/ count' >= Cardinality(Partitions)) => main' = main /\ result' = result
  BY DEF Receive, Leave, AllIn
<1>3. /\ results \in Seq(BOOLEAN) /\ results' \in Seq(BOOLEAN)
      /\ Len(results) \in Nat \ {0} /\ Len(results') = Len(results) - 1
      /\ \A k \in 1 .. Len(results') : results'[k] = results[k + 1]
      /\ results[1] \in BOOLEAN
      /\ Ended' = Ended /\ count' \in Nat /\ Accounting'
      /\ count' >= Cardinality(Partitions) => Ended = Partitions /\ Len(results) = 1
  BY <1>1, TakeOne
<1>4. ~kill /\ ~timedOut /\ result = "none"
  BY <1>1 DEF Inv, Honest, Meaning
<1>5. ok \in BOOLEAN /\ ok' \in BOOLEAN /\ computeInfo \in BOOLEAN /\ kill \in BOOLEAN
  BY <1>1, <1>3 DEF Inv, Types
<1>6. main' \in {"select", "drain", "done"} /\ result' \in {"none", "Unknown", "Ok", "Illegal"}
  BY <1>1, <1>2, <1>4 DEF AfterLoop, Verdict
<1>7. Types'
  BY <1>1, <1>2, <1>3, <1>5, <1>6 DEF Inv, Types
<1>8. ok' = FALSE => legal # Partitions
  <2>1. CASE ok = FALSE
    BY <2>1 DEF Inv, Meaning
  <2>2. CASE results[1] = FALSE
    BY <1>1, <1>3, <2>2 DEF Inv, Reported
  <2> QED BY <1>1, <1>3, <1>5, <2>1, <2>2
<1>9. \A p \in Ended : p \notin legal =>
         ok' = FALSE \/ \E k \in 1 .. Len(results') : results'[k] = FALSE
  <2> SUFFICES ASSUME NEW p \in Ended, p \notin legal, ok' # FALSE
               PROVE  \E k \in 1 .. Len(results') : results'[k] = FALSE
    OBVIOUS
  <2>1. ok # FALSE /\ results[1] # FALSE
    BY <1>1, <1>5
  <2>2. PICK k \in 1 .. Len(results) : results[k] = FALSE
    BY <1>1, <2>1 DEF Inv, Reported
  <2>3. k - 1 \in 1 .. Len(results') /\ results'[k - 1] = results[k]
    <3>1. k # 1
      BY <2>1, <2>2, Zenon
    <3> QED BY <1>3, <2>2, <3>1
  <2> QED BY <2>2, <2>3
<1>10. ok' /\ main' # "select" => legal' = Partitions
  <2> SUFFICES ASSUME ok', main' # "select" PROVE legal = Partitions
    BY <1>1
  <2>1. count' >= Cardinality(Partitions)
    BY <1>1, <1>2
  <2>2. Ended = Partitions /\ Len(results') = 0
    BY <1>3, <2>1
  <2>3. \A p \in Partitions : p \in legal
    BY <1>9, <2>2
  <2> QED BY <2>3 DEF Inv, Types
<1>11. Honest'
  <2>1. main' = "select" => ~kill'
    BY <1>1, <1>2, <1>4 DEF AfterLoop
  <2>2. \A p \in Partitions : worker[p] # "check" => (answer[p] <=> p \in legal)
    BY <1>4 DEF Inv, Honest
  <2> QED BY <1>1, <1>4, <2>1, <2>2 DEF Honest
<1>12. Reported'
  BY <1>1, <1>3, <1>9 DEF Inv, Reported
<1>13. Meaning'
  <2>1. result' # "none" => main' # "select" /\ result' = Verdict(ok', timedOut')
    BY <1>1, <1>2, <1>4, <1>5 DEF AfterLoop
  <2>2. (timedOut => timeout)' /\ (ok' = FALSE => legal' # Partitions)
    BY <1>1, <1>8 DEF Inv, Meaning
  <2> QED BY <1>10, <2>1, <2>2 DEF Meaning, Verdict
<1>14. Waited'
  BY <1>6 DEF Waited
<1> QED BY <1>3, <1>7, <1>11, <1>12, <1>13, <1>14 DEF Inv

LEMMA TimeoutStep == Inv /\ Timeout => Inv'
<1> SUFFICES ASSUME Inv, Timeout PROVE Inv'
  OBVIOUS
<1> USE DEF params
<1>1. /\ UNCHANGED <<legal, computeInfo, timeout, worker, answer, longest, results, count, ok>>
      /\ timedOut' = TRUE /\ kill' = TRUE /\ timeout /\ main = "select"
      /\ main' = AfterLoop
      /\ result' = IF computeInfo THEN result ELSE Verdict(ok', timedOut')
  BY DEF Timeout, Leave
<1>2. Ended' = Ended
  BY <1>1 DEF Ended
<1>3. main' \in {"drain", "done"} /\ result' \in {"none", "Unknown", "Ok", "Illegal"}
  BY <1>1 DEF AfterLoop, Verdict, Inv, Types
<1>4. Types'
  BY <1>1, <1>3 DEF Inv, Types
<1>5. Accounting' /\ Waited' /\ Honest' /\ Reported'
  BY <1>1, <1>2, <1>3 DEF Inv, Accounting, Waited, Honest, Reported
<1>6. result = "none"
  BY <1>1 DEF Inv, Meaning
<1>7. Meaning'
  BY <1>1, <1>3, <1>6 DEF Inv, Meaning, Verdict
<1> QED BY <1>4, <1>5, <1>7 DEF Inv

LEMMA DrainStep == Inv /\ Drain => Inv'
<1> SUFFICES ASSUME Inv, Drain PROVE Inv'
  OBVIOUS
<1> USE DEF params
<1>1. /\ UNCHANGED <<legal, computeInfo, timeout, worker, answer, longest, kill, ok, timedOut, result>>
      /\ main = "drain" /\ main' \in {"drain", "info"}
  BY DEF Drain
<1>2. Ended' = Ended
  BY <1>1 DEF Ended
<1>3. Types' /\ Accounting'
  <2>1. CASE results # <<>> /\ results' = Tail(results) /\ count' = count + 1
    BY <1>1, <2>1, TakeOne DEF Inv, Types
  <2>2. CASE UNCHANGED <<results, count>>
    BY <1>1, <1>2, <2>2 DEF Inv, Types, Accounting
  <2> QED BY <2>1, <2>2 DEF Drain
<1>4. main' = "info" => Ended = Partitions
  <2> SUFFICES ASSUME main' = "info" PROVE Ended = Partitions
    OBVIOUS
  <2>1. count >= Cardinality(Partitions)
    BY <1>1 DEF Drain
  <2>2. count \in Nat /\ Len(results) \in Nat
    BY DEF Inv, Types
  <2> QED BY <2>1, <2>2, EndedCount DEF Inv, Accounting
<1>5. Waited' /\ Honest' /\ Reported'
  BY <1>1, <1>2, <1>4 DEF Inv, Waited, Honest, Reported
<1>6. Meaning'
  BY <1>1 DEF Inv, Meaning, Verdict
<1> QED BY <1>3, <1>5, <1>6 DEF Inv

LEMMA InfoStep == Inv /\ ComputeInfo => Inv'
<1> SUFFICES ASSUME Inv, ComputeInfo PROVE Inv'
  OBVIOUS
<1> USE DEF params
<1>1. /\ UNCHANGED <<legal, computeInfo, timeout, worker, answer, longest, results, kill, ok, timedOut, count>>
      /\ main = "info" /\ main' = "done"
      /\ result' = Verdict(ok, timedOut)
  BY DEF ComputeInfo
<1>2. Ended' = Ended
  BY <1>1 DEF Ended
<1>3. Types'
  BY <1>1 DEF Inv, Types, Verdict
<1>4. Accounting' /\ Waited' /\ Honest' /\ Reported'
  BY <1>1, <1>2 DEF Inv, Accounting, Waited, Honest, Reported
<1>5. Meaning'
  BY <1>1 DEF Inv, Meaning, Verdict
<1> QED BY <1>3, <1>4, <1>5 DEF Inv

LEMMA NextInv == Inv /\ [Next]_vars => Inv'
<1> SUFFICES ASSUME Inv, [Next]_vars PROVE Inv'
  OBVIOUS
<1>1. ASSUME NEW p \in Partitions, Worker(p) PROVE Inv'
  BY <1>1, CheckWriteStep, SendStep DEF Worker
<1>2. CASE Main
  BY <1>2, ReceiveStep, TimeoutStep, DrainStep, InfoStep DEF Main
<1>3. CASE UNCHANGED vars
  BY <1>3 DEF vars, params, Inv, Types, Accounting, Honest, Reported, Meaning, Waited, Ended, Verdict
<1> QED BY <1>1, <1>2, <1>3 DEF Next

LEMMA InvImplies == Inv => TypeOK /\ VerdictIsRight /\ NoRaceOnLongest
<1> SUFFICES ASSUME Inv PROVE TypeOK /\ VerdictIsRight /\ NoRaceOnLongest
  OBVIOUS
<1>1. count \in Nat /\ Len(results) \in Nat
  BY DEF Inv, Types
<1>2. count \in 0 .. Cardinality(Partitions) /\ Len(results) <= Cardinality(Partitions)
  BY <1>1, EndedCount DEF Inv, Accounting
<1>3. TypeOK
  BY <1>2 DEF Inv, Types, TypeOK
<1>4. VerdictIsRight
  BY DEF Inv, Types, Meaning, VerdictIsRight, Verdict
<1>5. NoRaceOnLongest
  BY DEF Inv, Waited, Ended, NoRaceOnLongest
<1> QED BY <1>3, <1>4, <1>5

\* Every reachable state of checkParallel is well typed; the channel never
\* holds more results than there are partitions.
THEOREM ParallelTypes == Spec => []TypeOK
<1> QED BY InitInv, NextInv, InvImplies, PTL DEF Spec

\* checkParallel answers Ok only for histories all of whose partitions are
\* linearizable and Illegal only for others, however the goroutines, the kill
\* flag and the timer interleave.
THEOREM VerdictSound == Spec => []VerdictIsRight
<1> QED BY InitInv, NextInv, InvImplies, PTL DEF Spec

\* When checkParallel reads the partial linearizations no goroutine is still to
\* write its own.
THEOREM LongestSafe == Spec => []NoRaceOnLongest
<1> QED BY InitInv, NextInv, InvImplies, PTL DEF Spec

-----------------------------------------------------------------------------
(* RaftOracle.                                                             *)

LEMMA OracleCard == \A T : Oracle!Cardinality(T) = Cardinality(T)
  BY DEF Oracle!Cardinality, Cardinality

Polls == {"poll", "wait", "final"}

\* TypeOK, and the types of the check in progress and of the agreed log.
TestType ==
  /\ test \in [op : Polls \cup {"idle", "try", "agreed"}, cmd : Oracle!Entries, index : Oracle!Indices,
               starts : Oracle!Servers, si : 0 .. N, i : 0 .. N, count : Nat, got : Oracle!Entries]
  /\ test.op \in Polls \cup {"agreed"} => test.index \in 1 .. MaxIndex
  /\ log \in [1 .. MaxIndex -> Oracle!Entries]

TypeInv == Oracle!TypeOK /\ TestType

LEMMA TypeInit == ASSUME Oracle!OracleAssumption, Oracle!Init PROVE TypeInv
<1> USE DEF Oracle!OracleAssumption, Oracle!Init, Oracle!Servers, Oracle!Indices, Oracle!Entries
<1>1. Oracle!NoSnap \in Oracle!Snapshot
  BY DEF Oracle!NoSnap, Oracle!Snapshot
<1>2. app \in [Oracle!Insts -> [pc : {"none", "recv", "check", "last", "snap", "fatal"}, index : Oracle!Indices,
                        cmd : Oracle!Entries, err : BOOLEAN]]
  <2>1. Oracle!Reading \in [pc : {"none", "recv", "check", "last", "snap", "fatal"}, index : Oracle!Indices,
                     cmd : Oracle!Entries, err : BOOLEAN]
    BY DEF Oracle!Reading
  <2> QED BY <2>1
<1>3. logs \in [Oracle!Servers -> [Oracle!Indices -> Oracle!Entries \cup {None}]]
  OBVIOUS
<1>4. /\ rafts \in [Oracle!Servers -> 0 .. MaxGen] /\ gen \in [Oracle!Servers -> 1 .. MaxGen]
      /\ next \in [Oracle!Servers -> 1 .. MaxIndex + 1] /\ lastApplied \in [Oracle!Servers -> Oracle!Indices]
      /\ maxIndex \in Oracle!Indices
  OBVIOUS
<1>6. Oracle!TypeOK
  BY <1>1, <1>2, <1>3, <1>4 DEF Oracle!TypeOK
<1>5. TestType
  BY DEF TestType, Oracle!IdleTest, Polls
<1> QED BY <1>5, <1>6 DEF TypeInv

\* The actions of the tester keep the rest, and test keeps its type.
LEMMA TypeTester == ASSUME Oracle!OracleAssumption, TypeInv, Oracle!Tester PROVE TypeInv'
<1> USE DEF TypeInv
<1>1. Oracle!TypeOK'
  <2>1. UNCHANGED <<logs, lastApplied, maxIndex, Oracle!env, app>>
    BY DEF Oracle!Tester, Oracle!OneBegin, Oracle!WaitBegin, Oracle!OneTry, Oracle!NCommitted, Oracle!OnePolled, Oracle!OneNobody, Oracle!WaitPolled,
           Oracle!WaitFinal, Oracle!TestNext
  <2>2. alarm' \in {"none", "apply", "mismatch", "timeout"}
    BY DEF Oracle!Tester, Oracle!OneBegin, Oracle!WaitBegin, Oracle!OneTry, Oracle!NCommitted, Oracle!OnePolled, Oracle!OneNobody, Oracle!WaitPolled,
           Oracle!WaitFinal, Oracle!TestNext, Oracle!CountEntry, Oracle!TypeOK
  <2> QED BY <2>1, <2>2 DEF Oracle!TypeOK, Oracle!env
<1>2. log' = log
  BY DEF Oracle!Tester, Oracle!OneBegin, Oracle!WaitBegin, Oracle!OneTry, Oracle!NCommitted, Oracle!OnePolled, Oracle!OneNobody, Oracle!WaitPolled,
         Oracle!WaitFinal, Oracle!TestNext, Oracle!env
<1>3. Oracle!IdleTest \in [op : Polls \cup {"idle", "try", "agreed"}, cmd : Oracle!Entries, index : Oracle!Indices,
               starts : Oracle!Servers, si : 0 .. N, i : 0 .. N, count : Nat, got : Oracle!Entries]
  BY DEF Oracle!IdleTest, Oracle!Entries, Oracle!Indices, Oracle!Servers, Oracle!OracleAssumption, Polls
<1> USE DEF TestType
<1>4. ASSUME NEW c \in Commands, Oracle!OneBegin(c) PROVE TestType'
  BY <1>2, <1>3, <1>4 DEF Oracle!OneBegin, Oracle!IdleTest, Oracle!Entries, Polls
<1>5. ASSUME NEW k \in 1 .. MaxIndex, Oracle!WaitBegin(k) PROVE TestType'
  <2>1. k \in Oracle!Indices
    BY DEF Oracle!Indices, Oracle!OracleAssumption
  <2>2. test' = [Oracle!IdleTest EXCEPT !.op = "wait", !.index = k]
    BY <1>5 DEF Oracle!WaitBegin
  <2>3. test'.index = k
    BY <2>2 DEF Oracle!IdleTest
  <2> QED BY <1>2, <1>3, <2>1, <2>2, <2>3 DEF Polls
<1>6. ASSUME Oracle!OneTry PROVE TestType'
  <2>1. (test.starts + 1) % N \in Oracle!Servers
    BY DEF Oracle!Servers, Oracle!OracleAssumption
  <2>2. test.si + 1 \in 0 .. N /\ Nil \in Oracle!Entries /\ 0 \in 0 .. N
    <3>1. test.si \in 0 .. N /\ test.si < N
      BY <1>6 DEF Oracle!OneTry
    <3> QED BY <3>1 DEF Oracle!Entries, Oracle!OracleAssumption
  <2>3. CASE test' = [test EXCEPT !.starts = (test.starts + 1) % N, !.si = @ + 1]
    BY <1>2, <1>6, <2>1, <2>2, <2>3 DEF Oracle!OneTry, Polls
  <2>4. ASSUME NEW k \in 1 .. MaxIndex,
               test' = [test EXCEPT !.op = "poll", !.starts = (test.starts + 1) % N, !.index = k,
                                    !.i = 0, !.count = 0, !.got = Nil]
        PROVE  TestType'
    <3>1. k \in Oracle!Indices
      BY DEF Oracle!Indices, Oracle!OracleAssumption
    <3> QED BY <1>2, <2>1, <2>2, <2>4, <3>1 DEF Polls
  <2> QED BY <1>6, <2>3, <2>4 DEF Oracle!OneTry
<1>7. ASSUME Oracle!NCommitted PROVE TestType'
  <2>1. test.i \in Oracle!Servers
    BY <1>7 DEF Oracle!NCommitted, Oracle!Servers, Oracle!OracleAssumption
  <2>2. Oracle!Present(test.i, test.index) => logs[test.i][test.index] \in Oracle!Entries
    BY <2>1 DEF Oracle!Present, Oracle!TypeOK
  <2>3. test.i + 1 \in 0 .. N /\ test.count + 1 \in Nat
    BY <1>7 DEF Oracle!NCommitted, Oracle!OracleAssumption
  <2>4. CASE Oracle!CountEntry(test.i, test.index)
    BY <1>2, <1>7, <2>2, <2>3, <2>4 DEF Oracle!CountEntry, Polls
  <2>5. CASE test' = [test EXCEPT !.i = @ + 1]
    BY <1>2, <1>7, <2>3, <2>5 DEF Polls
  <2> QED BY <1>7, <2>4, <2>5 DEF Oracle!NCommitted
<1>8. ASSUME Oracle!OnePolled PROVE TestType'
  <2>1. 0 \in 0 .. N /\ 0 \in Oracle!Indices /\ Nil \in Oracle!Entries
    BY DEF Oracle!OracleAssumption, Oracle!Indices, Oracle!Entries
  <2>2. CASE test' = [test EXCEPT !.op = "agreed"]
    BY <1>2, <1>8, <2>2 DEF Oracle!OnePolled, Polls
  <2>3. CASE Oracle!StartPoll("poll")
    BY <1>2, <1>8, <2>1, <2>3 DEF Oracle!OnePolled, Oracle!StartPoll, Polls
  <2>4. CASE test' = [test EXCEPT !.op = "try", !.si = 0, !.index = 0]
    BY <1>2, <1>8, <2>1, <2>4 DEF Polls
  <2> QED BY <1>2, <1>8, <2>2, <2>3, <2>4 DEF Oracle!OnePolled
<1>9. ASSUME Oracle!OneNobody PROVE TestType'
  BY <1>2, <1>9 DEF Oracle!OneNobody, Polls, Oracle!OracleAssumption
<1>10. ASSUME Oracle!WaitPolled PROVE TestType'
  BY <1>2, <1>3, <1>10 DEF Oracle!WaitPolled, Oracle!StartPoll, Polls, Oracle!OracleAssumption, Oracle!IdleTest, Oracle!Entries
<1>11. ASSUME Oracle!WaitFinal PROVE TestType'
  BY <1>2, <1>11 DEF Oracle!WaitFinal, Polls, Oracle!OracleAssumption
<1>12. ASSUME Oracle!TestNext PROVE TestType'
  BY <1>2, <1>3, <1>12 DEF Oracle!TestNext, Oracle!IdleTest, Polls
<1> QED BY <1>1, <1>4, <1>5, <1>6, <1>7, <1>8, <1>9, <1>10, <1>11, <1>12 DEF Oracle!Tester

LEMMA TypeApplier ==
  ASSUME Oracle!OracleAssumption, TypeInv,
         Oracle!Applier \/ (\E i \in Oracle!Servers : Oracle!Crash(i) \/ Oracle!Start(i))
  PROVE  TypeInv'
<1> DEFINE AppType == [pc : {"none", "recv", "check", "last", "snap", "fatal"}, index : Oracle!Indices,
                       cmd : Oracle!Entries, err : BOOLEAN]
<1> USE DEF TypeInv
<1>1. TestType'
  <2>1. UNCHANGED <<test, log>>
    BY DEF Oracle!Applier, Oracle!Apply, Oracle!Fatal, Oracle!SnapRecv, Oracle!SnapCheck, Oracle!SnapLast,
           Oracle!SnapTake, Oracle!SnapInstall, Oracle!Crash, Oracle!Start, Oracle!env
  <2> QED BY <2>1 DEF TestType
<1>2. Oracle!Reading \in AppType
  BY DEF Oracle!Reading, Oracle!Entries, Oracle!Indices, Oracle!OracleAssumption
<1>3. \A x \in Oracle!Insts : x[1] \in Oracle!Servers /\ app[x] \in AppType
  BY DEF Oracle!Insts, Oracle!TypeOK
<1>4. \A k \in 1 .. MaxIndex : k \in Oracle!Indices /\ k + 1 \in 1 .. MaxIndex + 1
  BY DEF Oracle!Indices, Oracle!OracleAssumption
<1>5. \A k \in Oracle!Indices, v \in Oracle!Entries, i \in Oracle!Servers : Oracle!Record(i, k, v) =>
        logs' \in [Oracle!Servers -> [Oracle!Indices -> Oracle!Entries \cup {None}]] /\ maxIndex' \in Oracle!Indices
  BY DEF Oracle!Record, Oracle!TypeOK
<1>6. \A i \in Oracle!Servers, k \in 1 .. MaxIndex : Oracle!Sent(i, k) => next' \in [Oracle!Servers -> 1 .. MaxIndex + 1]
  BY <1>4 DEF Oracle!Sent, Oracle!TypeOK
<1>7. \A v \in Commands : v \in Oracle!Entries
  BY DEF Oracle!Entries
<1>7a. \A x \in Oracle!Insts : Oracle!Failed(x) \in [Oracle!Insts -> AppType]
  <2>1. [pc |-> "fatal", index |-> 0, cmd |-> Nil, err |-> TRUE] \in AppType
    BY DEF Oracle!Entries, Oracle!Indices, Oracle!OracleAssumption
  <2> QED BY <2>1 DEF Oracle!Failed, Oracle!TypeOK
<1>8. ASSUME NEW x \in Oracle!Insts, NEW k \in 1 .. MaxIndex, NEW v \in Commands, Oracle!Apply(x, k, v)
      PROVE  Oracle!TypeOK'
  <2>1. app' \in [Oracle!Insts -> AppType]
    BY <1>8, <1>7a DEF Oracle!Apply, Oracle!TypeOK
  <2> QED BY <1>3, <1>4, <1>5, <1>6, <1>7, <1>8, <2>1 DEF Oracle!Apply, Oracle!TypeOK
<1>8a. ASSUME NEW x \in Oracle!Insts, Oracle!Fatal(x) PROVE Oracle!TypeOK'
  <2>1. app' \in [Oracle!Insts -> AppType] /\ alarm' \in {"none", "apply", "mismatch", "timeout"}
    BY <1>2, <1>8a DEF Oracle!Fatal, Oracle!EndLoop, Oracle!TypeOK
  <2> QED BY <1>8a, <2>1 DEF Oracle!Fatal, Oracle!TypeOK, Oracle!env
<1>9. ASSUME NEW x \in Oracle!Insts, NEW k \in 1 .. MaxIndex, NEW v \in Commands, Oracle!SnapRecv(x, k, v)
      PROVE  Oracle!TypeOK'
  <2>1. app' \in [Oracle!Insts -> AppType]
    BY <1>4, <1>7, <1>9 DEF Oracle!SnapRecv, Oracle!TypeOK
  <2> QED BY <1>3, <1>6, <1>9, <2>1 DEF Oracle!SnapRecv, Oracle!TypeOK
<1>10. ASSUME NEW x \in Oracle!Insts, Oracle!SnapCheck(x) PROVE Oracle!TypeOK'
  <2>1. app' \in [Oracle!Insts -> AppType]
    <3>1. Oracle!ApplyError(x[1], app[x].index, app[x].cmd) \in BOOLEAN
      BY DEF Oracle!ApplyError, Oracle!Conflict
    <3> HIDE DEF TypeInv
    <3>2. app \in [Oracle!Insts -> AppType]
      BY DEF TypeInv, Oracle!TypeOK
    <3>3. PICK e \in BOOLEAN : app' = [app EXCEPT ![x].pc = "last", ![x].err = e]
      BY <1>10, <3>1 DEF Oracle!SnapCheck
    <3>4. app[x] \in AppType
      BY <3>2
    <3>5. app' = [app EXCEPT ![x] = [app[x] EXCEPT !.pc = "last", !.err = e]]
      BY <3>2, <3>3
    <3>6. [app[x] EXCEPT !.pc = "last", !.err = e] \in AppType
      BY <3>4
    <3> HIDE DEF AppType
    <3> QED BY <3>2, <3>5, <3>6
  <2>2. app[x].index \in Oracle!Indices /\ app[x].cmd \in Oracle!Entries
    BY <1>3
  <2> QED BY <1>3, <1>5, <1>10, <2>1, <2>2 DEF Oracle!SnapCheck, Oracle!TypeOK, Oracle!env
<1>11. ASSUME NEW x \in Oracle!Insts, Oracle!SnapLast(x) PROVE Oracle!TypeOK'
  <2>1. app' \in [Oracle!Insts -> AppType] /\ alarm' \in {"none", "apply", "mismatch", "timeout"}
    <3>1. alarm' \in {"none", "apply", "mismatch", "timeout"}
      BY <1>11 DEF Oracle!SnapLast, Oracle!TypeOK, Oracle!EndLoop
    <3>2. app \in [Oracle!Insts -> AppType]
      BY DEF Oracle!TypeOK
    <3>3. app' = [app EXCEPT ![x].pc = "snap"] \/ app' = [app EXCEPT ![x] = Oracle!Reading]
      BY <1>11 DEF Oracle!SnapLast, Oracle!EndLoop
    <3>4. app' \in [Oracle!Insts -> AppType]
      BY <1>2, <3>2, <3>3
    <3> QED BY <3>1, <3>4
  <2>2. lastApplied' \in [Oracle!Servers -> Oracle!Indices]
    BY <1>3, <1>11 DEF Oracle!SnapLast, Oracle!TypeOK
  <2> QED BY <1>11, <2>1, <2>2 DEF Oracle!SnapLast, Oracle!TypeOK, Oracle!env
<1>12. ASSUME NEW x \in Oracle!Insts, Oracle!SnapTake(x) PROVE Oracle!TypeOK'
  <2>1. app' \in [Oracle!Insts -> AppType] /\ alarm' \in {"none", "apply", "mismatch", "timeout"}
    BY <1>2, <1>12 DEF Oracle!SnapTake, Oracle!TypeOK, Oracle!EndLoop
  <2>2. [index |-> app[x].index,
         xlog |-> [k \in Oracle!Indices |-> IF k > app[x].index THEN None
                                     ELSE IF Oracle!Present(x[1], k) THEN logs[x[1]][k] ELSE Nil]] \in Oracle!Snapshot
    BY <1>3 DEF Oracle!Snapshot, Oracle!Present, Oracle!TypeOK, Oracle!Entries
  <2>3. made' \subseteq Oracle!Snapshot /\ saved' \in [Oracle!Servers -> Oracle!Snapshot]
    BY <1>3, <1>12, <2>2 DEF Oracle!SnapTake, Oracle!TypeOK
  <2> QED BY <1>12, <2>1, <2>3 DEF Oracle!SnapTake, Oracle!TypeOK
<1>13. ASSUME NEW x \in Oracle!Insts, NEW s \in made, NEW k \in 1 .. MaxIndex, Oracle!SnapInstall(x, s, k)
       PROVE  Oracle!TypeOK'
  <2>1. s.index \in Oracle!Indices /\ s.xlog \in [Oracle!Indices -> Oracle!Entries \cup {None}]
    BY DEF Oracle!TypeOK, Oracle!Snapshot
  <2>2. /\ logs' \in [Oracle!Servers -> [Oracle!Indices -> Oracle!Entries \cup {None}]]
        /\ lastApplied' \in [Oracle!Servers -> Oracle!Indices]
        /\ next' \in [Oracle!Servers -> 1 .. MaxIndex + 1]
        /\ app' \in [Oracle!Insts -> AppType]
    BY <1>3, <1>6, <1>13, <1>7a, <2>1 DEF Oracle!SnapInstall, Oracle!Ingest, Oracle!TypeOK
  <2> QED BY <1>13, <2>2 DEF Oracle!SnapInstall, Oracle!TypeOK
<1>14. ASSUME NEW i \in Oracle!Servers, Oracle!Crash(i) PROVE Oracle!TypeOK'
  BY <1>14 DEF Oracle!Crash, Oracle!TypeOK, Oracle!OracleAssumption
<1>15. ASSUME NEW i \in Oracle!Servers, Oracle!Start(i) PROVE Oracle!TypeOK'
  <2>1. gen[i] + 1 \in 1 .. MaxGen /\ <<i, gen[i] + 1>> \in Oracle!Insts
    BY <1>15 DEF Oracle!Start, Oracle!TypeOK, Oracle!Insts, Oracle!OracleAssumption
  <2>2. saved[i].index \in Oracle!Indices /\ saved[i].xlog \in [Oracle!Indices -> Oracle!Entries \cup {None}]
    BY DEF Oracle!TypeOK, Oracle!Snapshot
  <2>3. /\ logs' \in [Oracle!Servers -> [Oracle!Indices -> Oracle!Entries \cup {None}]]
        /\ lastApplied' \in [Oracle!Servers -> Oracle!Indices]
    <3>1. 0 \in Oracle!Indices
      BY DEF Oracle!Indices, Oracle!OracleAssumption
    <3>2. \/ logs' = logs /\ lastApplied' = [lastApplied EXCEPT ![i] = 0]
          \/ Oracle!Ingest(i, saved[i])
      BY <1>15 DEF Oracle!Start
    <3> QED BY <2>2, <3>1, <3>2 DEF Oracle!Ingest, Oracle!TypeOK
  <2>4. saved[i].index + 1 \in 1 .. MaxIndex + 1
    BY <2>2 DEF Oracle!Indices, Oracle!OracleAssumption
  <2>5. app' \in [Oracle!Insts -> AppType] /\ next' \in [Oracle!Servers -> 1 .. MaxIndex + 1]
    BY <1>2, <1>15, <2>4 DEF Oracle!Start, Oracle!TypeOK
  <2>6. rafts' \in [Oracle!Servers -> 0 .. MaxGen] /\ gen' \in [Oracle!Servers -> 1 .. MaxGen]
    BY <1>15, <2>1 DEF Oracle!Start, Oracle!TypeOK, Oracle!OracleAssumption
  <2>7. stale' \in BOOLEAN
    BY <1>15 DEF Oracle!Start, Oracle!Applying
  <2> QED BY <1>15, <2>3, <2>5, <2>6, <2>7 DEF Oracle!Start, Oracle!TypeOK
<1> QED BY <1>1, <1>8, <1>8a, <1>9, <1>10, <1>11, <1>12, <1>13, <1>14, <1>15 DEF Oracle!Applier

LEMMA TypeNext == ASSUME Oracle!OracleAssumption, TypeInv, [Oracle!Next]_Oracle!vars PROVE TypeInv'
<1>1. CASE UNCHANGED Oracle!vars
  BY <1>1 DEF Oracle!vars, TypeInv, Oracle!TypeOK, TestType
<1> QED BY <1>1, TypeTester, TypeApplier DEF Oracle!Next

\* Every variable has its type in every reachable state: indices stay within the
\* log, whatever is applied, snapshotted, installed and restarted.
THEOREM TypeCorrect == ASSUME Oracle!OracleAssumption PROVE Oracle!Spec => []Oracle!TypeOK
<1>1. Oracle!Init => TypeInv
  BY TypeInit
<1>2. TypeInv /\ [Oracle!Next]_Oracle!vars => TypeInv'
  BY TypeNext
<1>3. TypeInv => Oracle!TypeOK
  BY DEF TypeInv
<1> QED BY <1>1, <1>2, <1>3, PTL DEF Oracle!Spec

-----------------------------------------------------------------------------
(* applier without snapshots, under a Raft that may apply anything.        *)

\* There are no snapshots, and an applier with an error has only to report it.
Plain ==
  /\ saved = [i \in Oracle!Servers |-> Oracle!NoSnap] /\ made = {}
  /\ \A x \in Oracle!Insts :
       /\ app[x].pc \in {"none", "recv", "fatal"} /\ (app[x].err => app[x].pc = "fatal")
       /\ x[2] > gen[x[1]] => app[x].pc = "none"

\* The run goes on and nobody is about to fail it.
Calm == Oracle!Running /\ Oracle!NoError

\* The servers below n that have v at the index asked for.
Holding(v, n) == {j \in Oracle!Servers : j < n /\ logs[j][test.index] = v}

\* nCommitted has not counted more servers than hold the value it has met.
CountIsHeld ==
  (Calm /\ test.op \in Polls) => test.count <= Cardinality(Holding(test.got, test.i))

NoticeInv == TypeInv /\ Plain /\ Oracle!LogsAgree /\ Oracle!NoGaps /\ CountIsHeld /\ Oracle!AgreedIsCommitted

LEMMA NoneIsNoEntry == ASSUME Oracle!OracleAssumption PROVE None \notin Oracle!Entries
  BY DEF Oracle!OracleAssumption, Oracle!Entries

LEMMA ServersFinite ==
  ASSUME Oracle!OracleAssumption
  PROVE  /\ \A S \in SUBSET Oracle!Servers : IsFiniteSet(S) /\ Cardinality(S) \in Nat
         /\ \A S, T \in SUBSET Oracle!Servers : S \subseteq T => Cardinality(S) <= Cardinality(T)
<1>1. N - 1 \in Int /\ 0 \in Int
  BY DEF Oracle!OracleAssumption
<1>2. IsFiniteSet(Oracle!Servers)
  <2> DEFINE m == N - 1
  <2>1. m \in Int
    BY <1>1
  <2> HIDE DEF m
  <2>2. IsFiniteSet(0 .. m)
    BY <2>1, FS_Interval
  <2> QED BY <2>2 DEF Oracle!Servers, m
<1>3. \A S \in SUBSET Oracle!Servers : IsFiniteSet(S)
  BY <1>2, FS_Subset
<1> QED BY <1>3, FS_Subset, FS_CardinalityType

LEMMA NoticeInit == ASSUME Oracle!OracleAssumption, ~Snapshots, Oracle!Init PROVE NoticeInv
<1>1. TypeInv
  BY TypeInit
<1>2. Plain
  BY DEF Oracle!Init, Plain, Oracle!Reading, Oracle!Insts, Oracle!OracleAssumption
<1>3. Oracle!LogsAgree /\ Oracle!NoGaps
  BY DEF Oracle!Init, Oracle!LogsAgree, Oracle!NoGaps, Oracle!Present, Oracle!Servers, Oracle!Indices, Oracle!OracleAssumption
<1>4. CountIsHeld /\ Oracle!AgreedIsCommitted
  BY OracleCard DEF Oracle!Init, CountIsHeld, Oracle!AgreedIsCommitted, Oracle!IdleTest, Polls
<1> QED BY <1>1, <1>2, <1>3, <1>4 DEF NoticeInv

\* A step after which there is no error takes nothing out of the logs.
LEMMA CountFrame ==
  ASSUME Oracle!OracleAssumption, TypeInv, CountIsHeld, Oracle!AgreedIsCommitted, test' = test, Calm' => Calm,
         Calm' => \A i \in Oracle!Servers, k \in Oracle!Indices : logs[i][k] # None => logs'[i][k] = logs[i][k]
  PROVE  CountIsHeld' /\ Oracle!AgreedIsCommitted'
<1>0. test.index \in Oracle!Indices /\ test.got \in Oracle!Entries /\ test.cmd \in Oracle!Entries
      /\ test.i \in 0 .. N /\ test.count \in Nat
  BY DEF TypeInv, TestType
<1>1. CountIsHeld'
  <2> SUFFICES ASSUME Calm', test.op \in Polls
               PROVE  test.count <= Cardinality(Holding(test.got, test.i)')
    BY DEF CountIsHeld
  <2>1. Holding(test.got, test.i) \subseteq Holding(test.got, test.i)'
    BY <1>0, NoneIsNoEntry DEF Holding
  <2>2. Holding(test.got, test.i) \in SUBSET Oracle!Servers /\ Holding(test.got, test.i)' \in SUBSET Oracle!Servers
    BY DEF Holding
  <2>3. test.count <= Cardinality(Holding(test.got, test.i))
    BY DEF CountIsHeld
  <2> HIDE DEF Holding
  <2> QED BY <1>0, <2>1, <2>2, <2>3, ServersFinite
<1>2. Oracle!AgreedIsCommitted'
  <2> DEFINE Has == {i \in Oracle!Servers : logs[i][test.index] = test.cmd}
  <2> SUFFICES ASSUME Calm', test.op = "agreed"
               PROVE  Cardinality(Has') >= Expected
    BY OracleCard DEF Oracle!AgreedIsCommitted, Calm
  <2>1. Has \subseteq Has' /\ Has \in SUBSET Oracle!Servers /\ Has' \in SUBSET Oracle!Servers
    BY <1>0, NoneIsNoEntry
  <2>2. Cardinality(Has) >= Expected /\ Expected \in Nat
    BY OracleCard DEF Oracle!AgreedIsCommitted, Oracle!OracleAssumption, Calm
  <2> HIDE DEF Has
  <2> QED BY <2>1, <2>2, ServersFinite
<1> QED BY <1>1, <1>2

\* An applier's step: an error stays with the applier until it ends the run.
LEMMA NoticeApply ==
  ASSUME Oracle!OracleAssumption, ~Snapshots, NoticeInv,
         NEW x \in Oracle!Insts, NEW k \in 1 .. MaxIndex, NEW v \in Commands, Oracle!Apply(x, k, v)
  PROVE  NoticeInv'
<1> DEFINE i == x[1]
<1>0. /\ i \in Oracle!Servers /\ k \in Oracle!Indices /\ v # None /\ Oracle!Running
      /\ logs \in [Oracle!Servers -> [Oracle!Indices -> Oracle!Entries \cup {None}]] /\ maxIndex \in Nat /\ maxIndex \in Oracle!Indices
  BY NoneIsNoEntry DEF Oracle!Insts, Oracle!Indices, Oracle!OracleAssumption, NoticeInv, TypeInv, Oracle!TypeOK, Oracle!Entries, Oracle!Apply
<1>1. TypeInv'
  BY TypeNext DEF NoticeInv, Oracle!Next, Oracle!Applier
<1>2. Plain' /\ test' = test /\ (Calm' => app' = app /\ Calm /\ ~Oracle!ApplyError(x[1], k, v))
  <2>1. app \in [Oracle!Insts -> [pc : {"none", "recv", "check", "last", "snap", "fatal"}, index : Oracle!Indices,
                                cmd : Oracle!Entries, err : BOOLEAN]]
    BY DEF NoticeInv, TypeInv, Oracle!TypeOK
  <2>2. UNCHANGED <<saved, made, gen, test, alarm>> /\ app[x].pc = "recv"
    BY DEF Oracle!Apply
  <2>3. CASE ~Oracle!ApplyError(x[1], k, v)
    <3>1. app' = app
      BY <2>3 DEF Oracle!Apply
    <3> QED BY <2>2, <2>3, <3>1 DEF NoticeInv, Plain, Calm, Oracle!NoError, Oracle!Running
  <2>4. CASE Oracle!ApplyError(x[1], k, v)
    <3>1. /\ app'[x].pc = "fatal" /\ app'[x].err
          /\ \A y \in Oracle!Insts : y # x => app'[y] = app[y]
      BY <2>1, <2>4 DEF Oracle!Apply, Oracle!Failed
    <3> QED BY <2>2, <3>1 DEF NoticeInv, Plain, Calm, Oracle!NoError
  <2> QED BY <2>3, <2>4
<1>4. /\ logs'[i][k] = v /\ maxIndex' = IF k > maxIndex THEN k ELSE maxIndex
      /\ \A j \in Oracle!Servers, l \in Oracle!Indices : <<j, l>> # <<i, k>> => logs'[j][l] = logs[j][l]
  BY <1>0 DEF Oracle!Apply, Oracle!Record
<1> HIDE DEF i
<1>5. ASSUME Calm'
      PROVE  /\ \A j \in Oracle!Servers : logs[j][k] # None => logs[j][k] = v
             /\ k > 1 => logs[i][k - 1] # None
  BY <1>2, <1>5 DEF Oracle!ApplyError, Oracle!Conflict, Oracle!Present, i
<1>6. Oracle!LogsAgree'
  <2> SUFFICES ASSUME Calm', NEW j \in Oracle!Servers, NEW l \in Oracle!Servers, NEW m \in 1 .. MaxIndex,
                      logs'[j][m] # None, logs'[l][m] # None
               PROVE  logs'[j][m] = logs'[l][m]
    BY DEF Oracle!LogsAgree, Oracle!Present, Calm
  <2>1. m \in Oracle!Indices
    BY DEF Oracle!Indices, Oracle!OracleAssumption
  <2>2. CASE m = k
    BY <1>0, <1>4, <1>5, <2>2
  <2>3. CASE m # k
    <3>1. logs'[j][m] = logs[j][m] /\ logs'[l][m] = logs[l][m]
      BY <1>4, <2>1, <2>3
    <3> QED BY <1>0, <1>2, <3>1 DEF NoticeInv, Oracle!LogsAgree, Oracle!Present, Calm
  <2> QED BY <2>2, <2>3
<1>7. Oracle!NoGaps'
  <2> SUFFICES ASSUME Calm', NEW j \in Oracle!Servers, NEW m \in 2 .. MaxIndex, logs'[j][m] # None
               PROVE  logs'[j][m - 1] # None /\ m <= maxIndex'
    BY DEF Oracle!NoGaps, Oracle!Present, Calm
  <2>1. m \in Oracle!Indices /\ m - 1 \in Oracle!Indices /\ m > 1 /\ m \in Nat /\ k \in Nat
    BY DEF Oracle!Indices, Oracle!OracleAssumption
  <2>2. logs[j][m - 1] # None => logs'[j][m - 1] # None
    BY <1>0, <1>4, <2>1
  <2>3. maxIndex <= maxIndex' /\ k <= maxIndex' /\ maxIndex' \in Nat
    BY <1>0, <1>4, <2>1
  <2>4. CASE j = i /\ m = k
    BY <1>5, <2>1, <2>2, <2>3, <2>4
  <2>5. CASE ~(j = i /\ m = k)
    <3>1. logs[j][m] # None
      BY <1>4, <2>1, <2>5
    <3>2. logs[j][m - 1] # None /\ m <= maxIndex
      BY <1>0, <1>2, <3>1 DEF NoticeInv, Oracle!NoGaps, Oracle!Present, Calm
    <3> QED BY <1>0, <2>1, <2>2, <2>3, <3>2
  <2> QED BY <2>4, <2>5
<1>8. CountIsHeld' /\ Oracle!AgreedIsCommitted'
  <2>1. Calm' => \A j \in Oracle!Servers, l \in Oracle!Indices : logs[j][l] # None => logs'[j][l] = logs[j][l]
    BY <1>0, <1>4, <1>5
  <2> QED BY <1>0, <1>2, <2>1, CountFrame DEF NoticeInv
<1> QED BY <1>1, <1>2, <1>6, <1>7, <1>8 DEF NoticeInv

\* The tester's steps leave the logs alone.
LEMMA NoticeTester ==
  ASSUME Oracle!OracleAssumption, ~Snapshots, NoticeInv, Oracle!Tester
  PROVE  NoticeInv'
<1>1. TypeInv'
  BY TypeNext DEF NoticeInv, Oracle!Next
<1>2. UNCHANGED <<logs, lastApplied, maxIndex, Oracle!env, app>> /\ Oracle!Running
  BY DEF Oracle!Tester, Oracle!OneBegin, Oracle!WaitBegin, Oracle!OneTry, Oracle!NCommitted, Oracle!OnePolled, Oracle!OneNobody, Oracle!WaitPolled,
         Oracle!WaitFinal, Oracle!TestNext
<1>3. Plain' /\ Oracle!LogsAgree' /\ Oracle!NoGaps'
  BY <1>2 DEF NoticeInv, Plain, Oracle!LogsAgree, Oracle!NoGaps, Oracle!NoError, Oracle!Present, Oracle!env
<1>3a. Calm' => Calm
  BY <1>2 DEF Calm, Oracle!NoError
<1>4. /\ test.i \in 0 .. N /\ test.count \in Nat /\ test.got \in Oracle!Entries /\ test.index \in Oracle!Indices
      /\ test \in [op : Polls \cup {"idle", "try", "agreed"}, cmd : Oracle!Entries, index : Oracle!Indices,
               starts : Oracle!Servers, si : 0 .. N, i : 0 .. N, count : Nat, got : Oracle!Entries]
  BY DEF NoticeInv, TypeInv, TestType
<1> DEFINE Goal == CountIsHeld' /\ Oracle!AgreedIsCommitted'
<1> SUFFICES Goal
  BY <1>1, <1>3 DEF NoticeInv
<1>5. ASSUME test'.count = 0 \/ test'.op \notin Polls, test'.op # "agreed" PROVE Goal
  <2>1. Holding(test.got, test.i)' \in SUBSET Oracle!Servers
    BY DEF Holding
  <2>2. Cardinality(Holding(test.got, test.i)') >= 0
    BY <2>1, ServersFinite
  <2> QED BY <1>5, <2>2, OracleCard DEF CountIsHeld, Oracle!AgreedIsCommitted
<1>6. CASE test' = test
  BY <1>2, <1>3a, <1>6, CountFrame DEF NoticeInv
<1>7. ASSUME NEW c \in Commands, Oracle!OneBegin(c) PROVE Goal
  BY <1>5, <1>7 DEF Oracle!OneBegin, Oracle!IdleTest, Polls
<1>8. ASSUME NEW k \in 1 .. MaxIndex, Oracle!WaitBegin(k) PROVE Goal
  BY <1>5, <1>8 DEF Oracle!WaitBegin, Oracle!IdleTest
<1>9. CASE Oracle!OneTry
  BY <1>4, <1>5, <1>9 DEF Oracle!OneTry, Polls
<1>10. CASE Oracle!NCommitted
  <2>0. /\ test.op \in Polls /\ test.i < N /\ test.i \in Oracle!Servers /\ test'.op = test.op
        /\ test'.index = test.index /\ test'.i = test.i + 1
    <3>1. test.op \in Polls /\ test.i < N /\ test.i \in Oracle!Servers
      BY <1>4, <1>10 DEF Oracle!NCommitted, Polls, Oracle!Servers, Oracle!OracleAssumption
    <3>2. CASE Oracle!CountEntry(test.i, test.index)
      BY <1>4, <3>1, <3>2 DEF Oracle!CountEntry
    <3>3. CASE test' = [test EXCEPT !.i = @ + 1]
      BY <1>4, <3>1, <3>3
    <3> QED BY <1>10, <3>2, <3>3 DEF Oracle!NCommitted
  <2>1. Oracle!AgreedIsCommitted'
    BY <2>0, OracleCard DEF Oracle!AgreedIsCommitted, Polls
  <2>2. CASE ~Oracle!Present(test.i, test.index)
    <3>1. test'.count = test.count /\ test'.got = test.got
      BY <1>4, <1>10, <2>2 DEF Oracle!NCommitted, Oracle!CountEntry
    <3>2. Holding(test.got, test.i)' \in SUBSET Oracle!Servers /\ Holding(test.got, test.i) \in SUBSET Oracle!Servers
      BY DEF Holding
    <3>3. Holding(test.got, test.i) \subseteq Holding(test.got, test.i)'
      BY <1>2, <1>4, <2>0, <3>1 DEF Holding, Oracle!Servers, Oracle!OracleAssumption
    <3>4. Calm => test.count <= Cardinality(Holding(test.got, test.i))
      BY <2>0 DEF NoticeInv, CountIsHeld
    <3> HIDE DEF Holding
    <3>5. Calm => test.count <= Cardinality(Holding(test.got, test.i)')
      BY <1>4, <3>2, <3>3, <3>4, ServersFinite
    <3> QED BY <1>3a, <2>1, <3>1, <3>5 DEF CountIsHeld
  <2>3. CASE Oracle!Present(test.i, test.index) /\ Calm'
    <3>1. /\ test'.count = test.count + 1 /\ test'.got = logs[test.i][test.index]
          /\ test.count > 0 => test.got = test'.got
      BY <1>2, <1>4, <1>10, <2>3 DEF Oracle!NCommitted, Oracle!CountEntry, Oracle!Running, Calm
    <3>2. PICK new : new = Holding(test.got, test.i)'
      OBVIOUS
    <3>3. PICK old : old = IF test.count > 0 THEN Holding(test.got, test.i) ELSE {}
      OBVIOUS
    <3>4. old \in SUBSET Oracle!Servers /\ new \in SUBSET Oracle!Servers /\ test.i \notin old
      BY <3>2, <3>3, <2>0 DEF Holding, Oracle!Servers
    <3>5. old \cup {test.i} \subseteq new
      BY <1>2, <1>4, <2>0, <3>1, <3>2, <3>3 DEF Holding, Oracle!Servers, Oracle!OracleAssumption
    <3>6. test.count <= Cardinality(old)
      <4>1. CASE test.count > 0
        BY <1>3a, <2>0, <2>3, <3>3, <4>1 DEF NoticeInv, CountIsHeld
      <4>2. CASE test.count = 0
        BY <3>4, <4>2, ServersFinite
      <4> QED BY <1>4, <4>1, <4>2
    <3>7. IsFiniteSet(old) /\ Cardinality(old) \in Nat
      BY <3>4, ServersFinite
    <3>8. Cardinality(old \cup {test.i}) = Cardinality(old) + 1
      BY <3>4, <3>7, FS_AddElement
    <3>9. old \cup {test.i} \in SUBSET Oracle!Servers
      BY <2>0, <3>4
    <3>10. Cardinality(old) + 1 <= Cardinality(new) /\ Cardinality(new) \in Nat
      BY <3>4, <3>5, <3>8, <3>9, ServersFinite
    <3>11. test'.count <= Cardinality(new)
      BY <1>4, <3>1, <3>6, <3>7, <3>10
    <3> QED BY <2>1, <3>2, <3>11 DEF CountIsHeld
  <2>4. CASE ~Calm'
    BY <2>1, <2>4 DEF CountIsHeld
  <2> QED BY <2>2, <2>3, <2>4
<1>11. CASE Oracle!OnePolled
  <2>1. CASE Oracle!Done /\ test' = [test EXCEPT !.op = "agreed"]
    <3>1. test'.op = "agreed" /\ test'.index = test.index /\ test'.cmd = test.got /\ test.op = "poll"
      BY <1>4, <1>11, <2>1 DEF Oracle!OnePolled, Oracle!Done
    <3>2. Calm => test.count <= Cardinality(Holding(test.got, test.i)) /\ test.count >= Expected
      BY <2>1, <3>1 DEF NoticeInv, CountIsHeld, Oracle!Done, Polls
    <3>3. PICK has : has = {j \in Oracle!Servers : logs'[j][test'.index] = test'.cmd}
      OBVIOUS
    <3>4. Holding(test.got, test.i) \subseteq has /\ has \in SUBSET Oracle!Servers
          /\ Holding(test.got, test.i) \in SUBSET Oracle!Servers
      BY <1>2, <3>1, <3>3 DEF Holding
    <3> HIDE DEF Holding
    <3>5. Calm => Cardinality(has) >= Expected
      BY <1>4, <3>2, <3>4, ServersFinite DEF Oracle!OracleAssumption
    <3> QED BY <1>3a, <3>1, <3>3, <3>5, OracleCard DEF CountIsHeld, Oracle!AgreedIsCommitted, Calm, Polls
  <2>2. CASE ~Oracle!Done
    BY <1>4, <1>5, <1>6, <1>11, <2>2 DEF Oracle!OnePolled, Oracle!StartPoll, Polls
  <2> QED BY <1>11, <2>1, <2>2 DEF Oracle!OnePolled
<1>12. CASE Oracle!OneNobody
  BY <1>4, <1>5, <1>6, <1>12 DEF Oracle!OneNobody, Polls
<1>13. CASE Oracle!WaitPolled
  <2>1. ASSUME NEW op \in Polls, Oracle!StartPoll(op) PROVE test'.count = 0 /\ test'.op # "agreed"
    BY <1>4, <2>1 DEF Oracle!StartPoll, Polls
  <2>2. CASE test' = Oracle!IdleTest
    BY <1>5, <2>2 DEF Oracle!IdleTest, Polls
  <2> QED BY <1>5, <1>13, <2>1, <2>2 DEF Oracle!WaitPolled, Polls
<1>14. CASE Oracle!WaitFinal
  <2>1. CASE test' = test
    BY <1>6, <2>1
  <2>2. CASE test.count >= Expected /\ test' = [test EXCEPT !.op = "agreed", !.cmd = test.got]
    <3>1. test'.op = "agreed" /\ test'.index = test.index /\ test'.cmd = test.got /\ test.op = "final"
      BY <1>4, <1>14, <2>2 DEF Oracle!WaitFinal
    <3>2. Calm => test.count <= Cardinality(Holding(test.got, test.i))
      BY <3>1 DEF NoticeInv, CountIsHeld, Polls
    <3>3. PICK has : has = {j \in Oracle!Servers : logs'[j][test'.index] = test'.cmd}
      OBVIOUS
    <3>4. Holding(test.got, test.i) \subseteq has /\ has \in SUBSET Oracle!Servers
          /\ Holding(test.got, test.i) \in SUBSET Oracle!Servers
      BY <1>2, <3>1, <3>3 DEF Holding
    <3> HIDE DEF Holding
    <3>5. Calm => Cardinality(has) >= Expected
      BY <1>4, <2>2, <3>2, <3>4, ServersFinite DEF Oracle!OracleAssumption
    <3> QED BY <1>3a, <3>1, <3>3, <3>5, OracleCard DEF CountIsHeld, Oracle!AgreedIsCommitted, Calm, Polls
  <2> QED BY <1>4, <1>14, <2>1, <2>2 DEF Oracle!WaitFinal, Oracle!OracleAssumption
<1>15. CASE Oracle!TestNext
  BY <1>5, <1>15 DEF Oracle!TestNext, Oracle!IdleTest
<1> QED BY <1>7, <1>8, <1>9, <1>10, <1>11, <1>12, <1>13, <1>14, <1>15 DEF Oracle!Tester

LEMMA NoticeNext ==
  ASSUME Oracle!OracleAssumption, ~Snapshots, NoticeInv, [Oracle!Next]_Oracle!vars
  PROVE  NoticeInv'
<1>1. TypeInv'
  BY TypeNext DEF NoticeInv
<1>2. ASSUME Plain', Calm' => Calm, UNCHANGED <<logs, maxIndex, test>> PROVE NoticeInv'
  <2>1. Oracle!LogsAgree' /\ Oracle!NoGaps'
    BY <1>2 DEF NoticeInv, Calm, Oracle!LogsAgree, Oracle!NoGaps, Oracle!Present
  <2>2. CountIsHeld' /\ Oracle!AgreedIsCommitted'
    BY <1>2, CountFrame DEF NoticeInv
  <2> QED BY <1>1, <1>2, <2>1, <2>2 DEF NoticeInv
<1>3. ASSUME NEW x \in Oracle!Insts,
             \/ \E k \in 1 .. MaxIndex, v \in Commands : Oracle!SnapRecv(x, k, v)
             \/ Oracle!SnapCheck(x) \/ Oracle!SnapLast(x) \/ Oracle!SnapTake(x)
             \/ \E s \in made, k \in 1 .. MaxIndex : Oracle!SnapInstall(x, s, k)
      PROVE  FALSE
  <2>1. ~Snapshots /\ made = {} /\ app[x].pc \in {"none", "recv", "fatal"}
    BY DEF NoticeInv, Plain
  <2> QED BY <1>3, <2>1 DEF Oracle!SnapRecv, Oracle!SnapCheck, Oracle!SnapLast, Oracle!SnapTake, Oracle!SnapInstall
<1>4. ASSUME NEW i \in Oracle!Servers, Oracle!Crash(i) PROVE NoticeInv'
  BY <1>2, <1>4 DEF Oracle!Crash, NoticeInv, Plain, Calm, Oracle!NoError, Oracle!Running
<1>5. ASSUME NEW i \in Oracle!Servers, Oracle!Start(i) PROVE NoticeInv'
  <2>1. saved[i] = Oracle!NoSnap
    BY DEF NoticeInv, Plain
  <2>2. UNCHANGED <<logs, maxIndex, test, alarm, saved, made>>
    BY <1>5, <2>1 DEF Oracle!Start
  <2>3. gen \in [Oracle!Servers -> 1 .. MaxGen] /\ gen' = [gen EXCEPT ![i] = gen[i] + 1] /\ MaxGen \in Nat
    BY <1>5 DEF Oracle!Start, NoticeInv, TypeInv, Oracle!TypeOK, Oracle!OracleAssumption
  <2>4. \A x \in Oracle!Insts :
          \/ app'[x] = app[x] /\ x # <<i, gen[i] + 1>>
          \/ app'[x] = Oracle!Reading /\ x = <<i, gen[i] + 1>>
    BY <1>5 DEF Oracle!Start, NoticeInv, TypeInv, Oracle!TypeOK
  <2>5. ASSUME NEW x \in Oracle!Insts
        PROVE  /\ app'[x].pc \in {"none", "recv", "fatal"} /\ (app'[x].err => app'[x].pc = "fatal")
               /\ x[2] > gen'[x[1]] => app'[x].pc = "none"
               /\ ~app'[x].err => ~app[x].err
    <3>1. /\ x[1] \in Oracle!Servers /\ x[2] \in Nat /\ x = <<x[1], x[2]>>
          /\ gen[x[1]] \in Nat /\ gen'[x[1]] = IF x[1] = i THEN gen[i] + 1 ELSE gen[x[1]]
      BY <2>3 DEF Oracle!Insts
    <3>2. /\ app[x].pc \in {"none", "recv", "fatal"} /\ (app[x].err => app[x].pc = "fatal")
          /\ x[2] > gen[x[1]] => app[x].pc = "none"
      BY DEF NoticeInv, Plain
    <3>3. CASE x = <<i, gen[i] + 1>>
      BY <2>4, <3>1, <3>2, <3>3 DEF Oracle!Reading
    <3>4. CASE x # <<i, gen[i] + 1>>
      BY <2>4, <3>1, <3>2, <3>4
    <3> QED BY <3>3, <3>4
  <2>6. Plain' /\ (Calm' => Calm)
    BY <2>2, <2>5 DEF NoticeInv, Plain, Calm, Oracle!NoError, Oracle!Running
  <2> QED BY <1>2, <2>2, <2>6
<1>6. CASE UNCHANGED Oracle!vars
  BY <1>2, <1>6 DEF Oracle!vars, NoticeInv, Plain, Calm, Oracle!NoError, Oracle!Running
<1>7. ASSUME NEW x \in Oracle!Insts, Oracle!Fatal(x) PROVE NoticeInv'
  <2>1. UNCHANGED <<logs, maxIndex, test, saved, made, gen>> /\ alarm' = "apply" /\ app[x].pc = "fatal"
    BY <1>7 DEF Oracle!Fatal, Oracle!EndLoop, Oracle!env
  <2>2. app' = [app EXCEPT ![x] = Oracle!Reading]
    BY <1>7 DEF Oracle!Fatal, Oracle!EndLoop
  <2>3. app'[x] = Oracle!Reading /\ \A y \in Oracle!Insts : y # x => app'[y] = app[y]
    BY <2>2 DEF NoticeInv, TypeInv, Oracle!TypeOK
  <2>4. Plain'
    BY <2>1, <2>3 DEF NoticeInv, Plain, Oracle!Reading
  <2> QED BY <1>2, <2>1, <2>4 DEF Calm, Oracle!Running
<1> QED BY <1>3, <1>4, <1>5, <1>6, <1>7, NoticeApply, NoticeTester DEF Oracle!Next, Oracle!Applier

LEMMA NoticeInvariant == ASSUME Oracle!OracleAssumption, ~Snapshots PROVE Oracle!Spec => []NoticeInv
<1>1. Oracle!Init => NoticeInv
  BY NoticeInit
<1>2. NoticeInv /\ [Oracle!Next]_Oracle!vars => NoticeInv'
  BY NoticeNext
<1> QED BY <1>1, <1>2, PTL DEF Oracle!Spec

\* Whatever a Raft applies, in whatever order on whatever server and however it is
\* restarted: while the appliers (applier, without snapshots) have not failed the
\* run and none of them is about to, no two servers have different commands at one
\* index.
THEOREM DisagreementIsNoticed == ASSUME Oracle!OracleAssumption, ~Snapshots PROVE Oracle!Spec => []Oracle!LogsAgree
<1>1. NoticeInv => Oracle!LogsAgree
  BY DEF NoticeInv
<1> QED BY <1>1, NoticeInvariant, PTL

\* Likewise no log has a gap and maxIndex is not behind.
THEOREM GapIsNoticed == ASSUME Oracle!OracleAssumption, ~Snapshots PROVE Oracle!Spec => []Oracle!NoGaps
<1>1. NoticeInv => Oracle!NoGaps
  BY DEF NoticeInv
<1> QED BY <1>1, NoticeInvariant, PTL

\* When one or wait returns, at least the expected number of servers have committed
\* that command at that index, although nCommitted took the lock anew for every
\* server and the appliers ran in between: the logs are only added to until an
\* applier overwrites an entry, and that applier then fails the run.
THEOREM AgreementIsReal == ASSUME Oracle!OracleAssumption, ~Snapshots PROVE Oracle!Spec => []Oracle!AgreedIsCommitted
<1>1. NoticeInv => Oracle!AgreedIsCommitted
  BY DEF NoticeInv
<1> QED BY <1>1, NoticeInvariant, PTL

-----------------------------------------------------------------------------
(* A correct Raft.  An applier of a killed instance lives on, and with     *)
(* snapshots it still writes the log and lastApplied of its server.  As    *)
(* long as none is in the middle of a command when its server is started   *)
(* again, the instances of a server do not disturb one another.            *)

Has(i, n) == \A k \in 1 .. MaxIndex : k < n => logs[i][k] # None

OfLog(s) == \A k \in 1 .. MaxIndex : s.xlog[k] = IF k <= s.index THEN log[k] ELSE None

\* Everything recorded is of the one agreed log.
OneLog ==
  /\ log \in [1 .. MaxIndex -> Commands]
  /\ \A i \in Oracle!Servers, k \in 1 .. MaxIndex : logs[i][k] # None => logs[i][k] = log[k]
  /\ \A s \in made : OfLog(s)

\* nCommitted has met the command of the agreed log.
GotLogged == test.op \in Polls /\ test.count > 0 => test.got = log[test.index]

\* applier: a server has what its instance has applied, after a restart too.
AppliedPlain ==
  ~Snapshots =>
    /\ Plain /\ Oracle!NoError /\ \A x \in Oracle!Insts : app[x].pc # "fatal"
    /\ \A i \in Oracle!Servers : Has(i, next[i])

\* applierSnap of a server's last instance: what is in order at each place of its
\* loop.
Loop(a, i) ==
  /\ ~a.err /\ a.pc # "fatal"
  /\ a.pc = "recv" => lastApplied[i] + 1 = next[i] /\ Has(i, next[i])
  /\ a.pc = "check" => a.cmd = log[a.index] /\ Has(i, a.index)
  /\ a.pc \in {"last", "snap"} => Has(i, next[i])
  /\ a.pc \in {"check", "last", "snap"} => a.index \in 1 .. MaxIndex /\ a.index + 1 = next[i]
  /\ a.pc = "snap" => lastApplied[i] = a.index

\* applierSnap of an instance that has been replaced, or is not started yet: at
\* most its snapshot is still to be taken, and nobody will see it.
Past(a) == ~a.err /\ a.pc \in {"none", "recv", "snap"}

Latest(x) == x[2] = gen[x[1]]

AppliedSnap ==
  Snapshots =>
    /\ \A i \in Oracle!Servers : rafts[i] \in {0, gen[i]} /\ (saved[i] = Oracle!NoSnap \/ OfLog(saved[i]))
    /\ \A x \in Oracle!Insts : IF Latest(x) THEN Loop(app[x], x[1]) ELSE Past(app[x])

CorrectInv ==
  TypeInv /\ OneLog /\ GotLogged /\ AppliedPlain /\ AppliedSnap /\ alarm \notin {"apply", "mismatch"}

Assumed == Oracle!OracleAssumption /\ Correct

LEMMA CorrectInit == ASSUME Assumed, Oracle!Init PROVE CorrectInv
<1>1. TypeInv
  BY TypeInit DEF Assumed
<1>2. OneLog /\ GotLogged /\ alarm \notin {"apply", "mismatch"}
  BY DEF Oracle!Init, OneLog, OfLog, GotLogged, Assumed, Oracle!OracleAssumption, Oracle!Indices, Oracle!IdleTest, Polls
<1>3. \A i \in Oracle!Servers : next[i] = 1 /\ Has(i, next[i]) /\ lastApplied[i] = 0
  BY DEF Oracle!Init, Has, Assumed, Oracle!OracleAssumption
<1>4. AppliedPlain
  BY <1>3 DEF Oracle!Init, AppliedPlain, Plain, Oracle!NoError, Oracle!Reading, Oracle!Insts
<1>5. AppliedSnap
  <2>1. ASSUME NEW x \in Oracle!Insts PROVE IF Latest(x) THEN Loop(app[x], x[1]) ELSE Past(app[x])
    <3>1. x[1] \in Oracle!Servers /\ gen[x[1]] = 1 /\ app[x] = IF x[2] = 1 THEN Oracle!Reading ELSE [Oracle!Reading EXCEPT !.pc = "none"]
      BY DEF Oracle!Init, Oracle!Insts
    <3> QED BY <1>3, <3>1 DEF Latest, Loop, Past, Oracle!Reading
  <2>2. \A i \in Oracle!Servers : rafts[i] = gen[i] /\ saved[i] = Oracle!NoSnap
    BY DEF Oracle!Init
  <2> QED BY <2>1, <2>2 DEF AppliedSnap
<1> QED BY <1>1, <1>2, <1>4, <1>5 DEF CorrectInv

\* An entry of the agreed log that follows what the server has is no error.
LEMMA NoApplyError ==
  ASSUME Assumed, TypeInv, OneLog, NEW i \in Oracle!Servers, NEW k \in 1 .. MaxIndex, Has(i, k)
  PROVE  ~Oracle!ApplyError(i, k, log[k])
<1>1. ~Oracle!Conflict(i, k, log[k])
  BY DEF Oracle!Conflict, Oracle!Present, OneLog
<1>2. k > 1 => Oracle!Present(i, k - 1)
  BY DEF Oracle!Present, Has, Assumed, Oracle!OracleAssumption
<1> QED BY <1>1, <1>2 DEF Oracle!ApplyError

\* Recording it.
LEMMA RecordNext ==
  ASSUME Assumed, TypeInv, OneLog, NEW i \in Oracle!Servers, NEW k \in 1 .. MaxIndex, Has(i, k),
         Oracle!Record(i, k, log[k]), UNCHANGED <<log, made>>
  PROVE  /\ OneLog'
         /\ Has(i, k + 1)'
         /\ \A j \in Oracle!Servers : j # i => logs'[j] = logs[j]
         /\ \A n \in Nat, j \in Oracle!Servers : Has(j, n) => Has(j, n)'
<1>1. /\ logs \in [Oracle!Servers -> [Oracle!Indices -> Oracle!Entries \cup {None}]] /\ k \in Oracle!Indices /\ log[k] # None
      /\ \A l \in 1 .. MaxIndex : l \in Oracle!Indices
  <2>1. logs \in [Oracle!Servers -> [Oracle!Indices -> Oracle!Entries \cup {None}]]
    BY DEF TypeInv, Oracle!TypeOK
  <2>2. k \in Oracle!Indices /\ \A l \in 1 .. MaxIndex : l \in Oracle!Indices
    BY DEF Oracle!Indices, Assumed, Oracle!OracleAssumption
  <2>3. log[k] # None
    BY NoneIsNoEntry DEF TypeInv, TestType, Assumed
  <2> QED BY <2>1, <2>2, <2>3
<1>2. /\ logs'[i][k] = log[k] /\ \A l \in Oracle!Indices : l # k => logs'[i][l] = logs[i][l]
      /\ \A j \in Oracle!Servers : j # i => logs'[j] = logs[j]
  BY <1>1 DEF Oracle!Record
<1>3. OneLog'
  BY <1>1, <1>2 DEF OneLog, OfLog
<1>4. Has(i, k + 1)'
  BY <1>1, <1>2 DEF Has, Assumed, Oracle!OracleAssumption
<1>5. \A n \in Nat, j \in Oracle!Servers : Has(j, n) => Has(j, n)'
  BY <1>1, <1>2 DEF Has
<1> QED BY <1>2, <1>3, <1>4, <1>5

\* A step of the applier without snapshots.
LEMMA CorrectApply ==
  ASSUME Assumed, CorrectInv, NEW x \in Oracle!Insts, NEW k \in 1 .. MaxIndex, NEW v \in Commands, Oracle!Apply(x, k, v)
  PROVE  CorrectInv'
<1>0. x[1] \in Oracle!Servers /\ ~Snapshots /\ Correct /\ Oracle!OracleAssumption /\ TypeInv /\ OneLog /\ Plain /\ Oracle!NoError
      /\ \A y \in Oracle!Insts : app[y].pc # "fatal"
      /\ \A i \in Oracle!Servers : Has(i, next[i]) /\ next[i] \in 1 .. MaxIndex + 1
      /\ next \in [Oracle!Servers -> 1 .. MaxIndex + 1]
  BY DEF Oracle!Insts, Oracle!Apply, Assumed, CorrectInv, AppliedPlain, TypeInv, Oracle!TypeOK
<1>1. TypeInv'
  BY <1>0, TypeNext DEF Oracle!Next, Oracle!Applier
<1>2. /\ next[x[1]] = k /\ v = log[k] /\ Has(x[1], k) /\ Oracle!Record(x[1], k, log[k])
      /\ UNCHANGED <<log, made, test, saved, gen, alarm>> /\ next' = [next EXCEPT ![x[1]] = k + 1]
  BY <1>0 DEF Oracle!Apply, Oracle!MayApply, Oracle!Sent
<1>3. /\ OneLog' /\ Has(x[1], k + 1)'
      /\ \A j \in Oracle!Servers : j # x[1] => logs'[j] = logs[j]
  BY <1>0, <1>2, RecordNext
<1>4. app' = app
  BY <1>0, <1>2, NoApplyError DEF Oracle!Apply
<1>5. \A i \in Oracle!Servers : Has(i, next[i])'
  <2> SUFFICES ASSUME NEW i \in Oracle!Servers PROVE Has(i, next[i])'
    OBVIOUS
  <2>1. CASE i = x[1]
    <3>1. next'[i] = k + 1
      BY <1>0, <1>2, <2>1
    <3> QED BY <1>3, <2>1, <3>1 DEF Has
  <2>2. CASE i # x[1]
    <3>1. next'[i] = next[i] /\ logs'[i] = logs[i]
      BY <1>0, <1>2, <1>3, <2>2
    <3> QED BY <1>0, <3>1 DEF Has
  <2> QED BY <2>1, <2>2
<1>6. Plain' /\ Oracle!NoError' /\ GotLogged'
  BY <1>0, <1>2, <1>4 DEF Plain, Oracle!NoError, GotLogged, CorrectInv
<1>7. AppliedPlain' /\ AppliedSnap'
  BY <1>0, <1>4, <1>5, <1>6 DEF AppliedPlain, AppliedSnap
<1> QED BY <1>1, <1>2, <1>3, <1>6, <1>7 DEF CorrectInv

\* A step of a server's last applierSnap: the others are not concerned.
LEMMA SnapStep ==
  ASSUME Assumed, CorrectInv, Snapshots, NEW x \in Oracle!Insts, Latest(x), TypeInv', OneLog',
         UNCHANGED <<log, test, alarm, rafts, gen>>,
         \A j \in Oracle!Servers : saved'[j] = saved[j] \/ OfLog(saved[j])',
         \A y \in Oracle!Insts : y # x => app'[y] = app[y],
         \A j \in Oracle!Servers : j # x[1] =>
           logs'[j] = logs[j] /\ next'[j] = next[j] /\ lastApplied'[j] = lastApplied[j],
         Loop(app[x], x[1])'
  PROVE  CorrectInv'
<1>1. \A y \in Oracle!Insts : y[1] \in Oracle!Servers /\ (y # x /\ Latest(y) => y[1] # x[1])
  BY DEF Oracle!Insts, Latest
<1>2. AppliedSnap'
  <2>1. \A j \in Oracle!Servers :
          rafts'[j] \in {0, gen'[j]} /\ (saved'[j] = Oracle!NoSnap \/ OfLog(saved[j])')
    BY DEF CorrectInv, AppliedSnap, OfLog
  <2> SUFFICES ASSUME NEW y \in Oracle!Insts PROVE IF Latest(y)' THEN Loop(app[y], y[1])' ELSE Past(app[y])'
    BY <2>1 DEF AppliedSnap, Oracle!NoSnap, Oracle!Indices
  <2>2. CASE y = x
    BY <2>2 DEF Latest
  <2>3. CASE y # x /\ Latest(y)
    <3>1. Loop(app[y], y[1])
      BY <2>3 DEF CorrectInv, AppliedSnap
    <3>2. /\ app'[y] = app[y] /\ logs'[y[1]] = logs[y[1]] /\ next'[y[1]] = next[y[1]]
          /\ lastApplied'[y[1]] = lastApplied[y[1]] /\ log' = log /\ Latest(y)'
      BY <1>1, <2>3 DEF Latest
    <3> QED BY <3>1, <3>2 DEF Loop, Has
  <2>4. CASE y # x /\ ~Latest(y)
    <3>1. Past(app[y]) /\ app'[y] = app[y] /\ ~Latest(y)'
      BY <2>4 DEF CorrectInv, AppliedSnap, Latest
    <3> QED BY <3>1 DEF Past
  <2> QED BY <2>2, <2>3, <2>4
<1>3. GotLogged' /\ AppliedPlain' /\ alarm' \notin {"apply", "mismatch"}
  BY DEF CorrectInv, GotLogged, AppliedPlain
<1> QED BY <1>2, <1>3 DEF CorrectInv

\* A step of an applierSnap whose instance has been replaced.
LEMMA PastStep ==
  ASSUME Assumed, CorrectInv, Snapshots, NEW x \in Oracle!Insts, ~Latest(x),
         \/ \E k \in 1 .. MaxIndex, v \in Commands : Oracle!SnapRecv(x, k, v)
         \/ Oracle!SnapCheck(x) \/ Oracle!SnapLast(x) \/ Oracle!SnapTake(x)
         \/ \E s \in made, k \in 1 .. MaxIndex : Oracle!SnapInstall(x, s, k)
  PROVE  CorrectInv'
<1>1. /\ Past(app[x]) /\ x[1] \in Oracle!Servers /\ x[2] \in 1 .. MaxGen /\ rafts[x[1]] # x[2]
      /\ Correct /\ Oracle!OracleAssumption /\ TypeInv
  BY DEF CorrectInv, AppliedSnap, Latest, Oracle!Insts, Assumed
<1>2. TypeInv'
  BY <1>1, TypeNext DEF Oracle!Next, Oracle!Applier
<1>3. Oracle!SnapTake(x)
  BY <1>1 DEF Past, Oracle!SnapRecv, Oracle!SnapCheck, Oracle!SnapLast, Oracle!SnapInstall, Oracle!MayApply, Oracle!MaySend
<1>4. /\ UNCHANGED <<made, saved, logs, lastApplied, rafts, gen, next, log, test, alarm>>
      /\ app' = [app EXCEPT ![x] = Oracle!Reading]
  BY <1>1, <1>3 DEF Oracle!SnapTake, Oracle!EndLoop, Past
<1>5. app'[x] = Oracle!Reading /\ \A y \in Oracle!Insts : y # x => app'[y] = app[y]
  BY <1>1, <1>4 DEF TypeInv, Oracle!TypeOK
<1>6. ASSUME NEW y \in Oracle!Insts PROVE IF Latest(y)' THEN Loop(app[y], y[1])' ELSE Past(app[y])'
  <2>1. CASE y = x
    BY <1>4, <1>5, <2>1 DEF Latest, Past, Oracle!Reading
  <2>2. CASE y # x
    BY <1>4, <1>5, <2>2 DEF CorrectInv, AppliedSnap, Latest, Past, Loop, Has
  <2> QED BY <2>1, <2>2
<1>7. AppliedSnap'
  BY <1>4, <1>6 DEF CorrectInv, AppliedSnap, OfLog, Oracle!NoSnap, Oracle!Indices
<1>8. OneLog' /\ GotLogged' /\ AppliedPlain' /\ alarm' \notin {"apply", "mismatch"}
  BY <1>4 DEF CorrectInv, OneLog, OfLog, GotLogged, AppliedPlain
<1> QED BY <1>2, <1>7, <1>8 DEF CorrectInv

\* The steps of a server's last applierSnap.
LEMMA CorrectSnap ==
  ASSUME Assumed, CorrectInv, Snapshots, NEW x \in Oracle!Insts, Latest(x),
         \/ \E k \in 1 .. MaxIndex, v \in Commands : Oracle!SnapRecv(x, k, v)
         \/ Oracle!SnapCheck(x) \/ Oracle!SnapLast(x) \/ Oracle!SnapTake(x)
         \/ \E s \in made, k \in 1 .. MaxIndex : Oracle!SnapInstall(x, s, k)
  PROVE  CorrectInv'
<1> DEFINE i == x[1]
           a == app[x]
           AppType == [pc : {"none", "recv", "check", "last", "snap", "fatal"}, index : Oracle!Indices,
                       cmd : Oracle!Entries, err : BOOLEAN]
<1>0. /\ i \in Oracle!Servers /\ Correct /\ Oracle!OracleAssumption /\ TypeInv /\ OneLog /\ Loop(a, i)
      /\ next \in [Oracle!Servers -> 1 .. MaxIndex + 1] /\ lastApplied \in [Oracle!Servers -> Oracle!Indices]
      /\ app \in [Oracle!Insts -> AppType] /\ a \in AppType
      /\ logs \in [Oracle!Servers -> [Oracle!Indices -> Oracle!Entries \cup {None}]]
      /\ MaxIndex \in Nat
  BY DEF Oracle!Insts, Assumed, CorrectInv, AppliedSnap, TypeInv, Oracle!TypeOK, Oracle!OracleAssumption
<1>1. TypeInv'
  BY <1>0, TypeNext DEF Oracle!Next, Oracle!Applier
<1>2. next[i] \in 1 .. MaxIndex + 1 /\ lastApplied[i] \in Oracle!Indices /\ a.index \in Oracle!Indices
  BY <1>0
<1>3. ASSUME NEW k \in 1 .. MaxIndex, NEW v \in Commands, Oracle!SnapRecv(x, k, v) PROVE CorrectInv'
  <2>1. a.pc = "recv" /\ next[i] = k /\ v = log[k]
    BY <1>0, <1>3 DEF Oracle!SnapRecv, Oracle!MayApply
  <2>2. lastApplied[i] + 1 = k /\ Has(i, k)
    BY <1>0, <2>1 DEF Loop
  <2>3. /\ app' = [app EXCEPT ![x] = [pc |-> "check", index |-> k, cmd |-> v, err |-> FALSE]]
        /\ UNCHANGED <<logs, lastApplied, log, made, test, alarm, saved, rafts, gen>> /\ next' = [next EXCEPT ![i] = k + 1]
    BY <1>0, <1>3, <2>2 DEF Oracle!SnapRecv, Oracle!Sent
  <2>4. OneLog'
    BY <1>0, <2>3 DEF OneLog, OfLog
  <2>5. app'[x] = [pc |-> "check", index |-> k, cmd |-> v, err |-> FALSE] /\ next'[i] = k + 1
    BY <1>0, <2>3
  <2>6. Loop(app[x], i)'
    BY <2>1, <2>2, <2>3, <2>5 DEF Loop, Has
  <2>7. /\ \A y \in Oracle!Insts : y # x => app'[y] = app[y]
        /\ \A j \in Oracle!Servers : j # i => next'[j] = next[j]
    BY <1>0, <2>3
  <2> QED BY <1>1, <2>3, <2>4, <2>6, <2>7, SnapStep
<1>4. CASE Oracle!SnapCheck(x)
  <2>1. /\ a.pc = "check" /\ a.cmd = log[a.index] /\ Has(i, a.index)
        /\ a.index \in 1 .. MaxIndex /\ a.index + 1 = next[i]
    BY <1>0, <1>4 DEF Oracle!SnapCheck, Loop
  <2>2. ~Oracle!ApplyError(i, a.index, a.cmd)
    BY <1>0, <2>1, NoApplyError
  <2>3. Oracle!Record(i, a.index, log[a.index]) /\ UNCHANGED <<lastApplied, next, log, made, test, alarm, saved, rafts, gen>>
    BY <1>4, <2>1 DEF Oracle!SnapCheck, Oracle!env
  <2>4. OneLog' /\ Has(i, next[i])' /\ \A j \in Oracle!Servers : j # i => logs'[j] = logs[j]
    <3> HIDE DEF i
    <3>1. PICK k \in 1 .. MaxIndex : k = a.index
      BY <2>1
    <3>2. OneLog' /\ Has(i, k + 1)' /\ \A j \in Oracle!Servers : j # i => logs'[j] = logs[j]
      BY <1>0, <2>1, <2>3, <3>1, RecordNext
    <3>3. next'[i] = k + 1
      BY <2>1, <2>3, <3>1
    <3> QED BY <3>2, <3>3 DEF Has
  <2>5. app'[x].pc = "last" /\ ~app'[x].err /\ app'[x].index = a.index
        /\ \A y \in Oracle!Insts : y # x => app'[y] = app[y]
    BY <1>0, <1>4, <2>2 DEF Oracle!SnapCheck
  <2>6. Loop(app[x], i)'
    BY <2>1, <2>3, <2>4, <2>5 DEF Loop, Has
  <2> QED BY <1>1, <2>3, <2>4, <2>5, <2>6, SnapStep
<1>5. CASE Oracle!SnapLast(x)
  <2>1. /\ a.pc = "last" /\ Has(i, next[i]) /\ ~a.err
        /\ a.index \in 1 .. MaxIndex /\ a.index + 1 = next[i]
    BY <1>0, <1>5 DEF Oracle!SnapLast, Loop
  <2>2. /\ lastApplied' = [lastApplied EXCEPT ![i] = a.index]
        /\ UNCHANGED <<logs, next, log, made, test, alarm, saved, rafts, gen>>
        /\ app' = [app EXCEPT ![x].pc = "snap"] \/ app' = [app EXCEPT ![x] = Oracle!Reading]
    BY <1>5, <2>1 DEF Oracle!SnapLast, Oracle!EndLoop, Oracle!env
  <2>3. OneLog'
    BY <1>0, <2>2 DEF OneLog, OfLog
  <2>4. /\ app'[x] = [a EXCEPT !.pc = "snap"] \/ app'[x] = Oracle!Reading
        /\ \A y \in Oracle!Insts : y # x => app'[y] = app[y]
        /\ lastApplied'[i] = a.index /\ \A j \in Oracle!Servers : j # i => lastApplied'[j] = lastApplied[j]
    BY <1>0, <1>2, <2>2
  <2>5. Loop(app[x], i)'
    BY <1>0, <2>1, <2>2, <2>4 DEF Loop, Has, Oracle!Reading
  <2> QED BY <1>1, <2>2, <2>3, <2>4, <2>5, SnapStep
<1>6. CASE Oracle!SnapTake(x)
  <2>1. /\ a.pc = "snap" /\ Has(i, next[i]) /\ ~a.err /\ lastApplied[i] = a.index
        /\ a.index \in 1 .. MaxIndex /\ a.index + 1 = next[i]
    BY <1>0, <1>6 DEF Oracle!SnapTake, Loop
  <2>2. PICK s : s = [index |-> a.index,
                      xlog |-> [k \in Oracle!Indices |-> IF k > a.index THEN None
                                        ELSE IF Oracle!Present(i, k) THEN logs[i][k] ELSE Nil]]
    OBVIOUS
  <2>3. /\ made' \subseteq made \cup {s} /\ app' = [app EXCEPT ![x] = Oracle!Reading]
        /\ saved' = [saved EXCEPT ![i] = s] \/ saved' = saved
        /\ UNCHANGED <<logs, lastApplied, next, log, test, alarm, rafts, gen>>
    BY <1>6, <2>1, <2>2 DEF Oracle!SnapTake, Oracle!EndLoop
  <2>4. \A k \in 1 .. MaxIndex : s.xlog[k] = IF k <= s.index THEN log[k] ELSE None
    BY <1>0, <1>2, <2>1, <2>2 DEF OneLog, Has, Oracle!Present, Oracle!Indices
  <2>5. OneLog' /\ \A j \in Oracle!Servers : saved'[j] = saved[j] \/ OfLog(saved[j])'
    <3>1. saved \in [Oracle!Servers -> Oracle!Snapshot]
      BY <1>0 DEF TypeInv, Oracle!TypeOK
    <3> QED BY <1>0, <2>3, <2>4, <3>1 DEF OneLog, OfLog
  <2>6. app'[x] = Oracle!Reading /\ \A y \in Oracle!Insts : y # x => app'[y] = app[y]
    BY <1>0, <2>3
  <2>7. Loop(app[x], i)'
    BY <2>1, <2>3, <2>6 DEF Loop, Has, Oracle!Reading
  <2> QED BY <1>1, <2>3, <2>5, <2>6, <2>7, SnapStep
<1>7. ASSUME NEW s \in made, NEW k \in 1 .. MaxIndex, Oracle!SnapInstall(x, s, k) PROVE CorrectInv'
  <2>1. /\ a.pc = "recv" /\ k = s.index /\ logs' = [logs EXCEPT ![i] = s.xlog]
        /\ lastApplied' = [lastApplied EXCEPT ![i] = k] /\ next' = [next EXCEPT ![i] = k + 1]
        /\ UNCHANGED <<log, made, app, test, alarm, saved, rafts, gen>>
    BY <1>0, <1>7 DEF Oracle!SnapInstall, Oracle!Ingest, Oracle!Sent
  <2>2. /\ \A l \in 1 .. MaxIndex : s.xlog[l] = IF l <= k THEN log[l] ELSE None
        /\ \A l \in 1 .. MaxIndex : log[l] # None
    <3>1. \A l \in 1 .. MaxIndex : log[l] # None
      BY <1>0, NoneIsNoEntry DEF OneLog, Oracle!Entries
    <3>2. \A l \in 1 .. MaxIndex : s.xlog[l] = IF l <= s.index THEN log[l] ELSE None
      BY <1>0 DEF OneLog, OfLog
    <3> QED BY <2>1, <3>1, <3>2
  <2>3. /\ logs'[i] = s.xlog /\ lastApplied'[i] = k /\ next'[i] = k + 1
        /\ \A j \in Oracle!Servers : j # i => logs'[j] = logs[j] /\ next'[j] = next[j]
                                       /\ lastApplied'[j] = lastApplied[j]
    BY <1>0, <2>1
  <2>4. OneLog'
    <3>1. \A j \in Oracle!Servers, l \in 1 .. MaxIndex : logs'[j][l] # None => logs'[j][l] = log[l]
      <4> SUFFICES ASSUME NEW j \in Oracle!Servers, NEW l \in 1 .. MaxIndex, logs'[j][l] # None
                   PROVE  logs'[j][l] = log[l]
        OBVIOUS
      <4>1. CASE j = i
        BY <2>2, <2>3, <4>1
      <4>2. CASE j # i
        BY <1>0, <2>3, <4>2 DEF OneLog
      <4> QED BY <4>1, <4>2
    <3> QED BY <1>0, <2>1, <3>1 DEF OneLog, OfLog
  <2>5. Has(i, k + 1)'
    BY <1>0, <2>2, <2>3 DEF Has
  <2>6. Loop(app[x], i)'
    BY <1>0, <2>1, <2>3, <2>5 DEF Loop, Has
  <2> QED BY <1>1, <2>1, <2>3, <2>4, <2>6, SnapStep
<1> QED BY <1>3, <1>4, <1>5, <1>6, <1>7

\* nCommitted compares entries of the agreed log.
LEMMA CorrectTester == ASSUME Assumed, CorrectInv, Oracle!Tester PROVE CorrectInv'
<1>0. TypeInv /\ Oracle!OracleAssumption /\ test.i \in 0 .. N /\ test.count \in Nat
      /\ test \in [op : Polls \cup {"idle", "try", "agreed"}, cmd : Oracle!Entries, index : Oracle!Indices,
               starts : Oracle!Servers, si : 0 .. N, i : 0 .. N, count : Nat, got : Oracle!Entries]
  BY DEF Assumed, CorrectInv, TypeInv, TestType
<1>1. TypeInv'
  BY <1>0, TypeNext DEF Oracle!Next
<1>2. UNCHANGED <<logs, lastApplied, maxIndex, Oracle!env, app>>
  BY DEF Oracle!Tester, Oracle!OneBegin, Oracle!WaitBegin, Oracle!OneTry, Oracle!NCommitted, Oracle!OnePolled, Oracle!OneNobody, Oracle!WaitPolled,
         Oracle!WaitFinal, Oracle!TestNext
<1>3. OneLog' /\ AppliedPlain' /\ AppliedSnap'
  BY <1>2 DEF CorrectInv, OneLog, OfLog, AppliedPlain, Plain, Oracle!NoError, AppliedSnap, Latest, Loop, Past,
              Has, Oracle!env, Oracle!NoSnap, Oracle!Indices
<1>4. log' = log
  BY <1>2 DEF Oracle!env
<1> DEFINE Goal == GotLogged' /\ alarm' \notin {"apply", "mismatch"}
<1> SUFFICES Goal
  BY <1>1, <1>3 DEF CorrectInv
<1>5. ASSUME test' = test \/ test'.count = 0 \/ test'.op \notin Polls PROVE GotLogged'
  BY <1>4, <1>5 DEF CorrectInv, GotLogged
<1>6. ASSUME ~Oracle!NCommitted PROVE Goal
  <2>1. alarm' \in {alarm, "timeout"}
    BY <1>6 DEF Oracle!Tester, Oracle!OneBegin, Oracle!WaitBegin, Oracle!OneTry, Oracle!OnePolled, Oracle!OneNobody, Oracle!WaitPolled, Oracle!WaitFinal, Oracle!TestNext
  <2>2. \A op \in Polls : Oracle!StartPoll(op) => test'.count = 0
    BY <1>0 DEF Oracle!StartPoll
  <2>3. test' = test \/ test'.count = 0 \/ test'.op \notin Polls
    <3>1. CASE \E c \in Commands : Oracle!OneBegin(c)
      BY <3>1 DEF Oracle!OneBegin, Oracle!IdleTest
    <3>2. CASE \E k \in 1 .. MaxIndex : Oracle!WaitBegin(k)
      BY <3>2 DEF Oracle!WaitBegin, Oracle!IdleTest
    <3>3. CASE Oracle!OneTry
      BY <1>0, <3>3 DEF Oracle!OneTry, Polls
    <3>4. CASE Oracle!OnePolled
      BY <1>0, <2>2, <3>4 DEF Oracle!OnePolled, Polls
    <3>5. CASE Oracle!OneNobody
      BY <1>0, <3>5 DEF Oracle!OneNobody, Polls
    <3>6. CASE Oracle!WaitPolled
      BY <2>2, <3>6 DEF Oracle!WaitPolled, Oracle!IdleTest, Polls
    <3>7. CASE Oracle!WaitFinal
      BY <1>0, <3>7 DEF Oracle!WaitFinal, Polls
    <3>8. CASE Oracle!TestNext
      BY <3>8 DEF Oracle!TestNext, Oracle!IdleTest
    <3> QED BY <1>6, <3>1, <3>2, <3>3, <3>4, <3>5, <3>6, <3>7, <3>8 DEF Oracle!Tester
  <2> QED BY <1>5, <2>1, <2>3 DEF CorrectInv
<1>7. CASE Oracle!NCommitted
  <2>1. test.op \in Polls /\ test.i \in Oracle!Servers /\ test.index \in 1 .. MaxIndex
    BY <1>0, <1>7 DEF Oracle!NCommitted, Polls, Oracle!Servers, Oracle!OracleAssumption, TypeInv, TestType
  <2>2. CASE Oracle!CountEntry(test.i, test.index)
    <3>1. logs[test.i][test.index] = log[test.index]
      BY <2>1, <2>2 DEF Oracle!CountEntry, Oracle!Present, CorrectInv, OneLog
    <3>2. test'.op = test.op /\ test'.got = log[test.index] /\ test'.index = test.index
      BY <1>0, <2>2, <3>1 DEF Oracle!CountEntry
    <3>3. alarm' = alarm
      BY <2>1, <2>2, <3>1 DEF Oracle!CountEntry, CorrectInv, GotLogged
    <3> QED BY <1>4, <3>2, <3>3 DEF CorrectInv, GotLogged
  <2>3. CASE test' = [test EXCEPT !.i = @ + 1] /\ UNCHANGED alarm
    <3>1. test'.op = test.op /\ test'.got = test.got /\ test'.index = test.index /\ test'.count = test.count
      BY <1>0, <2>3
    <3> QED BY <1>4, <2>3, <3>1 DEF CorrectInv, GotLogged
  <2> QED BY <1>7, <2>2, <2>3 DEF Oracle!NCommitted
<1> QED BY <1>6, <1>7

\* A server is started, with no applier of it in the middle of a command: what the
\* saved snapshot has, or nothing, is what the new instance has applied.
LEMMA CorrectStart ==
  ASSUME Assumed, CorrectInv, NEW i \in Oracle!Servers, Oracle!Start(i), ~Oracle!Applying(i)
  PROVE  CorrectInv'
<1> DEFINE s == saved[i]
           new == <<i, gen[i] + 1>>
<1>0. Oracle!OracleAssumption /\ TypeInv /\ OneLog /\ Correct /\ MaxIndex \in Nat /\ MaxGen \in Nat
  BY DEF Assumed, CorrectInv, Oracle!OracleAssumption
<1>1. TypeInv'
  BY <1>0, TypeNext DEF Oracle!Next
<1>2. /\ gen \in [Oracle!Servers -> 1 .. MaxGen] /\ rafts \in [Oracle!Servers -> 0 .. MaxGen]
      /\ next \in [Oracle!Servers -> 1 .. MaxIndex + 1] /\ lastApplied \in [Oracle!Servers -> Oracle!Indices]
      /\ logs \in [Oracle!Servers -> [Oracle!Indices -> Oracle!Entries \cup {None}]]
      /\ app \in [Oracle!Insts -> [pc : {"none", "recv", "check", "last", "snap", "fatal"}, index : Oracle!Indices,
                                  cmd : Oracle!Entries, err : BOOLEAN]]
      /\ s.index \in Oracle!Indices
  BY <1>0 DEF TypeInv, Oracle!TypeOK, Oracle!Snapshot
<1>3. /\ UNCHANGED <<test, alarm, saved, made, log>>
      /\ next' = [next EXCEPT ![i] = s.index + 1]
      /\ gen' = [gen EXCEPT ![i] = gen[i] + 1] /\ rafts' = [rafts EXCEPT ![i] = gen[i] + 1]
      /\ app' = [app EXCEPT ![new] = Oracle!Reading] /\ new \in Oracle!Insts
  BY <1>0, <1>2 DEF Oracle!Start, Oracle!Insts
<1>4. /\ next'[i] = s.index + 1 /\ gen'[i] = gen[i] + 1 /\ rafts'[i] = gen[i] + 1
      /\ app'[new] = Oracle!Reading /\ \A y \in Oracle!Insts : y # new => app'[y] = app[y]
      /\ \A j \in Oracle!Servers : j # i => next'[j] = next[j] /\ gen'[j] = gen[j] /\ rafts'[j] = rafts[j]
  <2> HIDE DEF s, new
  <2>1. /\ next'[i] = s.index + 1 /\ gen'[i] = gen[i] + 1 /\ rafts'[i] = gen[i] + 1
        /\ \A j \in Oracle!Servers : j # i => next'[j] = next[j] /\ gen'[j] = gen[j] /\ rafts'[j] = rafts[j]
    BY <1>2, <1>3
  <2>2. app'[new] = Oracle!Reading /\ \A y \in Oracle!Insts : y # new => app'[y] = app[y]
    BY <1>2, <1>3
  <2> QED BY <2>1, <2>2
<1>5. \A l \in 1 .. MaxIndex : log[l] # None /\ l \in Oracle!Indices
  BY <1>0, NoneIsNoEntry DEF OneLog, Oracle!Entries, Oracle!Indices
<1>6. CASE ~Snapshots
  <2>1. Plain /\ Oracle!NoError /\ s = Oracle!NoSnap /\ \A j \in Oracle!Servers : Has(j, next[j])
    BY <1>6 DEF CorrectInv, AppliedPlain, Plain
  <2>2. logs' = logs /\ s.index = 0
    BY <2>1 DEF Oracle!Start, Oracle!NoSnap
  <2>3. Oracle!NoError' /\ \A y \in Oracle!Insts : app'[y].pc # "fatal"
    BY <1>4, <1>6, <2>1 DEF CorrectInv, AppliedPlain, Oracle!NoError, Oracle!Reading
  <2>4. ASSUME NEW y \in Oracle!Insts
        PROVE  /\ app'[y].pc \in {"none", "recv", "fatal"} /\ (app'[y].err => app'[y].pc = "fatal")
               /\ y[2] > gen'[y[1]] => app'[y].pc = "none"
    <3>1. y = <<y[1], y[2]>> /\ y[1] \in Oracle!Servers /\ y[2] \in Nat /\ gen[i] \in Nat
      BY <1>2 DEF Oracle!Insts
    <3>2. CASE y = new
      BY <1>4, <3>1, <3>2 DEF Oracle!Reading
    <3>3. CASE y # new
      BY <1>4, <2>1, <3>1, <3>3 DEF Plain
    <3> QED BY <3>2, <3>3
  <2>5. Plain'
    BY <1>3, <2>1, <2>4 DEF Plain
  <2>6. \A j \in Oracle!Servers : Has(j, next[j])'
    BY <1>4, <2>1, <2>2 DEF Has
  <2>7. OneLog' /\ GotLogged'
    BY <1>3, <2>2 DEF CorrectInv, OneLog, OfLog, GotLogged
  <2> QED BY <1>1, <1>3, <1>6, <2>3, <2>5, <2>6, <2>7 DEF CorrectInv, AppliedPlain, AppliedSnap
<1>7. CASE Snapshots
  <2>1. /\ \A j \in Oracle!Servers : rafts[j] \in {0, gen[j]} /\ (saved[j] = Oracle!NoSnap \/ OfLog(saved[j]))
        /\ \A y \in Oracle!Insts : IF Latest(y) THEN Loop(app[y], y[1]) ELSE Past(app[y])
    BY <1>7 DEF CorrectInv, AppliedSnap
  <2>2. /\ lastApplied'[i] = s.index /\ \A j \in Oracle!Servers : j # i => logs'[j] = logs[j] /\ lastApplied'[j] = lastApplied[j]
        /\ \/ s.index = 0 /\ logs'[i] = logs[i]
           \/ OfLog(s) /\ logs'[i] = s.xlog
    <3>1. CASE s = Oracle!NoSnap
      <4>1. s.index = 0
        BY <3>1 DEF Oracle!NoSnap
      <4>2. logs' = logs /\ lastApplied' = [lastApplied EXCEPT ![i] = 0]
        BY <3>1 DEF Oracle!Start
      <4> QED BY <1>2, <4>1, <4>2
    <3>2. CASE s # Oracle!NoSnap
      <4>1. OfLog(s)
        BY <2>1, <3>2
      <4>2. Oracle!Ingest(i, s)
        BY <3>2 DEF Oracle!Start
      <4> QED BY <1>2, <4>1, <4>2 DEF Oracle!Ingest
    <3> QED BY <3>1, <3>2
  <2>3. OneLog'
    <3>1. \A j \in Oracle!Servers, l \in 1 .. MaxIndex : logs'[j][l] # None => logs'[j][l] = log[l]
      <4> SUFFICES ASSUME NEW j \in Oracle!Servers, NEW l \in 1 .. MaxIndex, logs'[j][l] # None
                   PROVE  logs'[j][l] = log[l]
        OBVIOUS
      <4>1. CASE logs'[j] = logs[j]
        BY <1>0, <4>1 DEF OneLog
      <4>2. CASE j = i /\ OfLog(s) /\ logs'[i] = s.xlog
        BY <4>2 DEF OfLog
      <4> QED BY <2>2, <4>1, <4>2
    <3> QED BY <1>0, <1>3, <3>1 DEF OneLog, OfLog
  <2>4. Has(i, next[i])'
    <3>1. CASE s.index = 0
      BY <1>4, <3>1 DEF Has
    <3>2. CASE OfLog(s) /\ logs'[i] = s.xlog
      <4>1. s.index \in Nat
        BY <1>0, <1>2 DEF Oracle!Indices
      <4>2. \A l \in 1 .. MaxIndex : l < s.index + 1 => s.xlog[l] # None
        BY <1>0, <1>5, <3>2, <4>1 DEF OfLog
      <4> HIDE DEF s
      <4> QED BY <1>4, <3>2, <4>2 DEF Has
    <3> QED BY <2>2, <3>1, <3>2
  <2>5. ASSUME NEW y \in Oracle!Insts
        PROVE  IF Latest(y)' THEN Loop(app[y], y[1])' ELSE Past(app[y])'
    <3>1. y = <<y[1], y[2]>> /\ y[1] \in Oracle!Servers /\ y[2] \in Nat /\ gen[i] \in Nat
      BY <1>2 DEF Oracle!Insts
    <3>2. CASE y = new
      BY <1>4, <2>2, <2>4, <3>2 DEF Latest, Loop, Has, Oracle!Reading
    <3>3. CASE y # new /\ y[1] = i
      <4>1. ~Latest(y)' /\ app'[y] = app[y] /\ app[y].pc \notin {"check", "last"}
        BY <1>4, <3>1, <3>3 DEF Latest, Oracle!Applying
      <4>2. app[y].pc \in {"none", "recv", "check", "last", "snap", "fatal"}
        BY <1>2
      <4> QED BY <2>1, <4>1, <4>2 DEF Loop, Past
    <3>4. CASE y[1] # i
      <4>1. /\ Latest(y)' = Latest(y) /\ app'[y] = app[y] /\ logs'[y[1]] = logs[y[1]] /\ next'[y[1]] = next[y[1]]
            /\ lastApplied'[y[1]] = lastApplied[y[1]] /\ log' = log
        BY <1>3, <1>4, <2>2, <3>1, <3>4 DEF Latest
      <4> QED BY <2>1, <4>1 DEF Loop, Past, Has
    <3> QED BY <3>2, <3>3, <3>4
  <2>6. \A j \in Oracle!Servers : rafts'[j] \in {0, gen'[j]} /\ (saved'[j] = Oracle!NoSnap \/ OfLog(saved[j])')
    BY <1>3, <1>4, <2>1 DEF OfLog
  <2>7. AppliedSnap'
    BY <2>5, <2>6 DEF AppliedSnap, Oracle!NoSnap, Oracle!Indices
  <2>8. GotLogged'
    BY <1>3 DEF CorrectInv, GotLogged
  <2> QED BY <1>1, <1>3, <1>7, <2>3, <2>7, <2>8 DEF CorrectInv, AppliedPlain
<1> QED BY <1>6, <1>7

LEMMA CorrectNext == ASSUME Assumed, CorrectInv, [Oracle!Next]_Oracle!vars, ~stale' PROVE CorrectInv'
<1>0. Oracle!OracleAssumption /\ TypeInv /\ Correct
  BY DEF Assumed, CorrectInv
<1>1. TypeInv'
  BY <1>0, TypeNext
<1>2. ASSUME NEW x \in Oracle!Insts,
             \/ \E k \in 1 .. MaxIndex, v \in Commands : Oracle!SnapRecv(x, k, v)
             \/ Oracle!SnapCheck(x) \/ Oracle!SnapLast(x) \/ Oracle!SnapTake(x)
             \/ \E s \in made, k \in 1 .. MaxIndex : Oracle!SnapInstall(x, s, k)
      PROVE  CorrectInv'
  <2>1. CASE Snapshots
    BY <1>2, <2>1, CorrectSnap, PastStep
  <2>2. CASE ~Snapshots
    <3>1. app[x].pc \in {"none", "recv", "fatal"}
      BY <2>2 DEF CorrectInv, AppliedPlain, Plain
    <3> QED BY <1>2, <2>2, <3>1 DEF Oracle!SnapRecv, Oracle!SnapCheck, Oracle!SnapLast, Oracle!SnapTake, Oracle!SnapInstall
  <2> QED BY <2>1, <2>2
<1>3. ASSUME NEW x \in Oracle!Insts, Oracle!Fatal(x) PROVE FALSE
  <2>1. app[x].pc = "fatal"
    BY <1>3 DEF Oracle!Fatal
  <2>2. CASE Snapshots
    BY <2>1, <2>2 DEF CorrectInv, AppliedSnap, Loop, Past
  <2>3. CASE ~Snapshots
    BY <2>1, <2>3 DEF CorrectInv, AppliedPlain, Plain
  <2> QED BY <2>2, <2>3
<1>4. ASSUME NEW i \in Oracle!Servers, Oracle!Crash(i) PROVE CorrectInv'
  <2>1. UNCHANGED <<logs, lastApplied, gen, saved, made, next, log, app, test, alarm>> /\ rafts' = [rafts EXCEPT ![i] = 0]
    BY <1>4 DEF Oracle!Crash
  <2>2. \A j \in Oracle!Servers : rafts'[j] \in {0, rafts[j]}
    BY <1>0, <2>1 DEF TypeInv, Oracle!TypeOK
  <2>3. OneLog' /\ GotLogged' /\ AppliedPlain'
    BY <2>1 DEF CorrectInv, OneLog, OfLog, GotLogged, AppliedPlain, Plain, Oracle!NoError, Has
  <2>4. Snapshots => \A j \in Oracle!Servers :
                       rafts'[j] \in {0, gen'[j]} /\ (saved'[j] = Oracle!NoSnap \/ OfLog(saved[j])')
    BY <2>1, <2>2 DEF CorrectInv, AppliedSnap, OfLog
  <2>5. Snapshots => \A x \in Oracle!Insts : IF Latest(x)' THEN Loop(app[x], x[1])' ELSE Past(app[x])'
    BY <2>1 DEF CorrectInv, AppliedSnap, Latest, Loop, Past, Has
  <2>6. AppliedSnap'
    BY <2>4, <2>5 DEF AppliedSnap, Oracle!NoSnap, Oracle!Indices
  <2> QED BY <1>1, <2>1, <2>3, <2>6 DEF CorrectInv
<1>5. ASSUME NEW i \in Oracle!Servers, Oracle!Start(i) PROVE CorrectInv'
  <2>1. ~Oracle!Applying(i)
    BY <1>5 DEF Oracle!Start
  <2> QED BY <1>5, <2>1, CorrectStart
<1>6. CASE UNCHANGED Oracle!vars
  BY <1>1, <1>6 DEF Oracle!vars, CorrectInv, OneLog, OfLog, GotLogged, AppliedPlain, Plain, Oracle!NoError, AppliedSnap,
                    Latest, Loop, Past, Has, Oracle!NoSnap, Oracle!Indices
<1> QED BY <1>2, <1>3, <1>4, <1>5, <1>6, CorrectApply, CorrectTester DEF Oracle!Next, Oracle!Applier

\* A server once started too early may be failed; until then CorrectInv holds.
Trusted == TypeInv /\ (stale \/ CorrectInv)

LEMMA TrustedNext == ASSUME Assumed, Trusted, [Oracle!Next]_Oracle!vars PROVE Trusted'
<1>1. TypeInv'
  BY TypeNext DEF Assumed, Trusted
<1>2. stale => stale'
  BY DEF Oracle!Next, Oracle!Applier, Oracle!Tester, Oracle!Apply, Oracle!Fatal, Oracle!SnapRecv, Oracle!SnapCheck,
         Oracle!SnapLast, Oracle!SnapTake, Oracle!SnapInstall, Oracle!Crash, Oracle!Start, Oracle!OneBegin, Oracle!WaitBegin,
         Oracle!OneTry, Oracle!NCommitted, Oracle!OnePolled, Oracle!OneNobody, Oracle!WaitPolled, Oracle!WaitFinal,
         Oracle!TestNext, Oracle!env, Oracle!vars
<1> QED BY <1>1, <1>2, CorrectNext DEF Trusted

\* A Raft that applies one agreed log in order is never failed by the appliers or
\* by nCommitted, whatever is crashed and started again, with snapshots and without:
\* unless a server is started while applierSnap of an earlier instance is between
\* the receipt of a command and the write of lastApplied, which the instances share.
THEOREM CorrectIsNotFailed ==
  ASSUME Oracle!OracleAssumption
  PROVE  Oracle!Spec => []Oracle!NoFalseAlarm
<1>1. CASE Correct
  <2>1. Assumed
    BY <1>1 DEF Assumed
  <2>2. Oracle!Init => Trusted
    BY <2>1, CorrectInit DEF CorrectInv, Trusted
  <2>3. Trusted /\ [Oracle!Next]_Oracle!vars => Trusted'
    BY <2>1, TrustedNext
  <2>4. Trusted => Oracle!NoFalseAlarm
    BY DEF CorrectInv, Trusted, Oracle!NoFalseAlarm
  <2> QED BY <2>2, <2>3, <2>4, PTL DEF Oracle!Spec
<1>2. CASE ~Correct
  <2>1. Oracle!Init => Oracle!NoFalseAlarm
    BY <1>2 DEF Oracle!NoFalseAlarm
  <2>2. Oracle!NoFalseAlarm /\ [Oracle!Next]_Oracle!vars => Oracle!NoFalseAlarm'
    BY <1>2 DEF Oracle!NoFalseAlarm
  <2> QED BY <2>1, <2>2, PTL DEF Oracle!Spec
<1> QED BY <1>1, <1>2

-----------------------------------------------------------------------------
(* LeaderCheck.                                                            *)

LEMMA LeadersCard == \A T : Leaders!Cardinality(T) = Cardinality(T)
  BY DEF Leaders!Cardinality, Cardinality

Results == {"none", "twoLeaders", "leader", "noLeader", "disagree", "aLeader", "ok"}

\* TypeOK, with the variables it leaves open.
LeaderTypeInv ==
    /\ term \in [Leaders!Servers -> 1 .. MaxTerm] /\ vote \in [Leaders!Servers -> 1 .. MaxTerm]
    /\ leads \in [Leaders!Servers -> BOOLEAN]
    /\ \A s \in Leaders!Servers : vote[s] <= term[s]
    /\ connected \in Networks /\ check \in Checks
    /\ asked \in 1 .. N + 1 /\ iters \in 1 .. MaxIters
    /\ seen \subseteq (1 .. MaxTerm) \X Leaders!Servers
    /\ checkTerm \in 0 .. MaxTerm /\ began \in 0 .. MaxTerm
    /\ outcome \in Results /\ stable \in BOOLEAN
    /\ asked = 1 => outcome = "none" /\ seen = {}

LEMMA LeaderTypeInit == ASSUME Leaders!LeaderAssumption, Leaders!Init PROVE LeaderTypeInv
<1>1. N \in Nat \ {0} /\ MaxIters \in Nat \ {0} /\ MaxTerm \in Nat \ {0}
  BY DEF Leaders!LeaderAssumption
<1> QED BY <1>1 DEF Leaders!Init, LeaderTypeInv, Results, Leaders!Servers

LEMMA NetworkFacts ==
    ASSUME Leaders!LeaderAssumption, LeaderTypeInv
    PROVE  /\ N \in Nat \ {0} /\ MaxTerm \in Nat \ {0} /\ MaxIters \in Nat \ {0}
           /\ connected \subseteq Leaders!Servers
           /\ \A n \in Networks : n \subseteq Leaders!Servers
  BY DEF Leaders!LeaderAssumption, LeaderTypeInv, Leaders!Servers

\* The highest term is one of the terms.
LEMMA Highest ==
    ASSUME NEW S, NEW f \in [S -> Nat], NEW m \in Nat, \A s \in S : f[s] <= m, S # {}
    PROVE  \E s \in S : \A r \in S : f[r] <= f[s]
<1> DEFINE gaps == {m - f[s] : s \in S}
<1>1. gaps \subseteq Nat /\ gaps # {}
  OBVIOUS
<1> DEFINE R == OpToRel(<, Nat)
<1>2. IsWellFoundedOn(R, Nat) /\ R = {ss \in Nat \X Nat : ss[1] < ss[2]}
  BY NatLessThanWellFounded DEF OpToRel
<1>3. \A x, y \in Nat : x < y => <<x, y>> \in R
  BY <1>2
<1> HIDE DEF R, gaps
<1>6. PICK g \in gaps : \A h \in gaps : ~(<<h, g>> \in R)
  BY <1>1, <1>2, WFMin, Zenon
<1>7. \A h \in gaps : h >= g
  <2> SUFFICES ASSUME NEW h \in gaps PROVE h >= g
    OBVIOUS
  <2>1. h \in Nat /\ g \in Nat
    BY <1>1
  <2>2. ~(<<h, g>> \in R)
    BY <1>6
  <2>3. ~(h < g)
    BY <1>3, <2>1, <2>2
  <2> QED BY <2>1, <2>3
<1> USE DEF gaps
<1>4. PICK s \in S : g = m - f[s]
  OBVIOUS
<1>5. \A r \in S : f[r] <= f[s]
  BY <1>4, <1>7
<1> QED BY <1>5

\* The highest term of a connected server, as checkTerms begins.
LEMMA HighestTermIs ==
    ASSUME Leaders!LeaderAssumption, LeaderTypeInv, connected # {}
    PROVE  /\ \E s \in connected : Leaders!HighestTerm = term[s]
           /\ \A s \in connected : term[s] <= Leaders!HighestTerm
<1> DEFINE f == [s \in connected |-> term[s]]
<1>1. f \in [connected -> Nat] /\ MaxTerm \in Nat /\ \A s \in connected : f[s] <= MaxTerm
  BY NetworkFacts DEF LeaderTypeInv
<1>2. \E s \in connected : \A r \in connected : f[r] <= f[s]
  <2> HIDE DEF f
  <2> QED BY <1>1, Highest
<1>3. \E t \in {term[s] : s \in connected} : \A s \in connected : term[s] <= t
  BY <1>2
<1>4. Leaders!HighestTerm \in {term[s] : s \in connected} /\ \A s \in connected : term[s] <= Leaders!HighestTerm
  BY <1>3 DEF Leaders!HighestTerm
<1> QED BY <1>4

LEMMA LeaderTypeNext == ASSUME Leaders!LeaderAssumption, LeaderTypeInv,
                               [Leaders!Next]_Leaders!vars PROVE LeaderTypeInv'
<1> USE NetworkFacts DEF LeaderTypeInv, Leaders!raftVars, Leaders!harnessVars, Leaders!Note
<1>1. ASSUME NEW s \in Leaders!Servers, Leaders!Campaign(s) PROVE LeaderTypeInv'
  <2>1. /\ term' = [term EXCEPT ![s] = @ + 1] /\ vote' = [vote EXCEPT ![s] = term[s] + 1]
        /\ leads' = [leads EXCEPT ![s] = FALSE] /\ term[s] + 1 \in 1 .. MaxTerm
    BY <1>1 DEF Leaders!Campaign
  <2>2. /\ term' \in [Leaders!Servers -> 1 .. MaxTerm] /\ vote' \in [Leaders!Servers -> 1 .. MaxTerm]
        /\ leads' \in [Leaders!Servers -> BOOLEAN]
    BY <2>1
  <2>3. \A r \in Leaders!Servers : vote'[r] <= term'[r]
    BY <2>1
  <2> QED BY <1>1, <2>2, <2>3 DEF Leaders!Campaign
<1>2. ASSUME NEW s \in Leaders!Servers, Leaders!Elect(s) PROVE LeaderTypeInv'
  <2>1. PICK Q \in SUBSET Leaders!Servers :
           /\ term' = [q \in Leaders!Servers |-> IF q \in Q THEN term[s] + 1 ELSE term[q]]
           /\ vote' = [q \in Leaders!Servers |-> IF q \in Q THEN term[s] + 1 ELSE vote[q]]
           /\ leads' = [q \in Leaders!Servers |-> IF q \in Q THEN q = s ELSE leads[q]]
    BY <1>2 DEF Leaders!Elect
  <2>2. term[s] + 1 \in 1 .. MaxTerm
    BY <1>2 DEF Leaders!Elect
  <2>3. term' \in [Leaders!Servers -> 1 .. MaxTerm] /\ vote' \in [Leaders!Servers -> 1 .. MaxTerm]
    BY <2>1, <2>2
  <2>4. leads' \in [Leaders!Servers -> BOOLEAN]
    BY <2>1
  <2>5. \A r \in Leaders!Servers : vote'[r] <= term'[r]
    BY <2>1, <2>2
  <2> QED BY <1>2, <2>3, <2>4, <2>5 DEF Leaders!Elect
<1>3. ASSUME NEW s \in Leaders!Servers, Leaders!Learn(s) PROVE LeaderTypeInv'
  <2>1. PICK r \in Leaders!Servers : term[r] > term[s] /\ term' = [term EXCEPT ![s] = term[r]]
    BY <1>3 DEF Leaders!Learn
  <2>2. term' \in [Leaders!Servers -> 1 .. MaxTerm] /\ \A q \in Leaders!Servers : term[q] <= term'[q]
    BY <2>1
  <2>3. leads' \in [Leaders!Servers -> BOOLEAN] /\ vote' = vote
    BY <1>3 DEF Leaders!Learn
  <2>4. \A q \in Leaders!Servers : vote'[q] <= term'[q]
    BY <2>2, <2>3
  <2> QED BY <1>3, <2>2, <2>3, <2>4 DEF Leaders!Learn
<1>4. CASE Leaders!SkipDisconnected
  BY <1>4 DEF Leaders!SkipDisconnected, Leaders!Asking
<1>5. CASE Leaders!TermsAsk
  <2>1. Leaders!HighestTerm \in 0 .. MaxTerm /\ term[asked] \in 0 .. MaxTerm
    BY <1>5, HighestTermIs DEF Leaders!TermsAsk
  <2> QED BY <1>5, <2>1 DEF Leaders!TermsAsk, Leaders!Asking, Results
<1>6. CASE Leaders!NoLeaderAsk
  BY <1>6 DEF Leaders!NoLeaderAsk, Leaders!Asking, Results
<1>7. CASE Leaders!Passed
  BY <1>7 DEF Leaders!Passed, Results
<1>8. CASE Leaders!OneLeaderAsk
  BY <1>8 DEF Leaders!OneLeaderAsk, Leaders!Asking
<1>9. CASE Leaders!OneLeaderReturn
  BY <1>9 DEF Leaders!OneLeaderReturn, Leaders!Tried, Results
<1>10. CASE Leaders!OneLeaderRetry
  BY <1>10 DEF Leaders!OneLeaderRetry, Leaders!Tried
<1>11. CASE Leaders!OneLeaderNone
  BY <1>11 DEF Leaders!OneLeaderNone, Leaders!Tried, Results
<1>12. CASE Leaders!Reconnect
  BY <1>12 DEF Leaders!Reconnect
<1>13. CASE UNCHANGED Leaders!vars
  BY <1>13 DEF Leaders!vars
<1> QED BY <1>1, <1>2, <1>3, <1>4, <1>5, <1>6, <1>7, <1>8, <1>9, <1>10, <1>11, <1>12,
           <1>13 DEF Leaders!Next

LEMMA LeaderTypeInvariant == ASSUME Leaders!LeaderAssumption PROVE Leaders!Spec => []LeaderTypeInv
<1>1. Leaders!Init => LeaderTypeInv
  BY LeaderTypeInit
<1>2. LeaderTypeInv /\ [Leaders!Next]_Leaders!vars => LeaderTypeInv'
  BY LeaderTypeNext
<1> QED BY <1>1, <1>2, PTL DEF Leaders!Spec

\* Two majorities have a server in common.
LEMMA QuorumsMeet ==
    ASSUME Leaders!LeaderAssumption, NEW P \in SUBSET Leaders!Servers,
           NEW Q \in SUBSET Leaders!Servers, Leaders!Quorum(P), Leaders!Quorum(Q)
    PROVE  P \cap Q # {}
<1>1. IsFiniteSet(Leaders!Servers) /\ Cardinality(Leaders!Servers) = N /\ N \in Nat
  <2>1. PICK n \in Nat : n = N /\ n > 0
    BY DEF Leaders!LeaderAssumption
  <2>2. IsFiniteSet(1 .. n) /\ Cardinality(1 .. n) = n
    BY <2>1, FS_Interval
  <2> QED BY <2>1, <2>2 DEF Leaders!Servers
<1>2. IsFiniteSet(P) /\ IsFiniteSet(Q) /\ IsFiniteSet(P \cup Q)
      /\ Cardinality(P \cup Q) <= N
  BY <1>1, FS_Subset
<1>3. Cardinality(P \cup Q) = Cardinality(P) + Cardinality(Q) - Cardinality(P \cap Q)
  BY <1>2, FS_Union
<1>4. Cardinality(P) \in Nat /\ Cardinality(Q) \in Nat
  BY <1>2, FS_CardinalityType
<1>5. P \cap Q = {} => Cardinality(P \cap Q) = 0
  BY FS_EmptySet
<1> QED BY <1>1, <1>2, <1>3, <1>4, <1>5, LeadersCard DEF Leaders!Quorum

\* A set with a majority in it is one.
LEMMA QuorumGrows ==
    ASSUME Leaders!LeaderAssumption, NEW P \in SUBSET Leaders!Servers, NEW Q \in SUBSET P,
           Leaders!Quorum(Q)
    PROVE  Leaders!Quorum(P)
<1>1. IsFiniteSet(Leaders!Servers) /\ N \in Nat
  <2>1. PICK n \in Nat : n = N
    BY DEF Leaders!LeaderAssumption
  <2>2. IsFiniteSet(1 .. n)
    BY <2>1, FS_Interval
  <2> QED BY <2>1, <2>2 DEF Leaders!Servers
<1>2. IsFiniteSet(P)
  BY <1>1, FS_Subset
<1>3. IsFiniteSet(Q) /\ Cardinality(Q) <= Cardinality(P)
  BY <1>2, FS_Subset
<1>4. Cardinality(P) \in Nat /\ Cardinality(Q) \in Nat
  BY <1>2, <1>3, FS_CardinalityType
<1> QED BY <1>1, <1>3, <1>4, LeadersCard DEF Leaders!Quorum

\* What the steps of the Raft under test do to its terms: none goes back.
LEMMA RaftStep ==
    ASSUME Leaders!LeaderAssumption, LeaderTypeInv, NEW s \in Leaders!Servers,
           Leaders!Campaign(s) \/ Leaders!Elect(s) \/ Leaders!Learn(s)
    PROVE  /\ \A q \in Leaders!Servers : term[q] <= term'[q] /\ vote[q] <= vote'[q]
           /\ stable' = FALSE /\ UNCHANGED <<Leaders!harnessVars, began>>
<1> USE NetworkFacts DEF LeaderTypeInv
<1>1. stable' = FALSE /\ UNCHANGED <<Leaders!harnessVars, began>>
  BY DEF Leaders!Campaign, Leaders!Elect, Leaders!Learn, Leaders!Note
<1>2. CASE Leaders!Campaign(s)
  BY <1>1, <1>2 DEF Leaders!Campaign
<1>3. CASE Leaders!Elect(s)
  <2>1. PICK Q \in SUBSET Leaders!Servers :
           /\ \A q \in Q : vote[q] <= term[s] /\ term[q] <= term[s] + 1
           /\ term' = [q \in Leaders!Servers |-> IF q \in Q THEN term[s] + 1 ELSE term[q]]
           /\ vote' = [q \in Leaders!Servers |-> IF q \in Q THEN term[s] + 1 ELSE vote[q]]
    BY <1>3 DEF Leaders!Elect
  <2> QED BY <1>1, <2>1
<1>4. CASE Leaders!Learn(s)
  BY <1>1, <1>4 DEF Leaders!Learn
<1> QED BY <1>2, <1>3, <1>4

-----------------------------------------------------------------------------
(* checkOneLeader.                                                         *)

\* The servers that lead, and those that answered that they did, each with its term.
Elected == seen \cup {<<term[s], s>> : s \in {r \in Leaders!Servers : leads[r]}}

\* A majority has voted in that term or a later one.
VotedIn(t) == \E Q \in SUBSET Leaders!Servers : Leaders!Quorum(Q) /\ \A q \in Q : vote[q] >= t

\* One leader in a term, over the whole of the scan.
ElectionInv ==
    /\ \A a \in Elected : VotedIn(a[1])
    /\ \A a, b \in Elected : a[1] = b[1] => a = b
    /\ outcome # "twoLeaders"

LEMMA ElectionInit == ASSUME Leaders!Init PROVE ElectionInv
<1>1. Elected = {}
  BY DEF Leaders!Init, Elected
<1> QED BY <1>1 DEF ElectionInv, Leaders!Init

\* Votes only grow, so a majority that has voted stays one.
LEMMA ElectionFrame ==
    ASSUME Leaders!LeaderAssumption, LeaderTypeInv, LeaderTypeInv', ElectionInv,
           Elected' \subseteq Elected,
           \A q \in Leaders!Servers : vote[q] <= vote'[q], outcome' # "twoLeaders"
    PROVE  ElectionInv'
<1>1. ASSUME NEW a \in Elected' PROVE VotedIn(a[1])'
  <2>1. PICK Q \in SUBSET Leaders!Servers : Leaders!Quorum(Q) /\ \A q \in Q : vote[q] >= a[1]
    BY DEF ElectionInv, VotedIn
  <2>2. a[1] \in Nat
    BY DEF Elected, LeaderTypeInv
  <2>3. \A q \in Q : vote'[q] >= a[1]
    BY <2>1, <2>2 DEF LeaderTypeInv
  <2> QED BY <2>1, <2>3 DEF VotedIn, Leaders!Quorum
<1> QED BY <1>1 DEF ElectionInv

LEMMA ElectionElect ==
    ASSUME Leaders!LeaderAssumption, LeaderTypeInv, LeaderTypeInv', ElectionInv,
           NEW s \in Leaders!Servers, Leaders!Elect(s)
    PROVE  ElectionInv'
<1>0. /\ \A q \in Leaders!Servers : vote[q] <= vote'[q]
      /\ UNCHANGED <<seen, outcome>>
  BY RaftStep DEF Leaders!harnessVars
<1>1. PICK Q \in SUBSET Leaders!Servers :
        /\ s \in Q /\ Leaders!Quorum(Q)
        /\ \A q \in Q : vote[q] <= term[s] /\ term[q] <= term[s] + 1
        /\ term' = [q \in Leaders!Servers |-> IF q \in Q THEN term[s] + 1 ELSE term[q]]
        /\ vote' = [q \in Leaders!Servers |-> IF q \in Q THEN term[s] + 1 ELSE vote[q]]
        /\ leads' = [q \in Leaders!Servers |-> IF q \in Q THEN q = s ELSE leads[q]]
  BY NetworkFacts DEF Leaders!Elect
<1>2. PICK t \in Nat : t = term[s] + 1
  BY DEF LeaderTypeInv
<1>3. Elected' \subseteq Elected \cup {<<t, s>>}
  <2> SUFFICES ASSUME NEW a \in Elected', a \notin seen' PROVE a \in Elected \cup {<<t, s>>}
    BY <1>0 DEF Elected
  <2>1. PICK r \in Leaders!Servers : leads'[r] /\ a = <<term'[r], r>>
    BY DEF Elected
  <2>2. CASE r \in Q
    BY <1>1, <1>2, <2>1, <2>2
  <2>3. CASE r \notin Q
    BY <1>1, <2>1, <2>3 DEF Elected
  <2> QED BY <2>2, <2>3
<1>4. \A a \in Elected : a[1] # t
  <2> SUFFICES ASSUME NEW a \in Elected, a[1] = t PROVE FALSE
    OBVIOUS
  <2>1. PICK P \in SUBSET Leaders!Servers : Leaders!Quorum(P) /\ \A q \in P : vote[q] >= t
    BY DEF ElectionInv, VotedIn
  <2>2. PICK q \in P \cap Q : TRUE
    BY <1>1, <2>1, QuorumsMeet
  <2>3. vote[q] >= t /\ vote[q] <= term[s] /\ vote[q] \in Nat /\ term[s] \in Nat
    BY <1>1, <2>1, <2>2 DEF LeaderTypeInv
  <2> QED BY <1>2, <2>3
<1>5. VotedIn(t)'
  <2>1. \A q \in Q : vote'[q] >= t
    BY <1>1, <1>2
  <2> QED BY <1>1, <2>1 DEF VotedIn, Leaders!Quorum
<1>6. ASSUME NEW a \in Elected' PROVE VotedIn(a[1])'
  <2>1. CASE a \in Elected
    <3>1. PICK P \in SUBSET Leaders!Servers : Leaders!Quorum(P) /\ \A q \in P : vote[q] >= a[1]
      BY <2>1 DEF ElectionInv, VotedIn
    <3>2. a[1] \in Nat
      BY <2>1 DEF Elected, LeaderTypeInv
    <3>3. \A q \in P : vote'[q] >= a[1]
      BY <1>0, <3>1, <3>2 DEF LeaderTypeInv
    <3> QED BY <3>1, <3>3 DEF VotedIn, Leaders!Quorum
  <2>2. CASE a = <<t, s>>
    BY <1>5, <2>2
  <2> QED BY <1>3, <2>1, <2>2
<1>7. \A a, b \in Elected' : a[1] = b[1] => a = b
  <2> SUFFICES ASSUME NEW a \in Elected', NEW b \in Elected', a[1] = b[1] PROVE a = b
    OBVIOUS
  <2>1. (a \in Elected \/ a = <<t, s>>) /\ (b \in Elected \/ b = <<t, s>>)
    BY <1>3
  <2>2. <<t, s>>[1] = t
    OBVIOUS
  <2> QED BY <1>4, <2>1, <2>2 DEF ElectionInv
<1> QED BY <1>0, <1>6, <1>7 DEF ElectionInv

LEMMA ElectionNext ==
    ASSUME Leaders!LeaderAssumption, LeaderTypeInv, LeaderTypeInv', ElectionInv,
           [Leaders!Next]_Leaders!vars PROVE ElectionInv'
<1>1. ASSUME NEW s \in Leaders!Servers, Leaders!Campaign(s) \/ Leaders!Learn(s) PROVE ElectionInv'
  <2>1. \A q \in Leaders!Servers : q # s => term'[q] = term[q] /\ leads'[q] = leads[q]
    BY <1>1 DEF Leaders!Campaign, Leaders!Learn, LeaderTypeInv
  <2>2. ~leads'[s]
    BY <1>1 DEF Leaders!Campaign, Leaders!Learn, LeaderTypeInv
  <2>3. /\ \A q \in Leaders!Servers : vote[q] <= vote'[q]
        /\ UNCHANGED <<seen, outcome>>
    BY <1>1, RaftStep DEF Leaders!harnessVars
  <2>4. Elected' \subseteq Elected
    BY <2>1, <2>2, <2>3 DEF Elected
  <2> QED BY <2>3, <2>4, ElectionFrame DEF ElectionInv
<1>2. ASSUME NEW s \in Leaders!Servers, Leaders!Elect(s) PROVE ElectionInv'
  BY <1>2, ElectionElect
<1>3. ASSUME UNCHANGED <<Leaders!raftVars, seen>>, outcome' # "twoLeaders" PROVE ElectionInv'
  <2>1. Elected' = Elected /\ \A q \in Leaders!Servers : vote[q] <= vote'[q]
    BY <1>3 DEF Elected, Leaders!raftVars, LeaderTypeInv
  <2> QED BY <1>3, <2>1, ElectionFrame
<1>4. CASE Leaders!OneLeaderAsk
  <2>1. UNCHANGED <<Leaders!raftVars, outcome>> /\ asked \in Leaders!Servers
        /\ seen' = IF leads[asked] THEN seen \cup {<<term[asked], asked>>} ELSE seen
    BY <1>4, NetworkFacts DEF Leaders!OneLeaderAsk
  <2>2. Elected' = Elected /\ \A q \in Leaders!Servers : vote[q] <= vote'[q]
    BY <2>1 DEF Elected, Leaders!raftVars, LeaderTypeInv
  <2> QED BY <2>1, <2>2, ElectionFrame DEF ElectionInv
<1>5. CASE Leaders!OneLeaderReturn
  <2>1. ~Leaders!TwoLeaders
    BY DEF Leaders!TwoLeaders, ElectionInv, Elected
  <2>2. UNCHANGED <<Leaders!raftVars, seen>> /\ outcome' = "leader"
    BY <1>5, <2>1 DEF Leaders!OneLeaderReturn
  <2> QED BY <1>3, <2>2
<1>6. CASE Leaders!SkipDisconnected \/ Leaders!TermsAsk \/ Leaders!NoLeaderAsk \/ Leaders!Passed
           \/ Leaders!OneLeaderRetry \/ Leaders!OneLeaderNone
           \/ Leaders!Reconnect \/ UNCHANGED Leaders!vars
  <2>1. UNCHANGED <<Leaders!raftVars, seen>> /\ outcome' # "twoLeaders"
    BY <1>6 DEF Leaders!SkipDisconnected, Leaders!TermsAsk, Leaders!NoLeaderAsk, Leaders!Passed,
                Leaders!OneLeaderRetry, Leaders!OneLeaderNone,
                Leaders!Reconnect, Leaders!vars, ElectionInv
  <2> QED BY <1>3, <2>1
<1> QED BY <1>1, <1>2, <1>4, <1>5, <1>6 DEF Leaders!Next

\* checkOneLeader, which asks one server after another while they vote, never
\* finds two leaders in one term of a Raft with majority votes, however many tries
\* and terms it runs through.
THEOREM OneLeaderPerTerm == ASSUME Leaders!LeaderAssumption PROVE Leaders!Spec => []Leaders!NoFalseAlarm
<1>1. Leaders!Init => LeaderTypeInv /\ ElectionInv
  BY LeaderTypeInit, ElectionInit
<1>2. LeaderTypeInv /\ ElectionInv /\ [Leaders!Next]_Leaders!vars => LeaderTypeInv' /\ ElectionInv'
  BY LeaderTypeNext, ElectionNext
<1>3. ElectionInv => Leaders!NoFalseAlarm
  BY DEF ElectionInv, Leaders!NoFalseAlarm
<1> QED BY <1>1, <1>2, <1>3, PTL DEF Leaders!Spec

\* While nothing changes, the answers are those of the servers asked so far.
SettledAnswers ==
    check = "oneLeader" /\ stable /\ asked > 1 =>
        seen = {<<term[s], s>> : s \in {r \in connected : r < asked /\ leads[r]}}

\* The leader that is returned has the highest term of the answers.
LastReturned ==
    outcome = "leader" =>
        /\ check = "oneLeader" /\ asked > N
        /\ leader \in seen /\ \A a \in seen : a[1] <= leader[1]

SettledInv == SettledAnswers /\ LastReturned

LEMMA LastTermIs ==
    ASSUME Leaders!LeaderAssumption, LeaderTypeInv, seen # {}
    PROVE  Leaders!LastTermWithLeader \in seen /\ \A a \in seen : a[1] <= Leaders!LastTermWithLeader[1]
<1> DEFINE f == [a \in seen |-> a[1]]
<1>1. f \in [seen -> Nat] /\ MaxTerm \in Nat /\ \A a \in seen : f[a] <= MaxTerm
  BY NetworkFacts DEF LeaderTypeInv
<1>2. \E a \in seen : \A b \in seen : f[b] <= f[a]
  <2> HIDE DEF f
  <2> QED BY <1>1, Highest
<1>3. \E a \in seen : \A b \in seen : b[1] <= a[1]
  BY <1>2
<1> QED BY <1>3 DEF Leaders!LastTermWithLeader

LEMMA SettledNext ==
    ASSUME Leaders!LeaderAssumption, LeaderTypeInv, SettledInv,
           [Leaders!Next]_Leaders!vars PROVE SettledInv'
<1> USE NetworkFacts
<1>0. asked \in Nat /\ asked >= 1 /\ asked <= N + 1 /\ (asked = 1 => outcome = "none" /\ seen = {})
      /\ \A s \in Leaders!Servers : s \in Nat /\ s >= 1 /\ s <= N
  BY DEF LeaderTypeInv, Leaders!Servers
<1>1. ASSUME NEW s \in Leaders!Servers,
             Leaders!Campaign(s) \/ Leaders!Elect(s) \/ Leaders!Learn(s) PROVE SettledInv'
  <2>1. stable' = FALSE /\ UNCHANGED <<check, asked, seen, outcome, leader>>
    BY <1>1, RaftStep DEF Leaders!harnessVars
  <2> QED BY <2>1 DEF SettledInv, SettledAnswers, LastReturned
<1>2. CASE Leaders!SkipDisconnected
  <2>1. /\ UNCHANGED <<Leaders!raftVars, connected, check, seen, outcome, leader>> /\ asked' = asked + 1 /\ asked <= N
        /\ asked \notin connected /\ outcome = "none" /\ (asked > 1 /\ stable' => stable)
    <3>1. asked > 1 => ~(asked = 1)
      BY <1>0
    <3>2. stable' = (asked = 1 \/ stable)
      BY <1>2 DEF Leaders!SkipDisconnected
    <3>3. asked > 1 /\ stable' => stable
      BY <3>1, <3>2
    <3> QED BY <1>2, <3>3 DEF Leaders!SkipDisconnected, Leaders!Asking
  <2>2. {r \in connected : r < asked + 1 /\ leads[r]} = {r \in connected : r < asked /\ leads[r]}
    BY <1>0, <2>1
  <2>3. asked = 1 => {r \in connected : r < asked /\ leads[r]} = {}
    BY <1>0
  <2>4. SettledAnswers'
    BY <1>0, <2>1, <2>2, <2>3 DEF SettledInv, SettledAnswers, Leaders!raftVars
  <2> QED BY <2>1, <2>4 DEF SettledInv, LastReturned
<1>3. CASE Leaders!OneLeaderAsk
  <2>1. /\ UNCHANGED <<Leaders!raftVars, connected, check, outcome, leader>> /\ asked' = asked + 1 /\ asked <= N
        /\ asked \in connected /\ outcome = "none" /\ check = "oneLeader" /\ (asked > 1 /\ stable' => stable)
        /\ seen' = IF leads[asked] THEN seen \cup {<<term[asked], asked>>} ELSE seen
    <3>1. asked > 1 => ~(asked = 1)
      BY <1>0
    <3>2. stable' = (asked = 1 \/ stable)
      BY <1>3 DEF Leaders!OneLeaderAsk
    <3>3. asked > 1 /\ stable' => stable
      BY <3>1, <3>2
    <3> QED BY <1>3, <3>3 DEF Leaders!OneLeaderAsk, Leaders!Asking
  <2>2. {r \in connected : r < asked + 1 /\ leads[r]}
          = {r \in connected : r < asked /\ leads[r]} \cup (IF leads[asked] THEN {asked} ELSE {})
    <3>1. \A r \in connected : r < asked + 1 <=> r < asked \/ r = asked
      BY <1>0
    <3>2. CASE leads[asked]
      BY <2>1, <3>1, <3>2
    <3>3. CASE ~leads[asked]
      BY <2>1, <3>1, <3>3
    <3> QED BY <3>2, <3>3
  <2>3. stable' => seen = {<<term[s], s>> : s \in {r \in connected : r < asked /\ leads[r]}}
    <3>1. CASE asked = 1
      <4>1. {r \in connected : r < asked /\ leads[r]} = {}
        BY <1>0, <3>1
      <4> QED BY <1>0, <3>1, <4>1
    <3>2. CASE asked > 1
      BY <2>1, <3>2 DEF SettledInv, SettledAnswers
    <3> QED BY <1>0, <3>1, <3>2
  <2>4. SettledAnswers'
    <3> SUFFICES ASSUME stable'
                 PROVE  seen' = {<<term[s], s>> : s \in {r \in connected : r < asked + 1 /\ leads[r]}}
      BY <2>1 DEF SettledAnswers, Leaders!raftVars
    <3>1. seen = {<<term[s], s>> : s \in {r \in connected : r < asked /\ leads[r]}}
      BY <2>3
    <3>2. CASE leads[asked]
      BY <2>1, <2>2, <3>1, <3>2
    <3>3. CASE ~leads[asked]
      BY <2>1, <2>2, <3>1, <3>3
    <3> QED BY <3>2, <3>3
  <2> QED BY <2>1, <2>4 DEF SettledInv, LastReturned
<1>4. CASE Leaders!OneLeaderReturn
  <2>1. UNCHANGED <<Leaders!raftVars, connected, check, asked, seen, stable>> /\ leader' = Leaders!LastTermWithLeader
        /\ seen # {} /\ check = "oneLeader" /\ asked > N
    BY <1>4 DEF Leaders!OneLeaderReturn, Leaders!Tried
  <2>2. leader' \in seen /\ \A a \in seen : a[1] <= leader'[1]
    BY <2>1, LastTermIs
  <2> QED BY <2>1, <2>2 DEF SettledInv, SettledAnswers, LastReturned, Leaders!raftVars
<1>5. CASE Leaders!OneLeaderRetry
  BY <1>0, <1>5 DEF Leaders!OneLeaderRetry, Leaders!Tried, SettledInv, SettledAnswers, LastReturned
<1>6. CASE Leaders!OneLeaderNone
  BY <1>6 DEF Leaders!OneLeaderNone, Leaders!Tried, SettledInv, SettledAnswers, LastReturned,
              Leaders!raftVars
<1>7. CASE Leaders!TermsAsk \/ Leaders!NoLeaderAsk
  BY <1>7 DEF Leaders!TermsAsk, Leaders!NoLeaderAsk, SettledInv, SettledAnswers, LastReturned,
              Leaders!Asking
<1>8. CASE Leaders!Passed
  BY <1>8 DEF Leaders!Passed, SettledInv, SettledAnswers, LastReturned
<1>9. CASE Leaders!Reconnect
  BY <1>0, <1>9 DEF Leaders!Reconnect, SettledInv, SettledAnswers, LastReturned
<1>10. CASE UNCHANGED Leaders!vars
  BY <1>10 DEF Leaders!vars, Leaders!raftVars, SettledInv, SettledAnswers, LastReturned
<1> QED BY <1>1, <1>2, <1>3, <1>4, <1>5, <1>6, <1>7, <1>8, <1>9, <1>10 DEF Leaders!Next

\* When no term and no leader has changed since its last try began, the answer of
\* checkOneLeader is a server that leads, in the highest term of all connected
\* servers that lead.
THEOREM LatestLeaderIsReturned == ASSUME Leaders!LeaderAssumption PROVE Leaders!Spec => []Leaders!SettledLeader
<1>1. Leaders!Init => LeaderTypeInv /\ SettledInv
  BY LeaderTypeInit DEF Leaders!Init, SettledInv, SettledAnswers, LastReturned
<1>2. LeaderTypeInv /\ SettledInv /\ [Leaders!Next]_Leaders!vars => LeaderTypeInv' /\ SettledInv'
  BY LeaderTypeNext, SettledNext
<1>3. ASSUME LeaderTypeInv, SettledInv PROVE Leaders!SettledLeader
  <2> SUFFICES ASSUME outcome = "leader", stable
               PROVE  /\ leads[leader[2]] /\ term[leader[2]] = leader[1]
                      /\ \A s \in connected : leads[s] => term[s] <= leader[1]
    BY DEF Leaders!SettledLeader
  <2>1. /\ check = "oneLeader" /\ asked > N /\ asked > 1 /\ leader \in seen /\ \A a \in seen : a[1] <= leader[1]
    BY <1>3, NetworkFacts DEF SettledInv, LastReturned, LeaderTypeInv
  <2>2. seen = {<<term[s], s>> : s \in {r \in connected : r < asked /\ leads[r]}}
    BY <1>3, <2>1 DEF SettledInv, SettledAnswers
  <2>3. \A s \in connected : s < asked
    BY <1>3, <2>1, NetworkFacts DEF Leaders!Servers, LeaderTypeInv
  <2>4. \A s \in connected : leads[s] => <<term[s], s>> \in seen
    BY <2>2, <2>3
  <2>5. PICK s \in {r \in connected : r < asked /\ leads[r]} : leader = <<term[s], s>>
    BY <2>1, <2>2
  <2>6. leads[leader[2]] /\ term[leader[2]] = leader[1]
    BY <2>5
  <2>7. \A r \in connected : leads[r] => term[r] <= leader[1]
    BY <2>1, <2>4
  <2> QED BY <2>6, <2>7
<1>4. LeaderTypeInv /\ SettledInv => Leaders!SettledLeader
  BY <1>3
<1> QED BY <1>1, <1>2, <1>4, PTL DEF Leaders!Spec

-----------------------------------------------------------------------------
(* checkTerms and checkNoLeader.                                           *)

\* The servers asked have reached the term they answered; the highest term of the
\* beginning is not beyond it, unless that server is still to be asked.
TermsScan ==
    check = "terms" /\ outcome \in {"none", "ok"} =>
        /\ checkTerm = 0 => began = 0 /\ \A s \in connected : s >= asked
        /\ checkTerm # 0 =>
             /\ \A s \in connected : s < asked => checkTerm <= term[s]
             /\ began <= checkTerm \/ \E s \in connected : s >= asked /\ began <= term[s]

PassedAtEnd == outcome = "ok" => asked > N

TermsInv == TermsScan /\ PassedAtEnd

LEMMA TermsNext ==
    ASSUME Leaders!LeaderAssumption, LeaderTypeInv, TermsInv,
           [Leaders!Next]_Leaders!vars PROVE TermsInv'
<1> USE NetworkFacts
<1>0. /\ asked \in Nat /\ asked >= 1 /\ asked <= N + 1 /\ (asked = 1 => outcome = "none")
      /\ \A s \in Leaders!Servers : s \in Nat /\ s >= 1 /\ s <= N /\ term[s] \in Nat /\ term[s] >= 1
      /\ checkTerm \in Nat /\ began \in Nat
  BY DEF LeaderTypeInv, Leaders!Servers
<1>1. ASSUME NEW s \in Leaders!Servers,
             Leaders!Campaign(s) \/ Leaders!Elect(s) \/ Leaders!Learn(s) PROVE TermsInv'
  <2>1. /\ \A q \in Leaders!Servers : term[q] <= term'[q] /\ term'[q] \in Nat
        /\ UNCHANGED <<connected, check, asked, checkTerm, outcome, began>>
    <3>1. LeaderTypeInv'
      BY LeaderTypeNext
    <3>2. \A q \in Leaders!Servers : term'[q] \in Nat
      BY <3>1 DEF LeaderTypeInv
    <3>3. \A q \in Leaders!Servers : term[q] <= term'[q]
      BY <1>1, RaftStep
    <3>4. UNCHANGED <<connected, check, asked, checkTerm, outcome, began>>
      BY <1>1, RaftStep DEF Leaders!harnessVars
    <3> QED BY <3>2, <3>3, <3>4
  <2>2. TermsScan'
    <3>1. \A q \in connected : /\ checkTerm <= term[q] => checkTerm <= term'[q]
                               /\ began <= term[q] => began <= term'[q]
      BY <1>0, <2>1
    <3> QED BY <2>1, <3>1 DEF TermsInv, TermsScan
  <2> QED BY <2>1, <2>2 DEF TermsInv, PassedAtEnd
<1>2. CASE Leaders!SkipDisconnected
  <2>1. /\ UNCHANGED <<Leaders!raftVars, connected, check, checkTerm, outcome, began>> /\ asked' = asked + 1
        /\ asked \notin connected /\ outcome = "none"
    BY <1>2 DEF Leaders!SkipDisconnected, Leaders!Asking
  <2>2. \A s \in connected : (s >= asked + 1 <=> s >= asked) /\ (s < asked + 1 <=> s < asked)
    BY <1>0, <2>1
  <2> QED BY <2>1, <2>2 DEF TermsInv, TermsScan, PassedAtEnd, Leaders!raftVars
<1>3. CASE Leaders!TermsAsk
  <2>1. /\ UNCHANGED <<Leaders!raftVars, connected, check>> /\ asked' = asked + 1 /\ asked \in connected /\ outcome = "none"
        /\ began' = IF checkTerm = 0 THEN Leaders!HighestTerm ELSE began
        /\ checkTerm' = IF checkTerm = 0 THEN term[asked] ELSE checkTerm
        /\ outcome' = IF checkTerm' # term[asked] THEN "disagree" ELSE "none"
        /\ check = "terms"
    BY <1>3 DEF Leaders!TermsAsk, Leaders!Asking
  <2>2. CASE outcome' = "none"
    <3>1. checkTerm' = term[asked] /\ checkTerm' # 0
      BY <1>0, <2>1, <2>2
    <3>2. \A s \in connected : s < asked + 1 => checkTerm' <= term[s]
      <4> SUFFICES ASSUME NEW s \in connected, s < asked + 1 PROVE checkTerm' <= term[s]
        OBVIOUS
      <4>1. CASE s = asked
        BY <1>0, <3>1, <4>1
      <4>2. CASE s < asked
        BY <1>0, <2>1, <4>2 DEF TermsInv, TermsScan
      <4> QED BY <1>0, <4>1, <4>2
    <3>3. began' <= checkTerm' \/ \E s \in connected : s >= asked + 1 /\ began' <= term[s]
      <4>1. PICK s \in connected : (s >= asked /\ began' <= term[s]) \/ began' <= checkTerm'
        <5>1. CASE checkTerm = 0
          <6>1. PICK s \in connected : Leaders!HighestTerm = term[s]
            BY <2>1, HighestTermIs
          <6>2. s >= asked /\ began' = term[s]
            BY <2>1, <5>1, <6>1 DEF TermsInv, TermsScan
          <6> QED BY <1>0, <6>2
        <5>2. CASE checkTerm # 0
          BY <2>1, <5>2 DEF TermsInv, TermsScan
        <5> QED BY <5>1, <5>2
      <4>2. CASE s = asked
        BY <3>1, <4>1, <4>2
      <4> QED BY <1>0, <4>1, <4>2
    <3> QED BY <2>1, <2>2, <3>1, <3>2, <3>3 DEF TermsInv, TermsScan, PassedAtEnd, Leaders!raftVars
  <2>3. CASE outcome' = "disagree"
    BY <2>3 DEF TermsInv, TermsScan, PassedAtEnd
  <2> QED BY <2>1, <2>2, <2>3
<1>4. CASE Leaders!Passed
  BY <1>4 DEF Leaders!Passed, TermsInv, TermsScan, PassedAtEnd, Leaders!raftVars
<1>5. CASE Leaders!Reconnect
  <2>1. UNCHANGED <<check, asked, checkTerm, outcome, began>> /\ asked = 1 /\ checkTerm = 0 /\ connected' \in Networks
    BY <1>5 DEF Leaders!Reconnect
  <2>2. \A s \in connected' : s >= asked
    BY <1>0, <2>1
  <2> QED BY <1>0, <2>1, <2>2 DEF TermsInv, TermsScan, PassedAtEnd
<1>6. CASE Leaders!OneLeaderAsk \/ Leaders!OneLeaderReturn
           \/ Leaders!OneLeaderRetry \/ Leaders!OneLeaderNone \/ Leaders!NoLeaderAsk
  BY <1>6 DEF Leaders!OneLeaderAsk, Leaders!OneLeaderReturn, Leaders!OneLeaderRetry,
              Leaders!OneLeaderNone, Leaders!NoLeaderAsk, Leaders!Asking, Leaders!Tried,
              TermsInv, TermsScan, PassedAtEnd
<1>7. CASE UNCHANGED Leaders!vars
  BY <1>7 DEF Leaders!vars, Leaders!raftVars, TermsInv, TermsScan, PassedAtEnd
<1> QED BY <1>1, <1>2, <1>3, <1>4, <1>5, <1>6, <1>7 DEF Leaders!Next

\* The term that checkTerms returns lies between the terms of the connected servers
\* at its first and at its last question.
THEOREM TermsAreBracketed == ASSUME Leaders!LeaderAssumption PROVE Leaders!Spec => []Leaders!TermsBracketed
<1>1. Leaders!Init => LeaderTypeInv /\ TermsInv
  <2> SUFFICES ASSUME Leaders!Init PROVE LeaderTypeInv /\ TermsInv
    OBVIOUS
  <2>1. LeaderTypeInv
    BY LeaderTypeInit
  <2>2. \A s \in connected : s >= 1
    BY <2>1, NetworkFacts DEF Leaders!Servers
  <2> QED BY <2>1, <2>2 DEF Leaders!Init, TermsInv, TermsScan, PassedAtEnd
<1>2. LeaderTypeInv /\ TermsInv /\ [Leaders!Next]_Leaders!vars => LeaderTypeInv' /\ TermsInv'
  BY LeaderTypeNext, TermsNext
<1>3. ASSUME LeaderTypeInv, TermsInv PROVE Leaders!TermsBracketed
  <2> SUFFICES ASSUME check = "terms", outcome = "ok"
               PROVE  began <= checkTerm /\ \A s \in connected : checkTerm <= term[s]
    BY DEF Leaders!TermsBracketed
  <2>1. asked > N /\ asked \in Nat /\ N \in Nat /\ \A s \in connected : s \in Nat /\ s < asked /\ ~(s >= asked)
    BY <1>3, NetworkFacts DEF TermsInv, PassedAtEnd, LeaderTypeInv, Leaders!Servers
  <2>2. CASE checkTerm = 0
    BY <1>3, <2>1, <2>2 DEF TermsInv, TermsScan
  <2>3. CASE checkTerm # 0
    BY <1>3, <2>1, <2>3 DEF TermsInv, TermsScan
  <2> QED BY <2>2, <2>3
<1>4. LeaderTypeInv /\ TermsInv => Leaders!TermsBracketed
  BY <1>3
<1> QED BY <1>1, <1>2, <1>4, PTL DEF Leaders!Spec

\* Without a connected majority a server that does not lead will not.
NoLeaderScan ==
    check = "noLeader" /\ outcome \in {"none", "ok"} /\ ~Leaders!Quorum(connected) =>
        \A s \in connected : s < asked => ~leads[s]

NoLeaderInv == NoLeaderScan /\ PassedAtEnd

LEMMA NoLeaderNext ==
    ASSUME Leaders!LeaderAssumption, LeaderTypeInv, NoLeaderInv,
           [Leaders!Next]_Leaders!vars PROVE NoLeaderInv'
<1> USE NetworkFacts
<1>0. /\ asked \in Nat /\ asked >= 1 /\ asked <= N + 1 /\ (asked = 1 => outcome = "none")
      /\ \A s \in Leaders!Servers : s \in Nat /\ s >= 1 /\ s <= N
  BY DEF LeaderTypeInv, Leaders!Servers
<1>1. ASSUME NEW s \in Leaders!Servers, Leaders!Campaign(s) \/ Leaders!Learn(s) PROVE NoLeaderInv'
  <2>1. UNCHANGED <<connected, check, asked, outcome>>
    BY <1>1, RaftStep DEF Leaders!harnessVars
  <2>2. \A q \in Leaders!Servers : leads'[q] => leads[q]
    BY <1>1 DEF Leaders!Campaign, Leaders!Learn, LeaderTypeInv
  <2> QED BY <2>1, <2>2 DEF NoLeaderInv, NoLeaderScan, PassedAtEnd, Leaders!Quorum
<1>2. ASSUME NEW s \in Leaders!Servers, Leaders!Elect(s) PROVE NoLeaderInv'
  <2>1. UNCHANGED <<connected, check, asked, outcome>>
    BY <1>2, RaftStep DEF Leaders!harnessVars
  <2>2. Leaders!Quorum(connected)
    BY <1>2, QuorumGrows DEF Leaders!Elect
  <2> QED BY <2>1, <2>2 DEF NoLeaderInv, NoLeaderScan, PassedAtEnd, Leaders!Quorum
<1>3. CASE Leaders!SkipDisconnected \/ Leaders!NoLeaderAsk
  <2>1. /\ UNCHANGED <<Leaders!raftVars, connected, check>> /\ asked' = asked + 1 /\ outcome = "none"
        /\ outcome' \in {"none", "aLeader"}
        /\ asked \in connected /\ check = "noLeader" /\ outcome' = "none" => ~leads[asked]
    BY <1>3 DEF Leaders!SkipDisconnected, Leaders!NoLeaderAsk, Leaders!Asking
  <2>2. \A s \in connected : s < asked + 1 => s < asked \/ s = asked
    BY <1>0
  <2> QED BY <2>1, <2>2 DEF NoLeaderInv, NoLeaderScan, PassedAtEnd, Leaders!Quorum, Leaders!raftVars
<1>4. CASE Leaders!Passed
  BY <1>4 DEF Leaders!Passed, NoLeaderInv, NoLeaderScan, PassedAtEnd, Leaders!Quorum,
              Leaders!raftVars
<1>5. CASE Leaders!Reconnect
  <2>1. UNCHANGED <<asked, outcome>> /\ asked = 1 /\ connected' \in Networks
    BY <1>5 DEF Leaders!Reconnect
  <2>2. \A s \in connected' : ~(s < asked)
    BY <1>0, <2>1
  <2> QED BY <1>0, <2>1, <2>2 DEF NoLeaderInv, NoLeaderScan, PassedAtEnd
<1>6. CASE Leaders!OneLeaderAsk \/ Leaders!OneLeaderReturn
           \/ Leaders!OneLeaderRetry \/ Leaders!OneLeaderNone \/ Leaders!TermsAsk
  BY <1>6 DEF Leaders!OneLeaderAsk, Leaders!OneLeaderReturn, Leaders!OneLeaderRetry,
              Leaders!OneLeaderNone, Leaders!TermsAsk, Leaders!Asking, Leaders!Tried,
              NoLeaderInv, NoLeaderScan, PassedAtEnd
<1>7. CASE UNCHANGED Leaders!vars
  BY <1>7 DEF Leaders!vars, Leaders!raftVars, NoLeaderInv, NoLeaderScan, PassedAtEnd, Leaders!Quorum
<1> QED BY <1>1, <1>2, <1>3, <1>4, <1>5, <1>6, <1>7 DEF Leaders!Next

\* When checkNoLeader has passed and no majority is connected, no connected server
\* leads, although they were asked at different moments.
THEOREM NoLeaderStays == ASSUME Leaders!LeaderAssumption PROVE Leaders!Spec => []Leaders!NoLeaderIsTrue
<1>1. Leaders!Init => LeaderTypeInv /\ NoLeaderInv
  <2> SUFFICES ASSUME Leaders!Init PROVE LeaderTypeInv /\ NoLeaderInv
    OBVIOUS
  <2>1. LeaderTypeInv
    BY LeaderTypeInit
  <2>2. \A s \in connected : ~(s < 1)
    BY <2>1, NetworkFacts DEF Leaders!Servers
  <2> QED BY <2>1, <2>2 DEF Leaders!Init, NoLeaderInv, NoLeaderScan, PassedAtEnd
<1>2. LeaderTypeInv /\ NoLeaderInv /\ [Leaders!Next]_Leaders!vars => LeaderTypeInv' /\ NoLeaderInv'
  BY LeaderTypeNext, NoLeaderNext
<1>3. ASSUME LeaderTypeInv, NoLeaderInv PROVE Leaders!NoLeaderIsTrue
  <2>1. outcome = "ok" => \A s \in connected : s < asked
    BY <1>3, NetworkFacts DEF NoLeaderInv, PassedAtEnd, LeaderTypeInv, Leaders!Servers
  <2> QED BY <1>3, <2>1 DEF NoLeaderInv, NoLeaderScan, Leaders!NoLeaderIsTrue
<1>4. LeaderTypeInv /\ NoLeaderInv => Leaders!NoLeaderIsTrue
  BY <1>3
<1> QED BY <1>1, <1>2, <1>4, PTL DEF Leaders!Spec

-----------------------------------------------------------------------------
(* NParallel.                                                              *)

\* The variables are functions on the workers, which TypeOK leaves open.
WorkerFunctions ==
    /\ pc \in [Workers -> {"idle", "scan", "count", "sleep"}]
    /\ tasks \in [Workers -> 0 .. MaxTasks]
    /\ names \in [Workers -> SUBSET Workers]
    /\ counted \in [Workers -> SUBSET Workers]
    /\ inCall \in [Workers -> SUBSET Workers]
    /\ files \subseteq Workers

\* What is still to be counted, of the processes that are alive, was inside its
\* call when the directory was read.
NamesParallel ==
    \A w \in Workers : pc[w] = "count" => names[w] \cap alive \subseteq inCall[w]

\* ret starts at zero.
NoneYet == \A w \in Workers : pc[w] = "scan" => counted[w] = {}

\* A worker that sleeps has looked at all the names.
AllLookedAt == \A w \in Workers : pc[w] = "sleep" => names[w] = {}

Looked(w) == pc[w] \in {"count", "sleep"}

\* Of two live workers that have read the directory, the later one found both
\* files there, and has counted them or will.
LaterSeesBoth ==
    \A v, w \in alive :
        v # w /\ Looked(v) /\ Looked(w) =>
            \/ {v, w} \subseteq names[v] \cup counted[v]
            \/ {v, w} \subseteq names[w] \cup counted[w]

ParInv ==
    /\ Timing!TypeOK /\ WorkerFunctions
    /\ NamesParallel /\ Timing!CountsOnlyParallel
    /\ NoneYet /\ AllLookedAt /\ LaterSeesBoth

LEMMA ParInit == ASSUME Timing!TasksAssumption, Timing!Init PROVE ParInv
  BY DEF Timing!TasksAssumption, Timing!Init, ParInv, Timing!TypeOK, WorkerFunctions,
         NamesParallel, Timing!CountsOnlyParallel,
         NoneYet, AllLookedAt, LaterSeesBoth, Looked

LEMMA ParNext == ASSUME Timing!TasksAssumption, ParInv, [Timing!Next]_Timing!vars PROVE ParInv'
<1> USE DEF Timing!TasksAssumption, ParInv, Timing!TypeOK, WorkerFunctions, NamesParallel,
            Timing!CountsOnlyParallel,
         NoneYet, AllLookedAt, LaterSeesBoth, Looked
<1>1. ASSUME NEW w \in Workers, Timing!WriteFile(w) PROVE ParInv'
  BY <1>1 DEF Timing!WriteFile
<1>2. ASSUME NEW w \in Workers, Timing!Readdirnames(w) PROVE ParInv'
  <2>1. Timing!TypeOK' /\ WorkerFunctions' /\ AllLookedAt' /\ NoneYet'
    BY <1>2 DEF Timing!Readdirnames, Timing!Calling
  <2>2. /\ names'[w] = files /\ inCall'[w] = Timing!Calling /\ pc'[w] = "count" /\ w \in files
        /\ \A x \in alive : pc[x] # "idle" => x \in files
        /\ \A x \in Workers : x # w => names'[x] = names[x] /\ inCall'[x] = inCall[x] /\ pc'[x] = pc[x]
        /\ counted' = counted /\ alive' = alive /\ counted[w] = {}
    BY <1>2 DEF Timing!Readdirnames
  <2>3. NamesParallel' /\ Timing!CountsOnlyParallel'
    BY <2>2 DEF Timing!Calling
  <2>4. LaterSeesBoth'
    BY <2>2
  <2> QED BY <2>1, <2>3, <2>4
<1>3. ASSUME NEW w \in Workers, Timing!Count(w) PROVE ParInv'
  BY <1>3 DEF Timing!Count, Timing!KillZero
<1>4. ASSUME NEW w \in Workers, Timing!Sleep(w) PROVE ParInv'
  BY <1>4 DEF Timing!Sleep
<1>5. ASSUME NEW w \in Workers, Timing!RemoveFile(w) PROVE ParInv'
  BY <1>5 DEF Timing!RemoveFile
<1>6. ASSUME NEW w \in Workers, Timing!Crash(w) PROVE ParInv'
  BY <1>6 DEF Timing!Crash
<1>7. CASE UNCHANGED Timing!vars
  BY <1>7 DEF Timing!vars
<1> QED BY <1>1, <1>2, <1>3, <1>4, <1>5, <1>6, <1>7 DEF Timing!Next

LEMMA ParInvariant == ASSUME Timing!TasksAssumption PROVE Timing!Spec => []ParInv
<1>1. Timing!Init => ParInv
  BY ParInit
<1>2. ParInv /\ [Timing!Next]_Timing!vars => ParInv'
  BY ParNext
<1> QED BY <1>1, <1>2, PTL DEF Timing!Spec

\* The test for parallelism misses no overlap, whoever is killed when: of two
\* live workers that sleep in nparallel at the same time, the one that read the
\* directory later has counted both.
THEOREM OverlapSeen == ASSUME Timing!TasksAssumption PROVE Timing!Spec => []Timing!OverlapIsSeen
<1>1. ParInv => Timing!OverlapIsSeen
  BY DEF ParInv, Timing!TypeOK, WorkerFunctions, AllLookedAt, LaterSeesBoth, Looked,
         Timing!OverlapIsSeen
<1> QED BY <1>1, ParInvariant, PTL

\* It reports no parallelism that was not there: a worker that was killed and left
\* its file, or that is between two tasks, is in nobody's count.
THEOREM OnlyParallelCounted == ASSUME Timing!TasksAssumption PROVE Timing!Spec => []Timing!CountsOnlyParallel
<1>1. ParInv => Timing!CountsOnlyParallel
  BY DEF ParInv
<1> QED BY <1>1, ParInvariant, PTL
=============================================================================
