---------------------------- MODULE CheckParallel ----------------------------
(***************************************************************************)
(* checkParallel of 6.5840/src/porcupine/checker.go: one goroutine per     *)
(* partition of the history, a buffered channel of results, a kill flag    *)
(* that the goroutines poll, and a timer.  What a goroutine answers is     *)
(* what CheckSingle shows: whether its partition is linearizable, or false *)
(* when it was killed.                                                     *)
(***************************************************************************)
EXTENDS Naturals, Sequences, FiniteSets

CONSTANT Partitions  \* the partitions that Model.Partition makes of the history

ASSUME PartitionsAssumption == IsFiniteSet(Partitions)

VARIABLES
  legal,        \* the partitions that are linearizable
  computeInfo,  \* the parameter: the caller wants partial linearizations
  timeout,      \* the parameter: whether it is positive
  worker,       \* per partition: where its goroutine is
  answer,       \* per partition: what checkSingle has returned
  longest,      \* the partitions whose element of longest has been written
  results,      \* the channel of results
  kill,         \* the kill flag
  main,         \* checkParallel itself: "select", "drain", "info", "done"
  ok, timedOut, count,
  result        \* what checkParallel returns, or "none"

params == <<legal, computeInfo, timeout>>
vars   == <<params, worker, answer, longest, results, kill, main, ok, timedOut, count, result>>

Init ==
  /\ legal \in SUBSET Partitions
  /\ computeInfo \in BOOLEAN
  /\ timeout \in BOOLEAN
  /\ worker = [p \in Partitions |-> "check"]
  /\ answer = [p \in Partitions |-> FALSE]
  /\ longest = {}
  /\ results = <<>>
  /\ kill = FALSE
  /\ main = "select"
  /\ ok = TRUE /\ timedOut = FALSE /\ count = 0
  /\ result = "none"

-----------------------------------------------------------------------------
(* The goroutine of a partition.                                           *)

\* checkSingle runs to its end, or sees the kill flag.
Check(p) ==
  /\ worker[p] = "check"
  /\ \/ answer' = [answer EXCEPT ![p] = p \in legal]
     \/ kill /\ answer' = [answer EXCEPT ![p] = FALSE]
  /\ worker' = [worker EXCEPT ![p] = "write"]
  /\ UNCHANGED <<params, longest, results, kill, main, ok, timedOut, count, result>>

Write(p) ==
  /\ worker[p] = "write"
  /\ longest' = longest \cup {p}
  /\ worker' = [worker EXCEPT ![p] = "send"]
  /\ UNCHANGED <<params, answer, results, kill, main, ok, timedOut, count, result>>

\* Mutant: room for one result.
ChanCapOne == 1

\* make(chan bool, len(history))
ChanCap == Cardinality(Partitions)

Send(p) ==
  /\ worker[p] = "send"
  /\ Len(results) < ChanCap
  /\ results' = Append(results, answer[p])
  /\ worker' = [worker EXCEPT ![p] = "end"]
  /\ UNCHANGED <<params, answer, longest, kill, main, ok, timedOut, count, result>>

Worker(p) == Check(p) \/ Write(p) \/ Send(p)

-----------------------------------------------------------------------------
(* checkParallel.                                                          *)

\* Mutant: the partial linearizations are read at once.
AfterLoopRead == IF computeInfo THEN "info" ELSE "done"

AfterLoop == IF computeInfo THEN "drain" ELSE "done"

\* Mutant: a result of its own for a timeout.
VerdictTimeout(good, late) == IF ~good THEN "Illegal" ELSE IF late THEN "Timeout" ELSE "Ok"

Verdict(good, late) == IF ~good THEN "Illegal" ELSE IF late THEN "Unknown" ELSE "Ok"

\* Without info to compute, leaving the loop is returning.
Leave ==
  /\ main' = AfterLoop
  /\ result' = IF computeInfo THEN result ELSE Verdict(ok', timedOut')

\* Mutant: the last result alone decides.
CombineLast(res) == res

Combine(res) == ok /\ res

\* Mutant: off by one.
AllInOffByOne(n) == n > Cardinality(Partitions)

AllIn(n) == n >= Cardinality(Partitions)

\* case result := <-results.  A false result ends the loop unless the partial
\* linearizations of every partition are wanted.
Receive ==
  /\ main = "select"
  /\ results # <<>>
  /\ results' = Tail(results)
  /\ count' = count + 1
  /\ ok' = Combine(results[1])
  /\ timedOut' = timedOut
  /\ LET illegal == ~ok' /\ ~computeInfo
     IN /\ kill' = (kill \/ illegal)
        /\ IF illegal \/ AllIn(count') THEN Leave ELSE UNCHANGED <<main, result>>
  /\ UNCHANGED <<params, worker, answer, longest>>

\* case <-timeoutChan: the timer may fire at any moment, if there is one.
Timeout ==
  /\ main = "select"
  /\ timeout
  /\ timedOut' = TRUE
  /\ ok' = ok
  /\ kill' = TRUE
  /\ Leave
  /\ UNCHANGED <<params, worker, answer, longest, results, count>>

\* Wait for the goroutines that are left; what they answer is thrown away.
Drain ==
  /\ main = "drain"
  /\ \/ /\ count < Cardinality(Partitions)
        /\ results # <<>>
        /\ results' = Tail(results)
        /\ count' = count + 1
        /\ UNCHANGED main
     \/ /\ count >= Cardinality(Partitions)
        /\ main' = "info"
        /\ UNCHANGED <<results, count>>
  /\ UNCHANGED <<params, worker, answer, longest, kill, ok, timedOut, result>>

\* The partial linearizations are read out of longest, and the call returns.
ComputeInfo ==
  /\ main = "info"
  /\ main' = "done"
  /\ result' = Verdict(ok, timedOut)
  /\ UNCHANGED <<params, worker, answer, longest, results, kill, ok, timedOut, count>>

Main == Receive \/ Timeout \/ Drain \/ ComputeInfo

Next == (\E p \in Partitions : Worker(p)) \/ Main

\* Every goroutine is scheduled, and checkSingle ends; the timer may be late.
Spec ==
  /\ Init /\ [][Next]_vars
  /\ \A p \in Partitions : WF_vars(Worker(p))
  /\ WF_vars(Receive \/ Drain \/ ComputeInfo)

-----------------------------------------------------------------------------
(* Properties.                                                             *)

\* Every variable has its type.
TypeOK ==
  /\ legal \subseteq Partitions /\ longest \subseteq Partitions
  /\ worker \in [Partitions -> {"check", "write", "send", "end"}]
  /\ answer \in [Partitions -> BOOLEAN]
  /\ results \in Seq(BOOLEAN) /\ Len(results) <= Cardinality(Partitions)
  /\ main \in {"select", "drain", "info", "done"}
  /\ {computeInfo, timeout, kill, ok, timedOut} \subseteq BOOLEAN
  /\ count \in 0 .. Cardinality(Partitions)
  /\ result \in {"none", "Unknown", "Ok", "Illegal"}

\* "Ok" and "Illegal" are never wrong: the false answers of goroutines that
\* were killed, on a timeout or after another answer, never count.
VerdictIsRight ==
  /\ result = "Ok" => legal = Partitions
  /\ result = "Illegal" => legal # Partitions
  /\ result = "Unknown" => timeout

\* "make sure we've waited for all goroutines to finish, otherwise we might
\* race on access to longest[]": when longest is read, nobody will write it.
NoRaceOnLongest ==
  main = "info" => \A p \in Partitions : worker[p] \notin {"check", "write"}

\* No goroutine is left behind blocked on the channel, also when the caller
\* has stopped receiving.
WorkersEnd == <>(\A p \in Partitions : worker[p] = "end")

\* "a history is linearizable if and only if each partition is linearizable":
\* when each one is, and no timeout was asked for, the call returns Ok.
AllLegalIsOk == (legal = Partitions /\ ~timeout) ~> (result = "Ok")

\* The call returns.
CheckReturns == <>(main = "done")
=============================================================================
