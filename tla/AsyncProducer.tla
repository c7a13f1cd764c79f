--------------------------- MODULE AsyncProducer ---------------------------
(***************************************************************************)
(* asyncProducer of go-kafka/src/async.go: a loop that hands messages to   *)
(* the producer or gives up after 10 ms, two goroutines that count the     *)
(* outcomes, and a WaitGroup for the two.  The sarama producer and the     *)
(* broker are external.                                                    *)
(***************************************************************************)
EXTENDS Naturals

CONSTANTS
    Total,   \* messages to send
    Pending  \* what the producer takes in before its input blocks

ProducerAssumption == {Total, Pending} \subseteq Nat \ {0}

VARIABLES
    mpc, i, enqueued, timedOut,  \* asyncProducer
    spc, succeeded, epc, failed, \* the goroutines on Successes() and Errors()
    taken, successes, errors,    \* messages inside the producer and in its two channels
    closed                       \* AsyncClose has been called

vars == <<mpc, i, enqueued, timedOut, spc, succeeded, epc, failed, taken, successes, errors, closed>>

Init ==
    /\ mpc = "loop" /\ i = 0 /\ enqueued = 0 /\ timedOut = 0
    /\ spc = "range" /\ epc = "range" /\ succeeded = 0 /\ failed = 0
    /\ taken = 0 /\ successes = 0 /\ errors = 0
    /\ closed = FALSE

-----------------------------------------------------------------------------

LoopVars == <<mpc, i, enqueued, timedOut>>

\* select: the message goes in.
Enqueue ==
    /\ mpc = "loop" /\ i < Total /\ taken < Pending
    /\ taken' = taken + 1
    /\ enqueued' = enqueued + 1 /\ i' = i + 1
    /\ UNCHANGED <<mpc, timedOut, spc, succeeded, epc, failed, successes, errors, closed>>

\* select: the 10 ms are over, whether or not there is room again.
TimeOut ==
    /\ mpc = "loop" /\ i < Total
    /\ timedOut' = timedOut + 1 /\ i' = i + 1
    /\ UNCHANGED <<mpc, enqueued, spc, succeeded, epc, failed, taken, successes, errors, closed>>

LoopEnds ==
    /\ mpc = "loop" /\ i = Total
    /\ mpc' = "wait"
    /\ UNCHANGED <<i, enqueued, timedOut, spc, succeeded, epc, failed, taken, successes, errors, closed>>

\* wg.Wait(); the deferred AsyncClose runs when the function returns.
Wait ==
    /\ mpc = "wait"
    /\ IF spc = "ended" /\ epc = "ended"
       THEN mpc' = "done" /\ closed' = TRUE
       ELSE UNCHANGED <<mpc, closed>>
    /\ UNCHANGED <<i, enqueued, timedOut, spc, succeeded, epc, failed, taken, successes, errors>>

\* The producer reports a message on one of its two channels, unbuffered ones.
Report ==
    /\ taken > 0
    /\ taken' = taken - 1
    /\ \/ successes = 0 /\ successes' = 1 /\ errors' = errors
       \/ errors = 0 /\ errors' = 1 /\ successes' = successes
    /\ UNCHANGED <<LoopVars, spc, succeeded, epc, failed, closed>>

\* for s := range producer.Successes(): ends when the channel is closed.
RangeSuccesses ==
    /\ spc = "range" /\ (successes > 0 \/ closed)
    /\ spc' = IF successes > 0 THEN "range" ELSE "ended"
    /\ succeeded' = succeeded + successes /\ successes' = 0
    /\ UNCHANGED <<LoopVars, epc, failed, taken, errors, closed>>

(* As if the goroutine ended at the first error. *)
RangeErrorsOnce ==
    /\ epc = "range" /\ (errors > 0 \/ closed)
    /\ epc' = "ended"
    /\ failed' = failed + errors /\ errors' = 0
    /\ UNCHANGED <<LoopVars, spc, succeeded, taken, successes, closed>>

RangeErrors ==
    /\ epc = "range" /\ (errors > 0 \/ closed)
    /\ epc' = IF errors > 0 THEN "range" ELSE "ended"
    /\ failed' = failed + errors /\ errors' = 0
    /\ UNCHANGED <<LoopVars, spc, succeeded, taken, successes, closed>>

Next ==
    \/ Enqueue \/ TimeOut \/ LoopEnds \/ Wait
    \/ Report \/ RangeSuccesses \/ RangeErrors

\* The goroutines run and the producer answers for every message it took.
Fairness ==
    /\ WF_vars(Enqueue \/ TimeOut \/ LoopEnds \/ Wait)
    /\ WF_vars(Report) /\ WF_vars(RangeSuccesses) /\ WF_vars(RangeErrors)

Spec == Init /\ [][Next]_vars /\ Fairness

-----------------------------------------------------------------------------
(* Properties *)

\* The type of the state; every message tried was enqueued or timed out, and
\* every one enqueued is reported once or still inside the producer.
TypeOK ==
    /\ mpc \in {"loop", "wait", "done"} /\ spc \in {"range", "ended"} /\ epc \in {"range", "ended"}
    /\ i = enqueued + timedOut
    /\ enqueued = taken + successes + errors + succeeded + failed

\* Both goroutines go on counting until every message has its outcome: the
\* producer is never left with a report that nobody receives.
AllCounted == mpc = "wait" ~> succeeded + failed = enqueued

=============================================================================
