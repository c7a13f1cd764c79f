----------------------------- MODULE SharedSum -----------------------------
(***************************************************************************)
(* The goroutines of cpp-socket/ch18/go that add to one global variable:   *)
(* goroutine2 and goroutine3 without a lock, goroutine4 with a mutex held  *)
(* for the whole loop.  `sum += x' without a lock is a data race: the      *)
(* build emits a load and a store, and another goroutine runs in between.  *)
(***************************************************************************)
EXTENDS Integers, FiniteSetsExt

CONSTANTS
    Program, \* "goroutine2", "goroutine3" or "goroutine4"
    Threads, \* goroutines: 2, NUM_THREAD = 100 and NUM_THREAD = 200
    Rounds   \* iterations of each: 5, and twice 50_000_000

SumAssumption ==
    /\ Program \in {"goroutine2", "goroutine3", "goroutine4"}
    /\ {Threads, Rounds} \subseteq Nat \ {0}

VARIABLES
    sum,     \* the global
    mutex,   \* the goroutine that holds it, or nobody
    pc, i,   \* each goroutine's place and its loop counter
    reg,     \* what it loaded from sum
    wg,      \* the WaitGroup's counter
    printed  \* main has come past wg.Wait()

vars == <<sum, mutex, pc, i, reg, wg, printed>>

Thread == 0 .. Threads - 1
None == Threads

Init ==
    /\ sum = 0 /\ mutex = None
    /\ pc = [t \in Thread |-> "start"]
    /\ i = [t \in Thread |-> 1]
    /\ reg = [t \in Thread |-> 0]
    /\ wg = Threads /\ printed = FALSE

(* As if every goroutine ran add. *)
AmountAdd(t, n) == IF Program = "goroutine2" THEN t * Rounds + n ELSE 1

\* What goroutine t adds in iteration n: its numbers from..to, or 1 from add
\* and -1 from sub, which take turns.
Amount(t, n) ==
    IF Program = "goroutine2" THEN t * Rounds + n
    ELSE IF t % 2 = 0 THEN 1 ELSE -1

-----------------------------------------------------------------------------

Goto(t, l) == pc' = [pc EXCEPT ![t] = l]

(* As if sub took no lock. *)
StartAddLocks(t) ==
    /\ pc[t] = "start"
    /\ IF Program = "goroutine4" /\ t % 2 = 0
       THEN mutex = None /\ mutex' = t
       ELSE mutex' = mutex
    /\ Goto(t, "load")
    /\ UNCHANGED <<sum, i, reg, wg, printed>>

\* mutex.Lock(), in goroutine4 alone.
Start(t) ==
    /\ pc[t] = "start"
    /\ IF Program = "goroutine4"
       THEN mutex = None /\ mutex' = t
       ELSE mutex' = mutex
    /\ Goto(t, "load")
    /\ UNCHANGED <<sum, i, reg, wg, printed>>

Load(t) ==
    /\ pc[t] = "load"
    /\ reg' = [reg EXCEPT ![t] = sum]
    /\ Goto(t, "store")
    /\ UNCHANGED <<sum, mutex, i, wg, printed>>

(* As if the loop ran while i < to. *)
StoreShort(t) ==
    /\ pc[t] = "store"
    /\ sum' = reg[t] + Amount(t, i[t])
    /\ i' = [i EXCEPT ![t] = @ + 1]
    /\ Goto(t, IF i[t] < Rounds - 1 THEN "load" ELSE "end")
    /\ UNCHANGED <<mutex, reg, wg, printed>>

Store(t) ==
    /\ pc[t] = "store"
    /\ sum' = reg[t] + Amount(t, i[t])
    /\ i' = [i EXCEPT ![t] = @ + 1]
    /\ Goto(t, IF i[t] < Rounds THEN "load" ELSE "end")
    /\ UNCHANGED <<mutex, reg, wg, printed>>

(* As if the mutex stayed locked. *)
EndLocked(t) ==
    /\ pc[t] = "end"
    /\ wg' = wg - 1
    /\ Goto(t, "done")
    /\ UNCHANGED <<sum, i, reg, mutex, printed>>

(* As if wg.Done() were missing. *)
EndNoDone(t) ==
    /\ pc[t] = "end"
    /\ mutex' = IF mutex = t THEN None ELSE mutex
    /\ Goto(t, "done")
    /\ UNCHANGED <<sum, i, reg, wg, printed>>

\* mutex.Unlock(), and the deferred wg.Done().
End(t) ==
    /\ pc[t] = "end"
    /\ mutex' = IF mutex = t THEN None ELSE mutex
    /\ wg' = wg - 1
    /\ Goto(t, "done")
    /\ UNCHANGED <<sum, i, reg, printed>>

\* wg.Wait(), and the line that prints sum.
Wait ==
    /\ printed' = (wg = 0)
    /\ UNCHANGED <<sum, mutex, pc, i, reg, wg>>

Next == Wait \/ \E t \in Thread : Start(t) \/ Load(t) \/ Store(t) \/ End(t)

\* Goroutines are scheduled fairly, and so are those that wait for the mutex
\* (sync.Mutex hands over to a starving one).
Fairness ==
    /\ WF_vars(Wait)
    /\ \A t \in Thread : SF_vars(Start(t)) /\ WF_vars(Load(t) \/ Store(t) \/ End(t))

Spec == Init /\ [][Next]_vars /\ Fairness

-----------------------------------------------------------------------------
(* Properties *)

\* The type of the state; the WaitGroup counts the goroutines still to end.
TypeOK ==
    /\ sum \in Int /\ reg \in [Thread -> Int]
    /\ mutex \in Thread \cup {None}
    /\ pc \in [Thread -> {"start", "load", "store", "end", "done"}]
    /\ i \in [Thread -> 1 .. Rounds + 1]
    /\ printed \in BOOLEAN
    /\ wg = Cardinality({t \in Thread : pc[t] # "done"})

\* The sum of f over the goroutines and their iterations.
Total(f(_, _)) == MapThenSumSet(LAMBDA t : MapThenSumSet(LAMBDA n : f(t, n), 1 .. Rounds), Thread)

\* The race of goroutine2 loses updates, and how many is bounded: what is
\* printed is at most the right answer, 55, and never less than the smallest
\* and the greatest number together, 11.  The goroutine that stores last has
\* seen a store of the other, and its own last number is on top of it.
LostUpdatesBounded ==
    printed => sum \in (1 + Threads * Rounds) .. Total(Amount)

\* The race of goroutine3 never carries sum past what all the add calls, or
\* all the sub calls, would make of it alone.
NeverPastOneSide ==
    LET Side == (Threads \div 2) * Rounds
    IN sum \in -Side .. Side

\* With the mutex nothing is lost: goroutine4 prints what its goroutines add
\* up to, 0 for as many add as sub.
SumExact == printed => sum = Total(Amount)

\* Every goroutine gets the mutex in the end and main prints.
Prints == <>printed
=============================================================================
