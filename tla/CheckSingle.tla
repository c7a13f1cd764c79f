----------------------------- MODULE CheckSingle -----------------------------
(***************************************************************************)
(* The linearizability search of 6.5840/src/porcupine/checker.go: one      *)
(* partition of a history is turned into a time-ordered, doubly linked     *)
(* list of call and return entries, and checkSingle walks, lifts and       *)
(* unlifts entries of that list until every operation is linearized or the *)
(* first return entry cannot be passed.  The sequential object is KvModel  *)
(* of 6.5840/src/models/kv.go for one key.                                 *)
(*                                                                         *)
(* One step of the search is one iteration of its loop.  The histories are *)
(* all the histories within the bounds.                                    *)
(***************************************************************************)
EXTENDS Naturals, Sequences, FiniteSets

CONSTANTS
  Values,    \* the strings that are put and appended
  MaxOps,    \* bound: operations in the history
  MaxTime,   \* bound: time stamps are 1 .. MaxTime
  MaxOutput  \* bound: a get returns a string of at most this many values

ASSUME SearchAssumption == MaxOps \in Nat /\ MaxTime \in Nat /\ MaxOutput \in Nat

VARIABLES
  history,     \* the operations of the partition, by id
  rest,        \* entries that are not yet in the list
  list,        \* the linked list: next and prev of every node
  entry,       \* the node the search looks at (the root while the list is built)
  state,       \* the state of the object after calls
  linearized,  \* the bitset: ids in calls
  cache,       \* the pairs of linearized and state seen so far
  calls,       \* the stack of lifted call entries, each with the state before it
  longest,     \* per id: a longest partial linearization with it, or nil
  kill,        \* the flag that checkParallel shares with the search
  result       \* "build", "search", and then "true" or "false"

vars == <<history, rest, list, entry, state, linearized, cache, calls, longest, kill, result>>

-----------------------------------------------------------------------------
(* KvModel: the value of one key is a string, a sequence of values here.   *)

Strings == UNION {[1 .. n -> Values] : n \in 0 .. MaxOutput}

Inputs  == [op : {"get"}, value : {<<>>}] \cup [op : {"put", "append"}, value : {<<v>> : v \in Values}]

\* A get returns some string, put and append return nothing.
Results(input) == IF input.op = "get" THEN Strings ELSE {<<>>}

Operations ==
  UNION { [input : {i}, output : Results(i), call : {c}, return : c .. MaxTime] :
            i \in Inputs, c \in 1 .. MaxTime }

KvInit == <<>>

StepOk(st, o) == o.input.op = "get" => o.output = st

\* Mutant: append replaces the value.
NewStateReplaced(st, o) == IF o.input.op = "get" THEN st ELSE o.input.value

NewState(st, o) ==
  CASE o.input.op = "get"    -> st
    [] o.input.op = "put"    -> o.input.value
    [] o.input.op = "append" -> st \o o.input.value

-----------------------------------------------------------------------------
(* Entries and the linked list.                                            *)

Ids       == DOMAIN history
CallOf(i) == <<"call", i>>
RetOf(i)  == <<"return", i>>
HeadEntry == <<"head", 0>>
NilNode   == <<"nil", 0>>
Entries   == {CallOf(i) : i \in Ids} \cup {RetOf(i) : i \in Ids}
Nodes     == Entries \cup {HeadEntry, NilNode}

Match(x)  == RetOf(x[2])
Time(x)   == IF x[1] = "call" THEN history[x[2]].call ELSE history[x[2]].return

Less(x, y) ==
  \/ Time(x) < Time(y)
  \/ Time(x) = Time(y) /\ x[1] = "call" /\ y[1] = "return"

SetNext(l, x, y) == [l EXCEPT !.next[x] = y]

\* Mutant: without the test for nil.
SetPrevOfNil(l, x, y) == [l EXCEPT !.prev[x] = y]

SetPrev(l, x, y) == IF x = NilNode THEN l ELSE [l EXCEPT !.prev[x] = y]

\* insertBefore: mark is the first node of the list, or nil.
InsertBefore(l, x, mark) == SetPrev(SetNext(l, x, mark), mark, x)

\* entry.prev.next = entry.next; entry.next.prev = entry.prev
Unlink(l, x) == SetPrev(SetNext(l, l.prev[x], l.next[x]), l.next[x], l.prev[x])

\* entry.prev.next = entry; entry.next.prev = entry
Relink(l, x) == SetPrev(SetNext(l, l.prev[x], x), l.next[x], x)

Lift(l, x)   == Unlink(Unlink(l, x), Match(x))

\* Mutant: only the call entry is put back.
UnliftCallOnly(l, x) == Relink(l, x)

Unlift(l, x) == Relink(Relink(l, Match(x)), x)

-----------------------------------------------------------------------------
(* checkSingle.                                                            *)

\* Ids only name the operations: one numbering of each history is enough.
Histories ==
  {h \in UNION {[1 .. n -> Operations] : n \in 0 .. MaxOps} :
     \A i, j \in DOMAIN h :
       i < j => \/ h[i].call < h[j].call
                \/ h[i].call = h[j].call /\ h[i].return <= h[j].return}

Init ==
  /\ history \in Histories
  /\ rest = Entries
  /\ list = [next |-> [x \in Nodes |-> NilNode], prev |-> [x \in Nodes |-> NilNode]]
  /\ entry = NilNode
  /\ state = KvInit
  /\ linearized = {}
  /\ cache = {}
  /\ calls = <<>>
  /\ longest = [i \in Ids |-> <<>>]
  /\ kill = FALSE
  /\ result = "build"

\* makeEntries and makeLinkedEntries: the entries go into the list from the
\* last one to the first.  sort.Sort may leave equal entries in any order.
LinkEntry(x) ==
  /\ result = "build"
  /\ x \in rest
  /\ \A y \in rest : ~Less(x, y)
  /\ rest' = rest \ {x}
  /\ list' = InsertBefore(list, x, entry)
  /\ entry' = x
  /\ UNCHANGED <<history, state, linearized, cache, calls, longest, kill, result>>

LinkHead ==
  /\ result = "build"
  /\ rest = {}
  /\ list' = InsertBefore(list, HeadEntry, entry)
  /\ result' = "search"
  /\ UNCHANGED <<history, rest, entry, state, linearized, cache, calls, longest, kill>>

Searching == result = "search" /\ list.next[HeadEntry] # NilNode

\* Every iteration of the loop reads the kill flag first.
Iterate == Searching /\ ~kill

Killed ==
  /\ Searching /\ kill
  /\ result' = "false"
  /\ UNCHANGED <<history, rest, list, entry, state, linearized, cache, calls, longest, kill>>

IsCall == entry[1] = "call"
Op     == history[entry[2]]
Config == <<linearized \cup {entry[2]}, NewState(state, Op)>>

\* Mutant: the cache is asked for the set of operations only.
CanLinearizeBySet == StepOk(state, Op) /\ \A c \in cache : c[1] # Config[1]

CanLinearize == StepOk(state, Op) /\ Config \notin cache

Linearize ==
  /\ Iterate /\ IsCall
  /\ CanLinearize
  /\ cache' = cache \cup {Config}
  /\ calls' = Append(calls, [id |-> entry[2], state |-> state])
  /\ state' = NewState(state, Op)
  /\ linearized' = linearized \cup {entry[2]}
  /\ list' = Lift(list, entry)
  /\ entry' = list'.next[HeadEntry]
  /\ UNCHANGED <<history, rest, longest, kill, result>>

\* Mutant: the walk starts again from the head.
SkipToHead ==
  /\ Iterate /\ IsCall
  /\ ~CanLinearize
  /\ entry' = list.next[HeadEntry]
  /\ UNCHANGED <<history, rest, list, state, linearized, cache, calls, longest, kill, result>>

Skip ==
  /\ Iterate /\ IsCall
  /\ ~CanLinearize
  /\ entry' = list.next[entry]
  /\ UNCHANGED <<history, rest, list, state, linearized, cache, calls, longest, kill, result>>

CallIds == [k \in 1 .. Len(calls) |-> calls[k].id]

\* A return entry with nothing to undo.
Fail ==
  /\ Iterate /\ ~IsCall
  /\ calls = <<>>
  /\ result' = "false"
  /\ UNCHANGED <<history, rest, list, entry, state, linearized, cache, calls, longest, kill>>

\* Mutant: a partial linearization is recorded for its last operation only.
LongerForLast(i) == i = calls[Len(calls)].id /\ Len(calls) > Len(longest[i])

\* The partial linearization on the stack is recorded for every operation
\* in it that has none, or a shorter one.
Longer(i) == i \in linearized /\ Len(calls) > Len(longest[i])

Backtrack ==
  LET top == calls[Len(calls)] IN
  /\ Iterate /\ ~IsCall
  /\ calls # <<>>
  /\ longest' = [i \in Ids |-> IF Longer(i) THEN CallIds ELSE longest[i]]
  /\ state' = top.state
  /\ linearized' = linearized \ {top.id}
  /\ calls' = SubSeq(calls, 1, Len(calls) - 1)
  /\ list' = Unlift(list, CallOf(top.id))
  /\ entry' = list'.next[CallOf(top.id)]
  /\ UNCHANGED <<history, rest, cache, kill, result>>

\* The list is empty: calls is a linearization of everything.
Succeed ==
  /\ result = "search"
  /\ list.next[HeadEntry] = NilNode
  /\ longest' = [i \in Ids |-> CallIds]
  /\ result' = "true"
  /\ UNCHANGED <<history, rest, list, entry, state, linearized, cache, calls, kill>>

Search == LinkHead \/ Killed \/ Linearize \/ Skip \/ Fail \/ Backtrack \/ Succeed

\* checkParallel has its answer, or has waited long enough.  Before the first
\* iteration or after the last one the flag makes no further difference.
Kill ==
  /\ Searching /\ ~kill
  /\ kill' = TRUE
  /\ UNCHANGED <<history, rest, list, entry, state, linearized, cache, calls, longest, result>>

Next ==
  \/ \E x \in rest : LinkEntry(x)
  \/ Search
  \/ Kill

\* The goroutine of checkSingle is scheduled; nobody need kill it.
Spec == Init /\ [][Next]_vars /\ WF_vars(Search \/ \E x \in rest : LinkEntry(x))

-----------------------------------------------------------------------------
(* The reference: linearizability, defined from the time stamps.           *)

Precedes(i, j) == history[i].return < history[j].call

\* The sequences of distinct operations.
Orders == UNION {{s \in [1 .. n -> Ids] : \A a, b \in 1 .. n : a # b => s[a] # s[b]} : n \in 0 .. Len(history)}

\* The value of the key after each of the operations of s.
StateAfter(s) ==
  LET f[k \in 0 .. Len(s)] ==
        IF k = 0 THEN KvInit
        ELSE LET o == history[s[k]] IN
             CASE o.input.op = "get"    -> f[k - 1]
               [] o.input.op = "put"    -> o.input.value
               [] o.input.op = "append" -> f[k - 1] \o o.input.value
  IN f

\* s is the beginning of a linearization, as far as its own operations tell:
\* it takes no operation before one that precedes it in time, and every get
\* returns what it finds.
IsPartialLinearization(s) ==
  /\ \A k \in DOMAIN s, i \in Ids :
       Precedes(i, s[k]) => \E m \in 1 .. k - 1 : s[m] = i
  /\ \A k \in DOMAIN s :
       LET o == history[s[k]] IN o.input.op = "get" => o.output = StateAfter(s)[k - 1]

PartialLinearizations == {s \in Orders : IsPartialLinearization(s)}

Linearizable == \E s \in PartialLinearizations : Len(s) = Len(history)

-----------------------------------------------------------------------------
(* Properties.                                                             *)

Done == result \in {"true", "false"}

\* Every variable has its type, and nil is never written through.
TypeOK ==
  /\ rest \subseteq Entries
  /\ list.next \in [Nodes -> Nodes] /\ list.prev \in [Nodes -> Nodes]
  /\ list.next[NilNode] = NilNode /\ list.prev[NilNode] = NilNode
  /\ entry \in Nodes
  /\ state \in Seq(Values)
  /\ linearized \subseteq Ids
  /\ \A c \in cache : c[1] \subseteq Ids /\ c[2] \in Seq(Values)
  /\ calls \in Seq([id : Ids, state : Seq(Values)])
  /\ longest \in [Ids -> Seq(Ids)]
  /\ kill \in BOOLEAN
  /\ result \in {"build", "search", "true", "false"}

\* checkSingle answers true exactly for the linearizable histories; only a
\* search that was killed may answer false for one of them.
AnswerIsLinearizability ==
  /\ result = "true" => Linearizable
  /\ result = "false" /\ ~kill => ~Linearizable

\* While searching, the list holds exactly the entries of the operations that
\* are not linearized, in an order of time, and its prev pointers run it
\* backwards: every unlift has undone its lift.
ListIsRemaining ==
  result = "search" =>
    LET left == {x \in Entries : x[2] \notin linearized}
    IN /\ \A x \in left \cup {HeadEntry} :
            LET y == list.next[x] IN y # NilNode => y \in left /\ list.prev[y] = x
       /\ \A y \in left :
            LET x == list.prev[y] IN
            /\ x \in left \cup {HeadEntry} /\ list.next[x] = y
            /\ x # HeadEntry => ~Less(y, x)

\* The stack is the beginning of a linearization at every moment of the search,
\* and state is what its operations leave.
CallsArePartialLinearization ==
  /\ IsPartialLinearization(CallIds)
  /\ state = StateAfter(CallIds)[Len(calls)]
  /\ linearized = {CallIds[k] : k \in DOMAIN calls}

\* What the visualization shows of a history that is not linearizable: for
\* every operation the "longest linearizable prefix that includes the given
\* entry", or none if no such prefix exists.
LongestIsLongest ==
  Done /\ ~kill =>
    \A i \in Ids :
      LET with == {s \in PartialLinearizations : \E k \in DOMAIN s : s[k] = i}
      IN IF with = {} THEN longest[i] = <<>>
         ELSE longest[i] \in with /\ \A s \in with : Len(s) <= Len(longest[i])

\* The search ends, although it backtracks and is cut short only by the cache.
SearchEnds == <>Done
=============================================================================
