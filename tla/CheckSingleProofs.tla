-------------------------- MODULE CheckSingleProofs --------------------------
(***************************************************************************)
(* Theorems about CheckSingle, for every set of values and all bounds.     *)
(* First the list: the links which lift and unlift write always hold the   *)
(* entries of the operations that are not linearized; the order that       *)
(* sort.Sort chose among equal entries is a function to the integers which *)
(* the invariant says exists.  Then the answer: checkSingle is a decision  *)
(* procedure for linearizability, its stack is always the beginning of a   *)
(* linearization, and what it records as longest is longest.               *)
(***************************************************************************)
EXTENDS CheckSingle, Integers, SequenceTheorems, FiniteSetTheorems, TLAPS

-----------------------------------------------------------------------------
(* Histories and entries.                                                  *)

\* What the proofs use of a history.
HistoryOK ==
  /\ Len(history) \in Nat /\ Ids = 1 .. Len(history)
  /\ \A i \in Ids :
       LET o == history[i] IN
       /\ o.call \in Nat /\ o.return \in Nat /\ o.call <= o.return
       /\ o.input.op \in {"get", "put", "append"}
       /\ o.input.value \in Seq(Values)

LEMMA HistoriesOK == history \in Histories => HistoryOK
<1> SUFFICES ASSUME history \in Histories PROVE HistoryOK
  OBVIOUS
<1>1. PICK n \in 0 .. MaxOps : history \in [1 .. n -> Operations]
  BY DEF Histories
<1>2. n \in Nat
  BY SearchAssumption
<1>3. Len(history) = n /\ Ids = 1 .. n
  BY <1>1, <1>2 DEF Ids
<1>4. ASSUME NEW i \in Ids
      PROVE  LET o == history[i] IN
             /\ o.call \in Nat /\ o.return \in Nat /\ o.call <= o.return
             /\ o.input.op \in {"get", "put", "append"}
             /\ o.input.value \in Seq(Values)
  <2>1. history[i] \in Operations
    BY <1>1, <1>3
  <2>2. \E p \in Inputs, c \in 1 .. MaxTime :
          history[i] \in [input : {p}, output : Results(p), call : {c}, return : c .. MaxTime]
    <3> DEFINE Q(p, c) == [input : {p}, output : Results(p), call : {c}, return : c .. MaxTime]
    <3>1. Operations = UNION {Q(p, c) : p \in Inputs, c \in 1 .. MaxTime}
      BY DEF Operations
    <3> HIDE DEF Q
    <3>2. \E p \in Inputs, c \in 1 .. MaxTime : history[i] \in Q(p, c)
      BY <2>1, <3>1
    <3> QED BY <3>2 DEF Q
  <2>5. PICK p \in Inputs, c \in 1 .. MaxTime :
          history[i] \in [input : {p}, output : Results(p), call : {c}, return : c .. MaxTime]
    BY <2>2
  <2>3. history[i].input = p /\ history[i].call = c /\ history[i].return \in c .. MaxTime
    BY <2>5
  <2>4. p.op \in {"get", "put", "append"} /\ p.value \in Seq(Values)
    <3>1. CASE p \in [op : {"get"}, value : {<<>>}]
      <4>1. p.value = <<>> /\ p.op = "get"
        BY <3>1
      <4>2. <<>> \in Seq(Values)
        OBVIOUS
      <4> QED BY <4>1, <4>2
    <3>2. CASE p \in [op : {"put", "append"}, value : {<<v>> : v \in Values}]
      <4>1. PICK v \in Values : p.value = <<v>>
        BY <3>2
      <4>2. <<v>> \in Seq(Values)
        OBVIOUS
      <4>3. p.op \in {"put", "append"}
        BY <3>2
      <4> QED BY <4>1, <4>2, <4>3
    <3> QED BY <3>1, <3>2 DEF Inputs
  <2> QED BY <2>3, <2>4, SearchAssumption
<1> QED BY <1>2, <1>3, <1>4 DEF HistoryOK

LEMMA EntryFacts ==
  /\ HeadEntry \notin Entries /\ NilNode \notin Entries /\ HeadEntry # NilNode
  /\ Nodes = Entries \cup {HeadEntry, NilNode}
  /\ \A i \in Ids : /\ CallOf(i) \in Entries /\ CallOf(i)[1] = "call" /\ CallOf(i)[2] = i
                    /\ RetOf(i) \in Entries /\ RetOf(i)[1] = "return" /\ RetOf(i)[2] = i
                    /\ CallOf(i) # RetOf(i) /\ Match(CallOf(i)) = RetOf(i)
  /\ \A x \in Entries : /\ x[2] \in Ids
                        /\ \/ x[1] = "call" /\ x = CallOf(x[2])
                           \/ x[1] = "return" /\ x = RetOf(x[2])
  /\ HeadEntry[1] # "call" /\ NilNode[1] # "call"
BY DEF Entries, Nodes, HeadEntry, NilNode, CallOf, RetOf, Match

\* An operation's call comes before its return, and an entry that may stand
\* before another one is not later.
LEMMA LessFacts ==
  ASSUME HistoryOK
  PROVE  /\ \A i \in Ids : Less(CallOf(i), RetOf(i))
         /\ \A i, j \in Ids : ~Less(CallOf(i), RetOf(j)) => Precedes(j, i)
         /\ \A i, j \in Ids : Precedes(j, i) => Less(RetOf(j), CallOf(i))
BY DEF HistoryOK, Less, Time, Precedes, CallOf, RetOf

-----------------------------------------------------------------------------
(* Doubly linked lists.  ord places the entries and the head.              *)

ListType == [next : [Nodes -> Nodes], prev : [Nodes -> Nodes]]

Places == Entries \cup {HeadEntry}

\* ord is an order of the entries of D after the head, in which no entry
\* stands behind a later one.
IsOrder(ord, D) ==
  /\ ord \in [Places -> Int]
  /\ \A x \in D : ord[HeadEntry] < ord[x]
  /\ \A x, y \in D : x # y => ord[x] # ord[y]
  /\ \A x, y \in D : ord[x] < ord[y] => ~Less(y, x)

\* y is the first entry of S behind x, or nil.
IsNext(ord, S, x, y) ==
  IF y = NilNode THEN \A z \in S : ord[z] <= ord[x]
  ELSE /\ y \in S /\ ord[x] < ord[y]
       /\ \A z \in S : ord[x] < ord[z] => ord[y] <= ord[z]

\* y is the last entry of S before x, or the head.
IsPrev(ord, S, x, y) ==
  IF y = HeadEntry THEN \A z \in S : ord[x] <= ord[z]
  ELSE /\ y \in S /\ ord[y] < ord[x]
       /\ \A z \in S : ord[z] < ord[x] => ord[z] <= ord[y]

\* The list l holds the entries of S in their order.
Linked(ord, l, S) ==
  /\ \A x \in S \cup {HeadEntry} : IsNext(ord, S, x, l.next[x])
  /\ \A x \in S : IsPrev(ord, S, x, l.prev[x])

\* The pointers of the nodes outside S and the head are those of l.
SameOutside(l, k, S) ==
  \A y \in Nodes : y \notin S \cup {HeadEntry} => k.next[y] = l.next[y] /\ k.prev[y] = l.prev[y]

LEMMA SetBothLinks ==
  ASSUME NEW l \in ListType, NEW a \in Nodes, NEW b \in Nodes, NEW c \in Nodes, NEW d \in Nodes
  PROVE  LET k == SetPrev(SetNext(l, a, b), c, d) IN
         /\ k \in ListType
         /\ k.next = [l.next EXCEPT ![a] = b]
         /\ k.prev = IF c = NilNode THEN l.prev ELSE [l.prev EXCEPT ![c] = d]
BY DEF SetNext, SetPrev, ListType

\* Unlinking an entry of the list leaves a list of the others; the entry keeps
\* its own pointers.
LEMMA UnlinkStep ==
  ASSUME NEW ord, IsOrder(ord, Entries), NEW S \in SUBSET Entries, NEW x \in S,
         NEW l \in ListType, Linked(ord, l, S)
  PROVE  /\ Unlink(l, x) \in ListType
         /\ Linked(ord, Unlink(l, x), S \ {x})
         /\ SameOutside(l, Unlink(l, x), S \ {x})
<1> DEFINE p == l.prev[x]
           n == l.next[x]
           k == Unlink(l, x)
<1>1. x \in Nodes /\ p \in Nodes /\ n \in Nodes /\ HeadEntry \notin S /\ NilNode \notin S /\ HeadEntry # NilNode
  BY EntryFacts DEF ListType
<1>2. /\ k \in ListType
      /\ k.next = [l.next EXCEPT ![p] = n]
      /\ k.prev = IF n = NilNode THEN l.prev ELSE [l.prev EXCEPT ![n] = p]
  <2> HIDE DEF p, n
  <2>1. k = SetPrev(SetNext(l, p, n), n, p)
    BY DEF Unlink, p, n
  <2> HIDE DEF k
  <2> QED BY <1>1, <2>1, SetBothLinks
<1>3. /\ l.next \in [Nodes -> Nodes] /\ l.prev \in [Nodes -> Nodes]
      /\ S \subseteq Nodes /\ HeadEntry \in Nodes
  BY EntryFacts DEF ListType
<1>4. /\ \A y \in S \cup {HeadEntry} : ord[y] \in Int
      /\ \A y \in S : ord[HeadEntry] < ord[y]
      /\ \A y, z \in S : y # z => ord[y] # ord[z]
  BY DEF IsOrder, Places
<1>5. IsNext(ord, S, x, n) /\ IsPrev(ord, S, x, p)
  BY DEF Linked
<1>6. p \in (S \ {x}) \cup {HeadEntry} /\ (n = NilNode \/ n \in S \ {x})
  BY <1>4, <1>5 DEF IsNext, IsPrev
<1> HIDE DEF p, n, k
<1>7. ASSUME NEW y \in (S \ {x}) \cup {HeadEntry} PROVE IsNext(ord, S \ {x}, y, k.next[y])
  <2>1. IsNext(ord, S, y, l.next[y])
    BY DEF Linked
  <2>2. CASE y = p
    <3>1. k.next[y] = n
      BY <1>2, <1>3, <2>2
    <3> QED BY <1>1, <1>4, <1>5, <1>6, <2>2, <3>1 DEF IsNext, IsPrev
  <2>3. CASE y # p
    <3>1. k.next[y] = l.next[y]
      BY <1>2, <1>3, <2>3
    <3>2. l.next[y] # x
      BY <1>1, <1>4, <1>5, <2>1, <2>3 DEF IsNext, IsPrev
    <3> QED BY <1>1, <1>4, <2>1, <3>1, <3>2 DEF IsNext
  <2> QED BY <2>2, <2>3
<1>8. ASSUME NEW y \in S \ {x} PROVE IsPrev(ord, S \ {x}, y, k.prev[y])
  <2>1. IsPrev(ord, S, y, l.prev[y])
    BY DEF Linked
  <2>2. CASE y = n
    <3>1. k.prev[y] = p
      BY <1>1, <1>2, <1>3, <2>2
    <3> QED BY <1>1, <1>4, <1>5, <1>6, <2>2, <3>1 DEF IsNext, IsPrev
  <2>3. CASE y # n
    <3>1. k.prev[y] = l.prev[y]
      BY <1>2, <1>3, <2>3
    <3>2. l.prev[y] # x
      BY <1>1, <1>4, <1>5, <2>1, <2>3 DEF IsNext, IsPrev
    <3> QED BY <1>1, <1>4, <2>1, <3>1, <3>2 DEF IsPrev
  <2> QED BY <2>2, <2>3
<1>9. SameOutside(l, k, S \ {x})
  BY <1>1, <1>2, <1>3, <1>6 DEF SameOutside
<1> QED BY <1>2, <1>7, <1>8, <1>9 DEF Linked, k

\* Relinking an entry whose own pointers are its neighbours in T.
LEMMA RelinkStep ==
  ASSUME NEW ord, IsOrder(ord, Entries), NEW T \in SUBSET Entries, NEW x \in T,
         NEW l \in ListType, Linked(ord, l, T \ {x}),
         IsNext(ord, T, x, l.next[x]), IsPrev(ord, T, x, l.prev[x])
  PROVE  /\ Relink(l, x) \in ListType
         /\ Linked(ord, Relink(l, x), T)
         /\ SameOutside(l, Relink(l, x), T \ {x})
<1> DEFINE p == l.prev[x]
           n == l.next[x]
           k == Relink(l, x)
<1>1. x \in Nodes /\ p \in Nodes /\ n \in Nodes /\ HeadEntry \notin T /\ NilNode \notin T /\ HeadEntry # NilNode
  BY EntryFacts DEF ListType
<1>3. /\ k \in ListType
      /\ k.next = [l.next EXCEPT ![p] = x]
      /\ k.prev = IF n = NilNode THEN l.prev ELSE [l.prev EXCEPT ![n] = x]
  <2> HIDE DEF p, n
  <2>1. k = SetPrev(SetNext(l, p, x), n, x)
    BY DEF Relink, p, n
  <2> HIDE DEF k
  <2> QED BY <1>1, <2>1, SetBothLinks
<1>4. /\ l.next \in [Nodes -> Nodes] /\ l.prev \in [Nodes -> Nodes]
      /\ T \subseteq Nodes /\ HeadEntry \in Nodes
  BY EntryFacts DEF ListType
<1>5. /\ \A y \in T \cup {HeadEntry} : ord[y] \in Int
      /\ \A y \in T : ord[HeadEntry] < ord[y]
      /\ \A y, z \in T : y # z => ord[y] # ord[z]
  BY DEF IsOrder, Places
<1>6. IsNext(ord, T, x, n) /\ IsPrev(ord, T, x, p)
  OBVIOUS
<1>7. p \in (T \ {x}) \cup {HeadEntry} /\ (n = NilNode \/ n \in T \ {x})
  BY <1>5, <1>6 DEF IsNext, IsPrev
<1> HIDE DEF p, n, k
<1>8. ASSUME NEW y \in T \cup {HeadEntry} PROVE IsNext(ord, T, y, k.next[y])
  <2>1. CASE y = p
    <3>1. k.next[y] = x
      BY <1>3, <1>4, <2>1
    <3> QED BY <1>1, <1>5, <1>6, <1>7, <2>1, <3>1 DEF IsNext, IsPrev
  <2>2. CASE y = x
    BY <1>3, <1>4, <1>5, <1>6, <1>7, <1>1, <2>2 DEF n
  <2>3. CASE y # p /\ y # x
    <3>1. k.next[y] = l.next[y]
      BY <1>3, <1>4, <2>3
    <3>2. IsNext(ord, T \ {x}, y, l.next[y])
      BY <2>3 DEF Linked
    <3>3. ord[x] < ord[y] \/ (ord[y] < ord[x] /\ \E z \in T \ {x} : ord[y] < ord[z] /\ ord[z] < ord[x])
      BY <1>1, <1>5, <1>6, <1>7, <2>3 DEF IsPrev
    <3> QED BY <1>1, <1>5, <3>1, <3>2, <3>3 DEF IsNext
  <2> QED BY <2>1, <2>2, <2>3
<1>9. ASSUME NEW y \in T PROVE IsPrev(ord, T, y, k.prev[y])
  <2>1. CASE y = n
    <3>1. k.prev[y] = x
      BY <1>1, <1>3, <1>4, <2>1
    <3> QED BY <1>1, <1>5, <1>6, <1>7, <2>1, <3>1 DEF IsNext, IsPrev
  <2>2. CASE y = x
    <3>1. k.prev[x] = p
      BY <1>1, <1>3, <1>4, <1>7 DEF p
    <3> QED BY <1>6, <2>2, <3>1
  <2>3. CASE y # n /\ y # x
    <3>1. k.prev[y] = l.prev[y]
      BY <1>3, <1>4, <2>3
    <3>2. IsPrev(ord, T \ {x}, y, l.prev[y])
      BY <2>3 DEF Linked
    <3>3. ord[y] < ord[x] \/ (ord[x] < ord[y] /\ \E z \in T \ {x} : ord[x] < ord[z] /\ ord[z] < ord[y])
      BY <1>1, <1>5, <1>6, <1>7, <2>3 DEF IsNext
    <3> QED BY <1>1, <1>5, <3>1, <3>2, <3>3 DEF IsPrev
  <2> QED BY <2>1, <2>2, <2>3
<1>10. SameOutside(l, k, T \ {x})
  BY <1>1, <1>3, <1>4, <1>7 DEF SameOutside
<1> QED BY <1>3, <1>8, <1>9, <1>10 DEF Linked, k

\* Lifting an operation: its call and its return keep the neighbours they had.
LEMMA LiftStep ==
  ASSUME NEW ord, IsOrder(ord, Entries), NEW S \in SUBSET Entries, NEW i \in Ids,
         CallOf(i) \in S, RetOf(i) \in S, NEW l \in ListType, Linked(ord, l, S)
  PROVE  LET c == CallOf(i)
             r == RetOf(i)
             k == Lift(l, c)
         IN /\ k \in ListType
            /\ Linked(ord, k, S \ {c, r})
            /\ IsNext(ord, S, c, k.next[c]) /\ IsPrev(ord, S, c, k.prev[c])
            /\ IsNext(ord, S \ {c}, r, k.next[r]) /\ IsPrev(ord, S \ {c}, r, k.prev[r])
            /\ SameOutside(l, k, S)
<1> DEFINE c == CallOf(i)
           r == RetOf(i)
           m == Unlink(l, c)
           k == Unlink(m, r)
<1>1. c \in S /\ r \in S /\ r \in S \ {c} /\ c \in Nodes /\ r \in Nodes /\ c # HeadEntry /\ r # HeadEntry
  BY EntryFacts
<1>2. Lift(l, c) = k
  BY EntryFacts DEF Lift
<1> HIDE DEF c, r
<1>3. m \in ListType /\ Linked(ord, m, S \ {c}) /\ SameOutside(l, m, S \ {c})
  BY <1>1, UnlinkStep
<1> HIDE DEF m
<1>4. k \in ListType /\ Linked(ord, k, (S \ {c}) \ {r}) /\ SameOutside(m, k, (S \ {c}) \ {r})
  BY <1>1, <1>3, UnlinkStep
<1> HIDE DEF k
<1>5. (S \ {c}) \ {r} = S \ {c, r}
  OBVIOUS
<1>6. /\ k.next[c] = l.next[c] /\ k.prev[c] = l.prev[c]
      /\ k.next[r] = m.next[r] /\ k.prev[r] = m.prev[r]
  BY <1>1, <1>3, <1>4 DEF SameOutside
<1>7. /\ IsNext(ord, S, c, l.next[c]) /\ IsPrev(ord, S, c, l.prev[c])
      /\ IsNext(ord, S \ {c}, r, m.next[r]) /\ IsPrev(ord, S \ {c}, r, m.prev[r])
  BY <1>1, <1>3 DEF Linked
<1>8. SameOutside(l, k, S)
  BY <1>3, <1>4 DEF SameOutside
<1>9. Linked(ord, k, S \ {c, r})
  BY <1>4, <1>5
<1> QED BY <1>2, <1>4, <1>6, <1>7, <1>8, <1>9 DEF c, r

\* Unlifting an operation whose entries kept their neighbours.
LEMMA UnliftStep ==
  ASSUME NEW ord, IsOrder(ord, Entries), NEW S \in SUBSET Entries, NEW i \in Ids,
         CallOf(i) \in S, RetOf(i) \in S, NEW l \in ListType,
         Linked(ord, l, S \ {CallOf(i), RetOf(i)}),
         IsNext(ord, S, CallOf(i), l.next[CallOf(i)]), IsPrev(ord, S, CallOf(i), l.prev[CallOf(i)]),
         IsNext(ord, S \ {CallOf(i)}, RetOf(i), l.next[RetOf(i)]),
         IsPrev(ord, S \ {CallOf(i)}, RetOf(i), l.prev[RetOf(i)])
  PROVE  LET k == Unlift(l, CallOf(i))
         IN /\ k \in ListType
            /\ Linked(ord, k, S)
            /\ SameOutside(l, k, S)
<1> DEFINE c == CallOf(i)
           r == RetOf(i)
           m == Relink(l, r)
           k == Relink(m, c)
           T == S \ {c}
<1>1. c \in S /\ r \in S \ {c} /\ c \in Nodes /\ c # HeadEntry
  BY EntryFacts
<1>2. Unlift(l, c) = k
  BY EntryFacts DEF Unlift
<1>3. /\ Linked(ord, l, S \ {c, r})
      /\ IsNext(ord, S, c, l.next[c]) /\ IsPrev(ord, S, c, l.prev[c])
      /\ IsNext(ord, T, r, l.next[r]) /\ IsPrev(ord, T, r, l.prev[r])
  OBVIOUS
<1> HIDE DEF c, r
<1>4. S \ {c, r} = T \ {r} /\ T \in SUBSET Entries
  OBVIOUS
<1>5. T \ {r} = (S \ {c}) \ {r} /\ c \notin T
  OBVIOUS
<1>6. r \in T
  BY <1>1
<1> HIDE DEF T
<1>7. Linked(ord, l, T \ {r})
  BY <1>3, <1>4
<1>8. m \in ListType /\ Linked(ord, m, T) /\ SameOutside(l, m, T \ {r})
  BY <1>3, <1>4, <1>6, <1>7, RelinkStep
<1> HIDE DEF m
<1>9. m.next[c] = l.next[c] /\ m.prev[c] = l.prev[c]
  BY <1>1, <1>5, <1>8 DEF SameOutside
<1>10. Linked(ord, m, S \ {c}) /\ IsNext(ord, S, c, m.next[c]) /\ IsPrev(ord, S, c, m.prev[c])
  BY <1>3, <1>8, <1>9 DEF T
<1>11. k \in ListType /\ Linked(ord, k, S) /\ SameOutside(m, k, S \ {c})
  BY <1>1, <1>8, <1>10, RelinkStep
<1> HIDE DEF k
<1>12. SameOutside(l, k, S)
  BY <1>8, <1>11 DEF SameOutside, T
<1> QED BY <1>2, <1>11, <1>12 DEF c

-----------------------------------------------------------------------------
(* The stack of lifted operations.                                         *)

\* The ids below level k of the stack cs, and the entries left at that level.
Before(cs, k) == {cs[j].id : j \in 1 .. k - 1}
Left(cs, k)   == {x \in Entries : x[2] \notin Before(cs, k)}

Frames == [id : Ids, state : Seq(Values)]

LEMMA PushFacts ==
  ASSUME NEW cs \in Seq(Frames), NEW e \in Frames
  PROVE  LET ds == Append(cs, e) IN
         /\ ds \in Seq(Frames) /\ Len(ds) = Len(cs) + 1
         /\ \A k \in 1 .. Len(cs) : ds[k] = cs[k]
         /\ ds[Len(ds)] = e
         /\ \A k \in 1 .. Len(cs) + 1 : Before(ds, k) = Before(cs, k) /\ Left(ds, k) = Left(cs, k)
         /\ Before(ds, Len(ds) + 1) = Before(cs, Len(cs) + 1) \cup {e.id}
         /\ Left(ds, Len(ds) + 1) = Left(cs, Len(cs) + 1) \ {CallOf(e.id), RetOf(e.id)}
<1> DEFINE ds == Append(cs, e)
<1>1. /\ ds \in Seq(Frames) /\ Len(ds) = Len(cs) + 1 /\ Len(cs) \in Nat
      /\ \A k \in 1 .. Len(cs) : ds[k] = cs[k]
      /\ ds[Len(ds)] = e
  OBVIOUS
<1> HIDE DEF ds
<1>2. ASSUME NEW k \in 1 .. Len(cs) + 1
      PROVE  Before(ds, k) = Before(cs, k) /\ Left(ds, k) = Left(cs, k)
  <2>1. \A j \in 1 .. k - 1 : ds[j] = cs[j]
    BY <1>1
  <2>2. Before(ds, k) = Before(cs, k)
    BY <2>1 DEF Before
  <2> QED BY <2>2 DEF Left
<1>3. Before(ds, Len(ds) + 1) = Before(cs, Len(cs) + 1) \cup {e.id}
  <2>1. ASSUME NEW i PROVE i \in Before(ds, Len(ds) + 1) <=> i \in Before(cs, Len(cs) + 1) \cup {e.id}
    <3>1. (Len(ds) + 1) - 1 = Len(cs) + 1 /\ (Len(cs) + 1) - 1 = Len(cs)
      BY <1>1
    <3>2. i \in Before(ds, Len(ds) + 1) <=> \E j \in 1 .. Len(cs) + 1 : i = ds[j].id
      BY <3>1 DEF Before
    <3>3. i \in Before(cs, Len(cs) + 1) <=> \E j \in 1 .. Len(cs) : i = cs[j].id
      BY <3>1 DEF Before
    <3> QED BY <1>1, <3>2, <3>3
  <2> QED BY <2>1
<1>4. Left(ds, Len(ds) + 1) = Left(cs, Len(cs) + 1) \ {CallOf(e.id), RetOf(e.id)}
  <2>1. e.id \in Ids
    BY DEF Frames
  <2>2. \A x \in Entries : x[2] = e.id <=> x = CallOf(e.id) \/ x = RetOf(e.id)
    BY <2>1, EntryFacts
  <2> QED BY <1>3, <2>2 DEF Left
<1> QED BY <1>1, <1>2, <1>3, <1>4 DEF ds

LEMMA PopFacts ==
  ASSUME NEW cs \in Seq(Frames), cs # <<>>
  PROVE  LET ds == SubSeq(cs, 1, Len(cs) - 1)
             e  == cs[Len(cs)]
         IN /\ ds \in Seq(Frames) /\ Len(ds) = Len(cs) - 1 /\ Len(ds) \in Nat /\ e \in Frames
            /\ \A k \in 1 .. Len(ds) : ds[k] = cs[k]
            /\ cs = Append(ds, e)
<1> DEFINE ds == SubSeq(cs, 1, Len(cs) - 1)
           e  == cs[Len(cs)]
<1>1. Len(cs) \in Nat /\ Len(cs) > 0 /\ cs \in [1 .. Len(cs) -> Frames]
  OBVIOUS
<1>2. ds \in Seq(Frames) /\ Len(ds) = Len(cs) - 1 /\ e \in Frames
  BY <1>1
<1>3. \A k \in 1 .. Len(ds) : ds[k] = cs[k]
  BY <1>1
<1> HIDE DEF ds
<1>4. Append(ds, e) \in Seq(Frames) /\ Len(Append(ds, e)) = Len(cs)
      /\ \A k \in 1 .. Len(cs) : Append(ds, e)[k] = cs[k]
  <2>1. Append(ds, e) \in Seq(Frames) /\ Len(Append(ds, e)) = Len(ds) + 1
    BY <1>2
  <2>2. \A k \in 1 .. Len(ds) + 1 : Append(ds, e)[k] = IF k <= Len(ds) THEN ds[k] ELSE e
    BY <1>2
  <2>3. ASSUME NEW k \in 1 .. Len(cs) PROVE Append(ds, e)[k] = cs[k]
    BY <1>1, <1>2, <1>3, <2>2
  <2> QED BY <1>1, <1>2, <2>1, <2>3
<1>5. cs = Append(ds, e)
  BY <1>4, SeqEqual
<1> QED BY <1>1, <1>2, <1>3, <1>5 DEF ds

-----------------------------------------------------------------------------
(* The invariant of the list.                                              *)

\* While the list is built, it runs from entry through what was linked, and
\* nothing that is linked should stand before what is not.
Built(ord) ==
  LET S == Entries \ rest IN
  /\ IsOrder(ord, S)
  /\ IsNext(ord, S, HeadEntry, entry)
  /\ \A x \in S : IsNext(ord, S, x, list.next[x])
  /\ \A x \in S : x # entry => IsPrev(ord, S, x, list.prev[x])
  /\ \A x \in S, y \in rest : ~Less(x, y)

\* A lifted operation remembers its neighbours of the moment when it was
\* lifted, and only calls stood before its call.
FrameLinks(ord, S, l, i) ==
  LET c == CallOf(i)
      r == RetOf(i)
  IN /\ c \in S /\ r \in S
     /\ IsNext(ord, S, c, l.next[c]) /\ IsPrev(ord, S, c, l.prev[c])
     /\ IsNext(ord, S \ {c}, r, l.next[r]) /\ IsPrev(ord, S \ {c}, r, l.prev[r])
     /\ \A z \in S : ord[z] < ord[c] => z[1] = "call"

StackLinks(ord) == \A k \in 1 .. Len(calls) : FrameLinks(ord, Left(calls, k), list, calls[k].id)

\* The walk has passed calls only, and runs off the list only if it is empty.
Walked(ord) ==
  LET S == Left(calls, Len(calls) + 1) IN
  \/ entry = NilNode /\ S = {}
  \/ entry \in S /\ \A z \in S : ord[z] < ord[entry] => z[1] = "call"

SearchList(ord) ==
  /\ IsOrder(ord, Entries)
  /\ linearized = Before(calls, Len(calls) + 1)
  /\ Linked(ord, list, Left(calls, Len(calls) + 1))
  /\ StackLinks(ord)
  /\ Walked(ord)

TypeInv == HistoryOK /\ TypeOK /\ list \in ListType

ListInv ==
  /\ result = "build" => calls = <<>> /\ linearized = {} /\ \E ord : Built(ord)
  /\ result # "build" => \E ord : SearchList(ord)

LEMMA InitList == Init => TypeInv /\ ListInv
<1> SUFFICES ASSUME Init PROVE TypeInv /\ ListInv
  OBVIOUS
<1> USE DEF Init
<1>1. HistoryOK
  BY HistoriesOK
<1>2. list \in ListType /\ list.next[NilNode] = NilNode /\ list.prev[NilNode] = NilNode
  BY EntryFacts DEF ListType
<1>3. TypeOK
  <2>1. state \in Seq(Values) /\ calls \in Seq([id : Ids, state : Seq(Values)]) /\ <<>> \in Seq(Ids)
    BY DEF KvInit
  <2>2. list.next \in [Nodes -> Nodes] /\ list.prev \in [Nodes -> Nodes] /\ entry \in Nodes
    BY <1>2, EntryFacts DEF ListType
  <2> QED BY <1>2, <2>1, <2>2 DEF TypeOK
<1>4. ListInv
  <2> DEFINE zero == [x \in Places |-> 0]
  <2>1. Entries \ rest = {}
    OBVIOUS
  <2>2. Built(zero)
    BY <2>1 DEF Built, IsOrder, IsNext, Places
  <2> HIDE DEF zero
  <2> QED BY <2>2 DEF ListInv
<1> QED BY <1>1, <1>2, <1>3, <1>4 DEF TypeInv

LEMMA SameHistory ==
  ASSUME history' = history
  PROVE  /\ Ids' = Ids /\ Entries' = Entries /\ Nodes' = Nodes /\ Places' = Places
         /\ ListType' = ListType /\ Frames' = Frames
         /\ HistoryOK => HistoryOK'
         /\ \A x, y : Less(x, y)' <=> Less(x, y)
BY DEF Ids, Entries, Nodes, Places, ListType, Frames, HistoryOK, Less, Time, CallOf, RetOf, HeadEntry, NilNode

\* An entry is put before the ones that are linked: it takes the place of the
\* head, which moves one place forward.
LEMMA LinkEntryList ==
  ASSUME TypeInv, ListInv, NEW x \in rest, LinkEntry(x)
  PROVE  TypeInv' /\ ListInv'
<1> USE DEF LinkEntry
<1>1. /\ HistoryOK /\ TypeOK /\ list \in ListType /\ rest \subseteq Entries /\ entry \in Nodes
      /\ x \in Entries /\ x \in Nodes /\ x # NilNode /\ x # HeadEntry /\ HeadEntry # NilNode
  BY EntryFacts DEF TypeInv, TypeOK
<1>2. /\ list' \in ListType
      /\ list'.next = [list.next EXCEPT ![x] = entry]
      /\ list'.prev = IF entry = NilNode THEN list.prev ELSE [list.prev EXCEPT ![entry] = x]
  <2>1. list' = SetPrev(SetNext(list, x, entry), entry, x)
    BY DEF InsertBefore
  <2> QED BY <1>1, <2>1, SetBothLinks
<1>3. TypeInv'
  <2>1. list'.next[NilNode] = NilNode /\ list'.prev[NilNode] = NilNode
        /\ list'.next \in [Nodes -> Nodes] /\ list'.prev \in [Nodes -> Nodes]
    BY <1>1, <1>2, EntryFacts DEF TypeOK, ListType
  <2> QED BY <1>1, <1>2, <2>1, SameHistory DEF TypeInv, TypeOK
<1>4. PICK ord : Built(ord)
  BY DEF ListInv
<1> DEFINE S == Entries \ rest
           T == S \cup {x}
           new == [ord EXCEPT ![x] = ord[HeadEntry], ![HeadEntry] = ord[HeadEntry] - 1]
<1>5. /\ IsOrder(ord, S) /\ IsNext(ord, S, HeadEntry, entry)
      /\ \A z \in S : IsNext(ord, S, z, list.next[z])
      /\ \A z \in S : z # entry => IsPrev(ord, S, z, list.prev[z])
      /\ \A z \in S, y \in rest : ~Less(z, y)
  BY <1>4 DEF Built
<1>6. x \notin S /\ HeadEntry \notin S /\ NilNode \notin S /\ HeadEntry \notin T /\ NilNode \notin T
      /\ (Entries \ rest)' = T /\ S \subseteq Entries /\ S \subseteq Nodes
  BY <1>1, EntryFacts, SameHistory
<1> HIDE DEF S
<1>7. /\ new \in [Places -> Int]
      /\ new[x] = ord[HeadEntry] /\ new[HeadEntry] = ord[HeadEntry] - 1 /\ ord[HeadEntry] \in Int
      /\ \A z \in S : new[z] = ord[z] /\ ord[z] \in Int /\ ord[HeadEntry] < ord[z]
  BY <1>1, <1>5, <1>6 DEF IsOrder, Places
<1> HIDE DEF new
<1>8. /\ \A y, z \in S : y # z => ord[y] # ord[z]
      /\ \A y, z \in S : ord[y] < ord[z] => ~Less(z, y)
      /\ entry = NilNode => S = {}
      /\ entry # NilNode => entry \in S /\ \A z \in S : ord[entry] <= ord[z]
  BY <1>5, <1>6, <1>7 DEF IsOrder, IsNext
<1>9. /\ IsOrder(new, T)'
  <2>1. \A z \in T : new[HeadEntry] < new[z]
    BY <1>7
  <2>2. \A y, z \in T : y # z => new[y] # new[z]
    BY <1>7, <1>8
  <2>3. \A y, z \in T : new[y] < new[z] => ~Less(z, y)
    BY <1>1, <1>5, <1>7, <1>8
  <2>4. T' = T
    BY <1>6 DEF T, S
  <2> QED BY <1>7, <2>1, <2>2, <2>3, <2>4, SameHistory DEF IsOrder
<1>10. IsNext(new, T, HeadEntry, x)
  BY <1>1, <1>7 DEF IsNext
<1>11. ASSUME NEW z \in T PROVE IsNext(new, T, z, list'.next[z])
  <2>1. CASE z = x
    <3>1. list'.next[z] = entry
      BY <1>1, <1>2, <2>1 DEF ListType
    <3> QED BY <1>6, <1>7, <1>8, <2>1, <3>1 DEF IsNext
  <2>2. CASE z # x
    <3>1. z \in S /\ list'.next[z] = list.next[z]
      BY <1>1, <1>2, <1>6, <2>2 DEF ListType
    <3> QED BY <1>5, <1>6, <1>7, <3>1 DEF IsNext
  <2> QED BY <2>1, <2>2
<1>12. ASSUME NEW z \in T, z # x PROVE IsPrev(new, T, z, list'.prev[z])
  <2>1. CASE z = entry
    <3>1. list'.prev[z] = x
      BY <1>1, <1>2, <1>6, <2>1 DEF ListType
    <3> QED BY <1>1, <1>6, <1>7, <1>8, <2>1, <3>1 DEF IsPrev
  <2>2. CASE z # entry
    <3>1. z \in S /\ list'.prev[z] = list.prev[z]
      BY <1>1, <1>2, <1>6, <2>2, <1>12 DEF ListType
    <3>2. IsPrev(ord, S, z, list.prev[z]) /\ list.prev[z] # HeadEntry
      BY <1>5, <1>7, <1>8, <2>2, <3>1 DEF IsPrev
    <3> QED BY <1>1, <1>6, <1>7, <3>1, <3>2 DEF IsPrev
  <2> QED BY <2>1, <2>2
<1>13. \A z \in T, y \in rest' : ~Less(z, y)
  BY <1>5
<1>14. Built(new)'
  <2>1. IsOrder(new, Entries \ rest)'
    BY <1>6, <1>9 DEF T, S
  <2> QED BY <1>6, <1>10, <1>11, <1>12, <1>13, <2>1, SameHistory DEF Built
<1> QED BY <1>3, <1>14 DEF ListInv

LEMMA LinkHeadList ==
  ASSUME TypeInv, ListInv, LinkHead
  PROVE  TypeInv' /\ list'.next[HeadEntry] = entry' /\ \E ord : SearchList(ord)'
<1> USE DEF LinkHead
<1>1. /\ HistoryOK /\ TypeOK /\ list \in ListType /\ entry \in Nodes /\ HeadEntry \in Nodes
      /\ HeadEntry # NilNode /\ HeadEntry \notin Entries /\ NilNode \notin Entries
  BY EntryFacts DEF TypeInv, TypeOK
<1>2. /\ list' \in ListType
      /\ list'.next = [list.next EXCEPT ![HeadEntry] = entry]
      /\ list'.prev = IF entry = NilNode THEN list.prev ELSE [list.prev EXCEPT ![entry] = HeadEntry]
  <2>1. list' = SetPrev(SetNext(list, HeadEntry, entry), entry, HeadEntry)
    BY DEF InsertBefore
  <2> QED BY <1>1, <2>1, SetBothLinks
<1>3. TypeInv'
  <2>1. list'.next[NilNode] = NilNode /\ list'.prev[NilNode] = NilNode
        /\ list'.next \in [Nodes -> Nodes] /\ list'.prev \in [Nodes -> Nodes]
    BY <1>1, <1>2, EntryFacts DEF TypeOK, ListType
  <2> QED BY <1>1, <1>2, <2>1, SameHistory DEF TypeInv, TypeOK
<1>4. PICK ord : Built(ord)
  BY DEF ListInv
<1>5. /\ IsOrder(ord, Entries) /\ IsNext(ord, Entries, HeadEntry, entry)
      /\ \A z \in Entries : IsNext(ord, Entries, z, list.next[z])
      /\ \A z \in Entries : z # entry => IsPrev(ord, Entries, z, list.prev[z])
  <2>1. Entries \ rest = Entries
    OBVIOUS
  <2> QED BY <1>4, <2>1 DEF Built
<1>6. /\ \A z \in Entries : ord[z] \in Int /\ ord[HeadEntry] \in Int /\ ord[HeadEntry] < ord[z]
      /\ entry = NilNode => Entries = {}
      /\ entry # NilNode => entry \in Entries /\ \A z \in Entries : ord[entry] <= ord[z]
  BY <1>1, <1>5 DEF IsOrder, IsNext, Places
<1>7. calls' = <<>> /\ Len(calls') + 1 = 1 /\ 1 .. 1 - 1 = {} /\ linearized' = {}
  BY DEF ListInv
<1>8. Before(calls, Len(calls) + 1)' = {} /\ Left(calls, Len(calls) + 1)' = Entries
  BY <1>7, SameHistory DEF Before, Left
<1>9. \A z \in Entries \cup {HeadEntry} : IsNext(ord, Entries, z, list'.next[z])
  <2>1. ASSUME NEW z \in Entries PROVE IsNext(ord, Entries, z, list'.next[z])
    <3>1. list'.next[z] = list.next[z]
      BY <1>1, <1>2, EntryFacts DEF ListType
    <3> QED BY <1>5, <3>1
  <2>2. list'.next[HeadEntry] = entry
    BY <1>1, <1>2 DEF ListType
  <2> QED BY <1>5, <2>1, <2>2
<1>10. ASSUME NEW z \in Entries PROVE IsPrev(ord, Entries, z, list'.prev[z])
  <2>1. CASE z = entry
    <3>1. list'.prev[z] = HeadEntry
      BY <1>1, <1>2, <2>1 DEF ListType
    <3> QED BY <1>1, <1>6, <2>1, <3>1 DEF IsPrev
  <2>2. CASE z # entry
    <3>1. list'.prev[z] = list.prev[z]
      BY <1>1, <1>2, <2>2, EntryFacts DEF ListType
    <3> QED BY <1>5, <2>2, <3>1
  <2> QED BY <2>1, <2>2
<1>11. Linked(ord, list', Entries)
  BY <1>9, <1>10 DEF Linked
<1>12. IsOrder(ord, Entries)'
  BY <1>5, SameHistory DEF IsOrder
<1>13. StackLinks(ord)'
  BY <1>7 DEF StackLinks
<1>14. Walked(ord)'
  <2>1. \/ entry' = NilNode /\ Entries = {}
        \/ entry' \in Entries /\ \A z \in Entries : ord[z] < ord[entry'] => z[1] = "call"
    BY <1>6
  <2> QED BY <1>7, <1>8, <2>1 DEF Walked
<1>15. SearchList(ord)'
  BY <1>7, <1>8, <1>11, <1>12, <1>13, <1>14 DEF SearchList
<1>16. list'.next[HeadEntry] = entry'
  BY <1>1, <1>2 DEF ListType
<1> QED BY <1>3, <1>15, <1>16

LEMMA OrderFacts ==
  ASSUME HistoryOK, NEW ord, IsOrder(ord, Entries)
  PROVE  /\ \A x \in Places : ord[x] \in Int
         /\ \A x \in Entries : ord[HeadEntry] < ord[x]
         /\ \A x, y \in Entries : x # y => ord[x] # ord[y]
         /\ \A x, y \in Entries : Less(x, y) => ord[x] < ord[y]
         /\ \A i \in Ids : ord[CallOf(i)] < ord[RetOf(i)]
<1>1. \A x \in Places : ord[x] \in Int
  BY DEF IsOrder
<1>2. /\ \A x \in Entries : ord[HeadEntry] < ord[x]
      /\ \A x, y \in Entries : x # y => ord[x] # ord[y]
      /\ \A x, y \in Entries : ord[x] < ord[y] => ~Less(y, x)
  BY DEF IsOrder
<1>3. \A x \in Entries : ~Less(x, x)
  BY EntryFacts DEF HistoryOK, Less, Time
<1>4. ASSUME NEW x \in Entries, NEW y \in Entries, Less(x, y) PROVE ord[x] < ord[y]
  BY <1>1, <1>2, <1>3, <1>4 DEF Places
<1>5. \A i \in Ids : ord[CallOf(i)] < ord[RetOf(i)]
  BY <1>4, LessFacts, EntryFacts
<1> QED BY <1>1, <1>2, <1>4, <1>5

LEMMA NewStateType ==
  ASSUME HistoryOK, NEW i \in Ids, NEW st \in Seq(Values)
  PROVE  NewState(st, history[i]) \in Seq(Values)
<1>1. /\ history[i].input.op \in {"get", "put", "append"}
      /\ history[i].input.value \in Seq(Values)
  BY DEF HistoryOK
<1>2. st \o history[i].input.value \in Seq(Values)
  BY <1>1
<1> QED BY <1>1, <1>2 DEF NewState

\* What an iteration of the search looks at.
LEMMA EntryIsLeft ==
  ASSUME TypeInv, NEW ord, SearchList(ord), Searching
  PROVE  LET S == Left(calls, Len(calls) + 1) IN
         /\ entry \in S /\ entry[2] \in Ids /\ entry[2] \notin linearized
         /\ \A z \in S : ord[z] < ord[entry] => z[1] = "call"
         /\ CallOf(entry[2]) \in S /\ RetOf(entry[2]) \in S
         /\ entry = IF IsCall THEN CallOf(entry[2]) ELSE RetOf(entry[2])
<1> DEFINE S == Left(calls, Len(calls) + 1)
<1>1. list.next[HeadEntry] \in S
  BY DEF Searching, SearchList, Linked, IsNext
<1>2. entry \in S /\ \A z \in S : ord[z] < ord[entry] => z[1] = "call"
  BY <1>1 DEF SearchList, Walked
<1>3. entry \in Entries /\ entry[2] \in Ids /\ entry[2] \notin linearized
  BY <1>2, EntryFacts DEF SearchList, Left
<1>4. CallOf(entry[2]) \in S /\ RetOf(entry[2]) \in S
  BY <1>3, EntryFacts DEF SearchList, Left
<1>5. entry = IF IsCall THEN CallOf(entry[2]) ELSE RetOf(entry[2])
  BY <1>3, EntryFacts DEF IsCall
<1> QED BY <1>2, <1>3, <1>4, <1>5

LEMMA LinearizeList ==
  ASSUME TypeInv, NEW ord, SearchList(ord), Linearize
  PROVE  TypeInv' /\ SearchList(ord)'
<1> DEFINE i == entry[2]
           c == CallOf(i)
           r == RetOf(i)
           e == [id |-> i, state |-> state]
           n == Len(calls) + 1
           S == Left(calls, n)
<1>0. /\ HistoryOK /\ TypeOK /\ list \in ListType /\ calls \in Seq(Frames) /\ IsOrder(ord, Entries)
      /\ state \in Seq(Values) /\ linearized = Before(calls, n) /\ Linked(ord, list, S)
      /\ StackLinks(ord) /\ Len(calls) \in Nat
  BY DEF TypeInv, TypeOK, SearchList, Frames
<1>1. /\ history' = history /\ rest' = rest /\ longest' = longest /\ kill' = kill /\ result' = result
      /\ cache' = cache \cup {Config} /\ calls' = Append(calls, e) /\ list' = Lift(list, entry)
      /\ state' = NewState(state, history[i]) /\ linearized' = linearized \cup {i}
      /\ entry' = list'.next[HeadEntry] /\ Searching /\ IsCall
  BY DEF Linearize, Iterate, Op
<1>2. /\ entry \in S /\ i \in Ids /\ i \notin linearized
      /\ \A z \in S : ord[z] < ord[entry] => z[1] = "call"
      /\ c \in S /\ r \in S /\ entry = c
  BY <1>1, EntryIsLeft
<1>3. e \in Frames /\ e.id = i
  BY <1>0, <1>2 DEF Frames
<1> HIDE DEF e
<1>4. /\ calls' \in Seq(Frames) /\ Len(calls') = n
      /\ \A k \in 1 .. Len(calls) : calls'[k] = calls[k]
      /\ calls'[n] = e
      /\ \A k \in 1 .. n : Before(calls', k) = Before(calls, k) /\ Left(calls', k) = Left(calls, k)
      /\ Before(calls', n + 1) = Before(calls, n) \cup {i}
      /\ Left(calls', n + 1) = S \ {c, r}
  BY <1>0, <1>1, <1>3, PushFacts
<1>5. \A k : Left(calls, k)' = Left(calls', k)
  BY <1>1, SameHistory DEF Left
<1> HIDE DEF c, r, i
<1>6. /\ list' \in ListType
      /\ Linked(ord, list', S \ {c, r})
      /\ IsNext(ord, S, c, list'.next[c]) /\ IsPrev(ord, S, c, list'.prev[c])
      /\ IsNext(ord, S \ {c}, r, list'.next[r]) /\ IsPrev(ord, S \ {c}, r, list'.prev[r])
      /\ SameOutside(list, list', S)
  <2>1. S \in SUBSET Entries
    BY DEF Left
  <2>2. list' = Lift(list, c)
    BY <1>1, <1>2
  <2> HIDE DEF S
  <2> QED BY <1>0, <1>2, <2>1, <2>2, LiftStep DEF c, r
<1> HIDE DEF S
<1>7. NewState(state, history[i]) \in Seq(Values)
  BY <1>0, <1>2, NewStateType
<1>8. TypeInv'
  <2>1. list'.next \in [Nodes -> Nodes] /\ list'.prev \in [Nodes -> Nodes] /\ entry' \in Nodes
    BY <1>1, <1>6, EntryFacts DEF ListType
  <2>2. list'.next[NilNode] = NilNode /\ list'.prev[NilNode] = NilNode
    <3>1. NilNode \in Nodes /\ NilNode \notin S \cup {HeadEntry}
      BY EntryFacts DEF S, Left
    <3> QED BY <1>0, <1>6, <3>1 DEF SameOutside, TypeOK
  <2>3. Config = <<linearized \cup {i}, NewState(state, history[i])>>
    BY DEF Config, Op, i
  <2>4. \A x \in cache' : x[1] \subseteq Ids /\ x[2] \in Seq(Values)
    BY <1>0, <1>1, <1>2, <1>7, <2>3 DEF TypeOK
  <2>5. calls' \in Seq([id : Ids, state : Seq(Values)])
    BY <1>4 DEF Frames
  <2>6. HistoryOK' /\ Ids' = Ids /\ Nodes' = Nodes /\ Entries' = Entries /\ ListType' = ListType
    BY <1>0, <1>1, SameHistory
  <2>7. TypeOK'
    BY <1>0, <1>1, <1>2, <1>7, <2>1, <2>2, <2>4, <2>5, <2>6 DEF TypeOK
  <2> QED BY <1>6, <2>6, <2>7 DEF TypeInv
<1>9. IsOrder(ord, Entries)'
  BY <1>0, <1>1, SameHistory DEF IsOrder
<1>10. Len(calls') + 1 = n + 1
  BY <1>4
<1>11. Left(calls, Len(calls) + 1)' = S \ {c, r}
  BY <1>4, <1>5, <1>10
<1>12. linearized' = Before(calls, Len(calls) + 1)'
  BY <1>0, <1>1, <1>4, <1>10
<1>13. StackLinks(ord)'
  <2>1. ASSUME NEW k \in 1 .. n PROVE FrameLinks(ord, Left(calls, k)', list', calls'[k].id)
    <3>1. CASE k = n
      <4>1. calls'[k].id = i /\ Left(calls, k)' = S
        BY <1>0, <1>3, <1>4, <1>5, <3>1 DEF S
      <4>2. FrameLinks(ord, S, list', i)
        BY <1>2, <1>6 DEF c, r, FrameLinks
      <4> QED BY <4>1, <4>2
    <3>2. CASE k # n
      <4> DEFINE d == CallOf(calls[k].id)
                 q == RetOf(calls[k].id)
                 U == Left(calls, k)
      <4>1. k \in 1 .. Len(calls)
        BY <1>0, <3>2
      <4>2. calls'[k] = calls[k] /\ Left(calls, k)' = U /\ calls[k].id \in Ids
        <5>1. calls[k] \in Frames
          BY <1>0, <4>1
        <5> QED BY <1>4, <1>5, <4>1, <5>1 DEF Frames
      <4>3. FrameLinks(ord, U, list, calls[k].id)
        BY <1>0, <4>1 DEF StackLinks
      <4>4. calls[k].id \in Before(calls, n)
        BY <1>0, <4>1 DEF Before
      <4>5. d \in Nodes /\ q \in Nodes /\ d \notin S \cup {HeadEntry} /\ q \notin S \cup {HeadEntry}
        BY <4>2, <4>4, EntryFacts DEF S, Left
      <4>6. /\ list'.next[d] = list.next[d] /\ list'.prev[d] = list.prev[d]
            /\ list'.next[q] = list.next[q] /\ list'.prev[q] = list.prev[q]
        BY <1>6, <4>5 DEF SameOutside
      <4>7. FrameLinks(ord, U, list', calls[k].id)
        BY <4>3, <4>6 DEF FrameLinks
      <4> QED BY <4>2, <4>7
    <3> QED BY <3>1, <3>2
  <2>2. 1 .. Len(calls') = 1 .. n
    BY <1>4
  <2> HIDE DEF n
  <2> QED BY <2>1, <2>2 DEF StackLinks
<1>14. Walked(ord)'
  <2>1. IsNext(ord, S \ {c, r}, HeadEntry, entry')
    BY <1>1, <1>6 DEF Linked
  <2>2. \A z \in S : ord[z] \in Int /\ ord[HeadEntry] \in Int /\ ord[HeadEntry] < ord[z]
    BY <1>0, OrderFacts DEF S, Left, Places
  <2>3. \/ entry' = NilNode /\ S \ {c, r} = {}
        \/ entry' \in S \ {c, r} /\ \A z \in S \ {c, r} : ord[z] < ord[entry'] => z[1] = "call"
    BY <2>1, <2>2 DEF IsNext
  <2> QED BY <1>11, <2>3 DEF Walked
<1>15. SearchList(ord)'
  BY <1>6, <1>9, <1>11, <1>12, <1>13, <1>14 DEF SearchList
<1> QED BY <1>8, <1>15

\* The walk never runs past the return of an operation that is left, so the
\* entry behind a call that is passed is left as well.
LEMMA PassCall ==
  ASSUME HistoryOK, NEW ord, IsOrder(ord, Entries), NEW S \in SUBSET Entries, NEW i \in Ids,
         CallOf(i) \in S, RetOf(i) \in S, NEW y, IsNext(ord, S, CallOf(i), y),
         \A z \in S : ord[z] < ord[CallOf(i)] => z[1] = "call"
  PROVE  y \in S /\ \A z \in S : ord[z] < ord[y] => z[1] = "call" /\ ord[z] <= ord[CallOf(i)]
<1>1. ord[CallOf(i)] < ord[RetOf(i)] /\ \A z \in S : ord[z] \in Int
  BY OrderFacts DEF Places
<1>2. y # NilNode
  BY <1>1 DEF IsNext
<1>3. y \in S /\ \A z \in S : ord[CallOf(i)] < ord[z] => ord[y] <= ord[z]
  BY <1>2 DEF IsNext
<1>4. ASSUME NEW z \in S, ord[z] < ord[y] PROVE z[1] = "call" /\ ord[z] <= ord[CallOf(i)]
  <2>1. ord[z] <= ord[CallOf(i)]
    BY <1>1, <1>3, <1>4
  <2>2. CASE z = CallOf(i)
    BY <2>1, <2>2, EntryFacts
  <2>3. CASE z # CallOf(i)
    <3>1. ord[z] # ord[CallOf(i)]
      BY <2>3, OrderFacts
    <3> QED BY <1>1, <2>1, <3>1
  <2> QED BY <2>2, <2>3
<1> QED BY <1>3, <1>4

LEMMA SkipList ==
  ASSUME TypeInv, NEW ord, SearchList(ord), Skip
  PROVE  TypeInv' /\ SearchList(ord)'
<1> DEFINE S == Left(calls, Len(calls) + 1)
<1>1. /\ UNCHANGED <<history, rest, list, state, linearized, cache, calls, longest, kill, result>>
      /\ entry' = list.next[entry] /\ Searching /\ IsCall
  BY DEF Skip, Iterate
<1>2. /\ entry \in S /\ \A z \in S : ord[z] < ord[entry] => z[1] = "call"
      /\ entry[2] \in Ids /\ CallOf(entry[2]) \in S /\ RetOf(entry[2]) \in S /\ entry = CallOf(entry[2])
  BY <1>1, EntryIsLeft
<1>3. /\ HistoryOK /\ TypeOK /\ list \in ListType /\ IsOrder(ord, Entries) /\ Linked(ord, list, S)
      /\ S \in SUBSET Entries
  BY DEF TypeInv, SearchList, Left
<1>4. IsNext(ord, S, CallOf(entry[2]), entry')
  BY <1>1, <1>2, <1>3 DEF Linked
<1>5. S' = S /\ IsOrder(ord, Entries)' /\ (linearized = Before(calls, Len(calls) + 1))' /\ StackLinks(ord)'
  BY <1>1, SameHistory DEF SearchList, Left, StackLinks, IsOrder
<1> HIDE DEF S
<1>6. entry' \in S /\ \A z \in S : ord[z] < ord[entry'] => z[1] = "call"
  <2> DEFINE i == entry[2]
             y == entry'
  <2>1. /\ i \in Ids /\ CallOf(i) \in S /\ RetOf(i) \in S /\ IsNext(ord, S, CallOf(i), y)
        /\ \A z \in S : ord[z] < ord[CallOf(i)] => z[1] = "call"
    BY <1>2, <1>4
  <2> HIDE DEF i, y
  <2>2. y \in S /\ \A z \in S : ord[z] < ord[y] => z[1] = "call"
    BY <1>3, <2>1, PassCall
  <2> QED BY <2>2 DEF y
<1>7. TypeInv'
  <2>1. entry' \in Nodes
    BY <1>3, <1>6, EntryFacts
  <2> QED BY <1>1, <1>3, <2>1, SameHistory DEF TypeInv, TypeOK
<1>8. Linked(ord, list', S)
  BY <1>1, <1>3
<1>9. SearchList(ord)'
  BY <1>5, <1>6, <1>8 DEF SearchList, Walked, S
<1> QED BY <1>7, <1>9

LEMMA BacktrackList ==
  ASSUME TypeInv, NEW ord, SearchList(ord), Backtrack
  PROVE  TypeInv' /\ SearchList(ord)'
<1> DEFINE n == Len(calls)
           e == calls[n]
           i == e.id
           c == CallOf(i)
           r == RetOf(i)
           S == Left(calls, n)
<1>0. /\ HistoryOK /\ TypeOK /\ list \in ListType /\ calls \in Seq(Frames) /\ IsOrder(ord, Entries)
      /\ linearized = Before(calls, n + 1) /\ Linked(ord, list, Left(calls, n + 1))
      /\ StackLinks(ord) /\ longest \in [Ids -> Seq(Ids)]
  BY DEF TypeInv, TypeOK, SearchList, Frames
<1>1. /\ history' = history /\ rest' = rest /\ cache' = cache /\ kill' = kill /\ result' = result
      /\ longest' = [x \in Ids |-> IF Longer(x) THEN CallIds ELSE longest[x]]
      /\ calls' = SubSeq(calls, 1, Len(calls) - 1) /\ list' = Unlift(list, c)
      /\ state' = e.state /\ linearized' = linearized \ {i}
      /\ entry' = list'.next[c] /\ calls # <<>>
  BY DEF Backtrack
<1>2. /\ calls' \in Seq(Frames) /\ Len(calls') = n - 1 /\ n \in Nat /\ n > 0 /\ e \in Frames
      /\ \A k \in 1 .. n - 1 : calls'[k] = calls[k]
      /\ calls = Append(calls', e)
  BY <1>0, <1>1, PopFacts
<1>3. /\ \A k \in 1 .. n : Before(calls, k) = Before(calls', k) /\ Left(calls, k) = Left(calls', k)
      /\ Before(calls, n + 1) = Before(calls', n) \cup {i}
      /\ Left(calls, n + 1) = Left(calls', n) \ {c, r}
  <2> DEFINE cs == calls'
  <2>1. cs \in Seq(Frames) /\ calls = Append(cs, e) /\ Len(cs) + 1 = n /\ Len(calls) = n
    BY <1>2
  <2> HIDE DEF cs, n, e
  <2>2. LET ds == Append(cs, e) IN
        /\ \A k \in 1 .. Len(cs) + 1 : Before(ds, k) = Before(cs, k) /\ Left(ds, k) = Left(cs, k)
        /\ Before(ds, Len(ds) + 1) = Before(cs, Len(cs) + 1) \cup {e.id}
        /\ Left(ds, Len(ds) + 1) = Left(cs, Len(cs) + 1) \ {CallOf(e.id), RetOf(e.id)}
    BY <1>2, <2>1, PushFacts
  <2> QED BY <2>1, <2>2 DEF cs
<1>4. \A k : Left(calls, k)' = Left(calls', k)
  BY <1>1, SameHistory DEF Left
<1>5. Left(calls', n) = S /\ n \in 1 .. n /\ i \in Ids
  BY <1>2, <1>3 DEF Frames
<1>6. FrameLinks(ord, S, list, i) /\ i \notin Before(calls, n) /\ S \in SUBSET Entries
  <2>1. FrameLinks(ord, S, list, i)
    BY <1>0, <1>5 DEF StackLinks
  <2> QED BY <1>5, <2>1, EntryFacts DEF FrameLinks, Left
<1> HIDE DEF S, c, r, i, e
<1>7. list' \in ListType /\ Linked(ord, list', S) /\ SameOutside(list, list', S)
  <2>1. Linked(ord, list, S \ {c, r})
    BY <1>0, <1>3, <1>5
  <2> QED BY <1>0, <1>1, <1>5, <1>6, <2>1, UnliftStep DEF FrameLinks, c, r
<1>8. entry' \in S /\ \A z \in S : ord[z] < ord[entry'] => z[1] = "call"
  <2> DEFINE y == entry'
  <2>1. IsNext(ord, S, CallOf(i), y)
    BY <1>1, <1>6, <1>7 DEF Linked, FrameLinks, c
  <2> HIDE DEF y
  <2>2. /\ CallOf(i) \in S /\ RetOf(i) \in S
        /\ \A z \in S : ord[z] < ord[CallOf(i)] => z[1] = "call"
    BY <1>6 DEF FrameLinks
  <2>3. y \in S /\ \A z \in S : ord[z] < ord[y] => z[1] = "call"
    BY <1>0, <1>5, <1>6, <2>1, <2>2, PassCall
  <2> QED BY <2>3 DEF y
<1>9. TypeInv'
  <2>1. list'.next \in [Nodes -> Nodes] /\ list'.prev \in [Nodes -> Nodes] /\ entry' \in Nodes
    BY <1>6, <1>7, <1>8, EntryFacts DEF ListType
  <2>2. list'.next[NilNode] = NilNode /\ list'.prev[NilNode] = NilNode
    <3>1. NilNode \in Nodes /\ NilNode \notin S \cup {HeadEntry}
      BY <1>6, EntryFacts
    <3> QED BY <1>0, <1>7, <3>1 DEF SameOutside, TypeOK
  <2>3. CallIds \in Seq(Ids)
    <3>1. ASSUME NEW k \in 1 .. Len(calls) PROVE calls[k].id \in Ids
      <4>1. calls[k] \in Frames
        BY <1>0
      <4> QED BY <4>1 DEF Frames
    <3> QED BY <1>2, <3>1 DEF CallIds
  <2>4. longest' \in [Ids -> Seq(Ids)]
    BY <1>0, <1>1, <2>3
  <2>5. calls' \in Seq([id : Ids, state : Seq(Values)]) /\ state' \in Seq(Values)
    BY <1>1, <1>2 DEF Frames
  <2>6. HistoryOK' /\ Ids' = Ids /\ Nodes' = Nodes /\ Entries' = Entries /\ ListType' = ListType
    BY <1>0, <1>1, SameHistory
  <2>7. TypeOK'
    BY <1>0, <1>1, <2>1, <2>2, <2>4, <2>5, <2>6 DEF TypeOK
  <2> QED BY <1>7, <2>6, <2>7 DEF TypeInv
<1>10. IsOrder(ord, Entries)'
  BY <1>0, <1>1, SameHistory DEF IsOrder
<1>11. Left(calls, Len(calls) + 1)' = S /\ Before(calls, Len(calls) + 1)' = Before(calls, n)
  <2>1. Len(calls') + 1 = n
    BY <1>2
  <2> QED BY <1>3, <1>4, <1>5, <2>1
<1>12. linearized' = Before(calls, n)
  BY <1>0, <1>1, <1>3, <1>5, <1>6
<1>13. StackLinks(ord)'
  <2>1. ASSUME NEW k \in 1 .. n - 1 PROVE FrameLinks(ord, Left(calls, k)', list', calls'[k].id)
    <3> DEFINE d == CallOf(calls[k].id)
               q == RetOf(calls[k].id)
               U == Left(calls, k)
    <3>1. k \in 1 .. n /\ k \in 1 .. Len(calls)
      BY <1>2
    <3>2. calls'[k] = calls[k] /\ Left(calls, k)' = U /\ calls[k].id \in Ids
      <4>1. calls[k] \in Frames
        BY <1>0, <3>1
      <4> QED BY <1>2, <1>3, <1>4, <3>1, <4>1 DEF Frames
    <3>3. FrameLinks(ord, U, list, calls[k].id)
      BY <1>0, <3>1 DEF StackLinks
    <3>4. calls[k].id \in Before(calls, n)
      BY <1>2, <3>1 DEF Before
    <3>5. d \in Nodes /\ q \in Nodes /\ d \notin S \cup {HeadEntry} /\ q \notin S \cup {HeadEntry}
      BY <3>2, <3>4, EntryFacts DEF S, Left
    <3>6. /\ list'.next[d] = list.next[d] /\ list'.prev[d] = list.prev[d]
          /\ list'.next[q] = list.next[q] /\ list'.prev[q] = list.prev[q]
      BY <1>7, <3>5 DEF SameOutside
    <3>7. FrameLinks(ord, U, list', calls[k].id)
      BY <3>3, <3>6 DEF FrameLinks
    <3> QED BY <3>2, <3>7
  <2>2. 1 .. Len(calls') = 1 .. n - 1
    BY <1>2
  <2> HIDE DEF n
  <2> QED BY <2>1, <2>2 DEF StackLinks
<1>14. Walked(ord)'
  BY <1>8, <1>11 DEF Walked
<1>15. SearchList(ord)'
  BY <1>7, <1>10, <1>11, <1>12, <1>13, <1>14 DEF SearchList
<1> QED BY <1>9, <1>15

\* The other steps leave the list alone.
LEMMA IdleList ==
  ASSUME TypeInv, NEW ord, SearchList(ord), result # "build",
         Killed \/ Fail \/ Succeed \/ Kill \/ UNCHANGED vars
  PROVE  TypeInv' /\ SearchList(ord)'
<1>1. /\ UNCHANGED <<history, rest, list, entry, state, linearized, cache, calls>>
      /\ kill' \in BOOLEAN /\ result' \in {"search", "true", "false"}
  BY DEF Killed, Fail, Succeed, Kill, vars, TypeInv, TypeOK
<1>2. longest' \in [Ids -> Seq(Ids)]
  <2>1. longest \in [Ids -> Seq(Ids)]
    BY DEF TypeInv, TypeOK
  <2>2. CASE Succeed
    <3>1. ASSUME NEW k \in 1 .. Len(calls) PROVE calls[k].id \in Ids
      <4>1. calls \in Seq(Frames)
        BY DEF TypeInv, TypeOK, Frames
      <4>2. calls[k] \in Frames
        BY <4>1
      <4> QED BY <4>2 DEF Frames
    <3>2. CallIds \in Seq(Ids)
      <4>1. Len(calls) \in Nat
        BY DEF TypeInv, TypeOK
      <4> QED BY <3>1, <4>1 DEF CallIds
    <3> QED BY <2>2, <3>2 DEF Succeed
  <2> QED BY <2>1, <2>2 DEF Killed, Fail, Kill, vars
<1>3. HistoryOK' /\ Ids' = Ids /\ Nodes' = Nodes /\ Entries' = Entries /\ ListType' = ListType
  BY <1>1, SameHistory DEF TypeInv
<1>4. TypeInv'
  BY <1>1, <1>2, <1>3 DEF TypeInv, TypeOK
<1>5. IsOrder(ord, Entries)'
  BY <1>1, SameHistory DEF SearchList, IsOrder
<1>6. \A k : Left(calls, k)' = Left(calls, k)
  BY <1>1, <1>3 DEF Left
<1>7. Walked(ord)' /\ StackLinks(ord)'
  BY <1>1, <1>6 DEF SearchList, Walked, StackLinks
<1>8. SearchList(ord)'
  BY <1>1, <1>5, <1>6, <1>7 DEF SearchList
<1> QED BY <1>4, <1>8

\* One order serves the whole search.
LEMMA SearchStep ==
  ASSUME TypeInv, NEW ord, SearchList(ord), result # "build", [Next]_vars
  PROVE  TypeInv' /\ SearchList(ord)' /\ result' # "build"
<1>1. CASE Linearize
  BY <1>1, LinearizeList DEF Linearize, Iterate, Searching
<1>2. CASE Skip
  BY <1>2, SkipList DEF Skip, Iterate, Searching
<1>3. CASE Backtrack
  BY <1>3, BacktrackList DEF Backtrack, Iterate, Searching
<1>4. CASE Killed \/ Fail \/ Succeed \/ Kill \/ UNCHANGED vars
  BY <1>4, IdleList DEF Killed, Fail, Succeed, Kill, vars
<1>5. ~LinkHead /\ ~ \E x \in rest : LinkEntry(x)
  BY DEF LinkHead, LinkEntry
<1> QED BY <1>1, <1>2, <1>3, <1>4, <1>5 DEF Next, Search

LEMMA ListStep == TypeInv /\ ListInv /\ [Next]_vars => TypeInv' /\ ListInv'
<1> SUFFICES ASSUME TypeInv, ListInv, [Next]_vars PROVE TypeInv' /\ ListInv'
  OBVIOUS
<1>1. CASE result # "build"
  BY <1>1, SearchStep DEF ListInv
<1>2. CASE result = "build" /\ \E x \in rest : LinkEntry(x)
  BY <1>2, LinkEntryList
<1>3. CASE result = "build" /\ LinkHead
  BY <1>3, LinkHeadList DEF ListInv, LinkHead
<1>4. CASE result = "build" /\ UNCHANGED vars
  <2>1. TypeInv'
    BY <1>4, SameHistory DEF vars, TypeInv, TypeOK
  <2>2. PICK ord : Built(ord)
    BY <1>4 DEF ListInv
  <2>3. Built(ord)'
    BY <1>4, <2>2, SameHistory DEF vars, Built, IsOrder
  <2> QED BY <1>4, <2>1, <2>3 DEF ListInv, vars
<1>5. result = "build" => ~Linearize /\ ~Skip /\ ~Backtrack /\ ~Killed /\ ~Fail /\ ~Succeed /\ ~Kill
  BY DEF Linearize, Skip, Backtrack, Killed, Fail, Succeed, Kill, Iterate, Searching
<1> QED BY <1>1, <1>2, <1>3, <1>4, <1>5 DEF Next, Search

\* makeLinkedEntries and lift never leave a gap in the list: its links and its
\* order are those of an order of time that is chosen once.
THEOREM ListInvariant == Spec => [](TypeInv /\ ListInv)
BY InitList, ListStep, PTL DEF Spec

\* Every variable of checkSingle has its type, and lift, unlift and
\* insertBefore never write through a nil pointer.
THEOREM SearchTypes == Spec => []TypeOK
<1>1. TypeInv /\ ListInv => TypeOK
  BY DEF TypeInv
<1> QED BY <1>1, ListInvariant, PTL

\* At every moment of the search the list holds exactly the entries of the
\* operations that are not linearized, in an order of time and linked both ways.
THEOREM ListHoldsTheRest == Spec => []ListIsRemaining
<1>1. ASSUME TypeInv, ListInv, result = "search" PROVE ListIsRemaining
  <2>1. PICK ord : SearchList(ord)
    BY <1>1 DEF ListInv
  <2> DEFINE S == {x \in Entries : x[2] \notin linearized}
  <2>2. S = Left(calls, Len(calls) + 1) /\ Linked(ord, list, S) /\ IsOrder(ord, Entries)
    BY <2>1 DEF SearchList, Left
  <2>3. S \subseteq Entries /\ HeadEntry \notin Entries /\ NilNode \notin Entries /\ HeadEntry # NilNode
    BY EntryFacts
  <2>4. /\ \A x \in S \cup {HeadEntry} : ord[x] \in Int
        /\ \A x \in S : ord[HeadEntry] < ord[x]
        /\ \A x, y \in S : x # y => ord[x] # ord[y]
        /\ \A x, y \in S : ord[x] < ord[y] => ~Less(y, x)
    BY <2>2 DEF IsOrder, Places
  <2> HIDE DEF S
  <2>5. ASSUME NEW x \in S \cup {HeadEntry}, list.next[x] # NilNode
        PROVE  list.next[x] \in S /\ list.prev[list.next[x]] = x
    <3>1. IsNext(ord, S, x, list.next[x]) /\ list.next[x] \in S
      BY <2>2, <2>5 DEF Linked, IsNext
    <3>2. IsPrev(ord, S, list.next[x], list.prev[list.next[x]])
      BY <2>2, <3>1 DEF Linked
    <3> QED BY <2>3, <2>4, <2>5, <3>1, <3>2 DEF IsNext, IsPrev
  <2>6. ASSUME NEW y \in S
        PROVE  /\ list.prev[y] \in S \cup {HeadEntry} /\ list.next[list.prev[y]] = y
               /\ list.prev[y] # HeadEntry => ~Less(y, list.prev[y])
    <3>1. IsPrev(ord, S, y, list.prev[y])
      BY <2>2 DEF Linked
    <3>2. list.prev[y] \in S \cup {HeadEntry} /\ ord[list.prev[y]] < ord[y]
      BY <2>4, <3>1 DEF IsPrev
    <3>3. IsNext(ord, S, list.prev[y], list.next[list.prev[y]])
      BY <2>2, <3>2 DEF Linked
    <3> QED BY <2>3, <2>4, <3>1, <3>2, <3>3 DEF IsNext, IsPrev
  <2> QED BY <2>5, <2>6 DEF ListIsRemaining, S
<1>2. TypeInv /\ ListInv => ListIsRemaining
  BY <1>1 DEF ListIsRemaining
<1> QED BY <1>2, ListInvariant, PTL

-----------------------------------------------------------------------------
(* Induction.                                                              *)

\* Every nonempty set of natural numbers has a least element.
LEMMA LeastNat ==
  ASSUME NEW T \in SUBSET Nat, T # {}
  PROVE  \E x \in T : \A y \in T : x <= y
<1> DEFINE R == OpToRel(<, Nat)
<1>1. IsWellFoundedOn(R, Nat)
  BY NatLessThanWellFounded
<1>2. R = {ss \in Nat \X Nat : ss[1] < ss[2]}
  BY DEF OpToRel
<1>3. \A x, y \in Nat : x < y => <<x, y>> \in R
  BY <1>2
<1> HIDE DEF R
<1>4. \E x \in T : \A y \in T : ~ (<<y, x>> \in R)
  BY <1>1, WFMin, Zenon
<1>5. PICK x \in T : \A y \in T : ~ (<<y, x>> \in R)
  BY <1>4, Zenon
<1>6. ASSUME NEW y \in T PROVE x <= y
  <2>1. ~(<<y, x>> \in R)
    BY <1>5, Zenon
  <2>2. x \in Nat /\ y \in Nat
    OBVIOUS
  <2>3. ~(y < x)
    BY <1>3, <2>1, <2>2, Zenon
  <2> QED BY <2>2, <2>3
<1> QED BY <1>6

\* A set of numbers that has 0, and with a number below n the next one, has
\* all the numbers up to n.
LEMMA UpTo ==
  ASSUME NEW n \in Nat, NEW P, 0 \in P, \A k \in 0 .. n : k < n /\ k \in P => k + 1 \in P
  PROVE  \A k \in 0 .. n : k \in P
<1> DEFINE T == {k \in 0 .. n : k \notin P}
<1> SUFFICES ASSUME T # {} PROVE FALSE
  OBVIOUS
<1>1. T \in SUBSET Nat
  OBVIOUS
<1>2. PICK x \in T : \A y \in T : x <= y
  BY <1>1, LeastNat
<1>3. x \in 0 .. n /\ x \notin P /\ x # 0
  OBVIOUS
<1>4. x - 1 \in 0 .. n /\ x - 1 < n /\ ~(x <= x - 1)
  BY <1>3
<1>5. x - 1 \in P
  BY <1>2, <1>4
<1>6. (x - 1) + 1 \in P
  BY <1>4, <1>5
<1> QED BY <1>3, <1>6

-----------------------------------------------------------------------------
(* The reference.                                                          *)

\* The recursion of StateAfter, for a sequence of operations.
LEMMA StateAfterRec ==
  ASSUME HistoryOK, NEW n \in Nat, NEW s \in [1 .. n -> Ids]
  PROVE  /\ StateAfter(s)[0] = KvInit
         /\ \A k \in 1 .. n : StateAfter(s)[k] = NewState(StateAfter(s)[k - 1], history[s[k]])
<1> DEFINE F(g, m) == [k \in 0 .. m |-> IF k = 0 THEN KvInit ELSE NewState(g[k - 1], history[s[k]])]
           P == {m \in 0 .. n : \E g : g = F(g, m)}
<1>1. Len(s) = n
  OBVIOUS
<1>2. StateAfter(s) = CHOOSE g : g = F(g, n)
  BY <1>1 DEF StateAfter, NewState
<1>3. 0 \in P
  <2> DEFINE g == [k \in 0 .. 0 |-> KvInit]
  <2>1. g = F(g, 0)
    OBVIOUS
  <2> HIDE DEF g, F
  <2>2. 0 \in 0 .. n
    OBVIOUS
  <2> QED BY <2>1, <2>2
<1>4. ASSUME NEW m \in 0 .. n, m < n, m \in P PROVE m + 1 \in P
  <2>1. PICK g : g = F(g, m)
    BY <1>4
  <2> DEFINE h == [k \in 0 .. m + 1 |-> IF k <= m THEN g[k] ELSE NewState(g[m], history[s[m + 1]])]
  <2>2. ASSUME NEW k \in 0 .. m + 1
        PROVE  h[k] = IF k = 0 THEN KvInit ELSE NewState(h[k - 1], history[s[k]])
    <3>1. CASE k = 0
      <4>1. g[0] = KvInit
        BY <2>1
      <4> QED BY <3>1, <4>1
    <3>2. CASE k # 0 /\ k <= m
      <4>1. k \in 0 .. m /\ k - 1 \in 0 .. m /\ k - 1 \in 0 .. m + 1
        BY <3>2
      <4>2. g[k] = NewState(g[k - 1], history[s[k]])
        BY <2>1, <3>2, <4>1
      <4>3. h[k] = g[k] /\ h[k - 1] = g[k - 1]
        BY <3>2, <4>1
      <4> QED BY <3>2, <4>2, <4>3
    <3>3. CASE k = m + 1
      <4>1. h[k] = NewState(g[m], history[s[m + 1]]) /\ h[k - 1] = g[m] /\ k # 0
        BY <3>3
      <4> QED BY <3>3, <4>1
    <3> QED BY <3>1, <3>2, <3>3
  <2>3. h = F(h, m + 1)
    <3>1. h = [k \in 0 .. m + 1 |-> h[k]]
      OBVIOUS
    <3> HIDE DEF h
    <3> QED BY <2>2, <3>1
  <2> HIDE DEF h, F
  <2>4. m + 1 \in 0 .. n
    BY <1>4
  <2> QED BY <2>3, <2>4
<1> HIDE DEF P
<1>5. n \in P
  <2>1. \A m \in 0 .. n : m < n /\ m \in P => m + 1 \in P
    BY <1>4
  <2>2. \A m \in 0 .. n : m \in P
    BY <1>3, <2>1, UpTo, Zenon
  <2> QED BY <2>2
<1>6. \E g : g = F(g, n)
  BY <1>5 DEF P
<1> DEFINE f == StateAfter(s)
<1>7. f = F(f, n)
  <2> HIDE DEF F
  <2> QED BY <1>2, <1>6, Zenon
<1> HIDE DEF f
<1> QED BY <1>7 DEF f

LEMMA IdsFinite ==
  ASSUME HistoryOK
  PROVE  IsFiniteSet(Ids) /\ Cardinality(Ids) = Len(history) /\ Len(history) \in Nat
<1>1. Len(history) \in Nat /\ Ids = 1 .. Len(history)
  BY DEF HistoryOK
<1> DEFINE m == Len(history)
<1>2. m \in Nat
  BY <1>1
<1> HIDE DEF m
<1>3. IsFiniteSet(1 .. m) /\ Cardinality(1 .. m) = m
  BY <1>2, FS_Interval
<1> QED BY <1>1, <1>3 DEF m

\* Distinct operations: as many as the sequence is long.
LEMMA CountIds ==
  ASSUME HistoryOK, NEW n \in Nat, NEW s \in [1 .. n -> Ids],
         \A a, b \in 1 .. n : a # b => s[a] # s[b]
  PROVE  /\ IsFiniteSet(Ids) /\ Cardinality(Ids) = Len(history)
         /\ \A k \in 0 .. n : LET A == {s[j] : j \in 1 .. k} IN
              A \subseteq Ids /\ IsFiniteSet(A) /\ Cardinality(A) = k
         /\ n <= Len(history)
         /\ n = Len(history) <=> {s[j] : j \in 1 .. n} = Ids
<1>1. IsFiniteSet(Ids) /\ Cardinality(Ids) = Len(history) /\ Len(history) \in Nat
  BY IdsFinite
<1>2. ASSUME NEW k \in 0 .. n
      PROVE  LET A == {s[j] : j \in 1 .. k} IN
             A \subseteq Ids /\ IsFiniteSet(A) /\ Cardinality(A) = k
  <2> DEFINE A == {s[j] : j \in 1 .. k}
             t == [j \in 1 .. k |-> s[j]]
  <2>1. A \subseteq Ids
    OBVIOUS
  <2>2. t \in Bijection(1 .. k, A)
    BY DEF Bijection, Injection, Surjection, IsInjective
  <2>3. ExistsBijection(1 .. k, A)
    BY <2>2 DEF ExistsBijection
  <2>4. IsFiniteSet(1 .. k) /\ Cardinality(1 .. k) = k
    BY FS_Interval
  <2> HIDE DEF A
  <2>5. IsFiniteSet(A) /\ Cardinality(A) = k
    BY <2>3, <2>4, FS_Bijection
  <2> QED BY <2>1, <2>5 DEF A
<1>3. n <= Len(history) /\ (n = Len(history) <=> {s[j] : j \in 1 .. n} = Ids)
  <2> DEFINE A == {s[j] : j \in 1 .. n}
  <2>1. n \in 0 .. n
    OBVIOUS
  <2>2. A \subseteq Ids /\ IsFiniteSet(A) /\ Cardinality(A) = n
    BY <1>2, <2>1
  <2> HIDE DEF A
  <2>3. Cardinality(A) <= Cardinality(Ids) /\ (Cardinality(Ids) = Cardinality(A) => Ids = A)
    BY <1>1, <2>2, FS_Subset
  <2> QED BY <1>1, <2>2, <2>3 DEF A
<1> QED BY <1>1, <1>2, <1>3

-----------------------------------------------------------------------------
(* The stack.                                                              *)

\* The state of the object at level k of the stack.
StateAt(k) == IF k <= Len(calls) THEN calls[k].state ELSE state

StackStates ==
  /\ StateAt(1) = KvInit
  /\ \A k \in 1 .. Len(calls) :
       LET o == history[calls[k].id] IN
       StepOk(StateAt(k), o) /\ StateAt(k + 1) = NewState(StateAt(k), o)

LEMMA StackIds ==
  ASSUME TypeInv, NEW ord, SearchList(ord)
  PROVE  /\ Len(calls) \in Nat /\ CallIds \in [1 .. Len(calls) -> Ids]
         /\ \A k \in 1 .. Len(calls) : CallIds[k] = calls[k].id /\ calls[k].id \in Ids
         /\ \A a, b \in 1 .. Len(calls) : a # b => CallIds[a] # CallIds[b]
         /\ \A k \in 1 .. Len(calls) + 1 : Before(calls, k) = {CallIds[j] : j \in 1 .. k - 1}
<1>1. calls \in Seq(Frames) /\ Len(calls) \in Nat
  BY DEF TypeInv, TypeOK, Frames
<1>2. ASSUME NEW k \in 1 .. Len(calls) PROVE calls[k].id \in Ids
  <2>1. calls[k] \in Frames
    BY <1>1
  <2> QED BY <2>1 DEF Frames
<1>3. CallIds \in [1 .. Len(calls) -> Ids] /\ \A k \in 1 .. Len(calls) : CallIds[k] = calls[k].id
  BY <1>2 DEF CallIds
<1>4. ASSUME NEW a \in 1 .. Len(calls), NEW b \in 1 .. Len(calls), a < b PROVE CallIds[a] # CallIds[b]
  <2>1. CallOf(calls[b].id) \in Left(calls, b)
    BY DEF SearchList, StackLinks, FrameLinks
  <2>2. calls[b].id \notin Before(calls, b)
    BY <1>2, <2>1, EntryFacts DEF Left
  <2>3. calls[a].id \in Before(calls, b)
    BY <1>4 DEF Before
  <2> QED BY <1>3, <2>2, <2>3
<1>5. ASSUME NEW a \in 1 .. Len(calls), NEW b \in 1 .. Len(calls), a # b PROVE CallIds[a] # CallIds[b]
  <2>1. a < b \/ b < a
    BY <1>5
  <2> QED BY <1>4, <2>1
<1>6. ASSUME NEW k \in 1 .. Len(calls) + 1 PROVE Before(calls, k) = {CallIds[j] : j \in 1 .. k - 1}
  <2>1. \A j \in 1 .. k - 1 : j \in 1 .. Len(calls)
    BY <1>1
  <2> QED BY <1>3, <2>1 DEF Before
<1> QED BY <1>1, <1>2, <1>3, <1>5, <1>6

\* An operation that precedes a lifted one was lifted before it.
LEMMA StackOrder ==
  ASSUME TypeInv, NEW ord, SearchList(ord), NEW k \in 1 .. Len(calls), NEW i \in Ids,
         Precedes(i, calls[k].id)
  PROVE  i \in Before(calls, k)
<1> DEFINE c == CallOf(calls[k].id)
<1>1. HistoryOK /\ IsOrder(ord, Entries) /\ calls[k].id \in Ids
  BY StackIds DEF TypeInv, SearchList
<1>2. Less(RetOf(i), c) /\ RetOf(i) \in Entries /\ c \in Entries /\ RetOf(i)[1] = "return" /\ RetOf(i)[2] = i
  BY <1>1, LessFacts, EntryFacts
<1>3. ord[RetOf(i)] < ord[c]
  BY <1>1, <1>2, OrderFacts
<1>4. \A z \in Left(calls, k) : ord[z] < ord[c] => z[1] = "call"
  BY DEF SearchList, StackLinks, FrameLinks
<1>5. RetOf(i) \notin Left(calls, k)
  BY <1>2, <1>3, <1>4
<1> QED BY <1>2, <1>5 DEF Left

LEMMA StackIsPartialLinearization ==
  ASSUME TypeInv, NEW ord, SearchList(ord), StackStates
  PROVE  /\ CallsArePartialLinearization
         /\ CallIds \in PartialLinearizations
         /\ Len(CallIds) = Len(calls) /\ IsFiniteSet(linearized) /\ Cardinality(linearized) = Len(calls)
         /\ linearized = Ids <=> Len(calls) = Len(history)
<1> DEFINE n == Len(calls)
           s == CallIds
<1>1. /\ n \in Nat /\ s \in [1 .. n -> Ids]
      /\ \A k \in 1 .. n : s[k] = calls[k].id
      /\ \A a, b \in 1 .. n : a # b => s[a] # s[b]
      /\ \A k \in 1 .. n + 1 : Before(calls, k) = {s[j] : j \in 1 .. k - 1}
      /\ HistoryOK /\ linearized = Before(calls, n + 1)
  BY StackIds DEF TypeInv, SearchList
<1>2. linearized = {s[j] : j \in 1 .. n}
  <2>1. n + 1 \in 1 .. n + 1 /\ (n + 1) - 1 = n
    BY <1>1
  <2> QED BY <1>1, <2>1
<1>3. DOMAIN calls = 1 .. n /\ DOMAIN s = 1 .. n /\ Len(s) = n
  BY <1>1 DEF TypeInv, TypeOK
<1> HIDE DEF s
<1>4. \A k \in 0 .. n : StateAt(k + 1) = StateAfter(s)[k]
  <2> DEFINE P == {k \in 0 .. n : StateAt(k + 1) = StateAfter(s)[k]}
  <2>1. /\ StateAfter(s)[0] = KvInit
        /\ \A k \in 1 .. n : StateAfter(s)[k] = NewState(StateAfter(s)[k - 1], history[s[k]])
    BY <1>1, StateAfterRec
  <2>2. 0 \in P
    BY <1>1, <2>1 DEF StackStates
  <2>3. ASSUME NEW k \in 0 .. n, k < n, k \in P PROVE k + 1 \in P
    <3>1. k + 1 \in 1 .. n /\ k + 1 \in 0 .. n /\ (k + 1) - 1 = k
      BY <1>1, <2>3
    <3>2. StateAt((k + 1) + 1) = NewState(StateAt(k + 1), history[s[k + 1]])
      BY <1>1, <3>1 DEF StackStates
    <3>3. StateAfter(s)[k + 1] = NewState(StateAfter(s)[k], history[s[k + 1]])
      BY <2>1, <3>1
    <3>4. StateAt(k + 1) = StateAfter(s)[k]
      BY <2>3
    <3> QED BY <3>1, <3>2, <3>3, <3>4
  <2> HIDE DEF P, n
  <2>4. \A k \in 0 .. n : k < n /\ k \in P => k + 1 \in P
    BY <2>3
  <2>5. \A k \in 0 .. n : k \in P
    BY <1>1, <2>2, <2>4, UpTo, Zenon
  <2> QED BY <2>5 DEF P
<1>5. IsPartialLinearization(s)
  <2>1. ASSUME NEW k \in 1 .. n, NEW i \in Ids, Precedes(i, s[k]) PROVE \E m \in 1 .. k - 1 : s[m] = i
    <3>1. i \in Before(calls, k)
      BY <1>1, <2>1, StackOrder
    <3>2. k \in 1 .. n + 1
      BY <1>1
    <3> QED BY <1>1, <3>1, <3>2
  <2>2. ASSUME NEW k \in 1 .. n, history[s[k]].input.op = "get"
        PROVE  history[s[k]].output = StateAfter(s)[k - 1]
    <3>1. k - 1 \in 0 .. n /\ (k - 1) + 1 = k
      BY <1>1
    <3>2. StateAt(k) = StateAfter(s)[k - 1]
      BY <1>4, <3>1
    <3>3. StepOk(StateAt(k), history[s[k]])
      BY <1>1 DEF StackStates
    <3> QED BY <2>2, <3>2, <3>3 DEF StepOk
  <2> QED BY <1>3, <2>1, <2>2 DEF IsPartialLinearization
<1>6. state = StateAfter(s)[n]
  <2>1. n \in 0 .. n /\ ~(n + 1 <= Len(calls))
    BY <1>1
  <2> QED BY <1>4, <2>1 DEF StateAt
<1>7. /\ IsFiniteSet(linearized) /\ Cardinality(linearized) = n /\ n <= Len(history)
      /\ n = Len(history) <=> linearized = Ids
  <2>1. n \in 0 .. n
    BY <1>1
  <2> HIDE DEF n
  <2>2. /\ \A k \in 0 .. n : LET A == {s[j] : j \in 1 .. k} IN
             A \subseteq Ids /\ IsFiniteSet(A) /\ Cardinality(A) = k
        /\ n <= Len(history) /\ (n = Len(history) <=> {s[j] : j \in 1 .. n} = Ids)
    BY <1>1, CountIds
  <2> QED BY <1>2, <2>1, <2>2
<1>8. s \in PartialLinearizations
  <2>1. n \in 0 .. Len(history) /\ s \in {t \in [1 .. n -> Ids] : \A a, b \in 1 .. n : a # b => t[a] # t[b]}
    BY <1>1, <1>7 DEF HistoryOK
  <2>2. s \in Orders
    BY <2>1 DEF Orders
  <2> QED BY <1>5, <2>2 DEF PartialLinearizations
<1> QED BY <1>2, <1>3, <1>5, <1>6, <1>7, <1>8 DEF CallsArePartialLinearization, s

-----------------------------------------------------------------------------
(* What the search has tried.                                              *)

\* Every configuration of the stack but the first is in the cache.
Cached == \A m \in 2 .. Len(calls) + 1 : <<Before(calls, m), StateAt(m)>> \in cache

\* How far the walk has come at level m of the stack.
Reached(ord, m) == IF m <= Len(calls) THEN ord[CallOf(calls[m].id)] ELSE ord[entry]

\* What operation j makes of a configuration is in the cache, if j can be
\* taken in it at all.
Taken(A, st, j) == StepOk(st, history[j]) => <<A \cup {j}, NewState(st, history[j])>> \in cache

\* At every level of the stack, the calls that were passed have been tried.
Tried(ord) ==
  \A m \in 1 .. Len(calls) + 1 :
    \A j \in Ids \ Before(calls, m) :
      ord[CallOf(j)] < Reached(ord, m) => Taken(Before(calls, m), StateAt(m), j)

\* Some operation is left, and all that may be linearized before it was tried.
Exhausted(A, st) ==
  \E r \in Ids \ A : \A j \in Ids \ A : ~Precedes(r, j) => Taken(A, st, j)

\* What is in the cache and not on the stack was given up for a reason, and
\* recorded as a partial linearization.
Explored ==
  result # "true" =>
    \A x \in cache :
      \/ \E m \in 1 .. Len(calls) + 1 : x = <<Before(calls, m), StateAt(m)>>
      \/ /\ Exhausted(x[1], x[2])
         /\ \A i \in x[1] : Cardinality(x[1]) <= Len(longest[i])

LongestOK ==
  \A i \in Ids :
    longest[i] # <<>> => /\ longest[i] \in PartialLinearizations
                         /\ \E k \in DOMAIN longest[i] : longest[i][k] = i

Answered ==
  /\ result = "false" /\ ~kill => calls = <<>> /\ Exhausted({}, KvInit)
  /\ result = "true" => linearized = Ids /\ longest = [i \in Ids |-> CallIds]

SearchInv(ord) ==
  /\ SearchList(ord) /\ StackStates
  /\ Cached /\ Tried(ord) /\ Explored /\ LongestOK /\ Answered

AnswerInv ==
  /\ result = "build" => /\ state = KvInit /\ cache = {} /\ longest = [i \in Ids |-> <<>>]
  /\ result # "build" => \E ord : SearchInv(ord)

LEMMA SameReference ==
  ASSUME history' = history
  PROVE  /\ PartialLinearizations' = PartialLinearizations
         /\ \A i, j : Precedes(i, j)' <=> Precedes(i, j)
BY DEF PartialLinearizations, Orders, IsPartialLinearization, Precedes, StateAfter, Ids

\* At a return entry, everything that may be linearized before it was tried.
LEMMA ReturnExhausts ==
  ASSUME TypeInv, NEW ord, SearchList(ord), Tried(ord), Searching, ~IsCall
  PROVE  Exhausted(linearized, state)
<1> DEFINE r == entry[2]
           n == Len(calls) + 1
           S == Left(calls, n)
<1>1. entry \in S /\ r \in Ids \ linearized /\ entry = RetOf(r)
  BY EntryIsLeft
<1>2. /\ HistoryOK /\ IsOrder(ord, Entries) /\ linearized = Before(calls, n)
      /\ Len(calls) \in Nat
  BY DEF TypeInv, TypeOK, SearchList
<1>3. n \in 1 .. n /\ ~(n <= Len(calls))
  BY <1>2
<1>4. StateAt(n) = state /\ Reached(ord, n) = ord[entry]
  BY <1>3 DEF StateAt, Reached
<1>5. ASSUME NEW j \in Ids \ linearized, ~Precedes(r, j) PROVE Taken(linearized, state, j)
  <2>1. Less(CallOf(j), RetOf(r)) /\ CallOf(j) \in Entries /\ RetOf(r) \in Entries
    BY <1>1, <1>2, <1>5, LessFacts, EntryFacts
  <2>2. ord[CallOf(j)] < ord[entry]
    BY <1>1, <1>2, <2>1, OrderFacts
  <2>3. \A m \in 1 .. n : \A i \in Ids \ Before(calls, m) :
          ord[CallOf(i)] < Reached(ord, m) => Taken(Before(calls, m), StateAt(m), i)
    BY DEF Tried
  <2> HIDE DEF n
  <2> QED BY <1>2, <1>3, <1>4, <2>2, <2>3
<1> QED BY <1>1, <1>5 DEF Exhausted

\* A larger cache exhausts no less.
LEMMA ExhaustedGrows ==
  ASSUME history' = history, cache \subseteq cache', NEW A, NEW st, Exhausted(A, st)
  PROVE  Exhausted(A, st)'
<1>1. \A j : Taken(A, st, j) => Taken(A, st, j)'
  BY DEF Taken, StepOk, NewState
<1>2. Ids' = Ids /\ \A i, j : Precedes(i, j)' <=> Precedes(i, j)
  BY SameHistory, SameReference
<1> QED BY <1>1, <1>2 DEF Exhausted

\* The first entry of the list has nothing before it.
LEMMA FirstEntry ==
  ASSUME HistoryOK, NEW ord, IsOrder(ord, Entries), NEW S \in SUBSET Entries,
         NEW y, IsNext(ord, S, HeadEntry, y), NEW z \in S
  PROVE  y \in S /\ ~(ord[z] < ord[y])
<1>1. \A x \in S : ord[x] \in Int /\ ord[HeadEntry] \in Int /\ ord[HeadEntry] < ord[x]
  BY OrderFacts DEF Places
<1> QED BY <1>1 DEF IsNext

LEMMA LinkHeadSearch ==
  ASSUME TypeInv, ListInv, AnswerInv, LinkHead
  PROVE  \E ord : SearchInv(ord)'
<1>1. PICK ord : SearchList(ord)'
  BY LinkHeadList
<1>2. /\ TypeInv' /\ list'.next[HeadEntry] = entry'
  BY LinkHeadList
<1>3. /\ calls' = <<>> /\ state' = KvInit /\ cache' = {} /\ longest' = [i \in Ids |-> <<>>]
      /\ history' = history /\ result' = "search" /\ Ids' = Ids
  BY SameHistory DEF LinkHead, ListInv, AnswerInv
<1>4. StackStates'
  BY <1>3 DEF StackStates, StateAt
<1>5. Cached'
  BY <1>3 DEF Cached
<1>6. Tried(ord)'
  <2>1. Before(calls, 1)' = {} /\ Reached(ord, 1)' = ord[entry'] /\ Len(calls') = 0
    BY <1>3 DEF Before, Reached
  <2>2. Left(calls, Len(calls) + 1)' = Entries
    BY <1>3, <2>1, SameHistory DEF Left
  <2>3. HistoryOK /\ IsOrder(ord, Entries) /\ IsNext(ord, Entries, HeadEntry, entry')
    BY <1>1, <1>2, <1>3, <2>2, SameHistory DEF SearchList, Linked, TypeInv, IsOrder
  <2>4. ASSUME NEW j \in Ids PROVE ~(ord[CallOf(j)] < ord[entry'])
    <3> DEFINE y == entry'
    <3>1. CallOf(j) \in Entries /\ IsNext(ord, Entries, HeadEntry, y)
      BY <2>3, EntryFacts
    <3> HIDE DEF y
    <3>2. ~(ord[CallOf(j)] < ord[y])
      BY <2>3, <3>1, FirstEntry
    <3> QED BY <3>2 DEF y
  <2> QED BY <1>3, <2>1, <2>4 DEF Tried
<1>7. Explored' /\ LongestOK' /\ Answered'
  BY <1>3 DEF Explored, LongestOK, Answered
<1> QED BY <1>1, <1>4, <1>5, <1>6, <1>7 DEF SearchInv

LEMMA LinearizeSearch ==
  ASSUME TypeInv, NEW ord, SearchInv(ord), Linearize
  PROVE  SearchInv(ord)'
<1>n. PICK n : n = Len(calls) + 1
  OBVIOUS
<1> DEFINE i == entry[2]
           e == [id |-> i, state |-> state]
<1>0. /\ SearchList(ord) /\ StackStates /\ Cached /\ Tried(ord) /\ Explored /\ LongestOK /\ Answered
      /\ HistoryOK /\ calls \in Seq(Frames) /\ Len(calls) \in Nat /\ n \in Nat /\ IsOrder(ord, Entries)
      /\ linearized = Before(calls, n)
  BY <1>n DEF SearchInv, TypeInv, TypeOK, SearchList, Frames
<1>1. /\ history' = history /\ longest' = longest /\ kill' = kill /\ result' = "search" /\ result = "search"
      /\ cache' = cache \cup {Config} /\ cache \subseteq cache' /\ calls' = Append(calls, e)
      /\ Config = <<linearized \cup {i}, NewState(state, history[i])>>
      /\ state' = NewState(state, history[i]) /\ StepOk(state, history[i])
      /\ entry' = list'.next[HeadEntry] /\ Searching /\ IsCall
  BY DEF Linearize, Iterate, Searching, CanLinearize, Config, Op
<1>2. i \in Ids /\ entry = CallOf(i)
  BY <1>n, <1>0, <1>1, EntryIsLeft
<1>3. e \in Frames /\ e.id = i /\ e.state = state
  BY <1>2 DEF Frames, TypeInv, TypeOK
<1> HIDE DEF e
<1>4. /\ Len(calls') = n
      /\ \A k \in 1 .. Len(calls) : calls'[k] = calls[k]
      /\ calls'[n] = e
      /\ \A k \in 1 .. n : Before(calls', k) = Before(calls, k)
      /\ Before(calls', n + 1) = linearized \cup {i}
  BY <1>n, <1>0, <1>1, <1>3, PushFacts
<1>5. SearchList(ord)' /\ TypeInv'
  BY <1>0, LinearizeList
<1>6. /\ \A k \in 1 .. n : StateAt(k)' = StateAt(k)
      /\ StateAt(n + 1)' = NewState(state, history[i]) /\ StateAt(n) = state
  BY <1>n, <1>0, <1>1, <1>3, <1>4 DEF StateAt
<1> HIDE DEF i
<1>7. StackStates'
  <2>1. StateAt(1)' = KvInit
    BY <1>n, <1>0, <1>6 DEF StackStates
  <2>2. ASSUME NEW k \in 1 .. n
        PROVE  /\ StepOk(StateAt(k)', history[calls'[k].id])
               /\ StateAt(k + 1)' = NewState(StateAt(k)', history[calls'[k].id])
    <3>1. CASE k = n
      BY <1>n, <1>0, <1>1, <1>3, <1>4, <1>6, <3>1
    <3>2. CASE k # n
      <4>1. k \in 1 .. Len(calls) /\ k + 1 \in 1 .. n
        BY <1>n, <1>0, <3>2
      <4> QED BY <1>n, <1>0, <1>4, <1>6, <4>1 DEF StackStates
    <3> QED BY <3>1, <3>2
  <2>3. 1 .. Len(calls') = 1 .. n
    BY <1>4
  <2> QED BY <1>1, <2>1, <2>2, <2>3 DEF StackStates
<1>8. Cached'
  <2>1. ASSUME NEW m \in 2 .. n + 1 PROVE <<Before(calls', m), StateAt(m)'>> \in cache'
    <3>1. CASE m = n + 1
      BY <1>1, <1>4, <1>6, <3>1
    <3>2. CASE m # n + 1
      <4>1. m \in 1 .. n /\ m \in 2 .. n
        BY <1>n, <1>0, <3>2
      <4> QED BY <1>n, <1>0, <1>1, <1>4, <1>6, <4>1 DEF Cached
    <3> QED BY <3>1, <3>2
  <2>2. 2 .. Len(calls') + 1 = 2 .. n + 1
    BY <1>4
  <2> QED BY <2>1, <2>2 DEF Cached
<1>10. Tried(ord)'
  <2>1. ASSUME NEW m \in 1 .. n + 1, NEW j \in Ids, j \notin Before(calls', m),
               ord[CallOf(j)] < Reached(ord, m)'
        PROVE  Taken(Before(calls, m), StateAt(m), j)'
    <3>1. CASE m # n + 1
      <4>1. m \in 1 .. n
        BY <1>n, <1>0, <3>1
      <4>2. Reached(ord, m)' = Reached(ord, m)
        BY <1>n, <1>0, <1>2, <1>3, <1>4, <4>1 DEF Reached
      <4>3. j \in Ids \ Before(calls, m) /\ ord[CallOf(j)] < Reached(ord, m)
        BY <1>4, <2>1, <4>1, <4>2
      <4>4. Taken(Before(calls, m), StateAt(m), j)
        BY <1>n, <1>0, <4>1, <4>3 DEF Tried
      <4>5. Before(calls, m)' = Before(calls, m) /\ StateAt(m)' = StateAt(m)
        BY <1>4, <1>6, <4>1
      <4> QED BY <1>1, <4>4, <4>5 DEF Taken
    <3>2. CASE m = n + 1
      <4> DEFINE U == Left(calls, Len(calls) + 1)'
                 y == entry'
      <4>1. Reached(ord, m)' = ord[y] /\ Before(calls', m) = Before(calls, Len(calls) + 1)'
        BY <1>n, <1>0, <1>4, <3>2 DEF Reached
      <4>2. CallOf(j) \in U /\ U \in SUBSET Entries
        BY <1>1, <2>1, <4>1, SameHistory, EntryFacts DEF Left
      <4>3. IsNext(ord, U, HeadEntry, y)
        BY <1>1, <1>5 DEF SearchList, Linked
      <4> HIDE DEF U, y
      <4>4. ~(ord[CallOf(j)] < ord[y])
        BY <1>n, <1>0, <4>2, <4>3, FirstEntry
      <4> QED BY <2>1, <4>1, <4>4
    <3> QED BY <3>1, <3>2
  <2>2. 1 .. Len(calls') + 1 = 1 .. n + 1 /\ Ids' = Ids
    BY <1>1, <1>4, SameHistory
  <2> QED BY <2>1, <2>2 DEF Tried
<1>11. Explored'
  <2>1. ASSUME NEW x \in cache'
        PROVE  \/ \E m \in 1 .. n + 1 : x = <<Before(calls, m)', StateAt(m)'>>
               \/ Exhausted(x[1], x[2])' /\ \A k \in x[1] : Cardinality(x[1]) <= Len(longest'[k])
    <3>1. CASE x = Config
      <4>1. n + 1 \in 1 .. n + 1 /\ x = <<Before(calls, n + 1)', StateAt(n + 1)'>>
        BY <1>n, <1>0, <1>1, <1>4, <1>6, <3>1
      <4> QED BY <4>1
    <3>2. CASE x \in cache /\ \E m \in 1 .. n : x = <<Before(calls, m), StateAt(m)>>
      <4>1. PICK m \in 1 .. n : x = <<Before(calls, m), StateAt(m)>>
        BY <3>2
      <4>2. m \in 1 .. n + 1 /\ x = <<Before(calls, m)', StateAt(m)'>>
        BY <1>n, <1>0, <1>4, <1>6, <4>1
      <4> QED BY <4>2
    <3>3. CASE x \in cache /\ Exhausted(x[1], x[2]) /\ \A k \in x[1] : Cardinality(x[1]) <= Len(longest[k])
      <4>1. Exhausted(x[1], x[2])'
        BY <1>1, <3>3, ExhaustedGrows
      <4> QED BY <1>1, <3>3, <4>1
    <3> QED BY <1>n, <1>0, <1>1, <3>1, <3>2, <3>3 DEF Explored
  <2>2. 1 .. Len(calls') + 1 = 1 .. n + 1
    BY <1>4
  <2> QED BY <1>1, <2>1, <2>2 DEF Explored
<1>12. LongestOK' /\ Answered'
  BY <1>n, <1>0, <1>1, SameHistory, SameReference DEF LongestOK, Answered
<1> QED BY <1>5, <1>7, <1>8, <1>10, <1>11, <1>12 DEF SearchInv

\* Passing call i of S adds i to the calls that stand before the walk.
LEMMA PassedCalls ==
  ASSUME HistoryOK, NEW ord, IsOrder(ord, Entries), NEW S \in SUBSET Entries, NEW i \in Ids,
         CallOf(i) \in S, RetOf(i) \in S, NEW y, IsNext(ord, S, CallOf(i), y),
         \A z \in S : ord[z] < ord[CallOf(i)] => z[1] = "call",
         NEW j \in Ids, CallOf(j) \in S, ord[CallOf(j)] < ord[y]
  PROVE  j = i \/ ord[CallOf(j)] < ord[CallOf(i)]
<1>1. ord[CallOf(j)] <= ord[CallOf(i)]
  BY PassCall
<1>2. CallOf(i) \in Entries /\ CallOf(j) \in Entries /\ CallOf(i)[2] = i /\ CallOf(j)[2] = j
  BY EntryFacts
<1>3. ord[CallOf(i)] \in Int /\ ord[CallOf(j)] \in Int
  BY <1>2, OrderFacts DEF Places
<1>4. j # i => ord[CallOf(j)] # ord[CallOf(i)]
  BY <1>2, OrderFacts
<1> QED BY <1>1, <1>3, <1>4

LEMMA SkipSearch ==
  ASSUME TypeInv, NEW ord, SearchInv(ord), Skip
  PROVE  SearchInv(ord)'
<1>n. PICK n : n = Len(calls) + 1
  OBVIOUS
<1> DEFINE i == entry[2]
           S == Left(calls, n)
<1>0. /\ SearchList(ord) /\ StackStates /\ Cached /\ Tried(ord) /\ Explored /\ LongestOK /\ Answered
      /\ HistoryOK /\ Len(calls) \in Nat /\ n \in Nat /\ IsOrder(ord, Entries)
      /\ linearized = Before(calls, n) /\ Linked(ord, list, S) /\ S \in SUBSET Entries
  BY <1>n DEF SearchInv, TypeInv, TypeOK, SearchList, Left
<1>1. /\ UNCHANGED <<history, list, state, linearized, cache, calls, longest, kill, result>>
      /\ entry' = list.next[entry] /\ Searching /\ IsCall /\ ~CanLinearize
  BY DEF Skip, Iterate
<1>2. /\ i \in Ids /\ entry = CallOf(i) /\ CallOf(i) \in S /\ RetOf(i) \in S
      /\ \A z \in S : ord[z] < ord[CallOf(i)] => z[1] = "call"
  BY <1>n, <1>0, <1>1, EntryIsLeft
<1>3. Taken(linearized, state, i)
  BY <1>1 DEF CanLinearize, Config, Op, Taken
<1>4. SearchList(ord)'
  BY <1>0, SkipList
<1>5. /\ \A m : StateAt(m)' = StateAt(m) /\ Before(calls, m)' = Before(calls, m)
      /\ \A m \in 1 .. n : m # n => Reached(ord, m)' = Reached(ord, m)
      /\ Reached(ord, n) = ord[CallOf(i)] /\ Reached(ord, n)' = ord[entry'] /\ StateAt(n) = state
  BY <1>n, <1>0, <1>1, <1>2 DEF StateAt, Reached
<1>6. \A A, st, j : Taken(A, st, j)' <=> Taken(A, st, j)
  BY <1>1 DEF Taken
<1>7. IsNext(ord, S, CallOf(i), entry')
  BY <1>0, <1>1, <1>2 DEF Linked
<1> HIDE DEF i, S
<1>8. Tried(ord)'
  <2>1. ASSUME NEW m \in 1 .. n, NEW j \in Ids \ Before(calls, m), ord[CallOf(j)] < Reached(ord, m)'
        PROVE  Taken(Before(calls, m), StateAt(m), j)
    <3>1. CASE m # n
      BY <1>n, <1>0, <1>5, <2>1, <3>1 DEF Tried
    <3>2. CASE m = n
      <4>1. CallOf(j) \in S /\ ord[CallOf(j)] < ord[entry']
        BY <1>5, <2>1, <3>2, EntryFacts DEF S, Left
      <4>2. j = i \/ ord[CallOf(j)] < ord[CallOf(i)]
        <5> DEFINE y == entry'
        <5>1. IsNext(ord, S, CallOf(i), y) /\ ord[CallOf(j)] < ord[y]
          BY <1>7, <4>1
        <5> HIDE DEF y
        <5> QED BY <1>0, <1>2, <4>1, <5>1, PassedCalls
      <4>3. CASE j = i
        BY <1>0, <1>3, <1>5, <3>2, <4>3
      <4>4. CASE ord[CallOf(j)] < ord[CallOf(i)]
        BY <1>n, <1>0, <1>5, <2>1, <3>2, <4>4 DEF Tried
      <4> QED BY <4>2, <4>3, <4>4
    <3> QED BY <3>1, <3>2
  <2>2. 1 .. Len(calls') + 1 = 1 .. n /\ Ids' = Ids
    BY <1>n, <1>1, SameHistory
  <2>3. ASSUME NEW m \in 1 .. n, NEW j \in Ids \ Before(calls, m)', ord[CallOf(j)] < Reached(ord, m)'
        PROVE  Taken(Before(calls, m), StateAt(m), j)'
    <3>1. Taken(Before(calls, m), StateAt(m), j)
      BY <1>5, <2>1, <2>3
    <3> QED BY <1>1, <1>5, <3>1 DEF Taken
  <2> QED BY <2>2, <2>3 DEF Tried
<1>9. StackStates' /\ Cached'
  BY <1>0, <1>1, <1>5 DEF StackStates, Cached
<1>10. Explored'
  <2>1. \A x : Exhausted(x[1], x[2]) => Exhausted(x[1], x[2])'
    BY <1>1, ExhaustedGrows
  <2> QED BY <1>0, <1>1, <1>5, <2>1 DEF Explored
<1>11. LongestOK' /\ Answered'
  <2>1. result' = "search"
    BY <1>1 DEF Searching
  <2> QED BY <1>0, <1>1, <2>1, SameHistory, SameReference DEF LongestOK, Answered
<1> QED BY <1>4, <1>8, <1>9, <1>10, <1>11 DEF SearchInv

LEMMA BacktrackSearch ==
  ASSUME TypeInv, NEW ord, SearchInv(ord), Backtrack
  PROVE  SearchInv(ord)'
<1>n. PICK n : n = Len(calls)
  OBVIOUS
<1> DEFINE e == calls[n]
           i == e.id
           S == Left(calls, n)
<1>0. /\ SearchList(ord) /\ StackStates /\ Cached /\ Tried(ord) /\ Explored /\ LongestOK /\ Answered
      /\ HistoryOK /\ calls \in Seq(Frames) /\ n \in Nat /\ IsOrder(ord, Entries)
      /\ linearized = Before(calls, n + 1) /\ S \in SUBSET Entries /\ StackLinks(ord)
      /\ longest \in [Ids -> Seq(Ids)]
  BY <1>n DEF SearchInv, TypeInv, TypeOK, SearchList, Left, Frames
<1>1. /\ history' = history /\ cache' = cache /\ kill' = kill /\ result' = result
      /\ longest' = [x \in Ids |-> IF Longer(x) THEN CallIds ELSE longest[x]]
      /\ calls' = SubSeq(calls, 1, Len(calls) - 1) /\ state' = e.state
      /\ list' = Unlift(list, CallOf(i)) /\ entry' = list'.next[CallOf(i)]
      /\ calls # <<>> /\ Searching /\ ~IsCall
  BY <1>n DEF Backtrack, Iterate
<1>2. /\ Len(calls') = n - 1 /\ n > 0 /\ e \in Frames /\ i \in Ids
      /\ \A k \in 1 .. n - 1 : calls'[k] = calls[k]
      /\ calls' \in Seq(Frames) /\ calls = Append(calls', e)
  <2>1. /\ Len(calls') = n - 1 /\ n - 1 \in Nat /\ e \in Frames
        /\ \A k \in 1 .. n - 1 : calls'[k] = calls[k]
        /\ calls' \in Seq(Frames) /\ calls = Append(calls', e)
    BY <1>n, <1>0, <1>1, PopFacts
  <2>2. i \in Ids /\ n > 0
    BY <1>0, <2>1 DEF Frames
  <2> QED BY <2>1, <2>2
<1>3. /\ \A k \in 1 .. n : Before(calls, k)' = Before(calls, k)
      /\ linearized = Before(calls, n) \cup {i}
  <2> DEFINE cs == calls'
  <2>1. cs \in Seq(Frames) /\ calls = Append(cs, e) /\ Len(cs) + 1 = n /\ Len(calls) = n
    BY <1>n, <1>2, <1>0
  <2> HIDE DEF cs, e
  <2>2. LET ds == Append(cs, e) IN
        /\ \A k \in 1 .. Len(cs) + 1 : Before(ds, k) = Before(cs, k)
        /\ Before(ds, Len(ds) + 1) = Before(cs, Len(cs) + 1) \cup {e.id}
    BY <1>2, <2>1, PushFacts
  <2>3. /\ \A k \in 1 .. n : Before(calls, k) = Before(cs, k)
        /\ Before(calls, n + 1) = Before(cs, n) \cup {e.id}
    BY <2>1, <2>2
  <2>4. n \in 1 .. n
    BY <1>0, <1>2
  <2> QED BY <1>0, <2>3, <2>4 DEF cs
<1>4. SearchList(ord)' /\ TypeInv'
  BY <1>0, BacktrackList
<1>5. /\ \A k \in 1 .. n : StateAt(k)' = StateAt(k)
      /\ StateAt(n + 1) = state
  BY <1>n, <1>0, <1>1, <1>2 DEF StateAt
<1>6. FrameLinks(ord, S, list, i) /\ n \in 1 .. Len(calls)
  BY <1>n, <1>0, <1>2 DEF StackLinks
<1> HIDE DEF e, i, S
<1>7. StackStates'
  <2>1. StateAt(1)' = KvInit
    BY <1>0, <1>2, <1>5 DEF StackStates
  <2>2. ASSUME NEW k \in 1 .. n - 1
        PROVE  /\ StepOk(StateAt(k)', history[calls'[k].id])
               /\ StateAt(k + 1)' = NewState(StateAt(k)', history[calls'[k].id])
    <3>1. k \in 1 .. Len(calls) /\ k \in 1 .. n /\ k + 1 \in 1 .. n
      BY <1>n, <1>0
    <3> QED BY <1>0, <1>2, <1>5, <3>1 DEF StackStates
  <2>3. 1 .. Len(calls') = 1 .. n - 1
    BY <1>2
  <2> QED BY <1>1, <2>1, <2>2, <2>3 DEF StackStates
<1>8. Cached'
  <2>1. 2 .. Len(calls') + 1 = 2 .. n
    BY <1>2, <1>0
  <2>2. ASSUME NEW m \in 2 .. n PROVE <<Before(calls, m)', StateAt(m)'>> \in cache'
    <3>1. m \in 1 .. n /\ m \in 2 .. Len(calls) + 1
      BY <1>n, <1>0
    <3> QED BY <1>0, <1>1, <1>3, <1>5, <3>1 DEF Cached
  <2> QED BY <2>1, <2>2 DEF Cached
<1>9. Tried(ord)'
  <2>1. ASSUME NEW m \in 1 .. n, NEW j \in Ids \ Before(calls, m), ord[CallOf(j)] < Reached(ord, m)'
        PROVE  Taken(Before(calls, m), StateAt(m), j)
    <3>0. m \in 1 .. Len(calls) + 1 /\ m <= Len(calls)
      BY <1>n, <1>0
    <3>1. CASE m # n
      <4>1. m \in 1 .. n - 1 /\ m <= Len(calls')
        BY <1>0, <1>2, <3>1
      <4>2. Reached(ord, m)' = Reached(ord, m)
        BY <1>2, <3>0, <4>1 DEF Reached
      <4> QED BY <1>0, <2>1, <3>0, <4>2 DEF Tried
    <3>2. CASE m = n
      <4> DEFINE y == entry'
      <4>1. Reached(ord, m)' = ord[y] /\ Reached(ord, m) = ord[CallOf(i)]
        BY <1>2, <1>0, <3>0, <3>2 DEF Reached, i, e
      <4>2. CallOf(j) \in S /\ ord[CallOf(j)] < ord[y]
        BY <2>1, <3>2, <4>1, EntryFacts DEF S, Left
      <4>3. IsNext(ord, S, CallOf(i), y)
        <5>1. Left(calls, Len(calls) + 1)' = S
          <6>1. Len(calls') + 1 = n /\ n \in 1 .. n
            BY <1>2, <1>0
          <6>2. Left(calls, Len(calls) + 1)' = {x \in Entries : x[2] \notin Before(calls, n)'}
            BY <1>1, <6>1, SameHistory DEF Left
          <6> QED BY <1>3, <6>1, <6>2 DEF S, Left
        <5>2. CallOf(i) \in S /\ y = list'.next[CallOf(i)]
          BY <1>1, <1>6 DEF FrameLinks
        <5> QED BY <1>4, <5>1, <5>2 DEF SearchList, Linked
      <4> HIDE DEF y
      <4>4. j = i \/ ord[CallOf(j)] < ord[CallOf(i)]
        BY <1>0, <1>2, <1>6, <4>2, <4>3, PassedCalls DEF FrameLinks
      <4>5. CASE j = i
        <5>1. n + 1 \in 2 .. Len(calls) + 1
          BY <1>n, <1>0, <1>2
        <5>2. <<Before(calls, n + 1), StateAt(n + 1)>> \in cache
          BY <1>0, <5>1 DEF Cached
        <5>3. StateAt(n + 1) = NewState(StateAt(n), history[i])
          BY <1>0, <1>6 DEF StackStates, i, e
        <5> QED BY <1>0, <1>3, <3>2, <4>5, <5>2, <5>3 DEF Taken
      <4>6. CASE ord[CallOf(j)] < ord[CallOf(i)]
        BY <1>0, <2>1, <3>0, <4>1, <4>6 DEF Tried
      <4> QED BY <4>4, <4>5, <4>6
    <3> QED BY <3>1, <3>2
  <2>2. 1 .. Len(calls') + 1 = 1 .. n /\ Ids' = Ids
    BY <1>0, <1>1, <1>2, SameHistory
  <2>3. ASSUME NEW m \in 1 .. n, NEW j \in Ids \ Before(calls, m)', ord[CallOf(j)] < Reached(ord, m)'
        PROVE  Taken(Before(calls, m), StateAt(m), j)'
    <3>1. Taken(Before(calls, m), StateAt(m), j)
      BY <1>3, <2>1, <2>3
    <3> QED BY <1>1, <1>3, <1>5, <3>1 DEF Taken
  <2> QED BY <2>2, <2>3 DEF Tried
<1>10. /\ CallIds \in PartialLinearizations /\ Len(CallIds) = n
       /\ Cardinality(linearized) = n /\ linearized = {CallIds[k] : k \in DOMAIN calls}
  BY <1>n, <1>0, StackIsPartialLinearization DEF CallsArePartialLinearization
<1>11. \A k \in Ids : /\ Len(longest'[k]) \in Nat /\ Len(longest[k]) <= Len(longest'[k])
                      /\ k \in linearized => n <= Len(longest'[k])
  <2>1. \A k \in Ids : Len(longest[k]) \in Nat
    BY <1>0
  <2> QED BY <1>n, <1>0, <1>1, <1>10, <2>1 DEF Longer
<1>12. Explored'
  <2>1. ASSUME NEW x \in cache, result # "true"
        PROVE  \/ \E m \in 1 .. n : x = <<Before(calls, m)', StateAt(m)'>>
               \/ Exhausted(x[1], x[2])' /\ \A k \in x[1] : Cardinality(x[1]) <= Len(longest'[k])
    <3>0. x[1] \subseteq Ids
      BY DEF TypeInv, TypeOK
    <3>1. CASE \E m \in 1 .. n : x = <<Before(calls, m), StateAt(m)>>
      BY <1>3, <1>5, <3>1
    <3>2. CASE x = <<Before(calls, n + 1), StateAt(n + 1)>>
      <4>1. x[1] = linearized /\ x[2] = state
        BY <1>0, <1>5, <3>2
      <4>2. Exhausted(x[1], x[2])
        BY <1>0, <1>1, <4>1, ReturnExhausts
      <4>3. Exhausted(x[1], x[2])'
        BY <1>1, <4>2, ExhaustedGrows
      <4> QED BY <1>10, <1>11, <3>0, <4>1, <4>3
    <3>3. CASE Exhausted(x[1], x[2]) /\ \A k \in x[1] : Cardinality(x[1]) <= Len(longest[k])
      <4>1. Exhausted(x[1], x[2])'
        BY <1>1, <3>3, ExhaustedGrows
      <4>2. ASSUME NEW k \in x[1] PROVE Cardinality(x[1]) <= Len(longest'[k])
        <5>1. k \in Ids /\ Cardinality(x[1]) <= Len(longest[k]) /\ Len(longest[k]) \in Nat
          BY <1>0, <3>0, <3>3
        <5>2. IsFiniteSet(x[1]) /\ Cardinality(x[1]) \in Nat
          <6>2. IsFiniteSet(Ids)
            BY <1>0, IdsFinite
          <6>3. IsFiniteSet(x[1])
            BY <3>0, <6>2, FS_Subset
          <6> QED BY <6>3, FS_CardinalityType
        <5> QED BY <1>11, <5>1, <5>2
      <4> QED BY <4>1, <4>2
    <3>4. \A m \in 1 .. Len(calls) + 1 : m \in 1 .. n \/ m = n + 1
      BY <1>n, <1>0
    <3> QED BY <1>0, <2>1, <3>1, <3>2, <3>3, <3>4 DEF Explored
  <2>2. 1 .. Len(calls') + 1 = 1 .. n
    BY <1>0, <1>2
  <2> QED BY <1>1, <2>1, <2>2 DEF Explored
<1>13. LongestOK'
  <2>1. ASSUME NEW k \in Ids, longest'[k] # <<>>
        PROVE  longest'[k] \in PartialLinearizations /\ \E m \in DOMAIN longest'[k] : longest'[k][m] = k
    <3>1. CASE Longer(k)
      <4>1. longest'[k] = CallIds
        BY <1>1, <3>1
      <4>2. \E m \in DOMAIN CallIds : CallIds[m] = k
        <5>1. DOMAIN calls = DOMAIN CallIds
          BY <1>0 DEF CallIds
        <5> QED BY <1>10, <3>1, <5>1 DEF Longer
      <4> QED BY <1>10, <4>1, <4>2
    <3>2. CASE ~Longer(k)
      <4>1. longest'[k] = longest[k]
        BY <1>1, <3>2
      <4> QED BY <1>0, <2>1, <4>1 DEF LongestOK
    <3> QED BY <3>1, <3>2
  <2> QED BY <1>1, <2>1, SameHistory, SameReference DEF LongestOK
<1>14. Answered'
  BY <1>1 DEF Answered, Searching
<1> QED BY <1>4, <1>7, <1>8, <1>9, <1>12, <1>13, <1>14 DEF SearchInv

LEMMA AnswerSearch ==
  ASSUME TypeInv, NEW ord, SearchInv(ord), Killed \/ Fail \/ Succeed
  PROVE  SearchInv(ord)'
<1>0. /\ SearchList(ord) /\ StackStates /\ Cached /\ Tried(ord) /\ Explored /\ LongestOK /\ Answered
      /\ HistoryOK
  BY DEF SearchInv, TypeInv
<1>1. /\ UNCHANGED <<history, list, entry, state, linearized, cache, calls, kill>>
      /\ result = "search"
  BY DEF Killed, Fail, Succeed, Searching, Iterate
<1>2. SearchList(ord)'
  BY <1>0, <1>1, IdleList
<1>3. Ids' = Ids /\ \A A, st, j : Taken(A, st, j)' <=> Taken(A, st, j)
  BY <1>1, SameHistory DEF Taken
<1>4. StackStates' /\ Cached'
  BY <1>0, <1>1 DEF StackStates, Cached, StateAt
<1>5. Tried(ord)'
  BY <1>0, <1>1, <1>3 DEF Tried, StateAt, Reached, Taken
<1>6. \A x : Exhausted(x[1], x[2]) => Exhausted(x[1], x[2])'
  BY <1>1, ExhaustedGrows
<1>7. CASE Killed \/ Fail
  <2>1. longest' = longest /\ result' = "false"
    BY <1>7 DEF Killed, Fail
  <2>2. Explored'
    BY <1>0, <1>1, <1>6, <2>1 DEF Explored, StateAt
  <2>3. LongestOK'
    BY <1>0, <1>1, <1>3, <2>1, SameReference DEF LongestOK
  <2>4. Answered'
    <3>1. CASE Killed
      BY <1>1, <2>1, <3>1 DEF Killed, Answered
    <3>2. CASE Fail
      <4>1. calls = <<>> /\ Searching /\ ~IsCall
        BY <3>2 DEF Fail, Iterate
      <4>2. Exhausted(linearized, state)
        BY <1>0, <4>1, ReturnExhausts
      <4>3. linearized = {} /\ state = KvInit
        BY <1>0, <4>1 DEF SearchList, Before, StackStates, StateAt
      <4>4. Exhausted({}, KvInit)
        BY <4>2, <4>3
      <4>5. Exhausted({}, KvInit)'
        BY <1>1, <1>3, <4>4, SameReference DEF Exhausted, KvInit
      <4> QED BY <1>1, <2>1, <4>1, <4>5 DEF Answered
    <3> QED BY <1>7, <3>1, <3>2
  <2> QED BY <1>2, <1>4, <1>5, <2>2, <2>3, <2>4 DEF SearchInv
<1>8. CASE Succeed
  <2>1. longest' = [i \in Ids |-> CallIds] /\ result' = "true" /\ list.next[HeadEntry] = NilNode
    BY <1>8 DEF Succeed
  <2>2. Left(calls, Len(calls) + 1) = {}
    <3> DEFINE S == Left(calls, Len(calls) + 1)
    <3>1. IsNext(ord, S, HeadEntry, NilNode) /\ IsOrder(ord, Entries) /\ S \in SUBSET Entries
      BY <1>0, <2>1 DEF SearchList, Linked, Left
    <3> HIDE DEF S
    <3>2. ASSUME NEW z \in S PROVE FALSE
      BY <1>0, <3>1, FirstEntry, EntryFacts
    <3> QED BY <3>2 DEF S
  <2>3. linearized = Ids
    <3>1. ASSUME NEW i \in Ids PROVE i \in linearized
      BY <1>0, <2>2, EntryFacts DEF SearchList, Left
    <3> QED BY <3>1 DEF TypeInv, TypeOK
  <2>4. CallIds' = CallIds /\ CallIds \in PartialLinearizations /\ linearized = {CallIds[k] : k \in DOMAIN calls}
        /\ DOMAIN CallIds = DOMAIN calls
    <3>1. DOMAIN calls = 1 .. Len(calls)
      BY DEF TypeInv, TypeOK
    <3> QED BY <1>0, <1>1, <3>1, StackIsPartialLinearization DEF CallIds, CallsArePartialLinearization
  <2>5. LongestOK'
    <3>1. ASSUME NEW i \in Ids PROVE \E k \in DOMAIN CallIds : CallIds[k] = i
      BY <2>3, <2>4
    <3> QED BY <1>1, <1>3, <2>1, <2>4, <3>1, SameReference DEF LongestOK
  <2>6. Explored' /\ Answered'
    BY <1>1, <1>3, <2>1, <2>3, <2>4 DEF Explored, Answered
  <2> QED BY <1>2, <1>4, <1>5, <2>5, <2>6 DEF SearchInv
<1> QED BY <1>7, <1>8

\* Steps that change nothing but the flag.
LEMMA FlagSearch ==
  ASSUME TypeInv, NEW ord, SearchInv(ord), result # "build", Kill \/ UNCHANGED vars
  PROVE  SearchInv(ord)'
<1>0. /\ SearchList(ord) /\ StackStates /\ Cached /\ Tried(ord) /\ Explored /\ LongestOK /\ Answered
  BY DEF SearchInv
<1>1. /\ UNCHANGED <<history, list, entry, state, linearized, cache, calls, longest, result>>
      /\ kill' = kill \/ result = "search"
  BY DEF Kill, vars, Searching
<1>2. SearchList(ord)'
  BY <1>0, IdleList
<1>3. Ids' = Ids /\ \A A, st, j : Taken(A, st, j)' <=> Taken(A, st, j)
  BY <1>1, SameHistory DEF Taken
<1>4. StackStates' /\ Cached'
  BY <1>0, <1>1 DEF StackStates, Cached, StateAt
<1>5. Tried(ord)'
  BY <1>0, <1>1, <1>3 DEF Tried, StateAt, Reached, Taken
<1>6. \A x : Exhausted(x[1], x[2]) => Exhausted(x[1], x[2])'
  BY <1>1, ExhaustedGrows
<1>7. Explored' /\ LongestOK'
  BY <1>0, <1>1, <1>3, <1>6, SameReference DEF Explored, StateAt, LongestOK
<1>8. Answered'
  <2>1. Exhausted({}, KvInit) => Exhausted({}, KvInit)'
    BY <1>1, <1>3, SameReference DEF Exhausted, KvInit
  <2>2. CallIds' = CallIds
    BY <1>1 DEF CallIds
  <2> QED BY <1>0, <1>1, <1>3, <2>1, <2>2 DEF Answered
<1> QED BY <1>2, <1>4, <1>5, <1>7, <1>8 DEF SearchInv

LEMMA AnswerStep == TypeInv /\ ListInv /\ AnswerInv /\ [Next]_vars => AnswerInv'
<1> SUFFICES ASSUME TypeInv, ListInv, AnswerInv, [Next]_vars PROVE AnswerInv'
  OBVIOUS
<1>1. CASE result # "build"
  <2>1. PICK ord : SearchInv(ord)
    BY <1>1 DEF AnswerInv
  <2>2. SearchList(ord)
    BY <2>1 DEF SearchInv
  <2>3. result' # "build"
    BY <1>1, <2>2, SearchStep
  <2>4. ~LinkHead /\ ~ \E x \in rest : LinkEntry(x)
    BY <1>1 DEF LinkHead, LinkEntry
  <2>5. SearchInv(ord)'
    BY <1>1, <2>1, <2>4, LinearizeSearch, SkipSearch, BacktrackSearch, AnswerSearch, FlagSearch DEF Next, Search
  <2> QED BY <2>3, <2>5 DEF AnswerInv
<1>2. CASE result = "build" /\ LinkHead
  BY <1>2, LinkHeadSearch DEF AnswerInv, LinkHead
<1>3. CASE result = "build" /\ (UNCHANGED vars \/ \E x \in rest : LinkEntry(x))
  <2>1. UNCHANGED <<history, state, cache, longest, result>>
    BY <1>3 DEF vars, LinkEntry
  <2> QED BY <1>3, <2>1, SameHistory DEF AnswerInv
<1>4. result = "build" => ~Linearize /\ ~Skip /\ ~Backtrack /\ ~Killed /\ ~Fail /\ ~Succeed /\ ~Kill
  BY DEF Linearize, Skip, Backtrack, Killed, Fail, Succeed, Kill, Iterate, Searching
<1> QED BY <1>1, <1>2, <1>3, <1>4 DEF Next, Search

\* The inductive invariant: the list, the stack and the cache of the search.
THEOREM AnswerInvariant == Spec => [](TypeInv /\ ListInv /\ AnswerInv)
<1>1. Init => AnswerInv
  BY DEF Init, AnswerInv
<1> QED BY <1>1, InitList, ListStep, AnswerStep, PTL DEF Spec

\* The stack of checkSingle is the beginning of a linearization at every
\* moment, state is what its operations leave, and the bitset is its set.
THEOREM StackLinearizes == Spec => []CallsArePartialLinearization
<1>1. ASSUME TypeInv, ListInv, AnswerInv PROVE CallsArePartialLinearization
  <2>1. CASE result = "build"
    <3>1. calls = <<>> /\ linearized = {} /\ state = KvInit /\ HistoryOK
      BY <1>1, <2>1 DEF ListInv, AnswerInv, TypeInv
    <3> DEFINE s == CallIds
    <3>2. Len(calls) = 0 /\ s \in [1 .. 0 -> Ids] /\ DOMAIN calls = {}
      BY <3>1 DEF CallIds
    <3> HIDE DEF s
    <3>3. StateAfter(s)[0] = KvInit
      BY <3>1, <3>2, StateAfterRec
    <3>4. IsPartialLinearization(s)
      BY <3>2 DEF IsPartialLinearization
    <3> QED BY <3>1, <3>2, <3>3, <3>4 DEF CallsArePartialLinearization, s
  <2>2. CASE result # "build"
    <3>1. PICK ord : SearchList(ord) /\ StackStates
      BY <1>1, <2>2 DEF AnswerInv, SearchInv
    <3> QED BY <1>1, <3>1, StackIsPartialLinearization
  <2> QED BY <2>1, <2>2
<1> QED BY <1>1, AnswerInvariant, PTL

LEMMA PartialFacts ==
  ASSUME HistoryOK, NEW s \in PartialLinearizations
  PROVE  \E n \in 0 .. Len(history) :
           /\ n \in Nat /\ s \in [1 .. n -> Ids] /\ Len(s) = n /\ DOMAIN s = 1 .. n
           /\ \A a, b \in 1 .. n : a # b => s[a] # s[b]
           /\ \A k \in 1 .. n, i \in Ids : Precedes(i, s[k]) => \E m \in 1 .. k - 1 : s[m] = i
           /\ \A k \in 1 .. n : StepOk(StateAfter(s)[k - 1], history[s[k]])
<1>1. s \in Orders /\ IsPartialLinearization(s)
  BY DEF PartialLinearizations
<1>2. PICK n \in 0 .. Len(history) :
        s \in {t \in [1 .. n -> Ids] : \A a, b \in 1 .. n : a # b => t[a] # t[b]}
  BY <1>1 DEF Orders
<1>3. n \in Nat /\ s \in [1 .. n -> Ids] /\ DOMAIN s = 1 .. n /\ Len(s) = n
      /\ \A a, b \in 1 .. n : a # b => s[a] # s[b]
  BY <1>2
<1>4. /\ \A k \in 1 .. n, i \in Ids : Precedes(i, s[k]) => \E m \in 1 .. k - 1 : s[m] = i
      /\ \A k \in 1 .. n : StepOk(StateAfter(s)[k - 1], history[s[k]])
  BY <1>1, <1>3 DEF IsPartialLinearization, StepOk
<1> QED BY <1>3, <1>4

\* When the search has failed, it has seen every partial linearization, and
\* has given it up with an operation left.
LEMMA FailedSearch ==
  ASSUME TypeInv, NEW ord, SearchInv(ord), result = "false", ~kill, NEW s \in PartialLinearizations
  PROVE  /\ Len(s) # Len(history)
         /\ \A k \in DOMAIN s : Len(s) <= Len(longest[s[k]])
<1>1. HistoryOK /\ Explored /\ calls = <<>> /\ Exhausted({}, KvInit)
  BY DEF TypeInv, SearchInv, Answered
<1>2. PICK n \in 0 .. Len(history) :
        /\ n \in Nat /\ s \in [1 .. n -> Ids] /\ Len(s) = n /\ DOMAIN s = 1 .. n
        /\ \A a, b \in 1 .. n : a # b => s[a] # s[b]
        /\ \A k \in 1 .. n, i \in Ids : Precedes(i, s[k]) => \E m \in 1 .. k - 1 : s[m] = i
        /\ \A k \in 1 .. n : StepOk(StateAfter(s)[k - 1], history[s[k]])
  BY <1>1, PartialFacts
<1> DEFINE A(k) == {s[j] : j \in 1 .. k}
           f == StateAfter(s)
           P == {k \in 0 .. n : Exhausted(A(k), f[k]) /\ \A i \in A(k) : k <= Len(longest[i])}
<1>3. f[0] = KvInit /\ \A k \in 1 .. n : f[k] = NewState(f[k - 1], history[s[k]])
  BY <1>1, <1>2, StateAfterRec
<1>4. /\ \A k \in 0 .. n : A(k) \subseteq Ids /\ Cardinality(A(k)) = k
      /\ n = Len(history) <=> A(n) = Ids
  <2>1. /\ \A k \in 0 .. n : LET B == {s[j] : j \in 1 .. k} IN
             B \subseteq Ids /\ IsFiniteSet(B) /\ Cardinality(B) = k
        /\ n = Len(history) <=> {s[j] : j \in 1 .. n} = Ids
    <3> HIDE DEF f
    <3> QED BY <1>1, <1>2, CountIds
  <2> QED BY <2>1
<1> HIDE DEF f
<1>5. 0 \in P
  <2>1. A(0) = {} /\ 0 \in 0 .. n
    BY <1>2
  <2> HIDE DEF A
  <2>2. Exhausted(A(0), f[0]) /\ \A i \in A(0) : 0 <= Len(longest[i])
    BY <1>1, <1>3, <2>1
  <2> QED BY <2>1, <2>2
<1>6. ASSUME NEW k \in 0 .. n, k < n, k \in P PROVE k + 1 \in P
  <2> DEFINE j == s[k + 1]
  <2>1. k + 1 \in 1 .. n /\ k + 1 \in 0 .. n /\ (k + 1) - 1 = k /\ k \in Nat
    BY <1>2, <1>6
  <2>2. j \in Ids /\ j \notin A(k)
    BY <1>2, <2>1
  <2>3. A(k + 1) = A(k) \cup {j}
    <3>1. \A m : m \in 1 .. k + 1 <=> m \in 1 .. k \/ m = k + 1
      BY <2>1
    <3> QED BY <3>1
  <2>4. \A i \in Ids : Precedes(i, j) => i \in A(k)
    BY <1>2, <2>1
  <2>5. StepOk(f[k], history[j]) /\ f[k + 1] = NewState(f[k], history[j])
    BY <1>2, <1>3, <2>1 DEF f
  <2>6. Exhausted(A(k), f[k])
    BY <1>6
  <2> HIDE DEF A, j, P
  <2>7. Taken(A(k), f[k], j)
    BY <2>2, <2>4, <2>6 DEF Exhausted
  <2>8. <<A(k + 1), f[k + 1]>> \in cache
    BY <2>3, <2>5, <2>7 DEF Taken
  <2>9. ASSUME NEW m \in 1 .. Len(calls) + 1 PROVE <<A(k + 1), f[k + 1]>> # <<Before(calls, m), StateAt(m)>>
    <3>1. Before(calls, m) = {}
      BY <1>1 DEF Before
    <3> QED BY <2>3, <3>1
  <2>10. /\ Exhausted(A(k + 1), f[k + 1])
         /\ \A i \in A(k + 1) : Cardinality(A(k + 1)) <= Len(longest[i])
    BY <1>1, <2>8, <2>9 DEF Explored
  <2>11. Cardinality(A(k + 1)) = k + 1
    BY <1>4, <2>1
  <2> QED BY <2>1, <2>10, <2>11 DEF P
<1> HIDE DEF P
<1>7. n \in P
  <2>1. \A k \in 0 .. n : k < n /\ k \in P => k + 1 \in P
    BY <1>6
  <2>2. \A k \in 0 .. n : k \in P
    BY <1>2, <1>5, <2>1, UpTo, Zenon
  <2> QED BY <1>2, <2>2
<1>8. Exhausted(A(n), f[n]) /\ \A i \in A(n) : n <= Len(longest[i])
  BY <1>7 DEF P
<1>9. A(n) # Ids
  BY <1>8 DEF Exhausted
<1>10. \A k \in 1 .. n : s[k] \in A(n)
  OBVIOUS
<1> HIDE DEF A
<1> QED BY <1>2, <1>4, <1>8, <1>9, <1>10

\* checkSingle answers true exactly for the linearizable histories, unless it
\* is killed: the cache and the backtracking lose no linearization.
THEOREM AnswerIsCorrect == Spec => []AnswerIsLinearizability
<1>1. ASSUME TypeInv, AnswerInv, result = "true" PROVE Linearizable
  <2>1. PICK ord : SearchInv(ord)
    BY <1>1 DEF AnswerInv
  <2>2. SearchList(ord) /\ StackStates /\ linearized = Ids
    BY <1>1, <2>1 DEF SearchInv, Answered
  <2>3. CallIds \in PartialLinearizations /\ Len(CallIds) = Len(history)
    BY <1>1, <2>2, StackIsPartialLinearization
  <2> QED BY <2>3 DEF Linearizable
<1>2. ASSUME TypeInv, AnswerInv, result = "false", ~kill PROVE ~Linearizable
  <2>1. PICK ord : SearchInv(ord)
    BY <1>2 DEF AnswerInv
  <2> QED BY <1>2, <2>1, FailedSearch DEF Linearizable
<1>3. TypeInv /\ ListInv /\ AnswerInv => AnswerIsLinearizability
  BY <1>1, <1>2 DEF AnswerIsLinearizability
<1> QED BY <1>3, AnswerInvariant, PTL

\* What computeInfo shows for an operation is a partial linearization with it
\* of which no longer one exists, or nothing if none exists.
THEOREM LongestIsRecorded == Spec => []LongestIsLongest
<1>1. ASSUME TypeInv, AnswerInv, Done, ~kill, NEW i \in Ids
      PROVE  LET with == {s \in PartialLinearizations : \E k \in DOMAIN s : s[k] = i}
             IN IF with = {} THEN longest[i] = <<>>
                ELSE longest[i] \in with /\ \A s \in with : Len(s) <= Len(longest[i])
  <2> DEFINE with == {s \in PartialLinearizations : \E k \in DOMAIN s : s[k] = i}
  <2>1. PICK ord : SearchInv(ord)
    BY <1>1 DEF AnswerInv, Done
  <2>2. HistoryOK /\ LongestOK /\ Answered /\ SearchList(ord) /\ StackStates
    BY <1>1, <2>1 DEF SearchInv, TypeInv
  <2>3. longest[i] # <<>> => longest[i] \in with
    BY <2>2 DEF LongestOK
  <2>4. ASSUME NEW s \in with PROVE Len(s) <= Len(longest[i]) /\ Len(s) \in Nat /\ Len(s) > 0
    <3>1. s \in PartialLinearizations /\ \E k \in DOMAIN s : s[k] = i
      OBVIOUS
    <3>2. Len(s) \in 0 .. Len(history) /\ DOMAIN s = 1 .. Len(s)
      BY <2>2, <3>1, PartialFacts
    <3>3. Len(s) <= Len(longest[i])
      <4>1. CASE result = "false"
        BY <1>1, <2>1, <3>1, <4>1, FailedSearch
      <4>2. CASE result = "true"
        <5>1. longest[i] = CallIds /\ linearized = Ids
          BY <2>2, <4>2 DEF Answered
        <5>2. Len(CallIds) = Len(history)
          BY <1>1, <2>2, <5>1, StackIsPartialLinearization
        <5> QED BY <3>2, <5>1, <5>2
      <4> QED BY <1>1, <4>1, <4>2 DEF Done
    <3> QED BY <3>1, <3>2, <3>3
  <2> HIDE DEF with
  <2>5. CASE with = {}
    BY <2>3, <2>5 DEF with
  <2>6. CASE with # {}
    <3>1. longest[i] # <<>>
      BY <2>4, <2>6
    <3> QED BY <2>3, <2>4, <2>6, <3>1 DEF with
  <2> QED BY <2>5, <2>6
<1>2. TypeInv /\ ListInv /\ AnswerInv => LongestIsLongest
  BY <1>1 DEF LongestIsLongest
<1> QED BY <1>2, AnswerInvariant, PTL
=============================================================================
