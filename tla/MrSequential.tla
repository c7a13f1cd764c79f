---------------------------- MODULE MrSequential ----------------------------
(***************************************************************************)
(* main/mrsequential.go with the applications mrapps/wc.go and             *)
(* mrapps/indexer.go: Map on every file, one sort by key, Reduce on every  *)
(* run of equal keys.  sort.Sort is not stable and indexer ranges over a   *)
(* Go map, so both orders are open; the output must not depend on them.    *)
(* It is the reference the distributed version is compared with.           *)
(***************************************************************************)
EXTENDS Naturals, FiniteSets, SequencesExt

CONSTANTS
    NFiles,   \* input files on the command line
    Words,    \* words that occur, in the order of their keys
    MaxWords  \* bound: words in a file

InputAssumption == NFiles \in Nat \ {0} /\ Words \subseteq Nat /\ MaxWords \in Nat

VARIABLES app, contents, pc, nextFile, intermediate, i, ofile

vars == <<app, contents, pc, nextFile, intermediate, i, ofile>>

Init ==
    /\ app \in {"wc", "indexer"}
    /\ contents \in [1 .. NFiles -> SeqOf(Words, MaxWords)]
    /\ pc = "map" /\ nextFile = 1
    /\ intermediate = <<>> /\ i = 1 /\ ofile = <<>>

-----------------------------------------------------------------------------
(* The applications *)

KeyValue(key, value) == [key |-> key, value |-> value]

\* wc: every word with the value "1".
WcMap(words) == {[k \in 1 .. Len(words) |-> KeyValue(words[k], 1)]}

\* indexer: every word of the document once, in the order of a Go map.
IndexerMap(document, words) ==
    {[k \in DOMAIN s |-> KeyValue(s[k], document)] : s \in SetToSeqs(ToSet(words))}

Map(file) ==
    IF app = "wc" THEN WcMap(contents[file]) ELSE IndexerMap(file, contents[file])

\* wc: how many values the word has.
WcReduce(values) == Len(values)

(* As if indexer left the values in the order it got them. *)
IndexerReduceUnsorted(values) == <<Len(values), values>>

\* indexer sorts the documents before it joins them.
IndexerReduce(values) == <<Len(values), SortSeq(values, <)>>

Reduce(values) == IF app = "wc" THEN WcReduce(values) ELSE IndexerReduce(values)

-----------------------------------------------------------------------------
(* main *)

OpenFails ==
    /\ pc = "map" /\ nextFile <= NFiles
    /\ pc' = "fatal"
    /\ UNCHANGED <<app, contents, nextFile, intermediate, i, ofile>>

MapFile ==
    /\ pc = "map" /\ nextFile <= NFiles
    /\ \E kva \in Map(nextFile) : intermediate' = intermediate \o kva
    /\ nextFile' = nextFile + 1
    /\ UNCHANGED <<app, contents, pc, i, ofile>>

\* Every order sort.Sort(ByKey) may leave behind.
Sorted(s) ==
    {t \in {[k \in DOMAIN s |-> s[p[k]]] : p \in {q \in [DOMAIN s -> DOMAIN s] : IsInjective(q)}} :
        \A k \in 1 .. Len(t) - 1 : t[k].key <= t[k + 1].key}

Sort ==
    /\ pc = "map" /\ nextFile > NFiles
    /\ intermediate' \in Sorted(intermediate)
    /\ pc' = "reduce"
    /\ UNCHANGED <<app, contents, nextFile, i, ofile>>

\* j: the first index behind the run of the key at index from.
GroupEnd(from) ==
    CHOOSE j \in from + 1 .. Len(intermediate) + 1 :
        /\ j > Len(intermediate) \/ intermediate[j].key # intermediate[from].key
        /\ \A k \in from .. j - 1 : intermediate[k].key = intermediate[from].key

\* Reduce one run of equal keys and print its line.
ReduceGroup ==
    LET j == GroupEnd(i)
        values == [k \in 1 .. j - i |-> intermediate[i + k - 1].value]
    IN
    /\ pc = "reduce" /\ i <= Len(intermediate)
    /\ ofile' = Append(ofile, <<intermediate[i].key, Reduce(values)>>)
    /\ i' = j
    /\ UNCHANGED <<app, contents, pc, nextFile, intermediate>>

Close ==
    /\ pc = "reduce" /\ i > Len(intermediate)
    /\ pc' = "done"
    /\ UNCHANGED <<app, contents, nextFile, intermediate, i, ofile>>

Exited == pc \in {"fatal", "done"} /\ UNCHANGED vars

Next == OpenFails \/ MapFile \/ Sort \/ ReduceGroup \/ Close \/ Exited

Spec == Init /\ [][Next]_vars

-----------------------------------------------------------------------------
(* Properties *)

\* The type of the state: no more pairs than the files have words, no more
\* lines than pairs.
TypeOK ==
    /\ pc \in {"map", "reduce", "done", "fatal"}
    /\ nextFile \in 1 .. NFiles + 1
    /\ Len(intermediate) <= NFiles * MaxWords
    /\ i \in 1 .. Len(intermediate) + 1 /\ Len(ofile) < i

Occurring == UNION {ToSet(contents[f]) : f \in 1 .. NFiles}

Occurrences(w) == FoldFunction(+, 0, [f \in 1 .. NFiles |-> Len(SelectSeq(contents[f], LAMBDA x : x = w))])

Documents(w) == {f \in 1 .. NFiles : w \in ToSet(contents[f])}

\* What the applications promise of a word, in terms of the files alone.
Expected(w) ==
    IF app = "wc" THEN Occurrences(w)
    ELSE <<Cardinality(Documents(w)), SetToSortSeq(Documents(w), <)>>

\* The file has one line for every word that occurs, in the order of the words,
\* with its count or its documents, whatever order sort.Sort and the range over
\* the Go map produced.
OutputIsExpected ==
    pc = "done" =>
        LET keys == SetToSortSeq(Occurring, <)
        IN  ofile = [k \in DOMAIN keys |-> <<keys[k], Expected(keys[k])>>]
=============================================================================
