---------------------------- MODULE WordCounter ----------------------------
(***************************************************************************)
(* What GTSI promises: it learns a set of words, then tells of each graph  *)
(* how many of them can be walked there, each counted once however often   *)
(* and from however many nodes it can be walked.                           *)
(***************************************************************************)
EXTENDS Integers, Sequences, FiniteSets

CONSTANTS IsWord(_),     \* what may be learnt
          Holds(_, _)    \* Holds(w, query): w can be walked in the graph

VARIABLES words, queries, answers

vars == <<words, queries, answers>>

Init == words = {} /\ queries = <<>> /\ answers = <<>>

Learn == /\ answers = <<>>
         /\ \E w \in words' : IsWord(w) /\ w \notin words /\ words' = words \cup {w}
         /\ UNCHANGED <<queries, answers>>

Answer == /\ \E query \in {queries'[i] : i \in DOMAIN queries'} :
                /\ queries' = Append(queries, query)
                /\ answers' = Append(answers, Cardinality({w \in words : Holds(w, query)}))
          /\ UNCHANGED words

Next == Learn \/ Answer

Spec == Init /\ [][Next]_vars
=============================================================================
