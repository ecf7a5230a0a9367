------------------------------- MODULE MCGTSI -------------------------------
(***************************************************************************)
(* Instances of GTSI.                                                      *)
(***************************************************************************)
EXTENDS GTSI

Graph(children, symb) == [children |-> children, symb |-> symb]
UpTo2(N) == UNION {[1..d -> N] : d \in 0..2}
option0 == [list |-> FALSE, useTree |-> TRUE, checkLabels |-> TRUE,
            siteSize |-> 2, limit |-> NoLimit]

\* Every graph of two nodes with at most two children each, with the labels
\* equal or not: each is learnt, then searched for in each.
Two(labels) == {Graph(c, s) : c \in [1..2 -> UpTo2(1..2)], s \in labels}
PairInputs == [learn : {<<g>> : g \in Two({<<1, 2>>})},
               scan  : {<<g>> : g \in Two({<<1, 2>>, <<2, 2>>})}]
PairOptions == {option0, [option0 EXCEPT !.useTree = FALSE], [option0 EXCEPT !.checkLabels = FALSE]}

\* Graphs of up to four nodes: a diamond, a cycle with a chord, a tree, one of
\* them without its last link, other labels, and a last node of three children.
Diamond == Graph(<<<<2, 3>>, <<4>>, <<4>>, <<1>>>>, <<1, 2, 2, 3>>)
Chord   == Graph(<<<<2, 3>>, <<3, 1>>, <<1>>>>, <<1, 2, 2>>)
Less1   == Graph(<<<<2, 3>>, <<3, 1>>, <<>>>>, <<1, 2, 2>>)
Relabel == Graph(<<<<2, 3>>, <<3, 1>>, <<1>>>>, <<1, 2, 3>>)
Double  == Graph(<<<<2, 2>>, <<3, 2>>, <<3, 1>>>>, <<1, 1, 2>>)
Pair    == Graph(<<<<2>>, <<1>>>>, <<1, 2>>)
Wide    == Graph(<<<<2>>, <<1>>, <<2, 2, 1>>>>, <<1, 3, 2>>)
Lists == {<<Diamond, Unreadable, Chord>>, <<Chord, Less1, Relabel>>, <<Unreadable>>,
          <<Double, Pair, Chord, Diamond>>, <<Pair, Wide, Chord>>}
ListInputs == [learn : Lists, scan : {<<Diamond, Double>>, <<Less1, Unreadable, Chord>>, <<Relabel>>, <<>>}]
ListOptions == [list : {TRUE}, useTree : {TRUE}, checkLabels : BOOLEAN,
                siteSize : {2, 3}, limit : {NoLimit, 0, 1, 3}]
               \cup {[option0 EXCEPT !.list = TRUE, !.useTree = FALSE]}

AllInputs == PairInputs \cup ListInputs
OptionsFor(in) == IF in \in ListInputs THEN ListOptions ELSE PairOptions
LimitOptions(in) == {[option0 EXCEPT !.limit = 1]}
=============================================================================
