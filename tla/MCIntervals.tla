---------------------------- MODULE MCIntervals ----------------------------
(* Instances of Intervals for TLC. *)
EXTENDS Intervals

GraphOf(n, links) ==
    [children |-> [m \in 1..n |-> SetToSortSeq({k \in 1..n : <<m, k>> \in links},
                                               LAMBDA a, b : a < b)],
     symb |-> [m \in 1..n |-> 1], root |-> 1]

\* Every graph of three nodes, and those of four without links back to the
\* root or to the node itself, most of them not connected.
Threes == {GraphOf(3, links) : links \in SUBSET ((1..3) \X (1..3))}
Fours == {GraphOf(4, links) :
             links \in SUBSET {<<a, b>> \in (1..4) \X (2..4) : a # b}}

Kids(kids, r) == [children |-> kids, symb |-> [m \in DOMAIN kids |-> 1], root |-> r]

\* Larger graphs that need several reductions: nested loops, a loop entered
\* twice behind a loop, double links, a root that is not the first node.
Larger == {Kids(<< <<2>>, <<3>>, <<4, 2>>, <<5, 1>>, <<4, 6, 6>>, <<3, 6>> >>, 1),
           Kids(<< <<2>>, <<3, 4>>, <<2, 5>>, <<5, 6>>, <<6>>, <<5, 2>> >>, 1),
           Kids(<< <<2, 2>>, <<1, 3>>, <<4>>, <<3, 1>>, <<1, 2, 6>>, <<6, 5>> >>, 5),
           Kids(<< <<2>>, <<3, 6>>, <<4>>, <<5, 2>>, <<1, 3, 4>>, <<>> >>, 1)}

All == Threes \cup Fours \cup Larger
=============================================================================
