---------------------------- MODULE MCUllmann ----------------------------
(* Instances of Ullmann for TLC. *)
EXTENDS Ullmann

\* The graph with a set of links; children in increasing order.
GraphOf(n, links, symb) ==
    [children |-> [m \in 1..n |-> SetToSortSeq({k \in 1..n : <<m, k>> \in links},
                                               LAMBDA a, b : a < b)],
     symb |-> symb, root |-> 1]

\* Every graph of three nodes without a link from a node to itself, searched
\* in every other.
Edges == {<<a, b>> \in (1..3) \X (1..3) : a # b}
Patterns == {GraphOf(3, links, <<1, 1, 2>>) : links \in SUBSET Edges}
Threes == [grPattern : Patterns,
           grToTest : {GraphOf(3, links, <<1, 2, 1>>) : links \in SUBSET Edges}]

\* Four nodes: a diamond, a loop entered twice, a node that calls itself and
\* one linked twice to the same child, children not in order.
Fours == {[children |-> kids, symb |-> <<1, 1, 2, 1>>, root |-> 1] : kids \in
             {<< <<2, 3>>, <<4>>, <<4>>, <<>> >>,
              << <<3, 2>>, <<3, 4>>, <<2>>, <<1>> >>,
              << <<2, 3>>, <<2, 4>>, <<1>>, <<3>> >>,
              << <<2, 2>>, <<3, 4>>, <<3>>, <<2>> >>}}
Empty == [children |-> <<>>, symb |-> <<>>, root |-> 0]

Mixed == [grPattern : Patterns, grToTest : Fours]
         \cup [grPattern : Fours \cup {Empty}, grToTest : Fours]
         \cup [grPattern : {Empty} \cup Fours, grToTest : {GraphOf(3, Edges, <<1, 2, 1>>)}]
AllInputs == Threes \cup Mixed

Opt(np, cs, oi, fr, c) ==
    [mcs |-> FALSE, noPerm |-> np, checkSymb |-> cs, onlyInduced |-> oi,
     forceRoots |-> fr, count |-> c]
SearchOptions == {Opt(FALSE, l, oi, l, c) : l, oi, c \in BOOLEAN}
NoPermOptions == {Opt(TRUE, FALSE, FALSE, FALSE, TRUE)}
AllSearchOptions == SearchOptions \cup NoPermOptions
MCSOptions == {[Opt(FALSE, FALSE, oi, FALSE, c) EXCEPT !.mcs = TRUE] : oi, c \in BOOLEAN}
EveryOption == AllSearchOptions \cup MCSOptions

\* Two isomorphic graphs of four nodes of which -mcs finds three only.
Shared == {[grPattern |-> GraphOf(4, {<<1, 3>>, <<1, 4>>, <<3, 2>>, <<3, 4>>, <<4, 3>>}, <<1, 1, 1, 1>>),
            grToTest |-> GraphOf(4, {<<1, 4>>, <<2, 1>>, <<2, 4>>, <<4, 1>>, <<4, 3>>}, <<1, 1, 1, 1>>)]}
EveryInput == AllInputs \cup Shared
=============================================================================
