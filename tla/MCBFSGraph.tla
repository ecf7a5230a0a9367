---------------------------- MODULE MCBFSGraph ----------------------------
(* Instances of BFSGraph for TLC. *)
EXTENDS BFSGraph

Graph(c, labels) == [children |-> c, symb |-> labels]

\* Every graph of three nodes with at most two different children each.
Lists == {<<>>} \cup {<<m>> : m \in 1..3}
            \cup ({<<m, n>> : m, n \in 1..3} \ {<<n, n>> : n \in 1..3})
Threes == {Graph(c, <<1, 1, 1>>) : c \in [1..3 -> Lists]}

\* Graphs of four nodes that fill the site in the middle of a node.
Fours == {Graph(<<c1, c2, c3, c4>>, <<1, 2, 1, 3>>) :
             c1 \in {<<2, 3>>, <<3, 2>>, <<1, 4>>, <<2, 2>>},
             c2 \in {<<>>, <<1, 3>>, <<4, 3>>, <<3>>},
             c3 \in {<<>>, <<1, 4>>, <<4>>}, c4 \in {<<>>, <<2, 3>>, <<4>>}}

\* A loop through a shared child, a node with three children, a double edge,
\* a self loop: more nodes than a site holds.
Braid   == [children |-> << <<2, 3>>, <<4, 5>>, <<5, 4>>, <<1, 6>>, <<5, 2>>, <<6, 3>> >>,
            symb |-> <<1, 2, 2, 1, 3, 3>>]
Switch  == [children |-> << <<2, 3, 4>>, <<5, 5>>, <<1, 5, 3>>, <<>>, <<6, 1, 4>>, <<1>> >>,
            symb |-> <<1, 2, 3, 1, 1, 2>>]
Ladder  == [children |-> << <<2, 3>>, <<3, 4>>, <<4, 5>>, <<5, 6>>, <<6, 1>>, <<>> >>,
            symb |-> <<1, 1, 1, 2, 2, 2>>]

All == Threes \cup Fours \cup {Braid, Switch, Ladder}
=============================================================================
