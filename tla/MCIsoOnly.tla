----------------------------- MODULE MCIsoOnly -----------------------------
(* Instances of IsoOnly for TLC. *)
EXTENDS IsoOnly

Graph(kids, labels) == [children |-> kids, symb |-> labels]

\* Six nodes, two loops, links back to the site, one node with three children.
Six == Graph(<< <<2, 3>>, <<4, 1>>, <<4, 5>>, <<6, 2, 1>>, <<3>>, <<>> >>,
             <<1, 2, 1, 4, 1, 3>>)
\* The same with other numbers, one label changed.
Moved == Graph(<< <<6>>, <<1, 6>>, <<2, 4>>, <<5, 6, 2>>, <<>>, <<3, 4>> >>,
               <<1, 2, 1, 4, 1, 2>>)
\* Double links, and nodes out of reach.
Small == Graph(<< <<2, 2>>, <<3, 1>>, <<1>>, <<5>>, <<4, 1, 3>> >>, <<1, 2, 2, 1, 2>>)
\* The same links as Small but for a link from a node to itself.
Self == Graph(<< <<2, 2>>, <<3, 1>>, <<1>>, <<5>>, <<4, 5, 3>> >>, <<1, 2, 2, 1, 2>>)
\* Graphs with no site of four nodes.
Three == {Graph(<<a, b, c>>, <<1, 2, 1>>) :
             a \in {<<>>, <<2>>, <<3>>, <<2, 3>>, <<3, 2>>},
             b \in {<<>>, <<3>>, <<3, 1>>},
             c \in {<<>>, <<2, 1>>}}

Pairs == {[P |-> a, T |-> b] : a, b \in {Six, Moved, Small, Self}}
         \cup {[P |-> a, T |-> Small] : a \in Three}

\* A label other than 1 on a node linked to itself.
Looped == {[P |-> Graph(<< <<1, 2>>, <<1>> >>, <<2, 3>>),
            T |-> Graph(<< <<2>>, <<1>> >>, <<1, 3>>)]}
=============================================================================
