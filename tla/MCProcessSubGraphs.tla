------------------------ MODULE MCProcessSubGraphs ------------------------
(* Instances of ProcessSubGraphs for TLC. *)
EXTENDS ProcessSubGraphs

Graph(kids) == [children |-> kids, symb |-> [n \in DOMAIN kids |-> 1]]

\* Five roots for four threads; node 5 has no site.
Five == [grPattern |-> Graph(<< <<2, 3>>, <<3, 4>>, <<1, 5>>, <<2, 4>>, <<5>> >>),
         root |-> 1, tests |-> {1, 2},
         isoUllman |-> << <<0, 1>>, <<2, 1>>, <<0, 0>>, <<1, 0>>, <<1, 1>> >>]

\* Three roots for four threads: the first thread gets none.
Three == [grPattern |-> Graph(<< <<2, 3>>, <<1, 3>>, <<3, 2>> >>),
          root |-> 2, tests |-> {2},
          isoUllman |-> << <<1, 3>>, <<1, 0>>, <<0, 2>> >>]

FiveAndThree == {Five, Three}
=============================================================================
