------------------------------- MODULE MCSIDT -------------------------------
(* Instances of SIDT for TLC. *)
EXTENDS SIDT

\* Two loops with the same shape and other labels, sharing their exit.
Twins == [children |-> << <<2>>, <<1, 3>>, <<4, 5>>, <<3, 5>>, <<>> >>,
          symb |-> <<1, 2, 1, 3, 1>>]
\* A diamond with a tail: one of its sites is also in Twins.
Diamond == [children |-> << <<2, 3>>, <<4>>, <<4>>, <<5>>, <<4, 3>> >>,
            symb |-> <<1, 2, 2, 1, 2>>]
\* A graph with a node of three children and a part too small for a site.
Fan == [children |-> << <<2, 3, 1>>, <<1>>, <<4>>, <<>> >>,
        symb |-> <<1, 2, 1, 2>>]

Paths == {"twins", "diamond", "fan", "none"}
Content == ("twins" :> Twins) @@ ("diamond" :> Diamond) @@ ("fan" :> Fan)

List(paths) == [paths |-> paths, newline |-> TRUE]

AllLists == {List(<<>>), List(<<"twins">>), List(<<"fan">>),
             List(<<"twins", "diamond">>), List(<<"diamond", "twins">>),
             List(<<"none", "fan">>), List(<<"twins", "fan", "diamond">>),
             List(<<"fan", "twins", "fan">>),
             [paths |-> <<"fan", "diamond">>, newline |-> FALSE]}

Funcs == << [start |-> 1, end |-> 3], [start |-> 2, end |-> 4] >>
=============================================================================
