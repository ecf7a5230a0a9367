--------------------------- MODULE MCDecisionTree ---------------------------
(* Instances of DecisionTree for TLC. *)
EXTENDS DecisionTree

Site(symbols, rows) == [symbols |-> symbols, NMatrix |-> rows]

\* Sites of three nodes that share prefixes in every way: chain and chain
\* share their rows and differ by a label only, fork differs in its first
\* row, loop in its last one.
chain  == Site(<<1, 1, 2>>, << <<2, 0>>, <<3, 0>>, <<0, 0>> >>)
chain2 == Site(<<1, 2, 2>>, << <<2, 0>>, <<3, 0>>, <<0, 0>> >>)
loop   == Site(<<1, 1, 2>>, << <<2, 0>>, <<3, 0>>, <<1, 0>> >>)
fork   == Site(<<1, 1, 2>>, << <<2, 3>>, <<0, 0>>, <<0, 0>> >>)
fork2  == Site(<<2, 1, 2>>, << <<2, 3>>, <<0, 3>>, <<0, 0>> >>)

Five == {chain, chain2, loop, fork, fork2}
Four == Five \ {fork2}
=============================================================================
