---------------------------- MODULE MCDot2Edg -----------------------------
(***************************************************************************)
(* An instance of Dot2Edg for TLC.                                         *)
(***************************************************************************)
EXTENDS Dot2Edg

Lists(n) == UNION {[1..d -> 1..n] : d \in 0..2}
GraphsOf(n) == {[children |-> c, symb |-> [i \in 1..n |-> i + 10], root |-> r] :
                   c \in [1..n -> Lists(n)], r \in 0..n}

\* Every graph of two nodes with at most two children each, orphans and a root
\* among them included, some of three, and the graph without nodes.
Graph(c, r) == [children |-> c, symb |-> <<7, 8, 7>>, root |-> r]
MCGraphs == GraphsOf(0) \cup GraphsOf(2)
            \cup {Graph(<<<<3, 3>>, <<>>, <<1>>>>, r) : r \in {1, 2}}
            \cup {Graph(<<<<2, 3>>, <<1>>, <<2, 3>>>>, 3)}

\* a and twin have the same hash, JUMP is no symbol for the reader.
MCNames == {"a", "b", "c", "twin"}
MCHash == [x \in MCNames |-> CASE x = "b" -> 2 [] x = "c" -> 3 [] OTHER -> 1]
MCSymb == [v \in {"RET", "JCC", "JUMP"} |-> CASE v = "RET" -> 1 [] v = "JCC" -> 8 [] OTHER -> -1]

Option(id, value) == [id |-> id, value |-> value]
NodeOf(x, options) == [kind |-> "node", name |-> x, options |-> options]
EdgeOf(f, c) == [kind |-> "edge", father |-> f, child |-> c]

OptionLists == {<<>>, <<Option("label", "RET")>>,
                <<Option("symb", "JCC"), Option("label", "RET")>>,
                <<Option("label", "RET"), Option("other", "RET"), Option("symb", "JUMP"),
                  Option("symb", "JCC")>>,
                <<Option("label", "JUMP"), Option("label", "JCC")>>}

UpTo(S, n) == UNION {[1..k -> S] : k \in 0..n}
Plain(x) == NodeOf(x, <<>>)

\* Every list of up to three nodes, two of them the same or not, with every
\* list of two edges; then every pair of lists of options; then errors.
ShapeTexts == {names \o edges :
                  names \in UpTo({Plain(x) : x \in MCNames}, 3),
                  edges \in UpTo({EdgeOf("a", "b"), EdgeOf("b", "a"), EdgeOf("a", "twin"),
                                  EdgeOf("c", "b"), EdgeOf("b", "b")}, 2)}
OptionTexts == {<<NodeOf("a", o), NodeOf(x, q), EdgeOf("a", x)>> :
                   o, q \in OptionLists, x \in {"b", "twin"}}
ErrorTexts == {<<Plain("a"), EdgeOf("a", "a"), Plain("b")>>, <<Error>>,
               <<Plain("a"), Error, EdgeOf("a", "a")>>}
MCTexts == ShapeTexts \cup OptionTexts \cup ErrorTexts

AllTexts == {Dot, NotAGraph}
BothEntries == {"graph_from_file", "getGraphFromFile"}
=============================================================================
