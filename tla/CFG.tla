-------------------------------- MODULE CFG --------------------------------
(***************************************************************************)
(* Control-flow graphs as libs/libgraph keeps them in memory: node n of    *)
(* the model is storage[n-1], children[n] are its children in order and    *)
(* symb[n] is its label.  fathers[n] of the code holds n's predecessors,   *)
(* once per link, so it is derived from children here.                     *)
(***************************************************************************)
EXTENDS Integers, Sequences, FiniteSets, SequencesExt

\* The elements of s at the positions in I, in their order.
RankIn(I, i) == Cardinality({j \in I : j <= i})
ElementsAt(s, I) == [k \in 1..Cardinality(I) |-> s[CHOOSE i \in I : RankIn(I, i) = k]]

NodesOf(g) == DOMAIN g.children

IsGraph(g) ==
    /\ g.children \in Seq(Seq(NodesOf(g)))
    /\ g.symb \in [NodesOf(g) -> Nat]

Successors(g, S) == UNION {Range(g.children[n]) : n \in S}

\* The nodes at distance at most k from root.
Ball(g, root, k) ==
    LET ball[i \in 0..k] ==
          IF i = 0 THEN {root}
          ELSE LET b == ball[i-1] IN b \cup Successors(g, b)
    IN  ball[k]

Reachable(g, root) == Ball(g, root, Cardinality(NodesOf(g)))

\* The char E(n1, n2) of libGraphBinAlgo.c: is there an edge?
E(g, n1, n2) == n2 \in Range(g.children[n1])

Fathers(g, n) == {m \in NodesOf(g) : E(g, m, n)}

children_nb(g, n) == Len(g.children[n])

fathers_nb(g, n) ==
    Cardinality(UNION {{<<m, k>> : k \in {k \in DOMAIN g.children[m] : g.children[m][k] = n}} :
                       m \in NodesOf(g)})
=============================================================================
