------------------------------ MODULE Parcours ------------------------------
(***************************************************************************)
(* Traversal words of src/libsGTSI/Traversal: the word a breadth-first     *)
(* walk of a graph writes (parcoursLargeur), when two words are the same   *)
(* (equals) and the walk of one word alone (parcourirDepuisSommet).        *)
(*                                                                         *)
(* A letter of type M1 names the label of the root; a letter of type M2    *)
(* goes back to node number i (alpha_is_R), goes to the new node i by the  *)
(* child k of the current node and names its label (has_symbol), or goes   *)
(* by the child k to a node that has its number already.  Children are     *)
(* counted from 1 here.  The field list_id is read only where the same     *)
(* call wrote it, so it is the position in explored.                       *)
(***************************************************************************)
EXTENDS CFG

M1(symbol) == [type |-> "M1", symbol |-> symbol]
BackTo(i) == [type |-> "R", i |-> i]
NewChild(k, i, symbol) == [type |-> "new", k |-> k, i |-> i, symbol |-> symbol]
OldChild(k, i) == [type |-> "old", k |-> k, i |-> i]

\* Op(x), with x evaluated once: TLC keeps no value it computes under ENABLED.
Once(Op(_), x) == CHOOSE r \in {Op(y) : y \in {x}} : TRUE

list_id(explored, n) == CHOOSE i \in DOMAIN explored : explored[i] = n

-----------------------------------------------------------------------------
(***************************************************************************)
(* parcoursLargeur(graph, vroot, W).  The queue holds triples <<father, k, *)
(* node>>; sc is the node the word has reached.                            *)
(***************************************************************************)
\* Faulty variant: a link to a node the word has is left out (WordsTellSites).
TakesNewOnly(ss, s, W) == ss \notin Range(s.explored) /\ Len(s.explored) < W
Takes(ss, s, W) == ss \in Range(s.explored) \/ Len(s.explored) < W

Pop(g, W, s) ==
    LET pere == s.queue[1][1]
        k    == s.queue[1][2]
        ss   == s.queue[1][3]
        i    == Len(s.explored) + 1
        back == IF s.sc # pere /\ s.mots # <<>>
                THEN <<BackTo(list_id(s.explored, pere))>> ELSE <<>>
    IN  IF ~Takes(ss, s, W) THEN [s EXCEPT !.queue = Tail(@)]
        ELSE IF ss \in Range(s.explored)
        THEN [s EXCEPT !.queue = Tail(@), !.sc = ss,
                       !.mots = @ \o back \o <<OldChild(k, list_id(s.explored, ss))>>]
        ELSE [queue |-> Tail(s.queue) \o
                        [c \in DOMAIN g.children[ss] |-> <<ss, c, g.children[ss][c]>>],
              explored |-> Append(s.explored, ss),
              sc |-> ss,
              mots |-> s.mots \o back \o
                       <<IF s.mots = <<>> THEN M1(g.symb[ss])
                         ELSE NewChild(k, i, g.symb[ss])>>]

\* At most W nodes put their children, two at most, in the queue.
parcoursLargeur(g, vroot, W) ==
    LET start == [queue |-> <<<<0, 0, vroot>>>>, explored |-> <<>>, sc |-> 0, mots |-> <<>>]
        run[t \in 0..(2 * W + 1)] ==
            IF t = 0 THEN start
            ELSE Once(LAMBDA s : IF s.queue = <<>> THEN s ELSE Pop(g, W, s), run[t - 1])
        end == run[2 * W + 1]
    IN  [mots     |-> end.mots,
         complete |-> Len(end.explored) = W,
         explored |-> end.explored,
         asserts  |-> \A n \in Range(end.explored) : children_nb(g, n) <= 2]

-----------------------------------------------------------------------------
(***************************************************************************)
(* MotParcours::equals and Parcours::equals.  The label of a letter M1 is  *)
(* compared even without checkLabels.                                      *)
(***************************************************************************)
\* Faulty variant: the numbers are not compared (SitesAreFound).
ForgetsNumber(m, o, checkLabels) ==
    /\ m.type = o.type
    /\ m.type \in {"new", "old"} => m.k = o.k
    /\ m.type = "M1" => m.symbol = o.symbol
SameLetter(m, o, checkLabels) ==
    \/ m = o
    \/ /\ ~checkLabels
       /\ m.type = "new" /\ o.type = "new"
       /\ m.k = o.k /\ m.i = o.i

SameWord(p, q, checkLabels) ==
    /\ Len(p) = Len(q)
    /\ \A n \in DOMAIN p : SameLetter(p[n], q[n], checkLabels)

-----------------------------------------------------------------------------
(***************************************************************************)
(* Parcours::parcourirDepuisSommet, which always compares labels: it is    *)
(* walk with labels = TRUE.                                                *)
(***************************************************************************)
Fits(g, n, m, labels) == labels => g.symb[n] = m.symbol

walkLetter(g, labels, w, m) ==
    LET child == g.children[w.sc][m.k]
        numbered == child \in Range(w.numeros)
        fail == [w EXCEPT !.ok = FALSE]
    IN  IF ~w.ok THEN w
        ELSE CASE m.type = "M1" -> IF w.numeros = <<>> /\ Fits(g, w.sc, m, labels)
                                   THEN [w EXCEPT !.numeros = <<w.sc>>] ELSE fail
               [] m.type = "R" -> IF m.i <= Len(w.numeros)
                                  THEN [w EXCEPT !.sc = w.numeros[m.i]] ELSE w
               [] OTHER ->
                  IF m.k > children_nb(g, w.sc) THEN fail
                  ELSE IF m.type = "old" THEN IF numbered THEN [w EXCEPT !.sc = child] ELSE fail
                  ELSE IF ~numbered /\ Fits(g, child, m, labels) /\ Len(w.numeros) < m.i
                  THEN [w EXCEPT !.sc = child, !.numeros = Append(@, child)]
                  ELSE fail

walk(g, v, p, labels) ==
    FoldLeft(LAMBDA w, m : walkLetter(g, labels, w, m),
             [ok |-> p # <<>>, sc |-> v, numeros |-> <<>>], p)

\* Parcours::parcourir
parcourir(g, p, labels) == \E v \in NodesOf(g) : walk(g, v, p, labels).ok
=============================================================================
