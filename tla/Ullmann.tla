------------------------------ MODULE Ullmann ------------------------------
(***************************************************************************)
(* isoUllman, backtrack and forwardChecking of src/libGraphBinAlgo.c: the  *)
(* search for the occurrences of a pattern graph in a graph to test.       *)
(*                                                                         *)
(* backtrack is recursive and works on data its callers keep using: the    *)
(* association F and the two assigned arrays are shared by all its calls   *)
(* and undone by hand, the matrix is copied by each.  So the module keeps  *)
(* the stack of calls: frames[d] is the call with j = d-1.  A matrix is    *)
(* the set of the pairs <<i, l>> that hold a 1, and the two nested loops   *)
(* over l and i are the next pair in loop order.                           *)
(*                                                                         *)
(* Left out: -bp (it writes maxPatternFound, which nothing reads) and -np  *)
(* together with -mcs.  Operators marked "faulty variant" are not used by  *)
(* Spec: put in place of the next definition, each must break the          *)
(* property named.                                                         *)
(***************************************************************************)
EXTENDS CFG

CONSTANTS Inputs,   \* pairs of graphs with their roots
          Options   \* combinations of -mcs, -np, -cs, -oi, -fr and -c

IsInput(in) ==
    \A g \in {in.grPattern, in.grToTest} :
        IsGraph(g) /\ (g.children # <<>> => g.root \in NodesOf(g))

OptionRecords ==
    {o \in [mcs : BOOLEAN, noPerm : BOOLEAN, checkSymb : BOOLEAN,
            onlyInduced : BOOLEAN, forceRoots : BOOLEAN, count : BOOLEAN] :
        ~(o.mcs /\ o.noPerm)}

ASSUME UllmannAssumption == /\ \A in \in Inputs : IsInput(in)
                            /\ Options \subseteq OptionRecords

VARIABLES
    input, option,
    pc,         \* "start", "search", "forward", "undo", "return" or "end"
    frames,     \* the calls of backtrack: their M0, ret, and loop position
    F,          \* the association: a sequence of pairs <<i, l>>
    assignedPattern, assignedToTest,
    maxFound,   \* global
    ret         \* what isoUllman returned

vars == <<input, option, pc, frames, F, assignedPattern, assignedToTest,
          maxFound, ret>>

P == input.grPattern
T == input.grToTest
nPattern == Len(P.children)
nToTest == Len(T.children)
limit == IF nPattern < nToTest THEN nPattern ELSE nToTest

top == frames[Len(frames)]
j == Len(frames) - 1
\* Faulty variant: the loop starts at 1 (ResultExact).
FrameFromOne(M) == [M |-> M, turn |-> 1, ret |-> 0]
Frame(M) == [M |-> M, turn |-> 0, ret |-> 0]

Init == /\ input \in Inputs /\ option \in Options
        /\ pc = "start" /\ frames = <<>> /\ F = <<>>
        /\ assignedPattern = [l \in NodesOf(P) |-> 1]
        /\ assignedToTest = [i \in NodesOf(T) |-> 1]
        /\ maxFound = 0 /\ ret = 0

-----------------------------------------------------------------------------
(***************************************************************************)
(* isoUllman: the initial matrix.                                          *)
(***************************************************************************)
DegreesFit(i, l) == /\ fathers_nb(T, i) >= fathers_nb(P, l)
                    /\ children_nb(T, i) >= children_nb(P, l)

M0 == {p \in NodesOf(T) \X NodesOf(P) :
          /\ option.checkSymb => P.symb[p[2]] = T.symb[p[1]]
          /\ option.mcs \/ DegreesFit(p[1], p[2])
          /\ option.forceRoots => (p[2] = P.root <=> p[1] = T.root)}

IsoUllman ==
    /\ pc = "start"
    /\ IF limit = 0 \/ (~option.mcs /\ nToTest < nPattern)
       THEN pc' = "end" /\ UNCHANGED <<frames, maxFound>>
       ELSE /\ pc' = "search" /\ frames' = <<Frame(M0)>>
            /\ maxFound' = 0
    /\ UNCHANGED <<input, option, F, assignedPattern, assignedToTest, ret>>

-----------------------------------------------------------------------------
(***************************************************************************)
(* backtrack.                                                              *)
(***************************************************************************)
\* Rank of a pair in the loops: l is the outer one.
Turn(p) == (p[2] - 1) * nToTest + p[1]

\* Faulty variant: a node may be added that nothing reaches (GrowsByChildren).
ReachableLoose(p) == assignedPattern[p[2]] # 0 /\ assignedToTest[p[1]] # 0
ReachableByBoth(p) == assignedPattern[p[2]] >= 2 /\ assignedToTest[p[1]] >= 2

\* Faulty variant: the loop starts over after each call (Terminates).
LeftAgain == {p \in top.M : IF option.mcs THEN j = 0 \/ ReachableByBoth(p)
                                          ELSE p[2] = j + 1}
Left == {p \in top.M : /\ Turn(p) > top.turn
                       /\ IF option.mcs THEN j = 0 \/ ReachableByBoth(p)
                                        ELSE p[2] = j + 1}

Pair == CHOOSE p \in Left : \A q \in Left : Turn(p) <= Turn(q)

\* The neighbours' counters, one step per link; 0 is for assigned nodes.
Raise(counter, kids) ==
    FoldLeft(LAMBDA c, n : IF c[n] # 0 THEN [c EXCEPT ![n] = @ + 1] ELSE c,
             counter, kids)
Lower(counter, kids) ==
    FoldLeft(LAMBDA c, n : IF c[n] # 1 THEN [c EXCEPT ![n] = @ - 1] ELSE c,
             counter, kids)

Raised(counter, g, n) ==
    [IF option.mcs THEN Raise(counter, g.children[n]) ELSE counter
        EXCEPT ![n] = 0]
Released(counter, g, n) ==
    [IF option.mcs THEN Lower(counter, g.children[n]) ELSE counter
        EXCEPT ![n] = IF j # 0 THEN 2 ELSE 1]

Assign ==
    /\ pc = "search" /\ j < limit /\ Left # {}
    /\ pc' = "forward"
    /\ frames' = [frames EXCEPT ![j + 1].turn = Turn(Pair)]
    /\ F' = Append(F, Pair)
    /\ maxFound' = IF option.mcs /\ maxFound < j + 1 THEN j + 1 ELSE maxFound
    /\ assignedPattern' = Raised(assignedPattern, P, Pair[2])
    /\ assignedToTest' = Raised(assignedToTest, T, Pair[1])
    /\ UNCHANGED <<input, option, ret>>

(***************************************************************************)
(* forwardChecking.                                                        *)
(***************************************************************************)
newest == F[Len(F)]
Unassigned(p) == assignedToTest[p[1]] # 0 /\ assignedPattern[p[2]] # 0

\* The pair can be associated besides q.
\* Faulty variant: looks at the links in one direction (SearchInv).
CompatibleOneWay(p, q) == E(P, p[2], q[2]) => E(T, p[1], q[1])
Compatible(p, q) ==
    IF option.onlyInduced
    THEN /\ E(P, p[2], q[2]) <=> E(T, p[1], q[1])
         /\ E(P, q[2], p[2]) <=> E(T, q[1], p[1])
    ELSE /\ E(P, p[2], q[2]) => E(T, p[1], q[1])
         /\ E(P, q[2], p[2]) => E(T, q[1], p[1])

\* Mp on entry: the row and the column of the new pair are cleared.
Clear == {p \in top.M : p[1] = newest[1] <=> p[2] = newest[2]}

(***************************************************************************)
(* forbidPerm: what -np clears for the new pair.  It reads F at the number *)
(* of a node; where nothing has been written the value is whatever the     *)
(* array holds, stale, 0 standing for none of the nodes.                   *)
(***************************************************************************)
Place(g, n, c) == CHOOSE k \in DOMAIN g.children[n] :
                     /\ g.children[n][k] = c
                     /\ \A m \in 1..(k - 1) : g.children[n][m] # c

\* Under a father already associated, nodes before the new one on one side
\* cannot go with nodes after it on the other.
Crossing(fP) ==
    LET fT == F[fP][1]
        kChildj == Place(P, fP, newest[2])
        kChildi == IF E(T, fT, newest[1]) THEN Place(T, fT, newest[1]) ELSE 0
    IN  {p \in top.M : \E kT \in DOMAIN T.children[fT], kP \in DOMAIN P.children[fP] :
            /\ p = <<T.children[fT][kT], P.children[fP][kP]>>
            /\ IF kP < kChildj THEN kChildi # 0 /\ kT > kChildi
                               ELSE kChildi = 0 \/ kT < kChildi}

\* The children of a father that are looked up in F: by their rank, not by
\* their number.
LookedUp(fP) == {k \in DOMAIN P.children[fP] : k < newest[2]}

\* Two fathers whose children are associated in different orders.
Disordered(fT, fP, stale) ==
    LET image(k) == LET c == P.children[fP][k]
                    IN  IF c <= Len(F) THEN F[c][1] ELSE stale[c]
        placed == {k \in LookedUp(fP) : image(k) # 0 /\ E(T, fT, image(k))}
    IN  \E a, b \in placed : a < b /\ Place(T, fT, image(a)) > Place(T, fT, image(b))

Forbidden(stale) ==
    IF ~option.noPerm THEN {}
    ELSE UNION {Crossing(fP) : fP \in {n \in Fathers(P, newest[2]) : n < newest[2]}}
         \cup {p \in Fathers(T, newest[1]) \X Fathers(P, newest[2]) :
                  Disordered(p[1], p[2], stale)}

Stales == IF option.noPerm THEN [NodesOf(P) -> NodesOf(T) \cup {0}]
                           ELSE {[l \in NodesOf(P) |-> 0]}

Checked(M) == {p \in M : Unassigned(p) => Compatible(p, newest)}

Promising(M) ==
    IF option.mcs THEN \E p \in M : Unassigned(p)
    ELSE \A l \in (newest[2] + 1)..nPattern : \E i \in NodesOf(T) : <<i, l>> \in M

Forward ==
    /\ pc = "forward"
    /\ \E stale \in Stales :
          LET Mp == Clear \ Forbidden(stale)
          IN  IF j + 1 >= limit
              THEN pc' = "search" /\ frames' = Append(frames, Frame(Mp))
              ELSE IF Promising(Checked(Mp))
              THEN pc' = "search" /\ frames' = Append(frames, Frame(Checked(Mp)))
              ELSE pc' = "undo" /\ UNCHANGED frames
    /\ UNCHANGED <<input, option, F, assignedPattern, assignedToTest,
                   maxFound, ret>>

-----------------------------------------------------------------------------
(***************************************************************************)
(* The return of a call: 1 for a complete association, else its ret.  The  *)
(* caller returns as well, without undoing, unless it counts.              *)
(***************************************************************************)
Value == IF j >= limit THEN 1 ELSE top.ret

Return ==
    /\ \/ pc = "search" /\ (j >= limit \/ Left = {})
       \/ pc = "return"
    /\ IF j = 0
       THEN /\ pc' = "end" /\ ret' = Value /\ frames' = <<>>
       ELSE LET total == frames[j].ret + Value
            IN  /\ frames' = [SubSeq(frames, 1, j) EXCEPT ![j].ret = total]
                /\ pc' = IF total # 0 /\ ~option.count THEN "return" ELSE "undo"
                /\ UNCHANGED ret
    /\ UNCHANGED <<input, option, F, assignedPattern, assignedToTest, maxFound>>

Undone == SubSeq(F, 1, Len(F) - 1)

Undo ==
    /\ pc = "undo"
    /\ pc' = "search"
    /\ F' = Undone
    /\ assignedPattern' = Released(assignedPattern, P, newest[2])
    /\ assignedToTest' = Released(assignedToTest, T, newest[1])
    /\ UNCHANGED <<input, option, frames, maxFound, ret>>

Done == pc = "end" /\ UNCHANGED vars

Step == IsoUllman \/ Assign \/ Forward \/ Return \/ Undo
Next == Step \/ Done

Spec == Init /\ [][Next]_vars
FairSpec == Spec /\ WF_vars(Step)

-----------------------------------------------------------------------------
(***************************************************************************)
(* Correctness.                                                            *)
(***************************************************************************)
Pairs == NodesOf(T) \X NodesOf(P)

TypeOK ==
    /\ input \in Inputs /\ option \in Options
    /\ pc \in {"start", "search", "forward", "undo", "return", "end"}
    /\ frames \in Seq([M : SUBSET Pairs, turn : Nat, ret : Nat])
    /\ Len(frames) <= limit + 1
    /\ F \in Seq(Pairs) /\ Len(F) <= limit
    /\ assignedPattern \in [NodesOf(P) -> Int]
    /\ assignedToTest \in [NodesOf(T) -> Int]
    /\ maxFound \in 0..limit /\ ret \in Nat

\* No link from a node to itself, and no link twice.
Simple(g) == \A n \in NodesOf(g) : /\ ~E(g, n, n)
                                   /\ Cardinality(Range(g.children[n])) = children_nb(g, n)

(***************************************************************************)
(* What is searched, without the algorithm: pairs that agree on labels and *)
(* on which nodes are roots, when asked, and whose links correspond.       *)
(***************************************************************************)
MayMatch(p) == /\ option.checkSymb => P.symb[p[2]] = T.symb[p[1]]
               /\ option.forceRoots => (p[2] = P.root <=> p[1] = T.root)

Occurrences ==
    {f \in [NodesOf(P) -> NodesOf(T)] :
        /\ IsInjective(f)
        /\ \A l \in NodesOf(P) : MayMatch(<<f[l], l>>)
        /\ \A l, m \in NodesOf(P) :
              IF option.onlyInduced THEN E(P, l, m) <=> E(T, f[l], f[m])
                                    ELSE E(P, l, m) => E(T, f[l], f[m])}

Joined(p, q) == /\ option.onlyInduced => (E(T, p[1], q[1]) => E(P, p[2], q[2]))
                /\ E(P, p[2], q[2]) => E(T, p[1], q[1])

\* The association is at every moment an occurrence of a part of the pattern:
\* no node twice on either side, labels, roots and links respected.  Each call
\* checks its own pair only, against a matrix its callers have filtered, and
\* undoes what it did to the arrays they share.  Lines 511-597 and 711-843.
PartialOccurrence ==
    \A a, b \in DOMAIN F :
        /\ MayMatch(F[a])
        /\ a # b => /\ F[a][1] # F[b][1] /\ F[a][2] # F[b][2]
                    /\ Joined(F[a], F[b])

\* The search for a common subgraph grows it along links of both graphs: each
\* new pair is a child, on both sides, of nodes associated before, although
\* the counters that say so survive backtracking.  Lines 524-535 and 577-596.
GrowsByChildren ==
    option.mcs => \A b \in 2..Len(F) : \E a, c \in 1..(b - 1) :
                      E(P, F[a][2], F[b][2]) /\ E(T, F[c][1], F[b][1])

\* No pruning is too strong: while the search may still complete F into an
\* occurrence, all the pairs of that occurrence are candidates.  The degree
\* filter of line 387 is included.  For simple graphs only, without -mcs and
\* -np: that filter counts a double link twice, and -np drops occurrences.
NoneLost ==
    /\ pc = "search" /\ ~option.mcs /\ ~option.noPerm /\ Simple(P) /\ Simple(T)
    => \A f \in Occurrences :
          (\A a \in DOMAIN F : f[F[a][2]] = F[a][1])
          => {<<f[l], l>> : l \in NodesOf(P)} \subseteq top.M

\* The result: with -c the number of occurrences, else whether there is one.
\* Lines 323-425.  For simple graphs and a pattern that is not empty only, without
\* -mcs and -np.
CountExact ==
    /\ pc = "end" /\ ~option.mcs /\ ~option.noPerm /\ nPattern > 0 /\ Simple(P) /\ Simple(T)
    => ret = IF option.count THEN Cardinality(Occurrences)
             ELSE IF Occurrences = {} THEN 0 ELSE 1

\* A pair that joins a common subgraph, along links if it is not empty.
MayJoin(R, q) ==
    /\ MayMatch(q)
    /\ \A r \in R : r[1] # q[1] /\ r[2] # q[2] /\ Joined(r, q) /\ Joined(q, r)
    /\ R # {} => \E r, s \in R : E(P, r[2], q[2]) /\ E(T, s[1], q[1])

\* The common subgraphs of n nodes that grow along links of both graphs.
Common ==
    LET common[n \in 0..limit] ==
          IF n = 0 THEN {{}}
          ELSE {x[1] \cup {x[2]} : x \in {y \in common[n - 1] \X Pairs :
                                              MayJoin(y[1], y[2])}}
    IN  common

\* What -mcs reports is the size of a common subgraph, not of the largest one
\* (MaxFoundIsMaximum).
MaxFoundExists == pc = "end" /\ option.mcs => Common[maxFound] # {}

\* What the texts and comments say and the code does not do, down to
\* LookedUpAreAssociated.
\* "-mcs ... : search maximum subgraph and exports its number of nodes"
\* (graphBinAlgo.c:66): no common subgraph that grows along links is larger.
MaxFoundIsMaximum ==
    pc = "end" /\ option.mcs => \A n \in (maxFound + 1)..limit : Common[n] = {}

\* "-oi ... : only induced subgraphs are considered for isomorphism"
\* (graphBinAlgo.c:73): what is found is induced, links from a node to itself
\* included.
FoundIsInduced ==
    j >= limit /\ option.onlyInduced =>
        \A a, b \in DOMAIN F : E(P, F[a][2], F[b][2]) <=> E(T, F[a][1], F[b][1])

\* "then kChildj already in an association" (libGraphBinAlgo.c:674): the
\* children forbidPerm looks up in F have been associated.
LookedUpAreAssociated ==
    pc = "forward" /\ option.noPerm =>
        \A fP \in Fathers(P, newest[2]) : \A k \in LookedUp(fP) :
            P.children[fP][k] <= Len(F)

-----------------------------------------------------------------------------
\* Every call leaves what its callers share as it found it, and the matrix it
\* passes down keeps every occurrence that may still be completed.
SearchInv == TypeOK /\ PartialOccurrence /\ NoneLost

\* What isoUllman answers, with -mcs and without.
ResultExact == CountExact /\ MaxFoundExists

\* The search ends: the loops and the recursion are finite.
Terminates == <>(pc = "end")
=============================================================================
