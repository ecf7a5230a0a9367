--------------------------- MODULE Matching_proofs ---------------------------
(***************************************************************************)
(* Proofs about the two ways in which the programs match a site: Ullmann,  *)
(* the search for its occurrences in a graph, for any two graphs and any   *)
(* options; and DecisionTree, the tree of the sites of SIDT, for every set *)
(* of sites, every site size and any number of programs.                   *)
(*                                                                         *)
(* Ullmann (first part).  The invariant Inv says what every call of        *)
(* backtrack may rely on although it shares F and the counters with its    *)
(* callers and its callees: its matrix holds pairs that fit the part of F  *)
(* its callers made (Filtered), all the pairs of the occurrences that      *)
(* extend that part (KeepsAll), and what it has counted so far is the      *)
(* number of those it is done with (Tally).                                *)
(*                                                                         *)
(* DecisionTree (second part, from "The letters of one run").  The         *)
(* inductive invariant DTInv adds to the invariants checked by TLC the     *)
(* shape of the tree (each prefix of a node is a node), the place of the   *)
(* running call in it (CallsPlace) and the number of hash elements         *)
(* (ElementsCounted): an element is added at most once per level on the    *)
(* way to a new leaf, and only a call that adds a leaf adds elements.      *)
(***************************************************************************)
EXTENDS Ullmann, DecisionTree, DataLemmas, FunctionTheorems

-----------------------------------------------------------------------------
(***************************************************************************)
(* The inductive invariant.                                                *)
(***************************************************************************)

\* The nodes of the test (side 1) or of the pattern (side 2) in F.
AssignedBy(A, side) == {A[a][side] : a \in DOMAIN A}
Assigned(side) == AssignedBy(F, side)

\* The call whose turn it is has made the last pair of F, or will make the next.
CallPlace ==
    /\ pc = "start" => frames = <<>> /\ F = <<>> /\ maxFound = 0 /\ ret = 0
    /\ pc = "search" => Len(frames) = Len(F) + 1
    /\ pc \in {"forward", "undo"} => frames # <<>> /\ Len(frames) = Len(F)
    /\ pc = "return" => frames # <<>> /\ Len(frames) <= Len(F) /\ ~option.count
    /\ pc = "end" => frames = <<>>
    /\ frames # <<>> => limit > 0 /\ (option.mcs \/ nPattern <= nToTest)

InOrder == ~option.mcs => \A a \in DOMAIN F : F[a][2] = a

\* A node in F has a counter of 0 or less, any other one of 1 or more.
MarkedBy(counter, S) ==
    \A n \in DOMAIN counter : IF n \in S THEN counter[n] <= 0 ELSE counter[n] >= 1

Marks == MarkedBy(assignedPattern, Assigned(2)) /\ MarkedBy(assignedToTest, Assigned(1))

(***************************************************************************)
(* A pair against the first k pairs of F.                                  *)
(***************************************************************************)
Clears(p, k) == \A a \in 1..k : p[1] = F[a][1] <=> p[2] = F[a][2]
Free(p, k) == \A a \in 1..k : p[1] # F[a][1] /\ p[2] # F[a][2]
Fits(p, k) == \A a \in 1..k : Compatible(p, F[a])

Passes(p, d) == /\ MayMatch(p)
                /\ Clears(p, d - 1)
                /\ d <= limit /\ Free(p, d - 1) => Fits(p, d - 1)

Filtered == \A d \in DOMAIN frames : \A p \in frames[d].M : Passes(p, d)

(***************************************************************************)
(* With -mcs the counter of a node that is not in F is at most one more    *)
(* than the links to it from the nodes of F.                               *)
(***************************************************************************)
LinksTo(A, g, side, n) ==
    {ak \in (DOMAIN A) \X Nat : /\ ak[2] \in DOMAIN g.children[A[ak[1]][side]]
                              /\ g.children[A[ak[1]][side]][ak[2]] = n}

CountsLinks(counter, A, g, side) ==
    \A n \in DOMAIN counter :
        /\ IsFiniteSet(LinksTo(A, g, side, n))
        /\ n \notin AssignedBy(A, side) =>
               counter[n] <= 1 + Cardinality(LinksTo(A, g, side, n))

Growing == option.mcs => /\ CountsLinks(assignedPattern, F, P, 2)
                         /\ CountsLinks(assignedToTest, F, T, 1)

Grown == option.mcs =>
    \A b \in 2..Len(F) : /\ \E a \in 1..(b - 1) : E(P, F[a][2], F[b][2])
                         /\ \E a \in 1..(b - 1) : E(T, F[a][1], F[b][1])

\* The first pairs of F, as the set of pairs that Common speaks of.
FirstPairs(k) == {F[a] : a \in 1..k}

FoundCommon == option.mcs => /\ Common[maxFound] # {}
                             /\ \A k \in 0..Len(F) : FirstPairs(k) \in Common[k]

(***************************************************************************)
(* The search for occurrences.                                             *)
(***************************************************************************)
Searched == ~option.mcs /\ ~option.noPerm /\ Simple(P) /\ Simple(T)

\* The occurrences that extend the first k pairs of F.
Agreeing(k) == {f \in Occurrences : \A a \in 1..k : f[F[a][2]] = F[a][1]}

PairsOf(f) == {<<f[l], l>> : l \in NodesOf(P)}

KeepsAll == Searched => \A d \in DOMAIN frames : \A f \in Agreeing(d - 1) :
                            PairsOf(f) \subseteq frames[d].M

\* The call waits for a callee; its last pair is not counted yet.
Busy(d) == d < Len(frames) \/ pc = "forward"

AtPair == \A d \in DOMAIN frames : Busy(d) \/ pc = "undo" => frames[d].turn = Turn(F[d])

\* The occurrences a call is done with.
Explored(d) == {f \in Agreeing(d - 1) :
                   IF Busy(d) THEN Turn(<<f[d], d>>) < frames[d].turn
                              ELSE Turn(<<f[d], d>>) <= frames[d].turn}

Counted == \A d \in DOMAIN frames : d <= limit => frames[d].ret = Cardinality(Explored(d))

NothingFound == \A d \in DOMAIN frames : frames[d].ret = 0

Tally == Searched =>
    /\ pc # "return" => Counted /\ (~option.count => NothingFound)
    /\ pc = "return" => /\ \A d \in 1..(Len(frames) - 1) : frames[d].ret = 0
                        /\ frames[Len(frames)].ret = 1 /\ Occurrences # {}

ReturnsFound == pc = "return" => frames[Len(frames)].ret # 0

Inv == /\ TypeOK /\ CallPlace /\ InOrder /\ Marks /\ Filtered /\ AtPair
       /\ PartialOccurrence
       /\ Growing /\ Grown /\ FoundCommon
       /\ KeepsAll /\ Tally /\ ReturnsFound /\ CountExact

-----------------------------------------------------------------------------
(***************************************************************************)
(* The graphs.                                                             *)
(***************************************************************************)
LEMMA GraphFacts ==
    ASSUME TypeOK
    PROVE  /\ nPattern \in Nat /\ NodesOf(P) = 1..nPattern
           /\ nToTest \in Nat /\ NodesOf(T) = 1..nToTest
           /\ P.children \in Seq(Seq(1..nPattern)) /\ T.children \in Seq(Seq(1..nToTest))
           /\ limit \in Nat /\ limit <= nPattern /\ limit <= nToTest
           /\ limit = nPattern \/ limit = nToTest
           /\ Pairs = (1..nToTest) \X (1..nPattern)
           /\ option \in OptionRecords
<1>1. IsInput(input) /\ option \in OptionRecords
  BY UllmannAssumption DEF TypeOK
<1>2. IsGraph(P) /\ IsGraph(T)
  BY <1>1 DEF IsInput, P, T
<1>3. /\ P.children \in Seq(Seq(DOMAIN P.children))
      /\ T.children \in Seq(Seq(DOMAIN T.children))
  BY <1>2 DEF IsGraph, NodesOf
<1>4. /\ nPattern \in Nat /\ DOMAIN P.children = 1..nPattern
      /\ nToTest \in Nat /\ DOMAIN T.children = 1..nToTest
  BY <1>3, LenProperties DEF nPattern, nToTest
<1>5. QED BY <1>1, <1>3, <1>4 DEF NodesOf, Pairs, limit

LEMMA SameInput ==
    ASSUME UNCHANGED <<input, option>>
    PROVE  /\ P' = P /\ T' = T /\ nPattern' = nPattern /\ nToTest' = nToTest
           /\ limit' = limit /\ Pairs' = Pairs
           /\ \A p : MayMatch(p)' <=> MayMatch(p)
           /\ \A p, q : Compatible(p, q)' <=> Compatible(p, q)
           /\ \A p, q : Joined(p, q)' <=> Joined(p, q)
           /\ \A p : Turn(p)' = Turn(p)
           /\ Searched' <=> Searched
           /\ Occurrences' = Occurrences
           /\ \A R, q : MayJoin(R, q)' <=> MayJoin(R, q)
           /\ \A f : PairsOf(f)' = PairsOf(f)
<1>1. P' = P /\ T' = T /\ nPattern' = nPattern /\ nToTest' = nToTest
  BY DEF P, T, nPattern, nToTest
<1>2. limit' = limit /\ Pairs' = Pairs /\ \A f : PairsOf(f)' = PairsOf(f)
  BY <1>1 DEF limit, Pairs, PairsOf
<1>3. /\ \A p : MayMatch(p)' <=> MayMatch(p)
      /\ \A p, q : Compatible(p, q)' <=> Compatible(p, q)
      /\ \A p, q : Joined(p, q)' <=> Joined(p, q)
      /\ \A p : Turn(p)' = Turn(p)
  BY <1>1 DEF MayMatch, Compatible, Joined, Turn
<1>4. Searched' <=> Searched
  BY <1>1 DEF Searched
<1>5. Occurrences' = Occurrences
  BY <1>1, <1>3 DEF Occurrences
<1>6. \A R, q : MayJoin(R, q)' <=> MayJoin(R, q)
  BY <1>1, <1>3 DEF MayJoin
<1>7. QED BY <1>1, <1>2, <1>3, <1>4, <1>5, <1>6

(***************************************************************************)
(* Common is the function its recursion describes.                         *)
(***************************************************************************)
Larger(C) == {x[1] \cup {x[2]} : x \in {y \in C \X Pairs : MayJoin(y[1], y[2])}}

CommonSteps == /\ Common[0] = {{}}
               /\ \A k \in 1..limit : Common[k] = Larger(Common[k - 1])

LEMMA CommonFacts == TypeOK => CommonSteps
<1> SUFFICES ASSUME TypeOK PROVE CommonSteps
  OBVIOUS
<1> DEFINE A == SUBSET SUBSET Pairs
           step == [x \in (1..limit) \X A |-> Larger(x[2])]
           Q(h) == h = [n \in 0..limit |-> IF n = 0 THEN {{}} ELSE Larger(h[n - 1])]
           G == CHOOSE h : Q(h)
           base == {{}}
<1>1. limit \in Nat
  BY GraphFacts
<1>2. Common = G
  BY DEF Common, Larger
<1>3. FoldsIn(step, 1..limit, A)
  <2>1. \A C \in A : Larger(C) \in A
    BY DEF Larger
  <2> HIDE DEF A
  <2>2. QED BY <2>1 DEF FoldsIn
<1>4. base \in A
  OBVIOUS
<1> HIDE DEF A, base
<1>5. PICK r \in [0..limit -> A] : Iterates(r, step, base, limit)
  <2> HIDE DEF step
  <2> DEFINE m == limit
  <2>1. m \in Nat /\ FoldsIn(step, 1..m, A)
    BY <1>1, <1>3
  <2> HIDE DEF m
  <2>2. \E r \in [0..m -> A] : Iterates(r, step, base, m)
    BY <1>4, <2>1, IterationExists
  <2>3. QED BY <2>2 DEF m
<1>6. Q(r)
  <2>1. \A n \in 1..limit : r[n - 1] \in A /\ r[n] = Larger(r[n - 1])
    <3>1. ASSUME NEW n \in 1..limit PROVE r[n - 1] \in A /\ r[n] = Larger(r[n - 1])
      <4>1. n - 1 \in 0..limit
        BY <1>1
      <4>2. r[n - 1] \in A /\ <<n, r[n - 1]>> \in (1..limit) \X A
        BY <1>5, <4>1
      <4>3. r[n] = step[<<n, r[n - 1]>>]
        BY <1>5 DEF Iterates
      <4>4. QED BY <4>2, <4>3
    <3>2. QED BY <3>1
  <2>2. \A n \in 0..limit : r[n] = IF n = 0 THEN {{}} ELSE Larger(r[n - 1])
    <3>1. \A n \in 0..limit : n # 0 => n \in 1..limit
      BY <1>1
    <3>2. r[0] = {{}}
      BY <1>5 DEF Iterates, base
    <3>3. QED BY <2>1, <3>1, <3>2
  <2>3. QED BY <2>2
<1>7. Q(G)
  <2> HIDE DEF Q
  <2>1. QED BY <1>6
<1> HIDE DEF G
<1>8. G[0] = {{}} /\ \A k \in 1..limit : G[k] = Larger(G[k - 1])
  <2>1. \A n \in 0..limit : G[n] = IF n = 0 THEN {{}} ELSE Larger(G[n - 1])
    BY <1>7, Zenon
  <2>2. 0 \in 0..limit /\ \A k \in 1..limit : k \in 0..limit /\ k # 0
    BY <1>1
  <2> HIDE DEF Q
  <2>3. QED BY <2>1, <2>2
<1>9. QED BY <1>2, <1>8 DEF CommonSteps

\* A step that keeps the input keeps Common.
LEMMA SameCommon ==
    ASSUME UNCHANGED <<input, option>>, TypeOK, TypeOK'
    PROVE  \A k \in 0..limit : Common'[k] = Common[k]
<1>1. CommonSteps /\ limit \in Nat
  BY CommonFacts, GraphFacts
<1>2. CommonSteps'
  <2>1. (TypeOK => CommonSteps)'
    BY CommonFacts, PTL
  <2>2. QED BY <2>1
<1>3. limit' = limit /\ Pairs' = Pairs /\ \A R, q : MayJoin(R, q)' <=> MayJoin(R, q)
  BY SameInput
<1> DEFINE S == {k \in 0..limit : Common'[k] = Common[k]}
<1>4. /\ Common'[0] = {{}}
      /\ \A k \in 1..limit : Common'[k] = Larger(Common'[k - 1])
  <2>1. \A k \in 1..limit' : Common'[k] =
            {x[1] \cup {x[2]} : x \in {y \in Common'[k - 1] \X Pairs' : MayJoin(y[1], y[2])'}}
    BY <1>2 DEF CommonSteps, Larger
  <2>2. \A C : {y \in C \X Pairs' : MayJoin(y[1], y[2])'} = {y \in C \X Pairs : MayJoin(y[1], y[2])}
    BY <1>3
  <2>3. QED BY <1>2, <1>3, <2>1, <2>2 DEF CommonSteps, Larger
<1>5. 0 \in S
  <2>1. 0 \in 0..limit /\ Common[0] = {{}}
    BY <1>1 DEF CommonSteps
  <2>2. QED BY <1>4, <2>1
<1>6. ASSUME NEW k \in 0..limit, k \in S, k < limit PROVE k + 1 \in S
  <2>1. k + 1 \in 1..limit /\ (k + 1) - 1 = k /\ k + 1 \in 0..limit
    BY <1>1, <1>6
  <2>2. Common[k + 1] = Larger(Common[k]) /\ Common'[k + 1] = Larger(Common'[k])
    <3>1. Common[k + 1] = Larger(Common[(k + 1) - 1]) /\ Common'[k + 1] = Larger(Common'[(k + 1) - 1])
      BY <1>1, <1>4, <2>1 DEF CommonSteps
    <3>2. QED BY <2>1, <3>1
  <2>3. QED BY <1>6, <2>1, <2>2
<1>7. 0..limit \subseteq S
  <2> DEFINE m == limit
  <2>1. m \in Nat /\ 0 \in S /\ \A k \in 0..m : k \in S /\ k < m => k + 1 \in S
    BY <1>1, <1>5, <1>6
  <2> HIDE DEF S, m
  <2>2. 0..m \subseteq S
    BY <2>1, SetInductionUpTo
  <2>3. QED BY <2>2 DEF m
<1>8. QED BY <1>7
-----------------------------------------------------------------------------
(***************************************************************************)
(* Raise and Lower, one link after the other.                              *)
(***************************************************************************)
RaisedAt(c, n) == IF c[n] # 0 THEN [c EXCEPT ![n] = @ + 1] ELSE c
LoweredAt(c, n) == IF c[n] # 1 THEN [c EXCEPT ![n] = @ - 1] ELSE c

RaisesAlong(r, counter, kids) ==
    /\ r[0] = counter /\ r[Len(kids)] = Raise(counter, kids)
    /\ \A k \in 1..Len(kids) : r[k] = RaisedAt(r[k - 1], kids[k])

LowersAlong(r, counter, kids) ==
    /\ r[0] = counter /\ r[Len(kids)] = Lower(counter, kids)
    /\ \A k \in 1..Len(kids) : r[k] = LoweredAt(r[k - 1], kids[k])

LEMMA RaiseTrace ==
    ASSUME NEW N, NEW counter \in [N -> Int], NEW kids \in Seq(N)
    PROVE  \E r \in [0..Len(kids) -> [N -> Int]] : RaisesAlong(r, counter, kids)
<1> DEFINE n == Len(kids)
           D == 1..n
           A == [N -> Int]
           step == [x \in D \X A |-> RaisedAt(x[2], kids[x[1]])]
           Q(h) == h = [S \in SUBSET D |->
                          IF S = {} THEN counter ELSE RaisedAt(h[S \ {Max(S)}], kids[Max(S)])]
           G == CHOOSE h : Q(h)
           mx == MaxIn(n)
<1>1. n \in Nat /\ DOMAIN kids = D /\ \A k \in D : kids[k] \in N
  BY ElementOfSeq, LenProperties
<1>2. Raise(counter, kids) = G[D]
  <2>1. DOMAIN kids = D
    BY <1>1
  <2>2. QED BY <2>1 DEF Raise, FoldLeft, MapThenFoldSet, RaisedAt
<1>3. ASSUME NEW a \in A, NEW m \in N PROVE RaisedAt(a, m) \in A
  BY DEF RaisedAt
<1>4. /\ IsFiniteSet(D) /\ Chooses(mx, D)
      /\ \A S \in (SUBSET D) \ {{}} : Max(S) \in S
      /\ \A k \in D : Max(1..k) = k /\ (1..k) \ {k} = 1..(k - 1)
  BY <1>1, MaxChosen
<1>5. \A S \in SUBSET D : S # {} => Max(S) \in D /\ mx[S] = Max(S)
  BY <1>4 DEF MaxIn
<1> HIDE DEF A, mx
<1>6. FoldsIn(step, D, A)
  BY <1>1, <1>3 DEF FoldsIn
<1>7. counter \in A
  BY DEF A
<1>8. PICK g \in [SUBSET D -> A] : \A S \in SUBSET D : FoldsTo(g, step, counter, mx, S)
  <2> HIDE DEF step, D
  <2>1. HasFold(step, counter, mx, D, A)
    BY <1>4, <1>6, <1>7, FoldExists
  <2>2. QED BY <2>1 DEF HasFold
<1>9. Q(g)
  <2>1. ASSUME NEW S \in SUBSET D, S # {}
        PROVE  g[S] = RaisedAt(g[S \ {Max(S)}], kids[Max(S)])
    <3>1. Max(S) \in D /\ mx[S] = Max(S) /\ S \ {Max(S)} \in SUBSET D
      BY <1>5, <2>1
    <3>2. g[S \ {Max(S)}] \in A
      BY <1>8, <3>1
    <3>3. g[S] = step[<<Max(S), g[S \ {Max(S)}]>>]
      BY <1>8, <2>1, <3>1 DEF FoldsTo
    <3> HIDE DEF D
    <3>4. QED BY <3>1, <3>2, <3>3
  <2>2. g[{}] = counter
    BY <1>8 DEF FoldsTo
  <2> HIDE DEF D
  <2>3. \A S \in SUBSET D : g[S] = IF S = {} THEN counter
                                   ELSE RaisedAt(g[S \ {Max(S)}], kids[Max(S)])
    BY <2>1, <2>2
  <2>4. QED BY <1>8, <2>3
<1>10. Q(G)
  <2> HIDE DEF Q
  <2>1. QED BY <1>9
<1> HIDE DEF G
<1>11. \A S \in SUBSET D : G[S] = IF S = {} THEN counter
                                  ELSE RaisedAt(G[S \ {Max(S)}], kids[Max(S)])
  <2> HIDE DEF D
  <2>1. QED BY <1>10, Zenon
<1> HIDE DEF Q
<1> DEFINE r == [k \in 0..n |-> G[1..k]]
           Good == {k \in 0..n : r[k] \in A}
<1>12. r[0] = counter
  <2>1. 1..0 = {} /\ {} \in SUBSET D /\ r[0] = G[1..0]
    BY <1>1
  <2>2. QED BY <1>11, <2>1
<1>13. ASSUME NEW k \in 1..n PROVE r[k] = RaisedAt(r[k - 1], kids[k])
  <2>1. 1..k \in SUBSET D /\ 1..k # {} /\ Max(1..k) = k /\ (1..k) \ {k} = 1..(k - 1)
    BY <1>1, <1>4, SMTT(30)
  <2>2. r[k] = G[1..k] /\ r[k - 1] = G[1..(k - 1)]
    BY <1>1
  <2> HIDE DEF r, D
  <2>3. QED BY <1>11, <2>1, <2>2
<1>14. r[n] = G[D]
  BY <1>1
<1> HIDE DEF r
<1>15. 0 \in Good
  BY <1>1, <1>7, <1>12
<1>16. ASSUME NEW k \in 0..n, k \in Good, k < n PROVE k + 1 \in Good
  <2>1. k + 1 \in 1..n /\ k + 1 \in 0..n /\ (k + 1) - 1 = k /\ kids[k + 1] \in N
    BY <1>1, <1>16
  <2>2. r[k + 1] = RaisedAt(r[k], kids[k + 1])
    BY <1>13, <2>1
  <2>3. QED BY <1>3, <1>16, <2>1, <2>2
<1>17. 0..n \subseteq Good
  <2> HIDE DEF Good, n
  <2>1. n \in Nat /\ 0 \in Good /\ \A k \in 0..n : k \in Good /\ k < n => k + 1 \in Good
    BY <1>1, <1>15, <1>16
  <2>2. QED BY <2>1, SetInductionUpTo
<1>18. DOMAIN r = 0..n
  BY DEF r
<1>19. r \in [0..n -> A]
  <2>1. \A k \in 0..n : r[k] \in A
    BY <1>17
  <2>2. r = [k \in 0..n |-> r[k]]
    BY DEF r
  <2>3. QED BY <2>1, <2>2
<1>20. RaisesAlong(r, counter, kids)
  BY <1>2, <1>12, <1>13, <1>14 DEF RaisesAlong
<1>21. QED BY <1>19, <1>20 DEF A

LEMMA LowerTrace ==
    ASSUME NEW N, NEW counter \in [N -> Int], NEW kids \in Seq(N)
    PROVE  \E r \in [0..Len(kids) -> [N -> Int]] : LowersAlong(r, counter, kids)
<1> DEFINE n == Len(kids)
           D == 1..n
           A == [N -> Int]
           step == [x \in D \X A |-> LoweredAt(x[2], kids[x[1]])]
           Q(h) == h = [S \in SUBSET D |->
                          IF S = {} THEN counter ELSE LoweredAt(h[S \ {Max(S)}], kids[Max(S)])]
           G == CHOOSE h : Q(h)
           mx == MaxIn(n)
<1>1. n \in Nat /\ DOMAIN kids = D /\ \A k \in D : kids[k] \in N
  BY ElementOfSeq, LenProperties
<1>2. Lower(counter, kids) = G[D]
  <2>1. DOMAIN kids = D
    BY <1>1
  <2>2. QED BY <2>1 DEF Lower, FoldLeft, MapThenFoldSet, LoweredAt
<1>3. ASSUME NEW a \in A, NEW m \in N PROVE LoweredAt(a, m) \in A
  BY DEF LoweredAt
<1>4. /\ IsFiniteSet(D) /\ Chooses(mx, D)
      /\ \A S \in (SUBSET D) \ {{}} : Max(S) \in S
      /\ \A k \in D : Max(1..k) = k /\ (1..k) \ {k} = 1..(k - 1)
  BY <1>1, MaxChosen
<1>5. \A S \in SUBSET D : S # {} => Max(S) \in D /\ mx[S] = Max(S)
  BY <1>4 DEF MaxIn
<1> HIDE DEF A, mx
<1>6. FoldsIn(step, D, A)
  BY <1>1, <1>3 DEF FoldsIn
<1>7. counter \in A
  BY DEF A
<1>8. PICK g \in [SUBSET D -> A] : \A S \in SUBSET D : FoldsTo(g, step, counter, mx, S)
  <2> HIDE DEF step, D
  <2>1. HasFold(step, counter, mx, D, A)
    BY <1>4, <1>6, <1>7, FoldExists
  <2>2. QED BY <2>1 DEF HasFold
<1>9. Q(g)
  <2>1. ASSUME NEW S \in SUBSET D, S # {}
        PROVE  g[S] = LoweredAt(g[S \ {Max(S)}], kids[Max(S)])
    <3>1. Max(S) \in D /\ mx[S] = Max(S) /\ S \ {Max(S)} \in SUBSET D
      BY <1>5, <2>1
    <3>2. g[S \ {Max(S)}] \in A
      BY <1>8, <3>1
    <3>3. g[S] = step[<<Max(S), g[S \ {Max(S)}]>>]
      BY <1>8, <2>1, <3>1 DEF FoldsTo
    <3> HIDE DEF D
    <3>4. QED BY <3>1, <3>2, <3>3
  <2>2. g[{}] = counter
    BY <1>8 DEF FoldsTo
  <2> HIDE DEF D
  <2>3. \A S \in SUBSET D : g[S] = IF S = {} THEN counter
                                   ELSE LoweredAt(g[S \ {Max(S)}], kids[Max(S)])
    BY <2>1, <2>2
  <2>4. QED BY <1>8, <2>3
<1>10. Q(G)
  <2> HIDE DEF Q
  <2>1. QED BY <1>9
<1> HIDE DEF G
<1>11. \A S \in SUBSET D : G[S] = IF S = {} THEN counter
                                  ELSE LoweredAt(G[S \ {Max(S)}], kids[Max(S)])
  <2> HIDE DEF D
  <2>1. QED BY <1>10, Zenon
<1> HIDE DEF Q
<1> DEFINE r == [k \in 0..n |-> G[1..k]]
           Good == {k \in 0..n : r[k] \in A}
<1>12. r[0] = counter
  <2>1. 1..0 = {} /\ {} \in SUBSET D /\ r[0] = G[1..0]
    BY <1>1
  <2>2. QED BY <1>11, <2>1
<1>13. ASSUME NEW k \in 1..n PROVE r[k] = LoweredAt(r[k - 1], kids[k])
  <2>1. 1..k \in SUBSET D /\ 1..k # {} /\ Max(1..k) = k /\ (1..k) \ {k} = 1..(k - 1)
    BY <1>1, <1>4, SMTT(30)
  <2>2. r[k] = G[1..k] /\ r[k - 1] = G[1..(k - 1)]
    BY <1>1
  <2> HIDE DEF r, D
  <2>3. QED BY <1>11, <2>1, <2>2
<1>14. r[n] = G[D]
  BY <1>1
<1> HIDE DEF r
<1>15. 0 \in Good
  BY <1>1, <1>7, <1>12
<1>16. ASSUME NEW k \in 0..n, k \in Good, k < n PROVE k + 1 \in Good
  <2>1. k + 1 \in 1..n /\ k + 1 \in 0..n /\ (k + 1) - 1 = k /\ kids[k + 1] \in N
    BY <1>1, <1>16
  <2>2. r[k + 1] = LoweredAt(r[k], kids[k + 1])
    BY <1>13, <2>1
  <2>3. QED BY <1>3, <1>16, <2>1, <2>2
<1>17. 0..n \subseteq Good
  <2> HIDE DEF Good, n
  <2>1. n \in Nat /\ 0 \in Good /\ \A k \in 0..n : k \in Good /\ k < n => k + 1 \in Good
    BY <1>1, <1>15, <1>16
  <2>2. QED BY <2>1, SetInductionUpTo
<1>18. DOMAIN r = 0..n
  BY DEF r
<1>19. r \in [0..n -> A]
  <2>1. \A k \in 0..n : r[k] \in A
    BY <1>17
  <2>2. r = [k \in 0..n |-> r[k]]
    BY DEF r
  <2>3. QED BY <2>1, <2>2
<1>20. LowersAlong(r, counter, kids)
  BY <1>2, <1>12, <1>13, <1>14 DEF LowersAlong
<1>21. QED BY <1>19, <1>20 DEF A

\* The links to x among the first k, tagged b.
Tagged(b, kids, x, k) == {bm \in {b} \X (1..k) : kids[bm[2]] = x}

LEMMA RaiseMarks ==
    ASSUME NEW N, NEW counter \in [N -> Int], NEW kids \in Seq(N),
           NEW S, MarkedBy(counter, S)
    PROVE  Raise(counter, kids) \in [N -> Int] /\ MarkedBy(Raise(counter, kids), S)
<1> DEFINE n == Len(kids)
<1>1. PICK r \in [0..n -> [N -> Int]] : RaisesAlong(r, counter, kids)
  BY RaiseTrace
<1>2. n \in Nat /\ \A k \in 1..n : kids[k] \in N
  BY ElementOfSeq, LenProperties
<1> DEFINE Good == {k \in 0..n : MarkedBy(r[k], S)}
<1>3. 0 \in Good
  BY <1>1, <1>2 DEF RaisesAlong
<1>4. ASSUME NEW k \in 0..n, k \in Good, k < n PROVE k + 1 \in Good
  <2>1. k + 1 \in 1..n /\ k + 1 \in 0..n /\ (k + 1) - 1 = k
    BY <1>2, <1>4
  <2>2. kids[k + 1] \in N /\ r[k] \in [N -> Int] /\ MarkedBy(r[k], S)
    BY <1>1, <1>2, <1>4, <2>1
  <2>3. r[k + 1] = RaisedAt(r[k], kids[k + 1])
    BY <1>1, <2>1 DEF RaisesAlong
  <2>4. ASSUME NEW c \in [N -> Int], NEW m \in N, MarkedBy(c, S)
        PROVE  MarkedBy(RaisedAt(c, m), S)
    BY <2>4 DEF MarkedBy, RaisedAt
  <2>5. QED BY <2>1, <2>2, <2>3, <2>4
<1>5. 0..n \subseteq Good
  <2> HIDE DEF n, Good
  <2>1. QED BY <1>2, <1>3, <1>4, SetInductionUpTo
<1>6. n \in 0..n
  BY <1>2
<1>7. r[n] \in [N -> Int] /\ MarkedBy(r[n], S)
  BY <1>1, <1>5, <1>6
<1>8. QED BY <1>1, <1>7 DEF RaisesAlong

LEMMA RaiseCounts ==
    ASSUME NEW N, NEW counter \in [N -> Int], NEW kids \in Seq(N),
           NEW S, MarkedBy(counter, S), NEW x \in N, x \notin S,
           NEW L, IsFiniteSet(L), counter[x] <= 1 + Cardinality(L),
           NEW b, \A k \in Nat : <<b, k>> \notin L
    PROVE  Raise(counter, kids)[x] <= 1 + Cardinality(L \cup Tagged(b, kids, x, Len(kids)))
<1> DEFINE n == Len(kids)
           Lk(k) == L \cup Tagged(b, kids, x, k)
<1>1. PICK r \in [0..n -> [N -> Int]] : RaisesAlong(r, counter, kids)
  BY RaiseTrace
<1>2. n \in Nat /\ \A k \in 1..n : kids[k] \in N
  BY ElementOfSeq, LenProperties
<1> DEFINE Good == {k \in 0..n : /\ r[k][x] >= 1 /\ IsFiniteSet(Lk(k))
                                 /\ r[k][x] <= 1 + Cardinality(Lk(k))}
<1>3. 0 \in Good
  <2>1. Tagged(b, kids, x, 0) = {}
    BY DEF Tagged
  <2>2. Lk(0) = L
    BY <2>1
  <2>3. r[0] = counter /\ counter[x] >= 1 /\ 0 \in 0..n
    BY <1>1, <1>2 DEF RaisesAlong, MarkedBy
  <2> HIDE DEF Lk
  <2>4. QED BY <2>2, <2>3
<1>4. ASSUME NEW k \in 0..n, k \in Good, k < n PROVE k + 1 \in Good
  <2>1. k + 1 \in 1..n /\ k + 1 \in 0..n /\ (k + 1) - 1 = k
    BY <1>2, <1>4
  <2>2. /\ kids[k + 1] \in N /\ r[k] \in [N -> Int]
        /\ r[k][x] >= 1 /\ IsFiniteSet(Lk(k)) /\ r[k][x] <= 1 + Cardinality(Lk(k))
    BY <1>1, <1>2, <1>4, <2>1
  <2>3. r[k + 1] = RaisedAt(r[k], kids[k + 1])
    BY <1>1, <2>1 DEF RaisesAlong
  <2>4. Cardinality(Lk(k)) \in Nat /\ r[k][x] \in Int
    BY <2>2, FS_CardinalityType
  <2>5. CASE kids[k + 1] # x
    <3>1. Tagged(b, kids, x, k + 1) = Tagged(b, kids, x, k)
      BY <1>2, <1>4, <2>5 DEF Tagged
    <3>2. r[k + 1][x] = r[k][x]
      BY <2>2, <2>3, <2>5 DEF RaisedAt
    <3>3. Lk(k + 1) = Lk(k)
      BY <3>1
    <3> HIDE DEF Lk
    <3>4. QED BY <2>1, <2>2, <3>2, <3>3
  <2>6. CASE kids[k + 1] = x
    <3>1. Tagged(b, kids, x, k + 1) = Tagged(b, kids, x, k) \cup {<<b, k + 1>>}
      BY <1>2, <1>4, <2>6 DEF Tagged
    <3>2. Lk(k + 1) = Lk(k) \cup {<<b, k + 1>>} /\ <<b, k + 1>> \notin Lk(k)
      <4>1. <<b, k + 1>> \notin Tagged(b, kids, x, k) /\ <<b, k + 1>> \notin L
        BY <1>2, <1>4, <2>1 DEF Tagged
      <4>2. QED BY <3>1, <4>1
    <3>3. r[k + 1][x] = r[k][x] + 1
      BY <2>2, <2>3, <2>6 DEF RaisedAt
    <3> HIDE DEF Lk
    <3>4. IsFiniteSet(Lk(k + 1)) /\ Cardinality(Lk(k + 1)) = Cardinality(Lk(k)) + 1
      <4> DEFINE K == Lk(k)
                 e == <<b, k + 1>>
      <4>1. IsFiniteSet(K) /\ Lk(k + 1) = K \cup {e} /\ e \notin K
        BY <2>2, <3>2
      <4> HIDE DEF K, e
      <4>2. IsFiniteSet(K \cup {e}) /\ Cardinality(K \cup {e}) = Cardinality(K) + 1
        BY <4>1, FS_AddElement
      <4>3. QED BY <4>1, <4>2 DEF K
    <3>5. Cardinality(Lk(k + 1)) \in Nat
      BY <3>4, FS_CardinalityType
    <3>6. QED BY <2>1, <2>2, <2>4, <3>3, <3>4, <3>5
  <2>7. QED BY <2>5, <2>6
<1>5. 0..n \subseteq Good
  <2> HIDE DEF n, Good
  <2>1. QED BY <1>2, <1>3, <1>4, SetInductionUpTo
<1>6. n \in 0..n
  BY <1>2
<1>7. r[n][x] <= 1 + Cardinality(Lk(n))
  BY <1>5, <1>6
<1>8. QED BY <1>1, <1>7 DEF RaisesAlong

LEMMA LowerMarks ==
    ASSUME NEW N, NEW counter \in [N -> Int], NEW kids \in Seq(N),
           NEW S, MarkedBy(counter, S)
    PROVE  Lower(counter, kids) \in [N -> Int] /\ MarkedBy(Lower(counter, kids), S)
<1> DEFINE n == Len(kids)
<1>1. PICK r \in [0..n -> [N -> Int]] : LowersAlong(r, counter, kids)
  BY LowerTrace
<1>2. n \in Nat /\ \A k \in 1..n : kids[k] \in N
  BY ElementOfSeq, LenProperties
<1> DEFINE Good == {k \in 0..n : MarkedBy(r[k], S)}
<1>3. 0 \in Good
  BY <1>1, <1>2 DEF LowersAlong
<1>4. ASSUME NEW k \in 0..n, k \in Good, k < n PROVE k + 1 \in Good
  <2>1. k + 1 \in 1..n /\ k + 1 \in 0..n /\ (k + 1) - 1 = k
    BY <1>2, <1>4
  <2>2. kids[k + 1] \in N /\ r[k] \in [N -> Int] /\ MarkedBy(r[k], S)
    BY <1>1, <1>2, <1>4, <2>1
  <2>3. r[k + 1] = LoweredAt(r[k], kids[k + 1])
    BY <1>1, <2>1 DEF LowersAlong
  <2>4. ASSUME NEW c \in [N -> Int], NEW m \in N, MarkedBy(c, S)
        PROVE  MarkedBy(LoweredAt(c, m), S)
    BY <2>4 DEF MarkedBy, LoweredAt
  <2>5. QED BY <2>1, <2>2, <2>3, <2>4
<1>5. 0..n \subseteq Good
  <2> HIDE DEF n, Good
  <2>1. QED BY <1>2, <1>3, <1>4, SetInductionUpTo
<1>6. n \in 0..n
  BY <1>2
<1>7. r[n] \in [N -> Int] /\ MarkedBy(r[n], S)
  BY <1>1, <1>5, <1>6
<1>8. QED BY <1>1, <1>7 DEF LowersAlong

LEMMA LowerCounts ==
    ASSUME NEW N, NEW counter \in [N -> Int], NEW kids \in Seq(N),
           NEW S, MarkedBy(counter, S), NEW x \in N, x \notin S,
           NEW L, IsFiniteSet(L), counter[x] <= 1 + Cardinality(L),
           NEW b, Tagged(b, kids, x, Len(kids)) \subseteq L
    PROVE  Lower(counter, kids)[x] <= 1 + Cardinality(L \ Tagged(b, kids, x, Len(kids)))
<1> DEFINE n == Len(kids)
           Lk(k) == L \ Tagged(b, kids, x, k)
<1>1. PICK r \in [0..n -> [N -> Int]] : LowersAlong(r, counter, kids)
  BY LowerTrace
<1>2. n \in Nat /\ \A k \in 1..n : kids[k] \in N
  BY ElementOfSeq, LenProperties
<1> DEFINE Good == {k \in 0..n : /\ r[k][x] >= 1 /\ IsFiniteSet(Lk(k))
                                 /\ r[k][x] <= 1 + Cardinality(Lk(k))}
<1>3. 0 \in Good
  <2>1. Tagged(b, kids, x, 0) = {}
    BY DEF Tagged
  <2>2. Lk(0) = L
    BY <2>1
  <2>3. r[0] = counter /\ counter[x] >= 1 /\ 0 \in 0..n
    BY <1>1, <1>2 DEF LowersAlong, MarkedBy
  <2> HIDE DEF Lk
  <2>4. QED BY <2>2, <2>3
<1>4. ASSUME NEW k \in 0..n, k \in Good, k < n PROVE k + 1 \in Good
  <2>1. k + 1 \in 1..n /\ k + 1 \in 0..n /\ (k + 1) - 1 = k
    BY <1>2, <1>4
  <2>2. /\ kids[k + 1] \in N /\ r[k] \in [N -> Int]
        /\ r[k][x] >= 1 /\ IsFiniteSet(Lk(k)) /\ r[k][x] <= 1 + Cardinality(Lk(k))
    BY <1>1, <1>2, <1>4, <2>1
  <2>3. r[k + 1] = LoweredAt(r[k], kids[k + 1])
    BY <1>1, <2>1 DEF LowersAlong
  <2>4. Cardinality(Lk(k)) \in Nat /\ r[k][x] \in Int
    BY <2>2, FS_CardinalityType
  <2>5. CASE kids[k + 1] # x
    <3>1. Tagged(b, kids, x, k + 1) = Tagged(b, kids, x, k)
      BY <1>2, <1>4, <2>5 DEF Tagged
    <3>2. r[k + 1][x] = r[k][x]
      BY <2>2, <2>3, <2>5 DEF LoweredAt
    <3>3. Lk(k + 1) = Lk(k)
      BY <3>1
    <3> HIDE DEF Lk
    <3>4. QED BY <2>1, <2>2, <3>2, <3>3
  <2>6. CASE kids[k + 1] = x
    <3>1. Tagged(b, kids, x, k + 1) = Tagged(b, kids, x, k) \cup {<<b, k + 1>>}
      BY <1>2, <1>4, <2>6 DEF Tagged
    <3>2. Lk(k + 1) = Lk(k) \ {<<b, k + 1>>} /\ <<b, k + 1>> \in Lk(k)
      <4>1. /\ <<b, k + 1>> \notin Tagged(b, kids, x, k)
            /\ <<b, k + 1>> \in Tagged(b, kids, x, Len(kids))
        BY <1>2, <1>4, <2>1, <2>6 DEF Tagged
      <4>2. QED BY <3>1, <4>1
    <3>3. r[k + 1][x] = IF r[k][x] = 1 THEN 1 ELSE r[k][x] - 1
      BY <2>2, <2>3, <2>6 DEF LoweredAt
    <3> HIDE DEF Lk
    <3>4. IsFiniteSet(Lk(k + 1)) /\ Cardinality(Lk(k + 1)) = Cardinality(Lk(k)) - 1
      <4> DEFINE K == Lk(k)
                 e == <<b, k + 1>>
      <4>1. IsFiniteSet(K) /\ Lk(k + 1) = K \ {e} /\ e \in K
        BY <2>2, <3>2
      <4> HIDE DEF K, e
      <4>2. IsFiniteSet(K \ {e}) /\ Cardinality(K \ {e}) = Cardinality(K) - 1
        BY <4>1, FS_RemoveElement
      <4>3. QED BY <4>1, <4>2 DEF K
    <3>5. Cardinality(Lk(k + 1)) \in Nat
      BY <3>4, FS_CardinalityType
    <3>6. QED BY <2>1, <2>2, <2>4, <3>3, <3>4, <3>5, SMTT(30)
  <2>7. QED BY <2>5, <2>6
<1>5. 0..n \subseteq Good
  <2> HIDE DEF n, Good
  <2>1. QED BY <1>2, <1>3, <1>4, SetInductionUpTo
<1>6. n \in 0..n
  BY <1>2
<1>7. r[n][x] <= 1 + Cardinality(Lk(n))
  BY <1>5, <1>6
<1>8. QED BY <1>1, <1>7 DEF LowersAlong

-----------------------------------------------------------------------------
(***************************************************************************)
(* The stack, the loop of a call, and what does not change with F.         *)
(***************************************************************************)
FrameType == [M : SUBSET Pairs, turn : Nat, ret : Nat]

LEMMA StackFacts ==
    ASSUME TypeOK
    PROVE  /\ Len(frames) \in Nat /\ DOMAIN frames = 1..Len(frames)
           /\ Len(F) \in Nat /\ DOMAIN F = 1..Len(F)
           /\ frames \in Seq(FrameType) /\ F \in Seq(Pairs)
           /\ \A d \in 1..Len(frames) : frames[d] \in FrameType
           /\ \A a \in 1..Len(F) : F[a] \in Pairs
           /\ Len(frames) <= limit + 1 /\ Len(F) <= limit
<1>1. frames \in Seq(FrameType) /\ F \in Seq(Pairs)
  BY DEF TypeOK, FrameType
<1>2. QED BY <1>1, ElementOfSeq, LenProperties DEF TypeOK

\* The rank of a pair in the loops.
LEMMA TurnFacts ==
    ASSUME TypeOK, NEW p \in Pairs
    PROVE  /\ Turn(p) \in Nat /\ Turn(p) >= 1
           /\ p[1] \in 1..nToTest /\ p[2] \in 1..nPattern
           /\ \A q \in Pairs : q[2] = p[2] => (Turn(q) = Turn(p) <=> q = p)
<1>1. /\ nToTest \in Nat /\ nPattern \in Nat
      /\ Pairs = (1..nToTest) \X (1..nPattern)
  BY GraphFacts
<1>2. p[1] \in 1..nToTest /\ p[2] \in 1..nPattern
  BY <1>1
<1> DEFINE row == (p[2] - 1) * nToTest
<1>3. row \in Nat
  <2>1. p[2] - 1 \in Nat
    BY <1>1, <1>2
  <2> DEFINE a == p[2] - 1
  <2> HIDE DEF a
  <2>2. \A x, y \in Nat : x * y \in Nat
    OBVIOUS
  <2>3. a * nToTest \in Nat
    BY <1>1, <2>1, <2>2 DEF a
  <2>4. QED BY <2>3 DEF a
<1>4. Turn(p) = row + p[1]
  BY DEF Turn
<1>5. ASSUME NEW q \in Pairs, q[2] = p[2] PROVE Turn(q) = Turn(p) <=> q = p
  <2>1. Turn(q) = row + q[1] /\ q[1] \in 1..nToTest
    BY <1>1, <1>5 DEF Turn
  <2>2. q = <<q[1], q[2]>> /\ p = <<p[1], p[2]>>
    BY <1>1
  <2> HIDE DEF row
  <2>3. QED BY <1>2, <1>3, <1>4, <1>5, <2>1, <2>2
<1> HIDE DEF row
<1>6. QED BY <1>1, <1>2, <1>3, <1>4, <1>5

\* The next pair of the loops.
LEMMA PairFacts ==
    ASSUME TypeOK, frames # <<>>, Left # {}
    PROVE  /\ Pair \in Left /\ Pair \in top.M /\ Pair \in Pairs
           /\ \A q \in Left : Turn(Pair) <= Turn(q)
           /\ top \in FrameType
<1>1. top \in FrameType
  <2>1. Len(frames) \in 1..Len(frames)
    BY StackFacts DEF TypeOK
  <2>2. QED BY <2>1, StackFacts DEF top
<1>2. Left \subseteq top.M /\ top.M \subseteq Pairs
  BY <1>1 DEF Left, FrameType
<1>3. \A q \in Left : Turn(q) \in Nat
  BY <1>2, TurnFacts
<1>4. \E p \in Left : \A q \in Left : Turn(p) <= Turn(q)
  <2> DEFINE N == {Turn(q) : q \in Left}
  <2>1. N \subseteq Nat /\ N # {}
    BY <1>3
  <2>2. PICK x \in N : \A y \in N : ~(<<y, x>> \in OpToRel(<,Nat))
    <3> HIDE DEF N
    <3>1. QED BY <2>1, NatLessThanWellFounded, WFMin
  <2>3. PICK p \in Left : x = Turn(p)
    OBVIOUS
  <2>4. ASSUME NEW q \in Left PROVE Turn(p) <= Turn(q)
    <3>1. Turn(q) \in N /\ Turn(q) \in Nat /\ Turn(p) \in Nat
      BY <1>3
    <3>2. ~(Turn(q) < Turn(p))
      BY <2>2, <2>3, <3>1 DEF OpToRel
    <3>3. QED BY <3>1, <3>2
  <2>5. QED BY <2>4
<1>5. Pair \in Left /\ \A q \in Left : Turn(Pair) <= Turn(q)
  BY <1>4 DEF Pair
<1>6. QED BY <1>1, <1>2, <1>5

\* What speaks of the first k pairs of F does not change while they do not.
LEMMA SamePrefix ==
    ASSUME TypeOK, UNCHANGED <<input, option>>,
           NEW m \in Nat, \A a \in 1..m : F'[a] = F[a], NEW k \in 0..m
    PROVE  /\ \A p : Clears(p, k)' <=> Clears(p, k)
           /\ \A p : Free(p, k)' <=> Free(p, k)
           /\ \A p : Fits(p, k)' <=> Fits(p, k)
           /\ \A p : Passes(p, k + 1)' <=> Passes(p, k + 1)
           /\ Agreeing(k)' = Agreeing(k)
           /\ FirstPairs(k)' = FirstPairs(k)
<1>1. \A a \in 1..k : F'[a] = F[a]
  OBVIOUS
<1>2. \A p : (Clears(p, k)' <=> Clears(p, k)) /\ (Free(p, k)' <=> Free(p, k))
  BY <1>1 DEF Clears, Free
<1>3. \A p : Fits(p, k)' <=> Fits(p, k)
  <2>1. \A p, q : Compatible(p, q)' <=> Compatible(p, q)
    BY SameInput
  <2>2. QED BY <1>1, <2>1 DEF Fits
<1>4. \A p : Passes(p, k + 1)' <=> Passes(p, k + 1)
  <2>1. limit' = limit /\ \A p : MayMatch(p)' <=> MayMatch(p)
    BY SameInput
  <2>2. (k + 1) - 1 = k
    OBVIOUS
  <2>3. QED BY <1>2, <1>3, <2>1, <2>2 DEF Passes
<1>5. Agreeing(k)' = Agreeing(k)
  <2>1. Occurrences' = Occurrences
    BY SameInput
  <2>2. QED BY <1>1, <2>1 DEF Agreeing
<1>6. FirstPairs(k)' = FirstPairs(k)
  BY <1>1 DEF FirstPairs
<1>7. QED BY <1>2, <1>3, <1>4, <1>5, <1>6
-----------------------------------------------------------------------------
(***************************************************************************)
(* The degree filter keeps every pair of every occurrence.                 *)
(***************************************************************************)
WellFormed(g) == /\ Len(g.children) \in Nat /\ DOMAIN g.children = 1..Len(g.children)
                 /\ \A n \in DOMAIN g.children :
                       g.children[n] \in Seq(1..Len(g.children))

LEMMA Formed == TypeOK => WellFormed(P) /\ WellFormed(T)
<1> SUFFICES ASSUME TypeOK PROVE WellFormed(P) /\ WellFormed(T)
  OBVIOUS
<1>1. /\ P.children \in Seq(Seq(1..nPattern)) /\ T.children \in Seq(Seq(1..nToTest))
      /\ nPattern = Len(P.children) /\ nToTest = Len(T.children)
  BY GraphFacts DEF nPattern, nToTest
<1>2. \A n \in DOMAIN P.children : P.children[n] \in Seq(1..nPattern)
  BY <1>1
<1>3. \A n \in DOMAIN T.children : T.children[n] \in Seq(1..nToTest)
  BY <1>1
<1>4. QED BY <1>1, <1>2, <1>3, LenProperties DEF WellFormed

\* In a simple graph no child is listed twice.
LEMMA ChildrenDiffer ==
    ASSUME NEW g, WellFormed(g), Simple(g), NEW n \in DOMAIN g.children
    PROVE  /\ \A k, m \in DOMAIN g.children[n] :
                 g.children[n][k] = g.children[n][m] => k = m
           /\ IsFiniteSet(Range(g.children[n]))
           /\ children_nb(g, n) = Cardinality(Range(g.children[n]))
<1> DEFINE s == g.children[n]
           D == 1..Len(s)
           R == Range(s)
<1>1. s \in Seq(1..Len(g.children)) /\ Len(s) \in Nat /\ DOMAIN s = D
  BY LenProperties DEF WellFormed
<1>2. Cardinality(R) = Len(s)
  BY DEF Simple, NodesOf, children_nb
<1>3. IsFiniteSet(D) /\ Cardinality(D) = Len(s)
  BY <1>1, FS_Interval
<1>4. s \in Surjection(D, R)
  <2>1. s \in [D -> R]
    BY <1>1 DEF Range
  <2>2. \A y \in R : \E k \in D : s[k] = y
    BY <1>1 DEF Range
  <2>3. QED BY <2>1, <2>2 DEF Surjection
<1>5. IsFiniteSet(R) /\ (Cardinality(R) = Cardinality(D) <=> s \in Injection(D, R))
  <2> HIDE DEF D, R, s
  <2>1. QED BY <1>3, <1>4, FS_Surjection
<1>6. s \in Injection(D, R)
  BY <1>2, <1>3, <1>5
<1>7. \A k, m \in D : s[k] = s[m] => k = m
  BY <1>6 DEF Injection, IsInjective
<1>8. QED BY <1>1, <1>2, <1>5, <1>7 DEF children_nb

\* In a simple graph a node has as many links to it as fathers.
LEMMA FathersCounted ==
    ASSUME NEW g, WellFormed(g), Simple(g), NEW n \in DOMAIN g.children
    PROVE  /\ IsFiniteSet(Fathers(g, n))
           /\ fathers_nb(g, n) = Cardinality(Fathers(g, n))
<1> DEFINE S == Fathers(g, n)
           at(m) == CHOOSE k \in DOMAIN g.children[m] : g.children[m][k] = n
           L == UNION {{<<m, k>> : k \in {k \in DOMAIN g.children[m] : g.children[m][k] = n}} :
                          m \in NodesOf(g)}
           h == [m \in S |-> <<m, at(m)>>]
<1>1. IsFiniteSet(S)
  <2>1. S \in SUBSET (1..Len(g.children)) /\ IsFiniteSet(1..Len(g.children))
    BY FS_Interval DEF Fathers, NodesOf, WellFormed
  <2> HIDE DEF S
  <2> DEFINE N == 1..Len(g.children)
  <2>2. S \in SUBSET N /\ IsFiniteSet(N)
    BY <2>1
  <2> HIDE DEF N
  <2>3. QED BY <2>2, FS_Subset
<1>2. \A m, k : <<m, k>> \in L <=> /\ m \in NodesOf(g)
                                  /\ k \in DOMAIN g.children[m] /\ g.children[m][k] = n
  OBVIOUS
<1>3. \A y \in L : y = <<y[1], y[2]>>
  OBVIOUS
<1>4. ASSUME NEW m \in S
      PROVE  /\ m \in NodesOf(g) /\ at(m) \in DOMAIN g.children[m]
             /\ g.children[m][at(m)] = n
  <2>1. m \in NodesOf(g) /\ \E k \in DOMAIN g.children[m] : g.children[m][k] = n
    BY DEF Fathers, E, Range
  <2>2. QED BY <2>1
<1>5. h \in [S -> L]
  BY <1>2, <1>4
<1>6. ASSUME NEW y \in L PROVE y[1] \in S /\ h[y[1]] = y
  <2>1. /\ y[1] \in NodesOf(g) /\ y[2] \in DOMAIN g.children[y[1]]
        /\ g.children[y[1]][y[2]] = n
    BY <1>2, <1>3
  <2>2. y[1] \in S
    BY <2>1 DEF Fathers, E, Range
  <2>3. at(y[1]) \in DOMAIN g.children[y[1]] /\ g.children[y[1]][at(y[1])] = n
    BY <1>4, <2>2
  <2>4. y[1] \in DOMAIN g.children
    BY <2>1 DEF NodesOf
  <2>5. at(y[1]) = y[2]
    <3> DEFINE a == at(y[1])
    <3> HIDE DEF at
    <3>1. a \in DOMAIN g.children[y[1]] /\ g.children[y[1]][a] = n
      BY <2>3
    <3> HIDE DEF a
    <3>2. a = y[2]
      BY <2>1, <2>4, <3>1, ChildrenDiffer
    <3>3. QED BY <3>2 DEF a
  <2> HIDE DEF at, L, S
  <2>6. QED BY <1>3, <2>2, <2>5
<1>7. ExistsBijection(S, L)
  <2> HIDE DEF L, S
  <2>1. \A m1, m2 \in S : h[m1] = h[m2] => m1 = m2
    OBVIOUS
  <2> HIDE DEF h
  <2>2. h \in Injection(S, L)
    BY <1>5, <2>1 DEF Injection, IsInjective
  <2>3. h \in Surjection(S, L)
    BY <1>5, <1>6 DEF Surjection
  <2>4. QED BY <2>2, <2>3 DEF ExistsBijection, Bijection
<1>8. Cardinality(L) = Cardinality(S)
  <2> HIDE DEF L, S
  <2>1. QED BY <1>1, <1>7, FS_Bijection
<1>9. QED BY <1>1, <1>8 DEF fathers_nb

LEMMA DegreesKept ==
    ASSUME TypeOK, Searched, NEW f \in Occurrences, NEW l \in NodesOf(P)
    PROVE  DegreesFit(f[l], l)
<1>1. /\ WellFormed(P) /\ WellFormed(T) /\ Simple(P) /\ Simple(T)
      /\ NodesOf(P) = DOMAIN P.children /\ NodesOf(T) = DOMAIN T.children
  BY Formed DEF Searched, NodesOf
<1>2. /\ f \in [NodesOf(P) -> NodesOf(T)]
      /\ \A a, b \in NodesOf(P) : f[a] = f[b] => a = b
      /\ \A a, b \in NodesOf(P) : E(P, a, b) => E(T, f[a], f[b])
  BY DEF Occurrences, IsInjective
<1>3. f[l] \in NodesOf(T)
  BY <1>2
<1>4. fathers_nb(T, f[l]) >= fathers_nb(P, l)
  <2> DEFINE A == Fathers(P, l)
             B == Fathers(T, f[l])
             h == [m \in A |-> f[m]]
  <2>1. A \subseteq NodesOf(P) /\ \A m \in A : f[m] \in B
    BY <1>2 DEF Fathers
  <2>2. h \in Injection(A, B)
    <3> HIDE DEF A, B
    <3>1. h \in [A -> B] /\ \A a, b \in A : h[a] = h[b] => a = b
      BY <1>2, <2>1
    <3>2. QED BY <3>1 DEF Injection, IsInjective
  <2>3. /\ IsFiniteSet(A) /\ fathers_nb(P, l) = Cardinality(A)
        /\ IsFiniteSet(B) /\ fathers_nb(T, f[l]) = Cardinality(B)
    <3> DEFINE x == f[l]
    <3>1. x \in DOMAIN T.children /\ l \in DOMAIN P.children
      BY <1>1, <1>3
    <3> HIDE DEF x
    <3>2. IsFiniteSet(Fathers(T, x)) /\ fathers_nb(T, x) = Cardinality(Fathers(T, x))
      BY <1>1, <3>1, FathersCounted
    <3>3. QED BY <1>1, <3>1, <3>2, FathersCounted DEF x
  <2>4. Cardinality(A) <= Cardinality(B) /\ Cardinality(A) \in Nat /\ Cardinality(B) \in Nat
    <3> HIDE DEF A, B, h
    <3>1. QED BY <2>2, <2>3, FS_Injection, FS_CardinalityType
  <2> HIDE DEF A, B
  <2>5. QED BY <2>3, <2>4
<1>5. children_nb(T, f[l]) >= children_nb(P, l)
  <2> DEFINE A == Range(P.children[l])
             B == Range(T.children[f[l]])
             h == [m \in A |-> f[m]]
  <2>1. A \subseteq NodesOf(P)
    <3>1. P.children[l] \in Seq(1..Len(P.children)) /\ NodesOf(P) = 1..Len(P.children)
      BY <1>1 DEF WellFormed
    <3>2. QED BY <3>1 DEF Range
  <2>2. \A m \in A : f[m] \in B
    BY <1>2, <2>1 DEF E
  <2>3. h \in Injection(A, B)
    <3> HIDE DEF A, B
    <3>1. h \in [A -> B] /\ \A a, b \in A : h[a] = h[b] => a = b
      BY <1>2, <2>1, <2>2
    <3>2. QED BY <3>1 DEF Injection, IsInjective
  <2>4. /\ IsFiniteSet(A) /\ children_nb(P, l) = Cardinality(A)
        /\ IsFiniteSet(B) /\ children_nb(T, f[l]) = Cardinality(B)
    <3> DEFINE x == f[l]
    <3>1. x \in DOMAIN T.children /\ l \in DOMAIN P.children
      BY <1>1, <1>3
    <3> HIDE DEF x
    <3>2. IsFiniteSet(Range(T.children[x])) /\ children_nb(T, x) = Cardinality(Range(T.children[x]))
      BY <1>1, <3>1, ChildrenDiffer
    <3>3. QED BY <1>1, <3>1, <3>2, ChildrenDiffer DEF x
  <2>5. Cardinality(A) <= Cardinality(B) /\ Cardinality(A) \in Nat /\ Cardinality(B) \in Nat
    <3> HIDE DEF A, B, h
    <3>1. QED BY <2>3, <2>4, FS_Injection, FS_CardinalityType
  <2> HIDE DEF A, B
  <2>6. QED BY <2>4, <2>5
<1>6. QED BY <1>4, <1>5 DEF DegreesFit
-----------------------------------------------------------------------------
(***************************************************************************)
(* The invariant holds at the start.                                       *)
(***************************************************************************)
LEMMA InitType == Init => TypeOK
<1> SUFFICES ASSUME Init PROVE TypeOK
  OBVIOUS
<1>1. IsInput(input)
  BY UllmannAssumption DEF Init
<1>2. limit \in Nat
  BY <1>1, LenProperties DEF limit, nPattern, nToTest, IsInput, IsGraph, P, T
<1>3. frames = <<>> /\ F = <<>> /\ Len(frames) = 0 /\ Len(F) = 0
  BY DEF Init
<1>4. frames \in Seq([M : SUBSET Pairs, turn : Nat, ret : Nat]) /\ F \in Seq(Pairs)
  BY <1>3
<1>5. /\ assignedPattern \in [NodesOf(P) -> Int]
      /\ assignedToTest \in [NodesOf(T) -> Int]
  BY DEF Init
<1>6. QED BY <1>2, <1>3, <1>4, <1>5 DEF Init, TypeOK

LEMMA InitInv == Init => Inv
<1> SUFFICES ASSUME Init PROVE Inv
  OBVIOUS
<1>1. TypeOK /\ limit \in Nat
  BY InitType, GraphFacts
<1>2. /\ frames = <<>> /\ F = <<>> /\ Len(F) = 0 /\ DOMAIN F = {} /\ DOMAIN frames = {}
      /\ pc = "start" /\ maxFound = 0 /\ ret = 0
  BY DEF Init
<1>3. \A side \in {1, 2} : Assigned(side) = {}
  BY <1>2 DEF Assigned, AssignedBy
<1>4. \A n \in DOMAIN assignedPattern : assignedPattern[n] = 1
  BY DEF Init
<1>5. \A n \in DOMAIN assignedToTest : assignedToTest[n] = 1
  BY DEF Init
<1>6. Marks
  BY <1>3, <1>4, <1>5 DEF Marks, MarkedBy
<1>7. Growing
  <2>1. ASSUME NEW g, NEW side, NEW n PROVE LinksTo(F, g, side, n) = {}
    <3> DEFINE D == DOMAIN F
    <3>1. LinksTo(F, g, side, n) \subseteq D \X Nat
      BY DEF LinksTo
    <3>2. D = {}
      BY <1>2
    <3> HIDE DEF D
    <3>3. QED BY <3>1, <3>2
  <2>2. QED BY <1>4, <1>5, <2>1, FS_EmptySet DEF Growing, CountsLinks
<1>8. FoundCommon
  <2>1. Common[0] = {{}}
    BY <1>1, CommonFacts DEF CommonSteps
  <2>2. FirstPairs(0) = {}
    BY DEF FirstPairs
  <2>3. QED BY <1>2, <2>1, <2>2 DEF FoundCommon
<1>9. Filtered /\ AtPair /\ KeepsAll
  BY <1>2 DEF Filtered, AtPair, KeepsAll
<1>10. Tally
  <2>1. Counted /\ NothingFound
    BY <1>2 DEF Counted, NothingFound
  <2>2. QED BY <1>2, <2>1 DEF Tally
<1>11. InOrder /\ PartialOccurrence /\ Grown
  BY <1>2 DEF InOrder, PartialOccurrence, Grown
<1>12. CallPlace /\ ReturnsFound /\ CountExact
  BY <1>2 DEF CallPlace, ReturnsFound, CountExact
<1>13. QED
  BY <1>1, <1>6, <1>7, <1>8, <1>9, <1>10, <1>11, <1>12 DEF Inv

\* Too small a test has no occurrence.
LEMMA NoneInLess ==
    ASSUME TypeOK, nToTest < nPattern
    PROVE  Occurrences = {}
<1> SUFFICES ASSUME NEW f \in Occurrences PROVE FALSE
  OBVIOUS
<1>1. /\ nPattern \in Nat /\ NodesOf(P) = 1..nPattern
      /\ nToTest \in Nat /\ NodesOf(T) = 1..nToTest
  BY GraphFacts
<1> DEFINE A == 1..nPattern
           B == 1..nToTest
<1>2. f \in [A -> B] /\ \A a, b \in A : f[a] = f[b] => a = b
  BY <1>1 DEF Occurrences, IsInjective
<1>3. IsFiniteSet(A) /\ IsFiniteSet(B) /\ Cardinality(B) < Cardinality(A)
  <2>1. nPattern > 0 /\ nPattern \in Int /\ nToTest \in Int
    BY <1>1
  <2>2. IsFiniteSet(A) /\ Cardinality(A) = nPattern
    BY <1>1, <2>1, FS_Interval
  <2>3. IsFiniteSet(B) /\ Cardinality(B) = nToTest
    BY <1>1, <2>1, FS_Interval
  <2>4. QED BY <2>2, <2>3
<1> HIDE DEF A, B
<1>4. QED BY <1>2, <1>3, FS_PigeonHole

-----------------------------------------------------------------------------
(***************************************************************************)
(* The steps.                                                              *)
(***************************************************************************)

\* With F as it was, what speaks of F alone holds on.
LEMMA SameAssociation ==
    ASSUME Inv, UNCHANGED <<input, option, F, assignedPattern, assignedToTest, maxFound>>, TypeOK'
    PROVE  /\ InOrder' /\ Marks' /\ PartialOccurrence' /\ Growing' /\ Grown' /\ FoundCommon'
           /\ \A d \in 1..(Len(F) + 1) : \A p : Passes(p, d)' <=> Passes(p, d)
           /\ \A d \in 1..(Len(F) + 1) : Agreeing(d - 1)' = Agreeing(d - 1)
<1>1. TypeOK /\ Len(F) \in Nat
  BY StackFacts DEF Inv
<1>2. /\ P' = P /\ T' = T /\ limit' = limit
      /\ \A p : MayMatch(p)' <=> MayMatch(p)
      /\ \A p, q : Joined(p, q)' <=> Joined(p, q)
  BY SameInput
<1>3. \A side : Assigned(side)' = Assigned(side)
  BY DEF Assigned, AssignedBy
<1>4. InOrder' /\ Marks'
  BY <1>3 DEF Inv, InOrder, Marks, MarkedBy
<1>5. PartialOccurrence'
  BY <1>2 DEF Inv, PartialOccurrence
<1>6. Grown'
  BY <1>2 DEF Inv, Grown
<1>7. Growing'
  <2>1. \A g, side, n : LinksTo(F, g, side, n)' = LinksTo(F, g, side, n)
    BY DEF LinksTo
  <2>2. QED BY <1>2, <1>3, <2>1 DEF Inv, Growing, CountsLinks, Assigned
<1>8. FoundCommon'
  <2>1. \A k \in 0..limit : Common'[k] = Common[k]
    BY <1>1, SameCommon
  <2>2. maxFound \in 0..limit /\ Len(F) <= limit
    BY <1>1 DEF TypeOK
  <2>3. \A k : FirstPairs(k)' = FirstPairs(k)
    BY DEF FirstPairs
  <2>4. \A k \in 0..Len(F) : k \in 0..limit
    BY <1>1, <2>2, GraphFacts
  <2>5. QED BY <2>1, <2>2, <2>3, <2>4 DEF Inv, FoundCommon
<1>9. ASSUME NEW d \in 1..(Len(F) + 1)
      PROVE  /\ \A p : Passes(p, d)' <=> Passes(p, d)
             /\ Agreeing(d - 1)' = Agreeing(d - 1)
  <2> DEFINE m == Len(F)
             k == d - 1
  <2>1. m \in Nat /\ k \in 0..m /\ k + 1 = d /\ \A a \in 1..m : F'[a] = F[a]
    BY <1>1
  <2> HIDE DEF m, k
  <2>2. (\A p : Passes(p, k + 1)' <=> Passes(p, k + 1)) /\ Agreeing(k)' = Agreeing(k)
    BY <1>1, <2>1, SamePrefix
  <2>3. QED BY <2>1, <2>2 DEF k
<1>10. QED BY <1>4, <1>5, <1>6, <1>7, <1>8, <1>9

LEMMA IsoUllmanInv ==
    ASSUME Inv, IsoUllman
    PROVE  Inv'
<1>1. /\ UNCHANGED <<input, option, F, assignedPattern, assignedToTest, ret>>
      /\ pc = "start" /\ frames = <<>> /\ F = <<>> /\ maxFound = 0 /\ ret = 0 /\ maxFound' = 0
  BY DEF IsoUllman, Inv, CallPlace
<1>2. /\ TypeOK /\ limit \in Nat /\ P' = P /\ T' = T /\ limit' = limit /\ Pairs' = Pairs
      /\ (Searched' <=> Searched) /\ Occurrences' = Occurrences
      /\ nPattern' = nPattern /\ nToTest' = nToTest
      /\ \A f : PairsOf(f)' = PairsOf(f)
  <2>1. TypeOK /\ limit \in Nat
    BY GraphFacts DEF Inv
  <2>2. QED BY <1>1, <2>1, SameInput
<1>3. CASE limit = 0 \/ (~option.mcs /\ nToTest < nPattern)
  <2>1. pc' = "end" /\ frames' = <<>> /\ UNCHANGED <<frames, maxFound>>
    BY <1>1, <1>3 DEF IsoUllman
  <2>2. TypeOK'
    BY <1>1, <1>2, <2>1 DEF TypeOK
  <2>3. InOrder' /\ Marks' /\ PartialOccurrence' /\ Growing' /\ Grown' /\ FoundCommon'
    BY <1>1, <2>1, <2>2, SameAssociation
  <2>4. DOMAIN frames' = {}
    BY <2>1
  <2>5. Filtered' /\ AtPair' /\ KeepsAll' /\ Counted' /\ NothingFound'
    BY <2>4 DEF Filtered, AtPair, KeepsAll, Counted, NothingFound
  <2>6. CallPlace' /\ ReturnsFound' /\ Tally'
    BY <2>1, <2>5 DEF CallPlace, ReturnsFound, Tally
  <2>7. CountExact'
    <3>1. SUFFICES ASSUME ~option.mcs, nPattern > 0
                   PROVE  Occurrences = {}
      BY <1>1, <1>2, <3>1, FS_EmptySet DEF CountExact
    <3>2. nToTest < nPattern
      BY <1>2, <1>3, <3>1, GraphFacts
    <3>3. QED BY <1>2, <3>2, NoneInLess
  <2>8. QED BY <2>2, <2>3, <2>5, <2>6, <2>7 DEF Inv
<1>4. CASE ~(limit = 0 \/ (~option.mcs /\ nToTest < nPattern))
  <2>1. pc' = "search" /\ frames' = <<Frame(M0)>> /\ maxFound' = maxFound
    BY <1>1, <1>4 DEF IsoUllman
  <2>2. /\ M0 \subseteq Pairs
        /\ frames' = << [M |-> M0, turn |-> 0, ret |-> 0] >>
    BY <2>1 DEF M0, Pairs, Frame
  <2>3. /\ Len(frames') = 1 /\ DOMAIN frames' = {1} /\ frames' # <<>>
        /\ frames'[1] = [M |-> M0, turn |-> 0, ret |-> 0]
        /\ frames' \in Seq([M : SUBSET Pairs, turn : Nat, ret : Nat])
    BY <2>2
  <2>4. TypeOK'
    BY <1>1, <1>2, <2>1, <2>3 DEF TypeOK
  <2>5. /\ InOrder' /\ Marks' /\ PartialOccurrence' /\ Growing' /\ Grown' /\ FoundCommon'
    BY <1>1, <2>1, <2>4, SameAssociation
  <2>6. Filtered'
    <3>1. \A p \in M0 : MayMatch(p)
      BY DEF M0, MayMatch
    <3>2. \A p : MayMatch(p)' <=> MayMatch(p)
      BY <1>1, SameInput
    <3>3. \A p \in M0 : Passes(p, 1)'
      BY <3>1, <3>2 DEF Passes, Clears, Fits
    <3>4. QED BY <2>3, <3>3 DEF Filtered
  <2>7. CallPlace'
    BY <1>1, <1>2, <1>4, <2>1, <2>3, GraphFacts DEF CallPlace
  <2>8. AtPair' /\ ReturnsFound' /\ CountExact' /\ NothingFound'
    BY <2>1, <2>3 DEF AtPair, Busy, ReturnsFound, CountExact, NothingFound
  <2>9. KeepsAll'
    <3>1. SUFFICES ASSUME Searched, NEW f \in Occurrences, NEW l \in NodesOf(P)
                   PROVE  <<f[l], l>> \in M0
      <4>1. Agreeing(0)' \subseteq Occurrences /\ 1 - 1 = 0
        BY <1>2 DEF Agreeing
      <4>2. Searched => \A f \in Occurrences : PairsOf(f) \subseteq M0
        BY <3>1 DEF PairsOf
      <4>3. QED BY <1>2, <2>3, <4>1, <4>2 DEF KeepsAll
    <3>2. DegreesFit(f[l], l)
      BY <1>2, <3>1, DegreesKept
    <3>3. f[l] \in NodesOf(T) /\ MayMatch(<<f[l], l>>)
      BY <3>1 DEF Occurrences
    <3>4. QED BY <3>1, <3>2, <3>3 DEF M0, MayMatch
  <2>10. Tally'
    <3>1. SUFFICES ASSUME Searched' PROVE Counted'
      BY <2>1, <2>8 DEF Tally
    <3>2. Explored(1)' = {}
      <4>1. SUFFICES ASSUME NEW f \in Occurrences, (Turn(<<f[1], 1>>) <= 0)' PROVE FALSE
        BY <1>2, <2>1, <2>3 DEF Explored, Agreeing, Busy
      <4>2. 1 \in NodesOf(P) /\ f[1] \in NodesOf(T)
        BY <1>2, <1>4, GraphFacts DEF Occurrences
      <4>3. <<f[1], 1>> \in Pairs
        BY <4>2 DEF Pairs
      <4>4. Turn(<<f[1], 1>>) >= 1 /\ Turn(<<f[1], 1>>) \in Nat
        BY <1>2, <4>3, TurnFacts
      <4>5. (Turn(<<f[1], 1>>))' = Turn(<<f[1], 1>>)
        BY <1>2 DEF Turn
      <4>6. QED BY <4>1, <4>4, <4>5
    <3>3. ASSUME NEW d \in DOMAIN frames' PROVE frames'[d].ret = Cardinality(Explored(d)')
      <4>1. d = 1 /\ frames'[1].ret = 0
        BY <2>3
      <4>2. Explored(d)' = {}
        BY <3>2, <4>1
      <4>3. QED BY <4>1, <4>2, FS_EmptySet
    <3>4. QED BY <3>3 DEF Counted
  <2>11. QED BY <2>4, <2>5, <2>6, <2>7, <2>8, <2>9, <2>10 DEF Inv
<1>5. QED BY <1>3, <1>4
-----------------------------------------------------------------------------
(***************************************************************************)
(* Assign: the pair is free and fits, so F stays an occurrence of a part   *)
(* of the pattern; no occurrence is passed over by taking the next pair.   *)
(***************************************************************************)
RaisedBut(c, counter, g, n) ==
    \A x \in DOMAIN g.children \ {n} : c[x] = Raise(counter, g.children[n])[x]
LoweredBut(c, counter, g, n) ==
    \A x \in DOMAIN g.children \ {n} : c[x] = Lower(counter, g.children[n])[x]

LEMMA RaisedFacts ==
    ASSUME NEW g, WellFormed(g), NEW counter \in [DOMAIN g.children -> Int],
           NEW n \in DOMAIN g.children, NEW S, MarkedBy(counter, S)
    PROVE  /\ Raised(counter, g, n) \in [DOMAIN g.children -> Int]
           /\ MarkedBy(Raised(counter, g, n), S \cup {n})
           /\ option.mcs => RaisedBut(Raised(counter, g, n), counter, g, n)
<1> DEFINE N == DOMAIN g.children
           kids == g.children[n]
           c == IF option.mcs THEN Raise(counter, kids) ELSE counter
<1>1. kids \in Seq(N)
  BY DEF WellFormed
<1>2. c \in [N -> Int] /\ MarkedBy(c, S)
  <2>1. Raise(counter, kids) \in [N -> Int] /\ MarkedBy(Raise(counter, kids), S)
    <3> HIDE DEF N, kids
    <3>1. counter \in [N -> Int]
      BY DEF N
    <3>2. QED BY <1>1, <3>1, RaiseMarks
  <2>2. QED BY <2>1
<1>3. Raised(counter, g, n) = [c EXCEPT ![n] = 0]
  BY DEF Raised
<1>4. option.mcs => c = Raise(counter, kids)
  OBVIOUS
<1> HIDE DEF c, N, kids
<1>5. n \in N
  BY DEF N
<1> DEFINE r == [c EXCEPT ![n] = 0]
<1>6. r \in [N -> Int] /\ MarkedBy(r, S \cup {n}) /\ \A x \in N \ {n} : r[x] = c[x]
  BY <1>2, <1>5 DEF MarkedBy
<1> HIDE DEF r
<1>7. QED BY <1>3, <1>4, <1>6 DEF N, kids, r, RaisedBut

LEMMA AssignFacts ==
    ASSUME Inv, Assign
    PROVE  /\ TypeOK /\ Len(F) \in Nat /\ Len(frames) = Len(F) + 1 /\ Len(F) < limit
           /\ DOMAIN F = 1..Len(F)
           /\ Pair \in Pairs /\ Pair \in Left /\ \A q \in Left : Turn(Pair) <= Turn(q)
           /\ Len(F') = Len(F) + 1 /\ DOMAIN F' = 1..(Len(F) + 1) /\ F' \in Seq(Pairs)
           /\ \A a \in 1..Len(F) : F'[a] = F[a]
           /\ F'[Len(F) + 1] = Pair
           /\ Free(Pair, Len(F)) /\ Passes(Pair, Len(F) + 1)
           /\ DOMAIN frames = 1..(Len(F) + 1) /\ DOMAIN frames' = 1..(Len(F) + 1)
           /\ Len(frames') = Len(F) + 1 /\ frames' \in Seq(FrameType)
           /\ \A d \in 1..(Len(F) + 1) : /\ frames'[d].M = frames[d].M
                                         /\ frames'[d].ret = frames[d].ret
                                         /\ frames[d] \in FrameType
           /\ \A d \in 1..Len(F) : frames'[d].turn = frames[d].turn
           /\ frames'[Len(F) + 1].turn = Turn(Pair)
           /\ top = frames[Len(F) + 1] /\ j = Len(F)
<1>1. /\ pc = "search" /\ j < limit /\ Left # {}
      /\ frames' = [frames EXCEPT ![j + 1].turn = Turn(Pair)]
      /\ F' = Append(F, Pair)
  BY DEF Assign
<1>2. /\ TypeOK /\ Len(F) \in Nat /\ Len(frames) = Len(F) + 1 /\ DOMAIN F = 1..Len(F)
      /\ DOMAIN frames = 1..(Len(F) + 1) /\ frames \in Seq(FrameType) /\ F \in Seq(Pairs)
      /\ \A d \in 1..(Len(F) + 1) : frames[d] \in FrameType
  BY <1>1, StackFacts DEF Inv, CallPlace
<1>3. j = Len(F) /\ j + 1 = Len(F) + 1 /\ top = frames[Len(F) + 1]
  BY <1>2 DEF j, top
<1>4. frames # <<>>
  BY <1>2
<1>5. /\ Pair \in Left /\ Pair \in top.M /\ Pair \in Pairs
      /\ \A q \in Left : Turn(Pair) <= Turn(q)
  BY <1>1, <1>2, <1>4, PairFacts
<1>6. Turn(Pair) \in Nat
  BY <1>2, <1>5, TurnFacts
<1>7. /\ Len(F') = Len(F) + 1 /\ DOMAIN F' = 1..(Len(F) + 1) /\ F' \in Seq(Pairs)
      /\ \A a \in 1..Len(F) : F'[a] = F[a]
      /\ F'[Len(F) + 1] = Pair
  BY <1>1, <1>2, <1>5, AppendProperties
<1>8. Passes(Pair, Len(F) + 1)
  <2>1. Len(F) + 1 \in DOMAIN frames
    BY <1>2
  <2>2. QED BY <1>3, <1>5, <2>1 DEF Inv, Filtered
<1>9. Free(Pair, Len(F))
  <2>1. CASE option.mcs
    <3>1. CASE j = 0
      BY <1>3, <3>1 DEF Free
    <3>2. CASE j # 0
      <4>1. assignedPattern[Pair[2]] >= 2 /\ assignedToTest[Pair[1]] >= 2
        BY <1>5, <2>1, <3>2 DEF Left, ReachableByBoth
      <4>2. Pair[1] \in NodesOf(T) /\ Pair[2] \in NodesOf(P)
        BY <1>5 DEF Pairs
      <4>3. /\ assignedPattern[Pair[2]] \in Int /\ assignedToTest[Pair[1]] \in Int
            /\ Pair[2] \in DOMAIN assignedPattern /\ Pair[1] \in DOMAIN assignedToTest
        BY <1>2, <4>2 DEF TypeOK
      <4>4. Pair[2] \notin Assigned(2) /\ Pair[1] \notin Assigned(1)
        BY <4>1, <4>3 DEF Inv, Marks, MarkedBy
      <4>5. QED BY <1>2, <4>4 DEF Assigned, AssignedBy, Free
    <3>3. QED BY <3>1, <3>2
  <2>2. CASE ~option.mcs
    <3>1. Pair[2] = Len(F) + 1
      BY <1>3, <1>5, <2>2 DEF Left
    <3>2. \A a \in 1..Len(F) : F[a][2] = a
      BY <1>2, <2>2 DEF Inv, InOrder
    <3>3. Clears(Pair, Len(F))
      <4>1. (Len(F) + 1) - 1 = Len(F)
        BY <1>2
      <4>2. QED BY <1>8, <4>1 DEF Passes
    <3>4. QED BY <1>2, <3>1, <3>2, <3>3 DEF Free, Clears
  <2>3. QED BY <2>1, <2>2
<1>10. /\ DOMAIN frames' = 1..(Len(F) + 1)
       /\ \A d \in 1..(Len(F) + 1) : frames'[d] \in FrameType
       /\ \A d \in 1..(Len(F) + 1) : /\ frames'[d].M = frames[d].M
                                     /\ frames'[d].ret = frames[d].ret
       /\ \A d \in 1..Len(F) : frames'[d].turn = frames[d].turn
       /\ frames'[Len(F) + 1].turn = Turn(Pair)
  <2> DEFINE k == Len(F) + 1
             t == Turn(Pair)
             fr == [frames[k] EXCEPT !.turn = t]
  <2>1. k \in 1..k /\ DOMAIN frames = 1..k /\ t \in Nat /\ \A d \in 1..Len(F) : d \in 1..k /\ d # k
    BY <1>2, <1>6
  <2>2. frames' = [frames EXCEPT ![k] = fr]
    BY <1>1, <1>3
  <2>3. \A d \in 1..k : frames[d] \in FrameType
    BY <1>2
  <2> HIDE DEF k, t
  <2>4. fr \in FrameType /\ fr.M = frames[k].M /\ fr.ret = frames[k].ret /\ fr.turn = t
    BY <2>1, <2>3 DEF FrameType
  <2> HIDE DEF fr, FrameType
  <2>5. /\ DOMAIN frames' = 1..k
        /\ \A d \in 1..k : frames'[d] = IF d = k THEN fr ELSE frames[d]
    BY <2>1, <2>2
  <2>6. QED BY <2>1, <2>3, <2>4, <2>5 DEF k, t
<1>11. Len(frames') = Len(F) + 1 /\ frames' \in Seq(FrameType)
  <2>1. frames' = [d \in 1..(Len(F) + 1) |-> frames'[d]]
    BY <1>1, <1>2
  <2>2. QED BY <1>2, <1>10, <2>1
<1> HIDE DEF FrameType
<1>12. QED
  BY <1>1, <1>2, <1>3, <1>5, <1>7, <1>8, <1>9, <1>10, <1>11
-----------------------------------------------------------------------------
(***************************************************************************)
(* The counters when a pair joins A, giving B, and when it leaves again.   *)
(***************************************************************************)
Joins(B, A, m, p) == /\ DOMAIN A = 1..m /\ DOMAIN B = 1..(m + 1)
                     /\ \A a \in 1..m : B[a] = A[a]
                     /\ B[m + 1] = p

LinksOf(g, b, n, x) == Tagged(b, g.children[n], x, Len(g.children[n]))

LEMMA AssignedJoin ==
    ASSUME NEW side, NEW A, NEW B, NEW m \in Nat, NEW p, Joins(B, A, m, p)
    PROVE  AssignedBy(B, side) = AssignedBy(A, side) \cup {p[side]}
<1>1. ASSUME NEW a \in 1..(m + 1), a \notin 1..m PROVE a = m + 1
  BY <1>1
<1>2. QED BY <1>1 DEF Joins, AssignedBy

LEMMA LinksJoin ==
    ASSUME NEW g, WellFormed(g), NEW side, NEW A, NEW B, NEW m \in Nat, NEW p,
           Joins(B, A, m, p), p[side] \in DOMAIN g.children, NEW x
    PROVE  /\ LinksTo(B, g, side, x) = LinksTo(A, g, side, x) \cup LinksOf(g, m + 1, p[side], x)
           /\ LinksTo(A, g, side, x) = LinksTo(B, g, side, x) \ LinksOf(g, m + 1, p[side], x)
           /\ \A k \in Nat : <<m + 1, k>> \notin LinksTo(A, g, side, x)
           /\ IsFiniteSet(LinksOf(g, m + 1, p[side], x))
<1> DEFINE kids == g.children[p[side]]
           new == Tagged(m + 1, kids, x, Len(kids))
           LA == LinksTo(A, g, side, x)
           LB == LinksTo(B, g, side, x)
<1>1. kids \in Seq(1..Len(g.children)) /\ DOMAIN kids = 1..Len(kids) /\ Len(kids) \in Nat
  BY LenProperties DEF WellFormed
<1>2. /\ DOMAIN A = 1..m /\ DOMAIN B = 1..(m + 1) /\ \A a \in 1..m : B[a] = A[a]
      /\ B[m + 1] = p
  BY DEF Joins
<1>3. \A y \in LA : y[1] \in 1..m /\ y \in LB /\ y = <<y[1], y[2]>>
  <2>1. ASSUME NEW y \in LA PROVE y[1] \in 1..m /\ y \in LB /\ y = <<y[1], y[2]>>
    <3>1. /\ y \in (1..m) \X Nat /\ y[2] \in DOMAIN g.children[A[y[1]][side]]
          /\ g.children[A[y[1]][side]][y[2]] = x
      BY <1>2 DEF LinksTo
    <3>2. B[y[1]] = A[y[1]] /\ y \in (1..(m + 1)) \X Nat
      BY <1>2, <3>1
    <3>3. QED BY <1>2, <3>1, <3>2 DEF LinksTo
  <2>2. QED BY <2>1
<1>4. \A y \in new : y \in LB /\ y[1] = m + 1
  <2>1. ASSUME NEW y \in new PROVE y \in LB /\ y[1] = m + 1
    <3>1. y \in {m + 1} \X (1..Len(kids)) /\ kids[y[2]] = x
      BY DEF Tagged
    <3>2. /\ y \in (1..(m + 1)) \X Nat /\ y[1] = m + 1 /\ y[2] \in 1..Len(kids)
          /\ B[y[1]] = p
      BY <1>2, <3>1
    <3>3. QED BY <1>1, <1>2, <3>1, <3>2 DEF LinksTo
  <2>2. QED BY <2>1
<1>5. \A y \in LB : y \in LA \/ y \in new
  <2>1. ASSUME NEW y \in LB PROVE y \in LA \/ y \in new
    <3>1. /\ y \in (1..(m + 1)) \X Nat /\ y[2] \in DOMAIN g.children[B[y[1]][side]]
          /\ g.children[B[y[1]][side]][y[2]] = x
      BY <1>2 DEF LinksTo
    <3>2. CASE y[1] = m + 1
      <4>1. y \in {m + 1} \X (1..Len(kids)) /\ kids[y[2]] = x
        BY <1>1, <1>2, <3>1, <3>2
      <4>2. QED BY <4>1 DEF Tagged
    <3>3. CASE y[1] # m + 1
      <4>1. y[1] \in 1..m /\ y \in (1..m) \X Nat
        BY <3>1, <3>3
      <4>2. QED BY <1>2, <3>1, <4>1 DEF LinksTo
    <3>4. QED BY <3>2, <3>3
  <2>2. QED BY <2>1
<1>6. IsFiniteSet(new)
  <2> DEFINE K == 1..Len(kids)
             b == m + 1
  <2>1. IsFiniteSet({b}) /\ IsFiniteSet(K)
    <3>1. 1 \in Int /\ Len(kids) \in Int
      BY <1>1
    <3>2. IsFiniteSet(K)
      BY <3>1, FS_Interval
    <3> HIDE DEF K, b
    <3>3. QED BY <3>2, FS_Singleton
  <2>2. new \in SUBSET ({b} \X K)
    BY DEF Tagged
  <2> HIDE DEF K, b, new
  <2>3. IsFiniteSet({b} \X K)
    BY <2>1, FS_Product
  <2>4. QED BY <2>2, <2>3, FS_Subset
<1>7. \A k \in Nat : <<m + 1, k>> \notin LA
  <2>1. ASSUME NEW k \in Nat, <<m + 1, k>> \in LA PROVE FALSE
    BY <1>3, <2>1
  <2>2. QED BY <2>1
<1>8. LB = LA \cup new /\ LA = LB \ new
  <2> HIDE DEF LA, LB, new
  <2>1. \A y \in LA : y \notin new
    BY <1>3, <1>4
  <2>2. QED BY <1>3, <1>4, <1>5, <2>1
<1>9. QED BY <1>6, <1>7, <1>8 DEF LinksOf

LEMMA CountsRaised ==
    ASSUME NEW g, WellFormed(g), NEW side, NEW A, NEW B, NEW m \in Nat, NEW p,
           Joins(B, A, m, p), p[side] \in DOMAIN g.children,
           NEW counter \in [DOMAIN g.children -> Int], MarkedBy(counter, AssignedBy(A, side)),
           CountsLinks(counter, A, g, side),
           NEW c \in [DOMAIN g.children -> Int],
           RaisedBut(c, counter, g, p[side])
    PROVE  CountsLinks(c, B, g, side)
<1> DEFINE kids == g.children[p[side]]
           N == DOMAIN g.children
           S == AssignedBy(A, side)
<1>1. kids \in Seq(N)
  BY DEF WellFormed
<1>2. AssignedBy(B, side) = S \cup {p[side]}
  BY AssignedJoin
<1>3. ASSUME NEW x \in N
      PROVE  /\ IsFiniteSet(LinksTo(B, g, side, x))
             /\ x \notin AssignedBy(B, side) =>
                    c[x] <= 1 + Cardinality(LinksTo(B, g, side, x))
  <2> DEFINE L == LinksTo(A, g, side, x)
             b == m + 1
             new == Tagged(b, kids, x, Len(kids))
  <2>1. /\ LinksTo(B, g, side, x) = L \cup new /\ IsFiniteSet(new)
        /\ \A k \in Nat : <<b, k>> \notin L
    <3>1. new = LinksOf(g, m + 1, p[side], x)
      BY DEF LinksOf
    <3> HIDE DEF new
    <3>2. /\ LinksTo(B, g, side, x) = L \cup LinksOf(g, m + 1, p[side], x)
          /\ IsFiniteSet(LinksOf(g, m + 1, p[side], x))
      BY LinksJoin
    <3>3. \A k \in Nat : <<m + 1, k>> \notin LinksTo(A, g, side, x)
      BY LinksJoin
    <3>4. QED BY <3>1, <3>2, <3>3
  <2>2. IsFiniteSet(L) /\ (x \notin S => counter[x] <= 1 + Cardinality(L))
    BY DEF CountsLinks
  <2>3. IsFiniteSet(L \cup new)
    <3> HIDE DEF L, new
    <3>1. QED BY <2>1, <2>2, FS_Union
  <2>4. ASSUME x \notin AssignedBy(B, side)
        PROVE  c[x] <= 1 + Cardinality(L \cup new)
    <3>1. x \notin S /\ x # p[side] /\ counter[x] <= 1 + Cardinality(L)
      BY <1>2, <2>2, <2>4
    <3>2. c[x] = Raise(counter, kids)[x]
      BY <3>1 DEF RaisedBut
    <3>3. MarkedBy(counter, S) /\ counter \in [N -> Int]
      OBVIOUS
    <3> HIDE DEF kids, N, S, L, b
    <3>4. Raise(counter, kids)[x] <= 1 + Cardinality(L \cup Tagged(b, kids, x, Len(kids)))
      BY <1>1, <2>1, <2>2, <3>1, <3>3, RaiseCounts
    <3>5. QED BY <3>2, <3>4
  <2>5. QED BY <2>1, <2>3, <2>4
<1>4. QED BY <1>3 DEF CountsLinks

LEMMA CountsLowered ==
    ASSUME NEW g, WellFormed(g), NEW side, NEW A, NEW B, NEW m \in Nat, NEW p,
           Joins(B, A, m, p), p[side] \in DOMAIN g.children,
           NEW counter \in [DOMAIN g.children -> Int], MarkedBy(counter, AssignedBy(B, side)),
           CountsLinks(counter, B, g, side),
           NEW c \in [DOMAIN g.children -> Int],
           LoweredBut(c, counter, g, p[side]),
           c[p[side]] = 1 \/ (c[p[side]] = 2 /\ LinksTo(A, g, side, p[side]) # {})
    PROVE  CountsLinks(c, A, g, side)
<1> DEFINE kids == g.children[p[side]]
           N == DOMAIN g.children
           S == AssignedBy(B, side)
<1>1. kids \in Seq(N)
  BY DEF WellFormed
<1>2. S = AssignedBy(A, side) \cup {p[side]}
  BY AssignedJoin
<1>3. ASSUME NEW x \in N
      PROVE  /\ IsFiniteSet(LinksTo(A, g, side, x))
             /\ x \notin AssignedBy(A, side) =>
                    c[x] <= 1 + Cardinality(LinksTo(A, g, side, x))
  <2> DEFINE L == LinksTo(B, g, side, x)
             b == m + 1
             new == Tagged(b, kids, x, Len(kids))
             LA == LinksTo(A, g, side, x)
  <2>1. LA = L \ new /\ L = LA \cup new
    BY LinksJoin DEF LinksOf
  <2>2. IsFiniteSet(L) /\ (x \notin S => counter[x] <= 1 + Cardinality(L))
    BY DEF CountsLinks
  <2>3. IsFiniteSet(LA) /\ Cardinality(LA) \in Nat /\ (LA # {} => Cardinality(LA) # 0)
    <3> HIDE DEF L, LA, new
    <3>1. LA \in SUBSET L
      BY <2>1
    <3>2. IsFiniteSet(LA)
      BY <2>2, <3>1, FS_Subset
    <3>3. QED BY <3>2, FS_CardinalityType, FS_EmptySet
  <2>4. ASSUME x \notin AssignedBy(A, side)
        PROVE  c[x] <= 1 + Cardinality(LA)
    <3>1. CASE x = p[side]
      <4>1. c[x] = 1 \/ (c[x] = 2 /\ LA # {})
        BY <3>1
      <4> HIDE DEF LA
      <4>2. QED BY <2>3, <4>1
    <3>2. CASE x # p[side]
      <4>1. x \notin S /\ counter[x] <= 1 + Cardinality(L)
        BY <1>2, <2>2, <2>4, <3>2
      <4>2. c[x] = Lower(counter, kids)[x]
        BY <3>2 DEF LoweredBut
      <4>3. MarkedBy(counter, S) /\ counter \in [N -> Int]
        OBVIOUS
      <4>4. Tagged(b, kids, x, Len(kids)) \subseteq L
        BY <2>1
      <4> HIDE DEF kids, N, S, L, b
      <4>5. Lower(counter, kids)[x] <= 1 + Cardinality(L \ Tagged(b, kids, x, Len(kids)))
        BY <1>1, <2>2, <4>1, <4>3, <4>4, LowerCounts
      <4>6. QED BY <2>1, <4>2, <4>5
    <3>3. QED BY <3>1, <3>2
  <2>5. QED BY <2>3, <2>4
<1>4. QED BY <1>3 DEF CountsLinks
LEMMA AssignAssociation ==
    ASSUME Inv, Assign
    PROVE  /\ TypeOK' /\ CallPlace' /\ InOrder' /\ Marks' /\ PartialOccurrence'
           /\ Growing' /\ Grown' /\ FoundCommon'
<1>00. PICK m \in Nat, p \in Pairs : m = Len(F) /\ p = Pair
  BY AssignFacts
<1>0. Inv /\ UNCHANGED <<input, option, ret>> /\ pc = "search" /\ pc' = "forward"
  BY DEF Assign
<1>1. /\ P' = P /\ T' = T /\ limit' = limit /\ Pairs' = Pairs
      /\ nPattern' = nPattern /\ nToTest' = nToTest
      /\ \A q : MayMatch(q)' <=> MayMatch(q)
      /\ \A q, r : Joined(q, r)' <=> Joined(q, r)
  BY <1>0, SameInput
<1>2. /\ TypeOK /\ m \in Nat /\ m < limit /\ Joins(F', F, m, p) /\ p \in Pairs
      /\ Len(F') = m + 1 /\ F' \in Seq(Pairs) /\ DOMAIN F = 1..m
      /\ DOMAIN F' = 1..(m + 1) /\ F'[m + 1] = p /\ \A a \in 1..m : F'[a] = F[a]
      /\ Free(p, m) /\ Passes(p, m + 1) /\ p \in Left /\ j = m
      /\ \A a \in 1..m : F[a] \in Pairs
  BY <1>00, AssignFacts, StackFacts DEF Joins
<1>3. /\ limit \in Nat /\ NodesOf(P) = DOMAIN P.children /\ NodesOf(T) = DOMAIN T.children
      /\ WellFormed(P) /\ WellFormed(T)
      /\ p[1] \in NodesOf(T) /\ p[2] \in NodesOf(P)
  BY <1>2, GraphFacts, Formed DEF NodesOf, Pairs
<1>4. /\ assignedPattern \in [DOMAIN P.children -> Int]
      /\ assignedToTest \in [DOMAIN T.children -> Int]
      /\ MarkedBy(assignedPattern, AssignedBy(F, 2)) /\ MarkedBy(assignedToTest, AssignedBy(F, 1))
  BY <1>2, <1>3 DEF TypeOK, Inv, Marks, Assigned
<1>5. /\ assignedPattern' = Raised(assignedPattern, P, p[2])
      /\ assignedToTest' = Raised(assignedToTest, T, p[1])
      /\ maxFound' = IF option.mcs /\ maxFound < j + 1 THEN j + 1 ELSE maxFound
  BY <1>00 DEF Assign
<1>6. /\ assignedPattern' \in [DOMAIN P.children -> Int]
      /\ MarkedBy(assignedPattern', AssignedBy(F, 2) \cup {p[2]})
      /\ option.mcs => RaisedBut(assignedPattern', assignedPattern, P, p[2])
  <2> DEFINE g == P
             S == AssignedBy(F, 2)
             n == p[2]
             c == assignedPattern
  <2>1. /\ WellFormed(g) /\ c \in [DOMAIN g.children -> Int]
        /\ n \in DOMAIN g.children /\ MarkedBy(c, S) /\ assignedPattern' = Raised(c, g, n)
    BY <1>3, <1>4, <1>5
  <2> HIDE DEF g, S, n, c
  <2>2. /\ Raised(c, g, n) \in [DOMAIN g.children -> Int]
        /\ MarkedBy(Raised(c, g, n), S \cup {n})
        /\ option.mcs => RaisedBut(Raised(c, g, n), c, g, n)
    BY <2>1, RaisedFacts
  <2>3. QED BY <2>1, <2>2 DEF g, S, n, c
<1>7. /\ assignedToTest' \in [DOMAIN T.children -> Int]
      /\ MarkedBy(assignedToTest', AssignedBy(F, 1) \cup {p[1]})
      /\ option.mcs => RaisedBut(assignedToTest', assignedToTest, T, p[1])
  <2> DEFINE g == T
             S == AssignedBy(F, 1)
             n == p[1]
             c == assignedToTest
  <2>1. /\ WellFormed(g) /\ c \in [DOMAIN g.children -> Int]
        /\ n \in DOMAIN g.children /\ MarkedBy(c, S) /\ assignedToTest' = Raised(c, g, n)
    BY <1>3, <1>4, <1>5
  <2> HIDE DEF g, S, n, c
  <2>2. /\ Raised(c, g, n) \in [DOMAIN g.children -> Int]
        /\ MarkedBy(Raised(c, g, n), S \cup {n})
        /\ option.mcs => RaisedBut(Raised(c, g, n), c, g, n)
    BY <2>1, RaisedFacts
  <2>3. QED BY <2>1, <2>2 DEF g, S, n, c
<1>8. /\ AssignedBy(F', 2) = AssignedBy(F, 2) \cup {p[2]}
      /\ AssignedBy(F', 1) = AssignedBy(F, 1) \cup {p[1]}
  BY <1>2, AssignedJoin
<1>9. Marks'
  BY <1>6, <1>7, <1>8 DEF Marks, Assigned
<1>10. TypeOK'
  <2>1. maxFound' \in 0..limit
    BY <1>2, <1>3, <1>5 DEF TypeOK
  <2>2. Len(frames') = m + 1 /\ frames' \in Seq([M : SUBSET Pairs, turn : Nat, ret : Nat])
    BY <1>00, AssignFacts DEF FrameType
  <2>3. Len(frames') <= limit + 1 /\ Len(F') <= limit
    BY <1>2, <1>3, <2>2
  <2>4. QED BY <1>0, <1>1, <1>2, <1>3, <1>6, <1>7, <2>1, <2>2, <2>3 DEF TypeOK
<1>11. CallPlace'
  <2>1. Len(frames') = m + 1 /\ Len(frames) = m + 1
    BY <1>00, AssignFacts
  <2>2. frames' # <<>> /\ frames # <<>>
    BY <1>2, <2>1
  <2>3. limit > 0 /\ (option.mcs \/ nPattern <= nToTest)
    BY <2>2, <1>0 DEF Inv, CallPlace
  <2>4. QED BY <1>0, <1>1, <1>2, <2>1, <2>2, <2>3 DEF CallPlace
<1>12. InOrder'
  <2>1. SUFFICES ASSUME ~option.mcs PROVE \A a \in 1..(m + 1) : F'[a][2] = a
    BY <1>0, <1>2 DEF InOrder
  <2>2. \A a \in 1..m : F[a][2] = a
    BY <1>0, <1>2, <2>1 DEF Inv, InOrder
  <2>3. p[2] = m + 1
    BY <1>2, <2>1 DEF Left
  <2>4. QED BY <1>2, <2>2, <2>3
<1>13. /\ MayMatch(p)
       /\ \A a \in 1..m : Joined(p, F[a]) /\ Joined(F[a], p)
  <2>1. (m + 1) - 1 = m /\ m + 1 <= limit
    BY <1>2, <1>3
  <2>2. MayMatch(p) /\ Fits(p, m)
    BY <1>2, <2>1 DEF Passes
  <2>3. QED BY <2>2 DEF Fits, Compatible, Joined
<1>14. PartialOccurrence'
  <2>1. ASSUME NEW a \in 1..(m + 1), NEW b \in 1..(m + 1)
        PROVE  /\ MayMatch(F'[a])
               /\ a # b => /\ F'[a][1] # F'[b][1] /\ F'[a][2] # F'[b][2]
                           /\ Joined(F'[a], F'[b])
    <3>1. CASE a \in 1..m /\ b \in 1..m
      BY <1>0, <1>2, <3>1 DEF Inv, PartialOccurrence
    <3>2. CASE a \in 1..m /\ b \notin 1..m
      <4>1. b = m + 1
        BY <1>2, <3>2
      <4>2. MayMatch(F[a])
        BY <1>0, <1>2, <3>2 DEF Inv, PartialOccurrence
      <4>3. QED BY <1>2, <1>13, <3>2, <4>1, <4>2 DEF Free
    <3>3. CASE a \notin 1..m /\ b \in 1..m
      <4>1. a = m + 1
        BY <1>2, <3>3
      <4>2. QED BY <1>2, <1>13, <3>3, <4>1 DEF Free
    <3>4. CASE a \notin 1..m /\ b \notin 1..m
      <4>1. a = m + 1 /\ b = m + 1
        BY <1>2, <3>4
      <4>2. QED BY <1>2, <1>13, <4>1
    <3>5. QED BY <3>1, <3>2, <3>3, <3>4
  <2>2. QED BY <1>1, <1>2, <2>1 DEF PartialOccurrence
<1>15. Growing'
  <2>1. SUFFICES ASSUME option.mcs
                 PROVE  /\ CountsLinks(assignedPattern', F', P, 2)
                        /\ CountsLinks(assignedToTest', F', T, 1)
    BY <1>0, <1>1 DEF Growing
  <2>2. CountsLinks(assignedPattern, F, P, 2) /\ CountsLinks(assignedToTest, F, T, 1)
    BY <1>0, <2>1 DEF Inv, Growing
  <2>3. CountsLinks(assignedPattern', F', P, 2)
    <3> DEFINE g == P
               side == 2
               A == F
               B == F'
               old == assignedPattern
               new == assignedPattern'
    <3>1. /\ WellFormed(g) /\ Joins(B, A, m, p) /\ p[side] \in DOMAIN g.children
          /\ old \in [DOMAIN g.children -> Int] /\ MarkedBy(old, AssignedBy(A, side))
          /\ CountsLinks(old, A, g, side) /\ new \in [DOMAIN g.children -> Int]
          /\ RaisedBut(new, old, g, p[side])
      BY <1>2, <1>3, <1>4, <1>6, <2>1, <2>2
    <3> HIDE DEF g, side, A, B, old, new
    <3>2. CountsLinks(new, B, g, side)
      BY <3>1, CountsRaised
    <3>3. QED BY <3>2 DEF g, side, B, new
  <2>4. CountsLinks(assignedToTest', F', T, 1)
    <3> DEFINE g == T
               side == 1
               A == F
               B == F'
               old == assignedToTest
               new == assignedToTest'
    <3>1. /\ WellFormed(g) /\ Joins(B, A, m, p) /\ p[side] \in DOMAIN g.children
          /\ old \in [DOMAIN g.children -> Int] /\ MarkedBy(old, AssignedBy(A, side))
          /\ CountsLinks(old, A, g, side) /\ new \in [DOMAIN g.children -> Int]
          /\ RaisedBut(new, old, g, p[side])
      BY <1>2, <1>3, <1>4, <1>7, <2>1, <2>2
    <3> HIDE DEF g, side, A, B, old, new
    <3>2. CountsLinks(new, B, g, side)
      BY <3>1, CountsRaised
    <3>3. QED BY <3>2 DEF g, side, B, new
  <2>5. QED BY <2>3, <2>4
<1>16. ASSUME option.mcs, m # 0
       PROVE  /\ \E a \in 1..m : E(P, F[a][2], p[2])
              /\ \E a \in 1..m : E(T, F[a][1], p[1])
  <2>1. assignedPattern[p[2]] >= 2 /\ assignedToTest[p[1]] >= 2
    BY <1>2, <1>16 DEF Left, ReachableByBoth
  <2>2. p[2] \notin AssignedBy(F, 2) /\ p[1] \notin AssignedBy(F, 1)
    BY <1>2 DEF Free, AssignedBy
  <2>3. ASSUME NEW g, WellFormed(g), NEW side, NEW n \in DOMAIN g.children,
               NEW counter \in [DOMAIN g.children -> Int], n \notin AssignedBy(F, side),
               counter[n] >= 2, CountsLinks(counter, F, g, side),
               \A a \in 1..m : F[a][side] \in DOMAIN g.children
        PROVE  \E a \in 1..m : E(g, F[a][side], n)
    <3> DEFINE L == LinksTo(F, g, side, n)
    <3>1. IsFiniteSet(L) /\ counter[n] <= 1 + Cardinality(L)
      BY <2>3 DEF CountsLinks
    <3>2. L # {}
      <4> HIDE DEF L
      <4>1. CASE L = {}
        <5>1. Cardinality(L) = 0
          BY <4>1, FS_EmptySet
        <5>2. QED BY <2>3, <3>1, <5>1
      <4>2. QED BY <4>1
    <3>3. PICK y \in L : TRUE
      BY <3>2
    <3>4. /\ y \in (1..m) \X Nat /\ y[2] \in DOMAIN g.children[F[y[1]][side]]
          /\ g.children[F[y[1]][side]][y[2]] = n
      BY <1>2 DEF LinksTo
    <3>5. y[1] \in 1..m /\ n \in Range(g.children[F[y[1]][side]])
      BY <3>4 DEF Range
    <3>6. QED BY <3>5 DEF E
  <2>4. CountsLinks(assignedPattern, F, P, 2) /\ CountsLinks(assignedToTest, F, T, 1)
    BY <1>0, <1>16 DEF Inv, Growing
  <2>5. \A a \in 1..m : F[a][2] \in DOMAIN P.children /\ F[a][1] \in DOMAIN T.children
    BY <1>2, <1>3 DEF Pairs
  <2>6. \E a \in 1..m : E(P, F[a][2], p[2])
    BY <1>3, <1>4, <2>1, <2>2, <2>3, <2>4, <2>5
  <2>7. \E a \in 1..m : E(T, F[a][1], p[1])
    BY <1>3, <1>4, <2>1, <2>2, <2>3, <2>4, <2>5
  <2>8. QED BY <2>6, <2>7
<1>17. Grown'
  <2>1. SUFFICES ASSUME option.mcs, NEW b \in 2..(m + 1)
                 PROVE  /\ \E a \in 1..(b - 1) : E(P, F'[a][2], F'[b][2])
                        /\ \E a \in 1..(b - 1) : E(T, F'[a][1], F'[b][1])
    BY <1>0, <1>1, <1>2 DEF Grown
  <2>2. CASE b = m + 1
    <3>1. m # 0 /\ b - 1 = m /\ F'[b] = p
      BY <1>2, <2>2
    <3>2. QED BY <1>2, <1>16, <2>1, <3>1
  <2>3. CASE b # m + 1
    <3>1. b \in 2..m /\ b \in 1..m /\ \A a \in 1..(b - 1) : a \in 1..m
      BY <1>2, <2>3
    <3>2. /\ \E a \in 1..(b - 1) : E(P, F[a][2], F[b][2])
          /\ \E a \in 1..(b - 1) : E(T, F[a][1], F[b][1])
      BY <1>0, <2>1, <3>1, <1>00 DEF Inv, Grown
    <3>3. F'[b] = F[b] /\ \A a \in 1..(b - 1) : F'[a] = F[a]
      BY <1>2, <3>1
    <3>4. QED BY <3>2, <3>3
  <2>4. QED BY <2>2, <2>3
<1>18. FoundCommon'
  <2>1. SUFFICES ASSUME option.mcs
                 PROVE  /\ Common'[maxFound'] # {}
                        /\ \A k \in 0..(m + 1) : FirstPairs(k)' \in Common'[k]
    BY <1>0, <1>2 DEF FoundCommon
  <2>2. /\ \A k \in 0..limit : Common'[k] = Common[k]
        /\ CommonSteps
    BY <1>0, <1>2, <1>10, SameCommon, CommonFacts
  <2>3. \A k \in 0..m : FirstPairs(k)' = FirstPairs(k) /\ FirstPairs(k) \in Common[k]
    <3>1. \A k \in 0..m : FirstPairs(k)' = FirstPairs(k)
      BY <1>2 DEF FirstPairs
    <3>2. QED BY <1>00, <1>0, <2>1, <3>1 DEF Inv, FoundCommon
  <2>4. FirstPairs(m + 1)' = FirstPairs(m) \cup {p}
    <3>1. \A a \in 1..(m + 1) : a \in 1..m \/ a = m + 1
      BY <1>2
    <3>2. m + 1 \in 1..(m + 1) /\ \A a \in 1..m : a \in 1..(m + 1)
      BY <1>2
    <3>3. QED BY <1>2, <3>1, <3>2 DEF FirstPairs
  <2>5. MayJoin(FirstPairs(m), p)
    <3>1. \A r \in FirstPairs(m) : r[1] # p[1] /\ r[2] # p[2] /\ Joined(r, p) /\ Joined(p, r)
      BY <1>2, <1>13 DEF FirstPairs, Free
    <3>2. FirstPairs(m) # {} => \E r, s \in FirstPairs(m) : E(P, r[2], p[2]) /\ E(T, s[1], p[1])
      <4>1. SUFFICES ASSUME FirstPairs(m) # {}
                     PROVE  \E r, s \in FirstPairs(m) : E(P, r[2], p[2]) /\ E(T, s[1], p[1])
        OBVIOUS
      <4>2. m # 0
        BY <1>2, <4>1 DEF FirstPairs
      <4>3. PICK a \in 1..m : E(P, F[a][2], p[2])
        BY <1>16, <2>1, <4>2
      <4>4. PICK b \in 1..m : E(T, F[b][1], p[1])
        BY <1>16, <2>1, <4>2
      <4>5. F[a] \in FirstPairs(m) /\ F[b] \in FirstPairs(m)
        BY DEF FirstPairs
      <4>6. QED BY <4>3, <4>4, <4>5
    <3>3. QED BY <1>13, <3>1, <3>2 DEF MayJoin
  <2>6. FirstPairs(m + 1)' \in Common[m + 1]
    <3>1. m + 1 \in 1..limit /\ (m + 1) - 1 = m /\ m \in 0..m
      BY <1>2, <1>3
    <3>2. Common[m + 1] = Larger(Common[m]) /\ FirstPairs(m) \in Common[m]
      BY <2>2, <2>3, <3>1 DEF CommonSteps
    <3> DEFINE R == FirstPairs(m)
               x == <<R, p>>
    <3>3. x \in {y \in Common[m] \X Pairs : MayJoin(y[1], y[2])}
      BY <1>2, <2>5, <3>2
    <3>5. x[1] = R /\ x[2] = p
      OBVIOUS
    <3> HIDE DEF x, R
    <3>6. x[1] \cup {x[2]} \in Larger(Common[m])
      BY <3>3 DEF Larger
    <3>7. QED BY <2>4, <3>2, <3>5, <3>6 DEF R
  <2>7. /\ m + 1 \in 0..limit /\ \A k \in 0..m : k \in 0..limit
        /\ \A k \in 0..(m + 1) : k \in 0..m \/ k = m + 1
    BY <1>2, <1>3
  <2>8. \A k \in 0..(m + 1) : FirstPairs(k)' \in Common'[k]
    BY <2>2, <2>3, <2>6, <2>7
  <2>9. Common'[maxFound'] # {}
    <3>1. CASE maxFound < j + 1
      <4>1. maxFound' = m + 1
        BY <1>2, <1>5, <2>1, <3>1
      <4>2. QED BY <2>2, <2>6, <2>7, <4>1
    <3>2. CASE ~(maxFound < j + 1)
      <4>1. maxFound' = maxFound /\ maxFound \in 0..limit
        BY <1>2, <1>5, <3>2 DEF TypeOK
      <4>2. Common[maxFound] # {}
        BY <1>0, <2>1 DEF Inv, FoundCommon
      <4>3. QED BY <2>2, <4>1, <4>2
    <3>3. QED BY <3>1, <3>2
  <2>10. QED BY <2>8, <2>9
<1>19. QED BY <1>9, <1>10, <1>11, <1>12, <1>14, <1>15, <1>17, <1>18
\* The pair that an occurrence has for the node of a call's loop.
LEMMA NextOf ==
    ASSUME TypeOK, KeepsAll, Searched, NEW d \in DOMAIN frames, d <= limit, NEW f \in Agreeing(d - 1)
    PROVE  /\ <<f[d], d>> \in frames[d].M /\ <<f[d], d>> \in Pairs
           /\ Turn(<<f[d], d>>) \in Nat /\ Turn(<<f[d], d>>) >= 1
           /\ d \in NodesOf(P) /\ f \in Occurrences /\ f \in [NodesOf(P) -> NodesOf(T)]
<1>1. /\ limit \in Nat /\ nPattern \in Nat /\ limit <= nPattern /\ NodesOf(P) = 1..nPattern
  BY GraphFacts
<1>2. DOMAIN frames = 1..Len(frames) /\ Len(frames) \in Nat
  BY StackFacts
<1>3. d \in NodesOf(P)
  BY <1>1, <1>2
<1>4. f \in Occurrences /\ f \in [NodesOf(P) -> NodesOf(T)]
  BY DEF Agreeing, Occurrences
<1>5. <<f[d], d>> \in frames[d].M
  BY <1>3 DEF KeepsAll, PairsOf
<1>6. <<f[d], d>> \in Pairs
  BY <1>3, <1>4 DEF Pairs
<1> DEFINE q == <<f[d], d>>
<1> HIDE DEF q
<1>7. Turn(q) \in Nat /\ Turn(q) >= 1
  BY <1>6, TurnFacts DEF q
<1>8. QED BY <1>3, <1>4, <1>5, <1>6, <1>7 DEF q

\* A call is done with the same occurrences while its loop and F before it stand.
LEMMA SameExplored ==
    ASSUME TypeOK, UNCHANGED <<input, option>>,
           NEW m \in Nat, \A a \in 1..m : F'[a] = F[a], NEW d \in 1..(m + 1),
           frames'[d].turn = frames[d].turn, Busy(d)' <=> Busy(d)
    PROVE  Explored(d)' = Explored(d)
<1> DEFINE k == d - 1
<1>1. k \in 0..m
  OBVIOUS
<1>2. Agreeing(k)' = Agreeing(k)
  <2> HIDE DEF k
  <2>1. QED BY <1>1, SamePrefix
<1>3. \A q : Turn(q)' = Turn(q)
  BY SameInput
<1>4. QED BY <1>2, <1>3 DEF Explored

LEMMA AssignSearch ==
    ASSUME Inv, Assign, TypeOK'
    PROVE  Filtered' /\ AtPair' /\ KeepsAll' /\ Tally' /\ ReturnsFound' /\ CountExact'
<1>00. PICK m \in Nat, p \in Pairs : m = Len(F) /\ p = Pair
  BY AssignFacts
<1>0. Inv /\ UNCHANGED <<input, option, ret>> /\ pc = "search" /\ pc' = "forward"
  BY DEF Assign
<1>1. /\ limit' = limit /\ (Searched' <=> Searched)
      /\ \A q : Turn(q)' = Turn(q)
      /\ \A f : PairsOf(f)' = PairsOf(f)
  BY <1>0, SameInput
<1>2. /\ TypeOK /\ m < limit /\ p \in Left
      /\ \A q \in Left : Turn(p) <= Turn(q)
      /\ \A a \in 1..m : F'[a] = F[a]
      /\ F'[m + 1] = p /\ Len(frames) = m + 1 /\ Len(frames') = m + 1
      /\ DOMAIN frames = 1..(m + 1) /\ DOMAIN frames' = 1..(m + 1)
      /\ \A d \in 1..(m + 1) : /\ frames'[d].M = frames[d].M
                               /\ frames'[d].ret = frames[d].ret
                               /\ frames[d] \in FrameType
      /\ \A d \in 1..m : frames'[d].turn = frames[d].turn
      /\ frames'[m + 1].turn = Turn(p)
      /\ top = frames[m + 1] /\ j = m
  BY <1>00, AssignFacts
<1>3. limit \in Nat
  BY <1>2, GraphFacts
<1>4. ASSUME NEW d \in 1..(m + 1)
      PROVE  /\ \A q : Passes(q, d)' <=> Passes(q, d)
             /\ Agreeing(d - 1)' = Agreeing(d - 1)
  <2> DEFINE k == d - 1
  <2>1. k \in 0..m /\ k + 1 = d
    OBVIOUS
  <2> HIDE DEF k
  <2>2. (\A q : Passes(q, k + 1)' <=> Passes(q, k + 1)) /\ Agreeing(k)' = Agreeing(k)
    BY <1>0, <1>2, <2>1, SamePrefix
  <2>3. QED BY <2>1, <2>2 DEF k
<1>5. Filtered'
  BY <1>0, <1>2, <1>4 DEF Inv, Filtered
<1>6. AtPair'
  <2>1. ASSUME NEW d \in 1..(m + 1) PROVE frames'[d].turn = Turn(F'[d])
    <3>1. CASE d = m + 1
      BY <1>2, <3>1
    <3>2. CASE d # m + 1
      <4>1. d \in 1..m /\ d < m + 1
        BY <3>2
      <4>2. frames[d].turn = Turn(F[d])
        BY <1>0, <1>2, <4>1 DEF Inv, AtPair, Busy
      <4>3. QED BY <1>2, <4>1, <4>2
    <3>3. QED BY <3>1, <3>2
  <2>2. QED BY <1>1, <1>2, <2>1 DEF AtPair
<1>7. KeepsAll'
  BY <1>0, <1>1, <1>2, <1>4 DEF Inv, KeepsAll
<1>8. Tally'
  <2>1. SUFFICES ASSUME Searched PROVE Counted' /\ (~option.count => NothingFound')
    BY <1>0, <1>1 DEF Tally
  <2>2. Counted /\ (~option.count => NothingFound) /\ KeepsAll
    BY <1>0, <2>1 DEF Inv, Tally
  <2>3. ~option.count => NothingFound'
    BY <1>2, <2>2 DEF NothingFound
  <2>4. ASSUME NEW d \in 1..(m + 1), d <= limit PROVE Explored(d)' = Explored(d)
    <3>1. CASE d = m + 1
      <4>1. Busy(d)' /\ ~Busy(d)
        BY <1>0, <1>2, <3>1 DEF Busy
      <4>2. /\ Explored(d)' = {f \in Agreeing(d - 1) : Turn(<<f[d], d>>) < Turn(p)}
            /\ Explored(d) = {f \in Agreeing(d - 1) : Turn(<<f[d], d>>) <= top.turn}
        BY <1>1, <1>2, <1>4, <3>1, <4>1 DEF Explored
      <4>3. ASSUME NEW f \in Agreeing(d - 1)
            PROVE  Turn(<<f[d], d>>) < Turn(p) <=> Turn(<<f[d], d>>) <= top.turn
        <5> DEFINE q == <<f[d], d>>
        <5>1. q \in top.M /\ Turn(q) \in Nat /\ q[2] = j + 1
          BY <1>2, <2>1, <2>2, <2>4, <3>1, NextOf
        <5>2. Turn(p) \in Nat /\ top.turn \in Nat
          BY <1>2, TurnFacts DEF FrameType
        <5>3. Turn(p) > top.turn
          BY <1>2 DEF Left
        <5>4. ~option.mcs
          BY <2>1 DEF Searched
        <5> HIDE DEF q
        <5>5. Turn(q) > top.turn => q \in Left
          BY <5>1, <5>4 DEF Left
        <5>6. Turn(q) > top.turn => Turn(p) <= Turn(q)
          BY <1>2, <5>5
        <5>7. Turn(q) < Turn(p) <=> Turn(q) <= top.turn
          <6> DEFINE x == Turn(q)
                     y == Turn(p)
                     z == top.turn
          <6>1. x \in Nat /\ y \in Nat /\ z \in Nat /\ y > z /\ (x > z => y <= x)
            BY <5>1, <5>2, <5>3, <5>6
          <6> HIDE DEF x, y, z
          <6>2. x < y <=> x <= z
            BY <6>1
          <6>3. QED BY <6>2 DEF x, y, z
        <5>8. QED BY <5>7 DEF q
      <4>4. QED BY <4>2, <4>3
    <3>2. CASE d # m + 1
      <4>1. d \in 1..m /\ d < m + 1
        BY <3>2
      <4>2. Busy(d)' /\ Busy(d) /\ frames'[d].turn = frames[d].turn
        BY <1>2, <4>1 DEF Busy
      <4>3. QED BY <1>0, <1>2, <4>2, SameExplored
    <3>3. QED BY <3>1, <3>2
  <2>5. Counted'
    BY <1>1, <1>2, <2>2, <2>4 DEF Counted
  <2>6. QED BY <2>3, <2>5
<1>9. ReturnsFound' /\ CountExact'
  BY <1>0 DEF ReturnsFound, CountExact
<1>10. QED BY <1>5, <1>6, <1>7, <1>8, <1>9

LEMMA AssignInv ==
    ASSUME Inv, Assign
    PROVE  Inv'
<1>1. /\ TypeOK' /\ CallPlace' /\ InOrder' /\ Marks' /\ PartialOccurrence'
      /\ Growing' /\ Grown' /\ FoundCommon'
  BY AssignAssociation
<1>2. Filtered' /\ AtPair' /\ KeepsAll' /\ Tally' /\ ReturnsFound' /\ CountExact'
  BY <1>1, AssignSearch
<1>3. QED BY <1>1, <1>2 DEF Inv
-----------------------------------------------------------------------------
(***************************************************************************)
(* Forward: the next matrix drops no pair of an occurrence that has F, and *)
(* keeps no free pair that does not fit.                                   *)
(***************************************************************************)
LEMMA ForwardFacts ==
    ASSUME Inv, pc = "forward"
    PROVE  /\ TypeOK /\ Len(F) \in Nat /\ Len(F) >= 1 /\ Len(F) <= limit /\ limit \in Nat
           /\ Len(frames) = Len(F) /\ frames \in Seq(FrameType)
           /\ DOMAIN frames = 1..Len(F) /\ DOMAIN F = 1..Len(F)
           /\ top = frames[Len(F)] /\ newest = F[Len(F)] /\ newest \in Pairs /\ j + 1 = Len(F)
           /\ \A q \in top.M : q \in Pairs /\ Passes(q, Len(F))
<1>1. /\ TypeOK /\ Len(F) \in Nat /\ Len(F) <= limit /\ limit \in Nat
      /\ Len(frames) = Len(F) /\ frames \in Seq(FrameType) /\ frames # <<>>
      /\ DOMAIN frames = 1..Len(F) /\ DOMAIN F = 1..Len(F)
      /\ \A a \in 1..Len(F) : F[a] \in Pairs /\ frames[a] \in FrameType
  BY StackFacts, GraphFacts DEF Inv, CallPlace
<1>2. Len(F) >= 1
  BY <1>1
<1>3. Len(F) \in 1..Len(F)
  BY <1>1, <1>2
<1>4. top = frames[Len(F)] /\ newest = F[Len(F)] /\ j + 1 = Len(F)
  BY <1>1 DEF top, newest, j
<1>5. \A q \in top.M : q \in Pairs /\ Passes(q, Len(F))
  BY <1>1, <1>3, <1>4 DEF Inv, Filtered, FrameType
<1>6. QED BY <1>1, <1>2, <1>3, <1>4, <1>5

LEMMA SievedPasses ==
    ASSUME Inv, pc = "forward", NEW X, NEW N,
           N = Clear \ X \/ N = Checked(Clear \ X),
           Len(F) < limit => N = Checked(Clear \ X)
    PROVE  N \subseteq Pairs /\ \A q \in N : Passes(q, Len(F) + 1)
<1>1. PICK n \in Nat : n = Len(F)
  BY ForwardFacts
<1>2. /\ TypeOK /\ n >= 1 /\ n <= limit /\ limit \in Nat /\ newest = F[n] /\ DOMAIN F = 1..n
      /\ \A q \in top.M : q \in Pairs /\ Passes(q, n)
  BY <1>1, ForwardFacts
<1>3. ASSUME NEW q \in N PROVE q \in Pairs /\ Passes(q, n + 1)
  <2>1. q \in top.M /\ (q[1] = newest[1] <=> q[2] = newest[2])
    BY DEF Checked, Clear
  <2>2. q \in Pairs /\ MayMatch(q) /\ Clears(q, n - 1)
        /\ (n <= limit /\ Free(q, n - 1) => Fits(q, n - 1))
    BY <1>2, <2>1 DEF Passes
  <2>3. \A a \in 1..n : a \in 1..(n - 1) \/ a = n
    BY <1>2
  <2>4. Clears(q, n)
    BY <1>2, <2>1, <2>2, <2>3 DEF Clears
  <2>5. ASSUME n + 1 <= limit, Free(q, n) PROVE Fits(q, n)
    <3>1. Len(F) < limit
      BY <1>1, <1>2, <2>5
    <3>2. Unassigned(q) => Compatible(q, newest)
      BY <3>1 DEF Checked
    <3>3. q[1] \notin Assigned(1) /\ q[2] \notin Assigned(2)
      BY <1>2, <2>5 DEF Assigned, AssignedBy, Free
    <3>4. /\ q[1] \in DOMAIN assignedToTest /\ q[2] \in DOMAIN assignedPattern
          /\ assignedToTest[q[1]] \in Int /\ assignedPattern[q[2]] \in Int
      BY <1>2, <2>2 DEF TypeOK, Pairs
    <3>5. assignedToTest[q[1]] >= 1 /\ assignedPattern[q[2]] >= 1
      BY <3>3, <3>4 DEF Inv, Marks, MarkedBy
    <3>6. Compatible(q, newest)
      BY <3>2, <3>4, <3>5 DEF Unassigned
    <3>7. Free(q, n - 1)
      BY <1>2, <2>5 DEF Free
    <3>8. Fits(q, n - 1)
      BY <1>2, <2>2, <3>7
    <3>9. QED BY <1>2, <2>3, <3>6, <3>8 DEF Fits
  <2>6. (n + 1) - 1 = n
    OBVIOUS
  <2>7. QED BY <2>2, <2>4, <2>5, <2>6 DEF Passes
<1>4. QED BY <1>1, <1>3

LEMMA SievedKeeps ==
    ASSUME Inv, pc = "forward", Searched, NEW stale, NEW f \in Agreeing(Len(F))
    PROVE  /\ PairsOf(f) \subseteq Clear \ Forbidden(stale)
           /\ PairsOf(f) \subseteq Checked(Clear \ Forbidden(stale))
<1>1. PICK n \in Nat : n = Len(F)
  BY ForwardFacts
<1>2. /\ TypeOK /\ n >= 1 /\ newest = F[n] /\ top = frames[n] /\ n \in DOMAIN frames
      /\ newest \in Pairs /\ newest[2] \in NodesOf(P)
  BY <1>1, ForwardFacts DEF Pairs
<1>3. /\ f \in Occurrences /\ f[newest[2]] = newest[1] /\ f \in Agreeing(n - 1)
  BY <1>1, <1>2 DEF Agreeing
<1>4. /\ f \in [NodesOf(P) -> NodesOf(T)]
      /\ \A a, b \in NodesOf(P) : f[a] = f[b] => a = b
      /\ \A l, m \in NodesOf(P) :
            IF option.onlyInduced THEN E(P, l, m) <=> E(T, f[l], f[m])
                                  ELSE E(P, l, m) => E(T, f[l], f[m])
  BY <1>3 DEF Occurrences, IsInjective
<1>5. PairsOf(f) \subseteq top.M
  BY <1>2, <1>3 DEF Inv, KeepsAll
<1>6. ASSUME NEW l \in NodesOf(P)
      PROVE  <<f[l], l>> \in Clear /\ Compatible(<<f[l], l>>, newest)
  <2>1. <<f[l], l>> \in top.M
    BY <1>5 DEF PairsOf
  <2>2. f[l] = newest[1] <=> l = newest[2]
    BY <1>2, <1>3, <1>4
  <2>3. <<f[l], l>> \in Clear
    BY <2>1, <2>2 DEF Clear
  <2>4. Compatible(<<f[l], l>>, newest)
    BY <1>2, <1>3, <1>4 DEF Compatible
  <2>5. QED BY <2>3, <2>4
<1>7. Forbidden(stale) = {}
  BY DEF Forbidden, Searched
<1>8. QED BY <1>6, <1>7 DEF PairsOf, Checked

LEMMA ForwardDown ==
    ASSUME Inv, Forward, NEW stale, NEW N, frames' = Append(frames, Frame(N)), pc' = "search",
           N = Clear \ Forbidden(stale) \/ N = Checked(Clear \ Forbidden(stale)),
           Len(F) < limit => N = Checked(Clear \ Forbidden(stale))
    PROVE  Inv'
<1>0. /\ Inv /\ UNCHANGED <<input, option, F, assignedPattern, assignedToTest, maxFound, ret>>
      /\ pc = "forward" /\ pc' = "search"
  BY DEF Forward
<1>1. PICK n \in Nat : n = Len(F)
  BY <1>0, ForwardFacts
<1>2. /\ TypeOK /\ n >= 1 /\ n <= limit /\ limit \in Nat
      /\ Len(frames) = n /\ frames \in Seq(FrameType)
      /\ DOMAIN frames = 1..n /\ DOMAIN F = 1..n
  BY <1>0, <1>1, ForwardFacts
<1>3. /\ P' = P /\ T' = T /\ limit' = limit /\ Pairs' = Pairs
      /\ nPattern' = nPattern /\ nToTest' = nToTest
      /\ \A q : Turn(q)' = Turn(q)
      /\ \A f : PairsOf(f)' = PairsOf(f)
      /\ (Searched' <=> Searched)
  BY <1>0, SameInput
<1>4. N \subseteq Pairs /\ \A q \in N : Passes(q, n + 1)
  <2> DEFINE X == Forbidden(stale)
  <2>1. /\ N = Clear \ X \/ N = Checked(Clear \ X)
        /\ Len(F) < limit => N = Checked(Clear \ X)
    OBVIOUS
  <2> HIDE DEF X
  <2>2. QED BY <1>0, <1>1, <2>1, SievedPasses
<1> DEFINE fr == Frame(N)
<1>5. fr \in FrameType /\ fr.M = N /\ fr.turn = 0 /\ fr.ret = 0
  BY <1>4 DEF Frame, FrameType
<1> HIDE DEF fr
<1>6. /\ Len(frames') = n + 1 /\ DOMAIN frames' = 1..(n + 1) /\ frames' \in Seq(FrameType)
      /\ \A d \in 1..n : frames'[d] = frames[d]
      /\ frames'[n + 1] = fr
  <2>1. frames' = Append(frames, fr)
    BY DEF fr
  <2> HIDE DEF FrameType
  <2>2. QED BY <1>2, <1>5, <2>1, AppendProperties
<1>7. TypeOK'
  <2>1. frames' \in Seq([M : SUBSET Pairs, turn : Nat, ret : Nat])
    BY <1>6 DEF FrameType
  <2>2. Len(frames') <= limit + 1
    BY <1>2, <1>6
  <2>3. QED BY <1>0, <1>2, <1>3, <2>1, <2>2 DEF TypeOK
<1>8. /\ InOrder' /\ Marks' /\ PartialOccurrence' /\ Growing' /\ Grown' /\ FoundCommon'
      /\ \A d \in 1..(n + 1) : \A p : Passes(p, d)' <=> Passes(p, d)
      /\ \A d \in 1..(n + 1) : Agreeing(d - 1)' = Agreeing(d - 1)
  BY <1>0, <1>1, <1>7, SameAssociation
<1>9. \A d \in 1..(n + 1) : d \in 1..n \/ d = n + 1
  OBVIOUS
<1>10. Filtered'
  <2>1. ASSUME NEW d \in 1..(n + 1), NEW q \in frames'[d].M PROVE Passes(q, d)
    <3>1. CASE d \in 1..n
      BY <1>0, <1>2, <1>6, <3>1 DEF Inv, Filtered
    <3>2. CASE d = n + 1
      BY <1>4, <1>5, <1>6, <3>2
    <3>3. QED BY <1>9, <3>1, <3>2
  <2>2. QED BY <1>6, <1>8, <2>1 DEF Filtered
<1>11. AtPair'
  <2>1. ASSUME NEW d \in 1..n PROVE frames'[d].turn = Turn(F'[d])
    <3>1. Busy(d)
      BY <1>0, <1>2 DEF Busy
    <3>2. QED BY <1>0, <1>2, <1>6, <3>1 DEF Inv, AtPair
  <2>2. ~Busy(n + 1)'
    BY <1>0, <1>6 DEF Busy
  <2>3. QED BY <1>0, <1>3, <1>6, <1>9, <2>1, <2>2 DEF AtPair
<1>12. KeepsAll'
  <2>1. SUFFICES ASSUME Searched, NEW d \in 1..(n + 1), NEW f \in Agreeing(d - 1)
                 PROVE  PairsOf(f) \subseteq frames'[d].M
    BY <1>3, <1>6, <1>8 DEF KeepsAll
  <2>2. CASE d \in 1..n
    BY <1>0, <1>2, <1>6, <2>1, <2>2 DEF Inv, KeepsAll
  <2>3. CASE d = n + 1
    <3>1. f \in Agreeing(Len(F))
      <4>1. (n + 1) - 1 = Len(F)
        BY <1>1
      <4>2. QED BY <2>3, <4>1
    <3>2. PairsOf(f) \subseteq N
      BY <1>0, <2>1, <3>1, SievedKeeps
    <3>3. QED BY <1>5, <1>6, <2>3, <3>2
  <2>4. QED BY <1>9, <2>2, <2>3
<1>13. Tally'
  <2>1. SUFFICES ASSUME Searched PROVE Counted' /\ (~option.count => NothingFound')
    BY <1>0, <1>3 DEF Tally
  <2>2. Counted /\ (~option.count => NothingFound)
    BY <1>0, <2>1 DEF Inv, Tally
  <2>3. ~option.count => NothingFound'
    BY <1>2, <1>5, <1>6, <1>9, <2>2 DEF NothingFound
  <2>4. ASSUME NEW d \in 1..(n + 1), d <= limit
        PROVE  frames'[d].ret = Cardinality(Explored(d)')
    <3>1. CASE d \in 1..n
      <4>1. Busy(d) /\ Busy(d)'
        BY <1>0, <1>2, <1>6, <3>1 DEF Busy
      <4>2. frames'[d].turn = frames[d].turn /\ frames'[d].ret = frames[d].ret
            /\ \A a \in 1..n : F'[a] = F[a]
        BY <1>0, <1>6, <3>1
      <4>3. Explored(d)' = Explored(d)
        BY <1>0, <1>2, <4>1, <4>2, SameExplored
      <4>4. frames[d].ret = Cardinality(Explored(d))
        BY <1>2, <2>2, <2>4, <3>1 DEF Counted
      <4>5. QED BY <4>2, <4>3, <4>4
    <3>2. CASE d = n + 1
      <4>1. ~Busy(d)' /\ frames'[d].turn = 0 /\ frames'[d].ret = 0
        BY <1>0, <1>5, <1>6, <3>2 DEF Busy
      <4>2. ASSUME NEW f \in Agreeing(d - 1)
            PROVE  Turn(<<f[d], d>>) \in Nat /\ Turn(<<f[d], d>>) >= 1
        <5> DEFINE q == <<f[d], d>>
        <5>1. d \in NodesOf(P)
          BY <1>2, <2>4, <3>2, GraphFacts
        <5>2. f \in [NodesOf(P) -> NodesOf(T)]
          BY DEF Agreeing, Occurrences
        <5>3. q \in Pairs
          BY <5>1, <5>2 DEF Pairs
        <5> HIDE DEF q
        <5>4. Turn(q) \in Nat /\ Turn(q) >= 1
          BY <1>2, <5>3, TurnFacts
        <5>5. QED BY <5>4 DEF q
      <4>3. \A f \in Agreeing(d - 1)' : Turn(<<f[d], d>>)' \in Nat /\ Turn(<<f[d], d>>)' >= 1
        BY <1>3, <1>8, <4>2
      <4>4. Explored(d)' = {}
        <5>1. Explored(d)' = {f \in Agreeing(d - 1)' : Turn(<<f[d], d>>)' <= 0}
          BY <4>1 DEF Explored
        <5>2. QED BY <4>3, <5>1
      <4>5. QED BY <4>1, <4>4, FS_EmptySet
    <3>3. QED BY <1>9, <3>1, <3>2
  <2>5. Counted'
    BY <1>3, <1>6, <2>4 DEF Counted
  <2>6. QED BY <2>3, <2>5
<1>14. CallPlace'
  <2>1. limit > 0 /\ (option.mcs \/ nPattern <= nToTest)
    <3>1. frames # <<>>
      BY <1>2
    <3>2. QED BY <1>0, <3>1 DEF Inv, CallPlace
  <2>2. Len(frames') = Len(F') + 1
    BY <1>0, <1>1, <1>6
  <2>3. QED BY <1>0, <1>3, <2>1, <2>2 DEF CallPlace
<1>15. ReturnsFound' /\ CountExact'
  BY <1>0 DEF ReturnsFound, CountExact
<1>16. QED
  BY <1>7, <1>8, <1>10, <1>11, <1>12, <1>13, <1>14, <1>15 DEF Inv

LEMMA ForwardBack ==
    ASSUME Inv, Forward, NEW stale, UNCHANGED frames, pc' = "undo",
           Len(F) < limit, ~Promising(Checked(Clear \ Forbidden(stale)))
    PROVE  Inv'
<1>0. /\ Inv /\ UNCHANGED <<input, option, F, assignedPattern, assignedToTest, maxFound, ret>>
      /\ pc = "forward" /\ pc' = "undo"
  BY DEF Forward
<1>1. PICK n \in Nat : n = Len(F)
  BY <1>0, ForwardFacts
<1>2. /\ TypeOK /\ n >= 1 /\ n < limit /\ limit \in Nat
      /\ Len(frames) = n /\ frames \in Seq(FrameType)
      /\ DOMAIN frames = 1..n /\ DOMAIN F = 1..n /\ newest = F[n] /\ newest \in Pairs
  BY <1>0, <1>1, ForwardFacts
<1>3. /\ P' = P /\ T' = T /\ limit' = limit /\ Pairs' = Pairs
      /\ nPattern' = nPattern /\ nToTest' = nToTest
      /\ \A q : Turn(q)' = Turn(q)
      /\ \A f : PairsOf(f)' = PairsOf(f)
      /\ (Searched' <=> Searched)
  BY <1>0, SameInput
<1>4. TypeOK'
  BY <1>0, <1>2, <1>3 DEF TypeOK
<1>5. /\ InOrder' /\ Marks' /\ PartialOccurrence' /\ Growing' /\ Grown' /\ FoundCommon'
      /\ \A d \in 1..(n + 1) : \A p : Passes(p, d)' <=> Passes(p, d)
      /\ \A d \in 1..(n + 1) : Agreeing(d - 1)' = Agreeing(d - 1)
  BY <1>0, <1>1, <1>4, SameAssociation
<1>6. \A d \in 1..n : d \in 1..(n + 1)
  OBVIOUS
<1>7. Filtered' /\ KeepsAll'
  BY <1>0, <1>2, <1>3, <1>5, <1>6 DEF Inv, Filtered, KeepsAll
<1>8. \A d \in 1..n : Busy(d) /\ (Busy(d)' <=> d < n)
  BY <1>0, <1>2 DEF Busy
<1>9. AtPair'
  BY <1>0, <1>2, <1>3, <1>8 DEF Inv, AtPair
<1>10. Tally'
  <2>1. SUFFICES ASSUME Searched PROVE Counted' /\ (~option.count => NothingFound')
    BY <1>0, <1>3 DEF Tally
  <2>2. Counted /\ (~option.count => NothingFound)
    BY <1>0, <2>1 DEF Inv, Tally
  <2>3. ~option.count => NothingFound'
    BY <1>0, <2>2 DEF NothingFound
  <2>4. ASSUME NEW d \in 1..n PROVE Explored(d)' = Explored(d)
    <3>1. CASE d # n
      <4>1. (Busy(d)' <=> Busy(d)) /\ frames'[d].turn = frames[d].turn
        BY <1>0, <1>8, <3>1
      <4>2. d \in 1..(n + 1) /\ \A a \in 1..n : F'[a] = F[a]
        BY <1>0
      <4>3. QED BY <1>0, <1>2, <4>1, <4>2, SameExplored
    <3>2. CASE d = n
      <4>1. /\ Explored(d)' = {f \in Agreeing(d - 1) : Turn(<<f[d], d>>) <= frames[d].turn}
            /\ Explored(d) = {f \in Agreeing(d - 1) : Turn(<<f[d], d>>) < frames[d].turn}
        BY <1>0, <1>3, <1>5, <1>6, <1>8, <3>2 DEF Explored
      <4>2. frames[d].turn = Turn(F[d]) /\ F[d] \in Pairs /\ F[d][2] = d
        BY <1>0, <1>2, <1>8, <2>1, <3>2 DEF Inv, AtPair, InOrder, Searched
      <4>3. ASSUME NEW f \in Agreeing(d - 1)
            PROVE  /\ Turn(<<f[d], d>>) \in Nat /\ Turn(F[d]) \in Nat
                   /\ Turn(<<f[d], d>>) # Turn(F[d])
        <5> DEFINE q == <<f[d], d>>
                   p == F[d]
        <5>1. d \in NodesOf(P)
          BY <1>2, <3>2, GraphFacts
        <5>2. f \in [NodesOf(P) -> NodesOf(T)] /\ f \in Occurrences
          BY DEF Agreeing, Occurrences
        <5>3. q \in Pairs /\ q[1] = f[d] /\ q[2] = d /\ p \in Pairs /\ p[2] = d
          BY <4>2, <5>1, <5>2 DEF Pairs
        <5> HIDE DEF q, p
        <5>4. Turn(q) \in Nat /\ Turn(p) \in Nat /\ (Turn(q) = Turn(p) => q = p)
          BY <1>2, <5>3, TurnFacts
        <5>5. ASSUME q = p PROVE FALSE
          <6>1. f[F[d][2]] = F[d][1]
            BY <4>2, <5>3, <5>5 DEF p
          <6>2. \A a \in 1..(d - 1) : f[F[a][2]] = F[a][1]
            BY DEF Agreeing
          <6>3. \A a \in 1..d : a \in 1..(d - 1) \/ a = d
            BY <3>2, <1>2
          <6>4. f \in Agreeing(Len(F))
            BY <1>1, <3>2, <5>2, <6>1, <6>2, <6>3 DEF Agreeing
          <6>5. PairsOf(f) \subseteq Checked(Clear \ Forbidden(stale))
            BY <1>0, <2>1, <6>4, SievedKeeps
          <6> DEFINE M == Checked(Clear \ Forbidden(stale))
          <6>6. ASSUME NEW l \in (newest[2] + 1)..nPattern
                PROVE  \E i \in NodesOf(T) : <<i, l>> \in M
            <7>1. l \in NodesOf(P)
              <8>1. newest[2] \in Nat /\ nPattern \in Nat /\ NodesOf(P) = 1..nPattern
                BY <1>2, <4>2, <3>2, GraphFacts
              <8>2. QED BY <8>1
            <7>2. <<f[l], l>> \in M /\ f[l] \in NodesOf(T)
              BY <5>2, <6>5, <7>1 DEF PairsOf
            <7>3. QED BY <7>2
          <6>7. Promising(M)
            BY <2>1, <6>6 DEF Promising, Searched
          <6>8. QED BY <6>7
        <5>6. QED BY <5>4, <5>5 DEF q, p
      <4>4. QED BY <4>1, <4>2, <4>3
    <3>3. QED BY <3>1, <3>2
  <2>5. Counted'
    BY <1>0, <1>2, <1>3, <2>2, <2>4 DEF Counted
  <2>6. QED BY <2>3, <2>5
<1>11. CallPlace'
  BY <1>0, <1>3 DEF Inv, CallPlace
<1>12. ReturnsFound' /\ CountExact'
  BY <1>0 DEF ReturnsFound, CountExact
<1>13. QED
  BY <1>4, <1>5, <1>7, <1>9, <1>10, <1>11, <1>12 DEF Inv

LEMMA ForwardInv ==
    ASSUME Inv, Forward
    PROVE  Inv'
<1>1. /\ Len(F) \in Nat /\ limit \in Nat /\ j + 1 = Len(F)
  BY ForwardFacts DEF Forward
<1>2. PICK stale \in Stales :
          LET Mp == Clear \ Forbidden(stale)
          IN  IF j + 1 >= limit
              THEN pc' = "search" /\ frames' = Append(frames, Frame(Mp))
              ELSE IF Promising(Checked(Mp))
              THEN pc' = "search" /\ frames' = Append(frames, Frame(Checked(Mp)))
              ELSE pc' = "undo" /\ UNCHANGED frames
  BY DEF Forward
<1> DEFINE Mp == Clear \ Forbidden(stale)
<1>3. CASE j + 1 >= limit
  <2>1. pc' = "search" /\ frames' = Append(frames, Frame(Mp)) /\ ~(Len(F) < limit)
    BY <1>1, <1>2, <1>3
  <2>2. QED BY <2>1, ForwardDown
<1>4. CASE ~(j + 1 >= limit) /\ Promising(Checked(Mp))
  <2>1. pc' = "search" /\ frames' = Append(frames, Frame(Checked(Mp)))
    BY <1>2, <1>4
  <2>2. QED BY <2>1, ForwardDown
<1>5. CASE ~(j + 1 >= limit) /\ ~Promising(Checked(Mp))
  <2>1. pc' = "undo" /\ UNCHANGED frames /\ Len(F) < limit
    BY <1>1, <1>2, <1>5
  <2>2. QED BY <1>5, <2>1, ForwardBack
<1>6. QED BY <1>3, <1>4, <1>5
-----------------------------------------------------------------------------
(***************************************************************************)
(* Return: a call that is done with all the pairs of its loop is done with *)
(* all the occurrences that extend F.                                      *)
(***************************************************************************)
LEMMA OccurrencesFinite == TypeOK => IsFiniteSet(Occurrences)
<1> SUFFICES ASSUME TypeOK PROVE IsFiniteSet(Occurrences)
  OBVIOUS
<1> DEFINE A == NodesOf(T)
           B == NodesOf(P)
           Q == A \X B
           h == [f \in Occurrences |-> PairsOf(f)]
<1>1. IsFiniteSet(Q)
  <2>1. /\ A = 1..nToTest /\ B = 1..nPattern /\ 1 \in Int /\ nToTest \in Int /\ nPattern \in Int
    BY GraphFacts
  <2>2. IsFiniteSet(A) /\ IsFiniteSet(B)
    BY <2>1, FS_Interval
  <2> HIDE DEF A, B
  <2>3. QED BY <2>2, FS_Product
<1>2. \A f \in Occurrences : f \in [B -> A]
  BY DEF Occurrences
<1>3. \A f \in Occurrences : h[f] \in SUBSET Q
  BY <1>2 DEF PairsOf
<1>4. ASSUME NEW f \in Occurrences, NEW g \in Occurrences, h[f] = h[g] PROVE f = g
  <2>1. f \in [B -> A] /\ g \in [B -> A] /\ PairsOf(f) = PairsOf(g)
    BY <1>2, <1>4
  <2>2. ASSUME NEW l \in B PROVE f[l] = g[l]
    <3>1. <<f[l], l>> \in PairsOf(g)
      BY <2>1 DEF PairsOf
    <3>2. PICK m \in B : <<f[l], l>> = <<g[m], m>>
      BY <3>1 DEF PairsOf
    <3>3. QED BY <3>2
  <2>3. f = [l \in B |-> f[l]] /\ g = [l \in B |-> g[l]]
    BY <2>1
  <2> HIDE DEF B
  <2>4. QED BY <2>2, <2>3
<1> DEFINE S == Occurrences
           U == SUBSET Q
<1>5. h \in Injection(S, U)
  <2>1. h \in [S -> U]
    BY <1>3
  <2>2. \A f, g \in S : h[f] = h[g] => f = g
    BY <1>4
  <2>3. DOMAIN h = S
    OBVIOUS
  <2> HIDE DEF h, S, U
  <2>4. QED BY <2>1, <2>2, <2>3 DEF Injection, IsInjective
<1> HIDE DEF Q
<1>6. IsFiniteSet(U)
  BY <1>1, FS_SUBSET
<1> HIDE DEF h, S, U
<1>7. IsFiniteSet(S)
  BY <1>5, <1>6, FS_Injection
<1>8. QED BY <1>7 DEF S

\* A complete association is the one occurrence that extends it.
LEMMA LeafFound ==
    ASSUME Inv, Searched, Len(F) = limit, nPattern <= nToTest
    PROVE  \E f \in Occurrences : Agreeing(limit) = {f}
<1>1. /\ TypeOK /\ limit \in Nat /\ NodesOf(P) = 1..limit /\ DOMAIN F = 1..limit
      /\ \A a \in 1..limit : F[a] \in Pairs /\ F[a][1] \in NodesOf(T) /\ F[a][2] = a
      /\ \A a \in 1..limit : F[a] = <<F[a][1], a>>
  <2>1. TypeOK /\ limit \in Nat /\ NodesOf(P) = 1..limit
    BY GraphFacts DEF Inv
  <2>2. DOMAIN F = 1..limit /\ \A a \in 1..limit : F[a] \in Pairs
    BY <2>1, StackFacts
  <2>3. \A a \in 1..limit : F[a][2] = a
    BY <2>2 DEF Inv, InOrder, Searched
  <2>4. \A a \in 1..limit : F[a][1] \in NodesOf(T) /\ F[a] = <<F[a][1], F[a][2]>>
    BY <2>2 DEF Pairs
  <2>5. QED BY <2>1, <2>2, <2>3, <2>4
<1> DEFINE f == [l \in NodesOf(P) |-> F[l][1]]
<1>2. f \in [NodesOf(P) -> NodesOf(T)]
  BY <1>1
<1>3. ASSUME NEW l \in NodesOf(P), NEW m \in NodesOf(P), l # m
      PROVE  /\ f[l] # f[m]
             /\ IF option.onlyInduced THEN E(P, l, m) <=> E(T, f[l], f[m])
                                      ELSE E(P, l, m) => E(T, f[l], f[m])
  <2>1. F[l][1] # F[m][1] /\ Joined(F[l], F[m])
    BY <1>1, <1>3 DEF Inv, PartialOccurrence
  <2>2. F[l][2] = l /\ F[m][2] = m
    BY <1>1
  <2>3. QED BY <2>1, <2>2 DEF Joined
<1>4. ASSUME NEW l \in NodesOf(P)
      PROVE  ~E(P, l, l) /\ ~E(T, f[l], f[l]) /\ MayMatch(<<f[l], l>>)
  <2>1. ~E(P, l, l) /\ ~E(T, f[l], f[l])
    BY <1>2 DEF Searched, Simple
  <2>2. MayMatch(F[l]) /\ F[l] = <<F[l][1], l>>
    BY <1>1 DEF Inv, PartialOccurrence
  <2>3. QED BY <2>1, <2>2
<1>5. f \in Occurrences
  <2>1. \A l, m \in NodesOf(P) :
            IF option.onlyInduced THEN E(P, l, m) <=> E(T, f[l], f[m])
                                  ELSE E(P, l, m) => E(T, f[l], f[m])
    BY <1>3, <1>4
  <2>2. IsInjective(f)
    <3>1. \A l, m \in NodesOf(P) : f[l] = f[m] => l = m
      BY <1>3
    <3>2. DOMAIN f = NodesOf(P)
      OBVIOUS
    <3> HIDE DEF f
    <3>3. QED BY <3>1, <3>2 DEF IsInjective
  <2> HIDE DEF f
  <2>3. QED BY <1>2, <1>4, <2>1, <2>2 DEF Occurrences
<1>6. f \in Agreeing(limit)
  BY <1>1, <1>5 DEF Agreeing
<1>7. ASSUME NEW g \in Agreeing(limit) PROVE g = f
  <2>1. \A l \in NodesOf(P) : g[l] = F[l][1]
    BY <1>1 DEF Agreeing
  <2>2. g \in [NodesOf(P) -> NodesOf(T)]
    BY DEF Agreeing, Occurrences
  <2>3. QED BY <2>1, <2>2
<1> HIDE DEF f
<1>8. QED BY <1>5, <1>6, <1>7

\* What a call returns: the number of occurrences that extend F.
LEMMA ValueCounts ==
    ASSUME Inv, Searched, pc = "search", j >= limit \/ Left = {}
    PROVE  /\ Value = Cardinality(Agreeing(j))
           /\ Value # 0 => Occurrences # {}
<1>1. /\ TypeOK /\ limit \in Nat /\ Len(F) \in Nat /\ Len(F) <= limit
      /\ Len(frames) = Len(F) + 1 /\ j = Len(F) /\ top = frames[j + 1]
      /\ DOMAIN frames = 1..(j + 1) /\ top \in FrameType
  <2>1. /\ TypeOK /\ limit \in Nat /\ Len(F) \in Nat /\ Len(F) <= limit
        /\ Len(frames) = Len(F) + 1 /\ DOMAIN frames = 1..Len(frames)
        /\ \A d \in 1..Len(frames) : frames[d] \in FrameType
    BY GraphFacts, StackFacts DEF Inv, CallPlace
  <2>2. Len(frames) \in 1..Len(frames)
    BY <2>1
  <2>3. QED BY <2>1, <2>2 DEF j, top
<1>2. IsFiniteSet(Agreeing(j)) /\ Agreeing(j) \subseteq Occurrences
  <2> DEFINE A == Agreeing(j)
  <2>1. A \in SUBSET Occurrences
    BY DEF Agreeing
  <2> HIDE DEF A
  <2>2. IsFiniteSet(A)
    BY <1>1, <2>1, OccurrencesFinite, FS_Subset
  <2>3. QED BY <2>1, <2>2 DEF A
<1>3. CASE j >= limit
  <2>1. Value = 1 /\ j = limit /\ Len(F) = limit
    BY <1>1, <1>3 DEF Value
  <2>2. nPattern <= nToTest
    <3>1. frames # <<>>
      BY <1>1
    <3>2. QED BY <3>1 DEF Inv, CallPlace, Searched
  <2>3. PICK f \in Occurrences : Agreeing(limit) = {f}
    BY <2>1, <2>2, LeafFound
  <2>4. Cardinality({f}) = 1
    BY FS_Singleton
  <2>5. QED BY <2>1, <2>3, <2>4
<1>4. CASE ~(j >= limit)
  <2>1. Value = top.ret /\ Left = {} /\ j + 1 <= limit /\ j + 1 \in DOMAIN frames
    BY <1>1, <1>4 DEF Value
  <2>2. top.ret = Cardinality(Explored(j + 1))
    BY <1>1, <2>1 DEF Inv, Tally, Counted
  <2>3. (j + 1) - 1 = j /\ ~Busy(j + 1)
    BY <1>1 DEF Busy
  <2>4. Explored(j + 1) = {f \in Agreeing(j) : Turn(<<f[j + 1], j + 1>>) <= top.turn}
    BY <1>1, <2>3 DEF Explored
  <2>5. ASSUME NEW f \in Agreeing(j) PROVE Turn(<<f[j + 1], j + 1>>) <= top.turn
    <3> DEFINE d == j + 1
               q == <<f[d], d>>
    <3>1. /\ d \in DOMAIN frames /\ d <= limit /\ f \in Agreeing(d - 1) /\ frames[d] = top
          /\ q[2] = j + 1
      BY <1>1, <2>1, <2>3
    <3>2. TypeOK /\ KeepsAll
      BY <1>1 DEF Inv
    <3> HIDE DEF d
    <3>3. q \in top.M /\ Turn(q) \in Nat
      BY <3>1, <3>2, NextOf
    <3> HIDE DEF q
    <3>4. ~(Turn(q) > top.turn)
      BY <2>1, <3>1, <3>3 DEF Left, Searched
    <3>5. top.turn \in Nat
      BY <1>1 DEF FrameType
    <3>6. Turn(q) <= top.turn
      <4> DEFINE x == Turn(q)
                 y == top.turn
      <4>1. x \in Nat /\ y \in Nat /\ ~(x > y)
        BY <3>3, <3>4, <3>5
      <4> HIDE DEF x, y
      <4>2. x <= y
        BY <4>1
      <4>3. QED BY <4>2 DEF x, y
    <3>7. QED BY <3>6 DEF q, d
  <2>6. Explored(j + 1) = Agreeing(j)
    BY <2>4, <2>5
  <2>7. Value = Cardinality(Agreeing(j))
    BY <2>1, <2>2, <2>6
  <2>8. Agreeing(j) # {} => Occurrences # {}
    BY <1>2
  <2>9. Value # 0 => Agreeing(j) # {}
    BY <2>7, FS_EmptySet
  <2>10. QED BY <2>7, <2>8, <2>9
<1>5. QED BY <1>3, <1>4

\* A call that is done with the pair F[d] is done with the occurrences that have it.
LEMMA TurnTaken ==
    ASSUME Inv, Searched, NEW d \in DOMAIN frames, d \in DOMAIN F, frames[d].turn = Turn(F[d])
    PROVE  LET before == {f \in Agreeing(d - 1) : Turn(<<f[d], d>>) < frames[d].turn}
               after == {f \in Agreeing(d - 1) : Turn(<<f[d], d>>) <= frames[d].turn}
           IN  /\ IsFiniteSet(before) /\ IsFiniteSet(Agreeing(d))
               /\ Cardinality(after) = Cardinality(before) + Cardinality(Agreeing(d))
<1> DEFINE before == {f \in Agreeing(d - 1) : Turn(<<f[d], d>>) < frames[d].turn}
           after == {f \in Agreeing(d - 1) : Turn(<<f[d], d>>) <= frames[d].turn}
           now == Agreeing(d)
<1>1. /\ TypeOK /\ limit \in Nat /\ Len(F) \in Nat /\ Len(F) <= limit /\ DOMAIN F = 1..Len(F)
      /\ F[d] \in Pairs /\ F[d][2] = d
  <2>1. /\ TypeOK /\ limit \in Nat /\ Len(F) \in Nat /\ Len(F) <= limit /\ DOMAIN F = 1..Len(F)
        /\ F[d] \in Pairs
    BY GraphFacts, StackFacts DEF Inv
  <2>2. F[d][2] = d
    BY DEF Inv, InOrder, Searched
  <2>3. QED BY <2>1, <2>2
<1>2. d \in Nat /\ d >= 1 /\ d <= limit
  BY <1>1
<1>3. ASSUME NEW f \in Agreeing(d - 1)
      PROVE  /\ Turn(<<f[d], d>>) \in Nat /\ Turn(F[d]) \in Nat
             /\ Turn(<<f[d], d>>) = Turn(F[d]) <=> f[d] = F[d][1]
             /\ f[d] = F[d][1] <=> f \in Agreeing(d)
  <2> DEFINE q == <<f[d], d>>
             p == F[d]
  <2>1. q \in Pairs /\ q[2] = p[2] /\ q[1] = f[d] /\ p \in Pairs /\ p = <<p[1], p[2]>> /\ q = <<q[1], q[2]>>
    <3>1. KeepsAll
      BY DEF Inv
    <3>2. q \in Pairs
      BY <1>1, <1>2, <3>1, NextOf
    <3>3. QED BY <1>1, <3>2 DEF Pairs
  <2>2. f[d] = p[1] <=> f \in Agreeing(d)
    <3>1. \A a \in 1..d : a \in 1..(d - 1) \/ a = d
      BY <1>2
    <3>2. d \in 1..d
      BY <1>2
    <3>3. QED BY <1>1, <3>1, <3>2 DEF Agreeing
  <2> HIDE DEF q, p
  <2>3. Turn(q) \in Nat /\ Turn(p) \in Nat /\ (Turn(q) = Turn(p) <=> q = p)
    BY <1>1, <2>1, TurnFacts
  <2>4. q = p <=> q[1] = p[1]
    BY <2>1
  <2>5. (Turn(q) = Turn(p) <=> f[d] = p[1]) /\ Turn(q) \in Nat /\ Turn(p) \in Nat
    BY <2>1, <2>3, <2>4
  <2>6. QED BY <2>2, <2>5 DEF q, p
<1>4. Agreeing(d) \subseteq Agreeing(d - 1)
  BY <1>2 DEF Agreeing
<1>5. after = before \cup now /\ before \cap now = {}
  <2>1. ASSUME NEW f \in Agreeing(d - 1)
        PROVE  /\ Turn(<<f[d], d>>) <= frames[d].turn <=>
                      Turn(<<f[d], d>>) < frames[d].turn \/ f \in Agreeing(d)
               /\ ~(Turn(<<f[d], d>>) < frames[d].turn /\ f \in Agreeing(d))
    <3> DEFINE x == Turn(<<f[d], d>>)
               y == frames[d].turn
    <3>1. x \in Nat /\ y \in Nat /\ (x = y <=> f \in Agreeing(d))
      BY <1>3
    <3> HIDE DEF x, y
    <3>2. (x <= y <=> x < y \/ f \in Agreeing(d)) /\ ~(x < y /\ f \in Agreeing(d))
      BY <3>1
    <3>3. QED BY <3>2 DEF x, y
  <2>2. QED BY <1>4, <2>1
<1>6. IsFiniteSet(before) /\ IsFiniteSet(now)
  <2>1. before \in SUBSET Occurrences /\ now \in SUBSET Occurrences
    BY DEF Agreeing
  <2> HIDE DEF before, now
  <2>2. QED BY <1>1, <2>1, OccurrencesFinite, FS_Subset
<1>7. Cardinality(after) = Cardinality(before) + Cardinality(now)
  <2> HIDE DEF before, after, now
  <2>1. /\ Cardinality(before \cup now) =
              Cardinality(before) + Cardinality(now) - Cardinality(before \cap now)
    BY <1>6, FS_Union
  <2>2. Cardinality({}) = 0
    BY FS_EmptySet
  <2>3. Cardinality(before) \in Nat /\ Cardinality(now) \in Nat
    BY <1>6, FS_CardinalityType
  <2>4. QED BY <1>5, <2>1, <2>2, <2>3, SMTT(30)
<1>8. QED BY <1>6, <1>7
LEMMA ReturnFacts ==
    ASSUME Inv, Return
    PROVE  /\ UNCHANGED <<input, option, F, assignedPattern, assignedToTest, maxFound>>
           /\ pc = "return" \/ (pc = "search" /\ (j >= limit \/ Left = {}))
           /\ TypeOK /\ limit \in Nat /\ j \in Nat /\ Len(F) \in Nat /\ j <= Len(F) /\ Len(F) <= limit
           /\ pc = "search" => Len(F) = j
           /\ pc = "return" => j + 1 <= Len(F) /\ ~option.count
           /\ Len(frames) = j + 1 /\ DOMAIN frames = 1..(j + 1) /\ DOMAIN F = 1..Len(F)
           /\ frames \in Seq(FrameType) /\ top = frames[j + 1] /\ Value \in Nat
           /\ \A d \in 1..(j + 1) : frames[d] \in FrameType
           /\ limit > 0 /\ (option.mcs \/ nPattern <= nToTest)
<1>1. /\ UNCHANGED <<input, option, F, assignedPattern, assignedToTest, maxFound>>
      /\ pc = "return" \/ (pc = "search" /\ (j >= limit \/ Left = {}))
  BY DEF Return
<1>2. /\ TypeOK /\ limit \in Nat /\ Len(frames) \in Nat /\ Len(F) \in Nat /\ Len(F) <= limit
      /\ DOMAIN frames = 1..Len(frames) /\ DOMAIN F = 1..Len(F) /\ frames \in Seq(FrameType)
      /\ \A d \in 1..Len(frames) : frames[d] \in FrameType
  BY GraphFacts, StackFacts DEF Inv
<1>3. /\ pc = "search" => Len(frames) = Len(F) + 1
      /\ pc = "return" => frames # <<>> /\ Len(frames) <= Len(F) /\ ~option.count
  BY DEF Inv, CallPlace
<1>4. frames # <<>>
  <2>1. CASE pc = "return"
    BY <1>3, <2>1
  <2>2. CASE pc = "search"
    BY <1>2, <1>3, <2>2
  <2>3. QED BY <1>1, <2>1, <2>2
<1>5. Len(frames) >= 1
  BY <1>2, <1>4
<1>6. j \in Nat /\ Len(frames) = j + 1 /\ top = frames[j + 1]
  BY <1>2, <1>5 DEF j, top
<1>7. top \in FrameType
  BY <1>2, <1>6
<1>8. Value \in Nat
  BY <1>7 DEF Value, FrameType
<1>9. limit > 0 /\ (option.mcs \/ nPattern <= nToTest)
  BY <1>4 DEF Inv, CallPlace
<1>10. /\ j <= Len(F) /\ (pc = "search" => Len(F) = j)
       /\ (pc = "return" => j + 1 <= Len(F) /\ ~option.count)
  <2>1. j \in Nat /\ Len(F) \in Nat /\ Len(frames) = j + 1
    BY <1>2, <1>6
  <2>2. CASE pc = "search"
    BY <1>3, <2>1, <2>2
  <2>3. CASE pc = "return"
    <3>1. Len(frames) <= Len(F) /\ ~option.count
      BY <1>3, <2>3
    <3>2. j + 1 <= Len(F) /\ j <= Len(F)
      BY <2>1, <3>1
    <3>3. QED BY <2>3, <3>1, <3>2
  <2>4. QED BY <1>1, <2>2, <2>3
<1>11. QED BY <1>1, <1>2, <1>6, <1>8, <1>9, <1>10

LEMMA ReturnToCaller ==
    ASSUME Inv, Return, j # 0
    PROVE  Inv'
<1>0. PICK n \in Nat : n = j
  BY ReturnFacts
<1>1. /\ Inv /\ UNCHANGED <<input, option, F, assignedPattern, assignedToTest, maxFound, ret>>
      /\ pc = "return" \/ (pc = "search" /\ (j >= limit \/ Left = {}))
      /\ TypeOK /\ limit \in Nat /\ n >= 1 /\ Len(F) \in Nat /\ n <= Len(F) /\ Len(F) <= limit
      /\ pc = "search" => Len(F) = n
      /\ pc = "return" => n + 1 <= Len(F) /\ ~option.count
      /\ Len(frames) = n + 1 /\ DOMAIN frames = 1..(n + 1) /\ DOMAIN F = 1..Len(F)
      /\ frames \in Seq(FrameType) /\ top = frames[n + 1] /\ Value \in Nat
      /\ \A d \in 1..(n + 1) : frames[d] \in FrameType
      /\ limit > 0 /\ (option.mcs \/ nPattern <= nToTest)
  BY <1>0, ReturnFacts DEF Return
<1>1a. /\ limit \in Nat /\ n >= 1 /\ Len(F) \in Nat /\ n <= Len(F) /\ Len(F) <= limit
       /\ Len(frames) = n + 1 /\ DOMAIN frames = 1..(n + 1) /\ DOMAIN F = 1..Len(F)
       /\ top = frames[n + 1] /\ \A d \in 1..(n + 1) : frames[d] \in FrameType
  <2>1. /\ limit \in Nat /\ j \in Nat /\ Len(F) \in Nat /\ j <= Len(F) /\ Len(F) <= limit
        /\ Len(frames) = j + 1 /\ DOMAIN frames = 1..(j + 1) /\ DOMAIN F = 1..Len(F)
        /\ top = frames[j + 1] /\ \A d \in 1..(j + 1) : frames[d] \in FrameType
    BY ReturnFacts
  <2>2. j >= 1
    BY <2>1, SMTT(30)
  <2>3. QED BY <1>0, <2>1, <2>2
<1>2. PICK value \in Nat : value = Value
  BY <1>1
<1>3. PICK total \in Nat : total = frames[n].ret + value
  <2>1. frames[n].ret \in Nat
    <3>1. n \in 1..(n + 1)
      BY <1>1a
    <3>2. frames[n] \in FrameType
      BY <1>1a, <3>1
    <3>3. QED BY <3>2 DEF FrameType
  <2>2. QED BY <2>1
<1>4. /\ frames' = [SubSeq(frames, 1, n) EXCEPT ![n].ret = total]
      /\ pc' = IF total # 0 /\ ~option.count THEN "return" ELSE "undo"
  BY <1>0, <1>2, <1>3 DEF Return
<1>5. /\ Len(frames') = n /\ DOMAIN frames' = 1..n /\ frames' \in Seq(FrameType)
      /\ \A d \in 1..n : /\ frames'[d].M = frames[d].M
                         /\ frames'[d].turn = frames[d].turn
                         /\ frames'[d].ret = IF d = n THEN total ELSE frames[d].ret
  <2> DEFINE s == SubSeq(frames, 1, n)
             fr == [frames[n] EXCEPT !.ret = total]
  <2>1. s \in Seq(FrameType) /\ Len(s) = n /\ \A d \in 1..n : s[d] = frames[d]
    <3> HIDE DEF FrameType
    <3>1. n \in 0..Len(frames)
      BY <1>1a
    <3>2. QED BY <1>1, <3>1, PrefixFacts
  <2>2. DOMAIN s = 1..n
    <3> HIDE DEF FrameType, s
    <3>1. QED BY <2>1, LenProperties
  <2>3. frames' = [s EXCEPT ![n] = fr]
    <3>1. n \in 1..n /\ s[n] = frames[n]
      BY <1>1a, <2>1
    <3> HIDE DEF s
    <3>2. frames' = [s EXCEPT ![n] = [s[n] EXCEPT !.ret = total]]
      BY <1>4, <2>2 DEF s
    <3>3. QED BY <3>1, <3>2
  <2>4. frames[n] \in FrameType
    BY <1>1a
  <2>5. /\ fr \in FrameType /\ fr.M = frames[n].M /\ fr.turn = frames[n].turn
        /\ fr.ret = total
    BY <2>4 DEF FrameType
  <2> HIDE DEF s, fr, FrameType
  <2>6. /\ DOMAIN frames' = 1..n
        /\ \A d \in 1..n : frames'[d] = IF d = n THEN fr ELSE frames[d]
    BY <2>1, <2>2, <2>3
  <2>7. \A d \in 1..n : frames'[d] \in FrameType
    BY <1>1, <2>5, <2>6
  <2>8. frames' \in Seq(FrameType) /\ Len(frames') = n
    <3>1. frames' = [d \in 1..n |-> frames'[d]]
      BY <2>2, <2>3, <2>6
    <3>2. QED BY <2>7, <3>1
  <2>9. QED BY <2>5, <2>6, <2>8, SMTT(30)
<1>6. /\ P' = P /\ T' = T /\ limit' = limit /\ Pairs' = Pairs
      /\ nPattern' = nPattern /\ nToTest' = nToTest
      /\ \A q : Turn(q)' = Turn(q)
      /\ \A f : PairsOf(f)' = PairsOf(f)
      /\ (Searched' <=> Searched) /\ Occurrences' = Occurrences
  BY <1>1, SameInput
<1>7. TypeOK'
  <2>1. frames' \in Seq([M : SUBSET Pairs, turn : Nat, ret : Nat])
    BY <1>5 DEF FrameType
  <2>2. Len(frames') <= limit + 1 /\ pc' \in {"return", "undo"}
    BY <1>1, <1>4, <1>5, SMTT(30)
  <2>3. QED BY <1>1, <1>6, <2>1, <2>2 DEF TypeOK
<1>8. /\ InOrder' /\ Marks' /\ PartialOccurrence' /\ Growing' /\ Grown' /\ FoundCommon'
      /\ \A d \in 1..(Len(F) + 1) : \A p : Passes(p, d)' <=> Passes(p, d)
      /\ \A d \in 1..(Len(F) + 1) : Agreeing(d - 1)' = Agreeing(d - 1)
  BY <1>1, <1>7, SameAssociation
<1>9. \A d \in 1..n : d \in 1..(n + 1) /\ d \in 1..(Len(F) + 1) /\ d < n + 1
  BY <1>1a, SMTT(30)
<1>10. Filtered' /\ KeepsAll'
  BY <1>1, <1>5, <1>6, <1>8, <1>9 DEF Inv, Filtered, KeepsAll
<1>11. \A d \in 1..n : frames[d].turn = Turn(F[d])
  BY <1>1, <1>9 DEF Inv, AtPair, Busy
<1>12. AtPair'
  BY <1>1, <1>5, <1>6, <1>11 DEF AtPair
<1>13. ASSUME pc = "return" PROVE value = top.ret /\ top.ret # 0
  BY <1>1, <1>2, <1>0, <1>13 DEF Value, Inv, ReturnsFound
<1>14. ASSUME pc = "return" PROVE total # 0 /\ pc' = "return"
  BY <1>1, <1>3, <1>4, <1>13, <1>14 DEF FrameType
<1>15. CallPlace'
  <2>1. frames' # <<>>
    BY <1>1a, <1>5, SMTT(30)
  <2>2. pc' = "undo" => Len(frames') = Len(F')
    BY <1>1, <1>5, <1>14
  <2>3. QED BY <1>1, <1>4, <1>5, <1>6, <2>1, <2>2 DEF CallPlace
<1>16. ReturnsFound'
  <2>1. n \in 1..n
    BY <1>1a
  <2>2. QED BY <1>4, <1>5, <2>1 DEF ReturnsFound
<1>17. CountExact'
  BY <1>4 DEF CountExact
<1>18. Tally'
  <2>1. SUFFICES ASSUME Searched
                 PROVE  /\ pc' # "return" => Counted' /\ (~option.count => NothingFound')
                        /\ pc' = "return" => /\ \A d \in 1..(n - 1) : frames'[d].ret = 0
                                             /\ frames'[n].ret = 1 /\ Occurrences # {}
    BY <1>1, <1>5, <1>6 DEF Tally
  <2>2. n \in 1..n /\ \A d \in 1..(n - 1) : d \in 1..n /\ d # n
    BY <1>1a
  <2>3. CASE pc = "return"
    <3>1. /\ \A d \in 1..n : frames[d].ret = 0
          /\ top.ret = 1 /\ Occurrences # {}
      <4>1. (n + 1) - 1 = n /\ Len(frames) = n + 1
        BY <1>1a
      <4>2. QED BY <1>1, <2>1, <2>3, <4>1 DEF Inv, Tally
    <3>2. total = 1
      BY <1>3, <1>13, <2>2, <2>3, <3>1
    <3>3. QED BY <1>5, <1>14, <2>2, <2>3, <3>1, <3>2
  <2>4. CASE pc = "search" /\ (j >= limit \/ Left = {})
    <3>1. /\ value = Cardinality(Agreeing(n)) /\ (value # 0 => Occurrences # {})
      BY <1>0, <1>2, <2>1, <2>4, ValueCounts
    <3>2. Counted /\ (~option.count => NothingFound)
      BY <1>1, <2>1, <2>4, SMTT(30) DEF Inv, Tally
    <3>3. ~option.count => \A d \in 1..(n + 1) : frames[d].ret = 0
      BY <1>1, <3>2 DEF NothingFound
    <3>4. ASSUME pc' = "return"
          PROVE  /\ \A d \in 1..(n - 1) : frames'[d].ret = 0
                 /\ frames'[n].ret = 1 /\ Occurrences # {}
      <4>1. total # 0 /\ ~option.count
        BY <1>4, <3>4
      <4>2. frames[n].ret = 0 /\ top.ret = 0
        BY <1>1a, <3>3, <4>1, <2>2
      <4>3. total = value
        BY <1>3, <4>2
      <4>4. value = 1
        BY <1>2, <4>1, <4>2, <4>3 DEF Value
      <4>5. \A d \in 1..(n - 1) : frames'[d].ret = 0
        BY <1>5, <1>9, <2>2, <3>3, <4>1
      <4>6. QED BY <1>5, <2>2, <3>1, <4>3, <4>4, <4>5
    <3>5. ASSUME pc' # "return"
          PROVE  Counted' /\ (~option.count => NothingFound')
      <4>0. pc' = "undo" /\ (~option.count => total = 0)
        BY <1>4, <3>5
      <4>1. ~option.count => NothingFound'
        BY <1>5, <1>9, <3>3, <4>0 DEF NothingFound
      <4>2. ASSUME NEW d \in 1..n, d <= limit PROVE frames'[d].ret = Cardinality(Explored(d)')
        <5>1. frames[d].ret = Cardinality(Explored(d)) /\ Busy(d)
          BY <1>1, <1>9, <3>2, <4>2 DEF Counted, Busy
        <5>2. CASE d # n
          <6>1. Busy(d)' /\ frames'[d].turn = frames[d].turn
            BY <1>5, <5>2, SMTT(30) DEF Busy
          <6>2. Explored(d)' = Explored(d)
            <7> DEFINE m == Len(F)
            <7>1. /\ m \in Nat /\ \A a \in 1..m : F'[a] = F[a]
                  /\ d \in 1..(m + 1)
              BY <1>1, <1>9
            <7>2. UNCHANGED <<input, option>>
              BY <1>1
            <7> HIDE DEF m
            <7>3. QED BY <1>1, <5>1, <6>1, <7>1, <7>2, SameExplored
          <6>3. QED BY <1>5, <5>1, <5>2, <6>2
        <5>3. CASE d = n
          <6>1. ~Busy(n)'
            BY <1>5, <4>0 DEF Busy
          <6> DEFINE before == {f \in Agreeing(n - 1) : Turn(<<f[n], n>>) < frames[n].turn}
                     after == {f \in Agreeing(n - 1) : Turn(<<f[n], n>>) <= frames[n].turn}
          <6>2. Explored(n) = before /\ Explored(n)' = after
            BY <1>5, <1>6, <1>8, <1>9, <2>2, <5>1, <5>3, <6>1 DEF Explored
          <6>3. Cardinality(after) = Cardinality(before) + Cardinality(Agreeing(n))
            <7>1. n \in DOMAIN frames /\ n \in DOMAIN F /\ frames[n].turn = Turn(F[n])
              <8>1. n \in 1..(n + 1) /\ n \in 1..Len(F)
                BY <1>1a
              <8>2. QED BY <1>1a, <1>11, <2>2, <8>1
            <7>2. QED BY <1>1, <2>1, <7>1, TurnTaken
          <6> HIDE DEF before, after
          <6>4. frames'[n].ret = total
            BY <1>5, <2>2
          <6>5. QED BY <1>3, <3>1, <5>1, <5>3, <6>2, <6>3, <6>4
        <5>4. QED BY <5>2, <5>3, SMTT(30)
      <4>3. Counted'
        BY <1>5, <1>6, <4>2 DEF Counted
      <4>4. QED BY <4>1, <4>3
    <3>6. QED BY <3>4, <3>5
  <2>5. QED BY <1>1, <2>3, <2>4, SMTT(30)
<1>19. QED
  BY <1>7, <1>8, <1>10, <1>12, <1>15, <1>16, <1>17, <1>18 DEF Inv

LEMMA ReturnAtLast ==
    ASSUME Inv, Return, j = 0
    PROVE  Inv'
<1>1. /\ Inv /\ UNCHANGED <<input, option, F, assignedPattern, assignedToTest, maxFound>>
      /\ pc = "return" \/ (pc = "search" /\ (j >= limit \/ Left = {}))
      /\ pc' = "end" /\ ret' = Value /\ frames' = <<>>
      /\ TypeOK /\ limit \in Nat /\ Value \in Nat /\ limit > 0 /\ j < limit
      /\ Len(frames) = 1 /\ DOMAIN frames = {1} /\ top = frames[1]
      /\ option.mcs \/ nPattern <= nToTest
  BY ReturnFacts DEF Return
<1>2. /\ P' = P /\ T' = T /\ limit' = limit /\ Pairs' = Pairs
      /\ nPattern' = nPattern /\ nToTest' = nToTest
      /\ (Searched' <=> Searched) /\ Occurrences' = Occurrences
  BY <1>1, SameInput
<1>3. DOMAIN frames' = {} /\ Len(frames') = 0
  BY <1>1
<1>4. TypeOK'
  <2>1. frames' \in Seq([M : SUBSET Pairs, turn : Nat, ret : Nat]) /\ Len(frames') <= limit + 1
    BY <1>1, <1>3
  <2>2. QED BY <1>1, <1>2, <2>1 DEF TypeOK
<1>5. InOrder' /\ Marks' /\ PartialOccurrence' /\ Growing' /\ Grown' /\ FoundCommon'
  BY <1>1, <1>4, SameAssociation
<1>6. Filtered' /\ AtPair' /\ KeepsAll' /\ Counted' /\ NothingFound'
  BY <1>3 DEF Filtered, AtPair, KeepsAll, Counted, NothingFound
<1>7. CallPlace' /\ ReturnsFound' /\ Tally'
  BY <1>1, <1>6 DEF CallPlace, ReturnsFound, Tally
<1>8. CountExact'
  <2>1. SUFFICES ASSUME Searched
                 PROVE  Value = IF option.count THEN Cardinality(Occurrences)
                                ELSE IF Occurrences = {} THEN 0 ELSE 1
    BY <1>1, <1>2 DEF CountExact, Searched
  <2>2. Value = top.ret
    BY <1>1 DEF Value
  <2>3. CASE pc = "return"
    <3>1. ~option.count /\ top.ret = 1 /\ Occurrences # {}
      BY <1>1, <2>1, <2>3 DEF Inv, CallPlace, Tally
    <3>2. QED BY <2>2, <3>1
  <2>4. CASE pc = "search" /\ (j >= limit \/ Left = {})
    <3>1. Value = Cardinality(Agreeing(j)) /\ (Value # 0 => Occurrences # {})
      BY <1>1, <2>1, <2>4, ValueCounts
    <3>2. Agreeing(j) = Occurrences
      <4>1. j = 0 /\ \A a : a \notin 1..0
        OBVIOUS
      <4>2. QED BY <4>1 DEF Agreeing
    <3>3. CASE option.count
      BY <3>1, <3>2, <3>3
    <3>4. CASE ~option.count
      <4>1. top.ret = 0
        BY <1>1, <2>1, <2>4, <3>4 DEF Inv, Tally, NothingFound
      <4>2. Occurrences = {}
        <5>1. Cardinality(Occurrences) = 0
          BY <2>2, <3>1, <3>2, <4>1
        <5>2. QED BY <1>1, <5>1, OccurrencesFinite, FS_EmptySet
      <4>3. QED BY <2>2, <3>4, <4>1, <4>2
    <3>5. QED BY <3>3, <3>4
  <2>5. QED BY <1>1, <2>3, <2>4
<1>9. QED BY <1>4, <1>5, <1>6, <1>7, <1>8 DEF Inv
-----------------------------------------------------------------------------
(***************************************************************************)
(* Undo: the pair leaves F, and the counters never claim more links than   *)
(* there are.                                                              *)
(***************************************************************************)
LEMMA ReleasedFacts ==
    ASSUME NEW g, WellFormed(g), NEW counter \in [DOMAIN g.children -> Int],
           NEW n \in DOMAIN g.children, NEW S, MarkedBy(counter, S \cup {n}), n \notin S
    PROVE  /\ Released(counter, g, n) \in [DOMAIN g.children -> Int]
           /\ MarkedBy(Released(counter, g, n), S)
           /\ Released(counter, g, n)[n] = IF j # 0 THEN 2 ELSE 1
           /\ option.mcs => LoweredBut(Released(counter, g, n), counter, g, n)
<1> DEFINE N == DOMAIN g.children
           kids == g.children[n]
           S1 == S \cup {n}
           c == IF option.mcs THEN Lower(counter, kids) ELSE counter
           free == IF j # 0 THEN 2 ELSE 1
<1>1. kids \in Seq(N)
  BY DEF WellFormed
<1>2. c \in [N -> Int] /\ MarkedBy(c, S1)
  <2>1. Lower(counter, kids) \in [N -> Int] /\ MarkedBy(Lower(counter, kids), S1)
    <3>1. counter \in [N -> Int] /\ MarkedBy(counter, S1)
      OBVIOUS
    <3> HIDE DEF N, kids, S1
    <3>2. QED BY <1>1, <3>1, LowerMarks
  <2>2. QED BY <2>1
<1>3. Released(counter, g, n) = [c EXCEPT ![n] = free]
  BY DEF Released
<1>4. option.mcs => c = Lower(counter, kids)
  OBVIOUS
<1>5. n \in N /\ free \in Int /\ free >= 1
  OBVIOUS
<1> HIDE DEF c, N, kids, free
<1> DEFINE r == [c EXCEPT ![n] = free]
<1>6. r \in [N -> Int] /\ MarkedBy(r, S) /\ r[n] = free /\ \A x \in N \ {n} : r[x] = c[x]
  BY <1>2, <1>5 DEF MarkedBy
<1> HIDE DEF r
<1>7. option.mcs => LoweredBut(r, counter, g, n)
  BY <1>4, <1>6 DEF LoweredBut, N, kids
<1>8. QED BY <1>3, <1>6, <1>7 DEF N, free, r

LEMMA UndoFacts ==
    ASSUME Inv, Undo
    PROVE  \E m \in Nat, p \in Pairs :
              /\ Joins(F, F', m, p) /\ newest = p /\ j = m /\ Len(F) = m + 1 /\ Len(F') = m
              /\ Len(frames) = m + 1 /\ DOMAIN frames = 1..(m + 1) /\ F' \in Seq(Pairs)
              /\ \A a \in 1..(m + 1) : F[a] \in Pairs
              /\ TypeOK /\ limit \in Nat /\ m + 1 <= limit
<1>1. pc = "undo" /\ F' = SubSeq(F, 1, Len(F) - 1)
  BY DEF Undo, Undone
<1>2. /\ TypeOK /\ limit \in Nat /\ Len(F) \in Nat /\ Len(F) <= limit /\ DOMAIN F = 1..Len(F)
      /\ F \in Seq(Pairs) /\ \A a \in 1..Len(F) : F[a] \in Pairs
      /\ DOMAIN frames = 1..Len(frames)
  BY GraphFacts, StackFacts DEF Inv
<1>3. frames # <<>> /\ Len(frames) = Len(F)
  BY <1>1 DEF Inv, CallPlace
<1>4. Len(F) >= 1
  BY <1>2, <1>3
<1> DEFINE m == Len(F) - 1
           p == F[Len(F)]
<1>5. m \in Nat /\ Len(F) = m + 1 /\ m \in 0..Len(F) /\ m + 1 \in 1..Len(F)
  BY <1>2, <1>4
<1>6. F' \in Seq(Pairs) /\ Len(F') = m /\ \A a \in 1..m : F'[a] = F[a]
  <2> HIDE DEF m
  <2>1. F' = SubSeq(F, 1, m)
    BY <1>1 DEF m
  <2>2. QED BY <1>2, <1>5, <2>1, PrefixFacts
<1>7. DOMAIN F' = 1..m
  BY <1>6, LenProperties
<1>8. Joins(F, F', m, p) /\ p \in Pairs /\ newest = p /\ j = m
  <2>1. p \in Pairs /\ newest = p
    BY <1>2, <1>5 DEF newest
  <2>2. j = m
    BY <1>3 DEF j
  <2> HIDE DEF m
  <2>3. p = F[m + 1] /\ DOMAIN F = 1..(m + 1)
    BY <1>2, <1>5
  <2>4. \A a \in 1..m : F[a] = F'[a]
    BY <1>6
  <2> HIDE DEF p
  <2>5. Joins(F, F', m, p)
    BY <1>7, <2>3, <2>4 DEF Joins
  <2>6. QED BY <2>1, <2>2, <2>5
<1> HIDE DEF m, p
<1>9. /\ Len(frames) = m + 1 /\ DOMAIN frames = 1..(m + 1)
      /\ \A a \in 1..(m + 1) : F[a] \in Pairs
      /\ m + 1 <= limit
  BY <1>2, <1>3, <1>5
<1>10. QED BY <1>2, <1>5, <1>6, <1>8, <1>9

LEMMA UndoInv ==
    ASSUME Inv, Undo
    PROVE  Inv'
<1>0. Inv /\ UNCHANGED <<input, option, frames, maxFound, ret>> /\ pc = "undo" /\ pc' = "search"
  BY DEF Undo
<1>1. PICK m \in Nat, p \in Pairs :
              /\ Joins(F, F', m, p) /\ newest = p /\ j = m /\ Len(F) = m + 1 /\ Len(F') = m
              /\ Len(frames) = m + 1 /\ DOMAIN frames = 1..(m + 1) /\ F' \in Seq(Pairs)
              /\ \A a \in 1..(m + 1) : F[a] \in Pairs
              /\ TypeOK /\ limit \in Nat /\ m + 1 <= limit
  BY UndoFacts
<1>2. /\ DOMAIN F' = 1..m /\ DOMAIN F = 1..(m + 1) /\ F[m + 1] = p
      /\ \A a \in 1..m : F'[a] = F[a]
      /\ \A a \in 1..m : a \in 1..(m + 1) /\ a # m + 1
      /\ m + 1 \in 1..(m + 1)
  BY <1>1 DEF Joins
<1>3. /\ P' = P /\ T' = T /\ limit' = limit /\ Pairs' = Pairs
      /\ nPattern' = nPattern /\ nToTest' = nToTest
      /\ \A q : MayMatch(q)' <=> MayMatch(q)
      /\ \A q, r : Joined(q, r)' <=> Joined(q, r)
      /\ \A q : Turn(q)' = Turn(q)
      /\ \A f : PairsOf(f)' = PairsOf(f)
      /\ (Searched' <=> Searched)
  BY <1>0, SameInput
<1>4. /\ NodesOf(P) = DOMAIN P.children /\ NodesOf(T) = DOMAIN T.children
      /\ WellFormed(P) /\ WellFormed(T)
      /\ p[1] \in NodesOf(T) /\ p[2] \in NodesOf(P)
      /\ assignedPattern \in [DOMAIN P.children -> Int]
      /\ assignedToTest \in [DOMAIN T.children -> Int]
  BY <1>1, Formed DEF NodesOf, Pairs, TypeOK
<1>5. /\ AssignedBy(F, 2) = AssignedBy(F', 2) \cup {p[2]}
      /\ AssignedBy(F, 1) = AssignedBy(F', 1) \cup {p[1]}
  <2> DEFINE A == F'
             B == F
  <2>1. Joins(B, A, m, p)
    BY <1>1
  <2> HIDE DEF A, B
  <2>2. /\ AssignedBy(B, 2) = AssignedBy(A, 2) \cup {p[2]}
        /\ AssignedBy(B, 1) = AssignedBy(A, 1) \cup {p[1]}
    BY <2>1, AssignedJoin
  <2>3. QED BY <2>2 DEF A, B
<1>6. p[2] \notin AssignedBy(F', 2) /\ p[1] \notin AssignedBy(F', 1)
  <2>1. \A a \in 1..m : F[a][1] # p[1] /\ F[a][2] # p[2]
    BY <1>0, <1>2 DEF Inv, PartialOccurrence
  <2>2. QED BY <1>2, <2>1 DEF AssignedBy
<1>7. /\ MarkedBy(assignedPattern, AssignedBy(F, 2)) /\ MarkedBy(assignedToTest, AssignedBy(F, 1))
      /\ assignedPattern' = Released(assignedPattern, P, p[2])
      /\ assignedToTest' = Released(assignedToTest, T, p[1])
  BY <1>0, <1>1 DEF Inv, Marks, Assigned, Undo
<1>8. /\ assignedPattern' \in [DOMAIN P.children -> Int]
      /\ MarkedBy(assignedPattern', AssignedBy(F', 2))
      /\ assignedPattern'[p[2]] = IF m # 0 THEN 2 ELSE 1
      /\ option.mcs => LoweredBut(assignedPattern', assignedPattern, P, p[2])
  <2> DEFINE g == P
             S == AssignedBy(F', 2)
             n == p[2]
             c == assignedPattern
  <2>1. /\ WellFormed(g) /\ c \in [DOMAIN g.children -> Int] /\ n \notin S
        /\ n \in DOMAIN g.children /\ MarkedBy(c, S \cup {n}) /\ assignedPattern' = Released(c, g, n)
    BY <1>4, <1>5, <1>6, <1>7
  <2> HIDE DEF g, S, n, c
  <2>2. /\ Released(c, g, n) \in [DOMAIN g.children -> Int]
        /\ MarkedBy(Released(c, g, n), S)
        /\ Released(c, g, n)[n] = IF j # 0 THEN 2 ELSE 1
        /\ option.mcs => LoweredBut(Released(c, g, n), c, g, n)
    BY <2>1, ReleasedFacts
  <2>3. QED BY <1>1, <2>1, <2>2 DEF g, S, n, c
<1>9. /\ assignedToTest' \in [DOMAIN T.children -> Int]
      /\ MarkedBy(assignedToTest', AssignedBy(F', 1))
      /\ assignedToTest'[p[1]] = IF m # 0 THEN 2 ELSE 1
      /\ option.mcs => LoweredBut(assignedToTest', assignedToTest, T, p[1])
  <2> DEFINE g == T
             S == AssignedBy(F', 1)
             n == p[1]
             c == assignedToTest
  <2>1. /\ WellFormed(g) /\ c \in [DOMAIN g.children -> Int] /\ n \notin S
        /\ n \in DOMAIN g.children /\ MarkedBy(c, S \cup {n}) /\ assignedToTest' = Released(c, g, n)
    BY <1>4, <1>5, <1>6, <1>7
  <2> HIDE DEF g, S, n, c
  <2>2. /\ Released(c, g, n) \in [DOMAIN g.children -> Int]
        /\ MarkedBy(Released(c, g, n), S)
        /\ Released(c, g, n)[n] = IF j # 0 THEN 2 ELSE 1
        /\ option.mcs => LoweredBut(Released(c, g, n), c, g, n)
    BY <2>1, ReleasedFacts
  <2>3. QED BY <1>1, <2>1, <2>2 DEF g, S, n, c
<1>10. Marks'
  BY <1>8, <1>9 DEF Marks, Assigned
<1>11. TypeOK'
  <2>1. Len(F') <= limit
    BY <1>1
  <2>2. QED BY <1>0, <1>1, <1>3, <1>4, <1>8, <1>9, <2>1 DEF TypeOK
<1>12. CallPlace' /\ ReturnsFound' /\ CountExact'
  <2>1. frames # <<>>
    BY <1>1
  <2>2. limit > 0 /\ (option.mcs \/ nPattern <= nToTest)
    BY <1>0, <2>1 DEF Inv, CallPlace
  <2>3. QED BY <1>0, <1>1, <1>3, <2>2 DEF CallPlace, ReturnsFound, CountExact
<1>13. InOrder' /\ PartialOccurrence'
  BY <1>0, <1>2, <1>3 DEF Inv, InOrder, PartialOccurrence
<1>14. ASSUME option.mcs
       PROVE  CountsLinks(assignedPattern', F', P, 2) /\ CountsLinks(assignedToTest', F', T, 1)
  <2>1. CountsLinks(assignedPattern, F, P, 2) /\ CountsLinks(assignedToTest, F, T, 1)
    BY <1>0, <1>14 DEF Inv, Growing
  <2>2. ASSUME m # 0
        PROVE  /\ \E a \in 1..m : E(P, F'[a][2], p[2])
               /\ \E a \in 1..m : E(T, F'[a][1], p[1])
    <3>1. m + 1 \in 2..Len(F) /\ (m + 1) - 1 = m
      BY <1>1, <2>2
    <3>2. /\ \E a \in 1..m : E(P, F[a][2], F[m + 1][2])
          /\ \E a \in 1..m : E(T, F[a][1], F[m + 1][1])
      BY <1>0, <1>14, <3>1 DEF Inv, Grown
    <3>3. QED BY <1>2, <3>2
  <2>3. ASSUME NEW g, WellFormed(g), NEW side, NEW a \in 1..m, E(g, F'[a][side], p[side]),
               F'[a][side] \in DOMAIN g.children
        PROVE  LinksTo(F', g, side, p[side]) # {}
    <3> DEFINE s == g.children[F'[a][side]]
    <3>1. p[side] \in Range(s)
      BY <2>3 DEF E
    <3>2. PICK k \in DOMAIN s : s[k] = p[side]
      BY <3>1 DEF Range
    <3>3. k \in Nat
      <4>1. s \in Seq(1..Len(g.children))
        BY <2>3 DEF WellFormed
      <4> HIDE DEF s
      <4>2. QED BY <3>2, <4>1, LenProperties
    <3>4. <<a, k>> \in (DOMAIN F') \X Nat
      BY <1>2, <3>3
    <3>5. <<a, k>> \in LinksTo(F', g, side, p[side])
      BY <3>2, <3>4 DEF LinksTo
    <3>6. QED BY <3>5
  <2>4. \A a \in 1..m : F'[a][2] \in DOMAIN P.children /\ F'[a][1] \in DOMAIN T.children
    BY <1>1, <1>2, <1>4 DEF Pairs
  <2>5. /\ m # 0 => LinksTo(F', P, 2, p[2]) # {}
        /\ m # 0 => LinksTo(F', T, 1, p[1]) # {}
    BY <1>4, <2>2, <2>3, <2>4
  <2>6. CountsLinks(assignedPattern', F', P, 2)
    <3> DEFINE g == P
               side == 2
               A == F'
               B == F
               old == assignedPattern
               new == assignedPattern'
    <3>1. /\ WellFormed(g) /\ Joins(B, A, m, p) /\ p[side] \in DOMAIN g.children
          /\ old \in [DOMAIN g.children -> Int] /\ MarkedBy(old, AssignedBy(B, side))
          /\ CountsLinks(old, B, g, side) /\ new \in [DOMAIN g.children -> Int]
          /\ LoweredBut(new, old, g, p[side])
          /\ new[p[side]] = 1 \/ (new[p[side]] = 2 /\ LinksTo(A, g, side, p[side]) # {})
      BY <1>1, <1>4, <1>7, <1>8, <1>14, <2>1, <2>5
    <3> HIDE DEF g, side, A, B, old, new
    <3>2. CountsLinks(new, A, g, side)
      BY <3>1, CountsLowered
    <3>3. QED BY <3>2 DEF g, side, A, new
  <2>7. CountsLinks(assignedToTest', F', T, 1)
    <3> DEFINE g == T
               side == 1
               A == F'
               B == F
               old == assignedToTest
               new == assignedToTest'
    <3>1. /\ WellFormed(g) /\ Joins(B, A, m, p) /\ p[side] \in DOMAIN g.children
          /\ old \in [DOMAIN g.children -> Int] /\ MarkedBy(old, AssignedBy(B, side))
          /\ CountsLinks(old, B, g, side) /\ new \in [DOMAIN g.children -> Int]
          /\ LoweredBut(new, old, g, p[side])
          /\ new[p[side]] = 1 \/ (new[p[side]] = 2 /\ LinksTo(A, g, side, p[side]) # {})
      BY <1>1, <1>4, <1>7, <1>9, <1>14, <2>1, <2>5
    <3> HIDE DEF g, side, A, B, old, new
    <3>2. CountsLinks(new, A, g, side)
      BY <3>1, CountsLowered
    <3>3. QED BY <3>2 DEF g, side, A, new
  <2>8. QED BY <2>6, <2>7
<1>15. Growing'
  BY <1>0, <1>3, <1>14 DEF Growing
<1>16. Grown'
  <2>1. SUFFICES ASSUME option.mcs, NEW b \in 2..m
                 PROVE  /\ \E a \in 1..(b - 1) : E(P, F'[a][2], F'[b][2])
                        /\ \E a \in 1..(b - 1) : E(T, F'[a][1], F'[b][1])
    BY <1>0, <1>1, <1>3 DEF Grown
  <2>2. b \in 2..Len(F) /\ b \in 1..m /\ \A a \in 1..(b - 1) : a \in 1..m
    BY <1>1
  <2>3. /\ \E a \in 1..(b - 1) : E(P, F[a][2], F[b][2])
        /\ \E a \in 1..(b - 1) : E(T, F[a][1], F[b][1])
    BY <1>0, <2>1, <2>2 DEF Inv, Grown
  <2>4. QED BY <1>2, <2>2, <2>3
<1>17. ASSUME NEW d \in 1..(m + 1)
       PROVE  /\ \A q : Passes(q, d)' <=> Passes(q, d)
              /\ Agreeing(d - 1)' = Agreeing(d - 1)
              /\ FirstPairs(d - 1)' = FirstPairs(d - 1)
  <2> DEFINE k == d - 1
  <2>1. k \in 0..m /\ k + 1 = d
    OBVIOUS
  <2> HIDE DEF k
  <2>2. /\ \A q : Passes(q, k + 1)' <=> Passes(q, k + 1)
        /\ Agreeing(k)' = Agreeing(k) /\ FirstPairs(k)' = FirstPairs(k)
    BY <1>0, <1>1, <1>2, <2>1, SamePrefix
  <2>3. QED BY <2>1, <2>2 DEF k
<1>18. FoundCommon'
  <2>1. SUFFICES ASSUME option.mcs
                 PROVE  /\ Common'[maxFound] # {}
                        /\ \A k \in 0..m : FirstPairs(k)' \in Common'[k]
    BY <1>0, <1>1 DEF FoundCommon
  <2>2. \A k \in 0..limit : Common'[k] = Common[k]
    BY <1>0, <1>1, <1>11, SameCommon
  <2>3. Common[maxFound] # {} /\ \A k \in 0..(m + 1) : FirstPairs(k) \in Common[k]
    BY <1>0, <1>1, <2>1 DEF Inv, FoundCommon
  <2>4. maxFound \in 0..limit
    BY <1>1 DEF TypeOK
  <2>5. ASSUME NEW k \in 0..m PROVE FirstPairs(k)' = FirstPairs(k)
    <3>1. k + 1 \in 1..(m + 1) /\ (k + 1) - 1 = k
      OBVIOUS
    <3>2. FirstPairs((k + 1) - 1)' = FirstPairs((k + 1) - 1)
      BY <1>17, <3>1
    <3>3. QED BY <3>1, <3>2
  <2>6. \A k \in 0..m : k \in 0..limit /\ k \in 0..(m + 1)
    BY <1>1
  <2>7. QED BY <2>2, <2>3, <2>4, <2>5, <2>6
<1>19. Filtered' /\ KeepsAll'
  BY <1>0, <1>1, <1>3, <1>17 DEF Inv, Filtered, KeepsAll
<1>20. \A d \in 1..(m + 1) : (Busy(d) <=> d < m + 1) /\ (Busy(d)' <=> d < m + 1)
  BY <1>0, <1>1 DEF Busy
<1>21. AtPair'
  <2>1. \A d \in 1..(m + 1) : frames[d].turn = Turn(F[d])
    BY <1>0, <1>1 DEF Inv, AtPair
  <2>2. \A d \in 1..(m + 1) : d < m + 1 => d \in 1..m
    OBVIOUS
  <2>3. QED BY <1>0, <1>1, <1>2, <1>3, <1>20, <2>1, <2>2 DEF AtPair
<1>22. Tally'
  <2>1. SUFFICES ASSUME Searched PROVE Counted' /\ (~option.count => NothingFound')
    BY <1>0, <1>3 DEF Tally
  <2>2. Counted /\ (~option.count => NothingFound)
    BY <1>0, <2>1 DEF Inv, Tally
  <2>3. ~option.count => NothingFound'
    BY <1>0, <2>2 DEF NothingFound
  <2>4. ASSUME NEW d \in 1..(m + 1) PROVE Explored(d)' = Explored(d)
    <3>1. (Busy(d)' <=> Busy(d)) /\ frames'[d].turn = frames[d].turn
      BY <1>0, <1>20
    <3>2. QED BY <1>0, <1>1, <1>2, <3>1, SameExplored
  <2>5. Counted'
    BY <1>0, <1>1, <1>3, <2>2, <2>4 DEF Counted
  <2>6. QED BY <2>3, <2>5
<1>23. QED
  BY <1>10, <1>11, <1>12, <1>13, <1>15, <1>16, <1>18, <1>19, <1>21, <1>22 DEF Inv
-----------------------------------------------------------------------------
(***************************************************************************)
(* The theorems.                                                           *)
(***************************************************************************)
LEMMA StutterInv ==
    ASSUME Inv, UNCHANGED vars
    PROVE  Inv'
<1>1. UNCHANGED <<input, option, pc, frames, F, assignedPattern, assignedToTest, maxFound, ret>>
  BY DEF vars
<1>2. /\ TypeOK /\ Len(F) \in Nat /\ Len(frames) \in Nat /\ DOMAIN frames = 1..Len(frames)
      /\ DOMAIN F = 1..Len(F)
  BY StackFacts DEF Inv
<1>3. /\ P' = P /\ T' = T /\ limit' = limit /\ Pairs' = Pairs
      /\ nPattern' = nPattern /\ nToTest' = nToTest
      /\ \A q : Turn(q)' = Turn(q)
      /\ \A f : PairsOf(f)' = PairsOf(f)
      /\ (Searched' <=> Searched) /\ Occurrences' = Occurrences
  BY <1>1, SameInput
<1>4. TypeOK'
  BY <1>1, <1>2, <1>3 DEF TypeOK
<1>5. /\ InOrder' /\ Marks' /\ PartialOccurrence' /\ Growing' /\ Grown' /\ FoundCommon'
      /\ \A d \in 1..(Len(F) + 1) : \A p : Passes(p, d)' <=> Passes(p, d)
      /\ \A d \in 1..(Len(F) + 1) : Agreeing(d - 1)' = Agreeing(d - 1)
  BY <1>1, <1>4, SameAssociation
<1>6. \A d \in DOMAIN frames : d \in 1..(Len(F) + 1)
  <2>1. Len(frames) <= Len(F) + 1
    <3>1. pc \in {"start", "search", "forward", "undo", "return", "end"}
      BY <1>2 DEF TypeOK
    <3>2. frames = <<>> => Len(frames) = 0
      OBVIOUS
    <3>3. /\ pc \in {"start", "end"} => frames = <<>>
          /\ pc = "search" => Len(frames) = Len(F) + 1
          /\ pc \in {"forward", "undo"} => Len(frames) = Len(F)
          /\ pc = "return" => Len(frames) <= Len(F)
      BY DEF Inv, CallPlace
    <3>4. \/ Len(frames) = 0 \/ Len(frames) = Len(F) + 1
          \/ Len(frames) = Len(F) \/ Len(frames) <= Len(F)
      BY <3>1, <3>2, <3>3, SMTT(30)
    <3> DEFINE a == Len(frames)
               b == Len(F)
    <3>5. a \in Nat /\ b \in Nat /\ (a = 0 \/ a = b + 1 \/ a = b \/ a <= b)
      BY <1>2, <3>4
    <3> HIDE DEF a, b
    <3>6. a <= b + 1
      BY <3>5
    <3>7. QED BY <3>6 DEF a, b
  <2>2. QED BY <1>2, <2>1
<1>7. Filtered' /\ KeepsAll'
  BY <1>1, <1>3, <1>5, <1>6 DEF Inv, Filtered, KeepsAll
<1>8. \A d : Busy(d)' <=> Busy(d)
  BY <1>1 DEF Busy
<1>9. AtPair' /\ CallPlace' /\ ReturnsFound' /\ CountExact'
  BY <1>1, <1>3, <1>8 DEF Inv, AtPair, CallPlace, ReturnsFound, CountExact, Searched
<1>10. Tally'
  <2>1. \A d \in DOMAIN frames : Explored(d)' = Explored(d)
    BY <1>1, <1>3, <1>5, <1>6, <1>8 DEF Explored
  <2>2. (Counted' <=> Counted) /\ (NothingFound' <=> NothingFound)
    BY <1>1, <1>3, <2>1 DEF Counted, NothingFound
  <2>3. QED BY <1>1, <1>3, <2>2 DEF Inv, Tally
<1>11. QED BY <1>4, <1>5, <1>7, <1>9, <1>10 DEF Inv

\* What every call relies on, whatever the calls above and below it did to F
\* and to the counters they share.
THEOREM Invariance == Spec => []Inv
<1>1. Init => Inv
  BY InitInv
<1>2. Inv /\ [Next]_vars => Inv'
  <2> SUFFICES ASSUME Inv, [Next]_vars PROVE Inv'
    OBVIOUS
  <2>1. CASE IsoUllman
    BY <2>1, IsoUllmanInv
  <2>2. CASE Assign
    BY <2>2, AssignInv
  <2>3. CASE Forward
    BY <2>3, ForwardInv
  <2>4. CASE Return
    BY <2>4, ReturnToCaller, ReturnAtLast
  <2>5. CASE Undo
    BY <2>5, UndoInv
  <2>6. CASE UNCHANGED vars
    BY <2>6, StutterInv
  <2>7. QED BY <2>1, <2>2, <2>3, <2>4, <2>5, <2>6 DEF Next, Step, Done
<1>3. QED BY <1>1, <1>2, PTL DEF Spec

\* backtrack keeps F an occurrence of a part of the pattern, and its matrix the
\* pairs of every occurrence that has F (lines 482-624); the latter for simple
\* graphs, without -mcs and -np.
THEOREM SearchCorrect == Spec => []SearchInv
<1>1. Inv => SearchInv
  <2> SUFFICES ASSUME Inv PROVE SearchInv
    OBVIOUS
  <2>1. TypeOK /\ PartialOccurrence
    BY DEF Inv
  <2>2. NoneLost
    <3>1. SUFFICES ASSUME pc = "search", Searched, NEW f \in Occurrences,
                          \A a \in DOMAIN F : f[F[a][2]] = F[a][1]
                   PROVE  PairsOf(f) \subseteq top.M
      BY <3>1 DEF NoneLost, Searched, PairsOf
    <3>2. /\ DOMAIN F = 1..Len(F) /\ Len(F) \in Nat /\ Len(frames) = Len(F) + 1
          /\ DOMAIN frames = 1..Len(frames)
      BY <2>1, <3>1, StackFacts DEF Inv, CallPlace
    <3>3. /\ Len(F) + 1 \in DOMAIN frames /\ (Len(F) + 1) - 1 = Len(F)
          /\ top = frames[Len(F) + 1]
      BY <3>2 DEF top
    <3>4. f \in Agreeing(Len(F))
      BY <3>1, <3>2 DEF Agreeing
    <3>5. f \in Agreeing((Len(F) + 1) - 1)
      BY <3>3, <3>4
    <3>6. QED BY <3>1, <3>3, <3>5 DEF Inv, KeepsAll
  <2>3. QED BY <2>1, <2>2 DEF SearchInv
<1>2. QED BY <1>1, Invariance, PTL

\* A common subgraph grows along links of both graphs, although the counters
\* that choose the next pair are raised, lowered and reset by hand.
THEOREM GrowthCorrect == Spec => []GrowsByChildren
<1>1. Inv => GrowsByChildren
  <2> SUFFICES ASSUME Inv, option.mcs, NEW b \in 2..Len(F)
               PROVE  \E a, c \in 1..(b - 1) :
                         E(P, F[a][2], F[b][2]) /\ E(T, F[c][1], F[b][1])
    BY DEF GrowsByChildren
  <2>1. /\ \E a \in 1..(b - 1) : E(P, F[a][2], F[b][2])
        /\ \E a \in 1..(b - 1) : E(T, F[a][1], F[b][1])
    BY DEF Inv, Grown
  <2>2. QED BY <2>1
<1>2. QED BY <1>1, Invariance, PTL

\* For graphs without links from a node to itself and without double links, a
\* pattern that is not empty, and without -np, isoUllman answers the number of occurrences with -c, and whether
\* there is one without -c; with -mcs, on any graphs, maxFound is the size of a
\* common subgraph, which need not be the largest.
THEOREM ResultCorrect == Spec => []ResultExact
<1>1. Inv => ResultExact
  BY DEF Inv, FoundCommon, ResultExact, MaxFoundExists
<1>2. QED BY <1>1, Invariance, PTL

-----------------------------------------------------------------------------
(***************************************************************************)
(* The decision tree of SIDT.                                              *)
(***************************************************************************)

\* The letters of one run: labels are compared all along or never.
MyLetters == {Letter(withLabels, g, r) : g \in NGraphs, r \in 1..siteSize}

Paths == {p \in Seq(MyLetters) : Len(p) <= siteSize}

Shape ==
    /\ IsFiniteSet(DOMAIN tree) /\ DOMAIN tree \subseteq Paths
    /\ tree \in [DOMAIN tree -> [i : Nat, ht : Seq(MyLetters)]]
    /\ \A p \in DOMAIN tree : \A k \in 0..Len(p) : SubSeq(p, 1, k) \in DOMAIN tree

Flags == /\ withLabels \in BOOLEAN /\ learn \in BOOLEAN
         /\ proc \in {"idle", "learnSiteR"}

Lists == /\ sites \in Seq(Seq(1..nProgs)) /\ progs \in Seq(Seq(1..nSites))
         /\ nProgs <= MaxProgs

\* The node a call stands at spells the first letters of its site, and hangs
\* from an element of its father.
CallsPlace ==
    /\ dn \in Paths
    /\ ~Running => dn = <<>>
    /\ Running => /\ siteG \in NGraphs
                  /\ learn => nProgs > 0
                  /\ \A r \in 1..Len(dn) : dn[r] = Letter(withLabels, siteG, r)
                  /\ dn # <<>> => /\ Front(dn) \in DOMAIN tree
                                  /\ Last(dn) \in Range(tree[Front(dn)].ht)

ChainLengths == [p \in DOMAIN tree |-> Len(tree[p].ht)]
Elements == SumOver(ChainLengths, DOMAIN tree)

\* An insertion is on its way to a new leaf.
Pending == Missing /\ dn # <<>>

ElementsCounted ==
    /\ Pending => Elements <= nSites * siteSize + Len(dn) /\ Elements >= nSites + 1
    /\ ~Pending => Elements <= nSites * siteSize /\ Elements >= nSites

DTInv == /\ Shape /\ Flags /\ Lists /\ CallsPlace
       /\ ChainsAreSets /\ TreeIsClosed /\ LeavesNumberSites
       /\ ProgsAndSitesAgree /\ ElementsCounted

-----------------------------------------------------------------------------
(***************************************************************************)
(* Letters, paths and the place of a call.                                 *)
(***************************************************************************)
LEMMA SizeFacts == siteSize \in Nat /\ siteSize >= 1
BY SiteAssumption

LEMMA PathFacts ==
    ASSUME NEW p \in Paths
    PROVE  /\ p \in Seq(MyLetters) /\ Len(p) \in Nat /\ Len(p) <= siteSize
           /\ p # <<>> => /\ Front(p) \in Seq(MyLetters) /\ Last(p) \in MyLetters
                          /\ Append(Front(p), Last(p)) = p
                          /\ Len(p) = Len(Front(p)) + 1 /\ Len(Front(p)) \in Nat
BY FrontFacts, LenProperties DEF Paths

LEMMA ExtendPath ==
    ASSUME NEW p \in Paths, Len(p) < siteSize, NEW e \in MyLetters
    PROVE  /\ Append(p, e) \in Paths /\ Append(p, e) # <<>>
           /\ Len(Append(p, e)) = Len(p) + 1
           /\ Front(Append(p, e)) = p /\ Last(Append(p, e)) = e
           /\ SubSeq(Append(p, e), 1, Len(p)) = p
<1>1. p \in Seq(MyLetters) /\ Len(p) \in Nat /\ Len(p) \in 0..Len(p)
  BY PathFacts
<1>2. Len(p) + 1 <= siteSize
  BY <1>1, SizeFacts
<1>3. QED BY <1>1, <1>2, AppendFacts DEF Paths

LEMMA NodeFacts ==
    ASSUME Shape, NEW p \in DOMAIN tree
    PROVE  /\ p \in Paths /\ tree[p].i \in Nat /\ tree[p].ht \in Seq(MyLetters)
           /\ tree[p] = [i |-> tree[p].i, ht |-> tree[p].ht]
           /\ Len(tree[p].ht) \in Nat
           /\ Range(tree[p].ht) \subseteq MyLetters
<1>1. tree[p] \in [i : Nat, ht : Seq(MyLetters)] /\ p \in Paths
  BY DEF Shape
<1>2. QED BY <1>1, RangeFacts, LenProperties

\* In a call, above the leaves: the letter to look for.
LEMMA ElementFacts ==
    ASSUME DTInv, Running, ~Leaf
    PROVE  /\ dn \in Paths /\ Len(dn) < siteSize
           /\ Element \in MyLetters
           /\ Element = Letter(withLabels, siteG, Len(dn) + 1)
<1>1. dn \in Paths /\ siteG \in NGraphs
  BY DEF DTInv, CallsPlace
<1>2. Len(dn) \in Nat /\ Len(dn) <= siteSize
  BY <1>1, PathFacts
<1>3. Len(dn) < siteSize /\ Len(dn) + 1 \in 1..siteSize
  BY <1>2, SizeFacts DEF Leaf, depth
<1>4. QED BY <1>1, <1>3 DEF Element, MyLetters, depth

\* A letter of the tree matches only itself.
LEMMA MatchesOne ==
    ASSUME withLabels \in BOOLEAN, Element \in MyLetters, NEW e \in MyLetters
    PROVE  Matches(e) <=> e = Element
<1>1. PICK g \in NGraphs, r \in 1..siteSize : e = Letter(withLabels, g, r)
  BY DEF MyLetters
<1>2. PICK h \in NGraphs, q \in 1..siteSize : Element = Letter(withLabels, h, q)
  BY DEF MyLetters
<1>3. /\ e = [label |-> e.label, value |-> e.value, value2 |-> e.value2]
      /\ ~withLabels => e.label = -1
  BY <1>1 DEF Letter
<1>4. /\ Element = [label |-> Element.label, value |-> Element.value,
                    value2 |-> Element.value2]
      /\ ~withLabels => Element.label = -1
  BY <1>2 DEF Letter
<1>5. QED BY <1>3, <1>4 DEF Matches

LEMMA MatchingFacts ==
    ASSUME DTInv, Found, ~Leaf
    PROVE  /\ Matching # {} => tree[dn].ht[Min(Matching)] = Element
           /\ Matching # {} <=> Element \in Range(tree[dn].ht)
<1> DEFINE ht == tree[dn].ht
<1>1. Running /\ dn \in DOMAIN tree /\ withLabels \in BOOLEAN
  BY DEF Found, DTInv, Flags
<1>2. Element \in MyLetters
  BY <1>1, ElementFacts
<1>3. ht \in Seq(MyLetters) /\ IsInjective(ht)
  BY <1>1, NodeFacts DEF DTInv, ChainsAreSets
<1> HIDE DEF ht
<1>4. DOMAIN ht = 1..Len(ht) /\ Len(ht) \in Nat
  BY <1>3, LenProperties
<1>5. \A k \in 1..Len(ht) : ht[k] \in MyLetters
  BY <1>3, ElementOfSeq
<1>6. Matching = {k \in 1..Len(ht) : ht[k] = Element}
  <2>1. \A k \in 1..Len(ht) : Matches(ht[k]) <=> ht[k] = Element
    BY <1>1, <1>2, <1>5, MatchesOne
  <2>2. QED BY <2>1, <1>4 DEF Matching, ht
<1>7. ASSUME NEW k \in Matching PROVE Min(Matching) = k
  <2>1. \A m \in Matching : m = k
    BY <1>3, <1>4, <1>6 DEF IsInjective
  <2>2. Matching = {k} /\ k \in Nat
    BY <2>1, <1>6
  <2>3. \A x \in {k} : (\A y \in {k} : x <= y) <=> x = k
    BY <2>2
  <2>4. (CHOOSE x \in {k} : \A y \in {k} : x <= y) = k
    BY <2>3
  <2>5. QED BY <2>2, <2>4 DEF Min
<1>8. Matching # {} => ht[Min(Matching)] = Element
  BY <1>6, <1>7
<1>9. Matching # {} <=> \E k \in 1..Len(ht) : ht[k] = Element
  BY <1>6
<1>10. QED BY <1>3, <1>8, <1>9, RangeFacts DEF ht

\* Unless a learning call stands at a missing node, every element of every
\* chain leads to a node, and nothing is pending.
LEMMA Settled ==
    ASSUME DTInv, ~(Missing /\ learn)
    PROVE  /\ ~Pending
           /\ \A p \in DOMAIN tree : \A e \in Range(tree[p].ht) : Append(p, e) \in DOMAIN tree
<1>1. ASSUME NEW p \in DOMAIN tree, NEW e \in Range(tree[p].ht)
      PROVE  Append(p, e) \in DOMAIN tree
  BY DEF DTInv, TreeIsClosed, Missing
<1>2. ASSUME Pending PROVE FALSE
  <2>1. dn \in Paths /\ dn # <<>> /\ dn \notin DOMAIN tree /\ Running
    BY <1>2 DEF Pending, Missing, DTInv, CallsPlace
  <2>2. Front(dn) \in DOMAIN tree /\ Last(dn) \in Range(tree[Front(dn)].ht)
    BY <2>1 DEF DTInv, CallsPlace
  <2>3. Append(Front(dn), Last(dn)) \in DOMAIN tree
    BY <1>1, <2>2
  <2>4. QED BY <2>1, <2>3, PathFacts
<1>3. QED BY <1>1, <1>2

-----------------------------------------------------------------------------
(***************************************************************************)
(* The initial state, and the steps that leave the tree and the lists.     *)
(***************************************************************************)
LEMMA ElementsType ==
    ASSUME Shape
    PROVE  /\ IsFiniteSet(DOMAIN tree)
           /\ \A p \in DOMAIN tree : /\ ChainLengths[p] = Len(tree[p].ht)
                                     /\ ChainLengths[p] \in Nat
           /\ Elements \in Nat
<1>1. /\ IsFiniteSet(DOMAIN tree)
      /\ \A p \in DOMAIN tree : /\ ChainLengths[p] = Len(tree[p].ht)
                                /\ ChainLengths[p] \in Nat
  BY NodeFacts DEF Shape, ChainLengths
<1>2. QED BY <1>1, SumType DEF Elements

LEMMA DTInitInv == DTInit => DTInv
<1> SUFFICES ASSUME DTInit PROVE DTInv
  OBVIOUS
<1>1. /\ DOMAIN tree = {} /\ sites = <<>> /\ progs = <<>> /\ proc = "idle" /\ dn = <<>>
      /\ withLabels \in BOOLEAN /\ learn = FALSE
      /\ tree = [p \in {} |-> 0]
  BY DEF DTInit
<1>2. nSites = 0 /\ nProgs = 0 /\ 1..nSites = {} /\ 1..nProgs = {}
  BY <1>1 DEF nSites, nProgs
<1>3. Shape
  <2>1. tree \in [{} -> [i : Nat, ht : Seq(MyLetters)]]
    BY <1>1
  <2>2. QED BY <1>1, <2>1, FS_EmptySet DEF Shape
<1>4. Flags /\ Lists
  <2>1. sites \in Seq(Seq(1..nProgs)) /\ progs \in Seq(Seq(1..nSites))
    BY <1>1, EmptySeq
  <2>2. Lists
    BY <1>2, <2>1, TreeAssumption DEF Lists
  <2>3. Flags
    BY <1>1 DEF Flags
  <2>4. QED BY <2>2, <2>3
<1>5. CallsPlace
  BY <1>1, SizeFacts DEF CallsPlace, Running, Paths
<1>6. ChainsAreSets /\ TreeIsClosed
  BY <1>1 DEF ChainsAreSets, TreeIsClosed
<1>7. LeavesNumberSites
  BY <1>1, <1>2 DEF LeavesNumberSites, Leaves
<1>8. ProgsAndSitesAgree
  BY <1>1, <1>2 DEF ProgsAndSitesAgree
<1>9. ElementsCounted
  <2>1. Elements = 0
    BY <1>1, SumEmpty DEF Elements
  <2>2. ~Pending
    BY <1>1 DEF Pending
  <2>3. QED BY <1>2, <2>1, <2>2, SizeFacts DEF ElementsCounted
<1>10. QED BY <1>3, <1>4, <1>5, <1>6, <1>7, <1>8, <1>9 DEF DTInv

LEMMA QuietShape ==
    ASSUME Shape, ChainsAreSets, UNCHANGED <<withLabels, tree>>
    PROVE  Shape' /\ ChainsAreSets' /\ MyLetters' = MyLetters /\ Paths' = Paths
<1>1. MyLetters' = MyLetters
  BY DEF MyLetters
<1>2. Paths' = Paths
  BY <1>1 DEF Paths
<1>3. QED BY <1>1, <1>2 DEF Shape, ChainsAreSets

LEMMA QuietLists ==
    ASSUME Lists, LeavesNumberSites, ProgsAndSitesAgree, UNCHANGED <<tree, sites, progs>>
    PROVE  Lists' /\ LeavesNumberSites' /\ ProgsAndSitesAgree'
<1>1. nSites' = nSites /\ nProgs' = nProgs
  BY DEF nSites, nProgs
<1>2. Leaves' = Leaves
  BY DEF Leaves
<1>3. QED BY <1>1, <1>2 DEF Lists, LeavesNumberSites, ProgsAndSitesAgree

\* When nothing is pending before and after, the count has not moved.
LEMMA QuietCount ==
    ASSUME ElementsCounted, ~Pending, ~Pending', UNCHANGED <<tree, sites>>
    PROVE  ElementsCounted'
<1>1. Elements' = Elements
  BY DEF Elements, ChainLengths
<1>2. QED BY <1>1 DEF ElementsCounted, nSites

LEMMA ClosedAnyway ==
    ASSUME TreeIsClosed, UNCHANGED tree,
           \A p \in DOMAIN tree : \A e \in Range(tree[p].ht) : Append(p, e) \in DOMAIN tree
    PROVE  TreeIsClosed'
BY DEF TreeIsClosed

LEMMA CallInv ==
    ASSUME DTInv, NEW g \in NGraphs, NEW l \in BOOLEAN, Call(g, l)
    PROVE  DTInv'
<1>1. /\ proc = "idle" /\ proc' = "learnSiteR" /\ dn' = <<>> /\ siteG' = g /\ learn' = l
      /\ UNCHANGED <<withLabels, tree, sites, progs>>
      /\ l => nProgs > 0
  BY DEF Call
<1>2. ~(Missing /\ learn)
  BY <1>1 DEF Missing, Running
<1>3. Flags'
  BY <1>1 DEF DTInv, Flags
<1>4. CallsPlace'
  <2>1. <<>> \in Paths'
    BY SizeFacts DEF Paths
  <2>2. QED BY <1>1, <2>1 DEF CallsPlace, Running, nProgs
<1>5. TreeIsClosed'
  BY <1>1, <1>2, Settled, ClosedAnyway DEF DTInv
<1>6. ElementsCounted'
  <2>1. ~Pending' /\ ~Pending
    BY <1>1, <1>2, Settled DEF Pending
  <2>2. QED BY <1>1, <2>1, QuietCount DEF DTInv
<1>7. QED BY <1>1, <1>3, <1>4, <1>5, <1>6, QuietShape, QuietLists DEF DTInv

\* A call that returns and leaves the tree as it is.
LEMMA ReturnPlace ==
    ASSUME DTInv, Running, ~(Missing /\ learn), NEW value, Returns(value), UNCHANGED tree
    PROVE  Flags' /\ CallsPlace' /\ TreeIsClosed' /\ ~Pending /\ ~Pending'
<1>1. proc' = "idle" /\ dn' = <<>> /\ UNCHANGED <<withLabels, siteG, learn>>
  BY DEF Returns
<1>2. Flags'
  BY <1>1 DEF DTInv, Flags
<1>3. CallsPlace'
  <2>1. <<>> \in Paths'
    BY SizeFacts DEF Paths
  <2>2. QED BY <1>1, <2>1 DEF CallsPlace, Running
<1>4. TreeIsClosed'
  BY Settled, ClosedAnyway DEF DTInv
<1>5. ~Pending /\ ~Pending'
  BY <1>1, Settled DEF Pending
<1>6. QED BY <1>2, <1>3, <1>4, <1>5

LEMMA GiveUpInv ==
    ASSUME DTInv, NoNode \/ NoElement
    PROVE  DTInv'
<1>1. /\ Running /\ ~(Missing /\ learn) /\ Returns(0)
      /\ UNCHANGED <<tree, sites, progs>>
  BY DEF NoNode, NoElement, Missing, Found
<1>2. UNCHANGED withLabels
  BY <1>1 DEF Returns
<1>3. ElementsCounted'
  BY <1>1, ReturnPlace, QuietCount DEF DTInv
<1>4. QED BY <1>1, <1>2, <1>3, ReturnPlace, QuietShape, QuietLists DEF DTInv

-----------------------------------------------------------------------------
(***************************************************************************)
(* The steps that change the tree.                                         *)
(***************************************************************************)
\* The node a call stands at has all its fathers in the tree.
LEMMA FathersOfDn ==
    ASSUME DTInv, Running
    PROVE  \A k \in 0..Len(dn) : k < Len(dn) => SubSeq(dn, 1, k) \in DOMAIN tree
<1>1. dn \in Paths
  BY DEF DTInv, CallsPlace
<1>2. CASE dn = <<>>
  BY <1>2
<1>3. CASE dn # <<>>
  <2> DEFINE p == Front(dn)
             e == Last(dn)
  <2>1. /\ p \in Seq(MyLetters) /\ e \in MyLetters /\ Append(p, e) = dn
        /\ Len(dn) = Len(p) + 1 /\ Len(p) \in Nat
    BY <1>1, <1>3, PathFacts
  <2>2. p \in DOMAIN tree
    BY <1>3 DEF DTInv, CallsPlace
  <2> HIDE DEF p, e
  <2>3. ASSUME NEW k \in 0..Len(dn), k < Len(dn) PROVE SubSeq(dn, 1, k) \in DOMAIN tree
    <3>1. k \in 0..Len(p)
      BY <2>1, <2>3
    <3>2. SubSeq(dn, 1, k) = SubSeq(p, 1, k)
      BY <2>1, <3>1, AppendFacts
    <3>3. QED BY <2>2, <3>1, <3>2 DEF DTInv, Shape
  <2>4. QED BY <2>3
<1>4. QED BY <1>2, <1>3

\* A node is inserted under the call's place: what keeps the shape.
LEMMA InsertShape ==
    ASSUME DTInv, Missing, NEW n \in Nat, NEW ht \in Seq(MyLetters),
           Insert([i |-> n, ht |-> ht]), UNCHANGED withLabels
    PROVE  /\ Shape'
           /\ DOMAIN tree' = DOMAIN tree \cup {dn}
           /\ tree'[dn].i = n /\ tree'[dn].ht = ht
           /\ \A p \in DOMAIN tree : tree'[p] = tree[p] /\ p # dn
           /\ MyLetters' = MyLetters
<1> DEFINE node == [i |-> n, ht |-> ht]
<1>1. /\ tree' = [p \in DOMAIN tree \cup {dn} |-> IF p = dn THEN node ELSE tree[p]]
      /\ dn \notin DOMAIN tree /\ Running
  BY DEF Insert, Missing
<1>2. node \in [i : Nat, ht : Seq(MyLetters)] /\ node.i = n /\ node.ht = ht
  OBVIOUS
<1>3. MyLetters' = MyLetters
  BY DEF MyLetters
<1>4. Paths' = Paths
  BY <1>3 DEF Paths
<1> HIDE DEF node
<1>5. /\ DOMAIN tree' = DOMAIN tree \cup {dn}
      /\ tree'[dn] = node
      /\ \A p \in DOMAIN tree : tree'[p] = tree[p] /\ p # dn
  BY <1>1
<1>6. tree' \in [DOMAIN tree' -> [i : Nat, ht : Seq(MyLetters)]]
  <2>1. tree \in [DOMAIN tree -> [i : Nat, ht : Seq(MyLetters)]]
    BY DEF DTInv, Shape
  <2>2. QED BY <1>1, <1>2, <2>1
<1>7. IsFiniteSet(DOMAIN tree') /\ DOMAIN tree' \subseteq Paths
  BY <1>5, FS_AddElement DEF DTInv, Shape, CallsPlace
<1>8. ASSUME NEW p \in DOMAIN tree', NEW k \in 0..Len(p)
      PROVE  SubSeq(p, 1, k) \in DOMAIN tree'
  <2>1. CASE p \in DOMAIN tree
    BY <1>5, <2>1 DEF DTInv, Shape
  <2>2. CASE p = dn /\ k < Len(dn)
    BY <1>1, <1>5, <2>2, FathersOfDn
  <2>3. CASE p = dn /\ k = Len(dn)
    <3>1. dn \in Seq(MyLetters)
      BY PathFacts DEF DTInv, CallsPlace
    <3>2. SubSeq(dn, 1, Len(dn)) = dn
      BY <3>1, SubSeqFull
    <3>3. QED BY <1>5, <2>3, <3>2
  <2>4. Len(dn) \in Nat
    BY PathFacts DEF DTInv, CallsPlace
  <2>5. QED BY <1>5, <2>1, <2>2, <2>3, <2>4
<1>9. Shape'
  BY <1>3, <1>4, <1>6, <1>7, <1>8 DEF Shape
<1>10. QED BY <1>2, <1>3, <1>5, <1>9

\* The sum of the lengths of the chains after an insertion.
LEMMA InsertCount ==
    ASSUME DTInv, Missing, NEW n \in Nat, NEW ht \in Seq(MyLetters),
           Insert([i |-> n, ht |-> ht]), UNCHANGED withLabels
    PROVE  Elements' = Len(ht) + Elements /\ Elements \in Nat /\ Len(ht) \in Nat
<1> DEFINE f == ChainLengths
           h == ChainLengths'
           D == DOMAIN tree
<1>1. /\ DOMAIN tree' = D \cup {dn} /\ dn \notin D
      /\ tree'[dn].ht = ht
      /\ \A p \in D : tree'[p] = tree[p] /\ p # dn
  BY InsertShape DEF Missing
<1>2. IsFiniteSet(D) /\ Elements \in Nat /\ \A p \in D : f[p] \in Nat
  BY ElementsType DEF DTInv
<1>3. Len(ht) \in Nat
  BY LenProperties
<1>4. h[dn] = Len(ht)
  BY <1>1 DEF ChainLengths
<1>5. \A p \in D \ {dn} : h[p] = f[p]
  BY <1>1 DEF ChainLengths
<1>6. D \ {dn} = D
  BY <1>1
<1>7. Elements = SumOver(f, D) /\ Elements' = SumOver(h, D \cup {dn})
  BY <1>1 DEF Elements
<1> HIDE DEF f, h, D
<1>8. SumOver(h, D \cup {dn}) = h[dn] + SumOver(f, D \ {dn})
  <2>1. Summable(f, D)
    BY <1>2 DEF Summable
  <2>2. AgreeBut(h, f, D, dn)
    BY <1>3, <1>4, <1>5 DEF AgreeBut
  <2>3. QED BY <2>1, <2>2, SumWith, ZenonT(40)
<1>9. QED BY <1>2, <1>3, <1>4, <1>6, <1>7, <1>8

\* The call moves to the letter it has just made sure of.
LEMMA RecursePlace ==
    ASSUME DTInv, Running, ~Leaf, Recurse(Append(dn, Element)),
           dn \in DOMAIN tree', Element \in Range(tree'[dn].ht)
    PROVE  /\ CallsPlace' /\ dn' # <<>>
           /\ Len(dn') = Len(dn) + 1 /\ SubSeq(dn', 1, Len(dn)) = dn
           /\ Len(dn) \in Nat /\ Front(dn') = dn /\ Last(dn') = Element
<1>1. /\ dn' = Append(dn, Element)
      /\ UNCHANGED <<withLabels, sites, progs, proc, siteG, learn, answer>>
  BY DEF Recurse
<1>2. /\ dn \in Paths /\ Len(dn) < siteSize /\ Element \in MyLetters
      /\ Element = Letter(withLabels, siteG, Len(dn) + 1)
  BY ElementFacts
<1>3. /\ dn' \in Paths /\ Len(dn') = Len(dn) + 1 /\ Front(dn') = dn /\ Last(dn') = Element
      /\ Len(dn) \in Nat /\ dn \in Seq(MyLetters) /\ dn' # <<>>
      /\ SubSeq(dn', 1, Len(dn)) = dn
  BY <1>1, <1>2, ExtendPath, PathFacts
<1>4. CallsPlace'
  <2>1. \A r \in 1..Len(dn') : dn'[r] = Letter(withLabels, siteG, r)
    <3>1. /\ \A r \in 1..Len(dn) : dn'[r] = dn[r]
          /\ dn'[Len(dn) + 1] = Element
      BY <1>1, <1>2, <1>3, AppendProperties
    <3>2. \A r \in 1..Len(dn) : dn[r] = Letter(withLabels, siteG, r)
      BY DEF DTInv, CallsPlace
    <3>3. QED BY <1>2, <1>3, <3>1, <3>2
  <2>2. dn' \in Paths'
    BY <1>1, <1>3 DEF Paths, MyLetters
  <2>3. siteG' \in NGraphs /\ (learn' => nProgs' > 0)
    BY <1>1 DEF DTInv, CallsPlace, nProgs
  <2>4. QED BY <1>1, <1>3, <2>1, <2>2, <2>3 DEF CallsPlace, Running
<1>5. QED BY <1>3, <1>4

LEMMA DTSearchInv ==
    ASSUME DTInv, searchDn
    PROVE  DTInv'
<1>1. /\ Found /\ Running /\ dn \in DOMAIN tree /\ ~Leaf /\ Matching # {}
      /\ UNCHANGED <<tree, withLabels, sites, progs, proc, siteG, learn>>
      /\ ~(Missing /\ learn)
  BY DEF searchDn, Found, Recurse, Missing
<1>2. /\ tree[dn].ht[Min(Matching)] = Element /\ Element \in Range(tree[dn].ht)
  BY <1>1, MatchingFacts
<1>3. Recurse(Append(dn, Element)) /\ dn' = Append(dn, Element)
  BY <1>2 DEF searchDn, Recurse
<1>4. CallsPlace'
  BY <1>1, <1>2, <1>3, RecursePlace
<1>5. dn' \in DOMAIN tree
  BY <1>1, <1>2, <1>3, Settled
<1>6. Flags' /\ TreeIsClosed'
  BY <1>1, Settled, ClosedAnyway DEF DTInv, Flags
<1>7. ElementsCounted'
  <2>1. ~Pending /\ ~Pending'
    BY <1>1, <1>5, Settled DEF Pending, Missing
  <2>2. QED BY <1>1, <2>1, QuietCount DEF DTInv
<1>8. QED BY <1>1, <1>4, <1>6, <1>7, QuietShape, QuietLists DEF DTInv

LEMMA InnerNodeInv ==
    ASSUME DTInv, newInnerNode
    PROVE  DTInv'
<1> DEFINE ht == <<Element>>
<1>1. /\ Missing /\ Running /\ learn /\ ~Leaf /\ Insert([i |-> Len(dn) + 1, ht |-> ht])
      /\ Recurse(Append(dn, Element)) /\ dn' = Append(dn, Element)
      /\ UNCHANGED <<withLabels, sites, progs, proc, siteG, learn>>
      /\ dn \notin DOMAIN tree
  BY DEF newInnerNode, Missing, Recurse, depth
<1>2. /\ dn \in Paths /\ Len(dn) < siteSize /\ Element \in MyLetters
  BY <1>1, ElementFacts
<1>3. /\ Len(dn) \in Nat /\ Len(dn) + 1 \in Nat /\ dn \in Seq(MyLetters)
  BY <1>2, PathFacts
<1>4. ht \in Seq(MyLetters) /\ Len(ht) = 1 /\ Range(ht) = {Element} /\ IsInjective(ht)
      /\ ht # <<>>
  BY <1>2 DEF Range, IsInjective
<1> HIDE DEF ht
<1>5. /\ Shape' /\ MyLetters' = MyLetters
      /\ DOMAIN tree' = DOMAIN tree \cup {dn}
      /\ tree'[dn].ht = ht
      /\ \A p \in DOMAIN tree : tree'[p] = tree[p] /\ p # dn
  BY <1>1, <1>3, <1>4, InsertShape
<1>6. /\ CallsPlace' /\ dn' # <<>> /\ Len(dn') = Len(dn) + 1
      /\ SubSeq(dn', 1, Len(dn)) = dn
  BY <1>1, <1>4, <1>5, RecursePlace
<1>7. Elements' = 1 + Elements /\ Elements \in Nat
  BY <1>1, <1>3, <1>4, InsertCount
<1>8. ChainsAreSets'
  BY <1>4, <1>5 DEF DTInv, ChainsAreSets
<1>9. TreeIsClosed'
  <2>1. ASSUME NEW p \in DOMAIN tree' \ {<<>>}
        PROVE  Front(p) \in DOMAIN tree' /\ Last(p) \in Range(tree'[Front(p)].ht)
    <3>1. Front(p) \in DOMAIN tree /\ Last(p) \in Range(tree[Front(p)].ht)
      BY <1>1, <1>5 DEF DTInv, TreeIsClosed, CallsPlace
    <3>2. QED BY <1>5, <3>1
  <2>2. ASSUME NEW p \in DOMAIN tree', NEW e \in Range(tree'[p].ht)
        PROVE  \/ Append(p, e) \in DOMAIN tree'
               \/ Running' /\ learn' /\ dn' = Append(p, e)
    <3>1. CASE p = dn
      BY <1>1, <1>4, <1>5, <3>1 DEF Running
    <3>2. CASE p \in DOMAIN tree
      BY <1>5, <3>2 DEF DTInv, TreeIsClosed
    <3>3. QED BY <1>5, <3>1, <3>2
  <2>3. ASSUME NEW p \in DOMAIN tree' PROVE tree'[p].ht = <<>> <=> Len(p) = siteSize
    BY <1>2, <1>3, <1>4, <1>5 DEF DTInv, TreeIsClosed
  <2>4. QED BY <2>1, <2>2, <2>3 DEF TreeIsClosed
<1>10. LeavesNumberSites'
  <2>1. Leaves' = Leaves /\ \A p \in Leaves : tree'[p] = tree[p]
    BY <1>2, <1>3, <1>5 DEF Leaves
  <2>2. nSites' = nSites
    BY <1>1 DEF nSites
  <2>3. QED BY <2>1, <2>2 DEF DTInv, LeavesNumberSites
<1>11. Lists' /\ ProgsAndSitesAgree' /\ nSites' = nSites
  BY <1>1 DEF DTInv, Lists, ProgsAndSitesAgree, nSites, nProgs
<1>12. Flags'
  BY <1>1 DEF DTInv, Flags
<1>13. ElementsCounted'
  <2>1. dn' \notin DOMAIN tree'
    <3>1. ASSUME dn' \in DOMAIN tree PROVE FALSE
      <4>1. Len(dn) \in 0..Len(dn')
        BY <1>3, <1>6
      <4>2. QED BY <1>1, <1>6, <3>1, <4>1 DEF DTInv, Shape
    <3>2. dn' # dn
      BY <1>3, <1>6
    <3>3. QED BY <1>5, <3>1, <3>2
  <2>2. Pending'
    BY <1>1, <1>6, <2>1 DEF Pending, Missing, Running
  <2>3. nSites \in Nat /\ nSites * siteSize \in Nat
    <3>1. nSites \in Nat
      BY LenProperties DEF DTInv, Lists, nSites
    <3>2. QED BY <3>1, SizeFacts
  <2>4. Elements <= nSites * siteSize + Len(dn) /\ Elements >= nSites
    <3>1. CASE Pending
      BY <3>1, <1>7, <2>3 DEF DTInv, ElementsCounted
    <3>2. CASE ~Pending
      BY <3>2, <1>3, <1>7, <2>3 DEF DTInv, ElementsCounted
    <3>3. QED BY <3>1, <3>2
  <2> DEFINE most == nSites * siteSize
  <2>5. most \in Nat /\ Elements <= most + Len(dn)
    BY <2>3, <2>4
  <2> HIDE DEF most
  <2>6. Elements' <= most + Len(dn')
    BY <1>3, <1>6, <1>7, <2>5
  <2>7. Elements' >= nSites' + 1
    BY <1>7, <1>11, <2>3, <2>4
  <2>8. Elements' <= nSites' * siteSize + Len(dn')
    BY <1>11, <2>6 DEF most
  <2>9. QED BY <2>2, <2>7, <2>8 DEF ElementsCounted
<1>14. QED BY <1>5, <1>6, <1>8, <1>9, <1>10, <1>11, <1>12, <1>13 DEF DTInv

LEMMA AddElementInv ==
    ASSUME DTInv, addElement
    PROVE  DTInv'
<1> DEFINE D == DOMAIN tree
           old == tree[dn].ht
           ht == Append(old, Element)
<1>1. /\ Found /\ Running /\ learn /\ ~Leaf /\ Matching = {} /\ dn \in D
      /\ Recurse(Append(dn, Element)) /\ dn' = Append(dn, Element)
      /\ UNCHANGED <<withLabels, sites, progs, proc, siteG, learn>>
      /\ tree' = [tree EXCEPT ![dn].ht = Append(@, Element)]
      /\ ~Missing
  BY DEF addElement, Found, Missing, Recurse
<1>2. /\ dn \in Paths /\ Len(dn) < siteSize /\ Element \in MyLetters
  BY <1>1, ElementFacts
<1>3. /\ Len(dn) \in Nat /\ dn \in Seq(MyLetters)
  BY <1>2, PathFacts
<1>4. /\ old \in Seq(MyLetters) /\ tree[dn] = [i |-> tree[dn].i, ht |-> old]
      /\ tree[dn].i \in Nat /\ Len(old) \in Nat
  BY <1>1, NodeFacts DEF DTInv
<1>5. Element \notin Range(old) /\ IsInjective(old)
  BY <1>1, MatchingFacts DEF DTInv, ChainsAreSets
<1>6. tree \in [D -> [i : Nat, ht : Seq(MyLetters)]]
  BY DEF DTInv, Shape
<1>7. /\ DOMAIN tree' = D /\ tree'[dn].ht = ht /\ tree'[dn].i = tree[dn].i
      /\ \A p \in D : p # dn => tree'[p] = tree[p]
      /\ tree' = [p \in D |-> IF p = dn THEN [i |-> tree[dn].i, ht |-> ht] ELSE tree[p]]
  <2>1. tree' = [tree EXCEPT ![dn] = [tree[dn] EXCEPT !.ht = ht]]
    BY <1>1
  <2>2. \A m \in Nat, s \in Seq(MyLetters), t \in Seq(MyLetters) :
            [[i |-> m, ht |-> s] EXCEPT !.ht = t] = [i |-> m, ht |-> t]
    OBVIOUS
  <2>3. old \in Seq(MyLetters) /\ ht \in Seq(MyLetters)
    BY <1>2, <1>4, AppendProperties
  <2>4. [tree[dn] EXCEPT !.ht = ht] = [i |-> tree[dn].i, ht |-> ht]
    <3> HIDE DEF old, ht
    <3>1. QED BY <1>4, <2>2, <2>3
  <2> HIDE DEF old, ht, D
  <2>5. tree' = [p \in D |-> IF p = dn THEN [i |-> tree[dn].i, ht |-> ht] ELSE tree[p]]
    BY <1>6, <2>1, <2>4
  <2>6. dn \in D
    BY <1>1
  <2>7. QED BY <2>5, <2>6
<1>8. /\ ht \in Seq(MyLetters) /\ Len(ht) = Len(old) + 1 /\ ht # <<>>
      /\ Range(ht) = Range(old) \cup {Element} /\ IsInjective(ht)
  <2> HIDE DEF old
  <2>1. QED BY <1>2, <1>4, <1>5, AppendFacts, RangeAppend
<1> HIDE DEF ht, old, D
<1>9. MyLetters' = MyLetters
  BY <1>1 DEF MyLetters
<1>10. Paths' = Paths
  BY <1>9 DEF Paths
<1>11. Shape'
  <2>1. tree' \in [DOMAIN tree' -> [i : Nat, ht : Seq(MyLetters')]]
    BY <1>4, <1>6, <1>7, <1>8, <1>9
  <2>2. QED BY <1>7, <1>9, <1>10, <2>1 DEF DTInv, Shape, D
<1>12. /\ CallsPlace' /\ dn' # <<>> /\ Len(dn') = Len(dn) + 1 /\ Last(dn') = Element
       /\ SubSeq(dn', 1, Len(dn)) = dn /\ Front(dn') = dn
  BY <1>1, <1>7, <1>8, RecursePlace DEF D
<1>13. ChainsAreSets'
  BY <1>7, <1>8 DEF DTInv, ChainsAreSets, D
<1>14. TreeIsClosed'
  <2>1. ASSUME NEW p \in D \ {<<>>}
        PROVE  Front(p) \in D /\ Last(p) \in Range(tree'[Front(p)].ht)
    <3>1. Front(p) \in D /\ Last(p) \in Range(tree[Front(p)].ht)
      BY DEF DTInv, TreeIsClosed, D
    <3>2. QED BY <1>7, <1>8, <3>1 DEF old
  <2>2. ASSUME NEW p \in D, NEW e \in Range(tree'[p].ht)
        PROVE  \/ Append(p, e) \in D
               \/ Running' /\ learn' /\ dn' = Append(p, e)
    <3>1. \A q \in D : \A x \in Range(tree[q].ht) : Append(q, x) \in D
      BY <1>1, Settled DEF D
    <3>2. CASE p = dn /\ e = Element
      BY <1>1, <3>2 DEF Running
    <3>3. CASE p = dn /\ e # Element
      BY <1>1, <1>7, <1>8, <3>1, <3>3 DEF old
    <3>4. CASE p # dn
      BY <1>7, <3>1, <3>4
    <3>5. QED BY <3>2, <3>3, <3>4
  <2>3. ASSUME NEW p \in D PROVE tree'[p].ht = <<>> <=> Len(p) = siteSize
    BY <1>2, <1>3, <1>7, <1>8 DEF DTInv, TreeIsClosed, D
  <2>4. QED BY <1>7, <2>1, <2>2, <2>3 DEF TreeIsClosed
<1>15. LeavesNumberSites'
  <2>1. Leaves' = Leaves /\ \A p \in Leaves : tree'[p].i = tree[p].i
    BY <1>7 DEF Leaves, D
  <2>2. nSites' = nSites
    BY <1>1 DEF nSites
  <2>3. QED BY <2>1, <2>2 DEF DTInv, LeavesNumberSites
<1>16. Lists' /\ ProgsAndSitesAgree' /\ nSites' = nSites
  BY <1>1 DEF DTInv, Lists, ProgsAndSitesAgree, nSites, nProgs
<1>17. Flags'
  BY <1>1 DEF DTInv, Flags
<1>18. ElementsCounted'
  <2>1. dn' \notin D
    <3>1. ASSUME dn' \in D PROVE FALSE
      <4>1. Last(dn') \in Range(tree[Front(dn')].ht)
        BY <1>12, <3>1 DEF DTInv, TreeIsClosed, D
      <4>2. QED BY <1>5, <1>12, <4>1, SMTT(30) DEF old
    <3>2. QED BY <3>1
  <2>2. Pending'
    BY <1>1, <1>7, <1>12, <2>1 DEF Pending, Missing, Running
  <2>3. nSites \in Nat /\ nSites * siteSize \in Nat
    <3>1. nSites \in Nat
      BY LenProperties DEF DTInv, Lists, nSites
    <3>2. QED BY <3>1, SizeFacts
  <2>4. Elements <= nSites * siteSize /\ Elements >= nSites /\ Elements \in Nat
    BY <1>1, Settled, ElementsType DEF DTInv, ElementsCounted
  <2>5. Elements' = Elements + 1
    <3> DEFINE f == ChainLengths
               h == ChainLengths'
    <3>1. IsFiniteSet(D) /\ \A p \in D : f[p] \in Nat /\ f[p] = Len(tree[p].ht)
      BY ElementsType DEF DTInv, D
    <3>2. h[dn] = Len(old) + 1 /\ \A p \in D \ {dn} : h[p] = f[p]
      BY <1>1, <1>7, <1>8 DEF ChainLengths, D
    <3>3. f[dn] = Len(old)
      BY <1>1, <3>1 DEF old
    <3>4. Elements = SumOver(f, D) /\ Elements' = SumOver(h, D)
      BY <1>7 DEF Elements, D
    <3> HIDE DEF f, h
    <3>5. Summable(f, D)
      BY <3>1 DEF Summable
    <3>6. AgreeBut(h, f, D, dn)
      BY <1>4, <3>2 DEF AgreeBut
    <3>7. SumOver(h, D \cup {dn}) = h[dn] + SumOver(f, D \ {dn})
      BY <3>5, <3>6, SumWith
    <3>8. SumOver(f, D) = f[dn] + SumOver(f, D \ {dn}) /\ SumOver(f, D \ {dn}) \in Nat
      BY <1>1, <3>1, SumRemove
    <3>9. D \cup {dn} = D
      BY <1>1
    <3> DEFINE rest == SumOver(f, D \ {dn})
    <3>10. /\ rest \in Nat /\ Elements = f[dn] + rest /\ Elements' = h[dn] + rest
      BY <3>4, <3>7, <3>8, <3>9
    <3> HIDE DEF rest
    <3>11. QED BY <1>4, <3>2, <3>3, <3>10
  <2> DEFINE most == nSites * siteSize
  <2>6. most \in Nat /\ Elements <= most
    BY <2>3, <2>4
  <2> HIDE DEF most
  <2>7. Elements' <= most + Len(dn') /\ Elements' >= nSites' + 1
    BY <1>3, <1>12, <1>16, <2>3, <2>4, <2>5, <2>6
  <2>8. Elements' <= nSites' * siteSize + Len(dn')
    BY <1>16, <2>7 DEF most
  <2>9. QED BY <2>2, <2>7, <2>8 DEF ElementsCounted
<1>19. QED BY <1>11, <1>12, <1>13, <1>14, <1>15, <1>16, <1>17, <1>18 DEF DTInv

-----------------------------------------------------------------------------
(***************************************************************************)
(* The steps that change the two lists.                                    *)
(***************************************************************************)
LEMMA ListFacts ==
    ASSUME Lists
    PROVE  /\ nSites \in Nat /\ DOMAIN sites = 1..nSites
           /\ nProgs \in Nat /\ DOMAIN progs = 1..nProgs
           /\ \A k \in 1..nSites : sites[k] \in Seq(1..nProgs)
           /\ \A p \in 1..nProgs : progs[p] \in Seq(1..nSites)
<1>1. sites \in Seq(Seq(1..nProgs)) /\ progs \in Seq(Seq(1..nSites))
  BY DEF Lists
<1>2. /\ nSites \in Nat /\ DOMAIN sites = 1..nSites
      /\ nProgs \in Nat /\ DOMAIN progs = 1..nProgs
  BY <1>1, LenProperties DEF nSites, nProgs
<1>3. \A k \in 1..nSites : sites[k] \in Seq(1..nProgs)
  BY <1>1, ElementOfSeq DEF nSites
<1>4. \A p \in 1..nProgs : progs[p] \in Seq(1..nSites)
  BY <1>1, ElementOfSeq DEF nProgs
<1>5. QED BY <1>2, <1>3, <1>4

\* Site n and the last program gain each other.
LEMMA PairAdded ==
    ASSUME Lists, ProgsAndSitesAgree, NEW n \in 1..nSites', nProgs > 0,
           nSites' \in Nat, nSites <= nSites',
           sites' \in Seq(Seq(1..nProgs)),
           \A k \in 1..nSites' : k # n => k \in 1..nSites /\ sites'[k] = sites[k],
           IsInjective(sites'[n]),
           \A x : x \in Range(sites'[n]) <=>
                      x = prg \/ (n \in 1..nSites /\ x \in Range(sites[n])),
           n \in 1..nSites => prg \notin Range(sites[n]),
           progs' = [progs EXCEPT ![prg] = Append(@, n)]
    PROVE  Lists' /\ ProgsAndSitesAgree'
<1>1. /\ nSites \in Nat /\ nProgs \in Nat /\ prg \in 1..nProgs /\ prg = nProgs
      /\ DOMAIN progs = 1..nProgs /\ prg \in DOMAIN progs
  BY ListFacts DEF prg
<1>2. 1..nSites \subseteq 1..nSites'
  BY <1>1
<1>3. \A p \in 1..nProgs : progs[p] \in Seq(1..nSites')
  BY <1>2, ListFacts, SeqMonotonic
<1>4. n \notin Range(progs[prg])
  <2>1. CASE n \in 1..nSites
    BY <1>1, <2>1 DEF ProgsAndSitesAgree
  <2>2. CASE n \notin 1..nSites
    <3>1. progs[prg] \in Seq(1..nSites)
      BY <1>1, ListFacts
    <3>2. QED BY <2>2, <3>1, RangeFacts
  <2>3. QED BY <2>1, <2>2
<1>5. /\ progs'[prg] = Append(progs[prg], n)
      /\ \A p \in 1..nProgs : p # prg => progs'[p] = progs[p]
      /\ DOMAIN progs' = 1..nProgs
  BY <1>1
<1>6. /\ progs'[prg] \in Seq(1..nSites')
      /\ Range(progs'[prg]) = Range(progs[prg]) \cup {n}
      /\ IsInjective(progs'[prg])
  <2> DEFINE N == 1..nSites'
  <2>1. progs[prg] \in Seq(N) /\ IsInjective(progs[prg]) /\ n \in N
    BY <1>1, <1>3 DEF ProgsAndSitesAgree
  <2> HIDE DEF N
  <2>2. /\ Append(progs[prg], n) \in Seq(N)
        /\ Range(Append(progs[prg], n)) = Range(progs[prg]) \cup {n}
        /\ IsInjective(Append(progs[prg], n))
    BY <1>4, <2>1, AppendProperties, RangeAppend
  <2>3. QED BY <1>5, <2>2 DEF N
<1>7. progs' \in Seq(Seq(1..nSites')) /\ nProgs' = nProgs
  <2> DEFINE Ts == Seq(1..nSites')
  <2>1. progs \in Seq(Ts)
    <3>1. progs \in [1..nProgs -> Ts]
      <4>1. progs \in Seq(Seq(1..nSites))
        BY DEF Lists
      <4>2. progs \in [1..nProgs -> Seq(1..nSites)]
        BY <4>1, LenProperties DEF nProgs
      <4>3. \A p \in 1..nProgs : progs[p] \in Ts
        BY <1>3
      <4> HIDE DEF Ts
      <4>4. progs = [p \in 1..nProgs |-> progs[p]]
        BY <4>2
      <4>5. QED BY <4>3, <4>4
    <3> HIDE DEF Ts
    <3>2. QED BY <1>1, <3>1
  <2>2. Append(progs[prg], n) \in Ts
    BY <1>5, <1>6
  <2> HIDE DEF Ts
  <2>3. prg \in 1..Len(progs)
    BY <1>1 DEF nProgs
  <2>4. progs' \in Seq(Ts) /\ Len(progs') = Len(progs)
    BY <2>1, <2>2, <2>3, ExceptSeq
  <2>5. QED BY <2>4 DEF Ts, nProgs
<1>8. Lists'
  BY <1>7 DEF Lists
<1>9. ASSUME NEW k \in 1..nSites' PROVE IsInjective(sites'[k])
  BY DEF ProgsAndSitesAgree
<1>10. ASSUME NEW p \in 1..nProgs' PROVE IsInjective(progs'[p])
  BY <1>5, <1>6, <1>7 DEF ProgsAndSitesAgree
<1>11. ASSUME NEW k \in 1..nSites', NEW p \in 1..nProgs'
       PROVE  p \in Range(sites'[k]) <=> k \in Range(progs'[p])
  <2>1. p \in 1..nProgs
    BY <1>7
  <2>2. \A m \in 1..nSites : p \in Range(sites[m]) <=> m \in Range(progs[p])
    BY <2>1 DEF ProgsAndSitesAgree
  <2>3. CASE k # n /\ p # prg
    BY <1>5, <2>1, <2>2, <2>3
  <2>4. CASE k # n /\ p = prg
    BY <1>6, <2>2, <2>4
  <2>5. CASE k = n /\ p = prg
    BY <1>6, <2>5
  <2>6. CASE k = n /\ p # prg
    <3>1. CASE n \in 1..nSites
      BY <1>5, <2>1, <2>2, <2>6, <3>1
    <3>2. CASE n \notin 1..nSites
      <4>1. progs'[p] = progs[p] /\ progs[p] \in Seq(1..nSites)
        BY <1>5, <2>1, <2>6, ListFacts
      <4>2. k \notin Range(progs'[p])
        BY <2>6, <3>2, <4>1, RangeFacts
      <4>3. QED BY <2>6, <3>2, <4>2
    <3>3. QED BY <3>1, <3>2
  <2>7. QED BY <2>3, <2>4, <2>5, <2>6
<1>12. QED BY <1>8, <1>9, <1>10, <1>11 DEF ProgsAndSitesAgree

LEMMA FoundInv ==
    ASSUME DTInv, foundSite
    PROVE  DTInv'
<1> DEFINE n == tree[dn].i
<1>1. /\ Found /\ Running /\ Leaf /\ dn \in DOMAIN tree /\ ~(Missing /\ learn)
      /\ Returns(n) /\ UNCHANGED <<tree, withLabels>>
  BY DEF foundSite, Found, Missing, Returns
<1>2. Flags' /\ CallsPlace' /\ TreeIsClosed' /\ ~Pending /\ ~Pending'
  BY <1>1, ReturnPlace
<1>3. dn \in Leaves
  <2>1. Len(dn) \in Nat
    BY PathFacts DEF DTInv, CallsPlace
  <2>2. QED BY <1>1, <2>1, SizeFacts DEF Leaves, Leaf, depth
<1>4. n \in 1..nSites
  BY <1>3 DEF DTInv, LeavesNumberSites
<1>5. Shape' /\ ChainsAreSets'
  BY <1>1, QuietShape DEF DTInv
<1>6. CASE ~AddsPrg(n)
  <2>1. UNCHANGED <<sites, progs>>
    BY <1>6 DEF foundSite
  <2>2. ElementsCounted'
    BY <1>1, <1>2, <2>1, QuietCount DEF DTInv
  <2>3. QED BY <1>1, <1>2, <1>5, <2>1, <2>2, QuietLists DEF DTInv
<1>7. CASE AddsPrg(n)
  <2> HIDE DEF n
  <2>1. /\ sites' = [sites EXCEPT ![n] = Append(@, prg)]
        /\ progs' = [progs EXCEPT ![prg] = Append(@, n)]
        /\ prg \notin Range(sites[n]) /\ learn
    BY <1>7 DEF foundSite, addSite, AddsPrg, n
  <2>2. nProgs > 0 /\ prg \in 1..nProgs /\ nSites \in Nat /\ nProgs \in Nat
        /\ DOMAIN sites = 1..nSites /\ sites[n] \in Seq(1..nProgs)
        /\ sites \in Seq(Seq(1..nProgs))
    <3>1. nProgs > 0
      BY <1>1, <2>1 DEF DTInv, CallsPlace
    <3>2. QED BY <1>4, <3>1, ListFacts DEF prg, DTInv, Lists
  <2> DEFINE Ps == 1..nProgs
  <2>3. sites[n] \in Seq(Ps) /\ prg \in Ps /\ IsInjective(sites[n]) /\ sites \in Seq(Seq(Ps))
    BY <1>4, <2>2 DEF DTInv, ProgsAndSitesAgree
  <2>4. n \in 1..Len(sites)
    BY <1>4 DEF nSites
  <2> HIDE DEF Ps
  <2>5. /\ Append(sites[n], prg) \in Seq(Ps)
        /\ Range(Append(sites[n], prg)) = Range(sites[n]) \cup {prg}
        /\ IsInjective(Append(sites[n], prg))
    BY <2>1, <2>3, AppendProperties, RangeAppend
  <2>6. sites' \in Seq(Seq(Ps)) /\ Len(sites') = Len(sites)
    <3> DEFINE Ts == Seq(Ps)
    <3> HIDE DEF Ts
    <3>1. sites \in Seq(Ts) /\ Append(sites[n], prg) \in Ts
      BY <2>3, <2>5 DEF Ts
    <3>2. sites' \in Seq(Ts) /\ Len(sites') = Len(sites)
      BY <2>1, <2>4, <3>1, ExceptSeq
    <3>3. QED BY <3>2 DEF Ts
  <2>7. nSites' = nSites /\ sites' \in Seq(Seq(1..nProgs))
    BY <2>6 DEF nSites, Ps
  <2>8. /\ sites'[n] = Append(sites[n], prg)
        /\ \A k \in 1..nSites : k # n => sites'[k] = sites[k]
    BY <1>4, <2>1, <2>2
  <2>9. Lists' /\ ProgsAndSitesAgree'
    <3>1. n \in 1..nSites' /\ nSites' \in Nat /\ nSites <= nSites'
      BY <1>4, <2>2, <2>7
    <3>2. \A k \in 1..nSites' : k # n => k \in 1..nSites /\ sites'[k] = sites[k]
      BY <2>7, <2>8
    <3>3. IsInjective(sites'[n])
      BY <2>5, <2>8
    <3>4. \A x : x \in Range(sites'[n]) <=>
                    x = prg \/ (n \in 1..nSites /\ x \in Range(sites[n]))
      BY <1>4, <2>5, <2>8
    <3>5. Lists /\ ProgsAndSitesAgree
      BY DEF DTInv
    <3>6. QED BY <2>1, <2>2, <2>7, <3>1, <3>2, <3>3, <3>4, <3>5, PairAdded
  <2>10. LeavesNumberSites'
    BY <1>1, <2>7 DEF DTInv, LeavesNumberSites, Leaves
  <2>11. ElementsCounted'
    <3>1. Elements' = Elements
      BY <1>1 DEF Elements, ChainLengths
    <3>2. QED BY <1>2, <2>7, <3>1 DEF DTInv, ElementsCounted
  <2>12. QED BY <1>2, <1>5, <2>9, <2>10, <2>11 DEF DTInv
<1>8. QED BY <1>6, <1>7

LEMMA AddProgInv ==
    ASSUME DTInv, addProgToDT
    PROVE  DTInv'
<1>1. /\ proc = "idle" /\ nProgs < MaxProgs /\ progs' = Append(progs, <<>>)
      /\ UNCHANGED <<withLabels, tree, sites, proc, dn, siteG, learn, answer>>
      /\ ~(Missing /\ learn)
  BY DEF addProgToDT, Missing, Running
<1>2. /\ nSites' = nSites /\ nSites \in Nat /\ nProgs \in Nat
      /\ DOMAIN progs = 1..nProgs /\ DOMAIN sites = 1..nSites
  BY <1>1, ListFacts DEF DTInv, nSites
<1> DEFINE Ts == Seq(1..nSites)
<1>3. progs \in Seq(Ts) /\ <<>> \in Ts
  BY EmptySeq DEF DTInv, Lists
<1> HIDE DEF Ts
<1>4. /\ progs' \in Seq(Ts) /\ Len(progs') = Len(progs) + 1
      /\ \A p \in 1..Len(progs) : progs'[p] = progs[p]
      /\ progs'[Len(progs) + 1] = <<>>
  BY <1>1, <1>3, AppendProperties
<1>5. /\ nProgs' = nProgs + 1 /\ \A p \in 1..nProgs : progs'[p] = progs[p]
      /\ progs'[nProgs'] = <<>> /\ 1..nProgs \subseteq 1..nProgs'
      /\ progs' \in Seq(Seq(1..nSites'))
  BY <1>2, <1>4 DEF nProgs, Ts
<1>6. Lists'
  <2>1. \A k \in 1..nSites : sites[k] \in Seq(1..nProgs')
    BY <1>5, ListFacts, SeqMonotonic DEF DTInv
  <2>2. sites \in [1..nSites -> Seq(1..nProgs')]
    <3>1. sites \in Seq(Seq(1..nProgs))
      BY DEF DTInv, Lists
    <3>2. sites \in [1..nSites -> Seq(1..nProgs)]
      BY <3>1, LenProperties DEF nSites
    <3>3. QED BY <2>1, <3>2
  <2>3. sites' \in Seq(Seq(1..nProgs'))
    BY <1>1, <1>2, <2>2
  <2>4. nProgs' <= MaxProgs
    BY <1>1, <1>2, <1>5, TreeAssumption
  <2>5. QED BY <1>5, <2>3, <2>4 DEF Lists
<1>7. ProgsAndSitesAgree'
  <2>1. ASSUME NEW k \in 1..nSites PROVE Range(sites[k]) \subseteq 1..nProgs
    <3>1. sites[k] \in Seq(1..nProgs)
      BY ListFacts DEF DTInv
    <3>2. QED BY <3>1, RangeFacts
  <2>2. ASSUME NEW p \in 1..nProgs' PROVE IsInjective(progs'[p])
    <3>1. CASE p \in 1..nProgs
      BY <1>5, <3>1 DEF DTInv, ProgsAndSitesAgree
    <3>2. CASE p = nProgs'
      BY <1>5, <3>2, RangeEmpty
    <3>3. nProgs \in Nat /\ nProgs' = nProgs + 1
      BY <1>2, <1>5
    <3>4. p \in 1..nProgs \/ p = nProgs'
      BY <3>3
    <3>5. QED BY <3>1, <3>2, <3>4
  <2>3. ASSUME NEW k \in 1..nSites, NEW p \in 1..nProgs'
        PROVE  p \in Range(sites[k]) <=> k \in Range(progs'[p])
    <3>1. CASE p \in 1..nProgs
      BY <1>5, <3>1 DEF DTInv, ProgsAndSitesAgree
    <3>2. CASE p = nProgs'
      <4>1. k \notin Range(progs'[p])
        BY <1>5, <3>2, RangeEmpty
      <4>2. p \notin 1..nProgs
        BY <1>2, <1>5, <3>2
      <4>3. QED BY <2>1, <4>1, <4>2
    <3>3. QED BY <1>2, <1>5, <3>1, <3>2
  <2>4. \A k \in 1..nSites : IsInjective(sites[k])
    BY DEF DTInv, ProgsAndSitesAgree
  <2>5. QED BY <1>1, <1>2, <2>2, <2>3, <2>4 DEF ProgsAndSitesAgree
<1>8. CallsPlace' /\ Flags'
  <2>1. Paths' = Paths
    BY <1>1 DEF Paths, MyLetters
  <2>2. QED BY <1>1, <2>1 DEF DTInv, CallsPlace, Flags, Running
<1>9. LeavesNumberSites'
  BY <1>1, <1>2 DEF DTInv, LeavesNumberSites, Leaves
<1>10. TreeIsClosed'
  BY <1>1, Settled, ClosedAnyway DEF DTInv
<1>11. ElementsCounted'
  <2>1. ~Pending /\ ~Pending'
    BY <1>1, Settled DEF Pending, Missing, Running
  <2>2. QED BY <1>1, <2>1, QuietCount DEF DTInv
<1>12. QED BY <1>1, <1>6, <1>7, <1>8, <1>9, <1>10, <1>11, QuietShape DEF DTInv

LEMMA NewLeafInv ==
    ASSUME DTInv, newLeaf
    PROVE  DTInv'
<1> DEFINE n == nSites + 1
<1>1. /\ Missing /\ Running /\ learn /\ Leaf /\ dn \notin DOMAIN tree
      /\ sites' = Append(sites, <<prg>>)
      /\ Insert([i |-> nSites', ht |-> <<>>]) /\ Returns(0)
      /\ progs' = [progs EXCEPT ![prg] = Append(@, nSites')]
      /\ proc' = "idle" /\ dn' = <<>> /\ UNCHANGED <<withLabels, siteG, learn>>
  BY DEF newLeaf, Missing, Returns, addSite, LeafNumber
<1>2. /\ nSites \in Nat /\ nProgs \in Nat /\ DOMAIN sites = 1..nSites /\ nProgs > 0
      /\ prg \in 1..nProgs /\ sites \in Seq(Seq(1..nProgs))
  <2>1. nProgs > 0
    BY <1>1 DEF DTInv, CallsPlace
  <2>2. QED BY <2>1, ListFacts DEF prg, DTInv, Lists
<1>3. /\ <<prg>> \in Seq(1..nProgs) /\ Range(<<prg>>) = {prg} /\ IsInjective(<<prg>>)
  BY <1>2 DEF Range, IsInjective
<1>4. /\ nSites' = n /\ n \in Nat
      /\ sites' \in Seq(Seq(1..nProgs))
      /\ \A k \in 1..nSites : sites'[k] = sites[k]
      /\ sites'[n] = <<prg>>
  <2> DEFINE Ts == Seq(1..nProgs)
  <2>1. sites \in Seq(Ts) /\ <<prg>> \in Ts
    BY <1>2, <1>3
  <2> HIDE DEF Ts
  <2>2. /\ sites' \in Seq(Ts) /\ Len(sites') = Len(sites) + 1
        /\ \A k \in 1..Len(sites) : sites'[k] = sites[k]
        /\ sites'[Len(sites) + 1] = <<prg>>
    BY <1>1, <2>1, AppendProperties
  <2>3. QED BY <1>2, <2>2 DEF nSites, Ts
<1>5. Lists' /\ ProgsAndSitesAgree'
  <2>1. n \in 1..nSites' /\ n \notin 1..nSites /\ nSites <= nSites' /\ nSites' \in Nat
    BY <1>2, <1>4
  <2>2. \A k \in 1..nSites' : k # n => k \in 1..nSites /\ sites'[k] = sites[k]
    BY <1>2, <1>4
  <2>3. IsInjective(sites'[n])
    BY <1>3, <1>4
  <2>4. \A x : x \in Range(sites'[n]) <=>
                  x = prg \/ (n \in 1..nSites /\ x \in Range(sites[n]))
    BY <1>3, <1>4, <2>1
  <2>5. Lists /\ ProgsAndSitesAgree
    BY DEF DTInv
  <2>6. progs' = [progs EXCEPT ![prg] = Append(@, n)]
    BY <1>1, <1>4
  <2>7. n \in 1..nSites => prg \notin Range(sites[n])
    BY <2>1
  <2> HIDE DEF n
  <2>8. QED BY <1>2, <1>4, <2>1, <2>2, <2>3, <2>4, <2>5, <2>6, <2>7, PairAdded
<1>6. /\ Shape' /\ MyLetters' = MyLetters
      /\ DOMAIN tree' = DOMAIN tree \cup {dn}
      /\ tree'[dn].i = n /\ tree'[dn].ht = <<>>
      /\ \A p \in DOMAIN tree : tree'[p] = tree[p] /\ p # dn
  BY <1>1, <1>4, EmptySeq, InsertShape
<1>7. Elements' = Elements /\ Elements \in Nat
  <2>1. nSites' \in Nat /\ <<>> \in Seq(MyLetters) /\ Len(<<>>) = 0
    BY <1>4, EmptySeq
  <2>2. Elements' = Len(<<>>) + Elements /\ Elements \in Nat
    BY <1>1, <2>1, InsertCount
  <2>3. QED BY <2>1, <2>2
<1>8. Len(dn) = siteSize /\ dn # <<>>
  <2>1. Len(dn) \in Nat
    BY PathFacts DEF DTInv, CallsPlace
  <2>2. QED BY <1>1, <2>1, SizeFacts DEF Leaf, depth
<1>9. ChainsAreSets'
  BY <1>6, RangeEmpty DEF DTInv, ChainsAreSets
<1>10. TreeIsClosed'
  <2>1. ASSUME NEW p \in DOMAIN tree' \ {<<>>}
        PROVE  Front(p) \in DOMAIN tree' /\ Last(p) \in Range(tree'[Front(p)].ht)
    <3>1. Front(p) \in DOMAIN tree /\ Last(p) \in Range(tree[Front(p)].ht)
      BY <1>1, <1>6 DEF DTInv, TreeIsClosed, CallsPlace
    <3>2. QED BY <1>6, <3>1
  <2>2. ASSUME NEW p \in DOMAIN tree', NEW e \in Range(tree'[p].ht)
        PROVE  Append(p, e) \in DOMAIN tree'
    <3>1. p # dn
      BY <1>6, RangeEmpty
    <3>2. QED BY <1>6, <3>1 DEF DTInv, TreeIsClosed
  <2>3. ASSUME NEW p \in DOMAIN tree' PROVE tree'[p].ht = <<>> <=> Len(p) = siteSize
    BY <1>6, <1>8 DEF DTInv, TreeIsClosed
  <2>4. QED BY <2>1, <2>2, <2>3 DEF TreeIsClosed
<1>11. LeavesNumberSites'
  <2>1. Leaves' = Leaves \cup {dn} /\ dn \notin Leaves
    BY <1>1, <1>6, <1>8 DEF Leaves
  <2>2. \A p \in Leaves : tree'[p] = tree[p] /\ p # dn /\ tree[p].i \in 1..nSites
    BY <1>6 DEF Leaves, DTInv, LeavesNumberSites
  <2>3. {tree[p].i : p \in Leaves} = 1..nSites
    BY DEF DTInv, LeavesNumberSites
  <2>4. {tree'[p].i : p \in Leaves'} = 1..nSites \cup {n}
    BY <1>6, <2>1, <2>2, <2>3
  <2>5. 1..nSites \cup {n} = 1..nSites'
    BY <1>2, <1>4, SMTT(30)
  <2>6. ASSUME NEW p \in Leaves', NEW q \in Leaves', tree'[p].i = tree'[q].i
        PROVE  p = q
    <3>1. n \notin 1..nSites
      BY <1>2
    <3>2. CASE p = dn \/ q = dn
      BY <1>6, <2>1, <2>2, <2>6, <3>1, <3>2
    <3>3. CASE p \in Leaves /\ q \in Leaves
      BY <2>2, <2>6, <3>3 DEF DTInv, LeavesNumberSites
    <3>4. QED BY <2>1, <3>2, <3>3
  <2>7. QED BY <2>4, <2>5, <2>6 DEF LeavesNumberSites
<1>12. CallsPlace' /\ Flags'
  <2>1. <<>> \in Paths'
    BY SizeFacts DEF Paths
  <2>2. QED BY <1>1, <2>1 DEF DTInv, CallsPlace, Running, Flags
<1>13. ElementsCounted'
  <2>1. Pending /\ ~Pending'
    BY <1>1, <1>8 DEF Pending
  <2>2. Elements <= nSites * siteSize + siteSize /\ Elements >= nSites + 1
    BY <1>8, <2>1 DEF DTInv, ElementsCounted
  <2>3. nSites * siteSize + siteSize = (nSites + 1) * siteSize
    BY <1>2, SizeFacts
  <2>4. Elements' <= nSites' * siteSize /\ Elements' >= nSites'
    BY <1>4, <1>7, <2>2, <2>3
  <2>5. QED BY <2>1, <2>4 DEF ElementsCounted
<1>14. QED BY <1>5, <1>6, <1>9, <1>10, <1>11, <1>12, <1>13 DEF DTInv

-----------------------------------------------------------------------------
LEMMA DTStutterInv == ASSUME DTInv, UNCHANGED dtVars PROVE DTInv'
<1>1. UNCHANGED <<withLabels, tree, sites, progs, proc, dn, siteG, learn, answer>>
  BY DEF dtVars
<1>2. Shape' /\ ChainsAreSets' /\ Paths' = Paths /\ Lists' /\ LeavesNumberSites'
      /\ ProgsAndSitesAgree'
  BY <1>1, QuietShape, QuietLists DEF DTInv
<1>3. CallsPlace' /\ Flags' /\ TreeIsClosed'
  BY <1>1, <1>2 DEF DTInv, CallsPlace, Flags, TreeIsClosed, Running, nProgs
<1>4. ElementsCounted'
  <2>1. Elements' = Elements /\ nSites' = nSites /\ (Pending' <=> Pending)
    BY <1>1 DEF Elements, ChainLengths, nSites, Pending, Missing, Running
  <2>2. QED BY <1>1, <2>1 DEF DTInv, ElementsCounted
<1>5. QED BY <1>2, <1>3, <1>4 DEF DTInv

LEMMA StepInv == DTInv /\ [DTNext]_dtVars => DTInv'
<1> SUFFICES ASSUME DTInv, [DTNext]_dtVars PROVE DTInv'
  OBVIOUS
<1>1. CASE addProgToDT
  BY <1>1, AddProgInv
<1>2. ASSUME NEW g \in NGraphs, learnSite(g) \/ findSite(g) PROVE DTInv'
  BY <1>2, CallInv DEF learnSite, findSite
<1>3. CASE learnSiteR
  BY <1>3, GiveUpInv, NewLeafInv, InnerNodeInv, FoundInv, DTSearchInv, AddElementInv
     DEF learnSiteR
<1>4. CASE UNCHANGED dtVars
  BY <1>4, DTStutterInv
<1>5. QED BY <1>1, <1>2, <1>3, <1>4 DEF DTNext

(***************************************************************************)
(* The tree, the place of the running call in it and the lists are         *)
(* consistent after any sequence of calls of addProgToDT, learnSite and    *)
(* findSite, and between any two recursive calls of learnSiteR.            *)
(***************************************************************************)
THEOREM DTInvariance == DTSpec => []DTInv
<1>1. QED BY DTInitInv, StepInv, PTL DEF DTSpec

(***************************************************************************)
(* The types, for every set of sites and every site size: the levels of    *)
(* the tree, the chained letters, the numbers kept in both lists and the   *)
(* arguments of the running call.                                          *)
(***************************************************************************)
LEMMA InvType == DTInv => DTTypeOK
<1> SUFFICES ASSUME DTInv PROVE DTTypeOK
  OBVIOUS
<1>1. MyLetters \subseteq Letters
  BY DEF DTInv, Flags, MyLetters, Letters
<1>2. ASSUME NEW p \in Paths PROVE p \in BoundedSeq(Letters, siteSize)
  <2>1. p \in Seq(Letters) /\ Len(p) <= siteSize
    BY <1>1, PathFacts, SeqMonotonic
  <2>2. QED BY <2>1, SizeFacts, BoundedSeqs
<1>3. ASSUME NEW p \in DOMAIN tree PROVE tree[p].i \in Nat /\ tree[p].ht \in Seq(Letters)
  <2>1. tree[p].i \in Nat /\ tree[p].ht \in Seq(MyLetters)
    BY NodeFacts DEF DTInv
  <2>2. QED BY <1>1, <2>1, SeqMonotonic
<1>4. DOMAIN tree \subseteq BoundedSeq(Letters, siteSize)
  BY <1>2 DEF DTInv, Shape
<1>5. dn \in BoundedSeq(Letters, siteSize) /\ (Running => siteG \in NGraphs)
  BY <1>2 DEF DTInv, CallsPlace
<1>6. QED BY <1>3, <1>4, <1>5 DEF DTInv, Flags, Lists, DTTypeOK

THEOREM TypeCorrect == DTSpec => []DTTypeOK
<1>1. QED BY DTInvariance, InvType, PTL

(***************************************************************************)
(* site->progs and prog->sites are two views of one relation, for every    *)
(* sequence of calls.                                                      *)
(***************************************************************************)
THEOREM ListsCorrect == DTSpec => []ProgsAndSitesAgree
<1>1. DTInv => ProgsAndSitesAgree
  BY DEF DTInv
<1>2. QED BY <1>1, DTInvariance, PTL

-----------------------------------------------------------------------------
(***************************************************************************)
(* The statistics.                                                         *)
(***************************************************************************)
LEMMA NodesCounted == ASSUME DTInv PROVE countNodesDT = 1 + Elements
<1> DEFINE D == DOMAIN tree
           Ps(h) == h = [Ts \in SUBSET D |->
                          IF Ts = {} THEN 0
                          ELSE Len(tree[CHOOSE x \in Ts : TRUE].ht)
                               + h[Ts \ {CHOOSE x \in Ts : TRUE}]]
           G == CHOOSE h : Ps(h)
           f == ChainLengths
<1>1. countNodesDT = 1 + G[D]
  BY DEF countNodesDT, MapThenSumSet, MapThenFoldSet
<1>2. IsFiniteSet(D) /\ \A p \in D : f[p] = Len(tree[p].ht) /\ f[p] \in Nat
  BY ElementsType DEF DTInv
<1> HIDE DEF f, D
<1>3. PICK h \in [SUBSET D -> Nat] : SumsOn(h, f, D)
  BY <1>2, SumExists
<1>4. ASSUME NEW Ts \in SUBSET D, Ts # {}
      PROVE  f[CHOOSE x \in Ts : TRUE] = Len(tree[CHOOSE x \in Ts : TRUE].ht)
  <2>1. (CHOOSE x \in Ts : TRUE) \in D
    BY <1>4
  <2>2. QED BY <1>2, <2>1
<1>5. Ps(h)
  BY <1>3, <1>4 DEF SumsOn, SumAt
<1>6. Ps(G)
  <2> HIDE DEF Ps
  <2>1. QED BY <1>5
<1> HIDE DEF G
<1>7. SumsOn(G, f, D)
  BY <1>4, <1>6 DEF SumsOn, SumAt
<1>8. SumOver(f, D) = G[D]
  BY <1>2, <1>7, SumIs
<1>9. QED BY <1>1, <1>8 DEF Elements, f, D

\* Between calls no element is without a node.
LEMMA NoneOpen ==
    ASSUME DTInv, proc = "idle"
    PROVE  MapThenSumSet(LAMBDA p : Cardinality({k \in DOMAIN tree[p].ht :
                              Append(p, tree[p].ht[k]) \notin DOMAIN tree}),
                         DOMAIN tree) = 0
<1> DEFINE D == DOMAIN tree
           open(p) == Cardinality({k \in DOMAIN tree[p].ht :
                                     Append(p, tree[p].ht[k]) \notin DOMAIN tree})
           Ps(h) == h = [Ts \in SUBSET D |->
                          IF Ts = {} THEN 0
                          ELSE open(CHOOSE x \in Ts : TRUE)
                               + h[Ts \ {CHOOSE x \in Ts : TRUE}]]
           G == CHOOSE h : Ps(h)
           f == [p \in D |-> 0]
           h == [Ts \in SUBSET D |-> 0]
<1>1. MapThenSumSet(LAMBDA p : Cardinality({k \in DOMAIN tree[p].ht :
                              Append(p, tree[p].ht[k]) \notin DOMAIN tree}),
                    DOMAIN tree) = G[D]
  BY DEF MapThenSumSet, MapThenFoldSet
<1>2. IsFiniteSet(D)
  BY DEF DTInv, Shape
<1>3. ASSUME NEW p \in D PROVE open(p) = 0
  <2>1. \A e \in Range(tree[p].ht) : Append(p, e) \in D
    BY Settled DEF Missing, Running
  <2>2. \A k \in DOMAIN tree[p].ht : tree[p].ht[k] \in Range(tree[p].ht)
    BY DEF Range
  <2>3. {k \in DOMAIN tree[p].ht : Append(p, tree[p].ht[k]) \notin DOMAIN tree} = {}
    BY <2>1, <2>2
  <2>4. QED BY <2>3, FS_EmptySet
<1> HIDE DEF D, open
<1>4. ASSUME NEW Ts \in SUBSET D, Ts # {} PROVE open(CHOOSE x \in Ts : TRUE) = 0
  <2>1. (CHOOSE x \in Ts : TRUE) \in D
    BY <1>4
  <2>2. QED BY <1>3, <2>1
<1>5. Ps(h)
  <2>1. \A Ts \in SUBSET D : h[Ts] = IF Ts = {} THEN 0
                          ELSE open(CHOOSE x \in Ts : TRUE)
                               + h[Ts \ {CHOOSE x \in Ts : TRUE}]
    BY <1>4
  <2>2. QED BY <2>1
<1>6. Ps(G)
  <2> HIDE DEF Ps, h
  <2>1. QED BY <1>5
<1> HIDE DEF G
<1>7. SumsOn(G, f, D)
  <2>1. ASSUME NEW Ts \in SUBSET D PROVE SumAt(G, f, Ts)
    <3>1. CASE Ts = {}
      BY <1>6, <3>1 DEF SumAt
    <3>2. CASE Ts # {}
      <4>1. (CHOOSE x \in Ts : TRUE) \in D
        BY <3>2
      <4>2. f[CHOOSE x \in Ts : TRUE] = open(CHOOSE x \in Ts : TRUE)
        BY <1>3, <4>1
      <4> HIDE DEF f
      <4>3. QED BY <1>6, <3>2, <4>2 DEF SumAt
    <3>3. QED BY <3>1, <3>2
  <2>2. QED BY <2>1 DEF SumsOn
<1>8. SumsOn(h, f, D)
  <2>1. ASSUME NEW Ts \in SUBSET D PROVE SumAt(h, f, Ts)
    <3>1. CASE Ts = {}
      BY <3>1 DEF SumAt
    <3>2. CASE Ts # {}
      <4>1. (CHOOSE x \in Ts : TRUE) \in D /\ Ts \ {CHOOSE x \in Ts : TRUE} \in SUBSET D
        BY <3>2
      <4>2. f[CHOOSE x \in Ts : TRUE] = 0 /\ h[Ts \ {CHOOSE x \in Ts : TRUE}] = 0 /\ h[Ts] = 0
        BY <4>1
      <4> HIDE DEF f, h
      <4>3. QED BY <3>2, <4>2 DEF SumAt
    <3>3. QED BY <3>1, <3>2
  <2>2. QED BY <2>1 DEF SumsOn
<1>9. G[D] = h[D]
  <2> HIDE DEF f, h
  <2>1. \A Ts \in SUBSET D : G[Ts] = h[Ts]
    BY <1>2, <1>7, <1>8, SumUnique
  <2>2. QED BY <2>1
<1>10. QED BY <1>1, <1>9

\* The leaves are the nodes without a chain, one for each number.
LEMMA LeavesCounted ==
    ASSUME DTInv
    PROVE  Cardinality({p \in DOMAIN tree : tree[p].ht = <<>>}) = nSites
<1> DEFINE f == [p \in Leaves |-> tree[p].i]
<1>1. {p \in DOMAIN tree : tree[p].ht = <<>>} = Leaves
  BY DEF DTInv, TreeIsClosed, Leaves
<1>2. nSites \in Nat
  BY ListFacts DEF DTInv
<1>3. IsFiniteSet(1..nSites) /\ Cardinality(1..nSites) = nSites
  BY <1>2, FS_Interval
<1>4. f \in [Leaves -> 1..nSites]
  BY DEF DTInv, LeavesNumberSites
<1>5. \A a, b \in Leaves : f[a] = f[b] => a = b
  BY DEF DTInv, LeavesNumberSites
<1>6. \A n \in 1..nSites : \E p \in Leaves : f[p] = n
  BY DEF DTInv, LeavesNumberSites
<1> HIDE DEF f
<1>7. f \in Bijection(Leaves, 1..nSites)
  BY <1>4, <1>5, <1>6 DEF Bijection, Injection, Surjection, IsInjective
<1>8. ExistsBijection(1..nSites, Leaves)
  BY <1>7, Fun_ExistsBijSymmetric DEF ExistsBijection
<1>9. Cardinality(Leaves) = nSites
  BY <1>2, <1>8, FS_CountingElements
<1>10. QED BY <1>1, <1>9

LEMMA InvNodes == DTInv => NodesBounded
<1> SUFFICES ASSUME DTInv, proc = "idle"
             PROVE  /\ countNodesDT <= nSites * siteSize + 1
                    /\ countNodesDT >= nSites + 1
                    /\ nSites > 0 => countLeavesDT = nSites
  BY DEF NodesBounded
<1>1. nSites \in Nat /\ Elements \in Nat
  BY ListFacts, ElementsType DEF DTInv
<1>2. nSites * siteSize \in Nat
  BY <1>1, SizeFacts
<1>3. Elements <= nSites * siteSize /\ Elements >= nSites
  BY Settled DEF Missing, Running, DTInv, ElementsCounted
<1>4. countNodesDT = 1 + Elements
  BY NodesCounted
<1>5. countNodesDT <= nSites * siteSize + 1
  <2> DEFINE most == nSites * siteSize
  <2>1. most \in Nat /\ Elements <= most
    BY <1>2, <1>3
  <2> HIDE DEF most
  <2>2. 1 + Elements <= most + 1
    BY <1>1, <2>1
  <2>3. QED BY <1>4, <2>2 DEF most
<1>6. countNodesDT >= nSites + 1
  BY <1>1, <1>3, <1>4
<1>7. ASSUME nSites > 0 PROVE countLeavesDT = nSites
  <2>1. tree # <<>>
    <3>1. 1 \in 1..nSites
      BY <1>1, <1>7
    <3>2. Leaves # {}
      BY <3>1 DEF DTInv, LeavesNumberSites
    <3>3. DOMAIN tree # {}
      BY <3>2 DEF Leaves
    <3>4. QED BY <3>3
  <2>2. countLeavesDT = Cardinality({p \in DOMAIN tree : tree[p].ht = <<>>}) + 0
    BY <2>1, NoneOpen DEF countLeavesDT
  <2>3. QED BY <1>1, <2>2, LeavesCounted
<1>8. QED BY <1>5, <1>6, <1>7

(***************************************************************************)
(* The tree invariant, for every set of sites, every site size and any     *)
(* number of programs: chains without repetition, no element whose node is *)
(* never created, leaves numbered from 1, the bound that printInfoDT       *)
(* prints and the count of leaves.                                         *)
(***************************************************************************)
THEOREM TreeCorrect == DTSpec => []TreeInv
<1>1. DTInv => TreeInv
  BY InvType, InvNodes DEF DTInv, TreeInv
<1>2. QED BY <1>1, DTInvariance, PTL

-----------------------------------------------------------------------------
(***************************************************************************)
(* The tree implements the index.                                          *)
(***************************************************************************)
Key == KeyOf(withLabels, siteG)
AllKeys == {KeyOf(w, g) : w \in BOOLEAN, g \in NGraphs}
LeafNumbers == [key \in Leaves |-> tree[key].i]
Owners == [n \in 1..nSites |-> Range(sites[n])]

\* The path of a call spells the first letters of its key.
LEMMA KeyFacts ==
    ASSUME DTInv, Running
    PROVE  /\ Key \in AllKeys /\ Key \in Seq(MyLetters) /\ Len(Key) = siteSize
           /\ \A r \in 1..siteSize : Key[r] = Letter(withLabels, siteG, r)
           /\ SubSeq(Key, 1, Len(dn)) = dn
           /\ Leaf => dn = Key
<1>1. siteG \in NGraphs /\ withLabels \in BOOLEAN /\ dn \in Paths
  BY DEF DTInv, CallsPlace, Flags
<1>2. Key = [r \in 1..siteSize |-> Letter(withLabels, siteG, r)]
  BY DEF Key, KeyOf
<1>3. \A r \in 1..siteSize : Letter(withLabels, siteG, r) \in MyLetters
  BY <1>1 DEF MyLetters
<1>4. Key \in Seq(MyLetters) /\ Len(Key) = siteSize
  <2>1. Key \in [1..siteSize -> MyLetters]
    BY <1>2, <1>3
  <2>2. Key \in Seq(MyLetters)
    BY <2>1, SizeFacts
  <2>3. QED BY <2>1, <2>2, SizeFacts, LenProperties
<1>5. \A r \in 1..siteSize : Key[r] = Letter(withLabels, siteG, r)
  BY <1>2
<1>6. dn \in Seq(MyLetters) /\ Len(dn) \in Nat /\ Len(dn) <= siteSize
  BY <1>1, PathFacts
<1>7. \A r \in 1..Len(dn) : dn[r] = Key[r]
  BY <1>5, <1>6, SizeFacts DEF DTInv, CallsPlace
<1> HIDE DEF Key
<1>8. SubSeq(Key, 1, Len(dn)) = dn
  <2> DEFINE p == SubSeq(Key, 1, Len(dn))
  <2>1. Len(dn) \in 0..Len(Key)
    BY <1>4, <1>6, SizeFacts
  <2>2. p \in Seq(MyLetters) /\ Len(p) = Len(dn) /\ \A m \in 1..Len(dn) : p[m] = Key[m]
    BY <1>4, <2>1, PrefixFacts
  <2> HIDE DEF p
  <2>3. p = dn
    BY <1>6, <1>7, <2>2, SeqEqual
  <2>4. QED BY <2>3 DEF p
<1>9. ASSUME Leaf PROVE dn = Key
  <2>1. Len(dn) = siteSize
    BY <1>6, <1>9, SizeFacts DEF Leaf, depth
  <2>2. QED BY <1>4, <1>8, <2>1, SubSeqFull
<1>10. Key \in AllKeys
  BY <1>1 DEF Key, AllKeys
<1>11. QED BY <1>4, <1>5, <1>8, <1>9, <1>10

\* A call that finds no node or no element for its letter is for a site that
\* was not learnt.
LEMMA NotLearnt ==
    ASSUME DTInv, Running, dn \notin DOMAIN tree \/ (Found /\ ~Leaf /\ Matching = {})
    PROVE  Key \notin Leaves
<1> SUFFICES ASSUME Key \in Leaves PROVE FALSE
  OBVIOUS
<1>1. Key \in DOMAIN tree /\ Key \in Seq(MyLetters) /\ Len(Key) = siteSize
      /\ SubSeq(Key, 1, Len(dn)) = dn
  BY KeyFacts DEF Leaves
<1>2. dn \in Paths /\ Len(dn) \in 0..siteSize /\ dn \in Seq(MyLetters)
  BY PathFacts, SizeFacts DEF DTInv, CallsPlace
<1>3. \A k \in 0..siteSize : SubSeq(Key, 1, k) \in DOMAIN tree
  BY <1>1 DEF DTInv, Shape
<1>4. dn \in DOMAIN tree
  BY <1>1, <1>2, <1>3
<1>5. Found /\ ~Leaf /\ Matching = {}
  BY <1>4
<1>6. /\ Len(dn) < siteSize /\ Element \in MyLetters
      /\ Element = Letter(withLabels, siteG, Len(dn) + 1)
  BY <1>5, ElementFacts
<1> DEFINE q == SubSeq(Key, 1, Len(dn) + 1)
<1>7. q \in DOMAIN tree
  <2>1. Len(dn) + 1 \in 0..siteSize
    BY <1>2, <1>6, SizeFacts
  <2>2. QED BY <1>3, <2>1
<1>8. q = Append(dn, Element)
  <2>1. Len(dn) + 1 \in 0..Len(Key) /\ Len(dn) \in Nat /\ Len(dn) + 1 \in 1..siteSize
    BY <1>1, <1>2, <1>6, SizeFacts
  <2>2. q \in Seq(MyLetters) /\ Len(q) = Len(dn) + 1
        /\ \A m \in 1..(Len(dn) + 1) : q[m] = Key[m]
    BY <1>1, <2>1, PrefixFacts
  <2>3. /\ Append(dn, Element) \in Seq(MyLetters) /\ Len(Append(dn, Element)) = Len(dn) + 1
        /\ \A m \in 1..Len(dn) : Append(dn, Element)[m] = dn[m]
        /\ Append(dn, Element)[Len(dn) + 1] = Element
    BY <1>2, <1>6, AppendProperties
  <2>4. \A m \in 1..siteSize : Key[m] = Letter(withLabels, siteG, m)
    BY KeyFacts
  <2>5. \A m \in 1..Len(dn) : dn[m] = Letter(withLabels, siteG, m)
    BY DEF DTInv, CallsPlace
  <2> HIDE DEF q
  <2>6. \A m \in 1..(Len(dn) + 1) : q[m] = Append(dn, Element)[m]
    BY <1>6, <2>1, <2>2, <2>3, <2>4, <2>5, SizeFacts
  <2>7. QED BY <2>2, <2>3, <2>6, SeqEqual
<1>9. q # <<>> /\ Front(q) = dn /\ Last(q) = Element
  BY <1>2, <1>6, <1>8, ExtendPath
<1> HIDE DEF q
<1>10. Element \in Range(tree[dn].ht)
  BY <1>7, <1>9 DEF DTInv, TreeIsClosed
<1>11. QED BY <1>5, <1>10, MatchingFacts

LEMMA SameIndex ==
    ASSUME UNCHANGED <<sites, progs, answer>>, Leaves' = Leaves,
           \A p \in Leaves : tree'[p].i = tree[p].i
    PROVE  UNCHANGED Index!ivars
<1>1. nSites' = nSites /\ nProgs' = nProgs
  BY DEF nSites, nProgs
<1>2. LeafNumbers' = LeafNumbers
  BY DEF LeafNumbers
<1>3. Owners' = Owners
  BY <1>1 DEF Owners
<1>4. QED BY <1>1, <1>2, <1>3 DEF Index!ivars, LeafNumbers, Owners

LEMMA InitIndex == DTInit => Index!Init
<1> SUFFICES ASSUME DTInit PROVE Index!Init
  OBVIOUS
<1>1. DOMAIN tree = {} /\ sites = <<>> /\ progs = <<>>
      /\ answer = [learn |-> FALSE, i |-> 0]
  BY DEF DTInit
<1>2. nSites = 0 /\ nProgs = 0 /\ 1..nSites = {} /\ Leaves = {}
  BY <1>1 DEF nSites, nProgs, Leaves
<1>3. [key \in Leaves |-> tree[key].i] = [k \in {} |-> 0]
  BY <1>2
<1>4. [n \in 1..nSites |-> Range(sites[n])] = [k \in {} |-> {}]
  BY <1>2
<1>5. QED BY <1>1, <1>2, <1>3, <1>4 DEF Index!Init

LEMMA WalkStutters ==
    ASSUME DTInv, searchDn \/ newInnerNode \/ addElement
    PROVE  UNCHANGED Index!ivars
<1>1. UNCHANGED <<sites, progs, answer>> /\ Running /\ ~Leaf
  BY DEF searchDn, newInnerNode, addElement, Recurse, Found, Missing
<1>2. dn \in Paths /\ Len(dn) < siteSize /\ Len(dn) \in Nat /\ Element \in MyLetters
  BY <1>1, ElementFacts, PathFacts
<1>3. CASE searchDn
  BY <1>1, <1>3, SameIndex DEF searchDn, Leaves
<1>4. CASE newInnerNode
  <2>1. /\ tree' = [p \in DOMAIN tree \cup {dn} |->
                       IF p = dn THEN [i |-> depth, ht |-> <<Element>>] ELSE tree[p]]
        /\ dn \notin DOMAIN tree
    BY <1>4 DEF newInnerNode, Insert, Missing
  <2>2. Leaves' = Leaves /\ \A p \in Leaves : tree'[p].i = tree[p].i
    BY <1>2, <2>1 DEF Leaves
  <2>3. QED BY <1>1, <2>2, SameIndex
<1>5. CASE addElement
  <2>1. tree' = [tree EXCEPT ![dn].ht = Append(@, Element)] /\ dn \in DOMAIN tree
    BY <1>5 DEF addElement, Found
  <2>2. Leaves' = Leaves /\ \A p \in Leaves : p # dn
    BY <1>2, <2>1 DEF Leaves
  <2>3. \A p \in Leaves : tree'[p] = tree[p]
    BY <2>1, <2>2 DEF Leaves
  <2>4. QED BY <1>1, <2>2, <2>3, SameIndex
<1>6. QED BY <1>3, <1>4, <1>5

LEMMA AddProgIndex ==
    ASSUME DTInv, addProgToDT
    PROVE  Index!AddProg
<1>1. /\ nProgs < MaxProgs /\ progs' = Append(progs, <<>>)
      /\ UNCHANGED <<tree, sites, answer>>
  BY DEF addProgToDT
<1>2. progs \in Seq(Seq(1..nSites)) /\ <<>> \in Seq(1..nSites)
  BY EmptySeq DEF DTInv, Lists
<1> DEFINE Ts == Seq(1..nSites)
<1> HIDE DEF Ts
<1>3. progs \in Seq(Ts) /\ <<>> \in Ts
  BY <1>2 DEF Ts
<1>4. nProgs' = nProgs + 1
  BY <1>1, <1>3, AppendProperties DEF nProgs
<1>5. nSites' = nSites /\ Leaves' = Leaves
  BY <1>1 DEF nSites, Leaves
<1>6. LeafNumbers' = LeafNumbers /\ Owners' = Owners
  BY <1>1, <1>5 DEF LeafNumbers, Owners
<1>7. QED BY <1>1, <1>4, <1>5, <1>6 DEF Index!AddProg, LeafNumbers, Owners

\* A call that gives up has looked for an unknown key.
LEMMA GiveUpIndex ==
    ASSUME DTInv, NoNode \/ NoElement
    PROVE  Key \in AllKeys /\ Index!Look(Key)
<1>1. /\ Running /\ Returns(0) /\ ~learn /\ UNCHANGED <<tree, sites, progs>>
      /\ dn \notin DOMAIN tree \/ (Found /\ ~Leaf /\ Matching = {})
  BY DEF NoNode, NoElement, Missing, Found
<1>2. Key \notin Leaves /\ Key \in AllKeys
  BY <1>1, NotLearnt, KeyFacts
<1>3. answer' = [learn |-> FALSE, key |-> Key, i |-> 0]
  BY <1>1 DEF Returns, Key, DTInv, Flags
<1>4. nSites' = nSites /\ nProgs' = nProgs /\ Leaves' = Leaves
  BY <1>1 DEF nSites, nProgs, Leaves
<1>5. LeafNumbers' = LeafNumbers /\ Owners' = Owners
  BY <1>1, <1>4 DEF LeafNumbers, Owners
<1> HIDE DEF Key
<1>6. QED BY <1>2, <1>3, <1>4, <1>5
          DEF Index!Look, Index!Answer, Index!Find, Index!Learnt, LeafNumbers, Owners

LEMMA NewLeafIndex ==
    ASSUME DTInv, newLeaf
    PROVE  Key \in AllKeys /\ Index!LearnNew(Key)
<1>1. /\ Running /\ Missing /\ learn /\ Leaf /\ dn \notin DOMAIN tree
      /\ sites' = Append(sites, <<prg>>)
      /\ progs' = [progs EXCEPT ![prg] = Append(@, nSites')]
      /\ tree' = [p \in DOMAIN tree \cup {dn} |->
                     IF p = dn THEN [i |-> nSites', ht |-> <<>>] ELSE tree[p]]
      /\ Returns(0)
  BY DEF newLeaf, Missing, addSite, LeafNumber, Insert
<1>2. /\ Key \in AllKeys /\ dn = Key /\ Key \notin Leaves /\ Len(Key) = siteSize
  BY <1>1, KeyFacts, NotLearnt
<1>3. answer' = [learn |-> TRUE, key |-> Key, i |-> 0]
  BY <1>1 DEF Returns, Key, DTInv, Flags
<1>4. /\ nSites \in Nat /\ nProgs > 0 /\ nProgs \in Nat /\ prg = nProgs
      /\ sites \in Seq(Seq(1..nProgs)) /\ <<prg>> \in Seq(1..nProgs)
  <2>1. nProgs > 0
    BY <1>1 DEF DTInv, CallsPlace
  <2>2. QED BY <2>1, ListFacts DEF prg, DTInv, Lists
<1>5. /\ nSites' = nSites + 1
      /\ \A k \in 1..nSites : sites'[k] = sites[k]
      /\ sites'[nSites + 1] = <<prg>>
  <2> DEFINE Ts == Seq(1..nProgs)
  <2>1. sites \in Seq(Ts) /\ <<prg>> \in Ts
    BY <1>4
  <2> HIDE DEF Ts
  <2>2. QED BY <1>1, <2>1, AppendProperties DEF nSites
<1>6. nProgs' = nProgs
  <2>1. DOMAIN progs = 1..nProgs /\ nProgs \in Nat
    BY ListFacts DEF DTInv
  <2>2. /\ progs \in Seq(Seq(1..nSites)) /\ progs' = [p \in 1..nProgs |-> progs'[p]]
    BY <1>1, <2>1 DEF DTInv, Lists
  <2>3. Len(progs') = nProgs
    BY <2>1, <2>2
  <2>4. QED BY <2>3 DEF nProgs
<1> HIDE DEF Key
<1>7. Leaves' = Leaves \cup {Key}
  BY <1>1, <1>2 DEF Leaves
<1>8. LeafNumbers' = [key \in Leaves \cup {Key} |-> IF key = Key THEN nSites + 1 ELSE LeafNumbers[key]]
  <2>1. \A key \in Leaves : tree'[key] = tree[key] /\ key # Key
    BY <1>1, <1>2 DEF Leaves
  <2>2. tree'[Key].i = nSites + 1
    BY <1>1, <1>2, <1>5
  <2>3. QED BY <1>7, <2>1, <2>2 DEF LeafNumbers
<1>9. Owners' = [n \in 1..nSites' |-> IF n = nSites' THEN {nProgs} ELSE Owners[n]]
  <2>1. Range(<<prg>>) = {nProgs}
    BY <1>4 DEF Range
  <2>2. \A n \in 1..nSites' : n # nSites' => n \in 1..nSites
    BY <1>4, <1>5
  <2>3. QED BY <1>4, <1>5, <2>1, <2>2 DEF Owners
<1>10. QED BY <1>2, <1>3, <1>4, <1>5, <1>6, <1>8, <1>9
           DEF Index!LearnNew, Index!IsNew, Index!Learnt, Index!Answer, Index!NewNumber,
               Index!FirstOwner, LeafNumbers, Owners

LEMMA FoundIndex ==
    ASSUME DTInv, foundSite
    PROVE  Key \in AllKeys /\ (Index!LearnKnown(Key) \/ Index!Look(Key))
<1> DEFINE n == tree[dn].i
<1>1. /\ Running /\ Leaf /\ dn \in DOMAIN tree /\ Returns(n) /\ UNCHANGED tree
  BY DEF foundSite, Found
<1>2. Key \in AllKeys /\ dn = Key /\ Len(Key) = siteSize
  BY <1>1, KeyFacts
<1>3. answer' = [learn |-> learn, key |-> Key, i |-> n]
  BY <1>1 DEF Returns, Key
<1> HIDE DEF Key
<1>4. Key \in Leaves /\ Leaves' = Leaves
  BY <1>1, <1>2 DEF Leaves
<1>5. n \in 1..nSites /\ n # 0 /\ nSites \in Nat
  BY <1>2, <1>4, ListFacts DEF DTInv, LeavesNumberSites
<1>6. LeafNumbers' = LeafNumbers /\ LeafNumbers[Key] = n
  BY <1>1, <1>2, <1>4 DEF LeafNumbers
<1> HIDE DEF n
<1>7. CASE ~learn
  <2>1. UNCHANGED <<sites, progs>>
    BY <1>7 DEF foundSite, AddsPrg
  <2>2. nSites' = nSites /\ nProgs' = nProgs
    BY <2>1 DEF nSites, nProgs
  <2>3. Owners' = Owners
    BY <2>1, <2>2 DEF Owners
  <2>4. answer' = [learn |-> FALSE, key |-> Key, i |-> n]
    BY <1>3, <1>7 DEF DTInv, Flags
  <2>5. Index!Look(Key)
    BY <1>4, <1>6, <2>2, <2>3, <2>4
       DEF Index!Look, Index!Answer, Index!Find, Index!Learnt, LeafNumbers, Owners
  <2>6. QED BY <1>2, <2>5
<1>8. CASE learn
  <2>1. nProgs > 0 /\ nProgs \in Nat /\ prg = nProgs
    BY <1>1, <1>8, ListFacts DEF DTInv, CallsPlace, prg
  <2>2. /\ DOMAIN sites = 1..nSites /\ DOMAIN progs = 1..nProgs
        /\ sites \in Seq(Seq(1..nProgs)) /\ progs \in Seq(Seq(1..nSites))
        /\ sites[n] \in Seq(1..nProgs)
    BY <1>5, ListFacts DEF DTInv, Lists
  <2>3. /\ nSites' = nSites /\ nProgs' = nProgs
        /\ \A k \in 1..nSites : k # n => sites'[k] = sites[k]
        /\ Range(sites'[n]) = Range(sites[n]) \cup {nProgs}
    <3>1. CASE AddsPrg(n)
      <4>1. /\ sites' = [sites EXCEPT ![n] = Append(@, prg)]
            /\ progs' = [progs EXCEPT ![prg] = Append(@, n)]
        BY <3>1 DEF foundSite, addSite, AddsPrg, n
      <4> DEFINE Ps == 1..nProgs
      <4>2. sites[n] \in Seq(Ps) /\ prg \in Ps
        BY <2>1, <2>2
      <4> HIDE DEF Ps
      <4>3. Range(Append(sites[n], prg)) = Range(sites[n]) \cup {prg}
        BY <4>2, RangeAppend
      <4>4. sites'[n] = Append(sites[n], prg) /\ \A k \in 1..nSites : k # n => sites'[k] = sites[k]
        BY <1>5, <2>2, <4>1
      <4>5. nSites' = nSites
        <5>1. sites' = [k \in 1..nSites |-> sites'[k]]
          BY <2>2, <4>1
        <5>2. Len(sites') = nSites
          BY <1>5, <5>1
        <5>3. QED BY <5>2 DEF nSites
      <4>6. nProgs' = nProgs
        <5>1. progs' = [p \in 1..nProgs |-> progs'[p]]
          BY <2>2, <4>1
        <5>2. Len(progs') = nProgs
          BY <2>1, <5>1
        <5>3. QED BY <5>2 DEF nProgs
      <4>7. QED BY <2>1, <4>3, <4>4, <4>5, <4>6
    <3>2. CASE ~AddsPrg(n)
      <4>1. UNCHANGED <<sites, progs>>
        BY <3>2 DEF foundSite, n
      <4>2. prg \in Range(sites[n])
        BY <1>5, <1>8, <3>2 DEF AddsPrg
      <4>3. QED BY <2>1, <4>1, <4>2 DEF nSites, nProgs
    <3>3. QED BY <3>1, <3>2
  <2>4. Owners' = [Owners EXCEPT ![n] = Owners[n] \cup {nProgs}]
    BY <1>5, <2>3 DEF Owners
  <2>5. answer' = [learn |-> TRUE, key |-> Key, i |-> n]
    BY <1>3, <1>8 DEF DTInv, Flags
  <2>6. Index!LearnKnown(Key)
    BY <1>4, <1>6, <2>1, <2>3, <2>4, <2>5
       DEF Index!LearnKnown, Index!Learnt, Index!Answer, Index!WithOwner, LeafNumbers, Owners
  <2>7. QED BY <1>2, <2>6
<1>9. QED BY <1>7, <1>8 DEF DTInv, Flags

LEMMA StepIndex == DTInv /\ [DTNext]_dtVars => [Index!Next]_(Index!ivars)
<1> SUFFICES ASSUME DTInv, [DTNext]_dtVars PROVE Index!Next \/ UNCHANGED Index!ivars
  OBVIOUS
<1>1. CASE addProgToDT
  BY <1>1, AddProgIndex DEF Index!Next
<1>2. ASSUME NEW g \in NGraphs, learnSite(g) \/ findSite(g)
      PROVE  UNCHANGED Index!ivars
  BY <1>2, SameIndex DEF learnSite, findSite, Call, Leaves
<1>3. CASE UNCHANGED dtVars
  BY <1>3, SameIndex DEF dtVars, Leaves
<1>4. CASE searchDn \/ newInnerNode \/ addElement
  BY <1>4, WalkStutters
<1>5. CASE NoNode \/ NoElement
  BY <1>5, GiveUpIndex DEF Index!Next, AllKeys
<1>6. CASE newLeaf
  <2>1. Key \in AllKeys /\ Index!LearnNew(Key)
    BY <1>6, NewLeafIndex
  <2>2. \E k \in AllKeys : Index!Learn(k) \/ Index!Look(k)
    BY <2>1, Zenon DEF Index!Learn, Index!LearnNew
  <2>3. QED BY <2>2 DEF Index!Next, AllKeys
<1>7. CASE foundSite
  BY <1>7, FoundIndex DEF Index!Next, Index!Learn, AllKeys
<1>8. QED BY <1>1, <1>2, <1>3, <1>4, <1>5, <1>6, <1>7 DEF DTNext, learnSiteR

(***************************************************************************)
(* The decision tree implements SiteIndex, whatever the sites learnt and   *)
(* in whatever order: two sites share a number iff they share their key,   *)
(* and every call answers what the index answers.                          *)
(***************************************************************************)
THEOREM TreeImplementsIndex == DTSpec => ImplementsIndex
<1>1. DTSpec => Index!Init /\ [][Index!Next]_(Index!ivars)
  BY DTInvariance, InitIndex, StepIndex, PTL DEF DTSpec
<1>2. QED BY <1>1 DEF ImplementsIndex, Index!Spec
=============================================================================
