----------------------------- MODULE GTSI_proofs ----------------------------
(***************************************************************************)
(* Proofs about GTSI and the words of its traversals, for every list of    *)
(* graphs and all options.                                                 *)
(*                                                                         *)
(* First part, the program.  The inductive invariant GTSIInv is            *)
(* LearningInv (the words learnt are those of the roots seen so far, each  *)
(* at one leaf of the tree, and as many as the counters say), ScanInv      *)
(* (each call of the search stands where a walk of its own letters would   *)
(* stand, no leaf that can be reached is passed by, and the leaves counted *)
(* are those reached from the roots before) and AnswersInv (each count     *)
(* given is that of the words that can be walked).  Its base is            *)
(* ParcoursFacts, on the words parcoursLargeur writes: they can be walked  *)
(* from the root they were written for.                                    *)
(*                                                                         *)
(* Second part, from "Routes from a root": a word says all of its site     *)
(* when no node has more than two children.  ReadsSite, kept by each step  *)
(* of parcoursLargeur, ties the word written so far to the queue: the      *)
(* nodes found are the first of their routes (ByRoutes), the queue and the *)
(* links taken from it are in one order (SiteSearch), and the letters are  *)
(* those of the links taken (Spells).  Two sites with the same links are   *)
(* therefore spelt alike (SameSpelt), and a word read back gives its links *)
(* and its labels (ToldTwice).                                             *)
(***************************************************************************)
EXTENDS GTSI, DataLemmas, FunctionTheorems

(***************************************************************************)
(* Letters and words.  NumbersIn(p, j) is how many of the first j letters  *)
(* number a node.  A word is well formed when its first letter alone is    *)
(* for a root, a letter for a new node has the next number, and the other  *)
(* numbers were given before.                                              *)
(***************************************************************************)
WordLetters == [type : {"M1"}, symbol : Nat]
               \cup [type : {"R"}, i : Nat \ {0}]
               \cup [type : {"new"}, k : Nat \ {0}, i : Nat \ {0}, symbol : Nat]
               \cup [type : {"old"}, k : Nat \ {0}, i : Nat \ {0}]

Numbers(m) == m.type \in {"M1", "new"}
NumbersIn(p, j) == Cardinality({h \in 1..j : Numbers(p[h])})

LetterFollows(p, j) ==
    /\ p[j].type = "M1" <=> j = 1
    /\ p[j].type = "new" => p[j].i = NumbersIn(p, j - 1) + 1
    /\ p[j].type \in {"R", "old"} => p[j].i <= NumbersIn(p, j - 1)

WellFormed(p) == p \in Seq(WordLetters) /\ \A j \in 1..Len(p) : LetterFollows(p, j)

LEMMA LetterFacts ==
    ASSUME NEW m \in WordLetters
    PROVE  /\ m.type \in {"M1", "R", "new", "old"}
           /\ m.type \in {"M1", "new"} => m.symbol \in Nat
           /\ m.type \in {"R", "new", "old"} => m.i \in Nat \ {0}
           /\ m.type \in {"new", "old"} => m.k \in Nat \ {0}
BY DEF WordLetters

LEMMA NumbersFacts ==
    ASSUME NEW p
    PROVE  /\ NumbersIn(p, 0) = 0
           /\ \A j \in Nat : /\ NumbersIn(p, j) \in Nat /\ NumbersIn(p, j) <= j
                             /\ NumbersIn(p, j + 1) = NumbersIn(p, j) + IF Numbers(p[j + 1]) THEN 1 ELSE 0
<1> DEFINE S(j) == {h \in 1..j : Numbers(p[h])}
<1>1. \A j \in Nat : IsFiniteSet(S(j)) /\ Cardinality(S(j)) \in Nat /\ Cardinality(S(j)) <= j
  <2>1. ASSUME NEW j \in Nat PROVE IsFiniteSet(S(j)) /\ Cardinality(S(j)) \in Nat /\ Cardinality(S(j)) <= j
    <3>1. IsFiniteSet(1..j) /\ Cardinality(1..j) = j
      BY FS_Interval
    <3>2. S(j) \in SUBSET (1..j)
      OBVIOUS
    <3> HIDE DEF S
    <3>3. QED BY <3>1, <3>2, FS_Subset, FS_CardinalityType
  <2>2. QED BY <2>1
<1>2. NumbersIn(p, 0) = 0
  <2>1. S(0) = {}
    OBVIOUS
  <2>2. QED BY <2>1, FS_EmptySet DEF NumbersIn
<1>3. ASSUME NEW j \in Nat
      PROVE  NumbersIn(p, j + 1) = NumbersIn(p, j) + IF Numbers(p[j + 1]) THEN 1 ELSE 0
  <2>1. CASE Numbers(p[j + 1])
    <3>1. S(j + 1) = S(j) \cup {j + 1} /\ j + 1 \notin S(j)
      BY <2>1
    <3> HIDE DEF S
    <3>2. Cardinality(S(j + 1)) = Cardinality(S(j)) + 1
      BY <1>1, <3>1, FS_AddElement
    <3>3. QED BY <2>1, <3>2 DEF NumbersIn, S
  <2>2. CASE ~Numbers(p[j + 1])
    <3>1. S(j + 1) = S(j)
      BY <2>2
    <3>2. S(j + 1) = {h \in 1..(j + 1) : Numbers(p[h])} /\ S(j) = {h \in 1..j : Numbers(p[h])}
      OBVIOUS
    <3> HIDE DEF S
    <3>3. NumbersIn(p, j + 1) = NumbersIn(p, j) /\ NumbersIn(p, j) \in Nat
      BY <1>1, <3>1, <3>2 DEF NumbersIn
    <3>4. QED BY <2>2, <3>3
  <2>3. QED BY <2>1, <2>2
<1>4. QED BY <1>1, <1>2, <1>3 DEF NumbersIn

\* Words with the same types have the same numbers.
LEMMA NumbersSame ==
    ASSUME NEW p, NEW q, NEW j \in Nat, \A h \in 1..j : p[h].type = q[h].type
    PROVE  \A k \in 0..j : NumbersIn(p, k) = NumbersIn(q, k)
<1>1. ASSUME NEW k \in 0..j PROVE NumbersIn(p, k) = NumbersIn(q, k)
  <2>1. {h \in 1..k : Numbers(p[h])} = {h \in 1..k : Numbers(q[h])}
    BY DEF Numbers
  <2>2. QED BY <2>1 DEF NumbersIn
<1>2. QED BY <1>1

LEMMA NumbersGrow ==
    ASSUME NEW p, NEW j \in Nat
    PROVE  \A k \in 0..j : NumbersIn(p, k) <= NumbersIn(p, j)
<1>1. ASSUME NEW k \in 0..j PROVE NumbersIn(p, k) <= NumbersIn(p, j)
  <2>1. {h \in 1..k : Numbers(p[h])} \in SUBSET {h \in 1..j : Numbers(p[h])}
    OBVIOUS
  <2>2. IsFiniteSet({h \in 1..j : Numbers(p[h])})
    <3>1. IsFiniteSet(1..j) /\ {h \in 1..j : Numbers(p[h])} \in SUBSET (1..j)
      BY FS_Interval
    <3>2. QED BY <3>1, FS_Subset
  <2>3. QED BY <2>1, <2>2, FS_Subset DEF NumbersIn
<1>2. QED BY <1>1

\* A word and one letter more.
LEMMA WellFormedAppend ==
    ASSUME NEW p, WellFormed(p), NEW m \in WordLetters,
           m.type = "M1" <=> p = <<>>,
           m.type = "new" => m.i = NumbersIn(p, Len(p)) + 1,
           m.type \in {"R", "old"} => m.i <= NumbersIn(p, Len(p))
    PROVE  /\ WellFormed(Append(p, m))
           /\ NumbersIn(Append(p, m), Len(p)) = NumbersIn(p, Len(p))
           /\ NumbersIn(Append(p, m), Len(p) + 1) = NumbersIn(p, Len(p)) + IF Numbers(m) THEN 1 ELSE 0
<1> DEFINE q == Append(p, m)
           n == Len(p)
<1>1. p \in Seq(WordLetters) /\ n \in Nat /\ \A j \in 1..n : LetterFollows(p, j)
  BY LenProperties DEF WellFormed
<1>2. q \in Seq(WordLetters) /\ Len(q) = n + 1 /\ (\A j \in 1..n : q[j] = p[j]) /\ q[n + 1] = m
  BY <1>1, AppendProperties
<1>3. \A k \in 0..n : NumbersIn(q, k) = NumbersIn(p, k)
  <2> HIDE DEF q, n
  <2>1. \A h \in 1..n : q[h].type = p[h].type
    BY <1>2
  <2>2. QED BY <1>1, <2>1, NumbersSame
<1>4. NumbersIn(q, n) = NumbersIn(p, n) /\ (p = <<>> <=> n = 0)
  BY <1>1, <1>3, EmptySeq
<1>5. NumbersIn(q, n + 1) = NumbersIn(p, n) + IF Numbers(m) THEN 1 ELSE 0
  <2> HIDE DEF q, n
  <2>1. NumbersIn(q, n + 1) = NumbersIn(q, n) + IF Numbers(q[n + 1]) THEN 1 ELSE 0
    BY <1>1, NumbersFacts
  <2>2. QED BY <1>2, <1>4, <2>1
<1> HIDE DEF q
<1>6. ASSUME NEW j \in 1..(n + 1) PROVE LetterFollows(q, j)
  <2>1. CASE j \in 1..n
    <3>1. q[j] = p[j] /\ NumbersIn(q, j - 1) = NumbersIn(p, j - 1) /\ LetterFollows(p, j)
      BY <1>1, <1>2, <1>3, <2>1
    <3>2. QED BY <3>1 DEF LetterFollows
  <2>2. CASE j = n + 1
    <3>1. q[j] = m /\ j - 1 = n /\ (j = 1 <=> p = <<>>)
      BY <1>1, <1>2, <1>4, <2>2
    <3>2. QED BY <1>4, <3>1 DEF LetterFollows
  <2>3. QED BY <1>1, <2>1, <2>2
<1>7. QED BY <1>2, <1>4, <1>5, <1>6 DEF WellFormed, q

-----------------------------------------------------------------------------
(***************************************************************************)
(* The walk of a word, one letter after the other, from any state.         *)
(***************************************************************************)
WalkStates(g) == [ok : BOOLEAN, sc : NodesOf(g), numeros : Seq(NodesOf(g))]
StartFrom(v) == [ok |-> TRUE, sc |-> v, numeros |-> <<>>]
WalkFrom(g, labels, q, p) == FoldLeft(LAMBDA w, m : walkLetter(g, labels, w, m), q, p)
WalkOf(g, v, p, labels) == WalkFrom(g, labels, StartFrom(v), p)

WalksAlong(r, g, labels, q, p) ==
    /\ r[0] = q /\ r[Len(p)] = WalkFrom(g, labels, q, p)
    /\ \A k \in 1..Len(p) : r[k] = walkLetter(g, labels, r[k - 1], p[k])

LEMMA GraphFacts ==
    ASSUME NEW g, IsGraph(g)
    PROVE  /\ \A x \in NodesOf(g) : g.symb[x] \in Nat /\ g.children[x] \in Seq(NodesOf(g))
           /\ \A x \in NodesOf(g) : /\ children_nb(g, x) \in Nat
                                    /\ DOMAIN g.children[x] = 1..children_nb(g, x)
                                    /\ \A k \in 1..children_nb(g, x) : g.children[x][k] \in NodesOf(g)
           /\ Len(g.children) \in Nat /\ NodesOf(g) = 1..Len(g.children)
<1>1. g.children \in Seq(Seq(NodesOf(g))) /\ g.symb \in [NodesOf(g) -> Nat]
  BY DEF IsGraph
<1>2. Len(g.children) \in Nat /\ NodesOf(g) = 1..Len(g.children)
  BY <1>1, LenProperties DEF NodesOf
<1>3. ASSUME NEW x \in NodesOf(g)
      PROVE  g.symb[x] \in Nat /\ g.children[x] \in Seq(NodesOf(g))
  BY <1>1, <1>2, ElementOfSeq
<1>4. ASSUME NEW x \in NodesOf(g)
      PROVE  /\ children_nb(g, x) \in Nat
             /\ DOMAIN g.children[x] = 1..children_nb(g, x)
             /\ \A k \in 1..children_nb(g, x) : g.children[x][k] \in NodesOf(g)
  <2>1. g.children[x] \in Seq(NodesOf(g))
    BY <1>3
  <2>2. QED BY <2>1, LenProperties, ElementOfSeq DEF children_nb
<1>5. QED BY <1>2, <1>3, <1>4

LEMMA WalkLetterType ==
    ASSUME NEW g, IsGraph(g), NEW labels, NEW w \in WalkStates(g), NEW m \in WordLetters
    PROVE  walkLetter(g, labels, w, m) \in WalkStates(g)
<1> DEFINE N == NodesOf(g)
           child == g.children[w.sc][m.k]
           fail == [w EXCEPT !.ok = FALSE]
           u == walkLetter(g, labels, w, m)
<1>1. w.ok \in BOOLEAN /\ w.sc \in N /\ w.numeros \in Seq(N)
  BY DEF WalkStates
<1>2. fail \in WalkStates(g)
  BY DEF WalkStates
<1>3. CASE ~w.ok
  BY <1>3 DEF walkLetter
<1>4. CASE w.ok /\ m.type = "M1"
  <2>1. <<w.sc>> \in Seq(N)
    BY <1>1
  <2>2. [w EXCEPT !.numeros = <<w.sc>>] \in WalkStates(g)
    BY <2>1 DEF WalkStates
  <2>3. u = IF w.numeros = <<>> /\ Fits(g, w.sc, m, labels)
            THEN [w EXCEPT !.numeros = <<w.sc>>] ELSE fail
    BY <1>4 DEF walkLetter
  <2>4. QED BY <1>2, <2>2, <2>3
<1>5. CASE w.ok /\ m.type = "R"
  <2>1. u = IF m.i <= Len(w.numeros) THEN [w EXCEPT !.sc = w.numeros[m.i]] ELSE w
    BY <1>5 DEF walkLetter
  <2>2. m.i \in Nat \ {0} /\ Len(w.numeros) \in Nat
    BY <1>1, <1>5, LetterFacts, LenProperties
  <2>3. CASE m.i <= Len(w.numeros)
    <3>1. m.i \in 1..Len(w.numeros)
      BY <2>2, <2>3
    <3>2. w.numeros[m.i] \in N
      BY <1>1, <3>1, ElementOfSeq
    <3>3. [w EXCEPT !.sc = w.numeros[m.i]] \in WalkStates(g)
      BY <3>2 DEF WalkStates
    <3>4. QED BY <2>1, <2>3, <3>3
  <2>4. QED BY <2>1, <2>3
<1>6. CASE w.ok /\ m.type \in {"new", "old"}
  <2>1. u = IF m.k > children_nb(g, w.sc) THEN fail
            ELSE IF m.type = "old"
                 THEN IF child \in Range(w.numeros) THEN [w EXCEPT !.sc = child] ELSE fail
            ELSE IF /\ child \notin Range(w.numeros) /\ Fits(g, child, m, labels)
                    /\ Len(w.numeros) < m.i
                 THEN [w EXCEPT !.sc = child, !.numeros = Append(@, child)]
            ELSE fail
    BY <1>6 DEF walkLetter
  <2>2. m.k \in Nat \ {0} /\ children_nb(g, w.sc) \in Nat
    BY <1>1, <1>6, LetterFacts, GraphFacts
  <2>3. CASE m.k <= children_nb(g, w.sc)
    <3>1. m.k \in 1..children_nb(g, w.sc)
      BY <2>2, <2>3
    <3>2. child \in N
      BY <1>1, <3>1, GraphFacts
    <3>3. Append(w.numeros, child) \in Seq(N)
      BY <1>1, <3>2, AppendProperties
    <3> HIDE DEF child, fail, u
    <3>4. /\ [w EXCEPT !.sc = child] \in WalkStates(g)
          /\ [w EXCEPT !.sc = child, !.numeros = Append(@, child)] \in WalkStates(g)
      BY <3>2, <3>3 DEF WalkStates
    <3>5. u \in WalkStates(g)
      BY <1>2, <2>1, <3>4
    <3>6. QED BY <3>5 DEF u
  <2>4. CASE m.k > children_nb(g, w.sc)
    <3> HIDE DEF fail, u
    <3>1. u = fail
      BY <2>1, <2>4
    <3>2. QED BY <1>2, <3>1 DEF u
  <2>5. QED BY <2>2, <2>3, <2>4
<1>7. QED BY <1>1, <1>3, <1>4, <1>5, <1>6, LetterFacts

LEMMA WalkTrace ==
    ASSUME NEW g, IsGraph(g), NEW labels, NEW q \in WalkStates(g), NEW p \in Seq(WordLetters)
    PROVE  \E r \in [0..Len(p) -> WalkStates(g)] : WalksAlong(r, g, labels, q, p)
<1> DEFINE n == Len(p)
           D == 1..n
           A == WalkStates(g)
           step == [x \in D \X A |-> walkLetter(g, labels, x[2], p[x[1]])]
           Q(h) == h = [S \in SUBSET D |->
                          IF S = {} THEN q ELSE walkLetter(g, labels, h[S \ {Max(S)}], p[Max(S)])]
           G == CHOOSE h : Q(h)
           mx == MaxIn(n)
<1>1. n \in Nat /\ DOMAIN p = D /\ \A k \in D : p[k] \in WordLetters
  BY ElementOfSeq, LenProperties
<1>2. WalkFrom(g, labels, q, p) = G[D]
  <2>1. DOMAIN p = D
    BY <1>1
  <2>2. QED BY <2>1 DEF WalkFrom, FoldLeft, MapThenFoldSet
<1>3. ASSUME NEW w \in A, NEW m \in WordLetters PROVE walkLetter(g, labels, w, m) \in A
  BY WalkLetterType
<1>4. /\ IsFiniteSet(D) /\ Chooses(mx, D)
      /\ \A S \in (SUBSET D) \ {{}} : Max(S) \in S
      /\ \A k \in D : Max(1..k) = k /\ (1..k) \ {k} = 1..(k - 1)
  BY <1>1, MaxChosen
<1>5. \A S \in SUBSET D : S # {} => Max(S) \in D /\ mx[S] = Max(S)
  BY <1>4 DEF MaxIn
<1> HIDE DEF A, mx
<1>6. FoldsIn(step, D, A)
  BY <1>1, <1>3 DEF FoldsIn
<1>7. q \in A
  BY DEF A
<1>8. PICK f \in [SUBSET D -> A] : \A S \in SUBSET D : FoldsTo(f, step, q, mx, S)
  <2> HIDE DEF step, D
  <2>1. HasFold(step, q, mx, D, A)
    BY <1>4, <1>6, <1>7, FoldExists
  <2>2. QED BY <2>1 DEF HasFold
<1>9. Q(f)
  <2>1. ASSUME NEW S \in SUBSET D, S # {}
        PROVE  f[S] = walkLetter(g, labels, f[S \ {Max(S)}], p[Max(S)])
    <3>1. Max(S) \in D /\ mx[S] = Max(S) /\ S \ {Max(S)} \in SUBSET D
      BY <1>5, <2>1
    <3>2. f[S \ {Max(S)}] \in A
      BY <1>8, <3>1
    <3>3. f[S] = step[<<Max(S), f[S \ {Max(S)}]>>]
      BY <1>8, <2>1, <3>1 DEF FoldsTo
    <3> HIDE DEF D
    <3>4. QED BY <3>1, <3>2, <3>3
  <2>2. f[{}] = q
    BY <1>8 DEF FoldsTo
  <2> HIDE DEF D
  <2>3. \A S \in SUBSET D : f[S] = IF S = {} THEN q
                                   ELSE walkLetter(g, labels, f[S \ {Max(S)}], p[Max(S)])
    BY <2>1, <2>2
  <2>4. QED BY <1>8, <2>3
<1>10. Q(G)
  <2> HIDE DEF Q
  <2>1. QED BY <1>9
<1> HIDE DEF G
<1>11. \A S \in SUBSET D : G[S] = IF S = {} THEN q
                                  ELSE walkLetter(g, labels, G[S \ {Max(S)}], p[Max(S)])
  <2> HIDE DEF D
  <2>1. QED BY <1>10, Zenon
<1> HIDE DEF Q
<1> DEFINE r == [k \in 0..n |-> G[1..k]]
           Good == {k \in 0..n : r[k] \in A}
<1>12. r[0] = q
  <2>1. 1..0 = {} /\ {} \in SUBSET D /\ r[0] = G[1..0]
    BY <1>1
  <2>2. QED BY <1>11, <2>1
<1>13. ASSUME NEW k \in 1..n PROVE r[k] = walkLetter(g, labels, r[k - 1], p[k])
  <2>1. 1..k \in SUBSET D /\ 1..k # {} /\ Max(1..k) = k /\ (1..k) \ {k} = 1..(k - 1)
    BY <1>1, <1>4
  <2>2. r[k] = G[1..k] /\ r[k - 1] = G[1..(k - 1)]
    BY <1>1
  <2> HIDE DEF r, D
  <2>3. QED BY <1>11, <2>1, <2>2
<1>14. r[n] = G[D]
  BY <1>1
<1> HIDE DEF r
<1>15. 0 \in Good
  BY <1>1, <1>7, <1>12
<1>16. ASSUME NEW k \in 0..n, k \in Good, k < n PROVE k + 1 \in Good
  <2>1. k + 1 \in 1..n /\ k + 1 \in 0..n /\ (k + 1) - 1 = k /\ p[k + 1] \in WordLetters
    BY <1>1, <1>16
  <2>2. r[k + 1] = walkLetter(g, labels, r[k], p[k + 1])
    BY <1>13, <2>1
  <2>3. QED BY <1>3, <1>16, <2>1, <2>2
<1>17. 0..n \subseteq Good
  <2> HIDE DEF Good, n
  <2>1. n \in Nat /\ 0 \in Good /\ \A k \in 0..n : k \in Good /\ k < n => k + 1 \in Good
    BY <1>1, <1>15, <1>16
  <2>2. QED BY <2>1, SetInductionUpTo
<1>18. r \in [0..n -> A]
  <2>1. \A k \in 0..n : r[k] \in A
    BY <1>17
  <2>2. r = [k \in 0..n |-> r[k]]
    BY DEF r
  <2>3. QED BY <2>1, <2>2
<1>19. WalksAlong(r, g, labels, q, p)
  BY <1>2, <1>12, <1>13, <1>14 DEF WalksAlong
<1>20. QED BY <1>18, <1>19 DEF A

LEMMA PrefixMore ==
    ASSUME NEW S, NEW p \in Seq(S), NEW k \in 0..Len(p), k < Len(p)
    PROVE  SubSeq(p, 1, k + 1) = Append(SubSeq(p, 1, k), p[k + 1])
<1> DEFINE a == SubSeq(p, 1, k)
           b == SubSeq(p, 1, k + 1)
           c == Append(a, p[k + 1])
<1>1. k + 1 \in 0..Len(p) /\ k + 1 \in 1..Len(p) /\ k \in Nat
  BY LenProperties
<1>2. p[k + 1] \in S
  BY <1>1, ElementOfSeq
<1>3. a \in Seq(S) /\ Len(a) = k /\ \A j \in 1..k : a[j] = p[j]
  BY PrefixFacts
<1>4. b \in Seq(S) /\ Len(b) = k + 1 /\ \A j \in 1..(k + 1) : b[j] = p[j]
  <2> DEFINE m == k + 1
  <2>1. m \in 0..Len(p)
    BY <1>1
  <2> HIDE DEF m
  <2>2. /\ SubSeq(p, 1, m) \in Seq(S) /\ Len(SubSeq(p, 1, m)) = m
        /\ \A j \in 1..m : SubSeq(p, 1, m)[j] = p[j]
    BY <2>1, PrefixFacts
  <2>3. QED BY <2>2 DEF m
<1> HIDE DEF a, b
<1>5. /\ c \in Seq(S) /\ Len(c) = k + 1 /\ c[k + 1] = p[k + 1]
      /\ \A j \in 1..k : c[j] = a[j]
  BY <1>2, <1>3, AppendProperties
<1>6. \A j \in 1..(k + 1) : c[j] = p[j]
  BY <1>1, <1>3, <1>5
<1> HIDE DEF c
<1>7. b = c
  BY <1>4, <1>5, <1>6, SeqEqual
<1>8. QED BY <1>7 DEF a, b, c

\* One letter of each type, from a walk that is on its way.
LEMMA WalkM1 ==
    ASSUME NEW g, NEW labels, NEW w \in WalkStates(g), w.ok, NEW m, m.type = "M1",
           NEW first, first = <<w.sc>>, NEW u, u = walkLetter(g, labels, w, m)
    PROVE  /\ u.ok => w.numeros = <<>> /\ Fits(g, w.sc, m, labels)
           /\ w.numeros = <<>> /\ Fits(g, w.sc, m, labels) => u.ok
           /\ u.ok => u.sc = w.sc /\ u.numeros = first
<1>1. u = IF w.numeros = <<>> /\ Fits(g, w.sc, m, labels)
          THEN [w EXCEPT !.numeros = <<w.sc>>] ELSE [w EXCEPT !.ok = FALSE]
  BY DEF walkLetter
<1>2. CASE w.numeros = <<>> /\ Fits(g, w.sc, m, labels)
  <2>1. u = [w EXCEPT !.numeros = <<w.sc>>]
    BY <1>1, <1>2
  <2>2. QED BY <1>2, <2>1 DEF WalkStates
<1>3. CASE ~(w.numeros = <<>> /\ Fits(g, w.sc, m, labels))
  <2>1. u = [w EXCEPT !.ok = FALSE]
    BY <1>1, <1>3
  <2>2. ~u.ok
    BY <2>1 DEF WalkStates
  <2>3. QED BY <1>3, <2>2
<1>4. QED BY <1>2, <1>3

LEMMA WalkR ==
    ASSUME NEW g, NEW labels, NEW w \in WalkStates(g), w.ok, NEW m, m.type = "R",
           NEW u, u = walkLetter(g, labels, w, m)
    PROVE  /\ u.ok /\ u.numeros = w.numeros
           /\ u.sc = IF m.i <= Len(w.numeros) THEN w.numeros[m.i] ELSE w.sc
<1>1. u = IF m.i <= Len(w.numeros) THEN [w EXCEPT !.sc = w.numeros[m.i]] ELSE w
  BY DEF walkLetter
<1>2. CASE m.i <= Len(w.numeros)
  <2>1. u = [w EXCEPT !.sc = w.numeros[m.i]]
    BY <1>1, <1>2
  <2>2. QED BY <1>2, <2>1 DEF WalkStates
<1>3. CASE ~(m.i <= Len(w.numeros))
  BY <1>1, <1>3
<1>4. QED BY <1>2, <1>3

LEMMA WalkNew ==
    ASSUME NEW g, NEW labels, NEW w \in WalkStates(g), w.ok, NEW m, m.type = "new",
           NEW child, child = g.children[w.sc][m.k],
           NEW u, u = walkLetter(g, labels, w, m)
    PROVE  /\ u.ok => /\ ~(m.k > children_nb(g, w.sc)) /\ child \notin Range(w.numeros)
                      /\ Fits(g, child, m, labels) /\ Len(w.numeros) < m.i
           /\ /\ ~(m.k > children_nb(g, w.sc)) /\ child \notin Range(w.numeros)
              /\ Fits(g, child, m, labels) /\ Len(w.numeros) < m.i
              => u.ok
           /\ u.ok => u.sc = child /\ u.numeros = Append(w.numeros, child)
<1> DEFINE C == /\ ~(m.k > children_nb(g, w.sc)) /\ child \notin Range(w.numeros)
                /\ Fits(g, child, m, labels) /\ Len(w.numeros) < m.i
<1>1. u = IF C THEN [w EXCEPT !.sc = child, !.numeros = Append(@, child)]
          ELSE [w EXCEPT !.ok = FALSE]
  BY DEF walkLetter
<1>2. CASE C
  <2>1. u = [w EXCEPT !.sc = child, !.numeros = Append(@, child)]
    BY <1>1, <1>2
  <2>2. u.ok /\ u.sc = child /\ u.numeros = Append(w.numeros, child)
    BY <2>1 DEF WalkStates
  <2>3. QED BY <1>2, <2>2
<1>3. CASE ~C
  <2>1. u = [w EXCEPT !.ok = FALSE]
    BY <1>1, <1>3
  <2>2. ~u.ok
    BY <2>1 DEF WalkStates
  <2>3. QED BY <1>3, <2>2
<1>4. QED BY <1>2, <1>3

LEMMA WalkNewNeeds ==
    ASSUME NEW g, NEW labels, NEW w \in WalkStates(g), w.ok, NEW m, m.type = "new",
           NEW child, child = g.children[w.sc][m.k],
           NEW u, u = walkLetter(g, labels, w, m), u.ok
    PROVE  /\ ~(m.k > children_nb(g, w.sc)) /\ child \notin Range(w.numeros)
           /\ Fits(g, child, m, labels) /\ Len(w.numeros) < m.i
<1> DEFINE C == /\ ~(m.k > children_nb(g, w.sc)) /\ child \notin Range(w.numeros)
                /\ Fits(g, child, m, labels) /\ Len(w.numeros) < m.i
<1>1. ASSUME ~C PROVE FALSE
  <2>1. u = [w EXCEPT !.ok = FALSE]
    BY <1>1 DEF walkLetter
  <2>2. QED BY <2>1 DEF WalkStates
<1>2. QED BY <1>1

LEMMA WalkNewTaken ==
    ASSUME NEW g, NEW labels, NEW w \in WalkStates(g), w.ok, NEW m, m.type = "new",
           NEW child, child = g.children[w.sc][m.k],
           ~(m.k > children_nb(g, w.sc)), child \notin Range(w.numeros),
           Fits(g, child, m, labels), Len(w.numeros) < m.i,
           NEW u, u = walkLetter(g, labels, w, m)
    PROVE  u.ok /\ u.sc = child /\ u.numeros = Append(w.numeros, child)
BY WalkNew

LEMMA WalkOld ==
    ASSUME NEW g, NEW labels, NEW w \in WalkStates(g), w.ok, NEW m, m.type = "old",
           NEW child, child = g.children[w.sc][m.k],
           NEW u, u = walkLetter(g, labels, w, m)
    PROVE  /\ u.ok => ~(m.k > children_nb(g, w.sc)) /\ child \in Range(w.numeros)
           /\ ~(m.k > children_nb(g, w.sc)) /\ child \in Range(w.numeros) => u.ok
           /\ u.ok => u.sc = child
           /\ u.numeros = w.numeros
<1> DEFINE C == ~(m.k > children_nb(g, w.sc)) /\ child \in Range(w.numeros)
<1>1. u = IF C THEN [w EXCEPT !.sc = child] ELSE [w EXCEPT !.ok = FALSE]
  BY DEF walkLetter
<1>2. CASE C
  <2>1. u = [w EXCEPT !.sc = child]
    BY <1>1, <1>2
  <2>2. u.ok /\ u.sc = child /\ u.numeros = w.numeros
    BY <2>1 DEF WalkStates
  <2>3. QED BY <1>2, <2>2
<1>3. CASE ~C
  <2>1. u = [w EXCEPT !.ok = FALSE]
    BY <1>1, <1>3
  <2>2. ~u.ok /\ u.numeros = w.numeros
    BY <2>1 DEF WalkStates
  <2>3. QED BY <1>3, <2>2
<1>4. QED BY <1>2, <1>3

LEMMA WalkStops ==
    ASSUME NEW g, NEW labels, NEW w, NEW m, ~w.ok
    PROVE  walkLetter(g, labels, w, m) = w
BY DEF walkLetter

LEMMA WalkOfFacts ==
    ASSUME NEW g, IsGraph(g), NEW labels, NEW v \in NodesOf(g), NEW p \in Seq(WordLetters)
    PROVE  /\ StartFrom(v) \in WalkStates(g)
           /\ WalkOf(g, v, p, labels) \in WalkStates(g)
           /\ WalkOf(g, v, <<>>, labels) = StartFrom(v)
           /\ p # <<>> => walk(g, v, p, labels) = WalkOf(g, v, p, labels)
           /\ \E r \in [0..Len(p) -> WalkStates(g)] : WalksAlong(r, g, labels, StartFrom(v), p)
<1>1. StartFrom(v) \in WalkStates(g)
  BY DEF StartFrom, WalkStates
<1>2. PICK r \in [0..Len(p) -> WalkStates(g)] : WalksAlong(r, g, labels, StartFrom(v), p)
  BY <1>1, WalkTrace
<1>3. WalkOf(g, v, p, labels) \in WalkStates(g)
  <2>1. Len(p) \in 0..Len(p)
    BY LenProperties
  <2>2. QED BY <1>2, <2>1 DEF WalksAlong, WalkOf
<1>4. WalkOf(g, v, <<>>, labels) = StartFrom(v)
  <2> DEFINE none == <<>>
  <2>1. none \in Seq(WordLetters) /\ Len(none) = 0
    OBVIOUS
  <2> HIDE DEF none
  <2>2. PICK z \in [0..Len(none) -> WalkStates(g)] : WalksAlong(z, g, labels, StartFrom(v), none)
    BY <1>1, <2>1, WalkTrace
  <2>3. WalkOf(g, v, none, labels) = StartFrom(v)
    BY <2>1, <2>2 DEF WalksAlong, WalkOf
  <2>4. QED BY <2>3 DEF none
<1>5. ASSUME p # <<>> PROVE walk(g, v, p, labels) = WalkOf(g, v, p, labels)
  <2>1. [ok |-> p # <<>>, sc |-> v, numeros |-> <<>>] = StartFrom(v)
    BY <1>5 DEF StartFrom
  <2>2. QED BY <2>1 DEF walk, WalkOf, WalkFrom
<1>6. QED BY <1>1, <1>2, <1>3, <1>4, <1>5

LEMMA WalkMore ==
    ASSUME NEW g, IsGraph(g), NEW labels, NEW v \in NodesOf(g), NEW p \in Seq(WordLetters),
           NEW m \in WordLetters
    PROVE  WalkOf(g, v, Append(p, m), labels)
             = walkLetter(g, labels, WalkOf(g, v, p, labels), m)
<1> DEFINE more == Append(p, m)
           n == Len(p)
           q == StartFrom(v)
<1>0. PICK r \in [0..Len(p) -> WalkStates(g)] : WalksAlong(r, g, labels, q, p)
  BY WalkOfFacts
<1>1. /\ more \in Seq(WordLetters) /\ Len(more) = n + 1 /\ n \in Nat
      /\ \A k \in 1..n : more[k] = p[k]
      /\ more[n + 1] = m
  BY AppendProperties, LenProperties
<1> HIDE DEF more
<1>2. PICK u \in [0..Len(more) -> WalkStates(g)] : WalksAlong(u, g, labels, q, more)
  BY <1>1, WalkOfFacts
<1> DEFINE S == {k \in 0..n : r[k] = u[k]}
<1>3. 0 \in S
  BY <1>0, <1>1, <1>2 DEF WalksAlong
<1>4. \A k \in 0..n : k \in S /\ k < n => k + 1 \in S
  <2>1. ASSUME NEW k \in 0..n, r[k] = u[k], k < n
        PROVE  r[k + 1] = u[k + 1] /\ k + 1 \in 0..n
    <3>1. k + 1 \in 1..n /\ k + 1 \in 1..(n + 1) /\ (k + 1) - 1 = k
      BY <1>1, <2>1
    <3>2. r[k + 1] = walkLetter(g, labels, r[k], p[k + 1])
      BY <1>0, <3>1 DEF WalksAlong
    <3>3. u[k + 1] = walkLetter(g, labels, u[k], more[k + 1])
      BY <1>1, <1>2, <3>1 DEF WalksAlong
    <3>4. QED BY <1>1, <2>1, <3>1, <3>2, <3>3
  <2>2. QED BY <2>1
<1> HIDE DEF S, n
<1>5. 0..n \subseteq S
  BY <1>1, <1>3, <1>4, SetInductionUpTo
<1>6. n \in 0..n /\ n + 1 \in 1..(n + 1) /\ (n + 1) - 1 = n
  BY <1>1
<1>7. r[n] = u[n]
  BY <1>5, <1>6 DEF S
<1>8. u[n + 1] = walkLetter(g, labels, u[n], m)
  BY <1>1, <1>2, <1>6 DEF WalksAlong
<1>9. r[n] = WalkOf(g, v, p, labels) /\ u[n + 1] = WalkOf(g, v, more, labels)
  BY <1>0, <1>1, <1>2 DEF WalksAlong, WalkOf, n
<1>10. QED BY <1>7, <1>8, <1>9 DEF more

\* A walk that is on its way has been on its way after each letter, and it
\* has numbered a node at each letter that numbers one.
LEMMA WalkPrefixes ==
    ASSUME NEW g, IsGraph(g), NEW labels, NEW v \in NodesOf(g), NEW p \in Seq(WordLetters),
           WalkOf(g, v, p, labels).ok
    PROVE  \A k \in 0..Len(p) : WalkOf(g, v, SubSeq(p, 1, k), labels).ok
<1> DEFINE n == Len(p)
           at(k) == WalkOf(g, v, SubSeq(p, 1, k), labels)
           S == {k \in 0..n : at(n - k).ok}
<1>1. n \in Nat /\ SubSeq(p, 1, n) = p
  BY LenProperties, SubSeqFull
<1>2. 0 \in S
  <2>1. n - 0 = n /\ 0 \in 0..n
    BY <1>1
  <2>2. at(n - 0).ok
    BY <1>1, <2>1
  <2>3. QED BY <2>1, <2>2
<1>3. ASSUME NEW k \in 0..n, k \in S, k < n PROVE k + 1 \in S
  <2> DEFINE j == n - (k + 1)
  <2>0. k \in 0..n /\ k < n /\ at(n - k).ok
    BY <1>3
  <2>1. j \in 0..n /\ j < n /\ j + 1 = n - k /\ j + 1 \in 1..n /\ k + 1 \in 0..n
    <3> HIDE DEF at, S
    <3>1. QED BY <1>1, <2>0
  <2>2. SubSeq(p, 1, j + 1) = Append(SubSeq(p, 1, j), p[j + 1])
    <3> HIDE DEF j
    <3>1. QED BY <1>1, <2>1, PrefixMore
  <2>3. SubSeq(p, 1, j) \in Seq(WordLetters) /\ p[j + 1] \in WordLetters
    BY <2>1, PrefixFacts, ElementOfSeq
  <2>4. at(j + 1) = walkLetter(g, labels, at(j), p[j + 1])
    <3> HIDE DEF j
    <3>1. WalkOf(g, v, Append(SubSeq(p, 1, j), p[j + 1]), labels)
            = walkLetter(g, labels, WalkOf(g, v, SubSeq(p, 1, j), labels), p[j + 1])
      BY <2>3, WalkMore
    <3>2. QED BY <2>2, <3>1, Zenon
  <2>5. at(j + 1).ok
    <3> HIDE DEF at, j
    <3>1. QED BY <2>0, <2>1
  <2>6. at(j).ok
    <3> HIDE DEF j, at
    <3>1. ~at(j).ok => walkLetter(g, labels, at(j), p[j + 1]) = at(j)
      BY WalkStops
    <3>2. QED BY <2>4, <2>5, <3>1
  <2>7. n - (k + 1) = j
    OBVIOUS
  <2> HIDE DEF at, j
  <2>8. QED BY <2>1, <2>6, <2>7
<1> HIDE DEF S
<1>4. 0..n \subseteq S
  <2> HIDE DEF n
  <2>1. QED BY <1>1, <1>2, <1>3, SetInductionUpTo
<1>5. ASSUME NEW k \in 0..n PROVE at(k).ok
  <2>1. n - k \in 0..n /\ n - (n - k) = k
    BY <1>1
  <2>2. n - k \in S
    BY <1>4, <2>1
  <2>3. at(n - (n - k)).ok
    BY <2>2 DEF S
  <2>4. QED BY <2>1, <2>3
<1>6. QED BY <1>5

\* In a well formed word a walk numbers one node for each letter that says so.
LEMMA WalkCount ==
    ASSUME NEW g, IsGraph(g), NEW labels, NEW v \in NodesOf(g), NEW p, WellFormed(p),
           WalkOf(g, v, p, labels).ok
    PROVE  Len(WalkOf(g, v, p, labels).numeros) = NumbersIn(p, Len(p))
<1> DEFINE n == Len(p)
           at(k) == WalkOf(g, v, SubSeq(p, 1, k), labels)
           S == {k \in 0..n : Len(at(k).numeros) = NumbersIn(p, k)}
<1>1. /\ p \in Seq(WordLetters) /\ n \in Nat /\ SubSeq(p, 1, n) = p
      /\ SubSeq(p, 1, 0) = <<>>
  <2>1. p \in Seq(WordLetters)
    BY DEF WellFormed
  <2>2. n \in Nat /\ SubSeq(p, 1, n) = p
    BY <2>1, LenProperties, SubSeqFull
  <2>3. SubSeq(p, 1, 0) = <<>>
    <3>1. 0 \in 0..n
      BY <2>2
    <3>2. SubSeq(p, 1, 0) \in Seq(WordLetters) /\ Len(SubSeq(p, 1, 0)) = 0
      BY <2>1, <3>1, PrefixFacts
    <3>3. QED BY <3>2, EmptySeq
  <2>4. QED BY <2>1, <2>2, <2>3
<1>2. 0 \in S
  <2>1. at(0) = StartFrom(v)
    BY <1>1, WalkOfFacts
  <2>2. Len(StartFrom(v).numeros) = 0
    BY DEF StartFrom
  <2>3. 0 \in 0..n /\ NumbersIn(p, 0) = 0
    BY <1>1, NumbersFacts
  <2> HIDE DEF at
  <2>4. QED BY <2>1, <2>2, <2>3
<1>3. ASSUME NEW k \in 0..n, k \in S, k < n PROVE k + 1 \in S
  <2> DEFINE j == k + 1
             w == at(k)
             u == at(j)
             m == p[j]
  <2>0. k \in Nat /\ k \in 0..n /\ j \in 0..n /\ j \in 1..n /\ Len(w.numeros) = NumbersIn(p, k)
    <3> HIDE DEF at
    <3>1. QED BY <1>1, <1>3
  <2>1. SubSeq(p, 1, k) \in Seq(WordLetters) /\ m \in WordLetters
    BY <1>1, <2>0, PrefixFacts, ElementOfSeq
  <2>2. SubSeq(p, 1, j) = Append(SubSeq(p, 1, k), m)
    BY <1>1, <1>3, PrefixMore
  <2>3. u = walkLetter(g, labels, w, m)
    <3> HIDE DEF j
    <3>1. WalkOf(g, v, Append(SubSeq(p, 1, k), m), labels)
            = walkLetter(g, labels, WalkOf(g, v, SubSeq(p, 1, k), labels), m)
      BY <2>1, WalkMore
    <3>2. QED BY <2>2, <3>1, Zenon
  <2>4. w.ok /\ u.ok
    <3> HIDE DEF j
    <3>1. \A i \in 0..Len(p) : WalkOf(g, v, SubSeq(p, 1, i), labels).ok
      BY <1>1, WalkPrefixes
    <3>2. QED BY <2>0, <3>1
  <2>5. w \in WalkStates(g)
    BY <2>1, WalkOfFacts
  <2>6. NumbersIn(p, j) = NumbersIn(p, k) + IF Numbers(m) THEN 1 ELSE 0
    BY <2>0, NumbersFacts
  <2>7. w.numeros \in Seq(NodesOf(g)) /\ Len(w.numeros) \in Nat
    BY <2>5, LenProperties DEF WalkStates
  <2> HIDE DEF u, w, m, at, j
  <2> DEFINE Numbered == Len(u.numeros) = NumbersIn(p, j)
  <2>8. ASSUME m.type = "M1" PROVE Numbered
    <3> DEFINE first == <<w.sc>>
    <3>0. first = <<w.sc>>
      OBVIOUS
    <3> HIDE DEF first
    <3>1. u.ok => w.numeros = <<>> /\ u.numeros = first
      BY <2>3, <2>4, <2>5, <2>8, <3>0, WalkM1
    <3>2. Len(u.numeros) = 1 /\ Len(w.numeros) = 0
      BY <2>4, <3>0, <3>1
    <3>3. QED BY <2>0, <2>6, <2>8, <3>2 DEF Numbers
  <2>9. ASSUME m.type = "R" PROVE Numbered
    <3>1. u.numeros = w.numeros
      BY <2>3, <2>4, <2>5, <2>9, WalkR
    <3>2. QED BY <2>0, <2>6, <2>7, <2>9, <3>1 DEF Numbers
  <2>10. ASSUME m.type = "new" PROVE Numbered
    <3> DEFINE child == g.children[w.sc][m.k]
    <3>0. child = g.children[w.sc][m.k]
      OBVIOUS
    <3> HIDE DEF child
    <3>1. ~(m.k > children_nb(g, w.sc)) /\ u.numeros = Append(w.numeros, child)
      BY <2>3, <2>4, <2>5, <2>10, <3>0, WalkNew
    <3>2. child \in NodesOf(g)
      <4>1. w.sc \in NodesOf(g) /\ m.k \in 1..children_nb(g, w.sc)
        BY <2>1, <2>5, <2>10, <3>1, LetterFacts, GraphFacts DEF WalkStates
      <4>2. QED BY <3>0, <4>1, GraphFacts
    <3>3. Len(u.numeros) = Len(w.numeros) + 1
      BY <2>7, <3>1, <3>2, AppendProperties
    <3>4. QED BY <2>0, <2>6, <2>7, <2>10, <3>3 DEF Numbers
  <2>11. ASSUME m.type = "old" PROVE Numbered
    <3>1. u.numeros = w.numeros
      BY <2>3, <2>4, <2>5, <2>11, WalkOld
    <3>2. QED BY <2>0, <2>6, <2>7, <2>11, <3>1 DEF Numbers
  <2>12. m.type \in {"M1", "R", "new", "old"}
    BY <2>1, LetterFacts
  <2>13. Numbered
    BY <2>8, <2>9, <2>10, <2>11, <2>12
  <2>14. QED BY <2>0, <2>13 DEF u, j
<1> HIDE DEF S
<1>4. 0..n \subseteq S
  <2> HIDE DEF n
  <2>1. QED BY <1>1, <1>2, <1>3, SetInductionUpTo
<1>5. n \in S
  BY <1>1, <1>4
<1>6. Len(at(n).numeros) = NumbersIn(p, n)
  BY <1>5 DEF S
<1>7. QED BY <1>1, <1>6

-----------------------------------------------------------------------------
(***************************************************************************)
(* Letters up to the labels that equals leaves out, and words of them.     *)
(***************************************************************************)
CanonLetter(m) == IF option.checkLabels THEN m
                  ELSE IF m.type = "new" THEN [m EXCEPT !.symbol = 0] ELSE m

LEMMA CanonLetterFacts ==
    ASSUME NEW m \in WordLetters
    PROVE  /\ CanonLetter(m) \in WordLetters
           /\ CanonLetter(m).type = m.type
           /\ m.type = "M1" => CanonLetter(m) = m
           /\ m.type \in {"R", "old"} => CanonLetter(m) = m
           /\ m.type = "new" => CanonLetter(m).k = m.k /\ CanonLetter(m).i = m.i
<1>1. CASE option.checkLabels
  BY <1>1 DEF CanonLetter
<1>2. CASE ~option.checkLabels /\ m.type = "new"
  <2>1. m \in [type : {"new"}, k : Nat \ {0}, i : Nat \ {0}, symbol : Nat]
    BY <1>2 DEF WordLetters
  <2>2. CanonLetter(m) = [m EXCEPT !.symbol = 0]
    BY <1>2 DEF CanonLetter
  <2>3. CanonLetter(m) \in [type : {"new"}, k : Nat \ {0}, i : Nat \ {0}, symbol : Nat]
    BY <2>1, <2>2
  <2>4. CanonLetter(m) \in WordLetters
    BY <2>3 DEF WordLetters
  <2>5. CanonLetter(m).type = m.type /\ CanonLetter(m).k = m.k /\ CanonLetter(m).i = m.i
    BY <2>1, <2>2
  <2>6. QED BY <1>2, <2>4, <2>5
<1>3. CASE ~option.checkLabels /\ m.type # "new"
  BY <1>3 DEF CanonLetter
<1>4. QED BY <1>1, <1>2, <1>3

LEMMA SameLetterIs ==
    ASSUME NEW m \in WordLetters, NEW o \in WordLetters
    PROVE  SameLetter(m, o, option.checkLabels) <=> CanonLetter(m) = CanonLetter(o)
<1>1. CASE option.checkLabels
  BY <1>1 DEF CanonLetter, SameLetter
<1>2. CASE ~option.checkLabels /\ m.type = "new" /\ o.type = "new"
  <2> DEFINE R == [type : {"new"}, k : Nat \ {0}, i : Nat \ {0}, symbol : Nat]
  <2>1. m \in R /\ o \in R
    BY <1>2 DEF WordLetters
  <2>2. CanonLetter(m) = [m EXCEPT !.symbol = 0] /\ CanonLetter(o) = [o EXCEPT !.symbol = 0]
    BY <1>2 DEF CanonLetter
  <2>3. SameLetter(m, o, option.checkLabels) <=> m.k = o.k /\ m.i = o.i
    BY <1>2, <2>1 DEF SameLetter
  <2>4. /\ CanonLetter(m) = [type |-> "new", k |-> m.k, i |-> m.i, symbol |-> 0]
        /\ CanonLetter(o) = [type |-> "new", k |-> o.k, i |-> o.i, symbol |-> 0]
    BY <2>1, <2>2
  <2>5. QED BY <2>3, <2>4
<1>3. CASE ~option.checkLabels /\ ~(m.type = "new" /\ o.type = "new")
  <2>1. SameLetter(m, o, option.checkLabels) <=> m = o
    BY <1>3 DEF SameLetter
  <2>2. CanonLetter(m).type = m.type /\ CanonLetter(o).type = o.type
    BY CanonLetterFacts
  <2>3. CASE m.type # o.type
    BY <2>1, <2>2, <2>3
  <2>4. CASE m.type = o.type
    BY <1>3, <2>1, <2>4 DEF CanonLetter
  <2>5. QED BY <2>3, <2>4
<1>4. QED BY <1>1, <1>2, <1>3

LEMMA CanonIs ==
    ASSUME NEW p \in Seq(WordLetters)
    PROVE  /\ Canon(p) \in Seq(WordLetters) /\ Len(Canon(p)) = Len(p)
           /\ \A j \in 1..Len(p) : Canon(p)[j] = CanonLetter(p[j])
           /\ option.checkLabels => Canon(p) = p
           /\ Canon(p) = <<>> <=> p = <<>>
<1>1. Len(p) \in Nat /\ DOMAIN p = 1..Len(p) /\ \A j \in 1..Len(p) : p[j] \in WordLetters
  BY LenProperties, ElementOfSeq
<1>2. CASE option.checkLabels
  BY <1>2 DEF Canon, CanonLetter
<1>3. CASE ~option.checkLabels
  <2>1. Canon(p) = [j \in 1..Len(p) |-> CanonLetter(p[j])]
    BY <1>1, <1>3 DEF Canon, CanonLetter
  <2>2. \A j \in 1..Len(p) : CanonLetter(p[j]) \in WordLetters
    BY <1>1, CanonLetterFacts
  <2>3. Canon(p) \in Seq(WordLetters) /\ Len(Canon(p)) = Len(p)
    BY <1>1, <2>1, <2>2
  <2>4. Canon(p) = <<>> <=> p = <<>>
    BY <2>3, EmptySeq, LenProperties
  <2>5. QED BY <1>3, <2>1, <2>3, <2>4
<1>4. QED BY <1>2, <1>3

LEMMA CanonMore ==
    ASSUME NEW p \in Seq(WordLetters), NEW m \in WordLetters
    PROVE  Canon(Append(p, m)) = Append(Canon(p), CanonLetter(m))
<1> DEFINE q == Append(p, m)
           a == Canon(q)
           b == Append(Canon(p), CanonLetter(m))
           n == Len(p)
<1>1. n \in Nat /\ q \in Seq(WordLetters) /\ Len(q) = n + 1 /\ q[n + 1] = m
      /\ \A j \in 1..n : q[j] = p[j]
  BY LenProperties, AppendProperties
<1>2. a \in Seq(WordLetters) /\ Len(a) = n + 1 /\ \A j \in 1..(n + 1) : a[j] = CanonLetter(q[j])
  <2> HIDE DEF q
  <2>1. QED BY <1>1, CanonIs
<1>3. Canon(p) \in Seq(WordLetters) /\ Len(Canon(p)) = n /\ CanonLetter(m) \in WordLetters
      /\ \A j \in 1..n : Canon(p)[j] = CanonLetter(p[j])
  BY CanonIs, CanonLetterFacts
<1>4. b \in Seq(WordLetters) /\ Len(b) = n + 1 /\ b[n + 1] = CanonLetter(m)
      /\ \A j \in 1..n : b[j] = Canon(p)[j]
  BY <1>3, AppendProperties
<1> HIDE DEF q, a, b, n
<1>5. \A j \in 1..(n + 1) : a[j] = b[j]
  BY <1>1, <1>2, <1>3, <1>4
<1>6. a = b
  BY <1>2, <1>4, <1>5, SeqEqual
<1>7. QED BY <1>6 DEF a, b, q

LEMMA CanonPrefix ==
    ASSUME NEW p \in Seq(WordLetters), NEW k \in 0..Len(p)
    PROVE  Canon(SubSeq(p, 1, k)) = SubSeq(Canon(p), 1, k)
<1> DEFINE a == Canon(SubSeq(p, 1, k))
           b == SubSeq(Canon(p), 1, k)
<1>1. SubSeq(p, 1, k) \in Seq(WordLetters) /\ Len(SubSeq(p, 1, k)) = k
      /\ \A j \in 1..k : SubSeq(p, 1, k)[j] = p[j]
  BY PrefixFacts
<1>2. a \in Seq(WordLetters) /\ Len(a) = k /\ \A j \in 1..k : a[j] = CanonLetter(SubSeq(p, 1, k)[j])
  BY <1>1, CanonIs
<1>3. Canon(p) \in Seq(WordLetters) /\ Len(Canon(p)) = Len(p)
      /\ \A j \in 1..Len(p) : Canon(p)[j] = CanonLetter(p[j])
  BY CanonIs
<1>4. b \in Seq(WordLetters) /\ Len(b) = k /\ \A j \in 1..k : b[j] = Canon(p)[j]
  BY <1>3, PrefixFacts
<1>5. k \in Nat /\ k <= Len(p) /\ Len(p) \in Nat
  BY LenProperties
<1> HIDE DEF a, b
<1>6. \A j \in 1..k : a[j] = b[j]
  BY <1>1, <1>2, <1>3, <1>4, <1>5
<1>7. a = b
  BY <1>2, <1>4, <1>6, SeqEqual
<1>8. QED BY <1>7 DEF a, b

\* Without labels a walk does not tell a word from its canonical form.
LEMMA CanonWalk ==
    ASSUME NEW g, IsGraph(g), NEW v \in NodesOf(g), NEW p \in Seq(WordLetters)
    PROVE  WalkOf(g, v, Canon(p), option.checkLabels) = WalkOf(g, v, p, option.checkLabels)
<1>1. CASE option.checkLabels
  BY <1>1, CanonIs
<1>2. CASE ~option.checkLabels
  <2> DEFINE labels == option.checkLabels
             q == Canon(p)
             n == Len(p)
  <2>1. q \in Seq(WordLetters) /\ Len(q) = n /\ n \in Nat /\ (\A j \in 1..n : q[j] = CanonLetter(p[j]))
        /\ \A j \in 1..n : p[j] \in WordLetters
    BY CanonIs, LenProperties, ElementOfSeq
  <2>2. ASSUME NEW w, NEW m \in WordLetters
        PROVE  walkLetter(g, labels, w, CanonLetter(m)) = walkLetter(g, labels, w, m)
    <3>1. CASE m.type # "new"
      BY <3>1, CanonLetterFacts, LetterFacts
    <3>2. CASE ~w.ok
      BY <3>2, WalkStops
    <3>3. CASE m.type = "new" /\ w.ok
      <4> DEFINE c == CanonLetter(m)
                 child == g.children[w.sc][m.k]
      <4>1. c.type = "new" /\ c.k = m.k /\ c.i = m.i
        BY <3>3, CanonLetterFacts
      <4>2. Fits(g, child, m, labels) /\ Fits(g, child, c, labels)
        BY <1>2 DEF Fits
      <4> DEFINE C == /\ ~(m.k > children_nb(g, w.sc)) /\ child \notin Range(w.numeros)
                      /\ Len(w.numeros) < m.i
                 taken == [w EXCEPT !.sc = child, !.numeros = Append(@, child)]
                 fail == [w EXCEPT !.ok = FALSE]
      <4> HIDE DEF c, labels
      <4>3. walkLetter(g, labels, w, m) = IF C THEN taken ELSE fail
        BY <3>3, <4>2 DEF walkLetter
      <4>4. walkLetter(g, labels, w, c) = IF C THEN taken ELSE fail
        BY <3>3, <4>1, <4>2 DEF walkLetter
      <4>5. walkLetter(g, labels, w, c) = walkLetter(g, labels, w, m)
        BY <4>3, <4>4
      <4>6. QED BY <4>5 DEF c
    <3>4. QED BY <3>1, <3>2, <3>3
  <2> HIDE DEF q, labels, n
  <2>3. PICK r \in [0..Len(p) -> WalkStates(g)] : WalksAlong(r, g, labels, StartFrom(v), p)
    BY WalkOfFacts
  <2>4. PICK u \in [0..Len(q) -> WalkStates(g)] : WalksAlong(u, g, labels, StartFrom(v), q)
    BY <2>1, WalkOfFacts
  <2> DEFINE S == {k \in 0..n : r[k] = u[k]}
  <2>5. 0 \in S
    BY <2>1, <2>3, <2>4 DEF WalksAlong
  <2>6. \A k \in 0..n : k \in S /\ k < n => k + 1 \in S
    <3>1. ASSUME NEW k \in 0..n, r[k] = u[k], k < n
          PROVE  r[k + 1] = u[k + 1] /\ k + 1 \in 0..n
      <4>1. k + 1 \in 1..n /\ (k + 1) - 1 = k /\ k + 1 \in 0..n
        BY <2>1, <3>1
      <4>2. r[k + 1] = walkLetter(g, labels, r[k], p[k + 1])
        BY <2>3, <4>1 DEF WalksAlong, n
      <4>3. u[k + 1] = walkLetter(g, labels, u[k], q[k + 1])
        BY <2>1, <2>4, <4>1 DEF WalksAlong
      <4>4. walkLetter(g, labels, r[k], q[k + 1]) = walkLetter(g, labels, r[k], p[k + 1])
        BY <2>1, <2>2, <4>1
      <4>5. QED BY <3>1, <4>1, <4>2, <4>3, <4>4
    <3>2. QED BY <3>1
  <2> HIDE DEF S
  <2>7. 0..n \subseteq S
    BY <2>1, <2>5, <2>6, SetInductionUpTo
  <2>8. r[n] = u[n]
    <3>1. n \in 0..n
      BY <2>1
    <3>2. QED BY <2>7, <3>1 DEF S
  <2>9. QED BY <2>1, <2>3, <2>4, <2>8 DEF WalksAlong, WalkOf, n, q, labels
<1>3. QED BY <1>1, <1>2

-----------------------------------------------------------------------------
(***************************************************************************)
(* The word parcoursLargeur writes.  After each letter it can be walked    *)
(* from the root, with labels and without, and the walk numbers the nodes  *)
(* that have been explored, in their order.                                *)
(***************************************************************************)
Walked(g, v, p, ex, x) ==
    /\ WellFormed(p) /\ ex \in Seq(NodesOf(g)) /\ NumbersIn(p, Len(p)) = Len(ex)
    /\ \A labels \in BOOLEAN : LET w == WalkOf(g, v, p, labels)
                               IN  w.ok /\ w.sc = x /\ w.numeros = ex

LEMMA WalkedRoot ==
    ASSUME NEW g, IsGraph(g), NEW v \in NodesOf(g)
    PROVE  /\ Append(<<>>, M1(g.symb[v])) = <<M1(g.symb[v])>>
           /\ Walked(g, v, <<M1(g.symb[v])>>, <<v>>, v)
<1> DEFINE m == M1(g.symb[v])
           p == Append(<<>>, m)
           none == <<>>
           first == <<v>>
<1>1. m \in WordLetters /\ m.type = "M1" /\ m.symbol = g.symb[v] /\ Numbers(m)
  BY GraphFacts DEF M1, WordLetters, Numbers
<1>2. none \in Seq(WordLetters) /\ Len(none) = 0 /\ NumbersIn(none, 0) = 0
  BY NumbersFacts
<1>3. p = <<m>>
  OBVIOUS
<1>4. WellFormed(none)
  BY <1>2 DEF WellFormed
<1> HIDE DEF m
<1>5. /\ WellFormed(Append(none, m)) /\ Len(Append(none, m)) = 1
      /\ NumbersIn(Append(none, m), 1) = 1
  <2>1. none = <<>> /\ m.type # "new" /\ m.type \notin {"R", "old"}
    BY <1>1
  <2> HIDE DEF none
  <2>2. /\ WellFormed(Append(none, m))
        /\ NumbersIn(Append(none, m), Len(none) + 1)
             = NumbersIn(none, Len(none)) + IF Numbers(m) THEN 1 ELSE 0
    BY <1>1, <1>4, <2>1, WellFormedAppend
  <2>3. Len(Append(none, m)) = Len(none) + 1
    BY <1>1, <1>2, AppendProperties
  <2>4. QED BY <1>1, <1>2, <2>2, <2>3
<1>6. ASSUME NEW labels \in BOOLEAN
      PROVE  LET w == WalkOf(g, v, p, labels)
             IN  w.ok /\ w.sc = v /\ w.numeros = first
  <2> DEFINE w == WalkOf(g, v, none, labels)
             u == WalkOf(g, v, p, labels)
  <2>1. w = StartFrom(v) /\ w \in WalkStates(g)
    BY <1>2, WalkOfFacts
  <2>2. w.ok /\ w.sc = v /\ w.numeros = <<>>
    BY <2>1 DEF StartFrom
  <2>3. u = walkLetter(g, labels, w, m)
    BY <1>1, <1>2, WalkMore
  <2>4. first = <<w.sc>>
    BY <2>2
  <2>5. Fits(g, w.sc, m, labels)
    BY <1>1, <2>2 DEF Fits
  <2> HIDE DEF w, u, first
  <2>6. u.ok /\ u.sc = w.sc /\ u.numeros = first
    BY <1>1, <2>1, <2>2, <2>3, <2>4, <2>5, WalkM1
  <2>7. QED BY <2>2, <2>6 DEF u
<1>7. first \in Seq(NodesOf(g)) /\ Len(first) = 1
  OBVIOUS
<1>8. Walked(g, v, p, first, v)
  <2> HIDE DEF first
  <2>1. QED BY <1>5, <1>6, <1>7 DEF Walked
<1>9. QED BY <1>3, <1>8 DEF m

LEMMA ListIdFacts ==
    ASSUME NEW S, NEW ex \in Seq(S), NEW y \in Range(ex)
    PROVE  list_id(ex, y) \in 1..Len(ex) /\ ex[list_id(ex, y)] = y
<1>1. DOMAIN ex = 1..Len(ex) /\ \E i \in 1..Len(ex) : ex[i] = y
  BY RangeFacts, LenProperties
<1>2. QED BY <1>1 DEF list_id

LEMMA WalkedBack ==
    ASSUME NEW g, IsGraph(g), NEW v \in NodesOf(g), NEW p, NEW ex, NEW x,
           Walked(g, v, p, ex, x), p # <<>>, NEW y \in Range(ex)
    PROVE  Walked(g, v, Append(p, BackTo(list_id(ex, y))), ex, y)
<1> DEFINE m == BackTo(list_id(ex, y))
           q == Append(p, m)
<1>1. WellFormed(p) /\ p \in Seq(WordLetters) /\ ex \in Seq(NodesOf(g))
      /\ NumbersIn(p, Len(p)) = Len(ex) /\ Len(ex) \in Nat
  BY LenProperties DEF Walked, WellFormed
<1>2. list_id(ex, y) \in 1..Len(ex) /\ ex[list_id(ex, y)] = y
  BY <1>1, ListIdFacts
<1>3. m \in WordLetters /\ m.type = "R" /\ m.i = list_id(ex, y) /\ ~Numbers(m)
  BY <1>1, <1>2 DEF BackTo, WordLetters, Numbers
<1> HIDE DEF m
<1>4. WellFormed(q) /\ Len(q) = Len(p) + 1 /\ NumbersIn(q, Len(p) + 1) = Len(ex)
  <2>1. m.i <= NumbersIn(p, Len(p)) /\ m.type # "M1" /\ m.type # "new"
    BY <1>1, <1>2, <1>3
  <2>2. /\ WellFormed(q)
        /\ NumbersIn(q, Len(p) + 1) = NumbersIn(p, Len(p)) + IF Numbers(m) THEN 1 ELSE 0
    BY <1>1, <1>3, <2>1, WellFormedAppend
  <2>3. Len(q) = Len(p) + 1
    BY <1>1, <1>3, AppendProperties
  <2>4. QED BY <1>1, <1>3, <2>2, <2>3
<1>5. ASSUME NEW labels \in BOOLEAN
      PROVE  LET w == WalkOf(g, v, q, labels)
             IN  w.ok /\ w.sc = y /\ w.numeros = ex
  <2> DEFINE w == WalkOf(g, v, p, labels)
             u == WalkOf(g, v, q, labels)
  <2>1. w.ok /\ w.numeros = ex /\ w \in WalkStates(g)
    BY <1>1, WalkOfFacts DEF Walked
  <2>2. u = walkLetter(g, labels, w, m)
    BY <1>1, <1>3, WalkMore
  <2> HIDE DEF w, u
  <2>3. /\ u.ok /\ u.numeros = w.numeros
        /\ u.sc = IF m.i <= Len(w.numeros) THEN w.numeros[m.i] ELSE w.sc
    BY <1>3, <2>1, <2>2, WalkR
  <2>4. QED BY <1>2, <1>3, <2>1, <2>3 DEF u
<1>6. QED BY <1>1, <1>4, <1>5 DEF Walked, m

LEMMA WalkedOld ==
    ASSUME NEW g, IsGraph(g), NEW v \in NodesOf(g), NEW p, NEW ex, NEW x \in NodesOf(g),
           Walked(g, v, p, ex, x), p # <<>>, NEW k \in 1..children_nb(g, x),
           NEW y \in Range(ex), y = g.children[x][k]
    PROVE  Walked(g, v, Append(p, OldChild(k, list_id(ex, y))), ex, y)
<1> DEFINE m == OldChild(k, list_id(ex, y))
           q == Append(p, m)
<1>1. WellFormed(p) /\ p \in Seq(WordLetters) /\ ex \in Seq(NodesOf(g))
      /\ NumbersIn(p, Len(p)) = Len(ex) /\ Len(ex) \in Nat
  BY LenProperties DEF Walked, WellFormed
<1>2. list_id(ex, y) \in 1..Len(ex) /\ ex[list_id(ex, y)] = y
  BY <1>1, ListIdFacts
<1>3. children_nb(g, x) \in Nat /\ k \in Nat \ {0} /\ ~(k > children_nb(g, x))
  BY GraphFacts
<1>4. m \in WordLetters /\ m.type = "old" /\ m.i = list_id(ex, y) /\ m.k = k /\ ~Numbers(m)
  BY <1>1, <1>2, <1>3 DEF OldChild, WordLetters, Numbers
<1> HIDE DEF m
<1>5. WellFormed(q) /\ Len(q) = Len(p) + 1 /\ NumbersIn(q, Len(p) + 1) = Len(ex)
  <2>1. m.i <= NumbersIn(p, Len(p)) /\ m.type # "M1" /\ m.type # "new"
    BY <1>1, <1>2, <1>4
  <2>2. /\ WellFormed(q)
        /\ NumbersIn(q, Len(p) + 1) = NumbersIn(p, Len(p)) + IF Numbers(m) THEN 1 ELSE 0
    BY <1>1, <1>4, <2>1, WellFormedAppend
  <2>3. Len(q) = Len(p) + 1
    BY <1>1, <1>4, AppendProperties
  <2>4. QED BY <1>1, <1>4, <2>2, <2>3
<1>6. ASSUME NEW labels \in BOOLEAN
      PROVE  LET w == WalkOf(g, v, q, labels)
             IN  w.ok /\ w.sc = y /\ w.numeros = ex
  <2> DEFINE w == WalkOf(g, v, p, labels)
             u == WalkOf(g, v, q, labels)
  <2>1. w.ok /\ w.sc = x /\ w.numeros = ex /\ w \in WalkStates(g)
    BY <1>1, WalkOfFacts DEF Walked
  <2>2. u = walkLetter(g, labels, w, m)
    BY <1>1, <1>4, WalkMore
  <2>3. y = g.children[w.sc][m.k] /\ y \in Range(w.numeros)
    BY <1>4, <2>1
  <2>4. ~(m.k > children_nb(g, w.sc))
    BY <1>3, <1>4, <2>1
  <2> HIDE DEF w, u
  <2>5. u.ok /\ u.sc = y /\ u.numeros = w.numeros
    BY <1>4, <2>1, <2>2, <2>3, <2>4, WalkOld, SMTT(30)
  <2>6. QED BY <2>1, <2>5 DEF u
<1>7. QED BY <1>1, <1>5, <1>6 DEF Walked, m

LEMMA WalkedNew ==
    ASSUME NEW g, IsGraph(g), NEW v \in NodesOf(g), NEW p, NEW ex, NEW x \in NodesOf(g),
           Walked(g, v, p, ex, x), p # <<>>, NEW k \in 1..children_nb(g, x),
           NEW y, y \notin Range(ex), y = g.children[x][k]
    PROVE  Walked(g, v, Append(p, NewChild(k, Len(ex) + 1, g.symb[y])), Append(ex, y), y)
<1> DEFINE m == NewChild(k, Len(ex) + 1, g.symb[y])
           q == Append(p, m)
           more == Append(ex, y)
<1>1. WellFormed(p) /\ p \in Seq(WordLetters) /\ ex \in Seq(NodesOf(g))
      /\ NumbersIn(p, Len(p)) = Len(ex) /\ Len(ex) \in Nat
  BY LenProperties DEF Walked, WellFormed
<1>2. y \in NodesOf(g) /\ g.symb[y] \in Nat
  BY GraphFacts
<1>3. children_nb(g, x) \in Nat /\ k \in Nat \ {0} /\ ~(k > children_nb(g, x))
  BY GraphFacts
<1>4. m \in WordLetters /\ m.type = "new" /\ m.i = Len(ex) + 1 /\ m.k = k /\ m.symbol = g.symb[y]
      /\ Numbers(m)
  <2>1. m \in [type : {"new"}, k : Nat \ {0}, i : Nat \ {0}, symbol : Nat]
    BY <1>1, <1>2, <1>3 DEF NewChild
  <2>2. QED BY <2>1 DEF NewChild, WordLetters, Numbers
<1>5. more \in Seq(NodesOf(g)) /\ Len(more) = Len(ex) + 1
  BY <1>1, <1>2, AppendProperties
<1> HIDE DEF m, more
<1>6. WellFormed(q) /\ Len(q) = Len(p) + 1 /\ NumbersIn(q, Len(p) + 1) = Len(ex) + 1
  <2>1. m.i = NumbersIn(p, Len(p)) + 1 /\ m.type # "M1" /\ m.type \notin {"R", "old"}
    BY <1>1, <1>4
  <2>2. /\ WellFormed(q)
        /\ NumbersIn(q, Len(p) + 1) = NumbersIn(p, Len(p)) + IF Numbers(m) THEN 1 ELSE 0
    BY <1>1, <1>4, <2>1, WellFormedAppend
  <2>3. Len(q) = Len(p) + 1
    BY <1>1, <1>4, AppendProperties
  <2>4. QED BY <1>1, <1>4, <2>2, <2>3
<1>7. ASSUME NEW labels \in BOOLEAN
      PROVE  LET w == WalkOf(g, v, q, labels)
             IN  w.ok /\ w.sc = y /\ w.numeros = more
  <2> DEFINE w == WalkOf(g, v, p, labels)
             u == WalkOf(g, v, q, labels)
  <2>1. w.ok /\ w.sc = x /\ w.numeros = ex /\ w \in WalkStates(g)
    BY <1>1, WalkOfFacts DEF Walked
  <2>2. u = walkLetter(g, labels, w, m)
    BY <1>1, <1>4, WalkMore
  <2>3. y = g.children[w.sc][m.k] /\ y \notin Range(w.numeros)
    BY <1>4, <2>1
  <2>4. ~(m.k > children_nb(g, w.sc)) /\ Len(w.numeros) < m.i
    BY <1>1, <1>3, <1>4, <2>1
  <2>5. Fits(g, y, m, labels)
    BY <1>4 DEF Fits
  <2> HIDE DEF w, u
  <2>6. u.ok /\ u.sc = y /\ u.numeros = Append(w.numeros, y)
    BY <1>4, <2>1, <2>2, <2>3, <2>4, <2>5, WalkNewTaken
  <2>7. QED BY <2>1, <2>6 DEF u, more
<1>8. QED BY <1>1, <1>5, <1>6, <1>7 DEF Walked, m, more

-----------------------------------------------------------------------------
(***************************************************************************)
(* The states of parcoursLargeur: the first one, and those where every     *)
(* element of the queue is a link from an explored node.                   *)
(***************************************************************************)
SearchStart(v) == [queue |-> <<<<0, 0, v>>>>, explored |-> <<>>, sc |-> 0, mots |-> <<>>]
Triples(g) == Nat \X Nat \X NodesOf(g)

LinkFrom(g, ex, e) == /\ e[1] \in Range(ex) /\ e[2] \in 1..children_nb(g, e[1])
                      /\ e[3] = g.children[e[1]][e[2]]

SearchStates(g) == [queue : Seq(Triples(g)), explored : Seq(NodesOf(g)), sc : NodesOf(g),
                    mots : Seq(WordLetters)]

Searched(g, v, size, s) ==
    \/ s = SearchStart(v)
    \/ /\ s \in SearchStates(g) /\ s.mots # <<>>
       /\ Walked(g, v, s.mots, s.explored, s.sc) /\ Len(s.explored) <= size
       /\ \A i \in 1..Len(s.queue) : LinkFrom(g, s.explored, s.queue[i])

Popped(g, size, s) == IF s.queue = <<>> THEN s ELSE Pop(g, size, s)

\* Popping the root.
LEMMA PopRoot ==
    ASSUME NEW g, IsGraph(g), NEW v \in NodesOf(g), NEW size \in Nat \ {0}
    PROVE  LET u == Pop(g, size, SearchStart(v))
           IN  /\ Searched(g, v, size, u) /\ u.mots # <<>>
               /\ u.explored = <<v>> /\ u.sc = v /\ u.mots = <<M1(g.symb[v])>>
               /\ u.queue = [c \in DOMAIN g.children[v] |-> <<v, c, g.children[v][c]>>]
<1> DEFINE s == SearchStart(v)
           u == Pop(g, size, s)
           links == [c \in DOMAIN g.children[v] |-> <<v, c, g.children[v][c]>>]
           m == M1(g.symb[v])
<1>1. /\ s.queue = <<<<0, 0, v>>>> /\ s.explored = <<>> /\ s.mots = <<>> /\ s.sc = 0
      /\ s.queue[1][1] = 0 /\ s.queue[1][2] = 0 /\ s.queue[1][3] = v
      /\ Tail(s.queue) = <<>>
  BY DEF SearchStart
<1>2. v \notin Range(s.explored) /\ Takes(v, s, size)
  BY <1>1, RangeEmpty DEF Takes
<1>3. u = [queue |-> Tail(s.queue) \o links, explored |-> Append(s.explored, v), sc |-> v,
           mots |-> s.mots \o <<>> \o <<m>>]
  <2> DEFINE y == s.queue[1][3]
             back == IF s.sc # s.queue[1][1] /\ s.mots # <<>>
                     THEN <<BackTo(list_id(s.explored, s.queue[1][1]))>> ELSE <<>>
             kids == [c \in DOMAIN g.children[y] |-> <<y, c, g.children[y][c]>>]
             letter == IF s.mots = <<>> THEN M1(g.symb[y])
                       ELSE NewChild(s.queue[1][2], Len(s.explored) + 1, g.symb[y])
  <2>1. y = v /\ s.mots = <<>>
    BY <1>1
  <2> HIDE DEF s
  <2>2. Takes(y, s, size) /\ y \notin Range(s.explored)
    BY <1>2, <2>1
  <2>3. u = [queue |-> Tail(s.queue) \o kids, explored |-> Append(s.explored, y), sc |-> y,
             mots |-> s.mots \o back \o <<letter>>]
    BY <2>2 DEF Pop
  <2>4. back = <<>> /\ letter = M1(g.symb[y])
    BY <2>1
  <2> HIDE DEF y, back, letter, u
  <2>5. kids = links /\ letter = m
    BY <2>1, <2>4, Zenon
  <2> HIDE DEF kids, links, m
  <2>6. QED BY <2>1, <2>3, <2>4, <2>5
<1>4. DOMAIN g.children[v] = 1..children_nb(g, v) /\ children_nb(g, v) \in Nat
      /\ \A c \in 1..children_nb(g, v) : g.children[v][c] \in NodesOf(g)
  BY GraphFacts
<1>5. v \in Nat
  <2>1. NodesOf(g) = 1..Len(g.children) /\ Len(g.children) \in Nat
    BY GraphFacts
  <2>2. QED BY <2>1
<1>6. /\ links \in Seq(Triples(g)) /\ Len(links) = children_nb(g, v)
      /\ \A c \in 1..Len(links) : links[c] = <<v, c, g.children[v][c]>>
  <2>1. \A c \in 1..children_nb(g, v) : <<v, c, g.children[v][c]>> \in Triples(g)
    BY <1>4, <1>5 DEF Triples
  <2>2. links = [c \in 1..children_nb(g, v) |-> <<v, c, g.children[v][c]>>]
    BY <1>4
  <2> HIDE DEF links
  <2>3. links \in Seq(Triples(g)) /\ Len(links) = children_nb(g, v)
    BY <1>4, <2>1, <2>2
  <2>4. QED BY <2>2, <2>3
<1> DEFINE none == <<>>
           first == <<v>>
<1>7. Append(s.explored, v) = first /\ s.mots \o none \o <<m>> = <<m>>
  BY <1>1
<1>8. u.explored = first /\ u.sc = v /\ u.mots = <<m>> /\ u.queue = links
  <2>1. Tail(s.queue) \o links = links
    <3> HIDE DEF links, s
    <3>1. QED BY <1>1, <1>6, ConcatEmptySeq
  <2> HIDE DEF links, s, u, m, first
  <2>2. QED BY <1>3, <1>7, <2>1
<1>9. Walked(g, v, <<m>>, first, v) /\ <<m>> # <<>>
  BY WalkedRoot
<1>10. Len(first) = 1 /\ Range(first) = {v}
  BY DEF Range
<1>11. \A i \in 1..Len(u.queue) : LinkFrom(g, u.explored, u.queue[i])
  <2> HIDE DEF links, u, first
  <2>1. ASSUME NEW i \in 1..Len(links) PROVE LinkFrom(g, first, links[i])
    <3>1. links[i] = <<v, i, g.children[v][i]>>
      BY <1>6
    <3>2. links[i][1] = v /\ links[i][2] = i /\ links[i][3] = g.children[v][i]
      BY <3>1
    <3>3. QED BY <1>6, <1>10, <3>2 DEF LinkFrom
  <2>2. QED BY <1>8, <2>1
<1>12. Searched(g, v, size, u)
  <2>0. u \in SearchStates(g)
    <3>1. <<m>> \in Seq(WordLetters) /\ first \in Seq(NodesOf(g))
      BY <1>9 DEF Walked, WellFormed
    <3>2. u = [queue |-> links, explored |-> first, sc |-> v, mots |-> <<m>>]
      <4>1. Tail(s.queue) \o links = links
        <5> HIDE DEF links, s
        <5>1. QED BY <1>1, <1>6, ConcatEmptySeq
      <4> HIDE DEF links, s, u, m, first
      <4>2. QED BY <1>3, <1>7, <4>1
    <3> HIDE DEF links, u, first, m
    <3>3. QED BY <1>6, <3>1, <3>2 DEF SearchStates
  <2> HIDE DEF links, u, first, m
  <2>1. QED BY <2>0, <1>6, <1>8, <1>9, <1>10, <1>11 DEF Searched
<1>13. u.explored = <<v>> /\ u.mots = <<M1(g.symb[v])>> /\ u.queue = links /\ u.mots # <<>>
  <2>1. first = <<v>> /\ <<m>> = <<M1(g.symb[v])>>
    OBVIOUS
  <2> HIDE DEF u, first, m, links
  <2>2. QED BY <1>8, <1>9, <2>1
<1> HIDE DEF u, first, m
<1>14. QED BY <1>8, <1>12, <1>13 DEF u, s

\* Going back to the father of the link, when the word is elsewhere.
BackWord(s, x) == s.mots \o (IF s.sc # x THEN <<BackTo(list_id(s.explored, x))>> ELSE <<>>)

LEMMA WentBack ==
    ASSUME NEW g, IsGraph(g), NEW v \in NodesOf(g), NEW s, s.mots # <<>>,
           Walked(g, v, s.mots, s.explored, s.sc), NEW x \in Range(s.explored)
    PROVE  Walked(g, v, BackWord(s, x), s.explored, x) /\ BackWord(s, x) # <<>>
<1> DEFINE m == BackTo(list_id(s.explored, x))
<1>1. s.mots \in Seq(WordLetters) /\ s.explored \in Seq(NodesOf(g))
  BY DEF Walked, WellFormed
<1>2. CASE s.sc = x
  <2>1. BackWord(s, x) = s.mots
    BY <1>1, <1>2, ConcatEmptySeq DEF BackWord
  <2>2. QED BY <1>2, <2>1
<1>3. CASE s.sc # x
  <2>1. m \in WordLetters
    <3>1. list_id(s.explored, x) \in 1..Len(s.explored)
      BY <1>1, ListIdFacts
    <3>2. QED BY <1>1, <3>1, LenProperties DEF BackTo, WordLetters
  <2>2. BackWord(s, x) = s.mots \o <<m>>
    BY <1>3 DEF BackWord
  <2> HIDE DEF m
  <2>3. BackWord(s, x) = Append(s.mots, m)
    BY <1>1, <2>1, <2>2, AppendIsConcat
  <2>4. Append(s.mots, m) # <<>>
    BY <1>1, <2>1, AppendProperties
  <2>5. Walked(g, v, Append(s.mots, m), s.explored, x)
    BY <1>1, WalkedBack DEF m
  <2>6. QED BY <2>3, <2>4, <2>5
<1>4. QED BY <1>2, <1>3

\* Popping a link.
LEMMA PopLink ==
    ASSUME NEW g, IsGraph(g), NEW v \in NodesOf(g), NEW size \in Nat \ {0}, NEW s,
           Searched(g, v, size, s), s.mots # <<>>, s.queue # <<>>
    PROVE  LET u == Pop(g, size, s) IN Searched(g, v, size, u) /\ u.mots # <<>>
<1> DEFINE u == Pop(g, size, s)
           e == s.queue[1]
           x == e[1]
           k == e[2]
           y == e[3]
           q == BackWord(s, x)
           rest == Tail(s.queue)
<1>1. /\ Walked(g, v, s.mots, s.explored, s.sc) /\ Len(s.explored) <= size
      /\ s \in SearchStates(g) /\ s.queue \in Seq(Triples(g))
      /\ \A i \in 1..Len(s.queue) : LinkFrom(g, s.explored, s.queue[i])
  <2>1. s # SearchStart(v)
    BY DEF SearchStart
  <2>2. QED BY <2>1 DEF Searched, SearchStates
<1>2. s.explored \in Seq(NodesOf(g)) /\ Len(s.explored) \in Nat /\ s.mots \in Seq(WordLetters)
      /\ Range(s.explored) \subseteq NodesOf(g)
  BY <1>1, LenProperties, RangeFacts DEF Walked, WellFormed
<1>3. /\ rest \in Seq(Triples(g)) /\ Len(s.queue) \in Nat \ {0} /\ Len(rest) = Len(s.queue) - 1
      /\ \A i \in 1..Len(rest) : rest[i] = s.queue[i + 1]
  BY <1>1, HeadTailProperties, EmptySeq
<1>4. x \in Range(s.explored) /\ k \in 1..children_nb(g, x) /\ y = g.children[x][k]
  <2>1. 1 \in 1..Len(s.queue)
    BY <1>3
  <2>2. LinkFrom(g, s.explored, e)
    BY <1>1, <2>1
  <2>3. QED BY <2>2 DEF LinkFrom
<1>5. x \in NodesOf(g) /\ y \in NodesOf(g)
  BY <1>2, <1>4, GraphFacts
<1>6. Walked(g, v, q, s.explored, x) /\ q # <<>> /\ q \in Seq(WordLetters)
  BY <1>1, <1>4, WentBack DEF Walked, WellFormed
<1>7. \A i \in 1..Len(rest) : LinkFrom(g, s.explored, rest[i])
  <2>1. \A i \in 1..Len(rest) : i + 1 \in 1..Len(s.queue)
    BY <1>3
  <2>2. QED BY <1>1, <1>3, <2>1
<1> DEFINE back == IF s.sc # x /\ s.mots # <<>> THEN <<BackTo(list_id(s.explored, x))>> ELSE <<>>
<1>8. s.mots \o back = q
  BY DEF BackWord
<1> HIDE DEF q, rest
<1>9. CASE ~Takes(y, s, size)
  <2>1. u = [s EXCEPT !.queue = rest]
    BY <1>9 DEF Pop, rest
  <2>2. /\ u \in SearchStates(g) /\ u.queue = rest /\ u.explored = s.explored
        /\ u.sc = s.sc /\ u.mots = s.mots
    BY <1>1, <1>3, <2>1 DEF SearchStates
  <2> HIDE DEF u
  <2>3. Searched(g, v, size, u) /\ u.mots # <<>>
    BY <1>1, <1>7, <2>2 DEF Searched
  <2>4. QED BY <2>3 DEF u
<1>10. CASE Takes(y, s, size) /\ y \in Range(s.explored)
  <2> DEFINE m == OldChild(k, list_id(s.explored, y))
             r == Append(q, m)
  <2>1. Walked(g, v, r, s.explored, y)
    BY <1>4, <1>5, <1>6, <1>10, WalkedOld
  <2>2. m \in WordLetters
    <3>1. list_id(s.explored, y) \in 1..Len(s.explored) /\ children_nb(g, x) \in Nat
      BY <1>2, <1>5, <1>10, ListIdFacts, GraphFacts
    <3>2. QED BY <1>2, <1>4, <3>1 DEF OldChild, WordLetters
  <2>3. q \o <<m>> = r /\ r \in Seq(WordLetters) /\ r # <<>>
    <3> HIDE DEF m
    <3>1. QED BY <1>6, <2>2, AppendIsConcat, AppendProperties
  <2>4. u = [s EXCEPT !.queue = rest, !.sc = y, !.mots = s.mots \o back \o <<m>>]
    BY <1>10 DEF Pop, rest
  <2> HIDE DEF m, r, back
  <2>5. u = [s EXCEPT !.queue = rest, !.sc = y, !.mots = r]
    BY <1>8, <2>3, <2>4
  <2>6. /\ u \in SearchStates(g) /\ u.queue = rest /\ u.explored = s.explored
        /\ u.sc = y /\ u.mots = r
    <3> HIDE DEF y, u
    <3>1. QED BY <1>1, <1>3, <1>5, <2>3, <2>5 DEF SearchStates
  <2> HIDE DEF u
  <2>7. Searched(g, v, size, u) /\ u.mots # <<>>
    BY <1>1, <1>7, <2>1, <2>3, <2>6 DEF Searched
  <2>8. QED BY <2>7 DEF u
<1>11. CASE Takes(y, s, size) /\ y \notin Range(s.explored)
  <2> DEFINE m == NewChild(k, Len(s.explored) + 1, g.symb[y])
             r == Append(q, m)
             ex == Append(s.explored, y)
             links == [c \in DOMAIN g.children[y] |-> <<y, c, g.children[y][c]>>]
  <2>1. Walked(g, v, r, ex, y)
    BY <1>4, <1>5, <1>6, <1>11, WalkedNew
  <2>2. m \in WordLetters
    <3>1. g.symb[y] \in Nat /\ children_nb(g, x) \in Nat
      BY <1>5, GraphFacts, SMTT(30)
    <3>2. m \in [type : {"new"}, k : Nat \ {0}, i : Nat \ {0}, symbol : Nat]
      BY <1>2, <1>4, <3>1 DEF NewChild
    <3>3. QED BY <3>2 DEF WordLetters
  <2>3. q \o <<m>> = r /\ r \in Seq(WordLetters) /\ r # <<>>
    <3> HIDE DEF m
    <3>1. QED BY <1>6, <2>2, AppendIsConcat, AppendProperties
  <2>4. /\ ex \in Seq(NodesOf(g)) /\ Len(ex) = Len(s.explored) + 1
        /\ Range(ex) = Range(s.explored) \cup {y}
    BY <1>2, <1>5, RangeAppend, AppendProperties
  <2>5. Len(ex) <= size
    BY <1>2, <1>11, <2>4 DEF Takes
  <2>6. DOMAIN g.children[y] = 1..children_nb(g, y) /\ children_nb(g, y) \in Nat
        /\ \A c \in 1..children_nb(g, y) : g.children[y][c] \in NodesOf(g)
    BY <1>5, GraphFacts
  <2>7. /\ links \in Seq(Triples(g)) /\ Len(links) = children_nb(g, y)
        /\ \A c \in 1..Len(links) : links[c] = <<y, c, g.children[y][c]>>
    <3>1. y \in Nat
      <4>1. NodesOf(g) = 1..Len(g.children) /\ Len(g.children) \in Nat
        BY GraphFacts
      <4> HIDE DEF y
      <4>2. QED BY <1>5, <4>1
    <3> HIDE DEF y
    <3>2. \A c \in 1..children_nb(g, y) : <<y, c, g.children[y][c]>> \in Triples(g)
      BY <1>5, <2>6, <3>1 DEF Triples
    <3>3. links = [c \in 1..children_nb(g, y) |-> <<y, c, g.children[y][c]>>]
      BY <2>6
    <3> HIDE DEF links
    <3>4. links \in Seq(Triples(g)) /\ Len(links) = children_nb(g, y)
      BY <2>6, <3>2, <3>3
    <3>5. QED BY <3>3, <3>4
  <2> DEFINE all == rest \o links
  <2>8. u = [queue |-> all, explored |-> ex, sc |-> y, mots |-> s.mots \o back \o <<m>>]
    <3>1. s.mots # <<>>
      OBVIOUS
    <3>2. QED BY <1>11, <3>1 DEF Pop, rest
  <2> HIDE DEF m, r, back, ex, links
  <2>9. /\ all \in Seq(Triples(g)) /\ Len(all) = Len(rest) + Len(links) /\ Len(rest) \in Nat
        /\ Len(links) \in Nat
        /\ \A i \in 1..(Len(rest) + Len(links)) :
              all[i] = IF i <= Len(rest) THEN rest[i] ELSE links[i - Len(rest)]
    BY <1>3, <2>7, ConcatProperties, LenProperties
  <2>10. \A i \in 1..Len(all) : LinkFrom(g, ex, all[i])
    <3> HIDE DEF all
    <3>1. ASSUME NEW i \in 1..Len(all), i <= Len(rest) PROVE LinkFrom(g, ex, all[i])
      <4>1. all[i] = rest[i] /\ i \in 1..Len(rest)
        BY <2>9, <3>1
      <4>2. LinkFrom(g, s.explored, rest[i])
        BY <1>7, <4>1
      <4>3. QED BY <2>4, <4>1, <4>2 DEF LinkFrom
    <3>2. ASSUME NEW i \in 1..Len(all), ~(i <= Len(rest)) PROVE LinkFrom(g, ex, all[i])
      <4> DEFINE c == i - Len(rest)
      <4>1. c \in 1..Len(links) /\ all[i] = links[c]
        BY <2>9, <3>2
      <4> HIDE DEF c
      <4>2. all[i] = <<y, c, g.children[y][c]>>
        BY <2>7, <4>1
      <4>3. all[i][1] = y /\ all[i][2] = c /\ all[i][3] = g.children[y][c]
        BY <4>2
      <4>4. QED BY <2>4, <2>7, <4>1, <4>3 DEF LinkFrom
    <3>3. QED BY <3>1, <3>2
  <2> HIDE DEF all, u
  <2>11. u = [queue |-> all, explored |-> ex, sc |-> y, mots |-> r]
    BY <1>8, <2>3, <2>8
  <2>12. u \in SearchStates(g)
    <3> HIDE DEF y
    <3>1. QED BY <1>5, <2>3, <2>4, <2>9, <2>11 DEF SearchStates
  <2>13. u.queue = all /\ u.explored = ex /\ u.sc = y /\ u.mots = r
    BY <2>11
  <2>14. Searched(g, v, size, u) /\ u.mots # <<>>
    BY <2>1, <2>3, <2>5, <2>10, <2>12, <2>13 DEF Searched
  <2>15. QED BY <2>14 DEF u
<1>12. QED BY <1>9, <1>10, <1>11

\* The search of a word is a run of 2 * size + 1 pops from the start; the first
\* pops the root, and each state after it is one of a search.
RunsFrom(r, g, v, size) ==
    /\ r[0] = SearchStart(v)
    /\ \A t \in 1..(2 * size + 1) : /\ r[t] = Popped(g, size, r[t - 1])
                                    /\ Searched(g, v, size, r[t]) /\ r[t].mots # <<>>
    /\ LET end == r[2 * size + 1]
       IN  parcoursLargeur(g, v, size) =
             [mots     |-> end.mots,
              complete |-> Len(end.explored) = size,
              explored |-> end.explored,
              asserts  |-> \A y \in Range(end.explored) : children_nb(g, y) <= 2]

LEMMA ParcoursRun ==
    ASSUME NEW g, IsGraph(g), NEW v \in NodesOf(g), NEW size \in Nat \ {0}
    PROVE  \E r : RunsFrom(r, g, v, size)
<1> DEFINE start == SearchStart(v)
           n == 2 * size + 1
           A == {start} \cup {s \in SearchStates(g) : Searched(g, v, size, s)}
           step == [x \in (1..n) \X A |-> Popped(g, size, x[2])]
           Q(h) == h = [t \in 0..n |->
                          IF t = 0 THEN start
                          ELSE Once(LAMBDA s : IF s.queue = <<>> THEN s ELSE Pop(g, size, s), h[t - 1])]
           G == CHOOSE h : Q(h)
           p == parcoursLargeur(g, v, size)
<1>1. p = [mots     |-> G[n].mots,
           complete |-> Len(G[n].explored) = size,
           explored |-> G[n].explored,
           asserts  |-> \A y \in Range(G[n].explored) : children_nb(g, y) <= 2]
  BY DEF parcoursLargeur, SearchStart
<1>2. ASSUME NEW x
      PROVE  Once(LAMBDA s : IF s.queue = <<>> THEN s ELSE Pop(g, size, s), x) = Popped(g, size, x)
  BY DEF Once, Popped
<1>3. ASSUME NEW s \in A
      PROVE  /\ Popped(g, size, s) \in A
             /\ s = start \/ s.mots # <<>> => Popped(g, size, s).mots # <<>>
  <2>1. CASE s = start
    <3>1. s.queue # <<>>
      BY <2>1 DEF SearchStart
    <3>2. Popped(g, size, s) = Pop(g, size, s)
      BY <3>1 DEF Popped
    <3>3. Searched(g, v, size, Pop(g, size, s)) /\ Pop(g, size, s).mots # <<>>
      BY <2>1, PopRoot, ZenonT(40)
    <3>4. Pop(g, size, s) # start
      BY <3>3 DEF SearchStart
    <3>5. QED BY <3>2, <3>3, <3>4 DEF Searched
  <2>2. CASE s # start
    <3>1. Searched(g, v, size, s) /\ s.mots # <<>> /\ s \in A
      BY <2>2 DEF Searched
    <3>2. CASE s.queue = <<>>
      BY <3>1, <3>2 DEF Popped
    <3>3. CASE s.queue # <<>>
      <4>1. Popped(g, size, s) = Pop(g, size, s)
        BY <3>3 DEF Popped
      <4>2. Searched(g, v, size, Pop(g, size, s)) /\ Pop(g, size, s).mots # <<>>
        BY <3>1, <3>3, PopLink
      <4>3. Pop(g, size, s) # start
        BY <4>2 DEF SearchStart
      <4>4. QED BY <4>1, <4>2, <4>3 DEF Searched
    <3>4. QED BY <3>2, <3>3
  <2>3. QED BY <2>1, <2>2
<1>4. start \in A /\ n \in Nat /\ n >= 1
  OBVIOUS
<1>5. \A s \in A : s # start => Searched(g, v, size, s) /\ s.mots # <<>>
  BY DEF Searched
<1> HIDE DEF A, p, n, start
<1>6. FoldsIn(step, 1..n, A)
  BY <1>3 DEF FoldsIn
<1>7. PICK r \in [0..n -> A] : Iterates(r, step, start, n)
  <2> HIDE DEF step
  <2>1. QED BY <1>4, <1>6, IterationExists
<1>8. Q(r)
  <2>1. ASSUME NEW t \in 1..n PROVE r[t] = Popped(g, size, r[t - 1])
    <3>1. t - 1 \in 0..n
      BY <1>4
    <3>2. r[t - 1] \in A
      BY <1>7, <3>1
    <3>3. r[t] = step[<<t, r[t - 1]>>]
      BY <1>7 DEF Iterates
    <3>4. QED BY <3>2, <3>3
  <2>2. r[0] = start
    BY <1>7 DEF Iterates
  <2>3. \A t \in 0..n : t # 0 => t \in 1..n
    BY <1>4
  <2>4. \A t \in 0..n : r[t] = IF t = 0 THEN start
                               ELSE Once(LAMBDA s : IF s.queue = <<>> THEN s ELSE Pop(g, size, s),
                                         r[t - 1])
    <3>1. ASSUME NEW t \in 0..n, t # 0
          PROVE  r[t] = Once(LAMBDA s : IF s.queue = <<>> THEN s ELSE Pop(g, size, s), r[t - 1])
      <4>1. Once(LAMBDA s : IF s.queue = <<>> THEN s ELSE Pop(g, size, s), r[t - 1])
              = Popped(g, size, r[t - 1])
        BY <1>2
      <4>2. r[t] = Popped(g, size, r[t - 1])
        BY <2>1, <2>3, <3>1
      <4>3. QED BY <4>1, <4>2, Zenon
    <3>2. QED BY <2>2, <3>1, Zenon
  <2>5. r = [t \in 0..n |-> r[t]]
    BY <1>7
  <2>6. QED BY <2>4, <2>5, Zenon
<1>9. Q(G)
  <2> HIDE DEF Q
  <2>1. QED BY <1>8
<1> HIDE DEF G
<1>10. G[0] = start /\ \A t \in 1..n : G[t] = Popped(g, size, G[t - 1])
  <2>1. 0 \in 0..n /\ \A t \in 1..n : t \in 0..n /\ t # 0
    BY <1>4
  <2>2. G[0] = start
    BY <1>9, <2>1, Zenon
  <2>3. ASSUME NEW t \in 1..n PROVE G[t] = Popped(g, size, G[t - 1])
    <3>1. G[t] = Once(LAMBDA s : IF s.queue = <<>> THEN s ELSE Pop(g, size, s), G[t - 1])
      BY <1>9, <2>1, Zenon
    <3>2. Once(LAMBDA s : IF s.queue = <<>> THEN s ELSE Pop(g, size, s), G[t - 1])
            = Popped(g, size, G[t - 1])
      BY <1>2
    <3>3. QED BY <3>1, <3>2, Zenon
  <2>4. QED BY <2>2, <2>3
<1> HIDE DEF Q
<1> DEFINE S == {t \in 0..n : G[t] \in A /\ (t # 0 => G[t].mots # <<>>)}
<1>11. 0 \in S
  BY <1>4, <1>10
<1>12. ASSUME NEW t \in 0..n, t \in S, t < n PROVE t + 1 \in S
  <2>1. t + 1 \in 1..n /\ t + 1 \in 0..n /\ (t + 1) - 1 = t /\ t + 1 # 0
    BY <1>4, <1>12
  <2>2. G[t + 1] = Popped(g, size, G[t])
    BY <1>10, <2>1
  <2>3. G[t] \in A /\ (t # 0 => G[t].mots # <<>>) /\ (t = 0 => G[t] = start)
    BY <1>10, <1>12
  <2>4. Popped(g, size, G[t]) \in A /\ Popped(g, size, G[t]).mots # <<>>
    BY <1>3, <2>3
  <2>5. QED BY <2>1, <2>2, <2>4
<1> HIDE DEF S
<1>13. 0..n \subseteq S
  BY <1>4, <1>11, <1>12, SetInductionUpTo
<1>14. ASSUME NEW t \in 1..n PROVE Searched(g, v, size, G[t]) /\ G[t].mots # <<>>
  <2>1. t \in 0..n /\ t # 0
    BY <1>4, <1>14
  <2>2. G[t] \in A /\ G[t].mots # <<>>
    BY <1>13, <2>1 DEF S
  <2>3. G[t] # start
    BY <2>2 DEF start, SearchStart
  <2>4. QED BY <1>5, <2>2, <2>3
<1>15. RunsFrom(G, g, v, size)
  BY <1>1, <1>10, <1>14 DEF RunsFrom, n, start, p
<1>16. QED BY <1>15

\* The word of a root is well formed, numbers the nodes of the site, and can be
\* walked from that root.
LEMMA ParcoursFacts ==
    ASSUME NEW g, IsGraph(g), NEW v \in NodesOf(g), NEW size \in Nat \ {0}
    PROVE  LET p == parcoursLargeur(g, v, size)
           IN  /\ p.complete \in BOOLEAN /\ p.asserts \in BOOLEAN
               /\ WellFormed(p.mots) /\ p.mots # <<>> /\ NumbersIn(p.mots, Len(p.mots)) <= size
               /\ \A labels \in BOOLEAN : WalkOf(g, v, p.mots, labels).ok
<1> DEFINE p == parcoursLargeur(g, v, size)
           n == 2 * size + 1
<1>1. PICK r : RunsFrom(r, g, v, size)
  BY ParcoursRun
<1>2. n \in 1..n
  OBVIOUS
<1>3. Searched(g, v, size, r[n]) /\ r[n].mots # <<>>
  BY <1>1, <1>2 DEF RunsFrom
<1>4. Walked(g, v, r[n].mots, r[n].explored, r[n].sc) /\ Len(r[n].explored) <= size
  BY <1>3 DEF Searched, SearchStart
<1>5. p.mots = r[n].mots /\ p.complete \in BOOLEAN /\ p.asserts \in BOOLEAN
  BY <1>1 DEF RunsFrom
<1>6. WellFormed(p.mots) /\ p.mots # <<>> /\ NumbersIn(p.mots, Len(p.mots)) <= size
  BY <1>3, <1>4, <1>5 DEF Walked
<1>7. \A labels \in BOOLEAN : WalkOf(g, v, p.mots, labels).ok
  BY <1>4, <1>5 DEF Walked
<1>8. QED BY <1>5, <1>6, <1>7 DEF p

-----------------------------------------------------------------------------
(***************************************************************************)
(* The shape of the tree of words.  Every node but the root is the fils of *)
(* one node, which comes before it; no two fils of a node have the same    *)
(* letter; and the word of every node is well formed.                      *)
(***************************************************************************)
TreeNodes == [mot : WordLetters \cup {<<>>}, fils : Seq(Nat), feuille : BOOLEAN]

HasFather(t, y) == \E x \in 1..(y - 1) : y \in Range(t[x].fils)

LinksDown(t) ==
    /\ t \in Seq(TreeNodes) /\ Len(t) >= 1
    /\ \A x \in 1..Len(t) : \A c \in 1..Len(t[x].fils) : t[x].fils[c] \in (x + 1)..Len(t)
    /\ \A y \in 2..Len(t) : t[y].mot \in WordLetters /\ HasFather(t, y)

OneFather(t) ==
    \A x, z \in 1..Len(t) : \A c \in 1..Len(t[x].fils) : \A d \in 1..Len(t[z].fils) :
        t[x].fils[c] = t[z].fils[d] => x = z /\ c = d

LettersDiffer(t) ==
    \A x \in 1..Len(t) : \A c, d \in 1..Len(t[x].fils) :
        CanonLetter(t[t[x].fils[c]].mot) = CanonLetter(t[t[x].fils[d]].mot) => c = d

NoDeadEnd(t) == \A y \in 2..Len(t) : t[y].feuille \/ t[y].fils # <<>>

SpeltAlong(w, t) ==
    /\ w \in [1..Len(t) -> Seq(WordLetters)]
    /\ w[1] = <<>>
    /\ \A y \in 2..Len(t) : w[y] = Append(w[Father(t, y)], t[y].mot)

WordsFit(w, t) == \A y \in 1..Len(t) : WellFormed(w[y]) /\ NumbersIn(w[y], Len(w[y])) <= W

TreeShape(t) == /\ LinksDown(t) /\ OneFather(t) /\ LettersDiffer(t) /\ NoDeadEnd(t)
                /\ ~t[1].feuille
                /\ SpeltAlong(WordTo(t), t) /\ WordsFit(WordTo(t), t)

LEMMA WordNodeFacts ==
    ASSUME NEW t, LinksDown(t)
    PROVE  /\ Len(t) \in Nat /\ DOMAIN t = 1..Len(t) /\ 1 \in 1..Len(t)
           /\ \A x \in 1..Len(t) : /\ t[x] \in TreeNodes /\ t[x].fils \in Seq(Nat)
                                   /\ t[x].feuille \in BOOLEAN /\ Len(t[x].fils) \in Nat
                                   /\ DOMAIN t[x].fils = 1..Len(t[x].fils)
           /\ \A x \in 1..Len(t) : \A c \in 1..Len(t[x].fils) :
                 t[x].fils[c] \in 2..Len(t) /\ t[x].fils[c] > x /\ t[x].fils[c] \in 1..Len(t)
<1>1. t \in Seq(TreeNodes) /\ Len(t) >= 1
  BY DEF LinksDown
<1>2. Len(t) \in Nat /\ DOMAIN t = 1..Len(t) /\ \A x \in 1..Len(t) : t[x] \in TreeNodes
  BY <1>1, LenProperties, ElementOfSeq
<1>3. ASSUME NEW x \in 1..Len(t)
      PROVE  /\ t[x].fils \in Seq(Nat) /\ t[x].feuille \in BOOLEAN /\ Len(t[x].fils) \in Nat
             /\ DOMAIN t[x].fils = 1..Len(t[x].fils)
  <2>1. t[x].fils \in Seq(Nat) /\ t[x].feuille \in BOOLEAN
    BY <1>2 DEF TreeNodes
  <2>2. QED BY <2>1, LenProperties
<1>4. ASSUME NEW x \in 1..Len(t), NEW c \in 1..Len(t[x].fils)
      PROVE  t[x].fils[c] \in 2..Len(t) /\ t[x].fils[c] > x /\ t[x].fils[c] \in 1..Len(t)
  <2>1. t[x].fils[c] \in (x + 1)..Len(t)
    BY DEF LinksDown
  <2>2. QED BY <1>2, <2>1
<1>5. QED BY <1>1, <1>2, <1>3, <1>4

LEMMA FatherIsBefore ==
    ASSUME NEW t, LinksDown(t), NEW y \in 2..Len(t)
    PROVE  Father(t, y) \in 1..(y - 1) /\ Father(t, y) \in 1..Len(t) /\ y \in Range(t[Father(t, y)].fils)
<1>1. \E x \in 1..(y - 1) : y \in Range(t[x].fils)
  BY DEF LinksDown, HasFather
<1>2. Father(t, y) \in 1..(y - 1) /\ y \in Range(t[Father(t, y)].fils)
  BY <1>1 DEF Father
<1>3. QED BY <1>2, WordNodeFacts

LEMMA FatherIs ==
    ASSUME NEW t, LinksDown(t), OneFather(t), NEW x \in 1..Len(t), NEW c \in 1..Len(t[x].fils)
    PROVE  Father(t, t[x].fils[c]) = x
<1> DEFINE y == t[x].fils[c]
           f == Father(t, y)
<1>1. y \in 2..Len(t)
  BY WordNodeFacts
<1> HIDE DEF y
<1>2. f \in 1..Len(t) /\ y \in Range(t[f].fils)
  BY <1>1, FatherIsBefore
<1>3. PICK d \in 1..Len(t[f].fils) : t[f].fils[d] = y
  BY <1>2, WordNodeFacts, RangeFacts
<1>4. f = x
  BY <1>2, <1>3 DEF OneFather, y
<1>5. QED BY <1>4 DEF y

\* The words of the nodes are the only ones with these equations.
LEMMA WordToIs ==
    ASSUME NEW t, LinksDown(t), NEW w, SpeltAlong(w, t)
    PROVE  WordTo(t) = w
<1> DEFINE n == Len(t)
           Q(h) == h = [x \in DOMAIN t |-> IF x = 1 THEN <<>> ELSE Append(h[Father(t, x)], t[x].mot)]
           G == CHOOSE h : Q(h)
<1>1. WordTo(t) = G
  BY DEF WordTo
<1>2. n \in Nat /\ DOMAIN t = 1..n /\ n >= 1
  BY WordNodeFacts DEF LinksDown
<1>3. Q(w)
  <2>1. \A x \in 1..n : x # 1 => x \in 2..n
    BY <1>2
  <2>2. \A x \in 1..n : w[x] = IF x = 1 THEN <<>> ELSE Append(w[Father(t, x)], t[x].mot)
    BY <2>1 DEF SpeltAlong
  <2>3. w = [x \in 1..n |-> w[x]]
    BY DEF SpeltAlong
  <2> HIDE DEF n
  <2>4. w = [x \in DOMAIN t |-> w[x]]
    BY <1>2, <2>3
  <2>5. QED BY <1>2, <2>2, <2>4
<1>4. Q(G)
  <2> HIDE DEF Q
  <2>1. QED BY <1>3
<1> HIDE DEF G
<1>5. G = [x \in DOMAIN t |-> G[x]]
  BY <1>4, Zenon
<1>6. \A x \in 1..n : G[x] = IF x = 1 THEN <<>> ELSE Append(G[Father(t, x)], t[x].mot)
  BY <1>2, <1>4, Zenon
<1> HIDE DEF Q, n
<1> DEFINE S == {k \in 0..n : \A x \in 1..k : G[x] = w[x]}
<1>7. 0 \in S
  BY <1>2
<1>8. ASSUME NEW k \in 0..n, k \in S, k < n PROVE k + 1 \in S
  <2>1. \A x \in 1..k : G[x] = w[x]
    BY <1>8
  <2>2. G[k + 1] = w[k + 1]
    <3>1. CASE k = 0
      <4>1. G[1] = <<>> /\ w[1] = <<>>
        BY <1>2, <1>6 DEF SpeltAlong
      <4>2. QED BY <3>1, <4>1
    <3>2. CASE k # 0
      <4> DEFINE y == k + 1
      <4>1. y \in 2..n /\ y \in 1..n /\ y # 1
        BY <1>2, <1>8, <3>2
      <4>2. y - 1 = k
        BY <1>2
      <4> HIDE DEF y
      <4>3. Father(t, y) \in 1..k
        BY <4>1, <4>2, FatherIsBefore DEF n
      <4>4. w[y] = Append(w[Father(t, y)], t[y].mot)
        BY <4>1 DEF SpeltAlong, n
      <4>5. G[y] = Append(G[Father(t, y)], t[y].mot)
        BY <1>6, <4>1
      <4>6. G[y] = w[y]
        BY <2>1, <4>3, <4>4, <4>5
      <4>7. QED BY <4>6 DEF y
    <3>3. QED BY <3>1, <3>2
  <2>3. k + 1 \in 0..n /\ \A x \in 1..(k + 1) : x \in 1..k \/ x = k + 1
    BY <1>2, <1>8
  <2>4. \A x \in 1..(k + 1) : G[x] = w[x]
    BY <2>1, <2>2, <2>3
  <2>5. QED BY <2>3, <2>4
<1> HIDE DEF S
<1>9. 0..n \subseteq S
  BY <1>2, <1>7, <1>8, SetInductionUpTo
<1>10. \A x \in 1..n : G[x] = w[x]
  <2>1. n \in S
    BY <1>2, <1>9
  <2>2. QED BY <2>1 DEF S
<1>11. w = [x \in DOMAIN t |-> w[x]]
  BY <1>2 DEF SpeltAlong, n
<1>12. G = w
  BY <1>2, <1>5, <1>10, <1>11, Zenon
<1>13. QED BY <1>1, <1>12

LEMMA AppendEqual ==
    ASSUME NEW p \in Seq(WordLetters), NEW m \in WordLetters,
           NEW q \in Seq(WordLetters), NEW o \in WordLetters,
           Append(p, m) = Append(q, o)
    PROVE  p = q /\ m = o
<1>1. Front(Append(p, m)) = p /\ Last(Append(p, m)) = m
  BY AppendFacts
<1>2. Front(Append(q, o)) = q /\ Last(Append(q, o)) = o
  BY AppendFacts
<1>3. QED BY <1>1, <1>2

LEMMA WordFacts ==
    ASSUME NEW t, TreeShape(t)
    PROVE  /\ \A x \in 1..Len(t) : /\ WordTo(t)[x] \in Seq(WordLetters) /\ Len(WordTo(t)[x]) \in Nat
                                   /\ WellFormed(WordTo(t)[x])
                                   /\ NumbersIn(WordTo(t)[x], Len(WordTo(t)[x])) <= W
           /\ WordTo(t)[1] = <<>>
           /\ \A y \in 2..Len(t) : /\ WordTo(t)[y] = Append(WordTo(t)[Father(t, y)], t[y].mot)
                                   /\ t[y].mot \in WordLetters /\ WordTo(t)[y] # <<>>
                                   /\ Father(t, y) \in 1..(y - 1) /\ Father(t, y) \in 1..Len(t)
                                   /\ \E c \in 1..Len(t[Father(t, y)].fils) : t[Father(t, y)].fils[c] = y
           /\ \A x \in 1..Len(t) : \A c \in 1..Len(t[x].fils) :
                 /\ t[x].fils[c] \in 2..Len(t) /\ t[x].fils[c] \in 1..Len(t)
                 /\ WordTo(t)[t[x].fils[c]] = Append(WordTo(t)[x], t[t[x].fils[c]].mot)
<1> DEFINE w == WordTo(t)
<1>1. LinksDown(t) /\ OneFather(t) /\ SpeltAlong(w, t) /\ WordsFit(w, t)
  BY DEF TreeShape
<1> HIDE DEF w
<1>2. ASSUME NEW x \in 1..Len(t)
      PROVE  w[x] \in Seq(WordLetters) /\ Len(w[x]) \in Nat /\ WellFormed(w[x])
             /\ NumbersIn(w[x], Len(w[x])) <= W
  <2>1. w[x] \in Seq(WordLetters)
    BY <1>1 DEF SpeltAlong
  <2>2. QED BY <1>1, <2>1, LenProperties DEF WordsFit
<1>3. w[1] = <<>>
  BY <1>1 DEF SpeltAlong
<1>4. ASSUME NEW y \in 2..Len(t)
      PROVE  /\ w[y] = Append(w[Father(t, y)], t[y].mot)
             /\ t[y].mot \in WordLetters /\ w[y] # <<>>
             /\ Father(t, y) \in 1..(y - 1) /\ Father(t, y) \in 1..Len(t)
             /\ \E c \in 1..Len(t[Father(t, y)].fils) : t[Father(t, y)].fils[c] = y
  <2> DEFINE f == Father(t, y)
  <2>1. f \in 1..(y - 1) /\ f \in 1..Len(t) /\ y \in Range(t[f].fils)
    BY <1>1, FatherIsBefore
  <2>2. w[y] = Append(w[f], t[y].mot) /\ t[y].mot \in WordLetters
    BY <1>1 DEF SpeltAlong, LinksDown
  <2>3. w[y] # <<>>
    <3>1. w[f] \in Seq(WordLetters)
      BY <1>2, <2>1
    <3> HIDE DEF f
    <3>2. QED BY <2>2, <3>1, AppendProperties
  <2>4. \E c \in 1..Len(t[f].fils) : t[f].fils[c] = y
    <3> HIDE DEF f
    <3>1. t[f].fils \in Seq(Nat)
      BY <1>1, <2>1, WordNodeFacts
    <3>2. QED BY <2>1, <3>1, RangeFacts
  <2>5. QED BY <2>1, <2>2, <2>3, <2>4
<1>5. ASSUME NEW x \in 1..Len(t), NEW c \in 1..Len(t[x].fils)
      PROVE  /\ t[x].fils[c] \in 2..Len(t) /\ t[x].fils[c] \in 1..Len(t)
             /\ w[t[x].fils[c]] = Append(w[x], t[t[x].fils[c]].mot)
  <2>1. t[x].fils[c] \in 2..Len(t) /\ t[x].fils[c] \in 1..Len(t)
    BY <1>1, WordNodeFacts
  <2>2. Father(t, t[x].fils[c]) = x
    BY <1>1, FatherIs
  <2>3. QED BY <1>4, <2>1, <2>2
<1>6. QED BY <1>2, <1>3, <1>4, <1>5 DEF w

\* No two nodes spell the same word, labels left out or not.
LEMMA WordsDistinct ==
    ASSUME NEW t, TreeShape(t)
    PROVE  \A x, y \in 1..Len(t) : Canon(WordTo(t)[x]) = Canon(WordTo(t)[y]) => x = y
<1> DEFINE n == Len(t)
           w == WordTo(t)
           S == {k \in 0..n : \A x, y \in 1..k : Canon(w[x]) = Canon(w[y]) => x = y}
<1>1. LinksDown(t) /\ OneFather(t) /\ LettersDiffer(t) /\ n \in Nat
  BY WordNodeFacts DEF TreeShape
<1>2. 0 \in S
  BY <1>1
<1>3. ASSUME NEW k \in 0..n, k < n, NEW y \in 1..k,
             \A a, b \in 1..k : Canon(w[a]) = Canon(w[b]) => a = b
      PROVE  Canon(w[k + 1]) # Canon(w[y])
  <2> DEFINE x == k + 1
             fx == Father(t, x)
             fy == Father(t, y)
  <2>1. x \in 2..n /\ x \in 1..n /\ y \in 1..n /\ y # x /\ x - 1 = k
    BY <1>1, <1>3
  <2> HIDE DEF x
  <2>2. /\ w[x] = Append(w[fx], t[x].mot) /\ t[x].mot \in WordLetters /\ fx \in 1..k /\ fx \in 1..n
        /\ \E c \in 1..Len(t[fx].fils) : t[fx].fils[c] = x
    BY <2>1, WordFacts
  <2>3. Canon(w[x]) = Append(Canon(w[fx]), CanonLetter(t[x].mot))
    <3>1. w[fx] \in Seq(WordLetters)
      BY <2>2, WordFacts
    <3>2. QED BY <2>2, <3>1, CanonMore
  <2>4. Canon(w[fx]) \in Seq(WordLetters) /\ CanonLetter(t[x].mot) \in WordLetters
    BY <2>2, WordFacts, CanonIs, CanonLetterFacts
  <2>5. CASE y = 1
    <3>1. w[y] = <<>> /\ w[y] \in Seq(WordLetters)
      BY <2>1, <2>5, WordFacts
    <3>2. Canon(w[y]) = <<>>
      BY <3>1, CanonIs
    <3>3. Canon(w[x]) # <<>>
      BY <2>3, <2>4, AppendProperties
    <3>4. QED BY <3>2, <3>3 DEF x
  <2>6. CASE y # 1
    <3>1. y \in 2..n /\ y - 1 \in 0..k
      BY <2>1, <2>6, <1>1
    <3>2. /\ w[y] = Append(w[fy], t[y].mot) /\ t[y].mot \in WordLetters /\ fy \in 1..(y - 1)
          /\ fy \in 1..n /\ \E c \in 1..Len(t[fy].fils) : t[fy].fils[c] = y
      BY <3>1, WordFacts
    <3>3. fy \in 1..k
      BY <3>1, <3>2
    <3>4. Canon(w[y]) = Append(Canon(w[fy]), CanonLetter(t[y].mot))
      <4>1. w[fy] \in Seq(WordLetters)
        BY <3>2, WordFacts
      <4>2. QED BY <3>2, <4>1, CanonMore
    <3>5. Canon(w[fy]) \in Seq(WordLetters) /\ CanonLetter(t[y].mot) \in WordLetters
      BY <3>2, WordFacts, CanonIs, CanonLetterFacts
    <3>6. ASSUME Canon(w[x]) = Canon(w[y]) PROVE FALSE
      <4>1. Canon(w[fx]) = Canon(w[fy]) /\ CanonLetter(t[x].mot) = CanonLetter(t[y].mot)
        <5> DEFINE p == Canon(w[fx])
                   a == CanonLetter(t[x].mot)
                   q == Canon(w[fy])
                   b == CanonLetter(t[y].mot)
        <5>1. Append(p, a) = Append(q, b)
          BY <2>3, <3>4, <3>6, Zenon
        <5>2. p \in Seq(WordLetters) /\ a \in WordLetters /\ q \in Seq(WordLetters) /\ b \in WordLetters
          BY <2>4, <3>5
        <5> HIDE DEF p, a, q, b
        <5>3. p = q /\ a = b
          BY <5>1, <5>2, AppendEqual
        <5>4. QED BY <5>3 DEF p, a, q, b
      <4>2. fx = fy
        BY <1>3, <2>2, <3>3, <4>1
      <4>3. PICK c \in 1..Len(t[fx].fils) : t[fx].fils[c] = x
        BY <2>2
      <4>4. PICK d \in 1..Len(t[fy].fils) : t[fy].fils[d] = y
        BY <3>2
      <4> HIDE DEF fx, fy
      <4>5. c = d
        BY <1>1, <2>2, <4>1, <4>2, <4>3, <4>4 DEF LettersDiffer
      <4>6. QED BY <2>1, <4>2, <4>3, <4>4, <4>5
    <3>7. QED BY <3>6 DEF x
  <2>7. QED BY <2>5, <2>6
<1>4. ASSUME NEW k \in 0..n, k \in S, k < n PROVE k + 1 \in S
  <2>1. \A a, b \in 1..k : Canon(w[a]) = Canon(w[b]) => a = b
    BY <1>4
  <2>2. k + 1 \in 0..n /\ \A x \in 1..(k + 1) : x \in 1..k \/ x = k + 1
    BY <1>1, <1>4
  <2> HIDE DEF w
  <2>3. ASSUME NEW x \in 1..(k + 1), NEW y \in 1..(k + 1), Canon(w[x]) = Canon(w[y])
        PROVE  x = y
    BY <1>3, <1>4, <2>1, <2>2, <2>3
  <2>4. QED BY <2>2, <2>3
<1> HIDE DEF S
<1>5. 0..n \subseteq S
  <2> HIDE DEF n
  <2>1. QED BY <1>1, <1>2, <1>4, SetInductionUpTo
<1>6. n \in S
  BY <1>1, <1>5
<1>7. QED BY <1>6 DEF S

\* The first letters of the word of a node are the word of a node.
LEMMA Ancestors ==
    ASSUME NEW t, TreeShape(t)
    PROVE  \A x \in 1..Len(t) : \A k \in 0..Len(WordTo(t)[x]) :
               \E y \in 1..Len(t) : WordTo(t)[y] = SubSeq(WordTo(t)[x], 1, k)
<1> DEFINE n == Len(t)
           w == WordTo(t)
           Prefixed(x) == \A k \in 0..Len(w[x]) : \E y \in 1..n : w[y] = SubSeq(w[x], 1, k)
           S == {m \in 0..n : \A x \in 1..m : Prefixed(x)}
<1>1. n \in Nat /\ n >= 1
  BY WordNodeFacts DEF TreeShape, LinksDown
<1>2. 0 \in S
  BY <1>1
<1>3. ASSUME NEW m \in 0..n, m < n, \A x \in 1..m : Prefixed(x) PROVE Prefixed(m + 1)
  <2> DEFINE x == m + 1
  <2>1. x \in 1..n /\ x - 1 = m /\ (x = 1 \/ x \in 2..n)
    BY <1>1, <1>3
  <2> HIDE DEF x
  <2>2. w[x] \in Seq(WordLetters) /\ Len(w[x]) \in Nat
    BY <2>1, WordFacts
  <2>3. ASSUME NEW k \in 0..Len(w[x]) PROVE \E y \in 1..n : w[y] = SubSeq(w[x], 1, k)
    <3>1. CASE k = Len(w[x])
      <4>1. w[x] = SubSeq(w[x], 1, k)
        BY <2>2, <3>1, SubSeqFull
      <4>2. QED BY <2>1, <4>1
    <3>2. CASE k # Len(w[x])
      <4>1. x \in 2..n
        <5>1. CASE x = 1
          <6>1. w[x] = <<>>
            BY <5>1, WordFacts
          <6>2. Len(w[x]) = 0
            BY <6>1
          <6>3. QED BY <3>2, <6>2
        <5>2. QED BY <2>1, <5>1
      <4> DEFINE f == Father(t, x)
      <4>2. w[x] = Append(w[f], t[x].mot) /\ t[x].mot \in WordLetters /\ f \in 1..m /\ f \in 1..n
        BY <2>1, <4>1, WordFacts
      <4>3. w[f] \in Seq(WordLetters)
        BY <4>2, WordFacts
      <4> HIDE DEF f
      <4>4. Len(w[x]) = Len(w[f]) + 1 /\ Len(w[f]) \in Nat
            /\ \A j \in 0..Len(w[f]) : SubSeq(w[x], 1, j) = SubSeq(w[f], 1, j)
        BY <4>2, <4>3, AppendFacts
      <4>5. k \in 0..Len(w[f])
        BY <3>2, <4>4
      <4>6. \E y \in 1..n : w[y] = SubSeq(w[f], 1, k)
        BY <1>3, <4>2, <4>5
      <4>7. QED BY <4>4, <4>5, <4>6
    <3>3. QED BY <3>1, <3>2
  <2>4. QED BY <2>3 DEF x
<1>4. ASSUME NEW m \in 0..n, m \in S, m < n PROVE m + 1 \in S
  <2> HIDE DEF Prefixed
  <2>1. \A x \in 1..m : Prefixed(x)
    BY <1>4
  <2>2. m + 1 \in 0..n /\ \A x \in 1..(m + 1) : x \in 1..m \/ x = m + 1
    BY <1>1, <1>4
  <2>3. Prefixed(m + 1)
    BY <1>3, <1>4, <2>1
  <2>4. QED BY <2>1, <2>2, <2>3
<1> HIDE DEF S
<1>5. 0..n \subseteq S
  <2> HIDE DEF n
  <2>1. QED BY <1>1, <1>2, <1>4, SetInductionUpTo
<1>6. n \in S
  BY <1>1, <1>5
<1>7. QED BY <1>6 DEF S

\* A longer word goes on through one of the fils.
LEMMA WordsGoOn ==
    ASSUME NEW t, TreeShape(t), NEW x \in 1..Len(t), NEW y \in 1..Len(t), NEW k \in Nat,
           WordTo(t)[y] = SubSeq(WordTo(t)[x], 1, k), k < Len(WordTo(t)[x])
    PROVE  \E c \in 1..Len(t[y].fils) :
               WordTo(t)[t[y].fils[c]] = SubSeq(WordTo(t)[x], 1, k + 1)
<1> DEFINE w == WordTo(t)
           m == w[x][k + 1]
<1>1. w[x] \in Seq(WordLetters) /\ w[y] \in Seq(WordLetters) /\ Len(w[x]) \in Nat
  BY WordFacts
<1>2. k \in 0..Len(w[x]) /\ k + 1 \in 0..Len(w[x]) /\ k + 1 \in 1..Len(w[x])
  BY <1>1
<1>3. PICK z \in 1..Len(t) : w[z] = SubSeq(w[x], 1, k + 1)
  BY <1>2, Ancestors
<1> HIDE DEF w
<1>4. m \in WordLetters /\ SubSeq(w[x], 1, k + 1) = Append(SubSeq(w[x], 1, k), m)
  BY <1>1, <1>2, ElementOfSeq, PrefixMore DEF w
<1>5. w[z] = Append(w[y], m)
  BY <1>3, <1>4 DEF w
<1>6. z \in 2..Len(t)
  <2>1. w[z] # <<>>
    <3> HIDE DEF m
    <3>1. Append(w[y], m) # <<>>
      BY <1>1, <1>4, AppendProperties
    <3>2. QED BY <1>5, <3>1, Zenon
  <2>2. w[1] = <<>>
    BY WordFacts DEF w
  <2>3. Len(t) \in Nat
    BY WordNodeFacts DEF TreeShape
  <2>4. z # 1
    BY <2>1, <2>2
  <2>5. QED BY <2>3, <2>4
<1> DEFINE f == Father(t, z)
<1>7. /\ w[z] = Append(w[f], t[z].mot) /\ t[z].mot \in WordLetters /\ f \in 1..Len(t)
      /\ \E c \in 1..Len(t[f].fils) : t[f].fils[c] = z
  <2>1. /\ WordTo(t)[z] = Append(WordTo(t)[f], t[z].mot) /\ t[z].mot \in WordLetters /\ f \in 1..Len(t)
        /\ \E c \in 1..Len(t[f].fils) : t[f].fils[c] = z
    BY <1>6, WordFacts, SMTT(60)
  <2>2. QED BY <2>1 DEF w
<1>8. w[f] \in Seq(WordLetters)
  BY <1>7, WordFacts DEF w
<1> HIDE DEF f, m
<1>9. w[f] = w[y]
  <2>1. Append(w[f], t[z].mot) = Append(w[y], m)
    BY <1>5, <1>7, Zenon
  <2> DEFINE p == w[f]
             o == t[z].mot
             q == w[y]
  <2>2. p \in Seq(WordLetters) /\ o \in WordLetters /\ q \in Seq(WordLetters) /\ m \in WordLetters
    BY <1>1, <1>4, <1>7, <1>8
  <2> HIDE DEF p, o, q
  <2>3. Append(p, o) = Append(q, m)
    BY <2>1 DEF p, o, q
  <2>4. p = q
    BY <2>2, <2>3, AppendEqual
  <2>5. QED BY <2>4 DEF p, q
<1>10. f = y
  BY <1>7, <1>9, WordsDistinct DEF w
<1>11. PICK c \in 1..Len(t[y].fils) : t[y].fils[c] = z
  BY <1>7, <1>10
<1>12. w[t[y].fils[c]] = SubSeq(w[x], 1, k + 1)
  BY <1>3, <1>11
<1>13. \E e \in 1..Len(t[y].fils) : w[t[y].fils[e]] = SubSeq(w[x], 1, k + 1)
  BY <1>12
<1>14. QED BY <1>13 DEF w

-----------------------------------------------------------------------------
(***************************************************************************)
(* Fils, Spelt and addParcours.                                            *)
(***************************************************************************)
LEMMA FilsFacts ==
    ASSUME NEW t, LinksDown(t), NEW x \in 1..Len(t), NEW m \in WordLetters
    PROVE  /\ Fils(t, x, m) = 0 =>
                 \A c \in 1..Len(t[x].fils) : CanonLetter(t[t[x].fils[c]].mot) # CanonLetter(m)
           /\ Fils(t, x, m) # 0 =>
                 \E c \in 1..Len(t[x].fils) : /\ Fils(t, x, m) = t[x].fils[c]
                                              /\ CanonLetter(t[t[x].fils[c]].mot) = CanonLetter(m)
<1> DEFINE same == {c \in DOMAIN t[x].fils :
                       SameLetter(t[t[x].fils[c]].mot, m, option.checkLabels)}
           least == CHOOSE c \in same : \A o \in same : c <= o
<1>1. DOMAIN t[x].fils = 1..Len(t[x].fils) /\ Len(t[x].fils) \in Nat
      /\ \A c \in 1..Len(t[x].fils) : t[x].fils[c] \in 2..Len(t)
  BY WordNodeFacts
<1>2. \A c \in 1..Len(t[x].fils) : t[t[x].fils[c]].mot \in WordLetters
  BY <1>1 DEF LinksDown
<1>3. \A c \in 1..Len(t[x].fils) :
         c \in same <=> CanonLetter(t[t[x].fils[c]].mot) = CanonLetter(m)
  BY <1>1, <1>2, SameLetterIs
<1>4. same \subseteq 1..Len(t[x].fils) /\ same \subseteq Nat
  BY <1>1
<1>5. Fils(t, x, m) = IF same = {} THEN 0 ELSE t[x].fils[least]
  BY DEF Fils
<1>6. CASE same = {}
  <2>1. Fils(t, x, m) = 0
    BY <1>5, <1>6
  <2>2. QED BY <1>3, <1>6, <2>1
<1>7. CASE same # {}
  <2>1. least \in same
    <3> HIDE DEF same
    <3>1. Min(same) \in same /\ \A o \in same : Min(same) <= o
      BY <1>4, <1>7, LeastIsIn
    <3>2. QED BY <3>1
  <2> HIDE DEF least, same
  <2>2. least \in 1..Len(t[x].fils) /\ CanonLetter(t[t[x].fils[least]].mot) = CanonLetter(m)
    BY <1>3, <1>4, <2>1
  <2>3. Fils(t, x, m) = t[x].fils[least]
    BY <1>5, <1>7
  <2>4. Fils(t, x, m) # 0
    BY <1>1, <2>2, <2>3
  <2>5. QED BY <2>2, <2>3, <2>4
<1>8. QED BY <1>6, <1>7

LongerPath(t, p, path, j) ==
    IF Len(path) = j /\ Fils(t, path[j], p[j]) # 0 THEN Append(path, Fils(t, path[j], p[j]))
    ELSE path

Descends(t, p, j, path) ==
    /\ path \in Seq(1..Len(t)) /\ Len(path) \in 1..(j + 1)
    /\ Canon(WordTo(t)[path[Len(path)]]) = SubSeq(Canon(p), 1, Len(path) - 1)
    /\ Len(path) <= j => Fils(t, path[Len(path)], p[Len(path)]) = 0

LEMMA DescendsMore ==
    ASSUME NEW t, TreeShape(t), NEW p \in Seq(WordLetters), NEW j \in 1..Len(p), NEW path,
           Descends(t, p, j - 1, path)
    PROVE  Descends(t, p, j, LongerPath(t, p, path, j))
<1> DEFINE n == Len(t)
           d == Len(path)
           u == path[d]
           y == Fils(t, u, p[d])
           w == WordTo(t)
<1>1. /\ path \in Seq(1..n) /\ d \in 1..j /\ Canon(w[u]) = SubSeq(Canon(p), 1, d - 1)
      /\ (d <= j - 1 => y = 0) /\ Len(p) \in Nat /\ j \in Nat
  <2>1. Len(p) \in Nat
    BY LenProperties
  <2>2. j \in Nat /\ (j - 1) + 1 = j
    BY <2>1
  <2>3. QED BY <2>1, <2>2 DEF Descends
<1>2. LinksDown(t)
  BY DEF TreeShape
<1>3. d \in 1..Len(p) /\ p[d] \in WordLetters /\ u \in 1..n
  <2>1. d \in 1..Len(p) /\ d \in 1..Len(path)
    BY <1>1
  <2>2. QED BY <1>1, <2>1, ElementOfSeq
<1>4. CASE d = j /\ y # 0
  <2>1. PICK c \in 1..Len(t[u].fils) :
           y = t[u].fils[c] /\ CanonLetter(t[y].mot) = CanonLetter(p[d])
    <3> HIDE DEF u, d
    <3>1. QED BY <1>2, <1>3, <1>4, FilsFacts
  <2>2. y \in 1..n /\ y \in 2..n /\ w[y] = Append(w[u], t[y].mot) /\ w[u] \in Seq(WordLetters)
    <3> HIDE DEF u, d, y
    <3>1. QED BY <1>3, <2>1, WordFacts
  <2>3. t[y].mot \in WordLetters
    BY <2>2, WordFacts
  <2>4. LongerPath(t, p, path, j) = Append(path, y)
    BY <1>4 DEF LongerPath
  <2>5. Append(path, y) \in Seq(1..n) /\ Len(Append(path, y)) = d + 1 /\ Append(path, y)[d + 1] = y
    <3> HIDE DEF y
    <3>1. QED BY <1>1, <2>2, AppendProperties
  <2>6. Canon(w[y]) = SubSeq(Canon(p), 1, (d + 1) - 1)
    <3>1. Canon(w[y]) = Append(Canon(w[u]), CanonLetter(t[y].mot))
      <4>1. Canon(Append(w[u], t[y].mot)) = Append(Canon(w[u]), CanonLetter(t[y].mot))
        <5> HIDE DEF u, w, y
        <5>1. QED BY <2>2, <2>3, CanonMore
      <4>2. QED BY <2>2, <4>1, Zenon
    <3>2. /\ Canon(p) \in Seq(WordLetters) /\ Len(Canon(p)) = Len(p)
          /\ Canon(p)[d] = CanonLetter(p[d])
      <4> HIDE DEF d
      <4>1. QED BY <1>3, CanonIs
    <3>3. SubSeq(Canon(p), 1, (d - 1) + 1) = Append(SubSeq(Canon(p), 1, d - 1), Canon(p)[(d - 1) + 1])
      <4>1. d - 1 \in 0..Len(Canon(p)) /\ d - 1 < Len(Canon(p))
        BY <1>1, <1>3, <3>2
      <4> HIDE DEF d
      <4>2. QED BY <3>2, <4>1, PrefixMore
    <3>4. (d - 1) + 1 = d /\ (d + 1) - 1 = d
      BY <1>1
    <3>5. SubSeq(Canon(p), 1, d) = Append(SubSeq(Canon(p), 1, d - 1), CanonLetter(p[d]))
      BY <3>2, <3>3, <3>4
    <3>6. CanonLetter(t[y].mot) = CanonLetter(p[d])
      BY <2>1
    <3> HIDE DEF d, u, y, w
    <3>7. QED BY <1>1, <3>1, <3>4, <3>5, <3>6, Zenon
  <2> HIDE DEF d, u, y
  <2> DEFINE more == Append(path, y)
  <2>7. more \in Seq(1..n) /\ Len(more) = d + 1 /\ more[Len(more)] = y
    BY <2>5, Zenon
  <2>8. Canon(w[more[Len(more)]]) = SubSeq(Canon(p), 1, Len(more) - 1)
    BY <2>6, <2>7, Zenon
  <2>9. Len(more) \in 1..(j + 1) /\ ~(Len(more) <= j)
    BY <1>1, <1>4, <2>7
  <2> HIDE DEF more
  <2>10. Descends(t, p, j, more)
    BY <2>7, <2>8, <2>9 DEF Descends
  <2>11. QED BY <2>4, <2>10 DEF more
<1>5. CASE ~(d = j /\ y # 0)
  <2>1. LongerPath(t, p, path, j) = path
    BY <1>5 DEF LongerPath
  <2>2. d \in 1..(j + 1) /\ (d <= j => y = 0)
    BY <1>1, <1>5
  <2>3. Descends(t, p, j, path)
    BY <1>1, <2>2 DEF Descends
  <2>4. QED BY <2>1, <2>3
<1>6. QED BY <1>4, <1>5

LEMMA SpeltFacts ==
    ASSUME NEW t, TreeShape(t), NEW p \in Seq(WordLetters)
    PROVE  Descends(t, p, Len(p), Spelt(t, p))
<1> DEFINE n == Len(p)
           A == Seq(1..Len(t))
           step == [x \in (1..n) \X A |-> IF LongerPath(t, p, x[2], x[1]) \in A
                                          THEN LongerPath(t, p, x[2], x[1]) ELSE x[2]]
           L(path, i) == LET x == IF Len(path) = i THEN Fils(t, path[i], p[i]) ELSE 0
                         IN  IF x = 0 THEN path ELSE Append(path, x)
           Q(h) == h = [i \in 0..n |-> IF i = 0 THEN <<1>>
                                       ELSE Once(LAMBDA path : L(path, i), h[i - 1])]
           G == CHOOSE h : Q(h)
<1>1. Spelt(t, p) = G[n]
  BY DEF Spelt
<1>2. ASSUME NEW path, NEW i
      PROVE  Once(LAMBDA z : L(z, i), path) = LongerPath(t, p, path, i)
  <2>1. {L(z, i) : z \in {path}} = {L(path, i)}
    OBVIOUS
  <2>2. L(path, i) = LongerPath(t, p, path, i)
    BY DEF LongerPath
  <2> HIDE DEF L
  <2>3. Once(LAMBDA z : L(z, i), path) = CHOOSE y \in {L(z, i) : z \in {path}} : TRUE
    BY DEF Once
  <2>4. (CHOOSE y \in {L(path, i)} : TRUE) = L(path, i)
    OBVIOUS
  <2>5. QED BY <2>1, <2>2, <2>3, <2>4, Zenon
<1>3. n \in Nat /\ Len(t) \in Nat /\ Len(t) >= 1 /\ <<1>> \in A
  <2>1. Len(t) \in Nat /\ 1 \in 1..Len(t)
    BY WordNodeFacts DEF TreeShape
  <2>2. <<1>> \in Seq(1..Len(t))
    BY <2>1
  <2>3. QED BY <2>1, <2>2, LenProperties
<1>4. Descends(t, p, 0, <<1>>)
  <2>1. Len(<<1>>) = 1 /\ <<1>>[1] = 1
    OBVIOUS
  <2>2. WordTo(t)[1] = <<>> /\ <<>> \in Seq(WordLetters)
    BY WordFacts, EmptySeq
  <2>3. Canon(WordTo(t)[1]) = <<>>
    BY <2>2, CanonIs
  <2>4. SubSeq(Canon(p), 1, 0) = <<>>
    BY SubSeqEmpty
  <2>5. Canon(WordTo(t)[<<1>>[Len(<<1>>)]]) = SubSeq(Canon(p), 1, Len(<<1>>) - 1)
    <3>1. <<1>>[Len(<<1>>)] = 1 /\ Len(<<1>>) - 1 = 0
      BY <2>1
    <3>2. QED BY <2>3, <2>4, <3>1, Zenon
  <2>6. Len(<<1>>) \in 1..(0 + 1) /\ ~(Len(<<1>>) <= 0)
    BY <2>1
  <2> DEFINE path == <<1>>
  <2>7. path \in Seq(1..Len(t)) /\ Len(path) \in 1..(0 + 1) /\ ~(Len(path) <= 0)
        /\ Canon(WordTo(t)[path[Len(path)]]) = SubSeq(Canon(p), 1, Len(path) - 1)
    BY <1>3, <2>5, <2>6
  <2> HIDE DEF path
  <2>8. Descends(t, p, 0, path)
    BY <2>7 DEF Descends
  <2>9. QED BY <2>8 DEF path
<1>5. FoldsIn(step, 1..n, A)
  BY DEF FoldsIn
<1> DEFINE base == <<1>>
<1> HIDE DEF G, n, base, A
<1>6. PICK r \in [0..n -> A] : Iterates(r, step, base, n)
  <2> HIDE DEF step
  <2>1. base \in A
    BY <1>3 DEF base
  <2>2. QED BY <1>3, <1>5, <2>1, IterationExists
<1>7. r[0] = base /\ \A i \in 1..n : r[i] = IF LongerPath(t, p, r[i - 1], i) \in A
                                            THEN LongerPath(t, p, r[i - 1], i) ELSE r[i - 1]
  <2>1. r[0] = base
    BY <1>6 DEF Iterates
  <2>2. ASSUME NEW i \in 1..n
        PROVE  r[i] = IF LongerPath(t, p, r[i - 1], i) \in A
                      THEN LongerPath(t, p, r[i - 1], i) ELSE r[i - 1]
    <3>1. i - 1 \in 0..n
      BY <1>3
    <3>2. r[i - 1] \in A
      BY <1>6, <3>1
    <3>3. r[i] = step[<<i, r[i - 1]>>]
      BY <1>6 DEF Iterates
    <3>4. QED BY <3>2, <3>3
  <2>3. QED BY <2>1, <2>2
<1> HIDE DEF step
<1> DEFINE S == {i \in 0..n : Descends(t, p, i, r[i])}
<1>8. ASSUME NEW i \in 0..n, i \in S, i < n
      PROVE  i + 1 \in S /\ r[i + 1] = LongerPath(t, p, r[i], i + 1)
  <2>1. i + 1 \in 1..n /\ i + 1 \in 0..n /\ (i + 1) - 1 = i
    BY <1>3, <1>8
  <2>2. Descends(t, p, (i + 1) - 1, r[i])
    BY <1>8, <2>1
  <2>3. Descends(t, p, i + 1, LongerPath(t, p, r[i], i + 1))
    BY <2>1, <2>2, DescendsMore DEF n
  <2>4. LongerPath(t, p, r[i], i + 1) \in A
    BY <2>3 DEF Descends, A
  <2>5. r[i + 1] = LongerPath(t, p, r[i], i + 1)
    BY <1>7, <2>1, <2>4
  <2>6. Descends(t, p, i + 1, r[i + 1])
    BY <2>3, <2>5, Zenon
  <2>7. QED BY <2>1, <2>5, <2>6
<1>9. 0 \in S
  <2>1. 0 \in 0..n /\ r[0] = base
    BY <1>3, <1>7
  <2>2. Descends(t, p, 0, r[0])
    BY <1>4, <2>1, Zenon DEF base
  <2>3. QED BY <2>1, <2>2
<1>10. 0..n \subseteq S
  <2> HIDE DEF S
  <2>1. QED BY <1>3, <1>8, <1>9, SetInductionUpTo
<1>11. ASSUME NEW i \in 1..n PROVE r[i] = LongerPath(t, p, r[i - 1], i)
  <2>1. i - 1 \in 0..n /\ i - 1 < n /\ (i - 1) + 1 = i
    BY <1>3
  <2> HIDE DEF S
  <2>2. i - 1 \in S
    BY <1>10, <2>1
  <2>3. QED BY <1>8, <2>1, <2>2
<1>12. Q(r)
  <2>1. \A i \in 0..n : i # 0 => i \in 1..n
    BY <1>3
  <2>2. ASSUME NEW i \in 0..n, i # 0
        PROVE  r[i] = Once(LAMBDA path : L(path, i), r[i - 1])
    <3>1. r[i] = LongerPath(t, p, r[i - 1], i)
      BY <1>11, <2>1, <2>2
    <3>2. Once(LAMBDA path : L(path, i), r[i - 1]) = LongerPath(t, p, r[i - 1], i)
      BY <1>2
    <3>3. QED BY <3>1, <3>2, Zenon
  <2>3. \A i \in 0..n : r[i] = IF i = 0 THEN <<1>> ELSE Once(LAMBDA path : L(path, i), r[i - 1])
    <3>1. r[0] = <<1>>
      BY <1>7 DEF base
    <3>2. QED BY <2>2, <3>1, Zenon
  <2>4. r = [i \in 0..n |-> r[i]]
    BY <1>6
  <2>5. QED BY <2>3, <2>4, Zenon
<1>13. Q(G)
  <2> HIDE DEF Q
  <2>1. QED BY <1>12 DEF G
<1>14. G[0] = <<1>> /\ \A i \in 1..n : G[i] = LongerPath(t, p, G[i - 1], i)
  <2>1. 0 \in 0..n /\ \A i \in 1..n : i \in 0..n /\ i # 0
    BY <1>3
  <2>2. G[0] = <<1>>
    BY <1>13, <2>1, Zenon
  <2>3. ASSUME NEW i \in 1..n PROVE G[i] = LongerPath(t, p, G[i - 1], i)
    <3>1. G[i] = Once(LAMBDA path : L(path, i), G[i - 1])
      BY <1>13, <2>1, Zenon
    <3>2. Once(LAMBDA path : L(path, i), G[i - 1]) = LongerPath(t, p, G[i - 1], i)
      BY <1>2
    <3>3. QED BY <3>1, <3>2, Zenon
  <2>4. QED BY <2>2, <2>3
<1> HIDE DEF Q, S
<1> DEFINE T == {i \in 0..n : Descends(t, p, i, G[i])}
<1>15. 0 \in T
  <2>1. 0 \in 0..n
    BY <1>3
  <2>2. Descends(t, p, 0, G[0])
    BY <1>4, <1>14, Zenon
  <2>3. QED BY <2>1, <2>2
<1>16. ASSUME NEW i \in 0..n, i \in T, i < n PROVE i + 1 \in T
  <2>1. i + 1 \in 1..n /\ i + 1 \in 0..n /\ (i + 1) - 1 = i
    BY <1>3, <1>16
  <2>2. Descends(t, p, (i + 1) - 1, G[i])
    BY <1>16, <2>1
  <2>3. Descends(t, p, i + 1, LongerPath(t, p, G[i], i + 1))
    BY <2>1, <2>2, DescendsMore DEF n
  <2>4. G[i + 1] = LongerPath(t, p, G[i], i + 1)
    BY <1>14, <2>1
  <2>5. Descends(t, p, i + 1, G[i + 1])
    BY <2>3, <2>4, Zenon
  <2>6. QED BY <2>1, <2>5
<1> HIDE DEF T
<1>17. 0..n \subseteq T
  BY <1>3, <1>15, <1>16, SetInductionUpTo
<1>18. Descends(t, p, n, G[n])
  BY <1>3, <1>17 DEF T
<1>19. QED BY <1>1, <1>18, Zenon DEF n

\* t2 is t with the letters of p from the d-th on under its node u.
AddedTo(t, p, u, d, t2) ==
    LET n == Len(t)
        k == Len(p) + 1 - d
    IN  /\ t2 \in Seq(TreeNodes) /\ Len(t2) = n + k
        /\ \A x \in 1..n : x # u => t2[x] = t[x]
        /\ t2[u].mot = t[u].mot
        /\ t2[u].feuille = (t[u].feuille \/ k = 0)
        /\ t2[u].fils = IF k = 0 THEN t[u].fils ELSE Append(t[u].fils, n + 1)
        /\ \A i \in 1..k : /\ t2[n + i].mot = p[d + i - 1]
                           /\ t2[n + i].feuille = (i = k)
                           /\ t2[n + i].fils = IF i = k THEN <<>> ELSE <<n + i + 1>>

LEMMA AddParcoursIs ==
    ASSUME NEW t, TreeShape(t), NEW p \in Seq(WordLetters)
    PROVE  LET path == Spelt(t, p)
           IN  /\ Len(path) \in 1..(Len(p) + 1) /\ path[Len(path)] \in 1..Len(t)
               /\ AddedTo(t, p, path[Len(path)], Len(path), addParcours(t, p))
<1> DEFINE path == Spelt(t, p)
           n == Len(t)
           d == Len(path)
           u == path[d]
           k == Len(p) + 1 - d
           new == [i \in 1..k |->
                    [mot |-> p[d + i - 1], feuille |-> d + i - 1 = Len(p),
                     fils |-> IF d + i - 1 = Len(p) THEN <<>> ELSE <<n + i + 1>>]]
           more == IF k = 0 THEN t[u].fils ELSE Append(t[u].fils, n + 1)
           node == [mot |-> t[u].mot, fils |-> more, feuille |-> t[u].feuille \/ k = 0]
           above == [t EXCEPT ![u] = node]
<1>1. path \in Seq(1..n) /\ d \in 1..(Len(p) + 1) /\ Len(p) \in Nat /\ n \in Nat
  <2>1. Descends(t, p, Len(p), path)
    BY SpeltFacts
  <2>2. Len(p) \in Nat /\ n \in Nat
    BY LenProperties, WordNodeFacts DEF TreeShape
  <2>3. QED BY <2>1, <2>2 DEF Descends
<1>2. LinksDown(t) /\ t \in Seq(TreeNodes)
  BY DEF TreeShape, LinksDown
<1>3. u \in 1..n /\ k \in Nat /\ d \in Nat
  <2>1. d \in 1..Len(path)
    BY <1>1
  <2>2. u \in 1..n
    BY <1>1, <2>1, ElementOfSeq
  <2>3. QED BY <1>1, <2>2
<1> HIDE DEF path
<1>4. addParcours(t, p) = above \o new
  <2>1. new = <<>> <=> k = 0
    <3>1. k = 0 => new = <<>>
      OBVIOUS
    <3>2. k # 0 => new # <<>>
      <4>1. DOMAIN new = 1..k
        OBVIOUS
      <4>2. k # 0 => 1 \in 1..k
        BY <1>3
      <4> HIDE DEF new, k
      <4>3. ASSUME k # 0, new = <<>> PROVE FALSE
        <5>1. DOMAIN <<>> = 1..k
          BY <4>1, <4>3, Zenon
        <5>2. 1 \in DOMAIN <<>>
          BY <4>2, <4>3, <5>1
        <5>3. QED BY <5>2
      <4>4. QED BY <4>3
    <3>3. QED BY <3>1, <3>2
  <2>2. addParcours(t, p) =
           [t EXCEPT ![u].fils = IF new = <<>> THEN @ ELSE Append(@, n + 1),
                     ![u].feuille = @ \/ new = <<>>] \o new
    BY DEF addParcours, path
  <2>3. t[u] \in TreeNodes /\ DOMAIN t = 1..n
    BY <1>2, <1>3, WordNodeFacts
  <2> HIDE DEF new, u, d, n, k
  <2>4. [t EXCEPT ![u].fils = IF new = <<>> THEN @ ELSE Append(@, n + 1),
                  ![u].feuille = @ \/ new = <<>>] = above
    <3>1. t[u] = [mot |-> t[u].mot, fils |-> t[u].fils, feuille |-> t[u].feuille]
      BY <2>3 DEF TreeNodes
    <3> DEFINE one == [t EXCEPT ![u].fils = IF new = <<>> THEN @ ELSE Append(@, n + 1)]
    <3>2. one = [t EXCEPT ![u] = [t[u] EXCEPT !.fils = more]]
      BY <2>1
    <3>3. one[u] = [mot |-> t[u].mot, fils |-> more, feuille |-> t[u].feuille]
      BY <1>3, <2>3, <3>1, <3>2
    <3> DEFINE o == one[u]
               leaf == o.feuille \/ new = <<>>
    <3>4. [one EXCEPT ![u].feuille = @ \/ new = <<>>] = [one EXCEPT ![u] = [o EXCEPT !.feuille = leaf]]
      OBVIOUS
    <3>13. [t EXCEPT ![u].fils = IF new = <<>> THEN @ ELSE Append(@, n + 1),
                     ![u].feuille = @ \/ new = <<>>] = [one EXCEPT ![u].feuille = @ \/ new = <<>>]
      OBVIOUS
    <3> HIDE DEF one, more
    <3>5. o = [mot |-> t[u].mot, fils |-> more, feuille |-> t[u].feuille]
      BY <3>3
    <3>6. o.feuille = t[u].feuille
      BY <3>5
    <3>7. leaf = (t[u].feuille \/ k = 0)
      <4>1. leaf <=> t[u].feuille \/ k = 0
        BY <2>1, <3>6, Zenon
      <4>2. leaf \in BOOLEAN /\ (t[u].feuille \/ k = 0) \in BOOLEAN
        OBVIOUS
      <4>3. QED BY <4>1, <4>2
    <3> HIDE DEF leaf, o
    <3>8. [o EXCEPT !.feuille = leaf] = [mot |-> t[u].mot, fils |-> more, feuille |-> leaf]
      BY <3>5
    <3>9. [o EXCEPT !.feuille = leaf] = node
      BY <3>7, <3>8, Zenon
    <3> HIDE DEF node
    <3>10. [one EXCEPT ![u] = node] = above
      BY <3>2 DEF one
    <3>11. [one EXCEPT ![u].feuille = @ \/ new = <<>>] = above
      BY <3>4, <3>9, <3>10, Zenon
    <3>12. QED BY <3>11, <3>13, Zenon
  <2>5. QED BY <2>2, <2>4, Zenon
<1>5. \A i \in 1..k : d + i - 1 \in 1..Len(p) /\ (d + i - 1 = Len(p) <=> i = k) /\ n + i + 1 \in Nat
  BY <1>1, <1>3
<1>6. new \in Seq(TreeNodes) /\ Len(new) = k /\ \A i \in 1..k : /\ new[i].mot = p[d + i - 1]
                           /\ new[i].feuille = (i = k)
                           /\ new[i].fils = IF i = k THEN <<>> ELSE <<n + i + 1>>
  <2>1. ASSUME NEW i \in 1..k
        PROVE  /\ new[i] \in TreeNodes /\ new[i].mot = p[d + i - 1]
               /\ new[i].feuille = (i = k)
               /\ new[i].fils = IF i = k THEN <<>> ELSE <<n + i + 1>>
    <3>1. new[i] = [mot |-> p[d + i - 1], feuille |-> d + i - 1 = Len(p),
                    fils |-> IF d + i - 1 = Len(p) THEN <<>> ELSE <<n + i + 1>>]
      OBVIOUS
    <3>2. p[d + i - 1] \in WordLetters
      BY <1>5, ElementOfSeq
    <3> DEFINE fils == IF d + i - 1 = Len(p) THEN <<>> ELSE <<n + i + 1>>
               leaf == d + i - 1 = Len(p)
    <3>3. fils \in Seq(Nat)
      BY <1>5
    <3>4. leaf \in BOOLEAN /\ leaf = (i = k) /\ fils = IF i = k THEN <<>> ELSE <<n + i + 1>>
      BY <1>5
    <3> HIDE DEF fils, leaf, new
    <3>5. new[i] = [mot |-> p[d + i - 1], feuille |-> leaf, fils |-> fils]
      BY <3>1 DEF fils, leaf
    <3>6. new[i] \in TreeNodes
      BY <3>2, <3>3, <3>4, <3>5 DEF TreeNodes
    <3>7. new[i].mot = p[d + i - 1] /\ new[i].feuille = leaf /\ new[i].fils = fils
      BY <3>5
    <3>8. QED BY <3>4, <3>6, <3>7
  <2>2. new = [i \in 1..k |-> new[i]]
    OBVIOUS
  <2> HIDE DEF new, k
  <2>3. new \in Seq(TreeNodes) /\ Len(new) = k
    <3>1. \A i \in 1..k : new[i] \in TreeNodes
      BY <2>1
    <3>2. new \in [1..k -> TreeNodes]
      BY <2>2, <3>1
    <3>3. new \in Seq(TreeNodes)
      BY <1>3, <3>2, SeqDef
    <3>4. Len(new) = k
      BY <1>3, <3>2, <3>3
    <3>5. QED BY <3>3, <3>4
  <2>4. QED BY <2>1, <2>3
<1>7. node \in TreeNodes
  <2>1. t[u].fils \in Seq(Nat) /\ n + 1 \in Nat /\ t[u].mot \in WordLetters \cup {<<>>}
    BY <1>1, <1>2, <1>3, WordNodeFacts DEF TreeNodes
  <2>2. more \in Seq(Nat)
    <3> HIDE DEF u, n
    <3>1. QED BY <2>1, AppendProperties
  <2>3. (t[u].feuille \/ k = 0) \in BOOLEAN
    OBVIOUS
  <2> HIDE DEF more, u, k
  <2>4. QED BY <2>1, <2>2, <2>3 DEF TreeNodes
<1>8. /\ above \in Seq(TreeNodes) /\ Len(above) = n /\ above[u] = node
      /\ \A x \in 1..n : x # u => above[x] = t[x]
  <2> HIDE DEF u, node
  <2>1. QED BY <1>2, <1>3, <1>7, ExceptSeq
<1> HIDE DEF above, new
<1> DEFINE t2 == above \o new
<1>9. /\ t2 \in Seq(TreeNodes) /\ Len(t2) = n + k
      /\ \A x \in 1..n : t2[x] = above[x]
      /\ \A x \in 1..k : t2[n + x] = new[x]
  <2>1. /\ t2 \in Seq(TreeNodes) /\ Len(t2) = n + k
        /\ \A x \in 1..(n + k) : t2[x] = IF x <= n THEN above[x] ELSE new[x - n]
    <3> HIDE DEF n, k
    <3>1. above \in Seq(TreeNodes) /\ Len(above) = n /\ new \in Seq(TreeNodes) /\ Len(new) = k
      BY <1>6, <1>8
    <3>2. QED BY <3>1, ConcatProperties
  <2>2. \A x \in 1..n : x \in 1..(n + k) /\ x <= n
    BY <1>1, <1>3
  <2>3. \A x \in 1..k : n + x \in 1..(n + k) /\ ~(n + x <= n) /\ (n + x) - n = x
    BY <1>1, <1>3
  <2> HIDE DEF t2, n, k
  <2>4. QED BY <2>1, <2>2, <2>3
<1> HIDE DEF t2
<1>10. t2[u] = node
  BY <1>3, <1>8, <1>9
<1>11. t2[u].mot = t[u].mot /\ t2[u].feuille = (t[u].feuille \/ k = 0) /\ t2[u].fils = more
  <2> HIDE DEF more, u, k
  <2>1. QED BY <1>10
<1>12. AddedTo(t, p, u, d, t2)
  <2> HIDE DEF u, d
  <2>1. \A x \in 1..n : x # u => t2[x] = t[x]
    BY <1>8, <1>9
  <2>2. \A i \in 1..k : /\ t2[n + i].mot = p[d + i - 1]
                           /\ t2[n + i].feuille = (i = k)
                           /\ t2[n + i].fils = IF i = k THEN <<>> ELSE <<n + i + 1>>
    BY <1>6, <1>9
  <2>3. QED BY <1>9, <1>11, <2>1, <2>2 DEF AddedTo
<1>13. addParcours(t, p) = t2
  BY <1>4 DEF t2
<1>14. AddedTo(t, p, u, d, addParcours(t, p))
  BY <1>12, <1>13, Zenon
<1>15. QED BY <1>1, <1>3, <1>14 DEF path

\* Whose fils the nodes of the longer tree are.
AddedLayout(t, u, t2, n, k) ==
    /\ n \in Nat /\ k \in Nat /\ Len(t2) = n + k /\ DOMAIN t2 = 1..(n + k)
    /\ \A x \in 1..(n + k) : x \in 1..n \/ \E i \in 1..k : x = n + i
    /\ \A y \in 1..n : t2[y].mot = t[y].mot
    /\ \A x \in 1..n : \A c \in 1..Len(t[x].fils) :
          c \in 1..Len(t2[x].fils) /\ t2[x].fils[c] = t[x].fils[c]
    /\ k # 0 => /\ Len(t[u].fils) + 1 \in 1..Len(t2[u].fils)
                /\ t2[u].fils[Len(t[u].fils) + 1] = n + 1
    /\ \A i \in 1..k : i # k => 1 \in 1..Len(t2[n + i].fils) /\ t2[n + i].fils[1] = n + i + 1
    /\ \A x \in 1..n : \A c \in 1..Len(t2[x].fils) :
          c \in 1..Len(t[x].fils) \/ (x = u /\ k # 0 /\ c = Len(t[u].fils) + 1)
    /\ \A i \in 1..k : \A c \in 1..Len(t2[n + i].fils) : i # k /\ c = 1

LEMMA AddedFils ==
    ASSUME NEW t, LinksDown(t), NEW p \in Seq(WordLetters), NEW u \in 1..Len(t),
           NEW d \in 1..(Len(p) + 1), NEW t2, AddedTo(t, p, u, d, t2), NEW n, n = Len(t),
           NEW k, k = Len(p) + 1 - d
    PROVE  AddedLayout(t, u, t2, n, k)
<1>1. n \in Nat /\ k \in Nat /\ Len(p) \in Nat /\ t2 \in Seq(TreeNodes) /\ Len(t2) = n + k
  <2>1. Len(p) \in Nat /\ n \in Nat
    BY LenProperties, WordNodeFacts
  <2>2. t2 \in Seq(TreeNodes) /\ Len(t2) = n + k
    BY DEF AddedTo
  <2>3. QED BY <2>1, <2>2
<1>2. DOMAIN t2 = 1..(n + k)
  BY <1>1, LenProperties
<1>3. ASSUME NEW x \in 1..(n + k) PROVE x \in 1..n \/ \E i \in 1..k : x = n + i
  <2>1. CASE x <= n
    BY <1>1, <2>1
  <2>2. CASE ~(x <= n)
    <3>1. x - n \in 1..k /\ x = n + (x - n)
      BY <1>1, <2>2
    <3>2. QED BY <3>1
  <2>3. QED BY <2>1, <2>2
<1>4. /\ \A x \in 1..n : x # u => t2[x] = t[x]
      /\ t2[u].mot = t[u].mot
      /\ t2[u].fils = IF k = 0 THEN t[u].fils ELSE Append(t[u].fils, n + 1)
      /\ \A i \in 1..k : t2[n + i].fils = IF i = k THEN <<>> ELSE <<n + i + 1>>
  BY DEF AddedTo
<1>5. \A y \in 1..n : t2[y].mot = t[y].mot
  BY <1>4
<1>6. /\ \A x \in 1..n : t[x].fils \in Seq(Nat) /\ Len(t[x].fils) \in Nat
      /\ u \in 1..n
  BY WordNodeFacts
<1>7. k # 0 => /\ Len(t2[u].fils) = Len(t[u].fils) + 1
               /\ t2[u].fils[Len(t[u].fils) + 1] = n + 1
               /\ \A c \in 1..Len(t[u].fils) : t2[u].fils[c] = t[u].fils[c]
  <2>1. t[u].fils \in Seq(Nat) /\ n + 1 \in Nat
    BY <1>1, <1>6
  <2> DEFINE a == t[u].fils
  <2>2. k # 0 => t2[u].fils = Append(a, n + 1)
    BY <1>4
  <2> HIDE DEF a
  <2>3. /\ Len(Append(a, n + 1)) = Len(a) + 1 /\ Append(a, n + 1)[Len(a) + 1] = n + 1
        /\ \A c \in 1..Len(a) : Append(a, n + 1)[c] = a[c]
    BY <2>1, AppendProperties DEF a
  <2>4. QED BY <2>2, <2>3 DEF a
<1>8. k = 0 => t2[u].fils = t[u].fils
  BY <1>4
<1>9. \A x \in 1..n : x # u => t2[x].fils = t[x].fils
  BY <1>4
<1>10. ASSUME NEW x \in 1..n, NEW c \in 1..Len(t[x].fils)
       PROVE  c \in 1..Len(t2[x].fils) /\ t2[x].fils[c] = t[x].fils[c]
  <2>1. CASE x # u
    BY <1>9, <2>1
  <2>2. CASE x = u /\ k = 0
    BY <1>8, <2>2
  <2>3. CASE x = u /\ k # 0
    <3>1. Len(t[x].fils) \in Nat
      BY <1>6
    <3>2. QED BY <1>7, <2>3, <3>1
  <2>4. QED BY <2>1, <2>2, <2>3
<1>11. k # 0 => /\ Len(t[u].fils) + 1 \in 1..Len(t2[u].fils)
                /\ t2[u].fils[Len(t[u].fils) + 1] = n + 1
  BY <1>6, <1>7
<1>12. ASSUME NEW i \in 1..k, i # k
       PROVE  1 \in 1..Len(t2[n + i].fils) /\ t2[n + i].fils[1] = n + i + 1
  <2>1. t2[n + i].fils = <<n + i + 1>>
    BY <1>4, <1>12
  <2>2. Len(<<n + i + 1>>) = 1 /\ <<n + i + 1>>[1] = n + i + 1
    OBVIOUS
  <2>3. Len(t2[n + i].fils) = 1 /\ t2[n + i].fils[1] = n + i + 1
    BY <2>1, <2>2, Zenon
  <2>4. QED BY <2>3
<1>13. ASSUME NEW x \in 1..n, NEW c \in 1..Len(t2[x].fils)
       PROVE  c \in 1..Len(t[x].fils) \/ (x = u /\ k # 0 /\ c = Len(t[u].fils) + 1)
  <2>1. CASE x # u
    BY <1>9, <2>1
  <2>2. CASE x = u /\ k = 0
    BY <1>8, <2>2
  <2>3. CASE x = u /\ k # 0
    <3>1. Len(t[x].fils) \in Nat
      BY <1>6
    <3>2. QED BY <1>7, <2>3, <3>1
  <2>4. QED BY <2>1, <2>2, <2>3
<1>14. ASSUME NEW i \in 1..k, NEW c \in 1..Len(t2[n + i].fils) PROVE i # k /\ c = 1
  <2>1. t2[n + i].fils = IF i = k THEN <<>> ELSE <<n + i + 1>>
    BY <1>4
  <2>2. CASE i = k
    <3>1. c \in 1..Len(<<>>)
      BY <2>1, <2>2
    <3>2. QED BY <3>1
  <2>3. CASE i # k
    <3>1. c \in 1..Len(<<n + i + 1>>)
      BY <2>1, <2>3
    <3>2. QED BY <2>3, <3>1
  <2>4. QED BY <2>2, <2>3
<1>15. QED BY <1>1, <1>2, <1>3, <1>5, <1>10, <1>11, <1>12, <1>13, <1>14 DEF AddedLayout

NoFilsLike(t, u, m) ==
    \A c \in 1..Len(t[u].fils) : CanonLetter(t[t[u].fils[c]].mot) # CanonLetter(m)

LEMMA AddedLinks ==
    ASSUME NEW t, LinksDown(t), OneFather(t), LettersDiffer(t), NoDeadEnd(t),
           NEW p \in Seq(WordLetters), NEW u \in 1..Len(t),
           NEW d \in 1..(Len(p) + 1), NEW t2, AddedTo(t, p, u, d, t2), NEW n, n = Len(t),
           NEW k, k = Len(p) + 1 - d,
           d <= Len(p) => NoFilsLike(t, u, p[d])
    PROVE  LinksDown(t2) /\ OneFather(t2) /\ LettersDiffer(t2) /\ NoDeadEnd(t2)
<1>0. AddedLayout(t, u, t2, n, k)
  BY AddedFils
<1>1. /\ n \in Nat /\ k \in Nat /\ Len(t2) = n + k
      /\ \A x \in 1..(n + k) : x \in 1..n \/ \E i \in 1..k : x = n + i
  BY <1>0 DEF AddedLayout
<1>2. \A y \in 1..n : t2[y].mot = t[y].mot
  BY <1>0 DEF AddedLayout
<1>3. \A x \in 1..n : \A c \in 1..Len(t[x].fils) :
                 c \in 1..Len(t2[x].fils) /\ t2[x].fils[c] = t[x].fils[c]
  BY <1>0 DEF AddedLayout
<1>4. k # 0 => /\ Len(t[u].fils) + 1 \in 1..Len(t2[u].fils)
               /\ t2[u].fils[Len(t[u].fils) + 1] = n + 1
  BY <1>0 DEF AddedLayout
<1>5. \A i \in 1..k : i # k => 1 \in 1..Len(t2[n + i].fils) /\ t2[n + i].fils[1] = n + i + 1
  BY <1>0 DEF AddedLayout
<1>6. \A x \in 1..n : \A c \in 1..Len(t2[x].fils) :
                 c \in 1..Len(t[x].fils) \/ (x = u /\ k # 0 /\ c = Len(t[u].fils) + 1)
  BY <1>0 DEF AddedLayout
<1>7. \A i \in 1..k : \A c \in 1..Len(t2[n + i].fils) : i # k /\ c = 1
  BY <1>0 DEF AddedLayout
<1>8. /\ t2 \in Seq(TreeNodes)
      /\ \A i \in 1..k : t2[n + i].mot = p[d + i - 1] /\ t2[n + i].feuille = (i = k)
      /\ \A x \in 1..n : x # u => t2[x] = t[x]
      /\ t2[u].feuille = (t[u].feuille \/ k = 0)
  BY DEF AddedTo
<1>9. /\ Len(p) \in Nat /\ d \in Nat /\ n >= 1 /\ u \in 1..n
      /\ \A i \in 1..k : d + i - 1 \in 1..Len(p)
  <2>1. Len(p) \in Nat
    BY LenProperties
  <2>2. n >= 1
    BY DEF LinksDown
  <2>3. QED BY <2>1, <2>2
<1>10. \A x \in 1..n : \A c \in 1..Len(t[x].fils) :
          t[x].fils[c] \in 2..n /\ t[x].fils[c] > x /\ t[x].fils[c] \in 1..n
  BY WordNodeFacts
\* The three kinds of fils.
<1> DEFINE Old(x, c) == x \in 1..n /\ c \in 1..Len(t[x].fils) /\ t2[x].fils[c] = t[x].fils[c]
           Hung(x, c) == x = u /\ k # 0 /\ c = Len(t[u].fils) + 1 /\ t2[x].fils[c] = n + 1
           Chain(x, c) == /\ c = 1 /\ t2[x].fils[c] = x + 1
                          /\ \E i \in 1..k : x = n + i /\ i # k
<1>11. ASSUME NEW x \in 1..(n + k), NEW c \in 1..Len(t2[x].fils)
       PROVE  Old(x, c) \/ Hung(x, c) \/ Chain(x, c)
  <2>1. CASE x \in 1..n
    BY <1>3, <1>4, <1>6, <2>1
  <2>2. CASE \E i \in 1..k : x = n + i
    <3>1. PICK i \in 1..k : x = n + i
      BY <2>2
    <3>2. i # k /\ c = 1
      BY <1>7, <3>1
    <3>3. t2[x].fils[1] = x + 1
      BY <1>5, <3>1, <3>2
    <3>4. QED BY <3>1, <3>2, <3>3
  <2>3. QED BY <1>1, <2>1, <2>2
<1>12. \A x, c : Old(x, c) => t2[x].fils[c] \in 1..n /\ t2[x].fils[c] > x
  BY <1>10
<1>13. \A x, c : Hung(x, c) => t2[x].fils[c] = n + 1 /\ n + 1 \in (x + 1)..(n + k)
  BY <1>1, <1>9
<1>14. \A x, c : Chain(x, c) => t2[x].fils[c] = x + 1 /\ x \in (n + 1)..(n + k) /\ x + 1 \in (n + 2)..(n + k)
  <2>1. ASSUME NEW x, NEW c, Chain(x, c)
        PROVE  t2[x].fils[c] = x + 1 /\ x \in (n + 1)..(n + k) /\ x + 1 \in (n + 2)..(n + k)
    <3>1. PICK i \in 1..k : x = n + i /\ i # k
      BY <2>1
    <3>2. x \in (n + 1)..(n + k) /\ x + 1 \in (n + 2)..(n + k)
      <4> HIDE DEF Old, Hung, Chain
      <4>4. n \in Nat /\ k \in Nat
        BY <1>1
      <4>5. x = n + i
        BY <3>1
      <4>6. i # k
        BY <3>1
      <4>7. i \in Nat /\ i >= 1 /\ i < k
        BY <4>4, <4>6
      <4>1. n \in Nat /\ k \in Nat /\ i \in Nat /\ i >= 1 /\ i < k /\ x = n + i
        BY <4>4, <4>5, <4>7
      <4>2. n + i \in (n + 1)..(n + k) /\ n + i + 1 \in (n + 2)..(n + k)
        BY <4>1
      <4>3. QED BY <4>1, <4>2
    <3>3. QED BY <2>1, <3>2
  <2>2. QED BY <2>1
<1>15. LinksDown(t2)
  <2>1. t2 \in Seq(TreeNodes) /\ Len(t2) >= 1
    BY <1>1, <1>8, <1>9
  <2>2. ASSUME NEW x \in 1..Len(t2), NEW c \in 1..Len(t2[x].fils)
        PROVE  t2[x].fils[c] \in (x + 1)..Len(t2)
    <3>1. Old(x, c) \/ Hung(x, c) \/ Chain(x, c)
      BY <1>1, <1>11
    <3>2. CASE Old(x, c)
      <4>1. t2[x].fils[c] \in 1..n /\ t2[x].fils[c] > x
        BY <1>12, <3>2
      <4>2. QED BY <1>1, <4>1
    <3>3. CASE Hung(x, c)
      <4> HIDE DEF Hung
      <4>1. QED BY <1>1, <1>13, <3>3
    <3>4. CASE Chain(x, c)
      <4> HIDE DEF Chain
      <4>1. t2[x].fils[c] = x + 1 /\ x \in (n + 1)..(n + k) /\ x + 1 \in (n + 2)..(n + k)
        BY <1>14, <3>4
      <4>2. QED BY <1>1, <4>1
    <3>5. QED BY <3>1, <3>2, <3>3, <3>4
  <2>3. \A x \in 1..(n + k) : t2[x].fils \in Seq(Nat)
    <3>1. \A x \in 1..(n + k) : t2[x] \in TreeNodes
      BY <1>1, <1>8, ElementOfSeq
    <3>2. QED BY <3>1 DEF TreeNodes
  <2>4. \A x \in 1..(n + k) : \A c \in 1..Len(t2[x].fils) : t2[x].fils[c] \in Range(t2[x].fils)
    BY <2>3, RangeFacts
  <2>5. ASSUME NEW y \in 2..Len(t2) PROVE t2[y].mot \in WordLetters /\ HasFather(t2, y)
    <3>1. y \in 1..(n + k) /\ y - 1 \in Nat
      BY <1>1
    <3>2. CASE y \in 1..n
      <4>1. y \in 2..n
        BY <3>2
      <4>2. t[y].mot \in WordLetters /\ HasFather(t, y)
        BY <4>1 DEF LinksDown
      <4>3. PICK x \in 1..(y - 1) : y \in Range(t[x].fils)
        BY <4>2 DEF HasFather
      <4>4. x \in 1..n /\ x \in 1..(n + k)
        BY <1>1, <4>1, <4>3
      <4>5. PICK c \in 1..Len(t[x].fils) : t[x].fils[c] = y
        <5>1. t[x].fils \in Seq(Nat)
          BY <4>4, WordNodeFacts
        <5>2. QED BY <4>3, <5>1, RangeFacts
      <4>6. y \in Range(t2[x].fils)
        BY <1>3, <2>4, <4>4, <4>5
      <4>7. QED BY <1>2, <3>2, <4>2, <4>3, <4>6 DEF HasFather
    <3>3. ASSUME NEW i \in 1..k, y = n + i PROVE t2[y].mot \in WordLetters /\ HasFather(t2, y)
      <4>1. t2[y].mot \in WordLetters
        <5>1. p[d + i - 1] \in WordLetters
          BY <1>9, ElementOfSeq
        <5>2. QED BY <1>8, <3>3, <5>1
      <4>2. CASE i = 1
        <5>1. u \in 1..(y - 1) /\ k # 0 /\ u \in 1..(n + k) /\ y = n + 1
          BY <1>1, <1>9, <3>3, <4>2
        <5>2. y \in Range(t2[u].fils)
          BY <1>4, <2>4, <5>1
        <5>3. QED BY <4>1, <5>1, <5>2 DEF HasFather
      <4>3. CASE i # 1
        <5> DEFINE h == i - 1
        <5>1. h \in 1..k /\ h # k /\ n + h \in 1..(y - 1) /\ n + h \in 1..(n + k) /\ y = n + h + 1
          BY <1>1, <3>3, <4>3
        <5> HIDE DEF h
        <5>2. y \in Range(t2[n + h].fils)
          BY <1>5, <2>4, <5>1
        <5>3. QED BY <4>1, <5>1, <5>2 DEF HasFather
      <4>4. QED BY <4>2, <4>3
    <3>4. QED BY <1>1, <3>1, <3>2, <3>3
  <2>6. QED BY <2>1, <2>2, <2>5 DEF LinksDown
<1>16. OneFather(t2)
  <2>1. ASSUME NEW x \in 1..(n + k), NEW z \in 1..(n + k), NEW c \in 1..Len(t2[x].fils),
               NEW e \in 1..Len(t2[z].fils), t2[x].fils[c] = t2[z].fils[e]
        PROVE  x = z /\ c = e
    <3>1. /\ Old(x, c) \/ Hung(x, c) \/ Chain(x, c)
          /\ Old(z, e) \/ Hung(z, e) \/ Chain(z, e)
      BY <1>11
    <3>2. CASE Old(x, c) /\ Old(z, e)
      <4>1. x \in 1..n /\ z \in 1..n /\ c \in 1..Len(t[x].fils) /\ e \in 1..Len(t[z].fils)
        BY <3>2
      <4>2. t[x].fils[c] = t[z].fils[e]
        BY <2>1, <3>2
      <4>3. \A a, b \in 1..n : \A g \in 1..Len(t[a].fils) : \A h \in 1..Len(t[b].fils) :
               t[a].fils[g] = t[b].fils[h] => a = b /\ g = h
        BY DEF OneFather
      <4> HIDE DEF Old, Hung, Chain
      <4>4. QED BY <4>1, <4>2, <4>3
    <3> HIDE DEF Old
    <3>3. CASE Hung(x, c) /\ Hung(z, e)
      BY <3>3
    <3>4. CASE Chain(x, c) /\ Chain(z, e)
      <4>1. c = 1 /\ e = 1
        BY <3>4
      <4> HIDE DEF Chain
      <4>2. x + 1 = z + 1 /\ x \in Nat /\ z \in Nat
        BY <1>1, <1>14, <2>1, <3>4, SMTT(60)
      <4>3. QED BY <4>1, <4>2
    <3> HIDE DEF Hung, Chain
    <3>5. CASE Old(x, c) /\ ~Old(z, e)
      <4>1. t2[x].fils[c] \in 1..n
        BY <1>12, <3>5
      <4>2. t2[z].fils[e] > n
        <5>1. CASE Hung(z, e)
          <6>1. t2[z].fils[e] = n + 1
            BY <1>13, <5>1
          <6>2. QED BY <1>1, <6>1
        <5>2. CASE Chain(z, e)
          <6>1. t2[z].fils[e] = z + 1 /\ z \in (n + 1)..(n + k)
            BY <1>14, <5>2
          <6>2. QED BY <1>1, <6>1
        <5>3. QED BY <3>1, <3>5, <5>1, <5>2
      <4>3. QED BY <1>1, <2>1, <4>1, <4>2, SMTT(30)
    <3>6. CASE ~Old(x, c) /\ Old(z, e)
      <4>1. t2[z].fils[e] \in 1..n
        BY <1>12, <3>6
      <4>2. t2[x].fils[c] > n
        <5>1. CASE Hung(x, c)
          <6>1. t2[x].fils[c] = n + 1
            BY <1>13, <5>1
          <6>2. QED BY <1>1, <6>1
        <5>2. CASE Chain(x, c)
          <6>1. t2[x].fils[c] = x + 1 /\ x \in (n + 1)..(n + k)
            BY <1>14, <5>2
          <6>2. QED BY <1>1, <6>1
        <5>3. QED BY <3>1, <3>6, <5>1, <5>2
      <4>3. QED BY <1>1, <2>1, <4>1, <4>2, SMTT(30)
    <3>7. CASE Hung(x, c) /\ Chain(z, e)
      BY <1>1, <1>13, <1>14, <2>1, <3>7
    <3>8. CASE Chain(x, c) /\ Hung(z, e)
      BY <1>1, <1>13, <1>14, <2>1, <3>8
    <3>9. QED BY <3>1, <3>2, <3>3, <3>4, <3>5, <3>6, <3>7, <3>8
  <2>2. QED BY <1>1, <2>1 DEF OneFather
<1>17. LettersDiffer(t2)
  <2>1. ASSUME NEW x \in 1..(n + k), NEW c \in 1..Len(t2[x].fils), NEW e \in 1..Len(t2[x].fils),
               CanonLetter(t2[t2[x].fils[c]].mot) = CanonLetter(t2[t2[x].fils[e]].mot)
        PROVE  c = e
    <3>1. /\ Old(x, c) \/ Hung(x, c) \/ Chain(x, c)
          /\ Old(x, e) \/ Hung(x, e) \/ Chain(x, e)
      BY <1>11
    <3>2. ASSUME NEW b, Old(x, b)
          PROVE  t2[t2[x].fils[b]].mot = t[t[x].fils[b]].mot /\ x \in 1..n
                 /\ b \in 1..Len(t[x].fils)
      <4>1. t2[x].fils[b] = t[x].fils[b] /\ x \in 1..n /\ b \in 1..Len(t[x].fils)
        BY <3>2
      <4>2. t[x].fils[b] \in 1..n
        BY <1>10, <4>1
      <4>3. QED BY <1>2, <4>1, <4>2
    <3>3. ASSUME NEW b, Hung(x, b)
          PROVE  t2[t2[x].fils[b]].mot = p[d] /\ x = u /\ d <= Len(p)
      <4>1. t2[x].fils[b] = n + 1 /\ x = u /\ k # 0
        BY <3>3
      <4>2. 1 \in 1..k /\ d + 1 - 1 = d /\ d <= Len(p)
        BY <1>1, <1>9, <4>1
      <4>3. t2[n + 1].mot = p[d]
        BY <1>8, <4>2
      <4>4. QED BY <4>1, <4>2, <4>3
    <3>4. CASE Old(x, c) /\ Old(x, e)
      <4> HIDE DEF Old
      <4>1. QED BY <2>1, <3>2, <3>4 DEF LettersDiffer
    <3>5. CASE Hung(x, c) /\ Hung(x, e)
      BY <3>5
    <3>6. CASE Chain(x, c) /\ Chain(x, e)
      BY <3>6
    <3>7. CASE Chain(x, c) /\ ~Chain(x, e)
      <4>1. x \in (n + 1)..(n + k)
        <5> HIDE DEF Chain
        <5>1. QED BY <1>14, <3>7
      <4>2. ~Old(x, e) /\ ~Hung(x, e)
        BY <1>1, <1>9, <4>1
      <4> HIDE DEF Old, Hung, Chain
      <4>3. QED BY <3>1, <3>7, <4>2
    <3>8. CASE ~Chain(x, c) /\ Chain(x, e)
      <4>1. x \in (n + 1)..(n + k)
        <5> HIDE DEF Chain
        <5>1. QED BY <1>14, <3>8
      <4>2. ~Old(x, c) /\ ~Hung(x, c)
        BY <1>1, <1>9, <4>1
      <4> HIDE DEF Old, Hung, Chain
      <4>3. QED BY <3>1, <3>8, <4>2
    <3> HIDE DEF Old, Hung, Chain
    <3>9. CASE Old(x, c) /\ Hung(x, e)
      BY <2>1, <3>2, <3>3, <3>9 DEF NoFilsLike
    <3>10. CASE Hung(x, c) /\ Old(x, e)
      BY <2>1, <3>2, <3>3, <3>10 DEF NoFilsLike
    <3>11. QED BY <3>1, <3>4, <3>5, <3>6, <3>7, <3>8, <3>9, <3>10
  <2>2. QED BY <1>1, <2>1 DEF LettersDiffer
<1>18. NoDeadEnd(t2)
  <2>1. ASSUME NEW y \in 2..Len(t2) PROVE t2[y].feuille \/ t2[y].fils # <<>>
    <3>1. y \in 1..(n + k)
      BY <1>1
    <3>2. CASE y \in 1..n
      <4>1. t[y].feuille \/ t[y].fils # <<>>
        BY <3>2 DEF NoDeadEnd
      <4>2. CASE t[y].feuille
        BY <1>8, <3>2, <4>2
      <4>3. CASE t[y].fils # <<>>
        <5>1. 1 \in 1..Len(t[y].fils)
          <6>1. t[y].fils \in Seq(Nat)
            BY <3>2, WordNodeFacts
          <6>2. QED BY <4>3, <6>1, EmptySeq
        <5>2. 1 \in 1..Len(t2[y].fils)
          BY <1>3, <3>2, <5>1
        <5>3. QED BY <5>2
      <4>4. QED BY <4>1, <4>2, <4>3
    <3>3. ASSUME NEW i \in 1..k, y = n + i PROVE t2[y].feuille \/ t2[y].fils # <<>>
      <4>1. CASE i = k
        BY <1>8, <3>3, <4>1
      <4>2. CASE i # k
        <5>1. 1 \in 1..Len(t2[y].fils)
          BY <1>5, <3>3, <4>2
        <5>2. QED BY <5>1
      <4>3. QED BY <4>1, <4>2
    <3>4. QED BY <1>1, <3>1, <3>2, <3>3
  <2>2. QED BY <2>1 DEF NoDeadEnd
<1>19. QED BY <1>15, <1>16, <1>17, <1>18

\* Words that are the same but for the labels left out have the same numbers.
LEMMA CanonSame ==
    ASSUME NEW p, WellFormed(p), NEW q \in Seq(WordLetters), Canon(q) = Canon(p)
    PROVE  /\ WellFormed(q) /\ Len(q) = Len(p)
           /\ \A k \in 0..Len(p) : NumbersIn(q, k) = NumbersIn(p, k)
<1>1. p \in Seq(WordLetters) /\ \A j \in 1..Len(p) : LetterFollows(p, j)
  BY DEF WellFormed
<1>2. Len(q) = Len(p) /\ Len(p) \in Nat
  BY <1>1, CanonIs, LenProperties
<1>3. ASSUME NEW j \in 1..Len(p)
      PROVE  q[j].type = p[j].type /\ (p[j].type \in {"R", "new", "old"} => q[j].i = p[j].i)
  <2> DEFINE m == q[j]
             o == p[j]
  <2>1. m \in WordLetters /\ o \in WordLetters
    BY <1>1, <1>2, ElementOfSeq
  <2>2. CanonLetter(m) = CanonLetter(o)
    BY <1>1, <1>2, CanonIs
  <2> HIDE DEF m, o
  <2>3. CanonLetter(m).type = m.type /\ CanonLetter(o).type = o.type
    BY <2>1, CanonLetterFacts
  <2>4. m.type = o.type
    BY <2>2, <2>3
  <2>5. o.type \in {"R", "new", "old"} => CanonLetter(o).i = o.i /\ CanonLetter(m).i = m.i
    BY <2>1, <2>4, CanonLetterFacts
  <2>6. o.type \in {"R", "new", "old"} => m.i = o.i
    BY <2>2, <2>5
  <2>7. QED BY <2>4, <2>6 DEF m, o
<1>4. \A k \in 0..Len(p) : NumbersIn(q, k) = NumbersIn(p, k)
  BY <1>2, <1>3, NumbersSame
<1>5. ASSUME NEW j \in 1..Len(q) PROVE LetterFollows(q, j)
  <2>1. j \in 1..Len(p) /\ j - 1 \in 0..Len(p)
    BY <1>2
  <2>2. LetterFollows(p, j) /\ NumbersIn(q, j - 1) = NumbersIn(p, j - 1)
    BY <1>1, <1>4, <2>1
  <2>3. q[j].type = p[j].type /\ (p[j].type \in {"R", "new", "old"} => q[j].i = p[j].i)
    BY <1>3, <2>1
  <2>4. QED BY <2>2, <2>3 DEF LetterFollows
<1>6. QED BY <1>2, <1>4, <1>5 DEF WellFormed

LEMMA WellFormedPrefix ==
    ASSUME NEW p, WellFormed(p), NEW k \in 0..Len(p)
    PROVE  /\ WellFormed(SubSeq(p, 1, k)) /\ Len(SubSeq(p, 1, k)) = k
           /\ NumbersIn(SubSeq(p, 1, k), k) <= NumbersIn(p, Len(p))
<1> DEFINE q == SubSeq(p, 1, k)
<1>1. p \in Seq(WordLetters) /\ \A j \in 1..Len(p) : LetterFollows(p, j)
  BY DEF WellFormed
<1>2. Len(p) \in Nat /\ k \in Nat /\ k <= Len(p)
  BY <1>1, LenProperties
<1>3. q \in Seq(WordLetters) /\ Len(q) = k /\ \A j \in 1..k : q[j] = p[j]
  BY <1>1, PrefixFacts
<1> HIDE DEF q
<1>4. \A h \in 0..k : NumbersIn(p, h) = NumbersIn(q, h)
  BY <1>2, <1>3, NumbersSame
<1>5. ASSUME NEW j \in 1..k PROVE LetterFollows(q, j)
  <2>1. j \in 1..Len(p) /\ j - 1 \in 0..k
    BY <1>2
  <2>2. LetterFollows(p, j) /\ NumbersIn(q, j - 1) = NumbersIn(p, j - 1) /\ q[j] = p[j]
    BY <1>1, <1>3, <1>4, <2>1
  <2>3. QED BY <2>2 DEF LetterFollows
<1>6. NumbersIn(q, k) <= NumbersIn(p, Len(p))
  <2>1. NumbersIn(p, k) <= NumbersIn(p, Len(p)) /\ NumbersIn(p, k) = NumbersIn(q, k)
    BY <1>2, <1>4, NumbersGrow
  <2>2. QED BY <2>1
<1>7. QED BY <1>3, <1>5, <1>6 DEF WellFormed, q

\* The first letters of one word, the others of another.
LEMMA Splice ==
    ASSUME NEW p \in Seq(WordLetters), NEW d \in 1..(Len(p) + 1), NEW q \in Seq(WordLetters),
           Canon(q) = SubSeq(Canon(p), 1, d - 1)
    PROVE  \E z \in Seq(WordLetters) : /\ Canon(z) = Canon(p) /\ Len(z) = Len(p)
                                       /\ SubSeq(z, 1, d - 1) = q
                                       /\ \A j \in d..Len(p) : z[j] = p[j]
<1> DEFINE n == Len(p)
           s == SubSeq(p, d, n)
           z == q \o s
           a == Canon(p)
           b == Canon(z)
<1>1. n \in Nat /\ d \in Nat /\ d - 1 \in 0..n
  BY LenProperties
<1>2. /\ a \in Seq(WordLetters) /\ Len(a) = n /\ \A j \in 1..n : a[j] = CanonLetter(p[j])
  BY CanonIs
<1>3. Len(q) = d - 1 /\ \A j \in 1..(d - 1) : CanonLetter(q[j]) = a[j]
  <2>1. Len(SubSeq(a, 1, d - 1)) = d - 1 /\ \A j \in 1..(d - 1) : SubSeq(a, 1, d - 1)[j] = a[j]
    <3> HIDE DEF a, n
    <3>1. QED BY <1>1, <1>2, PrefixFacts
  <2>2. Len(Canon(q)) = Len(q) /\ \A j \in 1..Len(q) : Canon(q)[j] = CanonLetter(q[j])
    BY CanonIs
  <2>3. Len(q) = d - 1
    BY <2>1, <2>2
  <2>4. QED BY <2>1, <2>2, <2>3
<1>4. /\ s \in Seq(WordLetters) /\ Len(s) = n - d + 1
      /\ \A j \in 1..(n - d + 1) : s[j] = p[d + j - 1]
  <2>1. \A j \in d..n : p[j] \in WordLetters
    BY <1>1, ElementOfSeq
  <2> HIDE DEF n
  <2>2. /\ s \in Seq(WordLetters) /\ Len(s) = IF d <= n THEN n - d + 1 ELSE 0
        /\ \A j \in 1..(n - d + 1) : s[j] = p[d + j - 1]
    BY <1>1, <2>1, SubSeqProperties
  <2>3. n - d + 1 = IF d <= n THEN n - d + 1 ELSE 0
    BY <1>1
  <2>4. QED BY <2>2, <2>3
<1> HIDE DEF s
<1>5. /\ z \in Seq(WordLetters) /\ Len(z) = n
      /\ \A j \in 1..(d - 1) : z[j] = q[j]
      /\ \A j \in d..n : z[j] = p[j]
  <2>1. /\ z \in Seq(WordLetters) /\ Len(z) = Len(q) + Len(s)
        /\ \A j \in 1..(Len(q) + Len(s)) : z[j] = IF j <= Len(q) THEN q[j] ELSE s[j - Len(q)]
    BY <1>4, ConcatProperties
  <2>2. Len(q) + Len(s) = n
    BY <1>1, <1>3, <1>4
  <2> HIDE DEF z, n
  <2>3. \A j \in 1..(d - 1) : z[j] = q[j]
    BY <1>1, <1>3, <2>1, <2>2, SMTT(30)
  <2>4. ASSUME NEW j \in d..n PROVE z[j] = p[j]
    <3>1. /\ j \in 1..n /\ ~(j <= Len(q)) /\ j - Len(q) \in 1..(n - d + 1)
          /\ d + (j - Len(q)) - 1 = j
      BY <1>1, <1>3
    <3>2. z[j] = s[j - Len(q)]
      BY <2>1, <2>2, <3>1
    <3>3. s[j - Len(q)] = p[d + (j - Len(q)) - 1]
      BY <1>4, <3>1
    <3>4. QED BY <3>1, <3>2, <3>3, Zenon
  <2>5. QED BY <2>1, <2>2, <2>3, <2>4
<1> HIDE DEF z
<1>6. SubSeq(z, 1, d - 1) = q
  <2>1. SubSeq(z, 1, d - 1) \in Seq(WordLetters) /\ Len(SubSeq(z, 1, d - 1)) = d - 1
        /\ \A j \in 1..(d - 1) : SubSeq(z, 1, d - 1)[j] = z[j]
    <3> HIDE DEF n
    <3>1. QED BY <1>1, <1>5, PrefixFacts
  <2>2. \A j \in 1..Len(q) : SubSeq(z, 1, d - 1)[j] = q[j]
    BY <1>3, <1>5, <2>1
  <2>3. QED BY <1>3, <2>1, <2>2, SeqEqual
<1>7. Canon(z) = a
  <2>1. b \in Seq(WordLetters) /\ Len(b) = n /\ \A j \in 1..n : b[j] = CanonLetter(z[j])
    BY <1>5, CanonIs
  <2> HIDE DEF a, b, n
  <2>2. ASSUME NEW j \in 1..n PROVE b[j] = a[j]
    <3>1. CASE j \in 1..(d - 1)
      BY <1>3, <1>5, <2>1, <3>1
    <3>2. CASE j \in d..n
      BY <1>2, <1>5, <2>1, <3>2
    <3>3. QED BY <1>1, <3>1, <3>2
  <2>3. b = a
    BY <1>2, <2>1, <2>2, SeqEqual
  <2>4. QED BY <2>3 DEF b
<1>8. QED BY <1>5, <1>6, <1>7

LEMMA AddedWords ==
    ASSUME NEW t, TreeShape(t), W \in Nat, NEW p, WellFormed(p), p # <<>>,
           NumbersIn(p, Len(p)) <= W, NEW u \in 1..Len(t), NEW d \in 1..(Len(p) + 1),
           NEW t2, AddedTo(t, p, u, d, t2), NEW n, n = Len(t), NEW k, k = Len(p) + 1 - d,
           Canon(WordTo(t)[u]) = SubSeq(Canon(p), 1, d - 1),
           d <= Len(p) => NoFilsLike(t, u, p[d])
    PROVE  /\ TreeShape(t2)
           /\ \A y \in 1..n : WordTo(t2)[y] = WordTo(t)[y]
           /\ k # 0 => Canon(WordTo(t2)[n + k]) = Canon(p)
<1> DEFINE w == WordTo(t)
<1>1. /\ LinksDown(t) /\ OneFather(t) /\ LettersDiffer(t) /\ NoDeadEnd(t) /\ ~t[1].feuille
      /\ SpeltAlong(w, t)
  BY DEF TreeShape
<1>2. p \in Seq(WordLetters) /\ Len(p) \in Nat /\ Len(p) # 0
  <2>1. p \in Seq(WordLetters)
    BY DEF WellFormed
  <2>2. QED BY <2>1, EmptySeq, LenProperties
<1>3. LinksDown(t2) /\ OneFather(t2) /\ LettersDiffer(t2) /\ NoDeadEnd(t2)
  BY <1>1, <1>2, AddedLinks
<1>4. AddedLayout(t, u, t2, n, k)
  BY <1>1, <1>2, AddedFils
<1>5. /\ n \in Nat /\ k \in Nat /\ Len(t2) = n + k /\ n >= 1 /\ u \in 1..n /\ d \in Nat
      /\ \A x \in 1..(n + k) : x \in 1..n \/ \E i \in 1..k : x = n + i
  BY <1>1, <1>2, <1>4 DEF AddedLayout, LinksDown
<1>6. w[u] \in Seq(WordLetters) /\ w[1] = <<>> /\ \A y \in 1..n : w[y] \in Seq(WordLetters)
  BY WordFacts, <1>5
<1>7. PICK z \in Seq(WordLetters) : /\ Canon(z) = Canon(p) /\ Len(z) = Len(p)
                                    /\ SubSeq(z, 1, d - 1) = w[u]
                                    /\ \A j \in d..Len(p) : z[j] = p[j]
  <2> HIDE DEF w
  <2>1. Canon(w[u]) = SubSeq(Canon(p), 1, d - 1)
    BY DEF w
  <2>2. QED BY <1>2, <1>6, <2>1, Splice
<1>8. /\ WellFormed(z) /\ \A j \in 0..Len(z) : NumbersIn(z, j) = NumbersIn(p, j)
      /\ NumbersIn(z, Len(z)) <= W
  <2>1. WellFormed(z) /\ \A j \in 0..Len(z) : NumbersIn(z, j) = NumbersIn(p, j)
    BY <1>7, CanonSame
  <2>2. Len(z) \in 0..Len(z)
    BY <1>2, <1>7
  <2>3. QED BY <1>7, <2>1, <2>2
<1> DEFINE v == [y \in 1..(n + k) |-> IF y <= n THEN w[y] ELSE SubSeq(z, 1, d + (y - n) - 1)]
<1>9. \A i \in 1..k : d + i - 1 \in 0..Len(z) /\ d + i - 1 \in d..Len(p)
  BY <1>2, <1>5, <1>7
<1>10. /\ \A y \in 1..n : v[y] = w[y]
       /\ \A i \in 1..k : v[n + i] = SubSeq(z, 1, d + i - 1)
  <2>1. \A y \in 1..n : y \in 1..(n + k) /\ y <= n
    BY <1>5
  <2>2. \A i \in 1..k : n + i \in 1..(n + k) /\ ~(n + i <= n) /\ (n + i) - n = i
    BY <1>5
  <2> HIDE DEF w
  <2>3. QED BY <2>1, <2>2
<1>11. \A y \in 1..(n + k) : v[y] \in Seq(WordLetters)
  <2> HIDE DEF v, w
  <2>1. \A i \in 1..k : SubSeq(z, 1, d + i - 1) \in Seq(WordLetters)
    BY <1>7, <1>9, PrefixFacts
  <2>2. ASSUME NEW y \in 1..(n + k) PROVE v[y] \in Seq(WordLetters)
    <3>1. CASE y \in 1..n
      BY <1>6, <1>10, <3>1
    <3>2. CASE \E i \in 1..k : y = n + i
      BY <1>10, <2>1, <3>2
    <3>3. QED BY <1>5, <3>1, <3>2
  <2>3. QED BY <2>2
<1>12. v \in [1..Len(t2) -> Seq(WordLetters)] /\ v[1] = <<>>
  <2>1. v = [y \in 1..(n + k) |-> v[y]]
    BY <1>5
  <2>2. 1 \in 1..n
    BY <1>5
  <2> HIDE DEF v, w
  <2>3. v[1] = <<>>
    BY <1>6, <1>10, <2>2
  <2>4. v \in [1..(n + k) -> Seq(WordLetters)]
    BY <1>11, <2>1
  <2>5. QED BY <1>5, <2>3, <2>4
<1> HIDE DEF v
<1>13. ASSUME NEW y \in 2..n PROVE v[y] = Append(v[Father(t2, y)], t2[y].mot)
  <2> DEFINE f == Father(t, y)
  <2>1. f \in 1..n /\ \E c \in 1..Len(t[f].fils) : t[f].fils[c] = y
    BY WordFacts
  <2>2. w[y] = Append(w[f], t[y].mot) /\ y \in 1..n
    BY <1>1 DEF SpeltAlong
  <2> HIDE DEF f, w
  <2>3. PICK c \in 1..Len(t[f].fils) : t[f].fils[c] = y
    BY <2>1
  <2>4. c \in 1..Len(t2[f].fils) /\ t2[f].fils[c] = y /\ f \in 1..Len(t2)
    <3>1. c \in 1..Len(t2[f].fils) /\ t2[f].fils[c] = t[f].fils[c]
      BY <1>4, <2>1 DEF AddedLayout
    <3>2. f \in 1..Len(t2)
      BY <1>5, <2>1
    <3>3. QED BY <2>3, <3>1, <3>2
  <2>5. Father(t2, y) = f
    BY <1>3, <2>4, FatherIs
  <2>6. t2[y].mot = t[y].mot /\ v[y] = w[y] /\ v[f] = w[f]
    BY <1>4, <1>10, <2>1, <2>2 DEF AddedLayout
  <2>7. QED BY <2>2, <2>5, <2>6, Zenon
<1>14. ASSUME NEW i \in 1..k PROVE v[n + i] = Append(v[Father(t2, n + i)], t2[n + i].mot)
  <2> DEFINE h == d + i - 2
             f == IF i = 1 THEN u ELSE n + (i - 1)
  <2>1. h \in 0..Len(z) /\ h < Len(z) /\ h + 1 = d + i - 1
    <3>1. d >= 1 /\ d \in Nat /\ i >= 1 /\ i \in Nat
      BY <1>2, <1>5
    <3>2. d + i - 1 \in 0..Len(z)
      BY <1>9
    <3>3. Len(z) \in Nat
      BY <1>2, <1>7
    <3>4. QED BY <3>1, <3>2, <3>3
  <2> HIDE DEF h
  <2>2. SubSeq(z, 1, h + 1) = Append(SubSeq(z, 1, h), z[h + 1])
    BY <1>7, <2>1, PrefixMore
  <2>3. z[h + 1] = p[d + i - 1]
    BY <1>7, <1>9, <2>1
  <2>4. t2[n + i].mot = p[d + i - 1]
    BY DEF AddedTo
  <2>5. v[n + i] = Append(SubSeq(z, 1, h), t2[n + i].mot)
    <3>1. v[n + i] = SubSeq(z, 1, h + 1)
      BY <1>10, <2>1
    <3>2. QED BY <2>2, <2>3, <2>4, <3>1, Zenon
  <2>6. v[f] = SubSeq(z, 1, h) /\ Father(t2, n + i) = f
    <3>1. CASE i = 1
      <4>1. f = u /\ h = d - 1 /\ k # 0
        BY <1>5, <3>1 DEF h
      <4>2. v[u] = w[u] /\ u \in 1..Len(t2)
        BY <1>5, <1>10
      <4>3. v[f] = SubSeq(z, 1, h)
        BY <1>7, <4>1, <4>2
      <4>4. PICK c \in 1..Len(t2[u].fils) : t2[u].fils[c] = n + i
        <5>1. Len(t[u].fils) + 1 \in 1..Len(t2[u].fils)
              /\ t2[u].fils[Len(t[u].fils) + 1] = n + 1
          BY <1>4, <4>1 DEF AddedLayout
        <5>2. QED BY <3>1, <5>1
      <4>5. Father(t2, n + i) = u
        BY <1>3, <4>2, <4>4, FatherIs
      <4>6. QED BY <4>1, <4>3, <4>5
    <3>2. CASE i # 1
      <4> DEFINE e == i - 1
      <4>1. f = n + e /\ h = d + e - 1 /\ e \in 1..k /\ e # k /\ n + e \in 1..Len(t2)
            /\ n + e + 1 = n + i
        BY <1>5, <3>2 DEF h
      <4> HIDE DEF e, f
      <4>2. v[f] = SubSeq(z, 1, h)
        BY <1>10, <4>1
      <4>3. 1 \in 1..Len(t2[n + e].fils) /\ t2[n + e].fils[1] = n + i
        BY <1>4, <4>1 DEF AddedLayout
      <4>4. Father(t2, n + i) = n + e
        <5> DEFINE x == n + e
        <5>1. x \in 1..Len(t2) /\ 1 \in 1..Len(t2[x].fils) /\ t2[x].fils[1] = n + i
          BY <4>1, <4>3
        <5> HIDE DEF x
        <5>2. Father(t2, t2[x].fils[1]) = x
          BY <1>3, <5>1, FatherIs
        <5>3. Father(t2, n + i) = x
          BY <5>1, <5>2
        <5>4. QED BY <5>3 DEF x
      <4>5. QED BY <4>1, <4>2, <4>4
    <3>3. QED BY <3>1, <3>2
  <2>7. QED BY <2>5, <2>6, Zenon
<1>15. SpeltAlong(v, t2)
  <2>1. ASSUME NEW y \in 2..Len(t2) PROVE v[y] = Append(v[Father(t2, y)], t2[y].mot)
    <3>1. CASE y \in 1..n
      <4>1. y \in 2..n
        BY <3>1
      <4>2. QED BY <1>13, <4>1
    <3>2. CASE \E i \in 1..k : y = n + i
      BY <1>14, <3>2
    <3>3. y \in 1..(n + k)
      BY <1>5
    <3>4. QED BY <1>5, <3>1, <3>2, <3>3
  <2>2. QED BY <1>12, <2>1 DEF SpeltAlong
<1>16. WordTo(t2) = v
  BY <1>3, <1>15, WordToIs
<1>17. WordsFit(v, t2)
  <2>1. ASSUME NEW y \in 1..Len(t2) PROVE WellFormed(v[y]) /\ NumbersIn(v[y], Len(v[y])) <= W
    <3>1. CASE y \in 1..n
      <4>1. v[y] = w[y]
        BY <1>10, <3>1
      <4>2. WellFormed(w[y]) /\ NumbersIn(w[y], Len(w[y])) <= W
        BY <3>1, WordFacts
      <4>3. QED BY <4>1, <4>2
    <3>2. ASSUME NEW i \in 1..k, y = n + i
          PROVE  WellFormed(v[y]) /\ NumbersIn(v[y], Len(v[y])) <= W
      <4> DEFINE e == d + i - 1
                 q == SubSeq(z, 1, e)
      <4>1. e \in 0..Len(z) /\ v[y] = q
        BY <1>9, <1>10, <3>2
      <4> HIDE DEF e
      <4>2. WellFormed(q) /\ Len(q) = e /\ NumbersIn(q, e) <= NumbersIn(z, Len(z))
        BY <1>8, <4>1, WellFormedPrefix
      <4>3. NumbersIn(q, Len(q)) <= W
        <5>1. NumbersIn(q, e) \in Nat /\ NumbersIn(z, Len(z)) \in Nat
          <6>1. e \in Nat /\ Len(z) \in Nat
            BY <1>2, <1>7, <4>1
          <6>2. QED BY <6>1, NumbersFacts
        <5>2. NumbersIn(q, e) <= W
          BY <1>8, <4>2, <5>1
        <5> HIDE DEF q
        <5>3. QED BY <4>2, <5>2
      <4> HIDE DEF q
      <4>4. QED BY <4>1, <4>2, <4>3
    <3>3. y \in 1..(n + k)
      BY <1>5
    <3>4. QED BY <1>5, <3>1, <3>2, <3>3
  <2>2. QED BY <2>1 DEF WordsFit
<1>18. ~t2[1].feuille
  <2>1. CASE u = 1
    <3>1. w[u] = <<>>
      BY <1>6, <2>1
    <3>2. Len(SubSeq(z, 1, d - 1)) = d - 1
      <4>1. d - 1 \in 0..Len(z)
        BY <1>2, <1>5, <1>7
      <4>2. QED BY <1>7, <4>1, PrefixFacts
    <3>3. d - 1 = 0
      BY <1>7, <3>1, <3>2
    <3>4. k # 0
      BY <1>2, <1>5, <3>3
    <3>5. t2[u].feuille = (t[u].feuille \/ k = 0)
      BY DEF AddedTo
    <3>6. QED BY <1>1, <2>1, <3>4, <3>5
  <2>2. CASE u # 1
    <3>1. 1 \in 1..n
      BY <1>5
    <3>2. t2[1] = t[1]
      BY <2>2, <3>1 DEF AddedTo
    <3>3. QED BY <1>1, <3>2
  <2>3. QED BY <2>1, <2>2
<1>19. TreeShape(t2)
  BY <1>3, <1>15, <1>16, <1>17, <1>18 DEF TreeShape
<1>20. k # 0 => Canon(WordTo(t2)[n + k]) = Canon(p)
  <2>1. k # 0 => k \in 1..k /\ d + k - 1 = Len(z)
    BY <1>2, <1>5, <1>7
  <2>2. SubSeq(z, 1, Len(z)) = z
    BY <1>7, SubSeqFull
  <2>3. k # 0 => v[n + k] = z
    BY <1>10, <2>1, <2>2
  <2>4. QED BY <1>7, <1>16, <2>3
<1>21. QED BY <1>10, <1>16, <1>19, <1>20 DEF w

\* The words of a tree.
TreeWords(t) == {Canon(WordTo(t)[x]) : x \in LeavesOf(t)}

LEMMA AddedLeaves ==
    ASSUME NEW t, TreeShape(t), W \in Nat, NEW p, WellFormed(p), p # <<>>,
           NumbersIn(p, Len(p)) <= W
    PROVE  /\ TreeShape(addParcours(t, p))
           /\ TreeWords(addParcours(t, p)) = TreeWords(t) \cup {Canon(p)}
           /\ Adds(t, p) <=> Canon(p) \notin TreeWords(t)
<1> DEFINE path == Spelt(t, p)
           d == Len(path)
           u == path[d]
           t2 == addParcours(t, p)
           n == Len(t)
           k == Len(p) + 1 - d
           w == WordTo(t)
<1>1. p \in Seq(WordLetters) /\ Len(p) \in Nat /\ LinksDown(t) /\ n \in Nat /\ DOMAIN t = 1..n
  <2>1. p \in Seq(WordLetters) /\ LinksDown(t)
    BY DEF WellFormed, TreeShape
  <2>2. QED BY <2>1, LenProperties, WordNodeFacts
<1>2. d \in 1..(Len(p) + 1) /\ u \in 1..n /\ AddedTo(t, p, u, d, t2)
  BY <1>1, AddParcoursIs
<1>3. /\ Canon(w[u]) = SubSeq(Canon(p), 1, d - 1)
      /\ d <= Len(p) => Fils(t, u, p[d]) = 0
  <2>1. Descends(t, p, Len(p), path)
    BY <1>1, SpeltFacts
  <2>2. QED BY <2>1 DEF Descends
<1>4. d <= Len(p) => NoFilsLike(t, u, p[d])
  <2>1. ASSUME d <= Len(p) PROVE NoFilsLike(t, u, p[d])
    <3>1. d \in 1..Len(p)
      BY <1>2, <2>1
    <3>2. p[d] \in WordLetters
      BY <1>1, <3>1, ElementOfSeq
    <3> HIDE DEF d, u
    <3>3. QED BY <1>1, <1>2, <1>3, <2>1, <3>2, FilsFacts DEF NoFilsLike
  <2>2. QED BY <2>1
<1>5. Last(path) = u
  BY DEF Last
<1> HIDE DEF path, d, u, t2
<1>6. /\ TreeShape(t2) /\ \A y \in 1..n : WordTo(t2)[y] = w[y]
      /\ k # 0 => Canon(WordTo(t2)[n + k]) = Canon(p)
  BY <1>2, <1>3, <1>4, AddedWords
<1>7. AddedLayout(t, u, t2, n, k)
  BY <1>1, <1>2, AddedFils
<1>8. /\ n \in Nat /\ k \in Nat /\ Len(t2) = n + k /\ DOMAIN t2 = 1..(n + k)
      /\ \A x \in 1..(n + k) : x \in 1..n \/ \E i \in 1..k : x = n + i
  BY <1>7 DEF AddedLayout
<1>9. /\ \A x \in 1..n : x # u => t2[x] = t[x]
      /\ t2[u].feuille = (t[u].feuille \/ k = 0)
      /\ \A i \in 1..k : t2[n + i].feuille = (i = k)
  BY <1>2 DEF AddedTo
<1>10. k = 0 => Canon(w[u]) = Canon(p)
  <2>1. ASSUME k = 0 PROVE Canon(w[u]) = Canon(p)
    <3>1. d - 1 = Len(p)
      BY <1>1, <1>2, <2>1
    <3>2. Canon(p) \in Seq(WordLetters) /\ Len(Canon(p)) = Len(p)
      BY <1>1, CanonIs
    <3>3. SubSeq(Canon(p), 1, Len(Canon(p))) = Canon(p)
      BY <3>2, SubSeqFull
    <3>4. QED BY <1>3, <3>1, <3>2, <3>3
  <2>2. QED BY <2>1
<1>11. LeavesOf(t2) = LeavesOf(t) \cup IF k = 0 THEN {u} ELSE {n + k}
  <2>1. ASSUME NEW x \in 1..n
        PROVE  t2[x].feuille <=> t[x].feuille \/ (k = 0 /\ x = u)
    BY <1>9
  <2>2. \A i \in 1..k : t2[n + i].feuille <=> i = k
    BY <1>9
  <2>3. CASE k = 0
    <3>1. DOMAIN t2 = 1..n
      BY <1>8, <2>3
    <3>2. \A x : x \in LeavesOf(t2) <=> x \in 1..n /\ (t[x].feuille \/ x = u)
      BY <2>1, <2>3, <3>1 DEF LeavesOf
    <3>3. \A x : x \in LeavesOf(t) <=> x \in 1..n /\ t[x].feuille
      BY <1>1 DEF LeavesOf
    <3>4. QED BY <1>2, <2>3, <3>2, <3>3
  <2>4. CASE k # 0
    <3>1. \A x \in 1..n : x \in 1..(n + k) /\ x # n + k
      BY <1>8, <2>4
    <3>2. k \in 1..k /\ n + k \in 1..(n + k)
      BY <1>8, <2>4
    <3>3. ASSUME NEW x \in LeavesOf(t2) PROVE x \in LeavesOf(t) \/ x = n + k
      <4>1. x \in 1..(n + k) /\ t2[x].feuille
        BY <1>8 DEF LeavesOf
      <4>2. CASE x \in 1..n
        BY <1>1, <2>1, <2>4, <4>1, <4>2 DEF LeavesOf
      <4>3. CASE \E i \in 1..k : x = n + i
        BY <2>2, <4>1, <4>3
      <4>4. QED BY <1>8, <4>1, <4>2, <4>3
    <3>4. ASSUME NEW x \in LeavesOf(t) PROVE x \in LeavesOf(t2)
      <4>1. x \in 1..n /\ t[x].feuille
        BY <1>1 DEF LeavesOf
      <4>2. QED BY <1>8, <2>1, <3>1, <4>1 DEF LeavesOf
    <3>5. n + k \in LeavesOf(t2)
      BY <1>8, <2>2, <3>2 DEF LeavesOf
    <3>6. QED BY <2>4, <3>3, <3>4, <3>5
  <2>5. QED BY <2>3, <2>4
<1>12. \A x \in LeavesOf(t) : x \in 1..n /\ t[x].feuille
  BY <1>1 DEF LeavesOf
<1>13. TreeWords(t2) = TreeWords(t) \cup {Canon(p)}
  <2> DEFINE e == IF k = 0 THEN u ELSE n + k
  <2>1. LeavesOf(t2) = LeavesOf(t) \cup {e}
    BY <1>11
  <2>2. Canon(WordTo(t2)[e]) = Canon(p)
    <3>1. CASE k = 0
      BY <1>2, <1>6, <1>10, <3>1
    <3>2. CASE k # 0
      BY <1>6, <3>2
    <3>3. QED BY <3>1, <3>2
  <2>3. \A x \in LeavesOf(t) : Canon(WordTo(t2)[x]) = Canon(w[x])
    BY <1>6, <1>12
  <2> HIDE DEF e, w
  <2>4. {Canon(WordTo(t2)[x]) : x \in LeavesOf(t2)} =
           {Canon(w[x]) : x \in LeavesOf(t)} \cup {Canon(p)}
    BY <2>1, <2>2, <2>3
  <2>5. QED BY <2>4 DEF TreeWords, w
<1>14. Adds(t, p) <=> d <= Len(p) \/ ~t[u].feuille
  BY <1>5 DEF Adds, path, d
<1>15. CASE ~(d <= Len(p))
  <2>1. k = 0 /\ Canon(w[u]) = Canon(p)
    <3>1. k = 0
      BY <1>1, <1>2, <1>15
    <3>2. QED BY <1>10, <3>1
  <2>2. t[u].feuille => Canon(p) \in TreeWords(t)
    <3>1. t[u].feuille => u \in LeavesOf(t)
      BY <1>1, <1>2 DEF LeavesOf
    <3>2. QED BY <2>1, <3>1 DEF TreeWords
  <2>3. ASSUME Canon(p) \in TreeWords(t) PROVE t[u].feuille
    <3>1. PICK x \in LeavesOf(t) : Canon(w[x]) = Canon(p)
      BY <2>3 DEF TreeWords
    <3>2. x \in 1..n /\ t[x].feuille
      BY <1>12
    <3>3. x = u
      BY <1>2, <2>1, <3>1, <3>2, WordsDistinct
    <3>4. QED BY <3>2, <3>3
  <2>4. QED BY <1>6, <1>13, <1>14, <1>15, <2>2, <2>3 DEF t2
<1>16. CASE d <= Len(p)
  <2>1. ASSUME Canon(p) \in TreeWords(t) PROVE FALSE
    <3>1. PICK x \in LeavesOf(t) : Canon(w[x]) = Canon(p)
      BY <2>1 DEF TreeWords
    <3>2. x \in 1..n
      BY <1>12
    <3>3. w[x] \in Seq(WordLetters)
      BY <3>2, WordFacts
    <3> DEFINE h == d - 1
    <3>4. Len(w[x]) = Len(p) /\ h \in Nat /\ h \in 0..Len(w[x]) /\ h < Len(w[x]) /\ h + 1 = d
      <4>1. Len(w[x]) = Len(p)
        BY <1>1, <3>1, <3>3, CanonIs
      <4>2. QED BY <1>1, <1>2, <1>16, <4>1
    <3>5. PICK y \in 1..n : w[y] = SubSeq(w[x], 1, h)
      <4> HIDE DEF h
      <4>1. QED BY <3>2, <3>4, Ancestors
    <3>6. Canon(SubSeq(w[x], 1, h)) = SubSeq(Canon(w[x]), 1, h)
      <4> HIDE DEF h, w
      <4>1. QED BY <3>3, <3>4, CanonPrefix
    <3>7. Canon(w[y]) = Canon(w[u])
      BY <1>3, <3>1, <3>5, <3>6
    <3>8. y = u
      BY <1>2, <3>7, WordsDistinct
    <3>9. PICK c \in 1..Len(t[u].fils) : w[t[u].fils[c]] = SubSeq(w[x], 1, h + 1)
      <4> HIDE DEF h
      <4>1. WordTo(t)[u] = SubSeq(WordTo(t)[x], 1, h) /\ h \in Nat /\ h < Len(WordTo(t)[x])
        BY <3>4, <3>5, <3>8
      <4>2. QED BY <1>2, <3>2, <4>1, WordsGoOn
    <3> DEFINE o == t[u].fils[c]
               m == w[x][d]
    <3>10. o \in 2..n /\ o \in 1..n /\ w[o] = Append(w[u], t[o].mot)
      BY <1>2, WordFacts
    <3>11. t[o].mot \in WordLetters /\ w[u] \in Seq(WordLetters)
      <4> HIDE DEF o
      <4>1. QED BY <1>2, <3>10, WordFacts
    <3>12. SubSeq(w[x], 1, h + 1) = Append(SubSeq(w[x], 1, h), w[x][h + 1])
      <4> HIDE DEF h, w
      <4>1. QED BY <3>3, <3>4, PrefixMore
    <3>13. w[o] = Append(w[u], m)
      BY <3>4, <3>5, <3>8, <3>9, <3>12
    <3>14. m \in WordLetters /\ d \in 1..Len(w[x]) /\ d \in 1..Len(p)
      <4>1. d \in 1..Len(w[x]) /\ d \in 1..Len(p)
        BY <1>2, <1>16, <3>4
      <4>2. QED BY <3>3, <4>1, ElementOfSeq
    <3>15. t[o].mot = m
      <4> HIDE DEF o, m, w
      <4>1. Append(w[u], t[o].mot) = Append(w[u], m)
        BY <3>10, <3>13
      <4> DEFINE q == w[u]
                 b == t[o].mot
      <4>2. q \in Seq(WordLetters) /\ b \in WordLetters /\ m \in WordLetters
            /\ Append(q, b) = Append(q, m)
        BY <3>11, <3>14, <4>1
      <4> HIDE DEF q, b
      <4>3. b = m
        BY <4>2, AppendEqual
      <4>4. QED BY <4>3 DEF b
    <3>16. CanonLetter(m) = CanonLetter(p[d])
      <4>1. Canon(w[x])[d] = CanonLetter(w[x][d]) /\ Canon(p)[d] = CanonLetter(p[d])
        <5> HIDE DEF w
        <5>1. QED BY <1>1, <3>3, <3>14, CanonIs
      <4>2. QED BY <3>1, <4>1
    <3>17. QED BY <1>4, <1>16, <3>15, <3>16 DEF NoFilsLike
  <2>2. QED BY <1>6, <1>13, <1>14, <1>16, <2>1 DEF t2
<1>17. QED BY <1>15, <1>16

LEMMA RootShape ==
    ASSUME W \in Nat
    PROVE  TreeShape(<<Root>>) /\ TreeWords(<<Root>>) = {}
<1> DEFINE t == <<Root>>
           v == [x \in 1..1 |-> <<>>]
<1>1. t \in Seq(TreeNodes) /\ Len(t) = 1 /\ DOMAIN t = 1..1 /\ t[1].fils = <<>> /\ ~t[1].feuille
      /\ \A x \in 1..1 : x = 1
  <2>1. Root \in TreeNodes
    BY DEF Root, TreeNodes
  <2>2. t[1] = Root
    OBVIOUS
  <2>3. t[1].fils = <<>> /\ ~t[1].feuille
    BY <2>2 DEF Root
  <2>4. QED BY <2>1, <2>3
<1> HIDE DEF t
<1>2. LinksDown(t) /\ OneFather(t) /\ LettersDiffer(t) /\ NoDeadEnd(t)
  <2>1. \A x \in 1..Len(t) : ~\E c \in 1..Len(t[x].fils) : TRUE
    <3>1. Len(<<>>) = 0 /\ 1..0 = {}
      OBVIOUS
    <3>2. \A x \in 1..Len(t) : Len(t[x].fils) = 0
      BY <1>1, <3>1
    <3>3. QED BY <3>1, <3>2
  <2>2. \A y \in 2..Len(t) : FALSE
    BY <1>1
  <2>3. QED BY <1>1, <2>1, <2>2 DEF LinksDown, OneFather, LettersDiffer, NoDeadEnd
<1>3. SpeltAlong(v, t)
  <2>1. v \in [1..Len(t) -> Seq(WordLetters)] /\ v[1] = <<>>
    BY <1>1
  <2>2. \A y \in 2..Len(t) : FALSE
    BY <1>1
  <2> HIDE DEF v
  <2>3. QED BY <2>1, <2>2 DEF SpeltAlong
<1>4. WordTo(t) = v
  <2> HIDE DEF v
  <2>1. QED BY <1>2, <1>3, WordToIs
<1>5. WordsFit(v, t)
  <2>1. WellFormed(<<>>) /\ Len(<<>>) = 0 /\ NumbersIn(<<>>, 0) = 0
    BY NumbersFacts DEF WellFormed
  <2>2. NumbersIn(<<>>, Len(<<>>)) <= W
    BY <2>1
  <2>3. \A y \in 1..Len(t) : v[y] = <<>>
    BY <1>1
  <2> HIDE DEF v
  <2>4. QED BY <2>1, <2>2, <2>3 DEF WordsFit
<1>6. TreeShape(t)
  BY <1>1, <1>2, <1>3, <1>4, <1>5 DEF TreeShape
<1>7. TreeWords(t) = {}
  <2>1. LeavesOf(t) = {}
    BY <1>1 DEF LeavesOf
  <2>2. QED BY <2>1 DEF TreeWords
<1>8. QED BY <1>6, <1>7 DEF t

-----------------------------------------------------------------------------
(***************************************************************************)
(* What holds of the options and of the inputs, which no action changes.   *)
(***************************************************************************)
Chosen == input \in Inputs /\ option \in Options(input)

LEMMA ChosenFacts ==
    ASSUME Chosen
    PROVE  /\ W \in Nat /\ W # 0 /\ W \in Nat \ {0}
           /\ option.list \in BOOLEAN /\ option.useTree \in BOOLEAN /\ option.checkLabels \in BOOLEAN
           /\ option.limit \in Nat \cup {NoLimit}
           /\ Len(input.learn) \in Nat /\ Len(input.scan) \in Nat
           /\ DOMAIN input.learn = 1..Len(input.learn) /\ DOMAIN input.scan = 1..Len(input.scan)
           /\ input.learn \in Seq(Range(input.learn)) /\ input.scan \in Seq(Range(input.scan))
           /\ \A i \in 1..Len(input.learn) : input.learn[i] # Unreadable => IsGraph(input.learn[i])
           /\ \A i \in 1..Len(input.scan) : input.scan[i] # Unreadable => IsGraph(input.scan[i])
<1>1. IsInput(input) /\ option \in OptionRecords
  BY GTSIAssumption DEF Chosen
<1>2. W \in Nat \ {0} /\ option.list \in BOOLEAN /\ option.useTree \in BOOLEAN
      /\ option.checkLabels \in BOOLEAN /\ option.limit \in Nat \cup {NoLimit}
  BY <1>1 DEF OptionRecords, W
<1>3. ASSUME NEW files \in {input.learn, input.scan}
      PROVE  /\ files \in Seq(Range(files)) /\ Len(files) \in Nat /\ DOMAIN files = 1..Len(files)
             /\ \A i \in 1..Len(files) : files[i] # Unreadable => IsGraph(files[i])
  <2>1. files \in Seq(Range(files)) /\ \A i \in DOMAIN files : files[i] = Unreadable \/ IsGraph(files[i])
    BY <1>1 DEF IsInput
  <2>2. QED BY <2>1, LenProperties
<1>4. QED BY <1>2, <1>3

LEMMA ShapeNext ==
    ASSUME option' = option
    PROVE  TreeShape(wordTree)' <=> TreeShape(wordTree')
BY DEF TreeShape, WordsFit, W, LettersDiffer, CanonLetter

LEMMA CanonNext ==
    ASSUME option' = option, NEW p
    PROVE  Canon(p)' = Canon(p)
BY DEF Canon

LEMMA TreeWordsNext ==
    ASSUME option' = option
    PROVE  TreeWords(wordTree)' = TreeWords(wordTree')
BY CanonNext DEF TreeWords

SeenWord(q, f, r) ==
    \E i \in 1..Len(input.learn) : \E v \in NodesOf(input.learn[i]) :
        /\ input.learn[i] # Unreadable
        /\ i < f \/ (i = f /\ v < r)
        /\ parcoursLargeur(input.learn[i], v, W).complete
        /\ q = Canon(parcoursLargeur(input.learn[i], v, W).mots)

LEMMA SeenNext ==
    ASSUME option' = option, input' = input, NEW q, NEW f, NEW r
    PROVE  SeenWord(q, f, r)' <=> SeenWord(q, f, r)
BY DEF SeenWord, W, Canon

-----------------------------------------------------------------------------
(***************************************************************************)
(* The words of the sites seen so far, and those of all the sites.         *)
(***************************************************************************)
LEMMA SeenRoot ==
    ASSUME Chosen, NEW f \in 1..Len(input.learn), input.learn[f] # Unreadable,
           NEW v \in NodesOf(input.learn[f]), NEW q
    PROVE  SeenWord(q, f, v + 1) <=>
              \/ SeenWord(q, f, v)
              \/ /\ parcoursLargeur(input.learn[f], v, W).complete
                 /\ q = Canon(parcoursLargeur(input.learn[f], v, W).mots)
<1> DEFINE Ok(i, n) == /\ input.learn[i] # Unreadable
                       /\ parcoursLargeur(input.learn[i], n, W).complete
                       /\ q = Canon(parcoursLargeur(input.learn[i], n, W).mots)
<1>1. \A h, r : SeenWord(q, h, r) <=>
         \E i \in 1..Len(input.learn) : \E n \in NodesOf(input.learn[i]) :
             Ok(i, n) /\ (i < h \/ (i = h /\ n < r))
  BY DEF SeenWord
<1>2. \A i \in 1..Len(input.learn) : input.learn[i] # Unreadable => NodesOf(input.learn[i]) \subseteq Nat
  BY ChosenFacts, GraphFacts, SMTT(30)
<1>3. v \in Nat /\ f \in Nat
  BY <1>2
<1>4. Ok(f, v) <=> /\ parcoursLargeur(input.learn[f], v, W).complete
                   /\ q = Canon(parcoursLargeur(input.learn[f], v, W).mots)
  OBVIOUS
<1>5. \A i, n : Ok(i, n) => input.learn[i] # Unreadable
  OBVIOUS
<1> HIDE DEF Ok
<1>6. \A i \in 1..Len(input.learn) : \A n \in NodesOf(input.learn[i]) :
         Ok(i, n) => ((i < f \/ (i = f /\ n < v + 1)) <=> (i < f \/ (i = f /\ n < v) \/ (i = f /\ n = v)))
  BY <1>2, <1>3, <1>5
<1>7. QED BY <1>1, <1>4, <1>6

LEMMA SeenFile ==
    ASSUME Chosen, NEW f \in 1..Len(input.learn), NEW q
    PROVE  /\ input.learn[f] # Unreadable =>
                 (SeenWord(q, f + 1, 1) <=> SeenWord(q, f, Len(input.learn[f].children) + 1))
           /\ input.learn[f] = Unreadable => (SeenWord(q, f + 1, 1) <=> SeenWord(q, f, 1))
<1> DEFINE Ok(i, n) == /\ input.learn[i] # Unreadable
                       /\ parcoursLargeur(input.learn[i], n, W).complete
                       /\ q = Canon(parcoursLargeur(input.learn[i], n, W).mots)
<1>1. \A h, r : SeenWord(q, h, r) <=>
         \E i \in 1..Len(input.learn) : \E n \in NodesOf(input.learn[i]) :
             Ok(i, n) /\ (i < h \/ (i = h /\ n < r))
  BY DEF SeenWord
<1>2. \A i \in 1..Len(input.learn) : input.learn[i] # Unreadable =>
         /\ NodesOf(input.learn[i]) = 1..Len(input.learn[i].children)
         /\ Len(input.learn[i].children) \in Nat
  BY ChosenFacts, GraphFacts
<1>3. \A i, n : Ok(i, n) => input.learn[i] # Unreadable
  OBVIOUS
<1> HIDE DEF Ok
<1>4. f \in Nat
  OBVIOUS
<1>5. CASE input.learn[f] # Unreadable
  <2>1. \A i \in 1..Len(input.learn) : \A n \in NodesOf(input.learn[i]) :
         Ok(i, n) => ((i < f + 1 \/ (i = f + 1 /\ n < 1))
                        <=> (i < f \/ (i = f /\ n < Len(input.learn[f].children) + 1)))
    BY <1>2, <1>3, <1>4, <1>5
  <2>2. QED BY <1>1, <1>5, <2>1
<1>6. CASE input.learn[f] = Unreadable
  <2>1. \A i \in 1..Len(input.learn) : \A n \in NodesOf(input.learn[i]) :
         Ok(i, n) => ((i < f + 1 \/ (i = f + 1 /\ n < 1)) <=> (i < f \/ (i = f /\ n < 1)))
    BY <1>2, <1>3, <1>4, <1>6
  <2>2. QED BY <1>1, <1>6, <2>1
<1>7. QED BY <1>5, <1>6

LEMMA SeenNone ==
    ASSUME Chosen, NEW q
    PROVE  ~SeenWord(q, 1, 1)
<1>1. ASSUME NEW i \in 1..Len(input.learn), NEW n \in NodesOf(input.learn[i]),
             input.learn[i] # Unreadable, i < 1 \/ (i = 1 /\ n < 1)
      PROVE  FALSE
  <2>1. n \in Nat /\ n >= 1
    BY <1>1, ChosenFacts, GraphFacts
  <2>2. QED BY <1>1, <2>1
<1>2. QED BY <1>1 DEF SeenWord

LEMMA SeenLater ==
    ASSUME Chosen, NEW q, NEW f \in Nat, NEW r, SeenWord(q, f, r)
    PROVE  SeenWord(q, Len(input.learn) + 1, 1)
<1>1. Len(input.learn) \in Nat
  BY ChosenFacts
<1>2. \A i \in 1..Len(input.learn) : i < Len(input.learn) + 1
  BY <1>1
<1>3. QED BY <1>2 DEF SeenWord

LEMMA SeenAll ==
    ASSUME Chosen, NEW q, NEW f \in Nat, f > Len(input.learn), SeenWord(q, Len(input.learn) + 1, 1)
    PROVE  SeenWord(q, f, 1)
<1>1. Len(input.learn) \in Nat
  BY ChosenFacts
<1>2. \A i \in 1..Len(input.learn) : i < f
  BY <1>1
<1>3. QED BY <1>2 DEF SeenWord

LEMMA FiniteImage ==
    ASSUME NEW S, IsFiniteSet(S), NEW f
    PROVE  IsFiniteSet({f[x] : x \in S}) /\ Cardinality({f[x] : x \in S}) <= Cardinality(S)
<1> DEFINE T == {f[x] : x \in S}
           h == [x \in S |-> f[x]]
<1>1. h \in Surjection(S, T)
  BY DEF Surjection
<1> HIDE DEF h, T
<1>2. IsFiniteSet(T) /\ Cardinality(T) <= Cardinality(S)
  BY <1>1, FS_Surjection
<1>3. QED BY <1>2 DEF T

LEMMA WordsOfSitesIs ==
    ASSUME Chosen
    PROVE  /\ IsFiniteSet(WordsOfSites)
           /\ \A q : q \in WordsOfSites <=> SeenWord(q, Len(input.learn) + 1, 1)
<1> DEFINE G == Graphs(input.learn)
           n == Len(input.learn)
           pairs == {{g} \X NodesOf(g) : g \in G}
<1>1. n \in Nat /\ DOMAIN input.learn = 1..n
  BY ChosenFacts
<1>2. \A g : g \in G <=> \E i \in 1..n : g = input.learn[i] /\ g # Unreadable
  BY <1>1 DEF Graphs, Range
<1>3. \A g \in G : IsGraph(g)
  BY <1>2, ChosenFacts
<1>4. IsFiniteSet(G)
  <2>1. IsFiniteSet(1..n)
    BY <1>1, FS_Interval
  <2>2. IsFiniteSet({input.learn[i] : i \in 1..n})
    BY <2>1, FiniteImage
  <2>3. G \subseteq {input.learn[i] : i \in 1..n}
    BY <1>2
  <2> HIDE DEF G, n
  <2>4. QED BY <2>2, <2>3, FS_Subset
<1>5. IsFiniteSet(UNION pairs)
  <2>1. IsFiniteSet(pairs)
    <3> DEFINE f == [g \in G |-> {g} \X NodesOf(g)]
    <3>1. pairs = {f[g] : g \in G}
      OBVIOUS
    <3> HIDE DEF G, f, pairs
    <3>2. QED BY <1>4, <3>1, FiniteImage
  <2>2. ASSUME NEW g \in G PROVE IsFiniteSet({g} \X NodesOf(g))
    <3>1. NodesOf(g) = 1..Len(g.children) /\ Len(g.children) \in Nat
      BY <1>3, GraphFacts
    <3>2. IsFiniteSet(NodesOf(g))
      BY <3>1, FS_Interval
    <3>3. IsFiniteSet({g})
      BY FS_Singleton
    <3>4. QED BY <3>2, <3>3, FS_Product
  <2>3. \A P \in pairs : IsFiniteSet(P)
    BY <2>2
  <2> HIDE DEF pairs
  <2>4. QED BY <2>1, <2>3, FS_UNION
<1>6. Sites \subseteq UNION pairs
  BY DEF Sites
<1>7. IsFiniteSet(Sites)
  <2> HIDE DEF pairs
  <2>1. QED BY <1>5, <1>6, FS_Subset
<1>8. IsFiniteSet(WordsOfSites)
  <2> DEFINE f == [s \in Sites |-> Canon(parcoursLargeur(s[1], s[2], W).mots)]
  <2>1. WordsOfSites = {f[s] : s \in Sites}
    BY DEF WordsOfSites
  <2> HIDE DEF f
  <2>2. QED BY <1>7, <2>1, FiniteImage
<1>9. ASSUME NEW q \in WordsOfSites PROVE SeenWord(q, n + 1, 1)
  <2>1. PICK s \in Sites : q = Canon(parcoursLargeur(s[1], s[2], W).mots)
    BY DEF WordsOfSites
  <2>2. parcoursLargeur(s[1], s[2], W).complete /\ \E g \in G : s \in {g} \X NodesOf(g)
    BY DEF Sites
  <2>3. PICK g \in G : s \in {g} \X NodesOf(g)
    BY <2>2
  <2>4. s[1] = g /\ s[2] \in NodesOf(g)
    BY <2>3
  <2>5. PICK i \in 1..n : g = input.learn[i] /\ g # Unreadable
    BY <1>2
  <2>6. i < n + 1
    BY <1>1
  <2>7. QED BY <2>1, <2>2, <2>4, <2>5, <2>6 DEF SeenWord
<1>10. ASSUME NEW q, SeenWord(q, n + 1, 1) PROVE q \in WordsOfSites
  <2>1. PICK i \in 1..n : \E v \in NodesOf(input.learn[i]) :
             /\ input.learn[i] # Unreadable
             /\ parcoursLargeur(input.learn[i], v, W).complete
             /\ q = Canon(parcoursLargeur(input.learn[i], v, W).mots)
    BY <1>10 DEF SeenWord
  <2>2. PICK v \in NodesOf(input.learn[i]) :
             /\ input.learn[i] # Unreadable
             /\ parcoursLargeur(input.learn[i], v, W).complete
             /\ q = Canon(parcoursLargeur(input.learn[i], v, W).mots)
    BY <2>1
  <2> DEFINE g == input.learn[i]
             s == <<g, v>>
  <2>3. g \in G
    BY <1>2, <2>2
  <2>4. s \in {g} \X NodesOf(g) /\ s[1] = g /\ s[2] = v
    OBVIOUS
  <2> HIDE DEF s
  <2>5. s \in Sites
    <3> HIDE DEF g
    <3>1. {g} \X NodesOf(g) \in pairs
      BY <2>3
    <3>2. QED BY <2>2, <2>4, <3>1 DEF Sites, g
  <2>6. q = Canon(parcoursLargeur(s[1], s[2], W).mots)
    BY <2>2, <2>4
  <2>7. QED BY <2>5, <2>6 DEF WordsOfSites
<1>11. QED BY <1>8, <1>9, <1>10

-----------------------------------------------------------------------------
(***************************************************************************)
(* Learning.  The words learnt are those of sites; none is left out unless *)
(* the limit is reached; and they are as many as the counters say.         *)
(***************************************************************************)
TreeOK ==
    /\ TreeShape(wordTree)
    /\ IsFiniteSet(parcours) /\ \A p \in parcours : WellFormed(p) /\ p # <<>>
    /\ \A p, q \in parcours : Canon(p) = Canon(q) => p = q
    /\ option.useTree => parcours = {}
    /\ ~option.useTree => wordTree = <<Root>>

Learns == option.list => option.useTree
Full == option.list /\ option.limit # NoLimit /\ Cardinality(Words) >= option.limit
AddedHere == IF phase \in {"learn", "abort"} THEN added ELSE 0
AtFile == IF phase \in {"learning", "learn"} THEN file
          ELSE IF phase = "abort" THEN 1 ELSE Len(input.learn) + 1
AtRoot == IF phase = "learn" THEN vroot ELSE 1

LearnInv ==
    /\ \A q \in Words : SeenWord(q, Len(input.learn) + 1, 1)
    /\ Learns => Full \/ \A q : SeenWord(q, AtFile, AtRoot) => q \in Words
    /\ option.list => Cardinality(Words) = learntTotal + AddedHere
    /\ option.list /\ option.limit # NoLimit => Cardinality(Words) <= option.limit
    /\ phase = "learn" /\ option.list /\ option.limit # NoLimit => learntTotal < option.limit

LEMMA SameWordIs ==
    ASSUME NEW p \in Seq(WordLetters), NEW q \in Seq(WordLetters)
    PROVE  SameWord(p, q, option.checkLabels) <=> Canon(p) = Canon(q)
<1> DEFINE a == Canon(p)
           b == Canon(q)
<1>1. /\ a \in Seq(WordLetters) /\ Len(a) = Len(p)
      /\ b \in Seq(WordLetters) /\ Len(b) = Len(q)
      /\ \A j \in 1..Len(p) : a[j] = CanonLetter(p[j])
      /\ \A j \in 1..Len(q) : b[j] = CanonLetter(q[j])
  BY CanonIs
<1>2. /\ Len(p) \in Nat /\ Len(q) \in Nat /\ DOMAIN p = 1..Len(p)
      /\ \A j \in 1..Len(p) : p[j] \in WordLetters
      /\ \A j \in 1..Len(q) : q[j] \in WordLetters
  BY LenProperties, ElementOfSeq
<1> HIDE DEF a, b
<1>3. ASSUME Len(p) = Len(q), NEW j \in 1..Len(p)
      PROVE  SameLetter(p[j], q[j], option.checkLabels) <=> a[j] = b[j]
  <2>1. j \in 1..Len(q)
    BY <1>3
  <2>2. SameLetter(p[j], q[j], option.checkLabels) <=> CanonLetter(p[j]) = CanonLetter(q[j])
    BY <1>2, <2>1, SameLetterIs
  <2>3. QED BY <1>1, <2>1, <2>2
<1>4. SameWord(p, q, option.checkLabels) <=>
         Len(p) = Len(q) /\ \A j \in 1..Len(p) : SameLetter(p[j], q[j], option.checkLabels)
  BY <1>2 DEF SameWord
<1>5. a = b <=> Len(p) = Len(q) /\ \A j \in 1..Len(p) : a[j] = b[j]
  BY <1>1, <1>2, SeqEqual
<1>6. SameWord(p, q, option.checkLabels) <=> a = b
  BY <1>3, <1>4, <1>5
<1>7. QED BY <1>6 DEF a, b

LEMMA WordsAre ==
    /\ Words = TreeWords(wordTree) \cup {Canon(p) : p \in parcours}
    /\ option' = option => Words' = TreeWords(wordTree') \cup {Canon(p) : p \in parcours'}
<1>1. Words = TreeWords(wordTree) \cup {Canon(p) : p \in parcours}
  BY DEF Words, TreeWords
<1>2. Words' = TreeWords(wordTree)' \cup {Canon(p) : p \in parcours}'
  BY DEF Words, TreeWords
<1>3. ASSUME option' = option
      PROVE  {Canon(p) : p \in parcours}' = {Canon(p) : p \in parcours'}
  BY <1>3 DEF Canon
<1>4. QED BY <1>1, <1>2, <1>3, TreeWordsNext

LEMMA WordsFinite ==
    ASSUME Chosen, TreeOK
    PROVE  IsFiniteSet(Words) /\ Cardinality(Words) \in Nat
<1>1. IsFiniteSet(TreeWords(wordTree))
  <2>1. Len(wordTree) \in Nat /\ DOMAIN wordTree = 1..Len(wordTree)
    BY WordNodeFacts DEF TreeOK, TreeShape
  <2>2. LeavesOf(wordTree) \subseteq 1..Len(wordTree)
    BY <2>1 DEF LeavesOf
  <2>3. IsFiniteSet(LeavesOf(wordTree))
    <3>1. IsFiniteSet(1..Len(wordTree))
      BY <2>1, FS_Interval
    <3>2. QED BY <2>2, <3>1, FS_Subset
  <2> DEFINE f == [x \in LeavesOf(wordTree) |-> Canon(WordTo(wordTree)[x])]
  <2>4. TreeWords(wordTree) = {f[x] : x \in LeavesOf(wordTree)}
    BY DEF TreeWords
  <2> HIDE DEF f
  <2>5. QED BY <2>3, <2>4, FiniteImage
<1>2. IsFiniteSet({Canon(p) : p \in parcours})
  <2> DEFINE f == [p \in parcours |-> Canon(p)]
  <2>1. {Canon(p) : p \in parcours} = {f[p] : p \in parcours}
    OBVIOUS
  <2>2. IsFiniteSet(parcours)
    BY DEF TreeOK
  <2> HIDE DEF f
  <2>3. QED BY <2>1, <2>2, FiniteImage
<1>3. IsFiniteSet(Words)
  <2>1. Words = TreeWords(wordTree) \cup {Canon(p) : p \in parcours}
    BY WordsAre
  <2>2. QED BY <1>1, <1>2, <2>1, FS_Union
<1>4. QED BY <1>3, FS_CardinalityType

\* What a step keeps when it leaves the words alone.
LEMMA SameWords ==
    ASSUME Chosen, TreeOK, UNCHANGED <<input, option, wordTree, parcours>>
    PROVE  Chosen' /\ TreeOK' /\ Words' = Words /\ Learns' = Learns /\ (Full' <=> Full)
<1>1. Words' = Words
  BY WordsAre
<1>2. TreeShape(wordTree)'
  BY ShapeNext DEF TreeOK
<1>3. \A p, q \in parcours : Canon(p)' = Canon(q)' => p = q
  BY CanonNext DEF TreeOK
<1>4. TreeOK'
  BY <1>2, <1>3 DEF TreeOK, Root
<1>5. Full' <=> Full
  BY <1>1 DEF Full, NoLimit
<1>6. QED BY <1>1, <1>4, <1>5 DEF Chosen, Learns

LEMMA OneMoreWord ==
    ASSUME Chosen, TreeOK, UNCHANGED <<input, option>>,
           NEW p, WellFormed(p), p # <<>>, NumbersIn(p, Len(p)) <= W,
           IF option.useTree
           THEN wordTree' = addParcours(wordTree, p) /\ parcours' = parcours
           ELSE /\ parcours' = parcours \cup
                      {q \in {p} : ~\E o \in parcours : SameWord(q, o, option.checkLabels)}
                /\ wordTree' = wordTree
    PROVE  /\ Chosen' /\ TreeOK' /\ Words' = Words \cup {Canon(p)}
           /\ option.useTree => (Adds(wordTree, p) <=> Canon(p) \notin Words)
<1>1. Words = TreeWords(wordTree) \cup {Canon(q) : q \in parcours}
      /\ Words' = TreeWords(wordTree') \cup {Canon(q) : q \in parcours'}
  BY WordsAre
<1>2. W \in Nat /\ p \in Seq(WordLetters)
  BY ChosenFacts DEF WellFormed
<1>3. TreeShape(wordTree) /\ IsFiniteSet(parcours)
  BY DEF TreeOK
<1>4. Chosen'
  BY DEF Chosen
<1>5. CASE option.useTree
  <2>1. parcours = {} /\ parcours' = {} /\ wordTree' = addParcours(wordTree, p)
    BY <1>5 DEF TreeOK
  <2>2. /\ TreeShape(wordTree') /\ TreeWords(wordTree') = TreeWords(wordTree) \cup {Canon(p)}
        /\ Adds(wordTree, p) <=> Canon(p) \notin TreeWords(wordTree)
    BY <1>2, <1>3, <2>1, AddedLeaves
  <2>3. TreeShape(wordTree)'
    BY <2>2, ShapeNext
  <2>4. TreeOK'
    BY <1>3, <1>5, <2>1, <2>3 DEF TreeOK
  <2>5. Words' = Words \cup {Canon(p)} /\ (Adds(wordTree, p) <=> Canon(p) \notin Words)
    BY <1>1, <2>1, <2>2
  <2>6. QED BY <1>4, <2>4, <2>5
<1>6. CASE ~option.useTree
  <2>1. wordTree' = wordTree /\ TreeShape(wordTree)' /\ wordTree = <<Root>>
    BY <1>3, <1>6, ShapeNext DEF TreeOK
  <2> DEFINE new == {q \in {p} : ~\E o \in parcours : SameWord(q, o, option.checkLabels)}
  <2>2. \A o \in parcours : o \in Seq(WordLetters) /\ WellFormed(o) /\ o # <<>>
    BY DEF TreeOK, WellFormed
  <2>3. \A o \in parcours : SameWord(p, o, option.checkLabels) <=> Canon(p) = Canon(o)
    BY <1>2, <2>2, SameWordIs
  <2>4. CASE \E o \in parcours : Canon(o) = Canon(p)
    <3>1. new = {}
      BY <2>3, <2>4
    <3>2. parcours' = parcours
      BY <1>6, <3>1
    <3>3. Words' = Words \cup {Canon(p)}
      BY <1>1, <2>1, <2>4, <3>2
    <3>4. QED BY <1>6, <2>1, <3>2, <3>3, SameWords
  <2>5. CASE ~\E o \in parcours : Canon(o) = Canon(p)
    <3>1. new = {p}
      BY <2>3, <2>5
    <3>2. parcours' = parcours \cup {p}
      BY <1>6, <3>1
    <3> HIDE DEF new
    <3>3. Words' = Words \cup {Canon(p)}
      BY <1>1, <2>1, <3>2
    <3>4. IsFiniteSet(parcours')
      BY <1>3, <3>2, FS_AddElement
    <3>5. \A a, b \in parcours' : Canon(a) = Canon(b) => a = b
      <4>1. \A a, b \in parcours : Canon(a) = Canon(b) => a = b
        BY DEF TreeOK
      <4>2. QED BY <2>5, <3>2, <4>1
    <3>6. \A a, b \in parcours' : Canon(a)' = Canon(b)' => a = b
      BY <3>5, CanonNext
    <3>7. \A a \in parcours' : WellFormed(a) /\ a # <<>>
      BY <2>2, <3>2
    <3>8. TreeOK'
      BY <1>6, <2>1, <3>4, <3>6, <3>7 DEF TreeOK, Root
    <3>9. QED BY <1>4, <1>6, <3>3, <3>8
  <2>6. QED BY <2>4, <2>5
<1>7. QED BY <1>5, <1>6, ChosenFacts

PhaseInv ==
    /\ phase \in {"learning", "learn", "scanning", "scan", "walk", "abort", "end"}
    /\ file \in Nat \ {0} /\ vroot \in Nat \ {0}
    /\ phase = "learn" => /\ file <= Len(input.learn) /\ input.learn[file] # Unreadable
                          /\ vroot <= Len(input.learn[file].children) + 1 /\ Learns
    /\ phase \in {"scan", "walk"} => /\ file <= Len(input.scan) /\ input.scan[file] # Unreadable
                                     /\ vroot <= Len(input.scan[file].children) + 1
    /\ phase = "walk" => option.useTree /\ vroot <= Len(input.scan[file].children)
    /\ phase \in {"learning", "learn", "abort"} => answers = <<>>
    /\ added \in Nat /\ learntTotal \in Nat /\ reconstructed \in Nat

\* What a step keeps when it adds no word.
LEMMA LearntAsBefore ==
    ASSUME Chosen, TreeOK, LearnInv, UNCHANGED <<input, option, wordTree, parcours>>,
           Learns /\ ~Full => \A q : SeenWord(q, AtFile', AtRoot') => SeenWord(q, AtFile, AtRoot),
           option.list => learntTotal' + AddedHere' = learntTotal + AddedHere,
           phase' = "learn" /\ option.list /\ option.limit # NoLimit => learntTotal' < option.limit
    PROVE  Chosen' /\ TreeOK' /\ LearnInv' /\ Words' = Words
<1>1. Chosen' /\ TreeOK' /\ Words' = Words /\ Learns' = Learns /\ (Full' <=> Full)
  BY SameWords
<1>2. \A q : /\ SeenWord(q, AtFile, AtRoot)' <=> SeenWord(q, AtFile', AtRoot')
             /\ SeenWord(q, Len(input.learn) + 1, 1)' <=> SeenWord(q, Len(input.learn) + 1, 1)
  BY DEF SeenWord, W, Canon
<1>3. \A q \in Words' : SeenWord(q, Len(input.learn) + 1, 1)'
  BY <1>1, <1>2 DEF LearnInv
<1>4. Learns' => Full' \/ \A q : SeenWord(q, AtFile, AtRoot)' => q \in Words'
  <2>1. Learns => Full \/ \A q : SeenWord(q, AtFile, AtRoot) => q \in Words
    BY DEF LearnInv
  <2>2. QED BY <1>1, <1>2, <2>1
<1>5. /\ option'.list => Cardinality(Words') = learntTotal' + AddedHere'
      /\ option'.list /\ option'.limit # NoLimit' => Cardinality(Words') <= option'.limit
      /\ phase' = "learn" /\ option'.list /\ option'.limit # NoLimit' => learntTotal' < option'.limit
  BY <1>1 DEF LearnInv, NoLimit
<1>6. LearnInv'
  BY <1>3, <1>4, <1>5 DEF LearnInv
<1>7. QED BY <1>1, <1>6

LearningInv == Chosen /\ TreeOK /\ PhaseInv /\ LearnInv

LEMMA LearningInit ==
    ASSUME GTSIInit
    PROVE  LearningInv
<1>1. Chosen
  BY DEF GTSIInit, Chosen
<1>2. W \in Nat /\ Len(input.learn) \in Nat
  BY <1>1, ChosenFacts
<1>3. TreeShape(wordTree) /\ TreeWords(wordTree) = {} /\ wordTree = <<Root>> /\ parcours = {}
  BY <1>2, RootShape DEF GTSIInit
<1>4. IsFiniteSet(parcours)
  BY <1>3, FS_EmptySet
<1>5. TreeOK
  BY <1>3, <1>4 DEF TreeOK
<1>6. Words = {} /\ Cardinality(Words) = 0
  BY <1>3, WordsAre, FS_EmptySet
<1>7. phase = "learning" /\ file = 1 /\ vroot = 1 /\ added = 0 /\ learntTotal = 0 /\ reconstructed = 0
      /\ answers = <<>>
  BY DEF GTSIInit
<1>8. PhaseInv
  BY <1>7 DEF PhaseInv
<1>9. AtFile = 1 /\ AtRoot = 1 /\ AddedHere = 0
  BY <1>7 DEF AtFile, AtRoot, AddedHere
<1>10. option.limit # NoLimit => 0 <= option.limit
  BY <1>1, ChosenFacts
<1>11. LearnInv
  BY <1>1, <1>6, <1>7, <1>9, <1>10, SeenNone DEF LearnInv
<1>12. QED BY <1>1, <1>5, <1>8, <1>11 DEF LearningInv

LEMMA LoadGraphKeeps ==
    ASSUME LearningInv, LoadGraph
    PROVE  LearningInv'
<1>1. phase = "learning" /\ MoreToLearn /\ vroot' = 1 /\ added' = 0
      /\ UNCHANGED <<input, option, wordTree, parcours, learntTotal, reconstructed, answers>>
  BY DEF LoadGraph, walkVars
<1>2. file \in Nat \ {0} /\ file <= Len(input.learn) /\ file \in 1..Len(input.learn)
  BY <1>1, ChosenFacts DEF LearningInv, PhaseInv, MoreToLearn
<1>3. gr = input.learn[file] /\ AtFile = file /\ AtRoot = 1 /\ AddedHere = 0
  BY <1>1 DEF gr, AtFile, AtRoot, AddedHere
<1>4. option.list /\ option.limit # NoLimit => learntTotal' < option.limit
  BY <1>1 DEF MoreToLearn
<1>5. CASE input.learn[file] # Unreadable /\ Learns
  <2>1. phase' = "learn" /\ file' = file
    BY <1>3, <1>5 DEF LoadGraph, Learns
  <2>2. AtFile' = file /\ AtRoot' = 1 /\ AddedHere' = 0
    BY <1>1, <2>1 DEF AtFile, AtRoot, AddedHere
  <2>3. Chosen' /\ TreeOK' /\ LearnInv'
    BY <1>1, <1>3, <1>4, <2>2, LearntAsBefore DEF LearningInv
  <2>4. IsGraph(input.learn[file])
    BY <1>2, <1>5, ChosenFacts DEF LearningInv
  <2>5. PhaseInv'
    <3>1. 1 <= Len(input.learn[file].children) + 1
      BY <2>4, GraphFacts
    <3>2. Learns'
      BY <1>1, <1>5 DEF Learns
    <3>3. QED BY <1>1, <1>2, <1>5, <2>1, <3>1, <3>2 DEF LearningInv, PhaseInv
  <2>6. QED BY <2>3, <2>5 DEF LearningInv
<1>6. CASE ~(input.learn[file] # Unreadable /\ Learns)
  <2>1. phase' = "learning" /\ file' = file + 1
    BY <1>1, <1>3, <1>6 DEF LoadGraph, Learns, NextLine
  <2>2. AtFile' = file + 1 /\ AtRoot' = 1 /\ AddedHere' = 0
    BY <1>1, <2>1 DEF AtFile, AtRoot, AddedHere
  <2>3. Learns => \A q : SeenWord(q, file + 1, 1) => SeenWord(q, file, 1)
    BY <1>2, <1>6, SeenFile DEF LearningInv
  <2>4. Chosen' /\ TreeOK' /\ LearnInv'
    BY <1>1, <1>3, <2>1, <2>2, <2>3, LearntAsBefore DEF LearningInv
  <2>5. PhaseInv'
    BY <1>1, <1>2, <2>1 DEF LearningInv, PhaseInv
  <2>6. QED BY <2>4, <2>5 DEF LearningInv
<1>7. QED BY <1>5, <1>6

\* While a graph is learnt, the tree holds as many words as the counters say.
LEMMA MayLearnIs ==
    ASSUME LearningInv, phase = "learn"
    PROVE  /\ ~(option.list /\ option.limit # NoLimit) => MayLearn
           /\ option.list /\ option.limit # NoLimit => (MayLearn <=> ~Full)
<1>1. ~(option.list /\ option.limit # NoLimit) => MayLearn
  BY DEF MayLearn, maxLearn
<1>2. ASSUME option.list, option.limit # NoLimit
      PROVE  MayLearn <=> ~Full
  <2>1. option.limit \in Nat /\ learntTotal \in Nat /\ added \in Nat /\ learntTotal < option.limit
    BY <1>2, ChosenFacts DEF LearningInv, LearnInv, PhaseInv
  <2>2. maxLearn = option.limit - learntTotal
    BY <1>2 DEF maxLearn
  <2>3. AddedHere = added
    BY DEF AddedHere
  <2>4. Cardinality(Words) = learntTotal + added
    BY <1>2, <2>3 DEF LearningInv, LearnInv
  <2>5. Full <=> learntTotal + added >= option.limit
    BY <1>2, <2>4 DEF Full
  <2>6. QED BY <2>1, <2>2, <2>5 DEF MayLearn
<1>3. QED BY <1>1, <1>2

LEMMA CloseGraphKeeps ==
    ASSUME LearningInv, CloseGraph
    PROVE  LearningInv'
<1>1. phase = "learn" /\ phase' = "learning" /\ file' = file + 1
      /\ UNCHANGED <<input, option, vroot, wordTree, parcours, added, answers>>
  BY DEF CloseGraph, walkVars
<1>2. file \in 1..Len(input.learn) /\ file \in Nat /\ input.learn[file] # Unreadable
      /\ vroot \in Nat /\ vroot <= Len(input.learn[file].children) + 1 /\ added \in Nat
      /\ learntTotal \in Nat /\ Learns
  BY <1>1, ChosenFacts DEF LearningInv, PhaseInv
<1>3. gr = input.learn[file] /\ AtFile = file /\ AtRoot = vroot /\ AddedHere = added
  BY <1>1 DEF gr, AtFile, AtRoot, AddedHere
<1>4. AtFile' = file + 1 /\ AtRoot' = 1 /\ AddedHere' = 0
  BY <1>1 DEF AtFile, AtRoot, AddedHere
<1>5. option.list => learntTotal' + AddedHere' = learntTotal + AddedHere
  BY <1>2, <1>3, <1>4 DEF CloseGraph
<1>6. ASSUME ~Full, NEW q, SeenWord(q, file + 1, 1)
      PROVE  SeenWord(q, file, vroot)
  <2>1. ~(option.useTree /\ ~MayLearn)
    BY <1>1, <1>6, MayLearnIs
  <2>2. vroot > Len(input.learn[file].children)
    BY <1>3, <2>1 DEF CloseGraph
  <2>3. IsGraph(input.learn[file])
    BY <1>2, ChosenFacts DEF LearningInv
  <2>4. vroot = Len(input.learn[file].children) + 1
    BY <1>2, <2>2, <2>3, GraphFacts
  <2>5. QED BY <1>2, <1>6, <2>4, SeenFile DEF LearningInv
<1>7. Chosen' /\ TreeOK' /\ LearnInv'
  BY <1>1, <1>3, <1>4, <1>5, <1>6, LearntAsBefore DEF LearningInv
<1>8. learntTotal' \in Nat /\ reconstructed' \in Nat
  <2>1. learntTotal' \in Nat
    BY <1>2 DEF CloseGraph
  <2>2. reconstructed' = IF option.list THEN 0 ELSE IF option.useTree THEN countLeaves(wordTree)
                         ELSE Cardinality(parcours)
    BY DEF CloseGraph
  <2>3. Cardinality(parcours) \in Nat
    BY FS_CardinalityType DEF LearningInv, TreeOK
  <2>4. countLeaves(wordTree) \in Nat
    <3>1. Len(wordTree) \in Nat /\ DOMAIN wordTree = 1..Len(wordTree)
      BY WordNodeFacts DEF LearningInv, TreeOK, TreeShape
    <3> DEFINE ends == {x \in DOMAIN wordTree : wordTree[x].fils = <<>>}
    <3>2. ends \subseteq 1..Len(wordTree)
      BY <3>1
    <3>3. IsFiniteSet(1..Len(wordTree))
      BY <3>1, FS_Interval
    <3> HIDE DEF ends
    <3>4. Cardinality(ends) \in Nat
      BY <3>2, <3>3, FS_Subset, FS_CardinalityType
    <3>5. QED BY <3>4 DEF countLeaves, ends
  <2>5. QED BY <2>1, <2>2, <2>3, <2>4
<1>9. PhaseInv'
  BY <1>1, <1>2, <1>8 DEF LearningInv, PhaseInv
<1>10. QED BY <1>7, <1>9 DEF LearningInv

LEMMA EndLearningKeeps ==
    ASSUME LearningInv, EndLearning
    PROVE  LearningInv'
<1>1. phase = "learning" /\ ~MoreToLearn /\ phase' = "scanning" /\ file' = 1
      /\ UNCHANGED <<input, option, vroot, wordTree, parcours, added, learntTotal, reconstructed, answers>>
  BY DEF EndLearning, learnVars
<1>2. AtFile = file /\ AtRoot = 1 /\ AddedHere = 0
  BY <1>1 DEF AtFile, AtRoot, AddedHere
<1>3. AtFile' = Len(input.learn) + 1 /\ AtRoot' = 1 /\ AddedHere' = 0
  BY <1>1 DEF AtFile, AtRoot, AddedHere
<1>4. file \in Nat /\ Len(input.learn) \in Nat /\ learntTotal \in Nat
      /\ option.limit \in Nat \cup {NoLimit}
  BY ChosenFacts DEF LearningInv, PhaseInv
<1>5. ASSUME ~Full, NEW q, SeenWord(q, Len(input.learn) + 1, 1)
      PROVE  SeenWord(q, file, 1)
  <2>1. ~(option.list /\ option.limit # NoLimit /\ ~(learntTotal < option.limit))
    <3>1. option.list => Cardinality(Words) = learntTotal
      BY <1>2, <1>4 DEF LearningInv, LearnInv
    <3>2. QED BY <1>4, <1>5, <3>1 DEF Full
  <2>2. file > Len(input.learn)
    BY <1>1, <1>4, <2>1 DEF MoreToLearn
  <2>3. QED BY <1>4, <1>5, <2>2, SeenAll DEF LearningInv
<1>6. Chosen' /\ TreeOK' /\ LearnInv'
  BY <1>1, <1>2, <1>3, <1>5, LearntAsBefore DEF LearningInv
<1>7. PhaseInv'
  BY <1>1 DEF LearningInv, PhaseInv
<1>8. QED BY <1>6, <1>7 DEF LearningInv

LEMMA AddRootKeeps ==
    ASSUME LearningInv, AddRoot
    PROVE  LearningInv'
<1> DEFINE p == parcoursLargeur(gr, vroot, W)
<1>1. phase = "learn" /\ vroot \in NodesOf(gr) /\ (option.useTree => MayLearn)
      /\ UNCHANGED <<input, option, file, learntTotal, reconstructed, answers>>
  BY DEF AddRoot, walkVars
<1>2. IF ~p.asserts THEN phase' = "abort" /\ UNCHANGED <<vroot, wordTree, parcours, added>>
      ELSE /\ vroot' = vroot + 1 /\ UNCHANGED phase
           /\ IF ~p.complete THEN UNCHANGED <<wordTree, parcours, added>>
              ELSE IF option.useTree
              THEN /\ wordTree' = addParcours(wordTree, p.mots)
                   /\ added' = added + (IF Adds(wordTree, p.mots) THEN 1 ELSE 0)
                   /\ UNCHANGED parcours
              ELSE /\ parcours' = parcours \cup
                         {q \in {p.mots} : ~\E o \in parcours :
                                               SameWord(q, o, option.checkLabels)}
                   /\ UNCHANGED <<wordTree, added>>
  BY DEF AddRoot
<1>3. /\ Chosen /\ TreeOK /\ LearnInv /\ file \in 1..Len(input.learn) /\ file \in Nat
      /\ input.learn[file] # Unreadable /\ Learns
      /\ added \in Nat /\ learntTotal \in Nat /\ reconstructed \in Nat /\ answers = <<>>
      /\ vroot \in Nat \ {0} /\ vroot <= Len(input.learn[file].children) + 1
  BY <1>1, ChosenFacts DEF LearningInv, PhaseInv
<1>4. gr = input.learn[file] /\ AtFile = file /\ AtRoot = vroot /\ AddedHere = added
  BY <1>1 DEF gr, AtFile, AtRoot, AddedHere
<1>5. IsGraph(gr) /\ vroot \in 1..Len(gr.children) /\ Len(gr.children) \in Nat
  BY <1>1, <1>3, <1>4, ChosenFacts, GraphFacts
<1>6. /\ p.complete \in BOOLEAN /\ p.asserts \in BOOLEAN
      /\ WellFormed(p.mots) /\ p.mots # <<>> /\ NumbersIn(p.mots, Len(p.mots)) <= W
  BY <1>1, <1>3, <1>5, ChosenFacts, ParcoursFacts
<1>7. \A q : SeenWord(q, file, vroot + 1) <=> SeenWord(q, file, vroot) \/ (p.complete /\ q = Canon(p.mots))
  BY <1>1, <1>3, <1>4, SeenRoot
<1> HIDE DEF p
<1>8. ~Full
  BY <1>1, <1>3, MayLearnIs DEF Full, Learns
<1>9. CASE ~p.asserts
  <2>1. phase' = "abort" /\ UNCHANGED <<vroot, wordTree, parcours, added>>
    BY <1>2, <1>9
  <2>2. AtFile' = 1 /\ AtRoot' = 1 /\ AddedHere' = added
    BY <2>1 DEF AtFile, AtRoot, AddedHere
  <2>3. Chosen' /\ TreeOK' /\ LearnInv'
    BY <1>1, <1>3, <1>4, <2>1, <2>2, SeenNone, LearntAsBefore
  <2>4. PhaseInv'
    BY <1>1, <1>3, <2>1 DEF PhaseInv
  <2>5. QED BY <2>3, <2>4 DEF LearningInv
<1>10. CASE p.asserts
  <2>1. vroot' = vroot + 1 /\ phase' = "learn" /\ added' \in Nat
    BY <1>1, <1>2, <1>3, <1>10
  <2>2. AtFile' = file /\ AtRoot' = vroot + 1 /\ AddedHere' = added'
    BY <1>1, <2>1 DEF AtFile, AtRoot, AddedHere
  <2>3. PhaseInv'
    <3>1. Learns'
      BY <1>1, <1>3 DEF Learns
    <3>2. vroot' \in Nat \ {0} /\ vroot' <= Len(input.learn[file].children) + 1
      BY <1>4, <1>5, <2>1
    <3>3. QED BY <1>1, <1>3, <2>1, <3>1, <3>2 DEF PhaseInv
  <2>4. CASE ~p.complete
    <3>1. UNCHANGED <<wordTree, parcours, added>>
      BY <1>2, <1>10, <2>4
    <3>2. \A q : SeenWord(q, AtFile', AtRoot') => SeenWord(q, AtFile, AtRoot)
      BY <1>4, <1>7, <2>2, <2>4
    <3>3. Chosen' /\ TreeOK' /\ LearnInv'
      BY <1>1, <1>3, <1>4, <2>1, <2>2, <3>1, <3>2, LearntAsBefore DEF LearnInv
    <3>4. QED BY <2>3, <3>3 DEF LearningInv
  <2>5. CASE p.complete
    <3>1. IF option.useTree
          THEN wordTree' = addParcours(wordTree, p.mots) /\ parcours' = parcours
          ELSE /\ parcours' = parcours \cup
                      {q \in {p.mots} : ~\E o \in parcours : SameWord(q, o, option.checkLabels)}
               /\ wordTree' = wordTree
      BY <1>2, <1>10, <2>5
    <3>2. /\ Chosen' /\ TreeOK' /\ Words' = Words \cup {Canon(p.mots)}
          /\ option.useTree => (Adds(wordTree, p.mots) <=> Canon(p.mots) \notin Words)
      BY <1>1, <1>3, <1>6, <3>1, OneMoreWord
    <3>3. \A q : /\ SeenWord(q, AtFile, AtRoot)' <=> SeenWord(q, AtFile', AtRoot')
                 /\ SeenWord(q, Len(input.learn) + 1, 1)' <=> SeenWord(q, Len(input.learn) + 1, 1)
      BY <1>1 DEF SeenWord, W, Canon
    <3>4. SeenWord(Canon(p.mots), Len(input.learn) + 1, 1)
      BY <1>3, <1>7, <2>5, SeenLater
    <3>5. \A q \in Words' : SeenWord(q, Len(input.learn) + 1, 1)'
      BY <1>3, <3>2, <3>3, <3>4 DEF LearnInv
    <3>6. \A q : SeenWord(q, AtFile, AtRoot)' => q \in Words'
      <4>1. \A q : SeenWord(q, file, vroot) => q \in Words
        BY <1>3, <1>4, <1>8 DEF LearnInv
      <4>2. QED BY <1>7, <2>2, <3>2, <3>3, <4>1
    <3>7. ASSUME option.list
          PROVE  /\ Cardinality(Words') = learntTotal' + AddedHere'
                 /\ option.limit # NoLimit => Cardinality(Words') <= option.limit
                 /\ option.limit # NoLimit => learntTotal' < option.limit
      <4>1. option.useTree /\ Cardinality(Words) = learntTotal + added
            /\ IsFiniteSet(Words) /\ Cardinality(Words) \in Nat
        BY <1>3, <1>4, <3>7, WordsFinite DEF LearnInv, Learns
      <4>2. added' = added + (IF Canon(p.mots) \notin Words THEN 1 ELSE 0)
        BY <1>2, <1>10, <2>5, <3>2, <4>1
      <4>3. Cardinality(Words') = Cardinality(Words) + (IF Canon(p.mots) \notin Words THEN 1 ELSE 0)
        BY <3>2, <4>1, FS_AddElement, SMTT(30)
      <4>4. option.limit # NoLimit => /\ option.limit \in Nat /\ learntTotal < option.limit
                                      /\ Cardinality(Words) < option.limit
        BY <1>1, <1>3, <1>8, <3>7, <4>1, ChosenFacts DEF Full, LearnInv
      <4>5. QED BY <1>1, <1>3, <2>2, <4>1, <4>2, <4>3, <4>4
    <3>8. LearnInv'
      <4>1. Learns' => Full' \/ \A q : SeenWord(q, AtFile, AtRoot)' => q \in Words'
        BY <3>6
      <4>2. /\ option'.list => Cardinality(Words') = learntTotal' + AddedHere'
            /\ option'.list /\ option'.limit # NoLimit' => Cardinality(Words') <= option'.limit
            /\ phase' = "learn" /\ option'.list /\ option'.limit # NoLimit'
                  => learntTotal' < option'.limit
        BY <1>1, <3>7 DEF NoLimit
      <4>3. QED BY <3>5, <4>1, <4>2 DEF LearnInv
    <3>9. QED BY <2>3, <3>2, <3>8 DEF LearningInv
  <2>6. QED BY <1>6, <2>4, <2>5
<1>11. QED BY <1>6, <1>9, <1>10

\* Scanning leaves the words alone.
LEMMA ScanLeavesWords ==
    ASSUME LearningInv, UNCHANGED <<input, option, wordTree, parcours, added, learntTotal>>,
           phase \in {"scanning", "scan", "walk", "end"},
           phase' \in {"scanning", "scan", "walk", "end"}
    PROVE  Chosen' /\ TreeOK' /\ LearnInv' /\ Words' = Words
<1>1. AtFile = Len(input.learn) + 1 /\ AtRoot = 1 /\ AddedHere = 0
  BY DEF AtFile, AtRoot, AddedHere
<1>2. AtFile' = Len(input.learn) + 1 /\ AtRoot' = 1 /\ AddedHere' = 0
  BY DEF AtFile, AtRoot, AddedHere
<1>3. QED BY <1>1, <1>2, LearntAsBefore DEF LearningInv

LEMMA ScanningKeeps ==
    ASSUME LearningInv,
           LoadTest \/ ScanRoot \/ Etape \/ ReturnRec \/ CountLeaves \/ CountWords \/ CloseTest \/ EndScan
    PROVE  LearningInv' /\ Words' = Words
<1>1. /\ UNCHANGED <<input, option, wordTree, parcours, added, learntTotal, reconstructed>>
      /\ phase \in {"scanning", "scan", "walk"} /\ phase' \in {"scanning", "scan", "walk", "end"}
  BY DEF LoadTest, ScanRoot, Etape, ReturnRec, CountLeaves, CountWords, CloseTest, EndScan, learnVars
<1>2. Chosen' /\ TreeOK' /\ LearnInv' /\ Words' = Words
  BY <1>1, ScanLeavesWords
<1>3. gr = input.scan[file] /\ file \in Nat \ {0} /\ vroot \in Nat \ {0}
  BY <1>1 DEF gr, LearningInv, PhaseInv
<1>4. ASSUME file <= Len(input.scan), input.scan[file] # Unreadable
      PROVE  Len(input.scan[file].children) \in Nat
  BY <1>3, <1>4, ChosenFacts, GraphFacts DEF LearningInv
<1>5. PhaseInv'
  <2>1. CASE LoadTest
    BY <1>1, <1>3, <1>4, <2>1 DEF LoadTest, LearningInv, PhaseInv, NextLine
  <2>2. CASE ScanRoot
    BY <1>1, <1>3, <1>4, <2>2 DEF ScanRoot, LearningInv, PhaseInv
  <2>3. CASE Etape
    BY <1>1, <2>3 DEF Etape, LearningInv, PhaseInv
  <2>4. CASE ReturnRec
    BY <1>1, <2>4 DEF ReturnRec, LearningInv, PhaseInv
  <2>5. CASE CountLeaves
    BY <1>1, <1>3, <1>4, <2>5 DEF CountLeaves, LearningInv, PhaseInv
  <2>6. CASE CountWords
    BY <1>1, <1>3, <1>4, <2>6 DEF CountWords, LearningInv, PhaseInv
  <2>7. CASE CloseTest
    BY <1>1, <1>3, <2>7 DEF CloseTest, LearningInv, PhaseInv
  <2>8. CASE EndScan
    BY <1>1, <1>3, <2>8 DEF EndScan, LearningInv, PhaseInv
  <2>9. QED BY <2>1, <2>2, <2>3, <2>4, <2>5, <2>6, <2>7, <2>8
<1>6. QED BY <1>2, <1>5 DEF LearningInv

LEMMA LearningNext ==
    ASSUME LearningInv, [GTSINext]_gtsiVars
    PROVE  LearningInv'
<1>1. CASE UNCHANGED gtsiVars \/ Done
  <2>1. UNCHANGED <<input, option, phase, file, vroot, wordTree, parcours, added, learntTotal,
                    reconstructed, answers>>
    BY <1>1 DEF gtsiVars, Done
  <2>2. AtFile' = AtFile /\ AtRoot' = AtRoot /\ AddedHere' = AddedHere
    BY <2>1 DEF AtFile, AtRoot, AddedHere
  <2>3. Chosen' /\ TreeOK' /\ LearnInv'
    <3>1. phase' = "learn" /\ option.list /\ option.limit # NoLimit => learntTotal' < option.limit
      BY <2>1 DEF LearningInv, LearnInv
    <3>2. option.list => learntTotal' + AddedHere' = learntTotal + AddedHere
      BY <2>1, <2>2
    <3>3. QED BY <2>1, <2>2, <3>1, <3>2, LearntAsBefore DEF LearningInv
  <2>4. PhaseInv'
    BY <2>1 DEF LearningInv, PhaseInv, Learns
  <2>5. QED BY <2>3, <2>4 DEF LearningInv
<1>2. CASE LoadTest \/ ScanRoot \/ Etape \/ ReturnRec \/ CountLeaves \/ CountWords \/ CloseTest \/ EndScan
  BY <1>2, ScanningKeeps
<1>3. QED BY <1>1, <1>2, LoadGraphKeeps, AddRootKeeps, CloseGraphKeeps, EndLearningKeeps DEF GTSINext

LEMMA WordsLearnt ==
    ASSUME LearningInv
    PROVE  /\ LearntIsEverySite /\ LimitIsKept
           /\ Words \subseteq WordsOfSites
           /\ IsFiniteSet(Words) /\ Cardinality(Words) \in Nat
<1>1. Chosen /\ TreeOK /\ LearnInv /\ PhaseInv
  BY DEF LearningInv
<1>2. IsFiniteSet(Words) /\ Cardinality(Words) \in Nat
  BY <1>1, WordsFinite
<1>3. Words \subseteq WordsOfSites /\ IsFiniteSet(WordsOfSites)
  BY <1>1, WordsOfSitesIs DEF LearnInv
<1>4. ASSUME phase \in {"scanning", "scan", "walk", "end"}, Learns, ~Full
      PROVE  Words = WordsOfSites
  <2>1. AtFile = Len(input.learn) + 1 /\ AtRoot = 1
    BY <1>4 DEF AtFile, AtRoot
  <2>2. \A q \in WordsOfSites : q \in Words
    BY <1>1, <1>4, <2>1, WordsOfSitesIs DEF LearnInv
  <2>3. QED BY <1>3, <2>2
<1>5. LearntIsEverySite
  BY <1>4 DEF LearntIsEverySite, Learns, Full
<1>6. option.list => Cardinality(Words) = learntTotal + AddedHere
  BY <1>1 DEF LearnInv
<1>7. ASSUME option.list, option.useTree, option.limit # NoLimit, phase = "scanning"
      PROVE  learntTotal = Min({option.limit, Cardinality(WordsOfSites)})
  <2> DEFINE a == Cardinality(Words)
             b == Cardinality(WordsOfSites)
             c == option.limit
  <2>1. a \in Nat /\ b \in Nat /\ c \in Nat /\ a <= b
    BY <1>1, <1>2, <1>3, <1>7, FS_Subset, FS_CardinalityType, ChosenFacts
  <2>2. learntTotal = a /\ a <= c
    BY <1>1, <1>6, <1>7 DEF AddedHere, LearnInv, PhaseInv
  <2>3. a >= c \/ a = b
    BY <1>4, <1>7 DEF Full, Learns
  <2> HIDE DEF a, b, c
  <2>4. a \in {c, b} /\ \A y \in {c, b} : a <= y
    BY <2>1, <2>2, <2>3
  <2>5. \A x \in {c, b} : (\A y \in {c, b} : x <= y) => x = a
    BY <2>1, <2>4
  <2>6. Min({c, b}) = a
    BY <2>4, <2>5 DEF Min
  <2>7. QED BY <2>2, <2>6 DEF b, c
<1>8. LimitIsKept
  BY <1>6, <1>7 DEF LimitIsKept, AddedHere
<1>9. QED BY <1>2, <1>3, <1>5, <1>8

-----------------------------------------------------------------------------
(***************************************************************************)
(* Scanning.  Each call of the search stands where the walk of the word of *)
(* its node would stand, and finds that walk's numbers in its part of the  *)
(* array that all calls share.                                             *)
(***************************************************************************)
Tested == input.scan[file]
WalkTo(v, x) == WalkOf(Tested, v, WordTo(wordTree)[x], option.checkLabels)
At(x) == WalkTo(vroot, x)

FrameRecords == [node : 1..Len(wordTree), r : NodesOf(Tested), max : Nat,
                 numerotes : SUBSET NodesOf(Tested), it : Nat \ {0}]

Stands(f) ==
    /\ At(f.node).ok /\ At(f.node).sc = f.r
    /\ f.max <= W /\ Len(At(f.node).numeros) = f.max
    /\ \A j \in 1..f.max : At(f.node).numeros[j] = numeros[j]
    /\ f.numerotes = Range(At(f.node).numeros)

StackInv ==
    /\ frames \in Seq(FrameRecords)
    /\ \A d \in 1..Len(frames) : Stands(frames[d])
    /\ \A d \in 1..Len(frames) : \A e \in d..Len(frames) : frames[d].max <= frames[e].max

\* y is x or one of its ancestors.
Above(y, x) == /\ Len(WordTo(wordTree)[y]) <= Len(WordTo(wordTree)[x])
               /\ WordTo(wordTree)[y] = SubSeq(WordTo(wordTree)[x], 1, Len(WordTo(wordTree)[y]))

\* The search has still to go to x.
ToVisit(x) == \E d \in 1..Len(frames) :
                 \E c \in 1..Len(wordTree[frames[d].node].fils) :
                    c >= frames[d].it /\ Above(wordTree[frames[d].node].fils[c], x)

LEMMA TestedFacts ==
    ASSUME LearningInv
    PROVE  /\ phase \in {"scan", "walk"} =>
                 /\ IsGraph(Tested) /\ gr = Tested /\ file \in 1..Len(input.scan)
                 /\ NodesOf(Tested) = 1..Len(Tested.children) /\ Len(Tested.children) \in Nat
                 /\ vroot \in 1..(Len(Tested.children) + 1)
           /\ phase = "walk" => vroot \in NodesOf(Tested) /\ option.useTree
           /\ TreeShape(wordTree) /\ LinksDown(wordTree)
<1>1. Chosen /\ PhaseInv /\ TreeShape(wordTree) /\ LinksDown(wordTree)
  BY DEF LearningInv, TreeOK, TreeShape
<1>2. ASSUME phase \in {"scan", "walk"}
      PROVE  /\ IsGraph(Tested) /\ gr = Tested /\ file \in 1..Len(input.scan)
             /\ NodesOf(Tested) = 1..Len(Tested.children) /\ Len(Tested.children) \in Nat
             /\ vroot \in 1..(Len(Tested.children) + 1)
  <2>1. file \in 1..Len(input.scan) /\ Tested # Unreadable /\ vroot \in Nat \ {0}
        /\ vroot <= Len(Tested.children) + 1
    BY <1>1, <1>2, ChosenFacts DEF PhaseInv, Tested
  <2>2. IsGraph(Tested)
    BY <1>1, <2>1, ChosenFacts DEF Tested
  <2>3. NodesOf(Tested) = 1..Len(Tested.children) /\ Len(Tested.children) \in Nat
    BY <2>2, GraphFacts
  <2>4. gr = Tested
    BY <1>2 DEF gr, Tested
  <2>5. QED BY <2>1, <2>2, <2>3, <2>4
<1>3. ASSUME phase = "walk" PROVE vroot \in NodesOf(Tested) /\ option.useTree
  <2>1. vroot \in Nat \ {0} /\ vroot <= Len(Tested.children) /\ option.useTree
    BY <1>1, <1>3 DEF PhaseInv, Tested
  <2>2. NodesOf(Tested) = 1..Len(Tested.children) /\ Len(Tested.children) \in Nat
    BY <1>2, <1>3
  <2>3. QED BY <2>1, <2>2
<1>4. QED BY <1>1, <1>2, <1>3

LEMMA WalkToFacts ==
    ASSUME LearningInv, phase = "walk"
    PROVE  /\ \A x \in 1..Len(wordTree) : At(x) \in WalkStates(Tested)
           /\ At(1) = StartFrom(vroot)
           /\ \A x \in 1..Len(wordTree) : \A c \in 1..Len(wordTree[x].fils) :
                 LET y == wordTree[x].fils[c]
                 IN  /\ y \in 2..Len(wordTree) /\ wordTree[y].mot \in WordLetters
                     /\ At(y) = walkLetter(Tested, option.checkLabels, At(x), wordTree[y].mot)
<1>1. /\ IsGraph(Tested) /\ vroot \in NodesOf(Tested) /\ TreeShape(wordTree)
  BY TestedFacts
<1>2. /\ \A x \in 1..Len(wordTree) : WordTo(wordTree)[x] \in Seq(WordLetters)
      /\ WordTo(wordTree)[1] = <<>>
  BY <1>1, WordFacts
<1>3. \A x \in 1..Len(wordTree) : At(x) \in WalkStates(Tested)
  BY <1>1, <1>2, WalkOfFacts DEF At, WalkTo
<1>4. At(1) = StartFrom(vroot)
  <2>1. <<>> \in Seq(WordLetters)
    OBVIOUS
  <2>2. WalkOf(Tested, vroot, <<>>, option.checkLabels) = StartFrom(vroot)
    BY <1>1, <2>1, WalkOfFacts
  <2>3. QED BY <1>2, <2>2 DEF At, WalkTo
<1>5. ASSUME NEW x \in 1..Len(wordTree), NEW c \in 1..Len(wordTree[x].fils),
             NEW y, y = wordTree[x].fils[c]
      PROVE  /\ y \in 2..Len(wordTree) /\ wordTree[y].mot \in WordLetters
             /\ At(y) = walkLetter(Tested, option.checkLabels, At(x), wordTree[y].mot)
  <2>1. y \in 2..Len(wordTree) /\ WordTo(wordTree)[y] = Append(WordTo(wordTree)[x], wordTree[y].mot)
    BY <1>1, <1>5, WordFacts
  <2>2. wordTree[y].mot \in WordLetters
    BY <1>1, <2>1, WordFacts
  <2> DEFINE p == WordTo(wordTree)[x]
             m == wordTree[y].mot
  <2>3. p \in Seq(WordLetters)
    BY <1>2
  <2> HIDE DEF p, m
  <2>4. WalkOf(Tested, vroot, Append(p, m), option.checkLabels)
          = walkLetter(Tested, option.checkLabels, WalkOf(Tested, vroot, p, option.checkLabels), m)
    BY <1>1, <2>2, <2>3, WalkMore DEF m
  <2>5. At(y) = WalkOf(Tested, vroot, Append(p, m), option.checkLabels)
    BY <2>1 DEF At, WalkTo, p, m
  <2>6. At(x) = WalkOf(Tested, vroot, p, option.checkLabels)
    BY DEF At, WalkTo, p
  <2>7. QED BY <2>1, <2>2, <2>4, <2>5, <2>6 DEF m
<1>6. QED BY <1>3, <1>4, <1>5

LEMMA NextFacts ==
    ASSUME LearningInv, phase = "walk", StackInv, frames # <<>>,
           top.it <= Len(wordTree[top.node].fils)
    PROVE  /\ Len(frames) \in Nat \ {0} /\ top \in FrameRecords /\ Stands(top)
           /\ next \in 2..Len(wordTree) /\ next \in 1..Len(wordTree) /\ mot \in WordLetters
           /\ top.it \in 1..Len(wordTree[top.node].fils)
           /\ At(next) = walkLetter(Tested, option.checkLabels, At(top.node), mot)
           /\ mot.type = "M1" => top.max = 0
           /\ mot.type = "new" => mot.i = top.max + 1
           /\ mot.type \in {"R", "old"} => mot.i <= top.max
           /\ Numbering => top.max + 1 <= W
<1>1. Len(frames) \in Nat \ {0} /\ top \in FrameRecords /\ Stands(top)
  BY DEF StackInv, top
<1>2. top.node \in 1..Len(wordTree) /\ top.it \in Nat \ {0} /\ TreeShape(wordTree) /\ LinksDown(wordTree)
  BY <1>1, TestedFacts DEF FrameRecords
<1>3. Len(wordTree[top.node].fils) \in Nat
  BY <1>2, WordNodeFacts
<1>4. top.it \in 1..Len(wordTree[top.node].fils)
  BY <1>2, <1>3
<1>5. /\ next \in 2..Len(wordTree) /\ mot \in WordLetters
      /\ At(next) = walkLetter(Tested, option.checkLabels, At(top.node), mot)
  BY <1>2, <1>4, WalkToFacts DEF next, mot
<1>6. Len(wordTree) \in Nat /\ next \in 1..Len(wordTree)
  BY <1>2, <1>5, WordNodeFacts
<1> DEFINE p == WordTo(wordTree)[top.node]
           q == WordTo(wordTree)[next]
<1>7. /\ p \in Seq(WordLetters) /\ WellFormed(p) /\ WellFormed(q) /\ NumbersIn(q, Len(q)) <= W
      /\ q = Append(p, mot)
  <2>1. \A x \in 1..Len(wordTree) : \A c \in 1..Len(wordTree[x].fils) :
           WordTo(wordTree)[wordTree[x].fils[c]]
             = Append(WordTo(wordTree)[x], wordTree[wordTree[x].fils[c]].mot)
    BY <1>2, WordFacts
  <2>2. q = Append(p, mot)
    BY <1>2, <1>4, <2>1 DEF next, mot
  <2>3. \A x \in 1..Len(wordTree) :
           /\ WordTo(wordTree)[x] \in Seq(WordLetters) /\ WellFormed(WordTo(wordTree)[x])
           /\ NumbersIn(WordTo(wordTree)[x], Len(WordTo(wordTree)[x])) <= W
    BY <1>2, WordFacts
  <2>4. QED BY <1>2, <1>6, <2>2, <2>3
<1>8. NumbersIn(p, Len(p)) = top.max
  <2>1. At(top.node).ok /\ Len(At(top.node).numeros) = top.max
    BY <1>1 DEF Stands
  <2>2. IsGraph(Tested) /\ vroot \in NodesOf(Tested)
    BY TestedFacts
  <2>3. At(top.node) = WalkOf(Tested, vroot, p, option.checkLabels)
    BY DEF At, WalkTo
  <2> HIDE DEF p
  <2>4. QED BY <1>7, <2>1, <2>2, <2>3, WalkCount
<1> HIDE DEF p, q
<1>9. /\ Len(q) = Len(p) + 1 /\ Len(p) \in Nat /\ q[Len(p) + 1] = mot
      /\ \A h \in 1..Len(p) : q[h] = p[h]
  BY <1>5, <1>7
<1>10. NumbersIn(q, Len(p)) = top.max
  <2>1. \A k \in 0..Len(p) : NumbersIn(q, k) = NumbersIn(p, k)
    BY <1>9, NumbersSame
  <2>2. QED BY <1>8, <1>9, <2>1
<1>11. LetterFollows(q, Len(p) + 1)
  BY <1>7, <1>9 DEF WellFormed
<1>12. Len(p) + 1 - 1 = Len(p)
  BY <1>9
<1>13. /\ mot.type = "M1" <=> Len(p) = 0
       /\ mot.type = "new" => mot.i = top.max + 1
       /\ mot.type \in {"R", "old"} => mot.i <= top.max
  BY <1>9, <1>10, <1>11, <1>12 DEF LetterFollows
<1>14. mot.type = "M1" => top.max = 0
  BY <1>8, <1>13, NumbersFacts
<1>15. Numbering => top.max + 1 <= W
  <2>1. NumbersIn(q, Len(p) + 1) = NumbersIn(q, Len(p)) + IF Numbers(q[Len(p) + 1]) THEN 1 ELSE 0
    BY <1>9, NumbersFacts
  <2>2. Numbering => NumbersIn(q, Len(q)) = top.max + 1
    BY <1>9, <1>10, <2>1 DEF Numbering, Numbers
  <2>3. QED BY <1>7, <2>2
<1>16. QED BY <1>1, <1>4, <1>5, <1>6, <1>13, <1>14, <1>15

LEMMA EtapeFacts ==
    ASSUME LearningInv, phase = "walk", StackInv, frames # <<>>,
           top.it <= Len(wordTree[top.node].fils)
    PROVE  /\ etape # 0 <=> At(next).ok
           /\ etape # 0 => /\ etape \in NodesOf(Tested) /\ At(next).sc = etape
                           /\ Numbering => At(next).numeros = Append(At(top.node).numeros, etape)
                           /\ ~Numbering => At(next).numeros = At(top.node).numeros
<1> DEFINE w == At(top.node)
           u == At(next)
           labels == option.checkLabels
<1>1. /\ top \in FrameRecords /\ Stands(top) /\ mot \in WordLetters
      /\ u = walkLetter(Tested, labels, w, mot)
      /\ mot.type = "M1" => top.max = 0
      /\ mot.type = "new" => mot.i = top.max + 1
      /\ mot.type \in {"R", "old"} => mot.i <= top.max
  BY NextFacts
<1>2. top.node \in 1..Len(wordTree) /\ top.r \in NodesOf(Tested) /\ top.max \in Nat
  BY <1>1 DEF FrameRecords
<1>3. IsGraph(Tested) /\ gr = Tested /\ NodesOf(Tested) = 1..Len(Tested.children)
      /\ Len(Tested.children) \in Nat
  BY TestedFacts
<1>4. w \in WalkStates(Tested)
  BY <1>2, WalkToFacts
<1>5. w.ok /\ w.sc = top.r /\ Len(w.numeros) = top.max /\ top.numerotes = Range(w.numeros)
      /\ \A j \in 1..top.max : w.numeros[j] = numeros[j]
  BY <1>1 DEF Stands
<1>6. w.numeros \in Seq(NodesOf(Tested)) /\ w.sc \in NodesOf(Tested)
  BY <1>4 DEF WalkStates
<1>7. /\ mot.type \in {"M1", "R", "new", "old"}
      /\ mot.type \in {"R", "new", "old"} => mot.i \in Nat \ {0}
      /\ mot.type \in {"new", "old"} => mot.k \in Nat \ {0}
  BY <1>1, LetterFacts
<1>8. /\ children_nb(Tested, w.sc) \in Nat
      /\ \A k \in 1..children_nb(Tested, w.sc) : Tested.children[w.sc][k] \in NodesOf(Tested)
  BY <1>3, <1>6, GraphFacts
<1>9. 0 \notin NodesOf(Tested)
  BY <1>3
<1> HIDE DEF w, u, labels
<1>10. CASE mot.type = "M1"
  <2> DEFINE first == <<w.sc>>
  <2>0. first = <<w.sc>>
    OBVIOUS
  <2> HIDE DEF first
  <2>1. /\ u.ok => w.numeros = <<>> /\ Fits(Tested, w.sc, mot, labels)
        /\ w.numeros = <<>> /\ Fits(Tested, w.sc, mot, labels) => u.ok
        /\ u.ok => u.sc = w.sc /\ u.numeros = first
    BY <1>1, <1>4, <1>5, <1>10, <2>0, WalkM1
  <2>2. etape = IF Fits(Tested, w.sc, mot, labels) THEN w.sc ELSE 0
    BY <1>3, <1>5, <1>10 DEF etape, labels
  <2>3. w.numeros = <<>>
    BY <1>1, <1>5, <1>6, <1>10, EmptySeq
  <2>4. first = Append(w.numeros, w.sc)
    BY <2>0, <2>3
  <2>5. QED BY <1>6, <1>9, <1>10, <2>1, <2>2, <2>3, <2>4 DEF Numbering, w, u
<1>11. CASE mot.type = "R"
  <2>1. /\ u.ok /\ u.numeros = w.numeros
        /\ u.sc = IF mot.i <= Len(w.numeros) THEN w.numeros[mot.i] ELSE w.sc
    BY <1>1, <1>4, <1>5, <1>11, WalkR
  <2>2. mot.i \in 1..top.max /\ top.max >= mot.i
    BY <1>1, <1>2, <1>7, <1>11
  <2>3. u.sc = w.numeros[mot.i] /\ u.sc \in NodesOf(Tested)
    BY <1>5, <1>6, <2>1, <2>2, ElementOfSeq
  <2>4. etape = numeros[mot.i]
    BY <1>11, <2>2 DEF etape
  <2>5. etape = u.sc
    BY <1>5, <2>2, <2>3, <2>4
  <2>6. QED BY <1>9, <1>11, <2>1, <2>3, <2>5 DEF Numbering, w, u
<1>12. CASE mot.type \in {"new", "old"}
  <2> DEFINE child == Tested.children[w.sc][mot.k]
  <2>1. etape = IF mot.k > children_nb(Tested, w.sc) THEN 0
                ELSE IF child \in Range(w.numeros) THEN IF mot.type = "old" THEN child ELSE 0
                ELSE IF top.max < mot.i /\ mot.type = "new" /\ Fits(Tested, child, mot, labels)
                THEN child ELSE 0
    <3>1. mot.type # "M1" /\ mot.type # "R"
      BY <1>12
    <3>2. etape = IF mot.k > children_nb(gr, top.r) THEN 0
                  ELSE LET f == gr.children[top.r][mot.k]
                       IN  IF f \in top.numerotes THEN IF mot.type = "old" THEN f ELSE 0
                           ELSE IF /\ top.max < mot.i /\ mot.type = "new"
                                   /\ Fits(gr, f, mot, option.checkLabels) THEN f ELSE 0
      BY <3>1 DEF etape
    <3>3. QED BY <1>3, <1>5, <3>2 DEF labels
  <2>2. ~(mot.k > children_nb(Tested, w.sc)) => child \in NodesOf(Tested)
    BY <1>7, <1>8, <1>12
  <2> DEFINE c == child
  <2>9. c = Tested.children[w.sc][mot.k] /\ c = child
    OBVIOUS
  <2> HIDE DEF c
  <2>3. CASE mot.type = "new"
    <3>0. u = walkLetter(Tested, labels, w, mot) /\ w.ok
      BY <1>1, <1>5
    <3> DEFINE more == Append(w.numeros, c)
               fit == Fits(Tested, c, mot, labels)
               new == c \notin Range(w.numeros)
    <3> HIDE DEF child
    <3>1. ASSUME u.ok
          PROVE  /\ ~(mot.k > children_nb(Tested, w.sc)) /\ new /\ fit /\ Len(w.numeros) < mot.i
                 /\ u.sc = c /\ u.numeros = more
      <4>0. c = Tested.children[w.sc][mot.k]
        BY <2>9
      <4>1. /\ ~(mot.k > children_nb(Tested, w.sc)) /\ c \notin Range(w.numeros)
            /\ Fits(Tested, c, mot, labels) /\ Len(w.numeros) < mot.i
        BY <1>4, <2>3, <4>0, <3>0, <3>1, WalkNewNeeds
      <4>2. u.sc = c /\ u.numeros = Append(w.numeros, c)
        BY <1>4, <2>3, <4>0, <3>0, <4>1, WalkNewTaken
      <4>3. QED BY <4>1, <4>2
    <3>3. ~(mot.k > children_nb(Tested, w.sc)) /\ new /\ fit /\ Len(w.numeros) < mot.i => u.ok
      BY <1>4, <2>3, <2>9, <3>0, WalkNew
    <3>2. top.max < mot.i /\ Len(w.numeros) < mot.i
      BY <1>1, <1>2, <1>5, <2>3
    <3> HIDE DEF child
    <3>5. QED BY <1>9, <2>1, <2>2, <2>3, <2>9, <3>1, <3>2, <3>3 DEF Numbering, w, u
  <2>4. CASE mot.type = "old"
    <3>1. /\ u.ok => ~(mot.k > children_nb(Tested, w.sc)) /\ c \in Range(w.numeros)
          /\ ~(mot.k > children_nb(Tested, w.sc)) /\ c \in Range(w.numeros) => u.ok
          /\ u.ok => u.sc = c
          /\ u.numeros = w.numeros
      BY <1>1, <1>4, <1>5, <2>4, <2>9, WalkOld
    <3> HIDE DEF child
    <3>2. QED BY <1>9, <2>1, <2>2, <2>4, <2>9, <3>1 DEF Numbering, w, u
  <2>5. QED BY <1>12, <2>3, <2>4
<1>13. QED BY <1>7, <1>10, <1>11, <1>12

LEMMA RecordAdvances ==
    ASSUME NEW A, NEW B, NEW C,
           NEW R, R = [node : A, r : B, max : Nat, numerotes : C, it : Nat \ {0}],
           NEW f \in R, NEW g, g = [f EXCEPT !.it = @ + 1]
    PROVE  /\ g \in R /\ g.node = f.node /\ g.r = f.r /\ g.max = f.max
           /\ g.numerotes = f.numerotes /\ g.it = f.it + 1
OBVIOUS

\* The call on top goes to the next fils; perhaps a call is put above it.
LEMMA TopAdvances ==
    ASSUME frames \in Seq(FrameRecords), frames # <<>>, NEW u,
           u = [frames EXCEPT ![Len(frames)].it = @ + 1]
    PROVE  /\ u \in Seq(FrameRecords) /\ Len(u) = Len(frames) /\ Len(frames) \in Nat \ {0}
           /\ \A d \in 1..Len(frames) :
                 /\ frames[d] \in FrameRecords
                 /\ u[d].node = frames[d].node /\ u[d].r = frames[d].r /\ u[d].max = frames[d].max
                 /\ u[d].numerotes = frames[d].numerotes
                 /\ d < Len(frames) => u[d].it = frames[d].it
                 /\ d = Len(frames) => u[d].it = frames[d].it + 1
<1>1. Len(frames) \in Nat \ {0} /\ DOMAIN frames = 1..Len(frames)
      /\ \A d \in 1..Len(frames) : frames[d] \in FrameRecords
  OBVIOUS
<1>2. /\ DOMAIN u = 1..Len(frames)
      /\ \A d \in 1..Len(frames) :
            u[d] = IF d = Len(frames) THEN [frames[d] EXCEPT !.it = @ + 1] ELSE frames[d]
  BY <1>1
<1>3. ASSUME NEW d \in 1..Len(frames)
      PROVE  /\ u[d] \in FrameRecords
             /\ u[d].node = frames[d].node /\ u[d].r = frames[d].r /\ u[d].max = frames[d].max
             /\ u[d].numerotes = frames[d].numerotes
             /\ d < Len(frames) => u[d].it = frames[d].it
             /\ d = Len(frames) => u[d].it = frames[d].it + 1
  <2>1. frames[d] \in FrameRecords
    BY <1>1
  <2>2. CASE d = Len(frames)
    <3> DEFINE f == frames[d]
               g == u[d]
    <3>1. g = [f EXCEPT !.it = @ + 1]
      BY <1>2, <2>2
    <3>2. FrameRecords = [node : 1..Len(wordTree), r : NodesOf(Tested), max : Nat,
                          numerotes : SUBSET NodesOf(Tested), it : Nat \ {0}]
      BY DEF FrameRecords
    <3>3. f \in FrameRecords
      BY <2>1
    <3> HIDE DEF f, g
    <3>4. /\ g \in FrameRecords /\ g.node = f.node /\ g.r = f.r /\ g.max = f.max
          /\ g.numerotes = f.numerotes /\ g.it = f.it + 1
      BY <3>1, <3>2, <3>3, RecordAdvances
    <3>5. QED BY <1>1, <2>2, <3>4 DEF f, g
  <2>3. CASE d # Len(frames)
    <3>1. u[d] = frames[d]
      BY <1>2, <2>3
    <3>2. QED BY <2>1, <2>3, <3>1
  <2>4. QED BY <2>2, <2>3
<1>4. u = [d \in 1..Len(frames) |-> u[d]]
  BY <1>1
<1>5. u \in [1..Len(frames) -> FrameRecords]
  BY <1>3, <1>4
<1>6. u \in Seq(FrameRecords)
  BY <1>1, <1>5, SeqDef
<1>7. Len(u) = Len(frames)
  BY <1>1, <1>2, <1>6
<1>8. QED BY <1>1, <1>3, <1>6, <1>7

\* The new call, after a step.
Called == Frame(next, etape, IF Numbering THEN top.max + 1 ELSE top.max,
                IF Numbering THEN top.numerotes \cup {etape} ELSE top.numerotes)

LEMMA CalledIs ==
    ASSUME LearningInv, phase = "walk", StackInv, frames # <<>>,
           top.it <= Len(wordTree[top.node].fils), etape # 0
    PROVE  Called \in FrameRecords
<1>1. top \in FrameRecords /\ next \in 1..Len(wordTree) /\ etape \in NodesOf(Tested)
  BY NextFacts, EtapeFacts
<1>2. top.max \in Nat /\ top.numerotes \subseteq NodesOf(Tested)
  BY <1>1 DEF FrameRecords
<1> DEFINE a == IF Numbering THEN top.max + 1 ELSE top.max
           b == IF Numbering THEN top.numerotes \cup {etape} ELSE top.numerotes
<1>3. a \in Nat /\ b \in SUBSET NodesOf(Tested)
  BY <1>1, <1>2
<1>4. Called = [node |-> next, r |-> etape, max |-> a, numerotes |-> b, it |-> 1]
  BY DEF Called, Frame
<1> HIDE DEF a, b
<1>5. [node |-> next, r |-> etape, max |-> a, numerotes |-> b, it |-> 1] \in FrameRecords
  BY <1>1, <1>3 DEF FrameRecords
<1>6. QED BY <1>4, <1>5

LEMMA EtapeIs ==
    ASSUME Etape
    PROVE  LET u == [frames EXCEPT ![Len(frames)].it = @ + 1]
           IN  /\ phase = "walk" /\ frames # <<>> /\ top.it <= Len(wordTree[top.node].fils)
               /\ UNCHANGED <<input, option, phase, file, vroot, wordTree, parcours, leaves, count, answers>>
               /\ etape = 0 => frames' = u /\ numeros' = numeros /\ reached' = reached
               /\ etape # 0 => /\ frames' = Append(u, Called) /\ reached' = reached \cup LeafOf(next)
                               /\ numeros' = IF Numbering THEN [numeros EXCEPT ![top.max + 1] = etape]
                                             ELSE numeros
<1> DEFINE u == [frames EXCEPT ![Len(frames)].it = @ + 1]
<1>1. /\ phase = "walk" /\ frames # <<>> /\ top.it <= Len(wordTree[top.node].fils)
      /\ UNCHANGED <<input, option, phase, file, vroot, wordTree, parcours, leaves, count, answers>>
  BY DEF Etape, learnVars
<1>2. etape = 0 => frames' = u /\ numeros' = numeros /\ reached' = reached
  BY DEF Etape
<1>3. ASSUME etape # 0, Numbering
      PROVE  /\ frames' = Append(u, Called) /\ reached' = reached \cup LeafOf(next)
             /\ numeros' = [numeros EXCEPT ![top.max + 1] = etape]
  <2>1. reached' = reached \cup LeafOf(next) /\ StepNumbering
    BY <1>3 DEF Etape
  <2>2. QED BY <1>3, <2>1 DEF StepNumbering, Called
<1>4. ASSUME etape # 0, ~Numbering
      PROVE  /\ frames' = Append(u, Called) /\ reached' = reached \cup LeafOf(next)
             /\ numeros' = numeros
  BY <1>4 DEF Etape, Called
<1>5. QED BY <1>1, <1>2, <1>3, <1>4

\* What Stands says of a call, whatever the time.
StandsWith(f, num) ==
    /\ At(f.node).ok /\ At(f.node).sc = f.r
    /\ f.max <= W /\ Len(At(f.node).numeros) = f.max
    /\ \A j \in 1..f.max : At(f.node).numeros[j] = num[j]
    /\ f.numerotes = Range(At(f.node).numeros)

LEMMA StackNext ==
    ASSUME UNCHANGED <<input, option, file, vroot, wordTree>>,
           frames' \in Seq(FrameRecords),
           \A d \in 1..Len(frames') : StandsWith(frames'[d], numeros'),
           \A d \in 1..Len(frames') : \A e \in d..Len(frames') : frames'[d].max <= frames'[e].max
    PROVE  StackInv'
<1>1. FrameRecords' = FrameRecords
  BY DEF FrameRecords, Tested
<1>2. \A x : At(x)' = At(x)
  BY DEF At, WalkTo, Tested
<1>3. W' = W
  BY DEF W
<1>4. ASSUME NEW f, StandsWith(f, numeros')
      PROVE  Stands(f)'
  <2>1. At(f.node)' = At(f.node)
    BY <1>2
  <2>2. QED BY <1>3, <1>4, <2>1 DEF Stands, StandsWith
<1>5. \A d \in 1..Len(frames') : Stands(frames[d])'
  BY <1>2, <1>3 DEF Stands, StandsWith
<1>6. QED BY <1>1, <1>5 DEF StackInv

LEMMA EtapeStack ==
    ASSUME LearningInv, StackInv, numeros \in [1..W -> Nat], Etape
    PROVE  StackInv' /\ numeros' \in [1..W -> Nat]
<1> DEFINE u == [frames EXCEPT ![Len(frames)].it = @ + 1]
           n == Len(frames)
<1>1. /\ phase = "walk" /\ frames # <<>> /\ top.it <= Len(wordTree[top.node].fils)
      /\ UNCHANGED <<input, option, phase, file, vroot, wordTree>>
      /\ etape = 0 => frames' = u /\ numeros' = numeros
      /\ etape # 0 => /\ frames' = Append(u, Called)
                      /\ numeros' = IF Numbering THEN [numeros EXCEPT ![top.max + 1] = etape]
                                    ELSE numeros
  BY EtapeIs
<1>2. /\ n \in Nat \ {0} /\ top \in FrameRecords /\ Stands(top)
      /\ next \in 1..Len(wordTree)
      /\ Numbering => top.max + 1 <= W
  BY <1>1, NextFacts
<1>3. frames \in Seq(FrameRecords)
  BY DEF StackInv
<1>4. /\ u \in Seq(FrameRecords) /\ Len(u) = n
      /\ \A d \in 1..n :
            /\ frames[d] \in FrameRecords
            /\ u[d].node = frames[d].node /\ u[d].r = frames[d].r /\ u[d].max = frames[d].max
            /\ u[d].numerotes = frames[d].numerotes
  BY <1>1, <1>3, TopAdvances, ZenonT(60)
<1> HIDE DEF u, n
<1>5. /\ \A d \in 1..n : StandsWith(frames[d], numeros)
      /\ \A d \in 1..n : \A e \in d..n : frames[d].max <= frames[e].max
  BY DEF StackInv, Stands, StandsWith, n
<1>6. ASSUME NEW num, NEW d \in 1..n, StandsWith(frames[d], num)
      PROVE  StandsWith(u[d], num)
  BY <1>4, <1>6 DEF StandsWith
<1>7. \A d \in 1..n : \A e \in d..n : u[d].max <= u[e].max
  BY <1>2, <1>4, <1>5
<1>8. CASE etape = 0
  <2>1. frames' = u /\ numeros' = numeros
    BY <1>1, <1>8
  <2>2. QED BY <1>1, <1>4, <1>5, <1>6, <1>7, <2>1, StackNext
<1>9. CASE etape # 0
  <2>1. frames' = Append(u, Called)
        /\ numeros' = IF Numbering THEN [numeros EXCEPT ![top.max + 1] = etape] ELSE numeros
    BY <1>1, <1>9
  <2>2. /\ At(next).ok /\ etape \in NodesOf(Tested) /\ At(next).sc = etape
        /\ Numbering => At(next).numeros = Append(At(top.node).numeros, etape)
        /\ ~Numbering => At(next).numeros = At(top.node).numeros
    BY <1>1, <1>9, EtapeFacts
  <2>3. NodesOf(Tested) \subseteq Nat
    BY <1>1, TestedFacts
  <2>4. top = frames[n] /\ n \in 1..n /\ top.node \in 1..Len(wordTree) /\ top.max \in Nat
        /\ top.numerotes \subseteq NodesOf(Tested)
    BY <1>2 DEF top, n, FrameRecords
  <2>5. /\ Called.node = next /\ Called.r = etape
        /\ Called.max = IF Numbering THEN top.max + 1 ELSE top.max
        /\ Called.numerotes = IF Numbering THEN top.numerotes \cup {etape} ELSE top.numerotes
        /\ Called.it = 1
    BY DEF Called, Frame
  <2>6. Called \in FrameRecords
    BY <1>1, <1>9, CalledIs
  <2> HIDE DEF Called
  <2>7. numeros' \in [1..W -> Nat]
    BY <2>1, <2>2, <2>3
  <2>8. ASSUME NEW d \in 1..n
        PROVE  StandsWith(u[d], numeros')
    <3>1. frames[d].max <= top.max /\ frames[d].max \in Nat
      <4>1. n \in d..n
        BY <1>2
      <4>2. frames[d].max <= frames[n].max
        BY <1>5, <4>1
      <4>3. frames[d].max \in Nat
        BY <1>4 DEF FrameRecords
      <4>4. QED BY <2>4, <4>2, <4>3
    <3>2. \A j \in 1..frames[d].max : numeros'[j] = numeros[j]
      BY <1>2, <2>1, <2>4, <3>1
    <3>3. StandsWith(frames[d], numeros')
      BY <1>5, <3>2 DEF StandsWith
    <3>4. QED BY <1>6, <3>3
  <2>9. StandsWith(Called, numeros')
    <3> DEFINE a == At(top.node).numeros
    <3>1. /\ Len(a) = top.max /\ \A j \in 1..top.max : a[j] = numeros[j]
          /\ top.max <= W /\ top.numerotes = Range(a)
      BY <1>2 DEF Stands
    <3>2. a \in Seq(NodesOf(Tested))
      BY <1>1, <2>4, WalkToFacts DEF WalkStates
    <3> HIDE DEF a
    <3>3. CASE Numbering
      <4> DEFINE b == Append(a, etape)
      <4>1. /\ Len(b) = top.max + 1 /\ b[top.max + 1] = etape /\ \A j \in 1..top.max : b[j] = a[j]
            /\ DOMAIN b = 1..(top.max + 1) /\ DOMAIN a = 1..top.max
        BY <2>4, <3>1, <3>2
      <4>2. Range(b) = Range(a) \cup {etape}
        BY <2>4, <4>1 DEF Range
      <4> HIDE DEF b
      <4>3. top.max + 1 \in 1..W
        BY <1>2, <2>4, <3>3, ChosenFacts DEF LearningInv
      <4>4. numeros'[top.max + 1] = etape /\ \A j \in 1..top.max : numeros'[j] = numeros[j]
        BY <2>1, <2>4, <3>3, <4>3
      <4>5. \A j \in 1..(top.max + 1) : b[j] = numeros'[j]
        BY <2>4, <3>1, <4>1, <4>4
      <4>6. At(next).numeros = b
        BY <2>2, <3>3 DEF a, b
      <4>7. QED BY <1>2, <2>2, <2>5, <3>1, <3>3, <4>1, <4>2, <4>5, <4>6 DEF StandsWith
    <3>4. CASE ~Numbering
      BY <2>1, <2>2, <2>5, <3>1, <3>4 DEF StandsWith, a
    <3>5. QED BY <3>3, <3>4
  <2>10. /\ frames' \in Seq(FrameRecords) /\ Len(frames') = n + 1
         /\ frames'[n + 1] = Called /\ \A d \in 1..n : frames'[d] = u[d]
    BY <1>2, <1>4, <2>1, <2>6
  <2>11. \A d \in 1..(n + 1) : StandsWith(frames'[d], numeros')
    BY <1>2, <2>8, <2>9, <2>10
  <2>12. ASSUME NEW d \in 1..(n + 1), NEW e \in d..(n + 1)
         PROVE  frames'[d].max <= frames'[e].max
    <3>1. \A i \in 1..n : u[i].max <= Called.max /\ u[i].max \in Nat
      <4>1. ASSUME NEW i \in 1..n PROVE u[i].max <= Called.max /\ u[i].max \in Nat
        <5>1. n \in i..n
          BY <1>2
        <5>2. frames[i].max <= frames[n].max
          BY <1>5, <5>1
        <5>3. frames[i].max \in Nat
          BY <1>4 DEF FrameRecords
        <5>4. u[i].max = frames[i].max
          BY <1>4
        <5>5. top.max <= Called.max
          BY <2>4, <2>5
        <5>6. Called.max \in Nat
          BY <2>4, <2>5
        <5>7. QED BY <2>4, <5>2, <5>3, <5>4, <5>5, <5>6
      <4>2. QED BY <4>1
    <3>2. Called.max \in Nat
      BY <2>4, <2>5
    <3>3. CASE e = n + 1
      <4>1. CASE d = n + 1
        BY <1>2, <2>10, <3>2, <3>3, <4>1
      <4>2. CASE d \in 1..n
        BY <2>10, <3>1, <3>3, <4>2
      <4>3. QED BY <1>2, <4>1, <4>2
    <3>4. CASE e # n + 1
      <4>1. d \in 1..n /\ e \in d..n /\ e \in 1..n
        BY <1>2, <3>4
      <4>2. QED BY <1>7, <2>10, <4>1
    <3>5. QED BY <3>3, <3>4
  <2>13. QED BY <1>1, <2>7, <2>10, <2>11, <2>12, StackNext
<1>10. QED BY <1>8, <1>9

ReachedInv ==
    /\ \A x \in reached : x \in LeavesOf(wordTree) /\ At(x).ok
    /\ \A x \in LeavesOf(wordTree) : At(x).ok => x \in reached \/ ToVisit(x)

LEMMA AboveFacts ==
    ASSUME LearningInv, NEW x \in 1..Len(wordTree)
    PROVE  /\ Above(1, x)
           /\ \A y \in 1..Len(wordTree) : Above(y, x) =>
                 \/ x = y
                 \/ \E c \in 1..Len(wordTree[y].fils) : Above(wordTree[y].fils[c], x)
           /\ IsGraph(Tested) /\ vroot \in NodesOf(Tested) /\ At(x).ok =>
                 \A y \in 1..Len(wordTree) : Above(y, x) => At(y).ok
<1> DEFINE w(y) == WordTo(wordTree)[y]
<1>1. TreeShape(wordTree)
  BY TestedFacts
<1>2. /\ \A y \in 1..Len(wordTree) : w(y) \in Seq(WordLetters) /\ Len(w(y)) \in Nat
      /\ w(1) = <<>>
  BY <1>1, WordFacts
<1>3. \A y : Above(y, x) <=> Len(w(y)) <= Len(w(x)) /\ w(y) = SubSeq(w(x), 1, Len(w(y)))
  BY DEF Above
<1>4. \A y, z \in 1..Len(wordTree) : w(y) = w(z) => y = z
  <2>1. \A y, z \in 1..Len(wordTree) : w(y) = w(z) => Canon(w(y)) = Canon(w(z))
    OBVIOUS
  <2>2. QED BY <1>1, <2>1, WordsDistinct
<1>5. \A y \in 1..Len(wordTree) : \A k \in Nat :
         w(y) = SubSeq(w(x), 1, k) /\ k < Len(w(x)) =>
            \E c \in 1..Len(wordTree[y].fils) : w(wordTree[y].fils[c]) = SubSeq(w(x), 1, k + 1)
  BY <1>1, WordsGoOn
<1>6. \A y : At(y) = WalkOf(Tested, vroot, w(y), option.checkLabels)
  BY DEF At, WalkTo
<1> HIDE DEF w
<1>7. Above(1, x)
  <2>1. Len(w(1)) = 0 /\ SubSeq(w(x), 1, 0) = <<>>
    BY <1>2
  <2>2. QED BY <1>2, <1>3, <2>1
<1>8. ASSUME NEW y \in 1..Len(wordTree), Above(y, x), x # y
      PROVE  \E c \in 1..Len(wordTree[y].fils) : Above(wordTree[y].fils[c], x)
  <2> DEFINE k == Len(w(y))
  <2>1. k \in Nat /\ k <= Len(w(x)) /\ w(y) = SubSeq(w(x), 1, k)
    BY <1>2, <1>3, <1>8
  <2>2. k < Len(w(x))
    <3>1. SubSeq(w(x), 1, Len(w(x))) = w(x)
      BY <1>2, SubSeqFull, SMTT(30)
    <3>2. k # Len(w(x))
      BY <1>4, <1>8, <2>1, <3>1
    <3>3. QED BY <1>2, <2>1, <3>2
  <2> HIDE DEF k
  <2>3. PICK c \in 1..Len(wordTree[y].fils) : w(wordTree[y].fils[c]) = SubSeq(w(x), 1, k + 1)
    BY <1>5, <2>1, <2>2
  <2>4. Len(SubSeq(w(x), 1, k + 1)) = k + 1 /\ k + 1 <= Len(w(x))
    BY <1>2, <2>1, <2>2
  <2>5. QED BY <1>3, <2>3, <2>4
<1>9. ASSUME IsGraph(Tested), vroot \in NodesOf(Tested), At(x).ok,
             NEW y \in 1..Len(wordTree), Above(y, x)
      PROVE  At(y).ok
  <2>1. Len(w(y)) \in 0..Len(w(x)) /\ w(y) = SubSeq(w(x), 1, Len(w(y)))
    BY <1>2, <1>3, <1>9
  <2>2. \A k \in 0..Len(w(x)) : WalkOf(Tested, vroot, SubSeq(w(x), 1, k), option.checkLabels).ok
    BY <1>2, <1>6, <1>9, WalkPrefixes
  <2>3. QED BY <1>6, <2>1, <2>2
<1>10. QED BY <1>7, <1>8, <1>9

LEMMA ScanRootReaches ==
    ASSUME LearningInv, ScanRoot
    PROVE  StackInv' /\ ReachedInv' /\ numeros' \in [1..W -> Nat]
<1> DEFINE f == Frame(1, vroot, 0, {})
<1>1. /\ phase = "scan" /\ option.useTree /\ vroot <= Len(gr.children)
      /\ frames' = <<f>> /\ numeros' = zeros /\ reached' = LeafOf(1)
      /\ UNCHANGED <<input, option, file, vroot, wordTree>>
  BY DEF ScanRoot, learnVars
<1>2. /\ IsGraph(Tested) /\ vroot \in NodesOf(Tested) /\ TreeShape(wordTree) /\ LinksDown(wordTree)
  BY <1>1, TestedFacts
<1>3. /\ Len(wordTree) \in Nat /\ 1 \in 1..Len(wordTree) /\ DOMAIN wordTree = 1..Len(wordTree)
      /\ \A x \in 1..Len(wordTree) : Len(wordTree[x].fils) \in Nat
  BY <1>2, WordNodeFacts
<1>4. W \in Nat
  BY ChosenFacts DEF LearningInv
<1>5. At(1) = StartFrom(vroot)
  <2>1. WordTo(wordTree)[1] = <<>> /\ <<>> \in Seq(WordLetters)
    BY <1>2, WordFacts
  <2>2. WalkOf(Tested, vroot, <<>>, option.checkLabels) = StartFrom(vroot)
    BY <1>2, <2>1, WalkOfFacts
  <2>3. QED BY <2>1, <2>2 DEF At, WalkTo
<1>6. f.node = 1 /\ f.r = vroot /\ f.max = 0 /\ f.numerotes = {} /\ f.it = 1
  BY DEF Frame
<1>7. f \in FrameRecords
  BY <1>2, <1>3 DEF FrameRecords, Frame
<1> HIDE DEF f
<1>8. At(1).ok /\ At(1).sc = vroot /\ At(1).numeros = <<>>
  BY <1>5 DEF StartFrom
<1>9. StandsWith(f, numeros')
  <2>1. Range(<<>>) = {}
    BY DEF Range
  <2>2. QED BY <1>4, <1>6, <1>8, <2>1 DEF StandsWith
<1>10. frames' \in Seq(FrameRecords) /\ Len(frames') = 1 /\ frames'[1] = f
  BY <1>1, <1>7
<1>11. StackInv'
  <2>1. f.max <= f.max
    BY <1>6
  <2>2. QED BY <1>1, <1>9, <1>10, <2>1, StackNext
<1>12. numeros' \in [1..W -> Nat]
  BY <1>1 DEF zeros
<1>13. \A x : At(x)' = At(x)
  BY <1>1 DEF At, WalkTo, Tested
<1>14. \A x, y : Above(y, x)' = Above(y, x)
  BY <1>1 DEF Above
<1>15. LeafOf(1) = {x \in {1} : x \in LeavesOf(wordTree)}
  BY <1>3 DEF LeafOf, LeavesOf
<1>16. \A x \in reached' : x \in LeavesOf(wordTree)' /\ At(x)'.ok
  BY <1>1, <1>8, <1>13, <1>15
<1>17. ASSUME NEW x \in LeavesOf(wordTree)', x \notin reached'
       PROVE  ToVisit(x)'
  <2>1. x \in LeavesOf(wordTree) /\ x \in 1..Len(wordTree) /\ x # 1
    BY <1>1, <1>3, <1>15, <1>17 DEF LeavesOf
  <2>2. PICK c \in 1..Len(wordTree[1].fils) : Above(wordTree[1].fils[c], x)
    BY <1>3, <2>1, AboveFacts
  <2>3. c >= f.it /\ f.node = 1
    BY <1>3, <1>6
  <2>4. QED BY <1>1, <1>10, <1>14, <2>2, <2>3 DEF ToVisit
<1>18. ReachedInv'
  BY <1>16, <1>17 DEF ReachedInv
<1>19. QED BY <1>11, <1>12, <1>18

LEMMA EtapeReaches ==
    ASSUME LearningInv, StackInv, ReachedInv, Etape
    PROVE  ReachedInv'
<1> DEFINE u == [frames EXCEPT ![Len(frames)].it = @ + 1]
           n == Len(frames)
<1>1. /\ phase = "walk" /\ frames # <<>> /\ top.it <= Len(wordTree[top.node].fils)
      /\ UNCHANGED <<input, option, phase, file, vroot, wordTree>>
      /\ etape = 0 => frames' = u /\ reached' = reached
      /\ etape # 0 => frames' = Append(u, Called) /\ reached' = reached \cup LeafOf(next)
  BY EtapeIs
<1>2. /\ n \in Nat \ {0} /\ top \in FrameRecords /\ next \in 1..Len(wordTree)
      /\ top.it \in 1..Len(wordTree[top.node].fils) /\ top = frames[n] /\ n \in 1..n
      /\ top.node \in 1..Len(wordTree)
  BY <1>1, NextFacts DEF top, FrameRecords
<1>3. /\ u \in Seq(FrameRecords) /\ Len(u) = n
      /\ \A d \in 1..n : /\ u[d].node = frames[d].node
                         /\ d < n => u[d].it = frames[d].it
                         /\ d = n => u[d].it = frames[d].it + 1
                         /\ frames[d] \in FrameRecords
  BY <1>1, TopAdvances, ZenonT(40) DEF StackInv
<1> HIDE DEF u, n
<1>4. /\ IsGraph(Tested) /\ vroot \in NodesOf(Tested) /\ LinksDown(wordTree)
  BY <1>1, TestedFacts
<1>5. /\ Len(wordTree) \in Nat /\ DOMAIN wordTree = 1..Len(wordTree)
      /\ \A x \in 1..Len(wordTree) : Len(wordTree[x].fils) \in Nat
  BY <1>4, WordNodeFacts
<1>6. /\ \A x : At(x)' = At(x)
      /\ \A x, y : Above(y, x)' = Above(y, x)
      /\ LeavesOf(wordTree)' = LeavesOf(wordTree)
  BY <1>1 DEF At, WalkTo, Tested, Above
<1>7. LeafOf(next) = {x \in {next} : x \in LeavesOf(wordTree)}
  BY <1>2, <1>5 DEF LeafOf, LeavesOf
<1>8. etape # 0 <=> At(next).ok
  BY <1>1, EtapeFacts
<1>9. \A x \in reached' : x \in LeavesOf(wordTree)' /\ At(x)'.ok
  BY <1>1, <1>6, <1>7, <1>8 DEF ReachedInv
<1>10. /\ \A d \in 1..n : frames'[d] = u[d]
       /\ n <= Len(frames') /\ Len(frames') \in Nat
       /\ etape # 0 => Len(frames') = n + 1 /\ frames'[n + 1] = Called
  <2>1. CASE etape = 0
    BY <1>1, <1>2, <1>3, <2>1
  <2>2. CASE etape # 0
    <3>1. frames' = Append(u, Called)
      BY <1>1, <2>2
    <3>2. Called \in FrameRecords
      BY <1>1, <2>2, CalledIs
    <3> HIDE DEF Called
    <3>3. /\ Len(frames') = n + 1 /\ frames'[n + 1] = Called
          /\ \A d \in 1..n : frames'[d] = u[d]
      BY <1>2, <1>3, <3>1, <3>2
    <3>4. QED BY <1>2, <3>3
  <2>3. QED BY <2>1, <2>2
<1>11. Called.node = next /\ Called.it = 1
  BY DEF Called, Frame
<1> HIDE DEF Called
<1>12. ASSUME NEW x, NEW d \in 1..Len(frames'), NEW c \in 1..Len(wordTree[frames'[d].node].fils),
              c >= frames'[d].it, Above(wordTree[frames'[d].node].fils[c], x)
       PROVE  ToVisit(x)'
  BY <1>1, <1>6, <1>12 DEF ToVisit
<1>13. ASSUME NEW x \in LeavesOf(wordTree), At(x).ok, x \notin reached'
       PROVE  ToVisit(x)'
  <2>1. x \in 1..Len(wordTree) /\ x \notin reached
    BY <1>1, <1>5, <1>13 DEF LeavesOf
  <2>2. ToVisit(x)
    BY <1>13, <2>1 DEF ReachedInv
  <2>3. PICK d \in 1..n : \E c \in 1..Len(wordTree[frames[d].node].fils) :
               c >= frames[d].it /\ Above(wordTree[frames[d].node].fils[c], x)
    BY <2>2 DEF ToVisit, n
  <2>4. PICK c \in 1..Len(wordTree[frames[d].node].fils) :
               c >= frames[d].it /\ Above(wordTree[frames[d].node].fils[c], x)
    BY <2>3
  <2>5. CASE d = n /\ c = top.it
    <3>1. Above(next, x)
      BY <1>2, <2>4, <2>5 DEF next
    <3>2. At(next).ok
      BY <1>2, <1>4, <1>13, <2>1, <3>1, AboveFacts
    <3>3. etape # 0 /\ x # next
      BY <1>1, <1>7, <1>8, <1>13, <3>2
    <3>4. PICK e \in 1..Len(wordTree[next].fils) : Above(wordTree[next].fils[e], x)
      BY <1>2, <2>1, <3>1, <3>3, AboveFacts
    <3>5. /\ n + 1 \in 1..Len(frames') /\ frames'[n + 1].node = next /\ e >= frames'[n + 1].it
          /\ e \in 1..Len(wordTree[frames'[n + 1].node].fils)
          /\ Above(wordTree[frames'[n + 1].node].fils[e], x)
      BY <1>2, <1>5, <1>10, <1>11, <3>3, <3>4
    <3>6. QED BY <1>12, <3>5
  <2>6. CASE ~(d = n /\ c = top.it)
    <3>1. frames'[d] = u[d] /\ u[d].node = frames[d].node /\ d \in 1..Len(frames')
      BY <1>2, <1>3, <1>10
    <3>2. c >= u[d].it
      <4>1. c \in Nat /\ frames[d].it \in Nat
        BY <1>3, <1>5 DEF FrameRecords
      <4>2. QED BY <1>2, <1>3, <2>4, <2>6, <4>1
    <3>3. QED BY <1>12, <2>4, <3>1, <3>2
  <2>7. QED BY <2>5, <2>6
<1>14. \A x \in LeavesOf(wordTree)' : At(x)'.ok => x \in reached' \/ ToVisit(x)'
  BY <1>6, <1>13
<1>15. QED BY <1>9, <1>14 DEF ReachedInv

LEMMA ReturnRecKeeps ==
    ASSUME LearningInv, StackInv, ReachedInv, ReturnRec
    PROVE  StackInv' /\ ReachedInv'
<1> DEFINE n == Len(frames)
<1>1. /\ phase = "walk" /\ frames # <<>> /\ top.it > Len(wordTree[top.node].fils)
      /\ frames' = SubSeq(frames, 1, n - 1)
      /\ UNCHANGED <<input, option, file, vroot, wordTree, numeros, reached>>
  BY DEF ReturnRec, learnVars
<1>2. frames \in Seq(FrameRecords) /\ n \in Nat \ {0} /\ top = frames[n]
  BY <1>1 DEF StackInv, top
<1>3. /\ frames' \in Seq(FrameRecords) /\ Len(frames') = n - 1
      /\ \A d \in 1..(n - 1) : frames'[d] = frames[d]
  <2> DEFINE k == n - 1
             u == SubSeq(frames, 1, k)
  <2>1. k \in Nat /\ k \in 0..Len(frames) /\ n - 1 = k
    BY <1>2
  <2> HIDE DEF k
  <2>2. /\ u \in Seq(FrameRecords) /\ Len(u) = k
        /\ \A d \in 1..k : u[d] = frames[d]
    BY <1>2, <2>1
  <2>3. frames' = u
    BY <1>1, <2>1
  <2>4. QED BY <2>1, <2>2, <2>3
<1> HIDE DEF n
<1>4. /\ \A d \in 1..n : StandsWith(frames[d], numeros) /\ frames[d] \in FrameRecords
      /\ \A d \in 1..n : \A e \in d..n : frames[d].max <= frames[e].max
  BY <1>2 DEF StackInv, Stands, StandsWith, n
<1>5. StackInv'
  <2>1. \A d \in 1..(n - 1) : StandsWith(frames'[d], numeros')
    BY <1>1, <1>2, <1>3, <1>4
  <2>2. \A d \in 1..(n - 1) : \A e \in d..(n - 1) : frames'[d].max <= frames'[e].max
    BY <1>2, <1>3, <1>4
  <2>3. QED BY <1>1, <1>3, <2>1, <2>2, StackNext
<1>6. /\ \A x : At(x)' = At(x)
      /\ \A x, y : Above(y, x)' = Above(y, x)
      /\ LeavesOf(wordTree)' = LeavesOf(wordTree)
  BY <1>1 DEF At, WalkTo, Tested, Above
<1>7. ASSUME NEW x, ToVisit(x)
      PROVE  ToVisit(x)'
  <2>1. PICK d \in 1..n : \E c \in 1..Len(wordTree[frames[d].node].fils) :
               c >= frames[d].it /\ Above(wordTree[frames[d].node].fils[c], x)
    BY <1>7 DEF ToVisit, n
  <2>2. PICK c \in 1..Len(wordTree[frames[d].node].fils) :
               c >= frames[d].it /\ Above(wordTree[frames[d].node].fils[c], x)
    BY <2>1
  <2>3. d # n
    <3>1. LinksDown(wordTree) /\ frames[d].node \in 1..Len(wordTree) /\ frames[d].it \in Nat
      BY <1>4, TestedFacts DEF FrameRecords
    <3>2. Len(wordTree[frames[d].node].fils) \in Nat
      BY <3>1, WordNodeFacts
    <3>3. QED BY <1>1, <1>2, <2>2, <3>1, <3>2
  <2>4. d \in 1..(n - 1) /\ frames'[d] = frames[d] /\ d \in 1..Len(frames')
    BY <1>2, <1>3, <2>3
  <2>5. QED BY <1>1, <1>6, <2>2, <2>4 DEF ToVisit
<1>8. ReachedInv'
  BY <1>1, <1>6, <1>7 DEF ReachedInv
<1>9. QED BY <1>5, <1>8

-----------------------------------------------------------------------------
(***************************************************************************)
(* Counting.  After the walks from a root, leaves holds the leaves whose   *)
(* word can be walked from the roots so far, and count is their number.    *)
(***************************************************************************)
FoundBefore(v) == {x \in LeavesOf(wordTree) : \E h \in 1..(v - 1) : WalkTo(h, x).ok}

ScanInv ==
    /\ numeros \in [1..W -> Nat]
    /\ phase # "walk" => frames = <<>>
    /\ phase = "walk" => StackInv /\ ReachedInv
    /\ reached \subseteq LeavesOf(wordTree) /\ leaves \subseteq LeavesOf(wordTree)
    /\ phase \in {"learning", "learn", "abort"} => reached = {} /\ leaves = {}
    /\ count \in Nat
    /\ phase \in {"scan", "walk"} /\ option.useTree =>
          leaves = FoundBefore(vroot) /\ count = Cardinality(leaves)
    /\ phase = "scan" /\ ~option.useTree =>
          \/ vroot = 1 /\ count = 0
          \/ /\ vroot = Len(Tested.children) + 1
             /\ count = Cardinality({p \in parcours : parcourir(Tested, p, TRUE)})

\* A step that does not search, and counts nothing.
LEMMA ScanInvStays ==
    ASSUME LearningInv, ScanInv, UNCHANGED <<input, option, wordTree, parcours, frames, numeros, reached>>,
           UNCHANGED <<leaves, count, file, vroot>> \/ phase' \notin {"scan", "walk"},
           UNCHANGED <<leaves, count>>,
           phase' = phase \/ (phase # "walk" /\ phase' \notin {"walk", "scan"}),
           phase' \in {"learning", "learn", "abort"} => phase \in {"learning", "learn", "abort"}
    PROVE  ScanInv'
<1>1. CASE phase' \in {"scan", "walk"}
  <2>1. UNCHANGED <<file, vroot, phase>>
    BY <1>1
  <2>2. FoundBefore(vroot)' = FoundBefore(vroot)
    BY <2>1 DEF FoundBefore, WalkTo, Tested
  <2>3. StackInv' <=> StackInv
    BY <2>1 DEF StackInv, Stands, FrameRecords, At, WalkTo, Tested, W
  <2>4. ReachedInv' <=> ReachedInv
    BY <2>1 DEF ReachedInv, ToVisit, Above, At, WalkTo, Tested
  <2>5. QED BY <2>1, <2>2, <2>3, <2>4 DEF ScanInv, Tested, W
<1>2. CASE phase' \notin {"scan", "walk"}
  <2>1. phase # "walk"
    BY <1>2
  <2>2. QED BY <1>2, <2>1 DEF ScanInv, W
<1>3. QED BY <1>1, <1>2

LEMMA LeavesFinite ==
    ASSUME LearningInv
    PROVE  /\ IsFiniteSet(LeavesOf(wordTree)) /\ LeavesOf(wordTree) \subseteq 1..Len(wordTree)
           /\ \A S \in SUBSET LeavesOf(wordTree) : IsFiniteSet(S) /\ Cardinality(S) \in Nat
<1>1. Len(wordTree) \in Nat /\ DOMAIN wordTree = 1..Len(wordTree)
  BY TestedFacts, WordNodeFacts
<1>2. LeavesOf(wordTree) \subseteq 1..Len(wordTree)
  BY <1>1 DEF LeavesOf
<1>3. IsFiniteSet(1..Len(wordTree))
  BY <1>1, FS_Interval
<1>4. IsFiniteSet(LeavesOf(wordTree))
  BY <1>2, <1>3, FS_Subset
<1>5. QED BY <1>2, <1>4, FS_Subset, FS_CardinalityType

LEMMA CountLeavesKeeps ==
    ASSUME LearningInv, ScanInv, CountLeaves
    PROVE  ScanInv'
<1>1. /\ phase = "walk" /\ frames = <<>> /\ phase' = "scan" /\ vroot' = vroot + 1
      /\ count' = count + Cardinality(reached \ leaves) /\ leaves' = leaves \cup reached
      /\ UNCHANGED <<input, option, file, wordTree, parcours, frames, numeros, reached>>
  BY DEF CountLeaves, NewLeaves, learnVars
<1>2. /\ ReachedInv /\ leaves = FoundBefore(vroot) /\ count = Cardinality(leaves)
      /\ reached \subseteq LeavesOf(wordTree) /\ leaves \subseteq LeavesOf(wordTree) /\ option.useTree
  BY <1>1, TestedFacts DEF ScanInv
<1>3. vroot \in Nat \ {0}
  BY DEF LearningInv, PhaseInv
<1>4. \A x \in LeavesOf(wordTree) : x \in reached <=> WalkTo(vroot, x).ok
  <2>1. \A x : ~ToVisit(x)
    BY <1>1 DEF ToVisit
  <2>2. QED BY <1>2, <2>1 DEF ReachedInv, At
<1>5. \A x \in LeavesOf(wordTree) :
         (\E h \in 1..(vroot + 1 - 1) : WalkTo(h, x).ok)
            <=> ((\E h \in 1..(vroot - 1) : WalkTo(h, x).ok) \/ WalkTo(vroot, x).ok)
  <2>1. 1..(vroot + 1 - 1) = (1..(vroot - 1)) \cup {vroot}
    BY <1>3
  <2>2. QED BY <2>1
<1>6. leaves' = FoundBefore(vroot + 1)
  <2>1. \A x \in LeavesOf(wordTree) :
           x \in leaves <=> \E h \in 1..(vroot - 1) : WalkTo(h, x).ok
    BY <1>2 DEF FoundBefore
  <2>2. \A x \in LeavesOf(wordTree) :
           x \in leaves' <=> \E h \in 1..(vroot + 1 - 1) : WalkTo(h, x).ok
    BY <1>1, <1>4, <1>5, <2>1
  <2>3. leaves' \subseteq LeavesOf(wordTree)
    BY <1>1, <1>2
  <2> DEFINE v == vroot + 1
             Ok(x) == \E h \in 1..(v - 1) : WalkTo(h, x).ok
  <2>4. FoundBefore(v) = {x \in LeavesOf(wordTree) : Ok(x)}
    BY DEF FoundBefore
  <2>5. \A x \in LeavesOf(wordTree) : x \in leaves' <=> Ok(x)
    <3>1. vroot + 1 - 1 = v - 1
      BY <1>3
    <3> HIDE DEF v
    <3>2. QED BY <2>2, <3>1
  <2> HIDE DEF v, Ok
  <2>6. leaves' = FoundBefore(v)
    BY <2>3, <2>4, <2>5
  <2>7. QED BY <2>6 DEF v
<1>7. leaves' = FoundBefore(vroot)'
  <2>1. FoundBefore(vroot)' = FoundBefore(vroot + 1)
    BY <1>1 DEF FoundBefore, WalkTo, Tested
  <2>2. QED BY <1>6, <2>1
<1>8. count' = Cardinality(leaves') /\ count' \in Nat
  <2> DEFINE new == reached \ leaves
  <2>1. /\ IsFiniteSet(leaves) /\ IsFiniteSet(new) /\ leaves \cap new = {} /\ leaves' = leaves \cup new
        /\ Cardinality(leaves) \in Nat /\ Cardinality(new) \in Nat
    BY <1>1, <1>2, LeavesFinite
  <2> HIDE DEF new
  <2>2. Cardinality(leaves') = Cardinality(leaves) + Cardinality(new) - Cardinality(leaves \cap new)
    BY <2>1, FS_Union
  <2>3. Cardinality(leaves \cap new) = 0
    BY <2>1, FS_EmptySet
  <2>4. QED BY <1>1, <1>2, <2>1, <2>2, <2>3 DEF new
<1>9. reached' \subseteq LeavesOf(wordTree)' /\ leaves' \subseteq LeavesOf(wordTree)'
  BY <1>1, <1>2
<1>10. QED BY <1>1, <1>2, <1>7, <1>8, <1>9 DEF ScanInv, W

LEMMA ScanInit ==
    ASSUME GTSIInit
    PROVE  ScanInv
<1>1. zeros \in [1..W -> Nat]
  BY DEF zeros
<1>2. QED BY <1>1 DEF GTSIInit, ScanInv

LEMMA ScanNext ==
    ASSUME LearningInv, LearningInv', ScanInv, [GTSINext]_gtsiVars
    PROVE  ScanInv'
<1>1. CASE UNCHANGED gtsiVars \/ Done
  BY <1>1, ScanInvStays DEF gtsiVars, Done
<1>2. CASE LoadGraph
  <2>1. phase = "learning" /\ phase' \in {"learning", "learn"}
    BY <1>2 DEF LoadGraph
  <2>2. UNCHANGED <<input, option, wordTree, parcours, frames, numeros, reached, leaves, count>>
    BY <1>2 DEF LoadGraph, walkVars
  <2>3. QED BY <2>1, <2>2, ScanInvStays
<1>3. CASE AddRoot
  <2>1. phase = "learn" /\ phase' \in {"learn", "abort"}
    BY <1>3 DEF AddRoot
  <2>2. UNCHANGED <<input, option, frames, numeros, reached, leaves, count>>
    BY <1>3 DEF AddRoot, walkVars
  <2>3. QED BY <2>1, <2>2 DEF ScanInv, W
<1>4. CASE CloseGraph
  <2>1. phase = "learn" /\ phase' = "learning"
    BY <1>4 DEF CloseGraph
  <2>2. UNCHANGED <<input, option, wordTree, parcours, frames, numeros, reached, leaves, count>>
    BY <1>4 DEF CloseGraph, walkVars
  <2>3. QED BY <2>1, <2>2, ScanInvStays
<1>5. CASE EndLearning
  <2>1. phase = "learning" /\ phase' = "scanning"
    BY <1>5 DEF EndLearning
  <2>2. UNCHANGED <<input, option, wordTree, parcours, frames, numeros, reached, leaves, count>>
    BY <1>5 DEF EndLearning, walkVars, learnVars
  <2>3. QED BY <2>1, <2>2, ScanInvStays
<1>6. CASE LoadTest
  <2>1. phase = "scanning" /\ UNCHANGED <<input, option, wordTree, parcours, frames, numeros, reached>>
    BY <1>6 DEF LoadTest, learnVars
  <2>2. CASE gr = Unreadable
    <3>1. UNCHANGED <<phase, vroot, leaves, count>>
      BY <1>6, <2>2 DEF LoadTest
    <3>2. QED BY <2>1, <3>1, ScanInvStays
  <2>3. CASE gr # Unreadable
    <3>1. phase' = "scan" /\ vroot' = 1 /\ leaves' = {} /\ count' = 0
      BY <1>6, <2>3 DEF LoadTest
    <3>2. FoundBefore(vroot)' = {}
      BY <3>1 DEF FoundBefore
    <3>3. Cardinality(leaves') = 0
      BY <3>1, FS_EmptySet
    <3>4. QED BY <2>1, <3>1, <3>2, <3>3 DEF ScanInv, W
  <2>4. QED BY <2>2, <2>3
<1>7. CASE ScanRoot
  <2>1. phase = "scan" /\ option.useTree /\ phase' = "walk"
        /\ UNCHANGED <<input, option, file, vroot, wordTree, leaves, count>>
    BY <1>7 DEF ScanRoot, learnVars
  <2>2. StackInv' /\ ReachedInv' /\ numeros' \in [1..W -> Nat]
    BY <1>7, ScanRootReaches
  <2>3. FoundBefore(vroot)' = FoundBefore(vroot)
    BY <2>1 DEF FoundBefore, WalkTo, Tested
  <2>4. reached' \subseteq LeavesOf(wordTree)'
    BY <2>2 DEF ReachedInv
  <2>5. QED BY <2>1, <2>2, <2>3, <2>4 DEF ScanInv, W
<1>8. CASE Etape
  <2>1. phase = "walk" /\ UNCHANGED <<input, option, phase, file, vroot, wordTree, leaves, count>>
    BY <1>8, EtapeIs
  <2>2. StackInv' /\ ReachedInv' /\ numeros' \in [1..W -> Nat]
    BY <1>8, <2>1, EtapeStack, EtapeReaches DEF ScanInv
  <2>3. FoundBefore(vroot)' = FoundBefore(vroot)
    BY <2>1 DEF FoundBefore, WalkTo, Tested
  <2>4. reached' \subseteq LeavesOf(wordTree)'
    BY <2>2 DEF ReachedInv
  <2>5. QED BY <2>1, <2>2, <2>3, <2>4 DEF ScanInv, W
<1>9. CASE ReturnRec
  <2>1. phase = "walk"
        /\ UNCHANGED <<input, option, phase, file, vroot, wordTree, numeros, reached, leaves, count>>
    BY <1>9 DEF ReturnRec, learnVars
  <2>2. StackInv' /\ ReachedInv'
    BY <1>9, <2>1, ReturnRecKeeps DEF ScanInv
  <2>3. FoundBefore(vroot)' = FoundBefore(vroot)
    BY <2>1 DEF FoundBefore, WalkTo, Tested
  <2>4. QED BY <2>1, <2>2, <2>3 DEF ScanInv, W
<1>10. CASE CountLeaves
  BY <1>10, CountLeavesKeeps
<1>11. CASE CountWords
  <2>1. /\ phase = "scan" /\ ~option.useTree
        /\ count' = Cardinality({p \in parcours : parcourir(gr, p, TRUE)})
        /\ vroot' = Len(gr.children) + 1
        /\ UNCHANGED <<input, option, phase, file, wordTree, parcours, frames, numeros, reached, leaves>>
    BY <1>11 DEF CountWords, learnVars
  <2>2. gr = Tested
    BY <2>1, TestedFacts
  <2>3. count' \in Nat
    <3> DEFINE S == {p \in parcours : parcourir(gr, p, TRUE)}
    <3>1. IsFiniteSet(parcours) /\ S \subseteq parcours
      BY DEF LearningInv, TreeOK
    <3> HIDE DEF S
    <3>2. IsFiniteSet(S)
      BY <3>1, FS_Subset
    <3>3. QED BY <2>1, <3>2, FS_CardinalityType DEF S
  <2>4. Tested' = Tested
    BY <2>1 DEF Tested
  <2>5. QED BY <2>1, <2>2, <2>3, <2>4 DEF ScanInv, W
<1>12. CASE CloseTest
  <2>1. phase = "scan" /\ phase' = "scanning"
        /\ UNCHANGED <<input, option, wordTree, parcours, frames, numeros, reached, leaves, count>>
    BY <1>12 DEF CloseTest, learnVars, walkVars
  <2>2. QED BY <2>1, ScanInvStays
<1>13. CASE EndScan
  <2>1. phase = "scanning" /\ phase' = "end"
        /\ UNCHANGED <<input, option, wordTree, parcours, frames, numeros, reached, leaves, count>>
    BY <1>13 DEF EndScan, learnVars, walkVars
  <2>2. QED BY <2>1, ScanInvStays
<1>14. QED BY <1>1, <1>2, <1>3, <1>4, <1>5, <1>6, <1>7, <1>8, <1>9, <1>10, <1>11, <1>12, <1>13
        DEF GTSINext

-----------------------------------------------------------------------------
(***************************************************************************)
(* Each answer is the number of the words that can be walked.              *)
(***************************************************************************)
\* Without the tree the words are walked with their labels, whatever the option.
Labelled == option.useTree \/ option.checkLabels
CanBeWalked(g, w) == parcourir(g, w, option.checkLabels)
ReadBefore(f) == {i \in DOMAIN input.scan : i < f /\ input.scan[i] # Unreadable}

LEMMA WordsAreWords ==
    ASSUME LearningInv
    PROVE  \A q \in Words : q \in Seq(WordLetters) /\ q # <<>>
<1>1. ASSUME NEW q \in Words
      PROVE  q \in Seq(WordLetters) /\ q # <<>>
  <2>1. SeenWord(q, Len(input.learn) + 1, 1) /\ Chosen
    BY DEF LearningInv, LearnInv
  <2>2. PICK i \in 1..Len(input.learn) : \E v \in NodesOf(input.learn[i]) :
             input.learn[i] # Unreadable /\ q = Canon(parcoursLargeur(input.learn[i], v, W).mots)
    BY <2>1 DEF SeenWord
  <2>3. PICK v \in NodesOf(input.learn[i]) :
             input.learn[i] # Unreadable /\ q = Canon(parcoursLargeur(input.learn[i], v, W).mots)
    BY <2>2
  <2> DEFINE p == parcoursLargeur(input.learn[i], v, W).mots
  <2>4. WellFormed(p) /\ p # <<>>
    BY <2>1, <2>3, ChosenFacts, ParcoursFacts
  <2>5. q = Canon(p)
    BY <2>3
  <2> HIDE DEF p
  <2>6. QED BY <2>4, <2>5, CanonIs DEF WellFormed
<1>2. QED BY <1>1

LEMMA ParcourirIs ==
    ASSUME NEW g, IsGraph(g), NEW q \in Seq(WordLetters), q # <<>>, NEW labels
    PROVE  parcourir(g, q, labels) <=> \E v \in NodesOf(g) : WalkOf(g, v, q, labels).ok
<1>1. \A v \in NodesOf(g) : walk(g, v, q, labels) = WalkOf(g, v, q, labels)
  BY WalkOfFacts
<1>2. QED BY <1>1 DEF parcourir

LEMMA CountIsRight ==
    ASSUME LearningInv, ScanInv, phase = "scan", vroot > Len(gr.children), Labelled
    PROVE  count = Cardinality({w \in Words : CanBeWalked(Tested, w)})
<1>1. /\ IsGraph(Tested) /\ gr = Tested /\ NodesOf(Tested) = 1..Len(Tested.children)
      /\ Len(Tested.children) \in Nat /\ vroot \in 1..(Len(Tested.children) + 1)
      /\ TreeShape(wordTree) /\ LinksDown(wordTree)
  BY TestedFacts
<1>2. vroot = Len(Tested.children) + 1 /\ NodesOf(Tested) = 1..(vroot - 1)
  BY <1>1
<1>3. \A w \in Words : CanBeWalked(Tested, w)
         <=> \E h \in 1..(vroot - 1) : WalkOf(Tested, h, w, option.checkLabels).ok
  BY <1>1, <1>2, WordsAreWords, ParcourirIs DEF CanBeWalked
<1>4. CASE option.useTree
  <2>1. parcours = {} /\ Words = TreeWords(wordTree)
    BY <1>4, WordsAre DEF LearningInv, TreeOK
  <2>2. leaves = FoundBefore(vroot) /\ count = Cardinality(leaves)
    BY <1>4 DEF ScanInv
  <2> DEFINE T == {w \in Words : CanBeWalked(Tested, w)}
             f == [x \in leaves |-> Canon(WordTo(wordTree)[x])]
  <2>3. LeavesOf(wordTree) \subseteq 1..Len(wordTree) /\ IsFiniteSet(leaves)
        /\ leaves \subseteq LeavesOf(wordTree)
    BY LeavesFinite DEF ScanInv
  <2>4. \A x \in 1..Len(wordTree) : \A h \in 1..(vroot - 1) :
           WalkOf(Tested, h, Canon(WordTo(wordTree)[x]), option.checkLabels) = WalkTo(h, x)
    <3>1. \A x \in 1..Len(wordTree) : WordTo(wordTree)[x] \in Seq(WordLetters)
      BY <1>1, WordFacts
    <3>2. QED BY <1>1, <1>2, <3>1, CanonWalk DEF WalkTo
  <2>5. \A x \in LeavesOf(wordTree) : Canon(WordTo(wordTree)[x]) \in T <=> x \in leaves
    <3>1. \A x \in LeavesOf(wordTree) : Canon(WordTo(wordTree)[x]) \in Words
      BY <2>1 DEF TreeWords
    <3>2. QED BY <1>3, <2>2, <2>3, <2>4, <3>1 DEF FoundBefore
  <2>6. \A w \in T : \E x \in LeavesOf(wordTree) : w = Canon(WordTo(wordTree)[x])
    BY <2>1 DEF TreeWords
  <2>7. \A x, y \in leaves : Canon(WordTo(wordTree)[x]) = Canon(WordTo(wordTree)[y]) => x = y
    BY <1>1, <2>3, WordsDistinct
  <2> HIDE DEF T
  <2>8. f \in Bijection(leaves, T)
    <3>1. f \in [leaves -> T]
      BY <2>3, <2>5
    <3>2. \A x, y \in leaves : f[x] = f[y] => x = y
      BY <2>7
    <3>3. \A w \in T : \E x \in leaves : f[x] = w
      BY <2>5, <2>6
    <3> HIDE DEF f
    <3>4. f \in Surjection(leaves, T) /\ f \in Injection(leaves, T)
      BY <3>1, <3>2, <3>3 DEF Surjection, Injection, IsInjective
    <3>5. QED BY <3>4 DEF Bijection
  <2>9. Cardinality(T) = Cardinality(leaves)
    <3>1. ExistsBijection(leaves, T)
      BY <2>8 DEF ExistsBijection
    <3>2. QED BY <2>3, <3>1, FS_Bijection
  <2>10. QED BY <2>2, <2>9 DEF T
<1>5. CASE ~option.useTree
  <2>1. option.checkLabels /\ wordTree = <<Root>>
    BY <1>5 DEF LearningInv, TreeOK, Labelled
  <2>2. TreeWords(wordTree) = {}
    BY <2>1, RootShape, ChosenFacts DEF LearningInv
  <2>3. Words = parcours
    <3>1. Words = {Canon(p) : p \in parcours}
      BY <2>2, WordsAre
    <3>2. \A p \in parcours : Canon(p) = p
      BY <2>1, CanonIs DEF LearningInv, TreeOK, WellFormed
    <3>3. QED BY <3>1, <3>2
  <2>4. option.checkLabels = TRUE
    BY <2>1, ChosenFacts DEF LearningInv
  <2> DEFINE T == {w \in Words : CanBeWalked(Tested, w)}
  <2>5. T = {p \in parcours : parcourir(Tested, p, TRUE)}
    BY <2>3, <2>4 DEF CanBeWalked
  <2>6. CASE vroot = 1 /\ count = 0
    <3>1. T = {}
      BY <1>3, <2>6
    <3>2. QED BY <2>6, <3>1, FS_EmptySet
  <2>7. CASE count = Cardinality({p \in parcours : parcourir(Tested, p, TRUE)})
    BY <2>5, <2>7
  <2>8. QED BY <1>5, <2>6, <2>7 DEF ScanInv
<1>6. QED BY <1>4, <1>5

\* The answers are those of the readable graphs before this one.
LEMMA ReadableFacts ==
    ASSUME Chosen
    PROVE  /\ \A f : IsFiniteSet(ReadBefore(f)) /\ Cardinality(ReadBefore(f)) \in Nat
           /\ Cardinality(ReadBefore(1)) = 0
           /\ \A f \in 1..Len(input.scan) :
                 IF input.scan[f] = Unreadable THEN ReadBefore(f + 1) = ReadBefore(f)
                 ELSE /\ Cardinality(ReadBefore(f + 1)) = Cardinality(ReadBefore(f)) + 1
                      /\ Readable(input.scan)[Cardinality(ReadBefore(f)) + 1] = input.scan[f]
           /\ \A f \in Nat : \A k \in 1..Cardinality(ReadBefore(f)) :
                 k \in DOMAIN Readable(input.scan) /\ IsGraph(Readable(input.scan)[k])
<1> DEFINE I == {i \in DOMAIN input.scan : input.scan[i] # Unreadable}
           s == input.scan
           n == Len(input.scan)
<1>1. n \in Nat /\ DOMAIN s = 1..n /\ s \in Seq(Range(s))
      /\ \A i \in 1..n : s[i] # Unreadable => IsGraph(s[i])
  BY ChosenFacts
<1>2. I \subseteq 1..n /\ I \subseteq Nat
  BY <1>1
<1>3. IsFiniteSet(1..n)
  BY <1>1, FS_Interval
<1>4. \A i : i \in I <=> i \in 1..n /\ s[i] # Unreadable
  BY <1>1
<1>5. \A f : ReadBefore(f) = {i \in I : i < f}
  BY DEF ReadBefore
<1>6. Readable(s) = ElementsAt(s, I) /\ n = Len(s)
  BY DEF Readable
<1> HIDE DEF I, s, n
<1>7. /\ IsFiniteSet(I) /\ Cardinality(I) \in Nat
      /\ DOMAIN ElementsAt(s, I) = 1..Cardinality(I)
      /\ \A m \in 1..Cardinality(I) : ElementsAt(s, I)[m] = s[Nth(I, m)]
  BY <1>1, <1>2, <1>6, ElementsFacts
<1>8. ASSUME NEW f
      PROVE  /\ IsFiniteSet(ReadBefore(f)) /\ Cardinality(ReadBefore(f)) \in Nat
             /\ Cardinality(ReadBefore(f)) <= Cardinality(I)
  <2>1. ReadBefore(f) \subseteq I
    BY <1>5
  <2>2. QED BY <1>7, <2>1, FS_Subset, FS_CardinalityType
<1>9. Cardinality(ReadBefore(1)) = 0
  <2>1. ReadBefore(1) = {}
    BY <1>2, <1>4, <1>5
  <2>2. QED BY <2>1, FS_EmptySet
<1>10. ASSUME NEW f \in 1..n, s[f] = Unreadable
       PROVE  ReadBefore(f + 1) = ReadBefore(f)
  <2>1. f \notin I /\ f \in Nat
    BY <1>4, <1>10
  <2>2. \A i \in I : i < f + 1 <=> i < f
    BY <1>2, <2>1
  <2>3. {i \in I : i < f + 1} = {i \in I : i < f}
    BY <2>2
  <2>4. QED BY <1>5, <2>3
<1>11. ASSUME NEW f \in 1..n, s[f] # Unreadable
       PROVE  /\ Cardinality(ReadBefore(f + 1)) = Cardinality(ReadBefore(f)) + 1
              /\ Readable(s)[Cardinality(ReadBefore(f)) + 1] = s[f]
  <2>1. f \in I
    BY <1>4, <1>11
  <2>2. ReadBefore(f + 1) = ReadBefore(f) \cup {f} /\ f \notin ReadBefore(f)
    <3>1. \A i \in I : i < f + 1 <=> i < f \/ i = f
      BY <1>2
    <3>2. {i \in I : i < f + 1} = {i \in I : i < f} \cup {f}
      BY <2>1, <3>1
    <3>3. ~(f < f)
      OBVIOUS
    <3>4. f \notin {i \in I : i < f}
      BY <3>3
    <3>5. QED BY <1>5, <3>2, <3>4
  <2>3. Cardinality(ReadBefore(f + 1)) = Cardinality(ReadBefore(f)) + 1
    BY <1>8, <2>2, FS_AddElement
  <2>4. RankIn(I, f) = Cardinality(ReadBefore(f + 1))
    <3>1. {j \in I : j <= f} = ReadBefore(f + 1)
      <4>1. \A i \in I : i <= f <=> i < f + 1
        BY <1>2
      <4>2. {i \in I : i <= f} = {i \in I : i < f + 1}
        BY <4>1
      <4>3. QED BY <1>5, <4>2
    <3>2. QED BY <3>1 DEF RankIn
  <2>5. Nth(I, RankIn(I, f)) = f
    BY <1>2, <1>7, <2>1, NthFacts
  <2>6. RankIn(I, f) \in 1..Cardinality(I)
    BY <1>2, <1>7, <2>1, RankFacts
  <2>7. ElementsAt(s, I)[RankIn(I, f)] = s[f]
    BY <1>7, <2>5, <2>6
  <2>8. QED BY <1>6, <2>3, <2>4, <2>7
<1>12. ASSUME NEW f \in Nat, NEW k \in 1..Cardinality(ReadBefore(f))
       PROVE  k \in DOMAIN Readable(s) /\ IsGraph(Readable(s)[k])
  <2>1. k \in 1..Cardinality(I)
    BY <1>7, <1>8
  <2>2. Nth(I, k) \in I
    BY <1>2, <1>7, <2>1, NthFacts
  <2>3. QED BY <1>1, <1>4, <1>6, <1>7, <2>1, <2>2
<1>13. QED BY <1>8, <1>9, <1>10, <1>11, <1>12 DEF s, n

AnswersInv ==
    /\ answers \in Seq(Nat)
    /\ phase \in {"scanning", "scan", "walk", "end"} => Len(answers) = Cardinality(ReadBefore(file))
    /\ Labelled => \A k \in 1..Len(answers) :
          answers[k] = Cardinality({w \in Words : CanBeWalked(Readable(input.scan)[k], w)})

LEMMA AnswersStay ==
    ASSUME AnswersInv, UNCHANGED <<input, option, answers>>, Words' = Words,
           phase' \in {"scanning", "scan", "walk", "end"} =>
              Len(answers) = Cardinality(ReadBefore(file'))
    PROVE  AnswersInv'
<1>1. ReadBefore(file)' = ReadBefore(file') /\ Readable(input.scan)' = Readable(input.scan)
      /\ Labelled' = Labelled
  BY DEF ReadBefore, Readable, Labelled
<1>2. \A g, w : CanBeWalked(g, w)' = CanBeWalked(g, w)
  BY DEF CanBeWalked
<1>3. ASSUME Labelled, NEW k \in 1..Len(answers)
      PROVE  answers[k] = Cardinality({w \in Words' : CanBeWalked(Readable(input.scan)[k], w)'})
  BY <1>2, <1>3 DEF AnswersInv
<1>4. QED BY <1>1, <1>3 DEF AnswersInv

LEMMA CloseTestAnswers ==
    ASSUME LearningInv, ScanInv, AnswersInv, CloseTest, Words' = Words
    PROVE  AnswersInv'
<1>1. /\ phase = "scan" /\ vroot > Len(gr.children) /\ phase' = "scanning" /\ file' = file + 1
      /\ answers' = Append(answers, count) /\ UNCHANGED <<input, option>>
  BY DEF CloseTest
<1> DEFINE n == Len(answers)
<1>2. n \in Nat /\ n = Cardinality(ReadBefore(file)) /\ answers \in Seq(Nat) /\ count \in Nat
  BY <1>1 DEF AnswersInv, ScanInv
<1>3. file \in 1..Len(input.scan) /\ input.scan[file] # Unreadable
  BY <1>1, ChosenFacts DEF LearningInv, PhaseInv
<1>4. /\ Cardinality(ReadBefore(file + 1)) = n + 1 /\ Readable(input.scan)[n + 1] = Tested
  BY <1>2, <1>3, ReadableFacts DEF LearningInv, Tested
<1> HIDE DEF n
<1>5. /\ answers' \in Seq(Nat) /\ Len(answers') = n + 1 /\ answers'[n + 1] = count
      /\ \A k \in 1..n : answers'[k] = answers[k]
  BY <1>1, <1>2 DEF n
<1>6. ReadBefore(file)' = ReadBefore(file + 1) /\ Readable(input.scan)' = Readable(input.scan)
      /\ Labelled' = Labelled
  BY <1>1 DEF ReadBefore, Readable, Labelled
<1>7. \A g, w : CanBeWalked(g, w)' = CanBeWalked(g, w)
  BY <1>1 DEF CanBeWalked
<1>8. ASSUME Labelled, NEW k \in 1..(n + 1)
      PROVE  answers'[k] = Cardinality({w \in Words' : CanBeWalked(Readable(input.scan)[k], w)'})
  <2>1. {w \in Words' : CanBeWalked(Readable(input.scan)[k], w)'}
          = {w \in Words : CanBeWalked(Readable(input.scan)[k], w)}
    BY <1>1, <1>6, <1>7
  <2>2. CASE k \in 1..n
    <3>1. answers[k] = Cardinality({w \in Words : CanBeWalked(Readable(input.scan)[k], w)})
      BY <1>8, <2>2 DEF AnswersInv, n
    <3>2. QED BY <1>5, <2>1, <2>2, <3>1
  <2>3. CASE k = n + 1
    <3>1. count = Cardinality({w \in Words : CanBeWalked(Tested, w)})
      BY <1>1, <1>8, CountIsRight
    <3>2. QED BY <1>4, <1>5, <2>1, <2>3, <3>1
  <2>4. QED BY <1>2, <2>2, <2>3
<1>9. QED BY <1>1, <1>4, <1>5, <1>6, <1>8 DEF AnswersInv

LEMMA AnswersNext ==
    ASSUME LearningInv, LearningInv', ScanInv, AnswersInv, [GTSINext]_gtsiVars
    PROVE  AnswersInv'
<1>1. CASE UNCHANGED gtsiVars \/ Done
  <2>1. UNCHANGED <<input, option, answers, wordTree, parcours, phase, file>>
    BY <1>1 DEF gtsiVars, Done
  <2>2. Words' = Words
    BY <2>1, SameWords DEF LearningInv
  <2>3. QED BY <2>1, <2>2, AnswersStay DEF AnswersInv
<1>2. CASE LoadGraph \/ AddRoot \/ CloseGraph
  <2>1. phase' \in {"learning", "learn", "abort"}
    BY <1>2 DEF LoadGraph, AddRoot, CloseGraph
  <2>2. answers' = <<>>
    BY <2>1 DEF LearningInv, PhaseInv
  <2>3. answers' \in Seq(Nat) /\ Len(answers') = 0
    BY <2>2
  <2>4. QED BY <2>1, <2>3 DEF AnswersInv
<1>3. CASE EndLearning
  <2>1. phase = "learning" /\ file' = 1 /\ UNCHANGED <<input, option, answers, wordTree, parcours>>
    BY <1>3 DEF EndLearning, learnVars
  <2>2. Words' = Words
    BY <2>1, SameWords DEF LearningInv
  <2>3. answers = <<>> /\ Len(answers) = 0
    BY <2>1 DEF LearningInv, PhaseInv
  <2>4. Cardinality(ReadBefore(file')) = 0
    BY <2>1, ReadableFacts DEF LearningInv
  <2>5. QED BY <2>1, <2>2, <2>3, <2>4, AnswersStay
<1>4. CASE LoadTest
  <2>1. /\ phase = "scanning" /\ file <= Len(input.scan) /\ UNCHANGED <<input, option, answers>>
        /\ IF gr = Unreadable THEN file' = file + 1 ELSE file' = file
    BY <1>4 DEF LoadTest, NextLine
  <2>2. Words' = Words
    BY <1>4, ScanningKeeps
  <2>3. file \in 1..Len(input.scan) /\ gr = input.scan[file]
    BY <2>1, ChosenFacts DEF LearningInv, PhaseInv, gr
  <2>4. Len(answers) = Cardinality(ReadBefore(file))
    BY <2>1 DEF AnswersInv
  <2>5. Len(answers) = Cardinality(ReadBefore(file'))
    BY <2>1, <2>3, <2>4, ReadableFacts DEF LearningInv
  <2>6. QED BY <2>1, <2>2, <2>5, AnswersStay
<1>5. CASE ScanRoot \/ Etape \/ ReturnRec \/ CountLeaves \/ CountWords \/ EndScan
  <2>1. /\ UNCHANGED <<input, option, file, answers>> /\ phase \in {"scanning", "scan", "walk"}
    BY <1>5 DEF ScanRoot, Etape, ReturnRec, CountLeaves, CountWords, EndScan
  <2>2. Words' = Words
    BY <1>5, ScanningKeeps
  <2>3. QED BY <2>1, <2>2, AnswersStay DEF AnswersInv
<1>6. CASE CloseTest
  BY <1>6, ScanningKeeps, CloseTestAnswers
<1>7. QED BY <1>1, <1>2, <1>3, <1>4, <1>5, <1>6 DEF GTSINext

-----------------------------------------------------------------------------
(***************************************************************************)
(* The theorems.                                                           *)
(***************************************************************************)
GTSIInv == LearningInv /\ ScanInv /\ AnswersInv

\* In every state the words learnt are those of the sites seen, the search
\* stands where walks of single words would, and the counts given are right.
THEOREM GTSIInvariant == GTSISpec => []GTSIInv
<1>1. ASSUME GTSIInit PROVE GTSIInv
  <2>1. answers = <<>> /\ phase = "learning"
    BY <1>1 DEF GTSIInit
  <2>2. AnswersInv
    BY <2>1 DEF AnswersInv
  <2>3. QED BY <1>1, <2>2, LearningInit, ScanInit DEF GTSIInv
<1>2. GTSIInv /\ [GTSINext]_gtsiVars => GTSIInv'
  BY LearningNext, ScanNext, AnswersNext DEF GTSIInv
<1>3. QED BY <1>1, <1>2, PTL DEF GTSISpec

LEMMA GTSITypes ==
    ASSUME GTSIInv
    PROVE  GTSITypeOK
<1>1. LearningInv /\ ScanInv /\ PhaseInv /\ LinksDown(wordTree) /\ W \in Nat
  BY TestedFacts, ChosenFacts DEF GTSIInv, LearningInv
<1>2. ASSUME NEW x \in DOMAIN wordTree
      PROVE  /\ wordTree[x].feuille \in BOOLEAN
             /\ \A c \in DOMAIN wordTree[x].fils : wordTree[x].fils[c] \in x + 1 .. Len(wordTree)
  <2>1. x \in 1..Len(wordTree) /\ Len(wordTree) \in Nat
    BY <1>1, WordNodeFacts
  <2>2. \A c \in 1..Len(wordTree[x].fils) : wordTree[x].fils[c] \in 2..Len(wordTree)
                                            /\ wordTree[x].fils[c] > x
    BY <1>1, <2>1, WordNodeFacts
  <2>3. DOMAIN wordTree[x].fils = 1..Len(wordTree[x].fils) /\ wordTree[x].feuille \in BOOLEAN
    BY <1>1, <2>1, WordNodeFacts
  <2>4. QED BY <2>1, <2>2, <2>3
<1>3. ASSUME NEW d \in DOMAIN frames
      PROVE  /\ frames[d].node \in DOMAIN wordTree
             /\ frames[d].r \in NodesOf(gr)
             /\ frames[d].max \in 0..W
             /\ frames[d].numerotes \subseteq NodesOf(gr)
  <2>1. phase = "walk"
    BY <1>1, <1>3 DEF ScanInv
  <2>2. frames \in Seq(FrameRecords) /\ gr = Tested /\ DOMAIN wordTree = 1..Len(wordTree)
        /\ \A e \in 1..Len(frames) : Stands(frames[e])
    BY <1>1, <2>1, TestedFacts, WordNodeFacts DEF ScanInv, StackInv
  <2>3. frames[d] \in FrameRecords /\ frames[d].max <= W
    BY <1>3, <2>2 DEF Stands
  <2>4. QED BY <1>1, <2>2, <2>3 DEF FrameRecords
<1>4. reached \cup leaves \subseteq DOMAIN wordTree
  BY <1>1 DEF ScanInv, LeavesOf
<1>5. QED BY <1>1, <1>2, <1>3, <1>4 DEF GTSITypeOK, PhaseInv, ScanInv

LEMMA OwnNumeros ==
    ASSUME GTSIInv
    PROVE  NumerosIsOwn
<1>1. ASSUME NEW d \in DOMAIN frames, NEW f, f = frames[d], f.node # 1,
             NEW alone, alone = walk(gr, vroot, WordTo(wordTree)[f.node], option.checkLabels)
      PROVE  /\ alone.ok /\ f.r = alone.sc
             /\ alone.numeros = SubSeq(numeros, 1, f.max)
             /\ f.numerotes = Range(alone.numeros)
  <2>1. phase = "walk" /\ LearningInv /\ StackInv /\ numeros \in [1..W -> Nat] /\ W \in Nat
    BY <1>1, ChosenFacts DEF GTSIInv, ScanInv, LearningInv
  <2>2. f \in FrameRecords /\ Stands(f)
    BY <1>1, <2>1 DEF StackInv
  <2>3. f.node \in 1..Len(wordTree) /\ f.max \in Nat
    BY <2>2 DEF FrameRecords
  <2>4. IsGraph(Tested) /\ gr = Tested /\ vroot \in NodesOf(Tested) /\ TreeShape(wordTree)
        /\ LinksDown(wordTree)
    BY <2>1, TestedFacts
  <2>5. f.node \in 2..Len(wordTree) /\ Len(wordTree) \in Nat
    BY <1>1, <2>3, <2>4, WordNodeFacts
  <2> DEFINE p == WordTo(wordTree)[f.node]
  <2>6. p \in Seq(WordLetters) /\ p # <<>>
    BY <2>3, <2>4, <2>5, WordFacts
  <2>7. alone = walk(Tested, vroot, p, option.checkLabels)
        /\ At(f.node) = WalkOf(Tested, vroot, p, option.checkLabels)
    BY <1>1, <2>4 DEF At, WalkTo
  <2> HIDE DEF p
  <2>8. alone = At(f.node)
    BY <2>4, <2>6, <2>7, WalkOfFacts
  <2>9. alone.numeros \in Seq(NodesOf(Tested))
    BY <2>1, <2>3, <2>8, WalkToFacts DEF WalkStates
  <2>10. /\ alone.ok /\ alone.sc = f.r /\ f.max <= W /\ Len(alone.numeros) = f.max
         /\ \A j \in 1..f.max : alone.numeros[j] = numeros[j]
         /\ f.numerotes = Range(alone.numeros)
    BY <2>2, <2>8 DEF Stands
  <2>11. alone.numeros = SubSeq(numeros, 1, f.max)
    <3> DEFINE q == SubSeq(numeros, 1, f.max)
    <3>1. numeros \in Seq(Nat) /\ Len(numeros) = W
      BY <2>1
    <3>2. q \in Seq(Nat) /\ Len(q) = f.max /\ \A j \in 1..f.max : q[j] = numeros[j]
      BY <2>3, <2>10, <3>1
    <3> HIDE DEF q
    <3>3. alone.numeros = q
      BY <2>3, <2>9, <2>10, <3>2, SeqEqual
    <3>4. QED BY <3>3 DEF q
  <2>12. QED BY <2>10, <2>11
<1>2. QED BY <1>1 DEF NumerosIsOwn

LEMMA Asserts ==
    ASSUME GTSIInv
    PROVE  AssertsHold
<1>1. LearningInv /\ ScanInv /\ TreeShape(wordTree) /\ LinksDown(wordTree)
  BY TestedFacts DEF GTSIInv
<1>2. ASSUME NEW x \in DOMAIN wordTree, x # 1
      PROVE  wordTree[x].feuille \/ wordTree[x].fils # <<>>
  <2>1. x \in 2..Len(wordTree)
    BY <1>1, <1>2, WordNodeFacts
  <2>2. QED BY <1>1, <2>1 DEF TreeShape, NoDeadEnd
<1>3. ASSUME phase = "walk", frames # <<>>, top.it <= Len(wordTree[top.node].fils)
      PROVE  CASE mot.type = "M1" -> top.max = 0
               [] mot.type = "new" -> etape # 0 => top.max = mot.i - 1
               [] OTHER -> top.max >= mot.i
  <2>1. /\ top \in FrameRecords /\ mot \in WordLetters
        /\ mot.type = "M1" => top.max = 0
        /\ mot.type = "new" => mot.i = top.max + 1
        /\ mot.type \in {"R", "old"} => mot.i <= top.max
    BY <1>1, <1>3, NextFacts DEF ScanInv
  <2>2. top.max \in Nat /\ mot.type \in {"M1", "R", "new", "old"}
        /\ (mot.type \in {"R", "new", "old"} => mot.i \in Nat)
    BY <2>1, LetterFacts DEF FrameRecords
  <2>3. CASE mot.type = "M1"
    BY <2>1, <2>3
  <2>4. CASE mot.type = "new"
    BY <2>1, <2>2, <2>4
  <2>5. CASE mot.type \in {"R", "old"}
    BY <2>1, <2>2, <2>5
  <2>6. QED BY <2>2, <2>3, <2>4, <2>5
<1>4. QED BY <1>2, <1>3 DEF AssertsHold

\* The tree of words: the words it spells are as many as the counters say,
\* -lc under -ll stops at the limit and not before, every call of the search
\* finds in the shared array what a walk of its own letters would have put
\* there, and the asserts of the search hold.
THEOREM TreeOfWords == GTSISpec => []WordTreeInv
<1>1. GTSIInv => WordTreeInv
  BY GTSITypes, OwnNumeros, Asserts, WordsLearnt DEF GTSIInv, WordTreeInv
<1>2. QED BY <1>1, GTSIInvariant, PTL

LEMMA LearntFound ==
    ASSUME GTSIInv, Labelled
    PROVE  LearntIsFound
<1>1. ASSUME phase = "scanning", answers # <<>>,
             NEW g, g = Queries[Len(answers)].graph,
             NEW held, held = {Canon(parcoursLargeur(g, v, W).mots) : v \in NodesOf(g)}
      PROVE  answers[Len(answers)] >= Cardinality(Words \cap held)
  <2> DEFINE n == Len(answers)
             T == {w \in Words : CanBeWalked(Readable(input.scan)[n], w)}
  <2>1. answers \in Seq(Nat) /\ n \in 1..Len(answers) /\ n = Cardinality(ReadBefore(file))
        /\ answers[n] = Cardinality(T)
    BY <1>1 DEF GTSIInv, AnswersInv
  <2>2. g = Readable(input.scan)[n]
    BY <1>1, <2>1 DEF Queries
  <2>3. Chosen /\ file \in Nat /\ LearningInv
    BY DEF GTSIInv, LearningInv, PhaseInv
  <2>4. IsGraph(g)
    BY <2>1, <2>2, <2>3, ReadableFacts
  <2>5. T = {w \in Words : CanBeWalked(g, w)}
    BY <2>2
  <2> HIDE DEF T, n
  <2>6. \A w \in Words \cap held : CanBeWalked(g, w)
    <3>1. ASSUME NEW w \in Words, w \in held
          PROVE  CanBeWalked(g, w)
      <4>1. PICK v \in NodesOf(g) : w = Canon(parcoursLargeur(g, v, W).mots)
        BY <1>1, <3>1
      <4> DEFINE p == parcoursLargeur(g, v, W).mots
      <4>2. WellFormed(p) /\ \A labels \in BOOLEAN : WalkOf(g, v, p, labels).ok
        BY <2>3, <2>4, ChosenFacts, ParcoursFacts
      <4>3. w = Canon(p)
        BY <4>1
      <4> HIDE DEF p
      <4>4. WalkOf(g, v, w, option.checkLabels).ok
        BY <2>3, <2>4, <4>2, <4>3, ChosenFacts, CanonWalk DEF WellFormed
      <4>5. QED BY <2>3, <2>4, <4>4, WordsAreWords, ParcourirIs DEF CanBeWalked
    <3>2. QED BY <3>1
  <2>7. Words \cap held \subseteq T /\ T \subseteq Words
    BY <2>5, <2>6
  <2>8. IsFiniteSet(Words)
    BY <2>3, WordsLearnt
  <2>9. IsFiniteSet(T)
    BY <2>7, <2>8, FS_Subset
  <2>10. Cardinality(Words \cap held) <= Cardinality(T)
         /\ Cardinality(T) \in Nat /\ Cardinality(Words \cap held) \in Nat
    BY <2>7, <2>9, FS_Subset, FS_CardinalityType
  <2>11. QED BY <2>1, <2>10 DEF n
<1>2. QED BY <1>1 DEF LearntIsFound

\* Every site is learnt once, none is made up, and each is found again in every
\* graph that holds it, unless the program walks the words one by one with their
\* labels although -ncl leaves the labels out (NoTreeCountsTheSame).
THEOREM SitesFound == GTSISpec => [](Labelled => SitesAreFound)
<1>1. GTSIInv => (Labelled => SitesAreFound)
  BY WordsLearnt, LearntFound DEF GTSIInv, SitesAreFound
<1>2. QED BY <1>1, GTSIInvariant, PTL

\* Whatever the options, the words learnt are those of the sites.
THEOREM LearntSites == GTSISpec => []LearntIsEverySite
<1>1. GTSIInv => LearntIsEverySite
  BY WordsLearnt DEF GTSIInv
<1>2. QED BY <1>1, GTSIInvariant, PTL

-----------------------------------------------------------------------------
(***************************************************************************)
(* GTSI implements WordCounter.                                            *)
(***************************************************************************)
LEMMA CounterCounts ==
    \A S : Counter!Cardinality(S) = Cardinality(S)
BY Zenon DEF Cardinality, Counter!Cardinality

LEMMA CounterInit ==
    ASSUME GTSIInit
    PROVE  Counter!Init
<1>1. Words = {}
  <2>1. Chosen
    BY DEF GTSIInit, Chosen
  <2>2. TreeWords(wordTree) = {} /\ parcours = {}
    BY <2>1, ChosenFacts, RootShape DEF GTSIInit
  <2>3. QED BY <2>2, WordsAre
<1>2. answers = <<>> /\ Queries = <<>>
  BY DEF GTSIInit, Queries
<1>3. QED BY <1>1, <1>2 DEF Counter!Init

LEMMA QueriesNext ==
    ASSUME UNCHANGED <<input, option, answers>>
    PROVE  Queries' = Queries
BY DEF Queries, Readable

\* A step that adds no word and prints no count is a stutter.
LEMMA CounterStays ==
    ASSUME UNCHANGED <<input, option, answers>>, Words' = Words
    PROVE  UNCHANGED Counter!vars
BY QueriesNext DEF Counter!vars

LEMMA CounterLearns ==
    ASSUME GTSIInv, GTSIInv', AddRoot
    PROVE  [Counter!Next]_(Counter!vars)
<1>1. phase = "learn" /\ UNCHANGED <<input, option, answers>>
  BY DEF AddRoot
<1>2. LearningInv /\ LearningInv' /\ answers = <<>>
  BY <1>1 DEF GTSIInv, LearningInv, PhaseInv
<1>3. Queries' = Queries
  BY <1>1, QueriesNext
<1>4. \E w : w # <<>> /\ Words' \in {Words, Words \cup {w}}
  <2> DEFINE p == parcoursLargeur(gr, vroot, W)
  <2>1. IF ~p.asserts THEN phase' = "abort" /\ UNCHANGED <<vroot, wordTree, parcours, added>>
        ELSE /\ vroot' = vroot + 1 /\ UNCHANGED phase
             /\ IF ~p.complete THEN UNCHANGED <<wordTree, parcours, added>>
                ELSE IF option.useTree
                THEN /\ wordTree' = addParcours(wordTree, p.mots)
                     /\ added' = added + (IF Adds(wordTree, p.mots) THEN 1 ELSE 0)
                     /\ UNCHANGED parcours
                ELSE /\ parcours' = parcours \cup
                           {q \in {p.mots} : ~\E o \in parcours :
                                                 SameWord(q, o, option.checkLabels)}
                     /\ UNCHANGED <<wordTree, added>>
    BY DEF AddRoot
  <2>2. WellFormed(p.mots) /\ p.mots # <<>> /\ NumbersIn(p.mots, Len(p.mots)) <= W
    <3>1. gr = input.learn[file] /\ file \in 1..Len(input.learn) /\ gr # Unreadable /\ Chosen
      BY <1>1, <1>2, ChosenFacts DEF gr, LearningInv, PhaseInv
    <3>2. IsGraph(gr) /\ vroot \in NodesOf(gr)
      BY <3>1, ChosenFacts DEF AddRoot
    <3>3. QED BY <3>1, <3>2, ChosenFacts, ParcoursFacts
  <2> HIDE DEF p
  <2>3. CASE UNCHANGED <<wordTree, parcours>>
    <3>1. Words' = Words
      BY <1>1, <1>2, <2>3, SameWords DEF LearningInv
    <3>2. <<1>> # <<>>
      OBVIOUS
    <3>3. QED BY <3>1, <3>2
  <2>4. CASE ~UNCHANGED <<wordTree, parcours>>
    <3>1. IF option.useTree
          THEN wordTree' = addParcours(wordTree, p.mots) /\ parcours' = parcours
          ELSE /\ parcours' = parcours \cup
                      {q \in {p.mots} : ~\E o \in parcours : SameWord(q, o, option.checkLabels)}
               /\ wordTree' = wordTree
      BY <2>1, <2>4
    <3>2. Words' = Words \cup {Canon(p.mots)}
      BY <1>1, <1>2, <2>2, <3>1, OneMoreWord DEF LearningInv
    <3>3. Canon(p.mots) # <<>>
      BY <2>2, CanonIs DEF WellFormed
    <3>4. QED BY <3>2, <3>3
  <2>5. QED BY <2>3, <2>4
<1>5. CASE Words' = Words
  BY <1>1, <1>5, CounterStays
<1>6. CASE Words' # Words
  <2>1. PICK w : w # <<>> /\ Words' = Words \cup {w}
    BY <1>4, <1>6
  <2>2. w \in Words' /\ w \notin Words
    BY <1>6, <2>1
  <2>4. \E v \in Words' : v # <<>> /\ v \notin Words /\ Words' = Words \cup {v}
    BY <2>1, <2>2
  <2>5. Counter!Learn
    BY <1>1, <1>2, <1>3, <2>4 DEF Counter!Learn
  <2>6. QED BY <2>5 DEF Counter!Next
<1>7. QED BY <1>5, <1>6

LEMMA CounterAnswers ==
    ASSUME GTSIInv, CloseTest, Words' = Words, Labelled
    PROVE  Counter!Answer
<1>1. /\ phase = "scan" /\ vroot > Len(gr.children)
      /\ answers' = Append(answers, count) /\ UNCHANGED <<input, option>>
  BY DEF CloseTest
<1>2. LearningInv /\ ScanInv /\ answers \in Seq(Nat) /\ count \in Nat
      /\ Len(answers) = Cardinality(ReadBefore(file))
  BY <1>1 DEF GTSIInv, AnswersInv, ScanInv
<1>3. file \in 1..Len(input.scan) /\ input.scan[file] # Unreadable
  BY <1>1, <1>2, ChosenFacts DEF LearningInv, PhaseInv
<1> DEFINE n == Len(answers)
           query == [graph |-> Tested, labels |-> option.checkLabels]
           asked(i) == [graph |-> Readable(input.scan)[i], labels |-> option.checkLabels]
<1>4. asked(n + 1) = query
  <2>1. Readable(input.scan)[Cardinality(ReadBefore(file)) + 1] = input.scan[file]
    BY <1>2, <1>3, ReadableFacts DEF LearningInv
  <2>2. QED BY <1>2, <2>1 DEF Tested
<1>5. /\ Queries = [i \in 1..n |-> asked(i)]
      /\ Queries' = [i \in 1..(n + 1) |-> asked(i)]
  <2>1. DOMAIN answers = 1..n /\ DOMAIN answers' = 1..(n + 1)
    BY <1>1, <1>2
  <2>2. Readable(input.scan)' = Readable(input.scan)
    BY <1>1 DEF Readable
  <2>3. QED BY <1>1, <2>1, <2>2 DEF Queries
<1>6. query.graph = Tested /\ query.labels = option.checkLabels
  OBVIOUS
<1>7. n \in Nat
  BY <1>2
<1> HIDE DEF n, query, asked
<1>8. Queries' = Append(Queries, query)
  <2> DEFINE R == {asked(i) : i \in 1..(n + 1)}
             a == [i \in 1..n |-> asked(i)]
             b == [i \in 1..(n + 1) |-> asked(i)]
  <2>1. \A i \in 1..(n + 1) : asked(i) \in R
    OBVIOUS
  <2> HIDE DEF R
  <2>2. a \in Seq(R) /\ Len(a) = n /\ (\A i \in 1..n : a[i] = asked(i))
    <3>1. a \in [1..n -> R]
      BY <1>7, <2>1
    <3>2. QED BY <1>7, <3>1, SeqDef
  <2>3. b \in Seq(R) /\ Len(b) = n + 1 /\ (\A i \in 1..(n + 1) : b[i] = asked(i))
    <3>1. b \in [1..(n + 1) -> R]
      BY <1>7, <2>1
    <3>2. n + 1 \in Nat
      BY <1>7
    <3>3. QED BY <3>1, <3>2, SeqDef
  <2> HIDE DEF a, b
  <2>4. query \in R
    BY <1>4, <1>7, <2>1
  <2>5. Append(a, query) \in Seq(R) /\ Len(Append(a, query)) = n + 1
        /\ (\A i \in 1..n : Append(a, query)[i] = a[i]) /\ Append(a, query)[n + 1] = query
    BY <1>7, <2>2, <2>4
  <2> DEFINE c == Append(a, query)
  <2>6. c = Append(a, query)
    OBVIOUS
  <2> HIDE DEF c
  <2>7. \A i \in 1..(n + 1) : b[i] = c[i]
    BY <1>4, <1>7, <2>2, <2>3, <2>5, <2>6
  <2>8. b = c
    BY <2>3, <2>5, <2>6, <2>7, SeqEqual
  <2>9. QED BY <1>5, <2>6, <2>8 DEF a, b
<1>9. query \in {Queries'[i] : i \in DOMAIN Queries'}
  <2>1. n + 1 \in 1..(n + 1)
    BY <1>7
  <2>2. Queries'[n + 1] = query /\ n + 1 \in DOMAIN Queries'
    BY <1>4, <1>5, <2>1
  <2>3. QED BY <2>2
<1>10. count = Counter!Cardinality({w \in Words : parcourir(query.graph, w, query.labels)})
  <2>1. count = Cardinality({w \in Words : CanBeWalked(Tested, w)})
    BY <1>1, <1>2, CountIsRight
  <2>2. {w \in Words : CanBeWalked(Tested, w)}
          = {w \in Words : parcourir(query.graph, w, query.labels)}
    BY <1>6 DEF CanBeWalked
  <2>3. QED BY <2>1, <2>2, CounterCounts
<1>11. QED BY <1>1, <1>8, <1>9, <1>10 DEF Counter!Answer

LEMMA CounterNext ==
    ASSUME GTSIInv, GTSIInv', Labelled, [GTSINext]_gtsiVars
    PROVE  [Counter!Next]_(Counter!vars)
<1>1. LearningInv
  BY DEF GTSIInv
<1>2. CASE UNCHANGED gtsiVars \/ Done
  <2>1. UNCHANGED <<input, option, answers, wordTree, parcours>>
    BY <1>2 DEF gtsiVars, Done
  <2>2. Words' = Words
    BY <1>1, <2>1, SameWords DEF LearningInv
  <2>3. QED BY <2>1, <2>2, CounterStays
<1>3. CASE LoadGraph \/ CloseGraph \/ EndLearning
  <2>1. UNCHANGED <<input, option, answers, wordTree, parcours>>
    BY <1>3 DEF LoadGraph, CloseGraph, EndLearning, learnVars
  <2>2. Words' = Words
    BY <1>1, <2>1, SameWords DEF LearningInv
  <2>3. QED BY <2>1, <2>2, CounterStays
<1>4. CASE AddRoot
  BY <1>4, CounterLearns
<1>5. CASE LoadTest \/ ScanRoot \/ Etape \/ ReturnRec \/ CountLeaves \/ CountWords \/ EndScan
  <2>1. UNCHANGED <<input, option, answers>>
    BY <1>5 DEF LoadTest, ScanRoot, Etape, ReturnRec, CountLeaves, CountWords, EndScan
  <2>2. Words' = Words
    BY <1>1, <1>5, ScanningKeeps
  <2>3. QED BY <2>1, <2>2, CounterStays
<1>6. CASE CloseTest
  <2>1. Words' = Words
    BY <1>1, <1>6, ScanningKeeps
  <2>2. QED BY <1>6, <2>1, CounterAnswers DEF Counter!Next
<1>7. QED BY <1>2, <1>3, <1>4, <1>5, <1>6 DEF GTSINext

\* Learning adds the words of a set one at a time, and each count given is the
\* number of the learnt words that can be walked, each by itself, in the graph;
\* again unless the words are walked with labels that -ncl leaves out.
THEOREM CountsLearntWords == GTSISpec /\ Labelled => CountsWords
<1>1. Labelled /\ [GTSINext]_gtsiVars => Labelled'
  BY DEF Labelled, GTSINext, gtsiVars, LoadGraph, AddRoot, CloseGraph, EndLearning, LoadTest,
         ScanRoot, Etape, ReturnRec, CountLeaves, CountWords, CloseTest, EndScan, Done
<1>2. GTSISpec => []GTSIInv
  BY GTSIInvariant
<1>3. GTSIInit => Counter!Init
  BY CounterInit
<1>4. GTSIInv /\ GTSIInv' /\ Labelled /\ [GTSINext]_gtsiVars => [Counter!Next]_(Counter!vars)
  BY CounterNext
<1>5. QED BY <1>1, <1>2, <1>3, <1>4, PTL DEF GTSISpec, CountsWords, Counter!Spec

-----------------------------------------------------------------------------
(***************************************************************************)
(* Routes from a root and their order: shorter first, then by the numbers  *)
(* of the children.                                                        *)
(***************************************************************************)
Ways == Seq({1, 2})

LEMMA WayFacts ==
    ASSUME NEW p \in Ways
    PROVE  /\ Len(p) \in Nat /\ DOMAIN p = 1..Len(p)
           /\ \A i \in 1..Len(p) : p[i] \in {1, 2}
           /\ p \in [1..Len(p) -> {1, 2}]
           /\ p = <<>> <=> Len(p) = 0
<1>1. p \in Seq({1, 2})
  BY DEF Ways
<1>2. QED BY <1>1, LenProperties, ElementOfSeq, EmptySeq

LEMMA WayMore ==
    ASSUME NEW p \in Ways, NEW k \in {1, 2}
    PROVE  /\ Append(p, k) \in Ways /\ Len(Append(p, k)) = Len(p) + 1
           /\ \A i \in 1..Len(p) : Append(p, k)[i] = p[i]
           /\ Append(p, k)[Len(p) + 1] = k
<1>1. p \in Seq({1, 2})
  BY DEF Ways
<1>2. QED BY <1>1, AppendProperties DEF Ways

LEMMA WayIsMore ==
    ASSUME NEW p \in Ways, p # <<>>
    PROVE  \E q \in Ways, k \in {1, 2} : p = Append(q, k) /\ Len(p) = Len(q) + 1
<1>1. p \in Seq({1, 2})
  BY DEF Ways
<1>2. PICK q \in Seq({1, 2}), k \in {1, 2} : p = Append(q, k)
  BY <1>1, SequenceEmptyOrAppend
<1>3. q \in Ways
  BY DEF Ways
<1>4. QED BY <1>2, <1>3, WayMore

LEMMA RoutesAre ==
    ASSUME W \in Nat \ {0}
    PROVE  \A p : p \in Routes <=> p \in Ways /\ Len(p) <= W - 1
<1>1. ASSUME NEW p \in Routes PROVE p \in Ways /\ Len(p) <= W - 1
  <2>1. PICK d \in 0..(W - 1) : p \in [1..d -> {1, 2}]
    BY DEF Routes
  <2>2. d \in Nat
    BY <2>1
  <2>3. p \in Seq({1, 2}) /\ Len(p) = d
    BY <2>1, <2>2
  <2>4. QED BY <2>1, <2>3 DEF Ways
<1>2. ASSUME NEW p \in Ways, Len(p) <= W - 1 PROVE p \in Routes
  <2>1. Len(p) \in 0..(W - 1) /\ p \in [1..Len(p) -> {1, 2}]
    BY <1>2, WayFacts
  <2>2. QED BY <2>1 DEF Routes
<1>3. QED BY <1>1, <1>2

\* The first place where two ways of the same length differ.
LEMMA FirstDifference ==
    ASSUME NEW p \in Ways, NEW q \in Ways, Len(p) = Len(q), p # q
    PROVE  \E i \in 1..Len(p) : p[i] # q[i] /\ \A j \in 1..(i - 1) : p[j] = q[j]
<1> DEFINE S == {i \in 1..Len(p) : p[i] # q[i]}
<1>1. S # {}
  <2>1. p = [i \in 1..Len(p) |-> p[i]] /\ q = [i \in 1..Len(p) |-> q[i]]
    BY WayFacts
  <2>2. ASSUME \A i \in 1..Len(p) : p[i] = q[i] PROVE FALSE
    BY <2>1, <2>2
  <2>3. QED BY <2>2
<1>2. S \subseteq Nat
  OBVIOUS
<1> DEFINE i == Min(S)
<1>3. i \in S /\ \A j \in S : i <= j
  <2> HIDE DEF S
  <2>1. QED BY <1>1, <1>2, LeastIsIn
<1> HIDE DEF i
<1>4. ASSUME NEW j \in 1..(i - 1) PROVE p[j] = q[j]
  <2>1. j \in 1..Len(p) /\ ~(i <= j) /\ j \notin S
    BY <1>3, WayFacts
  <2>2. QED BY <2>1
<1>5. QED BY <1>3, <1>4

LEMMA LessFacts ==
    ASSUME NEW p \in Ways, NEW q \in Ways
    PROVE  /\ ~Less(p, p)
           /\ Less(p, q) => ~Less(q, p)
           /\ p = q \/ Less(p, q) \/ Less(q, p)
<1>1. /\ Len(p) \in Nat /\ DOMAIN p = 1..Len(p) /\ (\A i \in 1..Len(p) : p[i] \in {1, 2})
      /\ Len(q) \in Nat /\ DOMAIN q = 1..Len(q) /\ (\A i \in 1..Len(q) : q[i] \in {1, 2})
  BY WayFacts
<1>2. ~Less(p, p)
  <2>1. \A i \in 1..Len(p) : ~(p[i] < p[i])
    BY <1>1
  <2>2. QED BY <1>1, <2>1 DEF Less
<1>3. ASSUME Less(p, q), Less(q, p) PROVE FALSE
  <2>1. Len(p) = Len(q)
    <3>1. /\ Len(p) < Len(q) \/ Len(p) = Len(q)
          /\ Len(q) < Len(p) \/ Len(q) = Len(p)
      BY <1>3, Zenon DEF Less
    <3>2. Len(p) \in Nat /\ Len(q) \in Nat
      BY <1>1
    <3>3. QED BY <3>1, <3>2
  <2>2. PICK i \in 1..Len(p) : p[i] < q[i] /\ \A j \in 1..(i - 1) : p[j] = q[j]
    BY <1>1, <1>3, <2>1 DEF Less
  <2>3. PICK h \in 1..Len(p) : q[h] < p[h] /\ \A j \in 1..(h - 1) : q[j] = p[j]
    BY <1>1, <1>3, <2>1 DEF Less
  <2>4. p[i] \in Nat /\ q[i] \in Nat /\ p[h] \in Nat /\ q[h] \in Nat
    BY <1>1, <2>1
  <2>5. i = h \/ i \in 1..(h - 1) \/ h \in 1..(i - 1)
    BY <1>1
  <2>6. QED BY <2>2, <2>3, <2>4, <2>5
<1>4. ASSUME p # q PROVE Less(p, q) \/ Less(q, p)
  <2>1. CASE Len(p) # Len(q)
    <3>1. Len(p) \in Nat /\ Len(q) \in Nat
      BY <1>1
    <3>2. Len(p) < Len(q) \/ Len(q) < Len(p)
      BY <2>1, <3>1
    <3>3. QED BY <3>2, Zenon DEF Less
  <2>2. CASE Len(p) = Len(q)
    <3>1. PICK i \in 1..Len(p) : p[i] # q[i] /\ \A j \in 1..(i - 1) : p[j] = q[j]
      BY <1>4, <2>2, FirstDifference
    <3>2. p[i] < q[i] \/ q[i] < p[i]
      BY <1>1, <2>2, <3>1
    <3>3. \A j \in 1..(i - 1) : q[j] = p[j]
      BY <3>1
    <3>4. QED BY <1>1, <2>2, <3>1, <3>2, <3>3 DEF Less
  <2>3. QED BY <2>1, <2>2
<1>5. QED BY <1>2, <1>3, <1>4

\* One step more keeps the order.
LEMMA LessMore ==
    ASSUME NEW p \in Ways, NEW q \in Ways, NEW k \in {1, 2}, NEW c \in {1, 2}
    PROVE  /\ Less(p, q) => Less(Append(p, k), Append(q, c))
           /\ k < c => Less(Append(p, k), Append(p, c))
           /\ Less(<<>>, Append(p, k)) /\ ~Less(p, <<>>)
<1>1. /\ Len(p) \in Nat /\ DOMAIN p = 1..Len(p) /\ Len(q) \in Nat /\ DOMAIN q = 1..Len(q)
  BY WayFacts
<1>2. /\ Len(Append(p, k)) = Len(p) + 1 /\ (\A i \in 1..Len(p) : Append(p, k)[i] = p[i])
      /\ Append(p, k)[Len(p) + 1] = k /\ DOMAIN Append(p, k) = 1..(Len(p) + 1)
      /\ Len(Append(q, c)) = Len(q) + 1 /\ (\A i \in 1..Len(q) : Append(q, c)[i] = q[i])
      /\ Len(Append(p, c)) = Len(p) + 1 /\ (\A i \in 1..Len(p) : Append(p, c)[i] = p[i])
      /\ Append(p, c)[Len(p) + 1] = c /\ Append(p, k) \in Ways
  BY WayMore, WayFacts
<1> DEFINE pk == Append(p, k)
           qc == Append(q, c)
           pe == Append(p, c)
<1> HIDE DEF pk, qc, pe
<1>3. ASSUME Less(p, q) PROVE Less(pk, qc)
  <2>1. CASE Len(p) < Len(q)
    BY <1>1, <1>2, <2>1 DEF Less, pk, qc
  <2>2. CASE ~(Len(p) < Len(q))
    <3>1. Len(p) = Len(q)
      BY <1>3, <2>2, SMTT(30) DEF Less
    <3>2. PICK i \in 1..Len(p) : p[i] < q[i] /\ \A j \in 1..(i - 1) : p[j] = q[j]
      BY <1>1, <1>3, <2>2 DEF Less
    <3>3. i \in 1..(Len(p) + 1) /\ i \in 1..Len(q) /\ \A j \in 1..(i - 1) : j \in 1..Len(p) /\ j \in 1..Len(q)
      BY <1>1, <3>1
    <3>4. pk[i] < qc[i] /\ \A j \in 1..(i - 1) : pk[j] = qc[j]
      BY <1>2, <3>2, <3>3 DEF pk, qc
    <3>5. Len(pk) = Len(qc) /\ i \in DOMAIN pk
      BY <1>2, <3>1, <3>3 DEF pk, qc
    <3>6. QED BY <3>4, <3>5 DEF Less
  <2>3. QED BY <2>1, <2>2
<1>4. ASSUME k < c PROVE Less(pk, pe)
  <2> DEFINE i == Len(p) + 1
  <2>1. i \in DOMAIN pk /\ Len(pk) = Len(pe) /\ pk[i] < pe[i]
    BY <1>1, <1>2, <1>4 DEF pk, pe
  <2>2. \A j \in 1..(i - 1) : pk[j] = pe[j]
    BY <1>1, <1>2 DEF pk, pe
  <2> HIDE DEF i
  <2>3. QED BY <2>1, <2>2 DEF Less
<1>5. Less(<<>>, pk) /\ ~Less(p, <<>>)
  <2> DEFINE none == <<>>
  <2>1. Len(none) = 0
    OBVIOUS
  <2> HIDE DEF none
  <2>2. Less(none, pk)
    BY <1>1, <1>2, <2>1 DEF Less, pk
  <2>3. ~Less(p, none)
    BY <1>1, <2>1 DEF Less
  <2>4. QED BY <2>2, <2>3 DEF none
<1>6. QED BY <1>3, <1>4, <1>5 DEF pk, qc, pe

LEMMA LessBack ==
    ASSUME NEW p \in Ways, NEW q \in Ways, NEW k \in {1, 2}, NEW c \in {1, 2},
           Less(Append(p, k), Append(q, c))
    PROVE  Less(p, q) \/ (p = q /\ k < c)
<1> DEFINE pk == Append(p, k)
           qc == Append(q, c)
<1>1. /\ Len(p) \in Nat /\ DOMAIN p = 1..Len(p) /\ Len(q) \in Nat /\ DOMAIN q = 1..Len(q)
  BY WayFacts
<1>2. /\ Len(pk) = Len(p) + 1 /\ (\A i \in 1..Len(p) : pk[i] = p[i])
      /\ pk[Len(p) + 1] = k /\ DOMAIN pk = 1..(Len(p) + 1)
      /\ Len(qc) = Len(q) + 1 /\ (\A i \in 1..Len(q) : qc[i] = q[i]) /\ qc[Len(q) + 1] = c
  BY WayMore, WayFacts
<1> HIDE DEF pk, qc
<1>3. CASE Len(p) < Len(q)
  BY <1>3 DEF Less
<1>4. CASE ~(Len(p) < Len(q))
  <2>1. Less(pk, qc)
    BY DEF pk, qc
  <2>2. Len(p) = Len(q)
    <3>1. Len(pk) < Len(qc) \/ Len(pk) = Len(qc)
      BY <2>1, Zenon DEF Less
    <3>2. Len(p) \in Nat /\ Len(q) \in Nat /\ Len(pk) = Len(p) + 1 /\ Len(qc) = Len(q) + 1
      BY <1>1, <1>2
    <3>3. QED BY <1>4, <3>1, <3>2
  <2>3. PICK i \in 1..(Len(p) + 1) : pk[i] < qc[i] /\ \A j \in 1..(i - 1) : pk[j] = qc[j]
    BY <1>1, <1>2, <2>1, <2>2 DEF Less
  <2>4. \A j \in 1..(i - 1) : j \in 1..Len(p) /\ j \in 1..Len(q)
    BY <1>1, <2>2
  <2>5. \A j \in 1..(i - 1) : p[j] = q[j]
    BY <1>2, <2>3, <2>4
  <2>6. CASE i \in 1..Len(p)
    <3>1. p[i] < q[i]
      BY <1>2, <2>2, <2>3, <2>6
    <3>2. QED BY <1>1, <2>2, <2>5, <2>6, <3>1 DEF Less
  <2>7. CASE i = Len(p) + 1
    <3>1. k < c
      BY <1>2, <2>2, <2>3, <2>7
    <3>2. \A j \in 1..Len(p) : p[j] = q[j]
      BY <1>1, <2>5, <2>7
    <3>3. p = q
      BY <2>2, <3>2, FirstDifference
    <3>4. QED BY <3>1, <3>3
  <2>8. QED BY <1>1, <2>6, <2>7
<1>5. QED BY <1>3, <1>4

-----------------------------------------------------------------------------
(***************************************************************************)
(* Where a way ends.                                                       *)
(***************************************************************************)
Ends(g) == NodesOf(g) \cup {0}
Follow(g, x, k) == IF x # 0 /\ k <= children_nb(g, x) THEN g.children[x][k] ELSE 0

LeadsAlong(r, g, q, p) ==
    /\ r[0] = q /\ r[Len(p)] = End(g, q, p)
    /\ \A k \in 1..Len(p) : r[k] = Follow(g, r[k - 1], p[k])

LEMMA FollowType ==
    ASSUME NEW g, IsGraph(g), NEW x \in Ends(g), NEW k \in {1, 2}
    PROVE  Follow(g, x, k) \in Ends(g)
<1>1. CASE x # 0 /\ k <= children_nb(g, x)
  <2>1. x \in NodesOf(g)
    BY <1>1 DEF Ends
  <2>2. children_nb(g, x) \in Nat /\ \A c \in 1..children_nb(g, x) : g.children[x][c] \in NodesOf(g)
    BY <2>1, GraphFacts
  <2>3. k \in 1..children_nb(g, x)
    BY <1>1, <2>2
  <2>4. QED BY <1>1, <2>2, <2>3 DEF Follow, Ends
<1>2. CASE ~(x # 0 /\ k <= children_nb(g, x))
  BY <1>2 DEF Follow, Ends
<1>3. QED BY <1>1, <1>2

LEMMA EndTrace ==
    ASSUME NEW g, IsGraph(g), NEW q \in NodesOf(g), NEW p \in Ways
    PROVE  \E r \in [0..Len(p) -> Ends(g)] : LeadsAlong(r, g, q, p)
<1> DEFINE n == Len(p)
           D == 1..n
           A == Ends(g)
           step == [x \in D \X A |-> Follow(g, x[2], p[x[1]])]
           Q(h) == h = [S \in SUBSET D |->
                          IF S = {} THEN q ELSE Follow(g, h[S \ {Max(S)}], p[Max(S)])]
           G == CHOOSE h : Q(h)
           mx == MaxIn(n)
<1>1. n \in Nat /\ DOMAIN p = D /\ \A k \in D : p[k] \in {1, 2}
  BY WayFacts
<1>2. End(g, q, p) = G[D]
  <2>1. DOMAIN p = D
    BY <1>1
  <2>2. QED BY <2>1 DEF End, Follow, FoldLeft, MapThenFoldSet
<1>3. ASSUME NEW w \in A, NEW m \in {1, 2} PROVE Follow(g, w, m) \in A
  BY FollowType
<1>4. /\ IsFiniteSet(D) /\ Chooses(mx, D)
      /\ \A S \in (SUBSET D) \ {{}} : Max(S) \in S
      /\ \A k \in D : Max(1..k) = k /\ (1..k) \ {k} = 1..(k - 1)
  BY <1>1, MaxChosen
<1>5. \A S \in SUBSET D : S # {} => Max(S) \in D /\ mx[S] = Max(S)
  BY <1>4 DEF MaxIn
<1> HIDE DEF A, mx
<1>6. FoldsIn(step, D, A)
  BY <1>1, <1>3 DEF FoldsIn
<1>7. q \in A
  BY DEF A, Ends
<1>8. PICK f \in [SUBSET D -> A] : \A S \in SUBSET D : FoldsTo(f, step, q, mx, S)
  <2> HIDE DEF step, D
  <2>1. HasFold(step, q, mx, D, A)
    BY <1>4, <1>6, <1>7, FoldExists
  <2>2. QED BY <2>1 DEF HasFold
<1>9. Q(f)
  <2>1. ASSUME NEW S \in SUBSET D, S # {}
        PROVE  f[S] = Follow(g, f[S \ {Max(S)}], p[Max(S)])
    <3>1. Max(S) \in D /\ mx[S] = Max(S) /\ S \ {Max(S)} \in SUBSET D
      BY <1>5, <2>1
    <3>2. f[S \ {Max(S)}] \in A
      BY <1>8, <3>1
    <3>3. f[S] = step[<<Max(S), f[S \ {Max(S)}]>>]
      BY <1>8, <2>1, <3>1 DEF FoldsTo
    <3> HIDE DEF D
    <3>4. QED BY <3>1, <3>2, <3>3
  <2>2. f[{}] = q
    BY <1>8 DEF FoldsTo
  <2> HIDE DEF D
  <2>3. \A S \in SUBSET D : f[S] = IF S = {} THEN q
                                   ELSE Follow(g, f[S \ {Max(S)}], p[Max(S)])
    BY <2>1, <2>2
  <2>4. QED BY <1>8, <2>3
<1>10. Q(G)
  <2> HIDE DEF Q
  <2>1. QED BY <1>9
<1> HIDE DEF G
<1>11. \A S \in SUBSET D : G[S] = IF S = {} THEN q
                                  ELSE Follow(g, G[S \ {Max(S)}], p[Max(S)])
  <2> HIDE DEF D
  <2>1. QED BY <1>10, Zenon
<1> HIDE DEF Q
<1> DEFINE r == [k \in 0..n |-> G[1..k]]
           Good == {k \in 0..n : r[k] \in A}
<1>12. r[0] = q
  <2>1. 1..0 = {} /\ {} \in SUBSET D /\ r[0] = G[1..0]
    BY <1>1
  <2>2. QED BY <1>11, <2>1
<1>13. ASSUME NEW k \in 1..n PROVE r[k] = Follow(g, r[k - 1], p[k])
  <2>1. 1..k \in SUBSET D /\ 1..k # {} /\ Max(1..k) = k /\ (1..k) \ {k} = 1..(k - 1)
    BY <1>1, <1>4
  <2>2. r[k] = G[1..k] /\ r[k - 1] = G[1..(k - 1)]
    BY <1>1
  <2> HIDE DEF r, D
  <2>3. QED BY <1>11, <2>1, <2>2
<1>14. r[n] = G[D]
  BY <1>1
<1> HIDE DEF r
<1>15. 0 \in Good
  BY <1>1, <1>7, <1>12
<1>16. ASSUME NEW k \in 0..n, k \in Good, k < n PROVE k + 1 \in Good
  <2>1. k + 1 \in 1..n /\ k + 1 \in 0..n /\ (k + 1) - 1 = k /\ p[k + 1] \in {1, 2}
    BY <1>1, <1>16
  <2>2. r[k + 1] = Follow(g, r[k], p[k + 1])
    BY <1>13, <2>1
  <2>3. QED BY <1>3, <1>16, <2>1, <2>2
<1>17. 0..n \subseteq Good
  <2> HIDE DEF Good, n
  <2>1. n \in Nat /\ 0 \in Good /\ \A k \in 0..n : k \in Good /\ k < n => k + 1 \in Good
    BY <1>1, <1>15, <1>16
  <2>2. QED BY <2>1, SetInductionUpTo
<1>18. r \in [0..n -> A]
  <2>1. \A k \in 0..n : r[k] \in A
    BY <1>17
  <2>2. r = [k \in 0..n |-> r[k]]
    BY DEF r
  <2>3. QED BY <2>1, <2>2
<1>19. LeadsAlong(r, g, q, p)
  BY <1>2, <1>12, <1>13, <1>14 DEF LeadsAlong
<1>20. QED BY <1>18, <1>19 DEF A

LEMMA EndFacts ==
    ASSUME NEW g, IsGraph(g), NEW q \in NodesOf(g), NEW p \in Ways
    PROVE  /\ End(g, q, p) \in Ends(g) /\ End(g, q, <<>>) = q
           /\ \A m \in {1, 2} : End(g, q, Append(p, m)) = Follow(g, End(g, q, p), m)
<1> DEFINE n == Len(p)
<1>0. PICK r \in [0..Len(p) -> Ends(g)] : LeadsAlong(r, g, q, p)
  BY EndTrace
<1>a. End(g, q, p) \in Ends(g)
  <2>1. Len(p) \in 0..Len(p)
    BY WayFacts
  <2>2. QED BY <1>0, <2>1 DEF LeadsAlong
<1>b. End(g, q, <<>>) = q
  <2> DEFINE none == <<>>
  <2>1. none \in Ways /\ Len(none) = 0
    BY DEF Ways
  <2> HIDE DEF none
  <2>2. PICK z \in [0..Len(none) -> Ends(g)] : LeadsAlong(z, g, q, none)
    BY <2>1, EndTrace
  <2>3. End(g, q, none) = q
    BY <2>1, <2>2 DEF LeadsAlong
  <2>4. QED BY <2>3 DEF none
<1>c. ASSUME NEW m \in {1, 2} PROVE End(g, q, Append(p, m)) = Follow(g, End(g, q, p), m)
  <2> DEFINE more == Append(p, m)
  <2>1. /\ more \in Ways /\ Len(more) = n + 1 /\ n \in Nat
        /\ \A k \in 1..n : more[k] = p[k]
        /\ more[n + 1] = m
    BY WayMore, WayFacts
  <2> HIDE DEF more
  <2>2. PICK u \in [0..Len(more) -> Ends(g)] : LeadsAlong(u, g, q, more)
    BY <2>1, EndTrace
  <2> DEFINE S == {k \in 0..n : r[k] = u[k]}
  <2>3. 0 \in S
    BY <1>0, <2>1, <2>2 DEF LeadsAlong
  <2>4. \A k \in 0..n : k \in S /\ k < n => k + 1 \in S
    <3>1. ASSUME NEW k \in 0..n, r[k] = u[k], k < n
          PROVE  r[k + 1] = u[k + 1] /\ k + 1 \in 0..n
      <4>1. k + 1 \in 1..n /\ k + 1 \in 1..(n + 1) /\ (k + 1) - 1 = k
        BY <2>1, <3>1
      <4>2. r[k + 1] = Follow(g, r[k], p[k + 1])
        BY <1>0, <4>1 DEF LeadsAlong
      <4>3. u[k + 1] = Follow(g, u[k], more[k + 1])
        BY <2>1, <2>2, <4>1 DEF LeadsAlong
      <4>4. QED BY <2>1, <3>1, <4>1, <4>2, <4>3
    <3>2. QED BY <3>1
  <2> HIDE DEF S, n
  <2>5. 0..n \subseteq S
    BY <2>1, <2>3, <2>4, SetInductionUpTo
  <2>6. n \in 0..n /\ n + 1 \in 1..(n + 1) /\ (n + 1) - 1 = n
    BY <2>1
  <2>7. r[n] = u[n]
    BY <2>5, <2>6 DEF S
  <2>8. u[n + 1] = Follow(g, u[n], m)
    BY <2>1, <2>2, <2>6 DEF LeadsAlong
  <2>9. r[n] = End(g, q, p) /\ u[n + 1] = End(g, q, more)
    BY <1>0, <2>1, <2>2 DEF LeadsAlong, n
  <2>10. QED BY <2>7, <2>8, <2>9 DEF more
<1>d. QED BY <1>a, <1>b, <1>c

-----------------------------------------------------------------------------
(***************************************************************************)
(* Two sequences in increasing order that start the same set agree.        *)
(***************************************************************************)
Starts(s, n, T, R) ==
    /\ \A i \in 1..n : s[i] \in T
    /\ \A i, j \in 1..n : i < j => <<s[i], s[j]>> \in R
    /\ \A x \in T : (\E i \in 1..n : s[i] = x) \/ \A i \in 1..n : <<s[i], x>> \in R

LEMMA NotAfter ==
    ASSUME NEW n \in Nat, NEW T, NEW R, NEW s, NEW t, Starts(s, n, T, R), Starts(t, n, T, R),
           NEW i \in 1..n, \A j \in 1..(i - 1) : s[j] = t[j], s[i] # t[i],
           \A x \in T : <<x, x>> \notin R
    PROVE  <<t[i], s[i]>> \in R
<1>1. s[i] \in T /\ t[i] \in T
  BY DEF Starts
<1>2. CASE \A j \in 1..n : <<t[j], s[i]>> \in R
  BY <1>2
<1>3. CASE \E j \in 1..n : t[j] = s[i]
  <2>1. PICK j \in 1..n : t[j] = s[i]
    BY <1>3
  <2>2. CASE i < j
    BY <2>1, <2>2 DEF Starts
  <2>3. CASE j < i
    <3>1. j \in 1..(i - 1)
      BY <2>3
    <3>2. s[j] = s[i]
      BY <2>1, <3>1
    <3>3. <<s[j], s[i]>> \in R
      BY <2>3 DEF Starts
    <3>4. QED BY <1>1, <3>2, <3>3
  <2>4. j # i
    BY <2>1
  <2>5. QED BY <2>2, <2>3, <2>4
<1>4. QED BY <1>1, <1>2, <1>3 DEF Starts

LEMMA StartsAgree ==
    ASSUME NEW n \in Nat, NEW T, NEW R, NEW s, NEW t, Starts(s, n, T, R), Starts(t, n, T, R),
           \A x, y \in T : <<x, y>> \in R => <<y, x>> \notin R
    PROVE  \A i \in 1..n : s[i] = t[i]
<1>1. \A x \in T : <<x, x>> \notin R
  OBVIOUS
<1> DEFINE S == {k \in 0..n : \A i \in 1..k : s[i] = t[i]}
<1>2. 0 \in S
  OBVIOUS
<1>3. ASSUME NEW k \in 0..n, k \in S, k < n PROVE k + 1 \in S
  <2> DEFINE i == k + 1
  <2>1. i \in 1..n /\ i \in 0..n /\ i - 1 = k
    BY <1>3
  <2>2. \A j \in 1..(i - 1) : s[j] = t[j] /\ t[j] = s[j]
    BY <1>3, <2>1
  <2> HIDE DEF i
  <2>3. ASSUME s[i] # t[i] PROVE FALSE
    <3>1. <<t[i], s[i]>> \in R
      BY <1>1, <2>1, <2>2, <2>3, NotAfter
    <3>2. <<s[i], t[i]>> \in R
      BY <1>1, <2>1, <2>2, <2>3, NotAfter
    <3>3. s[i] \in T /\ t[i] \in T
      BY <2>1 DEF Starts
    <3>4. QED BY <3>1, <3>2, <3>3
  <2>4. \A j \in 1..i : j \in 1..(i - 1) \/ j = i
    BY <2>1
  <2>5. QED BY <2>1, <2>2, <2>3, <2>4 DEF i
<1> HIDE DEF S
<1>4. 0..n \subseteq S
  BY <1>2, <1>3, SetInductionUpTo
<1>5. n \in S
  BY <1>4
<1>6. QED BY <1>5 DEF S

-----------------------------------------------------------------------------
(***************************************************************************)
(* The routes by which a search finds its nodes.  The node number i is     *)
(* found by a link from a node found before, and all links before that one *)
(* lead to nodes found before i.                                           *)
(***************************************************************************)
IsLink(g, ex, j, k) == j \in 1..Len(ex) /\ k \in 1..children_nb(g, ex[j])
LeadsTo(g, ex, j, k) == g.children[ex[j]][k]

FoundBy(g, ex, rho, i, j, k) ==
    /\ j \in 1..(i - 1) /\ k \in {1, 2} /\ IsLink(g, ex, j, k)
    /\ LeadsTo(g, ex, j, k) = ex[i] /\ rho[i] = Append(rho[j], k)
    /\ \A h \in 1..j, c \in {1, 2} :
          IsLink(g, ex, h, c) /\ (h < j \/ c < k) =>
             \E m \in 1..(i - 1) : LeadsTo(g, ex, h, c) = ex[m]

ByRoutes(g, v, ex, rho) ==
    /\ ex \in Seq(NodesOf(g)) /\ IsInjective(ex) /\ Len(ex) >= 1 /\ ex[1] = v
    /\ rho \in Seq(Ways) /\ Len(rho) = Len(ex) /\ rho[1] = <<>>
    /\ \A i \in 1..Len(ex) : Len(rho[i]) < i
    /\ \A i \in 2..Len(ex) : \E j, k : FoundBy(g, ex, rho, i, j, k)

LEMMA RouteTypes ==
    ASSUME NEW g, NEW v, NEW ex, NEW rho, ByRoutes(g, v, ex, rho)
    PROVE  /\ Len(ex) \in Nat /\ (\A i \in 1..Len(ex) : ex[i] \in NodesOf(g) /\ rho[i] \in Ways)
           /\ \A i, j \in 1..Len(ex) : ex[i] = ex[j] => i = j
<1>1. ex \in Seq(NodesOf(g)) /\ rho \in Seq(Ways) /\ Len(rho) = Len(ex)
  BY DEF ByRoutes
<1>2. Len(ex) \in Nat /\ \A i \in 1..Len(ex) : ex[i] \in NodesOf(g) /\ rho[i] \in Ways
  BY <1>1, LenProperties, ElementOfSeq
<1>3. DOMAIN ex = 1..Len(ex)
  BY <1>1, LenProperties
<1>4. \A i, j \in 1..Len(ex) : ex[i] = ex[j] => i = j
  BY <1>3 DEF ByRoutes, IsInjective
<1>5. QED BY <1>2, <1>4

\* Nodes found later have greater routes.
LEMMA LaterLink ==
    ASSUME NEW g, NEW v, NEW ex, NEW rho, ByRoutes(g, v, ex, rho),
           NEW a \in 2..Len(ex), NEW b \in 2..Len(ex), a < b, NEW j, NEW k, NEW h, NEW c,
           FoundBy(g, ex, rho, a, j, k), FoundBy(g, ex, rho, b, h, c)
    PROVE  j < h \/ (j = h /\ k < c)
<1>1. /\ Len(ex) \in Nat
      /\ \A x, y \in 1..Len(ex) : ex[x] = ex[y] => x = y
  BY RouteTypes
<1>2. /\ j \in 1..(a - 1) /\ k \in {1, 2} /\ LeadsTo(g, ex, j, k) = ex[a]
      /\ h \in 1..(b - 1) /\ c \in {1, 2} /\ IsLink(g, ex, h, c) /\ LeadsTo(g, ex, h, c) = ex[b]
  BY DEF FoundBy
<1>3. CASE h < j \/ (h = j /\ c < k)
  <2>1. h \in 1..j /\ (h < j \/ c < k)
    BY <1>2, <1>3
  <2>2. PICK m \in 1..(a - 1) : LeadsTo(g, ex, h, c) = ex[m]
    BY <1>2, <2>1 DEF FoundBy
  <2>3. ex[m] = ex[b] /\ m \in 1..Len(ex) /\ b \in 1..Len(ex) /\ m # b
    BY <1>1, <1>2, <2>2
  <2>4. QED BY <1>1, <2>3
<1>4. CASE h = j /\ c = k
  <2>1. ex[a] = ex[b] /\ a \in 1..Len(ex) /\ b \in 1..Len(ex) /\ a # b
    BY <1>1, <1>2, <1>4
  <2>2. QED BY <1>1, <2>1
<1>5. QED BY <1>2, <1>3, <1>4

LEMMA RoutesInOrder ==
    ASSUME NEW g, NEW v, NEW ex, NEW rho, ByRoutes(g, v, ex, rho)
    PROVE  \A a, b \in 1..Len(ex) : a < b => Less(rho[a], rho[b])
<1> DEFINE n == Len(ex)
           S == {i \in 0..n : \A a, b \in 1..i : a < b => Less(rho[a], rho[b])}
<1>1. n \in Nat /\ (\A i \in 1..n : rho[i] \in Ways) /\ rho[1] = <<>>
  BY RouteTypes DEF ByRoutes
<1>2. 0 \in S
  BY <1>1
<1>3. ASSUME NEW i \in 0..n, i \in S, i < n PROVE i + 1 \in S
  <2> DEFINE b == i + 1
  <2>1. b \in 1..n /\ b \in 0..n /\ \A a \in 1..b : a \in 1..i \/ a = b
    BY <1>1, <1>3
  <2>2. ASSUME NEW a \in 1..i PROVE Less(rho[a], rho[b])
    <3>1. a \in 1..n /\ a < b /\ b \in 2..n
      BY <1>1, <1>3, <2>2
    <3>2. PICK h, c : FoundBy(g, ex, rho, b, h, c)
      BY <3>1 DEF ByRoutes
    <3>3. h \in 1..i /\ c \in {1, 2} /\ rho[b] = Append(rho[h], c) /\ rho[h] \in Ways
      BY <1>1, <3>1, <3>2 DEF FoundBy
    <3>4. CASE a = 1
      BY <1>1, <3>3, <3>4, LessMore
    <3>5. CASE a # 1
      <4>1. a \in 2..n
        BY <3>1, <3>5
      <4>2. PICK j, k : FoundBy(g, ex, rho, a, j, k)
        BY <4>1 DEF ByRoutes
      <4>3. j \in 1..i /\ k \in {1, 2} /\ rho[a] = Append(rho[j], k) /\ rho[j] \in Ways
        BY <1>1, <3>1, <4>2 DEF FoundBy
      <4>4. j < h \/ (j = h /\ k < c)
        BY <3>1, <3>2, <4>1, <4>2, LaterLink
      <4>5. CASE j < h
        <5>1. Less(rho[j], rho[h])
          BY <1>3, <3>3, <4>3, <4>5
        <5>2. QED BY <3>3, <4>3, <5>1, LessMore
      <4>6. CASE j = h /\ k < c
        BY <3>3, <4>3, <4>6, LessMore
      <4>7. QED BY <4>4, <4>5, <4>6
    <3>6. QED BY <3>4, <3>5
  <2>3. ASSUME NEW x \in 1..b, NEW y \in 1..b, x < y PROVE Less(rho[x], rho[y])
    <3>1. x \in 1..i
      BY <1>3, <2>3
    <3>2. CASE y = b
      BY <2>2, <3>1, <3>2
    <3>3. CASE y \in 1..i
      BY <1>3, <2>3, <3>1, <3>3
    <3>4. QED BY <2>1, <3>2, <3>3
  <2>4. QED BY <2>1, <2>3
<1> HIDE DEF S, n
<1>4. 0..n \subseteq S
  BY <1>1, <1>2, <1>3, SetInductionUpTo
<1>5. n \in S
  BY <1>1, <1>4
<1>6. QED BY <1>5 DEF S, n

LEMMA RouteEnds ==
    ASSUME NEW g, IsGraph(g), NEW v \in NodesOf(g), NEW ex, NEW rho, ByRoutes(g, v, ex, rho)
    PROVE  \A i \in 1..Len(ex) : End(g, v, rho[i]) = ex[i]
<1> DEFINE n == Len(ex)
           S == {i \in 0..n : \A a \in 1..i : End(g, v, rho[a]) = ex[a]}
<1>1. n \in Nat /\ (\A i \in 1..n : rho[i] \in Ways /\ ex[i] \in NodesOf(g))
      /\ rho[1] = <<>> /\ ex[1] = v
  BY RouteTypes DEF ByRoutes
<1>2. 0 \in S
  BY <1>1
<1>3. ASSUME NEW i \in 0..n, i \in S, i < n PROVE i + 1 \in S
  <2> DEFINE b == i + 1
  <2>1. b \in 1..n /\ b \in 0..n /\ \A a \in 1..b : a \in 1..i \/ a = b
    BY <1>1, <1>3
  <2>2. End(g, v, rho[b]) = ex[b]
    <3>1. CASE b = 1
      <4>1. rho[b] = <<>> /\ ex[b] = v
        BY <1>1, <3>1
      <4>2. <<>> \in Ways
        BY DEF Ways
      <4>3. QED BY <4>1, <4>2, EndFacts
    <3>2. CASE b # 1
      <4>1. b \in 2..n
        BY <2>1, <3>2
      <4>2. PICK h, c : FoundBy(g, ex, rho, b, h, c)
        BY <4>1 DEF ByRoutes
      <4>3. h \in 1..i /\ c \in {1, 2} /\ rho[b] = Append(rho[h], c) /\ rho[h] \in Ways
            /\ h \in 1..n /\ c \in 1..children_nb(g, ex[h]) /\ g.children[ex[h]][c] = ex[b]
        BY <1>1, <4>1, <4>2 DEF FoundBy, IsLink, LeadsTo
      <4>4. End(g, v, rho[h]) = ex[h] /\ ex[h] \in NodesOf(g)
        BY <1>1, <1>3, <4>3
      <4>5. End(g, v, rho[b]) = Follow(g, ex[h], c)
        BY <4>3, <4>4, EndFacts
      <4>6. ex[h] # 0 /\ c <= children_nb(g, ex[h])
        <5>1. NodesOf(g) = 1..Len(g.children) /\ Len(g.children) \in Nat
          BY GraphFacts
        <5>2. children_nb(g, ex[h]) \in Nat
          BY <4>4, GraphFacts
        <5>3. QED BY <4>3, <4>4, <5>1, <5>2
      <4>7. QED BY <4>3, <4>5, <4>6 DEF Follow
    <3>3. QED BY <3>1, <3>2
  <2>3. \A a \in 1..b : End(g, v, rho[a]) = ex[a]
    BY <1>3, <2>1, <2>2
  <2>4. QED BY <2>1, <2>3
<1> HIDE DEF S, n
<1>4. 0..n \subseteq S
  BY <1>1, <1>2, <1>3, SetInductionUpTo
<1>5. n \in S
  BY <1>1, <1>4
<1>6. QED BY <1>5 DEF S, n

\* A way before the route of a node leads to a node found before it.
LEMMA EarlierEnds ==
    ASSUME NEW g, IsGraph(g), NEW v \in NodesOf(g), NEW ex, NEW rho, ByRoutes(g, v, ex, rho)
    PROVE  \A q \in Ways, i \in 1..Len(ex) :
              Less(q, rho[i]) /\ End(g, v, q) # 0 => \E m \in 1..(i - 1) : End(g, v, q) = ex[m]
<1> DEFINE n == Len(ex)
           Claim(q, i) == Less(q, rho[i]) /\ End(g, v, q) # 0 =>
                             \E m \in 1..(i - 1) : End(g, v, q) = ex[m]
           S == {d \in Nat : \A q \in Ways, i \in 1..n : Len(q) <= d => Claim(q, i)}
<1>1. n \in Nat /\ (\A i \in 1..n : rho[i] \in Ways /\ ex[i] \in NodesOf(g))
      /\ rho[1] = <<>> /\ ex[1] = v
  BY RouteTypes DEF ByRoutes
<1>2. ASSUME NEW i \in 1..n, NEW q \in Ways, Less(q, rho[i]) PROVE i \in 2..n
  <2>1. ~Less(q, <<>>)
    BY LessMore
  <2>2. i # 1
    BY <1>1, <1>2, <2>1
  <2>3. QED BY <2>2
<1>3. ASSUME NEW i \in 1..n PROVE Claim(<<>>, i)
  <2>1. <<>> \in Ways
    BY DEF Ways
  <2>2. End(g, v, <<>>) = ex[1]
    BY <1>1, <2>1, EndFacts
  <2>3. ASSUME Less(<<>>, rho[i]) PROVE 1 \in 1..(i - 1)
    <3>1. i \in 2..n
      BY <1>2, <2>1, <2>3
    <3>2. QED BY <3>1
  <2>4. QED BY <2>2, <2>3
<1>4. 0 \in S
  <2>1. ASSUME NEW q \in Ways, Len(q) <= 0 PROVE q = <<>>
    BY <2>1, WayFacts
  <2> HIDE DEF Claim
  <2>2. QED BY <1>3, <2>1
<1>5. ASSUME NEW d \in S PROVE d + 1 \in S
  <2>1. ASSUME NEW q \in Ways, NEW i \in 1..n, Len(q) <= d + 1, Less(q, rho[i]), End(g, v, q) # 0
        PROVE  \E m \in 1..(i - 1) : End(g, v, q) = ex[m]
    <3>1. CASE q = <<>>
      BY <1>3, <2>1, <3>1
    <3>2. CASE q # <<>>
      <4>1. PICK p \in Ways, k \in {1, 2} : q = Append(p, k) /\ Len(q) = Len(p) + 1
        BY <3>2, WayIsMore
      <4>2. Len(p) \in Nat /\ Len(p) <= d
        <5>1. Len(p) \in Nat /\ d \in Nat
          BY WayFacts
        <5>2. QED BY <2>1, <4>1, <5>1
      <4>3. i \in 2..n
        BY <1>2, <2>1
      <4>4. PICK j, c : FoundBy(g, ex, rho, i, j, c)
        BY <4>3 DEF ByRoutes
      <4>5. /\ j \in 1..(i - 1) /\ j \in 1..n /\ c \in {1, 2}
            /\ rho[i] = Append(rho[j], c) /\ rho[j] \in Ways
        BY <1>1, <4>3, <4>4 DEF FoundBy
      <4>6. End(g, v, q) = Follow(g, End(g, v, p), k)
        BY <4>1, EndFacts
      <4>7. /\ End(g, v, p) # 0 /\ k <= children_nb(g, End(g, v, p))
            /\ End(g, v, q) = g.children[End(g, v, p)][k]
        BY <2>1, <4>6 DEF Follow
      <4>8. \E h \in 1..j : End(g, v, p) = ex[h] /\ (h < j \/ k < c)
        <5>1. Less(p, rho[j]) \/ (p = rho[j] /\ k < c)
          BY <2>1, <4>1, <4>5, LessBack
        <5>2. CASE Less(p, rho[j])
          <6>1. Claim(p, j)
            <7> HIDE DEF Claim
            <7>1. QED BY <1>5, <4>2, <4>5
          <6>2. PICK h \in 1..(j - 1) : End(g, v, p) = ex[h]
            BY <4>7, <5>2, <6>1
          <6>3. h \in 1..j /\ h < j
            BY <4>5
          <6>4. QED BY <6>2, <6>3
        <5>3. CASE p = rho[j] /\ k < c
          <6>1. End(g, v, p) = ex[j] /\ j \in 1..j
            BY <4>5, <5>3, RouteEnds
          <6>2. QED BY <5>3, <6>1
        <5>4. QED BY <5>1, <5>2, <5>3
      <4>9. PICK h \in 1..j : End(g, v, p) = ex[h] /\ (h < j \/ k < c)
        BY <4>8
      <4>10. IsLink(g, ex, h, k)
        <5>1. h \in 1..n
          BY <4>5
        <5>2. children_nb(g, ex[h]) \in Nat
          BY <1>1, <5>1, GraphFacts
        <5>3. k \in 1..children_nb(g, ex[h])
          BY <4>7, <4>9, <5>2
        <5>4. QED BY <5>1, <5>3 DEF IsLink
      <4>11. PICK m \in 1..(i - 1) : LeadsTo(g, ex, h, k) = ex[m]
        BY <4>4, <4>9, <4>10 DEF FoundBy
      <4>12. QED BY <4>7, <4>9, <4>11 DEF LeadsTo
    <3>3. QED BY <3>1, <3>2
  <2>2. QED BY <2>1
<1> HIDE DEF S
<1>6. S = Nat
  <2>1. S \subseteq Nat
    BY DEF S
  <2>2. QED BY <1>4, <1>5, <2>1, SetInduction
<1>7. ASSUME NEW q \in Ways, NEW i \in 1..n PROVE Claim(q, i)
  <2>1. Len(q) \in S /\ Len(q) <= Len(q)
    BY <1>6, WayFacts
  <2> HIDE DEF Claim
  <2>2. QED BY <2>1 DEF S
<1>8. QED BY <1>7

\* The nodes of a search are the site: its routes are the first of the least.
LessPairs == {pq \in Ways \X Ways : Less(pq[1], pq[2])}

LEMMA RoutesLeast ==
    ASSUME W \in Nat \ {0}, NEW g, IsGraph(g), NEW v \in NodesOf(g), NEW ex, NEW rho,
           ByRoutes(g, v, ex, rho), Len(ex) = W
    PROVE  /\ \A i \in 1..W : rho[i] \in LeastRoutes(g, v)
           /\ \A p \in LeastRoutes(g, v), i \in 1..W : End(g, v, p) = ex[i] => p = rho[i]
           /\ \A p \in LeastRoutes(g, v) :
                 (\E i \in 1..W : rho[i] = p) \/ \A i \in 1..W : Less(rho[i], p)
<1>1. /\ \A i \in 1..W : rho[i] \in Ways /\ ex[i] \in NodesOf(g)
      /\ \A i, j \in 1..W : ex[i] = ex[j] => i = j
  BY RouteTypes
<1>2. \A i \in 1..W : End(g, v, rho[i]) = ex[i] /\ ex[i] # 0
  <2>1. NodesOf(g) = 1..Len(g.children) /\ Len(g.children) \in Nat
    BY GraphFacts
  <2>2. \A x \in NodesOf(g) : x # 0
    BY <2>1
  <2>3. QED BY <1>1, <2>2, RouteEnds
<1>3. \A q \in Ways, i \in 1..W : Less(q, rho[i]) /\ End(g, v, q) # 0 =>
         \E m \in 1..(i - 1) : End(g, v, q) = ex[m]
  BY EarlierEnds
<1>4. ASSUME NEW i \in 1..W PROVE rho[i] \in Routes /\ Least(g, v, rho[i])
  <2>1. rho[i] \in Routes
    <3>1. Len(rho[i]) < i /\ Len(rho[i]) \in Nat /\ i \in 1..W
      BY <1>1, WayFacts DEF ByRoutes
    <3>2. Len(rho[i]) <= W - 1
      BY <3>1
    <3>3. QED BY <1>1, <3>2, RoutesAre
  <2>2. ASSUME NEW q \in Routes, End(g, v, q) = ex[i], Less(q, rho[i]) PROVE FALSE
    <3>1. q \in Ways
      BY <2>2, RoutesAre
    <3>2. PICK m \in 1..(i - 1) : End(g, v, q) = ex[m]
      BY <1>2, <1>3, <2>2, <3>1
    <3>3. m \in 1..W /\ m # i
      OBVIOUS
    <3>4. QED BY <1>1, <2>2, <3>2, <3>3
  <2>3. QED BY <1>2, <2>1, <2>2 DEF Least
<1>5. ASSUME NEW i \in 1..W PROVE rho[i] \in LeastRoutes(g, v)
  BY <1>4 DEF LeastRoutes
<1>6. ASSUME NEW p \in LeastRoutes(g, v), NEW i \in 1..W, End(g, v, p) = ex[i] PROVE p = rho[i]
  <2>1. p \in Routes /\ Least(g, v, p) /\ p \in Ways
    BY RoutesAre DEF LeastRoutes
  <2>2. End(g, v, rho[i]) = End(g, v, p)
    BY <1>2, <1>6
  <2>3. ~Less(p, rho[i]) /\ ~Less(rho[i], p)
    BY <1>4, <2>1, <2>2 DEF Least
  <2>4. QED BY <1>1, <2>1, <2>3, LessFacts
<1>7. ASSUME NEW p \in LeastRoutes(g, v), \A i \in 1..W : rho[i] # p
      PROVE  \A i \in 1..W : Less(rho[i], p)
  <2>1. p \in Ways /\ End(g, v, p) # 0
    BY RoutesAre DEF LeastRoutes, Least
  <2>2. ASSUME NEW i \in 1..W, Less(p, rho[i]) PROVE FALSE
    <3>1. PICK m \in 1..(i - 1) : End(g, v, p) = ex[m]
      BY <1>3, <2>1, <2>2
    <3>2. m \in 1..W
      OBVIOUS
    <3>3. QED BY <1>6, <1>7, <3>1, <3>2
  <2>3. QED BY <1>1, <1>7, <2>1, <2>2, LessFacts
<1>8. QED BY <1>5, <1>6, <1>7

LEMMA SiteIs ==
    ASSUME W \in Nat \ {0}, NEW g, IsGraph(g), NEW v \in NodesOf(g), NEW ex, NEW rho,
           ByRoutes(g, v, ex, rho), Len(ex) = W
    PROVE  Site(g, v) = [i \in 1..W |-> ex[i]]
<1> DEFINE T == LeastRoutes(g, v)
           Q(s) == s \in [1..W -> T] /\ AreFirst(s, T)
           first == CHOOSE s \in [1..W -> T] : AreFirst(s, T)
           r == [i \in 1..W |-> rho[i]]
<1>1. /\ \A i \in 1..W : rho[i] \in T
      /\ \A p \in T : (\E i \in 1..W : rho[i] = p) \/ \A i \in 1..W : Less(rho[i], p)
  BY RoutesLeast
<1>2. \A i, j \in 1..W : i < j => Less(rho[i], rho[j])
  BY RoutesInOrder
<1>3. T \subseteq Ways
  BY RoutesAre DEF LeastRoutes
<1> HIDE DEF T
<1>4. r \in [1..W -> T] /\ DOMAIN r = 1..W /\ \A i \in 1..W : r[i] = rho[i]
  BY <1>1
<1> HIDE DEF r
<1>5. AreFirst(r, T)
  <2>1. \A p \in T \ Range(r) : \A i \in 1..W : Less(r[i], p)
    BY <1>1, <1>4 DEF Range
  <2>2. QED BY <1>2, <1>4, <2>1 DEF AreFirst
<1>6. ASSUME NEW s \in [1..W -> T], AreFirst(s, T) PROVE Starts(s, W, T, LessPairs)
  <2>1. \A i \in 1..W : s[i] \in T /\ s[i] \in Ways
    BY <1>3
  <2>2. \A i, j \in 1..W : i < j => <<s[i], s[j]>> \in LessPairs
    <3>1. ASSUME NEW i \in 1..W, NEW j \in 1..W, i < j PROVE Less(s[i], s[j])
      BY <1>6, <3>1 DEF AreFirst
    <3>2. QED BY <2>1, <3>1 DEF LessPairs
  <2>3. ASSUME NEW x \in T, \A i \in 1..W : s[i] # x PROVE \A i \in 1..W : <<s[i], x>> \in LessPairs
    <3>1. x \notin Range(s)
      BY <2>3 DEF Range
    <3>2. \A i \in 1..W : Less(s[i], x)
      BY <1>6, <3>1 DEF AreFirst
    <3>3. QED BY <1>3, <2>1, <3>2 DEF LessPairs
  <2>4. QED BY <2>1, <2>2, <2>3 DEF Starts
<1>7. first \in [1..W -> T] /\ AreFirst(first, T)
  <2> HIDE DEF first
  <2>1. \E s \in [1..W -> T] : AreFirst(s, T)
    BY <1>4, <1>5
  <2>2. QED BY <2>1 DEF first
<1> HIDE DEF first
<1>8. \A x, y \in T : <<x, y>> \in LessPairs => <<y, x>> \notin LessPairs
  <2>1. \A x, y \in Ways : <<x, y>> \in LessPairs <=> Less(x, y)
    BY DEF LessPairs
  <2>2. QED BY <1>3, <2>1, LessFacts
<1>9. \A i \in 1..W : first[i] = r[i]
  <2>1. Starts(first, W, T, LessPairs) /\ Starts(r, W, T, LessPairs)
    BY <1>4, <1>5, <1>6, <1>7
  <2>2. W \in Nat
    OBVIOUS
  <2> HIDE DEF Starts
  <2>3. QED BY <1>8, <2>1, <2>2, StartsAgree
<1>10. \A i \in 1..W : End(g, v, first[i]) = ex[i]
  BY <1>4, <1>9, RouteEnds
<1>11. Site(g, v) = [i \in 1..W |-> End(g, v, first[i])]
  BY DEF Site, first, T
<1>12. QED BY <1>10, <1>11

-----------------------------------------------------------------------------
(***************************************************************************)
(* The links of the site.  A search takes the links of the nodes it has    *)
(* found in the order of the numbers of their fathers, then of the         *)
(* children: qs are those that wait, ls those the word has, with the       *)
(* number of the node they lead to.  The others were dropped when the site *)
(* was full.                                                               *)
(***************************************************************************)
Before(e, f) == e[1] < f[1] \/ (e[1] = f[1] /\ e[2] < f[2])
InOrder(es) == \A x, y \in 1..Len(es) : x < y => Before(es[x], es[y])
Pairs == Nat \X Nat
NumberedLinks == Nat \X Nat \X Nat

QueueOK(g, ex, qs) ==
    /\ qs \in Seq(Pairs) /\ InOrder(qs)
    /\ \A y \in 1..Len(qs) : IsLink(g, ex, qs[y][1], qs[y][2])

LinksOK(g, ex, ls) ==
    /\ ls \in Seq(NumberedLinks) /\ InOrder(ls)
    /\ \A x \in 1..Len(ls) : /\ IsLink(g, ex, ls[x][1], ls[x][2]) /\ ls[x][3] \in 1..Len(ex)
                             /\ LeadsTo(g, ex, ls[x][1], ls[x][2]) = ex[ls[x][3]]

Waits(qs, j, k) == \E y \in 1..Len(qs) : qs[y][1] = j /\ qs[y][2] = k
Linked(ls, j, k) == \E x \in 1..Len(ls) : ls[x][1] = j /\ ls[x][2] = k
Dropped(g, size, ex, j, k) == /\ Len(ex) = size
                              /\ \A i \in 1..Len(ex) : ex[i] # LeadsTo(g, ex, j, k)

AllLinks(g, size, ex, qs, ls) ==
    \A j, k : IsLink(g, ex, j, k) => Waits(qs, j, k) \/ Linked(ls, j, k) \/ Dropped(g, size, ex, j, k)

SiteSearch(g, v, size, ex, qs, ls, rho) ==
    /\ ByRoutes(g, v, ex, rho) /\ Len(ex) <= size
    /\ QueueOK(g, ex, qs) /\ LinksOK(g, ex, ls)
    /\ \A x \in 1..Len(ls), y \in 1..Len(qs) : Before(ls[x], qs[y])
    /\ AllLinks(g, size, ex, qs, ls)

LEMMA QueueRest ==
    ASSUME NEW g, NEW ex, NEW qs, QueueOK(g, ex, qs), qs # <<>>
    PROVE  /\ qs[1] \in Pairs /\ Len(qs) \in Nat /\ 1 \in 1..Len(qs)
           /\ IsLink(g, ex, qs[1][1], qs[1][2])
           /\ QueueOK(g, ex, Tail(qs)) /\ Len(Tail(qs)) = Len(qs) - 1
           /\ \A y \in 1..Len(Tail(qs)) : /\ Tail(qs)[y] = qs[y + 1] /\ y + 1 \in 1..Len(qs)
                                          /\ Before(qs[1], Tail(qs)[y])
           /\ \A j, k : Waits(qs, j, k) => \/ Waits(Tail(qs), j, k)
                                           \/ j = qs[1][1] /\ k = qs[1][2]
<1> DEFINE rest == Tail(qs)
<1>1. /\ qs \in Seq(Pairs) /\ InOrder(qs)
      /\ \A y \in 1..Len(qs) : IsLink(g, ex, qs[y][1], qs[y][2])
  BY DEF QueueOK
<1>2. Len(qs) \in Nat \ {0}
  BY <1>1, LenProperties, EmptySeq
<1>3. /\ rest \in Seq(Pairs) /\ Len(rest) = Len(qs) - 1
      /\ \A y \in 1..Len(rest) : rest[y] = qs[y + 1]
  BY <1>1, HeadTailProperties
<1>4. 1 \in 1..Len(qs) /\ qs[1] \in Pairs
  BY <1>1, <1>2, ElementOfSeq
<1> HIDE DEF rest
<1>5. \A y \in 1..Len(rest) : y + 1 \in 1..Len(qs) /\ 1 < y + 1
  BY <1>2, <1>3
<1>6. \A y \in 1..Len(rest) : Before(qs[1], rest[y])
  BY <1>1, <1>3, <1>4, <1>5 DEF InOrder
<1>7. InOrder(rest)
  <2>1. ASSUME NEW x \in 1..Len(rest), NEW y \in 1..Len(rest), x < y PROVE Before(rest[x], rest[y])
    <3>1. Before(qs[x + 1], qs[y + 1])
      <4>1. x + 1 \in 1..Len(qs) /\ y + 1 \in 1..Len(qs) /\ x + 1 < y + 1
        BY <1>5, <2>1
      <4>2. QED BY <1>1, <4>1 DEF InOrder
    <3>2. QED BY <1>3, <3>1
  <2>2. QED BY <2>1 DEF InOrder
<1>8. QueueOK(g, ex, rest)
  <2>1. \A y \in 1..Len(rest) : IsLink(g, ex, rest[y][1], rest[y][2])
    BY <1>1, <1>3, <1>5
  <2>2. QED BY <1>3, <1>7, <2>1 DEF QueueOK
<1>9. ASSUME NEW j, NEW k, Waits(qs, j, k), ~(j = qs[1][1] /\ k = qs[1][2])
      PROVE  Waits(rest, j, k)
  <2>1. PICK y \in 1..Len(qs) : qs[y][1] = j /\ qs[y][2] = k
    BY <1>9 DEF Waits
  <2>2. y # 1
    BY <1>9, <2>1
  <2>3. y - 1 \in 1..Len(rest) /\ (y - 1) + 1 = y
    BY <1>2, <1>3, <2>2
  <2>4. rest[y - 1] = qs[y]
    BY <1>3, <2>3
  <2>5. QED BY <2>1, <2>3, <2>4 DEF Waits
<1>10. QED BY <1>1, <1>2, <1>3, <1>4, <1>5, <1>6, <1>8, <1>9 DEF rest

LinkAdded(g, ex, ls, more, j, k, i) ==
    /\ LinksOK(g, ex, more) /\ Len(more) = Len(ls) + 1 /\ Len(ls) \in Nat
    /\ \A x \in 1..Len(ls) : more[x] = ls[x]
    /\ more[Len(ls) + 1] = <<j, k, i>>
    /\ Linked(more, j, k)
    /\ \A h, c : Linked(ls, h, c) => Linked(more, h, c)

LEMMA LinksMore ==
    ASSUME NEW g, NEW ex, NEW ls, LinksOK(g, ex, ls), NEW j \in Nat, NEW k \in Nat,
           NEW i \in 1..Len(ex), Len(ex) \in Nat, IsLink(g, ex, j, k), LeadsTo(g, ex, j, k) = ex[i],
           \A x \in 1..Len(ls) : Before(ls[x], <<j, k>>)
    PROVE  LinkAdded(g, ex, ls, Append(ls, <<j, k, i>>), j, k, i)
<1> DEFINE e == <<j, k, i>>
           more == Append(ls, e)
           n == Len(ls)
<1>1. /\ ls \in Seq(NumberedLinks) /\ InOrder(ls)
      /\ \A x \in 1..n : /\ IsLink(g, ex, ls[x][1], ls[x][2]) /\ ls[x][3] \in 1..Len(ex)
                         /\ LeadsTo(g, ex, ls[x][1], ls[x][2]) = ex[ls[x][3]]
  BY DEF LinksOK
<1>2. e \in NumberedLinks /\ e[1] = j /\ e[2] = k /\ e[3] = i
  BY DEF NumberedLinks
<1>3. \A x \in 1..n : Before(ls[x], e)
  <2>1. e[1] = <<j, k>>[1] /\ e[2] = <<j, k>>[2]
    BY <1>2
  <2> HIDE DEF e
  <2>2. QED BY <2>1 DEF Before
<1> HIDE DEF e
<1>4. /\ more \in Seq(NumberedLinks) /\ Len(more) = n + 1 /\ n \in Nat
      /\ (\A x \in 1..n : more[x] = ls[x]) /\ more[n + 1] = e
  BY <1>1, <1>2, AppendProperties, LenProperties
<1> HIDE DEF more
<1>5. \A x \in 1..(n + 1) : x \in 1..n \/ x = n + 1
  BY <1>4
<1>6. InOrder(more)
  <2>1. ASSUME NEW x \in 1..(n + 1), NEW y \in 1..(n + 1), x < y PROVE Before(more[x], more[y])
    <3>1. x \in 1..n
      BY <1>4, <2>1
    <3>2. CASE y \in 1..n
      <4>1. Before(ls[x], ls[y])
        BY <1>1, <2>1, <3>1, <3>2 DEF InOrder
      <4>2. QED BY <1>4, <3>1, <3>2, <4>1
    <3>3. CASE y = n + 1
      BY <1>3, <1>4, <3>1, <3>3
    <3>4. QED BY <1>5, <3>2, <3>3
  <2>2. QED BY <1>4, <2>1 DEF InOrder
<1>7. ASSUME NEW x \in 1..(n + 1)
      PROVE  /\ IsLink(g, ex, more[x][1], more[x][2]) /\ more[x][3] \in 1..Len(ex)
             /\ LeadsTo(g, ex, more[x][1], more[x][2]) = ex[more[x][3]]
  <2>1. CASE x \in 1..n
    BY <1>1, <1>4, <2>1
  <2>2. CASE x = n + 1
    BY <1>2, <1>4, <2>2
  <2>3. QED BY <1>5, <2>1, <2>2
<1>8. LinksOK(g, ex, more)
  BY <1>4, <1>6, <1>7 DEF LinksOK
<1>9. Linked(more, j, k)
  <2>1. n + 1 \in 1..Len(more)
    BY <1>4
  <2>2. QED BY <1>2, <1>4, <2>1 DEF Linked
<1>10. ASSUME NEW h, NEW c, Linked(ls, h, c) PROVE Linked(more, h, c)
  <2>1. PICK x \in 1..n : ls[x][1] = h /\ ls[x][2] = c
    BY <1>10 DEF Linked
  <2>2. x \in 1..Len(more) /\ more[x] = ls[x]
    BY <1>4
  <2>3. QED BY <2>1, <2>2 DEF Linked
<1>11. QED BY <1>4, <1>8, <1>9, <1>10 DEF LinkAdded, more, e

\* A link to a node that is not found, when the site is full.
LEMMA DropsLink ==
    ASSUME NEW g, NEW v, NEW size, NEW ex, NEW qs, NEW ls, NEW rho,
           SiteSearch(g, v, size, ex, qs, ls, rho), qs # <<>>,
           Dropped(g, size, ex, qs[1][1], qs[1][2])
    PROVE  SiteSearch(g, v, size, ex, Tail(qs), ls, rho)
<1> DEFINE rest == Tail(qs)
<1>1. /\ ByRoutes(g, v, ex, rho) /\ Len(ex) <= size
      /\ QueueOK(g, ex, qs) /\ LinksOK(g, ex, ls)
      /\ (\A x \in 1..Len(ls), y \in 1..Len(qs) : Before(ls[x], qs[y]))
      /\ AllLinks(g, size, ex, qs, ls)
  BY DEF SiteSearch
<1>2. /\ QueueOK(g, ex, rest)
      /\ \A y \in 1..Len(rest) : rest[y] = qs[y + 1] /\ y + 1 \in 1..Len(qs)
      /\ \A j, k : Waits(qs, j, k) => \/ Waits(rest, j, k)
                                      \/ j = qs[1][1] /\ k = qs[1][2]
  BY <1>1, QueueRest
<1> HIDE DEF rest
<1>3. \A x \in 1..Len(ls), y \in 1..Len(rest) : Before(ls[x], rest[y])
  BY <1>1, <1>2
<1>4. AllLinks(g, size, ex, rest, ls)
  BY <1>1, <1>2 DEF AllLinks
<1>5. QED BY <1>1, <1>2, <1>3, <1>4 DEF SiteSearch, rest

\* A link to a node that is found already.
LEMMA TakesLink ==
    ASSUME NEW g, NEW v, NEW size, NEW ex, NEW qs, NEW ls, NEW rho,
           SiteSearch(g, v, size, ex, qs, ls, rho), qs # <<>>, NEW i \in 1..Len(ex),
           LeadsTo(g, ex, qs[1][1], qs[1][2]) = ex[i]
    PROVE  SiteSearch(g, v, size, ex, Tail(qs), Append(ls, <<qs[1][1], qs[1][2], i>>), rho)
<1> DEFINE rest == Tail(qs)
           j == qs[1][1]
           k == qs[1][2]
           more == Append(ls, <<j, k, i>>)
<1>1. /\ ByRoutes(g, v, ex, rho) /\ Len(ex) <= size
      /\ QueueOK(g, ex, qs) /\ LinksOK(g, ex, ls)
      /\ (\A x \in 1..Len(ls), y \in 1..Len(qs) : Before(ls[x], qs[y]))
      /\ AllLinks(g, size, ex, qs, ls)
  BY DEF SiteSearch
<1>2. /\ QueueOK(g, ex, rest) /\ qs[1] \in Pairs /\ 1 \in 1..Len(qs) /\ IsLink(g, ex, j, k)
      /\ \A y \in 1..Len(rest) : /\ rest[y] = qs[y + 1] /\ y + 1 \in 1..Len(qs)
                                 /\ Before(qs[1], rest[y])
      /\ \A h, c : Waits(qs, h, c) => Waits(rest, h, c) \/ (h = j /\ c = k)
  BY <1>1, QueueRest
<1>3. j \in Nat /\ k \in Nat /\ qs[1] = <<j, k>>
  BY <1>2 DEF Pairs
<1>4. Len(ex) \in Nat
  BY <1>1, RouteTypes
<1> HIDE DEF rest, j, k
<1>5. \A x \in 1..Len(ls) : Before(ls[x], <<j, k>>)
  BY <1>1, <1>2, <1>3
<1>6. LeadsTo(g, ex, j, k) = ex[i]
  BY DEF j, k
<1>7. /\ LinksOK(g, ex, more) /\ Len(more) = Len(ls) + 1 /\ Len(ls) \in Nat
      /\ (\A x \in 1..Len(ls) : more[x] = ls[x]) /\ more[Len(ls) + 1] = <<j, k, i>>
      /\ Linked(more, j, k)
      /\ \A h, c : Linked(ls, h, c) => Linked(more, h, c)
  <2>1. LinkAdded(g, ex, ls, more, j, k, i)
    BY <1>1, <1>2, <1>3, <1>4, <1>5, <1>6, LinksMore
  <2> HIDE DEF more
  <2>2. QED BY <2>1 DEF LinkAdded
<1> HIDE DEF more
<1>8. ASSUME NEW x \in 1..Len(more), NEW y \in 1..Len(rest) PROVE Before(more[x], rest[y])
  <2>1. CASE x \in 1..Len(ls)
    BY <1>1, <1>2, <1>7, <2>1
  <2>2. CASE x = Len(ls) + 1
    <3>1. more[x][1] = qs[1][1] /\ more[x][2] = qs[1][2]
      BY <1>3, <1>7, <2>2
    <3>2. QED BY <1>2, <3>1 DEF Before
  <2>3. QED BY <1>7, <2>1, <2>2
<1>9. AllLinks(g, size, ex, rest, more)
  BY <1>1, <1>2, <1>7 DEF AllLinks
<1>10. QED BY <1>1, <1>2, <1>7, <1>8, <1>9 DEF SiteSearch, rest, j, k, more

\* A link to a new node, whose own links come last.
LEMMA RoutesMore ==
    ASSUME NEW g, NEW v, NEW ex, NEW rho, ByRoutes(g, v, ex, rho), NEW y \in NodesOf(g),
           \A i \in 1..Len(ex) : ex[i] # y, NEW j, NEW k \in {1, 2}, IsLink(g, ex, j, k),
           LeadsTo(g, ex, j, k) = y,
           \A h \in 1..j, c \in {1, 2} :
              IsLink(g, ex, h, c) /\ (h < j \/ c < k) =>
                 \E m \in 1..Len(ex) : LeadsTo(g, ex, h, c) = ex[m]
    PROVE  ByRoutes(g, v, Append(ex, y), Append(rho, Append(rho[j], k)))
<1> DEFINE n == Len(ex)
           e2 == Append(ex, y)
           way == Append(rho[j], k)
           r2 == Append(rho, way)
<1>1. /\ ex \in Seq(NodesOf(g)) /\ IsInjective(ex) /\ n >= 1 /\ ex[1] = v /\ n \in Nat
      /\ rho \in Seq(Ways) /\ Len(rho) = n /\ rho[1] = <<>>
      /\ \A i \in 1..n : Len(rho[i]) < i /\ rho[i] \in Ways
      /\ \A i \in 2..n : \E h, c : FoundBy(g, ex, rho, i, h, c)
  BY RouteTypes DEF ByRoutes
<1>2. /\ e2 \in Seq(NodesOf(g)) /\ Len(e2) = n + 1 /\ (\A i \in 1..n : e2[i] = ex[i])
      /\ e2[n + 1] = y
  BY <1>1, AppendProperties
<1>3. IsInjective(e2)
  <2>1. y \notin Range(ex)
    BY <1>1, RangeFacts
  <2>2. QED BY <1>1, <2>1, RangeAppend
<1>4. j \in 1..n
  BY DEF IsLink
<1>5. way \in Ways /\ Len(way) < n + 1
  <2>1. Len(rho[j]) < j /\ Len(rho[j]) \in Nat /\ Len(way) = Len(rho[j]) + 1 /\ way \in Ways
    BY <1>1, <1>4, WayMore, WayFacts
  <2>2. QED BY <1>1, <1>4, <2>1
<1> HIDE DEF e2, way
<1>6. /\ r2 \in Seq(Ways) /\ Len(r2) = n + 1 /\ (\A i \in 1..n : r2[i] = rho[i])
      /\ r2[n + 1] = way
  BY <1>1, <1>5, AppendProperties
<1> HIDE DEF r2
<1>7. \A i \in 1..(n + 1) : i \in 1..n \/ i = n + 1
  BY <1>1
<1>8. ASSUME NEW h \in 1..n, NEW c
      PROVE  /\ IsLink(g, e2, h, c) <=> IsLink(g, ex, h, c)
             /\ LeadsTo(g, e2, h, c) = LeadsTo(g, ex, h, c)
  <2>1. h \in 1..(n + 1) /\ e2[h] = ex[h]
    BY <1>1, <1>2
  <2>2. QED BY <1>2, <2>1 DEF IsLink, LeadsTo
<1>9. ASSUME NEW i \in 2..n, NEW h, NEW c, FoundBy(g, ex, rho, i, h, c)
      PROVE  FoundBy(g, e2, r2, i, h, c)
  <2>1. h \in 1..(i - 1) /\ h \in 1..n /\ i \in 1..n /\ \A m \in 1..(i - 1) : m \in 1..n
    BY <1>1, <1>9 DEF FoundBy
  <2>2. /\ c \in {1, 2} /\ IsLink(g, e2, h, c) /\ LeadsTo(g, e2, h, c) = e2[i]
        /\ r2[i] = Append(r2[h], c)
    BY <1>2, <1>6, <1>8, <1>9, <2>1 DEF FoundBy
  <2>3. ASSUME NEW b \in 1..h, NEW d \in {1, 2}, IsLink(g, e2, b, d), b < h \/ d < c
        PROVE  \E m \in 1..(i - 1) : LeadsTo(g, e2, b, d) = e2[m]
    <3>1. b \in 1..n
      BY <2>1
    <3>2. IsLink(g, ex, b, d) /\ LeadsTo(g, e2, b, d) = LeadsTo(g, ex, b, d)
      BY <1>8, <2>3, <3>1
    <3>3. PICK m \in 1..(i - 1) : LeadsTo(g, ex, b, d) = ex[m]
      BY <1>9, <2>3, <3>2 DEF FoundBy
    <3>4. QED BY <1>2, <2>1, <3>2, <3>3
  <2>4. QED BY <2>1, <2>2, <2>3 DEF FoundBy
<1>10. FoundBy(g, e2, r2, n + 1, j, k)
  <2>1. (n + 1) - 1 = n
    BY <1>1
  <2>2. /\ IsLink(g, e2, j, k) /\ LeadsTo(g, e2, j, k) = e2[n + 1] /\ r2[n + 1] = Append(r2[j], k)
    BY <1>2, <1>4, <1>6, <1>8 DEF way
  <2>3. ASSUME NEW b \in 1..j, NEW d \in {1, 2}, IsLink(g, e2, b, d), b < j \/ d < k
        PROVE  \E m \in 1..n : LeadsTo(g, e2, b, d) = e2[m]
    <3>1. b \in 1..n
      BY <1>1, <1>4
    <3>2. IsLink(g, ex, b, d) /\ LeadsTo(g, e2, b, d) = LeadsTo(g, ex, b, d)
      BY <1>8, <2>3, <3>1
    <3>3. PICK m \in 1..n : LeadsTo(g, ex, b, d) = ex[m]
      BY <2>3, <3>2
    <3>4. QED BY <1>2, <3>2, <3>3
  <2>4. QED BY <1>4, <2>1, <2>2, <2>3 DEF FoundBy
<1>11. \A i \in 2..(n + 1) : \E h, c : FoundBy(g, e2, r2, i, h, c)
  <2>1. \A i \in 2..(n + 1) : i \in 2..n \/ i = n + 1
    BY <1>1
  <2>2. QED BY <1>1, <1>9, <1>10, <2>1
<1>12. \A i \in 1..(n + 1) : Len(r2[i]) < i
  BY <1>1, <1>5, <1>6, <1>7
<1>13. e2[1] = v /\ r2[1] = <<>> /\ n + 1 >= 1
  <2>1. 1 \in 1..n
    BY <1>1
  <2>2. QED BY <1>1, <1>2, <1>6, <2>1
<1>14. QED BY <1>2, <1>3, <1>6, <1>11, <1>12, <1>13 DEF ByRoutes, e2, r2, way

OwnLinks(g, i, y) == [c \in 1..children_nb(g, y) |-> <<i, c>>]

QueueAdded(g, i, y, qs, own, more, e2) ==
    /\ QueueOK(g, e2, more)
    /\ Len(more) = Len(qs) + Len(own) /\ Len(qs) \in Nat /\ Len(own) = children_nb(g, y)
    /\ own \in Seq(Pairs)
    /\ \A x \in 1..Len(qs) : more[x] = qs[x]
    /\ \A c \in 1..Len(own) : more[Len(qs) + c] = <<i, c>> /\ own[c] = <<i, c>>
    /\ \A x \in 1..Len(more) : x \in 1..Len(qs) \/ more[x][1] = i
    /\ \A j, k : Waits(qs, j, k) => Waits(more, j, k)
    /\ \A k : IsLink(g, e2, i, k) => Waits(more, i, k)

LEMMA QueueMore ==
    ASSUME NEW g, IsGraph(g), NEW ex \in Seq(NodesOf(g)), NEW y \in NodesOf(g), NEW qs,
           QueueOK(g, ex, qs)
    PROVE  LET i   == Len(ex) + 1
               own == OwnLinks(g, i, y)
           IN  QueueAdded(g, i, y, qs, own, qs \o own, Append(ex, y))
<1> DEFINE n == Len(ex)
           i == n + 1
           e2 == Append(ex, y)
           own == OwnLinks(g, i, y)
           more == qs \o own
           m == Len(qs)
           d == children_nb(g, y)
<1>1. /\ qs \in Seq(Pairs) /\ InOrder(qs) /\ m \in Nat /\ n \in Nat
      /\ \A x \in 1..m : IsLink(g, ex, qs[x][1], qs[x][2])
  BY LenProperties DEF QueueOK
<1>2. d \in Nat
  BY GraphFacts
<1>3. own \in Seq(Pairs) /\ Len(own) = d /\ \A c \in 1..d : own[c] = <<i, c>>
  <2>1. \A c \in 1..d : <<i, c>> \in Pairs
    BY <1>1, <1>2 DEF Pairs
  <2>2. own = [c \in 1..d |-> <<i, c>>]
    BY DEF OwnLinks
  <2> HIDE DEF own, d, i
  <2>3. QED BY <1>2, <2>1, <2>2
<1>4. /\ e2 \in Seq(NodesOf(g)) /\ Len(e2) = n + 1 /\ (\A x \in 1..n : e2[x] = ex[x])
      /\ e2[n + 1] = y
  BY AppendProperties
<1> HIDE DEF own, d, e2
<1>5. /\ more \in Seq(Pairs) /\ Len(more) = m + d
      /\ \A x \in 1..(m + d) : more[x] = IF x <= m THEN qs[x] ELSE own[x - m]
  BY <1>1, <1>2, <1>3, ConcatProperties
<1> HIDE DEF more
<1>6. (\A x \in 1..m : more[x] = qs[x]) /\ \A c \in 1..d : more[m + c] = <<i, c>> /\ own[c] = <<i, c>>
  <2>1. \A x \in 1..m : x \in 1..(m + d) /\ x <= m
    BY <1>1, <1>2
  <2>2. \A c \in 1..d : m + c \in 1..(m + d) /\ ~(m + c <= m) /\ (m + c) - m = c
    BY <1>1, <1>2
  <2>3. QED BY <1>3, <1>5, <2>1, <2>2
<1>7. ASSUME NEW x \in 1..(m + d), ~(x \in 1..m)
      PROVE  \E c \in 1..d : x = m + c /\ more[x] = <<i, c>> /\ more[x][1] = i /\ more[x][2] = c
  <2>1. x - m \in 1..d /\ x = m + (x - m)
    BY <1>1, <1>2, <1>7
  <2>2. more[x] = <<i, x - m>>
    BY <1>6, <2>1
  <2>3. QED BY <2>1, <2>2
<1>8. \A x \in 1..m : qs[x][1] \in 1..n
  BY <1>1 DEF IsLink
<1>9. InOrder(more)
  <2>1. ASSUME NEW a \in 1..(m + d), NEW b \in 1..(m + d), a < b PROVE Before(more[a], more[b])
    <3>1. CASE b \in 1..m
      <4>1. a \in 1..m
        BY <2>1, <3>1
      <4>2. QED BY <1>1, <1>6, <2>1, <3>1, <4>1 DEF InOrder
    <3>2. CASE ~(b \in 1..m)
      <4>1. PICK c \in 1..d : b = m + c /\ more[b][1] = i /\ more[b][2] = c
        BY <1>7, <3>2
      <4>2. CASE a \in 1..m
        <5>1. more[a][1] \in 1..n
          BY <1>6, <1>8, <4>2
        <5>2. more[a][1] < i
          BY <1>1, <5>1
        <5>3. QED BY <4>1, <5>2 DEF Before
      <4>3. CASE ~(a \in 1..m)
        <5>1. PICK b2 \in 1..d : a = m + b2 /\ more[a][1] = i /\ more[a][2] = b2
          BY <1>7, <4>3
        <5>2. b2 < c
          BY <1>1, <2>1, <4>1, <5>1
        <5>3. QED BY <4>1, <5>1, <5>2 DEF Before
      <4>4. QED BY <4>2, <4>3
    <3>3. QED BY <3>1, <3>2
  <2>2. QED BY <1>5, <2>1 DEF InOrder
<1>10. ASSUME NEW x \in 1..(m + d) PROVE IsLink(g, e2, more[x][1], more[x][2])
  <2>1. CASE x \in 1..m
    <3>1. more[x] = qs[x] /\ IsLink(g, ex, qs[x][1], qs[x][2])
      BY <1>1, <1>6, <2>1
    <3>2. qs[x][1] \in 1..n /\ qs[x][1] \in 1..(n + 1)
      BY <1>1, <1>8, <2>1
    <3>3. QED BY <1>4, <3>1, <3>2 DEF IsLink
  <2>2. CASE ~(x \in 1..m)
    <3>1. PICK c \in 1..d : more[x][1] = i /\ more[x][2] = c
      BY <1>7, <2>2
    <3>2. i \in 1..Len(e2) /\ e2[i] = y
      BY <1>1, <1>4
    <3>3. QED BY <3>1, <3>2 DEF IsLink, d
  <2>3. QED BY <2>1, <2>2
<1>11. QueueOK(g, e2, more)
  BY <1>5, <1>9, <1>10 DEF QueueOK
<1>12. ASSUME NEW j, NEW k, Waits(qs, j, k) PROVE Waits(more, j, k)
  <2>1. PICK x \in 1..m : qs[x][1] = j /\ qs[x][2] = k
    BY <1>12 DEF Waits
  <2>2. x \in 1..Len(more) /\ more[x] = qs[x]
    BY <1>1, <1>2, <1>5, <1>6
  <2>3. QED BY <2>1, <2>2 DEF Waits
<1>13. ASSUME NEW k, IsLink(g, e2, i, k) PROVE Waits(more, i, k)
  <2>1. k \in 1..d
    BY <1>4, <1>13 DEF IsLink, d
  <2>2. m + k \in 1..Len(more) /\ more[m + k] = <<i, k>>
    BY <1>1, <1>2, <1>5, <1>6, <2>1
  <2>3. more[m + k][1] = i /\ more[m + k][2] = k
    BY <2>2
  <2>4. QED BY <2>2, <2>3 DEF Waits
<1>14. \A x \in 1..Len(more) : x \in 1..m \/ more[x][1] = i
  BY <1>5, <1>7
<1>15. QED BY <1>1, <1>3, <1>5, <1>6, <1>11, <1>12, <1>13, <1>14 DEF QueueAdded, own, more, e2, d

LEMMA FindsNode ==
    ASSUME NEW g, IsGraph(g), NEW v, NEW size \in Nat, NEW ex, NEW qs, NEW ls, NEW rho,
           SiteSearch(g, v, size, ex, qs, ls, rho), qs # <<>>, Len(ex) < size, NEW y,
           y = LeadsTo(g, ex, qs[1][1], qs[1][2]), \A i \in 1..Len(ex) : ex[i] # y,
           \A i \in 1..Len(ex) : children_nb(g, ex[i]) <= 2
    PROVE  /\ y \in NodesOf(g)
           /\ SiteSearch(g, v, size, Append(ex, y),
                         Tail(qs) \o OwnLinks(g, Len(ex) + 1, y),
                         Append(ls, <<qs[1][1], qs[1][2], Len(ex) + 1>>),
                         Append(rho, Append(rho[qs[1][1]], qs[1][2])))
<1> DEFINE n == Len(ex)
           j == qs[1][1]
           k == qs[1][2]
           i2 == n + 1
           rest == Tail(qs)
           own == OwnLinks(g, i2, y)
           e2 == Append(ex, y)
           q2 == rest \o own
           l2 == Append(ls, <<j, k, i2>>)
           r2 == Append(rho, Append(rho[j], k))
<1>1. /\ ByRoutes(g, v, ex, rho) /\ n <= size
      /\ QueueOK(g, ex, qs) /\ LinksOK(g, ex, ls)
      /\ (\A x \in 1..Len(ls), z \in 1..Len(qs) : Before(ls[x], qs[z]))
      /\ AllLinks(g, size, ex, qs, ls)
  BY DEF SiteSearch
<1>2. /\ QueueOK(g, ex, rest) /\ qs[1] \in Pairs /\ 1 \in 1..Len(qs) /\ IsLink(g, ex, j, k)
      /\ \A z \in 1..Len(rest) : /\ rest[z] = qs[z + 1] /\ z + 1 \in 1..Len(qs)
                                 /\ Before(qs[1], rest[z])
      /\ \A h, c : Waits(qs, h, c) => Waits(rest, h, c) \/ (h = j /\ c = k)
  BY <1>1, QueueRest
<1>3. j \in Nat /\ k \in Nat /\ qs[1] = <<j, k>>
  BY <1>2 DEF Pairs
<1>4. n \in Nat /\ ex \in Seq(NodesOf(g)) /\ \A i \in 1..n : ex[i] \in NodesOf(g)
  BY <1>1, RouteTypes DEF ByRoutes
<1> HIDE DEF rest, j, k
<1>5. j \in 1..n /\ k \in 1..children_nb(g, ex[j]) /\ LeadsTo(g, ex, j, k) = y
  BY <1>2 DEF IsLink, j, k
<1>6. k \in {1, 2}
  <2>1. children_nb(g, ex[j]) \in Nat /\ children_nb(g, ex[j]) <= 2
    BY <1>4, <1>5, GraphFacts
  <2>2. QED BY <1>3, <1>5, <2>1
<1>7. y \in NodesOf(g)
  <2>1. \A c \in 1..children_nb(g, ex[j]) : g.children[ex[j]][c] \in NodesOf(g)
    BY <1>4, <1>5, GraphFacts
  <2>2. QED BY <1>5, <2>1 DEF LeadsTo
<1>8. ASSUME NEW h \in 1..n, NEW c, IsLink(g, ex, h, c), ~Waits(rest, h, c), ~(h = j /\ c = k)
      PROVE  Linked(ls, h, c)
  <2>1. Waits(qs, h, c) \/ Linked(ls, h, c) \/ Dropped(g, size, ex, h, c)
    BY <1>1, <1>8 DEF AllLinks
  <2>2. QED BY <1>2, <1>8, <2>1 DEF Dropped
<1>9. \A h \in 1..j, c \in {1, 2} :
         IsLink(g, ex, h, c) /\ (h < j \/ c < k) => \E m \in 1..n : LeadsTo(g, ex, h, c) = ex[m]
  <2>1. ASSUME NEW h \in 1..j, NEW c \in {1, 2}, IsLink(g, ex, h, c), h < j \/ c < k
        PROVE  \E m \in 1..n : LeadsTo(g, ex, h, c) = ex[m]
    <3>1. ASSUME Waits(rest, h, c) PROVE FALSE
      <4>1. PICK z \in 1..Len(rest) : rest[z][1] = h /\ rest[z][2] = c
        BY <3>1 DEF Waits
      <4>2. Before(qs[1], rest[z])
        BY <1>2
      <4>3. j < h \/ (j = h /\ k < c)
        BY <4>1, <4>2 DEF Before, j, k
      <4>4. QED BY <1>3, <2>1, <4>3
    <3>2. ~(h = j /\ c = k) /\ h \in 1..n
      BY <1>3, <1>5, <2>1
    <3>3. PICK x \in 1..Len(ls) : ls[x][1] = h /\ ls[x][2] = c
      BY <1>8, <2>1, <3>1, <3>2 DEF Linked
    <3>4. ls[x][3] \in 1..n /\ LeadsTo(g, ex, h, c) = ex[ls[x][3]]
      BY <1>1, <3>3 DEF LinksOK
    <3>5. QED BY <3>4
  <2>2. QED BY <2>1
<1>10. ByRoutes(g, v, e2, r2)
  BY <1>1, <1>2, <1>5, <1>6, <1>7, <1>9, RoutesMore
<1>11. /\ e2 \in Seq(NodesOf(g)) /\ Len(e2) = n + 1 /\ (\A i \in 1..n : e2[i] = ex[i])
       /\ e2[n + 1] = y
  BY <1>4, <1>7, AppendProperties
<1> HIDE DEF r2, q2, own, e2, i2
<1>i. i2 = n + 1
  BY DEF i2
<1>12. /\ QueueOK(g, e2, q2) /\ Len(q2) = Len(rest) + Len(own) /\ Len(rest) \in Nat
       /\ \A x \in 1..Len(rest) : q2[x] = rest[x]
       /\ \A x \in 1..Len(q2) : x \in 1..Len(rest) \/ q2[x][1] = i2
       /\ \A h, c : Waits(rest, h, c) => Waits(q2, h, c)
       /\ \A c : IsLink(g, e2, i2, c) => Waits(q2, i2, c)
  <2>1. QueueAdded(g, i2, y, rest, own, q2, e2)
    BY <1>2, <1>4, <1>7, QueueMore DEF i2, own, q2, e2
  <2>2. QED BY <2>1 DEF QueueAdded
<1>13. ASSUME NEW h \in 1..n, NEW c
       PROVE  /\ IsLink(g, e2, h, c) <=> IsLink(g, ex, h, c)
              /\ LeadsTo(g, e2, h, c) = LeadsTo(g, ex, h, c)
  <2>1. h \in 1..(n + 1) /\ e2[h] = ex[h]
    BY <1>4, <1>11
  <2>2. QED BY <1>11, <2>1 DEF IsLink, LeadsTo
<1>14. LinksOK(g, e2, ls)
  <2>1. ASSUME NEW x \in 1..Len(ls)
        PROVE  /\ IsLink(g, e2, ls[x][1], ls[x][2]) /\ ls[x][3] \in 1..Len(e2)
               /\ LeadsTo(g, e2, ls[x][1], ls[x][2]) = e2[ls[x][3]]
    <3>1. /\ IsLink(g, ex, ls[x][1], ls[x][2]) /\ ls[x][3] \in 1..n
          /\ LeadsTo(g, ex, ls[x][1], ls[x][2]) = ex[ls[x][3]]
      BY <1>1 DEF LinksOK
    <3>2. ls[x][1] \in 1..n
      BY <3>1 DEF IsLink
    <3>3. ls[x][3] \in 1..Len(e2)
      BY <1>4, <1>11, <3>1
    <3>4. QED BY <1>11, <1>13, <3>1, <3>2, <3>3
  <2>2. QED BY <1>1, <2>1 DEF LinksOK
<1>15. \A x \in 1..Len(ls) : Before(ls[x], <<j, k>>)
  BY <1>1, <1>2, <1>3
<1>16. /\ LinksOK(g, e2, l2) /\ Len(l2) = Len(ls) + 1 /\ Len(ls) \in Nat
       /\ (\A x \in 1..Len(ls) : l2[x] = ls[x]) /\ l2[Len(ls) + 1] = <<j, k, i2>>
       /\ Linked(l2, j, k)
       /\ \A h, c : Linked(ls, h, c) => Linked(l2, h, c)
  <2>1. i2 \in 1..Len(e2) /\ Len(e2) \in Nat
    BY <1>4, <1>11, <1>i
  <2>2. IsLink(g, e2, j, k) /\ LeadsTo(g, e2, j, k) = e2[i2]
    BY <1>2, <1>5, <1>11, <1>13, <1>i
  <2>3. LinkAdded(g, e2, ls, l2, j, k, i2)
    BY <1>3, <1>14, <1>15, <2>1, <2>2, LinksMore
  <2> HIDE DEF l2
  <2>4. QED BY <2>3 DEF LinkAdded
<1> HIDE DEF l2
<1>17. ASSUME NEW x \in 1..Len(l2), NEW z \in 1..Len(q2) PROVE Before(l2[x], q2[z])
  <2>1. l2[x][1] \in 1..n
    <3>1. CASE x \in 1..Len(ls)
      <4>1. IsLink(g, ex, ls[x][1], ls[x][2]) /\ l2[x] = ls[x]
        BY <1>1, <1>16, <3>1 DEF LinksOK
      <4>2. QED BY <4>1 DEF IsLink
    <3>2. CASE x = Len(ls) + 1
      BY <1>5, <1>16, <3>2
    <3>3. QED BY <1>16, <3>1, <3>2
  <2>2. CASE z \in 1..Len(rest)
    <3>1. CASE x \in 1..Len(ls)
      BY <1>1, <1>2, <1>12, <1>16, <2>2, <3>1
    <3>2. CASE x = Len(ls) + 1
      <4>1. l2[x][1] = qs[1][1] /\ l2[x][2] = qs[1][2]
        BY <1>3, <1>16, <3>2
      <4>2. Before(qs[1], q2[z])
        BY <1>2, <1>12, <2>2
      <4>3. QED BY <4>1, <4>2 DEF Before
    <3>3. QED BY <1>16, <3>1, <3>2
  <2>3. CASE q2[z][1] = i2
    <3>1. l2[x][1] < q2[z][1]
      BY <1>4, <1>i, <2>1, <2>3
    <3>2. QED BY <3>1 DEF Before
  <2>4. QED BY <1>12, <2>2, <2>3
<1>18. AllLinks(g, size, e2, q2, l2)
  <2>1. ASSUME NEW h, NEW c, IsLink(g, e2, h, c) PROVE Waits(q2, h, c) \/ Linked(l2, h, c)
    <3>1. h \in 1..n \/ h = i2
      BY <1>4, <1>11, <1>i, <2>1 DEF IsLink
    <3>2. CASE h = i2
      BY <1>12, <2>1, <3>2
    <3>3. CASE h \in 1..n
      <4>1. IsLink(g, ex, h, c)
        BY <1>13, <2>1, <3>3
      <4>2. CASE Waits(rest, h, c)
        BY <1>12, <4>2
      <4>3. CASE h = j /\ c = k
        BY <1>16, <4>3
      <4>4. CASE ~Waits(rest, h, c) /\ ~(h = j /\ c = k)
        BY <1>8, <1>16, <3>3, <4>1, <4>4
      <4>5. QED BY <4>2, <4>3, <4>4
    <3>4. QED BY <3>1, <3>2, <3>3
  <2>2. QED BY <2>1 DEF AllLinks
<1>19. Len(e2) <= size
  BY <1>4, <1>11
<1>20. SiteSearch(g, v, size, e2, q2, l2, r2)
  BY <1>10, <1>12, <1>16, <1>17, <1>18, <1>19 DEF SiteSearch
<1>21. QED BY <1>7, <1>20 DEF e2, q2, l2, r2, own, rest, j, k, i2

-----------------------------------------------------------------------------
(***************************************************************************)
(* What a pop does.                                                        *)
(***************************************************************************)
BackLetters(s, x) == IF s.sc # x THEN <<BackTo(list_id(s.explored, x))>> ELSE <<>>

PopsTo(g, size, s, x, k, y, u) ==
    /\ ~Takes(y, s, size) => /\ u.queue = Tail(s.queue) /\ u.explored = s.explored
                             /\ u.sc = s.sc /\ u.mots = s.mots
    /\ Takes(y, s, size) /\ y \in Range(s.explored) =>
          /\ u.queue = Tail(s.queue) /\ u.explored = s.explored /\ u.sc = y
          /\ u.mots = s.mots \o BackLetters(s, x) \o <<OldChild(k, list_id(s.explored, y))>>
    /\ Takes(y, s, size) /\ y \notin Range(s.explored) =>
          /\ u.queue = Tail(s.queue) \o
                         [c \in DOMAIN g.children[y] |-> <<y, c, g.children[y][c]>>]
          /\ u.explored = Append(s.explored, y) /\ u.sc = y
          /\ u.mots = s.mots \o BackLetters(s, x)
                        \o <<NewChild(k, Len(s.explored) + 1, g.symb[y])>>

LEMMA PopIs ==
    ASSUME NEW g, NEW size, NEW s \in SearchStates(g), s.mots # <<>>, NEW x, NEW k, NEW y,
           s.queue[1] = <<x, k, y>>
    PROVE  PopsTo(g, size, s, x, k, y, Pop(g, size, s))
<1> DEFINE u == Pop(g, size, s)
           back == IF s.sc # x /\ s.mots # <<>> THEN <<BackTo(list_id(s.explored, x))>> ELSE <<>>
           rest == Tail(s.queue)
           kids == [c \in DOMAIN g.children[y] |-> <<y, c, g.children[y][c]>>]
<1>1. back = BackLetters(s, x)
  BY DEF BackLetters
<1>2. s.queue[1][1] = x /\ s.queue[1][2] = k /\ s.queue[1][3] = y
  OBVIOUS
<1>3. s = [queue |-> s.queue, explored |-> s.explored, sc |-> s.sc, mots |-> s.mots]
  BY DEF SearchStates
<1>4. ASSUME ~Takes(y, s, size)
      PROVE  u = [queue |-> rest, explored |-> s.explored, sc |-> s.sc, mots |-> s.mots]
  <2>1. u = [s EXCEPT !.queue = rest]
    BY <1>2, <1>4 DEF Pop
  <2> HIDE DEF rest
  <2>2. QED BY <1>3, <2>1
<1>5. ASSUME Takes(y, s, size), y \in Range(s.explored)
      PROVE  u = [queue |-> rest, explored |-> s.explored, sc |-> y,
                  mots |-> s.mots \o BackLetters(s, x) \o <<OldChild(k, list_id(s.explored, y))>>]
  <2>1. u = [s EXCEPT !.queue = rest, !.sc = y,
                      !.mots = s.mots \o back \o <<OldChild(k, list_id(s.explored, y))>>]
    BY <1>2, <1>5 DEF Pop
  <2> DEFINE w == s.mots \o BackLetters(s, x) \o <<OldChild(k, list_id(s.explored, y))>>
  <2>2. u = [s EXCEPT !.queue = rest, !.sc = y, !.mots = w]
    BY <1>1, <2>1
  <2> HIDE DEF rest, w
  <2>3. u = [queue |-> rest, explored |-> s.explored, sc |-> y, mots |-> w]
    BY <1>3, <2>2
  <2>4. QED BY <2>3 DEF w
<1>6. ASSUME Takes(y, s, size), y \notin Range(s.explored)
      PROVE  u = [queue |-> rest \o kids,
                  explored |-> Append(s.explored, y), sc |-> y,
                  mots |-> s.mots \o BackLetters(s, x)
                             \o <<NewChild(k, Len(s.explored) + 1, g.symb[y])>>]
  <2>1. u = [queue |-> rest \o kids,
             explored |-> Append(s.explored, y), sc |-> y,
             mots |-> s.mots \o back \o <<NewChild(k, Len(s.explored) + 1, g.symb[y])>>]
    BY <1>2, <1>6 DEF Pop
  <2>2. QED BY <1>1, <2>1
<1> HIDE DEF kids, u
<1>7. ASSUME ~Takes(y, s, size)
      PROVE  /\ u.queue = Tail(s.queue) /\ u.explored = s.explored
             /\ u.sc = s.sc /\ u.mots = s.mots
  BY <1>4, <1>7
<1>8. ASSUME Takes(y, s, size), y \in Range(s.explored)
      PROVE  /\ u.queue = Tail(s.queue) /\ u.explored = s.explored /\ u.sc = y
             /\ u.mots = s.mots \o BackLetters(s, x) \o <<OldChild(k, list_id(s.explored, y))>>
  BY <1>5, <1>8
<1>9. ASSUME Takes(y, s, size), y \notin Range(s.explored)
      PROVE  /\ u.queue = rest \o kids
             /\ u.explored = Append(s.explored, y) /\ u.sc = y
             /\ u.mots = s.mots \o BackLetters(s, x)
                            \o <<NewChild(k, Len(s.explored) + 1, g.symb[y])>>
  BY <1>6, <1>9
<1> HIDE DEF u
<1>10. PopsTo(g, size, s, x, k, y, u)
  BY <1>7, <1>8, <1>9 DEF kids, rest, PopsTo
<1>11. QED BY <1>10 DEF u

-----------------------------------------------------------------------------
(***************************************************************************)
(* The word spelt from the links: after n links it stands at the node with *)
(* number NumberAfter(ls, n); a letter back comes before a link of another *)
(* node, and a link is new when no link before it led to the same number.  *)
(***************************************************************************)
NumberAfter(ls, n) == IF n = 0 THEN 1 ELSE ls[n][3]
IsNew(ls, n) == ls[n][3] # 1 /\ \A m \in 1..(n - 1) : ls[m][3] # ls[n][3]
BackFor(ls, n) == IF NumberAfter(ls, n - 1) # ls[n][1] THEN <<BackTo(ls[n][1])>> ELSE <<>>
LetterFor(g, ex, ls, n) ==
    IF IsNew(ls, n) THEN NewChild(ls[n][2], ls[n][3], g.symb[ex[ls[n][3]]])
    ELSE OldChild(ls[n][2], ls[n][3])

Spells(sp, g, ex, ls) ==
    /\ sp[0] = <<M1(g.symb[ex[1]])>>
    /\ \A n \in 1..Len(ls) : sp[n] = sp[n - 1] \o BackFor(ls, n) \o <<LetterFor(g, ex, ls, n)>>

Queued(g, ex, q, qs) ==
    /\ Len(q) = Len(qs)
    /\ \A y \in 1..Len(qs) : q[y] = <<ex[qs[y][1]], qs[y][2], LeadsTo(g, ex, qs[y][1], qs[y][2])>>

AllNumbered(ex, ls) == \A i \in 2..Len(ex) : \E m \in 1..Len(ls) : ls[m][3] = i

ReadsSite(g, v, size, s, qs, ls, rho, sp) ==
    /\ SiteSearch(g, v, size, s.explored, qs, ls, rho)
    /\ Queued(g, s.explored, s.queue, qs) /\ AllNumbered(s.explored, ls)
    /\ Spells(sp, g, s.explored, ls) /\ s.mots = sp[Len(ls)]
    /\ s.sc = s.explored[NumberAfter(ls, Len(ls))]

SpellsOn(sp2, sp, g, ex, more, n) ==
    /\ Spells(sp2, g, ex, more)
    /\ sp2[n + 1] = sp[n] \o BackFor(more, n + 1) \o <<LetterFor(g, ex, more, n + 1)>>

LEMMA SpellsMore ==
    ASSUME NEW g, NEW ex, NEW ls, NEW sp, Spells(sp, g, ex, ls), LinksOK(g, ex, ls),
           NEW e2, \A i \in 1..Len(ex) : e2[i] = ex[i], 1 \in 1..Len(ex),
           NEW more, Len(ls) \in Nat, Len(more) = Len(ls) + 1,
           \A x \in 1..Len(ls) : more[x] = ls[x]
    PROVE  \E sp2 : SpellsOn(sp2, sp, g, e2, more, Len(ls))
<1> DEFINE n == Len(ls)
<1>0. n \in Nat /\ Len(more) = n + 1 /\ \A x \in 1..n : more[x] = ls[x]
  OBVIOUS
<1> HIDE DEF n
<1> DEFINE last == sp[n] \o BackFor(more, n + 1) \o <<LetterFor(g, e2, more, n + 1)>>
           sp2 == [x \in 0..(n + 1) |-> IF x <= n THEN sp[x] ELSE last]
<1> HIDE DEF last
<1>1. (\A x \in 0..n : sp2[x] = sp[x]) /\ sp2[n + 1] = last
  BY <1>0
<1> HIDE DEF sp2
<1>2. ASSUME NEW x \in 1..n
      PROVE  BackFor(more, x) = BackFor(ls, x) /\ LetterFor(g, e2, more, x) = LetterFor(g, ex, ls, x)
  <2>1. more[x] = ls[x] /\ \A m \in 1..(x - 1) : more[m] = ls[m]
    BY <1>0
  <2>2. NumberAfter(more, x - 1) = NumberAfter(ls, x - 1)
    <3>1. x - 1 # 0 => x - 1 \in 1..(x - 1)
      OBVIOUS
    <3>2. QED BY <2>1, <3>1 DEF NumberAfter
  <2>3. IsNew(more, x) <=> IsNew(ls, x)
    BY <2>1 DEF IsNew
  <2>4. e2[ls[x][3]] = ex[ls[x][3]]
    BY DEF LinksOK, n
  <2>5. QED BY <2>1, <2>2, <2>3, <2>4 DEF BackFor, LetterFor
<1>3. ASSUME NEW x \in 1..(n + 1)
      PROVE  sp2[x] = sp2[x - 1] \o BackFor(more, x) \o <<LetterFor(g, e2, more, x)>>
  <2>1. CASE x \in 1..n
    <3>1. sp2[x] = sp[x] /\ sp2[x - 1] = sp[x - 1]
      <4>1. x \in 0..n /\ x - 1 \in 0..n
        BY <1>0, <2>1
      <4>2. QED BY <1>1, <4>1
    <3>2. sp[x] = sp[x - 1] \o BackFor(ls, x) \o <<LetterFor(g, ex, ls, x)>>
      BY <2>1 DEF Spells, n
    <3>3. BackFor(more, x) = BackFor(ls, x) /\ LetterFor(g, e2, more, x) = LetterFor(g, ex, ls, x)
      BY <1>2, <2>1
    <3>4. QED BY <3>1, <3>2, <3>3
  <2>2. CASE x = n + 1
    <3>1. x - 1 = n /\ n \in 0..n
      BY <1>0, <2>2
    <3>2. sp2[x - 1] = sp[n] /\ sp2[x] = last
      BY <1>1, <2>2, <3>1
    <3>3. QED BY <2>2, <3>2 DEF last
  <2>3. QED BY <1>0, <2>1, <2>2, SMTT(30)
<1>4. sp2[0] = <<M1(g.symb[e2[1]])>>
  <2>1. 0 \in 0..n
    BY <1>0
  <2>2. sp2[0] = sp[0] /\ e2[1] = ex[1]
    BY <1>1, <2>1
  <2>3. QED BY <2>2 DEF Spells
<1>5. Spells(sp2, g, e2, more)
  <2>1. \A x \in 1..Len(more) : sp2[x] = sp2[x - 1] \o BackFor(more, x) \o <<LetterFor(g, e2, more, x)>>
    BY <1>0, <1>3
  <2>2. QED BY <1>4, <2>1 DEF Spells
<1>6. sp2[n + 1] = sp[n] \o BackFor(more, n + 1) \o <<LetterFor(g, e2, more, n + 1)>>
  BY <1>1 DEF last
<1>7. SpellsOn(sp2, sp, g, e2, more, n)
  BY <1>5, <1>6 DEF SpellsOn
<1>8. QED BY <1>7 DEF n

Reads(g, v, size, s) == \E qs, ls, rho, sp : ReadsSite(g, v, size, s, qs, ls, rho, sp)

\* What a step takes from the queue pays for the nodes it finds.
Pays(a, n, b, m) == /\ a \in Nat /\ n \in Nat /\ b \in Nat /\ m \in Nat
                    /\ b + 1 + 2 * n <= a + 2 * m

LEMMA PaysFacts ==
    ASSUME NEW a \in Nat, NEW n \in Nat, NEW b \in Nat
    PROVE  /\ b = a - 1 => Pays(a, n, b, n)
           /\ b <= a + 1 => Pays(a, n, b, n + 1)
  BY DEF Pays

LEMMA ReadsNext ==
    ASSUME NEW g, IsGraph(g), NEW v \in NodesOf(g), NEW size \in Nat \ {0}, NEW s,
           s \in SearchStates(g), s.mots # <<>>, s.queue # <<>>,
           NEW qs, NEW ls, NEW rho, NEW sp, ReadsSite(g, v, size, s, qs, ls, rho, sp),
           NEW u, u = Pop(g, size, s), \A i \in 1..Len(u.explored) : children_nb(g, u.explored[i]) <= 2
    PROVE  /\ Reads(g, v, size, u)
           /\ Pays(Len(s.queue), Len(s.explored), Len(u.queue), Len(u.explored))
<1> DEFINE ex == s.explored
           n == Len(ex)
           N == Len(ls)
           j == qs[1][1]
           k == qs[1][2]
           x == ex[j]
           y == LeadsTo(g, ex, j, k)
           rest == Tail(qs)
<1>1. /\ SiteSearch(g, v, size, ex, qs, ls, rho) /\ Queued(g, ex, s.queue, qs)
      /\ AllNumbered(ex, ls) /\ Spells(sp, g, ex, ls) /\ s.mots = sp[N]
      /\ s.sc = ex[NumberAfter(ls, N)]
  BY DEF ReadsSite
<1>2. /\ ByRoutes(g, v, ex, rho) /\ n <= size /\ QueueOK(g, ex, qs) /\ LinksOK(g, ex, ls)
  BY <1>1 DEF SiteSearch
<1>3. /\ n \in Nat /\ (\A i \in 1..n : ex[i] \in NodesOf(g)) /\ n >= 1
      /\ (\A a, b \in 1..n : ex[a] = ex[b] => a = b) /\ ex \in Seq(NodesOf(g))
  <2>1. /\ n \in Nat /\ (\A i \in 1..n : ex[i] \in NodesOf(g))
        /\ \A a, b \in 1..n : ex[a] = ex[b] => a = b
    BY <1>2, RouteTypes
  <2>2. n >= 1 /\ ex \in Seq(NodesOf(g))
    BY <1>2 DEF ByRoutes
  <2>3. QED BY <2>1, <2>2
<1>4. /\ N \in Nat /\ ls \in Seq(NumberedLinks) /\ \A m \in 1..N : ls[m][3] \in 1..n
  BY <1>2, LenProperties DEF LinksOK
<1>5. /\ qs # <<>> /\ qs \in Seq(Pairs) /\ Len(qs) = Len(s.queue) /\ Len(qs) \in Nat
      /\ s.queue \in Seq(Triples(g)) /\ s.queue[1] = <<x, k, y>> /\ Len(Tail(s.queue)) = Len(s.queue) - 1
      /\ \A z \in 1..Len(rest) : Tail(s.queue)[z] = s.queue[z + 1] /\ s.queue[z + 1]
             = <<ex[rest[z][1]], rest[z][2], LeadsTo(g, ex, rest[z][1], rest[z][2])>>
  <2>1. s.queue \in Seq(Triples(g)) /\ Len(qs) = Len(s.queue) /\ qs \in Seq(Pairs)
    BY <1>1, <1>2 DEF SearchStates, Queued, QueueOK
  <2>2. Len(qs) \in Nat \ {0} /\ qs # <<>>
    BY <2>1, LenProperties, EmptySeq
  <2>3. 1 \in 1..Len(qs)
    BY <2>2
  <2>4. s.queue[1] = <<x, k, y>>
    BY <1>1, <2>3 DEF Queued
  <2>5. /\ Len(Tail(s.queue)) = Len(s.queue) - 1
        /\ \A z \in 1..(Len(s.queue) - 1) : Tail(s.queue)[z] = s.queue[z + 1]
    BY <2>1, HeadTailProperties
  <2>6. /\ Len(rest) = Len(qs) - 1
        /\ \A z \in 1..Len(rest) : rest[z] = qs[z + 1] /\ z + 1 \in 1..Len(qs)
    BY <1>2, <2>2, QueueRest
  <2>7. \A z \in 1..Len(rest) : s.queue[z + 1]
          = <<ex[rest[z][1]], rest[z][2], LeadsTo(g, ex, rest[z][1], rest[z][2])>>
    BY <1>1, <2>6 DEF Queued
  <2>8. QED BY <2>1, <2>2, <2>4, <2>5, <2>6, <2>7
<1>6. /\ QueueOK(g, ex, rest) /\ Len(rest) = Len(qs) - 1 /\ IsLink(g, ex, j, k)
  BY <1>2, <1>5, QueueRest
<1>7. j \in 1..n /\ x \in NodesOf(g)
  BY <1>3, <1>6 DEF IsLink
<1> DEFINE drop == ~Takes(y, s, size)
           known == y \in Range(ex)
<1>8. /\ drop => /\ u.queue = Tail(s.queue) /\ u.explored = ex
                 /\ u.sc = s.sc /\ u.mots = s.mots
      /\ ~drop /\ known =>
                 /\ u.queue = Tail(s.queue) /\ u.explored = ex /\ u.sc = y
                 /\ u.mots = s.mots \o BackLetters(s, x) \o <<OldChild(k, list_id(ex, y))>>
      /\ ~drop /\ ~known =>
                 /\ u.queue = Tail(s.queue) \o
                                [c \in DOMAIN g.children[y] |-> <<y, c, g.children[y][c]>>]
                 /\ u.explored = Append(ex, y) /\ u.sc = y
                 /\ u.mots = s.mots \o BackLetters(s, x) \o <<NewChild(k, n + 1, g.symb[y])>>
  <2> HIDE DEF j, k, x, y, ex, n, drop, known
  <2>1. PopsTo(g, size, s, x, k, y, u)
    BY <1>5, PopIs
  <2>2. QED BY <2>1 DEF PopsTo, drop, known, ex, n
<1>9. Queued(g, ex, Tail(s.queue), rest)
  BY <1>5, <1>6 DEF Queued
<1>10. drop <=> ~known /\ ~(n < size)
  BY DEF Takes
<1>11. known <=> \E i \in 1..n : ex[i] = y
  BY <1>3, RangeFacts
<1>12. NumberAfter(ls, N) \in 1..n
  BY <1>3, <1>4 DEF NumberAfter
<1>13. list_id(ex, x) = j
  <2>1. x \in Range(ex)
    BY <1>3, <1>7, RangeFacts
  <2>2. list_id(ex, x) \in 1..n /\ ex[list_id(ex, x)] = x
    BY <1>3, <2>1, ListIdFacts
  <2>3. QED BY <1>3, <1>7, <2>2
<1>14. ASSUME NEW more, Len(more) = N + 1, \A m \in 1..N : more[m] = ls[m], more[N + 1][1] = j
       PROVE  BackLetters(s, x) = BackFor(more, N + 1)
  <2>1. (N + 1) - 1 = N /\ NumberAfter(more, N) = NumberAfter(ls, N)
    BY <1>4, <1>14 DEF NumberAfter
  <2>2. s.sc # x <=> NumberAfter(ls, N) # j
    BY <1>1, <1>3, <1>7, <1>12
  <2>3. BackLetters(s, x) = IF NumberAfter(ls, N) # j THEN <<BackTo(j)>> ELSE <<>>
    BY <1>13, <2>2 DEF BackLetters
  <2>4. QED BY <1>14, <2>1, <2>3 DEF BackFor
<1> HIDE DEF j, k, x, y, rest, drop, known
<1> DEFINE qn == Len(s.queue)
           qt == Len(Tail(s.queue))
<1>15. qn \in Nat /\ qt \in Nat /\ qt = qn - 1 /\ n \in Nat
  <2>1. qn \in Nat /\ qn # 0
    BY <1>5, LenProperties, EmptySeq
  <2>2. qt = qn - 1
    BY <1>5
  <2> HIDE DEF qn, qt
  <2>3. QED BY <1>3, <2>1, <2>2
<1>16. Pays(qn, n, qt, n)
  <2> HIDE DEF qn, qt, n
  <2>1. QED BY <1>15, PaysFacts
<1>17. CASE drop
  <2>1. Dropped(g, size, ex, j, k)
    BY <1>2, <1>3, <1>10, <1>11, <1>17 DEF Dropped, y
  <2>2. SiteSearch(g, v, size, ex, rest, ls, rho)
    BY <1>1, <1>5, <2>1, DropsLink DEF rest, j, k
  <2>3. ReadsSite(g, v, size, u, rest, ls, rho, sp)
    BY <1>1, <1>8, <1>9, <1>17, <2>2 DEF ReadsSite
  <2>4. Reads(g, v, size, u)
    BY <2>3 DEF Reads
  <2>5. QED BY <1>8, <1>17, <1>16, <2>4
<1>18. CASE ~drop /\ known
  <2> DEFINE i == list_id(ex, y)
             more == Append(ls, <<j, k, i>>)
  <2>1. i \in 1..n /\ ex[i] = y
    BY <1>3, <1>18, ListIdFacts DEF known
  <2> HIDE DEF i
  <2>2. SiteSearch(g, v, size, ex, rest, more, rho)
    BY <1>1, <1>5, <2>1, TakesLink DEF rest, j, k, y
  <2>3. /\ Len(more) = N + 1 /\ (\A m \in 1..N : more[m] = ls[m]) /\ more[N + 1] = <<j, k, i>>
    <3>1. <<j, k, i>> \in NumberedLinks
      <4>1. j \in Nat /\ k \in Nat
        BY <1>2, <1>5, QueueRest DEF Pairs, j, k
      <4>2. QED BY <1>3, <2>1, <4>1 DEF NumberedLinks
    <3>2. QED BY <1>4, <3>1, AppendProperties
  <2> HIDE DEF more
  <2>4. more[N + 1][1] = j /\ more[N + 1][2] = k /\ more[N + 1][3] = i
    BY <2>3
  <2>5. PICK sp2 : /\ Spells(sp2, g, ex, more)
                   /\ sp2[N + 1] = sp[N] \o BackFor(more, N + 1) \o <<LetterFor(g, ex, more, N + 1)>>
    <3>1. 1 \in 1..n /\ \A a \in 1..n : ex[a] = ex[a]
      BY <1>3
    <3>2. \E sp2 : SpellsOn(sp2, sp, g, ex, more, N)
      BY <1>1, <1>2, <1>4, <2>3, <3>1, SpellsMore
    <3>3. QED BY <3>2 DEF SpellsOn
  <2>6. ~IsNew(more, N + 1)
    <3>1. CASE i = 1
      BY <2>4, <3>1 DEF IsNew
    <3>2. CASE i # 1
      <4>1. i \in 2..n
        BY <1>3, <2>1, <3>2
      <4>2. PICK m \in 1..N : ls[m][3] = i
        BY <1>1, <4>1 DEF AllNumbered
      <4>3. m \in 1..((N + 1) - 1) /\ more[m][3] = i
        BY <1>4, <2>3, <4>2
      <4>4. QED BY <2>4, <4>3 DEF IsNew
    <3>3. QED BY <3>1, <3>2
  <2>7. LetterFor(g, ex, more, N + 1) = OldChild(k, i)
    BY <2>4, <2>6 DEF LetterFor
  <2>8. BackLetters(s, x) = BackFor(more, N + 1)
    BY <1>14, <2>3, <2>4
  <2>9. u.mots = sp2[Len(more)]
    <3>1. u.mots = sp[N] \o BackFor(more, N + 1) \o <<OldChild(k, i)>>
      BY <1>1, <1>8, <1>18, <2>8 DEF i
    <3>2. QED BY <2>3, <2>5, <2>7, <3>1
  <2>10. u.sc = ex[NumberAfter(more, Len(more))]
    <3>1. NumberAfter(more, N + 1) = i
      BY <1>4, <2>4 DEF NumberAfter
    <3>2. QED BY <1>8, <1>18, <2>1, <2>3, <3>1
  <2>11. AllNumbered(ex, more)
    <3>1. ASSUME NEW a \in 2..n PROVE \E m \in 1..Len(more) : more[m][3] = a
      <4>1. PICK m \in 1..N : ls[m][3] = a
        BY <1>1 DEF AllNumbered
      <4>2. m \in 1..Len(more) /\ more[m] = ls[m]
        BY <1>4, <2>3
      <4>3. QED BY <4>1, <4>2
    <3>2. QED BY <3>1 DEF AllNumbered
  <2>12. ReadsSite(g, v, size, u, rest, more, rho, sp2)
    BY <1>8, <1>9, <1>18, <2>2, <2>5, <2>9, <2>10, <2>11 DEF ReadsSite
  <2>13. Reads(g, v, size, u)
    BY <2>12 DEF Reads
  <2>14. QED BY <1>8, <1>18, <1>16, <2>13
<1>19. CASE ~drop /\ ~known
  <2> DEFINE i == n + 1
             e2 == Append(ex, y)
             own == OwnLinks(g, i, y)
             q2 == rest \o own
             more == Append(ls, <<j, k, i>>)
             r2 == Append(rho, Append(rho[j], k))
             kids == [c \in DOMAIN g.children[y] |-> <<y, c, g.children[y][c]>>]
  <2>0. u.explored = e2 /\ u.sc = y /\ u.queue = Tail(s.queue) \o kids
    BY <1>8, <1>19
  <2>1. n < size /\ \A a \in 1..n : ex[a] # y
    BY <1>10, <1>11, <1>19
  <2>2. y \in NodesOf(g)
    <3>1. \A c \in 1..children_nb(g, x) : g.children[x][c] \in NodesOf(g)
      BY <1>7, GraphFacts
    <3>2. QED BY <1>6, <3>1 DEF IsLink, LeadsTo, x, y
  <2>3. /\ e2 \in Seq(NodesOf(g)) /\ Len(e2) = n + 1 /\ (\A a \in 1..n : e2[a] = ex[a])
        /\ e2[n + 1] = y
    BY <1>3, <2>2, AppendProperties
  <2> HIDE DEF e2
  <2>4. /\ \A a \in 1..n : children_nb(g, ex[a]) <= 2
        /\ children_nb(g, y) <= 2 /\ children_nb(g, y) \in Nat
    <3>1. \A a \in 1..(n + 1) : children_nb(g, e2[a]) <= 2
      BY <2>0, <2>3
    <3>2. n + 1 \in 1..(n + 1) /\ \A a \in 1..n : a \in 1..(n + 1)
      BY <1>3
    <3>3. QED BY <2>2, <2>3, <3>1, <3>2, GraphFacts
  <2>5. SiteSearch(g, v, size, e2, q2, more, r2)
    <3>1. size \in Nat /\ y = LeadsTo(g, ex, qs[1][1], qs[1][2])
      BY DEF y, j, k
    <3>2. QED BY <1>1, <1>5, <2>1, <2>4, <3>1, FindsNode DEF rest, j, k, e2
  <2>6. QueueAdded(g, i, y, rest, own, q2, e2)
    BY <1>3, <1>6, <2>2, QueueMore DEF e2
  <2>7. /\ Len(more) = N + 1 /\ (\A m \in 1..N : more[m] = ls[m]) /\ more[N + 1] = <<j, k, i>>
    <3>1. <<j, k, i>> \in NumberedLinks
      <4>1. j \in Nat /\ k \in Nat
        BY <1>2, <1>5, QueueRest DEF Pairs, j, k
      <4>2. QED BY <1>3, <4>1 DEF NumberedLinks
    <3>2. QED BY <1>4, <3>1, AppendProperties
  <2> HIDE DEF more, q2, own, r2
  <2>8. more[N + 1][1] = j /\ more[N + 1][2] = k /\ more[N + 1][3] = i
    BY <2>7
  <2>9. PICK sp2 : /\ Spells(sp2, g, e2, more)
                   /\ sp2[N + 1] = sp[N] \o BackFor(more, N + 1) \o <<LetterFor(g, e2, more, N + 1)>>
    <3>1. 1 \in 1..n
      BY <1>3
    <3>2. \E sp2 : SpellsOn(sp2, sp, g, e2, more, N)
      BY <1>1, <1>2, <1>4, <2>3, <2>7, <3>1, SpellsMore
    <3>3. QED BY <3>2 DEF SpellsOn
  <2>10. IsNew(more, N + 1)
    <3>1. ASSUME NEW m \in 1..((N + 1) - 1) PROVE more[m][3] # i
      <4>1. m \in 1..N
        BY <1>4
      <4>2. more[m][3] \in 1..n
        BY <1>4, <2>7, <4>1
      <4>3. QED BY <1>3, <4>2
    <3>2. i # 1
      BY <1>3
    <3>3. QED BY <2>8, <3>1, <3>2 DEF IsNew
  <2>11. LetterFor(g, e2, more, N + 1) = NewChild(k, i, g.symb[y])
    BY <2>3, <2>8, <2>10 DEF LetterFor
  <2>12. BackLetters(s, x) = BackFor(more, N + 1)
    BY <1>14, <2>7, <2>8
  <2>13. u.mots = sp2[Len(more)]
    BY <1>1, <1>8, <1>19, <2>7, <2>9, <2>11, <2>12
  <2>14. u.sc = e2[NumberAfter(more, Len(more))]
    <3>1. NumberAfter(more, N + 1) = i
      BY <1>4, <2>8 DEF NumberAfter
    <3>2. QED BY <2>0, <2>3, <2>7, <3>1
  <2>15. AllNumbered(e2, more)
    <3>1. ASSUME NEW a \in 2..(n + 1) PROVE \E m \in 1..Len(more) : more[m][3] = a
      <4>1. CASE a = n + 1
        <5>1. N + 1 \in 1..Len(more)
          BY <1>4, <2>7
        <5>2. QED BY <2>8, <4>1, <5>1
      <4>2. CASE a \in 2..n
        <5>1. PICK m \in 1..N : ls[m][3] = a
          BY <1>1, <4>2 DEF AllNumbered
        <5>2. m \in 1..Len(more) /\ more[m] = ls[m]
          BY <1>4, <2>7
        <5>3. QED BY <5>1, <5>2
      <4>3. QED BY <1>3, <4>1, <4>2
    <3>2. QED BY <2>3, <3>1 DEF AllNumbered
  <2>16. /\ Len(q2) = Len(rest) + Len(own) /\ Len(rest) \in Nat /\ Len(own) = children_nb(g, y)
         /\ (\A z \in 1..Len(rest) : q2[z] = rest[z])
         /\ \A c \in 1..Len(own) : q2[Len(rest) + c] = <<i, c>>
    BY <2>6 DEF QueueAdded
  <2>17. kids \in Seq(Triples(g)) /\ Len(kids) = children_nb(g, y)
         /\ \A c \in 1..Len(kids) : kids[c] = <<y, c, g.children[y][c]>>
    <3>1. DOMAIN g.children[y] = 1..children_nb(g, y) /\ children_nb(g, y) \in Nat
          /\ \A c \in 1..children_nb(g, y) : g.children[y][c] \in NodesOf(g)
      BY <2>2, GraphFacts
    <3>2. y \in Nat
      <4>1. NodesOf(g) = 1..Len(g.children) /\ Len(g.children) \in Nat
        BY GraphFacts
      <4>2. QED BY <2>2, <4>1
    <3>3. \A c \in 1..children_nb(g, y) : <<y, c, g.children[y][c]>> \in Triples(g)
      BY <2>2, <3>1, <3>2 DEF Triples
    <3>4. kids = [c \in 1..children_nb(g, y) |-> <<y, c, g.children[y][c]>>]
      BY <3>1
    <3> HIDE DEF kids
    <3>5. kids \in Seq(Triples(g)) /\ Len(kids) = children_nb(g, y)
      BY <3>1, <3>3, <3>4
    <3>6. QED BY <3>4, <3>5
  <2> HIDE DEF kids
  <2>18. /\ Tail(s.queue) \in Seq(Triples(g)) /\ Len(Tail(s.queue)) = Len(rest)
    BY <1>5, <1>6, HeadTailProperties, EmptySeq
  <2>19. /\ Len(u.queue) = Len(rest) + Len(kids)
         /\ \A z \in 1..(Len(rest) + Len(kids)) :
               u.queue[z] = IF z <= Len(rest) THEN Tail(s.queue)[z] ELSE kids[z - Len(rest)]
    <3> DEFINE tl == Tail(s.queue)
    <3>1. tl \in Seq(Triples(g)) /\ Len(tl) = Len(rest) /\ u.queue = tl \o kids
      BY <2>0, <2>18
    <3> HIDE DEF tl
    <3>2. /\ Len(tl \o kids) = Len(tl) + Len(kids)
          /\ \A z \in 1..(Len(tl) + Len(kids)) :
                (tl \o kids)[z] = IF z <= Len(tl) THEN tl[z] ELSE kids[z - Len(tl)]
      BY <2>17, <3>1, ConcatProperties
    <3>3. QED BY <3>1, <3>2 DEF tl
  <2>20. Queued(g, e2, u.queue, q2)
    <3>1. Len(u.queue) = Len(q2)
      BY <2>16, <2>17, <2>19
    <3>2. ASSUME NEW z \in 1..Len(q2)
          PROVE  u.queue[z] = <<e2[q2[z][1]], q2[z][2], LeadsTo(g, e2, q2[z][1], q2[z][2])>>
      <4>1. CASE z \in 1..Len(rest)
        <5>1. q2[z] = rest[z] /\ z <= Len(rest) /\ z \in 1..(Len(rest) + Len(kids))
          BY <2>16, <2>17, <4>1
        <5>2. u.queue[z] = Tail(s.queue)[z]
          BY <2>19, <5>1
        <5>3. Tail(s.queue)[z] = <<ex[rest[z][1]], rest[z][2], LeadsTo(g, ex, rest[z][1], rest[z][2])>>
          BY <1>5, <4>1
        <5>4. rest[z][1] \in 1..n
          BY <1>6, <4>1 DEF QueueOK, IsLink
        <5>5. e2[rest[z][1]] = ex[rest[z][1]]
          BY <2>3, <5>4
        <5>6. LeadsTo(g, e2, rest[z][1], rest[z][2]) = LeadsTo(g, ex, rest[z][1], rest[z][2])
          BY <5>5 DEF LeadsTo
        <5>7. QED BY <5>1, <5>2, <5>3, <5>5, <5>6
      <4>2. CASE ~(z \in 1..Len(rest))
        <5> DEFINE c == z - Len(rest)
        <5>1. /\ c \in 1..Len(own) /\ c \in 1..Len(kids) /\ ~(z <= Len(rest)) /\ z = Len(rest) + c
              /\ z \in 1..(Len(rest) + Len(kids))
          BY <2>4, <2>16, <2>17, <4>2
        <5>2. u.queue[z] = kids[c]
          BY <2>19, <5>1
        <5> HIDE DEF c
        <5>3. u.queue[z] = <<y, c, g.children[y][c]>>
          BY <2>17, <5>1, <5>2
        <5>4. q2[z] = <<i, c>>
          BY <2>16, <5>1
        <5>5. q2[z][1] = n + 1 /\ q2[z][2] = c
          BY <5>4
        <5>6. LeadsTo(g, e2, n + 1, c) = g.children[y][c]
          BY <2>3 DEF LeadsTo
        <5>7. QED BY <2>3, <5>3, <5>5, <5>6
      <4>3. QED BY <4>1, <4>2
    <3>3. QED BY <3>1, <3>2 DEF Queued
  <2>21. ReadsSite(g, v, size, u, q2, more, r2, sp2)
    BY <2>0, <2>5, <2>9, <2>13, <2>14, <2>15, <2>20 DEF ReadsSite
  <2>22. /\ Len(u.queue) \in Nat /\ Len(s.queue) \in Nat /\ Len(u.explored) = n + 1
         /\ Len(u.queue) <= Len(s.queue) + 1
    BY <1>5, <1>6, <2>0, <2>3, <2>4, <2>16, <2>17, <2>19
  <2>23. Pays(Len(s.queue), n, Len(u.queue), n + 1)
    BY <1>3, <2>22, PaysFacts
  <2>24. Reads(g, v, size, u)
    BY <2>21 DEF Reads
  <2>25. QED BY <2>22, <2>23, <2>24
<1>20. QED BY <1>17, <1>18, <1>19
LEMMA RootQueue ==
    ASSUME NEW g, IsGraph(g), NEW v \in NodesOf(g)
    PROVE  /\ QueueOK(g, <<v>>, OwnLinks(g, 1, v)) /\ Len(OwnLinks(g, 1, v)) = children_nb(g, v)
           /\ children_nb(g, v) \in Nat
           /\ \A c \in 1..children_nb(g, v) : OwnLinks(g, 1, v)[c] = <<1, c>>
<1> DEFINE ex == <<v>>
           qs == OwnLinks(g, 1, v)
           d == children_nb(g, v)
<1>1. d \in Nat /\ Len(ex) = 1 /\ ex[1] = v
  BY GraphFacts
<1>2. \A c \in 1..d : <<1, c>> \in Pairs
  BY <1>1 DEF Pairs
<1>3. qs = [c \in 1..d |-> <<1, c>>]
  BY DEF OwnLinks
<1> HIDE DEF qs, d, ex
<1>4. qs \in Seq(Pairs) /\ Len(qs) = d /\ \A c \in 1..d : qs[c] = <<1, c>>
  BY <1>1, <1>2, <1>3
<1>5. \A c \in 1..d : qs[c][1] = 1 /\ qs[c][2] = c
  BY <1>4
<1>6. InOrder(qs)
  BY <1>4, <1>5 DEF InOrder, Before
<1>7. \A c \in 1..d : IsLink(g, ex, 1, c)
  BY <1>1 DEF IsLink, d
<1>8. QueueOK(g, ex, qs)
  BY <1>4, <1>5, <1>6, <1>7 DEF QueueOK
<1>9. QED BY <1>1, <1>4, <1>8 DEF qs, d, ex

LEMMA RootRoutes ==
    ASSUME NEW g, NEW v \in NodesOf(g)
    PROVE  ByRoutes(g, v, <<v>>, << <<>> >>)
<1> DEFINE ex == <<v>>
           rho == << <<>> >>
<1>1. ex \in Seq(NodesOf(g)) /\ Len(ex) = 1 /\ ex[1] = v
  OBVIOUS
<1>2. rho \in Seq(Ways) /\ Len(rho) = 1 /\ rho[1] = <<>>
  <2>1. <<>> \in Ways
    BY WayFacts DEF Ways
  <2>2. QED BY <2>1
<1>3. IsInjective(ex)
  <2>1. DOMAIN ex = {1}
    BY <1>1
  <2>2. QED BY <2>1 DEF IsInjective
<1>4. Len(<<>>) = 0
  OBVIOUS
<1> HIDE DEF ex, rho
<1>5. \A i \in 1..Len(ex) : Len(rho[i]) < i
  BY <1>1, <1>2, <1>4
<1>6. 2..Len(ex) = {}
  BY <1>1
<1>7. ByRoutes(g, v, ex, rho)
  BY <1>1, <1>2, <1>3, <1>5, <1>6 DEF ByRoutes
<1>8. QED BY <1>7 DEF ex, rho

LEMMA ReadsRoot ==
    ASSUME NEW g, IsGraph(g), NEW v \in NodesOf(g), NEW size \in Nat \ {0}, NEW u,
           u.explored = <<v>>, u.sc = v, u.mots = <<M1(g.symb[v])>>,
           u.queue = [c \in DOMAIN g.children[v] |-> <<v, c, g.children[v][c]>>]
    PROVE  /\ Reads(g, v, size, u)
           /\ Len(u.queue) = children_nb(g, v) /\ children_nb(g, v) \in Nat
<1> DEFINE ex == <<v>>
           qs == OwnLinks(g, 1, v)
           ls == <<>>
           rho == << <<>> >>
           m == <<M1(g.symb[v])>>
           sp == [n \in 0..0 |-> m]
           d == children_nb(g, v)
<1>1. ex[1] = v /\ Len(ex) = 1 /\ Len(ls) = 0 /\ u.explored = ex /\ ls \in Seq(NumberedLinks)
  OBVIOUS
<1>2. ByRoutes(g, v, ex, rho)
  BY RootRoutes
<1>3. QueueOK(g, ex, qs) /\ Len(qs) = d /\ d \in Nat /\ \A c \in 1..d : qs[c] = <<1, c>>
  BY RootQueue
<1>4. sp[0] = m
  OBVIOUS
<1>5. m = <<M1(g.symb[v])>>
  OBVIOUS
<1>6. u.queue = [c \in 1..d |-> <<v, c, g.children[v][c]>>]
  BY GraphFacts
<1>7. d = children_nb(g, v) /\ u.mots = m
  OBVIOUS
<1> HIDE DEF ex, qs, ls, rho, sp, d, m
<1>8. LinksOK(g, ex, ls)
  BY <1>1 DEF LinksOK, InOrder
<1>9. \A c \in 1..d : qs[c][1] = 1 /\ qs[c][2] = c
  BY <1>3
<1>10. AllLinks(g, size, ex, qs, ls)
  <2>1. ASSUME NEW j, NEW k, IsLink(g, ex, j, k) PROVE Waits(qs, j, k)
    <3>1. j = 1 /\ k \in 1..d
      BY <1>1, <1>7, <2>1 DEF IsLink
    <3>2. QED BY <1>3, <1>9, <3>1 DEF Waits
  <2>2. QED BY <2>1 DEF AllLinks
<1>11. SiteSearch(g, v, size, ex, qs, ls, rho)
  BY <1>1, <1>2, <1>3, <1>8, <1>10 DEF SiteSearch
<1>12. Len(u.queue) = d /\ \A c \in 1..d : u.queue[c] = <<v, c, g.children[v][c]>>
  BY <1>3, <1>6
<1>13. Queued(g, ex, u.queue, qs)
  BY <1>1, <1>3, <1>9, <1>12 DEF Queued, LeadsTo
<1>14. Spells(sp, g, ex, ls)
  BY <1>1, <1>4, <1>5 DEF Spells
<1>15. AllNumbered(ex, ls)
  BY <1>1 DEF AllNumbered
<1>16. NumberAfter(ls, Len(ls)) = 1
  BY <1>1 DEF NumberAfter
<1>17. ReadsSite(g, v, size, u, qs, ls, rho, sp)
  BY <1>1, <1>4, <1>7, <1>11, <1>13, <1>14, <1>15, <1>16 DEF ReadsSite
<1>18. QED BY <1>3, <1>7, <1>12, <1>17 DEF Reads
TwoSons(g, s) == \A i \in 1..Len(s.explored) : children_nb(g, s.explored[i]) <= 2

LEMMA PopKeepsNodes ==
    ASSUME NEW g, NEW size, NEW s \in SearchStates(g), s.mots # <<>>, s.queue # <<>>,
           Pop(g, size, s) \in SearchStates(g), TwoSons(g, Pop(g, size, s))
    PROVE  TwoSons(g, s)
<1> DEFINE u == Pop(g, size, s)
           ex == s.explored
<1>1. s.queue \in Seq(Triples(g)) /\ ex \in Seq(NodesOf(g))
  BY DEF SearchStates
<1>2. s.queue[1] \in Triples(g)
  BY <1>1, ElementOfSeq, LenProperties, EmptySeq
<1>3. PICK x, k, y : s.queue[1] = <<x, k, y>> /\ y \in NodesOf(g)
  BY <1>2 DEF Triples
<1>4. PopsTo(g, size, s, x, k, y, u)
  BY <1>3, PopIs
<1>5. u.explored = ex \/ u.explored = Append(ex, y)
  <2> HIDE DEF u, ex
  <2>1. QED BY <1>4 DEF PopsTo, ex
<1>6. Len(ex) \in Nat
  BY <1>1, LenProperties
<1>7. Len(u.explored) >= Len(ex) /\ Len(u.explored) \in Nat /\ \A i \in 1..Len(ex) : u.explored[i] = ex[i]
  <2> DEFINE e2 == u.explored
  <2> HIDE DEF u, e2, ex
  <2>1. CASE e2 = ex
    BY <1>6, <2>1 DEF e2
  <2>2. CASE e2 = Append(ex, y)
    <3>1. Len(e2) = Len(ex) + 1 /\ \A i \in 1..Len(ex) : e2[i] = ex[i]
      BY <1>1, <1>3, <2>2, AppendProperties
    <3>2. QED BY <1>6, <3>1 DEF e2
  <2>3. QED BY <1>5, <2>1, <2>2 DEF e2
<1> HIDE DEF u, ex
<1>8. \A i \in 1..Len(u.explored) : children_nb(g, u.explored[i]) <= 2
  BY DEF TwoSons, u
<1>9. \A i \in 1..Len(ex) : children_nb(g, ex[i]) <= 2
  BY <1>6, <1>7, <1>8
<1>10. QED BY <1>9 DEF TwoSons, ex

Paid(a, t, n) == a \in Nat /\ n \in Nat /\ (a = 0 \/ a + t <= 1 + 2 * n)

LEMMA PaidFacts ==
    ASSUME NEW t \in Nat, NEW a, NEW n, NEW b, NEW m
    PROVE  /\ Paid(a, t, n) /\ a = 0 => Paid(a, t + 1, n)
           /\ Paid(a, t, n) /\ a # 0 /\ Pays(a, n, b, m) => Paid(b, t + 1, m)
<1>1. Paid(a, t, n) /\ a = 0 => Paid(a, t + 1, n)
  BY DEF Paid
<1>2. ASSUME Paid(a, t, n), a # 0, Pays(a, n, b, m) PROVE Paid(b, t + 1, m)
  BY <1>2 DEF Paid, Pays
<1>3. QED BY <1>1, <1>2

LEMMA RunReads ==
    ASSUME NEW g, IsGraph(g), NEW v \in NodesOf(g), NEW size \in Nat \ {0}, NEW r,
           RunsFrom(r, g, v, size), TwoSons(g, r[2 * size + 1])
    PROVE  Reads(g, v, size, r[2 * size + 1]) /\ r[2 * size + 1].queue = <<>>
<1> DEFINE n == 2 * size
           P(t) == TwoSons(g, r[t]) => /\ Reads(g, v, size, r[t])
                                       /\ Paid(Len(r[t].queue), t, Len(r[t].explored))
           S == {t \in 0..n : P(t + 1)}
<1>1. n \in Nat /\ 2 * size + 1 = n + 1
  OBVIOUS
<1>2. ASSUME NEW t \in 1..(n + 1)
      PROVE  r[t] = Popped(g, size, r[t - 1]) /\ Searched(g, v, size, r[t]) /\ r[t].mots # <<>>
  BY <1>1, <1>2 DEF RunsFrom
<1>3. ASSUME NEW t \in 1..(n + 1)
      PROVE  /\ r[t] \in SearchStates(g) /\ Len(r[t].explored) \in Nat /\ Len(r[t].queue) \in Nat
             /\ Len(r[t].explored) <= size /\ (Len(r[t].queue) = 0 => r[t].queue = <<>>)
             /\ (r[t].queue = <<>> => Len(r[t].queue) = 0)
  <2>1. r[t] # SearchStart(v)
    BY <1>2 DEF SearchStart
  <2>2. r[t] \in SearchStates(g) /\ Len(r[t].explored) <= size
    BY <1>2, <2>1 DEF Searched
  <2>3. r[t].queue \in Seq(Triples(g)) /\ r[t].explored \in Seq(NodesOf(g))
    BY <2>2 DEF SearchStates
  <2>4. QED BY <2>2, <2>3, LenProperties, EmptySeq
<1>4. P(1)
  <2>1. r[1] = Pop(g, size, SearchStart(v))
    <3>1. 1 \in 1..(n + 1) /\ 1 - 1 = 0
      BY <1>1
    <3>2. r[1] = Popped(g, size, SearchStart(v))
      BY <1>2, <3>1 DEF RunsFrom
    <3>3. SearchStart(v).queue # <<>>
      BY DEF SearchStart
    <3>4. QED BY <3>2, <3>3 DEF Popped
  <2>2. /\ r[1].explored = <<v>> /\ r[1].sc = v /\ r[1].mots = <<M1(g.symb[v])>>
        /\ r[1].queue = [c \in DOMAIN g.children[v] |-> <<v, c, g.children[v][c]>>]
    BY <2>1, PopRoot
  <2>3. Reads(g, v, size, r[1]) /\ Len(r[1].queue) = children_nb(g, v) /\ children_nb(g, v) \in Nat
    BY <2>2, ReadsRoot
  <2>4. Len(r[1].explored) = 1 /\ r[1].explored[1] = v
    BY <2>2
  <2>5. ASSUME TwoSons(g, r[1]) PROVE children_nb(g, v) <= 2
    BY <2>4, <2>5 DEF TwoSons
  <2>6. ASSUME TwoSons(g, r[1]) PROVE Paid(Len(r[1].queue), 1, Len(r[1].explored))
    BY <2>3, <2>4, <2>5, <2>6 DEF Paid
  <2>7. QED BY <2>3, <2>6
<1>5. ASSUME NEW t \in 0..n, P(t + 1), t < n
      PROVE  P((t + 1) + 1)
  <2> DEFINE s == r[t + 1]
             u == r[(t + 1) + 1]
  <2>1. t + 1 \in 1..(n + 1) /\ (t + 1) + 1 \in 1..(n + 1) /\ ((t + 1) + 1) - 1 = t + 1 /\ t + 1 \in Nat
    BY <1>1, <1>5
  <2>2. u = Popped(g, size, s)
    BY <1>2, <2>1
  <2>3. /\ s \in SearchStates(g) /\ s.mots # <<>> /\ u \in SearchStates(g)
        /\ Len(s.queue) \in Nat /\ (Len(s.queue) = 0 <=> s.queue = <<>>)
    BY <1>2, <1>3, <2>1
  <2>4. P(t + 1)
    BY <1>5
  <2>5. TwoSons(g, s) => Reads(g, v, size, s) /\ Paid(Len(s.queue), t + 1, Len(s.explored))
    BY <2>4
  <2> HIDE DEF s, u, P
  <2>6. CASE s.queue = <<>>
    <3>1. u = s
      BY <2>2, <2>6 DEF Popped
    <3>2. Paid(Len(s.queue), t + 1, Len(s.explored)) => Paid(Len(s.queue), (t + 1) + 1, Len(s.explored))
      BY <2>1, <2>3, <2>6, PaidFacts
    <3>3. TwoSons(g, u) => Reads(g, v, size, u) /\ Paid(Len(u.queue), (t + 1) + 1, Len(u.explored))
      BY <2>5, <3>1, <3>2
    <3>4. QED BY <3>3 DEF P, u
  <2>7. CASE s.queue # <<>>
    <3>1. u = Pop(g, size, s)
      BY <2>2, <2>7 DEF Popped
    <3>2. ASSUME TwoSons(g, u)
          PROVE  Reads(g, v, size, u) /\ Paid(Len(u.queue), (t + 1) + 1, Len(u.explored))
      <4>1. TwoSons(g, s)
        BY <2>3, <2>7, <3>1, <3>2, PopKeepsNodes
      <4>2. Reads(g, v, size, s) /\ Paid(Len(s.queue), t + 1, Len(s.explored))
        BY <2>5, <4>1
      <4>3. PICK qs, ls, rho, sp : ReadsSite(g, v, size, s, qs, ls, rho, sp)
        BY <4>2 DEF Reads
      <4>4. \A i \in 1..Len(u.explored) : children_nb(g, u.explored[i]) <= 2
        BY <3>2 DEF TwoSons
      <4>5. Reads(g, v, size, u) /\ Pays(Len(s.queue), Len(s.explored), Len(u.queue), Len(u.explored))
        BY <2>3, <2>7, <3>1, <4>3, <4>4, ReadsNext
      <4>6. Paid(Len(u.queue), (t + 1) + 1, Len(u.explored))
        BY <2>1, <2>3, <2>7, <4>2, <4>5, PaidFacts
      <4>7. QED BY <4>5, <4>6
    <3>3. QED BY <3>2 DEF P, u
  <2>8. QED BY <2>6, <2>7
<1> HIDE DEF n, P
<1>6. 0 \in S /\ \A t \in 0..n : t \in S /\ t < n => t + 1 \in S
  <2>1. 0 \in S
    BY <1>1, <1>4
  <2>2. ASSUME NEW t \in 0..n, t \in S, t < n PROVE t + 1 \in S
    <3>1. P((t + 1) + 1)
      BY <1>5, <2>2
    <3>2. t + 1 \in 0..n
      BY <1>1, <2>2
    <3>3. QED BY <3>1, <3>2
  <2>3. QED BY <2>1, <2>2
<1>7. P(n + 1)
  <2> HIDE DEF S
  <2>1. 0..n \subseteq S
    BY <1>1, <1>6, SetInductionUpTo
  <2>2. n \in S
    BY <1>1, <2>1
  <2>3. QED BY <2>2 DEF S
<1>8. /\ Reads(g, v, size, r[n + 1])
      /\ Paid(Len(r[n + 1].queue), n + 1, Len(r[n + 1].explored))
  BY <1>1, <1>7 DEF P
<1>9. n + 1 \in 1..(n + 1)
  BY <1>1
<1>10. Len(r[n + 1].explored) <= size /\ Len(r[n + 1].explored) \in Nat
  BY <1>3, <1>9
<1>11. Len(r[n + 1].queue) = 0
  <2> DEFINE a == Len(r[n + 1].queue)
             m == Len(r[n + 1].explored)
  <2>1. Paid(a, n + 1, m) /\ m <= size /\ n = 2 * size
    BY <1>8, <1>10 DEF n
  <2> HIDE DEF a, m
  <2>2. a = 0
    BY <2>1 DEF Paid
  <2>3. QED BY <2>2 DEF a
<1>12. QED BY <1>1, <1>3, <1>8, <1>9, <1>11
-----------------------------------------------------------------------------
(***************************************************************************)
(* What a search that fills its site leaves: the nodes in the order of     *)
(* their routes, and every link between two of them.                       *)
(***************************************************************************)
WholeSite(g, v, size, mots, ex, rho, ls, sp) ==
    /\ ByRoutes(g, v, ex, rho) /\ Len(ex) = size /\ LinksOK(g, ex, ls)
    /\ \A i \in 1..Len(ex) : children_nb(g, ex[i]) <= 2
    /\ \A j, k : IsLink(g, ex, j, k) => Linked(ls, j, k) \/ Dropped(g, size, ex, j, k)
    /\ AllNumbered(ex, ls) /\ Spells(sp, g, ex, ls) /\ mots = sp[Len(ls)]

LEMMA WordReads ==
    ASSUME NEW g, IsGraph(g), NEW v \in NodesOf(g), NEW size \in Nat \ {0},
           parcoursLargeur(g, v, size).complete, parcoursLargeur(g, v, size).asserts
    PROVE  \E ex, rho, ls, sp : WholeSite(g, v, size, parcoursLargeur(g, v, size).mots, ex, rho, ls, sp)
<1> DEFINE p == parcoursLargeur(g, v, size)
           n == 2 * size + 1
<1>1. PICK r : RunsFrom(r, g, v, size)
  BY ParcoursRun
<1> DEFINE s == r[n]
           ex == s.explored
<1>2. n \in 1..n
  OBVIOUS
<1>3. /\ p.mots = s.mots /\ p.complete = (Len(ex) = size)
      /\ p.asserts = (\A y \in Range(ex) : children_nb(g, y) <= 2)
  <2> DEFINE full == Len(ex) = size
             few == \A y \in Range(ex) : children_nb(g, y) <= 2
  <2>1. p = [mots |-> s.mots, complete |-> full, explored |-> ex, asserts |-> few]
    BY <1>1 DEF RunsFrom
  <2> HIDE DEF full, few, p
  <2>2. p.mots = s.mots /\ p.complete = full /\ p.asserts = few
    BY <2>1, Zenon
  <2>3. QED BY <2>2 DEF full, few
<1>4. Searched(g, v, size, s) /\ s.mots # <<>>
  BY <1>1, <1>2 DEF RunsFrom
<1>5. s \in SearchStates(g)
  BY <1>4 DEF Searched, SearchStart
<1>6. ex \in Seq(NodesOf(g))
  BY <1>5 DEF SearchStates
<1> HIDE DEF s, n
<1>7. Len(ex) = size /\ \A y \in Range(ex) : children_nb(g, y) <= 2
  BY <1>3
<1>8. \A i \in 1..Len(ex) : children_nb(g, ex[i]) <= 2
  BY <1>6, <1>7, RangeFacts
<1>9. TwoSons(g, s)
  BY <1>8 DEF TwoSons
<1>10. Reads(g, v, size, s) /\ s.queue = <<>>
  BY <1>1, <1>9, RunReads DEF s, n
<1>11. PICK qs, ls, rho, sp : ReadsSite(g, v, size, s, qs, ls, rho, sp)
  BY <1>10 DEF Reads
<1>12. /\ SiteSearch(g, v, size, ex, qs, ls, rho) /\ Queued(g, ex, s.queue, qs)
       /\ AllNumbered(ex, ls) /\ Spells(sp, g, ex, ls) /\ s.mots = sp[Len(ls)]
  BY <1>11 DEF ReadsSite
<1> HIDE DEF ex
<1>13. Len(qs) = 0
  BY <1>10, <1>12, EmptySeq DEF Queued
<1>14. \A j, k : ~Waits(qs, j, k)
  BY <1>13 DEF Waits
<1>15. \A j, k : IsLink(g, ex, j, k) => Linked(ls, j, k) \/ Dropped(g, size, ex, j, k)
  BY <1>12, <1>14 DEF SiteSearch, AllLinks
<1>16. ByRoutes(g, v, ex, rho) /\ LinksOK(g, ex, ls)
  BY <1>12 DEF SiteSearch
<1>17. WholeSite(g, v, size, p.mots, ex, rho, ls, sp)
  BY <1>3, <1>7, <1>8, <1>12, <1>15, <1>16 DEF WholeSite
<1>18. QED BY <1>17

LinkSet(ls) == {ls[x] : x \in 1..Len(ls)}

\* The links of the site are those the search took.
LEMMA LinksAre ==
    ASSUME W \in Nat \ {0}, NEW g, IsGraph(g), NEW v \in NodesOf(g), NEW mots, NEW ex, NEW rho,
           NEW ls, NEW sp, WholeSite(g, v, W, mots, ex, rho, ls, sp)
    PROVE  Links(g, [i \in 1..W |-> ex[i]]) = LinkSet(ls)
<1> DEFINE site == [i \in 1..W |-> ex[i]]
<1>1. /\ ByRoutes(g, v, ex, rho) /\ Len(ex) = W /\ LinksOK(g, ex, ls)
      /\ \A i \in 1..W : children_nb(g, ex[i]) <= 2
      /\ \A j, k : IsLink(g, ex, j, k) => Linked(ls, j, k) \/ Dropped(g, W, ex, j, k)
  BY DEF WholeSite
<1>2. /\ \A i \in 1..W : ex[i] \in NodesOf(g) /\ children_nb(g, ex[i]) \in Nat
      /\ \A i, j \in 1..W : ex[i] = ex[j] => i = j
  <2>1. /\ \A i \in 1..W : ex[i] \in NodesOf(g)
        /\ \A i, j \in 1..W : ex[i] = ex[j] => i = j
    BY <1>1, RouteTypes
  <2>2. QED BY <2>1, GraphFacts
<1>3. \A i \in 1..W : site[i] = ex[i]
  OBVIOUS
<1> HIDE DEF site
<1>4. ASSUME NEW e \in Links(g, site) PROVE e \in LinkSet(ls)
  <2>1. PICK j \in 1..W, k \in {1, 2}, i \in 1..W :
               /\ e = <<j, k, i>> /\ k <= children_nb(g, ex[j]) /\ g.children[ex[j]][k] = ex[i]
    BY <1>3 DEF Links, children_nb
  <2>2. IsLink(g, ex, j, k)
    <3>1. k \in 1..children_nb(g, ex[j])
      BY <1>2, <2>1
    <3>2. QED BY <1>1, <3>1 DEF IsLink
  <2>3. ~Dropped(g, W, ex, j, k)
    BY <1>1, <2>1 DEF Dropped, LeadsTo
  <2>4. PICK x \in 1..Len(ls) : ls[x][1] = j /\ ls[x][2] = k
    BY <1>1, <2>2, <2>3 DEF Linked
  <2>5. ls[x][3] \in 1..W /\ ex[ls[x][3]] = ex[i]
    BY <1>1, <2>1, <2>4 DEF LinksOK, LeadsTo
  <2>6. ls[x][3] = i
    BY <1>2, <2>5
  <2>7. ls[x] \in NumberedLinks
    BY <1>1, ElementOfSeq DEF LinksOK
  <2>8. ls[x] = <<j, k, i>>
    BY <2>4, <2>6, <2>7 DEF NumberedLinks
  <2>9. QED BY <2>1, <2>8 DEF LinkSet
<1>5. ASSUME NEW x \in 1..Len(ls) PROVE ls[x] \in Links(g, site)
  <2>1. ls[x] \in NumberedLinks
    BY <1>1, ElementOfSeq DEF LinksOK
  <2>2. PICK j \in Nat, k \in Nat, i \in Nat : ls[x] = <<j, k, i>>
    BY <2>1 DEF NumberedLinks
  <2>3. ls[x][1] = j /\ ls[x][2] = k /\ ls[x][3] = i
    BY <2>2
  <2>4. IsLink(g, ex, j, k) /\ i \in 1..W /\ LeadsTo(g, ex, j, k) = ex[i]
    BY <1>1, <2>3 DEF LinksOK
  <2>5. j \in 1..W /\ k \in 1..children_nb(g, ex[j])
    BY <1>1, <2>4 DEF IsLink
  <2>6. k \in {1, 2} /\ k <= children_nb(g, ex[j])
    BY <1>1, <1>2, <2>5
  <2>7. g.children[site[j]][k] = site[i] /\ k <= Len(g.children[site[j]])
    BY <1>3, <2>4, <2>5, <2>6 DEF LeadsTo, children_nb
  <2>8. <<j, k, i>> \in (1..W) \X {1, 2} \X (1..W)
    BY <2>4, <2>5, <2>6
  <2>9. QED BY <2>2, <2>7, <2>8 DEF Links
<1>6. QED BY <1>4, <1>5 DEF LinkSet, site
-----------------------------------------------------------------------------
(***************************************************************************)
(* The same links and labels give the same word: the links are taken in    *)
(* one order only, and they and the labels say every letter.               *)
(***************************************************************************)
LinkPairs == {ef \in NumberedLinks \X NumberedLinks : Before(ef[1], ef[2])}

LEMMA BeforeFacts ==
    /\ \A e, f \in NumberedLinks : <<e, f>> \in LinkPairs <=> Before(e, f)
    /\ \A e, f \in NumberedLinks : Before(e, f) => ~Before(f, e)
<1>1. \A e, f \in NumberedLinks : <<e, f>> \in LinkPairs <=> Before(e, f)
  BY DEF LinkPairs
<1>2. ASSUME NEW e \in NumberedLinks, NEW f \in NumberedLinks, Before(e, f) PROVE ~Before(f, e)
  <2>1. e[1] \in Nat /\ e[2] \in Nat /\ f[1] \in Nat /\ f[2] \in Nat
    BY DEF NumberedLinks
  <2>2. QED BY <1>2, <2>1 DEF Before
<1>3. QED BY <1>1, <1>2

LEMMA LinksStart ==
    ASSUME NEW g, NEW ex, NEW ls, LinksOK(g, ex, ls), NEW n \in Nat, n <= Len(ls)
    PROVE  Starts(ls, n, LinkSet(ls), LinkPairs)
<1>1. ls \in Seq(NumberedLinks) /\ Len(ls) \in Nat /\ InOrder(ls)
  BY LenProperties DEF LinksOK
<1>2. \A i \in 1..Len(ls) : ls[i] \in NumberedLinks /\ ls[i] \in LinkSet(ls)
  BY <1>1, ElementOfSeq DEF LinkSet
<1>3. \A i, j \in 1..Len(ls) : i < j => <<ls[i], ls[j]>> \in LinkPairs
  BY <1>1, <1>2, BeforeFacts DEF InOrder
<1>4. \A i \in 1..n : i \in 1..Len(ls)
  BY <1>1
<1>5. ASSUME NEW x \in LinkSet(ls)
      PROVE  (\E i \in 1..n : ls[i] = x) \/ \A i \in 1..n : <<ls[i], x>> \in LinkPairs
  <2>1. PICK m \in 1..Len(ls) : x = ls[m]
    BY DEF LinkSet
  <2>2. CASE m \in 1..n
    BY <2>1, <2>2
  <2>3. CASE m \notin 1..n
    <3>1. \A i \in 1..n : i < m
      BY <1>1, <2>3
    <3>2. QED BY <1>3, <1>4, <2>1, <3>1
  <2>4. QED BY <2>2, <2>3
<1>6. QED BY <1>2, <1>3, <1>4, <1>5 DEF Starts

LEMMA NoLonger ==
    ASSUME NEW g, NEW ex, NEW ls, LinksOK(g, ex, ls), NEW h, NEW e2, NEW l2, LinksOK(h, e2, l2),
           LinkSet(ls) = LinkSet(l2)
    PROVE  ~(Len(ls) < Len(l2))
<1> DEFINE n == Len(ls)
<1>1. /\ n \in Nat /\ Len(l2) \in Nat /\ InOrder(l2)
      /\ \A i \in 1..Len(l2) : l2[i] \in NumberedLinks /\ l2[i] \in LinkSet(l2)
  BY LenProperties, ElementOfSeq DEF LinksOK, LinkSet
<1>2. SUFFICES ASSUME n < Len(l2) PROVE FALSE
  OBVIOUS
<1>3. Starts(ls, n, LinkSet(ls), LinkPairs) /\ Starts(l2, n, LinkSet(ls), LinkPairs)
  BY <1>1, <1>2, LinksStart
<1>4. \A x, y \in LinkSet(ls) : <<x, y>> \in LinkPairs => <<y, x>> \notin LinkPairs
  <2>1. LinkSet(l2) \subseteq NumberedLinks
    BY <1>1 DEF LinkSet
  <2>2. QED BY <2>1, BeforeFacts
<1>5. \A i \in 1..n : ls[i] = l2[i]
  <2> DEFINE T == LinkSet(ls)
  <2>1. Starts(ls, n, T, LinkPairs) /\ Starts(l2, n, T, LinkPairs)
        /\ \A x, y \in T : <<x, y>> \in LinkPairs => <<y, x>> \notin LinkPairs
    BY <1>3, <1>4
  <2> HIDE DEF T, n
  <2>2. QED BY <1>1, <2>1, StartsAgree
<1>6. n + 1 \in 1..Len(l2)
  BY <1>1, <1>2
<1>7. PICK m \in 1..n : ls[m] = l2[n + 1]
  BY <1>1, <1>6 DEF LinkSet
<1>8. m \in 1..Len(l2) /\ m < n + 1 /\ l2[m] = l2[n + 1]
  BY <1>1, <1>2, <1>5, <1>7
<1>9. Before(l2[m], l2[n + 1])
  BY <1>1, <1>6, <1>8 DEF InOrder
<1>10. QED BY <1>1, <1>6, <1>8, <1>9, BeforeFacts

LEMMA OneOrder ==
    ASSUME NEW g, NEW ex, NEW ls, LinksOK(g, ex, ls), NEW h, NEW e2, NEW l2, LinksOK(h, e2, l2),
           LinkSet(ls) = LinkSet(l2)
    PROVE  Len(ls) = Len(l2) /\ \A i \in 1..Len(ls) : ls[i] = l2[i]
<1>1. Len(ls) \in Nat /\ Len(l2) \in Nat
  BY LenProperties DEF LinksOK
<1>2. Len(ls) = Len(l2)
  <2>1. ~(Len(ls) < Len(l2)) /\ ~(Len(l2) < Len(ls))
    BY NoLonger
  <2>2. QED BY <1>1, <2>1
<1> DEFINE T == LinkSet(ls)
           n == Len(ls)
<1>3. Starts(ls, n, T, LinkPairs) /\ Starts(l2, n, T, LinkPairs) /\ n \in Nat
  BY <1>1, <1>2, LinksStart
<1>4. T \subseteq NumberedLinks
  BY ElementOfSeq DEF LinksOK, LinkSet
<1>5. \A x, y \in T : <<x, y>> \in LinkPairs => <<y, x>> \notin LinkPairs
  BY <1>4, BeforeFacts
<1> HIDE DEF T, n
<1>6. \A i \in 1..n : ls[i] = l2[i]
  BY <1>3, <1>5, StartsAgree
<1>7. QED BY <1>2, <1>6 DEF n

SameLabels(g, ex, h, e2, size) == \A i \in 1..size : g.symb[ex[i]] = h.symb[e2[i]]

LEMMA SameSpelt ==
    ASSUME NEW g, NEW ex, NEW ls, NEW sp, LinksOK(g, ex, ls), Spells(sp, g, ex, ls),
           NEW h, NEW e2, NEW l2, NEW s2, Spells(s2, h, e2, l2),
           Len(ls) = Len(l2), \A i \in 1..Len(ls) : ls[i] = l2[i],
           SameLabels(g, ex, h, e2, Len(ex)), 1 \in 1..Len(ex)
    PROVE  sp[Len(ls)] = s2[Len(l2)]
<1> DEFINE n == Len(ls)
           S == {m \in 0..n : sp[m] = s2[m]}
<1>1. n \in Nat
  BY LenProperties DEF LinksOK
<1>2. 0 \in S
  <2>1. g.symb[ex[1]] = h.symb[e2[1]]
    BY DEF SameLabels
  <2>2. sp[0] = s2[0]
    BY <2>1 DEF Spells
  <2>3. QED BY <1>1, <2>2
<1>3. ASSUME NEW m \in 0..n, m \in S, m < n PROVE m + 1 \in S
  <2> DEFINE x == m + 1
  <2>1. x \in 1..n /\ x - 1 = m /\ x \in 0..n /\ sp[m] = s2[m]
    BY <1>1, <1>3
  <2> HIDE DEF x
  <2>2. ls[x] = l2[x] /\ \A y \in 1..(x - 1) : ls[y] = l2[y]
    BY <1>1, <2>1
  <2>3. NumberAfter(ls, x - 1) = NumberAfter(l2, x - 1)
    <3>1. x - 1 # 0 => x - 1 \in 1..(x - 1)
      BY <2>1
    <3>2. QED BY <2>2, <3>1 DEF NumberAfter
  <2>4. IsNew(ls, x) <=> IsNew(l2, x)
    BY <2>2 DEF IsNew
  <2>5. BackFor(ls, x) = BackFor(l2, x)
    BY <2>2, <2>3 DEF BackFor
  <2>6. g.symb[ex[ls[x][3]]] = h.symb[e2[ls[x][3]]]
    BY <2>1 DEF LinksOK, SameLabels
  <2>7. LetterFor(g, ex, ls, x) = LetterFor(h, e2, l2, x)
    BY <2>2, <2>4, <2>6 DEF LetterFor
  <2>8. sp[x] = sp[x - 1] \o BackFor(ls, x) \o <<LetterFor(g, ex, ls, x)>>
    BY <2>1 DEF Spells
  <2>9. s2[x] = s2[x - 1] \o BackFor(l2, x) \o <<LetterFor(h, e2, l2, x)>>
    BY <2>1 DEF Spells
  <2>10. sp[x] = s2[x]
    BY <2>1, <2>5, <2>7, <2>8, <2>9
  <2>11. QED BY <2>1, <2>10 DEF x
<1> HIDE DEF S
<1>4. 0..n \subseteq S
  <2> HIDE DEF n
  <2>1. QED BY <1>1, <1>2, <1>3, SetInductionUpTo
<1>5. n \in S
  BY <1>1, <1>4
<1>6. QED BY <1>5 DEF S
-----------------------------------------------------------------------------
(***************************************************************************)
(* The word read backwards: after a letter the walk stands at the number   *)
(* the letter gives, so each letter for a child tells a link, and a letter *)
(* for a new node its label.                                               *)
(***************************************************************************)
StandsAt(p, h) == IF h = 1 THEN 1 ELSE p[h].i
ForChild(m) == m.type \in {"new", "old"}
TellsLink(p, h, e) == /\ ForChild(p[h]) /\ StandsAt(p, h - 1) = e[1]
                      /\ p[h].k = e[2] /\ p[h].i = e[3]

Tells(p, g, ex, ls, n, at) ==
    /\ p \in Seq(WordLetters) /\ Len(p) >= 1
    /\ p[1] = M1(g.symb[ex[1]]) /\ StandsAt(p, Len(p)) = at
    /\ \A m \in 1..n : \E h \in 2..Len(p) : TellsLink(p, h, ls[m])
    /\ \A h \in 2..Len(p) : ForChild(p[h]) => \E m \in 1..n : TellsLink(p, h, ls[m])
    /\ \A h \in 2..Len(p) : p[h].type = "new" => p[h].symbol = g.symb[ex[p[h].i]]
    /\ \A m \in 1..n : IsNew(ls, m) => \E h \in 2..Len(p) : p[h].type = "new" /\ p[h].i = ls[m][3]

LEMMA OneMoreLetter ==
    ASSUME NEW p \in Seq(WordLetters), Len(p) >= 1, NEW e \in WordLetters
    PROVE  /\ Append(p, e) \in Seq(WordLetters) /\ Len(Append(p, e)) = Len(p) + 1 /\ Len(p) \in Nat
           /\ \A h \in 1..Len(p) : Append(p, e)[h] = p[h] /\ StandsAt(Append(p, e), h) = StandsAt(p, h)
           /\ Append(p, e)[Len(p) + 1] = e
           /\ StandsAt(Append(p, e), Len(p) + 1) = e.i
           /\ \A h \in 2..Len(p) : \A f : TellsLink(Append(p, e), h, f) <=> TellsLink(p, h, f)
<1> DEFINE q == Append(p, e)
<1>1. q \in Seq(WordLetters) /\ Len(q) = Len(p) + 1 /\ Len(p) \in Nat
      /\ (\A h \in 1..Len(p) : q[h] = p[h]) /\ q[Len(p) + 1] = e
  BY AppendProperties, LenProperties
<1> HIDE DEF q
<1>2. \A h \in 1..Len(p) : StandsAt(q, h) = StandsAt(p, h)
  BY <1>1 DEF StandsAt
<1>3. StandsAt(q, Len(p) + 1) = e.i
  BY <1>1 DEF StandsAt
<1>4. \A h \in 2..Len(p) : h \in 1..Len(p) /\ h - 1 \in 1..Len(p)
  BY <1>1
<1>5. \A h \in 2..Len(p) : \A f : TellsLink(q, h, f) <=> TellsLink(p, h, f)
  BY <1>1, <1>2, <1>4 DEF TellsLink
<1>6. QED BY <1>1, <1>2, <1>3, <1>5 DEF q

LEMMA TellsBack ==
    ASSUME NEW p, NEW g, NEW ex, NEW ls, NEW n \in Nat, NEW at, Tells(p, g, ex, ls, n, at),
           NEW i \in Nat \ {0}
    PROVE  Tells(Append(p, BackTo(i)), g, ex, ls, n, i)
<1> DEFINE e == BackTo(i)
           q == Append(p, e)
           N == Len(p)
<1>1. e \in WordLetters /\ e.i = i /\ ~ForChild(e) /\ e.type # "new"
  BY DEF WordLetters, BackTo, ForChild
<1>2. p \in Seq(WordLetters) /\ N >= 1
  BY DEF Tells
<1> HIDE DEF e
<1>3. /\ q \in Seq(WordLetters) /\ Len(q) = N + 1 /\ N \in Nat
      /\ (\A h \in 1..N : q[h] = p[h]) /\ q[N + 1] = e /\ StandsAt(q, N + 1) = e.i
      /\ \A h \in 2..N : \A f : TellsLink(q, h, f) <=> TellsLink(p, h, f)
  BY <1>1, <1>2, OneMoreLetter
<1> HIDE DEF q, N
<1>4. /\ \A h \in 2..N : h \in 2..(N + 1) /\ h \in 1..N
      /\ (\A h \in 2..(N + 1) : h \in 2..N \/ h = N + 1) /\ 1 \in 1..N /\ N + 1 >= 1
  BY <1>2, <1>3
<1>5. \A m \in 1..n : \E h \in 2..(N + 1) : TellsLink(q, h, ls[m])
  BY <1>3, <1>4 DEF Tells, N
<1>6. \A h \in 2..(N + 1) : ForChild(q[h]) => \E m \in 1..n : TellsLink(q, h, ls[m])
  BY <1>1, <1>3, <1>4 DEF Tells, N
<1>7. \A h \in 2..(N + 1) : q[h].type = "new" => q[h].symbol = g.symb[ex[q[h].i]]
  BY <1>1, <1>3, <1>4 DEF Tells, N
<1>8. \A m \in 1..n : IsNew(ls, m) => \E h \in 2..(N + 1) : q[h].type = "new" /\ q[h].i = ls[m][3]
  BY <1>3, <1>4 DEF Tells, N
<1>9. q[1] = M1(g.symb[ex[1]])
  BY <1>3, <1>4 DEF Tells
<1>10. Tells(q, g, ex, ls, n, i)
  BY <1>1, <1>3, <1>4, <1>5, <1>6, <1>7, <1>8, <1>9 DEF Tells
<1>11. QED BY <1>10 DEF q, e

LEMMA LetterForFacts ==
    ASSUME NEW g, IsGraph(g), NEW ex, NEW ls, LinksOK(g, ex, ls), NEW x \in 1..Len(ls),
           Len(ex) \in Nat, \A i \in 1..Len(ex) : ex[i] \in NodesOf(g)
    PROVE  LET f == ls[x]
               e == LetterFor(g, ex, ls, x)
           IN  /\ f[1] \in 1..Len(ex) /\ f[3] \in 1..Len(ex)
               /\ e \in WordLetters /\ ForChild(e) /\ e.k = f[2] /\ e.i = f[3]
               /\ e.type = "new" <=> IsNew(ls, x)
               /\ e.type = "new" => e.symbol = g.symb[ex[f[3]]]
<1> DEFINE f == ls[x]
           e == LetterFor(g, ex, ls, x)
<1>1. f[1] \in 1..Len(ex) /\ f[2] \in Nat \ {0} /\ f[3] \in Nat \ {0} /\ f[3] \in 1..Len(ex)
  <2>1. IsLink(g, ex, f[1], f[2]) /\ f[3] \in 1..Len(ex)
    BY DEF LinksOK
  <2>2. children_nb(g, ex[f[1]]) \in Nat
    BY <2>1, GraphFacts DEF IsLink
  <2>3. QED BY <2>1, <2>2 DEF IsLink
<1>2. g.symb[ex[f[3]]] \in Nat
  BY <1>1, GraphFacts
<1>3. e = IF IsNew(ls, x) THEN NewChild(f[2], f[3], g.symb[ex[f[3]]]) ELSE OldChild(f[2], f[3])
  BY DEF LetterFor
<1> HIDE DEF e, f
<1>4. /\ e \in WordLetters /\ ForChild(e) /\ e.k = f[2] /\ e.i = f[3]
      /\ e.type = "new" <=> IsNew(ls, x)
      /\ e.type = "new" => e.symbol = g.symb[ex[f[3]]]
  <2>1. CASE IsNew(ls, x)
    <3>1. e = [type |-> "new", k |-> f[2], i |-> f[3], symbol |-> g.symb[ex[f[3]]]]
      BY <1>3, <2>1 DEF NewChild
    <3>2. e \in WordLetters
      BY <1>1, <1>2, <3>1 DEF WordLetters
    <3>3. QED BY <2>1, <3>1, <3>2 DEF ForChild
  <2>2. CASE ~IsNew(ls, x)
    <3>1. e = [type |-> "old", k |-> f[2], i |-> f[3]]
      BY <1>3, <2>2 DEF OldChild
    <3>2. e \in WordLetters
      BY <1>1, <3>1 DEF WordLetters
    <3>3. QED BY <2>2, <3>1, <3>2 DEF ForChild
  <2>3. QED BY <2>1, <2>2
<1>5. QED BY <1>1, <1>4 DEF f, e

LEMMA TellsNext ==
    ASSUME NEW p, NEW g, IsGraph(g), NEW ex, NEW ls, LinksOK(g, ex, ls), NEW n \in Nat,
           n + 1 \in 1..Len(ls), Tells(p, g, ex, ls, n, ls[n + 1][1]),
           Len(ex) \in Nat, \A i \in 1..Len(ex) : ex[i] \in NodesOf(g)
    PROVE  Tells(Append(p, LetterFor(g, ex, ls, n + 1)), g, ex, ls, n + 1, ls[n + 1][3])
<1> DEFINE f == ls[n + 1]
           e == LetterFor(g, ex, ls, n + 1)
           q == Append(p, e)
           N == Len(p)
<1> HIDE DEF e, f
<1>4. /\ e \in WordLetters /\ ForChild(e) /\ e.k = f[2] /\ e.i = f[3]
      /\ e.type = "new" <=> IsNew(ls, n + 1)
      /\ e.type = "new" => e.symbol = g.symb[ex[f[3]]]
  BY LetterForFacts DEF e, f
<1>5. p \in Seq(WordLetters) /\ N >= 1 /\ StandsAt(p, N) = f[1]
  BY DEF Tells, f
<1>6. /\ q \in Seq(WordLetters) /\ Len(q) = N + 1 /\ N \in Nat
      /\ (\A h \in 1..N : q[h] = p[h] /\ StandsAt(q, h) = StandsAt(p, h))
      /\ q[N + 1] = e /\ StandsAt(q, N + 1) = e.i
      /\ \A h \in 2..N : \A x : TellsLink(q, h, x) <=> TellsLink(p, h, x)
  BY <1>4, <1>5, OneMoreLetter
<1> HIDE DEF q
<1>7. TellsLink(q, N + 1, f)
  <2>1. (N + 1) - 1 = N /\ N \in 1..N
    BY <1>5, <1>6
  <2>2. QED BY <1>4, <1>5, <1>6, <2>1 DEF TellsLink
<1> HIDE DEF N
<1>8. /\ \A h \in 2..N : h \in 2..(N + 1) /\ h \in 1..N
      /\ (\A h \in 2..(N + 1) : h \in 2..N \/ h = N + 1) /\ 1 \in 1..N /\ N + 1 >= 1
      /\ N + 1 \in 2..(N + 1)
  BY <1>5, <1>6
<1>9. /\ \A m \in 1..n : m \in 1..(n + 1)
      /\ n + 1 \in 1..(n + 1) /\ \A m \in 1..(n + 1) : m \in 1..n \/ m = n + 1
  OBVIOUS
<1>10. \A m \in 1..(n + 1) : \E h \in 2..(N + 1) : TellsLink(q, h, ls[m])
  <2>1. \A m \in 1..n : \E h \in 2..N : TellsLink(p, h, ls[m])
    BY DEF Tells, N
  <2>2. QED BY <1>6, <1>7, <1>8, <1>9, <2>1 DEF f
<1>11. \A h \in 2..(N + 1) : ForChild(q[h]) => \E m \in 1..(n + 1) : TellsLink(q, h, ls[m])
  <2>1. \A h \in 2..N : ForChild(p[h]) => \E m \in 1..n : TellsLink(p, h, ls[m])
    BY DEF Tells, N
  <2>2. QED BY <1>6, <1>7, <1>8, <1>9, <2>1 DEF f
<1>12. \A h \in 2..(N + 1) : q[h].type = "new" => q[h].symbol = g.symb[ex[q[h].i]]
  <2>1. \A h \in 2..N : p[h].type = "new" => p[h].symbol = g.symb[ex[p[h].i]]
    BY DEF Tells, N
  <2>2. QED BY <1>4, <1>6, <1>8, <2>1
<1>13. \A m \in 1..(n + 1) : IsNew(ls, m) =>
          \E h \in 2..(N + 1) : q[h].type = "new" /\ q[h].i = ls[m][3]
  <2>1. \A m \in 1..n : IsNew(ls, m) => \E h \in 2..N : p[h].type = "new" /\ p[h].i = ls[m][3]
    BY DEF Tells, N
  <2>2. QED BY <1>4, <1>6, <1>8, <1>9, <2>1 DEF f
<1>14. q[1] = M1(g.symb[ex[1]])
  BY <1>6, <1>8 DEF Tells
<1>15. Tells(q, g, ex, ls, n + 1, f[3])
  BY <1>4, <1>6, <1>8, <1>10, <1>11, <1>12, <1>13, <1>14 DEF Tells
<1>16. QED BY <1>15 DEF q, e, f

LEMMA TellsAll ==
    ASSUME NEW g, IsGraph(g), NEW ex, NEW ls, LinksOK(g, ex, ls), NEW sp, Spells(sp, g, ex, ls),
           Len(ex) \in Nat, 1 \in 1..Len(ex), \A i \in 1..Len(ex) : ex[i] \in NodesOf(g)
    PROVE  Tells(sp[Len(ls)], g, ex, ls, Len(ls), NumberAfter(ls, Len(ls)))
<1> DEFINE n == Len(ls)
           S == {m \in 0..n : Tells(sp[m], g, ex, ls, m, NumberAfter(ls, m))}
<1>1. n \in Nat
  BY LenProperties DEF LinksOK
<1>2. 0 \in S
  <2> DEFINE p == <<M1(g.symb[ex[1]])>>
  <2>1. M1(g.symb[ex[1]]) \in WordLetters
    <3>1. g.symb[ex[1]] \in Nat
      BY GraphFacts
    <3>2. QED BY <3>1 DEF M1, WordLetters
  <2>2. p \in Seq(WordLetters) /\ Len(p) = 1 /\ p[1] = M1(g.symb[ex[1]]) /\ sp[0] = p
    BY <2>1 DEF Spells
  <2> HIDE DEF p
  <2>3. NumberAfter(ls, 0) = 1 /\ StandsAt(p, 1) = 1
    BY DEF NumberAfter, StandsAt
  <2>4. Tells(p, g, ex, ls, 0, 1)
    BY <2>2, <2>3 DEF Tells
  <2>5. QED BY <1>1, <2>2, <2>3, <2>4
<1>3. ASSUME NEW m \in 0..n, m \in S, m < n PROVE m + 1 \in S
  <2> DEFINE p == sp[m]
             at == ls[m + 1][1]
             e == LetterFor(g, ex, ls, m + 1)
  <2>1. m \in Nat /\ m + 1 \in 1..n /\ m + 1 \in 0..n /\ (m + 1) - 1 = m /\ m + 1 # 0
    BY <1>1, <1>3
  <2>2. Tells(p, g, ex, ls, m, NumberAfter(ls, m))
    BY <1>3
  <2>3. sp[m + 1] = p \o BackFor(ls, m + 1) \o <<e>>
    BY <2>1 DEF Spells
  <2>4. e \in WordLetters /\ at \in 1..Len(ex)
    BY <2>1, LetterForFacts
  <2>5. BackFor(ls, m + 1) = IF NumberAfter(ls, m) # at THEN <<BackTo(at)>> ELSE <<>>
    BY <2>1 DEF BackFor
  <2>6. p \in Seq(WordLetters)
    BY <2>2 DEF Tells
  <2> HIDE DEF p, at, e
  <2>7. PICK q : q \in Seq(WordLetters) /\ Tells(q, g, ex, ls, m, at) /\ sp[m + 1] = q \o <<e>>
    <3>1. CASE NumberAfter(ls, m) = at
      <4>1. p \o BackFor(ls, m + 1) = p
        BY <2>5, <2>6, <3>1, ConcatEmptySeq
      <4>2. QED BY <2>2, <2>3, <2>6, <3>1, <4>1
    <3>2. CASE NumberAfter(ls, m) # at
      <4>1. BackTo(at) \in WordLetters /\ at \in Nat \ {0}
        BY <2>4 DEF BackTo, WordLetters
      <4>2. p \o BackFor(ls, m + 1) = Append(p, BackTo(at))
        BY <2>5, <2>6, <3>2, <4>1, AppendIsConcat
      <4>3. Append(p, BackTo(at)) \in Seq(WordLetters)
        BY <2>6, <4>1, AppendProperties
      <4>4. Tells(Append(p, BackTo(at)), g, ex, ls, m, at)
        BY <2>1, <2>2, <4>1, TellsBack
      <4>5. QED BY <2>3, <4>2, <4>3, <4>4
    <3>3. QED BY <3>1, <3>2
  <2>8. sp[m + 1] = Append(q, e)
    BY <2>4, <2>7, AppendIsConcat
  <2>9. Tells(Append(q, e), g, ex, ls, m + 1, ls[m + 1][3])
    BY <2>1, <2>7, TellsNext DEF e, at
  <2>10. NumberAfter(ls, m + 1) = ls[m + 1][3]
    BY <2>1 DEF NumberAfter
  <2>11. QED BY <2>1, <2>8, <2>9, <2>10
<1> HIDE DEF S
<1>4. 0..n \subseteq S
  <2> HIDE DEF n
  <2>1. QED BY <1>1, <1>2, <1>3, SetInductionUpTo
<1>5. n \in S
  BY <1>1, <1>4
<1>6. QED BY <1>5 DEF S

\* Each node of the site but the root has a first link.
LEMMA FirstLink ==
    ASSUME NEW ex, NEW ls, AllNumbered(ex, ls), Len(ls) \in Nat, NEW i \in 2..Len(ex)
    PROVE  \E m \in 1..Len(ls) : ls[m][3] = i /\ IsNew(ls, m)
<1> DEFINE S == {m \in 1..Len(ls) : ls[m][3] = i}
           m == Min(S)
<1>1. S # {} /\ S \subseteq Nat
  BY DEF AllNumbered
<1> HIDE DEF S
<1>2. m \in S /\ \A y \in S : m <= y
  BY <1>1, LeastIsIn
<1> HIDE DEF m
<1>3. m \in 1..Len(ls) /\ ls[m][3] = i /\ i # 1
  BY <1>2 DEF S
<1>4. ASSUME NEW y \in 1..(m - 1) PROVE ls[y][3] # i
  <2>1. y \in 1..Len(ls) /\ ~(m <= y)
    BY <1>3
  <2>2. QED BY <1>2, <2>1 DEF S
<1>5. IsNew(ls, m)
  BY <1>3, <1>4 DEF IsNew
<1>6. QED BY <1>3, <1>5

\* What two readings of one word tell.
LEMMA ToldTwice ==
    ASSUME NEW p, NEW g, NEW ex, NEW ls, NEW at, Tells(p, g, ex, ls, Len(ls), at), LinksOK(g, ex, ls),
           NEW h, NEW e2, NEW l2, NEW a2, Tells(p, h, e2, l2, Len(l2), a2), LinksOK(h, e2, l2)
    PROVE  /\ LinkSet(ls) \subseteq LinkSet(l2)
           /\ g.symb[ex[1]] = h.symb[e2[1]]
           /\ \A m \in 1..Len(ls) : IsNew(ls, m) => g.symb[ex[ls[m][3]]] = h.symb[e2[ls[m][3]]]
<1>1. ASSUME NEW m \in 1..Len(ls) PROVE \E y \in 1..Len(l2) : ls[m] = l2[y]
  <2>1. PICK d \in 2..Len(p) : TellsLink(p, d, ls[m])
    BY DEF Tells
  <2>2. ForChild(p[d])
    BY <2>1 DEF TellsLink
  <2>3. PICK y \in 1..Len(l2) : TellsLink(p, d, l2[y])
    BY <2>2 DEF Tells
  <2>4. ls[m] \in NumberedLinks /\ l2[y] \in NumberedLinks
    BY ElementOfSeq DEF LinksOK
  <2>5. ls[m][1] = l2[y][1] /\ ls[m][2] = l2[y][2] /\ ls[m][3] = l2[y][3]
    BY <2>1, <2>3 DEF TellsLink
  <2>6. ls[m] = l2[y]
    BY <2>4, <2>5 DEF NumberedLinks
  <2>7. QED BY <2>6
<1>2. g.symb[ex[1]] = h.symb[e2[1]]
  <2>1. M1(g.symb[ex[1]]) = M1(h.symb[e2[1]])
    BY DEF Tells
  <2>2. M1(g.symb[ex[1]]).symbol = M1(h.symb[e2[1]]).symbol
    BY <2>1
  <2>3. QED BY <2>2 DEF M1
<1>3. ASSUME NEW m \in 1..Len(ls), IsNew(ls, m)
      PROVE  g.symb[ex[ls[m][3]]] = h.symb[e2[ls[m][3]]]
  <2>1. PICK d \in 2..Len(p) : p[d].type = "new" /\ p[d].i = ls[m][3]
    BY <1>3 DEF Tells
  <2>2. p[d].symbol = g.symb[ex[p[d].i]] /\ p[d].symbol = h.symb[e2[p[d].i]]
    BY <2>1 DEF Tells
  <2>3. QED BY <2>1, <2>2
<1>4. QED BY <1>1, <1>2, <1>3 DEF LinkSet

\* With labels, words are the same when they are equal.
LEMMA SameWordLabels ==
    ASSUME NEW p \in Seq(WordLetters), NEW q \in Seq(WordLetters)
    PROVE  SameWord(p, q, TRUE) <=> p = q
<1>1. Len(p) \in Nat /\ Len(q) \in Nat /\ DOMAIN p = 1..Len(p)
  BY LenProperties
<1>2. \A m, o : SameLetter(m, o, TRUE) <=> m = o
  BY DEF SameLetter
<1>3. SameWord(p, q, TRUE) <=> Len(p) = Len(q) /\ \A j \in 1..Len(p) : p[j] = q[j]
  BY <1>1, <1>2 DEF SameWord
<1>4. p = q <=> Len(p) = Len(q) /\ \A j \in 1..Len(p) : p[j] = q[j]
  BY SeqEqual
<1>5. QED BY <1>3, <1>4

LEMMA WholeSiteFacts ==
    ASSUME NEW g, IsGraph(g), NEW v \in NodesOf(g), NEW size \in Nat \ {0}, NEW p, NEW ex, NEW rho,
           NEW ls, NEW sp, WholeSite(g, v, size, p, ex, rho, ls, sp)
    PROVE  /\ LinksOK(g, ex, ls) /\ Spells(sp, g, ex, ls) /\ p = sp[Len(ls)] /\ Len(ls) \in Nat
           /\ AllNumbered(ex, ls) /\ Len(ex) = size /\ 1 \in 1..Len(ex)
           /\ Tells(p, g, ex, ls, Len(ls), NumberAfter(ls, Len(ls)))
<1>1. /\ LinksOK(g, ex, ls) /\ Spells(sp, g, ex, ls) /\ p = sp[Len(ls)]
      /\ AllNumbered(ex, ls) /\ Len(ex) = size /\ ByRoutes(g, v, ex, rho)
  BY DEF WholeSite
<1>2. Len(ex) \in Nat /\ 1 \in 1..Len(ex) /\ \A i \in 1..Len(ex) : ex[i] \in NodesOf(g)
  BY <1>1, RouteTypes
<1>3. Tells(sp[Len(ls)], g, ex, ls, Len(ls), NumberAfter(ls, Len(ls)))
  BY <1>1, <1>2, TellsAll
<1>4. Len(ls) \in Nat
  BY <1>1, LenProperties DEF LinksOK
<1>5. QED BY <1>1, <1>2, <1>3, <1>4

LEMMA WordsTell ==
    ASSUME NEW g, IsGraph(g), NEW v \in NodesOf(g), NEW h, IsGraph(h), NEW w \in NodesOf(h),
           NEW size \in Nat \ {0}, NEW p, NEW q,
           NEW ex, NEW rho, NEW ls, NEW sp, WholeSite(g, v, size, p, ex, rho, ls, sp),
           NEW e2, NEW r2, NEW l2, NEW s2, WholeSite(h, w, size, q, e2, r2, l2, s2)
    PROVE  p = q <=> LinkSet(ls) = LinkSet(l2) /\ SameLabels(g, ex, h, e2, size)
<1>1. /\ LinksOK(g, ex, ls) /\ Spells(sp, g, ex, ls) /\ p = sp[Len(ls)] /\ Len(ls) \in Nat
      /\ AllNumbered(ex, ls) /\ Len(ex) = size /\ 1 \in 1..Len(ex)
      /\ Tells(p, g, ex, ls, Len(ls), NumberAfter(ls, Len(ls)))
  BY WholeSiteFacts
<1>2. /\ LinksOK(h, e2, l2) /\ Spells(s2, h, e2, l2) /\ q = s2[Len(l2)]
      /\ Tells(q, h, e2, l2, Len(l2), NumberAfter(l2, Len(l2)))
  BY WholeSiteFacts
<1>3. ASSUME LinkSet(ls) = LinkSet(l2), SameLabels(g, ex, h, e2, size)
      PROVE  p = q
  <2>1. Len(ls) = Len(l2) /\ \A i \in 1..Len(ls) : ls[i] = l2[i]
    BY <1>1, <1>2, <1>3, OneOrder
  <2>2. SameLabels(g, ex, h, e2, Len(ex))
    BY <1>1, <1>3
  <2>3. sp[Len(ls)] = s2[Len(l2)]
    BY <1>1, <1>2, <2>1, <2>2, SameSpelt
  <2>4. QED BY <1>1, <1>2, <2>3
<1>4. ASSUME p = q
      PROVE  LinkSet(ls) = LinkSet(l2) /\ SameLabels(g, ex, h, e2, size)
  <2>1. Tells(p, h, e2, l2, Len(l2), NumberAfter(l2, Len(l2)))
    BY <1>2, <1>4
  <2>2. /\ LinkSet(ls) \subseteq LinkSet(l2) /\ g.symb[ex[1]] = h.symb[e2[1]]
        /\ \A m \in 1..Len(ls) : IsNew(ls, m) => g.symb[ex[ls[m][3]]] = h.symb[e2[ls[m][3]]]
    BY <1>1, <1>2, <2>1, ToldTwice
  <2>3. LinkSet(l2) \subseteq LinkSet(ls)
    BY <1>1, <1>2, <2>1, ToldTwice
  <2>4. ASSUME NEW i \in 2..Len(ex) PROVE g.symb[ex[i]] = h.symb[e2[i]]
    <3>1. PICK m \in 1..Len(ls) : ls[m][3] = i /\ IsNew(ls, m)
      BY <1>1, FirstLink
    <3>2. QED BY <2>2, <3>1
  <2>5. \A i \in 1..size : i = 1 \/ i \in 2..Len(ex)
    BY <1>1
  <2>6. SameLabels(g, ex, h, e2, size)
    BY <2>2, <2>4, <2>5 DEF SameLabels
  <2>7. QED BY <2>2, <2>3, <2>6
<1>5. QED BY <1>3, <1>4

LEMMA BinaryFacts ==
    ASSUME Chosen, NEW s \in Binary
    PROVE  /\ IsGraph(s[1]) /\ s[2] \in NodesOf(s[1])
           /\ parcoursLargeur(s[1], s[2], W).complete /\ parcoursLargeur(s[1], s[2], W).asserts
<1>1. /\ s \in Sites
      /\ parcoursLargeur(s[1], s[2], W).complete /\ parcoursLargeur(s[1], s[2], W).asserts
  BY DEF Binary, Sites
<1>2. PICK g \in Graphs(input.learn) : s \in {g} \X NodesOf(g)
  BY <1>1 DEF Sites
<1>3. IsGraph(g)
  BY <1>2, ChosenFacts DEF Graphs, Range
<1>4. s[1] = g /\ s[2] \in NodesOf(g)
  BY <1>2
<1>5. QED BY <1>1, <1>3, <1>4

LEMMA BinaryReads ==
    ASSUME Chosen, NEW s \in Binary
    PROVE  \E ex, rho, ls, sp :
              /\ WholeSite(s[1], s[2], W, parcoursLargeur(s[1], s[2], W).mots, ex, rho, ls, sp)
              /\ Site(s[1], s[2]) = [i \in 1..W |-> ex[i]]
              /\ Links(s[1], Site(s[1], s[2])) = LinkSet(ls)
<1> DEFINE g == s[1]
           v == s[2]
<1>1. /\ IsGraph(g) /\ v \in NodesOf(g) /\ W \in Nat \ {0}
      /\ parcoursLargeur(g, v, W).complete /\ parcoursLargeur(g, v, W).asserts
  BY BinaryFacts, ChosenFacts
<1> HIDE DEF g, v
<1>2. PICK ex, rho, ls, sp : WholeSite(g, v, W, parcoursLargeur(g, v, W).mots, ex, rho, ls, sp)
  BY <1>1, WordReads
<1>3. ByRoutes(g, v, ex, rho) /\ Len(ex) = W
  BY <1>2 DEF WholeSite
<1>4. Site(g, v) = [i \in 1..W |-> ex[i]]
  BY <1>1, <1>3, SiteIs
<1>5. Links(g, [i \in 1..W |-> ex[i]]) = LinkSet(ls)
  BY <1>1, <1>2, LinksAre
<1>6. Links(g, Site(g, v)) = LinkSet(ls)
  BY <1>4, <1>5
<1>7. QED BY <1>2, <1>4, <1>6 DEF g, v

\* Two words are equal exactly when the sites they were written for have the
\* same links at the same places and the same labels.
LEMMA SitesTold ==
    ASSUME Chosen
    PROVE  WordsTellSites
<1>1. ASSUME NEW s \in Binary, NEW t \in Binary
      PROVE  LET a == Site(s[1], s[2])
                 b == Site(t[1], t[2])
             IN  SameWord(parcoursLargeur(s[1], s[2], W).mots,
                          parcoursLargeur(t[1], t[2], W).mots, TRUE)
                 <=> /\ Links(s[1], a) = Links(t[1], b)
                     /\ \A i \in 1..W : s[1].symb[a[i]] = t[1].symb[b[i]]
  <2> DEFINE g == s[1]
             h == t[1]
             p == parcoursLargeur(g, s[2], W).mots
             q == parcoursLargeur(h, t[2], W).mots
             a == Site(g, s[2])
             b == Site(h, t[2])
  <2>1. /\ IsGraph(g) /\ s[2] \in NodesOf(g) /\ IsGraph(h) /\ t[2] \in NodesOf(h) /\ W \in Nat \ {0}
    BY BinaryFacts, ChosenFacts
  <2>2. p \in Seq(WordLetters) /\ q \in Seq(WordLetters)
    BY <2>1, ParcoursFacts DEF WellFormed
  <2>3. PICK ex, rho, ls, sp : /\ WholeSite(g, s[2], W, p, ex, rho, ls, sp)
                               /\ a = [i \in 1..W |-> ex[i]] /\ Links(g, a) = LinkSet(ls)
    BY BinaryReads
  <2>4. PICK e2, r2, l2, s2 : /\ WholeSite(h, t[2], W, q, e2, r2, l2, s2)
                              /\ b = [i \in 1..W |-> e2[i]] /\ Links(h, b) = LinkSet(l2)
    BY BinaryReads
  <2> HIDE DEF g, h, p, q, a, b
  <2>5. p = q <=> LinkSet(ls) = LinkSet(l2) /\ SameLabels(g, ex, h, e2, W)
    BY <2>1, <2>3, <2>4, WordsTell
  <2>6. SameLabels(g, ex, h, e2, W) <=> \A i \in 1..W : g.symb[a[i]] = h.symb[b[i]]
    BY <2>3, <2>4 DEF SameLabels
  <2>7. SameWord(p, q, TRUE) <=> p = q
    BY <2>2, SameWordLabels
  <2>8. SameWord(p, q, TRUE) <=>
           Links(g, a) = Links(h, b) /\ \A i \in 1..W : g.symb[a[i]] = h.symb[b[i]]
    BY <2>3, <2>4, <2>5, <2>6, <2>7
  <2>9. QED BY <2>8 DEF g, h, p, q, a, b
<1>2. QED BY <1>1 DEF WordsTellSites

\* The words of parcoursLargeur say all of the site and nothing else, in every
\* graph whose nodes have two children at most in the site.
THEOREM WordsAreSites == GTSISpec => []WordsTellSites
<1>1. GTSIInv => WordsTellSites
  BY SitesTold DEF GTSIInv, LearningInv
<1>2. QED BY <1>1, GTSIInvariant, PTL
=============================================================================
