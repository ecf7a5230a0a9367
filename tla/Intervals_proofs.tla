-------------------------- MODULE Intervals_proofs --------------------------
(***************************************************************************)
(* Proofs about Intervals, for any set of input graphs, with loops, links  *)
(* to the node itself, double links and nodes the root does not reach.     *)
(*                                                                         *)
(* That the intervals are disjoint rests on where a node comes from: a     *)
(* header other than the first one has a father in an earlier interval, a  *)
(* member has all of them in its own, and a node without fathers joined    *)
(* right behind the node scanned before it.                                *)
(*                                                                         *)
(* That -R ends at a single node for the reducible graphs only rests on    *)
(* two facts about dominators: a graph is reducible exactly when the graph *)
(* of its intervals is, and one in which no node joins an interval has a   *)
(* cycle of forward links.                                                 *)
(***************************************************************************)
EXTENDS Intervals, DataLemmas

-----------------------------------------------------------------------------
(***************************************************************************)
(* The inductive invariant.                                                *)
(***************************************************************************)
Nodes == 1..count(gr)
Heads == 1..currH
Members(h) == Range(intervals[h])

\* The tables: an interval for each header met so far, its header first.
Shape ==
    /\ headers \in Seq(Nodes) /\ IsInjective(headers)
    /\ currH \in 1..Len(headers) /\ headers[1] = gr.root
    /\ intervals \in Seq(Seq(Nodes)) /\ Len(intervals) = currH
    /\ \A h \in Heads : /\ Len(intervals[h]) >= 1 /\ intervals[h][1] = headers[h]
                        /\ IsInjective(intervals[h])
    /\ explored \in [Nodes -> {0, 2}]

\* The marked nodes are the members that are not headers.
Marked ==
    /\ \A h \in Heads : \A m \in 2..Len(intervals[h]) :
          explored[intervals[h][m]] = 2 /\ intervals[h][m] # gr.root
    /\ \A n \in Nodes : explored[n] = 2 => \E h \in Heads : n \in Members(h)

\* A header other than the root was entered from an interval before its own.
HeadersEntered ==
    \A k \in 2..Len(headers) : \E j \in Heads :
        /\ j < k /\ (pc = "scan" => j < currH)
        /\ \E f \in Fathers(gr, headers[k]) : f \in Members(j)

\* A header is in its own interval only.
HeadersOwn ==
    \A k \in 1..Len(headers), h \in Heads : headers[k] \in Members(h) => k = h

\* The node a scan looks at before node n; it skips the root.
NodeBefore(n) == IF n = 1 THEN count(gr) ELSE n - 1
Before(n) == IF NodeBefore(n) # gr.root THEN NodeBefore(n)
             ELSE NodeBefore(NodeBefore(n))

\* A node without fathers is in the interval of the node before it.
Fatherless ==
    \A h \in Heads : \A m \in 2..Len(intervals[h]) :
        Fathers(gr, intervals[h][m]) = {} => Before(intervals[h][m]) \in Members(h)

Inherited == pc = "scan" /\ pOk => Before(i) \in Members(currH)

\* A finished interval can take no other node, the current one none of those
\* a scan that added nothing has passed.
MayJoin(n, h) == /\ n # gr.root /\ Fathers(gr, n) # {}
                 /\ Fathers(gr, n) \subseteq Members(h)
Scanned(n, h) == h = currH /\ pc = "scan" => ~added /\ n < i

Maximal ==
    \A h \in Heads, n \in Nodes : Scanned(n, h) /\ MayJoin(n, h) => n \in Members(h)

\* What a finished interval has links to is in an interval or is a header.
Left(n, h) == h = currH => pc = "link" \/ (pc = "enter" /\ n < i)

Covered ==
    \A h \in Heads, n \in Nodes : \A f \in Fathers(gr, n) :
        Left(n, h) /\ f \in Members(h) => explored[n] = 2 \/ n \in Range(headers)

\* No link is made before the intervals are computed.
Scans ==
    pc \in {"scan", "enter"} =>
        /\ i \in 1..(count(gr) + 1)
        /\ reduced \in Seq(Seq(Heads)) /\ Len(reduced) = currH - 1
        /\ \A h \in 1..(currH - 1) : reduced[h] = <<>>
        /\ memb = 1 /\ kid = 1 /\ dest = 1

\* Where the loops over the links are.
Looping ==
    pc = "link" =>
        /\ currH = Len(headers)
        /\ i \in 1..(currH + 1)
        /\ reduced \in Seq(Seq(Heads)) /\ Len(reduced) = currH
        /\ memb \in 1..(IF AtInterval THEN Len(intervals[i]) + 1 ELSE 1)
        /\ kid \in 1..(IF AtMember THEN children_nb(gr, member) + 1 ELSE 1)
        /\ dest \in 1..(IF AtChild THEN currH + 1 ELSE 1)

\* The links made so far are those the loops have passed.
Passed(h, m, c, k) ==
    \/ h < i
    \/ h = i /\ m < memb
    \/ h = i /\ m = memb /\ c < kid
    \/ h = i /\ m = memb /\ c = kid /\ k < dest

Meets(h, m, c, k) == gr.children[intervals[h][m]][c] \in Members(k)

Met(h, k) ==
    \E m \in 1..Len(intervals[h]) : \E c \in 1..children_nb(gr, intervals[h][m]) :
        Passed(h, m, c, k) /\ Meets(h, m, c, k)

Links ==
    pc = "link" => \A h, k \in Heads :
        /\ IsInjective(reduced[h])
        /\ k \in Range(reduced[h]) <=> k # h /\ Met(h, k)

Computed == /\ Shape /\ Marked /\ FathersFirst /\ OneIntervalEach /\ HeadersEntered
            /\ HeadersOwn /\ Fatherless /\ Inherited /\ Maximal /\ Covered

Inv == /\ TypeOK /\ count(gr) <= count(input)
       /\ Inside => Computed /\ Scans /\ Looping /\ Links
-----------------------------------------------------------------------------
(***************************************************************************)
(* Facts the steps share.                                                  *)
(***************************************************************************)
LEMMA GraphFacts ==
    ASSUME NEW g, IsRooted(g)
    PROVE  /\ Len(g.children) \in Nat /\ NodesOf(g) = 1..Len(g.children)
           /\ g.root \in NodesOf(g) /\ LinksInside(g)
           /\ Cardinality(NodesOf(g)) = Len(g.children)
           /\ \A n \in NodesOf(g) : /\ g.children[n] \in Seq(NodesOf(g))
                                    /\ children_nb(g, n) \in Nat
                                    /\ g.children[n] \in [1..children_nb(g, n) -> NodesOf(g)]
           /\ \A n : Fathers(g, n) \subseteq NodesOf(g)
<1>1. g.children \in Seq(Seq(NodesOf(g))) /\ g.root \in NodesOf(g)
  BY DEF IsRooted, IsGraph
<1>2. NodesOf(g) = 1..Len(g.children) /\ Len(g.children) \in Nat
  BY <1>1, LenProperties DEF NodesOf
<1>3. \A n \in NodesOf(g) : g.children[n] \in Seq(NodesOf(g))
  BY <1>1, <1>2, ElementOfSeq
<1>4. \A n \in NodesOf(g) : /\ children_nb(g, n) \in Nat
                            /\ g.children[n] \in [1..children_nb(g, n) -> NodesOf(g)]
  BY <1>3, LenProperties DEF children_nb
<1>5. Cardinality(NodesOf(g)) = Len(g.children)
  <2> DEFINE n == Len(g.children)
  <2>1. n \in Nat /\ NodesOf(g) = 1..n
    BY <1>2
  <2> HIDE DEF n
  <2>2. Cardinality(1..n) = n
    BY <2>1, FS_Interval
  <2>3. QED BY <2>1, <2>2 DEF n
<1>6. QED BY <1>1, <1>2, <1>3, <1>4, <1>5 DEF Fathers, LinksInside

\* The graph that is being reduced.
LEMMA GrFacts ==
    ASSUME Inv
    PROVE  /\ count(gr) \in Nat /\ count(gr) >= 1 /\ NodesOf(gr) = Nodes /\ gr.root \in Nodes
           /\ \A n : Fathers(gr, n) \subseteq Nodes
           /\ count(input) \in Nat /\ NodesOf(input) = 1..count(input)
           /\ Nodes \subseteq NodesOf(input)
<1>1. IsRooted(gr) /\ IsRooted(input) /\ count(gr) <= count(input)
  BY IntervalsAssumption DEF Inv, TypeOK
<1>2. /\ count(gr) \in Nat /\ NodesOf(gr) = Nodes /\ gr.root \in Nodes
      /\ \A n : Fathers(gr, n) \subseteq Nodes
      /\ count(input) \in Nat /\ NodesOf(input) = 1..count(input)
  BY <1>1, GraphFacts DEF count, Nodes
<1>3. QED BY <1>1, <1>2 DEF Nodes

LEMMA InjectiveIsShort ==
    ASSUME NEW n \in Nat, NEW s \in Seq(1..n), IsInjective(s)
    PROVE  Len(s) <= n
<1> DEFINE S == 1..Len(s)
           T == 1..n
<1>1. Len(s) \in Nat /\ s \in [S -> T]
  BY LenProperties
<1>2. /\ IsFiniteSet(S) /\ Cardinality(S) = Len(s)
      /\ IsFiniteSet(T) /\ Cardinality(T) = n
  <2>1. IsFiniteSet(S) /\ Cardinality(S) = Len(s)
    <3> DEFINE k == Len(s)
    <3>1. k \in Nat
      BY <1>1
    <3> HIDE DEF k
    <3>2. IsFiniteSet(1..k) /\ Cardinality(1..k) = k
      BY <3>1, FS_Interval
    <3>3. QED BY <3>2 DEF k
  <2>2. IsFiniteSet(T) /\ Cardinality(T) = n
    BY FS_Interval
  <2>3. QED BY <2>1, <2>2
<1>3. s \in Injection(S, T)
  BY <1>1 DEF Injection, IsInjective
<1> HIDE DEF S, T
<1>4. Cardinality(S) <= Cardinality(T)
  BY <1>2, <1>3, FS_Injection
<1>5. QED BY <1>2, <1>4

\* The tables while a graph is reduced.
LEMMA ShapeFacts ==
    ASSUME IsRooted(gr), Shape
    PROVE  /\ Len(headers) \in Nat /\ DOMAIN headers = 1..Len(headers)
           /\ \A k \in 1..Len(headers) : headers[k] \in Nodes
           /\ \A x : x \in Range(headers) <=> \E k \in 1..Len(headers) : headers[k] = x
           /\ currH \in Nat /\ currH \in Heads /\ DOMAIN intervals = Heads
           /\ \A h \in Heads : /\ h \in 1..Len(headers) /\ h \in Nat
                               /\ intervals[h] \in Seq(Nodes) /\ Len(intervals[h]) \in Nat
                               /\ DOMAIN intervals[h] = 1..Len(intervals[h])
                               /\ Members(h) \subseteq Nodes /\ headers[h] \in Members(h)
                               /\ \A m \in 1..Len(intervals[h]) :
                                     intervals[h][m] \in Nodes /\ intervals[h][m] \in Members(h)
           /\ \A h \in Heads : \A x : x \in Members(h) <=>
                                     \E m \in 1..Len(intervals[h]) : intervals[h][m] = x
           /\ Len(headers) <= count(gr)
           /\ \A h \in Heads : Len(intervals[h]) <= count(gr)
<1>1. count(gr) \in Nat
  BY GraphFacts DEF count
<1>2. /\ headers \in Seq(Nodes) /\ currH \in 1..Len(headers)
      /\ intervals \in Seq(Seq(Nodes)) /\ Len(intervals) = currH
      /\ IsInjective(headers) /\ \A h \in Heads : IsInjective(intervals[h])
  BY DEF Shape
<1>3. /\ Len(headers) \in Nat /\ DOMAIN headers = 1..Len(headers)
      /\ \A k \in 1..Len(headers) : headers[k] \in Nodes
      /\ \A x : x \in Range(headers) <=> \E k \in 1..Len(headers) : headers[k] = x
  BY <1>2, LenProperties, RangeFacts, ElementOfSeq
<1>4. currH \in Nat /\ currH \in Heads /\ DOMAIN intervals = Heads
  BY <1>2, <1>3, LenProperties DEF Heads
<1>5. \A h \in Heads : intervals[h] \in Seq(Nodes)
  BY <1>2, ElementOfSeq DEF Heads
<1>6. \A h \in Heads : /\ Len(intervals[h]) \in Nat /\ DOMAIN intervals[h] = 1..Len(intervals[h])
                       /\ Members(h) \subseteq Nodes
                       /\ \A m \in 1..Len(intervals[h]) :
                             intervals[h][m] \in Nodes /\ intervals[h][m] \in Members(h)
                       /\ \A x : x \in Members(h) <=>
                                     \E m \in 1..Len(intervals[h]) : intervals[h][m] = x
  BY <1>5, LenProperties, RangeFacts, ElementOfSeq DEF Members
<1>7. \A h \in Heads : headers[h] \in Members(h) /\ h \in 1..Len(headers) /\ h \in Nat
  <2>1. \A h \in Heads : Len(intervals[h]) >= 1 /\ intervals[h][1] = headers[h]
    BY DEF Shape
  <2>2. \A h \in Heads : 1 \in 1..Len(intervals[h])
    BY <2>1, <1>6
  <2>3. \A h \in Heads : h \in 1..Len(headers) /\ h \in Nat
    BY <1>2, <1>3, <1>4 DEF Heads
  <2>4. QED BY <1>6, <2>1, <2>2, <2>3
<1>8. Len(headers) <= count(gr) /\ \A h \in Heads : Len(intervals[h]) <= count(gr)
  BY <1>1, <1>2, <1>5, InjectiveIsShort DEF Nodes
<1>9. QED BY <1>3, <1>4, <1>5, <1>6, <1>7, <1>8

LEMMA InsideFacts ==
    ASSUME Inv, Inside
    PROVE  /\ IsRooted(gr) /\ Computed /\ Scans /\ Looping /\ Links /\ Shape
BY DEF Inv, TypeOK, Computed

-----------------------------------------------------------------------------
(***************************************************************************)
(* The types of the tables follow from their shape.                        *)
(***************************************************************************)
Tables == /\ DOMAIN explored \subseteq NodesOf(input) /\ Range(explored) \subseteq {0, 2}
          /\ headers \in Seq(NodesOf(input)) /\ Len(headers) <= count(input)
          /\ currH \in 0..Len(headers)
          /\ intervals \in Seq(Seq(NodesOf(input))) /\ Len(intervals) <= count(input)
          /\ \A h \in DOMAIN intervals : Len(intervals[h]) <= count(input)

Sized == IsRooted(gr) /\ IsRooted(input) /\ count(gr) <= count(input)

LEMMA TablesType == Sized /\ Shape => Tables
<1> SUFFICES ASSUME IsRooted(gr), IsRooted(input), count(gr) <= count(input), Shape
             PROVE  Tables
  BY DEF Sized
<1>1. count(gr) \in Nat /\ count(input) \in Nat /\ NodesOf(input) = 1..count(input)
  BY GraphFacts DEF count
<1>2. Nodes \subseteq NodesOf(input)
  BY <1>1 DEF Nodes
<1>3. /\ headers \in Seq(Nodes) /\ intervals \in Seq(Seq(Nodes)) /\ Len(intervals) = currH
      /\ explored \in [Nodes -> {0, 2}] /\ currH \in 1..Len(headers)
  BY DEF Shape
<1>4. headers \in Seq(NodesOf(input))
  BY <1>2, <1>3, SeqMonotonic
<1>5. intervals \in Seq(Seq(NodesOf(input)))
  <2> DEFINE A == Seq(Nodes)
             B == Seq(NodesOf(input))
  <2>1. A \subseteq B
    BY <1>2, SeqMonotonic
  <2>2. intervals \in Seq(A)
    BY <1>3
  <2> HIDE DEF A, B
  <2>3. intervals \in Seq(B)
    BY <2>1, <2>2, SeqMonotonic
  <2>4. QED BY <2>3 DEF B
<1>6. DOMAIN explored \subseteq NodesOf(input) /\ Range(explored) \subseteq {0, 2}
  BY <1>2, <1>3 DEF Range
<1>7. /\ Len(headers) \in Nat /\ Len(headers) <= count(gr) /\ DOMAIN intervals = Heads
      /\ \A h \in Heads : Len(intervals[h]) <= count(gr) /\ Len(intervals[h]) \in Nat
  BY ShapeFacts
<1>8. /\ Len(headers) <= count(input) /\ currH \in 0..Len(headers)
      /\ Len(intervals) <= count(input)
      /\ \A h \in Heads : Len(intervals[h]) <= count(input)
  BY <1>1, <1>3, <1>7
<1>9. QED BY <1>4, <1>5, <1>6, <1>7, <1>8 DEF Tables

\* What is left of the type invariant.
Others ==
    /\ input \in Inputs /\ optionRec \in BOOLEAN
    /\ IsRooted(gr)
    /\ pc \in {"main", "scan", "enter", "link", "end"}
    /\ i \in 1..(count(gr) + 1)
    /\ added \in BOOLEAN /\ pOk \in BOOLEAN
    /\ reduced \in Seq(Seq(1..Len(intervals)))
    /\ memb \in Nat /\ kid \in Nat /\ dest \in 1..(Len(intervals) + 1)
    /\ lastN \in 0..count(input)

LEMMA TypeSplit == TypeOK <=> Tables /\ Others
BY DEF TypeOK, Tables, Others

LEMMA TypeSplitNext == TypeOK' <=> Tables' /\ Others'
BY DEF TypeOK, Tables, Others

\* What only speaks of the tables stays true when they stay.
LEMMA SameTables ==
    ASSUME UNCHANGED <<gr, explored, headers, currH, intervals>>
    PROVE  /\ Nodes' = Nodes /\ Heads' = Heads /\ \A h : Members(h)' = Members(h)
           /\ \A n : Before(n)' = Before(n)
           /\ \A n, h : MayJoin(n, h)' <=> MayJoin(n, h)
           /\ Shape' <=> Shape
           /\ Marked' <=> Marked
           /\ HeadersOwn' <=> HeadersOwn
           /\ Fatherless' <=> Fatherless
           /\ Inside /\ FathersFirst => FathersFirst'
           /\ Inside /\ OneIntervalEach => OneIntervalEach'
<1>1. /\ Nodes' = Nodes /\ Heads' = Heads /\ \A h : Members(h)' = Members(h)
      /\ \A n : Before(n)' = Before(n)
      /\ \A n, h : MayJoin(n, h)' <=> MayJoin(n, h)
  BY DEF Nodes, Heads, Members, Before, NodeBefore, MayJoin, count
<1>2. Shape' <=> Shape
  BY <1>1 DEF Shape
<1>3. Marked' <=> Marked
  BY <1>1 DEF Marked
<1>4. HeadersOwn' <=> HeadersOwn
  BY <1>1 DEF HeadersOwn
<1>5. Fatherless' <=> Fatherless
  BY <1>1 DEF Fatherless
<1>6. Inside /\ FathersFirst => FathersFirst'
  BY DEF FathersFirst
<1>7. Inside /\ OneIntervalEach => OneIntervalEach'
  BY DEF OneIntervalEach
<1>8. QED BY <1>1, <1>2, <1>3, <1>4, <1>5, <1>6, <1>7

LEMMA InitInv == Init => Inv
<1> SUFFICES ASSUME Init PROVE Inv
  OBVIOUS
<1>1. /\ gr = input /\ input \in Inputs /\ optionRec \in BOOLEAN /\ pc = "main"
      /\ lastN = 0 /\ headers = <<>> /\ currH = 0 /\ intervals = <<>>
      /\ i = 1 /\ added = FALSE /\ pOk = FALSE /\ reduced = <<>>
      /\ memb = 1 /\ kid = 1 /\ dest = 1 /\ explored = [n \in NodesOf(gr) |-> 0]
  BY DEF Init
<1>2. IsRooted(gr) /\ IsRooted(input)
  BY <1>1, IntervalsAssumption
<1>3. count(gr) \in Nat /\ count(input) \in Nat /\ count(gr) <= count(input)
  BY <1>1, <1>2, GraphFacts DEF count
<1>4. Tables
  <2>1. DOMAIN explored \subseteq NodesOf(input) /\ Range(explored) \subseteq {0, 2}
    BY <1>1 DEF Range
  <2>2. /\ headers \in Seq(NodesOf(input)) /\ intervals \in Seq(Seq(NodesOf(input)))
        /\ Len(headers) = 0 /\ Len(intervals) = 0 /\ DOMAIN intervals = {}
    BY <1>1, EmptySeq
  <2>3. QED BY <1>1, <1>3, <2>1, <2>2 DEF Tables
<1>5. Others
  <2>1. Len(intervals) = 0 /\ reduced \in Seq(Seq(1..Len(intervals)))
    BY <1>1, EmptySeq
  <2>2. i \in 1..(count(gr) + 1) /\ lastN \in 0..count(input)
    BY <1>1, <1>3
  <2>3. memb \in Nat /\ kid \in Nat /\ dest \in 1..(Len(intervals) + 1)
    BY <1>1, <2>1
  <2>4. QED BY <1>1, <1>2, <2>1, <2>2, <2>3 DEF Others
<1>6. ~Inside
  BY <1>1 DEF Inside
<1>7. QED BY <1>3, <1>4, <1>5, <1>6, TypeSplit DEF Inv

-----------------------------------------------------------------------------
(***************************************************************************)
(* main.                                                                   *)
(***************************************************************************)
LEMMA StopStep == Inv /\ (Stop \/ Done \/ UNCHANGED vars) => Inv'
<1> SUFFICES ASSUME Inv, Stop \/ Done \/ UNCHANGED vars PROVE Inv'
  OBVIOUS
<1>1. CASE UNCHANGED vars
  <2>1. UNCHANGED <<input, optionRec, gr, pc, explored, headers, currH, intervals, i, added,
                    pOk, reduced, memb, kid, dest, lastN>>
    BY <1>1 DEF vars, reading, scanning, linking
  <2>2. TypeOK' /\ count(gr)' <= count(input)'
    BY <2>1 DEF Inv, TypeOK, count
  <2>3. (Inside' <=> Inside) /\ (Scans' <=> Scans)
    BY <2>1 DEF Inside, Scans, count, Heads
  <2>4. Inside => Computed'
    <3> SUFFICES ASSUME Inside PROVE Computed'
      OBVIOUS
    <3>1. FathersFirst' /\ OneIntervalEach'
      BY <2>1, SameTables, InsideFacts DEF Computed
    <3>2. Shape' /\ Marked' /\ HeadersOwn' /\ Fatherless'
      BY <2>1, SameTables, InsideFacts DEF Computed
    <3>3. HeadersEntered' /\ Inherited' /\ Maximal' /\ Covered'
      BY <2>1, SameTables, InsideFacts
         DEF Computed, HeadersEntered, Inherited, Maximal, Covered, Scanned, Left
    <3>4. QED BY <3>1, <3>2, <3>3 DEF Computed
  <2>5. Inside => Looping'
    BY <2>1, InsideFacts DEF Looping, AtInterval, AtMember, AtChild, member, Heads
  <2>6. Inside => Links'
    BY <2>1, InsideFacts DEF Links, Met, Meets, Passed, Heads, Members
  <2>7. QED BY <2>2, <2>3, <2>4, <2>5, <2>6, InsideFacts DEF Inv
<1>2. CASE Stop
  <2>1. /\ UNCHANGED <<input, optionRec, gr, explored, headers, currH, intervals, i, added,
                       pOk, reduced, memb, kid, dest, lastN>>
        /\ pc' = "end"
    BY <1>2 DEF Stop, reading, scanning, linking
  <2>2. TypeOK' /\ count(gr)' <= count(input)'
    BY <2>1 DEF Inv, TypeOK, count
  <2>3. ~Inside'
    BY <2>1 DEF Inside
  <2>4. QED BY <2>2, <2>3 DEF Inv
<1>3. QED BY <1>1, <1>2 DEF Done
\* reduceInterval starts with one interval that has only its header, the root.
LEMMA ReduceStep == Inv /\ Reduce => Inv'
<1> SUFFICES ASSUME Inv, Reduce PROVE Inv'
  OBVIOUS
<1>1. /\ pc' = "scan" /\ lastN' = count(gr)
      /\ explored' = [n \in NodesOf(gr) |-> 0]
      /\ headers' = <<gr.root>> /\ currH' = 1 /\ intervals' = << <<gr.root>> >>
      /\ i' = 1 /\ added' = FALSE /\ pOk' = FALSE
      /\ reduced' = <<>> /\ memb' = 1 /\ kid' = 1 /\ dest' = 1
      /\ UNCHANGED <<input, optionRec, gr>>
  BY DEF Reduce
<1>2. /\ IsRooted(gr) /\ IsRooted(input) /\ count(gr) <= count(input)
      /\ input \in Inputs /\ optionRec \in BOOLEAN
  BY IntervalsAssumption DEF Inv, TypeOK
<1>3. /\ count(gr) \in Nat /\ count(gr) >= 1 /\ NodesOf(gr) = Nodes /\ gr.root \in Nodes
      /\ count(input) \in Nat /\ \A n : Fathers(gr, n) \subseteq Nodes
  BY GrFacts
<1>4. Nodes' = Nodes /\ Heads' = {1} /\ count(gr)' = count(gr) /\ count(input)' = count(input)
  BY <1>1 DEF Nodes, Heads, count
<1>5. /\ headers' \in Seq(Nodes) /\ Len(headers') = 1 /\ headers'[1] = gr.root
      /\ intervals' \in Seq(Seq(Nodes)) /\ Len(intervals') = 1
      /\ DOMAIN intervals' = {1} /\ DOMAIN headers' = {1}
      /\ intervals'[1] = <<gr.root>> /\ Len(intervals'[1]) = 1 /\ intervals'[1][1] = gr.root
  <2> DEFINE s == <<gr.root>>
  <2>1. s \in Seq(Nodes) /\ Len(s) = 1 /\ s[1] = gr.root /\ DOMAIN s = {1}
    BY <1>3
  <2> HIDE DEF s
  <2>2. <<s>> \in Seq(Seq(Nodes)) /\ Len(<<s>>) = 1 /\ <<s>>[1] = s /\ DOMAIN <<s>> = {1}
    BY <2>1
  <2>3. headers' = s /\ intervals' = <<s>>
    BY <1>1 DEF s
  <2>4. QED BY <2>1, <2>2, <2>3 DEF s
<1>6. Shape'
  <2>1. IsInjective(headers') /\ IsInjective(intervals'[1])
    BY <1>1, <1>5 DEF IsInjective
  <2>2. explored' \in [Nodes -> {0, 2}]
    BY <1>1, <1>3
  <2>3. currH' \in 1..Len(headers') /\ Len(intervals') = currH' /\ Len(intervals'[1]) >= 1
    BY <1>1, <1>5
  <2>4. headers'[1] = gr'.root /\ intervals'[1][1] = headers'[1]
    BY <1>1, <1>5
  <2>5. QED BY <1>4, <1>5, <2>1, <2>2, <2>3, <2>4 DEF Shape
<1>7. \A h \in Heads' : \A m \in 2..Len(intervals'[h]) : FALSE
  <2>1. 2..1 = {} /\ \A h \in Heads' : Len(intervals'[h]) = 1
    BY <1>4, <1>5
  <2>2. QED BY <2>1
<1>8. Marked' /\ Fatherless' /\ FathersFirst'
  <2>1. \A n \in Nodes : explored'[n] # 2
    BY <1>1, <1>3
  <2>2. Marked'
    BY <1>4, <1>7, <2>1 DEF Marked
  <2>3. Fatherless'
    BY <1>4, <1>7 DEF Fatherless
  <2>4. FathersFirst'
    BY <1>4, <1>5, <1>7 DEF FathersFirst
  <2>5. QED BY <2>2, <2>3, <2>4
<1>9. OneIntervalEach' /\ HeadersEntered' /\ HeadersOwn' /\ Inherited'
  <2>1. OneIntervalEach'
    BY <1>5 DEF OneIntervalEach
  <2>2. HeadersEntered'
    BY <1>5 DEF HeadersEntered
  <2>3. HeadersOwn'
    BY <1>4, <1>5 DEF HeadersOwn
  <2>4. Inherited'
    BY <1>1 DEF Inherited
  <2>5. QED BY <2>1, <2>2, <2>3, <2>4
<1>10. Maximal' /\ Covered'
  <2>1. \A n \in Nodes : ~(n < i')
    BY <1>1 DEF Nodes
  <2>2. \A n \in Nodes', h \in Heads' : ~Scanned(n, h)'
    BY <1>1, <1>4, <2>1 DEF Scanned
  <2>3. \A n \in Nodes', h \in Heads' : ~Left(n, h)'
    BY <1>1, <1>4 DEF Left
  <2>4. QED BY <2>2, <2>3 DEF Maximal, Covered
<1>11. Scans'
  <2>1. i' \in 1..(count(gr)' + 1)
    BY <1>1, <1>3, <1>4
  <2>2. reduced' \in Seq(Seq(Heads')) /\ Len(reduced') = currH' - 1
    BY <1>1, EmptySeq
  <2>3. \A h \in 1..(currH' - 1) : FALSE
    BY <1>1
  <2>4. QED BY <1>1, <2>1, <2>2, <2>3 DEF Scans
<1>12. Looping' /\ Links'
  BY <1>1 DEF Looping, Links
<1>13. Tables'
  <2>1. Sized'
    BY <1>1, <1>2, <1>4 DEF Sized
  <2>2. QED BY <1>6, <2>1, TablesType, PTL
<1>14. Others'
  <2>1. IsRooted(gr)' /\ i' \in 1..(count(gr)' + 1) /\ lastN' \in 0..count(input)'
    BY <1>1, <1>2, <1>3, <1>4
  <2>2. reduced' \in Seq(Seq(1..Len(intervals')))
    BY <1>1, EmptySeq
  <2>3. memb' \in Nat /\ kid' \in Nat /\ dest' \in 1..(Len(intervals') + 1)
    BY <1>1, <1>5
  <2>4. QED BY <1>1, <1>2, <2>1, <2>2, <2>3 DEF Others
<1>15. count(gr)' <= count(input)'
  BY <1>2, <1>4
<1>16. QED BY <1>6, <1>8, <1>9, <1>10, <1>11, <1>12, <1>13, <1>14, <1>15, TypeSplitNext
           DEF Inv, Computed
-----------------------------------------------------------------------------
(***************************************************************************)
(* The steps of a scan that change no table.                               *)
(***************************************************************************)
LEMMA RescanStep == Inv /\ Rescan => Inv'
<1> SUFFICES ASSUME Inv, Rescan PROVE Inv'
  OBVIOUS
<1>1. /\ pc = "scan" /\ i > count(gr) /\ i' = 1 /\ added' = FALSE
      /\ UNCHANGED <<input, optionRec, gr, pc, explored, headers, currH, intervals, pOk,
                     reduced, memb, kid, dest, lastN>>
  BY DEF Rescan, reading, linking
<1>2. Inside /\ Inside'
  BY <1>1 DEF Inside
<1>3. Computed /\ Scans
  BY <1>2 DEF Inv
<1>4. count(gr) \in Nat /\ count(gr) >= 1
  BY GrFacts
<1>5. /\ Nodes' = Nodes /\ Heads' = Heads /\ \A h : Members(h)' = Members(h)
      /\ \A n : Before(n)' = Before(n)
      /\ \A n, h : MayJoin(n, h)' <=> MayJoin(n, h)
      /\ Shape' /\ Marked' /\ HeadersOwn' /\ Fatherless' /\ FathersFirst' /\ OneIntervalEach'
  BY <1>1, <1>2, <1>3, SameTables DEF Computed
<1>6. HeadersEntered'
  BY <1>1, <1>3, <1>5 DEF Computed, HeadersEntered
<1>7. Inherited'
  <2>1. i \in 1..(count(gr) + 1)
    BY <1>1, <1>3 DEF Scans
  <2>2. i = count(gr) + 1 /\ i # 1 /\ i - 1 = count(gr)
    BY <1>1, <1>4, <2>1
  <2>3. NodeBefore(i) = NodeBefore(1)
    BY <2>2 DEF NodeBefore
  <2>4. Before(i) = Before(1)
    BY <2>3 DEF Before
  <2>5. Before(i)' = Before(1)
    BY <1>1, <1>5 DEF Before, NodeBefore, count
  <2>6. pOk => Before(i) \in Members(currH)
    BY <1>1, <1>3 DEF Computed, Inherited
  <2>7. Members(currH)' = Members(currH)
    BY <1>1 DEF Members
  <2>8. QED BY <1>1, <2>4, <2>5, <2>6, <2>7 DEF Inherited
<1>8. Maximal'
  <2>1. \A n \in Nodes : ~(n < i')
    BY <1>1 DEF Nodes
  <2>2. \A n \in Nodes, h \in Heads : Scanned(n, h)' => Scanned(n, h)
    BY <1>1, <2>1 DEF Scanned
  <2>3. QED BY <1>3, <1>5, <2>2 DEF Computed, Maximal
<1>9. Covered'
  <2>1. \A n \in Nodes, h \in Heads : Left(n, h)' => Left(n, h)
    BY <1>1 DEF Left
  <2>2. QED BY <1>1, <1>3, <1>5, <2>1 DEF Computed, Covered
<1>10. i' \in 1..(count(gr)' + 1)
  BY <1>1, <1>4 DEF count
<1>11. Scans'
  BY <1>1, <1>3, <1>5, <1>10 DEF Scans
<1>12. Looping' /\ Links'
  BY <1>1 DEF Looping, Links
<1>13. TypeOK' /\ count(gr)' <= count(input)'
  BY <1>1, <1>10 DEF Inv, TypeOK, count
<1>14. QED BY <1>5, <1>6, <1>7, <1>8, <1>9, <1>11, <1>12, <1>13 DEF Inv, Computed

\* The scan that added nothing has passed every node.
LEMMA EndScanStep == Inv /\ EndScan => Inv'
<1> SUFFICES ASSUME Inv, EndScan PROVE Inv'
  OBVIOUS
<1>1. /\ pc = "scan" /\ i > count(gr) /\ ~added /\ pc' = "enter" /\ i' = 1
      /\ UNCHANGED <<input, optionRec, gr, explored, headers, currH, intervals, added, pOk,
                     reduced, memb, kid, dest, lastN>>
  BY DEF EndScan, ScanAgain, reading, scanning, linking
<1>2. Inside /\ Inside'
  BY <1>1 DEF Inside
<1>3. Computed /\ Scans
  BY <1>2 DEF Inv
<1>4. count(gr) \in Nat /\ count(gr) >= 1
  BY GrFacts
<1>5. /\ Nodes' = Nodes /\ Heads' = Heads /\ \A h : Members(h)' = Members(h)
      /\ \A n, h : MayJoin(n, h)' <=> MayJoin(n, h)
      /\ Shape' /\ Marked' /\ HeadersOwn' /\ Fatherless' /\ FathersFirst' /\ OneIntervalEach'
  BY <1>1, <1>2, <1>3, SameTables DEF Computed
<1>6. HeadersEntered'
  BY <1>1, <1>3, <1>5 DEF Computed, HeadersEntered
<1>7. Inherited'
  BY <1>1 DEF Inherited
<1>8. Maximal'
  <2>1. \A n \in Nodes : n < i
    <3>1. i > count(gr) /\ i \in Nat
      BY <1>1, <1>3 DEF Scans
    <3>2. QED BY <1>4, <3>1 DEF Nodes
  <2>2. \A n \in Nodes, h \in Heads : Scanned(n, h)
    BY <1>1, <2>1 DEF Scanned
  <2>3. QED BY <1>3, <1>5, <2>2 DEF Computed, Maximal
<1>9. Covered'
  <2>1. \A n \in Nodes : ~(n < i')
    BY <1>1 DEF Nodes
  <2>2. \A n \in Nodes, h \in Heads : Left(n, h)' => Left(n, h)
    BY <1>1, <2>1 DEF Left
  <2>3. QED BY <1>1, <1>3, <1>5, <2>2 DEF Computed, Covered
<1>10. i' \in 1..(count(gr)' + 1)
  BY <1>1, <1>4 DEF count
<1>11. Scans'
  BY <1>1, <1>3, <1>5, <1>10 DEF Scans
<1>12. Looping' /\ Links'
  BY <1>1 DEF Looping, Links
<1>13. TypeOK' /\ count(gr)' <= count(input)'
  BY <1>1, <1>10 DEF Inv, TypeOK, count
<1>14. QED BY <1>5, <1>6, <1>7, <1>8, <1>9, <1>11, <1>12, <1>13 DEF Inv, Computed
-----------------------------------------------------------------------------
(***************************************************************************)
(* Visit.                                                                  *)
(***************************************************************************)
\* The node just scanned, if not the root, is the one before the next.
LEMMA BeforeNext ==
    ASSUME Inv, i \in Nodes
    PROVE  Before(i + 1) = IF i = gr.root THEN Before(i) ELSE i
<1>1. count(gr) \in Nat /\ count(gr) >= 1 /\ gr.root \in Nodes
  BY GrFacts
<1>2. i \in Nat /\ i >= 1 /\ i <= count(gr) /\ i + 1 # 1 /\ (i + 1) - 1 = i
  BY <1>1 DEF Nodes
<1>3. NodeBefore(i + 1) = i
  BY <1>2 DEF NodeBefore
<1>4. CASE i # gr.root
  BY <1>3, <1>4 DEF Before
<1>5. CASE i = gr.root
  <2>1. Before(i + 1) = NodeBefore(i)
    BY <1>3, <1>5 DEF Before
  <2>2. CASE NodeBefore(i) # gr.root
    BY <1>5, <2>1, <2>2 DEF Before
  <2>3. CASE NodeBefore(i) = gr.root
    <3>1. i = 1 /\ count(gr) = 1
      BY <1>2, <1>5, <2>3 DEF NodeBefore
    <3>2. NodeBefore(1) = 1
      BY <3>1 DEF NodeBefore
    <3>3. QED BY <1>5, <2>1, <3>1, <3>2 DEF Before
  <2>4. QED BY <2>2, <2>3
<1>6. QED BY <1>4, <1>5

Joining == ~Skipped(i) /\ AllFathers(i)

\* A node that is skipped, or that has a father outside, changes no table.
LEMMA VisitKeeps == Inv /\ Visit /\ ~Joining => Inv'
<1> SUFFICES ASSUME Inv, Visit, ~Joining PROVE Inv'
  OBVIOUS
<1>1. /\ pc = "scan" /\ i <= count(gr) /\ i' = i + 1
      /\ UNCHANGED <<input, optionRec, gr, pc, headers, currH, reduced, memb, kid, dest, lastN>>
  BY DEF Visit, reading, linking
<1>2. /\ UNCHANGED <<intervals, added, explored>>
      /\ pOk' = IF Skipped(i) THEN pOk ELSE FALSE
  <2>1. CASE Skipped(i)
    BY <2>1 DEF Visit
  <2>2. CASE ~Skipped(i)
    <3>1. ~AllFathers(i)
      BY <2>2 DEF Joining
    <3>2. AllFathers(i) \in BOOLEAN
      <4>1. pOk \in BOOLEAN
        BY DEF Inv, TypeOK
      <4>2. QED BY <4>1 DEF AllFathers
    <3>3. pOk' = FALSE
      BY <2>2, <3>1, <3>2 DEF Visit
    <3>4. QED BY <2>2, <3>3 DEF Visit
  <2>3. QED BY <2>1, <2>2
<1>3. Inside /\ Inside'
  BY <1>1 DEF Inside
<1>4. Computed /\ Scans /\ IsRooted(gr) /\ Shape
  BY <1>3, InsideFacts
<1>5. i \in Nodes /\ i \in Nat /\ count(gr) \in Nat
  <2>1. i \in 1..(count(gr) + 1) /\ i <= count(gr) /\ count(gr) \in Nat
    BY <1>1, <1>4, GrFacts DEF Scans
  <2>2. QED BY <2>1 DEF Nodes
<1>6. /\ Nodes' = Nodes /\ Heads' = Heads /\ \A h : Members(h)' = Members(h)
      /\ \A n, h : MayJoin(n, h)' <=> MayJoin(n, h)
      /\ Shape' /\ Marked' /\ HeadersOwn' /\ Fatherless' /\ FathersFirst' /\ OneIntervalEach'
  BY <1>1, <1>2, <1>3, <1>4, SameTables DEF Computed
<1>7. HeadersEntered'
  BY <1>1, <1>4, <1>6 DEF Computed, HeadersEntered
<1>8. Skipped(i) <=> i = gr.root \/ i \in Members(currH)
  BY DEF Skipped, In, current, Members
<1>9. Inherited'
  <2>1. Before(i)' = Before(i + 1)
    <3>1. \A n : n = i + 1 => Before(n)' = Before(n)
      BY <1>1 DEF Before, NodeBefore, count
    <3>2. Before(i)' = Before(i + 1)
      BY <1>1 DEF Before, NodeBefore, count
    <3>3. QED BY <3>2
  <2>2. Members(currH)' = Members(currH)
    BY <1>1, <1>2 DEF Members
  <2>3. pOk => Before(i) \in Members(currH)
    BY <1>1, <1>4 DEF Computed, Inherited
  <2>4. pOk' => Before(i + 1) \in Members(currH)
    BY <1>2, <1>5, <1>8, <2>3, BeforeNext
  <2>5. QED BY <1>1, <2>1, <2>2, <2>4 DEF Inherited
<1>10. MayJoin(i, currH) => i \in Members(currH)
  <2>1. CASE Skipped(i)
    BY <1>8, <2>1 DEF MayJoin
  <2>2. CASE ~Skipped(i)
    BY <2>2 DEF Joining, AllFathers, MayJoin, In, current, Members
  <2>3. QED BY <2>1, <2>2
<1>11. Maximal'
  <2>1. \A n \in Nodes : n < i' => n < i \/ n = i
    BY <1>1, <1>5 DEF Nodes
  <2>2. \A n \in Nodes, h \in Heads : Scanned(n, h)' => Scanned(n, h) \/ (n = i /\ h = currH)
    BY <1>1, <1>2, <2>1 DEF Scanned
  <2>3. QED BY <1>4, <1>6, <1>10, <2>2 DEF Computed, Maximal
<1>12. Covered'
  <2>1. \A n \in Nodes, h \in Heads : Left(n, h)' => Left(n, h)
    BY <1>1 DEF Left
  <2>2. QED BY <1>1, <1>2, <1>4, <1>6, <2>1 DEF Computed, Covered
<1>13. i' \in 1..(count(gr)' + 1)
  BY <1>1, <1>5 DEF count, Nodes
<1>14. Scans'
  BY <1>1, <1>4, <1>6, <1>13 DEF Scans
<1>15. Looping' /\ Links'
  BY <1>1 DEF Looping, Links
<1>16. TypeOK' /\ count(gr)' <= count(input)'
  BY <1>1, <1>2, <1>13 DEF Inv, TypeOK, count
<1>17. QED BY <1>3, <1>6, <1>7, <1>9, <1>11, <1>12, <1>14, <1>15, <1>16 DEF Inv, Computed
\* No node is in two intervals.
LEMMA Apart ==
    ASSUME Inside, IsRooted(gr), Shape, OneIntervalEach,
           NEW h \in Heads, NEW k \in Heads, NEW x, x \in Members(h), x \in Members(k)
    PROVE  h = k
<1>1. DOMAIN intervals = Heads
  BY ShapeFacts
<1>2. QED BY <1>1 DEF OneIntervalEach, Members

\* The fathers of a member were members before.
LEMMA FathersInside ==
    ASSUME Inside, IsRooted(gr), Shape, FathersFirst,
           NEW h \in Heads, NEW m \in 2..Len(intervals[h])
    PROVE  Fathers(gr, intervals[h][m]) \subseteq Members(h)
<1> DEFINE s == intervals[h]
<1>1. s \in Seq(Nodes) /\ Len(s) \in Nat /\ h \in DOMAIN intervals
  BY ShapeFacts
<1>2. m - 1 \in 0..Len(s)
  BY <1>1
<1>3. Fathers(gr, s[m]) \subseteq Range(SubSeq(s, 1, m - 1))
  BY <1>1 DEF FathersFirst
<1>4. /\ SubSeq(s, 1, m - 1) \in Seq(Nodes) /\ Len(SubSeq(s, 1, m - 1)) = m - 1
      /\ \A j \in 1..(m - 1) : SubSeq(s, 1, m - 1)[j] = s[j]
  BY <1>1, <1>2, PrefixFacts
<1>5. \A j \in 1..(m - 1) : j \in 1..Len(s)
  BY <1>1, <1>2
<1>6. Range(SubSeq(s, 1, m - 1)) \subseteq Range(s)
  <2> DEFINE u == SubSeq(s, 1, m - 1)
  <2>1. u \in Seq(Nodes) /\ Len(u) = m - 1 /\ \A j \in 1..(m - 1) : u[j] = s[j]
    BY <1>4
  <2> HIDE DEF u, s
  <2>2. \A x \in Range(u) : \E j \in 1..(m - 1) : u[j] = x
    BY <2>1, RangeFacts
  <2>3. \A j \in 1..(m - 1) : s[j] \in Range(s)
    BY <1>1, <1>5, RangeFacts
  <2>4. Range(u) \subseteq Range(s)
    BY <2>1, <2>2, <2>3
  <2>5. QED BY <2>4 DEF u
<1>7. QED BY <1>3, <1>6 DEF Members

\* A node that joins the current interval is in none, and is not a header.
LEMMA JoinsFromOutside ==
    ASSUME Inv, pc = "scan", i \in Nodes, Joining
    PROVE  /\ i # gr.root /\ i \notin Range(headers)
           /\ \A h \in Heads : i \notin Members(h)
           /\ Fathers(gr, i) \subseteq Members(currH)
           /\ Fathers(gr, i) = {} => Before(i) \in Members(currH)
<1>1. Inside
  BY DEF Inside
<1>2. /\ IsRooted(gr) /\ Shape /\ OneIntervalEach /\ FathersFirst /\ HeadersEntered /\ Fatherless
      /\ Inherited
  BY <1>1, InsideFacts DEF Computed
<1>3. i # gr.root /\ i \notin Members(currH)
  BY DEF Joining, Skipped, In, current, Members
<1>4. Fathers(gr, i) \subseteq Members(currH)
  BY DEF Joining, AllFathers, In, current, Members
<1>5. Fathers(gr, i) = {} => Before(i) \in Members(currH)
  BY <1>2 DEF Joining, AllFathers, Inherited
<1>6. /\ currH \in Heads /\ Len(headers) \in Nat
      /\ \A x : x \in Range(headers) <=> \E k \in 1..Len(headers) : headers[k] = x
      /\ \A h \in Heads : Len(intervals[h]) \in Nat /\ h \in 1..Len(headers)
      /\ \A h \in Heads : \A x : x \in Members(h) <=>
                                \E m \in 1..Len(intervals[h]) : intervals[h][m] = x
  BY <1>2, ShapeFacts
<1>7. ASSUME NEW k \in 1..Len(headers), headers[k] = i PROVE FALSE
  <2>1. CASE k = 1
    BY <1>2, <1>3, <1>7, <2>1 DEF Shape
  <2>2. CASE k # 1
    <3>1. k \in 2..Len(headers)
      BY <1>6, <2>2
    <3>2. PICK j \in Heads : j < currH /\ \E f \in Fathers(gr, i) : f \in Members(j)
      BY <1>2, <1>7, <3>1 DEF HeadersEntered
    <3>3. PICK f \in Fathers(gr, i) : f \in Members(j)
      BY <3>2
    <3>4. f \in Members(currH)
      BY <1>4, <3>3
    <3>5. j = currH
      BY <1>1, <1>2, <1>6, <3>3, <3>4, Apart
    <3>6. currH \in Nat
      BY <1>2, ShapeFacts
    <3>7. QED BY <3>2, <3>5, <3>6
  <2>3. QED BY <2>1, <2>2
<1>8. ASSUME NEW h \in Heads, i \in Members(h) PROVE FALSE
  <2>1. PICK m \in 1..Len(intervals[h]) : intervals[h][m] = i
    BY <1>6, <1>8
  <2>2. m # 1
    <3>1. intervals[h][1] = headers[h] /\ h \in 1..Len(headers)
      BY <1>2, <1>6 DEF Shape
    <3>2. QED BY <1>7, <2>1, <3>1
  <2>3. m \in 2..Len(intervals[h])
    BY <1>6, <2>2
  <2>4. h # currH
    BY <1>3, <1>8
  <2>5. Fathers(gr, i) \subseteq Members(h)
    BY <1>1, <1>2, <2>1, <2>3, FathersInside
  <2>6. CASE Fathers(gr, i) = {}
    <3>1. Before(i) \in Members(h)
      BY <1>2, <2>1, <2>3, <2>6 DEF Fatherless
    <3>2. QED BY <1>1, <1>2, <1>5, <1>6, <2>4, <2>6, <3>1, Apart
  <2>7. CASE Fathers(gr, i) # {}
    <3>1. PICK f \in Fathers(gr, i) : TRUE
      BY <2>7
    <3>2. f \in Members(h) /\ f \in Members(currH)
      BY <1>4, <2>5, <3>1
    <3>3. QED BY <1>1, <1>2, <1>6, <2>4, <3>2, Apart
  <2>8. QED BY <2>6, <2>7
<1>9. QED BY <1>3, <1>4, <1>5, <1>6, <1>7, <1>8

\* The current interval has one more member.
Grows ==
    /\ \A h \in Heads : h # currH => intervals'[h] = intervals[h] /\ Members(h)' = Members(h)
    /\ intervals'[currH] = Append(intervals[currH], i)
    /\ Members(currH)' = Members(currH) \cup {i}
    /\ intervals' \in Seq(Seq(Nodes)) /\ Len(intervals') = currH
    /\ IsInjective(intervals'[currH])
    /\ Len(intervals'[currH]) = Len(intervals[currH]) + 1
    /\ \A m \in 1..Len(intervals[currH]) : intervals'[currH][m] = intervals[currH][m]
    /\ intervals'[currH][Len(intervals[currH]) + 1] = i

LEMMA JoinGrows ==
    ASSUME IsRooted(gr), Shape, i \in Nodes, i \notin Members(currH), currH' = currH,
           intervals' = [intervals EXCEPT ![currH] = Append(@, i)]
    PROVE  Grows
<1> DEFINE s == intervals[currH]
           t == Append(s, i)
           T == Seq(Nodes)
<1>1. /\ currH \in Heads /\ DOMAIN intervals = Heads /\ s \in Seq(Nodes) /\ Len(s) \in Nat
      /\ intervals \in Seq(T) /\ Len(intervals) = currH
  BY ShapeFacts DEF Shape
<1>2. t \in T /\ Len(t) = Len(s) + 1 /\ t[Len(s) + 1] = i /\ \A m \in 1..Len(s) : t[m] = s[m]
  BY <1>1, AppendProperties
<1>3. IsInjective(s) /\ i \notin Range(s)
  BY <1>1 DEF Shape, Members
<1>4. Range(t) = Range(s) \cup {i} /\ IsInjective(t)
  BY <1>1, <1>3, RangeAppend
<1> HIDE DEF t, T
<1>5. intervals' = [intervals EXCEPT ![currH] = t]
  BY DEF t
<1>6. currH \in 1..Len(intervals)
  BY <1>1 DEF Heads
<1>7. intervals' \in Seq(T) /\ Len(intervals') = Len(intervals)
  <2>1. /\ [intervals EXCEPT ![currH] = t] \in Seq(T)
        /\ Len([intervals EXCEPT ![currH] = t]) = Len(intervals)
    BY <1>1, <1>2, <1>6, ExceptSeq
  <2>2. QED BY <1>5, <2>1
<1>8. intervals'[currH] = t /\ \A h \in Heads : h # currH => intervals'[h] = intervals[h]
  BY <1>1, <1>5
<1>9. QED BY <1>1, <1>2, <1>4, <1>7, <1>8 DEF Grows, Members, t, T
LEMMA GrowsPlaces ==
    ASSUME IsRooted(gr), Shape, Grows, NEW h \in Heads, NEW m \in 2..Len(intervals'[h])
    PROVE  \/ /\ h = currH /\ m = Len(intervals[h]) + 1 /\ intervals'[h][m] = i
           \/ /\ m \in 2..Len(intervals[h]) /\ intervals'[h][m] = intervals[h][m]
<1>1. currH \in Heads /\ Len(intervals[h]) \in Nat /\ Len(intervals[currH]) \in Nat
  BY ShapeFacts
<1>2. CASE h # currH
  BY <1>2 DEF Grows
<1>3. CASE h = currH
  <2>1. Len(intervals'[h]) = Len(intervals[h]) + 1
    BY <1>3 DEF Grows
  <2>2. CASE m = Len(intervals[h]) + 1
    BY <1>3, <2>2 DEF Grows
  <2>3. CASE m # Len(intervals[h]) + 1
    <3>1. m \in 2..Len(intervals[h]) /\ m \in 1..Len(intervals[h])
      BY <1>1, <2>1, <2>3
    <3>2. QED BY <1>3, <3>1 DEF Grows
  <2>4. QED BY <2>2, <2>3
<1>4. QED BY <1>2, <1>3

\* The node joins the current interval as its last member.
LEMMA VisitJoins == Inv /\ Visit /\ Joining => Inv'
<1> SUFFICES ASSUME Inv, Visit, Joining PROVE Inv'
  OBVIOUS
<1>1. /\ pc = "scan" /\ i <= count(gr) /\ i' = i + 1
      /\ UNCHANGED <<input, optionRec, gr, pc, headers, currH, reduced, memb, kid, dest, lastN>>
  BY DEF Visit, reading, linking
<1>2. /\ intervals' = [intervals EXCEPT ![currH] = Append(@, i)]
      /\ added' = TRUE /\ pOk' = TRUE
      /\ explored' = [explored EXCEPT ![i] = 2]
  <2>1. AllFathers(i) \in BOOLEAN
    <3>1. pOk \in BOOLEAN
      BY DEF Inv, TypeOK
    <3>2. QED BY <3>1 DEF AllFathers
  <2>2. pOk' = AllFathers(i) /\ pOk'
    BY DEF Visit, Joining
  <2>3. QED BY <2>1, <2>2 DEF Visit, Joining
<1>3. Inside /\ Inside'
  BY <1>1 DEF Inside
<1>4. Computed /\ Scans /\ IsRooted(gr) /\ Shape
  BY <1>3, InsideFacts
<1>5. i \in Nodes /\ i \in Nat /\ count(gr) \in Nat
  <2>1. i \in 1..(count(gr) + 1) /\ i <= count(gr) /\ count(gr) \in Nat
    BY <1>1, <1>4, GrFacts DEF Scans
  <2>2. QED BY <2>1 DEF Nodes
<1>6. /\ i # gr.root /\ i \notin Range(headers)
      /\ \A h \in Heads : i \notin Members(h)
      /\ Fathers(gr, i) \subseteq Members(currH)
      /\ Fathers(gr, i) = {} => Before(i) \in Members(currH)
  BY <1>1, <1>5, JoinsFromOutside
<1>7. /\ currH \in Heads /\ DOMAIN intervals = Heads
      /\ \A h \in Heads : /\ Len(intervals[h]) \in Nat /\ intervals[h] \in Seq(Nodes)
                          /\ Members(h) \subseteq Nodes
                          /\ \A m \in 1..Len(intervals[h]) : intervals[h][m] \in Members(h)
      /\ \A k \in 1..Len(headers) : headers[k] \in Range(headers)
  BY <1>4, ShapeFacts
<1>8. Grows
  BY <1>1, <1>2, <1>4, <1>5, <1>6, <1>7, JoinGrows
<1>9. /\ Nodes' = Nodes /\ Heads' = Heads /\ count(gr)' = count(gr)
      /\ \A n : Before(n)' = Before(n)
      /\ \A h \in Heads : Members(h) \subseteq Members(h)'
      /\ \A h \in Heads : \A x : x \in Members(h)' => x \in Members(h) \/ (x = i /\ h = currH)
  BY <1>1, <1>8 DEF Nodes, Heads, Before, NodeBefore, count, Grows
<1>10. Shape'
  <2>1. \A h \in Heads : /\ Len(intervals'[h]) >= 1 /\ intervals'[h][1] = headers[h]
                         /\ IsInjective(intervals'[h])
    <3>1. ASSUME NEW h \in Heads
          PROVE  Len(intervals[h]) >= 1 /\ intervals[h][1] = headers[h] /\ IsInjective(intervals[h])
      BY <1>4 DEF Shape
    <3>2. \A h \in Heads : h # currH => intervals'[h] = intervals[h]
      BY <1>8 DEF Grows
    <3>3. Len(intervals'[currH]) >= 1 /\ intervals'[currH][1] = intervals[currH][1]
      BY <1>7, <1>8, <3>1 DEF Grows
    <3>4. IsInjective(intervals'[currH])
      BY <1>8 DEF Grows
    <3>5. QED BY <1>7, <3>1, <3>2, <3>3, <3>4
  <2>2. explored' \in [Nodes -> {0, 2}]
    BY <1>2, <1>4, <1>5 DEF Shape
  <2>3. intervals' \in Seq(Seq(Nodes)) /\ Len(intervals') = currH
    BY <1>8 DEF Grows
  <2>4. QED BY <1>1, <1>4, <1>9, <2>1, <2>2, <2>3 DEF Shape
<1>11. explored'[i] = 2 /\ \A n \in Nodes : n # i => explored'[n] = explored[n]
  BY <1>2, <1>4, <1>5 DEF Shape
<1>12. Marked'
  <2>1. ASSUME NEW h \in Heads, NEW m \in 2..Len(intervals'[h])
        PROVE  explored'[intervals'[h][m]] = 2 /\ intervals'[h][m] # gr.root
    <3>1. CASE intervals'[h][m] = i
      BY <1>6, <1>11, <3>1
    <3>2. CASE intervals'[h][m] # i
      <4>1. m \in 2..Len(intervals[h]) /\ intervals'[h][m] = intervals[h][m]
        BY <1>4, <1>8, <3>2, GrowsPlaces
      <4>2. intervals[h][m] \in Nodes
        BY <1>7, <4>1, ElementOfSeq
      <4>3. explored[intervals[h][m]] = 2 /\ intervals[h][m] # gr.root
        BY <1>4, <4>1 DEF Computed, Marked
      <4>4. QED BY <1>11, <3>2, <4>1, <4>2, <4>3
    <3>3. QED BY <3>1, <3>2
  <2>2. ASSUME NEW n \in Nodes, explored'[n] = 2 PROVE \E h \in Heads : n \in Members(h)'
    <3>1. CASE n = i
      <4>1. i \in Range(intervals'[currH])
        BY <1>1, <1>8 DEF Grows, Members
      <4>2. QED BY <1>7, <3>1, <4>1 DEF Members
    <3>2. CASE n # i
      BY <1>4, <1>9, <1>11, <2>2, <3>2 DEF Computed, Marked
    <3>3. QED BY <3>1, <3>2
  <2>3. QED BY <1>1, <1>9, <2>1, <2>2 DEF Marked
<1>13. DOMAIN intervals' = Heads
  BY <1>2, <1>7
<1>14. FathersFirst'
  <2>1. ASSUME NEW h \in Heads, NEW m \in 2..Len(intervals'[h])
        PROVE  Fathers(gr, intervals'[h][m]) \subseteq Range(SubSeq(intervals'[h], 1, m - 1))
    <3>1. CASE h # currH
      BY <1>3, <1>4, <1>7, <1>8, <3>1 DEF Computed, FathersFirst, Grows
    <3>2. CASE h = currH
      <4> DEFINE s == intervals[currH]
                 t == Append(s, i)
      <4>1. /\ s \in Seq(Nodes) /\ Len(s) \in Nat /\ intervals'[h] = t
            /\ \A k \in 0..Len(s) : SubSeq(t, 1, k) = SubSeq(s, 1, k)
        BY <1>5, <1>7, <1>8, <3>2, AppendFacts DEF Grows
      <4>2. CASE m = Len(s) + 1 /\ intervals'[h][m] = i
        <5>1. m - 1 = Len(s) /\ SubSeq(t, 1, Len(s)) = SubSeq(s, 1, Len(s))
          BY <4>1, <4>2
        <5>2. SubSeq(s, 1, Len(s)) = s
          BY <4>1, SubSeqFull
        <5>3. QED BY <1>6, <4>1, <4>2, <5>1, <5>2 DEF Members
      <4>3. CASE m \in 2..Len(s) /\ intervals'[h][m] = s[m]
        <5>1. m - 1 \in 0..Len(s)
          BY <4>1, <4>3
        <5>2. Fathers(gr, s[m]) \subseteq Range(SubSeq(s, 1, m - 1))
          BY <1>3, <1>4, <1>7, <4>3 DEF Computed, FathersFirst
        <5>3. QED BY <4>1, <4>3, <5>1, <5>2
      <4>4. QED BY <1>4, <1>8, <3>2, <4>2, <4>3, GrowsPlaces
    <3>3. QED BY <3>1, <3>2
  <2>2. QED BY <1>1, <1>13, <2>1 DEF FathersFirst
<1>15. OneIntervalEach'
  <2>1. ASSUME NEW h \in Heads, NEW k \in Heads, NEW x, x \in Members(h)', x \in Members(k)'
        PROVE  h = k
    <3>1. CASE x = i
      BY <1>6, <1>9, <2>1, <3>1
    <3>2. CASE x # i
      BY <1>3, <1>4, <1>9, <2>1, <3>2, Apart DEF Computed
    <3>3. QED BY <3>1, <3>2
  <2>2. QED BY <1>13, <2>1 DEF OneIntervalEach, Members
<1>16. HeadersEntered'
  BY <1>1, <1>4, <1>9 DEF Computed, HeadersEntered
<1>17. HeadersOwn'
  <2>1. ASSUME NEW k \in 1..Len(headers), NEW h \in Heads, headers[k] \in Members(h)'
        PROVE  k = h
    <3>1. headers[k] # i
      BY <1>6, <1>7
    <3>2. headers[k] \in Members(h)
      BY <1>9, <2>1, <3>1
    <3>3. QED BY <1>4, <3>2 DEF Computed, HeadersOwn
  <2>2. QED BY <1>1, <1>9, <2>1 DEF HeadersOwn
<1>18. Fatherless'
  <2>1. ASSUME NEW h \in Heads, NEW m \in 2..Len(intervals'[h]),
               Fathers(gr, intervals'[h][m]) = {}
        PROVE  Before(intervals'[h][m]) \in Members(h)
    <3>1. CASE h = currH /\ intervals'[h][m] = i
      BY <1>6, <2>1, <3>1
    <3>2. CASE m \in 2..Len(intervals[h]) /\ intervals'[h][m] = intervals[h][m]
      BY <1>4, <2>1, <3>2 DEF Computed, Fatherless
    <3>3. QED BY <1>4, <1>8, <3>1, <3>2, GrowsPlaces
  <2>2. QED BY <1>1, <1>9, <2>1 DEF Fatherless
<1>19. Inherited'
  <2>1. Before(i)' = Before(i + 1)
    BY <1>1 DEF Before, NodeBefore, count
  <2>2. Before(i + 1) = i
    BY <1>5, <1>6, BeforeNext
  <2>3. i \in Members(currH)' /\ Members(currH)' = Range(intervals'[currH])
    BY <1>1, <1>8 DEF Grows, Members
  <2>4. QED BY <1>1, <2>1, <2>2, <2>3 DEF Inherited
<1>20. Maximal'
  <2>1. ASSUME NEW h \in Heads, NEW n \in Nodes, Scanned(n, h)', MayJoin(n, h)'
        PROVE  n \in Members(h)'
    <3>1. h # currH
      BY <1>1, <1>2, <2>1 DEF Scanned
    <3>2. Members(h)' = Members(h)
      BY <1>8, <3>1 DEF Grows
    <3>3. Scanned(n, h) /\ MayJoin(n, h)
      BY <1>1, <2>1, <3>1, <3>2 DEF Scanned, MayJoin
    <3>4. QED BY <1>4, <3>2, <3>3 DEF Computed, Maximal
  <2>2. QED BY <1>9, <2>1 DEF Maximal
<1>21. Covered'
  <2>1. ASSUME NEW h \in Heads, NEW n \in Nodes, NEW f \in Fathers(gr, n),
               Left(n, h)', f \in Members(h)'
        PROVE  explored'[n] = 2 \/ n \in Range(headers)
    <3>1. h # currH /\ Left(n, h)
      BY <1>1, <2>1 DEF Left
    <3>2. f \in Members(h)
      BY <1>9, <2>1, <3>1
    <3>3. explored[n] = 2 \/ n \in Range(headers)
      BY <1>4, <3>1, <3>2 DEF Computed, Covered
    <3>4. QED BY <1>11, <3>3
  <2>2. QED BY <1>1, <1>9, <2>1 DEF Covered
<1>22. i' \in 1..(count(gr)' + 1)
  BY <1>1, <1>5 DEF count, Nodes
<1>23. Scans'
  BY <1>1, <1>4, <1>9, <1>22 DEF Scans
<1>24. Looping' /\ Links'
  BY <1>1 DEF Looping, Links
<1>25. Tables' /\ count(gr)' <= count(input)'
  <2>1. Sized'
    <3>1. IsRooted(input) /\ count(gr) <= count(input)
      BY IntervalsAssumption DEF Inv, TypeOK
    <3>2. QED BY <1>1, <1>4, <3>1 DEF Sized, count
  <2>2. Tables'
    BY <1>10, <2>1, TablesType, PTL
  <2>3. QED BY <2>1, <2>2 DEF Sized
<1>26. Others'
  <2>1. Len(intervals') = Len(intervals)
    BY <1>4, <1>8 DEF Grows, Shape
  <2>2. Others
    BY TypeSplit DEF Inv
  <2>3. QED BY <1>1, <1>2, <1>22, <2>1, <2>2 DEF Others, count
<1>27. QED BY <1>3, <1>10, <1>12, <1>14, <1>15, <1>16, <1>17, <1>18, <1>19, <1>20, <1>21,
              <1>23, <1>24, <1>25, <1>26, TypeSplitNext DEF Inv, Computed
-----------------------------------------------------------------------------
(***************************************************************************)
(* The search for headers.                                                 *)
(***************************************************************************)
LEMMA EnterStep == Inv /\ Enter => Inv'
<1> SUFFICES ASSUME Inv, Enter PROVE Inv'
  OBVIOUS
<1>1. /\ pc = "enter" /\ i <= count(gr) /\ i' = i + 1
      /\ headers' = IF Entered(i) THEN Append(headers, i) ELSE headers
      /\ UNCHANGED <<input, optionRec, gr, pc, explored, currH, intervals, added, pOk,
                     reduced, memb, kid, dest, lastN>>
  BY DEF Enter, reading, linking
<1>2. Inside /\ Inside'
  BY <1>1 DEF Inside
<1>3. Computed /\ Scans /\ IsRooted(gr) /\ Shape
  BY <1>2, InsideFacts
<1>4. i \in Nodes /\ i \in Nat /\ count(gr) \in Nat
  <2>1. i \in 1..(count(gr) + 1) /\ i <= count(gr) /\ count(gr) \in Nat
    BY <1>1, <1>3, GrFacts DEF Scans
  <2>2. QED BY <2>1 DEF Nodes
<1>5. /\ Len(headers) \in Nat /\ currH \in Heads /\ currH \in 1..Len(headers) /\ currH \in Nat
      /\ headers \in Seq(Nodes) /\ DOMAIN intervals = Heads
      /\ \A x : x \in Range(headers) <=> \E k \in 1..Len(headers) : headers[k] = x
      /\ \A h \in Heads : /\ Len(intervals[h]) \in Nat /\ h \in 1..Len(headers)
                          /\ headers[h] \in Members(h)
      /\ \A h \in Heads : \A x : x \in Members(h) <=>
                                \E m \in 1..Len(intervals[h]) : intervals[h][m] = x
  BY <1>3, ShapeFacts DEF Shape
<1>6. /\ Nodes' = Nodes /\ Heads' = Heads /\ \A h : Members(h)' = Members(h)
      /\ \A n, h : MayJoin(n, h)' <=> MayJoin(n, h)
  BY <1>1 DEF Nodes, Heads, Members, MayJoin, count
<1>7. Entered(i) <=> /\ explored[i] = 0 /\ i \notin Range(headers)
                     /\ \E f \in Fathers(gr, i) : f \in Members(currH)
  BY DEF Entered, In, current, Members
<1>8. ASSUME Entered(i), NEW h \in Heads PROVE i \notin Members(h)
  <2>1. SUFFICES ASSUME NEW m \in 1..Len(intervals[h]), intervals[h][m] = i PROVE FALSE
    BY <1>5
  <2>2. CASE m = 1
    <3>1. headers[h] = i
      BY <1>3, <2>1, <2>2 DEF Shape
    <3>2. QED BY <1>5, <1>7, <1>8, <3>1
  <2>3. CASE m # 1
    <3>1. m \in 2..Len(intervals[h])
      BY <1>5, <2>3
    <3>2. explored[i] = 2
      BY <1>3, <2>1, <3>1 DEF Computed, Marked
    <3>3. QED BY <1>7, <1>8, <3>2
  <2>4. QED BY <2>2, <2>3
<1>9. /\ headers' \in Seq(Nodes) /\ IsInjective(headers')
      /\ Len(headers') \in Nat /\ Len(headers) <= Len(headers')
      /\ \A k \in 1..Len(headers) : headers'[k] = headers[k]
      /\ Range(headers) \subseteq Range(headers')
      /\ \A k \in 1..Len(headers') : k \notin 1..Len(headers) =>
             Entered(i) /\ headers'[k] = i /\ k = Len(headers) + 1
      /\ Entered(i) => i \in Range(headers')
  <2>1. IsInjective(headers)
    BY <1>3 DEF Shape
  <2>2. CASE ~Entered(i)
    BY <1>1, <1>5, <2>1, <2>2
  <2>3. CASE Entered(i)
    <3>1. /\ headers' = Append(headers, i) /\ headers' \in Seq(Nodes)
          /\ Len(headers') = Len(headers) + 1 /\ headers'[Len(headers) + 1] = i
          /\ \A k \in 1..Len(headers) : headers'[k] = headers[k]
      BY <1>1, <1>4, <1>5, <2>3, AppendProperties
    <3>2. Range(headers') = Range(headers) \cup {i} /\ IsInjective(headers')
      BY <1>4, <1>5, <1>7, <2>1, <2>3, <3>1, RangeAppend
    <3>3. /\ Len(headers') \in Nat /\ Len(headers) <= Len(headers')
          /\ \A k \in 1..Len(headers') : k \notin 1..Len(headers) => k = Len(headers) + 1
      BY <1>5, <3>1, SMTT(30)
    <3>4. QED BY <2>3, <3>1, <3>2, <3>3
  <2>4. QED BY <2>2, <2>3
<1>10. Shape'
  <2>1. currH \in 1..Len(headers') /\ 1 \in 1..Len(headers)
    BY <1>5, <1>9
  <2>2. headers'[1] = gr.root /\ \A h \in Heads : headers'[h] = headers[h]
    BY <1>3, <1>5, <1>9, <2>1 DEF Shape
  <2>3. QED BY <1>1, <1>3, <1>6, <1>9, <2>1, <2>2 DEF Shape
<1>11. Marked' /\ Fatherless' /\ FathersFirst' /\ OneIntervalEach'
  <2>1. Marked'
    BY <1>1, <1>3, <1>6 DEF Computed, Marked
  <2>2. FathersFirst' /\ OneIntervalEach'
    BY <1>1, <1>2, <1>3 DEF Computed, FathersFirst, OneIntervalEach
  <2>3. \A n : Before(n)' = Before(n)
    BY <1>1 DEF Before, NodeBefore, count
  <2>4. Fatherless'
    BY <1>1, <1>3, <1>6, <2>3 DEF Computed, Fatherless
  <2>5. QED BY <2>1, <2>2, <2>4
<1>12. HeadersEntered'
  <2>1. ASSUME NEW k \in 2..Len(headers')
        PROVE  \E j \in Heads : j < k /\ \E f \in Fathers(gr, headers'[k]) : f \in Members(j)
    <3>1. CASE k \in 1..Len(headers)
      <4>1. k \in 2..Len(headers) /\ headers'[k] = headers[k]
        BY <1>9, <3>1
      <4>2. QED BY <1>3, <4>1 DEF Computed, HeadersEntered
    <3>2. CASE k \notin 1..Len(headers)
      <4>1. k \in 1..Len(headers')
        BY <1>9
      <4>2. Entered(i) /\ headers'[k] = i /\ k = Len(headers) + 1
        BY <1>9, <3>2, <4>1
      <4>3. currH < k
        BY <1>5, <4>2
      <4>4. QED BY <1>5, <1>7, <4>2, <4>3
    <3>3. QED BY <3>1, <3>2
  <2>2. pc' # "scan"
    BY <1>1
  <2>3. QED BY <1>1, <1>6, <2>1, <2>2 DEF HeadersEntered
<1>13. HeadersOwn'
  <2>1. ASSUME NEW k \in 1..Len(headers'), NEW h \in Heads, headers'[k] \in Members(h)
        PROVE  k = h
    <3>1. CASE k \in 1..Len(headers)
      BY <1>3, <1>9, <2>1, <3>1 DEF Computed, HeadersOwn
    <3>2. CASE k \notin 1..Len(headers)
      BY <1>8, <1>9, <2>1, <3>2
    <3>3. QED BY <3>1, <3>2
  <2>2. QED BY <1>6, <2>1 DEF HeadersOwn
<1>14. Inherited'
  BY <1>1 DEF Inherited
<1>15. Maximal'
  <2>1. \A n \in Nodes, h \in Heads : Scanned(n, h)
    BY <1>1 DEF Scanned
  <2>2. QED BY <1>3, <1>6, <2>1 DEF Computed, Maximal
<1>16. Covered'
  <2>1. ASSUME NEW h \in Heads, NEW n \in Nodes, NEW f \in Fathers(gr, n),
               Left(n, h)', f \in Members(h)
        PROVE  explored[n] = 2 \/ n \in Range(headers')
    <3>1. \A x \in Nodes : x < i' => x < i \/ x = i
      BY <1>1, <1>4 DEF Nodes
    <3>2. Left(n, h) \/ (h = currH /\ n = i)
      BY <1>1, <2>1, <3>1 DEF Left
    <3>3. CASE Left(n, h)
      BY <1>3, <1>9, <2>1, <3>3 DEF Computed, Covered
    <3>4. CASE h = currH /\ n = i
      <4>1. explored[i] \in {0, 2}
        BY <1>3, <1>4 DEF Shape
      <4>2. QED BY <1>7, <1>9, <2>1, <3>4, <4>1
    <3>5. QED BY <3>2, <3>3, <3>4
  <2>2. QED BY <1>1, <1>6, <2>1 DEF Covered
<1>17. i' \in 1..(count(gr)' + 1)
  BY <1>1, <1>4 DEF count, Nodes
<1>18. Scans'
  BY <1>1, <1>3, <1>6, <1>17 DEF Scans
<1>19. Looping' /\ Links'
  BY <1>1 DEF Looping, Links
<1>20. Tables' /\ count(gr)' <= count(input)'
  <2>1. Sized'
    <3>1. IsRooted(input) /\ count(gr) <= count(input)
      BY IntervalsAssumption DEF Inv, TypeOK
    <3>2. QED BY <1>1, <1>3, <3>1 DEF Sized, count
  <2>2. Tables'
    BY <1>10, <2>1, TablesType, PTL
  <2>3. QED BY <2>1, <2>2 DEF Sized
<1>21. Others'
  <2>1. Others
    BY TypeSplit DEF Inv
  <2>2. QED BY <1>1, <1>17, <2>1 DEF Others, count
<1>22. QED BY <1>2, <1>10, <1>11, <1>12, <1>13, <1>14, <1>15, <1>16, <1>18, <1>19, <1>20,
              <1>21, TypeSplitNext DEF Inv, Computed
\* When every node was looked at, whatever the finished intervals have links to
\* is in an interval or a header.
LEMMA AllLeft ==
    ASSUME Inv, pc = "enter", i > count(gr)
    PROVE  \A n \in Nodes, h \in Heads : Left(n, h)
<1>1. Inside
  BY DEF Inside
<1>2. i \in Nat /\ count(gr) \in Nat
  <2>1. i \in 1..(count(gr) + 1) /\ count(gr) \in Nat
    BY <1>1, InsideFacts, GrFacts DEF Scans
  <2>2. QED BY <2>1
<1>3. \A n \in Nodes : n < i
  BY <1>2 DEF Nodes
<1>4. QED BY <1>3 DEF Left

\* The reduced graph gets a node, without links yet.
LEMMA NodeAdded ==
    ASSUME NEW n \in Nat, NEW A, NEW B, A \subseteq B, NEW r \in Seq(Seq(A)), Len(r) = n,
           \A h \in 1..n : r[h] = <<>>
    PROVE  /\ Append(r, <<>>) \in Seq(Seq(B)) /\ Len(Append(r, <<>>)) = n + 1
           /\ \A h \in 1..(n + 1) : Append(r, <<>>)[h] = <<>>
<1> DEFINE S == Seq(A)
           T == Seq(B)
           e == <<>>
           t == Append(r, e)
<1>1. S \subseteq T
  BY SeqMonotonic
<1>2. e \in T
  BY EmptySeq
<1> HIDE DEF S, T, e
<1>3. r \in Seq(T)
  <2>1. r \in Seq(S)
    BY DEF S
  <2>2. QED BY <1>1, <2>1, SeqMonotonic
<1>4. t \in Seq(T) /\ Len(t) = n + 1 /\ t[n + 1] = e /\ \A h \in 1..n : t[h] = r[h]
  BY <1>2, <1>3, AppendProperties
<1>5. \A h \in 1..(n + 1) : h \in 1..n \/ h = n + 1
  OBVIOUS
<1>6. \A h \in 1..(n + 1) : t[h] = e
  BY <1>4, <1>5 DEF e
<1>7. QED BY <1>4, <1>6 DEF T, e

LEMMA LastInterval == Inv /\ EndInterval /\ ~(currH < Len(headers)) => Inv'
<1> SUFFICES ASSUME Inv, EndInterval, ~(currH < Len(headers)) PROVE Inv'
  OBVIOUS
<1>1. /\ pc = "enter" /\ i > count(gr) /\ pc' = "link" /\ i' = 1
      /\ reduced' = Append(reduced, <<>>) /\ added' = FALSE /\ pOk' = FALSE
      /\ UNCHANGED <<input, optionRec, gr, explored, headers, currH, intervals, memb, kid,
                     dest, lastN>>
  BY DEF EndInterval, reading
<1>2. Inside /\ Inside'
  BY <1>1 DEF Inside
<1>3. Computed /\ Scans /\ IsRooted(gr) /\ Shape
  BY <1>2, InsideFacts
<1>4. /\ count(gr) \in Nat /\ count(gr) >= 1 /\ currH \in Nat /\ currH \in Heads
      /\ NodesOf(gr) = Nodes
  BY <1>3, GrFacts, ShapeFacts
<1>5. /\ Nodes' = Nodes /\ Heads' = Heads /\ \A h : Members(h)' = Members(h)
      /\ \A n, h : MayJoin(n, h)' <=> MayJoin(n, h)
      /\ Shape' /\ Marked' /\ HeadersOwn' /\ Fatherless' /\ FathersFirst' /\ OneIntervalEach'
  BY <1>1, <1>2, <1>3, SameTables DEF Computed
<1>6. HeadersEntered' /\ Inherited'
  BY <1>1, <1>3, <1>5 DEF Computed, HeadersEntered, Inherited
<1>7. Maximal'
  <2>1. \A n \in Nodes, h \in Heads : Scanned(n, h)
    BY <1>1 DEF Scanned
  <2>2. QED BY <1>3, <1>5, <2>1 DEF Computed, Maximal
<1>8. Covered'
  BY <1>1, <1>3, <1>5, AllLeft DEF Computed, Covered
<1>9. currH = Len(headers)
  <2>1. currH \in 1..Len(headers) /\ Len(headers) \in Nat
    BY <1>3, ShapeFacts DEF Shape
  <2>2. QED BY <2>1
<1>10. /\ reduced' \in Seq(Seq(Heads)) /\ Len(reduced') = currH
       /\ \A h \in Heads : reduced'[h] = <<>>
  <2> DEFINE n == currH - 1
  <2>1. n \in Nat /\ n + 1 = currH
    BY <1>4 DEF Heads
  <2>2. reduced \in Seq(Seq(Heads)) /\ Len(reduced) = n /\ \A h \in 1..n : reduced[h] = <<>>
    BY <1>1, <1>3 DEF Scans
  <2> HIDE DEF n
  <2>3. /\ Append(reduced, <<>>) \in Seq(Seq(Heads)) /\ Len(Append(reduced, <<>>)) = n + 1
        /\ \A h \in 1..(n + 1) : Append(reduced, <<>>)[h] = <<>>
    BY <2>1, <2>2, NodeAdded
  <2>4. QED BY <1>1, <2>1, <2>3 DEF Heads
<1>11. memb' = 1 /\ kid' = 1 /\ dest' = 1
  BY <1>1, <1>3 DEF Scans
<1>12. Looping'
  <2>1. /\ 1 \in Heads /\ \A h \in Heads : Len(intervals[h]) \in Nat
        /\ \A h \in Heads : \A m \in 1..Len(intervals[h]) : intervals[h][m] \in Nodes
    <3>1. 1 \in Heads
      BY <1>4 DEF Heads
    <3>2. QED BY <1>3, <3>1, ShapeFacts
  <2>2. i' \in 1..(currH' + 1)
    BY <1>1, <1>4
  <2>3. memb' \in 1..(IF AtInterval' THEN Len(intervals'[i']) + 1 ELSE 1)
    <3>1. Len(intervals'[i']) \in Nat
      BY <1>1, <2>1
    <3>2. QED BY <1>11, <3>1
  <2>4. kid' \in 1..(IF AtMember' THEN children_nb(gr', member') + 1 ELSE 1)
    <3>1. AtMember' => children_nb(gr', member') \in Nat
      <4>1. SUFFICES ASSUME AtMember' PROVE children_nb(gr', member') \in Nat
        OBVIOUS
      <4>2. 1 <= Len(intervals[1])
        BY <1>1, <1>11, <4>1 DEF AtMember
      <4>3. 1 \in 1..Len(intervals[1])
        BY <2>1, <4>2
      <4>4. member' \in Nodes
        BY <1>1, <1>11, <2>1, <4>3 DEF member
      <4>5. QED BY <1>1, <1>3, <1>4, <4>4, GraphFacts
    <3>2. QED BY <1>11, <3>1
  <2>5. dest' \in 1..(IF AtChild' THEN currH' + 1 ELSE 1)
    BY <1>1, <1>4, <1>11
  <2>6. QED BY <1>1, <1>5, <1>9, <1>10, <2>2, <2>3, <2>4, <2>5 DEF Looping
<1>13. Links'
  <2>1. ASSUME NEW h \in Heads, NEW k \in Heads PROVE ~Met(h, k)'
    <3>1. \A m \in Nat \ {0}, c \in Nat \ {0} : ~Passed(h, m, c, k)'
      <4>1. h \in Nat /\ h >= 1 /\ k \in Nat /\ k >= 1
        BY DEF Heads
      <4>2. QED BY <1>1, <1>11, <4>1 DEF Passed
    <3>2. \A m \in 1..Len(intervals'[h]) : m \in Nat \ {0}
      OBVIOUS
    <3>3. \A m : \A c \in 1..children_nb(gr', intervals'[h][m]) : c \in Nat \ {0}
      OBVIOUS
    <3>4. QED BY <3>1, <3>2, <3>3 DEF Met
  <2>2. \A h \in Heads : IsInjective(reduced'[h]) /\ Range(reduced'[h]) = {}
    BY <1>10, RangeEmpty
  <2>3. QED BY <1>5, <2>1, <2>2 DEF Links
<1>14. Scans'
  BY <1>1 DEF Scans
<1>15. count(gr)' <= count(input)' /\ Tables'
  <2>1. Sized'
    <3>1. IsRooted(input) /\ count(gr) <= count(input)
      BY IntervalsAssumption DEF Inv, TypeOK
    <3>2. QED BY <1>1, <1>3, <3>1 DEF Sized, count
  <2>2. Tables'
    BY <1>5, <2>1, TablesType, PTL
  <2>3. QED BY <2>1, <2>2 DEF Sized
<1>16. Others'
  <2>1. Others
    BY TypeSplit DEF Inv
  <2>2. reduced' \in Seq(Seq(1..Len(intervals'))) /\ Len(intervals') = Len(intervals)
    BY <1>1, <1>3, <1>10 DEF Shape, Heads
  <2>3. i' \in 1..(count(gr)' + 1)
    BY <1>1, <1>4 DEF count
  <2>4. QED BY <1>1, <2>1, <2>2, <2>3 DEF Others, count
<1>17. QED BY <1>2, <1>5, <1>6, <1>7, <1>8, <1>12, <1>13, <1>14, <1>15, <1>16, TypeSplitNext
           DEF Inv, Computed
LEMMA NextHeader == Inv /\ EndInterval /\ currH < Len(headers) => Inv'
<1> SUFFICES ASSUME Inv, EndInterval, currH < Len(headers) PROVE Inv'
  OBVIOUS
<1> DEFINE new == currH + 1
           s == <<headers[new]>>
<1>1. /\ pc = "enter" /\ i > count(gr) /\ pc' = "scan" /\ i' = 1 /\ currH' = new
      /\ intervals' = Append(intervals, s)
      /\ reduced' = Append(reduced, <<>>) /\ added' = FALSE /\ pOk' = FALSE
      /\ UNCHANGED <<input, optionRec, gr, explored, headers, memb, kid, dest, lastN>>
  BY DEF EndInterval, reading
<1>2. Inside /\ Inside'
  BY <1>1 DEF Inside
<1>3. Computed /\ Scans /\ IsRooted(gr) /\ Shape
  BY <1>2, InsideFacts
<1>4. /\ count(gr) \in Nat /\ count(gr) >= 1 /\ currH \in Nat /\ currH \in Heads
      /\ Len(headers) \in Nat /\ DOMAIN intervals = Heads
      /\ \A k \in 1..Len(headers) : headers[k] \in Nodes
      /\ \A h \in Heads : h \in 1..Len(headers) /\ Len(intervals[h]) \in Nat
  BY <1>3, GrFacts, ShapeFacts
<1>5. /\ new \in 1..Len(headers) /\ new \in Nat /\ new \notin Heads
      /\ Heads' = Heads \cup {new} /\ 1..new = Heads \cup {new}
  <2>1. new \in 1..Len(headers) /\ new \in Nat /\ 1..new = (1..currH) \cup {new}
        /\ new \notin 1..currH
    BY <1>4
  <2>2. QED BY <1>1, <2>1 DEF Heads
<1>6. s \in Seq(Nodes) /\ Len(s) = 1 /\ s[1] = headers[new] /\ DOMAIN s = {1}
  BY <1>4, <1>5
<1>7. /\ intervals' \in Seq(Seq(Nodes)) /\ Len(intervals') = new
      /\ intervals'[new] = s /\ \A h \in Heads : intervals'[h] = intervals[h]
  <2> DEFINE T == Seq(Nodes)
  <2>1. s \in T /\ intervals \in Seq(T) /\ Len(intervals) = currH
    BY <1>3, <1>6 DEF Shape
  <2> HIDE DEF T, s
  <2>2. /\ Append(intervals, s) \in Seq(T) /\ Len(Append(intervals, s)) = currH + 1
        /\ Append(intervals, s)[currH + 1] = s
        /\ \A h \in 1..currH : Append(intervals, s)[h] = intervals[h]
    BY <2>1, AppendProperties
  <2>3. QED BY <1>1, <2>2 DEF T, Heads
<1> HIDE DEF s
<1>8. DOMAIN intervals' = Heads \cup {new}
  BY <1>5, <1>7, LenProperties
<1>9. /\ Nodes' = Nodes /\ \A n : Before(n)' = Before(n)
      /\ \A h \in Heads : Members(h)' = Members(h)
  BY <1>1, <1>7 DEF Nodes, Members, Before, NodeBefore, count
<1>10. \A x : x \in Range(intervals'[new]) <=> x = headers[new]
  BY <1>6, <1>7 DEF Range
<1>11. \A h \in Heads : headers[new] \notin Members(h)
  BY <1>3, <1>5 DEF Computed, HeadersOwn
<1>12. Shape'
  <2>1. \A h \in Heads : /\ Len(intervals'[h]) >= 1 /\ intervals'[h][1] = headers[h]
                         /\ IsInjective(intervals'[h])
    BY <1>3, <1>7 DEF Shape
  <2>2. /\ Len(intervals'[new]) >= 1 /\ intervals'[new][1] = headers[new]
        /\ IsInjective(intervals'[new])
    BY <1>6, <1>7 DEF IsInjective
  <2>3. /\ headers \in Seq(Nodes) /\ IsInjective(headers) /\ headers[1] = gr.root
        /\ explored \in [Nodes -> {0, 2}]
    BY <1>3 DEF Shape
  <2>4. QED BY <1>1, <1>5, <1>7, <1>9, <2>1, <2>2, <2>3 DEF Shape
<1>13. ASSUME NEW h \in Heads', NEW m \in 2..Len(intervals'[h])
       PROVE  h \in Heads /\ m \in 2..Len(intervals[h]) /\ intervals'[h][m] = intervals[h][m]
  <2>1. h # new
    <3>1. h = new => m \in 2..1
      BY <1>6, <1>7
    <3>2. QED BY <3>1
  <2>2. h \in Heads
    BY <1>5, <2>1
  <2>3. QED BY <1>7, <2>2
<1>14. Marked'
  <2>1. \A h \in Heads' : \A m \in 2..Len(intervals'[h]) :
           explored[intervals'[h][m]] = 2 /\ intervals'[h][m] # gr.root
    BY <1>3, <1>13 DEF Computed, Marked
  <2>2. \A n \in Nodes : explored[n] = 2 => \E h \in Heads' : n \in Members(h)'
    BY <1>3, <1>5, <1>9 DEF Computed, Marked
  <2>3. QED BY <1>1, <1>9, <2>1, <2>2 DEF Marked
<1>15. FathersFirst'
  <2>1. ASSUME NEW h \in Heads', NEW m \in 2..Len(intervals'[h])
        PROVE  Fathers(gr, intervals'[h][m]) \subseteq Range(SubSeq(intervals'[h], 1, m - 1))
    <3>1. h \in Heads /\ m \in 2..Len(intervals[h]) /\ intervals'[h] = intervals[h]
      BY <1>7, <1>13
    <3>2. QED BY <1>2, <1>3, <1>4, <3>1 DEF Computed, FathersFirst
  <2>2. DOMAIN intervals' = Heads'
    BY <1>5, <1>8
  <2>3. QED BY <1>1, <2>1, <2>2 DEF FathersFirst
<1>16. OneIntervalEach'
  <2>1. ASSUME NEW h \in Heads', NEW k \in Heads', NEW x,
               x \in Range(intervals'[h]), x \in Range(intervals'[k])
        PROVE  h = k
    <3>1. \A g \in Heads' : x \in Range(intervals'[g]) =>
             \/ g = new /\ x = headers[new]
             \/ g \in Heads /\ x \in Members(g)
      BY <1>5, <1>7, <1>10 DEF Members
    <3>2. CASE x = headers[new]
      BY <1>11, <2>1, <3>1, <3>2
    <3>3. CASE x # headers[new]
      BY <1>2, <1>3, <2>1, <3>1, <3>3, Apart DEF Computed
    <3>4. QED BY <3>2, <3>3
  <2>2. QED BY <1>5, <1>8, <2>1 DEF OneIntervalEach
<1>17. HeadersEntered'
  <2>1. ASSUME NEW k \in 2..Len(headers)
        PROVE  \E j \in Heads' : /\ j < k /\ j < currH'
                                 /\ \E f \in Fathers(gr, headers[k]) : f \in Members(j)'
    <3>1. PICK j \in Heads : j < k /\ \E f \in Fathers(gr, headers[k]) : f \in Members(j)
      BY <1>3 DEF Computed, HeadersEntered
    <3>2. j < currH'
      <4>1. j \in 1..currH /\ currH \in Nat /\ currH' = currH + 1
        BY <1>1, <1>4, <3>1 DEF Heads
      <4>2. QED BY <4>1
    <3>3. QED BY <1>5, <1>9, <3>1, <3>2
  <2>2. QED BY <1>1, <2>1 DEF HeadersEntered
<1>18. HeadersOwn'
  <2>1. ASSUME NEW k \in 1..Len(headers), NEW h \in Heads', headers[k] \in Members(h)'
        PROVE  k = h
    <3>1. CASE h \in Heads
      BY <1>3, <1>9, <2>1, <3>1 DEF Computed, HeadersOwn
    <3>2. CASE h = new
      <4>1. headers[k] = headers[new]
        BY <1>10, <2>1, <3>2 DEF Members
      <4>2. IsInjective(headers) /\ DOMAIN headers = 1..Len(headers)
        BY <1>3, ShapeFacts DEF Shape
      <4>3. QED BY <1>5, <3>2, <4>1, <4>2 DEF IsInjective
    <3>3. QED BY <1>5, <3>1, <3>2
  <2>2. QED BY <1>1, <2>1 DEF HeadersOwn
<1>19. Fatherless'
  <2>1. ASSUME NEW h \in Heads', NEW m \in 2..Len(intervals'[h]),
               Fathers(gr, intervals'[h][m]) = {}
        PROVE  Before(intervals'[h][m]) \in Members(h)'
    <3>1. h \in Heads /\ m \in 2..Len(intervals[h]) /\ intervals'[h][m] = intervals[h][m]
      BY <1>13
    <3>2. QED BY <1>3, <1>9, <2>1, <3>1 DEF Computed, Fatherless
  <2>2. QED BY <1>1, <1>9, <2>1 DEF Fatherless
<1>20. Inherited'
  BY <1>1 DEF Inherited
<1>21. Maximal'
  <2>1. ASSUME NEW h \in Heads', NEW n \in Nodes, Scanned(n, h)', MayJoin(n, h)'
        PROVE  n \in Members(h)'
    <3>1. h # new
      <4>1. ~(n < 1)
        BY DEF Nodes
      <4>2. QED BY <1>1, <2>1, <4>1 DEF Scanned
    <3>2. h \in Heads
      BY <1>5, <3>1
    <3>3. Scanned(n, h) /\ MayJoin(n, h)
      BY <1>1, <1>9, <2>1, <3>2 DEF Scanned, MayJoin
    <3>4. QED BY <1>3, <1>9, <3>2, <3>3 DEF Computed, Maximal
  <2>2. QED BY <1>9, <2>1 DEF Maximal
<1>22. Covered'
  <2>1. ASSUME NEW h \in Heads', NEW n \in Nodes, NEW f \in Fathers(gr, n),
               Left(n, h)', f \in Members(h)'
        PROVE  explored[n] = 2 \/ n \in Range(headers)
    <3>1. h # new
      BY <1>1, <2>1 DEF Left
    <3>2. h \in Heads
      BY <1>5, <3>1
    <3>3. Left(n, h)
      BY <1>1, <3>2, AllLeft
    <3>4. QED BY <1>3, <1>9, <2>1, <3>2, <3>3 DEF Computed, Covered
  <2>2. QED BY <1>1, <1>9, <2>1 DEF Covered
<1>23. Scans'
  <2>1. i' \in 1..(count(gr)' + 1)
    BY <1>1, <1>4 DEF count
  <2>2. /\ reduced' \in Seq(Seq(Heads')) /\ Len(reduced') = currH
        /\ \A h \in 1..currH : reduced'[h] = <<>>
    <3> DEFINE n == currH - 1
    <3>1. n \in Nat /\ n + 1 = currH
      BY <1>4 DEF Heads
    <3>2. reduced \in Seq(Seq(Heads)) /\ Len(reduced) = n /\ \A h \in 1..n : reduced[h] = <<>>
      BY <1>1, <1>3 DEF Scans
    <3>3. Heads \subseteq Heads'
      BY <1>5
    <3> HIDE DEF n
    <3> DEFINE B == Heads'
    <3> HIDE DEF B
    <3>4. /\ Append(reduced, <<>>) \in Seq(Seq(B)) /\ Len(Append(reduced, <<>>)) = n + 1
          /\ \A h \in 1..(n + 1) : Append(reduced, <<>>)[h] = <<>>
      <4>1. Heads \subseteq B
        BY <3>3 DEF B
      <4>2. QED BY <3>1, <3>2, <4>1, NodeAdded
    <3>5. QED BY <1>1, <3>1, <3>4 DEF B
  <2>3. currH' - 1 = currH
    BY <1>1, <1>4
  <2>4. memb' = 1 /\ kid' = 1 /\ dest' = 1
    BY <1>1, <1>3 DEF Scans
  <2>5. QED BY <2>1, <2>2, <2>3, <2>4 DEF Scans
<1>24. Looping' /\ Links'
  BY <1>1 DEF Looping, Links
<1>25. count(gr)' <= count(input)' /\ Tables'
  <2>1. Sized'
    <3>1. IsRooted(input) /\ count(gr) <= count(input)
      BY IntervalsAssumption DEF Inv, TypeOK
    <3>2. QED BY <1>1, <1>3, <3>1 DEF Sized, count
  <2>2. Tables'
    BY <1>12, <2>1, TablesType, PTL
  <2>3. QED BY <2>1, <2>2 DEF Sized
<1>26. Others'
  <2>1. Others
    BY TypeSplit DEF Inv
  <2>2. reduced' \in Seq(Seq(1..Len(intervals')))
    <3>1. 1..Len(intervals') = Heads'
      BY <1>5, <1>7
    <3>2. QED BY <1>1, <1>23, <3>1 DEF Scans
  <2>3. i' \in 1..(count(gr)' + 1)
    BY <1>1, <1>4 DEF count
  <2>4. dest' \in 1..(Len(intervals') + 1)
    <3>1. dest' = 1
      BY <1>1, <1>3 DEF Scans
    <3>2. QED BY <1>5, <1>7, <3>1
  <2>5. QED BY <1>1, <2>1, <2>2, <2>3, <2>4 DEF Others, count
<1>27. QED BY <1>2, <1>12, <1>14, <1>15, <1>16, <1>17, <1>18, <1>19, <1>20, <1>21, <1>22,
              <1>23, <1>24, <1>25, <1>26, TypeSplitNext DEF Inv, Computed
-----------------------------------------------------------------------------
(***************************************************************************)
(* The links.                                                              *)
(***************************************************************************)
LEMMA LinkFacts ==
    ASSUME Inv, pc = "link"
    PROVE  /\ Inside /\ IsRooted(gr) /\ Shape /\ Computed /\ Links
           /\ currH = Len(headers) /\ currH \in Nat /\ currH >= 1 /\ Len(intervals) = currH
           /\ i \in 1..(currH + 1) /\ (AtInterval <=> i <= currH)
           /\ reduced \in Seq(Seq(Heads)) /\ Len(reduced) = currH
           /\ AtInterval => /\ i \in Heads /\ Len(intervals[i]) \in Nat
                            /\ memb \in 1..(Len(intervals[i]) + 1)
                            /\ reduced[i] \in Seq(Heads)
           /\ AtMember => /\ AtInterval /\ memb \in 1..Len(intervals[i]) /\ member \in Nodes
                          /\ children_nb(gr, member) \in Nat
                          /\ kid \in 1..(children_nb(gr, member) + 1)
           /\ AtChild => /\ AtMember /\ kid \in 1..children_nb(gr, member)
                         /\ dest \in 1..(currH + 1)
           /\ ~AtInterval => memb = 1
           /\ ~AtMember => kid = 1
           /\ ~AtChild => dest = 1
<1>1. Inside
  BY DEF Inside
<1>2. /\ IsRooted(gr) /\ Shape /\ Computed /\ Links /\ Looping
  BY <1>1, InsideFacts
<1>3. /\ currH = Len(headers) /\ i \in 1..(currH + 1)
      /\ reduced \in Seq(Seq(Heads)) /\ Len(reduced) = currH
      /\ memb \in 1..(IF AtInterval THEN Len(intervals[i]) + 1 ELSE 1)
      /\ kid \in 1..(IF AtMember THEN children_nb(gr, member) + 1 ELSE 1)
      /\ dest \in 1..(IF AtChild THEN currH + 1 ELSE 1)
  BY <1>2 DEF Looping
<1>4. /\ currH \in Nat /\ currH \in Heads /\ NodesOf(gr) = Nodes
      /\ \A h \in Heads : Len(intervals[h]) \in Nat /\
            \A m \in 1..Len(intervals[h]) : intervals[h][m] \in Nodes
  BY <1>2, ShapeFacts, GrFacts
<1>5. Len(intervals) = currH /\ currH >= 1
  <2>1. Len(intervals) = currH
    BY <1>2 DEF Shape
  <2>2. QED BY <1>4, <2>1 DEF Heads
<1>6. AtInterval <=> i <= currH
  BY <1>5 DEF AtInterval
<1>7. AtInterval => /\ i \in Heads /\ Len(intervals[i]) \in Nat
                    /\ memb \in 1..(Len(intervals[i]) + 1) /\ reduced[i] \in Seq(Heads)
  <2>1. AtInterval => i \in Heads /\ i \in 1..Len(reduced)
    BY <1>3, <1>6 DEF Heads
  <2>2. AtInterval => reduced[i] \in Seq(Heads)
    BY <1>3, <2>1, ElementOfSeq
  <2>3. QED BY <1>3, <1>4, <2>1, <2>2
<1>8. AtMember => /\ AtInterval /\ memb \in 1..Len(intervals[i]) /\ member \in Nodes
                  /\ children_nb(gr, member) \in Nat
                  /\ kid \in 1..(children_nb(gr, member) + 1)
  <2>1. AtMember => AtInterval /\ memb <= Len(intervals[i])
    BY DEF AtMember
  <2>2. AtMember => memb \in 1..Len(intervals[i])
    BY <1>7, <2>1
  <2>3. AtMember => member \in Nodes
    BY <1>4, <1>7, <2>1, <2>2 DEF member
  <2>4. AtMember => children_nb(gr, member) \in Nat
    BY <1>2, <1>4, <2>3, GraphFacts
  <2>5. QED BY <1>3, <2>1, <2>2, <2>3, <2>4
<1>9. AtChild => /\ AtMember /\ kid \in 1..children_nb(gr, member)
                 /\ dest \in 1..(currH + 1)
  <2>1. AtChild => AtMember /\ kid <= children_nb(gr, member)
    BY DEF AtChild
  <2>2. AtChild => kid \in 1..children_nb(gr, member)
    BY <1>8, <2>1
  <2>3. QED BY <1>3, <2>1, <2>2
<1>10. ~AtInterval => memb = 1
  <2>1. \A x \in 1..1 : x = 1
    OBVIOUS
  <2>2. QED BY <1>3, <2>1
<1>11. ~AtMember => kid = 1
  <2>1. \A x \in 1..1 : x = 1
    OBVIOUS
  <2>2. QED BY <1>3, <2>1
<1>12. ~AtChild => dest = 1
  <2>1. \A x \in 1..1 : x = 1
    OBVIOUS
  <2>2. QED BY <1>3, <2>1
<1>13. QED BY <1>1, <1>2, <1>3, <1>4, <1>5, <1>6, <1>7, <1>8, <1>9, <1>10, <1>11, <1>12

\* A step of the loops that goes on.
LoopStep == /\ pc = "link" /\ pc' = "link"
            /\ UNCHANGED <<input, optionRec, gr, explored, headers, currH, intervals, added,
                           pOk, lastN>>

LEMMA LoopKeeps ==
    ASSUME Inv, LoopStep
    PROVE  /\ Inside' /\ Computed' /\ Scans' /\ Tables' /\ count(gr)' <= count(input)'
           /\ Heads' = Heads /\ \A h : Members(h)' = Members(h)
<1>1. /\ pc = "link" /\ pc' = "link"
      /\ UNCHANGED <<input, optionRec, gr, explored, headers, currH, intervals, added, pOk,
                     lastN>>
  BY DEF LoopStep
<1>2. Inside /\ Inside'
  BY <1>1 DEF Inside
<1>3. Computed
  BY <1>2, InsideFacts
<1>4. /\ Nodes' = Nodes /\ Heads' = Heads /\ \A h : Members(h)' = Members(h)
      /\ \A n, h : MayJoin(n, h)' <=> MayJoin(n, h)
      /\ Shape' /\ Marked' /\ HeadersOwn' /\ Fatherless' /\ FathersFirst' /\ OneIntervalEach'
  BY <1>1, <1>2, <1>3, SameTables DEF Computed
<1>5. HeadersEntered' /\ Inherited'
  BY <1>1, <1>3, <1>4 DEF Computed, HeadersEntered, Inherited
<1>6. Maximal'
  <2>1. \A n \in Nodes, h \in Heads : Scanned(n, h)
    BY <1>1 DEF Scanned
  <2>2. QED BY <1>3, <1>4, <2>1 DEF Computed, Maximal
<1>7. Covered'
  <2>1. \A n \in Nodes, h \in Heads : Left(n, h)
    BY <1>1 DEF Left
  <2>2. QED BY <1>1, <1>3, <1>4, <2>1 DEF Computed, Covered
<1>8. Scans'
  BY <1>1 DEF Scans
<1>9. count(gr)' <= count(input)' /\ Tables'
  <2>1. Inv => count(gr) <= count(input) /\ Tables
    BY TypeSplit DEF Inv
  <2>2. QED BY <1>1, <2>1 DEF Tables, count
<1>10. QED BY <1>2, <1>4, <1>5, <1>6, <1>7, <1>8, <1>9 DEF Computed

\* Nothing has passed but what had.
SamePassed ==
    \A h, k \in Heads : \A m \in 1..Len(intervals[h]) :
        \A c \in 1..children_nb(gr, intervals[h][m]) :
            Passed(h, m, c, k)' <=> Passed(h, m, c, k)

LEMMA LinksStay ==
    ASSUME Inv, LoopStep, SamePassed, UNCHANGED reduced
    PROVE  Links'
<1>1. UNCHANGED <<gr, intervals, currH>> /\ pc = "link"
  BY DEF LoopStep
<1>2. Links
  BY <1>1, LinkFacts
<1>3. Heads' = Heads /\ \A h : Members(h)' = Members(h)
  BY LoopKeeps
<1>4. \A h, k \in Heads : Met(h, k)' <=> Met(h, k)
  BY <1>1, <1>3 DEF Met, Meets, SamePassed
<1>5. QED BY <1>1, <1>2, <1>3, <1>4 DEF Links

LEMMA LoopInv ==
    ASSUME Inv, LoopStep, Links', Looping', memb' \in Nat, kid' \in Nat
    PROVE  Inv'
<1>1. /\ Inside' /\ Computed' /\ Scans' /\ Tables' /\ count(gr)' <= count(input)'
      /\ Heads' = Heads
  BY LoopKeeps
<1>2. /\ UNCHANGED <<input, optionRec, gr, intervals, currH, added, pOk, lastN>>
      /\ pc = "link" /\ pc' = "link"
  BY DEF LoopStep
<1>3. /\ currH \in Nat /\ Len(intervals) = currH /\ count(gr) \in Nat /\ currH <= count(gr)
      /\ Len(headers) = currH
  BY <1>2, LinkFacts, ShapeFacts, GrFacts
<1>4. Others
  BY TypeSplit DEF Inv
<1>5. /\ i' \in 1..(currH + 1) /\ reduced' \in Seq(Seq(Heads))
      /\ dest' \in 1..(IF AtChild' THEN currH + 1 ELSE 1)
  BY <1>1, <1>2 DEF Looping
<1>6. i' \in 1..(count(gr) + 1)
  BY <1>3, <1>5
<1>7. dest' \in 1..(currH + 1)
  BY <1>3, <1>5
<1>8. Heads = 1..Len(intervals)
  BY <1>3 DEF Heads
<1>9. Others'
  BY <1>2, <1>3, <1>4, <1>5, <1>6, <1>7, <1>8 DEF Others, count
<1>10. QED BY <1>1, <1>9, TypeSplitNext DEF Inv
\* The pass of the innermost loop that compares one interval.
LEMMA LinkPassed ==
    ASSUME Inv, Link, NEW h \in Heads, NEW k \in Heads, NEW m \in Nat, NEW c \in Nat
    PROVE  Passed(h, m, c, k)' <=>
               Passed(h, m, c, k) \/ (h = i /\ m = memb /\ c = kid /\ k = dest)
<1>1. pc = "link" /\ AtChild /\ dest' = dest + 1 /\ UNCHANGED <<i, memb, kid>>
  BY DEF Link, AtChild, AtMember, AtInterval
<1>2. i \in Nat /\ memb \in Nat /\ kid \in Nat /\ dest \in Nat /\ h \in Nat /\ k \in Nat
  BY <1>1, LinkFacts, SMTT(30) DEF Heads
<1>3. k < dest' <=> k < dest \/ k = dest
  BY <1>1, <1>2
<1>4. QED BY <1>1, <1>3 DEF Passed

LEMMA LinkStep == Inv /\ Link => Inv'
<1> SUFFICES ASSUME Inv, Link PROVE Inv'
  OBVIOUS
<1>1. /\ AtChild /\ pc = "link" /\ dest <= Len(intervals) /\ dest' = dest + 1
      /\ reduced' = IF In(child, intervals[dest]) /\ NewLink
                    THEN [reduced EXCEPT ![i] = Append(@, dest)] ELSE reduced
      /\ UNCHANGED <<input, optionRec, gr, pc, explored, headers, currH, intervals, added,
                     pOk, lastN, i, memb, kid>>
  BY DEF Link, AtChild, AtMember, AtInterval, reading, scanning
<1>2. LoopStep
  BY <1>1 DEF LoopStep
<1>3. /\ Heads' = Heads /\ \A h : Members(h)' = Members(h)
      /\ AtInterval' = AtInterval /\ AtMember' = AtMember /\ AtChild' = AtChild
      /\ member' = member
  BY <1>1 DEF Heads, Members, AtInterval, AtMember, AtChild, member
<1>4. /\ IsRooted(gr) /\ Shape /\ Links /\ currH = Len(headers) /\ currH \in Nat
      /\ Len(intervals) = currH
      /\ i \in 1..(currH + 1) /\ reduced \in Seq(Seq(Heads)) /\ Len(reduced) = currH
      /\ i \in Heads /\ reduced[i] \in Seq(Heads)
      /\ memb \in 1..Len(intervals[i]) /\ member \in Nodes /\ Len(intervals[i]) \in Nat
      /\ memb \in 1..(Len(intervals[i]) + 1)
      /\ kid \in 1..(children_nb(gr, member) + 1)
      /\ kid \in 1..children_nb(gr, member) /\ dest \in 1..(currH + 1)
      /\ AtInterval /\ AtMember
  BY <1>1, LinkFacts
<1>5. dest \in Heads /\ dest' \in 1..(currH + 1)
  BY <1>1, <1>4 DEF Heads
<1> DEFINE t == Append(reduced[i], dest)
           taken == In(child, intervals[dest]) /\ NewLink
<1>6. taken <=> Meets(i, memb, kid, dest) /\ dest \notin Range(reduced[i]) /\ dest # i
  BY DEF In, child, member, NewLink, Meets, Members
<1>7. /\ t \in Seq(Heads) /\ Range(t) = Range(reduced[i]) \cup {dest}
      /\ IsInjective(reduced[i]) /\ dest \notin Range(reduced[i]) => IsInjective(t)
  BY <1>4, <1>5, AppendProperties, RangeAppend
<1> HIDE DEF t, taken
<1>8. reduced' = IF taken THEN [reduced EXCEPT ![i] = t] ELSE reduced
  BY <1>1 DEF t, taken
<1>9. /\ reduced' \in Seq(Seq(Heads)) /\ Len(reduced') = currH
      /\ \A h \in Heads : h # i => reduced'[h] = reduced[h]
      /\ reduced'[i] = IF taken THEN t ELSE reduced[i]
  <2> DEFINE S == Seq(Heads)
  <2>1. t \in S /\ reduced \in Seq(S) /\ i \in 1..Len(reduced) /\ Heads = 1..Len(reduced)
    BY <1>4, <1>7 DEF Heads
  <2> HIDE DEF S
  <2>2. /\ [reduced EXCEPT ![i] = t] \in Seq(S) /\ Len([reduced EXCEPT ![i] = t]) = Len(reduced)
        /\ \A h \in 1..Len(reduced) : [reduced EXCEPT ![i] = t][h] = IF h = i THEN t ELSE reduced[h]
    BY <2>1, ExceptSeq
  <2>3. CASE taken
    BY <1>4, <1>8, <2>1, <2>2, <2>3 DEF S
  <2>4. CASE ~taken
    BY <1>4, <1>8, <2>4
  <2>5. QED BY <2>3, <2>4
<1>10. Looping'
  BY <1>1, <1>3, <1>4, <1>5, <1>9 DEF Looping
<1>11. Links'
  <2>1. ASSUME NEW h \in Heads, NEW k \in Heads
        PROVE  Met(h, k)' <=> Met(h, k) \/ (h = i /\ k = dest /\ Meets(i, memb, kid, dest))
    <3>1. \A m, c : Meets(h, m, c, k)' <=> Meets(h, m, c, k)
      BY <1>1, <1>3 DEF Meets
    <3>2. \A m \in 1..Len(intervals[h]) : \A c \in 1..children_nb(gr, intervals[h][m]) :
             Passed(h, m, c, k)' <=>
                 Passed(h, m, c, k) \/ (h = i /\ m = memb /\ c = kid /\ k = dest)
      BY LinkPassed
    <3>3. Met(h, k)' => Met(h, k) \/ (h = i /\ k = dest /\ Meets(i, memb, kid, dest))
      BY <1>1, <3>1, <3>2 DEF Met
    <3>4. Met(h, k) => Met(h, k)'
      BY <1>1, <3>1, <3>2 DEF Met
    <3>5. ASSUME h = i, k = dest, Meets(i, memb, kid, dest) PROVE Met(h, k)'
      <4>1. memb \in 1..Len(intervals[h]) /\ kid \in 1..children_nb(gr, intervals[h][memb])
        BY <1>4, <3>5 DEF member
      <4>2. PICK m \in 1..Len(intervals[h]) : m = memb
        BY <4>1
      <4>3. PICK c \in 1..children_nb(gr, intervals[h][m]) : c = kid
        BY <4>1, <4>2
      <4>4. Passed(h, m, c, k)' /\ Meets(h, m, c, k)'
        BY <3>1, <3>2, <3>5, <4>2, <4>3
      <4>5. QED BY <1>1, <4>2, <4>3, <4>4 DEF Met
    <3>6. QED BY <3>3, <3>4, <3>5
  <2>2. \A h, k \in Heads : /\ IsInjective(reduced[h])
                            /\ k \in Range(reduced[h]) <=> k # h /\ Met(h, k)
    BY <1>1, <1>4 DEF Links
  <2>3. ASSUME NEW h \in Heads, NEW k \in Heads
        PROVE  /\ IsInjective(reduced'[h])
               /\ k \in Range(reduced'[h]) <=> k # h /\ Met(h, k)'
    <3>1. CASE h # i
      BY <1>9, <2>1, <2>2, <3>1
    <3>2. CASE h = i /\ taken
      BY <1>6, <1>7, <1>9, <2>1, <2>2, <3>2
    <3>3. CASE h = i /\ ~taken
      BY <1>6, <1>9, <2>1, <2>2, <3>3
    <3>4. QED BY <3>1, <3>2, <3>3
  <2>4. QED BY <1>1, <1>3, <2>3 DEF Links
<1>12. memb' \in Nat /\ kid' \in Nat
  BY <1>1, <1>4
<1>13. QED BY <1>2, <1>10, <1>11, <1>12, LoopInv

\* The passes of the three loops around it.
LEMMA NextChildStep == Inv /\ NextChild => Inv'
<1> SUFFICES ASSUME Inv, NextChild PROVE Inv'
  OBVIOUS
<1>1. /\ AtChild /\ pc = "link" /\ dest > Len(intervals) /\ kid' = kid + 1 /\ dest' = 1
      /\ UNCHANGED <<input, optionRec, gr, pc, explored, headers, currH, intervals, added,
                     pOk, lastN, i, memb, reduced>>
  BY DEF NextChild, AtChild, AtMember, AtInterval, reading, scanning
<1>2. LoopStep
  BY <1>1 DEF LoopStep
<1>3. /\ Heads' = Heads /\ AtInterval' = AtInterval /\ AtMember' = AtMember /\ member' = member
  BY <1>1 DEF Heads, AtInterval, AtMember, member
<1>4. /\ currH = Len(headers) /\ currH \in Nat /\ Len(intervals) = currH
      /\ i \in 1..(currH + 1) /\ reduced \in Seq(Seq(Heads)) /\ Len(reduced) = currH
      /\ memb \in 1..(Len(intervals[i]) + 1) /\ children_nb(gr, member) \in Nat
      /\ kid \in 1..children_nb(gr, member) /\ dest \in 1..(currH + 1)
      /\ AtInterval /\ AtMember
  BY <1>1, LinkFacts
<1>5. kid' \in 1..(children_nb(gr, member) + 1) /\ kid' \in Nat /\ memb' \in Nat
  BY <1>1, <1>4
<1>6. dest' \in 1..(IF AtChild' THEN currH + 1 ELSE 1)
  BY <1>1, <1>4
<1>7. Looping'
  BY <1>1, <1>3, <1>4, <1>5, <1>6 DEF Looping
<1>8. SamePassed
  <2>1. ASSUME NEW h \in Heads, NEW k \in Heads, NEW m \in Nat, NEW c \in Nat
        PROVE  Passed(h, m, c, k)' <=> Passed(h, m, c, k)
    <3>1. k < dest /\ ~(k < dest')
      BY <1>1, <1>4 DEF Heads
    <3>2. c < kid' <=> c < kid \/ c = kid
      BY <1>1, <1>4
    <3>3. QED BY <1>1, <3>1, <3>2 DEF Passed
  <2>2. QED BY <2>1 DEF SamePassed
<1>9. Links'
  BY <1>1, <1>2, <1>8, LinksStay
<1>10. QED BY <1>2, <1>5, <1>7, <1>9, LoopInv

LEMMA NextMemberStep == Inv /\ NextMember => Inv'
<1> SUFFICES ASSUME Inv, NextMember PROVE Inv'
  OBVIOUS
<1>1. /\ AtMember /\ ~AtChild /\ pc = "link" /\ memb' = memb + 1 /\ kid' = 1
      /\ UNCHANGED <<input, optionRec, gr, pc, explored, headers, currH, intervals, added,
                     pOk, lastN, i, reduced, dest>>
  BY DEF NextMember, AtMember, AtInterval, reading, scanning
<1>2. LoopStep
  BY <1>1 DEF LoopStep
<1>3. Heads' = Heads /\ AtInterval' = AtInterval
  BY <1>1 DEF Heads, AtInterval
<1>4. /\ currH = Len(headers) /\ currH \in Nat /\ Len(intervals) = currH /\ Shape /\ IsRooted(gr)
      /\ i \in 1..(currH + 1) /\ reduced \in Seq(Seq(Heads)) /\ Len(reduced) = currH
      /\ i \in Heads /\ Len(intervals[i]) \in Nat
      /\ memb \in 1..Len(intervals[i]) /\ children_nb(gr, member) \in Nat
      /\ kid \in 1..(children_nb(gr, member) + 1) /\ dest = 1
      /\ AtInterval
  BY <1>1, LinkFacts
<1>5. kid > children_nb(gr, member)
  <2>1. ~(kid <= children_nb(gr, member))
    BY <1>1 DEF AtChild
  <2>2. QED BY <1>4, <2>1
<1>6. memb' \in 1..(Len(intervals[i]) + 1) /\ memb' \in Nat /\ kid' \in Nat
  BY <1>1, <1>4
<1>7. kid' \in 1..(IF AtMember' THEN children_nb(gr', member') + 1 ELSE 1)
  <2>1. ASSUME AtMember' PROVE children_nb(gr', member') \in Nat
    <3>1. memb' <= Len(intervals[i])
      BY <1>1, <2>1 DEF AtMember
    <3>2. memb' \in 1..Len(intervals[i])
      BY <1>4, <1>6, <3>1
    <3>3. member' \in NodesOf(gr)
      <4>1. intervals[i][memb'] \in Nodes
        BY <1>4, <3>2, ShapeFacts
      <4>2. QED BY <1>1, <4>1, GrFacts DEF member
    <3>4. QED BY <1>1, <1>4, <3>3, GraphFacts
  <2>2. QED BY <1>1, <2>1
<1>8. dest' \in 1..(IF AtChild' THEN currH + 1 ELSE 1)
  BY <1>1, <1>4
<1>9. Looping'
  BY <1>1, <1>3, <1>4, <1>6, <1>7, <1>8 DEF Looping
<1>10. SamePassed
  <2>1. ASSUME NEW h \in Heads, NEW k \in Heads, NEW m \in 1..Len(intervals[h]),
               NEW c \in 1..children_nb(gr, intervals[h][m])
        PROVE  Passed(h, m, c, k)' <=> Passed(h, m, c, k)
    <3>1. ~(k < dest) /\ ~(k < dest') /\ ~(c < kid')
      BY <1>1, <1>4 DEF Heads
    <3>2. m < memb' <=> m < memb \/ m = memb
      BY <1>1, <1>4, SMTT(30)
    <3>3. h = i /\ m = memb => c < kid
      <4>1. h = i /\ m = memb => c \in 1..children_nb(gr, member)
        BY DEF member
      <4>2. QED BY <1>4, <1>5, <4>1
    <3>4. QED BY <1>1, <3>1, <3>2, <3>3 DEF Passed
  <2>2. QED BY <2>1 DEF SamePassed
<1>11. Links'
  BY <1>1, <1>2, <1>10, LinksStay
<1>12. QED BY <1>2, <1>6, <1>9, <1>11, LoopInv

LEMMA NextIntervalStep == Inv /\ NextInterval => Inv'
<1> SUFFICES ASSUME Inv, NextInterval PROVE Inv'
  OBVIOUS
<1>1. /\ AtInterval /\ ~AtMember /\ pc = "link" /\ i' = i + 1 /\ memb' = 1
      /\ UNCHANGED <<input, optionRec, gr, pc, explored, headers, currH, intervals, added,
                     pOk, lastN, reduced, kid, dest>>
  BY DEF NextInterval, AtInterval, reading, scanning
<1>2. LoopStep
  BY <1>1 DEF LoopStep
<1>3. Heads' = Heads
  BY <1>1 DEF Heads
<1>4. /\ currH = Len(headers) /\ currH \in Nat /\ Len(intervals) = currH /\ Shape /\ IsRooted(gr)
      /\ i \in 1..(currH + 1) /\ reduced \in Seq(Seq(Heads)) /\ Len(reduced) = currH
      /\ i \in Heads /\ Len(intervals[i]) \in Nat
      /\ memb \in 1..(Len(intervals[i]) + 1) /\ kid = 1
  BY <1>1, LinkFacts
<1>5. dest = 1
  <2>1. ~AtChild
    BY <1>1 DEF AtChild
  <2>2. QED BY <1>1, <2>1, LinkFacts
<1>6. memb > Len(intervals[i])
  <2>1. ~(memb <= Len(intervals[i]))
    BY <1>1 DEF AtMember
  <2>2. QED BY <1>4, <2>1
<1>7. i' \in 1..(currH + 1) /\ memb' \in Nat /\ kid' \in Nat
  BY <1>1, <1>4 DEF Heads
<1>8. AtInterval' => i' \in Heads
  <2>1. AtInterval' => i' <= currH
    BY <1>1, <1>4 DEF AtInterval
  <2>2. QED BY <1>4, <1>7, <2>1 DEF Heads
<1>9. memb' \in 1..(IF AtInterval' THEN Len(intervals'[i']) + 1 ELSE 1)
  <2>1. AtInterval' => Len(intervals[i']) \in Nat
    BY <1>4, <1>8, ShapeFacts
  <2>2. QED BY <1>1, <2>1
<1>10. kid' \in 1..(IF AtMember' THEN children_nb(gr', member') + 1 ELSE 1)
  <2>1. ASSUME AtMember' PROVE children_nb(gr', member') \in Nat
    <3>1. AtInterval' /\ 1 <= Len(intervals[i'])
      BY <1>1, <2>1 DEF AtMember
    <3>2. i' \in Heads /\ 1 \in 1..Len(intervals[i'])
      BY <1>4, <1>8, <3>1, ShapeFacts
    <3>3. member' \in NodesOf(gr)
      <4>1. intervals[i'][1] \in Nodes
        BY <1>4, <3>2, ShapeFacts
      <4>2. QED BY <1>1, <4>1, GrFacts DEF member
    <3>4. QED BY <1>1, <1>4, <3>3, GraphFacts
  <2>2. QED BY <1>1, <1>4, <2>1
<1>11. dest' \in 1..(IF AtChild' THEN currH + 1 ELSE 1)
  BY <1>1, <1>4, <1>5
<1>12. Looping'
  BY <1>1, <1>3, <1>4, <1>7, <1>9, <1>10, <1>11 DEF Looping
<1>13. SamePassed
  <2>1. ASSUME NEW h \in Heads, NEW k \in Heads, NEW m \in 1..Len(intervals[h]), NEW c \in Nat \ {0}
        PROVE  Passed(h, m, c, k)' <=> Passed(h, m, c, k)
    <3>1. ~(k < dest) /\ ~(k < dest') /\ ~(c < kid) /\ ~(c < kid')
      BY <1>1, <1>4, <1>5 DEF Heads
    <3>2. h < i' <=> h < i \/ h = i
      BY <1>1, <1>4 DEF Heads
    <3>3. h = i => m < memb
      BY <1>4, <1>6
    <3>4. ~(m < memb')
      BY <1>1
    <3>5. QED BY <3>1, <3>2, <3>3, <3>4 DEF Passed
  <2>2. QED BY <2>1 DEF SamePassed
<1>14. Links'
  BY <1>1, <1>2, <1>13, LinksStay
<1>15. QED BY <1>2, <1>7, <1>12, <1>14, LoopInv
-----------------------------------------------------------------------------
(***************************************************************************)
(* The reduced graph becomes the graph.                                    *)
(***************************************************************************)
LEMMA ReturnStep == Inv /\ Return => Inv'
<1> SUFFICES ASSUME Inv, Return PROVE Inv'
  OBVIOUS
<1>1. /\ pc = "link" /\ ~AtInterval /\ pc' = "main"
      /\ gr' = [children |-> reduced, symb |-> [h \in DOMAIN reduced |-> 9], root |-> 1]
      /\ UNCHANGED <<input, optionRec, lastN, i, explored, headers, currH, intervals, added,
                     pOk, reduced, memb, kid, dest>>
  BY DEF Return, reading, scanning, linking
<1>2. /\ IsRooted(gr) /\ Shape /\ currH \in Nat /\ currH >= 1 /\ Len(intervals) = currH
      /\ i \in 1..(currH + 1)
      /\ reduced \in Seq(Seq(Heads)) /\ Len(reduced) = currH /\ currH = Len(headers)
  BY <1>1, LinkFacts
<1>3. gr'.children = reduced /\ DOMAIN reduced = Heads /\ gr'.root = 1
      /\ gr'.symb = [h \in Heads |-> 9] /\ 1 \in Heads
  BY <1>1, <1>2, LenProperties DEF Heads
<1>4. IsRooted(gr)'
  BY <1>2, <1>3 DEF IsRooted, IsGraph, NodesOf
<1>5. count(gr)' = currH /\ currH <= count(gr) /\ count(gr) \in Nat /\ count(input) \in Nat
  BY <1>2, <1>3, ShapeFacts, GrFacts DEF count
<1>6. count(gr)' <= count(input)'
  <2>1. count(gr) <= count(input) /\ count(input)' = count(input)
    BY <1>1 DEF Inv, count
  <2>2. QED BY <1>2, <1>5, <2>1
<1>7. Tables'
  BY <1>1, TypeSplit DEF Inv, Tables, count
<1>8. Others'
  <2>1. Others
    BY TypeSplit DEF Inv
  <2>2. i' \in 1..(count(gr)' + 1)
    BY <1>1, <1>2, <1>5
  <2>3. count(input)' = count(input)
    BY <1>1 DEF count
  <2>4. QED BY <1>1, <1>4, <2>1, <2>2, <2>3 DEF Others
<1>9. ~Inside'
  BY <1>1 DEF Inside
<1>10. QED BY <1>6, <1>7, <1>8, <1>9, TypeSplitNext DEF Inv

THEOREM Invariance == Spec => []Inv
<1>1. Init => Inv
  BY InitInv
<1>2. Inv /\ [Next]_vars => Inv'
  <2> SUFFICES ASSUME Inv, [Next]_vars PROVE Inv'
    OBVIOUS
  <2>1. CASE Reduce
    BY <2>1, ReduceStep
  <2>2. CASE Visit
    BY <2>2, VisitKeeps, VisitJoins
  <2>3. CASE Rescan
    BY <2>3, RescanStep
  <2>4. CASE EndScan
    BY <2>4, EndScanStep
  <2>5. CASE Enter
    BY <2>5, EnterStep
  <2>6. CASE EndInterval
    BY <2>6, LastInterval, NextHeader
  <2>7. CASE Link
    BY <2>7, LinkStep
  <2>8. CASE NextChild
    BY <2>8, NextChildStep
  <2>9. CASE NextMember
    BY <2>9, NextMemberStep
  <2>10. CASE NextInterval
    BY <2>10, NextIntervalStep
  <2>11. CASE Return
    BY <2>11, ReturnStep
  <2>12. CASE Stop \/ Done \/ UNCHANGED vars
    BY <2>12, StopStep
  <2>13. QED BY <2>1, <2>2, <2>3, <2>4, <2>5, <2>6, <2>7, <2>8, <2>9, <2>10, <2>11, <2>12
             DEF Next, Step
<1>3. QED BY <1>1, <1>2, PTL DEF Spec

\* At every moment of every reduction of any graph the intervals computed so
\* far are disjoint and entered by their header only, and the tables of
\* computeInterval and reduceInterval do not overflow (lines 1189-1358).
THEOREM IntervalsCorrect == Spec => []IntervalInv
<1>1. Inv => IntervalInv
  <2> SUFFICES ASSUME Inv PROVE IntervalInv
    OBVIOUS
  <2>1. TypeOK
    BY DEF Inv
  <2>2. FathersFirst
    BY DEF Inv, Computed, FathersFirst
  <2>3. OneIntervalEach
    BY DEF Inv, Computed, OneIntervalEach
  <2>4. QED BY <2>1, <2>2, <2>3 DEF IntervalInv
<1>2. QED BY <1>1, Invariance, PTL

-----------------------------------------------------------------------------
(***************************************************************************)
(* The intervals partition a connected graph.                              *)
(***************************************************************************)
\* A node that the root reaches is the root or has a father.
LEMMA ReachedHasFather ==
    ASSUME IsRooted(gr), Connected(gr), NEW n \in NodesOf(gr), n # gr.root
    PROVE  Fathers(gr, n) # {}
<1>1. /\ LinksInside(gr) /\ gr.root \in NodesOf(gr) /\ NodesOf(gr) = 1..Len(gr.children)
      /\ Len(gr.children) \in Nat
      /\ \A m \in NodesOf(gr) : gr.children[m] \in Seq(NodesOf(gr))
  BY GraphFacts
<1>2. Cardinality(NodesOf(gr)) \in Nat
  BY GraphFacts
<1>3. SUFFICES ASSUME Fathers(gr, n) = {} PROVE FALSE
  OBVIOUS
<1> DEFINE C == NodesOf(gr) \ {n}
<1>4. gr.root \in C
  BY <1>1
<1>5. Successors(gr, C) \subseteq C
  <2>1. \A m \in NodesOf(gr) : n \notin Range(gr.children[m])
    BY <1>3 DEF Fathers, E
  <2>2. \A m \in NodesOf(gr) : Range(gr.children[m]) \subseteq NodesOf(gr)
    BY <1>1, RangeFacts
  <2>3. QED BY <2>1, <2>2 DEF Successors
<1> HIDE DEF C
<1>6. Ball(gr, gr.root, Cardinality(NodesOf(gr))) \subseteq C
  BY <1>1, <1>2, <1>4, <1>5, ReachesNoMore
<1>7. NodesOf(gr) \subseteq C
  BY <1>6 DEF Connected, Reachable
<1>8. QED BY <1>7 DEF C

\* What the intervals hold is closed under links, so it is all the root reaches.
LEMMA AllTaken ==
    ASSUME Inv, pc = "link", Connected(gr)
    PROVE  \A n \in Nodes : \E h \in Heads : n \in Members(h)
<1>1. /\ IsRooted(gr) /\ Shape /\ Computed /\ currH = Len(headers)
  BY LinkFacts
<1>2. /\ LinksInside(gr) /\ gr.root \in NodesOf(gr) /\ NodesOf(gr) = 1..Len(gr.children)
      /\ Len(gr.children) \in Nat /\ NodesOf(gr) = Nodes
      /\ \A m \in NodesOf(gr) : gr.children[m] \in Seq(NodesOf(gr))
  BY <1>1, GraphFacts, GrFacts
<1>3. Cardinality(NodesOf(gr)) \in Nat
  BY <1>1, GraphFacts
<1>4. /\ Heads = 1..Len(headers) /\ currH \in Heads
      /\ \A x : x \in Range(headers) <=> \E k \in 1..Len(headers) : headers[k] = x
      /\ \A h \in Heads : headers[h] \in Members(h) /\ Members(h) \subseteq Nodes
  BY <1>1, ShapeFacts DEF Heads
<1> DEFINE C == UNION {Members(h) : h \in Heads}
<1>5. Range(headers) \subseteq C
  BY <1>4
<1>6. gr.root \in C
  <2>1. 1 \in Heads /\ headers[1] = gr.root
    <3>1. currH \in Nat /\ currH \in 1..currH
      BY <1>1, <1>4, ShapeFacts DEF Heads
    <3>2. 1 \in 1..currH
      BY <3>1
    <3>3. QED BY <1>1, <3>2 DEF Heads, Shape
  <2>2. QED BY <1>4, <2>1
<1>7. Successors(gr, C) \subseteq C
  <2>1. SUFFICES ASSUME NEW f \in C, NEW n \in Range(gr.children[f]) PROVE n \in C
    BY DEF Successors
  <2>2. PICK h \in Heads : f \in Members(h)
    OBVIOUS
  <2>3. f \in NodesOf(gr) /\ n \in NodesOf(gr)
    BY <1>2, <1>4, <2>2, RangeFacts
  <2>4. f \in Fathers(gr, n) /\ n \in Nodes
    BY <1>2, <2>1, <2>3 DEF Fathers, E
  <2>5. Left(n, h)
    BY DEF Left
  <2>6. explored[n] = 2 \/ n \in Range(headers)
    BY <1>1, <2>2, <2>4, <2>5 DEF Computed, Covered
  <2>7. CASE n \in Range(headers)
    BY <1>5, <2>7
  <2>8. CASE explored[n] = 2
    BY <1>1, <2>4, <2>8 DEF Computed, Marked
  <2>9. QED BY <2>6, <2>7, <2>8
<1> HIDE DEF C
<1>8. Ball(gr, gr.root, Cardinality(NodesOf(gr))) \subseteq C
  BY <1>2, <1>3, <1>6, <1>7, ReachesNoMore
<1>9. Nodes \subseteq C
  BY <1>2, <1>8 DEF Connected, Reachable
<1>10. QED BY <1>9 DEF C

\* The places where a sequence without duplicates has x are one or none.
LEMMA PlacesOf ==
    ASSUME NEW s, IsInjective(s), NEW x
    PROVE  Cardinality({k \in DOMAIN s : s[k] = x}) = IF x \in Range(s) THEN 1 ELSE 0
<1> DEFINE D == {k \in DOMAIN s : s[k] = x}
<1>1. CASE x \in Range(s)
  <2>1. PICK k \in DOMAIN s : s[k] = x
    BY <1>1 DEF Range
  <2>2. D = {k}
    BY <2>1 DEF IsInjective
  <2>3. Cardinality({k}) = 1
    BY FS_Singleton
  <2>4. QED BY <1>1, <2>2, <2>3
<1>2. CASE x \notin Range(s)
  <2>1. D = {}
    BY <1>2 DEF Range
  <2>2. QED BY <1>2, <2>1, FS_EmptySet
<1>3. QED BY <1>1, <1>2

\* Once they are computed every node of a graph that the root reaches is in
\* exactly one interval, once, and no interval could take another node,
\* whatever the order of the scans was (lines 1209-1263 and 1308-1335).
THEOREM IntervalsPartition == Spec => []Partition
<1>1. Inv => Partition
  <2> SUFFICES ASSUME Inv, pc = "link", Connected(gr)
               PROVE  /\ \A n \in NodesOf(gr) : \E h \in DOMAIN intervals :
                           /\ Cardinality({m \in DOMAIN intervals[h] : intervals[h][m] = n}) = 1
                           /\ \A k \in DOMAIN intervals : In(n, intervals[k]) => k = h
                      /\ \A h \in DOMAIN intervals : \A n \in NodesOf(gr) \ {gr.root} :
                           Fathers(gr, n) \subseteq Range(intervals[h]) => In(n, intervals[h])
    BY DEF Partition
  <2>1. Inside /\ IsRooted(gr) /\ Shape /\ Computed
    BY LinkFacts
  <2>2. /\ DOMAIN intervals = Heads /\ NodesOf(gr) = Nodes
        /\ \A h \in Heads : IsInjective(intervals[h])
    BY <2>1, ShapeFacts, GrFacts DEF Shape
  <2>3. ASSUME NEW n \in Nodes
        PROVE  \E h \in Heads :
                   /\ Cardinality({m \in DOMAIN intervals[h] : intervals[h][m] = n}) = 1
                   /\ \A k \in Heads : In(n, intervals[k]) => k = h
    <3>1. PICK h \in Heads : n \in Members(h)
      BY AllTaken
    <3>2. Cardinality({m \in DOMAIN intervals[h] : intervals[h][m] = n}) = 1
      BY <2>2, <3>1, PlacesOf DEF Members
    <3>3. \A k \in Heads : n \in Members(k) => k = h
      BY <2>1, <3>1, Apart DEF Computed
    <3>4. QED BY <3>2, <3>3 DEF In, Members
  <2>4. ASSUME NEW h \in Heads, NEW n \in Nodes \ {gr.root},
               Fathers(gr, n) \subseteq Range(intervals[h])
        PROVE  In(n, intervals[h])
    <3>1. Fathers(gr, n) # {}
      BY <2>1, <2>2, ReachedHasFather
    <3>2. Scanned(n, h) /\ MayJoin(n, h)
      BY <2>4, <3>1 DEF Scanned, MayJoin, Members
    <3>3. QED BY <2>1, <3>2 DEF Computed, Maximal, In, Members
  <2>5. QED BY <2>2, <2>3, <2>4
<1>2. QED BY <1>1, Invariance, PTL
-----------------------------------------------------------------------------
(***************************************************************************)
(* The reduced graph.                                                      *)
(***************************************************************************)
\* When the loops are done there is a link where one leaves an interval for
\* another.
LEMMA LinksDone ==
    ASSUME Inv, Return, NEW h \in Heads, NEW k \in Heads
    PROVE  /\ IsInjective(reduced[h])
           /\ k \in Range(reduced[h]) <=>
                  h # k /\ \E n \in Members(h) : \E c \in Members(k) : E(gr, n, c)
<1>1. pc = "link" /\ ~AtInterval
  BY DEF Return
<1>2. /\ Links /\ currH \in Nat /\ IsRooted(gr) /\ Shape
      /\ i \in 1..(currH + 1) /\ ~(i <= currH)
  BY <1>1, LinkFacts
<1>3. h < i
  BY <1>2 DEF Heads
<1>4. \A m, c : Passed(h, m, c, k)
  BY <1>3 DEF Passed
<1>5. /\ \A x : x \in Members(h) <=> \E m \in 1..Len(intervals[h]) : intervals[h][m] = x
      /\ \A m \in 1..Len(intervals[h]) : intervals[h][m] \in NodesOf(gr)
  BY <1>2, ShapeFacts, GrFacts
<1>6. \A n \in NodesOf(gr) : /\ gr.children[n] \in Seq(NodesOf(gr))
                             /\ Len(gr.children[n]) = children_nb(gr, n)
  BY <1>2, GraphFacts DEF children_nb
<1>7. \A n \in NodesOf(gr) : \A x : E(gr, n, x) <=>
          \E c \in 1..children_nb(gr, n) : gr.children[n][c] = x
  BY <1>6, RangeFacts DEF E
<1>8. Met(h, k) <=> \E n \in Members(h) : \E c \in Members(k) : E(gr, n, c)
  <2>1. ASSUME NEW m \in 1..Len(intervals[h]),
               NEW c \in 1..children_nb(gr, intervals[h][m]), Meets(h, m, c, k)
        PROVE  \E n \in Members(h) : \E x \in Members(k) : E(gr, n, x)
    <3>1. E(gr, intervals[h][m], gr.children[intervals[h][m]][c])
      BY <1>5, <1>7
    <3>2. QED BY <1>5, <2>1, <3>1 DEF Meets
  <2>2. ASSUME NEW n \in Members(h), NEW x \in Members(k), E(gr, n, x) PROVE Met(h, k)
    <3>1. PICK m \in 1..Len(intervals[h]) : intervals[h][m] = n
      BY <1>5
    <3>2. n \in NodesOf(gr)
      BY <1>5, <3>1
    <3>3. PICK c \in 1..children_nb(gr, n) : gr.children[n][c] = x
      BY <1>7, <2>2, <3>2
    <3>4. Meets(h, m, c, k)
      BY <3>1, <3>3 DEF Meets
    <3>5. QED BY <1>4, <3>1, <3>4 DEF Met
  <2>3. QED BY <2>1, <2>2 DEF Met
<1>9. QED BY <1>1, <1>2, <1>8 DEF Links

\* An interval is linked from an earlier one, so it is reached in fewer steps
\* than its number.
LEMMA ReducedConnected ==
    ASSUME Inv, Return
    PROVE  Connected(gr')
<1> DEFINE g == gr'
           n == currH
<1>1. pc = "link" /\ g.children = reduced /\ g.root = 1
  BY DEF Return
<1>2. /\ IsRooted(gr) /\ Shape /\ Computed /\ currH \in Nat /\ currH >= 1
      /\ reduced \in Seq(Seq(Heads)) /\ Len(reduced) = currH /\ currH = Len(headers)
  BY <1>1, LinkFacts
<1>3. NodesOf(g) = Heads /\ LinksInside(g)
  <2>1. NodesOf(g) = Heads
    BY <1>1, <1>2, LenProperties DEF NodesOf, Heads
  <2>2. QED BY <1>1, <1>2, <2>1 DEF LinksInside
<1>4. IsRooted(g) /\ 1 \in Heads /\ Cardinality(NodesOf(g)) = n
  <2>1. 1 \in Heads
    BY <1>2 DEF Heads
  <2>2. g.symb = [h \in DOMAIN reduced |-> 9]
    BY DEF Return
  <2>3. g.symb = [h \in NodesOf(g) |-> 9]
    BY <1>1, <2>2 DEF NodesOf
  <2>4. g.symb \in [NodesOf(g) -> Nat]
    BY <2>3
  <2>5. IsRooted(g)
    BY <1>1, <1>2, <1>3, <2>1, <2>4 DEF IsRooted, IsGraph
  <2> HIDE DEF g
  <2>6. Cardinality(NodesOf(g)) = Len(g.children)
    BY <2>5, GraphFacts
  <2>7. QED BY <1>1, <1>2, <2>1, <2>5, <2>6
<1>5. ASSUME NEW k \in 2..n PROVE \E j \in 1..(k - 1) : j \in Heads /\ k \in Range(reduced[j])
  <2>1. k \in Heads /\ k \in 2..Len(headers)
    BY <1>2 DEF Heads
  <2>2. PICK j \in Heads : j < k /\ \E f \in Fathers(gr, headers[k]) : f \in Members(j)
    BY <1>2, <2>1 DEF Computed, HeadersEntered
  <2>3. PICK f \in Fathers(gr, headers[k]) : f \in Members(j)
    BY <2>2
  <2>4. headers[k] \in Members(k) /\ E(gr, f, headers[k])
    BY <1>2, <2>1, ShapeFacts DEF Fathers
  <2>5. j # k /\ j \in 1..(k - 1)
    BY <2>2 DEF Heads
  <2>6. k \in Range(reduced[j])
    BY <2>1, <2>3, <2>4, <2>5, LinksDone
  <2>7. QED BY <2>5, <2>6
<1> HIDE DEF g, n
<1>6. PICK r \in [0..n -> SUBSET NodesOf(g)] : Spreads(r, g, 1, n) /\ Ball(g, 1, n) = r[n]
  BY <1>2, <1>3, <1>4, BallExists DEF n
<1>7. \A k \in 1..n : r[k] = r[k - 1] \cup Successors(g, r[k - 1])
  BY <1>6 DEF Spreads
<1> DEFINE S == {k \in 0..n : 1..(k + 1) \cap Heads \subseteq r[k]}
<1>8. 0 \in S
  <2>1. r[0] = {1} /\ 1..(0 + 1) = {1} /\ 0 \in 0..n
    BY <1>2, <1>6 DEF Spreads, n
  <2>2. QED BY <2>1
<1>9. \A k \in 0..n : k \in S /\ k < n => k + 1 \in S
  <2>1. SUFFICES ASSUME NEW k \in 0..n, 1..(k + 1) \cap Heads \subseteq r[k], k < n
                 PROVE  k + 1 \in 0..n /\ 1..((k + 1) + 1) \cap Heads \subseteq r[k + 1]
    OBVIOUS
  <2>2. k + 1 \in 1..n /\ (k + 1) - 1 = k /\ k + 1 \in 0..n /\ n \in Nat
    BY <1>2, <2>1 DEF n
  <2>3. r[k + 1] = r[k] \cup Successors(g, r[k])
    BY <1>7, <2>2
  <2>4. ASSUME NEW x \in 1..((k + 1) + 1), x \in Heads, x \notin 1..(k + 1)
        PROVE  x \in Successors(g, r[k])
    <3>1. x \in 2..n /\ x = k + 2
      BY <2>2, <2>4 DEF Heads, n
    <3>2. PICK j \in 1..(x - 1) : j \in Heads /\ x \in Range(reduced[j])
      BY <1>5, <3>1
    <3>3. j \in 1..(k + 1)
      BY <2>2, <3>1
    <3>4. j \in r[k]
      BY <2>1, <3>2, <3>3
    <3>5. QED BY <1>1, <3>2, <3>4 DEF Successors
  <2>5. QED BY <2>1, <2>2, <2>3, <2>4
<1>10. 0..n \subseteq S
  <2> HIDE DEF S
  <2>1. n \in Nat
    BY <1>2 DEF n
  <2>2. QED BY <1>8, <1>9, <2>1, SetInductionUpTo
<1>11. Heads \subseteq r[n]
  <2>1. n \in 0..n /\ Heads \subseteq 1..(n + 1)
    BY <1>2 DEF n, Heads
  <2>2. QED BY <1>10, <2>1
<1>12. r[n] \subseteq NodesOf(g)
  <2>1. n \in 0..n
    BY <1>2 DEF n
  <2>2. QED BY <1>6, <2>1
<1>13. QED BY <1>1, <1>3, <1>4, <1>6, <1>11, <1>12 DEF Connected, Reachable, g

\* The reduced graph has a link, and only one, exactly where one leaves an
\* interval for another, and its root reaches all of it (lines 1338-1354).
THEOREM ReductionCorrect == Spec => ReducedExact
<1>1. Inv /\ [Next]_vars =>
         (pc = "link" /\ pc' = "main" =>
            /\ Connected(gr')
            /\ \A h, k \in DOMAIN intervals :
                 Cardinality({x \in DOMAIN gr'.children[h] : gr'.children[h][x] = k})
                 = IF h # k /\ \E n \in Range(intervals[h]) : \E c \in Range(intervals[k]) :
                                   E(gr, n, c) THEN 1 ELSE 0)
  <2> SUFFICES ASSUME Inv, [Next]_vars, pc = "link", pc' = "main"
               PROVE  /\ Connected(gr')
                      /\ \A h, k \in DOMAIN intervals :
                           Cardinality({x \in DOMAIN gr'.children[h] : gr'.children[h][x] = k})
                           = IF h # k /\ \E n \in Range(intervals[h]) :
                                            \E c \in Range(intervals[k]) : E(gr, n, c)
                             THEN 1 ELSE 0
    OBVIOUS
  <2>1. Return
    BY DEF Next, Step, Reduce, Visit, Rescan, EndScan, Enter, EndInterval, Link, NextChild,
           NextMember, NextInterval, Stop, Done, vars, scanning, linking, reading
  <2>2. gr'.children = reduced /\ DOMAIN intervals = Heads
    BY <2>1, LinkFacts, ShapeFacts DEF Return
  <2>3. ASSUME NEW h \in Heads, NEW k \in Heads
        PROVE  Cardinality({x \in DOMAIN reduced[h] : reduced[h][x] = k})
               = IF h # k /\ \E n \in Members(h) : \E c \in Members(k) : E(gr, n, c)
                 THEN 1 ELSE 0
    BY <2>1, LinksDone, PlacesOf
  <2>4. QED BY <2>1, <2>2, <2>3, ReducedConnected DEF Members
<1>2. QED BY <1>1, Invariance, PTL DEF Spec, ReducedExact

-----------------------------------------------------------------------------
LEMMA NodesFinite ==
    ASSUME NEW g, LinksInside(g)
    PROVE  /\ IsFiniteSet(NodesOf(g)) /\ Cardinality(NodesOf(g)) \in Nat
           /\ \A x \in NodesOf(g) : \A y : E(g, x, y) => y \in NodesOf(g)
<1>1. NodesOf(g) = 1..Len(g.children) /\ Len(g.children) \in Nat
      /\ \A x \in NodesOf(g) : g.children[x] \in Seq(NodesOf(g))
  BY ElementOfSeq, LenProperties DEF NodesOf, LinksInside
<1>2. IsFiniteSet(NodesOf(g))
  BY <1>1, FS_Interval
<1>3. QED BY <1>1, <1>2, FS_CardinalityType, RangeFacts DEF E

\* As long as the balls around a node grow they gain a node each, so the last
\* one is closed under links.
LEMMA ReachesAll ==
    ASSUME NEW g, LinksInside(g), NEW root \in NodesOf(g)
    PROVE  Successors(g, Reachable(g, root)) \subseteq Reachable(g, root)
<1> DEFINE n == Cardinality(NodesOf(g))
           B(k) == Ball(g, root, k)
           Stops(k) == \E j \in 0..k : Successors(g, B(j)) \subseteq B(j)
           S == {k \in 0..n : Stops(k) \/ Cardinality(B(k)) >= k + 1}
<1>1. IsFiniteSet(NodesOf(g)) /\ n \in Nat
  BY NodesFinite
<1> HIDE DEF n
<1>2. \A k \in Nat : /\ B(k) \subseteq NodesOf(g) /\ IsFiniteSet(B(k)) /\ Cardinality(B(k)) \in Nat
                     /\ Cardinality(B(k)) <= n
                     /\ B(k + 1) = B(k) \cup Successors(g, B(k))
  <2>1. ASSUME NEW k \in Nat
        PROVE  B(k) \subseteq NodesOf(g) /\ B(k + 1) = B(k) \cup Successors(g, B(k))
    BY BallStep
  <2>2. QED BY <1>1, <2>1, FS_Subset, FS_CardinalityType DEF n
<1>3. B(0) = {root}
  <2>1. 0 \in Nat
    OBVIOUS
  <2>2. QED BY <2>1, BallStep
<1> HIDE DEF B
<1>4. 0 \in S
  <2>1. Cardinality(B(0)) = 1
    BY <1>3, FS_Singleton
  <2>2. QED BY <1>1, <2>1
<1>5. ASSUME NEW k \in 0..n, k \in S, k < n
      PROVE  k + 1 \in S
  <2>1. k \in Nat /\ k + 1 \in 0..n
    BY <1>1, <1>5
  <2>2. CASE Stops(k)
    <3>1. 0..k \subseteq 0..(k + 1)
      BY <2>1
    <3>2. Stops(k + 1)
      BY <2>2, <3>1
    <3>3. QED BY <2>1, <3>2
  <2>3. CASE ~Stops(k) /\ Cardinality(B(k)) >= k + 1
    <3>1. k \in 0..k
      BY <2>1
    <3>2. PICK x \in Successors(g, B(k)) : x \notin B(k)
      BY <2>3, <3>1
    <3>3. B(k) \cup {x} \subseteq B(k + 1)
      BY <1>2, <2>1, <3>2
    <3>4. /\ IsFiniteSet(B(k)) /\ Cardinality(B(k)) \in Nat
          /\ IsFiniteSet(B(k + 1)) /\ Cardinality(B(k + 1)) \in Nat
      <4>1. k + 1 \in Nat
        BY <2>1
      <4>2. QED BY <1>2, <2>1, <4>1
    <3>5. Cardinality(B(k) \cup {x}) = Cardinality(B(k)) + 1
      BY <3>2, <3>4, FS_AddElement
    <3>6. Cardinality(B(k) \cup {x}) <= Cardinality(B(k + 1))
      BY <3>3, <3>4, FS_Subset
    <3>7. Cardinality(B(k + 1)) >= (k + 1) + 1
      BY <2>1, <2>3, <3>4, <3>5, <3>6
    <3>8. QED BY <2>1, <3>7
  <2>4. QED BY <1>5, <2>2, <2>3
<1>6. 0..n \subseteq S
  <2>1. \A k \in 0..n : k \in S /\ k < n => k + 1 \in S
    BY <1>5
  <2> HIDE DEF S
  <2>2. QED BY <1>1, <1>4, <2>1, SetInductionUpTo
<1>7. Stops(n)
  <2>1. n \in S
    BY <1>1, <1>6
  <2>2. Cardinality(B(n)) \in Nat /\ Cardinality(B(n)) <= n
    BY <1>1, <1>2
  <2>3. QED BY <1>1, <2>1, <2>2
<1>8. PICK j \in 0..n : Successors(g, B(j)) \subseteq B(j)
  BY <1>7
<1>9. j \in Nat /\ 0 \in 0..j
  BY <1>1
<1>10. root \in B(j)
  BY <1>3, <1>9, BallGrows DEF B
<1>11. B(n) \subseteq B(j)
  BY <1>1, <1>8, <1>10, ReachesNoMore DEF B
<1>12. B(j) \subseteq B(n)
  BY <1>1, BallGrows DEF B
<1>13. B(n) = B(j)
  BY <1>11, <1>12
<1>14. QED BY <1>8, <1>13 DEF B, n, Reachable

LEMMA ReachFacts ==
    ASSUME NEW g, LinksInside(g), NEW r \in NodesOf(g)
    PROVE  /\ r \in Reachable(g, r) /\ Reachable(g, r) \subseteq NodesOf(g)
           /\ IsFiniteSet(Reachable(g, r)) /\ Cardinality(Reachable(g, r)) \in Nat
           /\ \A x \in Reachable(g, r) : \A y : E(g, x, y) => y \in Reachable(g, r)
<1>1. IsFiniteSet(NodesOf(g)) /\ Cardinality(NodesOf(g)) \in Nat
  BY NodesFinite
<1> DEFINE n == Cardinality(NodesOf(g))
<1>2. n \in Nat /\ 0 \in 0..n /\ 0 \in Nat
  BY <1>1
<1> HIDE DEF n
<1>3. Ball(g, r, n) \subseteq NodesOf(g) /\ Ball(g, r, 0) \subseteq Ball(g, r, n) /\ Ball(g, r, 0) = {r}
  BY <1>2, BallStep, BallGrows
<1>4. Ball(g, r, n) = Reachable(g, r)
  BY DEF Reachable, n
<1>5. \A x \in Reachable(g, r) : \A y : E(g, x, y) => y \in Reachable(g, r)
  BY ReachesAll DEF Successors, E
<1>6. IsFiniteSet(Reachable(g, r)) /\ Cardinality(Reachable(g, r)) \in Nat
  BY <1>1, <1>3, <1>4, FS_Subset, FS_CardinalityType
<1>7. QED BY <1>3, <1>4, <1>5, <1>6

LEMMA ReachLeast ==
    ASSUME NEW g, LinksInside(g), NEW r \in NodesOf(g), NEW C, r \in C,
           \A x \in C \cap NodesOf(g) : \A y : E(g, x, y) => y \in C
    PROVE  Reachable(g, r) \subseteq C
<1> DEFINE D == C \cap NodesOf(g)
<1>1. \A x \in NodesOf(g) : \A y : E(g, x, y) => y \in NodesOf(g)
  BY NodesFinite
<1>2. Successors(g, D) \subseteq D
  BY <1>1 DEF Successors, E
<1>3. Cardinality(NodesOf(g)) \in Nat
  BY NodesFinite
<1>4. r \in D
  OBVIOUS
<1> HIDE DEF D
<1>5. Ball(g, r, Cardinality(NodesOf(g))) \subseteq D
  BY <1>2, <1>3, <1>4, ReachesNoMore
<1>6. QED BY <1>5 DEF Reachable, D

-----------------------------------------------------------------------------
(***************************************************************************)
(* Dominators and forward links.                                           *)
(***************************************************************************)
\* What the root reaches without passing through d.
Avoiding(g, d) == Reachable(Without(g, d), g.root)

LEMMA WithoutLinks ==
    ASSUME NEW g, IsRooted(g), NEW d
    PROVE  /\ NodesOf(Without(g, d)) = NodesOf(g) /\ LinksInside(Without(g, d))
           /\ \A x \in NodesOf(g) : \A y : E(Without(g, d), x, y) <=> x # d /\ E(g, x, y)
<1> DEFINE w == Without(g, d)
<1>1. /\ NodesOf(g) = 1..Len(g.children) /\ Len(g.children) \in Nat
      /\ \A n \in NodesOf(g) : g.children[n] \in Seq(NodesOf(g))
  BY GraphFacts
<1>2. w.children = [n \in NodesOf(g) |-> IF n = d THEN <<>> ELSE g.children[n]]
  BY DEF Without
<1>3. NodesOf(w) = NodesOf(g)
  BY <1>2 DEF NodesOf
<1>4. \A n \in NodesOf(g) : w.children[n] \in Seq(NodesOf(g))
  <2>1. <<>> \in Seq(NodesOf(g))
    OBVIOUS
  <2>2. \A n \in NodesOf(g) : w.children[n] = IF n = d THEN <<>> ELSE g.children[n]
    BY <1>2
  <2> HIDE DEF w
  <2>3. QED BY <1>1, <2>1, <2>2
<1>5. w.children \in [NodesOf(g) -> Seq(NodesOf(g))]
  BY <1>2, <1>4
<1>6. w.children \in Seq(Seq(NodesOf(g)))
  BY <1>1, <1>5
<1>7. LinksInside(w)
  BY <1>3, <1>6 DEF LinksInside
<1>8. \A x \in NodesOf(g) : \A y : E(w, x, y) <=> x # d /\ E(g, x, y)
  BY <1>2, RangeEmpty DEF E
<1>9. QED BY <1>3, <1>7, <1>8

LEMMA AvoidFacts ==
    ASSUME NEW g, IsRooted(g), NEW d
    PROVE  /\ g.root \in Avoiding(g, d) /\ Avoiding(g, d) \subseteq NodesOf(g)
           /\ \A x \in Avoiding(g, d) : x # d => \A y : E(g, x, y) => y \in Avoiding(g, d)
<1> DEFINE w == Without(g, d)
<1>1. /\ NodesOf(w) = NodesOf(g) /\ LinksInside(w) /\ g.root \in NodesOf(w)
      /\ \A x \in NodesOf(g) : \A y : E(w, x, y) <=> x # d /\ E(g, x, y)
  BY WithoutLinks, GraphFacts
<1> HIDE DEF w
<1>2. /\ g.root \in Reachable(w, g.root) /\ Reachable(w, g.root) \subseteq NodesOf(w)
      /\ \A x \in Reachable(w, g.root) : \A y : E(w, x, y) => y \in Reachable(w, g.root)
  BY <1>1, ReachFacts
<1>3. QED BY <1>1, <1>2 DEF w, Avoiding

LEMMA AvoidLeast ==
    ASSUME NEW g, IsRooted(g), NEW d, NEW C, g.root \in C,
           \A x \in C \cap NodesOf(g) : x # d => \A y : E(g, x, y) => y \in C
    PROVE  Avoiding(g, d) \subseteq C
<1> DEFINE w == Without(g, d)
<1>1. /\ NodesOf(w) = NodesOf(g) /\ LinksInside(w) /\ g.root \in NodesOf(w)
      /\ \A x \in NodesOf(g) : \A y : E(w, x, y) <=> x # d /\ E(g, x, y)
  BY WithoutLinks, GraphFacts
<1> HIDE DEF w
<1>2. Reachable(w, g.root) \subseteq C
  BY <1>1, ReachLeast
<1>3. QED BY <1>2 DEF w, Avoiding

LEMMA DominatesIs ==
    ASSUME NEW g, NEW d, NEW n
    PROVE  Dominates(g, d, n) <=> n = d \/ n \notin Avoiding(g, d)
BY DEF Dominates, Avoiding

LEMMA AllReached ==
    ASSUME NEW g, IsRooted(g), Connected(g), NEW C, g.root \in C,
           \A x \in C \cap NodesOf(g) : \A y : E(g, x, y) => y \in C
    PROVE  NodesOf(g) \subseteq C
<1>1. LinksInside(g) /\ g.root \in NodesOf(g)
  BY GraphFacts
<1>2. Reachable(g, g.root) \subseteq C
  BY <1>1, ReachLeast
<1>3. QED BY <1>2 DEF Connected

LEMMA LinksEnd ==
    ASSUME NEW g, IsRooted(g), NEW x \in NodesOf(g), NEW y, E(g, x, y)
    PROVE  y \in NodesOf(g)
BY GraphFacts, NodesFinite

LEMMA ForwardLinks ==
    ASSUME NEW g, IsRooted(g)
    PROVE  /\ NodesOf(Forward(g)) = NodesOf(g) /\ LinksInside(Forward(g))
           /\ \A x \in NodesOf(g) : \A y :
                 E(Forward(g), x, y) <=> E(g, x, y) /\ ~Dominates(g, y, x)
<1> DEFINE w == Forward(g)
           I(n) == {k \in DOMAIN g.children[n] : ~Dominates(g, g.children[n][k], n)}
<1>1. /\ NodesOf(g) = 1..Len(g.children) /\ Len(g.children) \in Nat
      /\ \A n \in NodesOf(g) : g.children[n] \in Seq(NodesOf(g))
  BY GraphFacts
<1>2. w.children = [n \in NodesOf(g) |-> ElementsAt(g.children[n], I(n))]
  BY DEF Forward
<1>3. NodesOf(w) = NodesOf(g)
  BY <1>2 DEF NodesOf
<1>4. ASSUME NEW n \in NodesOf(g)
      PROVE  /\ w.children[n] \in Seq(NodesOf(g))
             /\ \A y : y \in Range(w.children[n]) <=>
                          y \in Range(g.children[n]) /\ ~Dominates(g, y, n)
  <2> DEFINE s == g.children[n]
             J == I(n)
             t == ElementsAt(s, J)
  <2>1. s \in Seq(NodesOf(g)) /\ w.children[n] = t
    BY <1>1, <1>2
  <2>2. DOMAIN s = 1..Len(s)
    BY <2>1, LenProperties
  <2>3. \A k : k \in J <=> k \in 1..Len(s) /\ ~Dominates(g, s[k], n)
    BY <2>2
  <2> HIDE DEF w, J, s
  <2>4. J \subseteq 1..Len(s)
    BY <2>3
  <2>5. /\ IsFiniteSet(J) /\ J \subseteq Nat /\ t \in Seq(NodesOf(g))
        /\ DOMAIN t = 1..Cardinality(J)
        /\ \A m \in 1..Cardinality(J) : t[m] = s[Nth(J, m)]
    BY <2>1, <2>4, ElementsFacts
  <2>6. /\ \A m \in 1..Cardinality(J) : Nth(J, m) \in J
        /\ \A k \in J : Nth(J, RankIn(J, k)) = k
        /\ \A k \in J : RankIn(J, k) \in 1..Cardinality(J)
    BY <2>5, NthFacts, RankFacts
  <2> HIDE DEF t
  <2>7. \A y : y \in Range(t) <=> \E m \in 1..Cardinality(J) : t[m] = y
    BY <2>5 DEF Range
  <2>8. \A y : y \in Range(s) <=> \E k \in 1..Len(s) : s[k] = y
    BY <2>1, RangeFacts
  <2>9. ASSUME NEW y, y \in Range(t) PROVE y \in Range(s) /\ ~Dominates(g, y, n)
    <3>1. PICK m \in 1..Cardinality(J) : t[m] = y
      BY <2>7, <2>9
    <3>2. Nth(J, m) \in J /\ y = s[Nth(J, m)]
      BY <2>5, <2>6, <3>1
    <3>3. QED BY <2>3, <2>8, <3>2
  <2>10. ASSUME NEW y, y \in Range(s), ~Dominates(g, y, n) PROVE y \in Range(t)
    <3>1. PICK k \in 1..Len(s) : s[k] = y
      BY <2>8, <2>10
    <3>2. k \in J
      BY <2>3, <2>10, <3>1
    <3>3. RankIn(J, k) \in 1..Cardinality(J) /\ t[RankIn(J, k)] = y
      BY <2>5, <2>6, <3>1, <3>2
    <3>4. QED BY <2>7, <3>3
  <2>11. QED BY <2>1, <2>5, <2>9, <2>10 DEF s
<1> HIDE DEF I
<1>5. w.children \in [NodesOf(g) -> Seq(NodesOf(g))]
  BY <1>2, <1>4
<1>6. w.children \in Seq(Seq(NodesOf(g)))
  BY <1>1, <1>5
<1>7. LinksInside(w)
  BY <1>3, <1>6 DEF LinksInside
<1>8. QED BY <1>3, <1>4, <1>7 DEF E

\* Where forward links lead to.
Onward(g, x) == Reachable(Forward(g), x)
FE(g, x, y) == E(Forward(g), x, y)

LEMMA OnwardFacts ==
    ASSUME NEW g, IsRooted(g), NEW x \in NodesOf(g)
    PROVE  /\ x \in Onward(g, x) /\ Onward(g, x) \subseteq NodesOf(g)
           /\ IsFiniteSet(Onward(g, x)) /\ Cardinality(Onward(g, x)) \in Nat
           /\ \A y \in Onward(g, x) : \A z : FE(g, y, z) => z \in Onward(g, x)
           /\ \A y : FE(g, x, y) <=> E(g, x, y) /\ ~Dominates(g, y, x)
           /\ \A y : FE(g, x, y) => y \in NodesOf(g) /\ E(g, x, y) /\ x # y
<1>1. /\ NodesOf(Forward(g)) = NodesOf(g) /\ LinksInside(Forward(g))
      /\ \A y : E(Forward(g), x, y) <=> E(g, x, y) /\ ~Dominates(g, y, x)
  BY ForwardLinks
<1>2. \A y : E(g, x, y) => y \in NodesOf(g)
  BY LinksEnd
<1>3. ~Dominates(g, x, x) => FALSE
  BY DEF Dominates
<1> DEFINE w == Forward(g)
<1> HIDE DEF w
<1>4. /\ x \in Reachable(w, x) /\ Reachable(w, x) \subseteq NodesOf(w)
      /\ IsFiniteSet(Reachable(w, x)) /\ Cardinality(Reachable(w, x)) \in Nat
      /\ \A y \in Reachable(w, x) : \A z : E(w, y, z) => z \in Reachable(w, x)
  BY <1>1, ReachFacts DEF w
<1>5. QED BY <1>1, <1>2, <1>3, <1>4 DEF w, Onward, FE

LEMMA OnwardLeast ==
    ASSUME NEW g, IsRooted(g), NEW x \in NodesOf(g), NEW C, x \in C,
           \A y \in C \cap NodesOf(g) : \A z : FE(g, y, z) => z \in C
    PROVE  Onward(g, x) \subseteq C
<1> DEFINE w == Forward(g)
<1>1. NodesOf(w) = NodesOf(g) /\ LinksInside(w)
  BY ForwardLinks
<1> HIDE DEF w
<1>2. \A y \in C \cap NodesOf(w) : \A z : E(w, y, z) => z \in C
  BY <1>1 DEF FE, w
<1>3. Reachable(w, x) \subseteq C
  BY <1>1, <1>2, ReachLeast
<1>4. QED BY <1>3 DEF Onward, w

\* Reducible: no forward link leads back to where it starts.
LEMMA ReducibleIs ==
    ASSUME NEW g, IsRooted(g)
    PROVE  Reducible(g) <=> \A n \in NodesOf(g) : \A c : FE(g, n, c) => n \notin Onward(g, c)
<1>1. \A n : Range(Forward(g).children[n]) = {c \in Range(Forward(g).children[n]) : FE(g, n, c)}
  BY DEF FE, E
<1>2. \A n, c : FE(g, n, c) <=> c \in Range(Forward(g).children[n])
  BY DEF FE, E
<1>3. \A n : n \in UNION {Reachable(Forward(g), c) : c \in Range(Forward(g).children[n])} <=>
             \E c : FE(g, n, c) /\ n \in Onward(g, c)
  BY <1>2 DEF Onward
<1>4. QED BY <1>3 DEF Reducible

-----------------------------------------------------------------------------
(***************************************************************************)
(* Domination in a graph whose root reaches all of it.                     *)
(***************************************************************************)
\* A father of what d dominates is dominated as well.
LEMMA FathersDominated ==
    ASSUME NEW g, IsRooted(g), NEW d, NEW m, Dominates(g, d, m), m # d,
           NEW f \in NodesOf(g), E(g, f, m)
    PROVE  Dominates(g, d, f)
BY AvoidFacts, DominatesIs

LEMMA RootNotDominated ==
    ASSUME NEW g, IsRooted(g), NEW d, Dominates(g, d, g.root)
    PROVE  d = g.root
BY AvoidFacts, DominatesIs

\* Two nodes do not dominate each other.
LEMMA DominatesOneWay ==
    ASSUME NEW g, IsRooted(g), Connected(g), NEW d \in NodesOf(g), NEW e \in NodesOf(g),
           Dominates(g, d, e), Dominates(g, e, d)
    PROVE  d = e
<1>1. SUFFICES ASSUME d # e PROVE FALSE
  OBVIOUS
<1>2. e \notin Avoiding(g, d) /\ d \notin Avoiding(g, e)
  BY <1>1, DominatesIs
<1> DEFINE C == Avoiding(g, d) \cap Avoiding(g, e)
<1>3. g.root \in C
  BY AvoidFacts
<1>4. ASSUME NEW x \in C, NEW y, E(g, x, y) PROVE y \in C
  <2>1. x # d /\ x # e
    BY <1>2
  <2>2. QED BY <1>4, <2>1, AvoidFacts
<1> HIDE DEF C
<1>5. NodesOf(g) \subseteq C
  BY <1>3, <1>4, AllReached
<1>6. QED BY <1>2, <1>5 DEF C

\* A node other than the root is entered by a forward link.
LEMMA EnteredForward ==
    ASSUME NEW g, IsRooted(g), Connected(g), NEW m \in NodesOf(g), m # g.root
    PROVE  \E f \in NodesOf(g) : FE(g, f, m)
<1>1. SUFFICES ASSUME \A f \in NodesOf(g) : ~FE(g, f, m) PROVE FALSE
  OBVIOUS
<1> DEFINE C == Avoiding(g, m) \ {m}
<1>2. g.root \in C
  BY AvoidFacts
<1>3. ASSUME NEW x \in C, NEW y, E(g, x, y) PROVE y \in C
  <2>1. x # m /\ x \in Avoiding(g, m) /\ x \in NodesOf(g) /\ y \in Avoiding(g, m)
    BY <1>3, AvoidFacts
  <2>2. ~Dominates(g, m, x)
    BY <2>1, DominatesIs
  <2>3. y # m
    BY <1>1, <1>3, <2>1, <2>2, OnwardFacts
  <2>4. QED BY <2>1, <2>3
<1> HIDE DEF C
<1>4. NodesOf(g) \subseteq C
  BY <1>2, <1>3, AllReached
<1>5. QED BY <1>4 DEF C

\* When no forward link lies on a cycle of forward links, less is reached from
\* its target than from its source.
LEMMA OnwardShrinks ==
    ASSUME NEW g, IsRooted(g), Reducible(g), NEW x \in NodesOf(g), NEW y, FE(g, x, y)
    PROVE  Cardinality(Onward(g, y)) < Cardinality(Onward(g, x))
<1> DEFINE X == Onward(g, x)
           Y == Onward(g, y)
<1>1. y \in NodesOf(g) /\ x \notin Y
  BY OnwardFacts, ReducibleIs
<1>2. /\ x \in X /\ y \in X /\ IsFiniteSet(X) /\ Cardinality(X) \in Nat /\ X \subseteq NodesOf(g)
      /\ \A a \in X : \A z : FE(g, a, z) => z \in X
  BY OnwardFacts
<1>3. IsFiniteSet(Y) /\ Cardinality(Y) \in Nat
  BY <1>1, OnwardFacts
<1> HIDE DEF X, Y
<1>4. Y \subseteq X
  BY <1>1, <1>2, OnwardLeast DEF Y
<1>5. IsFiniteSet(Y \cup {x}) /\ Cardinality(Y \cup {x}) = Cardinality(Y) + 1
  BY <1>1, <1>3, FS_AddElement
<1>6. Y \cup {x} \subseteq X
  BY <1>2, <1>4
<1>7. Cardinality(Y \cup {x}) <= Cardinality(X)
  BY <1>2, <1>6, FS_Subset
<1>8. QED BY <1>2, <1>3, <1>5, <1>7 DEF X, Y

\* Of some nodes there is one with the least, and one with the greatest measure.
LEMMA LeastOf ==
    ASSUME NEW S, S # {}, NEW f \in [S -> Nat]
    PROVE  \E x \in S : \A y \in S : f[x] <= f[y]
<1> DEFINE T == {f[y] : y \in S}
<1>1. T \subseteq Nat /\ T # {}
  OBVIOUS
<1> HIDE DEF T
<1>2. Min(T) \in T /\ \A k \in T : Min(T) <= k
  BY <1>1, LeastIsIn
<1>3. QED BY <1>2 DEF T

LEMMA GreatestOf ==
    ASSUME NEW S, S # {}, NEW n \in Nat, NEW f \in [S -> 0..n]
    PROVE  \E x \in S : \A y \in S : f[y] <= f[x]
<1> DEFINE h == [y \in S |-> n - f[y]]
<1>1. h \in [S -> Nat]
  OBVIOUS
<1> HIDE DEF h
<1>2. PICK x \in S : \A y \in S : h[x] <= h[y]
  BY <1>1, LeastOf
<1>3. \A y \in S : h[y] = n - f[y] /\ f[y] \in 0..n
  BY DEF h
<1>4. QED BY <1>2, <1>3

\* A graph of several nodes that cannot be reduced further, where each node but
\* the root is entered from two others, has a cycle of forward links.
LEMMA TwoFathersIrreducible ==
    ASSUME NEW g, IsRooted(g), Connected(g), NoSelfLink(g),
           \A m \in NodesOf(g) \ {g.root} : \A f \in NodesOf(g) : E(g, f, m) =>
               \E e \in NodesOf(g) : e # f /\ E(g, e, m),
           NodesOf(g) # {g.root}
    PROVE  ~Reducible(g)
<1>1. SUFFICES ASSUME Reducible(g) PROVE FALSE
  OBVIOUS
<1> DEFINE w == [x \in NodesOf(g) |-> Cardinality(Onward(g, x))]
           n == Cardinality(NodesOf(g))
           D(x) == {m \in NodesOf(g) : m # x /\ Dominates(g, x, m)}
           P == {x \in NodesOf(g) : D(x) # {}}
<1>2. g.root \in NodesOf(g) /\ IsFiniteSet(NodesOf(g)) /\ n \in Nat
  BY GraphFacts, NodesFinite
<1>3. \A x \in NodesOf(g) : w[x] \in 0..n
  <2>1. ASSUME NEW x \in NodesOf(g) PROVE w[x] \in 0..n
    <3>1. /\ IsFiniteSet(Onward(g, x)) /\ Cardinality(Onward(g, x)) \in Nat
          /\ Onward(g, x) \subseteq NodesOf(g)
      BY OnwardFacts
    <3>2. Cardinality(Onward(g, x)) <= n
      BY <1>2, <3>1, FS_Subset
    <3>3. QED BY <1>2, <3>1, <3>2
  <2>2. QED BY <2>1
<1>4. \A x \in NodesOf(g) : \A y : FE(g, x, y) => y \in NodesOf(g) /\ w[y] < w[x]
  BY <1>1, OnwardShrinks, OnwardFacts
<1> HIDE DEF w, n
<1>5. g.root \in P
  <2>1. PICK m \in NodesOf(g) : m # g.root
    BY <1>2
  <2>2. {g.root} \subseteq NodesOf(g) /\ Avoiding(g, g.root) \subseteq {g.root}
    BY <1>2, AvoidLeast
  <2>3. Dominates(g, g.root, m)
    BY <2>1, <2>2, DominatesIs
  <2>4. QED BY <1>2, <2>1, <2>3
<1>6. PICK x \in P : \A y \in P : w[x] <= w[y]
  <2> DEFINE v == [y \in P |-> w[y]]
  <2>1. P \subseteq NodesOf(g) /\ P # {}
    BY <1>5
  <2> HIDE DEF P
  <2>2. v \in [P -> Nat]
    BY <1>2, <1>3, <2>1
  <2>3. \A y \in P : v[y] = w[y]
    OBVIOUS
  <2> HIDE DEF v
  <2>4. PICK x \in P : \A y \in P : v[x] <= v[y]
    BY <2>1, <2>2, LeastOf
  <2>5. QED BY <2>3, <2>4
<1>7. PICK m \in D(x) : \A y \in D(x) : w[y] <= w[m]
  <2> DEFINE S == D(x)
             v == [y \in S |-> w[y]]
  <2>1. S \subseteq NodesOf(g) /\ S # {}
    BY <1>6
  <2> HIDE DEF S
  <2>2. v \in [S -> 0..n]
    BY <1>3, <2>1
  <2>3. \A y \in S : v[y] = w[y]
    OBVIOUS
  <2> HIDE DEF v
  <2>4. PICK m \in S : \A y \in S : v[y] <= v[m]
    BY <1>2, <2>1, <2>2, GreatestOf
  <2>5. QED BY <2>3, <2>4 DEF S
<1>8. x \in NodesOf(g) /\ m \in NodesOf(g) /\ m # x /\ Dominates(g, x, m) /\ m # g.root
  BY <1>6, <1>7, RootNotDominated
<1>9. \A f \in NodesOf(g) : E(g, f, m) => f = x \/ f \in D(x)
  BY <1>8, FathersDominated
<1>10. \A f \in NodesOf(g) : FE(g, f, m) => f = x
  <2>1. ASSUME NEW f \in NodesOf(g), FE(g, f, m), f # x PROVE FALSE
    <3>1. E(g, f, m)
      BY <2>1, OnwardFacts
    <3>2. f \in D(x)
      BY <1>9, <2>1, <3>1
    <3>3. w[f] <= w[m] /\ w[m] < w[f] /\ w[f] \in Int /\ w[m] \in Int
      BY <1>2, <1>3, <1>4, <1>7, <1>8, <2>1, <3>2
    <3>4. QED BY <3>3
  <2>2. QED BY <2>1
<1>11. FE(g, x, m)
  BY <1>8, <1>10, EnteredForward
<1>12. PICK f \in NodesOf(g) : f # x /\ E(g, f, m)
  BY <1>8, <1>11, OnwardFacts
<1>13. f # m
  BY <1>8, <1>12 DEF NoSelfLink
<1>14. Dominates(g, m, f)
  BY <1>8, <1>10, <1>12, OnwardFacts
<1>15. m \in P
  BY <1>8, <1>12, <1>13, <1>14
<1>16. w[x] <= w[m] /\ w[m] < w[x] /\ w[x] \in Int /\ w[m] \in Int
  BY <1>2, <1>3, <1>4, <1>6, <1>8, <1>11, <1>15
<1>17. QED BY <1>16

-----------------------------------------------------------------------------
(***************************************************************************)
(* A graph g and the graph q of its intervals: idx is the interval of a    *)
(* node, pos its place there and head the header of an interval.           *)
(***************************************************************************)
Cut(g, q, idx, pos, head) ==
    /\ IsRooted(g) /\ IsRooted(q) /\ Connected(g) /\ Connected(q)
    /\ idx \in [NodesOf(g) -> NodesOf(q)] /\ pos \in [NodesOf(g) -> Nat]
    /\ head \in [NodesOf(q) -> NodesOf(g)]
    /\ \A h \in NodesOf(q) : idx[head[h]] = h
    /\ idx[g.root] = q.root /\ head[q.root] = g.root
    /\ \A n \in NodesOf(g) : n # head[idx[n]] =>
          \A f \in NodesOf(g) : E(g, f, n) => idx[f] = idx[n] /\ pos[f] < pos[n]
    /\ \A h, k \in NodesOf(q) : E(q, h, k) <=>
          h # k /\ \E n, c \in NodesOf(g) : idx[n] = h /\ idx[c] = k /\ E(g, n, c)

LEMMA CutFacts ==
    ASSUME NEW g, NEW q, NEW idx, NEW pos, NEW head, Cut(g, q, idx, pos, head)
    PROVE  /\ IsRooted(g) /\ IsRooted(q) /\ Connected(g) /\ Connected(q)
           /\ \A x \in NodesOf(g) : idx[x] \in NodesOf(q) /\ pos[x] \in Nat
           /\ \A h \in NodesOf(q) : head[h] \in NodesOf(g) /\ idx[head[h]] = h
           /\ g.root \in NodesOf(g) /\ q.root \in NodesOf(q)
           /\ idx[g.root] = q.root /\ head[q.root] = g.root
           /\ \A n \in NodesOf(g) : n # head[idx[n]] =>
                 \A f \in NodesOf(g) : E(g, f, n) => idx[f] = idx[n] /\ pos[f] < pos[n]
           /\ \A h, k \in NodesOf(q) : E(q, h, k) <=>
                 h # k /\ \E n \in NodesOf(g) : idx[n] = h /\ E(g, n, head[k])
           /\ \A x, y \in NodesOf(g) : E(g, x, y) /\ idx[x] # idx[y] => y = head[idx[y]]
<1>1. /\ IsRooted(g) /\ IsRooted(q) /\ Connected(g) /\ Connected(q)
      /\ idx \in [NodesOf(g) -> NodesOf(q)] /\ pos \in [NodesOf(g) -> Nat]
      /\ head \in [NodesOf(q) -> NodesOf(g)]
      /\ \A h \in NodesOf(q) : idx[head[h]] = h
      /\ idx[g.root] = q.root /\ head[q.root] = g.root
  BY DEF Cut
<1>2. \A n \in NodesOf(g) : n # head[idx[n]] =>
          \A f \in NodesOf(g) : E(g, f, n) => idx[f] = idx[n] /\ pos[f] < pos[n]
  BY DEF Cut
<1>3. \A h, k \in NodesOf(q) : E(q, h, k) <=>
          h # k /\ \E n, c \in NodesOf(g) : idx[n] = h /\ idx[c] = k /\ E(g, n, c)
  BY DEF Cut
<1>4. g.root \in NodesOf(g) /\ q.root \in NodesOf(q)
  BY <1>1, GraphFacts
<1>5. \A x, y \in NodesOf(g) : E(g, x, y) /\ idx[x] # idx[y] => y = head[idx[y]]
  BY <1>2
<1>6. \A h, k \in NodesOf(q) : E(q, h, k) <=>
          h # k /\ \E n \in NodesOf(g) : idx[n] = h /\ E(g, n, head[k])
  <2>1. \A h \in NodesOf(q) : head[h] \in NodesOf(g) /\ idx[head[h]] = h
    BY <1>1
  <2>2. QED BY <1>3, <1>5, <2>1
<1>7. QED BY <1>1, <1>2, <1>4, <1>5, <1>6

\* What holds for a header, and with a node for its successors that are other
\* members of the interval, holds for the interval.
LEMMA FromHeader ==
    ASSUME NEW g, NEW q, NEW idx, NEW pos, NEW head, Cut(g, q, idx, pos, head),
           NEW h \in NodesOf(q), NEW S, head[h] \in S,
           \A x, y \in NodesOf(g) :
               x \in S /\ idx[x] = h /\ idx[y] = h /\ y # head[h] /\ E(g, x, y) => y \in S
    PROVE  \A x \in NodesOf(g) : idx[x] = h => x \in S
<1>1. SUFFICES ASSUME \E x \in NodesOf(g) : idx[x] = h /\ x \notin S PROVE FALSE
  OBVIOUS
<1> DEFINE T == {x \in NodesOf(g) : idx[x] = h /\ x \notin S}
           v == [x \in T |-> pos[x]]
<1>2. \A x \in T : x \in NodesOf(g) /\ idx[x] = h /\ x \notin S /\ x # head[h]
  OBVIOUS
<1>3. \A x \in NodesOf(g) : idx[x] = h /\ x \notin S => x \in T
  OBVIOUS
<1>4. T # {}
  BY <1>1
<1> HIDE DEF T
<1>5. v \in [T -> Nat]
  BY <1>2, CutFacts
<1>6. \A x \in T : v[x] = pos[x]
  OBVIOUS
<1> HIDE DEF v
<1>7. PICK x \in T : \A y \in T : v[x] <= v[y]
  BY <1>4, <1>5, LeastOf
<1>8. x \in NodesOf(g) /\ idx[x] = h /\ x # head[idx[x]] /\ x # g.root
  <2>1. x \in NodesOf(g) /\ idx[x] = h /\ x # head[h]
    BY <1>2
  <2>2. idx[g.root] = q.root /\ head[q.root] = g.root
    BY CutFacts
  <2>3. QED BY <2>1, <2>2
<1>9. PICK f \in NodesOf(g) : E(g, f, x)
  <2>1. PICK f \in NodesOf(g) : FE(g, f, x)
    BY <1>8, CutFacts, EnteredForward
  <2>2. QED BY <2>1, CutFacts, OnwardFacts
<1>10. idx[f] = h /\ pos[f] < pos[x] /\ pos[f] \in Nat /\ pos[x] \in Nat
  BY <1>8, <1>9, CutFacts
<1>11. f \in S
  <2>1. f \in T => v[x] <= v[f] /\ v[x] = pos[x] /\ v[f] = pos[f]
    BY <1>6, <1>7
  <2>2. f \notin T
    BY <1>10, <2>1
  <2>3. QED BY <1>3, <1>10, <2>2
<1>12. x \in S
  BY <1>8, <1>9, <1>10, <1>11
<1>13. QED BY <1>2, <1>7, <1>12

\* The header dominates its interval.
LEMMA HeaderDominates ==
    ASSUME NEW g, NEW q, NEW idx, NEW pos, NEW head, Cut(g, q, idx, pos, head),
           NEW n \in NodesOf(g)
    PROVE  Dominates(g, head[idx[n]], n)
<1> DEFINE h == idx[n]
           C == {x \in NodesOf(g) : idx[x] # h \/ x = head[h]}
<1>1. IsRooted(g) /\ h \in NodesOf(q)
  BY CutFacts
<1>2. g.root \in C
  BY CutFacts
<1>3. ASSUME NEW x \in C, x # head[h], NEW y, E(g, x, y) PROVE y \in C
  <2>1. x \in NodesOf(g) /\ idx[x] # h /\ y \in NodesOf(g)
    BY <1>1, <1>3, LinksEnd
  <2>2. idx[y] = h => y = head[h]
    BY <1>3, <2>1, CutFacts
  <2>3. QED BY <2>1, <2>2
<1>4. n \in C => n = head[h]
  OBVIOUS
<1> HIDE DEF C, h
<1>5. Avoiding(g, head[h]) \subseteq C
  BY <1>1, <1>2, <1>3, AvoidLeast
<1>6. n = head[h] \/ n \notin Avoiding(g, head[h])
  BY <1>4, <1>5
<1>7. Dominates(g, head[h], n)
  BY <1>6, DominatesIs
<1>8. QED BY <1>7 DEF h

\* A member other than the header does not dominate another one that is not
\* after it.
LEMMA LaterDominatesNot ==
    ASSUME NEW g, NEW q, NEW idx, NEW pos, NEW head, Cut(g, q, idx, pos, head),
           NEW x \in NodesOf(g), NEW y \in NodesOf(g), idx[x] = idx[y],
           y # head[idx[y]], pos[x] < pos[y]
    PROVE  ~Dominates(g, y, x)
<1> DEFINE h == idx[y]
           T == {z \in NodesOf(g) : idx[z] = h /\ pos[z] < pos[y] /\ Dominates(g, y, z)}
           v == [z \in T |-> pos[z]]
<1>1. SUFFICES ASSUME Dominates(g, y, x) PROVE FALSE
  OBVIOUS
<1>2. /\ IsRooted(g) /\ Connected(g) /\ h \in NodesOf(q) /\ pos[y] \in Nat
      /\ head[h] \in NodesOf(g) /\ y # head[h]
  BY CutFacts
<1>3. \A z : z \in T <=> /\ z \in NodesOf(g) /\ idx[z] = h
                         /\ pos[z] < pos[y] /\ Dominates(g, y, z)
  OBVIOUS
<1>4. x \in T
  BY <1>1
<1>5. Dominates(g, head[h], y)
  BY HeaderDominates
<1> HIDE DEF T, h
<1>6. v \in [T -> Nat]
  BY <1>3, CutFacts
<1>7. \A z \in T : v[z] = pos[z]
  OBVIOUS
<1> HIDE DEF v
<1>8. PICK z \in T : \A a \in T : v[z] <= v[a]
  BY <1>4, <1>6, LeastOf
<1>9. z \in NodesOf(g) /\ idx[z] = h /\ pos[z] < pos[y] /\ Dominates(g, y, z) /\ pos[z] \in Nat
  BY <1>3, CutFacts
<1>10. z # y
  BY <1>2, <1>9
<1>11. CASE z = head[h]
  BY <1>2, <1>5, <1>9, <1>10, <1>11, DominatesOneWay
<1>12. CASE z # head[h]
  <2>1. z # g.root
    BY <1>9, <1>12, CutFacts
  <2>2. PICK f \in NodesOf(g) : E(g, f, z)
    <3>1. PICK f \in NodesOf(g) : FE(g, f, z)
      BY <1>2, <1>9, <2>1, EnteredForward
    <3>2. QED BY <1>2, <3>1, OnwardFacts
  <2>3. idx[f] = h /\ pos[f] < pos[z] /\ pos[f] \in Nat
    BY <1>9, <1>12, <2>2, CutFacts
  <2>4. Dominates(g, y, f)
    BY <1>2, <1>9, <1>10, <2>2, FathersDominated
  <2>5. f \in T
    BY <1>2, <1>3, <1>9, <2>3, <2>4
  <2>6. v[z] <= v[f] /\ v[z] = pos[z] /\ v[f] = pos[f]
    BY <1>7, <1>8, <2>5
  <2>7. QED BY <1>9, <2>3, <2>6
<1>13. QED BY <1>11, <1>12

\* Domination between intervals is domination by the header.
LEMMA IntervalDominates ==
    ASSUME NEW g, NEW q, NEW idx, NEW pos, NEW head, Cut(g, q, idx, pos, head),
           NEW k \in NodesOf(q), NEW u \in NodesOf(g), idx[u] # k
    PROVE  Dominates(q, k, idx[u]) <=> Dominates(g, head[k], u)
<1> DEFINE h == idx[u]
           r == head[k]
<1>1. /\ IsRooted(g) /\ IsRooted(q) /\ h \in NodesOf(q) /\ h # k
      /\ r \in NodesOf(g) /\ idx[r] = k /\ u # r
  BY CutFacts
<1>2. /\ Dominates(q, k, h) <=> h \notin Avoiding(q, k)
      /\ Dominates(g, r, u) <=> u \notin Avoiding(g, r)
  BY <1>1, DominatesIs
<1> HIDE DEF h, r
<1>3. u \in Avoiding(g, r) => h \in Avoiding(q, k)
  <2> DEFINE C == {x \in NodesOf(g) : idx[x] \in Avoiding(q, k) /\ (idx[x] = k => x = r)}
  <2>1. g.root \in C
    <3>1. g.root \in NodesOf(g) /\ idx[g.root] = q.root /\ head[q.root] = g.root
      BY CutFacts
    <3>2. q.root \in Avoiding(q, k)
      BY <1>1, AvoidFacts
    <3>3. QED BY <3>1, <3>2 DEF r
  <2>2. ASSUME NEW x \in C, x # r, NEW y, E(g, x, y) PROVE y \in C
    <3>1. x \in NodesOf(g) /\ idx[x] \in Avoiding(q, k) /\ idx[x] # k /\ y \in NodesOf(g)
      BY <1>1, <2>2, LinksEnd
    <3>2. idx[x] \in NodesOf(q) /\ idx[y] \in NodesOf(q)
      BY <3>1, CutFacts
    <3>3. CASE idx[y] = idx[x]
      BY <3>1, <3>3
    <3>4. CASE idx[y] # idx[x]
      <4>1. y = head[idx[y]]
        BY <2>2, <3>1, <3>4, CutFacts
      <4>2. E(q, idx[x], idx[y])
        BY <2>2, <3>1, <3>2, <3>4, <4>1, CutFacts
      <4>3. idx[y] \in Avoiding(q, k)
        BY <1>1, <3>1, <4>2, AvoidFacts
      <4>4. QED BY <3>1, <4>1, <4>3 DEF r
    <3>5. QED BY <3>3, <3>4
  <2>3. u \in C => h \in Avoiding(q, k)
    BY DEF h
  <2> HIDE DEF C
  <2>4. Avoiding(g, r) \subseteq C
    BY <1>1, <2>1, <2>2, AvoidLeast
  <2>5. QED BY <2>3, <2>4
<1>4. h \in Avoiding(q, k) => u \in Avoiding(g, r)
  <2> DEFINE A == Avoiding(g, r)
             C == {z \in NodesOf(q) : z = k \/ head[z] \in A}
  <2>1. /\ g.root \in A /\ \A x \in A : x # r => \A y : E(g, x, y) => y \in A
    BY <1>1, AvoidFacts
  <2> HIDE DEF A
  <2>2. ASSUME NEW z \in NodesOf(q), head[z] \in A, z # k, NEW x \in NodesOf(g), idx[x] = z
        PROVE  x \in A /\ x # r
    <3>1. \A a, b \in NodesOf(g) :
              a \in A /\ idx[a] = z /\ idx[b] = z /\ b # head[z] /\ E(g, a, b) => b \in A
      <4>1. ASSUME NEW a \in NodesOf(g), NEW b \in NodesOf(g), a \in A, idx[a] = z, E(g, a, b)
            PROVE  b \in A
        <5>1. a # r
          BY <1>1, <2>2, <4>1
        <5>2. QED BY <2>1, <4>1, <5>1
      <4>2. QED BY <4>1
    <3>2. QED BY <1>1, <2>2, <3>1, FromHeader
  <2>3. q.root \in C
    BY <2>1, CutFacts
  <2>4. ASSUME NEW z \in C, z # k, NEW y, E(q, z, y) PROVE y \in C
    <3>1. z \in NodesOf(q) /\ head[z] \in A /\ y \in NodesOf(q)
      BY <1>1, <2>4, LinksEnd
    <3>2. PICK x \in NodesOf(g) : idx[x] = z /\ E(g, x, head[y])
      BY <2>4, <3>1, CutFacts
    <3>3. x \in A /\ x # r
      BY <2>2, <2>4, <3>1, <3>2
    <3>4. head[y] \in A
      BY <2>1, <3>2, <3>3
    <3>5. QED BY <3>1, <3>4
  <2>5. h \in C => head[h] \in A
    BY <1>1
  <2> HIDE DEF C
  <2>6. Avoiding(q, k) \subseteq C
    BY <1>1, <2>3, <2>4, AvoidLeast
  <2>7. h \in Avoiding(q, k) => u \in A
    BY <1>1, <2>2, <2>5, <2>6 DEF h
  <2>8. QED BY <2>7 DEF A
<1>5. Dominates(q, k, h) <=> Dominates(g, r, u)
  BY <1>2, <1>3, <1>4
<1>6. QED BY <1>5 DEF h, r

\* The forward links of the graph of intervals are those between intervals; a
\* forward link in an interval leads to a later member.
LEMMA CutForward ==
    ASSUME NEW g, NEW q, NEW idx, NEW pos, NEW head, Cut(g, q, idx, pos, head)
    PROVE  /\ \A h, k \in NodesOf(q) : FE(q, h, k) <=>
                 h # k /\ \E x \in NodesOf(g) : idx[x] = h /\ FE(g, x, head[k])
           /\ \A x, y \in NodesOf(g) : FE(g, x, y) /\ idx[x] = idx[y] => pos[x] < pos[y]
           /\ \A x, y \in NodesOf(g) : FE(g, x, y) /\ idx[x] # idx[y] =>
                                           FE(q, idx[x], idx[y])
           /\ \A x, y \in NodesOf(g) :
                 E(g, x, y) /\ idx[x] = idx[y] /\ y # head[idx[y]] => FE(g, x, y)
<1>1. /\ IsRooted(g) /\ IsRooted(q)
      /\ \A x \in NodesOf(g) : idx[x] \in NodesOf(q) /\ pos[x] \in Nat
      /\ \A h \in NodesOf(q) : head[h] \in NodesOf(g) /\ idx[head[h]] = h
      /\ \A h, k \in NodesOf(q) : E(q, h, k) <=>
                 h # k /\ \E n \in NodesOf(g) : idx[n] = h /\ E(g, n, head[k])
  BY CutFacts
<1>2. /\ \A x \in NodesOf(g) : \A y : FE(g, x, y) <=> E(g, x, y) /\ ~Dominates(g, y, x)
      /\ \A x \in NodesOf(q) : \A y : FE(q, x, y) <=> E(q, x, y) /\ ~Dominates(q, y, x)
  BY <1>1, OnwardFacts
<1>3. \A k \in NodesOf(q), x \in NodesOf(g) :
          idx[x] # k => (Dominates(q, k, idx[x]) <=> Dominates(g, head[k], x))
  BY IntervalDominates
<1>4. \A h, k \in NodesOf(q) : FE(q, h, k) <=>
          h # k /\ \E x \in NodesOf(g) : idx[x] = h /\ FE(g, x, head[k])
  <2>1. ASSUME NEW h \in NodesOf(q), NEW k \in NodesOf(q), FE(q, h, k)
        PROVE  h # k /\ \E x \in NodesOf(g) : idx[x] = h /\ FE(g, x, head[k])
    <3>1. E(q, h, k) /\ ~Dominates(q, k, h)
      BY <1>2, <2>1
    <3>2. PICK x \in NodesOf(g) : h # k /\ idx[x] = h /\ E(g, x, head[k])
      BY <1>1, <3>1
    <3>3. ~Dominates(g, head[k], x)
      BY <1>3, <3>1, <3>2
    <3>4. QED BY <1>2, <3>2, <3>3
  <2>2. ASSUME NEW h \in NodesOf(q), NEW k \in NodesOf(q), h # k,
               NEW x \in NodesOf(g), idx[x] = h, FE(g, x, head[k])
        PROVE  FE(q, h, k)
    <3>1. E(g, x, head[k]) /\ ~Dominates(g, head[k], x)
      BY <1>2, <2>2
    <3>2. E(q, h, k)
      BY <1>1, <2>2, <3>1
    <3>3. ~Dominates(q, k, h)
      BY <1>3, <2>2, <3>1
    <3>4. QED BY <1>2, <3>2, <3>3
  <2>3. QED BY <2>1, <2>2
<1>5. ASSUME NEW x \in NodesOf(g), NEW y \in NodesOf(g), FE(g, x, y), idx[x] = idx[y]
      PROVE  pos[x] < pos[y]
  <2>1. E(g, x, y) /\ ~Dominates(g, y, x)
    BY <1>2, <1>5
  <2>2. y # head[idx[y]]
    BY <1>5, <2>1, HeaderDominates
  <2>3. QED BY <1>5, <2>1, <2>2, CutFacts
<1>6. ASSUME NEW x \in NodesOf(g), NEW y \in NodesOf(g), FE(g, x, y), idx[x] # idx[y]
      PROVE  FE(q, idx[x], idx[y])
  <2>1. y = head[idx[y]]
    BY <1>2, <1>6, CutFacts
  <2>2. QED BY <1>1, <1>4, <1>6, <2>1
<1>7. ASSUME NEW x \in NodesOf(g), NEW y \in NodesOf(g), E(g, x, y), idx[x] = idx[y],
             y # head[idx[y]]
      PROVE  FE(g, x, y)
  <2>1. pos[x] < pos[y]
    BY <1>7, CutFacts
  <2>2. ~Dominates(g, y, x)
    BY <1>7, <2>1, LaterDominatesNot
  <2>3. QED BY <1>2, <1>7, <2>2
<1>8. QED BY <1>4, <1>5, <1>6, <1>7

\* A graph is reducible exactly when the graph of its intervals is.
LEMMA CutReducible ==
    ASSUME NEW g, NEW q, NEW idx, NEW pos, NEW head, Cut(g, q, idx, pos, head)
    PROVE  Reducible(g) <=> Reducible(q)
<1>1. /\ IsRooted(g) /\ IsRooted(q)
      /\ \A x \in NodesOf(g) : idx[x] \in NodesOf(q) /\ pos[x] \in Nat
      /\ \A h \in NodesOf(q) : head[h] \in NodesOf(g) /\ idx[head[h]] = h
  BY CutFacts
<1>2. /\ \A h, k \in NodesOf(q) : FE(q, h, k) <=>
             h # k /\ \E x \in NodesOf(g) : idx[x] = h /\ FE(g, x, head[k])
      /\ \A x, y \in NodesOf(g) : FE(g, x, y) /\ idx[x] = idx[y] => pos[x] < pos[y]
      /\ \A x, y \in NodesOf(g) : FE(g, x, y) /\ idx[x] # idx[y] => FE(q, idx[x], idx[y])
      /\ \A x, y \in NodesOf(g) :
             E(g, x, y) /\ idx[x] = idx[y] /\ y # head[idx[y]] => FE(g, x, y)
  BY CutForward
<1>3. /\ \A x \in NodesOf(g) : \A y : FE(g, x, y) => y \in NodesOf(g)
      /\ \A x \in NodesOf(q) : \A y : FE(q, x, y) => y \in NodesOf(q)
  BY <1>1, OnwardFacts
<1>4. ASSUME Reducible(g), NEW h \in NodesOf(q), NEW k, FE(q, h, k), h \in Onward(q, k)
      PROVE  FALSE
  <2> DEFINE O == Onward(g, head[k])
             C == {z \in NodesOf(q) : head[z] \in O}
  <2>1. k \in NodesOf(q) /\ head[k] \in NodesOf(g)
    BY <1>1, <1>3, <1>4
  <2>2. head[k] \in O /\ \A y \in O : \A z : FE(g, y, z) => z \in O
    BY <1>1, <2>1, OnwardFacts
  <2> HIDE DEF O
  <2>3. ASSUME NEW z \in NodesOf(q), head[z] \in O, NEW x \in NodesOf(g), idx[x] = z
        PROVE  x \in O
    <3>1. \A a, b \in NodesOf(g) :
              a \in O /\ idx[a] = z /\ idx[b] = z /\ b # head[z] /\ E(g, a, b) => b \in O
      <4>1. ASSUME NEW a \in NodesOf(g), NEW b \in NodesOf(g), a \in O, idx[a] = z,
                   idx[b] = z, b # head[z], E(g, a, b)
            PROVE  b \in O
        <5>1. FE(g, a, b)
          BY <1>2, <4>1
        <5>2. QED BY <2>2, <4>1, <5>1
      <4>2. QED BY <4>1
    <3>2. QED BY <2>3, <3>1, FromHeader
  <2>4. k \in C
    BY <2>1, <2>2
  <2>5. ASSUME NEW z \in C, NEW y, FE(q, z, y) PROVE y \in C
    <3>1. z \in NodesOf(q) /\ head[z] \in O /\ y \in NodesOf(q)
      BY <1>3, <2>5
    <3>2. PICK x \in NodesOf(g) : idx[x] = z /\ FE(g, x, head[y])
      BY <1>2, <2>5, <3>1
    <3>3. x \in O
      BY <2>3, <3>1, <3>2
    <3>4. QED BY <2>2, <3>1, <3>2, <3>3
  <2>6. h \in C => head[h] \in O
    OBVIOUS
  <2> HIDE DEF C
  <2>7. Onward(q, k) \subseteq C
    BY <1>1, <2>1, <2>4, <2>5, OnwardLeast
  <2>8. PICK x \in NodesOf(g) : idx[x] = h /\ FE(g, x, head[k])
    BY <1>2, <1>4, <2>1
  <2>9. x \in O
    BY <1>4, <2>3, <2>6, <2>7, <2>8
  <2>10. x \notin O
    BY <1>1, <1>4, <2>8, ReducibleIs DEF O
  <2>11. QED BY <2>9, <2>10
<1>5. ASSUME Reducible(q), NEW n \in NodesOf(g), NEW c, FE(g, n, c), n \in Onward(g, c)
      PROVE  FALSE
  <2> DEFINE h == idx[n]
             O == UNION {Onward(q, k) : k \in {k \in NodesOf(q) : FE(q, h, k)}}
             C == {x \in NodesOf(g) : (idx[x] = h /\ pos[n] < pos[x]) \/ idx[x] \in O}
  <2>1. c \in NodesOf(g) /\ h \in NodesOf(q) /\ pos[n] \in Nat
    BY <1>1, <1>3, <1>5
  <2>2. \A k \in NodesOf(q) : FE(q, h, k) =>
            k \in O /\ h \notin Onward(q, k)
    <3>1. \A k \in NodesOf(q) : k \in Onward(q, k)
      BY <1>1, OnwardFacts
    <3>2. \A k \in NodesOf(q) : FE(q, h, k) => h \notin Onward(q, k)
      BY <1>1, <1>5, <2>1, ReducibleIs
    <3>3. QED BY <3>1, <3>2
  <2>3. h \notin O
    BY <2>2
  <2>4. \A y \in O : \A z : FE(q, y, z) => z \in O
    <3>1. \A k \in NodesOf(q) : \A y \in Onward(q, k) : \A z : FE(q, y, z) => z \in Onward(q, k)
      BY <1>1, OnwardFacts
    <3>2. QED BY <3>1
  <2>5. c \in C
    <3>1. CASE idx[c] = h
      BY <1>2, <1>5, <2>1, <3>1
    <3>2. CASE idx[c] # h
      <4>1. FE(q, h, idx[c]) /\ idx[c] \in NodesOf(q)
        BY <1>1, <1>2, <1>5, <2>1, <3>2
      <4>2. idx[c] \in O
        BY <2>2, <4>1
      <4>3. QED BY <2>1, <4>2
    <3>3. QED BY <3>1, <3>2
  <2> HIDE DEF O
  <2>6. ASSUME NEW x \in C, NEW y, FE(g, x, y) PROVE y \in C
    <3>1. x \in NodesOf(g) /\ y \in NodesOf(g) /\ idx[y] \in NodesOf(q)
      BY <1>1, <1>3, <2>6
    <3>2. CASE idx[x] = h /\ pos[n] < pos[x]
      <4>1. CASE idx[y] = h
        <5>1. pos[x] < pos[y] /\ pos[x] \in Nat /\ pos[y] \in Nat
          BY <1>1, <1>2, <2>6, <3>1, <3>2, <4>1
        <5>2. pos[n] < pos[y]
          BY <2>1, <3>2, <5>1
        <5>3. QED BY <3>1, <4>1, <5>2
      <4>2. CASE idx[y] # h
        BY <1>2, <2>2, <2>6, <3>1, <3>2, <4>2
      <4>3. QED BY <4>1, <4>2
    <3>3. CASE idx[x] \in O
      <4>1. CASE idx[y] = idx[x]
        BY <3>1, <3>3, <4>1
      <4>2. CASE idx[y] # idx[x]
        <5>1. FE(q, idx[x], idx[y])
          BY <1>2, <2>6, <3>1, <4>2
        <5>2. idx[y] \in O
          BY <2>4, <3>3, <5>1
        <5>3. QED BY <3>1, <5>2
      <4>3. QED BY <4>1, <4>2
    <3>4. QED BY <2>6, <3>2, <3>3
  <2>7. n \notin C
    BY <2>1, <2>3
  <2> HIDE DEF C
  <2>8. Onward(g, c) \subseteq C
    BY <1>1, <2>1, <2>5, <2>6, OnwardLeast
  <2>9. QED BY <1>5, <2>7, <2>8
<1>6. Reducible(g) => Reducible(q)
  BY <1>1, <1>4, ReducibleIs
<1>7. Reducible(q) => Reducible(g)
  BY <1>1, <1>5, ReducibleIs
<1>8. QED BY <1>6, <1>7

-----------------------------------------------------------------------------
(***************************************************************************)
(* With -R: the limit is a single node exactly for a reducible graph.      *)
(***************************************************************************)
Supposed == Connected(input) /\ NoSelfLink(input)

\* A reduction keeps what the limit depends on.
Kept == Supposed => Connected(gr) /\ NoSelfLink(gr) /\ (Reducible(gr) <=> Reducible(input))

\* Nothing was left to reduce when the size did not change.
Settled ==
    Supposed /\ ~Inside /\ lastN = count(gr) => (count(gr) = 1 <=> Reducible(gr))

LimitInv == /\ Kept /\ Settled
            /\ Inside => lastN = count(gr)
            /\ pc = "end" /\ optionRec => lastN = count(gr)

\* The interval of each node, its place there, and the headers.
LEMMA ReturnCuts ==
    ASSUME Inv, Return, Connected(gr)
    PROVE  \E idx, pos, head : Cut(gr, gr', idx, pos, head)
<1>1. pc = "link" /\ gr'.children = reduced /\ gr'.root = 1
  BY DEF Return
<1>2. /\ Inside /\ IsRooted(gr) /\ Shape /\ Computed /\ OneIntervalEach /\ FathersFirst
      /\ reduced \in Seq(Seq(Heads)) /\ Len(reduced) = currH /\ currH \in Nat /\ currH >= 1
  BY <1>1, LinkFacts DEF Computed
<1>3. IsRooted(gr')
  <2>1. Inv'
    BY ReturnStep
  <2>2. QED BY <2>1 DEF Inv, TypeOK
<1>4. Connected(gr')
  BY ReducedConnected
<1>5. NodesOf(gr) = Nodes /\ NodesOf(gr') = Heads /\ 1 \in Heads
  BY <1>1, <1>2, GrFacts, LenProperties DEF NodesOf, Heads
<1>6. /\ \A h \in Heads : /\ Members(h) \subseteq Nodes /\ headers[h] \in Members(h)
                          /\ Len(intervals[h]) \in Nat
                          /\ intervals[h] \in Seq(Nodes)
                          /\ intervals[h][1] = headers[h] /\ IsInjective(intervals[h])
                          /\ DOMAIN intervals[h] = 1..Len(intervals[h])
      /\ \A h \in Heads : \A x : x \in Members(h) <=>
                                     \E m \in 1..Len(intervals[h]) : intervals[h][m] = x
      /\ DOMAIN intervals = Heads /\ headers[1] = gr.root
  BY <1>2, ShapeFacts DEF Shape
<1>7. \A n \in Nodes : \E h \in Heads : n \in Members(h)
  BY <1>1, AllTaken
<1>8. \A h, k \in Heads : \A x : x \in Members(h) /\ x \in Members(k) => h = k
  BY <1>2, Apart
<1> DEFINE idx == [n \in Nodes |-> CHOOSE h \in Heads : n \in Members(h)]
           pos == [n \in Nodes |-> CHOOSE m \in 1..Len(intervals[idx[n]]) :
                                       intervals[idx[n]][m] = n]
           head == [h \in Heads |-> headers[h]]
<1>9. \A n \in Nodes : idx[n] \in Heads /\ n \in Members(idx[n])
  BY <1>7
<1>10. idx \in [Nodes -> Heads]
  <2>1. \A n \in Nodes : (CHOOSE h \in Heads : n \in Members(h)) \in Heads
    BY <1>7
  <2>2. QED BY <2>1
<1> HIDE DEF idx
<1>11. \A h \in Heads : \A n \in Members(h) : n \in Nodes /\ idx[n] = h
  BY <1>6, <1>8, <1>9
<1>12. \A n \in Nodes : /\ pos[n] \in 1..Len(intervals[idx[n]])
                        /\ intervals[idx[n]][pos[n]] = n
  <2>1. \A n \in Nodes : \E m \in 1..Len(intervals[idx[n]]) : intervals[idx[n]][m] = n
    BY <1>6, <1>9
  <2>2. QED BY <2>1
<1>13. pos \in [Nodes -> Nat]
  <2>1. \A n \in Nodes : (CHOOSE m \in 1..Len(intervals[idx[n]]) :
                              intervals[idx[n]][m] = n) \in Nat
    <3>1. \A n \in Nodes : pos[n] = CHOOSE m \in 1..Len(intervals[idx[n]]) :
                              intervals[idx[n]][m] = n
      OBVIOUS
    <3> HIDE DEF pos
    <3>2. \A n \in Nodes : pos[n] \in Nat
      BY <1>6, <1>9, <1>12
    <3>3. QED BY <3>1, <3>2
  <2>2. QED BY <2>1
<1>14. head \in [Heads -> Nodes] /\ \A h \in Heads : head[h] = headers[h]
  BY <1>6
<1> HIDE DEF pos, head
<1>15. \A h \in Heads : idx[head[h]] = h
  BY <1>6, <1>11, <1>14
<1>16. idx[gr.root] = gr'.root /\ head[gr'.root] = gr.root
  BY <1>1, <1>5, <1>6, <1>14, <1>15
<1>17. ASSUME NEW n \in Nodes, n # head[idx[n]], NEW f \in Nodes, E(gr, f, n)
       PROVE  idx[f] = idx[n] /\ pos[f] < pos[n]
  <2> DEFINE h == idx[n]
             m == pos[n]
             s == intervals[h]
             u == SubSeq(s, 1, m - 1)
  <2>1. h \in Heads /\ m \in 1..Len(s) /\ s[m] = n /\ s \in Seq(Nodes) /\ Len(s) \in Nat
        /\ s[1] = head[h] /\ IsInjective(s) /\ DOMAIN s = 1..Len(s)
    BY <1>6, <1>9, <1>12, <1>14
  <2>2. m \in 2..Len(s) /\ m - 1 \in 0..Len(s)
    BY <1>17, <2>1
  <2>3. f \in Fathers(gr, s[m])
    BY <1>5, <1>17, <2>1 DEF Fathers
  <2>4. f \in Range(u)
    BY <1>2, <1>6, <2>1, <2>2, <2>3 DEF FathersFirst
  <2> HIDE DEF h, m, s
  <2>5. /\ u \in Seq(Nodes) /\ Len(u) = m - 1
        /\ \A j \in 1..(m - 1) : u[j] = s[j]
    BY <2>1, <2>2, PrefixFacts
  <2> HIDE DEF u
  <2>6. PICK j \in 1..(m - 1) : u[j] = f
    BY <2>4, <2>5, RangeFacts
  <2>7. j \in 1..Len(s) /\ s[j] = f /\ j < m
    BY <2>1, <2>2, <2>5, <2>6
  <2>8. f \in Members(h)
    BY <1>6, <2>1, <2>7 DEF s
  <2>9. idx[f] = h
    BY <1>11, <2>1, <2>8
  <2>10. pos[f] \in 1..Len(s) /\ s[pos[f]] = f
    BY <1>12, <2>9 DEF s
  <2>11. pos[f] = j
    BY <2>1, <2>7, <2>10 DEF IsInjective
  <2>12. QED BY <2>7, <2>9, <2>11 DEF h, m
<1>18. ASSUME NEW h \in Heads, NEW k \in Heads
       PROVE  E(gr', h, k) <=> h # k /\ \E n, c \in Nodes : idx[n] = h /\ idx[c] = k /\ E(gr, n, c)
  <2>1. E(gr', h, k) <=> h # k /\ \E n \in Members(h) : \E c \in Members(k) : E(gr, n, c)
    BY <1>1, LinksDone DEF E
  <2>2. \A n : n \in Members(h) <=> n \in Nodes /\ idx[n] = h
    BY <1>9, <1>11
  <2>3. \A n : n \in Members(k) <=> n \in Nodes /\ idx[n] = k
    BY <1>9, <1>11
  <2>4. QED BY <2>1, <2>2, <2>3
<1>19. Cut(gr, gr', idx, pos, head)
  BY <1>2, <1>3, <1>4, <1>5, <1>10, <1>13, <1>14, <1>15, <1>16, <1>17, <1>18 DEF Cut
<1>20. QED BY <1>19

\* When there are as many intervals as nodes each is a header alone, and what
\* could not join an interval is entered from two others.
LEMMA NothingJoined ==
    ASSUME Inv, Return, Connected(gr), NoSelfLink(gr), currH = count(gr)
    PROVE  \A m \in NodesOf(gr) \ {gr.root} : \A f \in NodesOf(gr) : E(gr, f, m) =>
               \E e \in NodesOf(gr) : e # f /\ E(gr, e, m)
<1>1. pc = "link"
  BY DEF Return
<1>2. /\ IsRooted(gr) /\ Shape /\ Computed /\ HeadersOwn /\ Maximal
      /\ currH = Len(headers) /\ headers \in Seq(Nodes) /\ IsInjective(headers)
  BY <1>1, LinkFacts DEF Computed, Shape
<1>3. NodesOf(gr) = Nodes /\ Cardinality(NodesOf(gr)) = count(gr)
      /\ \A n : Fathers(gr, n) \subseteq Nodes
  BY <1>2, GrFacts, GraphFacts DEF count
<1>4. \A n \in Nodes : \E h \in Heads : headers[h] = n
  <2>1. Cardinality(Range(headers)) = Cardinality(Nodes) /\ Range(headers) \subseteq Nodes
    BY <1>2, <1>3, RangeCount, RangeFacts
  <2>2. IsFiniteSet(Nodes)
    BY <1>2, <1>3, GraphFacts, NodesFinite
  <2>3. Range(headers) = Nodes
    BY <2>1, <2>2, FS_Subset
  <2>4. QED BY <1>2, <2>3, RangeFacts DEF Heads
<1>5. SUFFICES ASSUME NEW m \in Nodes, m # gr.root, NEW f \in Nodes, E(gr, f, m),
                      \A e \in Nodes : E(gr, e, m) => e = f
               PROVE  FALSE
  BY <1>3
<1>6. PICK h \in Heads : headers[h] = f
  BY <1>4
<1>7. PICK k \in Heads : headers[k] = m
  BY <1>4
<1>8. f \in Members(h) /\ k \in 1..Len(headers)
  BY <1>2, <1>6, ShapeFacts
<1>9. Fathers(gr, m) = {f}
  BY <1>3, <1>5 DEF Fathers
<1>10. MayJoin(m, h) /\ Scanned(m, h)
  BY <1>1, <1>5, <1>8, <1>9 DEF MayJoin, Scanned
<1>11. m \in Members(h)
  BY <1>2, <1>10 DEF Maximal
<1>12. k = h
  BY <1>2, <1>7, <1>8, <1>11 DEF HeadersOwn
<1>13. m = f
  BY <1>6, <1>7, <1>12
<1>14. QED BY <1>3, <1>5, <1>13 DEF NoSelfLink

LEMMA SingleNode ==
    ASSUME NEW g, IsRooted(g), Connected(g), NoSelfLink(g),
           \A m \in NodesOf(g) \ {g.root} : \A f \in NodesOf(g) : E(g, f, m) =>
               \E e \in NodesOf(g) : e # f /\ E(g, e, m)
    PROVE  Len(g.children) = 1 <=> Reducible(g)
<1>1. /\ NodesOf(g) = 1..Len(g.children) /\ Len(g.children) \in Nat /\ g.root \in NodesOf(g)
  BY GraphFacts
<1>2. Len(g.children) = 1 <=> NodesOf(g) = {g.root}
  <2> DEFINE n == Len(g.children)
  <2>1. ASSUME n = 1 PROVE NodesOf(g) = {g.root}
    BY <1>1, <2>1
  <2>2. ASSUME NodesOf(g) = {g.root} PROVE n = 1
    <3>1. n \in NodesOf(g) /\ 1 \in NodesOf(g)
      BY <1>1
    <3>2. QED BY <2>2, <3>1
  <2>3. QED BY <2>1, <2>2
<1>3. ASSUME NodesOf(g) = {g.root} PROVE Reducible(g)
  <2>1. \A n \in NodesOf(g) : \A c : ~FE(g, n, c)
    <3>1. \A n \in NodesOf(g) : \A c : FE(g, n, c) => c \in NodesOf(g) /\ n # c
      BY OnwardFacts
    <3>2. QED BY <1>3, <3>1
  <2>2. QED BY <2>1, ReducibleIs
<1>4. NodesOf(g) # {g.root} => ~Reducible(g)
  BY TwoFathersIrreducible
<1>5. QED BY <1>2, <1>3, <1>4

LEMMA ReturnKeepsLimit == Inv /\ LimitInv /\ Return => LimitInv'
<1> SUFFICES ASSUME Inv, LimitInv, Return PROVE LimitInv'
  OBVIOUS
<1>1. /\ pc = "link" /\ pc' = "main" /\ gr'.children = reduced
      /\ UNCHANGED <<input, optionRec, lastN>>
  BY DEF Return, reading
<1>2. /\ Inside /\ IsRooted(gr) /\ Shape /\ Len(reduced) = currH /\ lastN = count(gr)
      /\ reduced \in Seq(Seq(Heads)) /\ currH \in Nat
  BY <1>1, LinkFacts DEF LimitInv
<1>3. Supposed' <=> Supposed
  BY <1>1 DEF Supposed
<1>4. ASSUME Supposed
      PROVE  Connected(gr') /\ NoSelfLink(gr') /\ (Reducible(gr) <=> Reducible(gr'))
  <2>1. Connected(gr) /\ NoSelfLink(gr)
    BY <1>4 DEF LimitInv, Kept
  <2>2. PICK idx, pos, head : Cut(gr, gr', idx, pos, head)
    BY <2>1, ReturnCuts
  <2>3. Reducible(gr) <=> Reducible(gr')
    BY <2>2, CutReducible
  <2>4. NoSelfLink(gr')
    <3>1. NodesOf(gr') = Heads
      BY <1>1, <1>2, LenProperties DEF NodesOf, Heads
    <3>2. \A h \in Heads : h \notin Range(reduced[h])
      BY LinksDone
    <3>3. QED BY <1>1, <3>1, <3>2 DEF NoSelfLink, E
  <2>5. QED BY <2>3, <2>4, ReducedConnected
<1>5. Kept'
  <2>1. ASSUME Supposed
        PROVE  Connected(gr') /\ NoSelfLink(gr') /\ (Reducible(gr') <=> Reducible(input'))
    <3>1. Reducible(gr) <=> Reducible(input)
      BY <2>1 DEF LimitInv, Kept
    <3>2. QED BY <1>1, <1>4, <2>1, <3>1
  <2>2. QED BY <1>3, <2>1 DEF Kept
<1>6. Settled'
  <2>1. count(gr)' = currH
    BY <1>1, <1>2 DEF count
  <2>2. ASSUME Supposed, lastN' = count(gr)' PROVE count(gr)' = 1 <=> Reducible(gr')
    <3>1. Connected(gr) /\ NoSelfLink(gr) /\ currH = count(gr)
      BY <1>1, <1>2, <2>1, <2>2 DEF LimitInv, Kept
    <3>2. count(gr) = 1 <=> Reducible(gr)
      BY <1>2, <3>1, NothingJoined, SingleNode DEF count
    <3>3. QED BY <1>4, <2>1, <2>2, <3>1, <3>2
  <2>3. QED BY <1>3, <2>2 DEF Settled
<1>7. ~Inside' /\ pc' # "end"
  BY <1>1 DEF Inside
<1>8. QED BY <1>5, <1>6, <1>7 DEF LimitInv

LEMMA OthersKeepLimit == Inv /\ LimitInv /\ [Next]_vars /\ ~Return => LimitInv'
<1> SUFFICES ASSUME Inv, LimitInv, [Next]_vars, ~Return PROVE LimitInv'
  OBVIOUS
<1>1. /\ UNCHANGED <<input, optionRec, gr>>
      /\ \/ Inside /\ Inside' /\ lastN' = lastN
         \/ Inside' /\ lastN' = count(gr)
         \/ Stop
         \/ pc' = pc /\ lastN' = lastN
  <2>1. CASE Reduce
    BY <2>1 DEF Reduce, Inside
  <2>2. CASE Visit \/ Rescan
    BY <2>2 DEF Visit, Rescan, Inside, reading, linking
  <2>3. CASE EndScan \/ Enter \/ EndInterval
    BY <2>3 DEF EndScan, Enter, EndInterval, Inside, reading, linking
  <2>4. CASE Link \/ NextChild \/ NextMember \/ NextInterval
    BY <2>4 DEF Link, NextChild, NextMember, NextInterval, Inside, reading
  <2>5. CASE Stop
    BY <2>5 DEF Stop, reading
  <2>6. CASE Done \/ UNCHANGED vars
    BY <2>6 DEF Done, vars, reading
  <2>7. QED BY <2>1, <2>2, <2>3, <2>4, <2>5, <2>6 DEF Next, Step
<1>2. count(gr') = count(gr) /\ (Supposed' <=> Supposed)
  BY <1>1 DEF Supposed
<1>3. Kept'
  BY <1>1, <1>2 DEF LimitInv, Kept
<1>4. CASE Inside' /\ lastN' = count(gr)
  <2>1. Settled' /\ pc' # "end" /\ lastN' = count(gr')
    BY <1>2, <1>4 DEF Settled, Inside
  <2>2. QED BY <1>3, <2>1 DEF LimitInv
<1>5. CASE Inside /\ Inside' /\ lastN' = lastN
  BY <1>4, <1>5 DEF LimitInv
<1>6. CASE Stop
  <2>1. /\ pc = "main" /\ pc' = "end" /\ lastN' = lastN
        /\ lastN # 0 /\ (optionRec => lastN = count(gr))
    BY <1>6 DEF Stop, Again, reading
  <2>2. ~Inside /\ ~Inside'
    BY <2>1 DEF Inside
  <2>3. Settled'
    BY <1>1, <1>2, <2>1, <2>2 DEF LimitInv, Settled
  <2>4. QED BY <1>1, <1>2, <1>3, <2>1, <2>2, <2>3 DEF LimitInv
<1>7. CASE pc' = pc /\ lastN' = lastN
  <2>1. Inside' <=> Inside
    BY <1>7 DEF Inside
  <2>2. Settled'
    BY <1>1, <1>2, <1>7, <2>1 DEF LimitInv, Settled
  <2>3. QED BY <1>1, <1>2, <1>3, <1>7, <2>1, <2>2 DEF LimitInv
<1>8. QED BY <1>1, <1>4, <1>5, <1>6, <1>7

\* With -R a connected graph without links from a node to itself is reduced to
\* a single node exactly when every cycle of it has a link to a dominator of
\* where it starts, however many reductions that takes (graphBinAlgo.c:279-309).
THEOREM ReducibleLimit == Spec => []LimitIffReducible
<1>1. Init => LimitInv
  <2> SUFFICES ASSUME Init PROVE LimitInv
    OBVIOUS
  <2>1. pc = "main" /\ gr = input /\ lastN = 0 /\ input \in Inputs
    BY DEF Init
  <2>2. count(gr) # 0
    <3>1. IsRooted(gr)
      BY <2>1, IntervalsAssumption
    <3>2. NodesOf(gr) = 1..Len(gr.children) /\ gr.root \in NodesOf(gr)
      BY <3>1, GraphFacts
    <3>3. QED BY <3>2 DEF count
  <2>3. Kept
    BY <2>1 DEF Kept, Supposed
  <2>4. QED BY <2>1, <2>2, <2>3 DEF LimitInv, Settled, Inside
<1>2. Inv /\ LimitInv /\ [Next]_vars => LimitInv'
  BY ReturnKeepsLimit, OthersKeepLimit
<1>3. LimitInv => LimitIffReducible
  BY DEF LimitInv, Kept, Settled, Supposed, LimitIffReducible, Inside
<1>4. QED BY <1>1, <1>2, <1>3, Invariance, PTL DEF Spec
=============================================================================
