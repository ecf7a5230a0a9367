-------------------------- MODULE Dot2Edg_proofs ---------------------------
(***************************************************************************)
(* Proofs about Dot2Edg: the grammar with node_list_add, graph_to_file,    *)
(* graph_from_file and getGraphFromFile, for every text, every graph and   *)
(* every place where realloc may move the array or the writer may be       *)
(* stopped.  The invariant says, for each position that a program has      *)
(* reached in its text or its file, what it has in memory; the properties  *)
(* are what it says at the end.                                            *)
(***************************************************************************)
EXTENDS Dot2Edg, DataLemmas

-----------------------------------------------------------------------------
(***************************************************************************)
(* The strengthened invariant: first what the grammar has built.           *)
(***************************************************************************)
Pointers == [at : Nat, times : Nat]
ListNodes == [node_id : Nat, symb : Int, children : Seq(Pointers), fathers : Seq(Pointers)]

DotTypes ==
    /\ text \in Seq(Dot2Graph!Statements)
    /\ dotPos \in 1..(Len(text) + 1) /\ dotPc \in {"nodes", "edges", "done", "exit"}
    /\ storage \in Seq(ListNodes) /\ moved \in 0..Len(storage)

\* The dictionary holds one pointer for each node of the array, and no two
\* nodes have a number in common; after fixDict no pointer is old.
DictInv ==
    /\ \A p \in nodes_dict : /\ p \in Nat \X Pointers /\ p[2].at \in 1..Len(storage)
                             /\ p[1] = storage[p[2].at].node_id
    /\ \A i \in 1..Len(storage) : \E p \in nodes_dict : p[2].at = i
    /\ \A p, q \in nodes_dict : p[1] = q[1] => p = q
    /\ dotPc \in {"edges", "done"} => \A p \in nodes_dict : p[2].times = moved

RootInv == /\ (dotRoot = Dot2Graph!NULL) <=> (storage = <<>>)
           /\ dotRoot # Dot2Graph!NULL => dotRoot.node_id = storage[1].node_id

\* Which statements have been read as nodes, and what was made of them.
WasRead(k) == dotPc = "nodes" => k < dotPos
NodesNamed(t, id) == {k \in DOMAIN t : t[k].kind = "node" /\ hash[t[k].name] = id}
FirstNamed(t, id) == Dot2Graph!FirstOf(NodesNamed(t, id))

NodesInv ==
    dotPc # "exit" =>
        /\ \A k \in DOMAIN text : WasRead(k) => text[k] # Error
        /\ dotPc = "nodes" => \A k \in DOMAIN text : WasRead(k) => text[k].kind = "node"
        /\ \A k \in DOMAIN text :
              text[k].kind = "node" /\ WasRead(k) =>
                  \E i \in 1..Len(storage) : storage[i].node_id = hash[text[k].name]
        /\ \A i \in 1..Len(storage) :
              LET k == FirstNamed(text, storage[i].node_id)
              IN  /\ k \in NodesNamed(text, storage[i].node_id) /\ WasRead(k)
                  /\ storage[i].symb = Dot2Graph!SymbolOf(text[k].options)
        /\ \A i, j \in 1..Len(storage) :
              i < j => FirstNamed(text, storage[i].node_id) < FirstNamed(text, storage[j].node_id)

\* The edges that node id has as a father, before position p.
HasBothNodes(t, e) == NodesNamed(t, hash[e.father]) # {} /\ NodesNamed(t, hash[e.child]) # {}
EdgesBefore(t, id, p) ==
    {k \in DOMAIN t : /\ k < p /\ t[k].kind = "edge" /\ hash[t[k].father] = id
                      /\ HasBothNodes(t, t[k])}

PointsTo(p, id) == p.at \in 1..Len(storage) /\ p.times = moved /\ storage[p.at].node_id = id

ChildrenSoFar(i) ==
    LET edges == EdgesBefore(text, storage[i].node_id, dotPos)
    IN  /\ Len(storage[i].children) = Cardinality(edges)
        /\ \A m \in 1..Cardinality(edges) :
              PointsTo(storage[i].children[m], hash[text[Nth(edges, m)].child])

HowOften(pointers, i) == Cardinality({m \in DOMAIN pointers : pointers[m].at = i})

EdgesInv ==
    /\ dotPc \in {"nodes", "exit"} =>
          \A i \in 1..Len(storage) : storage[i].children = <<>> /\ storage[i].fathers = <<>>
    /\ dotPc \in {"edges", "done"} =>
          /\ \A k \in DOMAIN text : k >= dotPos => text[k].kind = "edge"
          /\ \A i \in 1..Len(storage) :
                /\ ChildrenSoFar(i)
                /\ \A m \in DOMAIN storage[i].fathers :
                      /\ storage[i].fathers[m].at \in 1..Len(storage)
                      /\ storage[i].fathers[m].times = moved
          /\ \A i, j \in 1..Len(storage) :
                HowOften(storage[i].children, j) = HowOften(storage[j].fathers, i)
    /\ dotPc = "done" => dotPos > Len(text)

DotInv == DotTypes /\ DictInv /\ RootInv /\ NodesInv /\ EdgesInv

\* A text of which a node was read starts with one.
FirstIsNode == storage # <<>> => text[1].kind = "node"

-----------------------------------------------------------------------------
(***************************************************************************)
(* Then what is in the file, and what a reader has of it.                  *)
(***************************************************************************)
IsReadable(g) == LinksInside(g) /\ g.root \in NodesOf(g) \cup {0}

ValuesOf(g) == {0, Len(Kept(g)), g.root} \cup (NodesOf(g) \X NodesOf(g)) \cup Texts
               \cup {Node(n, g.symb[n]) : n \in NodesOf(g)}
Tags == {"GRAPHBIN", "count", "n", "e", "r", "text"}
ItemsOf(g) == [tag : Tags, value : ValuesOf(g), cut : BOOLEAN]

\* The n-th item is as it was written, or the writer was stopped in it.
IsWritten(n) ==
    \/ file[n] = Written(graph)[n]
    \/ /\ n = Len(file) /\ ~whole /\ pc # "write"
       /\ file[n] = [Written(graph)[n] EXCEPT !.cut = TRUE]

GraphInFile ==
    /\ Len(file) <= Len(Written(graph)) /\ (whole => Len(file) = Len(Written(graph)))
    /\ \A n \in 1..Len(file) : IsWritten(n)

NothingRead == nodes = <<>> /\ links = <<>> /\ root = 0

TextInFile ==
    /\ \E t \in Texts : file = <<Item("text", t)>>
    /\ pos = 1 /\ NothingRead
    /\ pc \in {"magic", "broken", "get", "parse", "done", "exit", "overflow"}

FileInv ==
    /\ IsReadable(graph) /\ file \in Seq(ItemsOf(graph)) /\ whole \in BOOLEAN
    /\ GraphInFile \/ TextInFile
    /\ pc \in {"dot", "write"} => Unread /\ ~whole
    /\ pc = "dot" => file = <<>>

\* Nodes that a reader can have: what was written, empty ones and mixtures.
NodesOfReader(g) == [id : NodesOf(g) \cup {0, Mixed},
                     symb : {g.symb[n] : n \in NodesOf(g)} \cup {0, Mixed}]

ReaderTypes ==
    /\ pc \in {"dot", "write", "magic", "count", "record", "broken", "get", "parse",
               "done", "exit", "overflow"}
    /\ pos \in 1..(Len(file) + 1) /\ depth \in 1..MaxDepth
    /\ node \in NodesOfReader(graph) /\ nodes \in Seq(NodesOfReader(graph))
    /\ size \in Nat /\ Len(nodes) <= size
    /\ links \in Seq((1..Len(nodes)) \X (1..Len(nodes)))
    /\ root \in 0..Len(nodes)

\* Where the reader is.
ReaderPlace ==
    /\ pc = "magic" => pos \in {1, 2}
    /\ pc \in {"get", "parse"} => pos = 1
    /\ pc = "parse" => Len(file) <= 1
    /\ pc = "count" => pos = 2 \/ (pos = 1 /\ file = <<>>)
    /\ pc = "record" => Len(file) >= 2
    /\ pc = "done" /\ Len(file) >= 2 => pos > Len(file)
    /\ Len(file) <= 1 => NothingRead

Least(m, n) == IF m <= n THEN m ELSE n

\* What has been read before pos: node m as it was written, unless it is the
\* last of the file and cut; the links between the nodes of these numbers; the
\* root when there is no more.
NodeAsWritten(m) == nodes[m] = Node(Kept(graph)[m], graph.symb[Kept(graph)[m]])
LinkAsWritten(m) == /\ nodes[links[m][1]].id = LinksOf(graph)[m][1]
                    /\ nodes[links[m][2]].id = LinksOf(graph)[m][2]
ReadSoFar ==
    LET k == Len(Kept(graph))
        l == Len(LinksOf(graph))
    IN  /\ pos >= 3 /\ size = k /\ Len(nodes) = Least(pos - 3, k)
        /\ \A m \in 1..Len(nodes) : NodeAsWritten(m) \/ (m + 2 = Len(file) /\ pos > Len(file) /\ ~whole)
        /\ Len(links) = IF pos <= k + 3 THEN 0 ELSE Least(pos - (k + 3), l)
        /\ \A m \in 1..Len(links) : LinkAsWritten(m)
        /\ root = IF pos > k + l + 3 THEN Find(graph.root) ELSE 0

ReaderInv ==
    /\ ReaderTypes /\ ReaderPlace
    /\ pc \in {"record", "done"} /\ Len(file) >= 2 => ReadSoFar

ConverterInv ==
    /\ pc # "dot" => dotPc = "done"
    /\ pc # "dot" /\ text # <<>> => graph = InMemory /\ GraphInFile

Inv == DotInv /\ FirstIsNode /\ FileInv /\ ReaderInv /\ ConverterInv

-----------------------------------------------------------------------------
(***************************************************************************)
(* What is written of a graph.                                             *)
(***************************************************************************)
KeptSet(g) == {n \in NodesOf(g) : g.children[n] # <<>> \/ Fathers(g, n) # {}}

\* The nodes with a link are written once each, in their order.
LEMMA KeptFacts ==
    ASSUME NEW g, LinksInside(g)
    PROVE  /\ NodesOf(g) = 1..Len(g.children) /\ Len(g.children) \in Nat
           /\ Kept(g) \in Seq(NodesOf(g)) /\ Len(Kept(g)) \in Nat
           /\ nNonOrphanNode(g) = Len(Kept(g))
           /\ \A m \in 1..Len(Kept(g)) : Kept(g)[m] \in KeptSet(g)
           /\ \A n \in KeptSet(g) : \E m \in 1..Len(Kept(g)) : Kept(g)[m] = n
           /\ \A m, n \in 1..Len(Kept(g)) : m < n => Kept(g)[m] < Kept(g)[n]
<1> DEFINE N == NodesOf(g)
           all == AllNodes(g)
           I == KeptSet(g)
           c == Cardinality(I)
<1>1. N = 1..Len(g.children) /\ Len(g.children) \in Nat
  BY LenProperties DEF LinksInside, NodesOf
<1>2. I \subseteq N
  BY DEF KeptSet
<1>3. all \in Seq(N) /\ Len(all) = Len(g.children) /\ \A n \in N : all[n] = n
  <2>1. all = [n \in N |-> n]
    BY DEF AllNodes
  <2>2. DOMAIN all = 1..Len(g.children) /\ \A n \in N : all[n] = n
    BY <1>1, <2>1
  <2>3. all \in Seq(N)
    <3> DEFINE b == Len(g.children)
    <3>1. all \in [1..b -> N] /\ b \in Nat
      BY <1>1, <2>1
    <3> HIDE DEF all, N, b
    <3>2. QED BY <3>1
  <2>4. Len(all) = Len(g.children)
    <3> DEFINE b == Len(g.children)
    <3>1. all \in Seq(N) /\ b \in Nat /\ DOMAIN all = 1..b
      BY <1>1, <2>2, <2>3
    <3> HIDE DEF all, N, b
    <3>2. Len(all) = b
      BY <3>1, LenProperties
    <3>3. QED BY <3>2 DEF b
  <2>5. QED BY <2>2, <2>3, <2>4
<1>4. Kept(g) = ElementsAt(all, I)
  BY DEF Kept, KeptSet
<1>5. nNonOrphanNode(g) = c
  BY DEF nNonOrphanNode, NotOrphan, KeptSet
<1> HIDE DEF all, I, N, c
<1>6. I \subseteq 1..Len(all)
  BY <1>1, <1>2, <1>3
<1>7. /\ IsFiniteSet(I) /\ I \subseteq Nat /\ c \in Nat
      /\ ElementsAt(all, I) \in Seq(N) /\ Len(ElementsAt(all, I)) = c
      /\ \A m \in 1..c : ElementsAt(all, I)[m] = all[Nth(I, m)]
  <2>1. all \in Seq(N) /\ I \subseteq 1..Len(all)
    BY <1>3, <1>6
  <2>2. /\ IsFiniteSet(I) /\ I \subseteq Nat /\ Cardinality(I) \in Nat
        /\ ElementsAt(all, I) \in Seq(N) /\ Len(ElementsAt(all, I)) = Cardinality(I)
        /\ \A m \in 1..Cardinality(I) : ElementsAt(all, I)[m] = all[Nth(I, m)]
    BY <2>1, ElementsFacts
  <2>3. QED BY <2>2 DEF c
<1>8. /\ \A m \in 1..c : Nth(I, m) \in I
      /\ \A i \in I : Nth(I, RankIn(I, i)) = i
      /\ \A m, n \in 1..c : m < n => Nth(I, m) < Nth(I, n)
      /\ \A i \in I : RankIn(I, i) \in 1..c
  BY <1>7, NthFacts, RankFacts DEF c
<1>9. \A m \in 1..c : Kept(g)[m] = Nth(I, m)
  BY <1>2, <1>3, <1>4, <1>7, <1>8
<1>10. Kept(g) \in Seq(N) /\ Len(Kept(g)) = c
  BY <1>4, <1>7
<1>11. \A m \in 1..c : Kept(g)[m] \in I
  BY <1>8, <1>9
<1>12. \A n \in I : \E m \in 1..c : Kept(g)[m] = n
  BY <1>8, <1>9
<1>13. \A m, n \in 1..c : m < n => Kept(g)[m] < Kept(g)[n]
  BY <1>8, <1>9
<1>14. QED BY <1>1, <1>5, <1>7, <1>10, <1>11, <1>12, <1>13 DEF N, I

\* The links of node n follow each other, behind those of the nodes before.
LinksFrom(g, n) == {p \in 1..Len(LinksOf(g)) : LinksOf(g)[p][1] = n}
LinksStartAt(g, n, a) ==
    /\ LinksFrom(g, n) = (a + 1)..(a + Len(g.children[n]))
    /\ \A m \in 1..Len(g.children[n]) : LinksOf(g)[a + m] = <<n, g.children[n][m]>>

\* Links are between nodes that are written, and each node's are one block.
LEMMA LinksFacts ==
    ASSUME NEW g, LinksInside(g)
    PROVE  /\ LinksOf(g) \in Seq(NodesOf(g) \X NodesOf(g)) /\ Len(LinksOf(g)) \in Nat
           /\ \A p \in 1..Len(LinksOf(g)) : \A e \in {1, 2} : LinksOf(g)[p][e] \in KeptSet(g)
           /\ \A n \in NodesOf(g) : \E a \in Nat : LinksStartAt(g, n, a)
<1> DEFINE N == NodesOf(g)
           NN == N \X N
           kids(n) == g.children[n]
           mine(n) == [k \in DOMAIN kids(n) |-> <<n, kids(n)[k]>>]
           seqs == [n \in N |-> mine(n)]
           all == LinksOf(g)
<1>1. N = 1..Len(g.children) /\ Len(g.children) \in Nat
  BY KeptFacts
<1>2. ASSUME NEW n \in N
      PROVE  /\ kids(n) \in Seq(N) /\ Len(kids(n)) \in Nat /\ mine(n) \in Seq(NN)
             /\ Len(mine(n)) = Len(kids(n))
             /\ \A k \in 1..Len(kids(n)) : mine(n)[k] = <<n, kids(n)[k]>> /\ kids(n)[k] \in N
  <2> DEFINE c == kids(n)
             b == Len(c)
  <2>1. c \in Seq(N)
    <3>1. g.children \in Seq(Seq(N))
      BY DEF LinksInside
    <3> DEFINE S == Seq(N)
    <3> HIDE DEF S
    <3>2. QED BY <1>1, <3>1, ElementOfSeq DEF S
  <2> HIDE DEF c
  <2>2. b \in Nat /\ DOMAIN c = 1..b /\ \A k \in 1..b : c[k] \in N
    BY <2>1, ElementOfSeq, LenProperties
  <2> DEFINE e == [k \in DOMAIN c |-> <<n, c[k]>>]
  <2> HIDE DEF b
  <2>3. e \in [1..b -> NN] /\ \A k \in 1..b : e[k] = <<n, c[k]>>
    BY <2>2
  <2> HIDE DEF e, NN
  <2>4. e \in Seq(NN) /\ Len(e) = b
    BY <2>2, <2>3
  <2>5. QED BY <2>1, <2>2, <2>3, <2>4 DEF b, c, e
<1>3. seqs \in Seq(Seq(NN)) /\ Len(seqs) = Len(g.children) /\ \A n \in N : seqs[n] = mine(n)
  <2> DEFINE S == Seq(NN)
             b == Len(g.children)
  <2>1. \A n \in N : mine(n) \in S
    BY <1>2
  <2> HIDE DEF mine, S, NN, b
  <2>2. seqs \in [1..b -> S] /\ b \in Nat /\ \A n \in N : seqs[n] = mine(n)
    BY <1>1, <2>1 DEF b
  <2> HIDE DEF seqs
  <2>3. seqs \in Seq(S) /\ Len(seqs) = b
    BY <2>2
  <2>4. QED BY <2>2, <2>3 DEF S, b
<1>4. all = FlattenSeq(seqs)
  BY DEF LinksOf
<1>5. PICK r : Flattens(r, seqs, NN)
  <2> HIDE DEF seqs, NN
  <2>1. QED BY <1>3, FlattenTrace
<1> DEFINE b == Len(g.children)
           at(n) == Len(r[n - 1])
           len(n) == Len(kids(n))
<1>6. /\ all \in Seq(NN)
      /\ \A n \in 0..b : Len(r[n]) \in Nat /\ StartsWith(all, r[n])
      /\ \A n \in 1..b : /\ Len(seqs[n]) \in Nat /\ Len(r[n]) = at(n) + Len(seqs[n])
                         /\ \A k \in 1..Len(seqs[n]) : all[at(n) + k] = seqs[n][k]
      /\ \A p \in 1..Len(all) : \E n \in 1..b : \E k \in 1..Len(seqs[n]) : p = at(n) + k
  <2> DEFINE flat == FlattenSeq(seqs)
             S == Seq(NN)
  <2>1. seqs \in Seq(S) /\ Flattens(r, seqs, NN)
    BY <1>3, <1>5
  <2> HIDE DEF seqs, NN, all
  <2>2. flat \in Seq(NN) /\ HasBlocks(flat, r, seqs)
    BY <2>1, FlattenBlocks
  <2>3. /\ \A k \in 0..Len(seqs) : Len(r[k]) \in Nat /\ StartsWith(flat, r[k])
        /\ \A k \in 1..Len(seqs) :
              /\ Len(seqs[k]) \in Nat /\ Len(r[k]) = Len(r[k - 1]) + Len(seqs[k])
              /\ \A m \in 1..Len(seqs[k]) : flat[Len(r[k - 1]) + m] = seqs[k][m]
        /\ \A p \in 1..Len(flat) :
              \E k \in 1..Len(seqs) : \E m \in 1..Len(seqs[k]) : p = Len(r[k - 1]) + m
    BY <2>2 DEF HasBlocks
  <2>4. Len(seqs) = b /\ all = flat
    BY <1>3, <1>4
  <2> HIDE DEF flat, b
  <2>5. QED BY <2>2, <2>3, <2>4
<1>7. ASSUME NEW n \in N
      PROVE  /\ seqs[n] = mine(n) /\ Len(seqs[n]) = len(n) /\ len(n) \in Nat
             /\ at(n) \in Nat /\ at(n) + len(n) <= Len(all)
             /\ \A k \in 1..len(n) : all[at(n) + k] = <<n, kids(n)[k]>>
  <2>1. seqs[n] = mine(n) /\ Len(seqs[n]) = len(n) /\ len(n) \in Nat
    BY <1>2, <1>3
  <2>2. n \in 0..b /\ n - 1 \in 0..b
    BY <1>1
  <2> HIDE DEF mine, seqs, all
  <2>3. at(n) \in Nat /\ Len(r[n]) = at(n) + len(n) /\ Len(r[n]) <= Len(all)
    BY <1>1, <1>6, <2>1, <2>2 DEF StartsWith
  <2>4. at(n) + len(n) <= Len(all)
    BY <2>3
  <2>5. \A k \in 1..len(n) : all[at(n) + k] = seqs[n][k]
    BY <1>1, <1>6, <2>1
  <2>6. \A k \in 1..len(n) : seqs[n][k] = <<n, kids(n)[k]>>
    BY <1>2, <2>1 DEF mine
  <2>7. QED BY <2>1, <2>3, <2>4, <2>5, <2>6
<1>8. ASSUME NEW p \in 1..Len(all) PROVE \E n \in N : \E k \in 1..len(n) : p = at(n) + k
  <2>1. N = 1..b /\ \A n \in N : Len(seqs[n]) = len(n)
    BY <1>1, <1>7
  <2> HIDE DEF N, b, seqs, len, all
  <2>2. PICK n \in 1..b : \E k \in 1..Len(seqs[n]) : p = at(n) + k
    BY <1>6
  <2>3. n \in N /\ Len(seqs[n]) = len(n)
    BY <2>1
  <2>4. QED BY <2>2, <2>3
<1> HIDE DEF seqs, mine, all
<1>9. ASSUME NEW p \in 1..Len(all)
      PROVE  \E n \in N : \E k \in 1..len(n) : p = at(n) + k /\ all[p] = <<n, kids(n)[k]>>
  BY <1>7, <1>8
<1>10. ASSUME NEW p \in 1..Len(all) PROVE all[p][1] \in KeptSet(g) /\ all[p][2] \in KeptSet(g)
  <2>0. PICK n \in N : \E k \in 1..len(n) : all[p] = <<n, kids(n)[k]>>
    BY <1>9
  <2>1. PICK k \in 1..len(n) : all[p] = <<n, kids(n)[k]>>
    BY <2>0
  <2>2. kids(n) \in Seq(N) /\ Len(kids(n)) \in Nat /\ kids(n)[k] \in N
    BY <1>2
  <2>3. kids(n) # <<>>
    <3>1. len(n) # 0
      BY <2>2
    <3>2. QED BY <3>1
  <2>4. n \in Fathers(g, kids(n)[k])
    <3>1. DOMAIN kids(n) = 1..len(n)
      BY <2>2, LenProperties
    <3>2. kids(n)[k] \in Range(kids(n))
      BY <3>1 DEF Range
    <3>3. QED BY <2>2, <3>2 DEF Fathers, E
  <2>5. QED BY <2>1, <2>2, <2>3, <2>4 DEF KeptSet
<1>11. ASSUME NEW n \in N PROVE LinksStartAt(g, n, at(n)) /\ at(n) \in Nat
  <2> DEFINE a == at(n)
             l == len(n)
             c == Len(all)
  <2>0. a \in Nat /\ l \in Nat /\ c \in Nat /\ a + l <= c
    <3>1. c \in Nat
      BY <1>6, LenProperties
    <3>2. QED BY <1>7, <3>1
  <2>1. ASSUME NEW p \in (a + 1)..(a + l) PROVE p \in 1..c /\ all[p][1] = n
    <3> DEFINE k == p - a
    <3> HIDE DEF a, l, c
    <3>1. p \in 1..c /\ k \in 1..l /\ p = a + k
      BY <2>0, <2>1
    <3> HIDE DEF k
    <3>2. all[p] = <<n, kids(n)[k]>>
      BY <1>7, <3>1 DEF a, l
    <3>3. QED BY <3>1, <3>2
  <2>2. ASSUME NEW p \in 1..c, all[p][1] = n PROVE p \in (a + 1)..(a + l)
    <3>0. PICK m \in N : \E k \in 1..len(m) : p = at(m) + k /\ all[p] = <<m, kids(m)[k]>>
      BY <1>9
    <3>1. PICK k \in 1..len(m) : p = at(m) + k /\ all[p] = <<m, kids(m)[k]>>
      BY <3>0
    <3>2. m = n
      BY <2>2, <3>1
    <3>3. p = a + k /\ k \in 1..l
      BY <3>1, <3>2
    <3> HIDE DEF a, l, c
    <3>4. QED BY <2>0, <3>3
  <2>3. LinksFrom(g, n) = (a + 1)..(a + l)
    <3> HIDE DEF a, l
    <3>1. QED BY <2>1, <2>2 DEF LinksFrom, all
  <2>4. QED BY <1>7, <2>3 DEF LinksStartAt, all
<1>12. QED BY <1>6, <1>10, <1>11, LenProperties DEF all

Ends(g) == 3 + Len(Kept(g)) + Len(LinksOf(g))

\* Items of values of the graph are items of its file.
LEMMA ItemIsOf ==
    ASSUME NEW g
    PROVE  \A v \in ValuesOf(g) :
               /\ Item("GRAPHBIN", v) \in ItemsOf(g) /\ Item("count", v) \in ItemsOf(g)
               /\ Item("n", v) \in ItemsOf(g) /\ Item("e", v) \in ItemsOf(g)
               /\ Item("r", v) \in ItemsOf(g) /\ Item("text", v) \in ItemsOf(g)
BY DEF Item, ItemsOf, Tags

\* What is written, item by item.
LEMMA WrittenFacts ==
    ASSUME NEW g, IsReadable(g)
    PROVE  /\ Written(g) \in Seq(ItemsOf(g)) /\ Len(Kept(g)) \in Nat /\ Len(LinksOf(g)) \in Nat
           /\ Len(Written(g)) = IF RootOf(g) = <<>> THEN Ends(g) - 1 ELSE Ends(g)
           /\ Written(g)[1] = Item("GRAPHBIN", 0)
           /\ Written(g)[2] = Item("count", Len(Kept(g)))
           /\ \A m \in 1..Len(Kept(g)) :
                 Written(g)[2 + m] = Item("n", Node(Kept(g)[m], g.symb[Kept(g)[m]]))
           /\ \A m \in 1..Len(LinksOf(g)) :
                 Written(g)[2 + Len(Kept(g)) + m] = Item("e", LinksOf(g)[m])
           /\ RootOf(g) # <<>> => Written(g)[Ends(g)] = Item("r", g.root)
<1> DEFINE T == ItemsOf(g)
           kept == Kept(g)
           all == LinksOf(g)
           k == Len(kept)
           l == Len(all)
           NN == NodesOf(g) \X NodesOf(g)
           two == <<Item("GRAPHBIN", 0), Item("count", k)>>
           ns == [i \in DOMAIN kept |-> Item("n", Node(kept[i], g.symb[kept[i]]))]
           es == [i \in DOMAIN all |-> Item("e", all[i])]
           rs == RootOf(g)
           W == Written(g)
<1>1. kept \in Seq(NodesOf(g)) /\ k \in Nat /\ nNonOrphanNode(g) = k
  BY KeptFacts DEF IsReadable
<1>2. all \in Seq(NN) /\ l \in Nat
  BY LinksFacts DEF IsReadable
<1>3. W = ((two \o ns) \o es) \o rs
  BY <1>1 DEF Written, Header, Edges
<1>4. two \in Seq(T) /\ Len(two) = 2 /\ two[1] = Item("GRAPHBIN", 0) /\ two[2] = Item("count", k)
  <2> DEFINE a == Item("GRAPHBIN", 0)
             b == Item("count", k)
  <2>1. a \in T /\ b \in T
    <3>1. 0 \in ValuesOf(g) /\ k \in ValuesOf(g)
      BY DEF ValuesOf
    <3> HIDE DEF k
    <3>2. QED BY <3>1, ItemIsOf
  <2>2. two = <<a, b>>
    OBVIOUS
  <2> HIDE DEF a, b, T, two
  <2>3. two \in Seq(T) /\ Len(two) = 2 /\ two[1] = a /\ two[2] = b
    BY <2>1, <2>2
  <2>4. QED BY <2>3 DEF a, b
<1>5. ns \in Seq(T) /\ Len(ns) = k /\ \A m \in 1..k : ns[m] = Item("n", Node(kept[m], g.symb[kept[m]]))
  <2> DEFINE e(m) == Item("n", Node(kept[m], g.symb[kept[m]]))
  <2>1. DOMAIN kept = 1..k /\ \A m \in 1..k : kept[m] \in NodesOf(g)
    BY <1>1, ElementOfSeq, LenProperties
  <2>2. \A m \in 1..k : e(m) \in T
    <3>1. \A m \in 1..k : Node(kept[m], g.symb[kept[m]]) \in ValuesOf(g)
      BY <2>1 DEF ValuesOf
    <3>2. QED BY <3>1, ItemIsOf
  <2> HIDE DEF T, k, kept
  <2>3. ns \in [1..k -> T] /\ \A m \in 1..k : ns[m] = e(m)
    BY <2>1, <2>2
  <2> HIDE DEF ns, e
  <2>4. ns \in Seq(T) /\ Len(ns) = k
    BY <1>1, <2>3
  <2>5. QED BY <2>3, <2>4 DEF e
<1>6. es \in Seq(T) /\ Len(es) = l /\ \A m \in 1..l : es[m] = Item("e", all[m])
  <2> DEFINE e(m) == Item("e", all[m])
  <2>1. DOMAIN all = 1..l /\ \A m \in 1..l : all[m] \in NN
    <3> HIDE DEF NN
    <3>1. QED BY <1>2, ElementOfSeq, LenProperties
  <2>2. \A m \in 1..l : e(m) \in T
    <3>1. \A m \in 1..l : all[m] \in ValuesOf(g)
      BY <2>1 DEF ValuesOf
    <3>2. QED BY <3>1, ItemIsOf
  <2> HIDE DEF T, l, all
  <2>3. es \in [1..l -> T] /\ \A m \in 1..l : es[m] = e(m)
    BY <2>1, <2>2
  <2> HIDE DEF es, e
  <2>4. es \in Seq(T) /\ Len(es) = l
    BY <1>2, <2>3
  <2>5. QED BY <2>3, <2>4 DEF e
<1>7. /\ rs \in Seq(T) /\ Len(rs) = IF rs = <<>> THEN 0 ELSE 1
      /\ rs # <<>> => rs[1] = Item("r", g.root)
  <2> DEFINE e == Item("r", g.root)
  <2>1. e \in T
    <3>1. g.root \in ValuesOf(g)
      BY DEF ValuesOf
    <3>2. QED BY <3>1, ItemIsOf
  <2>2. rs = <<>> \/ rs = <<e>>
    BY DEF RootOf
  <2> HIDE DEF rs, e, T
  <2>3. CASE rs = <<>>
    BY <2>3
  <2>4. CASE rs = <<e>>
    <3>1. rs \in Seq(T) /\ Len(rs) = 1 /\ rs[1] = e
      BY <2>1, <2>4
    <3>2. rs # <<>>
      BY <3>1
    <3>3. QED BY <3>1, <3>2 DEF e
  <2>5. QED BY <2>2, <2>3, <2>4
<1> DEFINE q == Len(rs)
<1>8. k + l + 3 = Ends(g) /\ q \in Nat
  BY <1>1, <1>2, <1>7 DEF Ends
<1> HIDE DEF T, kept, all, k, l, NN, two, ns, es, rs, W
<1>9. /\ two \o ns \in Seq(T) /\ Len(two \o ns) = 2 + k
      /\ (two \o ns)[1] = two[1] /\ (two \o ns)[2] = two[2]
      /\ \A m \in 1..k : (two \o ns)[2 + m] = ns[m]
  <2> DEFINE z == two \o ns
  <2>1. z \in Seq(T) /\ Len(z) = 2 + k /\ \A i \in 1..(2 + k) : z[i] = IF i <= 2 THEN two[i] ELSE ns[i - 2]
    <3>1. /\ z \in Seq(T) /\ Len(z) = Len(two) + Len(ns)
          /\ \A i \in 1..(Len(two) + Len(ns)) :
                z[i] = IF i <= Len(two) THEN two[i] ELSE ns[i - Len(two)]
      BY <1>4, <1>5, ConcatProperties
    <3> HIDE DEF z
    <3>2. Len(two) = 2 /\ Len(ns) = k
      BY <1>4, <1>5
    <3>3. QED BY <3>1, <3>2
  <2> HIDE DEF z
  <2>2. z[1] = two[1] /\ z[2] = two[2]
    <3>1. 1 \in 1..(2 + k) /\ 2 \in 1..(2 + k) /\ 1 <= 2 /\ 2 <= 2
      BY <1>1
    <3>2. QED BY <2>1, <3>1
  <2>3. ASSUME NEW m \in 1..k PROVE z[2 + m] = ns[m]
    <3>1. 2 + m \in 1..(2 + k) /\ ~(2 + m <= 2) /\ (2 + m) - 2 = m
      BY <1>1
    <3>2. QED BY <2>1, <3>1
  <2>4. QED BY <2>1, <2>2, <2>3 DEF z
<1> DEFINE h == two \o ns
<1>10. /\ h \o es \in Seq(T) /\ Len(h \o es) = 2 + k + l
       /\ \A m \in 1..(2 + k) : (h \o es)[m] = h[m]
       /\ \A m \in 1..l : (h \o es)[2 + k + m] = es[m]
  <2> DEFINE z == h \o es
             c == 2 + k
  <2>0. c \in Nat /\ h \in Seq(T) /\ Len(h) = c
    BY <1>1, <1>9
  <2> HIDE DEF h
  <2>1. z \in Seq(T) /\ Len(z) = c + l /\ \A i \in 1..(c + l) : z[i] = IF i <= c THEN h[i] ELSE es[i - c]
    <3> HIDE DEF c
    <3>1. QED BY <2>0, <1>2, <1>6, ConcatProperties
  <2> HIDE DEF z, c
  <2>2. ASSUME NEW m \in 1..c PROVE z[m] = h[m]
    <3>1. m \in 1..(c + l) /\ m <= c
      BY <1>2, <2>0
    <3>2. QED BY <2>1, <3>1
  <2>3. ASSUME NEW m \in 1..l PROVE z[c + m] = es[m]
    <3>1. c + m \in 1..(c + l) /\ ~(c + m <= c) /\ (c + m) - c = m
      BY <1>2, <2>0
    <3>2. QED BY <2>1, <3>1
  <2>4. QED BY <2>1, <2>2, <2>3 DEF z, c
<1> DEFINE f == h \o es
<1>11. /\ f \o rs \in Seq(T) /\ Len(f \o rs) = 2 + k + l + q
       /\ \A m \in 1..(2 + k + l) : (f \o rs)[m] = f[m]
       /\ q = 1 => (f \o rs)[3 + k + l] = rs[1]
  <2> DEFINE z == f \o rs
             c == 2 + k + l
  <2>0. c \in Nat /\ f \in Seq(T) /\ Len(f) = c /\ c + 1 = 3 + k + l
    BY <1>1, <1>2, <1>10
  <2> HIDE DEF f
  <2>1. z \in Seq(T) /\ Len(z) = c + q /\ \A i \in 1..(c + q) : z[i] = IF i <= c THEN f[i] ELSE rs[i - c]
    <3> HIDE DEF c
    <3>1. QED BY <2>0, <1>7, <1>8, ConcatProperties
  <2> HIDE DEF z, c, q
  <2>2. ASSUME NEW m \in 1..c PROVE z[m] = f[m]
    <3>1. m \in 1..(c + q) /\ m <= c
      BY <1>8, <2>0
    <3>2. QED BY <2>1, <3>1
  <2>3. ASSUME q = 1 PROVE z[c + 1] = rs[1]
    <3>1. c + 1 \in 1..(c + q) /\ ~(c + 1 <= c) /\ (c + 1) - c = 1
      BY <1>8, <2>0, <2>3
    <3>2. QED BY <2>1, <3>1
  <2>4. z[3 + k + l] = z[c + 1]
    BY <2>0
  <2>5. QED BY <2>1, <2>2, <2>3, <2>4 DEF z, c
<1>12. W = f \o rs
  BY <1>3
<1> HIDE DEF f, h
<1>13. W \in Seq(T) /\ Len(W) = 2 + k + l + q
  BY <1>11, <1>12
<1>14. Len(W) = IF rs = <<>> THEN Ends(g) - 1 ELSE Ends(g)
  <2>1. CASE rs = <<>>
    <3>1. q = 0
      BY <1>7, <2>1
    <3>2. Len(W) = Ends(g) - 1
      BY <1>1, <1>2, <1>8, <1>13, <3>1
    <3>3. QED BY <2>1, <3>2
  <2>2. CASE rs # <<>>
    <3>1. q = 1
      BY <1>7, <2>2
    <3>2. Len(W) = Ends(g)
      BY <1>1, <1>2, <1>8, <1>13, <3>1
    <3>3. QED BY <2>2, <3>2
  <2>3. QED BY <2>1, <2>2
<1>15. W[1] = Item("GRAPHBIN", 0) /\ W[2] = Item("count", k)
  <2>1. /\ 1 \in 1..(2 + k) /\ 2 \in 1..(2 + k) /\ 1 \in 1..(2 + k + l) /\ 2 \in 1..(2 + k + l)
    BY <1>1, <1>2
  <2>2. W[1] = f[1] /\ W[2] = f[2]
    BY <1>11, <1>12, <2>1
  <2>3. f[1] = h[1] /\ f[2] = h[2]
    BY <1>10, <2>1 DEF f
  <2>4. h[1] = two[1] /\ h[2] = two[2]
    BY <1>9 DEF h
  <2>5. QED BY <1>4, <2>2, <2>3, <2>4
<1>16. ASSUME NEW m \in 1..k PROVE W[2 + m] = ns[m]
  <2>1. 2 + m \in 1..(2 + k) /\ 2 + m \in 1..(2 + k + l)
    BY <1>1, <1>2
  <2>2. W[2 + m] = f[2 + m]
    BY <1>11, <1>12, <2>1
  <2>3. f[2 + m] = h[2 + m]
    BY <1>10, <2>1 DEF f
  <2>4. h[2 + m] = ns[m]
    BY <1>9 DEF h
  <2>5. QED BY <2>2, <2>3, <2>4
<1>17. ASSUME NEW m \in 1..l PROVE W[2 + k + m] = es[m]
  <2>1. 2 + k + m \in 1..(2 + k + l)
    BY <1>1, <1>2
  <2>2. W[2 + k + m] = f[2 + k + m]
    BY <1>11, <1>12, <2>1
  <2>3. f[2 + k + m] = es[m]
    BY <1>10 DEF f
  <2>4. QED BY <2>2, <2>3
<1>18. ASSUME rs # <<>> PROVE W[Ends(g)] = Item("r", g.root)
  <2>1. q = 1 /\ 3 + k + l = Ends(g)
    BY <1>1, <1>2, <1>7, <1>8, <1>18
  <2>2. W[3 + k + l] = rs[1]
    BY <1>11, <1>12, <2>1
  <2>3. QED BY <1>7, <1>18, <2>1, <2>2
<1>19. \A m \in 1..k : W[2 + m] = Item("n", Node(kept[m], g.symb[kept[m]]))
  BY <1>5, <1>16
<1>20. \A m \in 1..l : W[2 + k + m] = Item("e", all[m])
  BY <1>6, <1>17
<1>21. QED BY <1>1, <1>2, <1>13, <1>14, <1>15, <1>18, <1>19, <1>20 DEF W, T, k, l, kept, all, rs

-----------------------------------------------------------------------------
(***************************************************************************)
(* The search for a node by its number.                                    *)
(***************************************************************************)
FirstIn(I) == IF I # {} THEN Min(I) ELSE 0

\* The least of a set of positions, 0 if there is none.
LEMMA FirstInFacts ==
    ASSUME NEW n \in Nat, NEW I, I \in SUBSET (1..n)
    PROVE  /\ FirstIn(I) \in 0..n
           /\ FirstIn(I) = 0 <=> I = {}
           /\ I # {} => FirstIn(I) \in I /\ \A i \in I : FirstIn(I) <= i
<1>1. CASE I = {}
  BY <1>1 DEF FirstIn
<1>2. CASE I # {}
  <2>1. I \subseteq Nat
    OBVIOUS
  <2>2. Min(I) \in I /\ \A y \in I : Min(I) <= y
    BY <1>2, <2>1, LeastIsIn
  <2>3. FirstIn(I) = Min(I)
    BY <1>2 DEF FirstIn
  <2>4. Min(I) \in 1..n
    BY <2>2
  <2>5. QED BY <1>2, <2>2, <2>3, <2>4
<1>3. QED BY <1>1, <1>2

NodesWith(id) == {i \in 1..Len(nodes) : nodes[i].id = id}

\* Find gives the first node of a number,
LEMMA FindIsFirst ==
    ASSUME NEW id
    PROVE  Find(id) = FirstIn(NodesWith(id))
BY DEF Find, SelectInSeq, FirstIn, NodesWith

\* so it finds a node when there is one.
LEMMA FindFacts ==
    ASSUME Len(nodes) \in Nat, NEW id
    PROVE  /\ Find(id) \in 0..Len(nodes)
           /\ Find(id) # 0 => nodes[Find(id)].id = id
           /\ Find(id) = 0 => \A i \in 1..Len(nodes) : nodes[i].id # id
           /\ \A i \in 1..Len(nodes) : nodes[i].id = id => Find(id) # 0 /\ Find(id) <= i
<1> DEFINE I == NodesWith(id)
           n == Len(nodes)
<1>1. I \in SUBSET (1..n) /\ n \in Nat
  BY DEF NodesWith
<1> HIDE DEF I, n
<1>2. /\ FirstIn(I) \in 0..n
      /\ FirstIn(I) = 0 <=> I = {}
      /\ I # {} => FirstIn(I) \in I /\ \A i \in I : FirstIn(I) <= i
  BY <1>1, FirstInFacts
<1>3. \A i : i \in I <=> i \in 1..n /\ nodes[i].id = id
  BY DEF I, NodesWith, n
<1>4. Find(id) = FirstIn(I)
  BY FindIsFirst DEF I
<1>5. QED BY <1>2, <1>3, <1>4 DEF n

\* It depends on the nodes only.
LEMMA FindSame ==
    ASSUME nodes' = nodes, NEW CONSTANT id
    PROVE  Find(id)' = Find(id)
BY DEF Find, SelectInSeq

\* So does what it finds of the root that was written.
LEMMA FindGraphRootSame ==
    ASSUME nodes' = nodes, graph' = graph
    PROVE  Find(graph.root)' = Find(graph.root)
BY DEF Find, SelectInSeq

\* The n-th item of what is written of g.
IsItem(g, n, x) ==
    LET k == Len(Kept(g))
        l == Len(LinksOf(g))
    IN  /\ n = 1 => x.tag = "GRAPHBIN"
        /\ n = 2 => x.tag = "count" /\ x.value = k
        /\ n >= 3 /\ n <= k + 2 =>
              x.tag = "n" /\ x.value = Node(Kept(g)[n - 2], g.symb[Kept(g)[n - 2]])
        /\ n >= k + 3 /\ n <= k + l + 2 =>
              x.tag = "e" /\ x.value = LinksOf(g)[n - (k + 2)]
        /\ n >= k + l + 3 => x.tag = "r" /\ x.value = g.root /\ n = k + l + 3

\* An item of the file, whole or cut, is the one of its place.
LEMMA WrittenItems ==
    ASSUME NEW g, IsReadable(g), NEW n \in 1..Len(Written(g))
    PROVE  /\ IsItem(g, n, Written(g)[n]) /\ Written(g)[n].cut = FALSE
           /\ IsItem(g, n, [Written(g)[n] EXCEPT !.cut = TRUE])
           /\ Written(g)[n] \in ItemsOf(g)
<1> DEFINE W == Written(g)
           k == Len(Kept(g))
           l == Len(LinksOf(g))
           x == W[n]
           e == [x EXCEPT !.cut = TRUE]
           T == ItemsOf(g)
<1>1. /\ W \in Seq(T) /\ k \in Nat /\ l \in Nat
      /\ Len(W) = IF RootOf(g) = <<>> THEN Ends(g) - 1 ELSE Ends(g)
      /\ W[1] = Item("GRAPHBIN", 0) /\ W[2] = Item("count", k)
      /\ \A m \in 1..k : W[2 + m] = Item("n", Node(Kept(g)[m], g.symb[Kept(g)[m]]))
      /\ \A m \in 1..l : W[2 + k + m] = Item("e", LinksOf(g)[m])
      /\ RootOf(g) # <<>> => W[Ends(g)] = Item("r", g.root)
  BY WrittenFacts
<1>2. Ends(g) = k + l + 3
  BY <1>1 DEF Ends
<1>3. W[n] \in T
  <2> HIDE DEF W, T
  <2>1. QED BY <1>1, ElementOfSeq DEF W
<1>4. n \in Nat /\ n >= 1 /\ n <= k + l + 3 /\ (n = k + l + 3 => RootOf(g) # <<>>)
  <2> DEFINE b == Len(W)
  <2>1. n \in 1..b /\ b = IF RootOf(g) = <<>> THEN Ends(g) - 1 ELSE Ends(g)
    BY <1>1
  <2> HIDE DEF W, b, k, l
  <2>2. QED BY <1>1, <1>2, <2>1
<1> HIDE DEF W, k, l, T
<1>5. ASSUME n >= 3, n <= k + 2 PROVE x = Item("n", Node(Kept(g)[n - 2], g.symb[Kept(g)[n - 2]]))
  <2> DEFINE m == n - 2
  <2>1. m \in 1..k /\ n = 2 + m
    BY <1>1, <1>4, <1>5
  <2> HIDE DEF m
  <2>2. x = Item("n", Node(Kept(g)[m], g.symb[Kept(g)[m]]))
    BY <1>1, <2>1
  <2>3. QED BY <2>2 DEF m
<1>6. ASSUME n >= k + 3, n <= k + l + 2 PROVE x = Item("e", LinksOf(g)[n - (k + 2)])
  <2> DEFINE m == n - (k + 2)
  <2>1. m \in 1..l /\ n = 2 + k + m
    BY <1>1, <1>4, <1>6
  <2> HIDE DEF m
  <2>2. x = Item("e", LinksOf(g)[m])
    BY <1>1, <2>1
  <2>3. QED BY <2>2 DEF m
<1>7. ASSUME n >= k + l + 3 PROVE x = Item("r", g.root) /\ n = k + l + 3
  <2>1. n = k + l + 3
    BY <1>1, <1>4, <1>7
  <2>2. QED BY <1>1, <1>2, <1>4, <2>1
<1>8. x.cut = FALSE
  <2>1. CASE n = 1
    BY <1>1, <2>1 DEF Item
  <2>2. CASE n = 2
    BY <1>1, <2>2 DEF Item
  <2>3. CASE n >= 3 /\ n <= k + 2
    BY <1>5, <2>3 DEF Item
  <2>4. CASE n >= k + 3 /\ n <= k + l + 2
    BY <1>6, <2>4 DEF Item
  <2>5. CASE n >= k + l + 3
    BY <1>7, <2>5 DEF Item
  <2>6. n = 1 \/ n = 2 \/ (n >= 3 /\ n <= k + 2) \/ (n >= k + 3 /\ n <= k + l + 2) \/ n >= k + l + 3
    BY <1>1, <1>4
  <2>7. QED BY <2>1, <2>2, <2>3, <2>4, <2>5, <2>6
<1>9. IsItem(g, n, x)
  <2>1. n = 1 => x.tag = "GRAPHBIN"
    BY <1>1 DEF Item
  <2>2. n = 2 => x.tag = "count" /\ x.value = k
    BY <1>1 DEF Item
  <2>3. n >= 3 /\ n <= k + 2 => x.tag = "n" /\ x.value = Node(Kept(g)[n - 2], g.symb[Kept(g)[n - 2]])
    BY <1>5 DEF Item
  <2>4. n >= k + 3 /\ n <= k + l + 2 => x.tag = "e" /\ x.value = LinksOf(g)[n - (k + 2)]
    BY <1>6 DEF Item
  <2>5. n >= k + l + 3 => x.tag = "r" /\ x.value = g.root /\ n = k + l + 3
    BY <1>7 DEF Item
  <2> HIDE DEF x
  <2>6. QED BY <2>1, <2>2, <2>3, <2>4, <2>5 DEF IsItem, k, l
<1>10. e.tag = x.tag /\ e.value = x.value
  BY <1>3 DEF T, ItemsOf
<1> HIDE DEF x, e
<1>11. IsItem(g, n, e)
  BY <1>9, <1>10 DEF IsItem
<1>12. QED BY <1>3, <1>8, <1>9, <1>11 DEF x, e, W, T

\* So is what is in the file; only the last of a broken file is cut.
LEMMA ItemFacts ==
    ASSUME FileInv, GraphInFile, NEW n \in 1..Len(file)
    PROVE  /\ IsItem(graph, n, file[n]) /\ file[n].cut \in BOOLEAN
           /\ file[n].cut => n = Len(file) /\ ~whole
           /\ whole => Len(file) = Len(Written(graph))
<1> DEFINE W == Written(graph)
<1>1. /\ IsReadable(graph) /\ Len(file) <= Len(W) /\ Len(file) \in Nat /\ IsWritten(n)
      /\ whole => Len(file) = Len(W)
  BY LenProperties DEF FileInv, GraphInFile
<1>2. Len(W) \in Nat
  BY <1>1, WrittenFacts, LenProperties
<1>3. n \in 1..Len(W)
  <2> HIDE DEF W
  <2>1. QED BY <1>1, <1>2
<1>4. /\ IsItem(graph, n, W[n]) /\ W[n].cut = FALSE /\ W[n] \in ItemsOf(graph)
      /\ IsItem(graph, n, [W[n] EXCEPT !.cut = TRUE])
  BY <1>1, <1>3, WrittenItems
<1>5. [W[n] EXCEPT !.cut = TRUE].cut \in BOOLEAN
  BY <1>4 DEF ItemsOf
<1>6. QED BY <1>1, <1>4, <1>5 DEF IsWritten

-----------------------------------------------------------------------------
(***************************************************************************)
(* The file.                                                               *)
(***************************************************************************)
\* The writer appends the next item.
LEMMA FileWriteItem ==
    ASSUME FileInv, WriteItem
    PROVE  FileInv' /\ GraphInFile'
<1> DEFINE W == Written(graph)
           T == ItemsOf(graph)
           n == Len(file)
           x == W[n + 1]
<1>1. /\ pc = "write" /\ n < Len(W) /\ file' = Append(file, x)
      /\ graph' = graph /\ whole' = whole /\ pc' = pc
      /\ Unread' /\ Unread
  BY DEF WriteItem, FileInv, Unread, read
<1>2. IsReadable(graph) /\ file \in Seq(T) /\ whole = FALSE /\ GraphInFile
  BY <1>1 DEF FileInv, TextInFile
<1>3. n \in Nat /\ Len(W) \in Nat /\ n + 1 \in 1..Len(W) /\ n + 1 <= Len(W)
  <2>1. n \in Nat /\ Len(W) \in Nat
    BY <1>2, WrittenFacts, LenProperties
  <2> HIDE DEF W, n
  <2>2. QED BY <1>1, <2>1
<1>4. x \in T
  <2> HIDE DEF n
  <2>1. QED BY <1>2, <1>3, WrittenItems
<1>5. /\ file' \in Seq(T) /\ Len(file') = n + 1 /\ file'[n + 1] = x
      /\ \A m \in 1..n : file'[m] = file[m]
  <2> HIDE DEF x, T
  <2>1. QED BY <1>1, <1>2, <1>4, AppendProperties
<1>6. ASSUME NEW m \in 1..Len(file') PROVE file'[m] = Written(graph')[m]
  <2>1. m \in 1..n \/ m = n + 1
    BY <1>3, <1>5
  <2>2. \A i \in 1..n : file[i] = W[i]
    BY <1>1, <1>2 DEF GraphInFile, IsWritten
  <2>3. QED BY <1>1, <1>5, <2>1, <2>2
<1>7. GraphInFile'
  BY <1>1, <1>2, <1>3, <1>5, <1>6 DEF GraphInFile, IsWritten
<1>8. QED BY <1>1, <1>2, <1>5, <1>7 DEF FileInv

\* The writer ends: the file is whole.
LEMMA FileEndWrite ==
    ASSUME FileInv, EndWrite
    PROVE  FileInv' /\ GraphInFile'
<1> DEFINE W == Written(graph)
<1>1. /\ pc = "write" /\ Len(file) = Len(W) /\ whole' = TRUE /\ pc' \in {"magic", "get"}
      /\ graph' = graph /\ file' = file
  BY DEF EndWrite, Start
<1>2. IsReadable(graph) /\ file \in Seq(ItemsOf(graph)) /\ GraphInFile
  BY <1>1 DEF FileInv, TextInFile
<1>3. Len(W) \in Nat
  BY <1>2, WrittenFacts, LenProperties
<1>4. \A n \in 1..Len(file) : file[n] = W[n]
  BY <1>1, <1>2 DEF GraphInFile, IsWritten
<1>5. GraphInFile'
  BY <1>1, <1>3, <1>4 DEF GraphInFile, IsWritten
<1>6. QED BY <1>1, <1>2, <1>5 DEF FileInv

\* The writer is stopped, perhaps in the middle of an item.
LEMMA FileStopWriter ==
    ASSUME FileInv, StopWriter
    PROVE  FileInv' /\ GraphInFile'
<1> DEFINE W == Written(graph)
           T == ItemsOf(graph)
           n == Len(file)
           x == [W[n + 1] EXCEPT !.cut = TRUE]
<1>1. /\ pc = "write" /\ n < Len(W) /\ (file' = file \/ file' = Append(file, x))
      /\ graph' = graph /\ whole' = whole /\ pc' \in {"magic", "get"}
  BY DEF StopWriter, Start
<1>2. IsReadable(graph) /\ file \in Seq(T) /\ whole = FALSE /\ GraphInFile
  BY <1>1 DEF FileInv, TextInFile
<1>3. n \in Nat /\ Len(W) \in Nat /\ n + 1 \in 1..Len(W) /\ n + 1 <= Len(W)
  <2>1. n \in Nat /\ Len(W) \in Nat
    BY <1>2, WrittenFacts, LenProperties
  <2> HIDE DEF W, n
  <2>2. QED BY <1>1, <2>1
<1>4. x \in T
  <2>1. W[n + 1] \in T
    <3> HIDE DEF n
    <3>1. QED BY <1>2, <1>3, WrittenItems
  <2> HIDE DEF W, n
  <2>2. QED BY <2>1 DEF ItemsOf
<1>5. \A i \in 1..n : file[i] = W[i]
  BY <1>1, <1>2 DEF GraphInFile, IsWritten
<1>6. CASE file' = file
  <2>1. GraphInFile'
    BY <1>1, <1>2, <1>3, <1>5, <1>6 DEF GraphInFile, IsWritten
  <2>2. QED BY <1>1, <1>2, <1>6, <2>1 DEF FileInv
<1>7. CASE file' = Append(file, x)
  <2>1. /\ file' \in Seq(T) /\ Len(file') = n + 1 /\ file'[n + 1] = x
        /\ \A m \in 1..n : file'[m] = file[m]
    <3> HIDE DEF x, T
    <3>1. QED BY <1>7, <1>2, <1>4, AppendProperties
  <2>2. ASSUME NEW m \in 1..Len(file') PROVE IsWritten(m)'
    <3>1. m \in 1..n \/ m = n + 1
      BY <1>3, <2>1
    <3>2. CASE m \in 1..n
      <4>1. file'[m] = Written(graph')[m]
        BY <1>1, <1>5, <2>1, <3>2
      <4>2. QED BY <4>1 DEF IsWritten
    <3>3. CASE m = n + 1
      <4>1. file'[m] = [Written(graph')[m] EXCEPT !.cut = TRUE] /\ m = Len(file')
        BY <1>1, <2>1, <3>3
      <4>2. ~whole' /\ pc' # "write"
        BY <1>1, <1>2
      <4>3. QED BY <4>1, <4>2 DEF IsWritten
    <3>4. QED BY <3>1, <3>2, <3>3
  <2>3. GraphInFile'
    BY <1>1, <1>2, <1>3, <2>1, <2>2 DEF GraphInFile
  <2>4. QED BY <1>1, <1>2, <2>1, <2>3 DEF FileInv
<1>8. QED BY <1>1, <1>6, <1>7

\* A reader leaves the file as it is.
Reads == UNCHANGED <<graph, file, whole>> /\ {pc, pc'} \cap {"dot", "write"} = {}

\* So the invariant of the file holds after it.
LEMMA FileReads ==
    ASSUME FileInv, Reads, TextInFile => TextInFile'
    PROVE  FileInv' /\ (GraphInFile => GraphInFile')
<1>1. graph' = graph /\ file' = file /\ whole' = whole /\ pc' # "write" /\ pc' # "dot" /\ pc # "write"
  BY DEF Reads
<1>2. GraphInFile => GraphInFile'
  <2>1. ASSUME NEW n, IsWritten(n) PROVE IsWritten(n)'
    BY <1>1, <2>1 DEF IsWritten
  <2>2. QED BY <1>1, <2>1 DEF GraphInFile
<1>3. QED BY <1>1, <1>2 DEF FileInv

-----------------------------------------------------------------------------
(***************************************************************************)
(* The two readers.                                                        *)
(***************************************************************************)
Kinds == {"dot", "write", "magic", "count", "record", "broken", "get", "parse", "done",
          "exit", "overflow"}

\* A step that reads no item leaves the reader's memory alone.
LEMMA TypesKept ==
    ASSUME ReaderTypes, UNCHANGED <<graph, read>>, Len(file') = Len(file),
           pos' \in 1..(Len(file) + 1), depth' \in 1..MaxDepth, pc' \in Kinds
    PROVE  ReaderTypes' /\ (NothingRead => NothingRead')
BY DEF ReaderTypes, read, NothingRead, Kinds

\* A file of text is one item, and none that the writer wrote.
LEMMA TextItem ==
    ASSUME FileInv, TextInFile
    PROVE  /\ Len(file) = 1 /\ file[1].tag = "text" /\ file[1].cut = FALSE /\ ~GraphInFile
<1>1. PICK t \in Texts : file = <<Item("text", t)>>
  BY DEF TextInFile
<1>2. Len(file) = 1 /\ file[1] = Item("text", t)
  BY <1>1
<1>3. file[1].tag = "text" /\ file[1].cut = FALSE
  BY <1>2 DEF Item
<1>4. ASSUME GraphInFile PROVE FALSE
  <2>1. IsItem(graph, 1, file[1])
    BY <1>2, <1>4, ItemFacts
  <2>2. QED BY <1>3, <2>1 DEF IsItem
<1>5. QED BY <1>2, <1>3, <1>4

\* Where a reader is that has looked for the magic value.
LEMMA MagicFacts ==
    ASSUME FileInv, ReaderTypes, pos \in {1, 2}, NEW found \in MagicFound
    PROVE  /\ found \in BOOLEAN
           /\ TextInFile => ~found
           /\ found => /\ AfterMagic \in {1, 2} /\ AfterMagic <= Len(file) + 1
                       /\ AfterMagic = 1 => file = <<>>
           /\ ~found /\ pos = 1 => Len(file) <= 1
<1> DEFINE n == Len(file)
<1>1. n \in Nat /\ pos \in 1..(n + 1) /\ (n = 0 => file = <<>>)
  <2>1. file \in Seq(ItemsOf(graph))
    BY DEF FileInv
  <2>2. QED BY <2>1, LenProperties, EmptySeq DEF ReaderTypes
<1>2. AtEnd <=> pos > n
  BY DEF AtEnd
<1>3. /\ AtEnd => found \in BOOLEAN /\ AfterMagic = pos
      /\ ~AtEnd => AfterMagic = pos + 1 /\ found \in BOOLEAN
      /\ ~AtEnd /\ found => tag = "GRAPHBIN"
      /\ ~AtEnd /\ ~found => tag # "GRAPHBIN" \/ IsCut
  BY DEF MagicFound, AfterMagic
<1>4. CASE TextInFile
  <2>1. n = 1 /\ pos = 1 /\ file[1].tag = "text"
    BY <1>4, TextItem DEF TextInFile
  <2>2. ~AtEnd /\ tag = "text"
    BY <1>2, <2>1 DEF tag
  <2>3. ~found
    BY <1>3, <2>2
  <2>4. QED BY <1>3, <2>1, <2>2, <2>3
<1>5. CASE GraphInFile /\ ~TextInFile
  <2>1. CASE AtEnd
    BY <1>1, <1>2, <1>3, <1>5, <2>1
  <2>2. CASE ~AtEnd
    <3>1. pos \in 1..n
      BY <1>1, <1>2, <2>2
    <3>2. IsItem(graph, pos, file[pos]) /\ (file[pos].cut => pos = n)
      BY <1>5, <3>1, ItemFacts
    <3>3. pos = 1 => tag = "GRAPHBIN"
      BY <3>2 DEF IsItem, tag
    <3>4. pos = 2 => tag = "count"
      BY <3>2 DEF IsItem, tag
    <3>5. found => pos = 1
      BY <1>3, <2>2, <3>4
    <3>6. ~found /\ pos = 1 => n = 1
      BY <1>3, <2>2, <3>2, <3>3 DEF IsCut
    <3>7. found \in BOOLEAN
      BY <1>3, <2>2
    <3>8. found => AfterMagic = 2 /\ 2 <= n + 1
      BY <1>1, <1>3, <2>2, <3>1, <3>5
    <3> HIDE DEF n
    <3>9. /\ found => AfterMagic \in {1, 2} /\ AfterMagic <= n + 1 /\ ~(AfterMagic = 1)
          /\ ~found /\ pos = 1 => n <= 1
      BY <3>6, <3>8
    <3>10. QED BY <1>5, <3>7, <3>9 DEF n
  <2>3. QED BY <2>1, <2>2
<1>6. QED BY <1>4, <1>5 DEF FileInv

\* What every step of a reader keeps.
ReaderKeeps == Reads /\ ReaderInv' /\ (TextInFile => TextInFile')

\* graph_from_file looks for the magic value.
LEMMA ReaderCheckMagic ==
    ASSUME FileInv, ReaderInv, CheckMagic
    PROVE  ReaderKeeps
<1>1. PICK found \in MagicFound :
         IF found THEN pc' = "count" /\ pos' = AfterMagic ELSE pc' = "broken" /\ UNCHANGED pos
  BY DEF CheckMagic
<1>2. /\ pc = "magic" /\ UNCHANGED <<graph, file, whole, depth, read>>
      /\ ReaderTypes /\ ReaderPlace /\ pos \in {1, 2}
  BY DEF CheckMagic, ReaderInv, ReaderPlace
<1>3. /\ found \in BOOLEAN /\ (TextInFile => ~found)
      /\ found => /\ AfterMagic \in {1, 2} /\ AfterMagic <= Len(file) + 1
                  /\ AfterMagic = 1 => file = <<>>
  BY <1>2, MagicFacts
<1>4. pc' \in {"count", "broken"}
  BY <1>1
<1>5. pos' \in 1..(Len(file) + 1)
  <2>1. pos \in 1..(Len(file) + 1)
    BY <1>2 DEF ReaderTypes
  <2>2. Len(file) \in Nat
    BY LenProperties DEF FileInv
  <2>3. QED BY <1>1, <1>3, <2>1, <2>2
<1>6. ReaderTypes' /\ (NothingRead => NothingRead')
  <2>1. depth' \in 1..MaxDepth /\ pc' \in Kinds /\ Len(file') = Len(file)
    BY <1>2, <1>4 DEF ReaderTypes, Kinds
  <2>2. QED BY <1>2, <1>5, <2>1, TypesKept
<1>7. pc' = "count" => pos' = 2 \/ (pos' = 1 /\ file' = <<>>)
  BY <1>1, <1>2, <1>3
<1>8. ReaderPlace'
  BY <1>2, <1>4, <1>6, <1>7 DEF ReaderPlace
<1>9. Reads
  BY <1>2, <1>4 DEF Reads
<1>10. ASSUME TextInFile PROVE TextInFile'
  <2>1. pc' = "broken" /\ pos' = pos
    BY <1>1, <1>3, <1>10
  <2>2. NothingRead' /\ pos = 1
    BY <1>6, <1>10 DEF TextInFile
  <2>3. QED BY <1>2, <1>10, <2>1, <2>2 DEF TextInFile
<1>11. QED BY <1>4, <1>6, <1>8, <1>9, <1>10 DEF ReaderKeeps, ReaderInv

\* getGraphFromFile looks for it and calls graph_from_file.
LEMMA ReaderGetMagic ==
    ASSUME FileInv, ReaderInv, GetMagic
    PROVE  ReaderKeeps
<1>1. PICK found \in MagicFound :
         IF ~found THEN pc' = "parse" /\ UNCHANGED <<pos, depth>>
         ELSE IF depth = MaxDepth THEN pc' = "overflow" /\ UNCHANGED <<pos, depth>>
         ELSE pc' = "magic" /\ pos' = AfterMagic /\ depth' = depth + 1
  BY DEF GetMagic
<1>2. /\ pc = "get" /\ UNCHANGED <<graph, file, whole, read>>
      /\ ReaderTypes /\ ReaderPlace /\ pos = 1
  BY DEF GetMagic, ReaderInv, ReaderPlace
<1>3. /\ found \in BOOLEAN /\ (TextInFile => ~found)
      /\ found => /\ AfterMagic \in {1, 2} /\ AfterMagic <= Len(file) + 1
                  /\ AfterMagic = 1 => file = <<>>
      /\ ~found => Len(file) <= 1
  BY <1>2, MagicFacts
<1>4. pc' \in {"parse", "overflow", "magic"}
  BY <1>1
<1>5. pos' \in 1..(Len(file) + 1) /\ depth' \in 1..MaxDepth
  <2>1. pos \in 1..(Len(file) + 1) /\ depth \in 1..MaxDepth
    BY <1>2 DEF ReaderTypes
  <2>2. Len(file) \in Nat /\ MaxDepth \in Nat
    BY LenProperties, GraphFileAssumption DEF FileInv
  <2>3. QED BY <1>1, <1>3, <2>1, <2>2
<1>6. ReaderTypes' /\ (NothingRead => NothingRead')
  <2>1. pc' \in Kinds /\ Len(file') = Len(file)
    BY <1>2, <1>4 DEF Kinds
  <2>2. QED BY <1>2, <1>5, <2>1, TypesKept
<1>7. /\ pc' = "magic" => pos' \in {1, 2}
      /\ pc' = "parse" => pos' = 1 /\ Len(file') <= 1
  BY <1>1, <1>2, <1>3
<1>8. ReaderPlace'
  BY <1>2, <1>4, <1>6, <1>7 DEF ReaderPlace
<1>9. Reads
  BY <1>2, <1>4 DEF Reads
<1>10. ASSUME TextInFile PROVE TextInFile'
  <2>1. pc' = "parse" /\ pos' = pos
    BY <1>1, <1>3, <1>10
  <2>2. NothingRead'
    BY <1>6, <1>10 DEF TextInFile
  <2>3. QED BY <1>2, <1>10, <2>1, <2>2 DEF TextInFile
<1>11. QED BY <1>4, <1>6, <1>8, <1>9, <1>10 DEF ReaderKeeps, ReaderInv

\* A broken file is handed over to getGraphFromFile.
LEMMA ReaderBroken ==
    ASSUME FileInv, ReaderInv, Broken
    PROVE  ReaderKeeps
<1>1. /\ pc = "broken" /\ UNCHANGED <<graph, file, whole, read>> /\ pos' = 1
      /\ IF depth = MaxDepth THEN pc' = "overflow" /\ UNCHANGED depth
         ELSE pc' = "get" /\ depth' = depth + 1
      /\ ReaderTypes /\ ReaderPlace
  BY DEF Broken, ReaderInv
<1>2. pc' \in {"overflow", "get"}
  BY <1>1
<1>3. pos' \in 1..(Len(file) + 1) /\ depth' \in 1..MaxDepth
  <2>1. depth \in 1..MaxDepth
    BY <1>1 DEF ReaderTypes
  <2>2. Len(file) \in Nat /\ MaxDepth \in Nat
    BY LenProperties, GraphFileAssumption DEF FileInv
  <2>3. QED BY <1>1, <2>1, <2>2
<1>4. ReaderTypes' /\ (NothingRead => NothingRead')
  <2>1. pc' \in Kinds /\ Len(file') = Len(file)
    BY <1>1, <1>2 DEF Kinds
  <2>2. QED BY <1>1, <1>3, <2>1, TypesKept
<1>5. ReaderPlace'
  BY <1>1, <1>2, <1>4 DEF ReaderPlace
<1>6. Reads
  BY <1>1, <1>2 DEF Reads
<1>7. ASSUME TextInFile PROVE TextInFile'
  BY <1>1, <1>2, <1>4, <1>7 DEF TextInFile
<1>8. QED BY <1>2, <1>4, <1>5, <1>6, <1>7 DEF ReaderKeeps, ReaderInv

\* The grammar takes a file without the magic value, or exits.
LEMMA ReaderParse ==
    ASSUME FileInv, ReaderInv, Parse
    PROVE  ReaderKeeps
<1>1. /\ pc = "parse" /\ UNCHANGED <<graph, file, whole, depth, pos, read>>
      /\ pc' \in {"done", "exit"} /\ ReaderTypes /\ ReaderPlace
  BY DEF Parse, ReaderInv
<1>2. Len(file) <= 1 /\ Len(file) \in Nat
  BY <1>1, LenProperties DEF ReaderPlace, FileInv
<1>3. ReaderTypes' /\ (NothingRead => NothingRead')
  <2>1. /\ pc' \in Kinds /\ Len(file') = Len(file) /\ pos' \in 1..(Len(file) + 1)
        /\ depth' \in 1..MaxDepth
    BY <1>1 DEF Kinds, ReaderTypes
  <2>2. QED BY <1>1, <2>1, TypesKept
<1>4. ~(Len(file') >= 2)
  BY <1>1, <1>2
<1>5. ReaderPlace'
  BY <1>1, <1>3, <1>4 DEF ReaderPlace
<1>6. Reads
  BY <1>1 DEF Reads
<1>7. ASSUME TextInFile PROVE TextInFile'
  BY <1>1, <1>3, <1>7 DEF TextInFile
<1>8. QED BY <1>3, <1>4, <1>5, <1>6, <1>7 DEF ReaderKeeps, ReaderInv

\* The end of the file.
LEMMA ReaderEndFile ==
    ASSUME FileInv, ReaderInv, EndFile
    PROVE  ReaderKeeps
<1>1. /\ pc = "record" /\ AtEnd /\ pc' = "done"
      /\ UNCHANGED <<graph, file, whole, depth, pos, read>>
      /\ ReaderTypes /\ ReaderPlace /\ Len(file) >= 2 /\ ReadSoFar
  BY DEF EndFile, ReaderInv, ReaderPlace
<1>2. ReaderTypes' /\ (NothingRead => NothingRead')
  <2>1. /\ pc' \in Kinds /\ Len(file') = Len(file) /\ pos' \in 1..(Len(file) + 1)
        /\ depth' \in 1..MaxDepth
    BY <1>1 DEF Kinds, ReaderTypes
  <2>2. QED BY <1>1, <2>1, TypesKept
<1>3. ReaderPlace'
  BY <1>1, <1>2 DEF ReaderPlace, AtEnd
<1>4. ReadSoFar'
  <2>1. Find(graph.root)' = Find(graph.root)
    BY <1>1, FindGraphRootSame DEF read
  <2>2. QED BY <1>1, <2>1 DEF ReadSoFar, NodeAsWritten, LinkAsWritten, read
<1>5. Reads
  BY <1>1 DEF Reads
<1>6. ~TextInFile
  BY <1>1 DEF TextInFile
<1>7. QED BY <1>2, <1>3, <1>4, <1>5, <1>6 DEF ReaderKeeps, ReaderInv

\* The empty node.
LEMMA NothingIsTyped ==
    ASSUME NEW g
    PROVE  Node(0, 0) \in NodesOfReader(g)
BY DEF Node, NodesOfReader

\* The number of nodes: everything is read after it.
LEMMA ReaderReadCount ==
    ASSUME FileInv, ReaderInv, ReadCount
    PROVE  ReaderKeeps
<1> DEFINE n == Len(file)
           k == Len(Kept(graph))
<1>1. /\ pc = "count" /\ UNCHANGED <<graph, entry, file, whole, depth>>
      /\ node' = Node(0, 0) /\ nodes' = <<>> /\ links' = <<>> /\ root' = 0
      /\ \/ (AtEnd \/ IsCut) /\ pc' = "broken" /\ UNCHANGED <<pos, size>>
         \/ ~AtEnd /\ ~IsCut /\ pc' = "record" /\ pos' = pos + 1 /\ size' = file[pos].value
      /\ ReaderTypes /\ ReaderPlace
  BY DEF ReadCount, ReaderInv
<1>2. /\ n \in Nat /\ ~TextInFile /\ GraphInFile /\ IsReadable(graph)
      /\ pos = 2 \/ (pos = 1 /\ file = <<>>)
      /\ pos \in 1..(n + 1) /\ depth \in 1..MaxDepth /\ size \in Nat
  <2>1. n \in Nat /\ IsReadable(graph)
    BY LenProperties DEF FileInv
  <2>2. ~TextInFile /\ GraphInFile
    BY <1>1 DEF FileInv, TextInFile
  <2>3. QED BY <1>1, <2>1, <2>2 DEF ReaderTypes, ReaderPlace
<1>3. k \in Nat
  BY <1>2, WrittenFacts
<1>4. Len(nodes') = 0 /\ nodes' \in Seq(NodesOfReader(graph)) /\ links' \in Seq((1..0) \X (1..0))
      /\ NothingRead'
  BY <1>1 DEF NothingRead
<1>5. CASE (AtEnd \/ IsCut) /\ pc' = "broken" /\ UNCHANGED <<pos, size>>
  <2>1. ReaderTypes'
    BY <1>1, <1>2, <1>4, <1>5, NothingIsTyped DEF ReaderTypes
  <2>2. ReaderPlace'
    BY <1>4, <1>5 DEF ReaderPlace
  <2>3. Reads
    BY <1>1, <1>5 DEF Reads
  <2>4. QED BY <1>2, <1>5, <2>1, <2>2, <2>3 DEF ReaderKeeps, ReaderInv
<1>6. CASE ~AtEnd /\ ~IsCut /\ pc' = "record" /\ pos' = pos + 1 /\ size' = file[pos].value
  <2>1. pos = 2 /\ n >= 2 /\ pos' = 3
    <3>1. ~(pos > n)
      BY <1>6 DEF AtEnd
    <3>2. pos # 1
      <4>1. ASSUME file = <<>> PROVE n = 0
        BY <4>1
      <4>2. QED BY <1>2, <3>1, <4>1
    <3>3. QED BY <1>2, <1>6, <3>1, <3>2
  <2>2. size' = k
    <3>1. 2 \in 1..n
      BY <1>2, <2>1
    <3>2. IsItem(graph, 2, file[2])
      BY <1>2, <3>1, ItemFacts
    <3>3. QED BY <1>6, <2>1, <3>2 DEF IsItem
  <2>3. ReaderTypes'
    BY <1>1, <1>2, <1>3, <1>4, <1>6, <2>1, <2>2, NothingIsTyped DEF ReaderTypes
  <2>4. ReaderPlace'
    BY <1>1, <1>4, <1>6, <2>1 DEF ReaderPlace
  <2>5. ReadSoFar'
    <3> DEFINE l == Len(LinksOf(graph))
    <3>1. l \in Nat
      BY <1>2, WrittenFacts
    <3>2. Least(3 - 3, k) = 0 /\ 3 <= k + 3 /\ ~(3 > k + l + 3)
      BY <1>3, <3>1 DEF Least
    <3>3. Len(links') = 0
      BY <1>1
    <3>4. 1..0 = {}
      OBVIOUS
    <3> HIDE DEF k, l
    <3>5. graph' = graph /\ root' = 0
      BY <1>1
    <3>6. QED BY <1>4, <2>1, <2>2, <3>2, <3>3, <3>4, <3>5 DEF ReadSoFar, k, l
  <2>6. Reads
    BY <1>1, <1>6 DEF Reads
  <2>7. QED BY <1>2, <1>6, <2>3, <2>4, <2>5, <2>6 DEF ReaderKeeps, ReaderInv
<1>7. QED BY <1>1, <1>5, <1>6

\* What a reader of records knows.
LEMMA RecordFacts ==
    ASSUME FileInv, ReaderInv, pc = "record", ~AtEnd
    PROVE  /\ pos \in 3..Len(file) /\ Len(file) \in Nat
           /\ Len(Kept(graph)) \in Nat /\ Len(LinksOf(graph)) \in Nat
           /\ ReaderTypes /\ ReadSoFar /\ IsReadable(graph) /\ ~TextInFile /\ GraphInFile
           /\ IsItem(graph, pos, file[pos])
           /\ IsCut => pos = Len(file) /\ ~whole
           /\ \A m \in 1..Len(nodes) : NodeAsWritten(m)
           /\ pos <= Len(Kept(graph)) + Len(LinksOf(graph)) + 3 /\ root = 0
           /\ tag = "n" => pos <= Len(Kept(graph)) + 2
           /\ tag = "e" => /\ pos >= Len(Kept(graph)) + 3
                           /\ pos <= Len(Kept(graph)) + Len(LinksOf(graph)) + 2
           /\ tag = "r" => pos = Len(Kept(graph)) + Len(LinksOf(graph)) + 3
<1> DEFINE n == Len(file)
           k == Len(Kept(graph))
           l == Len(LinksOf(graph))
<1>1. ReaderTypes /\ ReaderPlace /\ n >= 2 /\ n \in Nat
  BY LenProperties DEF ReaderInv, ReaderPlace, FileInv
<1>2. ReadSoFar /\ IsReadable(graph)
  BY <1>1 DEF ReaderInv, FileInv
<1>3. ~TextInFile /\ GraphInFile
  BY DEF TextInFile, FileInv
<1>4. k \in Nat /\ l \in Nat
  BY <1>2, WrittenFacts
<1>5. pos \in 3..n
  <2>1. pos \in 1..(n + 1) /\ pos >= 3 /\ ~(pos > n)
    BY <1>1, <1>2 DEF ReaderTypes, ReadSoFar, AtEnd
  <2>2. QED BY <1>1, <2>1
<1>6. IsItem(graph, pos, file[pos]) /\ (file[pos].cut => pos = n /\ ~whole)
  <2>1. pos \in 1..n
    BY <1>5
  <2>2. QED BY <1>3, <2>1, ItemFacts
<1>7. pos <= k + l + 3
  <2>1. pos \in Nat /\ (pos >= k + l + 3 => pos = k + l + 3)
    BY <1>5, <1>6 DEF IsItem
  <2> HIDE DEF k, l
  <2>2. QED BY <1>4, <2>1
<1>8. pos = 1 \/ pos = 2 \/ (pos >= 3 /\ pos <= k + 2) \/ (pos >= k + 3 /\ pos <= k + l + 2)
      \/ pos = k + l + 3
  <2>1. pos \in Nat /\ pos >= 3
    BY <1>5
  <2> HIDE DEF k, l
  <2>2. QED BY <1>4, <1>7, <2>1
<1>9. /\ tag = "n" => pos <= k + 2
      /\ tag = "e" => pos >= k + 3 /\ pos <= k + l + 2
      /\ tag = "r" => pos = k + l + 3
  <2>0. pos # 1 /\ pos # 2
    BY <1>5
  <2>1. /\ pos >= 3 /\ pos <= k + 2 => tag = "n"
        /\ pos >= k + 3 /\ pos <= k + l + 2 => tag = "e"
        /\ pos >= k + l + 3 => tag = "r"
    BY <1>6 DEF IsItem, tag
  <2>2. pos = k + l + 3 => pos >= k + l + 3
    BY <1>4
  <2> HIDE DEF k, l
  <2>3. QED BY <1>8, <2>0, <2>1, <2>2
<1>10. \A m \in 1..Len(nodes) : NodeAsWritten(m)
  <2>1. ~(pos > n)
    BY DEF AtEnd
  <2>2. QED BY <1>2, <2>1 DEF ReadSoFar
<1>11. root = 0
  <2>1. ~(pos > k + l + 3)
    <3>1. pos \in Nat
      BY <1>5
    <3> HIDE DEF k, l
    <3>2. QED BY <1>4, <1>7, <3>1
  <2>2. QED BY <1>2, <2>1 DEF ReadSoFar
<1>12. QED BY <1>1, <1>2, <1>3, <1>4, <1>5, <1>6, <1>7, <1>9, <1>10, <1>11 DEF IsCut

\* A node is read, whole, cut or mixed with the one before.
LEMMA ReaderReadNode ==
    ASSUME FileInv, ReaderInv, ReadNode
    PROVE  ReaderKeeps
<1> DEFINE n == Len(file)
           k == Len(Kept(graph))
           l == Len(LinksOf(graph))
           T == NodesOfReader(graph)
           v == file[pos].value
           m == pos - 2
<1>1. /\ pc = "record" /\ ~AtEnd /\ tag = "n" /\ pos' = pos + 1
      /\ UNCHANGED <<graph, entry, file, whole, pc, depth, size, links, root>>
  BY DEF ReadNode
<1>2. PICK x \in NodeRead : node' = x /\ nodes' = Append(nodes, x)
  BY DEF ReadNode
<1>3. /\ pos \in 3..n /\ n \in Nat /\ k \in Nat /\ l \in Nat /\ pos <= k + 2
      /\ ReaderTypes /\ ReadSoFar /\ IsReadable(graph) /\ ~TextInFile
      /\ (IsCut => pos = n /\ ~whole) /\ root = 0
      /\ \A i \in 1..Len(nodes) : NodeAsWritten(i)
      /\ IsItem(graph, pos, file[pos])
  BY <1>1, RecordFacts
<1>4. v = Node(Kept(graph)[m], graph.symb[Kept(graph)[m]]) /\ m \in 1..k
  BY <1>3 DEF IsItem
<1>5. v \in T
  <2>1. Kept(graph) \in Seq(NodesOf(graph))
    BY <1>3, KeptFacts DEF IsReadable
  <2> HIDE DEF k, m
  <2>2. Kept(graph)[m] \in NodesOf(graph)
    BY <1>4, <2>1, ElementOfSeq DEF k
  <2>3. QED BY <1>4, <2>2 DEF NodesOfReader, Node
<1>6. x \in T /\ (~IsCut => x = v)
  <2>1. node \in T
    BY <1>3 DEF ReaderTypes
  <2>2. x \in {Node(i, node.symb) : i \in {node.id, Mixed, v.id}} \cup {Node(v.id, Mixed)} \cup {v}
        /\ (~IsCut => x = v)
    BY <1>2 DEF NodeRead
  <2> HIDE DEF v
  <2>3. QED BY <1>5, <2>1, <2>2 DEF NodesOfReader, Node
<1>7. /\ nodes \in Seq(T) /\ Len(nodes) = pos - 3 /\ size = k /\ Len(nodes) \in Nat
      /\ links = <<>> /\ depth \in 1..MaxDepth
  <2>1. /\ nodes \in Seq(T) /\ Len(nodes) = Least(pos - 3, k) /\ size = k
        /\ Len(links) = IF pos <= k + 3 THEN 0 ELSE Least(pos - (k + 3), l)
        /\ links \in Seq((1..Len(nodes)) \X (1..Len(nodes))) /\ depth \in 1..MaxDepth
    BY <1>3 DEF ReaderTypes, ReadSoFar
  <2> HIDE DEF k, l, n, T
  <2>2. Least(pos - 3, k) = pos - 3 /\ pos <= k + 3 /\ pos - 3 \in Nat
    BY <1>3 DEF Least
  <2>3. Len(links) = 0
    BY <2>1, <2>2
  <2>4. links = <<>>
    <3> DEFINE S == (1..Len(nodes)) \X (1..Len(nodes))
    <3>1. links \in Seq(S)
      BY <2>1
    <3> HIDE DEF S
    <3>2. QED BY <2>3, <3>1, EmptySeq
  <2>5. QED BY <2>1, <2>2, <2>4
<1>8. /\ nodes' \in Seq(T) /\ Len(nodes') = m /\ nodes'[m] = x
      /\ \A i \in 1..(m - 1) : nodes'[i] = nodes[i]
  <2>1. /\ nodes' \in Seq(T) /\ Len(nodes') = Len(nodes) + 1
        /\ nodes'[Len(nodes) + 1] = x /\ \A i \in 1..Len(nodes) : nodes'[i] = nodes[i]
    <3> HIDE DEF T
    <3>1. QED BY <1>2, <1>6, <1>7, AppendProperties
  <2>2. Len(nodes) + 1 = m /\ Len(nodes) = m - 1
    BY <1>3, <1>7
  <2>3. QED BY <2>1, <2>2
<1> HIDE DEF k, l, n, T, v, m
<1>9. m \in Nat /\ m <= k /\ m + 2 = pos /\ pos \in Nat
  BY <1>3, <1>4 DEF m
<1>10. ReaderTypes'
  <2>1. pos' \in 1..(Len(file') + 1)
    BY <1>1, <1>3, <1>9 DEF n
  <2>2. links' \in Seq((1..Len(nodes')) \X (1..Len(nodes'))) /\ root' \in 0..Len(nodes')
    BY <1>1, <1>3, <1>7, <1>8, <1>9
  <2>3. node' \in NodesOfReader(graph') /\ nodes' \in Seq(NodesOfReader(graph'))
    BY <1>1, <1>2, <1>6, <1>8 DEF T
  <2>4. size' \in Nat /\ Len(nodes') <= size' /\ depth' \in 1..MaxDepth /\ pc' = "record"
    BY <1>1, <1>3, <1>7, <1>8, <1>9
  <2>5. QED BY <2>1, <2>2, <2>3, <2>4 DEF ReaderTypes
<1>11. ReaderPlace'
  <2>1. Len(file') >= 2
    BY <1>1, <1>3 DEF n
  <2>2. ~(Len(file') <= 1)
    BY <1>1, <1>3 DEF n
  <2>3. QED BY <1>1, <2>1, <2>2 DEF ReaderPlace
<1>12. ReadSoFar'
  <2>1. /\ pos' >= 3 /\ Len(nodes') = Least(pos' - 3, k)
        /\ pos' <= k + 3 /\ ~(pos' > k + l + 3)
    BY <1>1, <1>3, <1>8, <1>9 DEF Least
  <2>2. ASSUME NEW i \in 1..Len(nodes')
        PROVE  NodeAsWritten(i)' \/ (i + 2 = Len(file') /\ pos' > Len(file') /\ ~whole')
    <3>1. CASE i = m
      <4>1. CASE IsCut
        <5>1. m + 2 = n /\ pos + 1 > n /\ ~whole
          BY <1>3, <1>9, <4>1
        <5>2. QED BY <1>1, <3>1, <5>1 DEF n
      <4>2. CASE ~IsCut
        <5>1. nodes'[m] = v
          BY <1>6, <1>8, <4>2
        <5>2. QED BY <1>1, <1>4, <3>1, <5>1 DEF NodeAsWritten, v
      <4>3. QED BY <4>1, <4>2
    <3>2. CASE i # m
      <4>1. i \in 1..(m - 1) /\ i \in 1..Len(nodes)
        BY <1>3, <1>7, <1>8, <1>9, <3>2
      <4>2. nodes'[i] = nodes[i] /\ NodeAsWritten(i)
        BY <1>3, <1>8, <4>1
      <4>3. QED BY <1>1, <4>2 DEF NodeAsWritten
    <3>3. QED BY <3>1, <3>2
  <2>3. size' = k /\ links' = <<>> /\ root' = 0 /\ Len(links') = 0 /\ graph' = graph
    BY <1>1, <1>3, <1>7
  <2>4. 1..0 = {}
    OBVIOUS
  <2>5. QED BY <2>1, <2>2, <2>3, <2>4 DEF ReadSoFar, k, l
<1>13. Reads
  BY <1>1 DEF Reads
<1>14. QED BY <1>3, <1>10, <1>11, <1>12, <1>13 DEF ReaderKeeps, ReaderInv

\* A link is read and both its nodes found.
LEMMA ReaderReadLink ==
    ASSUME FileInv, ReaderInv, ReadLink
    PROVE  ReaderKeeps
<1> DEFINE n == Len(file)
           k == Len(Kept(graph))
           l == Len(LinksOf(graph))
           v == file[pos].value
           m == pos - (k + 2)
           S == (1..Len(nodes)) \X (1..Len(nodes))
           x == <<Find(v[1]), Find(v[2])>>
<1>1. /\ pc = "record" /\ ~AtEnd /\ tag = "e"
      /\ UNCHANGED <<graph, entry, file, whole, depth, size, node, nodes, root>>
      /\ \/ pc' = "broken" /\ UNCHANGED <<pos, links>>
         \/ /\ Find(v[1]) # 0 /\ Find(v[2]) # 0
            /\ links' = Append(links, x) /\ pos' = pos + 1 /\ pc' = pc
  BY DEF ReadLink
<1>2. /\ pos \in 3..n /\ n \in Nat /\ k \in Nat /\ l \in Nat
      /\ pos >= k + 3 /\ pos <= k + l + 2
      /\ ReaderTypes /\ ReadSoFar /\ IsReadable(graph) /\ ~TextInFile /\ root = 0
      /\ \A i \in 1..Len(nodes) : NodeAsWritten(i)
      /\ IsItem(graph, pos, file[pos])
  BY <1>1, RecordFacts
<1>3. Reads
  BY <1>1 DEF Reads
<1>4. CASE pc' = "broken" /\ UNCHANGED <<pos, links>>
  <2>1. ReaderTypes' /\ (NothingRead => NothingRead')
    <3>1. /\ pc' \in Kinds /\ Len(file') = Len(file) /\ pos' \in 1..(Len(file) + 1)
          /\ depth' \in 1..MaxDepth /\ UNCHANGED <<graph, read>>
      BY <1>1, <1>2, <1>4 DEF Kinds, ReaderTypes, read
    <3>2. QED BY <1>2, <3>1, TypesKept
  <2>2. ReaderPlace'
    <3>1. ~(Len(file') <= 1)
      BY <1>1, <1>2
    <3>2. QED BY <1>4, <3>1 DEF ReaderPlace
  <2>3. QED BY <1>2, <1>3, <1>4, <2>1, <2>2 DEF ReaderKeeps, ReaderInv
<1>5. CASE /\ Find(v[1]) # 0 /\ Find(v[2]) # 0
           /\ links' = Append(links, x) /\ pos' = pos + 1 /\ pc' = pc
  <2>1. v = LinksOf(graph)[m] /\ m \in 1..l
    BY <1>2 DEF IsItem
  <2>2. /\ links \in Seq(S) /\ Len(nodes) = k /\ size = k /\ Len(links) = m - 1
        /\ \A i \in 1..Len(links) : LinkAsWritten(i)
    <3>1. /\ links \in Seq(S) /\ Len(nodes) = Least(pos - 3, k) /\ size = k
          /\ Len(links) = IF pos <= k + 3 THEN 0 ELSE Least(pos - (k + 3), l)
          /\ \A i \in 1..Len(links) : LinkAsWritten(i)
      BY <1>2 DEF ReaderTypes, ReadSoFar
    <3> HIDE DEF S, k, l, n
    <3>2. Least(pos - 3, k) = k
      BY <1>2 DEF Least
    <3>3. Least(pos - (k + 3), l) = pos - (k + 3) /\ pos - (k + 3) = m - 1
      BY <1>2 DEF Least
    <3>4. pos <= k + 3 => m - 1 = 0
      BY <1>2
    <3>5. QED BY <3>1, <3>2, <3>3, <3>4
  <2>3. x \in S /\ nodes[x[1]].id = v[1] /\ nodes[x[2]].id = v[2]
    <3>1. Len(nodes) \in Nat
      BY <1>2, <2>2
    <3>2. /\ Find(v[1]) \in 0..Len(nodes) /\ nodes[Find(v[1])].id = v[1]
          /\ Find(v[2]) \in 0..Len(nodes) /\ nodes[Find(v[2])].id = v[2]
      <4> DEFINE v1 == v[1]
                 v2 == v[2]
      <4>1. Find(v1) # 0 /\ Find(v2) # 0
        BY <1>5
      <4> HIDE DEF v1, v2
      <4>2. /\ Find(v1) \in 0..Len(nodes) /\ nodes[Find(v1)].id = v1
            /\ Find(v2) \in 0..Len(nodes) /\ nodes[Find(v2)].id = v2
        BY <3>1, <4>1, FindFacts
      <4>3. QED BY <4>2 DEF v1, v2
    <3>3. x[1] = Find(v[1]) /\ x[2] = Find(v[2])
      OBVIOUS
    <3> HIDE DEF v
    <3>4. QED BY <1>5, <3>1, <3>2, <3>3
  <2>4. /\ links' \in Seq(S) /\ Len(links') = m /\ links'[m] = x
        /\ \A i \in 1..(m - 1) : links'[i] = links[i]
    <3> HIDE DEF S, x, m
    <3>1. /\ links' \in Seq(S) /\ Len(links') = Len(links) + 1
          /\ links'[Len(links) + 1] = x /\ \A i \in 1..Len(links) : links'[i] = links[i]
      BY <1>5, <2>2, <2>3, AppendProperties
    <3>2. (m - 1) + 1 = m
      BY <2>1, <1>2 DEF m
    <3>3. QED BY <2>2, <3>1, <3>2
  <2> HIDE DEF S, x, v, k, l, n
  <2>5. ReaderTypes'
    <3>1. pos' \in 1..(Len(file') + 1)
      BY <1>1, <1>2, <1>5 DEF n
    <3>2. links' \in Seq((1..Len(nodes')) \X (1..Len(nodes')))
      BY <1>1, <2>4 DEF S
    <3>3. QED BY <1>1, <1>2, <1>5, <3>1, <3>2 DEF ReaderTypes
  <2>6. ReaderPlace'
    <3>1. Len(file') >= 2 /\ ~(Len(file') <= 1)
      BY <1>1, <1>2 DEF n
    <3>2. QED BY <1>1, <1>5, <3>1 DEF ReaderPlace
  <2>7. ReadSoFar'
    <3>1. /\ pos' >= 3 /\ Least(pos' - 3, k) = k /\ ~(pos' <= k + 3)
          /\ Least(pos' - (k + 3), l) = m /\ ~(pos' > k + l + 3)
      BY <1>2, <1>5 DEF Least
    <3>2. ASSUME NEW i \in 1..m PROVE LinkAsWritten(i)'
      <4>1. CASE i = m
        <5>1. nodes[links'[m][1]].id = LinksOf(graph)[m][1] /\ nodes[links'[m][2]].id = LinksOf(graph)[m][2]
          BY <2>1, <2>3, <2>4
        <5>2. QED BY <1>1, <4>1, <5>1 DEF LinkAsWritten
      <4>2. CASE i # m
        <5>1. i \in 1..(m - 1)
          BY <1>2, <2>1, <4>2
        <5>2. links'[i] = links[i] /\ LinkAsWritten(i)
          BY <2>2, <2>4, <5>1
        <5>3. QED BY <1>1, <5>2 DEF LinkAsWritten
      <4>3. QED BY <4>1, <4>2
    <3>3. \A i \in 1..Len(nodes) : NodeAsWritten(i)'
      BY <1>1, <1>2 DEF NodeAsWritten
    <3>4. graph' = graph /\ nodes' = nodes /\ size' = k /\ root' = 0 /\ Len(nodes') = k /\ Len(links') = m
      BY <1>1, <1>2, <2>2, <2>4
    <3> HIDE DEF m
    <3>5. QED BY <3>1, <3>2, <3>3, <3>4 DEF ReadSoFar, k, l
  <2>8. QED BY <1>2, <1>3, <2>5, <2>6, <2>7 DEF ReaderKeeps, ReaderInv
<1>6. QED BY <1>1, <1>4, <1>5

\* The root is read and found.
LEMMA ReaderReadRoot ==
    ASSUME FileInv, ReaderInv, ReadRoot
    PROVE  ReaderKeeps
<1> DEFINE n == Len(file)
           k == Len(Kept(graph))
           l == Len(LinksOf(graph))
           v == file[pos].value
<1>1. /\ pc = "record" /\ ~AtEnd /\ tag = "r"
      /\ UNCHANGED <<graph, entry, file, whole, depth, size, node, nodes, links>>
      /\ \/ pc' = "broken" /\ UNCHANGED <<pos, root>>
         \/ root' = Find(v) /\ pos' = pos + 1 /\ pc' = pc
  BY DEF ReadRoot
<1>2. /\ pos \in 3..n /\ n \in Nat /\ k \in Nat /\ l \in Nat
      /\ pos = k + l + 3
      /\ ReaderTypes /\ ReadSoFar /\ IsReadable(graph) /\ ~TextInFile /\ root = 0
      /\ \A i \in 1..Len(nodes) : NodeAsWritten(i)
      /\ IsItem(graph, pos, file[pos])
  BY <1>1, RecordFacts
<1>3. Reads
  BY <1>1 DEF Reads
<1>4. CASE pc' = "broken" /\ UNCHANGED <<pos, root>>
  <2>1. ReaderTypes' /\ (NothingRead => NothingRead')
    <3>1. /\ pc' \in Kinds /\ Len(file') = Len(file) /\ pos' \in 1..(Len(file) + 1)
          /\ depth' \in 1..MaxDepth /\ UNCHANGED <<graph, read>>
      BY <1>1, <1>2, <1>4 DEF Kinds, ReaderTypes, read
    <3>2. QED BY <1>2, <3>1, TypesKept
  <2>2. ReaderPlace'
    <3>1. ~(Len(file') <= 1)
      BY <1>1, <1>2
    <3>2. QED BY <1>4, <3>1 DEF ReaderPlace
  <2>3. QED BY <1>2, <1>3, <1>4, <2>1, <2>2 DEF ReaderKeeps, ReaderInv
<1>5. CASE root' = Find(v) /\ pos' = pos + 1 /\ pc' = pc
  <2>1. v = graph.root
    <3>1. pos >= k + l + 3
      BY <1>2
    <3>2. QED BY <1>2, <3>1 DEF IsItem
  <2>2. /\ Len(nodes) = Least(pos - 3, k) /\ size = k
        /\ Len(links) = IF pos <= k + 3 THEN 0 ELSE Least(pos - (k + 3), l)
        /\ \A i \in 1..Len(links) : LinkAsWritten(i)
    BY <1>2 DEF ReadSoFar
  <2> HIDE DEF v, k, l, n
  <2>3. Find(v) \in 0..Len(nodes)
    <3>1. Len(nodes) \in Nat
      BY <1>2, LenProperties DEF ReaderTypes
    <3>2. QED BY <3>1, FindFacts
  <2>4. ReaderTypes'
    <3>1. pos' \in 1..(Len(file') + 1)
      BY <1>1, <1>2, <1>5 DEF n
    <3>2. QED BY <1>1, <1>2, <1>5, <2>3, <3>1 DEF ReaderTypes
  <2>5. ReaderPlace'
    <3>1. Len(file') >= 2 /\ ~(Len(file') <= 1)
      BY <1>1, <1>2 DEF n
    <3>2. QED BY <1>1, <1>5, <3>1 DEF ReaderPlace
  <2>6. ReadSoFar'
    <3>1. /\ pos' >= 3 /\ Least(pos' - 3, k) = Least(pos - 3, k) /\ ~(pos' <= k + 3)
          /\ Least(pos' - (k + 3), l) = l /\ pos' > k + l + 3
          /\ (IF pos <= k + 3 THEN 0 ELSE Least(pos - (k + 3), l)) = l
      BY <1>2, <1>5 DEF Least
    <3>2. \A i \in 1..Len(nodes) : NodeAsWritten(i)'
      BY <1>1, <1>2 DEF NodeAsWritten
    <3>3. \A i \in 1..Len(links) : LinkAsWritten(i)'
      BY <1>1, <2>2 DEF LinkAsWritten
    <3>4. root' = Find(graph.root)'
      <4>1. Find(graph.root)' = Find(graph.root)
        BY <1>1, FindGraphRootSame
      <4>2. QED BY <1>5, <2>1, <4>1
    <3>5. graph' = graph /\ nodes' = nodes /\ links' = links /\ size' = k
      BY <1>1, <2>2
    <3>6. QED BY <2>2, <3>1, <3>2, <3>3, <3>4, <3>5 DEF ReadSoFar, k, l
  <2>7. QED BY <1>2, <1>3, <2>4, <2>5, <2>6 DEF ReaderKeeps, ReaderInv
<1>6. QED BY <1>1, <1>4, <1>5

-----------------------------------------------------------------------------
(***************************************************************************)
(* Steps after which nothing has been read.                                *)
(***************************************************************************)
StillUnread == FileInv /\ Unread /\ pc \in {"dot", "write", "magic", "get"}

\* With nothing read the reader's invariant holds.
LEMMA UnreadIsReadable == StillUnread => ReaderInv
<1> SUFFICES ASSUME StillUnread PROVE ReaderInv
  OBVIOUS
<1>1. /\ FileInv /\ pc \in {"dot", "write", "magic", "get"}
      /\ depth = 1 /\ pos = 1 /\ size = 0 /\ node = Node(0, 0)
      /\ nodes = <<>> /\ links = <<>> /\ root = 0
  BY DEF StillUnread, Unread
<1>2. Len(file) \in Nat /\ MaxDepth \in Nat \ {0}
  BY <1>1, LenProperties, GraphFileAssumption DEF FileInv
<1>3. ReaderTypes
  <2>1. node \in NodesOfReader(graph)
    BY <1>1, NothingIsTyped
  <2>2. nodes \in Seq(NodesOfReader(graph)) /\ Len(nodes) = 0
    BY <1>1
  <2>3. links \in Seq((1..Len(nodes)) \X (1..Len(nodes)))
    BY <1>1
  <2>4. QED BY <1>1, <1>2, <2>1, <2>2, <2>3 DEF ReaderTypes
<1>4. ReaderPlace
  BY <1>1 DEF ReaderPlace, NothingRead
<1>5. QED BY <1>1, <1>3, <1>4 DEF ReaderInv

\* A step of the writer reads nothing.
LEMMA FileOfWriter ==
    ASSUME FileInv, WriteItem \/ EndWrite \/ StopWriter
    PROVE  FileInv' /\ StillUnread' /\ GraphInFile'
<1>1. FileInv' /\ GraphInFile'
  BY FileWriteItem, FileEndWrite, FileStopWriter
<1>2. pc = "write" /\ UNCHANGED <<depth, pos, read>> /\ pc' \in {"write", "magic", "get"}
  BY DEF WriteItem, EndWrite, StopWriter, Start
<1>3. Unread /\ Unread'
  BY <1>2 DEF FileInv, Unread, read
<1>4. QED BY <1>1, <1>2, <1>3 DEF StillUnread

\* Each step of the file's writer and of its readers.
LEMMA FileNext ==
    ASSUME FileInv, ReaderInv, Next
    PROVE  FileInv' /\ ReaderInv' /\ (GraphInFile => GraphInFile')
           /\ pc # "dot" /\ pc' # "dot" /\ graph' = graph
<1>1. CASE WriteItem \/ EndWrite \/ StopWriter
  <2>1. StillUnread => ReaderInv
    BY UnreadIsReadable
  <2>2. (StillUnread => ReaderInv)'
    BY UnreadIsReadable, PTL
  <2>3. QED BY <1>1, <2>2, FileOfWriter DEF WriteItem, EndWrite, StopWriter, Start
<1>2. CASE CheckMagic \/ ReadCount \/ ReadNode \/ ReadLink \/ ReadRoot \/ EndFile
           \/ Broken \/ GetMagic \/ Parse
  <2>1. ReaderKeeps
    BY <1>2, ReaderCheckMagic, ReaderReadCount, ReaderReadNode, ReaderReadLink, ReaderReadRoot,
       ReaderEndFile, ReaderBroken, ReaderGetMagic, ReaderParse
  <2>2. Reads /\ ReaderInv' /\ (TextInFile => TextInFile')
    BY <2>1 DEF ReaderKeeps
  <2>3. FileInv' /\ (GraphInFile => GraphInFile')
    BY <2>2, FileReads
  <2>4. QED BY <2>2, <2>3 DEF Reads
<1>3. CASE Done
  <2>1. UNCHANGED vars /\ pc # "dot"
    BY <1>3 DEF Done
  <2>2. UNCHANGED vars => (FileInv => FileInv') /\ (ReaderInv => ReaderInv')
                          /\ (GraphInFile => GraphInFile')
    BY SMTT(30) DEF FileInv, GraphInFile, TextInFile, IsWritten, Unread, ReaderInv, ReaderTypes,
           ReaderPlace, NothingRead, ReadSoFar, NodeAsWritten, LinkAsWritten, Find, SelectInSeq,
           vars, read
  <2>3. QED BY <2>1, <2>2 DEF vars
<1>4. QED BY <1>1, <1>2, <1>3 DEF Next

-----------------------------------------------------------------------------
(***************************************************************************)
(* The symbol of a node, from its options.                                 *)
(***************************************************************************)
Options == [id : {"label", "symb", "other"}, value : DOMAIN strToSymb]
Symbols == [symb : Int, hasSymb : BOOLEAN]
NoSymbol == [symb |-> Dot2Graph!INST_SEQ, hasSymb |-> FALSE]

UpdatesAlong(r, options) ==
    /\ r[0] = NoSymbol
    /\ \A k \in 1..Len(options) :
          r[k] = Dot2Graph!Update(r[k - 1], options[(Len(options) - k) + 1])
    /\ Dot2Graph!symb(options) = r[Len(options)].symb

\* Update takes a symbol to a symbol.
LEMMA UpdateTyped ==
    ASSUME NEW w \in Symbols, NEW o \in Options
    PROVE  Dot2Graph!Update(w, o) \in Symbols
<1>1. strToSymb[o.value] \in Int
  BY Dot2EdgAssumption DEF Dot2Graph!AreTexts, Options
<1>2. [w EXCEPT !.symb = strToSymb[o.value]] \in Symbols
  BY <1>1 DEF Symbols
<1>3. [symb |-> strToSymb[o.value], hasSymb |-> TRUE] \in Symbols
  BY <1>1 DEF Symbols
<1>4. QED BY <1>2, <1>3 DEF Dot2Graph!Update

\* The list of options is folded from its end.
LEMMA UpdateTrace ==
    ASSUME NEW options \in Seq(Options)
    PROVE  \E r \in [0..Len(options) -> Symbols] : UpdatesAlong(r, options)
<1> DEFINE n == Len(options)
           D == 1..n
           kids == Dot2Graph!Reverse(options)
           up(w, o) == Dot2Graph!Update(w, o)
           step == [x \in D \X Symbols |-> up(x[2], kids[x[1]])]
           Q(h) == h = [S \in SUBSET D |->
                          IF S = {} THEN NoSymbol ELSE up(h[S \ {Max(S)}], kids[Max(S)])]
           G == CHOOSE h : Q(h)
           mx == MaxIn(n)
<1>1. n \in Nat /\ \A k \in D : options[k] \in Options
  BY ElementOfSeq, LenProperties
<1>2. ASSUME NEW k \in D PROVE kids[k] \in Options /\ kids[k] = options[(n - k) + 1]
  <2>1. (n - k) + 1 \in D
    BY <1>1
  <2>2. QED BY <1>1, <2>1 DEF Dot2Graph!Reverse
<1>3. Dot2Graph!symb(options) = G[D].symb
  <2>1. DOMAIN kids = D
    BY DEF Dot2Graph!Reverse
  <2>2. QED
    BY <2>1 DEF Dot2Graph!symb, Dot2Graph!FoldLeft, Dot2Graph!MapThenFoldSet, NoSymbol,
                Dot2Graph!Max, Max
<1> HIDE DEF kids
<1>4. \A w \in Symbols, o \in Options : up(w, o) \in Symbols
  BY UpdateTyped
<1> HIDE DEF up
<1>5. /\ IsFiniteSet(D) /\ Chooses(mx, D)
      /\ \A S \in (SUBSET D) \ {{}} : Max(S) \in S
      /\ \A k \in D : Max(1..k) = k /\ (1..k) \ {k} = 1..(k - 1)
  BY <1>1, MaxChosen
<1>6. \A S \in SUBSET D : S # {} => Max(S) \in D /\ mx[S] = Max(S)
  BY <1>5 DEF MaxIn
<1> HIDE DEF mx
<1>7. FoldsIn(step, D, Symbols)
  BY <1>2, <1>4 DEF FoldsIn
<1>8. NoSymbol \in Symbols
  BY DEF NoSymbol, Symbols, Dot2Graph!INST_SEQ
<1>9. PICK g \in [SUBSET D -> Symbols] : \A S \in SUBSET D : FoldsTo(g, step, NoSymbol, mx, S)
  <2> HIDE DEF step, D
  <2>1. HasFold(step, NoSymbol, mx, D, Symbols)
    BY <1>5, <1>7, <1>8, FoldExists
  <2>2. QED BY <2>1 DEF HasFold
<1>10. Q(g)
  <2>1. ASSUME NEW S \in SUBSET D, S # {}
        PROVE  g[S] = up(g[S \ {Max(S)}], kids[Max(S)])
    <3>1. Max(S) \in D /\ mx[S] = Max(S) /\ S \ {Max(S)} \in SUBSET D
      BY <1>6, <2>1
    <3>2. g[S \ {Max(S)}] \in Symbols
      BY <1>9, <3>1
    <3>3. g[S] = step[<<Max(S), g[S \ {Max(S)}]>>]
      BY <1>9, <2>1, <3>1 DEF FoldsTo
    <3> HIDE DEF D
    <3>4. QED BY <3>1, <3>2, <3>3
  <2>2. g[{}] = NoSymbol
    BY <1>9 DEF FoldsTo
  <2> HIDE DEF D
  <2>3. \A S \in SUBSET D : g[S] = IF S = {} THEN NoSymbol
                                   ELSE up(g[S \ {Max(S)}], kids[Max(S)])
    BY <2>1, <2>2
  <2>4. QED BY <1>9, <2>3
<1>11. Q(G)
  <2> HIDE DEF Q
  <2>1. QED BY <1>10
<1> HIDE DEF G
<1>12. \A S \in SUBSET D : G[S] = IF S = {} THEN NoSymbol
                                  ELSE up(G[S \ {Max(S)}], kids[Max(S)])
  <2> HIDE DEF D
  <2>1. QED BY <1>11, Zenon
<1> HIDE DEF Q
<1> DEFINE r == [k \in 0..n |-> G[1..k]]
           Good == {k \in 0..n : r[k] \in Symbols}
<1>13. r[0] = NoSymbol
  <2>1. 1..0 = {} /\ {} \in SUBSET D /\ r[0] = G[1..0]
    BY <1>1
  <2>2. QED BY <1>12, <2>1
<1>14. ASSUME NEW k \in 1..n PROVE r[k] = up(r[k - 1], kids[k])
  <2>1. 1..k \in SUBSET D /\ 1..k # {} /\ Max(1..k) = k /\ (1..k) \ {k} = 1..(k - 1)
    BY <1>1, <1>5
  <2>2. r[k] = G[1..k] /\ r[k - 1] = G[1..(k - 1)]
    BY <1>1
  <2> HIDE DEF r, D
  <2>3. QED BY <1>12, <2>1, <2>2
<1>15. r[n] = G[D]
  BY <1>1
<1>16. 0..n \subseteq Good
  <2>1. 0 \in Good
    BY <1>1, <1>8, <1>13
  <2>2. ASSUME NEW k \in 0..n, k \in Good, k < n PROVE k + 1 \in Good
    <3>1. k + 1 \in 1..n /\ k + 1 \in 0..n /\ (k + 1) - 1 = k
      BY <1>1, <2>2
    <3>2. r[k + 1] = up(r[k], kids[k + 1])
      BY <1>14, <3>1
    <3> HIDE DEF r
    <3>3. r[k + 1] \in Symbols
      BY <1>2, <1>4, <2>2, <3>1, <3>2
    <3>4. QED BY <3>1, <3>3
  <2> HIDE DEF Good
  <2>3. QED BY <1>1, <2>1, <2>2, SetInductionUpTo
<1>17. r \in [0..n -> Symbols]
  <2>1. \A k \in 0..n : r[k] \in Symbols
    BY <1>16
  <2>2. r = [k \in 0..n |-> r[k]]
    OBVIOUS
  <2> HIDE DEF r
  <2>3. QED BY <2>1, <2>2
<1> HIDE DEF r
<1>18. UpdatesAlong(r, options)
  <2>1. \A k \in 1..n : r[k] = up(r[k - 1], options[(n - k) + 1])
    BY <1>2, <1>14
  <2>2. Dot2Graph!symb(options) = r[n].symb
    BY <1>3, <1>15
  <2>3. QED BY <1>13, <2>1, <2>2 DEF UpdatesAlong, up
<1>19. QED BY <1>17, <1>18

\* FirstOf is the least position.
LEMMA FirstOfFacts ==
    ASSUME NEW S, S \subseteq Nat
    PROVE  /\ S # {} => /\ Dot2Graph!FirstOf(S) \in S
                        /\ \A o \in S : Dot2Graph!FirstOf(S) <= o
           /\ \A x \in S : (\A o \in S : x <= o) => Dot2Graph!FirstOf(S) = x
<1>1. Dot2Graph!FirstOf(S) = Min(S)
  BY DEF Dot2Graph!FirstOf, Min
<1>2. S # {} => Min(S) \in S /\ \A o \in S : Min(S) <= o
  BY LeastIsIn
<1>3. ASSUME NEW x \in S, \A o \in S : x <= o PROVE Min(S) = x
  <2>1. Min(S) \in S /\ Min(S) <= x /\ x <= Min(S)
    BY <1>2, <1>3
  <2>2. Min(S) \in Nat /\ x \in Nat
    BY <2>1
  <2>3. QED BY <2>1, <2>2
<1>4. QED BY <1>1, <1>2, <1>3

\* The same, as the text has it: the first symb, or else the first label.
LEMMA SymbolIsOfText ==
    ASSUME NEW options \in Seq(Options)
    PROVE  Dot2Graph!symb(options) = Dot2Graph!SymbolOf(options)
           /\ Dot2Graph!symb(options) \in Int
<1> DEFINE n == Len(options)
           With(id, a) == {i \in 1..n : i >= a /\ options[i].id = id}
           First(S) == Dot2Graph!FirstOf(S)
           value(S) == strToSymb[options[First(S)].value]
           From(a) == IF With("symb", a) # {} THEN value(With("symb", a))
                      ELSE IF With("label", a) # {} THEN value(With("label", a))
                      ELSE Dot2Graph!INST_SEQ
<1>1. n \in Nat /\ DOMAIN options = 1..n /\ \A k \in 1..n : options[k] \in Options
  BY ElementOfSeq, LenProperties
<1>2. PICK r \in [0..n -> Symbols] : UpdatesAlong(r, options)
  BY UpdateTrace
<1>3. /\ r[0] = NoSymbol
      /\ \A k \in 1..n : r[k] = Dot2Graph!Update(r[k - 1], options[(n - k) + 1])
      /\ Dot2Graph!symb(options) = r[n].symb
  BY <1>2 DEF UpdatesAlong
<1> DEFINE Is(w, a) == w.symb = From(a) /\ (w.hasSymb <=> With("symb", a) # {})
           Good == {k \in 0..n : Is(r[k], (n - k) + 1)}
<1> HIDE DEF n
<1>4. Is(NoSymbol, n + 1)
  <2>1. \A id : With(id, n + 1) = {}
    BY <1>1
  <2>2. From(n + 1) = Dot2Graph!INST_SEQ
    BY <2>1
  <2>3. QED BY <2>1, <2>2 DEF NoSymbol
<1>5. ASSUME NEW a \in 1..n, NEW w \in Symbols, Is(w, a + 1)
      PROVE  Is(Dot2Graph!Update(w, options[a]), a)
  <2> DEFINE o == options[a]
             x == Dot2Graph!Update(w, o)
  <2>1. o \in Options /\ o.id \in {"label", "symb", "other"}
    BY <1>1 DEF Options
  <2>2. ASSUME NEW id, o.id # id PROVE With(id, a) = With(id, a + 1)
    <3>1. \A i \in 1..n : i >= a <=> i >= a + 1 \/ i = a
      BY <1>1
    <3>2. QED BY <2>2, <3>1
  <2>3. ASSUME NEW id, o.id = id PROVE With(id, a) # {} /\ value(With(id, a)) = strToSymb[o.value]
    <3> DEFINE S == With(id, a)
    <3>1. a \in S /\ S \subseteq Nat /\ \A i \in S : a <= i
      BY <1>1, <2>3
    <3> HIDE DEF S
    <3>2. Dot2Graph!FirstOf(S) = a /\ S # {}
      BY <3>1, FirstOfFacts
    <3>3. QED BY <3>2 DEF S
  <2> HIDE DEF With, value
  <2>4. /\ w.hasSymb \in BOOLEAN
        /\ [w EXCEPT !.symb = strToSymb[o.value]].symb = strToSymb[o.value]
        /\ [w EXCEPT !.symb = strToSymb[o.value]].hasSymb = w.hasSymb
    BY DEF Symbols
  <2>5. w.symb = From(a + 1) /\ (w.hasSymb <=> With("symb", a + 1) # {})
    BY <1>5
  <2>6. CASE o.id = "symb"
    <3>1. x = [symb |-> strToSymb[o.value], hasSymb |-> TRUE]
      BY <2>6 DEF Dot2Graph!Update
    <3>2. With("symb", a) # {} /\ value(With("symb", a)) = strToSymb[o.value]
      BY <2>3, <2>6
    <3>3. QED BY <3>1, <3>2
  <2>7. CASE o.id = "label"
    <3>1. With("symb", a) = With("symb", a + 1)
      BY <2>2, <2>7
    <3>2. With("label", a) # {} /\ value(With("label", a)) = strToSymb[o.value]
      BY <2>3, <2>7
    <3>3. CASE w.hasSymb
      <4>1. x = w
        BY <2>7, <3>3 DEF Dot2Graph!Update
      <4>2. From(a) = From(a + 1)
        BY <2>5, <3>1, <3>3
      <4>3. QED BY <2>5, <3>1, <4>1, <4>2
    <3>4. CASE ~w.hasSymb
      <4>1. x = [w EXCEPT !.symb = strToSymb[o.value]]
        BY <2>7, <3>4 DEF Dot2Graph!Update
      <4>2. From(a) = strToSymb[o.value]
        BY <2>5, <3>1, <3>2, <3>4
      <4>3. QED BY <2>4, <2>5, <3>1, <4>1, <4>2
    <3>5. QED BY <3>3, <3>4
  <2>8. CASE o.id = "other"
    <3>1. With("symb", a) = With("symb", a + 1) /\ With("label", a) = With("label", a + 1)
      BY <2>2, <2>8
    <3>2. x = w
      BY <2>8 DEF Dot2Graph!Update
    <3>3. QED BY <2>5, <3>1, <3>2
  <2>9. QED BY <2>1, <2>6, <2>7, <2>8
<1> HIDE DEF Is
<1>6. n \in Good
  <2>1. 0 \in Good
    <3>1. (n - 0) + 1 = n + 1 /\ 0 \in 0..n
      BY <1>1
    <3>2. QED BY <1>3, <1>4, <3>1
  <2>2. ASSUME NEW k \in 0..n, k \in Good, k < n PROVE k + 1 \in Good
    <3> DEFINE a == n - k
    <3>1. /\ k + 1 \in 1..n /\ k + 1 \in 0..n /\ (k + 1) - 1 = k /\ a \in 1..n
          /\ (n - (k + 1)) + 1 = a /\ (n - k) + 1 = a + 1
      BY <1>1, <2>2
    <3>2. r[k + 1] = Dot2Graph!Update(r[k], options[a]) /\ r[k] \in Symbols
      BY <1>3, <3>1
    <3>3. Is(r[k], a + 1)
      BY <2>2, <3>1
    <3> HIDE DEF a
    <3>4. Is(r[k + 1], a)
      BY <1>5, <3>1, <3>2, <3>3
    <3>5. QED BY <3>1, <3>4
  <2> HIDE DEF Good
  <2>3. 0..n \subseteq Good
    BY <1>1, <2>1, <2>2, SetInductionUpTo
  <2>4. QED BY <1>1, <2>3
<1>7. r[n].symb = From(1)
  <2>1. (n - n) + 1 = 1
    BY <1>1
  <2>2. QED BY <1>6, <2>1 DEF Is
<1>8. \A id : With(id, 1) = Dot2Graph!OptionsWith(options, id)
  BY <1>1 DEF Dot2Graph!OptionsWith
<1>9. From(1) = Dot2Graph!SymbolOf(options)
  <2> HIDE DEF With
  <2>1. QED BY <1>8 DEF Dot2Graph!SymbolOf
<1>10. r[n].symb \in Int
  <2>1. n \in 0..n
    BY <1>1
  <2>2. r[n] \in Symbols
    BY <1>2, <2>1
  <2>3. QED BY <2>2 DEF Symbols
<1>11. QED BY <1>3, <1>7, <1>9, <1>10

-----------------------------------------------------------------------------
(***************************************************************************)
(* The grammar.                                                            *)
(***************************************************************************)
\* A statement is an edge between two names or a node with options.
LEMMA StatementFacts ==
    ASSUME text \in Seq(Dot2Graph!Statements), NEW k \in 1..Len(text), text[k] # Error
    PROVE  \/ /\ text[k].kind = "edge" /\ text[k].father \in Names /\ text[k].child \in Names
              /\ hash[text[k].father] \in Nat /\ hash[text[k].child] \in Nat
           \/ /\ text[k].kind = "node" /\ text[k].name \in Names /\ hash[text[k].name] \in Nat
              /\ text[k].options \in Seq(Options)
<1>1. hash \in [Names -> Nat]
  BY Dot2EdgAssumption DEF Dot2Graph!AreTexts
<1>2. text[k] \in Dot2Graph!Statements
  BY ElementOfSeq
<1>3. \/ text[k] \in [kind : {"edge"}, father : Names, child : Names]
      \/ text[k] \in [kind : {"node"}, name : Names, options : Seq(Options)]
  BY <1>2 DEF Dot2Graph!Statements, Options
<1> DEFINE x == text[k]
           S == Seq(Options)
<1> HIDE DEF x, S
<1>4. ASSUME x \in [kind : {"edge"}, father : Names, child : Names]
      PROVE  /\ x.kind = "edge" /\ x.father \in Names /\ x.child \in Names
             /\ hash[x.father] \in Nat /\ hash[x.child] \in Nat
  BY <1>1, <1>4
<1>5. ASSUME x \in [kind : {"node"}, name : Names, options : S]
      PROVE  x.kind = "node" /\ x.name \in Names /\ hash[x.name] \in Nat /\ x.options \in S
  BY <1>1, <1>5
<1>6. QED BY <1>3, <1>4, <1>5 DEF x, S

\* What the dictionary knows of a number.
LEMMA DictFacts ==
    ASSUME DotTypes, DictInv, NEW id
    PROVE  /\ \A q \in Dot2Graph!dict_find(id) :
                 /\ <<id, q>> \in nodes_dict /\ q \in Pointers /\ q.at \in 1..Len(storage)
                 /\ storage[q.at].node_id = id
           /\ \A i \in 1..Len(storage) : storage[i].node_id = id => Dot2Graph!dict_find(id) # {}
<1>1. ASSUME NEW q \in Dot2Graph!dict_find(id)
      PROVE  /\ <<id, q>> \in nodes_dict /\ q \in Pointers /\ q.at \in 1..Len(storage)
             /\ storage[q.at].node_id = id
  <2>1. PICK p \in nodes_dict : p[1] = id /\ q = p[2]
    BY DEF Dot2Graph!dict_find
  <2>2. /\ p \in Nat \X Pointers /\ p[2].at \in 1..Len(storage)
        /\ p[1] = storage[p[2].at].node_id
    BY DEF DictInv
  <2>3. p = <<id, q>>
    BY <2>1, <2>2
  <2>4. QED BY <2>1, <2>2, <2>3
<1>2. ASSUME NEW i \in 1..Len(storage), storage[i].node_id = id
      PROVE  Dot2Graph!dict_find(id) # {}
  <2>1. PICK p \in nodes_dict : p[2].at = i
    BY DEF DictInv
  <2>2. p[1] = id
    BY <1>2, <2>1 DEF DictInv
  <2>3. p[2] \in Dot2Graph!dict_find(id)
    BY <2>2 DEF Dot2Graph!dict_find
  <2>4. QED BY <2>3
<1>3. QED BY <1>1, <1>2

\* A statement of a number that no node has yet is the first one.
LEMMA NewIsFirst ==
    ASSUME text \in Seq(Dot2Graph!Statements), NodesInv, dotPc = "nodes",
           dotPos \in 1..Len(text), text[dotPos].kind = "node",
           \A i \in 1..Len(storage) : storage[i].node_id # hash[text[dotPos].name]
    PROVE  /\ dotPos \in NodesNamed(text, hash[text[dotPos].name])
           /\ FirstNamed(text, hash[text[dotPos].name]) = dotPos
<1> DEFINE id == hash[text[dotPos].name]
           S == NodesNamed(text, id)
<1>1. DOMAIN text = 1..Len(text) /\ Len(text) \in Nat
  BY LenProperties
<1>2. dotPos \in S /\ S \subseteq Nat
  BY <1>1 DEF NodesNamed
<1>3. ASSUME NEW k \in S PROVE dotPos <= k
  <2>1. k \in 1..Len(text) /\ text[k].kind = "node" /\ hash[text[k].name] = id
    BY <1>1 DEF NodesNamed
  <2>2. ~WasRead(k)
    <3>1. WasRead(k) => \E i \in 1..Len(storage) : storage[i].node_id = hash[text[k].name]
      BY <1>1, <2>1 DEF NodesInv
    <3>2. QED BY <2>1, <3>1
  <2>3. QED BY <1>1, <2>1, <2>2 DEF WasRead
<1> HIDE DEF S
<1>4. Dot2Graph!FirstOf(S) = dotPos
  BY <1>2, <1>3, FirstOfFacts
<1>5. QED BY <1>2, <1>4 DEF S, FirstNamed

\* addNodeToGraph: the node is new or known, the array moves or not.
LEMMA DotAddNode ==
    ASSUME DotInv, Dot2Graph!AddNode
    PROVE  DotInv'
<1> DEFINE n == Len(storage)
           s == text[dotPos]
           id == hash[s.name]
           x == [node_id |-> id, symb |-> Dot2Graph!symb(s.options),
                 children |-> <<>>, fathers |-> <<>>]
           q == Dot2Graph!Pointer(n + 1, moved')
<1>1. DotTypes /\ DictInv /\ RootInv /\ NodesInv /\ EdgesInv
  BY DEF DotInv
<1>2. /\ dotPc = "nodes" /\ dotPos \in 1..Len(text) /\ s # Error /\ s.kind = "node"
      /\ dotPos' = dotPos + 1 /\ text' = text /\ dotPc' = dotPc
      /\ Len(text) \in Nat /\ DOMAIN text = 1..Len(text)
      /\ n \in Nat /\ storage \in Seq(ListNodes) /\ moved \in 0..n
      /\ text \in Seq(Dot2Graph!Statements)
  BY <1>1, LenProperties DEF Dot2Graph!AddNode, Dot2Graph!IsNode, DotTypes
<1>3. s.name \in Names /\ id \in Nat /\ s.options \in Seq(Options)
  BY <1>2, StatementFacts
<1>4. x \in ListNodes /\ x.symb = Dot2Graph!SymbolOf(s.options)
  <2>1. Dot2Graph!symb(s.options) = Dot2Graph!SymbolOf(s.options)
        /\ Dot2Graph!symb(s.options) \in Int
    BY <1>3, SymbolIsOfText
  <2>2. QED BY <1>3, <2>1 DEF ListNodes
<1>5. ASSUME NEW k \in DOMAIN text
      PROVE  /\ WasRead(k) <=> k < dotPos
             /\ WasRead(k)' <=> k < dotPos \/ k = dotPos
  BY <1>2 DEF WasRead
<1>6. \/ /\ Dot2Graph!IsNew(id) /\ storage' = Append(storage, x)
         /\ moved' \in {moved, moved + 1}
         /\ nodes_dict' = nodes_dict \cup {<<id, Dot2Graph!Pointer(Len(storage'), moved')>>}
      \/ ~Dot2Graph!IsNew(id) /\ UNCHANGED <<storage, moved, nodes_dict>>
  BY DEF Dot2Graph!AddNode
<1>7. dotRoot' = IF Len(storage') = 1 THEN Dot2Graph!Outside(id) ELSE dotRoot
  BY DEF Dot2Graph!AddNode
<1>8. Dot2Graph!Outside(id) # Dot2Graph!NULL /\ Dot2Graph!Outside(id).node_id = id
  BY <1>3 DEF Dot2Graph!Outside, Dot2Graph!NULL
<1> HIDE DEF x, q, id, s, n
<1>9. CASE /\ Dot2Graph!IsNew(id) /\ storage' = Append(storage, x)
           /\ moved' \in {moved, moved + 1}
           /\ nodes_dict' = nodes_dict \cup {<<id, Dot2Graph!Pointer(Len(storage'), moved')>>}
  <2>1. /\ storage' \in Seq(ListNodes) /\ Len(storage') = n + 1 /\ storage'[n + 1] = x
        /\ \A i \in 1..n : storage'[i] = storage[i]
    BY <1>2, <1>4, <1>9, AppendProperties DEF n
  <2>2. nodes_dict' = nodes_dict \cup {<<id, q>>} /\ q \in Pointers /\ q.at = n + 1
    BY <1>2, <1>9, <2>1 DEF q, Dot2Graph!Pointer, Pointers
  <2>3. /\ x.node_id = id /\ x.children = <<>> /\ x.fathers = <<>>
    BY DEF x
  <2>4. /\ \A i \in 1..(n + 1) : i \in 1..n \/ i = n + 1
        /\ 1..n \subseteq 1..(n + 1) /\ n + 1 \in 1..(n + 1) /\ n + 1 \in Nat
        /\ n + 1 # 0
    BY <1>2
  <2>5. \A i \in 1..n : storage[i].node_id # id
    <3>1. Dot2Graph!dict_find(id) = {}
      BY <1>9 DEF Dot2Graph!IsNew
    <3>2. QED BY <1>1, <3>1, DictFacts DEF n
  <2>6. dotPos \in NodesNamed(text, id) /\ FirstNamed(text, id) = dotPos
    BY <1>1, <1>2, <2>5, NewIsFirst DEF n, id, s
  <2>7. DotTypes'
    <3>1. moved' \in 0..(n + 1) /\ dotPos' \in 1..(Len(text) + 1)
      BY <1>2, <1>9
    <3>2. QED BY <1>1, <1>2, <2>1, <3>1 DEF DotTypes
  <2>8. DictInv'
    <3>1. ASSUME NEW p \in nodes_dict'
          PROVE  /\ p \in Nat \X Pointers /\ p[2].at \in 1..(n + 1)
                 /\ p[1] = storage'[p[2].at].node_id
      <4>1. CASE p \in nodes_dict
        <5>1. p \in Nat \X Pointers /\ p[2].at \in 1..n /\ p[1] = storage[p[2].at].node_id
          BY <1>1, <4>1 DEF DictInv, n
        <5>2. QED BY <2>1, <2>4, <5>1
      <4>2. CASE p = <<id, q>>
        BY <1>3, <2>1, <2>2, <2>3, <2>4, <4>2
      <4>3. QED BY <2>2, <4>1, <4>2
    <3>2. ASSUME NEW i \in 1..(n + 1) PROVE \E p \in nodes_dict' : p[2].at = i
      <4>1. CASE i \in 1..n
        <5>1. PICK p \in nodes_dict : p[2].at = i
          BY <1>1, <4>1 DEF DictInv, n
        <5>2. QED BY <2>2, <5>1
      <4>2. CASE i = n + 1
        <5>1. <<id, q>> \in nodes_dict' /\ <<id, q>>[2].at = i
          BY <2>2, <4>2
        <5>2. QED BY <5>1
      <4>3. QED BY <2>4, <4>1, <4>2
    <3>3. ASSUME NEW p \in nodes_dict', NEW r \in nodes_dict', p[1] = r[1] PROVE p = r
      <4>1. \A y \in nodes_dict : y[1] # id
        BY <1>1, <2>5 DEF DictInv, n
      <4>2. <<id, q>>[1] = id
        OBVIOUS
      <4>3. \A y, z \in nodes_dict : y[1] = z[1] => y = z
        BY <1>1 DEF DictInv
      <4>4. QED BY <2>2, <3>3, <4>1, <4>2, <4>3
    <3>4. QED BY <1>2, <2>1, <3>1, <3>2, <3>3 DEF DictInv
  <2>9. RootInv'
    <3>1. storage' # <<>>
      BY <2>1, <2>4
    <3>2. CASE n = 0
      <4>1. Len(storage') = 1 /\ storage'[1] = x
        BY <2>1, <3>2
      <4>2. dotRoot' = Dot2Graph!Outside(id)
        BY <1>7, <4>1
      <4>3. QED BY <1>8, <2>3, <3>1, <4>1, <4>2 DEF RootInv
    <3>3. CASE n # 0
      <4>1. dotRoot' = dotRoot /\ 1 \in 1..n
        BY <1>2, <1>7, <2>1, <3>3
      <4>2. storage # <<>>
        BY <3>3 DEF n
      <4>3. dotRoot # Dot2Graph!NULL /\ dotRoot.node_id = storage[1].node_id
        BY <1>1, <4>2 DEF RootInv
      <4>4. Dot2Graph!NULL' = Dot2Graph!NULL
        BY DEF Dot2Graph!NULL, Dot2Graph!Outside
      <4>5. QED BY <2>1, <3>1, <4>1, <4>3, <4>4 DEF RootInv
    <3>4. QED BY <3>2, <3>3
  <2>10. NodesInv'
    <3>1. \A k \in DOMAIN text : WasRead(k)' => text[k] # Error /\ text[k].kind = "node"
      BY <1>1, <1>2, <1>5 DEF NodesInv, s
    <3>2. ASSUME NEW k \in DOMAIN text, text[k].kind = "node", WasRead(k)'
          PROVE  \E i \in 1..(n + 1) : storage'[i].node_id = hash[text[k].name]
      <4>1. CASE k = dotPos
        BY <2>1, <2>3, <2>4, <4>1 DEF id, s
      <4>2. CASE k # dotPos
        <5>1. WasRead(k)
          BY <1>5, <3>2, <4>2
        <5>2. PICK i \in 1..n : storage[i].node_id = hash[text[k].name]
          BY <1>1, <1>2, <3>2, <5>1 DEF NodesInv, n
        <5>3. QED BY <2>1, <2>4, <5>2
      <4>3. QED BY <4>1, <4>2
    <3>3. ASSUME NEW i \in 1..n
          PROVE  /\ FirstNamed(text, storage[i].node_id) \in NodesNamed(text, storage[i].node_id)
                 /\ WasRead(FirstNamed(text, storage[i].node_id))
                 /\ FirstNamed(text, storage[i].node_id) < dotPos
                 /\ storage[i].symb
                      = Dot2Graph!SymbolOf(text[FirstNamed(text, storage[i].node_id)].options)
      <4> DEFINE k == FirstNamed(text, storage[i].node_id)
      <4>1. /\ k \in NodesNamed(text, storage[i].node_id) /\ WasRead(k)
            /\ storage[i].symb = Dot2Graph!SymbolOf(text[k].options)
        BY <1>1, <1>2 DEF NodesInv, n
      <4>2. k \in DOMAIN text
        BY <4>1 DEF NodesNamed
      <4> HIDE DEF k
      <4>3. k < dotPos
        BY <1>5, <4>1, <4>2
      <4>4. QED BY <4>1, <4>3 DEF k, WasRead
    <3>4. ASSUME NEW i \in 1..(n + 1)
          PROVE  /\ FirstNamed(text, storage'[i].node_id) \in NodesNamed(text, storage'[i].node_id)
                 /\ dotPc' = "nodes" => FirstNamed(text, storage'[i].node_id) < dotPos'
                 /\ storage'[i].symb
                      = Dot2Graph!SymbolOf(text[FirstNamed(text, storage'[i].node_id)].options)
      <4>1. CASE i \in 1..n
        <5>1. /\ FirstNamed(text, storage[i].node_id) < dotPos
              /\ FirstNamed(text, storage[i].node_id) \in NodesNamed(text, storage[i].node_id)
          BY <3>3, <4>1
        <5>2. FirstNamed(text, storage[i].node_id) \in Nat
          BY <1>2, <5>1 DEF NodesNamed
        <5>3. FirstNamed(text, storage[i].node_id) < dotPos + 1
          BY <1>2, <5>1, <5>2
        <5>4. QED BY <1>2, <2>1, <3>3, <4>1, <5>3
      <4>2. CASE i = n + 1
        <5>1. dotPos < dotPos + 1
          BY <1>2
        <5>2. QED BY <1>2, <1>4, <2>1, <2>3, <2>6, <4>2, <5>1 DEF s
      <4>3. QED BY <2>4, <4>1, <4>2
    <3>5. ASSUME NEW i \in 1..(n + 1), NEW j \in 1..(n + 1), i < j
          PROVE  FirstNamed(text, storage'[i].node_id) < FirstNamed(text, storage'[j].node_id)
      <4>1. i \in 1..n
        BY <1>2, <3>5
      <4>2. CASE j \in 1..n
        BY <1>1, <1>2, <2>1, <3>5, <4>1, <4>2 DEF NodesInv, n
      <4>3. CASE j = n + 1
        BY <2>1, <2>3, <2>6, <3>3, <4>1, <4>3
      <4>4. QED BY <2>4, <4>2, <4>3
    <3>6. QED BY <1>2, <2>1, <3>1, <3>2, <3>4, <3>5 DEF NodesInv, WasRead
  <2>11. EdgesInv'
    <3>1. \A i \in 1..n : storage[i].children = <<>> /\ storage[i].fathers = <<>>
      BY <1>1, <1>2 DEF EdgesInv, n
    <3>2. \A i \in 1..(n + 1) : storage'[i].children = <<>> /\ storage'[i].fathers = <<>>
      BY <2>1, <2>3, <2>4, <3>1
    <3>3. QED BY <1>2, <2>1, <3>2 DEF EdgesInv
  <2>12. QED BY <2>7, <2>8, <2>9, <2>10, <2>11 DEF DotInv
<1>10. CASE ~Dot2Graph!IsNew(id) /\ UNCHANGED <<storage, moved, nodes_dict>>
  <2>1. PICK p \in Dot2Graph!dict_find(id) : TRUE
    BY <1>10 DEF Dot2Graph!IsNew
  <2>2. p.at \in 1..n /\ storage[p.at].node_id = id
    BY <1>1, DictFacts DEF n
  <2>3. DotTypes'
    BY <1>1, <1>2, <1>10 DEF DotTypes, n
  <2>4. DictInv'
    BY <1>1, <1>2, <1>10 DEF DictInv
  <2>5. RootInv'
    <3>1. n # 0 /\ storage # <<>>
      BY <1>2, <2>2 DEF n
    <3>2. dotRoot # Dot2Graph!NULL /\ dotRoot.node_id = storage[1].node_id
      BY <1>1, <3>1 DEF RootInv
    <3>3. CASE n = 1
      <4>1. p.at = 1 /\ dotRoot' = Dot2Graph!Outside(id)
        BY <1>7, <1>10, <2>2, <3>3 DEF n
      <4>2. QED BY <1>8, <1>10, <2>2, <3>1, <4>1 DEF RootInv
    <3>4. CASE n # 1
      <4>1. dotRoot' = dotRoot
        BY <1>7, <1>10, <3>4 DEF n
      <4>2. Dot2Graph!NULL' = Dot2Graph!NULL
        BY DEF Dot2Graph!NULL, Dot2Graph!Outside
      <4>3. QED BY <1>10, <3>1, <3>2, <4>1, <4>2 DEF RootInv
    <3>5. QED BY <3>3, <3>4
  <2>6. NodesInv'
    <3>1. \A k \in DOMAIN text : WasRead(k)' => text[k] # Error /\ text[k].kind = "node"
      BY <1>1, <1>2, <1>5 DEF NodesInv, s
    <3>2. ASSUME NEW k \in DOMAIN text, text[k].kind = "node", WasRead(k)'
          PROVE  \E i \in 1..n : storage[i].node_id = hash[text[k].name]
      <4>1. CASE k = dotPos
        BY <2>2, <4>1 DEF id, s
      <4>2. CASE k # dotPos
        <5>1. WasRead(k)
          BY <1>5, <3>2, <4>2
        <5>2. QED BY <1>1, <1>2, <3>2, <5>1 DEF NodesInv, n
      <4>3. QED BY <4>1, <4>2
    <3>3. ASSUME NEW i \in 1..n
          PROVE  /\ FirstNamed(text, storage[i].node_id) \in NodesNamed(text, storage[i].node_id)
                 /\ dotPc' = "nodes" => FirstNamed(text, storage[i].node_id) < dotPos'
                 /\ storage[i].symb
                      = Dot2Graph!SymbolOf(text[FirstNamed(text, storage[i].node_id)].options)
      <4> DEFINE k == FirstNamed(text, storage[i].node_id)
      <4>1. /\ k \in NodesNamed(text, storage[i].node_id) /\ WasRead(k)
            /\ storage[i].symb = Dot2Graph!SymbolOf(text[k].options)
        BY <1>1, <1>2 DEF NodesInv, n
      <4>2. k \in DOMAIN text
        BY <4>1 DEF NodesNamed
      <4> HIDE DEF k
      <4>3. k < dotPos + 1
        BY <1>2, <1>5, <4>1, <4>2
      <4>4. QED BY <1>2, <4>1, <4>3 DEF k
    <3>4. QED BY <1>1, <1>2, <1>10, <3>1, <3>2, <3>3 DEF NodesInv, WasRead, n
  <2>7. EdgesInv'
    BY <1>1, <1>2, <1>10 DEF EdgesInv
  <2>8. QED BY <2>3, <2>4, <2>5, <2>6, <2>7 DEF DotInv
<1>11. QED BY <1>6, <1>9, <1>10

\* fixDict: every pointer of the dictionary is made anew.
LEMMA DotFixDict ==
    ASSUME DotInv, Dot2Graph!fixDict
    PROVE  DotInv'
<1> DEFINE n == Len(storage)
           pair(i) == <<storage[i].node_id, Dot2Graph!Pointer(i, moved)>>
<1>1. DotTypes /\ DictInv /\ RootInv /\ NodesInv /\ EdgesInv
  BY DEF DotInv
<1>2. /\ dotPc = "nodes" /\ UNCHANGED <<text, dotPos, storage, moved, dotRoot>>
      /\ Len(text) \in Nat /\ DOMAIN text = 1..Len(text) /\ dotPos \in 1..(Len(text) + 1)
      /\ n \in Nat /\ storage \in Seq(ListNodes) /\ moved \in 0..n
  BY <1>1, LenProperties DEF Dot2Graph!fixDict, DotTypes
<1>3. \/ /\ \A k \in dotPos..Len(text) : text[k] # Error /\ text[k].kind = "edge"
         /\ dotPc' = "edges" /\ nodes_dict' = Dot2Graph!FixedDict
      \/ dotPc' = "exit" /\ UNCHANGED nodes_dict
  BY DEF Dot2Graph!fixDict
<1>4. DotTypes'
  BY <1>1, <1>2, <1>3 DEF DotTypes
<1>5. RootInv'
  BY <1>1, <1>2 DEF RootInv, Dot2Graph!NULL, Dot2Graph!Outside
<1>6. \A i \in 1..n : storage[i].children = <<>> /\ storage[i].fathers = <<>>
  BY <1>1, <1>2 DEF EdgesInv
<1>7. CASE dotPc' = "exit" /\ UNCHANGED nodes_dict
  <2>1. DictInv'
    BY <1>1, <1>2, <1>7 DEF DictInv
  <2>2. NodesInv'
    BY <1>7 DEF NodesInv
  <2>3. EdgesInv'
    BY <1>2, <1>6, <1>7 DEF EdgesInv
  <2>4. QED BY <1>4, <1>5, <2>1, <2>2, <2>3 DEF DotInv
<1>8. CASE /\ \A k \in dotPos..Len(text) : text[k] # Error /\ text[k].kind = "edge"
           /\ dotPc' = "edges" /\ nodes_dict' = Dot2Graph!FixedDict
  <2>1. /\ \A i \in 1..n : pair(i) \in nodes_dict'
        /\ \A p \in nodes_dict' : \E i \in 1..n : p = pair(i)
    <3>1. DOMAIN storage = 1..n
      BY <1>2, LenProperties
    <3>2. QED BY <1>8, <3>1 DEF Dot2Graph!FixedDict
  <2>2. ASSUME NEW i \in 1..n
        PROVE  /\ pair(i) \in Nat \X Pointers /\ pair(i)[2].at = i /\ pair(i)[2].times = moved
               /\ pair(i)[1] = storage[i].node_id
    <3>1. storage[i] \in ListNodes
      BY <1>2, ElementOfSeq
    <3>2. storage[i].node_id \in Nat
      BY <3>1 DEF ListNodes
    <3>3. QED BY <1>2, <3>2 DEF Dot2Graph!Pointer, Pointers
  <2>3. \A i, j \in 1..n : storage[i].node_id = storage[j].node_id => i = j
    <3>1. ASSUME NEW i \in 1..n, NEW j \in 1..n, storage[i].node_id = storage[j].node_id
          PROVE  i = j
      <4>1. PICK p \in nodes_dict : p[2].at = i
        BY <1>1 DEF DictInv
      <4>2. PICK r \in nodes_dict : r[2].at = j
        BY <1>1 DEF DictInv
      <4>3. p[1] = storage[i].node_id /\ r[1] = storage[j].node_id
        BY <1>1, <4>1, <4>2 DEF DictInv
      <4>4. p = r
        BY <1>1, <3>1, <4>3 DEF DictInv
      <4>5. QED BY <4>1, <4>2, <4>4
    <3>2. QED BY <3>1
  <2> HIDE DEF pair
  <2>4. DictInv'
    <3>1. ASSUME NEW p \in nodes_dict'
          PROVE  /\ p \in Nat \X Pointers /\ p[2].at \in 1..n
                 /\ p[1] = storage[p[2].at].node_id /\ p[2].times = moved
      BY <2>1, <2>2
    <3>2. ASSUME NEW i \in 1..n PROVE \E p \in nodes_dict' : p[2].at = i
      BY <2>1, <2>2
    <3>3. ASSUME NEW p \in nodes_dict', NEW r \in nodes_dict', p[1] = r[1] PROVE p = r
      <4>1. PICK i \in 1..n : p = pair(i)
        BY <2>1
      <4>2. PICK j \in 1..n : r = pair(j)
        BY <2>1
      <4>3. i = j
        BY <2>2, <2>3, <3>3, <4>1, <4>2
      <4>4. QED BY <4>1, <4>2, <4>3
    <3>4. QED BY <1>2, <3>1, <3>2, <3>3 DEF DictInv
  <2>5. \A k \in DOMAIN text : text[k] # Error /\ (text[k].kind = "node" => k < dotPos)
                               /\ (k < dotPos => text[k].kind = "node")
    <3>1. ASSUME NEW k \in DOMAIN text
          PROVE  text[k] # Error /\ (text[k].kind = "node" => k < dotPos)
                 /\ (k < dotPos => text[k].kind = "node")
      <4>1. CASE k < dotPos
        BY <1>1, <1>2, <4>1 DEF NodesInv, WasRead
      <4>2. CASE ~(k < dotPos)
        <5>1. k \in dotPos..Len(text)
          BY <1>2, <4>2
        <5>2. QED BY <1>8, <4>2, <5>1
      <4>3. QED BY <4>1, <4>2
    <3>2. QED BY <3>1
  <2>6. NodesInv'
    <3>1. \A k \in DOMAIN text :
              text[k].kind = "node" => \E i \in 1..n : storage[i].node_id = hash[text[k].name]
      BY <1>1, <1>2, <2>5 DEF NodesInv, WasRead
    <3>2. ASSUME NEW i \in 1..n
          PROVE  /\ FirstNamed(text, storage[i].node_id) \in NodesNamed(text, storage[i].node_id)
                 /\ storage[i].symb
                      = Dot2Graph!SymbolOf(text[FirstNamed(text, storage[i].node_id)].options)
      BY <1>1, <1>2 DEF NodesInv
    <3>3. \A i, j \in 1..n :
              i < j => FirstNamed(text, storage[i].node_id) < FirstNamed(text, storage[j].node_id)
      BY <1>1, <1>2 DEF NodesInv
    <3>4. QED BY <1>2, <1>8, <2>5, <3>1, <3>2, <3>3 DEF NodesInv, WasRead
  <2>7. EdgesInv'
    <3>1. \A k \in DOMAIN text : k >= dotPos => text[k].kind = "edge"
      BY <1>2, <1>8
    <3>2. ASSUME NEW id PROVE EdgesBefore(text, id, dotPos) = {}
      BY <2>5 DEF EdgesBefore
    <3>3. Cardinality({}) = 0 /\ 1..0 = {}
      BY FS_EmptySet
    <3>4. ASSUME NEW i \in 1..n PROVE ChildrenSoFar(i)'
      <4>1. EdgesBefore(text, storage[i].node_id, dotPos) = {}
        BY <3>2
      <4>2. Len(storage[i].children) = 0
        BY <1>6
      <4>3. QED BY <1>2, <3>3, <4>1, <4>2 DEF ChildrenSoFar
    <3>5. \A j : HowOften(<<>>, j) = 0
      <4>1. DOMAIN <<>> = {}
        OBVIOUS
      <4>2. QED BY <3>3, <4>1 DEF HowOften
    <3>6. \A i, j \in 1..n : HowOften(storage[i].children, j) = HowOften(storage[j].fathers, i)
      BY <1>6, <3>5
    <3>7. \A i \in 1..n : DOMAIN storage[i].fathers = {}
      BY <1>6
    <3>8. QED BY <1>2, <1>8, <3>1, <3>4, <3>6, <3>7 DEF EdgesInv
  <2>8. QED BY <1>4, <1>5, <2>4, <2>6, <2>7 DEF DotInv
<1>9. QED BY <1>3, <1>7, <1>8

\* The text ends.
LEMMA DotEndText ==
    ASSUME DotInv, Dot2Graph!EndText
    PROVE  DotInv'
<1>1. /\ dotPc = "edges" /\ dotPos > Len(text) /\ dotPc' = "done"
      /\ UNCHANGED <<text, dotPos, storage, moved, nodes_dict, dotRoot>>
      /\ DotTypes /\ DictInv /\ RootInv /\ NodesInv /\ EdgesInv
  BY DEF Dot2Graph!EndText, DotInv
<1>2. DotTypes' /\ DictInv'
  BY <1>1 DEF DotTypes, DictInv
<1>3. RootInv'
  BY <1>1 DEF RootInv, Dot2Graph!NULL, Dot2Graph!Outside
<1>4. NodesInv'
  BY <1>1 DEF NodesInv, WasRead
<1>5. EdgesInv'
  BY <1>1 DEF EdgesInv, ChildrenSoFar, PointsTo
<1>6. QED BY <1>2, <1>3, <1>4, <1>5 DEF DotInv

\* A step of the file leaves the grammar alone.
LEMMA DotSame ==
    ASSUME DotInv, UNCHANGED dotVars
    PROVE  DotInv'
<1>1. /\ UNCHANGED <<text, dotPos, dotPc, storage, moved, nodes_dict, dotRoot>>
      /\ DotTypes /\ DictInv /\ RootInv /\ NodesInv /\ EdgesInv
  BY DEF dotVars, DotInv
<1>2. DotTypes' /\ DictInv'
  BY <1>1 DEF DotTypes, DictInv
<1>3. RootInv'
  BY <1>1 DEF RootInv, Dot2Graph!NULL, Dot2Graph!Outside
<1>4. NodesInv'
  BY <1>1 DEF NodesInv, WasRead
<1>5. EdgesInv'
  BY <1>1 DEF EdgesInv, ChildrenSoFar, PointsTo
<1>6. QED BY <1>2, <1>3, <1>4, <1>5 DEF DotInv

\* One more position, behind all others: those before keep their places.
AllBefore(I, p) == \A i \in I : i < p
PutsLast(I, p) ==
    /\ Cardinality(I) \in Nat /\ Cardinality(I \cup {p}) = Cardinality(I) + 1
    /\ \A m \in 1..Cardinality(I) : Nth(I \cup {p}, m) = Nth(I, m) /\ Nth(I, m) \in I
    /\ Nth(I \cup {p}, Cardinality(I) + 1) = p

\* The positions before p are numbered as they were.
LEMMA NthMore ==
    ASSUME NEW n \in Nat, NEW I, I \in SUBSET (1..n), NEW p \in 1..n, AllBefore(I, p)
    PROVE  PutsLast(I, p)
<1> DEFINE s == [k \in 1..n |-> k]
           J == I \cup {p}
           c == Cardinality(I)
           N == 1..n
           x == ElementsAt(s, I)
           y == ElementsAt(s, J)
<1>1. s \in Seq(N) /\ Len(s) = n /\ \A k \in 1..n : s[k] = k
  <2>1. s \in [1..n -> N] /\ \A k \in 1..n : s[k] = k
    OBVIOUS
  <2> HIDE DEF s, N
  <2>2. s \in Seq(N) /\ Len(s) = n
    BY <2>1
  <2>3. QED BY <2>1, <2>2
<1>2. I \subseteq 1..Len(s) /\ J \subseteq 1..Len(s) /\ p \in 1..Len(s) /\ \A i \in I : i < p
  BY <1>1 DEF AllBefore
<1> HIDE DEF s, N
<1>3. y = Append(x, s[p]) /\ Cardinality(J) = c + 1
  BY <1>1, <1>2, ElementsMore
<1>4. /\ c \in Nat /\ x \in Seq(N) /\ Len(x) = c /\ IsFiniteSet(I) /\ I \subseteq Nat
      /\ \A m \in 1..c : x[m] = s[Nth(I, m)]
  BY <1>1, <1>2, ElementsFacts, ZenonT(60)
<1>5. /\ IsFiniteSet(J) /\ J \subseteq Nat
      /\ \A m \in 1..Cardinality(J) : y[m] = s[Nth(J, m)]
  <2> HIDE DEF J
  <2>1. QED BY <1>1, <1>2, ElementsFacts, ZenonT(60)
<1>6. \A m \in 1..c : Nth(I, m) \in I
  BY <1>4, NthFacts
<1>7. \A m \in 1..(c + 1) : Nth(J, m) \in J
  <2> HIDE DEF J
  <2>1. QED BY <1>3, <1>5, NthFacts
<1>8. \A m \in 1..c : Nth(I, m) = x[m]
  BY <1>1, <1>2, <1>4, <1>6
<1>9. \A m \in 1..(c + 1) : Nth(J, m) = y[m]
  BY <1>1, <1>2, <1>3, <1>5, <1>7
<1> HIDE DEF x, y, c, J
<1>10. y[c + 1] = p /\ \A m \in 1..c : y[m] = x[m]
  <2>1. p \in N /\ s[p] = p
    BY <1>1 DEF N
  <2>2. QED BY <1>3, <1>4, <2>1, AppendProperties
<1>11. 1..c \subseteq 1..(c + 1) /\ c + 1 \in 1..(c + 1)
  BY <1>4
<1>12. QED BY <1>3, <1>4, <1>6, <1>8, <1>9, <1>10, <1>11 DEF c, J, PutsLast

\* One more pointer in a list.
LEMMA HowOftenAppend ==
    ASSUME NEW s, s \in Seq(Pointers), NEW q \in Pointers, NEW j
    PROVE  /\ HowOften(s, j) \in Nat
           /\ q.at = j => HowOften(Append(s, q), j) = HowOften(s, j) + 1
           /\ q.at # j => HowOften(Append(s, q), j) = HowOften(s, j)
<1> DEFINE n == Len(s)
           x == Append(s, q)
           A == {m \in DOMAIN s : s[m].at = j}
           B == {m \in DOMAIN x : x[m].at = j}
<1>1. n \in Nat /\ DOMAIN s = 1..n
  BY LenProperties
<1>2. /\ x \in Seq(Pointers) /\ Len(x) = n + 1 /\ x[n + 1] = q
      /\ \A m \in 1..n : x[m] = s[m]
  BY AppendProperties
<1> HIDE DEF x, n
<1>3. DOMAIN x = 1..(n + 1)
  BY <1>2, LenProperties
<1>4. IsFiniteSet(A) /\ n + 1 \notin A
  <2>1. IsFiniteSet(1..n)
    BY <1>1, FS_Interval
  <2>2. A \subseteq 1..n
    BY <1>1
  <2>3. QED BY <1>1, <2>1, <2>2, FS_Subset
<1>5. Cardinality(A) \in Nat
  BY <1>4, FS_CardinalityType
<1>6. ASSUME q.at = j PROVE B = A \cup {n + 1}
  BY <1>1, <1>2, <1>3, <1>6
<1>7. ASSUME q.at # j PROVE B = A
  BY <1>1, <1>2, <1>3, <1>7
<1> HIDE DEF A, B
<1>8. Cardinality(A \cup {n + 1}) = Cardinality(A) + 1
  BY <1>4, FS_AddElement
<1>9. QED BY <1>5, <1>6, <1>7, <1>8 DEF HowOften, A, B, x

\* node_link adds a child to one node and a father to another.
LEMMA LinkFacts ==
    ASSUME NEW f \in Pointers, NEW c \in Pointers, storage \in Seq(ListNodes),
           f.at \in 1..Len(storage), c.at \in 1..Len(storage)
    PROVE  LET s == Dot2Graph!Linked(f, c) IN
           /\ s \in Seq(ListNodes) /\ Len(s) = Len(storage)
           /\ \A i \in 1..Len(storage) :
                 /\ s[i].node_id = storage[i].node_id /\ s[i].symb = storage[i].symb
                 /\ s[i].children \in Seq(Pointers) /\ s[i].fathers \in Seq(Pointers)
                 /\ storage[i].children \in Seq(Pointers) /\ storage[i].fathers \in Seq(Pointers)
                 /\ s[i].children = IF i = f.at THEN Append(storage[i].children, c)
                                    ELSE storage[i].children
                 /\ s[i].fathers = IF i = c.at THEN Append(storage[i].fathers, f)
                                   ELSE storage[i].fathers
<1> DEFINE n == Len(storage)
           a == f.at
           b == c.at
           x == [storage[a] EXCEPT !.children = Append(storage[a].children, c)]
           t == [storage EXCEPT ![a] = x]
           y == [t[b] EXCEPT !.fathers = Append(t[b].fathers, f)]
           u == [t EXCEPT ![b] = y]
<1>1. Dot2Graph!Linked(f, c) = u
  BY DEF Dot2Graph!Linked
<1>2. a \in 1..n /\ b \in 1..n /\ \A i \in 1..n : storage[i] \in ListNodes
  BY ElementOfSeq
<1> HIDE DEF a, b, n
<1>3. \A z \in ListNodes : /\ z.children \in Seq(Pointers) /\ z.fathers \in Seq(Pointers)
                           /\ Append(z.children, c) \in Seq(Pointers)
                           /\ Append(z.fathers, f) \in Seq(Pointers)
  <2>1. \A z \in ListNodes : z.children \in Seq(Pointers) /\ z.fathers \in Seq(Pointers)
    BY DEF ListNodes
  <2>2. QED BY <2>1, AppendProperties
<1>4. /\ x \in ListNodes /\ x.node_id = storage[a].node_id /\ x.symb = storage[a].symb
      /\ x.children = Append(storage[a].children, c) /\ x.fathers = storage[a].fathers
  BY <1>2, <1>3 DEF ListNodes
<1> HIDE DEF x
<1>5. t \in Seq(ListNodes) /\ Len(t) = n /\ \A i \in 1..n : t[i] = IF i = a THEN x ELSE storage[i]
  BY <1>2, <1>4, ExceptSeq DEF n
<1> HIDE DEF t
<1>6. t[b] \in ListNodes
  BY <1>2, <1>5, ElementOfSeq
<1>7. /\ y \in ListNodes /\ y.node_id = t[b].node_id /\ y.symb = t[b].symb
      /\ y.fathers = Append(t[b].fathers, f) /\ y.children = t[b].children
  BY <1>3, <1>6 DEF ListNodes
<1> HIDE DEF y
<1>8. u \in Seq(ListNodes) /\ Len(u) = n /\ \A i \in 1..n : u[i] = IF i = b THEN y ELSE t[i]
  BY <1>2, <1>5, <1>7, ExceptSeq
<1> HIDE DEF u
<1>9. ASSUME NEW i \in 1..n
      PROVE  /\ t[i].node_id = storage[i].node_id /\ t[i].symb = storage[i].symb
             /\ t[i].children = IF i = a THEN Append(storage[i].children, c) ELSE storage[i].children
             /\ t[i].fathers = storage[i].fathers
  BY <1>4, <1>5
<1>10. ASSUME NEW i \in 1..n
       PROVE  /\ u[i].node_id = storage[i].node_id /\ u[i].symb = storage[i].symb
              /\ u[i].children \in Seq(Pointers) /\ u[i].fathers \in Seq(Pointers)
              /\ storage[i].children \in Seq(Pointers) /\ storage[i].fathers \in Seq(Pointers)
              /\ u[i].children = IF i = a THEN Append(storage[i].children, c)
                                 ELSE storage[i].children
              /\ u[i].fathers = IF i = b THEN Append(storage[i].fathers, f)
                                ELSE storage[i].fathers
  <2>1. u[i] \in ListNodes
    BY <1>8, ElementOfSeq
  <2>2. u[i].children = t[i].children /\ u[i].node_id = t[i].node_id /\ u[i].symb = t[i].symb
    BY <1>7, <1>8
  <2>3. u[i].fathers = IF i = b THEN Append(t[i].fathers, f) ELSE t[i].fathers
    BY <1>7, <1>8
  <2>4. QED BY <1>2, <1>3, <1>9, <2>1, <2>2, <2>3
<1>11. QED BY <1>1, <1>8, <1>10 DEF n, a, b

\* One edge of the text: it counts for its father if both its nodes are known.
LEMMA EdgesBeforeNext ==
    ASSUME text \in Seq(Dot2Graph!Statements), NEW p \in 1..Len(text), text[p].kind = "edge",
           NEW id
    PROVE  /\ EdgesBefore(text, id, p) \in SUBSET (1..Len(text))
           /\ \A k \in EdgesBefore(text, id, p) : k < p
           /\ hash[text[p].father] = id /\ HasBothNodes(text, text[p]) =>
                 EdgesBefore(text, id, p + 1) = EdgesBefore(text, id, p) \cup {p}
           /\ ~(hash[text[p].father] = id /\ HasBothNodes(text, text[p])) =>
                 EdgesBefore(text, id, p + 1) = EdgesBefore(text, id, p)
<1>1. DOMAIN text = 1..Len(text) /\ Len(text) \in Nat
  BY LenProperties
<1>2. \A k \in DOMAIN text : k < p + 1 <=> k < p \/ k = p
  BY <1>1
<1>3. QED BY <1>1, <1>2 DEF EdgesBefore

\* Each node has a number of its own, and the numbers are those of the text.
LEMMA OwnNumbers ==
    ASSUME DictInv
    PROVE  \A i, j \in 1..Len(storage) : storage[i].node_id = storage[j].node_id => i = j
<1> SUFFICES ASSUME NEW i \in 1..Len(storage), NEW j \in 1..Len(storage),
                    storage[i].node_id = storage[j].node_id
             PROVE  i = j
  OBVIOUS
<1>1. PICK p \in nodes_dict : p[2].at = i
  BY DEF DictInv
<1>2. PICK r \in nodes_dict : r[2].at = j
  BY DEF DictInv
<1>3. p[1] = storage[i].node_id /\ r[1] = storage[j].node_id
  BY <1>1, <1>2 DEF DictInv
<1>4. p = r
  BY <1>3 DEF DictInv
<1>5. QED BY <1>1, <1>2, <1>4

\* After the nodes, the dictionary knows the numbers of the text.
LEMMA NumbersOfText ==
    ASSUME DotTypes, DictInv, NodesInv, dotPc \in {"edges", "done"}, NEW id
    PROVE  Dot2Graph!dict_find(id) # {} <=> NodesNamed(text, id) # {}
<1>1. ASSUME Dot2Graph!dict_find(id) # {} PROVE NodesNamed(text, id) # {}
  <2>1. PICK q \in Dot2Graph!dict_find(id) : TRUE
    BY <1>1
  <2>2. q.at \in 1..Len(storage) /\ storage[q.at].node_id = id
    BY DictFacts
  <2>3. FirstNamed(text, storage[q.at].node_id) \in NodesNamed(text, storage[q.at].node_id)
    BY <2>2 DEF NodesInv
  <2>4. QED BY <2>2, <2>3
<1>2. ASSUME NodesNamed(text, id) # {} PROVE Dot2Graph!dict_find(id) # {}
  <2>1. PICK k \in DOMAIN text : text[k].kind = "node" /\ hash[text[k].name] = id
    BY <1>2 DEF NodesNamed
  <2>2. PICK i \in 1..Len(storage) : storage[i].node_id = id
    BY <2>1 DEF NodesInv, WasRead
  <2>3. QED BY <2>2, DictFacts
<1>3. QED BY <1>1, <1>2

\* addEdgesToGraph: an edge between two known nodes, or one left out.
LEMMA DotAddEdge ==
    ASSUME DotInv, Dot2Graph!addEdgesToGraph
    PROVE  DotInv'
<1> DEFINE n == Len(storage)
           e == text[dotPos]
           f == Dot2Graph!dict_find(hash[e.father])
           c == Dot2Graph!dict_find(hash[e.child])
           B(i) == EdgesBefore(text, storage[i].node_id, dotPos)
           D(i) == EdgesBefore(text, storage[i].node_id, dotPos + 1)
<1>1. DotTypes /\ DictInv /\ RootInv /\ NodesInv /\ EdgesInv
  BY DEF DotInv
<1>2. /\ dotPc = "edges" /\ dotPos \in 1..Len(text) /\ e # Error /\ e.kind = "edge"
      /\ dotPos' = dotPos + 1
      /\ UNCHANGED <<text, dotPc, moved, nodes_dict, dotRoot>>
      /\ Len(text) \in Nat /\ DOMAIN text = 1..Len(text)
      /\ n \in Nat /\ storage \in Seq(ListNodes) /\ moved \in 0..n
      /\ text \in Seq(Dot2Graph!Statements)
  BY <1>1, LenProperties DEF Dot2Graph!addEdgesToGraph, Dot2Graph!IsEdge, Dot2Graph!PosAfter, DotTypes
<1>3. \/ (f = {} \/ c = {}) /\ UNCHANGED storage
      \/ f # {} /\ c # {} /\ \E p \in f, q \in c : storage' = Dot2Graph!Linked(p, q)
  BY DEF Dot2Graph!addEdgesToGraph
<1>4. HasBothNodes(text, e) <=> f # {} /\ c # {}
  BY <1>1, <1>2, NumbersOfText DEF HasBothNodes
<1>5. ASSUME NEW i \in 1..n
      PROVE  /\ B(i) \in SUBSET (1..Len(text)) /\ \A k \in B(i) : k < dotPos
             /\ hash[e.father] = storage[i].node_id /\ f # {} /\ c # {} => D(i) = B(i) \cup {dotPos}
             /\ ~(hash[e.father] = storage[i].node_id /\ f # {} /\ c # {}) => D(i) = B(i)
  BY <1>2, <1>4, EdgesBeforeNext
<1>6. /\ \A k \in DOMAIN text : k >= dotPos => text[k].kind = "edge"
      /\ \A i \in 1..n :
            /\ ChildrenSoFar(i)
            /\ \A m \in DOMAIN storage[i].fathers :
                  storage[i].fathers[m].at \in 1..n /\ storage[i].fathers[m].times = moved
      /\ \A i, j \in 1..n : HowOften(storage[i].children, j) = HowOften(storage[j].fathers, i)
  BY <1>1, <1>2 DEF EdgesInv
<1>7. \A k \in DOMAIN text : k >= dotPos' => text[k].kind = "edge"
  BY <1>2, <1>6
<1> HIDE DEF f, c, e, B, D, n
<1>8. CASE (f = {} \/ c = {}) /\ UNCHANGED storage
  <2>1. DotTypes'
    BY <1>1, <1>2, <1>8 DEF DotTypes
  <2>2. DictInv'
    BY <1>1, <1>2, <1>8 DEF DictInv
  <2>3. RootInv'
    BY <1>1, <1>2, <1>8 DEF RootInv, Dot2Graph!NULL, Dot2Graph!Outside
  <2>4. NodesInv'
    BY <1>1, <1>2, <1>8 DEF NodesInv, WasRead
  <2>5. ASSUME NEW i \in 1..n PROVE ChildrenSoFar(i)'
    <3>1. D(i) = B(i)
      BY <1>5, <1>8
    <3>2. /\ Len(storage[i].children) = Cardinality(B(i))
          /\ \A m \in 1..Cardinality(B(i)) :
                PointsTo(storage[i].children[m], hash[text[Nth(B(i), m)].child])
      BY <1>6 DEF ChildrenSoFar, B
    <3>3. /\ Len(storage[i].children) = Cardinality(D(i))
          /\ \A m \in 1..Cardinality(D(i)) :
                PointsTo(storage[i].children[m], hash[text[Nth(D(i), m)].child])
      BY <3>1, <3>2
    <3>4. QED BY <1>2, <1>8, <3>3 DEF ChildrenSoFar, PointsTo, D
  <2>6. EdgesInv'
    BY <1>2, <1>6, <1>7, <1>8, <2>5 DEF EdgesInv, n
  <2>7. QED BY <2>1, <2>2, <2>3, <2>4, <2>6 DEF DotInv
<1>9. CASE f # {} /\ c # {} /\ \E p \in f, q \in c : storage' = Dot2Graph!Linked(p, q)
  <2>1. PICK p \in f, q \in c : storage' = Dot2Graph!Linked(p, q)
    BY <1>9
  <2>2. /\ p \in Pointers /\ p.at \in 1..n /\ storage[p.at].node_id = hash[e.father]
        /\ <<hash[e.father], p>> \in nodes_dict
        /\ q \in Pointers /\ q.at \in 1..n /\ storage[q.at].node_id = hash[e.child]
        /\ <<hash[e.child], q>> \in nodes_dict
    BY <1>1, DictFacts DEF f, c, n
  <2>3. p.times = moved /\ q.times = moved
    <3>1. \A y \in nodes_dict : y[2].times = moved
      BY <1>1, <1>2 DEF DictInv
    <3>2. QED BY <2>2, <3>1
  <2>4. /\ storage' \in Seq(ListNodes) /\ Len(storage') = n
        /\ \A i \in 1..n :
              /\ storage'[i].node_id = storage[i].node_id /\ storage'[i].symb = storage[i].symb
              /\ storage[i].children \in Seq(Pointers) /\ storage[i].fathers \in Seq(Pointers)
              /\ storage'[i].children = IF i = p.at THEN Append(storage[i].children, q)
                                        ELSE storage[i].children
              /\ storage'[i].fathers = IF i = q.at THEN Append(storage[i].fathers, p)
                                       ELSE storage[i].fathers
    BY <1>2, <2>1, <2>2, LinkFacts DEF n
  <2>5. DotTypes'
    BY <1>1, <1>2, <2>4 DEF DotTypes, n
  <2>6. DictInv'
    BY <1>1, <1>2, <2>4 DEF DictInv, n
  <2>7. RootInv'
    <3>1. storage' = <<>> <=> storage = <<>>
      <4>1. storage = <<>> <=> n = 0
        BY <1>2, EmptySeq DEF n
      <4>2. storage' = <<>> <=> n = 0
        BY <2>4, EmptySeq
      <4>3. QED BY <4>1, <4>2
    <3>2. storage # <<>> => 1 \in 1..n
      <4>1. storage # <<>> => n # 0
        BY <1>2, EmptySeq DEF n
      <4>2. QED BY <1>2, <4>1
    <3>3. Dot2Graph!NULL' = Dot2Graph!NULL
      BY DEF Dot2Graph!NULL, Dot2Graph!Outside
    <3>4. QED BY <1>1, <1>2, <2>4, <3>1, <3>2, <3>3 DEF RootInv
  <2>8. NodesInv'
    <3>1. \A k \in DOMAIN text : text[k] # Error
      BY <1>1, <1>2 DEF NodesInv, WasRead
    <3>2. \A k \in DOMAIN text : text[k].kind = "node" =>
              \E i \in 1..n : storage'[i].node_id = hash[text[k].name]
      <4>1. \A k \in DOMAIN text : text[k].kind = "node" =>
                \E i \in 1..n : storage[i].node_id = hash[text[k].name]
        BY <1>1, <1>2 DEF NodesInv, WasRead, n
      <4>2. QED BY <2>4, <4>1
    <3>3. \A i \in 1..n :
              /\ FirstNamed(text, storage'[i].node_id) \in NodesNamed(text, storage'[i].node_id)
              /\ storage'[i].symb
                   = Dot2Graph!SymbolOf(text[FirstNamed(text, storage'[i].node_id)].options)
      <4>1. \A i \in 1..n :
              /\ FirstNamed(text, storage[i].node_id) \in NodesNamed(text, storage[i].node_id)
              /\ storage[i].symb
                   = Dot2Graph!SymbolOf(text[FirstNamed(text, storage[i].node_id)].options)
        BY <1>1, <1>2 DEF NodesInv, n
      <4>2. QED BY <2>4, <4>1
    <3>4. \A i, j \in 1..n :
              i < j => FirstNamed(text, storage'[i].node_id) < FirstNamed(text, storage'[j].node_id)
      <4>1. \A i, j \in 1..n :
              i < j => FirstNamed(text, storage[i].node_id) < FirstNamed(text, storage[j].node_id)
        BY <1>1, <1>2 DEF NodesInv, n
      <4>2. QED BY <2>4, <4>1
    <3>5. QED BY <1>2, <2>4, <3>1, <3>2, <3>3, <3>4 DEF NodesInv, WasRead
  <2>9. ASSUME NEW y, NEW id, PointsTo(y, id) PROVE PointsTo(y, id)'
    BY <1>2, <2>4, <2>9 DEF PointsTo, n
  <2>10. ASSUME NEW i \in 1..n PROVE ChildrenSoFar(i)'
    <3> DEFINE I == B(i)
               k == Cardinality(I)
               x == storage[i].children
    <3>1. /\ Len(x) = k /\ \A m \in 1..k : PointsTo(x[m], hash[text[Nth(I, m)].child])
      BY <1>6 DEF ChildrenSoFar, B
    <3>2. I \in SUBSET (1..Len(text)) /\ \A j \in I : j < dotPos
      BY <1>5
    <3>3. x \in Seq(Pointers)
      BY <2>4
    <3>4. CASE i = p.at
      <4>1. D(i) = I \cup {dotPos}
        BY <1>5, <1>9, <2>2, <3>4
      <4> DEFINE J == I \cup {dotPos}
                 z == Append(x, q)
                 k1 == k + 1
      <4>2. storage'[i].children = z
        BY <2>4, <3>4
      <4> HIDE DEF I, x
      <4>3. /\ k \in Nat /\ Cardinality(J) = k1 /\ Nth(J, k1) = dotPos
            /\ \A m \in 1..k : Nth(J, m) = Nth(I, m)
        <5> DEFINE d == dotPos
                   b == Len(text)
        <5>1. d \in 1..b /\ b \in Nat /\ I \in SUBSET (1..b) /\ AllBefore(I, d)
          BY <1>2, <3>2 DEF AllBefore
        <5> HIDE DEF d, b
        <5>2. PutsLast(I, d)
          BY <5>1, NthMore
        <5>3. QED BY <5>2 DEF d, PutsLast
      <4>4. Len(z) = k1 /\ z[k1] = q /\ \A m \in 1..k : z[m] = x[m]
        BY <3>1, <3>3, AppendProperties
      <4>5. \A m \in 1..k1 : m \in 1..k \/ m = k1
        BY <4>3
      <4> HIDE DEF J, z, k, k1
      <4>6. ASSUME NEW m \in 1..k1 PROVE PointsTo(z[m], hash[text[Nth(J, m)].child])
        <5>1. CASE m \in 1..k
          BY <3>1, <4>3, <4>4, <5>1
        <5>2. CASE m = k1
          <6>1. PointsTo(q, hash[e.child])
            BY <2>2, <2>3 DEF PointsTo, n
          <6>2. QED BY <4>3, <4>4, <5>2, <6>1 DEF e
        <5>3. QED BY <4>5, <5>1, <5>2
      <4>7. Len(storage'[i].children) = Cardinality(D(i)) /\ Cardinality(D(i)) = k1
        BY <4>1, <4>2, <4>3, <4>4 DEF J
      <4>8. \A m \in 1..k1 : PointsTo(storage'[i].children[m], hash[text[Nth(D(i), m)].child])
        BY <4>1, <4>2, <4>6 DEF J
      <4>9. \A m \in 1..k1 :
                /\ storage'[i].children[m].at \in 1..n /\ storage'[i].children[m].times = moved
                /\ storage'[storage'[i].children[m].at].node_id = hash[text[Nth(D(i), m)].child]
        BY <2>4, <4>8 DEF PointsTo, n
      <4>10. D(i) = EdgesBefore(text', storage'[i].node_id, dotPos')
        BY <1>2, <2>4 DEF D
      <4>11. QED BY <1>2, <2>4, <4>7, <4>9, <4>10 DEF ChildrenSoFar, PointsTo
    <3>5. CASE i # p.at
      <4>1. D(i) = I
        <5>1. storage[i].node_id # storage[p.at].node_id
          BY <1>1, <2>2, <3>5, OwnNumbers DEF n
        <5>2. QED BY <1>5, <2>2, <5>1
      <4>2. storage'[i].children = x
        BY <2>4, <3>5
      <4> HIDE DEF I, x, k
      <4>3. \A m \in 1..k :
                /\ x[m].at \in 1..n /\ x[m].times = moved
                /\ storage'[x[m].at].node_id = hash[text[Nth(I, m)].child]
        BY <2>4, <3>1 DEF PointsTo, n
      <4>4. I = EdgesBefore(text', storage'[i].node_id, dotPos')
        BY <1>2, <2>4, <4>1 DEF D
      <4>5. QED BY <1>2, <2>4, <3>1, <4>2, <4>3, <4>4 DEF ChildrenSoFar, PointsTo, k
    <3>6. QED BY <3>4, <3>5
  <2>11. ASSUME NEW i \in 1..n, NEW m \in DOMAIN storage'[i].fathers
         PROVE  storage'[i].fathers[m].at \in 1..n /\ storage'[i].fathers[m].times = moved
    <3> DEFINE x == storage[i].fathers
    <3>1. x \in Seq(Pointers)
      BY <2>4
    <3>2. \A k \in DOMAIN x : x[k].at \in 1..n /\ x[k].times = moved
      BY <1>6
    <3>3. CASE i = q.at
      <4>1. storage'[i].fathers = Append(x, p)
        BY <2>4, <3>3
      <4> HIDE DEF x
      <4> DEFINE z == Append(x, p)
                 k == Len(x)
      <4>2. /\ z \in Seq(Pointers) /\ Len(z) = k + 1 /\ z[k + 1] = p
            /\ \A j \in 1..k : z[j] = x[j]
        BY <2>2, <3>1, AppendProperties
      <4>3. k \in Nat /\ DOMAIN x = 1..k
        BY <3>1, LenProperties
      <4> HIDE DEF z, k
      <4>4. DOMAIN z = 1..(k + 1)
        BY <4>2, LenProperties
      <4>5. m \in 1..k \/ m = k + 1
        BY <4>1, <4>3, <4>4 DEF z
      <4>6. QED BY <2>2, <2>3, <3>2, <4>1, <4>2, <4>3, <4>5 DEF z
    <3>4. CASE i # q.at
      BY <2>4, <3>2, <3>4
    <3>5. QED BY <3>3, <3>4
  <2>12. ASSUME NEW i \in 1..n, NEW j \in 1..n
         PROVE  HowOften(storage'[i].children, j) = HowOften(storage'[j].fathers, i)
    <3> DEFINE x == storage[i].children
               z == storage[j].fathers
    <3>1. x \in Seq(Pointers) /\ z \in Seq(Pointers) /\ HowOften(x, j) = HowOften(z, i)
      BY <1>6, <2>4
    <3>2. /\ storage'[i].children = IF i = p.at THEN Append(x, q) ELSE x
          /\ storage'[j].fathers = IF j = q.at THEN Append(z, p) ELSE z
      BY <2>4
    <3> HIDE DEF x, z
    <3>3. /\ q.at = j => HowOften(Append(x, q), j) = HowOften(x, j) + 1
          /\ q.at # j => HowOften(Append(x, q), j) = HowOften(x, j)
          /\ p.at = i => HowOften(Append(z, p), i) = HowOften(z, i) + 1
          /\ p.at # i => HowOften(Append(z, p), i) = HowOften(z, i)
      BY <2>2, <3>1, HowOftenAppend
    <3>4. QED BY <3>1, <3>2, <3>3
  <2>13. EdgesInv'
    BY <1>2, <1>7, <2>4, <2>10, <2>11, <2>12 DEF EdgesInv
  <2>14. QED BY <2>5, <2>6, <2>7, <2>8, <2>13 DEF DotInv
<1>10. QED BY <1>3, <1>8, <1>9

-----------------------------------------------------------------------------
(***************************************************************************)
(* The invariant is inductive.                                             *)
(***************************************************************************)
\* PlaceOf gives the first node of a number.
LEMMA PlaceFacts ==
    ASSUME storage \in Seq(ListNodes), NEW id
    PROVE  /\ PlaceOf(id) \in 0..Len(storage)
           /\ PlaceOf(id) # 0 => storage[PlaceOf(id)].node_id = id
           /\ \A i \in 1..Len(storage) : storage[i].node_id = id => PlaceOf(id) # 0 /\ PlaceOf(id) <= i
<1> DEFINE n == Len(storage)
           I == {i \in 1..n : storage[i].node_id = id}
<1>1. n \in Nat /\ I \in SUBSET (1..n)
  BY LenProperties
<1>2. PlaceOf(id) = FirstIn(I)
  BY DEF PlaceOf, SelectInSeq, FirstIn
<1>3. \A i : i \in I <=> i \in 1..n /\ storage[i].node_id = id
  OBVIOUS
<1> HIDE DEF I, n
<1>4. /\ FirstIn(I) \in 0..n
      /\ FirstIn(I) = 0 <=> I = {}
      /\ I # {} => FirstIn(I) \in I /\ \A i \in I : FirstIn(I) <= i
  BY <1>1, FirstInFacts
<1>5. QED BY <1>2, <1>3, <1>4 DEF n

\* The graph that the grammar has read is one that can be written.
LEMMA InMemoryIsReadable ==
    ASSUME DotInv, dotPc = "done"
    PROVE  /\ IsReadable(InMemory) /\ NodesOf(InMemory) = 1..Len(storage)
           /\ Len(storage) \in Nat
<1> DEFINE n == Len(storage)
           kids(i) == storage[i].children
           row(i) == [k \in DOMAIN kids(i) |-> kids(i)[k].at]
           all == [i \in DOMAIN storage |-> row(i)]
           N == 1..n
           S == Seq(N)
<1>1. storage \in Seq(ListNodes) /\ n \in Nat /\ DOMAIN storage = 1..n
  BY LenProperties DEF DotInv, DotTypes
<1>2. ASSUME NEW i \in 1..n PROVE row(i) \in S
  <2> DEFINE x == kids(i)
             b == Len(x)
  <2>1. x \in Seq(Pointers)
    <3>1. storage[i] \in ListNodes
      BY <1>1, ElementOfSeq
    <3>2. QED BY <3>1 DEF ListNodes
  <2>2. b \in Nat /\ DOMAIN x = 1..b
    BY <2>1, LenProperties
  <2>3. \A k \in 1..b : x[k].at \in N
    BY DEF DotInv, EdgesInv, ChildrenSoFar, PointsTo
  <2> HIDE DEF x, b, N
  <2> DEFINE r == [k \in DOMAIN x |-> x[k].at]
  <2>4. r \in [1..b -> N]
    BY <2>2, <2>3
  <2> HIDE DEF r
  <2>5. r \in Seq(N)
    BY <2>2, <2>4
  <2>6. QED BY <2>5 DEF r, x
<1>3. all \in Seq(S) /\ DOMAIN all = N
  <2> HIDE DEF S, row
  <2>1. all \in [1..n -> S]
    BY <1>1, <1>2
  <2> HIDE DEF all, n
  <2>2. QED BY <1>1, <2>1
<1>4. InMemory.children = all /\ InMemory.root = RootPlace
  BY DEF InMemory
<1>5. NodesOf(InMemory) = N
  BY <1>3, <1>4 DEF NodesOf
<1>6. RootPlace \in 0..n
  BY <1>1, PlaceFacts DEF RootPlace
<1>7. RootPlace \in N \cup {0}
  BY <1>1, <1>6
<1> HIDE DEF all, n
<1>8. QED BY <1>1, <1>3, <1>4, <1>5, <1>7 DEF IsReadable, LinksInside, n

\* A node that is read after none is the first statement.
LEMMA FirstIsNodeNext ==
    ASSUME DotInv, FirstIsNode, Dot2Graph!Next
    PROVE  FirstIsNode'
<1>1. /\ DotTypes /\ DictInv /\ NodesInv /\ text \in Seq(Dot2Graph!Statements)
      /\ Len(text) \in Nat /\ DOMAIN text = 1..Len(text) /\ dotPos \in 1..(Len(text) + 1)
  BY LenProperties DEF DotInv, DotTypes
<1>2. CASE Dot2Graph!AddNode
  <2>1. /\ dotPc = "nodes" /\ dotPos <= Len(text) /\ text[dotPos].kind = "node" /\ text' = text
    BY <1>2 DEF Dot2Graph!AddNode, Dot2Graph!IsNode
  <2>2. CASE dotPos = 1
    BY <2>1, <2>2 DEF FirstIsNode
  <2>3. CASE dotPos # 1
    <3>1. 1 \in DOMAIN text /\ 1 < dotPos
      BY <1>1, <2>1, <2>3
    <3>2. text[1].kind = "node"
      BY <1>1, <2>1, <3>1 DEF NodesInv, WasRead
    <3>3. QED BY <2>1, <3>2 DEF FirstIsNode
  <2>4. QED BY <2>2, <2>3
<1>3. CASE Dot2Graph!addEdgesToGraph
  <2> DEFINE f == Dot2Graph!dict_find(hash[text[dotPos].father])
  <2>1. text' = text /\ (storage' = storage \/ f # {})
    BY <1>3 DEF Dot2Graph!addEdgesToGraph
  <2>2. f # {} => storage # <<>>
    <3>1. \A q \in f : q.at \in 1..Len(storage)
      BY <1>1, DictFacts
    <3>2. storage = <<>> => 1..Len(storage) = {}
      OBVIOUS
    <3>3. QED BY <3>1, <3>2
  <2>3. QED BY <2>1, <2>2 DEF FirstIsNode
<1>4. CASE UNCHANGED <<text, storage>>
  BY <1>4 DEF FirstIsNode
<1>5. Dot2Graph!fixDict \/ Dot2Graph!EndText \/ Dot2Graph!Done => UNCHANGED <<text, storage>>
  BY DEF Dot2Graph!fixDict, Dot2Graph!EndText, Dot2Graph!Done, Dot2Graph!vars
<1>6. QED BY <1>2, <1>3, <1>4, <1>5 DEF Dot2Graph!Next

\* The file before anything is written.
LEMMA FileEmpty ==
    ASSUME NEW g, IsReadable(g)
    PROVE  Len(<<>>) = 0 /\ 0 <= Len(Written(g)) /\ <<>> \in Seq(ItemsOf(g)) /\ 1..0 = {}
BY WrittenFacts, LenProperties

\* Both ways to start satisfy the invariant.
LEMMA InvInit == ConverterInit => Inv
<1> SUFFICES ASSUME ConverterInit PROVE Inv
  OBVIOUS
<1>1. CASE FromText
  <2>1. /\ text \in DotTexts /\ dotPos = 1 /\ dotPc = "nodes" /\ storage = <<>> /\ moved = 0
        /\ nodes_dict = {} /\ dotRoot = Dot2Graph!NULL
        /\ graph = NoGraph /\ file = <<>> /\ whole = FALSE /\ pc = "dot" /\ Unread
    BY <1>1 DEF FromText, Dot2Graph!Init
  <2>2. text \in Seq(Dot2Graph!Statements) /\ Len(text) \in Nat /\ DOMAIN text = 1..Len(text)
    BY <2>1, Dot2EdgAssumption, LenProperties DEF Dot2Graph!AreTexts
  <2>3. Len(storage) = 0 /\ 1..0 = {}
    BY <2>1
  <2>4. DotTypes
    BY <2>1, <2>2, <2>3 DEF DotTypes
  <2>5. DictInv /\ RootInv
    BY <2>1, <2>3 DEF DictInv, RootInv
  <2>12. FirstIsNode
    BY <2>1 DEF FirstIsNode
  <2>6. NodesInv
    <3>1. \A k \in DOMAIN text : ~WasRead(k)
      BY <2>1, <2>2 DEF WasRead
    <3>2. QED BY <2>3, <3>1 DEF NodesInv
  <2>7. EdgesInv
    BY <2>1, <2>3 DEF EdgesInv
  <2>8. IsReadable(graph)
    <3>1. graph.children = <<>> /\ graph.root = 0
      BY <2>1 DEF NoGraph
    <3>2. <<>> \in Seq(Seq(NodesOf(graph)))
      OBVIOUS
    <3>3. QED BY <3>1, <3>2 DEF IsReadable, LinksInside
  <2>9. FileInv /\ StillUnread
    <3>1. GraphInFile
      BY <2>1, <2>8, FileEmpty DEF GraphInFile
    <3>2. FileInv
      BY <2>1, <2>8, <3>1, FileEmpty DEF FileInv
    <3>3. QED BY <2>1, <3>2 DEF StillUnread
  <2>10. ConverterInv
    BY <2>1 DEF ConverterInv
  <2>13. QED BY <2>4, <2>5, <2>6, <2>7, <2>9, <2>10, <2>12, UnreadIsReadable DEF Inv, DotInv
<1>2. CASE FromGraph
  <2>1. /\ graph \in Graphs /\ entry \in Entries /\ Unread
        /\ \/ file = <<>> /\ whole = FALSE /\ pc = "write"
           \/ \E t \in Texts : file = <<Item("text", t)>> /\ whole = TRUE /\ pc = Start
        /\ text = <<>> /\ dotPos = 1 /\ dotPc = "done" /\ storage = <<>> /\ moved = 0
        /\ nodes_dict = {} /\ dotRoot = Dot2Graph!NULL
    BY <1>2 DEF FromGraph, Init
  <2>2. text \in Seq(Dot2Graph!Statements) /\ Len(text) = 0 /\ DOMAIN text = {}
    BY <2>1
  <2>3. Len(storage) = 0 /\ 1..0 = {}
    BY <2>1
  <2>4. DotTypes
    BY <2>1, <2>2, <2>3 DEF DotTypes
  <2>5. DictInv /\ RootInv
    BY <2>1, <2>3 DEF DictInv, RootInv
  <2>12. FirstIsNode
    BY <2>1 DEF FirstIsNode
  <2>6. NodesInv
    BY <2>2, <2>3 DEF NodesInv
  <2>7. EdgesInv
    BY <2>1, <2>2, <2>3 DEF EdgesInv
  <2>8. IsReadable(graph)
    BY <2>1, GraphFileAssumption DEF IsReadable, LinksInside, IsGraph
  <2>9. FileInv /\ StillUnread
    <3>1. CASE file = <<>> /\ whole = FALSE /\ pc = "write"
      <4>1. GraphInFile
        BY <2>8, <3>1, FileEmpty DEF GraphInFile
      <4>2. FileInv
        BY <2>1, <2>8, <3>1, <4>1, FileEmpty DEF FileInv
      <4>3. QED BY <2>1, <3>1, <4>2 DEF StillUnread
    <3>2. CASE \E t \in Texts : file = <<Item("text", t)>> /\ whole = TRUE /\ pc = Start
      <4>1. PICK t \in Texts : file = <<Item("text", t)>> /\ whole = TRUE /\ pc = Start
        BY <3>2
      <4>2. pc \in {"magic", "get"}
        BY <4>1 DEF Start
      <4>3. file \in Seq(ItemsOf(graph))
        <5> DEFINE x == Item("text", t)
                   T == ItemsOf(graph)
        <5>1. x \in T
          <6>1. t \in ValuesOf(graph)
            BY DEF ValuesOf
          <6>2. QED BY <6>1, ItemIsOf
        <5> HIDE DEF x, T
        <5>2. <<x>> \in Seq(T)
          BY <5>1
        <5>3. QED BY <4>1, <5>2 DEF x, T
      <4>4. TextInFile
        BY <2>1, <4>1, <4>2 DEF TextInFile, Unread, NothingRead
      <4>5. FileInv
        BY <2>8, <4>1, <4>2, <4>3, <4>4 DEF FileInv
      <4>6. QED BY <2>1, <4>2, <4>5 DEF StillUnread
    <3>3. QED BY <2>1, <3>1, <3>2
  <2>10. ConverterInv
    BY <2>1 DEF ConverterInv
  <2>13. QED BY <2>4, <2>5, <2>6, <2>7, <2>9, <2>10, <2>12, UnreadIsReadable DEF Inv, DotInv
<1>3. QED BY <1>1, <1>2 DEF ConverterInit

\* A step of the grammar leaves the file and its reader alone.
LEMMA FileSame ==
    ASSUME FileInv, ReaderInv, UNCHANGED vars
    PROVE  FileInv' /\ ReaderInv' /\ (GraphInFile => GraphInFile')
BY ZenonT(40) DEF FileInv, GraphInFile, TextInFile, IsWritten, Unread, ReaderInv, ReaderTypes,
       ReaderPlace, NothingRead, ReadSoFar, NodeAsWritten, LinkAsWritten, Find, SelectInSeq,
       vars, read

\* The graph in memory depends on the grammar only.
LEMMA InMemorySame ==
    ASSUME UNCHANGED dotVars
    PROVE  InMemory' = InMemory
BY DEF InMemory, RootPlace, PlaceOf, SelectInSeq, dotVars

\* Every step keeps the invariant: of the grammar, the writer or a reader.
LEMMA InvNext == Inv /\ [ConverterNext]_<<vars, dotVars>> => Inv'
<1> SUFFICES ASSUME Inv, [ConverterNext]_<<vars, dotVars>> PROVE Inv'
  OBVIOUS
<1>1. DotInv /\ FirstIsNode /\ FileInv /\ ReaderInv /\ ConverterInv
  BY DEF Inv
<1>2. CASE ReadDot
  <2>1. pc = "dot" /\ Dot2Graph!Next /\ UNCHANGED vars
    BY <1>2 DEF ReadDot
  <2>2. DotInv'
    <3>1. CASE Dot2Graph!Done
      <4>1. UNCHANGED dotVars
        BY <3>1 DEF Dot2Graph!Done, Dot2Graph!vars, dotVars
      <4>2. QED BY <1>1, <4>1, DotSame
    <3>2. QED BY <1>1, <2>1, <3>1, DotAddNode, DotFixDict, DotAddEdge, DotEndText DEF Dot2Graph!Next
  <2>3. FileInv' /\ ReaderInv'
    BY <1>1, <2>1, FileSame
  <2>4. ConverterInv'
    BY <2>1 DEF ConverterInv, vars
  <2>5. FirstIsNode'
    BY <1>1, <2>1, FirstIsNodeNext
  <2>6. QED BY <2>2, <2>3, <2>4, <2>5 DEF Inv
<1>3. CASE StartWriter
  <2>1. /\ pc = "dot" /\ dotPc = "done" /\ pc' = "write" /\ graph' = InMemory
        /\ UNCHANGED <<entry, file, whole, depth, pos, read>> /\ UNCHANGED dotVars
    BY <1>3 DEF StartWriter
  <2>2. DotInv'
    BY <1>1, <2>1, DotSame
  <2>3. IsReadable(graph')
    BY <1>1, <2>1, InMemoryIsReadable
  <2>4. /\ file' = <<>> /\ ~whole' /\ whole' \in BOOLEAN /\ Unread'
    BY <1>1, <2>1 DEF FileInv, Unread, read
  <2>5. FileInv' /\ GraphInFile' /\ StillUnread'
    <3>1. GraphInFile'
      BY <2>3, <2>4, FileEmpty DEF GraphInFile
    <3>2. FileInv'
      BY <2>1, <2>3, <2>4, <3>1, FileEmpty DEF FileInv
    <3>3. QED BY <2>1, <2>4, <3>1, <3>2 DEF StillUnread
  <2>6. ReaderInv'
    <3>1. (StillUnread => ReaderInv)'
      BY UnreadIsReadable, PTL
    <3>2. QED BY <2>5, <3>1
  <2>7. ConverterInv'
    <3>1. graph' = InMemory'
      BY <2>1, InMemorySame
    <3>2. dotPc' = "done"
      BY <2>1 DEF dotVars
    <3>3. QED BY <2>5, <3>1, <3>2 DEF ConverterInv
  <2>8. FirstIsNode'
    BY <1>1, <2>1 DEF FirstIsNode, dotVars
  <2>9. QED BY <2>2, <2>5, <2>6, <2>7, <2>8 DEF Inv
<1>4. CASE WriteAndRead
  <2>1. Next /\ UNCHANGED dotVars
    BY <1>4 DEF WriteAndRead
  <2>2. DotInv'
    BY <1>1, <2>1, DotSame
  <2>3. /\ FileInv' /\ ReaderInv' /\ (GraphInFile => GraphInFile')
        /\ pc # "dot" /\ graph' = graph
    BY <1>1, <2>1, FileNext
  <2>4. ConverterInv'
    <3>1. InMemory' = InMemory /\ text' = text /\ dotPc' = dotPc
      BY <2>1, InMemorySame DEF dotVars
    <3>2. QED BY <1>1, <2>3, <3>1 DEF ConverterInv
  <2>5. FirstIsNode'
    BY <1>1, <2>1 DEF FirstIsNode, dotVars
  <2>6. QED BY <2>2, <2>3, <2>4, <2>5 DEF Inv
<1>5. CASE UNCHANGED <<vars, dotVars>>
  <2>1. UNCHANGED vars /\ UNCHANGED dotVars
    BY <1>5
  <2>2. DotInv' /\ FileInv' /\ ReaderInv' /\ (GraphInFile => GraphInFile')
    BY <1>1, <2>1, DotSame, FileSame
  <2>3. ConverterInv'
    <3>1. InMemory' = InMemory /\ text' = text /\ dotPc' = dotPc /\ pc' = pc /\ graph' = graph
      BY <2>1, InMemorySame DEF dotVars, vars
    <3>2. QED BY <1>1, <2>2, <3>1 DEF ConverterInv
  <2>4. FirstIsNode'
    BY <1>1, <2>1 DEF FirstIsNode, dotVars
  <2>5. QED BY <2>2, <2>3, <2>4 DEF Inv
<1>6. QED BY <1>2, <1>3, <1>4, <1>5 DEF ConverterNext

\* The strengthened invariant of dot2edg and of the two readers, whatever the text
\* and the graph, wherever realloc moved the array and the writer was stopped.
THEOREM InvHolds == ConverterSpec => []Inv
BY InvInit, InvNext, PTL DEF ConverterSpec

\* The operators that DotGraph brings are those of CFG.
LEMMA SameCardinality ==
    ASSUME NEW S
    PROVE  Dot2Graph!Cardinality(S) = Cardinality(S)
BY DEF Dot2Graph!Cardinality, Cardinality, Dot2Graph!IsFiniteSet, IsFiniteSet

\* So is the selection of elements.
LEMMA SameElementsAt ==
    ASSUME NEW s, NEW I
    PROVE  Dot2Graph!ElementsAt(s, I) = ElementsAt(s, I)
BY DEF Dot2Graph!ElementsAt, Dot2Graph!RankIn, ElementsAt, RankIn, Dot2Graph!Cardinality,
       Cardinality, Dot2Graph!IsFiniteSet, IsFiniteSet

-----------------------------------------------------------------------------
(***************************************************************************)
(* What the invariant says of the properties.                              *)
(***************************************************************************)
\* The types of DotGraph.
LEMMA DotTyped ==
    ASSUME DotInv
    PROVE  Dot2Graph!TypeOK
<1> DEFINE n == Len(storage)
           D == nodes_dict
           Place(i, p) == p[2].at = i
           f == [i \in 1..n |-> CHOOSE p \in D : Place(i, p)]
<1>1. storage \in Seq(ListNodes) /\ n \in Nat /\ DOMAIN storage = 1..n
  BY LenProperties DEF DotInv, DotTypes
<1>2. /\ \A i \in 1..n : \E p \in D : Place(i, p)
      /\ \A p \in D : p[2].at \in 1..n /\ p[1] = storage[p[2].at].node_id
      /\ \A p, q \in D : p[1] = q[1] => p = q
  BY DEF DotInv, DictInv
<1>3. Cardinality(D) = n
  <2> HIDE DEF D, n
  <2>1. \A i \in 1..n : f[i] \in D /\ Place(i, f[i])
    BY <1>2
  <2>2. f \in [1..n -> D]
    BY <1>2
  <2> HIDE DEF f
  <2>3. \A i, j \in 1..n : f[i] = f[j] => i = j
    BY <2>1
  <2>4. ASSUME NEW x \in D PROVE \E i \in 1..n : f[i] = x
    <3>1. PICK i \in 1..n : i = x[2].at /\ x[1] = storage[i].node_id
      BY <1>2
    <3>2. f[i] \in D /\ f[i][2].at = i
      BY <2>1
    <3>3. f[i][1] = storage[i].node_id
      BY <1>2, <3>2
    <3>4. QED BY <1>2, <3>1, <3>2, <3>3
  <2>5. QED BY <1>1, <2>2, <2>3, <2>4, CountListed
<1>4. ASSUME NEW i \in DOMAIN storage
      PROVE  /\ storage[i].symb \in Int
             /\ \E p \in nodes_dict : p[1] = storage[i].node_id /\ p[2].at = i
  <2>1. storage[i] \in ListNodes
    BY <1>1, ElementOfSeq
  <2>2. PICK p \in nodes_dict : p[2].at = i
    BY <1>1, <1>2
  <2>3. p[1] = storage[i].node_id
    BY <1>2, <2>2
  <2>4. QED BY <2>1, <2>2, <2>3 DEF ListNodes
<1>5. /\ dotPos \in 1..(Len(text) + 1) /\ dotPc \in {"nodes", "edges", "done", "exit"}
      /\ moved \in 0..Len(storage)
      /\ (dotRoot = Dot2Graph!NULL) <=> (storage = <<>>)
      /\ dotRoot # Dot2Graph!NULL => dotRoot.node_id = storage[1].node_id
  BY DEF DotInv, DotTypes, RootInv
<1>6. Cardinality(nodes_dict) = Len(storage)
  BY <1>3
<1> HIDE DEF n, D
<1>7. QED BY <1>4, <1>5, <1>6, SameCardinality DEF Dot2Graph!TypeOK

\* No link is a pointer from before a move, and both of its ends count it.
LEMMA DotLinked ==
    ASSUME DotInv
    PROVE  Dot2Graph!LinksStay
<1> DEFINE n == Len(storage)
<1>1. storage \in Seq(ListNodes) /\ n \in Nat /\ DOMAIN storage = 1..n
  BY LenProperties DEF DotInv, DotTypes
<1>2. CASE dotPc \in {"nodes", "exit"}
  <2>1. \A i \in 1..n : DOMAIN storage[i].children = {} /\ DOMAIN storage[i].fathers = {}
    BY <1>2 DEF DotInv, EdgesInv
  <2>2. QED BY <1>1, <2>1 DEF Dot2Graph!LinksStay
<1>3. CASE dotPc \in {"edges", "done"}
  <2>1. ASSUME NEW i \in 1..n
        PROVE  /\ storage[i].children \in Seq(Pointers)
               /\ \A k \in DOMAIN storage[i].children :
                     /\ storage[i].children[k] \in Pointers
                     /\ storage[i].children[k].at \in 1..n
                     /\ storage[i].children[k].times = moved
               /\ \A k \in DOMAIN storage[i].fathers : storage[i].fathers[k].times = moved
    <3>1. storage[i] \in ListNodes
      BY <1>1, ElementOfSeq
    <3>2. storage[i].children \in Seq(Pointers)
      BY <3>1 DEF ListNodes
    <3>3. DOMAIN storage[i].children = 1..Len(storage[i].children)
      BY <3>2, LenProperties
    <3>4. ChildrenSoFar(i)
      BY <1>3 DEF DotInv, EdgesInv
    <3>5. \A k \in DOMAIN storage[i].children :
             /\ storage[i].children[k].at \in 1..n
             /\ storage[i].children[k].times = moved
      BY <3>3, <3>4 DEF ChildrenSoFar, PointsTo
    <3>6. \A k \in DOMAIN storage[i].children : storage[i].children[k] \in Pointers
      BY <3>2, <3>3, ElementOfSeq
    <3>7. \A k \in DOMAIN storage[i].fathers : storage[i].fathers[k].times = moved
      BY <1>3, SMTT(30) DEF DotInv, EdgesInv
    <3>8. QED BY <3>2, <3>5, <3>6, <3>7
  <2>2. ASSUME NEW i \in 1..n, NEW k \in DOMAIN storage[i].children
        PROVE  LET c == storage[i].children[k]
               IN  /\ Dot2Graph!Current(c)
                   /\ Cardinality({j \in DOMAIN storage[i].children : storage[i].children[j] = c})
                      = Cardinality({j \in DOMAIN storage[c.at].fathers : storage[c.at].fathers[j].at = i})
    <3> DEFINE c == storage[i].children[k]
    <3>1. c \in Pointers /\ c.at \in 1..n /\ c.times = moved
      BY <2>1
    <3>2. HowOften(storage[i].children, c.at) = HowOften(storage[c.at].fathers, i)
      <4> HIDE DEF c
      <4>1. QED BY <1>3, <3>1 DEF DotInv, EdgesInv
    <3>3. \A j \in DOMAIN storage[i].children :
             storage[i].children[j] = c <=> storage[i].children[j].at = c.at
      <4>1. \A p, q \in Pointers : p.at = q.at /\ p.times = q.times => p = q
        BY DEF Pointers
      <4> HIDE DEF c
      <4>2. QED BY <2>1, <3>1, <4>1
    <3>4. {j \in DOMAIN storage[i].children : storage[i].children[j] = c}
          = {j \in DOMAIN storage[i].children : storage[i].children[j].at = c.at}
      BY <3>3
    <3> HIDE DEF c
    <3>5. /\ Dot2Graph!Current(c)
          /\ Cardinality({j \in DOMAIN storage[i].children : storage[i].children[j] = c})
             = Cardinality({j \in DOMAIN storage[c.at].fathers : storage[c.at].fathers[j].at = i})
      BY <3>1, <3>2, <3>4 DEF HowOften, Dot2Graph!Current
    <3>6. QED BY <3>5 DEF c
  <2> DEFINE Stays(i, k) ==
        LET c == storage[i].children[k]
        IN  /\ Dot2Graph!Current(c)
            /\ Cardinality({j \in DOMAIN storage[i].children : storage[i].children[j] = c})
               = Cardinality({j \in DOMAIN storage[c.at].fathers : storage[c.at].fathers[j].at = i})
  <2>3. \A i \in 1..n : /\ \A k \in DOMAIN storage[i].children : Stays(i, k)
                        /\ \A k \in DOMAIN storage[i].fathers : storage[i].fathers[k].times = moved
    <3>1. \A i \in 1..n : \A k \in DOMAIN storage[i].children : Stays(i, k)
      BY <2>2
    <3> HIDE DEF Stays
    <3>2. QED BY <2>1, <3>1
  <2>4. Dot2Graph!LinksStay <=>
          \A i \in DOMAIN storage :
             /\ \A k \in DOMAIN storage[i].children : Stays(i, k)
             /\ \A k \in DOMAIN storage[i].fathers : Dot2Graph!Current(storage[i].fathers[k])
    BY DEF Dot2Graph!LinksStay, Dot2Graph!Cardinality, Cardinality, Dot2Graph!IsFiniteSet,
           IsFiniteSet
  <2> HIDE DEF Stays
  <2>5. QED BY <1>1, <2>3, <2>4 DEF Dot2Graph!Current
<1>4. QED BY <1>2, <1>3 DEF DotInv, DotTypes

\* What the reader keeps in its memory, and that no pointer of the grammar is old:
\* ReadersInv in every reachable state of dot2edg and of the readers.
THEOREM ReadersSafe == ConverterSpec => []ReadersInv
<1>1. Inv => ReadersInv
  <2> SUFFICES ASSUME Inv PROVE ReadersInv
    OBVIOUS
  <2>1. DotInv /\ FileInv /\ ReaderTypes
    BY DEF Inv, ReaderInv
  <2>2. /\ nodes \in Seq(NodesOfReader(graph)) /\ DOMAIN nodes = 1..Len(nodes)
        /\ Len(nodes) \in Nat
    BY <2>1, LenProperties DEF ReaderTypes
  <2>3. \A i \in DOMAIN links : links[i] \in (1..Len(nodes)) \X (1..Len(nodes))
    <3> DEFINE NN == (1..Len(nodes)) \X (1..Len(nodes))
    <3>1. links \in Seq(NN)
      BY <2>1 DEF ReaderTypes
    <3> HIDE DEF NN
    <3>2. \A i \in DOMAIN links : links[i] \in NN
      BY <3>1, ElementOfSeq, LenProperties
    <3>3. QED BY <3>2 DEF NN
  <2>4. TypeOK /\ RoomForNodes
    BY <2>1, <2>2, <2>3 DEF TypeOK, RoomForNodes, ReaderTypes, FileInv, Unread
  <2>5. QED BY <2>1, <2>4, DotTyped, DotLinked DEF ReadersInv
<1>2. QED BY <1>1, InvHolds, PTL

\* A sequence that starts as another does is a prefix of it.
LEMMA StartIsPrefix ==
    ASSUME NEW T, NEW s \in Seq(T), NEW t \in Seq(T), StartsWith(t, s)
    PROVE  IsPrefix(s, t)
<1> DEFINE n == Len(s)
<1>1. n \in Nat /\ Len(t) \in Nat /\ n <= Len(t) /\ \A i \in 1..n : t[i] = s[i]
  BY LenProperties DEF StartsWith
<1> HIDE DEF n
<1>2. SubSeq(s, 1, n) = [i \in 1..n |-> s[i]]
  BY <1>1 DEF n
<1>3. SubSeq(t, 1, n) = [i \in 1..n |-> t[i]]
  BY <1>1
<1>4. QED BY <1>1, <1>2, <1>3 DEF IsPrefix, n

\* Of a file that was read to its end every node but the last of a cut one is
\* as it was written, and all of them if there are links.
LEMMA ReadFacts ==
    ASSUME FileInv, ReaderInv, pc = "done", Len(file) >= 2
    PROVE  LET k == Len(Kept(graph))
               l == Len(LinksOf(graph))
           IN  /\ k \in Nat /\ l \in Nat /\ size = k
               /\ nodes \in Seq(NodesOfReader(graph)) /\ Len(nodes) \in Nat
               /\ links \in Seq((1..Len(nodes)) \X (1..Len(nodes))) /\ Len(links) \in Nat
               /\ Len(nodes) <= k /\ Len(links) <= l
               /\ \A m \in 1..(Len(nodes) - 1) : NodeAsWritten(m)
               /\ whole \/ Len(links) # 0 \/ root # 0 =>
                     Len(nodes) = k /\ \A m \in 1..k : NodeAsWritten(m)
               /\ \A m \in 1..Len(links) : LinkAsWritten(m)
               /\ whole \/ root # 0 => Len(links) = l
               /\ whole => root = IF RootOf(graph) = <<>> THEN 0 ELSE Find(graph.root)
<1> DEFINE k == Len(Kept(graph))
           l == Len(LinksOf(graph))
           L == Len(file)
           N == Len(nodes)
           M == Len(links)
           F == Find(graph.root)
<1>1. IsReadable(graph) /\ GraphInFile
  <2>1. ASSUME TextInFile PROVE FALSE
    <3>1. Len(file) = 1
      BY <2>1, TextItem
    <3>2. QED BY <3>1
  <2>2. QED BY <2>1 DEF FileInv
<1>2. /\ k \in Nat /\ l \in Nat
      /\ Len(Written(graph)) = IF RootOf(graph) = <<>> THEN k + l + 2 ELSE k + l + 3
  BY <1>1, WrittenFacts DEF Ends
<1>3. /\ nodes \in Seq(NodesOfReader(graph)) /\ N \in Nat
      /\ links \in Seq((1..N) \X (1..N)) /\ M \in Nat
      /\ pos \in 1..(L + 1) /\ L \in Nat
  <2> DEFINE NN == (1..N) \X (1..N)
  <2>1. nodes \in Seq(NodesOfReader(graph)) /\ links \in Seq(NN) /\ pos \in 1..(L + 1)
    BY DEF ReaderInv, ReaderTypes
  <2> HIDE DEF NN
  <2>2. N \in Nat /\ M \in Nat /\ L \in Nat
    BY <2>1, LenProperties DEF FileInv
  <2>3. QED BY <2>1, <2>2 DEF NN
<1>4. pos > L
  BY DEF ReaderInv, ReaderPlace
<1>5. /\ pos >= 3 /\ size = k /\ N = Least(pos - 3, k)
      /\ \A m \in 1..N : NodeAsWritten(m) \/ (m + 2 = L /\ ~whole)
      /\ M = IF pos <= k + 3 THEN 0 ELSE Least(pos - (k + 3), l)
      /\ \A m \in 1..M : LinkAsWritten(m)
      /\ root = IF pos > k + l + 3 THEN F ELSE 0
  BY DEF ReaderInv, ReadSoFar
<1>6. whole => L = Len(Written(graph))
  BY <1>1 DEF GraphInFile
<1> HIDE DEF k, l, L, N, M, F
<1>7. pos = L + 1 /\ (whole => pos >= k + l + 3)
  BY <1>2, <1>3, <1>4, <1>6
<1>8. N <= k /\ N <= pos - 3 /\ M <= l
  BY <1>2, <1>3, <1>5 DEF Least
<1>9. \A m \in 1..(N - 1) : NodeAsWritten(m)
  <2>1. ASSUME NEW m \in 1..(N - 1) PROVE m \in 1..N /\ m + 2 # L
    BY <1>3, <1>7, <1>8
  <2>2. QED BY <1>5, <2>1
<1>10. M # 0 \/ root # 0 \/ whole => pos >= k + 3 /\ (pos > k + 3 \/ whole)
  BY <1>2, <1>3, <1>5, <1>7
<1>11. ASSUME whole \/ M # 0 \/ root # 0
       PROVE  N = k /\ \A m \in 1..k : NodeAsWritten(m)
  <2>1. N = k
    BY <1>2, <1>3, <1>5, <1>10, <1>11 DEF Least
  <2>2. ASSUME NEW m \in 1..k PROVE ~(m + 2 = L /\ ~whole)
    BY <1>2, <1>3, <1>7, <1>10, <1>11
  <2>3. QED BY <1>5, <2>1, <2>2
<1>12. whole \/ root # 0 => M = l
  <2>1. whole \/ root # 0 => pos >= k + l + 3
    BY <1>2, <1>3, <1>5, <1>7
  <2>2. pos >= k + l + 3 => M = l
    <3>1. CASE pos <= k + 3
      BY <1>2, <1>3, <1>5, <3>1
    <3>2. CASE pos > k + 3
      BY <1>2, <1>3, <1>5, <3>2 DEF Least
    <3>3. QED BY <1>2, <1>3, <3>1, <3>2
  <2>3. QED BY <2>1, <2>2
<1>13. whole => root = IF RootOf(graph) = <<>> THEN 0 ELSE F
  BY <1>2, <1>3, <1>5, <1>6, <1>7
<1>14. QED BY <1>2, <1>3, <1>5, <1>8, <1>9, <1>11, <1>12, <1>13 DEF k, l, N, M, F

\* Of a file whose writer was stopped, at any place, the two readers make a part
\* of the graph: CutFileIsPrefix of graphIO.c in every reachable state.
THEOREM CutFileExact == ConverterSpec => []CutFileIsPrefix
<1>1. Inv => CutFileIsPrefix
  <2> SUFFICES ASSUME Inv, Loaded, ~whole
               PROVE  LET ids == [i \in DOMAIN nodes |-> nodes[i].id]
                          written == [i \in DOMAIN links |-> <<ids[links[i][1]], ids[links[i][2]]>>]
                      IN  /\ Len(ids) <= Len(Kept(graph))
                          /\ \A i \in 1..(Len(ids) - 1) : ids[i] = Kept(graph)[i]
                          /\ links # <<>> => ids = Kept(graph)
                          /\ IsPrefix(written, LinksOf(graph))
                          /\ root # 0 => written = LinksOf(graph)
    BY DEF CutFileIsPrefix
  <2> DEFINE ids == [i \in DOMAIN nodes |-> nodes[i].id]
             written == [i \in DOMAIN links |-> <<ids[links[i][1]], ids[links[i][2]]>>]
             K == Kept(graph)
             L == LinksOf(graph)
             T == NodesOf(graph)
             TT == T \X T
             N == Len(nodes)
             M == Len(links)
  <2>1. FileInv /\ ReaderInv /\ pc = "done"
    BY DEF Inv, Loaded
  <2>2. LinksInside(graph)
    BY <2>1 DEF FileInv, IsReadable
  <2>3. /\ K \in Seq(T) /\ Len(K) \in Nat /\ L \in Seq(TT) /\ Len(L) \in Nat
    BY <2>2, KeptFacts, LinksFacts
  <2>4. CASE Len(file) <= 1
    <3>1. nodes = <<>> /\ links = <<>> /\ root = 0
      BY <2>1, <2>4 DEF ReaderInv, ReaderPlace, NothingRead
    <3>2. ids = <<>> /\ written = <<>>
      BY <3>1
    <3> HIDE DEF ids, written, K, L, TT
    <3>3. Len(<<>>) = 0 /\ 1..(0 - 1) = {} /\ <<>> \in Seq(TT)
      OBVIOUS
    <3>4. IsPrefix(<<>>, L)
      <4>1. StartsWith(L, <<>>)
        BY <2>3 DEF StartsWith
      <4>2. QED BY <2>3, <3>3, <4>1, StartIsPrefix
    <3>5. QED BY <2>3, <3>1, <3>2, <3>3, <3>4 DEF ids, written, K, L
  <2>5. CASE Len(file) >= 2
    <3>1. /\ nodes \in Seq(NodesOfReader(graph)) /\ N \in Nat /\ M \in Nat
          /\ links \in Seq((1..N) \X (1..N))
          /\ N <= Len(K) /\ M <= Len(L)
          /\ \A m \in 1..(N - 1) : NodeAsWritten(m)
          /\ M # 0 \/ root # 0 => N = Len(K) /\ \A m \in 1..Len(K) : NodeAsWritten(m)
          /\ \A m \in 1..M : LinkAsWritten(m)
          /\ root # 0 => M = Len(L)
      BY <2>1, <2>5, ReadFacts
    <3>2. DOMAIN nodes = 1..N /\ DOMAIN links = 1..M
      <4> DEFINE NN == (1..N) \X (1..N)
      <4>1. links \in Seq(NN)
        BY <3>1
      <4> HIDE DEF NN
      <4>2. QED BY <3>1, <4>1, LenProperties
    <3>3. \A m : NodeAsWritten(m) => nodes[m].id = K[m]
      BY DEF NodeAsWritten, Node
    <3>4. \A m \in 1..M : /\ links[m] \in (1..N) \X (1..N)
                          /\ nodes[links[m][1]].id = L[m][1] /\ nodes[links[m][2]].id = L[m][2]
      <4> DEFINE NN == (1..N) \X (1..N)
      <4>1. links \in Seq(NN)
        BY <3>1
      <4> HIDE DEF NN
      <4>2. \A m \in 1..M : links[m] \in NN
        BY <4>1, ElementOfSeq
      <4>3. QED BY <3>1, <4>2 DEF LinkAsWritten, NN
    <3> HIDE DEF K, L, N, M
    <3>5. ids = [i \in 1..N |-> nodes[i].id]
      BY <3>2
    <3>6. Len(ids) = N /\ \A i \in 1..N : ids[i] = nodes[i].id
      <4> HIDE DEF ids
      <4>1. QED BY <3>1, <3>5
    <3> HIDE DEF ids
    <3>7. \A i \in 1..(N - 1) : ids[i] = K[i]
      <4>1. \A i \in 1..(N - 1) : i \in 1..N
        BY <3>1
      <4>2. QED BY <3>1, <3>3, <3>6, <4>1
    <3>8. M # 0 => ids = K
      <4> SUFFICES ASSUME M # 0 PROVE ids = K
        OBVIOUS
      <4>1. N = Len(K) /\ \A i \in 1..N : ids[i] = K[i]
        BY <3>1, <3>3, <3>6
      <4>2. K = [i \in 1..N |-> K[i]] /\ ids = [i \in 1..N |-> ids[i]]
        <5>1. K = [i \in 1..Len(K) |-> K[i]]
          BY <2>3
        <5>2. QED BY <3>5, <4>1, <5>1
      <4>3. QED BY <4>1, <4>2
    <3>9. written = [m \in 1..M |-> L[m]]
      <4>1. ASSUME NEW m \in 1..M PROVE <<ids[links[m][1]], ids[links[m][2]]>> = L[m]
        <5>1. ids[links[m][1]] = L[m][1] /\ ids[links[m][2]] = L[m][2]
          BY <3>4, <3>6
        <5>2. m \in 1..Len(L)
          BY <2>3, <3>1
        <5>3. L[m] \in TT
          <6> HIDE DEF TT
          <6>1. QED BY <2>3, <5>2, ElementOfSeq
        <5>4. QED BY <5>1, <5>3
      <4>2. QED BY <3>2, <4>1
    <3>10. IsPrefix(written, L) /\ (M = Len(L) => written = L) /\ (links # <<>> => M # 0)
      <4>1. links # <<>> => M # 0
        <5> DEFINE NN == (1..N) \X (1..N)
        <5>1. links \in Seq(NN)
          BY <3>1
        <5> HIDE DEF NN
        <5>2. QED BY <5>1 DEF M
      <4> HIDE DEF TT, written
      <4>2. \A m \in 1..M : m \in 1..Len(L) /\ L[m] \in TT
        <5>1. \A m \in 1..M : m \in 1..Len(L)
          BY <2>3, <3>1
        <5>2. QED BY <2>3, <5>1, ElementOfSeq
      <4>3. /\ written \in Seq(TT) /\ Len(written) = M /\ \A m \in 1..M : written[m] = L[m]
        BY <3>1, <3>9, <4>2
      <4>4. StartsWith(L, written)
        BY <3>1, <4>3 DEF StartsWith
      <4>5. IsPrefix(written, L)
        BY <2>3, <4>3, <4>4, StartIsPrefix
      <4>6. M = Len(L) => written = L
        <5>1. L = [m \in 1..Len(L) |-> L[m]]
          BY <2>3
        <5>2. QED BY <3>9, <5>1
      <4>7. QED BY <4>1, <4>5, <4>6
    <3>11. QED BY <3>1, <3>6, <3>7, <3>8, <3>10 DEF ids, K, L
  <2>6. QED
    <3>1. file \in Seq(ItemsOf(graph))
      BY <2>1 DEF FileInv
    <3>2. Len(file) \in Nat
      BY <3>1, LenProperties
    <3>3. Len(file) <= 1 \/ Len(file) >= 2
      BY <3>2
    <3>4. QED BY <2>4, <2>5, <3>3
<1>2. QED BY <1>1, InvHolds, PTL

\* The statements that name a node, and the edges that have it as a father, as
\* the property and the invariant say it.
LEMMA SameStatements ==
    ASSUME DotInv, dotPc = "done", NEW id
    PROVE  /\ Dot2Graph!NodeStatements(id) = NodesNamed(text, id)
           /\ Dot2Graph!EdgesFrom(id) = ElementsAt(text, EdgesBefore(text, id, dotPos))
           /\ EdgesBefore(text, id, dotPos) \in SUBSET (1..Len(text))
<1>1. \A n : Dot2Graph!NodeStatements(n) = NodesNamed(text, n)
  BY DEF Dot2Graph!NodeStatements, NodesNamed
<1>2. text \in Seq(Dot2Graph!Statements) /\ dotPos \in Nat /\ dotPos > Len(text)
  BY LenProperties DEF DotInv, DotTypes, EdgesInv
<1>3. DOMAIN text = 1..Len(text) /\ \A k \in DOMAIN text : k < dotPos
  BY <1>2, LenProperties
<1> DEFINE I == {k \in DOMAIN text : /\ text[k].kind = "edge" /\ hash[text[k].father] = id
                                     /\ Dot2Graph!HasNode(text[k].father)
                                     /\ Dot2Graph!HasNode(text[k].child)}
           J == EdgesBefore(text, id, dotPos)
<1>4. \A k \in DOMAIN text :
         Dot2Graph!HasNode(text[k].father) /\ Dot2Graph!HasNode(text[k].child)
         <=> HasBothNodes(text, text[k])
  BY <1>1 DEF Dot2Graph!HasNode, HasBothNodes
<1>5. I = J
  BY <1>3, <1>4 DEF EdgesBefore
<1>6. Dot2Graph!EdgesFrom(id) = Dot2Graph!ElementsAt(text, I)
  BY DEF Dot2Graph!EdgesFrom
<1>7. J \in SUBSET (1..Len(text))
  BY <1>3 DEF EdgesBefore
<1> HIDE DEF I, J
<1>8. Dot2Graph!EdgesFrom(id) = ElementsAt(text, J)
  BY <1>5, <1>6, SameElementsAt
<1>9. QED BY <1>1, <1>7, <1>8 DEF J

\* The children of a node are those of its edges in the text, in their order.
LEMMA ChildrenAreText ==
    ASSUME DotInv, dotPc = "done", NEW i \in 1..Len(storage)
    PROVE  LET edges == Dot2Graph!EdgesFrom(storage[i].node_id)
           IN  [k \in DOMAIN storage[i].children |->
                  storage[storage[i].children[k].at].node_id]
               = [k \in DOMAIN edges |-> hash[edges[k].child]]
<1> DEFINE I == EdgesBefore(text, storage[i].node_id, dotPos)
           c == Cardinality(I)
           edges == Dot2Graph!EdgesFrom(storage[i].node_id)
           kids == storage[i].children
           S == Dot2Graph!Statements
<1>1. /\ edges = ElementsAt(text, I) /\ I \in SUBSET (1..Len(text)) /\ text \in Seq(S)
  BY SameStatements DEF DotInv, DotTypes
<1>2. Len(kids) = c /\ \A m \in 1..c : PointsTo(kids[m], hash[text[Nth(I, m)].child])
  BY DEF DotInv, EdgesInv, ChildrenSoFar
<1>3. DOMAIN kids = 1..Len(kids)
  <2>1. storage[i] \in ListNodes
    BY ElementOfSeq DEF DotInv, DotTypes
  <2>2. kids \in Seq(Pointers)
    BY <2>1 DEF ListNodes
  <2> HIDE DEF kids
  <2>3. QED BY <2>2, LenProperties
<1> HIDE DEF I, S, edges, kids
<1>4. DOMAIN edges = 1..c /\ \A m \in 1..c : edges[m] = text[Nth(I, m)]
  BY <1>1, ElementsFacts
<1> HIDE DEF c
<1>5. \A m \in 1..c : storage[kids[m].at].node_id = hash[edges[m].child]
  BY <1>2, <1>4 DEF PointsTo
<1>6. [k \in DOMAIN kids |-> storage[kids[k].at].node_id] = [k \in DOMAIN edges |-> hash[edges[k].child]]
  BY <1>2, <1>3, <1>4, <1>5
<1>7. QED BY <1>6 DEF edges, kids

\* The nodes of a text that was read to its end.
LEMMA NodesAreText ==
    ASSUME DotInv, dotPc = "done"
    PROVE  /\ storage \in Seq(ListNodes) /\ Len(storage) \in Nat /\ DOMAIN storage = 1..Len(storage)
           /\ \A k \in DOMAIN text : text[k].kind = "node" =>
                 \E i \in 1..Len(storage) : storage[i].node_id = hash[text[k].name]
           /\ \A i \in 1..Len(storage) :
                 LET k == FirstNamed(text, storage[i].node_id)
                 IN  /\ k \in DOMAIN text /\ text[k].kind = "node"
                     /\ hash[text[k].name] = storage[i].node_id
                     /\ storage[i].symb = Dot2Graph!SymbolOf(text[k].options)
           /\ \A i, j \in 1..Len(storage) :
                 i < j => FirstNamed(text, storage[i].node_id) < FirstNamed(text, storage[j].node_id)
<1>1. storage \in Seq(ListNodes) /\ Len(storage) \in Nat /\ DOMAIN storage = 1..Len(storage)
  BY LenProperties DEF DotInv, DotTypes
<1>2. NodesInv
  BY DEF DotInv
<1>3. QED BY <1>1, <1>2 DEF NodesInv, WasRead, NodesNamed

\* So the graph that was read is the graph of the text.
LEMMA DotIsText ==
    ASSUME DotInv
    PROVE  Dot2Graph!GraphIsText
<1> SUFFICES ASSUME dotPc = "done" PROVE Dot2Graph!GraphIsText
  BY DEF Dot2Graph!GraphIsText
<1> DEFINE first(id) == Dot2Graph!FirstOf(Dot2Graph!NodeStatements(id))
           edges(id) == Dot2Graph!EdgesFrom(id)
<1>1. \A id : first(id) = FirstNamed(text, id)
  BY SameStatements DEF FirstNamed
<1>2. {storage[i].node_id : i \in DOMAIN storage} =
         {hash[text[i].name] : i \in {i \in DOMAIN text : text[i].kind = "node"}}
  BY NodesAreText
<1>3. \A i, j \in DOMAIN storage : i < j => first(storage[i].node_id) < first(storage[j].node_id)
  <2> HIDE DEF first
  <2>1. QED BY <1>1, NodesAreText
<1>4. ASSUME NEW i \in DOMAIN storage
      PROVE  /\ storage[i].symb = Dot2Graph!SymbolOf(text[first(storage[i].node_id)].options)
             /\ [k \in DOMAIN storage[i].children |-> storage[storage[i].children[k].at].node_id]
                = [k \in DOMAIN edges(storage[i].node_id) |-> hash[edges(storage[i].node_id)[k].child]]
  <2>1. i \in 1..Len(storage)
    BY NodesAreText
  <2>2. storage[i].symb = Dot2Graph!SymbolOf(text[first(storage[i].node_id)].options)
    <3> HIDE DEF first
    <3>1. QED BY <1>1, <2>1, NodesAreText
  <2>3. QED BY <2>1, <2>2, ChildrenAreText
<1>5. QED BY <1>2, <1>3, <1>4 DEF Dot2Graph!GraphIsText

\* Whatever the order of the statements and however often the array moved, the
\* list that node_list_add and addEdgesToGraph have built is the graph of the
\* text: GraphIsText in every reachable state.
THEOREM TextIsRead == ConverterSpec => []GraphIsText
<1>1. Inv => GraphIsText
  BY DotIsText DEF Inv, GraphIsText
<1>2. QED BY <1>1, InvHolds, PTL

\* A whole file that was read to its end: the nodes, the links and the root.
LEMMA WholeFacts ==
    ASSUME FileInv, ReaderInv, Loaded, whole
    PROVE  LET k == Len(Kept(graph))
               l == Len(LinksOf(graph))
           IN  /\ k \in Nat /\ l \in Nat /\ size = k /\ LinksInside(graph)
               /\ Len(nodes) = k /\ DOMAIN nodes = 1..k
               /\ Len(links) = l /\ DOMAIN links = 1..l
               /\ links \in Seq((1..k) \X (1..k))
               /\ \A m \in 1..k : NodeAsWritten(m)
               /\ \A m \in 1..l : LinkAsWritten(m)
               /\ root = IF RootOf(graph) = <<>> THEN 0 ELSE Find(graph.root)
<1> DEFINE k == Len(Kept(graph))
           l == Len(LinksOf(graph))
<1>1. pc = "done" /\ ~TextInFile
  <2>1. ASSUME TextInFile PROVE FALSE
    <3>1. file[1].tag = "text"
      BY <2>1, TextItem
    <3>2. QED BY <3>1 DEF Loaded
  <2>2. QED BY <2>1 DEF Loaded
<1>2. IsReadable(graph) /\ GraphInFile
  BY <1>1 DEF FileInv
<1>3. Len(file) >= 2
  <2>1. Len(Written(graph)) >= 2
    BY <1>2, WrittenFacts DEF Ends
  <2>2. QED BY <1>2, <2>1 DEF GraphInFile
<1>4. /\ k \in Nat /\ l \in Nat /\ size = k
      /\ nodes \in Seq(NodesOfReader(graph))
      /\ links \in Seq((1..Len(nodes)) \X (1..Len(nodes)))
      /\ Len(nodes) = k /\ \A m \in 1..k : NodeAsWritten(m)
      /\ \A m \in 1..Len(links) : LinkAsWritten(m)
      /\ Len(links) = l
      /\ root = IF RootOf(graph) = <<>> THEN 0 ELSE Find(graph.root)
  BY <1>1, <1>3, ReadFacts
<1> DEFINE NN == (1..k) \X (1..k)
<1>5. links \in Seq(NN) /\ LinksInside(graph)
  BY <1>2, <1>4 DEF IsReadable
<1> HIDE DEF k, l, NN
<1>6. DOMAIN nodes = 1..k /\ DOMAIN links = 1..l
  BY <1>4, <1>5, LenProperties
<1>7. QED BY <1>4, <1>5, <1>6 DEF k, l, NN

\* The links of a node were one block of the file, so its children come back in
\* their order.
LEMMA ChildrenAreWritten ==
    ASSUME FileInv, ReaderInv, Loaded, whole, NEW i \in 1..Len(Kept(graph))
    PROVE  ChildrenRead(i) = graph.children[Kept(graph)[i]]
<1> DEFINE K == Kept(graph)
           L == LinksOf(graph)
           N == 1..Len(K)
           M == 1..Len(L)
           NN == N \X N
           T == NodesOf(graph)
           n == K[i]
           kids == graph.children[n]
           c == Len(kids)
<1>1. /\ LinksInside(graph) /\ Len(K) \in Nat /\ Len(L) \in Nat /\ DOMAIN links = M
      /\ links \in Seq(NN) /\ Len(links) = Len(L)
      /\ \A m \in N : NodeAsWritten(m)
      /\ \A m \in M : LinkAsWritten(m)
  BY WholeFacts
<1>2. /\ K \in Seq(T) /\ \A m, o \in N : m < o => K[m] < K[o]
      /\ T = 1..Len(graph.children)
  BY <1>1, KeptFacts
<1>3. n \in T /\ graph.children \in Seq(Seq(T))
  BY <1>1, <1>2, ElementOfSeq DEF LinksInside
<1>4. kids \in Seq(T) /\ c \in Nat
  <2>1. kids \in Seq(T)
    <3> DEFINE S == Seq(T)
    <3>1. graph.children \in Seq(S) /\ n \in 1..Len(graph.children)
      BY <1>2, <1>3
    <3> HIDE DEF S, T, n
    <3>2. graph.children[n] \in S
      BY <3>1, ElementOfSeq
    <3>3. QED BY <3>2 DEF S
  <2>2. QED BY <2>1, LenProperties
<1>5. PICK a \in Nat : LinksStartAt(graph, n, a)
  BY <1>1, <1>3, LinksFacts
<1>6. ASSUME NEW m \in M
      PROVE  /\ links[m] \in NN /\ nodes[links[m][2]].id = L[m][2]
             /\ links[m][1] = i <=> L[m][1] = n
  <2>1. links[m] \in NN
    <3> HIDE DEF NN
    <3>1. QED BY <1>1, ElementOfSeq
  <2>2. nodes[links[m][1]].id = L[m][1] /\ nodes[links[m][2]].id = L[m][2]
    BY <1>1 DEF LinkAsWritten
  <2>3. nodes[links[m][1]].id = K[links[m][1]]
    <3>1. links[m][1] \in N
      BY <2>1
    <3>2. \A x : NodeAsWritten(x) => nodes[x].id = K[x]
      BY DEF NodeAsWritten, Node
    <3> HIDE DEF K
    <3>3. QED BY <1>1, <3>1, <3>2
  <2> DEFINE f == links[m][1]
  <2>4. f \in N /\ i \in N /\ K[f] \in Nat /\ K[i] \in Nat
    <3>1. f \in N
      BY <2>1
    <3>2. \A x \in N : K[x] \in T
      <4> HIDE DEF T, K
      <4>1. QED BY <1>2, ElementOfSeq
    <3>3. QED BY <1>2, <3>1, <3>2, SMTT(30)
  <2> HIDE DEF f, K
  <2>5. f = i \/ f < i \/ i < f
    BY <1>1, <2>4
  <2>6. f # i => K[f] # K[i]
    BY <1>2, <2>4, <2>5
  <2>7. QED BY <2>1, <2>2, <2>3, <2>6 DEF f
<1>7. {k \in DOMAIN links : links[k][1] = i} = (a + 1)..(a + c)
  <2>1. {k \in DOMAIN links : links[k][1] = i} = LinksFrom(graph, n)
    BY <1>1, <1>6 DEF LinksFrom
  <2>2. QED BY <1>5, <2>1 DEF LinksStartAt
<1>8. /\ \A m \in 1..c : a + m \in M /\ L[a + m] = <<n, kids[m]>>
  <2>1. LinksFrom(graph, n) = (a + 1)..(a + c) /\ \A m \in 1..c : L[a + m] = <<n, kids[m]>>
    BY <1>5 DEF LinksStartAt
  <2>2. LinksFrom(graph, n) \subseteq M
    BY DEF LinksFrom
  <2> HIDE DEF M, L, kids, n, c
  <2>3. \A m \in 1..c : a + m \in (a + 1)..(a + c)
    BY <1>4
  <2>4. \A m \in 1..c : a + m \in M
    BY <2>1, <2>2, <2>3
  <2>5. QED BY <2>1, <2>4
<1> DEFINE from == ElementsAt(links, (a + 1)..(a + c))
<1>9. from = [k \in 1..c |-> links[a + k]]
  <2> HIDE DEF c
  <2>1. QED BY <1>4, ElementsBlock
<1>10. ChildrenRead(i) = [k \in DOMAIN from |-> nodes[from[k][2]].id]
  BY <1>7 DEF ChildrenRead
<1>11. \A k \in 1..c : nodes[links[a + k][2]].id = kids[k]
  <2>1. ASSUME NEW k \in 1..c PROVE nodes[links[a + k][2]].id = kids[k]
    <3> DEFINE m == a + k
    <3>1. m \in M /\ L[m] = <<n, kids[k]>>
      BY <1>8
    <3> HIDE DEF m, M, L
    <3>2. nodes[links[m][2]].id = L[m][2]
      BY <1>6, <3>1
    <3>3. QED BY <3>1, <3>2 DEF m
  <2>2. QED BY <2>1
<1> HIDE DEF from, kids, c
<1>12. DOMAIN from = 1..c /\ \A k \in 1..c : from[k] = links[a + k]
  BY <1>9
<1>13. [k \in DOMAIN from |-> nodes[from[k][2]].id] = [k \in 1..c |-> kids[k]]
  BY <1>11, <1>12
<1>14. kids = [k \in 1..c |-> kids[k]]
  BY <1>4 DEF c
<1>15. QED BY <1>10, <1>13, <1>14 DEF kids

\* The first of the nodes written with this number, and the node found.
LEMMA FindInKept ==
    ASSUME FileInv, ReaderInv, Loaded, whole
    PROVE  /\ [i \in DOMAIN nodes |-> nodes[i].id] = Kept(graph)
           /\ root = SelectInSeq(Kept(graph), LAMBDA n : n = graph.root)
<1> DEFINE K == Kept(graph)
           k == Len(K)
           T == NodesOf(graph)
           I == {i \in 1..k : K[i] = graph.root}
<1>1. /\ LinksInside(graph) /\ k \in Nat /\ Len(nodes) = k /\ DOMAIN nodes = 1..k
      /\ \A m \in 1..k : NodeAsWritten(m)
      /\ root = IF RootOf(graph) = <<>> THEN 0 ELSE Find(graph.root)
  BY WholeFacts
<1>2. \A m \in 1..k : nodes[m].id = K[m]
  BY <1>1 DEF NodeAsWritten, Node
<1>3. K \in Seq(T) /\ T = 1..Len(graph.children) /\ Len(graph.children) \in Nat
  BY <1>1, KeptFacts
<1>4. [i \in DOMAIN nodes |-> nodes[i].id] = K
  <2>1. [i \in DOMAIN nodes |-> nodes[i].id] = [i \in 1..k |-> K[i]]
    BY <1>1, <1>2
  <2> HIDE DEF T, K
  <2>2. K = [i \in 1..k |-> K[i]]
    BY <1>3
  <2>3. QED BY <2>1, <2>2
<1>5. SelectInSeq(K, LAMBDA n : n = graph.root) = FirstIn(I)
  BY DEF SelectInSeq, FirstIn
<1>6. Find(graph.root) = FirstIn(I)
  <2>1. NodesWith(graph.root) = I
    BY <1>1, <1>2 DEF NodesWith
  <2> HIDE DEF I
  <2>2. QED BY <2>1, FindIsFirst
<1>7. RootOf(graph) = <<>> => I = {}
  <2> SUFFICES ASSUME RootOf(graph) = <<>>, NEW i \in 1..k, K[i] = graph.root PROVE FALSE
    OBVIOUS
  <2>1. K = <<>> \/ graph.root = 0
    BY DEF RootOf
  <2>2. K # <<>>
    BY <1>1
  <2>3. K[i] \in T
    <3> HIDE DEF K, T
    <3>1. QED BY <1>3, ElementOfSeq
  <2>4. QED BY <1>3, <2>1, <2>2, <2>3
<1> HIDE DEF I
<1>8. I = {} => FirstIn(I) = 0
  BY DEF FirstIn
<1>9. QED BY <1>1, <1>4, <1>5, <1>6, <1>7, <1>8

\* A whole file gives back the graph that was written to it.
LEMMA WholeFileIsGraph ==
    ASSUME FileInv, ReaderInv
    PROVE  RoundTrip
<1> SUFFICES ASSUME Loaded, whole
             PROVE  /\ [i \in DOMAIN nodes |-> nodes[i].id] = Kept(graph) /\ size = Len(nodes)
                    /\ \A i \in DOMAIN nodes : /\ nodes[i].symb = graph.symb[nodes[i].id]
                                               /\ ChildrenRead(i) = graph.children[nodes[i].id]
                    /\ root = SelectInSeq(Kept(graph), LAMBDA n : n = graph.root)
  BY DEF RoundTrip
<1>1. /\ size = Len(nodes) /\ DOMAIN nodes = 1..Len(Kept(graph))
      /\ \A m \in 1..Len(Kept(graph)) : NodeAsWritten(m)
  BY WholeFacts
<1>2. ASSUME NEW i \in DOMAIN nodes
      PROVE  /\ nodes[i].symb = graph.symb[nodes[i].id]
             /\ ChildrenRead(i) = graph.children[nodes[i].id]
  <2>1. i \in 1..Len(Kept(graph)) /\ NodeAsWritten(i)
    BY <1>1
  <2>2. nodes[i].id = Kept(graph)[i] /\ nodes[i].symb = graph.symb[Kept(graph)[i]]
    BY <2>1 DEF NodeAsWritten, Node
  <2>3. ChildrenRead(i) = graph.children[Kept(graph)[i]]
    BY <2>1, ChildrenAreWritten
  <2>4. QED BY <2>2, <2>3
<1>3. QED BY <1>1, <1>2, FindInKept

\* What is in memory when dot2edg writes it, node by node.
LEMMA InMemoryFacts ==
    ASSUME DotInv, dotPc = "done"
    PROVE  /\ NodesOf(InMemory) = 1..Len(storage) /\ Len(storage) \in Nat
           /\ \A i \in 1..Len(storage) :
                 /\ InMemory.symb[i] = storage[i].symb
                 /\ storage[i].children \in Seq(Pointers)
                 /\ DOMAIN storage[i].children = 1..Len(storage[i].children)
                 /\ InMemory.children[i] =
                       [k \in DOMAIN storage[i].children |-> storage[i].children[k].at]
           /\ InMemory.root = PlaceOf(dotRoot.node_id)
<1> DEFINE n == Len(storage)
<1>1. storage \in Seq(ListNodes) /\ DOMAIN storage = 1..n
  BY NodesAreText
<1>2. NodesOf(InMemory) = 1..n /\ n \in Nat
  BY InMemoryIsReadable
<1>3. ASSUME NEW i \in 1..n
      PROVE  /\ storage[i].children \in Seq(Pointers)
             /\ DOMAIN storage[i].children = 1..Len(storage[i].children)
  <2>1. storage[i] \in ListNodes
    BY <1>1, ElementOfSeq
  <2> DEFINE kids == storage[i].children
  <2>2. kids \in Seq(Pointers)
    BY <2>1 DEF ListNodes
  <2> HIDE DEF kids
  <2>3. kids \in Seq(Pointers) /\ DOMAIN kids = 1..Len(kids)
    BY <2>2, LenProperties
  <2>4. QED BY <2>3 DEF kids
<1> DEFINE row(i) == [k \in DOMAIN storage[i].children |-> storage[i].children[k].at]
<1>4. /\ InMemory.children = [i \in DOMAIN storage |-> row(i)]
      /\ InMemory.symb = [i \in DOMAIN storage |-> storage[i].symb]
      /\ InMemory.root = PlaceOf(dotRoot.node_id)
  BY DEF InMemory, RootPlace
<1> HIDE DEF row, n
<1>5. \A i \in 1..n : InMemory.children[i] = row(i) /\ InMemory.symb[i] = storage[i].symb
  BY <1>1, <1>4 DEF n
<1>6. QED BY <1>2, <1>3, <1>4, <1>5 DEF row, n

\* The m-th child of a node in memory is the place of the child of the node's
\* m-th edge in the text.
LEMMA ChildInMemory ==
    ASSUME DotInv, dotPc = "done", NEW i \in 1..Len(storage)
    PROVE  LET edges == EdgesBefore(text, storage[i].node_id, dotPos)
           IN  /\ Cardinality(edges) \in Nat
               /\ DOMAIN InMemory.children[i] = 1..Cardinality(edges)
               /\ \A m \in 1..Cardinality(edges) :
                     /\ Nth(edges, m) \in edges
                     /\ InMemory.children[i][m] \in 1..Len(storage)
                     /\ storage[InMemory.children[i][m]].node_id = hash[text[Nth(edges, m)].child]
               /\ \A k \in edges : \E m \in 1..Cardinality(edges) : Nth(edges, m) = k
<1> DEFINE I == EdgesBefore(text, storage[i].node_id, dotPos)
           c == Cardinality(I)
           kids == storage[i].children
<1>1. /\ DOMAIN kids = 1..Len(kids) /\ InMemory.children[i] = [k \in DOMAIN kids |-> kids[k].at]
  BY InMemoryFacts
<1>2. Len(kids) = c /\ \A m \in 1..c : PointsTo(kids[m], hash[text[Nth(I, m)].child])
  BY DEF DotInv, EdgesInv, ChildrenSoFar
<1>3. I \in SUBSET (1..Len(text)) /\ Len(text) \in Nat /\ text \in Seq(Dot2Graph!Statements)
  BY SameStatements, LenProperties DEF DotInv, DotTypes
<1> HIDE DEF I, kids
<1>4. IsFiniteSet(I) /\ I \subseteq Nat /\ c \in Nat
  <2> DEFINE S == Dot2Graph!Statements
  <2>1. text \in Seq(S)
    BY <1>3
  <2> HIDE DEF S
  <2>2. QED BY <1>3, <2>1, ElementsFacts
<1>5. /\ \A m \in 1..c : Nth(I, m) \in I
      /\ \A k \in I : Nth(I, RankIn(I, k)) = k /\ RankIn(I, k) \in 1..c
  BY <1>4, NthFacts, RankFacts
<1> HIDE DEF c
<1>6. \A k \in I : \E m \in 1..c : Nth(I, m) = k
  BY <1>5
<1>7. DOMAIN InMemory.children[i] = 1..c
  BY <1>1, <1>2
<1>8. \A m \in 1..c : /\ InMemory.children[i][m] \in 1..Len(storage)
                      /\ storage[InMemory.children[i][m]].node_id = hash[text[Nth(I, m)].child]
  BY <1>1, <1>2 DEF PointsTo
<1>9. QED BY <1>4, <1>5, <1>6, <1>7, <1>8 DEF I, c

\* A node of the text is written when the text has a link from or to it.
LEMMA KeptIsLinked ==
    ASSUME DotInv, dotPc = "done", NEW j \in 1..Len(storage)
    PROVE  j \in KeptSet(InMemory) <=> Linked(storage[j].node_id)
<1> DEFINE n == Len(storage)
           g == InMemory
           I(i) == EdgesBefore(text, storage[i].node_id, dotPos)
           c(i) == Cardinality(I(i))
<1>1. NodesOf(g) = 1..n /\ DOMAIN g.children = 1..n
  BY InMemoryFacts DEF NodesOf
<1>2. \A i \in 1..n :
         /\ c(i) \in Nat /\ DOMAIN g.children[i] = 1..c(i)
         /\ \A m \in 1..c(i) : /\ Nth(I(i), m) \in I(i)
                               /\ g.children[i][m] \in 1..n
                               /\ storage[g.children[i][m]].node_id = hash[text[Nth(I(i), m)].child]
         /\ \A k \in I(i) : \E m \in 1..c(i) : Nth(I(i), m) = k
  BY ChildInMemory
<1>3. \A k, id : k \in EdgesBefore(text, id, dotPos) <=>
         k \in DOMAIN text /\ text[k].kind = "edge" /\ hash[text[k].father] = id /\ HasBothNodes(text, text[k])
  <2>1. /\ text \in Seq(Dot2Graph!Statements) /\ dotPos \in Nat /\ dotPos > Len(text)
    BY LenProperties DEF DotInv, DotTypes, EdgesInv
  <2>2. \A k \in DOMAIN text : k < dotPos
    BY <2>1, LenProperties
  <2>3. QED BY <2>2 DEF EdgesBefore
<1>4. \A id : Linked(id) <=> \E k \in DOMAIN text :
         /\ text[k].kind = "edge" /\ id \in {hash[text[k].father], hash[text[k].child]}
         /\ HasBothNodes(text, text[k])
  <2>1. \A id : Dot2Graph!NodeStatements(id) = NodesNamed(text, id)
    BY SameStatements
  <2>2. Range(text) = {text[k] : k \in DOMAIN text}
    BY DEF Range
  <2>3. \A e : Dot2Graph!HasNode(e.father) /\ Dot2Graph!HasNode(e.child) <=> HasBothNodes(text, e)
    BY <2>1 DEF Dot2Graph!HasNode, HasBothNodes
  <2>4. QED BY <2>2, <2>3 DEF Linked
<1>5. \A id : NodesNamed(text, id) # {} => \E i \in 1..n : storage[i].node_id = id
  <2>1. \A k \in DOMAIN text : text[k].kind = "node" =>
              \E i \in 1..n : storage[i].node_id = hash[text[k].name]
    BY NodesAreText
  <2>2. QED BY <2>1 DEF NodesNamed
<1>6. \A i \in 1..n : storage[i].node_id = storage[j].node_id => i = j
  BY OwnNumbers DEF DotInv
<1>7. j \in KeptSet(g) <=> \E i \in 1..n : \E m \in DOMAIN g.children[i] : i = j \/ g.children[i][m] = j
  <2>1. j \in KeptSet(g) <=> g.children[j] # <<>> \/ Fathers(g, j) # {}
    BY <1>1 DEF KeptSet
  <2>2. g.children[j] # <<>> <=> DOMAIN g.children[j] # {}
    <3>1. g.children[j] = [k \in DOMAIN storage[j].children |-> storage[j].children[k].at]
      BY InMemoryFacts
    <3> DEFINE D == DOMAIN storage[j].children
               v(k) == storage[j].children[k].at
    <3>2. g.children[j] = [k \in D |-> v(k)]
      BY <3>1
    <3> HIDE DEF D, v
    <3>3. D = {} => [k \in D |-> v(k)] = <<>>
      OBVIOUS
    <3>4. DOMAIN <<>> = {}
      OBVIOUS
    <3>5. QED BY <3>2, <3>3, <3>4
  <2>3. Fathers(g, j) # {} <=> \E i \in 1..n : \E m \in DOMAIN g.children[i] : g.children[i][m] = j
    BY <1>1 DEF Fathers, E, Range
  <2> HIDE DEF g
  <2>4. QED BY <2>1, <2>2, <2>3
<1> HIDE DEF c, I, g, n
<1>8. ASSUME j \in KeptSet(g) PROVE Linked(storage[j].node_id)
  <2>1. PICK i \in 1..n : \E m \in DOMAIN g.children[i] : i = j \/ g.children[i][m] = j
    BY <1>7, <1>8
  <2>2. PICK m \in DOMAIN g.children[i] : i = j \/ g.children[i][m] = j
    BY <2>1
  <2> DEFINE k == Nth(I(i), m)
  <2>3. k \in I(i) /\ storage[g.children[i][m]].node_id = hash[text[k].child]
    BY <1>2, <2>1, <2>2
  <2> HIDE DEF k
  <2>4. /\ k \in DOMAIN text /\ text[k].kind = "edge" /\ hash[text[k].father] = storage[i].node_id
        /\ HasBothNodes(text, text[k])
    BY <1>3, <2>3 DEF I
  <2>5. storage[j].node_id \in {hash[text[k].father], hash[text[k].child]}
    BY <2>2, <2>3, <2>4
  <2>6. QED BY <1>4, <2>4, <2>5
<1>9. ASSUME Linked(storage[j].node_id) PROVE j \in KeptSet(g)
  <2>1. PICK k \in DOMAIN text :
           /\ text[k].kind = "edge"
           /\ storage[j].node_id \in {hash[text[k].father], hash[text[k].child]}
           /\ HasBothNodes(text, text[k])
    BY <1>4, <1>9
  <2>2. PICK i \in 1..n : storage[i].node_id = hash[text[k].father]
    BY <1>5, <2>1 DEF HasBothNodes
  <2>3. k \in I(i)
    BY <1>3, <2>1, <2>2 DEF I
  <2>4. PICK m \in 1..c(i) : Nth(I(i), m) = k
    BY <1>2, <2>2, <2>3
  <2>5. /\ m \in DOMAIN g.children[i] /\ g.children[i][m] \in 1..n
        /\ storage[g.children[i][m]].node_id = hash[text[k].child]
    BY <1>2, <2>2, <2>4
  <2>6. i = j \/ g.children[i][m] = j
    BY <1>6, <2>1, <2>2, <2>5
  <2>7. QED BY <1>7, <2>2, <2>5, <2>6
<1>10. QED BY <1>8, <1>9 DEF g

\* A text that was written by dot2edg and read from its file.
LEMMA ConvertedFacts ==
    ASSUME Inv, Loaded, whole, text # <<>>
    PROVE  LET K == Kept(graph)
               n == Len(storage)
           IN  /\ DotInv /\ FirstIsNode /\ FileInv /\ ReaderInv /\ dotPc = "done" /\ graph = InMemory
               /\ DOMAIN nodes = 1..Len(K) /\ Len(K) \in Nat /\ n \in Nat
               /\ \A i \in 1..Len(K) :
                     /\ K[i] \in 1..n /\ nodes[i].id = K[i] /\ nodes[i].symb = storage[K[i]].symb
                     /\ Number(i) = storage[K[i]].node_id
                     /\ Linked(Number(i))
               /\ \A j \in 1..n : Linked(storage[j].node_id) => \E i \in 1..Len(K) : K[i] = j
               /\ \A i, j \in 1..Len(K) : i < j => K[i] < K[j]
<1> DEFINE K == Kept(graph)
           k == Len(K)
           n == Len(storage)
<1>1. DotInv /\ FirstIsNode /\ FileInv /\ ReaderInv
  BY DEF Inv
<1>2. dotPc = "done" /\ graph = InMemory
  BY DEF Inv, ConverterInv, Loaded
<1>3. LinksInside(graph) /\ DOMAIN nodes = 1..k /\ \A m \in 1..k : NodeAsWritten(m)
  BY <1>1, WholeFacts
<1>4. /\ k \in Nat /\ \A m \in 1..k : K[m] \in KeptSet(graph)
      /\ \A j \in KeptSet(graph) : \E m \in 1..k : K[m] = j
      /\ \A i, j \in 1..k : i < j => K[i] < K[j]
  BY <1>3, KeptFacts
<1>5. NodesOf(graph) = 1..n /\ n \in Nat /\ \A i \in 1..n : graph.symb[i] = storage[i].symb
  BY <1>1, <1>2, InMemoryFacts
<1>6. KeptSet(graph) \subseteq 1..n
  BY <1>5 DEF KeptSet
<1>7. \A j \in 1..n : j \in KeptSet(graph) <=> Linked(storage[j].node_id)
  BY <1>1, <1>2, KeptIsLinked
<1>8. \A m \in 1..k : nodes[m].id = K[m] /\ nodes[m].symb = graph.symb[K[m]]
  BY <1>3 DEF NodeAsWritten, Node
<1> HIDE DEF K, k, n
<1>9. \A m \in 1..k : Number(m) = storage[K[m]].node_id
  BY <1>8 DEF Number
<1>10. QED BY <1>1, <1>2, <1>3, <1>4, <1>5, <1>6, <1>7, <1>8, <1>9, ZenonT(40) DEF K, k, n

\* The root is the first node of the text again.
LEMMA RootIsFirst ==
    ASSUME Inv, Loaded, whole, text # <<>>, nodes # <<>>, Linked(hash[text[1].name])
    PROVE  root # 0 /\ Number(root) = hash[text[1].name]
<1> DEFINE K == Kept(graph)
           k == Len(K)
           n == Len(storage)
           h == hash[text[1].name]
           I == {i \in 1..k : K[i] = graph.root}
<1>1. /\ DotInv /\ FirstIsNode /\ FileInv /\ ReaderInv /\ dotPc = "done" /\ graph = InMemory
      /\ DOMAIN nodes = 1..k /\ k \in Nat /\ n \in Nat
      /\ \A i \in 1..k : K[i] \in 1..n /\ Number(i) = storage[K[i]].node_id
      /\ \A j \in 1..n : Linked(storage[j].node_id) => \E i \in 1..k : K[i] = j
  BY ConvertedFacts
<1>2. storage \in Seq(ListNodes) /\ DOMAIN storage = 1..n
  BY <1>1, NodesAreText
<1>3. n # 0 /\ storage # <<>>
  <2>1. nodes \in Seq(NodesOfReader(graph))
    BY <1>1 DEF ReaderInv, ReaderTypes
  <2> DEFINE T == NodesOfReader(graph)
  <2> HIDE DEF T
  <2>2. nodes \in Seq(T)
    BY <2>1 DEF T
  <2>3. Len(nodes) # 0 /\ DOMAIN nodes = 1..Len(nodes) /\ Len(nodes) \in Nat
    BY <2>2, EmptySeq, LenProperties
  <2>4. 1 \in 1..k
    <3>1. 1 \in DOMAIN nodes
      BY <2>3
    <3>2. QED BY <1>1, <3>1
  <2>5. n # 0
    <3> HIDE DEF n, K
    <3>1. K[1] \in 1..n
      BY <1>1, <2>4
    <3>2. QED BY <1>1, <3>1
  <2>6. QED BY <1>2, <2>5, EmptySeq
<1>4. text[1].kind = "node" /\ 1 \in DOMAIN text
  <2>1. text[1].kind = "node"
    BY <1>1, <1>3 DEF FirstIsNode
  <2> DEFINE S == Dot2Graph!Statements
  <2>2. text \in Seq(S)
    BY <1>1 DEF DotInv, DotTypes
  <2> HIDE DEF S
  <2>3. Len(text) # 0 /\ DOMAIN text = 1..Len(text) /\ Len(text) \in Nat
    BY <2>2, EmptySeq, LenProperties
  <2>4. QED BY <2>1, <2>3
<1>5. storage[1].node_id = h
  <2>1. PICK i \in 1..n : storage[i].node_id = h
    BY <1>1, <1>4, NodesAreText
  <2>2. FirstNamed(text, h) = 1
    <3>1. 1 \in NodesNamed(text, h)
      BY <1>4 DEF NodesNamed
    <3>2. NodesNamed(text, h) \subseteq Nat /\ \A o \in NodesNamed(text, h) : 1 <= o
      <4>1. text \in Seq(Dot2Graph!Statements)
        BY <1>1 DEF DotInv, DotTypes
      <4>2. DOMAIN text = 1..Len(text)
        BY <4>1, LenProperties
      <4>3. QED BY <4>2 DEF NodesNamed
    <3> DEFINE S == NodesNamed(text, h)
    <3> HIDE DEF S, h
    <3>3. S \subseteq Nat /\ 1 \in S /\ \A o \in S : 1 <= o
      BY <3>1, <3>2 DEF S
    <3>4. Dot2Graph!FirstOf(S) = 1
      BY <3>3, FirstOfFacts
    <3>5. QED BY <3>4 DEF S, FirstNamed
  <2>3. ASSUME i > 1 PROVE FALSE
    <3>1. 1 \in 1..n
      BY <1>1, <1>3
    <3>2. FirstNamed(text, storage[1].node_id) < FirstNamed(text, storage[i].node_id)
      BY <1>1, <2>1, <2>3, <3>1, NodesAreText
    <3>3. FirstNamed(text, storage[1].node_id) \in DOMAIN text
      BY <1>1, <3>1, NodesAreText
    <3>4. DOMAIN text \subseteq Nat \ {0}
      <4>1. text \in Seq(Dot2Graph!Statements)
        BY <1>1 DEF DotInv, DotTypes
      <4>2. DOMAIN text = 1..Len(text)
        BY <4>1, LenProperties
      <4>3. QED BY <4>2
    <3> HIDE DEF h
    <3>5. FirstNamed(text, storage[i].node_id) = 1
      BY <2>1, <2>2
    <3>6. QED BY <3>2, <3>3, <3>4, <3>5
  <2>4. i = 1
    BY <1>1, <2>1, <2>3
  <2>5. QED BY <2>1, <2>4
<1>6. graph.root \in 1..n /\ storage[graph.root].node_id = h
  <2>1. dotRoot # Dot2Graph!NULL /\ dotRoot.node_id = h
    BY <1>1, <1>3, <1>5 DEF DotInv, RootInv
  <2>2. graph.root = PlaceOf(h)
    BY <1>1, <2>1, InMemoryFacts
  <2> HIDE DEF h
  <2>3. /\ PlaceOf(h) \in 0..n
        /\ PlaceOf(h) # 0 => storage[PlaceOf(h)].node_id = h
        /\ 1 \in 1..n => PlaceOf(h) # 0
    BY <1>2, <1>5, PlaceFacts
  <2>4. QED BY <1>1, <1>3, <2>2, <2>3
<1>7. root = FirstIn(I)
  <2>1. root = SelectInSeq(K, LAMBDA x : x = graph.root)
    BY <1>1, FindInKept
  <2>2. SelectInSeq(K, LAMBDA x : x = graph.root) = FirstIn(I)
    BY DEF SelectInSeq, FirstIn
  <2>3. QED BY <2>1, <2>2
<1> HIDE DEF h, K, n
<1>8. I # {} /\ I \in SUBSET (1..k) /\ \A i \in I : i \in 1..k /\ K[i] = graph.root
  <2>1. Linked(storage[graph.root].node_id)
    BY <1>6 DEF h
  <2>2. PICK i \in 1..k : K[i] = graph.root
    BY <1>1, <1>6, <2>1
  <2>3. QED BY <2>2
<1> HIDE DEF I, k
<1>9. root \in I
  <2>1. FirstIn(I) \in I
    BY <1>1, <1>8, FirstInFacts
  <2>2. QED BY <1>7, <2>1
<1>10. root # 0 /\ Number(root) = h
  <2>1. root \in 1..k /\ K[root] = graph.root
    BY <1>8, <1>9
  <2>2. Number(root) = h
    BY <1>1, <1>6, <2>1
  <2>3. QED BY <1>1, <2>1, <2>2
<1>11. QED BY <1>10 DEF h

\* The children of a node that was converted and read.
LEMMA ConvertedChildren ==
    ASSUME Inv, Loaded, whole, text # <<>>, NEW i \in DOMAIN nodes
    PROVE  LET edges == Dot2Graph!EdgesFrom(Number(i))
           IN  [k \in DOMAIN ChildrenRead(i) |-> storage[ChildrenRead(i)[k]].node_id]
               = [k \in DOMAIN edges |-> hash[edges[k].child]]
<1> DEFINE j == Kept(graph)[i]
           kids == storage[j].children
           kidsRead == ChildrenRead(i)
           edges == Dot2Graph!EdgesFrom(Number(i))
<1>1. /\ DotInv /\ FileInv /\ ReaderInv /\ dotPc = "done" /\ graph = InMemory
      /\ i \in 1..Len(Kept(graph)) /\ j \in 1..Len(storage) /\ Number(i) = storage[j].node_id
  BY ConvertedFacts
<1>2. kidsRead = graph.children[j]
  BY <1>1, ChildrenAreWritten
<1>3. graph.children[j] = [k \in DOMAIN kids |-> kids[k].at]
  <2> HIDE DEF j
  <2>1. QED BY <1>1, InMemoryFacts
<1>4. [k \in DOMAIN kids |-> storage[kids[k].at].node_id] = [k \in DOMAIN edges |-> hash[edges[k].child]]
  <2> HIDE DEF j
  <2>1. LET x == Dot2Graph!EdgesFrom(storage[j].node_id)
        IN  [k \in DOMAIN storage[j].children |-> storage[storage[j].children[k].at].node_id]
            = [k \in DOMAIN x |-> hash[x[k].child]]
    BY <1>1, ChildrenAreText
  <2>2. QED BY <1>1, <2>1
<1> HIDE DEF kidsRead, kids, edges
<1>5. DOMAIN kidsRead = DOMAIN kids /\ \A k \in DOMAIN kids : kidsRead[k] = kids[k].at
  BY <1>2, <1>3
<1>6. [k \in DOMAIN kidsRead |-> storage[kidsRead[k]].node_id] = [k \in DOMAIN kids |-> storage[kids[k].at].node_id]
  BY <1>5
<1>7. QED BY <1>4, <1>6 DEF kidsRead, edges

\* Together: the text comes back.
LEMMA ConvertedTextIsRead == Inv => ConvertedIsText
<1> SUFFICES ASSUME Inv, Loaded, whole, text # <<>>
             PROVE  ConvertedIsText
  BY DEF ConvertedIsText
<1> DEFINE K == Kept(graph)
           n == Len(storage)
           first(id) == Dot2Graph!FirstOf(Dot2Graph!NodeStatements(id))
<1>1. /\ DotInv /\ FileInv /\ ReaderInv /\ dotPc = "done" /\ graph = InMemory
      /\ DOMAIN nodes = 1..Len(K) /\ Len(K) \in Nat /\ n \in Nat
      /\ \A i \in 1..Len(K) :
            /\ K[i] \in 1..n /\ nodes[i].id = K[i] /\ nodes[i].symb = storage[K[i]].symb
            /\ Number(i) = storage[K[i]].node_id
            /\ Linked(Number(i))
      /\ \A j \in 1..n : Linked(storage[j].node_id) => \E i \in 1..Len(K) : K[i] = j
      /\ \A i, j \in 1..Len(K) : i < j => K[i] < K[j]
  BY ConvertedFacts
<1>2. /\ DOMAIN storage = 1..n
      /\ \A i \in 1..n :
            LET k == FirstNamed(text, storage[i].node_id)
            IN  storage[i].symb = Dot2Graph!SymbolOf(text[k].options)
      /\ \A i, j \in 1..n :
            i < j => FirstNamed(text, storage[i].node_id) < FirstNamed(text, storage[j].node_id)
  BY <1>1, NodesAreText
<1>3. \A id : first(id) = FirstNamed(text, id)
  BY <1>1, SameStatements DEF FirstNamed
<1> HIDE DEF K, n, first
<1>4. {Number(i) : i \in DOMAIN nodes} = {id \in {storage[i].node_id : i \in DOMAIN storage} : Linked(id)}
  <2>1. ASSUME NEW i \in DOMAIN nodes
        PROVE  Linked(Number(i)) /\ \E j \in DOMAIN storage : Number(i) = storage[j].node_id
    BY <1>1, <1>2
  <2>2. ASSUME NEW j \in DOMAIN storage, Linked(storage[j].node_id)
        PROVE  \E i \in DOMAIN nodes : Number(i) = storage[j].node_id
    BY <1>1, <1>2, <2>2
  <2>3. QED BY <2>1, <2>2
<1>5. \A i, j \in DOMAIN nodes : i < j => first(Number(i)) < first(Number(j))
  <2>1. ASSUME NEW i \in DOMAIN nodes, NEW j \in DOMAIN nodes, i < j
        PROVE  first(Number(i)) < first(Number(j))
    <3>1. /\ K[i] \in 1..n /\ K[j] \in 1..n /\ K[i] < K[j]
          /\ Number(i) = storage[K[i]].node_id /\ Number(j) = storage[K[j]].node_id
      BY <1>1, <2>1
    <3>2. FirstNamed(text, storage[K[i]].node_id) < FirstNamed(text, storage[K[j]].node_id)
      BY <1>2, <3>1
    <3>3. QED BY <1>3, <3>1, <3>2
  <2>2. QED BY <2>1
<1>6. \A i \in DOMAIN nodes : nodes[i].symb = Dot2Graph!SymbolOf(text[first(Number(i))].options)
  <2>1. ASSUME NEW i \in DOMAIN nodes
        PROVE  nodes[i].symb = Dot2Graph!SymbolOf(text[first(Number(i))].options)
    <3>1. /\ K[i] \in 1..n /\ nodes[i].symb = storage[K[i]].symb
          /\ Number(i) = storage[K[i]].node_id
      BY <1>1
    <3>2. storage[K[i]].symb
            = Dot2Graph!SymbolOf(text[FirstNamed(text, storage[K[i]].node_id)].options)
      BY <1>2, <3>1
    <3>3. QED BY <1>3, <3>1, <3>2
  <2>2. QED BY <2>1
<1>7. \A i \in DOMAIN nodes :
         LET edges == Dot2Graph!EdgesFrom(Number(i))
         IN  [k \in DOMAIN ChildrenRead(i) |-> storage[ChildrenRead(i)[k]].node_id]
             = [k \in DOMAIN edges |-> hash[edges[k].child]]
  BY ConvertedChildren
<1>8. nodes # <<>> /\ Linked(hash[text[1].name]) => root # 0 /\ Number(root) = hash[text[1].name]
  BY RootIsFirst
<1>9. QED BY <1>4, <1>5, <1>6, <1>7, <1>8 DEF first, ConvertedIsText

\* A whole file gives back the graph that was written, and the text that dot2edg
\* read before it: RoundTrip and ConvertedIsText in every reachable state.
THEOREM ConvertersExact == ConverterSpec => []ConversionExact
<1>1. Inv => ConversionExact
  BY WholeFileIsGraph, ConvertedTextIsRead DEF Inv, ConversionExact
<1>2. QED BY <1>1, InvHolds, PTL
============================================================================
