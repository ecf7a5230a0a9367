----------------------------- MODULE GraphFile ------------------------------
(***************************************************************************)
(* Writing a graph to a file and reading it back: graph_to_file and        *)
(* graph_from_file (libs/libgraph/graphIO.c, nodeIO.c) and                 *)
(* getGraphFromFile (libs/dotparser/graphParser.c), which call each other. *)
(*                                                                         *)
(* A file is a sequence of items: the magic value, the number of nodes, a  *)
(* record for each node, link and the root.  The writer may be stopped at  *)
(* any point, between two items or in the middle of one, which leaves an   *)
(* item cut: what is read of it is less than it was, and what fread does   *)
(* not fill keeps its old content.  A file of text is Dot, a text the      *)
(* grammar takes, or NotAGraph, any other.                                 *)
(*                                                                         *)
(* The node n of the graph has the number n; 0 is what node_alloc puts in  *)
(* an empty node, Mixed the number that a part of an item leaves of an old *)
(* one.  Operators marked "faulty variant" are not used by Spec: put in    *)
(* place of the next definition, each must break the property named.       *)
(***************************************************************************)
EXTENDS CFG

CONSTANTS Graphs,      \* graphs with their root, 0 if they have none
          Texts,       \* subset of {Dot, NotAGraph}: files nobody wrote
          Dot, NotAGraph, Mixed,
          MayStop,     \* may the writer be stopped?
          Entries,     \* subset of {"graph_from_file", "getGraphFromFile"}
          MaxDepth     \* calls the stack holds

ASSUME GraphFileAssumption ==
    /\ \A g \in Graphs : IsGraph(g) /\ g.root \in NodesOf(g) \cup {0}
    /\ Texts \subseteq {Dot, NotAGraph}
    /\ MayStop \in BOOLEAN
    /\ Entries \subseteq {"graph_from_file", "getGraphFromFile"}
    /\ MaxDepth \in Nat \ {0}

VARIABLES
    graph, entry,
    file,        \* items written, or <<text>>
    whole,       \* did the writer finish?
    pc,          \* "write", "magic", "count", "record", "broken", "get", "parse",
                 \* "done", "exit" or "overflow"
    depth,       \* calls on the stack
    pos,         \* next item to read
    size,        \* storage allocated
    node,        \* id and symb read last
    nodes,       \* ids and symbols of the nodes appended
    links,       \* pairs of positions in nodes, in the order of node_link
    root         \* position of the root, or 0

vars == <<graph, entry, file, whole, pc, depth, pos, size, node, nodes, links, root>>
read == <<size, node, nodes, links, root>>

-----------------------------------------------------------------------------
(***************************************************************************)
(* graph_to_file: the nodes with a father or a child, then all links in    *)
(* the order of the nodes and of their children, then the root.            *)
(***************************************************************************)
\* Faulty variant: only nodes with children are counted (ReadersInv).
NotALeaf(g, n) == g.children[n] # <<>>
NotOrphan(g, n) == g.children[n] # <<>> \/ Fathers(g, n) # {}

\* Faulty variant: the nodes without children are not written (Loads).
AllNodes(g) == [n \in NodesOf(g) |-> n]
KeptWithChildren(g) == ElementsAt(AllNodes(g), {n \in NodesOf(g) : NotALeaf(g, n)})
Kept(g) == ElementsAt(AllNodes(g),
                      {n \in NodesOf(g) : g.children[n] # <<>> \/ Fathers(g, n) # {}})
nNonOrphanNode(g) == Cardinality({n \in NodesOf(g) : NotOrphan(g, n)})

\* Faulty variant: each node with its fathers (ConversionExact).
LinksToNodes(g) == FlattenSeq([n \in NodesOf(g) |->
    [k \in DOMAIN SetToSeq(Fathers(g, n)) |-> <<SetToSeq(Fathers(g, n))[k], n>>]])
LinksOf(g) == FlattenSeq([n \in NodesOf(g) |->
                 [k \in DOMAIN g.children[n] |-> <<n, g.children[n][k]>>]])

Node(id, symb) == [id |-> id, symb |-> symb]
Item(tag, value) == [tag |-> tag, value |-> value, cut |-> FALSE]
Header(g) == <<Item("GRAPHBIN", 0), Item("count", nNonOrphanNode(g))>>
             \o [i \in DOMAIN Kept(g) |-> Item("n", Node(Kept(g)[i], g.symb[Kept(g)[i]]))]
Edges(g) == [i \in DOMAIN LinksOf(g) |-> Item("e", LinksOf(g)[i])]
RootOf(g) == IF Kept(g) # <<>> /\ g.root # 0 THEN <<Item("r", g.root)>> ELSE <<>>

\* Faulty variant: the root before the links (CutFileIsPrefix).
WrittenRootFirst(g) == Header(g) \o RootOf(g) \o Edges(g)
Written(g) == Header(g) \o Edges(g) \o RootOf(g)

Start == IF entry = "graph_from_file" THEN "magic" ELSE "get"

\* Nothing has been read yet.
Unread == /\ depth = 1 /\ pos = 1 /\ size = 0 /\ node = Node(0, 0)
          /\ nodes = <<>> /\ links = <<>> /\ root = 0

Init == /\ graph \in Graphs /\ entry \in Entries
        /\ \/ file = <<>> /\ whole = FALSE /\ pc = "write"
           \/ \E t \in Texts : file = <<Item("text", t)>> /\ whole = TRUE /\ pc = Start
        /\ Unread

WriteItem == /\ pc = "write" /\ Len(file) < Len(Written(graph))
             /\ file' = Append(file, Written(graph)[Len(file) + 1])
             /\ UNCHANGED <<graph, entry, whole, pc, depth, pos, read>>

EndWrite == /\ pc = "write" /\ Len(file) = Len(Written(graph))
            /\ whole' = TRUE /\ pc' = Start
            /\ UNCHANGED <<graph, entry, file, depth, pos, read>>

\* The writer is stopped, after an item or in the middle of the next.
StopWriter == /\ pc = "write" /\ MayStop /\ Len(file) < Len(Written(graph))
              /\ \/ UNCHANGED file
                 \/ file' = Append(file, [Written(graph)[Len(file) + 1] EXCEPT !.cut = TRUE])
              /\ pc' = Start
              /\ UNCHANGED <<graph, entry, whole, depth, pos, read>>

-----------------------------------------------------------------------------
(***************************************************************************)
(* graph_from_file.                                                        *)
(***************************************************************************)
AtEnd == pos > Len(file)
tag == file[pos].tag
IsCut == file[pos].cut

\* The magic value is compared with 8 bytes read from pos, of which those the
\* file does not have are left from before.
MagicFound == IF AtEnd THEN BOOLEAN ELSE IF tag = "GRAPHBIN" /\ IsCut THEN BOOLEAN
              ELSE {tag = "GRAPHBIN"}

AfterMagic == IF AtEnd THEN pos ELSE pos + 1

CheckMagic == /\ pc = "magic"
              /\ \E found \in MagicFound :
                    IF found THEN pc' = "count" /\ pos' = AfterMagic
                    ELSE pc' = "broken" /\ UNCHANGED pos
              /\ UNCHANGED <<graph, entry, file, whole, depth, read>>

ReadCount == /\ pc = "count"
             /\ IF AtEnd THEN pc' = "broken" /\ UNCHANGED <<pos, size>>
                ELSE IF IsCut THEN pc' = "broken" /\ UNCHANGED <<pos, size>>
                ELSE pc' = "record" /\ pos' = pos + 1 /\ size' = file[pos].value
             /\ node' = Node(0, 0) /\ nodes' = <<>> /\ links' = <<>> /\ root' = 0
             /\ UNCHANGED <<graph, entry, file, whole, depth>>

\* node_from_file does not say that the item was cut: what it did not read keeps
\* its value, or a part of it.
NodeRead ==
    LET v == file[pos].value
    IN  IF ~IsCut THEN {v}
        ELSE {Node(i, node.symb) : i \in {node.id, Mixed, v.id}} \cup {Node(v.id, Mixed)}

ReadNode == /\ pc = "record" /\ ~AtEnd /\ tag = "n"
            /\ \E n \in NodeRead : node' = n /\ nodes' = Append(nodes, n)
            /\ pos' = pos + 1
            /\ UNCHANGED <<graph, entry, file, whole, pc, depth, size, links, root>>

\* node_list_find: tsearch keeps the first node of a number.
Find(id) == SelectInSeq(nodes, LAMBDA n : n.id = id)

ReadLink == /\ pc = "record" /\ ~AtEnd /\ tag = "e"
            /\ IF IsCut \/ \E k \in 1..2 : Find(file[pos].value[k]) = 0
               THEN pc' = "broken" /\ UNCHANGED <<pos, links>>
               ELSE /\ links' = Append(links, <<Find(file[pos].value[1]), Find(file[pos].value[2])>>)
                    /\ pos' = pos + 1 /\ UNCHANGED pc
            /\ UNCHANGED <<graph, entry, file, whole, depth, size, node, nodes, root>>

ReadRoot == /\ pc = "record" /\ ~AtEnd /\ tag = "r"
            /\ IF IsCut THEN pc' = "broken" /\ UNCHANGED <<pos, root>>
               ELSE root' = Find(file[pos].value) /\ pos' = pos + 1 /\ UNCHANGED pc
            /\ UNCHANGED <<graph, entry, file, whole, depth, size, node, nodes, links>>

EndFile == /\ pc = "record" /\ AtEnd /\ pc' = "done"
           /\ UNCHANGED <<graph, entry, file, whole, depth, pos, read>>

\* The graph is freed, the file is read from its start by getGraphFromFile.
Broken == /\ pc = "broken"
          /\ pos' = 1
          /\ IF depth = MaxDepth THEN pc' = "overflow" /\ UNCHANGED depth
             ELSE pc' = "get" /\ depth' = depth + 1
          /\ UNCHANGED <<graph, entry, file, whole, read>>

-----------------------------------------------------------------------------
(***************************************************************************)
(* getGraphFromFile.  When it finds the magic value it calls               *)
(* graph_from_file without going back to the start of the file.            *)
(***************************************************************************)
GetMagic == /\ pc = "get"
            /\ \E found \in MagicFound :
                  IF ~found THEN pc' = "parse" /\ UNCHANGED <<pos, depth>>
                  ELSE IF depth = MaxDepth THEN pc' = "overflow" /\ UNCHANGED <<pos, depth>>
                  ELSE pc' = "magic" /\ pos' = AfterMagic /\ depth' = depth + 1
            /\ UNCHANGED <<graph, entry, file, whole, read>>

\* A text the grammar takes is a graph (DotGraph); for any other yyerror calls exit.
Parse == /\ pc = "parse"
         /\ pc' = IF file # <<>> /\ file[1].value = Dot THEN "done" ELSE "exit"
         /\ UNCHANGED <<graph, entry, file, whole, depth, pos, read>>

Done == pc \in {"done", "exit", "overflow"} /\ UNCHANGED vars

Next == \/ WriteItem \/ EndWrite \/ StopWriter
        \/ CheckMagic \/ ReadCount \/ ReadNode \/ ReadLink \/ ReadRoot \/ EndFile
        \/ Broken \/ GetMagic \/ Parse \/ Done

Spec == Init /\ [][Next]_vars
-----------------------------------------------------------------------------
(***************************************************************************)
(* Properties.                                                             *)
(***************************************************************************)
\* Types; positions stay in the file, links and root in the nodes read.
TypeOK ==
    /\ pos \in 1..(Len(file) + 1) /\ depth \in 1..MaxDepth
    /\ \A i \in DOMAIN links : links[i] \in (DOMAIN nodes) \X (DOMAIN nodes)
    /\ root \in {0} \cup DOMAIN nodes
    /\ pc = "write" => nodes = <<>> /\ ~whole

\* node_list_append asserts it, and only there: whatever is left of a file that
\* was written, no node is put behind the end of the storage.
RoomForNodes == Len(nodes) <= size

Loaded == pc = "done" /\ file[1].tag = "GRAPHBIN"
ChildrenRead(i) == LET from == ElementsAt(links, {k \in DOMAIN links : links[k][1] = i})
                   IN  [k \in DOMAIN from |-> nodes[from[k][2]].id]

\* A whole file gives the graph that was written, without its orphans: nodes
\* with their symbols in their order, children in theirs, and the root if it is
\* a node of the file.
RoundTrip ==
    Loaded /\ whole =>
        /\ [i \in DOMAIN nodes |-> nodes[i].id] = Kept(graph) /\ size = Len(nodes)
        /\ \A i \in DOMAIN nodes : /\ nodes[i].symb = graph.symb[nodes[i].id]
                                   /\ ChildrenRead(i) = graph.children[nodes[i].id]
        /\ root = SelectInSeq(Kept(graph), LAMBDA n : n = graph.root)

\* A file whose writer was stopped, when it is read at all, gives a part of the
\* graph: of its nodes, save that the last may be anything, or all its nodes and
\* the first of its links; the root is there only when nothing is missing.
CutFileIsPrefix ==
    Loaded /\ ~whole =>
        LET ids == [i \in DOMAIN nodes |-> nodes[i].id]
            written == [i \in DOMAIN links |-> <<ids[links[i][1]], ids[links[i][2]]>>]
        IN  /\ Len(ids) <= Len(Kept(graph))
            /\ \A i \in 1..(Len(ids) - 1) : ids[i] = Kept(graph)[i]
            /\ links # <<>> => ids = Kept(graph)
            /\ IsPrefix(written, LinksOf(graph))
            /\ root # 0 => written = LinksOf(graph)

\* Expected violations.
\* A file that breaks off after its header is reported as broken (graphIO.c:159):
\* the two functions do not call each other until the stack is full.
BrokenIsReported == Len(file) > 2 => pc # "overflow"

\* getGraphFromFile reads a whole binary file (graphParser.c:42).
EdgIsRead == entry = "getGraphFromFile" /\ whole => pc # "overflow"

\* A file that holds no graph does not stop the program (SIDT.cpp:206-210).
NotAGraphIsReported == pc # "exit"
=============================================================================
