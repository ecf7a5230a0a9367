------------------------------ MODULE Dot2Edg ------------------------------
(***************************************************************************)
(* src/dot2edg.cpp and the reading half of src/edg2dot.cpp, the programs   *)
(* that compose the readers and the writer: a dot text is read (DotGraph), *)
(* the graph is written to a file, and the file is read by another run     *)
(* (GraphFile).  The file may also come from a graph in memory, or from    *)
(* nobody, as GraphFile starts.                                            *)
(*                                                                         *)
(* A node is written under its number; here the number is its place in the *)
(* list, which tells nodes apart as the hash does.                         *)
(***************************************************************************)
EXTENDS GraphFile

CONSTANTS DotTexts, Names, Error, hash, strToSymb

VARIABLES text, dotPos, dotPc, storage, moved, nodes_dict, dotRoot

dotVars == <<text, dotPos, dotPc, storage, moved, nodes_dict, dotRoot>>

Dot2Graph == INSTANCE DotGraph WITH Texts <- DotTexts, pos <- dotPos, pc <- dotPc,
                                    root <- dotRoot

ASSUME Dot2EdgAssumption == Dot2Graph!AreTexts

NoGraph == [children |-> <<>>, symb |-> <<>>, root |-> 0]

\* dot2edg starts with a text and no graph.
FromText == /\ Dot2Graph!Init
            /\ graph = NoGraph /\ entry \in Entries
            /\ file = <<>> /\ whole = FALSE /\ pc = "dot" /\ Unread

FromGraph == /\ Init
             /\ text = <<>> /\ dotPos = 1 /\ dotPc = "done"
             /\ storage = <<>> /\ moved = 0 /\ nodes_dict = {}
             /\ dotRoot = Dot2Graph!NULL

ConverterInit == FromText \/ FromGraph

ReadDot == pc = "dot" /\ Dot2Graph!Next /\ UNCHANGED vars

\* The graph in memory as graph_to_file sees it; the root, which is outside of
\* the list, goes by its number.
PlaceOf(id) == SelectInSeq(storage, LAMBDA n : n.node_id = id)
\* Faulty variant: a root that is not in the list is not written
\* (ConversionExact).
RootInList == IF dotRoot.at = 0 THEN 0 ELSE PlaceOf(dotRoot.node_id)
RootPlace == PlaceOf(dotRoot.node_id)

InMemory ==
    [children |-> [i \in DOMAIN storage |->
                     [k \in DOMAIN storage[i].children |-> storage[i].children[k].at]],
     symb |-> [i \in DOMAIN storage |-> storage[i].symb],
     root |-> RootPlace]

StartWriter == /\ pc = "dot" /\ dotPc = "done"
               /\ pc' = "write" /\ graph' = InMemory
               /\ UNCHANGED <<entry, file, whole, depth, pos, read, dotVars>>

WriteAndRead == Next /\ UNCHANGED dotVars

ConverterNext == ReadDot \/ StartWriter \/ WriteAndRead

ConverterSpec == /\ ConverterInit /\ [][ConverterNext]_<<vars, dotVars>>
                 /\ WF_<<vars, dotVars>>(ConverterNext)
-----------------------------------------------------------------------------
(***************************************************************************)
(* Properties of the whole way.                                            *)
(***************************************************************************)
\* Wherever the array moved while it grew and wherever the writer stopped, no
\* reader follows a pointer to where a node was, puts a node behind the end of
\* the storage or links what it has not read.
ReadersInv == TypeOK /\ RoomForNodes /\ Dot2Graph!TypeOK /\ Dot2Graph!LinksStay

\* What DotGraph reads of a text is what the text says.
GraphIsText == Dot2Graph!GraphIsText

\* What a text says of node i of the loaded file.
Number(i) == storage[nodes[i].id].node_id
Linked(id) == \E e \in Range(text) :
                 /\ e.kind = "edge" /\ id \in {hash[e.father], hash[e.child]}
                 /\ Dot2Graph!HasNode(e.father) /\ Dot2Graph!HasNode(e.child)

\* A text converted by dot2edg and read from its file: the nodes with a link, in
\* their order, with their symbols and children; the root, a copy outside of the
\* list while the graph is in memory, is the first node of the text again.
ConvertedIsText ==
    Loaded /\ whole /\ text # <<>> =>
        /\ {Number(i) : i \in DOMAIN nodes}
              = {id \in {storage[i].node_id : i \in DOMAIN storage} : Linked(id)}
        /\ \A i, j \in DOMAIN nodes :
              i < j => Dot2Graph!FirstOf(Dot2Graph!NodeStatements(Number(i)))
                       < Dot2Graph!FirstOf(Dot2Graph!NodeStatements(Number(j)))
        /\ \A i \in DOMAIN nodes :
              LET first == text[Dot2Graph!FirstOf(Dot2Graph!NodeStatements(Number(i)))]
                  edges == Dot2Graph!EdgesFrom(Number(i))
              IN  /\ nodes[i].symb = Dot2Graph!SymbolOf(first.options)
                  /\ [k \in DOMAIN ChildrenRead(i) |-> storage[ChildrenRead(i)[k]].node_id]
                     = [k \in DOMAIN edges |-> hash[edges[k].child]]
        /\ nodes # <<>> /\ Linked(hash[text[1].name]) =>
              root # 0 /\ Number(root) = hash[text[1].name]

\* A whole file gives back the graph that was written, and the text before it.
ConversionExact == RoundTrip /\ ConvertedIsText

\* A text is read to its end or to its first error, and every whole file that
\* graph_from_file reads gives a graph: the calls of the two readers to each
\* other end.
Loads ==
    /\ <>(dotPc \in {"done", "exit"})
    /\ (whole /\ entry = "graph_from_file" /\ file # <<Item("text", NotAGraph)>>)
          ~> pc = "done"
=============================================================================
