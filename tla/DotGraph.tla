------------------------------ MODULE DotGraph ------------------------------
(***************************************************************************)
(* Reading a graph from a dot text: the actions of the grammar             *)
(* (libs/dotparser/Parser.y) with Expression.c and node_list_add.          *)
(*                                                                         *)
(* A text is a sequence of statements: a node with its options, an edge,   *)
(* or Error, anything the grammar does not take; a node after an edge is   *)
(* an error too.  An error ends the program: yyerror calls exit.           *)
(*                                                                         *)
(* A pointer to a node of the list is its place in the array and the       *)
(* number of times the array had moved when the pointer was taken: realloc *)
(* may move the array or not, and a pointer from before a move leads       *)
(* nowhere.  The root is the node that createNode allocated, a copy        *)
(* outside of the array.  The text of names is left out: hash maps a name  *)
(* to its number, equal for two names or not.                              *)
(***************************************************************************)
EXTENDS CFG

CONSTANTS Texts,     \* sequences of statements
          Names, Error,
          hash,      \* the number of each name
          strToSymb  \* the symbol of each value of an option, -1 if it has none

INST_SEQ == 9

Statements == {Error}
    \cup [kind : {"edge"}, father : Names, child : Names]
    \cup [kind : {"node"}, name : Names,
          options : Seq([id : {"label", "symb", "other"}, value : DOMAIN strToSymb])]

\* What the constants have to be.
AreTexts == /\ Texts \subseteq Seq(Statements)
            /\ hash \in [Names -> Nat]
            /\ strToSymb \in [DOMAIN strToSymb -> Int]

VARIABLES
    text, pos,
    pc,          \* "nodes", "fix", "edges", "done" or "exit"
    storage,     \* the array: records node_id, symb, children, fathers
    moved,       \* how often the array has moved
    nodes_dict,  \* set of pairs <<node_id, pointer>>
    root         \* NULL, or the pointer to a copy: a place outside of the array

vars == <<text, pos, pc, storage, moved, nodes_dict, root>>

Outside(id) == [at |-> 0, node_id |-> id]
NULL == Outside(-1)

Init == /\ text \in Texts /\ pos = 1 /\ pc = "nodes"
        /\ storage = <<>> /\ moved = 0 /\ nodes_dict = {} /\ root = NULL

Pointer(n, times) == [at |-> n, times |-> times]
Current(p) == p.times = moved

dict_find(id) == {p[2] : p \in {p \in nodes_dict : p[1] = id}}

-----------------------------------------------------------------------------
(***************************************************************************)
(* createNode and updateNode.  The grammar adds an option to the list      *)
(* after those that follow it, so the list is backwards.                   *)
(***************************************************************************)
\* Faulty variant: a label later in the list overrides symb (GraphIsText).
UpdateAny(n, o) == IF o.id = "other" THEN n ELSE [n EXCEPT !.symb = strToSymb[o.value]]
Update(n, o) ==
    CASE o.id = "label" /\ ~n.hasSymb -> [n EXCEPT !.symb = strToSymb[o.value]]
      [] o.id = "symb" -> [symb |-> strToSymb[o.value], hasSymb |-> TRUE]
      [] OTHER -> n

symb(options) ==
    FoldLeft(Update, [symb |-> INST_SEQ, hasSymb |-> FALSE], Reverse(options)).symb

IsNode == pos <= Len(text) /\ text[pos] # Error /\ text[pos].kind = "node"
IsEdge == pos <= Len(text) /\ text[pos] # Error /\ text[pos].kind = "edge"

IsNew(id) == dict_find(id) = {}

\* addNodeToGraph with node_list_add; realloc moves the array or does not.
AddNode ==
    /\ pc = "nodes" /\ IsNode
    /\ LET id == hash[text[pos].name]
           node == [node_id |-> id, symb |-> symb(text[pos].options),
                    children |-> <<>>, fathers |-> <<>>]
       IN  /\ IF IsNew(id)
              THEN /\ storage' = Append(storage, node)
                   /\ moved' \in {moved, moved + 1}
                   /\ nodes_dict' = nodes_dict \cup {<<id, Pointer(Len(storage'), moved')>>}
              ELSE UNCHANGED <<storage, moved, nodes_dict>>
           /\ root' = IF Len(storage') = 1 THEN Outside(id) ELSE root
    /\ pos' = pos + 1
    /\ UNCHANGED <<text, pc>>

-----------------------------------------------------------------------------
(***************************************************************************)
(* The graph is complete when the brace is reached: only then does the     *)
(* grammar run fixDict and addEdgesToGraph, over the edges in their order  *)
(* in the text (the list is backwards and read from its end).              *)
(***************************************************************************)
\* Faulty variant: dict_insert without dict_delete keeps what is there
\* (ReadersInv).
InsertOnly == nodes_dict
FixedDict == {<<storage[i].node_id, Pointer(i, moved)>> : i \in DOMAIN storage}

\* From here on pos is the first edge.
fixDict == /\ pc = "nodes" /\ ~IsNode
           /\ IF \A i \in pos..Len(text) : text[i] # Error /\ text[i].kind = "edge"
              THEN pc' = "edges" /\ nodes_dict' = FixedDict
              ELSE pc' = "exit" /\ UNCHANGED nodes_dict
           /\ UNCHANGED <<text, pos, storage, moved, root>>

\* node_link, through the pointers f and c.
Linked(f, c) ==
    LET s == [storage EXCEPT ![f.at].children = Append(@, c)]
    IN  [s EXCEPT ![c.at].fathers = Append(@, f)]

\* Faulty variant: an edge from or to no node is tried again (Loads).
StayAtUnknown(f, c) == IF f = {} \/ c = {} THEN pos ELSE pos + 1
PosAfter(f, c) == pos + 1

addEdgesToGraph ==
    /\ pc = "edges" /\ IsEdge
    /\ LET f == dict_find(hash[text[pos].father])
           c == dict_find(hash[text[pos].child])
       IN  /\ IF f = {} \/ c = {} THEN UNCHANGED storage
              ELSE \E p \in f, q \in c : storage' = Linked(p, q)
           /\ pos' = PosAfter(f, c)
    /\ UNCHANGED <<text, pc, moved, nodes_dict, root>>

EndText == /\ pc = "edges" /\ pos > Len(text) /\ pc' = "done"
           /\ UNCHANGED <<text, pos, storage, moved, nodes_dict, root>>

Done == pc \in {"done", "exit"} /\ UNCHANGED vars

Next == AddNode \/ fixDict \/ addEdgesToGraph \/ EndText \/ Done

Spec == Init /\ [][Next]_vars

-----------------------------------------------------------------------------
(***************************************************************************)
(* Properties.                                                             *)
(***************************************************************************)
\* Types; the dictionary holds one pointer for each node of the array.
TypeOK ==
    /\ pos \in 1..(Len(text) + 1) /\ pc \in {"nodes", "edges", "done", "exit"}
    /\ moved \in 0..Len(storage)
    /\ \A i \in DOMAIN storage :
          /\ storage[i].symb \in Int
          /\ \E p \in nodes_dict : p[1] = storage[i].node_id /\ p[2].at = i
    /\ Cardinality(nodes_dict) = Len(storage)
    /\ (root = NULL) <=> (storage = <<>>)
    /\ root # NULL => root.node_id = storage[1].node_id

\* However the array moved while it grew, every link stored in the graph is a
\* pointer to where the node is now, and each end knows the link as often as the
\* other (the pointers of the dictionary are old until fixDict).
LinksStay ==
    \A i \in DOMAIN storage :
        /\ \A k \in DOMAIN storage[i].children :
              LET c == storage[i].children[k]
              IN  /\ Current(c)
                  /\ Cardinality({j \in DOMAIN storage[i].children : storage[i].children[j] = c})
                     = Cardinality({j \in DOMAIN storage[c.at].fathers : storage[c.at].fathers[j].at = i})
        /\ \A k \in DOMAIN storage[i].fathers : Current(storage[i].fathers[k])

\* What the text says, statement by statement.
NodeStatements(id) == {i \in DOMAIN text : text[i].kind = "node" /\ hash[text[i].name] = id}
FirstOf(S) == CHOOSE i \in S : \A o \in S : i <= o
OptionsWith(options, id) == {i \in DOMAIN options : options[i].id = id}
SymbolOf(options) ==
    LET symbs  == OptionsWith(options, "symb")
        labels == OptionsWith(options, "label")
    IN  IF symbs # {} THEN strToSymb[options[FirstOf(symbs)].value]
        ELSE IF labels # {} THEN strToSymb[options[FirstOf(labels)].value] ELSE INST_SEQ
HasNode(name) == NodeStatements(hash[name]) # {}
EdgesFrom(id) ==
    ElementsAt(text, {k \in DOMAIN text : /\ text[k].kind = "edge" /\ hash[text[k].father] = id
                                         /\ HasNode(text[k].father) /\ HasNode(text[k].child)})

\* The graph read is the graph written: a node for each number, in the order of
\* the first statements, the symbol of the first symb, or else label, option,
\* and the children in the order of the edges, those to unknown names left out.
GraphIsText ==
    pc = "done" =>
        /\ {storage[i].node_id : i \in DOMAIN storage} =
              {hash[text[i].name] : i \in {i \in DOMAIN text : text[i].kind = "node"}}
        /\ \A i, j \in DOMAIN storage :
              i < j => FirstOf(NodeStatements(storage[i].node_id))
                       < FirstOf(NodeStatements(storage[j].node_id))
        /\ \A i \in DOMAIN storage :
              LET first == text[FirstOf(NodeStatements(storage[i].node_id))]
                  edges == EdgesFrom(storage[i].node_id)
              IN  /\ storage[i].symb = SymbolOf(first.options)
                  /\ [k \in DOMAIN storage[i].children |->
                        storage[storage[i].children[k].at].node_id]
                     = [k \in DOMAIN edges |-> hash[edges[k].child]]

\* Expected violation: the root is a node of the list (libgraph/graph.h:7).
RootIsANode == pc = "done" /\ root # NULL => root.at \in DOMAIN storage
=============================================================================
