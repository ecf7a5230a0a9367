------------------------------ MODULE BFSGraph ------------------------------
(***************************************************************************)
(* libsSIDT/BFSGraph/BFSGraph.c: BFS and BFSInfo, the walks that extract   *)
(* the site rooted at a node.                                              *)
(*                                                                         *)
(* The two functions keep their bookkeeping (explored, list_id) on the     *)
(* nodes of the graph itself, which every later call on the graph shares.  *)
(* Neither clears the marks when it starts: a call relies on its           *)
(* predecessor having put back every explored mark, while list_id is left  *)
(* broken on purpose.  The module lets any sequence of calls run on any    *)
(* graph of Graphs, one child per step.                                    *)
(*                                                                         *)
(* Operators marked "faulty variant" are not used by Spec.  Each is the    *)
(* definition below it with a likely mistake; put in its place, it must    *)
(* break the property named.                                               *)
(***************************************************************************)
EXTENDS Sites

CONSTANTS Graphs,   \* the graphs that may have been loaded
          NULL      \* the null NGraph pointer

ASSUME GraphsAssumption == \A g \in Graphs : IsGraph(g)

VARIABLES
    gr,         \* inputGraph
    explored,   \* node->explored
    list_id,    \* node->list_id
    pc,         \* "idle" between calls, "walk" inside BFS or BFSInfo
    info,       \* TRUE inside BFSInfo, FALSE inside BFS
    queue,      \* the first nextQueue entries of queue
    s,          \* rank in queue of the node being visited
    a,          \* how many of its children have been handled
    symbols, NMatrix,   \* the NGraph under construction
    hits,       \* what this call added to tab, per node counted
    ng          \* what the last call of BFS returned

vars == <<gr, explored, list_id, pc, info, queue, s, a, symbols, NMatrix,
          hits, ng>>

Marks == {"UNEXPLORED", "UNDER_EXPLORATION", "EXPLORED"}
Nodes == NodesOf(gr)
nextQueue == Len(queue)

\* The two arrays of newNGraph, cleared by calloc.
newSymbols == [i \in 1..siteSize |-> 0]
newNMatrix == [i \in 1..siteSize |-> [slot \in 1..2 |-> 0]]

\* A graph as the loader leaves it: no mark, list_id the index in storage.
Init == /\ gr \in Graphs
        /\ explored = [n \in Nodes |-> "UNEXPLORED"]
        /\ list_id = [n \in Nodes |-> n - 1]
        /\ pc = "idle" /\ info = FALSE
        /\ queue = <<>> /\ s = 0 /\ a = 0
        /\ symbols = newSymbols /\ NMatrix = newNMatrix
        /\ hits = [n \in Nodes |-> 0]
        /\ ng = NULL

Call(vroot, isInfo) ==
    /\ pc = "idle"
    /\ pc' = "walk"
    /\ info' = isInfo
    /\ explored' = [explored EXCEPT ![vroot] = "UNDER_EXPLORATION"]
    /\ list_id' = [list_id EXCEPT ![vroot] = 1]
    /\ queue' = <<vroot>>
    /\ s' = 1 /\ a' = 0
    /\ symbols' = [newSymbols EXCEPT ![1] = gr.symb[vroot]]
    /\ NMatrix' = newNMatrix
    /\ hits' = [n \in Nodes |-> 0]
    /\ UNCHANGED <<gr, ng>>

(***************************************************************************)
(* One iteration of "for (a=0; a<nI->children_nb; a++)".                   *)
(***************************************************************************)
InLoop == pc = "walk" /\ s < siteSize + 1 /\ s <= nextQueue
nI == queue[s]
child == gr.children[nI][a + 1]

AddsAlways == explored[child] = "UNEXPLORED"   \* faulty variant (TypeOK)
Adds == explored[child] = "UNEXPLORED" /\ nextQueue < siteSize

NewNumber == nextQueue + 1

\* BFSInfo counts the nodes it queues.
CountsLink == info              \* faulty variant (ResultIsSite)
Counts == info /\ Adds

AddToQueue ==
    /\ hits' = IF Counts THEN [hits EXCEPT ![child] = @ + 1] ELSE hits
    /\ IF Adds
       THEN /\ explored' = [explored EXCEPT ![child] = "UNDER_EXPLORATION"]
            /\ list_id' = [list_id EXCEPT ![child] = NewNumber]
            /\ queue' = Append(queue, child)
            /\ symbols' = [symbols EXCEPT ![nextQueue + 1] = gr.symb[child]]
       ELSE UNCHANGED <<explored, list_id, queue, symbols>>

\* BFS picks the slot from the child's number, BFSInfo takes the first free.
FirstFreeSlot == IF NMatrix[s][1] = 0 THEN 1 ELSE 2  \* faulty variant (SiteLinksExact)
LinkSlot == IF info THEN IF NMatrix[s][1] = 0 THEN 1 ELSE 2
                    ELSE Slot(a + 1)

AddLink ==
    NMatrix' = IF explored'[child] # "UNEXPLORED"
               THEN [NMatrix EXCEPT ![s][LinkSlot] = AsChar(list_id'[child])]
               ELSE NMatrix

VisitChild ==
    /\ InLoop /\ a < Len(gr.children[nI])
    /\ AddToQueue
    /\ AddLink
    /\ a' = a + 1
    /\ UNCHANGED <<gr, pc, info, s, ng>>

SameRank == s                   \* faulty variant (CallReturns)
NextRank == s + 1

CloseNode ==
    /\ InLoop /\ a = Len(gr.children[nI])
    /\ explored' = [explored EXCEPT ![nI] = "EXPLORED"]
    /\ s' = NextRank /\ a' = 0
    /\ UNCHANGED <<gr, list_id, pc, info, queue, symbols, NMatrix, hits, ng>>

\* Faulty variant: the root keeps its mark (MarksMatchQueue).
ResetAllButRoot == [n \in Nodes |-> IF n \in Range(Tail(queue)) THEN "UNEXPLORED"
                                                               ELSE explored[n]]
ResetMarks == [n \in Nodes |-> IF n \in Range(queue) THEN "UNEXPLORED"
                                                     ELSE explored[n]]

Return ==
    /\ pc = "walk" /\ ~InLoop
    /\ pc' = "idle"
    /\ explored' = ResetMarks
    /\ ng' = IF info THEN ng
             ELSE IF nextQueue # siteSize THEN NULL
             ELSE [symbols |-> symbols, NMatrix |-> NMatrix]
    /\ UNCHANGED <<gr, list_id, info, queue, s, a, symbols, NMatrix, hits>>

Step == VisitChild \/ CloseNode \/ Return
Next == Step \/ \E vroot \in Nodes, isInfo \in BOOLEAN : Call(vroot, isInfo)

Spec == Init /\ [][Next]_vars
FairSpec == Spec /\ WF_vars(Step)

-----------------------------------------------------------------------------
(***************************************************************************)
(* Correctness.                                                            *)
(***************************************************************************)
Symbols == [1..siteSize -> Nat]
Matrices == [1..siteSize -> [1..2 -> 0..(CharMod - 1)]]
NGraphs == [symbols : Symbols, NMatrix : Matrices]

ASSUME NullAssumption == NULL \notin NGraphs

TypeOK ==
    /\ gr \in Graphs
    /\ explored \in [Nodes -> Marks]
    /\ list_id \in [Nodes -> Nat]
    /\ pc \in {"idle", "walk"} /\ info \in BOOLEAN
    /\ queue \in Seq(Nodes) /\ Len(queue) <= siteSize
    /\ s \in Nat /\ a \in Nat
    /\ symbols \in Symbols /\ NMatrix \in Matrices
    /\ hits \in [Nodes -> Nat]
    /\ ng \in NGraphs \cup {NULL}

(***************************************************************************)
(* The mark of a node says exactly where the walk is with it: EXPLORED for *)
(* the visited part of the queue, UNDER_EXPLORATION for the waiting part,  *)
(* nothing for the rest, and no mark at all between calls.  Lines 182-185  *)
(* of BFSGraph.c only unmark what was queued, so one node marked and not   *)
(* queued would corrupt every later site of the graph.                     *)
(***************************************************************************)
MarksMatchQueue ==
    \A n \in Nodes :
        /\ pc = "idle" => explored[n] = "UNEXPLORED"
        /\ pc = "walk" =>
             /\ explored[n] = "EXPLORED" <=> \E i \in 1..(s - 1) : queue[i] = n
             /\ explored[n] = "UNDER_EXPLORATION"
                   <=> \E i \in s..nextQueue : queue[i] = n

(***************************************************************************)
(* During a walk the number kept on a queued node is its rank, so no node  *)
(* is queued twice and no link uses a number left by an earlier call.      *)
(***************************************************************************)
NumbersMatchQueue ==
    pc = "walk" => \A i \in 1..nextQueue : list_id[queue[i]] = i

(***************************************************************************)
(* Row i of what BFS returns names the children of node i that the site    *)
(* holds by their ranks in the queue: slot 1 its first child, slot 2 the   *)
(* last of the others that is in the site.  Of three children or more      *)
(* those in between have no link, each being overwritten by the next       *)
(* (lines 169-174 of BFSGraph.c); a node of at most two keeps all.  Each   *)
(* link is written when its child is met, before the queue is complete,    *)
(* and read from list_id, which the last walk left broken.  A rank fits    *)
(* its char only in sites of less than CharMod nodes (line 5), which -ss   *)
(* does not check: from there on rank CharMod is written 0, no link.       *)
(***************************************************************************)
InSite(c) == \E r \in 1..nextQueue : queue[r] = c
NamesNode(rank, c) == rank \in 1..nextQueue /\ queue[rank] = c

FirstChildLinked(row, c) ==
    IF c # <<>> /\ InSite(c[1]) THEN NamesNode(row[1], c[1]) ELSE row[1] = 0

LastOtherLinked(row, c) ==
    LET others == {k \in 2..Len(c) : InSite(c[k])}
    IN  IF others = {} THEN row[2] = 0
        ELSE \E k \in others : /\ NamesNode(row[2], c[k])
                              /\ \A m \in others : m <= k

SiteLinksExact ==
    (pc = "idle" /\ ~info /\ ng # NULL /\ siteSize < CharMod) =>
        \A i \in 1..siteSize :
            /\ ng.symbols[i] = gr.symb[queue[i]]
            /\ FirstChildLinked(ng.NMatrix[i], gr.children[queue[i]])
            /\ LastOtherLinked(ng.NMatrix[i], gr.children[queue[i]])

\* A site holds the nodes nearest its root: nothing is left out that is
\* strictly nearer than a node taken.
SiteIsNearest ==
    (pc = "idle" /\ queue # <<>>) =>
        \A k \in 0..siteSize :
            Range(queue) \subseteq Ball(gr, queue[1], k)
                \/ Ball(gr, queue[1], k) \subseteq Range(queue)

(***************************************************************************)
(* What a call returns depends on the graph and the root only, never on    *)
(* the calls made before on the same graph.  BFS takes the nodes of the    *)
(* site in their order and gives up exactly when fewer than siteSize can   *)
(* be reached; BFSInfo, which findGraph calls to walk again a site BFS     *)
(* just found, takes the same nodes and counts each but the root once,     *)
(* whatever the number of paths to it.                                     *)
(***************************************************************************)
ResultIsSite ==
    /\ SiteIsNearest
    /\ (pc = "idle" /\ queue # <<>>) =>
         /\ queue = SiteQueue(gr, queue[1])
         /\ ~info => (ng = NULL <=> Cardinality(Reachable(gr, queue[1])) < siteSize)
         /\ info => \A n \in Nodes :
                        hits[n] = IF n \in Range(Tail(queue)) THEN 1 ELSE 0

(***************************************************************************)
(* Every call returns, on cyclic graphs too.                               *)
(***************************************************************************)
CallReturns == pc = "walk" ~> pc = "idle"
=============================================================================
