---------------------------- MODULE Walks_proofs ----------------------------
(***************************************************************************)
(* Proofs about the two walks that take the sites of a graph: the queue of *)
(* BFS (BFSGraph) and the levels of BFS2 (IsoOnly), for every set of       *)
(* graphs and every site size.  Both are shown to compute SiteQueue.       *)
(*                                                                         *)
(* BFSGraph.  The inductive invariant says, besides the types, where the   *)
(* walk is (WalkPosition), that what it handled so far is in the queue as  *)
(* long as the queue has room (HandledIsQueued: this is why a link written *)
(* early stays right and a child left out stays out), and what the matrix  *)
(* holds for the children handled so far (RowsSoFar).                      *)
(***************************************************************************)
EXTENDS BFSGraph, IsoOnly, DataLemmas

Children(n) == gr.children[n]

WalkPosition ==
    pc = "walk" =>
        /\ Len(queue) \in 1..siteSize
        /\ s \in 1..(Len(queue) + 1)
        /\ s <= Len(queue) => a <= Len(Children(queue[s]))
        /\ s = Len(queue) + 1 => a = 0

\* How many children of the i-th node of the queue were handled.
Handled(i) == IF i < s THEN Len(Children(queue[i])) ELSE IF i = s THEN a ELSE 0

HandledIsQueued ==
    (pc = "walk" /\ Len(queue) < siteSize) =>
        \A i \in 1..Len(queue) : \A k \in 1..Handled(i) :
            Children(queue[i])[k] \in Range(queue)

LinkedOf(i, slot) == {k \in 1..Handled(i) : /\ Slot(k) = slot
                                          /\ Children(queue[i])[k] \in Range(queue)}

Entry(i, slot) ==
    IF LinkedOf(i, slot) = {} THEN 0
    ELSE AsChar(list_id[Children(queue[i])[Max(LinkedOf(i, slot))]])

RowsSoFar ==
    (pc = "walk" /\ ~info) =>
        \A i \in 1..siteSize, slot \in 1..2 : NMatrix[i][slot] = Entry(i, slot)

\* Max is a CHOOSE: that it is in the set has to be carried along.
MaxIsLinked ==
    pc = "walk" =>
        \A i \in 1..siteSize, slot \in 1..2 :
            LinkedOf(i, slot) # {} => Max(LinkedOf(i, slot)) \in LinkedOf(i, slot)

SymbolsSoFar ==
    pc = "walk" => \A i \in 1..Len(queue) : symbols[i] = gr.symb[queue[i]]

\* What the walk leaves behind, rank by rank, is what Row takes from the queue.
SiteIsNGraph ==
    (pc = "idle" /\ ~info /\ ng # NULL) =>
        Len(queue) = siteSize /\ ng = NGraphOf(gr, queue)

Inv == /\ TypeOK /\ MarksMatchQueue /\ NumbersMatchQueue
       /\ WalkPosition /\ HandledIsQueued /\ MaxIsLinked /\ RowsSoFar
       /\ SymbolsSoFar
       /\ SiteIsNGraph

-----------------------------------------------------------------------------
USE DEF Nodes, nextQueue, NewNumber, NextRank, Children

LEMMA GraphFacts ==
    ASSUME gr \in Graphs
    PROVE  /\ Nodes = 1..Len(gr.children) /\ Nodes \subseteq Nat
           /\ gr.children \in [Nodes -> Seq(Nodes)]
           /\ gr.symb \in [Nodes -> Nat]
BY GraphsAssumption DEF IsGraph, NodesOf

\* A number larger than all others is the maximum.
LEMMA MaxIsLast ==
    ASSUME NEW m \in Nat, NEW T \in SUBSET (1..m)
    PROVE  Max(T \cup {m + 1}) = m + 1
<1> DEFINE S == T \cup {m + 1}
<1>1. m + 1 \in S /\ \A y \in S : m + 1 >= y
  OBVIOUS
<1>2. ASSUME NEW x \in S, \A y \in S : x >= y PROVE x = m + 1
  BY <1>2
<1> HIDE DEF S
<1>3. (CHOOSE x \in S : \A y \in S : x >= y) = m + 1
  BY <1>1, <1>2
<1>4. QED BY <1>3 DEF Max, S

LEMMA CharType == ASSUME NEW k \in Nat PROVE AsChar(k) \in 0..(CharMod - 1)
BY SiteAssumption DEF AsChar

LEMMA NewNGraphType == newSymbols \in Symbols /\ newNMatrix \in Matrices
<1>1. 0 \in 0..(CharMod - 1) /\ 0 \in Nat
  BY SiteAssumption
<1>2. [slot \in 1..2 |-> 0] \in [1..2 -> 0..(CharMod - 1)]
  BY <1>1
<1>3. QED BY <1>1, <1>2 DEF newSymbols, newNMatrix, Symbols, Matrices

(***************************************************************************)
(* Type correctness.                                                       *)
(***************************************************************************)
LEMMA InitType == Init => TypeOK
<1> SUFFICES ASSUME Init PROVE TypeOK
  OBVIOUS
<1>1. explored \in [Nodes -> Marks] /\ gr \in Graphs /\ hits \in [Nodes -> Nat]
  BY DEF Init, Marks
<1>2. list_id \in [Nodes -> Nat]
  <2>1. \A n \in Nodes : n - 1 \in Nat
    BY <1>1, GraphFacts
  <2>2. QED BY <2>1 DEF Init
<1>3. symbols \in Symbols /\ NMatrix \in Matrices
  BY NewNGraphType DEF Init
<1>4. queue \in Seq(Nodes) /\ Len(queue) <= siteSize
  BY SiteAssumption DEF Init
<1>5. pc \in {"idle", "walk"} /\ info \in BOOLEAN /\ s \in Nat /\ a \in Nat
      /\ ng \in NGraphs \cup {NULL}
  BY DEF Init
<1>6. QED BY <1>1, <1>2, <1>3, <1>4, <1>5 DEF TypeOK

LEMMA CallType ==
    ASSUME TypeOK, NEW root \in Nodes, NEW isInfo \in BOOLEAN, Call(root, isInfo)
    PROVE  TypeOK'
<1>1. gr' = gr /\ Nodes' = Nodes /\ gr \in Graphs
  BY DEF Call, TypeOK
<1>2. explored' \in [Nodes -> Marks] /\ list_id' \in [Nodes -> Nat]
      /\ hits' \in [Nodes -> Nat]
  BY DEF Call, TypeOK, Marks
<1>3. symbols' \in Symbols /\ NMatrix' \in Matrices
  <2>1. gr.symb[root] \in Nat
    BY <1>1, GraphFacts
  <2>2. QED BY <2>1, NewNGraphType DEF Call, Symbols
<1>4. queue' \in Seq(Nodes) /\ Len(queue') <= siteSize
  BY SiteAssumption DEF Call
<1>5. pc' \in {"idle", "walk"} /\ info' \in BOOLEAN /\ s' \in Nat /\ a' \in Nat
      /\ ng' \in NGraphs \cup {NULL}
  BY DEF Call, TypeOK
<1>6. QED BY <1>1, <1>2, <1>3, <1>4, <1>5 DEF TypeOK

(***************************************************************************)
(* One child of the node being visited.                                    *)
(***************************************************************************)
InQueue(n) == \E i \in 1..Len(queue) : queue[i] = n

LEMMA RangeIsInQueue ==
    ASSUME TypeOK, NEW n PROVE n \in Range(queue) <=> InQueue(n)
BY DEF Range, InQueue, TypeOK

LEMMA MarkMeaning ==
    ASSUME TypeOK, MarksMatchQueue, WalkPosition, pc = "walk", NEW n \in Nodes
    PROVE  explored[n] = "UNEXPLORED" <=> ~InQueue(n)
<1>1. explored[n] \in Marks /\ Len(queue) \in Nat /\ s \in 1..(Len(queue) + 1)
  BY DEF TypeOK, WalkPosition
<1>2. InQueue(n) <=> \/ \E i \in 1..(s - 1) : queue[i] = n
                    \/ \E i \in s..Len(queue) : queue[i] = n
  BY <1>1 DEF InQueue
<1>3. QED BY <1>1, <1>2 DEF MarksMatchQueue, Marks

LEMMA VisitContext ==
    ASSUME TypeOK, WalkPosition, VisitChild
    PROVE  /\ pc = "walk" /\ pc' = "walk"
           /\ gr' = gr /\ Nodes' = Nodes /\ s' = s /\ a' = a + 1 /\ info' = info
           /\ s \in 1..Len(queue) /\ Len(queue) \in 1..siteSize
           /\ siteSize \in Nat
           /\ nI \in Nodes /\ child \in Nodes /\ gr.children[nI] \in Seq(Nodes)
           /\ a + 1 \in 1..Len(gr.children[nI]) /\ a \in Nat
<1>1. pc = "walk" /\ s <= Len(queue) /\ a < Len(gr.children[nI])
  BY DEF VisitChild, InLoop
<1>2. s \in 1..Len(queue) /\ Len(queue) \in 1..siteSize /\ a \in Nat
  BY <1>1 DEF WalkPosition, TypeOK
<1>3. nI \in Nodes
  BY <1>2 DEF nI, TypeOK
<1>4. gr.children[nI] \in Seq(Nodes)
  BY <1>3, GraphFacts DEF TypeOK
<1>5. a + 1 \in 1..Len(gr.children[nI])
  BY <1>1, <1>2, <1>4
<1>6. child \in Nodes
  BY <1>4, <1>5 DEF child
<1>7. QED BY <1>1, <1>2, <1>3, <1>4, <1>5, <1>6, SiteAssumption DEF VisitChild

\* Either the child joins the queue or nothing but the matrix changes.
LEMMA VisitCases ==
    ASSUME TypeOK, MarksMatchQueue, WalkPosition, VisitChild
    PROVE  \/ /\ ~InQueue(child) /\ Len(queue) < siteSize
              /\ explored' = [explored EXCEPT ![child] = "UNDER_EXPLORATION"]
              /\ list_id' = [list_id EXCEPT ![child] = Len(queue) + 1]
              /\ queue' = Append(queue, child)
              /\ symbols' = [symbols EXCEPT ![Len(queue) + 1] = gr.symb[child]]
              /\ NMatrix' = [NMatrix EXCEPT ![s][LinkSlot] =
                                    AsChar(list_id'[child])]
           \/ /\ InQueue(child)
              /\ UNCHANGED <<explored, list_id, queue, symbols>>
              /\ NMatrix' = [NMatrix EXCEPT ![s][LinkSlot] =
                                    AsChar(list_id'[child])]
           \/ /\ ~InQueue(child) /\ ~(Len(queue) < siteSize)
              /\ UNCHANGED <<explored, list_id, queue, symbols, NMatrix>>
<1> USE VisitContext
<1>1. explored[child] = "UNEXPLORED" <=> ~InQueue(child)
  BY MarkMeaning
<1>2. AddToQueue /\ AddLink
  BY DEF VisitChild
<1>3. explored \in [Nodes -> Marks]
  BY DEF TypeOK
<1>4. CASE Adds
  <2>1. ~InQueue(child) /\ Len(queue) < siteSize
    BY <1>1, <1>4 DEF Adds
  <2>2. explored'[child] # "UNEXPLORED"
    BY <1>2, <1>3, <1>4 DEF AddToQueue
  <2>3. QED BY <1>2, <1>4, <2>1, <2>2 DEF AddToQueue, AddLink
<1>5. CASE ~Adds /\ InQueue(child)
  <2>1. UNCHANGED <<explored, list_id, queue, symbols>>
    BY <1>2, <1>5 DEF AddToQueue
  <2>2. QED BY <1>1, <1>2, <1>5, <2>1 DEF AddLink
<1>6. CASE ~Adds /\ ~InQueue(child)
  <2>1. UNCHANGED <<explored, list_id, queue, symbols>>
    BY <1>2, <1>6 DEF AddToQueue
  <2>2. ~(Len(queue) < siteSize)
    BY <1>1, <1>6 DEF Adds
  <2>3. QED BY <1>1, <1>2, <1>6, <2>1, <2>2 DEF AddLink
<1>7. QED BY <1>4, <1>5, <1>6

LEMMA LinkSlotType == TypeOK => LinkSlot \in 1..2
BY DEF LinkSlot, Slot

LEMMA VisitType ==
    ASSUME TypeOK, MarksMatchQueue, WalkPosition, VisitChild
    PROVE  TypeOK'
<1>c. /\ gr' = gr /\ Nodes' = Nodes /\ pc' = "walk" /\ a' = a + 1
      /\ s \in 1..Len(queue) /\ Len(queue) \in 1..siteSize /\ siteSize \in Nat
      /\ child \in Nodes /\ a \in Nat
  BY VisitContext
<1>d. child \in Nodes /\ Len(queue) \in Nat /\ siteSize \in Nat
  BY <1>c
<1>1. /\ gr' \in Graphs /\ pc' \in {"idle", "walk"} /\ info' \in BOOLEAN
      /\ s' \in Nat /\ a' \in Nat /\ ng' \in NGraphs \cup {NULL}
  BY <1>c DEF TypeOK, VisitChild
<1>t. /\ explored \in [Nodes -> Marks] /\ list_id \in [Nodes -> Nat]
      /\ queue \in Seq(Nodes) /\ Len(queue) <= siteSize
      /\ hits \in [Nodes -> Nat] /\ symbols \in [1..siteSize -> Nat]
  BY DEF TypeOK, Symbols
<1>2. explored' \in [Nodes -> Marks] /\ list_id' \in [Nodes -> Nat]
  <2>1. explored' = explored \/ explored' = [explored EXCEPT ![child] = "UNDER_EXPLORATION"]
    BY VisitCases, Zenon
  <2>2. list_id' = list_id \/ list_id' = [list_id EXCEPT ![child] = Len(queue) + 1]
    BY VisitCases, Zenon
  <2>3. explored' \in [Nodes -> Marks]
    BY <1>t, <2>1 DEF Marks
  <2>4. list_id' \in [Nodes -> Nat]
    BY <1>t, <2>2
  <2>5. QED BY <2>3, <2>4
<1>3. queue' \in Seq(Nodes) /\ Len(queue') <= siteSize
  <2>1. queue' = queue \/ (queue' = Append(queue, child) /\ Len(queue) < siteSize)
    BY VisitCases, Zenon
  <2>2. queue \in Seq(Nodes) /\ Len(queue) <= siteSize
    BY <1>t
  <2>3. QED BY <1>d, <2>1, <2>2
<1>4. symbols' \in Symbols
  <2>1. gr.symb[child] \in Nat
    BY <1>d, GraphFacts DEF TypeOK
  <2>2. \/ symbols' = symbols
        \/ /\ symbols' = [symbols EXCEPT ![Len(queue) + 1] = gr.symb[child]]
           /\ Len(queue) < siteSize
    BY VisitCases, Zenon
  <2>3. QED BY <1>t, <1>d, <2>1, <2>2 DEF Symbols
<1>5. NMatrix' \in Matrices
  <2>1. AsChar(list_id'[child]) \in 0..(CharMod - 1)
    BY <1>2, <1>d, CharType
  <2>2. NMatrix \in Matrices /\ s \in 1..siteSize /\ LinkSlot \in 1..2
    BY <1>c, LinkSlotType DEF TypeOK
  <2> DEFINE v == AsChar(list_id'[child])
  <2>3. [NMatrix EXCEPT ![s][LinkSlot] = v] \in Matrices
    <3> HIDE DEF v
    <3>1. NMatrix[s] \in [1..2 -> 0..(CharMod - 1)]
      BY <2>2 DEF Matrices
    <3>2. [NMatrix[s] EXCEPT ![LinkSlot] = v] \in [1..2 -> 0..(CharMod - 1)]
      BY <3>1, <2>1, <2>2 DEF v
    <3>3. QED BY <2>2, <3>2 DEF Matrices
  <2>4. NMatrix' = NMatrix \/ NMatrix' = [NMatrix EXCEPT ![s][LinkSlot] = v]
    BY VisitCases, Zenon
  <2>5. QED BY <2>2, <2>3, <2>4
<1>6. hits' \in [Nodes -> Nat]
  <2>1. hits' = [hits EXCEPT ![child] = @ + 1] \/ hits' = hits
    BY DEF VisitChild, AddToQueue
  <2>2. QED BY <1>t, <1>d, <2>1
<1>7. QED BY <1>c, <1>1, <1>2, <1>3, <1>4, <1>5, <1>6 DEF TypeOK

LEMMA AppendedLast ==
    ASSUME NEW S, NEW q \in Seq(S), NEW c \in S
    PROVE  /\ Len(Append(q, c)) = Len(q) + 1
           /\ \A i \in 1..Len(q) : Append(q, c)[i] = q[i]
           /\ Append(q, c)[Len(q) + 1] = c
OBVIOUS

\* The queue after a visit, element by element.
LEMMA VisitQueue ==
    ASSUME TypeOK, MarksMatchQueue, WalkPosition, VisitChild
    PROVE  /\ \A i \in 1..Len(queue) : queue'[i] = queue[i]
           /\ \/ /\ ~InQueue(child) /\ Len(queue) < siteSize
                 /\ Len(queue') = Len(queue) + 1 /\ queue'[Len(queue) + 1] = child
                 /\ explored' = [explored EXCEPT ![child] = "UNDER_EXPLORATION"]
                 /\ list_id' = [list_id EXCEPT ![child] = Len(queue) + 1]
                 /\ symbols' = [symbols EXCEPT ![Len(queue) + 1] = gr.symb[child]]
              \/ UNCHANGED <<explored, list_id, queue, symbols>>
<1>1. queue \in Seq(Nodes) /\ child \in Nodes
  BY VisitContext DEF TypeOK
<1>2. CASE UNCHANGED <<explored, list_id, queue, symbols>>
  BY <1>2
<1>3. CASE /\ ~InQueue(child) /\ Len(queue) < siteSize
           /\ explored' = [explored EXCEPT ![child] = "UNDER_EXPLORATION"]
           /\ list_id' = [list_id EXCEPT ![child] = Len(queue) + 1]
           /\ queue' = Append(queue, child)
           /\ symbols' = [symbols EXCEPT ![Len(queue) + 1] = gr.symb[child]]
  <2>1. /\ Len(queue') = Len(queue) + 1 /\ queue'[Len(queue) + 1] = child
        /\ \A i \in 1..Len(queue) : queue'[i] = queue[i]
    BY <1>1, <1>3, AppendedLast
  <2>2. QED BY <1>3, <2>1, Zenon
<1>4. QED BY <1>2, <1>3, VisitCases, Zenon

LEMMA VisitMarks ==
    ASSUME TypeOK, MarksMatchQueue, WalkPosition, VisitChild
    PROVE  MarksMatchQueue'
<1>1. /\ pc = "walk" /\ pc' = "walk" /\ Nodes' = Nodes /\ s' = s
      /\ s \in 1..Len(queue) /\ Len(queue) \in Nat /\ child \in Nodes
  BY VisitContext
<1>2. explored \in [Nodes -> Marks]
  BY DEF TypeOK
<1>3. CASE UNCHANGED <<explored, list_id, queue, symbols>>
  BY <1>1, <1>3 DEF MarksMatchQueue
<1>4. CASE /\ ~InQueue(child) /\ Len(queue') = Len(queue) + 1
           /\ queue'[Len(queue) + 1] = child
           /\ explored' = [explored EXCEPT ![child] = "UNDER_EXPLORATION"]
  <2> SUFFICES ASSUME NEW n \in Nodes
               PROVE  /\ explored'[n] = "EXPLORED"
                            <=> \E i \in 1..(s - 1) : queue'[i] = n
                      /\ explored'[n] = "UNDER_EXPLORATION"
                            <=> \E i \in s..Len(queue') : queue'[i] = n
    BY <1>1 DEF MarksMatchQueue
  <2>1. \A i \in 1..Len(queue) : queue'[i] = queue[i]
    BY VisitQueue
  <2>2. (\E i \in 1..(s - 1) : queue'[i] = n) <=> (\E i \in 1..(s - 1) : queue[i] = n)
    BY <1>1, <2>1
  <2>3. (\E i \in s..Len(queue') : queue'[i] = n)
            <=> (\E i \in s..Len(queue) : queue[i] = n) \/ n = child
    <3>1. s..Len(queue') = s..Len(queue) \cup {Len(queue) + 1}
      BY <1>1, <1>4
    <3>2. QED BY <1>1, <1>4, <2>1, <3>1
  <2>4. /\ explored[n] = "EXPLORED" <=> \E i \in 1..(s - 1) : queue[i] = n
        /\ explored[n] = "UNDER_EXPLORATION" <=> \E i \in s..Len(queue) : queue[i] = n
    BY <1>1 DEF MarksMatchQueue
  <2>5. CASE n = child
    <3>1. ~ \E i \in 1..(s - 1) : queue[i] = n
      BY <1>1, <1>4, <2>5 DEF InQueue
    <3>2. explored'[n] = "UNDER_EXPLORATION"
      BY <1>2, <1>4, <2>5
    <3>3. QED BY <2>2, <2>3, <2>5, <3>1, <3>2
  <2>6. CASE n # child
    <3>1. explored'[n] = explored[n]
      BY <1>2, <1>4, <2>6
    <3>2. QED BY <2>2, <2>3, <2>4, <2>6, <3>1
  <2>7. QED BY <2>5, <2>6
<1>5. QED BY <1>3, <1>4, VisitQueue, Zenon

LEMMA VisitNumbers ==
    ASSUME TypeOK, MarksMatchQueue, NumbersMatchQueue, WalkPosition, VisitChild
    PROVE  NumbersMatchQueue'
<1>1. pc = "walk" /\ child \in Nodes /\ Len(queue) \in Nat
  BY VisitContext
<1>2. list_id \in [Nodes -> Nat] /\ queue \in Seq(Nodes)
  BY DEF TypeOK
<1>3. CASE UNCHANGED <<explored, list_id, queue, symbols>>
  BY <1>1, <1>3 DEF NumbersMatchQueue
<1>4. CASE /\ ~InQueue(child) /\ Len(queue') = Len(queue) + 1
           /\ queue'[Len(queue) + 1] = child
           /\ list_id' = [list_id EXCEPT ![child] = Len(queue) + 1]
  <2> SUFFICES ASSUME NEW i \in 1..Len(queue') PROVE list_id'[queue'[i]] = i
    BY DEF NumbersMatchQueue
  <2>1. CASE i = Len(queue) + 1
    BY <1>1, <1>2, <1>4, <2>1
  <2>2. CASE i \in 1..Len(queue)
    <3>1. queue'[i] = queue[i] /\ queue[i] \in Nodes
      BY <1>2, <2>2, VisitQueue
    <3>2. queue[i] # child
      BY <1>4, <2>2 DEF InQueue
    <3>3. list_id'[queue[i]] = list_id[queue[i]]
      BY <1>2, <1>4, <3>1, <3>2
    <3>4. QED BY <1>1, <2>2, <3>1, <3>3 DEF NumbersMatchQueue
  <2>3. QED BY <1>1, <1>4, <2>1, <2>2
<1>5. QED BY <1>3, <1>4, VisitQueue, Zenon

LEMMA VisitPosition ==
    ASSUME TypeOK, MarksMatchQueue, WalkPosition, VisitChild
    PROVE  WalkPosition'
<1>1. /\ gr' = gr /\ s' = s /\ a' = a + 1 /\ s \in 1..Len(queue)
      /\ Len(queue) \in 1..siteSize /\ siteSize \in Nat
      /\ a + 1 \in 1..Len(gr.children[nI])
      /\ gr.children[nI] \in Seq(Nodes) /\ a \in Nat
  BY VisitContext
<1>2. queue'[s] = nI
  BY <1>1, VisitQueue DEF nI
<1>3. Len(queue') \in 1..siteSize /\ Len(queue') >= Len(queue)
  <2>1. \/ Len(queue) < siteSize /\ Len(queue') = Len(queue) + 1
        \/ queue' = queue
    BY VisitQueue, Zenon
  <2>2. QED BY <1>1, <2>1
<1>4. Len(gr.children[nI]) \in Nat
  BY <1>1
<1>5. a + 1 <= Len(gr'.children[queue'[s']])
  BY <1>1, <1>2, <1>4
<1>6. s' \in 1..(Len(queue') + 1) /\ s' # Len(queue') + 1
  BY <1>1, <1>3
<1>7. QED BY <1>1, <1>3, <1>5, <1>6 DEF WalkPosition

\* Nothing leaves the queue, and the child is in it unless it is full.
LEMMA VisitGrows ==
    ASSUME TypeOK, MarksMatchQueue, WalkPosition, VisitChild
    PROVE  /\ Len(queue) <= Len(queue') /\ Len(queue') \in Nat
           /\ Range(queue') = IF queue' = queue THEN Range(queue)
                              ELSE Range(queue) \cup {child}
           /\ Len(queue') < siteSize => child \in Range(queue')
           /\ queue' # queue => Len(queue) < siteSize /\ child \notin Range(queue)
           /\ queue' # queue => list_id' = [list_id EXCEPT ![child] = Len(queue) + 1]
           /\ queue' = queue => list_id' = list_id
<1>1. Len(queue) \in 1..siteSize /\ siteSize \in Nat /\ child \in Nodes
  BY VisitContext
<1>2. queue \in Seq(Nodes) /\ queue' \in Seq(Nodes)
  BY VisitContext, VisitType DEF TypeOK
<1>3. CASE queue' = queue /\ list_id' = list_id
  <2>1. Len(queue') < siteSize => InQueue(child)
    BY <1>3, VisitCases, AppendedLast, <1>1, <1>2
  <2>2. QED BY <1>1, <1>3, <2>1, RangeIsInQueue
<1>4. CASE /\ ~InQueue(child) /\ Len(queue) < siteSize
           /\ Len(queue') = Len(queue) + 1 /\ queue'[Len(queue) + 1] = child
           /\ list_id' = [list_id EXCEPT ![child] = Len(queue) + 1]
  <2>1. \A i \in 1..Len(queue) : queue'[i] = queue[i]
    BY VisitQueue
  <2>2. DOMAIN queue' = DOMAIN queue \cup {Len(queue) + 1} /\ DOMAIN queue = 1..Len(queue)
    BY <1>1, <1>2, <1>4
  <2>3. Range(queue') = Range(queue) \cup {child}
    BY <1>4, <2>1, <2>2 DEF Range
  <2>4. queue' # queue /\ child \notin Range(queue)
    BY <1>1, <1>4, RangeIsInQueue
  <2>5. QED BY <1>1, <1>4, <2>3, <2>4
<1>5. QED BY <1>3, <1>4, VisitQueue, Zenon

LEMMA VisitHandled ==
    ASSUME TypeOK, MarksMatchQueue, WalkPosition, HandledIsQueued, VisitChild
    PROVE  HandledIsQueued'
<1>1. /\ pc = "walk" /\ gr' = gr /\ s' = s /\ a' = a + 1 /\ s \in 1..Len(queue)
      /\ Len(queue) \in Nat /\ a \in Nat
  BY VisitContext
<1> SUFFICES ASSUME Len(queue') < siteSize, NEW i \in 1..Len(queue'),
                    NEW k \in 1..(Handled(i)')
             PROVE  gr.children[queue'[i]][k] \in Range(queue')
  BY <1>1 DEF HandledIsQueued
<1>2. /\ Len(queue) < siteSize /\ Range(queue) \subseteq Range(queue')
      /\ child \in Range(queue')
  <2>1. siteSize \in Nat
    BY SiteAssumption
  <2>2. QED BY <1>1, <2>1, VisitGrows
<1>3. CASE i < s
  <2>1. i \in 1..Len(queue) /\ queue'[i] = queue[i]
    BY <1>1, <1>3, VisitQueue
  <2>2. k \in 1..Handled(i)
    BY <1>1, <1>3, <2>1 DEF Handled
  <2>3. gr.children[queue[i]][k] \in Range(queue)
    BY <1>1, <1>2, <2>1, <2>2 DEF HandledIsQueued
  <2>4. QED BY <1>2, <2>1, <2>3
<1>4. CASE i = s
  <2>1. queue'[i] = queue[i] /\ i \in 1..Len(queue)
    BY <1>1, <1>4, VisitQueue
  <2>2. k \in 1..(a + 1)
    BY <1>1, <1>4 DEF Handled
  <2>3. CASE k = a + 1
    BY <1>2, <1>4, <2>1, <2>3 DEF child, nI
  <2>4. CASE k \in 1..a
    <3>1. k \in 1..Handled(i)
      BY <1>1, <1>4, <2>4 DEF Handled
    <3>2. gr.children[queue[i]][k] \in Range(queue)
      BY <1>1, <1>2, <2>1, <3>1 DEF HandledIsQueued
    <3>3. QED BY <1>2, <2>1, <3>2
  <2>5. QED BY <1>1, <2>2, <2>3, <2>4
<1>5. CASE i > s
  BY <1>1, <1>5 DEF Handled
<1>6. QED BY <1>1, <1>3, <1>4, <1>5

\* The rows other than the one being written see no new link.
LEMMA LinkedKept ==
    ASSUME TypeOK, MarksMatchQueue, WalkPosition, HandledIsQueued, VisitChild,
           NEW i \in 1..siteSize, i # s, NEW slot \in 1..2
    PROVE  LinkedOf(i, slot)' = LinkedOf(i, slot)
<1>1. /\ pc = "walk" /\ gr' = gr /\ s' = s /\ s \in 1..Len(queue)
      /\ Len(queue) \in Nat /\ siteSize \in Nat
  BY VisitContext
<1>2. CASE i > s
  <2>1. Handled(i) = 0 /\ Handled(i)' = 0
    BY <1>1, <1>2 DEF Handled
  <2>2. QED BY <2>1 DEF LinkedOf
<1>3. CASE i < s
  <2>1. i \in 1..Len(queue) /\ queue'[i] = queue[i]
    BY <1>1, <1>3, VisitQueue
  <2>2. Handled(i)' = Handled(i)
    BY <1>1, <1>3, <2>1 DEF Handled
  <2>3. ASSUME NEW k \in 1..Handled(i)
        PROVE  gr.children[queue[i]][k] \in Range(queue')
                  <=> gr.children[queue[i]][k] \in Range(queue)
    <3>1. CASE queue' = queue
      BY <3>1
    <3>2. CASE queue' # queue
      <4>1. gr.children[queue[i]][k] \in Range(queue)
        BY <1>1, <2>1, <3>2, VisitGrows DEF HandledIsQueued
      <4>2. Range(queue) \subseteq Range(queue')
        BY <3>2, VisitGrows
      <4>3. QED BY <4>1, <4>2
    <3>3. QED BY <3>1, <3>2
  <2>4. QED BY <1>1, <2>1, <2>2, <2>3 DEF LinkedOf
<1>4. QED BY <1>1, <1>2, <1>3

\* The row being written sees the child, if it is in the queue by now.
LEMMA LinkedRow ==
    ASSUME TypeOK, MarksMatchQueue, WalkPosition, HandledIsQueued, VisitChild,
           NEW i \in 1..siteSize, i = s, NEW slot \in 1..2
    PROVE  /\ LinkedOf(i, slot) \in SUBSET (1..a)
           /\ LinkedOf(i, slot)' =
                IF Slot(a + 1) = slot /\ child \in Range(queue')
                THEN LinkedOf(i, slot) \cup {a + 1} ELSE LinkedOf(i, slot)
<1>1. /\ pc = "walk" /\ gr' = gr /\ s' = s /\ a' = a + 1 /\ s \in 1..Len(queue)
      /\ Len(queue) \in Nat /\ siteSize \in Nat /\ a \in Nat
  BY VisitContext
<1>2. queue'[i] = queue[i] /\ queue[i] = nI /\ child = gr.children[nI][a + 1]
  BY <1>1, VisitQueue DEF nI, child
<1>3. Handled(i) = a /\ Handled(i)' = a + 1
  BY <1>1 DEF Handled
<1>4. ASSUME NEW k \in 1..a
      PROVE  gr.children[nI][k] \in Range(queue') <=> gr.children[nI][k] \in Range(queue)
  <2>1. CASE queue' = queue
    BY <2>1
  <2>2. CASE queue' # queue
    <3>1. gr.children[queue[i]][k] \in Range(queue)
      BY <1>1, <1>3, <2>2, VisitGrows DEF HandledIsQueued
    <3>2. Range(queue) \subseteq Range(queue')
      BY <2>2, VisitGrows
    <3>3. QED BY <1>2, <3>1, <3>2
  <2>3. QED BY <2>1, <2>2
<1>5. LinkedOf(i, slot) = {k \in 1..a : Slot(k) = slot /\ gr.children[nI][k] \in Range(queue)}
  BY <1>2, <1>3 DEF LinkedOf
<1>6. LinkedOf(i, slot)' = {k \in 1..(a + 1) : Slot(k) = slot
                                            /\ gr.children[nI][k] \in Range(queue')}
  BY <1>1, <1>2, <1>3 DEF LinkedOf
<1>7. 1..(a + 1) = 1..a \cup {a + 1}
  BY <1>1
<1>8. QED BY <1>1, <1>2, <1>4, <1>5, <1>6, <1>7

LEMMA EntryKept ==
    ASSUME TypeOK, MarksMatchQueue, WalkPosition, MaxIsLinked, VisitChild,
           NEW i \in 1..siteSize, NEW slot \in 1..2,
           LinkedOf(i, slot)' = LinkedOf(i, slot)
    PROVE  Entry(i, slot)' = Entry(i, slot)
<1>1. pc = "walk" /\ gr' = gr /\ s \in 1..Len(queue) /\ Len(queue) \in Nat /\ a \in Nat
  BY VisitContext
<1>2. CASE LinkedOf(i, slot) = {}
  BY <1>2 DEF Entry
<1>3. CASE LinkedOf(i, slot) # {}
  <2> DEFINE m == Max(LinkedOf(i, slot))
  <2>1. m \in 1..Handled(i) /\ gr.children[queue[i]][m] \in Range(queue)
    BY <1>1, <1>3 DEF MaxIsLinked, LinkedOf
  <2>2. i \in 1..Len(queue) /\ queue'[i] = queue[i]
    BY <1>1, <2>1, VisitQueue DEF Handled
  <2>3. list_id'[gr.children[queue[i]][m]] = list_id[gr.children[queue[i]][m]]
    <3>1. list_id \in [Nodes -> Nat]
      BY DEF TypeOK
    <3>2. CASE queue' = queue
      BY <3>2, VisitGrows
    <3>3. CASE queue' # queue
      <4>1. gr.children[queue[i]][m] # child
        BY <2>1, <3>3, VisitGrows
      <4>2. list_id' = [list_id EXCEPT ![child] = Len(queue) + 1]
        BY <3>3, VisitGrows
      <4>3. QED BY <3>1, <4>1, <4>2
    <3>4. QED BY <3>2, <3>3
  <2>4. Entry(i, slot)' = AsChar(list_id'[gr.children[queue[i]][m]])
    BY <1>1, <1>3, <2>2 DEF Entry
  <2>5. QED BY <1>3, <2>3, <2>4 DEF Entry
<1>4. QED BY <1>2, <1>3

\* What the visit writes in the matrix: the number of the child, when it has one.
LEMMA VisitMatrix ==
    ASSUME TypeOK, MarksMatchQueue, WalkPosition, VisitChild,
           NEW i \in 1..siteSize, NEW slot \in 1..2
    PROVE  NMatrix'[i][slot] = IF i = s /\ slot = LinkSlot /\ child \in Range(queue')
                               THEN AsChar(list_id'[child]) ELSE NMatrix[i][slot]
<1>1. NMatrix \in [1..siteSize -> [1..2 -> 0..(CharMod - 1)]]
  BY DEF TypeOK, Matrices
<1>2. s \in 1..siteSize /\ LinkSlot \in 1..2
  <2>1. s \in 1..Len(queue) /\ Len(queue) \in 1..siteSize /\ siteSize \in Nat
    BY VisitContext
  <2>2. QED BY <2>1, LinkSlotType
<1> DEFINE v == AsChar(list_id'[child])
<1>3. \/ NMatrix' = [NMatrix EXCEPT ![s][LinkSlot] = v] /\ child \in Range(queue')
      \/ NMatrix' = NMatrix /\ child \notin Range(queue')
  <2>1. InQueue(child) <=> child \in Range(queue)
    BY RangeIsInQueue
  <2>2. CASE InQueue(child) /\ queue' = queue /\ NMatrix' = [NMatrix EXCEPT ![s][LinkSlot] = v]
    BY <2>1, <2>2
  <2>3. CASE ~InQueue(child) /\ queue' = queue /\ NMatrix' = NMatrix
    BY <2>1, <2>3
  <2>4. CASE queue' = Append(queue, child) /\ NMatrix' = [NMatrix EXCEPT ![s][LinkSlot] = v]
    <3>1. queue \in Seq(Nodes) /\ child \in Nodes
      BY VisitContext DEF TypeOK
    <3>2. queue' # queue
      BY <2>4, <3>1, AppendedLast
    <3>3. child \in Range(queue')
      BY <3>2, VisitGrows
    <3>4. QED BY <2>4, <3>3
  <2>5. QED BY <2>2, <2>3, <2>4, VisitCases, Zenon
<1>4. CASE NMatrix' = NMatrix /\ child \notin Range(queue')
  BY <1>4
<1>5. CASE NMatrix' = [NMatrix EXCEPT ![s][LinkSlot] = v] /\ child \in Range(queue')
  <2> HIDE DEF v
  <2>1. NMatrix'[s] = [NMatrix[s] EXCEPT ![LinkSlot] = v]
    BY <1>1, <1>2, <1>5
  <2>2. NMatrix[s] \in [1..2 -> 0..(CharMod - 1)]
    BY <1>1, <1>2
  <2>3. NMatrix'[s][slot] = IF slot = LinkSlot THEN v ELSE NMatrix[s][slot]
    BY <1>2, <2>1, <2>2
  <2>4. i # s => NMatrix'[i] = NMatrix[i]
    BY <1>1, <1>2, <1>5
  <2>5. QED BY <1>5, <2>3, <2>4 DEF v
<1>6. QED BY <1>3, <1>4, <1>5

LEMMA VisitRows ==
    ASSUME TypeOK, MarksMatchQueue, WalkPosition, HandledIsQueued, MaxIsLinked,
           RowsSoFar, VisitChild
    PROVE  RowsSoFar'
<1>1. /\ pc = "walk" /\ info' = info /\ gr' = gr /\ s' = s /\ s \in 1..Len(queue)
      /\ a \in Nat /\ Len(queue) \in 1..siteSize /\ siteSize \in Nat
  BY VisitContext
<1> SUFFICES ASSUME ~info, NEW i \in 1..siteSize, NEW slot \in 1..2
             PROVE  NMatrix'[i][slot] = Entry(i, slot)'
  BY <1>1 DEF RowsSoFar
<1>2. NMatrix[i][slot] = Entry(i, slot)
  BY <1>1 DEF RowsSoFar
<1>3. LinkSlot = Slot(a + 1)
  BY DEF LinkSlot
<1>4. CASE i = s /\ slot = LinkSlot /\ child \in Range(queue')
  <2>1. LinkedOf(i, slot)' = LinkedOf(i, slot) \cup {a + 1}
    BY <1>3, <1>4, LinkedRow
  <2>2. Max(LinkedOf(i, slot)') = a + 1
    BY <1>1, <1>4, <2>1, LinkedRow, MaxIsLast
  <2>3. queue'[i] = nI /\ child = gr.children[nI][a + 1]
    BY <1>1, <1>4, VisitQueue DEF nI, child
  <2>4. LinkedOf(i, slot)' # {}
    BY <2>1
  <2>5. Entry(i, slot)' = AsChar(list_id'[child])
    BY <1>1, <2>2, <2>3, <2>4 DEF Entry
  <2>6. QED BY <1>4, <2>5, VisitMatrix
<1>5. CASE ~(i = s /\ slot = LinkSlot /\ child \in Range(queue'))
  <2>1. LinkedOf(i, slot)' = LinkedOf(i, slot)
    BY <1>3, <1>5, LinkedKept, LinkedRow
  <2>2. QED BY <1>2, <1>5, <2>1, EntryKept, VisitMatrix
<1>6. QED BY <1>4, <1>5

LEMMA VisitMax ==
    ASSUME TypeOK, MarksMatchQueue, WalkPosition, HandledIsQueued, MaxIsLinked,
           VisitChild
    PROVE  MaxIsLinked'
<1>1. pc = "walk" /\ a \in Nat
  BY VisitContext
<1> SUFFICES ASSUME NEW i \in 1..siteSize, NEW slot \in 1..2, LinkedOf(i, slot)' # {}
             PROVE  Max(LinkedOf(i, slot)') \in LinkedOf(i, slot)'
  BY DEF MaxIsLinked
<1>2. CASE LinkedOf(i, slot)' = LinkedOf(i, slot)
  BY <1>1, <1>2 DEF MaxIsLinked
<1>3. CASE i = s /\ LinkedOf(i, slot)' = LinkedOf(i, slot) \cup {a + 1}
  <2>1. Max(LinkedOf(i, slot)') = a + 1
    BY <1>1, <1>3, LinkedRow, MaxIsLast
  <2>2. QED BY <1>3, <2>1
<1>4. QED BY <1>2, <1>3, LinkedKept, LinkedRow

LEMMA VisitSymbols ==
    ASSUME TypeOK, MarksMatchQueue, WalkPosition, SymbolsSoFar, VisitChild
    PROVE  SymbolsSoFar'
<1>1. /\ pc = "walk" /\ gr' = gr /\ Len(queue) \in 1..siteSize /\ siteSize \in Nat
  BY VisitContext
<1>2. symbols \in [1..siteSize -> Nat]
  BY DEF TypeOK, Symbols
<1>3. \A i \in 1..Len(queue) : queue'[i] = queue[i] /\ symbols[i] = gr.symb[queue[i]]
  BY <1>1, VisitQueue DEF SymbolsSoFar
<1>4. CASE UNCHANGED <<explored, list_id, queue, symbols>>
  BY <1>1, <1>3, <1>4 DEF SymbolsSoFar
<1>5. CASE /\ Len(queue) < siteSize /\ Len(queue') = Len(queue) + 1
           /\ queue'[Len(queue) + 1] = child
           /\ symbols' = [symbols EXCEPT ![Len(queue) + 1] = gr.symb[child]]
  <2>1. \A i \in 1..Len(queue) : symbols'[i] = symbols[i]
    BY <1>1, <1>2, <1>5
  <2>2. symbols'[Len(queue) + 1] = gr.symb[child]
    BY <1>1, <1>2, <1>5
  <2>3. 1..Len(queue') = 1..Len(queue) \cup {Len(queue) + 1}
    BY <1>1, <1>5
  <2>4. QED BY <1>1, <1>3, <1>5, <2>1, <2>2, <2>3 DEF SymbolsSoFar
<1>6. QED BY <1>4, <1>5, VisitQueue, Zenon

LEMMA VisitInv == ASSUME Inv, VisitChild PROVE Inv'
<1>1. pc' = "walk"
  BY VisitContext DEF Inv
<1>2. SiteIsNGraph'
  BY <1>1 DEF SiteIsNGraph
<1>3. QED BY <1>2, VisitType, VisitMarks, VisitNumbers, VisitPosition, VisitHandled,
             VisitMax, VisitRows, VisitSymbols DEF Inv

(***************************************************************************)
(* The end of a node: every child of it was handled.                       *)
(***************************************************************************)
LEMMA CloseInv == ASSUME Inv, CloseNode PROVE Inv'
<1>1. /\ pc = "walk" /\ pc' = "walk" /\ a = Len(gr.children[queue[s]])
      /\ s <= Len(queue) /\ s' = s + 1 /\ a' = 0
      /\ explored' = [explored EXCEPT ![queue[s]] = "EXPLORED"]
      /\ UNCHANGED <<gr, list_id, info, queue, symbols, NMatrix, hits, ng>>
  BY DEF CloseNode, InLoop, nI
<1>2. /\ Len(queue) \in 1..siteSize /\ siteSize \in Nat /\ s \in 1..Len(queue)
      /\ queue \in Seq(Nodes) /\ a \in Nat
  BY <1>1, SiteAssumption DEF Inv, TypeOK, WalkPosition
<1>3. explored \in [Nodes -> Marks] /\ queue[s] \in Nodes
  BY <1>2 DEF Inv, TypeOK
<1>4. TypeOK'
  <2>1. explored' \in [Nodes -> Marks]
    BY <1>1, <1>3 DEF Marks
  <2>2. s' \in Nat /\ a' \in Nat
    BY <1>1, <1>2
  <2>3. QED BY <1>1, <2>1, <2>2 DEF Inv, TypeOK
<1>5. MarksMatchQueue'
  <2> SUFFICES ASSUME NEW n \in Nodes
               PROVE  /\ explored'[n] = "EXPLORED" <=> \E i \in 1..s : queue[i] = n
                      /\ explored'[n] = "UNDER_EXPLORATION"
                            <=> \E i \in (s + 1)..Len(queue) : queue[i] = n
    <3>1. s' - 1 = s
      BY <1>1, <1>2
    <3>2. QED BY <1>1, <3>1 DEF MarksMatchQueue
  <2>1. /\ explored[n] = "EXPLORED" <=> \E i \in 1..(s - 1) : queue[i] = n
        /\ explored[n] = "UNDER_EXPLORATION" <=> \E i \in s..Len(queue) : queue[i] = n
    BY <1>1 DEF Inv, MarksMatchQueue
  <2>2. 1..s = 1..(s - 1) \cup {s} /\ s..Len(queue) = (s + 1)..Len(queue) \cup {s}
    BY <1>2
  <2>3. CASE n = queue[s]
    <3>1. ~ \E i \in (s + 1)..Len(queue) : queue[i] = n
      BY <1>1, <1>2, <2>3 DEF Inv, NumbersMatchQueue
    <3>2. explored'[n] = "EXPLORED"
      BY <1>1, <1>3, <2>3
    <3>3. QED BY <2>2, <2>3, <3>1, <3>2
  <2>4. CASE n # queue[s]
    <3>1. explored'[n] = explored[n]
      BY <1>1, <1>3, <2>4
    <3>2. QED BY <2>1, <2>2, <2>4, <3>1
  <2>5. QED BY <2>3, <2>4
<1>6. NumbersMatchQueue'
  BY <1>1 DEF Inv, NumbersMatchQueue
<1>7. WalkPosition'
  <2>1. s' \in 1..(Len(queue) + 1)
    BY <1>1, <1>2
  <2>2. s' <= Len(queue) => a' <= Len(gr.children[queue[s']])
    <3>1. ASSUME s' <= Len(queue) PROVE Len(gr.children[queue[s']]) \in Nat
      <4>1. queue[s'] \in Nodes
        BY <1>2, <2>1, <3>1
      <4>2. gr.children[queue[s']] \in Seq(Nodes)
        BY <4>1, GraphFacts DEF Inv, TypeOK
      <4>3. QED BY <4>2
    <3>2. QED BY <1>1, <3>1
  <2>3. QED BY <1>1, <1>2, <2>1, <2>2 DEF WalkPosition
<1>8. ASSUME NEW i \in 1..siteSize PROVE Handled(i)' = Handled(i)
  BY <1>1, <1>2 DEF Handled
<1>9. HandledIsQueued'
  <2>1. \A i \in 1..Len(queue) : i \in 1..siteSize
    BY <1>2
  <2>2. QED BY <1>1, <1>8, <2>1 DEF Inv, HandledIsQueued
<1>10. ASSUME NEW i \in 1..siteSize, NEW slot \in 1..2
       PROVE  LinkedOf(i, slot)' = LinkedOf(i, slot)
  BY <1>1, <1>8 DEF LinkedOf
<1>11. MaxIsLinked'
  BY <1>1, <1>10 DEF Inv, MaxIsLinked
<1>12. RowsSoFar'
  <2>1. ASSUME NEW i \in 1..siteSize, NEW slot \in 1..2
        PROVE  Entry(i, slot)' = Entry(i, slot)
    BY <1>1, <1>10 DEF Entry
  <2>2. QED BY <1>1, <2>1 DEF Inv, RowsSoFar
<1>13. SymbolsSoFar'
  BY <1>1 DEF Inv, SymbolsSoFar
<1>14. SiteIsNGraph'
  BY <1>1 DEF SiteIsNGraph
<1>15. QED BY <1>4, <1>5, <1>6, <1>7, <1>9, <1>11, <1>12, <1>13, <1>14 DEF Inv

(***************************************************************************)
(* A call starts from a graph without marks.                               *)
(***************************************************************************)
LEMMA CallInv ==
    ASSUME Inv, NEW root \in Nodes, NEW isInfo \in BOOLEAN, Call(root, isInfo)
    PROVE  Inv'
<1>1. /\ pc = "idle" /\ pc' = "walk" /\ gr' = gr /\ s' = 1 /\ a' = 0
      /\ queue' = <<root>> /\ NMatrix' = newNMatrix
      /\ explored' = [explored EXCEPT ![root] = "UNDER_EXPLORATION"]
      /\ list_id' = [list_id EXCEPT ![root] = 1]
      /\ symbols' = [newSymbols EXCEPT ![1] = gr.symb[root]]
  BY DEF Call
<1>2. TypeOK'
  BY CallType DEF Inv
<1>3. siteSize \in Nat \ {0} /\ 1 \in 1..siteSize
  BY SiteAssumption
<1>4. Len(queue') = 1 /\ queue'[1] = root /\ 1..Len(queue') = {1}
  BY <1>1
<1>5. explored \in [Nodes -> Marks] /\ list_id \in [Nodes -> Nat]
      /\ \A n \in Nodes : explored[n] = "UNEXPLORED"
  BY <1>1 DEF Inv, TypeOK, MarksMatchQueue
<1>6. MarksMatchQueue'
  <2> SUFFICES ASSUME NEW n \in Nodes
               PROVE  /\ explored'[n] = "EXPLORED"
                            <=> \E i \in 1..(s' - 1) : queue'[i] = n
                      /\ explored'[n] = "UNDER_EXPLORATION"
                            <=> \E i \in s'..Len(queue') : queue'[i] = n
    BY <1>1 DEF MarksMatchQueue
  <2>1. 1..(s' - 1) = {} /\ s'..Len(queue') = {1}
    BY <1>1, <1>4
  <2>2. QED BY <1>1, <1>4, <1>5, <2>1
<1>7. NumbersMatchQueue'
  BY <1>1, <1>4, <1>5 DEF NumbersMatchQueue
<1>8. WalkPosition'
  <2>1. Len(gr.children[root]) \in Nat
    BY GraphFacts DEF Inv, TypeOK
  <2>2. QED BY <1>1, <1>3, <1>4, <2>1 DEF WalkPosition
<1>9. ASSUME NEW i \in 1..siteSize PROVE Handled(i)' = 0
  BY <1>1 DEF Handled
<1>10. HandledIsQueued'
  BY <1>3, <1>4, <1>9 DEF HandledIsQueued
<1>11. ASSUME NEW i \in 1..siteSize, NEW slot \in 1..2 PROVE LinkedOf(i, slot)' = {}
  BY <1>9 DEF LinkedOf
<1>12. MaxIsLinked'
  BY <1>11 DEF MaxIsLinked
<1>13. RowsSoFar'
  BY <1>1, <1>11 DEF RowsSoFar, Entry, newNMatrix
<1>14. SymbolsSoFar'
  BY <1>1, <1>3, <1>4 DEF SymbolsSoFar, newSymbols
<1>15. SiteIsNGraph'
  BY <1>1 DEF SiteIsNGraph
<1>16. QED BY <1>2, <1>6, <1>7, <1>8, <1>10, <1>12, <1>13, <1>14, <1>15 DEF Inv

(***************************************************************************)
(* The end of a call: every node of the queue was visited, so the rows are *)
(* those that Row takes from the queue.                                    *)
(***************************************************************************)
LEMMA NumberIsListId ==
    ASSUME Inv, pc = "walk", NEW n \in Range(queue)
    PROVE  list_id[n] = Number(queue, n)
<1>1. DOMAIN queue = 1..Len(queue)
  BY DEF Inv, TypeOK
<1>2. PICK i \in 1..Len(queue) : queue[i] = n
  BY <1>1 DEF Range
<1>3. list_id[n] = i /\ \A j \in 1..Len(queue) : queue[j] = n => j = i
  BY <1>2 DEF Inv, NumbersMatchQueue
<1>4. (CHOOSE j \in 1..Len(queue) : queue[j] = n) = i
  BY <1>2, <1>3
<1>5. QED BY <1>1, <1>3, <1>4 DEF Number

LEMMA ReturnedRows ==
    ASSUME Inv, Return, ~info, Len(queue) = siteSize
    PROVE  NMatrix = [i \in 1..siteSize |-> Row(gr, queue, queue[i])]
<1>1. pc = "walk" /\ siteSize \in Nat /\ queue \in Seq(Nodes)
  BY SiteAssumption DEF Return, Inv, TypeOK
<1>2. s = siteSize + 1
  <2>1. s \in 1..(siteSize + 1)
    BY <1>1 DEF Inv, WalkPosition
  <2>2. ~(s < siteSize + 1 /\ s <= siteSize)
    BY <1>1 DEF Return, InLoop
  <2>3. QED BY <1>1, <2>1, <2>2
<1>3. NMatrix \in [1..siteSize -> [1..2 -> 0..(CharMod - 1)]]
  BY DEF Inv, TypeOK, Matrices
<1>4. ASSUME NEW i \in 1..siteSize PROVE NMatrix[i] = Row(gr, queue, queue[i])
  <2> DEFINE n == queue[i]
             linked(slot) == {k \in DOMAIN gr.children[n] :
                                 /\ Slot(k) = slot
                                 /\ gr.children[n][k] \in Range(queue)}
  <2>1. n \in Nodes
    BY <1>1
  <2>2. gr.children[n] \in Seq(Nodes)
    BY <2>1, GraphFacts DEF Inv, TypeOK
  <2>3. DOMAIN gr.children[n] = 1..Handled(i)
    BY <1>2, <2>2 DEF Handled
  <2>4. ASSUME NEW slot \in 1..2
        PROVE  NMatrix[i][slot] = IF linked(slot) = {} THEN 0
                ELSE AsChar(Number(queue, gr.children[n][Max(linked(slot))]))
    <3>1. LinkedOf(i, slot) = linked(slot)
      BY <2>3 DEF LinkedOf
    <3>2. NMatrix[i][slot] = Entry(i, slot)
      BY <1>1 DEF Inv, RowsSoFar
    <3>3. CASE linked(slot) = {}
      BY <3>1, <3>2, <3>3 DEF Entry
    <3>4. CASE linked(slot) # {}
      <4>1. Max(linked(slot)) \in linked(slot)
        BY <1>1, <3>1, <3>4 DEF Inv, MaxIsLinked
      <4>2. gr.children[n][Max(linked(slot))] \in Range(queue)
        BY <4>1
      <4>3. list_id[gr.children[n][Max(linked(slot))]]
                = Number(queue, gr.children[n][Max(linked(slot))])
        BY <1>1, <4>2, NumberIsListId
      <4>4. QED BY <3>1, <3>2, <3>4, <4>3 DEF Entry
    <3>5. QED BY <3>3, <3>4
  <2>5. Row(gr, queue, n) =
            [slot \in 1..2 |-> IF linked(slot) = {} THEN 0
                ELSE AsChar(Number(queue, gr.children[n][Max(linked(slot))]))]
    BY DEF Row
  <2>6. NMatrix[i] \in [1..2 -> 0..(CharMod - 1)]
    BY <1>3
  <2> HIDE DEF linked
  <2>7. QED BY <2>4, <2>5, <2>6
<1>5. QED BY <1>3, <1>4

LEMMA ReturnInv == ASSUME Inv, Return PROVE Inv'
<1>1. /\ pc = "walk" /\ pc' = "idle" /\ explored' = ResetMarks
      /\ UNCHANGED <<gr, list_id, info, queue, s, a, symbols, NMatrix, hits>>
      /\ ng' = IF info THEN ng ELSE IF Len(queue) # siteSize THEN NULL
               ELSE [symbols |-> symbols, NMatrix |-> NMatrix]
  BY DEF Return
<1>2. explored' = [n \in Nodes |-> "UNEXPLORED"]
  <2>1. ASSUME NEW n \in Nodes, n \notin Range(queue) PROVE explored[n] = "UNEXPLORED"
    BY <1>1, <2>1, MarkMeaning, RangeIsInQueue DEF Inv
  <2>2. QED BY <1>1, <2>1 DEF ResetMarks
<1>3. TypeOK'
  <2>1. explored' \in [Nodes -> Marks]
    BY <1>2 DEF Marks
  <2>2. ng' \in NGraphs \cup {NULL}
    BY <1>1 DEF Inv, TypeOK, NGraphs
  <2>3. QED BY <1>1, <2>1, <2>2 DEF Inv, TypeOK
<1>4. MarksMatchQueue'
  BY <1>1, <1>2 DEF MarksMatchQueue
<1>5. SiteIsNGraph'
  <2> SUFFICES ASSUME ~info, ng' # NULL
               PROVE  Len(queue) = siteSize /\ ng' = NGraphOf(gr, queue)
    BY <1>1 DEF SiteIsNGraph
  <2>1. Len(queue) = siteSize /\ ng' = [symbols |-> symbols, NMatrix |-> NMatrix]
    BY <1>1
  <2>2. NMatrix = [i \in 1..siteSize |-> Row(gr, queue, queue[i])]
    BY <2>1, ReturnedRows
  <2>3. symbols = [i \in 1..siteSize |-> gr.symb[queue[i]]]
    BY <1>1, <2>1 DEF Inv, TypeOK, Symbols, SymbolsSoFar
  <2>4. QED BY <2>1, <2>2, <2>3 DEF NGraphOf
<1>6. QED BY <1>1, <1>3, <1>4, <1>5
          DEF Inv, NumbersMatchQueue, WalkPosition, HandledIsQueued, MaxIsLinked,
              RowsSoFar, SymbolsSoFar

-----------------------------------------------------------------------------
LEMMA InitInv == Init => Inv
<1> SUFFICES ASSUME Init PROVE Inv
  OBVIOUS
<1>1. pc = "idle" /\ ng = NULL /\ explored = [n \in Nodes |-> "UNEXPLORED"]
  BY DEF Init
<1>2. MarksMatchQueue
  BY <1>1 DEF MarksMatchQueue
<1>3. QED BY <1>1, <1>2, InitType
          DEF Inv, NumbersMatchQueue, WalkPosition, HandledIsQueued, MaxIsLinked,
              RowsSoFar, SymbolsSoFar, SiteIsNGraph

LEMMA StutterInv == ASSUME Inv, UNCHANGED vars PROVE Inv'
<1>1. /\ gr' = gr /\ explored' = explored /\ list_id' = list_id /\ pc' = pc
      /\ info' = info /\ queue' = queue /\ s' = s /\ a' = a
      /\ symbols' = symbols /\ NMatrix' = NMatrix /\ hits' = hits /\ ng' = ng
  BY DEF vars
<1>2. TypeOK'
  BY <1>1 DEF Inv, TypeOK
<1>3. MarksMatchQueue' /\ NumbersMatchQueue' /\ SymbolsSoFar' /\ SiteIsNGraph'
  BY <1>1 DEF Inv, MarksMatchQueue, NumbersMatchQueue, SymbolsSoFar, SiteIsNGraph
<1>4. WalkPosition'
  BY <1>1 DEF Inv, WalkPosition
<1>5. HandledIsQueued'
  BY <1>1, Zenon DEF Inv, HandledIsQueued, Handled
<1>6. MaxIsLinked'
  <2> SUFFICES ASSUME pc = "walk", NEW i \in 1..siteSize, NEW slot \in 1..2,
                      LinkedOf(i, slot)' # {}
               PROVE  Max(LinkedOf(i, slot)') \in LinkedOf(i, slot)'
    BY <1>1 DEF MaxIsLinked
  <2>1. LinkedOf(i, slot)' = LinkedOf(i, slot)
    BY <1>1 DEF LinkedOf, Handled
  <2>2. QED BY <2>1 DEF Inv, MaxIsLinked
<1>7. RowsSoFar'
  <2> SUFFICES ASSUME pc = "walk", ~info, NEW i \in 1..siteSize, NEW slot \in 1..2
               PROVE  NMatrix[i][slot] = Entry(i, slot)'
    BY <1>1 DEF RowsSoFar
  <2>1. LinkedOf(i, slot)' = LinkedOf(i, slot)
    BY <1>1 DEF LinkedOf, Handled
  <2>2. Entry(i, slot)' = Entry(i, slot)
    BY <1>1, <2>1 DEF Entry
  <2>3. QED BY <2>2 DEF Inv, RowsSoFar
<1>8. QED BY <1>2, <1>3, <1>4, <1>5, <1>6, <1>7 DEF Inv

(***************************************************************************)
(* The invariant holds for every graph, site size and sequence of calls of *)
(* BFS and BFSInfo.                                                        *)
(***************************************************************************)
THEOREM Invariance == Spec => []Inv
<1>1. Init => Inv
  BY InitInv
<1>2. Inv /\ [Next]_vars => Inv'
  <2> SUFFICES ASSUME Inv, [Next]_vars PROVE Inv'
    OBVIOUS
  <2>1. CASE VisitChild
    BY <2>1, VisitInv
  <2>2. CASE CloseNode
    BY <2>2, CloseInv
  <2>3. CASE Return
    BY <2>3, ReturnInv
  <2>4. ASSUME NEW root \in Nodes, NEW isInfo \in BOOLEAN, Call(root, isInfo)
        PROVE  Inv'
    BY <2>4, CallInv
  <2>5. CASE UNCHANGED vars
    BY <2>5, StutterInv
  <2>6. QED BY <2>1, <2>2, <2>3, <2>4, <2>5 DEF Next, Step
<1>3. QED BY <1>1, <1>2, PTL DEF Spec

(***************************************************************************)
(* The state of a walk is well typed; in particular no index leaves the    *)
(* queue or the matrix, both of siteSize entries.                          *)
(***************************************************************************)
THEOREM TypeCorrect == Spec => []TypeOK
<1>1. Inv => TypeOK
  BY DEF Inv
<1>2. QED BY <1>1, Invariance, PTL

(***************************************************************************)
(* The marks describe the running walk and are all gone between calls, so  *)
(* that each call of BFS starts, as it assumes, from an unexplored graph.  *)
(***************************************************************************)
THEOREM MarksCorrect == Spec => []MarksMatchQueue
<1>1. Inv => MarksMatchQueue
  BY DEF Inv
<1>2. QED BY <1>1, Invariance, PTL

(***************************************************************************)
(* During a walk list_id is the rank in the queue of every queued node,    *)
(* whatever earlier calls left in it.                                      *)
(***************************************************************************)
THEOREM NumbersCorrect == Spec => []NumbersMatchQueue
<1>1. Inv => NumbersMatchQueue
  BY DEF Inv
<1>2. QED BY <1>1, Invariance, PTL

(***************************************************************************)
(* The links of a site.  The rank Row takes is that of the node meant, and *)
(* fits its char when siteSize < CharMod.                                  *)
(***************************************************************************)
LEMMA RankNames ==
    ASSUME queue \in Seq(Nodes), Len(queue) = siteSize, siteSize < CharMod,
           NEW n, InSite(n)
    PROVE  NamesNode(AsChar(Number(queue, n)), n)
<1>1. DOMAIN queue = 1..Len(queue) /\ Len(queue) \in Nat /\ CharMod \in Nat
  BY SiteAssumption
<1>2. \E r \in DOMAIN queue : queue[r] = n
  BY <1>1 DEF InSite
<1>3. Number(queue, n) \in DOMAIN queue /\ queue[Number(queue, n)] = n
  BY <1>2 DEF Number
<1>4. ASSUME NEW r \in 1..Len(queue) PROVE r % CharMod = r
  BY <1>1
<1>5. AsChar(Number(queue, n)) = Number(queue, n)
  BY <1>1, <1>3, <1>4 DEF AsChar
<1>6. QED BY <1>1, <1>3, <1>5 DEF NamesNode

LEMMA InSiteIsRange ==
    ASSUME queue \in Seq(Nodes), NEW n PROVE InSite(n) <=> n \in Range(queue)
BY DEF InSite, Range

LEMMA RowLinksExact ==
    ASSUME Inv, Len(queue) = siteSize, siteSize < CharMod, NEW i \in 1..siteSize
    PROVE  LET row == Row(gr, queue, queue[i])
               c == gr.children[queue[i]]
           IN  FirstChildLinked(row, c) /\ LastOtherLinked(row, c)
<1> DEFINE c == gr.children[queue[i]]
           row == Row(gr, queue, queue[i])
           linked(slot) == {k \in DOMAIN c : Slot(k) = slot /\ c[k] \in Range(queue)}
           others == {k \in 2..Len(c) : InSite(c[k])}
<1>1. queue \in Seq(Nodes) /\ siteSize \in Nat
  BY SiteAssumption DEF Inv, TypeOK
<1>2. queue[i] \in Nodes
  BY <1>1
<1>3. c \in Seq(Nodes) /\ DOMAIN c = 1..Len(c) /\ Len(c) \in Nat
  BY <1>2, GraphFacts DEF Inv, TypeOK
<1>4. ASSUME NEW slot \in 1..2
      PROVE  row[slot] = IF linked(slot) = {} THEN 0
                         ELSE AsChar(Number(queue, c[Max(linked(slot))]))
  BY DEF Row
<1> HIDE DEF c, row
<1>5. FirstChildLinked(row, c)
  <2>1. CASE c # <<>> /\ InSite(c[1])
    <3>1. 1 \in DOMAIN c
      BY <1>3, <2>1
    <3>2. linked(1) = 1..1
      BY <1>1, <1>3, <2>1, <3>1, InSiteIsRange DEF Slot
    <3>3. Max(linked(1)) = 1
      BY <3>2, MaxChosen
    <3>4. row[1] = AsChar(Number(queue, c[1]))
      BY <1>4, <3>2, <3>3
    <3>5. QED BY <1>1, <2>1, <3>4, RankNames DEF FirstChildLinked
  <2>2. CASE ~(c # <<>> /\ InSite(c[1]))
    <3>1. linked(1) = {}
      BY <1>1, <1>3, <2>2, InSiteIsRange DEF Slot
    <3>2. QED BY <1>4, <2>2, <3>1 DEF FirstChildLinked
  <2>3. QED BY <2>1, <2>2
<1>6. LastOtherLinked(row, c)
  <2>1. linked(2) = others
    BY <1>1, <1>3, InSiteIsRange DEF Slot
  <2>2. CASE others = {}
    BY <1>4, <2>1, <2>2 DEF LastOtherLinked
  <2>3. CASE others # {}
    <3>1. others \in (SUBSET (1..Len(c))) \ {{}}
      BY <1>3, <2>3
    <3>2. Max(others) \in others /\ \A m \in others : m <= Max(others)
      BY <1>3, <3>1, MaxIsLargest
    <3>3. NamesNode(row[2], c[Max(others)])
      <4>1. row[2] = AsChar(Number(queue, c[Max(others)]))
        <5> HIDE DEF linked, others
        <5>1. row[2] = IF linked(2) = {} THEN 0
                       ELSE AsChar(Number(queue, c[Max(linked(2))]))
          BY <1>4
        <5>2. QED BY <2>1, <2>3, <5>1
      <4>2. QED BY <1>1, <3>2, <4>1, RankNames
    <3>4. QED BY <2>3, <3>2, <3>3 DEF LastOtherLinked
  <2>4. QED BY <2>2, <2>3
<1>7. QED BY <1>5, <1>6 DEF c, row

(***************************************************************************)
(* For sites of less than CharMod nodes: each node of the site BFS returns *)
(* is linked to its first child and to the last of its other children in   *)
(* the site, and to no other node, whatever was called before.             *)
(***************************************************************************)
THEOREM SiteCorrect == Spec => []SiteLinksExact
<1>1. Inv => SiteLinksExact
  <2> SUFFICES ASSUME Inv, pc = "idle", ~info, ng # NULL, siteSize < CharMod,
                      NEW i \in 1..siteSize
               PROVE  /\ ng.symbols[i] = gr.symb[queue[i]]
                      /\ FirstChildLinked(ng.NMatrix[i], gr.children[queue[i]])
                      /\ LastOtherLinked(ng.NMatrix[i], gr.children[queue[i]])
    BY DEF SiteLinksExact
  <2>1. Len(queue) = siteSize /\ ng = NGraphOf(gr, queue)
    BY DEF Inv, SiteIsNGraph
  <2>2. ng.symbols[i] = gr.symb[queue[i]] /\ ng.NMatrix[i] = Row(gr, queue, queue[i])
    BY <2>1 DEF NGraphOf
  <2>3. QED BY <2>1, <2>2, RowLinksExact
<1>2. QED BY <1>1, Invariance, PTL

-----------------------------------------------------------------------------
(***************************************************************************)
(* The site of a root.  The queue is the one SiteQueue builds, one child   *)
(* after the other (QueueSoFar), and it is in levels: once it holds a node *)
(* at some distance from the root it holds all the nearer ones, before it  *)
(* (Levels).                                                               *)
(***************************************************************************)
QueueAfter(k) == BreadthFirst(siteSize, gr, queue[1])[k]

QueueSoFar ==
    pc = "walk" =>
        IF s <= Len(queue)
        THEN /\ s <= Len(QueueAfter(s - 1)) /\ QueueAfter(s - 1)[s] = queue[s]
             /\ queue = Taken(siteSize, QueueAfter(s - 1),
                              SubSeq(Children(queue[s]), 1, a))
        ELSE queue = QueueAfter(s - 1)

Within(k) == Ball(gr, queue[1], k)

Level(k) == Range(queue) \subseteq Within(k) \/ Within(k) \subseteq Range(queue)

InOrder(k) == \A i, j \in 1..Len(queue) :
                  i <= j /\ queue[j] \in Within(k) => queue[i] \in Within(k)

Levels == queue # <<>> => \A k \in 0..siteSize : Level(k) /\ InOrder(k)

Near == \A j \in 1..Len(queue) : queue[j] \in Within(j - 1)

HitsSoFar ==
    info /\ queue # <<>> =>
        hits = [n \in Nodes |-> IF \E i \in 2..Len(queue) : queue[i] = n THEN 1 ELSE 0]

Returned ==
    pc = "idle" /\ queue # <<>> =>
        /\ queue = SiteQueue(gr, queue[1])
        /\ ~info => (ng = NULL <=> Cardinality(Reachable(gr, queue[1])) < siteSize)

SiteInv == /\ QueueSoFar /\ Levels /\ Near /\ HitsSoFar /\ Returned

LEMMA SiteQueueIs ==
    ASSUME NEW h, NEW root
    PROVE  SiteQueue(h, root) = BreadthFirst(siteSize, h, root)[siteSize]
BY DEF SiteQueue, BreadthFirst, AddChild, Taking, FoldLeft, MapThenFoldSet

LEMMA WalkContext ==
    ASSUME Inv, pc = "walk"
    PROVE  /\ LinksInside(gr) /\ queue[1] \in Nodes /\ siteSize \in Nat
           /\ queue \in Seq(Nodes) /\ Len(queue) \in 1..siteSize
           /\ s \in 1..(Len(queue) + 1)
           /\ \A n \in Nodes : gr.children[n] \in Seq(Nodes)
           /\ \A k \in 0..siteSize : QueueAfter(k) \in Seq(Nodes)
           /\ QueueAfter(0) = <<queue[1]>>
           /\ \A k \in 1..siteSize :
                 QueueAfter(k) = Widened(siteSize, gr, k, QueueAfter(k - 1))
<1>1. /\ gr \in Graphs /\ queue \in Seq(Nodes) /\ Len(queue) \in 1..siteSize
      /\ s \in 1..(Len(queue) + 1)
  BY DEF Inv, TypeOK, WalkPosition
<1>2. LinksInside(gr) /\ \A n \in Nodes : gr.children[n] \in Seq(Nodes)
  BY <1>1, GraphsAssumption, GraphFacts DEF IsGraph, LinksInside
<1>3. queue[1] \in Nodes /\ siteSize \in Nat
  BY <1>1, SiteAssumption
<1>4. /\ WidensAlong(BreadthFirst(siteSize, gr, queue[1]), siteSize, gr, queue[1])
      /\ \A k \in 0..siteSize : BreadthFirst(siteSize, gr, queue[1])[k] \in Seq(Nodes)
  BY <1>2, <1>3, BreadthFirstFacts
<1>5. QED BY <1>1, <1>2, <1>3, <1>4 DEF WidensAlong, QueueAfter

(***************************************************************************)
(* The queue, step by step.                                                *)
(***************************************************************************)
LEMMA VisitTakes ==
    ASSUME Inv, VisitChild
    PROVE  queue' = Taking(siteSize, queue, child)
<1>1. TypeOK /\ MarksMatchQueue /\ WalkPosition
  BY DEF Inv
<1>2. siteSize \in Nat /\ Len(queue) \in Nat
  BY <1>1, VisitContext
<1>3. child \in Range(queue) <=> InQueue(child)
  BY <1>1, RangeIsInQueue
<1>4. \/ ~InQueue(child) /\ Len(queue) < siteSize /\ queue' = Append(queue, child)
      \/ InQueue(child) /\ queue' = queue
      \/ ~InQueue(child) /\ ~(Len(queue) < siteSize) /\ queue' = queue
  BY <1>1, VisitCases, Zenon
<1>5. Len(queue) < siteSize <=> ~(Len(queue) >= siteSize)
  BY <1>2
<1>6. QED BY <1>3, <1>4, <1>5 DEF Taking

LEMMA VisitKeeps ==
    ASSUME Inv, VisitChild
    PROVE  /\ \A i \in 1..Len(queue) : queue'[i] = queue[i]
           /\ queue'[1] = queue[1] /\ queue'[s] = queue[s] /\ s <= Len(queue')
           /\ \A k : QueueAfter(k)' = QueueAfter(k)
           /\ \A k : Within(k)' = Within(k)
<1>1. TypeOK /\ MarksMatchQueue /\ WalkPosition
  BY DEF Inv
<1>2. /\ gr' = gr /\ s \in 1..Len(queue) /\ Len(queue) \in 1..siteSize
      /\ siteSize \in Nat
  BY <1>1, VisitContext
<1>3. \A i \in 1..Len(queue) : queue'[i] = queue[i]
  BY <1>1, VisitQueue
<1>4. Len(queue) <= Len(queue') /\ Len(queue') \in Nat
  BY <1>1, VisitGrows
<1>5. queue'[1] = queue[1] /\ queue'[s] = queue[s] /\ s <= Len(queue')
  BY <1>2, <1>3, <1>4
<1>6. QED BY <1>2, <1>3, <1>5 DEF QueueAfter, Within

LEMMA VisitSoFar == ASSUME Inv, QueueSoFar, VisitChild PROVE QueueSoFar'
<1>1. /\ pc = "walk" /\ gr' = gr /\ s' = s /\ a' = a + 1 /\ s \in 1..Len(queue)
      /\ Len(queue) \in 1..siteSize /\ a \in Nat /\ a + 1 \in 1..Len(gr.children[nI])
      /\ gr.children[nI] \in Seq(Nodes)
  BY VisitContext DEF Inv
<1> DEFINE q == QueueAfter(s - 1)
           kids == gr.children[nI]
<1>2. s <= Len(q) /\ q[s] = queue[s] /\ queue = Taken(siteSize, q, SubSeq(kids, 1, a))
  BY <1>1 DEF QueueSoFar, nI
<1>3. q \in Seq(Nodes) /\ kids \in Seq(Nodes)
  <2>1. s - 1 \in 0..siteSize
    BY <1>1, SiteAssumption
  <2>2. QED BY <1>1, <2>1, WalkContext
<1>4. a \in 0..Len(kids) /\ a < Len(kids) /\ child = kids[a + 1]
  <2>1. Len(kids) \in Nat
    BY <1>3
  <2>2. QED BY <1>1, <2>1 DEF child
<1> HIDE DEF q, kids
<1>5. Taken(siteSize, q, SubSeq(kids, 1, a + 1)) = Taking(siteSize, queue, child)
  BY <1>2, <1>3, <1>4, TakenNext
<1>6. queue' = Taken(siteSize, q, SubSeq(kids, 1, a + 1))
  BY <1>5, VisitTakes
<1>7. /\ QueueAfter(s - 1)' = q /\ queue'[s] = queue[s] /\ s <= Len(queue')
      /\ gr'.children[queue'[s]] = kids
  BY <1>1, VisitKeeps DEF q, kids, nI
<1>8. QED BY <1>1, <1>2, <1>6, <1>7 DEF QueueSoFar, QueueAfter

LEMMA CloseSoFar == ASSUME Inv, QueueSoFar, CloseNode PROVE QueueSoFar'
<1>1. /\ pc = "walk" /\ a = Len(gr.children[queue[s]])
      /\ s <= Len(queue) /\ s' = s + 1 /\ a' = 0
      /\ UNCHANGED <<gr, queue>>
  BY DEF CloseNode, InLoop, nI
<1>2. /\ queue \in Seq(Nodes) /\ Len(queue) \in 1..siteSize /\ siteSize \in Nat
      /\ s \in 1..Len(queue) /\ s - 1 \in 0..siteSize /\ s \in 1..siteSize
      /\ s \in 0..siteSize
  BY <1>1, WalkContext
<1> DEFINE q == QueueAfter(s - 1)
           kids == gr.children[queue[s]]
<1>3. q \in Seq(Nodes) /\ kids \in Seq(Nodes) /\ QueueAfter(s) \in Seq(Nodes)
      /\ QueueAfter(s) = Widened(siteSize, gr, s, q)
  BY <1>1, <1>2, WalkContext, SMTT(30)
<1>4. s <= Len(q) /\ q[s] = queue[s] /\ queue = Taken(siteSize, q, SubSeq(kids, 1, a))
  BY <1>1 DEF QueueSoFar
<1>5. SubSeq(kids, 1, a) = kids
  <2>1. a = Len(kids)
    BY <1>1
  <2> HIDE DEF kids
  <2>2. QED BY <1>3, <2>1, SubSeqFull
<1>6. queue = Widened(siteSize, gr, s, q)
  <2>1. ~(s > Len(q))
    BY <1>2, <1>3, <1>4
  <2>2. q[s] = queue[s]
    BY <1>4
  <2>3. Taken(siteSize, q, gr.children[q[s]]) = queue
    BY <1>4, <1>5, <2>2
  <2> HIDE DEF q
  <2>4. QED BY <2>1, <2>3 DEF Widened
<1>7. queue = QueueAfter(s)
  BY <1>3, <1>6
<1>8. QueueAfter(s - 1)' = QueueAfter(s)
  <2>1. s' - 1 = s
    BY <1>1, <1>2
  <2>2. QED BY <1>1, <2>1 DEF QueueAfter
<1> HIDE DEF q, kids
<1>9. CASE s' <= Len(queue)
  <2>1. queue[s'] \in Nodes
    BY <1>1, <1>2, <1>9
  <2>2. gr.children[queue[s']] \in Seq(Nodes)
    BY <1>1, <2>1, WalkContext
  <2>3. SubSeq(gr.children[queue[s']], 1, 0) = <<>>
    BY <2>2
  <2>4. Taken(siteSize, queue, <<>>) = queue
    BY <1>2, TakenFacts
  <2>5. QED BY <1>1, <1>7, <1>8, <1>9, <2>3, <2>4 DEF QueueSoFar, QueueAfter
<1>10. CASE ~(s' <= Len(queue))
  BY <1>1, <1>7, <1>8, <1>10 DEF QueueSoFar, QueueAfter
<1>11. QED BY <1>9, <1>10

LEMMA CallSoFar ==
    ASSUME Inv, NEW root \in Nodes, NEW isInfo \in BOOLEAN, Call(root, isInfo)
    PROVE  QueueSoFar'
<1>1. /\ pc' = "walk" /\ gr' = gr /\ s' = 1 /\ a' = 0 /\ queue' = <<root>>
  BY DEF Call
<1>2. Inv'
  BY CallInv
<1>3. QueueAfter(0)' = queue' /\ gr.children[root] \in Seq(Nodes)
  <2>1. QueueAfter(0)' = <<queue'[1]>>
    <3>1. (Inv /\ pc = "walk" => QueueAfter(0) = <<queue[1]>>)'
      BY WalkContext, PTL
    <3>2. QED BY <1>1, <1>2, <3>1
  <2>2. gr.children[root] \in Seq(Nodes)
    BY GraphFacts DEF Inv, TypeOK
  <2>3. QED BY <1>1, <2>1, <2>2
<1>4. SubSeq(gr.children[root], 1, 0) = <<>>
  BY <1>3
<1>5. Taken(siteSize, queue', <<>>) = queue'
  <2> DEFINE q == queue'
  <2>1. q \in Seq(Nodes)
    BY <1>1
  <2> HIDE DEF q
  <2>2. Taken(siteSize, q, <<>>) = q
    BY <2>1, TakenFacts
  <2>3. QED BY <2>2 DEF q
<1>6. Len(queue') = 1 /\ queue'[1] = root
  BY <1>1
<1>7. QueueAfter(s - 1)' = queue'
  BY <1>1, <1>3 DEF QueueAfter
<1>8. QED BY <1>1, <1>4, <1>5, <1>6, <1>7 DEF QueueSoFar, QueueAfter
(***************************************************************************)
(* The levels.                                                             *)
(***************************************************************************)
LEMMA WithinFacts ==
    ASSUME Inv, pc = "walk"
    PROVE  /\ Within(0) = {queue[1]}
           /\ \A k \in Nat : /\ Within(k) \subseteq Nodes
                             /\ Within(k + 1) = Within(k) \cup Successors(gr, Within(k))
           /\ \A m \in Nat : \A k \in 0..m : Within(k) \subseteq Within(m)
<1>1. LinksInside(gr) /\ queue[1] \in Nodes
  BY WalkContext
<1> DEFINE r == queue[1]
<1>2. \A k \in Nat : /\ Ball(gr, r, 0) = {r} /\ Ball(gr, r, k) \subseteq Nodes
                     /\ Ball(gr, r, k + 1) = Ball(gr, r, k) \cup Successors(gr, Ball(gr, r, k))
  <2> HIDE DEF r
  <2>1. r \in NodesOf(gr)
    BY <1>1 DEF r
  <2>2. QED BY <1>1, <2>1, BallStep
<1>3. \A m \in Nat : \A k \in 0..m : Ball(gr, r, k) \subseteq Ball(gr, r, m)
  <2> HIDE DEF r
  <2>1. r \in NodesOf(gr)
    BY <1>1 DEF r
  <2>2. QED BY <1>1, <2>1, BallGrows
<1>4. 0 \in Nat
  OBVIOUS
<1>5. QED BY <1>2, <1>3, <1>4 DEF Within

\* A child that joins from outside a ball finds the whole ball in the queue.
LEMMA BallWasTaken ==
    ASSUME Inv, Levels, VisitChild, Len(queue) < siteSize, NEW k \in 0..siteSize,
           child \notin Within(k), Range(queue) \subseteq Within(k)
    PROVE  Within(k) \subseteq Range(queue)
<1>1. /\ pc = "walk" /\ s \in 1..Len(queue) /\ Len(queue) \in 1..siteSize
      /\ siteSize \in Nat /\ nI = queue[s] /\ queue \in Seq(Nodes)
      /\ a + 1 \in 1..Len(gr.children[nI]) /\ child = gr.children[nI][a + 1]
      /\ gr.children[nI] \in Seq(Nodes) /\ nI \in Nodes
  BY VisitContext DEF Inv, TypeOK, nI, child
<1>2. /\ \A i \in 1..Len(queue) : queue[i] \in Range(queue)
      /\ \A x \in Range(queue) : \E i \in 1..Len(queue) : queue[i] = x
  BY <1>1, RangeFacts
<1>3. CASE k = 0
  <2>1. Within(k) = {queue[1]}
    BY <1>1, <1>3, WithinFacts
  <2>2. queue[1] \in Range(queue)
    BY <1>1, <1>2
  <2>3. QED BY <2>1, <2>2
<1>4. CASE k # 0
  <2> DEFINE m == k - 1
             B == Within(m)
  <2>1. m \in Nat /\ m \in 0..siteSize /\ m + 1 = k
    BY <1>1, <1>4
  <2> HIDE DEF m
  <2>2. Within(k) = B \cup Successors(gr, B)
    BY <1>1, <2>1, WithinFacts
  <2>3. queue # <<>>
    BY <1>1
  <2>4. Level(m) /\ InOrder(m)
    BY <2>1, <2>3 DEF Levels
  <2> HIDE DEF B
  <2>5. nI \notin B
    <3>1. child \in Range(gr.children[nI])
      BY <1>1, RangeFacts
    <3>2. QED BY <2>2, <3>1 DEF Successors
  <2>6. B \subseteq Range(queue)
    BY <1>1, <1>2, <2>4, <2>5 DEF Level, B
  <2>7. ASSUME NEW n \in B PROVE Range(gr.children[n]) \subseteq Range(queue)
    <3>1. PICK i \in 1..Len(queue) : queue[i] = n
      BY <1>2, <2>6
    <3>2. i < s
      <4>1. s <= i => nI \in B
        BY <1>1, <2>4, <3>1 DEF InOrder, B
      <4>2. QED BY <1>1, <2>5, <3>1, <4>1
    <3>3. Handled(i) = Len(gr.children[n])
      BY <3>1, <3>2 DEF Handled
    <3>4. \A j \in 1..Len(gr.children[n]) : gr.children[n][j] \in Range(queue)
      BY <1>1, <3>1, <3>3 DEF Inv, HandledIsQueued
    <3>5. gr.children[n] \in Seq(Nodes)
      BY <1>1, <3>1, WalkContext
    <3>6. QED BY <3>4, <3>5, RangeFacts
  <2>8. Successors(gr, B) \subseteq Range(queue)
    BY <2>7 DEF Successors
  <2>9. QED BY <2>2, <2>6, <2>8
<1>5. QED BY <1>3, <1>4

LEMMA VisitLevels == ASSUME Inv, Levels, VisitChild PROVE Levels'
<1>1. /\ pc = "walk" /\ Len(queue) \in 1..siteSize /\ siteSize \in Nat
      /\ queue \in Seq(Nodes) /\ child \in Nodes
  BY VisitContext DEF Inv, TypeOK
<1>2. queue # <<>> /\ \A k \in 0..siteSize : Level(k) /\ InOrder(k)
  BY <1>1 DEF Levels
<1>3. \A k : Within(k)' = Within(k)
  BY VisitKeeps
<1>4. CASE queue' = queue
  BY <1>2, <1>3, <1>4 DEF Levels, Level, InOrder
<1>5. CASE queue' # queue
  <2>1. queue' = Append(queue, child) /\ child \notin Range(queue) /\ Len(queue) < siteSize
    <3>1. Len(queue) < siteSize /\ child \notin Range(queue)
      BY <1>5, VisitGrows DEF Inv
    <3>2. QED BY <1>5, <3>1, VisitTakes DEF Taking
  <2>2. /\ Range(queue') = Range(queue) \cup {child}
        /\ Len(queue') = Len(queue) + 1 /\ queue'[Len(queue) + 1] = child
        /\ \A i \in 1..Len(queue) : queue'[i] = queue[i] /\ queue[i] \in Range(queue)
    BY <1>1, <2>1, RangeAppend, AppendProperties, RangeFacts
  <2>3. ASSUME NEW k \in 0..siteSize PROVE Level(k)' /\ InOrder(k)'
    <3> DEFINE B == Within(k)
    <3>1. Level(k) /\ InOrder(k)
      BY <1>2
    <3>2. Level(k)'
      <4>1. Range(queue) \subseteq B /\ child \notin B => B \subseteq Range(queue)
        BY <2>1, BallWasTaken
      <4> HIDE DEF B
      <4>2. Range(queue') \subseteq B \/ B \subseteq Range(queue')
        BY <2>2, <3>1, <4>1 DEF Level, B
      <4>3. QED BY <1>3, <4>2 DEF Level, B
    <3>3. ASSUME NEW i \in 1..Len(queue'), NEW j \in 1..Len(queue'), i <= j,
                 queue'[j] \in B
          PROVE  queue'[i] \in B
      <4> HIDE DEF B
      <4>1. CASE j = Len(queue) + 1
        <5>1. child \in B
          BY <2>2, <3>3, <4>1
        <5>2. Range(queue) \subseteq B
          BY <2>1, <3>1, <5>1 DEF Level, B
        <5>3. i = j \/ i \in 1..Len(queue)
          BY <1>1, <2>2, <3>3, <4>1
        <5>4. QED BY <2>2, <3>3, <5>2, <5>3
      <4>2. CASE j # Len(queue) + 1
        <5>1. i \in 1..Len(queue) /\ j \in 1..Len(queue)
          BY <1>1, <2>2, <3>3, <4>2
        <5>2. QED BY <2>2, <3>1, <3>3, <5>1 DEF InOrder, B
      <4>3. QED BY <4>1, <4>2
    <3>4. InOrder(k)'
      BY <1>3, <3>3 DEF InOrder
    <3>5. QED BY <3>2, <3>4
  <2>4. QED BY <2>3 DEF Levels
<1>6. QED BY <1>4, <1>5

LEMMA VisitNear == ASSUME Inv, Near, VisitChild PROVE Near'
<1>1. /\ pc = "walk" /\ s \in 1..Len(queue) /\ Len(queue) \in 1..siteSize
      /\ siteSize \in Nat /\ nI = queue[s] /\ queue \in Seq(Nodes)
      /\ a + 1 \in 1..Len(gr.children[nI]) /\ child = gr.children[nI][a + 1]
      /\ gr.children[nI] \in Seq(Nodes) /\ child \in Nodes
  BY VisitContext DEF Inv, TypeOK, nI, child
<1>2. \A k : Within(k)' = Within(k)
  BY VisitKeeps
<1>3. CASE queue' = queue
  BY <1>2, <1>3 DEF Near
<1>4. CASE queue' # queue
  <2>1. queue' = Append(queue, child)
    BY <1>4, VisitTakes DEF Taking
  <2>2. /\ Len(queue') = Len(queue) + 1 /\ queue'[Len(queue) + 1] = child
        /\ \A i \in 1..Len(queue) : queue'[i] = queue[i]
    BY <1>1, <2>1, AppendProperties
  <2>3. child \in Within(Len(queue))
    <3>1. s - 1 \in Nat /\ (s - 1) + 1 = s /\ s \in 0..Len(queue) /\ Len(queue) \in Nat
      BY <1>1
    <3>2. nI \in Within(s - 1)
      BY <1>1 DEF Near
    <3>3. child \in Successors(gr, Within(s - 1))
      <4>1. child \in Range(gr.children[nI])
        BY <1>1, RangeFacts
      <4>2. QED BY <3>2, <4>1 DEF Successors
    <3>4. Within((s - 1) + 1) = Within(s - 1) \cup Successors(gr, Within(s - 1))
      BY <1>1, <3>1, WithinFacts
    <3>5. Within(s) \subseteq Within(Len(queue))
      BY <1>1, <3>1, WithinFacts
    <3>6. QED BY <3>1, <3>3, <3>4, <3>5
  <2>4. \A j \in 1..Len(queue') : queue'[j] \in Within(j - 1)
    <3>1. ASSUME NEW j \in 1..Len(queue') PROVE queue'[j] \in Within(j - 1)
      <4>1. CASE j = Len(queue) + 1
        <5>1. j - 1 = Len(queue)
          BY <1>1, <4>1
        <5>2. QED BY <2>2, <2>3, <4>1, <5>1
      <4>2. CASE j # Len(queue) + 1
        <5>1. j \in 1..Len(queue)
          BY <1>1, <2>2, <4>2
        <5>2. QED BY <2>2, <5>1 DEF Near
      <4>3. QED BY <4>1, <4>2
    <3>2. QED BY <3>1
  <2>5. QED BY <1>2, <2>4 DEF Near
<1>5. QED BY <1>3, <1>4

Centred == /\ Within(0) = {queue[1]}
           /\ \A m \in Nat : \A k \in 0..m : Within(k) \subseteq Within(m)

LEMMA BallsAreCentred == Inv /\ pc = "walk" => Centred
BY WithinFacts DEF Centred

LEMMA CallLevels ==
    ASSUME Inv, NEW root \in Nodes, NEW isInfo \in BOOLEAN, Call(root, isInfo)
    PROVE  Levels' /\ Near'
<1>1. pc' = "walk" /\ queue' = <<root>> /\ Inv'
  BY CallInv DEF Call
<1>2. Within(0)' = {root} /\ \A m \in Nat : Within(0)' \subseteq Within(m)'
  <2>1. (Inv /\ pc = "walk" => Centred)'
    BY BallsAreCentred, PTL
  <2>2. \A m \in Nat : 0 \in 0..m
    OBVIOUS
  <2>3. queue'[1] = root
    BY <1>1
  <2>4. QED BY <1>1, <2>1, <2>2, <2>3 DEF Centred
<1>3. Len(queue') = 1 /\ 1..1 = {1} /\ queue'[1] = root /\ Range(queue') = {root}
  BY <1>1 DEF Range
<1>4. ASSUME NEW k \in 0..siteSize PROVE Level(k)' /\ InOrder(k)'
  <2>1. k \in Nat
    BY SiteAssumption
  <2>2. root \in Within(k)'
    BY <1>2, <2>1
  <2>3. QED BY <1>3, <2>2 DEF Level, InOrder
<1>5. Near'
  <2>1. queue'[1] \in Within(0)'
    BY <1>2, <1>3
  <2>2. \A j \in 1..Len(queue') : j = 1 /\ j - 1 = 0
    BY <1>3
  <2>3. QED BY <2>1, <2>2 DEF Near, Within
<1>6. QED BY <1>4, <1>5 DEF Levels
(***************************************************************************)
(* What a call counts and returns.                                         *)
(***************************************************************************)
LEMMA VisitHits == ASSUME Inv, HitsSoFar, VisitChild PROVE HitsSoFar'
<1>1. /\ pc = "walk" /\ info' = info /\ Len(queue) \in 1..siteSize /\ siteSize \in Nat
      /\ queue \in Seq(Nodes) /\ child \in Nodes /\ Nodes' = Nodes
      /\ hits \in [Nodes -> Nat]
  BY VisitContext DEF Inv, TypeOK
<1>2. hits' = IF Counts THEN [hits EXCEPT ![child] = @ + 1] ELSE hits
  BY DEF VisitChild, AddToQueue
<1>3. IF Adds THEN queue' = Append(queue, child) ELSE queue' = queue
  BY DEF VisitChild, AddToQueue
<1> SUFFICES ASSUME info
             PROVE  hits' = [n \in Nodes |->
                               IF \E i \in 2..Len(queue') : queue'[i] = n THEN 1 ELSE 0]
  BY <1>1 DEF HitsSoFar
<1>4. hits = [n \in Nodes |-> IF \E i \in 2..Len(queue) : queue[i] = n THEN 1 ELSE 0]
  BY <1>1 DEF HitsSoFar
<1>5. CASE ~Adds
  BY <1>2, <1>3, <1>4, <1>5 DEF Counts
<1>6. CASE Adds
  <2>1. /\ Len(queue') = Len(queue) + 1 /\ queue'[Len(queue) + 1] = child
        /\ \A i \in 1..Len(queue) : queue'[i] = queue[i]
    BY <1>1, <1>3, <1>6, AppendProperties
  <2>2. \A i \in 1..Len(queue) : queue[i] # child
    <3>1. queue' # queue
      BY <1>1, <2>1
    <3>2. child \notin Range(queue)
      BY <3>1, VisitGrows DEF Inv
    <3>3. QED BY <1>1, <3>2, RangeFacts
  <2>3. hits' = [hits EXCEPT ![child] = @ + 1]
    BY <1>2, <1>6 DEF Counts
  <2>4. ASSUME NEW n \in Nodes
        PROVE  hits'[n] = IF \E i \in 2..Len(queue') : queue'[i] = n THEN 1 ELSE 0
    <3>1. CASE n = child
      <4>1. hits[child] = 0
        BY <1>1, <1>4, <2>2
      <4>2. Len(queue) + 1 \in 2..Len(queue')
        BY <1>1, <2>1
      <4>3. QED BY <1>1, <2>1, <2>3, <3>1, <4>1, <4>2
    <3>2. CASE n # child
      <4>1. hits'[n] = hits[n]
        BY <1>1, <2>3, <3>2
      <4>2. \A i \in 2..Len(queue') : i \in 2..Len(queue) \/ i = Len(queue) + 1
        BY <1>1, <2>1
      <4>3. \A i \in 2..Len(queue) : i \in 2..Len(queue') /\ i \in 1..Len(queue)
        BY <1>1, <2>1
      <4>4. (\E i \in 2..Len(queue') : queue'[i] = n)
                <=> (\E i \in 2..Len(queue) : queue[i] = n)
        BY <2>1, <3>2, <4>2, <4>3
      <4>5. QED BY <1>4, <4>1, <4>4
    <3>3. QED BY <3>1, <3>2
  <2>5. hits' = [n \in Nodes |-> hits'[n]]
    BY <1>1, <2>3
  <2>6. QED BY <2>4, <2>5
<1>7. QED BY <1>5, <1>6

LEMMA ReturnContext ==
    ASSUME Inv, Return
    PROVE  /\ pc = "walk" /\ pc' = "idle" /\ s = Len(queue) + 1
           /\ UNCHANGED <<gr, queue, info, hits>>
           /\ ~info => (ng' = NULL <=> Len(queue) # siteSize)
<1>1. /\ pc = "walk" /\ pc' = "idle"
      /\ UNCHANGED <<gr, queue, info, hits>>
      /\ ~info => ng' = IF Len(queue) # siteSize THEN NULL
                        ELSE [symbols |-> symbols, NMatrix |-> NMatrix]
  BY DEF Return
<1>2. s = Len(queue) + 1
  <2>1. s \in 1..(Len(queue) + 1) /\ Len(queue) \in 1..siteSize /\ siteSize \in Nat
    BY <1>1, WalkContext
  <2>2. ~(s < siteSize + 1 /\ s <= Len(queue))
    BY <1>1 DEF Return, InLoop
  <2>3. QED BY <2>1, <2>2
<1>3. [symbols |-> symbols, NMatrix |-> NMatrix] # NULL
  BY NullAssumption DEF Inv, TypeOK, NGraphs
<1>4. QED BY <1>1, <1>2, <1>3

\* The queue is full, or holds all that the root reaches.
LEMMA ReachCount ==
    ASSUME Inv, Near, Return
    PROVE  Len(queue) # siteSize <=> Cardinality(Reachable(gr, queue[1])) < siteSize
<1>1. /\ pc = "walk" /\ s = Len(queue) + 1 /\ Len(queue) \in 1..siteSize
      /\ siteSize \in Nat /\ queue \in Seq(Nodes) /\ queue[1] \in Nodes /\ LinksInside(gr)
      /\ \A n \in Nodes : gr.children[n] \in Seq(Nodes)
  BY ReturnContext, WalkContext
<1> DEFINE N == Cardinality(Nodes)
           R == Reachable(gr, queue[1])
           Q == Range(queue)
<1>2. IsFiniteSet(Nodes) /\ N \in Nat
  <2> DEFINE m == Len(gr.children)
  <2>1. m \in Nat /\ Nodes = 1..m
    BY <1>1, LenProperties DEF LinksInside, NodesOf
  <2> HIDE DEF m
  <2>2. IsFiniteSet(1..m) /\ Cardinality(1..m) = m
    BY <2>1, FS_Interval
  <2>3. QED BY <2>1, <2>2
<1>3. IsFiniteSet(Q) /\ Cardinality(Q) = Len(queue)
  <2>1. \A i, j \in 1..Len(queue) : queue[i] = queue[j] => i = j
    BY <1>1 DEF Inv, NumbersMatchQueue
  <2>2. IsInjective(queue)
    BY <1>1, <2>1, LenProperties DEF IsInjective
  <2>3. QED BY <1>1, <2>2, RangeCount
<1>4. R = Within(N)
  BY DEF Reachable, Within
<1>5. R \subseteq Nodes
  BY <1>1, <1>2, <1>4, WithinFacts
<1>6. Q \subseteq Nodes
  BY <1>1, RangeFacts
<1>7. /\ \A i \in 1..Len(queue) : queue[i] \in Q
      /\ \A x \in Q : \E i \in 1..Len(queue) : queue[i] = x
  BY <1>1, RangeFacts
<1>8. IsFiniteSet(R) /\ Cardinality(R) \in Nat /\ Len(queue) <= N
  <2> HIDE DEF N, R, Q
  <2>1. IsFiniteSet(R) /\ Cardinality(Q) <= Cardinality(Nodes)
    BY <1>2, <1>5, <1>6, FS_Subset
  <2>2. Cardinality(R) \in Nat
    BY <2>1, FS_CardinalityType
  <2>3. QED BY <1>3, <2>1, <2>2 DEF N
<1>9. Q \subseteq R
  <2> SUFFICES ASSUME NEW x \in Q PROVE x \in R
    OBVIOUS
  <2>1. PICK j \in 1..Len(queue) : queue[j] = x
    BY <1>7
  <2>2. j - 1 \in 0..N
    BY <1>1, <1>2, <1>8
  <2>3. queue[j] \in Within(j - 1)
    BY DEF Near
  <2>4. Within(j - 1) \subseteq Within(N)
    <3> HIDE DEF N
    <3>1. QED BY <1>1, <1>2, <2>2, WithinFacts
  <2>5. QED BY <1>4, <2>1, <2>3, <2>4
<1>10. Len(queue) <= Cardinality(R)
  <2> HIDE DEF R, Q
  <2>1. Cardinality(Q) <= Cardinality(R)
    BY <1>8, <1>9, FS_Subset
  <2>2. QED BY <1>3, <2>1
<1>11. ASSUME Len(queue) < siteSize PROVE Cardinality(R) <= Len(queue)
  <2>1. ASSUME NEW n \in Q PROVE Range(gr.children[n]) \subseteq Q
    <3>1. PICK i \in 1..Len(queue) : queue[i] = n
      BY <1>7
    <3>2. Handled(i) = Len(gr.children[n])
      BY <1>1, <3>1 DEF Handled
    <3>3. \A j \in 1..Len(gr.children[n]) : gr.children[n][j] \in Q
      BY <1>1, <1>11, <3>1, <3>2 DEF Inv, HandledIsQueued
    <3>4. gr.children[n] \in Seq(Nodes)
      BY <1>1, <1>6
    <3>5. QED BY <3>3, <3>4, RangeFacts
  <2>2. Successors(gr, Q) \subseteq Q
    BY <2>1 DEF Successors
  <2>3. queue[1] \in Q
    BY <1>1, <1>7
  <2>4. R \subseteq Q
    <3> DEFINE r == queue[1]
    <3>1. r \in NodesOf(gr) /\ r \in Q
      BY <1>1, <2>3
    <3> HIDE DEF r, Q, N
    <3>2. Ball(gr, r, N) \subseteq Q
      BY <1>1, <1>2, <2>2, <3>1, ReachesNoMore
    <3>3. QED BY <3>2 DEF Reachable, r, N
  <2> HIDE DEF R, Q
  <2>5. Cardinality(R) <= Cardinality(Q)
    BY <1>3, <2>4, FS_Subset
  <2>6. QED BY <1>3, <2>5
<1> HIDE DEF R
<1>12. QED BY <1>1, <1>8, <1>10, <1>11 DEF R

LEMMA ReturnSite == ASSUME Inv, SiteInv, Return PROVE Returned'
<1>1. /\ pc = "walk" /\ s = Len(queue) + 1 /\ UNCHANGED <<gr, queue, info>>
      /\ ~info => (ng' = NULL <=> Len(queue) # siteSize)
  BY ReturnContext
<1>2. /\ Len(queue) \in 1..siteSize /\ siteSize \in Nat /\ queue[1] \in Nodes
      /\ LinksInside(gr)
  BY <1>1, WalkContext
<1>3. queue = QueueAfter(Len(queue))
  BY <1>1, <1>2 DEF SiteInv, QueueSoFar
<1>4. queue = SiteQueue(gr, queue[1])
  <2> DEFINE r == queue[1]
             n == Len(queue)
             after == BreadthFirst(siteSize, gr, r)
  <2>1. n \in 0..siteSize /\ n >= Len(after[n]) /\ r \in NodesOf(gr)
    BY <1>2, <1>3 DEF QueueAfter
  <2> HIDE DEF r, n
  <2>2. after[siteSize] = after[n]
    BY <1>2, <2>1, BreadthFirstEnds
  <2>3. SiteQueue(gr, r) = after[siteSize]
    BY SiteQueueIs
  <2>4. QED BY <1>3, <2>2, <2>3 DEF QueueAfter, r, n
<1>5. Len(queue) # siteSize <=> Cardinality(Reachable(gr, queue[1])) < siteSize
  BY ReachCount DEF SiteInv
<1>6. QED BY <1>1, <1>4, <1>5 DEF Returned

-----------------------------------------------------------------------------
LEMMA InitSite == Init => SiteInv
<1> SUFFICES ASSUME Init PROVE SiteInv
  OBVIOUS
<1>1. pc = "idle" /\ queue = <<>> /\ Len(queue) = 0
  BY DEF Init
<1>2. QED BY <1>1 DEF SiteInv, QueueSoFar, Levels, Near, HitsSoFar, Returned

LEMMA NextSite == ASSUME Inv, SiteInv, [Next]_vars PROVE SiteInv'
<1>1. CASE VisitChild
  <2>1. pc' = "walk"
    BY <1>1, VisitContext DEF Inv
  <2>2. Returned'
    BY <2>1 DEF Returned
  <2>3. QED BY <1>1, <2>2, VisitSoFar, VisitLevels, VisitNear, VisitHits DEF SiteInv
<1>2. CASE CloseNode
  <2>1. pc' = "walk" /\ UNCHANGED <<gr, queue, info, hits>>
    BY <1>2 DEF CloseNode, InLoop
  <2>2. Returned' /\ HitsSoFar' /\ Near' /\ Levels'
    BY <2>1 DEF SiteInv, Returned, HitsSoFar, Near, Levels, Level, InOrder, Within
  <2>3. QED BY <1>2, <2>2, CloseSoFar DEF SiteInv
<1>3. CASE Return
  <2>1. pc' = "idle" /\ UNCHANGED <<gr, queue, info, hits>>
    BY <1>3, ReturnContext
  <2>2. QueueSoFar' /\ HitsSoFar' /\ Near' /\ Levels'
    BY <2>1 DEF SiteInv, QueueSoFar, HitsSoFar, Near, Levels, Level, InOrder, Within
  <2>3. QED BY <1>3, <2>2, ReturnSite DEF SiteInv
<1>4. ASSUME NEW root \in Nodes, NEW isInfo \in BOOLEAN, Call(root, isInfo)
      PROVE  SiteInv'
  <2>1. /\ pc' = "walk" /\ queue' = <<root>> /\ gr' = gr
        /\ hits' = [n \in Nodes |-> 0]
    BY <1>4 DEF Call
  <2>2. Len(queue') = 1 /\ ~ \E i \in 2..1 : TRUE
    BY <2>1
  <2>3. Returned' /\ HitsSoFar'
    BY <2>1, <2>2 DEF Returned, HitsSoFar
  <2>4. QED BY <1>4, <2>3, CallSoFar, CallLevels DEF SiteInv
<1>5. CASE UNCHANGED vars
  <2>1. UNCHANGED <<gr, pc, info, queue, s, a, hits, ng>>
    BY <1>5 DEF vars
  <2>2. QueueSoFar' /\ Returned'
    BY <2>1 DEF SiteInv, QueueSoFar, QueueAfter, Returned
  <2>3. HitsSoFar' /\ Near' /\ Levels'
    BY <2>1 DEF SiteInv, HitsSoFar, Near, Levels, Level, InOrder, Within
  <2>4. QED BY <2>2, <2>3 DEF SiteInv
<1>6. QED BY <1>1, <1>2, <1>3, <1>4, <1>5 DEF Next, Step

(***************************************************************************)
(* What a call returns is the site of its root in the graph, whatever was  *)
(* called before on the graph: the nearest nodes, in the order of the      *)
(* links; NULL exactly when the root reaches fewer than siteSize nodes;    *)
(* and BFSInfo counts each node of the site but the root once.             *)
(***************************************************************************)
THEOREM ResultCorrect == Spec => []ResultIsSite
<1>1. Inv /\ SiteInv => ResultIsSite
  <2> SUFFICES ASSUME Inv, SiteInv, pc = "idle", queue # <<>> PROVE ResultIsSite
    BY DEF ResultIsSite, SiteIsNearest
  <2>1. SiteIsNearest
    BY DEF SiteInv, Levels, Level, Within, SiteIsNearest
  <2>2. queue \in Seq(Nodes)
    BY DEF Inv, TypeOK
  <2>3. \A n : n \in Range(Tail(queue)) <=> \E i \in 2..Len(queue) : queue[i] = n
    <3>1. /\ Tail(queue) \in Seq(Nodes) /\ Len(Tail(queue)) = Len(queue) - 1
          /\ Len(queue) \in Nat
          /\ \A i \in 1..(Len(queue) - 1) : Tail(queue)[i] = queue[i + 1]
      BY <2>2, HeadTailProperties, LenProperties
    <3>2. \A n : n \in Range(Tail(queue)) <=>
                    \E i \in 1..(Len(queue) - 1) : Tail(queue)[i] = n
      BY <3>1, RangeFacts
    <3>3. /\ \A i \in 1..(Len(queue) - 1) : i + 1 \in 2..Len(queue)
          /\ \A i \in 2..Len(queue) : i - 1 \in 1..(Len(queue) - 1) /\ (i - 1) + 1 = i
      BY <3>1
    <3>4. QED BY <3>1, <3>2, <3>3
  <2>4. info => \A n \in Nodes : hits[n] = IF n \in Range(Tail(queue)) THEN 1 ELSE 0
    BY <2>3 DEF SiteInv, HitsSoFar
  <2>5. QED BY <2>1, <2>4 DEF SiteInv, Returned, ResultIsSite
<1>2. Init => SiteInv
  BY InitSite
<1>3. Inv /\ SiteInv /\ [Next]_vars => SiteInv'
  BY NextSite
<1>4. QED BY <1>1, <1>2, <1>3, Invariance, PTL DEF Spec

-----------------------------------------------------------------------------
(***************************************************************************)
(* BFS2.  The queue of BFS after the first f nodes were handled is         *)
(* Queued(f); the track is that, and the children of node f + 1 handled so *)
(* far.  However often the walk has started over, the marks tell which     *)
(* node comes next.                                                        *)
(***************************************************************************)
Queued(f) == BreadthFirst(siteSize, g, vroot)[f]

OpenedTo(f) ==
    \A p \in 1..Len(nodeTrack) :
        exploredOf[side][nodeTrack[p]] = 2 <=> p <= (IF kChild > 1 THEN f + 1 ELSE f)

HandledTo(f) ==
    IF kChild = 1
    THEN iTrack <= f + 1 /\ nodeTrack = Queued(f)
    ELSE /\ iTrack = f + 1 /\ iTrack <= Len(Queued(f)) /\ node = Queued(f)[iTrack]
         /\ nodeTrack = Taken(siteSize, Queued(f), SubSeq(g.children[node], 1, kChild - 1))

TrackPosition ==
    isoPc = "walk" =>
        /\ vroot \in NodesOf(g)
        /\ Len(nodeTrack) \in 1..siteSize
        /\ nnTmax \in 1..Len(nodeTrack) /\ iTrack \in 1..(nnTmax + 1)
        /\ kChild \in Nat \ {0}
        /\ kChild > 1 => iTrack <= nnTmax /\ kChild <= Len(g.children[node]) + 1
        /\ IsChild <=> Len(nodeTrack) > nnTmax

RootPosition == vroot >= 1

TrackSoFar == isoPc = "walk" => \E f \in 0..nnTmax : OpenedTo(f) /\ HandledTo(f)

MarkedIsTracked ==
    isoPc = "walk" =>
        /\ nodeTrack \in Seq(NodesOf(g))
        /\ \A x \in NodesOf(g) : exploredOf[side][x] # 0 <=> x \in Range(nodeTrack)
        /\ \A p, q \in 1..Len(nodeTrack) : nodeTrack[p] = nodeTrack[q] => p = q

SideShapes == /\ DOMAIN exploredOf = Sides /\ DOMAIN mats = Sides
              /\ \A x \in Sides : mats[x] \in Seq(CharMatrices \cup {NoMatrix})

TrackInv == IsoTypeOK /\ SideShapes /\ RootPosition /\ TrackPosition /\ MarkedIsTracked /\ TrackSoFar

-----------------------------------------------------------------------------
LEMMA SideGraph ==
    ASSUME NEW in \in Inputs, NEW x \in Sides
    PROVE  /\ LinksInside(in[x]) /\ IsGraph(in[x])
           /\ NodesOf(in[x]) = 1..Len(in[x].children) /\ Len(in[x].children) \in Nat
           /\ \A n \in NodesOf(in[x]) : in[x].children[n] \in Seq(NodesOf(in[x]))
           /\ in[x].symb \in [NodesOf(in[x]) -> Nat]
<1>1. IsGraph(in[x])
  BY IsoOnlyAssumption DEF Sides
<1> DEFINE h == in[x]
<1>2. h.children \in Seq(Seq(NodesOf(h))) /\ h.symb \in [NodesOf(h) -> Nat]
  BY <1>1 DEF IsGraph
<1> HIDE DEF h
<1>3. NodesOf(h) = 1..Len(h.children) /\ Len(h.children) \in Nat
  BY <1>2, LenProperties DEF NodesOf
<1>4. \A n \in NodesOf(h) : h.children[n] \in Seq(NodesOf(h))
  BY <1>2, <1>3, ElementOfSeq
<1>5. QED BY <1>1, <1>2, <1>3, <1>4 DEF h, LinksInside

LEMMA GraphOfSide ==
    ASSUME IsoTypeOK
    PROVE  /\ LinksInside(g) /\ NodesOf(g) = 1..Len(g.children) /\ Len(g.children) \in Nat
           /\ \A n \in NodesOf(g) : g.children[n] \in Seq(NodesOf(g))
           /\ g.symb \in [NodesOf(g) -> Nat]
           /\ NodesOf(g) \subseteq NodesOf(input["P"]) \cup NodesOf(input["T"])
           /\ exploredOf[side] \in [NodesOf(g) -> 0..2]
           /\ siteSize \in Nat \ {0}
<1>1. input \in Inputs /\ side \in Sides /\ side \in {"P", "T"}
  BY DEF IsoTypeOK, Sides
<1>2. exploredOf[side] \in [NodesOf(g) -> 0..2]
  BY <1>1 DEF IsoTypeOK, g
<1>3. QED BY <1>1, <1>2, SideGraph, SiteAssumption DEF g

LEMMA QueuedFacts ==
    ASSUME IsoTypeOK, vroot \in NodesOf(g)
    PROVE  /\ Queued(0) = <<vroot>>
           /\ \A f \in 0..siteSize : Queued(f) \in Seq(NodesOf(g))
           /\ \A f \in 1..siteSize : Queued(f) = Widened(siteSize, g, f, Queued(f - 1))
<1>1. LinksInside(g) /\ siteSize \in Nat
  BY GraphOfSide
<1> DEFINE after == BreadthFirst(siteSize, g, vroot)
<1>2. WidensAlong(after, siteSize, g, vroot) /\ \A f \in 0..siteSize : after[f] \in Seq(NodesOf(g))
  BY <1>1, BreadthFirstFacts
<1>3. QED BY <1>2 DEF WidensAlong, Queued

LEMMA IsoInitTrack == IsoInit => TrackInv
<1> SUFFICES ASSUME IsoInit PROVE TrackInv
  OBVIOUS
<1>1. /\ input \in Inputs /\ isoPc = "call" /\ side = "P" /\ nodeTrack = <<>>
      /\ mats = [x \in Sides |-> <<>>] /\ es = <<>>
      /\ exploredOf = [x \in Sides |-> [n \in NodesOf(input[x]) |-> 0]]
  BY DEF IsoInit
<1>2. \A x \in Sides : exploredOf[x] \in [NodesOf(input[x]) -> 0..2]
  BY <1>1
<1>3. siteSize \in Nat
  BY SiteAssumption
<1>4. nodeTrack \in Seq(NodesOf(input["P"]) \cup NodesOf(input["T"])) /\ Len(nodeTrack) <= siteSize
  BY <1>1, <1>3
<1>5. \A x \in Sides : mats[x] = <<>>
  BY <1>1
<1>6. SideShapes
  BY <1>1, <1>5 DEF SideShapes
<1>7. IsoTypeOK
  <2>1. es \in Seq(Nat \X Nat) /\ \A x \in Sides : DOMAIN mats[x] = {}
    BY <1>1, <1>5
  <2>2. side \in Sides /\ vroot \in Nat /\ iTrack \in Nat /\ nnTmax \in Nat /\ kChild \in Nat
        /\ IsChild \in BOOLEAN /\ nSgraphP \in Nat /\ isoTotal \in Nat
        /\ optionCheckSymb \in BOOLEAN
    BY DEF IsoInit, Sides
  <2>3. QED BY <1>1, <1>2, <1>4, <2>1, <2>2 DEF IsoTypeOK
<1>8. RootPosition
  BY DEF IsoInit, RootPosition
<1>9. QED BY <1>1, <1>6, <1>7, <1>8 DEF TrackInv, TrackPosition, MarkedIsTracked, TrackSoFar

(***************************************************************************)
(* A new call.                                                             *)
(***************************************************************************)
LEMMA BFS2Track == ASSUME TrackInv, BFS2 PROVE TrackInv'
<1>1. /\ isoPc' = "walk" /\ nodeTrack' = <<vroot>> /\ iTrack' = 1 /\ nnTmax' = 1
      /\ kChild' = 1 /\ IsChild' = FALSE
      /\ UNCHANGED <<input, optionCheckSymb, side, vroot, mats, nSgraphP, isoTotal, es>>
      /\ exploredOf' = [exploredOf EXCEPT ![side] = [Unmarked EXCEPT ![vroot] = 1]]
  BY DEF BFS2
<1>2. IsoTypeOK /\ SideShapes /\ side \in Sides
  BY DEF TrackInv, IsoTypeOK
<1>3. vroot \in NodesOf(g)
  <2>1. vroot \in Nat
    BY <1>2 DEF IsoTypeOK
  <2>2. vroot <= Len(g.children)
    BY DEF BFS2
  <2>3. vroot >= 1
    BY <1>2 DEF TrackInv, RootPosition
  <2>4. QED BY <1>2, <2>1, <2>2, <2>3, GraphOfSide
<1>4. g' = g
  BY <1>1 DEF g
<1> DEFINE marks == [Unmarked EXCEPT ![vroot] = 1]
<1>5. /\ marks \in [NodesOf(g) -> 0..2] /\ marks[vroot] = 1
      /\ \A x \in NodesOf(g) : x # vroot => marks[x] = 0
  BY <1>3 DEF Unmarked
<1>6. exploredOf'[side] = marks /\ DOMAIN exploredOf' = Sides
      /\ \A x \in Sides : x # side => exploredOf'[x] = exploredOf[x]
  BY <1>1, <1>2 DEF SideShapes
<1> HIDE DEF marks
<1>7. nodeTrack' \in Seq(NodesOf(g)) /\ Len(nodeTrack') = 1 /\ nodeTrack'[1] = vroot
      /\ Range(nodeTrack') = {vroot} /\ siteSize \in Nat \ {0}
  BY <1>1, <1>2, <1>3, GraphOfSide DEF Range
<1>8. IsoTypeOK'
  <2>1. \A x \in Sides : exploredOf'[x] \in [NodesOf(input'[x]) -> 0..2]
    <3>1. marks \in [NodesOf(input[side]) -> 0..2]
      BY <1>5 DEF g
    <3>2. QED BY <3>1, <1>1, <1>2, <1>6 DEF IsoTypeOK
  <2>2. nodeTrack' \in Seq(NodesOf(input["P"]) \cup NodesOf(input["T"]))
    BY <1>2, <1>7, <1>3, GraphOfSide, <1>1
  <2>3. Len(nodeTrack') <= siteSize
    BY <1>7
  <2>4. QED BY <1>1, <1>2, <2>1, <2>2, <2>3 DEF IsoTypeOK
<1>9. SideShapes'
  BY <1>1, <1>2, <1>6 DEF SideShapes
<1>10. TrackPosition'
  BY <1>1, <1>3, <1>4, <1>7 DEF TrackPosition
<1>11. MarkedIsTracked'
  <2>1. \A x \in NodesOf(g) : exploredOf'[side][x] # 0 <=> x \in Range(nodeTrack')
    BY <1>5, <1>6, <1>7
  <2>2. \A p, q \in 1..Len(nodeTrack') : nodeTrack'[p] = nodeTrack'[q] => p = q
    BY <1>7
  <2>3. QED BY <1>1, <1>4, <1>7, <2>1, <2>2 DEF MarkedIsTracked
<1>12. TrackSoFar'
  <2>1. Queued(0)' = <<vroot>>
    BY <1>1, <1>2, <1>3, <1>4, QueuedFacts DEF Queued
  <2>2. HandledTo(0)'
    BY <1>1, <2>1 DEF HandledTo
  <2>3. OpenedTo(0)'
    BY <1>1, <1>5, <1>6, <1>7 DEF OpenedTo
  <2>4. 0 \in 0..nnTmax'
    BY <1>1
  <2>5. QED BY <2>2, <2>3, <2>4 DEF TrackSoFar
<1>13. RootPosition'
  BY <1>1, <1>4 DEF RootPosition, TrackInv
<1>14. QED BY <1>8, <1>9, <1>10, <1>11, <1>12, <1>13 DEF TrackInv

(***************************************************************************)
(* The walk.                                                               *)
(***************************************************************************)
LEMMA WalkFacts ==
    ASSUME TrackInv, isoPc = "walk"
    PROVE  /\ IsoTypeOK /\ side \in Sides /\ DOMAIN exploredOf = Sides
           /\ siteSize \in Nat \ {0} /\ vroot \in NodesOf(g)
           /\ nodeTrack \in Seq(NodesOf(g)) /\ Len(nodeTrack) \in 1..siteSize
           /\ \A p \in 1..Len(nodeTrack) : nodeTrack[p] \in NodesOf(g) /\ nodeTrack[p] \in Range(nodeTrack)
           /\ nnTmax \in 1..Len(nodeTrack) /\ iTrack \in 1..(nnTmax + 1)
           /\ kChild \in Nat \ {0}
           /\ \A p \in 1..Len(nodeTrack) : exploredOf[side][nodeTrack[p]] \in {1, 2}
           /\ exploredOf[side] \in [NodesOf(g) -> 0..2]
           /\ \A x \in NodesOf(g) : exploredOf[side][x] # 0 <=> x \in Range(nodeTrack)
<1>1. IsoTypeOK /\ side \in Sides /\ DOMAIN exploredOf = Sides
  BY DEF TrackInv, IsoTypeOK, SideShapes
<1>2. /\ vroot \in NodesOf(g) /\ Len(nodeTrack) \in 1..siteSize /\ nnTmax \in 1..Len(nodeTrack)
      /\ iTrack \in 1..(nnTmax + 1) /\ kChild \in Nat \ {0}
  BY SiteAssumption DEF TrackInv, TrackPosition
<1>3. /\ nodeTrack \in Seq(NodesOf(g))
      /\ \A x \in NodesOf(g) : exploredOf[side][x] # 0 <=> x \in Range(nodeTrack)
  BY DEF TrackInv, MarkedIsTracked
<1>4. \A p \in 1..Len(nodeTrack) : nodeTrack[p] \in NodesOf(g) /\ nodeTrack[p] \in Range(nodeTrack)
  BY <1>3, ElementOfSeq, RangeFacts
<1>5. exploredOf[side] \in [NodesOf(g) -> 0..2]
  BY <1>1, GraphOfSide
<1>6. \A p \in 1..Len(nodeTrack) : exploredOf[side][nodeTrack[p]] \in {1, 2}
  BY <1>3, <1>4, <1>5
<1>7. QED BY <1>1, <1>2, <1>3, <1>4, <1>5, <1>6, SiteAssumption

LEMMA LookContext ==
    ASSUME TrackInv, LookAtChild
    PROVE  /\ isoPc = "walk" /\ isoPc' = "walk" /\ g' = g
           /\ iTrack \in 1..nnTmax /\ iTrack \in 1..Len(nodeTrack) /\ node \in NodesOf(g)
           /\ g.children[node] \in Seq(NodesOf(g)) /\ kChild \in 1..Len(g.children[node])
           /\ g.children[node][kChild] \in NodesOf(g)
           /\ UNCHANGED <<input, optionCheckSymb, side, vroot, iTrack, nnTmax, mats, nSgraphP,
                          isoTotal, es>>
           /\ kChild' = kChild + 1
           /\ LET kid == g.children[node][kChild]
                  new == kid \notin Range(nodeTrack) /\ Len(nodeTrack) < siteSize
              IN  /\ nodeTrack' = Taking(siteSize, nodeTrack, kid)
                  /\ new => nodeTrack' = Append(nodeTrack, kid) /\ IsChild' = TRUE
                  /\ ~new => nodeTrack' = nodeTrack /\ IsChild' = IsChild
                  /\ DOMAIN exploredOf' = Sides
                  /\ \A x \in Sides : x # side => exploredOf'[x] = exploredOf[x]
                  /\ exploredOf'[side] \in [NodesOf(g) -> 0..2]
                  /\ \A x \in NodesOf(g) :
                        exploredOf'[side][x] = IF new /\ x = kid THEN 1
                                               ELSE IF x = node THEN 2 ELSE exploredOf[side][x]
<1>1. isoPc = "walk" /\ InLevel /\ Opened /\ kChild <= Len(g.children[node])
  BY DEF LookAtChild
<1>2. /\ isoPc' = "walk" /\ g' = g /\ kChild' = kChild + 1
      /\ UNCHANGED <<input, optionCheckSymb, side, vroot, iTrack, nnTmax, mats, nSgraphP,
                     isoTotal, es>>
  BY <1>1 DEF LookAtChild, g
<1>3. iTrack \in 1..nnTmax /\ iTrack \in 1..Len(nodeTrack)
  BY <1>1, WalkFacts DEF InLevel
<1>4. node \in NodesOf(g) /\ node \in Range(nodeTrack)
  BY <1>1, <1>3, WalkFacts DEF node
<1>5. g.children[node] \in Seq(NodesOf(g)) /\ kChild \in 1..Len(g.children[node])
  BY <1>1, <1>4, WalkFacts, GraphOfSide, LenProperties
<1>6. g.children[node][kChild] \in NodesOf(g)
  BY <1>5, ElementOfSeq
<1> DEFINE kid == g.children[node][kChild]
           marks == [exploredOf[side] EXCEPT ![node] = 2]
           new == kid \notin Range(nodeTrack) /\ Len(nodeTrack) < siteSize
<1>7. exploredOf[side] \in [NodesOf(g) -> 0..2] /\ DOMAIN exploredOf = Sides /\ side \in Sides
  BY <1>1, WalkFacts
<1>8. marks \in [NodesOf(g) -> 0..2]
      /\ \A x \in NodesOf(g) : marks[x] = IF x = node THEN 2 ELSE exploredOf[side][x]
  BY <1>4, <1>7
<1>9. (Room /\ marks[kid] = 0) <=> new
  <2>1. exploredOf[side][kid] # 0 <=> kid \in Range(nodeTrack)
    BY <1>1, <1>6, WalkFacts
  <2>2. QED BY <1>4, <1>6, <1>8, <2>1 DEF Room
<1>10. IF Room /\ marks[kid] = 0
       THEN /\ exploredOf' = [exploredOf EXCEPT ![side] = [marks EXCEPT ![kid] = 1]]
            /\ nodeTrack' = Append(nodeTrack, kid)
            /\ IsChild' = TRUE
       ELSE /\ exploredOf' = [exploredOf EXCEPT ![side] = marks]
            /\ UNCHANGED <<nodeTrack, IsChild>>
  BY DEF LookAtChild
<1> HIDE DEF marks, kid
<1>11. CASE new
  <2>1. nodeTrack' = Append(nodeTrack, kid) /\ IsChild' = TRUE
        /\ exploredOf' = [exploredOf EXCEPT ![side] = [marks EXCEPT ![kid] = 1]]
    BY <1>9, <1>10, <1>11
  <2>2. exploredOf'[side] = [marks EXCEPT ![kid] = 1] /\ DOMAIN exploredOf' = Sides
        /\ \A x \in Sides : x # side => exploredOf'[x] = exploredOf[x]
    BY <1>7, <2>1
  <2>3. [marks EXCEPT ![kid] = 1] \in [NodesOf(g) -> 0..2]
        /\ \A x \in NodesOf(g) : [marks EXCEPT ![kid] = 1][x] = IF x = kid THEN 1 ELSE marks[x]
    BY <1>6, <1>8 DEF kid
  <2>4. nodeTrack' = Taking(siteSize, nodeTrack, kid)
    <3>1. Len(nodeTrack) \in Nat /\ siteSize \in Nat
      BY <1>1, WalkFacts
    <3>2. QED BY <1>11, <2>1, <3>1 DEF Taking
  <2>5. QED BY <1>1, <1>2, <1>3, <1>4, <1>5, <1>6, <1>8, <1>11, <2>1, <2>2, <2>3, <2>4 DEF kid
<1>12. CASE ~new
  <2>1. nodeTrack' = nodeTrack /\ IsChild' = IsChild
        /\ exploredOf' = [exploredOf EXCEPT ![side] = marks]
    BY <1>9, <1>10, <1>12
  <2>2. exploredOf'[side] = marks /\ DOMAIN exploredOf' = Sides
        /\ \A x \in Sides : x # side => exploredOf'[x] = exploredOf[x]
    BY <1>7, <2>1
  <2>4. nodeTrack' = Taking(siteSize, nodeTrack, kid)
    <3>1. Len(nodeTrack) \in Nat /\ siteSize \in Nat
      BY <1>1, WalkFacts
    <3>2. QED BY <1>12, <2>1, <3>1 DEF Taking
  <2>5. QED BY <1>1, <1>2, <1>3, <1>4, <1>5, <1>6, <1>8, <1>12, <2>1, <2>2, <2>4 DEF kid
<1>13. QED BY <1>11, <1>12

LEMMA LookTrack == ASSUME TrackInv, LookAtChild PROVE TrackInv'
<1> DEFINE kid == g.children[node][kChild]
           new == kid \notin Range(nodeTrack) /\ Len(nodeTrack) < siteSize
           t == nodeTrack
           N == NodesOf(g)
<1>1. /\ isoPc = "walk" /\ isoPc' = "walk" /\ g' = g
      /\ iTrack \in 1..nnTmax /\ iTrack \in 1..Len(t) /\ node \in N
      /\ g.children[node] \in Seq(N) /\ kChild \in 1..Len(g.children[node])
      /\ kid \in N
      /\ UNCHANGED <<input, optionCheckSymb, side, vroot, iTrack, nnTmax, mats, nSgraphP,
                     isoTotal, es>>
      /\ kChild' = kChild + 1
      /\ nodeTrack' = Taking(siteSize, t, kid)
      /\ new => nodeTrack' = Append(t, kid) /\ IsChild' = TRUE
      /\ ~new => nodeTrack' = t /\ IsChild' = IsChild
      /\ DOMAIN exploredOf' = Sides
      /\ \A x \in Sides : x # side => exploredOf'[x] = exploredOf[x]
      /\ exploredOf'[side] \in [N -> 0..2]
  BY LookContext
<1>2. \A x \in N :
         exploredOf'[side][x] = IF new /\ x = kid THEN 1
                                ELSE IF x = node THEN 2 ELSE exploredOf[side][x]
  BY LookContext
<1>3. /\ IsoTypeOK /\ side \in Sides /\ siteSize \in Nat \ {0} /\ vroot \in N
      /\ t \in Seq(N) /\ Len(t) \in 1..siteSize
      /\ \A p \in 1..Len(t) : t[p] \in N /\ t[p] \in Range(t)
      /\ nnTmax \in 1..Len(t) /\ kChild \in Nat \ {0}
      /\ \A p \in 1..Len(t) : exploredOf[side][t[p]] \in {1, 2}
      /\ \A x \in N : exploredOf[side][x] # 0 <=> x \in Range(t)
  BY <1>1, WalkFacts
<1>4. /\ nodeTrack' \in Seq(N) /\ Len(nodeTrack') \in Len(t)..siteSize
      /\ \A p \in 1..Len(t) : nodeTrack'[p] = t[p]
      /\ new => Len(nodeTrack') = Len(t) + 1 /\ nodeTrack'[Len(t) + 1] = kid
                /\ Range(nodeTrack') = Range(t) \cup {kid}
      /\ ~new => nodeTrack' = t
  <2>1. CASE new
    <3>1. /\ Append(t, kid) \in Seq(N) /\ Len(Append(t, kid)) = Len(t) + 1
          /\ \A p \in 1..Len(t) : Append(t, kid)[p] = t[p]
          /\ Append(t, kid)[Len(t) + 1] = kid
          /\ Range(Append(t, kid)) = Range(t) \cup {kid}
      BY <1>1, <1>3, AppendProperties, RangeAppend
    <3>2. nodeTrack' = Append(t, kid) /\ Len(t) < siteSize
      BY <1>1, <2>1
    <3> HIDE DEF kid, t
    <3>3. QED BY <1>3, <2>1, <3>1, <3>2
  <2>2. CASE ~new
    BY <1>1, <1>3, <2>2
  <2>3. QED BY <2>1, <2>2
<1> HIDE DEF new
<1>5. IsoTypeOK'
  <2>1. \A x \in Sides : exploredOf'[x] \in [NodesOf(input'[x]) -> 0..2]
    BY <1>1, <1>3 DEF IsoTypeOK, g
  <2>2. nodeTrack' \in Seq(NodesOf(input["P"]) \cup NodesOf(input["T"]))
    <3>1. N \subseteq NodesOf(input["P"]) \cup NodesOf(input["T"])
      BY <1>3, GraphOfSide
    <3>2. QED BY <1>4, <3>1
  <2>3. IsChild' \in BOOLEAN
    BY <1>1, <1>3 DEF IsoTypeOK
  <2>4. Len(nodeTrack') <= siteSize
    BY <1>4
  <2>5. QED BY <1>1, <1>3, <2>1, <2>2, <2>3, <2>4 DEF IsoTypeOK
<1>6. SideShapes' /\ RootPosition'
  BY <1>1 DEF SideShapes, RootPosition, TrackInv
<1>7. node' = node
  BY <1>1, <1>4 DEF node
<1>8. TrackPosition'
  <2>1. IsChild <=> Len(t) > nnTmax
    BY <1>1 DEF TrackInv, TrackPosition
  <2>2. IsChild' <=> Len(nodeTrack') > nnTmax'
    <3>1. CASE new
      BY <1>1, <1>3, <1>4, <3>1
    <3>2. CASE ~new
      BY <1>1, <1>3, <1>4, <2>1, <3>2
    <3>3. QED BY <3>1, <3>2
  <2>3. Len(nodeTrack') \in 1..siteSize /\ nnTmax' \in 1..Len(nodeTrack')
        /\ iTrack' \in 1..(nnTmax' + 1) /\ iTrack' <= nnTmax'
    BY <1>1, <1>3, <1>4
  <2>4. kChild' \in Nat \ {0} /\ kChild' <= Len(g'.children[node']) + 1
    BY <1>1, <1>7, <1>3
  <2>5. vroot' \in NodesOf(g')
    BY <1>1, <1>3
  <2>6. QED BY <2>2, <2>3, <2>4, <2>5 DEF TrackPosition
<1>9. MarkedIsTracked'
  <2>1. \A x \in N : exploredOf'[side][x] # 0 <=> x \in Range(nodeTrack')
    <3>1. node \in Range(t)
      BY <1>1, <1>3 DEF node
    <3>2. QED BY <1>2, <1>3, <1>4, <3>1
  <2>2. \A p, q \in 1..Len(nodeTrack') : nodeTrack'[p] = nodeTrack'[q] => p = q
    <3>1. \A p, q \in 1..Len(t) : t[p] = t[q] => p = q
      BY <1>1 DEF TrackInv, MarkedIsTracked
    <3>2. CASE new
      <4>1. \A p \in 1..Len(t) : t[p] # kid
        BY <1>3, <3>2 DEF new
      <4>2. QED BY <1>3, <1>4, <3>1, <3>2, <4>1
    <3>3. QED BY <1>3, <1>4, <3>1, <3>2
  <2>3. nodeTrack' \in Seq(NodesOf(g'))
    BY <1>1, <1>4
  <2>4. QED BY <1>1, <2>1, <2>2, <2>3 DEF MarkedIsTracked
<1>10. PICK f \in 0..nnTmax : OpenedTo(f) /\ HandledTo(f)
  BY <1>1 DEF TrackInv, TrackSoFar
<1>11. \A h : Queued(h)' = Queued(h)
  BY <1>1 DEF Queued
<1>12. \A p, q \in 1..Len(t) : t[p] = t[q] => p = q
  BY <1>1 DEF TrackInv, MarkedIsTracked
<1>13. iTrack = f + 1 /\ iTrack <= Len(Queued(f)) /\ node = Queued(f)[iTrack]
       /\ t = Taken(siteSize, Queued(f), SubSeq(g.children[node], 1, kChild - 1))
       /\ Queued(f) \in Seq(N)
  <2>1. Queued(f) \in Seq(N)
    <3>1. f \in 0..siteSize
      BY <1>3
    <3>2. QED BY <1>3, <3>1, QueuedFacts
  <2>2. CASE kChild > 1
    BY <1>10, <2>1, <2>2, <1>3 DEF HandledTo
  <2>3. CASE kChild = 1
    <3>1. iTrack <= f + 1 /\ t = Queued(f)
      BY <1>10, <2>3 DEF HandledTo
    <3>2. exploredOf[side][t[iTrack]] = 1
      BY <2>3 DEF LookAtChild, Opened, node
    <3>3. ~(iTrack <= f)
      BY <1>1, <1>10, <2>3, <3>2 DEF OpenedTo
    <3>4. SubSeq(g.children[node], 1, kChild - 1) = <<>>
      BY <1>1, <2>3
    <3>5. Taken(siteSize, Queued(f), <<>>) = Queued(f)
      <4> HIDE DEF N
      <4>1. Queued(f) \in Seq(N) /\ g.children[node] \in Seq(N)
        BY <1>1, <2>1
      <4>2. QED BY <4>1, TakenFacts
    <3>6. iTrack = f + 1
      BY <1>1, <1>3, <3>1, <3>3
    <3>7. t = Taken(siteSize, Queued(f), SubSeq(g.children[node], 1, kChild - 1))
      <4> DEFINE done == SubSeq(g.children[node], 1, kChild - 1)
      <4>1. done = <<>>
        BY <3>4
      <4> HIDE DEF done, t
      <4>2. t = Taken(siteSize, Queued(f), done)
        BY <3>1, <3>5, <4>1
      <4>3. QED BY <4>2 DEF done
    <3>8. iTrack <= Len(Queued(f)) /\ node = Queued(f)[iTrack]
      BY <1>1, <3>1 DEF node
    <3>9. QED BY <2>1, <3>6, <3>7, <3>8
  <2>4. QED BY <1>3, <2>2, <2>3
<1>14. HandledTo(f)'
  <2>1. kChild - 1 \in 0..Len(g.children[node]) /\ kChild - 1 < Len(g.children[node])
        /\ (kChild - 1) + 1 = kChild
    BY <1>1
  <2>2. Taken(siteSize, Queued(f), SubSeq(g.children[node], 1, (kChild - 1) + 1))
          = Taking(siteSize, Taken(siteSize, Queued(f), SubSeq(g.children[node], 1, kChild - 1)),
                   g.children[node][(kChild - 1) + 1])
    <3> DEFINE kids == g.children[node]
               done == kChild - 1
    <3>1. Queued(f) \in Seq(N) /\ kids \in Seq(N) /\ done \in 0..Len(kids) /\ done < Len(kids)
      BY <1>1, <1>13, <2>1
    <3> HIDE DEF N, kids, done
    <3>2. Taken(siteSize, Queued(f), SubSeq(kids, 1, done + 1))
            = Taking(siteSize, Taken(siteSize, Queued(f), SubSeq(kids, 1, done)), kids[done + 1])
      BY <3>1, TakenNext
    <3>3. QED BY <3>2 DEF kids, done
  <2>3. nodeTrack' = Taken(siteSize, Queued(f), SubSeq(g.children[node], 1, kChild))
    BY <1>1, <1>13, <2>1, <2>2
  <2>4. kChild' # 1 /\ kChild' - 1 = kChild
    BY <1>1
  <2>5. QED BY <1>1, <1>7, <1>11, <1>13, <2>3, <2>4 DEF HandledTo
<1>15. OpenedTo(f)'
  <2>1. \A p \in 1..Len(t) : exploredOf[side][t[p]] = 2 <=> p <= IF kChild > 1 THEN f + 1 ELSE f
    BY <1>10 DEF OpenedTo
  <2>2. kChild' > 1
    BY <1>1
  <2>3. ASSUME NEW p \in 1..Len(nodeTrack')
        PROVE  exploredOf'[side][nodeTrack'[p]] = 2 <=> p <= f + 1
    <3>1. CASE p \in 1..Len(t)
      <4>1. nodeTrack'[p] = t[p] /\ t[p] \in N /\ (new => t[p] # kid)
        BY <1>3, <1>4, <3>1 DEF new
      <4>2. t[p] = node <=> p = f + 1
        BY <1>1, <1>12, <1>13, <3>1 DEF node
      <4>3. CASE p = f + 1
        BY <1>2, <4>1, <4>2, <4>3
      <4>4. CASE p # f + 1
        <5>1. exploredOf'[side][nodeTrack'[p]] = exploredOf[side][t[p]]
          BY <1>2, <4>1, <4>2, <4>4
        <5>2. exploredOf[side][t[p]] = 2 <=> p <= f + 1
          BY <2>1, <3>1, <4>4
        <5>3. QED BY <5>1, <5>2
      <4>5. QED BY <4>3, <4>4
    <3>2. CASE p \notin 1..Len(t)
      <4>1. new /\ p = Len(t) + 1 /\ nodeTrack'[p] = kid
        BY <1>3, <1>4, <3>2
      <4>2. exploredOf'[side][kid] = 1
        BY <1>1, <1>2, <4>1, SMTT(30)
      <4>3. ~(p <= f + 1)
        BY <1>1, <1>13, <1>3, <4>1
      <4>4. QED BY <4>1, <4>2, <4>3
    <3>3. QED BY <3>1, <3>2
  <2>4. QED BY <1>1, <2>2, <2>3 DEF OpenedTo
<1>16. TrackSoFar'
  BY <1>1, <1>14, <1>15 DEF TrackSoFar
<1>17. QED BY <1>5, <1>6, <1>8, <1>9, <1>16 DEF TrackInv

\* The types, when only the marks of the walk and its places change.
LEMMA WalkTypes ==
    ASSUME TrackInv, isoPc = "walk", isoPc' = "walk", exploredOf'[side] \in [NodesOf(g) -> 0..2],
           \A x \in Sides : x # side => exploredOf'[x] = exploredOf[x], DOMAIN exploredOf' = Sides,
           iTrack' \in Nat, nnTmax' \in Nat, kChild' \in Nat, IsChild' \in BOOLEAN,
           UNCHANGED <<input, optionCheckSymb, side, vroot, nodeTrack, mats, nSgraphP, isoTotal, es>>
    PROVE  IsoTypeOK' /\ SideShapes' /\ RootPosition'
<1>1. IsoTypeOK
  BY DEF TrackInv
<1>2. \A x \in Sides : exploredOf'[x] \in [NodesOf(input'[x]) -> 0..2]
  BY <1>1 DEF IsoTypeOK, g
<1>3. IsoTypeOK'
  BY <1>1, <1>2 DEF IsoTypeOK
<1>4. QED BY <1>3 DEF SideShapes, RootPosition, TrackInv

LEMMA NextInTrackTrack == ASSUME TrackInv, NextInTrack PROVE TrackInv'
<1> DEFINE t == nodeTrack
           N == NodesOf(g)
<1>1. /\ isoPc = "walk" /\ isoPc' = "walk" /\ InLevel /\ (Opened => kChild > Len(g.children[node]))
      /\ exploredOf' = IF Opened THEN [exploredOf EXCEPT ![side][node] = 2] ELSE exploredOf
      /\ iTrack' = iTrack + 1 /\ kChild' = 1
      /\ UNCHANGED <<input, optionCheckSymb, side, vroot, nodeTrack, nnTmax, IsChild, mats,
                     nSgraphP, isoTotal, es>>
  BY DEF NextInTrack
<1>2. g' = g
  BY <1>1 DEF g
<1>3. /\ IsoTypeOK /\ side \in Sides /\ DOMAIN exploredOf = Sides
      /\ siteSize \in Nat \ {0} /\ vroot \in N
      /\ t \in Seq(N) /\ Len(t) \in 1..siteSize
      /\ \A p \in 1..Len(t) : t[p] \in N /\ t[p] \in Range(t)
      /\ nnTmax \in 1..Len(t) /\ iTrack \in 1..(nnTmax + 1) /\ kChild \in Nat \ {0}
      /\ \A p \in 1..Len(t) : exploredOf[side][t[p]] \in {1, 2}
      /\ exploredOf[side] \in [N -> 0..2]
      /\ \A x \in N : exploredOf[side][x] # 0 <=> x \in Range(t)
  BY <1>1, WalkFacts
<1>4. iTrack \in 1..nnTmax /\ iTrack \in 1..Len(t)
  BY <1>1, <1>3 DEF InLevel
<1>5. /\ \A p, q \in 1..Len(t) : t[p] = t[q] => p = q
      /\ IsChild <=> Len(t) > nnTmax
      /\ kChild > 1 => kChild <= Len(g.children[node]) + 1
  BY <1>1 DEF TrackInv, MarkedIsTracked, TrackPosition
<1>6. node = t[iTrack] /\ node \in N /\ node \in Range(t)
  BY <1>3, <1>4 DEF node
<1>7. g.children[node] \in Seq(N) /\ Len(g.children[node]) \in Nat
  BY <1>3, <1>6, GraphOfSide, LenProperties
<1>8. PICK f \in 0..nnTmax : OpenedTo(f) /\ HandledTo(f)
  BY <1>1 DEF TrackInv, TrackSoFar
<1>9. f \in 0..siteSize /\ Queued(f) \in Seq(N) /\ \A h : Queued(h)' = Queued(h)
  <2>1. f \in 0..siteSize
    BY <1>3
  <2>2. QED BY <1>1, <1>2, <1>3, <2>1, QueuedFacts DEF Queued
<1>10. /\ DOMAIN exploredOf' = Sides
       /\ exploredOf'[side] \in [N -> 0..2]
       /\ \A x \in Sides : x # side => exploredOf'[x] = exploredOf[x]
       /\ \A x \in N : exploredOf'[side][x] = IF Opened /\ x = node THEN 2 ELSE exploredOf[side][x]
  <2>1. CASE Opened
    <3>1. exploredOf' = [exploredOf EXCEPT ![side][node] = 2]
      BY <1>1, <2>1
    <3>2. exploredOf'[side] = [exploredOf[side] EXCEPT ![node] = 2]
      BY <1>3, <3>1
    <3>3. QED BY <1>3, <1>6, <2>1, <3>1, <3>2
  <2>2. CASE ~Opened
    BY <1>1, <1>3, <2>2
  <2>3. QED BY <2>1, <2>2
<1>11. IsoTypeOK' /\ SideShapes' /\ RootPosition'
  <2>1. iTrack' \in Nat /\ nnTmax' \in Nat /\ kChild' \in Nat /\ IsChild' \in BOOLEAN
    BY <1>1, <1>3 DEF IsoTypeOK
  <2>2. QED BY <1>1, <1>10, <2>1, WalkTypes
<1>12. TrackPosition'
  <2>1. iTrack' \in 1..(nnTmax' + 1)
    BY <1>1, <1>3, <1>4
  <2>2. QED BY <1>1, <1>2, <1>3, <1>5, <2>1 DEF TrackPosition
<1>13. MarkedIsTracked'
  <2>1. \A x \in N : exploredOf'[side][x] # 0 <=> x \in Range(t)
    BY <1>3, <1>6, <1>10
  <2>2. QED BY <1>1, <1>2, <1>3, <1>5, <2>1 DEF MarkedIsTracked
<1>14. TrackSoFar'
  <2>1. CASE Opened
    <3>1. iTrack = f + 1 /\ iTrack <= Len(Queued(f)) /\ node = Queued(f)[iTrack]
          /\ t = Taken(siteSize, Queued(f), g.children[node])
      <4>1. CASE kChild > 1
        <5>1. kChild - 1 = Len(g.children[node])
          BY <1>1, <1>3, <1>5, <1>7, <2>1, <4>1
        <5>2. SubSeq(g.children[node], 1, kChild - 1) = g.children[node]
          BY <1>7, <5>1, SubSeqFull
        <5>3. /\ iTrack = f + 1 /\ iTrack <= Len(Queued(f)) /\ node = Queued(f)[iTrack]
              /\ t = Taken(siteSize, Queued(f), SubSeq(g.children[node], 1, kChild - 1))
          BY <1>8, <4>1 DEF HandledTo
        <5> DEFINE done == SubSeq(g.children[node], 1, kChild - 1)
        <5>4. done = g.children[node] /\ t = Taken(siteSize, Queued(f), done)
          BY <5>2, <5>3
        <5> HIDE DEF done, t
        <5>5. QED BY <5>3, <5>4
      <4>2. CASE kChild = 1
        <5>1. iTrack <= f + 1 /\ t = Queued(f)
          BY <1>8, <4>2 DEF HandledTo
        <5>2. exploredOf[side][t[iTrack]] = 1
          BY <2>1, <4>2 DEF Opened, node
        <5>3. iTrack = f + 1
          BY <1>3, <1>4, <1>8, <4>2, <5>1, <5>2 DEF OpenedTo
        <5>4. Len(g.children[node]) = 0
          BY <1>1, <1>7, <2>1, <4>2
        <5>5. g.children[node] = <<>>
          BY <1>7, <5>4, EmptySeq
        <5>6. Taken(siteSize, Queued(f), <<>>) = Queued(f)
          <6> HIDE DEF N
          <6>1. QED BY <1>7, <1>9, TakenFacts
        <5>7. QED BY <1>4, <5>1, <5>3, <5>5, <5>6 DEF node
      <4>3. QED BY <1>3, <4>1, <4>2
    <3>2. f + 1 \in 1..siteSize /\ f + 1 \in 0..nnTmax
      BY <1>3, <1>4, <3>1
    <3>3. Queued(f + 1) = t
      <4>1. Queued(f + 1) = Widened(siteSize, g, f + 1, Queued((f + 1) - 1))
        BY <1>3, <3>2, QueuedFacts
      <4>2. (f + 1) - 1 = f /\ ~(f + 1 > Len(Queued(f)))
        BY <1>9, <3>1, <3>2, LenProperties
      <4>3. QED BY <3>1, <4>1, <4>2 DEF Widened
    <3>4. HandledTo(f + 1)'
      BY <1>1, <1>9, <3>1, <3>3, <1>3 DEF HandledTo
    <3>5. OpenedTo(f + 1)'
      <4>1. ASSUME NEW p \in 1..Len(t) PROVE exploredOf'[side][t[p]] = 2 <=> p <= f + 1
        <5>1. t[p] \in N /\ (t[p] = node <=> p = f + 1)
          BY <1>3, <1>4, <1>5, <1>6, <3>1
        <5>2. exploredOf[side][t[p]] = 2 <=> p <= IF kChild > 1 THEN f + 1 ELSE f
          BY <1>8 DEF OpenedTo
        <5>3. QED BY <1>10, <2>1, <5>1, <5>2
      <4>2. QED BY <1>1, <4>1 DEF OpenedTo
    <3>6. QED BY <1>1, <3>2, <3>4, <3>5 DEF TrackSoFar
  <2>2. CASE ~Opened
    <3>1. kChild = 1 /\ exploredOf[side][t[iTrack]] = 2
      BY <1>3, <1>4, <2>2 DEF Opened, node
    <3>2. iTrack <= f
      BY <1>4, <1>8, <3>1 DEF OpenedTo
    <3>3. HandledTo(f)'
      <4>1. t = Queued(f)
        BY <1>8, <3>1 DEF HandledTo
      <4>2. QED BY <1>1, <1>3, <1>9, <3>2, <4>1 DEF HandledTo
    <3>4. OpenedTo(f)'
      <4>1. \A p \in 1..Len(t) : exploredOf'[side][t[p]] = exploredOf[side][t[p]]
        BY <1>3, <1>10, <2>2
      <4>2. \A p \in 1..Len(t) : exploredOf[side][t[p]] = 2 <=> p <= f
        BY <1>8, <3>1 DEF OpenedTo
      <4>3. QED BY <1>1, <4>1, <4>2 DEF OpenedTo
    <3>5. QED BY <1>1, <3>3, <3>4 DEF TrackSoFar
  <2>3. QED BY <2>1, <2>2
<1>15. QED BY <1>11, <1>12, <1>13, <1>14 DEF TrackInv

\* At the end of a level its nodes have all been handled, unless the track is
\* full.
LEMMA LevelEnds ==
    ASSUME TrackInv, isoPc = "walk", ~InLevel
    PROVE  /\ kChild = 1
           /\ \E f \in 0..nnTmax : /\ OpenedTo(f) /\ nodeTrack = Queued(f)
                                   /\ Len(nodeTrack) < siteSize => f = nnTmax
<1>1. /\ siteSize \in Nat \ {0} /\ Len(nodeTrack) \in 1..siteSize /\ nnTmax \in 1..Len(nodeTrack)
      /\ iTrack \in 1..(nnTmax + 1) /\ kChild \in Nat \ {0}
  BY WalkFacts
<1>2. kChild > 1 => iTrack <= nnTmax
  BY DEF TrackInv, TrackPosition
<1>3. kChild = 1
  BY <1>1, <1>2 DEF InLevel
<1>4. PICK f \in 0..nnTmax : OpenedTo(f) /\ HandledTo(f)
  BY DEF TrackInv, TrackSoFar
<1>5. nodeTrack = Queued(f) /\ iTrack <= f + 1
  BY <1>3, <1>4 DEF HandledTo
<1>6. Len(nodeTrack) < siteSize => f = nnTmax
  BY <1>1, <1>5 DEF InLevel
<1>7. QED BY <1>3, <1>4, <1>5, <1>6

LEMMA NextLevelTrack == ASSUME TrackInv, NextLevel PROVE TrackInv'
<1>1. /\ isoPc = "walk" /\ isoPc' = "walk" /\ ~InLevel /\ More
      /\ IsChild' = FALSE /\ nnTmax' = Len(nodeTrack) /\ iTrack' = 1 /\ kChild' = 1
      /\ UNCHANGED <<input, optionCheckSymb, side, vroot, exploredOf, nodeTrack, mats,
                     nSgraphP, isoTotal, es>>
  BY DEF NextLevel
<1>2. g' = g
  BY <1>1 DEF g
<1>3. /\ IsoTypeOK /\ side \in Sides /\ DOMAIN exploredOf = Sides
      /\ siteSize \in Nat \ {0} /\ vroot \in NodesOf(g)
      /\ Len(nodeTrack) \in 1..siteSize /\ nnTmax \in 1..Len(nodeTrack)
      /\ exploredOf[side] \in [NodesOf(g) -> 0..2]
  BY <1>1, WalkFacts
<1>4. IsoTypeOK' /\ SideShapes' /\ RootPosition'
  <2>1. iTrack' \in Nat /\ nnTmax' \in Nat /\ kChild' \in Nat
    BY <1>1, <1>3
  <2>2. IsChild' \in BOOLEAN
    BY <1>1
  <2>3. QED BY <1>1, <1>3, <2>1, <2>2, WalkTypes
<1>5. TrackPosition'
  BY <1>1, <1>2, <1>3 DEF TrackPosition
<1>6. MarkedIsTracked'
  BY <1>1, <1>2 DEF MarkedIsTracked, TrackInv
<1>7. PICK f \in 0..nnTmax : OpenedTo(f) /\ nodeTrack = Queued(f) /\ kChild = 1
  BY <1>1, LevelEnds
<1>8. HandledTo(f)' /\ OpenedTo(f)' /\ f \in 0..nnTmax'
  <2>1. Queued(f)' = Queued(f)
    BY <1>1, <1>2 DEF Queued
  <2>2. f \in 0..nnTmax' /\ 1 <= f + 1
    BY <1>1, <1>3
  <2>3. QED BY <1>1, <1>7, <2>1, <2>2 DEF HandledTo, OpenedTo
<1>9. TrackSoFar'
  BY <1>8 DEF TrackSoFar
<1>10. QED BY <1>4, <1>5, <1>6, <1>9 DEF TrackInv

LEMMA TrackIsSite == TrackInv => WalkIsSite
<1> SUFFICES ASSUME TrackInv, isoPc = "walk", ~InLevel, ~More PROVE nodeTrack = SiteQueue(g, vroot)
  BY DEF WalkIsSite
<1>1. /\ IsoTypeOK /\ siteSize \in Nat \ {0} /\ vroot \in NodesOf(g)
      /\ Len(nodeTrack) \in 1..siteSize /\ nnTmax \in 1..Len(nodeTrack)
  BY WalkFacts
<1>2. PICK f \in 0..nnTmax : nodeTrack = Queued(f) /\ (Len(nodeTrack) < siteSize => f = nnTmax)
  BY LevelEnds
<1>3. IsChild <=> Len(nodeTrack) > nnTmax
  BY DEF TrackInv, TrackPosition
<1>4. Len(Queued(f)) >= siteSize \/ f >= Len(Queued(f))
  BY <1>1, <1>2, <1>3 DEF More
<1>5. f \in 0..siteSize /\ LinksInside(g) /\ siteSize \in Nat
  BY <1>1, GraphOfSide
<1>6. Queued(siteSize) = Queued(f)
  BY <1>1, <1>4, <1>5, BreadthFirstEnds DEF Queued
<1>7. QED BY <1>2, <1>6, SiteQueueIs DEF Queued

-----------------------------------------------------------------------------
(***************************************************************************)
(* The matrices, and main.                                                 *)
(***************************************************************************)
SiteMatrix(x, r) ==
    LET q == SiteQueue(input[x], r)
    IN  IF Len(q) # siteSize THEN NoMatrix
        ELSE [u \in 1..siteSize |-> [v \in 1..siteSize |->
                 IF E(input[x], q[u], q[v]) THEN 1
                 ELSE IF u = v /\ optionCheckSymb THEN AsChar(input[x].symb[q[u]]) ELSE 0]]

Walking == isoPc \in {"call", "walk"}

MatricesDone(x) == IF ~Walking \/ (x = "P" /\ side = "T") THEN Len(input[x].children)
                   ELSE IF x = side THEN vroot - 1 ELSE 0

MatricesInv ==
    /\ ~Walking => side = "T"
    /\ vroot - 1 <= IF Walking THEN Len(g.children) ELSE Len(input["P"].children)
    /\ \A x \in Sides : /\ Len(mats[x]) = MatricesDone(x)
                        /\ \A r \in 1..Len(mats[x]) : mats[x][r] = SiteMatrix(x, r)

Same(r, t) == SiteMatrix("P", r) # NoMatrix /\ SiteMatrix("T", t) = SiteMatrix("P", r)

\* The roots of the pattern that main has compared.
Compared == IF Walking THEN {} ELSE 1..(vroot - 1)

FirstSame(r, t) == /\ t \in NodesOf(input["T"]) /\ Same(r, t)
                   /\ \A j \in 1..(t - 1) : ~Same(r, j)

ResultsSoFar ==
    /\ nSgraphP = Cardinality({r \in Compared : SiteMatrix("P", r) # NoMatrix})
    /\ isoTotal = Cardinality({r \in Compared : \E t \in NodesOf(input["T"]) : Same(r, t)})
    /\ \A r \in Compared : (\E t \in NodesOf(input["T"]) : Same(r, t)) =>
            \E x \in DOMAIN es : es[x][1] = r /\ FirstSame(r, es[x][2])

IsoInv == TrackInv /\ MatricesInv /\ ResultsSoFar

LEMMA SiteMatrixKept ==
    ASSUME UNCHANGED <<input, optionCheckSymb>>
    PROVE  /\ \A x, r : SiteMatrix(x, r)' = SiteMatrix(x, r)
           /\ \A r, t : Same(r, t)' = Same(r, t) /\ FirstSame(r, t)' = FirstSame(r, t)
<1>1. \A x, r : SiteMatrix(x, r)' = SiteMatrix(x, r)
  BY DEF SiteMatrix
<1>2. \A r, t : Same(r, t)' = Same(r, t)
  BY <1>1 DEF Same
<1>3. QED BY <1>1, <1>2 DEF FirstSame

LEMMA WalkKeepsResults ==
    ASSUME IsoInv, Walking, Walking', UNCHANGED <<input, optionCheckSymb, nSgraphP, isoTotal, es>>
    PROVE  ResultsSoFar'
<1>1. Compared = {} /\ Compared' = {}
  BY DEF Compared
<1>2. QED BY <1>1 DEF ResultsSoFar, IsoInv

LEMMA IsoInitInv == IsoInit => IsoInv
<1> SUFFICES ASSUME IsoInit PROVE IsoInv
  OBVIOUS
<1>1. TrackInv
  BY IsoInitTrack
<1>2. /\ isoPc = "call" /\ side = "P" /\ vroot = 1 /\ nSgraphP = 0 /\ isoTotal = 0 /\ es = <<>>
      /\ mats = [x \in Sides |-> <<>>] /\ input \in Inputs
  BY DEF IsoInit
<1>3. \A x \in Sides : mats[x] = <<>>
  BY <1>2
<1>4. Len(g.children) \in Nat
  BY <1>1, GraphOfSide DEF TrackInv
<1>5. MatricesInv
  <2>1. \A x \in Sides : Len(mats[x]) = 0 /\ MatricesDone(x) = 0
    BY <1>2, <1>3 DEF MatricesDone, Walking
  <2>2. QED BY <1>2, <1>4, <2>1 DEF MatricesInv, Walking
<1>6. ResultsSoFar
  <2>1. Compared = {}
    BY <1>2 DEF Compared, Walking
  <2>2. Cardinality({}) = 0
    BY FS_EmptySet
  <2>3. QED BY <1>2, <2>1, <2>2 DEF ResultsSoFar
<1>7. QED BY <1>1, <1>5, <1>6 DEF IsoInv

\* The steps of a walk leave the matrices and the results alone.
LEMMA StepOfWalk ==
    ASSUME IsoInv, TrackInv', Walking, Walking',
           UNCHANGED <<input, optionCheckSymb, side, vroot, mats, nSgraphP, isoTotal, es>>
    PROVE  IsoInv'
<1>1. g' = g
  BY DEF g
<1>2. \A x, r : SiteMatrix(x, r)' = SiteMatrix(x, r)
  BY SiteMatrixKept
<1>3. \A x : MatricesDone(x)' = MatricesDone(x)
  BY DEF MatricesDone
<1>4. MatricesInv'
  BY <1>1, <1>2, <1>3 DEF MatricesInv, IsoInv
<1>5. QED BY <1>4, WalkKeepsResults DEF IsoInv

LEMMA MatrixIs ==
    ASSUME TrackInv, isoPc = "walk", ~InLevel, ~More
    PROVE  /\ (IF Len(nodeTrack) # siteSize THEN NoMatrix ELSE Matrix) = SiteMatrix(side, vroot)
           /\ SiteMatrix(side, vroot) \in CharMatrices \cup {NoMatrix}
<1>1. nodeTrack = SiteQueue(g, vroot)
  BY TrackIsSite DEF WalkIsSite
<1>2. (IF Len(nodeTrack) # siteSize THEN NoMatrix ELSE Matrix) = SiteMatrix(side, vroot)
  BY <1>1 DEF SiteMatrix, Matrix, g
<1>3. ASSUME Len(nodeTrack) = siteSize PROVE Matrix \in CharMatrices
  <2>1. /\ siteSize \in Nat \ {0} /\ g.symb \in [NodesOf(g) -> Nat]
        /\ \A u \in 1..siteSize : nodeTrack[u] \in NodesOf(g)
    BY <1>3, WalkFacts, GraphOfSide
  <2>2. CharMod \in Nat /\ CharMod > 1
    BY SiteAssumption, IsoOnlyAssumption
  <2>3. \A u \in 1..siteSize : AsChar(g.symb[nodeTrack[u]]) \in 0..(CharMod - 1)
    <3>1. \A u \in 1..siteSize : g.symb[nodeTrack[u]] \in Nat
      BY <2>1
    <3>2. QED BY <2>2, <3>1 DEF AsChar
  <2>4. 0 \in 0..(CharMod - 1) /\ 1 \in 0..(CharMod - 1)
    BY <2>2
  <2> DEFINE value(u, v) == IF E(g, nodeTrack[u], nodeTrack[v]) THEN 1
                            ELSE IF u = v /\ optionCheckSymb THEN AsChar(g.symb[nodeTrack[u]])
                            ELSE 0
  <2>5. \A u, v \in 1..siteSize : value(u, v) \in 0..(CharMod - 1)
    BY <2>3, <2>4
  <2>6. Matrix = [u \in 1..siteSize |-> [v \in 1..siteSize |-> value(u, v)]]
    BY DEF Matrix
  <2> HIDE DEF value
  <2>7. QED BY <2>5, <2>6 DEF CharMatrices
<1>4. QED BY <1>2, <1>3

LEMMA ReturnMatrixInv == ASSUME IsoInv, ReturnMatrix PROVE IsoInv'
<1>1. /\ isoPc = "walk" /\ ~InLevel /\ ~More /\ isoPc' = "call" /\ vroot' = vroot + 1
      /\ UNCHANGED <<input, optionCheckSymb, side, exploredOf, nodeTrack, iTrack, nnTmax, kChild,
                     IsChild, nSgraphP, isoTotal, es>>
      /\ mats' = [mats EXCEPT ![side] = Append(@, IF Len(nodeTrack) # siteSize THEN NoMatrix
                                                  ELSE Matrix)]
  BY DEF ReturnMatrix, walkVars
<1>2. TrackInv /\ IsoTypeOK /\ SideShapes /\ side \in Sides /\ vroot \in Nat /\ g' = g
  BY <1>1 DEF IsoInv, TrackInv, IsoTypeOK, g
<1> DEFINE M == CharMatrices \cup {NoMatrix}
           last == SiteMatrix(side, vroot)
<1>3. mats' = [mats EXCEPT ![side] = Append(mats[side], last)] /\ last \in M
  BY <1>1, <1>2, MatrixIs
<1> HIDE DEF last, M
<1>4. /\ DOMAIN mats' = Sides /\ mats'[side] = Append(mats[side], last)
      /\ \A x \in Sides : x # side => mats'[x] = mats[x]
      /\ \A x \in Sides : mats[x] \in Seq(M)
  BY <1>2, <1>3 DEF SideShapes, M
<1>5. /\ mats'[side] \in Seq(M) /\ Len(mats'[side]) = Len(mats[side]) + 1
      /\ \A r \in 1..Len(mats[side]) : mats'[side][r] = mats[side][r]
      /\ mats'[side][Len(mats[side]) + 1] = last /\ Len(mats[side]) \in Nat
  BY <1>2, <1>3, <1>4, AppendProperties, LenProperties
<1>6. SideShapes'
  BY <1>1, <1>2, <1>4, <1>5 DEF SideShapes, M
<1>7. IsoTypeOK'
  <2>1. \A x \in Sides : \A r \in DOMAIN mats'[x] : mats'[x][r] = NoMatrix \/ mats'[x][r] \in CharMatrices
    <3>1. \A x \in Sides : mats'[x] \in Seq(M)
      BY <1>4, <1>5
    <3>2. \A x \in Sides : \A r \in DOMAIN mats'[x] : mats'[x][r] \in M
      BY <3>1, LenProperties, ElementOfSeq
    <3>3. QED BY <3>2 DEF M
  <2>2. QED BY <1>1, <1>2, <2>1 DEF IsoTypeOK
<1>8. RootPosition'
  BY <1>1, <1>2 DEF RootPosition, TrackInv
<1>9. TrackInv'
  BY <1>1, <1>6, <1>7, <1>8 DEF TrackInv, TrackPosition, MarkedIsTracked, TrackSoFar
<1>10. MatricesInv'
  <2>1. vroot \in NodesOf(g) /\ NodesOf(g) = 1..Len(g.children) /\ Len(g.children) \in Nat
    BY <1>1, <1>2, WalkFacts, GraphOfSide
  <2>2. Walking /\ Walking'
    BY <1>1 DEF Walking
  <2>3. \A x, r : SiteMatrix(x, r)' = SiteMatrix(x, r)
    BY <1>1, SiteMatrixKept
  <2>4. \A x \in Sides : /\ Len(mats[x]) = MatricesDone(x)
                         /\ \A r \in 1..Len(mats[x]) : mats[x][r] = SiteMatrix(x, r)
    BY DEF IsoInv, MatricesInv
  <2>5. MatricesDone(side) = vroot - 1
    BY <2>2, <1>2 DEF MatricesDone, Sides
  <2>6. MatricesDone(side)' = vroot
    BY <2>2, <1>1, <1>2 DEF MatricesDone, Sides
  <2>7. \A x \in Sides : x # side => MatricesDone(x)' = MatricesDone(x)
    BY <1>1, <2>2 DEF MatricesDone
  <2>8. Len(mats[side]) = vroot - 1 /\ Len(mats'[side]) = vroot
    BY <1>2, <1>5, <2>4, <2>5
  <2>9. \A r \in 1..Len(mats'[side]) : mats'[side][r] = SiteMatrix(side, r)
    BY <1>2, <1>5, <2>4, <2>8 DEF last
  <2>10. ASSUME NEW x \in Sides
         PROVE  /\ Len(mats'[x]) = MatricesDone(x)'
                /\ \A r \in 1..Len(mats'[x]) : mats'[x][r] = SiteMatrix(x, r)'
    <3>1. CASE x = side
      BY <1>1, <2>3, <2>6, <2>8, <2>9, <3>1
    <3>2. CASE x # side
      <4>1. mats'[x] = mats[x] /\ MatricesDone(x)' = MatricesDone(x)
        BY <1>4, <2>7, <3>2
      <4>2. QED BY <2>3, <2>4, <4>1
    <3>3. QED BY <3>1, <3>2
  <2>11. vroot' - 1 <= Len(g'.children)
    BY <1>1, <1>2, <2>1
  <2>12. QED BY <2>2, <2>10, <2>11 DEF MatricesInv
<1>11. QED BY <1>1, <1>9, <1>10, WalkKeepsResults DEF IsoInv, Walking

LEMMA NextSideInv == ASSUME IsoInv, NextSide PROVE IsoInv'
<1>1. /\ isoPc = "call" /\ vroot > Len(g.children) /\ vroot' = 1
      /\ IF side = "P" THEN side' = "T" /\ isoPc' = isoPc ELSE isoPc' = "compare" /\ side' = side
      /\ UNCHANGED <<input, optionCheckSymb, exploredOf, nodeTrack, iTrack, nnTmax, kChild, IsChild,
                     mats, nSgraphP, isoTotal, es>>
  BY DEF NextSide, walkVars
<1>2. /\ TrackInv /\ IsoTypeOK /\ SideShapes /\ MatricesInv /\ ResultsSoFar /\ RootPosition
      /\ side \in Sides /\ vroot \in Nat
  BY DEF IsoInv, TrackInv, IsoTypeOK
<1>3. isoPc' \in {"call", "compare"} /\ side' \in Sides
  BY <1>1, <1>2 DEF Sides
<1>4. IsoTypeOK'
  BY <1>1, <1>2, <1>3 DEF IsoTypeOK
<1>5. TrackInv'
  BY <1>1, <1>2, <1>3, <1>4 DEF TrackInv, SideShapes, RootPosition, TrackPosition, MarkedIsTracked,
     TrackSoFar
<1>6. /\ \A x, r : SiteMatrix(x, r)' = SiteMatrix(x, r)
      /\ \A r, t : Same(r, t)' = Same(r, t) /\ FirstSame(r, t)' = FirstSame(r, t)
  BY <1>1, SiteMatrixKept
<1>7. \A x \in Sides : Len(input[x].children) \in Nat
  BY <1>2, SideGraph DEF IsoTypeOK
<1>8. Len(g.children) = vroot - 1
  <2>1. vroot - 1 <= Len(g.children)
    BY <1>1, <1>2 DEF MatricesInv, Walking
  <2>2. Len(g.children) \in Nat
    BY <1>2, <1>7 DEF g
  <2>3. QED BY <1>1, <1>2, <2>1, <2>2
<1>9. ASSUME NEW x \in Sides PROVE MatricesDone(x)' = MatricesDone(x)
  <2>1. CASE side = "P"
    BY <1>1, <1>2, <1>8, <2>1 DEF MatricesDone, Walking, g, Sides
  <2>2. CASE side = "T"
    BY <1>1, <1>2, <1>8, <2>2 DEF MatricesDone, Walking, g, Sides
  <2>3. QED BY <1>2, <2>1, <2>2 DEF Sides
<1>10. MatricesInv'
  <2>1. ~Walking' => side' = "T"
    BY <1>1, <1>2 DEF Walking, Sides
  <2>2. \A x \in Sides : Len(input'[x].children) \in Nat
    BY <1>1, <1>7
  <2>3. Len(g'.children) \in Nat /\ Len(input'["P"].children) \in Nat
    BY <1>3, <2>2 DEF g, Sides
  <2>4. vroot' - 1 <= IF Walking' THEN Len(g'.children) ELSE Len(input'["P"].children)
    BY <1>1, <2>3
  <2>5. \A x \in Sides : /\ Len(mats'[x]) = MatricesDone(x)'
                         /\ \A r \in 1..Len(mats'[x]) : mats'[x][r] = SiteMatrix(x, r)'
    BY <1>1, <1>2, <1>6, <1>9 DEF MatricesInv
  <2>6. QED BY <2>1, <2>4, <2>5 DEF MatricesInv
<1>11. ResultsSoFar'
  <2>1. Compared = {} /\ Compared' = {}
    BY <1>1 DEF Compared, Walking
  <2>2. QED BY <1>1, <1>2, <2>1 DEF ResultsSoFar
<1>12. QED BY <1>5, <1>10, <1>11 DEF IsoInv

LEMMA EndInv == ASSUME IsoInv, End PROVE IsoInv'
<1>1. /\ isoPc = "compare" /\ isoPc' = "end" /\ vroot > Len(input["P"].children)
      /\ UNCHANGED <<input, optionCheckSymb, side, vroot, exploredOf, nodeTrack, iTrack, nnTmax,
                     kChild, IsChild, mats, nSgraphP, isoTotal, es>>
  BY DEF End, walkVars
<1>2. TrackInv /\ IsoTypeOK /\ MatricesInv /\ ResultsSoFar
  BY DEF IsoInv, TrackInv
<1>3. TrackInv'
  BY <1>1, <1>2 DEF TrackInv, IsoTypeOK, SideShapes, RootPosition, TrackPosition, MarkedIsTracked,
     TrackSoFar
<1>4. /\ \A x, r : SiteMatrix(x, r)' = SiteMatrix(x, r)
      /\ \A r, t : Same(r, t)' = Same(r, t) /\ FirstSame(r, t)' = FirstSame(r, t)
  BY <1>1, SiteMatrixKept
<1>5. ~Walking /\ ~Walking' /\ Compared' = Compared
  BY <1>1 DEF Walking, Compared
<1>6. \A x : MatricesDone(x)' = MatricesDone(x)
  BY <1>1, <1>5 DEF MatricesDone
<1>7. MatricesInv'
  BY <1>1, <1>2, <1>4, <1>5, <1>6 DEF MatricesInv
<1>8. ResultsSoFar'
  BY <1>1, <1>2, <1>4, <1>5 DEF ResultsSoFar
<1>9. QED BY <1>3, <1>7, <1>8 DEF IsoInv

-----------------------------------------------------------------------------
(***************************************************************************)
(* The comparison of one site of the pattern.                              *)
(***************************************************************************)
LEMMA FirstMatchIs ==
    ASSUME IsoInv, isoPc = "compare", vroot \in NodesOf(input["P"]), mats["P"][vroot] # NoMatrix
    PROVE  \/ FirstMatch = {} /\ \A t \in NodesOf(input["T"]) : ~Same(vroot, t)
           \/ \E t \in NodesOf(input["T"]) : FirstMatch = {t} /\ FirstSame(vroot, t)
<1>1. TrackInv /\ IsoTypeOK /\ MatricesInv /\ SideShapes
  BY DEF IsoInv, TrackInv
<1>2. /\ \A x \in Sides : /\ NodesOf(input[x]) = 1..Len(input[x].children)
                          /\ Len(input[x].children) \in Nat
  BY <1>1, SideGraph DEF IsoTypeOK
<1>3. /\ Len(mats["P"]) = Len(input["P"].children) /\ Len(mats["T"]) = Len(input["T"].children)
      /\ \A x \in Sides : \A r \in 1..Len(mats[x]) : mats[x][r] = SiteMatrix(x, r)
  BY <1>1 DEF MatricesInv, MatricesDone, Walking, Sides
<1>4. DOMAIN mats["T"] = NodesOf(input["T"]) /\ NodesOf(input["T"]) \subseteq Nat
  <2>1. mats["T"] \in Seq(CharMatrices \cup {NoMatrix})
    BY <1>1 DEF SideShapes, Sides
  <2>2. DOMAIN mats["T"] = 1..Len(mats["T"])
    BY <2>1, LenProperties
  <2>3. NodesOf(input["T"]) = 1..Len(input["T"].children)
    BY <1>2 DEF Sides
  <2>4. QED BY <1>3, <2>2, <2>3
<1>5. mats["P"][vroot] = SiteMatrix("P", vroot)
  BY <1>2, <1>3 DEF Sides
<1>6. \A t \in NodesOf(input["T"]) : mats["T"][t] = SiteMatrix("T", t)
  BY <1>2, <1>3 DEF Sides
<1>7. Matching = {t \in NodesOf(input["T"]) : Same(vroot, t)}
  BY <1>4, <1>5, <1>6 DEF Matching, Same
<1>8. CASE Matching = {}
  BY <1>7, <1>8 DEF FirstMatch
<1>9. CASE Matching # {}
  <2>1. Matching \subseteq Nat
    BY <1>4, <1>7
  <2> DEFINE t == Min(Matching)
  <2>2. t \in Matching /\ \A y \in Matching : t <= y
    BY <1>9, <2>1, LeastIsIn
  <2> HIDE DEF t
  <2>3. FirstMatch = {t}
    <3>1. \A j \in FirstMatch : j = t
      BY <2>1, <2>2 DEF FirstMatch
    <3>2. t \in FirstMatch
      BY <2>2 DEF FirstMatch
    <3>3. QED BY <3>1, <3>2
  <2>4. t \in NodesOf(input["T"]) /\ Same(vroot, t) /\ t \in Nat
    BY <1>7, <2>1, <2>2
  <2>5. ASSUME NEW j \in 1..(t - 1) PROVE ~Same(vroot, j)
    <3>1. j \in Nat /\ j < t
      BY <2>4
    <3>2. j \in NodesOf(input["T"])
      BY <1>2, <2>4, <2>5 DEF Sides
    <3>3. j \notin Matching
      BY <2>2, <2>4, <3>1
    <3>4. QED BY <1>7, <3>2, <3>3
  <2>6. QED BY <2>3, <2>4, <2>5 DEF FirstSame
<1>10. QED BY <1>8, <1>9

\* How main writes the first match out.
LEMMA OneMatchSeq ==
    /\ \A r : {<<r, j>> : j \in {}} = {}
    /\ SetToSeq({}) = <<>>
    /\ \A p : SetToSeq({p}) \in [1..1 -> {p}]
<1>1. \A r : {<<r, j>> : j \in {}} = {}
  OBVIOUS
<1>2. SetToSeq({}) = <<>>
  <2>1. Cardinality({}) = 0 /\ 1..0 = {}
    BY FS_EmptySet
  <2>2. <<>> \in [1..Cardinality({}) -> {}] /\ IsInjective(<<>>)
    BY <2>1 DEF IsInjective
  <2>3. SetToSeq({}) \in [1..Cardinality({}) -> {}]
    BY <2>2 DEF SetToSeq
  <2>4. SetToSeq({}) \in Seq({}) /\ Len(SetToSeq({})) = 0
    BY <2>1, <2>3
  <2>5. QED BY <2>4, EmptySeq
<1>3. ASSUME NEW p PROVE SetToSeq({p}) \in [1..1 -> {p}]
  <2>1. Cardinality({p}) = 1
    BY FS_Singleton
  <2> DEFINE f == [x \in 1..1 |-> p]
  <2>2. f \in [1..Cardinality({p}) -> {p}]
    BY <2>1
  <2>3. IsInjective(f)
    BY DEF IsInjective
  <2>4. SetToSeq({p}) \in [1..Cardinality({p}) -> {p}]
    BY <2>2, <2>3 DEF SetToSeq
  <2>5. QED BY <2>1, <2>4
<1>4. QED BY <1>1, <1>2, <1>3

\* One more number in a set of those up to k - 1.
LEMMA CountOneMore ==
    ASSUME NEW k \in Nat, k >= 1, NEW S, S \subseteq 1..(k - 1), NEW p \in BOOLEAN
    PROVE  LET T == IF p THEN S \cup {k} ELSE S
           IN  Cardinality(T) = Cardinality(S) + (IF p THEN 1 ELSE 0) /\ Cardinality(S) \in Nat
<1>1. IsFiniteSet(S)
  <2>1. IsFiniteSet(1..(k - 1))
    BY FS_Interval
  <2>2. QED BY <2>1, FS_Subset
<1>2. k \notin S /\ Cardinality(S) \in Nat
  BY <1>1, FS_CardinalityType
<1>3. Cardinality(S \cup {k}) = Cardinality(S) + 1
  BY <1>1, <1>2, FS_AddElement
<1>4. QED BY <1>2, <1>3

LEMMA CompareInv == ASSUME IsoInv, Compare PROVE IsoInv'
<1> DEFINE N == NodesOf(input["P"])
           NT == NodesOf(input["T"])
           Same1(r) == \E t \in NT : Same(r, t)
           Sited(r) == SiteMatrix("P", r) # NoMatrix
<1>1. /\ isoPc = "compare" /\ vroot <= Len(input["P"].children) /\ vroot' = vroot + 1
      /\ UNCHANGED <<input, optionCheckSymb, isoPc, side, exploredOf, nodeTrack, iTrack, nnTmax,
                     kChild, IsChild, mats>>
      /\ IF mats["P"][vroot] = NoMatrix
         THEN UNCHANGED <<nSgraphP, isoTotal, es>>
         ELSE /\ nSgraphP' = nSgraphP + 1
              /\ isoTotal' = isoTotal + Cardinality(FirstMatch)
              /\ es' = es \o SetToSeq({<<vroot, j>> : j \in FirstMatch})
  BY DEF Compare, walkVars
<1>2. /\ TrackInv /\ IsoTypeOK /\ SideShapes /\ MatricesInv /\ ResultsSoFar /\ RootPosition
      /\ input \in Inputs /\ vroot \in Nat /\ vroot >= 1 /\ nSgraphP \in Nat /\ isoTotal \in Nat
      /\ es \in Seq(Nat \X Nat) /\ side = "T"
  BY <1>1 DEF IsoInv, TrackInv, IsoTypeOK, RootPosition, MatricesInv, Walking
<1>3. /\ N = 1..Len(input["P"].children) /\ Len(input["P"].children) \in Nat /\ vroot \in N
      /\ NT = 1..Len(input["T"].children) /\ Len(input["T"].children) \in Nat
  BY <1>1, <1>2, SideGraph DEF Sides
<1>4. mats["P"][vroot] = SiteMatrix("P", vroot)
  <2>1. Len(mats["P"]) = Len(input["P"].children)
    BY <1>1, <1>2 DEF MatricesInv, MatricesDone, Walking, Sides
  <2>2. QED BY <1>2, <1>3, <2>1 DEF MatricesInv, Sides
<1>5. /\ \A x, r : SiteMatrix(x, r)' = SiteMatrix(x, r)
      /\ \A r, t : Same(r, t)' = Same(r, t) /\ FirstSame(r, t)' = FirstSame(r, t)
  BY <1>1, SiteMatrixKept
<1>6. MatricesInv'
  <2>1. ~Walking /\ ~Walking'
    BY <1>1 DEF Walking
  <2>2. \A x : MatricesDone(x)' = MatricesDone(x)
    BY <1>1, <2>1 DEF MatricesDone
  <2>3. vroot' - 1 <= Len(input'["P"].children)
    BY <1>1, <1>3
  <2>4. QED BY <1>1, <1>2, <1>5, <2>1, <2>2, <2>3 DEF MatricesInv
<1>7. Compared = 1..(vroot - 1) /\ Compared' = 1..vroot
  BY <1>1, <1>2 DEF Compared, Walking
<1>8. \A p : {r \in Compared' : p[r]} = IF p[vroot] THEN {r \in Compared : p[r]} \cup {vroot}
                                       ELSE {r \in Compared : p[r]}
  BY <1>2, <1>7
<1>9. /\ {r \in Compared' : Sited(r)} = IF Sited(vroot) THEN {r \in Compared : Sited(r)} \cup {vroot}
                                       ELSE {r \in Compared : Sited(r)}
      /\ {r \in Compared' : Same1(r)} = IF Same1(vroot) THEN {r \in Compared : Same1(r)} \cup {vroot}
                                       ELSE {r \in Compared : Same1(r)}
  BY <1>2, <1>7
<1>10. /\ Cardinality({r \in Compared' : Sited(r)})
             = Cardinality({r \in Compared : Sited(r)}) + (IF Sited(vroot) THEN 1 ELSE 0)
       /\ Cardinality({r \in Compared' : Same1(r)})
             = Cardinality({r \in Compared : Same1(r)}) + (IF Same1(vroot) THEN 1 ELSE 0)
  <2>1. {r \in Compared : Sited(r)} \subseteq 1..(vroot - 1) /\ Sited(vroot) \in BOOLEAN
    BY <1>7
  <2>2. {r \in Compared : Same1(r)} \subseteq 1..(vroot - 1) /\ Same1(vroot) \in BOOLEAN
    BY <1>7
  <2> DEFINE A == {r \in Compared : Sited(r)}
             B == {r \in Compared : Same1(r)}
             sited == Sited(vroot)
             b == Same1(vroot)
             Ap == {r \in Compared' : Sited(r)}
             Bp == {r \in Compared' : Same1(r)}
  <2>3. Ap = (IF sited THEN A \cup {vroot} ELSE A) /\ Bp = (IF b THEN B \cup {vroot} ELSE B)
    BY <1>9
  <2>4. A \subseteq 1..(vroot - 1) /\ B \subseteq 1..(vroot - 1) /\ sited \in BOOLEAN /\ b \in BOOLEAN
    BY <2>1, <2>2
  <2>5. Cardinality(Ap) = Cardinality(A) + (IF sited THEN 1 ELSE 0)
    <3> HIDE DEF A, sited, Ap
    <3>1. QED BY <1>2, <2>3, <2>4, CountOneMore
  <2>6. Cardinality(Bp) = Cardinality(B) + (IF b THEN 1 ELSE 0)
    <3> HIDE DEF B, b, Bp
    <3>1. QED BY <1>2, <2>3, <2>4, CountOneMore
  <2>7. QED BY <2>5, <2>6
<1>11. /\ nSgraphP = Cardinality({r \in Compared : Sited(r)})
       /\ isoTotal = Cardinality({r \in Compared : Same1(r)})
       /\ \A r \in Compared : Same1(r) => \E x \in DOMAIN es : es[x][1] = r /\ FirstSame(r, es[x][2])
  BY <1>2 DEF ResultsSoFar
<1>12. NT' = NT /\ \A r : Same1(r)' = Same1(r) /\ Sited(r)' = Sited(r)
  BY <1>1, <1>5
<1>13. SUFFICES ASSUME TRUE
                PROVE  /\ es' \in Seq(Nat \X Nat) /\ nSgraphP' \in Nat /\ isoTotal' \in Nat
                       /\ nSgraphP' = nSgraphP + (IF Sited(vroot) THEN 1 ELSE 0)
                       /\ isoTotal' = isoTotal + (IF Same1(vroot) THEN 1 ELSE 0)
                       /\ \A r \in Compared' : Same1(r) =>
                             \E x \in DOMAIN es' : es'[x][1] = r /\ FirstSame(r, es'[x][2])
  <2>1. IsoTypeOK'
    BY <1>1, <1>2, <1>13 DEF IsoTypeOK
  <2>2. TrackInv'
    BY <1>1, <1>2, <2>1 DEF TrackInv, SideShapes, RootPosition, TrackPosition, MarkedIsTracked,
       TrackSoFar
  <2>3. /\ nSgraphP' = Cardinality({r \in Compared' : Sited(r)})
        /\ isoTotal' = Cardinality({r \in Compared' : Same1(r)})
    BY <1>10, <1>11, <1>13
  <2>4. ResultsSoFar'
    <3>1. \A r : Same1(r)' <=> \E t \in NodesOf(input'["T"]) : Same(r, t)'
      OBVIOUS
    <3>2. QED BY <1>5, <1>12, <1>13, <2>3 DEF ResultsSoFar
  <2>5. QED BY <1>6, <2>2, <2>4 DEF IsoInv
<1>14. CASE ~Sited(vroot)
  <2>1. UNCHANGED <<nSgraphP, isoTotal, es>>
    BY <1>1, <1>4, <1>14
  <2>2. ~Same1(vroot)
    BY <1>14 DEF Same
  <2>3. \A r \in Compared' : Same1(r) => r \in Compared
    BY <1>2, <1>7, <2>2
  <2> HIDE DEF Sited, Same1
  <2>4. QED BY <1>2, <1>11, <1>14, <2>1, <2>2, <2>3
<1>15. CASE Sited(vroot)
  <2>1. /\ nSgraphP' = nSgraphP + 1
        /\ isoTotal' = isoTotal + Cardinality(FirstMatch)
        /\ es' = es \o SetToSeq({<<vroot, j>> : j \in FirstMatch})
    BY <1>1, <1>4, <1>15
  <2>2. \/ FirstMatch = {} /\ ~Same1(vroot)
        \/ \E t \in NT : FirstMatch = {t} /\ FirstSame(vroot, t) /\ Same1(vroot)
    BY <1>1, <1>2, <1>3, <1>4, <1>15, FirstMatchIs DEF IsoInv, FirstSame
  <2> HIDE DEF Sited, Same1
  <2>3. CASE FirstMatch = {} /\ ~Same1(vroot)
    <3>1. {<<vroot, j>> : j \in FirstMatch} = {}
      BY <2>3
    <3>2. es' = es \o <<>> /\ Cardinality(FirstMatch) = 0
      BY <2>1, <2>3, <3>1, OneMatchSeq, FS_EmptySet
    <3>3. es' = es
      BY <1>2, <3>2
    <3>4. \A r \in Compared' : Same1(r) => r \in Compared
      BY <1>2, <1>7, <2>3
    <3>5. nSgraphP' \in Nat /\ isoTotal' \in Nat /\ nSgraphP' = nSgraphP + 1 /\ isoTotal' = isoTotal
      BY <1>2, <2>1, <3>2
    <3>6. QED BY <1>2, <1>11, <1>15, <2>3, <3>3, <3>4, <3>5
  <2>4. ASSUME NEW t \in NT, FirstMatch = {t}, FirstSame(vroot, t), Same1(vroot)
        PROVE  /\ es' \in Seq(Nat \X Nat) /\ isoTotal' = isoTotal + 1
               /\ \A r \in Compared' : Same1(r) =>
                     \E x \in DOMAIN es' : es'[x][1] = r /\ FirstSame(r, es'[x][2])
    <3> DEFINE p == <<vroot, t>>
               line == SetToSeq({p})
    <3>1. {<<vroot, j>> : j \in FirstMatch} = {p}
      BY <2>4
    <3>2. line \in [1..1 -> {p}] /\ p \in Nat \X Nat
      <4>1. t \in Nat
        BY <1>3
      <4>2. p \in Nat \X Nat
        BY <1>2, <4>1
      <4>3. line \in [1..1 -> {p}]
        <5> HIDE DEF p
        <5>1. QED BY OneMatchSeq
      <4>4. QED BY <4>2, <4>3
    <3>3. es' = es \o line /\ Cardinality(FirstMatch) = 1
      BY <2>1, <2>4, <3>1, FS_Singleton
    <3> HIDE DEF line
    <3>4. line \in Seq(Nat \X Nat) /\ Len(line) = 1 /\ line[1] = p
      <4>1. line[1] = p /\ line \in [1..1 -> Nat \X Nat]
        BY <3>2
      <4>2. QED BY <4>1
    <3> HIDE DEF p
    <3>5. /\ es' \in Seq(Nat \X Nat) /\ Len(es') = Len(es) + 1 /\ Len(es) \in Nat
          /\ \A x \in 1..Len(es) : es'[x] = es[x]
          /\ es'[Len(es) + 1] = p
      <4> DEFINE S == Nat \X Nat
      <4>1. es \in Seq(S) /\ line \in Seq(S)
        BY <1>2, <3>4
      <4> HIDE DEF S
      <4>2. /\ es \o line \in Seq(S) /\ Len(es \o line) = Len(es) + Len(line) /\ Len(es) \in Nat
            /\ \A x \in 1..(Len(es) + Len(line)) :
                  (es \o line)[x] = IF x <= Len(es) THEN es[x] ELSE line[x - Len(es)]
        BY <4>1, ConcatProperties, LenProperties
      <4>3. Len(es) + 1 \in 1..(Len(es) + Len(line)) /\ (Len(es) + 1) - Len(es) = 1
        BY <3>4, <4>2
      <4>4. (es \o line)[Len(es) + 1] = p /\ \A x \in 1..Len(es) : (es \o line)[x] = es[x]
        BY <3>4, <4>2, <4>3
      <4>5. QED BY <3>3, <3>4, <4>2, <4>4 DEF S
    <3>6. DOMAIN es = 1..Len(es) /\ DOMAIN es' = 1..Len(es')
      BY <1>2, <3>5, LenProperties
    <3>7. ASSUME NEW r \in Compared', Same1(r)
          PROVE  \E x \in DOMAIN es' : es'[x][1] = r /\ FirstSame(r, es'[x][2])
      <4>1. CASE r = vroot
        <5>1. es'[Len(es) + 1][1] = r /\ es'[Len(es) + 1][2] = t /\ Len(es) + 1 \in DOMAIN es'
          BY <3>5, <3>6, <4>1 DEF p
        <5>2. QED BY <2>4, <4>1, <5>1
      <4>2. CASE r # vroot
        <5>1. r \in Compared
          BY <1>2, <1>7, <4>2
        <5>2. PICK x \in DOMAIN es : es[x][1] = r /\ FirstSame(r, es[x][2])
          BY <1>11, <3>7, <5>1
        <5>3. x \in DOMAIN es' /\ es'[x] = es[x]
          BY <3>5, <3>6
        <5>4. QED BY <5>2, <5>3
      <4>3. QED BY <4>1, <4>2
    <3>8. QED BY <3>3, <3>5, <3>7, <2>1
  <2>5. CASE \E t \in NT : FirstMatch = {t} /\ FirstSame(vroot, t) /\ Same1(vroot)
    <3>1. PICK t \in NT : FirstMatch = {t} /\ FirstSame(vroot, t) /\ Same1(vroot)
      BY <2>5
    <3>2. /\ es' \in Seq(Nat \X Nat) /\ isoTotal' = isoTotal + 1 /\ Same1(vroot)
          /\ \A r \in Compared' : Same1(r) =>
                \E x \in DOMAIN es' : es'[x][1] = r /\ FirstSame(r, es'[x][2])
      BY <2>4, <3>1
    <3>3. nSgraphP' \in Nat /\ isoTotal' \in Nat /\ nSgraphP' = nSgraphP + 1
      BY <1>2, <2>1, <3>2
    <3>4. QED BY <1>15, <3>2, <3>3
  <2>6. QED BY <2>2, <2>3, <2>5
<1>16. QED BY <1>14, <1>15

-----------------------------------------------------------------------------
(***************************************************************************)
(* Equal matrices are sites with the same links and labels: a char holds   *)
(* the labels, and the links of a node to itself are not written over      *)
(* them.                                                                   *)
(***************************************************************************)
LEMMA SiteNodes ==
    ASSUME input \in Inputs, NEW x \in Sides, NEW r \in NodesOf(input[x]), HasSite(input[x], r)
    PROVE  /\ Len(SiteQueue(input[x], r)) = siteSize
           /\ \A u \in 1..siteSize : SiteQueue(input[x], r)[u] \in NodesOf(input[x])
<1> DEFINE h == input[x]
           q == SiteQueue(h, r)
<1>1. LinksInside(h) /\ siteSize \in Nat
  BY SideGraph, SiteAssumption
<1> HIDE DEF h
<1>2. q \in Seq(NodesOf(h))
  <2>1. BreadthFirst(siteSize, h, r)[siteSize] \in Seq(NodesOf(h))
    BY <1>1, BreadthFirstFacts DEF h
  <2>2. QED BY <2>1, SiteQueueIs
<1>3. Len(q) = siteSize
  BY DEF HasSite, h
<1>4. \A u \in 1..siteSize : q[u] \in NodesOf(h)
  BY <1>2, <1>3
<1>5. QED BY <1>3, <1>4 DEF h

Cell(x, r, u, v) ==
    LET q == SiteQueue(input[x], r)
    IN  IF E(input[x], q[u], q[v]) THEN 1
        ELSE IF u = v /\ optionCheckSymb THEN AsChar(input[x].symb[q[u]]) ELSE 0

LEMMA CellsOf ==
    ASSUME input \in Inputs, NEW x \in Sides, NEW r \in NodesOf(input[x])
    PROVE  /\ HasSite(input[x], r) <=> SiteMatrix(x, r) # NoMatrix
           /\ HasSite(input[x], r) =>
                 /\ SiteMatrix(x, r) = [u \in 1..siteSize |-> [v \in 1..siteSize |-> Cell(x, r, u, v)]]
                 /\ \A u \in 1..siteSize : input[x].symb[SiteQueue(input[x], r)[u]] \in 0..(CharMod - 1)
<1>1. HasSite(input[x], r) =>
         SiteMatrix(x, r) = [u \in 1..siteSize |-> [v \in 1..siteSize |-> Cell(x, r, u, v)]]
  BY DEF SiteMatrix, HasSite, Cell
<1>2. CharMod \in Nat /\ CharMod > 1
  BY SiteAssumption, IsoOnlyAssumption
<1>3. ASSUME HasSite(input[x], r)
      PROVE  \A u \in 1..siteSize : input[x].symb[SiteQueue(input[x], r)[u]] \in 0..(CharMod - 1)
  <2>1. \A n \in NodesOf(input[x]) : input[x].symb[n] < CharMod
    BY IsoOnlyAssumption DEF Sides
  <2>2. \A n \in NodesOf(input[x]) : input[x].symb[n] \in Nat
    BY SideGraph
  <2>3. \A n \in NodesOf(input[x]) : input[x].symb[n] \in 0..(CharMod - 1)
    BY <1>2, <2>1, <2>2
  <2>4. QED BY <1>3, <2>3, SiteNodes
<1>4. ASSUME HasSite(input[x], r) PROVE SiteMatrix(x, r) \in CharMatrices
  <2>1. \A u \in 1..siteSize : AsChar(input[x].symb[SiteQueue(input[x], r)[u]]) \in 0..(CharMod - 1)
    <3>1. \A c \in 0..(CharMod - 1) : AsChar(c) \in 0..(CharMod - 1)
      BY <1>2 DEF AsChar
    <3>2. QED BY <1>3, <1>4, <3>1
  <2>2. \A u, v \in 1..siteSize : Cell(x, r, u, v) \in 0..(CharMod - 1)
    BY <1>2, <2>1 DEF Cell
  <2>3. QED BY <1>1, <1>4, <2>2 DEF CharMatrices
<1>5. ~HasSite(input[x], r) => SiteMatrix(x, r) = NoMatrix
  BY DEF HasSite, SiteMatrix
<1>6. QED BY <1>1, <1>3, <1>4, <1>5, IsoOnlyAssumption

LEMMA SameIsSameSite ==
    ASSUME input \in Inputs, NEW r \in NodesOf(input["P"]), NEW t \in NodesOf(input["T"]),
           optionCheckSymb => NoSelfLink("P") /\ NoSelfLink("T")
    PROVE  Same(r, t) <=> SameSite(r, t)
<1>1. CharMod \in Nat /\ CharMod > 1
  BY SiteAssumption, IsoOnlyAssumption
<1>2. /\ HasSite(input["P"], r) <=> SiteMatrix("P", r) # NoMatrix
      /\ HasSite(input["T"], t) <=> SiteMatrix("T", t) # NoMatrix
  BY CellsOf DEF Sides
<1>3. SUFFICES ASSUME HasSite(input["P"], r), HasSite(input["T"], t)
               PROVE  SiteMatrix("T", t) = SiteMatrix("P", r) <=> SameSite(r, t)
  BY <1>2 DEF Same, SameSite
<1> DEFINE D == 1..siteSize
           qP == SiteQueue(input["P"], r)
           qT == SiteQueue(input["T"], t)
           eP(u, v) == E(input["P"], qP[u], qP[v])
           eT(u, v) == E(input["T"], qT[u], qT[v])
           lP(u) == input["P"].symb[qP[u]]
           lT(u) == input["T"].symb[qT[u]]
           cP(u, v) == Cell("P", r, u, v)
           cT(u, v) == Cell("T", t, u, v)
<1>4. /\ SiteMatrix("P", r) = [u \in D |-> [v \in D |-> cP(u, v)]]
      /\ SiteMatrix("T", t) = [u \in D |-> [v \in D |-> cT(u, v)]]
      /\ \A u \in D : lP(u) \in 0..(CharMod - 1) /\ lT(u) \in 0..(CharMod - 1)
  BY <1>3, CellsOf DEF Sides
<1>5. /\ \A u, v : cP(u, v) = IF eP(u, v) THEN 1
                              ELSE IF u = v /\ optionCheckSymb THEN AsChar(lP(u)) ELSE 0
      /\ \A u, v : cT(u, v) = IF eT(u, v) THEN 1
                              ELSE IF u = v /\ optionCheckSymb THEN AsChar(lT(u)) ELSE 0
  BY DEF Cell
<1>6. \A c \in 0..(CharMod - 1) : AsChar(c) = c
  BY <1>1 DEF AsChar
<1>7. optionCheckSymb => \A u \in D : ~eP(u, u) /\ ~eT(u, u)
  BY <1>3, SiteNodes DEF NoSelfLink, Sides
<1>8. SameSite(r, t) <=> /\ \A u, v \in D : eP(u, v) <=> eT(u, v)
                         /\ optionCheckSymb => \A u \in D : lP(u) = lT(u)
  BY <1>3 DEF SameSite
<1> HIDE DEF eP, eT, lP, lT, cP, cT, D
<1>9. SiteMatrix("T", t) = SiteMatrix("P", r) <=> \A u, v \in D : cT(u, v) = cP(u, v)
  <2>1. ASSUME SiteMatrix("T", t) = SiteMatrix("P", r), NEW u \in D, NEW v \in D
        PROVE  cT(u, v) = cP(u, v)
    <3>1. SiteMatrix("T", t)[u][v] = cT(u, v) /\ SiteMatrix("P", r)[u][v] = cP(u, v)
      BY <1>4
    <3>2. QED BY <2>1, <3>1
  <2>2. ASSUME \A u, v \in D : cT(u, v) = cP(u, v) PROVE SiteMatrix("T", t) = SiteMatrix("P", r)
    BY <1>4, <2>2
  <2>3. QED BY <2>1, <2>2
<1>10. ASSUME \A u, v \in D : cT(u, v) = cP(u, v)
       PROVE  /\ \A u, v \in D : eP(u, v) <=> eT(u, v)
              /\ optionCheckSymb => \A u \in D : lP(u) = lT(u)
  <2>1. ASSUME NEW u \in D, NEW v \in D PROVE eP(u, v) <=> eT(u, v)
    <3>1. CASE u = v /\ optionCheckSymb
      BY <1>7, <3>1
    <3>2. CASE ~(u = v /\ optionCheckSymb)
      BY <1>5, <1>10, <3>2
    <3>3. QED BY <3>1, <3>2
  <2>2. ASSUME optionCheckSymb, NEW u \in D PROVE lP(u) = lT(u)
    BY <1>4, <1>5, <1>6, <1>7, <1>10, <2>2
  <2>3. QED BY <2>1, <2>2
<1>11. ASSUME /\ \A u, v \in D : eP(u, v) <=> eT(u, v)
              /\ optionCheckSymb => \A u \in D : lP(u) = lT(u)
       PROVE  \A u, v \in D : cT(u, v) = cP(u, v)
  <2>1. ASSUME NEW u \in D, NEW v \in D PROVE cT(u, v) = cP(u, v)
    BY <1>5, <1>11
  <2>2. QED BY <2>1
<1>12. QED BY <1>8, <1>9, <1>10, <1>11

-----------------------------------------------------------------------------
AllCompared == isoPc = "end" => vroot > Len(input["P"].children)

LEMMA IsoNextInv == IsoInv /\ AllCompared /\ [IsoNext]_isoVars => IsoInv' /\ AllCompared'
<1> SUFFICES ASSUME IsoInv, AllCompared, [IsoNext]_isoVars PROVE IsoInv' /\ AllCompared'
  OBVIOUS
<1>1. TrackInv
  BY DEF IsoInv
<1>2. CASE BFS2
  <2>1. /\ Walking /\ Walking' /\ isoPc' # "end"
        /\ UNCHANGED <<input, optionCheckSymb, side, vroot, mats, nSgraphP, isoTotal, es>>
    BY <1>2 DEF BFS2, Walking
  <2>2. QED BY <1>1, <1>2, <2>1, BFS2Track, StepOfWalk DEF AllCompared
<1>3. CASE LookAtChild
  <2>1. /\ Walking /\ Walking' /\ isoPc' # "end"
        /\ UNCHANGED <<input, optionCheckSymb, side, vroot, mats, nSgraphP, isoTotal, es>>
    BY <1>3 DEF LookAtChild, Walking
  <2>2. QED BY <1>1, <1>3, <2>1, LookTrack, StepOfWalk DEF AllCompared
<1>4. CASE NextInTrack
  <2>1. /\ Walking /\ Walking' /\ isoPc' # "end"
        /\ UNCHANGED <<input, optionCheckSymb, side, vroot, mats, nSgraphP, isoTotal, es>>
    BY <1>4 DEF NextInTrack, Walking
  <2>2. QED BY <1>1, <1>4, <2>1, NextInTrackTrack, StepOfWalk DEF AllCompared
<1>5. CASE NextLevel
  <2>1. /\ Walking /\ Walking' /\ isoPc' # "end"
        /\ UNCHANGED <<input, optionCheckSymb, side, vroot, mats, nSgraphP, isoTotal, es>>
    BY <1>5 DEF NextLevel, Walking
  <2>2. QED BY <1>1, <1>5, <2>1, NextLevelTrack, StepOfWalk DEF AllCompared
<1>6. CASE ReturnMatrix
  BY <1>6, ReturnMatrixInv DEF AllCompared, ReturnMatrix
<1>7. CASE NextSide
  <2>1. isoPc' # "end"
    BY <1>7 DEF NextSide
  <2>2. QED BY <1>7, <2>1, NextSideInv DEF AllCompared
<1>8. CASE Compare
  BY <1>8, CompareInv DEF AllCompared, Compare
<1>9. CASE End
  BY <1>9, EndInv DEF AllCompared, End
<1>10. CASE UNCHANGED isoVars
  <2>1. UNCHANGED <<input, optionCheckSymb, isoPc, side, vroot, exploredOf, nodeTrack, iTrack,
                    nnTmax, kChild, IsChild, mats, nSgraphP, isoTotal, es>>
    BY <1>10 DEF isoVars
  <2>2. TrackInv'
    BY <1>1, <2>1 DEF TrackInv, IsoTypeOK, SideShapes, RootPosition, TrackPosition, MarkedIsTracked,
       TrackSoFar, OpenedTo, HandledTo, Queued, g, node
  <2>3. /\ \A x, r : SiteMatrix(x, r)' = SiteMatrix(x, r)
        /\ \A r, t : Same(r, t)' = Same(r, t) /\ FirstSame(r, t)' = FirstSame(r, t)
    BY <2>1, SiteMatrixKept
  <2>4. g' = g /\ Walking' = Walking /\ Compared' = Compared
    BY <2>1 DEF g, Walking, Compared
  <2>5. \A x : MatricesDone(x)' = MatricesDone(x)
    BY <2>1, <2>4 DEF MatricesDone
  <2>6. MatricesInv'
    BY <2>1, <2>3, <2>4, <2>5 DEF MatricesInv, IsoInv
  <2>7. ResultsSoFar'
    BY <2>1, <2>3, <2>4 DEF ResultsSoFar, IsoInv
  <2>8. QED BY <2>1, <2>2, <2>6, <2>7 DEF IsoInv, AllCompared
<1>11. QED BY <1>2, <1>3, <1>4, <1>5, <1>6, <1>7, <1>8, <1>9, <1>10 DEF IsoNext, IsoStep, Done

LEMMA IsoAlways == IsoSpec => [](IsoInv /\ AllCompared)
<1>1. IsoInit => IsoInv /\ AllCompared
  <2>1. IsoInit => AllCompared
    BY DEF IsoInit, AllCompared
  <2>2. QED BY <2>1, IsoInitInv
<1>2. QED BY <1>1, IsoNextInv, PTL DEF IsoSpec

\* The walk by levels of graphBinAlgo -isoo takes the site that BFS takes.
THEOREM WalkCorrect == IsoSpec => []WalkInv
<1>1. IsoInv => WalkInv
  BY TrackIsSite DEF IsoInv, TrackInv, WalkInv
<1>2. QED BY <1>1, IsoAlways, PTL

LEMMA ResultsAreExact == IsoInv /\ AllCompared => MatchesExact
<1> SUFFICES ASSUME IsoInv, AllCompared, isoPc = "end",
                    optionCheckSymb => NoSelfLink("P") /\ NoSelfLink("T")
             PROVE  LET Found == {r \in NodesOf(input["P"]) :
                                     \E t \in NodesOf(input["T"]) : SameSite(r, t)}
                    IN  /\ isoTotal = Cardinality(Found)
                        /\ nSgraphP = Cardinality({r \in NodesOf(input["P"]) : HasSite(input["P"], r)})
                        /\ \A r \in Found : \E x \in DOMAIN es :
                              /\ es[x][1] = r /\ SameSite(r, es[x][2])
                              /\ \A t \in 1..(es[x][2] - 1) : ~SameSite(r, t)
  BY DEF MatchesExact
<1> DEFINE N == NodesOf(input["P"])
           NT == NodesOf(input["T"])
<1>1. input \in Inputs /\ vroot \in Nat /\ MatricesInv /\ ResultsSoFar
  BY DEF IsoInv, TrackInv, IsoTypeOK
<1>2. /\ N = 1..Len(input["P"].children) /\ Len(input["P"].children) \in Nat
      /\ NT = 1..Len(input["T"].children) /\ Len(input["T"].children) \in Nat
  BY <1>1, SideGraph DEF Sides
<1>3. Compared = N
  <2>1. vroot - 1 <= Len(input["P"].children)
    BY <1>1 DEF MatricesInv, Walking
  <2>2. vroot - 1 = Len(input["P"].children)
    BY <1>1, <1>2, <2>1 DEF AllCompared
  <2>3. QED BY <1>2, <2>2 DEF Compared, Walking
<1>4. \A r \in N : SiteMatrix("P", r) # NoMatrix <=> HasSite(input["P"], r)
  BY <1>1, CellsOf DEF Sides
<1>5. \A r \in N, t \in NT : Same(r, t) <=> SameSite(r, t)
  BY <1>1, SameIsSameSite
<1>6. nSgraphP = Cardinality({r \in N : HasSite(input["P"], r)})
  <2>1. {r \in Compared : SiteMatrix("P", r) # NoMatrix} = {r \in N : HasSite(input["P"], r)}
    BY <1>3, <1>4
  <2>2. QED BY <1>1, <2>1 DEF ResultsSoFar
<1> DEFINE Found == {r \in N : \E t \in NT : SameSite(r, t)}
<1>7. isoTotal = Cardinality(Found)
  <2>1. {r \in Compared : \E t \in NT : Same(r, t)} = Found
    BY <1>3, <1>5
  <2>2. QED BY <1>1, <2>1 DEF ResultsSoFar
<1>8. ASSUME NEW r \in Found
      PROVE  \E x \in DOMAIN es : /\ es[x][1] = r /\ SameSite(r, es[x][2])
                                  /\ \A t \in 1..(es[x][2] - 1) : ~SameSite(r, t)
  <2>1. r \in Compared /\ \E t \in NT : Same(r, t)
    BY <1>3, <1>5
  <2>2. PICK x \in DOMAIN es : es[x][1] = r /\ FirstSame(r, es[x][2])
    BY <1>1, <2>1 DEF ResultsSoFar
  <2>3. es[x][2] \in NT /\ Same(r, es[x][2]) /\ \A t \in 1..(es[x][2] - 1) : ~Same(r, t)
    BY <2>2 DEF FirstSame
  <2>4. \A t \in 1..(es[x][2] - 1) : t \in NT
    BY <1>2, <2>3
  <2>5. QED BY <1>5, <2>2, <2>3, <2>4
<1>9. QED BY <1>6, <1>7, <1>8

\* graphBinAlgo -isoo counts and exports each site of the pattern that is one
\* of the test, once, with the first such root.
THEOREM MatchesCorrect == IsoSpec => []MatchesExact
BY IsoAlways, ResultsAreExact, PTL
=============================================================================
