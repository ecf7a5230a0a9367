----------------------------- MODULE Intervals -----------------------------
(***************************************************************************)
(* graphBinAlgo -r [-R] on one graph: computeInterval and reduceInterval   *)
(* of src/libGraphBinAlgo.c and the loop around them in main.  A reduction *)
(* cuts the graph into intervals, each entered by its header only, and     *)
(* makes each a node of a smaller graph; -R reduces that one again, until  *)
(* its size does not change.                                               *)
(*                                                                         *)
(* A step is one pass of a loop: the visit of one node by the scan of      *)
(* computeInterval, or by the search for headers of reduceInterval, and of *)
(* the four nested loops that make the links of the reduced graph.         *)
(*                                                                         *)
(* Operators marked "faulty variant" are not used by Spec: put in place of *)
(* the next definition, each must break the property named.                *)
(***************************************************************************)
EXTENDS CFG

CONSTANT Inputs     \* the graphs that may be given, with their roots

IsRooted(g) == IsGraph(g) /\ g.root \in NodesOf(g)

ASSUME IntervalsAssumption == \A g \in Inputs : IsRooted(g)

VARIABLES
    input,      \* the graph as it was read
    optionRec,  \* -R
    gr,         \* the graph being reduced
    pc,         \* "main", "scan", "enter", "link" or "end"
    explored,
    headers, currH,
    intervals,  \* the finished ones, then the one being computed
    i, added, pOk,
    reduced,    \* the children of the nodes of the reduced graph
    memb, kid, dest,    \* with i, where the loops over the links are
    lastN       \* count before the last reduction

reading == <<input, optionRec, lastN>>
scanning == <<explored, headers, currH, intervals, added, pOk>>
linking == <<reduced, memb, kid, dest>>
vars == <<reading, gr, pc, i, scanning, linking>>

count(g) == Len(g.children)
current == intervals[currH]
In(n, S) == n \in Range(S)

Init == /\ input \in Inputs /\ optionRec \in BOOLEAN
        /\ gr = input /\ pc = "main" /\ lastN = 0
        /\ explored = [n \in NodesOf(gr) |-> 0]
        /\ headers = <<>> /\ currH = 0 /\ intervals = <<>>
        /\ i = 1 /\ added = FALSE /\ pOk = FALSE
        /\ reduced = <<>> /\ memb = 1 /\ kid = 1 /\ dest = 1

\* main: one reduction, then, with -R, others while they change the size.
Again == lastN = 0 \/ (optionRec /\ lastN # count(gr))

Reduce ==
    /\ pc = "main" /\ Again
    /\ pc' = "scan"
    /\ lastN' = count(gr)
    /\ explored' = [n \in NodesOf(gr) |-> 0]
    /\ headers' = <<gr.root>> /\ currH' = 1
    /\ intervals' = << <<gr.root>> >>
    /\ i' = 1 /\ added' = FALSE /\ pOk' = FALSE
    /\ reduced' = <<>> /\ memb' = 1 /\ kid' = 1 /\ dest' = 1
    /\ UNCHANGED <<input, optionRec, gr>>

Stop == /\ pc = "main" /\ ~Again
        /\ pc' = "end"
        /\ UNCHANGED <<reading, gr, i, scanning, linking>>

-----------------------------------------------------------------------------
(***************************************************************************)
(* computeInterval.  pOk is assigned in the loop over the fathers: without *)
(* any, it keeps the answer for the node scanned before.                   *)
(***************************************************************************)
\* Faulty variant: one father in the interval is enough (LimitIffReducible).
AnyFather(n) == \E f \in Fathers(gr, n) : In(f, current)
AllFathers(n) == IF Fathers(gr, n) = {} THEN pOk
                 ELSE \A f \in Fathers(gr, n) : In(f, current)

Skipped(n) == n = gr.root \/ In(n, current)

Visit ==
    /\ pc = "scan" /\ i <= count(gr)
    /\ IF Skipped(i)
       THEN UNCHANGED <<pOk, intervals, added, explored>>
       ELSE /\ pOk' = AllFathers(i)
            /\ IF pOk'
               THEN /\ intervals' = [intervals EXCEPT ![currH] = Append(@, i)]
                    /\ added' = TRUE
                    /\ explored' = [explored EXCEPT ![i] = 2]
               ELSE UNCHANGED <<intervals, added, explored>>
    /\ i' = i + 1
    /\ UNCHANGED <<reading, gr, pc, headers, currH, linking>>

ScanOnce == FALSE       \* faulty variant (Partition)
ScanAlways == TRUE      \* faulty variant (Terminates)
ScanAgain == added

Rescan ==
    /\ pc = "scan" /\ i > count(gr) /\ ScanAgain
    /\ i' = 1 /\ added' = FALSE
    /\ UNCHANGED <<reading, gr, pc, explored, headers, currH, intervals, pOk,
                   linking>>

(***************************************************************************)
(* reduceInterval: the nodes entered from the interval just computed, and  *)
(* not taken, are headers of intervals to come.                            *)
(***************************************************************************)
\* Faulty variant: a header is added once more (IntervalInv).
EnteredAgain(n) == explored[n] = 0 /\ \E f \in Fathers(gr, n) : In(f, current)
Entered(n) == /\ explored[n] = 0 /\ ~In(n, headers)
              /\ \E f \in Fathers(gr, n) : In(f, current)

EndScan ==
    /\ pc = "scan" /\ i > count(gr) /\ ~ScanAgain
    /\ pc' = "enter" /\ i' = 1
    /\ UNCHANGED <<reading, gr, scanning, linking>>

Enter ==
    /\ pc = "enter" /\ i <= count(gr)
    /\ headers' = IF Entered(i) THEN Append(headers, i) ELSE headers
    /\ i' = i + 1
    /\ UNCHANGED <<reading, gr, pc, explored, currH, intervals, added, pOk,
                   linking>>

EndInterval ==
    /\ pc = "enter" /\ i > count(gr)
    /\ reduced' = Append(reduced, <<>>)
    /\ IF currH < Len(headers)
       THEN /\ currH' = currH + 1
            /\ intervals' = Append(intervals, <<headers[currH + 1]>>)
            /\ pc' = "scan"
       ELSE pc' = "link" /\ UNCHANGED <<currH, intervals>>
    /\ i' = 1 /\ added' = FALSE /\ pOk' = FALSE
    /\ UNCHANGED <<reading, gr, explored, headers, memb, kid, dest>>

-----------------------------------------------------------------------------
(***************************************************************************)
(* The links of the reduced graph: for each member of interval i, each of  *)
(* its children and each interval dest that has this child.                *)
(***************************************************************************)
member == intervals[i][memb]
child == gr.children[member][kid]

\* Faulty variant: a link met again is made again (ReducedExact).
NewLinkAgain == dest # i
NewLink == ~In(dest, reduced[i]) /\ dest # i

AtInterval == pc = "link" /\ i <= Len(intervals)
AtMember == AtInterval /\ memb <= Len(intervals[i])
AtChild == AtMember /\ kid <= children_nb(gr, member)

Link ==
    /\ AtChild /\ dest <= Len(intervals)
    /\ reduced' = IF In(child, intervals[dest]) /\ NewLink
                  THEN [reduced EXCEPT ![i] = Append(@, dest)] ELSE reduced
    /\ dest' = dest + 1
    /\ UNCHANGED <<reading, gr, pc, i, scanning, memb, kid>>

NextChild ==
    /\ AtChild /\ dest > Len(intervals)
    /\ kid' = kid + 1 /\ dest' = 1
    /\ UNCHANGED <<reading, gr, pc, i, scanning, reduced, memb>>

NextMember ==
    /\ AtMember /\ ~AtChild
    /\ memb' = memb + 1 /\ kid' = 1
    /\ UNCHANGED <<reading, gr, pc, i, scanning, reduced, dest>>

NextInterval ==
    /\ AtInterval /\ ~AtMember
    /\ i' = i + 1 /\ memb' = 1
    /\ UNCHANGED <<reading, gr, pc, scanning, reduced, kid, dest>>

Return ==
    /\ pc = "link" /\ ~AtInterval
    /\ pc' = "main"
    /\ gr' = [children |-> reduced,
              symb |-> [h \in DOMAIN reduced |-> 9],
              root |-> 1]
    /\ UNCHANGED <<reading, i, scanning, linking>>

Done == pc = "end" /\ UNCHANGED vars

Step == \/ Reduce \/ Visit \/ Rescan \/ EndScan \/ Enter \/ EndInterval
        \/ Link \/ NextChild \/ NextMember \/ NextInterval \/ Return \/ Stop
Next == Step \/ Done

Spec == Init /\ [][Next]_vars
FairSpec == Spec /\ WF_vars(Step)

-----------------------------------------------------------------------------
(***************************************************************************)
(* Correctness.  Some of it supposes a graph whose nodes the root reaches; *)
(* reducing any graph makes such a one.                                    *)
(***************************************************************************)
Connected(g) == Reachable(g, g.root) = NodesOf(g)

TypeOK ==
    /\ input \in Inputs /\ optionRec \in BOOLEAN
    /\ IsRooted(gr)
    /\ pc \in {"main", "scan", "enter", "link", "end"}
    /\ DOMAIN explored \subseteq NodesOf(input) /\ Range(explored) \subseteq {0, 2}
    /\ headers \in Seq(NodesOf(input)) /\ Len(headers) <= count(input)
    /\ currH \in 0..Len(headers)
    /\ intervals \in Seq(Seq(NodesOf(input))) /\ Len(intervals) <= count(input)
    /\ \A h \in DOMAIN intervals : Len(intervals[h]) <= count(input)
    /\ i \in 1..(count(gr) + 1)
    /\ added \in BOOLEAN /\ pOk \in BOOLEAN
    /\ reduced \in Seq(Seq(1..Len(intervals)))
    /\ memb \in Nat /\ kid \in Nat /\ dest \in 1..(Len(intervals) + 1)
    /\ lastN \in 0..count(input)

Inside == pc \in {"scan", "enter", "link"}

\* All the fathers of a member other than the header were members before it,
\* in any graph.
FathersFirst ==
    Inside =>
        \A h \in DOMAIN intervals : \A m \in 2..Len(intervals[h]) :
            Fathers(gr, intervals[h][m]) \subseteq Range(SubSeq(intervals[h], 1, m - 1))

\* No node is in two intervals, in any graph: also not a node without fathers,
\* which joins an interval when the node scanned before it did.
OneIntervalEach ==
    Inside => \A h, k \in DOMAIN intervals :
                  h # k => Range(intervals[h]) \cap Range(intervals[k]) = {}

\* At every moment the intervals computed so far are disjoint, entered by
\* their header only, and every cycle in one goes through its header, although
\* computeInterval looks at the current interval only and the marks only guard
\* against new headers; and the table of intervals and the one of headers, with
\* room for as many as the graph has nodes, do not overflow.  Lines 1189-1335.
IntervalInv == TypeOK /\ FathersFirst /\ OneIntervalEach

\* Once the intervals are computed every node is in exactly one of them, once,
\* and none could have taken another node, in whatever order the scans met
\* them.  Lines 1209-1263 and 1308-1335.
Partition ==
    pc = "link" /\ Connected(gr) =>
        /\ \A n \in NodesOf(gr) : \E h \in DOMAIN intervals :
             /\ Cardinality({m \in DOMAIN intervals[h] : intervals[h][m] = n}) = 1
             /\ \A k \in DOMAIN intervals : In(n, intervals[k]) => k = h
        /\ \A h \in DOMAIN intervals : \A n \in NodesOf(gr) \ {gr.root} :
             Fathers(gr, n) \subseteq Range(intervals[h]) => In(n, intervals[h])

\* The reduced graph of any graph has a link exactly where one leaves an
\* interval for another, without duplicates, and its root reaches all of it: the
\* next reduction may rely on it.  Lines 1338-1354.
ReducedExact ==
    [][pc = "link" /\ pc' = "main" =>
         /\ Connected(gr')
         /\ \A h, k \in DOMAIN intervals :
              Cardinality({x \in DOMAIN gr'.children[h] : gr'.children[h][x] = k})
              = IF h # k /\ \E n \in Range(intervals[h]) : \E c \in Range(intervals[k]) :
                                E(gr, n, c) THEN 1 ELSE 0]_vars

\* A link is a back link when its target dominates its source: without the
\* target's own links the root does not reach the source.
Without(g, d) == [children |-> [n \in NodesOf(g) |->
                                   IF n = d THEN <<>> ELSE g.children[n]]]
Dominates(g, d, n) == n = d \/ n \notin Reachable(Without(g, d), g.root)

\* Reducible: every cycle has a back link.
Forward(g) == [children |-> [n \in NodesOf(g) |->
                  ElementsAt(g.children[n], {k \in DOMAIN g.children[n] :
                                                ~Dominates(g, g.children[n][k], n)})]]
Reducible(g) == \A n \in NodesOf(g) : n \notin UNION {Reachable(Forward(g), c) :
                                                      c \in Range(Forward(g).children[n])}

NoSelfLink(g) == \A n \in NodesOf(g) : ~E(g, n, n)

\* With -R what is left is a single node exactly when the graph that was read
\* is reducible in the sense of dominators, if it had no link from a node to
\* itself.  Loop of main, graphBinAlgo.c:279-309.
LimitIffReducible ==
    pc = "end" /\ optionRec /\ Connected(input) /\ NoSelfLink(input) =>
        (count(gr) = 1 <=> Reducible(input))

\* "-R ... reduces it recursively until the graph is irreducible"
\* (graphBinAlgo.c:76): the same for any graph.  Expected violation.
StopsIrreducible ==
    pc = "end" /\ optionRec /\ Connected(input) =>
        (count(gr) = 1 <=> Reducible(input))

\* No scan and no reduction goes on for ever, whatever the cycles and
\* unreachable nodes.
Terminates == <>(pc = "end")
=============================================================================
