------------------------------- MODULE Sites -------------------------------
(***************************************************************************)
(* The sites of a control-flow graph.  A site is the NGraph that BFS       *)
(* computes from a root: the first siteSize nodes met breadth first, with  *)
(* two links at most from each to the others.  Nothing here depends on the *)
(* marks BFS leaves on nodes: BFSGraph is the algorithm, this module says  *)
(* what comes out of it, for the modules that use sites.                   *)
(***************************************************************************)
EXTENDS CFG

CONSTANTS
    siteSize,   \* number of nodes of a site, option -ss
    CharMod     \* number of values of the char that holds a matrix entry (256)

ASSUME SiteAssumption == /\ siteSize \in Nat \ {0}
                         /\ CharMod \in Nat \ {0}

(***************************************************************************)
(* The site rooted at a node: who is in it, in which order.                *)
(***************************************************************************)
AddChild(q, c) ==
    IF c \in Range(q) \/ Len(q) >= siteSize THEN q ELSE Append(q, c)

SiteQueue(g, root) ==
    LET after[k \in 0..siteSize] ==
          IF k = 0 THEN <<root>>
          ELSE LET q == after[k-1]
               IN  IF k > Len(q) THEN q ELSE FoldLeft(AddChild, q, g.children[q[k]])
    IN  after[siteSize]

\* A matrix entry is stored in a char.
NarrowChar(number) == number % (CharMod - 1)    \* faulty variant (SiteLinksExact)
AsChar(number) == number % CharMod

Number(q, n) == CHOOSE i \in DOMAIN q : q[i] = n

(***************************************************************************)
(* The row of node n in the site q: slot 1 for its first child, slot 2 for *)
(* the last of its other children that is in the site, 0 for none.  Each   *)
(* child but the first is written to slot 2, over the one before it, so a  *)
(* node of three children or more loses links between nodes of the site.   *)
(***************************************************************************)
Slot(k) == IF k = 1 THEN 1 ELSE 2

Row(g, q, n) ==
    [slot \in 1..2 |->
        LET linked == {k \in DOMAIN g.children[n] :
                          /\ Slot(k) = slot
                          /\ g.children[n][k] \in Range(q)}
        IN  IF linked = {} THEN 0
            ELSE AsChar(Number(q, g.children[n][Max(linked)]))]

NGraphOf(g, q) == [symbols |-> [i \in 1..siteSize |-> g.symb[q[i]]],
                   NMatrix |-> [i \in 1..siteSize |-> Row(g, q, q[i])]]

HasSite(g, root) == Len(SiteQueue(g, root)) = siteSize

SiteAt(g, root) == NGraphOf(g, SiteQueue(g, root))

(***************************************************************************)
(* The word by which the decision tree knows a site: letter r is row r,    *)
(* and the label of node r when labels are checked.                        *)
(***************************************************************************)
Letter(withLabels, ng, r) == [label  |-> IF withLabels THEN ng.symbols[r] ELSE -1,
                              value  |-> ng.NMatrix[r][1],
                              value2 |-> ng.NMatrix[r][2]]

KeyOf(withLabels, ng) == [r \in 1..siteSize |-> Letter(withLabels, ng, r)]
=============================================================================
