------------------------------ MODULE IsoOnly ------------------------------
(***************************************************************************)
(* graphBinAlgo -isoo -p n -t n: BFS2 and pcharcmp of libGraphBinAlgo.c    *)
(* and the loops around them in main.  BFS2 walks the first siteSize nodes *)
(* from a root, level after level, and writes their links in a matrix of   *)
(* chars, with the labels on its diagonal under -cs; sites are then        *)
(* compared by their matrices.  The module walks one child a step and      *)
(* compares one pattern site a step.                                       *)
(*                                                                         *)
(* Operators marked "faulty variant" are not used by Spec: put in place of *)
(* the next definition, each must break the property named.                *)
(***************************************************************************)
EXTENDS Sites

CONSTANTS Inputs,   \* pairs of graphs
          NoMatrix  \* the null pointer in the place of a matrix

CharMatrices == [1..siteSize -> [1..siteSize -> 0..(CharMod - 1)]]

\* A char holds 0, 1 and the labels, the values of the enum symb.
ASSUME IsoOnlyAssumption ==
    /\ \A in \in Inputs : \A x \in {"P", "T"} :
          IsGraph(in[x]) /\ \A n \in NodesOf(in[x]) : in[x].symb[n] < CharMod
    /\ CharMod > 1 /\ NoMatrix \notin CharMatrices

VARIABLES
    input, optionCheckSymb,
    isoPc,          \* "call", "walk", "compare" or "end"
    side, vroot,    \* the call of BFS2: which graph, which root
    exploredOf,     \* marks on the nodes of both graphs
    nodeTrack,
    iTrack, nnTmax, kChild,     \* loops of BFS2: the track, its level, the children
    IsChild,
    mats,           \* the matrices mP and mT, NoMatrix for a site too small
    nSgraphP, isoTotal, es  \* results, and the lines of .esP and .esT

isoVars == <<input, optionCheckSymb, isoPc, side, vroot, exploredOf, nodeTrack, iTrack,
             nnTmax, kChild, IsChild, mats, nSgraphP, isoTotal, es>>
walkVars == <<exploredOf, nodeTrack, iTrack, nnTmax, kChild, IsChild>>

g == input[side]
Sides == {"P", "T"}

IsoInit == /\ input \in Inputs /\ optionCheckSymb \in BOOLEAN
           /\ isoPc = "call" /\ side = "P" /\ vroot = 1
           /\ exploredOf = [x \in Sides |-> [n \in NodesOf(input[x]) |-> 0]]
           /\ nodeTrack = <<>> /\ iTrack = 1 /\ nnTmax = 0 /\ kChild = 1 /\ IsChild = FALSE
           /\ mats = [x \in Sides |-> <<>>]
           /\ nSgraphP = 0 /\ isoTotal = 0 /\ es = <<>>

Unmarked == [n \in NodesOf(g) |-> 0]

BFS2 ==
    /\ isoPc = "call" /\ vroot <= Len(g.children)
    /\ isoPc' = "walk"
    /\ exploredOf' = [exploredOf EXCEPT ![side] = [Unmarked EXCEPT ![vroot] = 1]]
    /\ nodeTrack' = <<vroot>>
    /\ iTrack' = 1 /\ nnTmax' = 1 /\ kChild' = 1 /\ IsChild' = FALSE
    /\ UNCHANGED <<input, optionCheckSymb, side, vroot, mats, nSgraphP, isoTotal, es>>

node == nodeTrack[iTrack]
InLevel == iTrack <= nnTmax /\ (Len(nodeTrack) < siteSize \/ kChild > 1)
Opened == exploredOf[side][node] = 1 \/ kChild > 1

\* Faulty variant: one node too many (WalkInv).
RoomForOneMore == Len(nodeTrack) <= siteSize
Room == Len(nodeTrack) < siteSize

LookAtChild ==
    /\ isoPc = "walk" /\ InLevel /\ Opened /\ kChild <= Len(g.children[node])
    /\ LET child == g.children[node][kChild]
           marks == [exploredOf[side] EXCEPT ![node] = 2]
       IN  IF Room /\ marks[child] = 0
           THEN /\ exploredOf' = [exploredOf EXCEPT ![side] = [marks EXCEPT ![child] = 1]]
                /\ nodeTrack' = Append(nodeTrack, child)
                /\ IsChild' = TRUE
           ELSE /\ exploredOf' = [exploredOf EXCEPT ![side] = marks]
                /\ UNCHANGED <<nodeTrack, IsChild>>
    /\ kChild' = kChild + 1
    /\ UNCHANGED <<input, optionCheckSymb, isoPc, side, vroot, iTrack, nnTmax, mats,
                   nSgraphP, isoTotal, es>>

NextInTrack ==
    /\ isoPc = "walk" /\ InLevel /\ (Opened => kChild > Len(g.children[node]))
    /\ exploredOf' = IF Opened THEN [exploredOf EXCEPT ![side][node] = 2] ELSE exploredOf
    /\ iTrack' = iTrack + 1 /\ kChild' = 1
    /\ UNCHANGED <<input, optionCheckSymb, isoPc, side, vroot, nodeTrack, nnTmax,
                   IsChild, mats, nSgraphP, isoTotal, es>>

\* The next level starts over from the root: nodes opened before are passed.
\* Faulty variant: it does not look whether the last one added any (Terminates).
MoreEvenSo == Len(nodeTrack) < siteSize
More == Len(nodeTrack) < siteSize /\ IsChild

NextLevel ==
    /\ isoPc = "walk" /\ ~InLevel /\ More
    /\ IsChild' = FALSE /\ nnTmax' = Len(nodeTrack) /\ iTrack' = 1 /\ kChild' = 1
    /\ UNCHANGED <<input, optionCheckSymb, isoPc, side, vroot, exploredOf,
                   nodeTrack, mats, nSgraphP, isoTotal, es>>

\* The links are written over the labels.
\* Faulty variant: only links away from the root (MatchesExact).
Forwards == [x \in 1..siteSize |-> [y \in 1..siteSize |->
                IF x < y /\ E(g, nodeTrack[x], nodeTrack[y]) THEN 1 ELSE 0]]
Matrix == [x \in 1..siteSize |-> [y \in 1..siteSize |->
              IF E(g, nodeTrack[x], nodeTrack[y]) THEN 1
              ELSE IF x = y /\ optionCheckSymb THEN AsChar(g.symb[nodeTrack[x]])
              ELSE 0]]

ReturnMatrix ==
    /\ isoPc = "walk" /\ ~InLevel /\ ~More
    /\ mats' = [mats EXCEPT ![side] = Append(@, IF Len(nodeTrack) # siteSize THEN NoMatrix
                                                                     ELSE Matrix)]
    /\ isoPc' = "call" /\ vroot' = vroot + 1
    /\ UNCHANGED <<input, optionCheckSymb, side, walkVars, nSgraphP, isoTotal, es>>

\* main: the sites of the pattern, then those of the test, then the comparison.
NextSide ==
    /\ isoPc = "call" /\ vroot > Len(g.children)
    /\ vroot' = 1
    /\ IF side = "P" THEN side' = "T" /\ UNCHANGED isoPc
                     ELSE isoPc' = "compare" /\ UNCHANGED side
    /\ UNCHANGED <<input, optionCheckSymb, walkVars, mats, nSgraphP, isoTotal, es>>

Matching == {j \in DOMAIN mats["T"] : mats["T"][j] # NoMatrix /\ mats["T"][j] = mats["P"][vroot]}

FirstMatch == {j \in Matching : \A x \in Matching : j <= x}

Compare ==
    /\ isoPc = "compare" /\ vroot <= Len(input["P"].children)
    /\ vroot' = vroot + 1
    /\ IF mats["P"][vroot] = NoMatrix
       THEN UNCHANGED <<nSgraphP, isoTotal, es>>
       ELSE /\ nSgraphP' = nSgraphP + 1
            /\ isoTotal' = isoTotal + Cardinality(FirstMatch)
            /\ es' = es \o SetToSeq({<<vroot, j>> : j \in FirstMatch})
    /\ UNCHANGED <<input, optionCheckSymb, isoPc, side, walkVars, mats>>

End == /\ isoPc = "compare" /\ vroot > Len(input["P"].children)
       /\ isoPc' = "end"
       /\ UNCHANGED <<input, optionCheckSymb, side, vroot, walkVars, mats,
                      nSgraphP, isoTotal, es>>

Done == isoPc = "end" /\ UNCHANGED isoVars

IsoStep == \/ BFS2 \/ LookAtChild \/ NextInTrack \/ NextLevel \/ ReturnMatrix
           \/ NextSide \/ Compare \/ End
IsoNext == IsoStep \/ Done

IsoSpec == IsoInit /\ [][IsoNext]_isoVars
IsoFairSpec == IsoSpec /\ WF_isoVars(IsoStep)

-----------------------------------------------------------------------------
(***************************************************************************)
(* Correctness.                                                            *)
(***************************************************************************)
IsoTypeOK ==
    /\ input \in Inputs /\ optionCheckSymb \in BOOLEAN
    /\ isoPc \in {"call", "walk", "compare", "end"} /\ side \in Sides /\ vroot \in Nat
    /\ \A x \in Sides : exploredOf[x] \in [NodesOf(input[x]) -> 0..2]
    /\ nodeTrack \in Seq(NodesOf(input["P"]) \cup NodesOf(input["T"]))
    /\ Len(nodeTrack) <= siteSize
    /\ iTrack \in Nat /\ nnTmax \in Nat /\ kChild \in Nat /\ IsChild \in BOOLEAN
    /\ \A x \in Sides : \A r \in DOMAIN mats[x] : mats[x][r] = NoMatrix \/ mats[x][r] \in CharMatrices
    /\ nSgraphP \in Nat /\ isoTotal \in Nat
    /\ es \in Seq(Nat \X Nat)

\* What a finished walk has taken is the site, in the order of BFS.
WalkIsSite ==
    isoPc = "walk" /\ ~InLevel /\ ~More => nodeTrack = SiteQueue(g, vroot)

\* The walk by levels, that passes the whole track again for each, finds the
\* site that the queue of BFS finds, whatever the walks before it left on the
\* nodes, and never writes past the track.  Lines 916-1003 against BFSGraph.c
\* 143-180.
WalkInv == IsoTypeOK /\ WalkIsSite

\* Two sites are the same when their nodes, in the order of the walk, have the
\* same links, and the same labels if asked.
SameSite(r, t) ==
    LET qP == SiteQueue(input["P"], r)
        qT == SiteQueue(input["T"], t)
    IN  /\ HasSite(input["P"], r) /\ HasSite(input["T"], t)
        /\ \A x, y \in 1..siteSize : E(input["P"], qP[x], qP[y]) <=> E(input["T"], qT[x], qT[y])
        /\ optionCheckSymb => \A x \in 1..siteSize : input["P"].symb[qP[x]] = input["T"].symb[qT[x]]

NoSelfLink(x) == \A n \in NodesOf(input[x]) : ~E(input[x], n, n)

\* What is counted and exported: each site of the pattern that is one of the
\* test, once, with the first such root.  graphBinAlgo.c:556-613.
MatchesExact ==
    isoPc = "end" /\ (optionCheckSymb => NoSelfLink("P") /\ NoSelfLink("T")) =>
        LET Found == {r \in NodesOf(input["P"]) :
                         \E t \in NodesOf(input["T"]) : SameSite(r, t)}
        IN  /\ isoTotal = Cardinality(Found)
            /\ nSgraphP = Cardinality({r \in NodesOf(input["P"]) : HasSite(input["P"], r)})
            /\ \A r \in Found : \E x \in DOMAIN es :
                  /\ es[x][1] = r /\ SameSite(r, es[x][2])
                  /\ \A t \in 1..(es[x][2] - 1) : ~SameSite(r, t)

\* The loops end although the walk starts each level over.
Terminates == <>(isoPc = "end")

\* "-cs ... : checks if 2 nodes have same symbol before associating them"
\* (graphBinAlgo.c:72): sites that match have the same labels.  Expected
\* violation.
LabelsAreChecked ==
    optionCheckSymb => \A x \in DOMAIN es : SameSite(es[x][1], es[x][2])
=============================================================================
