---------------------------- MODULE DecisionTree ----------------------------
(***************************************************************************)
(* libsSIDT/decisionTree: the decision tree that holds the learnt sites.   *)
(*                                                                         *)
(* A site is a word of siteSize letters, letter i being the label of its   *)
(* node i and its row of NMatrix.  Level i of the tree branches on letter  *)
(* i.  A decision node is named by the letters that lead to it, so the     *)
(* pointer **dn of learnSiteR is a sequence of letters, and *dn = NULL     *)
(* says that the sequence is not in the domain of the tree.  learnSiteR is *)
(* one step per recursive call.  The field i of a node is a depth in inner *)
(* nodes and a site number in leaves, as in the code.                      *)
(*                                                                         *)
(* Operators marked "faulty variant" are not used by DTSpec.  Each is the  *)
(* definition below it with a likely mistake; put in its place, it must    *)
(* break the property named.                                               *)
(***************************************************************************)
EXTENDS Sites

CONSTANTS
    NGraphs,    \* the sites that BFS may return
    MaxProgs    \* bound on the number of programs learnt

ASSUME TreeAssumption ==
    /\ MaxProgs \in Nat
    /\ \A ng \in NGraphs : DOMAIN ng.symbols = 1..siteSize
                        /\ DOMAIN ng.NMatrix = 1..siteSize

VARIABLES
    withLabels, \* option -ncl absent
    tree,       \* decision node -> [i, ht], ht its chained hash elements
    sites,      \* dt->sites: each the sequence of its progs
    progs,      \* dt->progs: each the sequence of its sites
    proc,       \* "idle" or "learnSiteR"
    dn, siteG, learn,   \* arguments of learnSiteR; prg is the last program
    answer      \* the last call of learnSite or findSite and its result

dtVars == <<withLabels, tree, sites, progs, proc, dn, siteG, learn, answer>>

nSites == Len(sites)
nProgs == Len(progs)
prg == nProgs
depth == Len(dn) + 1    \* the argument i, one more at each call

DTInit ==
    /\ withLabels \in BOOLEAN
    /\ tree = [p \in {} |-> 0]
    /\ sites = <<>> /\ progs = <<>>
    /\ proc = "idle" /\ dn = <<>> /\ siteG = CHOOSE g \in NGraphs : TRUE
    /\ learn = FALSE
    /\ answer = [learn |-> FALSE, i |-> 0]

-----------------------------------------------------------------------------
addProgToDT ==
    /\ proc = "idle" /\ nProgs < MaxProgs
    /\ progs' = Append(progs, <<>>)
    /\ UNCHANGED <<withLabels, tree, sites, proc, dn, siteG, learn, answer>>

Call(g, l) ==
    /\ proc = "idle" /\ (l => nProgs > 0)
    /\ proc' = "learnSiteR" /\ dn' = <<>> /\ siteG' = g /\ learn' = l
    /\ UNCHANGED <<withLabels, tree, sites, progs, answer>>

learnSite(g) == Call(g, TRUE)
findSite(g) == Call(g, FALSE)

(***************************************************************************)
(* learnSite ends without a return statement; the compiler of the build    *)
(* leaves the result of learnSiteR where the caller reads it.              *)
(***************************************************************************)
Returns(value) ==
    /\ proc' = "idle"
    /\ answer' = [learn |-> learn, key |-> KeyOf(withLabels, siteG), i |-> value]
    /\ dn' = <<>>
    /\ UNCHANGED <<withLabels, siteG, learn>>

Recurse(next) ==
    /\ dn' = next
    /\ UNCHANGED <<withLabels, sites, progs, proc, siteG, learn, answer>>

Running == proc = "learnSiteR"
Missing == Running /\ dn \notin DOMAIN tree
Leaf == depth = siteSize + 1
Element == Letter(withLabels, siteG, depth)

Insert(node) == tree' = [p \in DOMAIN tree \cup {dn} |->
                            IF p = dn THEN node ELSE tree[p]]

NoNode == /\ Missing /\ ~learn
          /\ Returns(0)
          /\ UNCHANGED <<tree, sites, progs>>

addSite(number) == progs' = [progs EXCEPT ![prg] = Append(@, number)]

NumberBefore == nSites      \* faulty variant (TreeInv)
LeafNumber == nSites'

newLeaf == /\ Missing /\ learn /\ Leaf
           /\ sites' = Append(sites, <<prg>>)
           /\ addSite(LeafNumber)
           /\ Insert([i |-> LeafNumber, ht |-> <<>>])
           /\ Returns(0)

newInnerNode == /\ Missing /\ learn /\ ~Leaf
                /\ Insert([i |-> depth, ht |-> <<Element>>])
                /\ Recurse(Append(dn, Element))

Found == Running /\ dn \in DOMAIN tree

Repeats(number) == learn /\ number # 0    \* faulty variant (ProgsAndSitesAgree)
AddsPrg(number) == learn /\ number # 0 /\ prg \notin Range(sites[number])

\* dt->sites[(*dn)->i-1] gains prg unless it already has it.
foundSite ==
    /\ Found /\ Leaf
    /\ LET n == tree[dn].i
       IN  /\ IF AddsPrg(n)
              THEN /\ sites' = [sites EXCEPT ![n] = Append(@, prg)]
                   /\ addSite(n)
              ELSE UNCHANGED <<sites, progs>>
           /\ Returns(n)
    /\ UNCHANGED tree

(***************************************************************************)
(* addElement: the first element of the chain that matches the letter, or  *)
(* a new one at its end when learning.                                     *)
(***************************************************************************)
\* Faulty variant: value2 not compared (ImplementsIndex).
MatchesFirstValue(e) == /\ withLabels => e.label = Element.label
                        /\ e.value = Element.value

Matches(e) == /\ withLabels => e.label = Element.label
              /\ e.value = Element.value /\ e.value2 = Element.value2

Matching == {k \in DOMAIN tree[dn].ht : Matches(tree[dn].ht[k])}

searchDn == /\ Found /\ ~Leaf /\ Matching # {}
            /\ Recurse(Append(dn, tree[dn].ht[Min(Matching)]))
            /\ UNCHANGED tree

\* Faulty variant: findSite adds too (TreeInv).
addElementAlways == /\ Found /\ ~Leaf /\ Matching = {}
                    /\ tree' = [tree EXCEPT ![dn].ht = Append(@, Element)]
                    /\ Recurse(Append(dn, Element))

addElement == /\ Found /\ ~Leaf /\ Matching = {} /\ learn
              /\ tree' = [tree EXCEPT ![dn].ht = Append(@, Element)]
              /\ Recurse(Append(dn, Element))

NoElement == /\ Found /\ ~Leaf /\ Matching = {} /\ ~learn
             /\ Returns(0)
             /\ UNCHANGED <<tree, sites, progs>>

learnSiteR == \/ NoNode \/ newLeaf \/ newInnerNode
              \/ foundSite \/ searchDn \/ addElement \/ NoElement

DTNext == \/ addProgToDT
          \/ \E g \in NGraphs : learnSite(g) \/ findSite(g)
          \/ learnSiteR

DTSpec == DTInit /\ [][DTNext]_dtVars

-----------------------------------------------------------------------------
(***************************************************************************)
(* Statistics printed by option -s: each hash element counts one node,     *)
(* even when the pointer it holds is still NULL.                           *)
(***************************************************************************)
countNodesDT == 1 + MapThenSumSet(LAMBDA p : Len(tree[p].ht), DOMAIN tree)

Leaves == {p \in DOMAIN tree : Len(p) = siteSize}

countLeavesDT ==
    IF tree = <<>> THEN 1
    ELSE Cardinality({p \in DOMAIN tree : tree[p].ht = <<>>})
         + MapThenSumSet(LAMBDA p : Cardinality({k \in DOMAIN tree[p].ht :
                              Append(p, tree[p].ht[k]) \notin DOMAIN tree}),
                         DOMAIN tree)

-----------------------------------------------------------------------------
(***************************************************************************)
(* Correctness.                                                            *)
(***************************************************************************)
Letters == {Letter(w, g, r) : w \in BOOLEAN, g \in NGraphs, r \in 1..siteSize}

DTTypeOK ==
    /\ withLabels \in BOOLEAN
    /\ DOMAIN tree \subseteq BoundedSeq(Letters, siteSize)
    /\ \A p \in DOMAIN tree : /\ tree[p].i \in Nat
                              /\ tree[p].ht \in Seq(Letters)
    /\ sites \in Seq(Seq(1..nProgs)) /\ progs \in Seq(Seq(1..nSites))
    /\ nProgs <= MaxProgs
    /\ proc \in {"idle", "learnSiteR"}
    /\ dn \in BoundedSeq(Letters, siteSize)
    /\ Running => siteG \in NGraphs
    /\ learn \in BOOLEAN

\* A chain never offers two elements for one letter.
ChainsAreSets == \A p \in DOMAIN tree : IsInjective(tree[p].ht)

\* Every node but the root hangs from one element, chains stop at the leaves,
\* and the only element without a node is the one the running insertion is
\* about to fill.
TreeIsClosed ==
    /\ \A p \in DOMAIN tree \ {<<>>} :
          /\ Front(p) \in DOMAIN tree
          /\ Last(p) \in Range(tree[Front(p)].ht)
    /\ \A p \in DOMAIN tree : \A e \in Range(tree[p].ht) :
          \/ Append(p, e) \in DOMAIN tree
          \/ Running /\ learn /\ dn = Append(p, e)
    /\ \A p \in DOMAIN tree : tree[p].ht = <<>> <=> Len(p) = siteSize

\* The leaves are numbered 1..nSites, each number once: dt->sites[i-1] is in
\* bounds.
LeavesNumberSites ==
    /\ {tree[p].i : p \in Leaves} = 1..nSites
    /\ \A p, q \in Leaves : tree[p].i = tree[q].i => p = q

\* printInfoDT prints nLearntSites*siteSize+1 as the maximum number of nodes;
\* there is a leaf for each site.
NodesBounded ==
    proc = "idle" => /\ countNodesDT <= nSites * siteSize + 1
                     /\ countNodesDT >= nSites + 1
                     /\ nSites > 0 => countLeavesDT = nSites

(***************************************************************************)
(* The tree after any sequence of calls, and in the middle of an           *)
(* insertion: one way for each letter, no element whose node is never      *)
(* created, numbered leaves that index dt->sites, and statistics that      *)
(* agree with what was learnt.                                             *)
(***************************************************************************)
TreeInv == /\ DTTypeOK /\ ChainsAreSets /\ TreeIsClosed
           /\ LeavesNumberSites /\ NodesBounded

(***************************************************************************)
(* site->progs and prog->sites are two views of one relation, without      *)
(* repetition: a program is listed by a site iff it lists that site.       *)
(***************************************************************************)
ProgsAndSitesAgree ==
    /\ \A n \in 1..nSites : IsInjective(sites[n])
    /\ \A p \in 1..nProgs : IsInjective(progs[p])
    /\ \A n \in 1..nSites, p \in 1..nProgs :
          p \in Range(sites[n]) <=> n \in Range(progs[p])

(***************************************************************************)
(* The tree implements the index of SiteIndex: two sites share a leaf iff  *)
(* they have the same rows and, when labels are checked, the same labels.  *)
(* A leaf is the key it stands for; a call answers in its last step.       *)
(***************************************************************************)
Index == INSTANCE SiteIndex WITH
            Keys   <- {KeyOf(w, g) : w \in BOOLEAN, g \in NGraphs},
            number <- [key \in Leaves |-> tree[key].i],
            owners <- [n \in 1..nSites |-> Range(sites[n])]

ImplementsIndex == Index!Spec
=============================================================================
