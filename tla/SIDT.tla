-------------------------------- MODULE SIDT --------------------------------
(***************************************************************************)
(* SIDT.cpp and libSIDT.cpp: learn the sites of some graphs, then count    *)
(* the learnt sites of others.                                             *)
(*                                                                         *)
(* A run learns a list of files and then scans a list of files.  Option    *)
(* -ll reads both lists from text files, one path a line; option -l takes  *)
(* one path for each from the command line.  The sites of a graph are      *)
(* handled one root at a time.  BFSGraph shows that BFS computes SiteAt;   *)
(* DecisionTree shows that the tree implements SiteIndex, whose actions    *)
(* are used here.                                                          *)
(*                                                                         *)
(* Operators marked "faulty variant" are not used by Spec.  Each is the    *)
(* definition below it with a likely mistake; put in its place, it must    *)
(* break the property named.                                               *)
(***************************************************************************)
EXTENDS Sites

CONSTANTS
    Files,      \* paths
    GraphOf,    \* path -> graph, for the paths that hold a valid graph
    Lists,      \* the lists the user may pass
    Limits,     \* values of option -lc
    Functions,  \* the functions of the scanned program: [start, end)
    MaxProgs    \* bound on the number of programs, at least the longest list

(***************************************************************************)
(* A list file: its paths, and whether its last line ends with a newline.  *)
(***************************************************************************)
ASSUME SIDTAssumption ==
    /\ DOMAIN GraphOf \subseteq Files /\ DOMAIN GraphOf # {}
    /\ \A f \in DOMAIN GraphOf : IsGraph(GraphOf[f])
    /\ \A l \in Lists : l.paths \in Seq(Files) /\ l.newline \in BOOLEAN
                        /\ Len(l.paths) <= MaxProgs
    /\ Limits \subseteq Nat /\ MaxProgs \in Nat

VARIABLES
    command,            \* "-l" or "-ll"
    withLabels, siteCountLimit,     \* options
    toLearn, toScan,    \* the two lists
    pc,                 \* "learn list", "learn graph", "scan list", "scan graph", "end"
    line,               \* the next line of the list being read
    gr,                 \* the path of the graph in memory
    node,               \* the next root in gr, a + 1
    n,                  \* sites learnt from gr so far
    nLearntSites,       \* dt->nLearntSites
    progs,              \* dt->progs: path (message) and sites (nSites) of each
    number, owners, nSites, nProgs, answer,   \* the index
    found,              \* site numbers found in gr (set sites of findGraph)
    scanFuncs,          \* hits per function in gr
    results             \* what findGraph gave for each scanned graph: n, scanFuncs

index == <<number, owners, nSites, nProgs, answer>>
options == <<command, withLabels, siteCountLimit, toLearn, toScan>>
vars == <<options, pc, line, gr, node, n, nLearntSites, progs, index,
          found, scanFuncs, results>>

\* What BFS returns for each root of each graph, NULL being left out, as the
\* decision tree sees it with and without labels.
KeyAt == [w \in BOOLEAN |-> [f \in DOMAIN GraphOf |->
            [root \in {m \in NodesOf(GraphOf[f]) : HasSite(GraphOf[f], m)} |->
                KeyOf(w, SiteAt(GraphOf[f], root))]]]

Keys == KeyAt[withLabels]
AllKeys == UNION {Range(KeyAt[w][f]) : w \in BOOLEAN, f \in DOMAIN GraphOf}

Index == INSTANCE SiteIndex WITH Keys <- AllKeys

Function == DOMAIN Functions
noHits == [k \in Function |-> 0]

(***************************************************************************)
(* main: with -l a path that cannot be opened ends the program at once.    *)
(***************************************************************************)
Init == /\ command \in {"-l", "-ll"}
        /\ withLabels \in BOOLEAN /\ siteCountLimit \in Limits
        /\ toLearn \in Lists /\ toScan \in Lists
        /\ command = "-l" =>
              /\ Len(toLearn.paths) = 1 /\ Len(toScan.paths) <= 1
              /\ Range(toLearn.paths) \cup Range(toScan.paths) \subseteq DOMAIN GraphOf
        /\ pc = "learn list" /\ line = 1
        /\ gr = CHOOSE f \in DOMAIN GraphOf : TRUE
        /\ node = 1 /\ n = 0
        /\ nLearntSites = 0 /\ progs = <<>>
        /\ Index!Init
        /\ found = {} /\ scanFuncs = noHits /\ results = <<>>

(***************************************************************************)
(* A line of a list loses its last character, meant to be the newline; a   *)
(* path that lost a letter of its own is not the path of a graph.          *)
(***************************************************************************)
Readable(l, k) ==
    /\ l.paths[k] \in DOMAIN GraphOf
    /\ command = "-ll" /\ k = Len(l.paths) => l.newline

AtMostLimit == siteCountLimit = 0 \/ nLearntSites <= siteCountLimit  \* faulty variant
BelowLimit == siteCountLimit = 0 \/ nLearntSites < siteCountLimit

-----------------------------------------------------------------------------
(* Learning *)

MoreToLearn == pc = "learn list" /\ line <= Len(toLearn.paths) /\ BelowLimit

SkipLearn ==
    /\ MoreToLearn /\ ~Readable(toLearn, line)
    /\ line' = line + 1
    /\ UNCHANGED <<options, pc, gr, node, n, nLearntSites, progs, index,
                   found, scanFuncs, results>>

\* graph_from_file, then newProg and addProgToDT of learnGraph.
StartLearn ==
    /\ MoreToLearn /\ Readable(toLearn, line)
    /\ pc' = "learn graph"
    /\ gr' = toLearn.paths[line] /\ node' = 1 /\ n' = 0
    /\ progs' = Append(progs, [message |-> gr', nSites |-> 0])
    /\ Index!AddProg
    /\ UNCHANGED <<options, line, nLearntSites, found, scanFuncs, results>>

InGraph == node <= Len(GraphOf[gr].children)
HasNGraph == node \in DOMAIN Keys[gr]

\* Faulty variant: known sites are not learnt again (OwnersAreExact).
LearnsOnce == HasNGraph /\ BelowLimit /\ Keys[gr][node] \notin Index!Learnt
Learns == HasNGraph /\ BelowLimit

AnyAnswer == TRUE           \* faulty variant (IndexInv)
AnswersNew == answer'.i = 0

LearnSite ==
    /\ pc = "learn graph" /\ InGraph /\ Learns
    /\ Index!Learn(Keys[gr][node])
    /\ IF AnswersNew
       THEN n' = n + 1 /\ nLearntSites' = nLearntSites + 1
       ELSE UNCHANGED <<n, nLearntSites>>
    /\ node' = node + 1
    /\ UNCHANGED <<options, pc, line, gr, progs, found, scanFuncs, results>>

PassNode ==
    /\ pc = "learn graph" /\ InGraph /\ ~Learns
    /\ node' = node + 1
    /\ UNCHANGED <<options, pc, line, gr, n, nLearntSites, progs, index,
                   found, scanFuncs, results>>

EndLearnGraph ==
    /\ pc = "learn graph" /\ ~InGraph
    /\ progs' = [progs EXCEPT ![nProgs].nSites = n]
    /\ pc' = "learn list" /\ line' = line + 1
    /\ UNCHANGED <<options, gr, node, n, nLearntSites, index,
                   found, scanFuncs, results>>

StartScanning ==
    /\ pc = "learn list" /\ ~MoreToLearn
    /\ pc' = "scan list" /\ line' = 1
    /\ UNCHANGED <<options, gr, node, n, nLearntSites, progs, index,
                   found, scanFuncs, results>>

-----------------------------------------------------------------------------
(* Scanning *)

MoreToScan == pc = "scan list" /\ line <= Len(toScan.paths)

SkipScan ==
    /\ MoreToScan /\ ~Readable(toScan, line)
    /\ line' = line + 1
    /\ UNCHANGED <<options, pc, gr, node, n, nLearntSites, progs, index,
                   found, scanFuncs, results>>

StartScan ==
    /\ MoreToScan /\ Readable(toScan, line)
    /\ pc' = "scan graph"
    /\ gr' = toScan.paths[line] /\ node' = 1
    /\ found' = {} /\ scanFuncs' = noHits
    /\ UNCHANGED <<options, line, n, nLearntSites, progs, index, results>>

\* findFuncFromInt; the address of a node is its number.
FuncAt(address, k) == /\ Functions[k].start <= address
                      /\ address < Functions[k].end
                      /\ \A j \in 1..(k - 1) :
                           ~(Functions[j].start <= address /\ address < Functions[j].end)

\* BFSInfo counts the nodes of the site but its root.
CountFunctions(q) ==
    [k \in Function |-> scanFuncs[k]
        + Cardinality({r \in 2..siteSize : FuncAt(q[r], k)})]

Record(r) == IF r = 0 THEN found ELSE found \cup {r}

Found(r) == r # 0               \* faulty variant (ScanIsExact)
FirstFound(r) == r # 0 /\ r \notin found

FindSite ==
    /\ pc = "scan graph" /\ InGraph
    /\ node' = node + 1
    /\ IF HasNGraph
       THEN LET r == Index!Find(Keys[gr][node])
            IN  /\ found' = Record(r)
                /\ scanFuncs' = IF FirstFound(r)
                                THEN CountFunctions(SiteQueue(GraphOf[gr], node))
                                ELSE scanFuncs
       ELSE UNCHANGED <<found, scanFuncs>>
    /\ UNCHANGED <<options, pc, line, gr, n, nLearntSites, progs, index, results>>

EndFindGraph ==
    /\ pc = "scan graph" /\ ~InGraph
    /\ results' = Append(results, [path |-> gr, sites |-> Cardinality(found),
                                   funcs |-> scanFuncs])
    /\ pc' = "scan list" /\ line' = line + 1
    /\ UNCHANGED <<options, gr, node, n, nLearntSites, progs, index,
                   found, scanFuncs>>

End ==
    /\ pc = "scan list" /\ ~MoreToScan
    /\ pc' = "end"
    /\ UNCHANGED <<options, line, gr, node, n, nLearntSites, progs, index,
                   found, scanFuncs, results>>

\* The program has returned; anything else that cannot move is a deadlock.
Ended == pc = "end" /\ UNCHANGED vars

Next == \/ SkipLearn \/ StartLearn \/ LearnSite \/ PassNode \/ EndLearnGraph
        \/ StartScanning
        \/ SkipScan \/ StartScan \/ FindSite \/ EndFindGraph \/ End
        \/ Ended

Spec == Init /\ [][Next]_vars

-----------------------------------------------------------------------------
(***************************************************************************)
(* Correctness.                                                            *)
(***************************************************************************)
TypeOK ==
    /\ pc \in {"learn list", "learn graph", "scan list", "scan graph", "end"}
    /\ line \in 1..(MaxProgs + 1) /\ gr \in DOMAIN GraphOf
    /\ node \in 1..(Len(GraphOf[gr].children) + 1)
    /\ n \in Nat /\ nLearntSites \in Nat
    /\ progs \in Seq([message : DOMAIN GraphOf, nSites : Nat])
    /\ Index!TypeOK
    /\ found \subseteq 1..nSites
    /\ scanFuncs \in [Function -> Nat]
    /\ results \in Seq([path : DOMAIN GraphOf, sites : Nat,
                        funcs : [Function -> Nat]])

Learning == pc \in {"learn list", "learn graph"}
Learnt == Index!Learnt
Wanted == UNION {Range(Keys[toLearn.paths[k]]) :
                    k \in {j \in DOMAIN toLearn.paths : Readable(toLearn, j)}}

(***************************************************************************)
(* The three counts of learnt sites agree at every step: nLearntSites,     *)
(* which the limit is tested against and -s prints; nSites, the sites in   *)
(* the tree; and what learnGraph returned for each program.  The count of  *)
(* a program is written only when its graph is finished.                   *)
(***************************************************************************)
CountersAgree ==
    LET counts == [p \in DOMAIN progs |-> progs[p].nSites]
    IN  /\ nLearntSites = nSites
        /\ nSites = MapThenSumSet(LAMBDA p : counts[p], DOMAIN progs)
                    + (IF pc = "learn graph" THEN n ELSE 0)

\* The types, and the counts kept apart in different functions.
IndexInv == TypeOK /\ CountersAgree

(***************************************************************************)
(* Learning stores the sites of all the graphs that could be read, each    *)
(* once, whatever their order; with a limit it stores exactly that many of *)
(* them, or all when there are fewer, although the limit is tested before  *)
(* a line is used and again before a site is learnt.                       *)
(***************************************************************************)
LearntIsWanted ==
    ~Learning =>
        /\ Learnt \subseteq Wanted
        /\ nSites = IF siteCountLimit = 0 THEN Cardinality(Wanted)
                    ELSE Min({siteCountLimit, Cardinality(Wanted)})

(***************************************************************************)
(* Without a limit a site is attributed to exactly the programs whose      *)
(* graph contains it, including those learnt after the site was known.     *)
(***************************************************************************)
OwnersAreExact ==
    (~Learning /\ siteCountLimit = 0) =>
        \A k \in Learnt, p \in 1..nProgs :
            p \in owners[number[k]]
                <=> k \in Range(Keys[progs[p].message])

\* What findGraph returns for a graph: its distinct learnt sites.  -l prints it,
\* -ll only with optionInfo, which nothing sets (lines 169 and 257).
SitesCountOnce ==
    \A r \in Range(results) :
        r.sites = Cardinality(Learnt \cap Range(Keys[r.path]))

\* The hits of a function, printed with either option: its nodes in the found sites, a site
\* that occurs at several roots counting where it occurs first.
FirstRoots(f) ==
    {m \in DOMAIN Keys[f] : /\ Keys[f][m] \in Learnt
                            /\ \A l \in DOMAIN Keys[f] :
                                  l < m => Keys[f][l] # Keys[f][m]}

Hits(f, k) ==
    [m \in DOMAIN Keys[f] |->
        Cardinality({j \in 2..siteSize : FuncAt(SiteQueue(GraphOf[f], m)[j], k)})]

HitsCountOnce ==
    \A r \in Range(results) : \A k \in Function :
        LET hits == Hits(r.path, k)
        IN  r.funcs[k] = MapThenSumSet(LAMBDA m : hits[m], FirstRoots(r.path))

(***************************************************************************)
(* What findGraph gives for a graph does not depend on the files scanned   *)
(* before it: each learnt site it contains counts once in the total and    *)
(* once in the hits of the functions, however often it occurs.             *)
(***************************************************************************)
ScanIsExact == SitesCountOnce /\ HitsCountOnce

(***************************************************************************)
(* The usage text says that -ll learns a list of files, one path a line:   *)
(* every path that holds a graph is learnt.                                *)
(***************************************************************************)
EveryPathLearnt ==
    (~Learning /\ siteCountLimit = 0) =>
        nProgs = Cardinality({k \in DOMAIN toLearn.paths :
                                toLearn.paths[k] \in DOMAIN GraphOf})
=============================================================================
