-------------------------------- MODULE GTSI --------------------------------
(***************************************************************************)
(* src/GTSI.cpp and the tree of words of src/libsGTSI/Traversal: learn the *)
(* words of one graph (-l) or of a list of graphs (-ll), then count those  *)
(* that can be walked in a graph or in each graph of a list.               *)
(*                                                                         *)
(* The tree is a sequence of nodes, tree[1] its root; a node holds its     *)
(* letter, the positions of its fils in their order, and feuille.  The     *)
(* search parcourirDepuisSommetRec is recursive: frames[d] is its d-th     *)
(* call, with its own count and set of numbered nodes (arguments passed by *)
(* value), while the array numeros is one for all of them.  numeros starts *)
(* with zeros, as calloc leaves it.                                        *)
(*                                                                         *)
(* A file of a list that cannot be opened is Unreadable.  Left out: -o and *)
(* -s, which the program parses and never uses, the text of the messages,  *)
(* and files that hold no graph (see GraphFile).  Operators marked "faulty *)
(* variant" are not used by GTSISpec: put in place of the next definition, *)
(* each must break the property named.                                     *)
(***************************************************************************)
EXTENDS Parcours, FiniteSetsExt

CONSTANTS Inputs,      \* records: the graphs to learn and to scan
          Options(_),  \* the options to try with an input: records of list,
                       \* useTree, checkLabels, siteSize, limit
          Unreadable

NoLimit == -1

IsInput(in) == \A files \in {in.learn, in.scan} :
                  /\ files \in Seq(Range(files))
                  /\ \A i \in DOMAIN files : files[i] = Unreadable \/ IsGraph(files[i])

OptionRecords == [list : BOOLEAN, useTree : BOOLEAN, checkLabels : BOOLEAN,
                  siteSize : Nat \ {0}, limit : Nat \cup {NoLimit}]

ASSUME GTSIAssumption == \A in \in Inputs : /\ IsInput(in)
                                            /\ Options(in) \subseteq OptionRecords

VARIABLES
    input, option,
    phase,        \* "learning", "learn", "scanning", "scan", "walk", "abort", "end"
    file,         \* position in the list
    vroot,        \* the root the loop over the nodes is at
    wordTree,
    parcours,     \* -nt: the set of words
    added, learntTotal,
    reconstructed,\* -l: the number of words printed after learning
    frames, numeros,
    reached,      \* ids of the leaves the search from vroot has reached (l)
    leaves, count,\* ids of the leaves reached from the nodes before vroot
    answers       \* the count the search gave for each graph to test

gtsiVars == <<input, option, phase, file, vroot, wordTree, parcours, added, learntTotal,
              reconstructed, frames, numeros, reached, leaves, count, answers>>

learnVars == <<wordTree, parcours, added, learntTotal, reconstructed>>
walkVars == <<frames, numeros, reached, leaves, count>>

W == option.siteSize
gr == (IF phase \in {"learning", "learn"} THEN input.learn ELSE input.scan)[file]
zeros == [i \in 1..W |-> 0]
Root == [mot |-> <<>>, fils |-> <<>>, feuille |-> FALSE]

GTSIInit == /\ input \in Inputs /\ option \in Options(input)
            /\ (~option.list => /\ Len(input.learn) = 1 /\ Len(input.scan) <= 1
                                /\ Unreadable \notin Range(input.learn \o input.scan))
            /\ phase = "learning" /\ file = 1 /\ vroot = 1
            /\ wordTree = <<Root>> /\ parcours = {} /\ added = 0 /\ learntTotal = 0
            /\ reconstructed = 0
            /\ frames = <<>> /\ numeros = zeros /\ reached = {} /\ leaves = {} /\ count = 0
            /\ answers = <<>>

-----------------------------------------------------------------------------
(***************************************************************************)
(* ParcoursNode::addParcours and countLeaves.                              *)
(***************************************************************************)
\* The first fils of node x whose letter equals m, or 0.
Fils(t, x, m) ==
    LET same == {c \in DOMAIN t[x].fils :
                    SameLetter(t[t[x].fils[c]].mot, m, option.checkLabels)}
    IN  IF same = {} THEN 0
        ELSE t[x].fils[CHOOSE c \in same : \A o \in same : c <= o]

\* The nodes that spell the letters of p, as far as the tree has them.
Spelt(t, p) ==
    LET longer(path, i) == LET x == IF Len(path) = i THEN Fils(t, path[i], p[i]) ELSE 0
                           IN  IF x = 0 THEN path ELSE Append(path, x)
        at[i \in 0..Len(p)] == IF i = 0 THEN <<1>>
                               ELSE Once(LAMBDA path : longer(path, i), at[i - 1])
    IN  at[Len(p)]

Adds(t, p) == LET path == Spelt(t, p)
              IN  Len(path) <= Len(p) \/ ~t[Last(path)].feuille

addParcours(t, p) ==
    LET path  == Spelt(t, p)
        d     == Len(path)
        new   == [i \in 1..(Len(p) + 1 - d) |->
                    [mot |-> p[d + i - 1], feuille |-> d + i - 1 = Len(p),
                     fils |-> IF d + i - 1 = Len(p) THEN <<>> ELSE <<Len(t) + i + 1>>]]
        above == [t EXCEPT ![path[d]].fils = IF new = <<>> THEN @ ELSE Append(@, Len(t) + 1),
                           ![path[d]].feuille = @ \/ new = <<>>]
    IN  above \o new

countLeaves(t) == Cardinality({x \in DOMAIN t : t[x].fils = <<>>})

-----------------------------------------------------------------------------
(***************************************************************************)
(* Learning: the loop of main over the files, addGraph and                 *)
(* parcoursFromGraph.                                                      *)
(***************************************************************************)
maxLearn == IF option.list /\ option.limit # NoLimit THEN option.limit - learntTotal ELSE 0
MayLearn == maxLearn = 0 \/ added < maxLearn

MoreToLearn == /\ file <= Len(input.learn)
               /\ option.list /\ option.limit # NoLimit => learntTotal < option.limit

\* Faulty variant: continue without the next line (Terminates).
SameLine == file
NextLine == file + 1

LoadGraph == /\ phase = "learning" /\ MoreToLearn
             /\ IF gr # Unreadable /\ (option.list => option.useTree)
                THEN phase' = "learn" /\ UNCHANGED file
                ELSE file' = NextLine /\ UNCHANGED phase
             /\ vroot' = 1 /\ added' = 0
             /\ UNCHANGED <<input, option, wordTree, parcours, learntTotal, reconstructed,
                            walkVars, answers>>

AddRoot ==
    /\ phase = "learn" /\ vroot \in NodesOf(gr) /\ (option.useTree => MayLearn)
    /\ \E p \in {parcoursLargeur(gr, vroot, W)} :
          IF ~p.asserts THEN phase' = "abort" /\ UNCHANGED <<vroot, wordTree, parcours, added>>
          ELSE /\ vroot' = vroot + 1 /\ UNCHANGED phase
               /\ IF ~p.complete THEN UNCHANGED <<wordTree, parcours, added>>
                  ELSE IF option.useTree
                  THEN /\ wordTree' = addParcours(wordTree, p.mots)
                       /\ added' = added + (IF Adds(wordTree, p.mots) THEN 1 ELSE 0)
                       /\ UNCHANGED parcours
                  ELSE /\ parcours' = parcours \cup
                             {q \in {p.mots} : ~\E o \in parcours :
                                                   SameWord(q, o, option.checkLabels)}
                       /\ UNCHANGED <<wordTree, added>>
    /\ UNCHANGED <<input, option, file, learntTotal, reconstructed, walkVars, answers>>

CloseGraph == /\ phase = "learn" /\ (vroot > Len(gr.children) \/ (option.useTree /\ ~MayLearn))
              /\ phase' = "learning" /\ file' = file + 1
              /\ learntTotal' = IF option.list THEN learntTotal + added ELSE learntTotal
              /\ reconstructed' = IF option.list THEN 0
                                  ELSE IF option.useTree THEN countLeaves(wordTree)
                                  ELSE Cardinality(parcours)
              /\ UNCHANGED <<input, option, vroot, wordTree, parcours, added, walkVars, answers>>

EndLearning == /\ phase = "learning" /\ ~MoreToLearn
               /\ phase' = "scanning" /\ file' = 1
               /\ UNCHANGED <<input, option, vroot, learnVars, walkVars, answers>>

-----------------------------------------------------------------------------
(***************************************************************************)
(* Scanning with the tree: parcourir, parcourirDepuisSommet,               *)
(* parcourirDepuisSommetRec and etape.                                     *)
(***************************************************************************)
LoadTest == /\ phase = "scanning" /\ file <= Len(input.scan)
            /\ IF gr = Unreadable
               THEN file' = NextLine /\ UNCHANGED <<phase, vroot, leaves, count>>
               ELSE /\ phase' = "scan" /\ vroot' = 1 /\ leaves' = {} /\ count' = 0
                    /\ UNCHANGED file
            /\ UNCHANGED <<input, option, learnVars, frames, numeros, reached, answers>>

LeafOf(x) == IF wordTree[x].feuille THEN {x} ELSE {}

Frame(x, r, max, numerotes) ==
    [node |-> x, r |-> r, max |-> max, numerotes |-> numerotes, it |-> 1]

ScanRoot == /\ phase = "scan" /\ option.useTree /\ vroot <= Len(gr.children)
            /\ phase' = "walk" /\ frames' = <<Frame(1, vroot, 0, {})>>
            /\ numeros' = zeros /\ reached' = LeafOf(1)
            /\ UNCHANGED <<input, option, file, vroot, learnVars, leaves, count, answers>>

top == frames[Len(frames)]
next == wordTree[top.node].fils[top.it]
mot == wordTree[next].mot

\* etape: the node the letter leads to, or 0; and whether it takes a number.
Numbering == mot.type \in {"M1", "new"}
etape ==
    CASE mot.type = "M1" -> IF Fits(gr, top.r, mot, option.checkLabels) THEN top.r ELSE 0
      [] mot.type = "R" -> IF top.max >= mot.i THEN numeros[mot.i] ELSE 0
      [] OTHER ->
         IF mot.k > children_nb(gr, top.r) THEN 0
         ELSE LET f == gr.children[top.r][mot.k]
              IN  IF f \in top.numerotes THEN IF mot.type = "old" THEN f ELSE 0
                  ELSE IF /\ top.max < mot.i /\ mot.type = "new"
                          /\ Fits(gr, f, mot, option.checkLabels) THEN f ELSE 0

\* Faulty variant: the callee's count is kept by the caller (WordTreeInv).
StepInPlace == /\ frames' = Append([frames EXCEPT ![Len(frames)].it = @ + 1,
                                                  ![Len(frames)].max = @ + 1],
                                   Frame(next, etape, top.max + 1, top.numerotes \cup {etape}))
               /\ numeros' = [numeros EXCEPT ![top.max + 1] = etape]
StepNumbering == /\ frames' = Append([frames EXCEPT ![Len(frames)].it = @ + 1],
                                     Frame(next, etape, top.max + 1, top.numerotes \cup {etape}))
                 /\ numeros' = [numeros EXCEPT ![top.max + 1] = etape]

Etape == /\ phase = "walk" /\ frames # <<>> /\ top.it <= Len(wordTree[top.node].fils)
         /\ IF etape = 0
            THEN /\ frames' = [frames EXCEPT ![Len(frames)].it = @ + 1]
                 /\ UNCHANGED <<numeros, reached>>
            ELSE /\ reached' = reached \cup LeafOf(next)
                 /\ IF Numbering THEN StepNumbering
                    ELSE /\ frames' = Append([frames EXCEPT ![Len(frames)].it = @ + 1],
                                             Frame(next, etape, top.max, top.numerotes))
                         /\ UNCHANGED numeros
         /\ UNCHANGED <<input, option, phase, file, vroot, learnVars, leaves, count, answers>>

ReturnRec == /\ phase = "walk" /\ frames # <<>> /\ top.it > Len(wordTree[top.node].fils)
             /\ frames' = SubSeq(frames, 1, Len(frames) - 1)
             /\ UNCHANGED <<input, option, phase, file, vroot, learnVars, numeros, reached, leaves,
                            count, answers>>

\* Faulty variant: a word counts for each root (CountsWords).
AllLeaves == Cardinality(reached)
NewLeaves == Cardinality(reached \ leaves)

CountLeaves == /\ phase = "walk" /\ frames = <<>>
               /\ phase' = "scan" /\ vroot' = vroot + 1
               /\ count' = count + NewLeaves /\ leaves' = leaves \cup reached
               /\ UNCHANGED <<input, option, file, learnVars, frames, numeros, reached, answers>>

\* -nt: the loop of main over the words, with Parcours::parcourir.
CountWords == /\ phase = "scan" /\ ~option.useTree /\ vroot <= Len(gr.children)
              /\ count' = Cardinality({p \in parcours : parcourir(gr, p, TRUE)})
              /\ vroot' = Len(gr.children) + 1
              /\ UNCHANGED <<input, option, phase, file, learnVars, frames, numeros, reached, leaves,
                             answers>>

CloseTest == /\ phase = "scan" /\ vroot > Len(gr.children)
             /\ phase' = "scanning" /\ file' = file + 1
             /\ answers' = Append(answers, count)
             /\ UNCHANGED <<input, option, vroot, learnVars, walkVars>>

EndScan == /\ phase = "scanning" /\ file > Len(input.scan)
           /\ phase' = "end"
           /\ UNCHANGED <<input, option, file, vroot, learnVars, walkVars, answers>>

Done == phase \in {"abort", "end"} /\ UNCHANGED gtsiVars

GTSINext == \/ LoadGraph \/ AddRoot \/ CloseGraph \/ EndLearning
            \/ LoadTest \/ ScanRoot \/ Etape \/ ReturnRec \/ CountLeaves \/ CountWords
            \/ CloseTest \/ EndScan \/ Done

GTSISpec == GTSIInit /\ [][GTSINext]_gtsiVars /\ WF_gtsiVars(GTSINext)
-----------------------------------------------------------------------------
(***************************************************************************)
(* Properties.                                                             *)
(***************************************************************************)
\* Types; the search is never deeper than the tree and numbers at most W nodes.
GTSITypeOK ==
    /\ phase \in {"learning", "learn", "scanning", "scan", "walk", "abort", "end"}
    /\ \A x \in DOMAIN wordTree :
          /\ wordTree[x].feuille \in BOOLEAN
          /\ \A c \in DOMAIN wordTree[x].fils : wordTree[x].fils[c] \in x + 1 .. Len(wordTree)
    /\ \A d \in DOMAIN frames : /\ frames[d].node \in DOMAIN wordTree
                                /\ frames[d].r \in NodesOf(gr)
                                /\ frames[d].max \in 0..W
                                /\ frames[d].numerotes \subseteq NodesOf(gr)
    /\ numeros \in [1..W -> Nat]
    /\ reached \cup leaves \subseteq DOMAIN wordTree
    /\ {added, learntTotal, reconstructed, count} \subseteq Nat

\* Words are compared without the labels that equals leaves out.
Canon(p) == IF option.checkLabels THEN p
            ELSE [i \in DOMAIN p |-> IF p[i].type = "new" THEN [p[i] EXCEPT !.symbol = 0] ELSE p[i]]

\* The words spelt from the root to each node; a father comes before its fils.
Father(t, x) == CHOOSE f \in 1..(x - 1) : x \in Range(t[f].fils)
WordTo(t) == LET word[x \in DOMAIN t] ==
                   IF x = 1 THEN <<>> ELSE Append(word[Father(t, x)], t[x].mot)
             IN  word

LeavesOf(t) == {x \in DOMAIN t : t[x].feuille}
Words == LET spelt == WordTo(wordTree)
         IN  {Canon(spelt[x]) : x \in LeavesOf(wordTree)} \cup {Canon(p) : p \in parcours}

\* The roots, of the graphs to learn, of sites of W nodes.
Graphs(files) == Range(files) \ {Unreadable}
Sites == {s \in UNION {{g} \X NodesOf(g) : g \in Graphs(input.learn)} :
             parcoursLargeur(s[1], s[2], W).complete}
WordsOfSites == {Canon(parcoursLargeur(s[1], s[2], W).mots) : s \in Sites}

\* Nodes in the order of their least path from the root: shorter first, then
\* by the numbers of the children.  The reference for the numbering.
Routes == UNION {[1..d -> {1, 2}] : d \in 0..(W - 1)}
End(g, v, path) == FoldLeft(LAMBDA x, k : IF x # 0 /\ k <= children_nb(g, x)
                                          THEN g.children[x][k] ELSE 0, v, path)
Less(p, q) == \/ Len(p) < Len(q)
              \/ /\ Len(p) = Len(q)
                 /\ \E i \in DOMAIN p : p[i] < q[i] /\ \A j \in 1..(i - 1) : p[j] = q[j]
Least(g, v, p) == End(g, v, p) # 0 /\ \A q \in Routes : End(g, v, q) = End(g, v, p) => ~Less(q, p)
LeastRoutes(g, v) == {p \in Routes : Least(g, v, p)}
AreFirst(s, R) == /\ \A i, j \in DOMAIN s : i < j => Less(s[i], s[j])
                  /\ \A p \in R \ Range(s) : \A i \in DOMAIN s : Less(s[i], p)
Site(g, v) == LET first == CHOOSE s \in [1..W -> LeastRoutes(g, v)] : AreFirst(s, LeastRoutes(g, v))
              IN  [i \in 1..W |-> End(g, v, first[i])]
Links(g, site) == {e \in (1..W) \X {1, 2} \X (1..W) :
                      LET children == g.children[site[e[1]]]
                      IN  e[2] <= Len(children) /\ children[e[2]] = site[e[3]]}

\* The sites whose word meets no assert: the others end the program (AddRoot).
Binary == {s \in Sites : parcoursLargeur(s[1], s[2], W).asserts}

\* Two roots write the same word exactly when their sites, the W nodes that come
\* first from the root, have the same links at the same places and, with
\* labels, the same labels: the word says all of the site and nothing else.
WordsTellSites ==
    phase = "learning" /\ file = 1 =>
        \A s, t \in Binary :
            LET a == Site(s[1], s[2])
                b == Site(t[1], t[2])
            IN  SameWord(parcoursLargeur(s[1], s[2], W).mots,
                         parcoursLargeur(t[1], t[2], W).mots, TRUE)
                <=> /\ Links(s[1], a) = Links(t[1], b)
                    /\ \A i \in 1..W : s[1].symb[a[i]] = t[1].symb[b[i]]

\* Learning keeps every site of every readable graph and nothing else, when no
\* limit stops it.
LearntIsEverySite ==
    phase \in {"scanning", "scan", "walk", "end"} /\ (option.list => option.useTree)
        /\ (option.list => option.limit = NoLimit) => Words = WordsOfSites

\* -ll counts the words of the tree as it learns them, over all files; with
\* -lc it stops at the limit and not before.
LimitIsKept ==
    /\ option.list => Cardinality(Words) =
                      learntTotal + (IF phase \in {"learn", "abort"} THEN added ELSE 0)
    /\ option.list /\ option.useTree /\ option.limit # NoLimit /\ phase = "scanning" =>
          learntTotal = Min({option.limit, Cardinality(WordsOfSites)})

\* The array numeros is shared by all calls of the search, yet each call finds
\* in its first max places what a walk of its own letters alone would have put
\* there, and stands where that walk would stand.
NumerosIsOwn ==
    \A d \in DOMAIN frames :
        LET f == frames[d]
            alone == walk(gr, vroot, WordTo(wordTree)[f.node], option.checkLabels)
        IN  f.node # 1 => /\ alone.ok /\ f.r = alone.sc
                          /\ alone.numeros = SubSeq(numeros, 1, f.max)
                          /\ f.numerotes = Range(alone.numeros)

\* The asserts of etape (476, 505) and of the search (452) hold: a letter for a
\* new node comes when its number is the next one, a letter for an old node when
\* that node has its number, and only the root may be without fils and no leaf.
AssertsHold ==
    /\ \A x \in DOMAIN wordTree : x # 1 => wordTree[x].feuille \/ wordTree[x].fils # <<>>
    /\ phase = "walk" /\ frames # <<>> /\ top.it <= Len(wordTree[top.node].fils) =>
          CASE mot.type = "M1" -> top.max = 0
            [] mot.type = "new" -> etape # 0 => top.max = mot.i - 1
            [] OTHER -> top.max >= mot.i

\* The tree spells a set of words as large as the counters say, and the search
\* of it keeps its shared array in order and meets no failing assert.
WordTreeInv == GTSITypeOK /\ LimitIsKept /\ NumerosIsOwn /\ AssertsHold

\* Learning adds the words of a set one at a time, and each answer is the number
\* of learnt words that can be walked, each by itself, in the graph: searching
\* the tree with its shared array, or walking word by word with -nt, both
\* implement WordCounter.  (-nt with -ncl does not: NoTreeCountsTheSame.)
Readable(files) == ElementsAt(files, {i \in DOMAIN files : files[i] # Unreadable})
Queries == [i \in DOMAIN answers |-> [graph  |-> Readable(input.scan)[i],
                                      labels |-> option.checkLabels]]

Counter == INSTANCE WordCounter WITH
              words <- Words, queries <- Queries, answers <- answers,
              IsWord <- LAMBDA w : w # <<>>,
              Holds <- LAMBDA w, q : parcourir(q.graph, w, q.labels)
CountsWords == Counter!Spec

\* A learnt site is found in every graph that holds it: what the walk of a word
\* accepts covers the site the word was written for.
LearntIsFound ==
    phase = "scanning" /\ answers # <<>> =>
        LET g == Queries[Len(answers)].graph
            held == {Canon(parcoursLargeur(g, v, W).mots) : v \in NodesOf(g)}
        IN  answers[Len(answers)] >= Cardinality(Words \cap held)

\* Every site is learnt once, none is made up, and each is found again wherever
\* it occurs.
SitesAreFound == LearntIsEverySite /\ LearntIsFound

\* The program comes to an end, or to an assert on a node of three children.
Terminates == <>(phase = "end" \/ (phase = "abort" /\ \E g \in Graphs(input.learn) :
                                    \E x \in NodesOf(g) : children_nb(g, x) > 2))

\* Expected violations, down to HitsAreSites.
\* -l prints how many words it has learnt.
PrintsWordsLearnt == phase = "scanning" /\ ~option.list => reconstructed = Cardinality(Words)

\* -nt only makes the program slower, whatever the labels (GTSI.cpp:18-19).
NoTreeCountsTheSame ==
    \A i \in DOMAIN answers :
        answers[i] = Cardinality({w \in Words : parcourir(Queries[i].graph, w, option.checkLabels)})

\* -lc limits the sites learnt in total, with -l too (GTSI.cpp:23, 26).
LimitIsTotal == option.limit # NoLimit => Cardinality(Words) <= option.limit

\* A site is counted in a graph that holds it: nodes of the graph, one for each
\* node of the site, with the links of the site at the same places.
HoldsSite(g, s) ==
    LET site == Site(s[1], s[2])
    IN  \E f \in [1..W -> NodesOf(g)] :
            /\ \A i, j \in 1..W : i # j => f[i] # f[j]
            /\ option.checkLabels => \A i \in 1..W : g.symb[f[i]] = s[1].symb[site[i]]
            /\ Links(s[1], site) \subseteq Links(g, f)
HitsAreSites ==
    phase = "scanning" /\ answers # <<>> /\ option.useTree /\ option.limit = NoLimit =>
        answers[Len(answers)] =
            Cardinality({Canon(parcoursLargeur(s[1], s[2], W).mots) :
                         s \in {s \in Sites : HoldsSite(Queries[Len(answers)].graph, s)}})
=============================================================================
