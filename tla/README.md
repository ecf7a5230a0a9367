# A TLA+ development for griso

griso finds common subgraphs ("sites") in the control-flow graphs of programs.
It holds three programs over one graph library: **SIDT** learns the sites of
some graphs in a decision tree and looks them up in others, **GTSI** does the
same with words that describe breadth-first walks, and **graphBinAlgo** compares
two graphs with Ullmann's algorithm, on several threads if asked, or reduces one.

This directory models the code that decides what these programs answer, checks
it with TLC on small instances, and proves with TLAPS every safety property and refinement that it checks, for all
instances. Paths below are relative to the repository.

## The system

| Part | Code | State | Operations | Talks to |
|---|---|---|---|---|
| Graph library | `libs/libgraph`, `libs/dict` | nodes in an array, children and fathers as pointers, a dictionary from ids, the marks `explored` and `list_id` on each node | append, add, link, find | everything; the marks are shared by all walks |
| EDG files | `libs/libgraph/graphIO.c`, `nodeIO.c` | a file and a graph under construction | `graph_from_file`, `graph_to_file` | the DOT reader, when the magic is wrong |
| DOT files | `libs/dotparser` | graph, dictionary, list of edges | `addNodeToGraph`, `addEdgesToGraph`, `fixDict` | the EDG reader, when the magic is right |
| Site extraction | `libsSIDT/BFSGraph` | a queue, a matrix of links, the marks of the graph | `BFS`, `BFSInfo` | called once or twice for each root by SIDT |
| Decision tree | `libsSIDT/decisionTree`, `Prog` | tree of hash chains, arrays of sites and programs that point at each other | `addProgToDT`, `learnSite`, `findSite`, counts | SIDT |
| SIDT | `SIDT.cpp`, `libSIDT.cpp`, `funcInfo` | options, list being read, counters, hits per function | learn a list, scan a list | the readers and the two above |
| GTSI | `GTSI.cpp`, `libsGTSI/Traversal` | words (`Parcours`), a tree of words | `parcoursLargeur`, `addParcours`, `parcourir` | the readers |
| Ullmann | `libGraphBinAlgo.c` | candidate matrices, association, counters of assigned nodes | `isoUllman`, `backtrack`, `forwardChecking` | graphBinAlgo |
| Threads | `graphBinAlgo.c`, `processSubGraphs` | ranges of roots, semaphores, totals | create, run, join | Ullmann, the marks of the pattern graph |
| Isomorphism of sites | `BFS2`, `pcharcmp` | a track of nodes, a matrix of chars | walk by levels, compare | graphBinAlgo |
| Intervals | `computeInterval`, `reduceInterval` | intervals, headers, marks | partition, collapse, repeat | graphBinAlgo |

What is hard in this code:

* **Marks shared through the graph.** `BFS` does not clear the marks when it
  starts; it trusts every earlier walk to have removed its own, and leaves
  `list_id` broken on purpose. `BFS2` never clears a level before it starts it over.
* **Order.** A link is written when a child is met, before it is known which
  nodes the site will hold. Sites are attributed to programs in the order of a
  list, and the same count is kept in four places. The grammar builds its lists
  backwards. A letter of a word means something only after all the letters before it.
* **Recursion on shared data.** `backtrack` and `parcourirDepuisSommetRec` copy
  some of their data for each call and share the rest, which they undo by hand or
  simply overwrite.
* **Boundaries.** Sizes, ranks in `char`s, numbers counted from 1, a limit tested
  in two functions, names known by a 32-bit hash.
* **Insertion while searching.** One recursive function learns and looks up; it
  creates hash elements before the nodes they point to.
* **Threads** on one graph, with an argument structure that lives on the stack of
  the loop that creates them.
* **Loaders that call each other**, a dictionary of addresses in an array
  that is reallocated, and a writer that may be stopped in the middle of a file.

The list with lines, and what would catch each, is `hazards` in `PROJECT.json`.

## Modules

| Module | Models |
|---|---|
| `CFG` | the graph that everything reads: children in order, labels, fathers, links |
| `Sites` | the site at a root as a pure function, the key the decision tree knows it by |
| `BFSGraph` | `BFS` and `BFSInfo`, one child a step, any sequence of calls on one graph |
| `SiteIndex` | what the decision tree promises: an index from keys to numbers and programs |
| `DecisionTree` | `learnSiteR`, one recursive call a step; implements `SiteIndex` |
| `SIDT` | `main`, `learnGraph`, `findGraph` over the operations of `SiteIndex` |
| `SIDT_proofs` | the index of `SiteIndex`, the counters, what is learnt, who owns it and what a scan prints, proved |
| `Parcours` | the word of a walk (`parcoursLargeur`), equality of words, the walk of one word |
| `WordCounter` | what GTSI promises: a set of words, and how many of them a graph holds |
| `GTSI` | `main`, the tree of words and its search, one letter a step; implements `WordCounter` |
| `GTSI_proofs` | the words say what the sites are, the tree of words is consistent and implements `WordCounter`, proved |
| `Ullmann` | `isoUllman`, `backtrack`, `forwardChecking`, `forbidPerm`, one association a step |
| `Matching_proofs` | the two ways to match a site. `Ullmann`: the partial association, the result and the growth of common subgraphs. `DecisionTree`: the tree is consistent and implements `SiteIndex`. Proved |
| `ProcessSubGraphs` | `main -p -t -m -e` of graphBinAlgo and its threads, down to each access to something shared |
| `ProcessSubGraphs_proofs` | its inductive invariant and theorems |
| `IsoOnly` | `main -isoo` of graphBinAlgo: `BFS2`, one child a step, and `pcharcmp` |
| `Walks_proofs` | the two walks, of `BFSGraph` and of `IsoOnly`, compute the site; the matches are exact; proved |
| `Intervals` | `main -r -R` of graphBinAlgo: `computeInterval` and `reduceInterval`, one pass of a loop a step |
| `Intervals_proofs` | the intervals, their partition, each reduction and the limit of `-R`, proved |
| `DotGraph` | the actions of the DOT grammar, one statement a step |
| `GraphFile` | the EDG writer, item by item, and the two readers that call each other |
| `Dot2Edg` | `dot2edg` and the reader of `edg2dot`: `DotGraph`, then `GraphFile` |
| `Dot2Edg_proofs` | texts, whole files and cut files are read as the properties say, proved |
| `DataLemmas` | lemmas the proofs share: induction over data, sums, folds, queues and balls in a graph |
| `MC...` | instances for TLC |

They compose in layers.

* `BFSGraph` shows that what the C loops return is `SiteAt` of `Sites`; `DecisionTree`
  shows, with `SiteIndex` as a PROPERTY and a refinement mapping (a leaf is the key it
  stands for), that the tree is an index of keys; `SIDT` then uses `SiteAt` and the actions
  of `SiteIndex` for the two, so that its run can handle whole lists of graphs.
* graphBinAlgo has walks of its own. `BFS_gba` is shown in `ProcessSubGraphs` to return
  the same `SiteQueue` of `Sites` although several threads walk one graph, and `BFS2`
  is shown to do so in `IsoOnly`.
* `GTSI` implements `WordCounter`: the words spelt by the leaves of the tree, or the set of
  `-nt`, are the words learnt, and what a search counts is the number of words that can
  be walked *each by itself*. The abstract module has no tree and no shared array.
* `Dot2Edg` is `DotGraph`, then the writer and the readers of `GraphFile`, with the graph in
  memory between them.

### Correspondence

`BFSGraph`: `explored` and `list_id` are functions on the nodes of the graph;
`queue` is the filled part of the array, so `nextQueue` is its length; `s` is
the code's `s` and `a` the number of children handled. `Call` is the prologue of
the two functions, `VisitChild` one iteration of the inner loop (the addition
to the queue, then the link), `CloseNode` the end of the outer one, `Return` the
loop that removes the marks and the test on `nextQueue`. `BFSInfo` differs in the
choice of the slot and in `hits`. In the model `hits` counts per node; `SIDT` sums
it per function with `findFuncFromInt`. A row has two slots: the first child has the first, and every later
child in the site is written to the second, over the one before it, so that a node of three children or more
keeps only the first and the last of the others (`BFSGraph.c:169-174`). `SiteLinksExact` states this of the queue and the
children, apart from `Row`, which the other modules use.

`DecisionTree`: a node is the sequence of letters that leads to it, so a pointer is a
sequence and NULL a sequence outside the domain of `tree`. A letter is a hash
element: label (-1 when labels are not checked), `value`, `value2`. The chain of
a node is the sequence `ht`. The disjuncts of `learnSiteR` are its branches, in order.
`learnSite` (decisionTree.c:29) lacks its return statement; compiled as
CMakeLists.txt says, the result of `learnSiteR` is what the caller reads, and this is
what the model returns.

`SIDT`: `pc` and `line` say which list is read and where, `node` is the loop
variable `a` plus one, `n` the local count of `learnGraph`. One action is one root
of one graph. Options that only print are left out. The nodes of a graph have their
number as address. `-l` is given graphs that load. `results` is what `findGraph` returns and the hits it
leaves: SIDT prints the hits always, and the count with `-l` only (`SIDT.cpp:168-169`), because under `-ll`
the line 258 waits for `optionInfo`, which nothing sets. `countByProg` stays 0, its increments being commented out
(`libSIDT.cpp:60-63`).

`Parcours` and `GTSI`: a letter is a record of its type and what that type uses; children
are counted from 1. A tree node holds its letter, its `fils` in order and `feuille`.
`frames[d]` is the d-th call of the recursive search, with its own count and set of
numbered nodes (passed by value); `numeros` is the one array they share, `reached` (`l`) and
`leaves` the sets of ids in which the leaves are collected. Ids of leaves are positions, so two leaves never have
the same id (the code uses the low 32 bits of their addresses). A failing `assert` leads to
`"abort"`. `siteSize`, `limit` and the other options are part of the initial state. `answers` is what
the search returns, printed with `-l` and, for want of `optionInfo`, not with `-ll` (`GTSI.cpp:189`, 195 and 286). Its lists
are what remains after the last character of each line is cut (`GTSI.cpp:214` and 269): the last path of
a list without a final newline is `Unreadable`.

`Ullmann`: a matrix is the set of the pairs that hold a 1. `frames[d]` is the call of `backtrack`
with `j = d-1`: its copy of the matrix, its place in the two loops, its result. `F` and the two
`assigned` arrays are shared by the calls and undone by hand, as in the code. One action adds a pair,
filters the matrix, returns, or takes a pair back.

`ProcessSubGraphs`: `mpc` and `k` are where `main` is in its two loops, `tpc` where each thread
is. Each action is one access to something shared, with the private work around it: reading
`debut` and reading `fin` are two steps, a node opened or a child looked at is one, a line
written to a file is one. `grData` is one variable: the structure is declared inside
the loop, but an unoptimised build gives it the same place on the stack at each
iteration. A thread that does not hold `mutexBSFPattern` may read and write
nothing of the pattern; `explored` has the values 0, 1, 2 of the code, and is
cleared by the walk itself, which `BFS` of SIDT does not do. `isoUllman` is a table
from a root and a test site to a count: it reads the site of the thread and a test
site that nobody changes any more (the unguarded `maxFound` goes into messages only). Its tests are those with
`vgraphsT[i] # NULL`, tried in order, up to the first that is not 0. Nodes are named
by position, and their ids are taken to be distinct. The pattern has a root, as `-e`
would dereference NULL otherwise. Totals do not overflow, and `pthread_create`
succeeds.

`IsoOnly`: `nodeTrack`, `nnTmax`, `iTrack`, `kChild`, `IsChild` are the locals of `BFS2` (`iTrack` and
`kChild` are its `i` and `k`), `vroot` its root and the row of `main`'s comparison; `mats` are `mP` and `mT`. The matrices of
chars wrap at `CharMod`. Every pattern root is compared with the test roots in order up to
the first equal matrix.

`Intervals`: `intervals` holds the finished intervals and the one being computed, `headers` and
`currH` the loop over them, `pOk` the variable that the scan does not reset. `Reduce` is
the call and its prologue, or `Stop` the end of the loop of `main`, which `lastN` drives. `Visit`, `Rescan` and
`EndScan` are one node of the scan for members, its repetition and its end; `Enter` and `EndInterval` look for new
headers and open the next interval; `Link`, `NextChild`, `NextMember` and `NextInterval` are the
four nested loops that link the reduced graph, and `Return` hands it back. `pc` names the loop.

`DotGraph`: a text is a sequence of statements (node with options, edge, or an error); a name
matters through its `hash` only. A pointer is a place in the array and the number of times the array
had moved when the pointer was taken; `realloc` moves it or not. The root is the node that
`createNode` allocated, which is *not* in the array. `yyerror` ends the program.

`GraphFile`: a file is a sequence of items (magic, count, nodes, links, root). The writer is the only thing
here that can fail half-way: it may be stopped between two items or within one. An item cut
leaves in memory what `fread` does not overwrite, so its number is the old one or a mixture (`Mixed`). `depth` counts the
calls that the two readers make of each other; `MaxDepth` stands for the stack.

## Runs

| Run | Instance | Shows |
|---|---|---|
| `bfs_all` | every graph of 3 nodes with at most 2 different children each, 144 of 4 nodes, 3 of 6 nodes; sites of 3, `CharMod` 4 | marks, ranks, sites and the two links of each row are right after any sequence of calls; every call returns |
| `tree_index` | 4 sites of 3 rows that share prefixes, 2 programs, with and without labels | the tree implements the index; chains, numbers and the two lists of owners stay consistent |
| `sidt_lists` | 3 graphs, 9 lists, limits 0, 1 and 4, both commands | counters, limit, owners, sites found and hits are exact |
| `sidt_newline` | the same | fails: see the findings below |
| `threads_four` | patterns of 5 and of 3 nodes, sites of 3, 2 tests, 4 threads, with and without `-e` | arguments, marks, walks, files and totals are right under every interleaving; the program ends |
| `threads_roots` | the same with 2 threads | fails: see the findings below |
| `ullmann_all` | every loop-free pattern of 3 nodes in every test of 3; graphs of 4 with loops, double links; an empty one; all search options and `-mcs` | nothing is pruned too early, what is shared is undone, the count is exact, common subgraphs grow along links, the search ends |
| `intervals_all` | every graph of 3 nodes, 512 of 4, 4 of 5 or 6; with and without `-R` | the intervals are a partition into maximal intervals; the reduced graph is exact; the limit is one node exactly for reducible graphs; the reduction ends |
| `isoonly_sites` | pairs of graphs of 5 and 6 nodes and small ones, sites of 4, with and without `-cs` | the walk by levels finds the site of the queue walk; the matches are exact; the loops end |
| `gtsi_all` | every graph of 2 nodes learnt, every one searched; 5 lists of graphs of up to 4 nodes, sites of 2 and 3, limits none, 0, 1, 3 | words say exactly what sites are; none is lost; the limit is kept; the tree with its shared array counts the words that can be walked; the program ends |
| `gtsi_limit` | the graphs of 2 nodes with `-l -lc 1` | fails: see the findings below |
| `files_all` | texts of up to 3 nodes and 2 edges, two names with one hash, pairs of option lists, errors; every graph of 2 nodes, some of 3 and the empty one, the writer stopped anywhere; both entries | what is read is the text, the graph, or a first part of it; no stale pointer; whole files load |

Several properties are conjunctions of named parts, which a reader of a counterexample
evaluates one by one: `TreeInv` (`DTTypeOK`, `ChainsAreSets`, `TreeIsClosed`,
`LeavesNumberSites`, `NodesBounded`), `WordTreeInv` (`GTSITypeOK`, `LimitIsKept`, `NumerosIsOwn`,
`AssertsHold`), `IndexInv` (`TypeOK`, `CountersAgree`), `ScanIsExact`
(`SitesCountOnce`, `HitsCountOnce`), `ResultsExact` (`WalksAreRight`, `TotalsExact`,
`ExportsExact`), `SearchInv` (`TypeOK`, `PartialOccurrence`, `NoneLost`), `ResultExact`
(`CountExact`, `MaxFoundExists`), `IntervalInv` (`TypeOK`, `FathersFirst`,
`OneIntervalEach`), `WalkInv` (`TypeOK`, `WalkIsSite`), `SitesAreFound`
(`LearntIsEverySite`, `LearntIsFound`), `ReadersInv` (the types of both readers, `RoomForNodes`,
`LinksStay`), `ConversionExact` (`RoundTrip`, `ConvertedIsText`).

Some properties are stated under a condition, each for something the code does that is listed
under "Disagreements" or is a precondition of the algorithm: `NoneLost` and `CountExact` for graphs without links from a node to itself or
twice to the same child, and without `-np`; `MatchesExact` under `-cs` and `LimitIffReducible` for graphs without links
from a node to itself that their root reaches; `Partition` for graphs that their root reaches.

Why these bounds. The marks of one walk matter to the next one only, and
any node may be a root, so three nodes and two slots already give every relation
between an old site and a new one; the larger graphs of `bfs_all` add the shapes three nodes
cannot have, above all a child met while the queue is full, in the middle of a node with three
children. Its `CharMod` is the smallest that can hold the ranks 1 to 3 beside 0,
the same boundary as 255 for a real char. `SiteLinksExact` supposes siteSize < `CharMod`, which
`-ss` does not check: beyond it rank `CharMod` is stored as 0, no link, and the property would be false.
In `tree_index` the sites differ in the first row, in the last
row, and in a label only; two programs give new, known-to-this-program and
known-to-another. In `sidt_lists` the limit falls inside the first graph, between
two graphs and beyond all; lists contain the same graph twice, an unreadable path, and
graphs in both orders.

In `threads_four` five roots over four threads give ranges of one and of two roots, three roots
over four threads give empty ones, and every semaphore is contended. The patterns
have roots whose site is too small, cycles and children met again; one test matches
some roots and another others.

In `ullmann_all` three nodes are enough for a pair that is taken back and for a matrix row that becomes empty
at depth two, and the patterns are in every position of the tests; four nodes give pairs that survive one
level and fail at the next. In `intervals_all` the graphs of 3 nodes are all there are, those of 4 contain
every way to enter a loop twice, the larger ones need three reductions. `isoonly_sites` has sites that end in
the middle of a level and of a node. In `gtsi_all` sites of three nodes are the smallest in which
two branches of the tree share a prefix and overwrite each other's `numeros`; a node of three children meets the `assert`.
In `files_all` three nodes move the array twice, and the writer can be stopped in every kind of item;
`MaxDepth` 4 is two rounds of the calls between the readers, after which they repeat themselves.

Bounds in the modules: `nThreads`, `nTests`, `MaxProgs` (programs learnt), `siteSize`, `MaxDepth`, and the constant
sets of graphs, sites, texts and lists. No other counter grows without end.

Operators marked "faulty variant" are mistakes the properties must notice; the
pairs are listed under `mutants` in `PROJECT.json`.

**Fairness.** `bfs_all` assumes weak fairness of `Step`, the body of a
running call. A call is sequential code that nothing interrupts. The caller is not
fair: it may never call again. `ullmann_all`, `intervals_all`, `isoonly_sites`, `gtsi_all` and
`files_all` assume weak fairness of the one sequential program there is: it does its next step.
In `files_all` this includes the choice to stop the writer, which is not forced: each of the steps open to it is a step of
the program. `SIDT` states no liveness; its runs check
deadlock, with `Ended` as the only state without a successor of its own, and every
action moves `line`, `node` or `pc` forward. `threads_four` assumes weak fairness of `main` and of
each thread: the system schedules whatever can run. Strong fairness of the semaphores
is not needed: each thread takes each of them a bounded number of times, so the others cannot
take it for ever before it. Deadlock is checked everywhere: a program stutters only after its end
(`main` after it has joined every thread).

## Proofs

Every theorem is about the specification of its module (`Spec`, `DTSpec`, `IsoSpec`, `GTSISpec`) and holds for every value of the constants that the named assumptions
allow; nothing else is assumed. Each strengthened invariant below was checked by TLC on the instance of its run
before it was proved. The assumptions say only what an input is: children are nodes and labels are numbers
(`GraphsAssumption`, `InputsAssumption`, `IsoOnlyAssumption`, `IntervalsAssumption`, `UllmannAssumption`, `GraphFileAssumption`, `GTSIAssumption`), a list names files
(`SIDTAssumption`), `siteSize`, `CharMod` and `nThreads` are positive, NULL is not a value
(`NullAssumption`). TLC evaluates each of them on every run of its module.

| Theorem | States |
|---|---|
| `Walks_proofs`: `TypeCorrect`, `MarksCorrect`, `NumbersCorrect`, `SiteCorrect`, `ResultCorrect` | `TypeOK`, `MarksMatchQueue`, `NumbersMatchQueue`, `SiteLinksExact`, `ResultIsSite` |
| `Walks_proofs`: `WalkCorrect`, `MatchesCorrect` | `WalkInv`, `MatchesExact` |
| `SIDT_proofs`: `IndexNumbers`, `IndexOwners`, `IndexOnlyGrows` | `NumbersAreSites`, `EverySiteOwned`, `OnlyGrows` |
| `Matching_proofs`: `ListsCorrect`, `TreeCorrect`, `TreeImplementsIndex` | `ProgsAndSitesAgree`, `TreeInv`, `ImplementsIndex` |
| `GTSI_proofs`: `TreeOfWords`, `LearntSites`, `SitesFound`, `CountsLearntWords` | `WordTreeInv`, `LearntIsEverySite`, `SitesAreFound`, `CountsWords` (the last two with the tree, or with labels) |
| `GTSI_proofs`: `WordsAreSites` | `WordsTellSites` |
| `SIDT_proofs`: `IndexCorrect`, `LearntCorrect`, `OwnersCorrect`, `ScanCorrect` | `IndexInv`, `LearntIsWanted`, `OwnersAreExact`, `ScanIsExact` |
| `Matching_proofs`: `SearchCorrect`, `GrowthCorrect`, `ResultCorrect` | `SearchInv`, `GrowsByChildren`, `ResultExact` |
| `ProcessSubGraphs_proofs`: `TypeCorrect`, `ArgsCorrect`, `MarksCorrect`, `FilesCorrect`, `ResultsCorrect` | `TypeOK`, `ArgsDelivered`, `MarksAreMine`, `FilesAligned`, `ResultsExact` |
| `Intervals_proofs`: `IntervalsCorrect`, `IntervalsPartition`, `ReductionCorrect`, `ReducibleLimit` | `IntervalInv`, `Partition`, `ReducedExact`, `LimitIffReducible` |
| `Dot2Edg_proofs`: `ReadersSafe`, `TextIsRead`, `ConvertersExact`, `CutFileExact` | `ReadersInv`, `GraphIsText`, `ConversionExact`, `CutFileIsPrefix` |

### The arguments

**BFSGraph.** `TypeOK` and the two invariants of the marks are inductive together. `SiteLinksExact` speaks of
the end of the walk and needs the strengthening `Inv`: where the walk is (`WalkPosition`), that while the
queue has room every child handled so far is in it (`HandledIsQueued`), and that each
entry of the matrix is the rank of the last linked child among those handled
(`RowsSoFar`, with `MaxIsLinked` for the CHOOSE in `Max`). `HandledIsQueued` is
the point: once a child has been left out, the queue is full and stays so, hence no
link written early can become wrong. `Return` then follows from the
fact that a walk that ends with a full queue has handled every child of every queued node: the rows are those
`Row` takes from the queue (`SiteIsNGraph`), and `RowLinksExact` shows which nodes these name when the ranks fit a char.
`ResultIsSite` compares the result with `SiteQueue`, a recursive function. `QueueSoFar` says that the queue is what
`SiteQueue` has built after the nodes closed so far and the children handled so far; the queue a
walk ends with has every node within reach or is full, which decides whether NULL is right.

**IsoOnly.** `BFS2` has no queue: it passes its track again from the root for each level, and tells by the marks which nodes it has
opened. `TrackSoFar` says that whatever pass it is in, some number f of nodes has been handled, the marks 2 are those of the
first f nodes of the track (`OpenedTo`), and the track is what the queue walk has after f nodes, or that and the children of
node f+1 looked at so far (`HandledTo`). A level that ends without a new node has then handled all, so the track is
`SiteQueue` by `BreadthFirstEnds`. `MatricesInv` says that the matrices made are those of the sites (`SiteMatrix`) and `ResultsSoFar` what
the comparison has counted and written for the rows passed. Equal matrices are equal sites (`SameIsSameSite`) because a char holds 0, 1 and
every label (`IsoOnlyAssumption`; the labels are an enum of 12 values) and because no link of a node to itself is written over its label, the
hypothesis of `MatchesExact`.

**SiteIndex** (in `SIDT_proofs`). `NumbersAreSites`, `EverySiteOwned` and `OnlyGrows` are inductive together with `TypeOK`, which says that
the numbers in use are at most nSites, so that nSites+1 is new. `SiteIndex` has no run of its own:
`tree_index` and `sidt_lists` run its actions.

**DecisionTree.** `Shape` says that the tree is closed under prefixes, `CallsPlace` where the running call is: it
stands at a node that spells the first letters of its site and hangs from an element of its father, even before that
node exists. `ElementsCounted` bounds the hash elements: an element is added at most once a level on the way to a new
leaf, and only a call that adds a leaf adds elements. `TreeImplementsIndex`
takes the steps of the tree one by one: a call in the middle of its descent changes nothing of the index, an insertion
becomes visible when the leaf is numbered, and `addProgToDT` is `AddProg`. Because the leaves
number the sites and a leaf is reached by one key only, the mapped index has the number the code returns.

**SIDT.** Each property is said half way: `LearntSoFar` (the sites of the lines read and of the roots passed, and nothing
but sites of the list; with a limit, that many or all), `OwnersSoFar` (a program owns the sites of the roots passed), `ScannedSoFar`
(found and hits are sums over the first roots of each site so far), and `Placed` (the program being learnt is the last
and is not counted yet). The invariants of `SiteIndex`, about `Index!Spec`, come first, and the steps of `SIDT` keep them because each is one of its actions or none. That a site is counted once, though several roots
have it, comes from `FirstRoots` and the set of sites already found. `OwnersAreExact` is about programs learnt without a limit,
as the code stops in the middle of a graph otherwise.

**Ullmann.** The calls of `backtrack` share `F` and the two arrays of counters, so the invariant is about
all the calls on the stack: the matrix of each call holds pairs that fit the part of `F` its callers made
(`Filtered`), it still holds all the pairs of each occurrence that extends this part (`KeepsAll`), and what
a call has counted is the number of the occurrences it is done with (`Tally`). `Marks` says which nodes the counters call
assigned, and `CallPlace` how many calls there are for the pairs made. `Tally` of the outermost call at its end is `ResultExact`. For `-mcs`,
`Growing` and `Grown` say that a counter reaches 1 only behind an associated father, although it is undone by hand.

**ProcessSubGraphs.** `Inv` has a part for each semaphore, which says that one thread at most is
between its sem_wait and its sem_post, and what holds meanwhile: `ArgsInv`, that the structure
holds the range of the one thread that is reading it, the last created, and that
`main` is not about to overwrite it; `WalkInv`, that one thread walks and
that its queue has no node twice (without this a mark could stand for two places of
the queue); `FilesInv`, how many lines each file is ahead of the last one while somebody
writes. `RootInv` and `MatchInv` carry the root and the match from where they are found to where they
are written. That `sem_wait` and `sem_post` balance is not an assumption: it follows
from these parts, as does `TypeOK`.
`ResultsCorrect` adds `Results`: a thread's queue is what `SiteQueue` has built so far (`WalkSoFar`) and its site the one at its root
(`SitesSoFar`); it is inside its range (`InRange`) and has counted the roots it passed (`CountsSoFar`), each at the first
test that matches (`FirstMatch`); the totals are the sums over the threads that are done (`MainSoFar`) and the
lines are the matches written (`LinesSoFar`). The ranges of two threads do not meet (`RangesApart`) and
together they are all roots (`RangesCover`), whatever the division leaves over, so the sums over the threads are the sums over
the roots. `Moves` classifies the steps by what they leave alone.

**Intervals.** A header other than the root has a father in an earlier interval, a
member has all its fathers in its own, so no node is in two intervals; a node without fathers, which the code
takes into the interval it scans because `pOk` keeps its value, joined right behind the node scanned before it
(`Fatherless`). `Covered`: what a finished interval has links to is in an interval or is a header, so all nodes the root
reaches are taken in the end; `Maximal`, that no interval could take another node, is kept because the scan repeats until it adds nothing.
`Links` is the loop invariant of the four nested loops: a link of the reduced graph is there if and only if a link between the two intervals
has been passed. That the reduced graph is reached from its root when the graph is follows along `Ball`.
`ReducibleLimit` compares the end of `-R`, after any number of reductions, with dominators of the graph that was read. What a
node reaches is the least set closed under links that contains it (`ReachFacts`, `ReachLeast`), and every step about dominators is such a set.
`CutReducible`: the header dominates its interval (`HeaderDominates`), a member does not dominate an
earlier one (`LaterDominatesNot`), and an interval dominates another exactly when its header dominates a node of the other
(`IntervalDominates`); so a cycle of forward links in a graph is one in the graph of its intervals and the other way round, and a
reduction keeps `Reducible`. `TwoFathersIrreducible`: when a reduction leaves the size as it is, every node but the root has two fathers
(`NothingJoined`); of the nodes that dominate another, take one that reaches least by forward links, and of those it dominates the one that reaches most: if no
cycle were forward, its second father would be behind a back link and it would dominate that father and reach less. `LimitInv` carries both along the loop.

**Dot2Edg.** `Inv` says for each position that a program has reached what it has in memory. For the grammar:
the dictionary has one pointer to each node of the array and, from `fixDict` on, none from before a move
(`DictInv`); the nodes are those of the statements read, each with the symbol of its first one (`NodesInv`); the
m-th child of a node is the node of its m-th edge among those before `dotPos` (`ChildrenSoFar`), and both ends count a
link equally (`EdgesInv`). For the file: item n is item n of `Written`, or the writer was stopped in it, and it is the last
(`GraphInFile`). For a reader: `ReadSoFar` gives nodes, links and root as functions of `pos`. A node cut
is the last item, so no link can follow it that would be found through its wrong number. That
`updateNode`, run over the options from the last to the first, gives the symbol of the first `symb`, or else `label`, is
`SymbolIsOfText`. For a round trip, the links of a node are one block of the file (`LinksStartAt`), hence its children keep their
order; a node is kept if and only if the text links it (`KeptIsLinked`); and the root, which is not in the list while the text is read, is
found again because a text of which a node was read starts with that node (`FirstIsNode`).
The assumptions are `GraphFileAssumption` (children are nodes, the root is one or 0) and `Dot2EdgAssumption` (texts are sequences
of statements, numbers of names are naturals).

**GTSI.** Everything rests on `ParcoursFacts`: a word that `parcoursLargeur` writes is well formed (`WellFormed`: a letter for a new node has
the next number, and a letter back or to an old node a number given before) and can be walked from the root it was written for. It follows from an
invariant of the walk that writes it: after each letter, the walk of the letters so far stands at `sc` and has numbered the nodes of
`explored`. `LearningInv` says that the nodes of the tree spell well-formed words, no two the same one (`TreeShape`), and that the
words learnt are those of roots seen so far (`SeenWord`), all of them unless the limit is reached (`Full`), as many as `learntTotal` and
`added` together. `ScanInv` is about the search: `Stands` says that a call of the recursion stands where the walk of the word of its node, alone, would
stand, and that the first `max` places of the shared array are that walk's numbers. A call lower in the stack has at most the `max` of those
above it (`StackInv`), and a letter writes only at place `max + 1` of the topmost call, so what a sibling left there is overwritten before it is read. `ReachedInv` says
that a leaf whose word can be walked is reached, or the search has still to go there (`ToVisit`); so after the last call `reached` is exactly the leaves
found from that root, and `leaves` those found from the roots before (`FoundBefore`). The leaves of the tree and the learnt words correspond one to
one (`WordsDistinct`), which makes the count of leaves the number of words (`CountIsRight`), as it is without the tree, where the program walks
each word. `AnswersInv` carries this to the answers, one for each file that could be read. In `SitesFound` and `CountsLearntWords` the hypothesis
`Labelled` (the tree is used, or labels are checked) leaves out `-nt` with `-ncl`, for which both are false
(`NoTreeCountsTheSame` under "Disagreements"). While proving `LimitIsKept` it turned out that the count of the graph being learnt has to be
added when an `assert` ends the program in the middle of that graph, too; the words learnt from it are in the tree. The run now has a list in which this happens.

`WordsTellSites` compares the words with sites found in another way: `Site` takes the least route from the root to each node, shorter routes
first and then by the numbers of the children, and keeps the first `siteSize` of them. It speaks of the sites in `Binary`, those whose word meets no `assert`; in the
others a node has more than two children and the program ends before the word is used. The proof ties the loop of `parcoursLargeur` to those routes. `ByRoutes`
says that the nodes found have increasing least routes, and that a way before the route of a node leads to a node found before it (`EarlierEnds`), so that the
nodes found are the site (`SiteIs`). `SiteSearch` says that the queue and the links taken from it are sorted by father and child number, and that every link of a
node found is in one of the two, or was dropped because the site was full (`AllLinks`). `ReadsSite` adds that the letters written are those of the links taken (`Spells`); a step of the loop
keeps it (`ReadsNext`), up to the end (`RunReads`). One direction follows because sorted sequences with the same elements are equal (`OneOrder`): equal
links are written alike (`SameSpelt`). For the other, a word is read backwards: the numbers and the letters back give, one by one, the link each
letter was written for (`Tells`), so two readings of one word agree on the links and the labels (`ToldTwice`).

**DataLemmas.** The induction theorems of the library take an operator and cannot be used; induction over data is done through sets
instead: a property of the numbers is the set of the numbers that have it, and `SetInduction` follows from the fact
that a set of naturals that is not empty has a least element. The functions behind sums, folds, `Ball` and `SiteQueue` are shown
to exist and to satisfy their equations in the same way. `ElementsAt`, the selection of the elements of a sequence at some
positions, stands in the models for the filters of the code because `Nth` can be reasoned about; `NthFacts` and
`ElementsIs` are what is needed of it.

### Only model-checked

* All liveness: `CallReturns`, `Terminates`, `Loads`. The prover has no rules for `ENABLED`, which weak fairness is made of.

## Findings

`SIDT.cpp:196` (and 236, and `GTSI.cpp:214` and 269) removes the last character of each line of a list
whether or not it is a newline. The last path of a list that does not end with a newline
loses a letter and is skipped in silence. The usage text (`SIDT.cpp:9-10`) promises
that the list is learnt. Run `sidt_newline` finds it.

`libGraphBinAlgo.c:72` writes the root of the whole pattern to the `.eP` file at each match, so that
every line of the file is the same. The usage text (`graphBinAlgo.c:77`) and the comment of the
line above promise the pattern roots that match. Run `threads_roots` finds it.

`GTSI.cpp:167` learns the graph of `-l` without the limit of `-lc`, although the usage text (`GTSI.cpp:23`
and the example at 26) says that the limit is on the sites learnt in total. Run `gtsi_limit` finds it.

### Disagreements

The modules state more of what texts and comments say and the code does not do. They are
definitions that no run lists; TLC finds each of them violated when it is checked with the constants of the run of its
module, or with those the last column names.

| Definition | Says | What the code does instead |
|---|---|---|
| `Ullmann.MaxFoundIsMaximum` | `-mcs` finds the maximum common subgraph | the counters of reachable nodes are reset to constants when a pair is taken back, so a larger one may be missed (`Shared` of `MCUllmann`: two isomorphic graphs of four nodes, three found) |
| `Ullmann.FoundIsInduced` | `-oi` finds induced subgraphs | a node's link to itself is never compared |
| `Ullmann.LookedUpAreAssociated` | the children that `forbidPerm` looks up are in an association | it takes the rank of a child under its father for the number of the child, and reads places of F that nothing has written |
| `Intervals.StopsIrreducible` | `-R` stops at an irreducible graph | a header linked to itself keeps a graph from being reduced |
| `IsoOnly.LabelsAreChecked` | `-cs` compares symbols | links are written over the labels on the diagonal of the matrix (`Looped` of `MCIsoOnly`, with sites of two nodes) |
| `GTSI.PrintsWordsLearnt` | `-l` prints how many words it learnt | it prints the nodes of the tree without `fils`: a graph without a site leaves the root alone, which counts as one word |
| `GTSI.NoTreeCountsTheSame` | `-nt` counts what the tree counts | with `-ncl` the tree does not compare labels, and the walk of a word under `-nt` still does (the graphs of 2 nodes, with both options) |
| `GTSI.HitsAreSites` | what is counted is a site of the graph | a letter for a link to a node that has its number accepts a link to any node that has a number |
| `DotGraph.RootIsANode` | the root is in the list of nodes | it is a copy, allocated apart |
| `GraphFile.BrokenIsReported` | a broken file is reported | the two readers call each other until the stack is full |
| `GraphFile.EdgIsRead` | `getGraphFromFile` reads an EDG file | it finds the magic and calls the other reader behind it, with the same end |
| `GraphFile.NotAGraphIsReported` | a file without a graph is reported | `yyerror` ends the program |

## Not modelled

* The parsing of options, and options that only change what is printed.
* Of graphBinAlgo: `-bp` (it writes a variable that nothing reads), `-np` together with `-mcs`, `-i` and `-os`, the loops
  that run `isoUllman` on each site of one side (`-p` or `-t` alone: sequential sums over `Ullmann`),
  the files of `-r`, the race of threads on `maxFound` (a printed message depends on it; see `hazards`),
  and a `pthread_create` that fails.
* Of SIDT and GTSI: `-l` on a file that opens and holds no graph, the parser of `.funcs` files, lines longer than
  the buffer of 127 characters, leaves whose addresses agree in their low 32 bits.
* `createOption` and `learnSite` without a return statement: the models take what an unoptimised build returns.
* Printing and DOT drawing (`graph_fprint`, `toDot`, `toString`, the writing half of `edg2dot`), byte order, the characters
  of texts and names, the scanner that flex generates, memory that is never freed, the unused first version of
  the hash table, and `tests.cpp`, which repeats the mains on fixed files.
