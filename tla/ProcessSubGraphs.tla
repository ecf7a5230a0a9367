-------------------------- MODULE ProcessSubGraphs --------------------------
(***************************************************************************)
(* graphBinAlgo with -p wP -t wT [-m nThreads] [-e]: main shares the roots *)
(* of the pattern graph out among nThreads threads (src/graphBinAlgo.c,    *)
(* 494-539), and each thread (processSubGraphs, src/libGraphBinAlgo.c)     *)
(* extracts the site of each of its roots and looks for the first test     *)
(* site in which it occurs.                                                *)
(*                                                                         *)
(* The threads share the structure that passes their arguments, the marks  *)
(* BFS_gba keeps on the nodes of the pattern, and four output files; a     *)
(* semaphore guards each.  A step is an access to something shared.  The   *)
(* argument structure is one slot of the stack of main, as in the          *)
(* unoptimised build of CMakeLists.txt.                                    *)
(*                                                                         *)
(* siteSize of Sites is wP.  Operators marked "faulty variant" are not     *)
(* used by Spec: put in place of the next definition, each must break the  *)
(* property named.                                                         *)
(***************************************************************************)
EXTENDS Sites

CONSTANTS
    nThreads,   \* option -m
    nTests,     \* grToTest->nodes.count
    Inputs      \* the pairs of graphs the program may be run on

ASSUME ThreadsAssumption == /\ nThreads \in Nat \ {0}
                            /\ nTests \in Nat

(***************************************************************************)
(* An input is the pattern, its root, the tests i with vgraphsT[i] # NULL, *)
(* and what isoUllman answers for the site of root r and test site i.      *)
(***************************************************************************)
IsInput(in) ==
    /\ IsGraph(in.grPattern)
    /\ in.root \in NodesOf(in.grPattern)
    /\ in.tests \subseteq 1..nTests
    /\ in.isoUllman \in [NodesOf(in.grPattern) -> [1..nTests -> Nat]]

ASSUME InputsAssumption == \A in \in Inputs : IsInput(in)

Semaphores == {"StructRead", "BSFPattern", "Export"}
Files == {"eT", "eP", "enT", "enP"}

VARIABLES
    input, optionExport,
    mpc, k, grData, nSgraphP, isoTotal,     \* main
    mutex,                                  \* value of each semaphore
    files,                                  \* lines of each file
    explored,                               \* marks on the nodes of grPattern
    tpc, from, to,                          \* processSubGraphs, per thread
    j, i, nSgraphPLocal, isoLocal,
    track, p, c                             \* BFS_gba, per thread

optVars == <<input, optionExport>>
mainVars == <<mpc, k, grData, nSgraphP, isoTotal>>
argVars == <<from, to>>
searchVars == <<j, i, nSgraphPLocal, isoLocal>>
walkVars == <<explored, track, p, c>>
vars == <<optVars, mainVars, mutex, files, argVars, searchVars, walkVars, tpc>>

gr == input.grPattern
Nodes == NodesOf(gr)
Threads == 0..(nThreads - 1)

Init ==
    /\ input \in Inputs /\ optionExport \in BOOLEAN
    /\ mpc = "wait" /\ k = 0 /\ grData = [from |-> 0, to |-> 0]
    /\ nSgraphP = 0 /\ isoTotal = 0
    /\ mutex = [sem \in Semaphores |-> 1]
    /\ files = [f \in Files |-> <<>>]
    /\ explored = [n \in Nodes |-> 0]
    /\ tpc = [t \in Threads |-> "unborn"]
    /\ from = [t \in Threads |-> 0] /\ to = [t \in Threads |-> 0]
    /\ j = [t \in Threads |-> 0] /\ i = [t \in Threads |-> 0]
    /\ nSgraphPLocal = [t \in Threads |-> 0]
    /\ isoLocal = [t \in Threads |-> 0]
    /\ track = [t \in Threads |-> <<>>]
    /\ p = [t \in Threads |-> 1] /\ c = [t \in Threads |-> 0]

\* Faulty variants: sem_wait does not wait (TypeOK, ArgsDelivered,
\* MarksAreMine), or not for the files (FilesAligned).
NoWait(sem) == mutex' = [mutex EXCEPT ![sem] = 0]
NoWaitExport(sem) == /\ sem # "Export" => mutex[sem] > 0
                     /\ mutex' = [mutex EXCEPT ![sem] = 0]
Wait(sem) == mutex[sem] > 0 /\ mutex' = [mutex EXCEPT ![sem] = @ - 1]

Post(sem) == mutex' = [mutex EXCEPT ![sem] = @ + 1]

Goto(t, location) == tpc' = [tpc EXCEPT ![t] = location]

-----------------------------------------------------------------------------
(***************************************************************************)
(* main: hand each thread its range, then join the threads in order.       *)
(***************************************************************************)
\* Faulty variant: it divides before it multiplies (ResultsExact).
DividedFirst(n) == n * (Cardinality(Nodes) \div nThreads)
borneThread(n) == (n * Cardinality(Nodes)) \div nThreads

WaitStructRead ==
    /\ mpc = "wait"
    /\ Wait("StructRead")
    /\ mpc' = "create"
    /\ UNCHANGED <<optVars, k, grData, nSgraphP, isoTotal, files, argVars,
                   searchVars, walkVars, tpc>>

Create ==
    /\ mpc = "create"
    /\ grData' = [from |-> borneThread(k), to |-> borneThread(k + 1)]
    /\ Goto(k, "debut")
    /\ IF k + 1 < nThreads THEN mpc' = "wait" /\ k' = k + 1
                           ELSE mpc' = "join" /\ k' = 0
    /\ UNCHANGED <<optVars, nSgraphP, isoTotal, mutex, files, argVars,
                   searchVars, walkVars>>

Join ==
    /\ mpc = "join" /\ tpc[k] = "exited"
    /\ nSgraphP' = nSgraphP + nSgraphPLocal[k]
    /\ isoTotal' = isoTotal + isoLocal[k]
    /\ IF k + 1 < nThreads THEN mpc' = "join" /\ k' = k + 1
                           ELSE mpc' = "end" /\ k' = 0
    /\ UNCHANGED <<optVars, grData, mutex, files, argVars, searchVars,
                   walkVars, tpc>>

Main == WaitStructRead \/ Create \/ Join

-----------------------------------------------------------------------------
(***************************************************************************)
(* A thread takes its arguments.                                           *)
(***************************************************************************)
ReadDebut(t) ==
    /\ tpc[t] = "debut"
    /\ from' = [from EXCEPT ![t] = grData.from]
    /\ Goto(t, "fin")
    /\ UNCHANGED <<optVars, mainVars, mutex, files, to, searchVars, walkVars>>

ReadFin(t) ==
    /\ tpc[t] = "fin"
    /\ to' = [to EXCEPT ![t] = grData.to]
    /\ Goto(t, "read")
    /\ UNCHANGED <<optVars, mainVars, mutex, files, from, searchVars, walkVars>>

PostStructRead(t) ==
    /\ tpc[t] = "read"
    /\ Post("StructRead")
    /\ j' = [j EXCEPT ![t] = from[t]]
    /\ Goto(t, "next")
    /\ UNCHANGED <<optVars, mainVars, files, argVars, i, nSgraphPLocal,
                   isoLocal, walkVars>>

(***************************************************************************)
(* It extracts the site of its next root.  The marks are cleared by the    *)
(* walk itself; a node is opened once, then its children are looked at.    *)
(***************************************************************************)
BeginWalk(t) ==
    /\ tpc[t] = "next" /\ j[t] < to[t]
    /\ Wait("BSFPattern")
    /\ explored' = [n \in Nodes |-> IF n = j[t] + 1 THEN 1 ELSE 0]
    /\ track' = [track EXCEPT ![t] = <<j[t] + 1>>]
    /\ p' = [p EXCEPT ![t] = 1] /\ c' = [c EXCEPT ![t] = 0]
    /\ Goto(t, "walk")
    /\ UNCHANGED <<optVars, mainVars, files, argVars, searchVars>>

Full(t) == Len(track[t]) = siteSize
Walking(t) == tpc[t] = "walk" /\ ~Full(t) /\ p[t] <= Len(track[t])
nI(t) == track[t][p[t]]

SameNode(t) == UNCHANGED p /\ c' = [c EXCEPT ![t] = 0]  \* faulty variant (Terminates)
CloseNode(t) == p' = [p EXCEPT ![t] = @ + 1] /\ c' = [c EXCEPT ![t] = 0]

OpenNode(t) ==
    /\ Walking(t) /\ c[t] = 0
    /\ IF explored[nI(t)] = 1
       THEN /\ explored' = [explored EXCEPT ![nI(t)] = 2]
            /\ c' = [c EXCEPT ![t] = 1] /\ UNCHANGED p
       ELSE CloseNode(t) /\ UNCHANGED explored
    /\ UNCHANGED <<optVars, mainVars, mutex, files, argVars, searchVars, track, tpc>>

VisitChild(t) ==
    /\ Walking(t) /\ c[t] \in DOMAIN gr.children[nI(t)]
    /\ LET child == gr.children[nI(t)][c[t]]
       IN  IF explored[child] = 0
           THEN /\ explored' = [explored EXCEPT ![child] = 1]
                /\ track' = [track EXCEPT ![t] = Append(@, child)]
           ELSE UNCHANGED <<explored, track>>
    /\ c' = [c EXCEPT ![t] = @ + 1]
    /\ UNCHANGED <<optVars, mainVars, mutex, files, argVars, searchVars, p, tpc>>

PassNode(t) ==
    /\ Walking(t) /\ c[t] > Len(gr.children[nI(t)])
    /\ CloseNode(t)
    /\ UNCHANGED <<optVars, mainVars, mutex, files, argVars, searchVars,
                   explored, track, tpc>>

\* BFS_gba gives NULL unless it took siteSize nodes.
EndWalk(t) ==
    /\ tpc[t] = "walk" /\ ~Walking(t)
    /\ Post("BSFPattern")
    /\ IF Full(t)
       THEN /\ nSgraphPLocal' = [nSgraphPLocal EXCEPT ![t] = @ + 1]
            /\ Goto(t, "tests") /\ UNCHANGED j
       ELSE /\ j' = [j EXCEPT ![t] = @ + 1]
            /\ Goto(t, "next") /\ UNCHANGED nSgraphPLocal
    /\ UNCHANGED <<optVars, mainVars, files, argVars, i, isoLocal, walkVars>>

(***************************************************************************)
(* It tries the test sites in order and stops at the first that matches:   *)
(* nothing shared is touched meanwhile.                                    *)
(***************************************************************************)
Matches(root) == {n \in input.tests : input.isoUllman[root][n] # 0}

NextRoot(t) == j' = [j EXCEPT ![t] = @ + 1] /\ Goto(t, "next")

NoMatch(t) ==
    /\ tpc[t] = "tests" /\ Matches(j[t] + 1) = {}
    /\ NextRoot(t)
    /\ UNCHANGED <<optVars, mainVars, mutex, files, argVars, i, nSgraphPLocal,
                   isoLocal, walkVars>>

Match(t) ==
    /\ tpc[t] = "tests"
    /\ \E n \in Matches(j[t] + 1) :
          /\ \A m \in Matches(j[t] + 1) : n <= m
          /\ i' = [i EXCEPT ![t] = n]
          /\ isoLocal' = [isoLocal EXCEPT ![t] = @ + input.isoUllman[j[t] + 1][n]]
    /\ IF optionExport THEN Goto(t, "export") /\ UNCHANGED j ELSE NextRoot(t)
    /\ UNCHANGED <<optVars, mainVars, mutex, files, argVars, nSgraphPLocal, walkVars>>

(***************************************************************************)
(* It writes the match, one line in each file in turn.  A line of enT or   *)
(* enP lists the nodes of a site, root first; the test site is named by    *)
(* its root.  The line of eP is the root of the whole pattern (line 72).   *)
(***************************************************************************)
WaitExport(t) ==
    /\ tpc[t] = "export"
    /\ Wait("Export")
    /\ Goto(t, "eT")
    /\ UNCHANGED <<optVars, mainVars, files, argVars, searchVars, walkVars>>

Line(t) == [eT |-> i[t], eP |-> input.root, enT |-> i[t], enP |-> track[t]]
After == [eT |-> "eP", eP |-> "enT", enT |-> "enP", enP |-> "post"]

Write(t) ==
    /\ tpc[t] \in Files
    /\ files' = [files EXCEPT ![tpc[t]] = Append(@, Line(t)[tpc[t]])]
    /\ Goto(t, After[tpc[t]])
    /\ UNCHANGED <<optVars, mainVars, mutex, argVars, searchVars, walkVars>>

PostExport(t) ==
    /\ tpc[t] = "post"
    /\ Post("Export")
    /\ NextRoot(t)
    /\ UNCHANGED <<optVars, mainVars, files, argVars, i, nSgraphPLocal,
                   isoLocal, walkVars>>

Exit(t) ==
    /\ tpc[t] = "next" /\ j[t] >= to[t]
    /\ Goto(t, "exited")
    /\ UNCHANGED <<optVars, mainVars, mutex, files, argVars, searchVars, walkVars>>

Thread(t) == \/ ReadDebut(t) \/ ReadFin(t) \/ PostStructRead(t)
             \/ BeginWalk(t) \/ OpenNode(t) \/ VisitChild(t) \/ PassNode(t)
             \/ EndWalk(t) \/ NoMatch(t) \/ Match(t)
             \/ WaitExport(t) \/ Write(t) \/ PostExport(t) \/ Exit(t)

\* The program is over; nothing else ever happens.
Finished == mpc = "end" /\ UNCHANGED vars

Next == Main \/ (\E t \in Threads : Thread(t)) \/ Finished

Spec == Init /\ [][Next]_vars
FairSpec == Spec /\ WF_vars(Main) /\ \A t \in Threads : WF_vars(Thread(t))

-----------------------------------------------------------------------------
(***************************************************************************)
(* Correctness.                                                            *)
(***************************************************************************)
MainLocations == {"wait", "create", "join", "end"}
Locations == {"unborn", "debut", "fin", "read", "next", "walk", "tests",
              "export", "eT", "eP", "enT", "enP", "post", "exited"}

TypeOK ==
    /\ input \in Inputs /\ optionExport \in BOOLEAN
    /\ mpc \in MainLocations /\ k \in Threads
    /\ grData \in [from : Nat, to : Nat]
    /\ nSgraphP \in Nat /\ isoTotal \in Nat
    /\ mutex \in [Semaphores -> 0..1]
    /\ tpc \in [Threads -> Locations]
    /\ from \in [Threads -> Nat] /\ to \in [Threads -> Nat]
    /\ j \in [Threads -> Nat] /\ i \in [Threads -> Nat]
    /\ nSgraphPLocal \in [Threads -> Nat] /\ isoLocal \in [Threads -> Nat]
    /\ explored \in [Nodes -> 0..2]
    /\ track \in [Threads -> Seq(Nodes)]
    /\ p \in [Threads -> Nat] /\ c \in [Threads -> Nat]
    /\ DOMAIN files = Files
    /\ files.eT \in Seq(Nat) /\ files.eP \in Seq(Nodes)
    /\ files.enT \in Seq(Nat) /\ files.enP \in Seq(Seq(Nodes))

(***************************************************************************)
(* Every thread works on the range main computed for it, although all the  *)
(* ranges travel through one structure on the stack of main that is        *)
(* overwritten for the next thread (graphBinAlgo.c 516-523).               *)
(***************************************************************************)
HasArguments(t) == tpc[t] \notin {"unborn", "debut", "fin"}

ArgsDelivered ==
    \A t \in Threads :
        HasArguments(t) => from[t] = borneThread(t) /\ to[t] = borneThread(t + 1)

(***************************************************************************)
(* The marks on the shared pattern describe the walk of the thread that    *)
(* walks, and nothing any other thread did: 2 for the nodes it opened, 1   *)
(* for those it has still to open, 0 for the rest.  Two walks at a time    *)
(* would leave one of them with marks it did not make, that is with nodes  *)
(* missing from its site (libGraphBinAlgo.c 44-46).                        *)
(***************************************************************************)
Opened(t) == IF c[t] = 0 THEN p[t] - 1 ELSE p[t]

MarksAreMine ==
    \A t \in Threads : tpc[t] = "walk" =>
        /\ \A r \in DOMAIN track[t] :
              explored[track[t][r]] = IF r <= Opened(t) THEN 2 ELSE 1
        /\ \A n \in Nodes : explored[n] # 0 <=> n \in Range(track[t])

(***************************************************************************)
(* The four files are read side by side: whenever nobody is writing they   *)
(* have as many lines, and line n of each is about the same match, which   *)
(* is one that isoUllman found.                                            *)
(***************************************************************************)
FilesAligned ==
    mutex["Export"] = 1 =>
        /\ \A f \in Files : Len(files[f]) = Len(files.eT)
        /\ \A n \in DOMAIN files.eT :
              /\ files.enT[n] = files.eT[n]
              /\ files.eT[n] \in Matches(files.enP[n][1])

\* What a walk took is the site of its root: the same nodes in the same order
\* as one thread alone, and a root is given up only when its site is too small.
AfterWalk == {"tests", "export", "eT", "eP", "enT", "enP", "post"}

WalksAreRight ==
    \A t \in Threads :
        /\ tpc[t] \in AfterWalk =>
              track[t] = SiteQueue(gr, j[t] + 1) /\ Len(track[t]) = siteSize
        /\ tpc[t] = "walk" /\ ~Walking(t) => track[t] = SiteQueue(gr, j[t] + 1)

\* The totals at the end: no root is lost or counted twice where the ranges
\* of two threads meet.
RootsWithSite == {r \in Nodes : HasSite(gr, r)}
Matching == {r \in RootsWithSite : Matches(r) # {}}
FirstAnswer(r) == input.isoUllman[r][Min(Matches(r))]

TotalsExact ==
    mpc = "end" => /\ nSgraphP = Cardinality(RootsWithSite)
                   /\ isoTotal = FoldFunctionOnSet(+, 0, [r \in Nodes |-> FirstAnswer(r)], Matching)

\* Each root that matches has exactly one line in the files, with its first
\* match.
ExportsExact ==
    mpc = "end" =>
        IF optionExport
        THEN /\ Len(files.eT) = Cardinality(Matching)
             /\ {<<files.enP[n], files.enT[n]>> : n \in DOMAIN files.enP}
                  = {<<SiteQueue(gr, r), Min(Matches(r))>> : r \in Matching}
        ELSE files.eT = <<>>

(***************************************************************************)
(* Whatever the order of the threads, each site, the totals and the lines  *)
(* of the files (but their order) are those of one thread that goes        *)
(* through all the roots.                                                  *)
(***************************************************************************)
ResultsExact == WalksAreRight /\ TotalsExact /\ ExportsExact

(***************************************************************************)
(* The option -e "exports P roots matching in .eP file" (usage, line 77 of *)
(* graphBinAlgo.c; the comment of line 71 of libGraphBinAlgo.c): line n of *)
(* .eP is the root of the pattern site that matched.                       *)
(***************************************************************************)
RootsAreExported ==
    mutex["Export"] = 1 => \A n \in DOMAIN files.eP : files.eP[n] = files.enP[n][1]

(***************************************************************************)
(* The program ends: no thread waits for ever for a semaphore, and main    *)
(* does not wait for ever for a thread.                                    *)
(***************************************************************************)
Terminates == <>(mpc = "end")
=============================================================================
