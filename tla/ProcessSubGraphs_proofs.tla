----------------------- MODULE ProcessSubGraphs_proofs -----------------------
(***************************************************************************)
(* Proofs about ProcessSubGraphs, for any number of threads and any graph. *)
(*                                                                         *)
(* The inductive invariant has one part per semaphore, which says that one *)
(* thread at most is between sem_wait and sem_post and what it may rely on *)
(* there: the contents of the argument structure (ArgsInv), the marks of   *)
(* the pattern (WalkInv), the lines already written (FilesInv).  RootInv   *)
(* and MatchInv are what a thread knows of the root it is working on.      *)
(***************************************************************************)
EXTENDS ProcessSubGraphs, DataLemmas

Reading == {"debut", "fin", "read"}
AtRoot == AfterWalk \cup {"walk"}
Matched == {"export", "eT", "eP", "enT", "enP", "post"}
Writing == {"eT", "eP", "enT", "enP", "post"}

ArgsInv ==
    /\ mpc = "create" => mutex["StructRead"] = 0
    /\ mpc \in {"wait", "create"} => \A t \in Threads : t >= k => tpc[t] = "unborn"
    /\ \A t \in Threads : tpc[t] \in Reading =>
          /\ mutex["StructRead"] = 0 /\ mpc # "create"
          /\ grData = [from |-> borneThread(t), to |-> borneThread(t + 1)]
          /\ \A u \in Threads : tpc[u] \in Reading => u = t
    /\ \A t \in Threads : tpc[t] = "fin" => from[t] = borneThread(t)

RootInv ==
    \A t \in Threads : tpc[t] \in AtRoot =>
        /\ j[t] + 1 \in Nodes
        /\ track[t] # <<>> /\ track[t][1] = j[t] + 1

MatchInv == \A t \in Threads : tpc[t] \in Matched => i[t] \in Matches(j[t] + 1)

WalkInv ==
    \A t \in Threads : tpc[t] = "walk" =>
        /\ mutex["BSFPattern"] = 0
        /\ \A u \in Threads : tpc[u] = "walk" => u = t
        /\ p[t] \in 1..(Len(track[t]) + 1)
        /\ c[t] # 0 => p[t] <= Len(track[t])
        /\ \A r, s \in DOMAIN track[t] : track[t][r] = track[t][s] => r = s

\* How many lines a file is ahead of enP, the last one that t writes.
Ahead(t, locations) == IF tpc[t] \in locations THEN 1 ELSE 0

FilesInv ==
    /\ \A t \in Threads : tpc[t] \in Writing =>
          /\ mutex["Export"] = 0
          /\ \A u \in Threads : tpc[u] \in Writing => u = t
          /\ Len(files.eT) = Len(files.enP) + Ahead(t, {"eP", "enT", "enP"})
          /\ Len(files.eP) = Len(files.enP) + Ahead(t, {"enT", "enP"})
          /\ Len(files.enT) = Len(files.enP) + Ahead(t, {"enP"})
          /\ tpc[t] \in {"eP", "enT", "enP"} => files.eT[Len(files.eT)] = i[t]
          /\ tpc[t] = "enP" => files.enT[Len(files.enT)] = i[t]
    /\ (\A t \in Threads : tpc[t] \notin Writing) =>
          \A f \in Files : Len(files[f]) = Len(files.enP)
    /\ \A n \in DOMAIN files.enP : /\ files.enT[n] = files.eT[n]
                                   /\ files.eT[n] \in Matches(files.enP[n][1])

Inv == /\ TypeOK /\ ArgsInv /\ ArgsDelivered /\ RootInv /\ WalkInv
       /\ MarksAreMine /\ MatchInv /\ FilesInv

-----------------------------------------------------------------------------
(***************************************************************************)
(* The constants.                                                          *)
(***************************************************************************)
LEMMA InputFacts ==
    ASSUME input \in Inputs
    PROVE  /\ Nodes = 1..Len(gr.children) /\ Len(gr.children) \in Nat
           /\ Cardinality(Nodes) = Len(gr.children)
           /\ \A n \in Nodes : gr.children[n] \in Seq(Nodes)
           /\ input.root \in Nodes /\ input.tests \subseteq Nat
           /\ \A r \in Nodes, n \in input.tests : input.isoUllman[r][n] \in Nat
<1>1. IsInput(input)
  BY InputsAssumption
<1>2. gr.children \in Seq(Seq(Nodes))
  BY <1>1 DEF IsInput, IsGraph, gr, Nodes
<1>3. Nodes = 1..Len(gr.children) /\ Len(gr.children) \in Nat
  BY <1>2 DEF Nodes, NodesOf
<1>4. Cardinality(Nodes) = Len(gr.children)
  BY <1>3, FS_Interval
<1>5. \A n \in Nodes : gr.children[n] \in Seq(Nodes)
  BY <1>2, <1>3
<1>6. input.root \in Nodes /\ input.tests \subseteq 1..nTests
      /\ input.isoUllman \in [Nodes -> [1..nTests -> Nat]]
  BY <1>1 DEF IsInput, gr, Nodes
<1>7. input.tests \subseteq Nat
  BY <1>6, ThreadsAssumption
<1>8. \A r \in Nodes, n \in input.tests : input.isoUllman[r][n] \in Nat
  BY <1>6
<1>9. QED BY <1>3, <1>4, <1>5, <1>6, <1>7, <1>8

\* A quotient is what division by it leaves no room for.
LEMMA Quotient ==
    ASSUME NEW x \in Nat, NEW d \in Nat \ {0}
    PROVE  x \div d \in Nat /\ d * (x \div d) <= x
OBVIOUS

LEMMA BorneFacts ==
    ASSUME input \in Inputs, NEW n \in 0..nThreads
    PROVE  borneThread(n) \in Nat /\ borneThread(n) <= Cardinality(Nodes)
<1> DEFINE N == Cardinality(Nodes)
           q == (n * N) \div nThreads
<1>1. N \in Nat /\ n \in Nat /\ nThreads \in Nat \ {0}
  BY InputFacts, ThreadsAssumption
<1>2. n * N \in Nat /\ n * N <= nThreads * N
  <2> HIDE DEF N
  <2>1. n <= nThreads
    BY <1>1
  <2>2. n * N \in Nat
    BY <1>1
  <2>3. n * N <= nThreads * N
    BY <1>1, <2>1
  <2>4. QED BY <2>2, <2>3
<1>3. q \in Nat /\ nThreads * q <= n * N
  <2> HIDE DEF N
  <2>1. QED BY <1>1, <1>2, Quotient
<1>4. q <= N
  <2> HIDE DEF N, q
  <2>1. SUFFICES ASSUME q >= N + 1 PROVE FALSE
    BY <1>1, <1>3
  <2>2. nThreads * q >= nThreads * (N + 1)
    BY <1>1, <1>3, <2>1
  <2>3. nThreads * (N + 1) = nThreads * N + nThreads
    BY <1>1
  <2>4. QED BY <1>1, <1>2, <1>3, <2>2, <2>3
<1>5. QED BY <1>3, <1>4 DEF borneThread


-----------------------------------------------------------------------------
(***************************************************************************)
(* What a step leaves alone.  A thread changes its own variables only, and *)
(* nothing of main.                                                        *)
(***************************************************************************)
Untouched(u) ==
    /\ tpc'[u] = tpc[u] /\ from'[u] = from[u] /\ to'[u] = to[u]
    /\ j'[u] = j[u] /\ i'[u] = i[u]
    /\ track'[u] = track[u] /\ p'[u] = p[u] /\ c'[u] = c[u]
    /\ nSgraphPLocal'[u] = nSgraphPLocal[u] /\ isoLocal'[u] = isoLocal[u]

LEMMA ThreadFrame ==
    ASSUME TypeOK, NEW t \in Threads, Thread(t)
    PROVE  /\ \A u \in Threads : u # t => Untouched(u)
           /\ UNCHANGED <<optVars, mainVars>>
<1> USE DEF Goto, optVars, mainVars, argVars, searchVars, walkVars, Untouched
<1>1. CASE ReadDebut(t)
  BY <1>1 DEF ReadDebut, TypeOK
<1>2. CASE ReadFin(t)
  BY <1>2 DEF ReadFin, TypeOK
<1>3. CASE PostStructRead(t)
  BY <1>3 DEF PostStructRead, TypeOK
<1>4. CASE BeginWalk(t)
  BY <1>4 DEF BeginWalk, TypeOK
<1>5. CASE OpenNode(t)
  BY <1>5 DEF OpenNode, CloseNode, TypeOK
<1>6. CASE VisitChild(t)
  BY <1>6 DEF VisitChild, TypeOK
<1>7. CASE PassNode(t)
  BY <1>7 DEF PassNode, CloseNode, TypeOK
<1>8. CASE EndWalk(t)
  BY <1>8 DEF EndWalk, TypeOK
<1>9. CASE NoMatch(t)
  BY <1>9 DEF NoMatch, NextRoot, TypeOK
<1>10. CASE Match(t)
  BY <1>10 DEF Match, NextRoot, TypeOK
<1>11. CASE WaitExport(t)
  BY <1>11 DEF WaitExport, TypeOK
<1>12. CASE Write(t)
  BY <1>12 DEF Write, TypeOK
<1>13. CASE PostExport(t)
  BY <1>13 DEF PostExport, NextRoot, TypeOK
<1>14. CASE Exit(t)
  BY <1>14 DEF Exit, TypeOK
<1>15. QED BY <1>1, <1>2, <1>3, <1>4, <1>5, <1>6, <1>7, <1>8, <1>9, <1>10,
              <1>11, <1>12, <1>13, <1>14 DEF Thread

(***************************************************************************)
(* Types.                                                                  *)
(***************************************************************************)
LEMMA Bumped ==
    ASSUME NEW f \in [Threads -> Nat], NEW t \in Threads
    PROVE  [f EXCEPT ![t] = @ + 1] \in [Threads -> Nat]
OBVIOUS

LEMMA Moved ==
    ASSUME TypeOK, NEW t \in Threads, NEW l \in Locations, Goto(t, l)
    PROVE  tpc' \in [Threads -> Locations]
<1>1. tpc \in [Threads -> Locations] /\ tpc' = [tpc EXCEPT ![t] = l]
  BY DEF TypeOK, Goto
<1>2. QED BY <1>1

LEMMA Lowered ==
    ASSUME TypeOK, NEW sem \in Semaphores, Wait(sem)
    PROVE  mutex[sem] = 1 /\ mutex' \in [Semaphores -> 0..1]
<1>1. mutex \in [Semaphores -> 0..1] /\ mutex[sem] > 0
      /\ mutex' = [mutex EXCEPT ![sem] = @ - 1]
  BY DEF TypeOK, Wait
<1>2. mutex[sem] = 1
  BY <1>1
<1>3. mutex' = [mutex EXCEPT ![sem] = 0]
  BY <1>1, <1>2
<1>4. QED BY <1>1, <1>2, <1>3

LEMMA Raised ==
    ASSUME TypeOK, NEW sem \in Semaphores, Post(sem), mutex[sem] = 0
    PROVE  mutex' \in [Semaphores -> 0..1]
<1>1. mutex \in [Semaphores -> 0..1] /\ mutex' = [mutex EXCEPT ![sem] = 1]
  BY DEF TypeOK, Post
<1>2. QED BY <1>1

LEMMA InitType == Init => TypeOK
<1> SUFFICES ASSUME Init PROVE TypeOK
  OBVIOUS
<1>1. 0 \in Threads
  BY ThreadsAssumption DEF Threads
<1>2. DOMAIN files = Files /\ files.eT = <<>> /\ files.eP = <<>>
      /\ files.enT = <<>> /\ files.enP = <<>>
  BY DEF Init, Files
<1>3. QED BY <1>1, <1>2 DEF Init, TypeOK, Semaphores, MainLocations, Locations

LEMMA MainType ==
    ASSUME Inv, Main
    PROVE  TypeOK'
<1> USE DEF Inv, Goto, optVars, mainVars, argVars, searchVars, walkVars
<1>1. CASE WaitStructRead
  <2>1. mutex' \in [Semaphores -> 0..1]
    BY <1>1 DEF WaitStructRead, Wait, TypeOK, Semaphores
  <2>2. QED BY <1>1, <2>1 DEF WaitStructRead, TypeOK, MainLocations, gr, Nodes
<1>2. CASE Create
  <2>1. grData' \in [from : Nat, to : Nat]
    <3>1. k \in 0..nThreads /\ k + 1 \in 0..nThreads
      BY ThreadsAssumption DEF TypeOK, Threads
    <3>2. borneThread(k) \in Nat /\ borneThread(k + 1) \in Nat
      BY <3>1, BorneFacts DEF TypeOK
    <3>3. QED BY <1>2, <3>2 DEF Create
  <2>2. mpc' \in MainLocations /\ k' \in Threads
    <3>1. k \in 0..(nThreads - 1) /\ nThreads \in Nat \ {0}
      BY ThreadsAssumption DEF TypeOK, Threads
    <3>2. \/ k + 1 < nThreads /\ mpc' \in {"wait", "join"} /\ k' = k + 1
          \/ mpc' \in {"join", "end"} /\ k' = 0
      BY <1>2 DEF Create
    <3>3. k' \in 0..(nThreads - 1)
      BY <3>1, <3>2
    <3>4. QED BY <3>2, <3>3 DEF MainLocations, Threads
  <2>3. tpc' \in [Threads -> Locations]
    BY <1>2 DEF Create, TypeOK, Locations
  <2>4. QED BY <1>2, <2>1, <2>2, <2>3 DEF Create, TypeOK, gr, Nodes
<1>3. CASE Join
  <2>1. mpc' \in MainLocations /\ k' \in Threads
    <3>1. k \in 0..(nThreads - 1) /\ nThreads \in Nat \ {0}
      BY ThreadsAssumption DEF TypeOK, Threads
    <3>2. \/ k + 1 < nThreads /\ mpc' \in {"wait", "join"} /\ k' = k + 1
          \/ mpc' \in {"join", "end"} /\ k' = 0
      BY <1>3 DEF Join
    <3>3. k' \in 0..(nThreads - 1)
      BY <3>1, <3>2
    <3>4. QED BY <3>2, <3>3 DEF MainLocations, Threads
  <2>2. nSgraphP' \in Nat /\ isoTotal' \in Nat
    <3>1. nSgraphPLocal[k] \in Nat /\ isoLocal[k] \in Nat /\ nSgraphP \in Nat
          /\ isoTotal \in Nat
      BY DEF TypeOK
    <3>2. nSgraphP' = nSgraphP + nSgraphPLocal[k] /\ isoTotal' = isoTotal + isoLocal[k]
      BY <1>3 DEF Join
    <3>3. QED BY <3>1, <3>2
  <2>3. QED BY <1>3, <2>1, <2>2 DEF Join, TypeOK, gr, Nodes
<1>4. QED BY <1>1, <1>2, <1>3 DEF Main


\* The root a thread goes to next is a node of the pattern.
LEMMA NextIsNode ==
    ASSUME Inv, NEW t \in Threads, tpc[t] = "next", j[t] < to[t]
    PROVE  j[t] + 1 \in Nodes
<1> USE DEF Inv
<1>1. t \in Nat /\ t + 1 \in 0..nThreads
  BY ThreadsAssumption DEF Threads
<1>2. to[t] = borneThread(t + 1)
  BY DEF ArgsDelivered, HasArguments
<1>3. to[t] <= Cardinality(Nodes) /\ to[t] \in Nat
  BY <1>1, <1>2, BorneFacts DEF TypeOK
<1>4. j[t] \in Nat
  BY DEF TypeOK
<1>5. Nodes = 1..Cardinality(Nodes) /\ Cardinality(Nodes) \in Nat
  <2>1. input \in Inputs
    BY DEF TypeOK
  <2>2. QED BY <2>1, InputFacts
<1>6. j[t] + 1 \in 1..Cardinality(Nodes)
  BY <1>3, <1>4, <1>5
<1>7. QED BY <1>5, <1>6

LEMMA WalkingType ==
    ASSUME TypeOK, NEW t \in Threads, Walking(t), p[t] # 0
    PROVE  /\ nI(t) \in Nodes /\ p[t] \in DOMAIN track[t]
           /\ gr.children[nI(t)] \in Seq(Nodes)
<1>1. track[t] \in Seq(Nodes) /\ p[t] \in Nat /\ p[t] <= Len(track[t])
  BY DEF TypeOK, Walking
<1>2. nI(t) \in Nodes /\ p[t] \in DOMAIN track[t]
  BY <1>1 DEF nI
<1>3. QED BY <1>2, InputFacts DEF TypeOK

(***************************************************************************)
(* A write, file by file.                                                  *)
(***************************************************************************)
LEMMA WriteCases ==
    ASSUME TypeOK, NEW t \in Threads, Write(t)
    PROVE  \/ /\ tpc[t] = "eT" /\ Goto(t, "eP")
              /\ files' = [files EXCEPT !["eT"] = Append(@, i[t])]
           \/ /\ tpc[t] = "eP" /\ Goto(t, "enT")
              /\ files' = [files EXCEPT !["eP"] = Append(@, input.root)]
           \/ /\ tpc[t] = "enT" /\ Goto(t, "enP")
              /\ files' = [files EXCEPT !["enT"] = Append(@, i[t])]
           \/ /\ tpc[t] = "enP" /\ Goto(t, "post")
              /\ files' = [files EXCEPT !["enP"] = Append(@, track[t])]
<1>1. /\ files' = [files EXCEPT ![tpc[t]] = Append(@, Line(t)[tpc[t]])]
      /\ Goto(t, After[tpc[t]])
      /\ tpc[t] \in {"eT", "eP", "enT", "enP"}
  BY DEF Write, Files
<1>2. Line(t)["eT"] = i[t] /\ Line(t)["eP"] = input.root
      /\ Line(t)["enT"] = i[t] /\ Line(t)["enP"] = track[t]
  BY DEF Line
<1>3. After["eT"] = "eP" /\ After["eP"] = "enT" /\ After["enT"] = "enP"
      /\ After["enP"] = "post"
  BY DEF After
<1>4. CASE tpc[t] = "eT"
  BY <1>1, <1>2, <1>3, <1>4
<1>5. CASE tpc[t] = "eP"
  BY <1>1, <1>2, <1>3, <1>5
<1>6. CASE tpc[t] = "enT"
  BY <1>1, <1>2, <1>3, <1>6
<1>7. CASE tpc[t] = "enP"
  BY <1>1, <1>2, <1>3, <1>7
<1>8. QED BY <1>1, <1>4, <1>5, <1>6, <1>7

LEMMA VisitCases ==
    ASSUME TypeOK, WalkInv, NEW t \in Threads, VisitChild(t)
    PROVE  \E child \in Nodes :
              \/ explored[child] # 0 /\ explored' = explored /\ track' = track
              \/ /\ explored[child] = 0
                 /\ explored' = [explored EXCEPT ![child] = 1]
                 /\ track' = [track EXCEPT ![t] = Append(@, child)]
<1>1. p[t] # 0
  BY DEF VisitChild, Walking, WalkInv
<1>2. gr.children[nI(t)] \in Seq(Nodes)
  BY <1>1, WalkingType DEF VisitChild
<1>3. gr.children[nI(t)][c[t]] \in Nodes
  BY <1>2 DEF VisitChild
<1>4. QED BY <1>3 DEF VisitChild

LEMMA ThreadType ==
    ASSUME Inv, NEW t \in Threads, Thread(t)
    PROVE  TypeOK'
<1> USE DEF optVars, mainVars, argVars, searchVars, walkVars, gr, Nodes
<1>t. TypeOK /\ j \in [Threads -> Nat] /\ i \in [Threads -> Nat]
      /\ p \in [Threads -> Nat] /\ c \in [Threads -> Nat]
      /\ nSgraphPLocal \in [Threads -> Nat] /\ isoLocal \in [Threads -> Nat]
      /\ [j EXCEPT ![t] = @ + 1] \in [Threads -> Nat]
      /\ [p EXCEPT ![t] = @ + 1] \in [Threads -> Nat]
      /\ [c EXCEPT ![t] = @ + 1] \in [Threads -> Nat]
      /\ [nSgraphPLocal EXCEPT ![t] = @ + 1] \in [Threads -> Nat]
  BY Bumped DEF Inv, TypeOK
<1>l. \A l \in Locations : Goto(t, l) => tpc' \in [Threads -> Locations]
  BY <1>t, Moved
<1>s. "StructRead" \in Semaphores /\ "BSFPattern" \in Semaphores
      /\ "Export" \in Semaphores
  BY DEF Semaphores
<1>1. CASE ReadDebut(t)
  <2>1. from' \in [Threads -> Nat]
    BY <1>1, <1>t DEF ReadDebut, TypeOK
  <2>2. tpc' \in [Threads -> Locations]
    BY <1>1, <1>l DEF ReadDebut, Locations
  <2>3. QED BY <1>1, <1>t, <2>1, <2>2 DEF ReadDebut, TypeOK
<1>2. CASE ReadFin(t)
  <2>1. to' \in [Threads -> Nat]
    BY <1>2, <1>t DEF ReadFin, TypeOK
  <2>2. tpc' \in [Threads -> Locations]
    BY <1>2, <1>l DEF ReadFin, Locations
  <2>3. QED BY <1>2, <1>t, <2>1, <2>2 DEF ReadFin, TypeOK
<1>3. CASE PostStructRead(t)
  <2>1. mutex["StructRead"] = 0
    BY <1>3 DEF PostStructRead, Inv, ArgsInv, Reading
  <2>2. mutex' \in [Semaphores -> 0..1]
    BY <1>3, <1>t, <1>s, <2>1, Raised DEF PostStructRead
  <2>3. j' \in [Threads -> Nat]
    BY <1>3, <1>t DEF PostStructRead, TypeOK
  <2>4. tpc' \in [Threads -> Locations]
    BY <1>3, <1>l DEF PostStructRead, Locations
  <2>5. QED BY <1>3, <1>t, <2>2, <2>3, <2>4 DEF PostStructRead, TypeOK
<1>4. CASE BeginWalk(t)
  <2>1. mutex' \in [Semaphores -> 0..1]
    BY <1>4, <1>t, <1>s, Lowered DEF BeginWalk
  <2>2. j[t] + 1 \in Nodes
    BY <1>4, NextIsNode DEF BeginWalk
  <2>3. explored' \in [Nodes -> 0..2]
    BY <1>4 DEF BeginWalk
  <2>4. track' \in [Threads -> Seq(Nodes)]
    <3>1. <<j[t] + 1>> \in Seq(Nodes)
      BY <2>2
    <3>2. QED BY <1>4, <1>t, <3>1 DEF BeginWalk, TypeOK
  <2>5. p' \in [Threads -> Nat] /\ c' \in [Threads -> Nat]
    BY <1>4, <1>t DEF BeginWalk
  <2>6. tpc' \in [Threads -> Locations]
    BY <1>4, <1>l DEF BeginWalk, Locations
  <2>7. QED BY <1>4, <1>t, <2>1, <2>3, <2>4, <2>5, <2>6 DEF BeginWalk, TypeOK
<1>5. CASE OpenNode(t)
  <2>1. explored' = explored \/ explored' = [explored EXCEPT ![nI(t)] = 2]
    BY <1>5 DEF OpenNode
  <2>2. explored' \in [Nodes -> 0..2]
    <3>1. explored \in [Nodes -> 0..2]
      BY <1>t DEF TypeOK
    <3>2. QED BY <2>1, <3>1
  <2>3. p' \in [Threads -> Nat]
    BY <1>5, <1>t DEF OpenNode, CloseNode
  <2>4. c' = [c EXCEPT ![t] = 0] \/ c' = [c EXCEPT ![t] = 1]
    BY <1>5 DEF OpenNode, CloseNode
  <2>5. c' \in [Threads -> Nat]
    BY <1>t, <2>4
  <2>6. QED BY <1>5, <1>t, <2>2, <2>3, <2>5 DEF OpenNode, TypeOK
<1>6. CASE VisitChild(t)
  <2>1. PICK child \in Nodes :
            \/ explored' = explored /\ track' = track
            \/ /\ explored' = [explored EXCEPT ![child] = 1]
               /\ track' = [track EXCEPT ![t] = Append(@, child)]
    BY <1>6, <1>t, VisitCases DEF Inv
  <2>2. explored' \in [Nodes -> 0..2]
    <3>1. explored \in [Nodes -> 0..2]
      BY <1>t DEF TypeOK
    <3>2. QED BY <2>1, <3>1
  <2>3. track' \in [Threads -> Seq(Nodes)]
    <3>1. track \in [Threads -> Seq(Nodes)]
      BY <1>t DEF TypeOK
    <3>2. Append(track[t], child) \in Seq(Nodes)
      BY <2>1, <3>1
    <3>3. QED BY <2>1, <3>1, <3>2
  <2>4. c' \in [Threads -> Nat]
    BY <1>6, <1>t DEF VisitChild
  <2>5. QED BY <1>6, <1>t, <2>2, <2>3, <2>4 DEF VisitChild, TypeOK
<1>7. CASE PassNode(t)
  <2>1. p' \in [Threads -> Nat]
    BY <1>7, <1>t DEF PassNode, CloseNode
  <2>2. c' \in [Threads -> Nat]
    BY <1>7, <1>t DEF PassNode, CloseNode
  <2>3. QED BY <1>7, <1>t, <2>1, <2>2 DEF PassNode, TypeOK
<1>8. CASE EndWalk(t)
  <2>1. mutex["BSFPattern"] = 0
    BY <1>8 DEF EndWalk, Inv, WalkInv
  <2>2. mutex' \in [Semaphores -> 0..1]
    BY <1>8, <1>t, <1>s, <2>1, Raised DEF EndWalk
  <2>3. j' \in [Threads -> Nat] /\ nSgraphPLocal' \in [Threads -> Nat]
    BY <1>8, <1>t DEF EndWalk
  <2>4. tpc' \in [Threads -> Locations]
    BY <1>8, <1>l DEF EndWalk, Locations
  <2>5. QED BY <1>8, <1>t, <2>2, <2>3, <2>4 DEF EndWalk, TypeOK
<1>9. CASE NoMatch(t)
  <2>1. j' \in [Threads -> Nat]
    BY <1>9, <1>t DEF NoMatch, NextRoot
  <2>2. tpc' \in [Threads -> Locations]
    BY <1>9, <1>l DEF NoMatch, NextRoot, Locations
  <2>3. QED BY <1>9, <1>t, <2>1, <2>2 DEF NoMatch, TypeOK
<1>10. CASE Match(t)
  <2>1. PICK n \in Matches(j[t] + 1) :
            /\ i' = [i EXCEPT ![t] = n]
            /\ isoLocal' = [isoLocal EXCEPT ![t] = @ + input.isoUllman[j[t] + 1][n]]
    BY <1>10 DEF Match
  <2> DEFINE nbIso == input.isoUllman[j[t] + 1][n]
  <2>2. n \in Nat /\ nbIso \in Nat
    <3>1. j[t] + 1 \in Nodes
      BY <1>10 DEF Match, Inv, RootInv, AtRoot, AfterWalk
    <3>2. QED BY <1>t, <3>1, InputFacts DEF Matches, TypeOK
  <2> HIDE DEF nbIso
  <2>3. i' \in [Threads -> Nat]
    BY <1>t, <2>1, <2>2
  <2>4. isoLocal' \in [Threads -> Nat]
    <3>1. isoLocal' = [isoLocal EXCEPT ![t] = @ + nbIso]
      BY <2>1 DEF nbIso
    <3>2. QED BY <1>t, <2>2, <3>1
  <2>5. j' \in [Threads -> Nat]
    BY <1>10, <1>t DEF Match, NextRoot
  <2>6. tpc' \in [Threads -> Locations]
    BY <1>10, <1>l DEF Match, NextRoot, Locations
  <2>7. QED BY <1>10, <1>t, <2>3, <2>4, <2>5, <2>6 DEF Match, TypeOK
<1>11. CASE WaitExport(t)
  <2>1. mutex' \in [Semaphores -> 0..1]
    BY <1>11, <1>t, <1>s, Lowered DEF WaitExport
  <2>2. tpc' \in [Threads -> Locations]
    BY <1>11, <1>l DEF WaitExport, Locations
  <2>3. QED BY <1>11, <1>t, <2>1, <2>2 DEF WaitExport, TypeOK
<1>12. CASE Write(t)
  <2>1. track[t] \in Seq(Nodes) /\ i[t] \in Nat /\ input.root \in Nodes
    BY <1>t, InputFacts DEF TypeOK
  <2>2. DOMAIN files' = Files
        /\ files'.eT \in Seq(Nat) /\ files'.eP \in Seq(Nodes)
        /\ files'.enT \in Seq(Nat) /\ files'.enP \in Seq(Seq(Nodes))
    <3>1. /\ DOMAIN files = Files /\ Files = {"eT", "eP", "enT", "enP"}
          /\ files.eT \in Seq(Nat) /\ files.eP \in Seq(Nodes)
          /\ files.enT \in Seq(Nat) /\ files.enP \in Seq(Seq(Nodes))
      BY <1>t DEF TypeOK, Files
    <3>2. CASE files' = [files EXCEPT !["eT"] = Append(@, i[t])]
      BY <2>1, <3>1, <3>2
    <3>3. CASE files' = [files EXCEPT !["eP"] = Append(@, input.root)]
      BY <2>1, <3>1, <3>3
    <3>4. CASE files' = [files EXCEPT !["enT"] = Append(@, i[t])]
      BY <2>1, <3>1, <3>4
    <3>5. CASE files' = [files EXCEPT !["enP"] = Append(@, track[t])]
      BY <2>1, <3>1, <3>5
    <3>6. QED BY <1>12, <1>t, <3>2, <3>3, <3>4, <3>5, WriteCases
  <2>3. tpc' \in [Threads -> Locations]
    BY <1>12, <1>t, <1>l, WriteCases DEF Locations
  <2>4. QED BY <1>12, <1>t, <2>2, <2>3 DEF Write, TypeOK
<1>13. CASE PostExport(t)
  <2>1. mutex["Export"] = 0
    BY <1>13 DEF PostExport, Inv, FilesInv, Writing
  <2>2. mutex' \in [Semaphores -> 0..1]
    BY <1>13, <1>t, <1>s, <2>1, Raised DEF PostExport
  <2>3. j' \in [Threads -> Nat]
    BY <1>13, <1>t DEF PostExport, NextRoot
  <2>4. tpc' \in [Threads -> Locations]
    BY <1>13, <1>l DEF PostExport, NextRoot, Locations
  <2>5. QED BY <1>13, <1>t, <2>2, <2>3, <2>4 DEF PostExport, TypeOK
<1>14. CASE Exit(t)
  <2>1. tpc' \in [Threads -> Locations]
    BY <1>14, <1>l DEF Exit, Locations
  <2>2. QED BY <1>14, <1>t, <2>1 DEF Exit, TypeOK
<1>15. QED BY <1>1, <1>2, <1>3, <1>4, <1>5, <1>6, <1>7, <1>8, <1>9, <1>10,
              <1>11, <1>12, <1>13, <1>14 DEF Thread


-----------------------------------------------------------------------------
(***************************************************************************)
(* The arguments.                                                          *)
(***************************************************************************)
LEMMA WorkFrame ==
    ASSUME TypeOK, NEW t \in Threads, Thread(t), tpc[t] \notin Reading
    PROVE  /\ tpc[t] # "unborn" /\ tpc'[t] \notin Reading \cup {"unborn"}
           /\ from' = from /\ to' = to
           /\ mutex'["StructRead"] = mutex["StructRead"]
<1> USE DEF Goto, argVars, Reading
<1>t. tpc \in [Threads -> Locations] /\ mutex \in [Semaphores -> 0..1]
      /\ "StructRead" \in Semaphores
  BY DEF TypeOK, Semaphores
<1>1. CASE BeginWalk(t)
  BY <1>1, <1>t DEF BeginWalk, Wait
<1>2. CASE OpenNode(t)
  BY <1>2, <1>t DEF OpenNode, Walking
<1>3. CASE VisitChild(t)
  BY <1>3, <1>t DEF VisitChild, Walking
<1>4. CASE PassNode(t)
  BY <1>4, <1>t DEF PassNode, Walking
<1>5. CASE EndWalk(t)
  BY <1>5, <1>t DEF EndWalk, Post
<1>6. CASE NoMatch(t)
  BY <1>6, <1>t DEF NoMatch, NextRoot
<1>7. CASE Match(t)
  BY <1>7, <1>t DEF Match, NextRoot
<1>8. CASE WaitExport(t)
  BY <1>8, <1>t DEF WaitExport, Wait
<1>9. CASE Write(t)
  <2>1. from' = from /\ to' = to /\ mutex' = mutex
    BY <1>9 DEF Write
  <2>2. QED BY <1>9, <1>t, <2>1, WriteCases
<1>10. CASE PostExport(t)
  BY <1>10, <1>t DEF PostExport, NextRoot, Post
<1>11. CASE Exit(t)
  BY <1>11, <1>t DEF Exit
<1>12. ~ReadDebut(t) /\ ~ReadFin(t) /\ ~PostStructRead(t)
  BY DEF ReadDebut, ReadFin, PostStructRead
<1>13. QED BY <1>1, <1>2, <1>3, <1>4, <1>5, <1>6, <1>7, <1>8, <1>9, <1>10,
              <1>11, <1>12 DEF Thread

LEMMA BorneFrame ==
    ASSUME input' = input
    PROVE  \A n : borneThread(n)' = borneThread(n)
<1>1. Nodes' = Nodes
  BY DEF Nodes, gr
<1>2. QED BY <1>1 DEF borneThread

LEMMA ArgsThread ==
    ASSUME Inv, NEW t \in Threads, Thread(t)
    PROVE  ArgsInv' /\ ArgsDelivered'
<1>t. TypeOK /\ ArgsInv /\ ArgsDelivered
  BY DEF Inv
<1>f. /\ \A u \in Threads : u # t =>
            tpc'[u] = tpc[u] /\ from'[u] = from[u] /\ to'[u] = to[u]
      /\ mpc' = mpc /\ k' = k /\ grData' = grData /\ input' = input
  BY <1>t, ThreadFrame DEF Untouched, mainVars, optVars
<1>b. \A n : borneThread(n)' = borneThread(n)
  BY <1>f, BorneFrame
<1>1. CASE tpc[t] \notin Reading
  <2>1. /\ tpc[t] # "unborn" /\ tpc'[t] \notin Reading \cup {"unborn"}
        /\ from' = from /\ to' = to
        /\ mutex'["StructRead"] = mutex["StructRead"]
    BY <1>t, <1>1, WorkFrame
  <2>2. ArgsInv'
    BY <1>t, <1>f, <1>b, <2>1 DEF ArgsInv, Reading
  <2>3. ArgsDelivered'
    BY <1>t, <1>f, <1>b, <1>1, <2>1 DEF ArgsDelivered, HasArguments, Reading
  <2>4. QED BY <2>2, <2>3
<1>2. CASE tpc[t] \in Reading
  <2>1. /\ mutex["StructRead"] = 0 /\ mpc # "create"
        /\ grData.from = borneThread(t) /\ grData.to = borneThread(t + 1)
        /\ \A u \in Threads : tpc[u] \in Reading => u = t
        /\ tpc[t] = "fin" => from[t] = borneThread(t)
        /\ tpc[t] = "read" => from[t] = borneThread(t) /\ to[t] = borneThread(t + 1)
        /\ mpc \in {"wait", "create"} => t < k
        /\ t \in Int /\ k \in Int
    <3>1. t \in Int /\ k \in Int
      BY <1>t, ThreadsAssumption DEF TypeOK, Threads
    <3>2. /\ mutex["StructRead"] = 0 /\ mpc # "create"
          /\ grData = [from |-> borneThread(t), to |-> borneThread(t + 1)]
          /\ \A u \in Threads : tpc[u] \in Reading => u = t
          /\ tpc[t] = "fin" => from[t] = borneThread(t)
      BY <1>t, <1>2 DEF ArgsInv
    <3>3. tpc[t] = "read" => from[t] = borneThread(t) /\ to[t] = borneThread(t + 1)
      BY <1>t DEF ArgsDelivered, HasArguments
    <3>4. mpc \in {"wait", "create"} => ~(t >= k)
      BY <1>t, <1>2 DEF ArgsInv, Reading
    <3>5. mpc \in {"wait", "create"} => t < k
      BY <3>1, <3>4
    <3>6. grData.from = borneThread(t) /\ grData.to = borneThread(t + 1)
      BY <3>2
    <3>7. QED BY <3>1, <3>2, <3>3, <3>5, <3>6
  <2>2. \/ /\ tpc[t] = "debut" /\ tpc'[t] = "fin" /\ mutex' = mutex
           /\ from'[t] = grData.from /\ to' = to
        \/ /\ tpc[t] = "fin" /\ tpc'[t] = "read" /\ mutex' = mutex
           /\ to'[t] = grData.to /\ from' = from
        \/ /\ tpc[t] = "read" /\ tpc'[t] = "next" /\ from' = from /\ to' = to
           /\ mutex'["StructRead"] = 1
    <3>1. tpc \in [Threads -> Locations] /\ from \in [Threads -> Nat]
          /\ to \in [Threads -> Nat] /\ mutex \in [Semaphores -> 0..1]
          /\ "StructRead" \in Semaphores
      BY <1>t DEF TypeOK, Semaphores
    <3>2. ReadDebut(t) \/ ReadFin(t) \/ PostStructRead(t)
      <4>1. tpc[t] \notin Files \cup {"next", "walk", "tests", "export", "post"}
        BY <1>2 DEF Reading, Files
      <4>2. ~BeginWalk(t) /\ ~OpenNode(t) /\ ~VisitChild(t) /\ ~PassNode(t)
        BY <4>1 DEF BeginWalk, OpenNode, VisitChild, PassNode, Walking
      <4>3. ~EndWalk(t) /\ ~NoMatch(t) /\ ~Match(t)
        BY <4>1 DEF EndWalk, NoMatch, Match
      <4>4. ~WaitExport(t) /\ ~Write(t) /\ ~PostExport(t) /\ ~Exit(t)
        BY <4>1 DEF WaitExport, Write, PostExport, Exit
      <4>5. QED BY <4>2, <4>3, <4>4 DEF Thread
    <3>3. CASE ReadDebut(t)
      BY <3>1, <3>3 DEF ReadDebut, Goto
    <3>4. CASE ReadFin(t)
      BY <3>1, <3>4 DEF ReadFin, Goto
    <3>5. CASE PostStructRead(t)
      BY <2>1, <3>1, <3>5 DEF PostStructRead, Goto, Post, argVars
    <3>6. QED BY <3>2, <3>3, <3>4, <3>5
  <2>3. ArgsInv'
    <3>1. (mpc = "create" => mutex["StructRead"] = 0)'
      BY <1>f, <2>1
    <3>2. (mpc \in {"wait", "create"} =>
              \A u \in Threads : u >= k => tpc[u] = "unborn")'
      BY <1>t, <1>f, <2>1 DEF ArgsInv
    <3>3. ASSUME NEW u \in Threads, tpc'[u] \in Reading
          PROVE  /\ u = t /\ mutex'["StructRead"] = 0 /\ mpc' # "create"
                 /\ grData' = [from |-> borneThread(u)', to |-> borneThread(u + 1)']
                 /\ \A v \in Threads : tpc'[v] \in Reading => v = u
      <4>1. u = t
        BY <1>f, <2>1, <3>3
      <4>2. mutex'["StructRead"] = 0
        BY <2>1, <2>2, <3>3, <4>1 DEF Reading
      <4>3. grData = [from |-> borneThread(t), to |-> borneThread(t + 1)]
        BY <1>t, <1>2 DEF ArgsInv
      <4>4. \A v \in Threads : tpc'[v] \in Reading => v = u
        BY <1>f, <2>1, <4>1
      <4>5. QED BY <1>f, <1>b, <2>1, <4>1, <4>2, <4>3, <4>4
    <3>4. ASSUME NEW u \in Threads, tpc'[u] = "fin"
          PROVE  from'[u] = borneThread(u)'
      <4>1. u = t
        BY <3>3, <3>4 DEF Reading
      <4>2. QED BY <1>b, <2>1, <2>2, <3>4, <4>1
    <3>5. QED BY <3>1, <3>2, <3>3, <3>4 DEF ArgsInv
  <2>4. ArgsDelivered'
    <3>1. SUFFICES ASSUME NEW u \in Threads, HasArguments(u)'
                   PROVE  from'[u] = borneThread(u)' /\ to'[u] = borneThread(u + 1)'
      BY DEF ArgsDelivered
    <3>2. CASE u = t
      BY <1>b, <2>1, <2>2, <3>1, <3>2 DEF HasArguments
    <3>3. CASE u # t
      BY <1>t, <1>b, <1>f, <3>1, <3>3 DEF ArgsDelivered, HasArguments
    <3>4. QED BY <3>2, <3>3
  <2>5. QED BY <2>3, <2>4
<1>3. QED BY <1>1, <1>2

LEMMA ArgsMain ==
    ASSUME Inv, Main
    PROVE  ArgsInv' /\ ArgsDelivered'
<1>t. TypeOK /\ ArgsInv /\ ArgsDelivered
      /\ tpc \in [Threads -> Locations] /\ mutex \in [Semaphores -> 0..1]
      /\ "StructRead" \in Semaphores
  BY DEF Inv, TypeOK, Semaphores
<1>f. input' = input /\ from' = from /\ to' = to
  BY DEF Main, WaitStructRead, Create, Join, optVars, argVars
<1>b. \A n : borneThread(n)' = borneThread(n)
  BY <1>f, BorneFrame
<1>1. CASE WaitStructRead
  <2>1. /\ mpc = "wait" /\ mpc' = "create" /\ k' = k /\ tpc' = tpc
        /\ mutex["StructRead"] = 1 /\ mutex'["StructRead"] = 0
        /\ grData' = grData
    BY <1>1, <1>t DEF WaitStructRead, Wait
  <2>2. \A u \in Threads : tpc[u] \notin Reading
    BY <1>t, <2>1 DEF ArgsInv
  <2>3. ArgsInv'
    BY <1>t, <1>b, <1>f, <2>1, <2>2 DEF ArgsInv, Reading
  <2>4. ArgsDelivered'
    BY <1>t, <1>b, <1>f, <2>1 DEF ArgsDelivered, HasArguments
  <2>5. QED BY <2>3, <2>4
<1>2. CASE Create
  <2>1. /\ mpc = "create" /\ mutex' = mutex
        /\ tpc' = [tpc EXCEPT ![k] = "debut"]
        /\ grData' = [from |-> borneThread(k), to |-> borneThread(k + 1)]
        /\ \/ mpc' = "wait" /\ k' = k + 1
           \/ mpc' = "join"
    BY <1>2 DEF Create, Goto
  <2>2. k \in Threads /\ k \in Int /\ Threads \subseteq Int
    BY <1>t, ThreadsAssumption DEF TypeOK, Threads
  <2>3. mutex["StructRead"] = 0 /\ \A u \in Threads : tpc[u] \notin Reading
    BY <1>t, <2>1 DEF ArgsInv
  <2>4. \A u \in Threads : tpc'[u] = IF u = k THEN "debut" ELSE tpc[u]
    BY <1>t, <2>1, <2>2
  <2>5. \A u \in Threads : tpc'[u] \in Reading => u = k
    BY <2>3, <2>4
  <2>6. (mpc \in {"wait", "create"} =>
            \A u \in Threads : u >= k => tpc[u] = "unborn")'
    <3>1. SUFFICES ASSUME mpc' = "wait", NEW u \in Threads, u >= k'
                   PROVE  tpc'[u] = "unborn"
      BY <2>1
    <3>2. u >= k /\ u # k
      BY <2>1, <2>2, <3>1
    <3>3. tpc[u] = "unborn"
      BY <1>t, <2>1, <3>2 DEF ArgsInv
    <3>4. QED BY <2>4, <3>2, <3>3
  <2>7. \A u \in Threads : tpc'[u] \in Reading =>
            grData' = [from |-> borneThread(u)', to |-> borneThread(u + 1)']
    BY <1>b, <2>1, <2>5
  <2>8. \A u \in Threads : tpc'[u] # "fin"
    BY <2>3, <2>4 DEF Reading
  <2>9. mpc' # "create" /\ mutex'["StructRead"] = 0
    BY <2>1, <2>3
  <2>10. ArgsInv'
    BY <2>5, <2>6, <2>7, <2>8, <2>9 DEF ArgsInv
  <2>11. ArgsDelivered'
    BY <1>t, <1>b, <1>f, <2>4 DEF ArgsDelivered, HasArguments
  <2>12. QED BY <2>10, <2>11
<1>3. CASE Join
  <2>1. /\ mpc = "join" /\ mpc' \in {"join", "end"} /\ mutex' = mutex
        /\ tpc' = tpc /\ grData' = grData
    BY <1>3 DEF Join
  <2>2. ArgsInv'
    BY <1>t, <1>b, <1>f, <2>1 DEF ArgsInv
  <2>3. ArgsDelivered'
    BY <1>t, <1>b, <1>f, <2>1 DEF ArgsDelivered, HasArguments
  <2>4. QED BY <2>2, <2>3
<1>4. QED BY <1>1, <1>2, <1>3 DEF Main


-----------------------------------------------------------------------------
(***************************************************************************)
(* main does not disturb the work of the threads.                          *)
(***************************************************************************)
LEMMA MatchesFrame ==
    ASSUME input' = input
    PROVE  \A r : Matches(r)' = Matches(r)
BY DEF Matches

LEMMA MainFrame ==
    ASSUME Inv, Main
    PROVE  /\ UNCHANGED <<input, files, explored, j, i, track, p, c>>
           /\ \A sem \in Semaphores : sem # "StructRead" => mutex'[sem] = mutex[sem]
           /\ \A u \in Threads : \/ tpc'[u] = tpc[u]
                                 \/ tpc[u] = "unborn" /\ tpc'[u] = "debut"
<1>t. tpc \in [Threads -> Locations] /\ mutex \in [Semaphores -> 0..1]
      /\ k \in Threads /\ k \in Int
  <2>1. k \in Threads
    BY DEF Inv, TypeOK
  <2>2. k \in Int
    BY <2>1, ThreadsAssumption DEF Threads
  <2>3. QED BY <2>1, <2>2 DEF Inv, TypeOK
<1>1. UNCHANGED <<input, files, explored, j, i, track, p, c>>
  BY DEF Main, WaitStructRead, Create, Join, optVars, searchVars, walkVars
<1>2. \A sem \in Semaphores : sem # "StructRead" => mutex'[sem] = mutex[sem]
  BY <1>t DEF Main, WaitStructRead, Create, Join, Wait
<1>3. tpc' = tpc \/ (mpc = "create" /\ tpc' = [tpc EXCEPT ![k] = "debut"])
  BY DEF Main, WaitStructRead, Create, Join, Goto
<1>4. mpc = "create" => tpc[k] = "unborn"
  BY <1>t DEF Inv, ArgsInv
<1>5. \A u \in Threads : \/ tpc'[u] = tpc[u]
                         \/ tpc[u] = "unborn" /\ tpc'[u] = "debut"
  BY <1>t, <1>3, <1>4
<1>6. QED BY <1>1, <1>2, <1>5

LEMMA MainKeeps ==
    ASSUME Inv, Main
    PROVE  RootInv' /\ MatchInv' /\ WalkInv' /\ MarksAreMine' /\ FilesInv'
<1>1. /\ UNCHANGED <<input, files, explored, j, i, track, p, c>>
      /\ \A u \in Threads : \/ tpc'[u] = tpc[u]
                            \/ tpc[u] = "unborn" /\ tpc'[u] = "debut"
  BY MainFrame
<1>2. mutex'["BSFPattern"] = mutex["BSFPattern"] /\ mutex'["Export"] = mutex["Export"]
  BY MainFrame DEF Semaphores
<1>3. Nodes' = Nodes /\ \A r : Matches(r)' = Matches(r)
  BY <1>1, MatchesFrame DEF Nodes, gr
<1>4. RootInv'
  BY <1>1, <1>3 DEF Inv, RootInv, AtRoot, AfterWalk
<1>5. MatchInv'
  BY <1>1, <1>3 DEF Inv, MatchInv, Matched
<1>6. WalkInv'
  BY <1>1, <1>2 DEF Inv, WalkInv
<1>7. MarksAreMine'
  <2>1. SUFFICES ASSUME NEW u \in Threads, tpc'[u] = "walk"
                 PROVE  /\ \A r \in DOMAIN track[u] :
                              explored[track[u][r]] = IF r <= Opened(u) THEN 2 ELSE 1
                        /\ \A n \in Nodes : explored[n] # 0 <=> n \in Range(track[u])
    BY <1>1, <1>3 DEF MarksAreMine, Opened
  <2>2. QED BY <1>1, <2>1 DEF Inv, MarksAreMine
<1>8. FilesInv'
  <2>1. \A u \in Threads : \A L \in {{"eP", "enT", "enP"}, {"enT", "enP"}, {"enP"}} :
            Ahead(u, L)' = Ahead(u, L)
    BY <1>1 DEF Ahead
  <2>2. \A u \in Threads : tpc'[u] \in Writing <=> tpc[u] \in Writing
    BY <1>1 DEF Writing
  <2>3. \A u \in Threads : tpc[u] \in Writing => tpc'[u] = tpc[u]
    BY <1>1 DEF Writing
  <2>4. QED BY <1>1, <1>2, <1>3, <2>1, <2>2, <2>3 DEF Inv, FilesInv
<1>9. QED BY <1>4, <1>5, <1>6, <1>7, <1>8

-----------------------------------------------------------------------------
(***************************************************************************)
(* The root a thread is working on.                                        *)
(***************************************************************************)
\* A thread either begins, extends or keeps the walk it is at.
LEMMA RootFrame ==
    ASSUME TypeOK, NEW t \in Threads, Thread(t), tpc'[t] \in AtRoot
    PROVE  \/ BeginWalk(t)
           \/ VisitChild(t)
           \/ tpc[t] \in AtRoot /\ j'[t] = j[t] /\ track'[t] = track[t]
<1> USE DEF Goto, AtRoot, AfterWalk, searchVars, walkVars
<1>t. tpc \in [Threads -> Locations] /\ j \in [Threads -> Nat]
  BY DEF TypeOK
<1>1. ~ReadDebut(t) /\ ~ReadFin(t) /\ ~PostStructRead(t)
  BY <1>t DEF ReadDebut, ReadFin, PostStructRead
<1>2. CASE OpenNode(t)
  BY <1>2 DEF OpenNode
<1>3. CASE PassNode(t)
  BY <1>3 DEF PassNode
<1>4. CASE EndWalk(t)
  BY <1>4, <1>t DEF EndWalk
<1>5. ~NoMatch(t) /\ ~PostExport(t) /\ ~Exit(t)
  BY <1>t DEF NoMatch, NextRoot, PostExport, Exit
<1>6. CASE Match(t)
  BY <1>6, <1>t DEF Match, NextRoot
<1>7. CASE WaitExport(t)
  BY <1>7 DEF WaitExport
<1>8. CASE Write(t)
  BY <1>8 DEF Write, Files
<1>9. QED BY <1>1, <1>2, <1>3, <1>4, <1>5, <1>6, <1>7, <1>8 DEF Thread

LEMMA RootThread ==
    ASSUME Inv, NEW t \in Threads, Thread(t)
    PROVE  RootInv'
<1>t. TypeOK /\ RootInv /\ track \in [Threads -> Seq(Nodes)] /\ j \in [Threads -> Nat]
  BY DEF Inv, TypeOK
<1>f. /\ Nodes' = Nodes
      /\ \A u \in Threads : u # t =>
            tpc'[u] = tpc[u] /\ j'[u] = j[u] /\ track'[u] = track[u]
  BY <1>t, ThreadFrame DEF Untouched, optVars, Nodes, gr
<1>1. tpc'[t] \in AtRoot =>
          j'[t] + 1 \in Nodes /\ track'[t] # <<>> /\ track'[t][1] = j'[t] + 1
  <2>1. SUFFICES ASSUME tpc'[t] \in AtRoot
                 PROVE  j'[t] + 1 \in Nodes /\ track'[t] # <<>> /\ track'[t][1] = j'[t] + 1
    OBVIOUS
  <2>2. CASE BeginWalk(t)
    <3>1. j[t] + 1 \in Nodes
      BY <2>2, NextIsNode DEF BeginWalk
    <3>2. j' = j /\ track'[t] = <<j[t] + 1>>
      BY <1>t, <2>2 DEF BeginWalk, searchVars
    <3>3. QED BY <3>1, <3>2
  <2>3. CASE VisitChild(t)
    <3>0. j' = j
      BY <2>3 DEF VisitChild, searchVars
    <3>1. PICK n \in Nodes : track' = track \/ track'[t] = Append(track[t], n)
      BY <1>t, <2>3, VisitCases DEF Inv
    <3>2. track[t] # <<>> /\ track[t][1] = j[t] + 1 /\ j[t] + 1 \in Nodes
      BY <1>t, <2>3 DEF RootInv, VisitChild, Walking, AtRoot
    <3>3. track[t] \in Seq(Nodes)
      BY <1>t
    <3>4. QED BY <3>0, <3>1, <3>2, <3>3
  <2>4. CASE tpc[t] \in AtRoot /\ j'[t] = j[t] /\ track'[t] = track[t]
    BY <1>t, <2>4 DEF RootInv
  <2>5. QED BY <1>t, <2>1, <2>2, <2>3, <2>4, RootFrame
<1>2. QED BY <1>t, <1>f, <1>1 DEF RootInv

LEMMA MatchThread ==
    ASSUME Inv, NEW t \in Threads, Thread(t)
    PROVE  MatchInv'
<1>t. TypeOK /\ MatchInv /\ tpc \in [Threads -> Locations] /\ i \in [Threads -> Nat]
      /\ j \in [Threads -> Nat]
  BY DEF Inv, TypeOK
<1>f. \A u \in Threads : u # t => tpc'[u] = tpc[u] /\ j'[u] = j[u] /\ i'[u] = i[u]
  BY <1>t, ThreadFrame DEF Untouched
<1>m. \A r : Matches(r)' = Matches(r)
  BY <1>t, ThreadFrame, MatchesFrame DEF optVars
<1>1. tpc'[t] \in Matched => i'[t] \in Matches(j'[t] + 1)
  <2>1. SUFFICES ASSUME tpc'[t] \in Matched PROVE i'[t] \in Matches(j'[t] + 1)
    OBVIOUS
  <2>2. CASE Match(t)
    <3>1. PICK n \in Matches(j[t] + 1) : i' = [i EXCEPT ![t] = n]
      BY <2>2 DEF Match
    <3>2. j' = j
      BY <1>t, <2>1, <2>2 DEF Match, NextRoot, Goto, Matched
    <3>3. QED BY <1>t, <3>1, <3>2
  <2>3. CASE WaitExport(t)
    BY <1>t, <2>3 DEF WaitExport, searchVars, MatchInv, Matched
  <2>4. CASE Write(t)
    BY <1>t, <2>4 DEF Write, searchVars, MatchInv, Matched, Files
  <2>5. ~ReadDebut(t) /\ ~ReadFin(t) /\ ~PostStructRead(t) /\ ~BeginWalk(t)
    BY <1>t, <2>1 DEF ReadDebut, ReadFin, PostStructRead, BeginWalk, Goto, Matched
  <2>6. ~OpenNode(t) /\ ~VisitChild(t) /\ ~PassNode(t)
    BY <1>t, <2>1 DEF OpenNode, VisitChild, PassNode, Walking, Matched
  <2>7. ~EndWalk(t) /\ ~NoMatch(t) /\ ~PostExport(t) /\ ~Exit(t)
    BY <1>t, <2>1 DEF EndWalk, NoMatch, NextRoot, PostExport, Exit, Goto, Matched
  <2>8. QED BY <2>2, <2>3, <2>4, <2>5, <2>6, <2>7 DEF Thread
<1>2. QED BY <1>t, <1>f, <1>m, <1>1 DEF MatchInv


-----------------------------------------------------------------------------
(***************************************************************************)
(* The walks.  A thread that does not walk leaves the marks and their      *)
(* semaphore alone; the one that walks is alone.                           *)
(***************************************************************************)
LEMMA OffWalkFrame ==
    ASSUME TypeOK, NEW t \in Threads, Thread(t), tpc[t] # "walk", ~BeginWalk(t)
    PROVE  /\ tpc'[t] # "walk" /\ explored' = explored
           /\ mutex'["BSFPattern"] = mutex["BSFPattern"]
<1> USE DEF Goto, walkVars
<1>t. tpc \in [Threads -> Locations] /\ mutex \in [Semaphores -> 0..1]
      /\ "BSFPattern" \in Semaphores
  BY DEF TypeOK, Semaphores
<1>1. CASE ReadDebut(t)
  BY <1>1, <1>t DEF ReadDebut
<1>2. CASE ReadFin(t)
  BY <1>2, <1>t DEF ReadFin
<1>3. CASE PostStructRead(t)
  BY <1>3, <1>t DEF PostStructRead, Post
<1>4. CASE NoMatch(t)
  BY <1>4, <1>t DEF NoMatch, NextRoot
<1>5. CASE Match(t)
  BY <1>5, <1>t DEF Match, NextRoot
<1>6. CASE WaitExport(t)
  BY <1>6, <1>t DEF WaitExport, Wait
<1>7. CASE Write(t)
  <2>1. mutex' = mutex /\ explored' = explored
    BY <1>7 DEF Write
  <2>2. tpc'[t] # "walk"
    BY <1>7, <1>t, WriteCases
  <2>3. QED BY <2>1, <2>2
<1>8. CASE PostExport(t)
  BY <1>8, <1>t DEF PostExport, NextRoot, Post
<1>9. CASE Exit(t)
  BY <1>9, <1>t DEF Exit
<1>10. ~OpenNode(t) /\ ~VisitChild(t) /\ ~PassNode(t) /\ ~EndWalk(t)
  BY DEF OpenNode, VisitChild, PassNode, EndWalk, Walking
<1>11. QED BY <1>1, <1>2, <1>3, <1>4, <1>5, <1>6, <1>7, <1>8, <1>9, <1>10 DEF Thread

\* What the invariant says of the walk of one thread.
WalkOf(t) ==
    /\ p[t] \in 1..(Len(track[t]) + 1)
    /\ c[t] # 0 => p[t] <= Len(track[t])
    /\ \A r, s \in DOMAIN track[t] : track[t][r] = track[t][s] => r = s
    /\ \A r \in DOMAIN track[t] :
          explored[track[t][r]] = IF r <= Opened(t) THEN 2 ELSE 1
    /\ \A n \in Nodes : explored[n] # 0 <=> n \in Range(track[t])

Alone == \A t \in Threads : tpc[t] = "walk" =>
            /\ mutex["BSFPattern"] = 0
            /\ \A u \in Threads : tpc[u] = "walk" => u = t

LEMMA WalkParts ==
    /\ Alone /\ (\A t \in Threads : tpc[t] = "walk" => WalkOf(t))
          <=> WalkInv /\ MarksAreMine
BY DEF Alone, WalkOf, WalkInv, MarksAreMine

LEMMA WalkPartsNext ==
    ASSUME Alone', \A t \in Threads : tpc'[t] = "walk" => WalkOf(t)'
    PROVE  WalkInv' /\ MarksAreMine'
BY DEF Alone, WalkOf, WalkInv, MarksAreMine

LEMMA BeginIsWalk ==
    ASSUME Inv, NEW t \in Threads, BeginWalk(t)
    PROVE  WalkOf(t)'
<1>1. TypeOK /\ j[t] + 1 \in Nodes
  BY NextIsNode DEF Inv, BeginWalk
<1> DEFINE root == j[t] + 1
<1>2. track'[t] = <<root>> /\ p'[t] = 1 /\ c'[t] = 0
      /\ explored' = [n \in Nodes |-> IF n = root THEN 1 ELSE 0]
  BY <1>1 DEF BeginWalk, TypeOK
<1>3. Nodes' = Nodes
  BY DEF BeginWalk, optVars, Nodes, gr
<1>4. root \in Nodes
  BY <1>1
<1> HIDE DEF root
<1>5. Opened(t)' = 0
  BY <1>2 DEF Opened
<1>6. DOMAIN track'[t] = {1} /\ Len(track'[t]) = 1 /\ track'[t][1] = root
  BY <1>2
<1>7. Range(track[t])' = {root}
  BY <1>6 DEF Range
<1>8. p'[t] \in 1..(Len(track'[t]) + 1) /\ (c'[t] # 0 => p'[t] <= Len(track'[t]))
  BY <1>2, <1>6
<1>9. \A r, s \in DOMAIN track'[t] : track'[t][r] = track'[t][s] => r = s
  BY <1>6
<1>10. \A r \in DOMAIN track'[t] :
           explored'[track'[t][r]] = IF r <= Opened(t)' THEN 2 ELSE 1
  BY <1>2, <1>4, <1>5, <1>6
<1>11. \A n \in Nodes' : explored'[n] # 0 <=> n \in Range(track[t])'
  BY <1>2, <1>3, <1>7
<1>12. QED BY <1>8, <1>9, <1>10, <1>11 DEF WalkOf

LEMMA WalkFacts ==
    ASSUME TypeOK, NEW t \in Threads, WalkOf(t), Walking(t)
    PROVE  /\ track[t] \in Seq(Nodes) /\ Len(track[t]) \in Nat
           /\ track \in [Threads -> Seq(Nodes)] /\ explored \in [Nodes -> 0..2]
           /\ p \in [Threads -> Nat] /\ c \in [Threads -> Nat]
           /\ p[t] \in 1..Len(track[t]) /\ p[t] \in Nat /\ c[t] \in Nat
<1>1. /\ track \in [Threads -> Seq(Nodes)] /\ explored \in [Nodes -> 0..2]
      /\ p \in [Threads -> Nat] /\ c \in [Threads -> Nat]
  BY DEF TypeOK
<1>2. track[t] \in Seq(Nodes) /\ Len(track[t]) \in Nat
  BY <1>1
<1>3. p[t] \in 1..(Len(track[t]) + 1) /\ p[t] <= Len(track[t])
  BY DEF WalkOf, Walking
<1>4. p[t] \in 1..Len(track[t])
  BY <1>2, <1>3
<1>5. p[t] \in Nat /\ c[t] \in Nat
  BY <1>1
<1>6. QED BY <1>1, <1>2, <1>4, <1>5

LEMMA OpenIsWalk ==
    ASSUME TypeOK, NEW t \in Threads, WalkOf(t), OpenNode(t)
    PROVE  WalkOf(t)'
<1> DEFINE q == track[t]
<1>1. /\ q \in Seq(Nodes) /\ explored \in [Nodes -> 0..2] /\ p[t] \in 1..Len(q)
      /\ c[t] = 0 /\ c \in [Threads -> Nat] /\ p \in [Threads -> Nat]
  BY WalkFacts DEF OpenNode
<1>2. Opened(t) = p[t] - 1
  BY <1>1 DEF Opened
<1>3. explored[nI(t)] = 1
  BY <1>1, <1>2 DEF WalkOf, nI
<1>4. /\ track' = track /\ p' = p /\ c'[t] = 1
      /\ explored' = [explored EXCEPT ![q[p[t]]] = 2]
  BY <1>1, <1>3 DEF OpenNode, nI
<1>5. Nodes' = Nodes
  BY DEF OpenNode, optVars, Nodes, gr
<1>6. Opened(t)' = p[t] /\ Range(track[t])' = Range(track[t])
  BY <1>4 DEF Opened, Range
<1>7. /\ \A r, s \in DOMAIN q : q[r] = q[s] => r = s
      /\ \A r \in DOMAIN q : explored[q[r]] = IF r <= p[t] - 1 THEN 2 ELSE 1
      /\ \A n \in Nodes : explored[n] # 0 <=> n \in Range(track[t])
  BY <1>2 DEF WalkOf
<1>8. \A r \in DOMAIN q : explored'[q[r]] = IF r <= p[t] THEN 2 ELSE 1
  <2>1. SUFFICES ASSUME NEW r \in DOMAIN q
                 PROVE  explored'[q[r]] = IF r <= p[t] THEN 2 ELSE 1
    OBVIOUS
  <2>2. r \in 1..Len(q) /\ q[r] \in Nodes /\ p[t] \in DOMAIN q /\ p[t] \in Int
    BY <1>1
  <2> HIDE DEF q
  <2>3. CASE r = p[t]
    BY <1>1, <1>4, <2>2, <2>3
  <2>4. CASE r # p[t]
    <3>1. q[r] # q[p[t]]
      BY <1>7, <2>2, <2>4
    <3>2. explored'[q[r]] = explored[q[r]]
      BY <1>1, <1>4, <2>2, <3>1
    <3>3. r <= p[t] - 1 <=> r <= p[t]
      BY <2>2, <2>4
    <3>4. QED BY <1>7, <3>2, <3>3
  <2>5. QED BY <2>3, <2>4
<1>9. \A n \in Nodes : explored'[n] # 0 <=> n \in Range(track[t])
  <2>1. explored[q[p[t]]] # 0
    BY <1>3 DEF nI
  <2>2. QED BY <1>1, <1>4, <1>7, <2>1
<1>10. QED BY <1>1, <1>4, <1>5, <1>6, <1>7, <1>8, <1>9 DEF WalkOf

LEMMA PassIsWalk ==
    ASSUME TypeOK, NEW t \in Threads, WalkOf(t), PassNode(t)
    PROVE  WalkOf(t)'
<1>1. /\ track[t] \in Seq(Nodes) /\ p[t] \in 1..Len(track[t]) /\ p[t] \in Nat
      /\ p \in [Threads -> Nat] /\ c \in [Threads -> Nat]
  BY WalkFacts DEF PassNode
<1>2. gr.children[nI(t)] \in Seq(Nodes)
  BY <1>1, WalkingType DEF PassNode
<1>3. c[t] # 0
  BY <1>1, <1>2 DEF PassNode
<1>4. p'[t] = p[t] + 1 /\ c'[t] = 0 /\ track' = track /\ explored' = explored
  BY <1>1 DEF PassNode, CloseNode
<1>5. Nodes' = Nodes
  BY DEF PassNode, optVars, Nodes, gr
<1>6. Opened(t)' = Opened(t) /\ Range(track[t])' = Range(track[t])
  BY <1>1, <1>3, <1>4 DEF Opened, Range
<1>7. QED BY <1>1, <1>4, <1>5, <1>6 DEF WalkOf

LEMMA VisitIsWalk ==
    ASSUME TypeOK, WalkInv, NEW t \in Threads, WalkOf(t), VisitChild(t)
    PROVE  WalkOf(t)'
<1> DEFINE q == track[t]
           L == Len(q)
<1>1. /\ q \in Seq(Nodes) /\ explored \in [Nodes -> 0..2] /\ p[t] \in 1..L
      /\ c[t] \in Nat /\ track \in [Threads -> Seq(Nodes)] /\ L \in Nat
  BY WalkFacts DEF VisitChild
<1>2. c[t] # 0
  <2>1. gr.children[nI(t)] \in Seq(Nodes)
    BY <1>1, WalkingType DEF VisitChild
  <2>2. QED BY <2>1 DEF VisitChild
<1>3. p' = p /\ c'[t] = c[t] + 1
  BY DEF VisitChild, TypeOK
<1>4. Nodes' = Nodes
  BY DEF VisitChild, optVars, Nodes, gr
<1>5. Opened(t)' = p[t] /\ Opened(t) = p[t]
  BY <1>1, <1>2, <1>3 DEF Opened
<1>6. PICK child \in Nodes :
          \/ explored[child] # 0 /\ explored' = explored /\ track' = track
          \/ /\ explored[child] = 0
             /\ explored' = [explored EXCEPT ![child] = 1]
             /\ track' = [track EXCEPT ![t] = Append(@, child)]
  BY VisitCases
<1>7. /\ \A r, s \in DOMAIN q : q[r] = q[s] => r = s
      /\ \A r \in DOMAIN q : explored[q[r]] = IF r <= p[t] THEN 2 ELSE 1
      /\ \A n \in Nodes : explored[n] # 0 <=> n \in Range(q)
  BY <1>5 DEF WalkOf
<1>8. CASE track' = track /\ explored' = explored
  <2>1. Range(track[t])' = Range(track[t])
    BY <1>8 DEF Range
  <2>2. QED BY <1>1, <1>3, <1>4, <1>5, <1>7, <1>8, <2>1 DEF WalkOf
<1>9. CASE /\ explored[child] = 0
           /\ explored' = [explored EXCEPT ![child] = 1]
           /\ track' = [track EXCEPT ![t] = Append(@, child)]
  <2> DEFINE q2 == track'[t]
  <2>1. q2 = Append(q, child)
    BY <1>1, <1>9
  <2>2. /\ Len(q2) = L + 1 /\ DOMAIN q2 = 1..(L + 1) /\ q2[L + 1] = child
        /\ \A r \in 1..L : q2[r] = q[r]
        /\ DOMAIN q = 1..L /\ \A r \in 1..L : q[r] \in Nodes
    BY <1>1, <2>1
  <2>3. \A r \in 1..L : q[r] # child
    <3>1. child \notin Range(q)
      BY <1>7, <1>9
    <3>2. QED BY <2>2, <3>1 DEF Range
  <2> HIDE DEF q, q2, L
  <2>4. \A r, s \in DOMAIN q2 : q2[r] = q2[s] => r = s
    <3>1. SUFFICES ASSUME NEW r \in 1..(L + 1), NEW s \in 1..(L + 1), q2[r] = q2[s]
                   PROVE  r = s
      BY <2>2
    <3>2. CASE r \in 1..L /\ s \in 1..L
      BY <1>7, <2>2, <3>1, <3>2
    <3>3. CASE r = L + 1 /\ s = L + 1
      BY <3>3
    <3>4. CASE r = L + 1 /\ s \in 1..L
      BY <2>2, <2>3, <3>1, <3>4
    <3>5. CASE r \in 1..L /\ s = L + 1
      BY <2>2, <2>3, <3>1, <3>5
    <3>6. QED BY <1>1, <3>1, <3>2, <3>3, <3>4, <3>5
  <2>5. \A r \in DOMAIN q2 : explored'[q2[r]] = IF r <= p[t] THEN 2 ELSE 1
    <3>1. \A r \in 1..L : explored'[q2[r]] = explored[q[r]]
      BY <1>1, <1>9, <2>2, <2>3
    <3>2. explored'[q2[L + 1]] = 1
      BY <1>1, <1>9, <2>2
    <3>3. ~(L + 1 <= p[t])
      BY <1>1
    <3>4. \A r \in 1..(L + 1) : r \in 1..L \/ r = L + 1
      BY <1>1
    <3>5. QED BY <1>7, <2>2, <3>1, <3>2, <3>3, <3>4
  <2>6. Range(q2) = Range(q) \cup {child}
    <3>1. \A r \in 1..(L + 1) : r \in 1..L \/ r = L + 1
      BY <1>1
    <3>2. 1..L \subseteq 1..(L + 1) /\ L + 1 \in 1..(L + 1)
      BY <1>1
    <3>3. QED BY <2>2, <3>1, <3>2 DEF Range
  <2>7. \A n \in Nodes : explored'[n] # 0 <=> n \in Range(q2)
    BY <1>1, <1>7, <1>9, <2>6
  <2>8. p[t] \in 1..(Len(q2) + 1) /\ p[t] <= Len(q2)
    BY <1>1, <2>2
  <2>9. QED BY <1>3, <1>4, <1>5, <2>4, <2>5, <2>7, <2>8 DEF WalkOf, q2
<1>10. QED BY <1>6, <1>8, <1>9

LEMMA WalkThread ==
    ASSUME Inv, NEW t \in Threads, Thread(t)
    PROVE  WalkInv' /\ MarksAreMine'
<1>t. /\ TypeOK /\ WalkInv /\ Alone /\ tpc \in [Threads -> Locations]
      /\ \A u \in Threads : tpc[u] = "walk" => WalkOf(u)
      /\ mutex \in [Semaphores -> 0..1] /\ "BSFPattern" \in Semaphores
  BY WalkParts DEF Inv, TypeOK, Semaphores
<1>f. /\ \A u \in Threads : u # t =>
            tpc'[u] = tpc[u] /\ track'[u] = track[u] /\ p'[u] = p[u] /\ c'[u] = c[u]
      /\ Nodes' = Nodes
  BY <1>t, ThreadFrame DEF Untouched, optVars, Nodes, gr
<1>1. CASE tpc[t] # "walk" /\ ~BeginWalk(t)
  <2>1. /\ tpc'[t] # "walk" /\ explored' = explored
        /\ mutex'["BSFPattern"] = mutex["BSFPattern"]
    BY <1>t, <1>1, OffWalkFrame
  <2>2. Alone'
    BY <1>t, <1>f, <2>1 DEF Alone
  <2>3. ASSUME NEW u \in Threads, tpc'[u] = "walk" PROVE WalkOf(u)'
    <3>1. u # t /\ tpc[u] = "walk" /\ WalkOf(u)
      BY <1>t, <1>f, <2>1, <2>3
    <3>2. track'[u] = track[u] /\ p'[u] = p[u] /\ c'[u] = c[u]
      BY <1>f, <3>1
    <3>3. Opened(u)' = Opened(u) /\ Range(track[u])' = Range(track[u])
      BY <3>2 DEF Opened, Range
    <3>4. QED BY <1>f, <2>1, <3>1, <3>2, <3>3 DEF WalkOf
  <2>4. QED BY <2>2, <2>3, WalkPartsNext
<1>2. CASE BeginWalk(t)
  <2>1. /\ mutex["BSFPattern"] = 1 /\ mutex'["BSFPattern"] = 0
        /\ tpc[t] = "next" /\ tpc'[t] = "walk"
    BY <1>t, <1>2 DEF BeginWalk, Wait, Goto
  <2>2. \A u \in Threads : tpc'[u] = "walk" => u = t
    BY <1>t, <1>f, <2>1 DEF Alone
  <2>3. Alone'
    BY <2>1, <2>2 DEF Alone
  <2>4. WalkOf(t)'
    BY <1>2, BeginIsWalk
  <2>5. QED BY <2>2, <2>3, <2>4, WalkPartsNext
<1>3. CASE tpc[t] = "walk"
  <2>1. mutex["BSFPattern"] = 0 /\ \A u \in Threads : tpc[u] = "walk" => u = t
    BY <1>t, <1>3 DEF Alone
  <2>2. \A u \in Threads : tpc'[u] = "walk" => u = t
    BY <1>f, <2>1
  <2>3. CASE OpenNode(t) \/ VisitChild(t) \/ PassNode(t)
    <3>1. WalkOf(t)'
      BY <1>t, <1>3, <2>3, OpenIsWalk, VisitIsWalk, PassIsWalk
    <3>2. mutex' = mutex
      BY <2>3 DEF OpenNode, VisitChild, PassNode
    <3>3. Alone'
      BY <2>1, <2>2, <3>2 DEF Alone
    <3>4. QED BY <2>2, <3>1, <3>3, WalkPartsNext
  <2>4. CASE EndWalk(t)
    <3>1. tpc'[t] # "walk"
      BY <1>t, <2>4 DEF EndWalk, Goto
    <3>2. \A u \in Threads : tpc'[u] # "walk"
      BY <2>2, <3>1
    <3>3. QED BY <3>2 DEF WalkInv, MarksAreMine
  <2>5. ~ReadDebut(t) /\ ~ReadFin(t) /\ ~PostStructRead(t) /\ ~BeginWalk(t)
        /\ ~NoMatch(t) /\ ~Match(t)
    BY <1>3 DEF ReadDebut, ReadFin, PostStructRead, BeginWalk, NoMatch, Match
  <2>6. ~WaitExport(t) /\ ~Write(t) /\ ~PostExport(t) /\ ~Exit(t)
    BY <1>3 DEF WaitExport, Write, Files, PostExport, Exit
  <2>7. QED BY <2>3, <2>4, <2>5, <2>6 DEF Thread
<1>4. QED BY <1>1, <1>2, <1>3


-----------------------------------------------------------------------------
(***************************************************************************)
(* The files.                                                              *)
(***************************************************************************)
LEMMA OffFilesFrame ==
    ASSUME TypeOK, NEW t \in Threads, Thread(t),
           tpc[t] \notin Writing, ~WaitExport(t)
    PROVE  /\ tpc'[t] \notin Writing /\ files' = files
           /\ mutex'["Export"] = mutex["Export"]
<1> USE DEF Goto, Writing
<1>t. tpc \in [Threads -> Locations] /\ mutex \in [Semaphores -> 0..1]
      /\ "Export" \in Semaphores
  BY DEF TypeOK, Semaphores
<1>1. CASE ReadDebut(t)
  BY <1>1, <1>t DEF ReadDebut
<1>2. CASE ReadFin(t)
  BY <1>2, <1>t DEF ReadFin
<1>3. CASE PostStructRead(t)
  BY <1>3, <1>t DEF PostStructRead, Post
<1>4. CASE BeginWalk(t)
  BY <1>4, <1>t DEF BeginWalk, Wait
<1>5. CASE OpenNode(t)
  BY <1>5, <1>t DEF OpenNode
<1>6. CASE VisitChild(t)
  BY <1>6, <1>t DEF VisitChild
<1>7. CASE PassNode(t)
  BY <1>7, <1>t DEF PassNode
<1>8. CASE EndWalk(t)
  BY <1>8, <1>t DEF EndWalk, Post
<1>9. CASE NoMatch(t)
  BY <1>9, <1>t DEF NoMatch, NextRoot
<1>10. CASE Match(t)
  BY <1>10, <1>t DEF Match, NextRoot
<1>11. CASE Exit(t)
  BY <1>11, <1>t DEF Exit
<1>12. ~Write(t) /\ ~PostExport(t)
  BY DEF Write, Files, PostExport
<1>13. QED BY <1>1, <1>2, <1>3, <1>4, <1>5, <1>6, <1>7, <1>8, <1>9, <1>10,
              <1>11, <1>12 DEF Thread

\* The files as t finds them between sem_wait and sem_post.
Written(t) ==
    /\ Len(files.eT) = Len(files.enP) + Ahead(t, {"eP", "enT", "enP"})
    /\ Len(files.eP) = Len(files.enP) + Ahead(t, {"enT", "enP"})
    /\ Len(files.enT) = Len(files.enP) + Ahead(t, {"enP"})
    /\ tpc[t] \in {"eP", "enT", "enP"} => files.eT[Len(files.eT)] = i[t]
    /\ tpc[t] = "enP" => files.enT[Len(files.enT)] = i[t]

AlignedLines ==
    \A n \in DOMAIN files.enP : /\ files.enT[n] = files.eT[n]
                                /\ files.eT[n] \in Matches(files.enP[n][1])

WriteAlone ==
    \A t \in Threads : tpc[t] \in Writing =>
        /\ mutex["Export"] = 0
        /\ \A u \in Threads : tpc[u] \in Writing => u = t

LEMMA FilesParts ==
    ASSUME FilesInv
    PROVE  /\ WriteAlone /\ AlignedLines
           /\ \A t \in Threads : tpc[t] \in Writing => Written(t)
           /\ (\A t \in Threads : tpc[t] \notin Writing) =>
                 \A f \in Files : Len(files[f]) = Len(files.enP)
BY DEF FilesInv, Written, AlignedLines, WriteAlone

LEMMA FilesPartsNext ==
    ASSUME WriteAlone', AlignedLines',
           \A t \in Threads : tpc'[t] \in Writing => Written(t)',
           (\A t \in Threads : tpc'[t] \notin Writing) =>
                 \A f \in Files : Len(files'[f]) = Len(files'.enP)
    PROVE  FilesInv'
BY DEF FilesInv, Written, AlignedLines, WriteAlone

LEMMA FilesThread ==
    ASSUME Inv, NEW t \in Threads, Thread(t)
    PROVE  FilesInv'
<1>t. /\ TypeOK /\ tpc \in [Threads -> Locations] /\ mutex \in [Semaphores -> 0..1]
      /\ "Export" \in Semaphores
      /\ DOMAIN files = Files /\ Files = {"eT", "eP", "enT", "enP"}
      /\ files.eT \in Seq(Nat) /\ files.eP \in Seq(Nodes)
      /\ files.enT \in Seq(Nat) /\ files.enP \in Seq(Seq(Nodes))
      /\ i[t] \in Nat /\ input.root \in Nodes /\ track[t] \in Seq(Nodes)
  BY InputFacts DEF Inv, TypeOK, Semaphores, Files
<1>i. /\ WriteAlone /\ AlignedLines
      /\ \A u \in Threads : tpc[u] \in Writing => Written(u)
      /\ (\A u \in Threads : tpc[u] \notin Writing) =>
            \A f \in Files : Len(files[f]) = Len(files.enP)
  BY FilesParts DEF Inv
<1>f. \A u \in Threads : u # t => tpc'[u] = tpc[u] /\ i'[u] = i[u]
  BY <1>t, ThreadFrame DEF Untouched
<1>m. \A r : Matches(r)' = Matches(r)
  BY <1>t, ThreadFrame, MatchesFrame DEF optVars
<1>1. CASE tpc[t] \notin Writing /\ ~WaitExport(t)
  <2>1. tpc'[t] \notin Writing /\ files' = files /\ mutex'["Export"] = mutex["Export"]
    BY <1>t, <1>1, OffFilesFrame
  <2>2. \A u \in Threads : tpc'[u] \in Writing <=> tpc[u] \in Writing
    BY <1>1, <1>f, <2>1
  <2>3. WriteAlone'
    BY <1>i, <2>1, <2>2 DEF WriteAlone
  <2>4. AlignedLines'
    BY <1>i, <1>m, <2>1 DEF AlignedLines
  <2>5. ASSUME NEW u \in Threads, tpc'[u] \in Writing PROVE Written(u)'
    <3>1. tpc'[u] = tpc[u] /\ i'[u] = i[u] /\ Written(u)
      BY <1>i, <1>f, <2>1, <2>2, <2>5
    <3>2. QED BY <2>1, <3>1 DEF Written, Ahead
  <2>6. (\A u \in Threads : tpc'[u] \notin Writing) =>
            \A f \in Files : Len(files'[f]) = Len(files'.enP)
    BY <1>i, <2>1, <2>2
  <2>7. QED BY <2>3, <2>4, <2>5, <2>6, FilesPartsNext
<1>2. CASE WaitExport(t)
  <2>1. /\ mutex["Export"] = 1 /\ mutex'["Export"] = 0
        /\ tpc[t] = "export" /\ tpc'[t] = "eT" /\ files' = files
    BY <1>t, <1>2 DEF WaitExport, Wait, Goto
  <2>2. \A u \in Threads : tpc[u] \notin Writing
    BY <1>i, <2>1 DEF WriteAlone
  <2>3. \A u \in Threads : tpc'[u] \in Writing => u = t
    BY <1>f, <2>2
  <2>4. WriteAlone'
    BY <2>1, <2>3 DEF WriteAlone
  <2>5. AlignedLines'
    BY <1>i, <1>m, <2>1 DEF AlignedLines
  <2>6. Written(t)'
    <3>1. /\ Len(files.eT) = Len(files.enP) /\ Len(files.eP) = Len(files.enP)
          /\ Len(files.enT) = Len(files.enP) /\ Len(files.enP) \in Nat
      BY <1>t, <1>i, <2>2
    <3>2. QED BY <2>1, <3>1 DEF Written, Ahead
  <2>7. tpc'[t] \in Writing
    BY <2>1 DEF Writing
  <2>8. QED BY <2>3, <2>4, <2>5, <2>6, <2>7, FilesPartsNext
<1>3. CASE tpc[t] \in Writing
  <2>1. /\ mutex["Export"] = 0 /\ Written(t)
        /\ \A u \in Threads : tpc[u] \in Writing => u = t
    BY <1>i, <1>3 DEF WriteAlone
  <2>2. \A u \in Threads : tpc'[u] \in Writing => u = t
    BY <1>f, <2>1
  <2>3. CASE PostExport(t)
    <3>1. tpc[t] = "post" /\ tpc'[t] \notin Writing /\ files' = files
      BY <1>t, <2>3 DEF PostExport, NextRoot, Goto, Writing
    <3>2. \A u \in Threads : tpc'[u] \notin Writing
      BY <2>2, <3>1
    <3>3. WriteAlone' /\ \A u \in Threads : tpc'[u] \in Writing => Written(u)'
      BY <3>2 DEF WriteAlone
    <3>4. AlignedLines'
      BY <1>i, <1>m, <3>1 DEF AlignedLines
    <3>5. \A f \in Files : Len(files'[f]) = Len(files'.enP)
      BY <1>t, <2>1, <3>1 DEF Written, Ahead
    <3>6. QED BY <3>3, <3>4, <3>5, FilesPartsNext
  <2>4. CASE Write(t)
    <3>1. mutex' = mutex /\ i' = i
      BY <2>4 DEF Write, searchVars
    <3>2. \/ /\ tpc[t] = "eT" /\ tpc'[t] = "eP"
             /\ files' = [files EXCEPT !["eT"] = Append(@, i[t])]
          \/ /\ tpc[t] = "eP" /\ tpc'[t] = "enT"
             /\ files' = [files EXCEPT !["eP"] = Append(@, input.root)]
          \/ /\ tpc[t] = "enT" /\ tpc'[t] = "enP"
             /\ files' = [files EXCEPT !["enT"] = Append(@, i[t])]
          \/ /\ tpc[t] = "enP" /\ tpc'[t] = "post"
             /\ files' = [files EXCEPT !["enP"] = Append(@, track[t])]
      BY <1>t, <2>4, WriteCases DEF Goto
    <3>3. tpc'[t] \in Writing
      BY <3>2 DEF Writing
    <3>4. WriteAlone'
      BY <2>1, <2>2, <3>1 DEF WriteAlone
    <3>5. Written(t)'
      <4>i. i'[t] = i[t] /\ Len(files.enP) \in Nat
        BY <1>t, <3>1
      <4>1. CASE tpc[t] = "eT"
        <5>1. /\ tpc'[t] = "eP" /\ files'.eT = Append(files.eT, i[t])
              /\ files'.eP = files.eP /\ files'.enT = files.enT /\ files'.enP = files.enP
          BY <1>t, <3>2, <4>1
        <5>2. /\ Len(files'.eT) = Len(files.eT) + 1
              /\ files'.eT[Len(files.eT) + 1] = i[t]
          BY <1>t, <5>1
        <5>3. /\ Len(files.eT) = Len(files.enP)
              /\ Len(files.eP) = Len(files.enP)
              /\ Len(files.enT) = Len(files.enP)
          BY <2>1, <4>1 DEF Written, Ahead
        <5>4. /\ Len(files'.eT) = Len(files'.enP) + 1
              /\ Len(files'.eP) = Len(files'.enP)
              /\ Len(files'.enT) = Len(files'.enP)
          BY <4>i, <5>1, <5>2, <5>3
        <5>5. files'.eT[Len(files'.eT)] = i[t]
          BY <2>1, <4>1, <5>1, <5>2, <5>3 DEF Written, Ahead
        <5>6. QED BY <4>i, <5>1, <5>4, <5>5 DEF Written, Ahead
      <4>2. CASE tpc[t] = "eP"
        <5>1. /\ tpc'[t] = "enT" /\ files'.eP = Append(files.eP, input.root)
              /\ files'.eT = files.eT /\ files'.enT = files.enT /\ files'.enP = files.enP
          BY <1>t, <3>2, <4>2
        <5>2. /\ Len(files'.eP) = Len(files.eP) + 1
              /\ files'.eP[Len(files.eP) + 1] = input.root
          BY <1>t, <5>1
        <5>3. /\ Len(files.eT) = Len(files.enP) + 1
              /\ Len(files.eP) = Len(files.enP)
              /\ Len(files.enT) = Len(files.enP)
          BY <2>1, <4>2 DEF Written, Ahead
        <5>4. /\ Len(files'.eT) = Len(files'.enP) + 1
              /\ Len(files'.eP) = Len(files'.enP) + 1
              /\ Len(files'.enT) = Len(files'.enP)
          BY <4>i, <5>1, <5>2, <5>3
        <5>5. files'.eT[Len(files'.eT)] = i[t]
          BY <2>1, <4>2, <5>1, <5>2, <5>3 DEF Written, Ahead
        <5>6. QED BY <4>i, <5>1, <5>4, <5>5 DEF Written, Ahead
      <4>3. CASE tpc[t] = "enT"
        <5>1. /\ tpc'[t] = "enP" /\ files'.enT = Append(files.enT, i[t])
              /\ files'.eT = files.eT /\ files'.eP = files.eP /\ files'.enP = files.enP
          BY <1>t, <3>2, <4>3
        <5>2. /\ Len(files'.enT) = Len(files.enT) + 1
              /\ files'.enT[Len(files.enT) + 1] = i[t]
          BY <1>t, <5>1
        <5>3. /\ Len(files.eT) = Len(files.enP) + 1
              /\ Len(files.eP) = Len(files.enP) + 1
              /\ Len(files.enT) = Len(files.enP)
          BY <2>1, <4>3 DEF Written, Ahead
        <5>4. /\ Len(files'.eT) = Len(files'.enP) + 1
              /\ Len(files'.eP) = Len(files'.enP) + 1
              /\ Len(files'.enT) = Len(files'.enP) + 1
          BY <4>i, <5>1, <5>2, <5>3
        <5>5. /\ files'.eT[Len(files'.eT)] = i[t]
              /\ files'.enT[Len(files'.enT)] = i[t]
          BY <2>1, <4>3, <5>1, <5>2, <5>3 DEF Written, Ahead
        <5>6. QED BY <4>i, <5>1, <5>4, <5>5 DEF Written, Ahead
      <4>4. CASE tpc[t] = "enP"
        <5>1. /\ tpc'[t] = "post" /\ files'.enP = Append(files.enP, track[t])
              /\ files'.eT = files.eT /\ files'.eP = files.eP /\ files'.enT = files.enT
          BY <1>t, <3>2, <4>4
        <5>2. /\ Len(files'.enP) = Len(files.enP) + 1
              /\ files'.enP[Len(files.enP) + 1] = track[t]
          BY <1>t, <5>1
        <5>3. /\ Len(files.eT) = Len(files.enP) + 1
              /\ Len(files.eP) = Len(files.enP) + 1
              /\ Len(files.enT) = Len(files.enP) + 1
          BY <2>1, <4>4 DEF Written, Ahead
        <5>4. /\ Len(files'.eT) = Len(files'.enP)
              /\ Len(files'.eP) = Len(files'.enP)
              /\ Len(files'.enT) = Len(files'.enP)
          BY <4>i, <5>1, <5>2, <5>3
        <5>5. QED BY <4>i, <5>1, <5>4 DEF Written, Ahead
      <4>5. QED BY <3>2, <4>1, <4>2, <4>3, <4>4
    <3>6. AlignedLines'
      <4>1. CASE tpc[t] = "enP"
        <5> DEFINE L == Len(files.enP)
        <5>1. /\ files'.enP = Append(files.enP, track[t])
              /\ files'.eT = files.eT /\ files'.enT = files.enT
          BY <1>t, <3>2, <4>1
        <5>2. Len(files.eT) = L + 1 /\ Len(files.enT) = L + 1
              /\ files.eT[L + 1] = i[t] /\ files.enT[L + 1] = i[t] /\ L \in Nat
          BY <1>t, <2>1, <4>1 DEF Written, Ahead
        <5>3. i[t] \in Matches(track[t][1])
          BY <4>1 DEF Inv, MatchInv, RootInv, Matched, AtRoot, AfterWalk
        <5>4. /\ DOMAIN files'.enP = 1..(L + 1) /\ DOMAIN files.enP = 1..L
              /\ files'.enP[L + 1] = track[t]
              /\ \A n \in 1..L : files'.enP[n] = files.enP[n]
          BY <1>t, <5>1
        <5>5. \A n \in 1..(L + 1) : n \in 1..L \/ n = L + 1
          BY <5>2
        <5> HIDE DEF L
        <5>6. QED BY <1>i, <1>m, <5>1, <5>2, <5>3, <5>4, <5>5 DEF AlignedLines
      <4>2. CASE tpc[t] # "enP"
        <5>1. files'.enP = files.enP
          BY <1>t, <3>2, <4>2
        <5>2. \A n \in DOMAIN files.enP :
                  files'.enT[n] = files.enT[n] /\ files'.eT[n] = files.eT[n]
          <6>1. \A n \in DOMAIN files.enP : n \in 1..Len(files.eT) /\ n \in 1..Len(files.enT)
            BY <1>t, <2>1, SMTT(60) DEF Written, Ahead
          <6>2. \A n \in 1..Len(files.eT) : Append(files.eT, i[t])[n] = files.eT[n]
            BY <1>t
          <6>3. \A n \in 1..Len(files.enT) : Append(files.enT, i[t])[n] = files.enT[n]
            BY <1>t
          <6>4. files'.eT \in {files.eT, Append(files.eT, i[t])}
            BY <1>t, <3>2, <4>2
          <6>5. files'.enT \in {files.enT, Append(files.enT, i[t])}
            BY <1>t, <3>2, <4>2
          <6>6. QED BY <6>1, <6>2, <6>3, <6>4, <6>5
        <5>3. QED BY <1>i, <1>m, <5>1, <5>2 DEF AlignedLines
      <4>3. QED BY <4>1, <4>2
    <3>7. QED BY <2>2, <3>3, <3>4, <3>5, <3>6, FilesPartsNext
  <2>5. ~ReadDebut(t) /\ ~ReadFin(t) /\ ~PostStructRead(t) /\ ~BeginWalk(t)
        /\ ~NoMatch(t) /\ ~Match(t) /\ ~WaitExport(t) /\ ~Exit(t)
    BY <1>3 DEF Writing, ReadDebut, ReadFin, PostStructRead, BeginWalk, NoMatch,
                Match, WaitExport, Exit
  <2>6. ~OpenNode(t) /\ ~VisitChild(t) /\ ~PassNode(t) /\ ~EndWalk(t)
    BY <1>3 DEF Writing, OpenNode, VisitChild, PassNode, EndWalk, Walking
  <2>7. QED BY <2>3, <2>4, <2>5, <2>6 DEF Thread
<1>4. QED BY <1>1, <1>2, <1>3

-----------------------------------------------------------------------------
(***************************************************************************)
(* The theorems.                                                           *)
(***************************************************************************)
LEMMA InitInv == Init => Inv
<1> SUFFICES ASSUME Init PROVE Inv
  OBVIOUS
<1>1. TypeOK
  BY InitType
<1>2. /\ \A t \in Threads : tpc[t] = "unborn"
      /\ mpc = "wait" /\ k = 0
      /\ files = [f \in Files |-> <<>>]
  BY DEF Init
<1>3. ArgsInv /\ ArgsDelivered
  BY <1>2 DEF ArgsInv, ArgsDelivered, HasArguments, Reading
<1>4. RootInv /\ MatchInv /\ WalkInv /\ MarksAreMine
  BY <1>2 DEF RootInv, MatchInv, WalkInv, MarksAreMine, AtRoot, AfterWalk, Matched
<1>5. FilesInv
  <2>1. \A f \in Files : files[f] = <<>>
    BY <1>2
  <2>2. files.enP = <<>> /\ DOMAIN files.enP = {}
    BY <1>2 DEF Files
  <2>3. QED BY <1>2, <2>1, <2>2 DEF FilesInv, Writing
<1>6. QED BY <1>1, <1>3, <1>4, <1>5 DEF Inv

LEMMA NextInv == Inv /\ [Next]_vars => Inv'
<1> SUFFICES ASSUME Inv, [Next]_vars PROVE Inv'
  OBVIOUS
<1>1. CASE Main
  BY <1>1, MainType, ArgsMain, MainKeeps DEF Inv
<1>2. CASE \E t \in Threads : Thread(t)
  <2>1. PICK t \in Threads : Thread(t)
    BY <1>2
  <2>2. TypeOK' /\ ArgsInv' /\ ArgsDelivered' /\ RootInv' /\ MatchInv'
    BY <2>1, ThreadType, ArgsThread, RootThread, MatchThread
  <2>3. WalkInv' /\ MarksAreMine' /\ FilesInv'
    BY <2>1, WalkThread, FilesThread
  <2>4. QED BY <2>2, <2>3 DEF Inv
<1>3. CASE UNCHANGED vars
  <2>1. UNCHANGED <<input, optionExport, mpc, k, grData, nSgraphP, isoTotal,
                    mutex, files, explored, tpc, from, to, j, i,
                    nSgraphPLocal, isoLocal, track, p, c>>
    BY <1>3 DEF vars, optVars, mainVars, argVars, searchVars, walkVars
  <2>2. /\ Nodes' = Nodes /\ \A n : borneThread(n)' = borneThread(n)
        /\ \A r : Matches(r)' = Matches(r)
    BY <2>1, BorneFrame, MatchesFrame DEF Nodes, gr
  <2>3. TypeOK'
    BY <2>1, <2>2 DEF Inv, TypeOK
  <2>4. ArgsInv' /\ ArgsDelivered'
    BY <2>1, <2>2 DEF Inv, ArgsInv, ArgsDelivered, HasArguments
  <2>5. RootInv' /\ MatchInv' /\ WalkInv'
    BY <2>1, <2>2 DEF Inv, RootInv, MatchInv, WalkInv
  <2>6. MarksAreMine'
    BY <2>1, <2>2 DEF Inv, MarksAreMine, Opened
  <2>7. FilesInv'
    BY <2>1, <2>2 DEF Inv, FilesInv, Ahead
  <2>8. QED BY <2>3, <2>4, <2>5, <2>6, <2>7 DEF Inv
<1>4. QED BY <1>1, <1>2, <1>3 DEF Next, Finished

\* Inv is inductive.
THEOREM Invariance == Spec => []Inv
<1>1. Init => Inv
  BY InitInv
<1>2. Inv /\ [Next]_vars => Inv'
  BY NextInv
<1>3. QED BY <1>1, <1>2, PTL DEF Spec

(***************************************************************************)
(* Every variable keeps its type; in particular no semaphore ever exceeds  *)
(* one, so that each of the three is held by one thread at most, whatever  *)
(* the number of threads (main and processSubGraphs).                      *)
(***************************************************************************)
THEOREM TypeCorrect == Spec => []TypeOK
<1>1. Inv => TypeOK
  BY DEF Inv
<1>2. QED BY <1>1, Invariance, PTL

(***************************************************************************)
(* Every thread works on the range main computed for it, for any number of *)
(* threads and of roots (graphBinAlgo.c 516-523, libGraphBinAlgo.c 29-33). *)
(***************************************************************************)
THEOREM ArgsCorrect == Spec => []ArgsDelivered
<1>1. Inv => ArgsDelivered
  BY DEF Inv
<1>2. QED BY <1>1, Invariance, PTL

(***************************************************************************)
(* The marks BFS_gba finds on the pattern are those of the walk under way, *)
(* for any pattern, any site size and any number of threads                *)
(* (libGraphBinAlgo.c 44-46).                                              *)
(***************************************************************************)
THEOREM MarksCorrect == Spec => []MarksAreMine
<1>1. Inv => MarksAreMine
  BY DEF Inv
<1>2. QED BY <1>1, Invariance, PTL

(***************************************************************************)
(* The four files can be read side by side whenever the semaphore of the   *)
(* export is free (libGraphBinAlgo.c 66-92).                               *)
(***************************************************************************)
THEOREM FilesCorrect == Spec => []FilesAligned
<1>1. Inv => FilesAligned
  <2> SUFFICES ASSUME Inv, mutex["Export"] = 1
               PROVE  /\ \A f \in Files : Len(files[f]) = Len(files.eT)
                      /\ \A n \in DOMAIN files.eT :
                            /\ files.enT[n] = files.eT[n]
                            /\ files.eT[n] \in Matches(files.enP[n][1])
    BY DEF FilesAligned
  <2>1. \A f \in Files : Len(files[f]) = Len(files.enP)
    BY DEF Inv, FilesInv
  <2>2. \A f \in Files : Len(files[f]) = Len(files.eT)
    BY <2>1 DEF Files
  <2>3. DOMAIN files.eT = DOMAIN files.enP
    BY <2>1 DEF Inv, TypeOK, Files
  <2>4. QED BY <2>2, <2>3 DEF Inv, FilesInv
<1>2. QED BY <1>1, Invariance, PTL
-----------------------------------------------------------------------------
(***************************************************************************)
(* The results.  A walk has built what SiteQueue builds from the same      *)
(* root, child by child (WalkSoFar).  A thread has counted the roots of    *)
(* its range up to the one it is at, and that one when it is past it       *)
(* (CountsSoFar); the ranges meet, so main adds up all roots, each once    *)
(* (MainSoFar), and the files hold them, each once (LinesSoFar).           *)
(***************************************************************************)
Started(t) == tpc[t] \notin {"unborn", "debut", "fin", "read"}

QueueAfter(t, n) == BreadthFirst(siteSize, gr, j[t] + 1)[n]

\* What the walk of t has built: the queue of the nodes it has closed, and the
\* children of the open one that it has looked at.
BuildOf(t) ==
    /\ Len(track[t]) <= siteSize
    /\ c[t] = 0 => track[t] = QueueAfter(t, p[t] - 1)
    /\ c[t] # 0 =>
          /\ p[t] <= Len(QueueAfter(t, p[t] - 1))
          /\ QueueAfter(t, p[t] - 1)[p[t]] = nI(t)
          /\ c[t] - 1 <= Len(gr.children[nI(t)])
          /\ track[t] = Taken(siteSize, QueueAfter(t, p[t] - 1),
                              SubSeq(gr.children[nI(t)], 1, c[t] - 1))

WalkSoFar == \A t \in Threads : tpc[t] = "walk" => BuildOf(t)

SitesSoFar ==
    \A t \in Threads : tpc[t] \in AfterWalk =>
        track[t] = SiteQueue(gr, j[t] + 1) /\ Len(track[t]) = siteSize

RangeOf(t) ==
    Started(t) =>
        /\ borneThread(t) <= j[t] /\ j[t] <= borneThread(t + 1)
        /\ tpc[t] \in AtRoot => j[t] < borneThread(t + 1)
        /\ tpc[t] = "exited" => j[t] = borneThread(t + 1)

InRange == \A t \in Threads : RangeOf(t)

\* The roots of S from one bound to another.
Between(S, a, b) == {r \in S : a < r /\ r <= b}

\* The last root t has handled, when it is past the one it is at in locations.
Past(t, locations) == IF tpc[t] \in locations THEN j[t] + 1 ELSE j[t]

HandledBy(S, t, locations) ==
    IF Started(t) THEN Between(S, borneThread(t), Past(t, locations)) ELSE {}

Answers == [r \in Nodes |-> FirstAnswer(r)]

CountsSoFar ==
    \A t \in Threads :
        /\ nSgraphPLocal[t] = Cardinality(HandledBy(RootsWithSite, t, AfterWalk))
        /\ isoLocal[t] = SumOver(Answers, HandledBy(Matching, t, Matched))

FirstMatch ==
    \A t \in Threads : tpc[t] \in Matched => optionExport /\ i[t] = Min(Matches(j[t] + 1))

MainSoFar ==
    /\ mpc \in {"wait", "create"} => nSgraphP = 0 /\ isoTotal = 0
    /\ mpc = "join" =>
          /\ nSgraphP = Cardinality(Between(RootsWithSite, 0, borneThread(k)))
          /\ isoTotal = SumOver(Answers, Between(Matching, 0, borneThread(k)))
          /\ \A t \in Threads : t < k => tpc[t] = "exited"
    /\ mpc = "end" =>
          /\ nSgraphP = Cardinality(RootsWithSite)
          /\ isoTotal = SumOver(Answers, Matching)
          /\ \A t \in Threads : tpc[t] = "exited"

Exported == UNION {HandledBy(Matching, t, {"post"}) : t \in Threads}

LineAt(n) == <<files.enP[n], files.enT[n]>>
LineOf(r) == <<SiteQueue(gr, r), Min(Matches(r))>>

LinesSoFar ==
    IF optionExport
    THEN /\ Len(files.enP) = Cardinality(Exported)
         /\ {LineAt(n) : n \in DOMAIN files.enP} = {LineOf(r) : r \in Exported}
    ELSE files.eT = <<>>

Results == /\ WalkSoFar /\ SitesSoFar /\ InRange /\ CountsSoFar /\ FirstMatch
           /\ MainSoFar /\ LinesSoFar

(***************************************************************************)
(* The ranges of the threads.                                              *)
(***************************************************************************)
LEMMA QuotientGrows ==
    ASSUME NEW x \in Nat, NEW y \in Nat, x <= y, NEW d \in Nat \ {0}
    PROVE  x \div d <= y \div d
<1> DEFINE a == x \div d
           b == y \div d
<1>1. a \in Nat /\ d * a <= x /\ b \in Nat /\ y < d * b + d
  OBVIOUS
<1> HIDE DEF a, b
<1>2. SUFFICES ASSUME a >= b + 1 PROVE FALSE
  BY <1>1 DEF a, b
<1>3. d * a >= d * (b + 1)
  BY <1>1, <1>2
<1>4. d * (b + 1) = d * b + d
  BY <1>1
<1>5. QED BY <1>1, <1>3, <1>4

LEMMA BorneGrows ==
    ASSUME input \in Inputs, NEW m \in 0..nThreads, NEW n \in 0..nThreads, m <= n
    PROVE  borneThread(m) <= borneThread(n)
<1> DEFINE N == Cardinality(Nodes)
<1>1. N \in Nat /\ m \in Nat /\ n \in Nat /\ nThreads \in Nat \ {0}
  BY InputFacts, ThreadsAssumption
<1> HIDE DEF N
<1>2. m * N \in Nat /\ n * N \in Nat /\ m * N <= n * N
  BY <1>1
<1>3. (m * N) \div nThreads <= (n * N) \div nThreads
  BY <1>1, <1>2, QuotientGrows
<1>4. QED BY <1>3 DEF borneThread, N

LEMMA BorneEnds ==
    ASSUME input \in Inputs
    PROVE  borneThread(0) = 0 /\ borneThread(nThreads) = Cardinality(Nodes)
<1> DEFINE N == Cardinality(Nodes)
<1>1. N \in Nat /\ nThreads \in Nat \ {0}
  BY InputFacts, ThreadsAssumption
<1> HIDE DEF N
<1>2. (0 * N) \div nThreads = 0
  BY <1>1
<1>3. (nThreads * N) \div nThreads = N
  <2> DEFINE q == (nThreads * N) \div nThreads
  <2>1. nThreads * N \in Nat
    BY <1>1
  <2>2. q \in Nat /\ nThreads * q <= nThreads * N /\ nThreads * N < nThreads * q + nThreads
    BY <1>1, <2>1
  <2> HIDE DEF q
  <2>3. ~(q >= N + 1)
    <3>1. q >= N + 1 => nThreads * q >= nThreads * (N + 1)
      BY <1>1, <2>2
    <3>2. nThreads * (N + 1) = nThreads * N + nThreads
      BY <1>1
    <3>3. QED BY <1>1, <2>1, <2>2, <3>1, <3>2
  <2>4. ~(N >= q + 1)
    <3>1. N >= q + 1 => nThreads * N >= nThreads * (q + 1)
      BY <1>1, <2>2
    <3>2. nThreads * (q + 1) = nThreads * q + nThreads
      BY <1>1, <2>2
    <3>3. QED BY <1>1, <2>1, <2>2, <3>1, <3>2
  <2>5. q = N
    BY <1>1, <2>2, <2>3, <2>4
  <2>6. QED BY <2>5 DEF q
<1>4. QED BY <1>2, <1>3 DEF borneThread, N

LEMMA ThreadPlace ==
    ASSUME NEW t \in Threads
    PROVE  /\ t \in Nat /\ t \in 0..nThreads /\ t + 1 \in 0..nThreads /\ t < nThreads
           /\ nThreads \in Nat
BY ThreadsAssumption DEF Threads

\* Two threads have no root in common.
LEMMA RangesApart ==
    ASSUME input \in Inputs, NEW t \in Threads, NEW u \in Threads, NEW r \in Nat,
           borneThread(t) < r, r <= borneThread(t + 1),
           borneThread(u) < r, r <= borneThread(u + 1)
    PROVE  t = u
<1>1. /\ t \in Nat /\ u \in Nat /\ t \in 0..nThreads /\ u \in 0..nThreads
      /\ t + 1 \in 0..nThreads /\ u + 1 \in 0..nThreads
  BY ThreadPlace
<1>2. /\ borneThread(t) \in Nat /\ borneThread(u) \in Nat
      /\ borneThread(t + 1) \in Nat /\ borneThread(u + 1) \in Nat
  BY <1>1, BorneFacts
<1>3. t + 1 <= u => borneThread(t + 1) <= borneThread(u)
  BY <1>1, BorneGrows
<1>4. u + 1 <= t => borneThread(u + 1) <= borneThread(t)
  BY <1>1, BorneGrows
<1>5. t + 1 <= u \/ u + 1 <= t \/ t = u
  BY <1>1
<1>6. QED BY <1>2, <1>3, <1>4, <1>5

\* Every root is some thread's.
LEMMA RangesCover ==
    ASSUME input \in Inputs, NEW r \in Nodes
    PROVE  \E t \in Threads : borneThread(t) < r /\ r <= borneThread(t + 1)
<1> DEFINE S == {n \in 0..nThreads : borneThread(n) < r}
<1>1. r \in Nat /\ 0 < r /\ r <= Cardinality(Nodes)
  BY InputFacts
<1>2. SUFFICES ASSUME \A t \in Threads : borneThread(t) < r => ~(r <= borneThread(t + 1))
               PROVE  FALSE
  OBVIOUS
<1>3. 0 \in S
  BY <1>1, BorneEnds, ThreadsAssumption
<1>4. ASSUME NEW n \in 0..nThreads, n \in S, n < nThreads PROVE n + 1 \in S
  <2>1. n \in Threads /\ n + 1 \in 0..nThreads
    BY <1>4, ThreadsAssumption DEF Threads
  <2>2. ~(r <= borneThread(n + 1)) /\ borneThread(n + 1) \in Nat
    BY <1>2, <1>4, <2>1, BorneFacts
  <2>3. borneThread(n + 1) < r
    BY <1>1, <2>2
  <2>4. QED BY <2>1, <2>3
<1>5. 0..nThreads \subseteq S
  <2> HIDE DEF S
  <2>1. nThreads \in Nat
    BY ThreadsAssumption
  <2>2. QED BY <1>3, <1>4, <2>1, SetInductionUpTo
<1>6. borneThread(nThreads) < r
  BY <1>5, ThreadsAssumption
<1>7. QED BY <1>1, <1>6, BorneEnds, InputFacts
(***************************************************************************)
(* The walk of one thread.                                                 *)
(***************************************************************************)
LEMMA SiteQueueIs ==
    ASSUME NEW g, NEW root
    PROVE  SiteQueue(g, root) = BreadthFirst(siteSize, g, root)[siteSize]
BY DEF SiteQueue, BreadthFirst, AddChild, Taking, FoldLeft, MapThenFoldSet

LEMMA BuildContext ==
    ASSUME input \in Inputs, NEW t \in Threads, j[t] + 1 \in Nodes
    PROVE  /\ LinksInside(gr) /\ siteSize \in Nat /\ siteSize # 0
           /\ QueueAfter(t, 0) = <<j[t] + 1>>
           /\ \A n \in 0..siteSize : QueueAfter(t, n) \in Seq(Nodes)
           /\ \A n \in 1..siteSize :
                 QueueAfter(t, n) = Widened(siteSize, gr, n, QueueAfter(t, n - 1))
<1>1. IsInput(input)
  BY InputsAssumption
<1>2. LinksInside(gr)
  BY <1>1 DEF IsInput, IsGraph, gr, LinksInside
<1>3. siteSize \in Nat /\ siteSize # 0
  BY SiteAssumption
<1> DEFINE root == j[t] + 1
<1>4. root \in NodesOf(gr)
  BY DEF Nodes
<1> HIDE DEF root
<1>5. /\ WidensAlong(BreadthFirst(siteSize, gr, root), siteSize, gr, root)
      /\ \A n \in 0..siteSize : BreadthFirst(siteSize, gr, root)[n] \in Seq(NodesOf(gr))
  BY <1>2, <1>3, <1>4, BreadthFirstFacts
<1>6. QED BY <1>2, <1>3, <1>5 DEF WidensAlong, QueueAfter, root, Nodes

LEMMA BuildFrame ==
    ASSUME NEW t \in Threads, input' = input, j'[t] = j[t]
    PROVE  /\ gr' = gr /\ Nodes' = Nodes
           /\ \A n : QueueAfter(t, n)' = QueueAfter(t, n)
BY DEF gr, Nodes, QueueAfter

LEMMA BeginBuild ==
    ASSUME Inv, NEW t \in Threads, BeginWalk(t)
    PROVE  BuildOf(t)'
<1>1. TypeOK /\ j[t] + 1 \in Nodes
  BY NextIsNode DEF Inv, BeginWalk
<1>2. track'[t] = <<j[t] + 1>> /\ p'[t] = 1 /\ c'[t] = 0 /\ j' = j /\ input' = input
  BY <1>1 DEF BeginWalk, TypeOK, searchVars, optVars
<1>3. /\ QueueAfter(t, 0) = <<j[t] + 1>> /\ siteSize \in Nat /\ siteSize # 0
  BY <1>1, BuildContext DEF TypeOK
<1>4. QueueAfter(t, p[t] - 1)' = <<j[t] + 1>>
  BY <1>2, <1>3 DEF QueueAfter, gr
<1>5. Len(track'[t]) = 1 /\ 1 <= siteSize
  BY <1>2, <1>3
<1>6. QED BY <1>2, <1>4, <1>5 DEF BuildOf

\* Where the walk is.
LEMMA WalkContext ==
    ASSUME Inv, WalkSoFar, NEW t \in Threads, tpc[t] = "walk"
    PROVE  /\ TypeOK /\ input \in Inputs /\ WalkOf(t) /\ BuildOf(t) /\ j[t] + 1 \in Nodes
           /\ track[t] \in Seq(Nodes) /\ Len(track[t]) \in 1..siteSize
           /\ p[t] \in 1..(Len(track[t]) + 1) /\ c[t] \in Nat
           /\ p[t] - 1 \in 0..siteSize /\ QueueAfter(t, p[t] - 1) \in Seq(Nodes)
<1>1. /\ TypeOK /\ input \in Inputs /\ WalkOf(t) /\ BuildOf(t) /\ j[t] + 1 \in Nodes
      /\ track[t] # <<>>
  BY WalkParts DEF Inv, TypeOK, WalkSoFar, RootInv, AtRoot
<1>2. track[t] \in Seq(Nodes) /\ c[t] \in Nat
  BY <1>1 DEF TypeOK
<1>3. Len(track[t]) <= siteSize /\ siteSize \in Nat
  BY <1>1, BuildContext DEF BuildOf
<1>4. Len(track[t]) \in 1..siteSize
  BY <1>1, <1>2, <1>3
<1>5. p[t] \in 1..(Len(track[t]) + 1)
  BY <1>1 DEF WalkOf
<1>6. p[t] - 1 \in 0..siteSize
  BY <1>3, <1>4, <1>5
<1>7. QED BY <1>1, <1>2, <1>4, <1>5, <1>6, BuildContext

LEMMA OpenBuild ==
    ASSUME Inv, WalkSoFar, NEW t \in Threads, OpenNode(t)
    PROVE  BuildOf(t)'
<1>0. tpc[t] = "walk" /\ c[t] = 0 /\ p[t] <= Len(track[t]) /\ ~Full(t)
  BY DEF OpenNode, Walking
<1>1. /\ TypeOK /\ input \in Inputs /\ WalkOf(t) /\ BuildOf(t) /\ j[t] + 1 \in Nodes
      /\ track[t] \in Seq(Nodes) /\ Len(track[t]) \in 1..siteSize
      /\ p[t] \in 1..(Len(track[t]) + 1)
      /\ QueueAfter(t, p[t] - 1) \in Seq(Nodes)
  BY <1>0, WalkContext
<1>2. explored[nI(t)] = 1
  <2>1. p[t] \in DOMAIN track[t] /\ Opened(t) = p[t] - 1 /\ ~(p[t] <= p[t] - 1)
    BY <1>0, <1>1 DEF Opened
  <2>2. QED BY <1>1, <2>1 DEF WalkOf, nI
<1>3. c'[t] = 1 /\ p' = p /\ track' = track /\ j' = j /\ input' = input
  BY <1>1, <1>2 DEF OpenNode, TypeOK, searchVars, optVars
<1>4. QueueAfter(t, p[t] - 1)' = QueueAfter(t, p[t] - 1) /\ nI(t)' = nI(t) /\ gr' = gr
  BY <1>3 DEF QueueAfter, nI, gr
<1>5. track[t] = QueueAfter(t, p[t] - 1) /\ Len(track[t]) <= siteSize
  BY <1>0, <1>1 DEF BuildOf
<1>6. nI(t) \in Nodes /\ gr.children[nI(t)] \in Seq(Nodes)
  BY <1>0, <1>1, WalkingType DEF OpenNode
<1>7. Taken(siteSize, track[t], SubSeq(gr.children[nI(t)], 1, 0)) = track[t]
  <2>1. SubSeq(gr.children[nI(t)], 1, 0) = <<>>
    BY <1>6
  <2>2. Taken(siteSize, track[t], <<>>) = track[t]
    BY <1>1, TakenFacts
  <2>3. QED BY <2>1, <2>2
<1>8. 0 <= Len(gr.children[nI(t)])
  BY <1>6
<1>9. nI(t) = track[t][p[t]]
  BY DEF nI
<1>10. c'[t] # 0 /\ c'[t] - 1 = 0
  BY <1>3
<1>11. QED BY <1>0, <1>3, <1>4, <1>5, <1>7, <1>8, <1>9, <1>10 DEF BuildOf

LEMMA VisitBuild ==
    ASSUME Inv, WalkSoFar, NEW t \in Threads, VisitChild(t)
    PROVE  BuildOf(t)'
<1> DEFINE kids == gr.children[nI(t)]
           Q == QueueAfter(t, p[t] - 1)
           n == c[t] - 1
           child == kids[c[t]]
<1>0. tpc[t] = "walk" /\ p[t] <= Len(track[t]) /\ ~Full(t) /\ c[t] \in DOMAIN kids
  BY DEF VisitChild, Walking
<1>1. /\ TypeOK /\ input \in Inputs /\ WalkOf(t) /\ BuildOf(t) /\ j[t] + 1 \in Nodes
      /\ track[t] \in Seq(Nodes) /\ Len(track[t]) \in 1..siteSize
      /\ p[t] \in 1..(Len(track[t]) + 1) /\ Q \in Seq(Nodes)
  BY <1>0, WalkContext
<1>2. kids \in Seq(Nodes)
  BY <1>0, <1>1, WalkingType DEF VisitChild
<1>3. /\ n \in 0..Len(kids) /\ n < Len(kids) /\ c[t] = n + 1 /\ c[t] # 0 /\ n \in Nat
      /\ child \in Nodes
  BY <1>0, <1>2
<1>4. /\ p[t] <= Len(Q) /\ Q[p[t]] = nI(t)
      /\ track[t] = Taken(siteSize, Q, SubSeq(kids, 1, n))
  BY <1>1, <1>3 DEF BuildOf
<1>5. /\ p' = p /\ c'[t] = c[t] + 1 /\ j' = j /\ input' = input
      /\ track'[t] = IF explored[child] = 0 THEN Append(track[t], child) ELSE track[t]
  BY <1>1 DEF VisitChild, TypeOK, searchVars, optVars
<1>6. explored[child] = 0 <=> child \notin Range(track[t])
  BY <1>1, <1>3 DEF WalkOf
<1>7. Len(track[t]) < siteSize /\ siteSize \in Nat
  <2>1. siteSize \in Nat
    BY SiteAssumption
  <2>2. QED BY <1>0, <1>1, <2>1 DEF Full
<1>8. track'[t] = Taking(siteSize, track[t], child)
  <2>1. ~(Len(track[t]) >= siteSize)
    BY <1>1, <1>7
  <2>2. QED BY <1>5, <1>6, <2>1 DEF Taking
<1>9. Len(track'[t]) <= siteSize
  BY <1>1, <1>3, <1>5, <1>7
<1>10. nI(t)' = nI(t)
  <2>1. p[t] \in 1..Len(track[t])
    BY <1>0, <1>1
  <2>2. track'[t][p[t]] = track[t][p[t]]
    BY <1>1, <1>3, <1>5, <2>1
  <2>3. QED BY <1>5, <2>2 DEF nI
<1>11. QueueAfter(t, p[t] - 1)' = Q /\ gr' = gr
  BY <1>5 DEF QueueAfter, gr
<1>12. c'[t] # 0 /\ c'[t] - 1 = n + 1 /\ n + 1 <= Len(kids)
  <2>1. Len(kids) \in Nat
    BY <1>2
  <2> HIDE DEF n, kids
  <2>2. QED BY <1>3, <1>5, <2>1
<1>13. gr'.children[nI(t)'] = kids
  BY <1>10, <1>11
<1> HIDE DEF kids, Q, n
<1>14. Taken(siteSize, Q, SubSeq(kids, 1, n + 1)) = Taking(siteSize, track[t], child)
  <2>1. Taken(siteSize, Q, SubSeq(kids, 1, n + 1))
          = Taking(siteSize, Taken(siteSize, Q, SubSeq(kids, 1, n)), kids[n + 1])
    BY <1>1, <1>2, <1>3, TakenNext
  <2>2. child = kids[n + 1]
    BY <1>3
  <2>3. QED BY <1>4, <2>1, <2>2
<1> HIDE DEF child
<1>15. track'[t] = Taken(siteSize, Q, SubSeq(kids, 1, n + 1))
  BY <1>8, <1>14
<1>16. /\ p'[t] <= Len(QueueAfter(t, p[t] - 1)')
       /\ QueueAfter(t, p[t] - 1)'[p'[t]] = nI(t)'
       /\ c'[t] - 1 <= Len(gr'.children[nI(t)'])
       /\ track'[t] = Taken(siteSize, QueueAfter(t, p[t] - 1)',
                            SubSeq(gr'.children[nI(t)'], 1, c'[t] - 1))
  BY <1>4, <1>5, <1>10, <1>11, <1>12, <1>13, <1>15
<1>17. QED BY <1>9, <1>12, <1>16 DEF BuildOf

\* A node whose children were all looked at.
LEMMA NodeDone ==
    ASSUME Inv, WalkSoFar, NEW t \in Threads, tpc[t] = "walk", c[t] # 0,
           p[t] <= Len(track[t]), Full(t) \/ c[t] - 1 = Len(gr.children[nI(t)])
    PROVE  p[t] \in 1..siteSize /\ QueueAfter(t, p[t]) = track[t]
<1> DEFINE kids == gr.children[nI(t)]
           Q == QueueAfter(t, p[t] - 1)
           n == c[t] - 1
<1>1. /\ TypeOK /\ input \in Inputs /\ WalkOf(t) /\ BuildOf(t) /\ j[t] + 1 \in Nodes
      /\ track[t] \in Seq(Nodes) /\ Len(track[t]) \in 1..siteSize /\ c[t] \in Nat
      /\ p[t] \in 1..(Len(track[t]) + 1) /\ Q \in Seq(Nodes) /\ siteSize \in Nat
  BY WalkContext, SiteAssumption
<1>2. p[t] \in 1..siteSize /\ p[t] \in DOMAIN track[t]
  BY <1>1
<1>3. kids \in Seq(Nodes)
  <2>1. nI(t) \in Nodes
    BY <1>1, <1>2 DEF nI
  <2>2. QED BY <1>1, <2>1, InputFacts
<1>4. /\ p[t] <= Len(Q) /\ Q[p[t]] = nI(t) /\ n <= Len(kids)
      /\ track[t] = Taken(siteSize, Q, SubSeq(kids, 1, n))
  BY <1>1 DEF BuildOf
<1>5. n \in 0..Len(kids) /\ (Full(t) => Len(track[t]) >= siteSize)
  BY <1>1, <1>3, <1>4 DEF Full
<1>6. QueueAfter(t, p[t]) = Widened(siteSize, gr, p[t], Q)
  BY <1>1, <1>2, BuildContext
<1>7. Widened(siteSize, gr, p[t], Q) = Taken(siteSize, Q, kids)
  <2>1. ~(p[t] > Len(Q))
    BY <1>1, <1>4
  <2> HIDE DEF Q
  <2>2. QED BY <1>4, <2>1 DEF Widened
<1>8. Taken(siteSize, Q, kids) = track[t]
  <2>1. CASE n = Len(kids)
    <3> HIDE DEF kids, Q, n
    <3>1. SubSeq(kids, 1, n) = kids
      BY <1>3, <2>1, SubSeqFull
    <3>2. QED BY <1>4, <3>1
  <2>2. CASE Full(t)
    <3>1. Len(Taken(siteSize, Q, SubSeq(kids, 1, n))) >= siteSize
      BY <1>4, <1>5, <2>2
    <3>2. Q \in Seq(Nodes) /\ siteSize \in Nat
      BY <1>1
    <3>3. n \in 0..Len(kids)
      BY <1>5
    <3> HIDE DEF kids, Q, n
    <3>4. Taken(siteSize, Q, kids) = Taken(siteSize, Q, SubSeq(kids, 1, n))
      BY <1>3, <3>1, <3>2, <3>3, FullTakesNoMore
    <3>5. QED BY <1>4, <3>4
  <2>3. QED BY <2>1, <2>2
<1>9. QED BY <1>2, <1>6, <1>7, <1>8

LEMMA PassBuild ==
    ASSUME Inv, WalkSoFar, NEW t \in Threads, PassNode(t)
    PROVE  BuildOf(t)'
<1>0. tpc[t] = "walk" /\ p[t] <= Len(track[t]) /\ c[t] > Len(gr.children[nI(t)])
  BY DEF PassNode, Walking
<1>1. /\ TypeOK /\ input \in Inputs /\ WalkOf(t) /\ BuildOf(t)
      /\ track[t] \in Seq(Nodes) /\ Len(track[t]) \in 1..siteSize /\ c[t] \in Nat
      /\ p[t] \in 1..(Len(track[t]) + 1)
  BY <1>0, WalkContext
<1>2. gr.children[nI(t)] \in Seq(Nodes)
  BY <1>0, <1>1, WalkingType DEF PassNode
<1>3. c[t] # 0 /\ c[t] - 1 = Len(gr.children[nI(t)])
  <2>1. c[t] # 0
    BY <1>0, <1>1, <1>2
  <2> DEFINE n == c[t]
             m == Len(gr.children[nI(t)])
  <2>2. n - 1 <= m
    BY <1>1, <2>1 DEF BuildOf
  <2>3. n \in Nat /\ m \in Nat /\ n > m
    BY <1>0, <1>1, <1>2
  <2> HIDE DEF n, m
  <2>4. n - 1 = m
    BY <2>2, <2>3
  <2>5. QED BY <2>1, <2>4 DEF n, m
<1>4. p[t] \in 1..siteSize /\ QueueAfter(t, p[t]) = track[t]
  BY <1>0, <1>3, NodeDone
<1>5. p'[t] = p[t] + 1 /\ c'[t] = 0 /\ track' = track /\ j' = j /\ input' = input
  BY <1>1 DEF PassNode, CloseNode, TypeOK, searchVars, optVars
<1>6. p'[t] - 1 = p[t]
  BY <1>1, <1>5
<1>7. QueueAfter(t, p[t] - 1)' = QueueAfter(t, p[t])
  BY <1>5, <1>6 DEF QueueAfter, gr
<1>8. Len(track'[t]) <= siteSize
  BY <1>1, <1>5 DEF BuildOf
<1>9. QED BY <1>4, <1>5, <1>7, <1>8 DEF BuildOf

\* A walk that ends has found the site.
LEMMA WalkFinds ==
    ASSUME Inv, WalkSoFar, NEW t \in Threads, tpc[t] = "walk", ~Walking(t)
    PROVE  track[t] = SiteQueue(gr, j[t] + 1)
<1>1. /\ TypeOK /\ input \in Inputs /\ WalkOf(t) /\ BuildOf(t) /\ j[t] + 1 \in Nodes
      /\ track[t] \in Seq(Nodes) /\ Len(track[t]) \in 1..siteSize /\ c[t] \in Nat
      /\ p[t] \in 1..(Len(track[t]) + 1) /\ p[t] - 1 \in 0..siteSize
  BY WalkContext
<1>2. Full(t) \/ p[t] = Len(track[t]) + 1
  BY <1>1 DEF Walking
<1>3. PICK n \in 0..siteSize : /\ QueueAfter(t, n) = track[t]
                               /\ Len(track[t]) >= siteSize \/ n >= Len(track[t])
  <2>1. CASE c[t] = 0
    <3>1. QueueAfter(t, p[t] - 1) = track[t]
      BY <1>1, <2>1 DEF BuildOf
    <3>2. Len(track[t]) >= siteSize \/ p[t] - 1 >= Len(track[t])
      BY <1>1, <1>2 DEF Full
    <3>3. QED BY <1>1, <3>1, <3>2
  <2>2. CASE c[t] # 0
    <3>1. p[t] <= Len(track[t])
      BY <1>1, <2>2 DEF WalkOf
    <3>2. Full(t) /\ Len(track[t]) >= siteSize
      BY <1>1, <1>2, <3>1 DEF Full
    <3>3. p[t] \in 1..siteSize /\ QueueAfter(t, p[t]) = track[t]
      BY <2>2, <3>1, <3>2, NodeDone
    <3>4. p[t] \in 0..siteSize
      BY <3>3
    <3>5. QED BY <3>2, <3>3, <3>4
  <2>3. QED BY <2>1, <2>2
<1> DEFINE root == j[t] + 1
<1>4. LinksInside(gr) /\ siteSize \in Nat /\ root \in NodesOf(gr)
  BY <1>1, BuildContext DEF Nodes
<1>5. /\ BreadthFirst(siteSize, gr, root)[n] = track[t]
      /\ SiteQueue(gr, root) = BreadthFirst(siteSize, gr, root)[siteSize]
  BY <1>3, SiteQueueIs DEF QueueAfter
<1> HIDE DEF root
<1>6. LET q == BreadthFirst(siteSize, gr, root)[n] IN Len(q) >= siteSize \/ n >= Len(q)
  BY <1>3, <1>5
<1>7. BreadthFirst(siteSize, gr, root)[siteSize] = BreadthFirst(siteSize, gr, root)[n]
  BY <1>4, <1>6, BreadthFirstEnds
<1>8. QED BY <1>5, <1>7 DEF root
LEMMA BuildThread ==
    ASSUME Inv, WalkSoFar, NEW t \in Threads, Thread(t)
    PROVE  WalkSoFar'
<1>f. /\ \A u \in Threads : u # t => Untouched(u)
      /\ input' = input
  BY ThreadFrame DEF Inv, optVars
<1>1. ASSUME NEW u \in Threads, u # t, tpc'[u] = "walk" PROVE BuildOf(u)'
  <2>1. /\ tpc'[u] = tpc[u] /\ j'[u] = j[u] /\ track'[u] = track[u]
        /\ p'[u] = p[u] /\ c'[u] = c[u]
    BY <1>f, <1>1 DEF Untouched
  <2>2. BuildOf(u)
    BY <1>1, <2>1 DEF WalkSoFar
  <2>3. /\ gr' = gr /\ nI(u)' = nI(u)
        /\ QueueAfter(u, p[u] - 1)' = QueueAfter(u, p[u] - 1)
    BY <1>f, <2>1 DEF gr, nI, QueueAfter
  <2>4. QED BY <2>1, <2>2, <2>3 DEF BuildOf
<1>2. tpc'[t] = "walk" => BuildOf(t)'
  <2>1. CASE BeginWalk(t)
    BY <2>1, BeginBuild
  <2>2. CASE OpenNode(t)
    BY <2>2, OpenBuild
  <2>3. CASE VisitChild(t)
    BY <2>3, VisitBuild
  <2>4. CASE PassNode(t)
    BY <2>4, PassBuild
  <2>5. CASE EndWalk(t)
    BY <2>5 DEF EndWalk, Goto, Inv, TypeOK
  <2>6. CASE tpc[t] # "walk" /\ ~BeginWalk(t)
    BY <2>6, OffWalkFrame DEF Inv
  <2>7. CASE tpc[t] = "walk"
    <3>1. ~ReadDebut(t) /\ ~ReadFin(t) /\ ~PostStructRead(t)
          /\ ~NoMatch(t) /\ ~Match(t)
      BY <2>7 DEF ReadDebut, ReadFin, PostStructRead, NoMatch, Match
    <3>2. ~WaitExport(t) /\ ~Write(t) /\ ~PostExport(t) /\ ~Exit(t)
      BY <2>7 DEF WaitExport, Write, Files, PostExport, Exit
    <3>3. QED BY <2>1, <2>2, <2>3, <2>4, <2>5, <3>1, <3>2 DEF Thread
  <2>8. QED BY <2>1, <2>6, <2>7
<1>3. QED BY <1>1, <1>2 DEF WalkSoFar

-----------------------------------------------------------------------------
(***************************************************************************)
(* Where a step takes a thread.                                            *)
(***************************************************************************)
Outside == {"unborn", "debut", "fin", "read"}

Stays(t) == j'[t] = j[t] /\ track'[t] = track[t] /\ i'[t] = i[t]
            /\ nSgraphPLocal'[t] = nSgraphPLocal[t] /\ isoLocal'[t] = isoLocal[t]

\* A step that leaves the root and the counters alone.
Quiet(t) ==
    /\ Stays(t)
    /\ \/ tpc[t] \in Outside /\ tpc'[t] \in Outside
       \/ tpc[t] = "export" /\ tpc'[t] = "eT"
       \/ tpc[t] = "eT" /\ tpc'[t] = "eP"
       \/ tpc[t] = "eP" /\ tpc'[t] = "enT"
       \/ tpc[t] = "enT" /\ tpc'[t] = "enP"
       \/ tpc[t] = "enP" /\ tpc'[t] = "post"

Starts(t) ==
    /\ tpc[t] = "read" /\ tpc'[t] = "next" /\ j'[t] = borneThread(t)
    /\ nSgraphPLocal'[t] = nSgraphPLocal[t] /\ isoLocal'[t] = isoLocal[t]

\* It begins the walk of a root, or there is none left.
Enters(t) ==
    /\ j'[t] = j[t]
    /\ nSgraphPLocal'[t] = nSgraphPLocal[t] /\ isoLocal'[t] = isoLocal[t]
    /\ tpc[t] = "next"
    /\ \/ tpc'[t] = "walk" /\ j[t] < borneThread(t + 1)
       \/ tpc'[t] = "exited" /\ j[t] >= borneThread(t + 1)

Walks(t) ==
    /\ tpc[t] = "walk" /\ tpc'[t] = "walk" /\ j'[t] = j[t]
    /\ nSgraphPLocal'[t] = nSgraphPLocal[t] /\ isoLocal'[t] = isoLocal[t]

Finds(t) ==
    /\ tpc[t] = "walk" /\ tpc'[t] = "tests" /\ j'[t] = j[t] /\ track'[t] = track[t]
    /\ track[t] = SiteQueue(gr, j[t] + 1) /\ Len(track[t]) = siteSize
    /\ nSgraphPLocal'[t] = nSgraphPLocal[t] + 1 /\ isoLocal'[t] = isoLocal[t]

GivesUp(t) ==
    /\ tpc[t] = "walk" /\ tpc'[t] = "next" /\ j'[t] = j[t] + 1
    /\ j[t] + 1 \notin RootsWithSite
    /\ nSgraphPLocal'[t] = nSgraphPLocal[t] /\ isoLocal'[t] = isoLocal[t]

Misses(t) ==
    /\ tpc[t] = "tests" /\ tpc'[t] = "next" /\ j'[t] = j[t] + 1
    /\ Matches(j[t] + 1) = {}
    /\ nSgraphPLocal'[t] = nSgraphPLocal[t] /\ isoLocal'[t] = isoLocal[t]

Hits(t) ==
    /\ tpc[t] = "tests" /\ i'[t] = Min(Matches(j[t] + 1)) /\ Matches(j[t] + 1) # {}
    /\ isoLocal'[t] = isoLocal[t] + FirstAnswer(j[t] + 1)
    /\ nSgraphPLocal'[t] = nSgraphPLocal[t] /\ track'[t] = track[t]
    /\ \/ optionExport /\ tpc'[t] = "export" /\ j'[t] = j[t]
       \/ ~optionExport /\ tpc'[t] = "next" /\ j'[t] = j[t] + 1

Leaves(t) ==
    /\ tpc[t] = "post" /\ tpc'[t] = "next" /\ j'[t] = j[t] + 1
    /\ nSgraphPLocal'[t] = nSgraphPLocal[t] /\ isoLocal'[t] = isoLocal[t]

Moves(t) == \/ Quiet(t) \/ Starts(t) \/ Enters(t) \/ Walks(t) \/ Finds(t)
            \/ GivesUp(t) \/ Misses(t) \/ Hits(t) \/ Leaves(t)

\* The least match is the one Min gives.
LEMMA LeastMatch ==
    ASSUME input \in Inputs, NEW r \in Nodes, NEW n \in Matches(r),
           \A m \in Matches(r) : n <= m
    PROVE  n = Min(Matches(r)) /\ FirstAnswer(r) = input.isoUllman[r][n]
<1>1. Matches(r) \subseteq Nat
  BY InputFacts DEF Matches
<1> DEFINE S == Matches(r)
           z == Min(S)
<1>2. z \in S /\ \A y \in S : z <= y
  <2>1. \E x \in S : \A y \in S : x <= y
    OBVIOUS
  <2> HIDE DEF S
  <2>2. QED BY <2>1 DEF Min
<1>3. z <= n /\ n <= z
  BY <1>2
<1>4. n = z
  <2> HIDE DEF z
  <2>1. z \in Nat /\ n \in Nat
    BY <1>1, <1>2
  <2>2. QED BY <1>3, <2>1
<1>5. QED BY <1>4 DEF FirstAnswer

LEMMA ThreadMoves ==
    ASSUME Inv, WalkSoFar, NEW t \in Threads, Thread(t)
    PROVE  Moves(t)
<1> USE DEF Goto, optVars, mainVars, argVars, searchVars, walkVars
<1>t. /\ TypeOK /\ input \in Inputs /\ tpc \in [Threads -> Locations]
      /\ j \in [Threads -> Nat] /\ i \in [Threads -> Nat]
      /\ nSgraphPLocal \in [Threads -> Nat] /\ isoLocal \in [Threads -> Nat]
  BY DEF Inv, TypeOK
<1>a. HasArguments(t) => from[t] = borneThread(t) /\ to[t] = borneThread(t + 1)
  BY DEF Inv, ArgsDelivered
<1>1. CASE ReadDebut(t) \/ ReadFin(t)
  <2>1. /\ tpc[t] \in Outside /\ tpc'[t] \in Outside
        /\ UNCHANGED <<j, i, nSgraphPLocal, isoLocal, track>>
    BY <1>1, <1>t DEF ReadDebut, ReadFin, Outside
  <2>2. Quiet(t)
    BY <2>1 DEF Quiet, Stays
  <2>3. QED BY <2>2 DEF Moves
<1>2. CASE PostStructRead(t)
  <2>1. HasArguments(t)
    BY <1>2 DEF HasArguments, PostStructRead
  <2>2. /\ tpc[t] = "read" /\ tpc'[t] = "next" /\ j'[t] = from[t]
        /\ nSgraphPLocal' = nSgraphPLocal /\ isoLocal' = isoLocal
    BY <1>2, <1>t DEF PostStructRead
  <2>3. QED BY <1>a, <2>1, <2>2 DEF Moves, Starts
<1>3. CASE BeginWalk(t)
  <2>1. HasArguments(t)
    BY <1>3 DEF HasArguments, BeginWalk
  <2>2. /\ tpc[t] = "next" /\ tpc'[t] = "walk" /\ j[t] < to[t]
        /\ UNCHANGED <<j, nSgraphPLocal, isoLocal>>
    BY <1>3, <1>t DEF BeginWalk
  <2>3. QED BY <1>a, <2>1, <2>2 DEF Moves, Enters
<1>4. CASE OpenNode(t) \/ VisitChild(t) \/ PassNode(t)
  <2>1. tpc[t] = "walk" /\ tpc' = tpc /\ UNCHANGED <<j, nSgraphPLocal, isoLocal>>
    BY <1>4 DEF OpenNode, VisitChild, PassNode, Walking
  <2>2. QED BY <2>1 DEF Moves, Walks
<1>5. CASE EndWalk(t)
  <2>1. tpc[t] = "walk" /\ ~Walking(t) /\ track' = track /\ isoLocal' = isoLocal
    BY <1>5 DEF EndWalk
  <2>2. track[t] = SiteQueue(gr, j[t] + 1)
    BY <2>1, WalkFinds
  <2>3. CASE Full(t)
    <3>1. /\ tpc'[t] = "tests" /\ j' = j
          /\ nSgraphPLocal'[t] = nSgraphPLocal[t] + 1
      BY <1>5, <1>t, <2>3 DEF EndWalk
    <3>2. QED BY <2>1, <2>2, <2>3, <3>1 DEF Moves, Finds, Full
  <2>4. CASE ~Full(t)
    <3>1. tpc'[t] = "next" /\ j'[t] = j[t] + 1 /\ nSgraphPLocal' = nSgraphPLocal
      BY <1>5, <1>t, <2>4 DEF EndWalk
    <3>2. j[t] + 1 \notin RootsWithSite
      BY <2>2, <2>4 DEF RootsWithSite, HasSite, Full
    <3>3. QED BY <2>1, <3>1, <3>2 DEF Moves, GivesUp
  <2>5. QED BY <2>3, <2>4
<1>6. CASE NoMatch(t)
  <2>1. /\ tpc[t] = "tests" /\ tpc'[t] = "next" /\ j'[t] = j[t] + 1
        /\ Matches(j[t] + 1) = {}
        /\ nSgraphPLocal' = nSgraphPLocal /\ isoLocal' = isoLocal
    BY <1>6, <1>t DEF NoMatch, NextRoot
  <2>2. QED BY <2>1 DEF Moves, Misses
<1>7. CASE Match(t)
  <2>1. tpc[t] = "tests" /\ nSgraphPLocal' = nSgraphPLocal /\ track' = track
    BY <1>7 DEF Match
  <2>2. j[t] + 1 \in Nodes
    BY <2>1 DEF Inv, RootInv, AtRoot, AfterWalk
  <2>3. PICK n \in Matches(j[t] + 1) :
            /\ \A m \in Matches(j[t] + 1) : n <= m
            /\ i' = [i EXCEPT ![t] = n]
            /\ isoLocal' = [isoLocal EXCEPT ![t] = @ + input.isoUllman[j[t] + 1][n]]
    BY <1>7 DEF Match
  <2>4. n = Min(Matches(j[t] + 1)) /\ FirstAnswer(j[t] + 1) = input.isoUllman[j[t] + 1][n]
    <3> DEFINE r == j[t] + 1
    <3>1. r \in Nodes /\ n \in Matches(r) /\ \A m \in Matches(r) : n <= m
      BY <2>2, <2>3
    <3> HIDE DEF r
    <3>2. n = Min(Matches(r)) /\ FirstAnswer(r) = input.isoUllman[r][n]
      BY <1>t, <3>1, LeastMatch
    <3>3. QED BY <3>2 DEF r
  <2>5. i'[t] = n /\ isoLocal'[t] = isoLocal[t] + input.isoUllman[j[t] + 1][n]
    BY <1>t, <2>3
  <2>6. \/ optionExport /\ tpc'[t] = "export" /\ j'[t] = j[t]
        \/ ~optionExport /\ tpc'[t] = "next" /\ j'[t] = j[t] + 1
    BY <1>7, <1>t DEF Match, NextRoot
  <2>7. Hits(t)
    BY <2>1, <2>3, <2>4, <2>5, <2>6 DEF Hits
  <2>8. QED BY <2>7 DEF Moves
<1>8. CASE WaitExport(t)
  <2>1. /\ tpc[t] = "export" /\ tpc'[t] = "eT"
        /\ UNCHANGED <<j, i, nSgraphPLocal, isoLocal, track>>
    BY <1>8, <1>t DEF WaitExport
  <2>2. Quiet(t)
    BY <2>1 DEF Quiet, Stays
  <2>3. QED BY <2>2 DEF Moves
<1>9. CASE Write(t)
  <2>1. UNCHANGED <<j, i, nSgraphPLocal, isoLocal, track>>
    BY <1>9 DEF Write
  <2>2. \/ tpc[t] = "eT" /\ tpc'[t] = "eP"
        \/ tpc[t] = "eP" /\ tpc'[t] = "enT"
        \/ tpc[t] = "enT" /\ tpc'[t] = "enP"
        \/ tpc[t] = "enP" /\ tpc'[t] = "post"
    BY <1>9, <1>t, WriteCases
  <2>3. Quiet(t)
    BY <2>1, <2>2 DEF Quiet, Stays
  <2>4. QED BY <2>3 DEF Moves
<1>10. CASE PostExport(t)
  <2>1. /\ tpc[t] = "post" /\ tpc'[t] = "next" /\ j'[t] = j[t] + 1
        /\ nSgraphPLocal' = nSgraphPLocal /\ isoLocal' = isoLocal
    BY <1>10, <1>t DEF PostExport, NextRoot
  <2>2. QED BY <2>1 DEF Moves, Leaves
<1>11. CASE Exit(t)
  <2>1. HasArguments(t)
    BY <1>11 DEF HasArguments, Exit
  <2>2. /\ tpc[t] = "next" /\ tpc'[t] = "exited" /\ j[t] >= to[t]
        /\ UNCHANGED <<j, nSgraphPLocal, isoLocal>>
    BY <1>11, <1>t DEF Exit
  <2>3. QED BY <1>a, <2>1, <2>2 DEF Moves, Enters
<1>12. QED BY <1>1, <1>2, <1>3, <1>4, <1>5, <1>6, <1>7, <1>8, <1>9, <1>10, <1>11
           DEF Thread
-----------------------------------------------------------------------------
(***************************************************************************)
(* Parts of the roots.                                                     *)
(***************************************************************************)
LEMMA RootSets ==
    ASSUME input \in Inputs
    PROVE  /\ RootsWithSite \subseteq Nat /\ IsFiniteSet(RootsWithSite)
           /\ Matching \subseteq Nat /\ IsFiniteSet(Matching)
           /\ RootsWithSite \subseteq Nodes /\ Matching \subseteq RootsWithSite
           /\ \A r \in Nodes : 0 < r /\ r <= Cardinality(Nodes) /\ r \in Nat
           /\ \A r \in Matching : /\ Answers[r] = FirstAnswer(r) /\ Answers[r] \in Nat
                                  /\ Min(Matches(r)) \in Matches(r)
<1>1. /\ Nodes = 1..Len(gr.children) /\ Len(gr.children) \in Nat
      /\ Cardinality(Nodes) = Len(gr.children)
  BY InputFacts
<1>2. IsFiniteSet(Nodes) /\ Nodes \subseteq Nat
  <2> DEFINE n == Len(gr.children)
  <2>1. Nodes = 1..n /\ n \in Nat
    BY <1>1
  <2> HIDE DEF n
  <2>2. QED BY <2>1, FS_Interval
<1>3. RootsWithSite \subseteq Nodes /\ Matching \subseteq RootsWithSite
  BY DEF RootsWithSite, Matching
<1>4. IsFiniteSet(RootsWithSite) /\ IsFiniteSet(Matching)
  BY <1>2, <1>3, FS_Subset
<1>5. ASSUME NEW r \in Matching
      PROVE  Answers[r] = FirstAnswer(r) /\ Answers[r] \in Nat
             /\ Min(Matches(r)) \in Matches(r)
  <2>1. r \in Nodes /\ Matches(r) # {} /\ Matches(r) \subseteq input.tests
    BY <1>3 DEF Matching, Matches
  <2>2. Matches(r) \subseteq Nat
    BY <2>1, InputFacts
  <2> DEFINE S == Matches(r)
  <2>3. S \subseteq Nat /\ S # {}
    BY <2>1, <2>2
  <2> HIDE DEF S
  <2>4. Min(S) \in S
    BY <2>3, LeastIsIn
  <2>5. input.isoUllman[r][Min(Matches(r))] \in Nat
    BY <2>1, <2>4, InputFacts DEF S
  <2>6. Answers[r] = FirstAnswer(r)
    BY <2>1 DEF Answers
  <2>7. QED BY <2>4, <2>5, <2>6 DEF FirstAnswer, S
<1>6. QED BY <1>1, <1>2, <1>3, <1>4, <1>5

LEMMA PatternFrame ==
    ASSUME input' = input
    PROVE  /\ gr' = gr /\ Nodes' = Nodes /\ RootsWithSite' = RootsWithSite
           /\ Matching' = Matching /\ Answers' = Answers
           /\ \A n : borneThread(n)' = borneThread(n)
           /\ \A r : Matches(r)' = Matches(r) /\ FirstAnswer(r)' = FirstAnswer(r)
           /\ \A r : LineOf(r)' = LineOf(r)
<1>1. gr' = gr /\ Nodes' = Nodes /\ \A n : borneThread(n)' = borneThread(n)
  BY BorneFrame DEF gr, Nodes
<1>2. \A r : Matches(r)' = Matches(r)
  BY DEF Matches
<1>3. RootsWithSite' = RootsWithSite
  BY <1>1 DEF RootsWithSite
<1>4. Matching' = Matching
  BY <1>2, <1>3 DEF Matching
<1>5. \A r : FirstAnswer(r)' = FirstAnswer(r)
  BY <1>2 DEF FirstAnswer
<1>6. Answers' = Answers
  BY <1>1, <1>5 DEF Answers
<1>7. \A r : LineOf(r)' = LineOf(r)
  BY <1>1, <1>2 DEF LineOf
<1>8. QED BY <1>1, <1>2, <1>3, <1>4, <1>5, <1>6, <1>7

LEMMA BetweenFacts ==
    ASSUME NEW S, IsFiniteSet(S), S \subseteq Nat, NEW a \in Nat, NEW b \in Nat, a <= b
    PROVE  /\ Between(S, a, a) = {} /\ IsFiniteSet(Between(S, a, b))
           /\ IsFiniteSet(Between(S, 0, a))
           /\ Between(S, 0, b) = Between(S, 0, a) \cup Between(S, a, b)
           /\ Between(S, 0, a) \cap Between(S, a, b) = {}
<1>1. IsFiniteSet(Between(S, a, b)) /\ IsFiniteSet(Between(S, 0, a))
  <2>1. Between(S, a, b) \subseteq S /\ Between(S, 0, a) \subseteq S
    BY DEF Between
  <2>2. QED BY <2>1, FS_Subset
<1>2. \A r \in S : ~(a < r /\ r <= a)
  OBVIOUS
<1>3. \A r \in S : r \in Nat
  OBVIOUS
<1>5. Between(S, 0, b) = Between(S, 0, a) \cup Between(S, a, b)
  <2>1. \A r \in S : 0 < r /\ r <= b <=> (0 < r /\ r <= a) \/ (a < r /\ r <= b)
    BY <1>3
  <2>2. QED BY <2>1 DEF Between
<1>6. Between(S, 0, a) \cap Between(S, a, b) = {}
  <2>1. \A r \in S : ~(r <= a /\ a < r)
    BY <1>3
  <2>2. QED BY <2>1 DEF Between
<1>7. Between(S, a, b) \subseteq S /\ Between(S, a, a) = {}
  BY <1>2 DEF Between
<1>8. QED BY <1>1, <1>5, <1>6, <1>7

\* A root that is not in S adds nothing.
LEMMA NoRootMore ==
    ASSUME NEW S, S \subseteq Nat, NEW a \in Nat, NEW b \in Nat, b + 1 \notin S
    PROVE  Between(S, a, b + 1) = Between(S, a, b)
<1>1. \A r \in S : a < r /\ r <= b + 1 <=> a < r /\ r <= b
  OBVIOUS
<1>2. QED BY <1>1 DEF Between

\* The roots up to x, the one behind b.
RootBehind(S, a, b, x) ==
    /\ IsFiniteSet(S) /\ S \subseteq Nat /\ x \in S
    /\ a \in Nat /\ b \in Nat /\ a <= b /\ x = b + 1

LEMMA OneRootMore ==
    ASSUME NEW S, NEW a, NEW b, NEW x, RootBehind(S, a, b, x)
    PROVE  /\ IsFiniteSet(Between(S, a, b)) /\ Between(S, a, b) \subseteq S
           /\ x \notin Between(S, a, b)
           /\ Between(S, a, x) = Between(S, a, b) \cup {x}
<1> USE DEF RootBehind
<1>1. IsFiniteSet(Between(S, a, b)) /\ Between(S, a, b) \subseteq S
  <2>1. Between(S, a, b) \subseteq S
    BY DEF Between
  <2>2. QED BY <2>1, FS_Subset
<1>2. \A r \in S : a < r /\ r <= x <=> (a < r /\ r <= b) \/ r = x
  OBVIOUS
<1>3. Between(S, a, x) = Between(S, a, b) \cup {x}
  BY <1>2 DEF Between
<1>4. ~(x <= b)
  OBVIOUS
<1>5. x \notin Between(S, a, b)
  BY <1>4 DEF Between
<1>6. QED BY <1>1, <1>3, <1>5

\* Adding up what f says of one root more.
LEMMA OneAnswerMore ==
    ASSUME NEW f, NEW B, Summable(f, B), NEW x, x \notin B, f[x] \in Nat
    PROVE  SumOver(f, B \cup {x}) = SumOver(f, B) + f[x]
<1>1. Summable(f, B \cup {x}) /\ IsFiniteSet(B)
  <2>1. IsFiniteSet(B \cup {x})
    BY FS_AddElement DEF Summable
  <2>2. QED BY <2>1 DEF Summable
<1>2. SumOver(f, B \cup {x}) = f[x] + SumOver(f, B \ {x})
  <2>1. AgreeBut(f, f, B, x)
    BY DEF AgreeBut, Summable
  <2>2. QED BY <1>1, <2>1, SumWith
<1>3. B \ {x} = B /\ SumOver(f, B) \in Nat
  BY SumType DEF Summable
<1> DEFINE sB == SumOver(f, B)
           fx == f[x]
<1>4. sB \in Nat /\ fx \in Nat /\ SumOver(f, B \cup {x}) = fx + sB
  BY <1>2, <1>3
<1> HIDE DEF sB, fx
<1>5. SumOver(f, B \cup {x}) = sB + fx
  BY <1>4
<1>6. QED BY <1>5 DEF sB, fx

\* Counting and adding up the roots of one thread more.
LEMMA OneRangeMore ==
    ASSUME NEW S, NEW f, Summable(f, S), S \subseteq Nat,
           NEW a \in Nat, NEW b \in Nat, a <= b
    PROVE  /\ Cardinality(Between(S, 0, b))
                = Cardinality(Between(S, 0, a)) + Cardinality(Between(S, a, b))
           /\ SumOver(f, Between(S, 0, b))
                = SumOver(f, Between(S, 0, a)) + SumOver(f, Between(S, a, b))
<1> DEFINE A == Between(S, 0, a)
           B == Between(S, a, b)
<1>1. /\ IsFiniteSet(A) /\ IsFiniteSet(B) /\ A \cap B = {}
      /\ Between(S, 0, b) = A \cup B
  BY BetweenFacts DEF Summable
<1>2. Summable(f, A) /\ Summable(f, B)
  BY <1>1 DEF Summable, Between
<1> HIDE DEF A, B
<1>3. Cardinality(A \cup B) = Cardinality(A) + Cardinality(B)
  <2>1. Cardinality(A \cup B) = Cardinality(A) + Cardinality(B) - Cardinality(A \cap B)
    BY <1>1, FS_Union
  <2>2. Cardinality(A \cap B) = 0
    BY <1>1, FS_EmptySet
  <2>3. Cardinality(A) \in Nat /\ Cardinality(B) \in Nat
    BY <1>1, FS_CardinalityType
  <2>4. QED BY <2>1, <2>2, <2>3
<1>4. SumOver(f, A \cup B) = SumOver(f, A) + SumOver(f, B)
  BY <1>1, <1>2, SumOfBoth
<1>5. QED BY <1>1, <1>3, <1>4 DEF A, B
-----------------------------------------------------------------------------
(***************************************************************************)
(* A step of a thread: where it is, what it has counted.                   *)
(***************************************************************************)
\* What the step of t says of the other threads, and of the pattern.
OthersStay(t) ==
    /\ \A u \in Threads : u # t => Untouched(u)
    /\ input' = input /\ optionExport' = optionExport
    /\ mpc' = mpc /\ k' = k /\ nSgraphP' = nSgraphP /\ isoTotal' = isoTotal

LEMMA ThreadStays ==
    ASSUME Inv, NEW t \in Threads, Thread(t)
    PROVE  OthersStay(t) /\ input \in Inputs
<1>1. TypeOK
  BY DEF Inv
<1>2. (\A u \in Threads : u # t => Untouched(u)) /\ UNCHANGED <<optVars, mainVars>>
  BY <1>1, ThreadFrame
<1>3. QED BY <1>1, <1>2 DEF OthersStay, optVars, mainVars, TypeOK

LEMMA BorneTypes ==
    ASSUME input \in Inputs, NEW t \in Threads
    PROVE  /\ borneThread(t) \in Nat /\ borneThread(t + 1) \in Nat
           /\ borneThread(t) <= borneThread(t + 1)
<1>1. t \in 0..nThreads /\ t + 1 \in 0..nThreads /\ t <= t + 1
  BY ThreadPlace
<1>2. QED BY <1>1, BorneFacts, BorneGrows

LEMMA RangeThread ==
    ASSUME Inv, InRange, NEW t \in Threads, OthersStay(t), Moves(t)
    PROVE  InRange'
<1>1. /\ \A u \in Threads : RangeOf(u)
      /\ \A n : borneThread(n)' = borneThread(n)
  BY PatternFrame DEF InRange, OthersStay
<1>2. ASSUME NEW u \in Threads, u # t PROVE RangeOf(u)'
  BY <1>1, <1>2 DEF OthersStay, Untouched, RangeOf, Started
<1>3. /\ borneThread(t) \in Nat /\ borneThread(t + 1) \in Nat
      /\ borneThread(t) <= borneThread(t + 1) /\ j[t] \in Nat
  BY BorneTypes DEF Inv, TypeOK
<1>4. RangeOf(t)'
  <2> USE DEF RangeOf, Started, AtRoot, AfterWalk
  <2>1. CASE Quiet(t)
    BY <1>1, <2>1 DEF Quiet, Stays, Outside
  <2>2. CASE Starts(t)
    BY <1>1, <1>3, <2>2 DEF Starts
  <2>3. CASE Enters(t)
    BY <1>1, <1>3, <2>3 DEF Enters
  <2>4. CASE Walks(t) \/ Finds(t)
    BY <1>1, <2>4 DEF Walks, Finds
  <2>5. CASE GivesUp(t) \/ Misses(t) \/ Leaves(t)
    <3>1. tpc[t] \in AtRoot /\ Started(t) /\ tpc'[t] = "next" /\ j'[t] = j[t] + 1
      BY <2>5 DEF GivesUp, Misses, Leaves
    <3>2. borneThread(t) <= j[t] /\ j[t] < borneThread(t + 1)
      BY <1>1, <3>1
    <3>3. borneThread(t) <= j[t] + 1 /\ j[t] + 1 <= borneThread(t + 1)
      BY <1>3, <3>2
    <3>4. QED BY <1>1, <3>1, <3>3
  <2>6. CASE Hits(t)
    <3>1. tpc[t] \in AtRoot /\ Started(t)
      BY <2>6 DEF Hits
    <3>2. borneThread(t) <= j[t] /\ j[t] < borneThread(t + 1)
      BY <1>1, <3>1
    <3>3. borneThread(t) <= j[t] + 1 /\ j[t] + 1 <= borneThread(t + 1)
          /\ j[t] <= borneThread(t + 1)
      BY <1>3, <3>2
    <3>4. \/ tpc'[t] = "export" /\ j'[t] = j[t]
          \/ tpc'[t] = "next" /\ j'[t] = j[t] + 1
      BY <2>6 DEF Hits
    <3>5. QED BY <1>1, <3>2, <3>3, <3>4
  <2>7. QED BY <2>1, <2>2, <2>3, <2>4, <2>5, <2>6 DEF Moves
<1>5. QED BY <1>2, <1>4 DEF InRange

LEMMA SitesThread ==
    ASSUME Inv, SitesSoFar, NEW t \in Threads, OthersStay(t), Moves(t)
    PROVE  SitesSoFar'
<1>1. gr' = gr
  BY PatternFrame DEF OthersStay
<1>2. SUFFICES ASSUME NEW u \in Threads, tpc'[u] \in AfterWalk
               PROVE  /\ track'[u] = SiteQueue(gr, j'[u] + 1)
                      /\ Len(track'[u]) = siteSize
  BY <1>1 DEF SitesSoFar
<1>3. CASE u # t
  BY <1>2, <1>3 DEF OthersStay, Untouched, SitesSoFar
<1>4. CASE u = t
  <2> USE DEF AfterWalk
  <2>1. CASE Quiet(t)
    BY <1>2, <1>4, <2>1 DEF Quiet, Stays, Outside, SitesSoFar
  <2>2. CASE Finds(t)
    BY <1>4, <2>2 DEF Finds
  <2>3. CASE Hits(t)
    BY <1>2, <1>4, <2>3 DEF Hits, SitesSoFar
  <2>4. ~Starts(t) /\ ~Enters(t) /\ ~Walks(t) /\ ~GivesUp(t) /\ ~Misses(t) /\ ~Leaves(t)
    BY <1>2, <1>4 DEF Starts, Enters, Walks, GivesUp, Misses, Leaves
  <2>5. QED BY <2>1, <2>2, <2>3, <2>4 DEF Moves
<1>5. QED BY <1>3, <1>4

LEMMA FirstThread ==
    ASSUME Inv, FirstMatch, NEW t \in Threads, OthersStay(t), Moves(t)
    PROVE  FirstMatch'
<1>1. optionExport' = optionExport /\ \A r : Matches(r)' = Matches(r)
  BY PatternFrame DEF OthersStay
<1>2. SUFFICES ASSUME NEW u \in Threads, tpc'[u] \in Matched
               PROVE  optionExport /\ i'[u] = Min(Matches(j'[u] + 1))
  BY <1>1 DEF FirstMatch
<1>3. CASE u # t
  BY <1>2, <1>3 DEF OthersStay, Untouched, FirstMatch
<1>4. CASE u = t
  <2> USE DEF Matched
  <2>1. CASE Quiet(t)
    BY <1>2, <1>4, <2>1 DEF Quiet, Stays, Outside, FirstMatch
  <2>2. CASE Hits(t)
    BY <1>2, <1>4, <2>2 DEF Hits
  <2>3. ~Starts(t) /\ ~Enters(t) /\ ~Walks(t) /\ ~Finds(t) /\ ~GivesUp(t)
        /\ ~Misses(t) /\ ~Leaves(t)
    BY <1>2, <1>4 DEF Starts, Enters, Walks, Finds, GivesUp, Misses, Leaves
  <2>4. QED BY <2>1, <2>2, <2>3 DEF Moves
<1>5. QED BY <1>3, <1>4

(***************************************************************************)
(* What a step does to the roots t is past: none more, or the one it was   *)
(* at.                                                                     *)
(***************************************************************************)
Unmoved(t, L) ==
    \/ ~Started(t) /\ ~Started(t)'
    \/ Started(t) /\ Started(t)' /\ Past(t, L)' = Past(t, L)

Opens(t, L) == ~Started(t) /\ Started(t)' /\ Past(t, L)' = borneThread(t)

Passes(t, L) == Started(t) /\ Started(t)' /\ Past(t, L) = j[t] /\ Past(t, L)' = j[t] + 1

LEMMA PastSites ==
    ASSUME NEW t \in Threads, Moves(t)
    PROVE  \/ /\ Unmoved(t, AfterWalk) \/ Opens(t, AfterWalk)
              /\ nSgraphPLocal'[t] = nSgraphPLocal[t]
           \/ /\ Passes(t, AfterWalk)
              /\ \/ j[t] + 1 \notin RootsWithSite /\ nSgraphPLocal'[t] = nSgraphPLocal[t]
                 \/ /\ Finds(t) /\ nSgraphPLocal'[t] = nSgraphPLocal[t] + 1
<1> USE DEF Unmoved, Opens, Passes, Started, Past, AfterWalk
<1>1. CASE Quiet(t)
  BY <1>1 DEF Quiet, Stays, Outside
<1>2. CASE Starts(t)
  BY <1>2 DEF Starts
<1>3. CASE Enters(t) \/ Walks(t)
  BY <1>3 DEF Enters, Walks
<1>4. CASE Finds(t)
  BY <1>4 DEF Finds
<1>5. CASE GivesUp(t)
  BY <1>5 DEF GivesUp
<1>6. CASE Misses(t) \/ Leaves(t)
  BY <1>6 DEF Misses, Leaves
<1>7. CASE Hits(t)
  BY <1>7 DEF Hits
<1>8. QED BY <1>1, <1>2, <1>3, <1>4, <1>5, <1>6, <1>7 DEF Moves

LEMMA PastMatches ==
    ASSUME NEW t \in Threads, Moves(t)
    PROVE  \/ /\ Unmoved(t, Matched) \/ Opens(t, Matched)
              /\ isoLocal'[t] = isoLocal[t]
           \/ /\ Passes(t, Matched)
              /\ \/ j[t] + 1 \notin Matching /\ isoLocal'[t] = isoLocal[t]
                 \/ Hits(t) /\ isoLocal'[t] = isoLocal[t] + FirstAnswer(j[t] + 1)
<1> USE DEF Unmoved, Opens, Passes, Started, Past, Matched
<1>1. CASE Quiet(t)
  BY <1>1 DEF Quiet, Stays, Outside
<1>2. CASE Starts(t)
  BY <1>2 DEF Starts
<1>3. CASE Enters(t) \/ Walks(t)
  BY <1>3 DEF Enters, Walks
<1>4. CASE Finds(t)
  BY <1>4 DEF Finds
<1>5. CASE GivesUp(t) \/ Misses(t)
  <2>1. j[t] + 1 \notin Matching
    BY <1>5 DEF GivesUp, Misses, Matching
  <2>2. QED BY <1>5, <2>1 DEF GivesUp, Misses
<1>6. CASE Leaves(t)
  BY <1>6 DEF Leaves
<1>7. CASE Hits(t)
  BY <1>7 DEF Hits
<1>8. QED BY <1>1, <1>2, <1>3, <1>4, <1>5, <1>6, <1>7 DEF Moves

\* When matches are exported, the one of t is when its last line is written.
LEMMA PastExports ==
    ASSUME NEW t \in Threads, Moves(t), optionExport
    PROVE  \/ Unmoved(t, {"post"}) /\ tpc[t] # "enP"
           \/ Opens(t, {"post"}) /\ tpc[t] # "enP"
           \/ Passes(t, {"post"}) /\ j[t] + 1 \notin Matching /\ tpc[t] # "enP"
           \/ Passes(t, {"post"}) /\ tpc[t] = "enP" /\ tpc'[t] = "post"
<1> USE DEF Unmoved, Opens, Passes, Started, Past
<1>1. CASE Quiet(t)
  BY <1>1 DEF Quiet, Stays, Outside
<1>2. CASE Starts(t)
  BY <1>2 DEF Starts
<1>3. CASE Enters(t) \/ Walks(t)
  BY <1>3 DEF Enters, Walks
<1>4. CASE Finds(t)
  BY <1>4 DEF Finds
<1>5. CASE GivesUp(t) \/ Misses(t)
  <2>1. j[t] + 1 \notin Matching
    BY <1>5 DEF GivesUp, Misses, Matching
  <2>2. QED BY <1>5, <2>1 DEF GivesUp, Misses
<1>6. CASE Leaves(t)
  BY <1>6 DEF Leaves
<1>7. CASE Hits(t)
  BY <1>7 DEF Hits
<1>8. QED BY <1>1, <1>2, <1>3, <1>4, <1>5, <1>6, <1>7 DEF Moves
(***************************************************************************)
(* What a thread has counted.                                              *)
(***************************************************************************)
SitesOf(t) == nSgraphPLocal[t] = Cardinality(HandledBy(RootsWithSite, t, AfterWalk))

MatchesOf(t) == isoLocal[t] = SumOver(Answers, HandledBy(Matching, t, Matched))

LEMMA CountParts ==
    CountsSoFar <=> \A t \in Threads : SitesOf(t) /\ MatchesOf(t)
BY DEF CountsSoFar, SitesOf, MatchesOf

LEMMA CountPartsNext ==
    ASSUME \A t \in Threads : SitesOf(t)' /\ MatchesOf(t)'
    PROVE  CountsSoFar'
BY DEF CountsSoFar, SitesOf, MatchesOf

\* The root t is at when it has found the site, or a match.
LEMMA FoundIsRoot ==
    ASSUME Inv, SitesSoFar, NEW t \in Threads, Finds(t) \/ Hits(t)
    PROVE  /\ j[t] + 1 \in RootsWithSite
           /\ Hits(t) => j[t] + 1 \in Matching
<1>1. tpc[t] \in AtRoot /\ j[t] + 1 \in Nodes
  BY DEF Finds, Hits, AtRoot, AfterWalk, Inv, RootInv
<1>2. track[t] = SiteQueue(gr, j[t] + 1) /\ Len(track[t]) = siteSize
  BY DEF Finds, Hits, SitesSoFar, AfterWalk
<1>3. j[t] + 1 \in RootsWithSite
  BY <1>1, <1>2 DEF RootsWithSite, HasSite
<1>4. QED BY <1>3 DEF Matching, Hits

LEMMA HandledNext ==
    ASSUME input' = input, NEW t
    PROVE  /\ HandledBy(RootsWithSite, t, AfterWalk)'
                = IF Started(t)'
                  THEN Between(RootsWithSite, borneThread(t), Past(t, AfterWalk)') ELSE {}
           /\ HandledBy(Matching, t, Matched)'
                = IF Started(t)'
                  THEN Between(Matching, borneThread(t), Past(t, Matched)') ELSE {}
           /\ HandledBy(Matching, t, {"post"})'
                = IF Started(t)'
                  THEN Between(Matching, borneThread(t), Past(t, {"post"})') ELSE {}
<1>1. /\ RootsWithSite' = RootsWithSite /\ Matching' = Matching
      /\ borneThread(t)' = borneThread(t)
  BY PatternFrame
<1>2. QED BY <1>1 DEF HandledBy, Between

LEMMA SitesOfNext ==
    ASSUME Inv, InRange, SitesSoFar, NEW t \in Threads, SitesOf(t), OthersStay(t), Moves(t)
    PROVE  SitesOf(t)'
<1> DEFINE S == RootsWithSite
           b == borneThread(t)
           z == j[t]
<1>1. input \in Inputs /\ input' = input
  BY DEF Inv, TypeOK, OthersStay
<1>2. S \subseteq Nat /\ IsFiniteSet(S)
  BY <1>1, RootSets
<1>3. b \in Nat /\ z \in Nat
  BY <1>1, BorneTypes DEF Inv, TypeOK
<1>4. Started(t) => b <= z
  BY DEF InRange, RangeOf
<1>5. HandledBy(S, t, AfterWalk) = IF Started(t) THEN Between(S, b, Past(t, AfterWalk)) ELSE {}
  BY DEF HandledBy
<1>6. HandledBy(S, t, AfterWalk)'
        = IF Started(t)' THEN Between(S, b, Past(t, AfterWalk)') ELSE {}
  BY <1>1, HandledNext
<1>7. nSgraphPLocal[t] = Cardinality(HandledBy(S, t, AfterWalk))
  BY DEF SitesOf
<1>8. nSgraphPLocal'[t] = Cardinality(HandledBy(S, t, AfterWalk)')
  <2>1. CASE Unmoved(t, AfterWalk) /\ nSgraphPLocal'[t] = nSgraphPLocal[t]
    BY <1>5, <1>6, <1>7, <2>1 DEF Unmoved
  <2>2. CASE Opens(t, AfterWalk) /\ nSgraphPLocal'[t] = nSgraphPLocal[t]
    <3>1. Between(S, b, b) = {}
      <4> HIDE DEF S, b
      <4>1. b <= b
        BY <1>3
      <4>2. QED BY <1>2, <1>3, <4>1, BetweenFacts
    <3>2. QED BY <1>5, <1>6, <1>7, <2>2, <3>1 DEF Opens
  <2>3. CASE /\ Passes(t, AfterWalk)
             /\ z + 1 \notin S /\ nSgraphPLocal'[t] = nSgraphPLocal[t]
    <3>1. Between(S, b, z + 1) = Between(S, b, z)
      <4> HIDE DEF S, b, z
      <4>1. QED BY <1>2, <1>3, <2>3, NoRootMore
    <3>2. QED BY <1>5, <1>6, <1>7, <2>3, <3>1 DEF Passes
  <2>4. CASE /\ Passes(t, AfterWalk)
             /\ Finds(t) /\ nSgraphPLocal'[t] = nSgraphPLocal[t] + 1
    <3>1. z + 1 \in S /\ b <= z
      BY <1>4, <2>4, FoundIsRoot DEF Passes
    <3>2. Cardinality(Between(S, b, z + 1)) = Cardinality(Between(S, b, z)) + 1
      <4> DEFINE x == z + 1
                 B == Between(S, b, z)
      <4>1. RootBehind(S, b, z, x)
        BY <1>2, <1>3, <3>1 DEF RootBehind
      <4> HIDE DEF S, b, z, x
      <4>2. IsFiniteSet(B) /\ x \notin B /\ Between(S, b, x) = B \cup {x}
        BY <4>1, OneRootMore
      <4> HIDE DEF B
      <4>3. Cardinality(B \cup {x}) = Cardinality(B) + 1
        BY <4>2, FS_AddElement
      <4>4. QED BY <4>2, <4>3 DEF x, B
    <3>3. QED BY <1>5, <1>6, <1>7, <2>4, <3>2 DEF Passes
  <2>5. QED BY <2>1, <2>2, <2>3, <2>4, PastSites
<1>9. QED BY <1>8 DEF SitesOf

LEMMA MatchesOfNext ==
    ASSUME Inv, InRange, SitesSoFar, NEW t \in Threads, MatchesOf(t), OthersStay(t), Moves(t)
    PROVE  MatchesOf(t)'
<1> DEFINE S == Matching
           b == borneThread(t)
           z == j[t]
<1>1. input \in Inputs /\ input' = input /\ Answers' = Answers
  BY PatternFrame DEF Inv, TypeOK, OthersStay
<1>2. S \subseteq Nat /\ IsFiniteSet(S) /\ Summable(Answers, S)
  BY <1>1, RootSets DEF Summable
<1>3. b \in Nat /\ z \in Nat
  BY <1>1, BorneTypes DEF Inv, TypeOK
<1>4. Started(t) => b <= z
  BY DEF InRange, RangeOf
<1>5. HandledBy(S, t, Matched) = IF Started(t) THEN Between(S, b, Past(t, Matched)) ELSE {}
  BY DEF HandledBy
<1>6. HandledBy(S, t, Matched)'
        = IF Started(t)' THEN Between(S, b, Past(t, Matched)') ELSE {}
  BY <1>1, HandledNext
<1>7. isoLocal[t] = SumOver(Answers, HandledBy(S, t, Matched))
  BY DEF MatchesOf
<1>8. isoLocal'[t] = SumOver(Answers, HandledBy(S, t, Matched)')
  <2>1. CASE Unmoved(t, Matched) /\ isoLocal'[t] = isoLocal[t]
    BY <1>5, <1>6, <1>7, <2>1 DEF Unmoved
  <2>2. CASE Opens(t, Matched) /\ isoLocal'[t] = isoLocal[t]
    <3>1. Between(S, b, b) = {}
      <4> HIDE DEF S, b
      <4>1. b <= b
        BY <1>3
      <4>2. QED BY <1>2, <1>3, <4>1, BetweenFacts
    <3>2. QED BY <1>5, <1>6, <1>7, <2>2, <3>1 DEF Opens
  <2>3. CASE /\ Passes(t, Matched)
             /\ z + 1 \notin S /\ isoLocal'[t] = isoLocal[t]
    <3>1. Between(S, b, z + 1) = Between(S, b, z)
      <4> HIDE DEF S, b, z
      <4>1. QED BY <1>2, <1>3, <2>3, NoRootMore
    <3>2. QED BY <1>5, <1>6, <1>7, <2>3, <3>1 DEF Passes
  <2>4. CASE /\ Passes(t, Matched)
             /\ Hits(t) /\ isoLocal'[t] = isoLocal[t] + FirstAnswer(z + 1)
    <3>1. z + 1 \in S /\ b <= z
      BY <1>4, <2>4, FoundIsRoot DEF Passes
    <3>2. Answers[z + 1] = FirstAnswer(z + 1)
      BY <1>1, <3>1, RootSets
    <3>3. SumOver(Answers, Between(S, b, z + 1))
            = SumOver(Answers, Between(S, b, z)) + Answers[z + 1]
      <4> DEFINE x == z + 1
                 B == Between(S, b, z)
      <4>1. RootBehind(S, b, z, x) /\ Answers[x] \in Nat
        BY <1>1, <1>2, <1>3, <3>1, RootSets DEF RootBehind
      <4> HIDE DEF S, b, z, x
      <4>2. /\ IsFiniteSet(B) /\ B \subseteq S /\ x \notin B
            /\ Between(S, b, x) = B \cup {x}
        BY <4>1, OneRootMore
      <4>3. Summable(Answers, B)
        BY <1>2, <4>2 DEF Summable
      <4> HIDE DEF B
      <4>4. SumOver(Answers, B \cup {x}) = SumOver(Answers, B) + Answers[x]
        BY <4>1, <4>2, <4>3, OneAnswerMore
      <4>5. QED BY <4>2, <4>4 DEF x, B
    <3>4. QED BY <1>5, <1>6, <1>7, <2>4, <3>2, <3>3 DEF Passes
  <2>5. QED BY <2>1, <2>2, <2>3, <2>4, PastMatches
<1>9. QED BY <1>1, <1>8 DEF MatchesOf

LEMMA CountThread ==
    ASSUME Inv, InRange, SitesSoFar, CountsSoFar, NEW t \in Threads, OthersStay(t), Moves(t)
    PROVE  CountsSoFar'
<1>1. \A u \in Threads : SitesOf(u) /\ MatchesOf(u)
  BY CountParts
<1>2. ASSUME NEW u \in Threads, u # t PROVE SitesOf(u)' /\ MatchesOf(u)'
  <2>1. /\ tpc'[u] = tpc[u] /\ j'[u] = j[u] /\ input' = input
        /\ nSgraphPLocal'[u] = nSgraphPLocal[u] /\ isoLocal'[u] = isoLocal[u]
    BY <1>2 DEF OthersStay, Untouched
  <2>2. /\ Started(u)' = Started(u) /\ Past(u, AfterWalk)' = Past(u, AfterWalk)
        /\ Past(u, Matched)' = Past(u, Matched) /\ Answers' = Answers
    BY <2>1, PatternFrame DEF Started, Past
  <2>3. /\ HandledBy(RootsWithSite, u, AfterWalk)' = HandledBy(RootsWithSite, u, AfterWalk)
        /\ HandledBy(Matching, u, Matched)' = HandledBy(Matching, u, Matched)
    BY <2>1, <2>2, HandledNext DEF HandledBy
  <2>4. QED BY <1>1, <2>1, <2>2, <2>3 DEF SitesOf, MatchesOf
<1>3. SitesOf(t)' /\ MatchesOf(t)'
  BY <1>1, SitesOfNext, MatchesOfNext
<1>4. QED BY <1>2, <1>3, CountPartsNext
-----------------------------------------------------------------------------
(***************************************************************************)
(* The lines of the files.                                                 *)
(***************************************************************************)
\* The roots t has written.
ExportedBy(t) == HandledBy(Matching, t, {"post"})

\* A step of t that does not end a line, and one that does.
NoLine(t) ==
    /\ tpc[t] # "enP" /\ files'.enP = files.enP
    /\ \A n \in DOMAIN files.enP : files'.enT[n] = files.enT[n]
    /\ tpc[t] \notin Files => files' = files

NewLine(t) ==
    /\ tpc[t] = "enP" /\ tpc'[t] = "post"
    /\ files'.enP = Append(files.enP, track[t]) /\ files'.enT = files.enT
    /\ Len(files.enT) = Len(files.enP) + 1 /\ files.enT[Len(files.enP) + 1] = i[t]

LEMMA LineSteps ==
    ASSUME Inv, NEW t \in Threads, Thread(t)
    PROVE  NoLine(t) \/ NewLine(t)
<1>t. /\ TypeOK /\ tpc \in [Threads -> Locations]
      /\ DOMAIN files = Files /\ Files = {"eT", "eP", "enT", "enP"}
      /\ files.enT \in Seq(Nat) /\ files.enP \in Seq(Seq(Nodes)) /\ i[t] \in Nat
  BY DEF Inv, TypeOK, Files
<1>1. CASE tpc[t] \notin Files
  <2>1. files' = files
    <3>1. CASE WaitExport(t)
      BY <3>1 DEF WaitExport
    <3>2. CASE PostExport(t)
      BY <3>2 DEF PostExport
    <3>3. CASE tpc[t] \notin Writing /\ ~WaitExport(t)
      BY <1>t, <3>3, OffFilesFrame
    <3>4. CASE tpc[t] = "post"
      <4>1. ~ReadDebut(t) /\ ~ReadFin(t) /\ ~PostStructRead(t) /\ ~BeginWalk(t)
            /\ ~OpenNode(t) /\ ~VisitChild(t) /\ ~PassNode(t) /\ ~EndWalk(t)
        BY <3>4 DEF ReadDebut, ReadFin, PostStructRead, BeginWalk, OpenNode, VisitChild,
                    PassNode, EndWalk, Walking
      <4>2. ~NoMatch(t) /\ ~Match(t) /\ ~WaitExport(t) /\ ~Write(t) /\ ~Exit(t)
        BY <3>4 DEF NoMatch, Match, WaitExport, Write, Files, Exit
      <4>3. QED BY <3>2, <4>1, <4>2 DEF Thread
    <3>5. QED BY <1>1, <3>1, <3>3, <3>4 DEF Writing, Files
  <2>2. QED BY <1>1, <2>1 DEF NoLine, Files
<1>2. CASE tpc[t] \in Files
  <2>1. Write(t)
    <3>1. ~ReadDebut(t) /\ ~ReadFin(t) /\ ~PostStructRead(t) /\ ~BeginWalk(t)
          /\ ~OpenNode(t) /\ ~VisitChild(t) /\ ~PassNode(t) /\ ~EndWalk(t)
      BY <1>2 DEF Files, ReadDebut, ReadFin, PostStructRead, BeginWalk, OpenNode,
                  VisitChild, PassNode, EndWalk, Walking
    <3>2. ~NoMatch(t) /\ ~Match(t) /\ ~WaitExport(t) /\ ~PostExport(t) /\ ~Exit(t)
      BY <1>2 DEF Files, NoMatch, Match, WaitExport, PostExport, Exit
    <3>3. QED BY <3>1, <3>2 DEF Thread
  <2>2. Written(t)
    BY <1>2, FilesParts DEF Inv, Files, Writing
  <2>3. CASE /\ tpc[t] \in {"eT", "eP"}
             /\ files'.enP = files.enP /\ files'.enT = files.enT
    BY <1>2, <2>3 DEF NoLine
  <2>4. CASE /\ tpc[t] = "enT"
             /\ files' = [files EXCEPT !["enT"] = Append(@, i[t])]
    <3>1. files'.enP = files.enP /\ files'.enT = Append(files.enT, i[t])
      BY <1>t, <2>4
    <3>2. Len(files.enT) = Len(files.enP)
      BY <1>t, <2>2, <2>4 DEF Written, Ahead
    <3>3. \A n \in DOMAIN files.enP : Append(files.enT, i[t])[n] = files.enT[n]
      BY <1>t, <3>2
    <3>4. QED BY <1>2, <2>4, <3>1, <3>3 DEF NoLine
  <2>5. CASE /\ tpc[t] = "enP" /\ Goto(t, "post")
             /\ files' = [files EXCEPT !["enP"] = Append(@, track[t])]
    <3>1. files'.enT = files.enT /\ files'.enP = Append(files.enP, track[t])
      BY <1>t, <2>5
    <3>2. Len(files.enT) = Len(files.enP) + 1 /\ files.enT[Len(files.enT)] = i[t]
      BY <1>t, <2>2, <2>5 DEF Written, Ahead
    <3>3. tpc'[t] = "post"
      BY <1>t, <2>5 DEF Goto
    <3>4. QED BY <2>5, <3>1, <3>2, <3>3 DEF NewLine
  <2>6. QED
    <3>1. CASE files' = [files EXCEPT !["eT"] = Append(@, i[t])] /\ tpc[t] = "eT"
      <4>1. files'.enP = files.enP /\ files'.enT = files.enT
        BY <1>t, <3>1
      <4>2. QED BY <2>3, <3>1, <4>1
    <3>2. CASE files' = [files EXCEPT !["eP"] = Append(@, input.root)] /\ tpc[t] = "eP"
      <4>1. files'.enP = files.enP /\ files'.enT = files.enT
        BY <1>t, <3>2
      <4>2. QED BY <2>3, <3>2, <4>1
    <3>3. QED BY <1>t, <2>1, <2>4, <2>5, <3>1, <3>2, WriteCases
<1>3. QED BY <1>1, <1>2

\* What a thread has exported lies in its range.
LEMMA ExportedRange ==
    ASSUME Inv, InRange, NEW u \in Threads, NEW r \in ExportedBy(u)
    PROVE  /\ r \in Nat /\ r \in Matching /\ Started(u)
           /\ borneThread(u) < r /\ r <= borneThread(u + 1) /\ r <= Past(u, {"post"})
<1>1. input \in Inputs /\ j[u] \in Nat
  BY DEF Inv, TypeOK
<1>2. /\ Started(u) /\ r \in Matching /\ borneThread(u) < r /\ r <= Past(u, {"post"})
  BY DEF ExportedBy, HandledBy, Between
<1>3. r \in Nat /\ borneThread(u + 1) \in Nat
  BY <1>1, <1>2, RootSets, BorneTypes
<1>4. /\ j[u] <= borneThread(u + 1)
      /\ tpc[u] = "post" => j[u] < borneThread(u + 1)
  BY <1>2 DEF InRange, RangeOf, AtRoot, AfterWalk
<1>5. r <= borneThread(u + 1)
  <2>1. CASE tpc[u] = "post"
    <3>1. r <= j[u] + 1 /\ j[u] < borneThread(u + 1)
      BY <1>2, <1>4, <2>1 DEF Past
    <3>2. QED BY <1>1, <1>3, <3>1
  <2>2. CASE tpc[u] # "post"
    <3>1. r <= j[u]
      BY <1>2, <2>2 DEF Past
    <3>2. QED BY <1>1, <1>3, <1>4, <3>1
  <2>3. QED BY <2>1, <2>2
<1>6. QED BY <1>2, <1>3, <1>5

LEMMA ExportedIsFinite ==
    ASSUME input \in Inputs
    PROVE  Exported \subseteq Matching /\ IsFiniteSet(Exported)
<1>1. Exported \subseteq Matching
  BY DEF Exported, HandledBy, Between
<1>2. QED BY <1>1, RootSets, FS_Subset

LEMMA ExportedNext ==
    ASSUME Inv, InRange, SitesSoFar, NEW t \in Threads, OthersStay(t), Moves(t),
           optionExport
    PROVE  \/ tpc[t] # "enP" /\ Exported' = Exported
           \/ /\ tpc[t] = "enP" /\ j[t] + 1 \in Matching \ Exported
              /\ Exported' = Exported \cup {j[t] + 1}
<1> DEFINE S == Matching
           b == borneThread(t)
           z == j[t]
           x == z + 1
<1>1. input \in Inputs /\ input' = input
  BY DEF Inv, TypeOK, OthersStay
<1>2. S \subseteq Nat /\ IsFiniteSet(S)
  BY <1>1, RootSets
<1>3. b \in Nat /\ z \in Nat /\ borneThread(t + 1) \in Nat
  BY <1>1, BorneTypes DEF Inv, TypeOK
<1>4. Started(t) => b <= z
  BY DEF InRange, RangeOf
<1>5. ASSUME NEW u \in Threads, u # t PROVE ExportedBy(u)' = ExportedBy(u)
  <2>1. tpc'[u] = tpc[u] /\ j'[u] = j[u]
    BY <1>5 DEF OthersStay, Untouched
  <2>2. Started(u)' = Started(u) /\ Past(u, {"post"})' = Past(u, {"post"})
    BY <2>1 DEF Started, Past
  <2>3. QED BY <1>1, <2>2, HandledNext DEF ExportedBy, HandledBy
<1>6. ExportedBy(t) = IF Started(t) THEN Between(S, b, Past(t, {"post"})) ELSE {}
  BY DEF ExportedBy, HandledBy
<1>7. ExportedBy(t)' = IF Started(t)' THEN Between(S, b, Past(t, {"post"})') ELSE {}
  BY <1>1, HandledNext DEF ExportedBy
<1>8. Exported = UNION {ExportedBy(u) : u \in Threads}
  BY DEF Exported, ExportedBy
<1>9. Exported' = UNION {ExportedBy(u)' : u \in Threads}
  BY DEF Exported, ExportedBy, Threads
<1>10. CASE tpc[t] = "enP"
  <2>1. Passes(t, {"post"})
    BY <1>10, PastExports
  <2>2. b <= z /\ Started(t)
    BY <1>4, <2>1 DEF Passes
  <2>3. x \in S
    <3>1. z + 1 \in Nodes /\ i[t] \in Matches(z + 1)
      BY <1>10 DEF Inv, RootInv, MatchInv, AtRoot, AfterWalk, Matched
    <3>2. track[t] = SiteQueue(gr, z + 1) /\ Len(track[t]) = siteSize
      BY <1>10 DEF SitesSoFar, AfterWalk
    <3>3. z + 1 \in RootsWithSite
      BY <3>1, <3>2 DEF RootsWithSite, HasSite
    <3>4. QED BY <3>1, <3>3 DEF Matching
  <2>4. ExportedBy(t)' = ExportedBy(t) \cup {x}
    <3>1. ExportedBy(t) = Between(S, b, z) /\ ExportedBy(t)' = Between(S, b, x)
      BY <1>6, <1>7, <2>1 DEF Passes
    <3>2. RootBehind(S, b, z, x)
      BY <1>2, <1>3, <2>2, <2>3 DEF RootBehind
    <3> HIDE DEF S, b, z, x
    <3>3. QED BY <3>1, <3>2, OneRootMore
  <2>5. x \notin Exported
    <3>1. SUFFICES ASSUME NEW u \in Threads, x \in ExportedBy(u) PROVE FALSE
      BY <1>8
    <3>2. /\ x \in Nat /\ borneThread(u) < x /\ x <= borneThread(u + 1)
          /\ x <= Past(u, {"post"})
      BY <3>1, ExportedRange
    <3>3. z < borneThread(t + 1)
      BY <1>10, <2>2 DEF InRange, RangeOf, AtRoot, AfterWalk
    <3>4. b < x /\ x <= borneThread(t + 1)
      BY <1>3, <2>2, <3>3
    <3>5. u = t
      <4> HIDE DEF x
      <4>1. QED BY <1>1, <3>2, <3>4, RangesApart
    <3>6. x <= z
      BY <3>2, <3>5, <2>1 DEF Passes
    <3>7. QED BY <1>3, <3>6
  <2>6. Exported' = Exported \cup {x}
    BY <1>5, <1>8, <1>9, <2>4
  <2>7. QED BY <1>10, <2>3, <2>5, <2>6
<1>11. CASE tpc[t] # "enP"
  <2>1. ExportedBy(t)' = ExportedBy(t)
    <3>1. CASE Unmoved(t, {"post"})
      BY <1>6, <1>7, <3>1 DEF Unmoved
    <3>2. CASE Opens(t, {"post"})
      <4>1. Between(S, b, b) = {}
        <5> HIDE DEF S, b
        <5>1. b <= b
          BY <1>3
        <5>2. QED BY <1>2, <1>3, <5>1, BetweenFacts
      <4>2. QED BY <1>6, <1>7, <3>2, <4>1 DEF Opens
    <3>3. CASE Passes(t, {"post"}) /\ x \notin S
      <4>1. Between(S, b, z + 1) = Between(S, b, z)
        <5>1. z + 1 \notin S
          BY <3>3
        <5> HIDE DEF S, b, z
        <5>2. QED BY <1>2, <1>3, <5>1, NoRootMore
      <4>2. QED BY <1>6, <1>7, <3>3, <4>1 DEF Passes
    <3>4. QED BY <1>11, <3>1, <3>2, <3>3, PastExports
  <2>2. QED BY <1>5, <1>8, <1>9, <1>11, <2>1
<1>12. QED BY <1>10, <1>11

LEMMA LinesThread ==
    ASSUME Inv, InRange, SitesSoFar, FirstMatch, LinesSoFar,
           NEW t \in Threads, Thread(t), OthersStay(t), Moves(t)
    PROVE  LinesSoFar'
<1>t. /\ input \in Inputs /\ input' = input /\ optionExport' = optionExport
      /\ files.enP \in Seq(Seq(Nodes)) /\ files.enT \in Seq(Nat) /\ track[t] \in Seq(Nodes)
      /\ \A r : LineOf(r)' = LineOf(r)
  BY PatternFrame DEF Inv, TypeOK, OthersStay
<1>1. CASE ~optionExport
  <2>1. tpc[t] \notin Files
    BY <1>1 DEF FirstMatch, Matched, Files
  <2>2. files' = files
    BY <2>1, LineSteps DEF NoLine, NewLine, Files
  <2>3. QED BY <1>1, <1>t, <2>2 DEF LinesSoFar
<1>2. CASE optionExport
  <2> DEFINE Lines == {LineAt(n) : n \in DOMAIN files.enP}
             size == Cardinality(Exported)
  <2>i. Len(files.enP) = size /\ Lines = {LineOf(r) : r \in Exported}
    BY <1>2 DEF LinesSoFar
  <2>1. CASE NoLine(t)
    <3>1. Exported' = Exported
      BY <1>2, <2>1, ExportedNext DEF NoLine
    <3>2. \A n \in DOMAIN files.enP : LineAt(n)' = LineAt(n)
      BY <2>1 DEF NoLine, LineAt
    <3>3. files'.enP = files.enP
      BY <2>1 DEF NoLine
    <3>4. {LineAt(n)' : n \in DOMAIN files'.enP} = Lines
      BY <3>2, <3>3
    <3>5. QED BY <1>2, <1>t, <2>i, <3>1, <3>3, <3>4 DEF LinesSoFar
  <2>2. CASE NewLine(t)
    <3> DEFINE x == j[t] + 1
               m == Len(files.enP)
    <3>1. x \in Matching \ Exported /\ Exported' = Exported \cup {x}
      BY <1>2, <2>2, ExportedNext DEF NewLine
    <3>2. Cardinality(Exported') = size + 1
      <4>1. IsFiniteSet(Exported)
        BY <1>t, ExportedIsFinite
      <4> HIDE DEF x
      <4>2. QED BY <3>1, <4>1, FS_AddElement
    <3>3. /\ files'.enP = Append(files.enP, track[t]) /\ files'.enT = files.enT
          /\ Len(files.enT) = m + 1 /\ files.enT[m + 1] = i[t]
      BY <2>2 DEF NewLine
    <3>4. m \in Nat /\ DOMAIN files.enP = 1..m
      BY <1>t
    <3>5. /\ Len(files'.enP) = m + 1 /\ DOMAIN files'.enP = DOMAIN files.enP \cup {m + 1}
          /\ files'.enP[m + 1] = track[t]
          /\ \A n \in DOMAIN files.enP : files'.enP[n] = files.enP[n]
      <4> DEFINE T == Seq(Nodes)
      <4>1. files.enP \in Seq(T) /\ track[t] \in T
        BY <1>t
      <4> HIDE DEF T
      <4>2. QED BY <3>3, <3>4, <4>1
    <3>6. \A n \in DOMAIN files.enP : LineAt(n)' = LineAt(n)
      BY <3>3, <3>5 DEF LineAt
    <3>7. <<files'.enP[m + 1], files'.enT[m + 1]>> = LineOf(x)
      <4>1. track[t] = SiteQueue(gr, x) /\ i[t] = Min(Matches(x))
        BY <2>2 DEF NewLine, SitesSoFar, FirstMatch, AfterWalk, Matched
      <4>2. QED BY <3>3, <3>5, <4>1 DEF LineOf
    <3>8. {LineAt(n) : n \in DOMAIN files.enP}' = {LineOf(r) : r \in Exported}'
      <4>1. {LineAt(n) : n \in DOMAIN files.enP}'
              = {<<files'.enP[n], files'.enT[n]>> : n \in DOMAIN files'.enP}
        BY DEF LineAt
      <4>2. {<<files'.enP[n], files'.enT[n]>> : n \in DOMAIN files'.enP}
              = Lines \cup {LineOf(x)}
        <5> DEFINE D == DOMAIN files.enP
                   New(n) == <<files'.enP[n], files'.enT[n]>>
        <5>1. \A n \in D : New(n) = LineAt(n)
          BY <3>3, <3>5 DEF LineAt
        <5>2. DOMAIN files'.enP = D \cup {m + 1} /\ New(m + 1) = LineOf(x)
          BY <3>5, <3>7
        <5> HIDE DEF New, D
        <5>3. {New(n) : n \in D \cup {m + 1}} = {LineAt(n) : n \in D} \cup {LineOf(x)}
          BY <5>1, <5>2
        <5>4. QED BY <5>2, <5>3 DEF New, D
      <4>3. {LineOf(r) : r \in Exported}' = {LineOf(r) : r \in Exported \cup {x}}
        BY <1>t, <3>1
      <4>4. QED BY <2>i, <4>1, <4>2, <4>3
    <3>9. Len(files'.enP) = Cardinality(Exported')
      BY <2>i, <3>2, <3>5
    <3>10. QED BY <1>2, <1>t, <3>8, <3>9 DEF LinesSoFar
  <2>3. QED BY <2>1, <2>2, LineSteps
<1>3. QED BY <1>1, <1>2
-----------------------------------------------------------------------------
(***************************************************************************)
(* The totals of main.                                                     *)
(***************************************************************************)
LEMMA MainThread ==
    ASSUME MainSoFar, NEW t \in Threads, OthersStay(t), Moves(t)
    PROVE  MainSoFar'
<1>1. /\ RootsWithSite' = RootsWithSite /\ Matching' = Matching /\ Answers' = Answers
      /\ \A n : borneThread(n)' = borneThread(n)
      /\ mpc' = mpc /\ k' = k /\ nSgraphP' = nSgraphP /\ isoTotal' = isoTotal
  BY PatternFrame DEF OthersStay
<1>2. tpc[t] # "exited"
  BY DEF Moves, Quiet, Outside, Starts, Enters, Walks, Finds, GivesUp, Misses, Hits, Leaves
<1>3. \A u \in Threads : tpc[u] = "exited" => tpc'[u] = "exited"
  BY <1>2 DEF OthersStay, Untouched
<1>4. borneThread(k)' = borneThread(k)
  BY <1>1 DEF borneThread
<1>5. /\ Between(RootsWithSite, 0, borneThread(k))' = Between(RootsWithSite, 0, borneThread(k))
      /\ Between(Matching, 0, borneThread(k))' = Between(Matching, 0, borneThread(k))
  BY <1>1, <1>4 DEF Between
<1>6. QED BY <1>1, <1>3, <1>5 DEF MainSoFar

\* What a thread that is over has counted.
LEMMA ExitedTotals ==
    ASSUME InRange, CountsSoFar, NEW t \in Threads, tpc[t] = "exited"
    PROVE  /\ nSgraphPLocal[t]
                = Cardinality(Between(RootsWithSite, borneThread(t), borneThread(t + 1)))
           /\ isoLocal[t]
                = SumOver(Answers, Between(Matching, borneThread(t), borneThread(t + 1)))
<1>1. Started(t) /\ j[t] = borneThread(t + 1)
  BY DEF InRange, RangeOf, Started
<1>2. Past(t, AfterWalk) = borneThread(t + 1) /\ Past(t, Matched) = borneThread(t + 1)
  BY <1>1 DEF Past, AfterWalk, Matched
<1>3. QED BY <1>1, <1>2 DEF CountsSoFar, HandledBy

\* Nothing lies before the first range, and everything before the end.
LEMMA EndsOfRoots ==
    ASSUME input \in Inputs, NEW S, S \subseteq Nodes
    PROVE  /\ Between(S, 0, borneThread(0)) = {}
           /\ Between(S, 0, borneThread(nThreads)) = S
<1>1. \A r \in S : 0 < r /\ r <= Cardinality(Nodes) /\ r \in Nat
  BY RootSets
<1>2. borneThread(0) = 0 /\ borneThread(nThreads) = Cardinality(Nodes)
  BY BorneEnds
<1>3. \A r \in S : ~(r <= 0)
  BY <1>1
<1>4. QED BY <1>1, <1>2, <1>3 DEF Between

LEMMA TotalsOfNone ==
    Cardinality({}) = 0 /\ SumOver(Answers, {}) = 0
<1>1. SumOver(Answers, {}) = 0
  BY SumEmpty
<1>2. QED BY <1>1, FS_EmptySet

LEMMA MainCounts ==
    ASSUME Inv, InRange, CountsSoFar, MainSoFar, Main
    PROVE  MainSoFar'
<1>t. /\ input \in Inputs /\ k \in Threads
      /\ k \in Nat /\ k + 1 \in Nat /\ k + 1 <= nThreads /\ nThreads \in Nat \ {0}
      /\ k \in 0..nThreads /\ k + 1 \in 0..nThreads
  <2>1. input \in Inputs /\ k \in Threads
    BY DEF Inv, TypeOK
  <2>2. QED BY <2>1, ThreadsAssumption DEF Threads
<1>p. /\ input' = input /\ RootsWithSite' = RootsWithSite /\ Matching' = Matching
      /\ Answers' = Answers /\ \A n : borneThread(n)' = borneThread(n)
  <2>1. input' = input
    BY MainFrame
  <2>2. QED BY <2>1, PatternFrame
<1>1. CASE WaitStructRead
  <2>1. mpc = "wait" /\ mpc' = "create" /\ nSgraphP' = nSgraphP /\ isoTotal' = isoTotal
    BY <1>1 DEF WaitStructRead
  <2>2. QED BY <2>1 DEF MainSoFar
<1>2. CASE Create
  <2>1. /\ mpc = "create" /\ nSgraphP' = nSgraphP /\ isoTotal' = isoTotal
        /\ nSgraphP = 0 /\ isoTotal = 0
        /\ mpc' = "wait" \/ (mpc' = "join" /\ k' = 0)
    BY <1>2 DEF Create, MainSoFar
  <2>2. CASE mpc' = "wait"
    BY <2>1, <2>2 DEF MainSoFar
  <2>3. CASE mpc' = "join" /\ k' = 0
    <3>1. borneThread(k)' = borneThread(0)
      BY <1>p, <2>3 DEF borneThread
    <3>2. /\ Between(RootsWithSite, 0, borneThread(0)) = {}
          /\ Between(Matching, 0, borneThread(0)) = {}
      BY <1>t, RootSets, EndsOfRoots
    <3>3. /\ Between(RootsWithSite, 0, borneThread(k))' = {}
          /\ Between(Matching, 0, borneThread(k))' = {}
      BY <1>p, <3>1, <3>2 DEF Between
    <3>4. \A t \in Threads : ~(t < 0)
      BY ThreadPlace
    <3>5. Cardinality({}) = 0 /\ SumOver(Answers, {}) = 0
      BY TotalsOfNone
    <3>6. QED BY <1>p, <2>1, <2>3, <3>3, <3>4, <3>5 DEF MainSoFar
  <2>4. QED BY <2>1, <2>2, <2>3
<1>3. CASE Join
  <2>1. /\ mpc = "join" /\ tpc[k] = "exited" /\ tpc' = tpc
        /\ nSgraphP' = nSgraphP + nSgraphPLocal[k] /\ isoTotal' = isoTotal + isoLocal[k]
    BY <1>3 DEF Join
  <2> DEFINE R == RootsWithSite
             M == Matching
             a == borneThread(k)
             b == borneThread(k + 1)
  <2>2. a \in Nat /\ b \in Nat /\ a <= b
    BY <1>t, BorneTypes
  <2>3. /\ nSgraphP = Cardinality(Between(R, 0, a)) /\ isoTotal = SumOver(Answers, Between(M, 0, a))
        /\ \A t \in Threads : t < k => tpc[t] = "exited"
    BY <2>1 DEF MainSoFar
  <2>4. /\ nSgraphPLocal[k] = Cardinality(Between(R, a, b))
        /\ isoLocal[k] = SumOver(Answers, Between(M, a, b))
    BY <1>t, <2>1, ExitedTotals
  <2>5. /\ R \subseteq Nat /\ M \subseteq Nat /\ Summable([r \in R |-> 0], R)
        /\ Summable(Answers, M)
    BY <1>t, RootSets DEF Summable
  <2>6. /\ nSgraphP' = Cardinality(Between(R, 0, b))
        /\ isoTotal' = SumOver(Answers, Between(M, 0, b))
    <3> DEFINE zero == [r \in R |-> 0]
    <3>1. Summable(zero, R)
      BY <2>5
    <3> HIDE DEF R, M, a, b, zero
    <3>2. Cardinality(Between(R, 0, b))
            = Cardinality(Between(R, 0, a)) + Cardinality(Between(R, a, b))
      BY <2>2, <2>5, <3>1, OneRangeMore
    <3>3. SumOver(Answers, Between(M, 0, b))
            = SumOver(Answers, Between(M, 0, a)) + SumOver(Answers, Between(M, a, b))
      BY <2>2, <2>5, OneRangeMore
    <3>4. QED BY <2>1, <2>3, <2>4, <3>2, <3>3
  <2>7. \A t \in Threads : t < k + 1 => tpc'[t] = "exited"
    <3>1. \A t \in Threads : t < k + 1 => t < k \/ t = k
      BY <1>t, ThreadPlace
    <3>2. QED BY <2>1, <2>3, <3>1
  <2>8. CASE mpc' = "join" /\ k' = k + 1
    <3>1. borneThread(k)' = b
      BY <1>p, <2>8 DEF borneThread
    <3>2. /\ Between(RootsWithSite, 0, borneThread(k))' = Between(R, 0, b)
          /\ Between(Matching, 0, borneThread(k))' = Between(M, 0, b)
      BY <1>p, <3>1 DEF Between
    <3> HIDE DEF R, M, a, b
    <3>3. QED BY <1>p, <2>6, <2>7, <2>8, <3>2 DEF MainSoFar
  <2>9. CASE mpc' = "end" /\ ~(k + 1 < nThreads)
    <3>1. k + 1 = nThreads
      BY <1>t, <2>9
    <3>2. Between(R, 0, b) = R /\ Between(M, 0, b) = M
      BY <1>t, <3>1, RootSets, EndsOfRoots
    <3>3. \A t \in Threads : tpc'[t] = "exited"
      BY <1>t, <2>7, <3>1, ThreadPlace
    <3> HIDE DEF a, b
    <3>4. QED BY <1>p, <2>6, <2>9, <3>2, <3>3 DEF MainSoFar
  <2>10. QED BY <1>3, <2>8, <2>9 DEF Join
<1>4. QED BY <1>1, <1>2, <1>3 DEF Main

\* No thread does anything, but that one may be born.
Idle ==
    /\ UNCHANGED <<input, optionExport, files, j, i, track, p, c,
                   nSgraphPLocal, isoLocal>>
    /\ \A u \in Threads : \/ tpc'[u] = tpc[u]
                          \/ tpc[u] = "unborn" /\ tpc'[u] = "debut"

LEMMA MainIdle ==
    ASSUME Inv, Main
    PROVE  Idle
<1>1. UNCHANGED <<optionExport, nSgraphPLocal, isoLocal>>
  BY DEF Main, WaitStructRead, Create, Join, optVars, searchVars
<1>2. QED BY <1>1, MainFrame DEF Idle

LEMMA IdleKeeps ==
    ASSUME Idle, WalkSoFar, SitesSoFar, InRange, CountsSoFar, FirstMatch, LinesSoFar
    PROVE  WalkSoFar' /\ SitesSoFar' /\ InRange' /\ CountsSoFar' /\ FirstMatch' /\ LinesSoFar'
<1>1. /\ UNCHANGED <<optionExport, files, j, i, track, p, c, nSgraphPLocal, isoLocal>>
      /\ input' = input
      /\ \A u \in Threads : \/ tpc'[u] = tpc[u]
                            \/ tpc[u] = "unborn" /\ tpc'[u] = "debut"
  BY DEF Idle
<1>2. /\ gr' = gr /\ RootsWithSite' = RootsWithSite /\ Matching' = Matching
      /\ Answers' = Answers /\ \A n : borneThread(n)' = borneThread(n)
      /\ \A r : Matches(r)' = Matches(r) /\ LineOf(r)' = LineOf(r)
  BY <1>1, PatternFrame
<1>3. WalkSoFar'
  <2>1. SUFFICES ASSUME NEW u \in Threads, tpc'[u] = "walk" PROVE BuildOf(u)'
    BY DEF WalkSoFar
  <2>2. tpc[u] = "walk" /\ BuildOf(u)
    BY <1>1, <2>1 DEF WalkSoFar
  <2>3. nI(u)' = nI(u) /\ QueueAfter(u, p[u] - 1)' = QueueAfter(u, p[u] - 1)
    BY <1>1, <1>2 DEF nI, QueueAfter
  <2>4. QED BY <1>1, <1>2, <2>2, <2>3 DEF BuildOf
<1>4. SitesSoFar'
  BY <1>1, <1>2 DEF SitesSoFar, AfterWalk
<1>5. InRange'
  <2>1. SUFFICES ASSUME NEW u \in Threads PROVE RangeOf(u)'
    BY DEF InRange
  <2>2. QED BY <1>1, <1>2 DEF InRange, RangeOf, Started, AtRoot, AfterWalk
<1>6. ASSUME NEW u \in Threads
      PROVE  /\ HandledBy(RootsWithSite, u, AfterWalk)' = HandledBy(RootsWithSite, u, AfterWalk)
             /\ HandledBy(Matching, u, Matched)' = HandledBy(Matching, u, Matched)
             /\ HandledBy(Matching, u, {"post"})' = HandledBy(Matching, u, {"post"})
  <2>1. Started(u)' = Started(u)
    BY <1>1 DEF Started
  <2>2. Started(u) => /\ Past(u, AfterWalk)' = Past(u, AfterWalk)
                      /\ Past(u, Matched)' = Past(u, Matched)
                      /\ Past(u, {"post"})' = Past(u, {"post"})
    BY <1>1 DEF Started, Past
  <2>3. QED BY <1>1, <2>1, <2>2, HandledNext DEF HandledBy
<1>7. CountsSoFar'
  <2>1. ASSUME NEW u \in Threads PROVE SitesOf(u)' /\ MatchesOf(u)'
    BY <1>1, <1>2, <1>6, CountParts DEF SitesOf, MatchesOf
  <2>2. QED BY <2>1, CountPartsNext
<1>8. FirstMatch'
  BY <1>1, <1>2 DEF FirstMatch, Matched
<1>9. LinesSoFar'
  <2>1. Exported' = Exported
    BY <1>6 DEF Exported, Threads
  <2>2. \A n : LineAt(n)' = <<files.enP[n], files.enT[n]>>
    BY <1>1 DEF LineAt
  <2>3. {LineAt(n) : n \in DOMAIN files.enP}' = {LineAt(n) : n \in DOMAIN files.enP}
    BY <1>1 DEF LineAt
  <2>4. QED BY <1>1, <1>2, <2>1, <2>3 DEF LinesSoFar
<1>10. QED BY <1>3, <1>4, <1>5, <1>7, <1>8, <1>9
-----------------------------------------------------------------------------
LEMMA InitResults == Init => Results
<1> SUFFICES ASSUME Init PROVE Results
  OBVIOUS
<1>1. /\ \A t \in Threads : tpc[t] = "unborn" /\ nSgraphPLocal[t] = 0 /\ isoLocal[t] = 0
      /\ mpc = "wait" /\ nSgraphP = 0 /\ isoTotal = 0
      /\ files.enP = <<>> /\ files.eT = <<>>
  BY DEF Init, Files
<1>2. WalkSoFar /\ SitesSoFar /\ InRange /\ FirstMatch
  BY <1>1 DEF WalkSoFar, SitesSoFar, AfterWalk, InRange, RangeOf, Started, FirstMatch,
              Matched
<1>3. \A t \in Threads : \A S, L : HandledBy(S, t, L) = {}
  BY <1>1 DEF HandledBy, Started
<1>4. CountsSoFar
  BY <1>1, <1>3, TotalsOfNone DEF CountsSoFar
<1>5. MainSoFar
  BY <1>1 DEF MainSoFar
<1>6. Exported = {}
  BY <1>3 DEF Exported
<1>7. LinesSoFar
  <2>1. DOMAIN files.enP = {} /\ Len(files.enP) = 0
    BY <1>1
  <2>2. QED BY <1>1, <1>6, <2>1, TotalsOfNone DEF LinesSoFar
<1>8. QED BY <1>2, <1>4, <1>5, <1>7 DEF Results

LEMMA NextResults == Inv /\ Results /\ [Next]_vars => Results'
<1> SUFFICES ASSUME Inv, Results, [Next]_vars PROVE Results'
  OBVIOUS
<1>r. /\ WalkSoFar /\ SitesSoFar /\ InRange /\ CountsSoFar /\ FirstMatch
      /\ MainSoFar /\ LinesSoFar
  BY DEF Results
<1>1. CASE Main
  BY <1>1, <1>r, MainIdle, IdleKeeps, MainCounts DEF Results
<1>2. CASE \E t \in Threads : Thread(t)
  <2>1. PICK t \in Threads : Thread(t)
    BY <1>2
  <2>2. OthersStay(t) /\ Moves(t)
    BY <1>r, <2>1, ThreadStays, ThreadMoves
  <2>3. WalkSoFar' /\ SitesSoFar' /\ InRange'
    BY <1>r, <2>1, <2>2, BuildThread, SitesThread, RangeThread
  <2>4. CountsSoFar' /\ FirstMatch'
    BY <1>r, <2>2, CountThread, FirstThread
  <2>5. MainSoFar' /\ LinesSoFar'
    BY <1>r, <2>1, <2>2, MainThread, LinesThread
  <2>6. QED BY <2>3, <2>4, <2>5 DEF Results
<1>3. CASE UNCHANGED vars
  <2>1. UNCHANGED <<input, optionExport, mpc, k, nSgraphP, isoTotal, files, tpc, j, i,
                    nSgraphPLocal, isoLocal, track, p, c>>
    BY <1>3 DEF vars, optVars, mainVars, searchVars, walkVars
  <2>2. Idle
    BY <2>1 DEF Idle
  <2>3. MainSoFar'
    <3>1. /\ RootsWithSite' = RootsWithSite /\ Matching' = Matching
          /\ Answers' = Answers /\ borneThread(k)' = borneThread(k)
      BY <2>1, PatternFrame DEF borneThread
    <3>2. QED BY <1>r, <2>1, <3>1 DEF MainSoFar, Between
  <2>4. QED BY <1>r, <2>2, <2>3, IdleKeeps DEF Results
<1>4. QED BY <1>1, <1>2, <1>3 DEF Next, Finished

\* What the invariants say when main is over.
LEMMA AllExported ==
    ASSUME Inv, Results, mpc = "end"
    PROVE  Exported = Matching
<1>1. \A t \in Threads : tpc[t] = "exited"
  BY DEF Results, MainSoFar
<1>2. input \in Inputs
  BY DEF Inv, TypeOK
<1>3. ASSUME NEW r \in Matching PROVE r \in Exported
  <2>1. r \in Nodes
    BY <1>2, RootSets
  <2>2. PICK t \in Threads : borneThread(t) < r /\ r <= borneThread(t + 1)
    BY <1>2, <2>1, RangesCover
  <2>3. Started(t) /\ Past(t, {"post"}) = borneThread(t + 1)
    BY <1>1 DEF Results, InRange, RangeOf, Started, Past
  <2>4. r \in HandledBy(Matching, t, {"post"})
    BY <2>2, <2>3 DEF HandledBy, Between
  <2>5. QED BY <2>4 DEF Exported
<1>4. QED BY <1>2, <1>3, ExportedIsFinite

LEMMA ResultsHold == Inv /\ Results => ResultsExact
<1> SUFFICES ASSUME Inv, Results PROVE ResultsExact
  OBVIOUS
<1>1. WalksAreRight
  BY WalkFinds DEF WalksAreRight, Results, SitesSoFar
<1>2. TotalsExact
  <2>1. Answers = [r \in Nodes |-> FirstAnswer(r)]
    BY DEF Answers
  <2>2. FoldFunctionOnSet(+, 0, Answers, Matching) = SumOver(Answers, Matching)
    BY SumIsFold
  <2>3. QED BY <2>1, <2>2 DEF TotalsExact, Results, MainSoFar
<1>3. ExportsExact
  <2>1. SUFFICES ASSUME mpc = "end"
                 PROVE  IF optionExport
                        THEN /\ Len(files.eT) = Cardinality(Matching)
                             /\ {<<files.enP[n], files.enT[n]>> : n \in DOMAIN files.enP}
                                  = {<<SiteQueue(gr, r), Min(Matches(r))>> : r \in Matching}
                        ELSE files.eT = <<>>
    BY DEF ExportsExact
  <2>2. Exported = Matching
    BY <2>1, AllExported
  <2>3. Len(files.eT) = Len(files.enP)
    <3>1. \A t \in Threads : tpc[t] \notin Writing
      BY <2>1 DEF Results, MainSoFar, Writing
    <3>2. QED BY <3>1, FilesParts DEF Inv, Files
  <2>4. QED BY <2>2, <2>3 DEF Results, LinesSoFar, LineAt, LineOf
<1>4. QED BY <1>1, <1>2, <1>3 DEF ResultsExact

(***************************************************************************)
(* Whatever the number of threads, their order, and the graph: each walk   *)
(* of BFS_gba gives the site that one thread alone would build; the totals *)
(* main adds up are those over all the roots, although each thread counts  *)
(* its own range only; and the files hold one line for each root that      *)
(* matches, with its first match (processSubGraphs, and main in            *)
(* graphBinAlgo.c).                                                        *)
(***************************************************************************)
THEOREM ResultsCorrect == Spec => []ResultsExact
<1>1. Init => Results
  BY InitResults
<1>2. Inv /\ Results /\ [Next]_vars => Results'
  BY NextResults
<1>3. Inv /\ Results => ResultsExact
  BY ResultsHold
<1>4. QED BY <1>1, <1>2, <1>3, Invariance, PTL DEF Spec
=============================================================================
