---------------------------- MODULE SIDT_proofs ----------------------------
(***************************************************************************)
(* Proofs about SIDT, for every set of graphs, of lists, of limits and of  *)
(* functions: the counters, what a run learns, to whom a site belongs, and *)
(* what a scan gives.                                                      *)
(*                                                                         *)
(* The inductive invariant says what each property means half way: which   *)
(* lines of the list and which roots of the graph in memory have been      *)
(* dealt with (LearntSoFar, OwnersSoFar, ScannedSoFar), and that the last  *)
(* program is the one being learnt (Placed).                               *)
(***************************************************************************)
EXTENDS SIDT, DataLemmas

-----------------------------------------------------------------------------
(***************************************************************************)
(* The index by itself, whatever the keys: nothing below expands AllKeys.  *)
(* The three invariants are inductive together: a new number is nSites+1,  *)
(* out of the range that TypeOK gives to the numbers in use.               *)
(***************************************************************************)
IndexHolds == Index!TypeOK /\ Index!NumbersAreSites /\ Index!EverySiteOwned

USE DEF Index!Learnt, Index!Prog, Index!IsNew, Index!NewNumber, Index!FirstOwner, Index!WithOwner

LEMMA IndexInit == Index!Init => IndexHolds
BY DEF Index!Init, IndexHolds, Index!TypeOK, Index!NumbersAreSites, Index!EverySiteOwned

LEMMA IndexNew ==
    ASSUME IndexHolds, NEW k \in AllKeys, Index!LearnNew(k)
    PROVE  IndexHolds'
<1>1. /\ nSites \in Nat /\ nSites' = nSites + 1 /\ nProgs' = nProgs /\ nProgs \in Nat
      /\ nProgs > 0 /\ k \notin DOMAIN number /\ DOMAIN number \subseteq AllKeys
  BY DEF IndexHolds, Index!TypeOK, Index!LearnNew
<1>2. /\ DOMAIN number' = DOMAIN number \cup {k}
      /\ number'[k] = nSites + 1
      /\ \A j \in DOMAIN number : number'[j] = number[j] /\ number[j] \in 1..nSites
  BY <1>1 DEF IndexHolds, Index!TypeOK, Index!LearnNew
<1>3. /\ DOMAIN owners' = 1..(nSites + 1)
      /\ owners'[nSites + 1] = {nProgs}
      /\ \A i \in 1..nSites : owners'[i] = owners[i] /\ owners[i] \in SUBSET (1..nProgs)
  BY <1>1 DEF IndexHolds, Index!TypeOK, Index!LearnNew
<1>4. Index!TypeOK'
  <2>1. number' = [j \in DOMAIN number' |-> number'[j]]
    BY DEF Index!LearnNew
  <2>2. owners' = [i \in DOMAIN owners' |-> owners'[i]]
    BY DEF Index!LearnNew
  <2>3. \A j \in DOMAIN number' : number'[j] \in 1..nSites'
    BY <1>1, <1>2
  <2>4. \A i \in 1..nSites' : owners'[i] \in SUBSET (1..nProgs')
    BY <1>1, <1>3
  <2>5. number' \in [DOMAIN number' -> 1..nSites']
    BY <2>1, <2>3
  <2>6. owners' \in [1..nSites' -> SUBSET (1..nProgs')]
    BY <2>2, <2>4, <1>1, <1>3
  <2>7. QED BY <1>1, <1>2, <2>5, <2>6 DEF Index!TypeOK
<1>5. Index!NumbersAreSites'
  <2>1. ASSUME NEW i \in DOMAIN number', NEW j \in DOMAIN number', number'[i] = number'[j]
        PROVE  i = j
    <3>1. CASE i = k /\ j # k
      BY <1>1, <1>2, <2>1, <3>1
    <3>2. CASE i # k /\ j = k
      BY <1>1, <1>2, <2>1, <3>2
    <3>3. CASE i # k /\ j # k
      BY <1>2, <2>1, <3>3 DEF IndexHolds, Index!NumbersAreSites
    <3>4. QED BY <3>1, <3>2, <3>3
  <2>2. ASSUME NEW i \in 1..nSites' PROVE \E j \in DOMAIN number' : number'[j] = i
    <3>1. CASE i = nSites + 1
      BY <1>2, <3>1
    <3>2. CASE i \in 1..nSites
      <4>1. PICK j \in DOMAIN number : number[j] = i
        BY <3>2 DEF IndexHolds, Index!NumbersAreSites
      <4>2. QED BY <4>1, <1>2
    <3>3. QED BY <1>1, <3>1, <3>2
  <2>3. QED BY <2>1, <2>2 DEF Index!NumbersAreSites
<1>6. Index!EverySiteOwned'
  <2>1. ASSUME NEW i \in 1..nSites' PROVE owners'[i] # {}
    <3>1. CASE i = nSites + 1
      BY <1>3, <3>1
    <3>2. CASE i \in 1..nSites
      BY <1>3, <3>2 DEF IndexHolds, Index!EverySiteOwned
    <3>3. QED BY <1>1, <3>1, <3>2
  <2>2. QED BY <2>1 DEF Index!EverySiteOwned
<1>7. QED BY <1>4, <1>5, <1>6 DEF IndexHolds

LEMMA IndexKnown ==
    ASSUME IndexHolds, NEW k \in AllKeys, Index!LearnKnown(k)
    PROVE  IndexHolds'
<1>1. /\ nSites' = nSites /\ nProgs' = nProgs /\ number' = number
      /\ nSites \in Nat /\ nProgs \in 1..nProgs /\ number[k] \in 1..nSites
  BY DEF IndexHolds, Index!TypeOK, Index!LearnKnown
<1>2. /\ DOMAIN owners' = 1..nSites
      /\ owners' = [i \in 1..nSites |-> IF i = number[k] THEN owners[i] \cup {nProgs}
                                                         ELSE owners[i]]
  BY <1>1 DEF IndexHolds, Index!TypeOK, Index!LearnKnown
<1>3. Index!TypeOK'
  BY <1>1, <1>2 DEF IndexHolds, Index!TypeOK
<1>4. Index!NumbersAreSites'
  BY <1>1 DEF IndexHolds, Index!NumbersAreSites
<1>5. Index!EverySiteOwned'
  BY <1>1, <1>2 DEF IndexHolds, Index!EverySiteOwned
<1>6. QED BY <1>3, <1>4, <1>5 DEF IndexHolds

LEMMA IndexAddProg ==
    ASSUME IndexHolds, Index!AddProg
    PROVE  IndexHolds'
<1>1. /\ nProgs' = nProgs + 1 /\ nProgs' \in Nat /\ nProgs \in Nat
      /\ number' = number /\ owners' = owners /\ nSites' = nSites
  BY DEF IndexHolds, Index!TypeOK, Index!AddProg
<1>2. 1..nProgs \subseteq 1..nProgs'
  BY <1>1
<1>3. Index!TypeOK'
  BY <1>1, <1>2 DEF IndexHolds, Index!TypeOK
<1>4. Index!NumbersAreSites' /\ Index!EverySiteOwned'
  BY <1>1 DEF IndexHolds, Index!NumbersAreSites, Index!EverySiteOwned
<1>5. QED BY <1>3, <1>4 DEF IndexHolds

LEMMA IndexSame ==
    ASSUME IndexHolds, UNCHANGED <<number, owners, nSites, nProgs>>
    PROVE  IndexHolds'
BY DEF IndexHolds, Index!TypeOK, Index!NumbersAreSites, Index!EverySiteOwned

LEMMA IndexNext == IndexHolds /\ [Index!Next]_(Index!ivars) => IndexHolds'
<1> SUFFICES ASSUME IndexHolds, [Index!Next]_(Index!ivars) PROVE IndexHolds'
  OBVIOUS
<1>1. CASE Index!AddProg
  BY <1>1, IndexAddProg
<1>2. ASSUME NEW k \in AllKeys, Index!Learn(k) PROVE IndexHolds'
  BY <1>2, IndexNew, IndexKnown DEF Index!Learn
<1>3. ASSUME NEW k \in AllKeys, Index!Look(k) PROVE IndexHolds'
  BY <1>3, IndexSame DEF Index!Look
<1>4. CASE UNCHANGED Index!ivars
  BY <1>4, IndexSame DEF Index!ivars
<1>5. QED BY <1>1, <1>2, <1>3, <1>4 DEF Index!Next

(***************************************************************************)
(* The index is well typed, numbers are sites and every site has a         *)
(* program, whatever the keys and after any sequence of calls.             *)
(***************************************************************************)
THEOREM IndexInvariance == Index!Spec => []IndexHolds
<1>1. QED BY IndexInit, IndexNext, PTL DEF Index!Spec

(***************************************************************************)
(* For any keys, the numbers in use are 1..nSites and each names one site. *)
(***************************************************************************)
THEOREM IndexNumbers == Index!Spec => []Index!NumbersAreSites
<1>1. IndexHolds => Index!NumbersAreSites
  BY DEF IndexHolds
<1>2. QED BY <1>1, IndexInvariance, PTL

(***************************************************************************)
(* For any keys, each site has a program it was learnt from.               *)
(***************************************************************************)
THEOREM IndexOwners == Index!Spec => []Index!EverySiteOwned
<1>1. IndexHolds => Index!EverySiteOwned
  BY DEF IndexHolds
<1>2. QED BY <1>1, IndexInvariance, PTL

(***************************************************************************)
(* For any keys, no step of the index forgets a site, renumbers it or      *)
(* takes a program from it.                                                *)
(***************************************************************************)
Grows == /\ Index!Learnt \subseteq Index!Learnt'
         /\ \A k \in Index!Learnt : number'[k] = number[k]
         /\ \A i \in 1..nSites : owners[i] \subseteq owners'[i]

THEOREM IndexOnlyGrows == Index!Spec => Index!OnlyGrows
<1>1. IndexHolds /\ [Index!Next]_(Index!ivars) => [Grows]_(Index!ivars)
  <2> SUFFICES ASSUME IndexHolds, [Index!Next]_(Index!ivars) PROVE Grows \/ UNCHANGED Index!ivars
    OBVIOUS
  <2>1. CASE Index!AddProg
    BY <2>1 DEF Index!AddProg, Grows
  <2>2. ASSUME NEW k \in AllKeys, Index!LearnNew(k) PROVE Grows
    <3>1. \A i \in 1..nSites : i \in 1..nSites' /\ i # nSites'
      BY <2>2 DEF IndexHolds, Index!TypeOK, Index!LearnNew
    <3>2. QED BY <2>2, <3>1 DEF Index!LearnNew, Grows
  <2>3. ASSUME NEW k \in AllKeys, Index!LearnKnown(k) PROVE Grows
    BY <2>3 DEF IndexHolds, Index!TypeOK, Index!LearnKnown, Grows
  <2>4. ASSUME NEW k \in AllKeys, Index!Look(k) PROVE Grows
    BY <2>4 DEF Index!Look, Grows
  <2>5. QED BY <2>1, <2>2, <2>3, <2>4 DEF Index!Next, Index!Learn
<1>2. QED BY <1>1, IndexInvariance, PTL DEF Index!Spec, Index!OnlyGrows, Grows

HIDE DEF Index!Learnt, Index!Prog, Index!IsNew, Index!NewNumber, Index!FirstOwner, Index!WithOwner
-----------------------------------------------------------------------------
(***************************************************************************)
(* The inductive invariant of the program.                                 *)
(***************************************************************************)

Options ==
    /\ withLabels \in BOOLEAN /\ siteCountLimit \in Limits
    /\ toLearn \in Lists /\ toScan \in Lists

\* The program being learnt is the last one, and it is not counted yet.
Placed ==
    /\ nProgs = Len(progs)
    /\ pc = "learn graph" =>
         /\ nProgs > 0 /\ progs[nProgs] = [message |-> gr, nSites |-> 0]
         /\ line <= Len(toLearn.paths) /\ Readable(toLearn, line)
         /\ gr = toLearn.paths[line]
    /\ pc = "learn list" => line <= Len(toLearn.paths) + 1
    /\ pc = "scan list" => line <= Len(toScan.paths) + 1
    /\ pc = "scan graph" => line <= Len(toScan.paths)

KeysOf(f) == Range(Keys[f])
KeysBefore(f, a) == {Keys[f][m] : m \in {l \in DOMAIN Keys[f] : l < a}}

\* As long as the limit is not reached, the lines that were read and the roots
\* that were passed have all their sites in the index.
LinesLearnt ==
    \A j \in 1..(line - 1) :
        Readable(toLearn, j) => KeysOf(toLearn.paths[j]) \subseteq Learnt

LearntSoFar ==
    /\ IsFiniteSet(Learnt) /\ nSites = Cardinality(Learnt)
    /\ Learnt \subseteq Wanted
    /\ siteCountLimit # 0 => nSites <= siteCountLimit
    /\ BelowLimit /\ Learning => LinesLearnt
    /\ BelowLimit /\ pc = "learn graph" => KeysBefore(gr, node) \subseteq Learnt
    /\ BelowLimit /\ ~Learning => Wanted \subseteq Learnt

\* The keys a program has shown so far.
Shown(p) == IF pc = "learn graph" /\ p = nProgs
            THEN KeysBefore(gr, node) ELSE KeysOf(progs[p].message)

OwnersSoFar ==
    siteCountLimit = 0 =>
        \A p \in 1..nProgs :
            /\ Shown(p) \subseteq Learnt
            /\ \A k \in Learnt : p \in owners[number[k]] <=> k \in Shown(p)

FoundSoFar == {number[k] : k \in KeysBefore(gr, node) \cap Learnt}

\* The first roots of learnt sites among those passed.
RootsBefore(f, a) == {m \in FirstRoots(f) : m < a}

HitsSoFar(k) == SumOver(Hits(gr, k), RootsBefore(gr, node))

ScannedSoFar ==
    /\ Learning => results = <<>>
    /\ pc = "scan graph" => /\ found = FoundSoFar
                            /\ \A k \in Function : scanFuncs[k] = HitsSoFar(k)

Inv == /\ TypeOK /\ IndexHolds /\ Options /\ Placed /\ CountersAgree
       /\ LearntSoFar /\ OwnersSoFar /\ ScannedSoFar /\ ScanIsExact
-----------------------------------------------------------------------------
(***************************************************************************)
(* The graphs, their keys and the lists.                                   *)
(***************************************************************************)
LEMMA GraphFacts ==
    ASSUME NEW f \in DOMAIN GraphOf
    PROVE  /\ Len(GraphOf[f].children) \in Nat
           /\ NodesOf(GraphOf[f]) = 1..Len(GraphOf[f].children)
BY SIDTAssumption DEF IsGraph, NodesOf

LEMMA KeyFacts ==
    ASSUME withLabels \in BOOLEAN, NEW f \in DOMAIN GraphOf
    PROVE  /\ DOMAIN Keys[f] \subseteq 1..Len(GraphOf[f].children)
           /\ Keys[f] = [m \in DOMAIN Keys[f] |-> Keys[f][m]]
           /\ \A m \in DOMAIN Keys[f] : Keys[f][m] \in AllKeys /\ m \in Nat
           /\ IsFiniteSet(DOMAIN Keys[f]) /\ IsFiniteSet(KeysOf(f))
           /\ KeysOf(f) = {Keys[f][m] : m \in DOMAIN Keys[f]}
<1>1. /\ DOMAIN Keys[f] \subseteq 1..Len(GraphOf[f].children)
      /\ Keys[f] = [m \in DOMAIN Keys[f] |-> Keys[f][m]]
  BY GraphFacts DEF Keys, KeyAt
<1>2. Keys[f] = KeyAt[withLabels][f]
  BY DEF Keys
<1>3. KeysOf(f) = {Keys[f][m] : m \in DOMAIN Keys[f]}
  BY DEF KeysOf, Range
<1>4. KeysOf(f) \subseteq AllKeys
  BY <1>2 DEF AllKeys, KeysOf
<1>5. IsFiniteSet(DOMAIN Keys[f])
  <2>1. Len(GraphOf[f].children) \in Int /\ 1 \in Int
    BY GraphFacts
  <2>2. IsFiniteSet(1..Len(GraphOf[f].children))
    BY <2>1, FS_Interval
  <2>3. QED BY <1>1, <2>2, FS_Subset
<1>6. IsFiniteSet(KeysOf(f))
  <2> DEFINE D == DOMAIN Keys[f]
             R == KeysOf(f)
             F == Keys[f]
  <2>1. F \in Surjection(D, R) /\ IsFiniteSet(D)
    BY <1>1, <1>3, <1>5 DEF Surjection
  <2> HIDE DEF D, R, F
  <2>2. IsFiniteSet(R)
    BY <2>1, FS_Surjection
  <2>3. QED BY <2>2 DEF R
<1>7. \A m \in DOMAIN Keys[f] : m \in Nat
  BY <1>1, GraphFacts
<1>8. \A m \in DOMAIN Keys[f] : Keys[f][m] \in AllKeys
  BY <1>3, <1>4
<1>9. QED BY <1>1, <1>3, <1>5, <1>6, <1>7, <1>8

LEMMA ListFacts ==
    ASSUME NEW l \in Lists
    PROVE  /\ l.paths \in Seq(Files) /\ Len(l.paths) \in Nat /\ Len(l.paths) <= MaxProgs
           /\ DOMAIN l.paths = 1..Len(l.paths) /\ MaxProgs \in Nat
BY SIDTAssumption

\* Each list is finite, and so are the keys it asks for.
LEMMA WantedFinite ==
    ASSUME Options
    PROVE  IsFiniteSet(Wanted)
<1> DEFINE K == {j \in DOMAIN toLearn.paths : Readable(toLearn, j)}
           F == [k \in K |-> Range(Keys[toLearn.paths[k]])]
           T == {Range(Keys[toLearn.paths[k]]) : k \in K}
<1>1. IsFiniteSet(K)
  <2>1. DOMAIN toLearn.paths = 1..Len(toLearn.paths) /\ Len(toLearn.paths) \in Int
    BY ListFacts DEF Options
  <2>2. IsFiniteSet(1..Len(toLearn.paths))
    BY <2>1, FS_Interval
  <2>3. QED BY <2>1, <2>2, FS_Subset
<1>2. F \in Surjection(K, T)
  BY DEF Surjection
<1>3. IsFiniteSet(T)
  <2> HIDE DEF F, T, K
  <2>1. QED BY <1>1, <1>2, FS_Surjection
<1>4. \A S \in T : IsFiniteSet(S)
  BY KeyFacts DEF Options, KeysOf, Readable
<1>5. Wanted = UNION T
  BY DEF Wanted
<1> HIDE DEF T
<1>6. QED BY <1>3, <1>4, <1>5, FS_UNION

-----------------------------------------------------------------------------
(***************************************************************************)
(* What a step does to the index.                                          *)
(***************************************************************************)
TheKey == Keys[gr][node]

StoresNew(k) ==
    /\ k \in AllKeys /\ k \notin Learnt
    /\ nSites' = nSites + 1 /\ n' = n + 1 /\ nLearntSites' = nLearntSites + 1
    /\ DOMAIN number' = Learnt \cup {k} /\ number'[k] = nSites + 1
    /\ \A j \in Learnt : number'[j] = number[j]
    /\ owners'[nSites + 1] = {nProgs}
    /\ \A i \in 1..nSites : owners'[i] = owners[i]

FindsOld(k) ==
    /\ k \in Learnt
    /\ UNCHANGED <<nSites, number, n, nLearntSites>>
    /\ owners' = [owners EXCEPT ![number[k]] = owners[number[k]] \cup {nProgs}]

LEMMA IndexFacts ==
    ASSUME IndexHolds
    PROVE  /\ nSites \in Nat /\ nProgs \in Nat
           /\ Learnt = DOMAIN number /\ Learnt \subseteq AllKeys
           /\ \A k \in Learnt : number[k] \in 1..nSites
           /\ DOMAIN owners = 1..nSites
           /\ \A i \in 1..nSites : owners[i] \subseteq 1..nProgs
           /\ \A j, k \in Learnt : number[j] = number[k] => j = k
           /\ \A i \in 1..nSites : \E k \in Learnt : number[k] = i
           /\ Index!TypeOK
BY DEF IndexHolds, Index!NumbersAreSites, Index!TypeOK, Index!Learnt, Index!Prog, Learnt

LEMMA LearnSiteCases ==
    ASSUME IndexHolds, Options, gr \in DOMAIN GraphOf, LearnSite
    PROVE  /\ nProgs' = nProgs /\ TheKey \in KeysOf(gr) /\ IndexHolds'
           /\ StoresNew(TheKey) \/ FindsOld(TheKey)
<1> DEFINE k == Keys[gr][node]
<1>1. k \in AllKeys /\ k \in KeysOf(gr)
  BY KeyFacts DEF LearnSite, Learns, HasNGraph, Options
<1>2. Index!LearnNew(k) \/ Index!LearnKnown(k)
  BY DEF LearnSite, Index!Learn
<1>3. CASE Index!LearnNew(k)
  <2> HIDE DEF k
  <2>1. IndexHolds'
    BY <1>1, <1>3, IndexNew
  <2>2. answer'.i = 0 /\ nProgs' = nProgs
    BY <1>3 DEF Index!LearnNew, Index!Answer
  <2>3. n' = n + 1 /\ nLearntSites' = nLearntSites + 1
    BY <2>2 DEF LearnSite, AnswersNew
  <2>4. /\ DOMAIN number' = Learnt \cup {k} /\ number'[k] = nSites + 1 /\ k \notin Learnt
        /\ \A j \in Learnt : number'[j] = number[j]
    BY <1>3 DEF Index!LearnNew, Index!IsNew, Index!Learnt, Index!NewNumber, Learnt
  <2>5. /\ nSites' = nSites + 1
        /\ owners'[nSites + 1] = {nProgs}
        /\ \A i \in 1..nSites : owners'[i] = owners[i]
    BY <1>3, IndexFacts DEF Index!LearnNew, Index!FirstOwner
  <2>6. StoresNew(k)
    BY <1>1, <2>3, <2>4, <2>5 DEF StoresNew
  <2>7. QED BY <1>1, <2>1, <2>2, <2>6 DEF TheKey, k
<1>4. CASE Index!LearnKnown(k)
  <2> HIDE DEF k
  <2>1. IndexHolds'
    BY <1>1, <1>4, IndexKnown
  <2>2. /\ answer'.i = number[k] /\ nProgs' = nProgs /\ k \in Learnt
        /\ UNCHANGED <<nSites, number>>
        /\ owners' = [owners EXCEPT ![number[k]] = owners[number[k]] \cup {nProgs}]
    BY <1>4 DEF Index!LearnKnown, Index!Answer, Index!Learnt, Index!WithOwner, Learnt
  <2>3. number[k] # 0
    BY <2>2, IndexFacts
  <2>4. UNCHANGED <<n, nLearntSites>>
    BY <2>2, <2>3 DEF LearnSite, AnswersNew
  <2>5. QED BY <1>1, <2>1, <2>2, <2>4 DEF FindsOld, TheKey, k
<1>5. QED BY <1>2, <1>3, <1>4

LEMMA IndexStep ==
    ASSUME TypeOK, IndexHolds, Options, [Next]_vars
    PROVE  IndexHolds'
<1>1. CASE LearnSite
  BY <1>1, LearnSiteCases DEF TypeOK
<1>2. CASE StartLearn
  <2>1. Index!AddProg
    BY <1>2 DEF StartLearn
  <2>2. QED BY <2>1, IndexAddProg
<1>3. CASE UNCHANGED index
  BY <1>3, IndexSame DEF index
<1>4. QED
  BY <1>1, <1>2, <1>3 DEF Next, vars, SkipLearn, PassNode, EndLearnGraph, StartScanning,
     SkipScan, StartScan, FindSite, EndFindGraph, End, Ended
-----------------------------------------------------------------------------
(***************************************************************************)
(* Types, options and the place of the run in its lists.                   *)
(***************************************************************************)
LEMMA OptionsStep ==
    ASSUME [Next]_vars
    PROVE  /\ UNCHANGED options
           /\ Keys' = Keys /\ Wanted' = Wanted
           /\ \A k : Readable(toLearn, k)' = Readable(toLearn, k)
<1>1. UNCHANGED options
  BY DEF Next, vars, SkipLearn, StartLearn, LearnSite, PassNode, EndLearnGraph,
     StartScanning, SkipScan, StartScan, FindSite, EndFindGraph, End, Ended
<1>2. QED BY <1>1 DEF options, Keys, Wanted, Readable

LEMMA ReadsGraph ==
    ASSUME Options, NEW l \in Lists, NEW k, Readable(l, k)
    PROVE  l.paths[k] \in DOMAIN GraphOf
BY DEF Readable

LEMMA RunTypes ==
    ASSUME TypeOK
    PROVE  /\ line \in Nat /\ line >= 1 /\ node \in Nat /\ node >= 1
           /\ gr \in DOMAIN GraphOf /\ n \in Nat /\ nLearntSites \in Nat
           /\ Len(GraphOf[gr].children) \in Nat
           /\ found \subseteq 1..nSites /\ scanFuncs \in [Function -> Nat]
           /\ progs \in Seq([message : DOMAIN GraphOf, nSites : Nat])
           /\ results \in Seq([path : DOMAIN GraphOf, sites : Nat, funcs : [Function -> Nat]])
<1>1. /\ gr \in DOMAIN GraphOf /\ n \in Nat /\ nLearntSites \in Nat
      /\ node \in 1..(Len(GraphOf[gr].children) + 1) /\ line \in 1..(MaxProgs + 1)
      /\ found \subseteq 1..nSites /\ scanFuncs \in [Function -> Nat]
      /\ progs \in Seq([message : DOMAIN GraphOf, nSites : Nat])
      /\ results \in Seq([path : DOMAIN GraphOf, sites : Nat, funcs : [Function -> Nat]])
  BY DEF TypeOK
<1>2. Len(GraphOf[gr].children) \in Nat /\ MaxProgs \in Nat
  BY <1>1, GraphFacts, SIDTAssumption
<1>3. line \in Nat /\ line >= 1 /\ node \in Nat /\ node >= 1
  BY <1>1, <1>2
<1>4. QED BY <1>1, <1>2, <1>3

\* EndLearnGraph writes the count of the last program.
LEMMA EndsProgram ==
    ASSUME TypeOK, IndexHolds, Placed, EndLearnGraph
    PROVE  /\ nProgs \in 1..Len(progs) /\ nProgs = Len(progs)
           /\ progs[nProgs] = [message |-> gr, nSites |-> 0]
           /\ progs' = [progs EXCEPT ![nProgs] = [message |-> gr, nSites |-> n]]
           /\ Len(progs') = Len(progs)
           /\ progs' \in Seq([message : DOMAIN GraphOf, nSites : Nat])
<1> DEFINE P == [message : DOMAIN GraphOf, nSites : Nat]
           old == [message |-> gr, nSites |-> 0]
           new == [message |-> gr, nSites |-> n]
<1>1. /\ progs' = [progs EXCEPT ![nProgs].nSites = n] /\ nProgs = Len(progs)
      /\ nProgs > 0 /\ progs[nProgs] = old
  BY DEF EndLearnGraph, Placed
<1>2. progs \in Seq(P) /\ nProgs \in Nat /\ new \in P
  BY RunTypes, IndexFacts
<1>3. [old EXCEPT !.nSites = n] = new
  OBVIOUS
<1>4. progs' = [progs EXCEPT ![nProgs] = [old EXCEPT !.nSites = n]]
  <2> HIDE DEF old
  <2>1. QED BY <1>1
<1> HIDE DEF P, old, new
<1>5. progs' = [progs EXCEPT ![nProgs] = new]
  BY <1>3, <1>4
<1>6. nProgs \in 1..Len(progs)
  BY <1>1, <1>2
<1>7. progs' \in Seq(P) /\ Len(progs') = Len(progs)
  BY <1>2, <1>5, <1>6, ExceptSeq
<1>8. QED BY <1>1, <1>5, <1>6, <1>7 DEF P, old, new

LEMMA NextLine ==
    ASSUME NEW l \in Nat, l >= 1, NEW m \in Nat, m <= MaxProgs
    PROVE  /\ l <= m => l + 1 <= m + 1 /\ l + 1 \in 1..(MaxProgs + 1)
           /\ l <= m => l \in 1..m
           /\ 1 <= m + 1 /\ 1 \in 1..(MaxProgs + 1)
<1>1. MaxProgs \in Nat
  BY SIDTAssumption
<1>2. QED BY <1>1

Steps == /\ pc \in {"learn list", "learn graph", "scan list", "scan graph", "end"}
         /\ line \in 1..(MaxProgs + 1)

LEMMA PlacedStep ==
    ASSUME TypeOK, IndexHolds, Options, Placed, [Next]_vars
    PROVE  Placed' /\ Steps'
<1>1. /\ toLearn' = toLearn /\ toScan' = toScan
      /\ \A k : Readable(toLearn, k)' = Readable(toLearn, k)
  BY OptionsStep DEF options
<1>2. /\ Len(toLearn.paths) \in Nat /\ Len(toLearn.paths) <= MaxProgs
      /\ Len(toScan.paths) \in Nat /\ Len(toScan.paths) <= MaxProgs
      /\ MaxProgs \in Nat /\ line \in Nat /\ line >= 1 /\ nProgs \in Nat
  BY ListFacts, RunTypes, IndexFacts DEF Options
<1>0. Steps
  BY DEF TypeOK, Steps
<1>3. CASE SkipLearn
  <2>1. /\ pc = "learn list" /\ line <= Len(toLearn.paths) /\ line' = line + 1
        /\ UNCHANGED <<pc, nProgs, progs, gr>>
    BY <1>3 DEF SkipLearn, MoreToLearn, index
  <2>2. line' <= Len(toLearn.paths) + 1 /\ line' \in 1..(MaxProgs + 1)
    BY <1>2, <2>1, NextLine
  <2>3. QED BY <1>0, <1>1, <2>1, <2>2 DEF Placed, Steps
<1>4. CASE StartLearn
  <2>1. /\ pc = "learn list" /\ line <= Len(toLearn.paths) /\ Readable(toLearn, line)
        /\ pc' = "learn graph" /\ line' = line /\ gr' = toLearn.paths[line]
        /\ nProgs' = nProgs + 1 /\ nProgs = Len(progs)
        /\ progs' = Append(progs, [message |-> gr', nSites |-> 0])
    BY <1>4 DEF StartLearn, MoreToLearn, Index!AddProg, Placed
  <2>2. [message |-> gr', nSites |-> 0] \in [message : DOMAIN GraphOf, nSites : Nat]
    BY <2>1, ReadsGraph DEF Options
  <2>3. /\ Len(progs') = nProgs + 1 /\ nProgs + 1 > 0
        /\ progs'[nProgs + 1] = [message |-> gr', nSites |-> 0]
    <3> DEFINE P == [message : DOMAIN GraphOf, nSites : Nat]
               e == [message |-> gr', nSites |-> 0]
    <3>1. progs \in Seq(P) /\ e \in P /\ progs' = Append(progs, e) /\ nProgs = Len(progs)
      BY <2>1, <2>2, RunTypes
    <3> HIDE DEF P, e
    <3>2. Len(progs') = nProgs + 1 /\ progs'[nProgs + 1] = e
      BY <3>1, AppendProperties
    <3>3. nProgs + 1 > 0
      BY <1>2
    <3>4. QED BY <3>2, <3>3 DEF e
  <2>4. Steps'
    BY <1>0, <2>1 DEF Steps
  <2>5. QED BY <1>1, <2>1, <2>3, <2>4 DEF Placed
<1>5. CASE LearnSite
  <2>1. nProgs' = nProgs /\ UNCHANGED <<pc, line, gr, progs>> /\ pc = "learn graph"
    BY <1>5, LearnSiteCases, RunTypes DEF LearnSite
  <2>2. QED BY <1>0, <1>1, <1>2, <2>1 DEF Placed, Steps
<1>6. CASE PassNode
  BY <1>0, <1>1, <1>2, <1>6 DEF PassNode, Placed, Steps, index
<1>7. CASE EndLearnGraph
  <2>1. /\ pc = "learn graph" /\ pc' = "learn list" /\ line' = line + 1
        /\ nProgs' = nProgs /\ line <= Len(toLearn.paths) /\ Len(progs') = nProgs
    BY <1>7, EndsProgram DEF EndLearnGraph, index, Placed
  <2>2. line' <= Len(toLearn.paths) + 1 /\ line' \in 1..(MaxProgs + 1)
    BY <1>2, <2>1, NextLine
  <2>3. QED BY <1>0, <1>1, <2>1, <2>2 DEF Placed, Steps
<1>8. CASE StartScanning
  <2>1. /\ pc' = "scan list" /\ line' = 1 /\ UNCHANGED <<nProgs, progs, gr>>
    BY <1>8 DEF StartScanning, index
  <2>2. line' <= Len(toScan.paths) + 1 /\ line' \in 1..(MaxProgs + 1)
    BY <1>2, <2>1, NextLine
  <2>3. QED BY <1>1, <2>1, <2>2 DEF Placed, Steps
<1>9. CASE SkipScan
  <2>1. /\ pc = "scan list" /\ line <= Len(toScan.paths) /\ line' = line + 1
        /\ UNCHANGED <<pc, nProgs, progs, gr>>
    BY <1>9 DEF SkipScan, MoreToScan, index
  <2>2. line' <= Len(toScan.paths) + 1 /\ line' \in 1..(MaxProgs + 1)
    BY <1>2, <2>1, NextLine
  <2>3. QED BY <1>0, <1>1, <2>1, <2>2 DEF Placed, Steps
<1>10. CASE StartScan
  BY <1>0, <1>1, <1>2, <1>10 DEF StartScan, MoreToScan, Placed, Steps, index
<1>11. CASE FindSite
  BY <1>0, <1>1, <1>2, <1>11 DEF FindSite, Placed, Steps, index
<1>12. CASE EndFindGraph
  <2>1. /\ pc = "scan graph" /\ line <= Len(toScan.paths) /\ line' = line + 1
        /\ pc' = "scan list" /\ UNCHANGED <<nProgs, progs, gr>>
    BY <1>12 DEF EndFindGraph, index, Placed
  <2>2. line' <= Len(toScan.paths) + 1 /\ line' \in 1..(MaxProgs + 1)
    BY <1>2, <2>1, NextLine
  <2>3. QED BY <1>0, <1>1, <2>1, <2>2 DEF Placed, Steps
<1>13. CASE End
  BY <1>0, <1>1, <1>2, <1>13 DEF End, Placed, Steps, index
<1>14. CASE UNCHANGED vars
  <2>1. UNCHANGED <<nProgs, progs, pc, line, gr>>
    BY <1>14 DEF vars, index
  <2>2. QED BY <1>0, <1>1, <2>1 DEF Placed, Steps
<1>15. QED
  BY <1>3, <1>4, <1>5, <1>6, <1>7, <1>8, <1>9, <1>10, <1>11, <1>12, <1>13, <1>14
  DEF Next, Ended

LEMMA HitCount ==
    ASSUME NEW q, NEW k
    PROVE  Cardinality({r \in 2..siteSize : FuncAt(q[r], k)}) \in Nat
<1> DEFINE H == {r \in 2..siteSize : FuncAt(q[r], k)}
<1>1. 2 \in Int /\ siteSize \in Int
  BY SiteAssumption
<1>2. IsFiniteSet(2..siteSize)
  BY <1>1, FS_Interval
<1>3. H \in SUBSET (2..siteSize)
  OBVIOUS
<1> HIDE DEF H
<1>4. Cardinality(H) \in Nat
  BY <1>2, <1>3, FS_Subset, FS_CardinalityType
<1>5. QED BY <1>4 DEF H

LEMMA HitTypes ==
    ASSUME scanFuncs \in [Function -> Nat], NEW q
    PROVE  CountFunctions(q) \in [Function -> Nat]
<1> DEFINE hits(k) == Cardinality({r \in 2..siteSize : FuncAt(q[r], k)})
<1>1. ASSUME NEW k \in Function PROVE hits(k) \in Nat
  BY HitCount
<1>2. CountFunctions(q) = [k \in Function |-> scanFuncs[k] + hits(k)]
  BY DEF CountFunctions
<1> HIDE DEF hits
<1>3. QED BY <1>1, <1>2

Rest == /\ gr \in DOMAIN GraphOf /\ node \in 1..(Len(GraphOf[gr].children) + 1)
        /\ n \in Nat /\ nLearntSites \in Nat
        /\ progs \in Seq([message : DOMAIN GraphOf, nSites : Nat])
        /\ found \subseteq 1..nSites
        /\ scanFuncs \in [Function -> Nat]
        /\ results \in Seq([path : DOMAIN GraphOf, sites : Nat, funcs : [Function -> Nat]])

LEMMA RestStep ==
    ASSUME TypeOK, IndexHolds, Options, Placed, [Next]_vars
    PROVE  Rest'
<1>1. nSites \in Nat /\ \A k \in Learnt : number[k] \in 1..nSites
  BY IndexFacts
<1>2. Rest
  BY DEF TypeOK, Rest
<1>3. CASE UNCHANGED <<gr, node, n, nLearntSites, progs, found, scanFuncs, results, nSites>>
  BY <1>2, <1>3 DEF Rest
<1>4. CASE StartLearn
  <2>1. /\ gr' \in DOMAIN GraphOf /\ node' = 1 /\ n' = 0
        /\ UNCHANGED <<nLearntSites, found, scanFuncs, results, nSites>>
        /\ progs' = Append(progs, [message |-> gr', nSites |-> 0])
    BY <1>4, ReadsGraph DEF StartLearn, Options, Index!AddProg
  <2>2. [message |-> gr', nSites |-> 0] \in [message : DOMAIN GraphOf, nSites : Nat]
    BY <2>1
  <2>3. progs' \in Seq([message : DOMAIN GraphOf, nSites : Nat])
    BY <2>1, <2>2, RunTypes, AppendProperties
  <2>4. Len(GraphOf[gr'].children) \in Nat
    BY <2>1, GraphFacts
  <2>5. node' \in 1..(Len(GraphOf[gr'].children) + 1)
    BY <2>1, <2>4
  <2>6. QED BY <1>2, <2>1, <2>3, <2>5 DEF Rest
<1>5. CASE LearnSite
  <2>1. StoresNew(TheKey) \/ FindsOld(TheKey)
    BY <1>5, LearnSiteCases, RunTypes
  <2>2. /\ node <= Len(GraphOf[gr].children) /\ node' = node + 1
        /\ UNCHANGED <<gr, progs, found, scanFuncs, results>>
    BY <1>5 DEF LearnSite, InGraph
  <2>3. node' \in 1..(Len(GraphOf[gr].children) + 1)
    BY <2>2, RunTypes
  <2>4. n' \in Nat /\ nLearntSites' \in Nat /\ nSites <= nSites' /\ nSites' \in Nat
    BY <2>1, <1>1, RunTypes DEF StoresNew, FindsOld
  <2>5. found' \subseteq 1..nSites'
    BY <2>2, <2>4, <1>1, RunTypes
  <2>6. QED BY <1>2, <2>2, <2>3, <2>4, <2>5 DEF Rest
<1>6. CASE PassNode
  <2>1. /\ node <= Len(GraphOf[gr].children) /\ node' = node + 1
        /\ UNCHANGED <<gr, n, nLearntSites, progs, found, scanFuncs, results, nSites>>
    BY <1>6 DEF PassNode, InGraph, index
  <2>2. node' \in 1..(Len(GraphOf[gr].children) + 1)
    BY <2>1, RunTypes
  <2>3. QED BY <1>2, <2>1, <2>2 DEF Rest
<1>7. CASE EndLearnGraph
  <2>1. UNCHANGED <<gr, node, n, nLearntSites, found, scanFuncs, results, nSites>>
    BY <1>7 DEF EndLearnGraph, index
  <2>2. progs' \in Seq([message : DOMAIN GraphOf, nSites : Nat])
    BY <1>7, EndsProgram
  <2>3. QED BY <1>2, <2>1, <2>2 DEF Rest
<1>8. CASE StartScan
  <2>1. /\ gr' \in DOMAIN GraphOf /\ node' = 1 /\ found' = {} /\ scanFuncs' = noHits
        /\ UNCHANGED <<n, nLearntSites, progs, results, nSites>>
    BY <1>8, ReadsGraph DEF StartScan, Options, index
  <2>2. Len(GraphOf[gr'].children) \in Nat
    BY <2>1, GraphFacts
  <2>3. node' \in 1..(Len(GraphOf[gr'].children) + 1) /\ noHits \in [Function -> Nat]
    BY <2>1, <2>2 DEF noHits
  <2>4. QED BY <1>2, <2>1, <2>3 DEF Rest
<1>9. CASE FindSite
  <2>1. /\ node <= Len(GraphOf[gr].children) /\ node' = node + 1
        /\ UNCHANGED <<gr, n, nLearntSites, progs, results, nSites>>
    BY <1>9 DEF FindSite, InGraph, index
  <2>2. node' \in 1..(Len(GraphOf[gr].children) + 1)
    BY <2>1, RunTypes
  <2>3. found' \subseteq 1..nSites
    BY <1>9, <1>1, RunTypes DEF FindSite, Record, Index!Find, Index!Learnt, Learnt
  <2>4. scanFuncs' \in [Function -> Nat]
    BY <1>9, HitTypes, RunTypes DEF FindSite
  <2>5. QED BY <1>2, <2>1, <2>2, <2>3, <2>4 DEF Rest
<1>10. CASE EndFindGraph
  <2> DEFINE r == [path |-> gr, sites |-> Cardinality(found), funcs |-> scanFuncs]
             R == [path : DOMAIN GraphOf, sites : Nat, funcs : [Function -> Nat]]
  <2>1. UNCHANGED <<gr, node, n, nLearntSites, progs, found, scanFuncs, nSites>>
        /\ results' = Append(results, r)
    BY <1>10 DEF EndFindGraph, index
  <2>2. Cardinality(found) \in Nat
    <3>1. IsFiniteSet(1..nSites)
      BY <1>1, FS_Interval
    <3>2. QED BY <3>1, RunTypes, FS_Subset, FS_CardinalityType
  <2>3. r \in R /\ results \in Seq(R)
    BY <2>2, RunTypes
  <2> HIDE DEF r, R
  <2>4. results' \in Seq(R)
    BY <2>1, <2>3, AppendProperties
  <2>5. QED BY <1>2, <2>1, <2>4 DEF Rest, R
<1>11. QED
  BY <1>3, <1>4, <1>5, <1>6, <1>7, <1>8, <1>9, <1>10
  DEF Next, vars, index, SkipLearn, StartScanning, SkipScan, End, Ended

LEMMA TypeStep ==
    ASSUME TypeOK, IndexHolds, Options, Placed, [Next]_vars
    PROVE  TypeOK'
<1>1. Index!TypeOK'
  BY IndexStep DEF IndexHolds
<1>2. Steps' /\ Rest'
  BY PlacedStep, RestStep
<1>3. QED BY <1>1, <1>2 DEF TypeOK, Steps, Rest
-----------------------------------------------------------------------------
(***************************************************************************)
(* The counters.  A program enters the sum with 0 and gets its count when  *)
(* its graph ends; meanwhile n stands for it.                              *)
(***************************************************************************)
Counts == [p \in DOMAIN progs |-> progs[p].nSites]
Counted == SumOver(Counts, DOMAIN progs)
InHand == IF pc = "learn graph" THEN n ELSE 0

SumsAgree == nLearntSites = nSites /\ nSites = Counted + InHand

LEMMA CountersSum == CountersAgree <=> SumsAgree
BY DEF CountersAgree, SumsAgree, Counted, Counts, SumOver, InHand

LEMMA CountersSumNext == CountersAgree' <=> SumsAgree'
BY CountersSum, PTL

LEMMA CountFacts ==
    ASSUME TypeOK
    PROVE  /\ DOMAIN progs = 1..Len(progs) /\ Len(progs) \in Nat
           /\ Summable(Counts, DOMAIN progs) /\ Counted \in Nat
           /\ \A p \in DOMAIN progs : Counts[p] = progs[p].nSites
<1>1. progs \in Seq([message : DOMAIN GraphOf, nSites : Nat])
  BY RunTypes
<1>2. /\ DOMAIN progs = 1..Len(progs) /\ Len(progs) \in Nat
      /\ \A p \in DOMAIN progs : Counts[p] = progs[p].nSites /\ Counts[p] \in Nat
  <2>1. /\ DOMAIN progs = 1..Len(progs) /\ Len(progs) \in Nat
        /\ \A p \in DOMAIN progs : progs[p] \in [message : DOMAIN GraphOf, nSites : Nat]
    <3> DEFINE P == [message : DOMAIN GraphOf, nSites : Nat]
    <3> HIDE DEF P
    <3>1. progs \in Seq(P)
      BY <1>1 DEF P
    <3>2. DOMAIN progs = 1..Len(progs) /\ Len(progs) \in Nat /\ \A p \in DOMAIN progs : progs[p] \in P
      BY <3>1
    <3>3. QED BY <3>2 DEF P
  <2>2. \A p \in DOMAIN progs : progs[p].nSites \in Nat
    BY <2>1
  <2>3. QED BY <2>1, <2>2 DEF Counts
<1>3. IsFiniteSet(DOMAIN progs)
  <2>1. 1 \in Int /\ Len(progs) \in Int
    BY <1>2
  <2>2. QED BY <1>2, <2>1, FS_Interval
<1>4. Summable(Counts, DOMAIN progs)
  BY <1>2, <1>3 DEF Summable
<1>5. Counted \in Nat
  <2> DEFINE D == DOMAIN progs
             f == Counts
  <2>1. IsFiniteSet(D) /\ \A p \in D : f[p] \in Nat
    BY <1>2, <1>3
  <2> HIDE DEF D, f
  <2>2. SumOver(f, D) \in Nat
    BY <2>1, SumType
  <2>3. QED BY <2>2 DEF Counted, D, f
<1>6. QED BY <1>2, <1>4, <1>5

LEMMA StartLearnCounts ==
    ASSUME TypeOK, IndexHolds, Options, Placed, StartLearn
    PROVE  Counted' = Counted
<1> DEFINE S == DOMAIN progs
           f == Counts
           x == nProgs + 1
           T == DOMAIN progs'
           h == Counts'
<1>1. nProgs = Len(progs) /\ S = 1..nProgs /\ nProgs \in Nat /\ Summable(f, S)
  BY CountFacts DEF Placed
<1>2. /\ progs' = Append(progs, [message |-> gr', nSites |-> 0])
      /\ [message |-> gr', nSites |-> 0] \in [message : DOMAIN GraphOf, nSites : Nat]
  BY ReadsGraph DEF StartLearn, Options
<1>3. /\ T = 1..(nProgs + 1) /\ progs'[x] = [message |-> gr', nSites |-> 0]
      /\ \A p \in S : progs'[p] = progs[p]
  <2> DEFINE P == [message : DOMAIN GraphOf, nSites : Nat]
             e == [message |-> gr', nSites |-> 0]
  <2>1. progs \in Seq(P) /\ e \in P /\ progs' = Append(progs, e)
    BY <1>2, RunTypes
  <2> HIDE DEF P, e
  <2>2. /\ progs' \in Seq(P) /\ Len(progs') = Len(progs) + 1
        /\ \A p \in 1..Len(progs) : progs'[p] = progs[p]
        /\ progs'[Len(progs) + 1] = e
    BY <2>1, AppendProperties
  <2>3. DOMAIN progs' = 1..Len(progs')
    BY <2>2
  <2>4. QED BY <1>1, <2>2, <2>3 DEF e
<1>4. T = S \cup {x} /\ S \ {x} = S
  BY <1>1, <1>3
<1>5. h[x] = 0 /\ \A p \in S : h[p] = f[p]
  <2>1. h = [p \in T |-> progs'[p].nSites] /\ f = [p \in S |-> progs[p].nSites]
    BY DEF Counts
  <2> HIDE DEF S, T, h, f
  <2>2. x \in T /\ \A p \in S : p \in T
    BY <1>4
  <2>3. QED BY <1>3, <2>1, <2>2
<1>6. AgreeBut(h, f, S, x)
  BY <1>5 DEF AgreeBut
<1>7. SumOver(f, S) \in Nat
  BY CountFacts DEF Counted
<1>11. Summable(f, S)
  BY <1>1
<1> HIDE DEF S, f, x, T, h
<1>9. SumOver(h, T) = SumOver(f, S)
  BY <1>4, <1>5, <1>6, <1>11, SumWithNew
<1>10. QED BY <1>9 DEF Counted, S, f, T, h

LEMMA EndLearnCounts ==
    ASSUME TypeOK, IndexHolds, Placed, EndLearnGraph
    PROVE  Counted' = Counted + n
<1> DEFINE S == DOMAIN progs
           f == Counts
           x == nProgs
           T == DOMAIN progs'
           h == Counts'
<1>1. /\ x \in S /\ Summable(f, S) /\ progs[x] = [message |-> gr, nSites |-> 0]
      /\ progs' = [progs EXCEPT ![x] = [message |-> gr, nSites |-> n]] /\ n \in Nat
      /\ IsFiniteSet(S) /\ \A p \in S : f[p] \in Nat
  BY CountFacts, EndsProgram, RunTypes DEF Summable
<1>2. T = S /\ f[x] = 0 /\ h[x] = n /\ \A p \in S \ {x} : h[p] = f[p]
  BY <1>1 DEF Counts
<1>3. AgreeBut(h, f, S, x) /\ S \cup {x} = S
  BY <1>1, <1>2 DEF AgreeBut
<1> HIDE DEF S, f, x, T, h
<1>4. SumOver(h, S \cup {x}) = h[x] + SumOver(f, S \ {x})
  BY <1>1, <1>3, SumWith
<1>5. SumOver(f, S) = f[x] + SumOver(f, S \ {x}) /\ SumOver(f, S \ {x}) \in Nat
  BY <1>1, SumRemove
<1>6. SumOver(h, T) = SumOver(f, S) + n
  <2>1. SumOver(h, T) = n + SumOver(f, S \ {x})
    BY <1>2, <1>3, <1>4
  <2>2. SumOver(f, S) = SumOver(f, S \ {x})
    BY <1>2, <1>5
  <2>3. QED BY <1>1, <1>5, <2>1, <2>2
<1>7. QED BY <1>6 DEF Counted, S, f, T, h

LEMMA CountersStep ==
    ASSUME TypeOK, IndexHolds, Options, Placed, CountersAgree, [Next]_vars
    PROVE  CountersAgree'
<1>1. /\ nLearntSites = nSites /\ nSites = Counted + InHand
      /\ nSites \in Nat /\ Counted \in Nat /\ n \in Nat
  BY CountersSum, CountFacts, IndexFacts, RunTypes DEF SumsAgree
<1>2. CASE UNCHANGED <<nLearntSites, nSites, progs>> /\ InHand' = InHand
  BY <1>1, <1>2, CountersSumNext DEF SumsAgree, Counted, Counts
<1>3. CASE StartLearn
  <2>1. UNCHANGED <<nLearntSites, nSites>> /\ n' = 0 /\ pc # "learn graph" /\ Counted' = Counted
    BY <1>3, StartLearnCounts DEF StartLearn, MoreToLearn, Index!AddProg
  <2>2. InHand = 0 /\ InHand' = 0
    BY <2>1 DEF InHand
  <2>3. QED BY <1>1, <2>1, <2>2, CountersSumNext DEF SumsAgree
<1>4. CASE LearnSite
  <2>1. pc = "learn graph" /\ UNCHANGED <<pc, progs>>
    BY <1>4 DEF LearnSite
  <2>2. InHand = n /\ InHand' = n' /\ Counted' = Counted
    BY <2>1 DEF InHand, Counted, Counts
  <2>3. CASE StoresNew(TheKey)
    <3>1. nSites' = nSites + 1 /\ n' = n + 1 /\ nLearntSites' = nLearntSites + 1
      BY <2>3 DEF StoresNew
    <3>2. nSites' = Counted + n'
      BY <1>1, <2>2, <3>1
    <3>3. QED BY <1>1, <2>2, <3>1, <3>2, CountersSumNext DEF SumsAgree
  <2>4. CASE FindsOld(TheKey)
    BY <1>1, <2>2, <2>4, CountersSumNext DEF SumsAgree, FindsOld
  <2>5. QED BY <1>4, <2>3, <2>4, LearnSiteCases, RunTypes
<1>5. CASE EndLearnGraph
  <2>1. /\ UNCHANGED <<nLearntSites, nSites>> /\ pc = "learn graph" /\ pc' = "learn list"
        /\ Counted' = Counted + n
    BY <1>5, EndLearnCounts DEF EndLearnGraph, index
  <2>2. InHand = n /\ InHand' = 0
    BY <2>1 DEF InHand
  <2>3. nSites' = Counted' + InHand'
    <3>1. nSites' = Counted + n /\ Counted' = Counted + n /\ InHand' = 0
      BY <1>1, <2>1, <2>2
    <3>2. Counted + n = (Counted + n) + 0
      BY <1>1
    <3>3. QED BY <3>1, <3>2
  <2>4. QED BY <1>1, <2>1, <2>3, CountersSumNext DEF SumsAgree
<1>6. ASSUME \/ SkipLearn \/ PassNode \/ StartScanning \/ SkipScan \/ StartScan
             \/ FindSite \/ EndFindGraph \/ End \/ UNCHANGED vars
      PROVE  UNCHANGED <<nLearntSites, nSites, progs>> /\ InHand' = InHand
  BY <1>6 DEF vars, index, InHand, SkipLearn, PassNode, StartScanning, MoreToLearn,
     MoreToScan, SkipScan, StartScan, FindSite, EndFindGraph, End
<1>7. QED BY <1>2, <1>3, <1>4, <1>5, <1>6 DEF Next, Ended
-----------------------------------------------------------------------------
(***************************************************************************)
(* What is learnt.                                                         *)
(***************************************************************************)
LEMMA KeysBeforeFacts ==
    ASSUME withLabels \in BOOLEAN, NEW f \in DOMAIN GraphOf
    PROVE  /\ KeysBefore(f, 1) = {}
           /\ \A a \in Nat : KeysBefore(f, a) \subseteq KeysOf(f)
           /\ \A a \in Nat : a \in DOMAIN Keys[f] =>
                 KeysBefore(f, a + 1) = KeysBefore(f, a) \cup {Keys[f][a]}
           /\ \A a \in Nat : a \notin DOMAIN Keys[f] =>
                 KeysBefore(f, a + 1) = KeysBefore(f, a)
           /\ \A a \in Nat : a > Len(GraphOf[f].children) => KeysBefore(f, a) = KeysOf(f)
<1> DEFINE D == DOMAIN Keys[f]
           K == Keys[f]
<1>1. /\ D \subseteq 1..Len(GraphOf[f].children) /\ Len(GraphOf[f].children) \in Nat
      /\ KeysOf(f) = {K[m] : m \in D}
      /\ \A a : KeysBefore(f, a) = {K[m] : m \in {l \in D : l < a}}
  BY KeyFacts, GraphFacts DEF KeysBefore
<1> HIDE DEF D, K
<1>2. \A l \in D : l \in Nat /\ l >= 1 /\ l <= Len(GraphOf[f].children)
  BY <1>1
<1>13. \A l \in D, a \in Nat : l < a + 1 <=> l < a \/ l = a
  BY <1>2
<1>14. \A l \in D : ~(l < 1)
  BY <1>2
<1>15. \A l \in D, a \in Nat : a > Len(GraphOf[f].children) => l < a
  BY <1>1, <1>2
<1>3. {l \in D : l < 1} = {}
  BY <1>14
<1>4. ASSUME NEW a \in Nat, a \in D PROVE {l \in D : l < a + 1} = {l \in D : l < a} \cup {a}
  <2>1. ~(a < a)
    OBVIOUS
  <2>2. QED BY <1>4, <1>13, <2>1
<1>5. ASSUME NEW a \in Nat, a \notin D PROVE {l \in D : l < a + 1} = {l \in D : l < a}
  BY <1>5, <1>13
<1>6. ASSUME NEW a \in Nat, a > Len(GraphOf[f].children) PROVE {l \in D : l < a} = D
  BY <1>6, <1>15
<1>7. KeysBefore(f, 1) = {}
  BY <1>1, <1>3
<1>8. \A a \in Nat : KeysBefore(f, a) \subseteq KeysOf(f)
  BY <1>1
<1>9. ASSUME NEW a \in Nat, a \in D PROVE KeysBefore(f, a + 1) = KeysBefore(f, a) \cup {K[a]}
  BY <1>1, <1>4, <1>9
<1>10. ASSUME NEW a \in Nat, a \notin D PROVE KeysBefore(f, a + 1) = KeysBefore(f, a)
  BY <1>1, <1>5, <1>10
<1>11. ASSUME NEW a \in Nat, a > Len(GraphOf[f].children) PROVE KeysBefore(f, a) = KeysOf(f)
  BY <1>1, <1>6, <1>11
<1>12. QED BY <1>7, <1>8, <1>9, <1>10, <1>11 DEF D, K

LEMMA WantedIs ==
    ASSUME NEW k
    PROVE  k \in Wanted <=> \E j \in DOMAIN toLearn.paths :
                               Readable(toLearn, j) /\ k \in KeysOf(toLearn.paths[j])
BY DEF Wanted, KeysOf

\* The graph in memory while learning is one of those asked for.
LEMMA GraphIsWanted ==
    ASSUME TypeOK, Options, Placed, pc = "learn graph"
    PROVE  KeysOf(gr) \subseteq Wanted
<1>1. /\ line \in DOMAIN toLearn.paths /\ Readable(toLearn, line)
      /\ gr = toLearn.paths[line]
  <2>1. DOMAIN toLearn.paths = 1..Len(toLearn.paths) /\ line \in Nat /\ line >= 1
        /\ Len(toLearn.paths) \in Nat /\ Len(toLearn.paths) <= MaxProgs
    BY ListFacts, RunTypes DEF Options
  <2>2. line <= Len(toLearn.paths) /\ Readable(toLearn, line) /\ gr = toLearn.paths[line]
    BY DEF Placed
  <2>3. line \in 1..Len(toLearn.paths)
    BY <2>1, <2>2, NextLine
  <2>4. QED BY <2>1, <2>2, <2>3
<1>2. QED BY <1>1, WantedIs

LEMMA LimitFacts ==
    ASSUME Options, IndexHolds, nLearntSites = nSites
    PROVE  /\ siteCountLimit \in Nat /\ nSites \in Nat
           /\ BelowLimit <=> siteCountLimit = 0 \/ nSites < siteCountLimit
BY SIDTAssumption, IndexFacts DEF Options, BelowLimit

\* LearntSoFar depends on the graph and the root only while learning.
LearntParts ==
    /\ IsFiniteSet(Learnt) /\ nSites = Cardinality(Learnt)
    /\ Learnt \subseteq Wanted
    /\ siteCountLimit # 0 => nSites <= siteCountLimit

LEMMA LearnSiteLearnt ==
    ASSUME TypeOK, IndexHolds, Options, Placed, CountersAgree, LearntSoFar, LearnSite
    PROVE  LearntSoFar'
<1>0. /\ pc = "learn graph" /\ pc' = pc /\ gr' = gr /\ line' = line /\ node' = node + 1
      /\ node \in DOMAIN Keys[gr] /\ BelowLimit /\ gr \in DOMAIN GraphOf /\ node \in Nat
      /\ nLearntSites = nSites /\ TheKey \in KeysOf(gr)
      /\ StoresNew(TheKey) \/ FindsOld(TheKey)
      /\ siteCountLimit' = siteCountLimit
  BY LearnSiteCases, RunTypes DEF LearnSite, Learns, HasNGraph, CountersAgree, options
<1>1. Keys' = Keys /\ Wanted' = Wanted /\ toLearn' = toLearn
      /\ \A k : Readable(toLearn, k)' = Readable(toLearn, k)
  <2>1. [Next]_vars
    BY DEF Next
  <2>2. QED BY <2>1, OptionsStep DEF options
<1>2. TheKey \in Wanted
  BY <1>0, GraphIsWanted
<1>3. LinesLearnt /\ KeysBefore(gr, node) \subseteq Learnt
  BY <1>0 DEF LearntSoFar, Learning
<1>4. Learnt \subseteq Learnt' /\ TheKey \in Learnt' /\ LearntParts'
  <2>1. CASE StoresNew(TheKey)
    <3> DEFINE k == TheKey
               S == Learnt
    <3>1. /\ S' = S \cup {k} /\ k \notin S /\ nSites' = nSites + 1 /\ k \in Wanted
          /\ IsFiniteSet(S) /\ nSites = Cardinality(S) /\ S \subseteq Wanted
      BY <2>1, <1>2 DEF StoresNew, LearntSoFar, Learnt, Index!Learnt
    <3>5. /\ siteCountLimit \in Nat /\ nSites \in Nat /\ nSites' = nSites + 1
          /\ siteCountLimit = 0 \/ nSites < siteCountLimit
      BY <3>1, <1>0, LimitFacts
    <3>2. siteCountLimit # 0 => nSites' <= siteCountLimit
      BY <3>5
    <3> HIDE DEF k, S
    <3>3. IsFiniteSet(S') /\ Cardinality(S') = nSites'
      BY <3>1, FS_AddElement
    <3>4. QED BY <1>0, <1>1, <3>1, <3>2, <3>3 DEF LearntParts, k, S
  <2>2. CASE FindsOld(TheKey)
    BY <2>2, <1>0, <1>1 DEF FindsOld, LearntSoFar, LearntParts, Learnt, Index!Learnt
  <2>3. QED BY <1>0, <2>1, <2>2
<1>5. LinesLearnt'
  BY <1>0, <1>1, <1>3, <1>4 DEF LinesLearnt, KeysOf
<1>6. KeysBefore(gr, node)' \subseteq Learnt'
  <2>1. KeysBefore(gr, node)' = KeysBefore(gr, node + 1)
    BY <1>0, <1>1 DEF KeysBefore
  <2>2. KeysBefore(gr, node + 1) = KeysBefore(gr, node) \cup {TheKey}
    BY <1>0, KeysBeforeFacts DEF TheKey, Options
  <2>3. QED BY <1>3, <1>4, <2>1, <2>2
<1>7. Learning'
  BY <1>0 DEF Learning
<1>8. QED BY <1>4, <1>5, <1>6, <1>7 DEF LearntSoFar, LearntParts

LEMMA StartScanningLearnt ==
    ASSUME TypeOK, IndexHolds, Options, Placed, LearntSoFar, StartScanning
    PROVE  LearntSoFar'
<1>1. /\ pc = "learn list" /\ pc' = "scan list"
      /\ UNCHANGED <<options, nLearntSites, number, nSites>>
      /\ line <= Len(toLearn.paths) => ~BelowLimit
  BY DEF StartScanning, MoreToLearn, index
<1>2. Keys' = Keys /\ Wanted' = Wanted
  <2>1. [Next]_vars
    BY DEF Next
  <2>2. QED BY <2>1, OptionsStep
<1>3. /\ Learnt' = Learnt /\ BelowLimit' = BelowLimit /\ ~Learning' /\ Learning
      /\ siteCountLimit' = siteCountLimit
  BY <1>1 DEF Learnt, Index!Learnt, BelowLimit, options, Learning
<1>4. ASSUME BelowLimit PROVE Wanted \subseteq Learnt
  <2>1. LinesLearnt
    BY <1>3, <1>4 DEF LearntSoFar
  <2>2. Len(toLearn.paths) \in Nat /\ DOMAIN toLearn.paths = 1..Len(toLearn.paths)
    BY ListFacts DEF Options
  <2>3. line - 1 = Len(toLearn.paths)
    <3>1. line <= Len(toLearn.paths) + 1 /\ ~(line <= Len(toLearn.paths))
      BY <1>1, <1>4 DEF Placed
    <3>2. line \in Nat
      BY RunTypes
    <3>3. QED BY <2>2, <3>1, <3>2
  <2>4. \A j \in DOMAIN toLearn.paths :
           Readable(toLearn, j) => KeysOf(toLearn.paths[j]) \subseteq Learnt
    BY <2>1, <2>2, <2>3 DEF LinesLearnt
  <2>5. QED BY <2>4, WantedIs
<1>5. QED BY <1>1, <1>2, <1>3, <1>4 DEF LearntSoFar

LEMMA LearntStep ==
    ASSUME TypeOK, IndexHolds, Options, Placed, CountersAgree, LearntSoFar, [Next]_vars
    PROVE  LearntSoFar'
<1>1. /\ Keys' = Keys /\ Wanted' = Wanted /\ toLearn' = toLearn
      /\ siteCountLimit' = siteCountLimit
      /\ \A k : Readable(toLearn, k)' = Readable(toLearn, k)
  BY OptionsStep DEF options
<1>2. line \in Nat /\ line >= 1 /\ node \in Nat /\ gr \in DOMAIN GraphOf
  BY RunTypes
\* As long as the index stays, only what was passed has to be looked at.
<1>3. ASSUME UNCHANGED <<number, nSites, nLearntSites>>
      PROVE  /\ Learnt' = Learnt /\ (BelowLimit' <=> BelowLimit)
             /\ LearntParts /\ LearntParts'
  <2>1. Learnt' = Learnt /\ (BelowLimit' <=> BelowLimit) /\ LearntParts
    BY <1>1, <1>3 DEF Learnt, Index!Learnt, BelowLimit, LearntParts, LearntSoFar
  <2>2. LearntParts'
    BY <1>1, <1>3, <2>1 DEF LearntParts
  <2>3. QED BY <2>1, <2>2
\* One more line.
<1>4. ASSUME line' = line + 1, Learnt' = Learnt, LinesLearnt,
             Readable(toLearn, line) => KeysOf(toLearn.paths[line]) \subseteq Learnt
      PROVE  LinesLearnt'
  <2>1. ASSUME NEW j \in 1..(line' - 1), Readable(toLearn, j)
        PROVE  KeysOf(toLearn.paths[j]) \subseteq Learnt
    <3>1. j \in 1..(line - 1) \/ j = line
      BY <1>2, <1>4
    <3>2. QED BY <1>4, <2>1, <3>1 DEF LinesLearnt
  <2>2. QED BY <1>1, <1>4, <2>1 DEF LinesLearnt, KeysOf
<1>5. CASE SkipLearn
  <2>1. /\ UNCHANGED <<number, nSites, nLearntSites, pc>> /\ pc = "learn list"
        /\ line' = line + 1 /\ ~Readable(toLearn, line)
    BY <1>5 DEF SkipLearn, MoreToLearn, index
  <2>2. Learning /\ Learning'
    BY <2>1 DEF Learning
  <2>3. BelowLimit' => LinesLearnt'
    BY <1>3, <1>4, <2>1, <2>2 DEF LearntSoFar
  <2>4. QED BY <1>3, <2>1, <2>2, <2>3 DEF LearntSoFar, LearntParts
<1>6. CASE StartLearn
  <2>1. /\ UNCHANGED <<number, nSites, nLearntSites, line>> /\ pc = "learn list"
        /\ pc' = "learn graph" /\ node' = 1 /\ gr' \in DOMAIN GraphOf
    BY <1>6, ReadsGraph DEF StartLearn, MoreToLearn, Index!AddProg, Options
  <2>2. Learning /\ Learning'
    BY <2>1 DEF Learning
  <2>3. BelowLimit' => LinesLearnt'
    BY <1>1, <1>3, <2>1, <2>2 DEF LearntSoFar, LinesLearnt, KeysOf
  <2>4. KeysBefore(gr, node)' = {}
    <3>1. KeysBefore(gr, node)' = KeysBefore(gr', 1)
      BY <1>1, <2>1 DEF KeysBefore
    <3>2. QED BY <2>1, <3>1, KeysBeforeFacts DEF Options
  <2>5. QED BY <1>3, <2>1, <2>2, <2>3, <2>4 DEF LearntSoFar, LearntParts
<1>7. CASE LearnSite
  BY <1>7, LearnSiteLearnt
<1>8. CASE PassNode
  <2>1. /\ UNCHANGED <<number, nSites, nLearntSites, line, pc, gr>> /\ pc = "learn graph"
        /\ node' = node + 1 /\ BelowLimit => node \notin DOMAIN Keys[gr]
    BY <1>8 DEF PassNode, Learns, HasNGraph, index
  <2>2. Learning /\ Learning'
    BY <2>1 DEF Learning
  <2>3. BelowLimit' => LinesLearnt'
    BY <1>1, <1>3, <2>1, <2>2 DEF LearntSoFar, LinesLearnt, KeysOf
  <2>4. ASSUME BelowLimit PROVE KeysBefore(gr, node)' \subseteq Learnt
    <3>4. Keys' = Keys
      BY <1>1
    <3>5. gr' = gr /\ node \notin DOMAIN Keys[gr]
      BY <1>8, <2>4 DEF PassNode, Learns, HasNGraph
    <3>6. node' = node + 1
      BY <1>8 DEF PassNode
    <3>0. gr' = gr /\ node' = node + 1 /\ node \notin DOMAIN Keys[gr] /\ Keys' = Keys
      BY <3>4, <3>5, <3>6
    <3>1. KeysBefore(gr, node)' = KeysBefore(gr, node + 1)
      BY <3>0 DEF KeysBefore
    <3>2. KeysBefore(gr, node + 1) = KeysBefore(gr, node)
      BY <1>2, <3>0, KeysBeforeFacts DEF Options
    <3>3. QED BY <2>1, <2>4, <3>1, <3>2 DEF LearntSoFar
  <2>5. QED BY <1>3, <2>1, <2>2, <2>3, <2>4 DEF LearntSoFar, LearntParts
<1>9. CASE EndLearnGraph
  <2>1. /\ UNCHANGED <<number, nSites, nLearntSites, gr, node>> /\ pc = "learn graph"
        /\ pc' = "learn list" /\ line' = line + 1 /\ gr = toLearn.paths[line]
        /\ ~(node <= Len(GraphOf[gr].children))
    BY <1>9 DEF EndLearnGraph, InGraph, index, Placed
  <2>2. Learning /\ Learning' /\ pc' # "learn graph"
    BY <2>1 DEF Learning
  <2>3. KeysBefore(gr, node) = KeysOf(gr)
    <3>0. ~(node <= Len(GraphOf[gr].children)) /\ Len(GraphOf[gr].children) \in Nat
      BY <1>2, <2>1, GraphFacts
    <3>1. node > Len(GraphOf[gr].children)
      BY <1>2, <3>0
    <3>2. QED BY <1>2, <3>1, KeysBeforeFacts DEF Options
  <2>4. BelowLimit => KeysOf(toLearn.paths[line]) \subseteq Learnt
    BY <2>1, <2>3 DEF LearntSoFar
  <2>5. BelowLimit' => LinesLearnt'
    BY <1>3, <1>4, <2>1, <2>2, <2>4 DEF LearntSoFar
  <2>6. QED BY <1>3, <2>1, <2>2, <2>5 DEF LearntSoFar, LearntParts
<1>10. CASE StartScanning
  BY <1>10, StartScanningLearnt
<1>11. ASSUME \/ SkipScan \/ StartScan \/ FindSite \/ EndFindGraph \/ End
       PROVE  LearntSoFar'
  <2>1. UNCHANGED <<number, nSites, nLearntSites>> /\ ~Learning /\ ~Learning'
        /\ pc' # "learn graph"
    <3>1. CASE SkipScan
      BY <3>1 DEF SkipScan, MoreToScan, index, Learning
    <3>2. CASE StartScan
      BY <3>2 DEF StartScan, MoreToScan, index, Learning
    <3>3. CASE FindSite
      BY <3>3 DEF FindSite, index, Learning
    <3>4. CASE EndFindGraph
      BY <3>4 DEF EndFindGraph, index, Learning
    <3>5. CASE End
      BY <3>5 DEF End, index, Learning
    <3>6. QED BY <1>11, <3>1, <3>2, <3>3, <3>4, <3>5
  <2>2. QED BY <1>1, <1>3, <2>1 DEF LearntSoFar, LearntParts
<1>12. CASE UNCHANGED vars
  <2>1. UNCHANGED <<number, nSites, nLearntSites, line, pc, gr, node>>
    BY <1>12 DEF vars, index
  <2>2. Learning' <=> Learning
    BY <2>1 DEF Learning
  <2>3. LinesLearnt' <=> LinesLearnt
    BY <1>1, <1>3, <2>1 DEF LinesLearnt, KeysOf
  <2>4. KeysBefore(gr, node)' = KeysBefore(gr, node)
    BY <1>1, <2>1 DEF KeysBefore
  <2>5. QED BY <1>1, <1>3, <2>1, <2>2, <2>3, <2>4 DEF LearntSoFar, LearntParts
<1>13. QED
  BY <1>5, <1>6, <1>7, <1>8, <1>9, <1>10, <1>11, <1>12 DEF Next, Ended
-----------------------------------------------------------------------------
(***************************************************************************)
(* To whom a site belongs.                                                 *)
(***************************************************************************)
Owned(p) == /\ Shown(p) \subseteq Learnt
            /\ \A k \in Learnt : p \in owners[number[k]] <=> k \in Shown(p)

LEMMA OwnersAre == OwnersSoFar <=> (siteCountLimit = 0 => \A p \in 1..nProgs : Owned(p))
BY DEF OwnersSoFar, Owned

LEMMA OwnersAreNext ==
    OwnersSoFar' <=> (siteCountLimit' = 0 => \A p \in 1..nProgs' : Owned(p)')
BY DEF OwnersSoFar, Owned

LEMMA OwnersStay ==
    ASSUME OwnersSoFar, siteCountLimit' = siteCountLimit,
           UNCHANGED <<number, owners, nProgs>>,
           siteCountLimit = 0 => \A p \in 1..nProgs : Shown(p)' = Shown(p)
    PROVE  OwnersSoFar'
<1>1. SUFFICES ASSUME siteCountLimit = 0, NEW p \in 1..nProgs PROVE Owned(p)'
  BY OwnersAreNext
<1>2. Owned(p) /\ Shown(p)' = Shown(p)
  BY <1>1, OwnersAre
<1>3. Learnt' = Learnt
  BY DEF Learnt, Index!Learnt
<1>4. QED BY <1>2, <1>3 DEF Owned

\* Out of the graph being learnt, a program shows the keys of its graph.
LEMMA ShownStays ==
    ASSUME Keys' = Keys, pc # "learn graph", pc' # "learn graph", UNCHANGED progs, NEW p
    PROVE  Shown(p)' = Shown(p)
BY DEF Shown, KeysOf

LEMMA StartLearnOwners ==
    ASSUME TypeOK, IndexHolds, Options, Placed, OwnersSoFar, Keys' = Keys,
           siteCountLimit' = siteCountLimit, StartLearn
    PROVE  OwnersSoFar'
<1>0. /\ pc # "learn graph" /\ pc' = "learn graph" /\ nProgs' = nProgs + 1
      /\ UNCHANGED <<number, owners>> /\ node' = 1 /\ gr' \in DOMAIN GraphOf
      /\ progs' = Append(progs, [message |-> gr', nSites |-> 0])
  BY ReadsGraph DEF StartLearn, MoreToLearn, Index!AddProg, Options
<1>1. /\ nProgs \in Nat /\ nProgs = Len(progs) /\ nProgs' \notin 1..nProgs
      /\ \A p \in 1..nProgs' : p \in 1..nProgs \/ p = nProgs'
      /\ \A p \in 1..nProgs : p # nProgs' /\ p # nProgs + 1
  <2>1. nProgs \in Nat /\ nProgs = Len(progs) /\ nProgs' = nProgs + 1
    BY <1>0, IndexFacts DEF Placed
  <2>2. QED BY <2>1
<1>2. \A p \in 1..nProgs : progs'[p] = progs[p]
  <2> DEFINE P == [message : DOMAIN GraphOf, nSites : Nat]
             e == [message |-> gr', nSites |-> 0]
  <2>1. progs \in Seq(P) /\ e \in P /\ progs' = Append(progs, e)
    BY <1>0, RunTypes
  <2> HIDE DEF P, e
  <2>2. \A p \in 1..Len(progs) : progs'[p] = progs[p]
    BY <2>1, AppendProperties
  <2>3. QED BY <1>1, <2>2
<1>3. Learnt' = Learnt /\ \A k \in Learnt : owners[number[k]] \subseteq 1..nProgs
  BY <1>0, IndexFacts DEF Learnt, Index!Learnt
<1>4. SUFFICES ASSUME siteCountLimit = 0, NEW p \in 1..nProgs' PROVE Owned(p)'
  BY OwnersAreNext
<1>5. CASE p \in 1..nProgs
  <2>1. Shown(p)' = Shown(p)
    BY <1>0, <1>1, <1>2, <1>5 DEF Shown, KeysOf
  <2>2. Owned(p)
    BY <1>4, <1>5, OwnersAre
  <2>3. QED BY <1>0, <1>3, <2>1, <2>2 DEF Owned
<1>6. CASE p = nProgs'
  <2>1. Shown(p)' = KeysBefore(gr', 1)
    BY <1>0, <1>6 DEF Shown, KeysBefore
  <2>2. Shown(p)' = {}
    BY <1>0, <2>1, KeysBeforeFacts DEF Options
  <2>3. \A k \in Learnt : p \notin owners[number[k]]
    BY <1>1, <1>3, <1>6
  <2>4. QED BY <1>0, <1>3, <2>2, <2>3 DEF Owned
<1>7. QED BY <1>1, <1>5, <1>6

LEMMA LearnSiteOwners ==
    ASSUME TypeOK, IndexHolds, Options, Placed, OwnersSoFar, Keys' = Keys,
           siteCountLimit' = siteCountLimit, LearnSite
    PROVE  OwnersSoFar'
<1> DEFINE k == TheKey
<1>0. /\ pc = "learn graph" /\ pc' = pc /\ gr' = gr /\ progs' = progs
      /\ node \in DOMAIN Keys[gr] /\ gr \in DOMAIN GraphOf /\ nProgs' = nProgs
      /\ StoresNew(k) \/ FindsOld(k)
  BY LearnSiteCases, RunTypes DEF LearnSite, Learns, HasNGraph
<1>1. node' = node + 1 /\ node \in Nat
  BY RunTypes DEF LearnSite
<1>2. ASSUME NEW p, p = nProgs PROVE Shown(p)' = Shown(p) \cup {k}
  <2>1. Shown(p)' = KeysBefore(gr, node + 1) /\ Shown(p) = KeysBefore(gr, node)
    BY <1>0, <1>1, <1>2 DEF Shown, KeysBefore
  <2>2. QED BY <1>0, <1>1, <2>1, KeysBeforeFacts DEF Options, TheKey
<1>3. \A p \in 1..nProgs : p # nProgs => Shown(p)' = Shown(p)
  BY <1>0 DEF Shown, KeysOf
<1>4. /\ \A j \in Learnt : number[j] \in 1..nSites
      /\ \A i, j \in Learnt : number[i] = number[j] => i = j
      /\ DOMAIN owners = 1..nSites /\ Learnt = DOMAIN number
  BY IndexFacts
<1>5. SUFFICES ASSUME siteCountLimit = 0, NEW p \in 1..nProgs PROVE Owned(p)'
  BY <1>0, OwnersAreNext
<1>6. Owned(p)
  BY <1>5, OwnersAre
<1>7. Learnt' = DOMAIN number'
  BY DEF Learnt, Index!Learnt
<1> HIDE DEF k
<1>8. CASE StoresNew(k)
  <2>1. /\ Learnt' = Learnt \cup {k} /\ k \notin Learnt /\ number'[k] = nSites + 1
        /\ \A j \in Learnt : number'[j] = number[j]
        /\ owners'[nSites + 1] = {nProgs}
        /\ \A i \in 1..nSites : owners'[i] = owners[i]
    BY <1>7, <1>8 DEF StoresNew
  <2>2. \A j \in Learnt : owners'[number'[j]] = owners[number[j]]
    BY <1>4, <2>1
  <2>3. owners'[number'[k]] = {nProgs}
    BY <2>1
  <2>4. CASE p = nProgs
    <3>1. Shown(p)' = Shown(p) \cup {k}
      BY <1>2, <2>4
    <3>2. QED BY <1>6, <2>1, <2>2, <2>3, <2>4, <3>1 DEF Owned
  <2>5. CASE p # nProgs
    <3>1. Shown(p)' = Shown(p) /\ k \notin Shown(p)
      BY <1>3, <1>6, <2>1, <2>5 DEF Owned
    <3>2. QED BY <1>6, <2>1, <2>2, <2>3, <2>5, <3>1 DEF Owned
  <2>6. QED BY <2>4, <2>5
<1>9. CASE FindsOld(k)
  <2>1. /\ Learnt' = Learnt /\ k \in Learnt /\ number' = number
        /\ owners' = [owners EXCEPT ![number[k]] = owners[number[k]] \cup {nProgs}]
    BY <1>9 DEF FindsOld, Learnt, Index!Learnt
  <2>2. /\ owners'[number[k]] = owners[number[k]] \cup {nProgs}
        /\ \A j \in Learnt : j # k => owners'[number[j]] = owners[number[j]]
    BY <1>4, <2>1
  <2>3. CASE p = nProgs
    <3>1. Shown(p)' = Shown(p) \cup {k}
      BY <1>2, <2>3
    <3>2. QED BY <1>6, <2>1, <2>2, <2>3, <3>1 DEF Owned
  <2>4. CASE p # nProgs
    <3>1. Shown(p)' = Shown(p)
      BY <1>3, <2>4
    <3>2. \A j \in Learnt : p \in owners'[number[j]] <=> p \in owners[number[j]]
      BY <2>2, <2>4
    <3>3. QED BY <1>6, <2>1, <3>1, <3>2 DEF Owned
  <2>5. QED BY <2>3, <2>4
<1>10. QED BY <1>0, <1>8, <1>9

LEMMA OwnersStep ==
    ASSUME TypeOK, IndexHolds, Options, Placed, OwnersSoFar, [Next]_vars
    PROVE  OwnersSoFar'
<1>1. Keys' = Keys /\ siteCountLimit' = siteCountLimit
  BY OptionsStep DEF options
<1>2. CASE StartLearn
  BY <1>1, <1>2, StartLearnOwners
<1>3. CASE LearnSite
  BY <1>1, <1>3, LearnSiteOwners
<1>4. CASE PassNode
  <2>1. UNCHANGED <<number, owners, nProgs, pc, gr, progs>>
    BY <1>4 DEF PassNode, index
  <2>2. node' = node + 1 /\ node \in Nat /\ gr \in DOMAIN GraphOf
    BY <1>4, RunTypes DEF PassNode
  <2>3. ASSUME siteCountLimit = 0, NEW p \in 1..nProgs PROVE Shown(p)' = Shown(p)
    <3>1. node \notin DOMAIN Keys[gr]
      BY <1>4, <2>3 DEF PassNode, Learns, HasNGraph, BelowLimit
    <3>2. KeysBefore(gr, node + 1) = KeysBefore(gr, node)
      BY <2>2, <3>1, KeysBeforeFacts DEF Options
    <3>3. KeysBefore(gr, node)' = KeysBefore(gr, node + 1)
      BY <1>1, <2>1, <2>2 DEF KeysBefore
    <3>4. QED BY <1>1, <2>1, <3>2, <3>3 DEF Shown, KeysOf
  <2>4. QED BY <1>1, <2>1, <2>3, OwnersStay
<1>5. CASE EndLearnGraph
  <2>1. /\ UNCHANGED <<number, owners, nProgs, gr, node>> /\ pc = "learn graph"
        /\ pc' = "learn list"
    BY <1>5 DEF EndLearnGraph, index
  <2>2. /\ progs' = [progs EXCEPT ![nProgs] = [message |-> gr, nSites |-> n]]
        /\ nProgs = Len(progs) /\ DOMAIN progs = 1..Len(progs)
    BY <1>5, EndsProgram, CountFacts
  <2>3. KeysBefore(gr, node) = KeysOf(gr)
    <3>1. ~(node <= Len(GraphOf[gr].children)) /\ Len(GraphOf[gr].children) \in Nat /\ node \in Nat
      BY <1>5, RunTypes DEF EndLearnGraph, InGraph
    <3>2. node > Len(GraphOf[gr].children)
      BY <3>1
    <3>3. QED BY <3>1, <3>2, RunTypes, KeysBeforeFacts DEF Options
  <2>4. ASSUME NEW p \in 1..nProgs PROVE Shown(p)' = Shown(p)
    <3>1. CASE p = nProgs
      <4>1. progs'[p].message = gr
        BY <2>2, <2>4, <3>1
      <4>2. QED BY <1>1, <2>1, <2>3, <3>1, <4>1 DEF Shown, KeysOf
    <3>2. CASE p # nProgs
      <4>1. progs'[p] = progs[p]
        BY <2>2, <2>4, <3>2
      <4>2. QED BY <1>1, <2>1, <3>2, <4>1 DEF Shown, KeysOf
    <3>3. QED BY <3>1, <3>2
  <2>5. QED BY <1>1, <2>1, <2>4, OwnersStay
<1>6. ASSUME \/ SkipLearn \/ StartScanning \/ SkipScan \/ StartScan \/ FindSite
             \/ EndFindGraph \/ End
      PROVE  OwnersSoFar'
  <2>1. /\ UNCHANGED <<number, owners, nProgs, progs>>
        /\ pc # "learn graph" /\ pc' # "learn graph"
    BY <1>6 DEF SkipLearn, StartScanning, SkipScan, StartScan, FindSite, EndFindGraph, End,
       MoreToLearn, MoreToScan, index
  <2>2. QED BY <1>1, <2>1, ShownStays, OwnersStay
<1>7. CASE UNCHANGED vars
  <2>1. UNCHANGED <<number, owners, nProgs, pc, gr, progs, node>>
    BY <1>7 DEF vars, index
  <2>2. \A p : Shown(p)' = Shown(p)
    BY <1>1, <2>1 DEF Shown, KeysOf, KeysBefore
  <2>3. QED BY <1>1, <2>1, <2>2, OwnersStay
<1>8. QED
  BY <1>2, <1>3, <1>4, <1>5, <1>6, <1>7 DEF Next, Ended
-----------------------------------------------------------------------------
(***************************************************************************)
(* What a scan finds and gives.                                            *)
(***************************************************************************)
ScansAfter == Learning => results = <<>>
InScan == /\ found = FoundSoFar
          /\ \A k \in Function : scanFuncs[k] = HitsSoFar(k)

LEMMA ScannedIs == ScannedSoFar <=> ScansAfter /\ (pc = "scan graph" => InScan)
BY DEF ScannedSoFar, ScansAfter, InScan

LEMMA ScannedIsNext == ScannedSoFar' <=> ScansAfter' /\ (pc' = "scan graph" => InScan')
BY DEF ScannedSoFar, ScansAfter, InScan

\* The hits of a graph and a function.
HitsOf(f, k) == SumOver(Hits(f, k), FirstRoots(f))
HitsExact == \A r \in Range(results) : \A k \in Function : r.funcs[k] = HitsOf(r.path, k)

LEMMA HitsAreExact == HitsCountOnce <=> HitsExact
BY DEF HitsCountOnce, HitsExact, HitsOf, SumOver

LEMMA HitsAreExactNext == HitsCountOnce' <=> HitsExact'
BY HitsAreExact, PTL

\* Nothing is learnt while a graph is scanned: what it gave stays right.
LEMMA ResultsStay ==
    ASSUME ScanIsExact, Keys' = Keys, UNCHANGED <<number, results>>
    PROVE  ScanIsExact'
<1>1. Learnt' = Learnt
  BY DEF Learnt, Index!Learnt
<1>2. ASSUME NEW f, NEW k PROVE HitsOf(f, k)' = HitsOf(f, k)
  <2>1. FirstRoots(f)' = FirstRoots(f)
    BY <1>1 DEF FirstRoots
  <2>2. Hits(f, k)' = Hits(f, k)
    BY DEF Hits
  <2>3. QED BY <2>1, <2>2 DEF HitsOf
<1>3. HitsExact
  BY HitsAreExact DEF ScanIsExact
<1>4. SitesCountOnce'
  BY <1>1 DEF ScanIsExact, SitesCountOnce
<1>5. HitsCountOnce'
  BY <1>2, <1>3, HitsAreExactNext DEF HitsExact
<1>6. QED BY <1>4, <1>5 DEF ScanIsExact

LEMMA HitsFacts ==
    ASSUME withLabels \in BOOLEAN, NEW f \in DOMAIN GraphOf, NEW k \in Function
    PROVE  /\ IsFiniteSet(FirstRoots(f)) /\ FirstRoots(f) \subseteq DOMAIN Keys[f]
           /\ \A m \in DOMAIN Keys[f] : Hits(f, k)[m] \in Nat
<1>1. FirstRoots(f) \subseteq DOMAIN Keys[f]
  BY DEF FirstRoots
<1>2. IsFiniteSet(DOMAIN Keys[f])
  BY KeyFacts
<1>3. IsFiniteSet(FirstRoots(f))
  BY <1>1, <1>2, FS_Subset
<1>4. ASSUME NEW m \in DOMAIN Keys[f] PROVE Hits(f, k)[m] \in Nat
  <2> DEFINE q == SiteQueue(GraphOf[f], m)
  <2>1. Hits(f, k)[m] = Cardinality({j \in 2..siteSize : FuncAt(q[j], k)})
    BY <1>4 DEF Hits
  <2> HIDE DEF q
  <2>2. QED BY <2>1, HitCount
<1>5. QED BY <1>1, <1>3, <1>4

LEMMA RootsBeforeFacts ==
    ASSUME withLabels \in BOOLEAN, NEW f \in DOMAIN GraphOf
    PROVE  /\ RootsBefore(f, 1) = {}
           /\ \A a \in Nat : a \in FirstRoots(f) =>
                 /\ RootsBefore(f, a + 1) = RootsBefore(f, a) \cup {a}
                 /\ a \notin RootsBefore(f, a)
           /\ \A a \in Nat : a \notin FirstRoots(f) =>
                 RootsBefore(f, a + 1) = RootsBefore(f, a)
           /\ \A a \in Nat : a > Len(GraphOf[f].children) => RootsBefore(f, a) = FirstRoots(f)
<1> DEFINE D == FirstRoots(f)
           N == Len(GraphOf[f].children)
<1>1. D \subseteq 1..N /\ N \in Nat
  BY KeyFacts, GraphFacts DEF FirstRoots
<1>2. \A a : RootsBefore(f, a) = {l \in D : l < a}
  BY DEF RootsBefore
<1> HIDE DEF D, N
<1>3. \A l \in D : l \in Nat /\ l >= 1 /\ l <= N
  BY <1>1
<1>4. \A l \in D, a \in Nat : l < a + 1 <=> l < a \/ l = a
  BY <1>3
<1>5. \A l \in D : ~(l < 1)
  BY <1>3
<1>6. \A l \in D, a \in Nat : a > N => l < a
  BY <1>1, <1>3
<1>7. RootsBefore(f, 1) = {}
  BY <1>2, <1>5
<1>8. ASSUME NEW a \in Nat, a \in D
      PROVE  RootsBefore(f, a + 1) = RootsBefore(f, a) \cup {a} /\ a \notin RootsBefore(f, a)
  <2>1. ~(a < a)
    OBVIOUS
  <2>2. a \notin RootsBefore(f, a)
    BY <1>2, <2>1
  <2>3. RootsBefore(f, a + 1) = {l \in D : l < a \/ l = a}
    BY <1>2, <1>4
  <2>4. QED BY <1>2, <1>8, <2>2, <2>3
<1>9. ASSUME NEW a \in Nat, a \notin D PROVE RootsBefore(f, a + 1) = RootsBefore(f, a)
  BY <1>2, <1>4, <1>9
<1>10. ASSUME NEW a \in Nat, a > N PROVE RootsBefore(f, a) = D
  BY <1>2, <1>6, <1>10
<1>11. QED BY <1>7, <1>8, <1>9, <1>10 DEF D, N

\* The hits of the roots before a, and of one root more.
LEMMA HitsGrow ==
    ASSUME withLabels \in BOOLEAN, NEW f \in DOMAIN GraphOf, NEW k \in Function,
           NEW a \in FirstRoots(f), a \in Nat
    PROVE  /\ SumOver(Hits(f, k), RootsBefore(f, a + 1))
                = SumOver(Hits(f, k), RootsBefore(f, a)) + Hits(f, k)[a]
           /\ SumOver(Hits(f, k), RootsBefore(f, a)) \in Nat
           /\ Hits(f, k)[a] \in Nat
<1> DEFINE S == RootsBefore(f, a)
           T == RootsBefore(f, a + 1)
           h == Hits(f, k)
<1>1. T = S \cup {a} /\ a \notin S
  BY RootsBeforeFacts
<1>2. IsFiniteSet(T) /\ \A m \in T : h[m] \in Nat
  <2>1. T \subseteq FirstRoots(f)
    BY DEF RootsBefore
  <2>2. IsFiniteSet(FirstRoots(f)) /\ \A m \in FirstRoots(f) : h[m] \in Nat
    BY HitsFacts
  <2> HIDE DEF T, h
  <2>3. QED BY <2>1, <2>2, FS_Subset
<1> HIDE DEF S, T, h
<1>3. SumOver(h, T) = h[a] + SumOver(h, T \ {a}) /\ SumOver(h, T \ {a}) \in Nat
  BY <1>1, <1>2, SumRemove
<1>4. T \ {a} = S /\ h[a] \in Nat
  BY <1>1, <1>2
<1>5. SumOver(h, T) = SumOver(h, S) + h[a] /\ SumOver(h, S) \in Nat
  <2>1. SumOver(h, T \ {a}) = SumOver(h, S)
    BY <1>4
  <2>2. SumOver(h, T) = h[a] + SumOver(h, S) /\ SumOver(h, S) \in Nat
    BY <1>3, <2>1
  <2>3. QED BY <1>4, <2>2
<1>6. QED BY <1>4, <1>5 DEF S, T, h
\* A root counts for the functions when no root before it has its site.
LEMMA FirstFoundIs ==
    ASSUME TypeOK, IndexHolds, Options, InScan, node \in DOMAIN Keys[gr], TheKey \in Learnt
    PROVE  /\ Index!Find(TheKey) = number[TheKey] /\ number[TheKey] # 0
           /\ FirstFound(number[TheKey]) <=> node \in FirstRoots(gr)
<1> DEFINE k == TheKey
<1>1. Index!Find(k) = number[k] /\ number[k] # 0
  BY IndexFacts DEF Index!Find, Index!Learnt, Learnt
<1>2. found = {number[j] : j \in KeysBefore(gr, node) \cap Learnt}
  BY DEF InScan, FoundSoFar
<1>3. number[k] \in found <=> k \in KeysBefore(gr, node)
  BY <1>2, IndexFacts
<1>4. k \in KeysBefore(gr, node) <=> \E l \in DOMAIN Keys[gr] : l < node /\ Keys[gr][l] = k
  BY DEF KeysBefore
<1>5. node \in FirstRoots(gr) <=> ~ \E l \in DOMAIN Keys[gr] : l < node /\ Keys[gr][l] = k
  BY DEF FirstRoots, TheKey
<1>6. QED BY <1>1, <1>3, <1>4, <1>5 DEF FirstFound

LEMMA FindSiteScan ==
    ASSUME TypeOK, IndexHolds, Options, Keys' = Keys, InScan, FindSite
    PROVE  InScan'
<1> DEFINE k == TheKey
           q == SiteQueue(GraphOf[gr], node)
<1>1. /\ UNCHANGED <<number, gr>> /\ node' = node + 1 /\ node \in Nat
      /\ gr \in DOMAIN GraphOf /\ withLabels \in BOOLEAN /\ scanFuncs \in [Function -> Nat]
  BY RunTypes DEF FindSite, index, Options
<1>2. Learnt' = Learnt
  BY <1>1 DEF Learnt, Index!Learnt
<1>3. /\ KeysBefore(gr, node)' = KeysBefore(gr, node + 1)
      /\ found = {number[j] : j \in KeysBefore(gr, node) \cap Learnt}
  <2>1. KeysBefore(gr, node)' = KeysBefore(gr, node + 1)
    BY <1>1 DEF KeysBefore
  <2>2. QED BY <2>1 DEF InScan, FoundSoFar
<1>4. FoundSoFar' = {number[j] : j \in KeysBefore(gr, node + 1) \cap Learnt}
  BY <1>1, <1>2, <1>3 DEF FoundSoFar
<1>5. ASSUME NEW f \in Function
      PROVE  /\ HitsSoFar(f)' = SumOver(Hits(gr, f), RootsBefore(gr, node + 1))
             /\ scanFuncs[f] = SumOver(Hits(gr, f), RootsBefore(gr, node))
  <2>1. Hits(gr, f)' = Hits(gr, f)
    BY <1>1 DEF Hits
  <2>2. FirstRoots(gr)' = FirstRoots(gr)
    BY <1>1, <1>2 DEF FirstRoots
  <2>3. RootsBefore(gr, node)' = RootsBefore(gr, node + 1)
    BY <1>1, <2>2 DEF RootsBefore
  <2>4. QED BY <2>1, <2>3 DEF HitsSoFar, InScan
<1>6. ASSUME FoundSoFar' = found, found' = found, scanFuncs' = scanFuncs,
             node \notin FirstRoots(gr)
      PROVE  InScan'
  <2>1. RootsBefore(gr, node + 1) = RootsBefore(gr, node)
    BY <1>1, <1>6, RootsBeforeFacts
  <2>2. ASSUME NEW f \in Function PROVE scanFuncs'[f] = HitsSoFar(f)'
    BY <1>5, <1>6, <2>1
  <2>3. QED BY <1>6, <2>2 DEF InScan
<1>7. CASE node \notin DOMAIN Keys[gr]
  <2>1. found' = found /\ scanFuncs' = scanFuncs
    BY <1>7 DEF FindSite, HasNGraph
  <2>2. node \notin FirstRoots(gr)
    BY <1>7 DEF FirstRoots
  <2>3. KeysBefore(gr, node + 1) = KeysBefore(gr, node)
    BY <1>1, <1>7, KeysBeforeFacts
  <2>4. QED BY <1>3, <1>4, <1>6, <2>1, <2>2, <2>3
<1>8. ASSUME node \in DOMAIN Keys[gr]
      PROVE  /\ KeysBefore(gr, node + 1) = KeysBefore(gr, node) \cup {k}
             /\ found' = Record(Index!Find(k))
             /\ scanFuncs' = IF FirstFound(Index!Find(k)) THEN CountFunctions(q) ELSE scanFuncs
  <2>1. KeysBefore(gr, node + 1) = KeysBefore(gr, node) \cup {k}
    BY <1>1, <1>8, KeysBeforeFacts DEF TheKey
  <2>2. QED BY <1>8, <2>1 DEF FindSite, HasNGraph, TheKey
<1>9. CASE node \in DOMAIN Keys[gr] /\ k \notin Learnt
  <2>1. Index!Find(k) = 0
    BY <1>9 DEF Index!Find, Index!Learnt, Learnt
  <2>2. found' = found /\ scanFuncs' = scanFuncs
    BY <1>8, <1>9, <2>1 DEF Record, FirstFound
  <2>3. node \notin FirstRoots(gr)
    BY <1>9 DEF FirstRoots, TheKey
  <2>4. FoundSoFar' = found
    BY <1>3, <1>4, <1>8, <1>9
  <2>5. QED BY <1>6, <2>2, <2>3, <2>4
<1>10. CASE node \in DOMAIN Keys[gr] /\ k \in Learnt
  <2>1. Index!Find(k) = number[k] /\ number[k] # 0 /\ (FirstFound(number[k]) <=> node \in FirstRoots(gr))
    BY <1>10, FirstFoundIs
  <2>2. found' = found \cup {number[k]}
    BY <1>8, <1>10, <2>1 DEF Record
  <2>3. found' = FoundSoFar'
    BY <1>3, <1>4, <1>8, <1>10, <2>2
  <2>4. CASE node \in FirstRoots(gr)
    <3>1. scanFuncs' = CountFunctions(q)
      BY <1>8, <1>10, <2>1, <2>4
    <3>2. ASSUME NEW f \in Function PROVE scanFuncs'[f] = HitsSoFar(f)'
      <4>1. Hits(gr, f)[node] = Cardinality({j \in 2..siteSize : FuncAt(q[j], f)})
        BY <1>10 DEF Hits
      <4>2. scanFuncs'[f] = scanFuncs[f] + Hits(gr, f)[node]
        BY <3>1, <4>1 DEF CountFunctions
      <4>3. SumOver(Hits(gr, f), RootsBefore(gr, node + 1))
              = SumOver(Hits(gr, f), RootsBefore(gr, node)) + Hits(gr, f)[node]
        BY <1>1, <2>4, HitsGrow
      <4>4. QED BY <1>5, <4>2, <4>3
    <3>3. QED BY <2>3, <3>2 DEF InScan
  <2>5. CASE node \notin FirstRoots(gr)
    <3>1. scanFuncs' = scanFuncs
      BY <1>8, <1>10, <2>1, <2>5
    <3>2. RootsBefore(gr, node + 1) = RootsBefore(gr, node)
      BY <1>1, <2>5, RootsBeforeFacts
    <3>3. ASSUME NEW f \in Function PROVE scanFuncs'[f] = HitsSoFar(f)'
      BY <1>5, <3>1, <3>2
    <3>4. QED BY <2>3, <3>3 DEF InScan
  <2>6. QED BY <2>4, <2>5
<1>11. QED BY <1>7, <1>9, <1>10

\* Different sites have different numbers.
LEMMA FoundCount ==
    ASSUME TypeOK, IndexHolds, Options, found = {number[k] : k \in KeysOf(gr) \cap Learnt}
    PROVE  Cardinality(found) = Cardinality(Learnt \cap KeysOf(gr))
<1> DEFINE S == Learnt \cap KeysOf(gr)
           T == found
           F == [k \in S |-> number[k]]
<1>1. IsFiniteSet(S)
  <2>1. IsFiniteSet(KeysOf(gr))
    BY KeyFacts, RunTypes DEF Options
  <2>2. S \in SUBSET KeysOf(gr)
    OBVIOUS
  <2> HIDE DEF S
  <2>3. QED BY <2>1, <2>2, FS_Subset
<1>2. \A i, j \in S : number[i] = number[j] => i = j
  BY IndexFacts
<1>3. T = {number[k] : k \in S}
  OBVIOUS
<1> HIDE DEF S, T
<1>4. F \in Surjection(S, T)
  BY <1>3 DEF Surjection
<1>5. F \in Injection(S, T)
  BY <1>2, <1>3 DEF Injection, IsInjective
<1> HIDE DEF F
<1>6. Cardinality(T) = Cardinality(S)
  BY <1>1, <1>4, <1>5, FS_Surjection
<1>7. QED BY <1>6 DEF S, T

LEMMA EndFindExact ==
    ASSUME TypeOK, IndexHolds, Options, Keys' = Keys, ScanIsExact, InScan, EndFindGraph
    PROVE  ScanIsExact'
<1> DEFINE r == [path |-> gr, sites |-> Cardinality(found), funcs |-> scanFuncs]
           R == [path : DOMAIN GraphOf, sites : Nat, funcs : [Function -> Nat]]
<1>1. /\ UNCHANGED number /\ results' = Append(results, r)
      /\ ~(node <= Len(GraphOf[gr].children)) /\ gr \in DOMAIN GraphOf
      /\ results \in Seq(R) /\ scanFuncs \in [Function -> Nat] /\ withLabels \in BOOLEAN
  BY RunTypes DEF EndFindGraph, InGraph, index, Options
<1>2. node \in Nat /\ node > Len(GraphOf[gr].children)
  <2>1. node \in Nat /\ Len(GraphOf[gr].children) \in Nat
    BY RunTypes
  <2>2. ~(node <= Len(GraphOf[gr].children))
    BY <1>1
  <2>3. QED BY <2>1, <2>2
<1>3. Learnt' = Learnt
  BY <1>1 DEF Learnt, Index!Learnt
<1>4. KeysBefore(gr, node) = KeysOf(gr) /\ RootsBefore(gr, node) = FirstRoots(gr)
  BY <1>1, <1>2, KeysBeforeFacts, RootsBeforeFacts
<1>5. Cardinality(found) = Cardinality(Learnt \cap KeysOf(gr))
  <2>1. found = {number[k] : k \in KeysOf(gr) \cap Learnt}
    BY <1>4 DEF InScan, FoundSoFar
  <2>2. QED BY <2>1, FoundCount
<1>6. \A k \in Function : scanFuncs[k] = HitsOf(gr, k)
  BY <1>4 DEF InScan, HitsSoFar, HitsOf
<1>7. Range(results') = Range(results) \cup {r}
  <2>1. r \in R
    <3>1. found \subseteq 1..nSites /\ nSites \in Nat
      BY RunTypes, IndexFacts
    <3>2. 1 \in Int /\ nSites \in Int
      BY <3>1
    <3>3. IsFiniteSet(1..nSites)
      BY <3>2, FS_Interval
    <3>4. Cardinality(found) \in Nat
      BY <3>1, <3>3, FS_Subset, FS_CardinalityType
    <3>5. QED BY <1>1, <3>4
  <2> HIDE DEF r, R
  <2>2. Range(Append(results, r)) = Range(results) \cup {r}
    BY <1>1, <2>1, RangeAppend
  <2>3. QED BY <1>1, <2>2
<1>8. SitesCountOnce'
  <2>1. r.sites = Cardinality(Learnt \cap Range(Keys[r.path]))
    BY <1>5 DEF KeysOf
  <2> HIDE DEF r
  <2>2. QED BY <1>3, <1>7, <2>1 DEF SitesCountOnce, ScanIsExact
<1>9. HitsExact'
  <2>1. ASSUME NEW f, NEW k PROVE HitsOf(f, k)' = HitsOf(f, k)
    <3>1. FirstRoots(f)' = FirstRoots(f)
      BY <1>3 DEF FirstRoots
    <3>2. Hits(f, k)' = Hits(f, k)
      BY DEF Hits
    <3>3. QED BY <3>1, <3>2 DEF HitsOf
  <2>2. \A k \in Function : r.funcs[k] = HitsOf(r.path, k)
    BY <1>6
  <2>3. HitsExact
    BY HitsAreExact DEF ScanIsExact
  <2> HIDE DEF r
  <2>4. QED BY <1>7, <2>1, <2>2, <2>3 DEF HitsExact
<1>10. QED BY <1>8, <1>9, HitsAreExactNext DEF ScanIsExact
LEMMA ScannedStep ==
    ASSUME TypeOK, IndexHolds, Options, Placed, ScannedSoFar, ScanIsExact, [Next]_vars
    PROVE  ScannedSoFar' /\ ScanIsExact'
<1>1. Keys' = Keys
  BY OptionsStep
<1>2. ScansAfter /\ (pc = "scan graph" => InScan)
  BY ScannedIs
<1>3. ASSUME Learning, UNCHANGED results, pc' # "scan graph"
      PROVE  ScannedSoFar' /\ ScanIsExact'
  <2>1. results' = <<>>
    BY <1>2, <1>3 DEF ScansAfter
  <2>2. Range(results') = {}
    BY <2>1, RangeEmpty
  <2>3. ScanIsExact'
    BY <2>2 DEF ScanIsExact, SitesCountOnce, HitsCountOnce
  <2>4. QED BY <1>3, <2>1, <2>3, ScannedIsNext DEF ScansAfter
<1>4. CASE SkipLearn \/ StartLearn \/ LearnSite \/ PassNode \/ EndLearnGraph \/ StartScanning
  <2>1. Learning /\ UNCHANGED results /\ pc' # "scan graph"
    BY <1>4 DEF SkipLearn, StartLearn, LearnSite, PassNode, EndLearnGraph, StartScanning,
       MoreToLearn, Learning
  <2>2. QED BY <1>3, <2>1
<1>5. CASE SkipScan \/ End
  <2>1. UNCHANGED <<number, results>> /\ ~Learning' /\ pc' # "scan graph"
    BY <1>5 DEF SkipScan, End, MoreToScan, Learning, index
  <2>2. QED BY <1>1, <2>1, ResultsStay, ScannedIsNext DEF ScansAfter
<1>6. CASE StartScan
  <2>1. /\ UNCHANGED <<number, results>> /\ ~Learning' /\ node' = 1 /\ found' = {}
        /\ scanFuncs' = noHits /\ gr' \in DOMAIN GraphOf /\ withLabels \in BOOLEAN
    BY <1>6, ReadsGraph DEF StartScan, Learning, index, Options
  <2>2. KeysBefore(gr, node)' = {}
    <3>1. KeysBefore(gr, node)' = KeysBefore(gr', 1)
      BY <1>1, <2>1 DEF KeysBefore
    <3>2. QED BY <2>1, <3>1, KeysBeforeFacts
  <2>3. FoundSoFar' = {}
    BY <2>2 DEF FoundSoFar
  <2>4. RootsBefore(gr, node)' = {}
    <3>1. FirstRoots(gr)' = FirstRoots(gr')
      BY <1>1, <2>1 DEF FirstRoots, Learnt, Index!Learnt
    <3>2. RootsBefore(gr, node)' = RootsBefore(gr', 1)
      BY <2>1, <3>1 DEF RootsBefore
    <3>3. QED BY <2>1, <3>2, RootsBeforeFacts
  <2>5. ASSUME NEW k \in Function PROVE scanFuncs'[k] = HitsSoFar(k)'
    <3>1. HitsSoFar(k)' = SumOver(Hits(gr, k)', {})
      BY <2>4 DEF HitsSoFar
    <3>2. HitsSoFar(k)' = 0
      BY <3>1, SumEmpty
    <3>3. QED BY <2>1, <3>2 DEF noHits
  <2>6. InScan'
    BY <2>1, <2>3, <2>5 DEF InScan
  <2>7. QED BY <1>1, <2>1, <2>6, ResultsStay, ScannedIsNext DEF ScansAfter
<1>7. CASE FindSite
  <2>1. UNCHANGED <<number, results>> /\ ~Learning' /\ pc = "scan graph"
    BY <1>7 DEF FindSite, Learning, index
  <2>2. InScan'
    BY <1>1, <1>2, <1>7, <2>1, FindSiteScan
  <2>3. QED BY <1>1, <2>1, <2>2, ResultsStay, ScannedIsNext DEF ScansAfter
<1>8. CASE EndFindGraph
  <2>1. ~Learning' /\ pc' # "scan graph" /\ pc = "scan graph"
    BY <1>8 DEF EndFindGraph, Learning
  <2>2. ScanIsExact'
    BY <1>1, <1>2, <1>8, <2>1, EndFindExact
  <2>3. QED BY <2>1, <2>2, ScannedIsNext DEF ScansAfter
<1>9. CASE UNCHANGED vars
  <2>1. UNCHANGED <<number, results, pc, gr, node, found, scanFuncs>>
    BY <1>9 DEF vars, index
  <2>2. ScanIsExact'
    BY <1>1, <2>1, ResultsStay
  <2>3. ScansAfter'
    BY <1>2, <2>1 DEF ScansAfter, Learning
  <2>4. ASSUME InScan PROVE InScan'
    <3>1. FoundSoFar' = FoundSoFar
      BY <1>1, <2>1 DEF FoundSoFar, KeysBefore, Learnt, Index!Learnt
    <3>2. ASSUME NEW k \in Function PROVE HitsSoFar(k)' = HitsSoFar(k)
      <4>1. FirstRoots(gr)' = FirstRoots(gr)
        BY <1>1, <2>1 DEF FirstRoots, Learnt, Index!Learnt
      <4>2. RootsBefore(gr, node)' = RootsBefore(gr, node)
        BY <2>1, <4>1 DEF RootsBefore
      <4>3. Hits(gr, k)' = Hits(gr, k)
        BY <1>1, <2>1 DEF Hits
      <4>4. QED BY <4>2, <4>3 DEF HitsSoFar
    <3>3. QED BY <2>1, <2>4, <3>1, <3>2 DEF InScan
  <2>5. QED BY <1>2, <2>1, <2>2, <2>3, <2>4, ScannedIsNext
<1>10. QED
  BY <1>4, <1>5, <1>6, <1>7, <1>8, <1>9 DEF Next, Ended

-----------------------------------------------------------------------------
(***************************************************************************)
(* The invariant.                                                          *)
(***************************************************************************)
LEMMA InitInv == Init => Inv
<1> SUFFICES ASSUME Init PROVE Inv
  OBVIOUS
<1>1. IndexHolds /\ number = [k \in {} |-> 0] /\ nSites = 0 /\ nProgs = 0
  <2>1. Index!Init
    BY DEF Init
  <2>2. QED BY <2>1, IndexInit DEF Index!Init
<1>2. Options
  BY DEF Init, Options
<1>3. /\ pc = "learn list" /\ line = 1 /\ gr \in DOMAIN GraphOf /\ node = 1 /\ n = 0
      /\ nLearntSites = 0 /\ progs = <<>> /\ found = {} /\ scanFuncs = noHits /\ results = <<>>
  BY SIDTAssumption DEF Init
<1>4. TypeOK
  <2>1. Len(GraphOf[gr].children) \in Nat /\ MaxProgs \in Nat
    BY <1>3, GraphFacts, SIDTAssumption
  <2>2. 1 \in 1..(MaxProgs + 1) /\ 1 \in 1..(Len(GraphOf[gr].children) + 1)
    BY <2>1
  <2>3. line \in 1..(MaxProgs + 1) /\ node \in 1..(Len(GraphOf[gr].children) + 1)
    BY <1>3, <2>2
  <2>4. scanFuncs \in [Function -> Nat]
    BY <1>3 DEF noHits
  <2>5. Index!TypeOK
    BY <1>1, IndexFacts
  <2>6. n \in Nat /\ nLearntSites \in Nat
    BY <1>3
  <2>7. /\ progs \in Seq([message : DOMAIN GraphOf, nSites : Nat])
        /\ results \in Seq([path : DOMAIN GraphOf, sites : Nat, funcs : [Function -> Nat]])
    <3> DEFINE P == [message : DOMAIN GraphOf, nSites : Nat]
               R == [path : DOMAIN GraphOf, sites : Nat, funcs : [Function -> Nat]]
    <3>1. progs = <<>> /\ results = <<>>
      BY <1>3
    <3> HIDE DEF P, R
    <3>2. <<>> \in Seq(P) /\ <<>> \in Seq(R)
      OBVIOUS
    <3>3. QED BY <3>1, <3>2 DEF P, R
  <2>8. QED BY <1>3, <2>3, <2>4, <2>5, <2>6, <2>7 DEF TypeOK
<1>5. Placed
  <2>1. Len(toLearn.paths) \in Nat /\ Len(toLearn.paths) <= MaxProgs
    BY <1>2, ListFacts DEF Options
  <2>2. 1 <= Len(toLearn.paths) + 1
    BY <2>1
  <2>3. Len(progs) = 0
    BY <1>3
  <2>4. QED BY <1>1, <1>3, <2>2, <2>3 DEF Placed
<1>6. Learnt = {} /\ Learning
  BY <1>1, <1>3 DEF Learnt, Index!Learnt, Learning
<1>7. CountersAgree
  <2>1. DOMAIN progs = {}
    <3>1. progs = <<>>
      BY <1>3
    <3>2. QED BY <3>1
  <2>2. Counted = 0
    BY <2>1, SumEmpty DEF Counted
  <2>3. InHand = 0
    <3>1. pc # "learn graph"
      BY <1>3
    <3>2. QED BY <3>1 DEF InHand
  <2>4. nSites = Counted + InHand
    BY <1>1, <2>2, <2>3
  <2>5. nLearntSites = nSites
    BY <1>1, <1>3
  <2>6. QED BY <2>4, <2>5, CountersSum DEF SumsAgree
<1>8. LearntSoFar
  <2>1. LinesLearnt
    <3>1. line = 1
      BY <1>3
    <3>2. 1..(line - 1) = {}
      BY <3>1
    <3>3. QED BY <3>2 DEF LinesLearnt
  <2>2. siteCountLimit # 0 => nSites <= siteCountLimit
    <3>1. siteCountLimit \in Nat
      BY <1>2, SIDTAssumption DEF Options
    <3>2. QED BY <1>1, <3>1
  <2>3. IsFiniteSet(Learnt) /\ nSites = Cardinality(Learnt)
    BY <1>1, <1>6, FS_EmptySet
  <2>4. QED BY <1>3, <1>6, <2>1, <2>2, <2>3 DEF LearntSoFar
<1>9. OwnersSoFar
  <2>1. 1..nProgs = {}
    BY <1>1
  <2>2. QED BY <2>1 DEF OwnersSoFar
<1>10. ScannedSoFar
  BY <1>3 DEF ScannedSoFar
<1>11. ScanIsExact
  <2>1. Range(results) = {}
    BY <1>3, RangeEmpty
  <2>2. QED BY <2>1 DEF ScanIsExact, SitesCountOnce, HitsCountOnce
<1>12. QED
  BY <1>1, <1>2, <1>4, <1>5, <1>7, <1>8, <1>9, <1>10, <1>11 DEF Inv

LEMMA StepInv == Inv /\ [Next]_vars => Inv'
<1> SUFFICES ASSUME Inv, [Next]_vars PROVE Inv'
  OBVIOUS
<1> USE DEF Inv
<1>1. TypeOK'
  BY TypeStep
<1>2. IndexHolds'
  BY IndexStep
<1>3. Options'
  BY OptionsStep DEF Options, options
<1>4. Placed'
  BY PlacedStep
<1>5. CountersAgree'
  BY CountersStep
<1>6. LearntSoFar'
  BY LearntStep
<1>7. OwnersSoFar'
  BY OwnersStep
<1>8. ScannedSoFar' /\ ScanIsExact'
  BY ScannedStep
<1>9. QED
  BY <1>1, <1>2, <1>3, <1>4, <1>5, <1>6, <1>7, <1>8

(***************************************************************************)
(* For every choice of graphs, lists, limit and functions, the inductive   *)
(* invariant holds all along a run.                                        *)
(***************************************************************************)
THEOREM Invariance == Spec => []Inv
<1>1. QED BY InitInv, StepInv, PTL DEF Spec

(***************************************************************************)
(* The types hold, and the three counts of learnt sites agree at every     *)
(* step, whatever the lists and the limit.                                 *)
(***************************************************************************)
THEOREM IndexCorrect == Spec => []IndexInv
<1>1. Inv => IndexInv
  BY DEF Inv, IndexInv
<1>2. QED BY <1>1, Invariance, PTL

(***************************************************************************)
(* Learning stores all the sites asked for, or as many as the limit.       *)
(***************************************************************************)
THEOREM LearntCorrect == Spec => []LearntIsWanted
<1>1. Inv => LearntIsWanted
  <2> SUFFICES ASSUME Inv, ~Learning PROVE LearntIsWanted
    BY DEF LearntIsWanted
  <2>1. /\ Learnt \subseteq Wanted /\ nSites = Cardinality(Learnt)
        /\ siteCountLimit # 0 => nSites <= siteCountLimit
        /\ BelowLimit => Wanted \subseteq Learnt
    BY DEF Inv, LearntSoFar
  <2>2. /\ siteCountLimit \in Nat /\ nSites \in Nat
        /\ BelowLimit <=> siteCountLimit = 0 \/ nSites < siteCountLimit
    BY LimitFacts, CountersSum DEF Inv, SumsAgree
  <2>3. IsFiniteSet(Wanted) /\ Cardinality(Wanted) \in Nat
    BY WantedFinite, FS_CardinalityType DEF Inv
  <2>4. Cardinality(Learnt) <= Cardinality(Wanted)
    BY <2>1, <2>3, FS_Subset
  <2> DEFINE w == Cardinality(Wanted)
             c == siteCountLimit
  <2>5. BelowLimit => nSites = w
    BY <2>1
  <2>6. w \in Nat /\ nSites <= w
    BY <2>1, <2>3, <2>4
  <2> HIDE DEF w
  <2>7. nSites = IF c = 0 THEN w ELSE Min({c, w})
    <3>1. CASE c = 0
      BY <2>2, <2>5, <3>1
    <3>2. CASE c # 0 /\ nSites < c
      <4>1. nSites = w /\ w < c
        BY <2>2, <2>5, <3>2
      <4>2. \A y \in {c, w} : w <= y
        BY <2>2, <2>6, <4>1
      <4>3. Min({c, w}) = w
        BY <2>2, <2>6, <4>1, <4>2 DEF Min
      <4>4. QED BY <3>2, <4>1, <4>3
    <3>3. CASE c # 0 /\ ~(nSites < c)
      <4>1. nSites = c
        BY <2>1, <2>2, <3>3
      <4>2. \A y \in {c, w} : c <= y
        BY <2>2, <2>6, <4>1
      <4>3. Min({c, w}) = c
        BY <2>2, <2>6, <4>1, <4>2 DEF Min
      <4>4. QED BY <3>3, <4>1, <4>3
    <3>4. QED BY <3>1, <3>2, <3>3
  <2>8. QED BY <2>1, <2>7 DEF LearntIsWanted, w
<1>2. QED BY <1>1, Invariance, PTL

(***************************************************************************)
(* Without a limit a site belongs to exactly the programs that contain it. *)
(***************************************************************************)
THEOREM OwnersCorrect == Spec => []OwnersAreExact
<1>1. Inv => OwnersAreExact
  <2> SUFFICES ASSUME Inv, ~Learning, siteCountLimit = 0, NEW k \in Learnt, NEW p \in 1..nProgs
               PROVE  p \in owners[number[k]] <=> k \in Range(Keys[progs[p].message])
    BY DEF OwnersAreExact
  <2>1. Owned(p)
    BY OwnersAre DEF Inv
  <2>2. Shown(p) = KeysOf(progs[p].message)
    BY DEF Shown, Learning
  <2>3. QED BY <2>1, <2>2 DEF Owned, KeysOf
<1>2. QED BY <1>1, Invariance, PTL

(***************************************************************************)
(* What findGraph gives for a scanned graph counts each learnt site once.  *)
(***************************************************************************)
THEOREM ScanCorrect == Spec => []ScanIsExact
<1>1. Inv => ScanIsExact
  BY DEF Inv
<1>2. QED BY <1>1, Invariance, PTL
=============================================================================
