----------------------------- MODULE SiteIndex -----------------------------
(***************************************************************************)
(* What the decision tree of SIDT promises: an index of sites.  Each site, *)
(* known by its key, has one number; numbers are given in order from 1, 0  *)
(* being kept for "no site"; and each site remembers the programs it was   *)
(* learnt from.  DecisionTree is the implementation, SIDT the client.      *)
(***************************************************************************)
EXTENDS Naturals

CONSTANTS
    Keys,       \* what tells two sites apart
    MaxProgs    \* bound on the number of programs learnt

VARIABLES
    number,     \* learnt key -> number of its site
    owners,     \* number -> programs the site was learnt from (site->progs)
    nSites,     \* dt->nSites
    nProgs,     \* dt->nProgs
    answer      \* the last call and what it returned

ivars == <<number, owners, nSites, nProgs, answer>>

Learnt == DOMAIN number
Prog == 1..nProgs

Answer(learn, k, i) == [learn |-> learn, key |-> k, i |-> i]
Find(k) == IF k \in Learnt THEN number[k] ELSE 0

Init == /\ number = [k \in {} |-> 0]
        /\ owners = [i \in {} |-> {}]
        /\ nSites = 0 /\ nProgs = 0
        /\ answer = [learn |-> FALSE, i |-> 0]

\* addProgToDT: later calls of learnSite are for the new program.
AddProg == /\ nProgs < MaxProgs
           /\ nProgs' = nProgs + 1
           /\ UNCHANGED <<number, owners, nSites, answer>>

\* The number of a new site, and what learning records of the program.
NewNumber == nSites + 1

FirstOwner == {nProgs}

WithOwner(i) == owners[i] \cup {nProgs}

IsNew(k) == k \notin Learnt

\* A new site: learnSite returns 0.
LearnNew(k) ==
    /\ nProgs > 0 /\ IsNew(k)
    /\ nSites' = nSites + 1
    /\ number' = [j \in Learnt \cup {k} |-> IF j = k THEN NewNumber ELSE number[j]]
    /\ owners' = [i \in 1..nSites' |-> IF i = nSites' THEN FirstOwner ELSE owners[i]]
    /\ answer' = Answer(TRUE, k, 0)
    /\ UNCHANGED nProgs

\* A known site: learnSite returns its number.
LearnKnown(k) ==
    /\ nProgs > 0 /\ k \in Learnt
    /\ owners' = [owners EXCEPT ![number[k]] = WithOwner(number[k])]
    /\ answer' = Answer(TRUE, k, number[k])
    /\ UNCHANGED <<number, nSites, nProgs>>

Learn(k) == LearnNew(k) \/ LearnKnown(k)

Look(k) == /\ answer' = Answer(FALSE, k, Find(k))
           /\ UNCHANGED <<number, owners, nSites, nProgs>>

Next == AddProg \/ \E k \in Keys : Learn(k) \/ Look(k)

Spec == Init /\ [][Next]_ivars

-----------------------------------------------------------------------------
TypeOK ==
    /\ nSites \in Nat /\ nProgs \in Nat
    /\ Learnt \subseteq Keys /\ number \in [Learnt -> 1..nSites]
    /\ owners \in [1..nSites -> SUBSET Prog]

(***************************************************************************)
(* The numbers in use are 1..nSites, one site each: dt->sites[i-1] is the  *)
(* site numbered i and no other, and counting distinct numbers (findGraph) *)
(* counts distinct sites.                                                  *)
(***************************************************************************)
NumbersAreSites ==
    /\ \A j, k \in Learnt : number[j] = number[k] => j = k
    /\ \A i \in 1..nSites : \E k \in Learnt : number[k] = i

\* No site without a program it was learnt from.
EverySiteOwned == \A i \in 1..nSites : owners[i] # {}

(***************************************************************************)
(* The index only grows: a site keeps its number and its programs.         *)
(***************************************************************************)
OnlyGrows ==
    [][/\ Learnt \subseteq Learnt'
       /\ \A k \in Learnt : number'[k] = number[k]
       /\ \A i \in 1..nSites : owners[i] \subseteq owners'[i]]_ivars
=============================================================================
