----------------------------- MODULE DataLemmas -----------------------------
(***************************************************************************)
(* Facts about the data the models are built from, for the proofs of the   *)
(* other modules: sequences, the recursive functions behind MapThenSumSet  *)
(* and FoldLeft, and what a node of a graph reaches.                       *)
(*                                                                         *)
(* The induction theorems of the library take an operator as a parameter.  *)
(* The ones here are about sets instead: a set of numbers that holds 0 and *)
(* the successor of each of its elements is Nat.  A function defined by    *)
(* recursion on the subsets of a finite set is shown to exist for any      *)
(* function F that says how one more element is folded in.                 *)
(***************************************************************************)
EXTENDS CFG, FiniteSetTheorems, FunctionTheorems, SequenceTheorems, TLAPS

(***************************************************************************)
(* Induction over the natural numbers, as a fact about sets.               *)
(***************************************************************************)
LEMMA SetInduction ==
    ASSUME NEW S, S \subseteq Nat, 0 \in S, \A n \in S : n + 1 \in S
    PROVE  S = Nat
<1>1. ASSUME Nat \ S # {} PROVE FALSE
  <2>1. IsWellFoundedOn(OpToRel(<,Nat), Nat)
    BY NatLessThanWellFounded
  <2>2. PICK x \in Nat \ S : \A y \in Nat \ S : ~(<<y, x>> \in OpToRel(<,Nat))
    BY <1>1, <2>1, WFMin
  <2>3. x # 0 /\ x \in Nat
    BY <2>2
  <2>4. x - 1 \in Nat /\ x = (x - 1) + 1
    BY <2>3
  <2>5. x - 1 \in Nat \ S
    BY <2>4
  <2>6. <<x - 1, x>> \in OpToRel(<,Nat)
    BY <2>3, <2>4 DEF OpToRel
  <2>7. QED BY <2>2, <2>5, <2>6
<1>2. QED BY <1>1

LEMMA LeastIsIn ==
    ASSUME NEW S, S \subseteq Nat, S # {}
    PROVE  Min(S) \in S /\ \A y \in S : Min(S) <= y
<1>1. IsWellFoundedOn(OpToRel(<,Nat), Nat)
  BY NatLessThanWellFounded
<1>2. PICK x \in S : \A y \in S : ~(<<y, x>> \in OpToRel(<,Nat))
  BY <1>1, WFMin
<1>3. \A y \in S : x <= y
  <2>1. ASSUME NEW y \in S, ~(x <= y) PROVE FALSE
    <3>1. y < x /\ y \in Nat /\ x \in Nat
      BY <2>1
    <3>2. <<y, x>> \in OpToRel(<,Nat)
      BY <3>1 DEF OpToRel
    <3>3. QED BY <1>2, <3>2
  <2>2. QED BY <2>1
<1>4. QED BY <1>3 DEF Min

(***************************************************************************)
(* The same for an initial part of the numbers: what holds of 0 and, up to *)
(* n, of the successor, holds up to n.                                     *)
(***************************************************************************)
LEMMA SetInductionUpTo ==
    ASSUME NEW n \in Nat, NEW S, 0 \in S, \A k \in 0..n : k \in S /\ k < n => k + 1 \in S
    PROVE  0..n \subseteq S
<1> DEFINE T == {k \in Nat : k <= n => k \in S}
<1>1. 0 \in T
  OBVIOUS
<1>2. \A k \in T : k + 1 \in T
  OBVIOUS
<1>3. T = Nat
  <2> HIDE DEF T
  <2>1. T \subseteq Nat
    BY DEF T
  <2>2. QED BY <1>1, <1>2, <2>1, SetInduction
<1>4. QED BY <1>3

-----------------------------------------------------------------------------
(***************************************************************************)
(* Folding over a finite set.  c chooses the element that is folded in     *)
(* last, F folds it in.                                                    *)
(***************************************************************************)
Chooses(c, S) == \A T \in (SUBSET S) \ {{}} : c[T] \in T

FoldsIn(F, S, A) == F \in [S \X A -> A]

FoldsTo(g, F, base, c, T) ==
    g[T] = IF T = {} THEN base ELSE F[<<c[T], g[T \ {c[T]}]>>]

HasFold(F, base, c, S, A) ==
    \E g \in [SUBSET S -> A] : \A T \in SUBSET S : FoldsTo(g, F, base, c, T)

(***************************************************************************)
(* The recursive function exists: built for larger and larger subsets.     *)
(***************************************************************************)
LEMMA FoldExists ==
    ASSUME NEW S, IsFiniteSet(S), NEW A, NEW base \in A,
           NEW F, FoldsIn(F, S, A), NEW c, Chooses(c, S)
    PROVE  HasFold(F, base, c, S, A)
<1> DEFINE Upto(n) == {T \in SUBSET S : Cardinality(T) <= n}
           Good == {n \in Nat : \E g \in [SUBSET S -> A] :
                                   \A T \in Upto(n) : FoldsTo(g, F, base, c, T)}
<1>1. 0 \in Good
  <2>1. \A T \in Upto(0) : T = {}
    BY FS_Subset, FS_EmptySet, FS_CardinalityType
  <2>2. [T \in SUBSET S |-> base] \in [SUBSET S -> A]
    OBVIOUS
  <2>3. \A T \in Upto(0) : FoldsTo([U \in SUBSET S |-> base], F, base, c, T)
    BY <2>1 DEF FoldsTo
  <2>4. QED BY <2>2, <2>3
<1>2. ASSUME NEW n \in Good PROVE n + 1 \in Good
  <2>1. PICK g \in [SUBSET S -> A] : \A T \in Upto(n) : FoldsTo(g, F, base, c, T)
    OBVIOUS
  <2> DEFINE h == [T \in SUBSET S |-> IF T \in Upto(n) THEN g[T]
                        ELSE F[<<c[T], g[T \ {c[T]}]>>]]
  <2>2. n \in Nat
    OBVIOUS
  <2>3. ASSUME NEW T \in SUBSET S, T # {}
        PROVE  /\ c[T] \in S /\ T \ {c[T]} \in SUBSET S
               /\ F[<<c[T], g[T \ {c[T]}]>>] \in A
    <3>1. c[T] \in T
      BY <2>3 DEF Chooses
    <3>2. T \ {c[T]} \in SUBSET S /\ c[T] \in S
      BY <3>1
    <3>3. QED BY <3>2 DEF FoldsIn
  <2>4. h \in [SUBSET S -> A]
    <3>1. {} \in Upto(n)
      BY FS_EmptySet, <2>2
    <3>2. \A T \in SUBSET S : T \notin Upto(n) => T # {}
      BY <3>1
    <3> HIDE DEF Upto
    <3>3. QED BY <3>2, <2>3
  <2>5. ASSUME NEW T \in Upto(n + 1) PROVE FoldsTo(h, F, base, c, T)
    <3>1. CASE T = {}
      <4>1. T \in Upto(n)
        BY FS_EmptySet, <2>2, <3>1
      <4>2. g[T] = base
        BY <4>1, <2>1, <3>1 DEF FoldsTo
      <4>3. QED BY <4>1, <4>2, <3>1 DEF FoldsTo
    <3>2. CASE T # {}
      <4>1. c[T] \in T
        BY <3>2 DEF Chooses
      <4>2. T \ {c[T]} \in Upto(n)
        <5>1. IsFiniteSet(T) /\ Cardinality(T) <= n + 1
          BY FS_Subset
        <5>2. Cardinality(T \ {c[T]}) = Cardinality(T) - 1 /\ Cardinality(T) \in Nat
          BY <5>1, <4>1, FS_RemoveElement, FS_CardinalityType
        <5>3. QED BY <5>1, <5>2, <2>2
      <4>3. h[T \ {c[T]}] = g[T \ {c[T]}]
        BY <4>2
      <4>4. h[T] = F[<<c[T], g[T \ {c[T]}]>>]
        <5>1. CASE T \in Upto(n)
          BY <5>1, <2>1, <3>2 DEF FoldsTo
        <5>2. CASE T \notin Upto(n)
          <6> HIDE DEF Upto
          <6>1. T \in SUBSET S
            BY DEF Upto
          <6>2. QED BY <5>2, <6>1
        <5>3. QED BY <5>1, <5>2
      <4>5. QED BY <4>3, <4>4, <3>2 DEF FoldsTo
    <3>3. QED BY <3>1, <3>2
  <2> HIDE DEF h
  <2>6. QED BY <2>2, <2>4, <2>5
<1>3. Good = Nat
  <2>1. Good \subseteq Nat
    OBVIOUS
  <2> HIDE DEF Good
  <2>2. QED BY <1>1, <1>2, <2>1, SetInduction
<1>4. Cardinality(S) \in Good
  BY <1>3, FS_CardinalityType
<1>5. PICK g \in [SUBSET S -> A] :
            \A T \in Upto(Cardinality(S)) : FoldsTo(g, F, base, c, T)
  BY <1>4
<1>6. \A T \in SUBSET S : T \in Upto(Cardinality(S))
  BY FS_Subset
<1>7. QED
  <2> HIDE DEF Upto
  <2>1. QED BY <1>5, <1>6 DEF HasFold

-----------------------------------------------------------------------------
(***************************************************************************)
(* Recursion along a sequence: FoldLeft folds the largest index last.      *)
(***************************************************************************)
Iterates(r, F, base, n) == /\ r[0] = base
                           /\ \A k \in 1..n : r[k] = F[<<k, r[k - 1]>>]

MaxIn(n) == [T \in SUBSET (1..n) |-> Max(T)]

LEMMA MaxIsLargest ==
    ASSUME NEW n \in Nat, NEW T \in (SUBSET (1..n)) \ {{}}
    PROVE  Max(T) \in T /\ \A u \in T : u <= Max(T)
<1>1. PICK x \in {n - t : t \in T} : \A y \in {n - t : t \in T} :
          ~(<<y, x>> \in OpToRel(<,Nat))
  <2>1. {n - t : t \in T} \subseteq Nat /\ {n - t : t \in T} # {}
    OBVIOUS
  <2>2. QED BY <2>1, NatLessThanWellFounded, WFMin
<1>2. PICK t \in T : x = n - t
  OBVIOUS
<1>3. \A u \in T : t >= u
  <2>1. ASSUME NEW u \in T, u > t PROVE FALSE
    <3>1. n - u \in {n - v : v \in T} /\ n - u \in Nat /\ x \in Nat /\ n - u < x
      BY <1>2, <2>1
    <3>2. <<n - u, x>> \in OpToRel(<,Nat)
      BY <3>1 DEF OpToRel
    <3>3. QED BY <1>1, <3>1, <3>2
  <2>2. QED BY <2>1
<1>4. QED BY <1>3 DEF Max

LEMMA MaxChosen ==
    ASSUME NEW n \in Nat
    PROVE  /\ IsFiniteSet(1..n)
           /\ Chooses(MaxIn(n), 1..n)
           /\ \A T \in (SUBSET (1..n)) \ {{}} : Max(T) \in T
           /\ \A k \in 1..n : Max(1..k) = k /\ (1..k) \ {k} = 1..(k - 1)
<1>1. IsFiniteSet(1..n)
  BY FS_Interval
<1>2. ASSUME NEW T \in (SUBSET (1..n)) \ {{}} PROVE Max(T) \in T
  BY MaxIsLargest
<1>3. ASSUME NEW k \in 1..n PROVE Max(1..k) = k
  <2>1. Max(1..k) \in 1..k /\ \A y \in 1..k : Max(1..k) >= y
    <3>1. k \in 1..k /\ \A y \in 1..k : k >= y
      OBVIOUS
    <3>2. QED BY <3>1 DEF Max
  <2>2. QED BY <2>1
<1>4. Chooses(MaxIn(n), 1..n)
  BY <1>2 DEF Chooses, MaxIn
<1>5. QED BY <1>1, <1>2, <1>3, <1>4

LEMMA IterationExists ==
    ASSUME NEW n \in Nat, NEW A, NEW base \in A, NEW F, FoldsIn(F, 1..n, A)
    PROVE  \E r \in [0..n -> A] : Iterates(r, F, base, n)
<1>1. HasFold(F, base, MaxIn(n), 1..n, A)
  <2> DEFINE S == 1..n
             c == MaxIn(n)
  <2>1. IsFiniteSet(S) /\ Chooses(c, S)
    BY MaxChosen
  <2> HIDE DEF S, c
  <2>2. FoldsIn(F, S, A)
    BY DEF S
  <2>3. HasFold(F, base, c, S, A)
    BY <2>1, <2>2, FoldExists
  <2>4. QED BY <2>3 DEF S, c
<1>2. PICK g \in [SUBSET (1..n) -> A] :
            \A T \in SUBSET (1..n) : FoldsTo(g, F, base, MaxIn(n), T)
  BY <1>1 DEF HasFold
<1> DEFINE r == [k \in 0..n |-> g[1..k]]
<1>3. \A k \in 0..n : 1..k \in SUBSET (1..n)
  OBVIOUS
<1>4. r \in [0..n -> A]
  BY <1>2, <1>3
<1>5. r[0] = base
  <2>1. 1..0 = {} /\ {} \in SUBSET (1..n)
    OBVIOUS
  <2>2. g[{}] = base
    BY <1>2, <2>1 DEF FoldsTo
  <2>3. r[0] = g[1..0]
    OBVIOUS
  <2>4. QED BY <2>1, <2>2, <2>3
<1>6. ASSUME NEW k \in 1..n PROVE r[k] = F[<<k, r[k - 1]>>]
  <2>0. \A m \in 1..n : Max(1..m) = m /\ (1..m) \ {m} = 1..(m - 1)
    BY MaxChosen
  <2>1. /\ 1..k \in SUBSET (1..n) /\ 1..k # {} /\ Max(1..k) = k
        /\ (1..k) \ {k} = 1..(k - 1)
    BY <2>0
  <2>2. MaxIn(n)[1..k] = k
    BY <2>1 DEF MaxIn
  <2>3. r[k] = g[1..k] /\ r[k - 1] = g[1..(k - 1)]
    OBVIOUS
  <2> HIDE DEF r
  <2>4. QED BY <1>2, <2>1, <2>2, <2>3 DEF FoldsTo
<1> HIDE DEF r
<1>7. QED BY <1>4, <1>5, <1>6 DEF Iterates

-----------------------------------------------------------------------------
(***************************************************************************)
(* Sums over a finite set.  SumAt says that g gives the sum over T from    *)
(* the sum over T without the element that MapThenSumSet removes.          *)
(***************************************************************************)
SumOver(f, S) == MapThenSumSet(LAMBDA x : f[x], S)

SumAt(g, f, T) ==
    g[T] = IF T = {} THEN 0
           ELSE f[CHOOSE x \in T : TRUE] + g[T \ {CHOOSE x \in T : TRUE}]

SumsOn(g, f, S) == \A T \in SUBSET S : SumAt(g, f, T)

LEMMA SumExists ==
    ASSUME NEW S, IsFiniteSet(S), NEW f, \A x \in S : f[x] \in Nat
    PROVE  \E g \in [SUBSET S -> Nat] : SumsOn(g, f, S)
<1> DEFINE c == [T \in SUBSET S |-> CHOOSE x \in T : TRUE]
           F == [xa \in S \X Nat |-> f[xa[1]] + xa[2]]
           zero == 0
<1>1. FoldsIn(F, S, Nat)
  BY DEF FoldsIn
<1>2. Chooses(c, S)
  BY DEF Chooses
<1>3. PICK g \in [SUBSET S -> Nat] : \A T \in SUBSET S : FoldsTo(g, F, 0, c, T)
  <2>1. zero \in Nat
    OBVIOUS
  <2> HIDE DEF c, F, zero
  <2>2. HasFold(F, zero, c, S, Nat)
    BY <1>1, <1>2, <2>1, FoldExists
  <2>3. QED BY <2>2 DEF HasFold, zero
<1>4. ASSUME NEW T \in SUBSET S PROVE SumAt(g, f, T)
  <2>1. CASE T = {}
    BY <2>1, <1>3 DEF FoldsTo, SumAt
  <2>2. CASE T # {}
    <3>1. c[T] \in S /\ g[T \ {c[T]}] \in Nat
      <4>1. c[T] \in T
        BY <1>2, <2>2 DEF Chooses
      <4>2. QED BY <4>1
    <3>2. g[T] = F[<<c[T], g[T \ {c[T]}]>>]
      BY <1>3, <2>2 DEF FoldsTo
    <3>3. \A x \in S, n \in Nat : F[<<x, n>>] = f[x] + n
      OBVIOUS
    <3>4. g[T] = f[c[T]] + g[T \ {c[T]}]
      <4> HIDE DEF c, F
      <4>1. QED BY <3>1, <3>2, <3>3
    <3>5. QED BY <3>4, <2>2 DEF SumAt
  <2>3. QED BY <2>1, <2>2
<1>5. QED BY <1>4 DEF SumsOn

LEMMA SumUnique ==
    ASSUME NEW S, IsFiniteSet(S), NEW f, NEW g, NEW h,
           SumsOn(g, f, S), SumsOn(h, f, S)
    PROVE  \A T \in SUBSET S : g[T] = h[T]
<1> DEFINE Good == {n \in Nat : \A T \in SUBSET S : Cardinality(T) <= n => g[T] = h[T]}
<1>1. 0 \in Good
  <2>1. \A T \in SUBSET S : Cardinality(T) <= 0 => T = {}
    BY FS_Subset, FS_EmptySet, FS_CardinalityType
  <2>2. QED BY <2>1 DEF SumAt, SumsOn
<1>2. ASSUME NEW n \in Good PROVE n + 1 \in Good
  <2>1. ASSUME NEW T \in SUBSET S, Cardinality(T) <= n + 1 PROVE g[T] = h[T]
    <3>1. CASE T = {}
      BY <3>1 DEF SumAt, SumsOn
    <3>2. CASE T # {}
      <4> DEFINE x == CHOOSE y \in T : TRUE
      <4>1. x \in T
        BY <3>2
      <4>2. Cardinality(T \ {x}) = Cardinality(T) - 1 /\ Cardinality(T) \in Nat
        <5> HIDE DEF x
        <5>1. QED BY <4>1, FS_Subset, FS_RemoveElement, FS_CardinalityType
      <4>3. n \in Nat /\ Cardinality(T \ {x}) <= n
        BY <4>2, <2>1
      <4>4. g[T \ {x}] = h[T \ {x}]
        <5> HIDE DEF x
        <5>1. QED BY <4>3
      <4>5. QED BY <4>4, <3>2 DEF SumAt, SumsOn
    <3>3. QED BY <3>1, <3>2
  <2>2. n + 1 \in Nat
    OBVIOUS
  <2>3. QED BY <2>1, <2>2
<1>3. Good = Nat
  <2>1. Good \subseteq Nat
    OBVIOUS
  <2> HIDE DEF Good
  <2>2. QED BY <1>1, <1>2, <2>1, SetInduction
<1>4. ASSUME NEW T \in SUBSET S PROVE g[T] = h[T]
  <2>1. Cardinality(T) \in Good
    BY <1>3, FS_Subset, FS_CardinalityType
  <2>2. Cardinality(T) <= Cardinality(T)
    BY <2>1
  <2>3. QED BY <2>1, <2>2
<1>5. QED BY <1>4

LEMMA SumIs ==
    ASSUME NEW S, IsFiniteSet(S), NEW f, \A x \in S : f[x] \in Nat,
           NEW g, SumsOn(g, f, S)
    PROVE  SumOver(f, S) = g[S]
<1> DEFINE P(h) == h = [T \in SUBSET S |->
                          IF T = {} THEN 0
                          ELSE f[CHOOSE x \in T : TRUE] + h[T \ {CHOOSE x \in T : TRUE}]]
           G == CHOOSE h : P(h)
<1>1. SumOver(f, S) = G[S]
  BY DEF SumOver, MapThenSumSet, MapThenFoldSet
<1>2. PICK h \in [SUBSET S -> Nat] : SumsOn(h, f, S)
  BY SumExists
<1>3. P(h)
  BY <1>2 DEF SumAt, SumsOn
<1>4. P(G)
  <2> HIDE DEF P
  <2>1. QED BY <1>3
<1>5. SumsOn(G, f, S)
  <2> HIDE DEF G
  <2>1. QED BY <1>4 DEF SumAt, SumsOn
<1>6. QED
  <2> HIDE DEF G
  <2>1. \A T \in SUBSET S : G[T] = g[T]
    BY <1>5, SumUnique
  <2>2. QED BY <1>1, <2>1

(***************************************************************************)
(* The sum over a part of S is given by the same function.                 *)
(***************************************************************************)
LEMMA SumOfPart ==
    ASSUME NEW S, IsFiniteSet(S), NEW f, \A x \in S : f[x] \in Nat,
           NEW g, SumsOn(g, f, S), NEW T \in SUBSET S
    PROVE  SumOver(f, T) = g[T]
<1>1. IsFiniteSet(T) /\ \A x \in T : f[x] \in Nat
  BY FS_Subset
<1>2. SumsOn(g, f, T)
  BY DEF SumsOn
<1>3. QED BY <1>1, <1>2, SumIs

RemovesAny(g, f, S) == \A T \in SUBSET S : \A x \in T : g[T] = f[x] + g[T \ {x}]

(***************************************************************************)
(* Any element may be taken out, not only the one CHOOSE takes.            *)
(***************************************************************************)
LEMMA SumRemoves ==
    ASSUME NEW S, IsFiniteSet(S), NEW f, \A x \in S : f[x] \in Nat,
           NEW g \in [SUBSET S -> Nat], SumsOn(g, f, S)
    PROVE  RemovesAny(g, f, S)
<1> DEFINE Good == {n \in Nat : \A T \in SUBSET S : \A x \in T :
                        Cardinality(T) <= n => g[T] = f[x] + g[T \ {x}]}
<1>0. ASSUME NEW T \in SUBSET S, NEW x \in T
      PROVE  /\ T \ {x} \in SUBSET S /\ Cardinality(T) \in Nat
             /\ Cardinality(T \ {x}) = Cardinality(T) - 1
             /\ Cardinality(T \ {x}) \in Nat
  BY FS_Subset, FS_RemoveElement, FS_CardinalityType
<1>1. 0 \in Good
  <2>1. ASSUME NEW T \in SUBSET S, NEW x \in T PROVE ~(Cardinality(T) <= 0)
    <3>1. /\ Cardinality(T) \in Nat /\ Cardinality(T \ {x}) \in Nat
          /\ Cardinality(T \ {x}) = Cardinality(T) - 1
      BY <1>0
    <3>2. QED BY <3>1
  <2>2. QED BY <2>1
<1>2. ASSUME NEW n \in Good PROVE n + 1 \in Good
  <2>1. ASSUME NEW T \in SUBSET S, NEW x \in T, Cardinality(T) <= n + 1
        PROVE  g[T] = f[x] + g[T \ {x}]
    <3> DEFINE y == CHOOSE z \in T : TRUE
    <3>1. y \in T
      OBVIOUS
    <3>2. g[T] = f[y] + g[T \ {y}]
      BY DEF SumsOn, SumAt
    <3> HIDE DEF y
    <3>3. CASE x = y
      BY <3>2, <3>3
    <3>4. CASE x # y
      <4>1. x \in T \ {y} /\ y \in T \ {x} /\ T \ {x} \in SUBSET S /\ T \ {y} \in SUBSET S
        BY <3>1, <3>4
      <4>2. n \in Nat /\ Cardinality(T \ {x}) <= n /\ Cardinality(T \ {y}) <= n
        BY <1>0, <2>1, <3>1
      <4>3. g[T \ {y}] = f[x] + g[(T \ {y}) \ {x}]
        BY <4>1, <4>2
      <4>4. g[T \ {x}] = f[y] + g[(T \ {x}) \ {y}]
        BY <4>1, <4>2
      <4>5. (T \ {y}) \ {x} = (T \ {x}) \ {y}
        OBVIOUS
      <4>6. /\ f[x] \in Nat /\ f[y] \in Nat
            /\ g[T] \in Nat /\ g[(T \ {x}) \ {y}] \in Nat
        <5>1. x \in S /\ y \in S /\ (T \ {x}) \ {y} \in SUBSET S
          BY <3>1
        <5>2. QED BY <5>1
      <4> DEFINE r == g[(T \ {x}) \ {y}]
      <4>7. r \in Nat /\ g[T \ {y}] = f[x] + r
        BY <4>3, <4>5, <4>6
      <4> HIDE DEF r
      <4>8. g[T \ {x}] = f[y] + r
        BY <4>4 DEF r
      <4>9. QED BY <3>2, <4>6, <4>7, <4>8
    <3>5. QED BY <3>3, <3>4
  <2>2. n + 1 \in Nat
    OBVIOUS
  <2>3. QED BY <2>1, <2>2
<1>3. Good = Nat
  <2>1. Good \subseteq Nat
    OBVIOUS
  <2> HIDE DEF Good
  <2>2. QED BY <1>1, <1>2, <2>1, SetInduction
<1>4. ASSUME NEW T \in SUBSET S, NEW x \in T PROVE g[T] = f[x] + g[T \ {x}]
  <2>1. Cardinality(T) \in Nat
    BY <1>0
  <2>2. Cardinality(T) \in Good /\ Cardinality(T) <= Cardinality(T)
    <3> HIDE DEF Good
    <3>1. QED BY <2>1, <1>3
  <2>3. QED BY <2>2
<1>5. QED BY <1>4 DEF RemovesAny

(***************************************************************************)
(* What the proofs use of a sum: its type, that of nothing, and how it     *)
(* changes with an element.                                                *)
(***************************************************************************)
LEMMA SumType ==
    ASSUME NEW S, IsFiniteSet(S), NEW f, \A x \in S : f[x] \in Nat
    PROVE  SumOver(f, S) \in Nat
<1>1. PICK g \in [SUBSET S -> Nat] : SumsOn(g, f, S)
  BY SumExists
<1>2. SumOver(f, S) = g[S]
  BY <1>1, SumIs
<1>3. QED BY <1>2

LEMMA SumEmpty ==
    ASSUME NEW f
    PROVE  SumOver(f, {}) = 0
<1>1. IsFiniteSet({}) /\ \A x \in {} : f[x] \in Nat
  BY FS_EmptySet
<1>2. PICK g \in [SUBSET {} -> Nat] : SumsOn(g, f, {})
  BY <1>1, SumExists
<1>3. SumOver(f, {}) = g[{}]
  BY <1>1, <1>2, SumIs
<1>4. QED BY <1>2, <1>3 DEF SumsOn, SumAt

LEMMA SumRemove ==
    ASSUME NEW S, IsFiniteSet(S), NEW f, \A x \in S : f[x] \in Nat, NEW x \in S
    PROVE  /\ SumOver(f, S) = f[x] + SumOver(f, S \ {x})
           /\ SumOver(f, S \ {x}) \in Nat
<1>1. PICK g \in [SUBSET S -> Nat] : SumsOn(g, f, S)
  BY SumExists
<1>2. SumOver(f, S) = g[S]
  BY <1>1, SumIs
<1>3. S \ {x} \in SUBSET S
  OBVIOUS
<1>4. SumOver(f, S \ {x}) = g[S \ {x}]
  BY <1>1, <1>3, SumOfPart
<1>5. g[S] = f[x] + g[S \ {x}]
  <2>1. RemovesAny(g, f, S)
    BY <1>1, SumRemoves
  <2>2. S \in SUBSET S
    OBVIOUS
  <2>3. QED BY <2>1, <2>2 DEF RemovesAny
<1>6. QED BY <1>2, <1>3, <1>4, <1>5

(***************************************************************************)
(* A sum depends on the values over the set only.                          *)
(***************************************************************************)
LEMMA SumSame ==
    ASSUME NEW S, IsFiniteSet(S), NEW f, NEW h,
           \A x \in S : f[x] \in Nat /\ h[x] = f[x]
    PROVE  SumOver(h, S) = SumOver(f, S)
<1>1. PICK g \in [SUBSET S -> Nat] : SumsOn(g, f, S)
  BY SumExists
<1>2. SumsOn(g, h, S)
  <2>1. ASSUME NEW T \in SUBSET S PROVE SumAt(g, h, T)
    <3>1. CASE T = {}
      BY <1>1, <3>1 DEF SumsOn, SumAt
    <3>2. CASE T # {}
      <4> DEFINE y == CHOOSE z \in T : TRUE
      <4>1. y \in T
        BY <3>2
      <4>2. h[y] = f[y]
        BY <4>1
      <4>3. QED BY <1>1, <4>2, <3>2 DEF SumsOn, SumAt
    <3>3. QED BY <3>1, <3>2
  <2>2. QED BY <2>1 DEF SumsOn
<1>3. SumOver(f, S) = g[S]
  BY <1>1, SumIs
<1>4. SumOver(h, S) = g[S]
  BY <1>2, SumIs
<1>5. QED BY <1>3, <1>4

(***************************************************************************)
(* Changing or adding one element changes the sum by the difference.       *)
(***************************************************************************)
Summable(f, S) == IsFiniteSet(S) /\ \A y \in S : f[y] \in Nat

AgreeBut(h, f, S, x) == h[x] \in Nat /\ \A y \in S \ {x} : h[y] = f[y]

LEMMA SumWith ==
    ASSUME NEW S, NEW f, Summable(f, S), NEW x, NEW h, AgreeBut(h, f, S, x)
    PROVE  SumOver(h, S \cup {x}) = h[x] + SumOver(f, S \ {x})
<1> USE DEF Summable, AgreeBut
<1>1. IsFiniteSet(S \cup {x}) /\ IsFiniteSet(S \ {x})
  BY FS_AddElement, FS_RemoveElement
<1>2. \A y \in S \cup {x} : h[y] \in Nat
  OBVIOUS
<1>3. SumOver(h, S \cup {x}) = h[x] + SumOver(h, (S \cup {x}) \ {x})
  BY <1>1, <1>2, SumRemove
<1>4. (S \cup {x}) \ {x} = S \ {x}
  OBVIOUS
<1>5. SumOver(h, S \ {x}) = SumOver(f, S \ {x})
  BY <1>1, SumSame
<1>6. QED BY <1>3, <1>4, <1>5

\* A new element that counts nothing leaves the sum as it was.
LEMMA SumWithNew ==
    ASSUME NEW S, NEW f, Summable(f, S), NEW x, NEW h, AgreeBut(h, f, S, x),
           NEW T, T = S \cup {x}, S \ {x} = S, h[x] = 0
    PROVE  SumOver(h, T) = SumOver(f, S)
<1>1. SumOver(h, S \cup {x}) = h[x] + SumOver(f, S \ {x})
  BY SumWith
<1>2. SumOver(f, S) \in Nat
  BY SumType DEF Summable
<1>3. QED BY <1>1, <1>2

\* The sum over two sets that have nothing in common.
LEMMA SumOfBoth ==
    ASSUME NEW S, NEW T, NEW f, Summable(f, S), Summable(f, T), S \cap T = {}
    PROVE  SumOver(f, S \cup T) = SumOver(f, S) + SumOver(f, T)
<1> USE DEF Summable
<1> DEFINE Both(U) == SumOver(f, S \cup U) = SumOver(f, S) + SumOver(f, U)
           Good == {n \in Nat : \A U \in SUBSET T : Cardinality(U) <= n => Both(U)}
<1>0. \A U \in SUBSET T : IsFiniteSet(U) /\ Cardinality(U) \in Nat
  BY FS_Subset, FS_CardinalityType
<1>1. 0 \in Good
  <2>1. ASSUME NEW U \in SUBSET T, Cardinality(U) <= 0 PROVE Both(U)
    <3>1. U = {}
      BY <1>0, <2>1, FS_EmptySet
    <3>2. S \cup U = S /\ SumOver(f, U) = 0
      BY <3>1, SumEmpty
    <3>3. SumOver(f, S) \in Nat
      BY SumType
    <3>4. QED BY <3>2, <3>3
  <2> HIDE DEF Both
  <2>2. QED BY <2>1
<1>2. ASSUME NEW n \in Good PROVE n + 1 \in Good
  <2>1. ASSUME NEW U \in SUBSET T, Cardinality(U) <= n + 1 PROVE Both(U)
    <3>1. CASE U = {}
      <4>1. Cardinality(U) <= n
        BY <1>2, <3>1, FS_EmptySet
      <4>2. QED BY <1>2, <4>1
    <3>2. CASE U # {}
      <4>1. PICK x \in U : TRUE
        BY <3>2
      <4> DEFINE V == U \ {x}
      <4>2. V \in SUBSET T /\ Cardinality(V) <= n
        <5>1. Cardinality(V) = Cardinality(U) - 1
          BY <1>0, <4>1, FS_RemoveElement
        <5>2. QED BY <1>0, <1>2, <2>1, <5>1
      <4>3. SumOver(f, S \cup V) = SumOver(f, S) + SumOver(f, V)
        BY <1>2, <4>2
      <4>4. IsFiniteSet(U) /\ IsFiniteSet(S \cup U) /\ \A y \in S \cup U : f[y] \in Nat
        BY <1>0, FS_Union
      <4>5. SumOver(f, U) = f[x] + SumOver(f, V) /\ SumOver(f, V) \in Nat
        BY <4>1, <4>4, SumRemove
      <4>6. /\ SumOver(f, S \cup U) = f[x] + SumOver(f, (S \cup U) \ {x})
        BY <4>1, <4>4, SumRemove
      <4>7. (S \cup U) \ {x} = S \cup V
        BY <4>1
      <4>8. SumOver(f, S) \in Nat /\ f[x] \in Nat
        BY <4>1, SumType
      <4> HIDE DEF V
      <4>9. SumOver(f, S \cup U) = SumOver(f, S) + SumOver(f, U)
        <5>1. SumOver(f, S \cup U) = f[x] + SumOver(f, S \cup V)
          BY <4>6, <4>7
        <5>2. SumOver(f, S \cup U) = f[x] + (SumOver(f, S) + SumOver(f, V))
          BY <4>3, <5>1
        <5> DEFINE fx == f[x]
                   sS == SumOver(f, S)
                   sV == SumOver(f, V)
        <5>3. fx \in Nat /\ sS \in Nat /\ sV \in Nat
          BY <4>5, <4>8
        <5> HIDE DEF fx, sS, sV
        <5>4. fx + (sS + sV) = sS + (fx + sV)
          BY <5>3
        <5>5. QED BY <4>5, <5>2, <5>4 DEF fx, sS, sV
      <4>10. QED BY <4>9
    <3>3. QED BY <3>1, <3>2
  <2>2. n + 1 \in Nat
    BY <1>2
  <2> HIDE DEF Both
  <2>3. QED BY <2>1, <2>2
<1> HIDE DEF Both
<1>3. Good = Nat
  <2>1. Good \subseteq Nat
    OBVIOUS
  <2> HIDE DEF Good
  <2>2. QED BY <1>1, <1>2, <2>1, SetInduction
<1>4. Cardinality(T) \in Good
  BY <1>0, <1>3
<1>5. Both(T)
  BY <1>0, <1>4
<1>6. QED BY <1>5 DEF Both

LEMMA SumIsFold ==
    ASSUME NEW f, NEW S
    PROVE  FoldFunctionOnSet(+, 0, f, S) = SumOver(f, S)
BY DEF FoldFunctionOnSet, SumOver, MapThenSumSet, MapThenFoldSet

-----------------------------------------------------------------------------
(***************************************************************************)
(* Sequences.                                                              *)
(***************************************************************************)
LEMMA BoundedSeqs ==
    ASSUME NEW S, NEW n \in Nat
    PROVE  \A p : p \in BoundedSeq(S, n) <=> p \in Seq(S) /\ Len(p) <= n
<1>1. ASSUME NEW p \in BoundedSeq(S, n) PROVE p \in Seq(S) /\ Len(p) <= n
  <2>1. PICK m \in 0..n : p \in [1..m -> S]
    BY DEF BoundedSeq, SeqOf
  <2>2. m \in Nat
    BY <2>1
  <2>3. p \in Seq(S)
    BY <2>1, <2>2
  <2>4. Len(p) = m
    BY <2>1, <2>2, <2>3, LenProperties
  <2>5. QED BY <2>1, <2>3, <2>4
<1>2. ASSUME NEW p \in Seq(S), Len(p) <= n PROVE p \in BoundedSeq(S, n)
  <2>1. p \in [1..Len(p) -> S] /\ Len(p) \in 0..n
    BY <1>2, LenProperties
  <2>2. QED BY <2>1 DEF BoundedSeq, SeqOf
<1>3. QED BY <1>1, <1>2

LEMMA PrefixFacts ==
    ASSUME NEW S, NEW p \in Seq(S), NEW k \in 0..Len(p)
    PROVE  /\ SubSeq(p, 1, k) \in Seq(S) /\ Len(SubSeq(p, 1, k)) = k
           /\ \A j \in 1..k : SubSeq(p, 1, k)[j] = p[j]
<1>1. \A j \in 1..k : p[j] \in S
  BY ElementOfSeq, LenProperties
<1>2. k \in Int /\ Len(p) \in Nat
  BY LenProperties
<1>3. QED BY <1>1, <1>2, SubSeqProperties

LEMMA AppendFacts ==
    ASSUME NEW S, NEW p \in Seq(S), NEW e \in S
    PROVE  /\ Append(p, e) \in Seq(S) /\ Append(p, e) # <<>>
           /\ Len(Append(p, e)) = Len(p) + 1 /\ Len(p) \in Nat
           /\ Front(Append(p, e)) = p /\ Last(Append(p, e)) = e
           /\ \A k \in 0..Len(p) : SubSeq(Append(p, e), 1, k) = SubSeq(p, 1, k)
           /\ SubSeq(Append(p, e), 1, Len(p) + 1) = Append(p, e)
           /\ SubSeq(p, 1, Len(p)) = p
<1> DEFINE q == Append(p, e)
<1>1. /\ q \in Seq(S) /\ q # <<>> /\ Len(q) = Len(p) + 1 /\ Len(p) \in Nat
      /\ \A j \in 1..Len(p) : q[j] = p[j]
      /\ q[Len(p) + 1] = e
  BY AppendProperties, LenProperties
<1>2. SubSeq(q, 1, Len(q)) = q /\ SubSeq(p, 1, Len(p)) = p
  <2> HIDE DEF q
  <2>1. QED BY <1>1, SubSeqFull
<1>3. ASSUME NEW k \in 0..Len(p) PROVE SubSeq(q, 1, k) = SubSeq(p, 1, k)
  <2> HIDE DEF q
  <2>1. k \in 0..Len(q)
    BY <1>1
  <2>2. SubSeq(p, 1, k) \in Seq(S) /\ Len(SubSeq(p, 1, k)) = k
        /\ \A j \in 1..k : SubSeq(p, 1, k)[j] = p[j]
    BY PrefixFacts
  <2>3. SubSeq(q, 1, k) \in Seq(S) /\ Len(SubSeq(q, 1, k)) = k
        /\ \A j \in 1..k : SubSeq(q, 1, k)[j] = q[j]
    BY <1>1, <2>1, PrefixFacts
  <2>4. \A j \in 1..k : SubSeq(q, 1, k)[j] = SubSeq(p, 1, k)[j]
    BY <1>1, <2>2, <2>3
  <2>5. QED BY <2>2, <2>3, <2>4, SeqEqual
<1>4. Len(p) \in 0..Len(p)
  BY <1>1
<1>5. Front(q) = p
  <2> HIDE DEF q
  <2>1. Len(q) - 1 = Len(p)
    BY <1>1
  <2>2. SubSeq(q, 1, Len(p)) = p
    BY <1>2, <1>3, <1>4
  <2>3. QED BY <2>1, <2>2 DEF Front
<1>6. Last(q) = e
  <2> HIDE DEF q
  <2>1. QED BY <1>1 DEF Last
<1>7. QED BY <1>1, <1>2, <1>3, <1>5, <1>6

LEMMA FrontFacts ==
    ASSUME NEW S, NEW p \in Seq(S), p # <<>>
    PROVE  /\ Front(p) \in Seq(S) /\ Last(p) \in S
           /\ Append(Front(p), Last(p)) = p
           /\ Len(p) = Len(Front(p)) + 1 /\ Len(Front(p)) \in Nat
<1>1. PICK s \in Seq(S), e \in S : p = Append(s, e)
  BY SequenceEmptyOrAppend
<1>2. Front(p) = s /\ Last(p) = e /\ Len(p) = Len(s) + 1 /\ Len(s) \in Nat
  BY <1>1, AppendFacts
<1>3. QED BY <1>1, <1>2

LEMMA RangeFacts ==
    ASSUME NEW S, NEW s \in Seq(S)
    PROVE  /\ Range(s) \subseteq S
           /\ \A x : x \in Range(s) <=> \E k \in 1..Len(s) : s[k] = x
           /\ \A k \in 1..Len(s) : s[k] \in Range(s)
BY LenProperties DEF Range

LEMMA RangeAppend ==
    ASSUME NEW S, NEW s \in Seq(S), NEW e \in S
    PROVE  /\ Range(Append(s, e)) = Range(s) \cup {e}
           /\ IsInjective(s) /\ e \notin Range(s) => IsInjective(Append(s, e))
<1> DEFINE t == Append(s, e)
<1>1. /\ t \in Seq(S) /\ Len(t) = Len(s) + 1 /\ Len(s) \in Nat
      /\ \A j \in 1..Len(s) : t[j] = s[j]
      /\ t[Len(s) + 1] = e
      /\ DOMAIN t = 1..(Len(s) + 1) /\ DOMAIN s = 1..Len(s)
  BY AppendProperties, LenProperties
<1> HIDE DEF t
<1>2. \A x : x \in Range(t) <=> x \in Range(s) \/ x = e
  BY <1>1, RangeFacts
<1>3. ASSUME IsInjective(s), e \notin Range(s) PROVE IsInjective(t)
  <2>1. ASSUME NEW a \in 1..(Len(s) + 1), NEW b \in 1..(Len(s) + 1), t[a] = t[b]
        PROVE  a = b
    <3>1. \A k \in 1..Len(s) : s[k] # e
      BY <1>3, RangeFacts
    <3>2. CASE a \in 1..Len(s) /\ b \in 1..Len(s)
      BY <1>1, <1>3, <2>1, <3>2 DEF IsInjective
    <3>3. CASE a = Len(s) + 1 \/ b = Len(s) + 1
      BY <1>1, <2>1, <3>1, <3>3
    <3>4. QED BY <1>1, <3>2, <3>3
  <2>2. QED BY <1>1, <2>1 DEF IsInjective
<1>4. QED BY <1>2, <1>3 DEF t

\* A sequence without repetition has as many elements as places.
LEMMA RangeCount ==
    ASSUME NEW S, NEW s \in Seq(S), IsInjective(s)
    PROVE  IsFiniteSet(Range(s)) /\ Cardinality(Range(s)) = Len(s)
<1> DEFINE n == Len(s)
           D == 1..n
           R == Range(s)
<1>1. n \in Nat /\ DOMAIN s = D /\ s \in [D -> S]
  BY LenProperties
<1>2. IsFiniteSet(D) /\ Cardinality(D) = n
  <2> HIDE DEF n
  <2>1. QED BY <1>1, FS_Interval
<1>3. \A x : x \in R <=> \E k \in D : s[k] = x
  BY <1>1 DEF Range
<1> HIDE DEF D, R
<1>4. s \in Surjection(D, R)
  BY <1>1, <1>3 DEF Surjection
<1>5. s \in Injection(D, R)
  BY <1>1, <1>3 DEF Injection, IsInjective
<1>6. /\ IsFiniteSet(R)
      /\ Cardinality(R) = Cardinality(D) <=> s \in Injection(D, R)
  BY <1>2, <1>4, FS_Surjection
<1>7. QED BY <1>2, <1>5, <1>6 DEF R

LEMMA RangeEmpty == Range(<<>>) = {} /\ IsInjective(<<>>)
BY DEF Range, IsInjective
-----------------------------------------------------------------------------
(***************************************************************************)
(* What a node of a graph reaches.                                         *)
(***************************************************************************)
Spreads(r, g, root, n) ==
    /\ r[0] = {root}
    /\ \A k \in 1..n : r[k] = r[k - 1] \cup Successors(g, r[k - 1])

LinksInside(g) == g.children \in Seq(Seq(NodesOf(g)))

LEMMA BallExists ==
    ASSUME NEW g, LinksInside(g), NEW root \in NodesOf(g), NEW n \in Nat
    PROVE  \E r \in [0..n -> SUBSET NodesOf(g)] :
               Spreads(r, g, root, n) /\ Ball(g, root, n) = r[n]
<1> DEFINE A == SUBSET NodesOf(g)
           F == [ka \in (1..n) \X A |-> ka[2] \cup Successors(g, ka[2])]
           P(h) == h = [i \in 0..n |-> IF i = 0 THEN {root}
                                       ELSE LET b == h[i - 1] IN b \cup Successors(g, b)]
<1>1. \A m \in NodesOf(g) : Range(g.children[m]) \subseteq NodesOf(g)
  <2>1. \A m \in 1..Len(g.children) : g.children[m] \in Seq(NodesOf(g))
    BY ElementOfSeq DEF LinksInside
  <2>2. NodesOf(g) = 1..Len(g.children)
    BY LenProperties DEF LinksInside, NodesOf
  <2>3. QED BY <2>1, <2>2, RangeFacts
<1>2. FoldsIn(F, 1..n, A)
  BY <1>1 DEF FoldsIn, Successors
<1>3. {root} \in A
  OBVIOUS
<1>4. PICK r \in [0..n -> A] : Iterates(r, F, {root}, n)
  <2> DEFINE base == {root}
  <2> HIDE DEF A, F, base
  <2>1. base \in A
    BY <1>3 DEF base
  <2>2. \E r \in [0..n -> A] : Iterates(r, F, base, n)
    BY <1>2, <2>1, IterationExists
  <2>3. QED BY <2>2 DEF base
<1>5. r[0] = {root} /\ \A k \in 1..n : r[k] = r[k - 1] \cup Successors(g, r[k - 1])
  <2>1. \A k \in 1..n : k - 1 \in 0..n /\ r[k - 1] \in A
    OBVIOUS
  <2>2. \A k \in 1..n : F[<<k, r[k - 1]>>] = r[k - 1] \cup Successors(g, r[k - 1])
    BY <2>1
  <2>3. QED BY <1>4, <2>2 DEF Iterates
<1>6. P(r)
  <2>1. \A k \in 0..n : r[k] = IF k = 0 THEN {root}
                               ELSE r[k - 1] \cup Successors(g, r[k - 1])
    BY <1>5
  <2>2. r = [k \in 0..n |-> r[k]]
    BY <1>4
  <2>3. QED BY <2>1, <2>2
<1>7. P(CHOOSE h : P(h))
  <2> HIDE DEF P
  <2>1. QED BY <1>6
<1> DEFINE ball == CHOOSE h : P(h)
<1>8. Ball(g, root, n) = ball[n]
  BY DEF Ball
<1>9. /\ ball = [i \in 0..n |-> ball[i]]
      /\ ball[0] = {root}
      /\ \A k \in 1..n : ball[k] = ball[k - 1] \cup Successors(g, ball[k - 1])
  <2> DEFINE b0 == ball
  <2>1. P(b0)
    BY <1>7
  <2> HIDE DEF b0
  <2>2. /\ b0 = [i \in 0..n |-> b0[i]]
        /\ \A i \in 0..n : b0[i] = IF i = 0 THEN {root}
                                   ELSE b0[i - 1] \cup Successors(g, b0[i - 1])
    BY <2>1
  <2>3. 0 \in 0..n /\ \A k \in 1..n : k \in 0..n /\ k # 0
    OBVIOUS
  <2>4. QED BY <2>2, <2>3 DEF b0
<1> HIDE DEF ball
<1>10. Spreads(ball, g, root, n)
  BY <1>9 DEF Spreads
<1>11. \A k \in 0..n : ball[k] \subseteq NodesOf(g)
  <2> DEFINE S == {k \in 0..n : ball[k] \subseteq NodesOf(g)}
  <2>1. 0 \in S
    BY <1>9
  <2>2. \A k \in 0..n : k \in S /\ k < n => k + 1 \in S
    <3>1. ASSUME NEW k \in 0..n, ball[k] \subseteq NodesOf(g), k < n
          PROVE  ball[k + 1] \subseteq NodesOf(g) /\ k + 1 \in 0..n
      <4>1. k + 1 \in 1..n /\ (k + 1) - 1 = k
        BY <3>1
      <4>2. ball[k + 1] = ball[k] \cup Successors(g, ball[k])
        BY <1>9, <4>1
      <4>3. QED BY <1>1, <3>1, <4>1, <4>2 DEF Successors
    <3>2. QED BY <3>1
  <2> HIDE DEF S
  <2>3. 0..n \subseteq S
    BY <2>1, <2>2, SetInductionUpTo
  <2>4. QED BY <2>3 DEF S
<1>12. ball \in [0..n -> A]
  BY <1>9, <1>11
<1>13. QED BY <1>8, <1>10, <1>12

\* A set closed under links holds what any of its nodes reaches.
LEMMA ReachesNoMore ==
    ASSUME NEW g, LinksInside(g), NEW root \in NodesOf(g), NEW n \in Nat,
           NEW C, root \in C, Successors(g, C) \subseteq C
    PROVE  Ball(g, root, n) \subseteq C
<1>1. PICK r \in [0..n -> SUBSET NodesOf(g)] :
            Spreads(r, g, root, n) /\ Ball(g, root, n) = r[n]
  BY BallExists
<1> DEFINE S == {k \in 0..n : r[k] \subseteq C}
<1>2. 0 \in S
  BY <1>1 DEF Spreads
<1>3. \A k \in 0..n : k \in S /\ k < n => k + 1 \in S
  <2>1. ASSUME NEW k \in 0..n, r[k] \subseteq C, k < n
        PROVE  r[k + 1] \subseteq C /\ k + 1 \in 0..n
    <3>1. k + 1 \in 1..n /\ (k + 1) - 1 = k
      BY <2>1
    <3>2. r[k + 1] = r[k] \cup Successors(g, r[k])
      BY <1>1, <3>1 DEF Spreads
    <3>3. QED BY <2>1, <3>1, <3>2 DEF Successors
  <2>2. QED BY <2>1
<1> HIDE DEF S
<1>4. 0..n \subseteq S
  BY <1>2, <1>3, SetInductionUpTo
<1>5. QED BY <1>1, <1>4 DEF S
LEMMA BallStep ==
    ASSUME NEW g, LinksInside(g), NEW root \in NodesOf(g), NEW n \in Nat
    PROVE  /\ Ball(g, root, 0) = {root}
           /\ Ball(g, root, n) \subseteq NodesOf(g)
           /\ Ball(g, root, n + 1) = Ball(g, root, n) \cup Successors(g, Ball(g, root, n))
<1>1. PICK r \in [0..n -> SUBSET NodesOf(g)] :
            Spreads(r, g, root, n) /\ Ball(g, root, n) = r[n]
  BY BallExists
<1>2. PICK u \in [0..(n + 1) -> SUBSET NodesOf(g)] :
            Spreads(u, g, root, n + 1) /\ Ball(g, root, n + 1) = u[n + 1]
  <2>1. n + 1 \in Nat
    OBVIOUS
  <2>2. QED BY <2>1, BallExists
<1>3. PICK z \in [0..0 -> SUBSET NodesOf(g)] :
            Spreads(z, g, root, 0) /\ Ball(g, root, 0) = z[0]
  BY BallExists
<1> DEFINE S == {k \in 0..n : r[k] = u[k]}
<1>4. 0 \in S
  <2>1. r[0] = u[0]
    BY <1>1, <1>2 DEF Spreads
  <2>2. 0 \in 0..n
    OBVIOUS
  <2>3. QED BY <2>1, <2>2
<1>5. \A k \in 0..n : k \in S /\ k < n => k + 1 \in S
  <2>1. ASSUME NEW k \in 0..n, r[k] = u[k], k < n
        PROVE  r[k + 1] = u[k + 1] /\ k + 1 \in 0..n
    <3>1. k + 1 \in 1..n /\ k + 1 \in 1..(n + 1) /\ (k + 1) - 1 = k
      BY <2>1
    <3>2. r[k + 1] = r[k] \cup Successors(g, r[k])
      BY <1>1, <3>1 DEF Spreads
    <3>3. u[k + 1] = u[k] \cup Successors(g, u[k])
      BY <1>2, <3>1 DEF Spreads
    <3>4. QED BY <2>1, <3>1, <3>2, <3>3
  <2>2. QED BY <2>1
<1> HIDE DEF S
<1>6. 0..n \subseteq S
  BY <1>4, <1>5, SetInductionUpTo
<1>7. r[n] = u[n]
  BY <1>6 DEF S
<1>8. n + 1 \in 1..(n + 1) /\ (n + 1) - 1 = n
  OBVIOUS
<1>9. u[n + 1] = u[n] \cup Successors(g, u[n])
  BY <1>2, <1>8 DEF Spreads
<1>10. r[n] \in SUBSET NodesOf(g)
  BY <1>1
<1>11. QED BY <1>1, <1>2, <1>3, <1>7, <1>9, <1>10 DEF Spreads

\* A larger ball holds the smaller ones.
LEMMA BallGrows ==
    ASSUME NEW g, LinksInside(g), NEW root \in NodesOf(g), NEW m \in Nat, NEW n \in 0..m
    PROVE  Ball(g, root, n) \subseteq Ball(g, root, m)
<1> DEFINE S == {k \in Nat : Ball(g, root, n) \subseteq Ball(g, root, n + k)}
<1>1. 0 \in S
  OBVIOUS
<1>2. ASSUME NEW k \in S PROVE k + 1 \in S
  <2>1. k \in Nat /\ n + k \in Nat /\ n + (k + 1) = (n + k) + 1
    OBVIOUS
  <2>2. Ball(g, root, n + k) \subseteq Ball(g, root, (n + k) + 1)
    BY <2>1, BallStep
  <2>3. QED BY <2>1, <2>2
<1>3. S = Nat
  <2>1. S \subseteq Nat
    OBVIOUS
  <2> HIDE DEF S
  <2>2. QED BY <1>1, <1>2, <2>1, SetInduction
<1>4. m - n \in Nat /\ n + (m - n) = m
  OBVIOUS
<1>5. QED BY <1>3, <1>4

-----------------------------------------------------------------------------
(***************************************************************************)
(* The breadth-first queue of Sites, for queues of at most size nodes.     *)
(***************************************************************************)
Taking(size, q, n) == IF n \in Range(q) \/ Len(q) >= size THEN q ELSE Append(q, n)

Taken(size, q, kids) == FoldLeft(LAMBDA x, y : Taking(size, x, y), q, kids)

TakesAlong(r, size, q, kids) ==
    /\ r[0] = q /\ r[Len(kids)] = Taken(size, q, kids)
    /\ \A k \in 1..Len(kids) : r[k] = Taking(size, r[k - 1], kids[k])

LEMMA TakeTrace ==
    ASSUME NEW N, NEW size, NEW q \in Seq(N), NEW kids \in Seq(N)
    PROVE  \E r \in [0..Len(kids) -> Seq(N)] : TakesAlong(r, size, q, kids)
<1> DEFINE n == Len(kids)
           D == 1..n
           A == Seq(N)
           step == [x \in D \X A |-> Taking(size, x[2], kids[x[1]])]
           Q(h) == h = [S \in SUBSET D |->
                          IF S = {} THEN q ELSE Taking(size, h[S \ {Max(S)}], kids[Max(S)])]
           G == CHOOSE h : Q(h)
           mx == MaxIn(n)
<1>1. n \in Nat /\ DOMAIN kids = D /\ \A k \in D : kids[k] \in N
  BY ElementOfSeq, LenProperties
<1>2. Taken(size, q, kids) = G[D]
  <2>1. DOMAIN kids = D
    BY <1>1
  <2>2. QED BY <2>1 DEF Taken, FoldLeft, MapThenFoldSet
<1>3. ASSUME NEW w \in A, NEW m \in N PROVE Taking(size, w, m) \in A
  BY AppendProperties DEF Taking
<1>4. /\ IsFiniteSet(D) /\ Chooses(mx, D)
      /\ \A S \in (SUBSET D) \ {{}} : Max(S) \in S
      /\ \A k \in D : Max(1..k) = k /\ (1..k) \ {k} = 1..(k - 1)
  BY <1>1, MaxChosen
<1>5. \A S \in SUBSET D : S # {} => Max(S) \in D /\ mx[S] = Max(S)
  BY <1>4 DEF MaxIn
<1> HIDE DEF A, mx
<1>6. FoldsIn(step, D, A)
  BY <1>1, <1>3 DEF FoldsIn
<1>7. q \in A
  BY DEF A
<1>8. PICK g \in [SUBSET D -> A] : \A S \in SUBSET D : FoldsTo(g, step, q, mx, S)
  <2> HIDE DEF step, D
  <2>1. HasFold(step, q, mx, D, A)
    BY <1>4, <1>6, <1>7, FoldExists
  <2>2. QED BY <2>1 DEF HasFold
<1>9. Q(g)
  <2>1. ASSUME NEW S \in SUBSET D, S # {}
        PROVE  g[S] = Taking(size, g[S \ {Max(S)}], kids[Max(S)])
    <3>1. Max(S) \in D /\ mx[S] = Max(S) /\ S \ {Max(S)} \in SUBSET D
      BY <1>5, <2>1
    <3>2. g[S \ {Max(S)}] \in A
      BY <1>8, <3>1
    <3>3. g[S] = step[<<Max(S), g[S \ {Max(S)}]>>]
      BY <1>8, <2>1, <3>1 DEF FoldsTo
    <3> HIDE DEF D
    <3>4. QED BY <3>1, <3>2, <3>3
  <2>2. g[{}] = q
    BY <1>8 DEF FoldsTo
  <2> HIDE DEF D
  <2>3. \A S \in SUBSET D : g[S] = IF S = {} THEN q
                                   ELSE Taking(size, g[S \ {Max(S)}], kids[Max(S)])
    BY <2>1, <2>2
  <2>4. QED BY <1>8, <2>3
<1>10. Q(G)
  <2> HIDE DEF Q
  <2>1. QED BY <1>9
<1> HIDE DEF G
<1>11. \A S \in SUBSET D : G[S] = IF S = {} THEN q
                                  ELSE Taking(size, G[S \ {Max(S)}], kids[Max(S)])
  <2> HIDE DEF D
  <2>1. QED BY <1>10, Zenon
<1> HIDE DEF Q
<1> DEFINE r == [k \in 0..n |-> G[1..k]]
           Good == {k \in 0..n : r[k] \in A}
<1>12. r[0] = q
  <2>1. 1..0 = {} /\ {} \in SUBSET D /\ r[0] = G[1..0]
    BY <1>1
  <2>2. QED BY <1>11, <2>1
<1>13. ASSUME NEW k \in 1..n PROVE r[k] = Taking(size, r[k - 1], kids[k])
  <2>1. 1..k \in SUBSET D /\ 1..k # {} /\ Max(1..k) = k /\ (1..k) \ {k} = 1..(k - 1)
    BY <1>1, <1>4
  <2>2. r[k] = G[1..k] /\ r[k - 1] = G[1..(k - 1)]
    BY <1>1
  <2> HIDE DEF r, D
  <2>3. QED BY <1>11, <2>1, <2>2
<1>14. r[n] = G[D]
  BY <1>1
<1> HIDE DEF r
<1>15. 0 \in Good
  BY <1>1, <1>7, <1>12
<1>16. ASSUME NEW k \in 0..n, k \in Good, k < n PROVE k + 1 \in Good
  <2>1. k + 1 \in 1..n /\ k + 1 \in 0..n /\ (k + 1) - 1 = k /\ kids[k + 1] \in N
    BY <1>1, <1>16
  <2>2. r[k + 1] = Taking(size, r[k], kids[k + 1])
    BY <1>13, <2>1
  <2>3. QED BY <1>3, <1>16, <2>1, <2>2
<1>17. 0..n \subseteq Good
  <2> HIDE DEF Good, n
  <2>1. n \in Nat /\ 0 \in Good /\ \A k \in 0..n : k \in Good /\ k < n => k + 1 \in Good
    BY <1>1, <1>15, <1>16
  <2>2. QED BY <2>1, SetInductionUpTo
<1>18. r \in [0..n -> A]
  <2>1. \A k \in 0..n : r[k] \in A
    BY <1>17
  <2>2. r = [k \in 0..n |-> r[k]]
    BY DEF r
  <2>3. QED BY <2>1, <2>2
<1>19. TakesAlong(r, size, q, kids)
  BY <1>2, <1>12, <1>13, <1>14 DEF TakesAlong
<1>20. QED BY <1>18, <1>19 DEF A

\* One child after the other.
LEMMA TakenFacts ==
    ASSUME NEW N, NEW size, NEW q \in Seq(N), NEW kids \in Seq(N)
    PROVE  /\ Taken(size, q, kids) \in Seq(N)
           /\ Taken(size, q, <<>>) = q
<1>1. PICK r \in [0..Len(kids) -> Seq(N)] : TakesAlong(r, size, q, kids)
  BY TakeTrace
<1>2. Len(kids) \in Nat
  BY LenProperties
<1>3. Taken(size, q, kids) \in Seq(N)
  <2>1. r[Len(kids)] \in Seq(N)
    BY <1>1, <1>2
  <2>2. QED BY <1>1, <2>1 DEF TakesAlong
<1>4. Taken(size, q, <<>>) = q
  <2> DEFINE none == <<>>
  <2>1. none \in Seq(N) /\ Len(none) = 0
    OBVIOUS
  <2> HIDE DEF none
  <2>2. PICK z \in [0..Len(none) -> Seq(N)] : TakesAlong(z, size, q, none)
    BY <2>1, TakeTrace
  <2>3. Taken(size, q, none) = q
    BY <2>1, <2>2 DEF TakesAlong
  <2>4. QED BY <2>3 DEF none
<1>5. QED BY <1>3, <1>4

LEMMA TakenOneMore ==
    ASSUME NEW N, NEW size, NEW q \in Seq(N), NEW kids \in Seq(N), NEW e \in N
    PROVE  Taken(size, q, Append(kids, e)) = Taking(size, Taken(size, q, kids), e)
<1> DEFINE more == Append(kids, e)
           n == Len(kids)
<1>0. PICK r \in [0..Len(kids) -> Seq(N)] : TakesAlong(r, size, q, kids)
  BY TakeTrace
<1>1. /\ more \in Seq(N) /\ Len(more) = n + 1 /\ n \in Nat
      /\ \A k \in 1..n : more[k] = kids[k]
      /\ more[n + 1] = e
  BY AppendProperties, LenProperties
<1> HIDE DEF more
<1>2. PICK u \in [0..Len(more) -> Seq(N)] : TakesAlong(u, size, q, more)
  BY <1>1, TakeTrace
<1> DEFINE S == {k \in 0..n : r[k] = u[k]}
<1>3. 0 \in S
  BY <1>0, <1>1, <1>2 DEF TakesAlong
<1>4. \A k \in 0..n : k \in S /\ k < n => k + 1 \in S
  <2>1. ASSUME NEW k \in 0..n, r[k] = u[k], k < n
        PROVE  r[k + 1] = u[k + 1] /\ k + 1 \in 0..n
    <3>1. k + 1 \in 1..n /\ k + 1 \in 1..(n + 1) /\ (k + 1) - 1 = k
      BY <1>1, <2>1
    <3>2. r[k + 1] = Taking(size, r[k], kids[k + 1])
      BY <1>0, <3>1 DEF TakesAlong
    <3>3. u[k + 1] = Taking(size, u[k], more[k + 1])
      BY <1>1, <1>2, <3>1 DEF TakesAlong
    <3>4. QED BY <1>1, <2>1, <3>1, <3>2, <3>3
  <2>2. QED BY <2>1
<1> HIDE DEF S, n
<1>5. 0..n \subseteq S
  BY <1>1, <1>3, <1>4, SetInductionUpTo
<1>6. n \in 0..n /\ n + 1 \in 1..(n + 1) /\ (n + 1) - 1 = n
  BY <1>1
<1>7. r[n] = u[n]
  BY <1>5, <1>6 DEF S
<1>8. u[n + 1] = Taking(size, u[n], e)
  BY <1>1, <1>2, <1>6 DEF TakesAlong
<1>9. r[n] = Taken(size, q, kids) /\ u[n + 1] = Taken(size, q, more)
  BY <1>0, <1>1, <1>2 DEF TakesAlong, n
<1>10. QED BY <1>7, <1>8, <1>9 DEF more

\* The first k + 1 children, from the first k.
LEMMA TakenNext ==
    ASSUME NEW N, NEW size, NEW q \in Seq(N), NEW kids \in Seq(N),
           NEW k \in 0..Len(kids), k < Len(kids)
    PROVE  Taken(size, q, SubSeq(kids, 1, k + 1))
             = Taking(size, Taken(size, q, SubSeq(kids, 1, k)), kids[k + 1])
<1>1. k + 1 \in 0..Len(kids) /\ k + 1 \in 1..Len(kids) /\ k \in Nat
  BY LenProperties
<1>2. kids[k + 1] \in N
  BY <1>1, ElementOfSeq
<1> DEFINE s == SubSeq(kids, 1, k)
           t == SubSeq(kids, 1, k + 1)
<1>3. s \in Seq(N) /\ Len(s) = k /\ \A j \in 1..k : s[j] = kids[j]
  BY PrefixFacts
<1>4. t \in Seq(N) /\ Len(t) = k + 1 /\ \A j \in 1..(k + 1) : t[j] = kids[j]
  <2> DEFINE m == k + 1
  <2>1. m \in 0..Len(kids)
    BY <1>1
  <2> HIDE DEF m
  <2>2. /\ SubSeq(kids, 1, m) \in Seq(N) /\ Len(SubSeq(kids, 1, m)) = m
        /\ \A j \in 1..m : SubSeq(kids, 1, m)[j] = kids[j]
    BY <2>1, PrefixFacts
  <2>3. QED BY <2>2 DEF m
<1> HIDE DEF s, t
<1>5. /\ Append(s, kids[k + 1]) \in Seq(N) /\ Len(Append(s, kids[k + 1])) = k + 1
      /\ \A j \in 1..k : Append(s, kids[k + 1])[j] = s[j]
      /\ Append(s, kids[k + 1])[k + 1] = kids[k + 1]
  BY <1>2, <1>3, AppendProperties
<1>6. \A j \in 1..(k + 1) : t[j] = Append(s, kids[k + 1])[j]
  <2>1. \A j \in 1..(k + 1) : j \in 1..k \/ j = k + 1
    BY <1>1
  <2>2. k + 1 \in 1..(k + 1)
    BY <1>1
  <2>3. QED BY <1>3, <1>4, <1>5, <2>1, <2>2
<1>7. t = Append(s, kids[k + 1])
  BY <1>4, <1>5, <1>6, SeqEqual
<1>8. Taken(size, q, Append(s, kids[k + 1])) = Taking(size, Taken(size, q, s), kids[k + 1])
  <2> DEFINE e == kids[k + 1]
  <2>1. e \in N
    BY <1>2
  <2> HIDE DEF e
  <2>2. Taken(size, q, Append(s, e)) = Taking(size, Taken(size, q, s), e)
    BY <1>3, <2>1, TakenOneMore
  <2>3. QED BY <2>2 DEF e
<1>9. QED BY <1>7, <1>8 DEF s, t

\* A full queue takes no further child.
LEMMA FullTakesNoMore ==
    ASSUME NEW N, NEW size, size \in Nat, NEW q \in Seq(N), NEW kids \in Seq(N),
           NEW k \in 0..Len(kids), Len(Taken(size, q, SubSeq(kids, 1, k))) >= size
    PROVE  Taken(size, q, kids) = Taken(size, q, SubSeq(kids, 1, k))
<1> DEFINE m == Len(kids)
           full == Taken(size, q, SubSeq(kids, 1, k))
           S == {h \in 0..m : h >= k => Taken(size, q, SubSeq(kids, 1, h)) = full}
<1>1. m \in Nat /\ k \in 0..m /\ Len(full) >= size
  BY LenProperties
<1> HIDE DEF m, full
<1>2. 0 \in S
  <2>1. 0 >= k => k = 0
    BY <1>1
  <2>2. QED BY <1>1, <2>1 DEF full
<1>3. ASSUME NEW h \in 0..m, h \in S, h < m PROVE h + 1 \in S
  <2>1. h + 1 \in 0..m /\ (h + 1 >= k => h >= k \/ h + 1 = k)
    BY <1>1, <1>3
  <2>2. CASE h >= k
    <3>1. Taken(size, q, SubSeq(kids, 1, h)) = full
      BY <1>3, <2>2
    <3>2. Taken(size, q, SubSeq(kids, 1, h + 1)) = Taking(size, full, kids[h + 1])
      BY <1>3, <3>1, TakenNext DEF m
    <3>3. QED BY <1>1, <2>1, <3>2 DEF Taking
  <2>3. CASE h + 1 = k
    <3>1. Taken(size, q, SubSeq(kids, 1, h + 1)) = full
      BY <2>3 DEF full
    <3>2. QED BY <2>1, <3>1
  <2>4. QED BY <2>1, <2>2, <2>3
<1>4. 0..m \subseteq S
  <2> HIDE DEF S
  <2>1. QED BY <1>1, <1>2, <1>3, SetInductionUpTo
<1>5. m \in 0..m /\ m >= k
  BY <1>1
<1>6. Taken(size, q, SubSeq(kids, 1, m)) = full
  BY <1>4, <1>5
<1>7. SubSeq(kids, 1, m) = kids
  BY SubSeqFull DEF m
<1>8. QED BY <1>6, <1>7 DEF full

\* The queue after its first k nodes were handled.
Widened(size, g, k, q) == IF k > Len(q) THEN q ELSE Taken(size, q, g.children[q[k]])

BreadthFirst(size, g, root) ==
    LET after[k \in 0..size] ==
          IF k = 0 THEN <<root>>
          ELSE LET q == after[k - 1]
               IN  IF k > Len(q) THEN q
                   ELSE FoldLeft(LAMBDA x, y : Taking(size, x, y), q, g.children[q[k]])
    IN  after

WidensAlong(r, size, g, root) ==
    /\ r[0] = <<root>>
    /\ \A k \in 1..size : r[k] = Widened(size, g, k, r[k - 1])

LEMMA BreadthFirstFacts ==
    ASSUME NEW g, LinksInside(g), NEW root \in NodesOf(g), NEW size \in Nat
    PROVE  /\ WidensAlong(BreadthFirst(size, g, root), size, g, root)
           /\ \A k \in 0..size : BreadthFirst(size, g, root)[k] \in Seq(NodesOf(g))
<1> DEFINE N == NodesOf(g)
           A == Seq(N)
           base == <<root>>
           step == [x \in (1..size) \X A |-> Widened(size, g, x[1], x[2])]
           Q(h) == h = [k \in 0..size |-> IF k = 0 THEN <<root>>
                                          ELSE Widened(size, g, k, h[k - 1])]
           G == CHOOSE h : Q(h)
<1>1. BreadthFirst(size, g, root) = G
  BY DEF BreadthFirst, Widened, Taken
<1>2. N = 1..Len(g.children) /\ \A n \in N : g.children[n] \in A
  BY ElementOfSeq, LenProperties DEF LinksInside, NodesOf
<1>3. ASSUME NEW k \in 1..size, NEW q \in A PROVE Widened(size, g, k, q) \in A
  <2>1. CASE k > Len(q)
    BY <2>1 DEF Widened
  <2>2. CASE ~(k > Len(q))
    <3>1. k \in 1..Len(q)
      BY <2>2, LenProperties
    <3>2. q[k] \in N
      BY <3>1, ElementOfSeq
    <3>3. g.children[q[k]] \in A
      BY <1>2, <3>2
    <3> HIDE DEF N
    <3>4. Taken(size, q, g.children[q[k]]) \in A
      BY <3>3, TakenFacts
    <3>5. QED BY <2>2, <3>4 DEF Widened
  <2>3. QED BY <2>1, <2>2
<1>4. base \in A
  OBVIOUS
<1> HIDE DEF A, base
<1>5. FoldsIn(step, 1..size, A)
  BY <1>3 DEF FoldsIn
<1>6. PICK r \in [0..size -> A] : Iterates(r, step, base, size)
  <2> HIDE DEF step
  <2>1. QED BY <1>4, <1>5, IterationExists
<1>7. Q(r)
  <2>1. ASSUME NEW k \in 1..size PROVE r[k] = Widened(size, g, k, r[k - 1])
    <3>1. k - 1 \in 0..size
      OBVIOUS
    <3>2. r[k - 1] \in A
      BY <1>6, <3>1
    <3>3. r[k] = step[<<k, r[k - 1]>>]
      BY <1>6 DEF Iterates
    <3>4. QED BY <3>2, <3>3
  <2>2. r[0] = <<root>>
    BY <1>6 DEF Iterates, base
  <2>3. \A k \in 0..size : k # 0 => k \in 1..size
    OBVIOUS
  <2>4. \A k \in 0..size : r[k] = IF k = 0 THEN <<root>> ELSE Widened(size, g, k, r[k - 1])
    BY <2>1, <2>2, <2>3
  <2>5. QED BY <1>6, <2>4
<1>8. Q(G)
  <2> HIDE DEF Q
  <2>1. QED BY <1>7
<1> HIDE DEF G
<1>9. \A k \in 0..size : G[k] = IF k = 0 THEN <<root>> ELSE Widened(size, g, k, G[k - 1])
  BY <1>8, Zenon
<1> HIDE DEF Q
<1>10. G[0] = <<root>> /\ \A k \in 1..size : G[k] = Widened(size, g, k, G[k - 1])
  <2>1. 0 \in 0..size /\ \A k \in 1..size : k \in 0..size /\ k # 0
    OBVIOUS
  <2>2. QED BY <1>9, <2>1
<1> DEFINE S == {k \in 0..size : G[k] \in A}
<1>11. 0 \in S
  BY <1>4, <1>10 DEF base
<1>12. \A k \in 0..size : k \in S /\ k < size => k + 1 \in S
  <2>1. ASSUME NEW k \in 0..size, G[k] \in A, k < size
        PROVE  G[k + 1] \in A /\ k + 1 \in 0..size
    <3>1. k + 1 \in 1..size /\ (k + 1) - 1 = k
      BY <2>1
    <3>2. G[k + 1] = Widened(size, g, k + 1, G[k])
      BY <1>10, <3>1
    <3>3. QED BY <1>3, <2>1, <3>1, <3>2
  <2>2. QED BY <2>1
<1> HIDE DEF S
<1>13. 0..size \subseteq S
  BY <1>11, <1>12, SetInductionUpTo
<1>14. QED BY <1>1, <1>10, <1>13 DEF WidensAlong, S, A

\* Once the queue is full, or all its nodes were handled, it stays as it is.
LEMMA BreadthFirstEnds ==
    ASSUME NEW g, LinksInside(g), NEW root \in NodesOf(g), NEW size \in Nat, NEW n \in 0..size,
           LET q == BreadthFirst(size, g, root)[n] IN Len(q) >= size \/ n >= Len(q)
    PROVE  BreadthFirst(size, g, root)[size] = BreadthFirst(size, g, root)[n]
<1> DEFINE after == BreadthFirst(size, g, root)
           N == NodesOf(g)
           S == {k \in 0..size : k >= n => after[k] = after[n]}
<1>1. WidensAlong(after, size, g, root) /\ \A k \in 0..size : after[k] \in Seq(N)
  BY BreadthFirstFacts
<1>2. Len(after[n]) >= size \/ n >= Len(after[n])
  OBVIOUS
<1>3. after[n] \in Seq(N) /\ Len(after[n]) \in Nat
  BY <1>1, LenProperties
<1>4. N = 1..Len(g.children) /\ \A m \in N : g.children[m] \in Seq(N)
  BY ElementOfSeq, LenProperties DEF LinksInside, NodesOf
<1> HIDE DEF after, N
<1>5. ASSUME Len(after[n]) >= size, NEW kids \in Seq(N)
      PROVE  Taken(size, after[n], kids) = after[n]
  <2> DEFINE q == after[n]
             none == 0
  <2>1. q \in Seq(N) /\ Len(q) >= size /\ none \in 0..Len(kids)
    BY <1>3, <1>5, LenProperties
  <2> HIDE DEF q
  <2>2. SubSeq(kids, 1, none) = <<>>
    OBVIOUS
  <2>3. Taken(size, q, SubSeq(kids, 1, none)) = q
    BY <2>1, <2>2, TakenFacts
  <2> HIDE DEF none
  <2>4. Len(Taken(size, q, SubSeq(kids, 1, none))) >= size
    BY <2>1, <2>3
  <2>5. Taken(size, q, kids) = Taken(size, q, SubSeq(kids, 1, none))
    BY <2>1, <2>4, FullTakesNoMore, ZenonT(40)
  <2>6. QED BY <2>3, <2>5 DEF q
<1>6. 0 \in S
  BY <1>1
<1>7. ASSUME NEW k \in 0..size, k \in S, k < size PROVE k + 1 \in S
  <2>0. k + 1 \in 0..size /\ k + 1 \in 1..size /\ (k + 1) - 1 = k
    BY <1>7
  <2>1. CASE k < n
    <3>1. k + 1 >= n => k + 1 = n
      BY <2>1
    <3>2. QED BY <2>0, <3>1
  <2>2. CASE k >= n
    <3>1. after[k] = after[n]
      BY <1>7, <2>2
    <3>2. after[k + 1] = Widened(size, g, k + 1, after[n])
      BY <1>1, <2>0, <3>1 DEF WidensAlong
    <3>3. CASE k + 1 > Len(after[n])
      BY <2>0, <3>2, <3>3 DEF Widened
    <3>4. CASE ~(k + 1 > Len(after[n]))
      <4>1. k + 1 \in 1..Len(after[n]) /\ Len(after[n]) >= size
        BY <1>2, <1>3, <2>0, <2>2, <3>4
      <4>2. after[n][k + 1] \in N
        BY <1>3, <4>1, ElementOfSeq
      <4>3. g.children[after[n][k + 1]] \in Seq(N)
        BY <1>4, <4>2
      <4>4. Taken(size, after[n], g.children[after[n][k + 1]]) = after[n]
        BY <1>5, <4>1, <4>3
      <4>5. QED BY <2>0, <3>2, <3>4, <4>4 DEF Widened
    <3>5. QED BY <3>3, <3>4
  <2>3. QED BY <2>1, <2>2
<1>8. 0..size \subseteq S
  <2> HIDE DEF S
  <2>1. QED BY <1>6, <1>7, SetInductionUpTo
<1>9. size \in 0..size /\ size >= n
  OBVIOUS
<1>10. after[size] = after[n]
  BY <1>8, <1>9
<1>11. QED BY <1>10 DEF after
-----------------------------------------------------------------------------
(***************************************************************************)
(* ElementsAt: the k-th of a finite set of numbers is the one with k - 1   *)
(* of them below it.                                                       *)
(***************************************************************************)
Nth(I, m) == CHOOSE i \in I : RankIn(I, i) = m

LEMMA RankFacts ==
    ASSUME NEW I, IsFiniteSet(I), I \subseteq Nat
    PROVE  /\ Cardinality(I) \in Nat
           /\ \A i \in I : RankIn(I, i) \in 1..Cardinality(I)
           /\ \A i, j \in I : i < j => RankIn(I, i) < RankIn(I, j)
           /\ \A m \in 1..Cardinality(I) : \E i \in I : RankIn(I, i) = m
<1> DEFINE below(i) == {j \in I : j <= i}
           c == Cardinality(I)
<1>1. ASSUME NEW i \in I
      PROVE  /\ IsFiniteSet(below(i)) /\ below(i) \in SUBSET I /\ i \in below(i)
             /\ Cardinality(below(i)) \in Nat /\ RankIn(I, i) = Cardinality(below(i))
  <2>1. below(i) \in SUBSET I /\ i \in below(i)
    BY <1>1
  <2>2. RankIn(I, i) = Cardinality(below(i))
    BY DEF RankIn
  <2> HIDE DEF below
  <2>3. QED BY <2>1, <2>2, FS_Subset, FS_CardinalityType
<1>2. c \in Nat
  BY FS_CardinalityType
<1>3. ASSUME NEW i \in I PROVE RankIn(I, i) \in 1..c
  <2> DEFINE b == below(i)
             n == Cardinality(b)
  <2>1. IsFiniteSet(b) /\ b \in SUBSET I /\ i \in b /\ n \in Nat /\ RankIn(I, i) = n
    BY <1>1
  <2> HIDE DEF b
  <2>2. n <= c
    BY <2>1, FS_Subset
  <2>3. n # 0
    BY <2>1, FS_EmptySet
  <2> HIDE DEF n, c
  <2>4. QED BY <1>2, <2>1, <2>2, <2>3
<1>4. ASSUME NEW i \in I, NEW j \in I, i < j PROVE RankIn(I, i) < RankIn(I, j)
  <2> DEFINE a == below(i)
             b == below(j)
  <2>1. IsFiniteSet(b) /\ a \in SUBSET b /\ a # b
    <3>1. j \in b /\ j \notin a /\ \A x \in a : x <= j
      BY <1>4
    <3>2. IsFiniteSet(b)
      BY <1>1
    <3>3. QED BY <3>1, <3>2
  <2>2. /\ RankIn(I, i) = Cardinality(a) /\ RankIn(I, j) = Cardinality(b)
        /\ Cardinality(a) \in Nat /\ Cardinality(b) \in Nat
    BY <1>1
  <2> HIDE DEF a, b
  <2>3. Cardinality(a) <= Cardinality(b) /\ Cardinality(a) # Cardinality(b)
    BY <2>1, FS_Subset
  <2>4. QED BY <2>2, <2>3
<1>5. ASSUME NEW m \in 1..c PROVE \E i \in I : RankIn(I, i) = m
  <2> DEFINE f == [i \in I |-> RankIn(I, i)]
             D == 1..c
  <2>1. f \in [I -> D]
    BY <1>3
  <2>2. \A i, j \in I : f[i] = f[j] => i = j
    <3>1. ASSUME NEW i \in I, NEW j \in I, RankIn(I, i) = RankIn(I, j), i # j PROVE FALSE
      <4>1. RankIn(I, i) \in Nat /\ RankIn(I, j) \in Nat
        BY <1>3
      <4>2. i < j \/ j < i
        BY <3>1
      <4>3. RankIn(I, i) < RankIn(I, j) \/ RankIn(I, j) < RankIn(I, i)
        BY <1>4, <4>2
      <4>4. QED BY <3>1, <4>1, <4>3
    <3>2. QED BY <3>1
  <2>3. f \in Injection(I, D)
    BY <2>1, <2>2 DEF Injection, IsInjective
  <2>4. IsFiniteSet(D) /\ Cardinality(D) = c
    <3> HIDE DEF c
    <3>1. QED BY <1>2, FS_Interval
  <2>5. f \in Surjection(I, D)
    <3> HIDE DEF f, D
    <3>1. QED BY <2>3, <2>4, FS_Injection
  <2>6. \A d \in D : \E i \in I : f[i] = d
    BY <2>5 DEF Surjection
  <2>7. QED BY <2>6
<1>6. QED BY <1>2, <1>3, <1>4, <1>5

LEMMA NthFacts ==
    ASSUME NEW I, IsFiniteSet(I), I \subseteq Nat
    PROVE  /\ \A m \in 1..Cardinality(I) : Nth(I, m) \in I /\ RankIn(I, Nth(I, m)) = m
           /\ \A i \in I : Nth(I, RankIn(I, i)) = i
           /\ \A m, n \in 1..Cardinality(I) : m < n => Nth(I, m) < Nth(I, n)
<1> DEFINE c == Cardinality(I)
<1>1. /\ c \in Nat
      /\ \A i \in I : RankIn(I, i) \in 1..c
      /\ \A i, j \in I : i < j => RankIn(I, i) < RankIn(I, j)
      /\ \A m \in 1..c : \E i \in I : RankIn(I, i) = m
  BY RankFacts
<1> HIDE DEF c
<1>2. \A m \in 1..c : Nth(I, m) \in I /\ RankIn(I, Nth(I, m)) = m
  BY <1>1 DEF Nth
<1>3. ASSUME NEW i \in I PROVE Nth(I, RankIn(I, i)) = i
  <2> DEFINE m == RankIn(I, i)
             j == Nth(I, m)
  <2>1. m \in 1..c /\ j \in I /\ RankIn(I, j) = m /\ RankIn(I, i) = m
    BY <1>1, <1>2
  <2> HIDE DEF m, j
  <2>2. ~(i < j) /\ ~(j < i)
    BY <1>1, <2>1
  <2>3. i = j
    BY <2>1, <2>2
  <2>4. QED BY <2>3 DEF j, m
<1>4. ASSUME NEW m \in 1..c, NEW n \in 1..c, m < n PROVE Nth(I, m) < Nth(I, n)
  <2> DEFINE i == Nth(I, m)
             j == Nth(I, n)
  <2>1. i \in I /\ j \in I /\ RankIn(I, i) = m /\ RankIn(I, j) = n
    BY <1>2
  <2> HIDE DEF i, j
  <2>2. i # j /\ ~(j < i)
    BY <1>1, <1>4, <2>1
  <2>3. i < j
    BY <2>1, <2>2
  <2>4. QED BY <2>3 DEF i, j
<1>5. QED BY <1>2, <1>3, <1>4 DEF c

LEMMA ElementsFacts ==
    ASSUME NEW T, NEW s \in Seq(T), NEW I, I \subseteq 1..Len(s)
    PROVE  /\ IsFiniteSet(I) /\ I \subseteq Nat /\ Cardinality(I) \in Nat
           /\ ElementsAt(s, I) \in Seq(T) /\ Len(ElementsAt(s, I)) = Cardinality(I)
           /\ DOMAIN ElementsAt(s, I) = 1..Cardinality(I)
           /\ \A m \in 1..Cardinality(I) : ElementsAt(s, I)[m] = s[Nth(I, m)]
<1> DEFINE n == Len(s)
           c == Cardinality(I)
<1>1. n \in Nat /\ \A i \in 1..n : s[i] \in T
  BY ElementOfSeq, LenProperties
<1>2. IsFiniteSet(I) /\ I \subseteq Nat /\ c \in Nat
  <2> HIDE DEF n
  <2>1. IsFiniteSet(1..n) /\ I \in SUBSET (1..n)
    BY <1>1, FS_Interval DEF n
  <2>2. IsFiniteSet(I)
    BY <2>1, FS_Subset
  <2>3. QED BY <1>1, <2>1, <2>2, FS_CardinalityType
<1>3. \A m \in 1..c : Nth(I, m) \in I
  BY <1>2, NthFacts
<1>4. ElementsAt(s, I) = [m \in 1..c |-> s[Nth(I, m)]]
  BY DEF ElementsAt, Nth
<1> HIDE DEF c, n
<1>5. \A m \in 1..c : s[Nth(I, m)] \in T
  BY <1>1, <1>3 DEF n
<1>6. /\ ElementsAt(s, I) \in Seq(T) /\ Len(ElementsAt(s, I)) = c
      /\ DOMAIN ElementsAt(s, I) = 1..c
  BY <1>2, <1>4, <1>5
<1>7. QED BY <1>2, <1>4, <1>6 DEF c

LEMMA CountListed ==
    ASSUME NEW n \in Nat, NEW S, NEW f \in [1..n -> S],
           \A i, j \in 1..n : f[i] = f[j] => i = j,
           \A x \in S : \E i \in 1..n : f[i] = x
    PROVE  IsFiniteSet(S) /\ Cardinality(S) = n
<1> DEFINE D == 1..n
<1>1. f \in Bijection(D, S)
  BY DEF Bijection, Injection, Surjection, IsInjective
<1>2. IsFiniteSet(D) /\ Cardinality(D) = n
  BY FS_Interval
<1> HIDE DEF D
<1>3. ExistsBijection(D, S)
  BY <1>1 DEF ExistsBijection
<1>4. QED BY <1>2, <1>3, FS_Bijection

\* f gives the elements of I from the least to the greatest.
Picked(s, f, n) == [k \in 1..n |-> s[f[k]]]
Enumerates(f, n, I) ==
    /\ I \subseteq Nat
    /\ f \in [1..n -> I]
    /\ \A k, m \in 1..n : k < m => f[k] < f[m]
    /\ \A i \in I : \E k \in 1..n : f[k] = i

LEMMA ElementsIs ==
    ASSUME NEW n \in Nat, NEW I, NEW f, Enumerates(f, n, I), NEW s
    PROVE  /\ IsFiniteSet(I) /\ Cardinality(I) = n
           /\ \A k \in 1..n : Nth(I, k) = f[k]
           /\ ElementsAt(s, I) = Picked(s, f, n)
<1>1. /\ I \subseteq Nat /\ f \in [1..n -> I]
      /\ \A k, m \in 1..n : k < m => f[k] < f[m]
      /\ \A i \in I : \E k \in 1..n : f[k] = i
      /\ \A k \in 1..n : f[k] \in Nat
  BY DEF Enumerates
<1>2. \A k, m \in 1..n : k <= m <=> f[k] <= f[m]
  <2>1. ASSUME NEW k \in 1..n, NEW m \in 1..n PROVE k <= m <=> f[k] <= f[m]
    <3>1. f[k] \in Nat /\ f[m] \in Nat /\ (k < m => f[k] < f[m]) /\ (m < k => f[m] < f[k])
      BY <1>1
    <3>2. QED BY <3>1
  <2>2. QED BY <2>1
<1>3. \A k, m \in 1..n : f[k] = f[m] => k = m
  <2>1. ASSUME NEW k \in 1..n, NEW m \in 1..n, f[k] = f[m] PROVE k = m
    <3>1. f[k] \in Nat /\ f[m] \in Nat /\ k <= m /\ m <= k
      BY <1>1, <1>2, <2>1
    <3>2. QED BY <3>1
  <2>2. QED BY <2>1
<1>4. IsFiniteSet(I) /\ Cardinality(I) = n
  BY <1>1, <1>3, CountListed
<1>5. ASSUME NEW k \in 1..n PROVE RankIn(I, f[k]) = k
  <2> DEFINE B == {j \in I : j <= f[k]}
             g == [m \in 1..k |-> f[m]]
  <2>1. k \in Nat /\ 1..k \subseteq 1..n
    OBVIOUS
  <2>2. g \in [1..k -> B]
    BY <1>1, <1>2, <2>1
  <2>3. \A i, j \in 1..k : g[i] = g[j] => i = j
    BY <1>3, <2>1
  <2>4. \A x \in B : \E i \in 1..k : g[i] = x
    <3>1. ASSUME NEW x \in B PROVE \E i \in 1..k : g[i] = x
      <4>1. PICK m \in 1..n : f[m] = x
        BY <1>1
      <4>2. f[m] <= f[k]
        BY <4>1
      <4>3. m <= k
        BY <1>2, <4>2
      <4>4. m \in 1..k
        BY <4>3
      <4>5. QED BY <4>1, <4>4
    <3>2. QED BY <3>1
  <2> HIDE DEF g, B
  <2>5. Cardinality(B) = k
    BY <2>1, <2>2, <2>3, <2>4, CountListed
  <2>6. QED BY <2>5 DEF B, RankIn
<1>6. ASSUME NEW k \in 1..n PROVE Nth(I, k) = f[k]
  <2>1. f[k] \in I /\ RankIn(I, f[k]) = k
    BY <1>1, <1>5
  <2>2. \A i \in I : Nth(I, RankIn(I, i)) = i
    BY <1>1, <1>4, NthFacts
  <2>3. QED BY <2>1, <2>2
<1>7. ElementsAt(s, I) = [k \in 1..n |-> s[Nth(I, k)]]
  BY <1>4 DEF ElementsAt, Nth
<1>8. QED BY <1>4, <1>6, <1>7 DEF Picked

\* The positions of a set that is numbered by Nth.
LEMMA NthEnumerates ==
    ASSUME NEW I, IsFiniteSet(I), I \subseteq Nat
    PROVE  Enumerates([m \in 1..Cardinality(I) |-> Nth(I, m)], Cardinality(I), I)
<1> DEFINE c == Cardinality(I)
<1>1. /\ \A m \in 1..c : Nth(I, m) \in I
      /\ \A i \in I : Nth(I, RankIn(I, i)) = i
      /\ \A m, n \in 1..c : m < n => Nth(I, m) < Nth(I, n)
      /\ \A i \in I : RankIn(I, i) \in 1..c
  BY NthFacts, RankFacts
<1> HIDE DEF c
<1>2. QED BY <1>1 DEF Enumerates, c

\* One more position, behind all others.
LEMMA ElementsMore ==
    ASSUME NEW T, NEW s \in Seq(T), NEW I, I \subseteq 1..Len(s),
           NEW p \in 1..Len(s), \A i \in I : i < p
    PROVE  /\ ElementsAt(s, I \cup {p}) = Append(ElementsAt(s, I), s[p])
           /\ Cardinality(I \cup {p}) = Cardinality(I) + 1
<1> DEFINE c == Cardinality(I)
           J == I \cup {p}
           f == [m \in 1..(c + 1) |-> IF m = c + 1 THEN p ELSE Nth(I, m)]
<1>1. /\ IsFiniteSet(I) /\ I \subseteq Nat /\ c \in Nat
      /\ ElementsAt(s, I) \in Seq(T) /\ Len(ElementsAt(s, I)) = c
      /\ \A m \in 1..c : ElementsAt(s, I)[m] = s[Nth(I, m)]
  BY ElementsFacts
<1>2. /\ \A m \in 1..c : Nth(I, m) \in I
      /\ \A i \in I : Nth(I, RankIn(I, i)) = i
      /\ \A m, n \in 1..c : m < n => Nth(I, m) < Nth(I, n)
      /\ \A i \in I : RankIn(I, i) \in 1..c
  BY <1>1, NthFacts, RankFacts
<1>3. J \subseteq Nat /\ p \in Nat
  BY <1>1
<1> HIDE DEF c
<1>4. Enumerates(f, c + 1, J)
  <2>1. f \in [1..(c + 1) -> J]
    BY <1>1, <1>2
  <2>2. ASSUME NEW k \in 1..(c + 1), NEW m \in 1..(c + 1), k < m PROVE f[k] < f[m]
    <3>1. k \in 1..c /\ f[k] = Nth(I, k) /\ f[k] \in I
      BY <1>1, <1>2, <2>2
    <3>2. CASE m = c + 1
      BY <3>1, <3>2
    <3>3. CASE m # c + 1
      <4>1. m \in 1..c /\ f[m] = Nth(I, m)
        BY <1>1, <3>3
      <4>2. QED BY <1>2, <2>2, <3>1, <4>1
    <3>4. QED BY <3>2, <3>3
  <2>3. ASSUME NEW x \in J PROVE \E k \in 1..(c + 1) : f[k] = x
    <3>1. CASE x = p
      BY <1>1, <3>1
    <3>2. CASE x \in I
      <4>1. RankIn(I, x) \in 1..c /\ Nth(I, RankIn(I, x)) = x
        BY <1>2, <3>2
      <4> DEFINE m == RankIn(I, x)
      <4>2. m \in 1..c /\ Nth(I, m) = x
        BY <4>1
      <4> HIDE DEF m
      <4>3. m \in 1..(c + 1) /\ f[m] = x
        BY <1>1, <4>2
      <4>4. QED BY <4>3
    <3>3. QED BY <3>1, <3>2
  <2> HIDE DEF f, J
  <2>4. QED BY <1>3, <2>1, <2>2, <2>3 DEF Enumerates
<1>5. c + 1 \in Nat
  BY <1>1
<1> HIDE DEF f, J
<1>6. Cardinality(J) = c + 1 /\ ElementsAt(s, J) = [k \in 1..(c + 1) |-> s[f[k]]]
  <2> DEFINE n == c + 1
  <2>1. n \in Nat /\ Enumerates(f, n, J)
    BY <1>4, <1>5
  <2> HIDE DEF n
  <2>2. Cardinality(J) = n /\ ElementsAt(s, J) = Picked(s, f, n)
    BY <2>1, ElementsIs
  <2>3. QED BY <2>2 DEF n, Picked
<1> DEFINE e == ElementsAt(s, I)
<1>7. e \in Seq(T) /\ Len(e) = c /\ \A m \in 1..c : e[m] = s[Nth(I, m)]
  BY <1>1
<1>8. s[p] \in T /\ \A m \in 1..(c + 1) : s[f[m]] = IF m = c + 1 THEN s[p] ELSE s[Nth(I, m)]
  <2>1. s[p] \in T
    BY ElementOfSeq, LenProperties
  <2>2. QED BY <2>1 DEF f
<1> HIDE DEF e
<1>9. /\ Append(e, s[p]) = [k \in 1..(c + 1) |-> IF k = c + 1 THEN s[p] ELSE e[k]]
  BY <1>1, <1>7, <1>8
<1>10. [k \in 1..(c + 1) |-> s[f[k]]] = [k \in 1..(c + 1) |-> IF k = c + 1 THEN s[p] ELSE e[k]]
  <2>1. \A k \in 1..(c + 1) : s[f[k]] = IF k = c + 1 THEN s[p] ELSE e[k]
    <3>1. \A k \in 1..(c + 1) : k # c + 1 => k \in 1..c
      BY <1>1
    <3>2. QED BY <1>7, <1>8, <3>1
  <2>2. QED BY <2>1
<1>11. QED BY <1>6, <1>9, <1>10 DEF J, c, e

\* Positions that follow each other.
LEMMA ElementsBlock ==
    ASSUME NEW a \in Nat, NEW n \in Nat, NEW s
    PROVE  /\ Cardinality((a + 1)..(a + n)) = n
           /\ ElementsAt(s, (a + 1)..(a + n)) = [k \in 1..n |-> s[a + k]]
<1> DEFINE I == (a + 1)..(a + n)
           f == [k \in 1..n |-> a + k]
<1>1. I \subseteq Nat
  OBVIOUS
<1>2. Enumerates(f, n, I)
  <2>1. f \in [1..n -> I] /\ \A k, m \in 1..n : k < m => f[k] < f[m]
    OBVIOUS
  <2>2. ASSUME NEW i \in I PROVE \E k \in 1..n : f[k] = i
    <3>1. i - a \in 1..n /\ f[i - a] = i
      OBVIOUS
    <3>2. QED BY <3>1
  <2>3. QED BY <1>1, <2>1, <2>2 DEF Enumerates
<1> HIDE DEF I
<1>3. Cardinality(I) = n /\ ElementsAt(s, I) = [k \in 1..n |-> s[f[k]]]
  <2> HIDE DEF f
  <2>1. Cardinality(I) = n /\ ElementsAt(s, I) = Picked(s, f, n)
    BY <1>2, ElementsIs
  <2>2. QED BY <2>1 DEF Picked
<1>4. QED BY <1>3 DEF I

\* All positions that are in use.
LEMMA ElementsEmpty ==
    ASSUME NEW s
    PROVE  Cardinality({}) = 0 /\ ElementsAt(s, {}) = <<>>
<1>1. Cardinality({}) = 0
  BY FS_EmptySet
<1>2. 1..0 = {}
  OBVIOUS
<1>3. ElementsAt(s, {}) = [k \in {} |-> s[Nth({}, k)]]
  BY <1>1, <1>2 DEF ElementsAt, Nth
<1>4. QED BY <1>1, <1>3

LEMMA ElementsSame ==
    ASSUME NEW I, IsFiniteSet(I), I \subseteq Nat, NEW s, NEW t, \A i \in I : s[i] = t[i]
    PROVE  ElementsAt(s, I) = ElementsAt(t, I)
<1> DEFINE c == Cardinality(I)
<1>1. \A m \in 1..c : Nth(I, m) \in I
  BY NthFacts
<1>2. /\ ElementsAt(s, I) = [m \in 1..c |-> s[Nth(I, m)]]
      /\ ElementsAt(t, I) = [m \in 1..c |-> t[Nth(I, m)]]
  BY DEF ElementsAt, Nth
<1> HIDE DEF c
<1>3. \A m \in 1..c : s[Nth(I, m)] = t[Nth(I, m)]
  BY <1>1
<1>4. QED BY <1>2, <1>3

-----------------------------------------------------------------------------
(***************************************************************************)
(* FlattenSeq: r[k] is what the first k sequences give, the next one       *)
(* starts behind it.                                                       *)
(***************************************************************************)
Flattens(r, seqs, T) ==
    /\ r \in [0..Len(seqs) -> Seq(T)]
    /\ r[0] = <<>> /\ FlattenSeq(seqs) = r[Len(seqs)]
    /\ \A k \in 1..Len(seqs) : r[k] = r[k - 1] \o seqs[k]

LEMMA FlattenTrace ==
    ASSUME NEW T, NEW seqs \in Seq(Seq(T))
    PROVE  \E r : Flattens(r, seqs, T)
<1> DEFINE n == Len(seqs)
           A == Seq(T)
           step == [x \in (1..n) \X A |-> x[2] \o seqs[x[1]]]
           Q(h) == h = [i \in 1..n |-> IF i = 1 THEN seqs[i] ELSE h[i - 1] \o seqs[i]]
           G == CHOOSE h : Q(h)
<1>1. n \in Nat /\ \A k \in 1..n : seqs[k] \in A
  <2> HIDE DEF A
  <2>1. QED BY ElementOfSeq, LenProperties DEF A
<1>2. n # 0 => FlattenSeq(seqs) = G[n]
  BY DEF FlattenSeq
<1>3. \A x, y \in A : x \o y \in A
  BY ConcatProperties
<1>4. <<>> \in A /\ \A x \in A : <<>> \o x = x
  BY ConcatEmptySeq
<1> HIDE DEF A
<1>5. FoldsIn(step, 1..n, A)
  BY <1>1, <1>3 DEF FoldsIn
<1>6. PICK r \in [0..n -> A] : Iterates(r, step, <<>>, n)
  <2> HIDE DEF step, n
  <2>1. QED BY <1>1, <1>4, <1>5, IterationExists
<1>7. r[0] = <<>> /\ \A k \in 1..n : r[k] = r[k - 1] \o seqs[k]
  <2>1. r[0] = <<>> /\ \A k \in 1..n : r[k] = step[<<k, r[k - 1]>>]
    BY <1>6 DEF Iterates
  <2>2. ASSUME NEW k \in 1..n PROVE r[k] = r[k - 1] \o seqs[k]
    <3>1. k - 1 \in 0..n
      BY <1>1
    <3>2. r[k - 1] \in A
      BY <1>6, <3>1
    <3>3. QED BY <2>1, <3>2
  <2>3. QED BY <2>1, <2>2
<1> HIDE DEF n
<1>8. \A k \in 1..n : r[k] = IF k = 1 THEN seqs[k] ELSE r[k - 1] \o seqs[k]
  <2>1. ASSUME NEW k \in 1..n, k = 1 PROVE r[k] = seqs[k]
    <3>1. k - 1 = 0
      BY <2>1
    <3>2. seqs[k] \in A
      BY <1>1
    <3>3. r[k] = r[k - 1] \o seqs[k]
      BY <1>7
    <3>4. r[k - 1] = <<>>
      BY <1>7, <3>1
    <3>5. r[k] = <<>> \o seqs[k]
      BY <3>3, <3>4
    <3>6. QED BY <1>4, <3>2, <3>5
  <2>2. QED BY <1>7, <2>1
<1> DEFINE g == [k \in 1..n |-> r[k]]
<1>9. Q(g)
  <2>1. \A k \in 1..n : g[k] = IF k = 1 THEN seqs[k] ELSE g[k - 1] \o seqs[k]
    <3>1. \A k \in 1..n : k # 1 => k - 1 \in 1..n
      BY <1>1
    <3>2. QED BY <1>8, <3>1
  <2>2. QED BY <2>1
<1>10. Q(G)
  <2> HIDE DEF Q, g
  <2>1. QED BY <1>9
<1> HIDE DEF G
<1>11. \A k \in 1..n : G[k] = IF k = 1 THEN seqs[k] ELSE G[k - 1] \o seqs[k]
  BY <1>10, Zenon
<1> HIDE DEF Q
<1> DEFINE Good == {k \in 0..n : k # 0 => G[k] = r[k]}
<1>12. 0..n \subseteq Good
  <2>1. 0 \in Good
    BY <1>1
  <2>2. ASSUME NEW k \in 0..n, k \in Good, k < n PROVE k + 1 \in Good
    <3>1. k + 1 \in 1..n /\ k + 1 \in 0..n /\ (k + 1) - 1 = k /\ (k + 1 = 1 <=> k = 0)
      BY <1>1, <2>2
    <3>2. G[k + 1] = IF k = 0 THEN seqs[k + 1] ELSE G[k] \o seqs[k + 1]
      BY <1>11, <3>1
    <3>3. r[k + 1] = IF k = 0 THEN seqs[k + 1] ELSE r[k] \o seqs[k + 1]
      BY <1>8, <3>1
    <3>4. QED BY <2>2, <3>1, <3>2, <3>3
  <2> HIDE DEF Good
  <2>3. QED BY <1>1, <2>1, <2>2, SetInductionUpTo
<1>13. FlattenSeq(seqs) = r[n]
  <2>1. CASE n # 0
    <3>1. n \in Good
      BY <1>1, <1>12
    <3>2. QED BY <1>2, <2>1, <3>1
  <2>2. CASE n = 0
    <3>1. seqs = <<>>
      BY <2>2, EmptySeq DEF n
    <3>2. FlattenSeq(seqs) = seqs
      BY <2>2 DEF n, FlattenSeq
    <3>3. QED BY <1>7, <2>2, <3>1, <3>2
  <2>3. QED BY <2>1, <2>2
<1>14. QED BY <1>6, <1>7, <1>13 DEF A, n, Flattens

StartsWith(t, s) == Len(s) <= Len(t) /\ \A p \in 1..Len(s) : t[p] = s[p]

HasBlocks(flat, r, seqs) ==
    /\ \A k \in 0..Len(seqs) : Len(r[k]) \in Nat /\ StartsWith(flat, r[k])
    /\ \A k \in 1..Len(seqs) :
          /\ Len(seqs[k]) \in Nat /\ Len(r[k]) = Len(r[k - 1]) + Len(seqs[k])
          /\ \A m \in 1..Len(seqs[k]) : flat[Len(r[k - 1]) + m] = seqs[k][m]
    /\ \A p \in 1..Len(flat) :
          \E k \in 1..Len(seqs) : \E m \in 1..Len(seqs[k]) : p = Len(r[k - 1]) + m

LEMMA FlattenBlocks ==
    ASSUME NEW T, NEW seqs \in Seq(Seq(T)), NEW r, Flattens(r, seqs, T)
    PROVE  FlattenSeq(seqs) \in Seq(T) /\ HasBlocks(FlattenSeq(seqs), r, seqs)
<1> DEFINE n == Len(seqs)
           A == Seq(T)
           at(k, p) == \E m \in 1..Len(seqs[k]) : p = Len(r[k - 1]) + m
           Good == {m \in 0..n : /\ \A k \in 0..m : StartsWith(r[m], r[k])
                                 /\ \A p \in 1..Len(r[m]) : \E k \in 1..m : at(k, p)}
<1>1. n \in Nat /\ \A k \in 1..n : seqs[k] \in A
  <2> HIDE DEF A
  <2>1. QED BY ElementOfSeq, LenProperties DEF A
<1>2. /\ r \in [0..n -> A] /\ r[0] = <<>> /\ FlattenSeq(seqs) = r[n]
      /\ \A k \in 1..n : r[k] = r[k - 1] \o seqs[k]
  BY DEF Flattens
<1>3. \A x, y \in A : /\ Len(x) \in Nat /\ Len(y) \in Nat /\ Len(x \o y) = Len(x) + Len(y)
                      /\ \A p \in 1..Len(x) : (x \o y)[p] = x[p]
                      /\ \A p \in 1..Len(y) : (x \o y)[Len(x) + p] = y[p]
  <2>1. ASSUME NEW x \in A, NEW y \in A
        PROVE  /\ Len(x) \in Nat /\ Len(y) \in Nat /\ Len(x \o y) = Len(x) + Len(y)
               /\ \A p \in 1..Len(x) : (x \o y)[p] = x[p]
               /\ \A p \in 1..Len(y) : (x \o y)[Len(x) + p] = y[p]
    <3>1. /\ Len(x) \in Nat /\ Len(y) \in Nat /\ Len(x \o y) = Len(x) + Len(y)
          /\ \A i \in 1..(Len(x) + Len(y)) : (x \o y)[i] = IF i <= Len(x) THEN x[i] ELSE y[i - Len(x)]
      BY ConcatProperties, LenProperties
    <3>2. ASSUME NEW p \in 1..Len(y) PROVE (x \o y)[Len(x) + p] = y[p]
      <4>1. /\ Len(x) + p \in 1..(Len(x) + Len(y)) /\ ~(Len(x) + p <= Len(x))
            /\ (Len(x) + p) - Len(x) = p
        BY <3>1
      <4>2. QED BY <3>1, <4>1
    <3>3. ASSUME NEW p \in 1..Len(x) PROVE (x \o y)[p] = x[p]
      <4>1. p \in 1..(Len(x) + Len(y)) /\ p <= Len(x)
        BY <3>1
      <4>2. QED BY <3>1, <4>1
    <3>4. QED BY <3>1, <3>2, <3>3
  <2>2. QED BY <2>1
<1> HIDE DEF n, A, at
<1>4. ASSUME NEW k \in 1..n
      PROVE  /\ k - 1 \in 0..n /\ r[k - 1] \in A /\ r[k] \in A /\ seqs[k] \in A
             /\ Len(r[k - 1]) \in Nat /\ Len(seqs[k]) \in Nat /\ Len(r[k]) \in Nat
             /\ Len(r[k]) = Len(r[k - 1]) + Len(seqs[k])
             /\ \A p \in 1..Len(r[k - 1]) : r[k][p] = r[k - 1][p]
             /\ \A p \in 1..Len(seqs[k]) : r[k][Len(r[k - 1]) + p] = seqs[k][p]
  <2>1. k - 1 \in 0..n /\ k \in 0..n
    BY <1>1
  <2>2. r[k - 1] \in A /\ r[k] \in A /\ seqs[k] \in A /\ r[k] = r[k - 1] \o seqs[k]
    BY <1>1, <1>2, <2>1
  <2> DEFINE x == r[k - 1]
             y == seqs[k]
             z == r[k]
  <2>3. x \in A /\ y \in A /\ z = x \o y
    BY <2>2
  <2> HIDE DEF x, y, z
  <2>4. /\ Len(x) \in Nat /\ Len(y) \in Nat /\ Len(z) = Len(x) + Len(y)
        /\ \A p \in 1..Len(x) : z[p] = x[p]
        /\ \A p \in 1..Len(y) : z[Len(x) + p] = y[p]
    BY <1>3, <2>3
  <2>5. Len(z) \in Nat
    <3> DEFINE lx == Len(x)
               ly == Len(y)
               lz == Len(z)
    <3>1. lx \in Nat /\ ly \in Nat /\ lz = lx + ly
      BY <2>4
    <3> HIDE DEF lx, ly, lz
    <3>2. lz \in Nat
      BY <3>1
    <3>3. QED BY <3>2 DEF lz
  <2>6. QED BY <2>1, <2>2, <2>4, <2>5 DEF x, y, z
<1>5. 0 \in Good
  <2>1. Len(r[0]) = 0 /\ r[0] = <<>>
    BY <1>2
  <2>2. 0 \in 0..n /\ 1..0 = {} /\ \A k \in 0..0 : k = 0
    BY <1>1
  <2>3. QED BY <2>1, <2>2 DEF StartsWith
<1>6. ASSUME NEW m \in 0..n, m \in Good, m < n PROVE m + 1 \in Good
  <2> DEFINE m1 == m + 1
  <2>1. m1 \in 1..n /\ m1 \in 0..n /\ m1 - 1 = m /\ \A k \in 0..m1 : k \in 0..m \/ k = m1
    BY <1>1, <1>6
  <2>2. 1..m \subseteq 1..m1 /\ m1 \in 1..m1
    OBVIOUS
  <2> HIDE DEF m1
  <2>3. /\ Len(r[m]) \in Nat /\ Len(seqs[m1]) \in Nat /\ Len(r[m1]) \in Nat
        /\ Len(r[m1]) = Len(r[m]) + Len(seqs[m1])
        /\ \A p \in 1..Len(r[m]) : r[m1][p] = r[m][p]
        /\ \A p \in 1..Len(seqs[m1]) : r[m1][Len(r[m]) + p] = seqs[m1][p]
    BY <1>4, <2>1
  <2>4. ASSUME NEW k \in 0..m1 PROVE StartsWith(r[m1], r[k])
    <3>1. CASE k = m1
      <4> DEFINE z == r[m1]
      <4>1. Len(z) \in Nat
        BY <2>3
      <4> HIDE DEF z
      <4>2. StartsWith(z, z)
        BY <4>1 DEF StartsWith
      <4>3. QED BY <3>1, <4>2 DEF z
    <3>2. CASE k \in 0..m
      <4>1. Len(r[k]) <= Len(r[m]) /\ \A p \in 1..Len(r[k]) : r[m][p] = r[k][p]
        BY <1>6, <3>2 DEF StartsWith
      <4>2. Len(r[k]) \in Nat
        <5>1. k \in 0..n
          BY <1>1, <3>2
        <5>2. r[k] \in A
          BY <1>2, <5>1
        <5>3. QED BY <1>3, <5>2
      <4> DEFINE lk == Len(r[k])
                 lm == Len(r[m])
                 l1 == Len(r[m1])
                 ls == Len(seqs[m1])
      <4>0. lm \in Nat /\ ls \in Nat /\ l1 = lm + ls /\ lk <= lm /\ lk \in Nat
        BY <2>3, <4>1, <4>2
      <4>3. Len(r[k]) <= Len(r[m1]) /\ \A p \in 1..Len(r[k]) : p \in 1..Len(r[m])
        <5> HIDE DEF lk, lm, l1, ls
        <5>1. lk <= l1 /\ \A p \in 1..lk : p \in 1..lm
          BY <4>0
        <5>2. QED BY <5>1 DEF lk, l1, lm
      <4>4. QED BY <2>3, <4>1, <4>3 DEF StartsWith
    <3>3. QED BY <2>1, <3>1, <3>2
  <2>5. ASSUME NEW p \in 1..Len(r[m1]) PROVE \E k \in 1..m1 : at(k, p)
    <3>1. CASE p <= Len(r[m])
      <4>1. p \in 1..Len(r[m])
        BY <2>3, <3>1
      <4>2. QED BY <1>6, <2>2, <4>1
    <3>2. CASE ~(p <= Len(r[m]))
      <4> DEFINE lm == Len(r[m])
                 l1 == Len(r[m1])
                 ls == Len(seqs[m1])
                 e == p - lm
      <4>0. lm \in Nat /\ ls \in Nat /\ l1 = lm + ls /\ p \in 1..l1 /\ ~(p <= lm)
        BY <2>3, <3>2
      <4>1. e \in 1..Len(seqs[m1]) /\ p = Len(r[m]) + e
        <5> HIDE DEF lm, l1, ls
        <5>1. e \in 1..ls /\ p = lm + e
          BY <4>0
        <5>2. QED BY <5>1 DEF ls, lm
      <4> HIDE DEF e
      <4>2. at(m1, p)
        BY <2>1, <4>1 DEF at
      <4>3. QED BY <2>2, <4>2
    <3>3. QED BY <3>1, <3>2
  <2>6. m1 \in Good
    BY <2>1, <2>4, <2>5
  <2>7. QED BY <2>6 DEF m1
<1>7. n \in Good
  <2> HIDE DEF Good
  <2>1. 0..n \subseteq Good
    BY <1>1, <1>5, <1>6, SetInductionUpTo
  <2>2. QED BY <1>1, <2>1
<1>8. r[n] \in A /\ \A k \in 0..n : Len(r[k]) \in Nat /\ StartsWith(r[n], r[k])
  <2>1. \A k \in 0..n : Len(r[k]) \in Nat
    BY <1>2, <1>3
  <2>2. n \in 0..n
    BY <1>1
  <2>3. QED BY <1>2, <1>7, <2>1, <2>2
<1>9. ASSUME NEW k \in 1..n, NEW m \in 1..Len(seqs[k]) PROVE r[n][Len(r[k - 1]) + m] = seqs[k][m]
  <2>1. k \in 0..n
    BY <1>1
  <2>2. StartsWith(r[n], r[k])
    BY <1>8, <2>1
  <2> DEFINE p == Len(r[k - 1]) + m
  <2>3. p \in 1..Len(r[k])
    <3> DEFINE a == Len(r[k - 1])
               b == Len(seqs[k])
               c == Len(r[k])
    <3>1. a \in Nat /\ b \in Nat /\ c = a + b /\ m \in 1..b
      BY <1>4
    <3> HIDE DEF a, b, c
    <3>2. a + m \in 1..c
      BY <3>1
    <3>3. QED BY <3>2 DEF a, c
  <2>4. r[k][p] = seqs[k][m]
    BY <1>4
  <2> HIDE DEF p
  <2>5. r[n][p] = r[k][p]
    BY <2>2, <2>3 DEF StartsWith
  <2>6. QED BY <2>4, <2>5 DEF p
<1>10. \A p \in 1..Len(r[n]) : \E k \in 1..n : at(k, p)
  BY <1>7
<1>11. \A k \in 1..n : Len(seqs[k]) \in Nat /\ Len(r[k]) = Len(r[k - 1]) + Len(seqs[k])
  BY <1>4
<1>12. FlattenSeq(seqs) = r[n]
  BY <1>2
<1> HIDE DEF Good
<1>13. QED BY <1>8, <1>9, <1>10, <1>11, <1>12 DEF A, n, at, HasBlocks
=============================================================================
