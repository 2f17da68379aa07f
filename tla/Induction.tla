----------------------------- MODULE Induction -----------------------------
(***************************************************************************)
(* Induction for the modules that prove something about data: over the     *)
(* natural numbers and over finite sets, for a set instead of a predicate, *)
(* and what it shows of functions defined by recursion, among them the     *)
(* sums of the community modules.                                          *)
(***************************************************************************)
EXTENDS Functions, FiniteSetsExt, WellFoundedInduction, FiniteSetTheorems, TLAPS

(* Of some natural numbers one is the least, from which induction follows. *)
LEMMA LeastNat ==
    ASSUME NEW T \in SUBSET Nat, T # {}
    PROVE  \E x \in T : \A y \in T : x <= y
<1>1. PICK x \in T : \A y \in T : ~(<<y, x>> \in OpToRel(<, Nat))
  BY NatLessThanWellFounded, WFMin
<1>2. \A y \in T : ~ (y < x)
  BY <1>1 DEF OpToRel
<1> QED BY <1>2

LEMMA NatInductive ==
    ASSUME NEW T, 0 \in T, \A i \in Nat : i \in T => i + 1 \in T
    PROVE  \A i \in Nat : i \in T
<1> SUFFICES ASSUME Nat \ T # {} PROVE FALSE
  OBVIOUS
<1>1. PICK i \in Nat \ T : \A j \in Nat \ T : i <= j
  BY LeastNat
<1>2. i - 1 \in Nat /\ i - 1 \in T
  BY <1>1
<1> QED BY <1>1, <1>2

(* A step repeated N times from a, as a function of the number of steps. *)
Iterable(X, st, a, N) == st \in [X -> X] /\ a \in X /\ N \in Nat
Iterated(X, st, a, N) ==
    \E f \in [0..N -> X] : f[0] = a /\ \A i \in 1..N : f[i] = st[f[i-1]]

LEMMA Iterate ==
    ASSUME NEW X, NEW st, NEW a, NEW N, Iterable(X, st, a, N)
    PROVE  Iterated(X, st, a, N)
<1> USE DEF Iterable
<1> DEFINE Is(f, k) == f[0] = a /\ \A i \in 1..k : f[i] = st[f[i-1]]
           T == {k \in Nat : \E f \in [0..k -> X] : Is(f, k)}
<1>1. 0 \in T
  <2>1. [i \in 0..0 |-> a] \in [0..0 -> X] /\ [i \in 0..0 |-> a][0] = a
    OBVIOUS
  <2>2. \A i \in 1..0 : FALSE
    OBVIOUS
  <2>3. Is([i \in 0..0 |-> a], 0)
    BY <2>1, <2>2
  <2> QED BY <2>1, <2>3
<1>2. ASSUME NEW k \in Nat, k \in T PROVE k + 1 \in T
  <2>1. PICK f \in [0..k -> X] : Is(f, k)
    BY <1>2
  <2> DEFINE g == [i \in 0..k+1 |-> IF i = k + 1 THEN st[f[k]] ELSE f[i]]
  <2>2. g \in [0..k+1 -> X]
    OBVIOUS
  <2>3. Is(g, k + 1)
    BY <2>1
  <2> HIDE DEF g
  <2> QED BY <2>2, <2>3
<1> HIDE DEF T
<1>3. N \in T
  BY <1>1, <1>2, NatInductive
<1> QED BY <1>3 DEF T, Iterated

-----------------------------------------------------------------------------
(* Sums *)

(* g is the sums of f over the subsets of S. *)
SumsOf(f, g, S) ==
    /\ g \in [SUBSET S -> Nat]
    /\ g[{}] = 0
    /\ \A s \in SUBSET S : \A y \in s : g[s] = f[y] + g[s \ {y}]

(* The fold by which SumFunction is defined. *)
Element(s) == CHOOSE x \in s : TRUE
FoldStep(f, g, s) == IF s = {} THEN 0 ELSE f[Element(s)] + g[s \ {Element(s)}]
IsFold(f, g, S) == g = [s \in SUBSET S |-> FoldStep(f, g, s)]

LEMMA SumIsFold ==
    ASSUME NEW S, NEW f, S = DOMAIN f
    PROVE  SumFunction(f) = (CHOOSE g : IsFold(f, g, S))[S]
  BY DEF SumFunction, SumFunctionOnSet, FoldFunctionOnSet, MapThenFoldSet,
         IsFold, FoldStep, Element

LEMMA SizeLess ==
    ASSUME NEW S, IsFiniteSet(S)
    PROVE  \A s \in SUBSET S :
              /\ IsFiniteSet(s) /\ Cardinality(s) \in Nat
              /\ Cardinality(s) = 0 <=> s = {}
              /\ \A y \in s : Cardinality(s \ {y}) = Cardinality(s) - 1
<1> SUFFICES ASSUME NEW s \in SUBSET S
             PROVE  /\ IsFiniteSet(s) /\ Cardinality(s) \in Nat
                    /\ Cardinality(s) = 0 <=> s = {}
                    /\ \A y \in s : Cardinality(s \ {y}) = Cardinality(s) - 1
  OBVIOUS
<1>1. IsFiniteSet(s) /\ Cardinality(s) \in Nat
  BY FS_Subset, FS_CardinalityType
<1>2. \A y \in s : Cardinality(s \ {y}) = Cardinality(s) - 1
  BY <1>1, FS_RemoveElement
<1> QED BY <1>1, <1>2, FS_EmptySet

(* A function of the subsets of S that takes them apart an element at a time *)
(* exists, whatever the element and whatever is made of it.                  *)
TakenApart(g, S, a, pick, st) ==
    \A s \in SUBSET S : g[s] = IF s = {} THEN a ELSE st[<<g[s \ {pick[s]}], pick[s]>>]

LEMMA ApartExists ==
    ASSUME NEW S, IsFiniteSet(S), NEW X, NEW a \in X, NEW pick,
           \A s \in SUBSET S : s # {} => pick[s] \in s,
           NEW st \in [X \X S -> X]
    PROVE  \E g \in [SUBSET S -> X] : TakenApart(g, S, a, pick, st)
<1> DEFINE Step(g, s) == IF s = {} THEN a ELSE st[<<g[s \ {pick[s]}], pick[s]>>]
           Upto(g, k) == \A s \in SUBSET S : Cardinality(s) <= k => g[s] = Step(g, s)
           T == {k \in Nat : \E g \in [SUBSET S -> X] : Upto(g, k)}
<1>2. \A g \in [SUBSET S -> X], s \in SUBSET S : Step(g, s) \in X
  OBVIOUS
<1>3. 0 \in T
  <2>1. [s \in SUBSET S |-> a] \in [SUBSET S -> X]
    OBVIOUS
  <2>2. Upto([s \in SUBSET S |-> a], 0)
    BY SizeLess
  <2> QED BY <2>1, <2>2
<1>4. ASSUME NEW k \in Nat, k \in T PROVE k + 1 \in T
  <2>1. PICK g \in [SUBSET S -> X] : Upto(g, k)
    BY <1>4
  <2> DEFINE h == [s \in SUBSET S |-> Step(g, s)]
  <2>2. h \in [SUBSET S -> X]
    BY <1>2
  <2>3. \A s \in SUBSET S : h[s] = Step(g, s)
    OBVIOUS
  <2> HIDE DEF h
  <2>4. ASSUME NEW s \in SUBSET S, Cardinality(s) <= k + 1, s # {}
        PROVE  Step(g, s) = Step(h, s)
    <3> DEFINE x == pick[s]
    <3>1. x \in s /\ s \ {x} \in SUBSET S
      BY <2>4
    <3> HIDE DEF x
    <3>2. Cardinality(s \ {x}) <= k
      <4>1. Cardinality(s \ {x}) = Cardinality(s) - 1 /\ Cardinality(s) \in Nat
        BY <3>1, SizeLess
      <4> QED BY <4>1, <2>4
    <3>3. g[s \ {x}] = h[s \ {x}]
      BY <2>1, <2>3, <3>1, <3>2
    <3> QED BY <3>3 DEF x
  <2>5. Upto(h, k + 1)
    BY <2>3, <2>4
  <2> HIDE DEF Upto
  <2> QED BY <2>2, <2>5
<1> HIDE DEF T
<1>5. Cardinality(S) \in T
  BY <1>3, <1>4, SizeLess, NatInductive
<1>6. PICK g \in [SUBSET S -> X] : Upto(g, Cardinality(S))
  BY <1>5 DEF T
<1>7. \A s \in SUBSET S : Cardinality(s) <= Cardinality(S)
  BY FS_Subset
<1>8. TakenApart(g, S, a, pick, st)
  BY <1>6, <1>7 DEF TakenApart
<1> QED BY <1>8

LEMMA FoldExists ==
    ASSUME NEW S, IsFiniteSet(S), NEW f \in [S -> Nat]
    PROVE  \E g \in [SUBSET S -> Nat] : IsFold(f, g, S)
<1> DEFINE pick == [s \in SUBSET S |-> Element(s)]
           st == [p \in Nat \X S |-> f[p[2]] + p[1]]
<1>1. \A s \in SUBSET S : s # {} => pick[s] \in s /\ pick[s] = Element(s)
  BY DEF Element
<1>2. st \in [Nat \X S -> Nat] /\ \A n \in Nat, x \in S : st[<<n, x>>] = f[x] + n
  OBVIOUS
<1> HIDE DEF pick, st
<1>3. PICK g \in [SUBSET S -> Nat] : TakenApart(g, S, 0, pick, st)
  BY <1>1, <1>2, ApartExists
<1>4. ASSUME NEW s \in SUBSET S PROVE g[s] = FoldStep(f, g, s)
  <2>1. CASE s = {}
    BY <1>3, <2>1 DEF TakenApart, FoldStep
  <2>2. CASE s # {}
    <3>1. Element(s) \in s /\ g[s] = st[<<g[s \ {Element(s)}], Element(s)>>]
      BY <1>1, <1>3, <2>2 DEF TakenApart
    <3> QED BY <1>2, <2>2, <3>1 DEF FoldStep
  <2> QED BY <2>1, <2>2
<1>5. IsFold(f, g, S)
  BY <1>4 DEF IsFold
<1> QED BY <1>5

(* The order in which a fold takes the elements does not matter. *)
LEMMA FoldIsSums ==
    ASSUME NEW S, IsFiniteSet(S), NEW f \in [S -> Nat], NEW g, IsFold(f, g, S)
    PROVE  SumsOf(f, g, S)
<1>1. \A s \in SUBSET S : s # {} => Element(s) \in s
  BY DEF Element
<1>2. \A s \in SUBSET S : g[s] = FoldStep(f, g, s)
  BY DEF IsFold
<1> DEFINE Good(s) == /\ g[s] \in Nat
                      /\ \A y \in s : g[s] = f[y] + g[s \ {y}]
           T == {k \in Nat : \A s \in SUBSET S : Cardinality(s) <= k => Good(s)}
<1>3. 0 \in T
  <2> SUFFICES ASSUME NEW s \in SUBSET S, Cardinality(s) <= 0 PROVE Good(s)
    OBVIOUS
  <2>1. s = {}
    BY SizeLess
  <2>2. g[s] = 0
    BY <2>1, <1>2 DEF FoldStep
  <2> QED BY <2>1, <2>2
<1>4. ASSUME NEW k \in Nat, k \in T PROVE k + 1 \in T
  <2> SUFFICES ASSUME NEW s \in SUBSET S, Cardinality(s) <= k + 1 PROVE Good(s)
    OBVIOUS
  <2>1. \A u \in SUBSET S : Cardinality(u) <= k => Good(u)
    BY <1>4
  <2> DEFINE x == Element(s)
  <2>2. CASE s = {}
    BY <2>2, <1>2 DEF FoldStep
  <2>3. CASE s # {}
    <3>1. x \in s /\ g[s] = f[x] + g[s \ {x}]
      BY <1>1, <1>2, <2>3 DEF FoldStep
    <3> HIDE DEF x, Good
    <3>2. \A y \in s : s \ {y} \in SUBSET S /\ Good(s \ {y})
      <4> SUFFICES ASSUME NEW y \in s PROVE s \ {y} \in SUBSET S /\ Good(s \ {y})
        OBVIOUS
      <4>1. Cardinality(s \ {y}) = Cardinality(s) - 1 /\ Cardinality(s) \in Nat
        BY SizeLess
      <4> QED BY <4>1, <2>1
    <3>3. ASSUME NEW y \in s PROVE g[s] = f[y] + g[s \ {y}]
      <4>1. CASE y = x
        BY <4>1, <3>1
      <4>2. CASE y # x
        <5>1. g[s \ {x}] = f[y] + g[(s \ {x}) \ {y}]
          BY <4>2, <3>1, <3>2 DEF Good
        <5>2. g[s \ {y}] = f[x] + g[(s \ {y}) \ {x}]
          BY <4>2, <3>1, <3>2 DEF Good
        <5>3. (s \ {x}) \ {y} = (s \ {y}) \ {x}
          OBVIOUS
        <5>4. g[(s \ {y}) \ {x}] \in Nat
          <6>1. Cardinality((s \ {y}) \ {x}) <= k /\ (s \ {y}) \ {x} \in SUBSET S
            <7>1. s \ {y} \in SUBSET S /\ x \in s \ {y}
              BY <3>1, <4>2
            <7>2. /\ Cardinality(s \ {y}) = Cardinality(s) - 1 /\ Cardinality(s) \in Nat
                  /\ Cardinality((s \ {y}) \ {x}) = Cardinality(s \ {y}) - 1
              BY <7>1, SizeLess
            <7> QED BY <7>2
          <6> QED BY <6>1, <2>1 DEF Good
        <5>5. f[x] \in Nat /\ f[y] \in Nat
          BY <3>1
        <5> DEFINE rest == g[(s \ {y}) \ {x}]
        <5>6. g[s] = f[x] + (f[y] + rest) /\ g[s \ {y}] = f[x] + rest /\ rest \in Nat
          BY <3>1, <5>1, <5>2, <5>3, <5>4
        <5> HIDE DEF rest
        <5> QED BY <5>5, <5>6
      <4> QED BY <4>1, <4>2
    <3>4. g[s] \in Nat
      <4>1. f[x] \in Nat /\ g[s \ {x}] \in Nat
        BY <3>1, <3>2 DEF Good
      <4> QED BY <3>1, <4>1
    <3> QED BY <3>3, <3>4 DEF Good
  <2> QED BY <2>2, <2>3
<1> HIDE DEF T
<1>5. \A s \in SUBSET S : Good(s)
  <2> SUFFICES ASSUME NEW s \in SUBSET S PROVE Good(s)
    OBVIOUS
  <2>1. Cardinality(s) \in T
    BY <1>3, <1>4, SizeLess, NatInductive
  <2>2. Cardinality(s) <= Cardinality(s)
    BY SizeLess
  <2> QED BY <2>1, <2>2 DEF T
<1>6. g \in [SUBSET S -> Nat]
  <2>1. g = [s \in SUBSET S |-> g[s]]
    BY DEF IsFold
  <2> QED BY <1>5, <2>1
<1>7. g[{}] = 0
  BY <1>2 DEF FoldStep
<1> QED BY <1>5, <1>6, <1>7 DEF SumsOf

(* SumFunction() is what its name says, for a finite domain. *)
LEMMA SumFunctionSums ==
    ASSUME NEW S, IsFiniteSet(S), NEW f \in [S -> Nat]
    PROVE  \E g : SumsOf(f, g, S) /\ SumFunction(f) = g[S]
<1> DEFINE g == CHOOSE x : IsFold(f, x, S)
<1>1. IsFold(f, g, S)
  BY FoldExists
<1>2. SumFunction(f) = g[S]
  BY SumIsFold
<1> HIDE DEF g
<1>3. SumsOf(f, g, S)
  BY <1>1, FoldIsSums
<1> QED BY <1>2, <1>3

(* Sums of two functions over a set where they agree are the same. *)
LEMMA SumsAgree ==
    ASSUME NEW S, IsFiniteSet(S), NEW f, NEW g, SumsOf(f, g, S),
           NEW R, NEW e, NEW h, SumsOf(e, h, R),
           NEW A, A \subseteq S, A \subseteq R, \A x \in A : f[x] = e[x]
    PROVE  g[A] = h[A] /\ g[A] \in Nat
<1> DEFINE T == {k \in Nat : \A s \in SUBSET A : Cardinality(s) <= k => g[s] = h[s]}
<1>1. IsFiniteSet(A)
  BY FS_Subset
<1>2. 0 \in T
  <2> SUFFICES ASSUME NEW s \in SUBSET A, Cardinality(s) <= 0 PROVE g[s] = h[s]
    OBVIOUS
  <2>1. s = {}
    BY <1>1, SizeLess
  <2> QED BY <2>1 DEF SumsOf
<1>3. ASSUME NEW k \in Nat, k \in T PROVE k + 1 \in T
  <2> SUFFICES ASSUME NEW s \in SUBSET A, Cardinality(s) <= k + 1 PROVE g[s] = h[s]
    OBVIOUS
  <2>1. CASE s = {}
    BY <2>1 DEF SumsOf
  <2>2. CASE s # {}
    <3>1. PICK x \in s : TRUE
      BY <2>2
    <3>2. Cardinality(s \ {x}) = Cardinality(s) - 1 /\ Cardinality(s) \in Nat
      BY <1>1, SizeLess
    <3>3. g[s \ {x}] = h[s \ {x}]
      BY <1>3, <3>2
    <3>4. g[s] = f[x] + g[s \ {x}] /\ h[s] = e[x] + h[s \ {x}]
      BY DEF SumsOf
    <3> QED BY <3>3, <3>4
  <2> QED BY <2>1, <2>2
<1> HIDE DEF T
<1>4. Cardinality(A) \in T
  BY <1>1, <1>2, <1>3, SizeLess, NatInductive
<1>5. Cardinality(A) <= Cardinality(A)
  BY <1>1, SizeLess
<1> QED BY <1>4, <1>5 DEF T, SumsOf

(* The sum over a set is the sum over a part and over the others. *)
LEMMA SumsSplit ==
    ASSUME NEW S, IsFiniteSet(S), NEW f \in [S -> Nat], NEW g, SumsOf(f, g, S),
           NEW A \in SUBSET S
    PROVE  g[S] = g[A] + g[S \ A]
<1> DEFINE T == {k \in Nat : \A s \in SUBSET S : Cardinality(s) <= k => g[S] = g[s] + g[S \ s]}
<1>1. \A s \in SUBSET S : g[s] \in Nat
  BY DEF SumsOf
<1>2. 0 \in T
  <2> SUFFICES ASSUME NEW s \in SUBSET S, Cardinality(s) <= 0 PROVE g[S] = g[s] + g[S \ s]
    OBVIOUS
  <2>1. s = {} /\ S \ s = S
    BY SizeLess
  <2> QED BY <2>1, <1>1 DEF SumsOf
<1>3. ASSUME NEW k \in Nat, k \in T PROVE k + 1 \in T
  <2> SUFFICES ASSUME NEW s \in SUBSET S, Cardinality(s) <= k + 1
               PROVE  g[S] = g[s] + g[S \ s]
    OBVIOUS
  <2>1. CASE s = {}
    <3>1. S \ s = S
      BY <2>1
    <3> QED BY <2>1, <3>1, <1>1 DEF SumsOf
  <2>2. CASE s # {}
    <3>1. PICK x \in s : TRUE
      BY <2>2
    <3>2. Cardinality(s \ {x}) = Cardinality(s) - 1 /\ Cardinality(s) \in Nat
      BY SizeLess
    <3> DEFINE u == S \ (s \ {x})
    <3>3. g[S] = g[s \ {x}] + g[u]
      BY <1>3, <3>2
    <3>4. g[s] = f[x] + g[s \ {x}]
      BY DEF SumsOf
    <3>5. u \ {x} = S \ s /\ x \in u /\ u \in SUBSET S
      OBVIOUS
    <3> HIDE DEF u
    <3>6. g[u] = f[x] + g[S \ s]
      BY <3>5 DEF SumsOf
    <3>7. f[x] \in Nat /\ g[s \ {x}] \in Nat /\ g[S \ s] \in Nat
      BY <1>1
    <3> QED BY <3>3, <3>4, <3>6, <3>7
  <2> QED BY <2>1, <2>2
<1> HIDE DEF T
<1>4. Cardinality(A) \in T
  BY <1>2, <1>3, SizeLess, NatInductive
<1>5. Cardinality(A) <= Cardinality(A)
  BY SizeLess
<1> QED BY <1>4, <1>5 DEF T

(* What the modules use: the parts of a sum, and that of no summands. *)
LEMMA SumParts ==
    ASSUME NEW S, IsFiniteSet(S), NEW f \in [S -> Nat], NEW A \in SUBSET S
    PROVE  /\ SumFunction(f) = SumFunction([x \in A |-> f[x]])
                                 + SumFunction([x \in S \ A |-> f[x]])
           /\ SumFunction(f) \in Nat
           /\ SumFunction([x \in A |-> f[x]]) \in Nat
<1>1. PICK g : SumsOf(f, g, S) /\ SumFunction(f) = g[S]
  BY SumFunctionSums
<1>2. ASSUME NEW B \in SUBSET S
      PROVE  SumFunction([x \in B |-> f[x]]) = g[B] /\ g[B] \in Nat
  <2> DEFINE e == [x \in B |-> f[x]]
  <2>1. e \in [B -> Nat] /\ IsFiniteSet(B)
    BY FS_Subset
  <2>2. \A x \in B : f[x] = e[x]
    OBVIOUS
  <2> HIDE DEF e
  <2>3. PICK h : SumsOf(e, h, B) /\ SumFunction(e) = h[B]
    BY <2>1, SumFunctionSums
  <2>4. g[B] = h[B] /\ g[B] \in Nat
    BY <1>1, <2>2, <2>3, SumsAgree
  <2> QED BY <2>3, <2>4 DEF e
<1>3. g[S] = g[A] + g[S \ A]
  BY <1>1, SumsSplit
<1> QED BY <1>1, <1>2, <1>3 DEF SumsOf

LEMMA SumOne ==
    ASSUME NEW S, IsFiniteSet(S), NEW f \in [S -> Nat], NEW y \in S
    PROVE  /\ SumFunction(f) = f[y] + SumFunction([x \in S \ {y} |-> f[x]])
           /\ SumFunction([x \in S \ {y} |-> f[x]]) \in Nat
<1>1. PICK g : SumsOf(f, g, S) /\ SumFunction(f) = g[S]
  BY SumFunctionSums
<1> DEFINE e == [x \in S \ {y} |-> f[x]]
<1>2. e \in [S \ {y} -> Nat] /\ IsFiniteSet(S \ {y}) /\ \A x \in S \ {y} : f[x] = e[x]
  BY FS_Subset
<1> HIDE DEF e
<1>3. PICK h : SumsOf(e, h, S \ {y}) /\ SumFunction(e) = h[S \ {y}]
  BY <1>2, SumFunctionSums
<1>4. g[S \ {y}] = h[S \ {y}] /\ g[S \ {y}] \in Nat
  BY <1>1, <1>2, <1>3, SumsAgree
<1>5. g[S] = f[y] + g[S \ {y}]
  BY <1>1 DEF SumsOf
<1> QED BY <1>1, <1>3, <1>4, <1>5 DEF e

LEMMA SumNone ==
    ASSUME NEW f, DOMAIN f = {}
    PROVE  SumFunction(f) = 0
<1>1. IsFold(f, [s \in SUBSET {} |-> 0], {})
  BY DEF IsFold, FoldStep
<1>2. \A g : IsFold(f, g, {}) => g[{}] = 0
  BY DEF IsFold, FoldStep
<1> QED BY <1>1, <1>2, SumIsFold

(* One value changed, and one more at the end of a sequence.                 *)
DifferBy(f, g, y) ==
    /\ SumFunction(g) + f[y] = SumFunction(f) + g[y]
    /\ SumFunction(f) \in Nat /\ SumFunction(g) \in Nat

LEMMA SumChanged ==
    ASSUME NEW S, IsFiniteSet(S), NEW f \in [S -> Nat], NEW g \in [S -> Nat],
           NEW y \in S, \A x \in S \ {y} : g[x] = f[x]
    PROVE  DifferBy(f, g, y)
<1>1. [x \in S \ {y} |-> f[x]] = [x \in S \ {y} |-> g[x]]
  OBVIOUS
<1>2. /\ SumFunction(f) = f[y] + SumFunction([x \in S \ {y} |-> f[x]])
      /\ SumFunction([x \in S \ {y} |-> f[x]]) \in Nat
  BY SumOne
<1>3. SumFunction(g) = g[y] + SumFunction([x \in S \ {y} |-> g[x]])
  BY SumOne
<1>4. f[y] \in Nat /\ g[y] \in Nat
  OBVIOUS
<1> DEFINE rest == SumFunction([x \in S \ {y} |-> f[x]])
<1> HIDE DEF rest
<1>5. /\ SumFunction(f) = f[y] + rest /\ SumFunction(g) = g[y] + rest
      /\ rest \in Nat
  BY <1>1, <1>2, <1>3 DEF rest
<1> QED BY <1>4, <1>5 DEF DifferBy

LEMMA SumLonger ==
    ASSUME NEW n \in Nat, NEW f \in [1..n -> Nat], NEW g \in [1..n + 1 -> Nat],
           \A x \in 1..n : g[x] = f[x]
    PROVE  SumFunction(g) = SumFunction(f) + g[n + 1] /\ SumFunction(f) \in Nat
<1>1. IsFiniteSet(1..n + 1) /\ n + 1 \in 1..n + 1 /\ (1..n + 1) \ {n + 1} = 1..n
  <2>1. 1 \in Int /\ n + 1 \in Int
    OBVIOUS
  <2>2. IsFiniteSet(1..n + 1)
    BY <2>1, FS_Interval
  <2>3. n + 1 \in 1..n + 1 /\ (1..n + 1) \ {n + 1} = 1..n
    OBVIOUS
  <2> QED BY <2>2, <2>3
<1>2. [x \in 1..n |-> g[x]] = f
  OBVIOUS
<1>3. /\ SumFunction(g) = g[n + 1] + SumFunction([x \in (1..n + 1) \ {n + 1} |-> g[x]])
      /\ SumFunction([x \in (1..n + 1) \ {n + 1} |-> g[x]]) \in Nat
  BY <1>1, SumOne
<1>4. SumFunction(g) = g[n + 1] + SumFunction(f) /\ SumFunction(f) \in Nat
  BY <1>1, <1>2, <1>3
<1>5. g[n + 1] \in Nat
  BY <1>1
<1> QED BY <1>4, <1>5

-----------------------------------------------------------------------------
(* A fold from the left takes the elements of a sequence from the last one,  *)
(* as the greatest of their numbers.                                         *)
LEMMA MaxIs ==
    ASSUME NEW n \in Nat, NEW s \in SUBSET (1..n), s # {}
    PROVE  Max(s) \in s /\ \A y \in s : Max(s) >= y
<1> DEFINE T == {x \in 0..n : \A y \in s : x >= y}
<1>1. T \in SUBSET Nat /\ n \in T
  BY Z3
<1>2. PICK x \in T : \A y \in T : x <= y
  BY <1>1, LeastNat
<1>3. x \in s
  <2> SUFFICES ASSUME x \notin s PROVE FALSE
    OBVIOUS
  <2>1. PICK z \in s : TRUE
    OBVIOUS
  <2>2. x >= z /\ z >= 1 /\ x \in 0..n
    BY <1>2
  <2>3. x - 1 \in T
    BY <1>2, <2>2
  <2> QED BY <1>2, <2>2, <2>3
<1> QED BY <1>2, <1>3 DEF Max

LEMMA MaxUpto ==
    ASSUME NEW n \in Nat, NEW i \in 1..n
    PROVE  Max(1..i) = i /\ 1..i # {} /\ (1..i) \ {i} = 1..(i - 1)
<1>1. 1..i \in SUBSET (1..n) /\ i \in 1..i
  OBVIOUS
<1>2. Max(1..i) \in 1..i /\ Max(1..i) >= i
  BY <1>1, MaxIs
<1>3. Max(1..i) = i
  BY <1>2
<1>4. (1..i) \ {i} = 1..(i - 1)
  OBVIOUS
<1> QED BY <1>1, <1>3, <1>4

Upwards(g, n, a, st) ==
    \A s \in SUBSET (1..n) :
        g[s] = IF s = {} THEN a ELSE st[<<g[s \ {Max(s)}], Max(s)>>]

LEMMA UpwardsExists ==
    ASSUME NEW n \in Nat, NEW X, NEW a \in X, NEW st \in [X \X (1..n) -> X]
    PROVE  \E g \in [SUBSET (1..n) -> X] : Upwards(g, n, a, st)
<1> DEFINE pick == [s \in SUBSET (1..n) |-> Max(s)]
<1>1. \A s \in SUBSET (1..n) : pick[s] = Max(s) /\ (s # {} => pick[s] \in s)
  BY MaxIs
<1> HIDE DEF pick
<1>2. IsFiniteSet(1..n)
  BY FS_Interval
<1>3. PICK g \in [SUBSET (1..n) -> X] : TakenApart(g, 1..n, a, pick, st)
  BY <1>1, <1>2, ApartExists
<1>4. ASSUME NEW s \in SUBSET (1..n)
      PROVE  g[s] = IF s = {} THEN a ELSE st[<<g[s \ {Max(s)}], Max(s)>>]
  <2>1. pick[s] = Max(s)
    BY <1>1
  <2>2. g[s] = IF s = {} THEN a ELSE st[<<g[s \ {pick[s]}], pick[s]>>]
    BY <1>3 DEF TakenApart
  <2> QED BY <2>1, <2>2
<1> QED BY <1>4 DEF Upwards
-----------------------------------------------------------------------------
(* A finite set has an order for every way to compare its elements that is   *)
(* transitive and tells any two apart.                                       *)
Compares(R, S) ==
    /\ \A x, y \in S : x # y => <<x, y>> \in R \/ <<y, x>> \in R
    /\ \A x, y, z \in S : <<x, y>> \in R /\ <<y, z>> \in R => <<x, z>> \in R

Highest(U, R, m) == m \in U /\ \A y \in U \ {m} : <<y, m>> \in R

LEMMA HighestExists ==
    ASSUME NEW S, IsFiniteSet(S), NEW R, Compares(R, S), NEW U \in SUBSET S, U # {}
    PROVE  \E m : Highest(U, R, m)
<1> DEFINE T == {n \in Nat : \A V \in SUBSET S :
                    V # {} /\ Cardinality(V) <= n => \E m : Highest(V, R, m)}
<1>1. \A V \in SUBSET S :
          /\ IsFiniteSet(V) /\ Cardinality(V) \in Nat
          /\ Cardinality(V) = 0 <=> V = {}
          /\ \A y \in V : Cardinality(V \ {y}) = Cardinality(V) - 1
  BY SizeLess
<1>2. 0 \in T
  BY <1>1
<1>3. ASSUME NEW n \in Nat, n \in T PROVE n + 1 \in T
  <2> SUFFICES ASSUME NEW V \in SUBSET S, V # {}, Cardinality(V) <= n + 1
               PROVE  \E m : Highest(V, R, m)
    OBVIOUS
  <2>1. PICK x \in V : TRUE
    OBVIOUS
  <2> DEFINE rest == V \ {x}
  <2>2. rest \in SUBSET S /\ Cardinality(rest) <= n /\ x \in S
    BY <1>1, <2>1
  <2>3. CASE rest = {}
    <3>1. Highest(V, R, x)
      BY <2>1, <2>3 DEF Highest
    <3> QED BY <3>1
  <2>4. CASE rest # {}
    <3>1. PICK m : Highest(rest, R, m)
      BY <1>3, <2>2, <2>4
    <3>2. m \in rest /\ m \in S /\ m # x /\ \A y \in rest \ {m} : <<y, m>> \in R
      BY <3>1, <2>2 DEF Highest
    <3>3. CASE <<x, m>> \in R
      <4>1. Highest(V, R, m)
        BY <3>2, <3>3 DEF Highest
      <4> QED BY <4>1
    <3>4. CASE <<m, x>> \in R
      <4>1. \A y \in rest \ {m} : <<y, x>> \in R
        BY <2>2, <3>2, <3>4 DEF Compares
      <4>2. Highest(V, R, x)
        BY <2>1, <3>2, <3>4, <4>1 DEF Highest
      <4> QED BY <4>2
    <3> QED BY <2>2, <3>2, <3>3, <3>4 DEF Compares
  <2> QED BY <2>3, <2>4
<1> HIDE DEF T
<1>4. \A n \in Nat : n \in T
  BY <1>2, <1>3, NatInductive
<1>5. Cardinality(U) \in T
  BY <1>1, <1>4
<1> QED BY <1>1, <1>5 DEF T

InOrderOf(f, R, n) == \A i, j \in 1..n : i < j => f[i] # f[j] /\ <<f[i], f[j]>> \in R

LEMMA OrderExists ==
    ASSUME NEW S, IsFiniteSet(S), NEW R, Compares(R, S)
    PROVE  \E f \in [1..Cardinality(S) -> S] : InOrderOf(f, R, Cardinality(S))
<1> DEFINE T == {n \in Nat : \A V \in SUBSET S : Cardinality(V) = n =>
                    \E f \in [1..n -> V] : InOrderOf(f, R, n)}
<1>1. \A V \in SUBSET S :
          /\ IsFiniteSet(V) /\ Cardinality(V) \in Nat
          /\ Cardinality(V) = 0 <=> V = {}
          /\ \A y \in V : Cardinality(V \ {y}) = Cardinality(V) - 1
  BY SizeLess
<1>2. 0 \in T
  <2> SUFFICES ASSUME NEW V \in SUBSET S
               PROVE  \E f \in [1..0 -> V] : InOrderOf(f, R, 0)
    OBVIOUS
  <2>1. 1..0 = {}
    OBVIOUS
  <2>2. [x \in {} |-> x] \in [1..0 -> V]
    BY <2>1
  <2>3. InOrderOf([x \in {} |-> x], R, 0)
    BY <2>1 DEF InOrderOf
  <2> QED BY <2>2, <2>3
<1>3. ASSUME NEW n \in Nat, n \in T PROVE n + 1 \in T
  <2> SUFFICES ASSUME NEW V \in SUBSET S, Cardinality(V) = n + 1
               PROVE  \E f \in [1..n + 1 -> V] : InOrderOf(f, R, n + 1)
    OBVIOUS
  <2>1. V # {}
    BY <1>1
  <2>2. PICK m : Highest(V, R, m)
    BY <2>1, HighestExists
  <2>3. m \in V /\ \A y \in V \ {m} : <<y, m>> \in R
    BY <2>2 DEF Highest
  <2>4. V \ {m} \in SUBSET S /\ Cardinality(V \ {m}) = n
    BY <1>1, <2>3
  <2>5. PICK f \in [1..n -> V \ {m}] : InOrderOf(f, R, n)
    BY <1>3, <2>4
  <2> DEFINE g == [i \in 1..n + 1 |-> IF i <= n THEN f[i] ELSE m]
  <2>6. /\ \A i \in 1..n : g[i] = f[i] /\ f[i] \in V \ {m}
        /\ g[n + 1] = m
        /\ \A i \in 1..n + 1 : i \in 1..n \/ i = n + 1
    OBVIOUS
  <2>7. g \in [1..n + 1 -> V]
    BY <2>3
  <2> HIDE DEF g
  <2>8. ASSUME NEW i \in 1..n + 1, NEW j \in 1..n + 1, i < j
        PROVE  g[i] # g[j] /\ <<g[i], g[j]>> \in R
    <3>1. i \in 1..n
      BY <2>8
    <3>2. CASE j \in 1..n
      BY <2>5, <2>6, <2>8, <3>1, <3>2 DEF InOrderOf
    <3>3. CASE j = n + 1
      BY <2>3, <2>6, <3>1, <3>3
    <3> QED BY <2>6, <3>2, <3>3
  <2>9. InOrderOf(g, R, n + 1)
    BY <2>8 DEF InOrderOf
  <2> QED BY <2>7, <2>9
<1> HIDE DEF T
<1>4. \A n \in Nat : n \in T
  BY <1>2, <1>3, NatInductive
<1>5. Cardinality(S) \in T
  BY <1>1, <1>4
<1> QED BY <1>5 DEF T
=============================================================================
