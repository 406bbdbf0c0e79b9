----------------------------- MODULE Induction -----------------------------
(***************************************************************************)
(* Induction as first-order facts: that a set of naturals has a least      *)
(* element, and what follows for things that are defined one after the     *)
(* other. The library's induction theorems say the same of an operator,    *)
(* and cannot be used by the installed provers.                            *)
(***************************************************************************)
EXTENDS Naturals, WellFoundedInduction, TLAPS

\* Every set of naturals that is not empty has a least element.
LEMMA LeastNat == ASSUME NEW S, S \subseteq Nat, S # {} PROVE \E x \in S : \A y \in S : x <= y
<1>1. IsWellFoundedOn(OpToRel(<, Nat), Nat)
  BY NatLessThanWellFounded
<1>2. PICK x \in S : \A y \in S : <<y, x>> \notin OpToRel(<, Nat)
  BY <1>1, WFMin
<1>3. \A y \in S : ~ (y < x)
  BY <1>2 DEF OpToRel
<1> QED BY <1>3

\* The elements of S stand in an order: before[i] rank lower than i, and ranks are bounded.
Ranked(S, before) ==
    /\ before \in [S -> SUBSET S]
    /\ \E rank \in [S -> Nat], n \in Nat :
          \A i \in S : rank[i] < n /\ \A j \in before[i] : rank[j] < rank[i]

\* g gives an element a value by those of a function at the elements before it.
LooksBack(S, V, before, g) ==
    /\ g \in [S -> [[S -> V] -> V]]
    /\ \A i \in S : \A f1, f2 \in [S -> V] :
          (\A j \in before[i] : f1[j] = f2[j]) => g[i][f1] = g[i][f2]

\* What holds of an element as soon as it holds of those before it holds of all of them.
LEMMA OrderedInduction ==
    ASSUME NEW S, NEW before, Ranked(S, before), NEW T \in SUBSET S,
           \A i \in S : before[i] \subseteq T => i \in T
    PROVE  T = S
<1> SUFFICES ASSUME T # S PROVE FALSE
  OBVIOUS
<1>0. /\ before \in [S -> SUBSET S]
      /\ \E r \in [S -> Nat] : \A i \in S : \A j \in before[i] : r[j] < r[i]
  BY DEF Ranked
<1>r. PICK rank \in [S -> Nat] : \A i \in S : \A j \in before[i] : rank[j] < rank[i]
  BY <1>0
<1> DEFINE R == {rank[i] : i \in S \ T}
<1>1. R \subseteq Nat /\ R # {}
  BY <1>r
<1>2. PICK n \in R : \A m \in R : n <= m
  BY <1>1, LeastNat
<1>3. PICK i \in S \ T : n = rank[i]
  BY <1>2
<1>4. \A j \in before[i] : j \in S /\ rank[j] \in Nat /\ rank[j] < n
  BY <1>0, <1>3, <1>r
<1>5. before[i] \subseteq T
  <2> SUFFICES ASSUME NEW j \in before[i], j \notin T PROVE FALSE
    OBVIOUS
  <2>1. rank[j] \in R /\ n \in Nat
    BY <1>1, <1>2, <1>4
  <2>2. n <= rank[j]
    BY <1>2, <2>1
  <2> HIDE DEF R
  <2> QED BY <1>4, <2>1, <2>2
<1> QED BY <1>3, <1>5

\* A function that is defined by what it is before each element exists.
LEMMA OrderedRecursion ==
    ASSUME NEW S, NEW V, NEW v \in V, NEW before, NEW g,
           Ranked(S, before), LooksBack(S, V, before, g)
    PROVE  \E f \in [S -> V] : \A i \in S : f[i] = g[i][f]
<1>a. before \in [S -> SUBSET S] /\ g \in [S -> [[S -> V] -> V]]
  BY DEF Ranked, LooksBack
<1>b. PICK rank \in [S -> Nat], n \in Nat :
         \A i \in S : rank[i] < n /\ \A j \in before[i] : rank[j] < rank[i]
  BY DEF Ranked
<1> DEFINE Good(m) == \E f \in [S -> V] : \A i \in S : rank[i] < m => f[i] = g[i][f]
           Bad == {m \in Nat : ~Good(m)}
<1>1. SUFFICES ASSUME Bad # {} PROVE FALSE
  <2>1. Good(n)
    BY <1>1, <1>b
  <2>2. PICK f \in [S -> V] : \A i \in S : rank[i] < n => f[i] = g[i][f]
    BY <2>1
  <2> HIDE DEF Good
  <2> QED BY <1>b, <2>2
<1>2. PICK m \in Bad : \A k \in Bad : m <= k
  BY <1>1, LeastNat
<1>3. Good(0)
  <2>1. [i \in S |-> v] \in [S -> V] /\ \A i \in S : ~(rank[i] < 0)
    BY <1>b
  <2> QED BY <2>1
<1>4. m - 1 \in Nat /\ Good(m - 1)
  <2>1. m # 0 /\ m \in Nat
    BY <1>2, <1>3
  <2>2. m - 1 \in Nat /\ ~(m <= m - 1)
    BY <2>1
  <2> QED BY <1>2, <2>2
<1>5. PICK f \in [S -> V] : \A i \in S : rank[i] < m - 1 => f[i] = g[i][f]
  BY <1>4
<1> DEFINE h == [i \in S |-> IF rank[i] < m - 1 THEN f[i] ELSE g[i][f]]
<1>6. h \in [S -> V]
  BY <1>a, <1>5
<1>7. ASSUME NEW i \in S, rank[i] < m PROVE h[i] = g[i][h]
  <2>1. \A j \in before[i] : j \in S /\ rank[j] < m - 1
    <3> SUFFICES ASSUME NEW j \in before[i] PROVE j \in S /\ rank[j] < m - 1
      OBVIOUS
    <3>1. j \in S /\ rank[j] \in Nat /\ rank[i] \in Nat /\ rank[j] < rank[i]
      BY <1>a, <1>b
    <3>2. m \in Nat /\ rank[i] < m
      BY <1>2, <1>7
    <3> HIDE DEF Bad
    <3> QED BY <3>1, <3>2
  <2>2. \A j \in before[i] : h[j] = f[j]
    BY <1>a, <2>1
  <2>3. g[i][h] = g[i][f]
    <3> HIDE DEF h
    <3> QED BY <1>6, <2>2 DEF LooksBack
  <2>4. h[i] = g[i][f]
    BY <1>5
  <2> QED BY <2>3, <2>4
<1>8. Good(m)
  <2> HIDE DEF h
  <2> QED BY <1>6, <1>7
<1> QED BY <1>2, <1>8

============================================================================
