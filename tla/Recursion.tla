------------------------------- MODULE Recursion -------------------------------
(***************************************************************************)
(* Induction over the naturals and recursive functions, on naturals or on  *)
(* finite sets, stated over sets and functions rather than over operators, *)
(* so that first-order provers can use them: the library's theorems take   *)
(* the predicate, or the body of the recursion, as an operator.            *)
(***************************************************************************)
EXTENDS Naturals, WellFoundedInduction, FiniteSetTheorems, TLAPS

(* A set of naturals that is not empty has a least element.                *)
LEMMA LeastNatural ==
    ASSUME NEW T, T \subseteq Nat, T # {}
    PROVE  \E n \in T : \A m \in T : n <= m
<1>1. \E x \in T : \A y \in T : ~ (<<y, x>> \in OpToRel(<, Nat))
  BY NatLessThanWellFounded, WFMin, Zenon
<1>2. \A x, y \in T : ~ (<<y, x>> \in OpToRel(<, Nat)) => x <= y
  BY DEF OpToRel
<1>3. QED
  BY <1>1, <1>2

(* Induction: a set with 0 that is closed under successor has every        *)
(* natural.                                                                *)
LEMMA InductiveSet ==
    ASSUME NEW T, 0 \in T, \A n \in Nat : n \in T => n + 1 \in T
    PROVE  \A n \in Nat : n \in T
<1> DEFINE Out == {n \in Nat : n \notin T}
<1>1. SUFFICES ASSUME Out # {} PROVE FALSE
  OBVIOUS
<1>2. PICK n \in Out : \A m \in Out : n <= m
  BY <1>1, LeastNatural
<1>3. n # 0
  OBVIOUS
<1>4. n - 1 \in Nat /\ n - 1 \notin Out
  BY <1>2, <1>3
<1>5. QED
  BY <1>4

(* Course-of-values induction.                                             *)
LEMMA ProgressiveSet ==
    ASSUME NEW T, \A n \in Nat : (\A m \in Nat : m < n => m \in T) => n \in T
    PROVE  \A n \in Nat : n \in T
<1> DEFINE Out == {n \in Nat : n \notin T}
<1>1. SUFFICES ASSUME Out # {} PROVE FALSE
  OBVIOUS
<1>2. PICK n \in Out : \A m \in Out : n <= m
  BY <1>1, LeastNatural
<1>3. \A m \in Nat : m < n => m \in T
  BY <1>2
<1>4. QED
  BY <1>3

(* f is the iteration, from base and up to n, of the functions of step.     *)
Iterates(f, S, base, n, step) ==
    /\ f \in [0..n -> S]
    /\ \A i \in 0..n : f[i] = IF i = 0 THEN base ELSE step[i][f[i - 1]]

(* The function that takes a step from its value at i - 1 to get that at i *)
(* exists.                                                                 *)
LEMMA IterationExists ==
    ASSUME NEW S, NEW base \in S, NEW n \in Nat, NEW step \in [1..n -> [S -> S]]
    PROVE  \E f : Iterates(f, S, base, n, step)
<1> DEFINE Upto(m, f) ==
        \A i \in 0..m : f[i] = IF i = 0 THEN base ELSE step[i][f[i - 1]]
           T == {m \in Nat : m <= n => \E f \in [0..m -> S] : Upto(m, f)}
<1>1. 0 \in T
  <2>1. [i \in 0..0 |-> base] \in [0..0 -> S] /\ Upto(0, [i \in 0..0 |-> base])
    OBVIOUS
  <2>2. QED
    BY <2>1
<1>2. ASSUME NEW m \in Nat, m \in T PROVE m + 1 \in T
  <2>1. SUFFICES ASSUME m + 1 <= n PROVE \E f \in [0..m + 1 -> S] : Upto(m + 1, f)
    OBVIOUS
  <2>2. PICK f \in [0..m -> S] : Upto(m, f)
    BY <1>2, <2>1
  <2> DEFINE g == [i \in 0..m + 1 |-> IF i = m + 1 THEN step[m + 1][f[m]] ELSE f[i]]
  <2>3. step[m + 1][f[m]] \in S
    BY <2>1
  <2>4. g \in [0..m + 1 -> S]
    BY <2>3
  <2>5. ASSUME NEW i \in 0..m + 1
        PROVE  g[i] = IF i = 0 THEN base ELSE step[i][g[i - 1]]
    <3>1. CASE i = m + 1
      <4>1. g[i - 1] = f[m]
        BY <3>1
      <4>2. QED
        BY <3>1, <4>1
    <3>2. CASE i # m + 1
      <4>1. i \in 0..m
        BY <3>2
      <4>2. i # 0 => i - 1 \in 0..m /\ g[i - 1] = f[i - 1]
        BY <4>1
      <4>3. g[i] = f[i]
        BY <4>1
      <4>4. QED
        BY <2>2, <4>1, <4>2, <4>3
    <3>3. QED
      BY <3>1, <3>2
  <2>6. QED
    BY <2>4, <2>5
<1>3. n \in T
  BY <1>1, <1>2, InductiveSet
<1>4. QED
  BY <1>3 DEF Iterates

(* f is the iteration that goes on for ever.                               *)
IteratesOn(f, S, base, step) ==
    /\ f \in [Nat -> S]
    /\ \A i \in Nat : f[i] = IF i = 0 THEN base ELSE step[i][f[i - 1]]

(* It exists, too.                                                         *)
LEMMA EndlessIterationExists ==
    ASSUME NEW S, NEW base \in S, NEW step \in [Nat \ {0} -> [S -> S]]
    PROVE  \E f : IteratesOn(f, S, base, step)
<1> DEFINE Upto(n, f) == Iterates(f, S, base, n, step)
           upto == [n \in Nat |-> CHOOSE f : Upto(n, f)]
           h == [n \in Nat |-> upto[n][n]]
<1>1. \A n \in Nat : Upto(n, upto[n])
  <2>1. SUFFICES ASSUME NEW n \in Nat PROVE \E f : Upto(n, f)
    OBVIOUS
  <2> DEFINE some == [i \in 1..n |-> step[i]]
  <2>2. some \in [1..n -> [S -> S]] /\ \A i \in 1..n : some[i] = step[i]
    OBVIOUS
  <2> HIDE DEF some
  <2>3. PICK f : Iterates(f, S, base, n, some)
    BY <2>2, IterationExists, Zenon
  <2>4. Upto(n, f)
    BY <2>2, <2>3 DEF Iterates
  <2>5. QED
    BY <2>4
<1> HIDE DEF upto
<1>2. ASSUME NEW n \in Nat, NEW m \in Nat, n <= m
      PROVE  upto[n][n] = upto[m][n]
  <2> DEFINE T == {i \in Nat : i <= n => upto[n][i] = upto[m][i]}
  <2>1. /\ \A i \in 0..n : upto[n][i] = IF i = 0 THEN base ELSE step[i][upto[n][i - 1]]
        /\ \A i \in 0..m : upto[m][i] = IF i = 0 THEN base ELSE step[i][upto[m][i - 1]]
    BY <1>1 DEF Iterates
  <2>2. 0 \in T
    BY <2>1
  <2>3. ASSUME NEW i \in Nat, i \in T PROVE i + 1 \in T
    <3>1. SUFFICES ASSUME i + 1 <= n PROVE upto[n][i + 1] = upto[m][i + 1]
      OBVIOUS
    <3>2. i + 1 \in 0..n /\ i + 1 \in 0..m /\ i + 1 # 0 /\ (i + 1) - 1 = i
      BY <1>2, <3>1
    <3>3. upto[n][i] = upto[m][i]
      BY <2>3, <3>1
    <3>4. QED
      BY <2>1, <3>2, <3>3
  <2> HIDE DEF T
  <2>4. \A i \in Nat : i \in T
    BY <2>2, <2>3, InductiveSet
  <2> USE DEF T
  <2>5. QED
    BY <2>4
<1>3. ASSUME NEW i \in Nat
      PROVE  h[i] \in S /\ h[i] = IF i = 0 THEN base ELSE step[i][h[i - 1]]
  <2>1. /\ upto[i] \in [0..i -> S]
        /\ upto[i][i] = IF i = 0 THEN base ELSE step[i][upto[i][i - 1]]
    <3>1. Iterates(upto[i], S, base, i, step)
      BY <1>1
    <3>2. i \in 0..i
      OBVIOUS
    <3>3. QED
      BY <3>1, <3>2, Zenon DEF Iterates
  <2>2. i # 0 => i - 1 \in Nat /\ i - 1 <= i
    OBVIOUS
  <2>3. i # 0 => upto[i][i - 1] = upto[i - 1][i - 1]
    BY <1>2, <2>2
  <2>4. QED
    BY <2>1, <2>2, <2>3
<1> HIDE DEF h
<1>4. h \in [Nat -> S]
  <2>1. h = [n \in Nat |-> h[n]]
    BY DEF h
  <2>2. QED
    BY <1>3, <2>1
<1>5. QED
  BY <1>3, <1>4 DEF IteratesOn

--------------------------------------------------------------------------------
(* What is left of a finite set without one of its elements.               *)
LEMMA OneLess ==
    ASSUME NEW S, IsFiniteSet(S), NEW x \in S
    PROVE  /\ IsFiniteSet(S \ {x}) /\ Cardinality(S) \in Nat \ {0}
           /\ Cardinality(S \ {x}) \in Nat /\ Cardinality(S) = Cardinality(S \ {x}) + 1
<1>1. IsFiniteSet(S \ {x}) /\ Cardinality(S \ {x}) = Cardinality(S) - 1
  BY FS_RemoveElement
<1>2. Cardinality(S) \in Nat /\ Cardinality(S \ {x}) \in Nat
  BY <1>1, FS_CardinalityType
<1>3. QED
  BY <1>1, <1>2

(* A function from a finite set to the naturals has a greatest value.      *)
LEMMA GreatestValue ==
    ASSUME NEW S, IsFiniteSet(S), S # {}, NEW f, \A x \in S : f[x] \in Nat
    PROVE  \E x \in S : \A y \in S : f[y] <= f[x]
<1> DEFINE T == {m \in Nat : \A R \in SUBSET S : R # {} /\ IsFiniteSet(R) /\ Cardinality(R) = m =>
                                \E x \in R : \A y \in R : f[y] <= f[x]}
<1>1. 0 \in T
  BY FS_EmptySet
<1>2. ASSUME NEW m \in Nat, m \in T PROVE m + 1 \in T
  <2>1. SUFFICES ASSUME NEW R \in SUBSET S, R # {}, IsFiniteSet(R), Cardinality(R) = m + 1
                 PROVE  \E x \in R : \A y \in R : f[y] <= f[x]
    OBVIOUS
  <2>2. PICK z \in R : TRUE
    BY <2>1
  <2>3. R \ {z} \in SUBSET S /\ IsFiniteSet(R \ {z}) /\ Cardinality(R \ {z}) = m
    <3>1. /\ IsFiniteSet(R \ {z}) /\ Cardinality(R \ {z}) \in Nat
          /\ Cardinality(R) = Cardinality(R \ {z}) + 1
      BY <2>1, OneLess
    <3>2. QED
      BY <2>1, <3>1
  <2>4. \A y \in R : f[y] \in Nat
    OBVIOUS
  <2>5. CASE R \ {z} = {}
    BY <2>4, <2>5
  <2>6. CASE R \ {z} # {}
    <3>1. PICK x \in R \ {z} : \A y \in R \ {z} : f[y] <= f[x]
      BY <1>2, <2>3, <2>6
    <3>2. CASE f[x] <= f[z]
      BY <2>4, <3>1, <3>2
    <3>3. CASE f[z] <= f[x]
      BY <3>1, <3>3
    <3>4. QED
      BY <2>4, <3>2, <3>3
  <2>7. QED
    BY <2>5, <2>6
<1> HIDE DEF T
<1>3. \A m \in Nat : m \in T
  BY <1>1, <1>2, InductiveSet
<1>4. Cardinality(S) \in Nat
  BY FS_CardinalityType
<1>5. QED
  BY <1>3, <1>4 DEF T

(* f folds the subsets of S: the elements are taken off one by one, as     *)
(* choice says, and their steps made in the opposite order.                *)
FoldsBy(f, S, V, base, choice, step) ==
    /\ f \in [SUBSET S -> V]
    /\ \A s \in SUBSET S :
          f[s] = IF s = {} THEN base ELSE step[choice[s]][f[s \ {choice[s]}]]

(* Such a function exists for a finite set.                                *)
LEMMA FoldExists ==
    ASSUME NEW S, IsFiniteSet(S), NEW choice, \A s \in SUBSET S : s # {} => choice[s] \in s,
           NEW V, NEW base \in V, NEW step \in [S -> [V -> V]]
    PROVE  \E f : FoldsBy(f, S, V, base, choice, step)
<1> DEFINE Eq(f, s) == f[s] = IF s = {} THEN base ELSE step[choice[s]][f[s \ {choice[s]}]]
           T == {m \in Nat : \E f \in [SUBSET S -> V] :
                                \A s \in SUBSET S : Cardinality(s) <= m => Eq(f, s)}
<1>1. \A s \in SUBSET S : IsFiniteSet(s) /\ Cardinality(s) \in Nat
                          /\ (Cardinality(s) = 0 <=> s = {})
  <2>1. SUFFICES ASSUME NEW s \in SUBSET S
                 PROVE  IsFiniteSet(s) /\ Cardinality(s) \in Nat /\ (Cardinality(s) = 0 <=> s = {})
    OBVIOUS
  <2>2. IsFiniteSet(s)
    BY FS_Subset
  <2>3. QED
    BY <2>2, FS_CardinalityType, FS_EmptySet
<1>2. \A s \in SUBSET S : s # {} =>
         /\ choice[s] \in S /\ s \ {choice[s]} \in SUBSET S
         /\ Cardinality(s) = Cardinality(s \ {choice[s]}) + 1
  BY <1>1, OneLess
<1>3. 0 \in T
  <2> DEFINE f == [s \in SUBSET S |-> base]
  <2>1. f \in [SUBSET S -> V]
    OBVIOUS
  <2>2. \A s \in SUBSET S : Cardinality(s) <= 0 => Eq(f, s)
    BY <1>1
  <2> HIDE DEF f
  <2>3. QED
    BY <2>1, <2>2
<1>4. ASSUME NEW m \in Nat, m \in T PROVE m + 1 \in T
  <2>1. PICK f \in [SUBSET S -> V] : \A s \in SUBSET S : Cardinality(s) <= m => Eq(f, s)
    BY <1>4
  <2> DEFINE g == [s \in SUBSET S |-> IF Cardinality(s) = m + 1
                                      THEN step[choice[s]][f[s \ {choice[s]}]] ELSE f[s]]
  <2>2. \A s \in SUBSET S : s # {} => step[choice[s]][f[s \ {choice[s]}]] \in V
    BY <1>2
  <2>3. \A s \in SUBSET S : Cardinality(s) = m + 1 => s # {}
    BY <1>1
  <2>4. g \in [SUBSET S -> V]
    BY <2>2, <2>3
  <2>5. \A s \in SUBSET S : /\ Cardinality(s) = m + 1 => g[s] = step[choice[s]][f[s \ {choice[s]}]]
                            /\ Cardinality(s) # m + 1 => g[s] = f[s]
    OBVIOUS
  <2> HIDE DEF g
  <2>6. ASSUME NEW s \in SUBSET S, Cardinality(s) <= m + 1 PROVE Eq(g, s)
    <3>1. CASE s = {}
      <4>1. Cardinality(s) = 0 /\ Cardinality(s) # m + 1 /\ Cardinality(s) <= m
        BY <1>1, <3>1
      <4>2. QED
        BY <2>1, <2>5, <3>1, <4>1
    <3>2. CASE s # {}
      <4>1. Cardinality(s \ {choice[s]}) \in Nat /\ Cardinality(s \ {choice[s]}) # m + 1
        BY <1>1, <1>2, <2>6, <3>2
      <4>2. g[s \ {choice[s]}] = f[s \ {choice[s]}]
        BY <1>2, <2>5, <3>2, <4>1
      <4>3. CASE Cardinality(s) = m + 1
        BY <2>5, <3>2, <4>2, <4>3
      <4>4. CASE Cardinality(s) <= m
        BY <1>1, <2>1, <2>5, <3>2, <4>2, <4>4
      <4>5. QED
        BY <1>1, <2>6, <4>3, <4>4
    <3>3. QED
      BY <3>1, <3>2
  <2>7. \A s \in SUBSET S : Cardinality(s) <= m + 1 => Eq(g, s)
    BY <2>6
  <2> HIDE DEF Eq
  <2>8. QED
    BY <2>4, <2>7
<1> HIDE DEF T
<1>5. Cardinality(S) \in T
  BY <1>1, <1>3, <1>4, InductiveSet
<1>6. PICK f \in [SUBSET S -> V] : \A s \in SUBSET S : Cardinality(s) <= Cardinality(S) => Eq(f, s)
  BY <1>5 DEF T
<1>7. \A s \in SUBSET S : Cardinality(s) <= Cardinality(S)
  BY FS_Subset
<1>8. QED
  BY <1>6, <1>7 DEF FoldsBy
================================================================================
