---------------------------- MODULE TotalsProofs ----------------------------
(***************************************************************************)
(* What the total of a function over a finite set is: 0 over the empty     *)
(* set, one term more with one element more, whatever the order in which   *)
(* MapThenSumSet takes the elements.  From that: what happens to a total   *)
(* when a term changes, a set is split, or terms are compared.             *)
(*                                                                         *)
(* The recursion of MapThenFoldSet has to be unfolded at every set, so all *)
(* of it rests on an induction over finite sets.  The library's induction  *)
(* theorems take a predicate as parameter; SetInduction takes the set of   *)
(* the good sets instead, and follows from the well-foundedness of strict  *)
(* inclusion (WFMin).                                                      *)
(***************************************************************************)
EXTENDS Totals, FiniteSetTheorems, TLAPS

(* Every subset of a finite set is good if the empty one is and any other  *)
(* is when it is good without any of its elements.                         *)
LEMMA SetInduction ==
  ASSUME NEW S, IsFiniteSet(S), NEW Good, {} \in Good,
         \A T \in SUBSET S : T # {} /\ (\A x \in T : T \ {x} \in Good)
                              => T \in Good
  PROVE  S \in Good
<1> DEFINE Bad == {T \in SUBSET S : T \notin Good}
<1>1. SUFFICES ASSUME Bad # {} PROVE FALSE
  OBVIOUS
<1>2. IsWellFoundedOn(StrictSubsetOrdering(S), SUBSET S)
  BY FS_FiniteSubsetsOfFinite, FS_StrictSubsetOrderingWellFounded
<1>3. PICK T \in Bad : \A U \in Bad : ~ (<<U, T>> \in StrictSubsetOrdering(S))
  <2> Bad \subseteq SUBSET S
    OBVIOUS
  <2> HIDE DEF Bad
  <2> QED BY <1>1, <1>2, WFMin
<1>4. T # {}
  OBVIOUS
<1>5. ASSUME NEW x \in T
      PROVE  T \ {x} \in Good
  <2> <<T \ {x}, T>> \in StrictSubsetOrdering(S)
    BY DEF StrictSubsetOrdering
  <2> QED BY <1>3
<1> QED BY <1>4, <1>5

-----------------------------------------------------------------------------
(* F gives every subset of S a value that grows by f[x] with x.            *)
Summing(F, f, S) ==
  /\ F \in [SUBSET S -> Int]
  /\ F[{}] = 0
  /\ \A s \in SUBSET S : \A x \in s : F[s] = F[s \ {x}] + f[x]

(* There is such an F: for one element more it is extended by one term.    *)
LEMMA SummingExists ==
  ASSUME NEW S, IsFiniteSet(S), NEW f, \A x \in S : f[x] \in Int
  PROVE  \E F : Summing(F, f, S)
<1> DEFINE Good == {T \in SUBSET S : \E F : Summing(F, f, T)}
<1>1. {} \in Good
  <2> Summing([s \in SUBSET {} |-> 0], f, {})
    BY DEF Summing
  <2> QED OBVIOUS
<1>2. ASSUME NEW U \in SUBSET S, U # {}, \A x \in U : U \ {x} \in Good
      PROVE  U \in Good
    <3> PICK x \in U : TRUE
      BY <1>2
    <3> DEFINE T == U \ {x}
    <3> PICK F : Summing(F, f, T)
      BY <1>2
    <3> DEFINE G == [s \in SUBSET U |-> IF x \in s THEN F[s \ {x}] + f[x] ELSE F[s]]
    <3>1. \A s \in SUBSET U : s \ {x} \in SUBSET T
      OBVIOUS
    <3>2. \A s \in SUBSET U : x \notin s => s \in SUBSET T
      OBVIOUS
    <3>3. \A s \in SUBSET T : F[s] \in Int
      BY DEF Summing
    <3>4. G \in [SUBSET U -> Int]
      BY <3>1, <3>2, <3>3
    <3>5. G[{}] = 0
      BY DEF Summing
    <3>6. ASSUME NEW s \in SUBSET U, NEW y \in s
          PROVE  G[s] = G[s \ {y}] + f[y]
      <4>1. CASE x \notin s
        BY <4>1, <3>2 DEF Summing
      <4>2. CASE x \in s /\ y = x
        BY <4>2, <3>1, <3>3
      <4>3. CASE x \in s /\ y # x
        <5>1. F[s \ {x}] = F[(s \ {x}) \ {y}] + f[y]
          BY <4>3, <3>1 DEF Summing
        <5>2. (s \ {x}) \ {y} = (s \ {y}) \ {x} /\ x \in s \ {y} /\ s \ {y} \in SUBSET U
          BY <4>3
        <5>3. G[s] = F[s \ {x}] + f[x] /\ G[s \ {y}] = F[(s \ {y}) \ {x}] + f[x]
          BY <5>2, <4>3
        <5>4. (s \ {x}) \ {y} \in SUBSET T /\ f[y] \in Int /\ f[x] \in Int
          BY <3>1
        <5>5. F[(s \ {x}) \ {y}] \in Int
          BY <5>4, <3>3
        <5>6. F[(s \ {y}) \ {x}] = F[(s \ {x}) \ {y}]
          BY <5>2
        <5> DEFINE a == F[(s \ {x}) \ {y}]
        <5>7. F[s \ {x}] = a + f[y] /\ G[s \ {y}] = a + f[x] /\ G[s] = F[s \ {x}] + f[x] /\ a \in Int
          BY <5>1, <5>3, <5>5, <5>6
        <5> HIDE DEF G, a
        <5> QED BY <5>4, <5>7
      <4> QED BY <4>1, <4>2, <4>3
    <3>7. Summing(G, f, U)
      BY <3>4, <3>5, <3>6 DEF Summing
    <3> QED BY <3>7
<1> HIDE DEF Good
<1>3. S \in Good
  BY <1>1, <1>2, SetInduction
<1> QED BY <1>3 DEF Good

(* The fold takes one chosen element after the other and so agrees with F. *)
LEMMA TotalIsSumming ==
  ASSUME NEW S, IsFiniteSet(S), NEW f, \A x \in S : f[x] \in Int,
         NEW F, Summing(F, f, S)
  PROVE  Total(f, S) = F[S]
<1> DEFINE iter == CHOOSE g : g = [s \in SUBSET S |->
                      IF s = {} THEN 0
                      ELSE f[CHOOSE x \in s : TRUE] + g[s \ {CHOOSE x \in s : TRUE}]]
<1>1. Total(f, S) = iter[S]
  BY DEF Total, MapThenSumSet, MapThenFoldSet
<1> DEFINE Def(g, s) == IF s = {} THEN 0
                        ELSE f[CHOOSE x \in s : TRUE] + g[s \ {CHOOSE x \in s : TRUE}]
<1>2. \A s \in SUBSET S : F[s] = Def(F, s)
  <2> SUFFICES ASSUME NEW s \in SUBSET S, s # {}
               PROVE  F[s] = f[CHOOSE x \in s : TRUE] + F[s \ {CHOOSE x \in s : TRUE}]
    BY DEF Summing
  <2> DEFINE x == CHOOSE x \in s : TRUE
  <2>1. x \in s
    OBVIOUS
  <2> HIDE DEF x
  <2>2. F[s] = F[s \ {x}] + f[x] /\ F[s \ {x}] \in Int /\ f[x] \in Int
    BY <2>1 DEF Summing
  <2>3. F[s] = f[x] + F[s \ {x}]
    BY <2>2
  <2> QED BY <2>3 DEF x
<1>3. F = [s \in SUBSET S |-> Def(F, s)]
  BY <1>2 DEF Summing
<1>4. iter = [s \in SUBSET S |-> Def(iter, s)]
  BY <1>3
<1> HIDE DEF iter
<1> DEFINE Good == {s \in SUBSET S : iter[s] = F[s]}
<1>5. \A s \in SUBSET S : iter[s] = Def(iter, s)
  BY <1>4
<1>6. {} \in Good
  BY <1>5 DEF Summing
<1>7. ASSUME NEW T \in SUBSET S, T # {}, \A x \in T : T \ {x} \in Good
      PROVE  T \in Good
  <2> DEFINE x == CHOOSE x \in T : TRUE
  <2>1. x \in T
    BY <1>7
  <2>2. iter[T \ {x}] = F[T \ {x}]
    BY <1>7, <2>1
  <2>3. iter[T] = f[x] + iter[T \ {x}]
    BY <1>5, <1>7
  <2>4. F[T] = f[x] + F[T \ {x}]
    BY <1>2, <1>7
  <2> QED BY <2>2, <2>3, <2>4
<1> HIDE DEF Good
<1>8. S \in Good
  BY <1>6, <1>7, SetInduction
<1> QED BY <1>1, <1>8 DEF Good

LEMMA TotalsSum ==
  ASSUME NEW S, IsFiniteSet(S), NEW f, \A x \in S : f[x] \in Int
  PROVE  \E F : Summing(F, f, S) /\ \A T \in SUBSET S : Total(f, T) = F[T]
<1>1. PICK F : Summing(F, f, S)
  BY SummingExists
<1>2. ASSUME NEW T \in SUBSET S PROVE Total(f, T) = F[T]
  <2> DEFINE G == [s \in SUBSET T |-> F[s]]
  <2>1. Summing(G, f, T)
    <3>1. G \in [SUBSET T -> Int]
      BY <1>1 DEF Summing
    <3>2. G[{}] = 0
      BY <1>1 DEF Summing
    <3>3. \A s \in SUBSET T : \A x \in s : G[s] = G[s \ {x}] + f[x]
      BY <1>1 DEF Summing
    <3> QED
      BY <3>1, <3>2, <3>3 DEF Summing
  <2>2. IsFiniteSet(T)
    BY FS_Subset
  <2> HIDE DEF G
  <2>3. Total(f, T) = G[T]
    BY <2>1, <2>2, TotalIsSumming
  <2> QED
    BY <2>3 DEF G
<1> QED
  BY <1>1, <1>2

-----------------------------------------------------------------------------
(* The facts about totals that accounts need.                              *)
LEMMA TotalEmpty == \A f : Total(f, {}) = 0
<1> SUFFICES ASSUME NEW f PROVE Total(f, {}) = 0
  OBVIOUS
<1>1. IsFiniteSet({})
  BY FS_EmptySet
<1>2. \E F : Summing(F, f, {}) /\ \A T \in SUBSET {} : Total(f, T) = F[T]
  BY <1>1, TotalsSum
<1> QED
  BY <1>2 DEF Summing

LEMMA TotalType ==
  ASSUME NEW S, IsFiniteSet(S), NEW f, \A x \in S : f[x] \in Int
  PROVE  Total(f, S) \in Int
<1>1. PICK F : Summing(F, f, S) /\ \A T \in SUBSET S : Total(f, T) = F[T]
  BY TotalsSum
<1> QED
  BY <1>1 DEF Summing

(* One element aside.                                                      *)
LEMMA TotalSplit ==
  ASSUME NEW S, IsFiniteSet(S), NEW f, \A x \in S : f[x] \in Int,
         NEW y \in S
  PROVE  /\ Total(f, S) = Total(f, S \ {y}) + f[y]
         /\ Total(f, S \ {y}) \in Int
<1>1. PICK F : Summing(F, f, S) /\ \A T \in SUBSET S : Total(f, T) = F[T]
  BY TotalsSum
<1> QED
  BY <1>1 DEF Summing

LEMMA TotalAdd ==
  ASSUME NEW S, IsFiniteSet(S), NEW y, y \notin S,
         NEW f, \A x \in S \cup {y} : f[x] \in Int
  PROVE  Total(f, S \cup {y}) = Total(f, S) + f[y]
<1>1. IsFiniteSet(S \cup {y}) /\ (S \cup {y}) \ {y} = S
  BY FS_AddElement
<1> QED
  BY <1>1, TotalSplit

LEMMA TotalSingle ==
  ASSUME NEW y, NEW f, f[y] \in Int
  PROVE  Total(f, {y}) = f[y]
<1>1. IsFiniteSet({}) /\ {} \cup {y} = {y} /\ Total(f, {}) = 0
  BY FS_EmptySet, TotalEmpty
<1>2. Total(f, {} \cup {y}) = Total(f, {}) + f[y]
  BY <1>1, TotalAdd
<1> QED
  BY <1>1, <1>2

(* Only the terms count.                                                   *)
LEMMA TotalSame ==
  ASSUME NEW S, IsFiniteSet(S), NEW f, NEW g,
         \A x \in S : f[x] \in Int /\ g[x] = f[x]
  PROVE  Total(g, S) = Total(f, S)
<1> DEFINE Good == {T \in SUBSET S : Total(g, T) = Total(f, T)}
<1>1. {} \in Good
  BY TotalEmpty
<1>2. ASSUME NEW T \in SUBSET S, T # {}, \A x \in T : T \ {x} \in Good
      PROVE  T \in Good
  <2>1. PICK x \in T : T \ {x} \in Good
    BY <1>2
  <2>2. IsFiniteSet(T)
    BY FS_Subset
  <2>3. Total(f, T) = Total(f, T \ {x}) + f[x]
    BY <2>2, TotalSplit
  <2>4. Total(g, T) = Total(g, T \ {x}) + g[x]
    BY <2>2, TotalSplit
  <2> QED
    BY <2>1, <2>3, <2>4
<1> HIDE DEF Good
<1>3. S \in Good
  BY <1>1, <1>2, SetInduction
<1> QED
  BY <1>3 DEF Good

(* One term changes.                                                       *)
LEMMA TotalChange ==
  ASSUME NEW S, IsFiniteSet(S), NEW f, \A x \in S : f[x] \in Int,
         NEW y \in S, NEW g, g[y] \in Int, \A x \in S \ {y} : g[x] = f[x]
  PROVE  Total(g, S) = Total(f, S) - f[y] + g[y]
<1>1. /\ Total(f, S) = Total(f, S \ {y}) + f[y]
      /\ Total(f, S \ {y}) \in Int
  BY TotalSplit
<1>2. \A x \in S : g[x] \in Int
  OBVIOUS
<1>3. Total(g, S) = Total(g, S \ {y}) + g[y]
  BY <1>2, TotalSplit
<1>4. IsFiniteSet(S \ {y})
  BY FS_Subset
<1>5. Total(g, S \ {y}) = Total(f, S \ {y})
  BY <1>4, TotalSame
<1> QED
  BY <1>1, <1>3, <1>5

(* Terms that are 0 do not count.                                          *)
LEMMA TotalZero ==
  ASSUME NEW S, IsFiniteSet(S), NEW f, \A x \in S : f[x] = 0
  PROVE  Total(f, S) = 0
<1> DEFINE Good == {T \in SUBSET S : Total(f, T) = 0}
<1>1. {} \in Good
  BY TotalEmpty
<1>2. ASSUME NEW T \in SUBSET S, T # {}, \A x \in T : T \ {x} \in Good
      PROVE  T \in Good
  <2>1. PICK x \in T : T \ {x} \in Good
    BY <1>2
  <2>2. IsFiniteSet(T)
    BY FS_Subset
  <2>3. Total(f, T) = Total(f, T \ {x}) + f[x]
    BY <2>2, TotalSplit
  <2> QED
    BY <2>1, <2>3
<1> HIDE DEF Good
<1>3. S \in Good
  BY <1>1, <1>2, SetInduction
<1> QED
  BY <1>3 DEF Good

(* Totals of natural numbers are natural, and a total is no less than that *)
(* over a part or than any of its terms.                                   *)
LEMMA TotalNat ==
  ASSUME NEW S, IsFiniteSet(S), NEW f, \A x \in S : f[x] \in Nat
  PROVE  /\ Total(f, S) \in Nat
         /\ \A T \in SUBSET S : Total(f, T) \in 0..Total(f, S)
         /\ \A x \in S : f[x] <= Total(f, S)
<1> DEFINE Good == {T \in SUBSET S : Total(f, T) \in Nat}
<1>1. {} \in Good
  BY TotalEmpty
<1>2. ASSUME NEW T \in SUBSET S, T # {}, \A x \in T : T \ {x} \in Good
      PROVE  T \in Good
  <2>1. PICK x \in T : T \ {x} \in Good
    BY <1>2
  <2>2. IsFiniteSet(T)
    BY FS_Subset
  <2>3. Total(f, T) = Total(f, T \ {x}) + f[x]
    BY <2>2, TotalSplit
  <2> QED
    BY <2>1, <2>3
<1> HIDE DEF Good
<1>3. \A T \in SUBSET S : T \in Good
  <2> SUFFICES ASSUME NEW T \in SUBSET S PROVE T \in Good
    OBVIOUS
  <2>1. IsFiniteSet(T)
    BY FS_Subset
  <2> QED
    BY <2>1, <1>1, <1>2, SetInduction
<1>4. \A T \in SUBSET S : Total(f, T) \in Nat
  BY <1>3 DEF Good
<1> DEFINE Less == {T \in SUBSET S : \A U \in SUBSET T : Total(f, U) <= Total(f, T)}
<1>5. {} \in Less
  BY TotalEmpty
<1>6. ASSUME NEW T \in SUBSET S, T # {}, \A x \in T : T \ {x} \in Less
      PROVE  T \in Less
  <2> SUFFICES ASSUME NEW U \in SUBSET T, U # T
               PROVE  Total(f, U) <= Total(f, T)
    BY <1>4
  <2>1. PICK x \in T : x \notin U
    OBVIOUS
  <2>2. IsFiniteSet(T) /\ U \in SUBSET (T \ {x}) /\ T \ {x} \in SUBSET S
    BY <2>1, FS_Subset
  <2>3. Total(f, T) = Total(f, T \ {x}) + f[x]
    BY <2>2, TotalSplit
  <2>4. Total(f, U) <= Total(f, T \ {x})
    BY <1>6, <2>1, <2>2
  <2> QED
    BY <1>4, <2>2, <2>3, <2>4
<1> HIDE DEF Less
<1>7. S \in Less
  BY <1>5, <1>6, SetInduction
<1>8. \A x \in S : Total(f, S) = Total(f, S \ {x}) + f[x]
  BY TotalSplit
<1>9. \A x \in S : Total(f, S \ {x}) \in Nat
  BY <1>4
<1>10. \A T \in SUBSET S : Total(f, T) <= Total(f, S)
  BY <1>7 DEF Less
<1>11. Total(f, S) \in Nat
  BY <1>4
<1>12. \A T \in SUBSET S : Total(f, T) \in 0..Total(f, S)
  BY <1>4, <1>10, <1>11
<1>13. ASSUME NEW x \in S PROVE f[x] <= Total(f, S)
  <2>1. f[x] \in Nat /\ Total(f, S \ {x}) \in Nat
    BY <1>9
  <2>2. Total(f, S) = Total(f, S \ {x}) + f[x]
    BY <1>8
  <2> QED
    BY <1>11, <2>1, <2>2
<1> QED
  BY <1>11, <1>12, <1>13

(* Only the elements with a term other than 0 count.                       *)
LEMMA TotalSupport ==
  ASSUME NEW S, IsFiniteSet(S), NEW f, \A x \in S : f[x] \in Int,
         NEW T \in SUBSET S, \A x \in S \ T : f[x] = 0
  PROVE  Total(f, S) = Total(f, T)
<1> DEFINE Good == {U \in SUBSET (S \ T) : Total(f, T \cup U) = Total(f, T)}
<1>1. {} \in Good
  OBVIOUS
<1>2. ASSUME NEW U \in SUBSET (S \ T), U # {}, \A x \in U : U \ {x} \in Good
      PROVE  U \in Good
  <2>1. PICK x \in U : U \ {x} \in Good
    BY <1>2
  <2>2. IsFiniteSet(T \cup U) /\ (T \cup U) \ {x} = T \cup (U \ {x})
    BY FS_Subset
  <2>3. \A y \in T \cup U : f[y] \in Int
    OBVIOUS
  <2>4. Total(f, T \cup U) = Total(f, T \cup (U \ {x})) + f[x]
    BY <2>2, <2>3, TotalSplit
  <2>5. IsFiniteSet(T)
    BY FS_Subset
  <2>6. Total(f, T) \in Int
    BY <2>5, TotalType
  <2> QED
    BY <2>1, <2>4, <2>6
<1> HIDE DEF Good
<1>3. IsFiniteSet(S \ T)
  BY FS_Subset
<1>4. S \ T \in Good
  BY <1>1, <1>2, <1>3, SetInduction
<1>5. T \cup (S \ T) = S
  OBVIOUS
<1> QED
  BY <1>4, <1>5 DEF Good

(* The terms of a sum add up to the sum of the totals.                     *)
LEMMA TotalSum ==
  ASSUME NEW S, IsFiniteSet(S), NEW f, NEW g, NEW h,
         \A x \in S : f[x] \in Int /\ g[x] \in Int /\ h[x] = f[x] + g[x]
  PROVE  Total(h, S) = Total(f, S) + Total(g, S)
<1> DEFINE Good == {T \in SUBSET S : Total(h, T) = Total(f, T) + Total(g, T)}
<1>1. {} \in Good
  BY TotalEmpty
<1>2. ASSUME NEW T \in SUBSET S, T # {}, \A x \in T : T \ {x} \in Good
      PROVE  T \in Good
  <2>1. PICK x \in T : T \ {x} \in Good
    BY <1>2
  <2>2. IsFiniteSet(T) /\ \A y \in T : h[y] \in Int
    BY FS_Subset
  <2>3. Total(f, T) = Total(f, T \ {x}) + f[x] /\ Total(f, T \ {x}) \in Int
    BY <2>2, TotalSplit
  <2>4. Total(g, T) = Total(g, T \ {x}) + g[x] /\ Total(g, T \ {x}) \in Int
    BY <2>2, TotalSplit
  <2>5. Total(h, T) = Total(h, T \ {x}) + h[x]
    BY <2>2, TotalSplit
  <2>6. f[x] \in Int /\ g[x] \in Int /\ h[x] = f[x] + g[x]
    OBVIOUS
  <2>7. Total(h, T \ {x}) = Total(f, T \ {x}) + Total(g, T \ {x})
    BY <2>1
  <2> QED
    BY <2>3, <2>4, <2>5, <2>6, <2>7
<1> HIDE DEF Good
<1>3. S \in Good
  BY <1>1, <1>2, SetInduction
<1> QED
  BY <1>3 DEF Good

(* A total does not depend on what its terms are called.                   *)
LEMMA TotalImage ==
  ASSUME NEW S, IsFiniteSet(S), NEW f, NEW g, NEW h,
         \A x \in S : f[x] \in Int /\ g[h[x]] = f[x],
         \A x, y \in S : h[x] = h[y] => x = y
  PROVE  Total(g, {h[x] : x \in S}) = Total(f, S)
<1> DEFINE Im(T) == {h[x] : x \in T}
           Good == {T \in SUBSET S : /\ IsFiniteSet(Im(T))
                                    /\ Total(g, Im(T)) = Total(f, T)}
<1>1. {} \in Good
  <2>1. Im({}) = {}
    OBVIOUS
  <2> HIDE DEF Im
  <2> QED
    BY <2>1, TotalEmpty, FS_EmptySet
<1>2. ASSUME NEW T \in SUBSET S, T # {}, \A x \in T : T \ {x} \in Good
      PROVE  T \in Good
  <2>1. PICK x \in T : T \ {x} \in Good
    BY <1>2
  <2>2. IsFiniteSet(T) /\ f[x] \in Int /\ g[h[x]] = f[x]
    BY FS_Subset
  <2>3. Total(f, T) = Total(f, T \ {x}) + f[x]
    BY <2>2, TotalSplit
  <2> DEFINE rest == Im(T \ {x})
             y == h[x]
  <2>4. Im(T) = rest \cup {y}
    OBVIOUS
  <2>5. y \notin rest
    OBVIOUS
  <2>6. IsFiniteSet(rest) /\ Total(g, rest) = Total(f, T \ {x})
    BY <2>1
  <2>7. \A z \in rest \cup {y} : g[z] \in Int
    OBVIOUS
  <2>8. g[y] = f[x]
    BY <2>2
  <2> HIDE DEF Im, rest, y
  <2>9. Total(g, rest \cup {y}) = Total(g, rest) + g[y]
    BY <2>5, <2>6, <2>7, TotalAdd
  <2>10. IsFiniteSet(rest \cup {y})
    BY <2>6, FS_AddElement
  <2>11. Total(g, Im(T)) = Total(f, T)
    BY <2>3, <2>4, <2>6, <2>8, <2>9
  <2> QED
    BY <2>4, <2>10, <2>11
<1> HIDE DEF Good
<1>3. S \in Good
  BY <1>1, <1>2, SetInduction
<1> QED
  BY <1>3 DEF Good

(* Ones add up to how many there are.                                      *)
LEMMA TotalOnes ==
  ASSUME NEW S, IsFiniteSet(S), NEW f, \A x \in S : f[x] = 1
  PROVE  Total(f, S) = Cardinality(S)
<1> DEFINE Good == {T \in SUBSET S : Total(f, T) = Cardinality(T)}
<1>1. {} \in Good
  BY TotalEmpty, FS_EmptySet
<1>2. ASSUME NEW T \in SUBSET S, T # {}, \A x \in T : T \ {x} \in Good
      PROVE  T \in Good
  <2>1. PICK x \in T : T \ {x} \in Good
    BY <1>2
  <2>2. IsFiniteSet(T)
    BY FS_Subset
  <2>3. Total(f, T) = Total(f, T \ {x}) + f[x]
    BY <2>2, TotalSplit
  <2>4. Cardinality(T \ {x}) = Cardinality(T) - 1 /\ Cardinality(T) \in Nat
    BY <2>2, FS_RemoveElement, FS_CardinalityType
  <2>5. Total(f, T) = Cardinality(T)
    BY <2>1, <2>3, <2>4
  <2> QED
    BY <2>5
<1> HIDE DEF Good
<1>3. S \in Good
  BY <1>1, <1>2, SetInduction
<1> QED
  BY <1>3 DEF Good

(* Totals grow with their terms.                                           *)
LEMMA TotalMost ==
  ASSUME NEW S, IsFiniteSet(S), NEW f, NEW g,
         \A x \in S : f[x] \in Int /\ g[x] \in Int /\ f[x] <= g[x]
  PROVE  Total(f, S) <= Total(g, S)
<1> DEFINE d == [x \in S |-> g[x] - f[x]]
<1>1. \A x \in S : d[x] \in Nat /\ d[x] \in Int /\ g[x] = f[x] + d[x]
  OBVIOUS
<1> HIDE DEF d
<1>2. Total(g, S) = Total(f, S) + Total(d, S)
  BY <1>1, TotalSum
<1>3. Total(d, S) \in Nat
  BY <1>1, TotalNat
<1>4. Total(f, S) \in Int
  BY TotalType
<1> QED
  BY <1>2, <1>3, <1>4
=============================================================================
