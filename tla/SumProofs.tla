------------------------------ MODULE SumProofs ------------------------------
(***************************************************************************)
(* Sums over finite sets and remainders: what the proofs about counters    *)
(* and samples need to know of SumFunctionOnSet and of %.                  *)
(*                                                                         *)
(* SumFunctionOnSet takes the elements of a set in an order of its own.    *)
(* Sums says what is true of a sum in every order; a function with that    *)
(* property exists, and it is the one SumFunctionOnSet computes.  Both     *)
(* are proved by induction over the subsets of a finite set, with a set    *)
(* in the place of the induction's predicate.                              *)
(***************************************************************************)
EXTENDS Integers, Functions, FiniteSets, FiniteSetTheorems, WellFoundedInduction, TLAPS

(* Induction over the subsets of a finite set; a set stands for the         *)
(* predicate.                                                               *)
LEMMA SubsetsInduction ==
  ASSUME NEW D, IsFiniteSet(D), NEW Good,
         \A T \in SUBSET D : (\A U \in SUBSET T : U # T => U \in Good) => T \in Good
  PROVE  \A T \in SUBSET D : T \in Good
<1>1. IsWellFoundedOn(StrictSubsetOrdering(D), SUBSET D)
  BY FS_StrictSubsetOrderingWellFounded, FS_FiniteSubsetsOfFinite
<1> PICK Bad : Bad = {T \in SUBSET D : T \notin Good}
  OBVIOUS
<1>2. ASSUME Bad # {} PROVE FALSE
  <2>1. Bad \subseteq SUBSET D
    OBVIOUS
  <2>2. PICK T \in Bad : \A U \in Bad : ~(<<U, T>> \in StrictSubsetOrdering(D))
    BY <1>1, <1>2, <2>1, WFMin
  <2>3. ASSUME NEW U \in SUBSET T, U # T PROVE U \in Good
    <3>1. <<U, T>> \in StrictSubsetOrdering(D)
      BY <2>1, <2>3 DEF StrictSubsetOrdering
    <3> QED
      BY <2>1, <2>2, <3>1
  <2> QED
    BY <2>1, <2>3
<1> QED
  BY <1>2

(* The same, one element at a time. *)
LEMMA ElementsInduction ==
  ASSUME NEW D, IsFiniteSet(D), NEW Good, {} \in Good,
         \A T \in SUBSET D : \A x \in D \ T : T \in Good => T \cup {x} \in Good
  PROVE  D \in Good
<1>1. ASSUME NEW T \in SUBSET D, \A U \in SUBSET T : U # T => U \in Good PROVE T \in Good
  <2>1. CASE T # {}
    <3>1. PICK x \in T : TRUE
      BY <2>1
    <3>2. T \ {x} \in SUBSET D /\ x \in D \ (T \ {x}) /\ (T \ {x}) \cup {x} = T
      OBVIOUS
    <3>3. T \ {x} \in Good
      BY <1>1
    <3> QED
      BY <3>2, <3>3
  <2> QED
    BY <2>1
<1>2. \A T \in SUBSET D : T \in Good
  BY <1>1, SubsetsInduction
<1> QED
  BY <1>2

(* sg gives every subset of D the sum of w over it. *)
Sums(D, w, sg) ==
  /\ sg \in [SUBSET D -> Int]
  /\ sg[{}] = 0
  /\ \A T \in SUBSET D : \A x \in D \ T : sg[T \cup {x}] = sg[T] + w[x]

LEMMA SumsExist ==
  ASSUME NEW D, IsFiniteSet(D), NEW w \in [D -> Int]
  PROVE  \E sg : Sums(D, w, sg)
<1> DEFINE Good == {E \in SUBSET D : \E sg : Sums(E, w, sg)}
<1>1. {} \in Good
  <2>1. Sums({}, w, [T \in SUBSET {} |-> 0])
    BY DEF Sums
  <2> QED
    BY <2>1
<1>2. ASSUME NEW E \in SUBSET D, NEW x \in D \ E, E \in Good PROVE E \cup {x} \in Good
  <2>1. PICK sg : Sums(E, w, sg)
    BY <1>2
  <2> PICK F : F = E \cup {x}
    OBVIOUS
  <2> DEFINE sh == [T \in SUBSET F |-> sg[T \ {x}] + (IF x \in T THEN w[x] ELSE 0)]
  <2>2. /\ sg \in [SUBSET E -> Int] /\ sg[{}] = 0
        /\ \A T \in SUBSET E : \A y \in E \ T : sg[T \cup {y}] = sg[T] + w[y]
    BY <2>1 DEF Sums
  <2>3. \A T \in SUBSET F : T \ {x} \in SUBSET E
    OBVIOUS
  <2>4. w[x] \in Int
    OBVIOUS
  <2>5. sh \in [SUBSET F -> Int]
    BY <2>2, <2>3, <2>4
  <2>6. sh[{}] = 0
    <3>1. {} \ {x} = {} /\ {} \in SUBSET F /\ x \notin {}
      OBVIOUS
    <3> QED
      BY <2>2, <3>1
  <2>7. ASSUME NEW T \in SUBSET F, NEW y \in F \ T PROVE sh[T \cup {y}] = sh[T] + w[y]
    <3>1. T \cup {y} \in SUBSET F
      OBVIOUS
    <3>2. sg[T \ {x}] \in Int
      BY <2>2, <2>3
    <3>3. CASE y = x
      <4>1. (T \cup {y}) \ {x} = T \ {x} /\ x \in T \cup {y} /\ x \notin T
        BY <3>3
      <4> QED
        <5>1. sh[T \cup {y}] = sg[T \ {x}] + w[x]
          BY <3>1, <4>1
        <5>2. sh[T] = sg[T \ {x}] + 0
          BY <4>1
        <5> HIDE DEF sh
        <5> QED
          BY <3>2, <3>3, <5>1, <5>2
    <3>4. CASE y # x
      <4>1. (T \cup {y}) \ {x} = (T \ {x}) \cup {y} /\ (x \in T \cup {y} <=> x \in T) /\ y \in E \ (T \ {x})
        BY <3>4
      <4>2. sg[(T \cup {y}) \ {x}] = sg[T \ {x}] + w[y]
        BY <4>1, <2>2, <2>3
      <4>3. w[y] \in Int
        BY <4>1
      <4> QED
        BY <3>1, <3>2, <4>1, <4>2, <4>3, <2>4
    <3> QED
      BY <3>3, <3>4
  <2> HIDE DEF sh
  <2>8. Sums(F, w, sh)
    BY <2>5, <2>6, <2>7 DEF Sums
  <2> QED
    BY <2>8
<1> HIDE DEF Good
<1>4. D \in Good
  BY <1>1, <1>2, ElementsInduction
<1> QED
  BY <1>4 DEF Good

(* SumFunctionOnSet is the sum, in whatever order it takes the elements. *)
LEMMA SumIs ==
  ASSUME NEW D, IsFiniteSet(D), NEW w, \A x \in D : w[x] \in Int, NEW sg, Sums(D, w, sg)
  PROVE  SumFunctionOnSet(w, D) = sg[D]
<1> DEFINE Pick(s) == CHOOSE x \in s : TRUE
           Step(g) == [s \in SUBSET D |-> IF s = {} THEN 0 ELSE w[Pick(s)] + g[s \ {Pick(s)}]]
           it == CHOOSE g : g = Step(g)
<1>1. SumFunctionOnSet(w, D) = it[D]
  BY DEF SumFunctionOnSet, FoldFunctionOnSet, MapThenFoldSet
<1>2. ASSUME NEW s \in SUBSET D, s # {}
      PROVE  /\ Pick(s) \in s /\ w[Pick(s)] \in Int /\ s \ {Pick(s)} \in SUBSET D
             /\ sg[s \ {Pick(s)}] \in Int
             /\ sg[s] = w[Pick(s)] + sg[s \ {Pick(s)}]
  <2>1. Pick(s) \in s
    BY <1>2
  <2> PICK x : x = Pick(s)
    OBVIOUS
  <2> HIDE DEF Pick
  <2>2. s \ {x} \in SUBSET D /\ x \in D \ (s \ {x}) /\ (s \ {x}) \cup {x} = s
    BY <2>1
  <2> PICK U : U = s \ {x}
    OBVIOUS
  <2>3. U \in SUBSET D /\ x \in D \ U /\ U \cup {x} = s
    BY <2>2
  <2>4. sg[U \cup {x}] = sg[U] + w[x] /\ sg[U] \in Int /\ w[x] \in Int
    BY ONLY <2>3, Sums(D, w, sg), \A y \in D : w[y] \in Int DEF Sums
  <2>5. sg[U] + w[x] = w[x] + sg[U]
    BY ONLY <2>4
  <2>6. x \in s
    BY ONLY <2>1, x = Pick(s)
  <2>7. sg[s] = w[x] + sg[U]
    BY ONLY <2>3, <2>4, <2>5
  <2>8. /\ x \in s /\ w[x] \in Int /\ s \ {x} \in SUBSET D /\ sg[s \ {x}] \in Int
        /\ sg[s] = w[x] + sg[s \ {x}]
    BY ONLY <2>3, <2>4, <2>6, <2>7, U = s \ {x}
  <2> QED
    BY ONLY <2>8, x = Pick(s)
<1>3. sg = Step(sg)
  <2>1. sg \in [SUBSET D -> Int] /\ sg[{}] = 0
    BY DEF Sums
  <2>2. \A s \in SUBSET D : sg[s] = (IF s = {} THEN 0 ELSE w[Pick(s)] + sg[s \ {Pick(s)}])
    BY <1>2, <2>1
  <2> HIDE DEF Pick
  <2> QED
    BY <2>1, <2>2
<1>4. it = Step(it)
  <2> HIDE DEF Step
  <2> QED
    BY <1>3
<1> DEFINE Good == {T \in SUBSET D : it[T] = sg[T]}
<1> HIDE DEF it
<1>5. ASSUME NEW T \in SUBSET D, \A U \in SUBSET T : U # T => U \in Good PROVE T \in Good
  <2>1. it[T] = IF T = {} THEN 0 ELSE w[Pick(T)] + it[T \ {Pick(T)}]
    BY <1>4
  <2>2. CASE T = {}
    BY <2>1, <2>2 DEF Sums
  <2>3. CASE T # {}
    <3>1. T \ {Pick(T)} \in SUBSET T /\ T \ {Pick(T)} # T
      BY <2>3, <1>2
    <3>2. it[T \ {Pick(T)}] = sg[T \ {Pick(T)}]
      BY <3>1, <1>5
    <3>3. sg[T] = w[Pick(T)] + sg[T \ {Pick(T)}]
      BY <2>3, <1>2
    <3> HIDE DEF Pick
    <3> QED
      BY <2>1, <2>3, <3>2, <3>3
  <2> QED
    BY <2>2, <2>3
<1> HIDE DEF Good
<1>6. \A T \in SUBSET D : T \in Good
  BY <1>5, SubsetsInduction
<1>7. D \in Good
  BY <1>6
<1> QED
  BY <1>1, <1>7 DEF Good
LEMMA SumsOfSubsets ==
  ASSUME NEW D, IsFiniteSet(D), NEW w, \A x \in D : w[x] \in Int
  PROVE  \E sg : Sums(D, w, sg) /\ \A T \in SUBSET D : SumFunctionOnSet(w, T) = sg[T]
<1>1. PICK wr : wr = [x \in D |-> w[x]]
  OBVIOUS
<1>2. wr \in [D -> Int] /\ \A x \in D : wr[x] = w[x]
  BY <1>1
<1>3. PICK sg : Sums(D, wr, sg)
  BY <1>2, SumsExist
<1>4. Sums(D, w, sg)
  BY <1>2, <1>3 DEF Sums
<1>5. ASSUME NEW T \in SUBSET D PROVE SumFunctionOnSet(w, T) = sg[T]
  <2>1. PICK rs : rs = [U \in SUBSET T |-> sg[U]]
    OBVIOUS
  <2>2. IsFiniteSet(T) /\ \A x \in T : w[x] \in Int
    BY FS_Subset
  <2>3. SUBSET T \subseteq SUBSET D /\ {} \in SUBSET T /\ T \in SUBSET T
    OBVIOUS
  <2>4. Sums(T, w, rs)
    <3>1. rs \in [SUBSET T -> Int] /\ rs[{}] = 0
      BY <1>4, <2>1, <2>3 DEF Sums
    <3>2. ASSUME NEW U \in SUBSET T, NEW x \in T \ U PROVE rs[U \cup {x}] = rs[U] + w[x]
      <4>1. U \in SUBSET D /\ x \in D \ U /\ U \cup {x} \in SUBSET T
        OBVIOUS
      <4>2. sg[U \cup {x}] = sg[U] + w[x]
        BY <1>4, <4>1 DEF Sums
      <4> QED
        BY <2>1, <4>1, <4>2
    <3> QED
      BY <3>1, <3>2 DEF Sums
  <2> QED
    BY <2>1, <2>2, <2>3, <2>4, SumIs
<1> QED
  BY <1>4, <1>5

(* What a sum over a finite set is: no order, one element at a time.        *)
LEMMA SumFacts ==
  ASSUME NEW D, IsFiniteSet(D), NEW w, \A x \in D : w[x] \in Int
  PROVE  /\ \A T \in SUBSET D : SumFunctionOnSet(w, T) \in Int
         /\ SumFunctionOnSet(w, {}) = 0
         /\ \A T \in SUBSET D : \A x \in D \ T :
              SumFunctionOnSet(w, T \cup {x}) = SumFunctionOnSet(w, T) + w[x]
<1>1. PICK sg : Sums(D, w, sg) /\ \A T \in SUBSET D : SumFunctionOnSet(w, T) = sg[T]
  BY SumsOfSubsets
<1>2. \A T \in SUBSET D : \A x \in D \ T : T \cup {x} \in SUBSET D
  OBVIOUS
<1>3. {} \in SUBSET D
  OBVIOUS
<1> QED
  BY <1>1, <1>2, <1>3 DEF Sums

LEMMA SumAdd ==
  ASSUME NEW D, IsFiniteSet(D), NEW w, \A x \in D : w[x] \in Int,
         NEW T \in SUBSET D, NEW e \in D \ T
  PROVE  SumFunctionOnSet(w, T \cup {e}) = SumFunctionOnSet(w, T) + w[e]
  BY SumFacts

(* It only depends on the values of its elements. *)
LEMMA SumSame ==
  ASSUME NEW D, IsFiniteSet(D), NEW w, NEW v, \A x \in D : w[x] \in Int /\ v[x] = w[x]
  PROVE  SumFunctionOnSet(v, D) = SumFunctionOnSet(w, D)
<1> PICK Good : Good = {T \in SUBSET D : SumFunctionOnSet(v, T) = SumFunctionOnSet(w, T)}
  OBVIOUS
<1>1. {} \in Good
  BY SumFacts
<1>2. ASSUME NEW T \in SUBSET D, NEW x \in D \ T, T \in Good PROVE T \cup {x} \in Good
  <2>1. SumFunctionOnSet(v, T) = SumFunctionOnSet(w, T) /\ v[x] = w[x]
    BY <1>2
  <2>2. SumFunctionOnSet(w, T \cup {x}) = SumFunctionOnSet(w, T) + w[x]
    BY SumFacts
  <2>3. SumFunctionOnSet(v, T \cup {x}) = SumFunctionOnSet(v, T) + v[x]
    <3>1. \A y \in D : v[y] \in Int
      OBVIOUS
    <3> QED
      BY <3>1, SumFacts
  <2> QED
    BY <2>1, <2>2, <2>3
<1>3. D \in Good
  BY <1>1, <1>2, ElementsInduction
<1> QED
  BY <1>3

(* Elements that are not negative do not make it smaller, *)
LEMMA SumGrows ==
  ASSUME NEW D, IsFiniteSet(D), NEW w, \A x \in D : w[x] \in Int,
         NEW T \in SUBSET D, \A x \in D \ T : w[x] >= 0
  PROVE  SumFunctionOnSet(w, T) <= SumFunctionOnSet(w, D)
<1> PICK R : R = D \ T
  OBVIOUS
<1> PICK Good : Good = {U \in SUBSET R : SumFunctionOnSet(w, T) <= SumFunctionOnSet(w, T \cup U)}
  OBVIOUS
<1>1. {} \in Good
  <2>1. SumFunctionOnSet(w, T) \in Int /\ T \cup {} = T
    BY SumFacts
  <2> QED
    BY <2>1
<1>2. ASSUME NEW U \in SUBSET R, NEW x \in R \ U, U \in Good PROVE U \cup {x} \in Good
  <2>1. /\ T \cup U \in SUBSET D /\ x \in D \ (T \cup U)
        /\ T \cup (U \cup {x}) = (T \cup U) \cup {x}
    OBVIOUS
  <2> PICK V : V = T \cup U
    OBVIOUS
  <2>2. SumFunctionOnSet(w, V \cup {x}) = SumFunctionOnSet(w, V) + w[x]
    <3>1. V \in SUBSET D /\ x \in D \ V
      BY <2>1
    <3> QED
      BY ONLY <3>1, SumFacts, IsFiniteSet(D), \A y \in D : w[y] \in Int
  <2>3. SumFunctionOnSet(w, T) \in Int /\ SumFunctionOnSet(w, V) \in Int
    BY <2>1, SumFacts
  <2>4. SumFunctionOnSet(w, T) <= SumFunctionOnSet(w, V) /\ w[x] \in Int /\ w[x] >= 0
    BY <1>2
  <2>5. SumFunctionOnSet(w, T) <= SumFunctionOnSet(w, V) + w[x]
    BY ONLY <2>3, <2>4
  <2> QED
    BY <2>1, <2>2, <2>5
<1>3. IsFiniteSet(R)
  BY FS_Difference
<1>4. R \in Good
  BY ONLY <1>1, <1>2, <1>3, ElementsInduction
<1>5. T \cup R = D
  OBVIOUS
<1> QED
  BY <1>4, <1>5

(* nor do those that are not positive make it greater. *)
LEMMA SumFalls ==
  ASSUME NEW D, IsFiniteSet(D), NEW w, \A x \in D : w[x] \in Int,
         NEW T \in SUBSET D, \A x \in D \ T : w[x] <= 0
  PROVE  SumFunctionOnSet(w, D) <= SumFunctionOnSet(w, T)
<1> PICK R : R = D \ T
  OBVIOUS
<1> PICK Good : Good = {U \in SUBSET R : SumFunctionOnSet(w, T \cup U) <= SumFunctionOnSet(w, T)}
  OBVIOUS
<1>1. {} \in Good
  <2>1. SumFunctionOnSet(w, T) \in Int /\ T \cup {} = T
    BY SumFacts
  <2> QED
    BY <2>1
<1>2. ASSUME NEW U \in SUBSET R, NEW x \in R \ U, U \in Good PROVE U \cup {x} \in Good
  <2>1. /\ T \cup U \in SUBSET D /\ x \in D \ (T \cup U)
        /\ T \cup (U \cup {x}) = (T \cup U) \cup {x}
    OBVIOUS
  <2> PICK V : V = T \cup U
    OBVIOUS
  <2>2. SumFunctionOnSet(w, V \cup {x}) = SumFunctionOnSet(w, V) + w[x]
    <3>1. V \in SUBSET D /\ x \in D \ V
      BY <2>1
    <3> QED
      BY ONLY <3>1, SumFacts, IsFiniteSet(D), \A y \in D : w[y] \in Int
  <2>3. SumFunctionOnSet(w, T) \in Int /\ SumFunctionOnSet(w, V) \in Int
    BY <2>1, SumFacts
  <2>4. SumFunctionOnSet(w, V) <= SumFunctionOnSet(w, T) /\ w[x] \in Int /\ w[x] <= 0
    BY <1>2
  <2>5. SumFunctionOnSet(w, V) + w[x] <= SumFunctionOnSet(w, T)
    BY ONLY <2>3, <2>4
  <2> QED
    BY <2>1, <2>2, <2>5
<1>3. IsFiniteSet(R)
  BY FS_Difference
<1>4. R \in Good
  BY ONLY <1>1, <1>2, <1>3, ElementsInduction
<1>5. T \cup R = D
  OBVIOUS
<1> QED
  BY <1>4, <1>5

(* and zeros do not matter. *)
LEMMA SumZeros ==
  ASSUME NEW D, IsFiniteSet(D), NEW w, \A x \in D : w[x] \in Int,
         NEW T \in SUBSET D, \A x \in D \ T : w[x] = 0
  PROVE  SumFunctionOnSet(w, D) = SumFunctionOnSet(w, T)
<1>1. SumFunctionOnSet(w, T) <= SumFunctionOnSet(w, D)
  <2>1. \A x \in D \ T : w[x] >= 0
    OBVIOUS
  <2> QED
    BY <2>1, SumGrows
<1>2. SumFunctionOnSet(w, D) <= SumFunctionOnSet(w, T)
  <2>1. \A x \in D \ T : w[x] <= 0
    OBVIOUS
  <2> QED
    BY <2>1, SumFalls
<1>3. SumFunctionOnSet(w, D) \in Int /\ SumFunctionOnSet(w, T) \in Int
  BY SumFacts
<1> QED
  BY <1>1, <1>2, <1>3

(* What is left of a sum is between its negative and its positive part.     *)
LEMMA SignedSums ==
  ASSUME NEW D, IsFiniteSet(D), NEW w, \A x \in D : w[x] \in Int
  PROVE  LET up   == {x \in D : w[x] > 0}
             down == {x \in D : w[x] < 0}
         IN /\ 0 <= SumFunctionOnSet(w, up)
            /\ SumFunctionOnSet(w, down) <= 0
            /\ SumFunctionOnSet(w, down) <= SumFunctionOnSet(w, D)
            /\ SumFunctionOnSet(w, D) <= SumFunctionOnSet(w, up)
<1> PICK up, down : up = {x \in D : w[x] > 0} /\ down = {x \in D : w[x] < 0}
  OBVIOUS
<1>1. /\ up \in SUBSET D /\ down \in SUBSET D
      /\ IsFiniteSet(up) /\ IsFiniteSet(down)
      /\ {} \in SUBSET up /\ {} \in SUBSET down
  BY FS_Subset
<1>2. SumFunctionOnSet(w, {}) = 0
  BY SumFacts
<1>3. SumFunctionOnSet(w, {}) <= SumFunctionOnSet(w, up)
  <2>1. (\A x \in up : w[x] \in Int) /\ (\A x \in up \ {} : w[x] >= 0)
    OBVIOUS
  <2> QED
    BY <1>1, <2>1, SumGrows
<1>4. SumFunctionOnSet(w, down) <= SumFunctionOnSet(w, {})
  <2>1. (\A x \in down : w[x] \in Int) /\ (\A x \in down \ {} : w[x] <= 0)
    OBVIOUS
  <2> QED
    BY <1>1, <2>1, SumFalls
<1>5. SumFunctionOnSet(w, down) <= SumFunctionOnSet(w, D)
  <2>1. \A x \in D \ down : w[x] >= 0
    OBVIOUS
  <2> QED
    BY <1>1, <2>1, SumGrows
<1>6. SumFunctionOnSet(w, D) <= SumFunctionOnSet(w, up)
  <2>1. \A x \in D \ up : w[x] <= 0
    OBVIOUS
  <2> QED
    BY <1>1, <2>1, SumFalls
<1> QED
  BY <1>2, <1>3, <1>4, <1>5, <1>6
----------------------------------------------------------------------------
(***************************************************************************)
(* Arithmetic modulo a width.                                              *)
(***************************************************************************)

(* The remainder is determined by the division. *)
LEMMA ModUnique ==
  ASSUME NEW a \in Int, NEW M \in Nat \ {0}, NEW q \in Int, NEW r \in 0..(M - 1),
         a = M * q + r
  PROVE  a % M = r
  <1> DEFINE p == a \div M
             m == a % M
  <1>1. p \in Int /\ m \in 0..(M - 1) /\ a = M * p + m
    OBVIOUS
  <1> HIDE DEF p, m
  <1>2. ASSUME NEW i \in Int, NEW j \in Int, NEW k \in 0..(M - 1), NEW l \in 0..(M - 1),
               M * i + k = M * j + l, i < j
        PROVE  FALSE
    <2>1. PICK d \in Nat : j = i + 1 + d
      <3>1. j - i - 1 \in Nat
        BY <1>2
      <3> QED BY <1>2, <3>1
    <2>2. M * j = M * i + M + M * d
      BY <2>1
    <2>3. M * d \in Nat /\ M * i \in Int
      BY <2>1
    <2> QED BY <1>2, <2>2, <2>3
  <1>3. M * p + m = M * q + r /\ M * q + r = M * p + m
    BY <1>1
  <1>4. p = q
    BY <1>1, <1>2, <1>3
  <1>5. M * q \in Int
    OBVIOUS
  <1>6. m = r
    BY <1>1, <1>3, <1>4, <1>5
  <1> QED BY <1>6 DEF m

(* An integer is a multiple of the width and its remainder. *)
LEMMA ModFacts ==
  ASSUME NEW a \in Int, NEW M \in Nat \ {0}
  PROVE  a % M \in 0..(M - 1) /\ a \div M \in Int /\ a = M * (a \div M) + (a % M)
  OBVIOUS

(* Wrapping the parts and then the sum wraps the sum. *)
LEMMA ModSum ==
  ASSUME NEW a \in Int, NEW b \in Int, NEW M \in Nat \ {0}
  PROVE  ((a % M) + (b % M)) % M = (a + b) % M
  <1> DEFINE p == a \div M
             m == a % M
             q == b \div M
             n == b % M
             k == (m + n) \div M
             r == (m + n) % M
  <1>1. p \in Int /\ m \in 0..(M - 1) /\ a = M * p + m
    BY ModFacts
  <1>2. q \in Int /\ n \in 0..(M - 1) /\ b = M * q + n
    BY ModFacts
  <1> HIDE DEF p, m, q, n
  <1>3. m + n \in Int
    BY <1>1, <1>2
  <1>4. k \in Int /\ r \in 0..(M - 1) /\ m + n = M * k + r
    BY <1>3, ModFacts
  <1> HIDE DEF k, r
  <1>5. M * (p + q + k) = M * p + M * q + M * k
    BY <1>1, <1>2, <1>4
  <1>6. M * p \in Int /\ M * q \in Int /\ M * k \in Int
    BY <1>1, <1>2, <1>4
  <1>7. a + b = M * (p + q + k) + r
    BY <1>1, <1>2, <1>4, <1>5, <1>6
  <1>8. a + b \in Int /\ p + q + k \in Int
    BY <1>1, <1>2, <1>4
  <1>9. (a + b) % M = r
    BY <1>4, <1>7, <1>8, ModUnique
  <1> QED BY <1>9 DEF m, n, r

(* Wrapping twice is wrapping once. *)
LEMMA ModAdd ==
  ASSUME NEW a \in Int, NEW b \in Int, NEW M \in Nat \ {0}
  PROVE  ((a % M) + b) % M = (a + b) % M
  <1> DEFINE p == a \div M
             m == a % M
             k == (m + b) \div M
             r == (m + b) % M
  <1>1. p \in Int /\ m \in 0..(M - 1) /\ a = M * p + m
    BY ModFacts
  <1> HIDE DEF p, m
  <1>2. m + b \in Int
    BY <1>1
  <1>3. k \in Int /\ r \in 0..(M - 1) /\ m + b = M * k + r
    BY <1>2, ModFacts
  <1> HIDE DEF k, r
  <1>4. M * (p + k) = M * p + M * k /\ M * p \in Int /\ M * k \in Int
    BY <1>1, <1>3
  <1>5. a + b = M * (p + k) + r
    BY <1>1, <1>3, <1>4
  <1>6. a + b \in Int /\ p + k \in Int
    BY <1>1, <1>3
  <1>7. (a + b) % M = r
    BY <1>3, <1>5, <1>6, ModUnique
  <1> QED BY <1>7 DEF m, r

(* A number inside the width stays itself. *)
LEMMA ModSmall ==
  ASSUME NEW M \in Nat \ {0}, NEW n \in 0..(M - 1)
  PROVE  n % M = n
  <1>1. n \in Int /\ 0 \in Int /\ n = M * 0 + n
    OBVIOUS
  <1> QED BY <1>1, ModUnique

==============================================================================
