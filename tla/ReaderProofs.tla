---------------------------- MODULE ReaderProofs ----------------------------
(***************************************************************************)
(* Proofs about Reader, for every set of metrics, any order in which they  *)
(* are registered during the capture and any sizes of the caller's buffers. *)
(***************************************************************************)
EXTENDS Reader, SumProofs, FunctionTheorems, SequenceTheorems

----------------------------------------------------------------------------
(***************************************************************************)
(* Order: least elements, and sorting by counting predecessors.            *)
(***************************************************************************)

(* LeastOf finds the least element of a set of naturals. *)
LEMMA LeastOfFacts ==
  ASSUME NEW T \in SUBSET Nat, T # {}
  PROVE  LeastOf(T) \in T /\ \A j \in T : LeastOf(T) <= j
<1> DEFINE R == OpToRel(<, Nat)
<1>1. R = {ss \in Nat \X Nat : ss[1] < ss[2]}
  BY DEF OpToRel
<1>2. IsWellFoundedOn(R, Nat)
  BY NatLessThanWellFounded
<1> HIDE DEF R
<1>3. PICK x \in T : \A y \in T : ~(<<y, x>> \in R)
  BY <1>2, WFMin
<1>4. ASSUME NEW y \in T PROVE x <= y
  <2>1. x \in Nat /\ y \in Nat /\ <<y, x>> \in Nat \X Nat
    OBVIOUS
  <2>2. <<y, x>> \notin R
    BY <1>3
  <2>3. ~(y < x)
    BY <2>1, <2>2, <1>1
  <2> QED
    BY <2>1, <2>3
<1> QED
  BY <1>4 DEF LeastOf

(* In a finite set that R orders, the number of predecessors places every   *)
(* element: each place from 0 to |S| - 1 has one element.                   *)
Orders(R, S) ==
  /\ \A a \in S : <<a, a>> \notin R
  /\ \A a, b \in S : a = b \/ <<a, b>> \in R \/ <<b, a>> \in R
  /\ \A a, b, c \in S : <<a, b>> \in R /\ <<b, c>> \in R => <<a, c>> \in R

Place(S, R, s) == Cardinality({r \in S : <<r, s>> \in R})

LEMMA PlacesAreABijection ==
  ASSUME NEW S, IsFiniteSet(S), NEW R, Orders(R, S)
  PROVE  /\ Cardinality(S) \in Nat
         /\ \A s \in S : Place(S, R, s) \in 0..(Cardinality(S) - 1)
         /\ \A a, b \in S : <<a, b>> \in R => Place(S, R, a) < Place(S, R, b)
         /\ \A a, b \in S : Place(S, R, a) = Place(S, R, b) => a = b
         /\ \A i \in 0..(Cardinality(S) - 1) : \E s \in S : Place(S, R, s) = i
<1> DEFINE Before(s) == {r \in S : <<r, s>> \in R}
           place == [s \in S |-> Place(S, R, s)]
<1> USE DEF Orders
<1>1. Cardinality(S) \in Nat
  BY FS_CardinalityType
<1>2. \A s \in S : IsFiniteSet(Before(s)) /\ Cardinality(Before(s)) \in Nat
  <2> TAKE s \in S
  <2>1. Before(s) \in SUBSET S
    OBVIOUS
  <2> HIDE DEF Before
  <2>2. IsFiniteSet(Before(s))
    BY <2>1, FS_Subset
  <2> QED
    BY <2>2, FS_CardinalityType
<1>3. \A s \in S : place[s] = Cardinality(Before(s))
  BY DEF Place
<1>3a. \A s \in S : place[s] = Place(S, R, s)
  OBVIOUS
<1>3b. place \in [S -> {Place(S, R, s) : s \in S}]
  OBVIOUS
<1> HIDE DEF place
<1>4. ASSUME NEW a \in S, NEW b \in S, <<a, b>> \in R
      PROVE  place[a] < place[b]
  <2>1. Before(a) \in SUBSET Before(b) /\ a \in Before(b) /\ a \notin Before(a)
    BY <1>4
  <2> HIDE DEF Before
  <2>2. Cardinality(Before(a)) <= Cardinality(Before(b))
        /\ (Cardinality(Before(b)) = Cardinality(Before(a)) => Before(b) = Before(a))
    BY <2>1, <1>2, FS_Subset
  <2>3. Before(b) # Before(a)
    BY <2>1
  <2>4. Cardinality(Before(a)) \in Nat /\ Cardinality(Before(b)) \in Nat
    BY <1>2
  <2>5. place[a] = Cardinality(Before(a)) /\ place[b] = Cardinality(Before(b))
    BY <1>3
  <2> QED
    BY ONLY <2>2, <2>3, <2>4, <2>5
<1>5. ASSUME NEW s \in S PROVE place[s] \in 0..(Cardinality(S) - 1)
  <2>1. Before(s) \in SUBSET S /\ s \notin Before(s)
    OBVIOUS
  <2> HIDE DEF Before
  <2>2. Cardinality(Before(s)) <= Cardinality(S)
        /\ (Cardinality(S) = Cardinality(Before(s)) => S = Before(s))
    BY <2>1, FS_Subset
  <2>3. S # Before(s)
    BY <2>1
  <2>4. Cardinality(Before(s)) \in Nat /\ place[s] = Cardinality(Before(s))
    BY <1>2, <1>3
  <2> QED
    BY ONLY <2>2, <2>3, <2>4, <1>1
<1>6. ASSUME NEW a \in S, NEW b \in S, place[a] = place[b] PROVE a = b
  <2>1. place[a] \in Nat /\ place[b] \in Nat
    BY <1>2, <1>3
  <2>2. ~(place[a] < place[b]) /\ ~(place[b] < place[a])
    BY ONLY <2>1, <1>6
  <2>3. <<a, b>> \notin R /\ <<b, a>> \notin R
    BY <2>2, <1>4
  <2> QED
    BY <2>3
<1>7. place \in Injection(S, 0..(Cardinality(S) - 1))
  <2>1. place \in [S -> 0..(Cardinality(S) - 1)]
    BY <1>5, <1>3b
  <2> QED
    BY <2>1, <1>6 DEF Injection, IsInjective
<1>8. IsFiniteSet(0..(Cardinality(S) - 1)) /\ Cardinality(0..(Cardinality(S) - 1)) = Cardinality(S)
  <2>1. Cardinality(S) - 1 \in Int /\ 0 \in Int
    BY <1>1
  <2>2. IsFiniteSet(0..(Cardinality(S) - 1))
        /\ Cardinality(0..(Cardinality(S) - 1))
             = IF 0 > Cardinality(S) - 1 THEN 0 ELSE Cardinality(S) - 1 - 0 + 1
    BY <2>1, FS_Interval
  <2> QED
    BY <2>2, <1>1
<1>9. place \in Surjection(S, 0..(Cardinality(S) - 1))
  BY <1>7, <1>8, FS_Injection
<1>10. \A i \in 0..(Cardinality(S) - 1) : \E s \in S : place[s] = i
  BY <1>9 DEF Surjection
<1> QED
  BY <1>1, <1>3a, <1>4, <1>5, <1>6, <1>10

----------------------------------------------------------------------------
(***************************************************************************)
(* Sources and their order.                                                *)
(***************************************************************************)

(* An output has no resource labels, or those of its own name. *)
Labels(l) ==
  l = [name |-> l.name, endpoint |-> l.endpoint, access |-> l.access, role |-> l.role]
IsOutput(o) ==
  \/ o = Output(o.type, o.name)
  \/ \E l : Labels(l) /\ o = [type |-> o.type, name |-> l.name, resource |-> <<l>>]

IsKind(k) ==
  /\ k = <<k[1], k[2]>> /\ k[1] \in Range(KindOrder) /\ k[2] \in Nat
  /\ k[1] # "Api" => k[2] = 0

(* What is true of every source: only the summaries have the type API, and  *)
(* only the gauges are exported in the families of gauges.                  *)
IsSource(s) ==
  /\ s = [output |-> s.output, kind |-> s.kind, item |-> s.item]
  /\ s.output \in Range(OutputOrder) /\ IsOutput(s.output)
  /\ IsKind(s.kind)
  /\ s.item = <<s.item[1], s.item[2]>> /\ s.item[1] \in Range(ItemOrder) /\ s.item[2] \in Nat
  /\ s.kind[1] = "Full" => s.output.type # "API"
  /\ s.kind[1] = "ApiSummary" => s.output.type = "API"
  /\ s.item[1] = "Gauge" <=> s.kind[1] \in {"ConnGauge", "Gauge"}

(* Index finds a place of x. *)
LEMMA IndexFacts ==
  ASSUME NEW q, q \in Seq(Range(q)), NEW x \in Range(q)
  PROVE  Index(q, x) \in Nat /\ q[Index(q, x)] = x
<1>1. \E i \in DOMAIN q : q[i] = x
  BY DEF Range
<1>2. Index(q, x) \in DOMAIN q /\ q[Index(q, x)] = x
  BY <1>1 DEF Index
<1>3. DOMAIN q \subseteq Nat
  OBVIOUS
<1> QED
  BY <1>2, <1>3

LEMMA OrdersAreSequences ==
  /\ OutputOrder \in Seq(Range(OutputOrder))
  /\ KindOrder \in Seq(Range(KindOrder)) /\ ItemOrder \in Seq(Range(ItemOrder))
<1>1. \A i \in DOMAIN KindOrder : KindOrder[i] \in Range(KindOrder)
  BY DEF Range
<1>2. \A i \in DOMAIN ItemOrder : ItemOrder[i] \in Range(ItemOrder)
  BY DEF Range
<1>3. KindOrder \in Seq(Range(KindOrder))
  BY <1>1 DEF KindOrder
<1>4. ItemOrder \in Seq(Range(ItemOrder))
  BY <1>2 DEF ItemOrder
<1> QED
  BY <1>3, <1>4, MetasAssumption

(* The rank of a source is five naturals, which determine the source, and   *)
(* the first three of which determine its series.                           *)
LEMMA RankFacts ==
  ASSUME NEW s, IsSource(s)
  PROVE  /\ Rank(s)[1] \in Nat /\ Rank(s)[2] \in Nat /\ Rank(s)[3] \in Nat
         /\ Rank(s)[4] \in Nat /\ Rank(s)[5] \in Nat
         /\ s.output = OutputOrder[Rank(s)[1]]
         /\ s.kind = <<KindOrder[Rank(s)[2]], Rank(s)[3]>>
         /\ s.item = <<ItemOrder[Rank(s)[4]], Rank(s)[5]>>
<1>1. /\ Rank(s)[1] = Index(OutputOrder, s.output)
      /\ Rank(s)[2] = Index(KindOrder, s.kind[1]) /\ Rank(s)[3] = s.kind[2]
      /\ Rank(s)[4] = Index(ItemOrder, s.item[1]) /\ Rank(s)[5] = s.item[2]
  BY DEF Rank
<1>2. Rank(s)[1] \in Nat /\ OutputOrder[Rank(s)[1]] = s.output
  BY <1>1, IndexFacts, OrdersAreSequences DEF IsSource
<1>3. Rank(s)[2] \in Nat /\ KindOrder[Rank(s)[2]] = s.kind[1]
  <2>1. s.kind[1] \in Range(KindOrder)
    BY DEF IsSource, IsKind
  <2> QED
    BY <1>1, <2>1, IndexFacts, OrdersAreSequences
<1>4. Rank(s)[4] \in Nat /\ ItemOrder[Rank(s)[4]] = s.item[1]
  <2>1. s.item[1] \in Range(ItemOrder)
    BY DEF IsSource
  <2> QED
    BY <1>1, <2>1, IndexFacts, OrdersAreSequences
<1>5. Rank(s)[3] \in Nat /\ Rank(s)[5] \in Nat
  BY <1>1 DEF IsSource, IsKind
<1>6. s.kind = <<s.kind[1], s.kind[2]>> /\ s.item = <<s.item[1], s.item[2]>>
  BY DEF IsSource, IsKind
<1> QED
  BY ONLY <1>1, <1>2, <1>3, <1>4, <1>5, <1>6

(* The order of two sources, component by component. *)
LEMMA LessMeans ==
  ASSUME NEW a, NEW b, IsSource(a), IsSource(b)
  PROVE  Less(a, b) <=>
           \/ Rank(a)[1] < Rank(b)[1]
           \/ /\ Rank(a)[1] = Rank(b)[1]
              /\ \/ Rank(a)[2] < Rank(b)[2]
                 \/ /\ Rank(a)[2] = Rank(b)[2]
                    /\ \/ Rank(a)[3] < Rank(b)[3]
                       \/ /\ Rank(a)[3] = Rank(b)[3]
                          /\ \/ Rank(a)[4] < Rank(b)[4]
                             \/ Rank(a)[4] = Rank(b)[4] /\ Rank(a)[5] < Rank(b)[5]
<1> PICK x, y : x = Rank(a) /\ y = Rank(b)
  OBVIOUS
<1> DEFINE L(i) == x[i] < y[i] /\ \A j \in 1..(i - 1) : x[j] = y[j]
<1>1. Less(a, b) <=> \E i \in 1..5 : L(i)
  BY DEF Less
<1>2. 1..5 = {1, 2, 3, 4, 5}
  OBVIOUS
<1>3. Less(a, b) <=> L(1) \/ L(2) \/ L(3) \/ L(4) \/ L(5)
  <2> HIDE DEF L
  <2> QED
    BY <1>1, <1>2
<1>4. 1..(1 - 1) = {} /\ 1..(2 - 1) = {1} /\ 1..(3 - 1) = {1, 2}
      /\ 1..(4 - 1) = {1, 2, 3} /\ 1..(5 - 1) = {1, 2, 3, 4}
  OBVIOUS
<1>5. L(1) <=> x[1] < y[1]
  BY <1>4
<1>6. L(2) <=> x[2] < y[2] /\ x[1] = y[1]
  BY <1>4
<1>7. L(3) <=> x[3] < y[3] /\ x[1] = y[1] /\ x[2] = y[2]
  BY <1>4
<1>8. L(4) <=> x[4] < y[4] /\ x[1] = y[1] /\ x[2] = y[2] /\ x[3] = y[3]
  BY <1>4
<1>9. L(5) <=> x[5] < y[5] /\ x[1] = y[1] /\ x[2] = y[2] /\ x[3] = y[3] /\ x[4] = y[4]
  BY <1>4
<1> HIDE DEF L
<1> QED
  BY <1>3, <1>5, <1>6, <1>7, <1>8, <1>9

(* Less orders the sources, and the sources of a series are neighbours.     *)
LEMMA LessFacts ==
  ASSUME NEW a, NEW b, NEW c, IsSource(a), IsSource(b), IsSource(c)
  PROVE  /\ ~Less(a, a)
         /\ a = b \/ Less(a, b) \/ Less(b, a)
         /\ Less(a, b) /\ Less(b, c) => Less(a, c)
         /\ Less(a, b) /\ Less(b, c) /\ a.output = c.output /\ a.kind = c.kind =>
              b.output = a.output /\ b.kind = a.kind
<1> PICK x, y, z : x = Rank(a) /\ y = Rank(b) /\ z = Rank(c)
  OBVIOUS
<1>1. /\ x[1] \in Nat /\ x[2] \in Nat /\ x[3] \in Nat /\ x[4] \in Nat /\ x[5] \in Nat
      /\ y[1] \in Nat /\ y[2] \in Nat /\ y[3] \in Nat /\ y[4] \in Nat /\ y[5] \in Nat
      /\ z[1] \in Nat /\ z[2] \in Nat /\ z[3] \in Nat /\ z[4] \in Nat /\ z[5] \in Nat
  BY RankFacts
<1>2. ~Less(a, a)
  BY <1>1, LessMeans
<1>3. Less(a, b) /\ Less(b, c) => Less(a, c)
  <2>1. SUFFICES ASSUME Less(a, b), Less(b, c) PROVE Less(a, c)
    OBVIOUS
  <2>2. \/ x[1] < y[1]
        \/ x[1] = y[1] /\ x[2] < y[2]
        \/ x[1] = y[1] /\ x[2] = y[2] /\ x[3] < y[3]
        \/ x[1] = y[1] /\ x[2] = y[2] /\ x[3] = y[3] /\ x[4] < y[4]
        \/ x[1] = y[1] /\ x[2] = y[2] /\ x[3] = y[3] /\ x[4] = y[4] /\ x[5] < y[5]
    BY <2>1, LessMeans
  <2>3. \/ y[1] < z[1]
        \/ y[1] = z[1] /\ y[2] < z[2]
        \/ y[1] = z[1] /\ y[2] = z[2] /\ y[3] < z[3]
        \/ y[1] = z[1] /\ y[2] = z[2] /\ y[3] = z[3] /\ y[4] < z[4]
        \/ y[1] = z[1] /\ y[2] = z[2] /\ y[3] = z[3] /\ y[4] = z[4] /\ y[5] < z[5]
    BY <2>1, LessMeans
  <2>4. \/ x[1] < z[1]
        \/ x[1] = z[1] /\ x[2] < z[2]
        \/ x[1] = z[1] /\ x[2] = z[2] /\ x[3] < z[3]
        \/ x[1] = z[1] /\ x[2] = z[2] /\ x[3] = z[3] /\ x[4] < z[4]
        \/ x[1] = z[1] /\ x[2] = z[2] /\ x[3] = z[3] /\ x[4] = z[4] /\ x[5] < z[5]
    BY ONLY <1>1, <2>2, <2>3
  <2> QED
    BY <2>4, LessMeans
<1>4. a = b \/ Less(a, b) \/ Less(b, a)
  <2>1. SUFFICES ASSUME ~Less(a, b), ~Less(b, a) PROVE a = b
    OBVIOUS
  <2>2. x[1] = y[1] /\ x[2] = y[2] /\ x[3] = y[3] /\ x[4] = y[4] /\ x[5] = y[5]
    BY <2>1, <1>1, LessMeans
  <2>3. a.output = b.output /\ a.kind = b.kind /\ a.item = b.item
    BY <2>2, RankFacts
  <2> QED
    BY <2>3 DEF IsSource
<1>5. Less(a, b) /\ Less(b, c) /\ a.output = c.output /\ a.kind = c.kind =>
        b.output = a.output /\ b.kind = a.kind
  <2>1. SUFFICES ASSUME Less(a, b), Less(b, c), a.output = c.output, a.kind = c.kind
                 PROVE  b.output = a.output /\ b.kind = a.kind
    OBVIOUS
  <2>2. x[1] = z[1] /\ x[2] = z[2] /\ x[3] = z[3]
    BY <2>1 DEF Rank
  <2>3. x[1] = y[1] /\ x[2] = y[2] /\ x[3] = y[3]
    BY <2>1, <2>2, <1>1, LessMeans
  <2> QED
    BY <2>3, RankFacts
<1> QED
  BY <1>2, <1>3, <1>4, <1>5

(* Sorted lists the elements of a finite set of sources in order, each once. *)
LEMMA SortedFacts ==
  ASSUME NEW S, IsFiniteSet(S), \A s \in S : IsSource(s), NEW q, q = Sorted(S)
  PROVE  /\ Cardinality(S) \in Nat
         /\ q \in [1..Cardinality(S) -> S]
         /\ \A s \in S : \E i \in DOMAIN q : q[i] = s
         /\ \A i, j \in DOMAIN q : i < j => Less(q[i], q[j])
<1> DEFINE R == {p \in S \X S : Less(p[1], p[2])}
           n == Cardinality(S)
<1>1. \A a, b \in S : <<a, b>> \in R <=> Less(a, b)
  OBVIOUS
<1>2. \A s \in S : {r \in S : <<r, s>> \in R} = {r \in S : Less(r, s)}
  BY <1>1
<1>3. \A s \in S : Place(S, R, s) = Cardinality({r \in S : Less(r, s)})
  BY <1>2 DEF Place
<1>4. \A a \in S : <<a, a>> \notin R
  BY <1>1, LessFacts
<1>5. \A a, b \in S : a = b \/ <<a, b>> \in R \/ <<b, a>> \in R
  BY <1>1, LessFacts
<1>6. \A a, b, c \in S : <<a, b>> \in R /\ <<b, c>> \in R => <<a, c>> \in R
  BY <1>1, LessFacts
<1> HIDE DEF R
<1>8. /\ n \in Nat
      /\ \A s \in S : Place(S, R, s) \in 0..(n - 1)
      /\ \A a, b \in S : <<a, b>> \in R => Place(S, R, a) < Place(S, R, b)
      /\ \A a, b \in S : Place(S, R, a) = Place(S, R, b) => a = b
      /\ \A i \in 0..(n - 1) : \E s \in S : Place(S, R, s) = i
  <2>1. Orders(R, S)
    BY ONLY <1>4, <1>5, <1>6 DEF Orders
  <2> QED
    BY <2>1, PlacesAreABijection
<1> HIDE DEF n
<1>9. q = [i \in 1..n |-> CHOOSE s \in S : Cardinality({r \in S : Less(r, s)}) = i - 1]
  BY DEF Sorted, n
<1>10. ASSUME NEW i \in 1..n PROVE q[i] \in S /\ Place(S, R, q[i]) = i - 1
  <2>1. i - 1 \in 0..(n - 1)
    BY <1>8
  <2>2. \E s \in S : Cardinality({r \in S : Less(r, s)}) = i - 1
    BY <2>1, <1>8, <1>3
  <2>3. q[i] = CHOOSE s \in S : Cardinality({r \in S : Less(r, s)}) = i - 1
    BY <1>9
  <2>4. q[i] \in S /\ Cardinality({r \in S : Less(r, q[i])}) = i - 1
    BY <2>2, <2>3
  <2> QED
    BY <2>4, <1>3
<1>11. q \in [1..n -> S] /\ DOMAIN q = 1..n
  BY <1>9, <1>10
<1>12. ASSUME NEW s \in S PROVE \E i \in DOMAIN q : q[i] = s
  <2>1. Place(S, R, s) + 1 \in 1..n /\ (Place(S, R, s) + 1) - 1 = Place(S, R, s)
    BY <1>8
  <2>2. q[Place(S, R, s) + 1] \in S /\ Place(S, R, q[Place(S, R, s) + 1]) = Place(S, R, s)
    BY <2>1, <1>10
  <2>3. q[Place(S, R, s) + 1] = s
    BY <2>2, <1>8
  <2> QED
    BY <2>1, <2>3, <1>11
<1>13. ASSUME NEW i \in DOMAIN q, NEW j \in DOMAIN q, i < j PROVE Less(q[i], q[j])
  <2>1. i \in 1..n /\ j \in 1..n
    BY <1>11
  <2>2. q[i] \in S /\ q[j] \in S /\ Place(S, R, q[i]) = i - 1 /\ Place(S, R, q[j]) = j - 1
    BY <2>1, <1>10
  <2>3. q[i] # q[j]
    BY <2>1, <2>2, <1>13
  <2>4. ~(Place(S, R, q[j]) < Place(S, R, q[i]))
    BY <2>1, <2>2, <1>13
  <2>5. <<q[j], q[i]>> \notin R
    BY <2>2, <2>4, <1>8
  <2> QED
    BY <2>2, <2>3, <2>5, <1>1, <1>5
<1> QED
  BY <1>8, <1>11, <1>12, <1>13 DEF n

(* Nth lists the elements of a finite set of naturals in order, each once.  *)
LEMMA NthFacts ==
  ASSUME NEW S, S \in SUBSET Nat, IsFiniteSet(S)
  PROVE  /\ Cardinality(S) \in Nat
         /\ \A i \in 1..Cardinality(S) : Nth(S, i) \in S
         /\ \A i, j \in 1..Cardinality(S) : Nth(S, i) = Nth(S, j) => i = j
         /\ \A s \in S : \E i \in 1..Cardinality(S) : Nth(S, i) = s
<1> DEFINE R == {p \in S \X S : p[1] < p[2]}
           n == Cardinality(S)
<1>1. \A a, b \in S : <<a, b>> \in R <=> a < b
  OBVIOUS
<1>2. \A s \in S : {r \in S : <<r, s>> \in R} = {r \in S : r < s}
  BY <1>1
<1>3. \A s \in S : Place(S, R, s) = Cardinality({r \in S : r < s})
  BY <1>2 DEF Place
<1>4. \A a \in S : <<a, a>> \notin R
  BY <1>1
<1>5. \A a, b \in S : a = b \/ <<a, b>> \in R \/ <<b, a>> \in R
  <2> TAKE a, b \in S
  <2>1. a \in Nat /\ b \in Nat
    OBVIOUS
  <2>2. a = b \/ a < b \/ b < a
    BY <2>1
  <2> QED
    BY <2>2, <1>1
<1>6. \A a, b, c \in S : <<a, b>> \in R /\ <<b, c>> \in R => <<a, c>> \in R
  BY <1>1
<1> HIDE DEF R
<1>8. /\ n \in Nat
      /\ \A s \in S : Place(S, R, s) \in 0..(n - 1)
      /\ \A a, b \in S : <<a, b>> \in R => Place(S, R, a) < Place(S, R, b)
      /\ \A a, b \in S : Place(S, R, a) = Place(S, R, b) => a = b
      /\ \A i \in 0..(n - 1) : \E s \in S : Place(S, R, s) = i
  <2>1. Orders(R, S)
    BY ONLY <1>4, <1>5, <1>6 DEF Orders
  <2>2. IsFiniteSet(S)
    OBVIOUS
  <2> QED
    BY ONLY <2>1, <2>2, PlacesAreABijection
<1> HIDE DEF n
<1>9. ASSUME NEW i \in 1..n PROVE Nth(S, i) \in S /\ Place(S, R, Nth(S, i)) = i - 1
  <2>1. i - 1 \in 0..(n - 1)
    BY <1>8
  <2>2. \E s \in S : Cardinality({r \in S : r < s}) = i - 1
    BY <2>1, <1>8, <1>3
  <2>3. Nth(S, i) \in S /\ Cardinality({r \in S : r < Nth(S, i)}) = i - 1
    BY <2>2 DEF Nth
  <2> QED
    BY <2>3, <1>3
<1>10. ASSUME NEW i \in 1..n, NEW j \in 1..n, Nth(S, i) = Nth(S, j) PROVE i = j
  <2>1. Place(S, R, Nth(S, i)) = i - 1 /\ Place(S, R, Nth(S, j)) = j - 1
    BY <1>9
  <2>2. i - 1 = j - 1
    BY <2>1, <1>10
  <2> QED
    BY <2>2
<1>11. ASSUME NEW s \in S PROVE \E i \in 1..n : Nth(S, i) = s
  <2>1. Place(S, R, s) + 1 \in 1..n /\ (Place(S, R, s) + 1) - 1 = Place(S, R, s)
    BY <1>8
  <2>2. Nth(S, Place(S, R, s) + 1) \in S /\ Place(S, R, Nth(S, Place(S, R, s) + 1)) = Place(S, R, s)
    BY <2>1, <1>9
  <2> QED
    BY <2>1, <2>2, <1>8
<1> QED
  BY <1>8, <1>9, <1>10, <1>11 DEF n

(***************************************************************************)
(* What metrics export.                                                    *)
(***************************************************************************)

(* Which families a kind supports. *)
SupportTable(k, f) ==
  /\ k = "Full" => f \in 1..6
  /\ k = "ApiSummary" => f \in 2..6
  /\ k \in {"Api", "Timeout"} => f = 1
  /\ k = "ConnCounter" => f = 7
  /\ k = "Count" => f = 8
  /\ k = "ConnGauge" => f = 9
  /\ k = "Gauge" => f = 10

LEMMA SupportsFacts ==
  ASSUME NEW k, NEW f, supports(k, f)
  PROVE  SupportTable(k[1], f)
<1>1. k[1] = "Full" => f \in 1..6
  BY DEF supports
<1>2. k[1] = "ApiSummary" => f \in 2..6
  BY DEF supports
<1>3. k[1] \in {"Api", "Timeout"} => f = 1
  BY DEF supports
<1>4. k[1] = "ConnCounter" => f = 7
  BY DEF supports
<1>5. k[1] = "Count" => f = 8
  BY DEF supports
<1>6. k[1] = "ConnGauge" => f = 9
  BY DEF supports
<1>7. k[1] = "Gauge" => f = 10
  BY DEF supports
<1> QED
  BY <1>1, <1>2, <1>3, <1>4, <1>5, <1>6, <1>7 DEF SupportTable

(* The resource labels a sample shows determine its endpoint, access, role. *)
LEMMA LabelSetFacts ==
  ASSUME NEW l, NEW v
  PROVE  /\ <<"endpoint", v>> \in ResourceLabelSet(l) <=> v = l.endpoint
         /\ <<"access", v>> \in ResourceLabelSet(l) <=> v = l.access /\ v # "None"
         /\ <<"role", v>> \in ResourceLabelSet(l) <=> v = l.role /\ v # "None"
<1>1. \A x, a : x \in Optional(a, l.access) <=> x = <<a, l.access>> /\ l.access # "None"
  BY DEF Optional
<1>2. \A x, a : x \in Optional(a, l.role) <=> x = <<a, l.role>> /\ l.role # "None"
  BY DEF Optional
<1>3. \A x : x \in ResourceLabelSet(l) <=>
              \/ x = <<"endpoint", l.endpoint>>
              \/ x = <<"access", l.access>> /\ l.access # "None"
              \/ x = <<"role", l.role>> /\ l.role # "None"
  BY <1>1, <1>2 DEF ResourceLabelSet
<1> QED
  BY <1>3

(* The labels a sample shows within a family identify its series.           *)
LEMMA LabelsIdentify ==
  ASSUME NEW s, NEW t, IsSource(s), IsSource(t), NEW f \in 1..10,
         supports(s.kind, f), supports(t.kind, f), LabelSet(s) = LabelSet(t)
  PROVE  s.output = t.output /\ s.kind = t.kind
<1> DEFINE Res(o) == UNION {ResourceLabelSet(labels) : labels \in Range(o.resource)}
<1>1. LabelSet(s) = {<<"type", s.output.type>>, <<"name", s.output.name>>}
                      \cup StatusCode(s.kind) \cup Res(s.output)
      /\ LabelSet(t) = {<<"type", t.output.type>>, <<"name", t.output.name>>}
                      \cup StatusCode(t.kind) \cup Res(t.output)
  BY DEF LabelSet
<1>2. ASSUME NEW o, IsOutput(o)
      PROVE  \/ o.resource = <<>> /\ Res(o) = {} /\ o = Output(o.type, o.name)
             \/ \E l : /\ Labels(l) /\ o = [type |-> o.type, name |-> l.name, resource |-> <<l>>]
                       /\ Res(o) = ResourceLabelSet(l) /\ o.name = l.name
  <2>1. CASE o = Output(o.type, o.name)
    <3>1. o.resource = <<>> /\ Range(o.resource) = {}
      BY <2>1 DEF Output, Range
    <3> QED
      BY <3>1, <2>1
  <2>2. ASSUME NEW l, Labels(l), o = [type |-> o.type, name |-> l.name, resource |-> <<l>>]
        PROVE  Res(o) = ResourceLabelSet(l) /\ o.name = l.name
    <3>1. o.resource = <<l>> /\ o.name = l.name
      BY <2>2
    <3>2. Range(o.resource) = {l}
      BY <3>1 DEF Range
    <3> QED
      BY <3>1, <3>2
  <2> QED
    BY <1>2, <2>1, <2>2 DEF IsOutput
<1>3. ASSUME NEW o, IsOutput(o), NEW x \in Res(o)
      PROVE  x[1] \in {"endpoint", "access", "role"}
  BY <1>2, <1>3 DEF ResourceLabelSet, Optional
<1> HIDE DEF Res
<1>4. IsOutput(s.output) /\ IsOutput(t.output) /\ IsKind(s.kind) /\ IsKind(t.kind)
  BY DEF IsSource
<1>5. \A k, x : x \in StatusCode(k) => x[1] = "status_code"
  BY DEF StatusCode
<1>6. s.output.type = t.output.type
  <2>1. <<"type", s.output.type>> \in LabelSet(t)
    BY <1>1
  <2>2. <<"type", s.output.type>> \notin Res(t.output) /\ <<"type", s.output.type>> \notin StatusCode(t.kind)
    BY <1>3, <1>4, <1>5
  <2> QED
    BY <2>1, <2>2, <1>1
<1>7. s.output.name = t.output.name
  <2>1. <<"name", s.output.name>> \in LabelSet(t)
    BY <1>1
  <2>2. <<"name", s.output.name>> \notin Res(t.output) /\ <<"name", s.output.name>> \notin StatusCode(t.kind)
    BY <1>3, <1>4, <1>5
  <2> QED
    BY <2>1, <2>2, <1>1
<1>8. Res(s.output) = Res(t.output) /\ StatusCode(s.kind) = StatusCode(t.kind)
  <2>1. ASSUME NEW x \in Res(s.output) PROVE x \in Res(t.output)
    <3>1. x[1] \in {"endpoint", "access", "role"}
      BY <1>3, <1>4
    <3>2. x \in LabelSet(t)
      BY <1>1
    <3>3. x # <<"type", t.output.type>> /\ x # <<"name", t.output.name>> /\ x \notin StatusCode(t.kind)
      BY <3>1, <1>5
    <3> QED
      BY <3>2, <3>3, <1>1
  <2>2. ASSUME NEW x \in Res(t.output) PROVE x \in Res(s.output)
    <3>1. x[1] \in {"endpoint", "access", "role"}
      BY <1>3, <1>4
    <3>2. x \in LabelSet(s)
      BY <1>1
    <3>3. x # <<"type", s.output.type>> /\ x # <<"name", s.output.name>> /\ x \notin StatusCode(s.kind)
      BY <3>1, <1>5
    <3> QED
      BY <3>2, <3>3, <1>1
  <2>3. ASSUME NEW x \in StatusCode(s.kind) PROVE x \in StatusCode(t.kind)
    <3>1. x[1] = "status_code"
      BY <1>5
    <3>2. x \in LabelSet(t)
      BY <1>1
    <3>3. x # <<"type", t.output.type>> /\ x # <<"name", t.output.name>>
      BY <3>1
    <3>4. x \notin Res(t.output)
      BY <3>1, <1>3, <1>4
    <3> QED
      BY <3>2, <3>3, <3>4, <1>1
  <2>4. ASSUME NEW x \in StatusCode(t.kind) PROVE x \in StatusCode(s.kind)
    <3>1. x[1] = "status_code"
      BY <1>5
    <3>2. x \in LabelSet(s)
      BY <1>1
    <3>3. x # <<"type", s.output.type>> /\ x # <<"name", s.output.name>>
      BY <3>1
    <3>4. x \notin Res(s.output)
      BY <3>1, <1>3, <1>4
    <3> QED
      BY <3>2, <3>3, <3>4, <1>1
  <2> QED
    BY <2>1, <2>2, <2>3, <2>4
<1>9. ASSUME NEW l, NEW k, Labels(l), Labels(k), l.name = k.name,
             ResourceLabelSet(l) = ResourceLabelSet(k)
      PROVE  l = k
  <2>0. /\ \A v : <<"endpoint", v>> \in ResourceLabelSet(l) <=> v = l.endpoint
        /\ \A v : <<"endpoint", v>> \in ResourceLabelSet(k) <=> v = k.endpoint
        /\ \A v : <<"access", v>> \in ResourceLabelSet(l) <=> v = l.access /\ v # "None"
        /\ \A v : <<"access", v>> \in ResourceLabelSet(k) <=> v = k.access /\ v # "None"
        /\ \A v : <<"role", v>> \in ResourceLabelSet(l) <=> v = l.role /\ v # "None"
        /\ \A v : <<"role", v>> \in ResourceLabelSet(k) <=> v = k.role /\ v # "None"
    BY LabelSetFacts
  <2>1. l.endpoint = k.endpoint
    BY <1>9, <2>0
  <2>2. l.access = k.access
    <3>1. CASE l.access # "None"
      BY <3>1, <1>9, <2>0
    <3>2. CASE k.access # "None"
      BY <3>2, <1>9, <2>0
    <3> QED
      BY <3>1, <3>2
  <2>3. l.role = k.role
    <3>1. CASE l.role # "None"
      BY <3>1, <1>9, <2>0
    <3>2. CASE k.role # "None"
      BY <3>2, <1>9, <2>0
    <3> QED
      BY <3>1, <3>2
  <2> QED
    BY <1>9, <2>1, <2>2, <2>3 DEF Labels
<1>10. \A l : ResourceLabelSet(l) # {}
  BY DEF ResourceLabelSet
<1>11. s.output = t.output
  <2>1. CASE Res(s.output) = {}
    BY <2>1, <1>2, <1>4, <1>6, <1>7, <1>8, <1>10
  <2>2. CASE Res(s.output) # {}
    <3>1. PICK l : /\ Labels(l) /\ s.output = [type |-> s.output.type, name |-> l.name, resource |-> <<l>>]
                   /\ Res(s.output) = ResourceLabelSet(l) /\ s.output.name = l.name
      BY <2>2, <1>2, <1>4
    <3>2. PICK k : /\ Labels(k) /\ t.output = [type |-> t.output.type, name |-> k.name, resource |-> <<k>>]
                   /\ Res(t.output) = ResourceLabelSet(k) /\ t.output.name = k.name
      BY <2>2, <1>2, <1>4, <1>8
    <3>3. l = k
      BY <3>1, <3>2, <1>7, <1>8, <1>9
    <3> QED
      BY <3>1, <3>2, <3>3, <1>6
  <2> QED
    BY <2>1, <2>2
<1>12. s.kind = t.kind
  <2>1. /\ s.kind = <<s.kind[1], s.kind[2]>> /\ t.kind = <<t.kind[1], t.kind[2]>>
        /\ s.kind[1] # "Api" => s.kind[2] = 0
        /\ t.kind[1] # "Api" => t.kind[2] = 0
        /\ s.kind[1] \in Range(KindOrder) /\ t.kind[1] \in Range(KindOrder)
    BY <1>4 DEF IsKind
  <2>2. Range(KindOrder) = {"Full", "ApiSummary", "Api", "Timeout", "ConnCounter", "Count",
                            "ConnGauge", "Gauge"}
    BY DEF Range, KindOrder
  <2>3. CASE s.kind[1] \in {"Api", "Timeout"} \/ t.kind[1] \in {"Api", "Timeout"}
    <3>3. StatusCode(s.kind) = {<<"status_code", s.kind>>} /\ StatusCode(t.kind) = {<<"status_code", t.kind>>}
      <4>1. CASE s.kind[1] \in {"Api", "Timeout"}
        <5>1. StatusCode(s.kind) = {<<"status_code", s.kind>>}
          BY <4>1 DEF StatusCode
        <5>2. <<"status_code", s.kind>> \in StatusCode(t.kind)
          BY <5>1, <1>8
        <5>3. t.kind[1] \in {"Api", "Timeout"}
          BY <5>2 DEF StatusCode
        <5> QED
          BY <5>1, <5>3 DEF StatusCode
      <4>2. CASE t.kind[1] \in {"Api", "Timeout"}
        <5>1. StatusCode(t.kind) = {<<"status_code", t.kind>>}
          BY <4>2 DEF StatusCode
        <5>2. <<"status_code", t.kind>> \in StatusCode(s.kind)
          BY <5>1, <1>8
        <5>3. s.kind[1] \in {"Api", "Timeout"}
          BY <5>2 DEF StatusCode
        <5> QED
          BY <5>1, <5>3 DEF StatusCode
      <4> QED
        BY <2>3, <4>1, <4>2
    <3>4. <<"status_code", s.kind>> = <<"status_code", t.kind>>
      BY <3>3, <1>8
    <3> QED
      BY <3>4
  <2>4. CASE s.kind[1] \notin {"Api", "Timeout"} /\ t.kind[1] \notin {"Api", "Timeout"}
    <3>1. s.kind[1] = t.kind[1]
      <4>1. /\ s.kind[1] = "Full" => s.output.type # "API"
            /\ t.kind[1] = "Full" => t.output.type # "API"
            /\ s.kind[1] = "ApiSummary" => s.output.type = "API"
            /\ t.kind[1] = "ApiSummary" => t.output.type = "API"
        BY DEF IsSource
      <4>2. SupportTable(s.kind[1], f) /\ SupportTable(t.kind[1], f)
        BY <2>1, <2>2, SupportsFacts
      <4> QED
        BY <4>1, <4>2, <2>1, <2>2, <2>4, <1>6 DEF SupportTable
    <3> QED
      BY <3>1, <2>1, <2>4
  <2> QED
    BY <2>3, <2>4
<1> QED
  BY <1>11, <1>12

(* A kind and its label. *)
LEMMA KindFacts ==
  ASSUME NEW kind \in MetricType(100..599)
  PROVE  /\ kind.code \in Nat
         /\ kind.variant \in {"Api", "ApiTimeout", "ApiAll"} <=> TypeLabel(kind) = "API"
         /\ policy(kind) \in MetricPolicy
<1>1. /\ kind.variant \in ResourceVariants \cup PlainVariants \cup {"Api"}
      /\ kind.code \in Nat
  <2>1. CASE \E v \in PlainVariants : kind = Plain(v)
    BY <2>1 DEF Plain
  <2>2. CASE \E v \in ResourceVariants, r \in {"Req", "Conn"} : kind = Resource(v, r)
    BY <2>2 DEF Resource
  <2>3. CASE \E c \in 100..599 : kind = Api(c)
    BY <2>3 DEF Api
  <2> QED
    BY <2>1, <2>2, <2>3 DEF MetricType
<1>2. PICK v : v = kind.variant
  OBVIOUS
<1>3. v \in {"Redis", "Mysql", "Memcache", "Http", "Rpc", "Service", "SocketIo", "Log", "McDetail",
             "HttpAll", "ApiAll", "Api3xx", "Api4xx", "Api5xx", "ApiTimeout", "RpcServiceWhole", "Api"}
  BY <1>1, <1>2 DEF ResourceVariants, PlainVariants
<1>4. v \notin {"Api", "ApiTimeout", "ApiAll"} => output(kind) # "API"
  BY <1>2, <1>3 DEF output
<1>5. v = "ApiAll" => output(kind) = "API"
  BY <1>2 DEF output
<1>6. v \in {"Api", "ApiTimeout", "ApiAll"} <=> TypeLabel(kind) = "API"
  BY <1>2, <1>4, <1>5 DEF TypeLabel
<1>7. policy(kind) \in MetricPolicy
  BY DEF policy, MetricPolicy
<1> QED
  BY <1>1, <1>2, <1>6, <1>7

(* The output of a request of one kind. *)
LEMMA KindOutputFacts ==
  ASSUME NEW r, WellFormed(r), r.api # "register_profile"
  PROVE  /\ KindOutput(r) \in Range(OutputOrder) /\ IsOutput(KindOutput(r))
         /\ KindOutput(r).type = TypeLabel(r.kind)
<1>1. KindOutput(r) \in Range(OutputOrder)
  BY DEF WellFormed
<1>2. CASE r.api \in {"register", "scalar"}
  <2>1. KindOutput(r) = Output(TypeLabel(r.kind), r.name)
    BY <1>2 DEF KindOutput
  <2>2. KindOutput(r).type = TypeLabel(r.kind) /\ KindOutput(r).name = r.name
    BY <2>1 DEF Output
  <2> QED
    BY <1>1, <2>1, <2>2 DEF IsOutput
<1>3. CASE r.api \in {"register_resource", "scalar_resource"}
  <2>1. KindOutput(r) = [Output(TypeLabel(r.kind), r.labels.name) EXCEPT !.resource = <<r.labels>>]
    BY <1>3 DEF KindOutput
  <2>2. KindOutput(r) = [type |-> TypeLabel(r.kind), name |-> r.labels.name, resource |-> <<r.labels>>]
    BY <2>1 DEF Output
  <2>3. KindOutput(r).type = TypeLabel(r.kind)
    BY <2>2
  <2>4. Labels(r.labels)
    <3>1. r.labels = with_role(with_access(NewLabels(r.labels.name, r.labels.endpoint),
                                           r.labels.access), r.labels.role)
      BY <1>3 DEF WellFormed
    <3> QED
      BY <3>1 DEF Labels, with_role, with_access, NewLabels
  <2> QED
    BY <1>1, <2>2, <2>3, <2>4 DEF IsOutput
<1> QED
  BY <1>2, <1>3 DEF WellFormed, Apis

(* The parts of a source. *)
LEMMA SourceFacts ==
  ASSUME NEW view \in Range(OutputOrder), IsOutput(view), NEW k, IsKind(k),
         NEW tag \in {"Timing", "Counter", "Gauge"}, NEW m \in Metas,
         k[1] = "Full" => view.type # "API", k[1] = "ApiSummary" => view.type = "API",
         tag = "Gauge" <=> k[1] \in {"ConnGauge", "Gauge"}
  PROVE  /\ IsSource(Source(view, k, tag, m))
         /\ Source(view, k, tag, m).item[2] = m.item
         /\ Source(view, k, tag, m).item[1] = tag
<1> DEFINE s == Source(view, k, tag, m)
<1>1. s = [output |-> view, kind |-> k, item |-> <<tag, m.item>>]
  BY DEF Source
<1>2. s.output = view /\ s.kind = k /\ s.item = <<tag, m.item>>
  BY <1>1
<1>3. Range(ItemOrder) = {"Timing", "Counter", "Gauge"}
  BY DEF Range, ItemOrder
<1>4. m.item \in Nat
  BY MetasAssumption
<1> HIDE DEF s
<1>5. s.item[1] = tag /\ s.item[2] = m.item
  BY <1>2
<1>6. IsSource(s)
  BY <1>1, <1>2, <1>3, <1>4, <1>5 DEF IsSource
<1> QED
  BY <1>5, <1>6 DEF s

LEMMA KindsOfSources ==
  /\ \A k \in {"Full", "ApiSummary", "Timeout", "ConnCounter", "Count", "ConnGauge", "Gauge"} :
       IsKind(Kind(k)) /\ Kind(k)[1] = k
  /\ \A c \in Nat : IsKind(ApiCode(c)) /\ ApiCode(c)[1] = "Api"
<1>1. Range(KindOrder) = {"Full", "ApiSummary", "Api", "Timeout", "ConnCounter", "Count",
                          "ConnGauge", "Gauge"}
  BY DEF Range, KindOrder
<1> QED
  BY <1>1 DEF IsKind, Kind, ApiCode

(* A metric exports finitely many sources, all of its slot; they are gauges *)
(* when the metric is one.                                                  *)
LEMMA SourcesOfFacts ==
  ASSUME NEW m \in Metas
  PROVE  /\ IsFiniteSet(SourcesOf(m))
         /\ \A s \in SourcesOf(m) :
              /\ IsSource(s) /\ s.item[2] = m.item
              /\ s.item[1] = "Gauge" <=> PolicyOf(m.profile) = "Gauge"
<1> PICK r : r = m.profile
  OBVIOUS
<1>1. WellFormed(r)
  BY MetasAssumption
<1>2. CASE r.api = "register_profile"
  <2> DEFINE q == r.outputs \o r.aggregate
  <2>1. ~IsScalar(r) /\ PolicyOf(r) = r.policy /\ r.policy \in MetricPolicy
    BY <1>1, <1>2 DEF IsScalar, PolicyOf, WellFormed
  <2>2. SourcesOf(m) = {Source(view, FanoutKind(view), "Timing", m) : view \in Range(q)}
    BY <1>2, <2>1 DEF SourcesOf, IsTiming, TimingSources
  <2>3. r.outputs \in Seq(Range(OutputOrder)) /\ r.aggregate \in Seq(Range(OutputOrder))
        /\ \A view \in Range(q) : view = Output(view.type, view.name)
    BY <1>1, <1>2 DEF WellFormed
  <2>4. q \in Seq(Range(OutputOrder))
    BY <2>3
  <2> HIDE DEF q
  <2>5. \A view \in Range(q) : view \in Range(OutputOrder)
    <3>1. \A i \in DOMAIN q : q[i] \in Range(OutputOrder)
      BY <2>4
    <3> QED
      BY <3>1 DEF Range
  <2>6. ASSUME NEW view \in Range(q)
        PROVE  LET s == Source(view, FanoutKind(view), "Timing", m)
               IN  IsSource(s) /\ s.item[2] = m.item /\ s.item[1] = "Timing"
    <3>1. IsOutput(view) /\ view \in Range(OutputOrder)
      BY <2>3, <2>5 DEF IsOutput
    <3>2. \/ view.type = "API" /\ FanoutKind(view) = Kind("ApiSummary")
          \/ view.type # "API" /\ FanoutKind(view) = Kind("Full")
      BY DEF FanoutKind
    <3>3. IsKind(FanoutKind(view)) /\ FanoutKind(view)[1] = IF view.type = "API" THEN "ApiSummary" ELSE "Full"
      BY <3>2, KindsOfSources
    <3> QED
      BY <3>1, <3>3, SourceFacts
  <2>7. IsFiniteSet(SourcesOf(m))
    <3> DEFINE f == [i \in 1..Len(q) |-> Source(q[i], FanoutKind(q[i]), "Timing", m)]
    <3>1. Len(q) \in Nat /\ DOMAIN q = 1..Len(q)
      BY <2>4
    <3>2. SourcesOf(m) = {Source(q[i], FanoutKind(q[i]), "Timing", m) : i \in 1..Len(q)}
      BY <2>2, <3>1 DEF Range
    <3>3. f \in Surjection(1..Len(q), SourcesOf(m))
      BY <3>2 DEF Surjection
    <3>4. IsFiniteSet(1..Len(q))
      BY <3>1, FS_Interval
    <3> HIDE DEF f
    <3> QED
      BY <3>3, <3>4, FS_Surjection
  <2>8. \A s \in SourcesOf(m) : IsSource(s) /\ s.item[2] = m.item /\ s.item[1] = "Timing"
    BY <2>2, <2>6
  <2> QED
    BY <2>1, <2>7, <2>8 DEF MetricPolicy
<1>3. CASE r.api \in {"register", "register_resource"}
  <2>1. ~IsScalar(r) /\ PolicyOf(r) = policy(r.kind) /\ r.kind \in MetricType(100..599)
    BY <1>1, <1>3 DEF IsScalar, PolicyOf, WellFormed
  <2>2. PolicyOf(r) # "Gauge"
    BY <2>1, KindFacts DEF MetricPolicy
  <2>3. SourcesOf(m) = {Source(KindOutput(r), TimingKind(r.kind), "Timing", m)}
    BY <1>3, <2>1 DEF SourcesOf, IsTiming, TimingSources
  <2>4. /\ KindOutput(r) \in Range(OutputOrder) /\ IsOutput(KindOutput(r))
        /\ KindOutput(r).type = TypeLabel(r.kind)
    BY <1>1, <1>3, KindOutputFacts
  <2>5. /\ IsKind(TimingKind(r.kind))
        /\ TimingKind(r.kind)[1] \in {"Full", "ApiSummary", "Api", "Timeout"}
        /\ TimingKind(r.kind)[1] = "Full" => TypeLabel(r.kind) # "API"
        /\ TimingKind(r.kind)[1] = "ApiSummary" => TypeLabel(r.kind) = "API"
    <3>1. CASE r.kind.variant = "Api"
      BY <3>1, <2>1, KindFacts, KindsOfSources DEF TimingKind
    <3>2. CASE r.kind.variant = "ApiTimeout"
      BY <3>2, KindsOfSources DEF TimingKind
    <3>3. CASE r.kind.variant = "ApiAll"
      BY <3>3, <2>1, KindFacts, KindsOfSources DEF TimingKind
    <3>4. CASE r.kind.variant \notin {"Api", "ApiTimeout", "ApiAll"}
      <4>1. TimingKind(r.kind) = Kind("Full")
        BY <3>4 DEF TimingKind
      <4> QED
        BY <4>1, <3>4, <2>1, KindFacts, KindsOfSources
    <3> QED
      BY <3>1, <3>2, <3>3, <3>4
  <2>6. LET s == Source(KindOutput(r), TimingKind(r.kind), "Timing", m)
        IN  IsSource(s) /\ s.item[2] = m.item /\ s.item[1] = "Timing"
    BY <2>4, <2>5, SourceFacts
  <2>7. IsFiniteSet(SourcesOf(m))
    BY <2>3, FS_Singleton
  <2> QED
    BY <2>2, <2>3, <2>6, <2>7
<1>4. CASE r.api \in {"scalar", "scalar_resource"}
  <2>1. IsScalar(r) /\ PolicyOf(r) = r.mode /\ r.kind \in MetricType(100..599)
        /\ r.mode \in {"Counter", "Gauge"}
    BY <1>1, <1>4 DEF IsScalar, PolicyOf, WellFormed
  <2>2. SourcesOf(m) = {Source(KindOutput(r), ScalarKind(r.mode, r.kind), r.mode, m)}
    BY <2>1 DEF SourcesOf, IsTiming, ScalarSource
  <2>3. /\ KindOutput(r) \in Range(OutputOrder) /\ IsOutput(KindOutput(r))
        /\ KindOutput(r).type = TypeLabel(r.kind)
    BY <1>1, <1>4, KindOutputFacts
  <2>4. /\ IsKind(ScalarKind(r.mode, r.kind))
        /\ ScalarKind(r.mode, r.kind)[1] \notin {"Full", "ApiSummary"}
        /\ r.mode = "Gauge" <=> ScalarKind(r.mode, r.kind)[1] \in {"ConnGauge", "Gauge"}
    <3>1. CASE r.mode = "Gauge"
      <4>1. ScalarKind(r.mode, r.kind) \in {Kind("ConnGauge"), Kind("Gauge")}
        BY <3>1 DEF ScalarKind
      <4> QED
        BY <4>1, <3>1, KindsOfSources
    <3>2. CASE r.mode = "Counter"
      <4>1. r.kind.code \in Nat
        BY <2>1, KindFacts
      <4>2. ScalarKind(r.mode, r.kind) \in
              {ApiCode(r.kind.code), Kind("Timeout"), Kind("ConnCounter"), Kind("Count")}
        BY <3>2 DEF ScalarKind
      <4> QED
        BY <4>1, <4>2, <3>2, KindsOfSources
    <3> QED
      BY <2>1, <3>1, <3>2
  <2>5. LET s == Source(KindOutput(r), ScalarKind(r.mode, r.kind), r.mode, m)
        IN  IsSource(s) /\ s.item[2] = m.item /\ s.item[1] = r.mode
    BY <2>1, <2>3, <2>4, SourceFacts
  <2>6. IsFiniteSet(SourcesOf(m))
    BY <2>2, FS_Singleton
  <2> QED
    BY <2>1, <2>2, <2>5, <2>6
<1> QED
  BY <1>1, <1>2, <1>3, <1>4 DEF WellFormed, Apis

(* The sources of a set of metrics. *)
LEMMA AllSourcesFacts ==
  ASSUME NEW C \in SUBSET Metas
  PROVE  /\ IsFiniteSet(UNION {SourcesOf(m) : m \in C})
         /\ \A s \in UNION {SourcesOf(m) : m \in C} : IsSource(s)
<1> DEFINE Each == {SourcesOf(m) : m \in C}
           f == [m \in C |-> SourcesOf(m)]
<1>1. IsFiniteSet(C)
  BY FS_Subset, MetasAssumption
<1>2. f \in Surjection(C, Each)
  BY DEF Surjection
<1>3. \A T \in Each : IsFiniteSet(T)
  BY SourcesOfFacts
<1>4. \A T \in Each : \A s \in T : IsSource(s)
  BY SourcesOfFacts
<1> HIDE DEF f, Each
<1>5. IsFiniteSet(Each)
  BY <1>1, <1>2, FS_Surjection
<1>6. IsFiniteSet(UNION Each)
  BY <1>3, <1>5, FS_UNION
<1> QED
  BY <1>4, <1>6 DEF Each

----------------------------------------------------------------------------
(***************************************************************************)
(* The inductive invariant.                                                *)
(***************************************************************************)
Building == pc \in {"new", "timing", "scalars", "states"}

(* The captures of the two registries find what was registered when they    *)
(* began, and the sources are those of the captured metrics.                *)
CaptureInv ==
  /\ registered \subseteq Metas
  /\ atStart \subseteq registered /\ atReady \subseteq registered
  /\ pc \in {"new", "timing"} => captured = {}
  /\ pc = "scalars" =>
       /\ atStart \subseteq atReady /\ captured \subseteq atReady
       /\ \A m \in captured : IsTiming(m)
       /\ \A m \in atStart : IsTiming(m) => m \in captured
  /\ pc \notin {"new", "timing", "scalars"} => atStart \subseteq captured /\ captured \subseteq atReady

SourcesInv ==
  sources = IF pc \in {"new", "timing", "scalars"} THEN <<>>
            ELSE Sorted(UNION {SourcesOf(m) : m \in captured})

(* The rows are fields of the RPC state, each once. *)
RowsInv ==
  /\ states \in [Fields -> StateValues \cup {None}]
  /\ rows \in Seq(Fields \X StateValues)
  /\ \A i, j \in DOMAIN rows : rows[i][1] = rows[j][1] => i = j
  /\ Building => rows = <<>>

(* Only gauges are negative. *)
ValueInv ==
  /\ updates \in 0..MaxUpdates
  /\ value \in [Items -> [Counters -> Int]]
  /\ \A m \in Metas : PolicyOf(m.profile) # "Gauge" =>
       \A c \in Counters : value[m.item][c] \in 0..Top

(* The place of the reader: nothing is read before the capture has ended,   *)
(* a series is summed between two lines, and the end is final.              *)
PlaceInv ==
  /\ pc \in {"new", "timing", "scalars", "states", "idle", "fill", "sum"}
  /\ family \in 1..StateFamily /\ header \in BOOLEAN /\ eof \in BOOLEAN
  /\ source \in 1..(Len(sources) + 1) /\ first \in 1..(Len(sources) + 1)
  /\ state \in 1..(Len(rows) + 1)
  /\ Building => family = 1 /\ source = 1 /\ first = 1 /\ state = 1 /\ ~header /\ ~eof
  /\ state > 1 => family = StateFamily
  /\ eof => AtEnd /\ state = PastLast /\ pc \in {"idle", "fill"}
  /\ pc = "sum" => header /\ family < StateFamily

(* The lines so far, and the one in the buffer. *)
BufferInv ==
  /\ lines \in Seq(Range(lines))
  /\ buffer \in {0, Len(lines)}
  /\ offset \in 0..BufferLen
  /\ room \in Nat
  /\ out \in Seq(Nat \X Nat)
  /\ Building => lines = <<>>
  /\ pc = "sum" \/ eof => buffer = 0

(* Every line is of a family that the reader has reached, and the last one  *)
(* of the family it is at.                                                  *)
FamilyInv ==
  /\ \A i \in DOMAIN lines : lines[i].header \in BOOLEAN /\ lines[i].family \in 1..family
  /\ IF header THEN lines # <<>> /\ lines[Len(lines)].family = family
     ELSE IF family = 1 THEN lines = <<>>
     ELSE lines # <<>> /\ lines[Len(lines)].family = family - 1
  /\ Grouped

SameAs(i, j) == sources[i].output = sources[j].output /\ sources[i].kind = sources[j].kind

(* The sources before Base are done with, in the family. *)
Base == IF pc = "sum" THEN first ELSE source

(* A series is not left before all of it has been summed. *)
BoundaryInv ==
  /\ \A k \in 1..(Base - 1), j \in Base..Len(sources) :
       supports(sources[k].kind, family) /\ supports(sources[j].kind, family) => ~SameAs(k, j)
  /\ pc = "sum" =>
       /\ first <= source /\ first <= Len(sources)
       /\ supports(sources[first].kind, family)
       /\ \A k \in first..(source - 1) : SameAs(k, first)
       /\ acc \in IF IsGauge(family) THEN (-Limit - 1)..Limit ELSE 0..Top

(* The samples so far are those of the sources that are done with. *)
SampleInv ==
  \A i \in SampleLines : lines[i].family < StateFamily =>
    \E k \in 1..Len(sources) :
      /\ lines[i].family = family => k < Base
      /\ supports(sources[k].kind, lines[i].family)
      /\ lines[i].labels = LabelSet(sources[k])

DoneWith(k, f) ==
  supports(sources[k].kind, f) /\ (f < family \/ (f = family /\ k < Base))

CoverInv ==
  \A f \in 1..10 : \A k \in 1..Len(sources) : DoneWith(k, f) =>
    \E i \in SampleLines : lines[i].family = f /\ lines[i].labels = LabelSet(sources[k])

(* The same of the rows of the RPC state. *)
StateInv ==
  /\ \A i \in SampleLines : lines[i].family = StateFamily =>
       \E r \in 1..(state - 1) :
         rows[r][2] # NotNumeric /\ lines[i].labels = rows[r][1] /\ lines[i].value = rows[r][2]
  /\ \A r \in 1..(state - 1) : rows[r][2] # NotNumeric =>
       \E i \in SampleLines :
         lines[i].family = StateFamily /\ lines[i].labels = rows[r][1] /\ lines[i].value = rows[r][2]

ReaderInv ==
  /\ CaptureInv /\ SourcesInv /\ RowsInv /\ ValueInv
  /\ PlaceInv /\ BufferInv /\ FamilyInv /\ BytesInOrder
  /\ BoundaryInv /\ SampleInv /\ CoverInv /\ StateInv /\ SeriesOnce

(***************************************************************************)
(* Each part is kept by every step.  The steps of the application and the  *)
(* reads change little of it.                                              *)
(***************************************************************************)
AppStep ==
  \/ \E m \in Metas : Register(m)
  \/ \E u \in Updates : Update(u)
  \/ \E x \in Fields, v \in StateValues : RecordState(x, v)

LEMMA AppUnchanged ==
  ASSUME AppStep
  PROVE  UNCHANGED <<scrapeVars, placeVars, acc, first, readVars, pc>>
BY DEF AppStep, Register, Update, RecordState

(* The steps of next_sample, of read and of the constructor. *)
LEMMA StepCases ==
  ASSUME [Next]_vars
  PROVE  \/ AppStep \/ BeginCapture \/ CaptureTiming \/ CaptureScalars \/ CaptureStates
         \/ (\E n \in Sizes : Read(n)) \/ Copy \/ Header \/ BeginSeries \/ Sum \/ EndSeries
         \/ NextFamily \/ NextState \/ EndOfFile \/ UNCHANGED vars
BY DEF Next, Application, AppStep, Construct, NextSample

(* Reading leaves the registry and the capture alone. *)
ReadStep ==
  \/ \E n \in Sizes : Read(n)
  \/ Copy \/ Header \/ BeginSeries \/ Sum \/ EndSeries \/ NextFamily \/ NextState \/ EndOfFile

LEMMA ReadUnchanged ==
  ASSUME ReadStep
  PROVE  /\ UNCHANGED <<registered, value, states, updates, held>>
         /\ UNCHANGED <<captured, sources, rows, atStart, atReady>>
         /\ pc \in {"idle", "fill", "sum"} /\ pc' \in {"idle", "fill", "sum"}
<1>1. ASSUME NEW n \in Sizes, Read(n)
      PROVE  UNCHANGED <<appVars, scrapeVars>> /\ pc = "idle" /\ pc' \in {"idle", "fill"}
  BY <1>1 DEF Read
<1>2. CASE Copy
  BY <1>2 DEF Copy, appVars, scrapeVars
<1>3. CASE Header
  BY <1>3 DEF Header, NeedsSample, appVars, scrapeVars
<1>4. CASE BeginSeries
  BY <1>4 DEF BeginSeries, NeedsSample, appVars, scrapeVars
<1>5. CASE Sum
  BY <1>5 DEF Sum, appVars, scrapeVars
<1>6. CASE EndSeries
  BY <1>6 DEF EndSeries, appVars, scrapeVars
<1>7. CASE NextFamily
  BY <1>7 DEF NextFamily, NeedsSample, appVars, scrapeVars
<1>8. CASE NextState
  BY <1>8 DEF NextState, NeedsSample, appVars, scrapeVars
<1>9. CASE EndOfFile
  BY <1>9 DEF EndOfFile, NeedsSample, appVars, scrapeVars
<1> QED
  BY <1>1, <1>2, <1>3, <1>4, <1>5, <1>6, <1>7, <1>8, <1>9 DEF ReadStep, appVars, scrapeVars

LEMMA CaptureInvStep ==
  ASSUME CaptureInv, [Next]_vars
  PROVE  CaptureInv'
<1> USE DEF CaptureInv
<1>1. CASE AppStep
  <2>1. registered \subseteq registered' /\ registered' \subseteq Metas
    BY <1>1 DEF AppStep, Register, Update, RecordState
  <2>2. UNCHANGED <<captured, atStart, atReady, pc>>
    BY <1>1, AppUnchanged DEF scrapeVars
  <2> QED
    BY <2>1, <2>2
<1>2. CASE BeginCapture
  BY <1>2 DEF BeginCapture, appVars
<1>3. CASE CaptureTiming
  <2>1. /\ pc = "timing" /\ pc' = "scalars" /\ atReady' = registered
        /\ UNCHANGED <<registered, atStart>>
    BY <1>3 DEF CaptureTiming, appVars
  <2>2. PICK S \in SUBSET {m \in registered : IsTiming(m)} :
          {m \in atStart : IsTiming(m)} \subseteq S /\ captured' = S
    BY <1>3 DEF CaptureTiming
  <2> QED
    BY <2>1, <2>2
<1>4. CASE CaptureScalars
  <2>1. /\ pc = "scalars" /\ pc' = "states" /\ atReady' = registered
        /\ UNCHANGED <<registered, atStart>>
    BY <1>4 DEF CaptureScalars, appVars
  <2>2. PICK S \in SUBSET {m \in registered : ~IsTiming(m)} :
          {m \in atReady : ~IsTiming(m)} \subseteq S /\ captured' = captured \cup S
    BY <1>4 DEF CaptureScalars
  <2>3. atStart \subseteq captured'
    BY <2>1, <2>2
  <2>4. captured' \subseteq atReady'
    BY <2>1, <2>2
  <2> QED
    BY <2>1, <2>3, <2>4
<1>5. CASE CaptureStates
  BY <1>5 DEF CaptureStates, appVars
<1>6. CASE ReadStep
  BY <1>6, ReadUnchanged
<1>7. CASE UNCHANGED vars
  BY <1>7 DEF vars, appVars, scrapeVars
<1> QED
  BY <1>1, <1>2, <1>3, <1>4, <1>5, <1>6, <1>7, StepCases DEF ReadStep

LEMMA SourcesInvStep ==
  ASSUME CaptureInv, SourcesInv, [Next]_vars
  PROVE  SourcesInv'
<1> USE DEF SourcesInv
<1>1. CASE AppStep
  BY <1>1, AppUnchanged DEF scrapeVars
<1>2. CASE BeginCapture
  BY <1>2 DEF BeginCapture
<1>3. CASE CaptureTiming
  BY <1>3 DEF CaptureTiming
<1>4. CASE CaptureScalars
  <2>1. PICK S \in SUBSET {m \in registered : ~IsTiming(m)} :
          /\ captured' = captured \cup S
          /\ sources' = Sorted((UNION {TimingSources(m) : m \in captured})
                               \cup {ScalarSource(m) : m \in S})
    BY <1>4 DEF CaptureScalars
  <2>2. \A m \in captured : SourcesOf(m) = TimingSources(m)
    BY <1>4 DEF CaptureScalars, CaptureInv, SourcesOf
  <2>3. \A m \in S : SourcesOf(m) = {ScalarSource(m)}
    BY DEF SourcesOf
  <2>4. (UNION {TimingSources(m) : m \in captured}) \cup {ScalarSource(m) : m \in S}
          = UNION {SourcesOf(m) : m \in captured \cup S}
    <3> DEFINE A == (UNION {TimingSources(m) : m \in captured}) \cup {ScalarSource(m) : m \in S}
               B == UNION {SourcesOf(m) : m \in captured \cup S}
    <3>1. ASSUME NEW x \in A PROVE x \in B
      <4>1. CASE \E m \in captured : x \in TimingSources(m)
        <5>1. PICK m \in captured : x \in SourcesOf(m)
          BY <4>1, <2>2
        <5> QED
          BY <5>1
      <4>2. CASE \E m \in S : x = ScalarSource(m)
        <5>1. PICK m \in S : x \in SourcesOf(m)
          BY <4>2, <2>3
        <5> QED
          BY <5>1
      <4>3. x \in UNION {TimingSources(m) : m \in captured} \/ x \in {ScalarSource(m) : m \in S}
        BY Zenon
      <4> HIDE DEF A, B
      <4>4. CASE x \in UNION {TimingSources(m) : m \in captured}
        BY <4>1, <4>4
      <4>5. CASE x \in {ScalarSource(m) : m \in S}
        BY <4>2, <4>5
      <4> QED
        BY <4>3, <4>4, <4>5
    <3>2. ASSUME NEW x \in B PROVE x \in A
      <4>1. PICK m \in captured \cup S : x \in SourcesOf(m)
        OBVIOUS
      <4>2. CASE m \in captured
        <5>1. x \in TimingSources(m)
          BY <4>1, <4>2, <2>2
        <5> QED
          BY <5>1, <4>2
      <4>3. CASE m \in S
        <5>1. x = ScalarSource(m)
          BY <4>1, <4>3, <2>3
        <5>2. x \in {ScalarSource(n) : n \in S}
          BY ONLY <5>1, <4>3
        <5> QED
          BY <5>2, Zenon
      <4> QED
        BY <4>2, <4>3
    <3> HIDE DEF A, B
    <3>3. A = B
      BY <3>1, <3>2
    <3> QED
      BY <3>3 DEF A, B
  <2>5. pc' = "states"
    BY <1>4 DEF CaptureScalars
  <2> QED
    BY <2>1, <2>4, <2>5
<1>5. CASE CaptureStates
  BY <1>5 DEF CaptureStates
<1>6. CASE ReadStep
  BY <1>6, ReadUnchanged
<1>7. CASE UNCHANGED vars
  BY <1>7 DEF vars, scrapeVars
<1> QED
  BY <1>1, <1>2, <1>3, <1>4, <1>5, <1>6, <1>7, StepCases DEF ReadStep

LEMMA ValueInvStep ==
  ASSUME CaptureInv, ValueInv, [Next]_vars
  PROVE  ValueInv'
<1> USE DEF ValueInv
<1>1. ASSUME NEW u \in Updates, Update(u) PROVE ValueInv'
  <2> DEFINE new == IF \E m \in registered : m.item = u.item /\ PolicyOf(m.profile) = "Gauge"
                      THEN u.amount
                      ELSE (value[u.item][u.counter] + u.amount) % (Top + 1)
  <2>1. /\ updates < MaxUpdates /\ updates' = updates + 1
        /\ value' = [value EXCEPT ![u.item][u.counter] = new]
        /\ \E m \in registered : m.item = u.item
    BY <1>1 DEF Update
  <2>2. u.counter \in Counters /\ u.amount \in Int /\ u.item \in Items
    BY <2>1, ValuesAssumption DEF CaptureInv, Items
  <2>3. value[u.item] \in [Counters -> Int] /\ value[u.item][u.counter] \in Int
    BY <2>2
  <2>4. new \in Int
    BY <2>2, <2>3, ReaderAssumption
  <2>5. ASSUME NEW m \in Metas, PolicyOf(m.profile) # "Gauge", m.item = u.item
        PROVE  new \in 0..Top
    <3>1. ~\E n \in registered : n.item = u.item /\ PolicyOf(n.profile) = "Gauge"
      BY <2>5, MetasAssumption DEF CaptureInv
    <3>2. new = (value[u.item][u.counter] + u.amount) % (Top + 1)
      BY <3>1
    <3>3. value[u.item][u.counter] + u.amount \in Int /\ Top + 1 \in Nat /\ Top + 1 > 0
      BY <2>2, <2>3, ReaderAssumption
    <3> QED
      BY <3>2, <3>3, ReaderAssumption
  <2> HIDE DEF new
  <2>6. value' \in [Items -> [Counters -> Int]]
    BY <2>1, <2>2, <2>4
  <2>7. ASSUME NEW m \in Metas, PolicyOf(m.profile) # "Gauge", NEW c \in Counters
        PROVE  value'[m.item][c] \in 0..Top
    <3>1. m.item \in Items
      BY DEF Items
    <3>2. CASE m.item = u.item /\ c = u.counter
      BY <3>1, <3>2, <2>1, <2>2, <2>5, <2>7
    <3>3. CASE ~(m.item = u.item /\ c = u.counter)
      <4>1. value'[m.item][c] = value[m.item][c]
        BY <3>1, <3>3, <2>1, <2>2
      <4> QED
        BY <4>1, <2>7
    <3> QED
      BY <3>2, <3>3
  <2>8. updates' \in 0..MaxUpdates
    BY <2>1, ReaderAssumption
  <2> QED
    BY <2>6, <2>7, <2>8
<1>2. ASSUME NEW x \in Fields, NEW v \in StateValues, RecordState(x, v) PROVE ValueInv'
  <2>1. updates' \in 0..MaxUpdates /\ value' = value
    BY <1>2, ReaderAssumption DEF RecordState
  <2> QED
    BY <2>1
<1>3. ASSUME UNCHANGED <<value, updates>> PROVE ValueInv'
  BY <1>3
<1>4. ASSUME NEW m \in Metas, Register(m) PROVE ValueInv'
  BY <1>3, <1>4 DEF Register
<1>5. CASE BeginCapture \/ CaptureTiming \/ CaptureScalars \/ CaptureStates \/ UNCHANGED vars
  BY <1>3, <1>5 DEF BeginCapture, CaptureTiming, CaptureScalars, CaptureStates, vars, appVars
<1>6. CASE ReadStep
  BY <1>3, <1>6, ReadUnchanged
<1> QED
  BY <1>1, <1>2, <1>4, <1>5, <1>6, StepCases DEF ReadStep, AppStep

LEMMA RowsInvStep ==
  ASSUME RowsInv, [Next]_vars
  PROVE  RowsInv'
<1> USE DEF RowsInv
<1>1. ASSUME UNCHANGED <<states, rows>>, Building' => Building PROVE RowsInv'
  BY <1>1
<1>2. ASSUME NEW m \in Metas, Register(m) PROVE RowsInv'
  BY <1>1, <1>2 DEF Register, scrapeVars, Building
<1>3. ASSUME NEW u \in Updates, Update(u) PROVE RowsInv'
  BY <1>1, <1>3 DEF Update, scrapeVars, Building
<1>4. ASSUME NEW x \in Fields, NEW v \in StateValues, RecordState(x, v) PROVE RowsInv'
  <2>1. states' = [states EXCEPT ![x] = v] /\ UNCHANGED <<rows, pc>>
    BY <1>4 DEF RecordState, scrapeVars
  <2> QED
    BY <2>1 DEF Building
<1>5. CASE BeginCapture \/ CaptureTiming \/ CaptureScalars
  BY <1>1, <1>5 DEF BeginCapture, CaptureTiming, CaptureScalars, appVars, Building
<1>6. CASE CaptureStates
  <2> DEFINE n == Cardinality(Recorded)
             at(i) == StateOrder[Nth(Recorded, i)]
  <2>1. Recorded \in SUBSET DOMAIN StateOrder /\ DOMAIN StateOrder = 1..Len(StateOrder)
        /\ Len(StateOrder) \in Nat
    BY ValuesAssumption DEF Recorded
  <2>2. IsFiniteSet(Recorded) /\ Recorded \in SUBSET Nat
    <3>1. IsFiniteSet(1..Len(StateOrder))
      BY <2>1, FS_Interval
    <3>2. IsFiniteSet(Recorded)
      BY <2>1, <3>1, FS_Subset
    <3> QED
      BY <2>1, <3>2
  <2>3. /\ n \in Nat
        /\ \A i \in 1..n : Nth(Recorded, i) \in Recorded
        /\ \A i, j \in 1..n : Nth(Recorded, i) = Nth(Recorded, j) => i = j
    BY <2>2, NthFacts
  <2>4. ASSUME NEW i \in 1..n PROVE at(i) \in Fields /\ states[at(i)] \in StateValues
    <3>1. Nth(Recorded, i) \in DOMAIN StateOrder /\ states[at(i)] # None
      BY <2>3 DEF Recorded
    <3>2. at(i) \in Fields
      BY <3>1 DEF Fields, Range
    <3> QED
      BY <3>1, <3>2
  <2>5. \A i, j \in 1..n : at(i) = at(j) => i = j
    <3> TAKE i, j \in 1..n
    <3>1. Nth(Recorded, i) \in DOMAIN StateOrder /\ Nth(Recorded, j) \in DOMAIN StateOrder
      BY <2>1, <2>3
    <3>2. at(i) = at(j) => Nth(Recorded, i) = Nth(Recorded, j)
      BY <3>1, ValuesAssumption DEF IsInjective
    <3> QED
      BY <3>2, <2>3
  <2>6. rows' = [i \in 1..n |-> <<at(i), states[at(i)]>>] /\ pc' = "idle" /\ states' = states
    BY <1>6 DEF CaptureStates, appVars
  <2> HIDE DEF n, at
  <2>7. \A i \in 1..n : rows'[i] = <<at(i), states[at(i)]>> /\ rows'[i][1] = at(i)
    BY <2>6
  <2>8. DOMAIN rows' = 1..n
    BY <2>6
  <2>9. rows' \in Seq(Fields \X StateValues)
    <3>1. rows' \in [1..n -> Fields \X StateValues]
      BY <2>4, <2>6
    <3> QED
      BY <3>1, <2>3
  <2>10. \A i, j \in DOMAIN rows' : rows'[i][1] = rows'[j][1] => i = j
    BY <2>5, <2>7, <2>8
  <2> QED
    BY <2>6, <2>9, <2>10 DEF Building
<1>7. CASE ReadStep
  BY <1>1, <1>7, ReadUnchanged DEF Building
<1>8. CASE UNCHANGED vars
  BY <1>1, <1>8 DEF vars, appVars, scrapeVars, Building
<1> QED
  BY <1>2, <1>3, <1>4, <1>5, <1>6, <1>7, <1>8, StepCases DEF ReadStep, AppStep

(* The sources are in order, and they are those of the captured metrics. *)
LEMMA SourcesFacts ==
  ASSUME CaptureInv, SourcesInv
  PROVE  /\ Len(sources) \in Nat
         /\ \A i \in 1..Len(sources) :
              IsSource(sources[i]) /\ \E m \in captured : sources[i] \in SourcesOf(m)
         /\ \A i, j \in 1..Len(sources) : i < j => Less(sources[i], sources[j])
         /\ pc \notin {"new", "timing", "scalars"} =>
              \A m \in captured : \A s \in SourcesOf(m) :
                \E i \in 1..Len(sources) : sources[i] = s
<1>1. CASE pc \in {"new", "timing", "scalars"}
  <2>1. sources = <<>>
    BY <1>1 DEF SourcesInv
  <2>2. Len(sources) = 0
    BY <2>1
  <2> QED
    BY <1>1, <2>2
<1>2. CASE pc \notin {"new", "timing", "scalars"}
  <2> DEFINE S == UNION {SourcesOf(m) : m \in captured}
  <2>1. sources = Sorted(S)
    BY <1>2 DEF SourcesInv
  <2>2. captured \in SUBSET Metas
    BY <1>2 DEF CaptureInv
  <2>3. IsFiniteSet(S) /\ \A s \in S : IsSource(s)
    BY <2>2, AllSourcesFacts
  <2>4. \A s : s \in S <=> \E m \in captured : s \in SourcesOf(m)
    OBVIOUS
  <2> HIDE DEF S
  <2>5. /\ Cardinality(S) \in Nat
        /\ sources \in [1..Cardinality(S) -> S]
        /\ \A s \in S : \E i \in DOMAIN sources : sources[i] = s
        /\ \A i, j \in DOMAIN sources : i < j => Less(sources[i], sources[j])
    BY <2>1, <2>3, SortedFacts
  <2>6. sources \in Seq(S) /\ Len(sources) = Cardinality(S) /\ DOMAIN sources = 1..Len(sources)
    BY <2>5
  <2>7. \A i \in 1..Len(sources) : sources[i] \in S
    BY <2>6
  <2>8. \A i \in 1..Len(sources) :
          IsSource(sources[i]) /\ \E m \in captured : sources[i] \in SourcesOf(m)
    BY <2>3, <2>4, <2>7
  <2>9. \A m \in captured : \A s \in SourcesOf(m) : \E i \in 1..Len(sources) : sources[i] = s
    BY <2>4, <2>5, <2>6
  <2> QED
    BY <2>5, <2>6, <2>8, <2>9
<1> QED
  BY <1>1, <1>2

(* Eleven families, and no line is longer than its buffer. *)
LEMMA StateFamilyIs == StateFamily = 11
BY DEF StateFamily, FAMILIES

LEMMA SupportedFacts ==
  ASSUME Len(sources) \in Nat, source \in 1..(Len(sources) + 1), Supported # {}
  PROVE  /\ LeastOf(Supported) \in source..Len(sources)
         /\ supports(sources[LeastOf(Supported)].kind, family)
         /\ \A i \in source..(LeastOf(Supported) - 1) : ~supports(sources[i].kind, family)
<1>1. Supported \in SUBSET Nat
  BY DEF Supported
<1>2. LeastOf(Supported) \in Supported /\ \A j \in Supported : LeastOf(Supported) <= j
  BY <1>1, LeastOfFacts
<1> PICK l : l = LeastOf(Supported)
  OBVIOUS
<1>3. l \in source..Len(sources) /\ supports(sources[l].kind, family)
  BY <1>2 DEF Supported
<1>4. ASSUME NEW i \in source..(l - 1) PROVE ~supports(sources[i].kind, family)
  <2>1. i \in source..Len(sources) /\ ~(l <= i)
    BY <1>3
  <2>2. i \notin Supported
    BY <2>1, <1>2
  <2> QED
    BY <2>1, <2>2 DEF Supported
<1> QED
  BY <1>3, <1>4

LEMMA NumericFacts ==
  ASSUME RowsInv, state \in 1..(Len(rows) + 1), Numeric # {}
  PROVE  /\ LeastOf(Numeric) \in state..Len(rows)
         /\ rows[LeastOf(Numeric)][2] # NotNumeric
         /\ \A i \in state..(LeastOf(Numeric) - 1) : rows[i][2] = NotNumeric
<1>0. Len(rows) \in Nat
  BY DEF RowsInv
<1>1. Numeric \in SUBSET Nat
  BY <1>0 DEF Numeric
<1>2. LeastOf(Numeric) \in Numeric /\ \A j \in Numeric : LeastOf(Numeric) <= j
  BY <1>1, LeastOfFacts
<1> PICK l : l = LeastOf(Numeric)
  OBVIOUS
<1>3. l \in state..Len(rows) /\ rows[l][2] # NotNumeric
  BY <1>2 DEF Numeric
<1>4. ASSUME NEW i \in state..(l - 1) PROVE rows[i][2] = NotNumeric
  <2>1. i \in state..Len(rows) /\ ~(l <= i)
    BY <1>0, <1>3
  <2>2. i \notin Numeric
    BY <2>1, <1>2
  <2> QED
    BY <2>1, <2>2 DEF Numeric
<1> QED
  BY <1>3, <1>4

LEMMA PlaceInvStep ==
  ASSUME CaptureInv, SourcesInv, RowsInv, PlaceInv, [Next]_vars
  PROVE  PlaceInv'
<1> USE StateFamilyIs
<1>0. Len(sources) \in Nat /\ Len(rows) \in Nat
  BY SourcesFacts DEF RowsInv
<1>1. ASSUME UNCHANGED <<family, header, eof, source, first, state, sources, rows, pc>>
      PROVE  PlaceInv'
  BY <1>1 DEF PlaceInv, Building, AtEnd, PastLast, Numeric
<1>2. CASE AppStep \/ UNCHANGED vars
  BY <1>1, <1>2, AppUnchanged DEF vars, scrapeVars, placeVars, readVars
<1>3. CASE BeginCapture
  BY <1>3 DEF BeginCapture, placeVars, readVars, PlaceInv, Building, AtEnd, PastLast, Numeric
<1>4. CASE CaptureTiming
  BY <1>4 DEF CaptureTiming, placeVars, readVars, PlaceInv, Building, AtEnd, PastLast, Numeric
<1>5. CASE CaptureScalars
  <2>1. /\ pc = "scalars" /\ pc' = "states"
        /\ UNCHANGED <<family, header, eof, source, first, state, rows>>
    BY <1>5 DEF CaptureScalars, placeVars, readVars
  <2>2. Len(sources') \in Nat
    <3>1. CaptureInv' /\ SourcesInv'
      BY CaptureInvStep, SourcesInvStep
    <3>2. PICK C : C = captured'
      OBVIOUS
    <3>3. C \in SUBSET Metas /\ sources' = Sorted(UNION {SourcesOf(m) : m \in C})
      BY <3>1, <3>2, <2>1 DEF CaptureInv, SourcesInv
    <3>4. PICK S : S = UNION {SourcesOf(m) : m \in C}
      OBVIOUS
    <3>5. PICK q : q = Sorted(S)
      OBVIOUS
    <3>6. IsFiniteSet(S) /\ \A s \in S : IsSource(s)
      BY <3>3, <3>4, AllSourcesFacts
    <3>7. Cardinality(S) \in Nat /\ q \in [1..Cardinality(S) -> S]
      BY <3>5, <3>6, SortedFacts
    <3>8. Len(q) \in Nat
      BY <3>7
    <3> QED
      BY <3>3, <3>4, <3>5, <3>8
  <2>3. family = 1 /\ source = 1 /\ first = 1 /\ state = 1 /\ ~header /\ ~eof
    BY <2>1 DEF PlaceInv, Building
  <2> QED
    BY <2>1, <2>2, <2>3, <1>0 DEF PlaceInv, Building
<1>6. CASE CaptureStates
  <2>1. /\ pc = "states" /\ pc' = "idle"
        /\ UNCHANGED <<family, header, eof, source, first, state, sources>>
    BY <1>6 DEF CaptureStates, placeVars, readVars
  <2>2. Len(rows') \in Nat
    BY RowsInvStep DEF RowsInv
  <2>3. family = 1 /\ source = 1 /\ first = 1 /\ state = 1 /\ ~header /\ ~eof
    BY <2>1 DEF PlaceInv, Building
  <2> QED
    BY <2>1, <2>2, <2>3, <1>0 DEF PlaceInv, Building
<1>7. ASSUME ReadStep,
             UNCHANGED <<family, header, eof, source, first, state>>,
             pc \in {"idle", "fill"}, pc' \in {"idle", "fill"}
      PROVE  PlaceInv'
  <2>1. UNCHANGED <<sources, rows>>
    BY <1>7, ReadUnchanged
  <2> QED
    BY <1>7, <2>1 DEF PlaceInv, Building, AtEnd, PastLast, Numeric
<1>8. ASSUME NEW n \in Sizes, Read(n) PROVE PlaceInv'
  BY <1>7, <1>8 DEF Read, ReadStep, placeVars
<1>9. CASE Copy
  BY <1>7, <1>9 DEF Copy, ReadStep, placeVars
<1>10. CASE Header
  <2>1. /\ pc = "fill" /\ ~header /\ header' = TRUE
        /\ UNCHANGED <<family, eof, source, first, state, sources, rows, pc>>
    BY <1>10 DEF Header, NeedsSample, scrapeVars
  <2>2. ~eof
    BY <2>1 DEF PlaceInv, AtEnd
  <2> QED
    BY <2>1, <2>2 DEF PlaceInv, Building
<1>11. CASE BeginSeries
  <2>1. /\ pc = "fill" /\ header /\ family < StateFamily /\ Supported # {}
        /\ source' = LeastOf(Supported) /\ first' = LeastOf(Supported) /\ pc' = "sum"
        /\ UNCHANGED <<family, header, eof, state, sources, rows>>
    BY <1>11 DEF BeginSeries, NeedsSample, scrapeVars
  <2>2. ~eof /\ source \in 1..(Len(sources) + 1)
    BY <2>1 DEF PlaceInv, AtEnd
  <2>3. LeastOf(Supported) \in source..Len(sources)
    BY <2>1, <2>2, <1>0, SupportedFacts
  <2>4. LeastOf(Supported) \in 1..(Len(sources) + 1)
    BY <2>2, <2>3, <1>0
  <2> QED
    BY <2>1, <2>2, <2>4 DEF PlaceInv, Building
<1>12. CASE Sum
  <2>1. /\ pc = "sum" /\ source <= Len(sources) /\ source' = source + 1
        /\ UNCHANGED <<family, header, eof, first, state, sources, rows, pc>>
    BY <1>12 DEF Sum, SameSeries, scrapeVars, readVars
  <2>2. ~eof /\ source \in 1..(Len(sources) + 1)
    BY <2>1 DEF PlaceInv
  <2>3. source' \in 1..(Len(sources) + 1)
    BY <2>1, <2>2, <1>0
  <2> QED
    BY <2>1, <2>2, <2>3 DEF PlaceInv, Building
<1>13. CASE EndSeries
  <2>1. /\ pc = "sum" /\ pc' = "fill"
        /\ UNCHANGED <<family, header, eof, source, first, state, sources, rows>>
    BY <1>13 DEF EndSeries, scrapeVars, placeVars
  <2>2. ~eof
    BY <2>1 DEF PlaceInv
  <2> QED
    BY <2>1, <2>2 DEF PlaceInv, Building
<1>14. CASE NextFamily
  <2>1. /\ pc = "fill" /\ header /\ family < StateFamily
        /\ family' = family + 1 /\ source' = 1 /\ header' = FALSE
        /\ UNCHANGED <<eof, first, state, sources, rows, pc>>
    BY <1>14 DEF NextFamily, NeedsSample, scrapeVars
  <2>2. ~eof /\ ~(state > 1) /\ family \in 1..11
    BY <2>1 DEF PlaceInv, AtEnd
  <2>3. family' \in 1..StateFamily
    BY <2>1, <2>2
  <2>4. source' \in 1..(Len(sources) + 1)
    BY <2>1, <1>0
  <2> QED
    BY <2>1, <2>2, <2>3, <2>4 DEF PlaceInv, Building
<1>15. CASE NextState
  <2>1. /\ pc = "fill" /\ header /\ family = StateFamily /\ Numeric # {}
        /\ state' = LeastOf(Numeric) + 1
        /\ UNCHANGED <<family, header, eof, source, first, sources, rows, pc>>
    BY <1>15 DEF NextState, NeedsSample, scrapeVars
  <2>2. ~eof /\ state \in 1..(Len(rows) + 1)
    BY <2>1 DEF PlaceInv, AtEnd
  <2>3. LeastOf(Numeric) \in state..Len(rows)
    BY <2>1, <2>2, NumericFacts
  <2>4. state' \in 1..(Len(rows) + 1)
    BY <2>1, <2>2, <2>3, <1>0
  <2> QED
    BY <2>1, <2>2, <2>4 DEF PlaceInv, Building
<1>16. CASE EndOfFile
  <2>1. /\ pc = "fill" /\ AtEnd /\ state' = PastLast /\ eof' = TRUE /\ pc' = "idle"
        /\ UNCHANGED <<family, header, source, first, sources, rows>>
    BY <1>16 DEF EndOfFile, NeedsSample, scrapeVars
  <2>2. state' = Len(rows) + 1
    BY <2>1 DEF PastLast
  <2>3. Numeric' = {}
    BY <2>1, <2>2, <1>0 DEF Numeric
  <2>4. AtEnd' /\ state' = PastLast' /\ state' \in 1..(Len(rows) + 1)
    BY <2>1, <2>2, <2>3, <1>0 DEF AtEnd, PastLast
  <2>5. family = StateFamily
    BY <2>1 DEF AtEnd
  <2> QED
    BY <2>1, <2>4, <2>5 DEF PlaceInv, Building
<1> QED
  BY <1>2, <1>3, <1>4, <1>5, <1>6, <1>8, <1>9, <1>10, <1>11, <1>12, <1>13, <1>14, <1>15, <1>16,
     StepCases

(* A line is added to those before it. *)
LEMMA AppendLine ==
  ASSUME lines \in Seq(Range(lines)), NEW x, lines' = Append(lines, x)
  PROVE  /\ lines' \in Seq(Range(lines')) /\ Len(lines') = Len(lines) + 1 /\ Len(lines) \in Nat
         /\ DOMAIN lines = 1..Len(lines) /\ DOMAIN lines' = 1..(Len(lines) + 1)
         /\ \A i \in DOMAIN lines : i \in DOMAIN lines' /\ lines'[i] = lines[i]
         /\ lines'[Len(lines) + 1] = x
         /\ lines' # <<>>
<1> PICK R : R = Range(lines)
  OBVIOUS
<1> PICK ls, ls1 : ls = lines /\ ls1 = lines'
  OBVIOUS
<1>1. ls \in Seq(R) /\ ls1 = Append(ls, x)
  OBVIOUS
<1>2. ls1 \in Seq(R \cup {x}) /\ Len(ls1) = Len(ls) + 1 /\ Len(ls) \in Nat
  BY <1>1
<1>3. DOMAIN ls = 1..Len(ls) /\ DOMAIN ls1 = 1..(Len(ls) + 1)
  BY <1>1, <1>2
<1>4. \A i \in DOMAIN ls : i \in DOMAIN ls1 /\ ls1[i] = ls[i]
  BY <1>1, <1>3
<1>5. ls1[Len(ls) + 1] = x
  BY <1>1
<1>6. R = {ls[i] : i \in 1..Len(ls)} /\ Range(ls1) = {ls1[i] : i \in 1..(Len(ls) + 1)}
  BY <1>3 DEF Range
<1>7. Range(ls1) = R \cup {x}
  <2>1. ASSUME NEW y \in Range(ls1) PROVE y \in R \cup {x}
    <3>1. PICK i \in 1..(Len(ls) + 1) : y = ls1[i]
      BY <1>6
    <3>2. CASE i = Len(ls) + 1
      BY <3>1, <3>2, <1>5
    <3>3. CASE i # Len(ls) + 1
      <4>1. i \in 1..Len(ls)
        BY <3>3, <1>2
      <4> QED
        BY <4>1, <3>1, <1>3, <1>4, <1>6
    <3> QED
      BY <3>2, <3>3
  <2>2. R \subseteq Range(ls1)
    <3> SUFFICES ASSUME NEW i \in 1..Len(ls) PROVE ls[i] \in Range(ls1)
      BY <1>6
    <3>1. i \in 1..(Len(ls) + 1) /\ ls1[i] = ls[i]
      BY <1>2, <1>3, <1>4
    <3> QED
      BY <3>1, <1>6
  <2>3. x \in Range(ls1)
    <3>1. Len(ls) + 1 \in 1..(Len(ls) + 1)
      BY <1>2
    <3> QED
      BY <3>1, <1>5, <1>6
  <2> QED
    BY <2>1, <2>2, <2>3
<1>8. ls1 \in Seq(Range(ls1))
  BY <1>2, <1>7
<1>9. ls1 # <<>>
  BY <1>2
<1> QED
  BY ONLY <1>2, <1>3, <1>4, <1>5, <1>8, <1>9, ls = lines, ls1 = lines'

(* The quotient and the remainder of n * a + b. *)
LEMMA DivMod ==
  ASSUME NEW n \in Nat \ {0}, NEW a \in Nat, NEW b \in 0..(n - 1), NEW x \in Nat, x = n * a + b
  PROVE  x \div n = a /\ x % n = b
<1>1. PICK q, r : q = x \div n /\ r = x % n
  OBVIOUS
<1>2. q \in Int /\ r \in 0..(n - 1) /\ x = n * q + r
  BY <1>1
<1>3. n * (q - a) = b - r
  BY <1>2
<1>4. ~(q > a)
  <2> SUFFICES ASSUME q - a >= 1 PROVE FALSE
    BY <1>2
  <2>1. n * (q - a) >= n * 1
    BY <1>2
  <2> QED
    BY <2>1, <1>2, <1>3
<1>5. ~(q < a)
  <2> SUFFICES ASSUME a - q >= 1 PROVE FALSE
    BY <1>2
  <2>1. n * (a - q) >= n * 1
    BY <1>2
  <2>2. n * (a - q) = r - b
    BY <1>2
  <2> QED
    BY <2>1, <2>2, <1>2, <1>3
<1>6. q = a
  BY <1>2, <1>4, <1>5
<1>7. r = b
  BY <1>2, <1>6
<1> QED
  BY <1>1, <1>6, <1>7

(* What a read copies fits into its buffer and is left of the line. *)
LEMMA CopiedFacts ==
  ASSUME BufferInv, Copy
  PROVE  /\ Len(lines) \in Nat /\ buffer = Len(lines) /\ buffer # 0 /\ BufferLen = LineLen
         /\ offset \in 0..LineLen /\ Copied \in Nat
         /\ Copied <= room /\ offset + Copied <= LineLen
<1>1. Len(lines) \in Nat /\ offset \in 0..BufferLen /\ room \in Nat /\ buffer \in {0, Len(lines)}
  BY DEF BufferInv
<1>2. offset < BufferLen
  BY DEF Copy
<1>3. buffer # 0 /\ BufferLen = LineLen
  BY <1>1, <1>2, ReaderAssumption DEF BufferLen
<1>4. Copied = IF room < LineLen - offset THEN room ELSE LineLen - offset
  BY <1>3 DEF Copied, Min2
<1>5. Copied \in Nat /\ Copied <= room /\ offset + Copied <= LineLen
  BY <1>1, <1>2, <1>3, <1>4, ReaderAssumption
<1> QED
  BY <1>1, <1>3, <1>5

(* The bytes it copies. *)
LEMMA CopyAppends ==
  ASSUME BufferInv, Copy
  PROVE  /\ out' \in Seq(Nat \X Nat) /\ Len(out) \in Nat /\ Len(out') = Len(out) + Copied
         /\ \A k \in 1..Len(out) : out'[k] = out[k]
         /\ \A k \in (Len(out) + 1)..(Len(out) + Copied) :
              out'[k] = <<buffer, offset + (k - Len(out))>>
<1> PICK c : c = Copied
  OBVIOUS
<1>1. /\ Len(lines) \in Nat /\ buffer = Len(lines) /\ offset \in 0..LineLen /\ c \in Nat
  BY CopiedFacts
<1>2. PICK q : q = [k \in 1..c |-> <<buffer, offset + k>>]
  OBVIOUS
<1>3. out' = out \o q /\ out \in Seq(Nat \X Nat)
  BY <1>2 DEF Copy, BufferInv
<1>4. \A k \in 1..c : <<buffer, offset + k>> \in Nat \X Nat
  BY <1>1, ReaderAssumption
<1>5. q \in [1..c -> Nat \X Nat]
  BY <1>2, <1>4
<1>6. q \in Seq(Nat \X Nat) /\ Len(q) = c
  BY <1>1, <1>5
<1> PICK o, r : o = out /\ r = out'
  OBVIOUS
<1>7. /\ out' \in Seq(Nat \X Nat) /\ Len(out) \in Nat /\ Len(out') = Len(out) + c
      /\ \A k \in 1..Len(out) : out'[k] = out[k]
  <2>0. r = o \o q /\ o \in Seq(Nat \X Nat) /\ q \in Seq(Nat \X Nat) /\ Len(q) = c
    BY <1>3, <1>6
  <2>1. r \in Seq(Nat \X Nat) /\ Len(o) \in Nat /\ Len(r) = Len(o) + c
    <3>1. r \in Seq(Nat \X Nat)
      BY ONLY <2>0
    <3>2. Len(o) \in Nat
      BY ONLY <2>0
    <3>3. Len(o \o q) = Len(o) + Len(q)
      BY ONLY <2>0, ConcatProperties, Zenon
    <3> QED
      BY ONLY <2>0, <3>1, <3>2, <3>3
  <2>2. ASSUME NEW k \in 1..Len(o) PROVE r[k] = o[k]
    BY ONLY <2>0, <2>2
  <2> QED
    BY <2>1, <2>2
<1>8. ASSUME NEW k \in (Len(out) + 1)..(Len(out) + c)
      PROVE  out'[k] = <<buffer, offset + (k - Len(out))>>
  <2>1. k - Len(out) \in 1..c
    BY <1>1, <1>7
  <2>2. out'[k] = q[k - Len(out)]
    BY <1>3, <1>6, <1>7
  <2> QED
    BY <1>2, <2>1, <2>2
<1> QED
  BY <1>7, <1>8

(* Three steps add a line and start to deliver it. *)
LEMMA EncodeFacts ==
  ASSUME BufferInv, NEW x, Encode(x)
  PROVE  /\ lines' = Append(lines, x) /\ lines' \in Seq(Range(lines'))
         /\ Len(lines) \in Nat /\ Len(lines') = Len(lines) + 1 /\ buffer' = Len(lines')
         /\ offset' = 0 /\ BufferLen' = LineLen
<1>1. lines' = Append(lines, x) /\ buffer' = Len(lines) + 1 /\ offset' = 0
  BY DEF Encode
<1>2. lines' \in Seq(Range(lines')) /\ Len(lines') = Len(lines) + 1 /\ Len(lines) \in Nat
  BY <1>1, AppendLine DEF BufferInv
<1>3. BufferLen' = LineLen
  BY <1>1, <1>2 DEF BufferLen
<1> QED
  BY <1>1, <1>2, <1>3

EncodeStep == Header \/ EndSeries \/ NextState

LEMMA EncodeStepFacts ==
  ASSUME PlaceInv, EncodeStep
  PROVE  /\ \E x : Encode(x)
         /\ ~eof /\ eof' = eof /\ out' = out /\ room' = room
         /\ pc \in {"fill", "sum"} /\ pc' = "fill"
         /\ pc = "fill" => offset = BufferLen
<1>1. CASE Header
  BY <1>1 DEF Header, NeedsSample, PlaceInv, AtEnd
<1>2. CASE EndSeries
  BY <1>2 DEF EndSeries, PlaceInv
<1>3. CASE NextState
  BY <1>3 DEF NextState, NeedsSample, PlaceInv, AtEnd
<1> QED
  BY <1>1, <1>2, <1>3 DEF EncodeStep

LEMMA BufferInvStep ==
  ASSUME PlaceInv, BufferInv, [Next]_vars
  PROVE  BufferInv'
<1>1. ASSUME UNCHANGED readVars, pc' = "sum" => pc = "sum", Building' => Building
      PROVE  BufferInv'
  BY <1>1 DEF BufferInv, BufferLen, readVars
<1>2. CASE AppStep \/ UNCHANGED vars
  BY <1>1, <1>2, AppUnchanged DEF vars, Building
<1>3. CASE BeginCapture \/ CaptureTiming \/ CaptureScalars \/ CaptureStates
  BY <1>1, <1>3 DEF BeginCapture, CaptureTiming, CaptureScalars, CaptureStates, Building
<1>4. ASSUME NEW n \in Sizes, Read(n) PROVE BufferInv'
  <2>1. /\ pc = "idle" /\ pc' \in {"idle", "fill"} /\ room' = n
        /\ UNCHANGED <<buffer, offset, lines, out, eof>>
    BY <1>4 DEF Read
  <2>2. n \in Nat
    BY ReaderAssumption
  <2> QED
    BY <2>1, <2>2 DEF BufferInv, BufferLen, Building
<1>5. CASE Copy
  <2>1. /\ pc = "fill" /\ pc' \in {"idle", "fill"}
        /\ offset' = offset + Copied /\ room' = room - Copied
        /\ UNCHANGED <<buffer, lines, eof>>
    BY <1>5 DEF Copy
  <2>2. BufferLen' = BufferLen
    BY <2>1 DEF BufferLen
  <2>3. /\ BufferLen = LineLen /\ Copied \in Nat /\ Copied <= room /\ offset + Copied <= LineLen
        /\ offset \in 0..LineLen
    BY <1>5, CopiedFacts
  <2>4. room' \in Nat /\ offset' \in 0..BufferLen'
    BY <2>1, <2>2, <2>3, ReaderAssumption DEF BufferInv
  <2>5. out' \in Seq(Nat \X Nat)
    BY <1>5, CopyAppends
  <2> QED
    BY <2>1, <2>4, <2>5 DEF BufferInv, Building
<1>6. CASE EncodeStep
  <2>1. PICK x : Encode(x)
    BY <1>6, EncodeStepFacts
  <2>2. ~eof' /\ out' = out /\ room' = room /\ pc' = "fill"
    BY <1>6, EncodeStepFacts
  <2>3. /\ lines' \in Seq(Range(lines')) /\ buffer' = Len(lines')
        /\ offset' = 0 /\ BufferLen' = LineLen
    BY <2>1, EncodeFacts
  <2>4. offset' \in 0..BufferLen'
    BY <2>3, ReaderAssumption
  <2> QED
    BY <2>2, <2>3, <2>4 DEF BufferInv, Building
<1>7. CASE BeginSeries \/ NextFamily \/ EndOfFile
  <2>1. /\ buffer' = 0 /\ offset' = 0 /\ UNCHANGED <<lines, out>>
        /\ room' \in {room, 0} /\ pc' \in {"sum", "fill", "idle"}
    BY <1>7 DEF BeginSeries, NextFamily, EndOfFile, NeedsSample
  <2>2. BufferLen' = 0
    BY <2>1 DEF BufferLen
  <2> QED
    BY <2>1, <2>2 DEF BufferInv, Building
<1>8. CASE Sum
  BY <1>1, <1>8 DEF Sum, Building
<1> QED
  BY <1>2, <1>3, <1>4, <1>5, <1>6, <1>7, <1>8, StepCases DEF EncodeStep

(* The bytes delivered, after every step. *)
LEMMA BytesStep ==
  ASSUME PlaceInv, BufferInv, BytesInOrder, [Next]_vars
  PROVE  BytesInOrder'
<1> DEFINE Byte(k) == <<((k - 1) \div LineLen) + 1, ((k - 1) % LineLen) + 1>>
<1>1. ASSUME UNCHANGED <<out, lines, buffer, offset>> PROVE BytesInOrder'
  BY <1>1 DEF BytesInOrder, BufferLen
<1>2. CASE AppStep \/ UNCHANGED vars
  BY <1>1, <1>2, AppUnchanged DEF vars, readVars
<1>3. CASE BeginCapture \/ CaptureTiming \/ CaptureScalars \/ CaptureStates \/ Sum
  BY <1>1, <1>3 DEF BeginCapture, CaptureTiming, CaptureScalars, CaptureStates, Sum, readVars
<1>4. ASSUME NEW n \in Sizes, Read(n) PROVE BytesInOrder'
  BY <1>1, <1>4 DEF Read
<1>5. CASE Copy
  <2>1. /\ Len(lines) \in Nat /\ buffer = Len(lines) /\ buffer # 0 /\ BufferLen = LineLen
        /\ offset \in 0..LineLen /\ Copied \in Nat /\ offset + Copied <= LineLen
    BY <1>5, CopiedFacts
  <2>2. /\ out' \in Seq(Nat \X Nat) /\ Len(out) \in Nat /\ Len(out') = Len(out) + Copied
        /\ \A k \in 1..Len(out) : out'[k] = out[k]
        /\ \A k \in (Len(out) + 1)..(Len(out) + Copied) :
             out'[k] = <<buffer, offset + (k - Len(out))>>
    BY <1>5, CopyAppends
  <2>3. Len(out) = LineLen * Len(lines) - (LineLen - offset)
    BY <2>1 DEF BytesInOrder
  <2>4. offset' = offset + Copied /\ lines' = lines /\ BufferLen' = BufferLen
    BY <1>5 DEF Copy, BufferLen
  <2>5. Len(out') = LineLen * Len(lines') - (BufferLen' - offset')
    <3> PICK p, c, l, o, n :
          p = LineLen * Len(lines) /\ c = Copied /\ l = LineLen /\ o = offset /\ n = Len(out)
      OBVIOUS
    <3>1. p \in Int /\ l \in Int /\ o \in Int /\ c \in Int /\ n \in Int
      BY <2>1, <2>2, ReaderAssumption
    <3>2. n = p - (l - o)
      BY <2>3
    <3>3. n + c = p - (l - (o + c))
      BY ONLY <3>1, <3>2
    <3> QED
      BY <3>3, <2>1, <2>2, <2>4
  <2>6. ASSUME NEW k \in (Len(out) + 1)..(Len(out) + Copied) PROVE out'[k] = Byte(k)
    <3>1. PICK a \in Nat : a = Len(lines) - 1
      BY <2>1
    <3> PICK c, l, o, n : c = Copied /\ l = LineLen /\ o = offset /\ n = Len(out)
      OBVIOUS
    <3>a. /\ l \in Int /\ o \in Nat /\ c \in Nat /\ n \in Nat /\ o + c <= l
          /\ k \in (n + 1)..(n + c)
      BY <2>1, <2>2, ReaderAssumption
    <3>b. o + (k - n) - 1 \in 0..(l - 1) /\ k \in Int
      BY ONLY <3>a
    <3>2. PICK b \in 0..(LineLen - 1) : b = offset + (k - Len(out)) - 1
      BY <3>b
    <3>3. Len(out) = LineLen * a + offset
      <4>1. LineLen * Len(lines) = LineLen * a + LineLen
        BY <2>1, <3>1, ReaderAssumption
      <4> PICK p : p = LineLen * a
        OBVIOUS
      <4>2. p \in Int
        BY <3>1, ReaderAssumption
      <4> QED
        BY <2>1, <2>3, <4>1, <4>2, ReaderAssumption
    <3>4. k - 1 \in Nat /\ k - 1 = LineLen * a + b
      <4> PICK p : p = LineLen * a
        OBVIOUS
      <4>1. p \in Int /\ n = p + o /\ b = o + (k - n) - 1
        BY <3>1, <3>2, <3>3, ReaderAssumption
      <4>2. k - 1 \in Nat /\ k - 1 = p + b
        BY ONLY <3>a, <3>b, <4>1
      <4> QED
        BY <4>2
    <3>5. (k - 1) \div LineLen = a /\ (k - 1) % LineLen = b
      <4> PICK x \in Nat : x = k - 1
        BY <3>4
      <4>1. x = LineLen * a + b /\ LineLen \in Nat \ {0}
        BY <3>4, ReaderAssumption
      <4>2. b \in 0..(LineLen - 1) /\ a \in Nat /\ x \in Nat
        OBVIOUS
      <4>3. x \div LineLen = a /\ x % LineLen = b
        BY ONLY <4>1, <4>2, DivMod, Zenon
      <4> QED
        BY <4>3
    <3>6. out'[k] = <<buffer, offset + (k - Len(out))>>
      BY <2>2
    <3>7. buffer = a + 1 /\ offset + (k - Len(out)) = b + 1
      BY <2>1, <2>2, <3>1, <3>2
    <3> QED
      BY <3>5, <3>6, <3>7
  <2>7. ASSUME NEW k \in 1..Len(out) PROVE out'[k] = Byte(k)
    <3>1. k \in DOMAIN out
      BY DEF BufferInv
    <3> QED
      BY <3>1, <2>2 DEF BytesInOrder
  <2>8. DOMAIN out' = 1..(Len(out) + Copied)
    BY <2>2
  <2>9. \A k \in DOMAIN out' : out'[k] = Byte(k)
    <3> TAKE k \in DOMAIN out'
    <3>1. k \in 1..Len(out) \/ k \in (Len(out) + 1)..(Len(out) + Copied)
      BY <2>1, <2>2, <2>8
    <3> QED
      BY <3>1, <2>6, <2>7
  <2> QED
    BY <2>5, <2>9 DEF BytesInOrder
<1>6. offset \in 0..BufferLen /\ Len(lines) \in Nat /\ BufferLen \in Nat
  BY ReaderAssumption DEF BufferInv, BufferLen
<1>7. CASE EncodeStep
  <2>1. PICK x : Encode(x)
    BY <1>7, EncodeStepFacts
  <2>2. out' = out /\ BufferLen - offset = 0
    <3>1. CASE pc = "sum"
      <4>1. BufferLen = 0
        BY <3>1 DEF BufferInv, BufferLen
      <4>2. offset = 0
        BY <4>1, <1>6
      <4> QED
        BY <4>1, <4>2, <1>7, EncodeStepFacts
    <3> QED
      BY <3>1, <1>6, <1>7, EncodeStepFacts
  <2>3. Len(lines') = Len(lines) + 1 /\ offset' = 0 /\ BufferLen' = LineLen
    BY <2>1, EncodeFacts
  <2>4. Len(out) = LineLen * Len(lines)
    <3> PICK p : p = LineLen * Len(lines)
      OBVIOUS
    <3>1. p \in Int
      BY <1>6, ReaderAssumption
    <3> QED
      BY <3>1, <2>2, <1>6 DEF BytesInOrder
  <2>5. Len(out') = LineLen * Len(lines') - (BufferLen' - offset')
    <3>1. LineLen * (Len(lines) + 1) = LineLen * Len(lines) + LineLen
      BY <1>6, ReaderAssumption
    <3> PICK p : p = LineLen * Len(lines)
      OBVIOUS
    <3>2. p \in Int
      BY <1>6, ReaderAssumption
    <3> QED
      BY <2>2, <2>3, <2>4, <3>1, <3>2, ReaderAssumption
  <2> QED
    BY <2>2, <2>5 DEF BytesInOrder
<1>8. CASE BeginSeries \/ NextFamily \/ EndOfFile
  <2>1. offset = BufferLen /\ buffer' = 0 /\ offset' = 0 /\ UNCHANGED <<lines, out>>
    BY <1>8 DEF BeginSeries, NextFamily, EndOfFile, NeedsSample
  <2>2. BufferLen' - offset' = 0 /\ BufferLen - offset = 0
    BY <2>1, <1>6 DEF BufferLen
  <2> QED
    BY <2>1, <2>2 DEF BytesInOrder
<1> QED
  BY <1>2, <1>3, <1>4, <1>5, <1>7, <1>8, StepCases DEF EncodeStep

(***************************************************************************)
(* The lines.                                                              *)
(***************************************************************************)

(* A line goes on with the family of the last one, or leads the next.       *)
LEMMA GroupedAppend ==
  ASSUME BufferInv, Grouped, NEW x, lines' = Append(lines, x),
         IF lines = <<>> THEN x.header
         ELSE x.family = lines[Len(lines)].family + (IF x.header THEN 1 ELSE 0)
  PROVE  Grouped'
<1>1. /\ Len(lines) \in Nat /\ DOMAIN lines = 1..Len(lines) /\ DOMAIN lines' = 1..(Len(lines) + 1)
      /\ \A i \in DOMAIN lines : lines'[i] = lines[i]
      /\ lines'[Len(lines) + 1] = x
  BY AppendLine DEF BufferInv
<1>2. lines # <<>> => Len(lines) # 0
  BY DEF BufferInv
<1> SUFFICES ASSUME NEW i \in DOMAIN lines'
             PROVE  IF i = 1 THEN lines'[i].header
                    ELSE lines'[i].family = lines'[i - 1].family + (IF lines'[i].header THEN 1 ELSE 0)
  BY DEF Grouped
<1>3. CASE i \in DOMAIN lines
  <2>1. lines'[i] = lines[i]
    BY <1>1, <1>3
  <2>2. i # 1 => i - 1 \in DOMAIN lines
    BY <1>1, <1>3
  <2>3. i # 1 => lines'[i - 1] = lines[i - 1]
    BY <1>1, <2>2
  <2> QED
    BY <1>3, <2>1, <2>3 DEF Grouped
<1>4. CASE i = Len(lines) + 1
  <2>1. lines'[i] = x
    BY <1>1, <1>4
  <2>2. CASE lines = <<>>
    BY <2>1, <2>2, <1>4
  <2>3. CASE lines # <<>>
    <3>1. i # 1 /\ i - 1 = Len(lines) /\ Len(lines) \in DOMAIN lines
      BY <1>1, <1>2, <1>4, <2>3
    <3>2. lines'[i - 1] = lines[Len(lines)]
      BY <1>1, <3>1
    <3> QED
      BY <2>1, <2>3, <3>1, <3>2
  <2> QED
    BY <2>2, <2>3
<1> QED
  BY <1>1, <1>3, <1>4

(* What the steps that add a line encode. *)
LEMMA EncodedLines ==
  ASSUME PlaceInv, EncodeStep
  PROVE  \E x : /\ Encode(x) /\ x.family = family /\ x.header \in BOOLEAN /\ x.header = ~header
                /\ UNCHANGED <<family, sources, rows>> /\ header' = TRUE
<1>1. CASE Header
  <2> DEFINE x == [header |-> TRUE, family |-> family]
  <2>1. Encode(x) /\ x.family = family /\ x.header = TRUE
    BY <1>1 DEF Header
  <2> QED
    BY <1>1, <2>1 DEF Header, scrapeVars, PlaceInv
<1>2. CASE EndSeries
  <2> DEFINE x == [header |-> FALSE, family |-> family, labels |-> LabelSet(sources[first]),
                   value |-> IF FAMILIES[family].seconds THEN Hundredths(acc) ELSE acc]
  <2>1. Encode(x) /\ x.family = family /\ x.header = FALSE
    BY <1>2 DEF EndSeries
  <2>2. header /\ UNCHANGED <<family, header, sources, rows>>
    BY <1>2 DEF EndSeries, PlaceInv, scrapeVars, placeVars
  <2> HIDE DEF x
  <2> QED
    BY <2>1, <2>2 DEF PlaceInv
<1>3. CASE NextState
  <2> DEFINE x == [header |-> FALSE, family |-> family,
                   labels |-> rows[LeastOf(Numeric)][1], value |-> rows[LeastOf(Numeric)][2]]
  <2>1. Encode(x) /\ x.family = family /\ x.header = FALSE
    BY <1>3 DEF NextState
  <2>2. header /\ UNCHANGED <<family, header, sources, rows>>
    BY <1>3 DEF NextState, PlaceInv, scrapeVars
  <2> HIDE DEF x
  <2> QED
    BY <2>1, <2>2 DEF PlaceInv
<1> QED
  BY <1>1, <1>2, <1>3 DEF EncodeStep

LEMMA FamilyInvStep ==
  ASSUME PlaceInv, BufferInv, FamilyInv, [Next]_vars
  PROVE  FamilyInv'
<1>1. ASSUME UNCHANGED <<lines, family, header>> PROVE FamilyInv'
  BY <1>1 DEF FamilyInv, Grouped
<1>2. CASE AppStep \/ UNCHANGED vars
  BY <1>1, <1>2, AppUnchanged DEF vars, placeVars, readVars
<1>3. CASE BeginCapture \/ CaptureTiming \/ CaptureScalars \/ CaptureStates
  BY <1>1, <1>3 DEF BeginCapture, CaptureTiming, CaptureScalars, CaptureStates, placeVars, readVars
<1>4. ASSUME NEW n \in Sizes, Read(n) PROVE FamilyInv'
  BY <1>1, <1>4 DEF Read, placeVars
<1>5. CASE Copy \/ BeginSeries \/ Sum \/ EndOfFile
  BY <1>1, <1>5 DEF Copy, BeginSeries, Sum, EndOfFile, placeVars, readVars
<1>6. CASE EncodeStep
  <2>1. PICK x : /\ Encode(x) /\ x.family = family /\ x.header \in BOOLEAN /\ x.header = ~header
                 /\ family' = family /\ header' = TRUE
    BY <1>6, EncodedLines
  <2>2. lines' = Append(lines, x)
    BY <2>1 DEF Encode
  <2>3. /\ Len(lines) \in Nat /\ DOMAIN lines = 1..Len(lines) /\ DOMAIN lines' = 1..(Len(lines) + 1)
        /\ \A i \in DOMAIN lines : lines'[i] = lines[i]
        /\ lines'[Len(lines) + 1] = x /\ Len(lines') = Len(lines) + 1 /\ lines' # <<>>
    BY <2>2, AppendLine DEF BufferInv
  <2>4. family \in 1..11
    BY StateFamilyIs DEF PlaceInv
  <2>5. \A i \in DOMAIN lines' : lines'[i].header \in BOOLEAN /\ lines'[i].family \in 1..family'
    <3> TAKE i \in DOMAIN lines'
    <3>1. CASE i \in DOMAIN lines
      BY <3>1, <2>1, <2>3 DEF FamilyInv
    <3>2. CASE i = Len(lines) + 1
      <4>1. lines'[i] = x
        BY <3>2, <2>3
      <4>2. family' = family /\ family \in 1..family
        BY <2>1, <2>4
      <4>3. lines'[i].family \in 1..family'
        BY <4>1, <4>2, <2>1
      <4>4. lines'[i].header \in BOOLEAN
        BY <4>1, <2>1, Zenon
      <4> QED
        BY <4>3, <4>4
    <3> QED
      BY <3>1, <3>2, <2>3
  <2>6. IF lines = <<>> THEN x.header
        ELSE x.family = lines[Len(lines)].family + (IF x.header THEN 1 ELSE 0)
    <3>1. CASE header
      <4>1. lines # <<>> /\ lines[Len(lines)].family = family /\ ~x.header
        BY <3>1, <2>1 DEF FamilyInv
      <4> QED
        BY <4>1, <2>1, <2>4
    <3>2. CASE ~header
      <4>1. x.header
        BY <3>2, <2>1
      <4>2. lines # <<>> => lines[Len(lines)].family = family - 1
        BY <3>2 DEF FamilyInv
      <4> QED
        BY <4>1, <4>2, <2>1, <2>4
    <3> QED
      BY <3>1, <3>2
  <2>7. Grouped'
    BY <2>2, <2>6, GroupedAppend DEF FamilyInv
  <2>8. lines'[Len(lines')].family = family'
    BY <2>1, <2>3
  <2> QED
    BY <2>1, <2>3, <2>5, <2>7, <2>8 DEF FamilyInv
<1>7. CASE NextFamily
  <2>1. header /\ family' = family + 1 /\ header' = FALSE /\ lines' = lines
    BY <1>7 DEF NextFamily
  <2>2. family \in 1..11
    BY StateFamilyIs DEF PlaceInv
  <2>3. family' # 1 /\ family' - 1 = family
    BY <2>1, <2>2
  <2>4. \A i \in DOMAIN lines : lines[i].header \in BOOLEAN /\ lines[i].family \in 1..(family + 1)
    BY <2>2 DEF FamilyInv
  <2>5. Grouped'
    BY <2>1 DEF FamilyInv, Grouped
  <2> QED
    BY <2>1, <2>3, <2>4, <2>5 DEF FamilyInv
<1> QED
  BY <1>2, <1>3, <1>4, <1>5, <1>6, <1>7, StepCases DEF EncodeStep


(* What a source adds to a sum is in the range of its family. *)
LEMMA AddendFacts ==
  ASSUME CaptureInv, SourcesInv, ValueInv,
         NEW i \in 1..Len(sources), NEW f \in 1..10, supports(sources[i].kind, f)
  PROVE  /\ value[sources[i].item[2]][CounterOf(sources[i], f)] \in Int
         /\ ~IsGauge(f) => value[sources[i].item[2]][CounterOf(sources[i], f)] \in 0..Top
<1> PICK s : s = sources[i]
  OBVIOUS
<1>1. IsSource(s) /\ supports(s.kind, f)
  BY SourcesFacts
<1>2. PICK m \in captured : s \in SourcesOf(m)
  BY SourcesFacts
<1>3. m \in Metas
  BY DEF CaptureInv
<1>4. s.item[2] = m.item /\ (s.item[1] = "Gauge" <=> PolicyOf(m.profile) = "Gauge")
  BY <1>2, <1>3, SourcesOfFacts
<1>5. CounterOf(s, f) \in Counters
  <2>1. f \in DOMAIN FAMILIES /\ 7 \in DOMAIN FAMILIES /\ FAMILIES[7].counter = "value"
    BY DEF FAMILIES
  <2>2. FAMILIES[f].counter \in Counters /\ "value" \in Counters
    BY <2>1 DEF Counters
  <2> QED
    BY <2>2 DEF CounterOf
<1>6. m.item \in Items
  BY <1>3 DEF Items
<1>7. value[m.item][CounterOf(s, f)] \in Int
  BY <1>5, <1>6 DEF ValueInv
<1>8. ASSUME ~IsGauge(f) PROVE PolicyOf(m.profile) # "Gauge"
  <2>1. SupportTable(s.kind[1], f)
    BY <1>1, SupportsFacts
  <2>2. f # 9 /\ f # 10
    BY <1>8 DEF IsGauge
  <2>3. s.kind[1] \notin {"ConnGauge", "Gauge"}
    BY <2>1, <2>2 DEF SupportTable
  <2> QED
    BY <2>3, <1>1, <1>4 DEF IsSource
<1>9. ASSUME ~IsGauge(f) PROVE value[m.item][CounterOf(s, f)] \in 0..Top
  BY <1>3, <1>5, <1>8, <1>9 DEF ValueInv
<1> QED
  BY <1>4, <1>7, <1>9

LEMMA SaturatingAddFacts ==
  ASSUME NEW a, NEW b \in Int,
         a \in IF IsGauge(family) THEN (-Limit - 1)..Limit ELSE 0..Top,
         ~IsGauge(family) => b \in 0..Top
  PROVE  SaturatingAdd(a, b) \in IF IsGauge(family) THEN (-Limit - 1)..Limit ELSE 0..Top
<1>1. Top \in Nat /\ Limit \in Nat
  BY ReaderAssumption
<1>2. CASE IsGauge(family)
  <2>1. a \in Int
    BY <1>1, <1>2
  <2>2. CASE a + b > Limit
    BY <1>1, <1>2, <2>1, <2>2 DEF SaturatingAdd
  <2>3. CASE a + b < -Limit - 1
    BY <1>1, <1>2, <2>1, <2>3 DEF SaturatingAdd
  <2>4. CASE ~(a + b > Limit) /\ ~(a + b < -Limit - 1)
    BY <1>1, <1>2, <2>1, <2>4 DEF SaturatingAdd
  <2> QED
    BY <2>2, <2>3, <2>4
<1>3. CASE ~IsGauge(family)
  <2>1. a \in 0..Top /\ b \in 0..Top
    BY <1>3
  <2>2. Min2(a + b, Top) \in 0..Top
    BY <1>1, <2>1 DEF Min2
  <2> QED
    BY <1>3, <2>2 DEF SaturatingAdd
<1> QED
  BY <1>2, <1>3

LEMMA BoundaryInvStep ==
  ASSUME CaptureInv, SourcesInv, ValueInv, PlaceInv, BoundaryInv, [Next]_vars
  PROVE  BoundaryInv'
<1>0. Len(sources) \in Nat /\ source \in Nat /\ first \in Nat /\ source >= 1 /\ first >= 1
  BY SourcesFacts DEF PlaceInv
<1>1. ASSUME UNCHANGED <<sources, family, source, first, acc>>, pc' = "sum" <=> pc = "sum"
      PROVE  BoundaryInv'
  BY <1>1 DEF BoundaryInv, Base, SameAs, IsGauge
<1>2. CASE AppStep \/ UNCHANGED vars
  BY <1>1, <1>2, AppUnchanged DEF vars, scrapeVars, placeVars
<1>3. CASE BeginCapture \/ CaptureTiming \/ CaptureStates
  BY <1>1, <1>3 DEF BeginCapture, CaptureTiming, CaptureStates, placeVars
<1>4. ASSUME NEW n \in Sizes, Read(n) PROVE BoundaryInv'
  BY <1>1, <1>4 DEF Read, scrapeVars, placeVars
<1>5. CASE Copy \/ Header \/ NextState \/ EndOfFile
  <2>1. UNCHANGED <<sources, family, source, first, acc>> /\ pc = "fill" /\ pc' \in {"idle", "fill"}
    BY <1>5 DEF Copy, Header, NextState, EndOfFile, NeedsSample, scrapeVars, placeVars
  <2> QED
    BY <1>1, <2>1
<1>6. ASSUME source' = 1, pc' # "sum" PROVE BoundaryInv'
  <2>1. Base' = 1
    BY <1>6 DEF Base
  <2>2. 1..(Base' - 1) = {}
    BY <2>1
  <2> QED
    BY <1>6, <2>2 DEF BoundaryInv
<1>7. CASE CaptureScalars
  BY <1>6, <1>7 DEF CaptureScalars, placeVars, PlaceInv, Building
<1>8. CASE NextFamily
  BY <1>6, <1>8 DEF NextFamily, NeedsSample
<1>9. CASE BeginSeries
  <2> PICK l : l = LeastOf(Supported)
    OBVIOUS
  <2>1. /\ pc = "fill" /\ pc' = "sum" /\ source' = l /\ first' = l /\ acc' = 0
        /\ Supported # {} /\ UNCHANGED <<sources, family>>
    BY <1>9 DEF BeginSeries, NeedsSample, scrapeVars
  <2>2. /\ l \in source..Len(sources) /\ supports(sources[l].kind, family)
        /\ \A i \in source..(l - 1) : ~supports(sources[i].kind, family)
    BY <2>1, <1>0, SupportedFacts DEF PlaceInv
  <2>3. Base = source /\ Base' = l
    BY <2>1 DEF Base
  <2>4. ASSUME NEW k \in 1..(l - 1), NEW j \in l..Len(sources),
               supports(sources[k].kind, family), supports(sources[j].kind, family)
        PROVE  ~SameAs(k, j)
    <3>1. k \in 1..(source - 1)
      BY <2>2, <2>4, <1>0
    <3>2. j \in source..Len(sources)
      BY <2>2, <1>0
    <3> QED
      BY <3>1, <3>2, <2>3, <2>4 DEF BoundaryInv
  <2>5. l..(l - 1) = {}
    BY <2>2, <1>0
  <2>6. 0 \in IF IsGauge(family) THEN (-Limit - 1)..Limit ELSE 0..Top
    BY ReaderAssumption
  <2> QED
    BY <2>1, <2>2, <2>3, <2>4, <2>5, <2>6, <1>0 DEF BoundaryInv, SameAs, IsGauge
<1>10. CASE Sum
  <2>1. /\ pc = "sum" /\ pc' = "sum" /\ SameSeries /\ source' = source + 1
        /\ UNCHANGED <<sources, family, first>>
        /\ acc' = SaturatingAdd(acc, value[sources[source].item[2]][CounterOf(sources[source], family)])
    BY <1>10 DEF Sum, scrapeVars
  <2>2. source \in 1..Len(sources) /\ SameAs(source, first)
    BY <2>1, <1>0 DEF SameSeries, SameAs
  <2>3. /\ first <= source /\ first <= Len(sources) /\ supports(sources[first].kind, family)
        /\ \A k \in first..(source - 1) : SameAs(k, first)
        /\ acc \in IF IsGauge(family) THEN (-Limit - 1)..Limit ELSE 0..Top
    BY <2>1 DEF BoundaryInv
  <2>4. supports(sources[source].kind, family)
    BY <2>2, <2>3 DEF SameAs
  <2>5. family \in 1..10
    BY <2>1, StateFamilyIs DEF PlaceInv
  <2>6. acc' \in IF IsGauge(family) THEN (-Limit - 1)..Limit ELSE 0..Top
    <3> DEFINE b == value[sources[source].item[2]][CounterOf(sources[source], family)]
    <3>1. b \in Int /\ (~IsGauge(family) => b \in 0..Top)
      BY <2>2, <2>4, <2>5, AddendFacts
    <3> HIDE DEF b
    <3>2. SaturatingAdd(acc, b) \in IF IsGauge(family) THEN (-Limit - 1)..Limit ELSE 0..Top
      BY <3>1, <2>3, SaturatingAddFacts
    <3> QED
      BY <3>2, <2>1 DEF b
  <2>7. \A k \in first..((source + 1) - 1) : SameAs(k, first)
    BY <2>2, <2>3, <1>0
  <2>8. Base = first /\ Base' = first
    BY <2>1 DEF Base
  <2>9. first <= source + 1
    BY <2>3, <1>0
  <2> QED
    BY <2>1, <2>3, <2>6, <2>7, <2>8, <2>9 DEF BoundaryInv, SameAs, IsGauge
<1>11. CASE EndSeries
  <2>1. /\ pc = "sum" /\ pc' = "fill" /\ ~SameSeries
        /\ UNCHANGED <<sources, family, source, first>>
    BY <1>11 DEF EndSeries, scrapeVars, placeVars
  <2>2. /\ first <= source /\ first <= Len(sources) /\ supports(sources[first].kind, family)
        /\ \A k \in first..(source - 1) : SameAs(k, first)
    BY <2>1 DEF BoundaryInv
  <2>3. Base = first /\ Base' = source
    BY <2>1 DEF Base
  <2>4. source <= Len(sources) => ~SameAs(source, first)
    BY <2>1 DEF SameSeries, SameAs
  <2>5. first < source
    <3>1. SameAs(first, first)
      BY DEF SameAs
    <3> QED
      BY <3>1, <2>2, <2>4, <1>0
  <2>6. ASSUME NEW k \in 1..(source - 1), NEW j \in source..Len(sources),
               supports(sources[k].kind, family), supports(sources[j].kind, family), SameAs(k, j)
        PROVE  FALSE
    <3>1. CASE k < first
      <4>1. k \in 1..(first - 1) /\ j \in first..Len(sources)
        BY <3>1, <2>2, <1>0
      <4> QED
        BY <4>1, <2>3, <2>6 DEF BoundaryInv
    <3>2. CASE k >= first
      <4>1. k \in first..(source - 1)
        BY <3>2, <1>0
      <4>2. SameAs(k, first)
        BY <4>1, <2>2
      <4>3. SameAs(first, j)
        BY <4>2, <2>6 DEF SameAs
      <4>4. source <= Len(sources) /\ ~SameAs(source, first)
        BY <2>4, <1>0
      <4>5. j # source /\ source < j
        BY <4>3, <4>4, <1>0 DEF SameAs
      <4>6. first \in 1..Len(sources) /\ source \in 1..Len(sources) /\ j \in 1..Len(sources)
        BY <2>2, <4>4, <1>0
      <4>7. /\ IsSource(sources[first]) /\ IsSource(sources[source]) /\ IsSource(sources[j])
            /\ Less(sources[first], sources[source]) /\ Less(sources[source], sources[j])
        BY <4>5, <4>6, <2>5, SourcesFacts
      <4>8. SameAs(source, first)
        BY <4>3, <4>7, LessFacts DEF SameAs
      <4> QED
        BY <4>4, <4>8
    <3> QED
      BY <3>1, <3>2, <1>0
  <2> QED
    BY <2>1, <2>3, <2>6 DEF BoundaryInv, SameAs
<1> QED
  BY <1>2, <1>3, <1>4, <1>5, <1>7, <1>8, <1>9, <1>10, <1>11, StepCases


(* The samples after a line is added. *)
LEMMA SamplesAfter ==
  ASSUME BufferInv, NEW x, lines' = Append(lines, x)
  PROVE  /\ \A i : i \in SampleLines' <=> (i \in SampleLines \/ (i = Len(lines) + 1 /\ ~x.header))
         /\ \A i \in SampleLines : lines'[i] = lines[i] /\ i # Len(lines) + 1
         /\ lines'[Len(lines) + 1] = x
<1>1. /\ Len(lines) \in Nat /\ DOMAIN lines = 1..Len(lines) /\ DOMAIN lines' = 1..(Len(lines) + 1)
      /\ \A i \in DOMAIN lines : lines'[i] = lines[i]
      /\ lines'[Len(lines) + 1] = x
  BY AppendLine DEF BufferInv
<1>2. \A i : i \in DOMAIN lines' <=> (i \in DOMAIN lines \/ i = Len(lines) + 1)
  BY <1>1
<1>3. Len(lines) + 1 \notin DOMAIN lines
  BY <1>1
<1>4. \A i : i \in SampleLines' <=> (i \in DOMAIN lines' /\ ~lines'[i].header)
  BY DEF SampleLines
<1>5. \A i : i \in SampleLines <=> (i \in DOMAIN lines /\ ~lines[i].header)
  BY DEF SampleLines
<1> QED
  BY <1>1, <1>2, <1>3, <1>4, <1>5

(* The labels of a sample are those of its series. *)
LEMMA SameLabels ==
  ASSUME NEW i, NEW j, SameAs(i, j)
  PROVE  LabelSet(sources[i]) = LabelSet(sources[j])
BY DEF SameAs, LabelSet

(* The sources that a step leaves behind are of the series it ends, or of   *)
(* other families.                                                          *)
LEMMA BaseStep ==
  ASSUME CaptureInv, SourcesInv, PlaceInv, BoundaryInv, ReadStep, ~NextFamily
  PROVE  /\ UNCHANGED <<sources, family>>
         /\ Base \in Nat /\ Base' \in Nat /\ Base >= 1 /\ Base <= Base'
         /\ \A k \in Base..(Base' - 1) : k <= Len(sources) =>
              \/ ~supports(sources[k].kind, family)
              \/ EndSeries /\ SameAs(k, first)
<1>0. Len(sources) \in Nat /\ source \in Nat /\ first \in Nat /\ source >= 1 /\ first >= 1
  BY SourcesFacts DEF PlaceInv
<1>1. ASSUME UNCHANGED <<sources, family, source, first>>, pc' = "sum" <=> pc = "sum"
      PROVE  UNCHANGED <<sources, family>> /\ Base \in Nat /\ Base >= 1 /\ Base' = Base
  BY <1>0, <1>1 DEF Base
<1>2. ASSUME NEW n \in Sizes, Read(n)
      PROVE  UNCHANGED <<sources, family>> /\ Base \in Nat /\ Base >= 1 /\ Base' = Base
  BY <1>1, <1>2 DEF Read, scrapeVars, placeVars
<1>3. CASE Copy \/ Header \/ NextState \/ EndOfFile
  <2>1. UNCHANGED <<sources, family, source, first>> /\ pc = "fill" /\ pc' \in {"idle", "fill"}
    BY <1>3 DEF Copy, Header, NextState, EndOfFile, NeedsSample, scrapeVars, placeVars
  <2>2. UNCHANGED <<sources, family>> /\ Base \in Nat /\ Base >= 1 /\ Base' = Base
    BY <1>1, <2>1
  <2> QED
    BY <2>2
<1>4. CASE Sum
  <2>1. pc = "sum" /\ pc' = "sum" /\ UNCHANGED <<sources, family, first>>
    BY <1>4 DEF Sum, scrapeVars
  <2>2. Base = first /\ Base' = first
    BY <2>1 DEF Base
  <2> QED
    BY <2>1, <2>2, <1>0
<1>5. CASE BeginSeries
  <2> PICK l : l = LeastOf(Supported)
    OBVIOUS
  <2>1. /\ pc = "fill" /\ pc' = "sum" /\ first' = l
        /\ Supported # {} /\ UNCHANGED <<sources, family>>
    BY <1>5 DEF BeginSeries, NeedsSample, scrapeVars
  <2>2. /\ l \in source..Len(sources)
        /\ \A i \in source..(l - 1) : ~supports(sources[i].kind, family)
    BY <2>1, <1>0, SupportedFacts DEF PlaceInv
  <2>3. Base = source /\ Base' = l
    BY <2>1 DEF Base
  <2> QED
    BY <2>1, <2>2, <2>3, <1>0
<1>6. CASE EndSeries
  <2>1. pc = "sum" /\ pc' = "fill" /\ UNCHANGED <<sources, family, source, first>>
    BY <1>6 DEF EndSeries, scrapeVars, placeVars
  <2>2. first <= source /\ \A k \in first..(source - 1) : SameAs(k, first)
    BY <2>1 DEF BoundaryInv
  <2>3. Base = first /\ Base' = source
    BY <2>1 DEF Base
  <2> QED
    BY <1>6, <2>1, <2>2, <2>3, <1>0
<1> QED
  BY <1>2, <1>3, <1>4, <1>5, <1>6 DEF ReadStep

(* Nothing is done before the capture has ended. *)
LEMMA BuildingFacts ==
  ASSUME PlaceInv, BufferInv, Building
  PROVE  lines = <<>> /\ SampleLines = {} /\ family = 1 /\ source = 1 /\ state = 1 /\ Base = 1 /\ ~eof
<1>1. lines = <<>> /\ family = 1 /\ source = 1 /\ state = 1 /\ ~eof /\ pc # "sum"
  BY DEF PlaceInv, BufferInv, Building
<1>2. DOMAIN lines = {}
  BY <1>1
<1> QED
  BY <1>1, <1>2 DEF SampleLines, Base

(* The constructor reads nothing. *)
LEMMA ConstructFacts ==
  ASSUME PlaceInv, BufferInv, BeginCapture \/ CaptureTiming \/ CaptureScalars \/ CaptureStates
  PROVE  /\ lines' = <<>> /\ SampleLines' = {} /\ family' = 1 /\ state' = 1 /\ Base' = 1
<1>1. Building /\ UNCHANGED <<lines, family, source, state>> /\ pc' # "sum"
  BY DEF BeginCapture, CaptureTiming, CaptureScalars, CaptureStates, Building, placeVars, readVars
<1>2. lines' = <<>> /\ family' = 1 /\ source' = 1 /\ state' = 1
  BY <1>1, BuildingFacts
<1>3. DOMAIN lines' = {}
  BY <1>2
<1> QED
  BY <1>1, <1>2, <1>3 DEF SampleLines, Base

(* The steps that add no line. *)
LEMMA SameLines ==
  ASSUME ReadStep, ~EncodeStep
  PROVE  lines' = lines /\ SampleLines' = SampleLines
<1>1. ASSUME NEW n \in Sizes, Read(n) PROVE lines' = lines
  BY <1>1 DEF Read
<1>2. Copy \/ BeginSeries \/ Sum \/ NextFamily \/ EndOfFile => lines' = lines
  BY DEF Copy, BeginSeries, Sum, NextFamily, EndOfFile, readVars
<1>3. lines' = lines
  BY <1>1, <1>2 DEF ReadStep, EncodeStep
<1> QED
  BY <1>3 DEF SampleLines

(* The sample that the end of a series adds. *)
LEMMA EndSeriesLine ==
  ASSUME EndSeries
  PROVE  \E x : /\ lines' = Append(lines, x) /\ ~x.header /\ x.family = family
                /\ x.labels = LabelSet(sources[first])
<1> DEFINE x == [header |-> FALSE, family |-> family, labels |-> LabelSet(sources[first]),
                 value |-> IF FAMILIES[family].seconds THEN Hundredths(acc) ELSE acc]
<1>1. Encode(x)
  BY DEF EndSeries
<1>2. lines' = Append(lines, x) /\ ~x.header /\ x.family = family
      /\ x.labels = LabelSet(sources[first])
  BY <1>1 DEF Encode
<1> HIDE DEF x
<1> QED
  BY <1>2

LEMMA HeaderLine ==
  ASSUME Header
  PROVE  \E x : lines' = Append(lines, x) /\ x.header
<1> DEFINE x == [header |-> TRUE, family |-> family]
<1>1. lines' = Append(lines, x) /\ x.header
  BY DEF Header, Encode
<1> HIDE DEF x
<1> QED
  BY <1>1

LEMMA NextStateLine ==
  ASSUME NextState
  PROVE  \E x : /\ lines' = Append(lines, x) /\ ~x.header /\ x.family = StateFamily
                /\ x.labels = rows[LeastOf(Numeric)][1] /\ x.value = rows[LeastOf(Numeric)][2]
<1> DEFINE x == [header |-> FALSE, family |-> family,
                 labels |-> rows[LeastOf(Numeric)][1], value |-> rows[LeastOf(Numeric)][2]]
<1>1. lines' = Append(lines, x) /\ ~x.header /\ x.family = StateFamily
      /\ x.labels = rows[LeastOf(Numeric)][1] /\ x.value = rows[LeastOf(Numeric)][2]
  BY DEF NextState, Encode
<1> HIDE DEF x
<1> QED
  BY <1>1


LEMMA SampleInvStep ==
  ASSUME CaptureInv, SourcesInv, PlaceInv, BufferInv, FamilyInv, BoundaryInv, SampleInv, [Next]_vars
  PROVE  SampleInv'
<1>0. family \in 1..11
  BY StateFamilyIs DEF PlaceInv
<1>1. CASE AppStep \/ UNCHANGED vars
  <2>1. UNCHANGED <<lines, family, sources, source, first, pc>>
    BY <1>1, AppUnchanged DEF vars, scrapeVars, placeVars, readVars
  <2> QED
    BY <2>1 DEF SampleInv, SampleLines, Base
<1>2. CASE BeginCapture \/ CaptureTiming \/ CaptureScalars \/ CaptureStates
  BY <1>2, ConstructFacts DEF SampleInv
<1>3. CASE NextFamily
  <2>1. family' = family + 1 /\ UNCHANGED <<lines, sources>>
    BY <1>3 DEF NextFamily, scrapeVars
  <2>2. SampleLines' = SampleLines
    BY <2>1 DEF SampleLines
  <2>3. \A i \in SampleLines : lines[i].family \in 1..family
    BY DEF SampleLines, FamilyInv
  <2>4. \A i \in SampleLines : lines[i].family # family + 1
    BY <2>3, <1>0
  <2> QED
    BY <2>1, <2>2, <2>4 DEF SampleInv
<1>4. ASSUME ReadStep, ~NextFamily PROVE SampleInv'
  <2>1. /\ UNCHANGED <<sources, family>>
        /\ Base \in Nat /\ Base' \in Nat /\ Base >= 1 /\ Base <= Base'
    BY <1>4, BaseStep
  <2>2. Len(sources) \in Nat
    BY SourcesFacts
  <2>3. ASSUME NEW i \in SampleLines, lines[i].family < StateFamily
        PROVE  \E k \in 1..Len(sources) :
                 /\ lines[i].family = family => k < Base'
                 /\ supports(sources[k].kind, lines[i].family)
                 /\ lines[i].labels = LabelSet(sources[k])
    <3>1. PICK k \in 1..Len(sources) :
                 /\ lines[i].family = family => k < Base
                 /\ supports(sources[k].kind, lines[i].family)
                 /\ lines[i].labels = LabelSet(sources[k])
      BY <2>3 DEF SampleInv
    <3>2. k < Base => k < Base'
      BY <2>1, <2>2
    <3> QED
      BY <3>1, <3>2
  <2>4. CASE ~EncodeStep
    <3>1. lines' = lines /\ SampleLines' = SampleLines
      BY <1>4, <2>4, SameLines
    <3> QED
      BY <3>1, <2>1, <2>3 DEF SampleInv
  <2>5. ASSUME NEW x, lines' = Append(lines, x),
               ~x.header /\ x.family < StateFamily =>
                 \E k \in 1..Len(sources) :
                   k < Base' /\ supports(sources[k].kind, x.family) /\ x.labels = LabelSet(sources[k])
        PROVE  SampleInv'
    <3>1. /\ \A i : i \in SampleLines' <=> (i \in SampleLines \/ (i = Len(lines) + 1 /\ ~x.header))
          /\ \A i \in SampleLines : lines'[i] = lines[i]
          /\ lines'[Len(lines) + 1] = x
      BY <2>5, SamplesAfter
    <3>2. SUFFICES ASSUME NEW i \in SampleLines', lines'[i].family < StateFamily
                   PROVE  \E k \in 1..Len(sources) :
                            /\ lines'[i].family = family => k < Base'
                            /\ supports(sources[k].kind, lines'[i].family)
                            /\ lines'[i].labels = LabelSet(sources[k])
      BY <2>1 DEF SampleInv, StateFamily
    <3>3. CASE i \in SampleLines
      BY <3>1, <3>2, <3>3, <2>3
    <3>4. CASE i = Len(lines) + 1 /\ ~x.header
      BY <3>1, <3>2, <3>4, <2>5
    <3> QED
      BY <3>1, <3>3, <3>4
  <2>6. CASE Header
    BY <2>5, <2>6, HeaderLine
  <2>7. CASE EndSeries
    <3>1. PICK x : lines' = Append(lines, x) /\ ~x.header /\ x.family = family
                   /\ x.labels = LabelSet(sources[first])
      BY <2>7, EndSeriesLine
    <3>2. pc = "sum" /\ pc' = "fill" /\ source' = source /\ ~SameSeries
      BY <2>7 DEF EndSeries, placeVars
    <3>3. Base' = source
      BY <3>2 DEF Base
    <3>4. first <= source /\ first <= Len(sources) /\ supports(sources[first].kind, family)
      BY <3>2 DEF BoundaryInv
    <3>5. first # source
      BY <3>2, <3>4 DEF SameSeries
    <3>6. first \in 1..Len(sources) /\ first < source
      BY <3>4, <3>5, <2>2 DEF PlaceInv
    <3> QED
      BY <3>1, <3>3, <3>4, <3>6, <2>5
  <2>8. CASE NextState
    <3>1. PICK x : lines' = Append(lines, x) /\ ~x.header /\ x.family = StateFamily
      BY <2>8, NextStateLine
    <3>2. ~(x.family < StateFamily)
      BY <3>1, StateFamilyIs
    <3> QED
      BY <3>1, <3>2, <2>5
  <2> QED
    BY <2>4, <2>6, <2>7, <2>8 DEF EncodeStep
<1> QED
  BY <1>1, <1>2, <1>3, <1>4, StepCases DEF ReadStep

LEMMA CoverInvStep ==
  ASSUME CaptureInv, SourcesInv, PlaceInv, BufferInv, BoundaryInv, CoverInv, [Next]_vars
  PROVE  CoverInv'
<1>0. family \in 1..11 /\ Len(sources) \in Nat
  BY StateFamilyIs, SourcesFacts DEF PlaceInv
<1>1. CASE AppStep \/ UNCHANGED vars
  <2>1. UNCHANGED <<lines, family, sources, source, first, pc>>
    BY <1>1, AppUnchanged DEF vars, scrapeVars, placeVars, readVars
  <2> QED
    BY <2>1 DEF CoverInv, DoneWith, SampleLines, Base
<1>2. CASE BeginCapture \/ CaptureTiming \/ CaptureScalars \/ CaptureStates
  <2>1. family' = 1 /\ Base' = 1
    BY <1>2, ConstructFacts
  <2>2. \A f \in 1..10 : ~(f < family')
    BY <2>1
  <2>3. \A n : \A k \in 1..n : ~(k < Base')
    BY <2>1
  <2> QED
    BY <2>2, <2>3 DEF CoverInv, DoneWith
<1>3. CASE NextFamily
  <2>1. /\ pc = "fill" /\ family' = family + 1 /\ source' = 1 /\ pc' = pc /\ Supported = {}
        /\ UNCHANGED <<lines, sources>>
    BY <1>3 DEF NextFamily, NeedsSample, scrapeVars
  <2>2. SampleLines' = SampleLines
    BY <2>1 DEF SampleLines
  <2>3. Base = source /\ Base' = 1
    BY <2>1 DEF Base
  <2>4. ASSUME NEW f \in 1..10, NEW k \in 1..Len(sources), supports(sources[k].kind, f),
               f < family + 1 \/ (f = family + 1 /\ k < 1)
        PROVE  \E i \in SampleLines : lines[i].family = f /\ lines[i].labels = LabelSet(sources[k])
    <3>1. f < family \/ f = family
      BY <2>4, <1>0
    <3>2. CASE f = family
      <4>1. k \notin source..Len(sources)
        BY <3>2, <2>1, <2>4 DEF Supported
      <4>2. k < source
        BY <4>1, <1>0 DEF PlaceInv
      <4> QED
        BY <3>2, <4>2, <2>3, <2>4 DEF CoverInv, DoneWith
    <3> QED
      BY <3>1, <3>2, <2>4 DEF CoverInv, DoneWith
  <2>5. ASSUME NEW f \in 1..10, NEW k \in 1..Len(sources), DoneWith(k, f)'
        PROVE  \E i \in SampleLines : lines[i].family = f /\ lines[i].labels = LabelSet(sources[k])
    <3>1. supports(sources[k].kind, f) /\ (f < family + 1 \/ (f = family + 1 /\ k < 1))
      BY <2>1, <2>3, <2>5 DEF DoneWith
    <3> QED
      BY <3>1, <2>4
  <2> QED
    BY <2>1, <2>2, <2>5 DEF CoverInv
<1>4. ASSUME ReadStep, ~NextFamily PROVE CoverInv'
  <2>1. /\ UNCHANGED <<sources, family>>
        /\ Base \in Nat /\ Base' \in Nat /\ Base >= 1 /\ Base <= Base'
        /\ \A k \in Base..(Base' - 1) : k <= Len(sources) =>
              \/ ~supports(sources[k].kind, family)
              \/ EndSeries /\ SameAs(k, first)
    BY <1>4, BaseStep
  <2>2. ASSUME NEW f \in 1..10, NEW k \in 1..Len(sources), DoneWith(k, f)'
        PROVE  \/ \E i \in SampleLines : lines[i].family = f /\ lines[i].labels = LabelSet(sources[k])
               \/ EndSeries /\ f = family /\ LabelSet(sources[k]) = LabelSet(sources[first])
    <3>0. supports(sources[k].kind, f) /\ (f < family \/ (f = family /\ k < Base'))
      BY <2>1, <2>2 DEF DoneWith
    <3>1. CASE f < family \/ (f = family /\ k < Base)
      BY <3>0, <3>1 DEF CoverInv, DoneWith
    <3>2. CASE f = family /\ ~(k < Base)
      <4>0. ~(f < family) /\ k < Base' /\ k \in Int /\ k <= Len(sources)
        BY <3>0, <3>2, <1>0
      <4>1. k \in Base..(Base' - 1) /\ k <= Len(sources)
        <5> PICK b, c : b = Base /\ c = Base'
          OBVIOUS
        <5>1. b \in Nat /\ c \in Nat /\ k < c /\ k \in Int /\ ~(k < b)
          BY <2>1, <3>2, <4>0
        <5>2. k \in b..(c - 1)
          BY ONLY <5>1
        <5> QED
          BY <5>2, <4>0
      <4>2. EndSeries /\ SameAs(k, first)
        BY <4>1, <2>1, <3>0, <3>2
      <4> QED
        BY <4>2, <3>2, SameLabels
    <3> QED
      BY <3>0, <3>1, <3>2
  <2>3. CASE ~EncodeStep
    <3>1. lines' = lines /\ SampleLines' = SampleLines
      BY <1>4, <2>3, SameLines
    <3>2. ~EndSeries
      BY <2>3 DEF EncodeStep
    <3>3. \A f \in 1..10 : \A k \in 1..Len(sources) : DoneWith(k, f)' =>
            \E i \in SampleLines : lines[i].family = f /\ lines[i].labels = LabelSet(sources[k])
      BY <3>2, <2>2
    <3>4. sources' = sources
      BY <2>1
    <3> QED
      BY ONLY <3>1, <3>3, <3>4 DEF CoverInv
  <2>4. ASSUME NEW x, lines' = Append(lines, x),
               EndSeries => ~x.header /\ x.family = family /\ x.labels = LabelSet(sources[first])
        PROVE  CoverInv'
    <3>1. /\ \A i : i \in SampleLines' <=> (i \in SampleLines \/ (i = Len(lines) + 1 /\ ~x.header))
          /\ \A i \in SampleLines : lines'[i] = lines[i]
          /\ lines'[Len(lines) + 1] = x
      BY <2>4, SamplesAfter
    <3>2. ASSUME NEW f \in 1..10, NEW k \in 1..Len(sources), DoneWith(k, f)'
          PROVE  \E i \in SampleLines' :
                   lines'[i].family = f /\ lines'[i].labels = LabelSet(sources[k])
      <4>1. CASE \E i \in SampleLines : lines[i].family = f /\ lines[i].labels = LabelSet(sources[k])
        BY <3>1, <4>1
      <4>2. CASE EndSeries /\ f = family /\ LabelSet(sources[k]) = LabelSet(sources[first])
        BY <3>1, <4>2, <2>4
      <4> QED
        BY <3>2, <4>1, <4>2, <2>2
    <3>3. \A f \in 1..10 : \A k \in 1..Len(sources) : DoneWith(k, f)' =>
            \E i \in SampleLines' : lines'[i].family = f /\ lines'[i].labels = LabelSet(sources[k])
      BY <3>2
    <3>4. sources' = sources
      BY <2>1
    <3> QED
      BY ONLY <3>3, <3>4 DEF CoverInv
  <2>5. CASE Header
    <3>1. PICK x : lines' = Append(lines, x)
      BY <2>5, HeaderLine
    <3>2. ~EndSeries
      BY <2>5 DEF Header, EndSeries, NeedsSample
    <3> QED
      BY <3>1, <3>2, <2>4
  <2>6. CASE EndSeries
    BY <2>4, <2>6, EndSeriesLine
  <2>7. CASE NextState
    <3>1. PICK x : lines' = Append(lines, x)
      BY <2>7, NextStateLine
    <3>2. ~EndSeries
      BY <2>7 DEF NextState, EndSeries, NeedsSample
    <3> QED
      BY <3>1, <3>2, <2>4
  <2> QED
    BY <2>3, <2>5, <2>6, <2>7 DEF EncodeStep
<1> QED
  BY <1>1, <1>2, <1>3, <1>4, StepCases DEF ReadStep


(* The rows that a step leaves behind are not numeric, but the one it emits. *)
LEMMA StateStep ==
  ASSUME RowsInv, PlaceInv, BufferInv, ReadStep
  PROVE  /\ rows' = rows /\ state \in Nat /\ state' \in Nat /\ state >= 1 /\ state <= state'
         /\ \A r \in state..(state' - 1) : rows[r][2] # NotNumeric => NextState /\ r = LeastOf(Numeric)
         /\ NextState => LeastOf(Numeric) \in state..(state' - 1)
         /\ NextState => rows[LeastOf(Numeric)][2] # NotNumeric
<1>0. rows' = rows /\ Len(rows) \in Nat /\ state \in Nat /\ state >= 1 /\ state \in 1..(Len(rows) + 1)
  BY ReadUnchanged DEF RowsInv, PlaceInv
<1>1. CASE NextState
  <2> PICK l : l = LeastOf(Numeric)
    OBVIOUS
  <2>1. Numeric # {} /\ state' = l + 1
    BY <1>1 DEF NextState
  <2>2. /\ l \in state..Len(rows) /\ rows[l][2] # NotNumeric
        /\ \A i \in state..(l - 1) : rows[i][2] = NotNumeric
    BY <2>1, <1>0, NumericFacts
  <2>3. l \in Nat /\ state <= l /\ (l + 1) - 1 = l
    BY <2>2, <1>0
  <2>4. ASSUME NEW r \in state..l, rows[r][2] # NotNumeric PROVE r = l
    <3>1. r \notin state..(l - 1)
      BY <2>2, <2>4
    <3> QED
      BY <3>1, <2>3, <1>0
  <2> QED
    BY <1>0, <1>1, <2>1, <2>2, <2>3, <2>4
<1>2. CASE EndOfFile
  <2>1. Numeric = {} /\ state' = Len(rows) + 1
    BY <1>2 DEF EndOfFile, AtEnd, PastLast
  <2>2. \A r \in state..Len(rows) : rows[r][2] = NotNumeric
    BY <2>1 DEF Numeric
  <2>3. state..(state' - 1) = state..Len(rows)
    BY <2>1, <1>0
  <2>4. ~NextState
    BY <2>1 DEF NextState
  <2> QED
    BY <1>0, <2>1, <2>2, <2>3, <2>4
<1>3. ASSUME state' = state, ~NextState
      PROVE  /\ rows' = rows /\ state \in Nat /\ state' \in Nat /\ state >= 1 /\ state <= state'
             /\ state..(state' - 1) = {} /\ ~NextState
  BY <1>0, <1>3
<1>4. ASSUME NEW n \in Sizes, Read(n) PROVE state' = state /\ ~NextState
  BY <1>4 DEF Read, placeVars, NextState, NeedsSample
<1>5. Copy => state' = state /\ ~NextState
  <2>1. BufferLen \in Nat /\ offset \in Nat
    BY ReaderAssumption DEF BufferInv, BufferLen
  <2> QED
    BY <2>1 DEF Copy, placeVars, NextState, NeedsSample
<1>6. Header \/ BeginSeries \/ Sum \/ EndSeries \/ NextFamily => state' = state
  BY DEF Header, BeginSeries, Sum, EndSeries, NextFamily, placeVars
<1> QED
  BY <1>1, <1>2, <1>3, <1>4, <1>5, <1>6 DEF ReadStep

LEMMA StateInvStep ==
  ASSUME RowsInv, PlaceInv, BufferInv, StateInv, [Next]_vars
  PROVE  StateInv'
<1>1. CASE AppStep \/ UNCHANGED vars
  <2>1. UNCHANGED <<lines, rows, state>>
    BY <1>1, AppUnchanged DEF vars, scrapeVars, placeVars, readVars
  <2> QED
    BY <2>1 DEF StateInv, SampleLines, StateFamily
<1>2. CASE BeginCapture \/ CaptureTiming \/ CaptureScalars \/ CaptureStates
  <2>1. SampleLines' = {} /\ state' = 1
    BY <1>2, ConstructFacts
  <2>2. 1..(state' - 1) = {}
    BY <2>1
  <2> QED
    BY <2>1, <2>2 DEF StateInv
<1>3. CASE ReadStep
  <2>1. /\ rows' = rows /\ state \in Nat /\ state' \in Nat /\ state >= 1 /\ state <= state'
        /\ \A r \in state..(state' - 1) : rows[r][2] # NotNumeric => NextState /\ r = LeastOf(Numeric)
        /\ NextState => LeastOf(Numeric) \in state..(state' - 1)
        /\ NextState => rows[LeastOf(Numeric)][2] # NotNumeric
    BY <1>3, StateStep
  <2>0. \A r : r \in 1..(state' - 1) <=> (r \in 1..(state - 1) \/ r \in state..(state' - 1))
    <3> PICK b, c : b = state /\ c = state'
      OBVIOUS
    <3>1. b \in Nat /\ c \in Nat /\ b >= 1 /\ b <= c
      BY <2>1
    <3>2. \A r : r \in 1..(c - 1) <=> (r \in 1..(b - 1) \/ r \in b..(c - 1))
      BY ONLY <3>1
    <3> QED
      BY <3>2
  <2> DEFINE Shows(ln, r) == /\ ln.family = StateFamily
                             /\ ln.labels = rows[r][1] /\ ln.value = rows[r][2]
  <2>2. ASSUME NEW i \in SampleLines, lines[i].family = StateFamily
        PROVE  \E r \in 1..(state' - 1) : rows[r][2] # NotNumeric /\ Shows(lines[i], r)
    <3>1. PICK r \in 1..(state - 1) :
                 rows[r][2] # NotNumeric /\ lines[i].labels = rows[r][1] /\ lines[i].value = rows[r][2]
      BY <2>2 DEF StateInv
    <3>2. r \in 1..(state' - 1)
      BY <2>0
    <3> QED
      BY <3>1, <3>2, <2>2
  <2>3. ASSUME NEW r \in 1..(state' - 1), rows[r][2] # NotNumeric
        PROVE  \/ \E i \in SampleLines : Shows(lines[i], r)
               \/ NextState /\ r = LeastOf(Numeric)
    <3>1. CASE r \in 1..(state - 1)
      BY <2>3, <3>1 DEF StateInv
    <3>2. CASE r \in state..(state' - 1)
      BY <2>1, <2>3, <3>2
    <3> QED
      BY <3>1, <3>2, <2>0
  <2>4. ASSUME \A i \in SampleLines' : lines'[i].family = StateFamily =>
                 \E r \in 1..(state' - 1) : rows[r][2] # NotNumeric /\ Shows(lines'[i], r),
               \A r \in 1..(state' - 1) : rows[r][2] # NotNumeric =>
                 \E i \in SampleLines' : Shows(lines'[i], r)
        PROVE  StateInv'
    <3>1. StateFamily' = StateFamily
      BY DEF StateFamily
    <3> QED
      BY <2>1, <2>4, <3>1 DEF StateInv
  <2>5. CASE ~EncodeStep
    <3>1. lines' = lines /\ SampleLines' = SampleLines
      BY <1>3, <2>5, SameLines
    <3>2. ~NextState
      BY <2>5 DEF EncodeStep
    <3> HIDE DEF Shows
    <3> QED
      BY <3>1, <3>2, <2>2, <2>3, <2>4
  <2>6. ASSUME NEW x, lines' = Append(lines, x),
               ~x.header /\ x.family = StateFamily => NextState,
               NextState => ~x.header /\ Shows(x, LeastOf(Numeric))
        PROVE  StateInv'
    <3>1. /\ \A i : i \in SampleLines' <=> (i \in SampleLines \/ (i = Len(lines) + 1 /\ ~x.header))
          /\ \A i \in SampleLines : lines'[i] = lines[i]
          /\ lines'[Len(lines) + 1] = x
      BY <2>6, SamplesAfter
    <3>2. NextState => LeastOf(Numeric) \in 1..(state' - 1)
      BY <2>1
    <3> HIDE DEF Shows
    <3>3. ASSUME NEW i \in SampleLines', lines'[i].family = StateFamily
          PROVE  \E r \in 1..(state' - 1) : rows[r][2] # NotNumeric /\ Shows(lines'[i], r)
      <4>1. CASE i \in SampleLines
        BY <3>1, <3>3, <4>1, <2>2
      <4>2. CASE i = Len(lines) + 1 /\ ~x.header
        BY <3>1, <3>2, <3>3, <4>2, <2>1, <2>6
      <4> QED
        BY <3>1, <4>1, <4>2
    <3>4. ASSUME NEW r \in 1..(state' - 1), rows[r][2] # NotNumeric
          PROVE  \E i \in SampleLines' : Shows(lines'[i], r)
      <4>1. CASE \E i \in SampleLines : Shows(lines[i], r)
        BY <3>1, <4>1
      <4>2. CASE NextState /\ r = LeastOf(Numeric)
        BY <3>1, <4>2, <2>6
      <4> QED
        BY <3>4, <4>1, <4>2, <2>3
    <3> QED
      BY <3>3, <3>4, <2>4
  <2>7. CASE Header
    <3>1. ~NextState
      BY <2>7 DEF Header, NextState
    <3> QED
      BY <2>6, <2>7, <3>1, HeaderLine
  <2>8. CASE EndSeries
    <3>1. ~NextState /\ family # StateFamily
      BY <2>8, StateFamilyIs DEF EndSeries, NextState, NeedsSample, PlaceInv
    <3> QED
      BY <2>6, <2>8, <3>1, EndSeriesLine
  <2>9. CASE NextState
    BY <2>6, <2>9, NextStateLine
  <2> QED
    BY <2>5, <2>7, <2>8, <2>9 DEF EncodeStep
<1> QED
  BY <1>1, <1>2, <1>3, StepCases DEF ReadStep

(* A sample that is added is of no series that has one. *)
LEMMA SeriesOnceStep ==
  ASSUME CaptureInv, SourcesInv, RowsInv, PlaceInv, BufferInv, BoundaryInv, SampleInv, StateInv,
         SeriesOnce, [Next]_vars
  PROVE  SeriesOnce'
<1>1. CASE AppStep \/ UNCHANGED vars
  <2>1. lines' = lines
    BY <1>1, AppUnchanged DEF vars, readVars
  <2> QED
    BY <2>1 DEF SeriesOnce, SampleLines
<1>2. CASE BeginCapture \/ CaptureTiming \/ CaptureScalars \/ CaptureStates
  BY <1>2, ConstructFacts DEF SeriesOnce
<1>3. CASE ReadStep /\ ~EncodeStep
  BY <1>3, SameLines DEF SeriesOnce
<1>4. ASSUME NEW x, lines' = Append(lines, x),
             ~x.header => \A i \in SampleLines :
               ~(lines[i].family = x.family /\ lines[i].labels = x.labels)
      PROVE  SeriesOnce'
  <2>1. /\ \A i : i \in SampleLines' <=> (i \in SampleLines \/ (i = Len(lines) + 1 /\ ~x.header))
        /\ \A i \in SampleLines : lines'[i] = lines[i]
        /\ lines'[Len(lines) + 1] = x
    BY <1>4, SamplesAfter
  <2>2. ASSUME NEW i \in SampleLines', NEW j \in SampleLines',
               lines'[i].family = lines'[j].family, lines'[i].labels = lines'[j].labels
        PROVE  i = j
    <3>1. CASE i \in SampleLines /\ j \in SampleLines
      BY <2>1, <2>2, <3>1 DEF SeriesOnce
    <3>2. CASE i = Len(lines) + 1 /\ ~x.header /\ j \in SampleLines
      BY <2>1, <2>2, <3>2, <1>4
    <3>3. CASE j = Len(lines) + 1 /\ ~x.header /\ i \in SampleLines
      BY <2>1, <2>2, <3>3, <1>4
    <3> QED
      BY <2>1, <3>1, <3>2, <3>3
  <2> QED
    BY <2>2 DEF SeriesOnce
<1>5. CASE Header
  BY <1>4, <1>5, HeaderLine
<1>6. CASE EndSeries
  <2>1. PICK x : /\ lines' = Append(lines, x) /\ ~x.header /\ x.family = family
                 /\ x.labels = LabelSet(sources[first])
    BY <1>6, EndSeriesLine
  <2>2. pc = "sum" /\ family \in 1..10 /\ family < StateFamily
    BY <1>6, StateFamilyIs DEF EndSeries, PlaceInv
  <2>3. first \in 1..Len(sources) /\ supports(sources[first].kind, family)
    BY <2>2, SourcesFacts DEF BoundaryInv, PlaceInv
  <2>4. Base = first
    BY <2>2 DEF Base
  <2>5. ASSUME NEW i \in SampleLines, lines[i].family = family, lines[i].labels = LabelSet(sources[first])
        PROVE  FALSE
    <3>1. PICK k \in 1..Len(sources) :
                 k < first /\ supports(sources[k].kind, family) /\ LabelSet(sources[k]) = LabelSet(sources[first])
      BY <2>2, <2>4, <2>5 DEF SampleInv
    <3>2. IsSource(sources[k]) /\ IsSource(sources[first])
      BY <2>3, SourcesFacts
    <3>3. SameAs(k, first)
      BY <3>1, <3>2, <2>2, <2>3, LabelsIdentify DEF SameAs
    <3>4. k \in 1..(first - 1) /\ first \in first..Len(sources)
      BY <3>1, <2>3, SourcesFacts
    <3> QED
      BY <3>1, <3>3, <3>4, <2>3, <2>4 DEF BoundaryInv
  <2> QED
    BY <2>1, <2>5, <1>4
<1>7. CASE NextState
  <2> PICK l : l = LeastOf(Numeric)
    OBVIOUS
  <2>1. PICK x : /\ lines' = Append(lines, x) /\ ~x.header /\ x.family = StateFamily
                 /\ x.labels = rows[l][1]
    BY <1>7, NextStateLine
  <2>2. l \in state..Len(rows) /\ state \in 1..(Len(rows) + 1) /\ DOMAIN rows = 1..Len(rows)
        /\ Len(rows) \in Nat
    BY <1>7, NumericFacts DEF NextState, PlaceInv, RowsInv
  <2>3. ASSUME NEW i \in SampleLines, lines[i].family = StateFamily, lines[i].labels = rows[l][1]
        PROVE  FALSE
    <3>1. PICK r \in 1..(state - 1) : lines[i].labels = rows[r][1]
      BY <2>3 DEF StateInv
    <3>2. r \in DOMAIN rows /\ l \in DOMAIN rows /\ r # l
      BY <2>2
    <3> QED
      BY <3>1, <3>2, <2>3 DEF RowsInv
  <2> QED
    BY <2>1, <2>3, <1>4
<1> QED
  BY <1>1, <1>2, <1>3, <1>5, <1>6, <1>7, StepCases DEF ReadStep, EncodeStep


----------------------------------------------------------------------------
(***************************************************************************)
(* The theorems.                                                           *)
(***************************************************************************)
LEMMA ReaderInit ==
  ASSUME Init
  PROVE  ReaderInv
<1> USE DEF Init
<1>1. CaptureInv
  BY MetasAssumption DEF CaptureInv
<1>2. SourcesInv
  BY DEF SourcesInv
<1>3. RowsInv
  <2>1. states \in [Fields -> StateValues \cup {None}]
    OBVIOUS
  <2>2. rows = <<>> /\ DOMAIN rows = {} /\ rows \in Seq(Fields \X StateValues)
    OBVIOUS
  <2> QED
    BY <2>1, <2>2 DEF RowsInv
<1>4. ValueInv
  <2>1. updates \in 0..MaxUpdates
    BY ReaderAssumption
  <2>2. value \in [Items -> [Counters -> Int]]
    OBVIOUS
  <2>3. ASSUME NEW m \in Metas, NEW c \in Counters PROVE value[m.item][c] \in 0..Top
    <3>1. m.item \in Items
      BY DEF Items
    <3>2. value[m.item][c] = 0
      BY <3>1
    <3> QED
      BY <3>2, ReaderAssumption
  <2> QED
    BY <2>1, <2>2, <2>3 DEF ValueInv
<1>5. Len(sources) = 0 /\ Len(rows) = 0
  OBVIOUS
<1>6. PlaceInv
  <2>1. pc = "new" /\ family = 1 /\ source = 1 /\ first = 1 /\ state = 1 /\ header = FALSE
        /\ eof = FALSE
    OBVIOUS
  <2>2. /\ family \in 1..StateFamily /\ source \in 1..(Len(sources) + 1)
        /\ first \in 1..(Len(sources) + 1) /\ state \in 1..(Len(rows) + 1) /\ ~(state > 1)
    BY <1>5, <2>1, StateFamilyIs
  <2> QED
    BY <2>1, <2>2 DEF PlaceInv
<1>7. DOMAIN lines = {} /\ Len(lines) = 0 /\ Len(out) = 0 /\ DOMAIN out = {} /\ BufferLen = 0
  BY DEF BufferLen
<1>8. BufferInv
  <2>1. lines \in Seq(Range(lines)) /\ out \in Seq(Nat \X Nat)
    OBVIOUS
  <2> QED
    BY <1>7, <2>1 DEF BufferInv
<1>9. FamilyInv
  BY <1>7 DEF FamilyInv, Grouped
<1>10. BytesInOrder
  BY <1>7, ReaderAssumption DEF BytesInOrder
<1>11. SampleLines = {}
  BY <1>7 DEF SampleLines
<1>12. Base = 1 /\ 1..(Base - 1) = {} /\ 1..(state - 1) = {} /\ 1..Len(sources) = {}
  BY <1>5 DEF Base
<1>13. BoundaryInv
  BY <1>12 DEF BoundaryInv
<1>14. SampleInv /\ CoverInv /\ StateInv /\ SeriesOnce
  BY <1>11, <1>12 DEF SampleInv, CoverInv, StateInv, SeriesOnce
<1> QED
  BY <1>1, <1>2, <1>3, <1>4, <1>6, <1>8, <1>9, <1>10, <1>13, <1>14 DEF ReaderInv

LEMMA ReaderNext ==
  ASSUME ReaderInv, [Next]_vars
  PROVE  ReaderInv'
<1>1. CaptureInv' /\ SourcesInv' /\ RowsInv' /\ ValueInv'
  BY CaptureInvStep, SourcesInvStep, RowsInvStep, ValueInvStep DEF ReaderInv
<1>2. PlaceInv' /\ BufferInv' /\ FamilyInv' /\ BytesInOrder'
  BY PlaceInvStep, BufferInvStep, FamilyInvStep, BytesStep DEF ReaderInv
<1>3. BoundaryInv' /\ SampleInv' /\ CoverInv' /\ StateInv'
  BY BoundaryInvStep, SampleInvStep, CoverInvStep, StateInvStep DEF ReaderInv
<1>4. SeriesOnce'
  BY SeriesOnceStep DEF ReaderInv
<1> QED
  BY <1>1, <1>2, <1>3, <1>4 DEF ReaderInv

(* The inductive invariant holds of every scrape, whatever is registered,   *)
(* updated and recorded while the reader is constructed and read            *)
(* (prometheus.rs, from_registry, read and next_sample).                    *)
THEOREM ReaderInvariance == Spec => []ReaderInv
<1>1. Init => ReaderInv
  BY ReaderInit
<1>2. ReaderInv /\ [Next]_vars => ReaderInv'
  BY ReaderNext
<1> QED
  BY <1>1, <1>2, PTL DEF Spec

(* The reader's indices stay in their ranges, and a sum in the width of its *)
(* family (saturating_add, prometheus.rs).                                  *)
THEOREM ReaderTypes == Spec => []TypeOK
<1>1. ASSUME ReaderInv PROVE TypeOK
  <2> USE DEF ReaderInv
  <2>1. registered \subseteq Metas /\ captured \subseteq registered
    BY <1>1 DEF CaptureInv, PlaceInv
  <2>2. /\ pc \in {"new", "timing", "scalars", "states", "idle", "fill", "sum"}
        /\ family \in 1..StateFamily
        /\ source \in 1..(Len(sources) + 1) /\ first \in 1..(Len(sources) + 1)
        /\ state \in 1..(Len(rows) + 1) /\ header \in BOOLEAN
    BY <1>1 DEF PlaceInv
  <2>3. room \in Nat /\ updates \in 0..MaxUpdates
    BY <1>1 DEF BufferInv, ValueInv
  <2>4. buffer \in 0..Len(lines)
    <3>1. Len(lines) \in Nat /\ buffer \in {0, Len(lines)}
      BY <1>1 DEF BufferInv
    <3> QED
      BY <3>1
  <2>5. offset \in 0..LineLen
    <3>1. offset \in 0..BufferLen /\ (BufferLen = 0 \/ BufferLen = LineLen)
      BY <1>1 DEF BufferInv, BufferLen
    <3> QED
      BY <3>1, ReaderAssumption
  <2>6. pc = "sum" => acc \in IF IsGauge(family) THEN (-Limit - 1)..Limit ELSE 0..Top
    BY <1>1 DEF BoundaryInv
  <2> QED
    BY <2>1, <2>2, <2>3, <2>4, <2>5, <2>6 DEF TypeOK
<1> QED
  BY <1>1, ReaderInvariance, PTL

(* No series is emitted twice in a scrape: the sort brings the sources of a *)
(* series together, next_sample takes them all before it moves on, and the  *)
(* labels of two series of a family differ (prometheus.rs, next_sample).    *)
THEOREM SeriesAppearOnce == Spec => []SeriesOnce
<1>1. ReaderInv => SeriesOnce
  BY DEF ReaderInv
<1> QED
  BY <1>1, ReaderInvariance, PTL

(* The bytes delivered are those of the lines, in order, none lost and none *)
(* twice, for all sizes of the caller's buffers (prometheus.rs, read).      *)
THEOREM BytesDelivered == Spec => []BytesInOrder
<1>1. ReaderInv => BytesInOrder
  BY DEF ReaderInv
<1> QED
  BY <1>1, ReaderInvariance, PTL

(* The lines of a family are one block, led by its only TYPE line           *)
(* (prometheus.rs, next_sample).                                            *)
THEOREM FamiliesGrouped == Spec => []Grouped
<1>1. ReaderInv => Grouped
  BY DEF ReaderInv, FamilyInv
<1> QED
  BY <1>1, ReaderInvariance, PTL

LEMMA ScrapeFacts ==
  ASSUME ReaderInv
  PROVE  ScrapeComplete
<1> USE DEF ReaderInv
<1>1. SUFFICES ASSUME eof
               PROVE  /\ atStart \subseteq captured /\ captured \subseteq atReady
                      /\ \A f \in DOMAIN FAMILIES :
                           {lines[i].labels : i \in {i \in SampleLines : lines[i].family = f}} =
                           UNION {Exports(m, f) : m \in captured}
                      /\ {<<lines[i].labels, lines[i].value>> :
                            i \in {i \in SampleLines : lines[i].family = StateFamily}}
                           = {rows[i] : i \in {i \in DOMAIN rows : rows[i][2] # NotNumeric}}
  BY DEF ScrapeComplete
<1>2. /\ pc \in {"idle", "fill"} /\ family = 11 /\ StateFamily = 11
      /\ state = Len(rows) + 1 /\ Len(rows) \in Nat /\ DOMAIN rows = 1..Len(rows)
  BY <1>1, StateFamilyIs DEF PlaceInv, AtEnd, PastLast, RowsInv
<1>3. atStart \subseteq captured /\ captured \subseteq atReady
  BY <1>2 DEF CaptureInv
<1>4. DOMAIN FAMILIES = 1..10
  BY DEF FAMILIES
<1>5. /\ \A k \in 1..Len(sources) : \E m \in captured : sources[k] \in SourcesOf(m)
      /\ \A m \in captured : \A s \in SourcesOf(m) : \E k \in 1..Len(sources) : sources[k] = s
  BY <1>2, SourcesFacts
<1>6. ASSUME NEW f \in 1..10
      PROVE  {lines[i].labels : i \in {i \in SampleLines : lines[i].family = f}} =
             UNION {Exports(m, f) : m \in captured}
  <2>0. f < StateFamily /\ f < family
    BY <1>2
  <2>1. ASSUME NEW i \in SampleLines, lines[i].family = f
        PROVE  \E m \in captured : lines[i].labels \in Exports(m, f)
    <3>1. PICK k \in 1..Len(sources) :
                 supports(sources[k].kind, f) /\ lines[i].labels = LabelSet(sources[k])
      BY <2>0, <2>1 DEF SampleInv
    <3>2. PICK m \in captured : sources[k] \in SourcesOf(m)
      BY <1>5
    <3> QED
      BY <3>1, <3>2 DEF Exports
  <2>2. ASSUME NEW m \in captured, NEW l \in Exports(m, f)
        PROVE  \E i \in SampleLines : lines[i].family = f /\ lines[i].labels = l
    <3>1. PICK s \in SourcesOf(m) : supports(s.kind, f) /\ l = LabelSet(s)
      BY DEF Exports
    <3>2. PICK k \in 1..Len(sources) : sources[k] = s
      BY <1>5
    <3>3. DoneWith(k, f)
      BY <2>0, <3>1, <3>2 DEF DoneWith
    <3> QED
      BY <3>1, <3>2, <3>3 DEF CoverInv
  <2> QED
    BY <2>1, <2>2
<1>7. {<<lines[i].labels, lines[i].value>> : i \in {i \in SampleLines : lines[i].family = StateFamily}}
        = {rows[i] : i \in {i \in DOMAIN rows : rows[i][2] # NotNumeric}}
  <2>1. \A r : r \in 1..(state - 1) <=> r \in DOMAIN rows
    BY <1>2
  <2>2. \A r \in DOMAIN rows : rows[r] = <<rows[r][1], rows[r][2]>>
    <3>1. \A r \in DOMAIN rows : rows[r] \in Fields \X StateValues
      BY DEF RowsInv
    <3> QED
      BY <3>1
  <2>3. ASSUME NEW i \in SampleLines, lines[i].family = StateFamily
        PROVE  \E r \in DOMAIN rows : rows[r][2] # NotNumeric
                                      /\ rows[r] = <<lines[i].labels, lines[i].value>>
    BY <2>1, <2>2, <2>3 DEF StateInv
  <2>4. ASSUME NEW r \in DOMAIN rows, rows[r][2] # NotNumeric
        PROVE  \E i \in SampleLines : lines[i].family = StateFamily
                                      /\ rows[r] = <<lines[i].labels, lines[i].value>>
    BY <2>1, <2>2, <2>4 DEF StateInv
  <2> QED
    BY <2>3, <2>4
<1> QED
  BY <1>3, <1>4, <1>6, <1>7

(* A scrape that has ended shows exactly the series of what it captured:    *)
(* all that was registered before the reader was constructed, nothing that  *)
(* was registered after, and the numeric RPC fields of the snapshot         *)
(* (prometheus.rs, from_registry and next_sample).                          *)
THEOREM ScrapesComplete == Spec => []ScrapeComplete
<1>1. ReaderInv => ScrapeComplete
  BY ScrapeFacts
<1> QED
  BY <1>1, ReaderInvariance, PTL

LEMMA EofStep ==
  ASSUME ReaderInv, [Next]_vars, eof
  PROVE  out' = out /\ lines' = lines
<1> USE DEF ReaderInv
<1>1. /\ AtEnd /\ pc \in {"idle", "fill"} /\ buffer = 0
      /\ family = StateFamily /\ header /\ Numeric = {}
  BY DEF PlaceInv, BufferInv, AtEnd
<1>2. BufferLen = 0 /\ offset = 0
  BY <1>1 DEF BufferInv, BufferLen
<1>3. ~Copy
  BY <1>2 DEF Copy
<1>4. ~EndSeries /\ ~Header /\ ~NextState /\ ~Sum
  BY <1>1 DEF EndSeries, Header, NextState, Sum
<1>5. ASSUME NEW n \in Sizes, Read(n) PROVE out' = out /\ lines' = lines
  BY <1>5 DEF Read
<1>6. CASE AppStep \/ UNCHANGED vars
  <2>1. UNCHANGED readVars
    BY <1>6, AppUnchanged DEF vars
  <2> QED
    BY <2>1 DEF readVars
<1>7. CASE BeginCapture \/ CaptureTiming \/ CaptureScalars \/ CaptureStates
  BY <1>7 DEF BeginCapture, CaptureTiming, CaptureScalars, CaptureStates, readVars
<1>8. CASE BeginSeries \/ NextFamily \/ EndOfFile
  BY <1>8 DEF BeginSeries, NextFamily, EndOfFile
<1> QED
  BY <1>3, <1>4, <1>5, <1>6, <1>7, <1>8, StepCases

(* After the end of file every read returns nothing, whatever is registered *)
(* or recorded since: the end leaves an empty buffer and an index past the  *)
(* last row (prometheus.rs, next_sample).                                   *)
THEOREM EndIsFinal == Spec => EofStable
<1>1. ReaderInv /\ [Next]_vars => [eof => out' = out /\ lines' = lines]_vars
  BY EofStep
<1> QED
  BY <1>1, ReaderInvariance, PTL DEF Spec, EofStable

----------------------------------------------------------------------------
(***************************************************************************)
(* Sums that saturate on their way.                                        *)
(***************************************************************************)

(* a is the sum of v clamped to its width, unless the order matters.        *)
SumsTo(f, v, S, a) == a = Clamp(f, SumOver(v, S)) \/ OrderMatters(f, v)

Above(v, D) == {m \in D : v[m] > 0}
Below(v, D) == {m \in D : v[m] < 0}

(* A sum is between those of its two signs. *)
LEMMA PartsFacts ==
  ASSUME NEW D, IsFiniteSet(D), NEW v, \A m \in D : v[m] \in Int
  PROVE  /\ SumOver(v, D) \in Int /\ SumOver(v, Above(v, D)) \in Int /\ SumOver(v, Below(v, D)) \in Int
         /\ SumOver(v, Below(v, D)) <= 0 /\ 0 <= SumOver(v, Above(v, D))
         /\ SumOver(v, Below(v, D)) <= SumOver(v, D) /\ SumOver(v, D) <= SumOver(v, Above(v, D))
         /\ Above(v, D) = {} => SumOver(v, Above(v, D)) = 0
         /\ Below(v, D) = {} => SumOver(v, Below(v, D)) = 0
<1> PICK up, down : up = {m \in D : v[m] > 0} /\ down = {m \in D : v[m] < 0}
  OBVIOUS
<1>1. up = Above(v, D) /\ down = Below(v, D)
  BY DEF Above, Below
<1>2. /\ 0 <= SumFunctionOnSet(v, up) /\ SumFunctionOnSet(v, down) <= 0
      /\ SumFunctionOnSet(v, down) <= SumFunctionOnSet(v, D)
      /\ SumFunctionOnSet(v, D) <= SumFunctionOnSet(v, up)
  BY SignedSums
<1>3. up \in SUBSET D /\ down \in SUBSET D /\ D \in SUBSET D
  OBVIOUS
<1>4. /\ SumFunctionOnSet(v, D) \in Int /\ SumFunctionOnSet(v, up) \in Int
      /\ SumFunctionOnSet(v, down) \in Int /\ SumFunctionOnSet(v, {}) = 0
  BY <1>3, SumFacts
<1> QED
  BY <1>1, <1>2, <1>4 DEF SumOver

(* The order of gauges matters when one sign overflows and there are both;  *)
(* that of counters never does.                                             *)
LEMMA OrderMeans ==
  ASSUME NEW f, NEW D, IsFiniteSet(D), NEW v, DOMAIN v = D, \A m \in D : v[m] \in Int
  PROVE  /\ IsGauge(f) => (OrderMatters(f, v) <=>
              /\ Above(v, D) # {} /\ Below(v, D) # {}
              /\ SumOver(v, Above(v, D)) > Limit \/ SumOver(v, Below(v, D)) < -Limit - 1)
         /\ Below(v, D) = {} => ~OrderMatters(f, v)
<1> PICK up, down : up = Above(v, D) /\ down = Below(v, D)
  OBVIOUS
<1> PICK u, d : u = SumOver(v, up) /\ d = SumOver(v, down)
  OBVIOUS
<1>1. OrderMatters(f, v) <=>
        up # {} /\ down # {} /\ (Clamp(f, u) # u \/ Clamp(f, d) # d)
  <2>1. up = {m \in DOMAIN v : v[m] > 0} /\ down = {m \in DOMAIN v : v[m] < 0}
    BY DEF Above, Below
  <2> QED
    BY <2>1 DEF OrderMatters
<1>2. u \in Int /\ d \in Int /\ 0 <= u /\ d <= 0
  BY PartsFacts
<1>3. Limit \in Nat
  BY ReaderAssumption
<1>4. IsGauge(f) => (Clamp(f, u) # u <=> u > Limit) /\ (Clamp(f, d) # d <=> d < -Limit - 1)
  BY ONLY <1>2, <1>3 DEF Clamp
<1> QED
  BY <1>1, <1>4

(* w has the values of v, which are those of D, and that of e. *)
Extends(w, v, D, e) ==
  /\ IsFiniteSet(D) /\ e \notin D
  /\ DOMAIN v = D /\ DOMAIN w = D \cup {e}
  /\ \A m \in D : v[m] \in Int /\ w[m] = v[m]
  /\ w[e] \in Int

(* One more value moves each sign away from zero. *)
MovesOn(w, v, D, e, E) ==
  /\ SumOver(w, E) = SumOver(v, D) + w[e]
  /\ SumOver(v, Above(v, D)) <= SumOver(w, Above(w, E))
  /\ SumOver(w, Below(w, E)) <= SumOver(v, Below(v, D))
  /\ Above(v, D) \subseteq Above(w, E) /\ Below(v, D) \subseteq Below(w, E)
  /\ w[e] > 0 => Above(w, E) # {}
  /\ w[e] < 0 => Below(w, E) # {}

LEMMA OneMore ==
  ASSUME NEW w, NEW v, NEW D, NEW e, Extends(w, v, D, e)
  PROVE  MovesOn(w, v, D, e, D \cup {e})
<1>0. IsFiniteSet(D) /\ e \notin D /\ (\A m \in D : v[m] \in Int /\ w[m] = v[m]) /\ w[e] \in Int
  BY DEF Extends
<1> PICK E : E = D \cup {e}
  OBVIOUS
<1>1. IsFiniteSet(E)
  BY <1>0, FS_AddElement
<1>2. \A m \in E : w[m] \in Int
  BY <1>0
<1> PICK u1, d1, u2, d2 : u1 = Above(v, D) /\ d1 = Below(v, D) /\ u2 = Above(w, E) /\ d2 = Below(w, E)
  OBVIOUS
<1>3. /\ u1 \subseteq u2 /\ d1 \subseteq d2 /\ u1 \subseteq D /\ d1 \subseteq D
      /\ u2 \subseteq E /\ d2 \subseteq E
      /\ \A m \in u2 : w[m] > 0
      /\ \A m \in d2 : w[m] < 0
      /\ w[e] > 0 => e \in u2
      /\ w[e] < 0 => e \in d2
  BY <1>0 DEF Above, Below
<1>4. IsFiniteSet(u1) /\ IsFiniteSet(d1) /\ IsFiniteSet(u2) /\ IsFiniteSet(d2)
  BY <1>0, <1>1, <1>3, FS_Subset
<1>5. SumFunctionOnSet(w, D) = SumFunctionOnSet(v, D)
  BY <1>0, SumSame
<1>6. SumFunctionOnSet(w, E) = SumFunctionOnSet(w, D) + w[e]
  <2>1. D \in SUBSET E /\ e \in E \ D
    BY <1>0
  <2> QED
    BY <1>1, <1>2, <2>1, SumAdd
<1>7. SumFunctionOnSet(w, u1) = SumFunctionOnSet(v, u1)
  <2>1. \A m \in u1 : v[m] \in Int /\ w[m] = v[m]
    BY <1>0, <1>3
  <2> QED
    BY <1>4, <2>1, SumSame
<1>8. SumFunctionOnSet(w, d1) = SumFunctionOnSet(v, d1)
  <2>1. \A m \in d1 : v[m] \in Int /\ w[m] = v[m]
    BY <1>0, <1>3
  <2> QED
    BY <1>4, <2>1, SumSame
<1>9. SumFunctionOnSet(w, u1) <= SumFunctionOnSet(w, u2)
  <2>1. \A m \in u2 : w[m] \in Int
    BY <1>2, <1>3
  <2>2. (\A m \in u2 \ u1 : w[m] >= 0) /\ u1 \in SUBSET u2
    BY <2>1, <1>3
  <2> QED
    BY <1>4, <2>1, <2>2, SumGrows
<1>10. SumFunctionOnSet(w, d2) <= SumFunctionOnSet(w, d1)
  <2>1. \A m \in d2 : w[m] \in Int
    BY <1>2, <1>3
  <2>2. (\A m \in d2 \ d1 : w[m] <= 0) /\ d1 \in SUBSET d2
    BY <2>1, <1>3
  <2> QED
    BY <1>4, <2>1, <2>2, SumFalls
<1> QED
  BY <1>0, <1>1, <1>2, <1>3, <1>5, <1>6, <1>7, <1>8, <1>9, <1>10 DEF SumOver, MovesOn

(* What saturating_add does to the sum of some values and one more. *)
LEMMA SumGoesOn ==
  ASSUME NEW w, NEW v, NEW D, NEW e, Extends(w, v, D, e),
         ~IsGauge(family) => \A m \in D \cup {e} : w[m] >= 0,
         NEW a, SumsTo(family, v, D, a)
  PROVE  SumsTo(family, w, D \cup {e}, SaturatingAdd(a, w[e]))
<1> PICK E : E = D \cup {e}
  OBVIOUS
<1>0. /\ IsFiniteSet(D) /\ DOMAIN v = D /\ DOMAIN w = E
      /\ \A m \in D : v[m] \in Int /\ w[m] = v[m] /\ m \in E
      /\ w[e] \in Int /\ e \in E
  BY DEF Extends
<1>1. IsFiniteSet(E) /\ \A m \in E : w[m] \in Int
  BY <1>0, FS_AddElement
<1> PICK s, t, u1, u2, d1, d2, b :
      /\ s = SumOver(v, D) /\ t = SumOver(w, E) /\ b = w[e]
      /\ u1 = SumOver(v, Above(v, D)) /\ u2 = SumOver(w, Above(w, E))
      /\ d1 = SumOver(v, Below(v, D)) /\ d2 = SumOver(w, Below(w, E))
  OBVIOUS
<1> PICK A1, A2, B1, B2 :
      A1 = Above(v, D) /\ A2 = Above(w, E) /\ B1 = Below(v, D) /\ B2 = Below(w, E)
  OBVIOUS
<1>2. /\ s \in Int /\ u1 \in Int /\ d1 \in Int /\ d1 <= 0 /\ 0 <= u1 /\ d1 <= s /\ s <= u1
      /\ A1 = {} => u1 = 0
      /\ B1 = {} => d1 = 0
  BY <1>0, PartsFacts
<1>3. /\ t = s + b /\ u1 <= u2 /\ d2 <= d1 /\ b \in Int
      /\ A1 \subseteq A2 /\ B1 \subseteq B2
      /\ b > 0 => A2 # {}
      /\ b < 0 => B2 # {}
  <2>1. MovesOn(w, v, D, e, E)
    BY OneMore
  <2> QED
    BY <1>0, <2>1 DEF MovesOn
<1>4. u2 \in Int /\ d2 \in Int
  BY <1>1, PartsFacts
<1>5. Limit \in Nat /\ Top \in Nat
  BY ReaderAssumption
<1>6. CASE IsGauge(family)
  <2>1. OrderMatters(family, v) <=> A1 # {} /\ B1 # {} /\ (u1 > Limit \/ d1 < -Limit - 1)
    BY <1>0, <1>6, OrderMeans
  <2>2. OrderMatters(family, w) <=> A2 # {} /\ B2 # {} /\ (u2 > Limit \/ d2 < -Limit - 1)
    BY <1>0, <1>1, <1>6, OrderMeans
  <2>3. CASE OrderMatters(family, v)
    <3>1. A2 # {} /\ B2 # {} /\ (u1 > Limit \/ d1 < -Limit - 1)
      BY <2>1, <2>3, <1>3
    <3>2. u2 > Limit \/ d2 < -Limit - 1
      BY ONLY <3>1, <1>2, <1>3, <1>4, <1>5
    <3> QED
      BY <3>1, <3>2, <2>2 DEF SumsTo
  <2>4. CASE ~OrderMatters(family, v)
    <3>1. a = Clamp(family, s)
      BY <2>4 DEF SumsTo
    <3>2. a = CASE s > Limit -> Limit [] s < -Limit - 1 -> -Limit - 1 [] OTHER -> s
      BY <3>1, <1>6 DEF Clamp
    <3>3. Clamp(family, t) = CASE t > Limit -> Limit [] t < -Limit - 1 -> -Limit - 1 [] OTHER -> t
      BY <1>6 DEF Clamp
    <3>4. SaturatingAdd(a, b) =
            CASE a + b > Limit -> Limit [] a + b < -Limit - 1 -> -Limit - 1 [] OTHER -> a + b
      BY <1>6 DEF SaturatingAdd
    <3>5. CASE s > Limit
      <4>1. A1 # {} /\ u1 > Limit /\ B1 = {}
        BY <3>5, <2>1, <2>4, <1>2, <1>5
      <4>2. CASE b < 0
        <5>1. A2 # {} /\ B2 # {}
          BY <4>1, <4>2, <1>3
        <5>2. u2 > Limit
          BY ONLY <4>1, <1>2, <1>3, <1>4, <1>5
        <5> QED
          BY <5>1, <5>2, <2>2 DEF SumsTo
      <4>3. CASE b >= 0
        <5>1. a = Limit /\ t > Limit
          BY ONLY <3>2, <3>5, <4>3, <1>2, <1>3, <1>5
        <5>2. SaturatingAdd(a, b) = Limit
          BY ONLY <5>1, <3>4, <4>3, <1>3, <1>5
        <5>3. Clamp(family, t) = Limit
          BY ONLY <5>1, <3>3, <1>2, <1>3, <1>5
        <5> QED
          BY <5>2, <5>3 DEF SumsTo
      <4> QED
        BY <4>2, <4>3, <1>3
    <3>6. CASE s < -Limit - 1
      <4>1. B1 # {} /\ d1 < -Limit - 1 /\ A1 = {}
        BY <3>6, <2>1, <2>4, <1>2, <1>5
      <4>2. CASE b > 0
        <5>1. A2 # {} /\ B2 # {}
          BY <4>1, <4>2, <1>3
        <5>2. d2 < -Limit - 1
          BY ONLY <4>1, <1>2, <1>3, <1>4, <1>5
        <5> QED
          BY <5>1, <5>2, <2>2 DEF SumsTo
      <4>3. CASE b <= 0
        <5>1. a = -Limit - 1 /\ t < -Limit - 1
          BY ONLY <3>2, <3>6, <4>3, <1>2, <1>3, <1>5
        <5>2. SaturatingAdd(a, b) = -Limit - 1
          BY ONLY <5>1, <3>4, <4>3, <1>3, <1>5
        <5>3. Clamp(family, t) = -Limit - 1
          BY ONLY <5>1, <3>3, <1>2, <1>3, <1>5
        <5> QED
          BY <5>2, <5>3 DEF SumsTo
      <4> QED
        BY <4>2, <4>3, <1>3
    <3>7. CASE ~(s > Limit) /\ ~(s < -Limit - 1)
      <4>1. a = s
        BY ONLY <3>2, <3>7
      <4>2. SaturatingAdd(a, b) = Clamp(family, t)
        BY ONLY <4>1, <3>3, <3>4, <1>3
      <4> QED
        BY <4>2 DEF SumsTo
    <3> QED
      BY <3>5, <3>6, <3>7
  <2> QED
    BY <2>3, <2>4
<1>7. CASE ~IsGauge(family)
  <2>1. \A m \in E : w[m] >= 0
    BY <1>7
  <2>2. B1 = {}
    <3>1. \A m \in D : ~(v[m] < 0)
      BY <1>0, <2>1
    <3> QED
      BY <3>1 DEF Below
  <2>3. b >= 0 /\ s >= 0
    BY <1>0, <2>1, <2>2, <1>2
  <2>4. ~OrderMatters(family, v)
    BY <1>0, <2>2, OrderMeans
  <2>5. a = Min2(s, Top)
    BY <1>7, <2>4 DEF SumsTo, Clamp
  <2>6. SaturatingAdd(a, b) = Min2(a + b, Top) /\ Clamp(family, t) = Min2(t, Top)
    BY <1>7 DEF SaturatingAdd, Clamp
  <2>7. Min2(a + b, Top) = Min2(t, Top)
    BY ONLY <2>3, <2>5, <1>2, <1>3, <1>5 DEF Min2
  <2> QED
    BY <2>6, <2>7 DEF SumsTo
<1> QED
  BY <1>6, <1>7

(***************************************************************************)
(* What the slots have held, and what a sum has read of it.                *)
(***************************************************************************)

(* Readings of the histories h. *)
ReadingsIn(h, f, S) ==
  {v \in [S -> UNION {h[m.item][CounterIn(m, f)] : m \in S}] :
     \A m \in S : v[m] \in h[m.item][CounterIn(m, f)]}

LEMMA ReadingsMean ==
  ASSUME NEW h, NEW f, NEW S, NEW v
  PROVE  v \in ReadingsIn(h, f, S) <=>
           v = [m \in S |-> v[m]] /\ \A m \in S : v[m] \in h[m.item][CounterIn(m, f)]
<1> PICK U : U = UNION {h[m.item][CounterIn(m, f)] : m \in S}
  OBVIOUS
<1>1. \A m \in S : h[m.item][CounterIn(m, f)] \subseteq U
  OBVIOUS
<1>2. v \in ReadingsIn(h, f, S) <=>
        v \in [S -> U] /\ \A m \in S : v[m] \in h[m.item][CounterIn(m, f)]
  BY DEF ReadingsIn
<1> QED
  BY <1>1, <1>2

(* A counter keeps what it has held. *)
Grows(h, g) == \A x \in Items : \A c \in Counters : h[x][c] \subseteq g[x][c]

LEMMA CounterInFacts ==
  ASSUME NEW m, NEW f \in 1..10
  PROVE  CounterIn(m, f) \in Counters
<1>1. f \in DOMAIN FAMILIES /\ 7 \in DOMAIN FAMILIES /\ FAMILIES[7].counter = "value"
  BY DEF FAMILIES
<1>2. FAMILIES[f].counter \in Counters /\ "value" \in Counters
  BY <1>1 DEF Counters
<1> QED
  BY <1>2 DEF CounterIn

LEMMA ReadingsGrow ==
  ASSUME NEW h, NEW g, Grows(h, g), NEW f \in 1..10, NEW S \in SUBSET Metas,
         NEW v \in ReadingsIn(h, f, S)
  PROVE  v \in ReadingsIn(g, f, S)
<1>1. v = [m \in S |-> v[m]] /\ \A m \in S : v[m] \in h[m.item][CounterIn(m, f)]
  BY ReadingsMean
<1>2. ASSUME NEW m \in S PROVE v[m] \in g[m.item][CounterIn(m, f)]
  <2>1. m.item \in Items /\ CounterIn(m, f) \in Counters
    BY CounterInFacts DEF Items
  <2>2. v[m] \in h[m.item][CounterIn(m, f)]
    BY <1>1
  <2> QED
    BY <2>1, <2>2 DEF Grows
<1> QED
  BY <1>1, <1>2, ReadingsMean

(* A metric exports sources of its own registry only, each of which reads   *)
(* the counter of the metric in the family.                                 *)
LEMMA TagFacts ==
  ASSUME NEW m \in Metas, NEW s \in SourcesOf(m)
  PROVE  /\ s.item = <<IF IsTiming(m) THEN "Timing" ELSE m.profile.mode, m.item>>
         /\ \A f : CounterOf(s, f) = CounterIn(m, f)
<1> PICK r : r = m.profile
  OBVIOUS
<1>1. \A o, k, t : Source(o, k, t, m).item = <<t, m.item>>
  BY DEF Source
<1>2. CASE IsTiming(m)
  <2>1. s \in TimingSources(m)
    BY <1>2 DEF SourcesOf
  <2>2. \E o, k : s = Source(o, k, "Timing", m)
    BY <2>1 DEF TimingSources
  <2>3. s.item = <<"Timing", m.item>>
    BY <2>2, <1>1
  <2> QED
    BY <1>2, <2>3 DEF CounterOf, CounterIn
<1>3. CASE ~IsTiming(m)
  <2>1. s = ScalarSource(m)
    BY <1>3 DEF SourcesOf
  <2>2. s.item = <<r.mode, m.item>>
    BY <2>1, <1>1 DEF ScalarSource
  <2>3. r.mode \in {"Counter", "Gauge"}
    BY <1>3, MetasAssumption DEF IsTiming, WellFormed
  <2> QED
    BY <1>3, <2>2, <2>3 DEF CounterOf, CounterIn
<1> QED
  BY <1>2, <1>3

(* No gauge is summed with counters. *)
LEMMA NotGauge ==
  ASSUME NEW m \in Metas, NEW s \in SourcesOf(m), NEW f, supports(s.kind, f), ~IsGauge(f)
  PROVE  PolicyOf(m.profile) # "Gauge"
<1>1. IsSource(s) /\ (s.item[1] = "Gauge" <=> PolicyOf(m.profile) = "Gauge")
  BY SourcesOfFacts
<1>2. SupportTable(s.kind[1], f)
  BY SupportsFacts
<1>3. f # 9 /\ f # 10
  BY DEF IsGauge
<1>4. s.kind[1] \notin {"ConnGauge", "Gauge"}
  BY <1>2, <1>3 DEF SupportTable
<1> QED
  BY <1>1, <1>4 DEF IsSource

(* What a counter holds is among what it has held, and only gauges have     *)
(* been negative.                                                           *)
HeldInv ==
  /\ held \in [Items -> [Counters -> SUBSET Int]]
  /\ \A x \in Items : \A c \in Counters : value[x][c] \in held[x][c]
  /\ \A m \in Metas : PolicyOf(m.profile) # "Gauge" =>
       \A c \in Counters : held[m.item][c] \subseteq 0..Top

LEMMA HeldStep ==
  ASSUME CaptureInv, ValueInv, ValueInv', HeldInv, [Next]_vars
  PROVE  HeldInv' /\ (pc # "new" => Grows(held, held'))
<1>1. ASSUME UNCHANGED <<value, held>> PROVE HeldInv' /\ Grows(held, held')
  BY <1>1 DEF HeldInv, Grows
<1>2. ASSUME NEW u \in Updates, Update(u)
      PROVE  HeldInv' /\ (pc # "new" => Grows(held, held'))
  <2> DEFINE new == IF \E m \in registered : m.item = u.item /\ PolicyOf(m.profile) = "Gauge"
                      THEN u.amount
                      ELSE (value[u.item][u.counter] + u.amount) % (Top + 1)
  <2> PICK n : n = new
    OBVIOUS
  <2>1. /\ value' = [value EXCEPT ![u.item][u.counter] = n]
        /\ held' = [held EXCEPT ![u.item][u.counter] =
                      IF pc = "new" THEN {n} ELSE held[u.item][u.counter] \cup {n}]
        /\ \E m \in registered : m.item = u.item
    BY <1>2 DEF Update
  <2> HIDE DEF new
  <2>2. u.counter \in Counters /\ u.item \in Items
    BY <2>1, ValuesAssumption DEF CaptureInv, Items
  <2>3. value \in [Items -> [Counters -> Int]] /\ held \in [Items -> [Counters -> SUBSET Int]]
    BY DEF ValueInv, HeldInv
  <2> PICK T : T = IF pc = "new" THEN {n} ELSE held[u.item][u.counter] \cup {n}
    OBVIOUS
  <2>4. /\ value'[u.item][u.counter] = n /\ held'[u.item][u.counter] = T
        /\ \A x \in Items : \A c \in Counters : x # u.item \/ c # u.counter =>
             value'[x][c] = value[x][c] /\ held'[x][c] = held[x][c]
    BY <2>1, <2>2, <2>3
  <2>5. n \in Int
    BY <2>2, <2>4 DEF ValueInv
  <2>6. T \in SUBSET Int /\ n \in T /\ (pc # "new" => held[u.item][u.counter] \subseteq T)
    BY <2>2, <2>3, <2>5
  <2>7. held' \in [Items -> [Counters -> SUBSET Int]]
    <3>1. held[u.item] \in [Counters -> SUBSET Int]
      BY <2>2, <2>3
    <3>2. [held[u.item] EXCEPT ![u.counter] = T] \in [Counters -> SUBSET Int]
      BY <3>1, <2>6
    <3>3. held' = [held EXCEPT ![u.item] = [held[u.item] EXCEPT ![u.counter] = T]]
      BY <2>1, <2>2, <2>3
    <3> QED
      BY <3>2, <3>3, <2>2, <2>3
  <2>8. ASSUME NEW x \in Items, NEW c \in Counters
        PROVE  value'[x][c] \in held'[x][c] /\ (pc # "new" => held[x][c] \subseteq held'[x][c])
    <3>1. CASE x = u.item /\ c = u.counter
      BY <3>1, <2>4, <2>6
    <3>2. CASE x # u.item \/ c # u.counter
      BY <3>2, <2>4 DEF HeldInv
    <3> QED
      BY <3>1, <3>2
  <2>9. ASSUME NEW m \in Metas, PolicyOf(m.profile) # "Gauge", NEW c \in Counters
        PROVE  held'[m.item][c] \subseteq 0..Top
    <3>1. m.item \in Items /\ held[m.item][c] \subseteq 0..Top
      BY <2>9 DEF Items, HeldInv
    <3>2. CASE m.item = u.item /\ c = u.counter
      <4>1. n \in 0..Top
        BY <2>4, <2>9, <3>2 DEF ValueInv
      <4> QED
        BY <4>1, <2>4, <3>1, <3>2
    <3>3. CASE m.item # u.item \/ c # u.counter
      BY <3>1, <3>3, <2>4
    <3> QED
      BY <3>2, <3>3
  <2> QED
    BY <2>7, <2>8, <2>9 DEF HeldInv, Grows
<1>3. ASSUME NEW m \in Metas, Register(m) PROVE HeldInv' /\ Grows(held, held')
  BY <1>1, <1>3 DEF Register
<1>4. ASSUME NEW x \in Fields, NEW v \in StateValues, RecordState(x, v)
      PROVE  HeldInv' /\ Grows(held, held')
  BY <1>1, <1>4 DEF RecordState
<1>5. CASE BeginCapture \/ CaptureTiming \/ CaptureScalars \/ CaptureStates \/ UNCHANGED vars
  BY <1>1, <1>5 DEF BeginCapture, CaptureTiming, CaptureScalars, CaptureStates, vars, appVars
<1>6. CASE ReadStep
  BY <1>1, <1>6, ReadUnchanged
<1> QED
  BY <1>2, <1>3, <1>4, <1>5, <1>6, StepCases DEF ReadStep, AppStep

LEMMA HeldInit ==
  ASSUME Init
  PROVE  HeldInv
<1>1. ASSUME NEW x \in Items, NEW c \in Counters PROVE value[x][c] = 0 /\ held[x][c] = {0}
  BY DEF Init
<1>2. held \in [Items -> [Counters -> SUBSET Int]]
  BY DEF Init
<1>3. \A m \in Metas : m.item \in Items
  BY DEF Items
<1>4. {0} \subseteq 0..Top
  BY ReaderAssumption
<1> QED
  BY <1>1, <1>2, <1>3, <1>4 DEF HeldInv

(* The metrics whose sources of the series have been added, and the sum of  *)
(* what they held.                                                          *)
Summed == {m \in captured : \E j \in first..(source - 1) : sources[j] \in SourcesOf(m)}

SumHolds(h, f, S, a) == \E v \in ReadingsIn(h, f, S) : SumsTo(f, v, S, a)

SumInv == pc = "sum" => SumHolds(held, family, Summed, acc)

(* The source at hand is of the series, and of a metric of its own.         *)
LEMMA NextAddend ==
  ASSUME CaptureInv, SourcesInv, PlaceInv, BoundaryInv, pc = "sum", SameSeries
  PROVE  \E m \in captured :
           /\ m \in Metas /\ sources[source] \in SourcesOf(m) /\ m \notin Summed
           /\ supports(sources[source].kind, family)
           /\ {n \in captured : \E j \in first..source : sources[j] \in SourcesOf(n)} = Summed \cup {m}
<1>0. /\ Len(sources) \in Nat /\ source \in Nat /\ first \in Nat /\ source >= 1 /\ first >= 1
      /\ source <= Len(sources) /\ first <= source /\ first <= Len(sources)
      /\ captured \subseteq Metas
  BY SourcesFacts DEF PlaceInv, SameSeries, BoundaryInv, CaptureInv
<1>1. PICK s : s = sources[source]
  OBVIOUS
<1>2. PICK m \in captured : IsSource(s) /\ s \in SourcesOf(m)
  BY <1>0, <1>1, SourcesFacts
<1>3. SameAs(source, first) /\ \A j \in first..(source - 1) : SameAs(j, first)
  BY DEF SameSeries, SameAs, BoundaryInv
<1>4. supports(s.kind, family)
  BY <1>1, <1>3 DEF SameAs, BoundaryInv
<1>5. ASSUME NEW j \in first..(source - 1), sources[j] \in SourcesOf(m) PROVE FALSE
  <2>1. j \in 1..Len(sources) /\ j < source
    BY <1>0
  <2>2. IsSource(sources[j]) /\ Less(sources[j], s)
    BY <1>0, <1>1, <2>1, SourcesFacts
  <2>3. sources[j].item = s.item
    BY <1>0, <1>2, <1>5, TagFacts
  <2>4. sources[j].output = s.output /\ sources[j].kind = s.kind
    BY <1>1, <1>3 DEF SameAs
  <2>5. sources[j] = s
    BY <1>2, <2>2, <2>3, <2>4 DEF IsSource
  <2> QED
    BY <2>2, <2>5, <1>2, LessFacts
<1>6. \A n \in captured : s \in SourcesOf(n) => n = m
  BY <1>0, <1>2, SourcesOfFacts, MetasAssumption
<1>7. \A j : j \in first..source <=> j \in first..(source - 1) \/ j = source
  BY <1>0
<1>8. \A n \in captured : (\E j \in first..source : sources[j] \in SourcesOf(n)) <=>
                            n \in Summed \/ n = m
  BY <1>1, <1>2, <1>6, <1>7 DEF Summed
<1>9. Summed \subseteq captured
  BY DEF Summed
<1>10. {n \in captured : \E j \in first..source : sources[j] \in SourcesOf(n)} = Summed \cup {m}
  BY <1>2, <1>8, <1>9
<1> QED
  BY <1>0, <1>1, <1>2, <1>4, <1>5, <1>10 DEF Summed

(* In a family of counters nothing negative is read. *)
LEMMA SummedFacts ==
  ASSUME CaptureInv, SourcesInv, PlaceInv, BoundaryInv, pc = "sum"
  PROVE  /\ IsFiniteSet(Summed) /\ Summed \in SUBSET Metas
         /\ family \in 1..10
         /\ ~IsGauge(family) => \A m \in Summed : PolicyOf(m.profile) # "Gauge"
<1>1. captured \subseteq Metas /\ Summed \subseteq captured
  BY DEF CaptureInv, Summed
<1>2. IsFiniteSet(Summed)
  BY <1>1, MetasAssumption, FS_Subset
<1>3. family \in 1..10
  BY StateFamilyIs DEF PlaceInv
<1>4. ASSUME ~IsGauge(family), NEW m \in Summed PROVE PolicyOf(m.profile) # "Gauge"
  <2>1. PICK j \in first..(source - 1) : sources[j] \in SourcesOf(m)
    BY DEF Summed
  <2>2. supports(sources[j].kind, family)
    BY DEF BoundaryInv, SameAs
  <2> QED
    BY <1>1, <1>4, <2>1, <2>2, NotGauge
<1> QED
  BY <1>1, <1>2, <1>3, <1>4

(* What has been read is in the range of the family. *)
LEMMA ReadingFacts ==
  ASSUME HeldInv, NEW f \in 1..10, NEW S \in SUBSET Metas, NEW v \in ReadingsIn(held, f, S),
         ~IsGauge(f) => \A m \in S : PolicyOf(m.profile) # "Gauge"
  PROVE  /\ DOMAIN v = S /\ \A m \in S : v[m] \in Int
         /\ ~IsGauge(f) => \A m \in S : v[m] >= 0
<1>1. v = [m \in S |-> v[m]] /\ \A m \in S : v[m] \in held[m.item][CounterIn(m, f)]
  BY ReadingsMean
<1>2. CounterIn(1, f) \in Counters /\ \A m \in S : CounterIn(m, f) \in Counters
  BY CounterInFacts
<1>3. ASSUME NEW m \in S PROVE v[m] \in Int
  <2>1. m.item \in Items
    BY DEF Items
  <2>2. held[m.item][CounterIn(m, f)] \in SUBSET Int
    BY <2>1, <1>2 DEF HeldInv
  <2> QED
    BY <1>1, <2>2
<1>4. ASSUME ~IsGauge(f), NEW m \in S PROVE v[m] >= 0
  <2>1. held[m.item][CounterIn(m, f)] \subseteq 0..Top
    BY <1>2, <1>4 DEF HeldInv
  <2>2. v[m] \in 0..Top
    BY <1>1, <2>1
  <2> QED
    BY <2>2
<1>5. DOMAIN v = S
  BY <1>1
<1> QED
  BY <1>3, <1>4, <1>5

LEMMA SumInvStep ==
  ASSUME CaptureInv, SourcesInv, ValueInv, PlaceInv, BoundaryInv, HeldInv, SumInv,
         pc # "new" => Grows(held, held'), [Next]_vars
  PROVE  SumInv'
<1>1. ASSUME UNCHANGED <<pc, captured, sources, first, source, family, acc>> PROVE SumInv'
  <2>1. CASE pc = "sum"
    <3>1. Grows(held, held')
      BY <2>1
    <3>2. PICK S, f, a : S = Summed /\ f = family /\ a = acc
      OBVIOUS
    <3>3. Summed' = S /\ family' = f /\ acc' = a
      BY <1>1, <3>2 DEF Summed
    <3>4. S \in SUBSET Metas /\ f \in 1..10
      BY <2>1, <3>2, SummedFacts
    <3>5. PICK v \in ReadingsIn(held, f, S) : SumsTo(f, v, S, a)
      BY <2>1, <3>2 DEF SumInv, SumHolds
    <3>6. v \in ReadingsIn(held', f, S)
      BY <3>1, <3>4, ReadingsGrow
    <3>7. SumHolds(held', f, S, a)
      BY <3>5, <3>6 DEF SumHolds
    <3> QED
      BY <3>3, <3>7 DEF SumInv
  <2>2. CASE pc # "sum"
    BY <1>1, <2>2 DEF SumInv
  <2> QED
    BY <2>1, <2>2
<1>2. CASE AppStep \/ UNCHANGED vars
  <2>1. UNCHANGED <<pc, captured, sources, first, source, family, acc>>
    BY <1>2, AppUnchanged DEF vars, scrapeVars, placeVars
  <2> QED
    BY <1>1, <2>1
<1>3. ASSUME pc' # "sum" PROVE SumInv'
  BY <1>3 DEF SumInv
<1>4. CASE BeginCapture \/ CaptureTiming \/ CaptureScalars \/ CaptureStates
  <2>1. pc' # "sum"
    BY <1>4 DEF BeginCapture, CaptureTiming, CaptureScalars, CaptureStates
  <2> QED
    BY <1>3, <2>1
<1>5. CASE (\E n \in Sizes : Read(n)) \/ Copy \/ Header \/ EndSeries \/ NextFamily \/ NextState \/ EndOfFile
  <2>1. pc' # "sum"
    BY <1>5 DEF Read, Copy, Header, EndSeries, NextFamily, NextState, EndOfFile, NeedsSample
  <2> QED
    BY <1>3, <2>1
<1>6. CASE BeginSeries
  <2>1. first' = source' /\ acc' = 0 /\ source' \in Nat
    <3>1. first' = source' /\ acc' = 0 /\ source' = LeastOf(Supported) /\ Supported # {}
      BY <1>6 DEF BeginSeries
    <3>2. source' \in source..Len(sources) /\ source \in Nat /\ Len(sources) \in Nat
      BY <3>1, SupportedFacts, SourcesFacts DEF PlaceInv
    <3> QED
      BY <3>1, <3>2
  <2>2. first'..(source' - 1) = {}
    <3> PICK l : l = source'
      OBVIOUS
    <3>1. l \in Nat /\ first' = l /\ source' = l
      BY <2>1
    <3>2. l..(l - 1) = {}
      BY <3>1
    <3> QED
      BY <3>1, <3>2
  <2>3. Summed' = {}
    BY <2>2 DEF Summed
  <2> PICK v : v = [m \in {} |-> 0]
    OBVIOUS
  <2>4. v \in ReadingsIn(held', family', {})
    <3>1. v = [m \in {} |-> v[m]]
      OBVIOUS
    <3> QED
      BY <3>1, ReadingsMean
  <2>5. SumOver(v, {}) = 0
    <3>1. IsFiniteSet({}) /\ {} \in SUBSET {}
      BY FS_EmptySet
    <3> QED
      BY <3>1, SumFacts DEF SumOver
  <2>6. Clamp(family', 0) = 0
    BY ReaderAssumption DEF Clamp, Min2
  <2>7. SumsTo(family', v, {}, 0)
    BY <2>5, <2>6 DEF SumsTo
  <2>8. SumHolds(held', family', {}, 0)
    BY <2>4, <2>7 DEF SumHolds
  <2> QED
    BY <2>1, <2>3, <2>8 DEF SumInv
<1>7. CASE Sum
  <2> PICK s : s = sources[source]
    OBVIOUS
  <2>1. /\ pc = "sum" /\ SameSeries /\ source' = source + 1
        /\ UNCHANGED <<sources, captured, family, first, held>>
        /\ acc' = SaturatingAdd(acc, value[s.item[2]][CounterOf(s, family)])
    BY <1>7 DEF Sum, scrapeVars, appVars
  <2>2. PICK m \in captured :
          /\ m \in Metas /\ s \in SourcesOf(m) /\ m \notin Summed /\ supports(s.kind, family)
          /\ {n \in captured : \E j \in first..source : sources[j] \in SourcesOf(n)} = Summed \cup {m}
    BY <2>1, NextAddend
  <2> PICK S, T, f, a : S = Summed /\ T = Summed \cup {m} /\ f = family /\ a = acc
    OBVIOUS
  <2>3. Summed' = T
    <3>1. source \in Nat /\ source' - 1 = source
      BY <2>1 DEF PlaceInv
    <3> QED
      BY <2>1, <2>2, <3>1 DEF Summed
  <2>4. /\ IsFiniteSet(S) /\ S \in SUBSET Metas /\ f \in 1..10
        /\ ~IsGauge(f) => \A n \in S : PolicyOf(n.profile) # "Gauge"
    BY <2>1, SummedFacts
  <2>5. ~IsGauge(f) => PolicyOf(m.profile) # "Gauge"
    BY <2>2, NotGauge
  <2> PICK b : b = value[m.item][CounterIn(m, f)]
    OBVIOUS
  <2>6. acc' = SaturatingAdd(a, b)
    <3>1. s.item[2] = m.item /\ CounterOf(s, f) = CounterIn(m, f)
      BY <2>2, TagFacts
    <3> QED
      BY <2>1, <3>1
  <2>7. b \in held[m.item][CounterIn(m, f)]
    <3>1. m.item \in Items /\ CounterIn(m, f) \in Counters
      BY <2>2, <2>4, CounterInFacts DEF Items
    <3> QED
      BY <3>1 DEF HeldInv
  <2>8. PICK v \in ReadingsIn(held, f, S) : SumsTo(f, v, S, a)
    BY <2>1 DEF SumInv, SumHolds
  <2>9. /\ DOMAIN v = S /\ \A n \in S : v[n] \in Int
        /\ \A n \in S : v[n] \in held[n.item][CounterIn(n, f)]
    BY <2>4, ReadingFacts, ReadingsMean
  <2> PICK w : w = [n \in T |-> IF n = m THEN b ELSE v[n]]
    OBVIOUS
  <2>10. /\ DOMAIN w = T /\ w = [n \in T |-> w[n]] /\ w[m] = b
         /\ \A n \in S : w[n] = v[n]
    BY <2>2
  <2>11. w \in ReadingsIn(held, f, T)
    <3>1. \A n \in T : w[n] \in held[n.item][CounterIn(n, f)]
      BY <2>7, <2>9, <2>10
    <3>2. w = [n \in T |-> w[n]]
      BY <2>10
    <3> QED
      BY ONLY <3>1, <3>2, ReadingsMean
  <2>12. /\ T \in SUBSET Metas
         /\ ~IsGauge(f) => \A n \in T : PolicyOf(n.profile) # "Gauge"
    BY <2>2, <2>4, <2>5
  <2>13. /\ \A n \in T : w[n] \in Int
         /\ ~IsGauge(f) => \A n \in T : w[n] >= 0
    BY <2>4, <2>11, <2>12, ReadingFacts
  <2>14. Extends(w, v, S, m)
    BY <2>2, <2>4, <2>9, <2>10, <2>13 DEF Extends
  <2>15. SumsTo(f, w, T, SaturatingAdd(a, b))
    BY <2>8, <2>10, <2>13, <2>14, SumGoesOn
  <2>16. SumHolds(held', f, T, acc')
    BY <2>1, <2>6, <2>11, <2>15 DEF SumHolds
  <2> QED
    BY <2>1, <2>3, <2>16 DEF SumInv
<1> QED
  BY <1>2, <1>4, <1>5, <1>6, <1>7, StepCases

(***************************************************************************)
(* The value of a sample.                                                  *)
(***************************************************************************)

(* n is what f shows of the sum of the slots S. *)
Shows(f, v, S, n) ==
  IF FAMILIES[f].seconds
    THEN /\ 10000 * n - 5000 <= Clamp(f, SumOver(v, S))
         /\ Clamp(f, SumOver(v, S)) < 10000 * n + 5000
    ELSE n = Clamp(f, SumOver(v, S)) \/ OrderMatters(f, v)

IsSumOf(h, f, S, n) == \E v \in ReadingsIn(h, f, S) : Shows(f, v, S, n)

LEMMA SamplesAreSumsMeans ==
  SamplesAreSums <=>
    \A i \in SampleLines : lines[i].family < StateFamily =>
      IsSumOf(held, lines[i].family, Exporters(lines[i].family, lines[i].labels), lines[i].value)
<1>1. \A f, S : Readings(f, S) = ReadingsIn(held, f, S)
  BY DEF Readings, ReadingsIn
<1>2. ASSUME NEW i
      PROVE  (LET f == lines[i].family
                  S == Exporters(lines[i].family, lines[i].labels)
              IN \E v \in Readings(f, S) :
                   LET n == Clamp(f, SumOver(v, S)) IN
                   IF FAMILIES[f].seconds
                     THEN 10000 * lines[i].value - 5000 <= n /\ n < 10000 * lines[i].value + 5000
                     ELSE lines[i].value = n \/ OrderMatters(f, v))
             <=> IsSumOf(held, lines[i].family, Exporters(lines[i].family, lines[i].labels),
                         lines[i].value)
  <2> PICK f, S, n : f = lines[i].family /\ S = Exporters(lines[i].family, lines[i].labels)
                     /\ n = lines[i].value
    OBVIOUS
  <2>1. IsSumOf(held, f, S, n) <=>
          \E v \in Readings(f, S) :
            IF FAMILIES[f].seconds
              THEN 10000 * n - 5000 <= Clamp(f, SumOver(v, S)) /\ Clamp(f, SumOver(v, S)) < 10000 * n + 5000
              ELSE n = Clamp(f, SumOver(v, S)) \/ OrderMatters(f, v)
    BY <1>1 DEF IsSumOf, Shows
  <2> QED
    BY <2>1
<1> QED
  BY <1>2 DEF SamplesAreSums

(* What has been read stays read. *)
LEMMA StaysSum ==
  ASSUME NEW h, NEW g, Grows(h, g), NEW f \in 1..10, NEW S \in SUBSET Metas, NEW n,
         IsSumOf(h, f, S, n)
  PROVE  IsSumOf(g, f, S, n)
<1>1. PICK v \in ReadingsIn(h, f, S) : Shows(f, v, S, n)
  BY DEF IsSumOf
<1>2. v \in ReadingsIn(g, f, S)
  BY ReadingsGrow
<1> QED
  BY <1>1, <1>2 DEF IsSumOf

(* Hundredths of a second, half up. *)
LEMMA HundredthsFacts ==
  ASSUME NEW n \in Nat
  PROVE  10000 * Hundredths(n) - 5000 <= n /\ n < 10000 * Hundredths(n) + 5000
<1> PICK q, r : q = n \div 10000 /\ r = n % 10000
  OBVIOUS
<1>1. q \in Int /\ r \in 0..9999 /\ n = 10000 * q + r
  <2>1. n \in Int /\ 10000 \in Nat \ {0} /\ 10000 - 1 = 9999
    OBVIOUS
  <2> QED
    BY <2>1, ModFacts
<1>2. Hundredths(n) = q + (IF r >= 5000 THEN 1 ELSE 0)
  BY DEF Hundredths
<1>3. CASE r >= 5000
  <2>1. Hundredths(n) = q + 1
    BY <1>2, <1>3
  <2> QED
    BY <2>1, <1>1, <1>3
<1>4. CASE r < 5000
  <2>1. Hundredths(n) = q
    BY <1>1, <1>2, <1>4
  <2> QED
    BY <2>1, <1>1, <1>4
<1> QED
  BY <1>1, <1>3, <1>4

(* The families in seconds are of counters. *)
LEMMA SecondsFacts ==
  ASSUME NEW f \in 1..10, FAMILIES[f].seconds
  PROVE  ~IsGauge(f)
BY DEF FAMILIES, IsGauge

(* When a series ends, the slots behind its labels have all been added.     *)
LEMMA SummedAll ==
  ASSUME CaptureInv, SourcesInv, PlaceInv, BoundaryInv, pc = "sum", ~SameSeries
  PROVE  Exporters(family, LabelSet(sources[first])) = Summed
<1>0. /\ Len(sources) \in Nat /\ source \in Nat /\ first \in Nat /\ source >= 1 /\ first >= 1
      /\ first <= source /\ first <= Len(sources) /\ supports(sources[first].kind, family)
      /\ captured \subseteq Metas /\ family \in 1..10 /\ Base = first
  BY SourcesFacts, StateFamilyIs DEF PlaceInv, BoundaryInv, CaptureInv, Base
<1>1. PICK L, f : L = LabelSet(sources[first]) /\ f = family
  OBVIOUS
<1>2. /\ \A j \in first..(source - 1) : SameAs(j, first)
      /\ source <= Len(sources) => ~SameAs(source, first)
      /\ \A k \in 1..(first - 1) : supports(sources[k].kind, family) => ~SameAs(k, first)
  BY <1>0 DEF BoundaryInv, SameSeries, SameAs
<1>3. ASSUME NEW m \in Summed PROVE m \in Exporters(f, L)
  <2>1. PICK j \in first..(source - 1) : sources[j] \in SourcesOf(m)
    BY DEF Summed
  <2>2. SameAs(j, first)
    BY <1>2
  <2>3. LabelSet(sources[j]) = L /\ supports(sources[j].kind, f)
    BY <2>2, <1>0, <1>1, SameLabels DEF SameAs
  <2>4. L \in Exports(m, f)
    BY <2>1, <2>3 DEF Exports
  <2> QED
    BY <2>4 DEF Exporters, Summed
<1>4. ASSUME NEW m \in Exporters(f, L) PROVE m \in Summed
  <2>1. m \in captured /\ L \in Exports(m, f)
    BY <1>4 DEF Exporters
  <2>2. PICK s \in SourcesOf(m) : supports(s.kind, f) /\ LabelSet(s) = L
    BY <2>1 DEF Exports
  <2>3. PICK i \in 1..Len(sources) : sources[i] = s
    BY <2>1, <2>2, SourcesFacts
  <2>4. IsSource(sources[i]) /\ IsSource(sources[first]) /\ first \in 1..Len(sources)
    BY <1>0, SourcesFacts
  <2>5. SameAs(i, first)
    BY <1>0, <1>1, <2>2, <2>3, <2>4, LabelsIdentify DEF SameAs
  <2>6. ~(i < first)
    <3>1. i < first => i \in 1..(first - 1)
      BY <1>0
    <3> QED
      BY <3>1, <1>1, <1>2, <2>2, <2>3, <2>5
  <2>7. ASSUME i >= source PROVE FALSE
    <3>1. source \in 1..Len(sources) /\ i # source
      BY <1>0, <1>2, <2>5, <2>7
    <3>2. first # source
      BY <3>1, <1>2 DEF SameAs
    <3>3. first < source /\ source < i
      BY <3>1, <3>2, <1>0, <2>7
    <3>4. /\ IsSource(sources[source])
          /\ Less(sources[first], sources[source]) /\ Less(sources[source], sources[i])
      BY <3>1, <3>3, <2>4, SourcesFacts
    <3>5. SameAs(source, first)
      BY <3>4, <2>4, <2>5, LessFacts DEF SameAs
    <3> QED
      BY <3>1, <3>5, <1>2
  <2>8. i \in first..(source - 1)
    BY <2>6, <2>7, <1>0
  <2> QED
    BY <2>1, <2>2, <2>3, <2>8 DEF Summed
<1> QED
  BY <1>1, <1>3, <1>4

(* The value of the series is the sum of its slots. *)
LEMMA SeriesIsSum ==
  ASSUME CaptureInv, SourcesInv, PlaceInv, BoundaryInv, HeldInv, SumInv, pc = "sum"
  PROVE  IsSumOf(held, family, Summed, IF FAMILIES[family].seconds THEN Hundredths(acc) ELSE acc)
<1> PICK S, f, a : S = Summed /\ f = family /\ a = acc
  OBVIOUS
<1>1. /\ IsFiniteSet(S) /\ S \in SUBSET Metas /\ f \in 1..10
      /\ ~IsGauge(f) => \A m \in S : PolicyOf(m.profile) # "Gauge"
  BY SummedFacts
<1>2. PICK v \in ReadingsIn(held, f, S) : SumsTo(f, v, S, a)
  BY DEF SumInv, SumHolds
<1>3. /\ DOMAIN v = S /\ \A m \in S : v[m] \in Int
      /\ ~IsGauge(f) => \A m \in S : v[m] >= 0
  BY <1>1, ReadingFacts
<1>4. CASE FAMILIES[f].seconds
  <2>1. ~IsGauge(f)
    BY <1>1, <1>4, SecondsFacts
  <2>2. Below(v, S) = {}
    <3>1. \A m \in S : ~(v[m] < 0)
      BY <1>3, <2>1
    <3> QED
      BY <3>1 DEF Below
  <2>3. ~OrderMatters(f, v)
    BY <1>1, <1>3, <2>2, OrderMeans
  <2>4. a = Clamp(f, SumOver(v, S))
    BY <1>2, <2>3 DEF SumsTo
  <2>5. a \in Nat
    BY <2>1, ReaderAssumption DEF BoundaryInv
  <2>6. 10000 * Hundredths(a) - 5000 <= a /\ a < 10000 * Hundredths(a) + 5000
    BY <2>5, HundredthsFacts
  <2>7. Shows(f, v, S, Hundredths(a))
    BY <1>4, <2>4, <2>6 DEF Shows
  <2> QED
    BY <1>2, <1>4, <2>7 DEF IsSumOf
<1>5. CASE ~FAMILIES[f].seconds
  <2>1. Shows(f, v, S, a)
    BY <1>2, <1>5 DEF Shows, SumsTo
  <2> QED
    BY <1>2, <1>5, <2>1 DEF IsSumOf
<1> QED
  BY <1>4, <1>5

(* The sample that the end of a series adds, with its value. *)
LEMMA EndSeriesSample ==
  ASSUME EndSeries
  PROVE  \E x : /\ lines' = Append(lines, x) /\ ~x.header /\ x.family = family
                /\ x.labels = LabelSet(sources[first])
                /\ x.value = IF FAMILIES[family].seconds THEN Hundredths(acc) ELSE acc
<1> PICK n : n = IF FAMILIES[family].seconds THEN Hundredths(acc) ELSE acc
  OBVIOUS
<1> DEFINE x == [header |-> FALSE, family |-> family, labels |-> LabelSet(sources[first]),
                 value |-> n]
<1>1. Encode(x)
  BY DEF EndSeries
<1>2. lines' = Append(lines, x) /\ ~x.header /\ x.family = family
      /\ x.labels = LabelSet(sources[first]) /\ x.value = n
  BY <1>1 DEF Encode
<1> HIDE DEF x
<1> QED
  BY <1>2

(* A line is the sum of the slots of C behind it, if it is a metric's.      *)
IsSumLine(h, C, x) ==
  ~x.header /\ x.family < StateFamily =>
    IsSumOf(h, x.family, {m \in C : x.labels \in Exports(m, x.family)}, x.value)

LinesAreSums == \A i \in DOMAIN lines : IsSumLine(held, captured, lines[i])

LEMMA SamplesMean == SamplesAreSums <=> LinesAreSums
BY SamplesAreSumsMeans DEF LinesAreSums, IsSumLine, SampleLines, Exporters

LEMMA SamplesMeanAfter ==
  SamplesAreSums' <=> \A i \in DOMAIN lines' : IsSumLine(held', captured', lines'[i])
<1>1. SamplesAreSums' <=> LinesAreSums'
  BY SamplesMean, PTL
<1> QED
  BY <1>1 DEF LinesAreSums

LEMMA LineStays ==
  ASSUME NEW h, NEW g, Grows(h, g), NEW C \in SUBSET Metas, NEW x, x.family \in 1..11,
         IsSumLine(h, C, x)
  PROVE  IsSumLine(g, C, x)
<1> SUFFICES ASSUME ~x.header, x.family < StateFamily
             PROVE  IsSumOf(g, x.family, {m \in C : x.labels \in Exports(m, x.family)}, x.value)
  BY DEF IsSumLine
<1> PICK S, f, n : S = {m \in C : x.labels \in Exports(m, x.family)} /\ f = x.family /\ n = x.value
  OBVIOUS
<1>1. S \in SUBSET Metas /\ f \in 1..10
  BY StateFamilyIs
<1>2. IsSumOf(h, f, S, n)
  BY DEF IsSumLine
<1>3. IsSumOf(g, f, S, n)
  BY <1>1, <1>2, StaysSum
<1> QED
  BY <1>3

LEMMA SamplesStep ==
  ASSUME ReaderInv, HeldInv, SumInv, SamplesAreSums,
         pc # "new" => Grows(held, held'), [Next]_vars
  PROVE  SamplesAreSums'
<1>0. /\ CaptureInv /\ SourcesInv /\ PlaceInv /\ BufferInv /\ FamilyInv /\ BoundaryInv
      /\ captured \subseteq Metas
  BY DEF ReaderInv, CaptureInv
<1>1. \A i \in DOMAIN lines : lines[i].family \in 1..11
  <2>1. family \in 1..11
    BY <1>0, StateFamilyIs DEF PlaceInv
  <2>2. \A i \in DOMAIN lines : lines[i].family \in 1..family
    BY <1>0 DEF FamilyInv
  <2> QED
    BY <2>1, <2>2
<1>2. ASSUME lines' = <<>> PROVE SamplesAreSums'
  <2>1. DOMAIN lines' = {}
    BY <1>2
  <2> QED
    BY <2>1, SamplesMeanAfter
<1>3. ASSUME pc # "new", UNCHANGED captured, NEW i \in DOMAIN lines
      PROVE  IsSumLine(held', captured', lines[i])
  <2>1. PICK x : x = lines[i] /\ IsSumLine(held, captured, x) /\ x.family \in 1..11
    BY <1>1, SamplesMean DEF LinesAreSums
  <2>2. IsSumLine(held', captured, x)
    BY <1>0, <1>3, <2>1, LineStays
  <2> QED
    BY <1>3, <2>1, <2>2
<1>4. ASSUME pc # "new", UNCHANGED <<captured, lines>> PROVE SamplesAreSums'
  BY <1>3, <1>4, SamplesMeanAfter
<1>5. CASE AppStep \/ UNCHANGED vars
  <2>1. UNCHANGED <<captured, lines>>
    BY <1>5, AppUnchanged DEF vars, scrapeVars, readVars
  <2>2. pc = "new" => lines = <<>>
    BY <1>0 DEF BufferInv, Building
  <2> QED
    BY <1>2, <1>4, <2>1, <2>2
<1>6. CASE BeginCapture \/ CaptureTiming \/ CaptureScalars \/ CaptureStates
  BY <1>0, <1>2, <1>6, ConstructFacts
<1>7. CASE ReadStep
  <2>1. pc # "new" /\ UNCHANGED <<captured, held>>
    BY <1>7, ReadUnchanged
  <2>2. CASE ~EncodeStep
    BY <1>4, <1>7, <2>1, <2>2, SameLines
  <2>3. ASSUME NEW x, lines' = Append(lines, x), IsSumLine(held, captured, x)
        PROVE  SamplesAreSums'
    <3>1. /\ Len(lines) \in Nat /\ DOMAIN lines = 1..Len(lines) /\ DOMAIN lines' = 1..(Len(lines) + 1)
          /\ \A i \in DOMAIN lines : lines'[i] = lines[i]
          /\ lines'[Len(lines) + 1] = x
      BY <1>0, <2>3, AppendLine DEF BufferInv
    <3>2. \A i \in DOMAIN lines' : i \in DOMAIN lines \/ i = Len(lines) + 1
      BY <3>1
    <3>3. \A i \in DOMAIN lines : IsSumLine(held', captured', lines[i])
      BY <1>3, <2>1
    <3>4. IsSumLine(held', captured', x)
      BY <2>1, <2>3
    <3>5. \A i \in DOMAIN lines' : IsSumLine(held', captured', lines'[i])
      BY <3>1, <3>2, <3>3, <3>4
    <3> QED
      BY <3>5, SamplesMeanAfter
  <2>4. CASE Header
    <3>1. PICK x : lines' = Append(lines, x) /\ x.header
      BY <2>4, HeaderLine
    <3>2. IsSumLine(held, captured, x)
      BY <3>1 DEF IsSumLine
    <3> QED
      BY <2>3, <3>1, <3>2
  <2>5. CASE NextState
    <3>1. PICK x : lines' = Append(lines, x) /\ x.family = StateFamily
      BY <2>5, NextStateLine
    <3>2. ~(x.family < StateFamily)
      BY <3>1, StateFamilyIs
    <3>3. IsSumLine(held, captured, x)
      BY <3>2 DEF IsSumLine
    <3> QED
      BY <2>3, <3>1, <3>3
  <2>6. CASE EndSeries
    <3>1. PICK x : /\ lines' = Append(lines, x) /\ ~x.header /\ x.family = family
                   /\ x.labels = LabelSet(sources[first])
                   /\ x.value = IF FAMILIES[family].seconds THEN Hundredths(acc) ELSE acc
      BY <2>6, EndSeriesSample
    <3>2. pc = "sum" /\ ~SameSeries
      BY <2>6 DEF EndSeries
    <3>3. Exporters(x.family, x.labels) = Summed
      BY <1>0, <3>1, <3>2, SummedAll
    <3>4. IsSumOf(held, x.family, Summed, x.value)
      BY <1>0, <3>1, <3>2, SeriesIsSum
    <3>5. {m \in captured : x.labels \in Exports(m, x.family)} = Summed
      BY <3>3 DEF Exporters
    <3>6. IsSumLine(held, captured, x)
      BY <3>4, <3>5 DEF IsSumLine
    <3> QED
      BY <2>3, <3>1, <3>6
  <2> QED
    BY <2>2, <2>4, <2>5, <2>6 DEF EncodeStep
<1> QED
  BY <1>5, <1>6, <1>7, StepCases DEF ReadStep

(* Every sample is the clamped sum of the distinct slots behind its labels, *)
(* each read once during the scrape, while updates go on; only gauges may   *)
(* saturate on the way, and only then does their order matter               *)
(* (prometheus.rs, value and gauge; README, "distinct slots with identical  *)
(* type/name are summed").                                                  *)
THEOREM SamplesExact == Spec => []SamplesAreSums
<1> DEFINE Inv == ReaderInv /\ HeldInv /\ SumInv /\ SamplesAreSums
<1>1. Init => Inv
  <2> SUFFICES ASSUME Init PROVE Inv
    OBVIOUS
  <2>1. ReaderInv /\ HeldInv
    BY ReaderInit, HeldInit
  <2>2. SumInv
    BY DEF Init, SumInv
  <2>3. SamplesAreSums
    <3>1. DOMAIN lines = {}
      BY DEF Init
    <3> QED
      BY <3>1, SamplesMean DEF LinesAreSums
  <2> QED
    BY <2>1, <2>2, <2>3
<1>2. Inv /\ [Next]_vars => Inv'
  <2> SUFFICES ASSUME Inv, [Next]_vars PROVE Inv'
    OBVIOUS
  <2>1. CaptureInv /\ SourcesInv /\ ValueInv /\ PlaceInv /\ BoundaryInv
    BY DEF ReaderInv
  <2>2. ReaderInv' /\ ValueInv'
    BY ReaderNext DEF ReaderInv
  <2>3. HeldInv' /\ (pc # "new" => Grows(held, held'))
    BY <2>1, <2>2, HeldStep
  <2>4. SumInv'
    BY <2>1, <2>3, SumInvStep
  <2>5. SamplesAreSums'
    BY <2>3, SamplesStep
  <2> QED
    BY <2>2, <2>3, <2>4, <2>5
<1>3. Inv => SamplesAreSums
  OBVIOUS
<1> QED
  BY <1>1, <1>2, <1>3, PTL DEF Spec

============================================================================
