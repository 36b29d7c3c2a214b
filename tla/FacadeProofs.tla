---------------------------- MODULE FacadeProofs ----------------------------
(***************************************************************************)
(* Proofs about Facade: a record reaches every later visit, the views of a *)
(* plan agree, and the rows are those of the plan registered first.        *)
(***************************************************************************)
EXTENDS Facade, FiniteSetTheorems, FunctionTheorems, SequenceTheorems, TLAPS

KeyAt(p) == LookupKey(Reg!At(p))

(* A shard holds no key twice and no key of another shard; a handle is on   *)
(* the metric of its key.                                                   *)
LogInv ==
  /\ log \in [Shards -> Seq(Requests)]
  /\ \A p \in Reg!Places : ShardOf[KeyAt(p)] = p[1]
  /\ \A p, q \in Reg!Places : KeyAt(p) = KeyAt(q) => p = q
  /\ pending \in [Threads -> Requests \cup {None}]
  /\ knows \in [Threads -> SUBSET Reg!Places]
  /\ \A h \in handles : h.item \in Reg!Places /\ h.key = KeyAt(h.item)

(* A record is in the slot of its key and in no other, and a thread that is *)
(* aware of it knows that slot.                                             *)
SlotInv ==
  /\ records \in Seq(Keys)
  /\ slots \in [Shards \X (1..Cardinality(Keys)) -> SUBSET DOMAIN records]
  /\ \A p \in DOMAIN slots : \A id \in slots[p] : p \in Reg!Places /\ records[id] = KeyAt(p)
  /\ aware \in [Threads -> SUBSET DOMAIN records]
  /\ \A t \in Threads : \A id \in aware[t] : \E p \in knows[t] : id \in slots[p]

(* The outputs of the metric at place p have the places after b in A. *)
Block(A, p, outs, b) ==
  /\ b + Len(outs) <= Len(A)
  /\ \A i \in 1..Len(A) : A[i].item = p <=> b < i /\ i <= b + Len(outs)
  /\ \A i \in 1..Len(outs) : A[b + i].output = outs[i]

(* The rows A of a visit of the metrics S that is to show the records E,    *)
(* given the slots sl and the logs lg.                                      *)
RowsOK(A, S, E, sl, lg) ==
  /\ \A i \in 1..Len(A) :
       /\ A[i].item \in S
       /\ A[i].snapshot \subseteq sl[A[i].item]
       /\ E \cap sl[A[i].item] \subseteq A[i].snapshot
  /\ \A i, j \in 1..Len(A) : A[i].item = A[j].item => A[i].snapshot = A[j].snapshot
  /\ \A p \in S : \E b \in 0..Len(A) : Block(A, p, DirectOutputs(lg[p[1]][p[2]]), b)

Views == UNION {{DirectOutputs(r)[i] : i \in DOMAIN DirectOutputs(r)} : r \in Requests}
Rows == [item : Shards \X Nat, output : Views, snapshot : SUBSET Nat]

(* The rows of a visit so far and those that are due. *)
All(t) == rows[t] \o calls[t]

VisitTypes ==
  /\ walk \in [Threads -> {"none", "running", "done"}]
  /\ must \in [Threads -> SUBSET Reg!Places]
  /\ seen \in [Threads -> SUBSET Reg!Places]
  /\ expected \in [Threads -> SUBSET DOMAIN records]
  /\ rows \in [Threads -> Seq(Rows)] /\ calls \in [Threads -> Seq(Rows)]

(* What a visit is expected to show is in slots that it must visit. *)
VisitOf(t) ==
  /\ expected[t] \subseteq aware[t]
  /\ \A id \in expected[t] : \E p \in must[t] : id \in slots[p]
  /\ walk[t] = "none" => seen[t] = {} /\ expected[t] = {} /\ rows[t] = <<>>
  /\ walk[t] # "running" => calls[t] = <<>>
  /\ walk[t] = "done" => must[t] \subseteq seen[t]

RowsOf(t) == RowsOK(All(t), seen[t], expected[t], slots, log)

VisitInv == VisitTypes /\ \A t \in Threads : VisitOf(t) /\ RowsOf(t)

FacadeInv == LogInv /\ SlotInv /\ VisitInv


----------------------------------------------------------------------------
(***************************************************************************)
(* Sequences of rows.                                                      *)
(***************************************************************************)

(* Every metric is visited under some output. *)
LEMMA OutputsOf ==
  ASSUME NEW r \in Requests
  PROVE  /\ Len(DirectOutputs(r)) \in Nat \ {0}
         /\ DOMAIN DirectOutputs(r) = 1..Len(DirectOutputs(r))
         /\ \A i \in 1..Len(DirectOutputs(r)) : DirectOutputs(r)[i] \in Views
<1>1. Len(DirectOutputs(r)) \in Nat \ {0} /\ DOMAIN DirectOutputs(r) = 1..Len(DirectOutputs(r))
  <2>1. CASE r.api = "register_profile"
    <3>1. DirectOutputs(r) = r.outputs
      BY <2>1 DEF DirectOutputs
    <3> QED
      BY <2>1, <3>1, FacadeAssumption
  <2>2. CASE r.api = "register" \/ r.api = "register_resource"
    <3>1. PICK x : DirectOutputs(r) = <<x>>
      BY <2>2 DEF DirectOutputs
    <3> QED
      BY <3>1
  <2> QED
    BY <2>1, <2>2, FacadeAssumption
<1>2. \A i \in DOMAIN DirectOutputs(r) : DirectOutputs(r)[i] \in Views
  BY DEF Views
<1> QED
  BY <1>1, <1>2

(* Concatenation, element by element. *)
LEMMA ConcatFacts ==
  ASSUME NEW T, NEW A \in Seq(T), NEW C \in Seq(T)
  PROVE  /\ A \o C \in Seq(T) /\ Len(A \o C) = Len(A) + Len(C)
         /\ Len(A) \in Nat /\ Len(C) \in Nat
         /\ \A i \in 1..Len(A) : (A \o C)[i] = A[i]
         /\ \A i \in 1..Len(C) : (A \o C)[Len(A) + i] = C[i]
         /\ \A i \in (Len(A) + 1)..(Len(A) + Len(C)) :
              i - Len(A) \in 1..Len(C) /\ (A \o C)[i] = C[i - Len(A)]
<1>1. A \o C \in Seq(T) /\ Len(A \o C) = Len(A) + Len(C) /\ Len(A) \in Nat /\ Len(C) \in Nat
  OBVIOUS
<1>2. \A i \in 1..Len(A) : (A \o C)[i] = A[i]
  OBVIOUS
<1>3. ASSUME NEW i \in (Len(A) + 1)..(Len(A) + Len(C))
      PROVE  i - Len(A) \in 1..Len(C) /\ (A \o C)[i] = C[i - Len(A)]
  BY <1>1
<1>4. ASSUME NEW i \in 1..Len(C) PROVE (A \o C)[Len(A) + i] = C[i]
  <2>1. Len(A) + i \in (Len(A) + 1)..(Len(A) + Len(C)) /\ (Len(A) + i) - Len(A) = i
    BY <1>1
  <2> QED
    BY <2>1, <1>3
<1> QED
  BY <1>1, <1>2, <1>3, <1>4

(* A callback moves a row from those due to those done. *)
LEMMA MoveHead ==
  ASSUME NEW T, NEW A \in Seq(T), NEW C \in Seq(T), C # <<>>
  PROVE  /\ Append(A, Head(C)) \in Seq(T) /\ Tail(C) \in Seq(T)
         /\ Append(A, Head(C)) \o Tail(C) = A \o C
<1> PICK B, D : B = Append(A, Head(C)) /\ D = Tail(C)
  OBVIOUS
<1>1. Len(C) \in Nat /\ Len(C) >= 1 /\ Head(C) = C[1] /\ Head(C) \in T
  BY EmptySeq, LenProperties, HeadTailProperties
<1>2. B \in Seq(T) /\ Len(B) = Len(A) + 1 /\ Len(A) \in Nat /\ B[Len(A) + 1] = C[1]
      /\ \A i \in 1..Len(A) : B[i] = A[i]
  BY <1>1
<1>3. D \in Seq(T) /\ Len(D) = Len(C) - 1 /\ \A i \in 1..Len(D) : D[i] = C[i + 1]
  BY <1>1, HeadTailProperties
<1>4. /\ B \o D \in Seq(T) /\ A \o C \in Seq(T)
      /\ Len(B \o D) = Len(A) + Len(C) /\ Len(A \o C) = Len(A) + Len(C)
  BY <1>1, <1>2, <1>3, ConcatFacts
<1>5. ASSUME NEW i \in 1..(Len(A) + Len(C)) PROVE (B \o D)[i] = (A \o C)[i]
  <2>1. CASE i <= Len(A)
    <3>1. i \in 1..Len(A) /\ i \in 1..Len(B)
      BY <2>1, <1>1, <1>2
    <3> QED
      BY <3>1, <1>2, <1>3, ConcatFacts
  <2>2. CASE i = Len(A) + 1
    <3>1. i \in 1..Len(B) /\ 1 \in 1..Len(C)
      BY <2>2, <1>1, <1>2
    <3>2. (B \o D)[i] = C[1]
      BY <3>1, <2>2, <1>2, <1>3, ConcatFacts
    <3>3. (A \o C)[Len(A) + 1] = C[1]
      BY <3>1, ConcatFacts
    <3> QED
      BY <3>2, <3>3, <2>2
  <2>3. CASE i > Len(A) + 1
    <3>1. i \in (Len(B) + 1)..(Len(B) + Len(D)) /\ i \in (Len(A) + 1)..(Len(A) + Len(C))
      BY <2>3, <1>1, <1>2, <1>3
    <3>2. i - Len(B) \in 1..Len(D) /\ (B \o D)[i] = D[i - Len(B)]
      BY <3>1, <1>2, <1>3, ConcatFacts
    <3>3. (A \o C)[i] = C[i - Len(A)]
      BY <3>1, ConcatFacts
    <3>4. (i - Len(B)) + 1 = i - Len(A)
      BY <1>1, <1>2
    <3> QED
      BY <3>2, <3>3, <3>4, <1>3
  <2> QED
    BY <2>1, <2>2, <2>3, <1>1, <1>2
<1>6. B \o D = A \o C
  BY <1>4, <1>5, SeqEqual
<1> QED
  BY <1>2, <1>3, <1>6

(* Rows stay as good as they are while logs and slots grow. *)
LEMMA RowsKept ==
  ASSUME NEW A, NEW S, NEW E, NEW sl, NEW lg, NEW sm, NEW lh, RowsOK(A, S, E, sl, lg),
         \A p \in S : /\ lh[p[1]][p[2]] = lg[p[1]][p[2]]
                      /\ sl[p] \subseteq sm[p] /\ E \cap sm[p] \subseteq sl[p]
  PROVE  RowsOK(A, S, E, sm, lh)
<1>1. \A i \in 1..Len(A) :
        /\ A[i].item \in S /\ A[i].snapshot \subseteq sm[A[i].item]
        /\ E \cap sm[A[i].item] \subseteq A[i].snapshot
  BY DEF RowsOK
<1>2. \A i, j \in 1..Len(A) : A[i].item = A[j].item => A[i].snapshot = A[j].snapshot
  BY DEF RowsOK
<1>3. \A p \in S : \E b \in 0..Len(A) : Block(A, p, DirectOutputs(lh[p[1]][p[2]]), b)
  BY DEF RowsOK
<1> QED
  BY <1>1, <1>2, <1>3 DEF RowsOK

(* No rows, no metrics. *)
LEMMA NoRows ==
  ASSUME NEW E, NEW sl, NEW lg
  PROVE  RowsOK(<<>>, {}, E, sl, lg)
<1>1. Len(<<>>) = 0 /\ 1..0 = {}
  OBVIOUS
<1> QED
  BY <1>1 DEF RowsOK


(* The visit of the metric r at place p with the snapshot snap adds rows C. *)
Adds(A, S, E, sl, lg, p, snap, r, C) ==
  /\ A \in Seq(Rows) /\ RowsOK(A, S, E, sl, lg)
  /\ \A q \in S : lg[q[1]][q[2]] \in Requests
  /\ p \in Shards \X Nat /\ p \notin S
  /\ snap \in SUBSET Nat /\ snap \subseteq sl[p] /\ E \cap sl[p] \subseteq snap
  /\ r \in Requests /\ lg[p[1]][p[2]] = r
  /\ C = [i \in DOMAIN DirectOutputs(r) |->
            [item |-> p, output |-> DirectOutputs(r)[i], snapshot |-> snap]]

(* They are a block with one snapshot. *)
LEMMA RowsAdded ==
  ASSUME NEW A, NEW S, NEW E, NEW sl, NEW lg, NEW p, NEW snap, NEW r, NEW C,
         Adds(A, S, E, sl, lg, p, snap, r, C)
  PROVE  /\ C \in Seq(Rows)
         /\ RowsOK(A \o C, S \cup {p}, E, sl, lg)
<1>0. /\ A \in Seq(Rows) /\ RowsOK(A, S, E, sl, lg)
      /\ \A q \in S : lg[q[1]][q[2]] \in Requests
      /\ p \in Shards \X Nat /\ p \notin S
      /\ snap \in SUBSET Nat /\ snap \subseteq sl[p] /\ E \cap sl[p] \subseteq snap
      /\ r \in Requests /\ lg[p[1]][p[2]] = r
      /\ C = [i \in DOMAIN DirectOutputs(r) |->
                [item |-> p, output |-> DirectOutputs(r)[i], snapshot |-> snap]]
  BY DEF Adds
<1> USE <1>0
<1> PICK outs, n : outs = DirectOutputs(r) /\ n = Len(outs)
  OBVIOUS
<1>1. n \in Nat \ {0} /\ DOMAIN outs = 1..n /\ \A i \in 1..n : outs[i] \in Views
  BY OutputsOf
<1>2. C = [i \in 1..n |-> [item |-> p, output |-> outs[i], snapshot |-> snap]]
  BY <1>1
<1>3. \A i \in 1..n : C[i] \in Rows /\ C[i].item = p /\ C[i].output = outs[i] /\ C[i].snapshot = snap
  BY <1>1, <1>2 DEF Rows
<1>4. C \in Seq(Rows) /\ Len(C) = n
  BY <1>1, <1>2, <1>3
<1> PICK D, m : D = A \o C /\ m = Len(A)
  OBVIOUS
<1>5. /\ Len(D) = m + n /\ m \in Nat
      /\ \A i \in 1..m : D[i] = A[i]
      /\ \A i \in 1..n : D[m + i] = C[i]
      /\ \A i \in (m + 1)..(m + n) : i - m \in 1..n /\ D[i] = C[i - m]
  <2>1. /\ A \o C \in Seq(Rows) /\ Len(A \o C) = Len(A) + Len(C)
        /\ Len(A) \in Nat /\ Len(C) \in Nat
        /\ \A i \in 1..Len(A) : (A \o C)[i] = A[i]
        /\ \A i \in 1..Len(C) : (A \o C)[Len(A) + i] = C[i]
        /\ \A i \in (Len(A) + 1)..(Len(A) + Len(C)) :
             i - Len(A) \in 1..Len(C) /\ (A \o C)[i] = C[i - Len(A)]
    <3> PICK T : T = Rows
      OBVIOUS
    <3>1. A \in Seq(T) /\ C \in Seq(T)
      BY <1>4
    <3> QED
      BY <3>1, ConcatFacts
  <2> QED
    BY ONLY <2>1, <1>4, D = A \o C, m = Len(A)
<1>6. \A i \in 1..Len(D) : i \in 1..m \/ i \in (m + 1)..(m + n)
  BY <1>1, <1>5
<1>7. \A i \in 1..m : D[i] = A[i] /\ D[i].item \in S /\ D[i].item # p
  BY <1>5 DEF RowsOK
<1>8. \A i \in (m + 1)..(m + n) : D[i].item = p /\ D[i].snapshot = snap
  BY <1>3, <1>5
<1>9. ASSUME NEW i \in 1..Len(D)
      PROVE  /\ D[i].item \in S \cup {p}
             /\ D[i].snapshot \subseteq sl[D[i].item]
             /\ E \cap sl[D[i].item] \subseteq D[i].snapshot
  <2>1. CASE i \in 1..m
    BY <2>1, <1>7 DEF RowsOK
  <2>2. CASE i \in (m + 1)..(m + n)
    BY <2>2, <1>8
  <2> QED
    BY <1>6, <2>1, <2>2
<1>10. ASSUME NEW i \in 1..Len(D), NEW j \in 1..Len(D), D[i].item = D[j].item
       PROVE  D[i].snapshot = D[j].snapshot
  <2>1. CASE i \in 1..m /\ j \in 1..m
    BY <2>1, <1>7, <1>10 DEF RowsOK
  <2>2. CASE i \in (m + 1)..(m + n) /\ j \in (m + 1)..(m + n)
    BY <2>2, <1>8
  <2> QED
    BY <1>6, <1>7, <1>8, <1>10, <2>1, <2>2
<1>11. ASSUME NEW q \in S PROVE \E b \in 0..Len(D) : Block(D, q, DirectOutputs(lg[q[1]][q[2]]), b)
  <2> PICK o, k : o = DirectOutputs(lg[q[1]][q[2]]) /\ k = Len(o)
    OBVIOUS
  <2>0. k \in Nat
    BY OutputsOf
  <2>1. PICK b \in 0..Len(A) : Block(A, q, o, b)
    BY DEF RowsOK
  <2>2. /\ b \in Nat /\ b + k <= m
        /\ \A i \in 1..m : A[i].item = q <=> b < i /\ i <= b + k
        /\ \A i \in 1..k : A[b + i].output = o[i]
    BY <2>1 DEF Block
  <2>3. ASSUME NEW i \in 1..Len(D) PROVE D[i].item = q <=> b < i /\ i <= b + k
    <3>1. CASE i \in 1..m
      BY <3>1, <2>2, <1>5
    <3>2. CASE i \in (m + 1)..(m + n)
      <4>1. D[i].item # q
        BY <3>2, <1>8
      <4>2. ~(i <= b + k)
        BY <3>2, <2>0, <2>2, <1>1, <1>5
      <4> QED
        BY <4>1, <4>2
    <3> QED
      BY <1>6, <3>1, <3>2
  <2>4. ASSUME NEW i \in 1..k PROVE D[b + i].output = o[i]
    <3>1. b + i \in 1..m
      BY <2>0, <2>2, <1>5
    <3> QED
      BY <3>1, <2>2, <1>5
  <2>5. b + k <= Len(D) /\ b \in 0..Len(D)
    BY <2>0, <2>2, <1>1, <1>5
  <2>6. Block(D, q, o, b)
    BY <2>3, <2>4, <2>5 DEF Block
  <2> QED
    BY <2>5, <2>6
<1>12. Block(D, p, outs, m)
  <2>1. m + n <= Len(D)
    BY <1>1, <1>5
  <2>2. \A i \in 1..Len(D) : D[i].item = p <=> m < i /\ i <= m + n
    <3> TAKE i \in 1..Len(D)
    <3>1. CASE i \in 1..m
      BY <3>1, <1>5, <1>7
    <3>2. CASE i \in (m + 1)..(m + n)
      BY <3>2, <1>1, <1>5, <1>8
    <3> QED
      BY <1>6, <3>1, <3>2
  <2>3. \A i \in 1..n : D[m + i].output = outs[i]
    BY <1>3, <1>5
  <2> QED
    BY <2>1, <2>2, <2>3 DEF Block
<1>13. m \in 0..Len(D)
  BY <1>1, <1>5
<1>14. \A q \in S \cup {p} : \E b \in 0..Len(D) : Block(D, q, DirectOutputs(lg[q[1]][q[2]]), b)
  BY <1>11, <1>12, <1>13
<1>15. RowsOK(D, S \cup {p}, E, sl, lg)
  BY <1>9, <1>10, <1>14 DEF RowsOK
<1> QED
  BY <1>4, <1>15


----------------------------------------------------------------------------
(***************************************************************************)
(* The logs.                                                               *)
(***************************************************************************)
LEMMA PlacesAre ==
  \A p : p \in Reg!Places <=> \E s \in Shards : \E i \in DOMAIN log[s] : p = <<s, i>>
BY DEF Reg!Places

LEMMA KeysFacts ==
  /\ IsFiniteSet(Keys)
  /\ \A r \in Requests : LookupKey(r) \in Keys /\ ShardOf[LookupKey(r)] \in Shards
<1> DEFINE f == [r \in Requests |-> LookupKey(r)]
<1>1. f \in Surjection(Requests, Keys)
  BY DEF Surjection, Keys
<1>2. IsFiniteSet(Requests)
  BY FacadeAssumption
<1> HIDE DEF f
<1>3. IsFiniteSet(Keys)
  BY <1>1, <1>2, FS_Surjection
<1>4. \A r \in Requests : LookupKey(r) \in Keys
  BY DEF Keys
<1> QED
  BY <1>3, <1>4, FacadeAssumption

(* What a place holds is a request. *)
LEMMA AtFacts ==
  ASSUME LogInv, NEW p \in Reg!Places
  PROVE  /\ p \in Shards \X Nat /\ p[1] \in Shards /\ p[2] \in DOMAIN log[p[1]] /\ p = <<p[1], p[2]>>
         /\ Reg!At(p) = log[p[1]][p[2]] /\ Reg!At(p) \in Requests /\ KeyAt(p) \in Keys
<1>0. PICK s \in Shards : \E i \in DOMAIN log[s] : p = <<s, i>>
  BY PlacesAre
<1>1. PICK i \in DOMAIN log[s] : p = <<s, i>>
  BY <1>0
<1>2. log[s] \in Seq(Requests)
  BY DEF LogInv
<1>3. i \in Nat /\ log[s][i] \in Requests
  BY <1>2
<1>4. Reg!At(p) = log[p[1]][p[2]]
  BY DEF Reg!At
<1> QED
  BY <1>1, <1>3, <1>4, KeysFacts DEF KeyAt

(* There are no more places in a shard than keys. *)
LEMMA FewPlaces ==
  ASSUME LogInv, NEW p \in Reg!Places
  PROVE  p \in Shards \X (1..Cardinality(Keys))
<1>0. PICK s \in Shards : \E i \in DOMAIN log[s] : p = <<s, i>>
  BY PlacesAre
<1>1. PICK i \in DOMAIN log[s] : p = <<s, i>>
  BY <1>0
<1> PICK n : n = Len(log[s])
  OBVIOUS
<1>2. n \in Nat /\ DOMAIN log[s] = 1..n
  BY DEF LogInv
<1> DEFINE f == [j \in 1..n |-> LookupKey(log[s][j])]
<1>3. ASSUME NEW j \in 1..n PROVE <<s, j>> \in Reg!Places /\ KeyAt(<<s, j>>) = LookupKey(log[s][j])
  <2>1. <<s, j>> \in Reg!Places
    BY <1>2, PlacesAre
  <2> QED
    BY <2>1, AtFacts DEF KeyAt, Reg!At
<1>4. \A j \in 1..n : f[j] \in Keys
  BY <1>3, AtFacts
<1>5. ASSUME NEW j \in 1..n, NEW k \in 1..n, f[j] = f[k] PROVE j = k
  <2>0. /\ <<s, j>> \in Reg!Places /\ <<s, k>> \in Reg!Places
        /\ KeyAt(<<s, j>>) = KeyAt(<<s, k>>)
    BY <1>3, <1>5
  <2>1. <<s, j>> = <<s, k>>
    BY <2>0 DEF LogInv
  <2> QED
    BY <2>1
<1>6. f \in Injection(1..n, Keys)
  BY <1>4, <1>5 DEF Injection, IsInjective
<1> HIDE DEF f
<1>7. Cardinality(1..n) <= Cardinality(Keys)
  BY <1>6, KeysFacts, FS_Injection
<1>8. Cardinality(1..n) = n
  BY <1>2, FS_Interval
<1>9. Cardinality(Keys) \in Nat
  BY KeysFacts, FS_CardinalityType
<1>10. i \in 1..Cardinality(Keys)
  BY <1>2, <1>7, <1>8, <1>9
<1> QED
  BY <1>1, <1>10

(* A registration adds one place, at the end of its shard. *)
LEMMA InsertFacts ==
  ASSUME LogInv, NEW t \in Threads, NEW r \in Requests, Reg!Insert(t, r)
  PROVE  \E s \in Shards : \E q :
           /\ s = ShardOf[LookupKey(r)] /\ q = <<s, Len(log[s]) + 1>>
           /\ log' \in [Shards -> Seq(Requests)]
           /\ \A p : p \in Reg!Places' <=> (p \in Reg!Places \/ p = q)
           /\ \A p \in Reg!Places : log'[p[1]][p[2]] = log[p[1]][p[2]]
           /\ log'[s][q[2]] = r
           /\ \A p \in Reg!Places : KeyAt(p) # LookupKey(r)
           /\ knows' = [knows EXCEPT ![t] = @ \cup {q}]
           /\ UNCHANGED <<handles, walk, must, seen>>
<1> PICK s, q : s = ShardOf[LookupKey(r)] /\ q = <<s, Len(log[s]) + 1>>
  OBVIOUS
<1>1. /\ \A i \in DOMAIN log[s] : [x \in Requests |-> LookupKey(x)][log[s][i]] # LookupKey(r)
      /\ log' = [log EXCEPT ![s] = Append(@, r)]
      /\ knows' = [knows EXCEPT ![t] = @ \cup {q}]
      /\ UNCHANGED <<handles, walk, must, seen>>
  BY DEF Reg!Insert, Reg!visitVars
<1>2. s \in Shards
  BY KeysFacts
<1>3. log \in [Shards -> Seq(Requests)] /\ log[s] \in Seq(Requests)
  BY <1>2 DEF LogInv
<1> PICK l, n : l = log[s] /\ n = Len(l)
  OBVIOUS
<1>4. n \in Nat /\ DOMAIN l = 1..n /\ \A i \in 1..n : l[i] \in Requests
  BY <1>3
<1>5. /\ Append(l, r) \in Seq(Requests) /\ DOMAIN Append(l, r) = 1..(n + 1)
      /\ Append(l, r)[n + 1] = r /\ \A i \in 1..n : Append(l, r)[i] = l[i]
  BY <1>3, <1>4
<1>6. /\ log' \in [Shards -> Seq(Requests)] /\ log'[s] = Append(l, r)
      /\ \A u \in Shards : u # s => log'[u] = log[u]
  BY <1>1, <1>2, <1>3, <1>5
<1>7. \A p : p \in Reg!Places' <=> \E u \in Shards : \E i \in DOMAIN log'[u] : p = <<u, i>>
  BY DEF Reg!Places
<1>8. \A i : i \in 1..(n + 1) <=> (i \in 1..n \/ i = n + 1)
  BY <1>4
<1>9. \A p : p \in Reg!Places' <=> (p \in Reg!Places \/ p = q)
  <2>1. ASSUME NEW u \in Shards, NEW i
        PROVE  i \in DOMAIN log'[u] <=> (i \in DOMAIN log[u] \/ (u = s /\ i = n + 1))
    BY <1>4, <1>5, <1>6, <1>8
  <2>2. q = <<s, n + 1>>
    OBVIOUS
  <2> QED
    BY <2>1, <2>2, <1>2, <1>7, PlacesAre
<1>10. ASSUME NEW p \in Reg!Places PROVE log'[p[1]][p[2]] = log[p[1]][p[2]]
  <2>1. p[1] \in Shards /\ p[2] \in DOMAIN log[p[1]]
    BY AtFacts
  <2>2. CASE p[1] = s
    BY <2>1, <2>2, <1>4, <1>5, <1>6
  <2> QED
    BY <2>1, <2>2, <1>6
<1>11. log'[s][q[2]] = r
  BY <1>5, <1>6
<1>12. ASSUME NEW p \in Reg!Places PROVE KeyAt(p) # LookupKey(r)
  <2>1. /\ p[1] \in Shards /\ p[2] \in DOMAIN log[p[1]] /\ Reg!At(p) = log[p[1]][p[2]]
        /\ Reg!At(p) \in Requests
    BY AtFacts
  <2>2. CASE p[1] = s
    <3>1. [x \in Requests |-> LookupKey(x)][log[s][p[2]]] # LookupKey(r)
      BY <2>1, <2>2, <1>1
    <3> QED
      BY <3>1, <2>1, <2>2 DEF KeyAt
  <2>3. CASE p[1] # s
    BY <2>3 DEF LogInv
  <2> QED
    BY <2>2, <2>3
<1> QED
  BY <1>1, <1>2, <1>6, <1>9, <1>10, <1>11, <1>12

(* Places and what they hold depend on the logs alone. *)
LEMMA LogSame ==
  ASSUME log' = log
  PROVE  Reg!Places' = Reg!Places /\ \A p : KeyAt(p)' = KeyAt(p)
<1>1. Reg!Places' = Reg!Places
  BY DEF Reg!Places
<1>2. \A p : KeyAt(p)' = KeyAt(p)
  BY DEF KeyAt, Reg!At
<1> QED
  BY <1>1, <1>2

LEMMA LogInvFrom ==
  ASSUME LogInv, log' = log,
         pending' \in [Threads -> Requests \cup {None}],
         knows' \in [Threads -> SUBSET Reg!Places],
         \A h \in handles' : h.item \in Reg!Places /\ h.key = KeyAt(h.item)
  PROVE  LogInv'
<1> PICK P : P = Reg!Places /\ P = Reg!Places'
  BY LogSame
<1>1. \A p \in P : ShardOf[KeyAt(p)'] = p[1]
  BY LogSame DEF LogInv
<1>2. \A p, q \in P : KeyAt(p)' = KeyAt(q)' => p = q
  BY LogSame DEF LogInv
<1>3. \A h \in handles' : h.item \in P /\ h.key = KeyAt(h.item)'
  BY LogSame
<1>4. log' \in [Shards -> Seq(Requests)] /\ knows' \in [Threads -> SUBSET P]
  BY DEF LogInv
<1> QED
  BY <1>1, <1>2, <1>3, <1>4 DEF LogInv

(* The keys of the metrics stay distinct when one is registered. *)
LEMMA LogInvInsert ==
  ASSUME LogInv, NEW t \in Threads, NEW r \in Requests, Reg!Insert(t, r),
         pending' = [pending EXCEPT ![t] = r]
  PROVE  LogInv'
<1>1. PICK s \in Shards : \E q :
        /\ s = ShardOf[LookupKey(r)] /\ q = <<s, Len(log[s]) + 1>>
        /\ log' \in [Shards -> Seq(Requests)]
        /\ \A p : p \in Reg!Places' <=> (p \in Reg!Places \/ p = q)
        /\ \A p \in Reg!Places : log'[p[1]][p[2]] = log[p[1]][p[2]]
        /\ log'[s][q[2]] = r
        /\ \A p \in Reg!Places : KeyAt(p) # LookupKey(r)
        /\ knows' = [knows EXCEPT ![t] = @ \cup {q}]
        /\ UNCHANGED <<handles, walk, must, seen>>
  BY InsertFacts
<1>2. PICK q :
        /\ s = ShardOf[LookupKey(r)] /\ q = <<s, Len(log[s]) + 1>>
        /\ log' \in [Shards -> Seq(Requests)]
        /\ \A p : p \in Reg!Places' <=> (p \in Reg!Places \/ p = q)
        /\ \A p \in Reg!Places : log'[p[1]][p[2]] = log[p[1]][p[2]]
        /\ log'[s][q[2]] = r
        /\ \A p \in Reg!Places : KeyAt(p) # LookupKey(r)
        /\ knows' = [knows EXCEPT ![t] = @ \cup {q}]
        /\ UNCHANGED <<handles, walk, must, seen>>
  BY <1>1
<1> PICK P, Q : P = Reg!Places /\ Q = Reg!Places'
  OBVIOUS
<1>3. \A p : p \in Q <=> (p \in P \/ p = q)
  BY <1>2
<1>4. KeyAt(q)' = LookupKey(r) /\ q[1] = s
  BY <1>2 DEF KeyAt, Reg!At
<1>5. \A p \in P : KeyAt(p)' = KeyAt(p) /\ KeyAt(p) # LookupKey(r)
  BY <1>2 DEF KeyAt, Reg!At
<1>6. \A p \in Q : ShardOf[KeyAt(p)'] = p[1]
  BY <1>2, <1>3, <1>4, <1>5 DEF LogInv
<1>7. \A p, p2 \in Q : KeyAt(p)' = KeyAt(p2)' => p = p2
  BY <1>3, <1>4, <1>5 DEF LogInv
<1>8. \A h \in handles' : h.item \in Q /\ h.key = KeyAt(h.item)'
  BY <1>2, <1>3, <1>5 DEF LogInv
<1>9. knows' \in [Threads -> SUBSET Q]
  <2>1. knows \in [Threads -> SUBSET P] /\ knows' = [knows EXCEPT ![t] = knows[t] \cup {q}]
    BY <1>2 DEF LogInv
  <2>2. P \subseteq Q /\ q \in Q
    BY <1>3
  <2> QED
    BY <2>1, <2>2
<1>10. pending' \in [Threads -> Requests \cup {None}]
  BY DEF LogInv
<1>11. log' \in [Shards -> Seq(Requests)]
  BY <1>2
<1> QED
  BY <1>6, <1>7, <1>8, <1>9, <1>10, <1>11 DEF LogInv

LEMMA LogInvStep ==
  ASSUME LogInv, [Next]_vars
  PROVE  LogInv'
<1>0. /\ pending \in [Threads -> Requests \cup {None}] /\ knows \in [Threads -> SUBSET Reg!Places]
      /\ \A h \in handles : h.item \in Reg!Places /\ h.key = KeyAt(h.item)
  BY DEF LogInv
<1>1. ASSUME NEW t \in Threads, NEW r \in Requests, Register(t, r) PROVE LogInv'
  <2>1. pending' = [pending EXCEPT ![t] = r]
    BY <1>1 DEF Register
  <2>2. CASE Reg!Insert(t, r)
    BY <2>1, <2>2, LogInvInsert
  <2>3. CASE \E p \in Reg!Places : Reg!Learn(t, knows[t] \cup {p})
    <3>1. PICK p \in Reg!Places : Reg!Learn(t, knows[t] \cup {p})
      BY <2>3
    <3>2. /\ log' = log /\ handles' = handles
          /\ knows' = [knows EXCEPT ![t] = knows[t] \cup {p}]
      BY <3>1 DEF Reg!Learn, Reg!Learns
    <3>3. knows' \in [Threads -> SUBSET Reg!Places]
      BY <3>2, <1>0
    <3>4. pending' \in [Threads -> Requests \cup {None}]
      BY <2>1, <1>0
    <3> QED
      BY <3>2, <3>3, <3>4, <1>0, LogInvFrom
  <2> QED
    BY <1>1, <2>2, <2>3 DEF Register
<1>2. ASSUME NEW t \in Threads, Return(t) PROVE LogInv'
  <2>1. PICK p \in knows[t] : Reg!Return(t, pending[t], p)
    BY <1>2 DEF Return
  <2>2. p \in Reg!Places /\ pending[t] \in Requests
    BY <1>0, <1>2 DEF Return
  <2>3. /\ [x \in Requests |-> LookupKey(x)][Reg!At(p)] = [x \in Requests |-> LookupKey(x)][pending[t]]
        /\ handles' = handles \cup {[key |-> [x \in Requests |-> LookupKey(x)][pending[t]], item |-> p,
                                     policy |-> [x \in Requests |-> PolicyOf(x)][pending[t]]]}
        /\ log' = log /\ knows' = knows
    BY <2>1 DEF Reg!Return
  <2>4. KeyAt(p) = LookupKey(pending[t])
    BY <2>2, <2>3, AtFacts DEF KeyAt
  <2>5. \A h \in handles' : h.item \in Reg!Places /\ h.key = KeyAt(h.item)
    BY <2>2, <2>3, <2>4, <1>0
  <2>6. pending' \in [Threads -> Requests \cup {None}]
    BY <1>0, <1>2 DEF Return
  <2> QED
    BY <2>3, <2>5, <2>6, <1>0, LogInvFrom
<1>3. ASSUME NEW t \in Threads, NEW u \in Threads, Synchronize(u, t) PROVE LogInv'
  <2>1. /\ log' = log /\ handles' = handles /\ pending' = pending
        /\ knows' = [knows EXCEPT ![t] = knows[u] \cup knows[t]]
    BY <1>3 DEF Synchronize, Reg!Learn, Reg!Learns
  <2>2. knows' \in [Threads -> SUBSET Reg!Places]
    BY <2>1, <1>0
  <2> QED
    BY <2>1, <2>2, <1>0, LogInvFrom
<1>4. ASSUME NEW t \in Threads, NEW p \in Reg!Places, VisitMetric(t, p) PROVE LogInv'
  <2>1. /\ log' = log /\ handles' = handles /\ pending' = pending
        /\ knows' = [knows EXCEPT ![t] = knows[t] \cup {p}]
    BY <1>4 DEF VisitMetric, Reg!Visit, Reg!Learns
  <2>2. knows' \in [Threads -> SUBSET Reg!Places]
    BY <2>1, <1>0
  <2> QED
    BY <2>1, <2>2, <1>0, LogInvFrom
<1>5. ASSUME NEW t \in Threads, EndVisit(t) PROVE LogInv'
  <2>1. /\ log' = log /\ handles' = handles /\ pending' = pending
        /\ knows' = [knows EXCEPT ![t] = knows[t]]
    BY <1>5 DEF EndVisit, Reg!Visit, Reg!Learns
  <2>2. knows' \in [Threads -> SUBSET Reg!Places]
    BY <2>1, <1>0
  <2> QED
    BY <2>1, <2>2, <1>0, LogInvFrom
<1>6. ASSUME log' = log, handles' = handles, knows' = knows, pending' = pending PROVE LogInv'
  <2>1. knows' \in [Threads -> SUBSET Reg!Places] /\ pending' \in [Threads -> Requests \cup {None}]
    BY <1>0, <1>6
  <2> QED
    BY <2>1, <1>0, <1>6, LogInvFrom
<1>7. ASSUME NEW t \in Threads,
             (\E h \in handles : Record(t, h)) \/ BeginVisit(t) \/ Callback(t) \/ Returned(t)
      PROVE  LogInv'
  BY <1>6, <1>7 DEF Record, BeginVisit, Callback, Returned, registryVars,
                    Reg!BeginVisit, Reg!EndVisit
<1>8. CASE UNCHANGED vars
  BY <1>6, <1>8 DEF vars, registryVars
<1> QED
  BY <1>1, <1>2, <1>3, <1>4, <1>5, <1>7, <1>8 DEF Next

----------------------------------------------------------------------------
(***************************************************************************)
(* The slots.                                                              *)
(***************************************************************************)

(* Logs and what threads know of them only grow. *)
Grown ==
  /\ Reg!Places \subseteq Reg!Places'
  /\ \A p \in Reg!Places : KeyAt(p)' = KeyAt(p) /\ log'[p[1]][p[2]] = log[p[1]][p[2]]
  /\ \A t \in Threads : knows[t] \subseteq knows'[t]

LEMMA Grows ==
  ASSUME LogInv, [Next]_vars
  PROVE  Grown
<1>0. knows \in [Threads -> SUBSET Reg!Places]
  BY DEF LogInv
<1>1. ASSUME log' = log, NEW t \in Threads, NEW K, knows[t] \subseteq K,
             knows' = knows \/ knows' = [knows EXCEPT ![t] = K]
      PROVE  Grown
  <2>1. \A u \in Threads : knows[u] \subseteq knows'[u]
    BY <1>0, <1>1
  <2> QED
    BY <1>1, <2>1, LogSame DEF Grown
<1>2. ASSUME NEW t \in Threads, NEW r \in Requests, Reg!Insert(t, r) PROVE Grown
  <2>1. PICK s \in Shards : \E q :
          /\ \A p : p \in Reg!Places' <=> (p \in Reg!Places \/ p = q)
          /\ \A p \in Reg!Places : log'[p[1]][p[2]] = log[p[1]][p[2]]
          /\ knows' = [knows EXCEPT ![t] = @ \cup {q}]
    BY <1>2, InsertFacts
  <2>2. \A p \in Reg!Places : KeyAt(p)' = KeyAt(p) /\ log'[p[1]][p[2]] = log[p[1]][p[2]]
    BY <2>1 DEF KeyAt, Reg!At
  <2>3. \A u \in Threads : knows[u] \subseteq knows'[u]
    BY <1>0, <2>1
  <2>4. Reg!Places \subseteq Reg!Places'
    BY <2>1
  <2> QED
    BY <2>2, <2>3, <2>4 DEF Grown
<1>3. ASSUME NEW t \in Threads, NEW r \in Requests, Register(t, r) PROVE Grown
  <2>1. CASE \E p \in Reg!Places : Reg!Learn(t, knows[t] \cup {p})
    <3>1. PICK p \in Reg!Places : log' = log /\ knows' = [knows EXCEPT ![t] = knows[t] \cup {p}]
      BY <2>1 DEF Reg!Learn, Reg!Learns
    <3>2. knows[t] \subseteq knows[t] \cup {p}
      OBVIOUS
    <3> QED
      BY <3>1, <3>2, <1>1
  <2> QED
    BY <1>2, <1>3, <2>1 DEF Register
<1>4. ASSUME NEW t \in Threads, Return(t) PROVE Grown
  <2>1. log' = log /\ knows' = knows
    BY <1>4 DEF Return, Reg!Return
  <2> QED
    BY <2>1, <1>1
<1>5. ASSUME NEW t \in Threads, NEW u \in Threads, Synchronize(u, t) PROVE Grown
  <2>1. log' = log /\ knows' = [knows EXCEPT ![t] = knows[u] \cup knows[t]]
    BY <1>5 DEF Synchronize, Reg!Learn, Reg!Learns
  <2>2. knows[t] \subseteq knows[u] \cup knows[t]
    OBVIOUS
  <2> QED
    BY <2>1, <2>2, <1>1
<1>6. ASSUME NEW t \in Threads, NEW p \in Reg!Places, VisitMetric(t, p) PROVE Grown
  <2>1. log' = log /\ knows' = [knows EXCEPT ![t] = knows[t] \cup {p}]
    BY <1>6 DEF VisitMetric, Reg!Visit, Reg!Learns
  <2>2. knows[t] \subseteq knows[t] \cup {p}
    OBVIOUS
  <2> QED
    BY <2>1, <2>2, <1>1
<1>7. ASSUME NEW t \in Threads, EndVisit(t) PROVE Grown
  <2>1. log' = log /\ knows' = [knows EXCEPT ![t] = knows[t]]
    BY <1>7 DEF EndVisit, Reg!Visit, Reg!Learns
  <2> QED
    BY <2>1, <1>1
<1>8. ASSUME NEW t \in Threads,
             (\E h \in handles : Record(t, h)) \/ BeginVisit(t) \/ Callback(t) \/ Returned(t)
      PROVE  Grown
  <2>1. log' = log /\ knows' = knows
    BY <1>8 DEF Record, BeginVisit, Callback, Returned, registryVars,
                Reg!BeginVisit, Reg!EndVisit
  <2> QED
    BY <2>1, <1>1
<1>9. CASE UNCHANGED vars
  <2>1. log' = log /\ knows' = knows
    BY <1>9 DEF vars, registryVars
  <2>2. \A u \in Threads : knows[u] \subseteq knows'[u]
    BY <2>1
  <2> QED
    BY <2>1, <2>2, LogSame DEF Grown
<1> QED
  BY <1>3, <1>4, <1>5, <1>6, <1>7, <1>8, <1>9 DEF Next

(* The steps that record nothing: at most awareness is passed on. *)
LEMMA SlotInvFrom ==
  ASSUME LogInv, [Next]_vars, SlotInv, records' = records, slots' = slots,
         aware' \in [Threads -> SUBSET DOMAIN records],
         \A t \in Threads : \A id \in aware'[t] : \E p \in knows'[t] : id \in slots[p]
  PROVE  SlotInv'
<1>1. \A p \in DOMAIN slots : \A id \in slots[p] : p \in Reg!Places' /\ records[id] = KeyAt(p)'
  BY Grows DEF SlotInv, Grown
<1> QED
  BY <1>1 DEF SlotInv

(* A call of record puts a new record in the slot of its handle. *)
LEMMA RecordFacts ==
  ASSUME LogInv, SlotInv, NEW t \in Threads, NEW h \in handles, Record(t, h)
  PROVE  \E id \in Nat :
           /\ id = Len(records) + 1 /\ id \notin DOMAIN records
           /\ DOMAIN records' = DOMAIN records \cup {id} /\ records' \in Seq(Keys)
           /\ \A i \in DOMAIN records : records'[i] = records[i]
           /\ records'[id] = KeyAt(h.item)
           /\ h.item \in DOMAIN slots /\ h.item \in knows[t] /\ h.item \in Reg!Places
           /\ slots' = [slots EXCEPT ![h.item] = slots[h.item] \cup {id}]
           /\ aware' = [aware EXCEPT ![t] = aware[t] \cup {id}]
           /\ UNCHANGED <<registryVars, pending, callVars>>
<1> PICK id : id = Len(records) + 1
  OBVIOUS
<1>1. /\ h.item \in knows[t] /\ records' = Append(records, h.key)
      /\ slots' = [slots EXCEPT ![h.item] = slots[h.item] \cup {id}]
      /\ aware' = [aware EXCEPT ![t] = aware[t] \cup {id}]
      /\ UNCHANGED <<registryVars, pending, callVars>>
  BY DEF Record
<1>2. h.item \in Reg!Places /\ h.key = KeyAt(h.item)
  BY DEF LogInv
<1>3. h.item \in DOMAIN slots /\ h.key \in Keys
  BY <1>2, FewPlaces, AtFacts DEF SlotInv
<1>4. /\ records \in Seq(Keys) /\ Len(records) \in Nat /\ DOMAIN records = 1..Len(records)
  BY DEF SlotInv
<1>5. /\ records' \in Seq(Keys) /\ DOMAIN records' = 1..id /\ records'[id] = h.key
      /\ \A i \in 1..Len(records) : records'[i] = records[i]
  BY <1>1, <1>3, <1>4
<1>6. id \in Nat /\ id \notin 1..Len(records) /\ 1..id = (1..Len(records)) \cup {id}
  BY <1>4
<1> QED
  BY <1>1, <1>2, <1>3, <1>4, <1>5, <1>6

LEMMA SlotInvRecord ==
  ASSUME LogInv, [Next]_vars, SlotInv, NEW t \in Threads, NEW h \in handles, Record(t, h)
  PROVE  SlotInv'
<1>1. PICK id \in Nat :
        /\ id = Len(records) + 1 /\ id \notin DOMAIN records
        /\ DOMAIN records' = DOMAIN records \cup {id} /\ records' \in Seq(Keys)
        /\ \A i \in DOMAIN records : records'[i] = records[i]
        /\ records'[id] = KeyAt(h.item)
        /\ h.item \in DOMAIN slots /\ h.item \in knows[t] /\ h.item \in Reg!Places
        /\ slots' = [slots EXCEPT ![h.item] = slots[h.item] \cup {id}]
        /\ aware' = [aware EXCEPT ![t] = aware[t] \cup {id}]
        /\ UNCHANGED <<registryVars, pending, callVars>>
  BY RecordFacts
<1> PICK P, D, R, S : /\ P = h.item /\ D = DOMAIN records /\ R = D \cup {id}
                      /\ S = Shards \X (1..Cardinality(Keys))
  OBVIOUS
<1>2. slots \in [S -> SUBSET D] /\ aware \in [Threads -> SUBSET D] /\ DOMAIN slots = S
  BY DEF SlotInv
<1>3. slots' \in [S -> SUBSET R] /\ aware' \in [Threads -> SUBSET R] /\ DOMAIN slots' = S
  BY <1>1, <1>2
<1>4. /\ slots'[P] = slots[P] \cup {id} /\ \A p \in S : p # P => slots'[p] = slots[p]
      /\ \A p \in S : slots[p] \subseteq slots'[p] /\ slots[p] \subseteq D
  BY <1>1, <1>2
<1>5. ASSUME NEW p \in S, NEW i \in slots'[p] PROVE p \in Reg!Places' /\ records'[i] = KeyAt(p)'
  <2>1. CASE i \in slots[p]
    BY <2>1, <1>1, <1>2, Grows DEF SlotInv, Grown
  <2>2. CASE p = P /\ i = id
    BY <2>2, <1>1, Grows DEF Grown
  <2> QED
    BY <2>1, <2>2, <1>4, <1>5
<1>6. ASSUME NEW u \in Threads, NEW i \in aware'[u] PROVE \E p \in knows'[u] : i \in slots'[p]
  <2>0. knows' = knows
    BY <1>1 DEF registryVars
  <2>1. CASE i \in aware[u]
    <3>1. PICK p \in knows[u] : i \in slots[p]
      BY <2>1 DEF SlotInv
    <3>2. p \in S
      BY FewPlaces DEF LogInv
    <3> QED
      BY <2>0, <3>1, <3>2, <1>4
  <2>2. CASE u = t /\ i = id
    BY <2>0, <2>2, <1>1, <1>4
  <2> QED
    BY <2>1, <2>2, <1>1, <1>2, <1>6
<1>7. /\ \A p \in DOMAIN slots' : \A i \in slots'[p] : p \in Reg!Places' /\ records'[i] = KeyAt(p)'
      /\ \A u \in Threads : \A i \in aware'[u] : \E p \in knows'[u] : i \in slots'[p]
  BY <1>3, <1>5, <1>6
<1> QED
  BY <1>1, <1>3, <1>7 DEF SlotInv

(* What a visit leaves in a slot is what was there. *)
LEMMA VisitKeepsSlots ==
  ASSUME SlotInv, NEW t, NEW p, VisitMetric(t, p)
  PROVE  slots' = slots /\ records' = records /\ aware' = aware
<1>1. slots' = [slots EXCEPT ![p] = slots[p]]
  BY DEF VisitMetric, AfterSnapshot
<1>2. slots \in [Shards \X (1..Cardinality(Keys)) -> SUBSET DOMAIN records]
  BY DEF SlotInv
<1>3. slots' = slots
  BY ONLY <1>1, <1>2
<1> QED
  BY <1>3 DEF VisitMetric

LEMMA SlotInvStep ==
  ASSUME LogInv, SlotInv, [Next]_vars
  PROVE  SlotInv'
<1>0. /\ aware \in [Threads -> SUBSET DOMAIN records] /\ knows \in [Threads -> SUBSET Reg!Places]
      /\ \A t \in Threads : \A id \in aware[t] : \E p \in knows[t] : id \in slots[p]
  BY DEF SlotInv, LogInv
<1>1. ASSUME records' = records, slots' = slots, aware' = aware PROVE SlotInv'
  <2>1. \A t \in Threads : \A id \in aware'[t] : \E p \in knows'[t] : id \in slots[p]
    BY <1>0, <1>1, Grows DEF Grown
  <2>2. aware' \in [Threads -> SUBSET DOMAIN records]
    BY <1>0, <1>1
  <2> QED
    BY <1>1, <2>1, <2>2, SlotInvFrom
<1>2. ASSUME NEW t \in Threads, NEW u \in Threads, Synchronize(u, t) PROVE SlotInv'
  <2>1. /\ records' = records /\ slots' = slots
        /\ knows' = [knows EXCEPT ![t] = knows[u] \cup knows[t]]
        /\ aware' = [aware EXCEPT ![t] = aware[t] \cup aware[u]]
    BY <1>2 DEF Synchronize, Reg!Learn, Reg!Learns
  <2>2. aware' \in [Threads -> SUBSET DOMAIN records]
    BY <2>1, <1>0
  <2>3. ASSUME NEW v \in Threads, NEW id \in aware'[v] PROVE \E p \in knows'[v] : id \in slots[p]
    <3>1. CASE id \in aware[v]
      BY <3>1, <1>0, Grows DEF Grown
    <3>2. CASE v = t /\ id \in aware[u]
      BY <3>2, <2>1, <1>0
    <3> QED
      BY <3>1, <3>2, <2>1, <2>3, <1>0
  <2> QED
    BY <2>1, <2>2, <2>3, SlotInvFrom
<1>3. ASSUME NEW t \in Threads, NEW h \in handles, Record(t, h) PROVE SlotInv'
  BY <1>3, SlotInvRecord
<1>4. ASSUME NEW t \in Threads, NEW p \in Reg!Places, VisitMetric(t, p) PROVE SlotInv'
  BY <1>4, <1>1, VisitKeepsSlots
<1>5. ASSUME NEW t \in Threads,
             \/ \E r \in Requests : Register(t, r)
             \/ Return(t) \/ BeginVisit(t) \/ Callback(t) \/ EndVisit(t) \/ Returned(t)
      PROVE  SlotInv'
  BY <1>1, <1>5 DEF Register, Return, BeginVisit, Callback, EndVisit, Returned, slotVars
<1>6. CASE UNCHANGED vars
  BY <1>1, <1>6 DEF vars, slotVars
<1> QED
  BY <1>2, <1>3, <1>4, <1>5, <1>6 DEF Next

(* Slots only grow, by records that are new. *)
SlotsGrown ==
  /\ DOMAIN records \subseteq DOMAIN records'
  /\ \A p \in Reg!Places : /\ slots[p] \subseteq slots'[p]
                           /\ slots'[p] \cap DOMAIN records \subseteq slots[p]
  /\ \A t \in Threads : aware[t] \subseteq aware'[t]

LEMMA SlotsGrow ==
  ASSUME LogInv, SlotInv, [Next]_vars
  PROVE  SlotsGrown
<1>0. aware \in [Threads -> SUBSET DOMAIN records]
  BY DEF SlotInv
<1>1. ASSUME records' = records, slots' = slots, aware' = aware PROVE SlotsGrown
  BY <1>1 DEF SlotsGrown
<1>2. ASSUME NEW t \in Threads, NEW u \in Threads, Synchronize(u, t) PROVE SlotsGrown
  BY <1>0, <1>2 DEF Synchronize, SlotsGrown
<1>3. ASSUME NEW t \in Threads, NEW h \in handles, Record(t, h) PROVE SlotsGrown
  <2>1. PICK id \in Nat :
          /\ id \notin DOMAIN records /\ DOMAIN records' = DOMAIN records \cup {id}
          /\ h.item \in DOMAIN slots
          /\ slots' = [slots EXCEPT ![h.item] = slots[h.item] \cup {id}]
          /\ aware' = [aware EXCEPT ![t] = aware[t] \cup {id}]
    BY <1>3, RecordFacts
  <2>2. \A p \in Reg!Places : p \in DOMAIN slots
    BY FewPlaces DEF SlotInv
  <2>3. slots \in [Shards \X (1..Cardinality(Keys)) -> SUBSET DOMAIN records]
    BY DEF SlotInv
  <2>4. ASSUME NEW p \in DOMAIN slots
        PROVE  slots[p] \subseteq slots'[p] /\ slots'[p] \cap DOMAIN records \subseteq slots[p]
    BY <2>1, <2>3
  <2>5. \A u \in Threads : aware[u] \subseteq aware'[u]
    BY <1>0, <2>1
  <2> QED
    BY <2>1, <2>2, <2>4, <2>5 DEF SlotsGrown
<1>4. ASSUME NEW t \in Threads, NEW p \in Reg!Places, VisitMetric(t, p) PROVE SlotsGrown
  BY <1>4, <1>1, VisitKeepsSlots
<1>5. ASSUME NEW t \in Threads,
             \/ \E r \in Requests : Register(t, r)
             \/ Return(t) \/ BeginVisit(t) \/ Callback(t) \/ EndVisit(t) \/ Returned(t)
      PROVE  SlotsGrown
  BY <1>1, <1>5 DEF Register, Return, BeginVisit, Callback, EndVisit, Returned, slotVars
<1>6. CASE UNCHANGED vars
  BY <1>1, <1>6 DEF vars, slotVars
<1> QED
  BY <1>2, <1>3, <1>4, <1>5, <1>6 DEF Next

----------------------------------------------------------------------------
(***************************************************************************)
(* The visits and their rows.                                              *)
(***************************************************************************)

(* What a step does to the visit of a thread it does not advance. *)
Untouched(t) ==
  /\ walk'[t] = walk[t] /\ must'[t] = must[t] /\ seen'[t] = seen[t]
  /\ expected'[t] = expected[t] /\ calls'[t] = calls[t] /\ rows'[t] = rows[t]

LEMMA UntouchedKept ==
  ASSUME FacadeInv, Grown, SlotsGrown, NEW t \in Threads, Untouched(t)
  PROVE  VisitOf(t)' /\ RowsOf(t)'
<1>0. VisitTypes /\ VisitOf(t) /\ RowsOf(t)
  BY DEF FacadeInv, VisitInv
<1>1. must[t] \subseteq Reg!Places /\ seen[t] \subseteq Reg!Places /\ expected[t] \subseteq DOMAIN records
  BY <1>0 DEF VisitTypes
<1>2. expected[t] \subseteq aware'[t]
  BY <1>0 DEF VisitOf, SlotsGrown
<1>3. \A id \in expected[t] : \E p \in must[t] : id \in slots'[p]
  BY <1>0, <1>1 DEF VisitOf, SlotsGrown
<1>4. VisitOf(t)'
  BY <1>0, <1>2, <1>3 DEF VisitOf, Untouched
<1>5. \A p \in seen[t] : /\ log'[p[1]][p[2]] = log[p[1]][p[2]]
                         /\ slots[p] \subseteq slots'[p] /\ expected[t] \cap slots'[p] \subseteq slots[p]
  BY <1>1 DEF Grown, SlotsGrown
<1>6. RowsOK(All(t), seen[t], expected[t], slots, log)
  BY <1>0 DEF RowsOf
<1>7. RowsOK(All(t), seen[t], expected[t], slots', log')
  BY ONLY <1>5, <1>6, RowsKept
<1>8. All(t)' = All(t) /\ seen'[t] = seen[t] /\ expected'[t] = expected[t]
  BY DEF All, Untouched
<1>9. RowsOK(All(t)', seen'[t], expected'[t], slots', log')
  BY <1>7, <1>8
<1> QED
  BY <1>4, <1>9 DEF RowsOf

(* The steps that do not advance a visit keep all of them. *)
LEMMA NoVisitStep ==
  ASSUME FacadeInv, Grown, SlotsGrown, UNCHANGED <<walk, must, seen, expected, calls, rows>>
  PROVE  VisitInv'
<1>1. \A t \in Threads : Untouched(t)
  BY DEF Untouched
<1>2. VisitTypes
  BY DEF FacadeInv, VisitInv
<1>3. VisitTypes'
  BY <1>2 DEF VisitTypes, Grown, SlotsGrown
<1>4. \A t \in Threads : VisitOf(t)' /\ RowsOf(t)'
  BY <1>1, UntouchedKept
<1> QED
  BY <1>3, <1>4 DEF VisitInv

(* A step that advances the visit of t keeps the others. *)
LEMMA OneVisitStep ==
  ASSUME FacadeInv, Grown, SlotsGrown, VisitTypes', NEW t \in Threads,
         VisitOf(t)', RowsOf(t)', \A u \in Threads : u # t => Untouched(u)
  PROVE  VisitInv'
<1>1. \A u \in Threads : VisitOf(u)' /\ RowsOf(u)'
  BY UntouchedKept
<1> QED
  BY <1>1 DEF VisitInv

LEMMA BeginVisitStep ==
  ASSUME FacadeInv, Grown, SlotsGrown, NEW t \in Threads, BeginVisit(t)
  PROVE  VisitInv'
<1>0. VisitTypes /\ VisitOf(t) /\ RowsOf(t) /\ LogInv /\ SlotInv
  BY DEF FacadeInv, VisitInv
<1>1. /\ walk[t] = "none" /\ walk' = [walk EXCEPT ![t] = "running"]
      /\ must' = [must EXCEPT ![t] = knows[t]] /\ expected' = [expected EXCEPT ![t] = aware[t]]
      /\ UNCHANGED <<log, knows, seen, records, slots, aware, calls, rows>>
  BY DEF BeginVisit, Reg!BeginVisit, slotVars
<1>2. Reg!Places' = Reg!Places
  BY <1>1, LogSame
<1>3. VisitTypes'
  BY <1>0, <1>1, <1>2 DEF VisitTypes, LogInv, SlotInv
<1>4. walk'[t] = "running" /\ must'[t] = knows[t] /\ expected'[t] = aware[t]
  BY <1>0, <1>1 DEF VisitTypes
<1>5. VisitOf(t)'
  BY <1>0, <1>1, <1>4 DEF VisitOf, SlotInv
<1>6. All(t)' = <<>> /\ seen'[t] = {}
  BY <1>0, <1>1 DEF All, VisitOf
<1>7. RowsOf(t)'
  BY <1>6, NoRows DEF RowsOf
<1>8. \A u \in Threads : u # t => Untouched(u)
  BY <1>0, <1>1 DEF VisitTypes, Untouched
<1> QED
  BY <1>3, <1>5, <1>7, <1>8, OneVisitStep

LEMMA CallbackStep ==
  ASSUME FacadeInv, Grown, SlotsGrown, NEW t \in Threads, Callback(t)
  PROVE  VisitInv'
<1>0. VisitTypes /\ VisitOf(t) /\ RowsOf(t)
  BY DEF FacadeInv, VisitInv
<1>1. /\ calls[t] # <<>> /\ rows' = [rows EXCEPT ![t] = Append(rows[t], Head(calls[t]))]
      /\ calls' = [calls EXCEPT ![t] = Tail(calls[t])]
      /\ UNCHANGED <<log, walk, must, seen, records, slots, aware, expected>>
  BY DEF Callback, RowOf, registryVars, slotVars
<1>2. rows[t] \in Seq(Rows) /\ calls[t] \in Seq(Rows)
  BY <1>0 DEF VisitTypes
<1>3. /\ Append(rows[t], Head(calls[t])) \in Seq(Rows) /\ Tail(calls[t]) \in Seq(Rows)
      /\ Append(rows[t], Head(calls[t])) \o Tail(calls[t]) = rows[t] \o calls[t]
  <2> PICK T : T = Rows
    OBVIOUS
  <2>1. rows[t] \in Seq(T) /\ calls[t] \in Seq(T) /\ calls[t] # <<>>
    BY <1>1, <1>2
  <2> QED
    BY <2>1, MoveHead
<1>4. Reg!Places' = Reg!Places
  BY <1>1, LogSame
<1>5. VisitTypes'
  BY <1>0, <1>1, <1>3, <1>4 DEF VisitTypes
<1>6. rows'[t] = Append(rows[t], Head(calls[t])) /\ calls'[t] = Tail(calls[t])
  BY <1>0, <1>1 DEF VisitTypes
<1>7. walk[t] = "running"
  BY <1>0, <1>1 DEF VisitOf
<1>8. VisitOf(t)'
  BY <1>0, <1>1, <1>7 DEF VisitOf
<1>9. All(t)' = All(t)
  BY <1>3, <1>6 DEF All
<1>10. RowsOf(t)'
  BY <1>0, <1>1, <1>9 DEF RowsOf
<1>11. \A u \in Threads : u # t => Untouched(u)
  BY <1>0, <1>1 DEF VisitTypes, Untouched
<1> QED
  BY <1>5, <1>8, <1>10, <1>11, OneVisitStep

LEMMA EndVisitStep ==
  ASSUME FacadeInv, Grown, SlotsGrown, NEW t \in Threads, EndVisit(t)
  PROVE  VisitInv'
<1>0. VisitTypes /\ VisitOf(t) /\ RowsOf(t)
  BY DEF FacadeInv, VisitInv
<1>1. /\ calls[t] = <<>> /\ walk' = [walk EXCEPT ![t] = "done"] /\ must[t] \subseteq seen[t]
      /\ seen' = [seen EXCEPT ![t] = seen[t]]
      /\ UNCHANGED <<log, must, records, slots, aware, expected, calls, rows>>
  BY DEF EndVisit, Reg!Visit, slotVars, callVars
<1>2. seen' = seen /\ walk'[t] = "done"
  BY <1>0, <1>1 DEF VisitTypes
<1>3. Reg!Places' = Reg!Places
  BY <1>1, LogSame
<1>4. VisitTypes'
  BY <1>0, <1>1, <1>2, <1>3 DEF VisitTypes
<1>5. VisitOf(t)'
  BY <1>0, <1>1, <1>2 DEF VisitOf
<1>6. RowsOf(t)'
  BY <1>0, <1>1, <1>2 DEF RowsOf, All
<1>7. \A u \in Threads : u # t => Untouched(u)
  BY <1>0, <1>1, <1>2 DEF VisitTypes, Untouched
<1> QED
  BY <1>4, <1>5, <1>6, <1>7, OneVisitStep

LEMMA ReturnedStep ==
  ASSUME FacadeInv, Grown, SlotsGrown, NEW t \in Threads, Returned(t)
  PROVE  VisitInv'
<1>0. VisitTypes /\ VisitOf(t) /\ RowsOf(t)
  BY DEF FacadeInv, VisitInv
<1>1. /\ walk[t] = "done" /\ walk' = [walk EXCEPT ![t] = "none"]
      /\ must' = [must EXCEPT ![t] = {}] /\ seen' = [seen EXCEPT ![t] = {}]
      /\ expected' = [expected EXCEPT ![t] = {}] /\ rows' = [rows EXCEPT ![t] = <<>>]
      /\ UNCHANGED <<log, records, slots, aware, calls>>
  BY DEF Returned, Reg!EndVisit, slotVars
<1>2. /\ walk'[t] = "none" /\ must'[t] = {} /\ seen'[t] = {} /\ expected'[t] = {} /\ rows'[t] = <<>>
      /\ calls'[t] = <<>>
  BY <1>0, <1>1 DEF VisitTypes, VisitOf
<1>3. Reg!Places' = Reg!Places
  BY <1>1, LogSame
<1>4. VisitTypes'
  BY <1>0, <1>1, <1>3 DEF VisitTypes
<1>5. VisitOf(t)'
  BY <1>2 DEF VisitOf
<1>6. All(t)' = <<>>
  BY <1>2 DEF All
<1>7. RowsOf(t)'
  BY <1>2, <1>6, NoRows DEF RowsOf
<1>8. \A u \in Threads : u # t => Untouched(u)
  BY <1>0, <1>1 DEF VisitTypes, Untouched
<1> QED
  BY <1>4, <1>5, <1>7, <1>8, OneVisitStep

LEMMA VisitMetricStep ==
  ASSUME FacadeInv, Grown, SlotsGrown, NEW t \in Threads, NEW p \in Reg!Places, VisitMetric(t, p)
  PROVE  VisitInv'
<1>0. VisitTypes /\ VisitOf(t) /\ RowsOf(t) /\ LogInv /\ SlotInv
  BY DEF FacadeInv, VisitInv
<1> PICK r : r = Reg!At(p)
  OBVIOUS
<1>1. /\ calls[t] = <<>> /\ p \notin seen[t] /\ walk[t] = "running"
      /\ seen' = [seen EXCEPT ![t] = seen[t] \cup {p}]
      /\ walk' = [walk EXCEPT ![t] = "running"]
      /\ UNCHANGED <<log, must, expected, rows>>
  BY DEF VisitMetric, Reg!Visit
<1>2. PICK snap \in SUBSET slots[p] :
        /\ aware[t] \cap slots[p] \subseteq snap
        /\ calls' = [calls EXCEPT ![t] =
             [i \in DOMAIN DirectOutputs(r) |->
                [item |-> p, output |-> DirectOutputs(r)[i], snapshot |-> snap]]]
  BY DEF VisitMetric
<1> PICK C : C = [i \in DOMAIN DirectOutputs(r) |->
                    [item |-> p, output |-> DirectOutputs(r)[i], snapshot |-> snap]]
  OBVIOUS
<1>3. slots' = slots /\ records' = records /\ aware' = aware
  BY <1>0, VisitKeepsSlots
<1>4. /\ p \in Shards \X Nat /\ p \in Shards \X (1..Cardinality(Keys))
      /\ r \in Requests /\ log[p[1]][p[2]] = r
  BY <1>0, AtFacts, FewPlaces
<1>5. slots[p] \in SUBSET Nat
  <2>1. slots[p] \in SUBSET DOMAIN records /\ DOMAIN records = 1..Len(records)
    BY <1>0, <1>4 DEF SlotInv
  <2>2. Len(records) \in Nat
    BY <1>0 DEF SlotInv
  <2> QED
    BY <2>1, <2>2
<1>6. \A q \in seen[t] : log[q[1]][q[2]] \in Requests
  BY <1>0, AtFacts DEF VisitTypes
<1>7. rows[t] \in Seq(Rows) /\ All(t) = rows[t]
  BY <1>0, <1>1 DEF VisitTypes, All
<1>8. snap \in SUBSET Nat /\ snap \subseteq slots[p] /\ expected[t] \cap slots[p] \subseteq snap
  BY <1>0, <1>2, <1>5 DEF VisitOf
<1>9. RowsOK(rows[t], seen[t], expected[t], slots, log)
  BY <1>0, <1>7 DEF RowsOf
<1>10. C \in Seq(Rows) /\ RowsOK(rows[t] \o C, seen[t] \cup {p}, expected[t], slots, log)
  <2> PICK A, S, E, sl, lg : A = rows[t] /\ S = seen[t] /\ E = expected[t] /\ sl = slots /\ lg = log
    OBVIOUS
  <2>0. Adds(A, S, E, sl, lg, p, snap, r, C)
    BY <1>1, <1>4, <1>6, <1>7, <1>8, <1>9 DEF Adds
  <2>1. C \in Seq(Rows) /\ RowsOK(A \o C, S \cup {p}, E, sl, lg)
    BY ONLY <2>0, RowsAdded
  <2> QED
    BY <2>1
<1>11. /\ seen'[t] = seen[t] \cup {p} /\ walk'[t] = "running" /\ calls'[t] = C
  BY <1>0, <1>1, <1>2 DEF VisitTypes
<1>12. Reg!Places' = Reg!Places
  BY <1>1, LogSame
<1>13. VisitTypes'
  BY <1>0, <1>1, <1>2, <1>3, <1>10, <1>12 DEF VisitTypes
<1>14. VisitOf(t)'
  BY <1>0, <1>1, <1>3, <1>11 DEF VisitOf
<1>15. RowsOf(t)'
  BY <1>1, <1>3, <1>10, <1>11 DEF RowsOf, All
<1>16. \A u \in Threads : u # t => Untouched(u)
  BY <1>0, <1>1, <1>2 DEF VisitTypes, Untouched
<1> QED
  BY <1>13, <1>14, <1>15, <1>16, OneVisitStep

LEMMA VisitInvStep ==
  ASSUME FacadeInv, [Next]_vars
  PROVE  VisitInv'
<1>0. Grown /\ SlotsGrown
  BY Grows, SlotsGrow DEF FacadeInv
<1>1. ASSUME NEW t \in Threads, NEW r \in Requests, Register(t, r) PROVE VisitInv'
  <2>1. CASE Reg!Insert(t, r)
    <3>1. UNCHANGED <<walk, must, seen, expected, calls, rows>>
      BY <1>1, <2>1 DEF Register, Reg!Insert, Reg!visitVars, callVars
    <3> QED
      BY <3>1, <1>0, NoVisitStep
  <2>2. CASE \E p \in Reg!Places : Reg!Learn(t, knows[t] \cup {p})
    <3>1. UNCHANGED <<walk, must, seen, expected, calls, rows>>
      BY <1>1, <2>2 DEF Register, Reg!Learn, Reg!visitVars, callVars
    <3> QED
      BY <3>1, <1>0, NoVisitStep
  <2> QED
    BY <1>1, <2>1, <2>2 DEF Register
<1>2. ASSUME NEW t \in Threads, Return(t) PROVE VisitInv'
  <2>1. UNCHANGED <<walk, must, seen, expected, calls, rows>>
    BY <1>2 DEF Return, Reg!Return, Reg!visitVars, callVars
  <2> QED
    BY <2>1, <1>0, NoVisitStep
<1>3. ASSUME NEW t \in Threads, NEW u \in Threads, Synchronize(u, t) PROVE VisitInv'
  <2>1. UNCHANGED <<walk, must, seen, expected, calls, rows>>
    BY <1>3 DEF Synchronize, Reg!Learn, Reg!visitVars, callVars
  <2> QED
    BY <2>1, <1>0, NoVisitStep
<1>4. ASSUME NEW t \in Threads, NEW h \in handles, Record(t, h) PROVE VisitInv'
  <2>1. UNCHANGED <<walk, must, seen, expected, calls, rows>>
    BY <1>4 DEF Record, registryVars, callVars
  <2> QED
    BY <2>1, <1>0, NoVisitStep
<1>5. CASE UNCHANGED vars
  <2>1. UNCHANGED <<walk, must, seen, expected, calls, rows>>
    BY <1>5 DEF vars, registryVars, callVars
  <2> QED
    BY <2>1, <1>0, NoVisitStep
<1> QED
  BY <1>0, <1>1, <1>2, <1>3, <1>4, <1>5, BeginVisitStep, VisitMetricStep, CallbackStep,
     EndVisitStep, ReturnedStep DEF Next

----------------------------------------------------------------------------
(***************************************************************************)
(* The theorems.                                                           *)
(***************************************************************************)
LEMMA InitInv == Init => FacadeInv
<1> SUFFICES ASSUME Init PROVE FacadeInv
  OBVIOUS
<1>1. /\ log = [s \in Shards |-> <<>>] /\ handles = {}
      /\ knows = [t \in Threads |-> {}] /\ walk = [t \in Threads |-> "none"]
      /\ must = [t \in Threads |-> {}] /\ seen = [t \in Threads |-> {}]
  BY DEF Init, Reg!Init
<1>2. Reg!Places = {}
  <2>1. \A s \in Shards : DOMAIN log[s] = {}
    BY <1>1
  <2> QED
    BY <2>1, PlacesAre
<1>3. LogInv
  BY <1>1, <1>2 DEF LogInv, Init
<1>4. SlotInv
  BY <1>1, <1>2 DEF SlotInv, Init
<1>5. VisitTypes
  BY <1>1, <1>2 DEF VisitTypes, Init
<1>6. ASSUME NEW t \in Threads PROVE VisitOf(t) /\ RowsOf(t)
  <2>1. VisitOf(t)
    BY <1>1 DEF VisitOf, Init
  <2>2. All(t) = <<>> /\ seen[t] = {}
    BY <1>1 DEF All, Init
  <2> QED
    BY <2>1, <2>2, NoRows DEF RowsOf
<1> QED
  BY <1>3, <1>4, <1>5, <1>6 DEF FacadeInv, VisitInv

(* Every behaviour of the crate as its user sees it keeps the invariant:    *)
(* one slot per key, records in the slot of their key, and rows that show   *)
(* each visited slot once per output with a single snapshot.                *)
THEOREM FacadeInvariance == Spec => []FacadeInv
<1>1. FacadeInv /\ [Next]_vars => FacadeInv'
  BY LogInvStep, SlotInvStep, VisitInvStep DEF FacadeInv
<1> QED
  BY InitInv, <1>1, PTL DEF Spec

(* What the rows are when a visit has been made. *)
LEMMA DoneRows ==
  ASSUME FacadeInv, NEW t \in Threads, walk[t] = "done"
  PROVE  /\ RowsOK(rows[t], seen[t], expected[t], slots, log)
         /\ Len(rows[t]) \in Nat /\ DOMAIN rows[t] = 1..Len(rows[t])
         /\ seen[t] \subseteq Reg!Places
         /\ \A id \in expected[t] : \E p \in seen[t] : id \in slots[p]
<1>1. VisitTypes /\ VisitOf(t) /\ RowsOf(t)
  BY DEF FacadeInv, VisitInv
<1>2. rows[t] \in Seq(Rows) /\ seen[t] \subseteq Reg!Places
  BY <1>1 DEF VisitTypes
<1>3. calls[t] = <<>>
  BY <1>1 DEF VisitOf
<1>4. All(t) = rows[t]
  BY <1>2, <1>3 DEF All
<1>5. \A id \in expected[t] : \E p \in seen[t] : id \in slots[p]
  BY <1>1 DEF VisitOf
<1> QED
  BY <1>1, <1>2, <1>4, <1>5 DEF RowsOf

(* A record that completed before a visit began is in every row of the      *)
(* metric of its key and in no other row of the visit.                      *)
THEOREM Reach == Spec => []RecordsReachVisit
<1>1. ASSUME FacadeInv, NEW t \in Threads, walk[t] = "done", NEW id \in expected[t]
      PROVE  /\ \E i \in DOMAIN rows[t] : id \in rows[t][i].snapshot
             /\ \A i \in DOMAIN rows[t] :
                  id \in rows[t][i].snapshot <=> LookupKey(Reg!At(rows[t][i].item)) = records[id]
  <2> PICK R, n : R = rows[t] /\ n = Len(R)
    OBVIOUS
  <2>1. /\ RowsOK(R, seen[t], expected[t], slots, log) /\ n \in Nat /\ DOMAIN R = 1..n
        /\ seen[t] \subseteq Reg!Places
    BY <1>1, DoneRows
  <2>2. PICK p \in seen[t] : id \in slots[p]
    BY <1>1, DoneRows
  <2>3. ASSUME NEW q \in Reg!Places, id \in slots[q] PROVE records[id] = KeyAt(q)
    BY <1>1, <2>3, FewPlaces DEF FacadeInv, SlotInv
  <2>4. ASSUME NEW i \in 1..n PROVE id \in R[i].snapshot <=> KeyAt(R[i].item) = records[id]
    <3>1. /\ R[i].item \in Reg!Places /\ R[i].snapshot \subseteq slots[R[i].item]
          /\ expected[t] \cap slots[R[i].item] \subseteq R[i].snapshot
      BY <2>1 DEF RowsOK
    <3>2. CASE id \in R[i].snapshot
      BY <3>1, <3>2, <2>3
    <3>3. CASE KeyAt(R[i].item) = records[id]
      <4>1. R[i].item = p
        BY <1>1, <3>1, <3>3, <2>1, <2>2, <2>3 DEF FacadeInv, LogInv
      <4> QED
        BY <3>1, <3>3, <4>1, <2>2
    <3> QED
      BY <3>2, <3>3
  <2>5. \E i \in 1..n : id \in R[i].snapshot
    <3> PICK o, k : o = DirectOutputs(log[p[1]][p[2]]) /\ k = Len(o)
      OBVIOUS
    <3>1. k \in Nat \ {0}
      <4>1. log[p[1]][p[2]] \in Requests
        BY <1>1, <2>1, <2>2, AtFacts DEF FacadeInv
      <4> QED
        BY <4>1, OutputsOf
    <3>2. PICK b \in 0..n : Block(R, p, o, b)
      BY <2>1, <2>2 DEF RowsOK
    <3>3. /\ b + k <= n /\ \A i \in 1..n : R[i].item = p <=> b < i /\ i <= b + k
      BY <3>2 DEF Block
    <3>4. b + 1 \in 1..n /\ b < b + 1 /\ b + 1 <= b + k
      BY <3>1, <3>3, <2>1
    <3>5. R[b + 1].item = p
      BY <3>3, <3>4
    <3>6. KeyAt(R[b + 1].item) = records[id]
      BY <3>5, <2>1, <2>2, <2>3
    <3> QED
      BY <3>4, <3>6, <2>4
  <2> QED
    BY <2>1, <2>4, <2>5 DEF KeyAt
<1>2. FacadeInv => RecordsReachVisit
  BY <1>1 DEF RecordsReachVisit
<1> QED
  BY <1>2, FacadeInvariance, PTL

(* The rows of a metric in one visit carry one snapshot, whatever is        *)
(* recorded between the calls of the callback.                              *)
THEOREM Agree == Spec => []AliasesAgree
<1>1. ASSUME FacadeInv, NEW t \in Threads, NEW i \in DOMAIN rows[t], NEW j \in DOMAIN rows[t],
             rows[t][i].item = rows[t][j].item
      PROVE  rows[t][i].snapshot = rows[t][j].snapshot
  <2> PICK R, C, D : R = rows[t] /\ C = calls[t] /\ D = R \o C
    OBVIOUS
  <2>1. R \in Seq(Rows) /\ C \in Seq(Rows) /\ RowsOf(t)
    BY <1>1 DEF FacadeInv, VisitInv, VisitTypes
  <2>2. /\ Len(D) = Len(R) + Len(C) /\ Len(R) \in Nat /\ Len(C) \in Nat
        /\ \A k \in 1..Len(R) : D[k] = R[k]
    <3> PICK T : T = Rows
      OBVIOUS
    <3>1. R \in Seq(T) /\ C \in Seq(T)
      BY <2>1
    <3>2. /\ Len(R \o C) = Len(R) + Len(C) /\ Len(R) \in Nat /\ Len(C) \in Nat
          /\ \A k \in 1..Len(R) : (R \o C)[k] = R[k]
      BY ONLY <3>1, ConcatFacts
    <3> QED
      BY ONLY <3>2, D = R \o C
  <2>3. DOMAIN R = 1..Len(R)
    BY <2>1
  <2>4. i \in 1..Len(R) /\ j \in 1..Len(R) /\ R[i].item = R[j].item
    BY <1>1, <2>3
  <2>5. i \in 1..Len(D) /\ j \in 1..Len(D) /\ D[i] = R[i] /\ D[j] = R[j]
    BY ONLY <2>2, <2>4
  <2>6. RowsOK(D, seen[t], expected[t], slots, log)
    BY <2>1 DEF RowsOf, All
  <2>7. \A k, l \in 1..Len(D) : D[k].item = D[l].item => D[k].snapshot = D[l].snapshot
    BY ONLY <2>6 DEF RowsOK
  <2>8. R[i].snapshot = R[j].snapshot
    BY ONLY <2>4, <2>5, <2>7
  <2> QED
    BY <2>8
<1>2. FacadeInv => AliasesAgree
  BY <1>1 DEF AliasesAgree
<1> QED
  BY <1>2, FacadeInvariance, PTL

(* A finished visit has one block of rows for each metric, the views of     *)
(* the plan that was registered first in the order of the plan.             *)
THEOREM PlanFollowed == Spec => []RowsFollowPlan
<1>1. ASSUME FacadeInv, NEW t \in Threads, walk[t] = "done", NEW p \in seen[t]
      PROVE  LET r == Reg!At(p)
                 v == IF r.api = "register_profile" THEN Len(r.outputs) ELSE 1
             IN \E b \in 0..Len(rows[t]) :
                  /\ {i \in DOMAIN rows[t] : rows[t][i].item = p} = (b + 1)..(b + v)
                  /\ IF r.api = "register_profile"
                       THEN \A i \in 1..v : rows[t][b + i].output = r.outputs[i]
                       ELSE rows[t][b + 1].output.type = output(r.kind)
  <2> PICK r : r = Reg!At(p)
    OBVIOUS
  <2> PICK v : v = IF r.api = "register_profile" THEN Len(r.outputs) ELSE 1
    OBVIOUS
  <2> PICK R, n : R = rows[t] /\ n = Len(R)
    OBVIOUS
  <2>1. /\ RowsOK(R, seen[t], expected[t], slots, log) /\ n \in Nat /\ DOMAIN R = 1..n
        /\ seen[t] \subseteq Reg!Places
    BY <1>1, DoneRows
  <2>2. r \in Requests /\ r = log[p[1]][p[2]]
    BY <1>1, <2>1, AtFacts DEF FacadeInv
  <2>3. PICK b \in 0..n : Block(R, p, DirectOutputs(r), b)
    BY <2>1, <2>2 DEF RowsOK
  <2>4. /\ v = Len(DirectOutputs(r)) /\ v \in Nat \ {0}
        /\ r.api = "register_profile" => DirectOutputs(r) = r.outputs
        /\ r.api # "register_profile" => DirectOutputs(r)[1].type = output(r.kind)
    <3>1. CASE r.api = "register_profile"
      <4>1. DirectOutputs(r) = r.outputs
        BY <3>1 DEF DirectOutputs
      <4> QED
        BY <1>1, <2>2, <3>1, <4>1, OutputsOf
    <3>2. CASE r.api = "register" \/ r.api = "register_resource"
      <4>1. PICK x : DirectOutputs(r) = <<Output(output(r.kind), x)>>
        BY <3>2 DEF DirectOutputs
      <4>2. Len(DirectOutputs(r)) = 1 /\ DirectOutputs(r)[1].type = output(r.kind)
        BY <4>1 DEF Output
      <4> QED
        BY <1>1, <3>2, <4>2
    <3> QED
      BY <2>2, <3>1, <3>2, FacadeAssumption
  <2>5. /\ b \in Nat /\ b + v <= n
        /\ \A i \in 1..n : R[i].item = p <=> b < i /\ i <= b + v
        /\ \A i \in 1..v : R[b + i].output = DirectOutputs(r)[i]
    BY <2>3, <2>4 DEF Block
  <2>6. \A i : i \in (b + 1)..(b + v) <=> i \in 1..n /\ b < i /\ i <= b + v
    BY <2>1, <2>4, <2>5
  <2>7. {i \in 1..n : R[i].item = p} = (b + 1)..(b + v)
    BY <2>5, <2>6
  <2>8. 1 \in 1..v
    BY <2>4
  <2>9. IF r.api = "register_profile"
          THEN \A i \in 1..v : R[b + i].output = r.outputs[i]
          ELSE R[b + 1].output.type = output(r.kind)
    BY <2>4, <2>5, <2>8
  <2>10. \E c \in 0..Len(rows[t]) :
           /\ {i \in DOMAIN rows[t] : rows[t][i].item = p} = (c + 1)..(c + v)
           /\ IF r.api = "register_profile"
                THEN \A i \in 1..v : rows[t][c + i].output = r.outputs[i]
                ELSE rows[t][c + 1].output.type = output(r.kind)
    BY <2>1, <2>3, <2>7, <2>9
  <2> QED
    BY ONLY <2>10, r = Reg!At(p), v = IF r.api = "register_profile" THEN Len(r.outputs) ELSE 1
<1>2. FacadeInv => RowsFollowPlan
  BY <1>1 DEF RowsFollowPlan
<1> QED
  BY <1>2, FacadeInvariance, PTL

============================================================================
