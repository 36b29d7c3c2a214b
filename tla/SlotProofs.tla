----------------------------- MODULE SlotProofs -----------------------------
(***************************************************************************)
(* Proofs about Slot, for any number of recorders and readers, any policy, *)
(* any durations and any width of the counters.                            *)
(*                                                                         *)
(* The argument: the calls added into a counter only grow along its        *)
(* modification order, a call has been added into every counter it belongs *)
(* to before its own, and a thread that knows a call to be complete has a  *)
(* view of each counter that holds it.  `count` is the last counter of     *)
(* every call and the first that a snapshot loads.                         *)
(***************************************************************************)
EXTENDS Slot, SumProofs, SequenceTheorems

(* The counters that come before f in the order a call updates them. *)
Before(f) ==
  CASE f = "failure_count"      -> {}
    [] f = "failure_elapsed_us" -> {"failure_count"}
    [] f = "elapsed_us"         -> {"failure_count", "failure_elapsed_us"}
    [] f = "slow_count"         -> {"failure_count", "failure_elapsed_us", "elapsed_us"}
    [] f = "slow_elapsed_us"    -> {"failure_count", "failure_elapsed_us", "elapsed_us",
                                    "slow_count"}
    [] f = "count"              -> Fields \ {"count"}
    [] OTHER                    -> Fields

(* The counters that come before f in the order a snapshot loads them. *)
LoadedBefore(f) ==
  CASE f = "count"              -> {}
    [] f = "elapsed_us"         -> {"count"}
    [] f = "slow_count"         -> {"count", "elapsed_us"}
    [] f = "slow_elapsed_us"    -> {"count", "elapsed_us", "slow_count"}
    [] f = "failure_count"      -> {"count", "elapsed_us", "slow_count", "slow_elapsed_us"}
    [] f = "failure_elapsed_us" -> Fields \ {"failure_elapsed_us"}
    [] OTHER                    -> Fields

Made == 1..Len(calls)

(* Only record counts an operation as failed. *)
CallsInv == \A i \in Made : calls[i].timed \/ calls[i].success

(* The calls added into a counter only grow. *)
OrderInv ==
  \A f \in Fields : \A j, k \in 1..Len(slot[f]) :
    j <= k => slot[f][j].adds \subseteq slot[f][k].adds

(* A call is only added into the counters it belongs to. *)
AddsInv ==
  \A f \in Fields : \A k \in 1..Len(slot[f]) : \A i \in slot[f][k].adds :
    i \in Made /\ Touches(calls[i], f)

(* A call that is counted is in all its counters. *)
CountLastInv ==
  \A i \in Newest("count").adds, f \in Fields :
    Touches(calls[i], f) => i \in Newest(f).adds

(* The counters that count operations have not wrapped. *)
CountsInv ==
  \A f \in {"count", "slow_count", "failure_count"} : \A k \in 1..Len(slot[f]) :
    slot[f][k].value = Cardinality(slot[f][k].adds)

(* Two threads are never making the same call. *)
DistinctInv ==
  \A t, u \in Threads :
    pc[t] = "record" /\ pc[u] = "record" /\ call[t] = call[u] => t = u

(* A thread inside a call has updated the counters before the one its next  *)
(* step updates, and none after it.                                         *)
PathInv(t) ==
  pc[t] = "record" =>
    /\ call[t] \in Made /\ field[t] \in Fields
    /\ Touches(calls[call[t]], field[t])
    /\ \A f \in Before(field[t]) :
         Touches(calls[call[t]], f) => call[t] \in slot[f][view[t][f]].adds
    /\ \A f \in Fields \ Before(field[t]) : call[t] \notin Newest(f).adds

(* A thread's views hold every call that is complete for it. *)
DoneInv(t) ==
  /\ done[t] \subseteq Made
  /\ \A i \in done[t], f \in Fields :
       Touches(calls[i], f) => i \in slot[f][view[t][f]].adds

(* What a snapshot has loaded so far. *)
SnapInv(t) ==
  /\ pc[t] = "snapshot" => field[t] \in Fields
  /\ pc[t] = "loaded" => field[t] = "return"
  /\ pc[t] \in {"snapshot", "loaded"} =>
       /\ expected[t] \subseteq done[t]
       /\ \A f \in LoadedBefore(field[t]) :
            /\ loaded[t][f] \in 1..Len(slot[f])
            /\ \A i \in expected[t] : Touches(calls[i], f) => i \in AddsLoaded(t, f)
            /\ processor = "in_order" =>
                 \A i \in AddsLoaded(t, "count") :
                   Touches(calls[i], f) => i \in AddsLoaded(t, f)

SlotInv ==
  /\ TypeOK /\ CallsInv /\ OrderInv /\ AddsInv /\ CountLastInv /\ CountsInv /\ DistinctInv
  /\ \A t \in Threads : PathInv(t) /\ DoneInv(t) /\ SnapInv(t)
  /\ SuccessNotOverstated

----------------------------------------------------------------------------
(***************************************************************************)
(* The calls and the order of their updates and loads.                     *)
(***************************************************************************)

(* The calls of record and increment; only record fails. *)
LEMMA CallFacts ==
  /\ IncrementCall \in Call /\ IncrementCall.success
  /\ \A d \in Durations, s \in BOOLEAN : RecordCall(d, s) \in Call /\ RecordCall(d, s).timed
  <1>1. Modulus \in Nat \ {0} /\ 0 \in 0..(Modulus - 1)
    BY SlotAssumption
  <1>2. IncrementCall \in Call /\ IncrementCall.success
    BY <1>1 DEF IncrementCall, Call
  <1>3. ASSUME NEW d \in Durations, NEW s \in BOOLEAN
        PROVE  RecordCall(d, s) \in Call /\ RecordCall(d, s).timed
    <2>1. d \in Nat
      BY SlotAssumption
    <2>2. d \div 1000 \in Nat
      BY <2>1
    <2>3. ElapsedMicros(d) \in 0..(Modulus - 1)
      BY <1>1, <2>2 DEF ElapsedMicros
    <2> QED BY <2>3 DEF RecordCall, Call
  <1> QED BY <1>2, <1>3

(* A call begins with the first counter it belongs to. *)
LEMMA FirstFacts ==
  ASSUME NEW c \in Call, c.timed \/ c.success
  PROVE  /\ FirstField(c) \in Fields /\ Touches(c, FirstField(c))
         /\ \A f \in Before(FirstField(c)) : ~Touches(c, f)
         /\ Before(FirstField(c)) \subseteq Fields
  <1> USE DEF Fields, FirstField, Touches, Before, Call
  <1>1. CASE ~c.timed
    BY <1>1
  <1>2. CASE c.timed /\ ~c.success
    BY <1>2
  <1>3. CASE c.timed /\ c.success
    BY <1>3
  <1> QED BY <1>1, <1>2, <1>3

(* The next update is of the next counter the call belongs to; it returns   *)
(* after the last one, which is `count`.                                    *)
LEMMA NextFacts ==
  ASSUME NEW c \in Call, NEW f \in Fields, Touches(c, f)
  PROVE  /\ NextField(c, f) # "return" =>
              NextField(c, f) \in Fields /\ Touches(c, NextField(c, f))
         /\ \A g \in Before(NextField(c, f)) : Touches(c, g) => g \in Before(f) \cup {f}
         /\ Before(f) \subseteq Before(NextField(c, f)) /\ f \in Before(NextField(c, f))
         /\ f \notin Before(f)
         /\ f = "count" => \A g \in Fields : Touches(c, g) => g \in Before(f) \cup {f}
         /\ (NextField(c, f) = "return") <=> (f = "count")
  <1> USE DEF Fields, NextField, IsSlow, Touches, Before
  <1>1. CASE f = "failure_count"
    BY <1>1
  <1>2. CASE f = "failure_elapsed_us"
    BY <1>2
  <1>3. CASE f = "elapsed_us" /\ c.elapsed_us >= slow_threshold_us(Policy)
    BY <1>3
  <1>4. CASE f = "elapsed_us" /\ ~(c.elapsed_us >= slow_threshold_us(Policy))
    BY <1>4
  <1>5. CASE f = "slow_count"
    BY <1>5
  <1>6. CASE f = "slow_elapsed_us"
    BY <1>6
  <1>7. CASE f = "count"
    <2>1. NextField(c, f) = "return" /\ Before(f) = Fields \ {"count"}
      BY <1>7
    <2>2. Before("return") = Fields
      OBVIOUS
    <2> HIDE DEF NextField, Before, Touches, Fields
    <2> QED BY <1>7, <2>1, <2>2
  <1> QED BY <1>1, <1>2, <1>3, <1>4, <1>5, <1>6, <1>7

(* The counters before one, whichever it is. *)
LEMMA BeforeFacts ==
  ASSUME NEW f \in Fields \cup {"return"}
  PROVE  /\ Before(f) \subseteq Fields /\ LoadedBefore(f) \subseteq Fields
         /\ "return" \notin Fields /\ "count" \in Fields
         /\ \A g \in LoadedBefore(f) : "count" \in LoadedBefore(f)
  BY DEF Before, LoadedBefore, Fields

(* A snapshot loads `count` first and then the other counters one by one. *)
LEMMA LoadFacts ==
  ASSUME NEW f \in Fields
  PROVE  /\ NextLoad(f) \in Fields \cup {"return"}
         /\ LoadedBefore(NextLoad(f)) = LoadedBefore(f) \cup {f}
         /\ f = "count" \/ "count" \in LoadedBefore(f)
         /\ f \notin LoadedBefore(f)
         /\ LoadedBefore("count") = {} /\ LoadedBefore("return") = Fields
  <1> USE DEF Fields, NextLoad, LoadedBefore
  <1>1. CASE f = "count"
    BY <1>1
  <1>2. CASE f = "elapsed_us"
    BY <1>2
  <1>3. CASE f = "slow_count"
    BY <1>3
  <1>4. CASE f = "slow_elapsed_us"
    BY <1>4
  <1>5. CASE f = "failure_count"
    BY <1>5
  <1>6. CASE f = "failure_elapsed_us"
    BY <1>6
  <1> QED BY <1>1, <1>2, <1>3, <1>4, <1>5, <1>6

(* The modification orders hold counters and every view is inside them. *)
LEMMA SlotFacts ==
  ASSUME TypeOK, NEW f \in Fields
  PROVE  /\ slot[f] \in Seq(Counter) /\ Len(slot[f]) \in Nat \ {0}
         /\ Newest(f) \in Counter
         /\ \A k \in 1..Len(slot[f]) : slot[f][k] \in Counter
         /\ \A t \in Threads : view[t][f] \in 1..Len(slot[f]) /\ loaded[t][f] \in Nat
  <1>1. slot[f] \in Seq(Counter) /\ Len(slot[f]) > 0
    BY DEF TypeOK
  <1>2. Len(slot[f]) \in Nat \ {0}
    BY <1>1
  <1>3. \A k \in 1..Len(slot[f]) : slot[f][k] \in Counter
    BY <1>1, ElementOfSeq
  <1>4. Len(slot[f]) \in 1..Len(slot[f])
    BY <1>2
  <1>5. ASSUME NEW t \in Threads PROVE view[t][f] \in 1..Len(slot[f]) /\ loaded[t][f] \in Nat
    <2>1. view[t][f] \in Nat \ {0} /\ view[t][f] <= Len(slot[f]) /\ loaded[t][f] \in Nat
      BY DEF TypeOK
    <2> QED BY <1>2, <2>1
  <1> QED BY <1>1, <1>2, <1>3, <1>4, <1>5 DEF Newest

(* The threads that act are threads. *)
LEMMA ThreadFacts ==
  ASSUME processor \in Processors
  PROVE  Recorders[processor] \subseteq Threads /\ Readers[processor] \subseteq Threads
  BY DEF Threads

----------------------------------------------------------------------------
(***************************************************************************)
(* What stays when calls are made and counters are added to.               *)
(***************************************************************************)

(* Modification orders and calls are only ever extended. *)
Grows ==
  /\ processor' = processor
  /\ \A f \in Fields :
       /\ Len(slot[f]) <= Len(slot'[f])
       /\ \A k \in 1..Len(slot[f]) : slot'[f][k] = slot[f][k]
  /\ Len(calls) <= Len(calls')
  /\ \A i \in Made : calls'[i] = calls[i]

(* What a thread holds by itself. *)
Keeps(u) ==
  /\ pc'[u] = pc[u] /\ field'[u] = field[u] /\ call'[u] = call[u]
  /\ view'[u] = view[u] /\ done'[u] = done[u]
  /\ expected'[u] = expected[u] /\ loaded'[u] = loaded[u]

(* Positions stay inside their orders and keep their calls. *)
LEMMA GrowFacts ==
  ASSUME TypeOK, TypeOK', Grows
  PROVE  /\ Made \subseteq Made'
         /\ \A i \in Made, f \in Fields : Touches(calls'[i], f) = Touches(calls[i], f)
         /\ \A f \in Fields : 1..Len(slot[f]) \subseteq 1..Len(slot'[f])
         /\ \A f \in Fields : \A k \in 1..Len(slot[f]) : slot'[f][k].adds = slot[f][k].adds
  <1>1. Len(calls) \in Nat /\ Len(calls') \in Nat
    BY DEF TypeOK
  <1>2. Made \subseteq Made'
    BY <1>1 DEF Made, Grows
  <1>3. \A f \in Fields : Len(slot[f]) \in Nat /\ Len(slot'[f]) \in Nat
    BY DEF TypeOK
  <1>4. \A f \in Fields : 1..Len(slot[f]) \subseteq 1..Len(slot'[f])
    BY <1>3 DEF Grows
  <1> QED BY <1>2, <1>4 DEF Grows

(* The views and the snapshot of a thread that does not move. *)
LEMMA KeepsDone ==
  ASSUME TypeOK, TypeOK', Grows, AddsInv, NEW u \in Threads, Keeps(u), DoneInv(u), SnapInv(u)
  PROVE  DoneInv(u)' /\ SnapInv(u)'
  <1>1. DoneInv(u)'
    <2>1. done'[u] = done[u] /\ done[u] \subseteq Made /\ view'[u] = view[u]
      BY DEF Keeps, DoneInv
    <2>2. ASSUME NEW i \in done[u], NEW f \in Fields, Touches(calls'[i], f)
          PROVE  i \in slot'[f][view'[u][f]].adds
      <3>1. i \in slot[f][view[u][f]].adds
        BY <2>1, <2>2, GrowFacts DEF DoneInv
      <3>2. view[u][f] \in 1..Len(slot[f])
        BY SlotFacts
      <3> QED BY <2>1, <3>1, <3>2, GrowFacts
    <2> QED BY <2>1, <2>2, GrowFacts DEF DoneInv
  <1>2. SnapInv(u)'
    <2>1. SUFFICES ASSUME pc[u] \in {"snapshot", "loaded"}
                   PROVE  SnapInv(u)'
      BY DEF SnapInv, Keeps
    <2>2. /\ field[u] \in Fields \cup {"return"} /\ expected[u] \subseteq done[u]
          /\ done[u] \subseteq Made
      BY <2>1 DEF SnapInv, DoneInv, TypeOK
    <2>3. LoadedBefore(field[u]) \subseteq Fields
      BY <2>2, BeforeFacts
    <2>4. ASSUME NEW f \in LoadedBefore(field[u])
          PROVE  /\ loaded[u][f] \in 1..Len(slot'[f])
                 /\ \A i \in expected[u] : Touches(calls'[i], f) => i \in slot'[f][loaded[u][f]].adds
                 /\ processor' = "in_order" =>
                      \A i \in slot'["count"][loaded[u]["count"]].adds :
                        Touches(calls'[i], f) => i \in slot'[f][loaded[u][f]].adds
      <3>1. /\ loaded[u][f] \in 1..Len(slot[f])
            /\ \A i \in expected[u] : Touches(calls[i], f) => i \in slot[f][loaded[u][f]].adds
            /\ processor = "in_order" =>
                 \A i \in slot["count"][loaded[u]["count"]].adds :
                   Touches(calls[i], f) => i \in slot[f][loaded[u][f]].adds
        BY <2>1, <2>4 DEF SnapInv, AddsLoaded
      <3>2. slot'[f][loaded[u][f]].adds = slot[f][loaded[u][f]].adds
        BY <2>3, <3>1, GrowFacts
      <3>3. "count" \in Fields /\ loaded[u]["count"] \in 1..Len(slot["count"])
        BY <2>1, <2>2, <2>4, BeforeFacts DEF SnapInv
      <3>4. /\ slot'["count"][loaded[u]["count"]].adds = slot["count"][loaded[u]["count"]].adds
            /\ \A i \in slot["count"][loaded[u]["count"]].adds : i \in Made
        BY <3>3, GrowFacts DEF AddsInv
      <3>5. \A i \in Made : Touches(calls'[i], f) = Touches(calls[i], f)
        BY <2>3, GrowFacts
      <3>6. loaded[u][f] \in 1..Len(slot'[f])
        BY <2>3, <3>1, GrowFacts
      <3>7. processor' = processor
        BY DEF Grows
      <3> QED BY <2>2, <3>1, <3>2, <3>4, <3>5, <3>6, <3>7
    <2>5. /\ pc'[u] = pc[u] /\ field'[u] = field[u] /\ loaded'[u] = loaded[u]
          /\ expected'[u] = expected[u] /\ done'[u] = done[u]
      BY DEF Keeps
    <2>6. /\ pc[u] = "snapshot" => field[u] \in Fields
          /\ pc[u] = "loaded" => field[u] = "return"
      BY DEF SnapInv
    <2> QED BY <2>2, <2>4, <2>5, <2>6 DEF SnapInv, AddsLoaded
  <1> QED BY <1>1, <1>2

(* The call of a thread that does not move and whose call nobody adds. *)
LEMMA KeepsPath ==
  ASSUME TypeOK, TypeOK', Grows, NEW u \in Threads, Keeps(u), PathInv(u),
         pc[u] = "record" =>
           \A f \in Fields : call[u] \notin Newest(f).adds => call[u] \notin Newest(f)'.adds
  PROVE  PathInv(u)'
  <1>1. SUFFICES ASSUME pc[u] = "record"
                 PROVE  PathInv(u)'
    BY DEF PathInv, Keeps
  <1>2. /\ call[u] \in Made /\ field[u] \in Fields /\ Touches(calls[call[u]], field[u])
        /\ \A f \in Before(field[u]) :
             Touches(calls[call[u]], f) => call[u] \in slot[f][view[u][f]].adds
        /\ \A f \in Fields \ Before(field[u]) : call[u] \notin Newest(f).adds
    BY <1>1 DEF PathInv
  <1>3. call[u] \in Made' /\ Before(field[u]) \subseteq Fields
    BY <1>2, GrowFacts, BeforeFacts
  <1>4. Touches(calls'[call[u]], field[u])
    BY <1>2, GrowFacts
  <1>5. ASSUME NEW f \in Before(field[u]), Touches(calls'[call[u]], f)
        PROVE  call[u] \in slot'[f][view[u][f]].adds
    <2>1. f \in Fields /\ call[u] \in slot[f][view[u][f]].adds
      BY <1>2, <1>3, <1>5, GrowFacts
    <2>2. view[u][f] \in 1..Len(slot[f])
      BY <2>1, SlotFacts
    <2> QED BY <2>1, <2>2, GrowFacts
  <1>6. \A f \in Fields \ Before(field[u]) : call[u] \notin Newest(f)'.adds
    BY <1>1, <1>2
  <1>7. pc'[u] = pc[u] /\ field'[u] = field[u] /\ call'[u] = call[u] /\ view'[u] = view[u]
    BY DEF Keeps
  <1> QED BY <1>2, <1>3, <1>4, <1>5, <1>6, <1>7 DEF PathInv

(* The invariants of the modification orders, when they do not change. *)
LEMMA SlotFrame ==
  ASSUME TypeOK, TypeOK', Grows, UNCHANGED slot,
         OrderInv, AddsInv, CountLastInv, CountsInv
  PROVE  OrderInv' /\ AddsInv' /\ CountLastInv' /\ CountsInv'
  <1>1. OrderInv' /\ CountsInv'
    BY DEF OrderInv, CountsInv
  <1>2. AddsInv'
    <2>1. \A f \in Fields : \A k \in 1..Len(slot[f]) : \A i \in slot[f][k].adds :
            i \in Made' /\ Touches(calls'[i], f)
      BY GrowFacts DEF AddsInv
    <2> QED BY <2>1 DEF AddsInv
  <1>3. CountLastInv'
    <2>1. "count" \in Fields
      BY DEF Fields
    <2>2. Len(slot["count"]) \in 1..Len(slot["count"])
      BY <2>1, SlotFacts
    <2>3. \A i \in Newest("count").adds : i \in Made
      BY <2>1, <2>2 DEF AddsInv, Newest
    <2>4. \A i \in Newest("count").adds, f \in Fields :
            Touches(calls'[i], f) => i \in Newest(f).adds
      BY <2>3, GrowFacts DEF CountLastInv
    <2> QED BY <2>4 DEF CountLastInv, Newest
  <1> QED BY <1>1, <1>2, <1>3

(* Calls that succeeded stay. *)
Succeeded == {i \in DOMAIN calls : calls[i].success}

(* They are calls, and finitely many. *)
LEMMA SucceededFacts ==
  ASSUME TypeOK
  PROVE  /\ Succeeded \subseteq Made /\ IsFiniteSet(Succeeded)
         /\ Cardinality(Succeeded) \in Nat /\ DOMAIN calls = Made
  <1>1. calls \in Seq(Call) /\ Len(calls) \in Nat /\ DOMAIN calls = Made
    BY DEF TypeOK, Made
  <1>2. IsFiniteSet(Made)
    BY <1>1, FS_Interval DEF Made
  <1>3. Succeeded \in SUBSET Made
    BY <1>1 DEF Succeeded
  <1>4. IsFiniteSet(Succeeded)
    BY <1>2, <1>3, FS_Subset
  <1> QED BY <1>1, <1>3, <1>4, FS_CardinalityType

(* The same after a step. *)
LEMMA SucceededPrimed ==
  ASSUME TypeOK'
  PROVE  IsFiniteSet(Succeeded') /\ Cardinality(Succeeded') \in Nat /\ DOMAIN calls' = Made'
  <1>1. calls' \in Seq(Call) /\ Len(calls') \in Nat /\ DOMAIN calls' = Made'
    BY DEF TypeOK, Made
  <1>2. IsFiniteSet(Made')
    BY <1>1, FS_Interval DEF Made
  <1>3. Succeeded' \in SUBSET Made'
    BY <1>1 DEF Succeeded
  <1>4. IsFiniteSet(Succeeded')
    BY <1>2, <1>3, FS_Subset
  <1> QED BY <1>1, <1>4, FS_CardinalityType

(* A snapshot a thread was given stays below the calls that succeeded. *)
LEMMA SuccessFrame ==
  ASSUME TypeOK, TypeOK', Grows, SuccessNotOverstated,
         NEW t \in Threads, last'[t] = last[t], processor' = "in_order"
  PROVE  last'[t].success <= Cardinality(Succeeded')
  <1>1. last[t].success <= Cardinality(Succeeded)
    BY DEF SuccessNotOverstated, Succeeded, Grows
  <1>2. /\ IsFiniteSet(Succeeded') /\ Cardinality(Succeeded') \in Nat
        /\ DOMAIN calls' = Made' /\ DOMAIN calls = Made /\ Cardinality(Succeeded) \in Nat
    BY SucceededFacts, SucceededPrimed
  <1>3. Succeeded \subseteq Succeeded'
    BY <1>2, GrowFacts DEF Grows, Succeeded
  <1>4. Cardinality(Succeeded) <= Cardinality(Succeeded')
    BY <1>2, <1>3, FS_Subset
  <1>5. last[t].success \in Nat
    BY DEF TypeOK, Snapshots
  <1> QED BY <1>1, <1>2, <1>4, <1>5

----------------------------------------------------------------------------
(***************************************************************************)
(* Every action preserves the invariant.                                   *)
(***************************************************************************)

(* Steps of one thread t that add nothing. *)
LEMMA QuietStep ==
  ASSUME SlotInv, TypeOK', Grows, UNCHANGED slot, CallsInv', DistinctInv', NEW t \in Threads,
         \A u \in Threads \ {t} : Keeps(u),
         PathInv(t)', DoneInv(t)', SnapInv(t)', SuccessNotOverstated'
  PROVE  SlotInv'
  <1>1. TypeOK /\ OrderInv /\ AddsInv /\ CountLastInv /\ CountsInv
    BY DEF SlotInv
  <1>2. OrderInv' /\ AddsInv' /\ CountLastInv' /\ CountsInv'
    BY <1>1, SlotFrame
  <1>3. ASSUME NEW u \in Threads PROVE PathInv(u)' /\ DoneInv(u)' /\ SnapInv(u)'
    <2>1. CASE u = t
      BY <2>1
    <2>2. CASE u # t
      <3>1. PathInv(u) /\ DoneInv(u) /\ SnapInv(u) /\ Keeps(u)
        BY <2>2 DEF SlotInv
      <3>2. \A f \in Fields : Newest(f)' = Newest(f)
        BY DEF Newest
      <3>3. PathInv(u)'
        BY <1>1, <3>1, <3>2, KeepsPath
      <3>4. DoneInv(u)' /\ SnapInv(u)'
        BY <1>1, <3>1, KeepsDone
      <3> QED BY <3>3, <3>4
    <2> QED BY <2>1, <2>2
  <1> QED BY <1>2, <1>3 DEF SlotInv

(* Steps that make no call and give no snapshot leave these alone. *)
LEMMA NoCallFrame ==
  ASSUME SlotInv, TypeOK', Grows, UNCHANGED <<calls, last>>
  PROVE  CallsInv' /\ SuccessNotOverstated'
  BY DEF SlotInv, CallsInv, Made, SuccessNotOverstated, Grows

(* record and increment take a number for their call. *)
LEMMA BeginStep ==
  ASSUME SlotInv, NEW t \in Threads, NEW c \in Call, c.timed \/ c.success,
         Begin(t, c), processor' = processor
  PROVE  SlotInv'
  <1> DEFINE n == Len(calls) + 1
  <1>1. /\ TypeOK /\ pc[t] = "idle" /\ Len(calls) < MaxCalls /\ calls' = Append(calls, c)
        /\ call' = [call EXCEPT ![t] = n]
        /\ field' = [field EXCEPT ![t] = FirstField(c)]
        /\ pc' = [pc EXCEPT ![t] = "record"]
        /\ UNCHANGED <<slot, view, done, expected, loaded, last>>
    BY DEF SlotInv, Begin
  <1>2. /\ calls \in Seq(Call) /\ Len(calls) \in Nat /\ n \in CallIds
        /\ pc \in [Threads -> {"idle", "record", "snapshot", "loaded"}]
        /\ field \in [Threads -> Fields \cup {"return"}]
        /\ call \in [Threads -> CallIds \cup {0}]
    BY <1>1, SlotAssumption DEF TypeOK, CallIds
  <1>3. /\ calls' \in Seq(Call) /\ Len(calls') = n /\ calls'[n] = c
        /\ \A i \in Made : calls'[i] = calls[i]
    BY <1>1, <1>2, AppendProperties DEF Made
  <1>4. FirstField(c) \in Fields
    BY FirstFacts
  <1>5. TypeOK'
    <2>1. /\ Len(calls') <= MaxCalls
          /\ call' \in [Threads -> CallIds \cup {0}]
          /\ field' \in [Threads -> Fields \cup {"return"}]
          /\ pc' \in [Threads -> {"idle", "record", "snapshot", "loaded"}]
      BY <1>1, <1>2, <1>3, <1>4, SlotAssumption
    <2> QED BY <1>1, <1>3, <2>1 DEF TypeOK
  <1>6. Grows
    <2>1. \A f \in Fields : Len(slot[f]) \in Nat /\ slot'[f] = slot[f]
      BY <1>1 DEF TypeOK
    <2>2. \A f \in Fields :
            /\ Len(slot[f]) <= Len(slot'[f])
            /\ \A k \in 1..Len(slot[f]) : slot'[f][k] = slot[f][k]
      BY <2>1
    <2>3. Len(calls) <= Len(calls')
      BY <1>2, <1>3
    <2> QED BY <1>3, <2>2, <2>3 DEF Grows
  <1>7. \A u \in Threads \ {t} : Keeps(u)
    BY <1>1, <1>2 DEF Keeps
  <1>8. n \notin Made /\ n \in Made' /\ \A i \in Made' : i \in Made \/ i = n
    BY <1>2, <1>3 DEF Made
  <1>9. pc'[t] = "record" /\ call'[t] = n /\ field'[t] = FirstField(c)
    BY <1>1, <1>2
  <1> HIDE DEF n
  <1>10. CallsInv'
    BY <1>3, <1>8 DEF SlotInv, CallsInv
  <1>11. \A u \in Threads : PathInv(u) /\ AddsInv
    BY DEF SlotInv
  <1>12. DistinctInv'
    <2>1. ASSUME NEW u \in Threads \ {t}, pc'[u] = "record"
          PROVE  call'[u] = call[u] /\ pc[u] = "record" /\ call[u] # n
      <3>1. call'[u] = call[u] /\ pc[u] = "record"
        BY <1>7, <2>1 DEF Keeps
      <3> QED BY <1>8, <1>11, <3>1 DEF PathInv
    <2> QED BY <1>9, <2>1 DEF SlotInv, DistinctInv
  <1>13. PathInv(t)'
    <2>1. \A f \in Fields : n \notin Newest(f).adds
      <3> TAKE f \in Fields
      <3>1. Len(slot[f]) \in 1..Len(slot[f])
        BY <1>1, SlotFacts
      <3> QED BY <1>8, <1>11, <3>1 DEF AddsInv, Newest
    <2>2. \A f \in Fields : Newest(f)' = Newest(f)
      BY <1>1 DEF Newest
    <2>3. \A f \in Before(FirstField(c)) : ~Touches(c, f)
      BY FirstFacts
    <2>4. Touches(c, FirstField(c))
      BY FirstFacts
    <2> QED BY <1>3, <1>4, <1>8, <1>9, <2>1, <2>2, <2>3, <2>4 DEF PathInv
  <1>14. DoneInv(t)'
    <2>1. done[t] \subseteq Made /\ done'[t] = done[t] /\ view'[t] = view[t]
      BY <1>1 DEF SlotInv, DoneInv
    <2>2. \A i \in done[t], f \in Fields : Touches(calls[i], f) => i \in slot[f][view[t][f]].adds
      BY DEF SlotInv, DoneInv
    <2> QED BY <1>1, <1>3, <1>8, <2>1, <2>2, <1>5, <1>6, GrowFacts DEF DoneInv
  <1>15. SnapInv(t)'
    BY <1>9 DEF SnapInv
  <1>16. SuccessNotOverstated'
    <2>1. \A u \in Threads : processor' = "in_order" =>
            last'[u].success <= Cardinality(Succeeded')
      BY <1>1, <1>5, <1>6, SuccessFrame DEF SlotInv
    <2> QED BY <2>1 DEF SuccessNotOverstated, Succeeded
  <1> QED BY <1>1, <1>5, <1>6, <1>7, <1>10, <1>12, <1>13, <1>14, <1>15, <1>16, QuietStep

(* A snapshot begins. *)
LEMMA BeginSnapshotStep ==
  ASSUME SlotInv, NEW t \in Threads, BeginSnapshot(t), processor' = processor
  PROVE  SlotInv'
  <1>1. /\ TypeOK /\ pc[t] = "idle" /\ expected' = [expected EXCEPT ![t] = done[t]]
        /\ field' = [field EXCEPT ![t] = "count"]
        /\ pc' = [pc EXCEPT ![t] = "snapshot"]
        /\ UNCHANGED <<slot, view, calls, call, done, loaded, last>>
    BY DEF SlotInv, BeginSnapshot
  <1>2. /\ pc \in [Threads -> {"idle", "record", "snapshot", "loaded"}]
        /\ field \in [Threads -> Fields \cup {"return"}]
        /\ expected \in [Threads -> SUBSET CallIds] /\ done \in [Threads -> SUBSET CallIds]
    BY <1>1 DEF TypeOK
  <1>3. TypeOK'
    <2>1. /\ pc' \in [Threads -> {"idle", "record", "snapshot", "loaded"}]
          /\ field' \in [Threads -> Fields \cup {"return"}]
          /\ expected' \in [Threads -> SUBSET CallIds]
      BY <1>1, <1>2 DEF Fields
    <2> QED BY <1>1, <2>1 DEF TypeOK
  <1>4. Grows
    BY <1>1, <1>3 DEF Grows, TypeOK, Made
  <1>5. \A u \in Threads \ {t} : Keeps(u)
    BY <1>1, <1>2 DEF Keeps
  <1>6. CallsInv' /\ SuccessNotOverstated'
    BY <1>1, <1>3, <1>4, NoCallFrame
  <1>7. pc'[t] = "snapshot" /\ field'[t] = "count" /\ expected'[t] = done[t]
    BY <1>1, <1>2
  <1>8. DistinctInv'
    <2>1. ASSUME NEW u \in Threads, pc'[u] = "record" PROVE u # t /\ pc[u] = "record"
      BY <1>5, <1>7, <2>1 DEF Keeps
    <2> QED BY <1>1, <2>1 DEF SlotInv, DistinctInv
  <1>9. PathInv(t)'
    BY <1>7 DEF PathInv
  <1>10. DoneInv(t)'
    BY <1>1 DEF SlotInv, DoneInv, Made
  <1>11. SnapInv(t)'
    <2>1. LoadedBefore("count") = {} /\ "count" \in Fields
      BY LoadFacts DEF Fields
    <2> QED BY <1>1, <1>7, <2>1 DEF SnapInv
  <1> QED BY <1>1, <1>3, <1>4, <1>5, <1>6, <1>8, <1>9, <1>10, <1>11, QuietStep

(* A snapshot loads its next counter. *)
LEMMA LoadStep ==
  ASSUME SlotInv, NEW t \in Threads, Load(t), processor' = processor
  PROVE  SlotInv'
  <1>1. TypeOK /\ OrderInv /\ AddsInv /\ CountLastInv /\ DoneInv(t) /\ SnapInv(t)
    BY DEF SlotInv
  <1>2. pc[t] = "snapshot" /\ field[t] \in Fields
    BY <1>1 DEF Load, SnapInv
  <1>3. PICK f \in Fields : f = field[t]
    BY <1>2
  <1>4. PICK i \in Loadable(t, f) :
          loaded' = [loaded EXCEPT ![t][f] = i] /\ view' = [view EXCEPT ![t][f] = i]
    BY <1>3 DEF Load
  <1>5. /\ field' = [field EXCEPT ![t] = NextLoad(f)]
        /\ NextLoad(f) = "return" => pc' = [pc EXCEPT ![t] = "loaded"]
        /\ NextLoad(f) # "return" => pc' = pc
        /\ UNCHANGED <<slot, calls, call, done, expected, last>>
    BY <1>3 DEF Load
  <1>6. /\ view[t][f] \in 1..Len(slot[f]) /\ i \in 1..Len(slot[f]) /\ view[t][f] <= i
        /\ i \in Nat \ {0} /\ processor = "in_order" => i = Len(slot[f])
    <2>1. Len(slot[f]) \in Nat /\ view[t][f] \in 1..Len(slot[f])
      BY <1>1, SlotFacts
    <2>2. CASE processor = "in_order"
      BY <1>4, <2>1, <2>2 DEF Loadable
    <2>3. CASE processor # "in_order"
      BY <1>4, <2>1, <2>3 DEF Loadable
    <2> QED BY <2>1, <2>2, <2>3
  <1>7. /\ pc \in [Threads -> {"idle", "record", "snapshot", "loaded"}]
        /\ field \in [Threads -> Fields \cup {"return"}]
        /\ view \in [Threads -> [Fields -> Nat \ {0}]]
        /\ loaded \in [Threads -> [Fields -> Nat]]
    BY <1>1 DEF TypeOK
  <1>8. NextLoad(f) \in Fields \cup {"return"}
    BY LoadFacts
  <1>9. /\ pc' \in [Threads -> {"idle", "record", "snapshot", "loaded"}]
        /\ field' \in [Threads -> Fields \cup {"return"}]
        /\ view' \in [Threads -> [Fields -> Nat \ {0}]]
        /\ loaded' \in [Threads -> [Fields -> Nat]]
    <2>1. pc' \in [Threads -> {"idle", "record", "snapshot", "loaded"}]
      BY <1>5, <1>7
    <2>2. field' \in [Threads -> Fields \cup {"return"}]
      BY <1>5, <1>7, <1>8
    <2>3. view' \in [Threads -> [Fields -> Nat \ {0}]]
      BY <1>4, <1>6, <1>7
    <2>4. loaded' \in [Threads -> [Fields -> Nat]]
      BY <1>4, <1>6, <1>7
    <2> QED BY <2>1, <2>2, <2>3, <2>4
  <1>10. /\ view'[t][f] = i /\ loaded'[t][f] = i
         /\ \A g \in Fields \ {f} : view'[t][g] = view[t][g] /\ loaded'[t][g] = loaded[t][g]
         /\ \A u \in Threads \ {t} : view'[u] = view[u] /\ loaded'[u] = loaded[u]
    BY <1>4, <1>7
  <1>11. TypeOK'
    <2>1. ASSUME NEW u \in Threads, NEW g \in Fields
          PROVE  view'[u][g] <= Len(slot[g]) /\ loaded'[u][g] <= view'[u][g]
      <3>1. view[u][g] <= Len(slot[g]) /\ loaded[u][g] <= view[u][g]
        BY <1>1 DEF TypeOK
      <3>2. CASE u = t /\ g = f
        BY <1>6, <1>10, <3>2
      <3>3. CASE ~(u = t /\ g = f)
        BY <1>10, <3>1, <3>3
      <3> QED BY <3>2, <3>3
    <2> QED BY <1>1, <1>5, <1>9, <2>1 DEF TypeOK
  <1>12. Grows
    BY <1>1, <1>5 DEF Grows, TypeOK, Made
  <1>13. \A u \in Threads \ {t} : Keeps(u)
    BY <1>5, <1>7, <1>10 DEF Keeps
  <1>14. CallsInv' /\ SuccessNotOverstated'
    BY <1>5, <1>11, <1>12, NoCallFrame
  <1>15. /\ field'[t] = NextLoad(f)
         /\ pc'[t] = IF NextLoad(f) = "return" THEN "loaded" ELSE "snapshot"
    BY <1>2, <1>5, <1>7
  <1>16. DistinctInv'
    <2>1. ASSUME NEW u \in Threads, pc'[u] = "record" PROVE pc[u] = "record"
      BY <1>13, <1>15, <2>1 DEF Keeps
    <2> QED BY <1>5, <2>1 DEF SlotInv, DistinctInv
  <1>17. PathInv(t)'
    BY <1>15 DEF PathInv
  <1>18. \A j \in slot[f][view[t][f]].adds : j \in slot[f][i].adds
    BY <1>1, <1>6 DEF OrderInv
  <1>19. DoneInv(t)'
    <2>1. ASSUME NEW j \in done[t], NEW g \in Fields, Touches(calls[j], g)
          PROVE  j \in slot[g][view'[t][g]].adds
      <3>1. j \in slot[g][view[t][g]].adds
        BY <1>1, <2>1 DEF DoneInv
      <3>2. CASE g = f
        BY <1>10, <1>18, <3>1, <3>2
      <3>3. CASE g # f
        BY <1>10, <3>1, <3>3
      <3> QED BY <3>2, <3>3
    <2> QED BY <1>1, <1>5, <2>1 DEF DoneInv, Made
  <1>20. SnapInv(t)'
    <2>1. /\ LoadedBefore(NextLoad(f)) = LoadedBefore(f) \cup {f} /\ f \notin LoadedBefore(f)
          /\ f = "count" \/ "count" \in LoadedBefore(f)
          /\ LoadedBefore("count") = {} /\ LoadedBefore(f) \subseteq Fields
      BY LoadFacts, BeforeFacts
    <2>2. /\ expected[t] \subseteq done[t]
          /\ \A g \in LoadedBefore(f) :
               /\ loaded[t][g] \in 1..Len(slot[g])
               /\ \A j \in expected[t] : Touches(calls[j], g) => j \in slot[g][loaded[t][g]].adds
               /\ processor = "in_order" =>
                    \A j \in slot["count"][loaded[t]["count"]].adds :
                      Touches(calls[j], g) => j \in slot[g][loaded[t][g]].adds
      BY <1>1, <1>2, <1>3 DEF SnapInv, AddsLoaded
    <2>3. ASSUME NEW g \in LoadedBefore(f)
          PROVE  /\ loaded'[t][g] \in 1..Len(slot[g])
                 /\ \A j \in expected[t] : Touches(calls[j], g) => j \in slot[g][loaded'[t][g]].adds
                 /\ processor = "in_order" =>
                      \A j \in slot["count"][loaded'[t]["count"]].adds :
                        Touches(calls[j], g) => j \in slot[g][loaded'[t][g]].adds
      <3>1. g # f /\ "count" # f /\ "count" \in Fields /\ g \in Fields
        BY <2>1, <2>3 DEF Fields
      <3>2. loaded'[t][g] = loaded[t][g] /\ loaded'[t]["count"] = loaded[t]["count"]
        BY <1>10, <3>1
      <3> QED BY <2>2, <2>3, <3>2
    <2>4. \A j \in expected[t] : Touches(calls[j], f) => j \in slot[f][loaded'[t][f]].adds
      BY <1>1, <1>10, <1>18, <2>2 DEF DoneInv
    <2>5. ASSUME processor = "in_order", NEW j \in slot["count"][loaded'[t]["count"]].adds,
                 Touches(calls[j], f)
          PROVE  j \in slot[f][loaded'[t][f]].adds
      <3>1. CASE f = "count"
        BY <2>5, <3>1
      <3>2. CASE f # "count"
        <4>1. /\ "count" \in Fields /\ loaded'[t]["count"] = loaded[t]["count"]
              /\ loaded[t]["count"] \in 1..Len(slot["count"])
          BY <1>10, <2>1, <2>2, <3>2
        <4>2. Len(slot["count"]) \in Nat \ {0}
          BY <1>1, <4>1, SlotFacts
        <4>3. /\ Len(slot["count"]) \in 1..Len(slot["count"])
              /\ loaded[t]["count"] <= Len(slot["count"])
          BY <4>1, <4>2
        <4>4. j \in Newest("count").adds
          BY <1>1, <2>5, <4>1, <4>3 DEF OrderInv, Newest
        <4>5. j \in Newest(f).adds
          BY <1>1, <2>5, <4>4 DEF CountLastInv
        <4> QED BY <1>6, <1>10, <2>5, <4>5 DEF Newest
      <3> QED BY <3>1, <3>2
    <2>6. \A g \in LoadedBefore(field'[t]) :
            /\ loaded'[t][g] \in 1..Len(slot[g])
            /\ \A j \in expected[t] : Touches(calls[j], g) => j \in slot[g][loaded'[t][g]].adds
            /\ processor = "in_order" =>
                 \A j \in slot["count"][loaded'[t]["count"]].adds :
                   Touches(calls[j], g) => j \in slot[g][loaded'[t][g]].adds
      BY <1>6, <1>10, <1>15, <2>1, <2>3, <2>4, <2>5
    <2>7. /\ pc'[t] = "snapshot" => field'[t] \in Fields
          /\ pc'[t] = "loaded" => field'[t] = "return"
      BY <1>8, <1>15
    <2> QED BY <1>5, <2>2, <2>6, <2>7 DEF SnapInv, AddsLoaded
  <1> QED BY <1>5, <1>11, <1>12, <1>13, <1>14, <1>16, <1>17, <1>19, <1>20, QuietStep

(* One thread learns what another knows. *)
LEMMA SynchronizeStep ==
  ASSUME SlotInv, NEW a \in Threads, NEW b \in Threads, Synchronize(a, b),
         processor' = processor
  PROVE  SlotInv'
  <1>1. TypeOK /\ OrderInv /\ DoneInv(a) /\ DoneInv(b)
    BY DEF SlotInv
  <1>2. /\ a # b /\ pc[b] = "idle"
        /\ done' = [done EXCEPT ![b] = @ \cup done[a]]
        /\ UNCHANGED <<slot, calls, pc, field, call, expected, loaded, last>>
    BY DEF Synchronize
  <1>3. /\ view \in [Threads -> [Fields -> Nat \ {0}]]
        /\ done \in [Threads -> SUBSET CallIds]
    BY <1>1 DEF TypeOK
  <1>4. /\ view' \in [Threads -> [Fields -> Nat \ {0}]]
        /\ \A f \in Fields :
             view'[b][f] = IF view[a][f] > view[b][f] THEN view[a][f] ELSE view[b][f]
        /\ \A u \in Threads \ {b} : view'[u] = view[u]
    BY <1>3 DEF Synchronize
  <1>5. /\ done' \in [Threads -> SUBSET CallIds] /\ done'[b] = done[b] \cup done[a]
        /\ \A u \in Threads \ {b} : done'[u] = done[u]
    BY <1>2, <1>3
  <1>6. \A f \in Fields :
          /\ view[a][f] \in 1..Len(slot[f]) /\ view[b][f] \in 1..Len(slot[f])
          /\ view'[b][f] \in 1..Len(slot[f])
          /\ view[a][f] <= view'[b][f] /\ view[b][f] <= view'[b][f]
    <2> TAKE f \in Fields
    <2>1. /\ view[a][f] \in 1..Len(slot[f]) /\ view[b][f] \in 1..Len(slot[f])
          /\ Len(slot[f]) \in Nat
      BY <1>1, SlotFacts
    <2> QED BY <1>4, <2>1
  <1>7. TypeOK'
    <2>1. ASSUME NEW u \in Threads, NEW g \in Fields
          PROVE  view'[u][g] <= Len(slot[g]) /\ loaded[u][g] <= view'[u][g]
      <3>1. view[u][g] <= Len(slot[g]) /\ loaded[u][g] <= view[u][g] /\ loaded[u][g] \in Nat
        BY <1>1 DEF TypeOK
      <3>2. CASE u = b
        <4>1. /\ Len(slot[g]) \in Nat /\ view'[b][g] \in 1..Len(slot[g])
              /\ view[b][g] \in 1..Len(slot[g]) /\ view[b][g] <= view'[b][g]
          BY <1>1, <1>6, SlotFacts
        <4> QED BY <3>1, <3>2, <4>1
      <3>3. CASE u # b
        BY <1>4, <3>1, <3>3
      <3> QED BY <3>2, <3>3
    <2> QED BY <1>1, <1>2, <1>4, <1>5, <2>1 DEF TypeOK
  <1>8. Grows
    BY <1>1, <1>2 DEF Grows, TypeOK, Made
  <1>9. \A u \in Threads \ {b} : Keeps(u)
    BY <1>2, <1>4, <1>5 DEF Keeps
  <1>10. CallsInv' /\ SuccessNotOverstated'
    BY <1>2, <1>7, <1>8, NoCallFrame
  <1>11. DistinctInv'
    BY <1>2 DEF SlotInv, DistinctInv
  <1>12. PathInv(b)' /\ SnapInv(b)'
    BY <1>2 DEF PathInv, SnapInv
  <1>13. DoneInv(b)'
    <2>1. ASSUME NEW i \in done'[b], NEW f \in Fields, Touches(calls[i], f)
          PROVE  i \in slot[f][view'[b][f]].adds
      <3>1. PICK u \in {a, b} : i \in done[u]
        BY <1>5, <2>1
      <3>2. i \in slot[f][view[u][f]].adds
        BY <1>1, <2>1, <3>1 DEF DoneInv
      <3>3. /\ view[u][f] \in 1..Len(slot[f]) /\ view'[b][f] \in 1..Len(slot[f])
            /\ view[u][f] <= view'[b][f]
        BY <1>6, <3>1
      <3> QED BY <1>1, <3>2, <3>3 DEF OrderInv
    <2>2. done'[b] \subseteq Made'
      BY <1>1, <1>2, <1>5 DEF DoneInv, Made
    <2> QED BY <1>2, <2>1, <2>2 DEF DoneInv
  <1> QED BY <1>2, <1>7, <1>8, <1>9, <1>10, <1>11, <1>12, <1>13, QuietStep

(* Where loads keep their order, the successes of a snapshot really          *)
(* succeeded: whatever is counted and failed is among the failures loaded.  *)
LEMMA SuccessBound ==
  ASSUME SlotInv, NEW t \in Threads, pc[t] = "loaded", processor = "in_order"
  PROVE  Success(ValueLoaded(t, "count"), ValueLoaded(t, "failure_count"))
           <= Cardinality(Succeeded)
  <1> DEFINE C == AddsLoaded(t, "count")
             F == AddsLoaded(t, "failure_count")
             S == Succeeded
  <1>1. /\ TypeOK /\ CallsInv /\ AddsInv /\ CountsInv /\ SnapInv(t)
    BY DEF SlotInv
  <1>2. "count" \in Fields /\ "failure_count" \in Fields /\ LoadedBefore("return") = Fields
    BY LoadFacts DEF Fields
  <1>3. /\ loaded[t]["count"] \in 1..Len(slot["count"])
        /\ loaded[t]["failure_count"] \in 1..Len(slot["failure_count"])
        /\ \A i \in C : Touches(calls[i], "failure_count") => i \in F
    BY <1>1, <1>2 DEF SnapInv
  <1>4. /\ ValueLoaded(t, "count") = Cardinality(C)
        /\ ValueLoaded(t, "failure_count") = Cardinality(F)
    BY <1>1, <1>3 DEF CountsInv, ValueLoaded, AddsLoaded
  <1>5. /\ \A i \in C : i \in Made
        /\ \A i \in F : i \in Made
    BY <1>1, <1>2, <1>3 DEF AddsInv, AddsLoaded
  <1>6. C \subseteq F \cup S
    <2>1. ASSUME NEW i \in C, i \notin S PROVE i \in F
      <3>1. i \in Made /\ ~calls[i].success
        BY <1>1, <1>5, <2>1, SucceededFacts DEF Succeeded
      <3>2. calls[i].timed
        BY <1>1, <3>1 DEF CallsInv
      <3>3. Touches(calls[i], "failure_count")
        BY <3>1, <3>2 DEF Touches
      <3> QED BY <1>3, <3>3
    <2> QED BY <2>1
  <1>7. IsFiniteSet(Made)
    <2>1. Len(calls) \in Nat
      BY <1>1 DEF TypeOK
    <2> QED BY <2>1, FS_Interval DEF Made
  <1> HIDE DEF C, F, S
  <1>8. F \in SUBSET Made /\ C \in SUBSET Made
    BY <1>5
  <1>9. /\ IsFiniteSet(F) /\ IsFiniteSet(S) /\ IsFiniteSet(C)
        /\ Cardinality(F) \in Nat /\ Cardinality(S) \in Nat /\ Cardinality(C) \in Nat
    <2>1. IsFiniteSet(F) /\ IsFiniteSet(C)
      BY <1>7, <1>8, FS_Subset
    <2>2. IsFiniteSet(S) /\ Cardinality(S) \in Nat
      BY <1>1, SucceededFacts DEF S
    <2> QED BY <2>1, <2>2, FS_CardinalityType
  <1>10. Cardinality(C) <= Cardinality(F) + Cardinality(S)
    <2>1. /\ IsFiniteSet(F \cup S)
          /\ Cardinality(F \cup S) = Cardinality(F) + Cardinality(S) - Cardinality(F \cap S)
      BY <1>9, FS_Union
    <2>2. Cardinality(C) <= Cardinality(F \cup S)
      BY <1>6, <2>1, FS_Subset
    <2>3. Cardinality(F \cap S) \in Nat
      <3>1. F \cap S \in SUBSET F
        OBVIOUS
      <3>2. IsFiniteSet(F \cap S)
        BY <1>9, <3>1, FS_Subset
      <3> QED BY <3>2, FS_CardinalityType
    <2> QED BY <1>9, <2>1, <2>2, <2>3
  <1> QED BY <1>4, <1>9, <1>10 DEF Success, S

(* A snapshot returns. *)
LEMMA EndSnapshotStep ==
  ASSUME SlotInv, NEW t \in Threads, EndSnapshot(t), processor' = processor
  PROVE  SlotInv'
  <1> DEFINE v == [f \in Fields |-> ValueLoaded(t, f)]
             s == from_counters(v)
  <1>1. /\ TypeOK /\ SnapInv(t) /\ pc[t] = "loaded"
        /\ last' = [last EXCEPT ![t] = s]
        /\ expected' = [expected EXCEPT ![t] = {}]
        /\ loaded' = [loaded EXCEPT ![t] = Zero]
        /\ pc' = [pc EXCEPT ![t] = "idle"]
        /\ UNCHANGED <<slot, view, calls, field, call, done>>
    BY DEF SlotInv, EndSnapshot
  <1>2. /\ pc \in [Threads -> {"idle", "record", "snapshot", "loaded"}]
        /\ expected \in [Threads -> SUBSET CallIds]
        /\ loaded \in [Threads -> [Fields -> Nat]] /\ last \in [Threads -> Snapshots]
    BY <1>1 DEF TypeOK
  <1>3. \A f \in Fields : v[f] \in 0..(Modulus - 1)
    <2>1. \A f \in Fields : loaded[t][f] \in 1..Len(slot[f])
      BY <1>1, LoadFacts DEF SnapInv
    <2>2. \A f \in Fields : slot[f][loaded[t][f]] \in Counter
      BY <1>1, <2>1, SlotFacts
    <2> QED BY <2>2 DEF ValueLoaded, Counter
  <1>4. /\ s \in Snapshots
        /\ s.success = Success(ValueLoaded(t, "count"), ValueLoaded(t, "failure_count"))
    <2>1. /\ v["count"] \in 0..(Modulus - 1) /\ v["failure_count"] \in 0..(Modulus - 1)
          /\ v["elapsed_us"] \in 0..(Modulus - 1) /\ v["slow_count"] \in 0..(Modulus - 1)
          /\ v["slow_elapsed_us"] \in 0..(Modulus - 1)
          /\ v["failure_elapsed_us"] \in 0..(Modulus - 1)
      BY <1>3 DEF Fields
    <2>2. /\ v["count"] = ValueLoaded(t, "count")
          /\ v["failure_count"] = ValueLoaded(t, "failure_count")
      BY DEF Fields
    <2> HIDE DEF v
    <2>3. Success(v["count"], v["failure_count"]) \in 0..(Modulus - 1)
      BY <2>1, SlotAssumption DEF Success
    <2> QED BY <2>1, <2>2, <2>3 DEF from_counters, Snapshots
  <1> HIDE DEF s
  <1>5. TypeOK'
    <2>1. /\ pc' \in [Threads -> {"idle", "record", "snapshot", "loaded"}]
          /\ expected' \in [Threads -> SUBSET CallIds]
          /\ last' \in [Threads -> Snapshots]
      BY <1>1, <1>2, <1>4
    <2>2. loaded' \in [Threads -> [Fields -> Nat]]
      BY <1>1, <1>2 DEF Zero
    <2>3. ASSUME NEW u \in Threads, NEW g \in Fields
          PROVE  view[u][g] <= Len(slot[g]) /\ loaded'[u][g] <= view[u][g]
      <3>1. view[u][g] <= Len(slot[g]) /\ loaded[u][g] <= view[u][g] /\ view[u][g] \in Nat \ {0}
        BY <1>1 DEF TypeOK
      <3>2. loaded'[u][g] = IF u = t THEN 0 ELSE loaded[u][g]
        BY <1>1, <1>2 DEF Zero
      <3> QED BY <3>1, <3>2
    <2> QED BY <1>1, <2>1, <2>2, <2>3 DEF TypeOK
  <1>6. Grows
    BY <1>1 DEF Grows, TypeOK, Made
  <1>7. \A u \in Threads \ {t} : Keeps(u) /\ last'[u] = last[u]
    BY <1>1, <1>2 DEF Keeps
  <1>8. pc'[t] = "idle" /\ last'[t] = s
    BY <1>1, <1>2
  <1>9. CallsInv'
    BY <1>1 DEF SlotInv, CallsInv, Made
  <1>10. DistinctInv'
    <2>1. ASSUME NEW u \in Threads, pc'[u] = "record" PROVE pc[u] = "record"
      BY <1>7, <1>8, <2>1 DEF Keeps
    <2> QED BY <1>1, <2>1 DEF SlotInv, DistinctInv
  <1>11. PathInv(t)' /\ SnapInv(t)'
    BY <1>8 DEF PathInv, SnapInv
  <1>12. DoneInv(t)'
    BY <1>1 DEF SlotInv, DoneInv, Made
  <1>13. SuccessNotOverstated'
    <2>1. ASSUME NEW u \in Threads, processor' = "in_order"
          PROVE  last'[u].success <= Cardinality(Succeeded)
      <3>1. CASE u = t
        BY <1>1, <1>4, <1>8, <2>1, <3>1, SuccessBound
      <3>2. CASE u # t
        BY <1>7, <2>1, <3>2 DEF SlotInv, SuccessNotOverstated, Succeeded
      <3> QED BY <3>1, <3>2
    <2> QED BY <1>1, <2>1 DEF SuccessNotOverstated, Succeeded
  <1> QED BY <1>1, <1>5, <1>6, <1>7, <1>9, <1>10, <1>11, <1>12, <1>13, QuietStep

(* A set of calls is smaller than the width of the counters. *)
LEMMA CallCount ==
  ASSUME NEW A \in SUBSET CallIds
  PROVE  IsFiniteSet(A) /\ Cardinality(A) \in Nat /\ Cardinality(A) < Modulus
         /\ Cardinality(A) <= MaxCalls
  <1>1. MaxCalls \in Nat /\ Modulus \in Nat /\ MaxCalls < Modulus
    BY SlotAssumption, CallsAssumption
  <1>2. IsFiniteSet(CallIds) /\ Cardinality(CallIds) = MaxCalls
    BY <1>1, FS_Interval DEF CallIds
  <1>3. IsFiniteSet(A) /\ Cardinality(A) <= Cardinality(CallIds)
    BY <1>2, FS_Subset
  <1>4. Cardinality(A) \in Nat
    BY <1>3, FS_CardinalityType
  <1> QED BY <1>1, <1>2, <1>3, <1>4

(* The counter value that thread t's fetch_add writes. *)
Added(t) ==
  [value |-> (Newest(field[t]).value + Amount(calls[call[t]], field[t])) % Modulus,
   adds |-> Newest(field[t]).adds \cup {call[t]}]

(* A fetch_add extends one modification order by a value that also holds    *)
(* its call, and its thread knows it.                                       *)
LEMMA FetchAddFacts ==
  ASSUME SlotInv, NEW t \in Threads, FetchAdd(t), processor' = processor
  PROVE  /\ TypeOK' /\ Grows /\ \A u \in Threads \ {t} : Keeps(u)
         /\ pc[t] = "record" /\ field[t] \in Fields /\ call[t] \in Made
         /\ calls[call[t]] \in Call
         /\ Len(slot'[field[t]]) = Len(slot[field[t]]) + 1
         /\ slot'[field[t]][Len(slot[field[t]]) + 1] = Added(t)
         /\ \A g \in Fields : g = field[t] => Newest(g)' = Added(t)
         /\ Added(t) \in Counter
         /\ \A g \in Fields \ {field[t]} : slot'[g] = slot[g] /\ Newest(g)' = Newest(g)
         /\ view'[t][field[t]] = Len(slot[field[t]]) + 1
         /\ \A g \in Fields \ {field[t]} : view'[t][g] = view[t][g]
         /\ field'[t] = NextField(calls[call[t]], field[t])
         /\ field'[t] = "return" => pc'[t] = "idle" /\ done'[t] = done[t] \cup {call[t]}
         /\ field'[t] # "return" => pc'[t] = "record" /\ done'[t] = done[t] /\ call'[t] = call[t]
         /\ UNCHANGED <<calls, expected, loaded, last>>
  <1>1. TypeOK /\ PathInv(t) /\ pc[t] = "record"
    BY DEF SlotInv, FetchAdd
  <1>2. /\ call[t] \in Made /\ field[t] \in Fields /\ Touches(calls[call[t]], field[t])
    BY <1>1 DEF PathInv
  <1>3. PICK f \in Fields : f = field[t]
    BY <1>2
  <1>4. PICK i \in Made : i = call[t]
    BY <1>2
  <1>5. PICK c \in Call : c = calls[i]
    BY <1>1, <1>4, ElementOfSeq DEF TypeOK, Made
  <1>6. PICK next : next = NextField(c, f)
    OBVIOUS
  <1>7. PICK new : new = Added(t)
    OBVIOUS
  <1>8. /\ slot' = [slot EXCEPT ![f] = Append(@, new)]
        /\ view' = [view EXCEPT ![t][f] = Len(slot[f]) + 1]
        /\ field' = [field EXCEPT ![t] = next]
        /\ next = "return" =>
             /\ pc' = [pc EXCEPT ![t] = "idle"]
             /\ done' = [done EXCEPT ![t] = @ \cup {i}]
             /\ call' = [call EXCEPT ![t] = 0]
        /\ next # "return" => UNCHANGED <<pc, done, call>>
        /\ UNCHANGED <<calls, expected, loaded, last>>
    BY <1>3, <1>4, <1>5, <1>6, <1>7 DEF FetchAdd, Added, AddTo
  <1>9. new \in Counter
    <2>1. Newest(f) \in Counter
      BY <1>1, SlotFacts
    <2>2. Amount(c, f) \in Nat
      BY DEF Amount, Call
    <2>3. (Newest(f).value + Amount(c, f)) % Modulus \in 0..(Modulus - 1)
      BY <2>1, <2>2, SlotAssumption DEF Counter
    <2>4. i \in CallIds
      BY <1>1, SlotAssumption DEF TypeOK, Made, CallIds
    <2> QED BY <1>3, <1>4, <1>5, <1>7, <2>1, <2>3, <2>4 DEF Added, Counter
  <1>10. /\ slot \in [Fields -> Seq(Counter)] /\ Len(slot[f]) \in Nat \ {0}
         /\ view \in [Threads -> [Fields -> Nat \ {0}]]
         /\ pc \in [Threads -> {"idle", "record", "snapshot", "loaded"}]
         /\ field \in [Threads -> Fields \cup {"return"}]
         /\ call \in [Threads -> CallIds \cup {0}]
         /\ done \in [Threads -> SUBSET CallIds]
    BY <1>1, SlotFacts DEF TypeOK
  <1>11. PICK s : s = Append(slot[f], new)
    OBVIOUS
  <1>12. /\ s \in Seq(Counter) /\ Len(s) = Len(slot[f]) + 1 /\ s[Len(slot[f]) + 1] = new
         /\ \A k \in 1..Len(slot[f]) : s[k] = slot[f][k]
    BY <1>9, <1>10, <1>11, AppendProperties
  <1>13. /\ slot' \in [Fields -> Seq(Counter)] /\ slot'[f] = s
         /\ \A g \in Fields \ {f} : slot'[g] = slot[g]
    BY <1>8, <1>10, <1>11, <1>12
  <1>14. /\ view' \in [Threads -> [Fields -> Nat \ {0}]]
         /\ view'[t][f] = Len(slot[f]) + 1
         /\ \A g \in Fields \ {f} : view'[t][g] = view[t][g]
         /\ \A u \in Threads \ {t} : view'[u] = view[u]
    BY <1>8, <1>10
  <1>15. next \in Fields \cup {"return"} /\ i \in CallIds
    <2>1. i \in CallIds
      BY <1>1, SlotAssumption DEF TypeOK, Made, CallIds
    <2> QED BY <1>2, <1>3, <1>4, <1>5, <1>6, <2>1, NextFacts
  <1>16. /\ pc' \in [Threads -> {"idle", "record", "snapshot", "loaded"}]
         /\ field' \in [Threads -> Fields \cup {"return"}]
         /\ call' \in [Threads -> CallIds \cup {0}]
         /\ done' \in [Threads -> SUBSET CallIds]
    <2>1. field' \in [Threads -> Fields \cup {"return"}]
      BY <1>8, <1>10, <1>15
    <2>2. CASE next = "return"
      <3>1. pc' \in [Threads -> {"idle", "record", "snapshot", "loaded"}]
        BY <1>8, <1>10, <2>2
      <3>2. call' \in [Threads -> CallIds \cup {0}]
        BY <1>8, <1>10, <2>2
      <3>3. done' \in [Threads -> SUBSET CallIds]
        <4>1. done[t] \cup {i} \in SUBSET CallIds
          BY <1>10, <1>15
        <4>2. done' = [done EXCEPT ![t] = done[t] \cup {i}]
          BY <1>8, <2>2
        <4> QED BY <1>10, <4>1, <4>2
      <3> QED BY <2>1, <3>1, <3>2, <3>3
    <2>3. CASE next # "return"
      BY <1>8, <1>10, <2>1, <2>3
    <2> QED BY <2>2, <2>3
  <1>17. \A g \in Fields : /\ Len(slot[g]) \in Nat \ {0} /\ Len(slot[g]) <= Len(slot'[g])
                           /\ Len(slot'[g]) \in Nat \ {0}
                           /\ \A k \in 1..Len(slot[g]) : slot'[g][k] = slot[g][k]
    <2> TAKE g \in Fields
    <2>1. Len(slot[g]) \in Nat \ {0}
      BY <1>1, SlotFacts
    <2>2. CASE g = f
      BY <1>12, <1>13, <2>1, <2>2
    <2>3. CASE g # f
      <3>1. slot'[g] = slot[g]
        BY <1>13, <2>3
      <3> QED BY <2>1, <3>1
    <2> QED BY <2>2, <2>3
  <1>18. TypeOK'
    <2>1. ASSUME NEW u \in Threads, NEW g \in Fields
          PROVE  view'[u][g] <= Len(slot'[g]) /\ loaded[u][g] <= view'[u][g]
      <3>1. /\ view[u][g] <= Len(slot[g]) /\ loaded[u][g] <= view[u][g]
            /\ view[u][g] \in Nat /\ loaded[u][g] \in Nat
        BY <1>1 DEF TypeOK
      <3>2. Len(slot[g]) \in Nat /\ Len(slot'[g]) \in Nat /\ Len(slot[g]) <= Len(slot'[g])
        BY <1>17
      <3>3. CASE u = t /\ g = f
        BY <1>12, <1>13, <1>14, <3>1, <3>2, <3>3
      <3>4. CASE ~(u = t /\ g = f)
        <4>1. view'[u][g] = view[u][g]
          BY <1>14, <3>4
        <4> QED BY <3>1, <3>2, <4>1
      <3> QED BY <3>3, <3>4
    <2>2. \A g \in Fields : Len(slot'[g]) > 0
      BY <1>17
    <2> QED BY <1>1, <1>8, <1>13, <1>14, <1>16, <2>1, <2>2 DEF TypeOK
  <1>19. Grows
    <2>1. Len(calls) <= Len(calls') /\ \A j \in Made : calls'[j] = calls[j]
      BY <1>1, <1>8 DEF TypeOK
    <2> QED BY <1>17, <2>1 DEF Grows
  <1>20. ASSUME NEW u \in Threads \ {t} PROVE Keeps(u)
    <2>1. field'[u] = field[u] /\ view'[u] = view[u]
      BY <1>8, <1>10, <1>14
    <2>2. pc'[u] = pc[u] /\ done'[u] = done[u] /\ call'[u] = call[u]
      BY <1>8, <1>10
    <2> QED BY <1>8, <2>1, <2>2 DEF Keeps
  <1>21. /\ field'[t] = next
         /\ next = "return" => pc'[t] = "idle" /\ done'[t] = done[t] \cup {i}
         /\ next # "return" => pc'[t] = "record" /\ done'[t] = done[t] /\ call'[t] = call[t]
    <2>1. field'[t] = next
      BY <1>8, <1>10
    <2>2. CASE next = "return"
      BY <1>8, <1>10, <2>1, <2>2
    <2>3. CASE next # "return"
      BY <1>1, <1>8, <2>1, <2>3
    <2> QED BY <2>2, <2>3
  <1>22. Newest(f)' = new /\ \A g \in Fields \ {f} : Newest(g)' = Newest(g)
    BY <1>12, <1>13 DEF Newest
  <1>23. calls[call[t]] \in Call /\ next = NextField(calls[call[t]], f)
    BY <1>4, <1>5, <1>6
  <1>24. /\ Len(slot'[f]) = Len(slot[f]) + 1 /\ slot'[f][Len(slot[f]) + 1] = Added(t)
         /\ Newest(f)' = Added(t) /\ Added(t) \in Counter
         /\ \A g \in Fields \ {f} : slot'[g] = slot[g] /\ Newest(g)' = Newest(g)
         /\ view'[t][f] = Len(slot[f]) + 1
         /\ \A g \in Fields \ {f} : view'[t][g] = view[t][g]
    BY <1>7, <1>9, <1>12, <1>13, <1>14, <1>22
  <1>25. UNCHANGED <<calls, expected, loaded, last>>
    BY <1>8
  <1>26. /\ Len(slot'[field[t]]) = Len(slot[field[t]]) + 1
         /\ slot'[field[t]][Len(slot[field[t]]) + 1] = Added(t)
         /\ \A g \in Fields : g = field[t] => Newest(g)' = Added(t)
         /\ \A g \in Fields \ {field[t]} : slot'[g] = slot[g] /\ Newest(g)' = Newest(g)
         /\ view'[t][field[t]] = Len(slot[field[t]]) + 1
         /\ \A g \in Fields \ {field[t]} : view'[t][g] = view[t][g]
         /\ field'[t] = NextField(calls[call[t]], field[t])
    BY <1>3, <1>21, <1>23, <1>24
  <1> QED BY <1>1, <1>2, <1>4, <1>18, <1>19, <1>20, <1>21, <1>23, <1>24, <1>25, <1>26

(* One fetch_add of record or increment, the last one included. *)
LEMMA FetchAddStep ==
  ASSUME SlotInv, NEW t \in Threads, FetchAdd(t), processor' = processor
  PROVE  SlotInv'
  <1>1. /\ TypeOK /\ CallsInv /\ OrderInv /\ AddsInv /\ CountLastInv /\ CountsInv /\ DistinctInv
        /\ PathInv(t) /\ DoneInv(t)
    BY DEF SlotInv
  <1>2. PICK f \in Fields : f = field[t]
    BY FetchAddFacts
  <1>3. PICK i \in Made : i = call[t]
    BY FetchAddFacts
  <1>4. PICK c \in Call : c = calls[i]
    BY <1>3, FetchAddFacts
  <1>5. PICK n : n = Len(slot[f])
    OBVIOUS
  <1>6. PICK new : new = Added(t)
    OBVIOUS
  <1>7. /\ TypeOK' /\ Grows /\ \A u \in Threads \ {t} : Keeps(u)
    BY FetchAddFacts
  <1>8. /\ Len(slot'[f]) = n + 1 /\ slot'[f][n + 1] = new /\ Newest(f)' = new
        /\ \A g \in Fields \ {f} : slot'[g] = slot[g] /\ Newest(g)' = Newest(g)
        /\ view'[t][f] = n + 1 /\ \A g \in Fields \ {f} : view'[t][g] = view[t][g]
    BY <1>2, <1>5, <1>6, FetchAddFacts
  <1>9. /\ pc[t] = "record" /\ field'[t] = NextField(c, f)
        /\ field'[t] = "return" => pc'[t] = "idle" /\ done'[t] = done[t] \cup {i}
        /\ field'[t] # "return" => pc'[t] = "record" /\ done'[t] = done[t] /\ call'[t] = i
        /\ UNCHANGED <<calls, expected, loaded, last>>
    BY <1>2, <1>3, <1>4, FetchAddFacts
  <1>10. /\ n \in Nat \ {0} /\ n \in 1..n /\ slot[f][n] = Newest(f) /\ Newest(f) \in Counter
         /\ \A k \in 1..n : slot'[f][k] = slot[f][k]
         /\ \A k \in 1..(n + 1) : k \in 1..n \/ k = n + 1
    <2>1. n \in Nat \ {0} /\ Newest(f) \in Counter
      BY <1>1, <1>5, SlotFacts
    <2> QED BY <1>5, <1>7, <2>1 DEF Newest, Grows
  <1>11. /\ new.adds = Newest(f).adds \cup {i}
         /\ new.value = (Newest(f).value + Amount(c, f)) % Modulus /\ new \in Counter
    <2>1. new \in Counter
      BY <1>6, FetchAddFacts
    <2> QED BY <1>2, <1>3, <1>4, <1>6, <2>1 DEF Added
  <1>12. /\ Touches(c, f) /\ f \notin Before(f) /\ i \notin Newest(f).adds
         /\ \A g \in Before(f) : Touches(c, g) => i \in slot[g][view[t][g]].adds
         /\ \A g \in Fields \ Before(f) : i \notin Newest(g).adds
    BY <1>1, <1>2, <1>3, <1>4, <1>9, NextFacts DEF PathInv
  <1>13. /\ field'[t] # "return" => field'[t] \in Fields /\ Touches(c, field'[t])
         /\ \A g \in Before(field'[t]) : Touches(c, g) => g \in Before(f) \cup {f}
         /\ Before(f) \subseteq Before(field'[t]) /\ f \in Before(field'[t])
         /\ f = "count" => \A g \in Fields : Touches(c, g) => g \in Before(f) \cup {f}
         /\ field'[t] = "return" => f = "count"
         /\ Before(f) \subseteq Fields
    BY <1>9, <1>12, NextFacts, BeforeFacts
  <1>14. OrderInv'
    <2>1. ASSUME NEW g \in Fields, NEW j \in 1..Len(slot'[g]), NEW k \in 1..Len(slot'[g]), j <= k
          PROVE  slot'[g][j].adds \subseteq slot'[g][k].adds
      <3>1. CASE g # f
        BY <1>1, <1>8, <2>1, <3>1 DEF OrderInv
      <3>2. CASE g = f /\ k \in 1..n
        <4>1. j \in 1..n
          BY <1>8, <1>10, <2>1, <3>2
        <4> QED BY <1>1, <1>5, <1>10, <2>1, <3>2, <4>1 DEF OrderInv
      <3>3. CASE g = f /\ k = n + 1 /\ j \in 1..n
        <4>1. slot[f][j].adds \subseteq slot[f][n].adds
          BY <1>1, <1>5, <1>10, <3>3 DEF OrderInv
        <4> QED BY <1>8, <1>10, <1>11, <3>3, <4>1
      <3>4. CASE g = f /\ k = n + 1 /\ j = n + 1
        BY <3>4
      <3> QED BY <1>8, <1>10, <3>1, <3>2, <3>3, <3>4
    <2> QED BY <2>1 DEF OrderInv
  <1>15. AddsInv'
    <2>1. Made' = Made
      BY <1>9 DEF Made
    <2>2. ASSUME NEW g \in Fields, NEW k \in 1..Len(slot'[g]), NEW j \in slot'[g][k].adds
          PROVE  j \in Made /\ Touches(calls[j], g)
      <3>1. CASE g # f
        BY <1>1, <1>8, <2>2, <3>1 DEF AddsInv
      <3>2. CASE g = f /\ k \in 1..n
        BY <1>1, <1>5, <1>10, <2>2, <3>2 DEF AddsInv
      <3>3. CASE g = f /\ k = n + 1
        <4>1. j \in Newest(f).adds \/ j = i
          BY <1>8, <1>11, <2>2, <3>3
        <4>2. \A m \in slot[f][n].adds : m \in Made /\ Touches(calls[m], f)
          BY <1>1, <1>5, <1>10 DEF AddsInv
        <4> QED BY <1>4, <1>10, <1>12, <3>3, <4>1, <4>2
      <3> QED BY <1>8, <1>10, <2>2, <3>1, <3>2, <3>3
    <2> QED BY <1>9, <2>1, <2>2 DEF AddsInv
  <1>16. \A g \in Fields : Newest(g).adds \subseteq Newest(g)'.adds
    BY <1>8, <1>11
  <1>17. \A g \in Before(f) : Touches(c, g) =>
           /\ i \in slot'[g][view'[t][g]].adds
           /\ i \in Newest(g).adds
    <2> TAKE g \in Before(f)
    <2>1. SUFFICES ASSUME Touches(c, g)
                   PROVE  /\ i \in slot'[g][view'[t][g]].adds
                          /\ i \in Newest(g).adds
      OBVIOUS
    <2>2. g \in Fields \ {f}
      BY <1>12, <1>13
    <2>3. view[t][g] \in 1..Len(slot[g]) /\ Len(slot[g]) \in Nat \ {0}
      BY <1>1, <2>2, SlotFacts
    <2>4. Len(slot[g]) \in 1..Len(slot[g]) /\ view[t][g] <= Len(slot[g])
      BY <2>3
    <2>5. i \in slot[g][view[t][g]].adds
      BY <1>12, <2>1
    <2>6. slot[g][view[t][g]].adds \subseteq slot[g][Len(slot[g])].adds
      BY <1>1, <2>2, <2>3, <2>4 DEF OrderInv
    <2> QED BY <1>8, <2>2, <2>5, <2>6 DEF Newest
  <1>18. CountLastInv'
    <2>1. ASSUME NEW j \in Newest("count")'.adds, NEW g \in Fields, Touches(calls[j], g)
          PROVE  j \in Newest(g)'.adds
      <3>1. "count" \in Fields
        BY DEF Fields
      <3>2. j \in Newest("count").adds \/ (f = "count" /\ j = i)
        BY <1>8, <1>11, <2>1, <3>1
      <3>3. CASE j \in Newest("count").adds
        BY <1>1, <1>16, <2>1, <3>3 DEF CountLastInv
      <3>4. CASE f = "count" /\ j = i
        <4>1. g \in Before(f) \cup {f}
          BY <1>4, <1>13, <2>1, <3>4
        <4>2. CASE g = f
          BY <1>8, <1>11, <3>4, <4>2
        <4>3. CASE g \in Before(f)
          BY <1>4, <1>16, <1>17, <2>1, <3>4, <4>3
        <4> QED BY <4>1, <4>2, <4>3
      <3> QED BY <3>2, <3>3, <3>4
    <2> QED BY <1>9, <2>1 DEF CountLastInv
  <1>19. CountsInv'
    <2>1. ASSUME NEW g \in {"count", "slow_count", "failure_count"}, NEW k \in 1..Len(slot'[g])
          PROVE  slot'[g][k].value = Cardinality(slot'[g][k].adds)
      <3>1. g \in Fields
        BY DEF Fields
      <3>2. CASE g # f
        BY <1>1, <1>8, <2>1, <3>1, <3>2 DEF CountsInv
      <3>3. CASE g = f /\ k \in 1..n
        BY <1>1, <1>5, <1>10, <2>1, <3>3 DEF CountsInv
      <3>4. CASE g = f /\ k = n + 1
        <4>1. Newest(f).value = Cardinality(Newest(f).adds)
          BY <1>1, <1>5, <1>10, <2>1, <3>4 DEF CountsInv
        <4>2. Newest(f).adds \in SUBSET CallIds /\ new.adds \in SUBSET CallIds
          BY <1>10, <1>11 DEF Counter
        <4>3. /\ IsFiniteSet(Newest(f).adds) /\ Cardinality(Newest(f).adds) \in Nat
              /\ Cardinality(new.adds) \in Nat /\ Cardinality(new.adds) < Modulus
          BY <4>2, CallCount
        <4>4. Cardinality(new.adds) = Cardinality(Newest(f).adds) + 1
          BY <1>11, <1>12, <4>3, FS_AddElement
        <4>5. Amount(c, f) = 1
          BY <2>1, <3>4 DEF Amount
        <4>6. new.value = Cardinality(new.adds)
          <5>1. PICK m \in Nat : m = Cardinality(new.adds)
            BY <4>3
          <5>2. new.value = m % Modulus
            BY <1>11, <4>1, <4>4, <4>5, <5>1
          <5>3. m < Modulus /\ Modulus \in Nat \ {0}
            BY <4>3, <5>1, SlotAssumption
          <5>4. m % Modulus = m
            BY <5>3
          <5> QED BY <5>1, <5>2, <5>4
        <4> QED BY <1>8, <3>4, <4>6
      <3> QED BY <1>8, <1>10, <2>1, <3>2, <3>3, <3>4
    <2> QED BY <2>1 DEF CountsInv
  <1>20. DistinctInv'
    <2>1. ASSUME NEW u \in Threads, pc'[u] = "record"
          PROVE  pc[u] = "record" /\ call'[u] = call[u]
      <3>1. CASE u = t
        BY <1>3, <1>9, <2>1, <3>1
      <3>2. CASE u # t
        BY <1>7, <2>1, <3>2 DEF Keeps
      <3> QED BY <3>1, <3>2
    <2> QED BY <1>1, <2>1 DEF DistinctInv
  <1>21. PathInv(t)'
    <2>1. SUFFICES ASSUME field'[t] # "return"
                   PROVE  PathInv(t)'
      BY <1>9 DEF PathInv
    <2>2. /\ call'[t] = i /\ calls' = calls /\ i \in Made' /\ field'[t] \in Fields
          /\ Touches(c, field'[t])
      BY <1>9, <1>13, <2>1 DEF Made
    <2>3. \A g \in Before(field'[t]) : Touches(c, g) => i \in slot'[g][view'[t][g]].adds
      BY <1>8, <1>11, <1>13, <1>17
    <2>4. \A g \in Fields \ Before(field'[t]) : i \notin Newest(g)'.adds
      BY <1>8, <1>12, <1>13
    <2> QED BY <1>4, <2>2, <2>3, <2>4 DEF PathInv
  <1>22. DoneInv(t)'
    <2>1. done'[t] \subseteq done[t] \cup {i} /\ done[t] \subseteq Made /\ Made' = Made
      BY <1>1, <1>9 DEF DoneInv, Made
    <2>2. ASSUME NEW j \in done'[t], NEW g \in Fields, Touches(calls[j], g)
          PROVE  j \in slot'[g][view'[t][g]].adds
      <3>1. CASE j \in done[t]
        <4>1. j \in slot[g][view[t][g]].adds
          BY <1>1, <2>2, <3>1 DEF DoneInv
        <4>2. CASE g # f
          BY <1>8, <4>1, <4>2
        <4>3. CASE g = f
          <5>1. view[t][f] \in 1..n
            BY <1>1, <1>5, SlotFacts
          <5>2. view[t][f] <= n
            BY <1>10, <5>1
          <5>3. slot[f][view[t][f]].adds \subseteq slot[f][n].adds
            BY <1>1, <1>5, <1>10, <5>1, <5>2 DEF OrderInv
          <5> QED BY <1>8, <1>10, <1>11, <4>1, <4>3, <5>3
        <4> QED BY <4>2, <4>3
      <3>2. CASE j \notin done[t]
        <4>1. j = i /\ field'[t] = "return"
          BY <1>9, <2>1, <2>2, <3>2
        <4>2. f = "count" /\ g \in Before(f) \cup {f}
          BY <1>4, <1>13, <2>2, <4>1
        <4>3. CASE g = f
          BY <1>8, <1>11, <4>1, <4>3
        <4>4. CASE g \in Before(f)
          BY <1>4, <1>17, <2>2, <4>1, <4>4
        <4> QED BY <4>2, <4>3, <4>4
      <3> QED BY <3>1, <3>2
    <2> QED BY <1>9, <2>1, <2>2 DEF DoneInv
  <1>23. SnapInv(t)'
    BY <1>9 DEF SnapInv
  <1>24. ASSUME NEW u \in Threads \ {t} PROVE PathInv(u)' /\ DoneInv(u)' /\ SnapInv(u)'
    <2>1. PathInv(u) /\ DoneInv(u) /\ SnapInv(u) /\ Keeps(u)
      BY <1>7 DEF SlotInv
    <2>2. pc[u] = "record" =>
            \A g \in Fields : call[u] \notin Newest(g).adds => call[u] \notin Newest(g)'.adds
      <3>1. pc[u] = "record" => call[u] # i
        BY <1>1, <1>3, <1>9 DEF DistinctInv
      <3> QED BY <1>8, <1>11, <3>1
    <2>3. PathInv(u)'
      BY <1>1, <1>7, <2>1, <2>2, KeepsPath
    <2>4. DoneInv(u)' /\ SnapInv(u)'
      BY <1>1, <1>7, <2>1, KeepsDone
    <2> QED BY <2>3, <2>4
  <1>25. CallsInv' /\ SuccessNotOverstated'
    BY <1>7, <1>9, NoCallFrame
  <1> QED BY <1>7, <1>14, <1>15, <1>18, <1>19, <1>20, <1>21, <1>22, <1>23, <1>24, <1>25
          DEF SlotInv

----------------------------------------------------------------------------
(***************************************************************************)
(* The theorems.                                                           *)
(***************************************************************************)

(* A new slot holds zeros and nobody has called anything. *)
LEMMA SlotInit ==
  ASSUME Init
  PROVE  SlotInv
  <1> DEFINE zero == [value |-> 0, adds |-> {}]
             none == from_counters(Zero)
  <1>1. calls = <<>> /\ Len(calls) = 0 /\ Made = {}
    BY DEF Init, Made
  <1>2. zero \in Counter /\ zero.adds = {} /\ zero.value = 0
    BY SlotAssumption DEF Counter
  <1>3. /\ \A f \in Fields : slot[f] = <<zero>>
        /\ \A t \in Threads : /\ pc[t] = "idle" /\ field[t] = "return" /\ call[t] = 0
                              /\ done[t] = {} /\ last[t] = none
                              /\ \A f \in Fields : view[t][f] = 1 /\ loaded[t][f] = 0
    BY DEF Init, Zero
  <1> HIDE DEF zero
  <1>4. \A f \in Fields : /\ Len(slot[f]) = 1 /\ slot[f][1] = zero /\ Newest(f) = zero
                          /\ \A k \in 1..Len(slot[f]) : k = 1 /\ slot[f][k] = zero
    <2>1. \A k \in 1..1 : k = 1
      OBVIOUS
    <2> TAKE f \in Fields
    <2>2. Len(slot[f]) = 1 /\ slot[f][1] = zero
      BY <1>3
    <2> QED BY <2>1, <2>2 DEF Newest
  <1>5. none \in Snapshots /\ none.success = 0
    <2>1. \A f \in Fields : Zero[f] = 0
      BY DEF Zero
    <2>2. 0 \in 0..(Modulus - 1)
      BY SlotAssumption
    <2>3. Success(0, 0) = 0
      BY DEF Success
    <2> QED BY <2>1, <2>2, <2>3 DEF from_counters, Snapshots, Fields
  <1> HIDE DEF none
  <1>6. TypeOK
    <2>1. slot \in [Fields -> Seq(Counter)]
      <3>1. <<zero>> \in Seq(Counter)
        BY <1>2
      <3> QED BY <3>1 DEF Init, zero
    <2>2. /\ view \in [Threads -> [Fields -> Nat \ {0}]]
          /\ loaded \in [Threads -> [Fields -> Nat]]
      BY DEF Init, Zero
    <2>3. /\ processor \in Processors /\ calls \in Seq(Call) /\ Len(calls) <= MaxCalls
          /\ pc \in [Threads -> {"idle", "record", "snapshot", "loaded"}]
          /\ field \in [Threads -> Fields \cup {"return"}]
          /\ call \in [Threads -> CallIds \cup {0}]
          /\ done \in [Threads -> SUBSET CallIds] /\ expected \in [Threads -> SUBSET CallIds]
      BY <1>1, SlotAssumption DEF Init
    <2>4. last \in [Threads -> Snapshots]
      BY <1>5 DEF Init, none
    <2>5. /\ \A f \in Fields : Len(slot[f]) > 0
          /\ \A t \in Threads, f \in Fields :
               view[t][f] <= Len(slot[f]) /\ loaded[t][f] <= view[t][f]
      BY <1>3, <1>4
    <2> QED BY <2>1, <2>2, <2>3, <2>4, <2>5 DEF TypeOK
  <1>7. CallsInv /\ OrderInv
    BY <1>1, <1>4 DEF CallsInv, OrderInv
  <1>8. AddsInv /\ CountLastInv
    BY <1>2, <1>4 DEF AddsInv, CountLastInv, Fields
  <1>9. CountsInv
    BY <1>2, <1>4, FS_EmptySet DEF CountsInv, Fields
  <1>10. DistinctInv /\ \A t \in Threads : PathInv(t) /\ DoneInv(t) /\ SnapInv(t)
    BY <1>3 DEF DistinctInv, PathInv, DoneInv, SnapInv
  <1>11. SuccessNotOverstated
    <2>1. Cardinality(Succeeded) \in Nat
      BY <1>6, SucceededFacts
    <2> QED BY <1>3, <1>5, <2>1 DEF SuccessNotOverstated, Succeeded
  <1> QED BY <1>6, <1>7, <1>8, <1>9, <1>10, <1>11 DEF SlotInv

(* Every step preserves the invariant. *)
LEMMA SlotNext ==
  ASSUME SlotInv, [Next]_vars
  PROVE  SlotInv'
  <1>1. processor \in Processors
    BY DEF SlotInv, TypeOK
  <1>2. Recorders[processor] \subseteq Threads /\ Readers[processor] \subseteq Threads
    BY <1>1, ThreadFacts
  <1>3. CASE UNCHANGED vars
    BY <1>3 DEF vars, SlotInv, TypeOK, CallsInv, OrderInv, AddsInv, CountLastInv, CountsInv,
                DistinctInv, PathInv, DoneInv, SnapInv, SuccessNotOverstated, Made, Newest,
                AddsLoaded
  <1>4. ASSUME Next PROVE SlotInv'
    <2>1. processor' = processor
      BY <1>4 DEF Next
    <2>2. ASSUME NEW t \in Recorders[processor], NEW d \in Durations, NEW s \in BOOLEAN,
                 Record(t, d, s)
          PROVE  SlotInv'
      <3>1. RecordCall(d, s) \in Call /\ RecordCall(d, s).timed
        BY CallFacts
      <3> QED BY <1>2, <2>1, <2>2, <3>1, BeginStep DEF Record
    <2>3. ASSUME NEW t \in Recorders[processor], Increment(t)
          PROVE  SlotInv'
      BY <1>2, <2>1, <2>3, CallFacts, BeginStep DEF Increment
    <2>4. ASSUME NEW t \in Recorders[processor], FetchAdd(t)
          PROVE  SlotInv'
      BY <1>2, <2>1, <2>4, FetchAddStep
    <2>5. ASSUME NEW t \in Readers[processor], BeginSnapshot(t)
          PROVE  SlotInv'
      BY <1>2, <2>1, <2>5, BeginSnapshotStep
    <2>6. ASSUME NEW t \in Readers[processor], Load(t)
          PROVE  SlotInv'
      BY <1>2, <2>1, <2>6, LoadStep
    <2>7. ASSUME NEW t \in Readers[processor], EndSnapshot(t)
          PROVE  SlotInv'
      BY <1>2, <2>1, <2>7, EndSnapshotStep
    <2>8. ASSUME NEW a \in Threads, NEW b \in Readers[processor], Synchronize(a, b)
          PROVE  SlotInv'
      BY <1>2, <2>1, <2>8, SynchronizeStep
    <2> QED BY <1>4, <2>2, <2>3, <2>4, <2>5, <2>6, <2>7, <2>8 DEF Next
  <1> QED BY <1>3, <1>4

(* The invariant holds in every reachable state. *)
THEOREM SlotInvariance == Spec => []SlotInv
  <1>1. Init => SlotInv
    BY SlotInit
  <1>2. SlotInv /\ [Next]_vars => SlotInv'
    BY SlotNext
  <1> QED BY <1>1, <1>2, PTL DEF Spec

(* Counters hold values of their width, positions stay in the modification  *)
(* orders, and `success` is never negative.                                 *)
THEOREM SlotTypes == Spec => []TypeOK
  <1>1. SlotInv => TypeOK
    BY DEF SlotInv
  <1> QED BY <1>1, SlotInvariance, PTL

(* A snapshot holds every call that completed before it began, in all the   *)
(* call's counters, however stale relaxed loads are (metric.rs:196).        *)
THEOREM RecordsKept == Spec => []NoRecordLost
  <1>1. ASSUME SlotInv PROVE NoRecordLost
    <2>1. ASSUME NEW t \in Threads, pc[t] = "loaded", NEW i \in expected[t], NEW f \in Fields,
                 Touches(calls[i], f)
          PROVE  i \in AddsLoaded(t, f)
      <3>1. SnapInv(t) /\ LoadedBefore("return") = Fields
        BY <1>1, LoadFacts DEF SlotInv
      <3> QED BY <2>1, <3>1 DEF SnapInv
    <2> QED BY <2>1 DEF NoRecordLost
  <1> QED BY <1>1, SlotInvariance, PTL

(* Where loads keep their order, whatever a snapshot counts is in all its   *)
(* other counters: record updates `count` last, snapshot loads it first.    *)
THEOREM CountedComplete == Spec => []CountedCallsComplete
  <1>1. ASSUME SlotInv PROVE CountedCallsComplete
    <2>1. ASSUME NEW t \in Threads, processor = "in_order", pc[t] = "loaded",
                 NEW i \in AddsLoaded(t, "count"), NEW f \in Fields, Touches(calls[i], f)
          PROVE  i \in AddsLoaded(t, f)
      <3>1. SnapInv(t) /\ LoadedBefore("return") = Fields
        BY <1>1, LoadFacts DEF SlotInv
      <3> QED BY <2>1, <3>1 DEF SnapInv
    <2> QED BY <2>1 DEF CountedCallsComplete
  <1> QED BY <1>1, SlotInvariance, PTL

(* The success count of a snapshot never exceeds the operations that really *)
(* succeeded.                                                               *)
THEOREM SuccessHonest == Spec => []SuccessNotOverstated
  <1>1. SlotInv => SuccessNotOverstated
    BY DEF SlotInv
  <1> QED BY <1>1, SlotInvariance, PTL

----------------------------------------------------------------------------
(***************************************************************************)
(* Snapshots never go backwards, as long as no sum of durations wraps.     *)
(***************************************************************************)

(* All calls together last less than 2^64 microseconds. *)
DurationsFit(D) ==
  /\ D \in Nat \ {0} /\ MaxCalls * D < Modulus
  /\ \A d \in Durations : d \div 1000 <= D

(* The field of a MetricSnapshot that shows counter f. *)
Shown(f) ==
  CASE f = "count"         -> "total"
    [] f = "failure_count" -> "failure"
    [] f = "slow_count"    -> "slow"
    [] OTHER               -> f

(* Values are at most D for each call added, and never fall. *)
RisingInv(D) ==
  /\ \A i \in Made : calls[i].elapsed_us <= D
  /\ \A f \in Fields : \A k \in 1..Len(slot[f]) :
       slot[f][k].value <= Cardinality(slot[f][k].adds) * D
  /\ \A f \in Fields : \A j, k \in 1..Len(slot[f]) :
       j <= k => slot[f][j].value <= slot[f][k].value

(* What a thread was last shown is behind its view and what it loads. *)
ShownInv(t) ==
  /\ \A f \in Fields : last[t][Shown(f)] <= slot[f][view[t][f]].value
  /\ pc[t] \in {"snapshot", "loaded"} =>
       \A f \in LoadedBefore(field[t]) : last[t][Shown(f)] <= ValueLoaded(t, f)

MonotoneInv(D) == RisingInv(D) /\ \A t \in Threads : ShownInv(t)

(* The types behind ShownInv. *)
LEMMA ShownFacts ==
  ASSUME TypeOK, NEW t \in Threads, NEW f \in Fields
  PROVE  /\ last[t][Shown(f)] \in Nat
         /\ \A k \in 1..Len(slot[f]) : slot[f][k].value \in Nat
         /\ view[t][f] \in 1..Len(slot[f])
  <1>1. last[t] \in Snapshots
    BY DEF TypeOK
  <1>2. last[t][Shown(f)] \in Nat
    BY <1>1 DEF Snapshots, Shown, Fields
  <1>3. \A k \in 1..Len(slot[f]) : slot[f][k] \in Counter
    BY SlotFacts
  <1> QED BY <1>2, <1>3, SlotFacts DEF Counter

(* A thread that does not move and is given nothing. *)
LEMMA KeepsShown ==
  ASSUME TypeOK, TypeOK', Grows, NEW u \in Threads, Keeps(u), last'[u] = last[u],
         SnapInv(u), ShownInv(u)
  PROVE  ShownInv(u)'
  <1>1. ASSUME NEW f \in Fields
        PROVE  last'[u][Shown(f)] <= slot'[f][view'[u][f]].value
    <2>1. last[u][Shown(f)] <= slot[f][view[u][f]].value /\ view[u][f] \in 1..Len(slot[f])
      BY ShownFacts DEF ShownInv
    <2>2. slot'[f][view'[u][f]] = slot[f][view[u][f]]
      BY <2>1 DEF Grows, Keeps
    <2> QED BY <2>1, <2>2
  <1>2. ASSUME pc[u] \in {"snapshot", "loaded"}, NEW f \in LoadedBefore(field[u])
        PROVE  last'[u][Shown(f)] <= slot'[f][loaded'[u][f]].value
    <2>1. /\ last[u][Shown(f)] <= slot[f][loaded[u][f]].value
          /\ loaded[u][f] \in 1..Len(slot[f])
      BY <1>2 DEF ShownInv, SnapInv, ValueLoaded
    <2>2. f \in Fields
      BY <1>2, BeforeFacts DEF TypeOK
    <2>3. slot'[f][loaded'[u][f]] = slot[f][loaded[u][f]]
      BY <2>1, <2>2 DEF Grows, Keeps
    <2> QED BY <2>1, <2>3
  <1>3. pc'[u] = pc[u] /\ field'[u] = field[u]
    BY DEF Keeps
  <1> QED BY <1>1, <1>2, <1>3 DEF ShownInv, ValueLoaded

(* Nothing has been shown at first. *)
LEMMA MonotoneInit ==
  ASSUME NEW D, DurationsFit(D), Init
  PROVE  MonotoneInv(D)
  <1>1. Made = {}
    <2>1. Len(calls) = 0
      BY DEF Init
    <2> QED BY <2>1 DEF Made
  <1>2. PICK z : z = [value |-> 0, adds |-> {}]
    OBVIOUS
  <1>3. /\ z.value = 0 /\ z.adds = {} /\ \A f \in Fields : slot[f] = <<z>>
    BY <1>2 DEF Init
  <1>4. \A t \in Threads :
          pc[t] = "idle" /\ last[t] = from_counters(Zero) /\ \A f \in Fields : view[t][f] = 1
    BY DEF Init
  <1>5. \A k \in 1..1 : k = 1
    OBVIOUS
  <1>6. ASSUME NEW f \in Fields
        PROVE  slot[f][1] = z /\ \A k \in 1..Len(slot[f]) : k = 1 /\ slot[f][k] = z
    <2>1. Len(slot[f]) = 1 /\ slot[f][1] = z
      BY <1>3
    <2> QED BY <1>5, <2>1
  <1>7. Cardinality({}) * D = 0
    BY FS_EmptySet DEF DurationsFit
  <1>8. RisingInv(D)
    <2>1. \A f \in Fields : \A k \in 1..Len(slot[f]) :
            slot[f][k].value = 0 /\ slot[f][k].adds = {}
      BY <1>3, <1>6
    <2>2. \A f \in Fields : \A k \in 1..Len(slot[f]) :
            slot[f][k].value <= Cardinality(slot[f][k].adds) * D
      <3> TAKE f \in Fields
      <3> TAKE k \in 1..Len(slot[f])
      <3>1. slot[f][k].value = 0 /\ slot[f][k].adds = {}
        BY <2>1
      <3>2. Cardinality(slot[f][k].adds) * D = 0
        BY <1>7, <3>1
      <3> QED BY <3>1, <3>2
    <2>3. \A f \in Fields : \A j, k \in 1..Len(slot[f]) : slot[f][j].value <= slot[f][k].value
      BY <2>1
    <2> QED BY <1>1, <2>2, <2>3 DEF RisingInv
  <1>9. ASSUME NEW t \in Threads PROVE ShownInv(t)
    <2>1. \A f \in Fields : last[t][Shown(f)] = 0
      <3>1. \A f \in Fields : Zero[f] = 0
        BY DEF Zero
      <3> QED BY <1>4, <3>1 DEF from_counters, Shown, Fields
    <2> QED BY <1>3, <1>4, <1>6, <2>1 DEF ShownInv
  <1> QED BY <1>8, <1>9 DEF MonotoneInv

(* record and increment begin. *)
LEMMA MonotoneBegin ==
  ASSUME NEW D, DurationsFit(D), SlotInv, SlotInv', MonotoneInv(D),
         NEW t \in Threads, NEW c \in Call, c.elapsed_us <= D, Begin(t, c),
         processor' = processor
  PROVE  MonotoneInv(D)'
  <1>1. /\ calls' = Append(calls, c) /\ UNCHANGED <<slot, view, loaded, last>>
        /\ field' = [field EXCEPT ![t] = FirstField(c)]
        /\ pc' = [pc EXCEPT ![t] = "record"]
    BY DEF Begin
  <1>2. /\ TypeOK /\ calls \in Seq(Call) /\ Len(calls) \in Nat
        /\ pc \in [Threads -> {"idle", "record", "snapshot", "loaded"}]
        /\ field \in [Threads -> Fields \cup {"return"}]
    BY DEF SlotInv, TypeOK
  <1>3. RisingInv(D)'
    <2>1. \A i \in Made' : calls'[i].elapsed_us <= D
      <3>1. /\ Len(calls') = Len(calls) + 1 /\ calls'[Len(calls) + 1] = c
            /\ \A i \in 1..Len(calls) : calls'[i] = calls[i]
        BY <1>1, <1>2, AppendProperties
      <3>2. \A i \in Made : calls[i].elapsed_us <= D
        BY DEF MonotoneInv, RisingInv
      <3>3. \A i \in Made' : i \in Made \/ i = Len(calls) + 1
        BY <1>2, <3>1 DEF Made
      <3> QED BY <3>1, <3>2, <3>3 DEF Made
    <2> QED BY <1>1, <2>1 DEF MonotoneInv, RisingInv
  <1>4. ASSUME NEW u \in Threads PROVE ShownInv(u)'
    <2>1. pc'[u] \in {"snapshot", "loaded"} => pc[u] = pc'[u] /\ field'[u] = field[u]
      BY <1>1, <1>2
    <2> QED BY <1>1, <2>1 DEF MonotoneInv, ShownInv, ValueLoaded
  <1> QED BY <1>3, <1>4 DEF MonotoneInv

(* A fetch_add does not wrap, so the new value is the highest. *)
LEMMA MonotoneFetchAdd ==
  ASSUME NEW D, DurationsFit(D), SlotInv, SlotInv', MonotoneInv(D),
         NEW t \in Threads, FetchAdd(t), processor' = processor
  PROVE  MonotoneInv(D)'
  <1>1. TypeOK /\ TypeOK' /\ PathInv(t) /\ RisingInv(D) /\ ShownInv(t)
    BY DEF SlotInv, MonotoneInv
  <1>2. PICK f \in Fields : f = field[t]
    BY FetchAddFacts
  <1>3. PICK i \in Made : i = call[t]
    BY FetchAddFacts
  <1>4. PICK n : n = Len(slot[f])
    OBVIOUS
  <1>5. PICK new : new = Added(t)
    OBVIOUS
  <1>6. /\ Grows /\ \A u \in Threads \ {t} : Keeps(u)
        /\ Len(slot'[f]) = n + 1 /\ slot'[f][n + 1] = new /\ new \in Counter
        /\ \A g \in Fields \ {f} : slot'[g] = slot[g]
        /\ view'[t][f] = n + 1 /\ \A g \in Fields \ {f} : view'[t][g] = view[t][g]
        /\ UNCHANGED <<calls, last>>
    BY <1>2, <1>4, <1>5, FetchAddFacts
  <1>7. /\ n \in Nat \ {0} /\ n \in 1..n /\ slot[f][n] = Newest(f) /\ Newest(f) \in Counter
        /\ \A k \in 1..n : slot'[f][k] = slot[f][k]
        /\ \A k \in 1..(n + 1) : k \in 1..n \/ k = n + 1
    <2>1. n \in Nat \ {0} /\ Newest(f) \in Counter
      BY <1>1, <1>4, SlotFacts
    <2> QED BY <1>4, <1>6, <2>1 DEF Newest, Grows
  <1>8. PICK a \in 0..D : a = Amount(calls[i], f)
    <2>1. calls[i].elapsed_us <= D /\ calls[i] \in Call
      BY <1>1, <1>3, FetchAddFacts DEF RisingInv
    <2>2. calls[i].elapsed_us \in 0..D /\ 1 \in 0..D
      BY <2>1 DEF Call, DurationsFit
    <2> QED BY <2>2 DEF Amount
  <1>9. /\ new.value <= Cardinality(new.adds) * D
        /\ Newest(f).value <= new.value /\ new.value \in Nat /\ Newest(f).value \in Nat
    <2> DEFINE A == Newest(f).adds
               v == Newest(f).value
    <2>1. i \notin A
      <3>1. f \notin Before(f) /\ pc[t] = "record"
        BY <1>1, <1>2, <1>3, FetchAddFacts, NextFacts DEF PathInv
      <3> QED BY <1>1, <1>2, <1>3, <3>1 DEF PathInv
    <2>2. new.adds = A \cup {i} /\ new.value = (v + a) % Modulus
      BY <1>2, <1>3, <1>5, <1>8 DEF Added
    <2>3. A \in SUBSET CallIds /\ new.adds \in SUBSET CallIds /\ v \in Nat
      BY <1>6, <1>7 DEF Counter
    <2>4. v <= Cardinality(A) * D
      BY <1>1, <1>4, <1>7 DEF RisingInv
    <2> HIDE DEF A, v
    <2>5. /\ IsFiniteSet(A) /\ Cardinality(A) \in Nat
          /\ Cardinality(new.adds) \in Nat /\ Cardinality(new.adds) <= MaxCalls
      BY <2>3, CallCount
    <2>6. Cardinality(new.adds) = Cardinality(A) + 1
      BY <2>1, <2>2, <2>5, FS_AddElement
    <2>7. PICK m \in Nat : m = Cardinality(A)
      BY <2>5
    <2>8. /\ D \in Nat \ {0} /\ MaxCalls \in Nat /\ Modulus \in Nat \ {0}
          /\ MaxCalls * D < Modulus /\ m + 1 <= MaxCalls /\ v <= m * D
      BY <2>4, <2>5, <2>6, <2>7, SlotAssumption DEF DurationsFit
    <2>9. (m + 1) * D = m * D + D /\ m * D \in Nat /\ (m + 1) * D <= MaxCalls * D
      <3>1. PICK e \in Nat : MaxCalls = (m + 1) + e
        <4>1. MaxCalls - (m + 1) \in Nat
          BY <2>8
        <4> QED BY <2>8, <4>1
      <3>2. MaxCalls * D = (m + 1) * D + e * D /\ e * D \in Nat /\ (m + 1) * D \in Nat
        BY <2>8, <3>1
      <3>3. (m + 1) * D = m * D + D /\ m * D \in Nat
        BY <2>8
      <3> QED BY <3>2, <3>3
    <2>10. MaxCalls * D \in Nat
      BY <2>8
    <2>11. v + a <= (m + 1) * D /\ v + a < Modulus /\ v + a \in Nat
      BY <1>8, <2>3, <2>8, <2>9, <2>10
    <2>12. (v + a) % Modulus = v + a
      BY <2>8, <2>11
    <2> QED BY <1>8, <2>2, <2>3, <2>6, <2>7, <2>11, <2>12 DEF v
  <1>10. \A k \in 1..n : slot[f][k].value <= new.value /\ slot[f][k].value \in Nat
    <2> TAKE k \in 1..n
    <2>1. slot[f][k].value <= slot[f][n].value
      <3>1. k <= n
        BY <1>7
      <3> QED BY <1>1, <1>4, <1>7, <3>1 DEF RisingInv
    <2>2. slot[f][k].value \in Nat
      BY <1>1, <1>4, ShownFacts
    <2> QED BY <1>7, <1>9, <2>1, <2>2
  <1>11. RisingInv(D)'
    <2>1. \A j \in Made' : calls'[j].elapsed_us <= D
      BY <1>1, <1>6 DEF RisingInv, Made
    <2>2. ASSUME NEW g \in Fields, NEW k \in 1..Len(slot'[g])
          PROVE  slot'[g][k].value <= Cardinality(slot'[g][k].adds) * D
      <3>1. CASE g # f
        BY <1>1, <1>6, <2>2, <3>1 DEF RisingInv
      <3>2. CASE g = f /\ k \in 1..n
        BY <1>1, <1>4, <1>7, <3>2 DEF RisingInv
      <3>3. CASE g = f /\ k = n + 1
        BY <1>6, <1>9, <3>3
      <3> QED BY <1>6, <1>7, <2>2, <3>1, <3>2, <3>3
    <2>3. ASSUME NEW g \in Fields, NEW j \in 1..Len(slot'[g]), NEW k \in 1..Len(slot'[g]), j <= k
          PROVE  slot'[g][j].value <= slot'[g][k].value
      <3>1. CASE g # f
        BY <1>1, <1>6, <2>3, <3>1 DEF RisingInv
      <3>2. CASE g = f /\ k \in 1..n
        <4>1. j \in 1..n
          BY <1>6, <1>7, <2>3, <3>2
        <4> QED BY <1>1, <1>4, <1>7, <2>3, <3>2, <4>1 DEF RisingInv
      <3>3. CASE g = f /\ k = n + 1 /\ j \in 1..n
        BY <1>6, <1>7, <1>10, <3>3
      <3>4. CASE g = f /\ k = n + 1 /\ j = n + 1
        BY <1>6, <1>9, <3>4
      <3> QED BY <1>6, <1>7, <2>3, <3>1, <3>2, <3>3, <3>4
    <2> QED BY <2>1, <2>2, <2>3 DEF RisingInv
  <1>12. ASSUME NEW u \in Threads PROVE ShownInv(u)'
    <2>1. CASE u # t
      BY <1>1, <1>6, <2>1, KeepsShown DEF SlotInv, MonotoneInv
    <2>2. CASE u = t
      <3>1. pc'[t] \notin {"snapshot", "loaded"}
        BY FetchAddFacts
      <3>2. ASSUME NEW g \in Fields
            PROVE  last'[t][Shown(g)] <= slot'[g][view'[t][g]].value
        <4>1. /\ last[t][Shown(g)] <= slot[g][view[t][g]].value /\ last[t][Shown(g)] \in Nat
              /\ view[t][g] \in 1..Len(slot[g])
          BY <1>1, ShownFacts DEF ShownInv
        <4>2. CASE g # f
          BY <1>6, <4>1, <4>2
        <4>3. CASE g = f
          <5>1. slot[f][view[t][f]].value <= new.value /\ slot[f][view[t][f]].value \in Nat
            BY <1>4, <1>10, <4>1, <4>3
          <5>2. last[t][Shown(f)] <= new.value
            BY <1>9, <4>1, <4>3, <5>1
          <5> QED BY <1>6, <4>3, <5>2
        <4> QED BY <4>2, <4>3
      <3> QED BY <2>2, <3>1, <3>2 DEF ShownInv
    <2> QED BY <2>1, <2>2
  <1> QED BY <1>11, <1>12 DEF MonotoneInv

(* The steps of a snapshot and of synchronisation. *)
LEMMA MonotoneRead ==
  ASSUME NEW D, SlotInv, SlotInv', MonotoneInv(D), NEW t \in Threads,
         UNCHANGED <<slot, calls, processor>>, \A u \in Threads \ {t} : Keeps(u) /\ last'[u] = last[u],
         ShownInv(t)'
  PROVE  MonotoneInv(D)'
  <1>1. RisingInv(D)'
    BY DEF MonotoneInv, RisingInv, Made
  <1>2. TypeOK /\ TypeOK' /\ Grows
    BY DEF SlotInv, TypeOK, Grows, Made
  <1>3. ASSUME NEW u \in Threads \ {t} PROVE ShownInv(u)'
    BY <1>2, KeepsShown DEF SlotInv, MonotoneInv
  <1> QED BY <1>1, <1>3 DEF MonotoneInv

(* A view that moves forward sees no less. *)
LEMMA ForwardShows ==
  ASSUME NEW D, TypeOK, RisingInv(D), NEW t \in Threads, ShownInv(t), NEW f \in Fields,
         NEW i \in 1..Len(slot[f]), view[t][f] <= i
  PROVE  last[t][Shown(f)] <= slot[f][i].value
  <1>1. /\ last[t][Shown(f)] \in Nat /\ last[t][Shown(f)] <= slot[f][view[t][f]].value
        /\ view[t][f] \in 1..Len(slot[f])
        /\ slot[f][view[t][f]].value \in Nat /\ slot[f][i].value \in Nat
    BY ShownFacts DEF ShownInv
  <1>2. slot[f][view[t][f]].value <= slot[f][i].value
    BY <1>1 DEF RisingInv
  <1> QED BY <1>1, <1>2

(* A snapshot begins, loads, returns. *)
LEMMA MonotoneSnapshot ==
  ASSUME NEW D, DurationsFit(D), SlotInv, SlotInv', MonotoneInv(D), NEW t \in Threads,
         BeginSnapshot(t) \/ Load(t) \/ EndSnapshot(t), processor' = processor
  PROVE  MonotoneInv(D)'
  <1>1. /\ TypeOK /\ RisingInv(D) /\ ShownInv(t) /\ SnapInv(t)
    BY DEF SlotInv, MonotoneInv
  <1>2. /\ pc \in [Threads -> {"idle", "record", "snapshot", "loaded"}]
        /\ field \in [Threads -> Fields \cup {"return"}]
        /\ view \in [Threads -> [Fields -> Nat \ {0}]]
        /\ loaded \in [Threads -> [Fields -> Nat]]
        /\ last \in [Threads -> Snapshots]
        /\ expected \in [Threads -> SUBSET CallIds]
    BY <1>1 DEF TypeOK
  <1>3. CASE BeginSnapshot(t)
    <2>1. /\ UNCHANGED <<slot, view, calls, call, done, loaded, last>>
          /\ \A u \in Threads \ {t} : Keeps(u)
          /\ field'[t] = "count"
      BY <1>2, <1>3 DEF BeginSnapshot, Keeps
    <2>2. LoadedBefore("count") = {}
      BY LoadFacts DEF Fields
    <2>3. ShownInv(t)'
      BY <1>1, <2>1, <2>2 DEF ShownInv
    <2> QED BY <2>1, <2>3, MonotoneRead
  <1>4. CASE Load(t)
    <2>1. pc[t] = "snapshot" /\ field[t] \in Fields
      BY <1>1, <1>4 DEF Load, SnapInv
    <2>2. PICK f \in Fields : f = field[t]
      BY <2>1
    <2>3. PICK i \in Loadable(t, f) :
            loaded' = [loaded EXCEPT ![t][f] = i] /\ view' = [view EXCEPT ![t][f] = i]
      BY <1>4, <2>2 DEF Load
    <2>4. /\ field' = [field EXCEPT ![t] = NextLoad(f)]
          /\ \A u \in Threads \ {t} : pc'[u] = pc[u]
          /\ UNCHANGED <<slot, calls, call, done, expected, last>>
      BY <1>2, <1>4, <2>2 DEF Load
    <2>5. i \in 1..Len(slot[f]) /\ view[t][f] <= i
      <3>1. Len(slot[f]) \in Nat /\ view[t][f] \in 1..Len(slot[f])
        BY <1>1, SlotFacts
      <3>2. CASE processor = "in_order"
        BY <2>3, <3>1, <3>2 DEF Loadable
      <3>3. CASE processor # "in_order"
        BY <2>3, <3>1, <3>3 DEF Loadable
      <3> QED BY <3>2, <3>3
    <2>6. /\ view'[t][f] = i /\ loaded'[t][f] = i
          /\ \A g \in Fields \ {f} : view'[t][g] = view[t][g] /\ loaded'[t][g] = loaded[t][g]
          /\ \A u \in Threads \ {t} : view'[u] = view[u] /\ loaded'[u] = loaded[u]
          /\ field'[t] = NextLoad(f) /\ \A u \in Threads \ {t} : field'[u] = field[u]
      BY <1>2, <2>3, <2>4
    <2>7. \A u \in Threads \ {t} : Keeps(u) /\ last'[u] = last[u]
      BY <2>4, <2>6 DEF Keeps
    <2>8. last[t][Shown(f)] <= slot[f][i].value
      BY <1>1, <2>5, ForwardShows
    <2>9. /\ LoadedBefore(NextLoad(f)) = LoadedBefore(f) \cup {f} /\ f \notin LoadedBefore(f)
          /\ LoadedBefore(f) \subseteq Fields
      BY LoadFacts, BeforeFacts
    <2>10. \A g \in Fields : last[t][Shown(g)] <= slot[g][view'[t][g]].value
      BY <1>1, <2>6, <2>8 DEF ShownInv
    <2>11. \A g \in LoadedBefore(NextLoad(f)) : last[t][Shown(g)] <= slot[g][loaded'[t][g]].value
      BY <1>1, <2>1, <2>2, <2>6, <2>8, <2>9 DEF ShownInv, ValueLoaded
    <2>12. ShownInv(t)'
      BY <2>4, <2>6, <2>10, <2>11 DEF ShownInv, ValueLoaded
    <2> QED BY <2>4, <2>7, <2>12, MonotoneRead
  <1>5. CASE EndSnapshot(t)
    <2> DEFINE v == [f \in Fields |-> ValueLoaded(t, f)]
    <2>1. /\ pc[t] = "loaded" /\ last' = [last EXCEPT ![t] = from_counters(v)]
          /\ expected' = [expected EXCEPT ![t] = {}]
          /\ loaded' = [loaded EXCEPT ![t] = Zero]
          /\ pc' = [pc EXCEPT ![t] = "idle"]
          /\ UNCHANGED <<slot, view, calls, field, call, done>>
      BY <1>5 DEF EndSnapshot
    <2>2. \A f \in Fields : v[f] = ValueLoaded(t, f)
      OBVIOUS
    <2>3. \A f \in Fields : from_counters(v)[Shown(f)] = v[f]
      <3> HIDE DEF v
      <3> QED BY DEF from_counters, Shown, Fields
    <2> HIDE DEF v
    <2>4. /\ last'[t] = from_counters(v) /\ pc'[t] = "idle"
          /\ \A u \in Threads \ {t} : Keeps(u) /\ last'[u] = last[u]
      BY <1>2, <2>1 DEF Keeps
    <2>5. ASSUME NEW f \in Fields PROVE last'[t][Shown(f)] <= slot[f][view[t][f]].value
      <3>1. loaded[t][f] \in 1..Len(slot[f])
        BY <1>1, <2>1, LoadFacts DEF SnapInv
      <3>2. view[t][f] \in 1..Len(slot[f]) /\ loaded[t][f] <= view[t][f]
        BY <1>1, ShownFacts DEF TypeOK
      <3>3. slot[f][loaded[t][f]].value <= slot[f][view[t][f]].value
        BY <1>1, <3>1, <3>2 DEF RisingInv
      <3> QED BY <2>2, <2>3, <2>4, <3>3 DEF ValueLoaded
    <2>6. ShownInv(t)'
      BY <2>1, <2>4, <2>5 DEF ShownInv
    <2> QED BY <2>1, <2>4, <2>6, MonotoneRead
  <1> QED BY <1>3, <1>4, <1>5

(* Synchronisation moves a view forward. *)
LEMMA MonotoneSynchronize ==
  ASSUME NEW D, DurationsFit(D), SlotInv, SlotInv', MonotoneInv(D), NEW a \in Threads,
         NEW b \in Threads, Synchronize(a, b), processor' = processor
  PROVE  MonotoneInv(D)'
  <1>1. /\ TypeOK /\ RisingInv(D) /\ ShownInv(b)
    BY DEF SlotInv, MonotoneInv
  <1>2. /\ pc[b] = "idle" /\ UNCHANGED <<slot, calls, pc, field, call, expected, loaded, last>>
    BY DEF Synchronize
  <1>3. /\ \A f \in Fields :
             view'[b][f] = IF view[a][f] > view[b][f] THEN view[a][f] ELSE view[b][f]
        /\ \A u \in Threads \ {b} : view'[u] = view[u] /\ done'[u] = done[u]
    BY <1>1 DEF Synchronize, TypeOK
  <1>4. \A u \in Threads \ {b} : Keeps(u) /\ last'[u] = last[u]
    BY <1>2, <1>3 DEF Keeps
  <1>5. ASSUME NEW f \in Fields PROVE last[b][Shown(f)] <= slot[f][view'[b][f]].value
    <2>1. /\ view[a][f] \in 1..Len(slot[f]) /\ view[b][f] \in 1..Len(slot[f])
          /\ Len(slot[f]) \in Nat
      BY <1>1, SlotFacts
    <2>2. view'[b][f] \in 1..Len(slot[f]) /\ view[b][f] <= view'[b][f]
      BY <1>3, <2>1
    <2> QED BY <1>1, <2>2, ForwardShows
  <1>6. ShownInv(b)'
    BY <1>2, <1>5 DEF ShownInv
  <1> QED BY <1>2, <1>4, <1>6, MonotoneRead

(* Every step keeps the values rising. *)
LEMMA MonotoneNext ==
  ASSUME NEW D, DurationsFit(D), SlotInv, SlotInv', MonotoneInv(D), [Next]_vars
  PROVE  MonotoneInv(D)'
  <1>1. processor \in Processors
    BY DEF SlotInv, TypeOK
  <1>2. Recorders[processor] \subseteq Threads /\ Readers[processor] \subseteq Threads
    BY <1>1, ThreadFacts
  <1>3. CASE UNCHANGED vars
    BY <1>3 DEF vars, MonotoneInv, RisingInv, ShownInv, Made, ValueLoaded
  <1>4. ASSUME Next PROVE MonotoneInv(D)'
    <2>1. processor' = processor
      BY <1>4 DEF Next
    <2>2. ASSUME NEW t \in Recorders[processor], NEW d \in Durations, NEW s \in BOOLEAN,
                 Record(t, d, s)
          PROVE  MonotoneInv(D)'
      <3>1. RecordCall(d, s) \in Call
        BY CallFacts
      <3>2. RecordCall(d, s).elapsed_us <= D
        <4>1. d \in Nat /\ d \div 1000 \in Nat /\ d \div 1000 <= D /\ D \in Nat
          BY SlotAssumption DEF DurationsFit
        <4>2. ElapsedMicros(d) <= D
          BY <4>1, SlotAssumption DEF ElapsedMicros
        <4> QED BY <4>2 DEF RecordCall
      <3> QED BY <1>2, <2>1, <2>2, <3>1, <3>2, MonotoneBegin DEF Record
    <2>3. ASSUME NEW t \in Recorders[processor], Increment(t)
          PROVE  MonotoneInv(D)'
      <3>1. IncrementCall \in Call /\ IncrementCall.elapsed_us <= D
        BY CallFacts DEF IncrementCall, DurationsFit
      <3> QED BY <1>2, <2>1, <2>3, <3>1, MonotoneBegin DEF Increment
    <2>4. ASSUME NEW t \in Recorders[processor], FetchAdd(t)
          PROVE  MonotoneInv(D)'
      BY <1>2, <2>1, <2>4, MonotoneFetchAdd
    <2>5. ASSUME NEW t \in Readers[processor], BeginSnapshot(t) \/ Load(t) \/ EndSnapshot(t)
          PROVE  MonotoneInv(D)'
      BY <1>2, <2>1, <2>5, MonotoneSnapshot
    <2>6. ASSUME NEW a \in Threads, NEW b \in Readers[processor], Synchronize(a, b)
          PROVE  MonotoneInv(D)'
      BY <1>2, <2>1, <2>6, MonotoneSynchronize
    <2> QED BY <1>4, <2>2, <2>3, <2>4, <2>5, <2>6 DEF Next
  <1> QED BY <1>3, <1>4

(* What a snapshot shows is at least what the thread's last one showed. *)
LEMMA SnapshotStep ==
  ASSUME NEW D, SlotInv, MonotoneInv(D), [Next]_vars
  PROVE  [\A t \in Readers[processor] :
            \A n \in {"total", "failure", "slow", "elapsed_us", "failure_elapsed_us",
                      "slow_elapsed_us"} : last'[t][n] >= last[t][n]]_last
  <1>1. SUFFICES ASSUME last' # last
                 PROVE  \A t \in Readers[processor] :
                          \A n \in {"total", "failure", "slow", "elapsed_us",
                                    "failure_elapsed_us", "slow_elapsed_us"} :
                            last'[t][n] >= last[t][n]
    OBVIOUS
  <1>2. processor \in Processors /\ TypeOK
    BY DEF SlotInv, TypeOK
  <1>3. Readers[processor] \subseteq Threads
    BY <1>2, ThreadFacts
  <1>4. PICK u \in Readers[processor] : EndSnapshot(u)
    BY <1>1 DEF Next, vars, Record, Increment, Begin, FetchAdd, BeginSnapshot, Load, Synchronize
  <1>5. ASSUME NEW t \in Readers[processor], NEW f \in Fields
        PROVE  last'[t][Shown(f)] >= last[t][Shown(f)]
    <2>1. last[t][Shown(f)] \in Nat
      BY <1>2, <1>3, ShownFacts
    <2>2. last \in [Threads -> Snapshots]
      BY <1>2 DEF TypeOK
    <2>3. CASE t # u
      <3>1. last'[t] = last[t]
        BY <1>3, <1>4, <2>2, <2>3 DEF EndSnapshot
      <3> QED BY <2>1, <3>1
    <2>4. CASE t = u
      <3> DEFINE v == [g \in Fields |-> ValueLoaded(u, g)]
      <3>1. pc[u] = "loaded" /\ last'[u] = from_counters(v)
        BY <1>3, <1>4, <2>2 DEF EndSnapshot
      <3>2. v[f] = ValueLoaded(u, f)
        OBVIOUS
      <3> HIDE DEF v
      <3>3. from_counters(v)[Shown(f)] = v[f]
        BY DEF from_counters, Shown, Fields
      <3>4. SnapInv(u) /\ ShownInv(u) /\ LoadedBefore("return") = Fields
        BY <1>3, LoadFacts DEF SlotInv, MonotoneInv
      <3>5. last[u][Shown(f)] <= ValueLoaded(u, f)
        BY <3>1, <3>4 DEF SnapInv, ShownInv
      <3>6. ValueLoaded(u, f) \in Nat
        BY <1>2, <1>3, <3>1, <3>4, ShownFacts DEF SnapInv, ValueLoaded
      <3> QED BY <2>1, <2>4, <3>1, <3>2, <3>3, <3>5, <3>6
    <2> QED BY <2>3, <2>4
  <1>6. \A n \in {"total", "failure", "slow", "elapsed_us", "failure_elapsed_us",
                  "slow_elapsed_us"} : \E f \in Fields : n = Shown(f)
    <2>1. /\ Shown("count") = "total" /\ Shown("failure_count") = "failure"
          /\ Shown("slow_count") = "slow" /\ Shown("elapsed_us") = "elapsed_us"
          /\ Shown("failure_elapsed_us") = "failure_elapsed_us"
          /\ Shown("slow_elapsed_us") = "slow_elapsed_us"
      BY DEF Shown
    <2> QED BY <2>1 DEF Fields
  <1> QED BY <1>5, <1>6

(* As long as all calls together last less than 2^64 microseconds, no       *)
(* counter a thread is shown ever goes backwards (metric.rs:371).           *)
THEOREM SnapshotsRise ==
  ASSUME NEW CONSTANT D, DurationsFit(D)
  PROVE  Spec => SnapshotsNeverDecrease
  <1>1. Init => MonotoneInv(D)
    BY MonotoneInit
  <1>2. SlotInv /\ SlotInv' /\ MonotoneInv(D) /\ [Next]_vars => MonotoneInv(D)'
    BY MonotoneNext
  <1>3. SlotInv /\ MonotoneInv(D) /\ [Next]_vars =>
          [\A t \in Readers[processor] :
             \A n \in {"total", "failure", "slow", "elapsed_us", "failure_elapsed_us",
                       "slow_elapsed_us"} : last'[t][n] >= last[t][n]]_last
    BY SnapshotStep
  <1> QED BY <1>1, <1>2, <1>3, SlotInvariance, PTL DEF Spec, SnapshotsNeverDecrease

----------------------------------------------------------------------------
(***************************************************************************)
(* The values of the counters are the sums of the calls added into them.   *)
(***************************************************************************)

(* What each call of S, one of the calls cs, adds to counter f. *)
Shares(cs, f, S) == [i \in S |-> IF Touches(cs[i], f) THEN Amount(cs[i], f) ELSE 0]

(* Every value of a counter is the sum of what its calls add, wrapped. *)
ValuesInv ==
  \A f \in Fields : \A k \in 1..Len(slot[f]) :
    slot[f][k].value = Sum(f, slot[f][k].adds) % Modulus

(* The sum of some calls, as part of the sum of all of them. *)
LEMMA SharesFacts ==
  ASSUME NEW cs \in Seq(Call), NEW f \in Fields, NEW S \in SUBSET (1..Len(cs))
  PROVE  /\ IsFiniteSet(1..Len(cs))
         /\ \A i \in 1..Len(cs) : Shares(cs, f, 1..Len(cs))[i] \in Int
         /\ SumFunction(Shares(cs, f, S)) = SumFunctionOnSet(Shares(cs, f, 1..Len(cs)), S)
  <1> PICK D : D = 1..Len(cs)
    OBVIOUS
  <1>1. IsFiniteSet(D) /\ IsFiniteSet(S)
    <2>1. 1 \in Int /\ Len(cs) \in Int
      OBVIOUS
    <2> QED BY <2>1, FS_Interval, FS_Subset
  <1>2. PICK w : w = Shares(cs, f, D)
    OBVIOUS
  <1>3. PICK v : v = Shares(cs, f, S)
    OBVIOUS
  <1>4. ASSUME NEW i \in D PROVE w[i] \in Int
    <2>1. cs[i] \in Call
      BY ElementOfSeq
    <2>2. Amount(cs[i], f) \in Int
      BY <2>1 DEF Amount, Call
    <2> QED BY <1>2, <2>2 DEF Shares
  <1>5. DOMAIN v = S /\ \A i \in S : v[i] = w[i] /\ i \in D
    BY <1>2, <1>3 DEF Shares
  <1>6. SumFunctionOnSet(v, S) = SumFunctionOnSet(w, S)
    BY <1>1, <1>4, <1>5, SumSame
  <1>7. SumFunction(v) = SumFunctionOnSet(v, S)
    BY <1>5 DEF SumFunction
  <1> QED BY <1>1, <1>2, <1>3, <1>4, <1>6, <1>7

(* Another call adds its amount, if the counter is one of its own. *)
LEMMA SharesAdd ==
  ASSUME NEW cs \in Seq(Call), NEW f \in Fields, NEW S, S \in SUBSET (1..Len(cs)),
         NEW i, i \in 1..Len(cs), i \notin S, Touches(cs[i], f)
  PROVE  /\ SumFunction(Shares(cs, f, S)) \in Int
         /\ SumFunction(Shares(cs, f, S \cup {i})) = SumFunction(Shares(cs, f, S)) + Amount(cs[i], f)
  <1> PICK D : D = 1..Len(cs)
    OBVIOUS
  <1>1. PICK w : w = Shares(cs, f, D)
    OBVIOUS
  <1>2. IsFiniteSet(D) /\ \A j \in D : w[j] \in Int
    BY <1>1, SharesFacts
  <1>3. S \in SUBSET D /\ S \cup {i} \in SUBSET D /\ i \in D \ S
    OBVIOUS
  <1>4. /\ SumFunctionOnSet(w, S) \in Int
        /\ SumFunctionOnSet(w, S \cup {i}) = SumFunctionOnSet(w, S) + w[i]
    <2>1. \A T \in SUBSET D : SumFunctionOnSet(w, T) \in Int
      BY ONLY <1>2, SumFacts
    <2>2. IsFiniteSet(D)
      BY <1>2
    <2>3. \A j \in D : w[j] \in Int
      BY <1>2
    <2>4. S \in SUBSET D /\ i \in D \ S
      BY <1>3
    <2>5. SumFunctionOnSet(w, S \cup {i}) = SumFunctionOnSet(w, S) + w[i]
      BY ONLY <2>2, <2>3, <2>4, SumAdd
    <2> QED BY ONLY <1>3, <2>1, <2>5
  <1>5. /\ SumFunction(Shares(cs, f, S)) = SumFunctionOnSet(w, S)
        /\ SumFunction(Shares(cs, f, S \cup {i})) = SumFunctionOnSet(w, S \cup {i})
    BY <1>1, <1>3, SharesFacts
  <1>6. w[i] = Amount(cs[i], f)
    BY <1>1 DEF Shares
  <1> QED BY <1>4, <1>5, <1>6

(* Later calls do not change a sum. *)
LEMMA SumStays ==
  ASSUME TypeOK, TypeOK', Grows, NEW f \in Fields, NEW S \in SUBSET Made
  PROVE  Sum(f, S)' = Sum(f, S)
  <1>1. \A i \in S : calls'[i] = calls[i]
    BY DEF Grows
  <1>2. Shares(calls', f, S) = Shares(calls, f, S)
    BY <1>1 DEF Shares
  <1> QED BY <1>2 DEF Sum, Shares

(* Nothing has been added to the first values. *)
LEMMA ValuesInit ==
  ASSUME Init
  PROVE  ValuesInv
  <1>1. \A f \in Fields : slot[f] = <<[value |-> 0, adds |-> {}]>>
    BY DEF Init
  <1>2. ASSUME NEW f \in Fields, NEW k \in 1..Len(slot[f])
        PROVE  slot[f][k].value = Sum(f, slot[f][k].adds) % Modulus
    <2>1. slot[f][k] = [value |-> 0, adds |-> {}]
      BY <1>1
    <2>2. Sum(f, {}) = 0
      <3>1. PICK v : v = Shares(calls, f, {})
        OBVIOUS
      <3>2. DOMAIN v = {} /\ \A i \in {} : v[i] \in Int
        BY <3>1 DEF Shares
      <3>3. SumFunctionOnSet(v, {}) = 0
        BY <3>2, SumFacts, FS_EmptySet
      <3> QED BY <3>1, <3>2, <3>3 DEF Sum, Shares, SumFunction
    <2>3. 0 % Modulus = 0
      BY SlotAssumption, ModSmall
    <2> QED BY <2>1, <2>2, <2>3
  <1> QED BY <1>2 DEF ValuesInv

(* Steps that update no counter leave the values what they were. *)
LEMMA ValuesFrame ==
  ASSUME SlotInv, SlotInv', Grows, ValuesInv, UNCHANGED slot
  PROVE  ValuesInv'
  <1>1. ASSUME NEW f \in Fields, NEW k \in 1..Len(slot[f])
        PROVE  slot[f][k].value = Sum(f, slot[f][k].adds)' % Modulus
    <2>1. slot[f][k].adds \in SUBSET Made
      BY DEF SlotInv, AddsInv
    <2>2. slot[f][k].adds' = slot[f][k].adds
      OBVIOUS
    <2>3. PICK S \in SUBSET Made : S = slot[f][k].adds
      BY <2>1
    <2>4. Sum(f, S)' = Sum(f, S)
      BY SumStays DEF SlotInv
    <2>5. slot[f][k].value = Sum(f, S) % Modulus
      BY <2>3 DEF ValuesInv
    <2>6. Sum(f, slot[f][k].adds)' = Sum(f, S)'
      BY <2>2, <2>3 DEF Sum
    <2> QED BY <2>4, <2>5, <2>6
  <1>2. \A f \in Fields : slot'[f] = slot[f]
    OBVIOUS
  <1> QED BY <1>1, <1>2 DEF ValuesInv

(* A fetch_add adds a call that was not yet in the counter. *)
LEMMA ValuesFetchAdd ==
  ASSUME SlotInv, SlotInv', ValuesInv, NEW t \in Threads, FetchAdd(t), processor' = processor
  PROVE  ValuesInv'
  <1>1. TypeOK /\ TypeOK' /\ AddsInv /\ PathInv(t) /\ Grows
    BY FetchAddFacts DEF SlotInv
  <1>2. PICK f \in Fields : f = field[t]
    BY FetchAddFacts
  <1>3. PICK i \in Made : i = call[t]
    BY FetchAddFacts
  <1>4. PICK n : n = Len(slot[f])
    OBVIOUS
  <1>5. PICK old : old = Newest(f)
    OBVIOUS
  <1>6. PICK a : a = Amount(calls[i], f)
    OBVIOUS
  <1>7. /\ Len(slot'[f]) = n + 1
        /\ slot'[f][n + 1] = [value |-> (old.value + a) % Modulus, adds |-> old.adds \cup {i}]
        /\ \A g \in Fields \ {f} : slot'[g] = slot[g]
    BY <1>2, <1>3, <1>4, <1>5, <1>6, FetchAddFacts DEF Added
  <1>8. /\ n \in Nat \ {0} /\ old = slot[f][n]
        /\ \A k \in 1..n : slot'[f][k] = slot[f][k]
        /\ \A k \in 1..(n + 1) : k \in 1..n \/ k = n + 1
    <2>1. n \in Nat \ {0}
      BY <1>1, <1>4, SlotFacts
    <2>2. old = slot[f][n]
      BY <1>4, <1>5 DEF Newest
    <2>3. \A k \in 1..n : slot'[f][k] = slot[f][k]
      BY <1>1, <1>4 DEF Grows
    <2> QED BY <2>1, <2>2, <2>3
  <1>9. PICK S : S = old.adds
    OBVIOUS
  <1>10. S \in SUBSET Made /\ i \notin S /\ Touches(calls[i], f)
    <2>1. n \in 1..n
      BY <1>8
    <2>2. S \in SUBSET Made
      BY <1>1, <1>4, <1>8, <1>9, <2>1 DEF AddsInv
    <2>3. pc[t] = "record"
      BY FetchAddFacts
    <2>4. Touches(calls[i], f) /\ \A g \in Fields \ Before(f) : i \notin Newest(g).adds
      BY <1>1, <1>2, <1>3, <2>3 DEF PathInv
    <2>5. f \notin Before(f)
      BY DEF Fields, Before
    <2> QED BY <1>5, <1>9, <2>2, <2>4, <2>5
  <1>11. old.value = Sum(f, S) % Modulus
    <2>1. n \in 1..n
      BY <1>8
    <2> QED BY <1>4, <1>8, <1>9, <2>1 DEF ValuesInv
  <1>12. calls \in Seq(Call) /\ calls' = calls /\ a \in Int
    <2>1. calls \in Seq(Call) /\ calls[i] \in Call
      BY <1>1, <1>3, FetchAddFacts DEF TypeOK
    <2> QED BY <1>6, <2>1, FetchAddFacts DEF Amount, Call
  <1>13. Sum(f, S) \in Int /\ Sum(f, S \cup {i}) = Sum(f, S) + a
    <2>1. S \in SUBSET (1..Len(calls)) /\ i \in 1..Len(calls)
      BY <1>10 DEF Made
    <2>2. /\ SumFunction(Shares(calls, f, S)) \in Int
          /\ SumFunction(Shares(calls, f, S \cup {i})) = SumFunction(Shares(calls, f, S)) + a
      BY <1>6, <1>10, <1>12, <2>1, SharesAdd
    <2> QED BY <2>2 DEF Sum, Shares
  <1>14. (old.value + a) % Modulus = Sum(f, S \cup {i}) % Modulus
    <2>1. PICK s \in Int : s = Sum(f, S)
      BY <1>13
    <2>2. Modulus \in Nat \ {0}
      BY SlotAssumption
    <2>3. ((s % Modulus) + a) % Modulus = (s + a) % Modulus
      BY <1>12, <2>2, ModAdd
    <2> QED BY <1>11, <1>13, <2>1, <2>3
  <1>15. ASSUME NEW g \in Fields, NEW k \in 1..Len(slot'[g])
         PROVE  slot'[g][k].value = Sum(g, slot'[g][k].adds) % Modulus
    <2>1. CASE g # f
      <3>1. slot'[g] = slot[g]
        BY <1>7, <2>1
      <3> QED BY <3>1 DEF ValuesInv
    <2>2. CASE g = f /\ k \in 1..n
      <3>1. slot'[g][k] = slot[g][k] /\ k \in 1..Len(slot[g])
        BY <1>4, <1>8, <2>2
      <3> QED BY <3>1 DEF ValuesInv
    <2>3. CASE g = f /\ k = n + 1
      <3>1. slot'[g][k].value = (old.value + a) % Modulus /\ slot'[g][k].adds = S \cup {i}
        BY <1>7, <1>9, <2>3
      <3> QED BY <1>14, <2>3, <3>1
    <2> QED BY <1>7, <1>8, <2>1, <2>2, <2>3
  <1>16. \A g \in Fields : \A A : Sum(g, A)' = Sum(g, A)
    BY <1>12 DEF Sum
  <1> QED BY <1>15, <1>16 DEF ValuesInv

LEMMA ValuesNext ==
  ASSUME SlotInv, SlotInv', ValuesInv, [Next]_vars
  PROVE  ValuesInv'
  <1>1. TypeOK /\ TypeOK' /\ Recorders[processor] \subseteq Threads
    BY ThreadFacts DEF SlotInv, TypeOK
  <1>2. \A f \in Fields : Len(slot[f]) \in Nat
    BY <1>1, SlotFacts
  <1>3. CASE UNCHANGED vars
    <2>1. Grows /\ UNCHANGED slot
      BY <1>1, <1>2, <1>3 DEF vars, Grows, TypeOK
    <2> QED BY <2>1, ValuesFrame
  <1>4. CASE Next
    <2>1. processor' = processor
      BY <1>4 DEF Next
    <2>2. CASE \E t \in Recorders[processor] : FetchAdd(t)
      BY <1>1, <2>1, <2>2, ValuesFetchAdd
    <2>3. CASE \E t \in Threads, c \in Call : Begin(t, c)
      <3>1. PICK c \in Call : calls' = Append(calls, c) /\ UNCHANGED slot
        BY <2>3 DEF Begin
      <3>2. calls \in Seq(Call)
        BY <1>1 DEF TypeOK
      <3>3. Len(calls) <= Len(calls') /\ \A i \in Made : calls'[i] = calls[i]
        BY <3>1, <3>2, AppendProperties DEF Made
      <3>4. Grows
        <4>1. \A f \in Fields : slot'[f] = slot[f] /\ Len(slot[f]) <= Len(slot[f])
          BY <1>2, <3>1
        <4> QED BY <2>1, <3>3, <4>1 DEF Grows
      <3> QED BY <3>1, <3>4, ValuesFrame
    <2>4. CASE UNCHANGED <<slot, calls>>
      <3>1. Grows
        BY <1>1, <1>2, <2>1, <2>4 DEF Grows, TypeOK
      <3> QED BY <2>4, <3>1, ValuesFrame
    <2>5. \/ \E t \in Recorders[processor] : FetchAdd(t)
          \/ \E t \in Threads, c \in Call : Begin(t, c)
          \/ UNCHANGED <<slot, calls>>
      <3>1. ASSUME NEW t \in Recorders[processor], NEW d \in Durations, NEW s \in BOOLEAN,
                   Record(t, d, s)
            PROVE  \E u \in Threads, c \in Call : Begin(u, c)
        BY <1>1, <3>1, CallFacts DEF Record
      <3>2. ASSUME NEW t \in Recorders[processor], Increment(t)
            PROVE  \E u \in Threads, c \in Call : Begin(u, c)
        BY <1>1, <3>2, CallFacts DEF Increment
      <3>3. ASSUME NEW t \in Readers[processor], BeginSnapshot(t) \/ Load(t) \/ EndSnapshot(t)
            PROVE  UNCHANGED <<slot, calls>>
        BY <3>3 DEF BeginSnapshot, Load, EndSnapshot
      <3>4. ASSUME NEW a \in Threads, NEW b \in Readers[processor], Synchronize(a, b)
            PROVE  UNCHANGED <<slot, calls>>
        BY <3>4 DEF Synchronize
      <3> QED BY <1>4, <3>1, <3>2, <3>3, <3>4 DEF Next
    <2> QED BY <2>2, <2>3, <2>4, <2>5
  <1> QED BY <1>3, <1>4

(* A snapshot that began when every call had completed for its thread is    *)
(* exact: each counter it returns is the sum of what all calls add to it.   *)
(* Each value loaded holds the calls the thread knew to be complete, all of *)
(* them here, and none that does not belong to the counter.                 *)
THEOREM QuietExact == Spec => []QuietSnapshotExact
  <1>1. ASSUME SlotInv, ValuesInv PROVE QuietSnapshotExact
    <2>1. ASSUME NEW t \in Threads, pc[t] = "loaded", expected[t] = DOMAIN calls,
                 NEW f \in Fields
          PROVE  ValueLoaded(t, f) = Sum(f, DOMAIN calls) % Modulus
      <3>1. calls \in Seq(Call) /\ DOMAIN calls = Made
        BY <1>1 DEF SlotInv, TypeOK, Made
      <3>2. /\ loaded[t][f] \in 1..Len(slot[f])
            /\ \A i \in Made : Touches(calls[i], f) => i \in AddsLoaded(t, f)
        <4>1. SnapInv(t) /\ LoadedBefore("return") = Fields
          BY <1>1, LoadFacts DEF SlotInv
        <4> QED BY <2>1, <3>1, <4>1 DEF SnapInv
      <3>3. PICK k \in 1..Len(slot[f]) : k = loaded[t][f]
        BY <3>2
      <3>4. PICK S : S = slot[f][k].adds
        OBVIOUS
      <3>5. \A i \in S : i \in Made /\ Touches(calls[i], f)
        BY <1>1, <3>4 DEF SlotInv, AddsInv
      <3>6. \A i \in Made \ S : ~Touches(calls[i], f)
        BY <3>2, <3>3, <3>4 DEF AddsLoaded
      <3>7. ValueLoaded(t, f) = Sum(f, S) % Modulus
        BY <1>1, <3>3, <3>4 DEF ValuesInv, ValueLoaded
      <3>8. PICK w : w = Shares(calls, f, Made)
        OBVIOUS
      <3>9. /\ IsFiniteSet(Made) /\ \A i \in Made : w[i] \in Int
            /\ \A T \in SUBSET Made : Sum(f, T) = SumFunctionOnSet(w, T)
        <4>1. \A T \in SUBSET (1..Len(calls)) :
                SumFunction(Shares(calls, f, T)) = SumFunctionOnSet(w, T)
          BY <3>1, <3>8, SharesFacts DEF Made
        <4>2. \A T : Sum(f, T) = SumFunction(Shares(calls, f, T))
          BY DEF Sum, Shares
        <4>3. IsFiniteSet(Made) /\ \A i \in Made : w[i] \in Int
          BY <3>1, <3>8, SharesFacts DEF Made
        <4> QED BY <4>1, <4>2, <4>3 DEF Made
      <3>10. S \in SUBSET Made /\ \A i \in Made \ S : w[i] = 0
        BY <3>5, <3>6, <3>8 DEF Shares
      <3>11. SumFunctionOnSet(w, Made) = SumFunctionOnSet(w, S)
        BY ONLY <3>9, <3>10, SumZeros
      <3>12. Sum(f, Made) = Sum(f, S)
        BY <3>9, <3>10, <3>11
      <3> QED BY <3>1, <3>7, <3>12
    <2> QED BY <2>1 DEF QuietSnapshotExact
  <1>2. Init => SlotInv /\ ValuesInv
    BY SlotInit, ValuesInit
  <1>3. SlotInv /\ ValuesInv /\ [Next]_vars => (SlotInv /\ ValuesInv)'
    BY SlotNext, ValuesNext
  <1> QED BY <1>1, <1>2, <1>3, PTL DEF Spec

============================================================================
