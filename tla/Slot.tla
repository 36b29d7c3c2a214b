-------------------------------- MODULE Slot --------------------------------
(***************************************************************************)
(* The six counters of one timing slot, shared by every copy of its Metric *)
(* handle: `record` and `increment` as the sequences of relaxed fetch_adds *)
(* they are, `snapshot` as the sequence of relaxed loads it is.            *)
(*                                                                         *)
(* Each counter is its modification order: a sequence of values, each with *)
(* the set of calls that were added into it (history only; the program     *)
(* keeps the sum).  A fetch_add extends the newest value.  A relaxed load  *)
(* may return any value that is not older than the one the thread already  *)
(* knows of that counter, and says nothing about the other counters.       *)
(* A processor that keeps loads and atomic updates in program order only   *)
(* ever returns the newest value.                                          *)
(***************************************************************************)
EXTENDS Naturals, Sequences, FiniteSetsExt, MetricTypes

CONSTANTS
  Recorders,  \* threads that call record and increment, on each of the Processors
  Readers,    \* threads that take snapshots, on each of the Processors
  Policy,     \* the handle's MetricPolicy
  Durations,  \* the durations passed to record, in nanoseconds
  MaxCalls,   \* bound: calls of record and increment
  Modulus,    \* 2^64: the counters wrap around at this value
  Processors  \* what the program may run on: relaxed, in_order

Threads == UNION {Recorders[p] \cup Readers[p] : p \in Processors}

ASSUME SlotAssumption ==
  /\ Policy \in MetricPolicy
  /\ Durations \subseteq Nat
  /\ MaxCalls \in Nat
  /\ Modulus \in Nat \ {0}
  /\ Processors \subseteq {"relaxed", "in_order"}

(* A process makes fewer than 2^64 calls: durations may wrap a counter       *)
(* around, counts of operations do not.                                     *)
ASSUME CallsAssumption == MaxCalls < Modulus

Fields == {"count", "elapsed_us", "slow_count", "slow_elapsed_us",
           "failure_count", "failure_elapsed_us"}

(* A call of record, or of increment when it is not timed. *)
Call == [timed : BOOLEAN, elapsed_us : 0..(Modulus - 1), success : BOOLEAN]

CallIds == 1..MaxCalls

(* as_micros truncates to whole microseconds; the result is clamped to u64. *)
ElapsedMicros(nanos) ==
  IF nanos \div 1000 < Modulus THEN nanos \div 1000 ELSE Modulus - 1

RecordCall(nanos, success) ==
  [timed |-> TRUE, elapsed_us |-> ElapsedMicros(nanos), success |-> success]

IncrementCall == [timed |-> FALSE, elapsed_us |-> 0, success |-> TRUE]

(* The branch of record that counts a slow operation. *)
MutIsSlow(c) == c.elapsed_us > slow_threshold_us(Policy)
IsSlow(c) == c.elapsed_us >= slow_threshold_us(Policy)

(* The first counter a call updates. *)
FirstField(c) ==
  IF ~c.timed THEN "count"
  ELSE IF ~c.success THEN "failure_count" ELSE "elapsed_us"

(* The counter a call updates after f, or its return. *)
MutNextField(c, f) ==
  CASE f = "failure_count"      -> "failure_elapsed_us"
    [] f = "failure_elapsed_us" -> "elapsed_us"
    [] f = "elapsed_us"         -> "count"
    [] f = "count"              -> IF IsSlow(c) THEN "slow_count" ELSE "return"
    [] f = "slow_count"         -> "slow_elapsed_us"
    [] f = "slow_elapsed_us"    -> "return"
NextField(c, f) ==
  CASE f = "failure_count"      -> "failure_elapsed_us"
    [] f = "failure_elapsed_us" -> "elapsed_us"
    [] f = "elapsed_us"         -> IF IsSlow(c) THEN "slow_count" ELSE "count"
    [] f = "slow_count"         -> "slow_elapsed_us"
    [] f = "slow_elapsed_us"    -> "count"
    [] f = "count"              -> "return"

(* What a call adds to counter f when it updates it. *)
Amount(c, f) ==
  IF f \in {"count", "slow_count", "failure_count"} THEN 1 ELSE c.elapsed_us

(* The counter a snapshot loads after f, or its return. *)
NextLoad(f) ==
  CASE f = "count"              -> "elapsed_us"
    [] f = "elapsed_us"         -> "slow_count"
    [] f = "slow_count"         -> "slow_elapsed_us"
    [] f = "slow_elapsed_us"    -> "failure_count"
    [] f = "failure_count"      -> "failure_elapsed_us"
    [] f = "failure_elapsed_us" -> "return"

VARIABLES
  processor,\* what the program runs on
  slot,     \* Slot: the modification order of each counter
  view,     \* how far into each of them each thread is known to be
  calls,    \* the calls made so far
  pc,       \* each thread's position: idle, record, snapshot or loaded
  field,    \* the counter its next step updates or loads
  call,     \* the call it is making
  done,     \* completed calls that happen before each thread's next step
  expected, \* done, when the thread's snapshot began
  loaded,   \* the position in the modification order of each value loaded
  last      \* the last MetricSnapshot each thread was given

vars == <<processor, slot, view, calls, pc, field, call, done, expected, loaded, last>>

Counter == [value : 0..(Modulus - 1), adds : SUBSET CallIds]

Newest(f) == slot[f][Len(slot[f])]

(* The counters as the values a thread has loaded. *)
ValueLoaded(t, f) == slot[f][loaded[t][f]].value
AddsLoaded(t, f) == slot[f][loaded[t][f]].adds

MutSuccessUnchecked(total, failure) == total - failure
MutSuccessWrapping(total, failure) == (Modulus + total - failure) % Modulus
Success(total, failure) == IF total >= failure THEN total - failure ELSE 0

(* MetricSnapshot::from_counters *)
from_counters(v) ==
  [total |-> v["count"],
   success |-> Success(v["count"], v["failure_count"]),
   failure |-> v["failure_count"],
   elapsed_us |-> v["elapsed_us"],
   slow |-> v["slow_count"],
   slow_elapsed_us |-> v["slow_elapsed_us"],
   failure_elapsed_us |-> v["failure_elapsed_us"]]

Zero == [f \in Fields |-> 0]

Init ==
  /\ processor \in Processors
  /\ slot = [f \in Fields |-> <<[value |-> 0, adds |-> {}]>>]
  /\ view = [t \in Threads |-> [f \in Fields |-> 1]]
  /\ calls = <<>>
  /\ pc = [t \in Threads |-> "idle"]
  /\ field = [t \in Threads |-> "return"]
  /\ call = [t \in Threads |-> 0]
  /\ done = [t \in Threads |-> {}]
  /\ expected = [t \in Threads |-> {}]
  /\ loaded = [t \in Threads |-> Zero]
  /\ last = [t \in Threads |-> from_counters(Zero)]

----------------------------------------------------------------------------
Begin(t, c) ==
  /\ pc[t] = "idle"
  /\ Len(calls) < MaxCalls
  /\ calls' = Append(calls, c)
  /\ call' = [call EXCEPT ![t] = Len(calls) + 1]
  /\ field' = [field EXCEPT ![t] = FirstField(c)]
  /\ pc' = [pc EXCEPT ![t] = "record"]
  /\ UNCHANGED <<slot, view, done, expected, loaded, last>>

Record(t, nanos, success) == Begin(t, RecordCall(nanos, success))

Increment(t) == Begin(t, IncrementCall)

(* The value a fetch_add of thread t reads. *)
MutAddTo(t, f) == slot[f][view[t][f]]
AddTo(t, f) == Newest(f)

(* One fetch_add of the call, which returns after the last one. *)
FetchAdd(t) ==
  LET f    == field[t]
      c    == calls[call[t]]
      old  == AddTo(t, f)
      next == NextField(c, f)
  IN
  /\ pc[t] = "record"
  /\ slot' = [slot EXCEPT ![f] =
                Append(@, [value |-> (old.value + Amount(c, f)) % Modulus,
                           adds |-> old.adds \cup {call[t]}])]
  /\ view' = [view EXCEPT ![t][f] = Len(slot[f]) + 1]
  /\ field' = [field EXCEPT ![t] = next]
  /\ IF next = "return"
       THEN /\ pc' = [pc EXCEPT ![t] = "idle"]
            /\ done' = [done EXCEPT ![t] = @ \cup {call[t]}]
            /\ call' = [call EXCEPT ![t] = 0]
       ELSE UNCHANGED <<pc, done, call>>
  /\ UNCHANGED <<calls, expected, loaded, last>>

BeginSnapshot(t) ==
  /\ pc[t] = "idle"
  /\ expected' = [expected EXCEPT ![t] = done[t]]
  /\ field' = [field EXCEPT ![t] = "count"]
  /\ pc' = [pc EXCEPT ![t] = "snapshot"]
  /\ UNCHANGED <<slot, view, calls, call, done, loaded, last>>

(* The positions a load of counter f may return to thread t. *)
Loadable(t, f) ==
  (IF processor = "in_order" THEN Len(slot[f]) ELSE view[t][f])..Len(slot[f])

Load(t) ==
  LET f == field[t] IN
  /\ pc[t] = "snapshot"
  /\ \E i \in Loadable(t, f) :
       /\ loaded' = [loaded EXCEPT ![t][f] = i]
       /\ view' = [view EXCEPT ![t][f] = i]
  /\ field' = [field EXCEPT ![t] = NextLoad(f)]
  /\ IF NextLoad(f) = "return"
       THEN pc' = [pc EXCEPT ![t] = "loaded"]
       ELSE UNCHANGED pc
  /\ UNCHANGED <<slot, calls, call, done, expected, last>>

(* snapshot returns. *)
EndSnapshot(t) ==
  /\ pc[t] = "loaded"
  /\ last' = [last EXCEPT ![t] = from_counters([f \in Fields |-> ValueLoaded(t, f)])]
  /\ expected' = [expected EXCEPT ![t] = {}]
  /\ loaded' = [loaded EXCEPT ![t] = Zero]
  /\ pc' = [pc EXCEPT ![t] = "idle"]
  /\ UNCHANGED <<slot, view, calls, field, call, done>>

(* The application orders a step of one thread before the next of another:  *)
(* a spawn, a join, a channel.  What a thread that takes no snapshots knows *)
(* matters to nobody: a fetch_add reads the newest value.                   *)
Synchronize(a, b) ==
  /\ a # b /\ pc[a] = "idle" /\ pc[b] = "idle"
  /\ view' = [view EXCEPT ![b] = [f \in Fields |->
                IF view[a][f] > view[b][f] THEN view[a][f] ELSE view[b][f]]]
  /\ done' = [done EXCEPT ![b] = @ \cup done[a]]
  /\ UNCHANGED <<slot, calls, pc, field, call, expected, loaded, last>>

Next ==
  /\ UNCHANGED processor
  /\ \/ \E t \in Recorders[processor], d \in Durations, s \in BOOLEAN : Record(t, d, s)
     \/ \E t \in Recorders[processor] : Increment(t) \/ FetchAdd(t)
     \/ \E t \in Readers[processor] : BeginSnapshot(t) \/ Load(t) \/ EndSnapshot(t)
     \/ \E a \in Threads, b \in Readers[processor] : Synchronize(a, b)

Spec == Init /\ [][Next]_vars

----------------------------------------------------------------------------
(***************************************************************************)
(* Properties.                                                             *)
(***************************************************************************)

Snapshots ==
  [total : 0..(Modulus - 1), success : 0..(Modulus - 1), failure : 0..(Modulus - 1),
   elapsed_us : 0..(Modulus - 1), slow : 0..(Modulus - 1),
   slow_elapsed_us : 0..(Modulus - 1), failure_elapsed_us : 0..(Modulus - 1)]

(* Counters hold values of their width, every value a thread knows or has   *)
(* loaded is in the counter's modification order, and `success`, computed   *)
(* from two counters loaded at different times, is never negative.          *)
TypeOK ==
  /\ processor \in Processors
  /\ slot \in [Fields -> Seq(Counter)]
  /\ view \in [Threads -> [Fields -> Nat \ {0}]]
  /\ calls \in Seq(Call)
  /\ Len(calls) <= MaxCalls
  /\ pc \in [Threads -> {"idle", "record", "snapshot", "loaded"}]
  /\ field \in [Threads -> Fields \cup {"return"}]
  /\ call \in [Threads -> CallIds \cup {0}]
  /\ done \in [Threads -> SUBSET CallIds]
  /\ expected \in [Threads -> SUBSET CallIds]
  /\ loaded \in [Threads -> [Fields -> Nat]]
  /\ last \in [Threads -> Snapshots]
  /\ \A f \in Fields : Len(slot[f]) > 0
  /\ \A t \in Threads, f \in Fields :
       view[t][f] <= Len(slot[f]) /\ loaded[t][f] <= view[t][f]

(* The groups a call belongs to, from its outcome alone: all calls count,   *)
(* `increment` only counts, failed and slow operations have pairs of their  *)
(* own and may be both (metric.rs:196).                                     *)
Touches(c, f) ==
  CASE f = "count"                                   -> TRUE
    [] f = "elapsed_us"                              -> c.timed
    [] f \in {"slow_count", "slow_elapsed_us"}       ->
         c.timed /\ c.elapsed_us >= slow_threshold_us(Policy)
    [] f \in {"failure_count", "failure_elapsed_us"} -> c.timed /\ ~c.success

(* A snapshot holds every call that completed before it began, in every     *)
(* counter the call belongs to: whatever the threads interleave and however *)
(* stale a relaxed load is, no completed record is lost to a later snapshot *)
(* and none is consumed by an earlier one.                                  *)
NoRecordLost ==
  \A t \in Threads :
    pc[t] = "loaded" =>
      \A i \in expected[t], f \in Fields :
        Touches(calls[i], f) => i \in AddsLoaded(t, f)

Sum(f, S) ==
  SumFunction([i \in S |-> IF Touches(calls[i], f) THEN Amount(calls[i], f) ELSE 0])

(* A snapshot taken when every call has completed before it is exact: the   *)
(* counts and duration sums of all calls, with operations at the threshold  *)
(* slow and durations truncated to microseconds.                            *)
QuietSnapshotExact ==
  \A t \in Threads :
    pc[t] = "loaded" /\ expected[t] = DOMAIN calls =>
      \A f \in Fields : ValueLoaded(t, f) = Sum(f, DOMAIN calls) % Modulus

(* Every operation in the total of a snapshot is in all its other counters: *)
(* `record` updates `count` last and `snapshot` loads it first.  Only when  *)
(* loads keep their order: else a total may be newer than an elapsed_us.    *)
CountedCallsComplete ==
  \A t \in Threads :
    processor = "in_order" /\ pc[t] = "loaded" =>
      \A i \in AddsLoaded(t, "count"), f \in Fields :
        Touches(calls[i], f) => i \in AddsLoaded(t, f)

(* The success count of a snapshot is never more than the operations that   *)
(* really succeeded.  Only when loads keep their order, as above.           *)
SuccessNotOverstated ==
  \A t \in Threads : processor = "in_order" =>
    last[t].success <= Cardinality({i \in DOMAIN calls : calls[i].success})

(* One thread's snapshots never go backwards: the six assertions of the     *)
(* test concurrent_record_and_snapshot (metric.rs:371).                     *)
SnapshotsNeverDecrease ==
  [][\A t \in Readers[processor] :
       \A n \in {"total", "failure", "slow", "elapsed_us", "failure_elapsed_us",
                 "slow_elapsed_us"} : last'[t][n] >= last[t][n]]_last

============================================================================
