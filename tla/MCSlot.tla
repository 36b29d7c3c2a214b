------------------------------- MODULE MCSlot -------------------------------
(* Small instances of Slot for TLC. *)
EXTENDS Slot, TLC

CONSTANTS t1, t2, t3, t4

(* Where only coherence is kept, two recorders, one of which takes snapshots *)
(* too; where loads keep their order, two recorders and a reader.           *)
SomeRecorders == [relaxed |-> {t3, t4}, in_order |-> {t1, t2}]
SomeReaders == [relaxed |-> {t3}, in_order |-> {t3}]
Symmetry == Permutations({t1, t2})

(* The only thread there is. *)
OneThread == [in_order |-> {t1}]

(* A nanosecond under the slow threshold of a Resource metric, and on it. *)
AtTheThreshold == {49999999, 50000000}

============================================================================
