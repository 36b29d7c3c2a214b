------------------------------- MODULE Facade -------------------------------
(***************************************************************************)
(* The crate as its user sees it: threads register metrics, record through *)
(* the handles they got and visit all metrics, at the same time.  The      *)
(* registry is AbstractRegistry, which Registry implements.  A slot is the *)
(* set of its completed records: what a snapshot of it holds is any set    *)
(* that has all records its thread is aware of, which is what Slot shows   *)
(* of the counters.                                                        *)
(***************************************************************************)
EXTENDS Naturals, FiniteSets, Requests

CONSTANTS
  Threads,
  Requests,    \* the registrations the application asks for
  Shards,
  ShardOf,     \* the shard of each lookup key
  MaxRecords,  \* bound: calls of record
  None         \* no registration in progress

Keys == {LookupKey(r) : r \in Requests}

(* Timings only; a plan has the output it was made with, and its aliases.   *)
ASSUME FacadeAssumption ==
  /\ MaxRecords \in Nat
  /\ IsFiniteSet(Requests) /\ None \notin Requests
  /\ ShardOf \in [Keys -> Shards]
  /\ \A r \in Requests :
       /\ r.api \in {"register", "register_resource", "register_profile"}
       /\ r.api = "register_profile" => /\ Len(r.outputs) \in Nat \ {0}
                                       /\ DOMAIN r.outputs = 1..Len(r.outputs)

VARIABLES
  log, handles, knows, walk, must, seen,  \* of AbstractRegistry
  pending,  \* the registration each thread is making
  records,  \* the key of the handle each record was made through
  slots,    \* the records in the slot of each metric, by its place
  aware,    \* the records that happen before each thread's next step
  expected, \* aware, when the thread's visit began
  calls,    \* outputs of the visited metric its callback is still due
  rows      \* what the callback has been called with in this visit

registryVars == <<log, handles, knows, walk, must, seen>>
slotVars == <<records, slots, aware>>
callVars == <<expected, calls, rows>>
vars == <<registryVars, pending, slotVars, callVars>>

Reg == INSTANCE AbstractRegistry WITH
  Key    <- [r \in Requests |-> LookupKey(r)],
  Policy <- [r \in Requests |-> PolicyOf(r)]

RecordIds == 1..MaxRecords

Init ==
  /\ Reg!Init
  /\ pending = [t \in Threads |-> None]
  /\ records = <<>>
  /\ slots = [p \in Shards \X (1..Cardinality(Keys)) |-> {}]
  /\ aware = [t \in Threads |-> {}]
  /\ expected = [t \in Threads |-> {}]
  /\ calls = [t \in Threads |-> <<>>]
  /\ rows = [t \in Threads |-> <<>>]

Idle(t) == pending[t] = None /\ walk[t] = "none"

----------------------------------------------------------------------------
(* Metric::new and the typed constructors, register_profile: find the       *)
(* metric of the key or add it ...                                          *)
Register(t, r) ==
  /\ Idle(t) /\ Admitted(r)
  /\ pending' = [pending EXCEPT ![t] = r]
  /\ \/ Reg!Insert(t, r)
     \/ \E p \in Reg!Places :
          LookupKey(Reg!At(p)) = LookupKey(r) /\ Reg!Learn(t, knows[t] \cup {p})
  /\ UNCHANGED <<slotVars, callVars>>

(* ... and return a handle on it. *)
Return(t) ==
  /\ pending[t] # None
  /\ \E p \in knows[t] : Reg!Return(t, pending[t], p)
  /\ pending' = [pending EXCEPT ![t] = None]
  /\ UNCHANGED <<slotVars, callVars>>

(* A thread uses a handle on a metric it knows; handles are Copy. *)
Record(t, h) ==
  LET id == Len(records) + 1 IN
  /\ Idle(t)
  /\ h.item \in knows[t]
  /\ id \in RecordIds
  /\ records' = Append(records, h.key)
  /\ slots' = [slots EXCEPT ![h.item] = @ \cup {id}]
  /\ aware' = [aware EXCEPT ![t] = @ \cup {id}]
  /\ UNCHANGED <<registryVars, pending, callVars>>

(* The application orders a step of thread a before the next one of b. *)
Synchronize(a, b) ==
  /\ a # b /\ Idle(a) /\ Idle(b)
  /\ Reg!Learn(b, knows[a] \cup knows[b])
  /\ aware' = [aware EXCEPT ![b] = @ \cup aware[a]]
  /\ UNCHANGED <<pending, records, slots, callVars>>

----------------------------------------------------------------------------
BeginVisit(t) ==
  /\ Idle(t)
  /\ Reg!BeginVisit(t)
  /\ expected' = [expected EXCEPT ![t] = aware[t]]
  /\ UNCHANGED <<pending, slotVars, calls, rows>>

(* What a snapshot leaves in the slot: counters are cumulative. *)
MutAfterSnapshot(p, snapshot) == slots[p] \ snapshot
AfterSnapshot(p, snapshot) == slots[p]

(* The outputs a metric is visited under; an aggregate is not one of them.  *)
MutDirectOutputs(r) ==
  CASE r.api = "register"          -> <<Output(output(r.kind), r.name)>>
    [] r.api = "register_resource" -> <<Output(output(r.kind), r.labels.name)>>
    [] r.api = "register_profile"  -> r.outputs \o r.aggregate
DirectOutputs(r) ==
  CASE r.api = "register"          -> <<Output(output(r.kind), r.name)>>
    [] r.api = "register_resource" -> <<Output(output(r.kind), r.labels.name)>>
    [] r.api = "register_profile"  -> r.outputs

(* The visit reaches the metric at place p and takes one snapshot of it. *)
VisitMetric(t, p) ==
  /\ calls[t] = <<>>
  /\ p \notin seen[t]
  /\ Reg!Visit(t, knows[t] \cup {p}, seen[t] \cup {p}, "running")
  /\ \E snapshot \in SUBSET slots[p] :
       /\ aware[t] \cap slots[p] \subseteq snapshot
       /\ slots' = [slots EXCEPT ![p] = AfterSnapshot(p, snapshot)]
       /\ calls' = [calls EXCEPT ![t] =
            [i \in DOMAIN DirectOutputs(Reg!At(p)) |->
               [item |-> p, output |-> DirectOutputs(Reg!At(p))[i], snapshot |-> snapshot]]]
  /\ UNCHANGED <<pending, records, aware, expected, rows>>

(* The callback is called with the next output and the snapshot. *)
MutRowOf(call) == [call EXCEPT !.snapshot = slots[call.item]]
RowOf(call) == call
Callback(t) ==
  /\ calls[t] # <<>>
  /\ rows' = [rows EXCEPT ![t] = Append(@, RowOf(Head(calls[t])))]
  /\ calls' = [calls EXCEPT ![t] = Tail(@)]
  /\ UNCHANGED <<registryVars, pending, slotVars, expected>>

EndVisit(t) ==
  /\ walk[t] = "running" /\ calls[t] = <<>>
  /\ Reg!Visit(t, knows[t], seen[t], "done")
  /\ UNCHANGED <<pending, slotVars, callVars>>

(* visit returns to its caller. *)
Returned(t) ==
  /\ Reg!EndVisit(t)
  /\ expected' = [expected EXCEPT ![t] = {}]
  /\ rows' = [rows EXCEPT ![t] = <<>>]
  /\ UNCHANGED <<pending, slotVars, calls>>

Next ==
  \E t \in Threads :
    \/ \E r \in Requests : Register(t, r)
    \/ Return(t)
    \/ \E h \in handles : Record(t, h)
    \/ \E u \in Threads : Synchronize(u, t)
    \/ BeginVisit(t)
    \/ \E p \in Reg!Places : VisitMetric(t, p)
    \/ Callback(t) \/ EndVisit(t) \/ Returned(t)

Spec == Init /\ [][Next]_vars

----------------------------------------------------------------------------
(***************************************************************************)
(* Properties.                                                             *)
(***************************************************************************)

(* From a record to the rows of a visit: a record that completed before the *)
(* visit began, whichever thread made it through whichever handle of its    *)
(* key, is in every row of the metric of that key and in no other row, in   *)
(* this visit and in all later ones (lib.rs:165, README "Counters           *)
(* accumulate for the process lifetime").                                   *)
RecordsReachVisit ==
  \A t \in Threads : walk[t] = "done" =>
    \A id \in expected[t] :
      /\ \E i \in DOMAIN rows[t] : id \in rows[t][i].snapshot
      /\ \A i \in DOMAIN rows[t] :
           id \in rows[t][i].snapshot <=> LookupKey(Reg!At(rows[t][i].item)) = records[id]

(* The direct outputs of one metric carry the same counters, whatever is    *)
(* recorded between two calls of the callback: "Direct outputs expose the   *)
(* same cumulative counters" (plan.rs:47).                                  *)
AliasesAgree ==
  \A t \in Threads : \A i, j \in DOMAIN rows[t] :
    rows[t][i].item = rows[t][j].item => rows[t][i].snapshot = rows[t][j].snapshot

(* A visit calls back once for the name of a single metric, and once per    *)
(* view of a plan, without another metric between them and in the order in  *)
(* which the plan that was registered first lists them; "aggregate rows are *)
(* produced only by the Prometheus reader" (lib.rs:169).                    *)
RowsFollowPlan ==
  \A t \in Threads : walk[t] = "done" =>
    \A p \in seen[t] :
      LET r     == Reg!At(p)
          views == IF r.api = "register_profile" THEN Len(r.outputs) ELSE 1
      IN \E b \in 0..Len(rows[t]) :
           /\ {i \in DOMAIN rows[t] : rows[t][i].item = p} = (b + 1)..(b + views)
           /\ IF r.api = "register_profile"
                THEN \A i \in 1..views : rows[t][b + i].output = r.outputs[i]
                ELSE rows[t][b + 1].output.type = output(r.kind)

============================================================================
